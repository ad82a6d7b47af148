-------------------------- MODULE PushDeliveryProofs --------------------------
(***************************************************************************)
(* Proofs about PushDelivery, for any number of requests, configurations,  *)
(* channels and rounds.                                                    *)
(***************************************************************************)
EXTENDS PushDelivery, TLAPS

-----------------------------------------------------------------------------
(* Typing. *)

\* Recipients are names.
LEMMA RecipientsAreNames ==
  ASSUME NEW c, NEW l
  PROVE  Recipients(c, l) \in SUBSET Names
BY DEF Recipients, Reach

\* A handler passes a list of names to Push.
LEMMA AskedForNames ==
  ASSUME TypeOK, NEW k \in Endpoints, NEW l \in NamesFrom(k)
  PROVE  l \in Seq(Names)
<1>1. CASE k = "send"
  BY <1>1, NameListsAssumption DEF NamesFrom
<1>2. CASE k = "bark"
  <2>1. PICK n \in Names : l = <<n>>
    BY <1>2 DEF NamesFrom
  <2> QED
    BY <2>1
<1>3. CASE k = "tawk"
  <2>1. live.tawk \in Names
    BY ConfigsAssumption DEF TypeOK, Config
  <2>2. l \in NameLists \/ l = << >> \/ l = <<live.tawk>>
    BY <1>3 DEF NamesFrom
  <2>3. << >> \in Seq(Names) /\ <<live.tawk>> \in Seq(Names)
    BY <2>1
  <2> QED
    BY <2>2, <2>3, NameListsAssumption
<1> QED
  BY <1>1, <1>2, <1>3 DEF Endpoints

\* The outcome of a call has a status and says whether a retry makes sense.  An
\* error with a clear answer was not taken, a strict success was.
LEMMA OutcomeType ==
  ASSUME NEW t, NEW o \in Outcomes(t)
  PROVE  /\ o.status \in {"success", "error"}
         /\ o.retriable \in BOOLEAN
         /\ o.took \in BOOLEAN
         /\ o.unclear \in BOOLEAN
         /\ o.status = "error" /\ o.took => o.unclear
         /\ o.status = "success" /\ t = "strict" => o.took
<1>1. PICK a \in Answers :
        o \in [status : {Status(a)}, retriable : UNION {Retriable(a, word) : word \in Words},
               took : MayHaveTaken(t, a), unclear : {a \in {"none", "5xx"}}]
  BY DEF Outcomes
<1>2. /\ o.status = Status(a)
      /\ o.took \in MayHaveTaken(t, a)
      /\ o.unclear = (a \in {"none", "5xx"})
      /\ \E word \in Words : o.retriable \in Retriable(a, word)
  BY <1>1
<1>3. o.retriable \in BOOLEAN
  BY <1>2 DEF Words, Retriable
<1>4. CASE a = "2xx"
  <2>0. (a \in {"none", "5xx"}) = FALSE
    BY <1>4
  <2>1. o.status = "success" /\ o.unclear = FALSE
    BY <1>2, <1>4, <2>0 DEF Status
  <2>2. o.took \in BOOLEAN /\ (t = "strict" => o.took = TRUE)
    BY <1>2, <1>4 DEF MayHaveTaken
  <2> QED
    BY <1>3, <2>1, <2>2
<1>5. CASE a = "4xx"
  <2>0. (a \in {"none", "5xx"}) = FALSE
    BY <1>5
  <2>1. o.status = "error" /\ o.unclear = FALSE
    BY <1>2, <1>5, <2>0 DEF Status
  <2>2. o.took = FALSE
    BY <1>2, <1>5 DEF MayHaveTaken
  <2> QED
    BY <1>3, <2>1, <2>2
<1>6. CASE a \in {"none", "5xx"}
  BY <1>2, <1>3, <1>6 DEF Status, MayHaveTaken
<1> QED
  BY <1>4, <1>5, <1>6 DEF Answers

\* Settling a round keeps the location, the round and the results typed.
LEMMA SettleTypes ==
  ASSUME TypeOK, NEW r \in Req, NEW o, o.status \in {"success", "error"},
         Settle(r, o)
  PROVE  /\ pc' \in [Req -> Locations]
         /\ round' \in [Req -> 0 .. MaxRetry - 1]
         /\ results' \in [Req -> [Names -> {"none", "success", "error"}]]
<1> DEFINE last == \/ o.status = "success" \/ ~o.retriable
                   \/ round[r] + 1 >= MaxRetry \/ canceled[r]
<1>0. /\ pc \in [Req -> Locations]
      /\ round \in [Req -> 0 .. MaxRetry - 1]
      /\ results \in [Req -> [Names -> {"none", "success", "error"}]]
      /\ cur[r] \in Names
  BY DEF TypeOK
<1>1. CASE last
  <2>1. /\ results' = [results EXCEPT ![r][cur[r]] = o.status]
        /\ pc' = [pc EXCEPT ![r] = "next"]
        /\ round' = round
    BY <1>1 DEF Settle, Finish, Go
  <2>2. results' \in [Req -> [Names -> {"none", "success", "error"}]]
    BY <1>0, <2>1
  <2>3. "next" \in Locations
    BY DEF Locations
  <2> QED
    BY <1>0, <2>1, <2>2, <2>3
<1>2. CASE ~last
  <2>1. /\ results' = results
        /\ pc' = [pc EXCEPT ![r] = "wait"]
        /\ round' = [round EXCEPT ![r] = @ + 1]
        /\ ~(round[r] + 1 >= MaxRetry)
    BY <1>2 DEF Settle, Again, Go
  <2>2. round' \in [Req -> 0 .. MaxRetry - 1]
    BY <1>0, <2>1, MaxRetryAssumption
  <2>3. "wait" \in Locations
    BY DEF Locations
  <2> QED
    BY <1>0, <2>1, <2>2, <2>3
<1> QED
  BY <1>1, <1>2

\* Every variable of a push stays in its domain (service.go:120-211).
THEOREM Typing == Spec => []TypeOK
<1>1. Init => TypeOK
  <2> SUFFICES ASSUME Init
               PROVE  TypeOK
    OBVIOUS
  <2>1. live \in Configs /\ NoName \in Names /\ 0 \in 0 .. MaxRetry - 1
    BY ConfigsAssumption, NamesAssumption, MaxRetryAssumption DEF Init
  <2>2. /\ results \in [Req -> [Names -> {"none", "success", "error"}]]
        /\ told \in [Req -> [Names -> {"none", "success", "error"}]]
    BY DEF Init, None
  <2>3. /\ tries \in [Req -> [Names -> Nat]]
        /\ accepted \in [Req -> [Names -> Nat]]
        /\ doubts \in [Req -> [Names -> Nat]]
        /\ late \in [Req -> [Names -> Nat]]
    BY DEF Init, Zero
  <2>4. /\ asked \in [Req -> [kind : Endpoints, names : Seq(Names)]]
        /\ recorded \in [Req -> Seq([Names -> {"none", "success", "error"}])]
    BY DEF Init, Nothing, Endpoints
  <2>5. /\ snap \in [Req -> Configs]
        /\ todo \in [Req -> SUBSET Names]
        /\ cur \in [Req -> Names]
        /\ round \in [Req -> 0 .. MaxRetry - 1]
        /\ canceled \in [Req -> BOOLEAN]
        /\ pc \in [Req -> Locations]
        /\ answer \in [Req -> {"none", "rejected", "lost", "failed", "ok"}]
    BY <2>1 DEF Init, Locations
  <2> QED
    BY <2>1, <2>2, <2>3, <2>4, <2>5 DEF Init, TypeOK
<1>2. TypeOK /\ [Next]_vars => TypeOK'
  <2> SUFFICES ASSUME TypeOK, [Next]_vars
               PROVE  TypeOK'
    OBVIOUS
  <2>0. ASSUME NEW r \in Req, NEW o, o.status \in {"success", "error"}, Settle(r, o)
        PROVE  /\ pc' \in [Req -> Locations]
               /\ round' \in [Req -> 0 .. MaxRetry - 1]
               /\ results' \in [Req -> [Names -> {"none", "success", "error"}]]
    BY <2>0, SettleTypes
  <2> USE DEF TypeOK, At, Go, ghosts, control, Locations
  <2>1. ASSUME NEW r \in Req, Arrive(r)
        PROVE  TypeOK'
    <3>0. PICK k \in Endpoints : \E l \in NamesFrom(k) :
             asked' = [asked EXCEPT ![r] = [kind |-> k, names |-> l]]
      BY <2>1 DEF Arrive
    <3>1. PICK l \in NamesFrom(k) : asked' = [asked EXCEPT ![r] = [kind |-> k, names |-> l]]
      BY <3>0
    <3>2. [kind |-> k, names |-> l] \in [kind : Endpoints, names : Seq(Names)]
      BY AskedForNames
    <3>3. asked' \in [Req -> [kind : Endpoints, names : Seq(Names)]]
      BY <3>1, <3>2
    <3> QED
      BY <2>1, <3>3 DEF Arrive
  <2>2. ASSUME NEW r \in Req, Reject(r)
        PROVE  TypeOK'
    BY <2>2 DEF Reject
  <2>3. ASSUME NEW r \in Req, Disconnect(r)
        PROVE  TypeOK'
    BY <2>3 DEF Disconnect
  <2>4. ASSUME NEW r \in Req, Resolve(r)
        PROVE  TypeOK'
    BY <2>4, RecipientsAreNames DEF Resolve
  <2>5. ASSUME NEW r \in Req, NextChannel(r)
        PROVE  TypeOK'
    <3>1. PICK n \in todo[r] : /\ cur' = [cur EXCEPT ![r] = n]
                               /\ todo' = [todo EXCEPT ![r] = @ \ {n}]
      BY <2>5 DEF NextChannel
    <3>2. cur' \in [Req -> Names] /\ todo' \in [Req -> SUBSET Names]
      BY <3>1
    <3>3. round' \in [Req -> 0 .. MaxRetry - 1]
      BY <2>5, MaxRetryAssumption DEF NextChannel
    <3> QED
      BY <2>5, <3>2, <3>3 DEF NextChannel
  <2>6. ASSUME NEW r \in Req, CallUnregistered(r)
        PROVE  TypeOK'
    BY <2>6 DEF CallUnregistered, Finish
  <2>7. ASSUME NEW r \in Req, Call(r)
        PROVE  TypeOK'
    <3>1. tries' \in [Req -> [Names -> Nat]]
      BY <2>7 DEF Call
    <3> QED
      BY <2>7, <3>1 DEF Call
  <2>8. ASSUME NEW r \in Req, CallCanceled(r)
        PROVE  TypeOK'
    <3>1. PICK o \in [status : {"success", "error"}, retriable : BOOLEAN] :
             Settle(r, o) /\ Emit(r, o)
      BY <2>8 DEF CallCanceled
    <3>2. told' \in [Req -> [Names -> {"none", "success", "error"}]]
      BY <3>1 DEF Emit
    <3>3. /\ tries' \in [Req -> [Names -> Nat]]
          /\ late' \in [Req -> [Names -> Nat]]
      BY <2>8 DEF CallCanceled
    <3>4. /\ pc' \in [Req -> Locations]
          /\ round' \in [Req -> 0 .. MaxRetry - 1]
          /\ results' \in [Req -> [Names -> {"none", "success", "error"}]]
      <4>1. o.status \in {"success", "error"}
        OBVIOUS
      <4>2. Settle(r, o)
        BY <3>1
      <4> QED
        BY <4>1, <4>2, <2>0, SMTT(30)
    <3> QED
      BY <2>8, <3>2, <3>3, <3>4 DEF CallCanceled
  <2>9. ASSUME NEW r \in Req, Return(r)
        PROVE  TypeOK'
    <3>1. PICK o \in Outcomes(Type(r)) :
             /\ accepted' = [accepted EXCEPT ![r][cur[r]] = @ + One(o.took)]
             /\ doubts' = [doubts EXCEPT ![r][cur[r]] = @ + One(o.took /\ o.unclear)]
             /\ Emit(r, o)
             /\ Settle(r, o)
      BY <2>9 DEF Return
    <3>2. told' \in [Req -> [Names -> {"none", "success", "error"}]]
      BY <3>1, OutcomeType DEF Emit
    <3>3. /\ accepted' \in [Req -> [Names -> Nat]]
          /\ doubts' \in [Req -> [Names -> Nat]]
      BY <3>1 DEF One
    <3>4. /\ pc' \in [Req -> Locations]
          /\ round' \in [Req -> 0 .. MaxRetry - 1]
          /\ results' \in [Req -> [Names -> {"none", "success", "error"}]]
      BY <3>1, <2>0, OutcomeType
    <3> QED
      BY <2>9, <3>2, <3>3, <3>4 DEF Return
  <2>10. ASSUME NEW r \in Req, Retry(r)
         PROVE  TypeOK'
    BY <2>10 DEF Retry
  <2>11. ASSUME NEW r \in Req, GiveUp(r)
         PROVE  TypeOK'
    BY <2>11 DEF GiveUp, Finish
  <2>12. ASSUME NEW r \in Req, Respond(r)
         PROVE  TypeOK'
    BY <2>12 DEF Respond
  <2>13. ASSUME NEW r \in Req, Record(r)
         PROVE  TypeOK'
    <3> DEFINE Report == [Names -> {"none", "success", "error"}]
    <3>0. recorded[r] \in Seq(Report) /\ results[r] \in Report
      OBVIOUS
    <3> HIDE DEF Report
    <3>1. Append(recorded[r], results[r]) \in Seq(Report)
      BY <3>0
    <3>2. recorded' \in [Req -> Seq(Report)]
      BY <2>13, <3>1 DEF Record, Report
    <3> USE DEF Report
    <3> QED
      BY <2>13, <3>2 DEF Record
  <2>14. CASE Reload \/ Shutdown \/ CloseStore \/ Exit
    BY <2>14, ConfigsAssumption DEF Reload, Shutdown, CloseStore, Exit
  <2>15. CASE UNCHANGED vars
    BY <2>15 DEF vars
  <2> QED
    BY <2>1, <2>2, <2>3, <2>4, <2>5, <2>6, <2>7, <2>8, <2>9, <2>10, <2>11, <2>12, <2>13,
       <2>14, <2>15 DEF Next, Handler
<1> QED
  BY <1>1, <1>2, PTL DEF Spec
-----------------------------------------------------------------------------
(* Safety. *)

\* The part of the typing that the safety argument uses.
LEMMA Domains ==
  ASSUME TypeOK, NEW r \in Req
  PROVE  /\ pc \in [Req -> Locations] /\ pc[r] \in Locations
         /\ todo \in [Req -> SUBSET Names] /\ todo[r] \subseteq Names
         /\ cur \in [Req -> Names] /\ cur[r] \in Names
         /\ answer \in [Req -> {"none", "rejected", "lost", "failed", "ok"}]
         /\ results \in [Req -> [Names -> {"none", "success", "error"}]]
         /\ told \in [Req -> [Names -> {"none", "success", "error"}]]
         /\ accepted \in [Req -> [Names -> Nat]]
         /\ doubts \in [Req -> [Names -> Nat]]
         /\ late \in [Req -> [Names -> Nat]]
BY DEF TypeOK

\* A step that changes nothing of request q keeps its invariant.
LEMMA Frame ==
  ASSUME NEW q \in Req, ReqInv(q),
         server' = server, forced' = forced,
         pc'[q] = pc[q], asked'[q] = asked[q], snap'[q] = snap[q], todo'[q] = todo[q],
         cur'[q] = cur[q], results'[q] = results[q], answer'[q] = answer[q],
         recorded'[q] = recorded[q], accepted'[q] = accepted[q], doubts'[q] = doubts[q],
         late'[q] = late[q], told'[q] = told[q]
  PROVE  ReqInv(q)'
<1>1. Pushed(q)' = Pushed(q) /\ Serving(q)' = Serving(q) /\ Pending(q)' = Pending(q)
  BY DEF Pushed, Serving, Pending
<1>2. Targets(q)' = Targets(q)
  BY DEF Targets, Unresolvable, Recipients, Reach, Closed, LeadsTo, IsGroup, IsChannel, Roots,
         Elements
<1>3. Recording(q)' = Recording(q)
  BY <1>1 DEF Recording
<1>4. Progress(q)'
  BY <1>1, <1>2, <1>3 DEF ReqInv, Progress
<1>5. Disjoint(q)'
  BY <1>1 DEF ReqInv, Disjoint
<1>6. Tally(q)'
  BY <1>1 DEF ReqInv, Tally, TypeIn
<1>7. Waiting(q)' /\ Ledger(q)'
  BY <1>3 DEF ReqInv, Waiting, Ledger
<1> QED
  BY <1>4, <1>5, <1>6, <1>7 DEF ReqInv

\* The targets of a push depend on what it was asked and resolved against.
LEMMA TargetsFixed ==
  ASSUME NEW r \in Req, asked'[r] = asked[r], snap'[r] = snap[r]
  PROVE  Targets(r)' = Targets(r)
BY DEF Targets, Unresolvable, Recipients, Reach, Closed, LeadsTo, IsGroup, IsChannel, Roots,
       Elements

\* A channel that gets its result moves from pending to pushed.  The caller
\* shows that the counters of that channel are in order.
LEMMA FinishKeepsInv ==
  ASSUME TypeOK, NEW r \in Req, ReqInv(r), Serving(r), server # "gone",
         NEW status \in {"success", "error"}, Finish(r, status),
         server' = server, forced' = forced, asked' = asked, snap' = snap, todo' = todo,
         cur' = cur, answer' = answer, recorded' = recorded,
         \A n \in Names \ {cur[r]} :
           /\ accepted'[r][n] = accepted[r][n] /\ doubts'[r][n] = doubts[r][n]
           /\ late'[r][n] = late[r][n] /\ told'[r][n] = told[r][n],
         accepted'[r][cur[r]] <= 1 + doubts'[r][cur[r]],
         late'[r][cur[r]] <= 1,
         status = "success" /\ TypeIn(r, cur[r]) = "strict" => accepted'[r][cur[r]] > 0,
         TypeIn(r, cur[r]) # "unregistered" => told'[r][cur[r]] = status
  PROVE  ReqInv(r)'
<1>0. /\ cur[r] \in Names /\ todo[r] \subseteq Names
      /\ pc'[r] = "next"
      /\ results'[r][cur[r]] = status
      /\ \A n \in Names \ {cur[r]} : results'[r][n] = results[r][n]
  BY Domains DEF Finish, Go
<1>1. Pushed(r)' = Pushed(r) \cup {cur[r]}
  BY <1>0 DEF Pushed
<1>2. ~Serving(r)' /\ Pending(r)' = todo[r] /\ Pending(r) = todo[r] \cup {cur[r]}
  BY <1>0 DEF Serving, Pending
<1>3. Targets(r)' = Targets(r)
  BY TargetsFixed
<1>4. Progress(r)'
  BY <1>0, <1>1, <1>2, <1>3 DEF ReqInv, Progress, Serving
<1>5. Disjoint(r)'
  BY <1>1, <1>2 DEF ReqInv, Disjoint
<1>6. Tally(r)'
  <2> SUFFICES ASSUME NEW n \in Names
               PROVE  /\ n \notin Pushed(r)' => accepted'[r][n] = doubts'[r][n] /\ late'[r][n] = 0
                      /\ accepted'[r][n] <= 1 + doubts'[r][n]
                      /\ late'[r][n] <= 1
                      /\ results'[r][n] = "success" /\ TypeIn(r, n) = "strict" => accepted'[r][n] > 0
                      /\ n \in Pushed(r)' /\ TypeIn(r, n) # "unregistered" =>
                           told'[r][n] = results'[r][n]
    BY DEF Tally, TypeIn
  <2>1. CASE n = cur[r]
    BY <1>0, <1>1, <2>1
  <2>2. CASE n # cur[r]
    BY <1>0, <1>1, <2>2 DEF ReqInv, Tally
  <2> QED
    BY <2>1, <2>2
<1>7. Waiting(r)' /\ Ledger(r)'
  <2>1. pc[r] # "done" /\ pc[r] # "idle"
    BY DEF Serving
  <2> QED
    BY <1>0, <2>1 DEF ReqInv, Waiting, Ledger
<1> QED
  BY <1>4, <1>5, <1>6, <1>7 DEF ReqInv

\* A channel that waits for its next round stays pending, all in doubt.
LEMMA WaitKeepsInv ==
  ASSUME TypeOK, NEW r \in Req, ReqInv(r), pc[r] = "flight", pc' = [pc EXCEPT ![r] = "wait"],
         results' = results,
         server' = server, forced' = forced, asked' = asked, snap' = snap, todo' = todo,
         cur' = cur, answer' = answer, recorded' = recorded, late' = late,
         \A n \in Names \ {cur[r]} :
           /\ accepted'[r][n] = accepted[r][n] /\ doubts'[r][n] = doubts[r][n]
           /\ told'[r][n] = told[r][n],
         accepted'[r][cur[r]] - accepted[r][cur[r]] = doubts'[r][cur[r]] - doubts[r][cur[r]],
         accepted'[r][cur[r]] \in Nat, doubts'[r][cur[r]] \in Nat,
         told'[r][cur[r]] = "error"
  PROVE  ReqInv(r)'
<1>0. /\ cur[r] \in Names /\ todo[r] \subseteq Names
      /\ pc'[r] = "wait"
      /\ accepted[r][cur[r]] \in Nat /\ doubts[r][cur[r]] \in Nat
  BY Domains
<1>1. Pushed(r)' = Pushed(r) /\ Serving(r) /\ Serving(r)' /\ Pending(r)' = Pending(r)
  BY <1>0 DEF Pushed, Serving, Pending
<1>2. cur[r] \notin Pushed(r)
  BY <1>1 DEF ReqInv, Disjoint, Pending
<1>3. Progress(r)' /\ Disjoint(r)'
  BY <1>0, <1>1, TargetsFixed DEF ReqInv, Progress, Disjoint
<1>4. Tally(r)'
  <2> SUFFICES ASSUME NEW n \in Names
               PROVE  /\ n \notin Pushed(r)' => accepted'[r][n] = doubts'[r][n] /\ late'[r][n] = 0
                      /\ accepted'[r][n] <= 1 + doubts'[r][n]
                      /\ late'[r][n] <= 1
                      /\ results'[r][n] = "success" /\ TypeIn(r, n) = "strict" => accepted'[r][n] > 0
                      /\ n \in Pushed(r)' /\ TypeIn(r, n) # "unregistered" =>
                           told'[r][n] = results'[r][n]
    BY DEF Tally, TypeIn
  <2>1. CASE n = cur[r]
    <3>1. results[r][n] = "none"
      BY <1>2, <2>1 DEF Pushed
    <3> QED
      BY <1>0, <1>1, <1>2, <2>1, <3>1 DEF ReqInv, Tally
  <2>2. CASE n # cur[r]
    BY <1>1, <2>2 DEF ReqInv, Tally
  <2> QED
    BY <2>1, <2>2
<1>5. Waiting(r)' /\ Ledger(r)'
  BY <1>0 DEF ReqInv, Waiting, Ledger
<1> QED
  BY <1>3, <1>4, <1>5 DEF ReqInv

\* Settling the answer of a call keeps the invariant of its request.
LEMMA ReturnKeepsInv ==
  ASSUME TypeOK, NEW r \in Req, ReqInv(r), Return(r)
  PROVE  ReqInv(r)'
<1>1. PICK o \in Outcomes(Type(r)) :
         /\ accepted' = [accepted EXCEPT ![r][cur[r]] = @ + One(o.took)]
         /\ doubts' = [doubts EXCEPT ![r][cur[r]] = @ + One(o.took /\ o.unclear)]
         /\ Emit(r, o)
         /\ Settle(r, o)
  BY DEF Return
<1>2. /\ server # "gone" /\ pc[r] = "flight" /\ Serving(r)
      /\ server' = server /\ forced' = forced /\ asked' = asked /\ snap' = snap
      /\ todo' = todo /\ cur' = cur /\ answer' = answer /\ recorded' = recorded
      /\ late' = late
  BY DEF Return, At, Serving
<1>3. /\ o.status \in {"success", "error"} /\ o.retriable \in BOOLEAN /\ o.took \in BOOLEAN
      /\ o.unclear \in BOOLEAN
      /\ o.status = "error" /\ o.took => o.unclear
      /\ o.status = "success" /\ Type(r) = "strict" => o.took
  BY <1>1, OutcomeType
<1>4. /\ cur[r] \in Names
      /\ accepted[r][cur[r]] \in Nat /\ doubts[r][cur[r]] \in Nat
      /\ pc[r] \in Locations
  BY Domains
<1>5. /\ accepted'[r][cur[r]] = accepted[r][cur[r]] + One(o.took)
      /\ doubts'[r][cur[r]] = doubts[r][cur[r]] + One(o.took /\ o.unclear)
      /\ told'[r][cur[r]] = o.status
  BY <1>1, <1>4, Domains DEF Emit
<1>6. \A n \in Names \ {cur[r]} :
           /\ accepted'[r][n] = accepted[r][n] /\ doubts'[r][n] = doubts[r][n]
           /\ late'[r][n] = late[r][n] /\ told'[r][n] = told[r][n]
  BY <1>1, <1>2, <1>4, Domains DEF Emit
<1>7. accepted[r][cur[r]] = doubts[r][cur[r]] /\ late[r][cur[r]] = 0
  BY <1>2, <1>4 DEF ReqInv, Disjoint, Tally, Pending
<1>8. CASE Finish(r, o.status)
  <2>1. accepted'[r][cur[r]] <= 1 + doubts'[r][cur[r]]
    BY <1>3, <1>4, <1>5, <1>7 DEF One
  <2>2. late'[r][cur[r]] <= 1
    BY <1>2, <1>7
  <2>3. o.status = "success" /\ TypeIn(r, cur[r]) = "strict" => accepted'[r][cur[r]] > 0
    BY <1>3, <1>4, <1>5 DEF One, Type
  <2> QED
    BY <1>2, <1>3, <1>5, <1>6, <1>8, <2>1, <2>2, <2>3, FinishKeepsInv
<1>9. CASE o.status # "success" /\ o.retriable /\ Go(r, "wait") /\ results' = results
  <2>1. One(o.took) = One(o.took /\ o.unclear) /\ One(o.took) \in Nat
    BY <1>3, <1>9 DEF One
  <2>2. /\ accepted'[r][cur[r]] - accepted[r][cur[r]] = doubts'[r][cur[r]] - doubts[r][cur[r]]
        /\ accepted'[r][cur[r]] \in Nat /\ doubts'[r][cur[r]] \in Nat
    BY <1>4, <1>5, <2>1
  <2>3. told'[r][cur[r]] = "error" /\ pc' = [pc EXCEPT ![r] = "wait"]
    BY <1>3, <1>5, <1>9 DEF Go
  <2> QED
    BY <1>2, <1>6, <1>9, <2>2, <2>3, WaitKeepsInv
<1> QED
  BY <1>1, <1>8, <1>9 DEF Settle, Again

\* PushInv holds in every reachable state.
THEOREM Safety == Spec => []PushInv
<1>1. Init => PushInv
  <2> SUFFICES ASSUME Init, NEW r \in Req
               PROVE  ReqInv(r)
    BY DEF PushInv
  <2>1. Pushed(r) = {} /\ pc[r] = "idle"
    BY DEF Init, Pushed, None
  <2>2. Progress(r) /\ Disjoint(r) /\ Waiting(r)
    BY <2>1 DEF Init, Progress, Disjoint, Waiting, Pending, Serving
  <2>3. Tally(r)
    BY <2>1 DEF Init, Tally, Zero, None
  <2>4. Ledger(r)
    BY <2>1 DEF Init, Ledger
  <2> QED
    BY <2>2, <2>3, <2>4 DEF ReqInv
<1>2. TypeOK /\ TypeOK' /\ PushInv /\ [Next]_vars => PushInv'
  <2> SUFFICES ASSUME TypeOK, TypeOK', PushInv, [Next]_vars, NEW q \in Req
               PROVE  ReqInv(q)'
    BY DEF PushInv
  <2>0. ReqInv(q)
    BY DEF PushInv
  <2> USE DEF At, Go, control, ghosts
  <2>1. ASSUME NEW r \in Req, Arrive(r)
        PROVE  ReqInv(q)'
    <3>1. CASE q = r
      <4>1. /\ pc[q] = "idle" /\ pc'[q] = "resolve" /\ Pushed(q)' = Pushed(q)
            /\ todo'[q] = {} /\ Pushed(q) = {} /\ answer'[q] = "none" /\ server = "up"
            /\ recorded'[q] = << >>
        BY <2>0, <2>1, <3>1, Domains DEF Arrive, ReqInv, Progress, Ledger, Pushed
      <4>2. Tally(q)'
        BY <2>0, <2>1, <4>1 DEF Arrive, ReqInv, Tally, TypeIn
      <4> QED
        BY <2>0, <2>1, <4>1, <4>2 DEF Arrive, ReqInv, Progress, Disjoint, Waiting, Ledger,
                                      Serving, Pending
    <3>2. CASE q # r
      BY <2>0, <2>1, <3>2, Frame DEF Arrive, TypeOK
    <3> QED
      BY <3>1, <3>2
  <2>2. ASSUME NEW r \in Req, Reject(r)
        PROVE  ReqInv(q)'
    <3>1. CASE q = r
      <4>0. /\ pc[q] = "idle" /\ pc'[q] = "done" /\ answer'[q] = "rejected"
            /\ Pushed(q)' = Pushed(q)
        BY <2>2, <3>1, Domains DEF Reject, Pushed
      <4>1. /\ todo'[q] = {} /\ Pushed(q) = {} /\ recorded'[q] = << >>
        BY <2>0, <2>2, <4>0 DEF Reject, ReqInv, Progress, Ledger
      <4>2. Tally(q)'
        BY <2>0, <2>2, <4>0, <4>1 DEF Reject, ReqInv, Tally, TypeIn
      <4> QED
        BY <2>0, <2>2, <4>0, <4>1, <4>2 DEF Reject, ReqInv, Progress, Disjoint, Waiting, Ledger, Serving,
                                Pending, Recording
    <3>2. CASE q # r
      BY <2>0, <2>2, <3>2, Frame DEF Reject, TypeOK
    <3> QED
      BY <3>1, <3>2
  <2>3. ASSUME NEW r \in Req, Disconnect(r)
        PROVE  ReqInv(q)'
    BY <2>0, <2>3, Frame DEF Disconnect
  <2>4. ASSUME NEW r \in Req, Resolve(r)
        PROVE  ReqInv(q)'
    <3>1. CASE q = r
      <4>1. /\ pc[q] = "resolve" /\ pc'[q] = "next" /\ Pushed(q)' = Pushed(q)
            /\ Pushed(q) = {} /\ answer'[q] = "none" /\ server # "gone"
            /\ recorded'[q] = << >>
        BY <2>0, <2>4, <3>1, Domains DEF Resolve, ReqInv, Progress, Ledger, Pushed
      <4>2. snap'[q] = live /\ asked'[q] = asked[q]
        BY <2>4, <3>1 DEF Resolve, TypeOK
      <4>3. todo'[q] = IF Unresolvable(live, asked[q].names) THEN {}
                       ELSE Recipients(live, asked[q].names)
        BY <2>4, <3>1, Domains DEF Resolve
      <4>4. Targets(q)' = todo'[q]
        BY <4>2, <4>3 DEF Targets, Unresolvable, Recipients, Reach, Closed, LeadsTo, IsGroup,
                          IsChannel, Roots, Elements
      <4>5. Tally(q)'
        <5>1. \A n \in Names : results'[q][n] = "none"
          BY <4>1 DEF Pushed
        <5> QED
          BY <2>0, <2>4, <4>1, <5>1 DEF Resolve, ReqInv, Tally
      <4>6. Pending(q)' = todo'[q] /\ ~Serving(q)'
        BY <4>1 DEF Pending, Serving
      <4>7. Ledger(q)'
        BY <2>0, <2>4, <4>1 DEF Resolve, ReqInv, Ledger
      <4> QED
        BY <4>1, <4>4, <4>5, <4>6, <4>7 DEF ReqInv, Progress, Disjoint, Waiting
    <3>2. CASE q # r
      BY <2>0, <2>4, <3>2, Frame DEF Resolve, TypeOK
    <3> QED
      BY <3>1, <3>2
  <2>5. ASSUME NEW r \in Req, NextChannel(r)
        PROVE  ReqInv(q)'
    <3>1. CASE q = r
      <4>1. PICK n \in todo[r] : /\ cur' = [cur EXCEPT ![r] = n]
                                 /\ todo' = [todo EXCEPT ![r] = @ \ {n}]
        BY <2>5 DEF NextChannel
      <4>2. /\ pc[q] = "next" /\ pc'[q] = "call" /\ cur'[q] = n /\ todo'[q] = todo[q] \ {n}
            /\ n \in todo[q]
        BY <2>5, <3>1, <4>1, Domains DEF NextChannel
      <4>3. Pushed(q)' = Pushed(q) /\ Targets(q)' = Targets(q)
        BY <2>5, TargetsFixed DEF NextChannel, Pushed
      <4>4. Pending(q)' = Pending(q) /\ Serving(q)'
        BY <4>2 DEF Pending, Serving
      <4>5. Tally(q)'
        BY <2>0, <2>5, <4>3 DEF NextChannel, ReqInv, Tally, TypeIn
      <4>6. Ledger(q)' /\ Waiting(q)'
        BY <2>0, <2>5, <4>2 DEF NextChannel, ReqInv, Ledger, Waiting
      <4>7. Progress(q)' /\ Disjoint(q)'
        BY <2>0, <2>5, <4>2, <4>3, <4>4 DEF NextChannel, ReqInv, Progress, Disjoint
      <4> QED
        BY <4>5, <4>6, <4>7 DEF ReqInv
    <3>2. CASE q # r
      BY <2>0, <2>5, <3>2, Frame DEF NextChannel, TypeOK
    <3> QED
      BY <3>1, <3>2
  <2>6. ASSUME NEW r \in Req, CallUnregistered(r)
        PROVE  ReqInv(q)'
    <3>1. CASE q = r
      <4>1. Serving(q) /\ TypeIn(q, cur[q]) = "unregistered" /\ cur[q] \in Names
        BY <2>6, <3>1, Domains DEF CallUnregistered, Serving, Type
      <4>2. /\ accepted[q][cur[q]] <= 1 + doubts[q][cur[q]]
            /\ late[q][cur[q]] <= 1
        BY <2>0, <4>1 DEF ReqInv, Tally
      <4> QED
        BY <2>0, <2>6, <3>1, <4>1, <4>2, FinishKeepsInv DEF CallUnregistered
    <3>2. CASE q # r
      BY <2>0, <2>6, <3>2, Frame DEF CallUnregistered, Finish, TypeOK
    <3> QED
      BY <3>1, <3>2
  <2>7. ASSUME NEW r \in Req, Call(r)
        PROVE  ReqInv(q)'
    <3>1. CASE q = r
      <4>1. pc[q] = "call" /\ pc'[q] = "flight"
        BY <2>7, <3>1, Domains DEF Call
      <4>2. /\ Pushed(q)' = Pushed(q) /\ Pending(q)' = Pending(q)
            /\ Serving(q) /\ Serving(q)' /\ Targets(q)' = Targets(q)
        BY <2>7, <4>1, TargetsFixed DEF Call, Pushed, Pending, Serving
      <4>3. Tally(q)'
        BY <2>0, <2>7, <4>2 DEF Call, ReqInv, Tally, TypeIn
      <4> QED
        BY <2>0, <2>7, <4>1, <4>2, <4>3 DEF Call, ReqInv, Progress, Disjoint, Waiting, Ledger
    <3>2. CASE q # r
      BY <2>0, <2>7, <3>2, Frame DEF Call, TypeOK
    <3> QED
      BY <3>1, <3>2
  <2>8. ASSUME NEW r \in Req, CallCanceled(r)
        PROVE  ReqInv(q)'
    <3>1. PICK s \in {"success", "error"} :
             /\ Finish(r, s)
             /\ told' = [told EXCEPT ![r][cur[r]] = s]
             /\ s = "success" => Type(r) = "wecom"
      BY <2>8 DEF CallCanceled, Settle, Emit
    <3>2. CASE q = r
      <4>1. Serving(q) /\ cur[q] \in Names /\ cur[q] \in Pending(q)
        BY <2>8, <3>2, Domains DEF CallCanceled, Serving, Pending
      <4>2. accepted[q][cur[q]] <= 1 + doubts[q][cur[q]] /\ late[q][cur[q]] = 0
        BY <2>0, <4>1 DEF ReqInv, Tally, Disjoint
      <4>3. late'[q][cur[q]] <= 1 /\ told'[q][cur[q]] = s
        BY <2>8, <3>1, <3>2, <4>1, <4>2, Domains DEF CallCanceled
      <4>4. \A n \in Names \ {cur[q]} :
               late'[q][n] = late[q][n] /\ told'[q][n] = told[q][n]
        BY <2>8, <3>1, <3>2, Domains DEF CallCanceled
      <4>5. /\ accepted' = accepted /\ doubts' = doubts /\ server # "gone"
            /\ server' = server /\ forced' = forced /\ asked' = asked /\ snap' = snap
            /\ todo' = todo /\ cur' = cur /\ answer' = answer /\ recorded' = recorded
        BY <2>8 DEF CallCanceled
      <4>6. s = "success" => TypeIn(q, cur[q]) # "strict"
        BY <3>1, <3>2 DEF Type
      <4> QED
        BY <2>0, <3>1, <3>2, <4>1, <4>2, <4>3, <4>4, <4>5, <4>6, FinishKeepsInv
    <3>3. CASE q # r
      BY <2>0, <2>8, <3>1, <3>3, Frame DEF CallCanceled, Finish, TypeOK
    <3> QED
      BY <3>2, <3>3
  <2>9. ASSUME NEW r \in Req, Return(r)
        PROVE  ReqInv(q)'
    <3>1. CASE q = r
      BY <2>0, <2>9, <3>1, ReturnKeepsInv
    <3>2. CASE q # r
      <4>1. /\ pc'[q] = pc[q] /\ results'[q] = results[q]
            /\ accepted'[q] = accepted[q] /\ doubts'[q] = doubts[q] /\ told'[q] = told[q]
        BY <2>9, <3>2, Domains DEF Return, Settle, Finish, Again, Emit
      <4> QED
        BY <2>0, <2>9, <4>1, Frame DEF Return
    <3> QED
      BY <3>1, <3>2
  <2>10. ASSUME NEW r \in Req, Retry(r)
         PROVE  ReqInv(q)'
    <3>1. CASE q = r
      <4>1. pc[q] = "wait" /\ pc'[q] = "call"
        BY <2>10, <3>1, Domains DEF Retry
      <4>2. /\ Pushed(q)' = Pushed(q) /\ Pending(q)' = Pending(q)
            /\ Serving(q) /\ Serving(q)' /\ Targets(q)' = Targets(q)
        BY <2>10, <4>1, TargetsFixed DEF Retry, Pushed, Pending, Serving
      <4>3. Tally(q)'
        BY <2>0, <2>10, <4>2 DEF Retry, ReqInv, Tally, TypeIn
      <4> QED
        BY <2>0, <2>10, <4>1, <4>2, <4>3 DEF Retry, ReqInv, Progress, Disjoint, Waiting, Ledger
    <3>2. CASE q # r
      BY <2>0, <2>10, <3>2, Frame DEF Retry, TypeOK
    <3> QED
      BY <3>1, <3>2
  <2>11. ASSUME NEW r \in Req, GiveUp(r)
         PROVE  ReqInv(q)'
    <3>1. CASE q = r
      <4>1. /\ Serving(q) /\ told[q][cur[q]] = "error" /\ cur[q] \in Names
        BY <2>0, <2>11, <3>1, Domains DEF GiveUp, Serving, ReqInv, Waiting
      <4>2. /\ accepted[q][cur[q]] <= 1 + doubts[q][cur[q]]
            /\ late[q][cur[q]] <= 1
        BY <2>0, <4>1 DEF ReqInv, Tally
      <4> QED
        BY <2>0, <2>11, <3>1, <4>1, <4>2, FinishKeepsInv DEF GiveUp
    <3>2. CASE q # r
      BY <2>0, <2>11, <3>2, Frame DEF GiveUp, Finish, TypeOK
    <3> QED
      BY <3>1, <3>2
  <2>12. ASSUME NEW r \in Req, Respond(r)
         PROVE  ReqInv(q)'
    <3>1. CASE q = r
      <4>1. /\ pc[q] = "next" /\ todo'[q] = {} /\ todo[q] = {} /\ server # "gone"
            /\ answer'[q] \in {"lost", "failed", "ok"}
            /\ pc'[q] = IF Recording(q) THEN "record" ELSE "done"
        BY <2>12, <3>1, Domains DEF Respond
      <4>2. /\ Pushed(q)' = Pushed(q) /\ Targets(q)' = Targets(q)
            /\ Recording(q)' = Recording(q)
        BY <2>12, TargetsFixed DEF Respond, Pushed, Recording
      <4>3. Pending(q) = {} /\ Pending(q)' = {} /\ ~Serving(q)'
        BY <4>1 DEF Pending, Serving
      <4>4. Tally(q)'
        BY <2>0, <2>12, <4>2 DEF Respond, ReqInv, Tally, TypeIn
      <4>5. Progress(q)' /\ Disjoint(q)'
        BY <2>0, <4>1, <4>2, <4>3 DEF ReqInv, Progress, Disjoint
      <4>6. Ledger(q)' /\ Waiting(q)'
        BY <2>0, <2>12, <4>1, <4>2 DEF Respond, ReqInv, Ledger, Waiting
      <4> QED
        BY <4>4, <4>5, <4>6 DEF ReqInv
    <3>2. CASE q # r
      BY <2>0, <2>12, <3>2, Frame DEF Respond, TypeOK
    <3> QED
      BY <3>1, <3>2
  <2>13. ASSUME NEW r \in Req, Record(r)
         PROVE  ReqInv(q)'
    <3>1. CASE q = r
      <4>1. /\ pc[q] = "record" /\ pc'[q] = "done" /\ server # "gone"
            /\ recorded[q] = << >>
            /\ recorded'[q] = IF server = "closed" THEN << >> ELSE <<results[q]>>
        BY <2>0, <2>13, <3>1, Domains DEF Record, ReqInv, Ledger, TypeOK
      <4>2. /\ Pushed(q)' = Pushed(q) /\ Targets(q)' = Targets(q)
            /\ Recording(q)' = Recording(q) /\ Pending(q)' = Pending(q) /\ ~Serving(q)'
        BY <2>13, <4>1, TargetsFixed DEF Record, Pushed, Recording, Pending, Serving
      <4>3. Recording(q) /\ asked[q].kind # "bark"
        BY <2>0, <4>1 DEF ReqInv, Progress, Recording
      <4>4. Tally(q)'
        BY <2>0, <2>13, <4>2 DEF Record, ReqInv, Tally, TypeIn
      <4>5. Progress(q)' /\ Disjoint(q)' /\ Waiting(q)'
        BY <2>0, <2>13, <4>1, <4>2 DEF Record, ReqInv, Progress, Disjoint, Waiting, Serving
      <4>6. Ledger(q)'
        BY <2>0, <2>13, <4>1, <4>3 DEF Record, ReqInv, Ledger
      <4> QED
        BY <4>4, <4>5, <4>6 DEF ReqInv
    <3>2. CASE q # r
      BY <2>0, <2>13, <3>2, Frame DEF Record, TypeOK
    <3> QED
      BY <3>1, <3>2
  <2>14. CASE Reload
    BY <2>0, <2>14, Frame DEF Reload
  <2>15. CASE Shutdown \/ CloseStore \/ Exit
    <3>1. /\ Pushed(q)' = Pushed(q) /\ Serving(q)' = Serving(q) /\ Pending(q)' = Pending(q)
          /\ Targets(q)' = Targets(q) /\ Recording(q)' = Recording(q)
      BY <2>15, TargetsFixed DEF Shutdown, CloseStore, Exit, Pushed, Serving, Pending, Recording
    <3>2. Progress(q)' /\ Disjoint(q)' /\ Waiting(q)'
      BY <2>0, <2>15, <3>1 DEF Shutdown, CloseStore, Exit, ReqInv, Progress, Disjoint, Waiting
    <3>3. Tally(q)'
      BY <2>0, <2>15, <3>1 DEF Shutdown, CloseStore, Exit, ReqInv, Tally, TypeIn
    <3>4. Ledger(q)'
      <4>1. CASE Shutdown
        BY <2>0, <3>1, <4>1 DEF Shutdown, ReqInv, Ledger
      <4>2. CASE Exit
        BY <2>0, <3>1, <4>2 DEF Exit, ReqInv, Ledger
      <4>3. CASE CloseStore
        <5>1. ~forced /\ (pc[q] \notin {"idle", "done"} => forced')
          BY <2>0, <4>3 DEF CloseStore, ReqInv, Ledger
        <5> QED
          BY <2>0, <3>1, <4>3, <5>1 DEF CloseStore, ReqInv, Ledger
      <4> QED
        BY <2>15, <4>1, <4>2, <4>3
    <3> QED
      BY <3>2, <3>3, <3>4 DEF ReqInv
  <2>16. CASE UNCHANGED vars
    BY <2>0, <2>16, Frame DEF vars
  <2> QED
    BY <2>1, <2>2, <2>3, <2>4, <2>5, <2>6, <2>7, <2>8, <2>9, <2>10, <2>11, <2>12, <2>13,
       <2>14, <2>15, <2>16 DEF Next, Handler
<1> QED
  BY <1>1, <1>2, Typing, PTL DEF Spec
-----------------------------------------------------------------------------
(* What follows from the invariant. *)

\* Every answered push has exactly one result for each channel it was for
\* (service.go:129-139).
THEOREM EveryRecipientAnswered == Spec => []OneResultPerRecipient
<1>1. PushInv => OneResultPerRecipient
  BY DEF PushInv, ReqInv, Progress, OneResultPerRecipient
<1> QED
  BY <1>1, Safety, PTL

\* No channel gets a message twice without a doubtful answer (service.go:149-164).
THEOREM NoRetryAfterClearAnswer == Spec => []DuplicatesNeedDoubt
<1>1. PushInv => DuplicatesNeedDoubt
  BY DEF PushInv, ReqInv, Tally, DuplicatesNeedDoubt
<1> QED
  BY <1>1, Safety, PTL

\* A strict channel is reported as pushed only if its provider took the message
\* (provider_pushoo.go:49-56).
THEOREM SuccessIsTrue == Spec => []SuccessIsReal
<1>1. PushInv => SuccessIsReal
  BY DEF PushInv, ReqInv, Tally, SuccessIsReal
<1> QED
  BY <1>1, Safety, PTL

\* A canceled request costs each channel at most one more call
\* (service.go:161-171).
THEOREM CancellationIsPrompt == Spec => []CancelBoundsCalls
<1>1. PushInv => CancelBoundsCalls
  BY DEF PushInv, ReqInv, Tally, CancelBoundsCalls
<1> QED
  BY <1>1, Safety, PTL

\* The history holds each recorded push once, as answered, unless a shutdown
\* ran out of grace (api.go:663-686).
THEOREM HistoryIsComplete == Spec => []HistoryComplete
<1>1. PushInv => HistoryComplete
  BY DEF PushInv, ReqInv, Ledger, HistoryComplete
<1> QED
  BY <1>1, Safety, PTL

\* The last event of a channel tells its result (service.go:194-208).
THEOREM EventsAgree == Spec => []EventsTellTheResult
<1>1. PushInv => EventsTellTheResult
  BY DEF PushInv, ReqInv, Tally, EventsTellTheResult, Pushed
<1> QED
  BY <1>1, Safety, PTL

\* A result, once there, stands, and its provider is not called again
\* (service.go:130-138).
THEOREM ResultStands == Spec => ResultIsFinal
<1>1. TypeOK /\ PushInv /\ [Next]_vars =>
        [\A r \in Req : \A n \in Pushed(r) :
           results'[r][n] = results[r][n] /\ tries'[r][n] = tries[r][n]]_vars
  <2> SUFFICES ASSUME TypeOK, PushInv, Next, NEW q \in Req, NEW n \in Pushed(q)
               PROVE  results'[q][n] = results[q][n] /\ tries'[q][n] = tries[q][n]
    OBVIOUS
  <2>1. /\ n \in Names /\ (Serving(q) => n # cur[q])
        /\ results \in [Req -> [Names -> {"none", "success", "error"}]]
        /\ tries \in [Req -> [Names -> Nat]]
    BY DEF TypeOK, PushInv, ReqInv, Disjoint, Pushed, Pending
  <2>2. ASSUME NEW r \in Req, At(r, "call") \/ At(r, "flight") \/ At(r, "wait"),
               \/ tries' = tries
               \/ tries' = [tries EXCEPT ![r][cur[r]] = @ + 1],
               \/ results' = results
               \/ \E s : results' = [results EXCEPT ![r][cur[r]] = s]
        PROVE  results'[q][n] = results[q][n] /\ tries'[q][n] = tries[q][n]
    BY <2>1, <2>2 DEF At, Serving
  <2>3. ASSUME NEW r \in Req,
               CallUnregistered(r) \/ Call(r) \/ CallCanceled(r) \/ Return(r) \/ GiveUp(r)
        PROVE  results'[q][n] = results[q][n] /\ tries'[q][n] = tries[q][n]
    <3>1. /\ At(r, "call") \/ At(r, "flight") \/ At(r, "wait")
          /\ tries' = tries \/ tries' = [tries EXCEPT ![r][cur[r]] = @ + 1]
          /\ results' = results \/ \E s : results' = [results EXCEPT ![r][cur[r]] = s]
      BY <2>3 DEF CallUnregistered, Call, CallCanceled, Return, GiveUp, Settle, Finish, Again,
                  ghosts
    <3> QED
      BY <2>2, <3>1
  <2>4. ASSUME NEW r \in Req,
               \/ Arrive(r) \/ Reject(r) \/ Disconnect(r) \/ Resolve(r)
               \/ NextChannel(r) \/ Retry(r) \/ Respond(r) \/ Record(r)
        PROVE  results' = results /\ tries' = tries
    BY <2>4 DEF Arrive, Reject, Disconnect, Resolve, NextChannel, Retry, Respond, Record, control,
                ghosts
  <2>5. ASSUME Reload \/ Shutdown \/ CloseStore \/ Exit
        PROVE  results' = results /\ tries' = tries
    BY <2>5 DEF Reload, Shutdown, CloseStore, Exit, control, ghosts
  <2> QED
    BY <2>3, <2>4, <2>5 DEF Next, Handler
<1> QED
  BY <1>1, Typing, Safety, PTL DEF Spec, ResultIsFinal
-----------------------------------------------------------------------------
(* The end of every push. *)

\* What the argument sees of a request.
Seen(r) == <<pc[r], todo[r], cur[r], round[r], tries[r]>>

\* One more call of the channel being served.
OneMore(r) == tries'[r] = [tries[r] EXCEPT ![cur[r]] = @ + 1]

\* What a step of its handler does with that.
Move(r) ==
  \/ /\ pc[r] = "resolve" /\ pc'[r] = "next"
     /\ tries'[r] = tries[r]
  \/ /\ pc[r] = "next" /\ pc'[r] = "call"
     /\ cur'[r] \in todo[r] /\ todo'[r] = todo[r] \ {cur'[r]} /\ round'[r] = 0
     /\ tries'[r] = tries[r]
  \/ /\ pc[r] = "next" /\ pc'[r] \in {"record", "done"}
     /\ UNCHANGED <<todo[r], round[r], tries[r]>>
  \/ /\ pc[r] = "record" /\ pc'[r] = "done"
     /\ UNCHANGED <<todo[r], round[r], tries[r]>>
  \/ /\ pc[r] = "call" /\ pc'[r] \in {"flight", "next"}
     /\ UNCHANGED <<todo[r], cur[r], round[r]>>
     /\ OneMore(r) \/ (tries'[r] = tries[r] /\ pc'[r] = "next")
  \/ /\ pc[r] \in {"flight", "wait"} /\ pc'[r] = "next"
     /\ UNCHANGED <<todo[r], cur[r], round[r], tries[r]>>
  \/ /\ pc[r] = "flight" /\ pc'[r] = "wait" /\ round'[r] = round[r] + 1
     /\ UNCHANGED <<todo[r], cur[r], tries[r]>>
  \/ /\ pc[r] = "wait" /\ pc'[r] = "call"
     /\ UNCHANGED <<todo[r], cur[r], round[r], tries[r]>>

\* Settling the answer of a call ends in a result or in a wait.
LEMMA SettleMoves ==
  ASSUME TypeOK, NEW r \in Req, NEW o, Settle(r, o)
  PROVE  \/ pc'[r] = "next" /\ round'[r] = round[r]
         \/ pc'[r] = "wait" /\ round'[r] = round[r] + 1 /\ ~canceled[r]
BY DEF TypeOK, Settle, Finish, Again, Go

LEMMA HandlerMoves ==
  ASSUME TypeOK, NEW r \in Req, Handler(r)
  PROVE  Move(r)
<1>0. /\ pc \in [Req -> Locations] /\ todo \in [Req -> SUBSET Names]
      /\ cur \in [Req -> Names] /\ cur[r] \in Names
      /\ round \in [Req -> 0 .. MaxRetry - 1]
      /\ tries \in [Req -> [Names -> Nat]]
  BY DEF TypeOK
<1>1. CASE Resolve(r)
  BY <1>0, <1>1 DEF Resolve, At, Go, ghosts, Move
<1>2. CASE NextChannel(r)
  BY <1>0, <1>2 DEF NextChannel, At, Go, ghosts, Move
<1>3. CASE CallUnregistered(r)
  BY <1>0, <1>3 DEF CallUnregistered, At, Go, Finish, ghosts, Move
<1>4. CASE Call(r)
  <2>1. OneMore(r)
    BY <1>0, <1>4 DEF Call, OneMore
  <2>2. pc[r] = "call" /\ pc'[r] = "flight" /\ UNCHANGED <<todo[r], cur[r], round[r]>>
    BY <1>0, <1>4 DEF Call, At, Go
  <2> QED BY <2>1, <2>2 DEF Move
<1>5. CASE CallCanceled(r)
  <2>1. OneMore(r)
    BY <1>0, <1>5 DEF CallCanceled, OneMore
  <2>2. PICK o : Settle(r, o)
    BY <1>5 DEF CallCanceled
  <2>3. pc'[r] = "next" /\ round'[r] = round[r]
    BY <1>5, <2>2, SettleMoves DEF CallCanceled
  <2> QED BY <1>5, <2>1, <2>3 DEF CallCanceled, At, Move
<1>6. CASE Return(r)
  <2>1. PICK o : Settle(r, o)
    BY <1>6 DEF Return
  <2>2. \/ pc'[r] = "next" /\ round'[r] = round[r]
        \/ pc'[r] = "wait" /\ round'[r] = round[r] + 1
    BY <2>1, SettleMoves
  <2> QED BY <1>6, <2>2 DEF Return, At, Move
<1>7. CASE Retry(r)
  BY <1>0, <1>7 DEF Retry, At, Go, ghosts, Move
<1>8. CASE GiveUp(r)
  BY <1>0, <1>8 DEF GiveUp, At, Go, Finish, ghosts, Move
<1>9. CASE Respond(r)
  BY <1>0, <1>9 DEF Respond, At, Go, ghosts, Move
<1>10. CASE Record(r)
  BY <1>0, <1>10 DEF Record, At, Go, ghosts, Move
<1> QED BY <1>1, <1>2, <1>3, <1>4, <1>5, <1>6, <1>7, <1>8, <1>9, <1>10 DEF Handler

\* The steps of others, and those that are no handler's.
LEMMA OthersSeen ==
  ASSUME TypeOK, NEW q \in Req, [Next]_vars
  PROVE  \/ UNCHANGED Seen(q)
         \/ pc[q] = "idle" /\ pc'[q] \in {"resolve", "done"}
            /\ UNCHANGED <<todo[q], round[q], tries[q]>>
         \/ Handler(q)
<1> USE DEF TypeOK, At, Go, ghosts, control, Seen
<1>1. ASSUME NEW r \in Req, Arrive(r) \/ Reject(r) \/ Disconnect(r)
      PROVE  \/ UNCHANGED Seen(q)
             \/ pc[q] = "idle" /\ pc'[q] \in {"resolve", "done"}
                /\ UNCHANGED <<todo[q], round[q], tries[q]>>
  BY <1>1 DEF Arrive, Reject, Disconnect
<1>2. ASSUME NEW r \in Req, Handler(r), r # q PROVE UNCHANGED Seen(q)
  <2>1. ASSUME NEW o, Settle(r, o) PROVE pc'[q] = pc[q] /\ round'[q] = round[q]
    BY <1>2, <2>1 DEF Settle, Finish, Again
  <2>2. CASE Resolve(r) \/ NextChannel(r) \/ CallUnregistered(r) \/ Call(r)
    BY <1>2, <2>2 DEF Resolve, NextChannel, CallUnregistered, Call, Finish
  <2>3. CASE CallCanceled(r)
    BY <1>2, <2>1, <2>3 DEF CallCanceled
  <2>4. CASE Return(r)
    BY <1>2, <2>1, <2>4 DEF Return
  <2>5. CASE Retry(r) \/ GiveUp(r) \/ Respond(r) \/ Record(r)
    BY <1>2, <2>5 DEF Retry, GiveUp, Respond, Record, Finish
  <2> QED BY <1>2, <2>2, <2>3, <2>4, <2>5 DEF Handler
<1>3. CASE Reload \/ Shutdown \/ CloseStore \/ Exit \/ UNCHANGED vars
  BY <1>3 DEF Reload, Shutdown, CloseStore, Exit, vars
<1> QED BY <1>1, <1>2, <1>3 DEF Next

\* Moves count the calls of a channel by its rounds.
LEMMA MovesCount ==
  ASSUME TypeOK, TypeOK', NEW r \in Req, ReqInv(r), Rounds(r), Move(r)
  PROVE  Rounds(r)'
<1>0. /\ cur[r] \in Names /\ cur'[r] \in Names /\ todo[r] \subseteq Names
      /\ round[r] \in 0 .. MaxRetry - 1 /\ round'[r] \in 0 .. MaxRetry - 1
      /\ tries[r] \in [Names -> Nat] /\ MaxRetry \in Nat
      /\ todo'[r] \subseteq Names
  BY MaxRetryAssumption DEF TypeOK
<1>1. pc[r] \in {"call", "flight", "wait"} => cur[r] \notin todo[r]
  BY DEF ReqInv, Disjoint, Serving
<1> USE <1>0 DEF Rounds
<1>2. CASE pc[r] = "resolve" /\ pc'[r] = "next" /\ tries'[r] = tries[r]
  BY <1>2
<1>3. CASE OneMore(r) /\ pc[r] = "call" /\ pc'[r] \in {"flight", "next"}
           /\ UNCHANGED <<todo[r], cur[r], round[r]>>
  <2>1. /\ tries'[r][cur[r]] = round[r] + 1
        /\ \A n \in Names \ {cur[r]} : tries'[r][n] = tries[r][n]
    BY <1>3 DEF OneMore
  <2> QED BY <1>1, <1>3, <2>1
<1>4. CASE pc[r] # "resolve" /\ tries'[r] = tries[r]
  <2>1. CASE pc[r] = "next" /\ pc'[r] = "call"
    <3>1. cur'[r] \in todo[r] /\ todo'[r] = todo[r] \ {cur'[r]} /\ round'[r] = 0
      BY <2>1 DEF Move
    <3> QED BY <1>4, <2>1, <3>1
  <2>2. CASE pc'[r] \in {"next", "record", "done"} /\ todo'[r] = todo[r]
    BY <1>4, <2>2
  <2>3. CASE pc[r] = "flight" /\ pc'[r] = "wait"
    <3>1. round'[r] = round[r] + 1 /\ UNCHANGED <<todo[r], cur[r]>>
      BY <2>3 DEF Move
    <3> QED BY <1>4, <2>3, <3>1
  <2>4. CASE pc[r] = "wait" /\ pc'[r] = "call"
    <3>1. UNCHANGED <<todo[r], cur[r], round[r]>>
      BY <2>4 DEF Move
    <3> QED BY <1>4, <2>4, <3>1
  <2>5. \/ pc[r] = "next" /\ pc'[r] = "call"
        \/ pc'[r] \in {"next", "record", "done"} /\ todo'[r] = todo[r]
        \/ pc[r] = "flight" /\ pc'[r] = "wait"
        \/ pc[r] = "wait" /\ pc'[r] = "call"
        \/ pc[r] = "call" /\ pc'[r] = "flight" /\ OneMore(r)
    BY <1>4 DEF Move
  <2>6. CASE pc[r] = "call" /\ pc'[r] = "flight" /\ OneMore(r)
    BY <1>3, <2>6 DEF Move
  <2> QED BY <2>1, <2>2, <2>3, <2>4, <2>5, <2>6
<1> QED BY <1>2, <1>3, <1>4 DEF Move

\* A channel is called at most MaxRetry times for a push, for any number of
\* requests that share the configuration, whatever its service answers and
\* whenever its client leaves (service.go:146-160).
THEOREM RetriesAreBounded == Spec => []RoundsBounded
<1>1. Init => RoundsBounded
  BY MaxRetryAssumption DEF Init, RoundsBounded, Rounds, Zero
<1>2. TypeOK /\ TypeOK' /\ PushInv /\ RoundsBounded /\ [Next]_vars => RoundsBounded'
  <2> SUFFICES ASSUME TypeOK, TypeOK', PushInv, RoundsBounded, [Next]_vars, NEW q \in Req
               PROVE  Rounds(q)'
    BY DEF RoundsBounded
  <2>1. ReqInv(q) /\ Rounds(q)
    BY DEF PushInv, RoundsBounded
  <2>2. CASE UNCHANGED Seen(q)
    BY <2>1, <2>2 DEF Seen, Rounds
  <2>3. CASE pc[q] = "idle" /\ pc'[q] \in {"resolve", "done"}
             /\ UNCHANGED <<todo[q], round[q], tries[q]>>
    BY <2>1, <2>3 DEF Rounds
  <2>4. CASE Handler(q)
    BY <2>1, <2>4, HandlerMoves, MovesCount
  <2> QED BY <2>2, <2>3, <2>4, OthersSeen
<1> QED BY <1>1, <1>2, Typing, Safety, PTL DEF Spec

\* A move leaves less to do.
LEMMA MovesCloser ==
  ASSUME TypeOK, TypeOK', NEW r \in Req, Move(r)
  PROVE  Closer(r)
<1>0. /\ round[r] \in 0 .. MaxRetry - 1 /\ round'[r] \in 0 .. MaxRetry - 1
      /\ MaxRetry \in Nat
  BY MaxRetryAssumption DEF TypeOK
<1>1. CASE \/ pc[r] \in {"resolve", "record"}
           \/ pc[r] = "next" /\ pc'[r] \in {"record", "done"}
  BY <1>1 DEF Move, Closer, Stage, Serving
<1>2. CASE pc[r] = "next" /\ pc'[r] = "call"
  BY <1>2 DEF Move, Closer, Stage, Serving
<1>3. CASE pc[r] \in {"call", "flight", "wait"}
  <2>1. Stage(r) = 2 /\ Stage(r)' = 2 /\ todo'[r] = todo[r]
    BY <1>3 DEF Move, Stage, Serving
  <2>2. Effort(r)' < Effort(r)
    BY <1>0, <1>3 DEF Move, Effort
  <2> QED BY <2>1, <2>2 DEF Closer
<1>4. /\ pc[r] \in {"resolve", "next", "call", "flight", "wait", "record"}
      /\ pc[r] = "next" => pc'[r] \in {"call", "record", "done"}
  BY DEF Move
<1> QED BY <1>1, <1>2, <1>3, <1>4

\* Every step of a handler lowers what is left of its push, in the order of
\* stages, then channels, then rounds of one channel, of which a push has
\* finitely many; no other step raises it.  With a handler that is run this is
\* EveryPushEnds (service.go:120-177).
THEOREM PushesCloseIn == Spec => AlwaysCloser
<1>1. TypeOK /\ TypeOK' /\ [Next]_vars =>
        [\A r \in Req :
           /\ Handler(r) => Closer(r)
           /\ pc[r] # "idle" => Closer(r) \/ UNCHANGED <<pc[r], todo[r], round[r]>>]_vars
  <2> SUFFICES ASSUME TypeOK, TypeOK', [Next]_vars, NEW r \in Req
               PROVE  /\ Handler(r) => Closer(r)
                      /\ pc[r] # "idle" => Closer(r) \/ UNCHANGED <<pc[r], todo[r], round[r]>>
    OBVIOUS
  <2>1. Handler(r) => Closer(r)
    BY HandlerMoves, MovesCloser
  <2>2. UNCHANGED Seen(r) => UNCHANGED <<pc[r], todo[r], round[r]>>
    BY DEF Seen
  <2> QED BY <2>1, <2>2, OthersSeen
<1> QED BY <1>1, Typing, PTL DEF Spec, AlwaysCloser
=============================================================================
