---------------------------- MODULE PushDelivery ----------------------------
(***************************************************************************)
(* Push requests from the HTTP handler to the push history: handleSend,    *)
(* handleBark, handleBarkV2 and handleTawkWebhook, push.Service.Push with  *)
(* its retries, the events it emits and the record it leaves behind.       *)
(*                                                                         *)
(* Requests run concurrently, each on its own goroutine.  They share the   *)
(* live configuration, which may be reloaded between any two steps, and    *)
(* the store, which main closes during shutdown.  A provider may accept a  *)
(* message and lose its answer; a client may go away, which cancels the    *)
(* context of its request.                                                 *)
(***************************************************************************)
EXTENDS ChannelGraph

CONSTANTS
  Req,         \* the requests
  TypeOf,      \* the type each configuration gives the channel of each name
  NameLists,   \* the lists of names a client may pass
  MaxRetry     \* ServiceOptions.MaxRetry, 5 in app.go

\* "strict" services take a message they answer with 2xx, "lenient" ones may
\* refuse it in the body of such an answer, which no provider reads; "wecom" is
\* lenient and also reports success when it could not get an access token;
\* "unregistered" is a type that no provider is registered for.
Types == {"strict", "lenient", "wecom", "unregistered"}

Endpoints == {"send", "bark", "tawk"}

ASSUME TypeOfAssumption    == TypeOf \in [Configs -> [Names -> Types]]
ASSUME NameListsAssumption == NameLists \subseteq Seq(Names)
ASSUME MaxRetryAssumption  == MaxRetry \in Nat \ {0}

VARIABLES
  live,       \* the configuration in memory
  server,     \* "up", "draining" (http.Server.Shutdown), "closed" (the
              \* deferred cleanup has run) or "gone"
  forced,     \* the shutdown grace ran out before the handlers returned
  pc,         \* where each handler is
  asked,      \* the endpoint of each request and the names it passes to Push
  snap,       \* the configuration each push was resolved against
  todo,       \* recipients not yet reached
  cur,        \* the recipient being served
  round,      \* the loop variable of pushOneWithRetry
  canceled,   \* r.Context() is done
  results,    \* per recipient: "none", "success" or "error"
  answer,     \* what the client was told
  recorded    \* what history holds of the request, << >> for nothing

\* What happened at the providers, which the program cannot read back.
VARIABLES
  tries,      \* calls of Provider.Send
  accepted,   \* messages the provider took
  doubts,     \* messages taken without a clear answer: none at all, or a 5xx
  late,       \* calls of Send begun after the context was done
  told        \* status of the last event broadcast, per recipient

control == <<pc, asked, snap, todo, cur, round, results, answer, recorded>>
ghosts  == <<tries, accepted, doubts, late, told>>
vars    == <<live, server, forced, canceled, control, ghosts>>

Zero == [r \in Req |-> [n \in Names |-> 0]]
\* Before it arrives.
Nothing == [kind |-> "send", names |-> << >>]
None == [r \in Req |-> [n \in Names |-> "none"]]

Init ==
  /\ live \in Configs
  /\ server = "up"
  /\ forced = FALSE
  /\ pc = [r \in Req |-> "idle"]
  /\ asked = [r \in Req |-> Nothing]
  /\ snap = [r \in Req |-> live]
  /\ todo = [r \in Req |-> {}]
  /\ cur = [r \in Req |-> NoName]
  /\ round = [r \in Req |-> 0]
  /\ canceled = [r \in Req |-> FALSE]
  /\ results = None
  /\ answer = [r \in Req |-> "none"]
  /\ recorded = [r \in Req |-> << >>]
  /\ tries = Zero
  /\ accepted = Zero
  /\ doubts = Zero
  /\ late = Zero
  /\ told = None

At(r, loc) == server # "gone" /\ pc[r] = loc
Go(r, loc) == pc' = [pc EXCEPT ![r] = loc]

Pushed(r)    == {n \in Names : results[r][n] # "none"}
Recording(r) == asked[r].kind \in {"send", "tawk"} /\ Pushed(r) # {}
TypeIn(r, n) == TypeOf[snap[r]][n]
-----------------------------------------------------------------------------
(* The handler up to the push. *)

\* The names a handler passes to Push: splitChan drops empty names, the Bark
\* handlers pass exactly one name even if it is empty, the Tawk handler falls
\* back on the configuration it reads now, before Push reads it again.
NamesFrom(kind) ==
  LET given == {l \in NameLists : NoName \notin Elements(l)}
  IN  CASE kind = "send" -> given
        [] kind = "bark" -> {<<n>> : n \in Names}
        [] kind = "tawk" -> (given \ {<< >>})
                              \cup {IF live.tawk = NoName THEN << >> ELSE <<live.tawk>>}

Arrive(r) ==
  /\ At(r, "idle")
  /\ server = "up"
  /\ \E k \in Endpoints : \E l \in NamesFrom(k) :
       asked' = [asked EXCEPT ![r] = [kind |-> k, names |-> l]]
  /\ Go(r, "resolve")
  /\ UNCHANGED <<live, server, forced, canceled, snap, todo, cur, round, results, answer,
                 recorded, ghosts>>

\* A bad token, a banned address, a bad signature or a malformed body.
Reject(r) ==
  /\ At(r, "idle")
  /\ server = "up"
  /\ answer' = [answer EXCEPT ![r] = "rejected"]
  /\ Go(r, "done")
  /\ UNCHANGED <<live, server, forced, canceled, asked, snap, todo, cur, round, results,
                 recorded, ghosts>>

\* ResolveChannels, proved to return Recipients in ResolveChannelsProofs.
Resolve(r) ==
  /\ At(r, "resolve")
  /\ snap' = [snap EXCEPT ![r] = live]
  /\ todo' = [todo EXCEPT ![r] = IF Unresolvable(live, asked[r].names) THEN {}
                                 ELSE Recipients(live, asked[r].names)]
  /\ Go(r, "next")
  /\ UNCHANGED <<live, server, forced, canceled, asked, cur, round, results, answer,
                 recorded, ghosts>>
-----------------------------------------------------------------------------
(* Push and pushOneWithRetry. *)

\* Slip: the channel is not taken off the work to do.
NextChannelAgain(r) ==
  /\ At(r, "next")
  /\ \E n \in todo[r] : cur' = [cur EXCEPT ![r] = n]
  /\ round' = [round EXCEPT ![r] = 0]
  /\ Go(r, "call")
  /\ UNCHANGED <<live, server, forced, canceled, asked, snap, todo, results, answer, recorded,
                 ghosts>>

\* The loop over the resolved channels, in the order of a Go map.
NextChannel(r) ==
  /\ At(r, "next")
  /\ \E n \in todo[r] :
       /\ cur' = [cur EXCEPT ![r] = n]
       /\ todo' = [todo EXCEPT ![r] = @ \ {n}]
  /\ round' = [round EXCEPT ![r] = 0]
  /\ Go(r, "call")
  /\ UNCHANGED <<live, server, forced, canceled, asked, snap, results, answer, recorded,
                 ghosts>>

Finish(r, status) ==
  /\ results' = [results EXCEPT ![r][cur[r]] = status]
  /\ Go(r, "next")
  /\ round' = round

Again(r) ==
  /\ Go(r, "wait")
  /\ round' = [round EXCEPT ![r] = @ + 1]
  /\ results' = results

\* Slip: the words of the detail are looked at before the status.
SettleByWords(r, o) ==
  IF ~o.retriable \/ round[r] + 1 >= MaxRetry \/ canceled[r]
    THEN Finish(r, o.status)
    ELSE Again(r)

\* Slip: one round too many.
SettleOneMore(r, o) ==
  IF o.status = "success" \/ ~o.retriable \/ round[r] >= MaxRetry \/ canceled[r]
    THEN Finish(r, o.status)
    ELSE Again(r)

\* Slip: the wait looks at the clock alone.
SettleSleeps(r, o) ==
  IF o.status = "success" \/ ~o.retriable \/ round[r] + 1 >= MaxRetry
    THEN Finish(r, o.status)
    ELSE Again(r)

\* What pushOneWithRetry does with what pushOnce returned: stop on success,
\* stop when a retry is pointless or the rounds are used up, else wait; a
\* context that is done already ends the wait before the timer can.
Settle(r, o) ==
  IF o.status = "success" \/ ~o.retriable \/ round[r] + 1 >= MaxRetry \/ canceled[r]
    THEN Finish(r, o.status)
    ELSE Again(r)

\* Slip: only successful calls are announced.
EmitSuccess(r, o) ==
  told' = IF o.status = "success" THEN [told EXCEPT ![r][cur[r]] = "success"] ELSE told

\* pushOnce emits one event for every call of a provider.
Emit(r, o) == told' = [told EXCEPT ![r][cur[r]] = o.status]

Type(r) == TypeIn(r, cur[r])

\* pushOnce without a provider: an error, no event, no retry.
CallUnregistered(r) ==
  /\ At(r, "call")
  /\ Type(r) = "unregistered"
  /\ Finish(r, "error")
  /\ UNCHANGED <<live, server, forced, canceled, asked, snap, todo, cur, answer, recorded,
                 ghosts>>

Call(r) ==
  /\ At(r, "call")
  /\ Type(r) # "unregistered"
  /\ ~canceled[r]
  /\ tries' = [tries EXCEPT ![r][cur[r]] = @ + 1]
  /\ Go(r, "flight")
  /\ UNCHANGED <<live, server, forced, canceled, asked, snap, todo, cur, round, results,
                 answer, recorded, accepted, doubts, late, told>>

\* With the context done http.Client.Do fails before anything is sent, with an
\* error that may look retriable; wecom's token request swallows it.
CallCanceled(r) ==
  /\ At(r, "call")
  /\ Type(r) # "unregistered"
  /\ canceled[r]
  /\ tries' = [tries EXCEPT ![r][cur[r]] = @ + 1]
  /\ late' = [late EXCEPT ![r][cur[r]] = @ + 1]
  /\ \E again \in BOOLEAN :
       LET o == [status |-> IF Type(r) = "wecom" THEN "success" ELSE "error",
                 retriable |-> again]
       IN  Emit(r, o) /\ Settle(r, o)
  /\ UNCHANGED <<live, server, forced, canceled, asked, snap, todo, cur, answer, recorded,
                 accepted, doubts>>

\* What comes back from a service: nothing (timeout, reset), or an HTTP status.
Answers == {"none", "2xx", "4xx", "5xx"}

\* What else the text that shouldRetry reads may hold: the address and the body
\* are part of it.  "hint" is a word it takes for a network error or, after the
\* last "status code", a number from 500 on; "denial" a smaller one there.
Words == {"plain", "hint", "denial"}

\* shouldRetry.  A net.Error may call itself temporary whatever its words.
Retriable(a, word) ==
  CASE word = "hint"   -> {TRUE}
    [] word = "denial" -> IF a = "none" THEN BOOLEAN ELSE {FALSE}
    [] word = "plain"  -> IF a = "none" THEN BOOLEAN ELSE {a = "5xx"}

\* Whether the service may have taken the message it answers this way.
MayHaveTaken(type, a) ==
  CASE a = "2xx"            -> IF type = "strict" THEN {TRUE} ELSE BOOLEAN
    [] a = "4xx"            -> {FALSE}
    [] a \in {"none", "5xx"} -> BOOLEAN

\* Slip: the HTTP status of the answer is not looked at.
StatusUnread(a) == IF a = "none" THEN "error" ELSE "success"

\* The end of every Send.
Status(a) == IF a = "2xx" THEN "success" ELSE "error"

\* What a call of Send may come back with, and what happened at the service.
Outcomes(type) ==
  UNION {[status    : {Status(a)},
          retriable : UNION {Retriable(a, word) : word \in Words},
          took      : MayHaveTaken(type, a),
          unclear   : {a \in {"none", "5xx"}}] : a \in Answers}

One(b) == IF b THEN 1 ELSE 0

Return(r) ==
  /\ At(r, "flight")
  /\ \E o \in Outcomes(Type(r)) :
       /\ accepted' = [accepted EXCEPT ![r][cur[r]] = @ + One(o.took)]
       /\ doubts' = [doubts EXCEPT ![r][cur[r]] = @ + One(o.took /\ o.unclear)]
       /\ Emit(r, o)
       /\ Settle(r, o)
  /\ UNCHANGED <<live, server, forced, canceled, asked, snap, todo, cur, answer, recorded,
                 tries, late>>

\* select { <-time.After(RetryInterval) }: both cases may be ready by now.
Retry(r) ==
  /\ At(r, "wait")
  /\ Go(r, "call")
  /\ UNCHANGED <<live, server, forced, canceled, asked, snap, todo, cur, round, results,
                 answer, recorded, ghosts>>

\* select { <-ctx.Done() }: the channel is given up.
GiveUp(r) ==
  /\ At(r, "wait")
  /\ canceled[r]
  /\ Finish(r, "error")
  /\ UNCHANGED <<live, server, forced, canceled, asked, snap, todo, cur, answer, recorded,
                 ghosts>>
-----------------------------------------------------------------------------
(* The handler after the push. *)

\* Slip: the answer is written before every channel has its result.
RespondEarly(r) ==
  /\ At(r, "next")
  /\ answer' = [answer EXCEPT ![r] = "ok"]
  /\ Go(r, IF Recording(r) THEN "record" ELSE "done")
  /\ UNCHANGED <<live, server, forced, canceled, asked, snap, todo, cur, round, results,
                 recorded, ghosts>>

\* Slip: the handler waits for a first result that may never come.
RespondWaits(r) ==
  /\ At(r, "next")
  /\ todo[r] = {} /\ Pushed(r) # {}
  /\ answer' = [answer EXCEPT ![r] = "ok"]
  /\ Go(r, IF Recording(r) THEN "record" ELSE "done")
  /\ UNCHANGED <<live, server, forced, canceled, asked, snap, todo, cur, round, results,
                 recorded, ghosts>>

\* Bark answers 200 whatever happened, the others 500 if nothing was pushed.
\* The write fails if the client is gone or the write timeout has passed.
Respond(r) ==
  /\ At(r, "next")
  /\ todo[r] = {}
  /\ \E lost \in BOOLEAN :
       answer' = [answer EXCEPT ![r] =
                    IF lost THEN "lost"
                    ELSE IF asked[r].kind # "bark" /\ Pushed(r) = {} THEN "failed" ELSE "ok"]
  /\ Go(r, IF Recording(r) THEN "record" ELSE "done")
  /\ UNCHANGED <<live, server, forced, canceled, asked, snap, todo, cur, round, results,
                 recorded, ghosts>>

\* Slip: the history is written on the context of the request.
RecordOnRequest(r) ==
  /\ At(r, "record")
  /\ recorded' = IF server = "closed" \/ canceled[r] THEN recorded
                 ELSE [recorded EXCEPT ![r] = Append(@, results[r])]
  /\ Go(r, "done")
  /\ UNCHANGED <<live, server, forced, canceled, asked, snap, todo, cur, round, results,
                 answer, ghosts>>

\* Store.Record on a context of its own: a client that left does not matter, a
\* closed store does.
Record(r) ==
  /\ At(r, "record")
  /\ recorded' = IF server = "closed" THEN recorded
                 ELSE [recorded EXCEPT ![r] = Append(@, results[r])]
  /\ Go(r, "done")
  /\ UNCHANGED <<live, server, forced, canceled, asked, snap, todo, cur, round, results,
                 answer, ghosts>>
-----------------------------------------------------------------------------
(* The surroundings. *)

Disconnect(r) ==
  /\ server # "gone"
  /\ pc[r] \notin {"idle", "done"}
  /\ ~canceled[r]
  /\ canceled' = [canceled EXCEPT ![r] = TRUE]
  /\ UNCHANGED <<live, server, forced, control, ghosts>>

Reload ==
  /\ server \in {"up", "draining"}
  /\ live' \in Configs \ {live}
  /\ UNCHANGED <<server, forced, canceled, control, ghosts>>

Shutdown ==
  /\ server = "up"
  /\ server' = "draining"
  /\ UNCHANGED <<live, forced, canceled, control, ghosts>>

\* Shutdown returns when no handler runs or when its grace of ten seconds ends;
\* a single channel may take a minute.  Then cleanup closes the store.
CloseStore ==
  /\ server = "draining"
  /\ server' = "closed"
  /\ forced' = \E r \in Req : pc[r] \notin {"idle", "done"}
  /\ UNCHANGED <<live, canceled, control, ghosts>>

Exit ==
  /\ server = "closed"
  /\ server' = "gone"
  /\ UNCHANGED <<live, forced, canceled, control, ghosts>>

Handler(r) ==
  \/ Resolve(r)
  \/ NextChannel(r)
  \/ CallUnregistered(r)
  \/ Call(r)
  \/ CallCanceled(r)
  \/ Return(r)
  \/ Retry(r)
  \/ GiveUp(r)
  \/ Respond(r)
  \/ Record(r)

Next ==
  \/ \E r \in Req : Arrive(r) \/ Reject(r) \/ Disconnect(r) \/ Handler(r)
  \/ Reload
  \/ Shutdown
  \/ CloseStore
  \/ Exit

\* A goroutine runs, a call returns within HTTPTimeout, a timer fires.
Spec == Init /\ [][Next]_vars /\ \A r \in Req : WF_vars(Handler(r))
-----------------------------------------------------------------------------
Locations == {"idle", "resolve", "next", "call", "flight", "wait", "record", "done"}

\* Every variable stays in its domain; rounds stay below MaxRetry
\* (service.go:146).
TypeOK ==
  /\ live \in Configs
  /\ server \in {"up", "draining", "closed", "gone"}
  /\ forced \in BOOLEAN
  /\ pc \in [Req -> Locations]
  /\ asked \in [Req -> [kind : Endpoints, names : Seq(Names)]]
  /\ snap \in [Req -> Configs]
  /\ todo \in [Req -> SUBSET Names]
  /\ cur \in [Req -> Names]
  /\ round \in [Req -> 0 .. MaxRetry - 1]
  /\ canceled \in [Req -> BOOLEAN]
  /\ results \in [Req -> [Names -> {"none", "success", "error"}]]
  /\ answer \in [Req -> {"none", "rejected", "lost", "failed", "ok"}]
  /\ recorded \in [Req -> Seq([Names -> {"none", "success", "error"}])]
  /\ tries \in [Req -> [Names -> Nat]]
  /\ accepted \in [Req -> [Names -> Nat]]
  /\ doubts \in [Req -> [Names -> Nat]]
  /\ late \in [Req -> [Names -> Nat]]
  /\ told \in [Req -> [Names -> {"none", "success", "error"}]]

Targets(r) ==
  IF Unresolvable(snap[r], asked[r].names) THEN {} ELSE Recipients(snap[r], asked[r].names)

\* An answered push has one result for each channel its names led to in the
\* configuration it was resolved against, whatever was reloaded, canceled or
\* retried since, and none for any other (service.go:129-139).
OneResultPerRecipient ==
  \A r \in Req : answer[r] \in {"lost", "failed", "ok"} => Pushed(r) = Targets(r)

\* Whatever words the answers hold, a channel gets a message twice only if its
\* service took it and then answered with a 5xx or not at all: a success ends
\* the rounds even if its text looks retriable (service.go:149-164, 213-246).
DuplicatesNeedDoubt ==
  \A r \in Req, n \in Names : accepted[r][n] <= 1 + doubts[r][n]

\* A channel of a strict type is reported as pushed only if its service took
\* the message, in this round or an earlier one (provider_pushoo.go:49-56).
SuccessIsReal ==
  \A r \in Req, n \in Names :
    results[r][n] = "success" /\ TypeIn(r, n) = "strict" => accepted[r][n] > 0

\* Once the client is gone, each channel costs at most one more call, which
\* reaches no service, even if its error looks retriable: neither the retry loop
\* nor the loop over the channels keeps a handler busy for a request nobody
\* waits for (service.go:161-171).
CancelBoundsCalls ==
  \A r \in Req, n \in Names : late[r][n] <= 1

\* A handled /send or Tawk push that reached a channel is in the history once,
\* with the results its client was given, even if that client left before the
\* answer; a Bark push never is.  Only a shutdown whose grace ran out loses it
\* (api.go:663-686, tawk.go:133-156).
HistoryComplete ==
  \A r \in Req :
    /\ recorded[r] \in {<< >>, <<results[r]>>}
    /\ asked[r].kind = "bark" => recorded[r] = << >>
    /\ pc[r] = "done" /\ Recording(r) /\ ~forced => recorded[r] = <<results[r]>>

\* The last event the dashboard sees of a channel is its result, however many
\* rounds it took (service.go:194-208).
EventsTellTheResult ==
  \A r \in Req : \A n \in Pushed(r) :
    TypeIn(r, n) # "unregistered" => told[r][n] = results[r][n]

\* A channel with a result is left alone: its result stands and its provider
\* is not called again for this request (service.go:130-138).
ResultIsFinal ==
  [][\A r \in Req : \A n \in Pushed(r) :
       results'[r][n] = results[r][n] /\ tries'[r][n] = tries[r][n]]_vars

\* Every push comes to its end, unless the process exits under it: retries are
\* bounded and no select waits for a client (service.go:142-177).
EveryPushEnds ==
  \A r \in Req : pc[r] = "resolve" ~> pc[r] = "done" \/ server = "gone"
-----------------------------------------------------------------------------
(* The strengthening that makes the safety properties inductive. *)

Serving(r) == pc[r] \in {"call", "flight", "wait"}
Pending(r) == todo[r] \cup (IF Serving(r) THEN {cur[r]} ELSE {})

\* Every target is either pushed or pending, and the answer comes last.
Progress(r) ==
  /\ pc[r] \in {"idle", "resolve"} => /\ todo[r] = {} /\ Pushed(r) = {}
                                      /\ answer[r] = "none"
  /\ pc[r] = "next" \/ Serving(r) => /\ Pushed(r) \cup Pending(r) = Targets(r)
                                     /\ answer[r] = "none"
  /\ pc[r] \in {"record", "done"} => todo[r] = {} /\ answer[r] # "none"
  /\ pc[r] = "record" => Recording(r)
  /\ answer[r] = "rejected" => Pushed(r) = {}
  /\ answer[r] \in {"lost", "failed", "ok"} => Pushed(r) = Targets(r)

Disjoint(r) ==
  /\ Pushed(r) \cap Pending(r) = {}
  /\ Serving(r) => cur[r] \notin todo[r]

\* Until a channel has its result, all that was taken is in doubt.
Tally(r) ==
  \A n \in Names :
    /\ n \notin Pushed(r) => accepted[r][n] = doubts[r][n] /\ late[r][n] = 0
    /\ accepted[r][n] <= 1 + doubts[r][n]
    /\ late[r][n] <= 1
    /\ results[r][n] = "success" /\ TypeIn(r, n) = "strict" => accepted[r][n] > 0
    /\ n \in Pushed(r) /\ TypeIn(r, n) # "unregistered" => told[r][n] = results[r][n]

Waiting(r) == pc[r] = "wait" => told[r][cur[r]] = "error"

Ledger(r) ==
  /\ pc[r] # "done" => recorded[r] = << >>
  /\ recorded[r] \in {<< >>, <<results[r]>>}
  /\ asked[r].kind = "bark" => recorded[r] = << >>
  /\ pc[r] = "done" /\ Recording(r) /\ ~forced => recorded[r] = <<results[r]>>
  /\ server \in {"up", "draining"} => ~forced
  /\ server \in {"closed", "gone"} /\ pc[r] \notin {"idle", "done"} => forced

ReqInv(r) == Progress(r) /\ Disjoint(r) /\ Tally(r) /\ Waiting(r) /\ Ledger(r)

\* The inductive invariant behind the safety properties above.
PushInv == \A r \in Req : ReqInv(r)
-----------------------------------------------------------------------------
(* What the end of every push rests on. *)

\* A channel is called once in each of its rounds, of which there are MaxRetry.
Rounds(r) ==
  /\ \A n \in Names : tries[r][n] <= MaxRetry
  /\ pc[r] \in {"idle", "resolve"} => \A n \in Names : tries[r][n] = 0
  /\ \A n \in todo[r] : tries[r][n] = 0
  /\ pc[r] \in {"call", "wait"} => tries[r][cur[r]] = round[r]
  /\ pc[r] = "flight" => tries[r][cur[r]] = round[r] + 1

\* Whatever becomes of the calls, no channel is called more often than MaxRetry
\* says, with the calls that cancellation spoils counted in (service.go:146-160).
RoundsBounded == \A r \in Req : Rounds(r)

Stage(r) ==
  CASE pc[r] = "resolve" -> 3
    [] pc[r] = "next" \/ Serving(r) -> 2
    [] pc[r] = "record" -> 1
    [] pc[r] \in {"idle", "done"} -> 0

\* What its channel may still cost a push, at most.
Effort(r) ==
  CASE pc[r] = "wait"   -> 3 * (MaxRetry - round[r]) + 3
    [] pc[r] = "call"   -> 3 * (MaxRetry - round[r]) + 2
    [] pc[r] = "flight" -> 3 * (MaxRetry - round[r]) + 1
    [] OTHER            -> 0

\* Less is left: fewer stages, else fewer channels, else less of this one.
Closer(r) ==
  \/ Stage(r)' < Stage(r)
  \/ Stage(r)' = Stage(r) /\ todo'[r] \subseteq todo[r] /\ todo'[r] # todo[r]
  \/ Stage(r)' = Stage(r) /\ todo'[r] = todo[r] /\ Effort(r)' < Effort(r)

\* Every step of a handler brings its push closer to the end, and nothing that a
\* client, a reload, a shutdown or another handler does takes it back, so that
\* only handlers that are never run could keep a push going (service.go:120-177).
AlwaysCloser ==
  [][\A r \in Req :
       /\ Handler(r) => Closer(r)
       /\ pc[r] # "idle" => Closer(r) \/ UNCHANGED <<pc[r], todo[r], round[r]>>]_vars
=============================================================================
