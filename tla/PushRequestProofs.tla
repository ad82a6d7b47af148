------------------------- MODULE PushRequestProofs -------------------------
(***************************************************************************)
(* The properties of PushRequest, for every set of requests.  Each phase   *)
(* of a request knows what has been read of it: PhaseInv says, phase by    *)
(* phase, where the token stands and whether the body can still be read.   *)
(***************************************************************************)
EXTENDS PushRequest, TLAPS

Allowed(r) == r.config = "off" \/ (r.config = "on" /\ TokenOf(r) = "good")

HasBody(r) == r.type # "empty"

Wanted(r) == IF r.method = "POST" THEN r.body ELSE NoParams

\* Nothing is charged before the token is compared.
NotCharged == phase \in {"idle", "ban", "query", "form", "json", "verify"} => charge = "nothing"

\* The token is in the place that is still to be looked at, or has been found.
TokenSearch ==
  /\ phase \in {"form", "json"} => req.urlToken = "none"
  /\ phase = "json" => (req.type = "form" => req.bodyToken = "none")
  /\ phase = "verify" => token = TokenOf(req)

\* What is left of the body.
BodyLeft ==
  /\ phase \in {"ban", "query", "form"} => unread = HasBody(req)
  /\ phase = "json" => unread = (req.type \in {"json", "plain"})
  /\ phase \in {"verify", "parse"} /\ ~Drained(req) => unread = HasBody(req)

\* What has been made of it.
BodyTaken ==
  /\ phase \in {"push", "pushed"} /\ ~Drained(req) => params = Wanted(req)
  /\ phase = "pushed" => sent = Args(req, params)

\* The verdict stands while the handler goes on.
Verdict ==
  /\ phase \in {"parse", "push", "pushed"} =>
       Allowed(req) /\ charge = IF req.config = "off" THEN "nothing" ELSE "reset"
  /\ phase = "refused" =>
       /\ charge \in {"nothing", "failure"}
       /\ Allowed(req) => charge = "nothing"
       /\ charge = "failure" => /\ TokenOf(req) \in {"none", "bad"}
                                /\ req.config # "off"
                                /\ req.config = "blank" => TokenOf(req) = "none"

PhaseInv == NotCharged /\ TokenSearch /\ BodyLeft /\ BodyTaken /\ Verdict

Inv == TypeOK /\ PhaseInv
-----------------------------------------------------------------------------
\* The arguments of Push are a value or none, for every role.
LEMMA ArgsType ==
  ASSUME NEW r \in Request, NEW map \in [Roles -> {"absent", "empty", "full"}]
  PROVE  Args(r, map) \in [Roles -> Values]
<1>1. \A role \in Roles : FromURL(r, role) \in Values /\ FromBody(map, role) \in Values
  BY DEF FromURL, FromBody, Values
<1>2. CASE r.format = "send"
  <2>1. SendArgs(r, map) \in [Roles -> Values]
    BY <1>1 DEF SendArgs, Roles, Values
  <2> QED  BY <1>2, <2>1 DEF Args
<1>3. CASE r.format = "bark"
  <2>1. BarkArgs(r, map) \in [Roles -> Values]
    BY <1>1 DEF BarkArgs, Roles, Values
  <2> QED  BY <1>3, <2>1 DEF Args
<1>4. CASE r.format = "barkv2"
  <2>1. Barkv2Args(map) \in [Roles -> Values]
    BY <1>1 DEF Barkv2Args
  <2> QED  BY <1>4, <2>1 DEF Args
<1> QED  BY <1>2, <1>3, <1>4 DEF Request

\* A token of a request is one of the three.
LEMMA TokenOfType == \A r \in Request : TokenOf(r) \in Tokens
  BY DEF TokenOf, Request

\* The served request is one of Requests.
LEMMA Served == TypeOK /\ phase # "idle" => req \in Requests /\ req \in Request
  BY RequestsAssumption DEF TypeOK

\* The initial values are in their domains.
LEMMA TypeInit == Init => TypeOK
  BY DEF Init, TypeOK, Phases, Tokens, NoParams, Nothing, Values, Roles

\* Every action keeps the variables in their domains.
LEMMA TypeNext == TypeOK /\ [Next]_vars => TypeOK'
<1> SUFFICES ASSUME TypeOK, [Next]_vars PROVE TypeOK'
  OBVIOUS
<1>1. CASE Arrive
  BY <1>1, RequestsAssumption DEF Arrive, TypeOK, Phases
<1>2. CASE CheckBan
  BY <1>2, Served DEF CheckBan, AfterBan, TypeOK, Phases
<1>3. CASE FromQuery
  BY <1>3, Served DEF FromQuery, TypeOK, Phases, Request, Tokens
<1>4. CASE FromForm
  BY <1>4, Served DEF FromForm, TypeOK, Phases, Request, Tokens
<1>5. CASE FromJSON
  BY <1>5, Served DEF FromJSON, TypeOK, Phases, Request, Tokens
<1>6. CASE Verify
  BY <1>6 DEF Verify, TypeOK, Phases
<1>7. CASE Parse
  BY <1>7, Served DEF Parse, TypeOK, Phases, Request, NoParams
<1>8. CASE Push
  <2>1. Args(req, params) \in [Roles -> Values]
    BY <1>8, Served, ArgsType DEF Push, TypeOK
  <2> QED  BY <1>8, <2>1 DEF Push, TypeOK, Phases
<1>9. CASE Answer
  BY <1>9 DEF Answer, TypeOK, Phases, Tokens, NoParams, Nothing, Values, Roles
<1>10. CASE UNCHANGED vars
  BY <1>10 DEF vars, TypeOK
<1> QED
  BY <1>1, <1>2, <1>3, <1>4, <1>5, <1>6, <1>7, <1>8, <1>9, <1>10 DEF Next
-----------------------------------------------------------------------------
\* Nothing is claimed of the idle phase but that nothing is charged.
LEMMA PhaseInit == Init => PhaseInv
  BY DEF Init, PhaseInv, NotCharged, TokenSearch, BodyLeft, BodyTaken, Verdict

\* The token is looked for in the URL, the form and the body, in this order,
\* and each place is read when the one before it has none.
LEMMA SearchNext == TypeOK /\ PhaseInv /\ (FromQuery \/ FromForm \/ FromJSON) => PhaseInv'
<1> SUFFICES ASSUME TypeOK, PhaseInv, FromQuery \/ FromForm \/ FromJSON PROVE PhaseInv'
  OBVIOUS
<1> USE DEF PhaseInv, NotCharged, TokenSearch, BodyLeft, BodyTaken, Verdict
<1>1. req \in Request
  BY Served DEF FromQuery, FromForm, FromJSON
<1>2. CASE FromQuery
  BY <1>1, <1>2 DEF FromQuery, TokenOf, Request
<1>3. CASE FromForm
  <2>1. req.method = "POST" /\ req.config # "off" /\ req.urlToken = "none" /\ unread = HasBody(req)
    BY <1>3 DEF FromForm, TypeOK
  <2>2. CASE token' = "none"
    <3>1. req.type = "form" => req.bodyToken = "none"
      BY <1>3, <2>2 DEF FromForm
    <3>2. unread' = (req.type \in {"json", "plain"})
      <4>1. unread' \in BOOLEAN
        BY <1>3 DEF FromForm
      <4>2. unread' <=> HasBody(req) /\ req.type \notin {"form", "misnamed"}
        BY <1>3, <2>1 DEF FromForm
      <4>3. HasBody(req) /\ req.type \notin {"form", "misnamed"} <=> req.type \in {"json", "plain"}
        BY <1>1 DEF HasBody, Request
      <4> QED  BY <4>1, <4>2, <4>3
    <3> QED  BY <1>3, <2>1, <2>2, <3>1, <3>2 DEF FromForm
  <2>3. CASE token' # "none"
    <3>1. req.type = "form" /\ token' = req.bodyToken
      BY <1>3, <2>3 DEF FromForm
    <3>2. token' = TokenOf(req) /\ Drained(req)
      BY <2>1, <3>1 DEF TokenOf, Drained
    <3> QED  BY <1>3, <2>3, <3>2 DEF FromForm
  <2> QED  BY <2>2, <2>3
<1>4. CASE FromJSON
  <2>1. req.method = "POST" /\ req.config # "off" /\ req.urlToken = "none"
    BY <1>4 DEF FromJSON, TypeOK
  <2>2. unread = (req.type \in {"json", "plain"})
    BY <1>4 DEF FromJSON
  <2>3. token' = TokenOf(req)
    BY <1>4, <2>1, <2>2 DEF FromJSON, TokenOf
  <2>4. ~Drained(req) => unread = HasBody(req)
    BY <1>1, <2>1, <2>2 DEF Drained, HasBody, Request
  <2> QED  BY <1>4, <2>3, <2>4 DEF FromJSON
<1> QED  BY <1>2, <1>3, <1>4

\* The comparison turns a request away or lets it go on, and charges it so.
LEMMA VerifyNext == TypeOK /\ PhaseInv /\ Verify => PhaseInv'
<1> SUFFICES ASSUME TypeOK, PhaseInv, Verify PROVE PhaseInv'
  OBVIOUS
<1> USE DEF PhaseInv, NotCharged, TokenSearch, BodyLeft, BodyTaken, Verdict
<1>1. req \in Request /\ token = TokenOf(req) /\ token \in Tokens
  BY Served DEF Verify, TypeOK
<1>2. req.config \in {"blank", "on"}
  BY <1>1 DEF Verify, TypeOK, Request
<1>3. CASE Matches
  BY <1>1, <1>2, <1>3 DEF Verify, Matches, Allowed
<1>4. CASE ~Matches
  BY <1>1, <1>2, <1>4 DEF Verify, Matches, FailureCharged, Allowed, Tokens
<1> QED  BY <1>3, <1>4

\* What parseBody makes of a body that is left is what the client wrote.
LEMMA ParseNext == TypeOK /\ PhaseInv /\ Parse => PhaseInv'
<1> SUFFICES ASSUME TypeOK, PhaseInv, Parse PROVE PhaseInv'
  OBVIOUS
<1> USE DEF PhaseInv, NotCharged, TokenSearch, BodyLeft, BodyTaken, Verdict
<1>1. req \in Requests /\ req \in Request
  BY Served DEF Parse
<1>2. ~Drained(req) => params' = Wanted(req)
  BY <1>1, RequestsAssumption DEF Parse, Wanted, HasBody
<1> QED  BY <1>2 DEF Parse

\* The remaining actions go from one phase to the next with what they have.
LEMMA OtherNext ==
  TypeOK /\ PhaseInv /\ (Arrive \/ CheckBan \/ Push \/ Answer \/ UNCHANGED vars) => PhaseInv'
<1> SUFFICES ASSUME TypeOK, PhaseInv, Arrive \/ CheckBan \/ Push \/ Answer \/ UNCHANGED vars
             PROVE PhaseInv'
  OBVIOUS
<1> USE DEF PhaseInv, NotCharged, TokenSearch, BodyLeft, BodyTaken, Verdict
<1>1. CASE Arrive
  BY <1>1 DEF Arrive, HasBody
<1>2. CASE CheckBan
  BY <1>2 DEF CheckBan, AfterBan, Allowed
<1>3. CASE Push
  BY <1>3 DEF Push
<1>4. CASE Answer
  BY <1>4 DEF Answer
<1>5. CASE UNCHANGED vars
  BY <1>5 DEF vars
<1> QED  BY <1>1, <1>2, <1>3, <1>4, <1>5

\* Inv holds in every state of every behaviour.
THEOREM Invariant == Spec => []Inv
<1>1. Init => Inv
  BY TypeInit, PhaseInit DEF Inv
<1>2. Inv /\ [Next]_vars => Inv'
  <2>1. TypeOK /\ PhaseInv /\ [Next]_vars => PhaseInv'
    BY SearchNext, VerifyNext, ParseNext, OtherNext DEF Next
  <2> QED  BY <2>1, TypeNext DEF Inv
<1> QED  BY <1>1, <1>2, PTL DEF Spec

\* Type correctness of the front of the push API (api.go:460-560).
THEOREM TypeCorrect == Spec => []TypeOK
<1>1. Inv => TypeOK
  BY DEF Inv
<1> QED  BY <1>1, Invariant, PTL

\* Whatever a client sends, a message is pushed only for the configured token
\* or when none is wanted (api.go:460-560).
THEOREM Gate == Spec => []GateIsRight
<1>1. Inv => GateIsRight
  BY DEF Inv, PhaseInv, Verdict, GateIsRight, Allowed
<1> QED  BY <1>1, Invariant, PTL

\* Whatever a client sends, its address is charged for a wrong or missing token
\* only, and cleared for a correct one only (api.go:523-559).
THEOREM Charged == Spec => []ChargedFairly
<1>1. Inv => ChargedFairly
  BY DEF Inv, PhaseInv, Verdict, ChargedFairly, Allowed
<1> QED  BY <1>1, Invariant, PTL

\* Whatever a client sends, what is pushed is what it wrote, unless its token
\* was looked for in a form (api.go:489-493, 617, 746, 807).
THEOREM Arrives == Spec => []BodyArrives
<1>1. Inv => BodyArrives
  BY DEF Inv, PhaseInv, BodyTaken, BodyArrives, Wanted
<1> QED  BY <1>1, Invariant, PTL
=============================================================================
