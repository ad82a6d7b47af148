---------------------------- MODULE PushRequest ----------------------------
(***************************************************************************)
(* The front of /send, /bark and /barkv2: verifyPushToken looks for the    *)
(* token in the URL, the form and the JSON body, the handler then reads    *)
(* the parameters.  Both read the same request body, which can be read     *)
(* once unless it is put back.                                             *)
(*                                                                         *)
(* A parameter is one of three roles; its value is known by the role and   *)
(* the place it came from.  Character sets change values and not places,   *)
(* and are left out: a query decoded again with ?charset= has the same     *)
(* parameters.                                                             *)
(***************************************************************************)
EXTENDS FiniteSets

CONSTANTS
  Requests,   \* requests that arrive, members of Request
  None        \* no value

Roles  == {"chan", "title", "content"}
Tokens == {"none", "good", "bad"}

\* A form parameter may be there without a value.
Request == [format : {"send", "bark", "barkv2"},
            config : {"off", "blank", "on"},   \* push_token: disabled, only spaces, set
            method : {"GET", "POST"},
            type   : {"empty", "form", "json", "misnamed", "plain"},
                     \* misnamed: JSON sent as a form; plain: a form not sent as one
            url    : SUBSET Roles,
            body   : [Roles -> {"absent", "empty", "full"}],
            urlToken : Tokens, bodyToken : Tokens]

NoParams == [r \in Roles |-> "absent"]

\* A request without a body has neither parameters nor a token in it.
ASSUME RequestsAssumption ==
  /\ Requests \subseteq Request
  /\ \A r \in Requests : r.type = "empty" => r.body = NoParams /\ r.bodyToken = "none"

VARIABLES
  req,      \* the request being served, None between requests
  phase,
  unread,   \* the body has not been read, or was put back
  token,    \* the token found
  charge,   \* what the ban store was told: nothing, failure, reset
  params,   \* the map parseBody made
  sent      \* the arguments of Push, by role

vars == <<req, phase, unread, token, charge, params, sent>>

Nothing  == [r \in Roles |-> None]
Values   == {None} \cup (Roles \X {"url", "body"})

Init ==
  /\ req = None
  /\ phase = "idle"
  /\ unread = FALSE
  /\ token = "none"
  /\ charge = "nothing"
  /\ params = NoParams
  /\ sent = Nothing

Arrive ==
  /\ phase = "idle"
  /\ req' \in Requests
  /\ unread' = (req'.type # "empty")
  /\ phase' = "ban"
  /\ UNCHANGED <<token, charge, params, sent>>
-----------------------------------------------------------------------------
(* verifyPushToken. *)

AfterBan(r) == IF r.config = "off" THEN "parse" ELSE "query"

\* IsBanned, then the switch of the feature.
CheckBan ==
  /\ phase = "ban"
  /\ phase' \in {"refused", AfterBan(req)}
  /\ UNCHANGED <<req, unread, token, charge, params, sent>>

FromQuery ==
  /\ phase = "query"
  /\ token' = req.urlToken
  /\ phase' = IF req.urlToken = "none" /\ req.method = "POST" THEN "form" ELSE "verify"
  /\ UNCHANGED <<req, unread, charge, params, sent>>

\* ParseForm reads a body with the form content type; JSON in it is no token.
FromForm ==
  /\ phase = "form"
  /\ unread' = (unread /\ req.type \notin {"form", "misnamed"})
  /\ token' = IF req.type = "form" THEN req.bodyToken ELSE "none"
  /\ phase' = IF token' = "none" THEN "json" ELSE "verify"
  /\ UNCHANGED <<req, charge, params, sent>>

\* Slip: the body is not put back.
FromJSONDrained ==
  /\ phase = "json"
  /\ token' = IF unread /\ req.type = "json" THEN req.bodyToken ELSE "none"
  /\ unread' = FALSE
  /\ phase' = "verify"
  /\ UNCHANGED <<req, charge, params, sent>>

\* What ParseForm left is read and put back.
FromJSON ==
  /\ phase = "json"
  /\ token' = IF unread /\ req.type = "json" THEN req.bodyToken ELSE "none"
  /\ phase' = "verify"
  /\ UNCHANGED <<req, unread, charge, params, sent>>

\* Slip: a missing token passes when the configured one is blank.
MatchesBlank == req.config = "blank" \/ token = "good"

Matches == req.config = "on" /\ token = "good"

\* Slip: the configured token is looked at last, after the comparison.
FailureChargedAlways == ~Matches

FailureCharged == token = "none" \/ (req.config = "on" /\ token = "bad")

Verify ==
  /\ phase = "verify"
  /\ charge' = IF Matches THEN "reset" ELSE IF FailureCharged THEN "failure" ELSE "nothing"
  /\ phase' = IF Matches THEN "parse" ELSE "refused"
  /\ UNCHANGED <<req, unread, token, params, sent>>
-----------------------------------------------------------------------------
(* parseBody, parseCommonParams and the path of /bark. *)

Parse ==
  /\ phase = "parse"
  /\ params' = IF unread /\ req.method = "POST" THEN req.body ELSE NoParams
  /\ unread' = FALSE
  /\ phase' = "push"
  /\ UNCHANGED <<req, token, charge, sent>>

FromURL(r, role)       == IF role \in r.url THEN <<role, "url">> ELSE None
FromBody(map, role)    == IF map[role] = "full" THEN <<role, "body">> ELSE None

\* /send: a parameter of the body counts although it is empty, and a title
\* without a content becomes the content.
SendArgs(r, map) ==
  LET value(role) == IF map[role] = "absent" THEN FromURL(r, role) ELSE FromBody(map, role)
      has(role)   == map[role] # "absent" \/ role \in r.url
      moved       == has("title") /\ ~has("content")
  IN  [chan    |-> value("chan"),
       title   |-> IF moved THEN None ELSE value("title"),
       content |-> IF moved THEN value("title") ELSE value("content")]

\* /bark: the path, and what the body has a value for.
BarkArgs(r, map) ==
  LET value(role) == IF map[role] = "full" THEN <<role, "body">> ELSE FromURL(r, role)
  IN  [chan |-> FromURL(r, "chan"), title |-> value("title"), content |-> value("content")]

\* /barkv2: the body alone.
Barkv2Args(map) == [role \in Roles |-> FromBody(map, role)]

Args(r, map) ==
  CASE r.format = "send"   -> SendArgs(r, map)
    [] r.format = "bark"   -> BarkArgs(r, map)
    [] r.format = "barkv2" -> Barkv2Args(map)

Push ==
  /\ phase = "push"
  /\ sent' = Args(req, params)
  /\ phase' = "pushed"
  /\ UNCHANGED <<req, unread, token, charge, params>>

Answer ==
  /\ phase \in {"pushed", "refused"}
  /\ req' = None
  /\ phase' = "idle"
  /\ unread' = FALSE
  /\ token' = "none"
  /\ charge' = "nothing"
  /\ params' = NoParams
  /\ sent' = Nothing

Next == \/ Arrive \/ CheckBan \/ FromQuery \/ FromForm \/ FromJSON \/ Verify
        \/ Parse \/ Push \/ Answer

Spec == Init /\ [][Next]_vars
-----------------------------------------------------------------------------
Phases == {"idle", "ban", "query", "form", "json", "verify", "parse", "push", "pushed", "refused"}

\* Every variable stays in its domain; a token is only looked for when the
\* feature is on, and only a POST has a body that is read for it.
TypeOK ==
  /\ phase \in Phases
  /\ req \in IF phase = "idle" THEN {None} ELSE Requests
  /\ unread \in BOOLEAN
  /\ token \in Tokens
  /\ charge \in {"nothing", "failure", "reset"}
  /\ params \in [Roles -> {"absent", "empty", "full"}]
  /\ sent \in [Roles -> Values]
  /\ phase \in {"query", "form", "json", "verify"} => req.config # "off"
  /\ phase \in {"form", "json"} => req.method = "POST"

\* The token of a request as its documentation has it (README.md:381-399):
\* the one of the URL, else the one of a form or of a JSON body.
TokenOf(r) == IF r.urlToken # "none" \/ r.method = "GET" \/ r.type \notin {"form", "json"}
                THEN r.urlToken ELSE r.bodyToken

\* A message is pushed only for a request whose token is the configured one,
\* wherever the documentation lets it be, or when none is wanted; only a ban
\* turns such a request away, and then nothing is charged (api.go:460-560).
GateIsRight ==
  LET allowed == req.config = "off" \/ (req.config = "on" /\ TokenOf(req) = "good")
  IN  /\ phase = "pushed" => allowed
      /\ phase = "refused" /\ allowed => charge = "nothing"

\* An address is charged a failure for a token that is missing or wrong, never
\* for a configuration that has no token to compare with, and cleared by a
\* correct one (api.go:523-559).
ChargedFairly ==
  phase \in {"pushed", "refused"} =>
    /\ charge = "failure" => /\ TokenOf(req) \in {"none", "bad"} /\ req.config # "off"
                             /\ req.config = "blank" => TokenOf(req) = "none"
    /\ charge = "reset"   => phase = "pushed" /\ TokenOf(req) = "good"

\* The body was read by ParseForm before the handler came to it.
Drained(r) ==
  /\ r.config # "off"
  /\ r.urlToken = "none"
  /\ r.method = "POST"
  /\ r.type \in {"form", "misnamed"}

\* What the client wrote is what is pushed, unless its token was looked for in
\* a form: looking for it in JSON leaves the body to the handler
\* (api.go:489-493, 617, 746, 807).
BodyArrives ==
  phase = "pushed" /\ ~Drained(req) =>
    sent = Args(req, IF req.method = "POST" THEN req.body ELSE NoParams)

\* The documented request: "POST, token in the form" with text and desp
\* (README.md:391-393) is pushed with its text and desp.
FormTokenArrives ==
  /\ phase = "pushed"
  /\ req.format = "send" /\ req.method = "POST" /\ req.type = "form"
  /\ req.config = "on" /\ TokenOf(req) = "good"
  /\ req.body["title"] = "full" /\ req.body["content"] = "full"
  => sent = Args(req, req.body)
=============================================================================
