--------------------------- MODULE MCPushRequest ---------------------------
(***************************************************************************)
(* Every request of PushRequest that a client can send: a GET has no body, *)
(* a path of /bark has the shape /bark/chan, /bark/chan/content or         *)
(* /bark/chan/title/content, a channel is never sent empty.                *)
(***************************************************************************)
EXTENDS PushRequest

BarkPaths == {{}, {"chan"}, {"chan", "content"}, {"chan", "title", "content"}}

AllRequests ==
  {r \in Request :
    /\ r.method = "GET" => r.type = "empty"
    /\ r.type = "empty" => r.body = NoParams /\ r.bodyToken = "none"
    /\ r.body["chan"] # "empty"
    /\ r.format = "bark" => r.url \in BarkPaths
    /\ r.format = "barkv2" => r.url = {}}
=============================================================================
