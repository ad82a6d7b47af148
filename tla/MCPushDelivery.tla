--------------------------- MODULE MCPushDelivery ---------------------------
(***************************************************************************)
(* One request of any endpoint over two files that share a channel p,      *)
(* strict in the first and lenient in the second.  The first also has a    *)
(* wecom channel w, a default and a Tawk channel; the second has an        *)
(* unregistered channel u and neither, so that a target read before a      *)
(* reload is resolved after it.  The group g holds both channels of its    *)
(* file, and itself in the first.  Three rounds per channel: a first, a    *)
(* middle and a last.                                                      *)
(***************************************************************************)
EXTENDS PushDelivery

CONSTANTS p, w, u, g, none, r1

MCNames == {p, w, u, g, none}

File(ch, use, default, tawk) ==
  [channels |-> ch, groups |-> {g},
   use |-> [n \in MCNames |-> IF n = g THEN use ELSE << >>],
   default |-> default, tawk |-> tawk]

First  == File({p, w}, <<p, w, g>>, g, w)
Second == File({p, u}, <<u, p>>, none, none)

MCConfigs == {First, Second}

MCTypeOf ==
  [c \in MCConfigs |-> [n \in MCNames |->
     CASE n = w -> "wecom"
       [] n = u -> "unregistered"
       [] OTHER -> IF c = First THEN "strict" ELSE "lenient"]]

MCNameLists == {<< >>, <<g>>, <<p>>, <<w, u>>}

OneReq == {r1}
=============================================================================
