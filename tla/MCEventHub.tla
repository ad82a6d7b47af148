----------------------------- MODULE MCEventHub -----------------------------
(***************************************************************************)
(* Two dashboards whose channels hold two events.                          *)
(***************************************************************************)
EXTENDS EventHub

CONSTANTS s1, s2

TwoStreams == {s1, s2}
=============================================================================
