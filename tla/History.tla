------------------------------- MODULE History -------------------------------
(***************************************************************************)
(* What the push history promises to a handler: a record it takes is       *)
(* settled before the store is closed, a record it does not take is        *)
(* refused out loud, and only once the store is closing.  Nothing is said  *)
(* of queues, locks or workers.                                            *)
(***************************************************************************)
CONSTANT Records    \* one record for each push that has something to keep

VARIABLES
  phase,    \* "open", "closing" or "closed"
  status    \* of each record: new, taken, stored, failed or refused

hvars == <<phase, status>>

HInit ==
  /\ phase = "open"
  /\ status = [r \in Records |-> "new"]

Becomes(r, old, st) ==
  /\ status[r] = old
  /\ status' = [status EXCEPT ![r] = st]
  /\ UNCHANGED phase

HTake(r)   == phase = "open" /\ Becomes(r, "new", "taken")
HRefuse(r) == phase # "open" /\ Becomes(r, "new", "refused")

\* A transaction may fail; the store stays open until each has been tried.
HSettle(r) == phase # "closed" /\ \E st \in {"stored", "failed"} : Becomes(r, "taken", st)

HShut ==
  /\ phase = "open"
  /\ phase' = "closing"
  /\ UNCHANGED status

HClose ==
  /\ phase = "closing"
  /\ \A r \in Records : status[r] # "taken"
  /\ phase' = "closed"
  /\ UNCHANGED status

HNext ==
  \/ \E r \in Records : HTake(r) \/ HRefuse(r) \/ HSettle(r)
  \/ HShut
  \/ HClose

\* What was taken is settled, and a store that starts to close is closed.
HSpec == HInit /\ [][HNext]_hvars /\ (\A r \in Records : WF_hvars(HSettle(r))) /\ WF_hvars(HClose)
=============================================================================
