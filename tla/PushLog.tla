------------------------------- MODULE PushLog -------------------------------
(***************************************************************************)
(* What the database promises of the pushes in it: each is added whole and *)
(* once, what is dropped is older than all that stays, and a failure of    *)
(* the power takes back the latest commits and nothing else.  Nothing is   *)
(* said of statements, locks, transactions or cleanups.                    *)
(***************************************************************************)
EXTENDS Naturals, Sequences

CONSTANTS
  Records,   \* one for each push that has something to keep
  Channels,
  Times      \* when a push was made

VARIABLES
  log,    \* the pushes that were there after each commit that may yet be lost
  done    \* records that will not be added any more

lvars == <<log, done>>

Latest == log[Len(log)]

LInit ==
  /\ log = <<{}>>
  /\ done = {}

\* A push went to some channels, and has a copy for each of them or none.
LAdd(r) ==
  /\ r \notin done
  /\ done' = done \cup {r}
  /\ \E at \in Times, to \in (SUBSET Channels) \ {{}} : \E copied \in {{}, to} :
       log' = Append(log, Latest \cup {[of |-> r, at |-> at, to |-> to, copied |-> copied]})

\* The oldest go, or none, for a commit that is about other things.
LDrop ==
  /\ done' = done
  /\ \E S \in SUBSET Latest :
       /\ \A p \in S, q \in Latest \ S : p.at < q.at
       /\ log' = Append(log, Latest \ S)

\* The record is refused, or its transaction fails.
LGiveUp ==
  /\ done' \in SUBSET Records /\ done \subseteq done'
  /\ UNCHANGED log

LCheckpoint ==
  /\ log' = <<Latest>>
  /\ UNCHANGED done

\* The process ends, and with the power the end of the log may be gone.
LEnd ==
  /\ \E k \in 1 .. Len(log) : log' = SubSeq(log, 1, k)
  /\ done' \in SUBSET Records /\ done \subseteq done'

LNext ==
  \/ LGiveUp
  \/ \E r \in Records : LAdd(r)
  \/ LDrop
  \/ LCheckpoint
  \/ LEnd

LSpec == LInit /\ [][LNext]_lvars
=============================================================================
