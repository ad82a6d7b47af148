-------------------------- MODULE MCHistoryDatabase --------------------------
(***************************************************************************)
(* Two pushes to up to two channels, one ban row, a page and the           *)
(* maintenance goroutine that clean up, and one reader, three of them at a *)
(* time.  A day has two ticks.  Pushes and cleanups meet a crash or a      *)
(* power failure; two who clean up see a push grow older than a day; a     *)
(* reader meets a second push, a cleanup, a new day and a change of bans.  *)
(***************************************************************************)
EXTENDS HistoryDatabase, TLC

CONSTANTS m1, m2, c1, c2, i1, page, auto, q1

MCRecords  == {m1, m2}
MCChannels == {c1, c2}
MCIP       == {i1}
MCCleaners == {page, auto}
MCReaders  == {q1}
MCKeepDays == {0, 1}
MCManyDays == {3}
MCOffsets  == {0, 1}

Cast(w, t, l) == [who |-> w, time |-> t, losses |-> l]

MCCasts ==
  {Cast({m1, m2, page}, 1, 1), Cast({m1, page, auto}, 3, 0), Cast({m1, m2, q1}, 1, 0),
   Cast({m1, q1, page}, 2, 0), Cast({m1, i1, page}, 1, 1), Cast({i1, q1, auto}, 2, 0)}

Symmetry == Permutations(MCChannels)
=============================================================================
