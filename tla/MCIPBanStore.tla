---------------------------- MODULE MCIPBanStore ----------------------------
(***************************************************************************)
(* An instance of IPBanStore with three kinds of start.  In Life the clock *)
(* runs and there is no limit: two addresses in one shard fail, are        *)
(* banned, expire and idle, while a reload may lower the fail limit and    *)
(* the ban time or switch them off.  In Crowd three addresses over two     *)
(* shards want the one place of the table while the clock runs, so that    *)
(* entries differ in age and idle ones are swept.  In Room it stands still *)
(* and four addresses crowd that table.                                    *)
(*                                                                         *)
(* Handlers are interchangeable, and so are i1 and i2, which share a hash  *)
(* and are clients of every start; the properties are safety properties    *)
(* that name none of them, so both symmetries are sound.                   *)
(***************************************************************************)
EXTENDS IPBanStore, TLC

CONSTANTS i1, i2, i3, i4, h1, h2

MCIP       == {i1, i2, i3, i4}
MCHandlers == {h1, h2}
MCHash     == [i \in MCIP |-> IF i \in {i1, i2} THEN 0 ELSE 1]

Limit(f, b) == [fail |-> f, ban |-> b]

Life  == [clients |-> {i1, i2}, shards |-> 1, maxEntries |-> 0, idleTTL |-> 1,
          limits |-> {Limit(2, 2), Limit(1, 1), Limit(0, 1)}, maxTime |-> 3]
Crowd == [clients |-> {i1, i2, i3}, shards |-> 2, maxEntries |-> 1, idleTTL |-> 1,
          limits |-> {Limit(1, 1)}, maxTime |-> 2]
Room  == [clients |-> MCIP, shards |-> 2, maxEntries |-> 1, idleTTL |-> 2,
          limits |-> {Limit(1, 1)}, maxTime |-> 1]

MCWorlds == {Life, Crowd, Room}

Symmetry == Permutations(Handlers) \cup Permutations({i1, i2})
=============================================================================
