----------------------------- MODULE IPBanStore -----------------------------
(***************************************************************************)
(* httpapi.IPBanStore and the two callers that drive it, verifyBasicAuth   *)
(* and verifyPushToken: failed attempts per address, temporary bans, the   *)
(* janitor and the eviction of old entries.                                *)
(*                                                                         *)
(* An action is what happens under one acquisition of a shard lock or one  *)
(* access to the atomic counter totalEntries.  Every method reads the      *)
(* clock once and uses that reading after locks it may wait for; the       *)
(* counter is decremented after the lock is released.  An entry is         *)
(* inserted and counted under its lock, so that is one step: nobody sees   *)
(* the shard in between, and a read of the counter in between is a read    *)
(* before.  The store runs without a persistor here, as it does without a  *)
(* database.                                                               *)
(*                                                                         *)
(* The options are fixed when the program starts; the fail limit and the   *)
(* ban time are read from the live configuration by each request that      *)
(* fails, so a reload may change them between two failures of an address.  *)
(***************************************************************************)
EXTENDS Integers, FiniteSets

CONSTANTS
  IP,          \* client addresses
  NoIP,        \* the empty string, no address
  Hash,        \* fnv32a of an address
  Handlers,    \* goroutines that serve requests
  Cleaners,    \* the goroutine of startJanitor and those that serve Stats
  Worlds       \* what differs from one start of the program to the next

\* Options and clients of one start, and the bound on its clock.
World ==
  [clients    : SUBSET IP,           \* the addresses that send requests
   shards     : Nat \ {0},           \* defaultShardCount()
   maxEntries : Nat,                 \* ip_ban_max_entries, 0 for no limit
   idleTTL    : Nat \ {0},           \* ip_ban_idle_minutes in ticks
   limits     : SUBSET [fail : Nat, ban : Nat],  \* *_fail_limit and *_ban_minutes
   maxTime    : Nat]                 \* bound: the clock stops here

ASSUME IPAssumption    == IsFiniteSet(IP) /\ NoIP \notin IP /\ Hash \in [IP -> Nat]
ASSUME ProcAssumption  == IsFiniteSet(Handlers \cup Cleaners) /\ Handlers \cap Cleaners = {}
ASSUME WorldAssumption == \A w \in Worlds : w \in World

Procs == Handlers \cup Cleaners

VARIABLES
  world,    \* the start of the program this behaviour follows
  now,      \* the clock; 0 is Go's zero time and never shown
  present,  \* addresses that have an entry
  fail, until, seen,   \* the fields of the entries, 0 where there is none
  total,    \* totalEntries
  pc,       \* where each goroutine is
  ip,       \* the address it serves
  t,        \* the clock reading of IsBanned or RecordFailure
  limit,    \* the limits RecordFailure was called with
  u,        \* the clock reading of cleanup
  idx,      \* the shard a loop is at
  dels,     \* entries deleted and not yet counted off
  best,     \* the oldest entry a scan has met, and when it was seen
  bestSeen,
  back      \* where to go on after counting off, or after a scan

\* What nobody in the program remembers.
VARIABLES
  barred,   \* handlers whose address was banned when they asked, and still is
  gone      \* deletions that a goroutine about to evict did not know of when it
            \* compared the counter

entryVars == <<present, fail, until, seen>>
procVars  == <<pc, ip, t, limit, u, idx, dels, best, bestSeen, back>>
ghosts    == <<barred, gone>>
vars      == <<world, now, entryVars, total, procVars, ghosts>>

NoLimit == [fail |-> 0, ban |-> 0]

Init ==
  /\ world \in Worlds
  /\ now = 1
  /\ present = {}
  /\ fail = [i \in IP |-> 0]
  /\ until = [i \in IP |-> 0]
  /\ seen = [i \in IP |-> 0]
  /\ total = 0
  /\ pc = [p \in Procs |-> "idle"]
  /\ ip = [p \in Procs |-> NoIP]
  /\ t = [p \in Procs |-> 0]
  /\ limit = [p \in Procs |-> NoLimit]
  /\ u = [p \in Procs |-> 0]
  /\ idx = [p \in Procs |-> 0]
  /\ dels = [p \in Procs |-> 0]
  /\ best = [p \in Procs |-> NoIP]
  /\ bestSeen = [p \in Procs |-> 0]
  /\ back = [p \in Procs |-> "idle"]
  /\ barred = {}
  /\ gone = [p \in Procs |-> 0]

Go(p, loc) == pc' = [pc EXCEPT ![p] = loc]

\* A handler is through with its request.
Leave(p) ==
  /\ Go(p, "idle")
  /\ ip' = [ip EXCEPT ![p] = NoIP]
  /\ t' = [t EXCEPT ![p] = 0]

\* The deletions that are not yet counted off.
Uncounted == UNION {{p} \X (1 .. dels[p]) : p \in Procs}

Evicting == {p \in Procs : pc[p] \in {"scan", "evict"}}

\* Beyond one more than the limit gone tells nothing new.
UpToLimit(n) == IF n > world.maxEntries THEN world.maxEntries + 1 ELSE n

\* p deletes the entries of S; whoever was barred for one of them no longer is.
Delete(p, S) ==
  /\ barred' = {q \in barred : ip[q] \notin S}
  /\ gone' = [q \in Procs |->
                IF q \in Evicting \ {p} THEN UpToLimit(gone[q] + Cardinality(S \cap present))
                ELSE 0]
  /\ present' = present \ S
  /\ fail' = [i \in IP |-> IF i \in S THEN 0 ELSE fail[i]]
  /\ until' = [i \in IP |-> IF i \in S THEN 0 ELSE until[i]]
  /\ seen' = [i \in IP |-> IF i \in S THEN 0 ELSE seen[i]]

\* IsBanned returns false; its clock reading is not used again.
Pass(p) == Go(p, "verify") /\ t' = [t EXCEPT ![p] = 0]

Banned(i, time) == time < until[i]

Touch(p) == seen' = [seen EXCEPT ![ip[p]] = t[p]]

Idle(i, time) == time - seen[i] >= world.idleTTL

\* h & shardMask; shards are numbered from 1.
ShardOf(i) == 1 + (Hash[i] % world.shards)
-----------------------------------------------------------------------------
(* IsBanned. *)

Request(p) ==
  /\ p \in Handlers
  /\ pc[p] = "idle"
  /\ \E i \in world.clients :
       /\ ip' = [ip EXCEPT ![p] = i]
       /\ barred' = IF Banned(i, now) THEN barred \cup {p} ELSE barred \ {p}
  /\ t' = [t EXCEPT ![p] = now]
  /\ Go(p, "check")
  /\ UNCHANGED <<world, gone, now, limit, entryVars, total, u, idx, dels, best, bestSeen,
                 back>>

\* The first look, under the read lock.
Check(p) ==
  /\ pc[p] = "check"
  /\ \/ /\ ip[p] \notin present
        /\ Pass(p)
     \/ /\ ip[p] \in present
        /\ Go(p, IF Banned(ip[p], t[p]) THEN "confirm" ELSE "expire")
        /\ UNCHANGED t
  /\ UNCHANGED <<world, ghosts, now, limit, entryVars, total, ip, u, idx, dels, best,
                 bestSeen, back>>

\* The second look, under the lock: the entry may be gone or expired by now.
Confirm(p) ==
  /\ pc[p] = "confirm"
  /\ IF ip[p] \in present /\ Banned(ip[p], t[p])
       THEN Touch(p) /\ Leave(p) /\ barred' = barred \ {p}
       ELSE Pass(p) /\ UNCHANGED <<seen, ip, barred>>
  /\ UNCHANGED <<world, gone, now, limit, present, fail, until, total, u, idx, dels, best,
                 bestSeen, back>>

\* Slip: the second look does not compare the times again.
ExpiredUnchecked(p) == ip[p] \in present

Expired(p) ==
  /\ ip[p] \in present
  /\ ~Banned(ip[p], t[p])

\* An entry that is not banned is dropped if it holds no failure or is idle.
Expire(p) ==
  /\ pc[p] = "expire"
  /\ IF Expired(p) /\ (fail[ip[p]] = 0 \/ Idle(ip[p], t[p]))
       THEN /\ Delete(p, {ip[p]})
            /\ dels' = [dels EXCEPT ![p] = 1]
            /\ back' = [back EXCEPT ![p] = "verify"]
            /\ Go(p, "count")
            /\ t' = [t EXCEPT ![p] = 0]
       ELSE /\ IF Expired(p) THEN Touch(p) ELSE UNCHANGED seen
            /\ Pass(p)
            /\ UNCHANGED <<ghosts, present, fail, until, dels, back>>
  /\ UNCHANGED <<world, now, limit, total, ip, u, idx, best, bestSeen>>

\* atomic.AddInt64(&s.totalEntries, -deleted)
Count(p) ==
  /\ pc[p] = "count"
  /\ total' = total - dels[p]
  /\ dels' = [dels EXCEPT ![p] = 0]
  /\ Go(p, back[p])
  /\ back' = [back EXCEPT ![p] = "idle"]
  /\ UNCHANGED <<world, ghosts, now, limit, entryVars, ip, t, u, idx, best, bestSeen>>
-----------------------------------------------------------------------------
(* verifyBasicAuth and verifyPushToken, after IsBanned. *)

\* Nothing to verify: no credentials to check, or token verification is off.
Nothing(p) ==
  /\ pc[p] = "verify"
  /\ Leave(p)
  /\ UNCHANGED <<world, ghosts, now, limit, entryVars, total, u, idx, dels, best,
                 bestSeen, back>>

Good(p) ==
  /\ pc[p] = "verify"
  /\ Go(p, "reset")
  /\ UNCHANGED <<world, ghosts, now, limit, entryVars, total, ip, t, u, idx, dels,
                 best, bestSeen, back>>

\* RecordFailure up to its clock reading, with the limits configured now;
\* without a limit it does nothing.
Bad(p) ==
  /\ pc[p] = "verify"
  /\ \E l \in world.limits :
       IF l.fail = 0 \/ l.ban = 0
         THEN Leave(p) /\ UNCHANGED limit
         ELSE /\ t' = [t EXCEPT ![p] = now]
              /\ limit' = [limit EXCEPT ![p] = l]
              /\ Go(p, "load")
              /\ UNCHANGED ip
  /\ UNCHANGED <<world, ghosts, now, entryVars, total, u, idx, dels, best, bestSeen, back>>

\* Slip: the counter goes down for an address without an entry too.
ResetUnchecked(p) ==
  /\ pc[p] = "reset"
  /\ Delete(p, {ip[p]})
  /\ total' = total - 1
  /\ Leave(p)
  /\ UNCHANGED <<world, now, limit, u, idx, dels, best, bestSeen, back>>

\* Reset: deletion and counter under the lock.
Reset(p) ==
  /\ pc[p] = "reset"
  /\ Delete(p, {ip[p]})
  /\ total' = IF ip[p] \in present THEN total - 1 ELSE total
  /\ Leave(p)
  /\ UNCHANGED <<world, now, limit, u, idx, dels, best, bestSeen, back>>
-----------------------------------------------------------------------------
(* RecordFailure. *)

\* cleanup starts: its own reading of the clock, the first shard.
StartSweep(p) ==
  /\ u' = [u EXCEPT ![p] = now]
  /\ idx' = [idx EXCEPT ![p] = 1]
  /\ Go(p, "sweep")

Full == world.maxEntries > 0 /\ total >= world.maxEntries

Load(p) ==
  /\ pc[p] = "load"
  /\ IF Full
       THEN StartSweep(p)
       ELSE Go(p, "insert") /\ UNCHANGED <<u, idx>>
  /\ UNCHANGED <<world, ghosts, now, limit, entryVars, total, ip, t, dels, best,
                 bestSeen, back>>

\* Slip: the ban comes one failure late.
LimitReachedLate(p) == fail[ip[p]] + 1 > limit[p].fail

LimitReached(p) == fail[ip[p]] + 1 >= limit[p].fail

\* Slip: a failure during a ban counts like any other.
NeverBanned(p) == FALSE

\* A failure during a ban leaves it as it is.
AlreadyBanned(p) == Banned(ip[p], t[p])

\* The part of RecordFailure under the shard lock.
Insert(p) ==
  LET i == ip[p]
  IN  /\ pc[p] = "insert"
      /\ present' = present \cup {i}
      /\ total' = IF i \in present THEN total ELSE total + 1
      /\ Touch(p)
      /\ IF AlreadyBanned(p)
           THEN UNCHANGED <<fail, until>>
           ELSE IF LimitReached(p)
                  THEN /\ fail' = [fail EXCEPT ![i] = 0]
                       /\ until' = [until EXCEPT ![i] = t[p] + limit[p].ban]
                  ELSE /\ fail' = [fail EXCEPT ![i] = @ + 1]
                       /\ until' = until
      /\ limit' = [limit EXCEPT ![p] = NoLimit]
      /\ Leave(p)
      /\ UNCHANGED <<world, ghosts, now, u, idx, dels, best, bestSeen, back>>
-----------------------------------------------------------------------------
(* cleanup and the eviction loops. *)

\* The janitor's ticker fires, or a dashboard asks for Stats.
JanitorWakes(p) ==
  /\ p \in Cleaners
  /\ pc[p] = "idle"
  /\ StartSweep(p)
  /\ UNCHANGED <<world, ghosts, now, limit, entryVars, total, ip, t, dels, best,
                 bestSeen, back>>

ExpiredOrIdle(i, time) == (time > until[i] /\ until[i] # 0) \/ Idle(i, time)

\* One shard under its lock.
Sweep(p) ==
  LET dead == {i \in present : ShardOf(i) = idx[p] /\ ExpiredOrIdle(i, u[p])}
  IN  /\ pc[p] = "sweep"
      /\ Delete(p, dead)
      /\ dels' = [dels EXCEPT ![p] = @ + Cardinality(dead)]
      /\ IF idx[p] < world.shards
           THEN /\ idx' = [idx EXCEPT ![p] = @ + 1]
                /\ UNCHANGED <<pc, u, back>>
           ELSE /\ idx' = [idx EXCEPT ![p] = 0]
                /\ u' = [u EXCEPT ![p] = 0]
                /\ back' = [back EXCEPT ![p] = "inner"]
                /\ Go(p, "count")
      /\ UNCHANGED <<world, now, limit, total, ip, t, best, bestSeen>>

\* Where a goroutine goes when cleanup returns, and when evictGlobal does.
AfterCleanup(p)     == IF p \in Cleaners THEN "idle" ELSE "outer"
AfterLoop(p, loop)  == IF loop = "inner" THEN AfterCleanup(p) ELSE "insert"

\* Slip: the loops make room for the entry to come.
OverfullAtLimit == world.maxEntries > 0 /\ total >= world.maxEntries

Overfull == world.maxEntries > 0 /\ total > world.maxEntries

\* The loop conditions: the one of cleanup, then the one of evictGlobal.
Loop(p) ==
  /\ pc[p] \in {"inner", "outer"}
  /\ IF Overfull
       THEN /\ back' = [back EXCEPT ![p] = pc[p]]
            /\ idx' = [idx EXCEPT ![p] = 1]
            /\ gone' = [gone EXCEPT ![p] = UpToLimit(Cardinality(Uncounted))]
            /\ Go(p, "scan")
       ELSE Go(p, AfterLoop(p, pc[p])) /\ UNCHANGED <<gone, back, idx>>
  /\ UNCHANGED <<world, barred, now, limit, entryVars, total, ip, t, u, dels, best,
                 bestSeen>>

\* evictOldestOnce, one shard under its read lock: keep an oldest entry.
Scan(p) ==
  LET here == {i \in present : ShardOf(i) = idx[p]}
      older == {i \in here : \A j \in here : seen[i] <= seen[j]}
  IN  /\ pc[p] = "scan"
      /\ \/ /\ here = {} \/ (best[p] # NoIP /\ \A i \in here : seen[i] >= bestSeen[p])
            /\ UNCHANGED <<best, bestSeen>>
         \/ \E i \in older :
              /\ best[p] = NoIP \/ seen[i] < bestSeen[p]
              /\ best' = [best EXCEPT ![p] = i]
              /\ bestSeen' = [bestSeen EXCEPT ![p] = seen[i]]
      /\ IF idx[p] < world.shards
           THEN idx' = [idx EXCEPT ![p] = @ + 1] /\ UNCHANGED pc
           ELSE idx' = [idx EXCEPT ![p] = 0] /\ Go(p, "evict")
      /\ UNCHANGED <<world, ghosts, now, limit, entryVars, total, ip, t, u, dels, back>>

\* evictOldestOnce, under the lock: delete if it is still there, else give up.
Evict(p) ==
  /\ pc[p] = "evict"
  /\ IF best[p] \in present
       THEN /\ Delete(p, {best[p]})
            /\ dels' = [dels EXCEPT ![p] = 1]
            /\ Go(p, "count")
            /\ UNCHANGED back
       ELSE /\ Go(p, AfterLoop(p, back[p]))
            /\ back' = [back EXCEPT ![p] = "idle"]
            /\ gone' = [gone EXCEPT ![p] = 0]
            /\ UNCHANGED <<barred, entryVars, dels>>
  /\ best' = [best EXCEPT ![p] = NoIP]
  /\ bestSeen' = [bestSeen EXCEPT ![p] = 0]
  /\ UNCHANGED <<world, now, limit, total, ip, t, u, idx>>

Tick ==
  /\ now < world.maxTime
  /\ now' = now + 1
  /\ UNCHANGED <<world, ghosts, entryVars, total, procVars>>

Step(p) ==
  \/ Check(p) \/ Confirm(p) \/ Expire(p) \/ Count(p)
  \/ Nothing(p) \/ Good(p) \/ Bad(p) \/ Reset(p)
  \/ Load(p) \/ Insert(p)
  \/ Sweep(p) \/ Loop(p) \/ Scan(p) \/ Evict(p)

Next ==
  \/ \E p \in Procs : Request(p) \/ JanitorWakes(p) \/ Step(p)
  \/ Tick

Spec == Init /\ [][Next]_vars
-----------------------------------------------------------------------------
Locations == {"idle", "check", "confirm", "expire", "count", "verify", "reset", "load",
              "insert", "sweep", "inner", "outer", "scan", "evict"}

\* Every variable stays in its domain; an entry never holds as many failures as
\* ban it under every limit it was configured with (ban.go:181-182).
TypeOK ==
  /\ world \in Worlds
  /\ now \in Nat
  /\ present \subseteq world.clients
  /\ fail \in [IP -> Nat]
  /\ \A i \in IP : fail[i] = 0 \/ \E l \in world.limits : fail[i] < l.fail
  /\ until \in [IP -> Nat]
  /\ seen \in [IP -> Nat]
  /\ total \in Int
  /\ pc \in [Procs -> Locations]
  /\ ip \in [Procs -> IP \cup {NoIP}]
  /\ t \in [Procs -> Nat]
  /\ limit \in [Procs -> world.limits \cup {NoLimit}]
  /\ u \in [Procs -> Nat]
  /\ idx \in [Procs -> 0 .. world.shards]
  /\ dels \in [Procs -> Nat]
  /\ best \in [Procs -> IP \cup {NoIP}]
  /\ bestSeen \in [Procs -> Nat]
  /\ back \in [Procs -> {"idle", "verify", "inner", "outer"}]
  /\ barred \subseteq Handlers
  /\ gone \in [Procs -> Nat]

\* The counter is the number of entries plus the deletions that are not yet
\* counted off, so it is never short of the entries and never negative, which
\* is what Stats sizes a slice by (ban.go:141, 169, 203, 228, 306, 373).
CounterExact == total = Cardinality(present) + Cardinality(Uncounted)

\* Goroutines that find the table too full at the same moment, or a deletion
\* that is not yet counted off, evict no more than what exceeds the limit and
\* those deletions: whoever is about to evict had a table over the limit but for
\* what it could not know of (ban.go:310-316, 339-344, 368-376).
EvictionsAreExcess == \A p \in Evicting : Cardinality(present) + gone[p] > world.maxEntries

\* A ban ends early only through a success of its address, for want of room or
\* because nobody asked for it during the idle time; a handler that still
\* thinks an earlier ban of the address expired never lifts it, and no failure
\* shortens it (ban.go:134-147, 173-183, 321-332).
BanStands ==
  [][\A i \in present : Banned(i, now) =>
       \/ i \in present' /\ until'[i] >= until[i]
       \/ \E p \in Procs : \/ pc[p] = "reset" /\ ip[p] = i
                           \/ pc[p] = "evict" /\ best[p] = i
                           \/ pc[p] = "sweep" /\ Idle(i, u[p])]_vars

\* A client that asks while its address is banned is not verified, whatever the
\* others do to the entry between the two looks of IsBanned, unless the ban is
\* lifted under it; only one that asked before the ban began slips past it
\* (ban.go:108-150, 171-196).
BannedNotVerified == \A p \in barred : pc[p] \in {"check", "confirm"}
=============================================================================
