-------------------------- MODULE IPBanStoreProofs --------------------------
(***************************************************************************)
(* Theorems about the ban store, for any number of handlers, cleaners,     *)
(* addresses and shards and for any options and limits.                    *)
(***************************************************************************)
EXTENDS IPBanStore, FiniteSetTheorems, TLAPS

USE IPAssumption, ProcAssumption, WorldAssumption

\* A handler under way serves a client; a cleaner only cleans up.
Places ==
  /\ \A p \in Handlers : pc[p] # "idle" => ip[p] \in world.clients
  /\ \A p \in Cleaners :
       /\ pc[p] \in {"idle", "sweep", "count", "inner", "scan", "evict"}
       /\ back[p] \in {"idle", "inner"}
       /\ pc[p] \in {"scan", "evict"} => back[p] = "inner"

\* No goroutine holds a clock reading of the future.
Clocks == \A p \in Procs : t[p] <= now /\ u[p] <= now

\* Who asked during a ban finds it, by the clock reading it asked with.
Barred ==
  /\ \A i \in IP \ present : until[i] = 0
  /\ \A p \in barred : /\ pc[p] \in {"check", "confirm"}
                       /\ ip[p] \in present
                       /\ Banned(ip[p], t[p])

\* The counter, and that what it is compared with can be counted.
Counted == CounterExact /\ IsFiniteSet(Uncounted)

\* A goroutine owes only from its sweep to its count: a deletion of IsBanned and an
\* eviction start with nothing owed.
Owing == \A p \in Procs : dels[p] # 0 => pc[p] \in {"sweep", "count"}
-----------------------------------------------------------------------------
(* Types and places. *)

LEMMA WorldType ==
  ASSUME TypeOK
  PROVE  /\ world.clients \subseteq IP
         /\ world.shards \in Nat \ {0}
         /\ world.maxEntries \in Nat
         /\ world.idleTTL \in Nat \ {0}
         /\ \A l \in world.limits : l.fail \in Nat /\ l.ban \in Nat
         /\ NoLimit.fail = 0 /\ NoLimit.ban = 0
<1>1. world \in World
  BY DEF TypeOK
<1>2. world.limits \subseteq [fail : Nat, ban : Nat]
  BY <1>1 DEF World
<1> QED BY <1>1, <1>2 DEF World, NoLimit

\* What IsBanned, RecordFailure and the evictions delete.
LEMMA DeleteType ==
  ASSUME TypeOK, NEW p \in Procs, NEW S, Delete(p, S)
  PROVE  /\ present' \subseteq world.clients
         /\ fail' \in [IP -> Nat]
         /\ \A i \in IP : fail'[i] = 0 \/ \E l \in world.limits : fail'[i] < l.fail
         /\ until' \in [IP -> Nat]
         /\ seen' \in [IP -> Nat]
         /\ barred' \subseteq Handlers
         /\ gone' \in [Procs -> Nat]
<1>1. Cardinality(S \cap present) \in Nat /\ world.maxEntries \in Nat
  BY WorldType, FS_Subset, FS_CardinalityType DEF TypeOK
<1>2. gone' \in [Procs -> Nat]
  BY <1>1 DEF TypeOK, Delete, UpToLimit
<1> QED BY <1>2 DEF TypeOK, Delete

LEMMA InitType == Init => TypeOK /\ Places
<1> SUFFICES ASSUME Init PROVE TypeOK /\ Places
  OBVIOUS
<1>1. world \in World /\ world.shards \in Nat
  BY DEF Init, World
<1> QED BY <1>1 DEF Init, TypeOK, Places, NoLimit, Locations, Procs

LEMMA AskType ==
  ASSUME TypeOK, Places, NEW p \in Procs, Request(p) \/ Check(p) \/ Confirm(p)
  PROVE  TypeOK' /\ Places'
<1> USE WorldType DEF ghosts, entryVars, Go, Leave, Pass, Touch, Locations, Procs
<1>1. CASE Request(p)
  BY <1>1 DEF TypeOK, Places, Request
<1>2. CASE Check(p)
  BY <1>2 DEF TypeOK, Places, Check
<1>3. CASE Confirm(p)
  BY <1>3 DEF TypeOK, Places, Confirm
<1> QED BY <1>1, <1>2, <1>3

LEMMA ExpireType ==
  ASSUME TypeOK, Places, NEW p \in Procs, Expire(p) \/ Count(p)
  PROVE  TypeOK' /\ Places'
<1> USE WorldType DEF ghosts, entryVars, Go, Pass, Touch, Locations, Procs
<1>1. CASE Expire(p)
  <2>1. CASE Expired(p) /\ (fail[ip[p]] = 0 \/ Idle(ip[p], t[p]))
    <3>1. Delete(p, {ip[p]})
      BY <1>1, <2>1 DEF Expire
    <3> QED BY <1>1, <2>1, <3>1, DeleteType DEF TypeOK, Places, Expire
  <2>2. CASE ~(Expired(p) /\ (fail[ip[p]] = 0 \/ Idle(ip[p], t[p])))
    BY <1>1, <2>2 DEF TypeOK, Places, Expire
  <2> QED BY <2>1, <2>2
<1>2. CASE Count(p)
  BY <1>2 DEF TypeOK, Places, Count
<1> QED BY <1>1, <1>2

LEMMA VerifyType ==
  ASSUME TypeOK, Places, NEW p \in Procs, Nothing(p) \/ Good(p) \/ Bad(p) \/ Reset(p)
  PROVE  TypeOK' /\ Places'
<1> USE WorldType DEF ghosts, entryVars, Go, Leave, Locations, Procs
<1>1. CASE Nothing(p)
  BY <1>1 DEF TypeOK, Places, Nothing
<1>2. CASE Good(p)
  BY <1>2 DEF TypeOK, Places, Good
<1>3. CASE Bad(p)
  BY <1>3 DEF TypeOK, Places, Bad
<1>4. CASE Reset(p)
  BY <1>4, DeleteType DEF TypeOK, Places, Reset
<1> QED BY <1>1, <1>2, <1>3, <1>4

LEMMA RecordType ==
  ASSUME TypeOK, Places, NEW p \in Procs, Load(p) \/ Insert(p)
  PROVE  TypeOK' /\ Places'
<1> USE WorldType DEF ghosts, entryVars, Go, Leave, Touch, StartSweep, Locations, Procs
<1>1. CASE Load(p)
  BY <1>1 DEF TypeOK, Places, Load
<1>2. CASE Insert(p)
  <2>1. p \in Handlers /\ ip[p] \in world.clients /\ ip[p] \in IP
    BY <1>2 DEF Places, Insert
  <2>2. limit[p] \in world.limits \cup {NoLimit} /\ limit[p].fail \in Nat /\ limit[p].ban \in Nat
    BY DEF TypeOK
  <2>3. /\ fail' \in [IP -> Nat] /\ until' \in [IP -> Nat]
        /\ \A i \in IP : fail'[i] = 0 \/ \E l \in world.limits : fail'[i] < l.fail
    <3>1. CASE AlreadyBanned(p)
      BY <1>2, <3>1 DEF TypeOK, Insert
    <3>2. CASE ~AlreadyBanned(p) /\ LimitReached(p)
      BY <1>2, <2>1, <2>2, <3>2 DEF TypeOK, Insert
    <3>3. CASE ~AlreadyBanned(p) /\ ~LimitReached(p)
      <4>1. fail[ip[p]] + 1 < limit[p].fail /\ limit[p] \in world.limits
        BY <2>1, <2>2, <3>3 DEF TypeOK, LimitReached
      <4> QED BY <1>2, <2>1, <3>3, <4>1 DEF TypeOK, Insert
    <3> QED BY <3>1, <3>2, <3>3
  <2>4. /\ present' \subseteq world.clients /\ seen' \in [IP -> Nat] /\ total' \in Int
        /\ limit' \in [Procs -> world.limits \cup {NoLimit}]
        /\ pc' = [pc EXCEPT ![p] = "idle"] /\ ip' = [ip EXCEPT ![p] = NoIP]
        /\ t' = [t EXCEPT ![p] = 0]
    BY <1>2, <2>1 DEF TypeOK, Insert
  <2>5. UNCHANGED <<world, ghosts, now, u, idx, dels, best, bestSeen, back>>
    BY <1>2 DEF Insert
  <2> QED BY <2>1, <2>3, <2>4, <2>5 DEF TypeOK, Places
<1> QED BY <1>1, <1>2

LEMMA CleanupType ==
  ASSUME TypeOK, Places, Counted, NEW p \in Procs, JanitorWakes(p) \/ Sweep(p) \/ Loop(p)
  PROVE  TypeOK' /\ Places'
<1> USE WorldType DEF ghosts, entryVars, Go, StartSweep, AfterLoop, AfterCleanup, Locations, Procs
<1>1. CASE JanitorWakes(p)
  BY <1>1 DEF TypeOK, Places, JanitorWakes
<1>2. CASE Sweep(p)
  <2> DEFINE dead == {i \in present : ShardOf(i) = idx[p] /\ ExpiredOrIdle(i, u[p])}
  <2>1. Delete(p, dead) /\ pc[p] = "sweep"
    BY <1>2 DEF Sweep
  <2>2. dead \subseteq IP
    BY DEF TypeOK
  <2>3. Cardinality(dead) \in Nat
    BY <2>2, FS_Subset, FS_CardinalityType
  <2>4. dels' \in [Procs -> Nat]
    BY <1>2, <2>3 DEF TypeOK, Sweep
  <2> HIDE DEF dead
  <2>5. CASE idx[p] < world.shards
    <3>1. /\ idx' = [idx EXCEPT ![p] = @ + 1]
          /\ UNCHANGED <<pc, u, back, world, now, limit, total, ip, t, best, bestSeen>>
      BY <1>2, <2>5 DEF Sweep
    <3> QED BY <2>1, <2>4, <2>5, <3>1, DeleteType DEF TypeOK, Places
  <2>6. CASE ~(idx[p] < world.shards)
    <3>1. /\ idx' = [idx EXCEPT ![p] = 0] /\ u' = [u EXCEPT ![p] = 0]
          /\ back' = [back EXCEPT ![p] = "inner"] /\ pc' = [pc EXCEPT ![p] = "count"]
          /\ UNCHANGED <<world, now, limit, total, ip, t, best, bestSeen>>
      BY <1>2, <2>6 DEF Sweep
    <3> QED BY <2>1, <2>4, <3>1, DeleteType DEF TypeOK, Places
  <2> QED BY <2>5, <2>6
<1>3. CASE Loop(p)
  <2>1. UpToLimit(Cardinality(Uncounted)) \in Nat
    BY WorldType, FS_CardinalityType DEF Counted, UpToLimit
  <2>2. gone' \in [Procs -> Nat]
    BY <1>3, <2>1 DEF TypeOK, Loop
  <2> QED BY <1>3, <2>2 DEF TypeOK, Places, Loop
<1> QED BY <1>1, <1>2, <1>3

LEMMA EvictType ==
  ASSUME TypeOK, Places, NEW p \in Procs, Scan(p) \/ Evict(p)
  PROVE  TypeOK' /\ Places'
<1> USE WorldType DEF ghosts, entryVars, Go, AfterLoop, AfterCleanup, Locations, Procs
<1>1. CASE Scan(p)
  BY <1>1 DEF TypeOK, Places, Scan
<1>2. CASE Evict(p)
  <2>1. CASE best[p] \in present
    BY <1>2, <2>1, DeleteType DEF TypeOK, Places, Evict
  <2>2. CASE best[p] \notin present
    BY <1>2, <2>2 DEF TypeOK, Places, Evict
  <2> QED BY <2>1, <2>2
<1> QED BY <1>1, <1>2

LEMMA NextType == TypeOK /\ Places /\ Counted /\ [Next]_vars => TypeOK' /\ Places'
<1> SUFFICES ASSUME TypeOK, Places, Counted, [Next]_vars PROVE TypeOK' /\ Places'
  OBVIOUS
<1>1. ASSUME NEW p \in Procs, Request(p) \/ JanitorWakes(p) \/ Step(p) PROVE TypeOK' /\ Places'
  BY <1>1, AskType, ExpireType, VerifyType, RecordType, CleanupType, EvictType DEF Step
<1>2. CASE Tick
  BY <1>2 DEF TypeOK, Places, Tick, ghosts, entryVars, procVars
<1>3. CASE UNCHANGED vars
  BY <1>3 DEF TypeOK, Places, vars, ghosts, entryVars, procVars
<1> QED BY <1>1, <1>2, <1>3 DEF Next

-----------------------------------------------------------------------------
(* Bans. *)

\* Steps that hand no clock reading on but drop one or take the time of now.
LEMMA NextClocks == TypeOK /\ Clocks /\ [Next]_vars => Clocks'
<1> SUFFICES ASSUME TypeOK, Clocks, [Next]_vars PROVE Clocks'
  OBVIOUS
<1> USE DEF TypeOK, Clocks, Go, Leave, Pass, StartSweep, Procs
<1>1. ASSUME NEW p \in Procs, Request(p) \/ JanitorWakes(p) PROVE Clocks'
  BY <1>1 DEF Request, JanitorWakes
<1>2. ASSUME NEW p \in Procs, Check(p) \/ Confirm(p) \/ Expire(p) \/ Count(p) PROVE Clocks'
  BY <1>2 DEF Check, Confirm, Expire, Count
<1>3. ASSUME NEW p \in Procs, Nothing(p) \/ Good(p) \/ Bad(p) \/ Reset(p) PROVE Clocks'
  BY <1>3 DEF Nothing, Good, Bad, Reset
<1>4. ASSUME NEW p \in Procs, Load(p) \/ Insert(p) PROVE Clocks'
  BY <1>4 DEF Load, Insert
<1>5. ASSUME NEW p \in Procs, Sweep(p) \/ Loop(p) \/ Scan(p) \/ Evict(p) PROVE Clocks'
  BY <1>5 DEF Sweep, Loop, Scan, Evict
<1>6. CASE Tick
  BY <1>6 DEF Tick, procVars
<1>7. CASE UNCHANGED vars
  BY <1>7 DEF vars, procVars
<1> QED BY <1>1, <1>2, <1>3, <1>4, <1>5, <1>6, <1>7 DEF Next, Step

\* Deleting entries leaves nobody barred for one of them.
LEMMA DeleteBarred ==
  ASSUME TypeOK, Barred, NEW p, NEW S, Delete(p, S),
         \A q \in barred : pc'[q] = pc[q] /\ ip'[q] = ip[q] /\ t'[q] = t[q]
  PROVE  Barred'
<1>1. present' = present \ S /\ \A i \in IP : until'[i] = IF i \in S THEN 0 ELSE until[i]
  BY DEF Delete
<1>2. \A i \in IP \ present' : until'[i] = 0
  BY <1>1 DEF Barred
<1>3. ASSUME NEW q \in barred'
      PROVE  pc'[q] \in {"check", "confirm"} /\ ip'[q] \in present' /\ t'[q] < until'[ip'[q]]
  <2>1. q \in barred /\ ip[q] \notin S
    BY <1>3 DEF Delete
  <2>2. ip[q] \in present /\ ip[q] \in IP /\ t[q] < until[ip[q]] /\ pc[q] \in {"check", "confirm"}
    BY <2>1, WorldType DEF TypeOK, Barred, Banned
  <2> QED BY <1>1, <2>1, <2>2
<1> QED BY <1>2, <1>3 DEF Barred, Banned

\* A step that touches neither entries nor who is barred, and moves nobody who is.
LEMMA SameBarred ==
  ASSUME TypeOK, Barred, UNCHANGED <<present, until, barred>>,
         \A q \in barred : pc'[q] = pc[q] /\ ip'[q] = ip[q] /\ t'[q] = t[q]
  PROVE  Barred'
BY DEF TypeOK, Barred, Banned

LEMMA AskBarred ==
  ASSUME TypeOK, Places, Barred, NEW p \in Procs,
         Request(p) \/ Check(p) \/ Confirm(p) \/ Expire(p)
  PROVE  Barred'
<1> USE DEF ghosts, entryVars, Go, Leave, Pass, Touch, Procs
<1>1. CASE Request(p)
  <2>1. PICK i \in world.clients :
          /\ ip' = [ip EXCEPT ![p] = i]
          /\ barred' = IF Banned(i, now) THEN barred \cup {p} ELSE barred \ {p}
    BY <1>1 DEF Request
  <2>2. i \in IP /\ now \in Nat /\ until[i] \in Nat
    BY WorldType DEF TypeOK
  <2>3. t' = [t EXCEPT ![p] = now] /\ pc' = [pc EXCEPT ![p] = "check"]
        /\ UNCHANGED <<present, until>>
    BY <1>1 DEF Request
  <2>4. Banned(i, now) => i \in present
    BY <2>2 DEF Barred, Banned
  <2> QED BY <2>1, <2>2, <2>3, <2>4 DEF TypeOK, Barred, Banned
<1>2. CASE Check(p)
  BY <1>2 DEF TypeOK, Barred, Check, Banned
<1>3. CASE Confirm(p)
  BY <1>3 DEF TypeOK, Barred, Confirm, Banned
<1>4. CASE Expire(p)
  <2>1. p \notin barred
    BY <1>4 DEF Barred, Expire
  <2>2. CASE Expired(p) /\ (fail[ip[p]] = 0 \/ Idle(ip[p], t[p]))
    <3>1. Delete(p, {ip[p]}) /\ UNCHANGED ip /\ t' = [t EXCEPT ![p] = 0] /\ pc' = [pc EXCEPT ![p] = "count"]
      BY <1>4, <2>2 DEF Expire
    <3> QED BY <2>1, <3>1, DeleteBarred DEF TypeOK
  <2>3. CASE ~(Expired(p) /\ (fail[ip[p]] = 0 \/ Idle(ip[p], t[p])))
    BY <1>4, <2>1, <2>3, SameBarred DEF TypeOK, Expire
  <2> QED BY <2>2, <2>3
<1> QED BY <1>1, <1>2, <1>3, <1>4

LEMMA VerifyBarred ==
  ASSUME TypeOK, Places, Barred, NEW p \in Procs,
         Count(p) \/ Nothing(p) \/ Good(p) \/ Bad(p) \/ Reset(p) \/ Load(p)
  PROVE  Barred'
<1> USE DEF ghosts, entryVars, Go, Leave, StartSweep, Procs
<1>0. p \notin barred
  BY DEF Barred, Count, Nothing, Good, Bad, Reset, Load
<1>1. CASE Count(p) \/ Nothing(p) \/ Good(p) \/ Bad(p) \/ Load(p)
  BY <1>0, <1>1, SameBarred DEF TypeOK, Count, Nothing, Good, Bad, Load
<1>2. CASE Reset(p)
  <2>1. Delete(p, {ip[p]})
    BY <1>2 DEF Reset
  <2> QED BY <1>0, <1>2, <2>1, DeleteBarred DEF TypeOK, Reset
<1> QED BY <1>1, <1>2

\* RecordFailure never moves the end of a ban to an earlier time.
LEMMA InsertLengthens ==
  ASSUME TypeOK, Places, NEW p \in Procs, Insert(p)
  PROVE  /\ present \subseteq present'
         /\ \A i \in IP : until'[i] >= until[i] /\ until'[i] \in Nat
         /\ \A i \in IP \ present' : until'[i] = until[i] /\ i \notin present
<1>1. p \in Handlers /\ ip[p] \in IP
  BY WorldType DEF TypeOK, Places, Insert, Procs
<1>2. limit[p].ban \in Nat /\ t[p] \in Nat /\ limit[p] \in world.limits \cup {NoLimit}
  BY WorldType DEF TypeOK
<1>3. present' = present \cup {ip[p]}
  BY DEF Insert
<1>4. CASE until' = until
  BY <1>3, <1>4 DEF TypeOK
<1>5. CASE ~AlreadyBanned(p) /\ until' = [until EXCEPT ![ip[p]] = t[p] + limit[p].ban]
  BY <1>1, <1>2, <1>3, <1>5 DEF TypeOK, AlreadyBanned, Banned
<1> QED BY <1>4, <1>5 DEF Insert

LEMMA InsertBarred ==
  ASSUME TypeOK, Places, Barred, NEW p \in Procs, Insert(p)
  PROVE  Barred'
<1>1. p \notin barred /\ barred \subseteq Procs
  BY DEF TypeOK, Barred, Insert, Procs
<1>2. UNCHANGED barred /\ \A q \in barred : pc'[q] = pc[q] /\ ip'[q] = ip[q] /\ t'[q] = t[q]
  BY <1>1 DEF TypeOK, Insert, Go, Leave, ghosts
<1>3. \A i \in IP \ present' : until'[i] = 0
  BY InsertLengthens DEF Barred
<1>4. \A q \in barred : /\ pc'[q] \in {"check", "confirm"}
                        /\ ip'[q] \in present' /\ t'[q] < until'[ip'[q]]
  <2> TAKE q \in barred
  <2>1. ip[q] \in present /\ ip[q] \in IP /\ t[q] < until[ip[q]] /\ t[q] \in Nat /\ until[ip[q]] \in Nat
    BY <1>1, WorldType DEF TypeOK, Barred, Banned
  <2> QED BY <1>2, <2>1, InsertLengthens DEF Barred
<1> QED BY <1>2, <1>3, <1>4 DEF Barred, Banned

LEMMA EvictBarred ==
  ASSUME TypeOK, Places, Barred, NEW p \in Procs,
         JanitorWakes(p) \/ Sweep(p) \/ Loop(p) \/ Scan(p) \/ Evict(p)
  PROVE  Barred'
<1> USE DEF ghosts, entryVars, Go, StartSweep, Procs
<1>0. p \notin barred
  BY DEF Barred, TypeOK, JanitorWakes, Sweep, Loop, Scan, Evict
<1>1. CASE JanitorWakes(p) \/ Loop(p) \/ Scan(p)
  BY <1>0, <1>1, SameBarred DEF TypeOK, JanitorWakes, Loop, Scan
<1>2. CASE Sweep(p)
  <2>1. PICK S : Delete(p, S)
    BY <1>2 DEF Sweep
  <2>2. UNCHANGED <<ip, t>> /\ \A q \in Procs \ {p} : pc'[q] = pc[q]
    BY <1>2 DEF TypeOK, Sweep
  <2>3. barred' \subseteq barred
    BY <2>1 DEF Delete
  <2> QED BY <1>0, <2>1, <2>2, <2>3, DeleteBarred DEF TypeOK
<1>3. CASE Evict(p)
  <2>1. UNCHANGED <<ip, t>> /\ \A q \in Procs \ {p} : pc'[q] = pc[q]
    BY <1>3 DEF TypeOK, Evict
  <2>2. CASE best[p] \in present
    <3>1. Delete(p, {best[p]})
      BY <1>3, <2>2 DEF Evict
    <3>2. barred' \subseteq barred
      BY <3>1 DEF Delete
    <3> QED BY <1>0, <2>1, <3>1, <3>2, DeleteBarred DEF TypeOK
  <2>3. CASE best[p] \notin present
    BY <1>0, <1>3, <2>1, <2>3, SameBarred DEF TypeOK, Evict
  <2> QED BY <2>2, <2>3
<1> QED BY <1>1, <1>2, <1>3

LEMMA NextBarred == TypeOK /\ Places /\ Barred /\ [Next]_vars => Barred'
<1> SUFFICES ASSUME TypeOK, Places, Barred, [Next]_vars PROVE Barred'
  OBVIOUS
<1>1. ASSUME NEW p \in Procs, Request(p) \/ JanitorWakes(p) \/ Step(p) PROVE Barred'
  BY <1>1, AskBarred, VerifyBarred, InsertBarred, EvictBarred DEF Step
<1>2. CASE Tick
  BY <1>2 DEF Barred, Banned, Tick, ghosts, entryVars, procVars
<1>3. CASE UNCHANGED vars
  BY <1>3 DEF Barred, Banned, vars, ghosts, entryVars, procVars
<1> QED BY <1>1, <1>2, <1>3 DEF Next
-----------------------------------------------------------------------------
(* The counter. *)

LEMMA OwedSize ==
  ASSUME NEW p, NEW a \in Int, NEW b \in Int, a <= b + 1
  PROVE  IsFiniteSet({p} \X (a .. b)) /\ Cardinality({p} \X (a .. b)) = b - a + 1
<1> DEFINE f == [x \in a .. b |-> <<p, x>>]
<1>1. IsFiniteSet(a .. b) /\ Cardinality(a .. b) = b - a + 1
  BY FS_Interval
<1>2. f \in Bijection(a .. b, {p} \X (a .. b))
  <2>1. f \in [a .. b -> {p} \X (a .. b)]
    OBVIOUS
  <2>2. \A x, y \in a .. b : f[x] = f[y] => x = y
    OBVIOUS
  <2>3. \A z \in {p} \X (a .. b) : \E x \in a .. b : f[x] = z
    OBVIOUS
  <2> HIDE DEF f
  <2> QED BY <2>1, <2>2, <2>3 DEF Bijection, Injection, Surjection, IsInjective
<1>3. ExistsBijection(a .. b, {p} \X (a .. b))
  BY <1>2 DEF ExistsBijection
<1> QED BY <1>1, <1>3, FS_Bijection

\* A goroutine that owes n more, and one that owes nothing any more.
LEMMA DisjointSize ==
  ASSUME NEW S, NEW T, IsFiniteSet(S), IsFiniteSet(T), S \cap T = {}
  PROVE  /\ IsFiniteSet(S \cup T)
         /\ Cardinality(S \cup T) = Cardinality(S) + Cardinality(T)
<1>1. /\ IsFiniteSet(S \cup T)
      /\ Cardinality(S \cup T) = Cardinality(S) + Cardinality(T) - Cardinality(S \cap T)
  BY FS_Union
<1>2. Cardinality(S \cap T) = 0
  BY FS_EmptySet
<1>3. Cardinality(S) \in Nat /\ Cardinality(T) \in Nat
  BY FS_CardinalityType
<1> QED BY <1>1, <1>2, <1>3

LEMMA OweMore ==
  ASSUME dels \in [Procs -> Nat], IsFiniteSet(Uncounted), NEW p \in Procs, NEW n \in Nat,
         dels' = [dels EXCEPT ![p] = dels[p] + n]
  PROVE  /\ IsFiniteSet(Uncounted')
         /\ Cardinality(Uncounted') = Cardinality(Uncounted) + n
<1> DEFINE low == dels[p] + 1
           high == dels[p] + n
           new == {p} \X (low .. high)
<1>0. low \in Int /\ high \in Int /\ low <= high + 1 /\ high - low + 1 = n
  OBVIOUS
<1> HIDE DEF low, high
<1>1. IsFiniteSet(new) /\ Cardinality(new) = high - low + 1
  BY <1>0, OwedSize
<1> USE DEF low, high
<1>2. Uncounted' = Uncounted \cup new
  BY DEF Uncounted
<1>3. Uncounted \cap new = {}
  BY DEF Uncounted
<1> HIDE DEF new
<1>4. Cardinality(new) = n
  BY <1>0, <1>1
<1> QED BY <1>1, <1>2, <1>3, <1>4, DisjointSize

LEMMA OweNothing ==
  ASSUME dels \in [Procs -> Nat], IsFiniteSet(Uncounted), NEW p \in Procs,
         dels' = [dels EXCEPT ![p] = 0]
  PROVE  /\ IsFiniteSet(Uncounted')
         /\ Cardinality(Uncounted') = Cardinality(Uncounted) - dels[p]
<1> DEFINE low == 1
           high == dels[p]
           old == {p} \X (low .. high)
<1>0. low \in Int /\ high \in Int /\ low <= high + 1 /\ high - low + 1 = dels[p]
  OBVIOUS
<1> HIDE DEF low, high
<1>1. IsFiniteSet(old) /\ Cardinality(old) = high - low + 1
  BY <1>0, OwedSize
<1> USE DEF low, high
<1>2. Uncounted = Uncounted' \cup old
  BY DEF Uncounted
<1>3. Uncounted' \cap old = {}
  BY DEF Uncounted
<1> HIDE DEF old
<1>4. IsFiniteSet(Uncounted') /\ Cardinality(Uncounted') \in Nat
  BY <1>2, FS_Subset, FS_CardinalityType
<1>5. Cardinality(Uncounted) = Cardinality(Uncounted') + Cardinality(old)
  BY <1>1, <1>2, <1>3, <1>4, DisjointSize
<1> QED BY <1>0, <1>1, <1>4, <1>5

LEMMA Entries ==
  ASSUME TypeOK
  PROVE  IsFiniteSet(present) /\ Cardinality(present) \in Nat
BY WorldType, FS_Subset, FS_CardinalityType DEF TypeOK

\* Entries that go and are owed leave the sum as it is.
LEMMA DeleteCounted ==
  ASSUME TypeOK, Counted, NEW S \in SUBSET present, NEW p \in Procs, Delete(p, S),
         dels' = [dels EXCEPT ![p] = dels[p] + Cardinality(S)], UNCHANGED total
  PROVE  Counted'
<1>1. IsFiniteSet(S) /\ Cardinality(S) \in Nat /\ Cardinality(present) \in Nat
  BY Entries, FS_Subset, FS_CardinalityType
<1>2. present = present' \cup S /\ present' \cap S = {} /\ present' \subseteq present
  BY DEF Delete
<1>3. IsFiniteSet(present') /\ Cardinality(present') \in Nat /\ Cardinality({}) = 0
  BY <1>2, Entries, FS_Subset, FS_CardinalityType, FS_EmptySet
<1>4. Cardinality(present) = Cardinality(present') + Cardinality(S)
  BY <1>1, <1>2, <1>3, DisjointSize
<1>5. /\ IsFiniteSet(Uncounted') /\ Cardinality(Uncounted) \in Nat
      /\ Cardinality(Uncounted') = Cardinality(Uncounted) + Cardinality(S)
  BY <1>1, OweMore, FS_CardinalityType DEF TypeOK, Counted
<1> QED BY <1>1, <1>3, <1>4, <1>5 DEF Counted, CounterExact

LEMMA SameCounted ==
  ASSUME Counted, UNCHANGED <<present, dels, total>>
  PROVE  Counted'
BY DEF Counted, CounterExact, Uncounted

LEMMA CountCounted ==
  ASSUME TypeOK, Counted, NEW p \in Procs, Count(p)
  PROVE  Counted'
<1>1. dels' = [dels EXCEPT ![p] = 0] /\ total' = total - dels[p] /\ UNCHANGED present
  BY DEF Count, entryVars
<1>2. /\ IsFiniteSet(Uncounted') /\ Cardinality(Uncounted) \in Nat /\ dels[p] \in Nat
      /\ Cardinality(Uncounted') = Cardinality(Uncounted) - dels[p]
  BY <1>1, OweNothing, FS_CardinalityType DEF TypeOK, Counted
<1> QED BY <1>1, <1>2, Entries DEF Counted, CounterExact

LEMMA OneCounted ==
  ASSUME TypeOK, Counted, NEW i \in IP, UNCHANGED dels,
         \/ present' = present \ {i} /\ total' = IF i \in present THEN total - 1 ELSE total
         \/ present' = present \cup {i} /\ total' = IF i \in present THEN total ELSE total + 1
  PROVE  Counted'
<1>1. UNCHANGED Uncounted
  BY DEF Uncounted
<1>2. IsFiniteSet(present) /\ Cardinality(present) \in Nat
  BY Entries
<1>3. Cardinality(Uncounted) \in Nat
  BY FS_CardinalityType DEF Counted
<1>4. Cardinality(present \ {i}) = IF i \in present THEN Cardinality(present) - 1
                                                   ELSE Cardinality(present)
  BY <1>2, FS_RemoveElement
<1>5. Cardinality(present \cup {i}) = IF i \in present THEN Cardinality(present)
                                                      ELSE Cardinality(present) + 1
  BY <1>2, FS_AddElement
<1>6. total = Cardinality(present) + Cardinality(Uncounted) /\ IsFiniteSet(Uncounted')
  BY <1>1 DEF Counted, CounterExact
<1>7. total' = Cardinality(present') + Cardinality(Uncounted)
  <2>1. CASE present' = present \ {i} /\ total' = IF i \in present THEN total - 1 ELSE total
    <3>1. Cardinality(present') = IF i \in present THEN Cardinality(present) - 1
                                                    ELSE Cardinality(present)
      BY <1>4, <2>1
    <3> QED BY <1>2, <1>3, <1>6, <2>1, <3>1
  <2>2. CASE present' = present \cup {i} /\ total' = IF i \in present THEN total ELSE total + 1
    <3>1. Cardinality(present') = IF i \in present THEN Cardinality(present)
                                                    ELSE Cardinality(present) + 1
      BY <1>5, <2>2
    <3> QED BY <1>2, <1>3, <1>6, <2>2, <3>1
  <2> QED BY <2>1, <2>2
<1> QED BY <1>1, <1>6, <1>7 DEF Counted, CounterExact

LEMMA NextOwing == TypeOK /\ Owing /\ [Next]_vars => Owing'
<1> SUFFICES ASSUME TypeOK, Owing, [Next]_vars PROVE Owing'
  OBVIOUS
<1> USE DEF TypeOK, Owing, Go, Leave, Pass, StartSweep
<1>1. ASSUME NEW p \in Procs, Request(p) \/ JanitorWakes(p) PROVE Owing'
  BY <1>1 DEF Request, JanitorWakes
<1>2. ASSUME NEW p \in Procs, Check(p) \/ Confirm(p) \/ Expire(p) \/ Count(p) PROVE Owing'
  BY <1>2 DEF Check, Confirm, Expire, Count
<1>3. ASSUME NEW p \in Procs, Nothing(p) \/ Good(p) \/ Bad(p) \/ Reset(p) PROVE Owing'
  BY <1>3 DEF Nothing, Good, Bad, Reset
<1>4. ASSUME NEW p \in Procs, Load(p) \/ Insert(p) PROVE Owing'
  BY <1>4 DEF Load, Insert
<1>5. ASSUME NEW p \in Procs, Sweep(p) \/ Loop(p) \/ Scan(p) \/ Evict(p) PROVE Owing'
  BY <1>5 DEF Sweep, Loop, Scan, Evict
<1>6. CASE Tick
  BY <1>6 DEF Tick, procVars
<1>7. CASE UNCHANGED vars
  BY <1>7 DEF vars, procVars
<1> QED BY <1>1, <1>2, <1>3, <1>4, <1>5, <1>6, <1>7 DEF Next, Step

LEMMA NextCounted == TypeOK /\ Places /\ Owing /\ Counted /\ [Next]_vars => Counted'
<1> SUFFICES ASSUME TypeOK, Places, Owing, Counted, [Next]_vars PROVE Counted'
  OBVIOUS
<1> USE DEF ghosts, entryVars, procVars
<1>1. ASSUME NEW p \in Procs, Request(p) \/ JanitorWakes(p) \/ Check(p) \/ Confirm(p) PROVE Counted'
  BY <1>1, SameCounted DEF Request, JanitorWakes, Check, Confirm
<1>2. ASSUME NEW p \in Procs, Nothing(p) \/ Good(p) \/ Bad(p) \/ Load(p) \/ Loop(p) \/ Scan(p)
      PROVE  Counted'
  BY <1>2, SameCounted DEF Nothing, Good, Bad, Load, Loop, Scan
<1>3. ASSUME NEW p \in Procs, Expire(p) PROVE Counted'
  <2>1. CASE Expired(p) /\ (fail[ip[p]] = 0 \/ Idle(ip[p], t[p]))
    <3>1. /\ Delete(p, {ip[p]}) /\ ip[p] \in present /\ UNCHANGED total
          /\ dels' = [dels EXCEPT ![p] = 1]
      BY <1>3, <2>1 DEF Expire, Expired
    <3>2. dels[p] = 0 /\ Cardinality({ip[p]}) = 1
      BY <1>3, FS_Singleton DEF TypeOK, Owing, Expire
    <3>3. dels[p] + Cardinality({ip[p]}) = 1
      BY <3>2
    <3>4. dels' = [dels EXCEPT ![p] = dels[p] + Cardinality({ip[p]})]
      BY <3>1, <3>3
    <3> QED BY <3>1, <3>4, DeleteCounted
  <2>2. CASE ~(Expired(p) /\ (fail[ip[p]] = 0 \/ Idle(ip[p], t[p])))
    BY <1>3, <2>2, SameCounted DEF Expire
  <2> QED BY <2>1, <2>2
<1>4. ASSUME NEW p \in Procs, Count(p) PROVE Counted'
  BY <1>4, CountCounted
<1>5. ASSUME NEW p \in Procs, Reset(p) \/ Insert(p) PROVE Counted'
  <2>1. ip[p] \in IP
    BY <1>5, WorldType DEF TypeOK, Places, Reset, Insert, Procs
  <2> QED BY <1>5, <2>1, OneCounted DEF Reset, Insert, Delete
<1>6. ASSUME NEW p \in Procs, Sweep(p) PROVE Counted'
  BY <1>6, DeleteCounted DEF Sweep
<1>7. ASSUME NEW p \in Procs, Evict(p) PROVE Counted'
  <2>1. CASE best[p] \in present
    <3>1. Delete(p, {best[p]}) /\ UNCHANGED total /\ dels' = [dels EXCEPT ![p] = 1]
      BY <1>7, <2>1 DEF Evict
    <3>2. dels[p] = 0 /\ Cardinality({best[p]}) = 1
      BY <1>7, FS_Singleton DEF TypeOK, Owing, Evict
    <3>3. dels[p] + Cardinality({best[p]}) = 1
      BY <3>2
    <3>4. dels' = [dels EXCEPT ![p] = dels[p] + Cardinality({best[p]})]
      BY <3>1, <3>3
    <3> QED BY <2>1, <3>1, <3>4, DeleteCounted
  <2>2. CASE best[p] \notin present
    BY <1>7, <2>2, SameCounted DEF Evict
  <2> QED BY <2>1, <2>2
<1>8. CASE Tick \/ UNCHANGED vars
  BY <1>8, SameCounted DEF Tick, vars
<1> QED BY <1>1, <1>2, <1>3, <1>4, <1>5, <1>6, <1>7, <1>8 DEF Next, Step
-----------------------------------------------------------------------------
(* The evictions. *)

LEMMA UncountedIsNat ==
  ASSUME Counted
  PROVE  Cardinality(Uncounted) \in Nat
BY FS_CardinalityType DEF Counted

\* Nothing is deleted, and nobody begins to look for a victim.
LEMMA GrowExcess ==
  ASSUME TypeOK, EvictionsAreExcess, present \subseteq present', IsFiniteSet(present'),
         UNCHANGED world, Evicting' \subseteq Evicting, \A q \in Evicting' : gone'[q] = gone[q]
  PROVE  EvictionsAreExcess'
<1>1. Cardinality(present) \in Nat /\ Cardinality(present') \in Nat
      /\ Cardinality(present) <= Cardinality(present')
  BY Entries, FS_Subset, FS_CardinalityType
<1>2. world.maxEntries \in Nat /\ \A q \in Evicting : gone[q] \in Nat
  BY WorldType DEF TypeOK, Evicting
<1> QED BY <1>1, <1>2 DEF EvictionsAreExcess

\* What p deletes is one more that the others could not know of.
LEMMA DeleteExcess ==
  ASSUME TypeOK, EvictionsAreExcess, NEW p \in Procs, NEW S, Delete(p, S),
         UNCHANGED world, Evicting' \subseteq Evicting \ {p}
  PROVE  EvictionsAreExcess'
<1> DEFINE lost == S \cap present
<1>1. IsFiniteSet(lost) /\ Cardinality(lost) \in Nat /\ Cardinality(present) \in Nat
  BY Entries, FS_Subset, FS_CardinalityType
<1>2. present = present' \cup lost /\ present' \cap lost = {} /\ present' \subseteq present
  BY DEF Delete
<1>3. IsFiniteSet(present') /\ Cardinality(present') \in Nat
  BY <1>2, Entries, FS_Subset, FS_CardinalityType
<1> HIDE DEF lost
<1>4. Cardinality(present) = Cardinality(present') + Cardinality(lost)
  BY <1>1, <1>2, <1>3, DisjointSize
<1>5. ASSUME NEW q \in Evicting'
      PROVE  Cardinality(present') + gone'[q] > world.maxEntries
  <2>1. q \in Evicting \ {p} /\ q \in Procs
    BY <1>5 DEF Evicting
  <2>2. gone'[q] = UpToLimit(gone[q] + Cardinality(lost))
    BY <2>1 DEF Delete, lost
  <2>3. gone[q] \in Nat /\ world.maxEntries \in Nat
    BY <2>1, WorldType DEF TypeOK
  <2>4. Cardinality(present) + gone[q] > world.maxEntries
    BY <2>1 DEF EvictionsAreExcess
  <2> QED BY <1>1, <1>3, <1>4, <2>2, <2>3, <2>4 DEF UpToLimit
<1> QED BY <1>5 DEF EvictionsAreExcess

\* What the counter tells of the table.
LEMMA LoopExcess ==
  ASSUME TypeOK, Counted, EvictionsAreExcess, NEW p \in Procs, Loop(p)
  PROVE  EvictionsAreExcess'
<1>1. UNCHANGED <<world, present>>
  BY DEF Loop, entryVars
<1>2. CASE Overfull
  <2>1. /\ pc' = [pc EXCEPT ![p] = "scan"]
        /\ gone' = [gone EXCEPT ![p] = UpToLimit(Cardinality(Uncounted))]
        /\ total > world.maxEntries
    BY <1>2 DEF Loop, Go, Overfull
  <2>2. /\ Cardinality(present) \in Nat /\ Cardinality(Uncounted) \in Nat
        /\ world.maxEntries \in Nat
        /\ total = Cardinality(present) + Cardinality(Uncounted)
    BY Entries, UncountedIsNat, WorldType DEF Counted, CounterExact
  <2>3. Cardinality(present) + UpToLimit(Cardinality(Uncounted)) > world.maxEntries
    BY <2>1, <2>2 DEF UpToLimit
  <2>4. ASSUME NEW q \in Evicting'
        PROVE  Cardinality(present') + gone'[q] > world.maxEntries
    <3>1. q \in Procs /\ (q # p => q \in Evicting)
      BY <2>1, <2>4 DEF TypeOK, Evicting
    <3> QED BY <1>1, <2>1, <2>3, <3>1 DEF TypeOK, EvictionsAreExcess
  <2> QED BY <1>1, <2>4 DEF EvictionsAreExcess
<1>3. CASE ~Overfull
  <2>1. UNCHANGED gone /\ \E l \in {"idle", "outer", "insert"} : pc' = [pc EXCEPT ![p] = l]
    BY <1>3 DEF Loop, Go, AfterLoop, AfterCleanup
  <2>2. Evicting' \subseteq Evicting
    BY <2>1 DEF TypeOK, Evicting
  <2> QED BY <1>1, <2>1, <2>2, Entries, GrowExcess
<1> QED BY <1>2, <1>3

LEMMA EvictExcess ==
  ASSUME TypeOK, Places, EvictionsAreExcess, NEW p \in Procs, Scan(p) \/ Evict(p)
  PROVE  EvictionsAreExcess'
<1> USE DEF Go, entryVars, ghosts
<1>1. CASE Scan(p)
  <2>1. UNCHANGED <<world, present, gone>> /\ Evicting' \subseteq Evicting
    BY <1>1 DEF TypeOK, Scan, Evicting
  <2> QED BY <2>1, Entries, GrowExcess
<1>2. CASE Evict(p) /\ best[p] \in present
  <2>1. Delete(p, {best[p]}) /\ pc' = [pc EXCEPT ![p] = "count"] /\ UNCHANGED world
    BY <1>2 DEF Evict
  <2>2. Evicting' \subseteq Evicting \ {p}
    BY <2>1 DEF TypeOK, Evicting
  <2> QED BY <2>1, <2>2, DeleteExcess
<1>3. CASE Evict(p) /\ best[p] \notin present
  <2>1. /\ UNCHANGED <<world, present>> /\ gone' = [gone EXCEPT ![p] = 0]
        /\ \E l \in {"idle", "outer", "insert"} : pc' = [pc EXCEPT ![p] = l]
    BY <1>3 DEF Evict, AfterLoop, AfterCleanup
  <2>2. Evicting' \subseteq Evicting \ {p}
    BY <2>1 DEF TypeOK, Evicting
  <2>3. \A q \in Evicting' : gone'[q] = gone[q]
    BY <2>1, <2>2 DEF TypeOK, Evicting
  <2> QED BY <2>1, <2>2, <2>3, Entries, GrowExcess
<1> QED BY <1>1, <1>2, <1>3

LEMMA NextExcess ==
  TypeOK /\ Places /\ Counted /\ EvictionsAreExcess /\ [Next]_vars => EvictionsAreExcess'
<1> SUFFICES ASSUME TypeOK, Places, Counted, EvictionsAreExcess, [Next]_vars
             PROVE  EvictionsAreExcess'
  OBVIOUS
<1> USE DEF ghosts, entryVars, procVars, ghosts
<1>0. pc \in [Procs -> Locations] /\ IsFiniteSet(present)
  BY Entries DEF TypeOK
<1>1. ASSUME UNCHANGED <<world, present, gone>>, Evicting' \subseteq Evicting
      PROVE  EvictionsAreExcess'
  BY <1>0, <1>1, GrowExcess
<1>2. ASSUME NEW p \in Procs, Request(p) \/ JanitorWakes(p) \/ Check(p) \/ Confirm(p) \/ Load(p)
      PROVE  EvictionsAreExcess'
  <2>1. UNCHANGED <<world, present, gone>>
    BY <1>2 DEF Request, JanitorWakes, Check, Confirm, Load
  <2>2. Evicting' \subseteq Evicting
    BY <1>0, <1>2 DEF Request, JanitorWakes, Check, Confirm, Load, Evicting, Go, Leave, Pass, StartSweep
  <2> QED BY <1>1, <2>1, <2>2
<1>3. ASSUME NEW p \in Procs, Count(p) \/ Nothing(p) \/ Good(p) \/ Bad(p)
      PROVE  EvictionsAreExcess'
  <2>1. UNCHANGED <<world, present, gone>>
    BY <1>3 DEF Count, Nothing, Good, Bad
  <2>2. Evicting' \subseteq Evicting
    BY <1>0, <1>3 DEF TypeOK, Count, Nothing, Good, Bad, Evicting, Go, Leave
  <2> QED BY <1>1, <2>1, <2>2
<1>4. ASSUME NEW p \in Procs, Expire(p) PROVE EvictionsAreExcess'
  <2>1. Evicting' \subseteq Evicting \ {p}
    BY <1>0, <1>4 DEF Expire, Evicting, Go, Pass
  <2>2. CASE Delete(p, {ip[p]})
    BY <1>4, <2>1, <2>2, DeleteExcess DEF Expire
  <2>3. CASE UNCHANGED <<present, gone>>
    BY <1>1, <1>4, <2>1, <2>3 DEF Expire
  <2> QED BY <1>4, <2>2, <2>3 DEF Expire
<1>5. ASSUME NEW p \in Procs, Reset(p) PROVE EvictionsAreExcess'
  <2>1. Evicting' \subseteq Evicting \ {p}
    BY <1>0, <1>5 DEF Reset, Evicting, Go, Leave
  <2> QED BY <1>5, <2>1, DeleteExcess DEF Reset
<1>6. ASSUME NEW p \in Procs, Insert(p) PROVE EvictionsAreExcess'
  <2>1. /\ UNCHANGED <<world, gone>> /\ Evicting' \subseteq Evicting
        /\ present' = present \cup {ip[p]}
    BY <1>0, <1>6 DEF Insert, Evicting, Go, Leave
  <2>2. IsFiniteSet(present')
    BY <1>0, <2>1, FS_AddElement
  <2> QED BY <2>1, <2>2, GrowExcess
<1>7. ASSUME NEW p \in Procs, Sweep(p) PROVE EvictionsAreExcess'
  <2>1. PICK S : Delete(p, S)
    BY <1>7 DEF Sweep
  <2>2. Evicting' \subseteq Evicting \ {p} /\ UNCHANGED world
    BY <1>0, <1>7 DEF Sweep, Evicting, Go
  <2> QED BY <2>1, <2>2, DeleteExcess
<1>8. CASE Tick \/ UNCHANGED vars
  BY <1>1, <1>8 DEF Tick, vars, Evicting
<1> QED BY <1>2, <1>3, <1>4, <1>5, <1>6, <1>7, <1>8, LoopExcess, EvictExcess DEF Next, Step
-----------------------------------------------------------------------------
(* The theorems. *)

BanInv == TypeOK /\ Places /\ Clocks /\ Barred /\ Owing /\ Counted /\ EvictionsAreExcess

LEMMA InitInv == Init => BanInv
<1> SUFFICES ASSUME Init PROVE BanInv
  OBVIOUS
<1>1. TypeOK /\ Places
  BY InitType
<1>2. Uncounted = {} /\ present = {} /\ total = 0
  BY DEF Init, Uncounted
<1>3. Counted
  BY <1>2, FS_EmptySet DEF Counted, CounterExact
<1>4. Clocks /\ Barred /\ Owing
  BY DEF Init, Clocks, Barred, Owing
<1>5. EvictionsAreExcess
  BY DEF Init, EvictionsAreExcess, Evicting
<1> QED BY <1>1, <1>3, <1>4, <1>5 DEF BanInv

LEMMA NextInv == BanInv /\ [Next]_vars => BanInv'
BY NextType, NextClocks, NextBarred, NextOwing, NextCounted, NextExcess DEF BanInv

\* BanInv is an invariant: where each goroutine is and what it holds of the clock,
\* that whoever asked during a ban finds it, and what the counter counts (ban.go).
THEOREM Invariance == Spec => []BanInv
BY InitInv, NextInv, PTL DEF Spec

\* Every variable of the ban store stays in its domain, the failures of an address
\* below every limit it was configured with (ban.go:181-182).
THEOREM Typing == Spec => []TypeOK
<1>1. BanInv => TypeOK
  BY DEF BanInv
<1> QED BY <1>1, Invariance, PTL

\* totalEntries is the number of entries and of deletions not yet counted off,
\* whichever lock sections and atomic accesses interleave (ban.go:141, 169, 306).
THEOREM CounterIsExact == Spec => []CounterExact
<1>1. BanInv => CounterExact
  BY DEF BanInv, Counted
<1> QED BY <1>1, Invariance, PTL

\* The counter is never short of the entries, nor negative, as Stats needs it that
\* sizes a slice by it (ban.go:228).
THEOREM CounterCovers == Spec => [](Cardinality(present) <= total /\ total \in Nat)
<1>1. BanInv => Cardinality(present) <= total /\ total \in Nat
  <2> SUFFICES ASSUME BanInv PROVE Cardinality(present) <= total /\ total \in Nat
    OBVIOUS
  <2>1. Cardinality(present) \in Nat /\ Cardinality(Uncounted) \in Nat
    BY Entries, FS_CardinalityType DEF BanInv, Counted
  <2> QED BY <2>1 DEF BanInv, Counted, CounterExact
<1> QED BY <1>1, Invariance, PTL

\* A client that asked while its address was banned is not verified while the ban
\* stands (ban.go:108-150).
THEOREM BannedStayOut == Spec => []BannedNotVerified
<1>1. BanInv => BannedNotVerified
  BY DEF BanInv, Barred, BannedNotVerified
<1> QED BY <1>1, Invariance, PTL

\* Whoever is about to evict had a table over its limit, but for deletions that
\* were not counted off when it compared the counter or that came later: no other
\* interleaving of any number of handlers and cleaners has them evict more than
\* what exceeds the limit (ban.go:310-316, 339-344, 368-376).
THEOREM OnlyExcessIsEvicted == Spec => []EvictionsAreExcess
<1>1. BanInv => EvictionsAreExcess
  BY DEF BanInv
<1> QED BY <1>1, Invariance, PTL

\* What may lift the ban of an address before its time.
Lifts(p, i) == \/ pc[p] = "reset" /\ ip[p] = i
               \/ pc[p] = "evict" /\ best[p] = i
               \/ pc[p] = "sweep" /\ Idle(i, u[p])

LEMMA StepKeepsBan ==
  ASSUME TypeOK, Places, Clocks, NEW p \in Procs, Request(p) \/ JanitorWakes(p) \/ Step(p),
         NEW i \in present, Banned(i, now)
  PROVE  (i \in present' /\ until'[i] >= until[i]) \/ Lifts(p, i)
<1>0. i \in IP /\ until[i] \in Nat /\ now \in Nat /\ now < until[i] /\ t[p] <= now /\ u[p] <= now
      /\ t[p] \in Nat /\ u[p] \in Nat
  BY WorldType DEF TypeOK, Clocks, Banned
<1>1. CASE UNCHANGED <<present, until>>
  BY <1>0, <1>1
<1>2. CASE Expire(p)
  <2>1. CASE Delete(p, {ip[p]}) /\ Expired(p)
    <3>1. i # ip[p]
      BY <1>0, <2>1 DEF Expired, Banned
    <3> QED BY <1>0, <2>1, <3>1 DEF Delete
  <2>2. CASE UNCHANGED <<present, until>>
    BY <1>1, <2>2
  <2> QED BY <1>2, <2>1, <2>2 DEF Expire
<1>3. CASE Reset(p)
  BY <1>0, <1>3 DEF Reset, Delete, Lifts
<1>4. CASE Insert(p)
  BY <1>0, <1>4, InsertLengthens
<1>5. CASE Sweep(p)
  <2> DEFINE dead == {j \in present : ShardOf(j) = idx[p] /\ ExpiredOrIdle(j, u[p])}
  <2>1. Delete(p, dead) /\ pc[p] = "sweep"
    BY <1>5 DEF Sweep
  <2>2. CASE i \in dead
    BY <1>0, <2>1, <2>2 DEF ExpiredOrIdle, Lifts
  <2>3. CASE i \notin dead
    BY <1>0, <2>1, <2>3 DEF Delete
  <2> QED BY <2>2, <2>3
<1>6. CASE Evict(p)
  BY <1>0, <1>6 DEF Evict, Delete, Lifts, entryVars
<1>7. CASE Request(p) \/ JanitorWakes(p) \/ Check(p) \/ Confirm(p) \/ Count(p)
  BY <1>1, <1>7 DEF Request, JanitorWakes, Check, Confirm, Count, entryVars
<1>8. CASE Nothing(p) \/ Good(p) \/ Bad(p) \/ Load(p) \/ Loop(p) \/ Scan(p)
  BY <1>1, <1>8 DEF Nothing, Good, Bad, Load, Loop, Scan, entryVars
<1> QED BY <1>2, <1>3, <1>4, <1>5, <1>6, <1>7, <1>8 DEF Step

\* A ban ends before its time only through a success, an eviction or idleness, and
\* no step shortens it (ban.go:134-147, 173-183, 321-332).
THEOREM BansStand == Spec => BanStands
<1> DEFINE Stands == \A i \in present : Banned(i, now) =>
              \/ i \in present' /\ until'[i] >= until[i]
              \/ \E p \in Procs : \/ pc[p] = "reset" /\ ip[p] = i
                                  \/ pc[p] = "evict" /\ best[p] = i
                                  \/ pc[p] = "sweep" /\ Idle(i, u[p])
<1>1. BanInv /\ [Next]_vars => [Stands]_vars
  <2> SUFFICES ASSUME BanInv, Next, NEW i \in present, Banned(i, now)
               PROVE  \/ i \in present' /\ until'[i] >= until[i]
                      \/ \E p \in Procs : Lifts(p, i)
    BY DEF Lifts
  <2>1. CASE Tick
    <3>1. UNCHANGED <<present, until>>
      BY <2>1 DEF Tick, entryVars
    <3>2. until[i] \in Nat
      BY WorldType DEF BanInv, TypeOK
    <3> QED BY <3>1, <3>2
  <2>2. CASE ~Tick
    BY <2>2, StepKeepsBan DEF BanInv, Next
  <2> QED BY <2>1, <2>2
<1> QED BY <1>1, Invariance, PTL DEF Spec, BanStands
=============================================================================
