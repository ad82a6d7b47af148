------------------------ MODULE HistoryDatabaseProofs ------------------------
(***************************************************************************)
(* Theorems about the history database, for any number of records,         *)
(* channels, cleaners, readers and days: the next start never refuses it,  *)
(* pushes are in it whole or not at all, and no cleanup drops a push that  *)
(* is not old.                                                             *)
(***************************************************************************)
EXTENDS HistoryDatabase, FiniteSetTheorems, SequenceTheorems, TLAPS

USE CleanersAssumption, DaysAssumption, PagesAssumption
-----------------------------------------------------------------------------
(* The tables. *)

\* More days are more ticks.
LEMMA DaysGrow ==
  ASSUME NEW a \in Nat, NEW b \in Nat
  PROVE  a * Day \in Nat /\ (a <= b => a * Day <= b * Day)
<1>1. a * Day \in Nat
  OBVIOUS
<1>2. ASSUME a <= b PROVE a * Day <= b * Day
  <2>1. (b - a) * Day \in Nat
    BY <1>2
  <2>2. b * Day = a * Day + (b - a) * Day
    OBVIOUS
  <2> QED BY <1>1, <2>1, <2>2
<1> QED BY <1>1, <1>2

\* A Duration is what it is told to be unless that is too long for it.
LEMMA DurationHolds ==
  ASSUME NEW t \in Int
  PROVE  /\ Duration(t) \in Int
         /\ t \in -Longest .. Longest => Duration(t) = t
BY DEF Duration

\* The empty database is one.
LEMMA EmptyIsTable == Empty \in Tables
BY FS_EmptySet DEF Empty, Tables, NoRow, FiniteSubsets

\* What was committed last is one.
LEMMA LastVersion ==
  ASSUME wal \in Seq(Tables), wal # << >>
  PROVE  DB \in Tables /\ Len(wal) \in Nat \ {0} /\ \A k \in 1 .. Len(wal) : wal[k] \in Tables
BY DEF DB

\* A further version keeps the log a log, and is its last.
LEMMA AppendVersion ==
  ASSUME wal \in Seq(Tables), wal # << >>, NEW t \in Tables, wal' = Append(wal, t)
  PROVE  /\ wal' \in Seq(Tables) /\ wal' # << >>
         /\ Len(wal') = Len(wal) + 1
         /\ DB' = t
         /\ \A k \in 1 .. Len(wal) : wal'[k] = wal[k]
BY DEF DB

\* So does a log that lost its end.
LEMMA CutVersion ==
  ASSUME wal \in Seq(Tables), NEW k \in 1 .. Len(wal), wal' = SubSeq(wal, 1, k)
  PROVE  /\ wal' \in Seq(Tables) /\ wal' # << >>
         /\ Len(wal') = k
         /\ DB' = wal[k]
         /\ \A j \in 1 .. k : wal'[j] = wal[j]
<1>1. k \in Nat \ {0} /\ \A j \in 1 .. k : wal[j] \in Tables
  OBVIOUS
<1>2. /\ wal' \in Seq(Tables)
      /\ Len(wal') = k
      /\ \A j \in 1 .. k : wal'[j] = wal[j]
  BY <1>1, SubSeqProperties
<1> QED BY <1>1, <1>2 DEF DB

\* Copies are counted.
LEMMA CopiesCounted ==
  ASSUME NEW t \in Tables, NEW S \in SUBSET t.copies
  PROVE  Cardinality(S) \in Nat
<1>1. IsFiniteSet(t.copies)
  BY DEF Tables, FiniteSubsets
<1> QED BY <1>1, FS_Subset, FS_CardinalityType

\* So are ban rows.
LEMMA ChangesCounted ==
  ASSUME NEW t, NEW a, NEW b
  PROVE  Changed(t, a, b) \in Nat
<1> DEFINE S == {i \in IP : t.bans[i] \in a .. b}
<1>1. IsFiniteSet(S)
  BY FiniteAssumption, FS_Subset
<1> QED BY <1>1, FS_CardinalityType DEF Changed
-----------------------------------------------------------------------------
(* Types. *)

\* Initially.
LEMMA InitTypeOK == Init => TypeOK
<1> SUFFICES ASSUME Init PROVE TypeOK
  OBVIOUS
<1>1. wal \in Seq(Tables) /\ wal # << >>
  BY EmptyIsTable DEF Init
<1>2. told \in [Readers -> Answers]
  BY DEF Init, NoAnswer, Answers, Kinds
<1> QED BY <1>1, <1>2, EmptyIsTable DEF Init, TypeOK, Infinite, Kinds

\* Giving up a transaction.
LEMMA GiveUpTypeOK ==
  ASSUME TypeOK, NEW w \in {"none", "record", "bans"} \cup Cleaners, GiveUp(w),
         \/ UNCHANGED writing /\ writer \notin {"none", w}
         \/ Leaves /\ writer = w
  PROVE  TypeOK'
BY EmptyIsTable DEF TypeOK, GiveUp, Leaves, control, reading, ghosts, writing

\* The record worker.
LEMMA QueueTypeOK ==
  ASSUME TypeOK, NEW r \in Records, Queue(r)
  PROVE  TypeOK'
<1>1. queue' \in Seq(Records) /\ state' \in [Records -> {"new", "queued", "hand", "done"}]
  <2>1. Append(queue, r) \in Seq(Records) /\ queue \in Seq(Records)
    BY DEF TypeOK
  <2>2. queue' \in {queue, Append(queue, r)} /\ state' \in {[state EXCEPT ![r] = s] : s \in {"queued", "done"}}
    BY DEF Queue
  <2> QED BY <2>1, <2>2 DEF TypeOK
<1>2. made' \in [Records -> 0 .. MaxTime] /\ reached' \in [Records -> SUBSET Channels]
  BY DEF TypeOK, Queue
<1>3. \A s \in Records : state'[s] = "hand" <=> state[s] = "hand"
  BY DEF TypeOK, Queue
<1> QED BY <1>1, <1>2, <1>3 DEF TypeOK, Queue, control, writing, cleaning, reading, ghosts

LEMMA TakeRecordTypeOK ==
  ASSUME TypeOK, TakeRecord
  PROVE  TypeOK'
BY DEF TypeOK, TakeRecord, control, writing, cleaning, reading, ghosts

LEMMA InsertMessageTypeOK ==
  ASSUME TypeOK, NEW r \in Records, InsertMessage(r)
  PROVE  TypeOK'
BY LastVersion DEF TypeOK, InsertMessage, Locks, Tables, control, records, cleaning, reading, ghosts

LEMMA InsertDeliveryTypeOK ==
  ASSUME TypeOK, NEW r \in Records, InsertDelivery(r)
  PROVE  TypeOK'
<1> PICK c \in left :
       draft' = [draft EXCEPT
                      !.deliveries = @ \cup {<<r, c>>},
                      !.copies = IF copying
                                   THEN @ \cup {[id |-> draft.serial, of |-> r, chan |-> c]}
                                   ELSE @,
                      !.serial = IF copying THEN @ + 1 ELSE @]
  BY DEF InsertDelivery
<1>1. c \in Channels /\ draft \in Tables
  BY DEF TypeOK
<1>2. [id |-> draft.serial, of |-> r, chan |-> c] \in Copies
  BY <1>1 DEF Tables, Copies
<1>3. draft.copies \cup {[id |-> draft.serial, of |-> r, chan |-> c]} \in FiniteSubsets(Copies)
  BY <1>1, <1>2, FS_AddElement DEF Tables, FiniteSubsets
<1> DEFINE more == IF copying THEN draft.copies \cup {[id |-> draft.serial, of |-> r, chan |-> c]}
                            ELSE draft.copies
           next == IF copying THEN draft.serial + 1 ELSE draft.serial
<1>4. more \in FiniteSubsets(Copies) /\ next \in Nat
  BY <1>1, <1>3 DEF Tables
<1>5. draft' = [draft EXCEPT !.deliveries = @ \cup {<<r, c>>}, !.copies = more, !.serial = next]
  BY <1>1 DEF Tables
<1>6. draft.deliveries \cup {<<r, c>>} \in SUBSET (Records \X Channels)
  BY <1>1 DEF Tables
<1>7. draft' \in Tables
  <2> HIDE DEF more, next
  <2> QED BY <1>1, <1>4, <1>5, <1>6 DEF Tables
<1> QED BY <1>7 DEF TypeOK, InsertDelivery, control, records, cleaning, reading, ghosts

LEMMA CommitRecordTypeOK ==
  ASSUME TypeOK, NEW r \in Records, CommitRecord(r)
  PROVE  TypeOK'
BY LastVersion, AppendVersion, EmptyIsTable
   DEF TypeOK, CommitRecord, Commit, Leaves, control, cleaning, reading, ghosts

LEMMA CommitBansTypeOK ==
  ASSUME TypeOK, CommitBans
  PROVE  TypeOK'
BY LastVersion, AppendVersion, EmptyIsTable
   DEF TypeOK, CommitBans, Commit, Leaves, control, records, cleaning, reading, ghosts

LEMMA WriteBansTypeOK ==
  ASSUME TypeOK, WriteBans
  PROVE  TypeOK'
<1>1. PICK i \in IP, row \in {NoRow, now} : draft' = [DB EXCEPT !.bans[i] = row]
  BY DEF WriteBans
<1>2. DB \in Tables /\ row \in NoRow .. MaxTime
  BY LastVersion DEF TypeOK, NoRow
<1>3. [DB.bans EXCEPT ![i] = row] \in [IP -> NoRow .. MaxTime]
  BY <1>2 DEF Tables
<1>4. draft' = [DB EXCEPT !.bans = [DB.bans EXCEPT ![i] = row]]
  BY <1>1
<1>5. draft' \in Tables
  BY <1>2, <1>3, <1>4 DEF Tables
<1> QED BY <1>5 DEF TypeOK, WriteBans, Locks, control, records, cleaning, reading, ghosts

\* A cleanup.
LEMMA StartCleanupTypeOK ==
  ASSUME TypeOK, NEW c \in Cleaners, StartCleanup(c)
  PROVE  TypeOK'
<1> PICK days \in KeepDays : /\ before' = [before EXCEPT ![c] = now + Duration(-(days * Day))]
                             /\ least' = IF days < least THEN days ELSE least
  BY DEF StartCleanup
<1>1. Duration(-(days * Day)) \in Int
  BY DaysGrow, DurationHolds
<1>2. before' \in [Cleaners -> Int] /\ least' \in Nat
  BY <1>1 DEF TypeOK
<1> QED BY <1>2 DEF TypeOK, StartCleanup, control, records, writing, reading

LEMMA DeleteMessagesTypeOK ==
  ASSUME TypeOK, NEW c \in Cleaners, DeleteMessages(c)
  PROVE  TypeOK'
<1>1. DB \in Tables
  BY LastVersion DEF TypeOK
<1> DEFINE some == {row \in DB.copies : row.of \notin Old(c)}
<1>2. some \in FiniteSubsets(Copies)
  BY <1>1, FS_Subset DEF Tables, FiniteSubsets
<1>3. draft' = [DB EXCEPT !.messages = @ \ Old(c),
                          !.deliveries = {d \in @ : d[1] \notin Old(c)},
                          !.copies = some]
  BY <1>1 DEF DeleteMessages, Tables
<1>4. draft' \in Tables
  BY <1>1, <1>2, <1>3 DEF Tables
<1> QED BY <1>4 DEF TypeOK, DeleteMessages, Locks, control, records, reading, ghosts

LEMMA DeleteBansTypeOK ==
  ASSUME TypeOK, NEW c \in Cleaners, DeleteBans(c)
  PROVE  TypeOK'
<1> DEFINE rows == [i \in IP |-> IF draft.bans[i] < before[c] THEN NoRow ELSE draft.bans[i]]
<1>1. rows \in [IP -> NoRow .. MaxTime]
  BY DEF TypeOK, Tables, NoRow
<1>2. draft' = [draft EXCEPT !.bans = rows]
  BY DEF DeleteBans
<1>3. draft' \in Tables
  <2> HIDE DEF rows
  <2> QED BY <1>1, <1>2 DEF TypeOK, Tables
<1> QED BY <1>3 DEF TypeOK, DeleteBans, control, records, reading, ghosts

LEMMA CommitCleanupTypeOK ==
  ASSUME TypeOK, NEW c \in Cleaners, CommitCleanup(c)
  PROVE  TypeOK'
BY LastVersion, AppendVersion, EmptyIsTable
   DEF TypeOK, CommitCleanup, Commit, Leaves, control, records, reading, ghosts

\* The readers.
LEMMA BeginReadTypeOK ==
  ASSUME TypeOK, NEW q \in Readers, BeginRead(q)
  PROVE  TypeOK'
<1>1. asks' \in [Readers -> Kinds \cup {"none"}] /\ arg' \in [Readers -> Nat]
  BY DEF TypeOK, BeginRead
<1> QED BY <1>1 DEF TypeOK, BeginRead, control, records, writing, cleaning, ghosts

LEMMA FirstQueryTypeOK ==
  ASSUME TypeOK, NEW q \in Readers, FirstQuery(q)
  PROVE  TypeOK'
<1>1. DB \in Tables
  BY LastVersion DEF TypeOK
<1>2. Cardinality(DB.copies) \in Nat
  BY <1>1, CopiesCounted
<1>3. Changed(DB, Midnight(arg[q]), arg[q]) \in Nat
  BY ChangesCounted
<1>4. told' \in [Readers -> Answers]
  BY <1>2, <1>3 DEF TypeOK, FirstQuery, Answers
<1> QED BY <1>1, <1>4 DEF TypeOK, FirstQuery, control, records, writing, cleaning, ghosts

LEMMA LastQueryTypeOK ==
  ASSUME TypeOK, NEW q \in Readers, LastQuery(q)
  PROVE  TypeOK'
<1>1. View(q) \in Tables
  BY DEF TypeOK, View
<1>2. Cardinality(Page(View(q), arg[q])) \in Nat
  BY <1>1, CopiesCounted DEF Page
<1>3. Cardinality(Today(View(q))) \in Nat
  BY <1>1, CopiesCounted DEF Today
<1>4. Changed(View(q), Midnight(arg[q]), Midnight(arg[q]) + Day - 1) \in Nat
  BY ChangesCounted
<1>5. Newest(View(q)) \in SUBSET (0 .. MaxTime)
  BY DEF Newest
<1> DEFINE rest == CASE asks[q] = "page"    -> Cardinality(Page(View(q), arg[q]))
                     [] asks[q] = "summary" -> Cardinality(Today(View(q)))
                     [] asks[q] = "trends"  ->
                          Changed(View(q), Midnight(arg[q]), Midnight(arg[q]) + Day - 1)
           newest == IF asks[q] = "summary" THEN Newest(View(q)) ELSE {}
<1>6. rest \in Nat
  BY <1>2, <1>3, <1>4 DEF TypeOK, LastQuery, Kinds
<1>7. newest \in SUBSET (0 .. MaxTime)
  BY <1>5
<1>8. told' = [told EXCEPT ![q].second = rest, ![q].last = newest]
  BY DEF LastQuery
<1> HIDE DEF rest, newest
<1>9. told' \in [Readers -> Answers]
  BY <1>6, <1>7, <1>8 DEF TypeOK, Answers
<1> QED BY <1>9, EmptyIsTable DEF TypeOK, LastQuery, control, records, writing, cleaning, ghosts

LEMMA FailReadTypeOK ==
  ASSUME TypeOK, NEW q \in Readers, FailRead(q)
  PROVE  TypeOK'
<1>1. NoAnswer \in Answers
  BY DEF NoAnswer, Answers
<1> QED BY <1>1, EmptyIsTable
        DEF TypeOK, FailRead, control, records, writing, cleaning, ghosts

\* The life of the process.
LEMMA EndsTypeOK ==
  ASSUME TypeOK, Ends, wal' \in Seq(Tables), wal' # << >>, losses' \in Nat,
         kept' \in SUBSET Records
  PROVE  TypeOK'
<1>1. NoAnswer \in Answers
  BY DEF NoAnswer, Answers
<1> QED BY <1>1, EmptyIsTable DEF TypeOK, Ends, Leaves

LEMMA LifeTypeOK ==
  ASSUME TypeOK, Tick \/ Checkpoint \/ Crash \/ PowerLoss \/ Stop \/ Close \/ Start
  PROVE  TypeOK'
<1>0. DB \in Tables /\ Len(wal) \in Nat /\ \A k \in 1 .. Len(wal) : wal[k] \in Tables
  BY LastVersion DEF TypeOK
<1>1. CASE Tick
  <2>1. now' \in 0 .. MaxTime
    BY <1>1, CastsAssumption DEF Tick, TypeOK
  <2> QED BY <1>1, <2>1 DEF Tick, TypeOK, control, records, writing, cleaning, reading, ghosts
<1>2. CASE Checkpoint
  BY <1>0, <1>2 DEF TypeOK, Checkpoint, control, records, writing, cleaning, reading, ghosts
<1>3. CASE Crash
  BY <1>3, EndsTypeOK DEF TypeOK, Crash
<1>4. CASE PowerLoss
  <2>1. PICK k \in 1 .. Len(wal) : wal' = SubSeq(wal, 1, k) /\ kept' = kept \cap wal[k].messages
    BY <1>4 DEF PowerLoss
  <2>2. wal' \in Seq(Tables) /\ wal' # << >>
    BY <2>1, CutVersion DEF TypeOK
  <2>3. losses' \in Nat /\ kept' \in SUBSET Records
    BY <1>4, <2>1 DEF PowerLoss, TypeOK
  <2> QED BY <1>4, <2>2, <2>3, EndsTypeOK DEF TypeOK, PowerLoss
<1>5. CASE Stop
  BY <1>5 DEF TypeOK, Stop, records, writing, cleaning, reading, ghosts
<1>6. CASE Close
  <2>1. wal' \in Seq(Tables) /\ wal' # << >>
    BY <1>0, <1>6 DEF Close
  <2> QED BY <1>6, <2>1, EndsTypeOK DEF TypeOK, Close
<1>7. CASE Start
  BY <1>7 DEF TypeOK, Start, records, writing, cleaning, reading, ghosts
<1> QED BY <1>1, <1>2, <1>3, <1>4, <1>5, <1>6, <1>7

\* Every step keeps the types.
LEMMA NextTypeOK ==
  ASSUME TypeOK, [Next]_vars
  PROVE  TypeOK'
<1>1. CASE UNCHANGED vars
  BY <1>1 DEF TypeOK, vars, control, records, writing, cleaning, reading, ghosts
<1>2. ASSUME NEW r \in Records,
             Queue(r) \/ InsertMessage(r) \/ InsertDelivery(r) \/ CommitRecord(r)
      PROVE  TypeOK'
  BY <1>2, QueueTypeOK, InsertMessageTypeOK, InsertDeliveryTypeOK, CommitRecordTypeOK
<1>3. ASSUME NEW c \in Cleaners, Cleanup(c)
      PROVE  TypeOK'
  BY <1>3, StartCleanupTypeOK, DeleteMessagesTypeOK, DeleteBansTypeOK, CommitCleanupTypeOK
     DEF Cleanup
<1>4. ASSUME NEW w \in {"record", "bans"} \cup Cleaners, Fail(w) \/ Busy(w)
      PROVE  TypeOK'
  BY <1>4, GiveUpTypeOK DEF Fail, Busy
<1>5. ASSUME NEW q \in Readers, Read(q)
      PROVE  TypeOK'
  BY <1>5, BeginReadTypeOK, FirstQueryTypeOK, LastQueryTypeOK, FailReadTypeOK DEF Read
<1> QED BY <1>1, <1>2, <1>3, <1>4, <1>5, TakeRecordTypeOK, WriteBansTypeOK, CommitBansTypeOK,
           LifeTypeOK
        DEF Next, RecordWorker

\* Every variable of the database keeps to its domain, the worker has one record
\* at a time and the write lock is held by a transaction that is under way
\* (sqlite.go:252-254, 331-344, 401-403).
THEOREM Typing == Spec => []TypeOK
<1>1. Init => TypeOK
  BY InitTypeOK
<1>2. TypeOK /\ [Next]_vars => TypeOK'
  BY NextTypeOK
<1> QED BY <1>1, <1>2, PTL DEF Spec
-----------------------------------------------------------------------------
(* What every step leaves true of the records that are on their way.  *)

\* A record that is done stays so, and what is known of a push never changes.
Grows ==
  /\ \A r \in Records : state[r] = "done" => state'[r] = "done"
  /\ \A r \in Records : state[r] # "new" => reached'[r] = reached[r] /\ made'[r] = made[r]

\* What is good in the log of before is good in a log of the same versions.
LEMMA VersionsStay ==
  ASSUME Versions, TypeOK, TypeOK', Grows,
         \A k \in 1 .. Len(wal') : \E j \in 1 .. Len(wal) : wal'[k] = wal[j]
  PROVE  Versions'
<1> SUFFICES ASSUME NEW k \in 1 .. Len(wal')
             PROVE  Settled(wal[k])' /\ (\A r \in Records : WholeFor(wal[k], r)')
  BY DEF Versions
<1>1. PICK j \in 1 .. Len(wal) : wal'[k] = wal[j]
  OBVIOUS
<1>2. Settled(wal[j]) /\ \A r \in Records : WholeFor(wal[j], r)
  BY DEF Versions
<1>3. wal[j] \in Tables
  BY LastVersion DEF TypeOK
<1>4. \A r \in wal[j].messages :
        r \in Records /\ state[r] = "done" /\ reached'[r] = reached[r] /\ state'[r] = "done"
  BY <1>2, <1>3 DEF Settled, Grows, Tables
<1>5. Settled(wal[k])'
  BY <1>1, <1>2, <1>4 DEF Settled
<1>6. ASSUME NEW r \in Records PROVE WholeFor(wal[k], r)'
  BY <1>1, <1>2, <1>4 DEF WholeFor, Delivered, Copied
<1> QED BY <1>5, <1>6

\* A draft that is good when it is committed makes a good log.
LEMMA VersionsCommit ==
  ASSUME Versions, TypeOK, TypeOK', Grows, wal' = Append(wal, draft),
         \A r \in draft.messages : state'[r] = "done" /\ reached'[r] # {},
         \A r \in Records : WholeFor(draft, r),
         reached' = reached
  PROVE  Versions'
<1>0. Len(wal) \in Nat /\ Len(wal') = Len(wal) + 1 /\ wal'[Len(wal')] = draft
      /\ \A k \in 1 .. Len(wal) : wal'[k] = wal[k] /\ wal[k] \in Tables
  BY AppendVersion, LastVersion DEF TypeOK, DB
<1> SUFFICES ASSUME NEW k \in 1 .. Len(wal')
             PROVE  Settled(wal[k])' /\ (\A r \in Records : WholeFor(wal[k], r)')
  BY DEF Versions
<1>1. CASE k = Len(wal')
  BY <1>0, <1>1 DEF Settled, WholeFor, Delivered, Copied
<1>2. CASE k \in 1 .. Len(wal)
  <2>1. Settled(wal[k]) /\ \A r \in Records : WholeFor(wal[k], r)
    BY <1>2 DEF Versions
  <2>2. wal'[k] = wal[k] /\ \A r \in wal[k].messages : state[r] = "done" /\ state'[r] = "done"
    BY <1>0, <1>2, <2>1 DEF Settled, Grows, Tables
  <2>3. Settled(wal[k])'
    BY <2>1, <2>2 DEF Settled
  <2>4. ASSUME NEW r \in Records PROVE WholeFor(wal[k], r)'
    BY <2>1, <2>2 DEF WholeFor, Delivered, Copied
  <2> QED BY <2>3, <2>4
<1> QED BY <1>0, <1>1, <1>2

\* A transaction goes on while others act, unless they touch what it rests on.
LEMMA UnderWayStays ==
  ASSUME UnderWay, Versions, TypeOK, TypeOK', Grows, UNCHANGED <<writing, copying>>, DB' = DB, up' = up,
         writer = "record" => \A r \in Records : state'[r] = "hand" => state[r] = "hand",
         \A c \in Cleaners : step'[c] \in {"messages", "bans"} => step[c] = step'[c],
         writer \in Cleaners => before'[writer] = before[writer]
  PROVE  UnderWay'
<1>1. DB \in Tables /\ Settled(DB) /\ \A r \in Records : WholeFor(DB, r)
  BY LastVersion DEF TypeOK, Versions, DB
<1>2. \A r \in DB.messages : /\ r \in Records /\ state[r] = "done"
                             /\ reached'[r] = reached[r] /\ made'[r] = made[r]
  BY <1>1 DEF Settled, Grows, Tables
<1>3. ASSUME writer = "record", NEW r \in Records, state'[r] = "hand"
      PROVE  Inserting(r)'
  <2>1. Inserting(r) /\ state[r] = "hand" /\ reached'[r] = reached[r]
    BY <1>3 DEF UnderWay, Grows
  <2>2. \A s \in Records \ {r} : WholeFor(draft, s)'
    BY <1>2, <2>1 DEF writing, Inserting, WholeFor, Delivered, Copied
  <2> QED BY <2>1, <2>2 DEF writing, Inserting, Delivered, Copied
<1>4. ASSUME writer \in {"bans"} \cup Cleaners
      PROVE  Keeping'
  <2>1. Keeping
    BY <1>4 DEF UnderWay
  <2>2. \A r \in Records : WholeFor(draft, r)'
    BY <1>2, <2>1 DEF writing, Keeping, WholeFor, Delivered, Copied
  <2> QED BY <1>2, <2>1, <2>2 DEF writing, Keeping
<1> QED BY <1>3, <1>4 DEF UnderWay, writing, Open

\* The log is as it was, or shorter by versions that it still ends in.
LEMMA SameLog ==
  ASSUME Versions, TypeOK, TypeOK', Grows, UNCHANGED wal
  PROVE  Versions' /\ DB' = DB
BY VersionsStay, LastVersion DEF TypeOK, DB
-----------------------------------------------------------------------------
(* The steps of those who record. *)

LEMMA QueueSafe ==
  ASSUME DatabaseInv, TypeOK, TypeOK', NEW r \in Records, Queue(r)
  PROVE  DatabaseInv'
<1>1. Grows
  BY DEF Queue, Grows, TypeOK
<1>2. Versions' /\ DB' = DB
  BY <1>1, SameLog DEF DatabaseInv, Queue
<1>3. UnderWay'
  BY <1>1, <1>2, UnderWayStays DEF DatabaseInv, Queue, writing, control, cleaning, TypeOK
<1>4. Line'
  <2>0. state[r] = "new" /\ queue \in Seq(Records)
    BY DEF Queue, TypeOK
  <2>1. \A i \in 1 .. Len(queue) : queue[i] \in Records /\ state[queue[i]] = "queued" /\ queue[i] # r
    BY <2>0 DEF DatabaseInv, Line
  <2>2. ASSUME reached'[r] # {}, queue' = Append(queue, r), state' = [state EXCEPT ![r] = "queued"]
        PROVE  Line'
    <3>1. /\ Len(queue') = Len(queue) + 1 /\ queue'[Len(queue) + 1] = r
          /\ \A i \in 1 .. Len(queue) : queue'[i] = queue[i]
          /\ Len(queue) \in Nat
      BY <2>0, <2>2
    <3>2. \A s \in Records : state'[s] = IF s = r THEN "queued" ELSE state[s]
      BY <2>2 DEF TypeOK
    <3>3. \A i \in 1 .. Len(queue') : state'[queue'[i]] = "queued"
      BY <2>0, <2>1, <3>1, <3>2
    <3>4. \A i, j \in 1 .. Len(queue') : queue'[i] = queue'[j] => i = j
      BY <2>1, <3>1 DEF DatabaseInv, Line
    <3>5. \A s \in Records : state'[s] \in {"queued", "hand"} => reached'[s] # {}
      BY <2>2, <3>2 DEF DatabaseInv, Line, Queue, TypeOK
    <3>6. \A s \in kept' : state'[s] = "done"
      BY <2>0, <3>2 DEF DatabaseInv, Line, Queue, TypeOK, ghosts
    <3> QED BY <3>3, <3>4, <3>5, <3>6 DEF Line
  <2>3. ASSUME queue' = queue, state' = [state EXCEPT ![r] = "done"]
        PROVE  Line'
    BY <2>1, <2>3 DEF DatabaseInv, Line, Queue, TypeOK, ghosts
  <2> QED BY <2>2, <2>3 DEF Queue, Valid, TypeOK
<1>5. KeptIfFits'
  <2>1. \A k \in kept : state[k] = "done" /\ k \in Records /\ made'[k] = made[k]
    BY <1>1 DEF DatabaseInv, Line, TypeOK, Grows
  <2> QED BY <1>2, <2>1 DEF DatabaseInv, KeptIfFits, KeptForDays, Queue, ghosts
<1> QED BY <1>2, <1>3, <1>4, <1>5
        DEF DatabaseInv, Queue, control, cleaning, ghosts, StartsAgain, Cutoffs

LEMMA TakeRecordSafe ==
  ASSUME DatabaseInv, TypeOK, TypeOK', TakeRecord
  PROVE  DatabaseInv'
<1>0. queue[1] \in Records /\ Head(queue) = queue[1] /\ state[queue[1]] = "queued"
  BY DEF TakeRecord, TypeOK, DatabaseInv, Line
<1>1. Grows
  BY <1>0 DEF TakeRecord, Grows, TypeOK
<1>2. Versions' /\ DB' = DB
  BY <1>1, SameLog DEF DatabaseInv, TakeRecord
<1>3. UnderWay'
  BY <1>1, <1>2, UnderWayStays DEF DatabaseInv, TakeRecord, writing, control, cleaning, TypeOK
<1>4. Line'
  <2>1. /\ queue \in Seq(Records) /\ queue' = Tail(queue) /\ Len(queue') = Len(queue) - 1
        /\ \A i \in 1 .. Len(queue') : queue'[i] = queue[i + 1] /\ i + 1 \in 1 .. Len(queue)
    BY HeadTailProperties DEF TakeRecord, TypeOK
  <2>2. \A i \in 1 .. Len(queue') : queue'[i] # queue[1] /\ queue'[i] \in Records
    BY <2>1 DEF DatabaseInv, Line
  <2>3. \A i \in 1 .. Len(queue') : state'[queue'[i]] = "queued"
    BY <1>0, <2>1, <2>2 DEF DatabaseInv, Line, TakeRecord, TypeOK
  <2>4. \A i, j \in 1 .. Len(queue') : queue'[i] = queue'[j] => i = j
    <3> SUFFICES ASSUME NEW i \in 1 .. Len(queue'), NEW j \in 1 .. Len(queue'),
                        queue'[i] = queue'[j]
                 PROVE  i = j
      OBVIOUS
    <3>1. i + 1 = j + 1
      BY <2>1 DEF DatabaseInv, Line
    <3> QED BY <2>1, <3>1 DEF TypeOK
  <2>5. \A r \in Records : state'[r] \in {"queued", "hand"} => reached'[r] # {}
    BY <1>0 DEF DatabaseInv, Line, TakeRecord, TypeOK
  <2>6. \A r \in kept' : state'[r] = "done"
    BY <1>1 DEF DatabaseInv, Line, TakeRecord, ghosts, Grows, TypeOK
  <2> QED BY <2>3, <2>4, <2>5, <2>6 DEF Line
<1> QED BY <1>2, <1>3, <1>4
        DEF DatabaseInv, TakeRecord, control, cleaning, ghosts, StartsAgain, Cutoffs,
            KeptIfFits, KeptForDays

LEMMA InsertMessageSafe ==
  ASSUME DatabaseInv, TypeOK, TypeOK', NEW r \in Records, InsertMessage(r)
  PROVE  DatabaseInv'
<1>1. Grows
  BY DEF InsertMessage, Grows, records
<1>2. Versions' /\ DB' = DB
  BY <1>1, SameLog DEF DatabaseInv, InsertMessage
<1>3. UnderWay'
  <2>1. DB \in Tables /\ Settled(DB) /\ \A s \in Records : WholeFor(DB, s)
    BY LastVersion DEF TypeOK, DatabaseInv, Versions, DB
  <2>2. r \notin DB.messages /\ state[r] = "hand" /\ left' = reached[r] /\ writer' = "record"
    BY <2>1 DEF Settled, InsertMessage, Locks
  <2>3. /\ draft'.messages = DB.messages \cup {r}
        /\ draft'.deliveries = DB.deliveries /\ draft'.copies = DB.copies
    BY <2>1 DEF InsertMessage, Tables
  <2>4. Delivered(DB, r) = {} /\ Copied(DB, r) = {}
    BY <2>1, <2>2 DEF WholeFor
  <2>5. \A s \in Records : Delivered(draft, s)' = Delivered(DB, s)
                            /\ Copied(draft, s)' = Copied(DB, s)
    BY <2>3 DEF Delivered, Copied
  <2>6. \A s \in Records \ {r} : WholeFor(draft, s)'
    BY <2>1, <2>3, <2>5 DEF WholeFor, InsertMessage, records
  <2>7. Inserting(r)'
    BY <1>2, <2>2, <2>3, <2>4, <2>5, <2>6 DEF Inserting, InsertMessage, records
  <2>8. \A s \in Records : state'[s] = "hand" => s = r
    BY <2>2 DEF TypeOK, InsertMessage, records
  <2> QED BY <2>2, <2>7, <2>8 DEF UnderWay, DatabaseInv, InsertMessage, Locks, Open, control, cleaning
<1> QED BY <1>2, <1>3
        DEF DatabaseInv, InsertMessage, control, records, cleaning, ghosts, StartsAgain, Line,
            Cutoffs, KeptIfFits, KeptForDays

LEMMA InsertDeliverySafe ==
  ASSUME DatabaseInv, TypeOK, TypeOK', NEW r \in Records, InsertDelivery(r)
  PROVE  DatabaseInv'
<1>1. Grows
  BY DEF InsertDelivery, Grows, records
<1>2. Versions' /\ DB' = DB
  BY <1>1, SameLog DEF DatabaseInv, InsertDelivery
<1>3. UnderWay'
  <2> PICK c \in left :
         /\ draft' = [draft EXCEPT
                        !.deliveries = @ \cup {<<r, c>>},
                        !.copies = IF copying
                                     THEN @ \cup {[id |-> draft.serial, of |-> r, chan |-> c]}
                                     ELSE @,
                        !.serial = IF copying THEN @ + 1 ELSE @]
         /\ left' = left \ {c}
    BY DEF InsertDelivery
  <2>1. draft \in Tables /\ c \in Channels /\ left \in SUBSET Channels
    BY DEF TypeOK
  <2>2. state[r] = "hand" /\ writer = "record" /\ writer' = "record"
    BY DEF InsertDelivery
  <2>3. Inserting(r)
    BY <2>2 DEF DatabaseInv, UnderWay
  <2>4. /\ draft'.messages = draft.messages
        /\ draft'.deliveries = draft.deliveries \cup {<<r, c>>}
        /\ draft'.copies = IF copying
                            THEN draft.copies \cup {[id |-> draft.serial, of |-> r, chan |-> c]}
                            ELSE draft.copies
    BY <2>1 DEF Tables
  <2>5. \A s \in Records \ {r} : Delivered(draft, s)' = Delivered(draft, s)
                                  /\ Copied(draft, s)' = Copied(draft, s)
    BY <2>4 DEF Delivered, Copied
  <2>6. \A s \in Records \ {r} : WholeFor(draft, s)'
    BY <2>3, <2>4, <2>5 DEF WholeFor, Inserting, InsertDelivery, records
  <2>7. Delivered(draft, r)' = Delivered(draft, r) \cup {c}
    BY <2>1, <2>4 DEF Delivered
  <2>8. Copied(draft, r)' = IF copying THEN Copied(draft, r) \cup {c} ELSE Copied(draft, r)
    <3>1. CASE copying
      <4> DEFINE new == [id |-> draft.serial, of |-> r, chan |-> c]
      <4>1. draft'.copies = draft.copies \cup {new} /\ new.of = r /\ new.chan = c
        BY <2>4, <3>1
      <4> HIDE DEF new
      <4> QED BY <2>1, <3>1, <4>1 DEF Copied
    <3>2. CASE ~copying
      BY <2>4, <3>2 DEF Copied
    <3> QED BY <3>1, <3>2
  <2>9. reached[r] \in SUBSET Channels /\ c \in left
    BY DEF TypeOK
  <2>10. reached[r] \ (left \ {c}) = (reached[r] \ left) \cup {c} /\ left \ {c} \subseteq reached[r]
    BY <2>3, <2>9 DEF Inserting
  <2>11. Inserting(r)'
    BY <1>2, <2>3, <2>4, <2>6, <2>7, <2>8, <2>10
       DEF Inserting, InsertDelivery, records, control
  <2>12. \A s \in Records : state'[s] = "hand" => s = r
    BY <2>2 DEF TypeOK, InsertDelivery, records
  <2> QED BY <2>2, <2>11, <2>12 DEF UnderWay, DatabaseInv, InsertDelivery, Open, control, cleaning
<1> QED BY <1>2, <1>3
        DEF DatabaseInv, InsertDelivery, control, records, cleaning, ghosts, StartsAgain, Line,
            Cutoffs, KeptIfFits, KeptForDays

\* Leaving a transaction lets no cleaner believe that it is in one.
LEMMA LeavesSafe ==
  ASSUME writer' = "none", \A c \in Cleaners : step'[c] \notin {"messages", "bans"}
  PROVE  UnderWay'
BY DEF UnderWay

LEMMA CommitRecordSafe ==
  ASSUME DatabaseInv, TypeOK, TypeOK', NEW r \in Records, CommitRecord(r)
  PROVE  DatabaseInv'
<1>1. Grows
  BY DEF CommitRecord, Grows, TypeOK
<1>2. /\ writer = "record" /\ state[r] = "hand" /\ left = {} /\ Inserting(r)
      /\ reached[r] # {} /\ wal' = Append(wal, draft) /\ DB' = draft
      /\ reached' = reached /\ made' = made
  BY AppendVersion DEF CommitRecord, Commit, DatabaseInv, UnderWay, Line, TypeOK
<1>3. DB \in Tables /\ Settled(DB)
  BY LastVersion DEF TypeOK, DatabaseInv, Versions, DB
<1>4. \A s \in draft.messages : state'[s] = "done" /\ reached'[s] # {}
  BY <1>1, <1>2, <1>3 DEF Inserting, Settled, CommitRecord, TypeOK, Grows, Tables
<1>5. \A s \in Records : WholeFor(draft, s)
  <2>1. WholeFor(draft, r)
    BY <1>2 DEF Inserting, WholeFor
  <2> QED BY <1>2, <2>1 DEF Inserting
<1>6. Versions'
  BY <1>1, <1>2, <1>4, <1>5, VersionsCommit DEF DatabaseInv
<1>7. Line'
  <2>1. \A i \in 1 .. Len(queue) : state'[queue[i]] = "queued" /\ queue' = queue
    BY <1>2 DEF DatabaseInv, Line, CommitRecord, TypeOK
  <2>2. \A s \in kept' : state'[s] = "done"
    BY <1>1, <1>2 DEF DatabaseInv, Line, CommitRecord, TypeOK, Grows
  <2>3. \A s \in Records : state'[s] \in {"queued", "hand"} => state'[s] = state[s]
    BY DEF CommitRecord, TypeOK
  <2> QED BY <1>2, <2>1, <2>2, <2>3 DEF DatabaseInv, Line, CommitRecord
<1>8. UnderWay'
  BY <1>2, LeavesSafe DEF CommitRecord, Commit, Leaves, cleaning, DatabaseInv, UnderWay
<1>9. KeptIfFits'
  BY <1>2 DEF DatabaseInv, KeptIfFits, KeptForDays, Inserting, CommitRecord
<1> QED BY <1>6, <1>7, <1>8, <1>9
        DEF DatabaseInv, CommitRecord, control, cleaning, ghosts, StartsAgain, Cutoffs
-----------------------------------------------------------------------------
(* The steps of those who write bans or clean up. *)

\* A draft that begins as the last version with other bans keeps pushes whole.
LEMMA KeepingAll ==
  ASSUME Versions, TypeOK, TypeOK', Grows, DB' = DB,
         draft'.messages = DB.messages, draft'.deliveries = DB.deliveries,
         draft'.copies = DB.copies
  PROVE  Keeping'
<1>1. DB \in Tables /\ Settled(DB) /\ \A s \in Records : WholeFor(DB, s)
  BY LastVersion DEF TypeOK, Versions, DB
<1>2. \A s \in Records : WholeFor(draft, s)'
  BY <1>1 DEF WholeFor, Delivered, Copied, Settled, Grows, Tables
<1> QED BY <1>2 DEF Keeping

LEMMA WriteBansSafe ==
  ASSUME DatabaseInv, TypeOK, TypeOK', WriteBans
  PROVE  DatabaseInv'
<1>1. Grows
  BY DEF WriteBans, Grows, records
<1>2. Versions' /\ DB' = DB
  BY <1>1, SameLog DEF DatabaseInv, WriteBans
<1>3. /\ draft'.messages = DB.messages /\ draft'.deliveries = DB.deliveries
      /\ draft'.copies = DB.copies
  BY LastVersion DEF TypeOK, WriteBans, Tables
<1>4. UnderWay'
  BY <1>1, <1>2, <1>3, KeepingAll DEF UnderWay, DatabaseInv, WriteBans, Locks, Open, control, cleaning
<1> QED BY <1>2, <1>4
        DEF DatabaseInv, WriteBans, control, records, cleaning, ghosts, StartsAgain, Line,
            Cutoffs, KeptIfFits, KeptForDays

\* What a good draft of bans or a cleanup commits.
LEMMA KeepingCommit ==
  ASSUME DatabaseInv, TypeOK, TypeOK', writer \in {"bans"} \cup Cleaners, Commit,
         UNCHANGED <<records, kept, least, now>>
  PROVE  Versions' /\ KeptIfFits'
<1>1. Keeping /\ wal' = Append(wal, draft) /\ DB' = draft
  BY AppendVersion DEF DatabaseInv, UnderWay, Commit, TypeOK
<1>2. Grows
  BY DEF Grows, records
<1>3. DB \in Tables /\ Settled(DB)
  BY LastVersion DEF TypeOK, DatabaseInv, Versions, DB
<1>4. \A s \in draft.messages : state'[s] = "done" /\ reached'[s] # {}
  BY <1>1, <1>3 DEF Keeping, Settled, records
<1>5. Versions'
  BY <1>1, <1>2, <1>4, VersionsCommit DEF DatabaseInv, Keeping, records
<1>6. ASSUME NEW r \in kept, r \notin draft.messages
      PROVE  DurationsFit => now - made[r] > least * Day
  <2>1. CASE r \notin DB.messages
    BY <1>6, <2>1 DEF DatabaseInv, KeptIfFits, KeptForDays
  <2>2. CASE r \in DB.messages
    <3>1. writer \in Cleaners /\ made[r] < before[writer]
      BY <1>1, <1>6, <2>2 DEF Keeping
    <3>2. DurationsFit => before[writer] + least * Day <= now
      BY <3>1 DEF DatabaseInv, UnderWay, Cutoffs, TypeOK
    <3>3. r \in Records /\ least * Day \in Nat
      BY DEF TypeOK
    <3> QED BY <3>1, <3>2, <3>3 DEF TypeOK
  <2> QED BY <2>1, <2>2
<1> QED BY <1>1, <1>5, <1>6 DEF KeptIfFits, KeptForDays, records

LEMMA CommitBansSafe ==
  ASSUME DatabaseInv, TypeOK, TypeOK', CommitBans
  PROVE  DatabaseInv'
<1>1. Versions' /\ KeptIfFits'
  BY KeepingCommit DEF CommitBans, ghosts
<1>2. UnderWay'
  BY LeavesSafe DEF CommitBans, Commit, Leaves, cleaning, DatabaseInv, UnderWay
<1> QED BY <1>1, <1>2
        DEF DatabaseInv, CommitBans, control, records, cleaning, ghosts, StartsAgain, Line, Cutoffs

LEMMA StartCleanupSafe ==
  ASSUME DatabaseInv, TypeOK, TypeOK', NEW c \in Cleaners, StartCleanup(c)
  PROVE  DatabaseInv'
<1>1. Grows
  BY DEF StartCleanup, Grows, records
<1>2. Versions' /\ DB' = DB
  BY <1>1, SameLog DEF DatabaseInv, StartCleanup
<1>3. \A d \in Cleaners : step'[d] \in {"messages", "bans"} => step[d] = step'[d]
  BY DEF StartCleanup, TypeOK
<1>4. writer \in Cleaners => before'[writer] = before[writer]
  BY DEF StartCleanup, TypeOK
<1>5. UnderWay'
  BY <1>1, <1>2, <1>3, <1>4, UnderWayStays DEF DatabaseInv, StartCleanup, writing, control, records
<1> PICK days \in KeepDays : /\ before' = [before EXCEPT ![c] = now + Duration(-(days * Day))]
                             /\ least' = IF days < least THEN days ELSE least
  BY DEF StartCleanup
<1>6. /\ least' \in Nat /\ least \in Nat /\ days \in Nat
      /\ least' * Day \in Nat /\ least * Day \in Nat /\ days * Day \in Nat
      /\ least' * Day <= least * Day /\ least' * Day <= days * Day
  <2>1. least' \in Nat /\ least \in Nat /\ days \in Nat /\ least' <= least /\ least' <= days
    BY DEF TypeOK
  <2> QED BY <2>1, DaysGrow
<1>7. Cutoffs'
  <2>1. ASSUME DurationsFit
        PROVE  before' = [before EXCEPT ![c] = now - days * Day]
    <3>1. -(days * Day) \in -Longest .. Longest
      BY <1>6, <2>1 DEF DurationsFit
    <3>2. Duration(-(days * Day)) = -(days * Day)
      BY <1>6, <3>1, DurationHolds
    <3>3. now + Duration(-(days * Day)) = now - days * Day
      BY <1>6, <3>2 DEF TypeOK
    <3> QED BY <3>3
  <2> QED BY <1>6, <2>1 DEF Cutoffs, DatabaseInv, StartCleanup, TypeOK, control
<1>8. KeptIfFits'
  <2>1. \A r \in kept : made[r] \in Nat /\ now \in Nat
    BY DEF TypeOK
  <2> QED BY <1>2, <1>6, <2>1 DEF
                                  KeptIfFits, KeptForDays, DatabaseInv, StartCleanup, records, control
<1> QED BY <1>2, <1>5, <1>7, <1>8
        DEF DatabaseInv, StartCleanup, control, records, StartsAgain, Line

LEMMA DeleteMessagesSafe ==
  ASSUME DatabaseInv, TypeOK, TypeOK', NEW c \in Cleaners, DeleteMessages(c)
  PROVE  DatabaseInv'
<1>1. Grows
  BY DEF DeleteMessages, Grows, records
<1>2. Versions' /\ DB' = DB
  BY <1>1, SameLog DEF DatabaseInv, DeleteMessages
<1>3. DB \in Tables /\ Settled(DB) /\ \A s \in Records : WholeFor(DB, s)
  BY LastVersion DEF TypeOK, DatabaseInv, Versions, DB
<1>4. /\ draft'.messages = DB.messages \ Old(c)
      /\ draft'.deliveries = {d \in DB.deliveries : d[1] \notin Old(c)}
      /\ draft'.copies = {row \in DB.copies : row.of \notin Old(c)}
  BY <1>3 DEF DeleteMessages, Tables
<1>5. \A s \in Records \ Old(c) : Delivered(draft, s)' = Delivered(DB, s)
                                   /\ Copied(draft, s)' = Copied(DB, s)
  BY <1>4 DEF Delivered, Copied
<1>6. \A s \in Old(c) : Delivered(draft, s)' = {} /\ Copied(draft, s)' = {}
  BY <1>4 DEF Delivered, Copied
<1>7. \A s \in Records : WholeFor(draft, s)'
  BY <1>3, <1>4, <1>5, <1>6 DEF WholeFor, DeleteMessages, records
<1>8. \A s \in DB.messages \ draft'.messages : made'[s] < before'[c]
  BY <1>4 DEF Old, DeleteMessages, records
<1>9. writer' = c
  BY DEF DeleteMessages, Locks
<1>10. Keeping'
  BY <1>2, <1>4, <1>7, <1>8, <1>9 DEF Keeping
<1>11. \A d \in Cleaners : step'[d] \in {"messages", "bans"} => d = c
  BY DEF DeleteMessages, Locks, DatabaseInv, UnderWay, TypeOK
<1>12. UnderWay'
  BY <1>9, <1>10, <1>11 DEF UnderWay, DeleteMessages, Locks, Open, control
<1>13. Cutoffs'
  BY DEF Cutoffs, DatabaseInv, DeleteMessages, TypeOK, ghosts
<1> QED BY <1>2, <1>12, <1>13
        DEF DatabaseInv, DeleteMessages, control, records, ghosts, StartsAgain, Line,
            KeptIfFits, KeptForDays

LEMMA DeleteBansSafe ==
  ASSUME DatabaseInv, TypeOK, TypeOK', NEW c \in Cleaners, DeleteBans(c)
  PROVE  DatabaseInv'
<1>1. Grows
  BY DEF DeleteBans, Grows, records
<1>2. Versions' /\ DB' = DB
  BY <1>1, SameLog DEF DatabaseInv, DeleteBans
<1>3. writer = c /\ Keeping
  BY DEF DeleteBans, DatabaseInv, UnderWay
<1>4. /\ draft'.messages = draft.messages /\ draft'.deliveries = draft.deliveries
      /\ draft'.copies = draft.copies
  BY DEF DeleteBans, TypeOK, Tables
<1>5. \A s \in Records : WholeFor(draft, s)'
  BY <1>3, <1>4 DEF Keeping, WholeFor, Delivered, Copied, DeleteBans, records
<1>6. Keeping'
  BY <1>2, <1>3, <1>4, <1>5 DEF Keeping, DeleteBans, records
<1>7. \A d \in Cleaners : step'[d] \in {"messages", "bans"} => d = c
  BY <1>3 DEF DeleteBans, DatabaseInv, UnderWay, TypeOK
<1>8. UnderWay'
  BY <1>3, <1>6, <1>7 DEF UnderWay, DeleteBans, Open, control
<1>9. Cutoffs'
  BY DEF Cutoffs, DatabaseInv, DeleteBans, TypeOK, ghosts
<1> QED BY <1>2, <1>8, <1>9
        DEF DatabaseInv, DeleteBans, control, records, ghosts, StartsAgain, Line,
            KeptIfFits, KeptForDays

LEMMA CommitCleanupSafe ==
  ASSUME DatabaseInv, TypeOK, TypeOK', NEW c \in Cleaners, CommitCleanup(c)
  PROVE  DatabaseInv'
<1>1. writer = c
  BY DEF CommitCleanup, DatabaseInv, UnderWay
<1>2. Versions' /\ KeptIfFits'
  BY <1>1, KeepingCommit DEF CommitCleanup, ghosts
<1>3. \A d \in Cleaners : step'[d] \notin {"messages", "bans"}
  BY <1>1 DEF CommitCleanup, DatabaseInv, UnderWay, TypeOK
<1>4. UnderWay'
  BY <1>3, LeavesSafe DEF CommitCleanup, Commit, Leaves
<1>5. Cutoffs'
  BY DEF Cutoffs, DatabaseInv, CommitCleanup, TypeOK, ghosts
<1> QED BY <1>2, <1>4, <1>5
        DEF DatabaseInv, CommitCleanup, control, records, ghosts, StartsAgain, Line

\* Whoever gives up a transaction, or never gets one.
LEMMA GiveUpSafe ==
  ASSUME DatabaseInv, TypeOK, TypeOK',
         NEW w \in {"record", "bans"} \cup Cleaners, GiveUp(w),
         \/ UNCHANGED writing /\ writer \notin {"none", w}
         \/ Leaves /\ writer = w
  PROVE  DatabaseInv'
<1>1. Grows
  BY DEF GiveUp, Grows, TypeOK
<1>2. Versions' /\ DB' = DB
  BY <1>1, SameLog DEF DatabaseInv, GiveUp
<1>3. \A r \in Records : state'[r] = state[r] \/ (state[r] = "hand" /\ state'[r] = "done")
  BY DEF GiveUp, TypeOK
<1>4. \A d \in Cleaners : IF d = w THEN step'[d] = "idle"
                                    ELSE step'[d] = step[d] /\ before'[d] = before[d]
  BY DEF GiveUp, TypeOK
<1>5. Line'
  <2>1. \A i \in 1 .. Len(queue) : queue[i] \in Records
    BY DEF TypeOK
  <2> QED BY <1>3, <2>1 DEF DatabaseInv, Line, GiveUp, ghosts, TypeOK
<1>6. ASSUME UNCHANGED writing, writer \notin {"none", w} PROVE UnderWay'
  <2>1. writer \in Cleaners => before'[writer] = before[writer]
    BY <1>4, <1>6
  <2>2. \A d \in Cleaners : step'[d] \in {"messages", "bans"} => step[d] = step'[d]
    BY <1>4
  <2>3. UNCHANGED <<writing, copying>> /\ up' = up
    BY <1>6 DEF GiveUp, control
  <2>4. \A r \in Records : state'[r] = "hand" => state[r] = "hand"
    BY <1>3
  <2> QED BY <1>1, <1>2, <2>1, <2>2, <2>3, <2>4, UnderWayStays DEF DatabaseInv
<1>7. ASSUME Leaves, writer = w PROVE UnderWay'
  <2>1. \A d \in Cleaners : step'[d] \notin {"messages", "bans"}
    BY <1>4, <1>7 DEF DatabaseInv, UnderWay
  <2> QED BY <1>7, <2>1, LeavesSafe DEF Leaves
<1>8. Cutoffs'
  BY <1>4 DEF Cutoffs, DatabaseInv, GiveUp, ghosts
<1> QED BY <1>2, <1>5, <1>6, <1>7, <1>8
        DEF DatabaseInv, GiveUp, control, ghosts, StartsAgain, KeptIfFits, KeptForDays
-----------------------------------------------------------------------------
(* Readers, and the life of the process. *)

LEMMA ReadSafe ==
  ASSUME DatabaseInv, TypeOK, TypeOK', UNCHANGED <<control, now, wal, records, writing, cleaning, ghosts>>
  PROVE  DatabaseInv'
<1>1. Grows
  BY DEF Grows, records
<1>2. Versions' /\ DB' = DB
  BY <1>1, SameLog DEF DatabaseInv
<1>3. UnderWay'
  BY <1>1, <1>2, UnderWayStays DEF DatabaseInv, control, records, cleaning
<1> QED BY <1>2, <1>3
        DEF DatabaseInv, control, records, cleaning, ghosts, StartsAgain, Line, Cutoffs,
            KeptIfFits, KeptForDays

LEMMA TickSafe ==
  ASSUME DatabaseInv, TypeOK, TypeOK', Tick
  PROVE  DatabaseInv'
<1>1. Grows
  BY DEF Grows, Tick, records
<1>2. Versions' /\ DB' = DB
  BY <1>1, SameLog DEF DatabaseInv, Tick
<1>3. UnderWay'
  BY <1>1, <1>2, UnderWayStays DEF DatabaseInv, Tick, control, records, cleaning
<1>4. now \in Nat /\ now' = now + 1 /\ least * Day \in Nat /\ \A r \in kept : made[r] \in Nat
  BY DaysGrow DEF Tick, TypeOK
<1>5. Cutoffs'
  BY <1>4 DEF Cutoffs, DatabaseInv, Tick, TypeOK, cleaning, ghosts
<1>6. KeptIfFits'
  BY <1>2, <1>4 DEF KeptIfFits, KeptForDays, DatabaseInv, Tick, records, ghosts
<1> QED BY <1>2, <1>3, <1>5, <1>6 DEF DatabaseInv, Tick, control, records, ghosts, StartsAgain, Line

\* The end of the process, whatever is left of the log.
LEMMA EndsSafe ==
  ASSUME DatabaseInv, TypeOK, TypeOK', Ends, kept' \subseteq kept,
         \A k \in 1 .. Len(wal') : \E j \in 1 .. Len(wal) : wal'[k] = wal[j],
         \A r \in kept' : r \in DB'.messages \/ r \notin DB.messages
  PROVE  DatabaseInv'
<1>1. Grows
  BY DEF Grows, Ends, TypeOK
<1>2. Versions'
  BY <1>1, VersionsStay DEF DatabaseInv
<1>3. UnderWay'
  BY LeavesSafe DEF Ends, Leaves
<1>4. Line'
  BY DEF DatabaseInv, Line, Ends, TypeOK
<1>5. Cutoffs'
  BY DEF Cutoffs, Ends
<1>6. KeptIfFits'
  BY DEF KeptIfFits, KeptForDays, DatabaseInv, Ends
<1> QED BY <1>2, <1>3, <1>4, <1>5, <1>6 DEF DatabaseInv, Ends, StartsAgain

LEMMA CheckpointSafe ==
  ASSUME DatabaseInv, TypeOK, TypeOK', Checkpoint
  PROVE  DatabaseInv'
<1>1. Grows
  BY DEF Grows, Checkpoint, records
<1>2. Len(wal) \in 1 .. Len(wal) /\ DB = wal[Len(wal)]
      /\ Len(wal') = 1 /\ wal'[1] = DB /\ DB' = DB
  BY LastVersion DEF Checkpoint, TypeOK, DB
<1>3. Versions'
  BY <1>1, <1>2, VersionsStay DEF DatabaseInv
<1>4. UnderWay'
  BY <1>1, <1>2, UnderWayStays DEF DatabaseInv, Checkpoint, control, records, cleaning
<1> QED BY <1>2, <1>3, <1>4
        DEF DatabaseInv, Checkpoint, control, records, cleaning, ghosts, StartsAgain, Line,
            Cutoffs, KeptIfFits, KeptForDays

LEMMA EndingsSafe ==
  ASSUME DatabaseInv, TypeOK, TypeOK', Crash \/ PowerLoss \/ Close
  PROVE  DatabaseInv'
<1>0. Len(wal) \in Nat \ {0} /\ DB = wal[Len(wal)]
  BY LastVersion DEF TypeOK, DB
<1>1. CASE Crash
  BY <1>0, <1>1, EndsSafe DEF Crash, DB
<1>2. CASE PowerLoss
  <2> PICK k \in 1 .. Len(wal) : wal' = SubSeq(wal, 1, k) /\ kept' = kept \cap wal[k].messages
    BY <1>2 DEF PowerLoss
  <2>1. Len(wal') = k /\ DB' = wal[k] /\ \A j \in 1 .. k : wal'[j] = wal[j]
    BY CutVersion DEF TypeOK
  <2> QED BY <1>0, <1>2, <2>1, EndsSafe DEF PowerLoss
<1>3. CASE Close
  <2>1. Len(wal') = 1 /\ wal'[1] = DB /\ DB' = DB
    BY <1>3 DEF Close, DB
  <2> QED BY <1>0, <1>3, <2>1, EndsSafe DEF Close
<1> QED BY <1>1, <1>2, <1>3

\* The rows that the next start looks at are in order.
LEMMA StartSafe ==
  ASSUME DatabaseInv, TypeOK, TypeOK', Start
  PROVE  DatabaseInv'
<1>1. Grows
  BY DEF Grows, Start, records
<1>2. Versions' /\ DB' = DB
  BY <1>1, SameLog DEF DatabaseInv, Start
<1>3. DB \in Tables /\ Settled(DB) /\ \A r \in Records : WholeFor(DB, r)
  BY LastVersion DEF TypeOK, DatabaseInv, Versions, DB
<1>4. Accepted(DB)
  <2>1. \A d \in DB.deliveries : d[1] \in Records /\ d[2] \in Delivered(DB, d[1])
    BY <1>3 DEF Tables, Delivered
  <2>2. \A row \in DB.copies : row.of \in Records /\ row.chan \in Copied(DB, row.of)
    BY <1>3 DEF Tables, FiniteSubsets, Copies, Copied
  <2>3. \A r \in DB.messages : r \in Records /\ Delivered(DB, r) # {}
    BY <1>3 DEF Tables, Settled, WholeFor
  <2> QED BY <1>3, <2>1, <2>2, <2>3 DEF Accepted, WholeFor
<1>5. up' = "up"
  BY <1>4 DEF Start
<1>6. writer = "none"
  BY DEF DatabaseInv, UnderWay, Start, Open
<1>7. UnderWay'
  BY <1>6 DEF UnderWay, DatabaseInv, Start, writing, cleaning
<1> QED BY <1>2, <1>5, <1>7
        DEF DatabaseInv, Start, records, writing, cleaning, ghosts, StartsAgain, Line, Cutoffs,
            KeptIfFits, KeptForDays

LEMMA StopSafe ==
  ASSUME DatabaseInv, TypeOK, TypeOK', Stop
  PROVE  DatabaseInv'
<1>1. Grows
  BY DEF Grows, Stop, records
<1>2. Versions' /\ DB' = DB
  BY <1>1, SameLog DEF DatabaseInv, Stop
<1>3. UnderWay'
  <2>1. (writer = "record" => \A r \in Records : state[r] = "hand" => Inserting(r)')
    BY <1>2 DEF DatabaseInv, UnderWay, Inserting, WholeFor, Delivered, Copied, Stop, writing, records
  <2>2. writer \in {"bans"} \cup Cleaners => Keeping'
    BY <1>2 DEF DatabaseInv, UnderWay, Keeping, WholeFor, Delivered, Copied, Stop, writing, records,
                cleaning
  <2> QED BY <2>1, <2>2 DEF DatabaseInv, UnderWay, Stop, Open, writing, records, cleaning
<1> QED BY <1>2, <1>3
        DEF DatabaseInv, Stop, records, writing, cleaning, ghosts, StartsAgain, Line, Cutoffs,
            KeptIfFits, KeptForDays
-----------------------------------------------------------------------------
(* The theorems. *)

LEMMA InitSafe == Init => DatabaseInv
<1> SUFFICES ASSUME Init PROVE DatabaseInv
  OBVIOUS
<1>1. Len(wal) = 1 /\ wal[1] = Empty
  BY DEF Init
<1>2. Versions
  BY <1>1 DEF Versions, Settled, WholeFor, Delivered, Copied, Empty
<1> QED BY <1>2 DEF Init, DatabaseInv, StartsAgain, Line, UnderWay, Cutoffs, KeptIfFits, KeptForDays

\* Every step keeps the invariant.
LEMMA NextSafe ==
  ASSUME DatabaseInv, TypeOK, TypeOK', [Next]_vars
  PROVE  DatabaseInv'
<1>1. CASE UNCHANGED vars
  BY <1>1, ReadSafe DEF vars
<1>2. ASSUME NEW r \in Records,
             Queue(r) \/ InsertMessage(r) \/ InsertDelivery(r) \/ CommitRecord(r)
      PROVE  DatabaseInv'
  BY <1>2, QueueSafe, InsertMessageSafe, InsertDeliverySafe, CommitRecordSafe
<1>3. ASSUME NEW c \in Cleaners, Cleanup(c)
      PROVE  DatabaseInv'
  BY <1>3, StartCleanupSafe, DeleteMessagesSafe, DeleteBansSafe, CommitCleanupSafe DEF Cleanup
<1>4. ASSUME NEW w \in {"record", "bans"} \cup Cleaners, Fail(w) \/ Busy(w)
      PROVE  DatabaseInv'
  BY <1>4, GiveUpSafe DEF Fail, Busy
<1>5. ASSUME NEW q \in Readers, Read(q)
      PROVE  DatabaseInv'
  BY <1>5, ReadSafe DEF Read, BeginRead, FirstQuery, LastQuery, FailRead
<1> QED BY <1>1, <1>2, <1>3, <1>4, <1>5, TakeRecordSafe, WriteBansSafe, CommitBansSafe,
           TickSafe, CheckpointSafe, EndingsSafe, StopSafe, StartSafe
        DEF Next, RecordWorker

\* The inductive invariant: whatever is committed is whole, and every open
\* transaction turns whole tables into whole tables.
THEOREM Invariance == Spec => []DatabaseInv
<1>1. Init => DatabaseInv
  BY InitSafe
<1>2. DatabaseInv /\ TypeOK /\ TypeOK' /\ [Next]_vars => DatabaseInv'
  BY NextSafe
<1> QED BY <1>1, <1>2, Typing, PTL DEF Spec

\* The next start finds neither orphans nor messages without deliveries, at
\* whatever statement the process crashed or the power failed
\* (sqlite.go:141-161).
THEOREM Restarting == Spec => []StartsAgain
<1>1. DatabaseInv => StartsAgain
  BY DEF DatabaseInv
<1> QED BY <1>1, Invariance, PTL

\* Every committed version has a push with all its deliveries and all of its
\* copies or none, or has nothing of it (sqlite.go:244-317).
THEOREM Wholeness == Spec => []PushesAreWhole
<1>1. DatabaseInv => PushesAreWhole
  BY DEF DatabaseInv, Versions, PushesAreWhole
<1> QED BY <1>1, Invariance, PTL

\* No cleanup drops a push that is not older than the fewest days that any
\* cleanup was told to keep (api.go:206-213, app.go:137).
THEOREM Keeps ==
  ASSUME DurationsFit
  PROVE  Spec => []KeptForDays
<1>1. DatabaseInv => KeptForDays
  BY DEF DatabaseInv, KeptIfFits
<1> QED BY <1>1, Invariance, PTL
-----------------------------------------------------------------------------
(* The order of the list: the rows of a table have the ranks from 0 on, one  *)
(* each, so that a page is as long as the interval of ranks it stands for.    *)

\* Rows that differ are ordered one way or the other, and no row is newer than itself.
LEMMA NewerOrders ==
  ASSUME TypeOK, NEW t \in Tables, Numbered(t)
  PROVE  /\ \A x \in t.copies : ~Newer(x, x)
         /\ \A x, y \in t.copies : x # y => Newer(x, y) \/ Newer(y, x)
         /\ \A x, y, z \in t.copies : Newer(x, y) /\ Newer(y, z) => Newer(x, z)
<1>1. \A x \in t.copies : made[x.of] \in Int /\ x.id \in Int
  BY DEF TypeOK, Tables, FiniteSubsets, Copies
<1>2. \A x, y \in t.copies : x # y => x.id # y.id
  BY DEF Numbered
<1> QED BY <1>1, <1>2 DEF Newer

\* Of two rows the newer has the lower rank.
LEMMA RanksFall ==
  ASSUME TypeOK, NEW t \in Tables, Numbered(t), NEW x \in t.copies, NEW y \in t.copies, Newer(x, y)
  PROVE  Rank(t, x) < Rank(t, y)
<1> DEFINE X == {z \in t.copies : Newer(z, x)}
           Y == {z \in t.copies : Newer(z, y)}
<1>1. IsFiniteSet(Y)
  BY FS_Subset DEF Tables, FiniteSubsets
<1>2. X \in SUBSET Y /\ x \in Y /\ x \notin X
  BY NewerOrders
<1>3. Cardinality(X) <= Cardinality(Y) /\ Cardinality(X) # Cardinality(Y)
  BY <1>1, <1>2, FS_Subset
<1>4. Cardinality(X) \in Nat /\ Cardinality(Y) \in Nat
  BY <1>1, <1>2, FS_Subset, FS_CardinalityType
<1> QED BY <1>3, <1>4 DEF Rank

\* No rank is as high as the rows are many.
LEMMA RanksBounded ==
  ASSUME TypeOK, NEW t \in Tables, Numbered(t), NEW x \in t.copies
  PROVE  Rank(t, x) \in 0 .. Cardinality(t.copies) - 1
<1> DEFINE X == {z \in t.copies : Newer(z, x)}
           S == t.copies
<1>1. IsFiniteSet(S)
  BY DEF Tables, FiniteSubsets
<1>2. X \in SUBSET S /\ x \in S /\ x \notin X
  BY NewerOrders
<1>3. Cardinality(X) <= Cardinality(S) /\ Cardinality(X) # Cardinality(S)
  BY <1>1, <1>2, FS_Subset
<1>4. Cardinality(X) \in Nat /\ Cardinality(S) \in Nat
  BY <1>1, <1>2, FS_Subset, FS_CardinalityType
<1> QED BY <1>3, <1>4 DEF Rank

\* The numbers below the size of a finite set are as many as its elements.
LEMMA RankRange ==
  ASSUME NEW t \in Tables
  PROVE  /\ Cardinality(t.copies) \in Nat
         /\ IsFiniteSet(0 .. Cardinality(t.copies) - 1)
         /\ Cardinality(0 .. Cardinality(t.copies) - 1) = Cardinality(t.copies)
<1> DEFINE n == Cardinality(t.copies)
<1>1. n \in Nat
  BY FS_CardinalityType DEF Tables, FiniteSubsets
<1> HIDE DEF n
<1>2. 0 \in Int /\ n - 1 \in Int /\ (IF 0 > n - 1 THEN 0 ELSE (n - 1) - 0 + 1) = n
  BY <1>1
<1>3. IsFiniteSet(0 .. n - 1) /\ Cardinality(0 .. n - 1) = n
  BY <1>2, FS_Interval
<1> QED BY <1>1, <1>3 DEF n

\* Every rank below that is some row's.
LEMMA RanksTaken ==
  ASSUME TypeOK, NEW t \in Tables, Numbered(t), NEW k \in 0 .. Cardinality(t.copies) - 1
  PROVE  \E x \in t.copies : Rank(t, x) = k
<1> DEFINE S == t.copies
           T == 0 .. Cardinality(t.copies) - 1
           rank == [x \in S |-> Rank(t, x)]
<1>1. rank \in [S -> T]
  BY RanksBounded
<1>2. ASSUME NEW x \in S, NEW y \in S, rank[x] = rank[y]
      PROVE  x = y
  <2>1. ~Newer(x, y) /\ ~Newer(y, x)
    BY <1>1, <1>2, RanksFall
  <2> QED BY <2>1, NewerOrders
<1>3. rank \in Injection(S, T)
  BY <1>1, <1>2 DEF Injection, IsInjective
<1>4. IsFiniteSet(T) /\ Cardinality(T) = Cardinality(S)
  BY RankRange
<1>5. rank \in Surjection(S, T)
  BY <1>3, <1>4, FS_Injection
<1> QED BY <1>5 DEF Surjection

\* A page has as many rows as it has ranks that are taken.
LEMMA PageLength ==
  ASSUME TypeOK, NEW t \in Tables, Numbered(t), NEW from \in Nat
  PROVE  LET rest == Cardinality(t.copies) - from
         IN  Cardinality(Page(t, from)) = IF rest < 0 THEN 0
                                          ELSE IF rest < PageSize THEN rest ELSE PageSize
<1> DEFINE n     == Cardinality(t.copies)
           to    == IF n < from + PageSize THEN n - 1 ELSE from + PageSize - 1
           P     == Page(t, from)
           ranks == [x \in P |-> Rank(t, x)]
<1>1. n \in Nat /\ PageSize \in Nat \ {0} /\ to \in Int
  BY RankRange
<1>2. \A x \in P : x \in t.copies /\ Rank(t, x) \in from .. to
  <2>1. \A x \in P : x \in t.copies /\ Rank(t, x) \in from .. from + PageSize - 1
    BY DEF Page
  <2>2. \A x \in P : Rank(t, x) \in 0 .. n - 1
    BY <2>1, RanksBounded
  <2> QED BY <1>1, <2>1, <2>2
<1>3. \A k \in from .. to : \E x \in P : ranks[x] = k
  <2> SUFFICES ASSUME NEW k \in from .. to PROVE \E x \in P : ranks[x] = k
    OBVIOUS
  <2>1. k \in 0 .. n - 1 /\ k \in from .. from + PageSize - 1
    BY <1>1
  <2>2. PICK x \in t.copies : Rank(t, x) = k
    BY <2>1, RanksTaken
  <2> QED BY <2>1, <2>2 DEF Page
<1>4. ranks \in Surjection(P, from .. to)
  BY <1>2, <1>3 DEF Surjection
<1>5. \A x, y \in P : ranks[x] = ranks[y] => x = y
  <2> SUFFICES ASSUME NEW x \in P, NEW y \in P, ranks[x] = ranks[y] PROVE x = y
    OBVIOUS
  <2>1. x \in t.copies /\ y \in t.copies /\ Rank(t, x) = Rank(t, y) /\ Rank(t, x) \in Int
    BY <1>2
  <2>2. ~Newer(x, y) /\ ~Newer(y, x)
    BY <2>1, RanksFall
  <2> QED BY <2>1, <2>2, NewerOrders
<1>6. ranks \in Injection(P, from .. to)
  BY <1>2, <1>5 DEF Injection, IsInjective
<1>7. IsFiniteSet(from .. to) /\ Cardinality(from .. to) = IF from > to THEN 0 ELSE to - from + 1
  BY <1>1, FS_Interval
<1>8. Cardinality(P) = Cardinality(from .. to)
  BY <1>4, <1>6, <1>7, FS_Injection
<1> QED BY <1>1, <1>7, <1>8

\* There is a newest row unless there is none at all.
LEMMA NewestFound ==
  ASSUME TypeOK, NEW t \in Tables, Numbered(t)
  PROVE  Newest(t) = {} <=> Cardinality(t.copies) = 0
<1>1. IsFiniteSet(t.copies) /\ Cardinality(t.copies) \in Nat
  BY RankRange DEF Tables, FiniteSubsets
<1>2. ASSUME Cardinality(t.copies) = 0 PROVE Newest(t) = {}
  BY <1>1, <1>2, FS_EmptySet DEF Newest
<1>3. ASSUME Cardinality(t.copies) # 0 PROVE Newest(t) # {}
  <2>1. 0 \in 0 .. Cardinality(t.copies) - 1
    BY <1>1, <1>3
  <2>2. PICK x \in t.copies : Rank(t, x) = 0
    BY <2>1, RanksTaken
  <2>3. \A y \in t.copies : Rank(t, y) \in Nat
    BY <1>1, RanksBounded
  <2>4. \A y \in t.copies : ~Newer(y, x)
    BY <2>2, <2>3, RanksFall
  <2>5. \A y \in t.copies : made[y.of] \in 0 .. MaxTime
    BY DEF TypeOK, Tables, FiniteSubsets, Copies
  <2>6. \A y \in t.copies : made[y.of] <= made[x.of]
    BY <2>4, <2>5 DEF Newer
  <2> QED BY <2>5, <2>6 DEF Newest
<1> QED BY <1>2, <1>3

\* What changed between midnight and a moment changed on the day of that moment.
LEMMA HoursOfDay ==
  ASSUME NEW t, NEW a \in Nat
  PROVE  Changed(t, Midnight(a), a) <= Changed(t, Midnight(a), Midnight(a) + Day - 1)
<1>1. Midnight(a) \in Int /\ a <= Midnight(a) + Day - 1
  BY DEF Midnight
<1> DEFINE hours == {i \in IP : t.bans[i] \in Midnight(a) .. a}
           day   == {i \in IP : t.bans[i] \in Midnight(a) .. Midnight(a) + Day - 1}
<1>2. hours \in SUBSET day
  BY <1>1
<1>3. IsFiniteSet(day)
  BY FiniteAssumption, FS_Subset
<1> QED BY <1>2, <1>3, FS_Subset DEF Changed
-----------------------------------------------------------------------------
(* Numbers: a transaction starts from what is committed, and gives its copies *)
(* the next free ones.                                                        *)

\* Fewer copies, or a later number, leave them told apart.
LEMMA FewerNumbered ==
  ASSUME NEW t \in Tables, Numbered(t), NEW u \in Tables,
         u.copies \subseteq t.copies, u.serial = t.serial
  PROVE  Numbered(u)
BY DEF Numbered

LEMMA EmptyNumbered == Numbered(Empty)
BY DEF Numbered, Empty

\* Whatever committed versions are left are numbered.
LEMMA LogNumbered ==
  ASSUME AllNumbered,
         \A k \in 1 .. Len(wal') : \E j \in 1 .. Len(wal) : wal'[k] = wal[j]
  PROVE  \A k \in 1 .. Len(wal') : Numbered(wal'[k])
BY DEF AllNumbered, Numbered

\* Committing what is numbered.
LEMMA CommitNumbered ==
  ASSUME AllNumbered, TypeOK, Commit, UNCHANGED snap
  PROVE  AllNumbered'
<1>1. draft \in Tables /\ wal \in Seq(Tables) /\ wal # << >>
  BY DEF TypeOK
<1>2. /\ Len(wal') = Len(wal) + 1 /\ Len(wal) \in Nat
      /\ wal'[Len(wal')] = draft
      /\ \A k \in 1 .. Len(wal) : wal'[k] = wal[k]
  BY <1>1, AppendVersion DEF Commit, DB
<1>3. \A k \in 1 .. Len(wal') : wal'[k] = draft \/ \E j \in 1 .. Len(wal) : wal'[k] = wal[j]
  BY <1>2
<1> QED BY <1>3, EmptyNumbered DEF AllNumbered, Numbered, Commit, Leaves

\* A further copy takes the next number.
LEMMA InsertDeliveryNumbered ==
  ASSUME AllNumbered, TypeOK, NEW r \in Records, InsertDelivery(r)
  PROVE  AllNumbered'
<1> PICK c \in left :
       draft' = [draft EXCEPT
                      !.deliveries = @ \cup {<<r, c>>},
                      !.copies = IF copying
                                   THEN @ \cup {[id |-> draft.serial, of |-> r, chan |-> c]}
                                   ELSE @,
                      !.serial = IF copying THEN @ + 1 ELSE @]
  BY DEF InsertDelivery
<1>1. draft \in Tables /\ Numbered(draft) /\ UNCHANGED <<wal, snap>>
  BY DEF TypeOK, AllNumbered, InsertDelivery, reading
<1>2. draft.serial \in Nat /\ \A x \in draft.copies : x.id \in Nat
  BY <1>1 DEF Tables, FiniteSubsets, Copies
<1>3. CASE copying
  <2>1. /\ draft'.copies = draft.copies \cup {[id |-> draft.serial, of |-> r, chan |-> c]}
        /\ draft'.serial = draft.serial + 1
    BY <1>1, <1>3 DEF Tables
  <2>2. Numbered(draft')
    BY <1>1, <1>2, <2>1 DEF Numbered
  <2> QED BY <1>1, <2>2 DEF AllNumbered, Numbered
<1>4. CASE ~copying
  <2>1. draft'.copies = draft.copies /\ draft'.serial = draft.serial
    BY <1>1, <1>4 DEF Tables
  <2> QED BY <1>1, <2>1 DEF AllNumbered, Numbered
<1> QED BY <1>3, <1>4

\* The other statements add none.
LEMMA StatementNumbered ==
  ASSUME AllNumbered, TypeOK, TypeOK', UNCHANGED <<wal, snap>>,
         \/ UNCHANGED draft
         \/ draft' = Empty
         \/ draft'.copies \subseteq DB.copies /\ draft'.serial = DB.serial
         \/ draft'.copies = draft.copies /\ draft'.serial = draft.serial
  PROVE  AllNumbered'
<1>0. DB \in Tables /\ draft \in Tables /\ draft' \in Tables /\ Len(wal) \in 1 .. Len(wal)
  BY LastVersion DEF TypeOK
<1>1. Numbered(DB) /\ Numbered(draft)
  BY <1>0 DEF AllNumbered, DB
<1>2. Numbered(draft')
  BY <1>0, <1>1, FewerNumbered, EmptyNumbered
<1> QED BY <1>2 DEF AllNumbered, Numbered

\* A snapshot is what was committed last; without it there is none.
LEMMA SnapshotNumbered ==
  ASSUME AllNumbered, TypeOK, UNCHANGED <<wal, draft>>,
         \A q \in Readers : snap'[q] \in {snap[q], DB, Empty}
  PROVE  AllNumbered'
<1>1. Numbered(DB)
  BY LastVersion DEF AllNumbered, TypeOK, DB
<1> QED BY <1>1, EmptyNumbered DEF AllNumbered, Numbered

\* Whatever is left of the log when the process ends.
LEMMA EndsNumbered ==
  ASSUME AllNumbered, Ends,
         \A k \in 1 .. Len(wal') : \E j \in 1 .. Len(wal) : wal'[k] = wal[j]
  PROVE  AllNumbered'
<1>1. \A k \in 1 .. Len(wal') : Numbered(wal'[k])
  BY LogNumbered
<1>2. draft' = Empty /\ \A q \in Readers : snap'[q] = Empty
  BY DEF Ends, Leaves
<1> QED BY <1>1, <1>2, EmptyNumbered DEF AllNumbered, Numbered

LEMMA LifeNumbered ==
  ASSUME AllNumbered, TypeOK, Tick \/ Checkpoint \/ Crash \/ PowerLoss \/ Stop \/ Close \/ Start
  PROVE  AllNumbered'
<1>0. Len(wal) \in Nat \ {0} /\ DB = wal[Len(wal)]
  BY LastVersion DEF TypeOK, DB
<1>1. CASE Tick \/ Stop \/ Start
  BY <1>1 DEF AllNumbered, Numbered, Tick, Stop, Start, writing, reading
<1>2. CASE Checkpoint
  <2>1. Len(wal') = 1 /\ wal'[1] = wal[Len(wal)] /\ UNCHANGED <<draft, snap>>
    BY <1>0, <1>2 DEF Checkpoint, writing, reading
  <2>2. \A k \in 1 .. Len(wal') : \E j \in 1 .. Len(wal) : wal'[k] = wal[j]
    BY <1>0, <2>1
  <2> QED BY <2>1, <2>2, LogNumbered DEF AllNumbered, Numbered
<1>3. CASE Crash
  BY <1>0, <1>3, EndsNumbered DEF Crash
<1>4. CASE PowerLoss
  <2> PICK k \in 1 .. Len(wal) : wal' = SubSeq(wal, 1, k)
    BY <1>4 DEF PowerLoss
  <2>1. Len(wal') = k /\ \A j \in 1 .. k : wal'[j] = wal[j]
    BY CutVersion DEF TypeOK
  <2> QED BY <1>0, <1>4, <2>1, EndsNumbered DEF PowerLoss
<1>5. CASE Close
  <2>1. Len(wal') = 1 /\ wal'[1] = wal[Len(wal)]
    BY <1>0, <1>5 DEF Close
  <2> QED BY <1>0, <1>5, <2>1, EndsNumbered DEF Close
<1> QED BY <1>1, <1>2, <1>3, <1>4, <1>5

\* Every step keeps copies told apart.
LEMMA NextNumbered ==
  ASSUME AllNumbered, TypeOK, TypeOK', [Next]_vars
  PROVE  AllNumbered'
<1>0. DB \in Tables /\ draft \in Tables
  BY LastVersion DEF TypeOK
<1>1. CASE UNCHANGED vars
  BY <1>1 DEF AllNumbered, Numbered, vars, writing, reading
<1>2. ASSUME NEW r \in Records, Queue(r) \/ InsertMessage(r) \/ CommitRecord(r)
      PROVE  AllNumbered'
  <2>1. CASE Queue(r)
    BY <2>1, StatementNumbered DEF Queue, writing, reading
  <2>2. CASE InsertMessage(r)
    BY <1>0, <2>2, StatementNumbered DEF InsertMessage, Tables, reading
  <2>3. CASE CommitRecord(r)
    BY <2>3, CommitNumbered DEF CommitRecord, reading
  <2> QED BY <1>2, <2>1, <2>2, <2>3
<1>3. CASE TakeRecord
  BY <1>3, StatementNumbered DEF TakeRecord, writing, reading
<1>4. CASE WriteBans
  BY <1>0, <1>4, StatementNumbered DEF WriteBans, Tables, reading
<1>5. CASE CommitBans
  BY <1>5, CommitNumbered DEF CommitBans, reading
<1>6. ASSUME NEW c \in Cleaners, Cleanup(c) PROVE AllNumbered'
  <2>1. CASE StartCleanup(c)
    BY <2>1, StatementNumbered DEF StartCleanup, writing, reading
  <2>2. CASE DeleteMessages(c)
    BY <1>0, <2>2, StatementNumbered DEF DeleteMessages, Tables, reading
  <2>3. CASE DeleteBans(c)
    BY <1>0, <2>3, StatementNumbered DEF DeleteBans, Tables, reading
  <2>4. CASE CommitCleanup(c)
    BY <2>4, CommitNumbered DEF CommitCleanup, reading
  <2> QED BY <1>6, <2>1, <2>2, <2>3, <2>4 DEF Cleanup
<1>7. ASSUME NEW w \in {"record", "bans"} \cup Cleaners, Fail(w) \/ Busy(w)
      PROVE  AllNumbered'
  BY <1>7, StatementNumbered DEF Fail, Busy, GiveUp, Leaves, writing, reading
<1>8. ASSUME NEW q \in Readers, Read(q) PROVE AllNumbered'
  <2>1. UNCHANGED <<wal, draft>>
    BY <1>8 DEF Read, BeginRead, FirstQuery, LastQuery, FailRead, writing
  <2>2. \A p \in Readers : snap'[p] \in {snap[p], DB, Empty}
    BY <1>8 DEF Read, BeginRead, FirstQuery, LastQuery, FailRead, TypeOK
  <2> QED BY <2>1, <2>2, SnapshotNumbered
<1> QED BY <1>1, <1>2, <1>3, <1>4, <1>5, <1>6, <1>7, <1>8, InsertDeliveryNumbered, LifeNumbered
        DEF Next, RecordWorker
-----------------------------------------------------------------------------
(* What readers are told. *)

\* What a reader knows is known of it alone.
Reading(q) == BetweenQueries(q) /\ (asks[q] = "none" => Agrees(told[q], arg[q]))

\* A reader that a step leaves alone knows what it knew.
Rests(q) == /\ asks'[q] = asks[q] /\ arg'[q] = arg[q]
            /\ snap'[q] = snap[q] /\ told'[q] = told[q]

LEMMA RestingReads ==
  ASSUME NEW q, Reading(q), Rests(q)
  PROVE  Reading(q)'
BY DEF Reading, BetweenQueries, Agrees, Rests, Changed, Midnight

LEMMA NothingReads ==
  ASSUME NEW q, asks[q] = "none", told[q] = NoAnswer
  PROVE  Reading(q)
BY DEF Reading, BetweenQueries, Agrees, NoAnswer

LEMMA BeginReadReads ==
  ASSUME TypeOK, NEW q \in Readers, BeginRead(q)
  PROVE  Reading(q)'
<1>1. asks'[q] # "none" /\ told'[q].kind = "none"
  BY DEF BeginRead, TypeOK, NoAnswer, Kinds
<1> QED BY <1>1 DEF Reading, BetweenQueries

LEMMA FirstQueryReads ==
  ASSUME TypeOK, NEW q \in Readers, FirstQuery(q)
  PROVE  Reading(q)'
<1>1. /\ asks'[q] = asks[q] /\ arg'[q] = arg[q] /\ asks[q] # "none"
      /\ snap'[q] = DB
      /\ told'[q].kind = asks[q]
      /\ told'[q].first = IF asks[q] = "trends" THEN Changed(DB, Midnight(arg[q]), arg[q])
                          ELSE Cardinality(DB.copies)
  BY DEF FirstQuery, TypeOK
<1> QED BY <1>1 DEF Reading, BetweenQueries, Changed, Midnight

\* The last query looks at the snapshot of the first.
LEMMA LastQueryReads ==
  ASSUME TypeOK, AllNumbered, NEW q \in Readers, Reading(q), LastQuery(q)
  PROVE  Reading(q)'
<1> DEFINE t    == snap[q]
           from == arg[q]
<1>1. /\ t \in Tables /\ Numbered(t) /\ from \in Nat /\ asks[q] \in Kinds
      /\ told[q] \in Answers
  BY DEF TypeOK, AllNumbered, LastQuery
<1>2. /\ told[q].kind = asks[q]
      /\ told[q].first = IF asks[q] = "trends" THEN Changed(t, Midnight(from), from)
                         ELSE Cardinality(t.copies)
  BY DEF Reading, BetweenQueries, LastQuery
<1>3. /\ asks'[q] = "none" /\ arg'[q] = from
      /\ told'[q].kind = told[q].kind /\ told'[q].first = told[q].first
      /\ asks[q] = "page" => told'[q].second = Cardinality(Page(t, from))
      /\ asks[q] = "summary" => /\ told'[q].second = Cardinality(Today(t))
                                /\ told'[q].last = Newest(t)
      /\ asks[q] = "trends" =>
           told'[q].second = Changed(t, Midnight(from), Midnight(from) + Day - 1)
  BY <1>1 DEF LastQuery, View, TypeOK, Answers
<1>4. CASE asks[q] = "page"
  BY <1>1, <1>2, <1>3, <1>4, PageLength DEF Reading, BetweenQueries, Agrees
<1>5. CASE asks[q] = "summary"
  <2>1. Newest(t) = {} <=> Cardinality(t.copies) = 0
    BY <1>1, NewestFound
  <2>2. Cardinality(Today(t)) <= Cardinality(t.copies)
    BY <1>1, FS_Subset DEF Today, Tables, FiniteSubsets
  <2> QED BY <1>2, <1>3, <1>5, <2>1, <2>2 DEF Reading, BetweenQueries, Agrees
<1>6. CASE asks[q] = "trends"
  BY <1>1, <1>2, <1>3, <1>6, HoursOfDay DEF Reading, BetweenQueries, Agrees
<1> QED BY <1>1, <1>4, <1>5, <1>6 DEF Kinds

\* Every step leaves every reader with parts of an answer that fit together.
LEMMA NextReads ==
  ASSUME TypeOK, AllNumbered, [Next]_vars, NEW p \in Readers, Reading(p)
  PROVE  Reading(p)'
<1>1. CASE UNCHANGED reading
  BY <1>1, RestingReads DEF Rests, reading
<1>2. ASSUME NEW q \in Readers, Read(q) PROVE Reading(p)'
  <2>1. CASE p = q
    <3>1. CASE FailRead(q)
      BY <2>1, <3>1, RestingReads DEF FailRead, TypeOK, Reading, BetweenQueries, Agrees, NoAnswer
    <3> QED BY <1>2, <2>1, <3>1, BeginReadReads, FirstQueryReads, LastQueryReads DEF Read
  <2>2. CASE p # q
    <3>1. Rests(p)
      BY <1>2, <2>2 DEF Read, BeginRead, FirstQuery, LastQuery, FailRead, Rests, TypeOK
    <3> QED BY <3>1, RestingReads
  <2> QED BY <2>1, <2>2
<1>3. CASE Ends
  BY <1>3 DEF Ends, Reading, BetweenQueries, Agrees, NoAnswer
<1>4. ASSUME NEW r \in Records,
             Queue(r) \/ InsertMessage(r) \/ InsertDelivery(r) \/ CommitRecord(r)
      PROVE  UNCHANGED reading
  BY <1>4 DEF Queue, InsertMessage, InsertDelivery, CommitRecord
<1>5. ASSUME NEW c \in Cleaners, Cleanup(c) PROVE UNCHANGED reading
  BY <1>5 DEF Cleanup, StartCleanup, DeleteMessages, DeleteBans, CommitCleanup
<1>6. ASSUME NEW w, Fail(w) \/ Busy(w) PROVE UNCHANGED reading
  BY <1>6 DEF Fail, Busy, GiveUp
<1>7. ASSUME TakeRecord \/ WriteBans \/ CommitBans \/ Tick \/ Checkpoint \/ Stop \/ Start
      PROVE  UNCHANGED reading
  BY <1>7 DEF TakeRecord, WriteBans, CommitBans, Tick, Checkpoint, Stop, Start
<1>8. ASSUME Crash \/ PowerLoss \/ Close PROVE Ends
  BY <1>8 DEF Crash, PowerLoss, Close
<1>9. UNCHANGED vars => UNCHANGED reading
  BY DEF vars
<1> QED BY <1>1, <1>2, <1>3, <1>4, <1>5, <1>6, <1>7, <1>8, <1>9 DEF Next, RecordWorker

LEMMA ReadingInvIs == ReadingInv <=> AllNumbered /\ \A q \in Readers : Reading(q)
BY DEF ReadingInv, ReadsAgree, Reading

\* The inductive invariant: the copies of every table are told apart by their
\* numbers, and a reader between two queries knows what its snapshot has.
THEOREM ReadingInvariance == Spec => []ReadingInv
<1>1. Init => ReadingInv
  <2> SUFFICES ASSUME Init PROVE ReadingInv
    OBVIOUS
  <2>1. AllNumbered
    BY EmptyNumbered DEF Init, AllNumbered, Numbered
  <2>2. \A q \in Readers : Reading(q)
    BY NothingReads DEF Init
  <2> QED BY <2>1, <2>2, ReadingInvIs
<1>2. ReadingInv /\ TypeOK /\ TypeOK' /\ [Next]_vars => ReadingInv'
  <2> SUFFICES ASSUME ReadingInv, TypeOK, TypeOK', [Next]_vars PROVE ReadingInv'
    OBVIOUS
  <2>1. AllNumbered' /\ \A q \in Readers : Reading(q)'
    BY NextNumbered, NextReads, ReadingInvIs
  <2> QED BY <2>1 DEF ReadingInv, ReadsAgree, Reading
<1> QED BY <1>1, <1>2, Typing, PTL DEF Spec

\* The answer to a request for the list, the summary or the trends fits together
\* whatever is committed between its queries, for any number of rows and any
\* page size: all of them are of one snapshot, and the order of the list leaves
\* no two rows in one place (sqlite.go:519-617, 426-517).
THEOREM AnswersFit == Spec => []ReadsAgree
<1>1. ReadingInv => ReadsAgree
  BY DEF ReadingInv
<1> QED BY <1>1, ReadingInvariance, PTL
-----------------------------------------------------------------------------
(* What a transaction will have done when it commits.  *)

\* Of what is committed the rows and their times stand.
LEMMA CommittedStands ==
  ASSUME DatabaseInv, TypeOK
  PROVE  /\ DB \in Tables
         /\ \A r \in DB.messages : r \in Records /\ state[r] = "done"
         /\ Grows => \A r \in DB.messages : made'[r] = made[r] /\ state'[r] = "done"
<1>1. Len(wal) \in 1 .. Len(wal) /\ DB = wal[Len(wal)] /\ DB \in Tables
  BY LastVersion DEF TypeOK, DB
<1>2. Settled(DB)
  BY <1>1 DEF DatabaseInv, Versions
<1> QED BY <1>1, <1>2 DEF Settled, Tables, Grows

\* A transaction goes on while others act, unless they touch what it rests on.
LEMMA DraftStays ==
  ASSUME Drafted, DatabaseInv, TypeOK, Grows, DB' = DB, UNCHANGED <<writer, draft>>,
         writer = "record" => \A r \in Records : state'[r] = "hand" <=> state[r] = "hand",
         writer \in Cleaners => before'[writer] = before[writer]
  PROVE  Drafted'
<1> SUFFICES ASSUME writer # "none" PROVE Drafted'
  BY DEF Drafted
<1>1. \A r \in DB.messages : made'[r] = made[r]
  BY CommittedStands
<1>2. writer \in Cleaners => Old(writer)' = Old(writer)
  BY <1>1 DEF Old
<1>3. Intended' = Intended
  <2>1. CASE writer = "record"
    BY <2>1 DEF Intended
  <2>2. CASE writer = "bans"
    BY <2>2 DEF Intended
  <2>3. CASE writer \in Cleaners
    BY <1>2, <2>3 DEF Intended
  <2> QED BY <2>1, <2>2, <2>3 DEF TypeOK
<1> QED BY <1>3 DEF Drafted, Delivered, Copied

LEMMA RecordingDrafted ==
  ASSUME Drafted, DatabaseInv, TypeOK, NEW r \in Records, InsertMessage(r) \/ InsertDelivery(r)
  PROVE  Drafted'
<1>0. DB \in Tables /\ draft \in Tables /\ DB' = DB /\ r \notin DB.messages
  BY CommittedStands, LastVersion DEF InsertMessage, InsertDelivery, DB, TypeOK
<1>1. \A s \in Records : state'[s] = state[s] /\ (state[s] = "hand" <=> s = r)
  BY DEF InsertMessage, InsertDelivery, records, TypeOK
<1>2. writer' = "record"
  BY DEF InsertMessage, Locks, InsertDelivery
<1>3. Intended' = DB.messages \cup {r}
  BY <1>0, <1>1, <1>2 DEF Intended
<1>4. CASE InsertMessage(r)
  <2>1. /\ draft'.messages = DB.messages \cup {r}
        /\ draft'.deliveries = DB.deliveries /\ draft'.copies = DB.copies
    BY <1>0, <1>4 DEF InsertMessage, Tables
  <2> QED BY <1>0, <1>3, <2>1 DEF Drafted, Delivered, Copied
<1>5. CASE InsertDelivery(r)
  <2>0. writer = "record"
    BY <1>5 DEF InsertDelivery
  <2>1. Intended = DB.messages \cup {r}
    BY <1>1, <2>0 DEF Intended
  <2> PICK c \in left :
       draft' = [draft EXCEPT
                      !.deliveries = @ \cup {<<r, c>>},
                      !.copies = IF copying
                                   THEN @ \cup {[id |-> draft.serial, of |-> r, chan |-> c]}
                                   ELSE @,
                      !.serial = IF copying THEN @ + 1 ELSE @]
    BY <1>5 DEF InsertDelivery
  <2>2. /\ draft'.messages = draft.messages
        /\ draft'.deliveries = draft.deliveries \cup {<<r, c>>}
        /\ draft'.copies \in {draft.copies,
                              draft.copies \cup {[id |-> draft.serial, of |-> r, chan |-> c]}}
    BY <1>0 DEF Tables
  <2>3. \A s \in DB.messages : /\ Delivered(draft, s)' = Delivered(draft, s)
                               /\ Copied(draft, s)' = Copied(draft, s)
    BY <1>0, <2>2 DEF Delivered, Copied
  <2> QED BY <1>0, <1>3, <2>0, <2>1, <2>2, <2>3 DEF Drafted, Delivered, Copied
<1> QED BY <1>4, <1>5

LEMMA CleaningDrafted ==
  ASSUME Drafted, DatabaseInv, TypeOK, NEW c \in Cleaners, DeleteMessages(c) \/ DeleteBans(c)
  PROVE  Drafted'
<1>0. DB \in Tables /\ draft \in Tables /\ DB' = DB
  BY CommittedStands DEF DeleteMessages, DeleteBans, DB, TypeOK
<1>1. writer' = c /\ Old(c)' = Old(c)
  BY <1>0 DEF DeleteMessages, Locks, DeleteBans, DatabaseInv, UnderWay, Old, records
<1>2. Intended' = DB.messages \ Old(c)
  BY <1>0, <1>1 DEF Intended
<1>3. CASE DeleteMessages(c)
  <2>1. /\ draft'.messages = DB.messages \ Old(c)
        /\ draft'.deliveries = {d \in DB.deliveries : d[1] \notin Old(c)}
        /\ draft'.copies = {row \in DB.copies : row.of \notin Old(c)}
    BY <1>0, <1>3 DEF DeleteMessages, Tables
  <2> QED BY <1>0, <1>2, <2>1 DEF Drafted, Delivered, Copied
<1>4. CASE DeleteBans(c)
  <2>1. writer = c /\ Intended = DB.messages \ Old(c)
    BY <1>4 DEF DeleteBans, DatabaseInv, UnderWay, Intended
  <2>2. /\ draft'.messages = draft.messages /\ draft'.deliveries = draft.deliveries
        /\ draft'.copies = draft.copies
    BY <1>0, <1>4 DEF DeleteBans, Tables
  <2> QED BY <1>0, <1>2, <2>1, <2>2 DEF Drafted, Delivered, Copied
<1> QED BY <1>3, <1>4

LEMMA WriteBansDrafted ==
  ASSUME DatabaseInv, TypeOK, WriteBans
  PROVE  Drafted'
<1>1. DB \in Tables /\ DB' = DB /\ writer' = "bans"
  BY CommittedStands DEF WriteBans, Locks, DB
<1>2. /\ draft'.messages = DB.messages /\ draft'.deliveries = DB.deliveries
      /\ draft'.copies = DB.copies
  BY <1>1 DEF WriteBans, Tables
<1> QED BY <1>1, <1>2 DEF Drafted, Intended, Delivered, Copied

\* Every step keeps the draft to what its transaction is about.
LEMMA NextDrafted ==
  ASSUME Drafted, DatabaseInv, TypeOK, [Next]_vars
  PROVE  Drafted'
<1>0. Len(wal) \in Nat \ {0} /\ DB = wal[Len(wal)]
  BY LastVersion DEF TypeOK, DB
<1>1. CASE writer' = "none"
  BY <1>1 DEF Drafted
<1>2. ASSUME UNCHANGED <<wal, writer, draft, state, made, before>> PROVE Drafted'
  <2>1. DB' = DB
    BY <1>2 DEF DB
  <2>2. writer \in Cleaners => Old(writer)' = Old(writer)
    BY <1>2, <2>1 DEF Old
  <2>3. writer # "none" => Intended' = Intended
    <3>1. CASE writer = "record"
      BY <1>2, <2>1, <3>1 DEF Intended
    <3>2. CASE writer = "bans"
      BY <1>2, <2>1, <3>2 DEF Intended
    <3>3. CASE writer \in Cleaners
      BY <1>2, <2>1, <2>2, <3>3 DEF Intended
    <3> QED BY <3>1, <3>2, <3>3 DEF TypeOK
  <2> QED BY <1>2, <2>1, <2>3 DEF Drafted, Delivered, Copied
<1>3. ASSUME NEW r \in Records, Queue(r) PROVE Drafted'
  <2>1. Grows /\ DB' = DB /\ \A s \in Records : state'[s] = "hand" <=> state[s] = "hand"
    BY <1>3 DEF Queue, Grows, TypeOK, DB
  <2> QED BY <1>3, <2>1, DraftStays DEF Queue, writing, cleaning
<1>4. CASE TakeRecord
  <2>1. queue[1] \in Records /\ Head(queue) = queue[1] /\ state[queue[1]] = "queued"
    BY <1>4 DEF TakeRecord, TypeOK, DatabaseInv, Line
  <2>2. Grows /\ DB' = DB
    BY <1>4, <2>1 DEF TakeRecord, Grows, TypeOK, DB
  <2>3. writer # "record"
    BY <1>4 DEF TakeRecord, TypeOK
  <2> QED BY <1>4, <2>2, <2>3, DraftStays DEF TakeRecord, writing, cleaning
<1>5. ASSUME NEW c \in Cleaners, StartCleanup(c) PROVE Drafted'
  <2>1. Grows /\ DB' = DB
    BY <1>5 DEF StartCleanup, records, Grows, DB
  <2>2. writer \in Cleaners => before'[writer] = before[writer]
    BY <1>5 DEF StartCleanup, TypeOK
  <2> QED BY <1>5, <2>1, <2>2, DraftStays DEF StartCleanup, records, writing
<1>6. ASSUME NEW w \in {"record"} \cup Cleaners, Busy(w) PROVE Drafted'
  <2>1. Grows /\ DB' = DB
    BY <1>6 DEF Busy, GiveUp, Grows, TypeOK, DB
  <2>2. writer # w /\ UNCHANGED writing
    BY <1>6 DEF Busy
  <2>3. writer = "record" => state' = state
    BY <1>6, <2>2 DEF Busy, GiveUp
  <2>4. writer \in Cleaners => before'[writer] = before[writer]
    BY <1>6, <2>2 DEF Busy, GiveUp, TypeOK
  <2> QED BY <2>1, <2>2, <2>3, <2>4, DraftStays DEF writing
<1>7. CASE Checkpoint
  <2>1. DB' = DB /\ Grows
    BY <1>0, <1>7 DEF Checkpoint, DB, Grows, records
  <2> QED BY <1>7, <2>1, DraftStays DEF Checkpoint, records, writing, cleaning
<1>8. ASSUME NEW r \in Records, CommitRecord(r) PROVE writer' = "none"
  BY <1>8 DEF CommitRecord, Commit, Leaves
<1>9. ASSUME NEW c \in Cleaners, CommitCleanup(c) PROVE writer' = "none"
  BY <1>9 DEF CommitCleanup, Commit, Leaves
<1>10. ASSUME NEW w, Fail(w) PROVE writer' = "none"
  BY <1>10 DEF Fail, Leaves
<1>11. ASSUME CommitBans \/ Crash \/ PowerLoss \/ Close PROVE writer' = "none"
  BY <1>11 DEF CommitBans, Commit, Crash, PowerLoss, Close, Ends, Leaves
<1>12. ASSUME NEW q \in Readers, Read(q)
       PROVE  UNCHANGED <<wal, writer, draft, state, made, before>>
  BY <1>12 DEF Read, BeginRead, FirstQuery, LastQuery, FailRead, writing, records, cleaning
<1>13. ASSUME Tick \/ Stop \/ Start
       PROVE  UNCHANGED <<wal, writer, draft, state, made, before>>
  BY <1>13 DEF Tick, Stop, Start, writing, records, cleaning
<1>14. UNCHANGED vars => UNCHANGED <<wal, writer, draft, state, made, before>>
  BY DEF vars, writing, records, cleaning
<1>15. ASSUME NEW c \in Cleaners, Cleanup(c) PROVE Drafted'
  BY <1>1, <1>5, <1>9, <1>15, CleaningDrafted DEF Cleanup
<1> QED BY <1>1, <1>2, <1>3, <1>4, <1>6, <1>7, <1>8, <1>10, <1>11, <1>12, <1>13, <1>14, <1>15,
           RecordingDrafted, WriteBansDrafted
        DEF Next, RecordWorker

\* No transaction is about to commit anything but its own rows.
THEOREM DraftsKeepToTheirOwn == Spec => []Drafted
<1>1. Init => Drafted
  BY DEF Init, Drafted
<1>2. Drafted /\ DatabaseInv /\ TypeOK /\ [Next]_vars => Drafted'
  BY NextDrafted
<1> QED BY <1>1, <1>2, Invariance, Typing, PTL DEF Spec

-----------------------------------------------------------------------------
(* Every step is a step of PushLog. *)

Rows == [of : Records, at : 0 .. MaxTime, to : SUBSET Channels, copied : SUBSET Channels]

\* The pushes of a table, by the times that pushes were made.
Picture(m, t, r) == [of |-> r, at |-> m[r], to |-> Delivered(t, r), copied |-> Copied(t, r)]
Pictures(m, t)   == {Picture(m, t, r) : r \in t.messages}

\* What a log shows of them.
Film(m, w) == [k \in 1 .. Len(w) |-> Pictures(m, w[k])]

Shown == [k \in 1 .. Len(wal) |-> PushesIn(wal[k])]

LEMMA ShownIs ==
  /\ Shown = Film(made, wal)
  /\ Shown' = Film(made', wal')
BY DEF Shown, Film, PushesIn, PushOf, Pictures, Picture, Delivered, Copied

LEMMA PicturesAre ==
  ASSUME NEW m \in [Records -> 0 .. MaxTime], NEW t \in Tables
  PROVE  Pictures(m, t) \in SUBSET Rows
<1>1. t.messages \subseteq Records /\ \A r \in Records : m[r] \in 0 .. MaxTime
  BY DEF Tables
<1>2. \A r : Delivered(t, r) \in SUBSET Channels /\ Copied(t, r) \in SUBSET Channels
  BY DEF Delivered, Copied
<1> QED BY <1>1, <1>2 DEF Picture, Pictures, Rows

\* What is shown of a log is a sequence as long as the log.
LEMMA FilmIs ==
  ASSUME NEW m \in [Records -> 0 .. MaxTime], NEW w \in Seq(Tables)
  PROVE  /\ Film(m, w) \in Seq(SUBSET Rows)
         /\ Len(Film(m, w)) = Len(w) /\ Len(w) \in Nat
         /\ \A k \in 1 .. Len(w) : Film(m, w)[k] = Pictures(m, w[k])
<1>1. Len(w) \in Nat /\ \A k \in 1 .. Len(w) : w[k] \in Tables
  BY LenProperties, ElementOfSeq
<1>2. \A k \in 1 .. Len(w) : Pictures(m, w[k]) \in SUBSET Rows
  BY <1>1, PicturesAre
<1>3. Film(m, w) \in [1 .. Len(w) -> SUBSET Rows]
  BY <1>2 DEF Film
<1>4. Film(m, w) \in Seq(SUBSET Rows) /\ Len(Film(m, w)) = Len(w)
  BY <1>1, <1>3, SeqDef, LenProperties
<1> QED BY <1>1, <1>4 DEF Film

\* What was committed goes on being shown as it was.
LEMMA PicturesStand ==
  ASSUME DatabaseInv, TypeOK, Grows
  PROVE  /\ \A k \in 1 .. Len(wal) : Pictures(made', wal[k]) = Pictures(made, wal[k])
         /\ Pictures(made', DB) = Pictures(made, DB)
<1>0. Len(wal) \in 1 .. Len(wal) /\ DB = wal[Len(wal)]
  BY LastVersion DEF TypeOK, DB
<1> SUFFICES ASSUME NEW k \in 1 .. Len(wal)
             PROVE  Pictures(made', wal[k]) = Pictures(made, wal[k])
  BY <1>0
<1>1. wal[k] \in Tables /\ Settled(wal[k])
  BY LastVersion DEF TypeOK, DatabaseInv, Versions
<1>2. \A r \in wal[k].messages : made'[r] = made[r]
  BY <1>1 DEF Settled, Tables, Grows
<1> QED BY <1>2 DEF Pictures, Picture

\* Records stay settled.
LEMMA SettlementsGrow ==
  ASSUME Grows
  PROVE  Settlements \subseteq Settlements' /\ Settlements' \in SUBSET Records
BY DEF Settlements, Grows

\* What is shown of the log before and after a step.
LEMMA Films ==
  ASSUME DatabaseInv, TypeOK, TypeOK', Grows
  PROVE  /\ Shown \in Seq(SUBSET Rows) /\ Len(Shown) = Len(wal) /\ Len(wal) \in Nat \ {0}
         /\ \A k \in 1 .. Len(wal) : Shown[k] = Pictures(made', wal[k])
         /\ Shown[Len(Shown)] = Pictures(made', DB) /\ Pictures(made', DB) \in SUBSET Rows
         /\ Shown' \in Seq(SUBSET Rows) /\ Len(Shown') = Len(wal') /\ Len(wal') \in Nat
         /\ \A k \in 1 .. Len(wal') : Shown'[k] = Pictures(made', wal'[k])
<1>1. /\ made \in [Records -> 0 .. MaxTime] /\ made' \in [Records -> 0 .. MaxTime]
      /\ wal \in Seq(Tables) /\ wal' \in Seq(Tables)
  BY DEF TypeOK
<1>2. Len(wal) \in Nat \ {0} /\ DB \in Tables /\ DB = wal[Len(wal)]
  BY LastVersion DEF TypeOK, DB
<1>3. /\ Shown \in Seq(SUBSET Rows) /\ Len(Shown) = Len(wal)
      /\ \A k \in 1 .. Len(wal) : Shown[k] = Pictures(made', wal[k])
  BY <1>1, FilmIs, ShownIs, PicturesStand
<1>4. /\ Shown' \in Seq(SUBSET Rows) /\ Len(Shown') = Len(wal') /\ Len(wal') \in Nat
      /\ \A k \in 1 .. Len(wal') : Shown'[k] = Pictures(made', wal'[k])
  BY <1>1, FilmIs, ShownIs
<1>5. Pictures(made', DB) \in SUBSET Rows
  BY <1>1, <1>2, PicturesAre
<1> QED BY <1>2, <1>3, <1>4, <1>5

\* A log that stays is shown as it was.
LEMMA SameShown ==
  ASSUME DatabaseInv, TypeOK, TypeOK', Grows, UNCHANGED wal
  PROVE  Log!LNext
<1>1. Shown' = Shown
  <2>1. \A k \in 1 .. Len(Shown) : Shown'[k] = Shown[k]
    BY Films
  <2> QED BY <2>1, Films, SeqEqual
<1>2. Log!LGiveUp
  BY <1>1, SettlementsGrow DEF Log!LGiveUp, Shown
<1> QED BY <1>2 DEF Log!LNext

\* A commit shows what was drafted.
LEMMA ShownCommit ==
  ASSUME DatabaseInv, TypeOK, TypeOK', Grows, wal' = Append(wal, draft)
  PROVE  Shown' = Append(Shown, Pictures(made', draft))
<1>0. draft \in Tables /\ made' \in [Records -> 0 .. MaxTime]
  BY DEF TypeOK
<1>1. /\ Len(wal') = Len(wal) + 1 /\ wal'[Len(wal) + 1] = draft
      /\ \A k \in 1 .. Len(wal) : wal'[k] = wal[k]
  BY <1>0, AppendVersion DEF TypeOK, DB
<1>2. Pictures(made', draft) \in SUBSET Rows
  BY <1>0, PicturesAre
<1> DEFINE pics == Pictures(made', draft)
<1>3. /\ Append(Shown, pics) \in Seq(SUBSET Rows)
      /\ Len(Append(Shown, pics)) = Len(Shown) + 1
      /\ Append(Shown, pics)[Len(Shown) + 1] = pics
      /\ \A k \in 1 .. Len(Shown) : Append(Shown, pics)[k] = Shown[k]
  <2> HIDE DEF pics
  <2> QED BY <1>2, Films DEF pics
<1>4. Shown'[Len(Shown) + 1] = pics
  BY <1>1, Films
<1>5. \A k \in 1 .. Len(Shown) : Shown'[k] = Shown[k]
  BY <1>1, Films
<1>6. \A k \in 1 .. Len(Shown') : Shown'[k] = Append(Shown, pics)[k]
  <2> HIDE DEF pics
  <2> QED BY <1>1, <1>3, <1>4, <1>5, Films
<1>7. Len(Shown') = Len(Append(Shown, pics))
  BY <1>1, <1>3, Films
<1> HIDE DEF pics
<1>8. Shown' = Append(Shown, pics)
  BY <1>3, <1>6, <1>7, Films, SeqEqual
<1> QED BY <1>8 DEF pics

\* Power takes the end of it.
LEMMA ShownCut ==
  ASSUME DatabaseInv, TypeOK, TypeOK', Grows, NEW k \in 1 .. Len(wal),
         wal' = SubSeq(wal, 1, k)
  PROVE  Shown' = SubSeq(Shown, 1, k)
<1>1. Len(wal') = k /\ \A j \in 1 .. k : wal'[j] = wal[j]
  BY CutVersion DEF TypeOK
<1>2. k \in Nat \ {0} /\ k <= Len(Shown) /\ \A j \in 1 .. k : Shown[j] \in SUBSET Rows
  BY Films
<1>3. /\ SubSeq(Shown, 1, k) \in Seq(SUBSET Rows)
      /\ Len(SubSeq(Shown, 1, k)) = k
      /\ \A j \in 1 .. k : SubSeq(Shown, 1, k)[j] = Shown[j]
  BY <1>2, SubSeqProperties
<1>4. \A j \in 1 .. k : Shown'[j] = Shown[j]
  BY <1>1, <1>2, Films
<1> QED BY <1>1, <1>3, <1>4, Films, SeqEqual

\* A checkpoint leaves the last.
LEMMA ShownLast ==
  ASSUME DatabaseInv, TypeOK, TypeOK', Grows, wal' = <<DB>>
  PROVE  Shown' = <<Shown[Len(Shown)]>>
<1>1. Len(wal') = 1 /\ wal'[1] = DB
  OBVIOUS
<1>2. Shown'[1] = Shown[Len(Shown)] /\ Shown[Len(Shown)] \in SUBSET Rows
  BY <1>1, Films
<1> DEFINE last == Shown[Len(Shown)]
<1>3. <<last>> \in Seq(SUBSET Rows) /\ Len(<<last>>) = 1 /\ <<last>>[1] = last
  <2> HIDE DEF last
  <2> QED BY <1>2 DEF last
<1>4. \A j \in 1 .. 1 : Shown'[j] = <<last>>[j]
  BY <1>2, <1>3
<1> HIDE DEF last
<1>5. Shown' = <<last>>
  BY <1>1, <1>3, <1>4, Films, SeqEqual
<1> QED BY <1>5 DEF last

\* What the last commit left, as it is shown.
LatestIs == Shown[Len(Shown)]

\* The commit of a record adds the push it is about.
LEMMA CommitRecordAdds ==
  ASSUME DatabaseInv, Drafted, TypeOK, TypeOK', NEW r \in Records, CommitRecord(r)
  PROVE  Log!LNext
<1>1. /\ state[r] = "hand" /\ writer = "record" /\ left = {} /\ wal' = Append(wal, draft)
      /\ made' = made /\ reached' = reached
      /\ \A s \in Records : state'[s] = IF s = r THEN "done" ELSE state[s]
  BY DEF CommitRecord, Commit, TypeOK
<1>2. Grows
  BY <1>1 DEF Grows
<1>3. Inserting(r) /\ reached[r] # {} /\ reached[r] \in SUBSET Channels
  BY <1>1 DEF DatabaseInv, UnderWay, Line, TypeOK
<1> DEFINE new == Picture(made', draft, r)
<1>4. /\ draft.messages = DB.messages \cup {r}
      /\ new.of = r /\ new.at = made[r] /\ new.to = reached[r]
      /\ new.copied \in {{}, reached[r]}
      /\ new = [of |-> r, at |-> made[r], to |-> reached[r], copied |-> new.copied]
  BY <1>1, <1>3 DEF Inserting, Picture
<1>5. \A s \in DB.messages : Picture(made', draft, s) = Picture(made', DB, s)
  BY <1>1, <1>4 DEF Drafted, Picture
<1>6. Pictures(made', draft) = LatestIs \cup {new}
  BY <1>2, <1>4, <1>5, Films DEF Pictures, LatestIs
<1>7. Shown' = Append(Shown, LatestIs \cup {new})
  BY <1>1, <1>2, <1>6, ShownCommit
<1>8. r \notin Settlements /\ Settlements' = Settlements \cup {r}
  BY <1>1 DEF Settlements
<1>9. made[r] \in 0 .. MaxTime
  BY DEF TypeOK
<1> HIDE DEF new
<1>10. Log!LAdd(r)
  BY <1>3, <1>4, <1>7, <1>8, <1>9 DEF Log!LAdd, Log!Latest, LatestIs, Shown
<1> QED BY <1>10 DEF Log!LNext

\* Any other commit drops pushes that are older than those it leaves, or none.
LEMMA CommitDrops ==
  ASSUME DatabaseInv, Drafted, TypeOK, TypeOK', Grows, writer \in {"bans"} \cup Cleaners,
         wal' = Append(wal, draft), made' = made, state' = state
  PROVE  Log!LNext
<1>1. DB \in Tables /\ Intended = draft.messages /\ draft.messages \subseteq DB.messages
  BY CommittedStands DEF Drafted, Intended
<1>2. \A p \in DB.messages \ draft.messages, q \in draft.messages : made[p] < made[q]
  <2>1. CASE writer = "bans"
    BY <1>1, <2>1 DEF Intended
  <2>2. CASE writer \in Cleaners
    <3>1. draft.messages = DB.messages \ Old(writer)
      BY <1>1, <2>2 DEF Intended
    <3>2. /\ before[writer] \in Int
          /\ \A r \in DB.messages : r \in Records /\ made[r] \in Int
      BY <1>1, <2>2 DEF TypeOK, Tables
    <3> QED BY <3>1, <3>2 DEF Old
  <2> QED BY <2>1, <2>2
<1>3. \A r \in draft.messages : Picture(made', draft, r) = Picture(made', DB, r)
  BY <1>1 DEF Drafted, Picture
<1> DEFINE S == {p \in LatestIs : p.of \notin draft.messages}
<1>4. LatestIs = {Picture(made', DB, r) : r \in DB.messages}
  BY Films DEF Pictures, LatestIs
<1>5. \A r : Picture(made', DB, r).of = r /\ Picture(made', DB, r).at = made[r]
  BY DEF Picture
<1>6. Pictures(made', draft) = LatestIs \ S
  <2>1. Pictures(made', draft) = {Picture(made', DB, r) : r \in draft.messages}
    BY <1>3 DEF Pictures
  <2> QED BY <1>1, <1>4, <1>5, <2>1
<1>7. \A p \in S, q \in LatestIs \ S : p.at < q.at
  BY <1>1, <1>2, <1>4, <1>5
<1>8. Shown' = Append(Shown, LatestIs \ S) /\ S \in SUBSET LatestIs
  BY <1>6, ShownCommit
<1>9. Settlements' = Settlements
  BY DEF Settlements
<1> HIDE DEF S
<1>10. Log!LDrop
  BY <1>7, <1>8, <1>9 DEF Log!LDrop, Log!Latest, LatestIs, Shown
<1> QED BY <1>10 DEF Log!LNext

\* The end of the process.
LEMMA EndingsEnd ==
  ASSUME DatabaseInv, TypeOK, TypeOK', Crash \/ PowerLoss
  PROVE  Log!LNext
<1>1. Ends
  BY DEF Crash, PowerLoss
<1>2. Grows
  BY <1>1 DEF Ends, Grows, TypeOK
<1>3. CASE Crash
  BY <1>2, <1>3, SameShown DEF Crash
<1>4. CASE PowerLoss
  <2>1. PICK k \in 1 .. Len(wal) : wal' = SubSeq(wal, 1, k)
    BY <1>4 DEF PowerLoss
  <2>2. Shown' = SubSeq(Shown, 1, k) /\ k \in 1 .. Len(Shown)
    BY <1>2, <2>1, ShownCut, Films
  <2>3. Log!LEnd
    BY <1>2, <2>2, SettlementsGrow DEF Log!LEnd, Shown
  <2> QED BY <2>3 DEF Log!LNext
<1> QED BY <1>3, <1>4

\* A checkpoint, also that of the last connection.
LEMMA CheckpointsChecked ==
  ASSUME DatabaseInv, TypeOK, TypeOK', Checkpoint \/ Close
  PROVE  Log!LNext
<1>1. /\ wal' = <<DB>> /\ made' = made /\ reached' = reached
      /\ \A r \in Records : state'[r] = state[r]
  <2>1. CASE Checkpoint
    BY <2>1 DEF Checkpoint, records
  <2>2. CASE Close
    BY <2>2 DEF Close, Ends
  <2> QED BY <2>1, <2>2
<1>2. Grows /\ Settlements' = Settlements
  BY <1>1 DEF Grows, Settlements
<1>3. Shown' = <<LatestIs>>
  BY <1>1, <1>2, ShownLast DEF LatestIs
<1>4. Log!LCheckpoint
  BY <1>2, <1>3 DEF Log!LCheckpoint, Log!Latest, LatestIs, Shown
<1> QED BY <1>4 DEF Log!LNext

\* The other actions leave the log alone and take back nothing of any record.
Aside == UNCHANGED wal /\ Grows

LEMMA RecordingAside ==
  ASSUME DatabaseInv, TypeOK, NEW r \in Records,
         Queue(r) \/ TakeRecord \/ InsertMessage(r) \/ InsertDelivery(r)
  PROVE  Aside
<1>1. CASE Queue(r)
  BY <1>1 DEF Queue, Aside, Grows, TypeOK
<1>2. CASE TakeRecord
  <2>1. queue[1] \in Records /\ Head(queue) = queue[1] /\ state[queue[1]] = "queued"
    BY <1>2 DEF TakeRecord, TypeOK, DatabaseInv, Line
  <2> QED BY <1>2, <2>1 DEF TakeRecord, Aside, Grows, TypeOK
<1>3. CASE InsertMessage(r) \/ InsertDelivery(r)
  BY <1>3 DEF InsertMessage, InsertDelivery, Aside, Grows, records
<1> QED BY <1>1, <1>2, <1>3

LEMMA GivingUpAside ==
  ASSUME TypeOK, NEW w, GiveUp(w)
  PROVE  Aside
BY DEF GiveUp, Aside, Grows, TypeOK

LEMMA OthersAside ==
  ASSUME \/ WriteBans \/ Tick \/ Stop \/ Start \/ UNCHANGED vars
         \/ \E c \in Cleaners : StartCleanup(c) \/ DeleteMessages(c) \/ DeleteBans(c)
         \/ \E q \in Readers : Read(q)
  PROVE  Aside
<1>1. UNCHANGED <<wal, records>>
  <2>1. ASSUME NEW c \in Cleaners, StartCleanup(c) \/ DeleteMessages(c) \/ DeleteBans(c)
        PROVE  UNCHANGED <<wal, records>>
    BY <2>1 DEF StartCleanup, DeleteMessages, DeleteBans
  <2>2. ASSUME NEW q \in Readers, Read(q) PROVE UNCHANGED <<wal, records>>
    BY <2>2 DEF Read, BeginRead, FirstQuery, LastQuery, FailRead
  <2> QED BY <2>1, <2>2 DEF WriteBans, Tick, Stop, Start, vars
<1> QED BY <1>1 DEF Aside, Grows, records

\* Every step of the database is one of the promise.
LEMMA NextIsNext ==
  ASSUME DatabaseInv, Drafted, TypeOK, TypeOK', [Next]_vars
  PROVE  Log!LNext
<1>1. CASE Aside
  BY <1>1, SameShown DEF Aside
<1>2. ASSUME NEW r \in Records,
             Queue(r) \/ TakeRecord \/ InsertMessage(r) \/ InsertDelivery(r) \/ CommitRecord(r)
      PROVE  Log!LNext
  BY <1>1, <1>2, RecordingAside, CommitRecordAdds
<1>3. CASE TakeRecord
  <2>1. queue[1] \in Records
    BY <1>3 DEF TakeRecord, TypeOK
  <2> QED BY <1>2, <1>3, <2>1
<1>4. ASSUME NEW c \in Cleaners, Cleanup(c) PROVE Log!LNext
  <2>1. CASE CommitCleanup(c)
    <3>1. writer = c /\ wal' = Append(wal, draft) /\ made' = made /\ state' = state
          /\ reached' = reached
      BY <2>1 DEF CommitCleanup, Commit, records, DatabaseInv, UnderWay
    <3> QED BY <3>1, CommitDrops DEF Grows
  <2> QED BY <1>1, <1>4, <2>1, OthersAside DEF Cleanup
<1>5. CASE CommitBans
  BY <1>5, CommitDrops DEF CommitBans, Commit, records, Grows
<1>6. ASSUME NEW w, Fail(w) \/ Busy(w) PROVE Log!LNext
  BY <1>1, <1>6, GivingUpAside DEF Fail, Busy
<1> QED BY <1>1, <1>2, <1>3, <1>4, <1>5, <1>6, OthersAside, EndingsEnd, CheckpointsChecked
        DEF Next, RecordWorker

\* At first nothing is shown.
LEMMA InitIsInit == Init => Log!LInit
<1> SUFFICES ASSUME Init PROVE Log!LInit
  OBVIOUS
<1>1. Len(wal) = 1 /\ wal[1] = Empty
  BY DEF Init
<1>2. PushesIn(Empty) = {} /\ Settlements = {}
  BY DEF Init, Empty, PushesIn, Settlements
<1>3. Shown = <<{}>>
  BY <1>1, <1>2 DEF Shown
<1> QED BY <1>2, <1>3 DEF Log!LInit, Shown

\* The database keeps the promise of PushLog, for any number of records,
\* channels, cleaners and days: each push is added whole and once, what a cleanup
\* drops is older than all that it leaves, and only a failure of the power takes
\* back commits, the newest first (sqlite.go:244-317, 388-424).
THEOREM Implements == Spec => ImplementsPushLog
<1>1. Init => Log!LInit
  BY InitIsInit
<1>2. DatabaseInv /\ Drafted /\ TypeOK /\ TypeOK' /\ [Next]_vars => [Log!LNext]_Log!lvars
  BY NextIsNext
<1> QED BY <1>1, <1>2, Invariance, DraftsKeepToTheirOwn, Typing, PTL
        DEF Spec, ImplementsPushLog, Log!LSpec
=============================================================================
