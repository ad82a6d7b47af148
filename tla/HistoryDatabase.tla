--------------------------- MODULE HistoryDatabase ---------------------------
(***************************************************************************)
(* The transactions of store.sqliteStore on its database, statement by     *)
(* statement: the record worker, the writes of ban rows, the cleanups that *)
(* a page or the maintenance goroutine of app.New asks for, and the pages  *)
(* that read.  The process may crash between any two statements and the    *)
(* machine may lose its power; the next start refuses a database in which  *)
(* it finds a message without deliveries or a row without its message.     *)
(*                                                                         *)
(* SQLite is taken at its word (external): one write transaction at a      *)
(* time, a snapshot for each reader, and with journal_mode(WAL) and        *)
(* synchronous(NORMAL) a log of commits of which a power failure may lose  *)
(* those since the last checkpoint, the newest first.                      *)
(***************************************************************************)
EXTENDS Integers, Sequences, FiniteSets

CONSTANTS
  Records,       \* pushes that a handler passes to Record
  Channels,      \* the channels a push may have reached
  IP,            \* keys of ban rows
  Cleaners,      \* who cleans up: requests of the page, and Maintenance
  Maintenance,
  KeepDays,      \* the values of keep_days and cleanup_days in use
  Readers,       \* requests for the list, the summary or the trends
  Offsets,       \* of the pages asked for
  PageSize,
  Day,           \* a day in ticks of the clock
  Longest,       \* the longest time.Duration in ticks: 2^63 - 1 nanoseconds
  Casts,         \* bound: who takes part at once, for how long, with what losses
  MaxTime,       \* bound: the clock
  MaxLog         \* bound: commits between two checkpoints

ASSUME CleanersAssumption == /\ Maintenance \in Cleaners
                             /\ {"record", "bans", "none"} \cap Cleaners = {}
ASSUME CastsAssumption    ==
  Casts \subseteq [who    : SUBSET (Records \cup IP \cup Cleaners \cup Readers),
                   time   : 0 .. MaxTime,
                   losses : Nat]
ASSUME DaysAssumption     == /\ KeepDays \subseteq Nat /\ Day \in Nat \ {0}
                             /\ Longest \in Nat /\ MaxTime \in Nat
ASSUME FiniteAssumption   == IsFiniteSet(IP)
ASSUME PagesAssumption    == Offsets \subseteq Nat /\ PageSize \in Nat \ {0}

VARIABLES
  cast,     \* who takes part, until when, and how many losses there may be
  up,       \* "up", "stopping" (the deferred cleanup), "down" or "refused"
  copying,  \* recordChannelMessages, read from the configuration at the start
  now,
  losses,   \* crashes and power failures so far
  wal,      \* the tables after each commit since the last checkpoint
  state,    \* of each record: "new", "queued", "hand" or "done"
  made,     \* msg.CreatedAt
  reached,  \* the channels of its deliveries
  queue     \* recordCh

\* The transaction that holds the write lock, and what the cleaners are about.
VARIABLES
  writer,   \* "none", "record", "bans" or a cleaner
  draft,    \* the tables as it sees them
  left,     \* deliveries the record worker has yet to insert
  step,     \* of each cleaner: "idle", "ready", "messages" or "bans"
  before    \* its cutoff

\* A reader: what it asks for, where its page begins or what the clock said, its
\* snapshot, and what it was told.
VARIABLES asks, arg, snap, told

\* What nobody in the program remembers.
VARIABLES
  kept,     \* records committed, and not lost with the power
  least     \* the fewest days any cleanup so far was told to keep

control  == <<cast, up, copying, losses>>
records  == <<state, made, reached, queue>>
writing  == <<writer, draft, left>>
cleaning == <<step, before>>
reading  == <<asks, arg, snap, told>>
ghosts   == <<kept, least>>
vars     == <<control, now, wal, records, writing, cleaning, reading, ghosts>>
-----------------------------------------------------------------------------
(* The tables. *)

\* A ban row is its time: last_seen and updated_at, written up to a second apart.
NoRow == -1

Copies == [id : Nat, of : Records, chan : Channels]

FiniteSubsets(S) == {s \in SUBSET S : IsFiniteSet(s)}

Tables == [messages   : SUBSET Records,
           deliveries : SUBSET (Records \X Channels),
           copies     : FiniteSubsets(Copies),
           serial     : Nat,
           bans       : [IP -> NoRow .. MaxTime]]

Empty == [messages |-> {}, deliveries |-> {}, copies |-> {}, serial |-> 0,
          bans |-> [i \in IP |-> NoRow]]

DB == wal[Len(wal)]

Delivered(t, r) == {c \in Channels : <<r, c>> \in t.deliveries}
Copied(t, r)    == {c \in Channels : \E row \in t.copies : row.of = r /\ row.chan = c}

\* What verifyPragmas looks for: orphans, and messages without deliveries.
Accepted(t) ==
  /\ \A d \in t.deliveries : d[1] \in t.messages
  /\ \A row \in t.copies : row.of \in t.messages
  /\ \A r \in t.messages : Delivered(t, r) # {}

Infinite == MaxTime + 1
NoAnswer == [kind |-> "none", first |-> 0, last |-> {}, second |-> 0]

Init ==
  /\ cast \in Casts
  /\ up = "up"
  /\ copying \in BOOLEAN
  /\ now = 0
  /\ losses = 0
  /\ wal = <<Empty>>
  /\ state = [r \in Records |-> "new"]
  /\ made = [r \in Records |-> 0]
  /\ reached = [r \in Records |-> {}]
  /\ queue = << >>
  /\ writer = "none"
  /\ draft = Empty
  /\ left = {}
  /\ step = [c \in Cleaners |-> "idle"]
  /\ before = [c \in Cleaners |-> 0]
  /\ asks = [q \in Readers |-> "none"]
  /\ arg = [q \in Readers |-> 0]
  /\ snap = [q \in Readers |-> Empty]
  /\ told = [q \in Readers |-> NoAnswer]
  /\ kept = {}
  /\ least = Infinite

Open == up \in {"up", "stopping"}
-----------------------------------------------------------------------------
(* Transactions.  Each statement but the first finds the lock held. *)

\* The first statement takes the lock and sees what was committed last.
Locks(w) == Open /\ writer = "none" /\ Len(wal) <= MaxLog /\ writer' = w

Leaves ==
  /\ writer' = "none"
  /\ draft' = Empty
  /\ left' = {}

Commit ==
  /\ wal' = Append(wal, draft)
  /\ Leaves

\* The deferred Rollback, and the error goes to the log or the client.
GiveUp(w) ==
  /\ state' = IF w = "record"
                THEN [r \in Records |-> IF state[r] = "hand" THEN "done" ELSE state[r]]
                ELSE state
  /\ step' = IF w \in Cleaners THEN [step EXCEPT ![w] = "idle"] ELSE step
  /\ before' = IF w \in Cleaners THEN [before EXCEPT ![w] = 0] ELSE before
  /\ UNCHANGED <<control, now, wal, made, reached, queue, reading, ghosts>>

\* Slip: the transaction is left open.
FailHolding(w) ==
  /\ Open
  /\ writer = w
  /\ GiveUp(w)
  /\ UNCHANGED writing

\* A statement fails, or the client is gone.
Fail(w) ==
  /\ Open
  /\ writer = w
  /\ Leaves
  /\ GiveUp(w)

\* The first statement waited for another's lock longer than busy_timeout.
Busy(w) ==
  /\ Open
  /\ writer \notin {"none", w}
  /\ GiveUp(w)
  /\ UNCHANGED writing
-----------------------------------------------------------------------------
(* Record and the record worker. *)

\* validateRecord: names and statuses are never empty in what handlers pass.
Valid(cs) == cs # {}

Queue(r) ==
  /\ Open
  /\ r \in cast.who /\ state[r] = "new"
  /\ \E cs \in SUBSET Channels :
       /\ reached' = [reached EXCEPT ![r] = cs]
       /\ IF Valid(cs)
            THEN state' = [state EXCEPT ![r] = "queued"] /\ queue' = Append(queue, r)
            ELSE state' = [state EXCEPT ![r] = "done"] /\ queue' = queue
  /\ made' = [made EXCEPT ![r] = now]
  /\ UNCHANGED <<control, now, wal, writing, cleaning, reading, ghosts>>

TakeRecord ==
  /\ Open
  /\ queue # << >>
  /\ \A r \in Records : state[r] # "hand"
  /\ state' = [state EXCEPT ![Head(queue)] = "hand"]
  /\ queue' = Tail(queue)
  /\ UNCHANGED <<control, now, wal, made, reached, writing, cleaning, reading, ghosts>>

\* Slip: the message is committed by itself.
InsertMessageAlone(r) ==
  /\ state[r] = "hand"
  /\ Locks("record")
  /\ draft' = [DB EXCEPT !.messages = @ \cup {r}]
  /\ left' = reached[r]
  /\ wal' = Append(wal, draft')
  /\ UNCHANGED <<control, now, records, cleaning, reading, ghosts>>

InsertMessage(r) ==
  /\ state[r] = "hand"
  /\ Locks("record")
  /\ draft' = [DB EXCEPT !.messages = @ \cup {r}]
  /\ left' = reached[r]
  /\ UNCHANGED <<control, now, wal, records, cleaning, reading, ghosts>>

\* Slip: an insert that fails is passed over.
InsertDeliveryLoose(r) ==
  /\ Open
  /\ writer = "record" /\ state[r] = "hand"
  /\ \E c \in left :
       /\ \/ draft' = [draft EXCEPT !.deliveries = @ \cup {<<r, c>>}]
          \/ draft' = draft
       /\ left' = left \ {c}
  /\ UNCHANGED <<control, now, wal, records, writer, cleaning, reading, ghosts>>

\* The rows of one channel; AUTOINCREMENT numbers the copies.
InsertDelivery(r) ==
  /\ Open
  /\ writer = "record" /\ state[r] = "hand"
  /\ \E c \in left :
       /\ draft' = [draft EXCEPT
                      !.deliveries = @ \cup {<<r, c>>},
                      !.copies = IF copying
                                   THEN @ \cup {[id |-> draft.serial, of |-> r, chan |-> c]}
                                   ELSE @,
                      !.serial = IF copying THEN @ + 1 ELSE @]
       /\ left' = left \ {c}
  /\ UNCHANGED <<control, now, wal, records, writer, cleaning, reading, ghosts>>

\* Slip: the worker does not know that it is done, and inserts again later.
CommitRecordUnnoticed(r) ==
  /\ Open
  /\ writer = "record" /\ state[r] = "hand"
  /\ left = {}
  /\ Commit
  /\ state' = [state EXCEPT ![r] = "queued"]
  /\ queue' = Append(queue, r)
  /\ kept' = kept \cup {r}
  /\ UNCHANGED <<control, now, made, reached, cleaning, reading, least>>

CommitRecord(r) ==
  /\ Open
  /\ writer = "record" /\ state[r] = "hand"
  /\ left = {}
  /\ Commit
  /\ state' = [state EXCEPT ![r] = "done"]
  /\ kept' = kept \cup {r}
  /\ UNCHANGED <<control, now, made, reached, queue, cleaning, reading, least>>
-----------------------------------------------------------------------------
(* flushBanOps, for the ban worker or a goroutine that found its queue full. *)

WriteBans ==
  /\ Locks("bans")
  /\ \E i \in IP \cap cast.who, row \in {NoRow, now} : draft' = [DB EXCEPT !.bans[i] = row]
  /\ UNCHANGED <<control, now, wal, left, records, cleaning, reading, ghosts>>

CommitBans ==
  /\ Open
  /\ writer = "bans"
  /\ Commit
  /\ UNCHANGED <<control, now, records, cleaning, reading, ghosts>>
-----------------------------------------------------------------------------
(* Cleanup. *)

\* What a time.Duration holds of a product that may be too large for it.
Duration(t) == ((t + Longest + 1) % (2 * (Longest + 1))) - (Longest + 1)

\* A request of the page, or a tick of the maintenance goroutine, which may find one beside
\* its canceled context and does not run at all if it is to keep no day.
StartCleanup(c) ==
  /\ Open
  /\ c \in cast.who /\ step[c] = "idle"
  /\ \E days \in KeepDays :
       /\ c = Maintenance => days > 0
       /\ before' = [before EXCEPT ![c] = now + Duration(-(days * Day))]
       /\ least' = IF days < least THEN days ELSE least
  /\ step' = [step EXCEPT ![c] = "ready"]
  /\ UNCHANGED <<control, now, wal, records, writing, reading, kept>>

\* Slip: the messages of the cutoff's own tick go as well.
OldAt(c) == {r \in DB.messages : made[r] <= before[c]}

Old(c) == {r \in DB.messages : made[r] < before[c]}

\* DELETE FROM messages, and ON DELETE CASCADE on every connection.
DeleteMessages(c) ==
  /\ step[c] = "ready"
  /\ Locks(c)
  /\ draft' = [DB EXCEPT !.messages = @ \ Old(c),
                         !.deliveries = {d \in @ : d[1] \notin Old(c)},
                         !.copies = {row \in @ : row.of \notin Old(c)}]
  /\ step' = [step EXCEPT ![c] = "messages"]
  /\ UNCHANGED <<control, now, wal, left, records, before, reading, ghosts>>

DeleteBans(c) ==
  /\ Open
  /\ step[c] = "messages"
  /\ draft' = [draft EXCEPT !.bans =
                 [i \in IP |-> IF @[i] < before[c] THEN NoRow ELSE @[i]]]
  /\ step' = [step EXCEPT ![c] = "bans"]
  /\ UNCHANGED <<control, now, wal, writer, left, records, before, reading, ghosts>>

CommitCleanup(c) ==
  /\ Open
  /\ step[c] = "bans"
  /\ Commit
  /\ step' = [step EXCEPT ![c] = "idle"]
  /\ before' = [before EXCEPT ![c] = 0]
  /\ UNCHANGED <<control, now, records, reading, ghosts>>
-----------------------------------------------------------------------------
(* ListChannelMessages, Summary and BanTrends. *)

Kinds == {"page", "summary", "trends"}

\* BanTrends looks at the clock before its first query.
BeginRead(q) ==
  /\ Open
  /\ q \in cast.who /\ asks[q] = "none" /\ told[q] = NoAnswer
  /\ \E kind \in Kinds :
       /\ asks' = [asks EXCEPT ![q] = kind]
       /\ \E a \in IF kind = "page" THEN Offsets ELSE {now} : arg' = [arg EXCEPT ![q] = a]
  /\ UNCHANGED <<control, now, wal, records, writing, cleaning, snap, told, ghosts>>

Midnight(n)      == (n \div Day) * Day
Changed(t, a, b) == Cardinality({i \in IP : t.bans[i] \in a .. b})

\* The list is ordered by time and number, newest first.
Newer(x, y)   == made[x.of] > made[y.of] \/ (made[x.of] = made[y.of] /\ x.id > y.id)
Rank(t, x)    == Cardinality({y \in t.copies : Newer(y, x)})
Page(t, from) == {x \in t.copies : Rank(t, x) \in from .. from + PageSize - 1}

\* The first query takes the snapshot: COUNT(*), or the changes by hour, of which
\* today's are kept here.
FirstQuery(q) ==
  /\ Open
  /\ asks[q] # "none" /\ told[q] = NoAnswer
  /\ snap' = [snap EXCEPT ![q] = DB]
  /\ told' = [told EXCEPT ![q] =
                [kind |-> asks[q], second |-> 0, last |-> {},
                 first |-> IF asks[q] = "trends" THEN Changed(DB, Midnight(arg[q]), arg[q])
                           ELSE Cardinality(DB.copies)]]
  /\ UNCHANGED <<control, now, wal, records, writing, cleaning, asks, arg, ghosts>>

\* Slip: the queries after the first are not in its transaction.
ViewNow(q) == DB

View(q) == snap[q]

\* Today's rows by the clock of this moment, and the time of the newest, if any.
Today(t)  == {x \in t.copies : made[x.of] >= Midnight(now)}
Newest(t) == {m \in 0 .. MaxTime : /\ \E x \in t.copies : made[x.of] = m
                                   /\ \A x \in t.copies : made[x.of] <= m}

\* The other queries: the page, the newest row and today's rows, or the changes
\* by day, of which today's are kept here.
LastQuery(q) ==
  /\ Open
  /\ told[q].kind # "none" /\ asks[q] # "none"
  /\ told' = [told EXCEPT
       ![q].second = CASE asks[q] = "page"    -> Cardinality(Page(View(q), arg[q]))
                       [] asks[q] = "summary" -> Cardinality(Today(View(q)))
                       [] asks[q] = "trends"  ->
                            Changed(View(q), Midnight(arg[q]), Midnight(arg[q]) + Day - 1),
       ![q].last = IF asks[q] = "summary" THEN Newest(View(q)) ELSE {}]
  /\ asks' = [asks EXCEPT ![q] = "none"]
  /\ snap' = [snap EXCEPT ![q] = Empty]
  /\ UNCHANGED <<control, now, wal, records, writing, cleaning, arg, ghosts>>

\* A query fails, or the client is gone.
FailRead(q) ==
  /\ Open
  /\ asks[q] # "none"
  /\ asks' = [asks EXCEPT ![q] = "none"]
  /\ snap' = [snap EXCEPT ![q] = Empty]
  /\ told' = [told EXCEPT ![q] = NoAnswer]
  /\ UNCHANGED <<control, now, wal, records, writing, cleaning, arg, ghosts>>
-----------------------------------------------------------------------------
(* The life of the process. *)

Tick ==
  /\ now < cast.time
  /\ now' = now + 1
  /\ UNCHANGED <<control, wal, records, writing, cleaning, reading, ghosts>>

\* wal_autocheckpoint: what is committed so far is on the disk.
Checkpoint ==
  /\ Open
  /\ Len(wal) > 1
  /\ wal' = <<DB>>
  /\ UNCHANGED <<control, now, records, writing, cleaning, reading, ghosts>>

\* The queue, the open transaction and the requests are gone.
Ends ==
  /\ up' = "down"
  /\ state' = [r \in Records |-> IF state[r] = "new" THEN "new" ELSE "done"]
  /\ queue' = << >>
  /\ Leaves
  /\ step' = [c \in Cleaners |-> "idle"]
  /\ before' = [c \in Cleaners |-> 0]
  /\ asks' = [q \in Readers |-> "none"]
  /\ snap' = [q \in Readers |-> Empty]
  /\ told' = [q \in Readers |-> NoAnswer]
  /\ arg' = [q \in Readers |-> 0]
  /\ UNCHANGED <<cast, copying, now, made, reached, least>>

Crash ==
  /\ Open
  /\ losses < cast.losses
  /\ losses' = losses + 1
  /\ Ends
  /\ UNCHANGED <<wal, kept>>

PowerLoss ==
  /\ Open
  /\ losses < cast.losses
  /\ losses' = losses + 1
  /\ \E k \in 1 .. Len(wal) :
       /\ wal' = SubSeq(wal, 1, k)
       /\ kept' = kept \cap wal[k].messages
  /\ Ends

Stop ==
  /\ up = "up"
  /\ up' = "stopping"
  /\ UNCHANGED <<cast, copying, losses, now, wal, records, writing, cleaning, reading, ghosts>>

\* cleanupWG.Wait, then Close, which waits for both workers and cuts off the
\* requests that still use the database.  The last connection checkpoints.
Close ==
  /\ up = "stopping"
  /\ step[Maintenance] = "idle"
  /\ \A r \in Records : state[r] \in {"new", "done"}
  /\ writer # "bans"
  /\ wal' = <<DB>>
  /\ Ends
  /\ UNCHANGED <<losses, kept>>

\* NewSQLite: the tables are there already; verifyPragmas looks at the rows.
Start ==
  /\ up = "down"
  /\ up' = IF Accepted(DB) THEN "up" ELSE "refused"
  /\ copying' \in BOOLEAN
  /\ UNCHANGED <<cast, losses, now, wal, records, writing, cleaning, reading, ghosts>>

RecordWorker ==
  \/ TakeRecord
  \/ \E r \in Records : InsertMessage(r) \/ InsertDelivery(r) \/ CommitRecord(r)

Cleanup(c) == StartCleanup(c) \/ DeleteMessages(c) \/ DeleteBans(c) \/ CommitCleanup(c)
Read(q)    == BeginRead(q) \/ FirstQuery(q) \/ LastQuery(q) \/ FailRead(q)

Next ==
  \/ \E r \in Records : Queue(r)
  \/ RecordWorker
  \/ WriteBans
  \/ CommitBans
  \/ \E c \in Cleaners : Cleanup(c)
  \/ \E w \in {"record", "bans"} \cup Cleaners : Fail(w)
  \/ \E w \in {"record"} \cup Cleaners : Busy(w)
  \/ \E q \in Readers : Read(q)
  \/ Tick
  \/ Checkpoint
  \/ Crash
  \/ PowerLoss
  \/ Stop
  \/ Close
  \/ Start

Spec == Init /\ [][Next]_vars
-----------------------------------------------------------------------------
Answers == [kind : Kinds \cup {"none"}, first : Nat, last : SUBSET (0 .. MaxTime), second : Nat]

\* Every variable stays in its domain; the worker has one record at a time, and
\* the write lock is held only by a transaction that is under way
\* (sqlite.go:252-254, 331-344, 401-403).
TypeOK ==
  /\ cast \in Casts
  /\ up \in {"up", "stopping", "down", "refused"}
  /\ copying \in BOOLEAN
  /\ now \in 0 .. MaxTime
  /\ losses \in Nat
  /\ wal \in Seq(Tables) /\ wal # << >>
  /\ state \in [Records -> {"new", "queued", "hand", "done"}]
  /\ made \in [Records -> 0 .. MaxTime]
  /\ reached \in [Records -> SUBSET Channels]
  /\ queue \in Seq(Records)
  /\ writer \in {"none", "record", "bans"} \cup Cleaners
  /\ draft \in Tables
  /\ left \in SUBSET Channels
  /\ step \in [Cleaners -> {"idle", "ready", "messages", "bans"}]
  /\ before \in [Cleaners -> Int]
  /\ asks \in [Readers -> Kinds \cup {"none"}]
  /\ arg \in [Readers -> Nat]
  /\ snap \in [Readers -> Tables]
  /\ told \in [Readers -> Answers]
  /\ kept \in SUBSET Records
  /\ least \in Nat
  /\ \A r, s \in Records : state[r] = "hand" /\ state[s] = "hand" => r = s
  /\ writer = "record" => \E r \in Records : state[r] = "hand"
  /\ writer \in Cleaners => step[writer] \in {"messages", "bans"}

\* Whatever the moment of a crash or of a power failure, the next start finds no
\* orphan and no message without deliveries (sqlite.go:141-161).
StartsAgain == up # "refused"

WholeFor(t, r) ==
  LET all == IF r \in t.messages THEN reached[r] ELSE {}
  IN  Delivered(t, r) = all /\ Copied(t, r) \in {{}, all}

\* A push is in every committed version with each of its deliveries and all of
\* its copies or none, or not at all, whatever fails, crashes or is cleaned up
\* meanwhile (sqlite.go:244-317).
PushesAreWhole == \A k \in 1 .. Len(wal) : \A r \in Records : WholeFor(wal[k], r)

\* A push that was committed, and not lost with the power, is there for as many
\* days as the least that any cleanup was told to keep (api.go:206-213,
\* app.go:137).  It fails where days are too many for a time.Duration.
KeptForDays ==
  \A r \in kept : r \in DB.messages \/ now - made[r] > least * Day

\* The answer to a request for the page that begins there fits together.
Agrees(a, from) ==
  LET rest == a.first - from
  IN  CASE a.kind = "none"    -> TRUE
        [] a.kind = "page"    -> a.second = IF rest < 0 THEN 0
                                            ELSE IF rest < PageSize THEN rest ELSE PageSize
        [] a.kind = "summary" -> a.second <= a.first /\ (a.last = {} <=> a.first = 0)
        [] a.kind = "trends"  -> a.first <= a.second

\* The parts of an answer fit together whatever is written between two queries:
\* a page has the rows that its total leaves it, a summary no newest row without
\* a total and no more of today than in all, and the day of the trends has at
\* least what its hours have (sqlite.go:519-617, 426-517).
ReadsAgree == \A q \in Readers : asks[q] = "none" => Agrees(told[q], arg[q])

\* What the promise of PushLog sees of the tables: the rows of each push.
PushOf(t, r)  == [of |-> r, at |-> made[r], to |-> Delivered(t, r), copied |-> Copied(t, r)]
PushesIn(t)   == {PushOf(t, r) : r \in t.messages}
Settlements   == {r \in Records : state[r] = "done"}

Log == INSTANCE PushLog WITH Times <- 0 .. MaxTime,
                             log   <- [k \in 1 .. Len(wal) |-> PushesIn(wal[k])],
                             done  <- Settlements

\* However the statements of the record worker, of ban writes and of cleanups
\* interleave, fail, crash or lose their power, the database goes from one set of
\* whole pushes to the next: a push appears once and never comes back, a cleanup
\* drops the oldest, and only power takes back commits, the newest first
\* (sqlite.go:244-317, 388-424).
ImplementsPushLog == Log!LSpec
-----------------------------------------------------------------------------
(* The strengthening that makes the first three of these inductive. *)

\* What is committed came from a record that the worker is done with.
Settled(t) == \A r \in t.messages : state[r] = "done" /\ reached[r] # {}

Versions == \A k \in 1 .. Len(wal) : Settled(wal[k]) /\ \A r \in Records : WholeFor(wal[k], r)

\* Records wait in line once each, and only valid ones.
Line ==
  /\ \A i \in 1 .. Len(queue) : state[queue[i]] = "queued"
  /\ \A i, j \in 1 .. Len(queue) : queue[i] = queue[j] => i = j
  /\ \A r \in Records : state[r] \in {"queued", "hand"} => reached[r] # {}
  /\ \A r \in kept : state[r] = "done"

\* The worker has inserted what is not left.
Inserting(r) ==
  LET inserted == reached[r] \ left
  IN  /\ left \subseteq reached[r]
      /\ draft.messages = DB.messages \cup {r}
      /\ Delivered(draft, r) = inserted
      /\ Copied(draft, r) = IF copying THEN inserted ELSE {}
      /\ \A s \in Records \ {r} : WholeFor(draft, s)

\* Everybody else keeps pushes whole, and only a cleanup drops any.
Keeping ==
  /\ draft.messages \subseteq DB.messages
  /\ \A r \in Records : WholeFor(draft, r)
  /\ \A r \in DB.messages \ draft.messages : writer \in Cleaners /\ made[r] < before[writer]

UnderWay ==
  /\ writer # "none" => Open
  /\ \A c \in Cleaners : step[c] \in {"messages", "bans"} => writer = c
  /\ writer = "record" => \A r \in Records : state[r] = "hand" => Inserting(r)
  /\ writer \in {"bans"} \cup Cleaners => Keeping

\* No number of days in use is too large for a Duration.
DurationsFit == \A days \in KeepDays : days * Day <= Longest

Cutoffs ==
  DurationsFit => \A c \in Cleaners : step[c] # "idle" => before[c] + least * Day <= now

KeptIfFits == DurationsFit => KeptForDays

\* The inductive invariant behind StartsAgain, PushesAreWhole and KeptForDays.
DatabaseInv == StartsAgain /\ Versions /\ Line /\ UnderWay /\ Cutoffs /\ KeptIfFits
-----------------------------------------------------------------------------
(* The strengthening that makes each commit a step of PushLog. *)

\* The messages that a transaction will have left or added when it commits.
Intended ==
  CASE writer = "record"   -> DB.messages \cup {r \in Records : state[r] = "hand"}
    [] writer = "bans"     -> DB.messages
    [] writer \in Cleaners -> DB.messages \ Old(writer)

\* It changes no rows of a push that was there.
Drafted ==
  writer # "none" =>
    /\ draft.messages = Intended
    /\ \A r \in DB.messages \cap draft.messages :
         Delivered(draft, r) = Delivered(DB, r) /\ Copied(draft, r) = Copied(DB, r)
-----------------------------------------------------------------------------
(* The strengthening that makes ReadsAgree inductive. *)

\* Copies are told apart by their numbers, of which the next is still free.
Numbered(t) == /\ \A x \in t.copies : x.id < t.serial
               /\ \A x, y \in t.copies : x.id = y.id => x = y

AllNumbered == /\ \A k \in 1 .. Len(wal) : Numbered(wal[k])
               /\ Numbered(draft)
               /\ \A q \in Readers : Numbered(snap[q])

\* Between its queries a reader knows of its snapshot what the first one told it.
BetweenQueries(q) ==
  asks[q] # "none" /\ told[q].kind # "none" =>
    /\ told[q].kind = asks[q]
    /\ told[q].first = IF asks[q] = "trends" THEN Changed(snap[q], Midnight(arg[q]), arg[q])
                       ELSE Cardinality(snap[q].copies)

\* The inductive invariant behind ReadsAgree.
ReadingInv == AllNumbered /\ (\A q \in Readers : BetweenQueries(q)) /\ ReadsAgree
=============================================================================
