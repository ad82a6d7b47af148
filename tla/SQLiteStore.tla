----------------------------- MODULE SQLiteStore -----------------------------
(***************************************************************************)
(* The two write queues of store.sqliteStore and its Close: push history   *)
(* goes through a channel to one worker that commits a transaction for     *)
(* each record, changes of ban entries go through another to a worker that *)
(* commits them in batches.                                                *)
(*                                                                         *)
(* Close runs while handlers still do: main waits for them only as long as *)
(* the shutdown grace.  The history is guarded by recordMu and             *)
(* recordClosed, the ban queue by nothing.                                 *)
(***************************************************************************)
EXTENDS Naturals, Sequences

CONSTANTS
  Records,      \* pushes with a result, each recorded by its own handler
  NoRecord,
  RecordQueue,  \* recordQueueSize
  IP,           \* a kind and an address: the key of a ban entry
  Banners,      \* goroutines that change ban entries
  BanQueue,     \* banQueueSize
  MaxBatch,     \* banMaxBatch
  MaxChanges    \* bound: changes of each ban entry

ASSUME RecordAssumption == NoRecord \notin Records
ASSUME SizeAssumption   == /\ {RecordQueue, BanQueue, MaxBatch} \subseteq Nat \ {0}
                           /\ MaxChanges \in Nat

VARIABLES
  pc,       \* of Record: idle, sending, accepted or refused
  recQ,     \* recordCh
  recLoc,   \* the record worker: run, drain or gone
  hand,     \* the record it writes
  stored, failed,   \* transactions committed, and given up
  closer    \* Close: "open", "locking", "records", "bans", "closed"

recVars == <<pc, recQ, recLoc, hand, stored, failed>>

\* Changes of an entry are numbered; its row holds the number last written.
VARIABLES
  ver,      \* the entry in memory
  row,      \* the entry in the table ip_bans
  op,       \* the change a goroutine has yet to hand over
  direct,   \* goroutines that found the queue full
  banQ,     \* banCh
  batch,    \* what the ban worker has collected
  banLoc    \* the ban worker: run, drain, last or gone

\* What nobody in the program remembers.
VARIABLES
  sent,        \* the newest change handed over, per entry
  disordered,  \* entries whose changes were handed over out of order
  spoilt       \* entries whose latest write failed

banVars == <<ver, row, op, direct, banQ, batch, banLoc, sent, disordered, spoilt>>
vars    == <<recVars, closer, banVars>>

Versions == 0 .. MaxChanges
NoOp     == [ip |-> NoRecord, ver |-> 0]

Init ==
  /\ pc = [w \in Records |-> "idle"]
  /\ recQ = << >>
  /\ recLoc = "run"
  /\ hand = NoRecord
  /\ stored = {}
  /\ failed = {}
  /\ closer = "open"
  /\ ver = [i \in IP |-> 0]
  /\ row = [i \in IP |-> 0]
  /\ op = [b \in Banners |-> NoOp]
  /\ direct = {}
  /\ banQ = << >>
  /\ batch = << >>
  /\ banLoc = "run"
  /\ sent = [i \in IP |-> 0]
  /\ disordered = {}
  /\ spoilt = {}

recordClosed == closer \in {"records", "bans", "closed"}
-----------------------------------------------------------------------------
(* Record. *)

\* RLock, which waits behind a Lock that waits, and the look at recordClosed.
Enter(w) ==
  /\ pc[w] = "idle"
  /\ closer # "locking"
  /\ pc' = [pc EXCEPT ![w] = IF recordClosed THEN "refused" ELSE "sending"]
  /\ UNCHANGED <<recQ, recLoc, hand, stored, failed, closer, banVars>>

\* The send, still under the read lock, and RUnlock.
Send(w) ==
  /\ pc[w] = "sending"
  /\ Len(recQ) < RecordQueue
  /\ recQ' = Append(recQ, w)
  /\ pc' = [pc EXCEPT ![w] = "accepted"]
  /\ UNCHANGED <<recLoc, hand, stored, failed, closer, banVars>>
-----------------------------------------------------------------------------
(* The record worker. *)

TakeRecord ==
  /\ recLoc \in {"run", "drain"}
  /\ hand = NoRecord
  /\ recQ # << >>
  /\ hand' = Head(recQ)
  /\ recQ' = Tail(recQ)
  /\ UNCHANGED <<pc, recLoc, stored, failed, closer, banVars>>

\* recordSync: one transaction, whose failure is logged and forgotten.
WriteRecord ==
  /\ hand # NoRecord
  /\ \/ stored' = stored \cup {hand} /\ UNCHANGED failed
     \/ failed' = failed \cup {hand} /\ UNCHANGED stored
  /\ hand' = NoRecord
  /\ UNCHANGED <<pc, recQ, recLoc, closer, banVars>>

\* select { <-recordStopCh }
StopRecords ==
  /\ recLoc = "run"
  /\ hand = NoRecord
  /\ recordClosed
  /\ recLoc' = "drain"
  /\ UNCHANGED <<pc, recQ, hand, stored, failed, closer, banVars>>

RecordsDrained ==
  /\ recLoc = "drain"
  /\ hand = NoRecord
  /\ recQ = << >>
  /\ recLoc' = "gone"
  /\ UNCHANGED <<pc, recQ, hand, stored, failed, closer, banVars>>
-----------------------------------------------------------------------------
(* Changes of ban entries and the queue they go to. *)

Waiting     == batch \o banQ
Pending(i)  == {k \in 1 .. Len(Waiting) : Waiting[k].ip = i}
Newer(i, v) == IF v > sent[i] THEN v ELSE sent[i]

\* RecordFailure, Reset, cleanup, IsBanned or an eviction under a shard lock.
Change(b) ==
  /\ op[b] = NoOp
  /\ \E i \in IP :
       /\ ver[i] < MaxChanges
       /\ ver' = [ver EXCEPT ![i] = @ + 1]
       /\ op' = [op EXCEPT ![b] = [ip |-> i, ver |-> ver[i] + 1]]
  /\ UNCHANGED <<row, direct, banQ, batch, banLoc, sent, disordered, spoilt, recVars, closer>>

\* After the unlock: enqueueBanOp, which does not wait and knows of no Close.
Enqueue(b) ==
  LET i == op[b].ip
  IN  /\ op[b] # NoOp
      /\ b \notin direct
      /\ IF Len(banQ) < BanQueue
           THEN /\ banQ' = Append(banQ, op[b])
                /\ sent' = [sent EXCEPT ![i] = Newer(i, op[b].ver)]
                /\ disordered' = IF op[b].ver < sent[i] THEN disordered \cup {i} ELSE disordered
                /\ op' = [op EXCEPT ![b] = NoOp]
                /\ UNCHANGED direct
           ELSE direct' = direct \cup {b} /\ UNCHANGED <<banQ, sent, disordered, op>>
      /\ UNCHANGED <<ver, row, batch, banLoc, spoilt, recVars, closer>>

Places(ops, i) == {k \in 1 .. Len(ops) : ops[k].ip = i}

\* Slip: the first change of an entry wins.
MergedFirst(ops, i) ==
  CHOOSE v \in Versions : \E k \in Places(ops, i) :
    v = ops[k].ver /\ \A j \in Places(ops, i) : k <= j

\* The map of flushBanOps: the last change of an entry wins.
Merged(ops, i) ==
  CHOOSE v \in Versions : \E k \in Places(ops, i) :
    v = ops[k].ver /\ \A j \in Places(ops, i) : j <= k

\* flushBanOps: one transaction, which may fail and does after Close.
Flush(ops) ==
  LET touched == {i \in IP : Places(ops, i) # {}}
  IN  \/ /\ closer # "closed"
         /\ row' = [i \in IP |-> IF i \in touched THEN Merged(ops, i) ELSE row[i]]
         /\ spoilt' = spoilt \ touched
      \/ spoilt' = spoilt \cup touched /\ UNCHANGED row

\* The queue was full: the change goes past the ones that wait in it.
Bypass(b) ==
  LET i == op[b].ip
  IN  /\ b \in direct
      /\ Flush(<<op[b]>>)
      /\ sent' = [sent EXCEPT ![i] = Newer(i, op[b].ver)]
      /\ disordered' = IF Pending(i) # {} \/ op[b].ver < sent[i] THEN disordered \cup {i}
                       ELSE disordered
      /\ op' = [op EXCEPT ![b] = NoOp]
      /\ direct' = direct \ {b}
      /\ UNCHANGED <<ver, banQ, batch, banLoc, recVars, closer>>
-----------------------------------------------------------------------------
(* The ban worker. *)

\* Slip: the batch is flushed one change late.
TakeBanLate ==
  /\ banLoc \in {"run", "drain"}
  /\ Len(batch) <= MaxBatch
  /\ banQ # << >>
  /\ batch' = Append(batch, Head(banQ))
  /\ banQ' = Tail(banQ)
  /\ UNCHANGED <<ver, row, op, direct, banLoc, sent, disordered, spoilt, recVars, closer>>

TakeBan ==
  /\ banLoc \in {"run", "drain"}
  /\ Len(batch) < MaxBatch
  /\ banQ # << >>
  /\ batch' = Append(batch, Head(banQ))
  /\ banQ' = Tail(banQ)
  /\ UNCHANGED <<ver, row, op, direct, banLoc, sent, disordered, spoilt, recVars, closer>>

\* A full batch, or a tick.
FlushBatch ==
  /\ batch # << >>
  /\ banLoc = "run" \/ (banLoc = "drain" /\ Len(batch) = MaxBatch)
  /\ Flush(batch)
  /\ batch' = << >>
  /\ UNCHANGED <<ver, op, direct, banQ, banLoc, sent, disordered, recVars, closer>>

\* select { <-banStopCh }
StopBans ==
  /\ banLoc = "run"
  /\ Len(batch) < MaxBatch
  /\ closer \in {"bans", "closed"}
  /\ banLoc' = "drain"
  /\ UNCHANGED <<ver, row, op, direct, banQ, batch, sent, disordered, spoilt, recVars, closer>>

\* Slip: the drain ends with a change, never with an empty queue.
BansDrainedBlocks ==
  /\ banLoc = "drain"
  /\ Len(batch) < MaxBatch
  /\ banQ # << >>
  /\ banLoc' = "last"
  /\ UNCHANGED <<ver, row, op, direct, banQ, batch, sent, disordered, spoilt, recVars, closer>>

BansDrained ==
  /\ banLoc = "drain"
  /\ Len(batch) < MaxBatch
  /\ banQ = << >>
  /\ banLoc' = "last"
  /\ UNCHANGED <<ver, row, op, direct, banQ, batch, sent, disordered, spoilt, recVars, closer>>

\* Slip: what the last batch holds is left.
LastFlushSkipped ==
  /\ banLoc = "last"
  /\ banLoc' = "gone"
  /\ UNCHANGED <<ver, row, op, direct, banQ, batch, sent, disordered, spoilt, recVars, closer>>

\* The default branch of the drain: flush what is left, and return.
LastFlush ==
  /\ banLoc = "last"
  /\ IF batch = << >> THEN UNCHANGED <<row, spoilt>> ELSE Flush(batch)
  /\ batch' = << >>
  /\ banLoc' = "gone"
  /\ UNCHANGED <<ver, op, direct, banQ, sent, disordered, recVars, closer>>
-----------------------------------------------------------------------------
(* Close. *)

Close ==
  /\ closer = "open"
  /\ closer' = "locking"
  /\ UNCHANGED <<recVars, banVars>>

\* Slip: Close does not take recordMu.
CloseRecordsUnlocked ==
  /\ closer = "locking"
  /\ closer' = "records"
  /\ UNCHANGED <<recVars, banVars>>

\* Lock, recordClosed, the stop of the record worker, Unlock.
CloseRecords ==
  /\ closer = "locking"
  /\ \A w \in Records : pc[w] # "sending"
  /\ closer' = "records"
  /\ UNCHANGED <<recVars, banVars>>

\* recordWG.Wait, then the stop of the ban worker.
CloseBans ==
  /\ closer = "records"
  /\ recLoc = "gone"
  /\ closer' = "bans"
  /\ UNCHANGED <<recVars, banVars>>

\* banWG.Wait, then the database.
CloseDB ==
  /\ closer = "bans"
  /\ banLoc = "gone"
  /\ closer' = "closed"
  /\ UNCHANGED <<recVars, banVars>>

RecordWorker == TakeRecord \/ WriteRecord \/ StopRecords \/ RecordsDrained
BanWorker    == TakeBan \/ FlushBatch \/ StopBans \/ BansDrained \/ LastFlush
Closing      == CloseRecords \/ CloseBans \/ CloseDB

Next ==
  \/ \E w \in Records : Enter(w) \/ Send(w)
  \/ RecordWorker
  \/ \E b \in Banners : Change(b) \/ Enqueue(b) \/ Bypass(b)
  \/ BanWorker
  \/ Close
  \/ Closing

\* Goroutines run and transactions end; nobody has to push, fail or close.
Spec ==
  /\ Init /\ [][Next]_vars
  /\ \A w \in Records : WF_vars(Send(w))
  /\ WF_vars(RecordWorker)
  /\ WF_vars(BanWorker)
  /\ WF_vars(Closing)
-----------------------------------------------------------------------------
Ops == [ip : IP, ver : 1 .. MaxChanges]

\* Every variable stays in its domain: no queue and no batch outgrows its size,
\* and only a goroutine with a change to hand over finds the queue full
\* (sqlite.go:49-54, 640-660).
TypeOK ==
  /\ pc \in [Records -> {"idle", "sending", "accepted", "refused"}]
  /\ recQ \in Seq(Records) /\ Len(recQ) <= RecordQueue
  /\ recLoc \in {"run", "drain", "gone"}
  /\ hand \in Records \cup {NoRecord}
  /\ stored \subseteq Records /\ failed \subseteq Records
  /\ closer \in {"open", "locking", "records", "bans", "closed"}
  /\ {ver, row, sent} \subseteq [IP -> Versions]
  /\ op \in [Banners -> Ops \cup {NoOp}]
  /\ direct \subseteq {b \in Banners : op[b] # NoOp}
  /\ banQ \in Seq(Ops) /\ Len(banQ) <= BanQueue
  /\ batch \in Seq(Ops) /\ Len(batch) <= MaxBatch
  /\ banLoc \in {"run", "drain", "last", "gone"}
  /\ disordered \subseteq IP /\ spoilt \subseteq IP

\* What the promise of History sees of this state.
HistoryPhase ==
  CASE ~recordClosed                   -> "open"
    [] recordClosed /\ recLoc # "gone" -> "closing"
    [] recordClosed /\ recLoc = "gone" -> "closed"

StatusOf(w) ==
  CASE pc[w] \in {"idle", "sending"} -> "new"
    [] pc[w] = "refused"             -> "refused"
    [] pc[w] = "accepted"            -> IF w \in stored THEN "stored"
                                        ELSE IF w \in failed THEN "failed" ELSE "taken"

Promise == INSTANCE History WITH phase  <- HistoryPhase,
                                 status <- [w \in Records |-> StatusOf(w)]

\* However calls of Record interleave with Close, a record whose handler was
\* told nil is written, or its transaction tried, before the database is closed;
\* after Close has the lock every call is refused (sqlite.go:226-242, 331-357,
\* 730-743).
ImplementsHistory == Promise!HSpec

\* When no change of an entry is under way the row is the entry in memory,
\* unless its last transaction failed or its changes were handed over out of
\* order: past a full queue, or by two goroutines that left the shard lock in
\* one order and came to the queue in the other (sqlite.go:664-728, ban.go:174-194).
TableAgrees ==
  \A i \in IP \ (disordered \cup spoilt) :
    Pending(i) = {} /\ (\A b \in Banners : op[b].ip # i) => row[i] = ver[i]

\* A change that reached the queue before Close stops the ban worker leaves it
\* and its batch, Close or no Close; one that comes later may stay for ever, as
\* nothing refuses it (sqlite.go:631-661, 730-739).
BansReachTheTable ==
  \A o \in Ops :
    (closer \in {"open", "locking", "records"} /\ \E k \in 1 .. Len(banQ) : banQ[k] = o)
      ~> \A k \in 1 .. Len(Waiting) : Waiting[k] # o

\* A handler that waits for room in the record queue gets it, and Close comes
\* back: neither waits for the other over recordMu (sqlite.go:230-241, 731-742).
EveryCallReturns ==
  /\ \A w \in Records : pc[w] = "sending" ~> pc[w] = "accepted"
  /\ closer = "locking" ~> closer = "closed"
-----------------------------------------------------------------------------
(* What EveryCallReturns rests on. *)

\* Who waits for room in the queue keeps Close from the stop of the worker, which
\* therefore goes on to make room (sqlite.go:230-241, 731-735).
SendersAreHeard ==
  (\E w \in Records : pc[w] = "sending") => ~recordClosed /\ recLoc = "run"

\* What the record worker has to do before it returns.
RecordsLeft ==
  2 * Len(recQ) + (IF hand = NoRecord THEN 0 ELSE 1)
    + (CASE recLoc = "run" -> 2 [] recLoc = "drain" -> 1 [] recLoc = "gone" -> 0)

\* Once Close has had the lock nothing adds to the work of the record worker and
\* each of its steps takes from it, so that recordWG.Wait comes back
\* (sqlite.go:331-357, 731-737).
DrainOnlyShrinks ==
  [][recordClosed =>
       /\ recordClosed' /\ RecordsLeft' <= RecordsLeft
       /\ RecordWorker => RecordsLeft' < RecordsLeft]_vars
-----------------------------------------------------------------------------
(* What BansReachTheTable rests on. *)

\* A transaction took the whole batch: what it held last of each entry is the row,
\* or the transaction failed.
BatchWritten ==
  /\ batch # << >>
  /\ Waiting' = banQ
  /\ \A k \in 1 .. Len(batch) :
       LET i == batch[k].ip
       IN  i \in spoilt' \/ row'[i] = Merged(batch, i)

\* Each step of the ban worker moves all that waits towards the table: it writes
\* the batch, or makes it longer by one, or goes on to its next part, the last one
\* only when it has found the queue empty.  Nobody else takes a change away or
\* puts one before it, Close or no Close (sqlite.go:631-671).
ChangesMoveUp ==
  [][\/ BanWorker /\ BatchWritten
     \/ BanWorker /\ Waiting' = Waiting /\ Len(batch') = Len(batch) + 1 /\ banLoc' = banLoc
     \/ /\ BanWorker
        /\ UNCHANGED <<batch, banQ>>
        /\ <<banLoc, banLoc'>> \in {<<"run", "drain">>, <<"drain", "last">>, <<"last", "gone">>}
        /\ banLoc = "drain" => banQ = << >>
        /\ banLoc = "last" => batch = << >>
     \/ /\ ~BanWorker
        /\ UNCHANGED <<batch, banLoc>>
        /\ Waiting' = Waiting \/ \E o \in Ops : Waiting' = Append(Waiting, o)]_vars
=============================================================================
