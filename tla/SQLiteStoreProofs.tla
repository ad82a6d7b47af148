------------------------- MODULE SQLiteStoreProofs -------------------------
(***************************************************************************)
(* SQLiteStore for any number of handlers, any queues and any batch: its   *)
(* variables keep their types, what it does with records is what History   *)
(* allows, and the table ip_bans agrees with the memory.                   *)
(*                                                                         *)
(* Lines says what the program never states: the last change that waits    *)
(* for an entry, in the batch or behind it in the queue, is the newest     *)
(* that was handed over, and when none waits the row has it.               *)
(***************************************************************************)
EXTENDS SQLiteStore, SequenceTheorems, WellFoundedInduction, TLAPS

\* The last change of entry i in q is v.
LastOf(q, i, v) == \E k \in Places(q, i) : v = q[k].ver /\ \A j \in Places(q, i) : j <= k

\* A change that has not been handed over is the reason why the newest change
\* handed over is not the one in memory.
HandedOver ==
  /\ \A b \in Banners : op[b] # NoOp => op[b].ver <= ver[op[b].ip]
  /\ \A i \in IP : sent[i] <= ver[i]
  /\ \A i \in IP : sent[i] = ver[i]
                   \/ \E b \in Banners : op[b] # NoOp /\ op[b].ip = i /\ op[b].ver = ver[i]

Lines ==
  \A i \in IP \ disordered :
    /\ Pending(i) # {} => LastOf(Waiting, i, sent[i])
    /\ Pending(i) = {} /\ i \notin spoilt => row[i] = sent[i]

BanInv == HandedOver /\ Lines
-----------------------------------------------------------------------------
(* The last change of an entry in a sequence of changes. *)

\* A nonempty set of places has a last one.
LEMMA LastPlace ==
  ASSUME NEW q \in Seq(Ops), NEW i, Places(q, i) # {}
  PROVE  \E k \in Places(q, i) : \A j \in Places(q, i) : j <= k
<1> DEFINE T == {Len(q) - k : k \in Places(q, i)}
<1>1. Len(q) \in Nat /\ Places(q, i) \subseteq 1 .. Len(q)
  BY LenProperties DEF Places
<1>2. T \subseteq Nat /\ T # {}
  BY <1>1
<1>3. PICK x \in T : \A y \in T : ~ (<<y, x>> \in OpToRel(<, Nat))
  <2> HIDE DEF T
  <2> QED  BY <1>2, NatLessThanWellFounded, WFMin
<1>4. \A y \in T : ~ (y < x)
  <2>1. ASSUME NEW y \in T, y < x PROVE FALSE
    <3> HIDE DEF T
    <3>1. <<y, x>> \in OpToRel(<, Nat)
      BY <1>2, <2>1 DEF OpToRel
    <3> QED  BY <1>3, <3>1
  <2> QED  BY <2>1
<1>5. PICK k \in Places(q, i) : x = Len(q) - k
  OBVIOUS
<1>6. ASSUME NEW j \in Places(q, i) PROVE j <= k
  <2>1. Len(q) - j \in T
    OBVIOUS
  <2>2. ~ (Len(q) - j < Len(q) - k)
    BY <1>4, <1>5, <2>1
  <2> QED  BY <1>1, <2>2
<1> QED  BY <1>6

\* There is one last change.
LEMMA LastUnique ==
  ASSUME NEW q \in Seq(Ops), NEW i, NEW v, NEW w, LastOf(q, i, v), LastOf(q, i, w)
  PROVE  v = w
<1>1. PICK k \in Places(q, i) : v = q[k].ver /\ \A j \in Places(q, i) : j <= k
  BY DEF LastOf
<1>2. PICK l \in Places(q, i) : w = q[l].ver /\ \A j \in Places(q, i) : j <= l
  BY DEF LastOf
<1>3. k \in Nat /\ l \in Nat /\ k <= l /\ l <= k
  BY <1>1, <1>2, LenProperties DEF Places
<1> QED  BY <1>1, <1>2, <1>3

\* Merged finds it.
LEMMA MergedIsLast ==
  ASSUME NEW q \in Seq(Ops), NEW i, Places(q, i) # {}
  PROVE  Merged(q, i) \in Versions /\ LastOf(q, i, Merged(q, i))
<1>1. PICK k \in Places(q, i) : \A j \in Places(q, i) : j <= k
  BY LastPlace
<1>2. q[k] \in Ops
  BY ElementOfSeq DEF Places
<1>3. q[k].ver \in Versions
  BY <1>2, SizeAssumption DEF Ops, Versions
<1>4. \E v \in Versions : \E l \in Places(q, i) :
        v = q[l].ver /\ \A j \in Places(q, i) : j <= l
  BY <1>1, <1>3
<1> QED  BY <1>4 DEF Merged, LastOf

\* A change at the end is the last of its entry, and no other entry notices it.
LEMMA LastAppend ==
  ASSUME NEW q \in Seq(Ops), NEW o \in Ops, NEW i
  PROVE  /\ o.ip = i => LastOf(Append(q, o), i, o.ver) /\ Places(Append(q, o), i) # {}
         /\ o.ip # i => /\ Places(Append(q, o), i) = Places(q, i)
                        /\ \A v : LastOf(q, i, v) => LastOf(Append(q, o), i, v)
<1> DEFINE t == Append(q, o)
<1>1. /\ Len(q) \in Nat /\ Len(t) = Len(q) + 1
      /\ \A k \in 1 .. Len(q) : t[k] = q[k]
      /\ t[Len(q) + 1] = o
  BY AppendProperties, LenProperties
<1> HIDE DEF t
<1>2. CASE o.ip = i
  <2>1. Len(q) + 1 \in Places(t, i) /\ \A j \in Places(t, i) : j <= Len(q) + 1
    BY <1>1, <1>2 DEF Places
  <2>2. LastOf(t, i, o.ver) /\ Places(t, i) # {}
    BY <1>1, <2>1 DEF LastOf
  <2> QED  BY <1>2, <2>2 DEF t
<1>3. CASE o.ip # i
  <2>1. ASSUME NEW k PROVE k \in Places(t, i) <=> k \in Places(q, i)
    <3>1. CASE k = Len(q) + 1
      BY <1>1, <1>3, <3>1 DEF Places
    <3>2. CASE k # Len(q) + 1
      BY <1>1, <3>2 DEF Places
    <3> QED  BY <3>1, <3>2
  <2>2. Places(t, i) = Places(q, i)
    BY <2>1
  <2>3. \A k \in Places(q, i) : t[k] = q[k]
    BY <1>1 DEF Places
  <2>4. \A v : LastOf(q, i, v) => LastOf(t, i, v)
    BY <2>2, <2>3 DEF LastOf
  <2> QED  BY <1>3, <2>2, <2>4 DEF t
<1> QED  BY <1>2, <1>3

\* The last change of a concatenation is in its second part, if that has one.
LEMMA LastConcat ==
  ASSUME NEW q \in Seq(Ops), NEW r \in Seq(Ops), NEW i
  PROVE  /\ Places(q \o r, i) = {} <=> Places(q, i) = {} /\ Places(r, i) = {}
         /\ Places(r, i) # {} => \A v : LastOf(q \o r, i, v) => LastOf(r, i, v)
         /\ Places(r, i) = {} => \A v : LastOf(q \o r, i, v) => LastOf(q, i, v)
<1> DEFINE t == q \o r
<1>1. /\ Len(q) \in Nat /\ Len(r) \in Nat /\ Len(t) = Len(q) + Len(r)
      /\ \A k \in 1 .. Len(q) + Len(r) : t[k] = IF k <= Len(q) THEN q[k] ELSE r[k - Len(q)]
  BY ConcatProperties, LenProperties
<1> HIDE DEF t
<1>2. \A k \in Places(q, i) : k \in Places(t, i) /\ t[k] = q[k]
  BY <1>1 DEF Places
<1>3. ASSUME NEW k \in Places(r, i)
      PROVE  Len(q) + k \in Places(t, i) /\ t[Len(q) + k] = r[k]
  <2>1. k \in 1 .. Len(r) /\ r[k].ip = i
    BY DEF Places
  <2>2. Len(q) + k \in 1 .. Len(t) /\ ~ (Len(q) + k <= Len(q)) /\ (Len(q) + k) - Len(q) = k
    BY <1>1, <2>1
  <2>3. t[Len(q) + k] = r[k]
    BY <1>1, <2>2
  <2> QED  BY <2>1, <2>2, <2>3 DEF Places
<1>4. ASSUME NEW k \in Places(t, i)
      PROVE  \/ k \in Places(q, i) /\ t[k] = q[k]
             \/ k > Len(q) /\ k - Len(q) \in Places(r, i) /\ t[k] = r[k - Len(q)]
  BY <1>1 DEF Places
<1>5. Places(t, i) = {} <=> Places(q, i) = {} /\ Places(r, i) = {}
  BY <1>2, <1>3, <1>4
<1>6. ASSUME Places(r, i) # {}, NEW v, LastOf(t, i, v) PROVE LastOf(r, i, v)
  <2>1. PICK k \in Places(t, i) : v = t[k].ver /\ \A j \in Places(t, i) : j <= k
    BY <1>6 DEF LastOf
  <2>2. PICK l \in Places(r, i) : TRUE
    BY <1>6
  <2>3. Len(q) + l <= k
    BY <1>3, <2>1
  <2>4. k \in Nat /\ l \in Nat /\ l > 0
    BY <1>1, <2>2 DEF Places
  <2>5. ~ (k \in Places(q, i))
    BY <1>1, <2>3, <2>4 DEF Places
  <2>6. k - Len(q) \in Places(r, i) /\ v = r[k - Len(q)].ver
    BY <1>4, <2>1, <2>5
  <2>7. ASSUME NEW j \in Places(r, i) PROVE j <= k - Len(q)
    <3>1. Len(q) + j <= k /\ j \in Nat
      BY <1>1, <1>3, <2>1 DEF Places
    <3> QED  BY <1>1, <2>4, <3>1
  <2> QED  BY <2>6, <2>7 DEF LastOf
<1>7. ASSUME Places(r, i) = {}, NEW v, LastOf(t, i, v) PROVE LastOf(q, i, v)
  <2>1. PICK k \in Places(t, i) : v = t[k].ver /\ \A j \in Places(t, i) : j <= k
    BY <1>7 DEF LastOf
  <2>2. k \in Places(q, i) /\ v = q[k].ver
    BY <1>4, <1>7, <2>1
  <2>3. \A j \in Places(q, i) : j <= k
    BY <1>2, <2>1
  <2> QED  BY <2>2, <2>3 DEF LastOf
<1> QED  BY <1>5, <1>6, <1>7 DEF t
-----------------------------------------------------------------------------
(* Types. *)

\* The initial values are in their domains.
LEMMA TypeInit == Init => TypeOK
<1> SUFFICES ASSUME Init PROVE TypeOK
  OBVIOUS
<1>1. << >> \in Seq(Records) /\ << >> \in Seq(Ops) /\ Len(<< >>) = 0
  BY EmptySeq
<1>2. 0 \in Versions
  BY SizeAssumption DEF Versions
<1> QED  BY <1>1, <1>2, SizeAssumption DEF Init, TypeOK

\* The actions on the record queue, and of Close.
RecordStep ==
  (\E w \in Records : Enter(w) \/ Send(w)) \/ RecordWorker \/ Close \/ Closing

\* The actions on the ban queue.
BanStep ==
  (\E b \in Banners : Change(b) \/ Enqueue(b) \/ Bypass(b)) \/ BanWorker

RecTypes ==
  /\ pc \in [Records -> {"idle", "sending", "accepted", "refused"}]
  /\ recQ \in Seq(Records) /\ Len(recQ) <= RecordQueue
  /\ recLoc \in {"run", "drain", "gone"}
  /\ hand \in Records \cup {NoRecord}
  /\ stored \subseteq Records /\ failed \subseteq Records
  /\ closer \in {"open", "locking", "records", "bans", "closed"}

BanTypes ==
  /\ {ver, row, sent} \subseteq [IP -> Versions]
  /\ op \in [Banners -> Ops \cup {NoOp}]
  /\ direct \subseteq {b \in Banners : op[b] # NoOp}
  /\ banQ \in Seq(Ops) /\ Len(banQ) <= BanQueue
  /\ batch \in Seq(Ops) /\ Len(batch) <= MaxBatch
  /\ banLoc \in {"run", "drain", "last", "gone"}
  /\ disordered \subseteq IP /\ spoilt \subseteq IP

\* The types of the two queues.
LEMMA TypesSplit == TypeOK <=> RecTypes /\ BanTypes
  BY DEF TypeOK, RecTypes, BanTypes

\* The actions on records keep the types of records.
LEMMA RecTypesStep == RecTypes /\ RecordStep => RecTypes'
<1> SUFFICES ASSUME RecTypes, RecordStep PROVE RecTypes'
  OBVIOUS
<1>1. ASSUME NEW w \in Records, Enter(w) PROVE RecTypes'
  BY <1>1 DEF Enter, RecTypes
<1>2. ASSUME NEW w \in Records, Send(w) PROVE RecTypes'
  <2>1. /\ Append(recQ, w) \in Seq(Records) /\ Len(Append(recQ, w)) = Len(recQ) + 1
        /\ Len(recQ) \in Nat
    BY AppendProperties, LenProperties DEF RecTypes
  <2>2. recQ' \in Seq(Records) /\ Len(recQ') <= RecordQueue
    BY <1>2, <2>1, SizeAssumption DEF Send
  <2> QED  BY <1>2, <2>2 DEF Send, RecTypes
<1>3. CASE TakeRecord
  <2>1. /\ Head(recQ) \in Records /\ Tail(recQ) \in Seq(Records)
        /\ Len(Tail(recQ)) = Len(recQ) - 1 /\ Len(recQ) \in Nat
    BY <1>3, HeadTailProperties, LenProperties DEF TakeRecord, RecTypes
  <2>2. recQ' \in Seq(Records) /\ Len(recQ') <= RecordQueue
    BY <1>3, <2>1, SizeAssumption DEF TakeRecord, RecTypes
  <2> QED  BY <1>3, <2>1, <2>2 DEF TakeRecord, RecTypes
<1>4. CASE WriteRecord
  BY <1>4 DEF WriteRecord, RecTypes
<1>5. CASE StopRecords
  BY <1>5 DEF StopRecords, RecTypes
<1>6. CASE RecordsDrained
  BY <1>6 DEF RecordsDrained, RecTypes
<1>7. CASE Close \/ CloseRecords \/ CloseBans \/ CloseDB
  BY <1>7 DEF Close, CloseRecords, CloseBans, CloseDB, recVars, RecTypes
<1> QED
  BY <1>1, <1>2, <1>3, <1>4, <1>5, <1>6, <1>7 DEF RecordStep, RecordWorker, Closing

\* A transaction leaves every row it does not touch, and writes versions.
LEMMA FlushTypes ==
  ASSUME NEW q \in Seq(Ops), BanTypes, Flush(q)
  PROVE  row' \in [IP -> Versions] /\ spoilt' \subseteq IP
<1>1. ASSUME NEW i \in IP PROVE Places(q, i) # {} => Merged(q, i) \in Versions
  BY MergedIsLast
<1> QED  BY <1>1 DEF Flush, BanTypes

\* The actions on bans keep the types of bans.
LEMMA BanTypesStep == BanTypes /\ BanStep => BanTypes'
<1> SUFFICES ASSUME BanTypes, BanStep PROVE BanTypes'
  OBVIOUS
<1>0. MaxChanges \in Nat /\ BanQueue \in Nat /\ MaxBatch \in Nat
  BY SizeAssumption
<1>1. ASSUME NEW b \in Banners, Change(b) PROVE BanTypes'
  <2>1. PICK i \in IP : /\ ver[i] < MaxChanges
                        /\ ver' = [ver EXCEPT ![i] = @ + 1]
                        /\ op' = [op EXCEPT ![b] = [ip |-> i, ver |-> ver[i] + 1]]
    BY <1>1 DEF Change
  <2>2. ver[i] \in 0 .. MaxChanges /\ ver[i] + 1 \in Versions /\ ver[i] + 1 \in 1 .. MaxChanges
    BY <1>0, <2>1 DEF BanTypes, Versions
  <2>3. ver' \in [IP -> Versions] /\ row' = row /\ sent' = sent
    BY <1>1, <2>1, <2>2 DEF BanTypes, Change
  <2>4. [ip |-> i, ver |-> ver[i] + 1] \in Ops /\ [ip |-> i, ver |-> ver[i] + 1] # NoOp
    <3>1. [ip |-> i, ver |-> ver[i] + 1].ver # NoOp.ver
      BY <2>2 DEF NoOp
    <3> QED  BY <2>2, <3>1 DEF Ops
  <2>5. op' \in [Banners -> Ops \cup {NoOp}]
    BY <2>1, <2>4 DEF BanTypes
  <2>6. direct' \subseteq {c \in Banners : op'[c] # NoOp}
    BY <1>1, <2>1, <2>4 DEF BanTypes, Change
  <2> QED  BY <1>1, <2>3, <2>5, <2>6 DEF BanTypes, Change
<1>2. ASSUME NEW b \in Banners, Enqueue(b) PROVE BanTypes'
  <2>1. op[b] \in Ops /\ op[b].ip \in IP /\ op[b].ver \in Versions
    BY <1>0, <1>2 DEF BanTypes, Enqueue, Ops, Versions
  <2>2. CASE Len(banQ) < BanQueue
    <3>1. /\ banQ' = Append(banQ, op[b])
          /\ sent' = [sent EXCEPT ![op[b].ip] = Newer(op[b].ip, op[b].ver)]
          /\ disordered' = IF op[b].ver < sent[op[b].ip] THEN disordered \cup {op[b].ip}
                           ELSE disordered
          /\ op' = [op EXCEPT ![b] = NoOp]
          /\ UNCHANGED <<direct, ver, row, batch, banLoc, spoilt>>
          /\ b \notin direct
      BY <1>2, <2>2 DEF Enqueue
    <3>2. banQ' \in Seq(Ops) /\ Len(banQ') <= BanQueue
      BY <1>0, <2>1, <2>2, <3>1, AppendProperties, LenProperties DEF BanTypes
    <3>3. Newer(op[b].ip, op[b].ver) \in Versions
      BY <2>1 DEF Newer, BanTypes
    <3>4. sent' \in [IP -> Versions] /\ disordered' \subseteq IP
      BY <2>1, <3>1, <3>3 DEF BanTypes
    <3>5. op' \in [Banners -> Ops \cup {NoOp}]
      BY <3>1 DEF BanTypes
    <3>6. direct' \subseteq {c \in Banners : op'[c] # NoOp}
      BY <3>1 DEF BanTypes
    <3> QED  BY <3>1, <3>2, <3>4, <3>5, <3>6 DEF BanTypes
  <2>3. CASE ~ (Len(banQ) < BanQueue)
    BY <1>2, <2>3 DEF Enqueue, BanTypes
  <2> QED  BY <2>2, <2>3
<1>3. ASSUME NEW b \in Banners, Bypass(b) PROVE BanTypes'
  <2>1. op[b] \in Ops /\ op[b].ip \in IP /\ op[b].ver \in Versions
    BY <1>0, <1>3 DEF BanTypes, Bypass, Ops, Versions
  <2>2. <<op[b]>> \in Seq(Ops)
    BY <2>1
  <2>3. row' \in [IP -> Versions] /\ spoilt' \subseteq IP
    BY <1>3, <2>2, FlushTypes DEF Bypass
  <2>4. Newer(op[b].ip, op[b].ver) \in Versions
    BY <2>1 DEF Newer, BanTypes
  <2>5. sent' \in [IP -> Versions] /\ disordered' \subseteq IP
    BY <1>3, <2>1, <2>4 DEF Bypass, BanTypes
  <2>6. op' \in [Banners -> Ops \cup {NoOp}] /\ direct' \subseteq {c \in Banners : op'[c] # NoOp}
    BY <1>3 DEF Bypass, BanTypes
  <2> QED  BY <1>3, <2>3, <2>5, <2>6 DEF Bypass, BanTypes
<1>4. CASE TakeBan
  <2>1. /\ Head(banQ) \in Ops /\ Tail(banQ) \in Seq(Ops)
        /\ Len(Tail(banQ)) = Len(banQ) - 1 /\ Len(banQ) \in Nat /\ Len(batch) \in Nat
    BY <1>4, HeadTailProperties, LenProperties DEF TakeBan, BanTypes
  <2>2. Append(batch, Head(banQ)) \in Seq(Ops) /\ Len(Append(batch, Head(banQ))) = Len(batch) + 1
    BY <2>1, AppendProperties DEF BanTypes
  <2>3. banQ' \in Seq(Ops) /\ Len(banQ') <= BanQueue
    BY <1>0, <1>4, <2>1 DEF TakeBan, BanTypes
  <2>4. batch' \in Seq(Ops) /\ Len(batch') <= MaxBatch
    BY <1>0, <1>4, <2>1, <2>2 DEF TakeBan, BanTypes
  <2> QED  BY <1>4, <2>3, <2>4 DEF TakeBan, BanTypes
<1>5. CASE FlushBatch
  <2>1. row' \in [IP -> Versions] /\ spoilt' \subseteq IP
    BY <1>5, FlushTypes DEF FlushBatch, BanTypes
  <2>2. batch' \in Seq(Ops) /\ Len(batch') <= MaxBatch
    BY <1>0, <1>5, EmptySeq DEF FlushBatch
  <2> QED  BY <1>5, <2>1, <2>2 DEF FlushBatch, BanTypes
<1>6. CASE StopBans \/ BansDrained
  BY <1>6 DEF StopBans, BansDrained, BanTypes
<1>7. CASE LastFlush
  <2>1. row' \in [IP -> Versions] /\ spoilt' \subseteq IP
    BY <1>7, FlushTypes DEF LastFlush, BanTypes
  <2>2. batch' \in Seq(Ops) /\ Len(batch') <= MaxBatch
    BY <1>0, <1>7, EmptySeq DEF LastFlush
  <2> QED  BY <1>7, <2>1, <2>2 DEF LastFlush, BanTypes
<1> QED
  BY <1>1, <1>2, <1>3, <1>4, <1>5, <1>6, <1>7 DEF BanStep, BanWorker

\* The two queues have nothing in common but Close.
LEMMA Apart ==
  /\ Next <=> RecordStep \/ BanStep
  /\ RecordStep => UNCHANGED banVars
  /\ BanStep => UNCHANGED recVars /\ UNCHANGED closer
<1>1. Next <=> RecordStep \/ BanStep
  BY DEF Next, RecordStep, BanStep
<1>2. RecordStep => UNCHANGED banVars
  BY DEF RecordStep, RecordWorker, Closing, Enter, Send, TakeRecord, WriteRecord, StopRecords,
         RecordsDrained, Close, CloseRecords, CloseBans, CloseDB
<1>3. BanStep => UNCHANGED recVars /\ UNCHANGED closer
  BY DEF BanStep, BanWorker, Change, Enqueue, Bypass, TakeBan, FlushBatch, StopBans,
         BansDrained, LastFlush
<1> QED  BY <1>1, <1>2, <1>3

\* Every step keeps the types.
LEMMA TypeNext == TypeOK /\ [Next]_vars => TypeOK'
<1> SUFFICES ASSUME TypeOK, [Next]_vars PROVE TypeOK'
  OBVIOUS
<1>1. RecTypes /\ BanTypes
  BY TypesSplit
<1>2. CASE RecordStep
  <2>1. BanTypes'
    BY <1>1, <1>2, Apart DEF banVars, BanTypes
  <2> QED  BY <1>1, <1>2, <2>1, RecTypesStep DEF TypeOK, RecTypes, BanTypes
<1>3. CASE BanStep
  <2>1. RecTypes'
    BY <1>1, <1>3, Apart DEF recVars, RecTypes
  <2> QED  BY <1>1, <1>3, <2>1, BanTypesStep DEF TypeOK, RecTypes, BanTypes
<1>4. CASE UNCHANGED vars
  BY <1>4 DEF vars, recVars, banVars, TypeOK
<1> QED  BY <1>2, <1>3, <1>4, Apart

\* Type correctness of the write queues: no queue and no batch outgrows its size
\* (sqlite.go:49-54, 640-660).
THEOREM TypeCorrect == Spec => []TypeOK
  BY TypeInit, TypeNext, PTL DEF Spec
-----------------------------------------------------------------------------
(* The table. *)

\* At first nothing is under way and every row is the memory.
LEMMA BanInit == Init => BanInv
<1> SUFFICES ASSUME Init PROVE BanInv
  OBVIOUS
<1>1. << >> \in Seq(Ops) /\ Len(<< >>) = 0
  BY EmptySeq
<1>2. << >> \o << >> = << >>
  BY <1>1, ConcatEmptySeq
<1>3. \A i \in IP : Pending(i) = {}
  BY <1>1, <1>2 DEF Init, Pending, Waiting
<1>4. Lines
  BY <1>3 DEF Init, Lines
<1> QED  BY <1>4 DEF Init, BanInv, HandedOver

\* A change that reaches the queue or the table is accounted for in sent.
LEMMA HandOver ==
  ASSUME NEW b \in Banners, BanTypes, HandedOver, op[b] # NoOp,
         ver' = ver, op' = [op EXCEPT ![b] = NoOp],
         sent' = [sent EXCEPT ![op[b].ip] = Newer(op[b].ip, op[b].ver)]
  PROVE  HandedOver'
<1> DEFINE i == op[b].ip
           v == op[b].ver
<1>1. /\ op[b] \in Ops /\ i \in IP /\ v \in Nat /\ ver[i] \in Nat /\ sent[i] \in Nat
      /\ v <= ver[i] /\ sent[i] <= ver[i]
  BY SizeAssumption DEF BanTypes, Ops, Versions, HandedOver
<1>2. sent'[i] = IF v > sent[i] THEN v ELSE sent[i]
  BY <1>1 DEF BanTypes, Newer
<1>3. \A j \in IP : j # i => sent'[j] = sent[j]
  BY DEF BanTypes
<1>4. op'[b] = NoOp /\ \A c \in Banners : c # b => op'[c] = op[c]
  BY DEF BanTypes
<1>5. \A c \in Banners : op'[c] # NoOp => op'[c].ver <= ver[op'[c].ip]
  BY <1>4 DEF HandedOver
<1>6. \A j \in IP : sent'[j] <= ver[j]
  BY <1>1, <1>2, <1>3 DEF HandedOver
<1>7. ASSUME NEW j \in IP
      PROVE  \/ sent'[j] = ver[j]
             \/ \E c \in Banners : op'[c] # NoOp /\ op'[c].ip = j /\ op'[c].ver = ver[j]
  <2>1. CASE sent[j] = ver[j]
    BY <1>1, <1>2, <1>3, <2>1
  <2>2. CASE sent[j] # ver[j]
    <3>1. PICK c \in Banners : op[c] # NoOp /\ op[c].ip = j /\ op[c].ver = ver[j]
      BY <2>2 DEF HandedOver
    <3>2. CASE c = b
      BY <1>1, <1>2, <3>1, <3>2
    <3>3. CASE c # b
      BY <1>4, <3>1, <3>3
    <3> QED  BY <3>2, <3>3
  <2> QED  BY <2>1, <2>2
<1> QED  BY <1>5, <1>6, <1>7 DEF HandedOver

\* Every action on bans keeps HandedOver.
LEMMA HandedStep == BanTypes /\ HandedOver /\ BanStep => HandedOver'
<1> SUFFICES ASSUME BanTypes, HandedOver, BanStep PROVE HandedOver'
  OBVIOUS
<1>1. ASSUME NEW b \in Banners, Change(b) PROVE HandedOver'
  <2>1. PICK i \in IP : /\ ver[i] < MaxChanges
                        /\ ver' = [ver EXCEPT ![i] = @ + 1]
                        /\ op' = [op EXCEPT ![b] = [ip |-> i, ver |-> ver[i] + 1]]
    BY <1>1 DEF Change
  <2>2. ver[i] \in Nat /\ sent' = sent /\ op[b] = NoOp
    BY <1>1 DEF BanTypes, Versions, Change
  <2>3. ver'[i] = ver[i] + 1 /\ \A j \in IP : j # i => ver'[j] = ver[j]
    BY <2>1 DEF BanTypes
  <2>4. /\ op'[b] = [ip |-> i, ver |-> ver[i] + 1]
        /\ \A c \in Banners : c # b => op'[c] = op[c]
    BY <2>1 DEF BanTypes
  <2>5. op'[b] # NoOp /\ op'[b].ip = i /\ op'[b].ver = ver'[i]
    <3>1. op'[b].ip = i /\ op'[b].ver = ver[i] + 1 /\ NoOp.ver = 0
      BY <2>4 DEF NoOp
    <3> QED  BY <2>2, <2>3, <3>1
  <2>6. ASSUME NEW c \in Banners, op'[c] # NoOp PROVE op'[c].ver <= ver'[op'[c].ip]
    <3>1. CASE c = b
      BY <2>2, <2>3, <2>5, <3>1
    <3>2. CASE c # b
      <4>1. op[c] \in Ops /\ op'[c] = op[c] /\ op[c].ver <= ver[op[c].ip]
        BY <2>4, <2>6, <3>2 DEF BanTypes, HandedOver
      <4>2. op[c].ip \in IP /\ op[c].ver \in Nat
        BY <4>1, SizeAssumption DEF Ops
      <4> QED  BY <2>2, <2>3, <4>1, <4>2
    <3> QED  BY <3>1, <3>2
  <2>7. \A j \in IP : sent'[j] <= ver'[j]
    <3>1. \A j \in IP : sent[j] \in Nat /\ ver[j] \in Nat
      BY DEF BanTypes, Versions
    <3> QED  BY <2>2, <2>3, <3>1 DEF HandedOver
  <2>8. ASSUME NEW j \in IP
        PROVE  \/ sent'[j] = ver'[j]
               \/ \E c \in Banners : op'[c] # NoOp /\ op'[c].ip = j /\ op'[c].ver = ver'[j]
    <3>1. CASE j = i
      BY <2>5, <3>1
    <3>2. CASE j # i
      <4>1. CASE sent[j] = ver[j]
        BY <2>2, <2>3, <3>2, <4>1
      <4>2. CASE sent[j] # ver[j]
        <5>1. PICK c \in Banners : op[c] # NoOp /\ op[c].ip = j /\ op[c].ver = ver[j]
          BY <4>2 DEF HandedOver
        <5>2. c # b
          BY <2>2, <5>1
        <5> QED  BY <2>3, <2>4, <3>2, <5>1, <5>2
      <4> QED  BY <4>1, <4>2
    <3> QED  BY <3>1, <3>2
  <2> QED  BY <2>6, <2>7, <2>8 DEF HandedOver
<1>2. ASSUME NEW b \in Banners, Enqueue(b) PROVE HandedOver'
  <2>1. CASE Len(banQ) < BanQueue
    BY <1>2, <2>1, HandOver DEF Enqueue
  <2>2. CASE ~ (Len(banQ) < BanQueue)
    BY <1>2, <2>2 DEF Enqueue, HandedOver
  <2> QED  BY <2>1, <2>2
<1>3. ASSUME NEW b \in Banners, Bypass(b) PROVE HandedOver'
  BY <1>3, HandOver DEF Bypass, BanTypes
<1>4. CASE BanWorker
  BY <1>4 DEF BanWorker, TakeBan, FlushBatch, StopBans, BansDrained, LastFlush, HandedOver
<1> QED  BY <1>1, <1>2, <1>3, <1>4 DEF BanStep
-----------------------------------------------------------------------------
\* What nothing touches stays in line.
LEMMA LinesStay ==
  ASSUME Lines, Waiting' = Waiting, UNCHANGED <<row, sent, disordered, spoilt>>
  PROVE  Lines'
<1>1. \A i \in IP : Pending(i)' = Pending(i)
  BY DEF Pending
<1> QED  BY <1>1 DEF Lines, LastOf, Places

\* Pending is the places of an entry.
LEMMA PendingPlaces == \A i : Pending(i) = Places(Waiting, i)
  BY DEF Pending, Places

\* A change that comes to the end of the queue is the last of its entry.
LEMMA EnqueueLines ==
  ASSUME NEW b \in Banners, BanTypes, Lines, Enqueue(b)
  PROVE  Lines'
<1>1. CASE ~ (Len(banQ) < BanQueue)
  <2>1. Waiting' = Waiting
    BY <1>1 DEF Enqueue, Waiting
  <2> QED  BY <1>1, <2>1, LinesStay DEF Enqueue
<1>2. CASE Len(banQ) < BanQueue
  <2> DEFINE o == op[b]
  <2>1. /\ o \in Ops /\ banQ' = Append(banQ, o) /\ batch' = batch /\ row' = row /\ spoilt' = spoilt
        /\ sent' = [sent EXCEPT ![o.ip] = Newer(o.ip, o.ver)]
        /\ disordered' = IF o.ver < sent[o.ip] THEN disordered \cup {o.ip} ELSE disordered
    BY <1>2 DEF Enqueue, BanTypes
  <2>2. Waiting \in Seq(Ops) /\ Waiting' = Append(Waiting, o)
    <3>1. batch \in Seq(Ops) /\ banQ \in Seq(Ops) /\ <<o>> \in Seq(Ops)
      BY <2>1 DEF BanTypes
    <3>2. batch \o Append(banQ, o) = Append(batch \o banQ, o)
      <4>1. batch \o banQ \in Seq(Ops)
        BY <3>1, ConcatProperties
      <4>2. Append(banQ, o) = banQ \o <<o>> /\ Append(batch \o banQ, o) = (batch \o banQ) \o <<o>>
        BY <2>1, <3>1, <4>1, AppendIsConcat
      <4> QED  BY <3>1, <4>2, ConcatAssociative
    <3> QED  BY <2>1, <3>1, <3>2, ConcatProperties DEF Waiting
  <2>3. o.ip \in IP /\ o.ver \in Nat /\ sent[o.ip] \in Nat
    BY <2>1, SizeAssumption DEF Ops, BanTypes, Versions
  <2> SUFFICES ASSUME NEW j \in IP \ disordered'
               PROVE  /\ Pending(j)' # {} => LastOf(Waiting', j, sent'[j])
                      /\ Pending(j)' = {} /\ j \notin spoilt' => row'[j] = sent'[j]
    BY DEF Lines, LastOf, Places
  <2>4. j \notin disordered
    BY <2>1
  <2>5. Pending(j)' = Places(Waiting', j)
    BY DEF Pending, Places
  <2>6. CASE o.ip = j
    <3>1. sent'[j] = o.ver
      BY <2>1, <2>3, <2>6 DEF Newer, BanTypes
    <3>2. LastOf(Waiting', j, o.ver) /\ Places(Waiting', j) # {}
      BY <2>1, <2>2, <2>6, LastAppend
    <3> QED  BY <2>5, <3>1, <3>2
  <2>7. CASE o.ip # j
    <3> HIDE DEF o
    <3>1. sent'[j] = sent[j]
      BY <2>1, <2>3, <2>7 DEF BanTypes
    <3>2. /\ Places(Waiting', j) = Places(Waiting, j)
          /\ LastOf(Waiting, j, sent[j]) => LastOf(Waiting', j, sent[j])
      BY <2>1, <2>2, <2>7, LastAppend
    <3> QED  BY <2>1, <2>4, <2>5, <3>1, <3>2, PendingPlaces DEF Lines
  <2> QED  BY <2>6, <2>7
<1> QED  BY <1>1, <1>2

\* A change that goes past the queue is right if none of its entry waits there.
LEMMA BypassLines ==
  ASSUME NEW b \in Banners, BanTypes, Lines, Bypass(b)
  PROVE  Lines'
<1> DEFINE o == op[b]
<1>1. /\ o \in Ops /\ Flush(<<o>>) /\ Waiting' = Waiting
      /\ sent' = [sent EXCEPT ![o.ip] = Newer(o.ip, o.ver)]
      /\ disordered' = IF Pending(o.ip) # {} \/ o.ver < sent[o.ip] THEN disordered \cup {o.ip}
                       ELSE disordered
  BY DEF Bypass, BanTypes, Waiting
<1>2. o.ip \in IP /\ o.ver \in Nat /\ sent[o.ip] \in Nat
  BY <1>1, SizeAssumption DEF Ops, BanTypes, Versions
<1> HIDE DEF o
<1>3. <<o>> \in Seq(Ops) /\ Len(<<o>>) = 1 /\ <<o>>[1] = o
  BY <1>1
<1>4. \A i : Places(<<o>>, i) = IF o.ip = i THEN {1} ELSE {}
  BY <1>3 DEF Places
<1>5. Merged(<<o>>, o.ip) = o.ver
  <2>1. LastOf(<<o>>, o.ip, o.ver)
    BY <1>3, <1>4 DEF LastOf
  <2> QED  BY <1>3, <1>4, <2>1, MergedIsLast, LastUnique
<1>6. \/ row' = [i \in IP |-> IF o.ip = i THEN o.ver ELSE row[i]] /\ spoilt' = spoilt \ {o.ip}
      \/ row' = row /\ spoilt' = spoilt \cup {o.ip}
  <2>1. {i \in IP : Places(<<o>>, i) # {}} = {o.ip}
    BY <1>2, <1>4
  <2> QED  BY <1>1, <1>5, <2>1 DEF Flush
<1> SUFFICES ASSUME NEW j \in IP \ disordered'
             PROVE  /\ Pending(j)' # {} => LastOf(Waiting', j, sent'[j])
                    /\ Pending(j)' = {} /\ j \notin spoilt' => row'[j] = sent'[j]
  BY DEF Lines, LastOf, Places
<1>7. j \notin disordered /\ Pending(j)' = Pending(j)
  BY <1>1 DEF Pending
<1>8. CASE o.ip = j
  <2>1. Pending(j) = {} /\ sent'[j] = o.ver
    BY <1>1, <1>2, <1>8 DEF Newer, BanTypes
  <2>2. j \notin spoilt' => row'[j] = o.ver
    BY <1>6, <1>8
  <2> QED  BY <1>7, <2>1, <2>2
<1>9. CASE o.ip # j
  <2>1. sent'[j] = sent[j] /\ row'[j] = row[j] /\ (j \in spoilt' <=> j \in spoilt)
    BY <1>1, <1>2, <1>6, <1>9 DEF BanTypes
  <2> QED  BY <1>1, <1>7, <2>1 DEF Lines
<1> QED  BY <1>8, <1>9

\* A batch written leaves what waits behind it.
LEMMA FlushLines ==
  ASSUME BanTypes, Lines, Flush(batch), batch' = << >>,
         UNCHANGED <<banQ, sent, disordered>>
  PROVE  Lines'
<1>1. batch \in Seq(Ops) /\ banQ \in Seq(Ops)
  BY DEF BanTypes
<1>2. Waiting' = banQ /\ Waiting = batch \o banQ
  BY <1>1, ConcatEmptySeq DEF Waiting
<1> SUFFICES ASSUME NEW j \in IP \ disordered
             PROVE  /\ Pending(j)' # {} => LastOf(Waiting', j, sent[j])
                    /\ Pending(j)' = {} /\ j \notin spoilt' => row'[j] = sent[j]
  BY DEF Lines, LastOf, Places
<1>3. Pending(j)' = Places(banQ, j) /\ Pending(j) = Places(batch \o banQ, j)
  BY <1>2, PendingPlaces DEF Pending, Places
<1>4. CASE Places(banQ, j) # {}
  <2>1. Pending(j) # {} /\ LastOf(batch \o banQ, j, sent[j])
    BY <1>1, <1>2, <1>3, <1>4, LastConcat DEF Lines
  <2> QED  BY <1>1, <1>2, <1>3, <1>4, <2>1, LastConcat
<1>5. CASE Places(banQ, j) = {} /\ Places(batch, j) # {}
  <2>1. LastOf(batch, j, sent[j])
    <3>1. Pending(j) # {} /\ LastOf(batch \o banQ, j, sent[j])
      BY <1>1, <1>2, <1>3, <1>5, LastConcat DEF Lines
    <3> QED  BY <1>1, <1>5, <3>1, LastConcat
  <2>2. Merged(batch, j) = sent[j]
    BY <1>1, <1>5, <2>1, MergedIsLast, LastUnique
  <2>3. j \notin spoilt' => row'[j] = sent[j]
    BY <1>5, <2>2 DEF Flush
  <2> QED  BY <1>3, <1>5, <2>3
<1>6. CASE Places(banQ, j) = {} /\ Places(batch, j) = {}
  <2>1. Pending(j) = {}
    BY <1>1, <1>3, <1>6, LastConcat
  <2>2. row'[j] = row[j] /\ (j \in spoilt' <=> j \in spoilt)
    BY <1>6 DEF Flush
  <2> QED  BY <1>3, <1>6, <2>1, <2>2 DEF Lines
<1> QED  BY <1>4, <1>5, <1>6

\* A change that the worker takes keeps its place among those that wait.
LEMMA TakeBanMoves ==
  ASSUME BanTypes, TakeBan
  PROVE  Waiting' = Waiting /\ Len(batch') = Len(batch) + 1
<1>1. /\ batch \in Seq(Ops) /\ banQ \in Seq(Ops) /\ banQ # << >>
      /\ Head(banQ) \in Ops /\ Tail(banQ) \in Seq(Ops) /\ <<Head(banQ)>> \in Seq(Ops)
  BY HeadTailProperties DEF TakeBan, BanTypes
<1>2. <<Head(banQ)>> \o Tail(banQ) = banQ
  <2> DEFINE t == <<Head(banQ)>> \o Tail(banQ)
  <2>1. /\ t \in Seq(Ops) /\ Len(t) = 1 + Len(Tail(banQ))
        /\ \A i \in 1 .. 1 + Len(Tail(banQ)) :
             t[i] = IF i <= 1 THEN Head(banQ) ELSE Tail(banQ)[i - 1]
    BY <1>1, ConcatProperties
  <2>2. /\ Len(banQ) \in Nat \ {0} /\ Len(Tail(banQ)) = Len(banQ) - 1 /\ Head(banQ) = banQ[1]
        /\ \A i \in 1 .. Len(Tail(banQ)) : Tail(banQ)[i] = banQ[i + 1]
    BY <1>1, HeadTailProperties, EmptySeq
  <2> HIDE DEF t
  <2>3. Len(t) = Len(banQ) /\ \A i \in 1 .. Len(t) : t[i] = banQ[i]
    BY <2>1, <2>2
  <2>4. t = banQ
    BY <1>1, <2>1, <2>3, SeqEqual
  <2> QED  BY <2>4 DEF t
<1>3. Append(batch, Head(banQ)) \o Tail(banQ) = batch \o (<<Head(banQ)>> \o Tail(banQ))
  <2>1. Append(batch, Head(banQ)) = batch \o <<Head(banQ)>>
    BY <1>1, AppendIsConcat
  <2> QED  BY <1>1, <2>1, ConcatAssociative
<1>4. Waiting' = Waiting
  BY <1>2, <1>3 DEF TakeBan, Waiting
<1>5. Len(batch') = Len(batch) + 1
  BY <1>1, AppendProperties DEF TakeBan
<1> QED  BY <1>4, <1>5

\* Every action on bans keeps Lines.
LEMMA LinesStep == BanTypes /\ Lines /\ BanStep => Lines'
<1> SUFFICES ASSUME BanTypes, Lines, BanStep PROVE Lines'
  OBVIOUS
<1>1. ASSUME NEW b \in Banners, Change(b) PROVE Lines'
  BY <1>1, LinesStay DEF Change, Waiting
<1>2. CASE TakeBan
  BY <1>2, TakeBanMoves, LinesStay DEF TakeBan
<1>3. CASE FlushBatch
  BY <1>3, FlushLines DEF FlushBatch
<1>4. CASE StopBans \/ BansDrained
  BY <1>4, LinesStay DEF StopBans, BansDrained, Waiting
<1>5. CASE LastFlush
  <2>1. CASE batch = << >>
    <3>1. Waiting' = Waiting
      BY <1>5, <2>1 DEF LastFlush, Waiting
    <3> QED  BY <1>5, <2>1, <3>1, LinesStay DEF LastFlush
  <2>2. CASE batch # << >>
    BY <1>5, <2>2, FlushLines DEF LastFlush
  <2> QED  BY <2>1, <2>2
<1> QED
  BY <1>1, <1>2, <1>3, <1>4, <1>5, EnqueueLines, BypassLines DEF BanStep, BanWorker

\* Every step keeps both.
LEMMA BanNext == TypeOK /\ BanInv /\ [Next]_vars => BanInv'
<1> SUFFICES ASSUME TypeOK, BanInv, [Next]_vars PROVE BanInv'
  OBVIOUS
<1>1. BanTypes /\ HandedOver /\ Lines
  BY TypesSplit DEF BanInv
<1>2. CASE BanStep
  <2>1. HandedOver'
    BY <1>1, <1>2, HandedStep
  <2>2. Lines'
    BY <1>1, <1>2, LinesStep
  <2> QED  BY <2>1, <2>2 DEF BanInv
<1>3. CASE UNCHANGED banVars
  <2>1. HandedOver'
    BY <1>1, <1>3 DEF banVars, HandedOver
  <2>2. Lines'
    BY <1>1, <1>3, LinesStay DEF banVars, Waiting
  <2> QED  BY <2>1, <2>2 DEF BanInv
<1> QED  BY <1>2, <1>3, Apart DEF vars

\* However changes of ban entries go to the table, through the queue, past it,
\* in batches or one at a time, the row agrees with the memory once nothing of
\* the entry is under way (sqlite.go:664-728, ban.go:174-194).
THEOREM Agreement == Spec => []TableAgrees
<1>1. TypeOK /\ BanInv => TableAgrees
  <2> SUFFICES ASSUME BanInv, NEW i \in IP \ (disordered \cup spoilt), Pending(i) = {},
                      \A b \in Banners : op[b].ip # i
               PROVE  row[i] = ver[i]
    BY DEF TableAgrees
  <2>1. row[i] = sent[i]
    BY DEF BanInv, Lines
  <2>2. sent[i] = ver[i]
    BY DEF BanInv, HandedOver
  <2> QED  BY <2>1, <2>2
<1>2. Init => TypeOK /\ BanInv
  BY TypeInit, BanInit
<1>3. TypeOK /\ BanInv /\ [Next]_vars => TypeOK' /\ BanInv'
  BY TypeNext, BanNext
<1> QED  BY <1>1, <1>2, <1>3, PTL DEF Spec
-----------------------------------------------------------------------------
(* The history. *)

Settled == stored \cup failed
InQ(w)  == \E k \in 1 .. Len(recQ) : recQ[k] = w

\* An accepted record is in one place: the queue, the worker's hand or settled.
OnePlace ==
  /\ \A j, k \in 1 .. Len(recQ) : recQ[j] = recQ[k] => j = k
  /\ \A w \in Records : InQ(w) => pc[w] = "accepted" /\ w \notin Settled /\ w # hand
  /\ hand # NoRecord => pc[hand] = "accepted" /\ hand \notin Settled
  /\ stored \cap failed = {}
  /\ \A w \in Settled : pc[w] = "accepted"
  /\ \A w \in Records : pc[w] = "accepted" => InQ(w) \/ w = hand \/ w \in Settled

\* The lock keeps senders and Close apart, and the worker outlives the queue.
Shutdown ==
  /\ recordClosed => \A w \in Records : pc[w] # "sending"
  /\ recLoc # "run" => recordClosed
  /\ recLoc = "gone" => recQ = << >> /\ hand = NoRecord

RecInv == OnePlace /\ Shutdown

\* At first no record is anywhere.
LEMMA RecInit == Init => RecInv
<1> SUFFICES ASSUME Init PROVE RecInv
  OBVIOUS
<1>1. Len(<< >>) = 0 /\ recQ = << >>
  BY EmptySeq DEF Init
<1> QED  BY <1>1 DEF Init, RecInv, OnePlace, Shutdown, InQ, Settled, recordClosed

\* The queue after a send.
LEMMA QueueSend ==
  ASSUME RecTypes, NEW w \in Records, ~ InQ(w), recQ' = Append(recQ, w),
         \A j, k \in 1 .. Len(recQ) : recQ[j] = recQ[k] => j = k
  PROVE  /\ \A v \in Records : InQ(v)' <=> InQ(v) \/ v = w
         /\ \A j, k \in 1 .. Len(recQ') : recQ'[j] = recQ'[k] => j = k
<1>1. /\ Len(recQ) \in Nat /\ Len(recQ') = Len(recQ) + 1
      /\ \A k \in 1 .. Len(recQ) : recQ'[k] = recQ[k]
      /\ recQ'[Len(recQ) + 1] = w
  BY AppendProperties, LenProperties DEF RecTypes
<1>2. ASSUME NEW v \in Records PROVE InQ(v)' <=> InQ(v) \/ v = w
  <2>1. ASSUME NEW k \in 1 .. Len(recQ'), recQ'[k] = v PROVE InQ(v) \/ v = w
    <3>1. CASE k = Len(recQ) + 1
      BY <1>1, <2>1, <3>1
    <3>2. CASE k # Len(recQ) + 1
      BY <1>1, <2>1, <3>2 DEF InQ
    <3> QED  BY <3>1, <3>2
  <2>2. ASSUME NEW k \in 1 .. Len(recQ), recQ[k] = v PROVE k \in 1 .. Len(recQ') /\ recQ'[k] = v
    BY <1>1, <2>2
  <2>3. Len(recQ) + 1 \in 1 .. Len(recQ')
    BY <1>1
  <2>4. InQ(v)' <=> \E k \in 1 .. Len(recQ') : recQ'[k] = v
    BY DEF InQ
  <2> QED  BY <1>1, <2>1, <2>2, <2>3, <2>4 DEF InQ
<1>3. ASSUME NEW j \in 1 .. Len(recQ'), NEW k \in 1 .. Len(recQ'), recQ'[j] = recQ'[k] PROVE j = k
  <2>1. \A l \in 1 .. Len(recQ) : recQ[l] # w
    BY DEF InQ
  <2>2. CASE j = Len(recQ) + 1 \/ k = Len(recQ) + 1
    BY <1>1, <1>3, <2>1, <2>2
  <2>3. CASE j # Len(recQ) + 1 /\ k # Len(recQ) + 1
    BY <1>1, <1>3, <2>3
  <2> QED  BY <2>2, <2>3
<1> QED  BY <1>2, <1>3

\* The queue after a receive.
LEMMA QueueTake ==
  ASSUME RecTypes, recQ # << >>, recQ' = Tail(recQ),
         \A j, k \in 1 .. Len(recQ) : recQ[j] = recQ[k] => j = k
  PROVE  /\ Head(recQ) \in Records /\ InQ(Head(recQ))
         /\ \A v \in Records : InQ(v)' <=> InQ(v) /\ v # Head(recQ)
         /\ \A j, k \in 1 .. Len(recQ') : recQ'[j] = recQ'[k] => j = k
<1>1. /\ Len(recQ) \in Nat \ {0} /\ Len(recQ') = Len(recQ) - 1
      /\ \A k \in 1 .. Len(recQ') : recQ'[k] = recQ[k + 1]
      /\ Head(recQ) = recQ[1] /\ Head(recQ) \in Records
  BY HeadTailProperties, EmptySeq DEF RecTypes
<1>2. InQ(Head(recQ))
  BY <1>1 DEF InQ
<1>3. ASSUME NEW v \in Records PROVE InQ(v)' <=> InQ(v) /\ v # Head(recQ)
  <2>1. ASSUME NEW k \in 1 .. Len(recQ'), recQ'[k] = v PROVE InQ(v) /\ v # Head(recQ)
    <3>1. k + 1 \in 1 .. Len(recQ) /\ recQ[k + 1] = v /\ k + 1 # 1 /\ 1 \in 1 .. Len(recQ)
      BY <1>1, <2>1
    <3> QED  BY <1>1, <3>1 DEF InQ
  <2>2. ASSUME NEW k \in 1 .. Len(recQ), recQ[k] = v, v # Head(recQ)
        PROVE  k - 1 \in 1 .. Len(recQ') /\ recQ'[k - 1] = v
    <3>1. k # 1
      BY <1>1, <2>2
    <3>2. k - 1 \in 1 .. Len(recQ') /\ (k - 1) + 1 = k
      BY <1>1, <3>1
    <3> QED  BY <1>1, <2>2, <3>2
  <2>3. InQ(v)' <=> \E k \in 1 .. Len(recQ') : recQ'[k] = v
    BY DEF InQ
  <2> QED  BY <2>1, <2>2, <2>3 DEF InQ
<1>4. ASSUME NEW j \in 1 .. Len(recQ'), NEW k \in 1 .. Len(recQ'), recQ'[j] = recQ'[k] PROVE j = k
  <2>1. j + 1 \in 1 .. Len(recQ) /\ k + 1 \in 1 .. Len(recQ)
    BY <1>1
  <2> QED  BY <1>1, <1>4, <2>1
<1> QED  BY <1>1, <1>2, <1>3, <1>4

\* Every action on records keeps a record in one place and the lock between senders
\* and Close.
LEMMA RecStep == RecTypes /\ RecInv /\ RecordStep => RecInv'
<1> SUFFICES ASSUME RecTypes, OnePlace, Shutdown, RecordStep PROVE OnePlace' /\ Shutdown'
  BY DEF RecInv
<1>1. ASSUME NEW w \in Records, Enter(w) PROVE OnePlace' /\ Shutdown'
  <2>1. \A v \in Records : InQ(v)' <=> InQ(v)
    BY <1>1 DEF Enter, InQ
  <2>2. \A v \in Records :
          pc'[v] = IF v = w THEN IF recordClosed THEN "refused" ELSE "sending" ELSE pc[v]
    BY <1>1 DEF Enter, RecTypes
  <2>3. pc[w] = "idle" /\ UNCHANGED <<recQ, recLoc, hand, stored, failed, closer>>
    BY <1>1 DEF Enter
  <2>4. OnePlace'
    BY <2>1, <2>2, <2>3 DEF OnePlace, Settled, RecTypes
  <2>5. Shutdown'
    BY <2>2, <2>3 DEF Shutdown, recordClosed
  <2> QED  BY <2>4, <2>5
<1>2. ASSUME NEW w \in Records, Send(w) PROVE OnePlace' /\ Shutdown'
  <2>1. pc[w] = "sending" /\ UNCHANGED <<recLoc, hand, stored, failed, closer>>
    BY <1>2 DEF Send
  <2>2. ~ InQ(w)
    BY <2>1 DEF OnePlace
  <2>3. \A v \in Records : pc'[v] = IF v = w THEN "accepted" ELSE pc[v]
    BY <1>2 DEF Send, RecTypes
  <2>4. w # hand /\ w \notin Settled
    BY <2>1, RecordAssumption DEF OnePlace
  <2>5. /\ \A v \in Records : InQ(v)' <=> InQ(v) \/ v = w
        /\ \A j, k \in 1 .. Len(recQ') : recQ'[j] = recQ'[k] => j = k
    BY <1>2, <2>2, QueueSend DEF Send, OnePlace
  <2>6. OnePlace'
    BY <2>1, <2>3, <2>4, <2>5 DEF OnePlace, Settled, RecTypes
  <2>7. Shutdown'
    <3>1. ~ recordClosed /\ recLoc = "run"
      BY <2>1 DEF Shutdown, RecTypes
    <3> QED  BY <2>1, <3>1 DEF Shutdown, recordClosed
  <2> QED  BY <2>6, <2>7
<1>3. CASE TakeRecord
  <2>1. /\ Head(recQ) \in Records /\ InQ(Head(recQ))
        /\ \A v \in Records : InQ(v)' <=> InQ(v) /\ v # Head(recQ)
        /\ \A j, k \in 1 .. Len(recQ') : recQ'[j] = recQ'[k] => j = k
    BY <1>3, QueueTake DEF TakeRecord, OnePlace
  <2>2. /\ hand = NoRecord /\ hand' = Head(recQ) /\ recLoc # "gone"
        /\ UNCHANGED <<pc, recLoc, stored, failed, closer>>
    BY <1>3 DEF TakeRecord
  <2>3. OnePlace'
    BY <2>1, <2>2, RecordAssumption DEF OnePlace, Settled
  <2>4. Shutdown'
    BY <2>2 DEF Shutdown, recordClosed
  <2> QED  BY <2>3, <2>4
<1>4. CASE WriteRecord
  <2>1. /\ hand \in Records /\ hand # NoRecord /\ hand' = NoRecord
        /\ UNCHANGED <<pc, recQ, recLoc, closer>>
        /\ \/ stored' = stored \cup {hand} /\ failed' = failed
           \/ failed' = failed \cup {hand} /\ stored' = stored
    BY <1>4 DEF WriteRecord, RecTypes
  <2>2. \A v : InQ(v)' <=> InQ(v)
    BY <2>1 DEF InQ
  <2>3. Settled' = Settled \cup {hand} /\ hand \notin Settled
    BY <2>1 DEF Settled, OnePlace
  <2>4. stored' \cap failed' = {}
    BY <2>1, <2>3 DEF Settled, OnePlace
  <2>5. OnePlace'
    BY <2>1, <2>2, <2>3, <2>4, RecordAssumption DEF OnePlace
  <2>6. Shutdown'
    BY <2>1 DEF Shutdown, recordClosed
  <2> QED  BY <2>5, <2>6
<1>5. CASE StopRecords
  BY <1>5 DEF StopRecords, OnePlace, Shutdown, InQ, Settled, recordClosed
<1>6. CASE RecordsDrained
  BY <1>6 DEF RecordsDrained, OnePlace, Shutdown, InQ, Settled, recordClosed
<1>7. CASE Close \/ CloseRecords \/ CloseBans \/ CloseDB
  BY <1>7 DEF Close, CloseRecords, CloseBans, CloseDB, recVars, OnePlace, Shutdown, InQ, Settled,
              recordClosed
<1> QED
  BY <1>1, <1>2, <1>3, <1>4, <1>5, <1>6, <1>7 DEF RecordStep, RecordWorker, Closing

\* So does every step.
LEMMA RecNext == TypeOK /\ RecInv /\ [Next]_vars => RecInv'
<1> SUFFICES ASSUME TypeOK, RecInv, [Next]_vars PROVE RecInv'
  OBVIOUS
<1>1. CASE RecordStep
  BY <1>1, TypesSplit, RecStep
<1>2. CASE UNCHANGED recVars /\ UNCHANGED closer
  BY <1>2 DEF recVars, RecInv, OnePlace, Shutdown, InQ, Settled, recordClosed
<1> QED  BY <1>1, <1>2, Apart DEF vars

Statuses == [w \in Records |-> StatusOf(w)]

\* The initial states of the store are initial states of the promise.
LEMMA HistoryInit == Init => Promise!HInit
<1> SUFFICES ASSUME Init PROVE Promise!HInit
  OBVIOUS
<1>1. HistoryPhase = "open"
  BY DEF Init, HistoryPhase, recordClosed
<1>2. \A w \in Records : StatusOf(w) = "new"
  BY DEF Init, StatusOf
<1> QED  BY <1>1, <1>2 DEF Promise!HInit

\* A record's own step, seen from History.
LEMMA OneBecomes ==
  ASSUME NEW w \in Records, NEW st, HistoryPhase' = HistoryPhase, StatusOf(w)' = st,
         \A v \in Records : v # w => StatusOf(v)' = StatusOf(v)
  PROVE  Promise!Becomes(w, StatusOf(w), st)
<1>1. Statuses' = [Statuses EXCEPT ![w] = st]
  BY DEF Statuses
<1>2. Statuses[w] = StatusOf(w)
  BY DEF Statuses
<1> QED  BY <1>1, <1>2 DEF Promise!Becomes, Statuses

\* Every action on records is an action of History, or none.
LEMMA HistoryStep ==
  TypeOK /\ RecInv /\ RecordStep => Promise!HNext \/ UNCHANGED Promise!hvars
<1> SUFFICES ASSUME RecTypes, OnePlace, Shutdown, RecordStep
             PROVE  Promise!HNext \/ UNCHANGED Promise!hvars
  BY TypesSplit DEF RecInv
<1> USE DEF recordClosed
<1>0. ASSUME HistoryPhase' = HistoryPhase, \A v \in Records : StatusOf(v)' = StatusOf(v)
      PROVE  UNCHANGED Promise!hvars
  BY <1>0 DEF Promise!hvars
<1>1. ASSUME NEW w \in Records, Enter(w) PROVE Promise!HNext \/ UNCHANGED Promise!hvars
  <2>1. /\ pc[w] = "idle" /\ StatusOf(w) = "new" /\ HistoryPhase' = HistoryPhase
        /\ \A v \in Records : v # w => StatusOf(v)' = StatusOf(v)
    BY <1>1 DEF Enter, RecTypes, StatusOf, HistoryPhase
  <2>2. CASE recordClosed
    <3>1. StatusOf(w)' = "refused" /\ HistoryPhase # "open"
      BY <1>1, <2>2 DEF Enter, RecTypes, StatusOf, HistoryPhase
    <3>2. Promise!HRefuse(w)
      BY <2>1, <3>1, OneBecomes DEF Promise!HRefuse
    <3> QED  BY <3>2 DEF Promise!HNext
  <2>3. CASE ~ recordClosed
    <3>1. StatusOf(w)' = "new"
      BY <1>1, <2>3 DEF Enter, RecTypes, StatusOf
    <3> QED  BY <1>0, <2>1, <3>1
  <2> QED  BY <2>2, <2>3
<1>2. ASSUME NEW w \in Records, Send(w) PROVE Promise!HNext \/ UNCHANGED Promise!hvars
  <2>1. /\ pc[w] = "sending" /\ StatusOf(w) = "new" /\ HistoryPhase' = HistoryPhase
        /\ \A v \in Records : v # w => StatusOf(v)' = StatusOf(v)
    BY <1>2 DEF Send, RecTypes, StatusOf, HistoryPhase
  <2>2. HistoryPhase = "open"
    BY <2>1 DEF Shutdown, HistoryPhase
  <2>3. w \notin stored' /\ w \notin failed' /\ pc'[w] = "accepted"
    BY <1>2, <2>1 DEF Send, OnePlace, Settled, RecTypes
  <2>4. StatusOf(w)' = "taken"
    BY <2>3 DEF StatusOf
  <2>5. Promise!HTake(w)
    BY <2>1, <2>2, <2>4, OneBecomes DEF Promise!HTake
  <2> QED  BY <2>5 DEF Promise!HNext
<1>3. CASE TakeRecord
  BY <1>0, <1>3 DEF TakeRecord, StatusOf, HistoryPhase
<1>4. CASE WriteRecord
  <2>1. /\ hand \in Records /\ pc[hand] = "accepted" /\ hand \notin stored /\ hand \notin failed
        /\ recLoc # "gone"
    BY <1>4 DEF WriteRecord, RecTypes, OnePlace, Shutdown, Settled
  <2>2. HistoryPhase' = HistoryPhase /\ HistoryPhase # "closed"
    BY <1>4, <2>1 DEF WriteRecord, HistoryPhase
  <2>3. PICK h \in Records : h = hand
    BY <2>1
  <2>4. pc' = pc /\ (h \in stored' \/ h \in failed')
    BY <1>4, <2>3 DEF WriteRecord
  <2>5. StatusOf(h) = "taken" /\ StatusOf(h)' \in {"stored", "failed"}
    BY <2>1, <2>3, <2>4 DEF StatusOf
  <2>6. PICK st \in {"stored", "failed"} : StatusOf(h)' = st
    BY <2>5
  <2>7. \A v \in Records : v # h => StatusOf(v)' = StatusOf(v)
    BY <1>4, <2>3 DEF WriteRecord, StatusOf
  <2>8. Promise!Becomes(h, "taken", st)
    BY <2>2, <2>5, <2>6, <2>7, OneBecomes
  <2>9. Promise!HSettle(h)
    BY <2>2, <2>8 DEF Promise!HSettle
  <2> QED  BY <2>9 DEF Promise!HNext
<1>5. CASE StopRecords
  BY <1>0, <1>5 DEF StopRecords, StatusOf, HistoryPhase
<1>6. CASE RecordsDrained
  <2>1. recordClosed /\ recQ = << >> /\ hand = NoRecord /\ Len(recQ) = 0
    BY <1>6, EmptySeq DEF RecordsDrained, Shutdown
  <2>2. HistoryPhase = "closing" /\ HistoryPhase' = "closed"
    BY <1>6, <2>1 DEF RecordsDrained, HistoryPhase
  <2>3. \A v \in Records : StatusOf(v)' = StatusOf(v)
    BY <1>6 DEF RecordsDrained, StatusOf
  <2>4. ASSUME NEW v \in Records PROVE StatusOf(v) # "taken"
    <3>1. pc[v] = "accepted" => v \in stored \/ v \in failed
      BY <2>1, RecordAssumption DEF OnePlace, InQ, Settled
    <3> QED  BY <3>1 DEF StatusOf, RecTypes
  <2>5. Promise!HClose
    BY <2>2, <2>3, <2>4 DEF Promise!HClose
  <2> QED  BY <2>5 DEF Promise!HNext
<1>7. CASE CloseRecords
  <2>1. recLoc = "run" /\ ~ recordClosed
    BY <1>7 DEF CloseRecords, Shutdown, RecTypes
  <2>2. HistoryPhase = "open" /\ HistoryPhase' = "closing"
    BY <1>7, <2>1 DEF CloseRecords, recVars, HistoryPhase
  <2>3. \A v \in Records : StatusOf(v)' = StatusOf(v)
    BY <1>7 DEF CloseRecords, recVars, StatusOf
  <2>4. Promise!HShut
    BY <2>2, <2>3 DEF Promise!HShut
  <2> QED  BY <2>4 DEF Promise!HNext
<1>8. CASE Close \/ CloseBans \/ CloseDB
  BY <1>0, <1>8 DEF Close, CloseBans, CloseDB, recVars, StatusOf, HistoryPhase
<1> QED
  BY <1>1, <1>2, <1>3, <1>4, <1>5, <1>6, <1>7, <1>8 DEF RecordStep, RecordWorker, Closing

\* Whatever is recorded while the store is closed, for any number of handlers and
\* any queue: every step is one that History allows, so a record taken is settled
\* before the history is closed and none is refused before that
\* (sqlite.go:226-242, 331-357, 730-743).  This is ImplementsHistory without
\* its fairness.
THEOREM HistoryKept == Spec => Promise!HInit /\ [][Promise!HNext]_(Promise!hvars)
<1>1. Init => TypeOK /\ RecInv /\ Promise!HInit
  BY TypeInit, RecInit, HistoryInit
<1>2. TypeOK /\ RecInv /\ [Next]_vars => TypeOK' /\ RecInv'
  BY TypeNext, RecNext
<1>3. TypeOK /\ RecInv /\ [Next]_vars => [Promise!HNext]_(Promise!hvars)
  <2> SUFFICES ASSUME TypeOK, RecInv, [Next]_vars
               PROVE  Promise!HNext \/ UNCHANGED Promise!hvars
    OBVIOUS
  <2>1. CASE RecordStep
    BY <2>1, HistoryStep
  <2>2. CASE UNCHANGED recVars /\ UNCHANGED closer
    BY <2>2 DEF recVars, Promise!hvars, StatusOf, HistoryPhase, recordClosed
  <2> QED  BY <2>1, <2>2, Apart DEF vars
<1> QED  BY <1>1, <1>2, <1>3, PTL DEF Spec
-----------------------------------------------------------------------------
(* The end of the record worker. *)

\* The inductive invariant of the record queue.
LEMMA RecInvariance == Spec => []RecInv
<1>1. TypeOK /\ RecInv /\ [Next]_vars => RecInv'
  BY RecNext
<1> QED BY <1>1, RecInit, TypeCorrect, PTL DEF Spec

\* A handler that waits in Record has a worker that receives, for any number of
\* handlers and any size of the queue: Close stops no worker while one of them
\* holds the read lock (sqlite.go:230-241, 731-735).
THEOREM SendersHaveAWorker == Spec => []SendersAreHeard
<1>1. RecInv => SendersAreHeard
  BY DEF RecInv, Shutdown, SendersAreHeard
<1> QED BY <1>1, RecInvariance, PTL

\* What the steps of the worker take from its work.
LEMMA WorkerLeavesLess ==
  ASSUME RecTypes, recordClosed, RecordWorker
  PROVE  RecordsLeft' < RecordsLeft
<1>1. Len(recQ) \in Nat
  BY LenProperties DEF RecTypes
<1>2. CASE TakeRecord
  <2>1. /\ Len(recQ') = Len(recQ) - 1
        /\ hand = NoRecord /\ hand' # NoRecord /\ recLoc' = recLoc
    <3>1. Head(recQ) \in Records /\ Len(Tail(recQ)) = Len(recQ) - 1
      BY <1>2, HeadTailProperties DEF TakeRecord, RecTypes
    <3> QED BY <1>2, <3>1, RecordAssumption DEF TakeRecord
  <2> QED BY <1>1, <2>1 DEF RecordsLeft, RecTypes
<1>3. CASE WriteRecord
  BY <1>1, <1>3 DEF WriteRecord, RecordsLeft, RecTypes
<1>4. CASE StopRecords
  BY <1>1, <1>4 DEF StopRecords, RecordsLeft
<1>5. CASE RecordsDrained
  BY <1>1, <1>5 DEF RecordsDrained, RecordsLeft
<1> QED BY <1>2, <1>3, <1>4, <1>5 DEF RecordWorker

\* From the moment Close has had the lock the work of the record worker only
\* shrinks, by one with each of its steps, so that the wait for it is bounded by
\* what the queue held then, for any size of the queue (sqlite.go:331-357, 731-737).
THEOREM DrainShrinks == Spec => DrainOnlyShrinks
<1>1. TypeOK /\ RecInv /\ [Next]_vars =>
        [recordClosed =>
           /\ recordClosed' /\ RecordsLeft' <= RecordsLeft
           /\ RecordWorker => RecordsLeft' < RecordsLeft]_vars
  <2> SUFFICES ASSUME TypeOK, RecInv, Next, recordClosed
               PROVE  /\ recordClosed' /\ RecordsLeft' <= RecordsLeft
                      /\ RecordWorker => RecordsLeft' < RecordsLeft
    OBVIOUS
  <2>1. RecTypes /\ RecTypes'
    BY TypeNext DEF TypeOK, RecTypes
  <2>2. Len(recQ) \in Nat /\ RecordsLeft \in Int /\ RecordsLeft' \in Int
    <3>1. Len(recQ) \in Nat /\ Len(recQ') \in Nat
      BY <2>1, LenProperties DEF RecTypes
    <3> QED BY <2>1, <3>1 DEF RecordsLeft, RecTypes
  <2>3. CASE RecordWorker
    <3>1. closer' = closer
      BY <2>3 DEF RecordWorker, TakeRecord, WriteRecord, StopRecords, RecordsDrained
    <3>2. RecordsLeft' < RecordsLeft
      BY <2>1, <2>3, WorkerLeavesLess
    <3> QED BY <2>2, <3>1, <3>2 DEF recordClosed
  <2>4. ASSUME NEW w \in Records, Enter(w) PROVE UNCHANGED <<recQ, hand, recLoc, closer>>
    BY <2>4 DEF Enter
  <2>5. ASSUME NEW w \in Records, Send(w) PROVE FALSE
    BY <2>5 DEF Send, RecInv, Shutdown
  <2>6. CASE Close \/ Closing
    <3>1. UNCHANGED <<recQ, hand, recLoc>> /\ recordClosed'
      BY <2>6 DEF Close, Closing, CloseRecords, CloseBans, CloseDB, recVars, recordClosed
    <3>2. ~ RecordWorker
      BY <2>6 DEF RecordWorker, TakeRecord, WriteRecord, StopRecords, RecordsDrained, Close,
                  Closing, CloseRecords, CloseBans, CloseDB
    <3>3. RecordsLeft' = RecordsLeft
      BY <3>1 DEF RecordsLeft
    <3> QED BY <2>2, <3>1, <3>2, <3>3
  <2>7. CASE UNCHANGED <<recQ, hand, recLoc, closer>>
    <3>1. RecordsLeft' = RecordsLeft /\ recordClosed'
      BY <2>7 DEF RecordsLeft, recordClosed
    <3> QED BY <2>1, <2>2, <3>1, WorkerLeavesLess
  <2>8. BanStep => UNCHANGED <<recQ, hand, recLoc, closer>>
    BY Apart DEF recVars
  <2> QED BY <2>3, <2>4, <2>5, <2>6, <2>7, <2>8, Apart DEF RecordStep
<1> QED BY <1>1, RecInvariance, TypeCorrect, PTL DEF Spec, DrainOnlyShrinks
-----------------------------------------------------------------------------
(* The way of a change to the table. *)

\* A batch that is written takes its changes with it, and the row of each entry
\* is what the batch held last of it.
LEMMA FlushWrites ==
  ASSUME BanTypes, batch # << >>, Flush(batch), batch' = << >>, banQ' = banQ
  PROVE  BatchWritten
<1>1. batch \in Seq(Ops) /\ banQ \in Seq(Ops)
  BY DEF BanTypes
<1>2. Waiting' = banQ
  BY <1>1, ConcatEmptySeq DEF Waiting
<1>3. ASSUME NEW k \in 1 .. Len(batch)
      PROVE  batch[k].ip \in spoilt' \/ row'[batch[k].ip] = Merged(batch, batch[k].ip)
  <2>1. batch[k].ip \in IP
    <3>1. batch[k] \in Ops
      BY <1>1, ElementOfSeq
    <3> QED  BY <3>1 DEF Ops
  <2>2. Places(batch, batch[k].ip) # {}
    BY <1>3 DEF Places
  <2> QED  BY <2>1, <2>2 DEF Flush
<1> QED  BY <1>2, <1>3 DEF BatchWritten

\* Every step of the worker shows in its batch or its place.
LEMMA WorkerShows == BanTypes /\ BanWorker => ~UNCHANGED <<batch, banLoc>>
<1> SUFFICES ASSUME BanTypes, BanWorker, UNCHANGED <<batch, banLoc>> PROVE FALSE
  OBVIOUS
<1>1. Len(batch) \in Nat
  BY LenProperties DEF BanTypes
<1>2. CASE TakeBan
  BY <1>1, <1>2, TakeBanMoves
<1>3. CASE FlushBatch \/ StopBans \/ BansDrained \/ LastFlush
  BY <1>3 DEF FlushBatch, StopBans, BansDrained, LastFlush
<1> QED  BY <1>2, <1>3 DEF BanWorker

\* For any queue and any batch, every change that waits gets nearer to the table
\* with each step of the worker, in the order in which changes came, and leaves
\* with a transaction that writes the newest of its entry: with the fairness of
\* Spec, what was queued before the worker is stopped is written or its
\* transaction has failed (sqlite.go:631-671, 679-684).
THEOREM QueueMovesUp == Spec => ChangesMoveUp
<1> DEFINE Moved ==
  \/ BanWorker /\ BatchWritten
  \/ BanWorker /\ Waiting' = Waiting /\ Len(batch') = Len(batch) + 1 /\ banLoc' = banLoc
  \/ /\ BanWorker
     /\ UNCHANGED <<batch, banQ>>
     /\ <<banLoc, banLoc'>> \in {<<"run", "drain">>, <<"drain", "last">>, <<"last", "gone">>}
     /\ banLoc = "drain" => banQ = << >>
     /\ banLoc = "last" => batch = << >>
  \/ /\ ~BanWorker
     /\ UNCHANGED <<batch, banLoc>>
     /\ Waiting' = Waiting \/ \E o \in Ops : Waiting' = Append(Waiting, o)
<1>1. TypeOK /\ [Next]_vars => [Moved]_vars
  <2> SUFFICES ASSUME TypeOK, Next PROVE Moved
    OBVIOUS
  <2>0. BanTypes /\ batch \in Seq(Ops) /\ banQ \in Seq(Ops)
    BY TypesSplit DEF BanTypes
  <2>1. CASE TakeBan
    BY <2>0, <2>1, TakeBanMoves DEF TakeBan, BanWorker
  <2>2. CASE FlushBatch
    <3>1. BatchWritten
      BY <2>0, <2>2, FlushWrites DEF FlushBatch
    <3> QED  BY <2>2, <3>1 DEF BanWorker
  <2>3. CASE StopBans
    BY <2>3 DEF StopBans, BanWorker
  <2>4. CASE BansDrained
    BY <2>4 DEF BansDrained, BanWorker
  <2>5. CASE LastFlush /\ batch = << >>
    BY <2>5 DEF LastFlush, BanWorker
  <2>6. CASE LastFlush /\ batch # << >>
    <3>1. BatchWritten
      BY <2>0, <2>6, FlushWrites DEF LastFlush
    <3> QED  BY <2>6, <3>1 DEF BanWorker
  <2>7. CASE UNCHANGED <<batch, banQ, banLoc>>
    <3>1. ~BanWorker
      BY <2>0, <2>7, WorkerShows
    <3>2. Waiting' = Waiting
      BY <2>7 DEF Waiting
    <3> QED  BY <2>7, <3>1, <3>2
  <2>8. ASSUME NEW b \in Banners, Change(b) \/ Bypass(b) PROVE UNCHANGED <<batch, banQ, banLoc>>
    BY <2>8 DEF Change, Bypass
  <2>9. ASSUME NEW b \in Banners, Enqueue(b) PROVE Moved
    <3>1. CASE banQ' = banQ
      <4>1. UNCHANGED <<batch, banQ, banLoc>>
        BY <2>9, <3>1 DEF Enqueue
      <4> QED  BY <2>7, <4>1
    <3>2. CASE banQ' = Append(banQ, op[b])
      <4>1. op[b] \in Ops
        BY <2>0, <2>9 DEF Enqueue, BanTypes
      <4>2. UNCHANGED <<batch, banLoc>>
        BY <2>9 DEF Enqueue
      <4>3. Waiting' = Append(Waiting, op[b])
        <5>1. /\ Append(banQ, op[b]) = banQ \o <<op[b]>> /\ <<op[b]>> \in Seq(Ops)
              /\ batch \o banQ \in Seq(Ops)
          BY <2>0, <4>1, AppendIsConcat, ConcatProperties
        <5>2. Append(batch \o banQ, op[b]) = (batch \o banQ) \o <<op[b]>>
          BY <4>1, <5>1, AppendIsConcat
        <5>3. (batch \o banQ) \o <<op[b]>> = batch \o (banQ \o <<op[b]>>)
          BY <2>0, <5>1, ConcatAssociative
        <5> QED  BY <3>2, <4>2, <5>1, <5>2, <5>3 DEF Waiting
      <4>4. ~BanWorker
        BY <2>0, <4>2, WorkerShows
      <4> QED  BY <4>1, <4>2, <4>3, <4>4
    <3> QED  BY <2>9, <3>1, <3>2 DEF Enqueue
  <2>10. CASE UNCHANGED banVars
    BY <2>7, <2>10 DEF banVars
  <2>11. Next => BanStep \/ UNCHANGED banVars
    BY Apart
  <2> HIDE DEF Moved
  <2> QED
    BY <2>1, <2>2, <2>3, <2>4, <2>5, <2>6, <2>7, <2>8, <2>9, <2>10, <2>11 DEF BanStep, BanWorker
<1>2. Spec => [][Moved]_vars
  BY <1>1, TypeCorrect, PTL DEF Spec
<1> QED  BY <1>2 DEF ChangesMoveUp
=============================================================================
