-------------------------- MODULE EventHubProofs --------------------------
(***************************************************************************)
(* Type correctness of EventHub and NothingSkipped, for any number of      *)
(* streams, any room and any number of events.  What a browser has and     *)
(* what is on its way to it is one sequence: receiving and writing move a  *)
(* border inside it, and only Broadcast makes it longer.  A broken stream  *)
(* is noticed, and its way out goes one way.                               *)
(***************************************************************************)
EXTENDS EventHub, SequenceTheorems, TLAPS

\* q is E in increasing order.
Lists(q, E) ==
  /\ {q[k] : k \in 1 .. Len(q)} = E
  /\ \A k \in 2 .. Len(q) : q[k - 1] < q[k]

Line(s) == got[s] \o Underway(s)

\* An event is held while it is written, and only then.
Holding == \A s \in Streams : hand[s] # 0 <=> pc[s] = "write"

\* A stream that is yet to come has nothing.
Fresh == \A s \in Streams :
  pc[s] = "new" => chan[s] = << >> /\ got[s] = << >> /\ missed[s] = {}

\* Only a broken connection ends a stream.
Cut == /\ \A s \in ctx : conn[s] # "up"
       /\ \A s \in Streams : pc[s] = "left" => conn[s] # "up"

Inv == TypeOK /\ Holding /\ Fresh /\ Cut /\ NothingSkipped
-----------------------------------------------------------------------------
(* Sequences. *)

\* A greater number at the end lists one more.
LEMMA ListsAppend ==
  ASSUME NEW q \in Seq(Nat), NEW e \in Nat, NEW E,
         Lists(q, E), \A x \in E : x < e
  PROVE  Lists(Append(q, e), E \cup {e})
<1> DEFINE t == Append(q, e)
<1>1. /\ Len(q) \in Nat /\ Len(t) = Len(q) + 1
      /\ \A i \in 1 .. Len(q) : t[i] = q[i]
      /\ t[Len(q) + 1] = e
  BY AppendProperties, LenProperties
<1>2. {t[k] : k \in 1 .. Len(t)} = {q[k] : k \in 1 .. Len(q)} \cup {e}
  <2> HIDE DEF t
  <2>1. ASSUME NEW k \in 1 .. Len(t) PROVE t[k] \in {q[j] : j \in 1 .. Len(q)} \cup {e}
    <3>1. CASE k = Len(q) + 1
      BY <1>1, <3>1
    <3>2. CASE k # Len(q) + 1
      BY <1>1, <3>2
    <3> QED  BY <3>1, <3>2
  <2>2. ASSUME NEW k \in 1 .. Len(q) PROVE q[k] \in {t[j] : j \in 1 .. Len(t)}
    BY <1>1
  <2>3. e \in {t[j] : j \in 1 .. Len(t)}
    <3>1. Len(q) + 1 \in 1 .. Len(t)
      BY <1>1
    <3> QED  BY <1>1, <3>1
  <2> QED  BY <2>1, <2>2, <2>3
<1>3. ASSUME NEW k \in 2 .. Len(t) PROVE t[k - 1] < t[k]
  <2> HIDE DEF t
  <2>1. CASE k = Len(q) + 1
    <3>1. k - 1 \in 1 .. Len(q) /\ t[k - 1] = q[k - 1]
      BY <1>1, <2>1
    <3>2. q[k - 1] \in E
      BY <3>1 DEF Lists
    <3> QED  BY <1>1, <2>1, <3>1, <3>2
  <2>2. CASE k # Len(q) + 1
    <3>1. k \in 2 .. Len(q) /\ k \in 1 .. Len(q) /\ k - 1 \in 1 .. Len(q)
      BY <1>1, <2>2
    <3> QED  BY <1>1, <3>1 DEF Lists
  <2> QED  BY <2>1, <2>2
<1> QED  BY <1>2, <1>3 DEF Lists

\* An event at the end of the second part is at the end of the whole.
LEMMA ConcatAppend ==
  ASSUME NEW S, NEW q \in Seq(S), NEW r \in Seq(S), NEW e \in S
  PROVE  q \o Append(r, e) = Append(q \o r, e)
<1>1. <<e>> \in Seq(S) /\ q \o r \in Seq(S)
  BY ConcatProperties
<1>2. q \o Append(r, e) = q \o (r \o <<e>>)
  BY AppendIsConcat
<1>3. Append(q \o r, e) = (q \o r) \o <<e>>
  BY <1>1, AppendIsConcat
<1> QED  BY <1>1, <1>2, <1>3, ConcatAssociative

\* An event may be at the end of the first part or at the head of the second.
LEMMA AppendConcat ==
  ASSUME NEW S, NEW q \in Seq(S), NEW r \in Seq(S), NEW e \in S
  PROVE  Append(q, e) \o r = q \o (<<e>> \o r)
<1>1. <<e>> \in Seq(S)
  OBVIOUS
<1>2. Append(q, e) = q \o <<e>>
  BY AppendIsConcat
<1> QED  BY <1>1, <1>2, ConcatAssociative

\* The head and the tail are the sequence.
LEMMA HeadTail ==
  ASSUME NEW S, NEW q \in Seq(S), q # << >>
  PROVE  <<Head(q)>> \o Tail(q) = q
<1>1. Head(q) \in S /\ Tail(q) \in Seq(S) /\ Len(Tail(q)) = Len(q) - 1
      /\ \A i \in 1 .. Len(Tail(q)) : Tail(q)[i] = q[i + 1]
  BY HeadTailProperties
<1>2. Len(q) \in Nat \ {0} /\ <<Head(q)>> \in Seq(S) /\ Head(q) = q[1]
  BY <1>1, EmptySeq
<1> DEFINE t == <<Head(q)>> \o Tail(q)
<1>3. t \in Seq(S) /\ Len(t) = Len(q)
      /\ \A i \in 1 .. Len(q) : t[i] = IF i <= 1 THEN Head(q) ELSE Tail(q)[i - 1]
  BY <1>1, <1>2, ConcatProperties
<1>4. \A i \in 1 .. Len(q) : t[i] = q[i]
  <2> HIDE DEF t
  <2> QED  BY <1>1, <1>2, <1>3
<1> QED  BY <1>3, <1>4, SeqEqual

\* Numbers up to n are numbers up to n + 1, and natural numbers.
LEMMA Wider ==
  ASSUME NEW m \in Nat
  PROVE  /\ Seq(1 .. m) \subseteq Seq(1 .. m + 1)
         /\ Seq(1 .. m) \subseteq Seq(Nat)
<1>1. 1 .. m \subseteq 1 .. m + 1 /\ 1 .. m \subseteq Nat
  OBVIOUS
<1>2. ASSUME NEW q \in Seq(1 .. m) PROVE q \in Seq(1 .. m + 1) /\ q \in Seq(Nat)
  BY <1>1, SeqMonotonic
<1> QED  BY <1>2
-----------------------------------------------------------------------------
(* Types. *)

\* The initial values are in their domains.
LEMMA TypeInit == Init => TypeOK
<1> SUFFICES ASSUME Init PROVE TypeOK
  OBVIOUS
<1>1. << >> \in Seq(1 .. n) /\ Len(<< >>) = 0
  BY EmptySeq
<1> QED  BY <1>1, CapAssumption DEF Init, TypeOK

\* An event is added where there is room.
LEMMA TypeBroadcast == TypeOK /\ Broadcast => TypeOK'
<1> SUFFICES ASSUME TypeOK, Broadcast PROVE TypeOK'
  OBVIOUS
<1>1. n \in Nat /\ n' = n + 1 /\ n' \in 0 .. MaxEvents
  BY CapAssumption DEF TypeOK, Broadcast
<1>2. ASSUME NEW s \in Streams PROVE chan'[s] \in Seq(1 .. n') /\ Len(chan'[s]) <= Cap
  <2>1. chan[s] \in Seq(1 .. n') /\ Len(chan[s]) \in Nat /\ n + 1 \in 1 .. n'
    BY <1>1, Wider, LenProperties DEF TypeOK
  <2>2. Append(chan[s], n + 1) \in Seq(1 .. n') /\ Len(Append(chan[s], n + 1)) = Len(chan[s]) + 1
    BY <2>1, AppendProperties
  <2>3. chan'[s] = chan[s] \/ (~Full(s) /\ chan'[s] = Append(chan[s], n + 1))
    BY DEF Broadcast, Offered
  <2>4. Len(chan[s]) <= Cap /\ (~Full(s) => Len(chan[s]) + 1 <= Cap)
    BY <2>1, CapAssumption DEF Full, TypeOK
  <2> QED  BY <2>1, <2>2, <2>3, <2>4
<1>3. chan' \in [Streams -> Seq(1 .. n')]
  BY <1>2 DEF Broadcast
<1>4. missed' \in [Streams -> SUBSET (1 .. n')]
  <2>1. ASSUME NEW s \in Streams PROVE missed'[s] \in SUBSET (1 .. n')
    <3>1. missed[s] \in SUBSET (1 .. n)
      BY DEF TypeOK
    <3>2. missed'[s] \in {missed[s], missed[s] \cup {n + 1}}
      BY DEF Broadcast
    <3> QED  BY <1>1, <3>1, <3>2
  <2> QED  BY <2>1 DEF Broadcast
<1>5. got' \in [Streams -> Seq(1 .. n')]
  BY <1>1, Wider DEF TypeOK, Broadcast
<1>6. hand' \in [Streams -> 0 .. n'] /\ since' \in [Streams -> 0 .. n']
  BY <1>1 DEF TypeOK, Broadcast
<1> QED  BY <1>1, <1>2, <1>3, <1>4, <1>5, <1>6 DEF TypeOK, Broadcast

\* Every other action is of one stream.
LEMMA TypeStream ==
  ASSUME NEW s \in Streams, TypeOK, Holding,
         \/ Subscribe(s) \/ Receive(s) \/ Write(s) \/ Unsubscribe(s)
         \/ WriteTimeout(s) \/ Disconnect(s)
  PROVE  TypeOK'
<1>0. n \in Nat /\ n \in 0 .. n
  BY CapAssumption DEF TypeOK
<1>1. CASE Subscribe(s)
  BY <1>0, <1>1 DEF TypeOK, Subscribe
<1>2. CASE Receive(s)
  <2>1. Head(chan[s]) \in 1 .. n /\ Tail(chan[s]) \in Seq(1 .. n)
        /\ Len(Tail(chan[s])) = Len(chan[s]) - 1
    BY <1>2, HeadTailProperties DEF TypeOK, Receive
  <2>2. Len(chan[s]) \in Nat
    BY LenProperties DEF TypeOK
  <2>3. chan' \in [Streams -> Seq(1 .. n)] /\ \A r \in Streams : Len(chan'[r]) <= Cap
    BY <1>2, <2>1, <2>2, CapAssumption DEF TypeOK, Receive
  <2>4. hand' \in [Streams -> 0 .. n]
    BY <1>2, <2>1 DEF TypeOK, Receive
  <2>5. pc' \in [Streams -> {"new", "select", "write", "left"}]
    BY <1>2 DEF TypeOK, Receive
  <2>6. subs' = {r \in Streams : pc'[r] \in {"select", "write"}}
    BY <1>2 DEF TypeOK, Receive
  <2> QED  BY <1>2, <2>3, <2>4, <2>5, <2>6 DEF TypeOK, Receive
<1>3. CASE Write(s)
  <2>1. CASE conn[s] = "up"
    <3>1. got[s] \in Seq(1 .. n) /\ hand[s] \in 1 .. n
      BY <1>0, <1>3 DEF TypeOK, Holding, Write
    <3>2. Append(got[s], hand[s]) \in Seq(1 .. n)
      BY <3>1, AppendProperties
    <3>3. got' \in [Streams -> Seq(1 .. n)]
      BY <1>3, <2>1, <3>2 DEF TypeOK, Write
    <3>4. hand' \in [Streams -> 0 .. n] /\ pc' \in [Streams -> {"new", "select", "write", "left"}]
      BY <1>0, <1>3 DEF TypeOK, Write
    <3>5. subs' = {r \in Streams : pc'[r] \in {"select", "write"}}
      BY <1>3 DEF TypeOK, Write
    <3> QED  BY <1>3, <2>1, <3>3, <3>4, <3>5 DEF TypeOK, Write
  <2>2. CASE conn[s] # "up"
    BY <1>0, <1>3, <2>2 DEF TypeOK, Write
  <2> QED  BY <2>1, <2>2
<1>4. CASE Unsubscribe(s)
  <2>1. << >> \in Seq(1 .. n) /\ Len(<< >>) = 0
    BY EmptySeq
  <2> QED  BY <1>4, <2>1, CapAssumption DEF TypeOK, Unsubscribe
<1>5. CASE WriteTimeout(s)
  BY <1>5 DEF TypeOK, WriteTimeout
<1>6. CASE Disconnect(s)
  BY <1>6 DEF TypeOK, Disconnect
<1> QED  BY <1>1, <1>2, <1>3, <1>4, <1>5, <1>6
-----------------------------------------------------------------------------
(* Held events, streams to come, broken connections. *)

\* At first no stream has anything.
LEMMA SmallInit == Init => Holding /\ Fresh /\ Cut /\ NothingSkipped
  BY DEF Init, Holding, Fresh, Cut, NothingSkipped

\* Every step keeps the three facts about single streams.
LEMMA SmallNext ==
  TypeOK /\ Holding /\ Fresh /\ Cut /\ [Next]_vars => Holding' /\ Fresh' /\ Cut'
<1> SUFFICES ASSUME TypeOK, Holding, Fresh, Cut, [Next]_vars
             PROVE  Holding' /\ Fresh' /\ Cut'
  OBVIOUS
<1>1. CASE Broadcast
  <2>1. ASSUME NEW s \in Streams, pc[s] = "new" PROVE s \notin subs
    BY <2>1 DEF TypeOK
  <2> QED  BY <1>1, <2>1 DEF Broadcast, Holding, Fresh, Cut
<1>2. ASSUME NEW s \in Streams, Subscribe(s) PROVE Holding' /\ Fresh' /\ Cut'
  BY <1>2 DEF Subscribe, TypeOK, Holding, Fresh, Cut
<1>3. ASSUME NEW s \in Streams, Receive(s) PROVE Holding' /\ Fresh' /\ Cut'
  <2>1. Head(chan[s]) # 0
    BY <1>3, HeadTailProperties DEF Receive, TypeOK
  <2>2. Holding'
    BY <1>3, <2>1 DEF Receive, TypeOK, Holding
  <2> QED  BY <1>3, <2>2 DEF Receive, TypeOK, Fresh, Cut
<1>4. ASSUME NEW s \in Streams, Write(s) PROVE Holding' /\ Fresh' /\ Cut'
  BY <1>4 DEF Write, TypeOK, Holding, Fresh, Cut
<1>5. ASSUME NEW s \in Streams, Unsubscribe(s) PROVE Holding' /\ Fresh' /\ Cut'
  BY <1>5 DEF Unsubscribe, TypeOK, Holding, Fresh, Cut
<1>6. ASSUME NEW s \in Streams, WriteTimeout(s) PROVE Holding' /\ Fresh' /\ Cut'
  BY <1>6 DEF WriteTimeout, TypeOK, Holding, Fresh, Cut
<1>7. ASSUME NEW s \in Streams, Disconnect(s) PROVE Holding' /\ Fresh' /\ Cut'
  BY <1>7 DEF Disconnect, TypeOK, Holding, Fresh, Cut
<1>8. CASE UNCHANGED vars
  BY <1>8 DEF vars, Holding, Fresh, Cut
<1> QED
  BY <1>1, <1>2, <1>3, <1>4, <1>5, <1>6, <1>7, <1>8 DEF Next, Serve

\* Every step keeps the types.
LEMMA TypeNext == TypeOK /\ Holding /\ [Next]_vars => TypeOK'
<1> SUFFICES ASSUME TypeOK, Holding, [Next]_vars PROVE TypeOK'
  OBVIOUS
<1>1. CASE UNCHANGED vars
  BY <1>1 DEF vars, TypeOK
<1> QED  BY <1>1, TypeBroadcast, TypeStream DEF Next, Serve
-----------------------------------------------------------------------------
(* Nothing is skipped. *)

Due(s) == (since[s] + 1 .. n) \ missed[s]

Skipless(s) == conn[s] = "up" /\ pc[s] # "new" => Lists(Line(s), Due(s))

\* NothingSkipped, stream by stream.
LEMMA SkiplessAll == NothingSkipped <=> \A s \in Streams : Skipless(s)
  BY DEF NothingSkipped, Skipless, Lists, Line, Due

\* What another stream does changes nothing for this one.
LEMMA OtherStream ==
  ASSUME NEW r \in Streams, Skipless(r),
         n' = n, since'[r] = since[r], missed'[r] = missed[r], got'[r] = got[r],
         hand'[r] = hand[r], chan'[r] = chan[r],
         pc'[r] = pc[r], conn'[r] = "up" => conn[r] = "up"
  PROVE  Skipless(r)'
<1>1. Line(r)' = Line(r) /\ Due(r)' = Due(r)
  BY DEF Line, Underway, Due
<1> QED  BY <1>1 DEF Skipless, Lists

\* What a browser has and what is under way are sequences of numbers.
LEMMA LineType ==
  ASSUME NEW s \in Streams, TypeOK, Holding
  PROVE  /\ chan[s] \in Seq(Nat) /\ got[s] \in Seq(Nat) /\ hand[s] \in Nat
         /\ Underway(s) \in Seq(Nat) /\ Line(s) \in Seq(Nat)
<1>1. n \in Nat
  BY CapAssumption DEF TypeOK
<1>2. chan[s] \in Seq(Nat) /\ got[s] \in Seq(Nat) /\ hand[s] \in Nat
  BY <1>1, Wider DEF TypeOK
<1>3. << >> \in Seq(Nat) /\ <<hand[s]>> \in Seq(Nat)
  BY <1>2
<1>4. Underway(s) \in Seq(Nat)
  BY <1>2, <1>3, ConcatProperties DEF Underway
<1> QED  BY <1>2, <1>4, ConcatProperties DEF Line

\* An event makes the line of a stream longer, or is missed by it.
LEMMA BroadcastSkips ==
  ASSUME NEW s \in Streams, TypeOK, Holding, Cut, Skipless(s), Broadcast
  PROVE  Skipless(s)'
<1> SUFFICES ASSUME conn'[s] = "up", pc'[s] # "new" PROVE Lists(Line(s)', Due(s)')
  BY DEF Skipless, Lists
<1>1. /\ n \in Nat /\ n' = n + 1 /\ since[s] \in 0 .. n /\ missed[s] \subseteq 1 .. n
      /\ since' = since /\ got' = got /\ hand' = hand
  BY CapAssumption DEF TypeOK, Broadcast
<1>2. conn[s] = "up" /\ pc[s] # "new" /\ s \in subs
  BY DEF Broadcast, Cut, TypeOK
<1>3. Lists(Line(s), Due(s))
  BY <1>2 DEF Skipless
<1>4. CASE Full(s)
  <2>1. Line(s)' = Line(s)
    BY <1>1, <1>2, <1>4 DEF Broadcast, Offered, Line, Underway
  <2>2. missed'[s] = missed[s] \cup {n + 1}
    BY <1>2, <1>4 DEF Broadcast
  <2>3. Due(s)' = Due(s)
    BY <1>1, <2>2 DEF Due
  <2> QED  BY <1>3, <2>1, <2>3
<1>5. CASE ~Full(s)
  <2>1. chan'[s] = Append(chan[s], n + 1) /\ missed'[s] = missed[s]
    BY <1>2, <1>5 DEF Broadcast, Offered
  <2>2. n + 1 \in Nat
    BY <1>1
  <2>3. Underway(s)' = Append(Underway(s), n + 1)
    <3>1. << >> \in Seq(Nat) /\ <<hand[s]>> \in Seq(Nat)
      BY LineType
    <3>2. \A q \in {<< >>, <<hand[s]>>} : q \o Append(chan[s], n + 1) = Append(q \o chan[s], n + 1)
      BY <2>2, <3>1, LineType, ConcatAppend
    <3> QED  BY <1>1, <2>1, <3>2 DEF Underway
  <2>4. Line(s)' = Append(Line(s), n + 1)
    <3>1. \A a, b \in Seq(Nat), e \in Nat : a \o Append(b, e) = Append(a \o b, e)
      BY ConcatAppend
    <3>2. got[s] \in Seq(Nat) /\ Underway(s) \in Seq(Nat)
      BY LineType
    <3>3. got[s] \o Append(Underway(s), n + 1) = Append(got[s] \o Underway(s), n + 1)
      BY <2>2, <3>1, <3>2, Zenon
    <3> QED  BY <1>1, <2>3, <3>3 DEF Line
  <2>5. Due(s)' = Due(s) \cup {n + 1} /\ \A x \in Due(s) : x < n + 1
    BY <1>1, <2>1 DEF Due
  <2>6. Lists(Append(Line(s), n + 1), Due(s) \cup {n + 1})
    BY <1>3, <2>2, <2>5, LineType, ListsAppend
  <2> QED  BY <2>4, <2>5, <2>6
<1> QED  BY <1>4, <1>5

\* A stream begins with nothing due.
LEMMA SubscribeSkips ==
  ASSUME NEW s \in Streams, TypeOK, Holding, Fresh, Subscribe(s)
  PROVE  Skipless(s)'
<1>1. /\ chan'[s] = << >> /\ got'[s] = << >> /\ hand'[s] = 0
      /\ since'[s] = n /\ n' = n /\ n \in Nat
  BY CapAssumption DEF Subscribe, TypeOK, Holding, Fresh
<1>2. << >> \in Seq(Nat)
  BY EmptySeq
<1>3. << >> \o << >> = << >> /\ Len(<< >>) = 0
  BY <1>2, ConcatEmptySeq, EmptySeq
<1>4. Line(s)' = << >>
  BY <1>1, <1>3 DEF Line, Underway
<1>5. Due(s)' = {}
  BY <1>1 DEF Due
<1>6. Lists(<< >>, {})
  BY <1>3 DEF Lists
<1> QED  BY <1>4, <1>5, <1>6 DEF Skipless, Lists

\* A receive moves an event inside the line.
LEMMA ReceiveSkips ==
  ASSUME NEW s \in Streams, TypeOK, Holding, Skipless(s), Receive(s)
  PROVE  Skipless(s)'
<1>1. chan[s] \in Seq(Nat) /\ chan[s] # << >> /\ n \in Nat /\ chan[s] \in Seq(1 .. n)
  BY LineType, CapAssumption DEF Receive, TypeOK
<1>2. hand[s] = 0 /\ hand'[s] = Head(chan[s]) /\ hand'[s] # 0 /\ chan'[s] = Tail(chan[s])
  <2>1. Head(chan[s]) \in 1 .. n
    BY <1>1, HeadTailProperties
  <2> QED  BY <1>1, <2>1 DEF Receive, TypeOK, Holding
<1>3. Underway(s) = chan[s] /\ Underway(s)' = chan[s]
  BY <1>1, <1>2, ConcatEmptySeq, HeadTail DEF Underway
<1>4. Line(s)' = Line(s) /\ Due(s)' = Due(s)
  BY <1>3 DEF Line, Due, Receive
<1> QED  BY <1>4 DEF Skipless, Lists, Receive, TypeOK

\* A write that gets through moves it on to the browser.
LEMMA WriteSkips ==
  ASSUME NEW s \in Streams, TypeOK, Holding, Skipless(s), Write(s)
  PROVE  Skipless(s)'
<1> SUFFICES ASSUME conn'[s] = "up" PROVE Skipless(s)'
  BY DEF Skipless
<1>1. /\ hand[s] # 0 /\ hand'[s] = 0 /\ chan'[s] = chan[s]
      /\ got'[s] = Append(got[s], hand[s]) /\ conn[s] = "up" /\ pc[s] = "write"
  BY DEF Write, TypeOK, Holding
<1>2. Line(s) = got[s] \o (<<hand[s]>> \o chan[s])
  BY <1>1 DEF Line, Underway
<1>3. Line(s)' = Append(got[s], hand[s]) \o chan[s]
  BY <1>1, LineType, ConcatEmptySeq DEF Line, Underway
<1>4. Append(got[s], hand[s]) \o chan[s] = got[s] \o (<<hand[s]>> \o chan[s])
  <2>1. \A a, c \in Seq(Nat), e \in Nat : Append(a, e) \o c = a \o (<<e>> \o c)
    BY AppendConcat
  <2>2. got[s] \in Seq(Nat) /\ chan[s] \in Seq(Nat) /\ hand[s] \in Nat
    BY LineType
  <2> QED  BY <2>1, <2>2, Zenon
<1>5. Line(s)' = Line(s) /\ Due(s)' = Due(s)
  BY <1>2, <1>3, <1>4 DEF Due, Write
<1> QED  BY <1>1, <1>5 DEF Skipless, Lists

\* Every step keeps NothingSkipped.
LEMMA SkipNext == Inv /\ [Next]_vars => NothingSkipped'
<1> SUFFICES ASSUME Inv, [Next]_vars, NEW r \in Streams PROVE Skipless(r)'
  <2>1. NothingSkipped' <=> \A s \in Streams : Skipless(s)'
    BY DEF NothingSkipped, Skipless, Lists, Line, Due
  <2> QED  BY <2>1
<1>1. TypeOK /\ Holding /\ Fresh /\ Cut /\ Skipless(r)
  BY SkiplessAll DEF Inv
<1>2. CASE Broadcast
  BY <1>1, <1>2, BroadcastSkips
<1>3. ASSUME NEW s \in Streams, Subscribe(s) PROVE Skipless(r)'
  <2>1. CASE r = s
    BY <1>1, <1>3, <2>1, SubscribeSkips
  <2>2. CASE r # s
    BY <1>1, <1>3, <2>2, OtherStream DEF Subscribe, TypeOK
  <2> QED  BY <2>1, <2>2
<1>4. ASSUME NEW s \in Streams, Receive(s) PROVE Skipless(r)'
  <2>1. CASE r = s
    BY <1>1, <1>4, <2>1, ReceiveSkips
  <2>2. CASE r # s
    BY <1>1, <1>4, <2>2, OtherStream DEF Receive, TypeOK
  <2> QED  BY <2>1, <2>2
<1>5. ASSUME NEW s \in Streams, Write(s) PROVE Skipless(r)'
  <2>1. CASE r = s
    BY <1>1, <1>5, <2>1, WriteSkips
  <2>2. CASE r # s
    BY <1>1, <1>5, <2>2, OtherStream DEF Write, TypeOK
  <2> QED  BY <2>1, <2>2
<1>6. ASSUME NEW s \in Streams, Unsubscribe(s) PROVE Skipless(r)'
  <2>1. CASE r = s
    BY <1>1, <1>6, <2>1 DEF Unsubscribe, Cut, Skipless
  <2>2. CASE r # s
    BY <1>1, <1>6, <2>2, OtherStream DEF Unsubscribe, TypeOK
  <2> QED  BY <2>1, <2>2
<1>7. ASSUME NEW s \in Streams, WriteTimeout(s) PROVE Skipless(r)'
  BY <1>1, <1>7, OtherStream DEF WriteTimeout, TypeOK
<1>8. ASSUME NEW s \in Streams, Disconnect(s) PROVE Skipless(r)'
  BY <1>1, <1>8, OtherStream DEF Disconnect, TypeOK
<1>9. CASE UNCHANGED vars
  BY <1>1, <1>9, OtherStream DEF vars
<1> QED
  BY <1>2, <1>3, <1>4, <1>5, <1>6, <1>7, <1>8, <1>9 DEF Next, Serve
-----------------------------------------------------------------------------
\* Inv holds in every state of every behaviour.
LEMMA Invariant == Spec => []Inv
<1>1. Init => Inv
  BY TypeInit, SmallInit DEF Inv
<1>2. Inv /\ [Next]_vars => Inv'
  <2> SUFFICES ASSUME Inv, [Next]_vars PROVE Inv'
    OBVIOUS
  <2>1. TypeOK'
    BY TypeNext DEF Inv
  <2>2. Holding' /\ Fresh' /\ Cut'
    BY SmallNext DEF Inv
  <2>3. NothingSkipped'
    BY SkipNext
  <2> QED  BY <2>1, <2>2, <2>3 DEF Inv
<1> QED  BY <1>1, <1>2, PTL DEF Spec

\* Type correctness of the hub: no channel outgrows its room however the
\* streams come, stop reading and leave (events.go:27-50).
THEOREM TypeCorrect == Spec => []TypeOK
<1>1. Inv => TypeOK
  BY DEF Inv
<1> QED  BY <1>1, Invariant, PTL

\* For any number of dashboards and any room: events arrive in their order, none
\* twice, none missing but those that found the channel full (events.go:27-50, 71-91).
THEOREM InOrder == Spec => []NothingSkipped
<1>1. Inv => NothingSkipped
  BY DEF Inv
<1> QED  BY <1>1, Invariant, PTL
-----------------------------------------------------------------------------
(* The way out. *)

\* A stream whose browser is gone has a context that is done, at every step: so
\* the select of ServeSSE has a way on without any event (events.go:73-74).
LEMMA GoneStreamsKnow == Spec => []GoneIsNoticed
<1>1. Init => GoneIsNoticed
  BY DEF Init, GoneIsNoticed
<1>2. TypeOK /\ GoneIsNoticed /\ [Next]_vars => GoneIsNoticed'
  <2> SUFFICES ASSUME TypeOK, GoneIsNoticed, [Next]_vars PROVE GoneIsNoticed'
    OBVIOUS
  <2>1. ASSUME NEW s \in Streams, Disconnect(s) PROVE GoneIsNoticed'
    BY <2>1 DEF Disconnect, TypeOK, GoneIsNoticed
  <2>2. ASSUME NEW s \in Streams, WriteTimeout(s) PROVE GoneIsNoticed'
    BY <2>2 DEF WriteTimeout, TypeOK, GoneIsNoticed
  <2>3. ASSUME NEW s \in Streams, Write(s) PROVE GoneIsNoticed'
    BY <2>3 DEF Write, GoneIsNoticed
  <2>4. CASE \/ UNCHANGED vars \/ Broadcast
             \/ \E s \in Streams : Subscribe(s) \/ Receive(s) \/ Unsubscribe(s)
    BY <2>4 DEF vars, Broadcast, Subscribe, Receive, Unsubscribe, GoneIsNoticed
  <2> QED  BY <2>1, <2>2, <2>3, <2>4 DEF Next, Serve
<1> QED  BY <1>1, <1>2, TypeCorrect, PTL DEF Spec

\* Once broken, a stream is on its way out and stays there: no step repairs its
\* connection or its context, nothing more reaches the browser, and a stream that
\* has left is out of the map, so that no Broadcast sends on its closed channel
\* (events.go:27-50, 63-75).
THEOREM OnlyOut == Spec => NoWayBack
<1> DEFINE Out(s) ==
      /\ s \in ctx => s \in ctx'
      /\ conn[s] # "up" => conn'[s] # "up" /\ got'[s] = got[s]
      /\ conn[s] = "gone" => conn'[s] = "gone"
      /\ pc[s] = "left" => UNCHANGED <<pc[s], chan[s], got[s], missed[s]>> /\ s \notin subs'
<1>1. TypeOK /\ TypeOK' /\ [Next]_vars => [\A s \in Streams : Out(s)]_vars
  <2> SUFFICES ASSUME TypeOK, TypeOK', Next, NEW s \in Streams PROVE Out(s)
    OBVIOUS
  <2>0. (pc[s] = "left" => s \notin subs) /\ (pc'[s] = "left" => s \notin subs')
    BY DEF TypeOK
  <2>1. CASE Broadcast
    BY <2>0, <2>1 DEF Broadcast
  <2>2. ASSUME NEW r \in Streams, Subscribe(r) PROVE Out(s)
    BY <2>0, <2>2 DEF Subscribe, TypeOK
  <2>3. ASSUME NEW r \in Streams, Receive(r) PROVE Out(s)
    BY <2>0, <2>3 DEF Receive, TypeOK
  <2>4. ASSUME NEW r \in Streams, Write(r) PROVE Out(s)
    BY <2>0, <2>4 DEF Write, TypeOK
  <2>5. ASSUME NEW r \in Streams, Unsubscribe(r) PROVE Out(s)
    BY <2>0, <2>5 DEF Unsubscribe, TypeOK
  <2>6. ASSUME NEW r \in Streams, WriteTimeout(r) PROVE Out(s)
    BY <2>0, <2>6 DEF WriteTimeout, TypeOK
  <2>7. ASSUME NEW r \in Streams, Disconnect(r) PROVE Out(s)
    BY <2>0, <2>7 DEF Disconnect, TypeOK
  <2> QED  BY <2>1, <2>2, <2>3, <2>4, <2>5, <2>6, <2>7 DEF Next, Serve
<1>2. Spec => [][\A s \in Streams : Out(s)]_vars
  BY <1>1, TypeCorrect, PTL DEF Spec
<1> QED  BY <1>2 DEF NoWayBack

\* A step of stream r does this to what is ahead of stream s.
LEMMA TurnCounts ==
  ASSUME NEW s \in Streams, NEW r \in Streams, TypeOK, pc[s] \in {"select", "write"},
         Subscribe(r) \/ Serve(r) \/ WriteTimeout(r) \/ Disconnect(r)
  PROVE  /\ Ahead(s)' <= Ahead(s)
         /\ r = s /\ Serve(r) => Ahead(s)' < Ahead(s) \/ pc'[s] = "left"
<1>1. /\ n \in Nat /\ MaxEvents - n \in Nat /\ n' = n
      /\ pc \in [Streams -> {"new", "select", "write", "left"}]
      /\ chan \in [Streams -> Seq(1 .. n)] /\ Len(chan[s]) \in Nat
  BY CapAssumption, LenProperties DEF TypeOK, Subscribe, Serve, Receive, Write, Unsubscribe, WriteTimeout, Disconnect
<1>2. CASE r # s
  <2>1. chan'[s] = chan[s] /\ pc'[s] = pc[s]
    BY <1>1, <1>2 DEF Subscribe, Serve, Receive, Write, Unsubscribe, WriteTimeout, Disconnect
  <2> QED  BY <1>1, <1>2, <2>1 DEF Ahead
<1>3. CASE r = s /\ Receive(s)
  <2>1. Len(chan'[s]) = Len(chan[s]) - 1 /\ pc[s] = "select" /\ pc'[s] = "write"
    BY <1>1, <1>3, HeadTailProperties DEF Receive
  <2> QED  BY <1>1, <2>1 DEF Ahead
<1>4. CASE r = s /\ Write(s)
  <2>1. chan'[s] = chan[s] /\ pc[s] = "write" /\ pc'[s] = "select"
    BY <1>1, <1>4 DEF Write
  <2> QED  BY <1>1, <2>1 DEF Ahead
<1>5. CASE r = s /\ Unsubscribe(s)
  <2>1. chan'[s] = << >> /\ pc[s] = "select" /\ pc'[s] = "left"
    BY <1>1, <1>5 DEF Unsubscribe
  <2>2. Len(chan'[s]) = 0
    BY <2>1, EmptySeq
  <2> QED  BY <1>1, <2>1, <2>2 DEF Ahead
<1>6. CASE r = s /\ (Subscribe(s) \/ WriteTimeout(s) \/ Disconnect(s))
  <2>1. /\ chan'[s] = chan[s] /\ pc'[s] = pc[s]
        /\ ~Serve(s)
    <3>1. chan'[s] = chan[s] /\ pc'[s] = pc[s]
      BY <1>6 DEF Subscribe, WriteTimeout, Disconnect
    <3>2. ~Receive(s) /\ ~Write(s) /\ ~Unsubscribe(s)
      BY <1>1, <3>1 DEF Receive, Write, Unsubscribe
    <3> QED  BY <3>1, <3>2 DEF Serve
  <2> QED  BY <1>1, <1>6, <2>1 DEF Ahead
<1> QED  BY <1>2, <1>3, <1>4, <1>5, <1>6 DEF Serve

\* For any number of events and any room, a stream has only so many turns before it
\* finds nothing but its done context, whoever broadcasts meanwhile: with the
\* fairness of Spec, a broken stream leaves (events.go:40-50, 71-89).
THEOREM StreamsRunOut == Spec => TurnsCount
<1> DEFINE Turn(s) == pc[s] \in {"select", "write"} =>
      /\ Ahead(s)' <= Ahead(s)
      /\ Serve(s) => Ahead(s)' < Ahead(s) \/ pc'[s] = "left"
<1>1. TypeOK /\ [Next]_vars => [\A s \in Streams : Turn(s)]_vars
  <2> SUFFICES ASSUME TypeOK, Next, NEW s \in Streams, pc[s] \in {"select", "write"}
               PROVE  /\ Ahead(s)' <= Ahead(s)
                      /\ Serve(s) => Ahead(s)' < Ahead(s) \/ pc'[s] = "left"
    OBVIOUS
  <2>1. Serve(s) => Ahead(s)' < Ahead(s) \/ pc'[s] = "left"
    BY TurnCounts
  <2>2. CASE Broadcast
    <3>1. /\ n \in Nat /\ MaxEvents - n \in Nat /\ n' = n + 1 /\ MaxEvents \in Nat
          /\ chan[s] \in Seq(1 .. n) /\ Len(chan[s]) \in Nat /\ pc'[s] = pc[s]
      BY <2>2, CapAssumption, LenProperties DEF TypeOK, Broadcast
    <3>2. chan[s] \in Seq(Nat) /\ n + 1 \in Nat
      BY <3>1, Wider
    <3>3. Len(Append(chan[s], n + 1)) = Len(chan[s]) + 1
      BY <3>2, AppendProperties
    <3>4. chan'[s] = chan[s] \/ chan'[s] = Append(chan[s], n + 1)
      BY <2>2 DEF Broadcast, Offered
    <3>5. Len(chan'[s]) \in {Len(chan[s]), Len(chan[s]) + 1}
      BY <3>3, <3>4
    <3>6. Ahead(s)' <= Ahead(s)
      BY <3>1, <3>5 DEF Ahead
    <3> QED  BY <2>1, <3>6
  <2>3. ASSUME NEW r \in Streams, Subscribe(r) \/ Serve(r) \/ WriteTimeout(r) \/ Disconnect(r)
        PROVE  Ahead(s)' <= Ahead(s)
    BY <2>3, TurnCounts
  <2> QED  BY <2>1, <2>2, <2>3 DEF Next
<1>2. Spec => [][\A s \in Streams : Turn(s)]_vars
  BY <1>1, TypeCorrect, PTL DEF Spec
<1> QED  BY <1>2 DEF TurnsCount
=============================================================================
