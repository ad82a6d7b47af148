------------------------ MODULE ResolveChannelsProofs ------------------------
(***************************************************************************)
(* Proofs about ResolveChannels: for every configuration, however cyclic,  *)
(* the worklist returns exactly the channels the names lead to.            *)
(***************************************************************************)
EXTENDS ResolveChannels, SequenceTheorems, TLAPS

-----------------------------------------------------------------------------
(* Sequences. *)

\* Popping the stack removes its top element and nothing else.
LEMMA PopElements ==
  ASSUME NEW S, NEW s \in Seq(S), s # << >>
  PROVE  /\ s[Len(s)] \in S
         /\ SubSeq(s, 1, Len(s) - 1) \in Seq(S)
         /\ Elements(s) = Elements(SubSeq(s, 1, Len(s) - 1)) \cup {s[Len(s)]}
<1> DEFINE r == SubSeq(s, 1, Len(s) - 1)
<1>1. Len(s) \in Nat /\ Len(s) >= 1
  OBVIOUS
<1>2. r \in Seq(S) /\ Len(r) = Len(s) - 1 /\ \A i \in 1 .. Len(r) : r[i] = s[i]
  <2>1. \A i \in 1 .. Len(s) - 1 : s[i] \in S
    BY <1>1
  <2>2. PICK n \in Nat : n = Len(s) - 1
    BY <1>1
  <2>3. r = SubSeq(s, 1, n) /\ \A i \in 1 .. n : s[i] \in S
    BY <2>1, <2>2
  <2> HIDE DEF r
  <2>4. /\ r \in Seq(S)
        /\ Len(r) = IF 1 <= n THEN n - 1 + 1 ELSE 0
        /\ \A i \in 1 .. n - 1 + 1 : r[i] = s[1 + i - 1]
    BY <2>3, SubSeqProperties
  <2>5. r \in Seq(S) /\ Len(r) = n /\ \A i \in 1 .. n : r[i] = s[i]
    BY <2>4
  <2> QED
    BY <2>2, <2>5
<1>3. s[Len(s)] \in S
  BY <1>1
<1>4. 1 .. Len(s) = (1 .. Len(r)) \cup {Len(s)}
  BY <1>1, <1>2
<1> HIDE DEF r
<1>5. {s[i] : i \in 1 .. Len(s)} = {r[i] : i \in 1 .. Len(r)} \cup {s[Len(s)]}
  BY <1>2, <1>4
<1> QED
  BY <1>2, <1>3, <1>5 DEF Elements, r

\* Pushing a list adds its elements and no other.
LEMMA PushElements ==
  ASSUME NEW S, NEW s \in Seq(S), NEW t \in Seq(S)
  PROVE  /\ s \o t \in Seq(S)
         /\ Elements(s \o t) = Elements(s) \cup Elements(t)
<1>1. s \o t \in Seq(S) /\ Len(s \o t) = Len(s) + Len(t)
  OBVIOUS
<1>2. \A i \in 1 .. Len(s) : (s \o t)[i] = s[i]
  OBVIOUS
<1>3. \A i \in 1 .. Len(t) : (s \o t)[Len(s) + i] = t[i]
  OBVIOUS
<1>4. ASSUME NEW i \in 1 .. Len(s) + Len(t)
      PROVE  (s \o t)[i] \in Elements(s) \cup Elements(t)
  <2>1. CASE i \in 1 .. Len(s)
    BY <1>2, <2>1 DEF Elements
  <2>2. CASE i - Len(s) \in 1 .. Len(t)
    <3>1. (s \o t)[i] = t[i - Len(s)]
      BY <2>2
    <3> QED
      BY <3>1, <2>2 DEF Elements
  <2> QED
    BY <2>1, <2>2
<1>5. Elements(s \o t) \subseteq Elements(s) \cup Elements(t)
  BY <1>1, <1>4 DEF Elements
<1>6. ASSUME NEW i \in 1 .. Len(t)
      PROVE  t[i] \in Elements(s \o t)
  <2>1. Len(s) + i \in 1 .. Len(s \o t)
    BY <1>1
  <2> QED
    BY <1>3, <2>1 DEF Elements
<1>7. ASSUME NEW i \in 1 .. Len(s)
      PROVE  s[i] \in Elements(s \o t)
  <2>1. i \in 1 .. Len(s \o t)
    BY <1>1
  <2> QED
    BY <1>2, <2>1 DEF Elements
<1>8. Elements(s) \subseteq Elements(s \o t) /\ Elements(t) \subseteq Elements(s \o t)
  BY <1>6, <1>7 DEF Elements
<1> QED
  BY <1>1, <1>5, <1>8
-----------------------------------------------------------------------------
(* Reachability. *)

\* Members of a list of names are names.
LEMMA ElementsAreNames ==
  ASSUME NEW s \in Seq(Names)
  PROVE  Elements(s) \subseteq Names
BY DEF Elements

\* What a name leads to is a set of names.
LEMMA LeadsToNames ==
  ASSUME NEW c \in Config, NEW n \in Names
  PROVE  LeadsTo(c, n) \subseteq Names
<1>1. c.use[n] \in Seq(Names)
  BY DEF Config
<1> QED
  BY <1>1, ElementsAreNames DEF LeadsTo

\* Reach(c, N) holds N, is closed, and lies in every closed set that holds N.
LEMMA ReachSmallest ==
  ASSUME NEW c \in Config, NEW N \in SUBSET Names
  PROVE  /\ N \subseteq Reach(c, N)
         /\ \A n \in Reach(c, N) : LeadsTo(c, n) \subseteq Reach(c, N)
         /\ \A S \in SUBSET Names : N \subseteq S /\ Closed(c, S) => Reach(c, N) \subseteq S
<1>1. N \subseteq Reach(c, N)
  BY DEF Reach
<1>2. ASSUME NEW n \in Reach(c, N), NEW m \in LeadsTo(c, n)
      PROVE  m \in Reach(c, N)
  <2>1. n \in Names /\ m \in Names
    BY LeadsToNames DEF Reach
  <2>2. ASSUME NEW S \in SUBSET Names, N \subseteq S, Closed(c, S)
        PROVE  m \in S
    BY <2>2 DEF Reach, Closed
  <2> QED
    BY <2>1, <2>2 DEF Reach
<1>3. \A S \in SUBSET Names : N \subseteq S /\ Closed(c, S) => Reach(c, N) \subseteq S
  BY DEF Reach
<1> QED
  BY <1>1, <1>2, <1>3
-----------------------------------------------------------------------------
(* Typing. *)

\* What the roots of a call are.
LEMMA RootsAreNames ==
  ASSUME NEW c \in Config, NEW ns \in Seq(Names)
  PROVE  Roots(c, ns) \in Seq(Names)
BY DEF Roots, Config

\* Every variable of the resolver stays in its domain (service.go:67-118).
THEOREM Typing == Spec => []TypeOK
<1>1. Init => TypeOK
  BY ConfigsAssumption, NameListsAssumption DEF Init, TypeOK
<1>2. TypeOK /\ [Next]_vars => TypeOK'
  <2> SUFFICES ASSUME TypeOK, [Next]_vars
               PROVE  TypeOK'
    OBVIOUS
  <2> USE DEF TypeOK
  <2>0. Looping => /\ Top \in Names
                   /\ Rest \in Seq(Names)
    BY PopElements DEF Looping, Top, Rest
  <2>1. CASE NoDefault
    BY <2>1 DEF NoDefault
  <2>2. CASE Start
    BY <2>2, RootsAreNames DEF Start
  <2>3. CASE SkipEmpty
    BY <2>0, <2>3 DEF SkipEmpty
  <2>4. CASE TakeChannel
    BY <2>0, <2>4 DEF TakeChannel
  <2>5. CASE SkipGroup
    BY <2>0, <2>5 DEF SkipGroup
  <2>6. CASE ExpandGroup
    <3>1. cfg.use[Top] \in Seq(Names)
      BY <2>0, <2>6 DEF ExpandGroup, Config
    <3>2. process' \in Seq(Names)
      BY <2>0, <2>6, <3>1, PushElements DEF ExpandGroup
    <3> QED
      BY <2>0, <2>6, <3>2 DEF ExpandGroup
  <2>7. CASE LogUnknown
    BY <2>0, <2>7 DEF LogUnknown
  <2>8. CASE Return
    BY <2>8 DEF Return
  <2>9. CASE UNCHANGED vars
    BY <2>9 DEF vars
  <2> QED
    BY <2>1, <2>2, <2>3, <2>4, <2>5, <2>6, <2>7, <2>8, <2>9 DEF Next
<1> QED
  BY <1>1, <1>2, PTL DEF Spec
-----------------------------------------------------------------------------
(* Correctness. *)

\* A step that keeps cfg, names and pc, moves the top of the stack among the
\* handled names and pushes no more than the top leads to, keeps ResolveInv.
LEMMA TurnKeepsInv ==
  ASSUME TypeOK, TypeOK', ResolveInv, Looping,
         UNCHANGED <<pc, cfg, names>>,
         Elements(process') = Elements(Rest) \/
           (Elements(process') = Elements(Rest) \cup LeadsTo(cfg, Top) /\ Top \in seenGroup'),
         ret \subseteq ret', seenGroup \subseteq seenGroup', logged \subseteq logged',
         seenGroup' # seenGroup => Elements(process') = Elements(Rest) \cup LeadsTo(cfg, Top),
         ret' \cup seenGroup' \cup logged' \subseteq ret \cup seenGroup \cup logged \cup {Top},
         Top \in Handled',
         Sorted'
  PROVE  ResolveInv'
<1> DEFINE R == Reach(cfg, Elements(Roots(cfg, names)))
<1>1. /\ process # << >> /\ pc = "loop" /\ process \in Seq(Names)
      /\ Top \in Names /\ Elements(process) = Elements(Rest) \cup {Top}
  BY PopElements DEF Looping, Top, Rest, TypeOK
<1>2. Elements(process) \subseteq R
  BY <1>1 DEF ResolveInv, OnlyReachable
<1>3. LeadsTo(cfg, Top) \subseteq R
  <2>1. Elements(Roots(cfg, names)) \in SUBSET Names
    BY RootsAreNames, ElementsAreNames DEF TypeOK
  <2> QED
    BY <1>1, <1>2, <2>1, ReachSmallest DEF TypeOK
<1>4. OnlyReachable'
  <2>1. Elements(process') \cup ret' \cup seenGroup' \cup logged' \subseteq R
    BY <1>1, <1>2, <1>3 DEF ResolveInv, OnlyReachable
  <2>2. R' = R
    BY DEF Reach, Closed, LeadsTo, IsGroup, Elements, Roots
  <2>3. (Elements(process))' = Elements(process')
    BY DEF Elements
  <2> QED
    BY <2>1, <2>2, <2>3 DEF OnlyReachable
<1>5. Handled \cup Elements(process) \subseteq Handled' \cup Elements(process')
  <2>1. Handled \subseteq Handled'
    BY DEF Handled
  <2> QED
    BY <1>1, <2>1
<1>6. NothingForgotten'
  <2>1. Elements(Roots(cfg, names)) \subseteq Handled' \cup Elements(process')
    BY <1>1, <1>5 DEF ResolveInv, NothingForgotten
  <2>2. ASSUME NEW n \in seenGroup'
        PROVE  LeadsTo(cfg, n) \subseteq Handled' \cup Elements(process')
    <3>1. CASE n \in seenGroup
      BY <1>1, <1>5, <3>1 DEF ResolveInv, NothingForgotten
    <3>2. CASE n \notin seenGroup
      <4>1. n = Top
        BY <3>2 DEF ResolveInv, Sorted, IsGroup, IsChannel, IsUnknown
      <4>2. Elements(process') = Elements(Rest) \cup LeadsTo(cfg, Top)
        BY <3>2
      <4> QED
        BY <4>1, <4>2
    <3> QED
      BY <3>1, <3>2
  <2> QED
    BY <2>1, <2>2 DEF NothingForgotten, LeadsTo, IsGroup, Elements, Roots
<1> QED
  BY <1>1, <1>4, <1>6 DEF ResolveInv, Drained, Fresh

\* ResolveInv holds in every reachable state.
THEOREM Invariance == Spec => []ResolveInv
<1>1. Init => ResolveInv
  BY DEF Init, ResolveInv, OnlyReachable, Sorted, NothingForgotten, Drained, Fresh
<1>2. TypeOK /\ TypeOK' /\ ResolveInv /\ [Next]_vars => ResolveInv'
  <2> SUFFICES ASSUME TypeOK, TypeOK', ResolveInv, [Next]_vars
               PROVE  ResolveInv'
    OBVIOUS
  <2>0. ASSUME Looping
        PROVE  /\ process \in Seq(Names) /\ process # << >>
               /\ Top \in Names
               /\ Rest \in Seq(Names)
               /\ Sorted
    BY <2>0, PopElements DEF Looping, Top, Rest, TypeOK, ResolveInv
  <2>1. CASE NoDefault
    BY <2>1 DEF NoDefault, ResolveInv, OnlyReachable, Sorted, NothingForgotten, Drained,
                Fresh, IsChannel, IsGroup, IsUnknown
  <2>2. CASE Start
    <3>1. /\ Elements(process') = Elements(Roots(cfg, names))
          /\ ret = {} /\ seenGroup = {} /\ logged = {}
          /\ ret' = {} /\ seenGroup' = {} /\ logged' = {}
          /\ pc' = "loop" /\ cfg' = cfg /\ names' = names
      BY <2>2 DEF Start, ResolveInv, Fresh
    <3>2. Elements(Roots(cfg, names)) \subseteq Reach(cfg, Elements(Roots(cfg, names)))
      BY RootsAreNames, ElementsAreNames, ReachSmallest DEF TypeOK
    <3>3. (Elements(process))' = Elements(process') /\ (Roots(cfg, names))' = Roots(cfg, names)
      BY <3>1 DEF Elements, Roots
    <3>4. OnlyReachable'
      BY <3>1, <3>2, <3>3 DEF OnlyReachable, Reach, Closed, LeadsTo, IsGroup, Elements
    <3>5. NothingForgotten'
      BY <3>1, <3>3 DEF NothingForgotten, Elements
    <3> QED
      BY <3>1, <3>4, <3>5 DEF ResolveInv, Sorted, Drained, Fresh
  <2>3. CASE SkipEmpty
    BY <2>0, <2>3, TurnKeepsInv DEF SkipEmpty, Looping, Handled, Sorted, IsChannel, IsGroup, IsUnknown
  <2>4. CASE TakeChannel
    BY <2>0, <2>4, TurnKeepsInv DEF TakeChannel, Looping, Handled, Sorted, IsChannel, IsGroup, IsUnknown
  <2>5. CASE SkipGroup
    BY <2>0, <2>5, TurnKeepsInv DEF SkipGroup, Looping, Handled, Sorted, IsChannel, IsGroup, IsUnknown
  <2>6. CASE ExpandGroup
    <3>1. cfg.use[Top] \in Seq(Names)
      BY <2>0, <2>6 DEF ExpandGroup, Config, TypeOK
    <3>2. Elements(process') = Elements(Rest) \cup LeadsTo(cfg, Top)
      BY <2>0, <2>6, <3>1, PushElements DEF ExpandGroup, LeadsTo
    <3>3. Sorted'
      BY <2>0, <2>6 DEF ExpandGroup, Sorted, IsChannel, IsGroup, IsUnknown
    <3>4. Top \in Handled' /\ Top \in seenGroup'
      BY <2>6 DEF ExpandGroup, Handled
    <3> QED
      BY <2>6, <3>2, <3>3, <3>4, TurnKeepsInv DEF ExpandGroup, Looping
  <2>7. CASE LogUnknown
    BY <2>0, <2>7, TurnKeepsInv DEF LogUnknown, Looping, Handled, Sorted, IsChannel, IsGroup, IsUnknown
  <2>8. CASE Return
    BY <2>8 DEF Return, ResolveInv, OnlyReachable, Sorted, NothingForgotten, Drained, Fresh,
                Handled, Elements, Roots, Reach, Closed, LeadsTo, IsChannel, IsGroup, IsUnknown
  <2>9. CASE UNCHANGED vars
    <3>0. /\ pc' = pc /\ cfg' = cfg /\ names' = names /\ process' = process
          /\ seenGroup' = seenGroup /\ ret' = ret /\ logged' = logged
      BY <2>9 DEF vars
    <3>1. OnlyReachable'
      <4>1. (Reach(cfg, Elements(Roots(cfg, names))))' = Reach(cfg, Elements(Roots(cfg, names)))
        BY <3>0 DEF Reach, Closed, LeadsTo, IsGroup, Elements, Roots
      <4>2. (Elements(process))' = Elements(process)
        BY <3>0 DEF Elements
      <4> QED
        BY <3>0, <4>1, <4>2 DEF ResolveInv, OnlyReachable
    <3>2. NothingForgotten'
      BY <2>9 DEF vars, ResolveInv, NothingForgotten, Elements, Roots, LeadsTo, IsGroup, Handled
    <3>3. Sorted' /\ Drained' /\ Fresh'
      BY <2>9 DEF vars, ResolveInv, Sorted, Drained, Fresh, IsChannel, IsGroup, IsUnknown
    <3> QED
      BY <3>1, <3>2, <3>3 DEF ResolveInv
  <2> QED
    BY <2>1, <2>2, <2>3, <2>4, <2>5, <2>6, <2>7, <2>8, <2>9 DEF Next
<1> QED
  BY <1>1, <1>2, Typing, PTL DEF Spec

\* When the loop has drained the stack, the handled names are all that the
\* roots lead to.
LEMMA DoneIsReach ==
  ASSUME TypeOK, ResolveInv, pc = "done"
  PROVE  /\ Reach(cfg, Elements(Roots(cfg, names))) \subseteq Handled
         /\ ret \cup logged \subseteq Reach(cfg, Elements(Roots(cfg, names)))
<1>1. Elements(process) = {}
  BY DEF ResolveInv, Drained, Elements
<1>2. Handled \in SUBSET Names
  BY DEF Handled, TypeOK
<1>3. Closed(cfg, Handled)
  BY <1>1 DEF ResolveInv, NothingForgotten, Closed, Handled, Sorted, LeadsTo, IsGroup,
              IsChannel, IsUnknown
<1>4. Elements(Roots(cfg, names)) \subseteq Handled
  BY <1>1 DEF ResolveInv, NothingForgotten
<1>5. Elements(Roots(cfg, names)) \in SUBSET Names
  BY RootsAreNames, ElementsAreNames DEF TypeOK
<1> QED
  BY <1>2, <1>3, <1>4, <1>5, ReachSmallest DEF TypeOK, ResolveInv, OnlyReachable

\* For every configuration and every list of names, ResolveChannels returns
\* exactly the channels the names lead to and reports exactly the names met that
\* are neither channel nor group (service.go:67-118).
THEOREM ResolutionIsExact == Spec => []ResolvesExactly
<1>1. TypeOK /\ ResolveInv => ResolvesExactly
  <2> SUFFICES ASSUME TypeOK, ResolveInv, pc = "done"
               PROVE  ret = Recipients(cfg, names) /\ logged = Strangers(cfg, names)
    BY DEF ResolvesExactly
  <2>1. ret = Recipients(cfg, names)
    BY DoneIsReach DEF Recipients, Handled, ResolveInv, Sorted, IsChannel, IsGroup, IsUnknown, TypeOK
  <2>2. logged = Strangers(cfg, names)
    BY DoneIsReach DEF Strangers, Handled, ResolveInv, Sorted, IsChannel, IsGroup, IsUnknown, TypeOK
  <2> QED
    BY <2>1, <2>2
<1> QED
  BY <1>1, Typing, Invariance, PTL
-----------------------------------------------------------------------------
(* Validated configurations. *)

\* A group of a validated configuration leads to trimmed names of channels, and no
\* group has the name of one, even when trimmed.
LEMMA MembersAreNoGroups ==
  ASSUME NEW c \in Config, Valid(c), NEW g \in Names, NEW n \in LeadsTo(c, g)
  PROVE  /\ LeadsTo(c, n) = {} /\ n \notin c.groups
         /\ \E m \in c.channels : Trim[m] = n
<1>1. g \in c.groups /\ n \in Elements(c.use[g])
  BY DEF LeadsTo, IsGroup
<1>2. PICK m \in c.channels : Trim[m] = n
  BY <1>1 DEF Valid, Targets
<1>3. m \in Names /\ n \in Names /\ Trim[n] = n
  BY <1>2, TrimAssumption DEF Config
<1>4. n \notin c.groups
  BY <1>2, <1>3 DEF Valid, Targets
<1> QED
  BY <1>2, <1>4 DEF LeadsTo, IsGroup

\* What a call reaches are its own names and their members.
LEMMA ReachIsFlat ==
  ASSUME NEW c \in Config, Valid(c), NEW N \in SUBSET Names
  PROVE  Reach(c, N) \subseteq N \cup {n \in Names : \E g \in N : n \in LeadsTo(c, g)}
<1> DEFINE S == N \cup {n \in Names : \E g \in N : n \in LeadsTo(c, g)}
<1>1. S \in SUBSET Names
  OBVIOUS
<1>2. Closed(c, S)
  <2> SUFFICES ASSUME NEW n \in S PROVE LeadsTo(c, n) \subseteq S
    BY DEF Closed
  <2>1. CASE n \in N
    BY <2>1, LeadsToNames
  <2>2. CASE n \notin N
    BY <2>2, MembersAreNoGroups
  <2> QED
    BY <2>1, <2>2
<1> QED
  BY <1>1, <1>2, ReachSmallest

\* Validate makes the expansion flat, and what is unknown is the caller's or a name
\* that only Validate trims (config.go:334-361).
THEOREM ValidationSuffices == Spec => []ValidatedResolves
<1>1. TypeOK /\ ResolveInv => ValidatedResolves
  <2> SUFFICES ASSUME TypeOK, ResolveInv, pc \in {"loop", "done"}, Valid(cfg)
               PROVE  /\ seenGroup \subseteq Elements(Roots(cfg, names))
                      /\ \A n \in logged \ Elements(names) :
                           \E m \in cfg.channels \cup cfg.groups : m # n /\ Trim[m] = n
    BY DEF ValidatedResolves
  <2> DEFINE R == Elements(Roots(cfg, names))
  <2>1. cfg \in Config /\ R \in SUBSET Names
    BY RootsAreNames, ElementsAreNames DEF TypeOK
  <2>2. seenGroup \cup logged \subseteq Reach(cfg, R)
    BY DEF ResolveInv, OnlyReachable
  <2>3. ASSUME NEW n \in seenGroup \cup logged, n \notin R
        PROVE  n \notin cfg.groups /\ \E m \in cfg.channels : Trim[m] = n
    <3>1. n \in Names /\ \E g \in R : n \in LeadsTo(cfg, g)
      BY <2>1, <2>2, <2>3, ReachIsFlat
    <3>2. PICK g \in Names : n \in LeadsTo(cfg, g)
      BY <2>1, <3>1
    <3> QED
      BY <2>1, <3>2, MembersAreNoGroups
  <2>4. seenGroup \subseteq R
    BY <2>3 DEF ResolveInv, Sorted, IsGroup
  <2>5. ASSUME NEW n \in logged, n \notin Elements(names)
        PROVE  \E m \in cfg.channels \cup cfg.groups : m # n /\ Trim[m] = n
    <3>1. n # NoName /\ n \notin cfg.channels \cup cfg.groups
      BY DEF ResolveInv, Sorted, IsUnknown
    <3>2. CASE n \notin R
      BY <2>3, <3>1, <3>2
    <3>3. CASE n \in R
      <4>1. n = cfg.default
        BY <2>5, <3>3 DEF Roots, Elements
      <4> QED
        BY <3>1, <4>1 DEF Valid, Targets
    <3> QED
      BY <3>2, <3>3
  <2> QED
    BY <2>4, <2>5
<1> QED
  BY <1>1, Typing, Invariance, PTL
-----------------------------------------------------------------------------
(* The end of the loop. *)

\* A turn that only pops makes the stack one shorter.
LEMMA PopShortens ==
  ASSUME TypeOK, Looping
  PROVE  Top \in Names /\ Len(Rest) = Len(process) - 1
<1>1. process \in Seq(Names) /\ process # << >>
  BY DEF TypeOK, Looping
<1>2. Len(process) \in Nat /\ Len(process) >= 1 /\ process[Len(process)] \in Names
  BY <1>1
<1>3. PICK n \in Nat : n = Len(process) - 1
  BY <1>2
<1>4. \A i \in 1 .. n : process[i] \in Names
  BY <1>1, <1>3
<1>5. Len(SubSeq(process, 1, n)) = IF 1 <= n THEN n - 1 + 1 ELSE 0
  BY <1>4, SubSeqProperties
<1>6. Len(SubSeq(process, 1, n)) = n
  BY <1>5
<1> QED BY <1>2, <1>3, <1>6 DEF Top, Rest

\* Every step of the resolver lowers what is left: its stages, then the groups not
\* yet expanded, then the stack, although an expansion makes the stack longer.  A
\* configuration has finitely many groups, whatever cycles they form, so that a
\* resolver that is run comes to its end (service.go:90-111).
THEOREM EveryTurnCounts == Spec => AlwaysLess
<1> DEFINE Less == /\ cfg' = cfg /\ seenGroup' \subseteq cfg.groups
                   /\ \/ Stage' < Stage
                      \/ Stage' = Stage /\ seenGroup \subseteq seenGroup'
                         /\ seenGroup # seenGroup'
                      \/ Stage' = Stage /\ seenGroup' = seenGroup
                         /\ Len(process') = Len(process) - 1
<1>1. TypeOK /\ ResolveInv /\ ResolveInv' /\ [Next]_vars => [Less]_vars
  <2> SUFFICES ASSUME TypeOK, ResolveInv, ResolveInv', Next
               PROVE  Less
    OBVIOUS
  <2>0. cfg' = cfg
    BY DEF Next, NoDefault, Start, SkipEmpty, TakeChannel, SkipGroup, ExpandGroup, LogUnknown,
           Return
  <2>1. seenGroup' \subseteq cfg.groups
    BY <2>0 DEF ResolveInv, Sorted, IsGroup
  <2>2. CASE NoDefault \/ Start \/ Return
    <3>1. Stage' < Stage
      BY <2>2 DEF NoDefault, Start, Return, Stage
    <3> QED BY <2>0, <2>1, <3>1
  <2>3. CASE SkipEmpty \/ TakeChannel \/ SkipGroup \/ LogUnknown
    <3>1. Looping /\ process' = Rest /\ seenGroup' = seenGroup /\ pc' = pc
      BY <2>3 DEF SkipEmpty, TakeChannel, SkipGroup, LogUnknown
    <3>2. Stage' = Stage
      BY <3>1 DEF Stage
    <3> QED BY <2>0, <2>1, <3>1, <3>2, PopShortens
  <2>4. CASE ExpandGroup
    <3>1. pc' = pc /\ Top \notin seenGroup /\ seenGroup' = seenGroup \cup {Top}
      BY <2>4 DEF ExpandGroup
    <3>2. Stage' = Stage
      BY <3>1 DEF Stage
    <3> QED BY <2>0, <2>1, <3>1, <3>2
  <2> QED BY <2>2, <2>3, <2>4 DEF Next
<1> QED BY <1>1, Typing, Invariance, PTL DEF Spec, AlwaysLess
=============================================================================
