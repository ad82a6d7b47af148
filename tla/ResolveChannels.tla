--------------------------- MODULE ResolveChannels ---------------------------
(***************************************************************************)
(* push.Service.ResolveChannels: from the names of a push to the set of    *)
(* channels it goes to.  The code keeps a stack of names still to process; *)
(* a channel is collected, a group is expanded the first time it is met,   *)
(* anything else is reported.  One action is one turn of the loop.         *)
(***************************************************************************)
EXTENDS ConfigValidation

CONSTANT NameLists    \* the lists of names a caller may pass

ASSUME NameListsAssumption == NameLists \subseteq Seq(Names)

VARIABLES
  pc,         \* "start", "loop", "done" or "failed" (no name, no default)
  cfg,        \* the snapshot taken by s.cfg.Get()
  names,      \* the argument
  process,    \* the stack of names still to process
  seenGroup,  \* groups already expanded
  ret,        \* channels collected
  logged      \* names reported as unknown

vars == <<pc, cfg, names, process, seenGroup, ret, logged>>

Init ==
  /\ pc = "start"
  /\ cfg \in Configs
  /\ names \in NameLists
  /\ process = << >>
  /\ seenGroup = {}
  /\ ret = {}
  /\ logged = {}

NoDefault ==
  /\ pc = "start"
  /\ Unresolvable(cfg, names)
  /\ pc' = "failed"
  /\ UNCHANGED <<cfg, names, process, seenGroup, ret, logged>>

\* Slip: the list of the caller goes onto the stack unsplit, as one name.
StartUnsplit ==
  /\ pc = "start"
  /\ ~Unresolvable(cfg, names)
  /\ process' = IF names = << >> THEN <<cfg.default>> ELSE <<names>>
  /\ pc' = "loop"
  /\ UNCHANGED <<cfg, names, seenGroup, ret, logged>>

Start ==
  /\ pc = "start"
  /\ ~Unresolvable(cfg, names)
  /\ process' = Roots(cfg, names)
  /\ pc' = "loop"
  /\ UNCHANGED <<cfg, names, seenGroup, ret, logged>>

Top == process[Len(process)]
Rest == SubSeq(process, 1, Len(process) - 1)

Looping == pc = "loop" /\ process # << >>

SkipEmpty ==
  /\ Looping
  /\ Top = NoName
  /\ process' = Rest
  /\ UNCHANGED <<pc, cfg, names, seenGroup, ret, logged>>

TakeChannel ==
  /\ Looping
  /\ IsChannel(cfg, Top)
  /\ process' = Rest
  /\ ret' = ret \cup {Top}
  /\ UNCHANGED <<pc, cfg, names, seenGroup, logged>>

\* Slip: a group met again stays on the stack.
SkipGroupKeeps ==
  /\ Looping
  /\ IsGroup(cfg, Top)
  /\ Top \in seenGroup
  /\ UNCHANGED vars

SkipGroup ==
  /\ Looping
  /\ IsGroup(cfg, Top)
  /\ Top \in seenGroup
  /\ process' = Rest
  /\ UNCHANGED <<pc, cfg, names, seenGroup, ret, logged>>

\* Slip: the members of a group take the place of the whole stack.
ExpandGroupReplaces ==
  /\ Looping
  /\ IsGroup(cfg, Top)
  /\ Top \notin seenGroup
  /\ seenGroup' = seenGroup \cup {Top}
  /\ process' = cfg.use[Top]
  /\ UNCHANGED <<pc, cfg, names, ret, logged>>

ExpandGroup ==
  /\ Looping
  /\ IsGroup(cfg, Top)
  /\ Top \notin seenGroup
  /\ seenGroup' = seenGroup \cup {Top}
  /\ process' = Rest \o cfg.use[Top]
  /\ UNCHANGED <<pc, cfg, names, ret, logged>>

LogUnknown ==
  /\ Looping
  /\ IsUnknown(cfg, Top)
  /\ process' = Rest
  /\ logged' = logged \cup {Top}
  /\ UNCHANGED <<pc, cfg, names, seenGroup, ret>>

Return ==
  /\ pc = "loop"
  /\ process = << >>
  /\ pc' = "done"
  /\ UNCHANGED <<cfg, names, process, seenGroup, ret, logged>>

Next ==
  \/ NoDefault
  \/ Start
  \/ SkipEmpty
  \/ TakeChannel
  \/ SkipGroup
  \/ ExpandGroup
  \/ LogUnknown
  \/ Return

\* The call runs on its own goroutine and waits for nobody.
Spec == Init /\ [][Next]_vars /\ WF_vars(Next)
-----------------------------------------------------------------------------
\* Every variable stays in its domain; the loop of service.go:90-111 only
\* ever holds names of the configuration or of the caller.
TypeOK ==
  /\ pc \in {"start", "loop", "done", "failed"}
  /\ cfg \in Config
  /\ names \in Seq(Names)
  /\ process \in Seq(Names)
  /\ seenGroup \subseteq Names
  /\ ret \subseteq Names
  /\ logged \subseteq Names

\* A push goes to the channels its names lead to through groups at any depth,
\* all of them and no other, and the caller hears of exactly the names met on
\* the way that are neither channel nor group, whatever cycles, shared members
\* or shadowed names an unvalidated file holds (service.go:90-117).
ResolvesExactly ==
  pc = "done" => ret = Recipients(cfg, names) /\ logged = Strangers(cfg, names)

\* In a configuration that Validate accepts only groups that the call itself names
\* are expanded, and a name is unknown only if the caller gave it or if Validate
\* found it by trimming a name that the resolver does not trim (config.go:334-361,
\* service.go:69-75).
ValidatedResolves ==
  pc \in {"loop", "done"} /\ Valid(cfg) =>
    /\ seenGroup \subseteq Elements(Roots(cfg, names))
    /\ \A n \in logged \ Elements(names) :
         \E m \in cfg.channels \cup cfg.groups : m # n /\ Trim[m] = n

\* The loop ends: seenGroup stops groups that lead back to themselves from
\* being expanded again (service.go:101-104).
Terminates == <>(pc \in {"done", "failed"})
-----------------------------------------------------------------------------
(* The strengthening that makes ResolvesExactly inductive. *)

\* Names the loop is through with.
Handled == {n \in Names : n = NoName} \cup ret \cup seenGroup \cup logged

\* Nothing is processed that the call does not lead to.
OnlyReachable ==
  pc \in {"loop", "done"} =>
    Elements(process) \cup ret \cup seenGroup \cup logged
      \subseteq Reach(cfg, Elements(Roots(cfg, names)))

\* Each name is put where its kind says.
Sorted ==
  /\ \A n \in ret : IsChannel(cfg, n)
  /\ \A n \in seenGroup : IsGroup(cfg, n)
  /\ \A n \in logged : IsUnknown(cfg, n)

\* What a handled name leads to, and every root, is handled or on the stack.
NothingForgotten ==
  pc \in {"loop", "done"} =>
    /\ Elements(Roots(cfg, names)) \subseteq Handled \cup Elements(process)
    /\ \A n \in seenGroup : LeadsTo(cfg, n) \subseteq Handled \cup Elements(process)

Drained == pc = "done" => process = << >>

Fresh == pc = "start" => seenGroup = {} /\ ret = {} /\ logged = {}

\* The inductive invariant behind ResolvesExactly: the stack, the collected
\* channels, the expanded groups and the reported names together stay between
\* the roots and what the roots lead to (service.go:86-111).
ResolveInv == OnlyReachable /\ Sorted /\ NothingForgotten /\ Drained /\ Fresh
-----------------------------------------------------------------------------
(* What Terminates rests on. *)

Stage == CASE pc = "start" -> 2 [] pc = "loop" -> 1 [] pc \in {"done", "failed"} -> 0

\* Every step leaves less to do: a stage, else one more group that is done with,
\* of those of the configuration, else one name less on the stack.  Only the
\* growth of seenGroup, and not the stack, goes one way (service.go:90-111).
AlwaysLess ==
  [][/\ cfg' = cfg /\ seenGroup' \subseteq cfg.groups
     /\ \/ Stage' < Stage
        \/ Stage' = Stage /\ seenGroup \subseteq seenGroup' /\ seenGroup # seenGroup'
        \/ Stage' = Stage /\ seenGroup' = seenGroup /\ Len(process') = Len(process) - 1]_vars
=============================================================================
