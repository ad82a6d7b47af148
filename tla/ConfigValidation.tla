-------------------------- MODULE ConfigValidation --------------------------
(***************************************************************************)
(* config.Validate, which a configuration passes when a page saves it, as  *)
(* far as the target graph is concerned.  It compares the names of         *)
(* channels and groups without the spaces around them, but leaves the      *)
(* configuration as it is, so that the resolver looks for them with the    *)
(* spaces.  That the account is given and that each channel has a type is  *)
(* taken for granted, and so is that no name is listed twice letter for    *)
(* letter: the graph knows only sets of names.                             *)
(***************************************************************************)
EXTENDS ChannelGraph

CONSTANT Trim    \* strings.TrimSpace

ASSUME TrimAssumption ==
  /\ Trim \in [Names -> Names]
  /\ \A n \in Names : Trim[Trim[n]] = Trim[n]

\* The keys of the map "targets".
Targets(S) == {Trim[n] : n \in S}

Distinct(S) == \A n, m \in S : Trim[n] = Trim[m] => n = m

\* Slip: a group may be a member of a group.
ValidNested(c) ==
  /\ NoName \notin Targets(c.channels \cup c.groups)
  /\ Distinct(c.channels) /\ Distinct(c.groups)
  /\ Targets(c.channels) \cap Targets(c.groups) = {}
  /\ \A g \in c.groups : Elements(c.use[g]) \subseteq Targets(c.channels \cup c.groups)
  /\ {c.default, c.tawk} \subseteq {NoName} \cup Targets(c.channels \cup c.groups)

Valid(c) ==
  /\ NoName \notin Targets(c.channels \cup c.groups)
  /\ Distinct(c.channels) /\ Distinct(c.groups)
  /\ Targets(c.channels) \cap Targets(c.groups) = {}
  /\ \A g \in c.groups : Elements(c.use[g]) \subseteq Targets(c.channels)
  /\ {c.default, c.tawk} \subseteq {NoName} \cup Targets(c.channels \cup c.groups)
=============================================================================
