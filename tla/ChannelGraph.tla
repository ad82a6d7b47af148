---------------------------- MODULE ChannelGraph ----------------------------
(***************************************************************************)
(* The target graph of a configuration: channels are its leaves, channel   *)
(* groups lead to the names in their "use" list.  The reference definition *)
(* of what a list of names stands for, without the worklist of             *)
(* push.Service.ResolveChannels.                                           *)
(*                                                                         *)
(* Nothing is assumed of a configuration.  config.Validate refuses nested  *)
(* groups and shared names, but Manager.Reload never calls Validate, so a  *)
(* file edited by hand reaches the resolver with cycles, dangling names,   *)
(* empty names and groups named like a channel.                            *)
(***************************************************************************)
EXTENDS Naturals, Sequences

CONSTANTS
  Names,      \* every name a request, a group or a default may hold
  NoName,     \* the empty string
  Configs     \* the configurations the file may hold

(***************************************************************************)
(* config.Config as the resolver reads it: the keys of its maps "chans"    *)
(* and "groups", the "use" list of each group, default_channel and         *)
(* webhooks.tawk.chan (NoName where they are empty).                       *)
(***************************************************************************)
Config == [channels : SUBSET Names,
           groups   : SUBSET Names,
           use      : [Names -> Seq(Names)],
           default  : Names,
           tawk     : Names]

ASSUME NamesAssumption   == NoName \in Names
ASSUME ConfigsAssumption == Configs \subseteq Config

Elements(s) == {s[i] : i \in 1 .. Len(s)}

\* The empty name is nobody, and a channel wins over a group of its name.
IsChannel(c, n) == n # NoName /\ n \in c.channels
IsGroup(c, n)   == n # NoName /\ n \notin c.channels /\ n \in c.groups
IsUnknown(c, n) == n # NoName /\ n \notin c.channels /\ n \notin c.groups

LeadsTo(c, n) == IF IsGroup(c, n) THEN Elements(c.use[n]) ELSE {}

Closed(c, S) == \A n \in S : LeadsTo(c, n) \subseteq S

\* The names that N leads to: the smallest closed set that holds N.
Reach(c, N) == {n \in Names : \A S \in SUBSET Names :
                                 N \subseteq S /\ Closed(c, S) => n \in S}

\* The names a call stands for: its own or, if it gives none, the default.
Roots(c, names) == IF names = << >> THEN <<c.default>> ELSE names

Recipients(c, names) == {n \in Reach(c, Elements(Roots(c, names))) : IsChannel(c, n)}
Strangers(c, names)  == {n \in Reach(c, Elements(Roots(c, names))) : IsUnknown(c, n)}

\* A call without names and without a default resolves to nothing at all.
Unresolvable(c, names) == names = << >> /\ c.default = NoName
=============================================================================
