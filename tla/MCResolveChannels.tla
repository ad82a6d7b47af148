-------------------------- MODULE MCResolveChannels --------------------------
(***************************************************************************)
(* Every configuration over three channel names, two group names, an       *)
(* unknown name and the empty name, where the groups lead anywhere         *)
(* (themselves and each other included), one of them may share its name    *)
(* with a channel, and one channel has a space after its name.             *)
(***************************************************************************)
EXTENDS ResolveChannels

CONSTANTS a, b, g, h, x, none,
          as    \* "a" and a space

MCNames == {a, as, b, g, h, x, none}

MCTrim == [n \in MCNames |-> IF n = as THEN a ELSE n]

SeqsUpTo(S, n) == UNION {[1 .. k -> S] : k \in 0 .. n}

\* g and h are groups; in the second kind of file g is a channel as well.
MCConfigs ==
  {[channels |-> ch, groups |-> {g, h},
    use |-> [n \in MCNames |-> IF n = g THEN ug ELSE IF n = h THEN uh ELSE << >>],
    default |-> d, tawk |-> none] :
      ch \in {{a, b}, {a, g, none}, {as, b}},
      ug \in SeqsUpTo(MCNames, 2),
      uh \in SeqsUpTo({a, b, g, h}, 1) \cup {<<g, x>>, <<b, g>>, <<h, b>>},
      d \in {none, g}}

MCNameLists == {<< >>, <<none>>, <<a>>, <<g>>, <<x>>, <<h, g>>, <<g, g>>, <<a, h, x>>}
=============================================================================
