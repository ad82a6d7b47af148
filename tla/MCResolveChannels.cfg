\* push.Service.ResolveChannels over every small configuration.
SPECIFICATION Spec
CONSTANTS
  a = a
  as = as
  b = b
  g = g
  h = h
  x = x
  none = none
  NoName = none
  Names <- MCNames
  Trim <- MCTrim
  Configs <- MCConfigs
  NameLists <- MCNameLists
INVARIANTS
  TypeOK
  ResolvesExactly
  ValidatedResolves
PROPERTIES
  Terminates
CHECK_DEADLOCK FALSE
