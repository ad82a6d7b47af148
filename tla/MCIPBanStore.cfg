\* Three kinds of start: the clock runs, many addresses crowd a small table, or both.
SPECIFICATION Spec
CONSTANTS
  i1 = i1
  i2 = i2
  i3 = i3
  i4 = i4
  h1 = h1
  h2 = h2
  NoIP = noip
  IP <- MCIP
  Hash <- MCHash
  Handlers <- MCHandlers
  Cleaners = {janitor}
  Worlds <- MCWorlds
SYMMETRY Symmetry
INVARIANTS
  TypeOK
  CounterExact
  EvictionsAreExcess
  BannedNotVerified
PROPERTIES
  BanStands
