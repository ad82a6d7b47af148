\* A number of days that a time.Duration cannot hold.
SPECIFICATION Spec
CONSTANTS
  m1 = m1
  m2 = m2
  c1 = c1
  c2 = c2
  i1 = i1
  page = page
  auto = auto
  q1 = q1
  Records <- MCRecords
  Channels <- MCChannels
  IP <- MCIP
  Cleaners <- MCCleaners
  Maintenance = auto
  KeepDays <- MCManyDays
  Readers <- MCReaders
  Offsets <- MCOffsets
  PageSize = 2
  Casts <- MCCasts
  Day = 2
  Longest = 3
  MaxTime = 3
  MaxLog = 2
INVARIANTS
  KeptForDays
CHECK_DEADLOCK FALSE
