\* Two pushes, two goroutines that change ban entries, Close at any time.
SPECIFICATION Spec
CONSTANTS
  w1 = w1
  w2 = w2
  w3 = w3
  b1 = b1
  b2 = b2
  i1 = i1
  i2 = i2
  Records <- TwoRecords
  NoRecord = none
  RecordQueue = 1
  IP <- OneIP
  Banners <- TwoBanners
  BanQueue = 1
  MaxBatch = 2
  MaxChanges = 3
INVARIANTS
  TypeOK
  
PROPERTIES
  ImplementsHistory
  BansReachTheTable
  EveryCallReturns
CHECK_DEADLOCK FALSE
