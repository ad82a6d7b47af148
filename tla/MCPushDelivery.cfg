\* One request of any endpoint, three rounds per channel.
SPECIFICATION Spec
CONSTANTS
  p = p
  w = w
  u = u
  g = g
  none = none
  r1 = r1
  NoName = none
  Names <- MCNames
  Configs <- MCConfigs
  TypeOf <- MCTypeOf
  NameLists <- MCNameLists
  Req <- OneReq
  MaxRetry = 3
INVARIANTS
  TypeOK
  OneResultPerRecipient
  HistoryComplete
  DuplicatesNeedDoubt
  SuccessIsReal
  CancelBoundsCalls
  EventsTellTheResult
PROPERTIES
  ResultIsFinal
  EveryPushEnds
CHECK_DEADLOCK FALSE
