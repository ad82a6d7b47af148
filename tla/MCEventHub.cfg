\* Two dashboards, four events, channels of two.
SPECIFICATION Spec
CONSTANTS
  s1 = s1
  s2 = s2
  Streams <- TwoStreams
  Cap = 2
  MaxEvents = 4
INVARIANTS
  TypeOK
  NothingSkipped
PROPERTIES
  BrokenStreamsLeave
CHECK_DEADLOCK FALSE
