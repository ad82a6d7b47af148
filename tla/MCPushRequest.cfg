\* Every request, one after the other.
SPECIFICATION Spec
CONSTANTS
  Requests <- AllRequests
  None = none
INVARIANTS
  GateIsRight
  ChargedFairly
  BodyArrives
