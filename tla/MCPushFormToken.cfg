\* The documented request with the token in the form loses its text.
SPECIFICATION Spec
CONSTANTS
  Requests <- AllRequests
  None = none
INVARIANTS
  FormTokenArrives
