SPECIFICATION Spec
CONSTANTS
  VerbLengths <- MCVerbLengths
  MaxField = 3
  MaxHeaders = 2
  MaxCalls = 3
INVARIANTS
  TypeOK
  OneCallIsDefined
  CutsNeverAcceptMore
  AcceptedLostOnlyMethod

CHECK_DEADLOCK FALSE
