SPECIFICATION Spec
CONSTANTS
  VerbLengths <- MCVerbLengths
  MaxField = 3
  MaxHeaders = 1
  MaxCalls = 2
INVARIANT VerdictIgnoresCuts

CHECK_DEADLOCK FALSE
