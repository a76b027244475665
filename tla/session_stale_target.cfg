SPECIFICATION Spec
CONSTANTS
  VerbLengths <- MCVerbLengths
  Streams <- MCStreams
  MaxLength = 30
  Hasty <- MCHasty
  ContentLength = 1
  Stoi <- MCStoi
  Route <- MCRoute
  Handlers = {"echo", "proxy"}
  Throwing = {"proxy"}
  NULL = "NULL"

INVARIANT RowsWereServed

CHECK_DEADLOCK FALSE
