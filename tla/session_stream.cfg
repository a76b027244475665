SPECIFICATION FairSpec
CONSTANTS
  VerbLengths <- MCVerbLengths
  Streams <- MCStreams
  MaxLength = 30
  Hasty <- MCHasty
  ContentLength = 1
  Stoi <- MCStoi
  Route <- MCRoute
  Handlers = {"echo", "proxy"}
  Throwing = {"proxy"}
  NULL = "NULL"
INVARIANTS
  TypeOK
  BodyFollowsHeader
  BodyHandlerIsCurrent
  AnswersInOrder
PROPERTY EveryRequestAnswered

CHECK_DEADLOCK FALSE
