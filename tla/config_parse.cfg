SPECIFICATION FairSpec
CONSTANTS
  Chars <- Char
  MaxChars = 10
  Words = {"server", "port"}
INVARIANTS
  TypeOK
  StackIsPath
  WordsAreApart
  AcceptedIsComplete
  PortIsTheServers
PROPERTY ParseEnds

CHECK_DEADLOCK FALSE
