SPECIFICATION FairSpec
CONSTANTS
  Threads = {t1, t2}
  Sessions = {s1, s2}
  Targets = {"/status", "/none"}
  Requests <- MCRequests
  Route <- MCRoute
  MaxRequests = 2
  NoTarget = NoTarget
  Nobody = Nobody
INVARIANTS
  TypeOK
  OneOwner
  CountIsCurrent
  LogIsComplete
  AlwaysAccepting
PROPERTIES
  IsLedger
  ClientIsAnswered
  SignalEnds
  EventuallyLogged

CHECK_DEADLOCK FALSE
