SPECIFICATION Spec
CONSTANTS
  Threads = {t1, t2}
  Sessions = {s1}
  Targets = {"/echo", "/none"}
  Requests <- MCWellFormed
  Route <- MCRoute
  MaxRequests = 2
  NoTarget = NoTarget
  Nobody = Nobody
INVARIANT RowsWereServed

CHECK_DEADLOCK FALSE
