SPECIFICATION Spec
CONSTANTS
  Threads = {t1, t2}
  Images = {i1, i2}
  NoImage = NoImage
  Outside = {o1}
  MaxStarts = 3
SYMMETRY Alike
INVARIANTS
  TypeOK
  ShownIsOnDisk
  OrphanHasCause
  AcceptedIsShown

CHECK_DEADLOCK FALSE
