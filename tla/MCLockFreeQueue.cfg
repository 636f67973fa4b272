SPECIFICATION Spec
CONSTANTS
  t1 = t1
  t2 = t2
  t3 = t3
  a = a
  b = b
  Threads = {t1, t2, t3}
  Values = {a, b}
  Capacity = 2
  MaxPushes = 5
SYMMETRY Symmetry
INVARIANTS
  NoDataRace
  FailureExcused
  SizeNoUnderflow
  DestructorSound
PROPERTY
  FifoSpec
