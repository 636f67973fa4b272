SPECIFICATION Spec
CONSTANTS
  c1 = c1
  c2 = c2
  x1 = x1
  x2 = x2
  x3 = x3
  x4 = x4
  Clients = {c1, c2}
  Contexts = {x1, x2, x3, x4}
  WarmWorkers = 2
  MaxJobs = 2
  QueueSize = 2
  MinThreads = 0
  MaxThreads = 3
  StartFailures = 0
  IdleTimeouts = {TRUE}
SYMMETRY Symmetry
INVARIANT
  NoSleepOverJob
CHECK_DEADLOCK FALSE
