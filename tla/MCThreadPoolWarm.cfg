SPECIFICATION Spec
CONSTANTS
  c1 = c1
  c2 = c2
  x1 = x1
  x2 = x2
  x3 = x3
  Clients = {c1, c2}
  Contexts = {x1, x2, x3}
  WarmWorkers = 1
  MaxJobs = 2
  QueueSize = 2
  MinThreads = 0
  MaxThreads = 2
  StartFailures = 0
  IdleTimeouts = {TRUE, FALSE}
SYMMETRY Symmetry
INVARIANTS
  JobRunsOnce
  ThreadCountExact
  NoJobStranded
\* The destructor may never return: MCThreadPoolShutdown.cfg.
CHECK_DEADLOCK FALSE
