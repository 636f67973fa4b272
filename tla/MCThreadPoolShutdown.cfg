SPECIFICATION LiveSpec
CONSTANTS
  c1 = c1
  c2 = c2
  x1 = x1
  x2 = x2
  x3 = x3
  Clients = {c1, c2}
  Contexts = {x1, x2, x3}
  WarmWorkers = 2
  MaxJobs = 1
  QueueSize = 2
  MinThreads = 0
  MaxThreads = 3
  StartFailures = 0
  IdleTimeouts = {FALSE}
PROPERTY
  DestructorReturns
CHECK_DEADLOCK FALSE
