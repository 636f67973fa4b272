SPECIFICATION Spec
CONSTANTS
  Clients = {c1, c2}
  Establishers = {e1, e2}
  Listener = l
  c1 = c1
  c2 = c2
  e1 = e1
  e2 = e2
  l = l
  MaxRoom = 1
  Budgets <- MCBudgets
INVARIANTS
  PointersLive
  PollInStep
  DispatchWanted
  StreamIntact
  ResolversLinked
PROPERTIES
  InterruptReturns
  ResolverReported
  Flushed
CHECK_DEADLOCK FALSE
