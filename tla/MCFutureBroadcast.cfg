SPECIFICATION Spec
CONSTANTS
  o1 = o1
  w1 = w1
  Owners = {o1}
  Workers = {w1}
  MaxStarts = 1
INVARIANT
  BroadcastToLiveSignal
