SPECIFICATION Spec
CONSTANTS
  Timers = {2, 3}
  Intervals = {1}
  DefaultTime = 3
  MaxTime = 2
INVARIANT
  NoActivationAfterRemove
CHECK_DEADLOCK FALSE
