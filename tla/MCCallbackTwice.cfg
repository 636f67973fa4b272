SPECIFICATION Spec
CONSTANTS
  e1 = e1
  l1 = l1
  s1 = s1
  f1 = f1
  Emitters = {e1}
  Listeners = {l1}
  Signals = {s1}
  SlotFns = {f1}
  MaxSlots = 2
  MaxDepth = 1
INVARIANT
  CallsLiveReceiver
CHECK_DEADLOCK FALSE
