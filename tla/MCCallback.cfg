SPECIFICATION Spec
CONSTANTS
  e1 = e1
  e2 = e2
  l1 = l1
  l2 = l2
  s1 = s1
  f1 = f1
  Emitters = {e1,e2}
  Listeners = {l1, l2}
  Signals = {s1}
  SlotFns = {f1}
  MaxSlots = 2
  MaxDepth = 3
SYMMETRY Symmetry
INVARIANTS
  ReceiverAlive
  BothEndsAgree
  ActivationSound
  IteratorsValid
  EmissionExact
CHECK_DEADLOCK FALSE
