SPECIFICATION Spec
CONSTANTS
  Marks = {m1}
  MaxVersion = 2
  MaxFaults = 1
INVARIANT HubInOrder
INVARIANT NothingOwed
PROPERTY CounterSettles
CHECK_DEADLOCK FALSE
