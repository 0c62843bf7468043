\* Every call of the class, and two consumers.
SPECIFICATION Spec
CONSTANTS
  p1 = p1
  p2 = p2
  Producers = {p1, p2}
  Consumers = {c1, c2}
  Items = {a, b}
  Free = Free
  OtherCalls = {"push_front", "pop_back", "clear"}
  MaxPush = 3
SYMMETRY MCSymmetry
INVARIANTS
  NoLockCycle
CHECK_DEADLOCK FALSE
