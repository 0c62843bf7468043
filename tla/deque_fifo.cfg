\* How the program uses the class: producers push_back, one consumer drains.
SPECIFICATION FairSpec
CONSTANTS
  p1 = p1
  p2 = p2
  Producers = {p1, p2}
  Consumers = {c1}
  Items = {a, b}
  Free = Free
  OtherCalls = {}
  MaxPush = 4
INVARIANTS
  TypeOK
  PopNeverThrows
PROPERTIES
  ImplementsFifoChannel
  PushWakesSleeper
