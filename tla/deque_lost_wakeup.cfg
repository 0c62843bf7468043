\* A push between empty() and the sleep of wait() wakes nobody.
SPECIFICATION FairSpec
CONSTANTS
  p1 = p1
  p2 = p2
  Producers = {p1, p2}
  Consumers = {c1}
  Items = {a}
  Free = Free
  OtherCalls = {}
  MaxPush = 2
PROPERTIES
  ReceivedIsRead
