\* A client connects while a delta is broadcast.
SPECIFICATION Spec
CONSTANTS
  s1 = s1
  s2 = s2
  Session = {s1, s2}
  Null = Null
  Overlap = TRUE
  Ticks = 2
  MaxInbox = 1
PROPERTIES
  NoModificationInIteration
\* A program that is terminated stops.
CHECK_DEADLOCK FALSE
