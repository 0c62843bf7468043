\* A client whose socket is closed by a write, and a broadcast.
SPECIFICATION Spec
CONSTANTS
  s1 = s1
  s2 = s2
  Session = {s1}
  Null = Null
  Overlap = FALSE
  Ticks = 2
  MaxInbox = 1
INVARIANTS
  ReadersAlive
\* A program that is terminated stops.
CHECK_DEADLOCK FALSE
