\* Two clients come and go while the game loop goes on.
SPECIFICATION FairSpec
CONSTANTS
  s1 = s1
  s2 = s2
  Session = {s1, s2}
  Null = Null
  Overlap = FALSE
  Ticks = 3
  MaxInbox = 1
INVARIANTS
  TypeOK
  OpenSessionsKept
  LoginOnce
PROPERTIES
  
  ClosedSessionsLeave
  StopReturns
\* A program that is terminated stops.
CHECK_DEADLOCK FALSE
