\* Three connections, with and without a disconnect() between them.
SPECIFICATION FairSpec
CONSTANTS
  s1 = s1
  s2 = s2
  s3 = s3
  Session = {s1, s2, s3}
  Null = Null
INVARIANTS
  TypeOK
  HandlersOwned
  TerminatedIfHeld
PROPERTIES
  DisconnectReturns
\* A program that is terminated stops.
CHECK_DEADLOCK FALSE
