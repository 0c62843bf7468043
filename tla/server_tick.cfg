\* Ticks of a server, in which actions end in every way.
SPECIFICATION ServerSpec
CONSTANTS
  Id = {1, 2}
  Class = {"unit", "wall"}
  NamesOf <- MCNamesOf
  NameOrder <- MCNameOrder
  Value <- MCValue
  GetDelta <- MCGetDelta
  Interp <- MCInterp
  Crc <- MCCrc
  Bytes <- MCBytes
  Parse <- MCParse
  Created <- MCCreated
  Utf8 <- MCUtf8
  Time = {0, 1}
  Full = 1
  Action = {"push", "spawn", "kill", "morph", "fail", "crash"}
  Check <- MCCheck
  Perform <- MCPerform
  Update <- MCUpdate
  ActionObject <- MCActionObject
  BaseTick = 2
  BaseObjects <- MCBaseObjects
  None = None
  MaxTick = 5
  MaxAdd = 3
INVARIANTS
  ServerTypeOK
  DeltaChain
  PacketsReplay
  ActionsMatchStatuses
PROPERTIES
  HistoryImmutable
  TickFollowsDelta
  ImplementsFifoChannel
\* The bounds end the game.
CHECK_DEADLOCK FALSE
