\* Ints of 16 bits in bytes of 8; one id and one class.
SPECIFICATION PairSpec
CONSTANTS
  Width = 16
  Precision = 11
  Steps = 4
  ByteWidth = 8
  Id = {1}
  Class = {"wall"}
  NamesOf <- MCNamesOf
  NameOrder <- MCNameOrder
  Value <- MCValue
  GetDelta <- MCGetDelta
  Interp <- MCInterp
  Crc <- MCCrc
  Time <- Times
  Full = 4
  Bytes <- MCBytes
  Parse <- MCParse
  Created <- MCCreated
  Utf8 <- MCUtf8
  GameObject = {"tree", "rock"}
  Instance = {"d1", "d2", "d3"}
  Nobody = "none"
INVARIANTS
  PacketDecodes
