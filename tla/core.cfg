\* Every pair of 7-bit ints; floats with 3 significant bits.  Two ids, three
\* classes, two of them with the same value, three values.  Two objects and three
\* draw instances.
SPECIFICATION CoreSpec
CONSTANTS
  Width = 7
  Precision = 3
  Steps = 4
  ByteWidth = 1
  Id = {1, 2}
  Class = {"unit", "wall", "tower"}
  NamesOf <- MCNamesOf
  NameOrder <- MCNameOrder
  Value <- MCValue
  GetDelta <- MCGetDelta
  Interp <- MCInterp
  Crc <- MCCrc
  Time <- Times
  Full = 4
  Bytes <- MCBytes
  Parse <- MCParse
  Created <- MCCreated
  Utf8 <- MCUtf8
  GameObject = {"tree", "rock"}
  Instance = {"d1", "d2", "d3"}
  Nobody = "none"
INVARIANTS
  TypeOK
  RoundTrip
  InterpolatedView
  DeltaOverWire
  SnapshotOverWire
  SmallIntsInterpolate
  IntsApplyClosely
  FloatsApplyClosely
  ObserversExist
