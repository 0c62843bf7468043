\* Everything that can go wrong with a connection, two packets to the server.
SPECIFICATION FairSpec
CONSTANTS
  Client = Client
  Server = Server
  Packets = {h, d}
  HeaderOnly = {h}
  NoBody = NoBody
  Close = Close
  MayBreak = TRUE
  MaxSend <- OneWay
INVARIANTS
  TypeOK
  SingleWriter
  WriteChainAlive
  ReadChainAlive
PROPERTIES
  ClientToServer
  Delivered
  CloseDetected
\* A closed session does nothing more.
CHECK_DEADLOCK FALSE
