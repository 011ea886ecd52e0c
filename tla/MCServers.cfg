SPECIFICATION Spec
CONSTANTS
  Thread = {t1, t2}
  Datagram <- MCDatagram
  NL = "nl"
  NUL = "nul"
  MaxMsgSize = 3
  RcvBuf = 2
  MaxDatagrams = 3
  Client = {c1, c2}
  NoClient = NoClient
  Stream <- MCStream
  BufSize = 4
  Backlog = 2
  MaxFailures = 1
  MaxResets = 1
INVARIANTS
  TypeOK
  DescriptorsInUse
  LineFits
PROPERTIES
  HandlesPackets
  ClientsServed
  ServerEnds
CHECK_DEADLOCK FALSE
