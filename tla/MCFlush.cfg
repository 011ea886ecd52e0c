SPECIFICATION FlushSpec
CONSTANTS
  d1 = d1
  d2 = d2
  w1 = w1
  w2 = w2
  Dest = {d1, d2}
  NoDest = NoDest
  NumLines = 2
  MaxFlushes = 3
  MaxSocks = 3
  MaxFaults = 1
  Worker = {w1, w2}
  NoWorker = NoWorker
  NoFlusher = NoFlusher
  Name <- MCName
  BadLinesSeen = "bad"
  WorkerOf <- MCWorkerOf
  Clean <- MCClean
  PrefixOf <- MCPrefixOf
  Figure = {"numStats"}
  Place <- MCPlace
  FigurePlace <- MCFigurePlace
  Ledgers <- MCLedgers
INVARIANTS
  FlushTypeOK
  FiguresBelongToThread
  CutIsLastOrRepeated
  NoSocketLeak
PROPERTIES
  FlushEnds
CHECK_DEADLOCK FALSE
