SPECIFICATION FairSpec
CONSTANTS
  m1 = m1
  m2 = m2
  m3 = m3
  kA = kA
  NoKey = NoKey
  NoMetric = NoMetric
  Metric = {m1, m2, m3}
  Key = {kA}
  KeyOf <- MCKeyOf
  StrHash <- MCStrHash
  WholeMatch = {m3}
  NumThreads = 2
  DestCounts = {0, 2}
  QueueCapacity = 2
  Garbage <- MCGarbage
INVARIANTS
  TypeOK
  OnePlace
  OvertakenIsInHand
PROPERTIES
  ThreadsEnd
CHECK_DEADLOCK FALSE
