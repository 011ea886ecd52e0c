SPECIFICATION FairSpec
CONSTANTS
  m1 = m1
  m2 = m2
  m3 = m3
  m4 = m4
  kA = kA
  kB = kB
  kBad = kBad
  NoKey = NoKey
  NoMetric = NoMetric
  Metric = {m1, m2}
  Key <- MCKey
  BadKeys = kBad
  KeyOf <- MCKeyOf
  StrHash <- MCStrHash
  Malformed <- MCMalformed
  NumWorkers = 2
  NumBackends = 1
  QueueCapacity = 1
  Frequency = 2
  Garbage <- MCGarbage
PROPERTIES
  FlushedEveryInterval
