SPECIFICATION Spec
CONSTANTS
  s1 = s1
  s2 = s2
  s3 = s3
  Shard = {s1, s2, s3}
  NoShard = NoShard
  Weight <- MCWeight
  Vnodes <- MCVnodes
  DefaultVnodes = 2
  Replicas = 1
  MaxPoints <- MCMaxPoints
  MaxHash = 3
INVARIANTS
  FindIsSuccessor
  OnlyItsKeysMove
PROPERTIES
  SearchNarrows
CHECK_DEADLOCK FALSE
