SPECIFICATION Spec
CONSTANTS
  Name = {"a", "b"}
  BadLinesSeen = "bad_lines_seen"
  Line <- MCLine
  Percentiles <- MCPercentiles
  Frequency = 2
  MaxLines = 3
  MaxTimers = 5
INVARIANTS
  TypeOK
  CountersAreSums
  GaugeFollowsInterval
  PercentilesAreRanks
