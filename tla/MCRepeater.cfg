SPECIFICATION RepeaterSpec
CONSTANTS
  Name = {"a"}
  BadLinesSeen = "bad_lines_seen"
  Line <- MCLine
  Percentiles <- MCPercentiles
  Frequency = 2
  MaxLines = 3
  MaxTimers = 3
  NumDestinations = 2
INVARIANTS
  RepeatedIsReadable
