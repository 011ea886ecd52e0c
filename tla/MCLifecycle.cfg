SPECIFICATION PoliteClient
CONSTANTS
  NumWorkers = 1
  Enabled = {1, 2, 3}
INVARIANTS
  TypeOK
  WorkersOutliveTheirUsers
  ExitStopsThreads
PROPERTIES
  SignalEndsProcess
