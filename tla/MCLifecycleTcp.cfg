SPECIFICATION BackendsReturn
CONSTANTS
  NumWorkers = 1
  Enabled = {3}
PROPERTIES
  SignalEndsProcess
