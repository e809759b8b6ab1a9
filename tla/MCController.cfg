SPECIFICATION FairSpec
CONSTANTS
  None = None
  Stopped = Stopped
  Outcomes = {1, 2, 3}
  Batches = {b1, b2}
  BatchSize = 2
  BatchInterval = 1
  Timeout = 1
  Modes <- MCModes
  Signals <- MCSignals
INVARIANTS
  OutcomesKept
  OrderlyStop
PROPERTIES
  SignalStops
  OutcomeSent
CHECK_DEADLOCK FALSE
