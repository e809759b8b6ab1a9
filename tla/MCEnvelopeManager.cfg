SPECIFICATION FairSpec
CONSTANTS
  e1 = e1
  e2 = e2
  NoCategory = NoCategory
  EventName = 0
  Envelopes = {e1, e2}
  Content <- MCContent
  BufferSize = 1
  Modes = {"Upstream", "Store", "Capture"}
INVARIANTS
  BufferExact
  EndsOnce
PROPERTIES
  EnvelopeEnds
CHECK_DEADLOCK FALSE
