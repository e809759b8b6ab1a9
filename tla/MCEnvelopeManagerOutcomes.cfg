SPECIFICATION Spec
CONSTANTS
  e1 = e1
  e2 = e2
  NoCategory = NoCategory
  EventName = 0
  Envelopes = {e1}
  Content <- MCContent
  BufferSize = 1
  Modes = {"Upstream"}
INVARIANT DroppedWithOutcome
CHECK_DEADLOCK FALSE
