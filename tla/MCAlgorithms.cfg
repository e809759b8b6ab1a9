SPECIFICATION Spec
CONSTANTS
  AttachmentChunkSize = 2
  MaxExplodedSessions = 2
  Scale = 2
  MaxText = 6
  MaxItems = 3
  MaxMajor = 16
  MaxString = 5
  MaxBag = 12
  MaxFrames = 6
  MaxTime = 4
  MaxOriginal = 6
  Bits = 4
  Micros = 2
  Nanos = 4
  MaxPath = 5
  MaxSize = 5
  TicksPerSecond = 2
  MaxU8 = 3
  Kilo = 3
  Kibi = 4
  MaxAge = 4
  BasicTypes = {"string"}
  MinimumClockDrift = 2
  MaxSecsInFuture = 1
  MaxSecsInPast = 3
INVARIANTS
  EnvelopeExact
  AttachmentsReassemble
  RelaysAgree
  RulesAgree
  RedactionExact
  TrimmingBounds
  EventNormalized
CHECK_DEADLOCK FALSE
