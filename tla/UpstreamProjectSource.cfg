SPECIFICATION FairSpec
CONSTANTS
  NoChannel = NoChannel
  Keys = {1, 2, 3}
  Requests = {r1, r2, r3}
  Fetches = {f1}
  BatchSize = 2
  NumBatches = 2
  MayStop = TRUE
INVARIANTS
  TypeOK
  Scheduled
  ChannelsOwned
  QueryBounds
PROPERTIES
  ImplementsService
  EveryRequestAnswered
CHECK_DEADLOCK FALSE
