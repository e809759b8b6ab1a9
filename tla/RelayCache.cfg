SPECIFICATION FairSpec
CONSTANTS
  NoChannel = NoChannel
  Ids = {i1, i2, s1}
  Static = {s1}
  Requests = {r1, r2}
  HasCredentials = TRUE
  MayStop = TRUE
INVARIANTS
  TypeOK
  OneFetch
  WaitersServed
PROPERTIES
  EveryRequestAnswered
CHECK_DEADLOCK FALSE
