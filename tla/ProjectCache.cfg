SPECIFICATION FairSpec
CONSTANTS
  None = None
  Keys = {k1}
  Clients = {c1, c2}
  Updates = {u1, u2}
  RelayModes = {"Managed", "Static"}
  HasRedis = TRUE
  MayClose = TRUE
  Kinds = {"enabled"}
INVARIANTS
  TypeOK
  WaitersServed
PROPERTIES
  NoCacheHonoured
  EveryClientAnswered
