SPECIFICATION FairSpec
CONSTANTS
  Requests = {h1, l1}
  High = {h1}
  Retrying = {h1, l1}
  Unbuildable = {}
  Checks = {c1}
  RelayModes = {"Managed", "Proxy"}
  Renews = TRUE
  HasGrace = FALSE
  MaxInflight = 1
  MaxBacklog = 1
  MaxFaults = 3
PROPERTIES
  EveryRequestAnswered
CHECK_DEADLOCK FALSE
