SPECIFICATION Spec
CONSTANTS
  Requests = {h1, l1, u1}
  High = {h1}
  Retrying = {l1}
  Unbuildable = {u1}
  Checks = {c1}
  RelayModes = {"Managed", "Proxy"}
  Renews = TRUE
  HasGrace = TRUE
  MaxInflight = 1
  MaxBacklog = 2
  MaxFaults = 3
INVARIANTS
  QueuesExact
  OutageIsChecked
  OneAuthentication
  QueueIsPumped
PROPERTIES
  HighFirst
CHECK_DEADLOCK FALSE
