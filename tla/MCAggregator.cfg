SPECIFICATION FairSpec
CONSTANTS
  f1 = f1
  f2 = f2
  NoBucket = NoBucket
  Reports = {1, 2, 3}
  Names = {"a"}
  Types = {"c", "g"}
  NameOf <- MCNameOf
  TypeOf <- MCTypeOf
  Flushes = {f1, f2}
  Modes = {"Upstream", "Store", "Capture"}
  Kinds = {"valid", "disabled", "missing", "allowed"}
  MaxFaults = 2
INVARIANTS
  BucketsExact
PROPERTIES
  ImplementsDelivery
  EventuallyFlushed
CHECK_DEADLOCK FALSE
