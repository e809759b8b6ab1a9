SPECIFICATION FairSpec
CONSTANTS
  f1 = f1
  f2 = f2
  NoBucket = NoBucket
  Reports = {1, 2}
  Names = {"a"}
  Types = {"c", "g"}
  NameOf <- MCNameOf
  TypeOf <- MCTypeOf
  Flushes = {f1, f2}
  Modes = {"Upstream"}
  Kinds = {"valid", "disabled", "missing"}
  MaxFaults = 1
PROPERTY SentOrDropped
CHECK_DEADLOCK FALSE
