\* Timestamps in any order, no faketimestamp.
CONSTANTS
  DeviceSize = 12
  Half = 2
  IntLimit = 100
  MaxTime = 5
  Flags = {}
  Ops = {"write", "read"}
  Stamps = {1, 2, 3}
  Fakes = {0}
  Limits = {0}
  Ordered = FALSE
  MaxFaults = 0
SPECIFICATION Spec
INVARIANT NewEntryIsLatest
