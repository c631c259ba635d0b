\* Timestamps in any order, with and without faketimestamp, and three regions.
CONSTANTS
  DeviceSize = 20
  Half = 3
  IntLimit = 100
  MaxTime = 7
  Flags = {}
  Ops = {"write", "read"}
  Stamps = {1, 2}
  Fakes = {0, 2}
  Limits = {0, 1}
  Ordered = FALSE
  MaxFaults = 0
SPECIFICATION Spec
INVARIANTS FullReadIsComplete RegionsAscend
