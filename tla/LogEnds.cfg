\* Every operation on a device with a torn or decayed block, under fairness.
CONSTANTS
  DeviceSize = 10
  Half = 2
  IntLimit = 100
  MaxTime = 7
  Flags = {}
  Ops = {"write", "read", "update", "clear"}
  Stamps = {2}
  Fakes = {1}
  Limits = {0, 1}
  Ordered = FALSE
  MaxFaults = 1
SPECIFICATION FairSpec
PROPERTY OperationsEnd
