\* As LogOrdered, with updates of the application data.
CONSTANTS
  DeviceSize = 10
  Half = 2
  IntLimit = 100
  MaxTime = 9
  Flags = {sent}
  Ops = {"write", "update"}
  Stamps = {1, 2, 3, 4, 5}
  Fakes = {0}
  Limits = {0}
  Ordered = TRUE
  MaxFaults = 0
SPECIFICATION Spec
PROPERTY ImplementsRingLog
