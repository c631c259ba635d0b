\* A block decays, and is read.
CONSTANTS
  DeviceSize = 12
  Half = 2
  IntLimit = 100
  MaxTime = 5
  Flags = {}
  Ops = {"write", "read"}
  Stamps = {1, 2}
  Fakes = {0}
  Limits = {0}
  Ordered = TRUE
  MaxFaults = 1
SPECIFICATION Spec
INVARIANT CorruptIsNotPrinted
