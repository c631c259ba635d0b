\* A device whose second region is beyond what an int can address.
CONSTANTS
  DeviceSize = 12
  Half = 2
  IntLimit = 5
  MaxTime = 5
  Flags = {}
  Ops = {"write", "read"}
  Stamps = {1, 2, 3}
  Fakes = {0}
  Limits = {0}
  Ordered = TRUE
  MaxFaults = 0
SPECIFICATION Spec
INVARIANT WriteIsAccepted
