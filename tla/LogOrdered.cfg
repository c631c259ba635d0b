\* One process, ascending timestamps, killed at any step; nothing decays.
CONSTANTS
  DeviceSize = 14
  Half = 2
  IntLimit = 100
  MaxTime = 9
  Flags = {}
  Ops = {"write", "read"}
  Stamps = {1, 2, 3, 4, 5, 6, 7}
  Fakes = {0}
  Limits = {0, 2}
  Ordered = TRUE
  MaxFaults = 0
SPECIFICATION Spec
INVARIANTS ReadIsComplete ReadIsOldestFirst WriteIsAccepted KillNeedsNoRecovery
PROPERTY ImplementsRingLog
