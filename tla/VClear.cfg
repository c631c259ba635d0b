\* Write, clear, read; nothing decays.
CONSTANTS
  DeviceSize = 12
  Half = 2
  IntLimit = 100
  MaxTime = 5
  Flags = {}
  Ops = {"write", "read", "clear"}
  Stamps = {1, 2}
  Fakes = {0}
  Limits = {0}
  Ordered = TRUE
  MaxFaults = 0
SPECIFICATION MCSpec
INVARIANT ClearedIsUnreachable
