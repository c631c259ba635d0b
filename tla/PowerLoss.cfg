\* Writes, clears and recoveries; kills, and one loss of power or torn block.
CONSTANTS
  DeviceSize = 10
  Half = 2
  IntLimit = 100
  MaxTime = 7
  Flags = {}
  Ops = {"write", "clear"}
  Stamps = {1, 2}
  Fakes = {0}
  Limits = {0}
  Ordered = TRUE
  MaxFaults = 1
  QueueMax = 2
  SyncSize = 9
  PageSize = 4
  BlockCells = 2
  HeaderCells = 4
SPECIFICATION PowerSpec
INVARIANTS PowerTypeOK HintsPointBack NoBugExit DirtyIsQueued 
PROPERTY RecoveryIsDurable
