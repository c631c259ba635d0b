\* Any number of clears and kills, and two blocks, hint blocks or headers torn or decayed.
CONSTANTS
  DeviceSize = 10
  Half = 2
  IntLimit = 100
  MaxTime = 7
  Flags = {}
  Ops = {"write", "read", "clear"}
  Stamps = {1}
  Fakes = {2}
  Limits = {2}
  Ordered = FALSE
  MaxFaults = 2
SPECIFICATION Spec
INVARIANTS TypeOK NoBugExit HintsPointBack
 
