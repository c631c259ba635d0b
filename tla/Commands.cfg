\* bdl in runs and sessions, or an application, on devices of three sizes.
CONSTANTS
  ArgMax = 4
  DefaultBlock = 4
  MinBlock = 4
  MaxBlock = 8
  BlockDivisor = 2
  DefaultPad = 8
  MinPad = 8
  PadDivisor = 2
  RegionSize = 24
  HeaderBytes = 4
  HintBytes = 3
  IntSize = 64
  BlankBytes = 6
  SmallSize = 40
  MaxHeld = 2
  Sizes = {4, 15, 39, 70, 130}
  Lines <- MCLines
SPECIFICATION Spec
INVARIANTS TypeOK  StatusIsTrue ArgumentsCount InitIsValid BackupsAreFree
 
