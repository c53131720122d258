SPECIFICATION PutSpec
CONSTANTS
  Bytes = {0, 1, 2}
  MaxLen = 8
  BlockSize = 2
  Buf = 6
  Gear <- MCGear
  Width = 3
  MaskBits = 2
  Mn = 2
  Mx = 4
INVARIANTS RestoresFile CutsAreLocal
CHECK_DEADLOCK FALSE
