SPECIFICATION FairSpec
CONSTANTS
  r1 = r1
  r2 = r2
  Runs = {r1, r2}
  Plans <- MCPlans
  Forks <- MCForks
  MaxExits = 1
  Baked = Baked
  None = None
INVARIANTS NoCollision FrozenMeansCrossed VerdictSound
PROPERTIES RefinesBranches HarnessEnds
CHECK_DEADLOCK FALSE
