SPECIFICATION Spec
CONSTANTS
  a = a
  b = b
  Chunks = {a, b}
  Images <- MCImages
  MaxBlocks = 2
  Snaps = {s1, s2}
  Threads = {t1, t2}
  Workers = 1
  Inodes = {n1, n2, n3, n4}
  None = None
  ColdTier = TRUE
  Faults = TRUE
INVARIANTS TypeOK MissingMeansFailed UnreadableMeansTorn NoForeignBlocks
PROPERTY LoneForkLoadsWholeImage
SYMMETRY Symmetry
