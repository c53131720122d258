SPECIFICATION Spec
CONSTANTS
  Projects = {p1}
  Runs = {r1, r2}
  Insts = {i1, i2}
  Snaps = {s1, s2}
  None = None
  Clients = {c1, c2}
  Threads = {h1, h2}
  MaxKids = 2
  Faults = TRUE
INVARIANTS HandlesName ReadYourWrites TimelineIsClosed QuietMeansClean
SYMMETRY Symmetry
