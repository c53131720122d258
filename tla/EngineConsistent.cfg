SPECIFICATION Spec
CONSTANTS
  Projects = {p1}
  Runs = {r1}
  Insts = {i1}
  Snaps = {s1, s2}
  None = None
  Reqs = {q1, q2}
  MaxForks = 1
  MaxWrites = 1
  BootFaults = FALSE
  ApiFaults = FALSE
INVARIANT CrashConsistent
