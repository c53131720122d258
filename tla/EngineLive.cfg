SPECIFICATION FairSpec
CONSTANTS
  Projects = {p1}
  Runs = {r1}
  Insts = {i1, i2, i3}
  Snaps = {s1}
  None = None
  Reqs = {q1, q2}
  MaxForks = 2
  MaxWrites = 1
  BootFaults = TRUE
  ApiFaults = TRUE
PROPERTY RequestsEnd
