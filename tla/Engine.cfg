SPECIFICATION Spec
CONSTANTS
  Projects = {p1, p2}
  Runs = {r1, r2}
  Insts = {i1, i2, i3}
  Snaps = {s1, s2}
  None = None
  Reqs = {q1, q2}
  MaxForks = 2
  MaxWrites = 0
  BootFaults = TRUE
  ApiFaults = FALSE
SYMMETRY Symmetry
INVARIANTS TypeOK TimelineIsDAG LiveIsUp PausedIsAttended
PROPERTIES HistoryIsImmutable OwnRowsOnly RefinesTimeline
