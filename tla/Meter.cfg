SPECIFICATION MeterSpec
CONSTANTS
  Projects = {p1, p2}
  Runs = {r1, r2}
  Insts = {i1, i2}
  Snaps = {s1}
  None = None
  Reqs = {q1, q2}
  MaxForks = 1
  MaxWrites = 0
  BootFaults = FALSE
  ApiFaults = FALSE
  Interval = 1
  MaxUp = 1
SYMMETRY Symmetry
INVARIANTS ChargedForUptime BillIsCharges DestroyEndsCharges
