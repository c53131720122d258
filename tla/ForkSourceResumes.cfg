SPECIFICATION FairSpec
CONSTANTS
  VMs = {v0, v1}
  Snaps = {s1}
  Genesis = v0
  Procs = {root}
  Root = root
  None = None
  Faults = FALSE
PROPERTY SourceResumes
CHECK_DEADLOCK FALSE
