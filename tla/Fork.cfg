SPECIFICATION FairSpec
CONSTANTS
  VMs = {v0, v1}
  Snaps = {s1}
  Genesis = v0
  Procs = {root}
  Root = root
  None = None
  Faults = TRUE
INVARIANTS TypeOK FreshCalls HeldUntilBumped OnlyInFlightCallIsStale ReadyMeansDiverged
PROPERTIES ForkSettles PollerReseeds
CHECK_DEADLOCK FALSE
