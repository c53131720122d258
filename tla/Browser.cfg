SPECIFICATION FairSpec
CONSTANTS
  MaxId = 9
  Retries = 2
INVARIANTS PublishedIsReal PassIsRecent
PROPERTIES BeatsAdvance FailsVisibly
CHECK_DEADLOCK FALSE
