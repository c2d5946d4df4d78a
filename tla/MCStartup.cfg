SPECIFICATION FairSpec
CONSTANTS
  CHILDREN = 2
  MAX_RUNS = 2
INVARIANTS
  TypeOK
  NothingStaleInUse
  MissingOnesAreOrphans
  OrderlyExitLeavesNothing
PROPERTIES
  StartsOrExplained

CHECK_DEADLOCK FALSE
