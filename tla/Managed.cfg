SPECIFICATION FairSpec
CONSTANTS
  Runs = {r1, r2}
  Crashing = {r1}
  Unreliable = {r2}
  None = None
INVARIANTS
  TypeOK
  TargetIsPinned
  CompletedIsVerified
  ReturnedLeavesNothing
  LiveRunUndisturbed
PROPERTIES
  LeaseIsFreed
  OrphansEnd
CHECK_DEADLOCK FALSE
