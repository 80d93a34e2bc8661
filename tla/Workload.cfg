SPECIFICATION FairSpec
CONSTANTS
  Commands = {c1, c2}
  Free = Free
  Disturbed = {c1}
  Unreliable = {c2}
INVARIANTS TypeOK LeadersExclusive VerdictIsEvaluated ReturnedMeansStopped CancellationStops
PROPERTIES SupervisorReturns SlotIsReleased
CHECK_DEADLOCK FALSE
