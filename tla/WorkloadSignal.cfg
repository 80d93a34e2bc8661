SPECIFICATION FairSpec
CONSTANTS
  Commands = {c1}
  Free = Free
  Disturbed = {c1}
  Unreliable = {}
INVARIANTS SignalDecidesStatus
CHECK_DEADLOCK FALSE
