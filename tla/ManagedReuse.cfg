SPECIFICATION Spec
CONSTANTS
  Runs = {r1, r2}
  Crashing = {r1}
  Unreliable = {r2}
  None = None
INVARIANT
  CleanupKillsOwn
CHECK_DEADLOCK FALSE
