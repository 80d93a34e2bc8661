SPECIFICATION GateSpec
CONSTANTS
  Runs = {p1, p2}
  Files = {f1}
  MaxVersion = 1
  MaxPreliminary = 0
  SharedBoundary = FALSE
  Reapable = {}
  Restorable = {}
  NoFile = NoFile
  Gate = gate
  GateLeased = FALSE
  Rechecks = FALSE
SYMMETRY Symmetry
VIEW GateView
INVARIANTS ScoredReportWasVerified
CHECK_DEADLOCK FALSE
