SPECIFICATION Spec
CONSTANTS
  Runs = {p1, p2}
  Files = {f1}
  MaxVersion = 0
  MaxPreliminary = 0
  SharedBoundary = TRUE
  Reapable = {}
  Restorable = {}
  NoFile = NoFile
SYMMETRY Symmetry
INVARIANTS UsableEvidenceIsBound
CHECK_DEADLOCK FALSE
