SPECIFICATION GateSpec
CONSTANTS
  Runs = {p1, p2}
  Files = {f1, f2}
  MaxVersion = 1
  MaxPreliminary = 1
  SharedBoundary = FALSE
  Reapable = {p1, p2}
  Restorable = {p1}
  NoFile = NoFile
  Gate = gate
  GateLeased = TRUE
  Rechecks = TRUE
SYMMETRY FileSymmetry
VIEW CheckoutView
INVARIANTS UsableEvidenceIsBound FailedRunIsWithdrawn ScoredReportWasVerified AcceptedCheckoutIsCurrent
PROPERTIES CompletionIsDurable ImplementsContract
CHECK_DEADLOCK FALSE
