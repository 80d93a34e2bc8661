SPECIFICATION Spec
CONSTANTS
  MiB = 160
  Alignment = 10
  Unlimited = Unlimited
  Absent = Absent
  Inventory = {"a", "b"}
  MaxCount = 3
  MaxLines = 9
  Undeclared = Nothing
  Unnamed = Nothing
  Nothing = Nothing
  None = Nothing
  HashSize = 4
  HashBase = 3
  WindowLimit = 6
  MatchLimit = 4
INVARIANTS
  BudgetFitsEveryLevel
  LaunchedScopeIsFound
  RatchetAdmitsNoNewDebt
  CleanScoreIsEarned
  PartitionsCoverTheInventory
  LcovCreditsOnlyProduction
  CoverageScoreIsEarned
  ClonesAreComplete
CHECK_DEADLOCK FALSE
