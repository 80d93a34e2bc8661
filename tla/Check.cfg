SPECIFICATION Spec
CONSTANTS
  Absent = Absent
  Inventory = {"a", "t", "m"}
  Cases <- MCCases
  Signals = {2}
  NoPlan = NoPlan
  Running = Running
  Nothing = Nothing
INVARIANTS
  ExitStatusIsEarned
  AcceptanceIsComplete
  PublishedMatchesExit
PROPERTY
  EvidenceNeverImproves
