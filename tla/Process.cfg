SPECIFICATION FairSpec
CONSTANTS
  Descendants = {d1, d2}
  Leader = leader
  Escapees = {d1, d2}
  Blocking = {"stderr"}
INVARIANTS TypeOK OutcomeIsClean SurvivorsAreKilled
PROPERTIES CommandReturns ReadersStop
CHECK_DEADLOCK FALSE
