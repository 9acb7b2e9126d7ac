CONSTANTS
  Processes = {p1, p2, p3}
  Requests = {r1}
  Nobody = Nobody
  Last = 3
  MaxCrashes = 3
  Environments <- MCEnvironments
SPECIFICATION FairSpec
CHECK_DEADLOCK FALSE
INVARIANTS
  TypeOK
  VersionTellsTheTruth
  ServesCompleteSchema
PROPERTIES
  ImplementsUpgrade
  StartsComeToAnEnd
  StopsComeToAnEnd
