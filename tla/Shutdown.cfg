CONSTANTS
  Processes = {p1}
  Requests = {r1}
  Nobody = Nobody
  Last = 1
  MaxCrashes = 0
  Environments <- MCEnvironments
SPECIFICATION Spec
CHECK_DEADLOCK FALSE
INVARIANTS
  RequestsGetTheirGrace
