CHECK_DEADLOCK FALSE
SPECIFICATION FairSpec
CONSTANTS
  Parts = {1}
  Contents = {a}
  Requests = {r1, r2}
  Pods = {p1}
  InFlight = 2
  MaxFaults = 0
  None = None
PROPERTIES EveryRequestEnds
