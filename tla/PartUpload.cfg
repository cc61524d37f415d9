SPECIFICATION Spec
CONSTANTS
  Parts = {1, 2}
  Contents = {a, b}
  Requests = {r1, r2, r3}
  Pods = {p1}
  InFlight = 3
  MaxFaults = 1
  None = None
CHECK_DEADLOCK FALSE
SYMMETRY Symmetry
INVARIANTS
  StagedIsRecorded
PROPERTIES ImplementsUpload
