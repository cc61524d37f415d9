SPECIFICATION FairSpec
CONSTANTS
  Sessions = {1}
  Workers = {w}
  Assets = {a}
  Raws = {x}
  Mappings = {m}
  MaxAttempts = 1
  None = None
CHECK_DEADLOCK FALSE
PROPERTIES OverdueIsMarkedFailed
