SPECIFICATION FairSpec
CONSTANTS
  Sessions = {1}
  Workers = {w1, w2, w3}
  Assets = {a}
  Raws = {x}
  Mappings = {m1, m2}
  MaxAttempts = 3
  None = None
CHECK_DEADLOCK FALSE
INVARIANTS VerifiedIsOfLastAttempt
PROPERTIES
  DecidedByOwner
  EveryImportDecided
