SPECIFICATION Spec
CONSTANTS
  Sessions = {1, 2}
  Workers = {w}
  Assets = {a}
  Raws = {x, y}
  Mappings = {m1, m2}
  MaxAttempts = 2
  None = None
CHECK_DEADLOCK FALSE
INVARIANTS
  RegisteredIsVerified
  VersionsAreDense
  RegistrationNeverCollides
PROPERTIES ImplementsImport
