SPECIFICATION FairSpec
CONSTANTS
  Runs = {r1, r2}
  Workers = {w1, w2}
  None = None
  MaxFaults = 1
INVARIANTS
  TypeOK
  SucceededIffPublished
  PublishedByLastClaim
  PublishedFromPinnedObject
  ReportedSuccessIsPublished
  SaveIsCurrent
  EventsExplainRow
PROPERTIES
  TerminalIsFinal
  ImplementsLifecycle
  EveryRunSettles
