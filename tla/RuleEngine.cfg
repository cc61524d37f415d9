SPECIFICATION Spec
CONSTANTS
  None = None
  d1 = d1
  d2 = d2
  WordsOf <- MCWordsOf
  Dictionaries <- MCDictionaries
  Rulesets <- MCRulesets
  Snapshots <- MCSnapshots
  SampleLimit = 2
  CacheSize = 2
INVARIANTS
  RecordsConserved
  CountsAreMeant
  EvidenceIsCounted
PROPERTIES RerunAgrees
