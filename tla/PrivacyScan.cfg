SPECIFICATION FairScanSpec
CONSTANTS
 Scans = {s1, s2}
 Previews = {}
 Import = import
 Rules = {u}
 Workers = {w1, w2}
 MaxAttempts = 2
 MaxConfig = 2
 MaxFaults = 2
 None = None
INVARIANTS OneActiveScan
 FindingsOfPinnedRules
PROPERTIES ImplementsLifecycle ScanSettles
CHECK_DEADLOCK FALSE
