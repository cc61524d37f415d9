SPECIFICATION Spec
CONSTANTS
 Scans = {s1, s2}
 Previews = {s2}
 Import = import
 Rules = {u}
 Workers = {w1}
 MaxAttempts = 1
 MaxConfig = 2
 MaxFaults = 0
 None = None
 Readers = {r1}
 MaxVersion = 2
INVARIANTS FailClosed
 VersionCoversView
 ExportCoversProtection
CHECK_DEADLOCK FALSE
