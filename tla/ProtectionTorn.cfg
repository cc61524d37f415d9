SPECIFICATION Spec
CONSTANTS
 Scans = {s1}
 Previews = {}
 Import = import
 Rules = {u}
 Workers = {w1}
 MaxAttempts = 1
 MaxConfig = 2
 MaxFaults = 0
 None = None
 Readers = {r1}
 MaxVersion = 3
INVARIANT ViewIsOfAMoment
CHECK_DEADLOCK FALSE
