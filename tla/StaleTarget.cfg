SPECIFICATION Spec
CONSTANTS
    Releases = {"v1", "v2"}
    Nil = Nil
    MaxAttempts = 2
    MaxUpdates = 1
    MaxCrashes = 0
INVARIANTS
    NoStaleTarget
CHECK_DEADLOCK FALSE
