SPECIFICATION Spec
CONSTANTS
    Releases = {"v1", "v2"}
    Nil = Nil
    MaxAttempts = 3
    MaxUpdates = 1
    MaxCrashes = 1
INVARIANTS
    AlwaysBootable
    KiwiRestored
    DecoderRestored
PROPERTIES
    ReleasesKept
CHECK_DEADLOCK FALSE
