SPECIFICATION FairSpec
CONSTANTS
    Rx = {r1, r2}
    Modes = {"700D", "RADEV2"}
    EnabledModes = {"RADEV2"}
    LoadedSignals = {"700D", "RADEV2"}
    Freqs = {f1, f2}
    Nil = Nil
    SignalBlocks = 2
    Identities = {"none", "valid", "invalid"}
    Monitors = {m1, m2}
    MaxGeneration = 3
INVARIANTS
    SingleOwner
    GateFollowsSession
    GenerationNamesJob
    ReadyOnlyAfterOffer
    PlaysBehindResponse
PROPERTIES
    ReadyNeverWithdrawn
    NoRewind
    TestCompletes
CHECK_DEADLOCK FALSE
