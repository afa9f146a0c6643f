SPECIFICATION LinkSpec
CONSTANTS
    r1 = r1
    r2 = r2
    m1 = m1
    f1 = f1
    f2 = f2
    Rx = {r1, r2}
    Modes = {"700D"}
    EnabledModes = {"700D"}
    LoadedSignals = {"700D"}
    Freqs = {f1}
    Nil = Nil
    SignalBlocks = 1
    Identities = {"none", "valid"}
    Monitors = {m1}
    MaxGeneration = 6
    MaxPolls = 1
    MaxDrops = 0
    Faults = {"switch", "loss", "refusal"}
SYMMETRY Symmetry
VIEW LinkView
INVARIANTS
    ConflictOnlyFromSwitch
    FrameMatchesJob
    OnlineIsCurrent
    QuietDecoderListens
