SPECIFICATION FairLinkSpec
CONSTANTS
    r1 = r1
    r2 = r2
    m1 = m1
    f1 = f1
    f2 = f2
    Rx = {r1, r2}
    Modes = {"700D"}
    EnabledModes = {"700D"}
    LoadedSignals = {}
    Freqs = {f1}
    Nil = Nil
    SignalBlocks = 1
    Identities = {"none"}
    Monitors = {m1}
    MaxGeneration = 4
    MaxPolls = 1
    MaxDrops = 1
    Faults = {}
PROPERTIES
    Served
