SPECIFICATION Spec
CONSTANTS
    InitialMaximum = 4
    Settings <- SomeSettings
    MaximumMs = 1000
    Packets = {1, 2}
    Bursts = {1, 2, 3, 5}
    MaxPushed = 8
INVARIANTS
    NothingUncounted
    NewestWindow
PROPERTIES
    ImplementsQueue
