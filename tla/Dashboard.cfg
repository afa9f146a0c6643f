SPECIFICATION DashboardSpec
CONSTANTS
    Size = 4
    FftSize = 2
    Modulus = 16
    Bursts = {1, 2}
    MaxSamples = 5
    MaxChanges = 2
    Viewers = {v1, v2}
    v1 = v1
    v2 = v2
    MaxClients = 1
    CaptureSize = 2
INVARIANTS
    TornOnlyByStop
    OldFramesAreFew
    SeatsCounted
    CaptureIsNewest
PROPERTIES
    NewFramesOnly
