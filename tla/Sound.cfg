SPECIFICATION Spec
CONSTANTS
    Modulus = 3
    PacketSize = 2
    Amounts = {2, 3}
    MaxQueued = 3
    Priming = 1
    Features = 2
    MaxSpeech = 2
    MaxPackets = 6
    MaxJobs = 2
INVARIANTS
    NothingCrosses
    DropsCounted
CHECK_DEADLOCK FALSE
