SPECIFICATION Spec
CONSTANTS
    MaxQueued = 2
    MaxSessions = 2
    MaxPackets = 6
INVARIANTS
    QueueIsKnown
    SpeechInOrder
PROPERTIES
    BoundedDelay
    StopDrains
