SPECIFICATION Spec
CONSTANTS
    StalledMainLoop = 3
    StalledControl = 2
    WatchdogPeriod = 2
    WatchdogSec = 6
    RestartSec = 1
    MaxBackoff = 6
    MaxMessages = 1
    MaxFaults = 3
INVARIANTS
    HealthTruthful
    AttemptsGoOn
PROPERTIES
    KilledOnlyWhileBlocked
    Recovers
