SPECIFICATION FairSpec
CONSTANTS
    Jobs <- SomeJobs
    Listeners = {"zl2abc", "vk5dgr"}
    Nil = Nil
    MaxQueue = 1
    MaxSessions = 2
    MaxRestarts = 1
INVARIANTS
    BoundIdentity
    ListedAsSelected
    ModeFollowsFrequency
PROPERTIES
    PresenceEnds
    OptInListed
