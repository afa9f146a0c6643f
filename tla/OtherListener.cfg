SPECIFICATION Spec
CONSTANTS
    Jobs <- OptedInJobs
    Listeners = {"zl2abc", "vk5dgr"}
    Nil = Nil
    MaxQueue = 4
    MaxSessions = 2
    MaxRestarts = 1
INVARIANTS
    SelectedListener
