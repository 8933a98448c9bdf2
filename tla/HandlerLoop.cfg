CONSTANTS
    k1 = k1
    r1 = r1
    r2 = r2
    NoJob = NoJob
    Keys = {k1}
    Requests = {r1, r2}
    KeyOf <- MCKeyOf
    Restarting = {r1}
    Invalid = {}
    Stores = {"none", "working", "failing"}
    DoneCap = 1
    RestartedCap = 1
    WriteCap = 1
    EventCap = 1
    MaxStarts = 2
SPECIFICATION Spec
INVARIANTS
    StoreFollowsMap
    NoOrphanJob
    MapHoldsRunningJobs
    AcknowledgedIsDurable
PROPERTIES
    OnlyDoneRemoves
