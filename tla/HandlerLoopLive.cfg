CONSTANTS
    k1 = k1
    r1 = r1
    r2 = r2
    NoJob = NoJob
    Keys = {k1}
    Requests = {r1, r2}
    KeyOf <- MCKeyOf
    Restarting = {}
    Invalid = {r2}
    Stores = {"failing"}
    DoneCap = 1
    RestartedCap = 1
    WriteCap = 1
    EventCap = 1
    MaxStarts = 1
SPECIFICATION FairSpec
PROPERTIES
    CallersAnswered
    ShutdownFinishes
    DoneJobsLeaveMap
