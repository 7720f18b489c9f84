CONSTANTS
    Threads = {t1, t2, t3}
    Submitters = {t1, t2}
    None = None
    MaxCalls = 3
    Services <- MCServices
    DependsOn <- MCDependsOn
    LockNames <- MCLockNames
    Processors = {p}
    GroupIds <- MCGroupIds
    EventsInGroup = 2
    Runs = {1}

SPECIFICATION FairSpec

INVARIANTS
    NamedLockExcludes
    ServiceReady
    SubmittedIsFinished
    CalibrationShared

PROPERTIES
    GetServiceEnds

CHECK_DEADLOCK FALSE
