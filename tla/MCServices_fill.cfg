CONSTANTS
    Threads = {t1, t2}
    Submitters = {}
    None = None
    MaxCalls = 2
    Services <- MCServices
    DependsOn <- MCDependsOn
    LockNames <- MCLockNames
    Processors = {p}
    GroupIds <- MCGroupIds
    EventsInGroup = 2
    Runs = {1}

SPECIFICATION Spec

INVARIANTS
    FillLockExcludes

CHECK_DEADLOCK FALSE
