SPECIFICATION Spec
CONSTANTS
    NArrows = 3
    SourceArrows = {0}
    ParallelArrows = {1, 2}
    Listeners <- ChainListeners
    Workers = {w1, w2}
    None = None
    w1 = w1
    w2 = w2
    e1 = e1
    e2 = e2
    e3 = e3
    e4 = e4
    Capacity = 2
    SizeModulus = 256
    Locations <- OneLocation
    Items <- FourItems
    HeapEvents = {}
    LimitInFlight = TRUE
    Location <- SameLocation
    NumEvents = 3
    MaxActiveCount = 3
    MaxRuns = 1
    CanInterrupt = FALSE
    CanStop = FALSE
    CanThrow = FALSE
    CanHang = FALSE
    CanLag = FALSE
INVARIANT DrainingHasWorker
CHECK_DEADLOCK FALSE
