SPECIFICATION Spec
CONSTANTS
    NArrows = 2
    SourceArrows = {0}
    ParallelArrows = {1}
    Listeners <- ChainListeners
    Workers = {w1, w2}
    None = None
    w1 = w1
    w2 = w2
    e1 = e1
    e2 = e2
    e3 = e3
    e4 = e4
    Capacity = 2
    SizeModulus = 256
    Locations <- OneLocation
    Items <- TwoItems
    HeapEvents = {}
    LimitInFlight = TRUE
    Location <- SameLocation
    NumEvents = 2
    MaxActiveCount = 4
    MaxRuns = 2
    CanInterrupt = TRUE
    CanStop = TRUE
    CanThrow = TRUE
    CanHang = TRUE
    CanLag = TRUE
INVARIANTS
    NaturalEndIsComplete
    WorkersQuitTogether
    
PROPERTIES
    PipelineSpec
CHECK_DEADLOCK FALSE
