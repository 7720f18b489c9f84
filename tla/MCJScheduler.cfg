SPECIFICATION FairSpec
CONSTANTS
    NArrows = 3
    SourceArrows = {0}
    ParallelArrows = {1}
    Listeners <- ChainListeners
    Workers = {w1, w2}
    MaxActiveCount = 3
    None = None
INVARIANTS
    TypeOK
    ThreadCountExact
    SequentialExclusive
    CountersSound
PROPERTIES
    FinalizesAlone
    UpstreamDoneFirst
    PauseIsComplete
    NoStarvation
