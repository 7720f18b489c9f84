SPECIFICATION Spec
CONSTANTS
    NArrows = 3
    SourceArrows = {0}
    ParallelArrows = {1, 2}
    Listeners <- ChainListeners
    Workers = {w1, w2, w3}
    None = None
    w1 = w1
    w2 = w2
    w3 = w3
    e1 = e1
    e2 = e2
    h1 = h1
    Capacity = 1
    SizeModulus = 256
    Locations <- TwoLocations
    Items <- TwoItems
    HeapEvents = {h1}
    LimitInFlight = FALSE
    Location <- TwoPlaces
    NumEvents = 2
INVARIANTS
    TypeOK
    ReservationsExact
    MailboxBounded
    EventsConserved
    ExactlyOnce
CHECK_DEADLOCK FALSE
