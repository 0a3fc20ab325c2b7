SPECIFICATION FairSpec
CONSTANTS
    planner = planner
    hotel = hotel
    flight = flight
    Turns = {t1, t2}
    Specialists = {planner, hotel, flight}
    Searchers = {flight}
    Entities = {e1}
    Delegates <- MCDelegates
    MaxIterations <- MCIterations
    MaxCalls <- MCCalls
    MaxRetries = 3
    MaxToolCalls = 2
    AuditRetries = 1
INVARIANTS
    TypeOK
    OverrunExplained
    CardsGrounded
    OverlapTrips
PROPERTIES
    TurnsEnd
    AnswersAudited
CHECK_DEADLOCK FALSE
