SPECIFICATION Spec
CONSTANTS
    planner = planner
    hotel = hotel
    flight = flight
    Turns = {t1, t2}
    Specialists = {planner, hotel, flight}
    Searchers = {flight}
    Entities = {e1}
    Delegates <- MCDelegates
    MaxIterations <- MCIterations
    MaxCalls <- MCCalls
    MaxRetries = 3
    MaxToolCalls = 2
    AuditRetries = 1
PROPERTY SecondFailureTrips
CHECK_DEADLOCK FALSE
