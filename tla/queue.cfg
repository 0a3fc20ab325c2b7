SPECIFICATION FairSpec
CONSTANTS
    m1 = m1
    m2 = m2
    s1 = s1
    s2 = s2
    Workers = {w1, w2}
    Messages = {m1, m2}
    Sessions = {s1, s2}
    Bodies <- MCBodies
    MaxRedeliveries = 1
    MaxLosses = 1
    Lost = Lost
    MaxHistoryTurns = 12
    UsesTools = TRUE
    MaxIterations = 1
    MaxCalls = 2
INVARIANTS
    TypeOK
    RunsExplained
PROPERTIES
    ImplementsDelivery
    SavesCarriedHistory
    MessagesSettled
CHECK_DEADLOCK FALSE
