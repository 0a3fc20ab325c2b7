SPECIFICATION Spec
CONSTANTS
    NTurns = 3
    MaxInFlight = 2
    MaxEvents = 0
    MaxMessages = 100
    MaxTokens = 100
    WarningPct = 80
    CriticalPct = 90
    RecentTurns = 5
    Patient = TRUE
INVARIANT NextTurnReads
CHECK_DEADLOCK FALSE
