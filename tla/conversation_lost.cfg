SPECIFICATION Spec
CONSTANTS
    NTurns = 2
    MaxInFlight = 2
    MaxEvents = 0
    MaxMessages = 100
    MaxTokens = 100
    WarningPct = 80
    CriticalPct = 90
    RecentTurns = 5
    Patient = FALSE
INVARIANT AnswersKept
CHECK_DEADLOCK FALSE
