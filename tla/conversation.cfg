SPECIFICATION FairSpec
CONSTANTS
    NTurns = 3
    MaxInFlight = 2
    MaxEvents = 1
    MaxMessages = 4
    MaxTokens = 2
    WarningPct = 40
    CriticalPct = 60
    RecentTurns = 2
    Patient = FALSE
INVARIANTS
    TypeOK
    RowCountsTranscript
    SoloCeiling
    SoloTurnKept
    SoloAnswerHeard
    HistoryInOrder
PROPERTIES
    SoloSaveExtends
    StreamsEnd
    ImplementsTranscript
CHECK_DEADLOCK FALSE
