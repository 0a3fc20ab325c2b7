SPECIFICATION Spec
CONSTANTS
    j1 = j1
    j2 = j2
    s1 = s1
    s2 = s2
    Jobs = {j1, j2}
    Signals = {s1, s2}
    Carried <- MCCarried
    MaxAttempts = 2
    Assigned = "bandit"
    Sections = 2
    MaxPlans = 1
    Empty = Empty
    Torn = Torn
INVARIANTS
    TypeOK
    LearningExplained
    FallbackExplained
CHECK_DEADLOCK FALSE
