SPECIFICATION FairSpec
CONSTANTS
    c1 = c1
    c2 = c2
    b1 = b1
    BadBudget = BadBudget
    NoCandidate = NoCandidate
    NoBudget = NoBudget
    NoEdit = NoEdit
    NoItinerary = NoItinerary
    Candidates = {c1, c2}
    Budgets = {b1, BadBudget}
    Listings <- MCListings
    Edits <- MCEdits
    Intents <- MCIntents
    Ratings <- MCRatings
    Workers <- AgentWorkers
    Bandit = FALSE
    MaxEdits = 2
    MaxRatings = 1
INVARIANTS
    TypeOK
    AgreedOutcome
    EditLogExplainsOrder
    NoCandidateLost
PROPERTIES
    RerunShowsPicks
    Terminates
    ImplementsGate
CHECK_DEADLOCK FALSE
