SPECIFICATION FairSpec
CONSTANTS
    c1 = c1
    c2 = c2
    c3 = c3
    Candidates = {c1, c2, c3}
    Budgets <- MCBudgets
    BadBudget = 0
    Bandit = FALSE
    NoCandidate = NoCandidate
    NoBudget = NoBudget
    Listings <- MCListings
    Intents <- MCIntents
    Price <- MCPrice
    MaxReflections = 2
    NoPlan = NoPlan
INVARIANTS
    TypeOK
    ReviewedWithinBudget
    PresentedAgrees
    TravelerOrderKept
    FittingPlanOffered
    DeliversPlan
PROPERTIES
    Terminates
CHECK_DEADLOCK FALSE
