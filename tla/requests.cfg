SPECIFICATION Spec
CONSTANTS
    c1 = c1
    c2 = c2
    c3 = c3
    q1 = q1
    q2 = q2
    q3 = q3
    q4 = q4
    q5 = q5
    Conversations = {c1, c2, c3}
    Requests = {q1, q2, q3, q4, q5}
    Patches <- MCPatches
    MaxActive = 1
    None = None
INVARIANTS
    TypeOK
    LimitExplained
PROPERTIES
    SoloLifecycle
SYMMETRY Same
CHECK_DEADLOCK FALSE
