------------------------------ MODULE TripPlans ------------------------------
(***************************************************************************)
(* What the workflow and the planning graph share: the sections of a trip, *)
(* its constraints, candidate lists, and the itineraries that the          *)
(* itinerary generation activity may return (activities/travel_activities  *)
(* .py, graph/state.py).  A candidate is its id, a list of candidates a    *)
(* sequence of ids, best first.                                            *)
(***************************************************************************)
EXTENDS Naturals, Sequences, Lists

CONSTANTS
    Candidates,   \* ids a search may return for a section
    Budgets,      \* budget limits a goal or an edit may state
    BadBudget,    \* the one of them that is not positive
    Bandit,       \* TRUE: this user is on the bandit ranking arm
    NoCandidate, NoBudget

ASSUME PlansOK ==
    /\ Bandit \in BOOLEAN
    /\ NoCandidate \notin Candidates
    /\ NoBudget \notin Budgets /\ BadBudget \in Budgets

Sections == {"flight", "hotel", "restaurant", "attraction"}

\* Are the required trip fields there and sane, the purpose, and the budget.
Constraints == [complete : BOOLEAN, purpose : {"business", "leisure"},
                budget : Budgets \cup {NoBudget}]

Unresolved == [complete |-> FALSE, purpose |-> "leisure", budget |-> NoBudget]

\* _missing_or_invalid finds nothing.
Usable(c) == c.complete /\ c.budget # BadBudget

ListingOK(l) ==
    /\ l \in Seq(Candidates)
    /\ \A i, j \in DOMAIN l : l[i] = l[j] => i = j

-----------------------------------------------------------------------------
(* What itinerary_generation_activity may return, seen from the workflow:  *)
(* the picks shown in each section, and the sections whose lists it ranked *)
(* (their candidates carry a rank_arm).  A section with nothing            *)
(* pre-fetched is searched again inside the graph.  The primitive arm      *)
(* keeps a list's order, the bandit arm sorts by the user's weights.       *)

Picks == [Sections -> Candidates \cup {NoCandidate}]

Unpicked == [s \in Sections |-> NoCandidate]

Itineraries == [status : {"awaiting_confirmation", "needs_approval", "draft", "error"},
                picks : Picks, ranked : SUBSET Sections]

Hidden(s, c) == s = "attraction" /\ c.purpose = "business"

Shown(s, l, c) ==
    IF Hidden(s, c) THEN {NoCandidate}
    ELSE IF l = <<>> THEN Candidates \cup {NoCandidate}
    ELSE IF Bandit THEN Elements(l)
    ELSE {l[1]}

PlainPicks(r, c) == {p \in Picks : \A s \in Sections : p[s] \in Shown(s, r[s], c)}

\* The critic gets one section as far as its second candidate.
CriticPicks(r, c) ==
    {p \in Picks : \E t \in Sections :
        /\ ~Hidden(t, c) /\ Len(r[t]) > 1 /\ p[t] = r[t][2]
        /\ \A s \in Sections \ {t} : p[s] \in Shown(s, r[s], c)}

\* A breach leaves nothing compiled, unless the critic had already sent a
\* compiled draft back.
GenerateItinerary(r, c, skipReparse) ==
    LET ranked == {s \in Sections : r[s] # <<>>}
        plan(status, ps) == {[status |-> status, picks |-> p, ranked |-> ranked] : p \in ps}
        bare(status) == {[status |-> status, picks |-> Unpicked, ranked |-> {}]}
    IN  IF ~Usable(c) THEN bare("error")
        ELSE plan("awaiting_confirmation", PlainPicks(r, c))
             \cup (IF skipReparse THEN {}
                   ELSE plan("awaiting_confirmation", CriticPicks(r, c)))
             \cup (IF c.budget = NoBudget THEN {} ELSE bare("needs_approval"))
             \cup (IF c.budget = NoBudget \/ skipReparse THEN {}
                   ELSE plan("draft", PlainPicks(r, c)))
=============================================================================
