--------------------------- MODULE ItineraryGraph ---------------------------
(***************************************************************************)
(* The LangGraph planning graph that one run of the itinerary generation   *)
(* activity drives to its end (graph/itinerary_graph.py), started on the   *)
(* lists and constraints _generate_itinerary injects.  The graph's state   *)
(* changes only when a node returns, so one action is one node together    *)
(* with the routing function behind it.  What a goal is parsed into, what  *)
(* a search finds and what the critic objects to are arbitrary.            *)
(***************************************************************************)
EXTENDS TripPlans, FiniteSetsExt

CONSTANTS
    Listings,       \* Listings[s]: what a search for section s may find
    Intents,        \* the constraints a goal may be parsed into
    Price,          \* Price[s][c]: what candidate c adds to the cost, 0 if unknown
    MaxReflections, \* _MAX_REFLECTION_ATTEMPTS
    NoPlan

ASSUME GraphOK ==
    /\ \A s \in Sections : \A l \in Listings[s] : ListingOK(l)
    /\ Intents \subseteq Constraints
    /\ Price \in [Sections -> [Candidates -> Nat]]
    /\ MaxReflections \in Nat
    /\ Budgets \subseteq Int

VARIABLES
    node,          \* the node to run next, or "end"
    skipReparse,   \* this is the re-run of a traveler's edit
    given,         \* the lists of the activity's parameters
    constraints,   \* constraints, trip_type being its purpose
    replies,       \* the candidates of the four *_reply envelopes
    cost,          \* total_cost_gbp
    log,           \* decision_log: who was selected, is the plan held for approval
    policy,        \* policy_status
    alternatives,  \* budget_alternatives
    itinerary,     \* itinerary
    attempts,      \* reflection_attempts
    tried          \* tried_candidate_ids

inputVars   == <<skipReparse, given, constraints>>
mergeVars   == <<cost, log, policy, alternatives>>
reflectVars == <<attempts, tried>>
vars == <<node, inputVars, replies, mergeVars, itinerary, reflectVars>>

Nodes == {"parse_intent", "search_business_specialists", "search_leisure_specialists",
          "merge_results", "policy_check", "budget_agent", "compile_itinerary",
          "reflect_itinerary", "await_confirmation", "end"}
-----------------------------------------------------------------------------
(* Costs.                                                                  *)

SumOf(s, l) == SumFunction([i \in DOMAIN l |-> Price[s][l[i]]])

Top(l, n) == SubSeq(l, 1, IF Len(l) < n THEN Len(l) ELSE n)

\* How many candidates of a section the traveler is shown and pays for.
Shows == [flight |-> 1, hotel |-> 1, restaurant |-> 3, attraction |-> 3]

SectionCost(s, l) == SumOf(s, Top(l, Shows[s]))

TotalCost(r) == SumFunction([s \in Sections |-> SectionCost(s, r[s])])

Selected(r) == [s \in Sections |-> IF r[s] = <<>> THEN NoCandidate ELSE r[s][1]]

\* What the segments and the dining options of an itinerary show.
Pickable(r, c) == [s \in Sections |-> IF Hidden(s, c) THEN NoCandidate ELSE Selected(r)[s]]

WithinBudget(total, c) == c.budget = NoBudget \/ total <= c.budget
-----------------------------------------------------------------------------
(* providers/budget.py: cheaper combinations of what is already there.     *)

\* Mutant: the cheapest is taken to be the best ranked.
FirstListed(s, l) == Top(l, 1)

\* Does c come before d by price, an unknown price counting as infinite?
Cheaper(s, c, d) ==
    0 < Price[s][c] /\ (Price[s][d] = 0 \/ Price[s][c] < Price[s][d])

\* min(...): the first of the cheapest, as a list of at most one.
Cheapest(s, l) ==
    IF l = <<>> THEN <<>>
    ELSE <<l[CHOOSE i \in DOMAIN l :
                /\ \A j \in DOMAIN l : ~Cheaper(s, l[j], l[i])
                /\ \A j \in 1..(i - 1) : Cheaper(s, l[i], l[j])]>>

\* sorted(...)[:3]: the restaurants at most two others come before.
CheapestThree(l) ==
    LET before(i) == {j \in DOMAIN l :
                         \/ Cheaper("restaurant", l[j], l[i])
                         \/ j < i /\ ~Cheaper("restaurant", l[i], l[j])}
    IN  {i \in DOMAIN l : Cardinality(before(i)) < 3}

CheapestDining(l) == SumFunction([i \in CheapestThree(l) |-> Price["restaurant"][l[i]]])

\* _combo_cost, of a flight and a hotel if there are any, and two sums.
Combo(f, h, dining, sights) == SumOf("flight", f) + SumOf("hotel", h) + dining + sights

\* The totals offered; labels are left out, and totals already seen are dropped.
Alternatives(r, total, c) ==
    LET flight == Top(r["flight"], 1)  hotel == Top(r["hotel"], 1)
        dining == SectionCost("restaurant", r["restaurant"])
        sights == IF c.purpose = "leisure" THEN SectionCost("attraction", r["attraction"]) ELSE 0
        cheapFlight == Cheapest("flight", r["flight"])
        cheapHotel == Cheapest("hotel", r["hotel"])
        totals == {Combo(flight, x, dining, sights) : x \in {cheapHotel} \ {hotel}}
             \cup {Combo(x, hotel, dining, sights) : x \in {cheapFlight} \ {flight}}
             \cup {Combo(cheapFlight, cheapHotel,
                         CheapestDining(r["restaurant"]), 0)}
    IN  {[total |-> t, within |-> c.budget # NoBudget /\ t <= c.budget] :
            t \in {u \in totals : u < total}}
-----------------------------------------------------------------------------
(* Routing.                                                                *)

RouteAfterParse(c) ==
    IF ~Usable(c) THEN "end"
    ELSE IF c.purpose = "business" THEN "search_business_specialists"
    ELSE "search_leisure_specialists"

\* Mutant: a plan that was compiled once is not held any more.
RouteAfterFirstPolicy(status) ==
    IF status = "breach" /\ itinerary = NoPlan THEN "budget_agent" ELSE "compile_itinerary"

RouteAfterPolicy(status) ==
    IF status = "breach" THEN "budget_agent" ELSE "compile_itinerary"

\* Mutant: the loop skips the merge, which recomputes cost and log.
RouteAfterReflectToPolicy(regenerate) ==
    IF regenerate THEN "policy_check" ELSE "await_confirmation"

RouteAfterReflect(regenerate) ==
    IF regenerate THEN "merge_results" ELSE "await_confirmation"

-----------------------------------------------------------------------------
Bare == [selected |-> Unpicked, held |-> FALSE]

Reorderings(l) == {[i \in DOMAIN l |-> l[p[i]]] : p \in Surjection(DOMAIN l, DOMAIN l)}

\* _generate_itinerary ranks the lists it is given: the primitive arm keeps their
\* order, the bandit arm follows weights the model knows nothing about.
Ranked(r) ==
    IF Bandit THEN {q \in [Sections -> UNION {Reorderings(r[s]) : s \in Sections}] :
                      \A s \in Sections : q[s] \in Reorderings(r[s])}
    ELSE {r}

Init ==
    /\ node = "parse_intent"
    /\ skipReparse \in BOOLEAN
    /\ given \in {l \in [Sections -> UNION {Listings[s] : s \in Sections}] :
                    \A s \in Sections : l[s] \in Listings[s]}
    /\ constraints \in IF skipReparse THEN Intents ELSE {Unresolved}
    /\ replies \in Ranked(given)
    /\ cost = 0 /\ log = Bare /\ policy = "pending" /\ alternatives = {}
    /\ itinerary = NoPlan
    /\ attempts = 0 /\ tried = [s \in Sections |-> {}]

\* What the language model, or the patterns it falls back to, make of a goal.
Parsed == Intents

\* An edit's constraints are trusted, but checked like parsed ones.
ParseIntent ==
    /\ node = "parse_intent"
    /\ constraints' \in IF skipReparse THEN {constraints} ELSE Parsed
    /\ node' = RouteAfterParse(constraints')
    /\ UNCHANGED <<skipReparse, given, replies, mergeVars, itinerary, reflectVars>>

\* What a search returns, filtered for business travelers or not; one that fails
\* leaves a reply without candidates.
FoundIn(s) == Listings[s] \cup {<<>>}

\* What the searches of a path leave in state: a reply with candidates is reused.
SearchResults(names) ==
    LET outcomes(s) == IF s \in names /\ replies[s] = <<>>
                       THEN FoundIn(s) ELSE {replies[s]}
    IN  {r \in [Sections -> UNION {outcomes(s) : s \in Sections}] :
            \A s \in Sections : r[s] \in outcomes(s)}

SearchBusinessSpecialists ==
    /\ node = "search_business_specialists"
    /\ replies' \in SearchResults({"flight", "hotel", "restaurant"})
    /\ node' = "merge_results"
    /\ UNCHANGED <<inputVars, mergeVars, itinerary, reflectVars>>

SearchLeisureSpecialists ==
    /\ node = "search_leisure_specialists"
    /\ replies' \in SearchResults(Sections)
    /\ node' = "merge_results"
    /\ UNCHANGED <<inputVars, mergeVars, itinerary, reflectVars>>

MergeResults ==
    /\ node = "merge_results"
    /\ cost' = TotalCost(replies)
    /\ log' = [selected |-> Selected(replies), held |-> FALSE]
    /\ node' = "policy_check"
    /\ UNCHANGED <<inputVars, replies, policy, alternatives, itinerary, reflectVars>>

PolicyCheck ==
    /\ node = "policy_check"
    /\ policy' = IF WithinBudget(cost, constraints) THEN "compliant" ELSE "breach"
    /\ node' = RouteAfterPolicy(policy')
    /\ UNCHANGED <<inputVars, replies, cost, log, alternatives, itinerary, reflectVars>>

BudgetAgent ==
    /\ node = "budget_agent"
    /\ alternatives' = Alternatives(replies, cost, constraints)
    /\ log' = [log EXCEPT !.held = TRUE]
    /\ node' = "end"
    /\ UNCHANGED <<inputVars, replies, cost, policy, itinerary, reflectVars>>

CompileItinerary ==
    /\ node = "compile_itinerary"
    /\ itinerary' = [status |-> "draft", picks |-> Pickable(replies, constraints),
                     total |-> cost, log |-> log]
    /\ node' = "reflect_itinerary"
    /\ UNCHANGED <<inputVars, replies, mergeVars, reflectVars>>

-----------------------------------------------------------------------------
(* The critic.  The first objection that has an untried candidate decides, *)
(* in the order of the sections or of the language model.                  *)

\* Sections of the plan that show nothing.
Incomplete == {s \in Sections : itinerary.picks[s] = NoCandidate /\ ~Hidden(s, constraints)}

\* The critic objects to those, and to whatever the language model objects to; a
\* review that fails names no section.
Objections == {Incomplete \cup named : named \in SUBSET Sections}

Untried(s) == {i \in DOMAIN replies[s] : replies[s][i] \notin tried[s]}

\* Mutants: edits are swapped away too; one attempt too many.
CanRetryEdits == attempts < MaxReflections

CanRetryOnceMore == ~skipReparse /\ attempts <= MaxReflections

CanRetry == ~skipReparse /\ attempts < MaxReflections

\* _promote_next_untried; the candidate the traveler would see counts as untried.
Swap(s) ==
    LET next == replies[s][Min(Untried(s))]
    IN  /\ replies' = [replies EXCEPT ![s] = ReorderToFront(@, next)]
        /\ tried' = [tried EXCEPT ![s] = @ \cup {next}]
        /\ attempts' = attempts + 1

\* Mutant: the state schema lacks the critic's two fields, so they are dropped.
ReflectItineraryForgetting ==
    /\ node = "reflect_itinerary"
    /\ \E s \in Sections :
          /\ CanRetry /\ Untried(s) # {}
          /\ replies' = [replies EXCEPT ![s] = ReorderToFront(@, replies[s][Min(Untried(s))])]
    /\ node' = RouteAfterReflect(TRUE)
    /\ UNCHANGED <<inputVars, mergeVars, itinerary, reflectVars>>

ReflectItinerary ==
    /\ node = "reflect_itinerary"
    /\ \E objections \in Objections :
          LET fixable == {s \in objections : CanRetry /\ Untried(s) # {}}
          IN  IF fixable = {}
              THEN /\ node' = RouteAfterReflect(FALSE)
                   /\ UNCHANGED <<replies, reflectVars>>
              ELSE /\ \E s \in fixable : Swap(s)
                   /\ node' = RouteAfterReflect(TRUE)
    /\ UNCHANGED <<inputVars, mergeVars, itinerary>>

AwaitConfirmation ==
    /\ node = "await_confirmation"
    /\ itinerary' = [itinerary EXCEPT !.status = "awaiting_confirmation"]
    /\ node' = "end"
    /\ UNCHANGED <<inputVars, replies, mergeVars, reflectVars>>

Next ==
    \/ ParseIntent \/ SearchBusinessSpecialists \/ SearchLeisureSpecialists
    \/ MergeResults \/ PolicyCheck \/ BudgetAgent \/ CompileItinerary
    \/ ReflectItinerary \/ AwaitConfirmation

Spec == Init /\ [][Next]_vars

\* ainvoke drives the graph node after node until it ends.
FairSpec == Spec /\ WF_vars(Next)
-----------------------------------------------------------------------------
Drafts == [status : {"draft", "awaiting_confirmation"}, picks : Picks, total : Nat,
           log : [selected : Picks, held : BOOLEAN]]

ASSUME NoPlanOK == NoPlan \notin Drafts

\* The type of every variable; the critic swaps at most MaxReflections times.
TypeOK ==
    /\ node \in Nodes
    /\ skipReparse \in BOOLEAN
    /\ given \in [Sections -> Seq(Candidates)]
    /\ constraints \in Constraints
    /\ replies \in [Sections -> Seq(Candidates)]
    /\ cost \in Nat
    /\ log \in [selected : Picks, held : BOOLEAN]
    /\ policy \in {"pending", "compliant", "breach"}
    /\ alternatives \in SUBSET [total : Nat, within : BOOLEAN]
    /\ itinerary \in Drafts \cup {NoPlan}
    /\ attempts \in 0..MaxReflections
    /\ tried \in [Sections -> SUBSET Candidates]

Presented == itinerary # NoPlan /\ itinerary.status = "awaiting_confirmation"

\* "So this can never find a breach": whatever the critic swaps, the plan it reviews
\* and the plan the traveler is asked to confirm are within the budget.
ReviewedWithinBudget ==
    node \in {"reflect_itinerary", "await_confirmation"} \/ Presented
        => WithinBudget(itinerary.total, constraints)

\* The plan presented is one plan: its picks, its total and its decision log are those
\* of the lists as the critic left them.
PresentedAgrees ==
    Presented => /\ itinerary.picks = Pickable(replies, constraints)
                 /\ itinerary.total = TotalCost(replies)
                 /\ itinerary.log = [selected |-> Selected(replies), held |-> FALSE]
                 /\ itinerary.log = log

\* "An edit is the traveler's deliberate choice": no re-run reorders a list, and no
\* run loses or replaces a candidate that was found before.
TravelerOrderKept ==
    \A s \in Sections :
        given[s] # <<>> =>
            /\ Elements(replies[s]) = Elements(given[s])
            /\ skipReparse /\ ~Bandit => replies[s] = given[s]

\* A plan held for its price comes with a way out whenever the flights and hotels in
\* hand, with the cheapest dining and no sightseeing, allow one.
FittingPlanOffered ==
    LET choices(s) == {<<c>> : c \in {d \in Elements(replies[s]) : Price[s][d] > 0}}
        dining == CheapestDining(replies["restaurant"])
    IN  (node = "end" /\ policy = "breach"
            /\ \E f \in choices("flight"), h \in choices("hotel") :
                  WithinBudget(Combo(f, h, dining, 0), constraints))
        => \E a \in alternatives : a.within /\ a.total < cost

\* What _generate_itinerary makes of the final state.
Result ==
    LET ranked == {s \in Sections : given[s] # <<>>}
    IN  IF itinerary # NoPlan
        THEN [status |-> itinerary.status, picks |-> itinerary.picks, ranked |-> ranked]
        ELSE [status |-> IF policy = "breach" THEN "needs_approval" ELSE "error",
              picks |-> Unpicked, ranked |-> {}]

\* What the workflow is told of the graph is all the graph can return: the abstraction
\* ItineraryWorkflow generates its itineraries from is sound.
DeliversPlan ==
    node = "end" => Result \in GenerateItinerary(given, constraints, skipReparse)

\* The critic's loop ends, whatever it objects to.
Terminates == <>(node = "end")
=============================================================================
