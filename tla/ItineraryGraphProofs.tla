------------------------- MODULE ItineraryGraphProofs -------------------------
(***************************************************************************)
(* What holds of the planning graph for every listing, price, budget and   *)
(* number of reflections: the plan presented is within the budget and in   *)
(* agreement with the lists, and a traveler's order survives a re-run.     *)
(* A plan over the budget comes with a way out, and what the workflow is   *)
(* told is what it may be told.                                            *)
(***************************************************************************)
EXTENDS ItineraryGraph, CommonProofs

MergedLog == [selected |-> Selected(replies), held |-> FALSE]

Compiled(status) == [status |-> status, picks |-> Pickable(replies, constraints),
                     total |-> TotalCost(replies), log |-> MergedLog]

\* What the next node may rely on.  Between a swap and the merge that follows it the
\* draft, the cost and the log are those of the lists before the swap.
NodeInv ==
    /\ node \in {"policy_check", "compile_itinerary", "reflect_itinerary", "await_confirmation"}
         => cost = TotalCost(replies) /\ log = MergedLog
    /\ node \in {"compile_itinerary", "reflect_itinerary", "await_confirmation"}
         => WithinBudget(cost, constraints)
    /\ node \in {"reflect_itinerary", "await_confirmation"} => itinerary = Compiled("draft")

\* A draft is presented by the last node only.
PresentedInv ==
    Presented => /\ node = "end" /\ itinerary = Compiled("awaiting_confirmation")
                 /\ log = MergedLog /\ WithinBudget(itinerary.total, constraints)

GraphInv == NodeInv /\ PresentedInv

LEMMA InitGraphInv == Init => GraphInv
BY DEF Init, GraphInv, NodeInv, PresentedInv, Presented

LEMMA NextGraphInv == GraphInv /\ [Next]_vars => GraphInv'
<1> SUFFICES ASSUME GraphInv, [Next]_vars PROVE GraphInv'
  OBVIOUS
<1> USE DEF GraphInv, NodeInv, PresentedInv, inputVars, mergeVars, reflectVars
<1>1. CASE ParseIntent
  BY <1>1 DEF ParseIntent, RouteAfterParse, Presented
<1>2. CASE SearchBusinessSpecialists \/ SearchLeisureSpecialists
  BY <1>2 DEF SearchBusinessSpecialists, SearchLeisureSpecialists, Presented
<1>3. CASE MergeResults
  BY <1>3 DEF MergeResults, MergedLog, Presented
<1>4. CASE PolicyCheck
  <2>1. UNCHANGED <<Presented, MergedLog, Compiled("draft")>>
    BY <1>4 DEF PolicyCheck, Presented, MergedLog, Compiled
  <2>2. /\ cost' = TotalCost(replies) /\ log' = MergedLog
        /\ node' \in {"budget_agent", "compile_itinerary"}
        /\ node' = "compile_itinerary" => WithinBudget(cost, constraints)
    BY <1>4 DEF PolicyCheck, RouteAfterPolicy
  <2> QED BY <1>4, <2>1, <2>2 DEF PolicyCheck
<1>5. CASE BudgetAgent
  BY <1>5 DEF BudgetAgent, Presented
<1>6. CASE CompileItinerary
  <2>1. itinerary' = Compiled("draft") /\ ~Presented'
    BY <1>6 DEF CompileItinerary, Compiled, Presented
  <2>2. UNCHANGED <<MergedLog, Compiled("draft"), TotalCost(replies)>>
    BY <1>6 DEF CompileItinerary, Compiled, MergedLog
  <2> QED BY <1>6, <2>1, <2>2 DEF CompileItinerary
<1>7. CASE ReflectItinerary
  <2>1. node = "reflect_itinerary" /\ ~Presented /\ ~Presented'
    BY <1>7 DEF ReflectItinerary, Presented
  <2>2. \/ node' = "merge_results"
        \/ node' = "await_confirmation" /\ UNCHANGED <<inputVars, mergeVars, itinerary, replies>>
    BY <1>7 DEF ReflectItinerary, RouteAfterReflect
  <2> QED BY <2>1, <2>2 DEF MergedLog, Compiled
<1>8. CASE AwaitConfirmation
  <2>1. itinerary' = Compiled("awaiting_confirmation")
    BY <1>8 DEF AwaitConfirmation, Compiled
  <2>2. UNCHANGED <<MergedLog, Compiled("awaiting_confirmation"), constraints, cost, log>>
    BY <1>8 DEF AwaitConfirmation, MergedLog, Compiled
  <2>3. itinerary'.total = cost
    BY <1>8, <2>1 DEF AwaitConfirmation, Compiled
  <2> QED BY <1>8, <2>1, <2>2, <2>3 DEF AwaitConfirmation
<1>9. CASE UNCHANGED vars
  BY <1>9 DEF vars, Presented, MergedLog, Compiled
<1> QED BY <1>1, <1>2, <1>3, <1>4, <1>5, <1>6, <1>7, <1>8, <1>9 DEF Next

LEMMA GraphInvariance == Spec => []GraphInv
BY InitGraphInv, NextGraphInv, PTL DEF Spec

\* The claim of _budget_status, for any number of swaps: no plan that is reviewed or
\* presented breaches the budget.
THEOREM ReviewIsWithinBudget == Spec => []ReviewedWithinBudget
<1>1. GraphInv => ReviewedWithinBudget
  BY DEF GraphInv, NodeInv, PresentedInv, ReviewedWithinBudget, Compiled
<1> QED BY <1>1, GraphInvariance, PTL

\* What is presented is priced, explained and picked from the same lists.
THEOREM PresentedIsConsistent == Spec => []PresentedAgrees
<1>1. GraphInv => PresentedAgrees
  <2> SUFFICES ASSUME PresentedInv, Presented PROVE PresentedAgrees
    BY DEF GraphInv, PresentedAgrees
  <2>1. itinerary = Compiled("awaiting_confirmation") /\ log = MergedLog
    BY DEF PresentedInv
  <2>2. /\ itinerary.picks = Pickable(replies, constraints)
        /\ itinerary.total = TotalCost(replies)
        /\ itinerary.log = MergedLog
    BY <2>1 DEF Compiled
  <2> QED BY <2>1, <2>2 DEF PresentedAgrees, MergedLog
<1> QED BY <1>1, GraphInvariance, PTL

-----------------------------------------------------------------------------
(* Candidates found before the run are neither lost nor, on a re-run,      *)
(* reordered.                                                              *)

ListTypes ==
    /\ given \in [Sections -> Seq(Candidates)]
    /\ replies \in [Sections -> Seq(Candidates)]

LEMMA SeqIsEmptyIffNoElements ==
    ASSUME NEW S, NEW l \in Seq(S) PROVE l = <<>> <=> Elements(l) = {}
<1>1. l # <<>> => 1 \in DOMAIN l
  BY LenProperties, EmptySeq
<1>2. l = <<>> => DOMAIN l = {}
  OBVIOUS
<1> QED BY <1>1, <1>2 DEF Elements

LEMMA SearchFillsEmpties ==
    ASSUME ListTypes, SearchBusinessSpecialists \/ SearchLeisureSpecialists,
           NEW s \in Sections
    PROVE  /\ replies'[s] \in Seq(Candidates)
           /\ replies[s] # <<>> => replies'[s] = replies[s]
<1>1. PICK names \in SUBSET Sections : replies' \in SearchResults(names)
  BY DEF SearchBusinessSpecialists, SearchLeisureSpecialists, Sections
<1>2. replies'[s] \in IF s \in names /\ replies[s] = <<>>
                      THEN FoundIn(s) ELSE {replies[s]}
  BY <1>1 DEF SearchResults
<1> QED BY <1>2, GraphOK DEF FoundIn, ListingOK, ListTypes

LEMMA SearchKeepsLists ==
    ASSUME ListTypes, TravelerOrderKept,
           SearchBusinessSpecialists \/ SearchLeisureSpecialists
    PROVE  ListTypes' /\ TravelerOrderKept'
<1>1. PICK names \in SUBSET Sections : replies' \in SearchResults(names)
  BY DEF SearchBusinessSpecialists, SearchLeisureSpecialists, Sections
<1>2. UNCHANGED <<given, skipReparse>>
  BY DEF SearchBusinessSpecialists, SearchLeisureSpecialists, inputVars
<1>3. ASSUME NEW s \in Sections
      PROVE  /\ replies'[s] \in Seq(Candidates)
             /\ replies[s] # <<>> => replies'[s] = replies[s]
  BY SearchFillsEmpties
<1>4. replies' \in [Sections -> Seq(Candidates)]
  <2>1. DOMAIN replies' = Sections /\ replies' = [s \in Sections |-> replies'[s]]
    BY <1>1 DEF SearchResults
  <2> QED BY <1>3, <2>1
<1>5. ASSUME NEW s \in Sections, given[s] # <<>> PROVE replies[s] # <<>>
  BY <1>5, SeqIsEmptyIffNoElements DEF ListTypes, TravelerOrderKept
<1> QED BY <1>2, <1>3, <1>4, <1>5 DEF ListTypes, TravelerOrderKept

LEMMA ReflectKeepsLists ==
    ASSUME ListTypes, TravelerOrderKept, ReflectItinerary
    PROVE  ListTypes' /\ TravelerOrderKept'
<1>1. UNCHANGED <<given, skipReparse>>
  BY DEF ReflectItinerary, inputVars
<1>2. CASE UNCHANGED replies
  BY <1>1, <1>2 DEF ListTypes, TravelerOrderKept
<1>3. CASE ~skipReparse /\ \E s \in Sections : Swap(s)
  <2>1. PICK s \in Sections, c \in {replies[t][Min(Untried(t))] : t \in Sections} :
          replies' = [replies EXCEPT ![s] = ReorderToFront(@, c)]
    BY <1>3 DEF Swap
  <2>2. /\ ReorderToFront(replies[s], c) \in Seq(Candidates)
        /\ Elements(ReorderToFront(replies[s], c)) = Elements(replies[s])
    BY ReorderPermutes DEF ListTypes
  <2>3. replies' \in [Sections -> Seq(Candidates)]
        /\ \A t \in Sections : Elements(replies'[t]) = Elements(replies[t])
    BY <2>1, <2>2 DEF ListTypes
  <2> QED BY <1>1, <1>3, <2>3 DEF ListTypes, TravelerOrderKept
<1>4. UNCHANGED replies \/ (~skipReparse /\ \E s \in Sections : Swap(s))
  BY DEF ReflectItinerary, CanRetry, Objections, Incomplete
<1> QED BY <1>2, <1>3, <1>4

LEMMA InitLists == Init => ListTypes /\ TravelerOrderKept
<1> SUFFICES ASSUME Init PROVE ListTypes /\ TravelerOrderKept
  OBVIOUS
<1>1. given \in [Sections -> Seq(Candidates)]
  BY GraphOK DEF Init, ListingOK
<1>2. CASE ~Bandit
  BY <1>1, <1>2 DEF Init, Ranked, ListTypes, TravelerOrderKept
<1>3. ASSUME NEW l \in Seq(Candidates), NEW m \in Reorderings(l)
      PROVE  m \in Seq(Candidates) /\ Elements(m) = Elements(l)
  <2>1. PICK p \in Surjection(DOMAIN l, DOMAIN l) : m = [i \in DOMAIN l |-> l[p[i]]]
    BY DEF Reorderings
  <2>2. /\ p \in [DOMAIN l -> DOMAIN l]
        /\ \A j \in DOMAIN l : \E i \in DOMAIN l : p[i] = j
    BY DEF Surjection
  <2>3. Len(l) \in Nat /\ DOMAIN l = 1..Len(l) /\ \A i \in DOMAIN l : l[i] \in Candidates
    BY LenProperties, ElementOfSeq
  <2>4. m \in [1..Len(l) -> Candidates] /\ DOMAIN m = DOMAIN l
    BY <2>1, <2>2, <2>3
  <2>5. Elements(m) = Elements(l)
    BY <2>1, <2>2, <2>4 DEF Elements
  <2> QED BY <2>3, <2>4, <2>5, IsASeq
<1>4. CASE Bandit
  <2>1. replies \in [Sections -> UNION {Reorderings(given[s]) : s \in Sections}]
        /\ \A s \in Sections : replies[s] \in Reorderings(given[s])
    BY <1>4 DEF Init, Ranked
  <2>2. \A s \in Sections : /\ replies[s] \in Seq(Candidates)
                            /\ Elements(replies[s]) = Elements(given[s])
    BY <1>1, <1>3, <2>1
  <2>3. replies \in [Sections -> Seq(Candidates)]
    BY <2>1, <2>2
  <2> QED BY <1>1, <1>4, <2>2, <2>3 DEF ListTypes, TravelerOrderKept
<1> QED BY <1>2, <1>4

\* Reflection may reorder a list on the first generation only, a search may fill an
\* empty one only; so a re-run shows the traveler's own order.
THEOREM OrderIsKept == Spec => []TravelerOrderKept
<1>1. ListTypes /\ TravelerOrderKept /\ [Next]_vars => ListTypes' /\ TravelerOrderKept'
  <2> SUFFICES ASSUME ListTypes, TravelerOrderKept, [Next]_vars
               PROVE  ListTypes' /\ TravelerOrderKept'
    OBVIOUS
  <2>1. CASE SearchBusinessSpecialists \/ SearchLeisureSpecialists
    BY <2>1, SearchKeepsLists
  <2>2. CASE ReflectItinerary
    BY <2>2, ReflectKeepsLists
  <2>3. CASE \/ ParseIntent \/ MergeResults \/ PolicyCheck \/ BudgetAgent
             \/ CompileItinerary \/ AwaitConfirmation \/ UNCHANGED vars
    <3>1. UNCHANGED <<given, skipReparse, replies>>
      BY <2>3 DEF ParseIntent, MergeResults, PolicyCheck, BudgetAgent, CompileItinerary,
                  AwaitConfirmation, vars, inputVars
    <3> QED BY <3>1 DEF ListTypes, TravelerOrderKept
  <2> QED BY <2>1, <2>2, <2>3 DEF Next
<1> QED BY <1>1, InitLists, PTL DEF Spec

-----------------------------------------------------------------------------
(* Costs are naturals.                                                     *)

LEMMA SectionsFinite == IsFiniteSet(Sections)
<1>1. IsFiniteSet({"flight"}) /\ IsFiniteSet({"hotel"})
      /\ IsFiniteSet({"restaurant"}) /\ IsFiniteSet({"attraction"})
  BY FS_Singleton
<1>2. IsFiniteSet({"flight"} \cup {"hotel"}) /\ IsFiniteSet({"restaurant"} \cup {"attraction"})
  BY <1>1, FS_Union
<1>3. IsFiniteSet(({"flight"} \cup {"hotel"}) \cup ({"restaurant"} \cup {"attraction"}))
  BY <1>2, FS_Union
<1>4. Sections = ({"flight"} \cup {"hotel"}) \cup ({"restaurant"} \cup {"attraction"})
  BY DEF Sections
<1> QED BY <1>3, <1>4

\* What some of a list's candidates cost.
LEMMA CostType ==
    ASSUME NEW s \in Sections, NEW l \in Seq(Candidates), NEW shown \in SUBSET DOMAIN l
    PROVE  SumFunction([i \in shown |-> Price[s][l[i]]]) \in Nat
<1> DEFINE f == [i \in shown |-> Price[s][l[i]]]
<1>1. DOMAIN l = 1 .. Len(l) /\ Len(l) \in Nat
  BY LenProperties
<1>2. IsFiniteSet(shown)
  <2>1. IsFiniteSet(1 .. Len(l))
    BY <1>1, FS_Interval
  <2> QED BY <1>1, <2>1, FS_Subset
<1>3. \A i \in shown : Price[s][l[i]] \in Nat
  BY <1>1, ElementOfSeq, GraphOK
<1>4. f \in [shown -> Nat]
  BY <1>3
<1> HIDE DEF f
<1>5. SumFunction(f) \in Nat
  BY <1>2, <1>4, SumType, Zenon
<1> QED BY <1>5 DEF f

LEMMA TopType ==
    ASSUME NEW l \in Seq(Candidates), NEW n \in Nat
    PROVE  Top(l, n) \in Seq(Candidates)
<1> DEFINE m == IF Len(l) < n THEN Len(l) ELSE n
<1>1. Len(l) \in Nat /\ m \in Nat /\ m <= Len(l)
  BY LenProperties
<1>2. \A i \in 1 .. m : l[i] \in Candidates
  BY <1>1, ElementOfSeq
<1> HIDE DEF m
<1>3. SubSeq(l, 1, m) \in Seq(Candidates)
  BY <1>1, <1>2, SubSeqProperties
<1> QED BY <1>3 DEF Top, m

LEMMA SumOfType ==
    ASSUME NEW s \in Sections, NEW l \in Seq(Candidates)
    PROVE  SumOf(s, l) \in Nat
BY CostType DEF SumOf

LEMMA TotalType ==
    ASSUME NEW r \in [Sections -> Seq(Candidates)]
    PROVE  /\ \A s \in Sections : SectionCost(s, r[s]) \in Nat
           /\ TotalCost(r) \in Nat
<1> DEFINE f == [s \in Sections |-> SectionCost(s, r[s])]
<1>1. ASSUME NEW s \in Sections PROVE SectionCost(s, r[s]) \in Nat
  <2>1. Shows[s] \in Nat
    BY DEF Shows, Sections
  <2> QED BY <2>1, TopType, SumOfType DEF SectionCost
<1>2. f \in [Sections -> Nat]
  BY <1>1
<1> HIDE DEF f
<1>3. SumFunction(f) \in Nat
  BY <1>2, SectionsFinite, SumType, Zenon
<1> QED BY <1>1, <1>3 DEF TotalCost, f

LEMMA SumOfOneCandidate ==
    ASSUME NEW s \in Sections, NEW c \in Candidates
    PROVE  SumOf(s, <<c>>) = Price[s][c]
<1> DEFINE f == [i \in {1} |-> Price[s][<<c>>[i]]]
<1>1. DOMAIN <<c>> = {1} /\ <<c>>[1] = c
  OBVIOUS
<1>2. Price[s][c] \in Nat
  BY GraphOK
<1>3. f \in [{1} -> Nat] /\ f[1] = Price[s][c]
  BY <1>1, <1>2
<1> HIDE DEF f
<1>4. SumFunction(f) = f[1]
  BY <1>3, SumOfOne, Zenon
<1>5. SumOf(s, <<c>>) = SumFunction(f)
  BY <1>1 DEF SumOf, f
<1> QED BY <1>3, <1>4, <1>5

\* min(...) with a price that is unknown taken for infinite: it returns a candidate,
\* none is cheaper, and it has a price if any has.
LEMMA CheapestFound ==
    ASSUME NEW s \in Sections, NEW l \in Seq(Candidates)
    PROVE  /\ Cheapest(s, l) \in Seq(Candidates)
           /\ \A c \in Elements(l) : Price[s][c] > 0 => SumOf(s, Cheapest(s, l)) <= Price[s][c]
<1>1. DOMAIN l = 1 .. Len(l) /\ Len(l) \in Nat
  BY LenProperties
<1>2. CASE l = <<>>
  <2>1. Cheapest(s, l) = <<>> /\ Elements(l) = {}
    BY <1>2 DEF Cheapest, Elements
  <2> QED BY <2>1
<1>3. CASE l # <<>>
  <2> DEFINE price(i) == Price[s][l[i]]
             least(i) == /\ \A j \in DOMAIN l : ~Cheaper(s, l[j], l[i])
                         /\ \A j \in 1..(i - 1) : Cheaper(s, l[i], l[j])
             at == CHOOSE i \in DOMAIN l : least(i)
             known == {i \in DOMAIN l : price(i) > 0}
  <2>1. \A i \in DOMAIN l : l[i] \in Candidates /\ price(i) \in Nat
    BY <1>1, ElementOfSeq, GraphOK
  <2>2. \E i \in DOMAIN l : least(i)
    <3>1. CASE known = {}
      <4>1. 1 \in DOMAIN l
        BY <1>1, <1>3, EmptySeq
      <4>2. \A j \in DOMAIN l : price(j) = 0
        BY <2>1, <3>1
      <4>3. least(1)
        BY <4>2 DEF Cheaper
      <4> QED BY <4>1, <4>3
    <3>2. CASE known # {}
      <4>1. PICK p \in {price(i) : i \in known} : \A q \in {price(i) : i \in known} : p <= q
        <5>1. {price(i) : i \in known} \in SUBSET Nat /\ {price(i) : i \in known} # {}
          BY <2>1, <3>2
        <5> QED BY <5>1, LeastNat
      <4> DEFINE best == {i \in known : price(i) = p}
      <4>2. best \in SUBSET Nat /\ best # {}
        BY <1>1, <4>1
      <4>3. PICK i \in best : \A j \in best : i <= j
        <5> HIDE DEF best
        <5> QED BY <4>2, LeastNat
      <4>4. i \in DOMAIN l /\ price(i) = p /\ p > 0 /\ p \in Nat
        BY <2>1, <4>3
      <4>5. ASSUME NEW j \in DOMAIN l PROVE ~Cheaper(s, l[j], l[i])
        <5>1. price(j) > 0 => p <= price(j)
          BY <4>1, <4>5
        <5> QED BY <2>1, <4>4, <5>1 DEF Cheaper
      <4>6. ASSUME NEW j \in 1..(i - 1) PROVE Cheaper(s, l[i], l[j])
        <5>1. j \in DOMAIN l /\ ~ (i <= j)
          BY <1>1, <4>4
        <5>2. price(j) > 0 => p <= price(j) /\ price(j) # p
          BY <4>1, <4>3, <5>1
        <5> QED BY <2>1, <4>4, <5>1, <5>2 DEF Cheaper
      <4> QED BY <4>4, <4>5, <4>6
    <3> QED BY <3>1, <3>2
  <2>3. at \in DOMAIN l /\ least(at)
    <3> HIDE DEF least
    <3> QED BY <2>2
  <2>4. Cheapest(s, l) = <<l[at]>>
    BY <1>3 DEF Cheapest
  <2> HIDE DEF at
  <2>5. l[at] \in Candidates /\ price(at) \in Nat
    BY <2>1, <2>3
  <2>6. SumOf(s, <<l[at]>>) = price(at)
    BY <2>5, SumOfOneCandidate
  <2>7. ASSUME NEW c \in Elements(l), Price[s][c] > 0 PROVE price(at) <= Price[s][c]
    <3>1. PICK j \in DOMAIN l : l[j] = c
      BY DEF Elements
    <3>2. ~Cheaper(s, l[j], l[at])
      BY <2>3
    <3> QED BY <2>1, <2>5, <2>7, <3>1, <3>2 DEF Cheaper
  <2>8. <<l[at]>> \in Seq(Candidates)
    BY <2>5
  <2> QED BY <2>4, <2>6, <2>7, <2>8
<1> QED BY <1>2, <1>3

LEMMA AlternativesType ==
    ASSUME NEW r \in [Sections -> Seq(Candidates)], NEW total, NEW c \in Constraints
    PROVE  Alternatives(r, total, c) \in SUBSET [total : Nat, within : BOOLEAN]
<1>1. /\ "flight" \in Sections /\ "hotel" \in Sections
      /\ "restaurant" \in Sections /\ "attraction" \in Sections
  BY DEF Sections
<1>2. ASSUME NEW s \in Sections
      PROVE  /\ SumOf(s, Top(r[s], 1)) \in Nat
             /\ SumOf(s, Cheapest(s, r[s])) \in Nat
             /\ SectionCost(s, r[s]) \in Nat
  <2>1. Top(r[s], 1) \in Seq(Candidates) /\ Cheapest(s, r[s]) \in Seq(Candidates)
    BY TopType, CheapestFound
  <2> QED BY <2>1, SumOfType, TotalType
<1>3. CheapestDining(r["restaurant"]) \in Nat
  <2>1. CheapestThree(r["restaurant"]) \in SUBSET DOMAIN r["restaurant"]
    BY DEF CheapestThree
  <2> QED BY <1>1, <2>1, CostType DEF CheapestDining
<1> DEFINE flight == Top(r["flight"], 1)
           hotel == Top(r["hotel"], 1)
           dining == SectionCost("restaurant", r["restaurant"])
           sights == IF c.purpose = "leisure" THEN SectionCost("attraction", r["attraction"]) ELSE 0
           cheapFlight == Cheapest("flight", r["flight"])
           cheapHotel == Cheapest("hotel", r["hotel"])
           totals == {Combo(flight, x, dining, sights) : x \in {cheapHotel} \ {hotel}}
                \cup {Combo(x, hotel, dining, sights) : x \in {cheapFlight} \ {flight}}
                \cup {Combo(cheapFlight, cheapHotel, CheapestDining(r["restaurant"]), 0)}
<1>4. totals \in SUBSET Nat
  <2>1. dining \in Nat /\ sights \in Nat
    BY <1>1, <1>2
  <2>5. /\ SumOf("flight", flight) \in Nat /\ SumOf("flight", cheapFlight) \in Nat
        /\ SumOf("hotel", hotel) \in Nat /\ SumOf("hotel", cheapHotel) \in Nat
    BY <1>1, <1>2
  <2> HIDE DEF dining, sights, flight, hotel, cheapFlight, cheapHotel
  <2>2. Combo(flight, cheapHotel, dining, sights) \in Nat
    BY <2>1, <2>5 DEF Combo
  <2>3. Combo(cheapFlight, hotel, dining, sights) \in Nat
    BY <2>1, <2>5 DEF Combo
  <2>4. Combo(cheapFlight, cheapHotel, CheapestDining(r["restaurant"]), 0) \in Nat
    BY <1>3, <2>5 DEF Combo
  <2> QED BY <2>2, <2>3, <2>4
<1>5. Alternatives(r, total, c) =
        {[total |-> t, within |-> c.budget # NoBudget /\ t <= c.budget] :
            t \in {u \in totals : u < total}}
  BY DEF Alternatives
<1> HIDE DEF totals
<1>6. ASSUME NEW t \in totals
      PROVE  [total |-> t, within |-> c.budget # NoBudget /\ t <= c.budget]
                \in [total : Nat, within : BOOLEAN]
  BY <1>4
<1> QED BY <1>5, <1>6

\* The candidate the critic promotes is the first untried one.
LEMMA NextUntried ==
    ASSUME replies \in [Sections -> Seq(Candidates)], NEW s \in Sections, Untried(s) # {}
    PROVE  /\ Min(Untried(s)) \in Untried(s)
           /\ \A i \in Untried(s) : Min(Untried(s)) <= i
           /\ replies[s][Min(Untried(s))] \in Candidates
<1>1. DOMAIN replies[s] = 1 .. Len(replies[s]) /\ Len(replies[s]) \in Nat
  BY LenProperties
<1>2. Untried(s) \in SUBSET Nat /\ Untried(s) \subseteq DOMAIN replies[s]
  BY <1>1 DEF Untried
<1>3. \E n \in Untried(s) : \A m \in Untried(s) : n <= m
  BY <1>2, LeastNat
<1>4. /\ Min(Untried(s)) \in Untried(s)
      /\ \A i \in Untried(s) : Min(Untried(s)) <= i
  <2> DEFINE U == Untried(s)
  <2> HIDE DEF U
  <2>1. (\E n \in U : \A m \in U : n <= m) => Min(U) \in U /\ \A i \in U : Min(U) <= i
    BY DEF Min
  <2> QED BY <1>3, <2>1 DEF U
<1> QED BY <1>1, <1>2, <1>4, ElementOfSeq

LEMMA PicksTypes ==
    ASSUME NEW r \in [Sections -> Seq(Candidates)], NEW c
    PROVE  Selected(r) \in Picks /\ Pickable(r, c) \in Picks
<1>1. ASSUME NEW s \in Sections PROVE r[s] # <<>> => r[s][1] \in Candidates
  BY EmptySeq, LenProperties, ElementOfSeq
<1> QED BY <1>1 DEF Selected, Pickable, Picks

LEMMA InitType == Init => TypeOK
<1> SUFFICES ASSUME Init PROVE TypeOK
  OBVIOUS
<1>1. ListTypes
  BY InitLists
<1>2. constraints \in Constraints
  <2>1. constraints \in IF skipReparse THEN Intents ELSE {Unresolved}
    BY Zenon DEF Init
  <2>2. Unresolved \in Constraints
    BY DEF Unresolved, Constraints
  <2> QED BY <2>1, <2>2, GraphOK
<1>0. log = Bare /\ tried = [s \in Sections |-> {}] /\ attempts = 0
  BY Zenon DEF Init
<1>3. log \in [selected : Picks, held : BOOLEAN]
  <2>1. Unpicked \in Picks
    BY DEF Unpicked, Picks
  <2> QED BY <1>0, <2>1 DEF Bare
<1>4. tried \in [Sections -> SUBSET Candidates]
  BY <1>0
<1>5. attempts \in 0 .. MaxReflections
  BY <1>0, GraphOK
<1> QED BY <1>1, <1>2, <1>3, <1>4, <1>5 DEF Init, TypeOK, ListTypes, Nodes

LEMMA NextType == TypeOK /\ TravelerOrderKept /\ NodeInv /\ [Next]_vars => TypeOK'
<1> SUFFICES ASSUME TypeOK, TravelerOrderKept, NodeInv, [Next]_vars PROVE TypeOK'
  OBVIOUS
<1> USE DEF inputVars, mergeVars, reflectVars
<1>0. ListTypes
  BY DEF TypeOK, ListTypes
<1>1. CASE ParseIntent
  <2>1. constraints' \in Constraints
    BY <1>1, GraphOK DEF ParseIntent, Parsed, TypeOK
  <2>2. node' \in Nodes
    BY <1>1 DEF ParseIntent, RouteAfterParse, Nodes
  <2> QED BY <1>1, <2>1, <2>2 DEF ParseIntent, TypeOK
<1>2. CASE SearchBusinessSpecialists \/ SearchLeisureSpecialists
  <2>1. ListTypes'
    BY <1>0, <1>2, SearchKeepsLists
  <2> QED BY <1>2, <2>1 DEF SearchBusinessSpecialists, SearchLeisureSpecialists, ListTypes,
                            TypeOK, Nodes
<1>3. CASE MergeResults
  <2>1. cost' \in Nat
    BY <1>3, TotalType DEF MergeResults, TypeOK
  <2>2. log' \in [selected : Picks, held : BOOLEAN]
    BY <1>3, PicksTypes DEF MergeResults, TypeOK
  <2> QED BY <1>3, <2>1, <2>2 DEF MergeResults, TypeOK, Nodes
<1>4. CASE PolicyCheck
  BY <1>4 DEF PolicyCheck, RouteAfterPolicy, TypeOK, Nodes
<1>5. CASE BudgetAgent
  <2>1. alternatives' \in SUBSET [total : Nat, within : BOOLEAN]
    BY <1>5, AlternativesType DEF BudgetAgent, TypeOK
  <2>2. log' \in [selected : Picks, held : BOOLEAN]
    BY <1>5 DEF BudgetAgent, TypeOK
  <2> QED BY <1>5, <2>1, <2>2 DEF BudgetAgent, TypeOK, Nodes
<1>6. CASE CompileItinerary
  <2>1. itinerary' \in Drafts
    BY <1>6, PicksTypes DEF CompileItinerary, TypeOK, Drafts
  <2> QED BY <1>6, <2>1 DEF CompileItinerary, TypeOK, Nodes
<1>7. CASE ReflectItinerary
  <2>1. ListTypes'
    BY <1>0, <1>7, ReflectKeepsLists
  <2>2. attempts' \in 0 .. MaxReflections /\ tried' \in [Sections -> SUBSET Candidates]
    <3>1. CASE UNCHANGED reflectVars
      BY <3>1 DEF TypeOK
    <3>2. ASSUME NEW s \in Sections, CanRetry, Untried(s) # {}, Swap(s)
          PROVE  attempts' \in 0 .. MaxReflections /\ tried' \in [Sections -> SUBSET Candidates]
      <4>1. replies[s][Min(Untried(s))] \in Candidates
        BY <3>2, NextUntried DEF TypeOK
      <4>2. tried' = [tried EXCEPT ![s] = @ \cup {replies[s][Min(Untried(s))]}]
            /\ attempts' = attempts + 1
        BY <3>2 DEF Swap
      <4> QED BY <3>2, <4>1, <4>2, GraphOK DEF CanRetry, TypeOK
    <3>3. \/ UNCHANGED reflectVars
          \/ \E s \in Sections : CanRetry /\ Untried(s) # {} /\ Swap(s)
      BY <1>7 DEF ReflectItinerary, Objections, Incomplete
    <3> QED BY <3>1, <3>2, <3>3
  <2>3. node' \in Nodes
    BY <1>7 DEF ReflectItinerary, RouteAfterReflect, Nodes
  <2> QED BY <1>7, <2>1, <2>2, <2>3 DEF ReflectItinerary, ListTypes, TypeOK
<1>8. CASE AwaitConfirmation
  <2>1. itinerary = Compiled("draft")
    BY <1>8 DEF AwaitConfirmation, NodeInv
  <2>2. itinerary' = Compiled("awaiting_confirmation")
    BY <1>8, <2>1 DEF AwaitConfirmation, Compiled
  <2>3. /\ Pickable(replies, constraints) \in Picks /\ Selected(replies) \in Picks
        /\ TotalCost(replies) \in Nat
    BY PicksTypes, TotalType DEF TypeOK
  <2>4. itinerary' \in Drafts
    BY <2>2, <2>3 DEF Compiled, MergedLog, Drafts
  <2> QED BY <1>8, <2>4 DEF AwaitConfirmation, TypeOK, Nodes
<1>9. CASE UNCHANGED vars
  BY <1>9 DEF vars, TypeOK
<1> QED BY <1>1, <1>2, <1>3, <1>4, <1>5, <1>6, <1>7, <1>8, <1>9 DEF Next

\* Whatever is parsed, searched and objected to, every variable of the graph's state has
\* its type, and the critic swaps at most MaxReflections times.
THEOREM GraphTypes == Spec => []TypeOK
<1>1. Spec => [](TravelerOrderKept /\ NodeInv)
  BY OrderIsKept, GraphInvariance, PTL DEF GraphInv
<1> QED BY <1>1, InitType, NextType, PTL DEF Spec

-----------------------------------------------------------------------------
(* A plan over the budget.                                                 *)

\* A breach sends the run to the budget agent, which ends it.
BreachInv ==
    policy = "breach" =>
        /\ node \in {"budget_agent", "end"} /\ ~WithinBudget(cost, constraints)
        /\ node = "end" => alternatives = Alternatives(replies, cost, constraints)

LEMMA NextBreachInv == BreachInv /\ [Next]_vars => BreachInv'
<1> SUFFICES ASSUME BreachInv, [Next]_vars PROVE BreachInv'
  OBVIOUS
<1> USE DEF BreachInv, inputVars, mergeVars, reflectVars
<1>1. CASE PolicyCheck
  <2>1. /\ node' = RouteAfterPolicy(policy') /\ UNCHANGED <<cost, constraints>>
        /\ policy' = IF WithinBudget(cost, constraints) THEN "compliant" ELSE "breach"
    BY <1>1 DEF PolicyCheck
  <2>2. WithinBudget(cost, constraints)' = WithinBudget(cost, constraints)
    BY <2>1
  <2> QED BY <2>1, <2>2 DEF RouteAfterPolicy
<1>2. CASE BudgetAgent
  <2>1. /\ UNCHANGED <<replies, cost, constraints, policy>> /\ node = "budget_agent"
        /\ node' = "end" /\ alternatives' = Alternatives(replies, cost, constraints)
    BY <1>2 DEF BudgetAgent
  <2>2. /\ UNCHANGED WithinBudget(cost, constraints)
        /\ UNCHANGED Alternatives(replies, cost, constraints)
    BY <2>1
  <2> QED BY <2>1, <2>2
<1>3. CASE \/ ParseIntent \/ SearchBusinessSpecialists \/ SearchLeisureSpecialists
           \/ MergeResults \/ CompileItinerary \/ ReflectItinerary \/ AwaitConfirmation
  <2>1. policy' = policy /\ node \notin {"budget_agent", "end"}
    BY <1>3 DEF ParseIntent, SearchBusinessSpecialists, SearchLeisureSpecialists, MergeResults,
                CompileItinerary, ReflectItinerary, AwaitConfirmation
  <2> QED BY <2>1
<1>4. CASE UNCHANGED vars
  <2>1. UNCHANGED <<node, replies, cost, constraints, policy, alternatives>>
    BY <1>4 DEF vars
  <2>2. /\ UNCHANGED WithinBudget(cost, constraints)
        /\ UNCHANGED Alternatives(replies, cost, constraints)
    BY <2>1
  <2> QED BY <2>1, <2>2
<1> QED BY <1>1, <1>2, <1>3, <1>4 DEF Next

LEMMA BreachInvariance == Spec => []BreachInv
<1>1. Init => BreachInv
  BY DEF Init, BreachInv
<1> QED BY <1>1, NextBreachInv, PTL DEF Spec

\* The cheapest flight and hotel with the cheapest dining are no dearer than any others.
LEMMA CheapestCombo ==
    ASSUME NEW r \in [Sections -> Seq(Candidates)],
           NEW f \in Elements(r["flight"]), NEW h \in Elements(r["hotel"]),
           Price["flight"][f] > 0, Price["hotel"][h] > 0,
           NEW dining \in Nat
    PROVE  Combo(Cheapest("flight", r["flight"]), Cheapest("hotel", r["hotel"]), dining, 0)
             <= Combo(<<f>>, <<h>>, dining, 0)
<1>1. "flight" \in Sections /\ "hotel" \in Sections
  BY DEF Sections
<1>2. f \in Candidates /\ h \in Candidates
  BY <1>1, LenProperties, ElementOfSeq DEF Elements
<1> DEFINE cf == SumOf("flight", Cheapest("flight", r["flight"]))
           ch == SumOf("hotel", Cheapest("hotel", r["hotel"]))
           pf == SumOf("flight", <<f>>)
           ph == SumOf("hotel", <<h>>)
<1>3. pf = Price["flight"][f] /\ ph = Price["hotel"][h]
  BY <1>1, <1>2, SumOfOneCandidate
<1>4. cf <= pf /\ ch <= ph
  BY <1>1, <1>3, CheapestFound
<1>5. cf \in Nat /\ ch \in Nat /\ pf \in Nat /\ ph \in Nat
  <2>1. Cheapest("flight", r["flight"]) \in Seq(Candidates)
        /\ Cheapest("hotel", r["hotel"]) \in Seq(Candidates)
    BY <1>1, CheapestFound
  <2>2. <<f>> \in Seq(Candidates) /\ <<h>> \in Seq(Candidates)
    BY <1>2
  <2> QED BY <1>1, <2>1, <2>2, SumOfType
<1>6. Combo(Cheapest("flight", r["flight"]), Cheapest("hotel", r["hotel"]), dining, 0)
        = cf + ch + dining + 0
  BY DEF Combo
<1>7. Combo(<<f>>, <<h>>, dining, 0) = pf + ph + dining + 0
  BY DEF Combo
<1> HIDE DEF cf, ch, pf, ph
<1> QED BY <1>4, <1>5, <1>6, <1>7

\* The traveler who is told that a plan is too dear is told of a cheaper one that fits,
\* whatever the prices, if the flights and hotels in hand allow one at all.
THEOREM BreachComesWithAWayOut == Spec => []FittingPlanOffered
<1>1. TypeOK /\ BreachInv => FittingPlanOffered
  <2> DEFINE dining == CheapestDining(replies["restaurant"])
             best == Combo(Cheapest("flight", replies["flight"]),
                           Cheapest("hotel", replies["hotel"]), dining, 0)
             way == [total |-> best,
                     within |-> constraints.budget # NoBudget /\ best <= constraints.budget]
  <2> SUFFICES ASSUME TypeOK, BreachInv, node = "end", policy = "breach",
                      NEW f \in Elements(replies["flight"]), Price["flight"][f] > 0,
                      NEW h \in Elements(replies["hotel"]), Price["hotel"][h] > 0,
                      WithinBudget(Combo(<<f>>, <<h>>, dining, 0), constraints)
               PROVE  \E a \in alternatives : a.within /\ a.total < cost
    BY DEF FittingPlanOffered
  <2>1. replies \in [Sections -> Seq(Candidates)] /\ cost \in Nat /\ constraints \in Constraints
    BY DEF TypeOK
  <2>2. ~WithinBudget(cost, constraints)
        /\ alternatives = Alternatives(replies, cost, constraints)
    BY DEF BreachInv
  <2>3. constraints.budget # NoBudget /\ constraints.budget \in Int
    BY <2>1, <2>2, GraphOK DEF WithinBudget, Constraints
  <2>4. Combo(<<f>>, <<h>>, dining, 0) <= constraints.budget /\ ~(cost <= constraints.budget)
    BY <2>2, <2>3 DEF WithinBudget
  <2>5. dining \in Nat
    <3>1. CheapestThree(replies["restaurant"]) \in SUBSET DOMAIN replies["restaurant"]
      BY DEF CheapestThree
    <3>2. "restaurant" \in Sections
      BY DEF Sections
    <3> QED BY <2>1, <3>1, <3>2, CostType DEF CheapestDining
  <2> HIDE DEF dining
  <2>6. best <= Combo(<<f>>, <<h>>, dining, 0)
    BY <2>1, <2>5, CheapestCombo
  <2>7. best \in Nat /\ Combo(<<f>>, <<h>>, dining, 0) \in Nat
    <3>1. "flight" \in Sections /\ "hotel" \in Sections
      BY DEF Sections
    <3>2. f \in Candidates /\ h \in Candidates
      BY <2>1, <3>1, LenProperties, ElementOfSeq DEF Elements
    <3>3. /\ SumOf("flight", <<f>>) \in Nat /\ SumOf("hotel", <<h>>) \in Nat
          /\ SumOf("flight", Cheapest("flight", replies["flight"])) \in Nat
          /\ SumOf("hotel", Cheapest("hotel", replies["hotel"])) \in Nat
      <4>1. <<f>> \in Seq(Candidates) /\ <<h>> \in Seq(Candidates)
        BY <3>2
      <4>2. /\ Cheapest("flight", replies["flight"]) \in Seq(Candidates)
            /\ Cheapest("hotel", replies["hotel"]) \in Seq(Candidates)
        BY <2>1, <3>1, CheapestFound
      <4> QED BY <3>1, <4>1, <4>2, SumOfType
    <3> QED BY <2>5, <3>3 DEF Combo
  <2>8. best <= constraints.budget /\ best < cost
    <3> HIDE DEF best
    <3> QED BY <2>1, <2>3, <2>4, <2>6, <2>7
  <2>9. way \in Alternatives(replies, cost, constraints)
    BY <2>8 DEF Alternatives, dining
  <2>10. way.within /\ way.total < cost
    <3> HIDE DEF best
    <3> QED BY <2>3, <2>8
  <2> HIDE DEF way
  <2> QED BY <2>2, <2>9, <2>10
<1> QED BY <1>1, GraphTypes, BreachInvariance, PTL

-----------------------------------------------------------------------------
(* What the workflow is told.                                              *)

Fixed == {s \in Sections : given[s] # <<>>}

\* What the critic did to the lists of a run that is not a bandit's.  The candidate it
\* swaps in first is the one that is shown already; its second swap gets one section as
\* far as its second candidate.
CriticInv ==
    /\ \A s \in Sections : ListingOK(given[s])
    /\ attempts > 0 => ~skipReparse
    /\ attempts = 0 => \A s \in Sections : tried[s] = {}
    /\ ~Bandit /\ attempts <= 1 =>
          \A s \in Fixed : replies[s] = given[s] /\ tried[s] \subseteq {given[s][1]}
    /\ ~Bandit /\ attempts > 1 =>
          \E t \in Sections :
             /\ \A s \in Fixed \ {t} : replies[s] = given[s]
             /\ t \in Fixed => \/ replies[t] = given[t]
                               \/ Len(given[t]) > 1 /\ replies[t][1] = given[t][2]

\* A draft that the critic sent back is kept when the swap breaches the budget.
SentBack ==
    /\ attempts > 0 /\ itinerary.status = "draft"
    /\ itinerary.picks \in PlainPicks(given, constraints)

\* How a run may end.
OutcomeInv ==
    /\ node \notin {"parse_intent", "end"} => Usable(constraints)
    /\ node \in {"parse_intent", "search_business_specialists", "search_leisure_specialists"}
         => itinerary = NoPlan /\ policy = "pending"
    /\ node \in {"merge_results", "policy_check", "compile_itinerary", "budget_agent"}
         => itinerary = NoPlan \/ SentBack
    /\ node = "budget_agent" => policy = "breach"
    /\ node = "end" =>
          \/ ~Usable(constraints) /\ itinerary = NoPlan /\ policy = "pending"
          \/ Usable(constraints) /\ Presented
          \/ Usable(constraints) /\ policy = "breach" /\ (itinerary = NoPlan \/ SentBack)

LEMMA FrontStays ==
    ASSUME NEW l, ListingOK(l), l # <<>>
    PROVE  1 \in DOMAIN l /\ ReorderToFront(l, l[1]) = l
<1> DEFINE at == CHOOSE i \in DOMAIN l : l[i] = l[1]
<1>1. l \in Seq(Candidates) /\ DOMAIN l = 1 .. Len(l) /\ Len(l) \in Nat /\ 1 \in DOMAIN l
  BY EmptySeq, LenProperties DEF ListingOK
<1>2. at \in DOMAIN l /\ l[at] = l[1]
  BY <1>1
<1> HIDE DEF at
<1>3. at = 1
  BY <1>1, <1>2 DEF ListingOK
<1>4. l[1] \in Elements(l)
  BY <1>1 DEF Elements
<1>5. ReorderToFront(l, l[1]) =
        [i \in DOMAIN l |-> IF i = 1 THEN l[1] ELSE IF i <= 1 THEN l[i - 1] ELSE l[i]]
  BY <1>3, <1>4 DEF ReorderToFront, at
<1>6. \A i \in DOMAIN l : i # 1 => ~(i <= 1)
  BY <1>1
<1>7. l = [i \in DOMAIN l |-> l[i]]
  BY <1>1
<1> QED BY <1>1, <1>5, <1>6, <1>7

\* The critic's swap in a list that is in the traveler's order still.
LEMMA SwapOfListed ==
    ASSUME TypeOK, NEW s \in Sections, Untried(s) # {}, ListingOK(given[s]),
           given[s] # <<>>, replies[s] = given[s], tried[s] \subseteq {given[s][1]},
           NEW next, next = replies[s][Min(Untried(s))]
    PROVE  /\ \/ next = given[s][1] /\ ReorderToFront(replies[s], next) = given[s]
              \/ Len(given[s]) > 1 /\ ReorderToFront(replies[s], next)[1] = given[s][2]
           /\ tried[s] = {} => next = given[s][1]
<1> DEFINE l == given[s]
           n == Min(Untried(s))
<1>0. n \in Untried(s) /\ \A i \in Untried(s) : n <= i
  BY NextUntried DEF TypeOK
<1>1. /\ l \in Seq(Candidates) /\ DOMAIN l = 1 .. Len(l) /\ Len(l) \in Nat /\ 1 \in DOMAIN l
      /\ ReorderToFront(l, l[1]) = l
  BY FrontStays, LenProperties DEF ListingOK
<1>2. Untried(s) = {i \in DOMAIN l : l[i] \notin tried[s]}
  BY DEF Untried
<1> HIDE DEF n
<1>3. CASE tried[s] = {}
  <2>1. n = 1
    BY <1>0, <1>1, <1>2, <1>3
  <2> QED BY <1>1, <2>1 DEF n
<1>4. CASE tried[s] # {}
  <2>1. tried[s] = {l[1]}
    BY <1>4
  <2>2. Untried(s) = {i \in DOMAIN l : i # 1}
    BY <1>1, <1>2, <2>1 DEF ListingOK
  <2>3. n = 2 /\ Len(l) > 1
    <3>1. n \in 1 .. Len(l) /\ n # 1
      BY <1>0, <1>1, <2>2
    <3>2. 2 \in DOMAIN l
      BY <1>1, <3>1
    <3>3. n <= 2
      BY <1>0, <2>2, <3>2
    <3> QED BY <1>1, <3>1, <3>3
  <2>4. next = l[2] /\ l[2] \in Elements(l)
    BY <1>1, <2>3 DEF n, Elements
  <2>5. ReorderToFront(l, next)[1] = next
    BY <1>1, <2>4, ReorderPermutes
  <2> QED BY <1>4, <2>3, <2>4, <2>5
<1> QED BY <1>3, <1>4

LEMMA NextCriticInv ==
    ASSUME MaxReflections <= 2, TypeOK, TravelerOrderKept, CriticInv, [Next]_vars
    PROVE  CriticInv'
<1>1. CASE UNCHANGED <<given, skipReparse, replies, tried, attempts>>
  BY <1>1 DEF CriticInv, Fixed
<1>2. CASE SearchBusinessSpecialists \/ SearchLeisureSpecialists
  <2>1. UNCHANGED <<given, skipReparse, tried, attempts>>
    BY <1>2 DEF SearchBusinessSpecialists, SearchLeisureSpecialists, inputVars, reflectVars
  <2>2. ASSUME NEW s \in Fixed PROVE replies'[s] = replies[s]
    <3>1. replies[s] # <<>>
      BY SeqIsEmptyIffNoElements DEF Fixed, TypeOK, TravelerOrderKept
    <3> QED BY <1>2, <3>1, SearchFillsEmpties DEF Fixed, TypeOK, ListTypes
  <2> QED BY <2>1, <2>2 DEF CriticInv, Fixed
<1>3. ASSUME NEW s \in Sections, CanRetry, Untried(s) # {}, Swap(s),
             UNCHANGED inputVars
      PROVE  CriticInv'
  <2> DEFINE next == replies[s][Min(Untried(s))]
  <2>1. /\ replies' = [replies EXCEPT ![s] = ReorderToFront(replies[s], next)]
        /\ tried' = [tried EXCEPT ![s] = tried[s] \cup {next}]
        /\ attempts' = attempts + 1
    BY <1>3 DEF Swap
  <2>2. UNCHANGED <<given, skipReparse>> /\ ~skipReparse
        /\ attempts \in Nat /\ attempts < MaxReflections /\ attempts <= 1
    BY <1>3, GraphOK DEF CanRetry, TypeOK, inputVars
  <2>3. \A t \in Sections \ {s} : replies'[t] = replies[t] /\ tried'[t] = tried[t]
    BY <2>1 DEF TypeOK
  <2>4. replies'[s] = ReorderToFront(replies[s], next) /\ tried'[s] = tried[s] \cup {next}
    BY <2>1 DEF TypeOK
  <2>5. Fixed' = Fixed
    BY <2>2 DEF Fixed
  <2> HIDE DEF next
  <2>6. ASSUME ~Bandit, s \in Fixed
        PROVE  /\ \/ next = given[s][1] /\ replies'[s] = given[s]
                  \/ Len(given[s]) > 1 /\ replies'[s][1] = given[s][2]
               /\ tried[s] = {} => next = given[s][1]
    <3>1. /\ ListingOK(given[s]) /\ given[s] # <<>> /\ replies[s] = given[s]
          /\ tried[s] \subseteq {given[s][1]}
      BY <2>2, <2>6 DEF CriticInv, Fixed
    <3> QED BY <1>3, <2>4, <3>1, SwapOfListed DEF next
  <2>7. CASE attempts = 0
    <3>1. \A t \in Sections : tried[t] = {}
      BY <2>7 DEF CriticInv
    <3>2. attempts' = 1
      BY <2>1, <2>7
    <3>3. ASSUME ~Bandit, NEW t \in Fixed
          PROVE  replies'[t] = given[t] /\ tried'[t] \subseteq {given[t][1]}
      <4>1. CASE t = s
        <5>1. next = given[s][1]
          BY <2>6, <3>1, <3>3, <4>1
        <5>2. replies[s] = given[s] /\ ListingOK(given[s]) /\ given[s] # <<>>
          BY <2>7, <3>3, <4>1 DEF CriticInv, Fixed
        <5>3. replies'[s] = given[s]
          BY <2>4, <5>1, <5>2, FrontStays
        <5> QED BY <2>4, <3>1, <4>1, <5>1, <5>3
      <4>2. CASE t # s
        BY <2>3, <2>7, <3>3, <4>2 DEF CriticInv, Fixed
      <4> QED BY <4>1, <4>2
    <3> QED BY <2>2, <2>5, <3>2, <3>3 DEF CriticInv
  <2>8. CASE attempts = 1
    <3>1. attempts' = 2
      BY <2>1, <2>8
    <3>2. ASSUME ~Bandit
          PROVE  /\ \A t \in Fixed \ {s} : replies'[t] = given[t]
                 /\ s \in Fixed => \/ replies'[s] = given[s]
                                   \/ Len(given[s]) > 1 /\ replies'[s][1] = given[s][2]
      <4>1. \A t \in Fixed \ {s} : replies'[t] = given[t]
        BY <2>3, <2>8, <3>2 DEF CriticInv, Fixed
      <4> QED BY <2>6, <3>2, <4>1
    <3> QED BY <2>2, <2>5, <3>1, <3>2 DEF CriticInv
  <2> QED BY <2>2, <2>7, <2>8
<1>4. CASE ReflectItinerary
  <2>1. \/ UNCHANGED <<replies, reflectVars>>
        \/ \E s \in Sections : CanRetry /\ Untried(s) # {} /\ Swap(s)
    BY <1>4 DEF ReflectItinerary, Objections, Incomplete
  <2>2. UNCHANGED inputVars
    BY <1>4 DEF ReflectItinerary
  <2> QED BY <1>1, <1>3, <2>1, <2>2 DEF inputVars, reflectVars
<1>5. CASE \/ ParseIntent \/ MergeResults \/ PolicyCheck \/ BudgetAgent
           \/ CompileItinerary \/ AwaitConfirmation \/ UNCHANGED vars
  BY <1>1, <1>5 DEF ParseIntent, MergeResults, PolicyCheck, BudgetAgent, CompileItinerary,
                    AwaitConfirmation, vars, inputVars, reflectVars
<1> QED BY <1>2, <1>4, <1>5 DEF Next

LEMMA InitCriticInv == Init => CriticInv
<1> SUFFICES ASSUME Init PROVE CriticInv
  OBVIOUS
<1>1. attempts = 0 /\ tried = [s \in Sections |-> {}] /\ replies \in Ranked(given)
  BY Zenon DEF Init
<1>2. \A s \in Sections : given[s] \in Listings[s]
  BY DEF Init
<1>3. \A s \in Sections : ListingOK(given[s])
  BY <1>2, GraphOK
<1>4. ~Bandit => replies = given
  BY <1>1 DEF Ranked
<1> QED BY <1>1, <1>3, <1>4 DEF CriticInv, Fixed

LEMMA CriticInvariance == ASSUME MaxReflections <= 2 PROVE Spec => []CriticInv
<1>1. TypeOK /\ TravelerOrderKept /\ CriticInv /\ [Next]_vars => CriticInv'
  BY NextCriticInv
<1> QED BY <1>1, GraphTypes, OrderIsKept, InitCriticInv, PTL DEF Spec

\* The pick of one section, of a list in the traveler's order or of any that has the
\* same candidates.
LEMMA PickShown ==
    ASSUME TypeOK, TravelerOrderKept, NEW s \in Sections,
           s \in Fixed /\ ~Bandit => replies[s] = given[s]
    PROVE  Pickable(replies, constraints)[s] \in Shown(s, given[s], constraints)
<1> DEFINE p == Pickable(replies, constraints)[s]
<1>1. p = IF Hidden(s, constraints) \/ replies[s] = <<>> THEN NoCandidate ELSE replies[s][1]
  BY DEF Pickable, Selected
<1>2. replies[s] \in Seq(Candidates) /\ given[s] \in Seq(Candidates)
  BY DEF TypeOK
<1>3. replies[s] # <<>> => 1 \in DOMAIN replies[s] /\ replies[s][1] \in Candidates
  BY <1>2, EmptySeq, LenProperties, ElementOfSeq
<1> SUFFICES p \in Shown(s, given[s], constraints)
  OBVIOUS
<1> HIDE DEF p
<1>4. CASE Hidden(s, constraints) \/ given[s] = <<>>
  BY <1>1, <1>3, <1>4 DEF Shown
<1>5. CASE ~Hidden(s, constraints) /\ given[s] # <<>>
  <2>1. Elements(replies[s]) = Elements(given[s]) /\ s \in Fixed
    BY <1>5 DEF TravelerOrderKept, Fixed
  <2>2. replies[s] # <<>>
    BY <1>2, <1>5, <2>1, SeqIsEmptyIffNoElements
  <2>3. p = replies[s][1] /\ p \in Elements(given[s])
    BY <1>1, <1>3, <1>5, <2>1, <2>2 DEF Elements
  <2> QED BY <1>5, <2>1, <2>3 DEF Shown
<1> QED BY <1>4, <1>5

LEMMA PicksPlain ==
    ASSUME TypeOK, TravelerOrderKept, CriticInv, attempts <= 1
    PROVE  Pickable(replies, constraints) \in PlainPicks(given, constraints)
<1>1. Pickable(replies, constraints) \in Picks
  BY PicksTypes DEF TypeOK
<1>2. \A s \in Sections : s \in Fixed /\ ~Bandit => replies[s] = given[s]
  BY DEF CriticInv
<1> QED BY <1>1, <1>2, PickShown DEF PlainPicks

\* Whatever the critic did, it shows what the workflow may be shown.
LEMMA PicksReturned ==
    ASSUME TypeOK, TravelerOrderKept, CriticInv
    PROVE  \/ Pickable(replies, constraints) \in PlainPicks(given, constraints)
           \/ ~skipReparse /\ Pickable(replies, constraints) \in CriticPicks(given, constraints)
<1> DEFINE p == Pickable(replies, constraints)
<1>1. p \in Picks
  BY PicksTypes DEF TypeOK
<1>2. CASE attempts <= 1
  BY <1>2, PicksPlain
<1>3. CASE Bandit
  <2>1. \A s \in Sections : p[s] \in Shown(s, given[s], constraints)
    BY <1>3, PickShown
  <2> QED BY <1>1, <2>1 DEF PlainPicks
<1>4. CASE ~Bandit /\ attempts > 1
  <2>1. PICK t \in Sections :
             /\ \A s \in Fixed \ {t} : replies[s] = given[s]
             /\ t \in Fixed => \/ replies[t] = given[t]
                               \/ Len(given[t]) > 1 /\ replies[t][1] = given[t][2]
    BY <1>4 DEF CriticInv
  <2>2. \A s \in Sections \ {t} : p[s] \in Shown(s, given[s], constraints)
    BY <2>1, PickShown
  <2>3. ~skipReparse
    BY <1>4, GraphOK DEF CriticInv, TypeOK
  <2>4. CASE (t \in Fixed => replies[t] = given[t]) \/ Hidden(t, constraints)
    <3>1. p[t] \in Shown(t, given[t], constraints)
      <4>1. CASE t \in Fixed => replies[t] = given[t]
        BY <4>1, PickShown
      <4>2. CASE Hidden(t, constraints)
        BY <4>2 DEF Pickable, Shown
      <4> QED BY <2>4, <4>1, <4>2
    <3>2. \A s \in Sections : p[s] \in Shown(s, given[s], constraints)
      BY <2>2, <3>1
    <3> HIDE DEF p
    <3>3. p \in PlainPicks(given, constraints)
      BY <1>1, <3>2 DEF PlainPicks
    <3> QED BY <3>3 DEF p
  <2>5. CASE /\ t \in Fixed /\ ~Hidden(t, constraints)
             /\ Len(given[t]) > 1 /\ replies[t][1] = given[t][2]
    <3>1. replies[t] # <<>>
      BY <2>5, SeqIsEmptyIffNoElements DEF Fixed, TypeOK, TravelerOrderKept
    <3>2. p[t] = given[t][2]
      BY <2>5, <3>1 DEF Pickable, Selected
    <3> HIDE DEF p
    <3>3. p \in CriticPicks(given, constraints)
      BY <1>1, <2>2, <2>5, <3>2 DEF CriticPicks
    <3> QED BY <2>3, <3>3 DEF p
  <2> QED BY <2>1, <2>4, <2>5
<1> QED BY <1>2, <1>3, <1>4, GraphOK DEF TypeOK

LEMMA NextOutcomeInv ==
    ASSUME MaxReflections <= 2, TypeOK, TypeOK', TravelerOrderKept, NodeInv, CriticInv,
           OutcomeInv, [Next]_vars
    PROVE  OutcomeInv'
<1> USE DEF inputVars, mergeVars, reflectVars
<1>1. CASE ParseIntent
  <2>1. itinerary' = NoPlan /\ policy' = "pending" /\ node' = RouteAfterParse(constraints')
    BY <1>1 DEF ParseIntent, OutcomeInv
  <2>2. node' \in {"end", "search_business_specialists", "search_leisure_specialists"}
        /\ (node' = "end" <=> ~Usable(constraints'))
    BY <2>1 DEF RouteAfterParse
  <2>3. Usable(constraints') <=> Usable(constraints)'
    BY DEF Usable
  <2> QED BY <2>1, <2>2, <2>3 DEF OutcomeInv
<1>2. CASE \/ SearchBusinessSpecialists \/ SearchLeisureSpecialists \/ MergeResults
           \/ PolicyCheck \/ BudgetAgent
  <2>1. /\ UNCHANGED <<given, constraints, itinerary, attempts>>
        /\ node \notin {"parse_intent", "end"}
        /\ itinerary = NoPlan \/ SentBack
    BY <1>2 DEF SearchBusinessSpecialists, SearchLeisureSpecialists, MergeResults,
                PolicyCheck, BudgetAgent, OutcomeInv
  <2>2. UNCHANGED <<Usable(constraints), SentBack>>
    BY <2>1 DEF Usable, SentBack
  <2>3. /\ node' \in {"merge_results", "policy_check", "compile_itinerary", "budget_agent", "end"}
        /\ node' \in {"budget_agent", "end"} => policy' = "breach"
    BY <1>2 DEF SearchBusinessSpecialists, SearchLeisureSpecialists, MergeResults,
                PolicyCheck, BudgetAgent, RouteAfterPolicy, OutcomeInv
  <2>4. Usable(constraints)
    BY <2>1 DEF OutcomeInv
  <2> QED BY <2>1, <2>2, <2>3, <2>4 DEF OutcomeInv
<1>3. CASE CompileItinerary
  <2>1. node' = "reflect_itinerary" /\ UNCHANGED <<constraints>> /\ node = "compile_itinerary"
    BY <1>3 DEF CompileItinerary
  <2>2. UNCHANGED Usable(constraints)
    BY <2>1 DEF Usable
  <2> QED BY <2>1, <2>2 DEF OutcomeInv
<1>4. CASE ReflectItinerary
  <2>1. node = "reflect_itinerary" /\ UNCHANGED <<given, skipReparse, constraints, itinerary>>
        /\ itinerary = Compiled("draft")
    BY <1>4 DEF ReflectItinerary, NodeInv
  <2>2. UNCHANGED Usable(constraints) /\ Usable(constraints)
    BY <2>1 DEF Usable, OutcomeInv
  <2>3. CASE node' = "await_confirmation"
    BY <2>2, <2>3 DEF OutcomeInv
  <2>4. ASSUME NEW s \in Sections, CanRetry, Swap(s), node' = "merge_results"
        PROVE  OutcomeInv'
    <3>1. attempts \in Nat /\ attempts <= 1 /\ attempts' = attempts + 1
      BY <2>4, GraphOK DEF CanRetry, Swap, TypeOK
    <3>2. itinerary.status = "draft" /\ itinerary.picks = Pickable(replies, constraints)
      BY <2>1 DEF Compiled
    <3>3. itinerary.picks \in PlainPicks(given, constraints)
      BY <3>1, <3>2, PicksPlain
    <3>4. PlainPicks(given, constraints)' = PlainPicks(given, constraints)
      BY <2>1
    <3>5. SentBack'
      BY <2>1, <3>1, <3>2, <3>3, <3>4 DEF SentBack
    <3> QED BY <2>2, <2>4, <3>5 DEF OutcomeInv
  <2>5. \/ node' = "await_confirmation"
        \/ node' = "merge_results" /\ \E s \in Sections : CanRetry /\ Swap(s)
    BY <1>4 DEF ReflectItinerary, RouteAfterReflect, Objections, Incomplete
  <2> QED BY <2>3, <2>4, <2>5
<1>5. CASE AwaitConfirmation
  <2>1. node' = "end" /\ UNCHANGED constraints /\ itinerary = Compiled("draft")
        /\ itinerary' = [itinerary EXCEPT !.status = "awaiting_confirmation"]
        /\ node = "await_confirmation"
    BY <1>5 DEF AwaitConfirmation, NodeInv
  <2>2. itinerary'.status = "awaiting_confirmation" /\ itinerary' = Compiled("awaiting_confirmation")
    BY <2>1 DEF Compiled
  <2>3. itinerary' # NoPlan
    <3>1. /\ Pickable(replies, constraints) \in Picks /\ Selected(replies) \in Picks
          /\ TotalCost(replies) \in Nat
      BY PicksTypes, TotalType DEF TypeOK
    <3>2. itinerary' \in Drafts
      BY <2>2, <3>1 DEF Compiled, MergedLog, Drafts
    <3> QED BY <3>2, NoPlanOK
  <2>4. Usable(constraints)' /\ Presented'
    BY <2>1, <2>2, <2>3 DEF OutcomeInv, Usable, Presented
  <2> QED BY <2>1, <2>4 DEF OutcomeInv
<1>6. CASE UNCHANGED vars
  <2>1. UNCHANGED <<node, given, constraints, itinerary, policy, attempts>>
    BY <1>6 DEF vars
  <2>2. UNCHANGED <<Usable(constraints), SentBack, Presented>>
    BY <2>1 DEF Usable, SentBack, Presented
  <2> QED BY <2>1, <2>2 DEF OutcomeInv
<1> QED BY <1>1, <1>2, <1>3, <1>4, <1>5, <1>6 DEF Next

\* The set of itineraries the workflow's model chooses from leaves nothing out: whatever
\* is listed, found, priced and objected to, with the two reflections the code allows,
\* the graph ends in one of them.
THEOREM GraphDelivers == ASSUME MaxReflections <= 2 PROVE Spec => []DeliversPlan
<1>1. Init => OutcomeInv
  <2> SUFFICES ASSUME Init PROVE OutcomeInv
    OBVIOUS
  <2>1. node = "parse_intent" /\ itinerary = NoPlan /\ policy = "pending"
    BY Zenon DEF Init
  <2> QED BY <2>1 DEF OutcomeInv
<1>2. TypeOK /\ TypeOK' /\ TravelerOrderKept /\ NodeInv /\ CriticInv /\ OutcomeInv
        /\ [Next]_vars => OutcomeInv'
  BY NextOutcomeInv
<1>3. TypeOK /\ TravelerOrderKept /\ PresentedInv /\ BreachInv /\ CriticInv /\ OutcomeInv
        => DeliversPlan
  <2> SUFFICES ASSUME TypeOK, TravelerOrderKept, PresentedInv, BreachInv, CriticInv, OutcomeInv,
                      node = "end"
               PROVE  Result \in GenerateItinerary(given, constraints, skipReparse)
    BY DEF DeliversPlan
  <2> DEFINE ranked == {s \in Sections : given[s] # <<>>}
  <2>1. CASE ~Usable(constraints) /\ itinerary = NoPlan /\ policy = "pending"
    <3>1. Result = [status |-> "error", picks |-> Unpicked, ranked |-> {}]
      BY <2>1 DEF Result
    <3> QED BY <2>1, <3>1 DEF GenerateItinerary
  <2>2. CASE Usable(constraints) /\ Presented
    <3>1. itinerary = Compiled("awaiting_confirmation") /\ itinerary # NoPlan
      BY <2>2 DEF PresentedInv, Presented
    <3>2. Result = [status |-> "awaiting_confirmation",
                    picks |-> Pickable(replies, constraints), ranked |-> ranked]
      BY <3>1 DEF Result, Compiled
    <3> QED BY <2>2, <3>2, PicksReturned DEF GenerateItinerary
  <2>3. CASE Usable(constraints) /\ policy = "breach" /\ itinerary = NoPlan
    <3>1. Result = [status |-> "needs_approval", picks |-> Unpicked, ranked |-> {}]
      BY <2>3 DEF Result
    <3>2. constraints.budget # NoBudget
      BY <2>3 DEF BreachInv, WithinBudget
    <3> QED BY <2>3, <3>1, <3>2 DEF GenerateItinerary
  <2>4. CASE Usable(constraints) /\ policy = "breach" /\ itinerary # NoPlan /\ SentBack
    <3>1. Result = [status |-> "draft", picks |-> itinerary.picks, ranked |-> ranked]
      BY <2>4 DEF Result, SentBack
    <3>2. constraints.budget # NoBudget /\ ~skipReparse
          /\ itinerary.picks \in PlainPicks(given, constraints)
      BY <2>4 DEF BreachInv, WithinBudget, SentBack, CriticInv
    <3> QED BY <2>4, <3>1, <3>2 DEF GenerateItinerary
  <2> QED BY <2>1, <2>2, <2>3, <2>4 DEF OutcomeInv
<1>4. Spec => [](TypeOK /\ TravelerOrderKept /\ GraphInv /\ BreachInv)
  BY GraphTypes, OrderIsKept, GraphInvariance, BreachInvariance, PTL
<1>5. Spec => []CriticInv
  BY CriticInvariance
<1> QED BY <1>1, <1>2, <1>3, <1>4, <1>5, PTL DEF Spec, GraphInv

-----------------------------------------------------------------------------
(* The critic's loop.                                                      *)

\* How far a node is from the end, if nothing is sent back.
NodesLeft == [end |-> 0, await_confirmation |-> 1, budget_agent |-> 1,
              reflect_itinerary |-> 2, compile_itinerary |-> 3, policy_check |-> 4,
              merge_results |-> 5, search_leisure_specialists |-> 6,
              search_business_specialists |-> 6, parse_intent |-> 7]

\* Each swap goes back to merge_results, three nodes before the critic.
StepsLeft == NodesLeft[node] + 4 * (MaxReflections - attempts)

\* Whatever the language model objects to, every node run brings the end of the graph
\* nearer, so that a run of it is at most 7 + 4 * MaxReflections nodes: the safety part of
\* Terminates (graph/itinerary_graph.py:1338).
THEOREM EveryNodeCounts ==
    Spec => /\ [](StepsLeft \in 0 .. 7 + 4 * MaxReflections)
            /\ [][StepsLeft' < StepsLeft]_vars
<1>1. TypeOK /\ [Next]_vars => [StepsLeft' < StepsLeft]_vars
  <2> SUFFICES ASSUME TypeOK, Next PROVE StepsLeft' < StepsLeft
    OBVIOUS
  <2>1. attempts \in Int /\ MaxReflections \in Int
    BY GraphOK DEF TypeOK
  <2> USE DEF StepsLeft, NodesLeft, inputVars, mergeVars, reflectVars
  <2>2. CASE ParseIntent
    BY <2>1, <2>2 DEF ParseIntent, RouteAfterParse
  <2>3. CASE SearchBusinessSpecialists \/ SearchLeisureSpecialists
    BY <2>1, <2>3 DEF SearchBusinessSpecialists, SearchLeisureSpecialists
  <2>4. CASE MergeResults
    BY <2>1, <2>4 DEF MergeResults
  <2>5. CASE PolicyCheck
    BY <2>1, <2>5 DEF PolicyCheck, RouteAfterPolicy
  <2>6. CASE BudgetAgent \/ CompileItinerary \/ AwaitConfirmation
    BY <2>1, <2>6 DEF BudgetAgent, CompileItinerary, AwaitConfirmation
  <2>7. CASE ReflectItinerary
    <3>1. node = "reflect_itinerary"
          /\ \/ node' = "await_confirmation" /\ attempts' = attempts
             \/ node' = "merge_results" /\ attempts' = attempts + 1
      BY <2>7 DEF ReflectItinerary, RouteAfterReflect, Swap
    <3> QED BY <2>1, <3>1
  <2> QED BY <2>2, <2>3, <2>4, <2>5, <2>6, <2>7 DEF Next
<1>2. TypeOK => StepsLeft \in 0 .. 7 + 4 * MaxReflections
  <2> SUFFICES ASSUME TypeOK PROVE StepsLeft \in 0 .. 7 + 4 * MaxReflections
    OBVIOUS
  <2>1. \A n \in Nodes : NodesLeft[n] \in 0 .. 7
    BY DEF Nodes, NodesLeft
  <2>2. NodesLeft[node] \in 0 .. 7 /\ attempts \in 0 .. MaxReflections /\ MaxReflections \in Nat
    BY <2>1, GraphOK DEF TypeOK
  <2> HIDE DEF NodesLeft
  <2> QED BY <2>2 DEF StepsLeft
<1> QED BY <1>1, <1>2, GraphTypes, PTL DEF Spec
=============================================================================
