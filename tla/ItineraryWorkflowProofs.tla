----------------------- MODULE ItineraryWorkflowProofs -----------------------
(***************************************************************************)
(* What holds of ItineraryWorkflow for every set of candidates, edits,     *)
(* ratings and workers and every bound: type correctness, the agreement of *)
(* metrics, feedback and trip store, the facts about edited lists and the  *)
(* picks a re-run shows, and the safety part of the refinement of          *)
(* ReviewGate.                                                             *)
(***************************************************************************)
EXTENDS ItineraryWorkflow, CommonProofs

\* The generation activity returns a well-formed itinerary.
LEMMA GenerateReturnsItinerary ==
    ASSUME NEW r, NEW c, NEW skip, NEW it \in GenerateItinerary(r, c, skip)
    PROVE  it \in Itineraries
<1>1. Unpicked \in Picks
  BY DEF Unpicked, Picks
<1>2. PlainPicks(r, c) \subseteq Picks /\ CriticPicks(r, c) \subseteq Picks
  BY DEF PlainPicks, CriticPicks
<1>3. CASE ~Usable(c)
  BY <1>1, <1>3 DEF GenerateItinerary, Itineraries
<1>4. CASE Usable(c)
  BY <1>1, <1>2, <1>4 DEF GenerateItinerary, Itineraries
<1> QED BY <1>3, <1>4

PlanningStages == {"parse", "flight", "hotel", "local", "generate"}
ReviewStages == {"review", "rating_feedback", "edit_feedback", "regenerate"}

\* A status is decided before anything of it is recorded, and what each stage
\* waits for was decided by the stage before it.
OutcomeAgrees ==
    /\ stage \in PlanningStages \cup ReviewStages => outcome = "started"
    /\ stage \in {"confirm_feedback", "persist"} =>
         outcome = "confirmed" /\ outcome \in metrics /\ trip = NoItinerary
    /\ stage = "reject_feedback" => outcome = "rejected" /\ outcome \in metrics
    /\ outcome = "confirmed" => confirmed

\* Before a status is recorded nothing of it is outside.
NothingEarly ==
    stage \in PlanningStages \cup ReviewStages \cup {"metric"} =>
        /\ metrics \subseteq {"started"}
        /\ {"confirm_feedback", "reject_feedback"} \cap feedback = {}
        /\ trip = NoItinerary

Planning == stage \in PlanningStages \/ (stage = "metric" /\ outcome = "started")

\* Nothing is edited, and nothing is offered, before the first itinerary.
PlanningIsBlank == Planning => editLog = <<>> /\ itinerary = NoItinerary

\* Every review has an itinerary, and lists found by the searches.
ReviewHasOffer == stage \in ReviewStages => itinerary # NoItinerary

\* From the first itinerary on, each list holds what its search found.
ListsKept ==
    stage = "generate" \/ itinerary # NoItinerary =>
        \A s \in Sections : /\ Elements(replies[s]) = Elements(found[s])
                            /\ Len(replies[s]) = Len(found[s])

OutcomeInv == OutcomeAgrees /\ NothingEarly /\ AgreedOutcome

OfferInv == PlanningIsBlank /\ ReviewHasOffer
-----------------------------------------------------------------------------
(* Type correctness.                                                       *)

LEMMA StageNames ==
    /\ DOMAIN AfterFeedback =
         {"confirm_feedback", "reject_feedback", "edit_feedback", "rating_feedback"}
    /\ \A s \in DOMAIN AfterFeedback : AfterFeedback[s] \in Stages
BY DEF AfterFeedback, Stages

LEMMA InitTypeOK == Init => TypeOK
<1> SUFFICES ASSUME Init PROVE TypeOK
  OBVIOUS
<1> USE ConstantsOK, PlansOK
<1>1. [s \in Sections |-> <<>>] \in [Sections -> Seq(Candidates)]
  OBVIOUS
<1>2. Unresolved \in Constraints
  BY DEF Unresolved, Constraints
<1>3. [edits |-> 0, ratings |-> 0] \in [edits : 0..MaxEdits, ratings : 0..MaxRatings]
  OBVIOUS
<1>4. stage \in Stages /\ outcome \in Outcomes
  BY DEF Init, Stages, Outcomes
<1>5. <<>> \in Seq(RatingRecord) /\ <<>> \in Seq(EditRecord)
  OBVIOUS
<1> QED BY <1>1, <1>2, <1>3, <1>4, <1>5 DEF Init, TypeOK

LEMMA SignalTypeOK == TypeOK /\ Signal => TypeOK'
<1> SUFFICES ASSUME TypeOK, Signal PROVE TypeOK'
  OBVIOUS
<1> USE ConstantsOK, PlansOK
<1>1. CASE Confirm \/ Reject
  BY <1>1 DEF Confirm, Reject, TypeOK, planVars, worldVars
<1>2. CASE RequestChanges
  <2>1. pendingEdit' \in {e \in EditRecord : e.section \in EditableSections} \cup {NoEdit}
    BY <1>2 DEF RequestChanges, TypeOK
  <2>2. sent' \in [edits : 0..MaxEdits, ratings : 0..MaxRatings]
    BY <1>2 DEF RequestChanges, TypeOK
  <2> QED BY <1>2, <2>1, <2>2 DEF RequestChanges, TypeOK, planVars, worldVars
<1>3. CASE RateSegment
  <2>1. pendingRatings' \in Seq(RatingRecord)
    <3>1. PICK r \in Ratings :
            pendingRatings' = IF r.section \in Sections /\ r.stars \in 1..5
                              THEN Append(pendingRatings, r) ELSE pendingRatings
      BY <1>3 DEF RateSegment
    <3>2. r \in RatingRecord
      OBVIOUS
    <3> QED BY <3>1, <3>2, AppendProperties DEF TypeOK
  <2>2. sent' \in [edits : 0..MaxEdits, ratings : 0..MaxRatings]
    <3>1. /\ sent \in [edits : 0..MaxEdits, ratings : 0..MaxRatings]
          /\ sent.ratings < MaxRatings
          /\ sent' = [sent EXCEPT !.ratings = @ + 1]
      BY <1>3 DEF RateSegment, TypeOK
    <3>2. sent.ratings + 1 \in 0..MaxRatings
      BY <3>1
    <3> QED BY <3>1, <3>2
  <2> QED BY <1>3, <2>1, <2>2 DEF RateSegment, TypeOK, planVars, worldVars
<1> QED BY <1>1, <1>2, <1>3 DEF Signal

LEMMA ReviewTypeOK == TypeOK /\ (TakeRatings \/ TakeEdit) => TypeOK'
<1> SUFFICES ASSUME TypeOK, TakeRatings \/ TakeEdit PROVE TypeOK'
  OBVIOUS
<1> USE ConstantsOK, PlansOK
<1>1. CASE TakeRatings
  <2>1. stage' \in Stages
    BY <1>1, StageNames DEF TakeRatings, Stages
  <2>2. <<>> \in Seq(RatingRecord)
    OBVIOUS
  <2> QED BY <1>1, <2>1, <2>2 DEF TakeRatings, TypeOK, planVars, worldVars
<1>2. CASE TakeEdit
  <2>1. pendingEdit \in EditRecord /\ ApplyEdit(pendingEdit)
    BY <1>2 DEF TakeEdit, TypeOK
  <2>2. stage' \in Stages
    BY <2>1, StageNames DEF ApplyEdit, Stages
  <2>3. editLog' \in Seq(EditRecord)
    <3>1. editLog' \in {editLog, Append(editLog, pendingEdit)}
      BY <2>1 DEF ApplyEdit
    <3>2. editLog \in Seq(EditRecord)
      BY DEF TypeOK
    <3>3. Append(editLog, pendingEdit) \in Seq(EditRecord)
      BY <2>1, <3>2, AppendProperties
    <3> QED BY <3>1, <3>2, <3>3
  <2>4. constraints' \in Constraints
    <3>1. CASE constraints' = constraints
      BY <3>1 DEF TypeOK
    <3>2. CASE constraints' = [constraints EXCEPT !.budget = pendingEdit.budget]
      <4>1. pendingEdit.budget \in Budgets \cup {NoBudget}
        BY <2>1 DEF EditRecord
      <4>2. constraints \in Constraints
        BY DEF TypeOK
      <4> QED BY <3>2, <4>1, <4>2 DEF Constraints
    <3> QED BY <2>1, <3>1, <3>2 DEF ApplyEdit
  <2>5. replies' \in [Sections -> Seq(Candidates)]
    <3>1. CASE replies' = replies
      BY <3>1 DEF TypeOK
    <3>2. CASE /\ pendingEdit.section \in Sections
               /\ replies' = [replies EXCEPT ![pendingEdit.section] =
                                ReorderToFront(@, pendingEdit.candidate)]
      <4>1. replies[pendingEdit.section] \in Seq(Candidates)
        BY <3>2 DEF TypeOK
      <4>2. ReorderToFront(replies[pendingEdit.section], pendingEdit.candidate)
              \in Seq(Candidates)
        BY <4>1, ReorderPermutes
      <4> QED BY <3>2, <4>2 DEF TypeOK
    <3> QED BY <2>1, <3>1, <3>2 DEF ApplyEdit
  <2> QED BY <1>2, <2>2, <2>3, <2>4, <2>5 DEF TakeEdit, TypeOK, worldVars
<1> QED BY <1>1, <1>2

LEMMA PlanningTypeOK ==
    TypeOK /\ (\/ RecordMetric \/ MetricExhausted
              \/ ParseTripIntent \/ ParseTripIntentExhausted
              \/ SearchFlight \/ SearchHotel \/ SearchLocal
              \/ Generate \/ GenerateExhausted) => TypeOK'
<1> USE ConstantsOK, PlansOK DEF signalVars, planVars, worldVars
<1>0. {"metric", "flight", "hotel", "local", "generate", "review", "failed"}
        \subseteq Stages /\ "error" \in Outcomes
  BY DEF Stages, Outcomes
<1>1. ASSUME TypeOK, RecordMetric \/ MetricExhausted PROVE TypeOK'
  <2>1. stage' \in Stages
    BY <1>0, <1>1 DEF RecordMetric, MetricExhausted, AfterMetric, Stages, AfterFeedback
  <2>2. metrics' \subseteq Outcomes
    BY <1>1 DEF RecordMetric, MetricExhausted, TypeOK
  <2> QED BY <1>1, <2>1, <2>2 DEF RecordMetric, MetricExhausted, TypeOK
<1>2. ASSUME TypeOK, ParseTripIntent PROVE TypeOK'
  <2>1. /\ stage' \in Stages /\ outcome' \in Outcomes
        /\ constraints' \in Constraints
    BY <1>0, <1>2 DEF ParseTripIntent, Parsed, TypeOK
  <2> QED BY <1>2, <2>1 DEF ParseTripIntent, TypeOK
<1>3. ASSUME TypeOK, ParseTripIntentExhausted \/ GenerateExhausted PROVE TypeOK'
  BY <1>0, <1>3 DEF ParseTripIntentExhausted, GenerateExhausted, TypeOK
<1>4. ASSUME NEW s \in Sections PROVE Searched(s) \subseteq Seq(Candidates)
  BY DEF Searched, ListingOK
<1>5. ASSUME TypeOK, SearchFlight PROVE TypeOK'
  <2>1. found' \in [Sections -> Seq(Candidates)]
    BY <1>4, <1>5 DEF SearchFlight, TypeOK, Sections
  <2> QED BY <1>0, <1>5, <2>1 DEF SearchFlight, TypeOK
<1>6. ASSUME TypeOK, SearchHotel PROVE TypeOK'
  <2>1. found' \in [Sections -> Seq(Candidates)]
    BY <1>4, <1>6 DEF SearchHotel, TypeOK, Sections
  <2> QED BY <1>0, <1>6, <2>1 DEF SearchHotel, TypeOK
<1>7. ASSUME TypeOK, SearchLocal PROVE TypeOK'
  <2>1. found' \in [Sections -> Seq(Candidates)]
    BY <1>4, <1>7 DEF SearchLocal, TypeOK, Sections
  <2> QED BY <1>0, <1>7, <2>1 DEF SearchLocal, TypeOK
<1>8. ASSUME TypeOK, Generate PROVE TypeOK'
  <2>1. constraints' \in Constraints
    BY <1>8 DEF Generate, TypeOK
  <2>2. itinerary' \in Itineraries
    BY <1>8, GenerateReturnsItinerary DEF Generate
  <2> QED BY <1>0, <1>8, <2>1, <2>2 DEF Generate, TypeOK
<1> QED BY <1>1, <1>2, <1>3, <1>5, <1>6, <1>7, <1>8

LEMMA ClosingTypeOK ==
    TypeOK /\ (\/ ReviewTimesOut \/ TakeRejection \/ TakeConfirmation
              \/ Regenerate \/ RegenerateExhausted
              \/ RecordFeedback \/ PersistTrip \/ PersistTripExhausted) => TypeOK'
<1> USE ConstantsOK, PlansOK DEF signalVars, planVars, worldVars
<1>0. /\ {"metric", "review", "done", "failed"} \subseteq Stages
      /\ {"review_timed_out", "rejected", "confirmed"} \subseteq Outcomes
  BY DEF Stages, Outcomes
<1>1. ASSUME TypeOK, ReviewTimesOut \/ TakeRejection \/ TakeConfirmation PROVE TypeOK'
  BY <1>0, <1>1 DEF ReviewTimesOut, TakeRejection, TakeConfirmation, TypeOK
<1>2. ASSUME TypeOK, Regenerate PROVE TypeOK'
  <2>1. itinerary' \in Itineraries
    BY <1>2, GenerateReturnsItinerary DEF Regenerate
  <2> QED BY <1>0, <1>2, <2>1 DEF Regenerate, TypeOK
<1>3. ASSUME TypeOK, RegenerateExhausted PROVE TypeOK'
  BY <1>0, <1>3 DEF RegenerateExhausted, TypeOK
<1>4. ASSUME TypeOK, RecordFeedback PROVE TypeOK'
  <2>1. stage' \in Stages
    BY <1>4, StageNames DEF RecordFeedback
  <2>2. feedback' \subseteq DOMAIN AfterFeedback
    BY <1>4 DEF RecordFeedback, TypeOK
  <2> QED BY <1>4, <2>1, <2>2 DEF RecordFeedback, TypeOK
<1>5. ASSUME TypeOK, PersistTrip \/ PersistTripExhausted PROVE TypeOK'
  BY <1>0, <1>5 DEF PersistTrip, PersistTripExhausted, TypeOK
<1> QED BY <1>1, <1>2, <1>3, <1>4, <1>5

LEMMA NextTypeOK == TypeOK /\ [Next]_vars => TypeOK'
<1>1. TypeOK /\ UNCHANGED vars => TypeOK'
  BY DEF TypeOK, vars, signalVars, planVars, worldVars
<1> QED BY <1>1, SignalTypeOK, ReviewTypeOK, PlanningTypeOK, ClosingTypeOK
        DEF Next, Progress

\* Every variable keeps its type; in particular what waits in _pending_edit is an
\* edit of a section request_changes accepts, so that applying it never fails.
THEOREM TypeCorrect == Spec => []TypeOK
BY InitTypeOK, NextTypeOK, PTL DEF Spec

-----------------------------------------------------------------------------
(* The outside agrees on the outcome.                                      *)

LEMMA InitOutcome == Init => OutcomeInv
BY DEF Init, OutcomeInv, OutcomeAgrees, NothingEarly, AgreedOutcome,
       PlanningStages, ReviewStages

\* Signals touch nothing the outside keeps, and approval is never withdrawn.
LEMMA SignalOutcome == OutcomeInv /\ Signal => OutcomeInv'
<1> SUFFICES ASSUME OutcomeInv, Signal PROVE OutcomeInv'
  OBVIOUS
<1>1. UNCHANGED <<stage, outcome, itinerary, metrics, feedback, trip>>
  BY DEF Signal, Confirm, Reject, RequestChanges, RateSegment, planVars, worldVars
<1>2. confirmed => confirmed'
  BY DEF Signal, Confirm, Reject, RequestChanges, RateSegment
<1> QED BY <1>1, <1>2 DEF OutcomeInv, OutcomeAgrees, NothingEarly, AgreedOutcome

LEMMA NextOutcome == OutcomeInv /\ [Next]_vars => OutcomeInv'
<1> SUFFICES ASSUME OutcomeInv, [Next]_vars PROVE OutcomeInv'
  OBVIOUS
<1> USE DEF OutcomeInv, OutcomeAgrees, NothingEarly, AgreedOutcome, PlanningStages,
            ReviewStages, signalVars, planVars, worldVars, At
<1>1. CASE Signal
  BY <1>1, SignalOutcome
<1>2. CASE RecordMetric
  BY <1>2 DEF RecordMetric, AfterMetric
<1>3. CASE MetricExhausted
  BY <1>3 DEF MetricExhausted
<1>4. CASE ParseTripIntent \/ ParseTripIntentExhausted
  BY <1>4 DEF ParseTripIntent, ParseTripIntentExhausted
<1>5. CASE SearchFlight \/ SearchHotel \/ SearchLocal
  BY <1>5 DEF SearchFlight, SearchHotel, SearchLocal
<1>6. CASE Generate \/ GenerateExhausted
  BY <1>6 DEF Generate, GenerateExhausted
<1>7. CASE TakeRejection \/ TakeConfirmation \/ ReviewTimesOut
  BY <1>7 DEF TakeRejection, TakeConfirmation, ReviewTimesOut
<1>8. CASE TakeRatings \/ TakeEdit
  <2>1. stage = "review" /\ stage' \in ReviewStages
    BY <1>8 DEF TakeRatings, TakeEdit, ApplyEdit
  <2> QED BY <1>8, <2>1 DEF TakeRatings, TakeEdit
<1>9. CASE Regenerate \/ RegenerateExhausted
  BY <1>9 DEF Regenerate, RegenerateExhausted
<1>10. CASE RecordFeedback
  <2>1. \/ stage = "confirm_feedback" /\ stage' = "persist"
        \/ stage = "reject_feedback" /\ stage' = "done"
        \/ stage = "edit_feedback" /\ stage' = "regenerate"
        \/ stage = "rating_feedback" /\ stage' = "review"
    BY <1>10 DEF RecordFeedback, AfterFeedback
  <2> QED BY <1>10, <2>1 DEF RecordFeedback
<1>11. CASE PersistTrip \/ PersistTripExhausted
  BY <1>11 DEF PersistTrip, PersistTripExhausted
<1>12. CASE UNCHANGED vars
  BY <1>12 DEF vars
<1> QED BY <1>1, <1>2, <1>3, <1>4, <1>5, <1>6, <1>7, <1>8, <1>9, <1>10, <1>11, <1>12
        DEF Next, Progress

\* Metrics, learned feedback and the trip store never contradict each other,
\* whichever activities fail and however late the signals come.
THEOREM OutcomeAgreed == Spec => []AgreedOutcome
<1>1. OutcomeInv => AgreedOutcome
  BY DEF OutcomeInv
<1> QED BY <1>1, InitOutcome, NextOutcome, PTL DEF Spec

-----------------------------------------------------------------------------
(* No edit before the first itinerary, no review without one.              *)

LEMMA ItineraryIsNotNone ==
    ASSUME NEW r, NEW c, NEW skip, NEW it \in GenerateItinerary(r, c, skip)
    PROVE  it # NoItinerary
BY GenerateReturnsItinerary, ConstantsOK

LEMMA NextOffer == OutcomeInv /\ OfferInv /\ [Next]_vars => OfferInv'
<1> SUFFICES ASSUME OutcomeInv, OfferInv, [Next]_vars PROVE OfferInv'
  OBVIOUS
<1> USE DEF OfferInv, PlanningIsBlank, ReviewHasOffer, Planning, PlanningStages,
            ReviewStages, signalVars, planVars, worldVars, At
<1>1. CASE Signal
  BY <1>1 DEF Signal, Confirm, Reject, RequestChanges, RateSegment
<1>2. CASE RecordMetric
  <2>1. stage = "metric" /\ (stage' \in {"flight", "parse"} => outcome = "started")
        /\ stage' \in {"flight", "parse", "done", "reject_feedback", "persist",
                       "confirm_feedback"}
    BY <1>2 DEF RecordMetric, AfterMetric
  <2> QED BY <1>2, <2>1 DEF RecordMetric
<1>3. CASE MetricExhausted
  BY <1>3 DEF MetricExhausted
<1>4. CASE ParseTripIntent \/ ParseTripIntentExhausted
  BY <1>4 DEF ParseTripIntent, ParseTripIntentExhausted
<1>5. CASE SearchFlight \/ SearchHotel \/ SearchLocal
  BY <1>5 DEF SearchFlight, SearchHotel, SearchLocal
<1>6. CASE Generate
  <2>1. itinerary' # NoItinerary
    BY <1>6, ItineraryIsNotNone DEF Generate
  <2> QED BY <1>6, <2>1 DEF Generate
<1>7. CASE GenerateExhausted \/ TakeRejection \/ TakeConfirmation \/ ReviewTimesOut
  BY <1>7 DEF GenerateExhausted, TakeRejection, TakeConfirmation, ReviewTimesOut
<1>8. CASE TakeRatings \/ TakeEdit
  <2>1. stage = "review" /\ stage' \in ReviewStages /\ UNCHANGED itinerary
    BY <1>8 DEF TakeRatings, TakeEdit, ApplyEdit
  <2> QED BY <2>1
<1>9. CASE Regenerate
  <2>1. itinerary' # NoItinerary
    BY <1>9, ItineraryIsNotNone DEF Regenerate
  <2> QED BY <1>9, <2>1 DEF Regenerate
<1>10. CASE RegenerateExhausted
  BY <1>10 DEF RegenerateExhausted
<1>11. CASE RecordFeedback
  <2>1. \/ stage = "confirm_feedback" /\ stage' = "persist"
        \/ stage = "reject_feedback" /\ stage' = "done"
        \/ stage = "edit_feedback" /\ stage' = "regenerate"
        \/ stage = "rating_feedback" /\ stage' = "review"
    BY <1>11 DEF RecordFeedback, AfterFeedback
  <2> QED BY <1>11, <2>1 DEF RecordFeedback
<1>12. CASE PersistTrip \/ PersistTripExhausted
  BY <1>12 DEF PersistTrip, PersistTripExhausted
<1>13. CASE UNCHANGED vars
  BY <1>13 DEF vars
<1> QED BY <1>1, <1>2, <1>3, <1>4, <1>5, <1>6, <1>7, <1>8, <1>9, <1>10, <1>11, <1>12,
           <1>13 DEF Next, Progress

LEMMA InitOffer == Init => OfferInv
BY DEF Init, OfferInv, PlanningIsBlank, ReviewHasOffer, ReviewStages

-----------------------------------------------------------------------------
(* Edits keep every candidate and are explained by the log.                *)

ListsInv == ListsKept /\ EditLogExplainsOrder

LEMMA InitLists == Init => ListsInv
BY DEF Init, ListsInv, ListsKept, EditLogExplainsOrder

\* What no edit is applied by, and no search: both facts carry over.
LEMMA ListsUntouched ==
    ASSUME ListsInv, UNCHANGED <<found, replies, editLog>>,
           stage' = "generate" \/ itinerary' # NoItinerary
             => stage = "generate" \/ itinerary # NoItinerary
    PROVE  ListsInv'
BY DEF ListsInv, ListsKept, EditLogExplainsOrder

\* The one search whose results become _replies runs before any edit.
LEMMA SearchLists ==
    ASSUME OfferInv, SearchFlight \/ SearchHotel \/ SearchLocal
    PROVE  ListsInv'
<1>1. editLog' = <<>> /\ itinerary' = NoItinerary
  BY DEF SearchFlight, SearchHotel, SearchLocal, At, OfferInv, PlanningIsBlank, Planning,
         PlanningStages
<1>2. stage' = "generate" => replies' = found'
  BY DEF SearchFlight, SearchHotel, SearchLocal
<1> QED BY <1>1, <1>2 DEF ListsInv, ListsKept, EditLogExplainsOrder

\* Applying an edit permutes one list and logs what it did.
LEMMA EditLists ==
    ASSUME TypeOK, OfferInv, ListsInv, TakeEdit
    PROVE  ListsInv'
<1> DEFINE e == pendingEdit
<1>1. /\ e \in EditRecord /\ ApplyEdit(e)
      /\ UNCHANGED <<found, itinerary>> /\ itinerary # NoItinerary
  BY ConstantsOK DEF TakeEdit, TypeOK, OfferInv, ReviewHasOffer, ReviewStages, At
<1>2. CASE replies' = replies /\ editLog' = editLog
  <2>1. stage = "review" /\ stage' # "generate"
    BY <1>1 DEF TakeEdit, ApplyEdit, At
  <2> QED BY <1>1, <1>2, <2>1, ListsUntouched
<1> DEFINE s == e.section
           n == Len(editLog)
<1>3. editLog \in Seq(EditRecord) /\ n \in Nat /\ DOMAIN editLog = 1..n
  BY DEF TypeOK
<1>4. CASE editLog' = Append(editLog, e)
  <2>1. /\ editLog' \in Seq(EditRecord) /\ DOMAIN editLog' = 1..(n + 1)
        /\ editLog'[n + 1] = e
        /\ \A i \in 1..n : editLog'[i] = editLog[i]
    BY <1>1, <1>3, <1>4, AppendProperties
  <2>2. \A t \in Sections : /\ Elements(replies'[t]) = Elements(found[t])
                            /\ Len(replies'[t]) = Len(found[t])
                            /\ t # s => replies'[t] = replies[t]
                            /\ t = s /\ e.candidate \in Elements(replies'[t])
                                 => replies'[t][1] = e.candidate
    <3> SUFFICES ASSUME NEW t \in Sections
                 PROVE  /\ Elements(replies'[t]) = Elements(found[t])
                        /\ Len(replies'[t]) = Len(found[t])
                        /\ t # s => replies'[t] = replies[t]
                        /\ t = s /\ e.candidate \in Elements(replies'[t])
                             => replies'[t][1] = e.candidate
      OBVIOUS
    <3>1. Elements(replies[t]) = Elements(found[t]) /\ Len(replies[t]) = Len(found[t])
      BY <1>1 DEF ListsInv, ListsKept
    <3>2. \/ replies' = replies /\ s \notin Sections
          \/ /\ s \in Sections
             /\ replies' = [replies EXCEPT ![s] = ReorderToFront(@, e.candidate)]
      <4>1. Append(editLog, e) # editLog
        <5>1. n + 1 \in DOMAIN Append(editLog, e) /\ n + 1 \notin DOMAIN editLog
          BY <1>3, <1>4, <2>1
        <5> QED BY <5>1
      <4> QED BY <1>1, <1>4, <4>1 DEF ApplyEdit, Sections
    <3>3. replies \in [Sections -> Seq(Candidates)] /\ replies[t] \in Seq(Candidates)
      BY DEF TypeOK
    <3>4. t # s => replies'[t] = replies[t]
      BY <3>2, <3>3
    <3>5. t = s => replies'[t] = ReorderToFront(replies[t], e.candidate)
      BY <3>2, <3>3
    <3> QED BY <3>1, <3>3, <3>4, <3>5, ReorderPermutes
  <2>3. ListsKept'
    BY <1>1, <2>2 DEF ListsKept
  <2>4. EditLogExplainsOrder'
    <3> SUFFICES ASSUME NEW i \in 1..(n + 1),
                        editLog'[i].section \in Sections,
                        editLog'[i].candidate \in Elements(replies'[editLog'[i].section]),
                        \A j \in 1..(n + 1) :
                            j > i => editLog'[j].section # editLog'[i].section
                 PROVE  replies'[editLog'[i].section][1] = editLog'[i].candidate
      BY <2>1 DEF EditLogExplainsOrder
    <3>1. CASE i = n + 1
      BY <3>1, <2>1, <2>2
    <3>2. CASE i \in 1..n
      <4>1. editLog'[i] = editLog[i] /\ editLog[i].section # s
        BY <3>2, <1>3, <2>1
      <4>2. \A j \in 1..n : j > i => editLog[j].section # editLog[i].section
        BY <3>2, <1>3, <2>1
      <4>3. replies'[editLog[i].section] = replies[editLog[i].section]
        BY <4>1, <2>2
      <4> QED BY <3>2, <4>1, <4>2, <4>3, <1>3 DEF ListsInv, EditLogExplainsOrder
    <3> QED BY <3>1, <3>2, <1>3
  <2> QED BY <2>3, <2>4 DEF ListsInv
<1> QED BY <1>1, <1>2, <1>4 DEF ApplyEdit

LEMMA NextLists == TypeOK /\ OfferInv /\ ListsInv /\ [Next]_vars => ListsInv'
<1> SUFFICES ASSUME TypeOK, OfferInv, ListsInv, [Next]_vars PROVE ListsInv'
  OBVIOUS
<1>1. CASE SearchFlight \/ SearchHotel \/ SearchLocal
  BY <1>1, SearchLists
<1>2. CASE TakeEdit
  BY <1>2, EditLists
<1> USE DEF signalVars, planVars, worldVars, At
<1>3. CASE Signal
  BY <1>3, ListsUntouched DEF Signal, Confirm, Reject, RequestChanges, RateSegment
<1>4. CASE RecordMetric \/ MetricExhausted
  BY <1>4, ListsUntouched DEF RecordMetric, MetricExhausted, AfterMetric
<1>5. CASE ParseTripIntent \/ ParseTripIntentExhausted
  BY <1>5, ListsUntouched DEF ParseTripIntent, ParseTripIntentExhausted
<1>6. CASE Generate \/ GenerateExhausted
  BY <1>6, ListsUntouched DEF Generate, GenerateExhausted
<1>7. CASE TakeRejection \/ TakeConfirmation \/ ReviewTimesOut
  BY <1>7, ListsUntouched DEF TakeRejection, TakeConfirmation, ReviewTimesOut
<1>8. CASE TakeRatings
  BY <1>8, ListsUntouched DEF TakeRatings
<1>9. CASE Regenerate \/ RegenerateExhausted
  <2>1. itinerary # NoItinerary
    BY <1>9 DEF Regenerate, RegenerateExhausted, OfferInv, ReviewHasOffer, ReviewStages
  <2> QED BY <1>9, <2>1, ListsUntouched DEF Regenerate, RegenerateExhausted
<1>10. CASE RecordFeedback
  BY <1>10, ListsUntouched DEF RecordFeedback, AfterFeedback
<1>11. CASE PersistTrip \/ PersistTripExhausted
  BY <1>11, ListsUntouched DEF PersistTrip, PersistTripExhausted
<1>12. CASE UNCHANGED vars
  BY <1>12, ListsUntouched DEF vars
<1> QED BY <1>1, <1>2, <1>3, <1>4, <1>5, <1>6, <1>7, <1>8, <1>9, <1>10, <1>11, <1>12
        DEF Next, Progress

\* The inductive invariant: types, outcome, offer and lists together.
LEMMA Invariance == Spec => [](TypeOK /\ OutcomeInv /\ OfferInv /\ ListsInv)
BY InitTypeOK, NextTypeOK, InitOutcome, NextOutcome, InitOffer, NextOffer,
   InitLists, NextLists, PTL DEF Spec

\* However many edits are applied, fail in their re-run or are overwritten in their
\* slot, each edited list is headed by the last logged pick it contains.
THEOREM OrderExplained == Spec => []EditLogExplainsOrder
<1>1. ListsInv => EditLogExplainsOrder
  BY DEF ListsInv
<1> QED BY <1>1, Invariance, PTL

\* No sequence of edits loses a candidate of a search or duplicates one.
THEOREM CandidatesKept == Spec => []NoCandidateLost
<1>1. ListsInv => NoCandidateLost
  BY DEF ListsInv, ListsKept, NoCandidateLost
<1> QED BY <1>1, Invariance, PTL

\* On the ranking arm that keeps a list's order, a re-run that succeeds shows the head
\* of every list the edit log mentions: the pick that reordering brought there.  The
\* bandit arm sorts the list again, so that nothing of the kind holds for it.
THEOREM PicksAreShown == ASSUME ~Bandit PROVE Spec => RerunShowsPicks
<1>1. ASSUME [Next]_vars, stage = "regenerate", itinerary' # itinerary,
             itinerary'.status = "awaiting_confirmation",
             NEW s \in Sections, LoggedPick(s),
             ~(s = "attraction" /\ constraints.purpose = "business")
      PROVE  itinerary'.picks[s] = replies[s][1]
  <2>1. Regenerate
    BY <1>1 DEF Next, Signal, Progress, Confirm, Reject, RequestChanges, RateSegment,
                RecordMetric, MetricExhausted, ParseTripIntent, ParseTripIntentExhausted,
                SearchFlight, SearchHotel, SearchLocal, Generate, GenerateExhausted,
                TakeRejection, TakeRatings, TakeEdit, TakeConfirmation, RegenerateExhausted,
                RecordFeedback, PersistTrip, PersistTripExhausted, ReviewTimesOut,
                At, vars, planVars
  <2>2. itinerary' \in GenerateItinerary(replies, constraints, TRUE)
    BY <2>1 DEF Regenerate
  <2>3. PICK p \in PlainPicks(replies, constraints) : itinerary'.picks = p
    BY <1>1, <2>2 DEF GenerateItinerary
  <2>4. p[s] \in Shown(s, replies[s], constraints)
    BY <2>3 DEF PlainPicks
  <2>5. ~Hidden(s, constraints) /\ replies[s] # <<>>
    BY <1>1 DEF Hidden, LoggedPick, Elements
  <2>6. p[s] \in {replies[s][1]}
    BY <2>4, <2>5 DEF Shown
  <2> QED BY <2>3, <2>6
<1>2. [Next]_vars =>
        [(stage = "regenerate" /\ itinerary' # itinerary
            /\ itinerary'.status = "awaiting_confirmation")
         => \A s \in Sections :
               LoggedPick(s) /\ ~(s = "attraction" /\ constraints.purpose = "business")
               => itinerary'.picks[s] = replies[s][1]]_vars
  BY <1>1
<1> QED BY <1>2, PTL DEF Spec, RerunShowsPicks

-----------------------------------------------------------------------------
(* The workflow implements the gate: every step is a step of the gate or a *)
(* stutter.                                                                *)

Unsettled == pendingEdit # NoEdit \/ stage \in {"edit_feedback", "regenerate"}

LEMMA InitGate == Init => RG!GateInit
BY DEF Init, RG!GateInit, GatePhase

\* A step that moves none of the gate's variables.
GateStutters ==
    UNCHANGED <<GatePhase, itinerary, confirmed, rejected, Unsettled, trip>>

LEMMA StutterIsGateStep == GateStutters => [RG!GateNext]_RG!gateVars
BY DEF GateStutters, Unsettled, RG!gateVars

LEMMA SignalIsGateStep == TypeOK /\ Signal => RG!Speak
<1> SUFFICES ASSUME TypeOK, Signal PROVE RG!Speak
  OBVIOUS
<1>1. UNCHANGED <<stage, outcome, itinerary, trip>>
  BY DEF Signal, Confirm, Reject, RequestChanges, RateSegment, planVars, worldVars
<1>2. /\ confirmed' \in {confirmed, TRUE} /\ rejected' \in {rejected, TRUE}
      /\ pendingEdit # NoEdit => pendingEdit' # NoEdit
  <2>1. CASE RequestChanges
    <3>1. PICK f \in Edits :
            pendingEdit' = IF f.section \in EditableSections THEN f ELSE pendingEdit
      BY <2>1 DEF RequestChanges
    <3>2. f # NoEdit
      BY ConstantsOK
    <3> QED BY <2>1, <3>1, <3>2 DEF RequestChanges
  <2>2. CASE Confirm \/ Reject \/ RateSegment
    BY <2>2 DEF Confirm, Reject, RateSegment
  <2> QED BY <2>1, <2>2 DEF Signal
<1>3. GatePhase' = GatePhase
  BY <1>1 DEF GatePhase
<1> QED BY <1>1, <1>2, <1>3 DEF RG!Speak

LEMMA PlanningIsGateStep ==
    ASSUME OutcomeInv, OfferInv,
           \/ RecordMetric \/ MetricExhausted
           \/ ParseTripIntent \/ ParseTripIntentExhausted
           \/ SearchFlight \/ SearchHotel \/ SearchLocal
           \/ Generate \/ GenerateExhausted
    PROVE  [RG!GateNext]_RG!gateVars
<1> USE DEF signalVars, planVars, worldVars, At, OutcomeInv, OutcomeAgrees,
            PlanningStages, ReviewStages
<1>1. CASE RecordMetric
  <2>1. stage = "metric" /\ stage' \notin ReviewStages \cup {"failed"}
        /\ UNCHANGED <<outcome, itinerary, confirmed, rejected, pendingEdit, trip>>
    BY <1>1 DEF RecordMetric, AfterMetric
  <2>2. GateStutters
    BY <2>1 DEF GateStutters, GatePhase, Unsettled
  <2> QED BY <2>2, StutterIsGateStep
<1>2. CASE \/ MetricExhausted
           \/ ParseTripIntent \/ ParseTripIntentExhausted
           \/ SearchFlight \/ SearchHotel \/ SearchLocal
           \/ GenerateExhausted
  <2>1. /\ UNCHANGED <<itinerary, confirmed, rejected, pendingEdit, trip>>
        /\ stage \in PlanningStages \cup {"metric"}
        /\ \/ outcome' = outcome /\ stage' \in PlanningStages \cup {"metric", "failed"}
           \/ outcome' = "error" /\ outcome = "started"
        /\ stage' \in PlanningStages \cup {"metric", "failed"}
    BY <1>2 DEF MetricExhausted, ParseTripIntent, ParseTripIntentExhausted, SearchFlight,
                SearchHotel, SearchLocal, GenerateExhausted
  <2>2. GatePhase' = GatePhase \/ (GatePhase = "planning" /\ GatePhase' = "ended")
    BY <2>1 DEF GatePhase
  <2>3. UNCHANGED Unsettled
    BY <2>1 DEF Unsettled
  <2>4. GateStutters \/ RG!GiveUp
    BY <2>1, <2>2, <2>3 DEF GateStutters, RG!GiveUp, Unsettled
  <2> QED BY <2>4, StutterIsGateStep DEF RG!GateNext
<1>3. CASE Generate
  <2>1. itinerary' \in Itineraries
    BY <1>3, GenerateReturnsItinerary DEF Generate
  <2>2. GatePhase = "planning" /\ GatePhase' = "review"
    BY <1>3 DEF Generate, GatePhase
  <2>3. RG!MakeOffer
    BY <1>3, <2>1, <2>2 DEF Generate, RG!MakeOffer
  <2> QED BY <2>3 DEF RG!GateNext
<1> QED BY <1>1, <1>2, <1>3

LEMMA ReviewIsGateStep ==
    ASSUME TypeOK, OutcomeInv, OfferInv,
           \/ ReviewTimesOut \/ TakeRejection \/ TakeRatings \/ TakeEdit
           \/ TakeConfirmation \/ Regenerate \/ RegenerateExhausted
    PROVE  [RG!GateNext]_RG!gateVars
<1> USE DEF signalVars, planVars, worldVars, At, ReviewStages
<1>0. outcome = "started" /\ itinerary \in Itineraries /\ GatePhase = "review"
  <2>1. stage \in {"review", "regenerate"}
    BY DEF ReviewTimesOut, TakeRejection, TakeRatings, TakeEdit, TakeConfirmation,
           Regenerate, RegenerateExhausted
  <2>2. outcome = "started" /\ itinerary \in Itineraries
    BY <2>1 DEF OutcomeInv, OutcomeAgrees, OfferInv, ReviewHasOffer, TypeOK
  <2> QED BY <2>1, <2>2 DEF GatePhase
<1>1. CASE ReviewTimesOut
  <2>1. RG!Expire
    BY <1>0, <1>1 DEF ReviewTimesOut, Answered, RG!Expire, GatePhase
  <2> QED BY <2>1 DEF RG!GateNext, RG!Decide
<1>2. CASE TakeRejection
  <2>1. RG!Decline
    BY <1>0, <1>2 DEF TakeRejection, RG!Decline, GatePhase
  <2> QED BY <2>1 DEF RG!GateNext, RG!Decide
<1>3. CASE TakeConfirmation
  <2>1. RG!Accept
    BY <1>0, <1>3 DEF TakeConfirmation, RG!Accept, GatePhase
  <2> QED BY <2>1 DEF RG!GateNext, RG!Decide
<1>4. CASE TakeRatings
  <2>1. /\ stage = "review" /\ stage' \in {"review", "rating_feedback"}
        /\ UNCHANGED <<outcome, itinerary, confirmed, rejected, pendingEdit, trip>>
    BY <1>4 DEF TakeRatings
  <2>2. GateStutters
    BY <1>0, <2>1 DEF GateStutters, GatePhase, Unsettled
  <2> QED BY <2>2, StutterIsGateStep
<1>5. CASE TakeEdit
  <2>1. /\ pendingEdit # NoEdit /\ stage' \in {"edit_feedback", "regenerate"}
        /\ UNCHANGED <<outcome, itinerary, confirmed, rejected, trip>>
    BY <1>5 DEF TakeEdit, ApplyEdit
  <2>2. GateStutters
    BY <1>0, <2>1 DEF GateStutters, GatePhase, Unsettled
  <2> QED BY <2>2, StutterIsGateStep
<1>6. CASE Regenerate \/ RegenerateExhausted
  <2>1. itinerary' \in Itineraries
    BY <1>0, <1>6, GenerateReturnsItinerary DEF Regenerate, RegenerateExhausted
  <2>2. RG!Revise
    BY <1>0, <1>6, <2>1 DEF Regenerate, RegenerateExhausted, RG!Revise, GatePhase
  <2> QED BY <2>2 DEF RG!GateNext
<1> QED BY <1>1, <1>2, <1>3, <1>4, <1>5, <1>6

LEMMA RecordingIsGateStep ==
    ASSUME OutcomeInv, RecordFeedback \/ PersistTrip \/ PersistTripExhausted
    PROVE  [RG!GateNext]_RG!gateVars
<1> USE DEF signalVars, planVars, worldVars, At, OutcomeInv, OutcomeAgrees, ReviewStages
<1>1. CASE RecordFeedback
  <2>1. \/ stage = "confirm_feedback" /\ stage' = "persist"
        \/ stage = "reject_feedback" /\ stage' = "done"
        \/ stage = "edit_feedback" /\ stage' = "regenerate"
        \/ stage = "rating_feedback" /\ stage' = "review"
    BY <1>1 DEF RecordFeedback, AfterFeedback
  <2>2. GateStutters
    BY <1>1, <2>1 DEF RecordFeedback, GateStutters, GatePhase, Unsettled
  <2> QED BY <2>2, StutterIsGateStep
<1>2. CASE PersistTrip \/ PersistTripExhausted
  <2>1. /\ stage = "persist" /\ outcome = "confirmed" /\ stage' \in {"done", "failed"}
        /\ trip' \in {trip, itinerary}
        /\ UNCHANGED <<outcome, itinerary, confirmed, rejected, pendingEdit>>
    BY <1>2 DEF PersistTrip, PersistTripExhausted
  <2>2. GatePhase = "accepted" /\ GatePhase' = "accepted" /\ UNCHANGED Unsettled
    BY <2>1 DEF GatePhase, Unsettled
  <2>3. GateStutters \/ RG!Store
    BY <2>1, <2>2 DEF GateStutters, RG!Store, Unsettled
  <2> QED BY <2>3, StutterIsGateStep DEF RG!GateNext
<1> QED BY <1>1, <1>2

\* The human-in-the-loop gate holds of the workflow as coded: a trip is stored only
\* over an approval, never over a refusal or with a change request unsettled, and
\* the review expires only on a traveler who has said nothing.
THEOREM GateImplemented == Spec => RG!Gate
<1>1. TypeOK /\ OutcomeInv /\ OfferInv /\ [Next]_vars => [RG!GateNext]_RG!gateVars
  <2> SUFFICES ASSUME TypeOK, OutcomeInv, OfferInv, [Next]_vars
               PROVE  [RG!GateNext]_RG!gateVars
    OBVIOUS
  <2>1. CASE UNCHANGED vars
    <3>1. GateStutters
      BY <2>1 DEF vars, signalVars, planVars, worldVars, GateStutters, GatePhase, Unsettled
    <3> QED BY <3>1, StutterIsGateStep
  <2>2. CASE Signal
    BY <2>2, SignalIsGateStep DEF RG!GateNext
  <2> QED BY <2>1, <2>2, PlanningIsGateStep, ReviewIsGateStep, RecordingIsGateStep
          DEF Next, Progress
<1> QED BY <1>1, InitGate, Invariance, PTL DEF Spec, RG!Gate

\* The gate never stores an offer that was not approved, and never lets a stored
\* offer be replaced afterwards.
THEOREM GateStoresAccepted == RG!Gate => []RG!StoredIsAccepted
<1> DEFINE I == /\ confirmed \in BOOLEAN /\ RG!StoredIsAccepted
                /\ GatePhase = "accepted" => confirmed
<1>1. RG!GateInit => I
  BY DEF RG!GateInit, RG!StoredIsAccepted
<1>2. I /\ [RG!GateNext]_RG!gateVars => I'
  <2> SUFFICES ASSUME I, [RG!GateNext]_RG!gateVars PROVE I'
    OBVIOUS
  <2> USE DEF RG!StoredIsAccepted
  <2>1. CASE RG!Speak
    <3>1. confirmed' = confirmed \/ confirmed' = TRUE
      BY <2>1 DEF RG!Speak
    <3>2. confirmed' \in BOOLEAN /\ (confirmed => confirmed')
      BY <3>1, Zenon
    <3>3. UNCHANGED <<GatePhase, itinerary, trip>>
      BY <2>1 DEF RG!Speak
    <3> QED BY <3>2, <3>3
  <2>2. CASE RG!MakeOffer \/ RG!GiveUp
    BY <2>2 DEF RG!MakeOffer, RG!GiveUp
  <2>3. CASE RG!Revise
    BY <2>3 DEF RG!Revise
  <2>4. CASE RG!Decide
    BY <2>4 DEF RG!Decide, RG!Accept, RG!Decline, RG!Expire
  <2>5. CASE RG!Store
    BY <2>5 DEF RG!Store
  <2>6. CASE UNCHANGED RG!gateVars
    BY <2>6 DEF RG!gateVars
  <2> QED BY <2>1, <2>2, <2>3, <2>4, <2>5, <2>6 DEF RG!GateNext
<1>3. I => RG!StoredIsAccepted
  OBVIOUS
<1> QED BY <1>1, <1>2, <1>3, PTL DEF RG!Gate

\* What run() stores is the plan it presents, over an approval, and stays so: the promise
\* of the gate, carried over to the code's own variables.
THEOREM TripWasAccepted == Spec => []RG!StoredIsAccepted
BY GateImplemented, GateStoresAccepted, PTL
=============================================================================
