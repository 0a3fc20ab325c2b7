-------------------------- MODULE ItineraryWorkflow --------------------------
(***************************************************************************)
(* The Temporal workflow that plans one trip and holds it for the          *)
(* traveler's review (activities/itinerary_workflow.py).                   *)
(*                                                                         *)
(* The run() coroutine awaits activities; between two awaits it is atomic, *)
(* and signals (confirm, reject, request_changes, rate_segment) may be     *)
(* delivered at every await until the workflow closes.  One action below   *)
(* is one activity completion, one signal, or one turn of the review loop. *)
(* An activity is executed at least once and at most MaxAttempts times;    *)
(* what the model keeps of that is the outcome: success, or exhaustion     *)
(* after an attempt whose effect may or may not have reached the outside.  *)
(***************************************************************************)
EXTENDS Naturals, Sequences, TaskQueues, TripPlans

CONSTANTS
    Listings,     \* Listings[s]: what section s's search may leave run() with
    Intents,      \* the constraints a goal may be parsed into
    Edits,        \* what request_changes may carry
    Ratings,      \* what rate_segment may carry
    MaxEdits,     \* bound: request_changes signals sent
    MaxRatings,   \* bound: rate_segment signals sent
    NoEdit, NoItinerary

EditableSections == Sections \cup {"budget"}

EditRecord == [section : EditableSections \cup {"other"},
               candidate : Candidates \cup {NoCandidate},
               budget : Budgets \cup {NoBudget}]

RatingRecord == [section : Sections \cup {"other"},
                 candidate : Candidates, stars : Nat]

ASSUME ConstantsOK ==
    /\ \A s \in Sections : \A l \in Listings[s] : ListingOK(l)
    /\ Intents \subseteq Constraints
    /\ Edits \subseteq EditRecord
    /\ Ratings \subseteq RatingRecord
    /\ MaxEdits \in Nat /\ MaxRatings \in Nat
    /\ NoEdit \notin EditRecord
    /\ NoItinerary \notin Itineraries

VARIABLES
    stage,           \* the await run() is suspended at
    outcome,         \* the status of the last metric run() decided to record
    structured,      \* the caller supplied origin, destination and dates
    found,           \* run()'s flights, hotels, restaurants, attractions
    replies,         \* _replies
    constraints,     \* _constraints
    itinerary,       \* _itinerary
    confirmed,       \* _confirmed
    rejected,        \* _rejected
    pendingEdit,     \* _pending_edit
    pendingRatings,  \* _pending_ratings
    editLog,         \* _edit_log
    errors,          \* run()'s errors, those of searches left out
    metrics,         \* statuses counted by the metrics activity
    feedback,        \* signals learned by the ranking feedback activity
    trip,            \* the record in the trip store
    sent             \* bound: signals sent so far

signalVars == <<confirmed, rejected, pendingEdit, pendingRatings, sent>>
planVars   == <<structured, found, replies, constraints, itinerary, editLog, errors>>
worldVars  == <<metrics, feedback, trip>>
vars == <<stage, outcome, signalVars, planVars, worldVars>>

Outcomes == {"started", "error", "rejected", "review_timed_out", "confirmed"}

\* Where run() goes on after each kind of ranking feedback.
AfterFeedback == [confirm_feedback |-> "persist", reject_feedback |-> "done",
                  edit_feedback |-> "regenerate", rating_feedback |-> "review"]

Stages == {"metric", "parse", "flight", "hotel", "local", "generate", "review",
           "regenerate", "persist", "done", "failed"} \cup DOMAIN AfterFeedback

Closed == stage \in {"done", "failed"}

\* run() is suspended at s, and the workers it waits for are there.
At(s) == stage = s /\ Served(s)
-----------------------------------------------------------------------------
\* The candidates in _replies whose dict carries a rank_arm.  rank_candidates
\* stamps copies inside the generation activity; no search activity stamps.
Attributed(s) == {}
-----------------------------------------------------------------------------
Init ==
    /\ stage = "metric" /\ outcome = "started"
    /\ structured \in BOOLEAN
    /\ found = [s \in Sections |-> <<>>]
    /\ replies = [s \in Sections |-> <<>>]
    /\ constraints = Unresolved
    /\ itinerary = NoItinerary
    /\ confirmed = FALSE /\ rejected = FALSE
    /\ pendingEdit = NoEdit /\ pendingRatings = <<>>
    /\ editLog = <<>> /\ errors = {}
    /\ metrics = {} /\ feedback = {} /\ trip = NoItinerary
    /\ sent = [edits |-> 0, ratings |-> 0]

-----------------------------------------------------------------------------
(* Signals.  The server refuses them once the workflow has closed.         *)

Confirm ==
    /\ ~Closed
    /\ confirmed' = TRUE
    /\ UNCHANGED <<stage, outcome, rejected, pendingEdit, pendingRatings, sent,
                   planVars, worldVars>>

Reject ==
    /\ ~Closed
    /\ rejected' = TRUE
    /\ UNCHANGED <<stage, outcome, confirmed, pendingEdit, pendingRatings, sent,
                   planVars, worldVars>>

\* Mutant: no check of the section's name.
RequestAnyChanges ==
    /\ ~Closed /\ sent.edits < MaxEdits
    /\ pendingEdit' \in Edits
    /\ sent' = [sent EXCEPT !.edits = @ + 1]
    /\ UNCHANGED <<stage, outcome, confirmed, rejected, pendingRatings,
                   planVars, worldVars>>

\* One slot: a second edit replaces one that is still waiting.
RequestChanges ==
    /\ ~Closed /\ sent.edits < MaxEdits
    /\ \E e \in Edits :
          pendingEdit' = IF e.section \in EditableSections THEN e ELSE pendingEdit
    /\ sent' = [sent EXCEPT !.edits = @ + 1]
    /\ UNCHANGED <<stage, outcome, confirmed, rejected, pendingRatings,
                   planVars, worldVars>>

RateSegment ==
    /\ ~Closed /\ sent.ratings < MaxRatings
    /\ \E r \in Ratings :
          pendingRatings' = IF r.section \in Sections /\ r.stars \in 1..5
                            THEN Append(pendingRatings, r) ELSE pendingRatings
    /\ sent' = [sent EXCEPT !.ratings = @ + 1]
    /\ UNCHANGED <<stage, outcome, confirmed, rejected, pendingEdit,
                   planVars, worldVars>>

-----------------------------------------------------------------------------
(* Metrics.  _record_metric is awaited outside any try: exhausting its     *)
(* attempts fails the workflow.                                            *)

ItineraryEvents(it) == {s \in it.ranked : it.picks[s] # NoCandidate}

AfterMetric ==
    CASE outcome = "started" -> IF structured THEN "flight" ELSE "parse"
      [] outcome = "rejected" ->
            IF ItineraryEvents(itinerary) = {} THEN "done" ELSE "reject_feedback"
      [] outcome = "confirmed" ->
            IF ItineraryEvents(itinerary) = {} THEN "persist" ELSE "confirm_feedback"
      [] OTHER -> "done"

RecordMetric ==
    /\ At("metric")
    /\ metrics' = metrics \cup {outcome}
    /\ stage' = AfterMetric
    /\ UNCHANGED <<outcome, signalVars, planVars, feedback, trip>>

MetricExhausted ==
    /\ At("metric")
    /\ metrics' \in {metrics, metrics \cup {outcome}}
    /\ stage' = "failed"
    /\ UNCHANGED <<outcome, signalVars, planVars, feedback, trip>>

-----------------------------------------------------------------------------
(* Step 0: constraints from free text.                                     *)

\* What the parsing activity may make of the goal.
Parsed == Intents

ParseTripIntent ==
    /\ At("parse")
    /\ \E c \in Parsed :
          IF Usable(c)
          THEN /\ constraints' = c
               /\ stage' = "flight"
               /\ UNCHANGED outcome
          ELSE /\ stage' = "metric" /\ outcome' = "error"
               /\ UNCHANGED constraints
    /\ UNCHANGED <<signalVars, structured, found, replies, itinerary, editLog,
                   errors, worldVars>>

ParseTripIntentExhausted ==
    /\ At("parse")
    /\ stage' = "failed"
    /\ UNCHANGED <<outcome, signalVars, planVars, worldVars>>

-----------------------------------------------------------------------------
(* Step 1: the staged searches, each isolated from the others' failures: a *)
(* search that exhausts its attempts leaves run() with the empty list.     *)

\* What the search activity of a section may answer.
Searched(s) == Listings[s]

SearchFlight ==
    /\ At("flight")
    /\ \E l \in Searched("flight") : found' = [found EXCEPT !["flight"] = l]
    /\ stage' = "hotel"
    /\ UNCHANGED <<outcome, signalVars, structured, replies, constraints, itinerary,
                   editLog, errors, worldVars>>

SearchHotel ==
    /\ At("hotel")
    /\ \E l \in Searched("hotel") : found' = [found EXCEPT !["hotel"] = l]
    /\ stage' = "local"
    /\ UNCHANGED <<outcome, signalVars, structured, replies, constraints, itinerary,
                   editLog, errors, worldVars>>

\* gather(restaurant, attraction): run() resumes when both have ended.
SearchLocal ==
    /\ At("local")
    /\ \E lr \in Searched("restaurant"), la \in Searched("attraction") :
          found' = [found EXCEPT !["restaurant"] = lr, !["attraction"] = la]
    /\ replies' = found'
    /\ stage' = "generate"
    /\ UNCHANGED <<outcome, signalVars, structured, constraints, itinerary, editLog,
                   errors, worldVars>>

-----------------------------------------------------------------------------
(* Step 2: the first itinerary.  Structured input carries no purpose or    *)
(* budget, so the graph parses the goal itself and its constraints become  *)
(* the workflow's.                                                         *)

Generate ==
    /\ At("generate")
    /\ constraints' \in (IF structured THEN Intents ELSE {constraints})
    /\ itinerary' \in GenerateItinerary(replies, constraints', ~structured)
    /\ stage' = "review"
    /\ UNCHANGED <<outcome, signalVars, structured, found, replies, editLog, errors,
                   worldVars>>

GenerateExhausted ==
    /\ At("generate")
    /\ stage' = "metric" /\ outcome' = "error"
    /\ UNCHANGED <<signalVars, planVars, worldVars>>

-----------------------------------------------------------------------------
(* Step 3: the review loop.  Its order is rejection, ratings, edit,        *)
(* confirmation.                                                           *)

Answered == confirmed \/ rejected \/ pendingEdit # NoEdit \/ pendingRatings # <<>>

ReviewTimesOut ==
    /\ At("review") /\ ~Answered
    /\ stage' = "metric" /\ outcome' = "review_timed_out"
    /\ UNCHANGED <<signalVars, planVars, worldVars>>

TakeRejection ==
    /\ At("review") /\ rejected
    /\ stage' = "metric" /\ outcome' = "rejected"
    /\ UNCHANGED <<signalVars, planVars, worldVars>>

RatingEvents ==
    {r \in Elements(pendingRatings) :
        r.candidate \in Elements(replies[r.section]) \cap Attributed(r.section)}

\* Mutant: the list is read but not swapped out.
TakeRatingsKeepingThem ==
    /\ At("review") /\ ~rejected /\ pendingRatings # <<>>
    /\ stage' = IF RatingEvents = {} THEN "review" ELSE "rating_feedback"
    /\ UNCHANGED <<outcome, signalVars, planVars, worldVars>>

TakeRatings ==
    /\ At("review") /\ ~rejected /\ pendingRatings # <<>>
    /\ pendingRatings' = <<>>
    /\ stage' = IF RatingEvents = {} THEN "review" ELSE "rating_feedback"
    /\ UNCHANGED <<outcome, confirmed, rejected, pendingEdit, sent, planVars, worldVars>>

PickedIsAttributed(e) ==
    /\ e.section \in Sections
    /\ e.candidate \in Elements(replies[e.section]) \cap Attributed(e.section)

\* An edit of the "budget" section that names a candidate only adds an
\* unused empty section to _replies; an edit that names nothing re-runs.
ApplyEdit(e) ==
    IF e.section = "budget" /\ e.budget # NoBudget
    THEN /\ constraints' = [constraints EXCEPT !.budget = e.budget]
         /\ editLog' = Append(editLog, e)
         /\ stage' = "regenerate"
         /\ UNCHANGED replies
    ELSE IF e.candidate # NoCandidate
    THEN /\ replies' = IF e.section \in Sections
                       THEN [replies EXCEPT ![e.section] = ReorderToFront(@, e.candidate)]
                       ELSE replies
         /\ editLog' = Append(editLog, e)
         /\ stage' = IF PickedIsAttributed(e) THEN "edit_feedback" ELSE "regenerate"
         /\ UNCHANGED constraints
    ELSE /\ stage' = "regenerate"
         /\ UNCHANGED <<replies, constraints, editLog>>

TakeEdit ==
    /\ At("review") /\ ~rejected /\ pendingRatings = <<>> /\ pendingEdit # NoEdit
    /\ pendingEdit' = NoEdit
    /\ ApplyEdit(pendingEdit)
    /\ UNCHANGED <<outcome, confirmed, rejected, pendingRatings, sent, structured, found,
                   itinerary, errors, worldVars>>

\* Mutant: the re-run is given the lists as they were first found.
RegenerateFromSearch ==
    /\ At("regenerate")
    /\ itinerary' \in GenerateItinerary(found, constraints, TRUE)
    /\ stage' = "review"
    /\ UNCHANGED <<outcome, signalVars, structured, found, replies, constraints, editLog,
                   errors, worldVars>>

Regenerate ==
    /\ At("regenerate")
    /\ itinerary' \in GenerateItinerary(replies, constraints, TRUE)
    /\ stage' = "review"
    /\ UNCHANGED <<outcome, signalVars, structured, found, replies, constraints, editLog,
                   errors, worldVars>>

RegenerateExhausted ==
    /\ At("regenerate")
    /\ errors' = errors \cup {"edit_apply"}
    /\ stage' = "review"
    /\ UNCHANGED <<outcome, signalVars, structured, found, replies, constraints, itinerary,
                   editLog, worldVars>>

\* Mutants: confirmation is tested before edits; the trip is saved first.
TakeConfirmationFirst ==
    /\ At("review") /\ ~rejected /\ confirmed
    /\ stage' = "metric" /\ outcome' = "confirmed"
    /\ UNCHANGED <<signalVars, planVars, worldVars>>

PersistBeforeMetric ==
    /\ At("review") /\ ~rejected /\ pendingRatings = <<>> /\ pendingEdit = NoEdit
    /\ confirmed
    /\ stage' = "persist" /\ outcome' = "confirmed"
    /\ UNCHANGED <<signalVars, planVars, worldVars>>

TakeConfirmation ==
    /\ At("review") /\ ~rejected /\ pendingRatings = <<>> /\ pendingEdit = NoEdit
    /\ confirmed
    /\ stage' = "metric" /\ outcome' = "confirmed"
    /\ UNCHANGED <<signalVars, planVars, worldVars>>

-----------------------------------------------------------------------------
(* Ranking feedback: best effort, so exhaustion continues like success.    *)

RecordFeedback ==
    /\ stage \in DOMAIN AfterFeedback /\ At(stage)
    /\ feedback' \in {feedback, feedback \cup {stage}}
    /\ stage' = AfterFeedback[stage]
    /\ UNCHANGED <<outcome, signalVars, planVars, metrics, trip>>

\* Saves the confirmed itinerary; unlike feedback, exhaustion is not caught.
PersistTrip ==
    /\ At("persist")
    /\ trip' = itinerary
    /\ stage' = "done"
    /\ UNCHANGED <<outcome, signalVars, planVars, metrics, feedback>>

PersistTripExhausted ==
    /\ At("persist")
    /\ trip' \in {trip, itinerary}
    /\ stage' = "failed"
    /\ UNCHANGED <<outcome, signalVars, planVars, metrics, feedback>>

-----------------------------------------------------------------------------
Signal == Confirm \/ Reject \/ RequestChanges \/ RateSegment

Progress ==
    \/ RecordMetric \/ MetricExhausted
    \/ ParseTripIntent \/ ParseTripIntentExhausted
    \/ SearchFlight \/ SearchHotel \/ SearchLocal
    \/ Generate \/ GenerateExhausted
    \/ TakeRejection \/ TakeRatings \/ TakeEdit \/ TakeConfirmation
    \/ Regenerate \/ RegenerateExhausted
    \/ RecordFeedback \/ PersistTrip \/ PersistTripExhausted

Next == Signal \/ Progress \/ ReviewTimesOut

Spec == Init /\ [][Next]_vars

\* Workers poll their queues, the server times out and retries every attempt,
\* and the review timer is durable, so no await is left for ever once its
\* queues are served.  Travelers owe nothing: signals are not fair.
FairSpec == Spec /\ WF_vars(Progress) /\ WF_vars(ReviewTimesOut)
-----------------------------------------------------------------------------
\* The type of every variable; only edits of an editable section wait in
\* _pending_edit.
TypeOK ==
    /\ stage \in Stages /\ outcome \in Outcomes
    /\ structured \in BOOLEAN
    /\ found \in [Sections -> Seq(Candidates)]
    /\ replies \in [Sections -> Seq(Candidates)]
    /\ constraints \in Constraints
    /\ itinerary \in Itineraries \cup {NoItinerary}
    /\ confirmed \in BOOLEAN /\ rejected \in BOOLEAN
    /\ pendingEdit \in {e \in EditRecord : e.section \in EditableSections} \cup {NoEdit}
    /\ pendingRatings \in Seq(RatingRecord)
    /\ editLog \in Seq(EditRecord)
    /\ errors \subseteq {"edit_apply"}
    /\ metrics \subseteq Outcomes
    /\ feedback \subseteq DOMAIN AfterFeedback
    /\ trip \in Itineraries \cup {NoItinerary}
    /\ sent \in [edits : 0..MaxEdits, ratings : 0..MaxRatings]

\* Everything the outside keeps of a plan tells one story: at most one status
\* besides "started" is counted, a learned confirmation or rejection is the one
\* that was counted, and a stored trip is the confirmed, current itinerary.
AgreedOutcome ==
    /\ metrics \subseteq {"started", outcome}
    /\ "confirm_feedback" \in feedback => outcome = "confirmed" /\ outcome \in metrics
    /\ "reject_feedback" \in feedback => outcome = "rejected" /\ outcome \in metrics
    /\ trip # NoItinerary =>
         /\ confirmed /\ trip = itinerary
         /\ outcome = "confirmed" /\ outcome \in metrics

\* The edit log explains the lists: the last logged pick of a section that is in
\* its list heads it, whatever edits of other sections, failed re-runs and
\* overwritten edits came between.
EditLogExplainsOrder ==
    \A i \in DOMAIN editLog :
        LET s == editLog[i].section  c == editLog[i].candidate
        IN  (/\ s \in Sections /\ c \in Elements(replies[s])
             /\ \A j \in DOMAIN editLog : j > i => editLog[j].section # s)
            => replies[s][1] = c

\* "No data loss": through any number of edits each section keeps the candidates
\* its search found, so that every one stays available for a later edit.
NoCandidateLost ==
    itinerary # NoItinerary =>
        \A s \in Sections : /\ Elements(replies[s]) = Elements(found[s])
                            /\ Len(replies[s]) = Len(found[s])

LoggedPick(s) ==
    \E i \in DOMAIN editLog :
        editLog[i].section = s /\ editLog[i].candidate \in Elements(replies[s])

\* "Reordering is all a section edit needs": a successful re-run shows the pick of
\* every edited section, those whose own re-run had failed included.
RerunShowsPicks ==
    [][(stage = "regenerate" /\ itinerary' # itinerary
            /\ itinerary'.status = "awaiting_confirmation")
       => \A s \in Sections :
             LoggedPick(s) /\ ~(s = "attraction" /\ constraints.purpose = "business")
             => itinerary'.picks[s] = replies[s][1]]_vars

\* Whatever the traveler sends, the workflow ends: every wait is served, retried
\* to exhaustion or timed out.
Terminates == <>Closed

-----------------------------------------------------------------------------
(* What the comments say of the review flow and the code does not do.      *)

\* "Plans breaching budget are routed for approval before confirmation."
StoredWithinPolicy ==
    trip # NoItinerary => trip.status \notin {"needs_approval", "draft"}

\* A rating of a candidate the traveler was shown, in a section that was ranked,
\* is learned from; only unknown or unranked candidates are skipped.
RatingsAreLearned ==
    [][(pendingRatings # <<>> /\ pendingRatings' = <<>>
            /\ \E r \in Elements(pendingRatings) :
                  /\ r.section \in itinerary.ranked
                  /\ r.candidate \in Elements(replies[r.section]))
       => stage' = "rating_feedback"]_vars

-----------------------------------------------------------------------------
(* The workflow implements the review gate.                                *)

GatePhase ==
    CASE outcome = "confirmed" -> "accepted"
      [] outcome = "rejected" -> "declined"
      [] outcome = "review_timed_out" -> "expired"
      [] outcome = "error" \/ (outcome = "started" /\ stage = "failed") -> "ended"
      [] outcome = "started" /\ stage \in {"review", "rating_feedback", "edit_feedback",
                                           "regenerate"} -> "review"
      [] OTHER -> "planning"

RG == INSTANCE ReviewGate WITH
        Offers <- Itineraries, NoOffer <- NoItinerary,
        phase <- GatePhase, offer <- itinerary, stored <- trip,
        approval <- confirmed, refusal <- rejected,
        changes <- pendingEdit # NoEdit \/ stage \in {"edit_feedback", "regenerate"}

\* The gate's promises, its fairness included: a trip is stored only over an
\* approval, never over a refusal or an unsettled change request, and an offer is
\* eventually decided.
ImplementsGate == RG!FairGate
=============================================================================
