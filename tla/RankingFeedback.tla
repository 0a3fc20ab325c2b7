--------------------------- MODULE RankingFeedback ---------------------------
(***************************************************************************)
(* The files personalised ranking learns through: one traveler's weights   *)
(* and event log (providers/ranking/file_store.py), the activity that      *)
(* writes them (record_ranking_feedback_activity) and the ranking of a     *)
(* plan's sections that reads them (providers/ranking/router.py).          *)
(*                                                                         *)
(* A job is one feedback activity of one of the traveler's workflows.  The *)
(* server executes it in up to MaxAttempts attempts; an attempt that is    *)
(* late is replaced while its coroutine still runs, so attempts of a job   *)
(* overlap like those of two jobs.  Every file operation is a call in a    *)
(* thread, and one action here.  Rewriting the weights is two: opening the *)
(* file empties it, closing it fills it.                                   *)
(*                                                                         *)
(* Weights are a function of the signals they were updated with, so they   *)
(* are represented by how often they learned each.                         *)
(***************************************************************************)
EXTENDS Naturals, Sequences, FiniteSets, FiniteSetsExt

CONSTANTS
    Jobs, Signals,
    Carried,      \* Carried[j]: the signals of job j's events, in order
    MaxAttempts,  \* maximum_attempts of the retry policy
    Assigned,     \* the arm select_arm gives the traveler
    Sections,     \* how many of a plan's sections have candidates
    MaxPlans,     \* bound: plans generated
    Empty, Torn   \* contents no read can parse: emptied, or parts of texts

Arms == {"primitive", "bandit"}

ASSUME ConstantsOK ==
    /\ IsFiniteSet(Jobs)
    /\ Carried \in [Jobs -> Seq(Signals)] /\ \A j \in Jobs : Carried[j] # <<>>
    /\ MaxAttempts \in Nat \ {0}
    /\ Assigned \in Arms
    /\ Sections \in Nat \ {0} /\ MaxPlans \in Nat

Learned == [Signals -> Nat]
ASSUME UnreadableOK == Empty \notin Learned /\ Torn \notin Learned /\ Empty # Torn

Attempts == Jobs \X (1..MaxAttempts)

VARIABLES
    file,     \* the weights file; the defaults stand for a missing one
    log,      \* the event log, as how often it holds each signal
    job,      \* the server's view of each activity
    exec,     \* the coroutine of each attempt
    plan,     \* the arms of the latest plan's sections, as far as ranked
    plans,    \* bound: plans begun
    causes    \* history: what has happened that may cost feedback or an arm

vars == <<file, log, job, exec, plan, plans, causes>>

Steps == {"idle", "read", "record", "truncate", "write"}
NoWeights == [s \in Signals |-> 0]
Idle == [step |-> "idle", next |-> 1, weights |-> NoWeights]

Readable == file \in Learned
Running == {x \in Attempts : exec[x].step # "idle"}
Rewriting == {x \in Attempts : exec[x].step = "write"}
Current(x) == job[x[1]].status = "running" /\ job[x[1]].tries = x[2]

Init ==
    /\ file = NoWeights
    /\ log = NoWeights
    /\ job = [j \in Jobs |-> [status |-> "due", tries |-> 0]]
    /\ exec = [x \in Attempts |-> Idle]
    /\ plan = <<>> /\ plans = 0
    /\ causes = {}
-----------------------------------------------------------------------------
(* The server's side of an activity.                                       *)

\* The core-services worker takes an attempt of job j.
Begin(j) ==
    /\ job[j].status = "due" /\ job[j].tries < MaxAttempts
    /\ job' = [job EXCEPT ![j] = [status |-> "running", tries |-> @.tries + 1]]
    /\ exec' = [exec EXCEPT ![<<j, job[j].tries + 1>>] = [Idle EXCEPT !.step = "read"]]
    /\ causes' = causes \cup (IF Running = {} THEN {} ELSE {"overlap"})
    /\ UNCHANGED <<file, log, plan, plans>>

\* What the server makes of a failed or timed-out attempt.  After the last
\* one _record_ranking_feedback logs the failure and the workflow goes on.
Failed(j) == [job EXCEPT ![j].status = IF job[j].tries < MaxAttempts
                                       THEN "due" ELSE "given_up"]

\* The start-to-close timeout passes, whether or not the coroutine still runs.
TimeOut(j) ==
    /\ job[j].status = "running"
    /\ job' = Failed(j)
    /\ UNCHANGED <<file, log, exec, plan, plans, causes>>

\* The worker process dies, between two file operations or inside a rewrite.
Crash ==
    /\ Running # {}
    /\ exec' = [x \in Attempts |-> Idle]
    /\ causes' = causes \cup (IF Rewriting = {} THEN {} ELSE {"cut short"})
    /\ UNCHANGED <<file, log, job, plan, plans>>
-----------------------------------------------------------------------------
(* The coroutine of one attempt.                                           *)

Stop(x) == exec' = [exec EXCEPT ![x] = Idle]

\* A file operation fails, which fails the attempt: what was opened for writing
\* stays as it is or takes a part of the text.
Fail(x) ==
    /\ exec[x].step # "idle"
    /\ file' \in IF exec[x].step = "write" THEN {file, Torn} ELSE {file}
    /\ causes' = causes \cup (IF exec[x].step = "write" THEN {"cut short"} ELSE {})
    /\ Stop(x)
    /\ job' = IF Current(x) THEN Failed(x[1]) ELSE job
    /\ UNCHANGED <<log, plan, plans>>

\* (mutant) Weights that do not parse are taken for none.
ReadOrForget(x) ==
    /\ exec[x].step = "read"
    /\ exec' = [exec EXCEPT ![x].step = "record",
                            ![x].weights = IF Readable THEN file ELSE NoWeights]
    /\ UNCHANGED <<file, log, job, plan, plans, causes>>

\* get_weights: a file that does not parse fails the attempt.
ReadWeights(x) ==
    /\ exec[x].step = "read"
    /\ IF Readable
       THEN /\ exec' = [exec EXCEPT ![x].step = "record", ![x].weights = file]
            /\ UNCHANGED job
       ELSE /\ Stop(x)
            /\ job' = IF Current(x) THEN Failed(x[1]) ELSE job
    /\ UNCHANGED <<file, log, plan, plans, causes>>

\* update_axis_weights and update_tag_weight on one event.
Updated(weights, s) == [weights EXCEPT ![s] = @ + 1]

\* (mutant) The loop does not see the last event.
RecordMore(x) ==
    LET signal == Carried[x[1]][exec[x].next]
    IN  /\ exec[x].step = "record"
        /\ log' = [log EXCEPT ![signal] = @ + 1]
        /\ exec' = [exec EXCEPT
                       ![x] = [step |-> IF @.next > Len(Carried[x[1]])
                                        THEN "truncate" ELSE "record",
                               next |-> @.next + 1,
                               weights |-> Updated(@.weights, signal)]]
        /\ UNCHANGED <<file, job, plan, plans, causes>>

\* record_event appends the event to the log, then the weights learn it.
RecordEvent(x) ==
    LET signal == Carried[x[1]][exec[x].next]
        last == exec[x].next = Len(Carried[x[1]])
    IN  /\ exec[x].step = "record"
        /\ log' = [log EXCEPT ![signal] = @ + 1]
        /\ exec' = [exec EXCEPT
                       ![x] = [step |-> IF last THEN "truncate" ELSE "record",
                               next |-> IF last THEN @.next ELSE @.next + 1,
                               weights |-> Updated(@.weights, signal)]]
        /\ UNCHANGED <<file, job, plan, plans, causes>>

\* save_weights opens the file for writing.
Truncate(x) ==
    /\ exec[x].step = "truncate"
    /\ file' = Empty
    /\ exec' = [exec EXCEPT ![x].step = "write"]
    /\ UNCHANGED <<log, job, plan, plans, causes>>

\* The text goes to the start of the file.  One that another writer has filled
\* meanwhile is longer, and keeps its tail, or is not.
Filled(x) == IF file = Empty THEN {exec[x].weights} ELSE {exec[x].weights, Torn}

\* The text is written, and the activity returns: to nobody if it is late.
WriteWeights(x) ==
    /\ exec[x].step = "write"
    /\ file' \in Filled(x)
    /\ Stop(x)
    /\ job' = IF Current(x) THEN [job EXCEPT ![x[1]].status = "succeeded"] ELSE job
    /\ UNCHANGED <<log, plan, plans, causes>>
-----------------------------------------------------------------------------
(* Ranking a plan: the generation activity ranks one section after another *)
(* and each call of rank_candidates reads the weights again.               *)

\* (mutant) Travelers join the bandit arm with their first feedback.
ArmOnceLearned ==
    IF Assigned = "bandit" /\ Readable /\ file # NoWeights THEN "bandit" ELSE "primitive"

\* The bandit arm needs weights; whatever fails there, the primitive serves.
ArmUsed == IF Assigned = "bandit" /\ Readable THEN "bandit" ELSE "primitive"

RankSection ==
    /\ \/ Len(plan) \in 1..(Sections - 1)
          /\ plan' = Append(plan, ArmUsed)
          /\ UNCHANGED plans
       \/ Len(plan) \in {0, Sections} /\ plans < MaxPlans
          /\ plan' = <<ArmUsed>>
          /\ plans' = plans + 1
    /\ causes' = causes \cup (IF Rewriting = {} THEN {} ELSE {"mid_rewrite"})
    /\ UNCHANGED <<file, log, job, exec>>
-----------------------------------------------------------------------------
Work(x) == ReadWeights(x) \/ RecordEvent(x) \/ Truncate(x) \/ WriteWeights(x) \/ Fail(x)

Next ==
    \/ \E j \in Jobs : Begin(j) \/ TimeOut(j)
    \/ \E x \in Attempts : Work(x)
    \/ RankSection
    \/ Crash

Spec == Init /\ [][Next]_vars
-----------------------------------------------------------------------------
\* The type invariant: what the files, the server and the coroutines may hold.
TypeOK ==
    /\ file \in Learned \cup {Empty, Torn}
    /\ log \in Learned
    /\ job \in [Jobs -> [status : {"due", "running", "succeeded", "given_up"},
                         tries : 0..MaxAttempts]]
    /\ exec \in [Attempts -> [step : Steps, next : Nat \ {0}, weights : Learned]]
    /\ \A x \in Attempts : exec[x].next \in 1..Len(Carried[x[1]])
    /\ plan \in Seq(Arms) /\ Len(plan) <= Sections
    /\ plans \in 0..MaxPlans
    /\ causes \subseteq {"overlap", "cut short", "mid_rewrite"}

Occurrences(j, s) == Cardinality({i \in DOMAIN Carried[j] : Carried[j][i] = s})

\* What the jobs reported done have carried, each counted once.
Owed(s) == SumFunction([j \in Jobs |-> IF job[j].status = "succeeded"
                                        THEN Occurrences(j, s) ELSE 0])

\* What the attempts begun can have carried.
Attempted(s) == SumFunction([j \in Jobs |-> job[j].tries * Occurrences(j, s)])

\* Weights that can be read rest on logged signals only, and lack one whose activity
\* was reported done only if two attempts of the traveler's overlapped.  The weights
\* cannot be read, so that all feedback reported done before is missing, only while
\* a rewrite is under way, or after attempts overlapped or a crash or a file error
\* cut a rewrite short, since the file is rewritten in place.  Retries and late
\* answers alone repeat feedback and lose none: the log holds a signal at most once
\* per attempt (activities/travel_activities.py:540, 573, ranking/file_store.py:49).
LearningExplained ==
    /\ \A s \in Signals : log[s] <= Attempted(s)
    /\ Readable => \A s \in Signals :
          /\ file[s] <= log[s]
          /\ Owed(s) <= file[s] \/ "overlap" \in causes
    /\ ~Readable => Rewriting # {} \/ causes \cap {"overlap", "cut short"} # {}

\* A traveler of the bandit arm is ranked by the primitive one only if the
\* ranking met a rewrite, a crash or a file error cut one short, or two attempts
\* overlapped: otherwise one traveler stays in one arm (providers/ranking/router.py:31).
\* Errors of the ranking's own reads are left out.
FallbackExplained ==
    (\E i \in DOMAIN plan : plan[i] # Assigned) => causes # {}
=============================================================================
