# Smartinerary: TLA+ models, model checking and proofs

This directory specifies the concurrent and stateful core of Smartinerary: the
durable workflow that plans a trip and waits for the traveler, the planning graph
it runs inside one of its activities, the ranking that learns from the traveler's
feedback, the conversations of the chat API with the turns that share one of them and
the requests that create and close them, the queue workers that run turns outside of
any request, and the supervisor and specialists that answer. The specifications are
TLA+ modules, checked by TLC on small instances; theorems about them hold for every
value of their constants and are checked by TLAPS.

Paths below are relative to `src/src/smi_agent/` unless they start with `src/`.

## 1. The system

| Component | State it keeps | Operations | Talks to |
|---|---|---|---|
| Itinerary workflow (`activities/itinerary_workflow.py`) | Temporal workflow instance: itinerary, constraints, candidate lists, confirmed/rejected flags, one pending edit, pending ratings, edit log | `run`, signals `confirm`, `reject`, `request_changes`, `rate_segment`, three queries | activities on six task queues |
| Activities (`activities/travel_activities.py`) | none of their own; metric counters, ranking files, trip files | four searches, parse intent, generate itinerary, persist trip, record metric, record ranking feedback | providers, planning graph, stores |
| Task queues and workers (`activities/task_queues.py`, `worker.py`) | which process polls which queue | `_resolve_queue` | Temporal server |
| Planning graph (`graph/itinerary_graph.py`) | LangGraph state of one run | nine nodes, three routing functions | searches, language model, budget provider |
| Budget provider (`providers/budget.py`) | none | cheaper combinations | called by the graph |
| Ranking (`providers/ranking/`) | weights and events per user, in files | rank, record event, update weights | called by generation and feedback activities |
| Trip stores (`trip_store/`) | JSON file per trip or open plan | save, get, list, delete | persist activity, scripts |
| Conversation API (`api/app.py`, `api/conversation_service.py`) | Postgres rows of conversations and messages | create, chat, patch, archive, list | turn runner, session store |
| Turn runner (`api/conversation_runner.py`) | none between turns | run a turn: graph, Postgres transaction, events, session save; restore a session | Postgres, Redis |
| Session store and streams (`conversation/session_store.py`, `conversation/sse.py`) | Redis session with expiry; a channel per conversation | load, save, delete; publish, stream until `done` | API, runner |
| Conversation graph (`conversation/graph.py`, `conversation/nodes/`) | state of one turn | context injection, compaction, tool loop, generation | language model, tools |
| Queue worker (`conversation/queue.py`, `conversation/worker.py`) | STOMP connection, in-process queue | consume, ack, nack | runner |
| Supervisor, specialists, runtime (`agents/`) | circuit breaker per specialist; one tool loop per call; audit records not yet written | route, delegate, trip, retry, audit | language model, tools |
| LLM router (`llm/`) | none; a token count nobody limits by | one call or stream, with the fallbacks of a lane | litellm |
| Gateway (`src/services/gateway/`) | none | HTTP to signals, queries, workflow starts | Temporal, conversation API |
| Investigations, MCP, domain registry, database access, cache, observability, scrapers, web interface, scripts | start-up configuration, external services, presentation | | |

How they interact: the gateway starts one workflow per plan and turns HTTP
requests into signals and queries. The workflow awaits activities, each routed to
a task queue a worker must poll. The generation activity ranks the lists it is
given and runs the planning graph on them to its end. The traveler's signals may
arrive at every await of `run()`. Conversations are a second entry: an HTTP
request starts a background task that runs a graph, writes Postgres in one
transaction, publishes to a Redis channel and saves a Redis session. The default agent's graph is
the supervisor, which hands a turn to a specialist; other agents run the conversation
graph. A third entry is a STOMP queue: every process of the API runs a worker that
runs such turns from messages.

What is hard:

* interleaving: signals at every await; concurrent turns, patches and archives of
  one conversation; concurrent feedback activities of one user;
* ordering: a confirmation next to a pending edit; `done` before the save;
* partial failure: an activity that is exhausted after its effect; metric,
  feedback and trip written one after the other; a re-run that fails after the
  lists were reordered; searches that fail on their own;
* staleness: the critic swaps a candidate after costs, log and draft were
  computed; the runner writes a status computed from an old row;
* retries: every activity runs at least once and at most three times, a message of
  the queue until it is acknowledged; a late attempt runs next to its successor;
* bounds: the budget of language model calls, shared by a loop and the retries behind
  it; the limit of active conversations, counted before the insert;
* liveness: a queue nobody polls; the review loop; the critic's loop; specialists that
  delegate to siblings that delegate; messages delivered to a worker that is over.

What makes each component correct:

* workflow: what the outside keeps of a plan tells one story; a trip is stored
  only over an approval and never over an unsettled change; edits are neither
  lost from the lists nor undone by other edits; it ends;
* planning graph: the plan presented is one plan, within budget, and the
  traveler's order is kept; a breach comes with a way out if there is one;
* workers: every queue an await needs is polled;
* ranking: feedback that was reported learned is in the weights, unless attempts of one
  traveler's activities overlap, or a crash or a file error cuts a rewrite of the weights
  short, which leaves them unreadable and all of it gone; but for the same reasons, a
  traveler stays in one arm;
* conversations: the transcript is whole, numbered and counted; the lock follows the
  real counters; a turn that shared the conversation with no other loses nothing, in
  Postgres, in Redis or on its way to the client; every stream ends; a conversation
  leads its life from active to archived;
* queue workers: before a message is acknowledged its answer was saved or its failure was
  reported; it is repeated only when it was delivered again, and settled while there is a
  worker;
* supervisor: failures of turns that follow each other set nobody aside; the tool loop
  and the retries end, within their budget or one call beyond it for known reasons; cards
  that are shown were found; audit records that are pending get written somewhere.

## 2. Modules

| Module | Models |
|---|---|
| `TaskQueues` | queues, workers, which awaits are served |
| `Lists` | candidate lists and `_reorder_to_front` |
| `TripPlans` | what workflow and graph share: sections, constraints, and the itineraries the generation activity may return; extends `Lists` |
| `ReviewGate` | abstract specification of the human-in-the-loop gate |
| `ItineraryWorkflow` | the workflow; extends `TaskQueues` and `TripPlans`, instantiates `ReviewGate` with a refinement mapping |
| `ItineraryGraph` | the planning graph and the budget provider; extends `TripPlans` |
| `Transcript` | abstract specification of a conversation's durable half: a log of whole turns and a lock |
| `ConversationTurns` | one conversation and the turns in flight on it; instantiates `Transcript` with a refinement mapping |
| `ConversationRequests` | all conversations of one user: create, PATCH, DELETE, and the turns that may lock one |
| `AgentTurns` | the multi-agent chat: breaker, routing, tool loops that delegate, structured answers, audit |
| `ConversationGraph` | one run of the conversation graph, as the set of its results |
| `Delivery` | abstract specification of consuming a queue: answered or failed, then acknowledged |
| `ConversationQueue` | the queue workers and the broker; extends `ConversationGraph`, instantiates `Delivery` |
| `RankingFeedback` | feedback activities, the weights and event files, and the ranking that reads them |
| `MC...` | instances for TLC |
| `...Proofs` | theorems about the module they are named after |
| `CommonProofs` | lemmas the others cite: induction over finite sets and over the naturals in a form the provers can instantiate, sums, reordering |

### TripPlans and the two models

A candidate is an id, a list a sequence of ids, best first. Constraints keep what
decides control flow: are the required fields there and sane, business or leisure,
the budget, one value of which (`BadBudget`) stands for the non-positive ones.
`GenerateItinerary(r, c, skipReparse)` is the set of itineraries the generation
activity may return, seen from the workflow. The workflow uses it instead of the
graph; `DeliversPlan`, checked on the graph, says that everything the graph can
return is in it. The two models together thus cover the composition without TLC
having to run the graph inside every state of the workflow.

### ItineraryWorkflow

`stage` is the await `run()` is suspended at; between two awaits Python code runs
alone, so one action is one activity completion, one signal, or one turn of the
review loop. The other variables are the fields of the workflow object, `run()`'s
own lists (`found`) and errors, and what the activities leave outside: `metrics`,
`feedback`, `trip`. `outcome` is the last status `run()` decided to record. An
activity that is retried to exhaustion is an action of its own; its effect may or
may not have reached the outside. Signals are accepted until the workflow closes,
which is when the server refuses them. An await is left only when its queues are
polled (`Served`).

Abstractions: the searches' results come from the constant `Listings`; search
errors are left out of `errors`, which keeps only failed re-runs; a rating's reward
is not computed; the review window's length is not modelled, only that it may
elapse when nothing is waiting to be taken.

The mapping to `ReviewGate`: the gate's phase follows from `stage` and `outcome`,
its offer is `itinerary`, its stored trip `trip`, approval and refusal the two
flags, and a change is unsettled while an edit is pending or being applied.

### ItineraryGraph

One action is one node together with the routing function behind it; LangGraph
merges a node's result into the state only when it returns. `Init` is what
`_generate_itinerary` injects. `Price` gives the costs, 0 standing for an unknown
or a zero price, which the code does not tell apart; totals are sums over positions
(`SumFunction`), and the budget agent's three cheapest restaurants are three positions
of the list such that none left out is cheaper. The critic's objections are an
arbitrary set of sections, in arbitrary order: language model issues may name
every section, and a section without candidates has nothing to swap to. A
decision log keeps the selected candidates and whether the budget agent added the
"held for approval" entry. Segments' wording, provenance, assumptions, quality
reviews, emitted steps and the `plan_graph` bookkeeping are left out.

### ConversationTurns

`row`, `transcript`, `cached` and `session` are what all turns share: the
conversation's row and messages in Postgres, the two Redis keys of the session. A turn
is the number of its request. `pc` says where it is: in the request handler
(`Handling`), in the background task the handler leaves behind (`Running`), or over,
refused or lost. Its own variables are the session it loaded (`base`), the counters of
the row it was started with (`seen`), what its graph run came to (`outcome`), the
number its transaction read (`slot`) and what became of the transaction (`fate`).
`stream` and `heard` are its client's. One action runs from one await that reads or
writes shared state to the next, so that every other turn may come between the read of
the row and the task, between `SELECT MAX(seq)` and the insert, between `done` and the
save. A transaction's inserts and update become visible together; the insert
that meets a number already there rolls all of it back.

A PATCH or DELETE is `ReadStatus`, then any number of `WriteStatus` (a patch has up
to ten operations, each tested against the status read first), then `EndRequest`; one
is served at a time. The environment crashes the process, lets the session expire,
fails Postgres or Redis, and disconnects clients, `MaxEvents` times in all.

Abstractions: an answer costs one token, a failed graph run none; both messages of a
turn are one entry of the transcript, with the number of the first, and one element of a
history; titles, timestamps, compaction summaries and event types that change nothing
are left out. A client that leaves and a stream that is cut by the socket timeout
while its task is alive look alike (`Disconnect`).

The mapping to `Transcript`: the log is the turns of the transcript, `spent` and
`status` are the row's. A turn's commit is a record; a status write is a decision; all
else stutters.

### ConversationRequests

Where `ConversationTurns` looks at one conversation from inside, this module looks at
all of a user's from the outside. `status` is the column; `request` is what a request
or turn is doing, the conversation it read, the status it read of it (`view`) and the
operations it has left. Every query is one action, because no request locks a row:
`Count` and `Insert` of a create, the read and one `Operate` per operation of a PATCH,
a DELETE (which is a read and one replacement) and a turn (whose replacement is the
lock, if it reaches the ceiling). A request may end before its next query (`Abort`): a
create whose context is refused after the count, or any request Postgres fails. `shared`, `rewritten` and `crowded` are history: they
remember the only circumstances in which the limit or the life cycle may be left.
Titles, contexts, display ids, and requests that only read are left out.

### AgentTurns

A specialist at work is a frame, the frames of a turn a stack: `Delegate` pushes one,
`Return` and `Raise` pop it into the tool call below or, from the bottom, into the
supervisor. `breaker` is the supervisor's table: an entry's count and whether its
cooldown is over (`CooldownEnds`); the entry of a first failure has a cooldown of
zero. A frame counts the language model calls of its loop as the code does (`calls`,
after the call returned) and as they are made (`made`, a history), the tool calls of a
response still to do, the attempts at the structured answer, and the record ids it can
read in its tool results. `audit` is each answer's record: it exists from the moment its
task is created, every attempt to store it in Postgres fails (the query takes fewer
parameters than it is given), and the log file has it in the end. What the language model decides is
nondeterministic, so that what holds does so whatever it says, including a specialist
it was not offered. `Shutdown` is the process stopping. Prompts, guardrails'
redactions and streamed steps are left out.

### ConversationGraph and ConversationQueue

Nodes of the conversation graph touch only the state of their turn, so a run is a
function from a turn to the set of its results, composed of one operator per node.
`ConversationQueue` uses it as one step of a worker. A history's entry lists the
messages it stands for, so that `Covered` tells whether a compaction lost any.
`queue`, `held` and `settled` are the broker's view (external: it delivers in any
order, redelivers over a lost connection, and gives a refused message up in the end);
`inbox` is the asyncio queue the listener thread fills, which outlives the connection;
`worker` and `turn` are the loop. A turn from the queue never loads the session: its
history is what the message carries.

A turn that goes on without its result (`Drop`) keeps what its message carried. A reply to
the broker does nothing over a lost connection, and may raise over one that is up: an
acknowledgement is then followed by a refusal, and a refusal that raises ends the worker.

The mapping to `Delivery`: `ended` records how turns that saved a session ended; a message
is `answered` if one of them saved its exchange (an empty answer is one too), `failed` if
one of them published an error or the errors of its result. Both are acknowledged: a
failed turn leaves the queue like an answered one and is not tried again. An
acknowledgement, or a refusal the broker does not retry, settles the message.

### RankingFeedback

`file` is one traveler's weights file, `log` the event log, `job` the server's view of
each feedback activity, `exec` the coroutine of each attempt. Each file operation runs
in a thread and is one action; rewriting the weights is two, since opening a file for
writing empties it, and a second writer behind the first may leave a torn text. An
attempt that timed out goes on running next to its successor. Weights are kept as how
often they learned each signal, of which the code's arithmetic is a function. Any file
operation of an attempt may fail (`Fail`), which fails the attempt; one that fails while
it writes, like a crash there, has emptied the file before. Errors of the ranking's own
reads, other than meeting an unreadable file, are left out.
`RankSection` is the generation activity ranking one section, which reads the file.

## 3. Runs

| Run | Checks | Shows |
|---|---|---|
| `workflow` | `TypeOK`, `AgreedOutcome`, `EditLogExplainsOrder`, `NoCandidateLost`, `RerunShowsPicks`, `Terminates`, `ImplementsGate` | hold |
| `workflow_policy` | `StoredWithinPolicy` | violated: nothing between a breach and the store asks for an approval |
| `workflow_ratings` | `RatingsAreLearned` | violated: `_replies` never carries `rank_arm` |
| `graph` | `TypeOK`, `ReviewedWithinBudget`, `PresentedAgrees`, `TravelerOrderKept`, `FittingPlanOffered`, `DeliversPlan`, `Terminates` | hold |
| `ranking` | `TypeOK`, `LearningExplained`, `FallbackExplained` | hold |
| `conversation` | `TypeOK`, `RowCountsTranscript`, `SoloCeiling`, `SoloTurnKept`, `SoloAnswerHeard`, `HistoryInOrder`, `SoloSaveExtends`, `StreamsEnd`, `ImplementsTranscript` | hold |
| `conversation_lost` | `AnswersKept` | violated: two turns read the same `MAX(seq)`, the later one is rolled back |
| `conversation_next` | `NextTurnReads` with `Patient = TRUE` | violated: the next turn loads the session between `done` and the save |
| `requests` | `TypeOK`, `LimitExplained`, `SoloLifecycle` | hold |
| `queue` | `TypeOK`, `RunsExplained`, `ImplementsDelivery`, `SavesCarriedHistory`, `MessagesSettled` | hold |
| `agents` | `TypeOK`, `OverrunExplained`, `CardsGrounded`, `OverlapTrips`, `TurnsEnd`, `AnswersAudited` | hold |
| `agents_breaker` | `SecondFailureTrips` | violated: the cooldown of a first failure is over when it starts, so the next turn forgets it |

The comments above the properties say what each means. The five violated ones state
what a comment or docstring of the code says; `PROJECT.json` quotes the line.

Several properties have the form "what should not happen happened only because of
this": `LimitExplained`, `SoloLifecycle`, `LearningExplained`, `FallbackExplained`,
`RunsExplained`, `OverrunExplained`, `OverlapTrips` and those called `Solo`. The code takes no lock where
requests, turns or attempts share state, and says so nowhere; these properties are the
exact circumstances under which it keeps its promises, and a change that widens the
circumstances breaks them.

What some of them do not say: `CardsGrounded` is about cards, the text of an answer is the
language model's; `OverlapTrips` is about specialists that were offered, and one that was
not may be named anyway; `SoloCeiling` counts a turn's tokens as one; `RerunShowsPicks` and
the part of `TravelerOrderKept` about an edit's re-run hold for the arm that keeps a list's
order (section 5); `TurnsEnd` holds if delegation has no cycles (`DelegationEnds`), as in
the shipped definitions, where only the planner has siblings for tools: with a cycle
nothing bounds the depth of delegation, and a turn need not end.

### Bounds

* `workflow` (0.7 million states): two candidates, so that an edit can move a pick and
  move it back; a section with both, one with a single candidate, one that may be empty;
  two edits, the least with which one can overwrite, follow, or undo another and a
  failed re-run can be followed by a successful one; one rating, valid or out of range;
  one good and one non-positive budget; both kinds of input. `MaxEdits` and
  `MaxRatings` bound only the signals sent; the workflow counts nothing.
* `graph` (5,500): up to three candidates in a section (three are shown and paid for),
  lists that are missing, dearer first and cheaper first, an unknown price, budgets
  below, between and above the possible totals, and the code's two reflection attempts.
* `ranking` (0.5 million): two workflows of one traveler, one of which carries two signals (a crash can
  come between them), the other repeats one; two attempts each instead of the code's
  three, the least at which a late attempt meets its successor; a plan of two sections,
  the least of which part can be ranked before and part during a rewrite.
* `conversation`: three turns of which two overlap, the least with which a later turn can
  find both a conflict and its consequences; ceilings of two turns, so that the third is
  refused, or admitted on a stale row, and levels at 40 and 60 per cent so that each is
  passed; two turns restored of up to three; one failure or status request, at any
  step. Combinations of two failures are left to the proofs, which have no bounds.
  `MaxInFlight` also bounds the code's behaviour, which admits any number. The two
  violation runs use the code's default ceilings, percentages and history length, and no
  failure at all.
* `requests` (22,000 up to symmetry of requests and conversations): a limit of one active
  conversation, three of them and five requests, the least with which two creates
  overlap, a third is refused, and one that was closed is reopened over the limit; the
  PATCH bodies are each single replacement, one refused between two, one with a path
  that is not the status, and one that replaces it twice.
* `queue` (0.7 million): two workers and two messages, one with a history long enough to be
  compacted under the code's `max_history_turns`, the other of every kind; one lost
  connection and one refusal the broker retries, at any step. Both properties of
  delivery need no more: a message that is in an inbox of a lost connection, in the
  hands of the other worker and delivered again is among the states.
* `agents` (0.2 million): two turns, which can fail together or one after the other; a
  chain of three specialists, so that one that was delegated to delegates in turn; a planner
  with two iterations and three calls, and two whose loop may use up its whole budget, the
  two relations between iterations and calls that the bound tells apart; three attempts at
  the structured answer as in the code; one retry of an audit write.

Deadlock is not checked: a closed workflow, an ended graph, turns, requests and
jobs that are over, and workers that have ended stop.

### Fairness

* `ItineraryWorkflow!FairSpec` has weak fairness of `Progress`, the completion or
  exhaustion of what is awaited, and of the durable review timer. Temporal times every
  attempt out and retries at most three times, so an await that is served ends; the
  timer is the server's. An await that is not served disables `Progress`, so that
  `Terminates` depends on `Workers`: with the single worker of `worker.py`'s default it
  is violated. Signals are not fair: the traveler owes nothing. The gate's fairness,
  that an offer is eventually decided, is implemented, and part of `ImplementsGate`.
* The graph is driven by one `ainvoke` call, node after node: weak fairness of `Next`.
* In `ConversationTurns!FairSpec` every handler (`Handle`) and task (`Work`) goes on:
  asyncio runs what is ready, and the graph run is bounded by the language model
  clients' timeouts. A read of the Redis socket times out after `REDIS_SOCKET_TIMEOUT`
  seconds, which makes `TimeOut` fair. Nothing is assumed of requests, failures or
  patches.
* `ConversationQueue!FairSpec`: a worker whose connection and loop can go on does
  (`Connect`, `Work`), and the broker delivers what it can. A worker that ended while its
  connection is up keeps what is delivered to it. The broker need not deliver to a
  particular worker, nor retry a refusal, and nothing makes a connection stay up.
* `AgentTurns!FairSpec`: a turn's task and the task that writes its audit record go on;
  every call of a tool or language model is under a timeout, after which it has failed.
* `RankingFeedback` and `ConversationRequests` have safety properties only.

## 4. Proofs

| Theorem | Says |
|---|---|
| `ItineraryWorkflowProofs!TypeCorrect` | `Spec => []TypeOK` |
| `ItineraryWorkflowProofs!OutcomeAgreed` | `Spec => []AgreedOutcome` |
| `ItineraryWorkflowProofs!OrderExplained` | `Spec => []EditLogExplainsOrder` |
| `ItineraryWorkflowProofs!CandidatesKept` | `Spec => []NoCandidateLost` |
| `ItineraryWorkflowProofs!PicksAreShown` | `~Bandit` gives `Spec => RerunShowsPicks`, an action property |
| `ItineraryWorkflowProofs!GateStoresAccepted` | the abstract gate stores only what was accepted |
| `ItineraryWorkflowProofs!GateImplemented` | `Spec => RG!Gate`: the safety part of the refinement |
| `ItineraryWorkflowProofs!TripWasAccepted` | `Spec => []RG!StoredIsAccepted`: the two together, for the workflow's variables |
| `ItineraryGraphProofs!GraphTypes` | `Spec => []TypeOK` |
| `ItineraryGraphProofs!ReviewIsWithinBudget` | `Spec => []ReviewedWithinBudget` |
| `ItineraryGraphProofs!PresentedIsConsistent` | `Spec => []PresentedAgrees` |
| `ItineraryGraphProofs!OrderIsKept` | `Spec => []TravelerOrderKept` |
| `ItineraryGraphProofs!BreachComesWithAWayOut` | `Spec => []FittingPlanOffered` |
| `ItineraryGraphProofs!GraphDelivers` | `MaxReflections <= 2` gives `Spec => []DeliversPlan` |
| `ItineraryGraphProofs!EveryNodeCounts` | every node run brings the end nearer: at most `7 + 4 * MaxReflections` of them |
| `RankingFeedbackProofs!FilesTyped` | `Spec => []TypeOK` |
| `RankingFeedbackProofs!ArmKept` | `Spec => []FallbackExplained` |
| `RankingFeedbackProofs!LearnedIsLogged` | weights rest on logged feedback only: a part of the next one |
| `RankingFeedbackProofs!LearningIsExplained` | `Spec => []LearningExplained` |
| `ConversationTurnsProofs!TypesKept` | `Spec => []TypeOK` |
| `ConversationTurnsProofs!LockFollowsCounters` | a lock is only set when the real counters are at the ceiling |
| `ConversationTurnsProofs!RowCounts` | `Spec => []RowCountsTranscript` |
| `ConversationTurnsProofs!ConversationIsTranscript` | `Spec => ImplementsTranscript`: the whole refinement |
| `ConversationTurnsProofs!SoloTurnsAreKept` | `Spec => []SoloTurnKept` |
| `ConversationTurnsProofs!SoloSavesExtend` | `Spec => SoloSaveExtends`, an action property |
| `ConversationTurnsProofs!SoloAnswersAreHeard` | `Spec => []SoloAnswerHeard` |
| `ConversationTurnsProofs!SoloCeilingHolds` | `WarningPct > 0` and `CriticalPct > 0` give `Spec => []SoloCeiling` |
| `ConversationTurnsProofs!HistoryKeepsOrder` | `Spec => []HistoryInOrder` |
| `ConversationRequestsProofs!RequestTypes` | `Spec => []TypeOK` |
| `ConversationRequestsProofs!LimitHolds` | `Spec => []LimitExplained` |
| `ConversationRequestsProofs!SoloLives` | `Spec => SoloLifecycle`, an action property |
| `ConversationQueueProofs!QueueTypes` | `Spec => []TypeOK` |
| `ConversationQueueProofs!DeliveryImplemented` | `Spec => ImplementsDelivery`: the whole refinement |
| `ConversationQueueProofs!RunsAreExplained` | `Spec => []RunsExplained` |
| `ConversationQueueProofs!HistoryIsCarried` | `Spec => SavesCarriedHistory`, an action property |
| `AgentTurnsProofs!AgentTypes` | `Spec => []TypeOK` |
| `AgentTurnsProofs!WorkIsStacked` | specialists are at work exactly while the task is delegated, each within its loop |
| `AgentTurnsProofs!OverrunIsExplained` | `Spec => []OverrunExplained` |
| `AgentTurnsProofs!CardsAreFound` | `Spec => []CardsGrounded` |
| `AgentTurnsProofs!TripsOverlap` | `Spec => []OverlapTrips` |

They state every invariant and every action property that the passing runs check, and
the safety of all three refinements.

They assume the constants' named assumptions: any candidates, lists without
repetitions, edits, ratings, bounds, prices and workers; any number of turns, requests,
conversations, jobs, attempts, messages, workers, losses and failures; any budgets,
delegation relation and ceilings; either ranking arm. Three theorems assume more, and
each is false without it:

* `PicksAreShown` is about the arm that keeps a list's order; the bandit arm sorts the
  lists again in a re-run (section 5).
* `SoloCeilingHolds` needs thresholds above zero. The code's are percentages with a lower
  bound of 0.0 (`config/models.py:185`); with a threshold of zero a conversation is created
  at "ok" and would be computed at a higher level before its first turn.
* `GraphDelivers` needs at most two swaps, which is the code's
  `_MAX_REFLECTION_ATTEMPTS`: a third could show a third candidate, or swap a second
  section, which `CriticPicks` does not foresee. Whoever raises the limit has to extend
  what the workflow's model expects of the activity.

The workflow's properties are not inductive. That a stored trip is the current
itinerary needs to know where `run()` can be when `outcome` is "confirmed", and that
no re-run can follow; that edits keep candidates needs the lists to be permutations
of those found from the moment the first itinerary is generated, and empty before.
The invariant proved in lemma `Invariance` conjoins `TypeOK` with `OutcomeInv` (which
stage goes with which outcome, and what may have been recorded by then), `OfferInv`
(where there is an itinerary, and when it can no longer change) and `ListsInv` (lists
found and kept, and the edit log). `CommonProofs!ReorderPermutes` carries the list
reasoning: reordering keeps the elements, the length and the absence of repetitions, and
puts the pick first. The refinement needs the invariant too: an activity's late effect
is a gate step only because of what `outcome` says. A re-run shows the picks since each
section it shows has a list, whose head is the last pick logged for it.

The graph's invariants relate `node` to the values computed so far: after
`merge_results` cost and log are those of the replies, after `policy_check` a plan
that goes on to be compiled is within budget, and a draft under review is the
replies' plan. A swap breaks the last, and the invariant says that the only way on
from there leads through `merge_results` again. The types need that cost is a sum of
natural prices and that the critic's attempts are only counted below their bound.

A plan held for its price (`BreachInv`) ends with the alternatives of the lists it was
held for. That one of them fits, if any flight and hotel in hand do, is arithmetic about
the cheapest: it exists among the candidates of known price (`CheapestFound`), and a
combination of it costs no more than any other (`CheapestCombo`).

That the graph delivers what the workflow's model expects is the longest of these
arguments. `CriticInv` follows the swaps: the first promotes the candidate that is already
shown, the second moves one section to its second candidate, and an edit's re-run has
none; sections without a given list are searched anew and may show anything. `OutcomeInv`
follows the ends: a goal that is not usable, a plan presented, or a breach, which
leaves nothing compiled or the draft the critic had sent back, whose picks are those
of the lists before the swap.

That the critic's loop ends needs fairness only for the next node to run at all: `StepsLeft`
is a natural number, and every node makes it smaller (`EveryNodeCounts`).

For a conversation, four arguments. The lock: what a turn saw of the counters never
exceeds what they are (`SeenBefore`), since they only grow. The transcript
(`TranscriptInv`): every number a transaction read is one behind some prefix of the
transcript (`SlotsInv`), so a free one is the one behind all of it (`FreeSlotIsNext`),
and a turn whose transaction is not settled is not in the transcript. The
turn in flight alone: any two in flight are both in `shared` (`Alone`), so nobody else
can commit while it writes (`SoloWrites`) or save while it holds a copy of the session
(`SoloBase`). Its stream is open before its task exists and nobody else says `done`
(`AnswerInv`), so its answer is heard first. While no turns met at all, the row a turn
was started with is the row it writes to (`CeilingInv`), so that the estimate is exact.

The order of a history needs no such condition. `HistoryInv` says of the session and of
every copy a turn holds that their turns have left their transactions behind (`Past`) and
are ordered as the transcript is, the turn's own appended. A turn that commits is thus in
nobody's history but its own, and comes last in the transcript; a restored history is a
tail of the transcript.

For a user's requests: as long as no creates overlapped and nothing was reopened
(`LimitInv`), at most one create has counted and not inserted, and while it is under way
there is still room for it, since other requests can only take conversations out of the
active ones. For the life cycle
(`SoloInv`), a request alone on its conversation has a fresh view: the status it read is
the one that stands, until it replaces it.

For feedback: as long as neither an overlap nor a rewrite cut short is in `causes`
(`CalmInv`), at most one coroutine runs, and the file is unreadable exactly while that
one is between the two halves of its rewrite. For the log (`LoggedInv`), weights in the file and in every coroutine are at
most what the log holds, since an event is appended before it is learned and the log
only grows. That a signal is logged at most once per attempt is a sum over the
attempts (`CountInv`): what the log holds and what coroutines have still to append
never exceed what the attempts begun would append. That nothing reported done is missing
(`QuietInv`): without overlaps one coroutine runs, and from its reading on its weights and
the signals it has left make up for all that was reported and its own job's.

For a queue: over a connection that is up a worker owns what waits in its inbox and what
it works on, each once (`WorkerOK`), and a message is queued, or owned by one worker, or
in nobody's hands, and not settled in the first two cases (`OwnersInv`). So when a turn
is acknowledged its message is not settled yet, and only a turn that saved gets there,
after an answer or after a failure, as `ended` records; a reply that raises changes
nothing at the broker (`ReplyRaises`). For the
repetitions (`Paid`): the turns started for a message, the inboxes that hold it and its
place in the queue sum up to at most one more than its repeated deliveries; a worker that
takes a frame turns one of the second into one of the first. For the history
(`CarriedInv`), what a worker holds covers what its message carried, its own turn at most
added. A run of the graph keeps it so (`GraphCarries`) because what `Compact` summarises
and what it keeps are two parts of one list: `Covered` is a `FlattenSeq`, a recursive
function of the community modules, and that it exists and takes a concatenation to a
concatenation is proved by induction over the list's length (`FlattenConcat`).

For a turn of the supervisor the invariants are about every frame of the stack:
`FrameBudget` bounds the calls counted by those the place of the frame's loop leaves,
`CallsCounted` the calls made by those counted and the one that raised, which ends the
loop; from the two follows that calls beyond the budget are explained. `FramesOK` ties a
frame's records to what its specialist found; both survive pushing a delegate and popping
an answer because a frame below the top is frozen at the tool call it waits for
(`WorkStacked`). `OverlapTrips` is then inductive: every check of the breaker forgets the
entries whose cooldown is over, and a first failure's is.

Several of these arguments need sums over a set or facts about a recursive function, and
so induction. The library states induction with an operator as a parameter, which the provers cannot
instantiate; `CommonProofs` states it with a set instead (`NatSetInduction`: a set of
naturals with 0 and closed under successor holds them all; `SubsetInduction`: the same for
the subsets of a finite set) and derives from it that the community modules'
`SumFunction` is a sum: it exists, adds an element at a time in any order, is monotone,
and changes by what one element changes.

Left to TLC: liveness under fairness (`Terminates` of the workflow and of the graph,
`StreamsEnd`, `MessagesSettled`, `TurnsEnd`, `AnswersAudited`) and the fairness of the
gate, that an offer is eventually decided, which is the part of `ImplementsGate` that
`GateImplemented` leaves out. These need fairness and ENABLED, which are out of TLAPS'
reach. The five violations are TLC's counterexamples. No module uses recursive operators.

## 5. Not modelled

Components without a module are listed with their reasons in `PROJECT.json`. In the
modelled ones: the wording of anything, times and time zones, the handoff of arrival
times and hotel names between searches (it ends in assumptions only), tenant and
user identity, serialisation, Temporal's replay (which re-executes `run()` to the same
state) and continuation after worker crashes, which is an activity attempt lost and
retried or an await resumed later; reads and lists of conversations, the older `/chat`
endpoint, what guardrails redact, what prompts say, how long a cooldown is. Retries and
fallbacks of a language model call are litellm's; a call is modelled by what it may come
to.

What was found on the way and no run shows, for whoever changes the code next:

* with the bandit arm, a re-run ranks the traveler's picks away: `workflow` with
  `Bandit = TRUE` violates `RerunShowsPicks` (`activities/travel_activities.py:310`);
  and each section of a plan asks for its arm anew, so one plan may be split over two
  (`providers/ranking/router.py:31`);
* the worker started without `SMI_AGENT_QUEUE` polls no agent queue (`worker.py:110`), though
  its docstring says it runs every agent (`worker.py:18`);
* the critic's first swap promotes the candidate that is already shown, so that one of
  its two attempts is idle (`graph/itinerary_graph.py:1347`); a breach after a first
  draft is returned with the stale draft (`activities/travel_activities.py:411`); on
  the business path the total includes pre-fetched attractions that are not shown
  (`graph/itinerary_graph.py:843`);
* `_max_calls` is no bound on the calls made (`agents/runtime.py:288`): a call that raises
  is not counted (line 193), and the structured loop makes one call when none is left
  (line 291); `OverrunExplained` says that nothing else exceeds it;
* an empty `enabled_tools` offers a specialist every sibling, delegates among them
  (`agents/registry.py:139`), and nothing bounds the depth of delegation: `TurnsEnd` is
  about delegation without cycles;
* audit records are promised to be awaited during shutdown (`agents/audit.py:41`), but
  nothing calls `flush_pending`; none is ever stored in Postgres, since the insert is
  handed nine arguments and takes five (`agents/audit.py:85`,
  `postgres_client/queries.py:266`), and an answer is published even
  when its record was not created (`api/app.py:877`);
* a crash while the weights are rewritten destroys what was learned, with no overlap at
  all (`providers/ranking/file_store.py:49`); the log survives;
* a failed turn is persisted with an empty answer; several operations of a PATCH are not
  atomic (`api/app.py:771`);
* a frame that is JSON but no object ends the queue worker while its connection stays
  subscribed, and one that is no JSON is never acknowledged (`conversation/queue.py`);
  a turn from the queue never loads the session, and its failure is acknowledged
  (`conversation/worker.py:42`);
* compaction counts in messages what is configured in turns, and the summary it adds as a
  system message is left out of the prompts (`conversation/nodes/compact.py:25`);
* the investigation runner reads fields its request model does not have, so no
  investigation gets past its first statement (`api/investigation_runner.py`).

## 6. Plan

Modelled: the workflow, its gate, queues, graph and ranking; conversations, from inside
and as a whole; the queue; the agents. What is left, in order of what it adds:

1. The circumstances themselves: theorems that say how far the code is from its promises
   when turns do overlap, such as how many turns can run beyond the ceiling, and how many
   answers a conflict can cost, as bounds in the number of turns in flight.
2. The composition of `RankingFeedback` with the feedback stages of `ItineraryWorkflow`,
   which now share only the shape of the activity.
3. The `/chat` endpoint and the investigations, as further turns over channels of their
   own.
