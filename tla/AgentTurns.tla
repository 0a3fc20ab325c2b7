---------------------------- MODULE AgentTurns ----------------------------
(***************************************************************************)
(* The multi-agent chat: POST /api/v1/chat starts a task, the supervisor   *)
(* picks a specialist, the specialist runs a tool-calling loop that may    *)
(* delegate to other specialists, and the answer is published and goes to  *)
(* the audit log.  Turns of several requests overlap in one process and    *)
(* share the supervisor's circuit breaker.  What becomes of the stream a   *)
(* request opens is in ConversationTurns, whose streams are the same.      *)
(*                                                                         *)
(* A specialist at work is a frame; delegation makes a stack of frames per *)
(* turn.  A frame counts the LLM calls of its loop as the runtime does,    *)
(* after they returned, and (as history) all those it made.  Time is       *)
(* abstract: a breaker entry says whether its cooldown has been outlived.  *)
(* A tool result is the set of record ids that the runtime can read in it: *)
(* one cut at the size limit is no longer JSON and yields none.            *)
(***************************************************************************)
EXTENDS Naturals, Sequences, FiniteSets

CONSTANTS
    Turns,          \* requests
    Specialists,    \* registered specialists
    Searchers,      \* those that have search tools of the MCP server
    Delegates,      \* specialist -> the siblings its definition enables as tools
    Entities,       \* ids of records
    MaxIterations,  \* specialist -> tool_calling.max_tool_iterations
    MaxCalls,       \* specialist -> tool_calling.max_llm_calls
    MaxRetries,     \* attempts at the structured answer
    MaxToolCalls,   \* bound on the tool calls of one LLM response
    AuditRetries    \* retries of an audit write

ASSUME AgentAssumption ==
    /\ Searchers \subseteq Specialists
    /\ Delegates \in [Specialists -> SUBSET Specialists]
    /\ MaxIterations \in [Specialists -> Nat \ {0}]
    /\ MaxCalls \in [Specialists -> Nat \ {0}]
    /\ MaxRetries \in Nat \ {0}
    /\ MaxToolCalls \in Nat \ {0}
    /\ AuditRetries \in Nat

VARIABLES
    breaker,      \* specialist -> failures counted, whether the cooldown is over
    phase,        \* turn -> where its task is
    offered,      \* turn -> the specialists the supervisor's LLM was offered
    stack,        \* turn -> specialists at work, the delegating ones first
    fetched,      \* turn -> ids each specialist's tools returned (history)
    answer,       \* turn -> the structured response
    audit,        \* turn -> the audit record
    failedSince,  \* turn -> specialists that failed since it was offered them (history)
    inARow        \* specialist -> its last failures without a success (history)

vars == <<breaker, phase, offered, stack, fetched, answer, audit, failedSince, inARow>>

Phases == {"new", "refused", "asking", "delegated", "finishing", "failing", "done", "lost"}

Frame == [agent : Specialists, mcp : BOOLEAN,
          at : {"starting", "deciding", "acting", "answering"},
          calls : Nat, made : Nat, todo : 0..MaxToolCalls, tries : Nat,
          known : SUBSET Entities]

Answer == [agent : Specialists \cup {"supervisor"}, status : {"success", "partial", "error"},
           cards : SUBSET Entities]

AuditRecord == [is : {"none", "pending", "logged", "lost"}, tries : 0..AuditRetries]

NoAnswer == [agent |-> "supervisor", status |-> "error", cards |-> {}]

TypeOK ==
    /\ breaker \in [Specialists -> [count : Nat, over : BOOLEAN]]
    /\ phase \in [Turns -> Phases]
    /\ offered \in [Turns -> SUBSET Specialists]
    /\ stack \in [Turns -> Seq(Frame)]
    /\ fetched \in [Turns -> SUBSET (Specialists \X Entities)]
    /\ answer \in [Turns -> Answer]
    /\ audit \in [Turns -> AuditRecord]
    /\ failedSince \in [Turns -> SUBSET Specialists]
    /\ inARow \in [Specialists -> Nat]

Init ==
    /\ breaker = [s \in Specialists |-> [count |-> 0, over |-> FALSE]]
    /\ phase = [t \in Turns |-> "new"]
    /\ offered = [t \in Turns |-> {}]
    /\ stack = [t \in Turns |-> <<>>]
    /\ fetched = [t \in Turns |-> {}]
    /\ answer = [t \in Turns |-> NoAnswer]
    /\ audit = [t \in Turns |-> [is |-> "none", tries |-> 0]]
    /\ failedSince = [t \in Turns |-> {}]
    /\ inARow = [s \in Specialists |-> 0]

---------------------------------------------------------------------------
(* The circuit breaker.  No entry is a count of zero.                      *)

Closed == [count |-> 0, over |-> FALSE]

IsBroken(s) == breaker[s].count > 0 /\ ~breaker[s].over

\* An entry that is over is left in place (mutant).
CheckedKept == breaker

\* Asking whether a specialist is broken deletes an entry that is over.
Checked == [s \in Specialists |-> IF breaker[s].over THEN Closed ELSE breaker[s]]

Trip(s) == [breaker EXCEPT ![s] = [count |-> @.count + 1, over |-> FALSE]]

\* The clock passes the end of a cooldown: none after the first failure, 60
\* seconds after the second, twice as long after each other one up to 300.
CooldownEnds(s) ==
    /\ IsBroken(s)
    /\ breaker' = [breaker EXCEPT ![s].over = TRUE]
    /\ UNCHANGED <<phase, offered, stack, fetched, answer, audit, failedSince, inARow>>

---------------------------------------------------------------------------
(* Frames.                                                                 *)

NewFrame(s) ==
    [agent |-> s, mcp |-> FALSE, at |-> "starting", calls |-> 0, made |-> 0, todo |-> 0,
     tries |-> 0, known |-> {}]

Top(t) == stack[t][Len(stack[t])]
Below(t) == SubSeq(stack[t], 1, Len(stack[t]) - 1)
Working(t, place) == phase[t] = "delegated" /\ Top(t).at = place

\* Every pass of the loop that goes on has made one call, which returned.
LoopOver(f) == f.calls >= MaxIterations[f.agent] \/ f.calls >= MaxCalls[f.agent]

\* A failed tool call is made again (mutant).
ToolDoneAgain(f) == f

\* One tool call of the response is done; the last one ends the pass.
ToolDone(f) ==
    IF f.todo > 1 THEN [f EXCEPT !.todo = @ - 1]
    ELSE [f EXCEPT !.todo = 0, !.at = IF LoopOver(f) THEN "answering" ELSE "deciding"]

HasTools(f) == f.mcp \/ Delegates[f.agent] # {}

\* The retries ignore what the loop has spent (mutant).
AttemptsAlways(f) == MaxRetries

\* Attempts at the structured answer: what the counted calls of the loop left of
\* the budget, but one at least.
Attempts(f) ==
    LET left == IF MaxCalls[f.agent] > f.calls THEN MaxCalls[f.agent] - f.calls ELSE 1
    IN  IF left < MaxRetries THEN left ELSE MaxRetries

\* Without any record to check against, cards are kept (mutant).
GroundedIfAny(cards, known) == IF known = {} THEN cards ELSE cards \cap known

\* A card stays if its record was in a tool result of the frame: all others are invented.
Grounded(cards, known) == cards \cap known

SetTop(t, f) == stack' = [stack EXCEPT ![t] = Append(Below(t), f)]

\* A frame ends below which another one waits for its tool call.
ResumeParent(t) ==
    LET n == Len(stack[t])
    IN  stack' = [stack EXCEPT ![t] = Append(SubSeq(@, 1, n - 2), ToolDone(@[n - 1]))]

\* The top frame returns its response: to the tool call of the frame below,
\* which learns no record of it, or to the supervisor.
Return(t, response) ==
    /\ IF Len(stack[t]) > 1
       THEN ResumeParent(t) /\ UNCHANGED <<phase, answer, inARow>>
       ELSE /\ stack' = [stack EXCEPT ![t] = <<>>]
            /\ answer' = [answer EXCEPT ![t] = response]
            /\ phase' = [phase EXCEPT ![t] = "finishing"]
            /\ inARow' = [inARow EXCEPT ![Top(t).agent] = 0]
    /\ UNCHANGED <<breaker, offered, fetched, audit, failedSince>>

\* An exception leaves the top frame: a failed tool call for the frame below;
\* the supervisor counts it against the specialist it had chosen.
Raise(t) ==
    /\ IF Len(stack[t]) > 1
       THEN ResumeParent(t) /\ UNCHANGED <<breaker, phase, answer, failedSince, inARow>>
       ELSE LET s == Top(t).agent IN
            /\ stack' = [stack EXCEPT ![t] = <<>>]
            /\ breaker' = Trip(s)
            /\ inARow' = [inARow EXCEPT ![s] = @ + 1]
            /\ failedSince' = [u \in Turns |-> IF offered[u] = {} THEN {} ELSE failedSince[u] \cup {s}]
            /\ answer' = [answer EXCEPT ![t] = [NoAnswer EXCEPT !.agent = s]]
            /\ phase' = [phase EXCEPT ![t] = "finishing"]
    /\ UNCHANGED <<offered, fetched, audit>>

---------------------------------------------------------------------------
(* The endpoint and the supervisor.                                        *)

\* The guardrail or Redis refuses the request, or its task starts: the breaker
\* is asked about every specialist.
Open(t) ==
    /\ phase[t] = "new"
    /\ \/ /\ phase' = [phase EXCEPT ![t] = "refused"]
          /\ UNCHANGED <<breaker, offered>>
       \/ /\ phase' = [phase EXCEPT ![t] = "asking"]
          /\ breaker' = Checked
          /\ offered' = [offered EXCEPT ![t] = {s \in Specialists : ~IsBroken(s)}]
    /\ UNCHANGED <<stack, fetched, answer, audit, failedSince, inARow>>

\* The supervisor's LLM answers: it fails or names no registered specialist; it
\* answers itself; its arguments are no JSON; or it names a specialist, which is
\* run whether or not it was offered.
Route(t) ==
    /\ phase[t] = "asking"
    /\ \/ \E status \in {"error", "success"} :
             /\ answer' = [answer EXCEPT ![t] = [NoAnswer EXCEPT !.status = status]]
             /\ phase' = [phase EXCEPT ![t] = "finishing"]
             /\ UNCHANGED stack
       \/ /\ phase' = [phase EXCEPT ![t] = "failing"]
          /\ UNCHANGED <<answer, stack>>
       \/ \E s \in Specialists :
             /\ stack' = [stack EXCEPT ![t] = <<NewFrame(s)>>]
             /\ phase' = [phase EXCEPT ![t] = "delegated"]
             /\ UNCHANGED answer
    /\ UNCHANGED <<breaker, offered, fetched, audit, failedSince, inARow>>

\* What a task leaves behind of its own variables.
Forget(t) ==
    /\ offered' = [offered EXCEPT ![t] = {}]
    /\ fetched' = [fetched EXCEPT ![t] = {}]
    /\ answer' = [answer EXCEPT ![t] = NoAnswer]
    /\ failedSince' = [failedSince EXCEPT ![t] = {}]

\* Guardrails, the response event and the audit task, then "done".  No audit record
\* comes of an answer that could not be published, which becomes an error event if
\* Redis still takes one, nor of one whose record or executor could not be made.
Publish(t) ==
    /\ \/ /\ phase[t] = "finishing"
          /\ audit' = [audit EXCEPT ![t].is = "pending"]
       \/ /\ phase[t] \in {"finishing", "failing"}
          /\ UNCHANGED audit
    /\ phase' = [phase EXCEPT ![t] = "done"]
    /\ Forget(t)
    /\ UNCHANGED <<breaker, stack, inARow>>

Logged(a) == [a EXCEPT !.is = "logged"]

\* After the last attempt they are counted from the start (mutant).
AuditAgain(a) == {[a EXCEPT !.tries = (@ + 1) % (AuditRetries + 1)]}

\* An attempt after the last one is tried first (mutant).
AuditOnceMore(a) == {IF a.tries <= AuditRetries THEN [a EXCEPT !.tries = @ + 1] ELSE Logged(a)}

\* One attempt at an audit record.  Without Postgres it goes to the log file at
\* once.  With it the attempt fails, as its query takes five parameters and is
\* given nine; after the last one the log file has the record.
AuditAttempt(a) ==
    {IF a.tries < AuditRetries THEN [a EXCEPT !.tries = @ + 1] ELSE Logged(a)}
        \cup (IF a.tries = 0 THEN {Logged(a)} ELSE {})

WriteAudit(t) ==
    /\ audit[t].is = "pending"
    /\ \E result \in AuditAttempt(audit[t]) : audit' = [audit EXCEPT ![t] = result]
    /\ UNCHANGED <<breaker, phase, offered, stack, fetched, answer, failedSince, inARow>>

\* The process stops: it waits for no task and flushes no audit record, as nothing
\* calls flush_pending.  The breaker is forgotten with it.
Shutdown ==
    /\ \E t \in Turns : phase[t] # "lost"
    /\ breaker' = [s \in Specialists |-> Closed]
    /\ phase' = [t \in Turns |-> "lost"]
    /\ audit' = [t \in Turns |->
                    IF audit[t].is = "pending" THEN [audit[t] EXCEPT !.is = "lost"] ELSE audit[t]]
    /\ stack' = [t \in Turns |-> <<>>]
    /\ offered' = [t \in Turns |-> {}]
    /\ fetched' = [t \in Turns |-> {}]
    /\ answer' = [t \in Turns |-> NoAnswer]
    /\ failedSince' = [t \in Turns |-> {}]
    /\ inARow' = [s \in Specialists |-> 0]

---------------------------------------------------------------------------
(* The specialist on top of the stack.                                     *)

\* Whether the MCP server lists its tools to the specialist.
Listed(s) == IF s \in Searchers THEN BOOLEAN ELSE {FALSE}

\* Its tools are collected (none of the MCP server if that is unreachable) and
\* its prompt is rendered, which may fail.
Start(t) ==
    /\ Working(t, "starting")
    /\ \/ \E mcp \in Listed(Top(t).agent) :
             SetTop(t, [Top(t) EXCEPT !.mcp = mcp, !.at = "deciding"])
             /\ UNCHANGED <<breaker, phase, offered, fetched, answer, audit, failedSince, inARow>>
       \/ Raise(t)

\* What one call of the LLM router comes to, after the fallbacks of its lane: it
\* raises, and is not counted, or returns text, or tool calls if it was given tools.
Called(f) ==
    LET begun == [f EXCEPT !.made = @ + 1]
        back == [begun EXCEPT !.calls = @ + 1]
        chosen == IF HasTools(f) THEN 1..MaxToolCalls ELSE {}
    IN  {[begun EXCEPT !.at = "answering"], [back EXCEPT !.at = "answering"]}
            \cup {[back EXCEPT !.at = "acting", !.todo = n] : n \in chosen}

\* One LLM call of the loop; anything but tool calls ends it.
Decide(t) ==
    /\ Working(t, "deciding")
    /\ \E f \in Called(Top(t)) : SetTop(t, f)
    /\ UNCHANGED <<breaker, phase, offered, fetched, answer, audit, failedSince, inARow>>

\* The next tool call fails, or a search returns records.
Search(t) ==
    /\ Working(t, "acting")
    /\ \E ids \in SUBSET Entities :
          /\ ids # {} => Top(t).mcp
          /\ SetTop(t, [ToolDone(Top(t)) EXCEPT !.known = @ \cup ids])
          /\ fetched' = [fetched EXCEPT ![t] = @ \cup ({Top(t).agent} \X ids)]
    /\ UNCHANGED <<breaker, phase, offered, answer, audit, failedSince, inARow>>

\* The next tool call delegates to a sibling, whatever the breaker says of it;
\* arguments that are JSON but no object raise instead.
Delegate(t) ==
    /\ Working(t, "acting")
    /\ \E s \in Delegates[Top(t).agent] \ {Top(t).agent} :
          \/ /\ stack' = [stack EXCEPT ![t] = Append(@, NewFrame(s))]
             /\ UNCHANGED <<breaker, phase, offered, fetched, answer, audit, failedSince, inARow>>
          \/ Raise(t)

Respondent(f, status, cards) ==
    [agent |-> f.agent, status |-> status, cards |-> Grounded(cards, f.known)]

\* One call for the structured answer: it fails, or its fences cannot be taken
\* off; it parses; or it does not, and is retried or shown as text.
Respond(t) ==
    /\ Working(t, "answering")
    /\ LET f == Top(t)
            tried == [f EXCEPT !.made = @ + 1, !.tries = @ + 1]
       IN  \/ Return(t, Respondent(f, "error", {}))
           \/ \E cards \in SUBSET Entities : Return(t, Respondent(f, "success", cards))
           \/ /\ tried.tries < Attempts(f)
              /\ SetTop(t, tried)
              /\ UNCHANGED <<breaker, phase, offered, fetched, answer, audit, failedSince, inARow>>
           \/ /\ tried.tries >= Attempts(f)
              /\ Return(t, Respondent(f, "partial", {}))

Work(t) == Start(t) \/ Decide(t) \/ Search(t) \/ Delegate(t) \/ Respond(t)
Task(t) == Route(t) \/ Work(t) \/ Publish(t)

Next ==
    \/ \E t \in Turns : Open(t) \/ Task(t) \/ WriteAudit(t)
    \/ \E s \in Specialists : CooldownEnds(s)
    \/ Shutdown

Spec == Init /\ [][Next]_vars

\* Tasks and audit writes go on: each awaits calls that have timeouts.
FairSpec ==
    /\ Spec
    /\ \A t \in Turns : WF_vars(Task(t)) /\ WF_vars(WriteAudit(t))

---------------------------------------------------------------------------
(* Properties.                                                             *)

\* The LLM calls a specialist has made, with the one it is about to make.
Spent(f) == f.made + (IF f.at \in {"deciding", "answering"} THEN 1 ELSE 0)

\* However the loop ends and however often the structured answer is retried, a
\* specialist's run makes at most one LLM call more than max_llm_calls, and that
\* one only if a call of its loop raised, which the runtime does not count, or its
\* loop had spent the whole budget before the structured answer.  (A comment of the
\* runtime says that the retries never exceed the budget: they do in the first case.)
OverrunExplained ==
    \A t \in Turns : \A i \in 1..Len(stack[t]) :
        LET f == stack[t][i]
            budget == MaxCalls[f.agent]
        IN  Spent(f) > budget =>
               /\ Spent(f) = budget + 1
               /\ f.made > f.calls + f.tries \/ f.calls = budget

\* What the client is shown of a record was returned by a search of the
\* specialist that answers, in this turn: never by a specialist it delegated to,
\* by another turn, or by the LLM alone.
CardsGrounded ==
    \A t \in Turns : \A e \in answer[t].cards : <<answer[t].agent, e>> \in fetched[t]

\* While a turn is at work, a specialist it was offered has only failures that
\* happened since: so a failure is a second one, which trips the breaker, only
\* if another turn that overlaps with this one had the first.  Failures of turns
\* that follow each other are never counted together.
OverlapTrips ==
    \A t \in Turns : \A s \in offered[t] : breaker[s].count > 0 => s \in failedSince[t]

\* No specialist can be asked again below itself: every set of specialists has one
\* that delegates to no other of the set.  The shipped definitions are of this kind,
\* only the planner enables siblings; the registry does not demand it, and offers all
\* siblings to a specialist whose enabled_tools are empty.
DelegationEnds ==
    \A S \in SUBSET Specialists : S # {} => \E s \in S : S \cap Delegates[s] \subseteq {s}

\* If delegation has no cycles, then whatever the LLMs and the tools do, at any
\* depth, a task that has started ends.  With a cycle it need not: nothing bounds
\* the depth at which specialists ask each other.
TurnsEnd ==
    DelegationEnds => \A t \in Turns : phase[t] = "asking" ~> phase[t] \in {"done", "lost"}

\* However often Postgres refuses it, the record of an answer whose audit task was
\* started reaches the log file, unless the process stops before.  (A docstring
\* says that pending records are awaited at a graceful shutdown: they are not.)
AnswersAudited ==
    \A t \in Turns : audit[t].is = "pending" ~> audit[t].is \in {"logged", "lost"}

---------------------------------------------------------------------------
(* What a docstring says of the breaker and the code does not do.          *)

\* "Requires 2 consecutive failures to trip": the second failure of a specialist
\* without a success between trips its breaker.
SecondFailureTrips ==
    [][\A s \in Specialists : inARow[s] = 1 /\ inARow'[s] = 2 => breaker'[s].count >= 2]_vars

===========================================================================
