------------------------- MODULE ConversationGraph -------------------------
(***************************************************************************)
(* The conversation graph of agents other than the default one: one turn   *)
(* is a record, a node the set of records it may leave.  Nodes touch only  *)
(* their turn (the tokens they stream are left out), so a run of the graph *)
(* is the set of its results.                                              *)
(*                                                                         *)
(* An entry of a history is a message or a summary; "of" lists the         *)
(* messages it stands for.  Token counts are left out: should_compact is   *)
(* what the caller of the turn says, since what generate computes is kept  *)
(* by nobody.                                                              *)
(***************************************************************************)
EXTENDS Naturals, Sequences, SequencesExt

CONSTANTS
    MaxHistoryTurns,    \* conversation.max_history_turns
    UsesTools,          \* tool_calling.enabled
    MaxIterations,      \* tool_calling.max_tool_iterations
    MaxCalls            \* tool_calling.max_llm_calls

ASSUME ConversationGraphAssumption ==
    /\ MaxHistoryTurns \in Nat
    /\ UsesTools \in BOOLEAN
    /\ MaxIterations \in Nat
    /\ MaxCalls \in Nat

\* What a turn adds to a history.
Exchange(m) == << [role |-> "user", of |-> <<m>>], [role |-> "assistant", of |-> <<m>>] >>

\* The turns a history speaks of, message by message.
Covered(history) == FlattenSeq([i \in 1..Len(history) |-> history[i].of])

StartTurn(m, history, paged, compact) ==
    [msg |-> m, paged |-> paged, compact |-> compact, history |-> history,
     calls |-> 0, raised |-> FALSE]

\* A page context that is no PageContext object raises; a failed enrichment changes nothing.
ContextInject(r) == {[r EXCEPT !.raised = r.paged]}

\* The messages that are kept: a quarter of the turns, counted as messages.
KeepTurns == IF MaxHistoryTurns \div 4 > 1 THEN MaxHistoryTurns \div 4 ELSE 1

\* The summary starts one message too late (mutant).
SummariseShort(h) ==
    << [role |-> "system", of |-> Covered(SubSeq(h, 2, Len(h) - KeepTurns))] >>
        \o SubSeq(h, Len(h) - KeepTurns + 1, Len(h))

Summarise(h) ==
    << [role |-> "system", of |-> Covered(SubSeq(h, 1, Len(h) - KeepTurns))] >>
        \o SubSeq(h, Len(h) - KeepTurns + 1, Len(h))

\* Only if the caller asks for it; a short history is left alone, as is any if the LLM fails.
Compact(r) ==
    {r} \cup (IF r.compact /\ Len(r.history) > KeepTurns
              THEN {[r EXCEPT !.history = Summarise(@)]} ELSE {})

\* The loop ends with no tools, a failed call or an answer, and goes on after
\* tool calls until an iteration or a call is one too many.
ReactLoop(r) ==
    {[r EXCEPT !.calls = n] :
        n \in {k \in 0..MaxIterations : UsesTools /\ k <= MaxCalls} \cup {0}}

\* A streaming call is refused, or ends early, and leaves no answer; or it answers.
Streamed(r) == {r, [r EXCEPT !.history = @ \o Exchange(r.msg)]}

\* The prompt cannot be rendered; or the LLM is called, and may answer with nothing.
Generate(r) == {[r EXCEPT !.raised = TRUE]} \cup Streamed(r)

\* What the runner reads of a turn: nothing if the graph raised, and never the calls.
Result(r, of) == [of EXCEPT !.raised = r.raised, !.history = IF r.raised THEN @ ELSE r.history]

\* What a run of the graph may result in: a node that raises ends it.
GraphResults(r) ==
    LET injected == ContextInject(r)
        compacted == UNION {Compact(x) : x \in injected}
        searched == UNION {ReactLoop(x) : x \in compacted}
        generated == UNION {Generate(x) : x \in searched}
    IN  {Result(x, r) : x \in IF \E i \in injected : i.raised THEN injected ELSE generated}

===========================================================================
