--------------------------- MODULE MCAgentTurns ---------------------------
(* Two overlapping turns; a planner that delegates to a specialist that    *)
(* delegates to one that searches, with small budgets: the planner's can   *)
(* be overrun by a call that raises, the searcher's by its loop.           *)
EXTENDS AgentTurns

CONSTANTS planner, hotel, flight

MCDelegates ==
    [s \in Specialists |->
        CASE s = planner -> {hotel, flight} [] s = hotel -> {flight} [] s = flight -> {}]
MCIterations == [s \in Specialists |-> IF s = planner THEN 2 ELSE 1]
MCCalls == [s \in Specialists |-> IF s = planner THEN 3 ELSE 1]
===========================================================================
