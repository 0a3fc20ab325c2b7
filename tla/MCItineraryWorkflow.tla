------------------------ MODULE MCItineraryWorkflow ------------------------
(* A small instance of ItineraryWorkflow for TLC. *)
EXTENDS ItineraryWorkflow

CONSTANTS c1, c2, b1

\* The hotel search may fail or find nothing.
MCListings == [flight |-> {<<c1, c2>>}, hotel |-> {<<c1>>, <<>>},
               restaurant |-> {<<c1>>}, attraction |-> {<<c1, c2>>}]

MCIntents == {Unresolved,
              [complete |-> TRUE, purpose |-> "leisure", budget |-> NoBudget],
              [complete |-> TRUE, purpose |-> "business", budget |-> b1]}

MCEdits ==
    {[section |-> "flight", candidate |-> c, budget |-> NoBudget] : c \in {c1, c2}}
    \cup {[section |-> "attraction", candidate |-> c2, budget |-> NoBudget]}
    \cup {[section |-> "budget", candidate |-> NoCandidate, budget |-> b] : b \in {b1, BadBudget}}
    \cup {[section |-> "other", candidate |-> c1, budget |-> NoBudget]}

MCRatings ==
    {[section |-> "flight", candidate |-> c2, stars |-> 5],
     [section |-> "flight", candidate |-> c2, stars |-> 6]}

\* One worker per agent.
AgentWorkers == AgentQueues \cup {"orchestrator"}
=============================================================================
