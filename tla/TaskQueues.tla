----------------------------- MODULE TaskQueues -----------------------------
(***************************************************************************)
(* Which Temporal task queue each activity is routed to, and which queues  *)
(* the running worker processes poll (activities/task_queues.py,           *)
(* worker.py).  A worker is named by its SMI_AGENT_QUEUE, "unset" for a    *)
(* process started without it.                                             *)
(***************************************************************************)
CONSTANT Workers

WorkflowQueue == "smartinerary"

AgentQueues == {"flight-search", "hotel-search", "restaurant-search", "attraction-search",
                "itinerary-generation", "core-services"}

ASSUME WorkersOK == Workers \subseteq AgentQueues \cup {"orchestrator", "unset"}

ResolveQueue(w) == IF w \in AgentQueues THEN w ELSE WorkflowQueue

Polled == {ResolveQueue(w) : w \in Workers}

\* The queues whose pollers run() needs to leave each await.
QueuesOf(stage) ==
    CASE stage \in {"parse", "generate", "regenerate"} -> {"itinerary-generation"}
      [] stage = "flight" -> {"flight-search"}
      [] stage = "hotel"  -> {"hotel-search"}
      [] stage = "local"  -> {"restaurant-search", "attraction-search"}
      [] stage = "review" -> {}
      [] OTHER -> {"core-services"}

\* An activity result only resumes run() if a worker executes the activity
\* and another (or the same) executes the workflow.
Served(stage) == QueuesOf(stage) \cup {WorkflowQueue} \subseteq Polled
=============================================================================
