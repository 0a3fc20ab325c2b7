------------------------- MODULE ConversationQueue -------------------------
(***************************************************************************)
(* Conversation turns that arrive as messages of a STOMP queue.  Each      *)
(* process of the API runs one worker, the consumers compete, and each     *)
(* worker takes one message after the other from the frames its listener   *)
(* has put into its inbox.  A turn is run as for an HTTP request, but the  *)
(* session is never loaded: its history is what the message carries.       *)
(*                                                                         *)
(* A connection is made once and never again.  The broker is external: it  *)
(* delivers in any order, and delivers again what was not acknowledged     *)
(* over a connection that is lost.                                         *)
(***************************************************************************)
EXTENDS ConversationGraph, FiniteSets

CONSTANTS
    Workers,
    Messages,
    Sessions,
    Bodies,             \* what the messages may hold: a set of functions
    MaxRedeliveries,    \* of a refused message, before the broker gives it up
    MaxLosses,          \* bound on the connections that are lost
    Lost                \* the error the listener posts when the connection is lost

VARIABLES
    body,       \* message -> what its frame holds
    queue,      \* messages the broker can deliver
    held,       \* worker -> messages delivered to it that it has not acknowledged
    inbox,      \* worker -> its asyncio queue
    link,       \* worker -> its connection
    worker,     \* worker -> where its loop is
    turn,       \* worker -> the turn it runs
    settled,    \* message -> whether the broker is done with it
    session,    \* session -> history saved by a worker
    ended,      \* how turns of messages ended that saved a session (history)
    runs,       \* message -> turns started for it (history)
    losses      \* message -> times the broker had to deliver it again (history)

vars == <<body, queue, held, inbox, link, worker, turn, settled, session, ended, runs, losses>>

broker == <<body, queue, held, link, settled, losses>>

Body == [kind : {"turn", "garbled", "array", "sessionless"}, session : Sessions,
         history : Seq([role : {"user", "assistant", "system"}, of : Seq(Messages \cup Sessions)]),
         paged : BOOLEAN, compact : BOOLEAN]

ASSUME QueueAssumption ==
    /\ Bodies \subseteq [Messages -> Body]
    /\ MaxRedeliveries \in Nat
    /\ MaxLosses \in Nat
    /\ Lost \notin Messages
    /\ IsFiniteSet(Messages)

\* A turn that saves a session saved its answer, or was reported as failed.
Ends == {"answered", "failed"}

NoHistory == <<>>
NoTurn == StartTurn(Lost, NoHistory, FALSE, FALSE)

Places == {"idle", "running", "publishing", "saving", "failing", "restoring", "acking",
           "nacking", "dead"}

TypeOK ==
    /\ body \in Bodies
    /\ queue \subseteq Messages
    /\ held \in [Workers -> SUBSET Messages]
    /\ inbox \in [Workers -> Seq(Messages \cup {Lost})]
    /\ link \in [Workers -> {"off", "up", "down"}]
    /\ worker \in [Workers -> Places]
    /\ \A w \in Workers :
          /\ turn[w].msg \in Messages \cup {Lost}
          /\ ~turn[w].raised
    /\ settled \in [Messages -> {"no", "acked", "dead"}]
    /\ ended \subseteq Ends \X Messages
    /\ runs \in [Messages -> Nat]
    /\ losses \in [Messages -> Nat]

Init ==
    /\ body \in Bodies
    /\ queue = Messages
    /\ held = [w \in Workers |-> {}]
    /\ inbox = [w \in Workers |-> <<>>]
    /\ link = [w \in Workers |-> "off"]
    /\ worker = [w \in Workers |-> "idle"]
    /\ turn = [w \in Workers |-> NoTurn]
    /\ settled = [m \in Messages |-> "no"]
    /\ session = [s \in Sessions |-> NoHistory]
    /\ ended = {}
    /\ runs = [m \in Messages |-> 0]
    /\ losses = [m \in Messages |-> 0]

---------------------------------------------------------------------------
(* The broker and the connections.                                         *)

\* The first consume() connects and subscribes; a worker that cannot is over.
Connect(w) ==
    /\ link[w] = "off" /\ worker[w] = "idle"
    /\ \/ link' = [link EXCEPT ![w] = "up"] /\ UNCHANGED worker
       \/ worker' = [worker EXCEPT ![w] = "dead"] /\ UNCHANGED link
    /\ UNCHANGED <<body, queue, held, inbox, turn, settled, session, ended, runs, losses>>

\* A frame arrives, whether or not anyone still reads the inbox.
Deliver(w, m) ==
    /\ link[w] = "up" /\ m \in queue
    /\ queue' = queue \ {m}
    /\ held' = [held EXCEPT ![w] = @ \cup {m}]
    /\ inbox' = [inbox EXCEPT ![w] = Append(@, m)]
    /\ UNCHANGED <<body, link, worker, turn, settled, session, ended, runs, losses>>

\* The broker takes back what was not acknowledged over w's connection.
TakeBack(w) ==
    /\ Cardinality({v \in Workers : link[v] = "down"}) < MaxLosses
    /\ link' = [link EXCEPT ![w] = "down"]
    /\ queue' = queue \cup held[w]
    /\ losses' = [m \in Messages |-> IF m \in held[w] THEN losses[m] + 1 ELSE losses[m]]
    /\ held' = [held EXCEPT ![w] = {}]
    /\ UNCHANGED <<body, settled, session, ended, runs>>

\* The listener posts the error behind the frames that are there already.
Disconnect(w) ==
    /\ link[w] = "up"
    /\ TakeBack(w)
    /\ inbox' = [inbox EXCEPT ![w] = Append(@, Lost)]
    /\ UNCHANGED <<worker, turn>>

\* The process stops: the worker is cancelled wherever it is.
Stop(w) ==
    /\ worker[w] # "dead" \/ link[w] = "up"
    /\ TakeBack(w)
    /\ inbox' = [inbox EXCEPT ![w] = <<>>]
    /\ worker' = [worker EXCEPT ![w] = "dead"]
    /\ turn' = [turn EXCEPT ![w] = NoTurn]

---------------------------------------------------------------------------
(* The worker's loop.                                                      *)

\* The frame is read but not removed (mutant).
Peek(w) == inbox' = inbox

\* The next item leaves the inbox.
Get(w) == inbox' = [inbox EXCEPT ![w] = Tail(@)]

At(w, place) == worker' = [worker EXCEPT ![w] = place]

Waiting(w) == worker[w] = "idle" /\ inbox[w] # <<>>

\* A lost connection ends the worker, and so does a frame that is JSON but no object.
Exit(w) ==
    /\ Waiting(w)
    /\ Head(inbox[w]) # Lost => body[Head(inbox[w])].kind = "array"
    /\ Get(w)
    /\ At(w, "dead")
    /\ UNCHANGED <<broker, turn, session, ended, runs>>

\* A frame that is no JSON is skipped, without a word to the broker.
Skip(w) ==
    /\ Waiting(w) /\ Head(inbox[w]) # Lost
    /\ body[Head(inbox[w])].kind = "garbled"
    /\ Get(w)
    /\ UNCHANGED <<broker, worker, turn, session, ended, runs>>

\* What a message asks for.
TurnOf(m) == StartTurn(m, body[m].history, body[m].paged, body[m].compact)

\* A turn starts; one without a session_id is refused before anything is done for it.
Take(w) ==
    /\ Waiting(w) /\ Head(inbox[w]) # Lost
    /\ LET m == Head(inbox[w])
       IN  /\ turn' = [turn EXCEPT ![w] = TurnOf(m)]
           /\ \/ body[m].kind = "turn" /\ At(w, "running") /\ runs' = [runs EXCEPT ![m] = @ + 1]
              \/ body[m].kind = "sessionless" /\ At(w, "nacking") /\ UNCHANGED runs
    /\ Get(w)
    /\ UNCHANGED <<broker, session, ended>>

\* An exception of the graph is taken for a result without a reply (mutant).
RunOn(w) ==
    /\ worker[w] = "running"
    /\ \E r \in GraphResults(turn[w]) : turn' = [turn EXCEPT ![w] = r]
    /\ At(w, "publishing")
    /\ UNCHANGED <<broker, inbox, session, ended, runs>>

\* The turn goes on without its result: its message is all that is left of it.
Drop(w, place) ==
    /\ turn' = [turn EXCEPT ![w] = TurnOf(@.msg)]
    /\ At(w, place)

\* The graph is run on the turn, to its end or to an exception.
Run(w) ==
    /\ worker[w] = "running"
    /\ \E r \in GraphResults(turn[w]) :
          \/ r.raised /\ Drop(w, "failing")
          \/ ~r.raised /\ turn' = [turn EXCEPT ![w] = r] /\ At(w, "publishing")
    /\ UNCHANGED <<broker, inbox, session, ended, runs>>

\* Errors, reply, meta and "done" are published, or Redis fails.
Publish(w) ==
    /\ worker[w] = "publishing"
    /\ \/ At(w, "saving") /\ UNCHANGED turn
       \/ Drop(w, "failing")
    /\ UNCHANGED <<broker, inbox, session, ended, runs>>

SaveAs(w, history, end) ==
    /\ session' = [session EXCEPT ![body[turn[w].msg].session] = history]
    /\ ended' = ended \cup {<<end, turn[w].msg>>}
    /\ Drop(w, "acking")

\* Without an answer in its history, the turn has published the errors of its result.
EndOf(r) == IF IsSuffix(Exchange(r.msg), r.history) THEN "answered" ELSE "failed"

Save(w) ==
    /\ worker[w] = "saving"
    /\ \/ SaveAs(w, turn[w].history, EndOf(turn[w]))
       \/ Drop(w, "failing") /\ UNCHANGED <<session, ended>>
    /\ UNCHANGED <<broker, inbox, runs>>

\* An exception: error and "done" are published, or the exception leaves the turn.
Apologise(w) ==
    /\ worker[w] = "failing"
    /\ At(w, "restoring") \/ At(w, "nacking")
    /\ UNCHANGED <<broker, inbox, turn, session, ended, runs>>

\* What a failed turn writes back: the history of its state, as the message carried it.
KeptHistory(w) == body[turn[w].msg].history

Restore(w) ==
    /\ worker[w] = "restoring"
    /\ \/ SaveAs(w, KeptHistory(w), "failed")
       \/ Drop(w, "nacking") /\ UNCHANGED <<session, ended>>
    /\ UNCHANGED <<broker, inbox, runs>>

\* A reply is sent, or none over a lost connection; the loop goes on with the next frame.
Reply(w, result) ==
    /\ At(w, "idle")
    /\ turn' = [turn EXCEPT ![w] = NoTurn]
    /\ IF link[w] = "up"
       THEN /\ held' = [held EXCEPT ![w] = @ \ {turn[w].msg}]
            /\ \/ settled' = [settled EXCEPT ![turn[w].msg] = result]
                  /\ UNCHANGED <<queue, losses>>
               \/ /\ result = "dead" /\ losses[turn[w].msg] < MaxRedeliveries
                  /\ queue' = queue \cup {turn[w].msg}
                  /\ losses' = [losses EXCEPT ![turn[w].msg] = @ + 1]
                  /\ UNCHANGED settled
       ELSE UNCHANGED <<held, settled, queue, losses>>
    /\ UNCHANGED <<body, link, inbox, session, ended, runs>>

\* A turn is acknowledged though it failed (mutant).
AckAnyway(w) == worker[w] \in {"acking", "nacking"} /\ Reply(w, "acked")

\* An answered turn is acknowledged, and so is a failed one; an acknowledgement that
\* raises is followed by a refusal.
Ack(w) ==
    /\ worker[w] = "acking"
    /\ \/ Reply(w, "acked")
       \/ /\ link[w] = "up" /\ At(w, "nacking")
          /\ UNCHANGED <<broker, inbox, turn, session, ended, runs>>

\* A message without a session is only logged (mutant).
LogOnly(w) ==
    /\ worker[w] = "nacking" /\ At(w, "idle")
    /\ turn' = [turn EXCEPT ![w] = NoTurn]
    /\ UNCHANGED <<broker, inbox, session, ended, runs>>

\* A refusal that raises ends the worker, which stays subscribed.
Nack(w) ==
    /\ worker[w] = "nacking"
    /\ \/ Reply(w, "dead")
       \/ /\ link[w] = "up" /\ At(w, "dead")
          /\ turn' = [turn EXCEPT ![w] = NoTurn]
          /\ UNCHANGED <<broker, inbox, session, ended, runs>>

Work(w) ==
    \/ Exit(w) \/ Skip(w) \/ Take(w) \/ Run(w) \/ Publish(w) \/ Save(w)
    \/ Apologise(w) \/ Restore(w) \/ Ack(w) \/ Nack(w)

Next ==
    \E w \in Workers :
        \/ Connect(w) \/ Work(w) \/ Disconnect(w) \/ Stop(w)
        \/ \E m \in Messages : Deliver(w, m)

Spec == Init /\ [][Next]_vars

\* Tasks that are ready go on, and the broker delivers what it can.
FairSpec ==
    /\ Spec
    /\ \A w \in Workers : WF_vars(Connect(w)) /\ WF_vars(Work(w))
    /\ WF_vars(\E w \in Workers, m \in Messages : Deliver(w, m))

---------------------------------------------------------------------------
(* Properties.                                                             *)

\* A message is acknowledged only when a turn of it has saved its answer, or has
\* failed, told its client so and saved a history, by whichever worker and over
\* whichever connection; else it stays with the broker or is given up by it.  So a
\* failure takes a message off the queue as an answer does, and is not tried again.
Ended(end) == {m \in Messages : <<end, m>> \in ended}
D == INSTANCE Delivery WITH answered <- Ended("answered"), failed <- Ended("failed")
ImplementsDelivery == D!AtLeastOnce

\* A message is run once, and once more at most for each time the broker had to
\* deliver it again: frames that are still in an inbox when the connection is
\* lost are run by this worker and by the next one, but never three times.
RunsExplained == \A m \in Messages : runs[m] <= 1 + losses[m]

\* Whatever node of the graph failed and whether or not a history was compacted
\* on the way, the session a worker saves covers every message that the queue
\* message it works on carried, in order, and else this turn at most.
SavesCarriedHistory ==
    [][\A s \in Sessions : session'[s] # session[s] =>
          \E w \in Workers :
              LET m == turn[w].msg
              IN  /\ worker[w] # "acking" /\ worker'[w] = "acking"
                  /\ body[m].session = s
                  /\ Covered(session'[s]) \in {Covered(body[m].history),
                                               Covered(body[m].history) \o <<m, m>>}]_vars

\* A turn in the queue is settled, unless no worker is left, or it was delivered
\* to one that is over while its connection is still subscribed.
MessagesSettled ==
    \A m \in Messages :
        <>(\/ settled[m] # "no" \/ body[m].kind \in {"garbled", "array"}
           \/ \A w \in Workers : worker[w] = "dead"
           \/ \E w \in Workers : worker[w] = "dead" /\ m \in held[w])

===========================================================================
