----------------------------- MODULE Delivery -----------------------------
(***************************************************************************)
(* What consuming a queue promises its senders: a message is worked on any *)
(* number of times, each ending in an answer or in a failure that was      *)
(* reported, and it is taken off the queue only once it came to one of     *)
(* these, or was given up.  A failure is not worked on again on account of *)
(* having failed.                                                          *)
(***************************************************************************)
CONSTANT Messages

VARIABLES
    settled,    \* message -> whether it is off the queue, and why
    answered,   \* messages whose answer was saved
    failed      \* messages whose failure was reported

Init ==
    /\ settled = [m \in Messages |-> "no"]
    /\ answered = {}
    /\ failed = {}

Answer(m) ==
    /\ answered' = answered \cup {m}
    /\ UNCHANGED <<settled, failed>>

Fail(m) ==
    /\ failed' = failed \cup {m}
    /\ UNCHANGED <<settled, answered>>

Acknowledge(m) ==
    /\ settled[m] = "no" /\ m \in answered \cup failed
    /\ settled' = [settled EXCEPT ![m] = "acked"]
    /\ UNCHANGED <<answered, failed>>

GiveUp(m) ==
    /\ settled[m] = "no"
    /\ settled' = [settled EXCEPT ![m] = "dead"]
    /\ UNCHANGED <<answered, failed>>

Next == \E m \in Messages : Answer(m) \/ Fail(m) \/ Acknowledge(m) \/ GiveUp(m)

AtLeastOnce == Init /\ [][Next]_<<settled, answered, failed>>

===========================================================================
