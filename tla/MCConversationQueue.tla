------------------------ MODULE MCConversationQueue ------------------------
(* Two workers and two messages: one carries a history long enough to be   *)
(* compacted, the other is any kind of message, with a page context if it  *)
(* is an ordinary one of the same session.                                 *)
EXTENDS ConversationQueue

CONSTANTS m1, m2, s1, s2

Long == [kind |-> "turn", session |-> s1, history |-> Exchange(s1) \o Exchange(s2),
         paged |-> FALSE, compact |-> TRUE]
Others ==
    {[Long EXCEPT !.kind = k, !.history = <<>>, !.paged = TRUE] :
        k \in {"turn", "garbled", "array", "sessionless"}}

MCBodies == {(m1 :> Long) @@ (m2 :> b) : b \in Others}
===========================================================================
