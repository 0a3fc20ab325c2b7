----------------------- MODULE MCConversationRequests ------------------------
(***************************************************************************)
(* PATCH bodies: each single replacement, one guarded by a test that may   *)
(* fail after the replacement before it, and one with two replacements.    *)
(***************************************************************************)
EXTENDS ConversationRequests, TLC

CONSTANTS c1, c2, c3, q1, q2, q3, q4, q5

Same == Permutations(Requests) \cup Permutations(Conversations)

Replace(s) == [op |-> "replace", value |-> s]
Test(s) == [op |-> "test", value |-> s]

MCPatches ==
    {<<Replace(s)>> : s \in Statuses}
        \cup {<<Replace("CLOSED"), Test("CLOSED"), Replace("ACTIVE")>>,
              <<[op |-> "other", value |-> "ACTIVE"], Replace("CLOSED")>>,
              <<Replace("ARCHIVED"), Replace("ACTIVE")>>}
=============================================================================
