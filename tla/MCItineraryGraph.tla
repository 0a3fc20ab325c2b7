-------------------------- MODULE MCItineraryGraph --------------------------
(* A small instance of ItineraryGraph for TLC. *)
EXTENDS ItineraryGraph, TLC

CONSTANTS c1, c2, c3

\* A section's list may be missing, short, or longer than what is shown of it.
MCListings == [flight |-> {<<c1, c2>>}, hotel |-> {<<c2, c1>>, <<c1>>, <<>>},
               restaurant |-> {<<c1>>}, attraction |-> {<<c1, c2, c3>>, <<>>}]

\* The best ranked flight is the cheaper one, the best ranked hotel the dearer one,
\* and nothing is known of the restaurant's price.
MCPrice == [flight |-> (c1 :> 2 @@ c2 :> 4 @@ c3 :> 9),
            hotel |-> (c1 :> 2 @@ c2 :> 3 @@ c3 :> 9),
            restaurant |-> (c1 :> 0 @@ c2 :> 1 @@ c3 :> 1),
            attraction |-> (c1 :> 1 @@ c2 :> 0 @@ c3 :> 1)]

MCBudgets == {0, 4, 6, 8}

MCIntents == {[complete |-> TRUE, purpose |-> p, budget |-> b] :
                 p \in {"leisure", "business"}, b \in MCBudgets \cup {NoBudget}}
             \cup {Unresolved}
=============================================================================
