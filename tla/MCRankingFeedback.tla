-------------------------- MODULE MCRankingFeedback --------------------------
(***************************************************************************)
(* Two workflows of one traveler: the feedback of one carries two signals, *)
(* that of the other repeats one of them.                                  *)
(***************************************************************************)
EXTENDS RankingFeedback

CONSTANTS j1, j2, s1, s2

MCCarried == [j \in Jobs |-> IF j = j1 THEN <<s1, s2>> ELSE <<s1>>]
=============================================================================
