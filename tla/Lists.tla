-------------------------------- MODULE Lists --------------------------------
(***************************************************************************)
(* Lists of candidates, sequences of ids without their attributes: what    *)
(* they hold, and how a pick comes to their front (activities/             *)
(* itinerary_workflow.py).                                                 *)
(***************************************************************************)
EXTENDS Naturals, Sequences

Elements(l) == {l[i] : i \in DOMAIN l}

\* Mutants: the pick lands second; the pick overwrites the first candidate.
ReorderToSecond(l, c) ==
    IF c \notin Elements(l) \/ Len(l) < 2 THEN l
    ELSE [l EXCEPT ![1] = l[CHOOSE i \in DOMAIN l : l[i] # c], ![2] = c]

OverwriteFront(l, c) ==
    IF c \notin Elements(l) THEN l ELSE [l EXCEPT ![1] = c]

\* _reorder_to_front: a stable sort on "is not the chosen id".
ReorderToFront(l, c) ==
    IF c \notin Elements(l) THEN l
    ELSE LET at == CHOOSE i \in DOMAIN l : l[i] = c
         IN  [i \in DOMAIN l |-> IF i = 1 THEN c
                                 ELSE IF i <= at THEN l[i - 1] ELSE l[i]]
=============================================================================
