----------------------------- MODULE Transcript -----------------------------
(***************************************************************************)
(* What the durable half of a conversation promises, with none of the      *)
(* requests, caches and transactions that implement it: a log of whole     *)
(* turns that only grows and holds a turn at most once, and a lock that    *)
(* only a full conversation gets.                                          *)
(***************************************************************************)
EXTENDS Naturals, Sequences

CONSTANTS Turns, MaxMessages, MaxTokens

VARIABLES
    log,     \* the turns recorded, in order
    spent,   \* the tokens they used
    status   \* ACTIVE, CEILING_HIT, CLOSED or ARCHIVED

logVars == <<log, spent, status>>

LogInit == log = <<>> /\ spent = 0 /\ status = "ACTIVE"

Full(l, n) == 2 * Len(l) >= MaxMessages \/ n >= MaxTokens

Record(t) ==
    /\ \A i \in DOMAIN log : log[i] # t
    /\ log' = Append(log, t)
    /\ spent' \in {spent, spent + 1}
    /\ status' = status \/ (status' = "CEILING_HIT" /\ Full(log', spent'))

\* The user closes, reopens or archives the conversation.
Decide ==
    /\ status' \in {"ACTIVE", "CLOSED", "ARCHIVED"}
    /\ UNCHANGED <<log, spent>>

LogNext == Decide \/ \E t \in Turns : Record(t)

LogSpec == LogInit /\ [][LogNext]_logVars
=============================================================================
