------------------------ MODULE ConversationRequests -------------------------
(***************************************************************************)
(* The conversations of one user of the chat API, and the requests that    *)
(* create, PATCH and DELETE them (api/app.py, api/conversation_service.py  *)
(* ), next to the chat turns that may lock them.  No request holds a lock: *)
(* it reads what it needs with one query and writes with others, and every *)
(* query is one action here.  Titles, contexts and display ids are left    *)
(* out, and requests that only read.                                       *)
(***************************************************************************)
EXTENDS Naturals, Sequences, FiniteSets

CONSTANTS
    Conversations,  \* bound: the ids create_conversation may draw
    Requests,       \* bound: requests and turns sent
    Patches,        \* the arrays of operations a PATCH may carry
    MaxActive,      \* max_active_conversations_per_user
    None            \* no conversation

Statuses == {"ACTIVE", "CEILING_HIT", "CLOSED", "ARCHIVED"}

\* An operation on /status; "other" is one on /title or a path not patchable.
Operations == [op : {"test", "replace", "other"}, value : Statuses]

ASSUME RequestsOK ==
    /\ Patches \subseteq Seq(Operations) \ {<<>>}
    /\ \A p \in Patches : Len(p) <= 10
    /\ MaxActive \in Nat \ {0}
    /\ None \notin Conversations
    /\ IsFiniteSet(Conversations)

VARIABLES
    status,    \* the conversations' status; "none" before the insert
    request,   \* what each request is doing, and what it has read
    shared,    \* history: conversations two requests worked on at once
    rewritten, \* history: conversations of a PATCH with two replacements
    crowded    \* history: a create overlapped another, or something reopened

vars == <<status, request, shared, rewritten, crowded>>

Existing == {c \in Conversations : status[c] # "none"}
Active == {c \in Conversations : status[c] = "ACTIVE"}

Unsent == [kind |-> "unsent", on |-> None, view |-> "none", ops |-> <<>>]
Over == [Unsent EXCEPT !.kind = "over"]

Creating == {r \in Requests : request[r].kind = "create"}
WorkingOn(c) == {r \in Requests : request[r].on = c}

Init ==
    /\ status = [c \in Conversations |-> "none"]
    /\ request = [r \in Requests |-> Unsent]
    /\ shared = {} /\ rewritten = {} /\ crowded = FALSE
-----------------------------------------------------------------------------
(* Creating a conversation.                                                *)

\* count_active_conversations: at the limit the answer is 409.
Count(r) ==
    /\ request[r].kind = "unsent"
    /\ request' = [request EXCEPT ![r] =
                      IF Cardinality(Active) < MaxActive
                      THEN [Unsent EXCEPT !.kind = "create"] ELSE Over]
    /\ crowded' = (crowded \/ Creating # {})
    /\ UNCHANGED <<status, shared, rewritten>>

\* (mutant) The reply is sent, and the conversation inserted, apart from it.
InsertTwice(r) ==
    /\ request[r].kind = "create"
    /\ \E c \in Conversations \ Existing :
          status' = [status EXCEPT ![c] = "ACTIVE"]
    /\ request' \in {request, [request EXCEPT ![r] = Over]}
    /\ UNCHANGED <<shared, rewritten, crowded>>

\* insert_conversation, under a fresh id.
Insert(r) ==
    /\ request[r].kind = "create"
    /\ \E c \in Conversations \ Existing :
          status' = [status EXCEPT ![c] = "ACTIVE"]
    /\ request' = [request EXCEPT ![r] = Over]
    /\ UNCHANGED <<shared, rewritten, crowded>>
-----------------------------------------------------------------------------
(* PATCH, DELETE and chat turns.                                           *)

\* Request r has read the row of c, and will do the operations.
Read(r, kind, c, ops) ==
    /\ request[r].kind = "unsent"
    /\ request' = [request EXCEPT ![r] = [kind |-> kind, on |-> c,
                                          view |-> status[c], ops |-> ops]]
    /\ shared' = IF WorkingOn(c) = {} THEN shared ELSE shared \cup {c}
    /\ UNCHANGED <<status, crowded>>

Replacements(ops) == {i \in DOMAIN ops : ops[i].op = "replace"}

Patch(r) ==
    \E c \in Existing, ops \in Patches :
        /\ Read(r, "patch", c, ops)
        /\ rewritten' = IF Cardinality(Replacements(ops)) > 1
                        THEN rewritten \cup {c} ELSE rewritten

Delete(r) ==
    \E c \in Existing :
        /\ Read(r, "delete", c, <<[op |-> "replace", value |-> "ARCHIVED"]>>)
        /\ UNCHANGED rewritten

\* A turn is admitted to an active conversation; its counters are not here.
Chat(r) ==
    \E c \in Active :
        /\ Read(r, "chat", c, <<[op |-> "replace", value |-> "CEILING_HIT"]>>)
        /\ UNCHANGED rewritten

\* _VALID_TRANSITIONS, over the status a PATCH has read.
ValidFrom(s) ==
    CASE s = "ACTIVE" -> {"CLOSED"}
      [] s = "CEILING_HIT" -> {"CLOSED", "ACTIVE"}
      [] s = "CLOSED" -> {"ARCHIVED", "ACTIVE"}
      [] OTHER -> {}

\* (mutant) DELETE archives whatever it finds.
MayArchive(q, value) == q.kind = "patch" => value \in ValidFrom(q.view)

\* What request q may write: DELETE archives what is closed, a turn locks.
MayWrite(q, value) ==
    CASE q.kind = "patch" -> value \in ValidFrom(q.view)
      [] q.kind = "delete" -> q.view = "CLOSED"
      [] OTHER -> TRUE

\* The row as update_conversation_status leaves it.
Written(c, value) == [status EXCEPT ![c] = value]

\* (mutant) The last operation is left in place.
AdvancedAlways(q) == [q EXCEPT !.ops = Tail(@)]

\* Where a request is after its first operation.
Advanced(q) ==
    IF Len(q.ops) = 1 THEN Over ELSE [q EXCEPT !.ops = Tail(@)]

\* One operation, tested against the status read at the start; the first that
\* is refused ends the request, and those before it stay done.
Operate(r) ==
    LET q == request[r]
        o == Head(q.ops)
        writes == o.op = "replace" /\ MayWrite(q, o.value)
        passes == CASE o.op = "replace" -> {writes}
                    [] o.op = "test" -> {o.value = q.view}
                    [] OTHER -> BOOLEAN
    IN  /\ q.kind \in {"patch", "delete", "chat"}
        /\ status' = IF writes THEN Written(q.on, o.value) ELSE status
        /\ crowded' = (crowded \/ (writes /\ o.value = "ACTIVE"))
        /\ \E passed \in passes :
              request' = [request EXCEPT ![r] = IF passed THEN Advanced(q) ELSE Over]
        /\ UNCHANGED <<shared, rewritten>>

\* The context is refused (422), or Postgres fails: the next query writes nothing.
Abort(r) ==
    /\ request[r].kind \in {"create", "patch", "delete"}
    /\ request' = [request EXCEPT ![r] = Over]
    /\ UNCHANGED <<status, shared, rewritten, crowded>>

\* The turn ends below the ceiling, or its transaction is rolled back.
EndTurn(r) ==
    /\ request[r].kind = "chat"
    /\ request' = [request EXCEPT ![r] = Over]
    /\ UNCHANGED <<status, shared, rewritten, crowded>>
-----------------------------------------------------------------------------
Next ==
    \E r \in Requests :
        \/ Count(r) \/ Insert(r)
        \/ Patch(r) \/ Delete(r) \/ Chat(r)
        \/ Operate(r) \/ Abort(r) \/ EndTurn(r)

Spec == Init /\ [][Next]_vars
-----------------------------------------------------------------------------
Kinds == {"unsent", "over", "create", "patch", "delete", "chat"}

\* The type invariant; a request still at work has an operation left to do.
TypeOK ==
    /\ status \in [Conversations -> Statuses \cup {"none"}]
    /\ request \in [Requests -> [kind : Kinds, on : Conversations \cup {None},
                                 view : Statuses \cup {"none"}, ops : Seq(Operations)]]
    /\ \A r \in Requests :
          /\ request[r].kind \in {"patch", "delete", "chat"} =>
                request[r].ops # <<>> /\ request[r].on \in Existing
          /\ request[r].kind \in {"unsent", "over", "create"} => request[r].on = None
    /\ shared \subseteq Conversations /\ rewritten \subseteq Conversations
    /\ crowded \in BOOLEAN

\* A user has more active conversations than max_active_conversations_per_user
\* only if two creates counted before either inserted, or a conversation was
\* reopened, which counts nothing (api/app.py:381 and 771).
LimitExplained == ~crowded => Cardinality(Active) <= MaxActive

\* The life of a conversation, as its requests were meant to lead it.
Lifecycle == {<<"ACTIVE", "CLOSED">>, <<"ACTIVE", "CEILING_HIT">>,
              <<"CEILING_HIT", "CLOSED">>, <<"CEILING_HIT", "ACTIVE">>,
              <<"CLOSED", "ARCHIVED">>, <<"CLOSED", "ACTIVE">>}

\* A conversation leaves its life, say by leaving the archive, only if two
\* requests or turns worked on it at once, or one PATCH replaced its status
\* twice: each is tested against a status read before (api/app.py:771).
SoloLifecycle ==
    [][\A c \in Existing \ (shared' \cup rewritten') :
          status'[c] = status[c] \/ <<status[c], status'[c]>> \in Lifecycle]_vars
=============================================================================
