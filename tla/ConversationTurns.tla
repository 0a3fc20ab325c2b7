------------------------- MODULE ConversationTurns --------------------------
(***************************************************************************)
(* One conversation of the chat API (api/app.py, api/conversation_runner   *)
(* .py): its row and transcript in Postgres, its session in Redis and its  *)
(* event channel, shared without a lock by every turn in flight.  A turn   *)
(* is a request handler and then a background task; one action is what     *)
(* runs from one await that reads or writes shared state to the next.      *)
(* A turn is its number in the order of the requests; the text, the title, *)
(* the page context and compaction summaries are left out, and an answer   *)
(* costs one token.                                                        *)
(***************************************************************************)
EXTENDS Naturals, Sequences, FiniteSets, SequencesExt

CONSTANTS
    NTurns,        \* bound: chat requests sent to the conversation
    MaxInFlight,   \* bound: turns in flight together
    MaxEvents,     \* bound: failures, and PATCH or DELETE requests
    MaxMessages,   \* ceiling_max_messages
    MaxTokens,     \* ceiling_max_tokens
    WarningPct,    \* ceiling_warning_pct
    CriticalPct,   \* ceiling_critical_pct
    RecentTurns,   \* half of max_recent: a turn is two messages
    Patient        \* TRUE: the client waits for the end of a stream, as useChat does

ASSUME TurnsOK ==
    /\ NTurns \in Nat /\ MaxInFlight \in Nat /\ MaxEvents \in Nat
    /\ MaxMessages \in Nat \ {0} /\ MaxTokens \in Nat \ {0}
    /\ WarningPct \in Nat /\ CriticalPct \in Nat
    /\ RecentTurns \in Nat
    /\ Patient \in BOOLEAN

VARIABLES
    row,         \* the conversations row: status, counters, ceiling_status
    transcript,  \* conversation_messages: per turn, the seq of the user's message
    cached,      \* the two Redis keys of the session exist
    session,     \* what they hold: history and turn_count
    request,     \* the status read by a PATCH or DELETE being served, or "none"
    pc,          \* where each turn is
    base,        \* the session it loaded
    seen,        \* the counters of the row it was started with
    outcome,     \* what its graph run came to
    slot,        \* the next_seq its transaction read
    fate,        \* what came of its transaction
    stream,      \* the event stream of its client
    heard,       \* turns whose client got the answer
    shared,      \* turns that were in flight together with another
    events       \* failures and PATCH or DELETE requests so far

storeVars  == <<row, transcript, cached, session, request>>
streamVars == <<stream, heard>>
localVars  == <<base, seen, outcome, slot, fate>>
vars == <<storeVars, pc, localVars, streamVars, shared, events>>

Turns == 1 .. NTurns

\* Where a turn is while somebody is still working on it.
Handling == {"admitted", "restoring", "loaded", "listening"}
Running  == {"running", "answered", "writing", "settled", "done"}

InFlight == {t \in Turns : pc[t] \in Handling \cup Running}
-----------------------------------------------------------------------------
\* Mutant: a level the column's CHECK does not know.
UnknownLevel(messages, tokens) ==
    IF messages >= MaxMessages \/ tokens >= MaxTokens THEN "full" ELSE "ok"

\* compute_ceiling_status: max(m, k) >= pct is m >= pct or k >= pct.
CeilingStatus(messages, tokens) ==
    LET reaches(pct) == messages * 100 >= pct * MaxMessages \/ tokens * 100 >= pct * MaxTokens
    IN  IF reaches(100) THEN "exceeded"
        ELSE IF reaches(CriticalPct) THEN "critical"
        ELSE IF reaches(WarningPct) THEN "warning" ELSE "ok"

Fresh == [history |-> <<>>, count |-> 0]

\* Mutant: the assistant's message is not counted.
NextSeqOfTurn == IF transcript = <<>> THEN 1 ELSE Last(transcript).seq + 1

\* MAX(seq) + 1: the last turn written has the largest numbers.
NextSeq == IF transcript = <<>> THEN 1 ELSE Last(transcript).seq + 2

\* Mutant: the newest messages first, as the query returns them.
NewestFirst ==
    LET n == Len(transcript)
    IN  [i \in 1 .. (IF n < RecentTurns THEN n ELSE RecentTurns) |-> transcript[n + 1 - i].turn]

\* The newest messages, turned back into the order they were written in.
RecentHistory ==
    LET turns == [i \in DOMAIN transcript |-> transcript[i].turn]
        n == Len(turns)
    IN  SubSeq(turns, IF n > RecentTurns THEN n - RecentTurns + 1 ELSE 1, n)

\* Mutant: the numbers need not be unique.
AnySlot(s) == TRUE

\* UNIQUE (conversation_id, seq), for both messages of a turn.
SlotFree(s) ==
    \A i \in DOMAIN transcript : {s, s + 1} \cap {transcript[i].seq, transcript[i].seq + 1} = {}

Spent(t) == IF outcome[t] = "answered" THEN 1 ELSE 0

\* The status a PATCH may set, from the one it read.  DELETE sets ARCHIVED
\* on what it read as CLOSED.
AllowedFrom(status) ==
    CASE status = "ACTIVE" -> {"CLOSED"}
      [] status = "CEILING_HIT" -> {"CLOSED", "ACTIVE"}
      [] status = "CLOSED" -> {"ARCHIVED", "ACTIVE"}
      [] OTHER -> {}
-----------------------------------------------------------------------------
Init ==
    /\ row = [status |-> "ACTIVE", messages |-> 0, tokens |-> 0, ceiling |-> "ok"]
    /\ transcript = <<>>
    /\ cached = FALSE /\ session = Fresh
    /\ request = "none"
    /\ pc = [t \in Turns |-> "unsent"]
    /\ base = [t \in Turns |-> Fresh]
    /\ seen = [t \in Turns |-> [messages |-> 0, tokens |-> 0]]
    /\ outcome = [t \in Turns |-> "none"]
    /\ slot = [t \in Turns |-> 0]
    /\ fate = [t \in Turns |-> "pending"]
    /\ stream = [t \in Turns |-> "none"]
    /\ heard = {}
    /\ shared = {}
    /\ events = 0

Event == events < MaxEvents /\ events' = events + 1

Step(t, from, to) == pc[t] = from /\ pc' = [pc EXCEPT ![t] = to]

(* The request handler.                                                    *)

\* The order of the requests numbers them.
Sent(t) ==
    /\ \A u \in Turns : u < t =>
          /\ pc[u] # "unsent"
          /\ Patient => pc[u] \notin Handling /\ stream[u] # "open"

\* Mutant: the counters are left to the status.
OpenStatusOnly == row.status = "ACTIVE"

MayChat == row.status = "ACTIVE" /\ row.messages < MaxMessages /\ row.tokens < MaxTokens

Refuse(t) ==
    /\ Sent(t) /\ ~MayChat
    /\ Step(t, "unsent", "refused")
    /\ UNCHANGED <<storeVars, localVars, streamVars, shared, events>>

Admit(t) ==
    /\ Sent(t) /\ MayChat /\ Cardinality(InFlight) < MaxInFlight
    /\ Step(t, "unsent", "admitted")
    /\ base' = [base EXCEPT ![t].count = row.messages \div 2]
    /\ shared' = IF InFlight = {} THEN shared ELSE shared \cup InFlight \cup {t}
    /\ UNCHANGED <<storeVars, seen, outcome, slot, fate, streamVars, events>>

Load(t) ==
    /\ Step(t, "admitted", IF cached THEN "loaded" ELSE "restoring")
    /\ base' = IF cached THEN [base EXCEPT ![t] = session] ELSE base
    /\ UNCHANGED <<storeVars, seen, outcome, slot, fate, streamVars, shared, events>>

Restore(t) ==
    /\ Step(t, "restoring", "loaded")
    /\ base' = [base EXCEPT ![t].history = RecentHistory]
    /\ UNCHANGED <<storeVars, seen, outcome, slot, fate, streamVars, shared, events>>

\* Mutant: the subscription is left to the response, after the task is created.
SubscribeLate(t) ==
    /\ \/ Step(t, "loaded", "listening") /\ UNCHANGED stream
       \/ /\ pc[t] \in Running \cup {"over"} /\ stream[t] = "none"
          /\ stream' = [stream EXCEPT ![t] = "open"]
          /\ UNCHANGED pc
    /\ UNCHANGED <<storeVars, localVars, heard, shared, events>>

Open(t) ==
    /\ Step(t, "loaded", "listening")
    /\ stream' = [stream EXCEPT ![t] = "open"]
    /\ UNCHANGED <<storeVars, localVars, heard, shared, events>>

\* The row is fetched again, and the task created.
Launch(t) ==
    /\ Step(t, "listening", "running")
    /\ seen' = [seen EXCEPT ![t] = [messages |-> row.messages, tokens |-> row.tokens]]
    /\ UNCHANGED <<storeVars, base, outcome, slot, fate, streamVars, shared, events>>
-----------------------------------------------------------------------------
(* The background task.                                                    *)

\* A published "done" ends every stream open on the conversation's channel.
EndStreams == stream' = [u \in Turns |-> IF stream[u] = "open" THEN "done" ELSE stream[u]]

\* The graph answers, or reports errors and leaves the reply empty.
Run(t, result) ==
    /\ Step(t, "running", "answered")
    /\ outcome' = [outcome EXCEPT ![t] = result]
    /\ heard' = IF result = "answered" /\ stream[t] = "open" THEN heard \cup {t} ELSE heard
    /\ UNCHANGED <<storeVars, base, seen, slot, fate, stream, shared, events>>

\* Mutant: the handler reports the error but does not end the stream.
RaiseQuietly(t) ==
    /\ Event
    /\ pc[t] \in {"running", "settled", "done"} /\ outcome[t] # "raised"
    /\ pc' = [pc EXCEPT ![t] = "done"]
    /\ outcome' = [outcome EXCEPT ![t] = "raised"]
    /\ UNCHANGED <<storeVars, base, seen, slot, fate, streamVars, shared>>

\* run_conversation_turn's handler, at the awaits it covers.
Raise(t) ==
    /\ Event
    /\ pc[t] \in {"running", "settled", "done"} /\ outcome[t] # "raised"
    /\ pc' = [pc EXCEPT ![t] = "done"]
    /\ outcome' = [outcome EXCEPT ![t] = "raised"]
    /\ EndStreams
    /\ UNCHANGED <<storeVars, base, seen, slot, fate, heard, shared>>

BeginWrite(t) ==
    /\ Step(t, "answered", "writing")
    /\ slot' = [slot EXCEPT ![t] = NextSeq]
    /\ UNCHANGED <<storeVars, base, seen, outcome, fate, streamVars, shared, events>>

\* Postgres fails and nothing of the transaction stays.
WriteFails(t) ==
    /\ Event
    /\ pc[t] \in {"answered", "writing"}
    /\ pc' = [pc EXCEPT ![t] = "settled"]
    /\ fate' = [fate EXCEPT ![t] = "outage"]
    /\ UNCHANGED <<storeVars, base, seen, outcome, slot, streamVars, shared>>

\* Mutant: the counters are written from the row the turn was started with.
StaleCounters(t) ==
    [row EXCEPT !.messages = seen[t].messages + 2, !.tokens = seen[t].tokens + Spent(t),
                !.ceiling = CeilingStatus(seen[t].messages + 2, seen[t].tokens + Spent(t))]

\* The counters are counted up in the row; the ceiling and the lock come
\* from an estimate made of the row the turn was started with.
CountedRow(t) ==
    LET level == CeilingStatus(seen[t].messages + 2, seen[t].tokens + Spent(t))
    IN  [row EXCEPT !.messages = @ + 2, !.tokens = @ + Spent(t), !.ceiling = level,
                    !.status = IF level = "exceeded" THEN "CEILING_HIT" ELSE @]

\* The transaction's inserts and update, or the rollback of a turn whose
\* numbers were taken since it read them.
Commit(t) ==
    /\ Step(t, "writing", "settled")
    /\ IF SlotFree(slot[t])
       THEN /\ transcript' = Append(transcript, [turn |-> t, seq |-> slot[t]])
            /\ row' = CountedRow(t)
            /\ fate' = [fate EXCEPT ![t] = "kept"]
       ELSE /\ fate' = [fate EXCEPT ![t] = "conflict"]
            /\ UNCHANGED <<transcript, row>>
    /\ UNCHANGED <<cached, session, request, base, seen, outcome, slot, streamVars, shared, events>>

Announce(t) ==
    /\ Step(t, "settled", "done")
    /\ EndStreams
    /\ UNCHANGED <<storeVars, localVars, heard, shared, events>>

\* Mutant: only this turn is written.
OwnTurnOnly(t) ==
    [history |-> IF outcome[t] = "answered" THEN <<t>> ELSE <<>>, count |-> base[t].count + 1]

\* What the turn makes of the session it loaded.
SessionAfter(t) ==
    IF outcome[t] = "raised" THEN base[t]
    ELSE [history |-> IF outcome[t] = "answered" THEN Append(base[t].history, t)
                      ELSE base[t].history,
          count |-> base[t].count + 1]

Save(t) ==
    /\ Step(t, "done", "over")
    /\ cached' = TRUE
    /\ session' = SessionAfter(t)
    /\ UNCHANGED <<row, transcript, request, localVars, streamVars, shared, events>>
-----------------------------------------------------------------------------
(* The environment.                                                        *)

\* Redis or Postgres fails the request, or Redis the task and its handler.
Lose(t) ==
    /\ Event
    /\ pc[t] \in Handling \cup {"running", "settled", "done"}
    /\ pc' = [pc EXCEPT ![t] = "lost"]
    /\ UNCHANGED <<storeVars, localVars, streamVars, shared>>

\* The client goes away, or a live turn is slower than the socket timeout.
Disconnect(t) ==
    /\ Event
    /\ stream[t] = "open"
    /\ stream' = [stream EXCEPT ![t] = "broken"]
    /\ UNCHANGED <<storeVars, pc, localVars, heard, shared>>

\* REDIS_SOCKET_TIMEOUT ends a stream whose task is gone.
TimeOut(t) ==
    /\ pc[t] = "lost" /\ stream[t] = "open"
    /\ stream' = [stream EXCEPT ![t] = "broken"]
    /\ UNCHANGED <<storeVars, pc, localVars, heard, shared, events>>

\* The process stops: lifespan does not wait for the turns.
Crash ==
    /\ Event
    /\ InFlight # {}
    /\ pc' = [t \in Turns |-> IF t \in InFlight THEN "lost" ELSE pc[t]]
    /\ stream' = [t \in Turns |-> IF stream[t] = "open" THEN "broken" ELSE stream[t]]
    /\ request' = "none"
    /\ UNCHANGED <<row, transcript, cached, session, localVars, heard, shared>>

\* The session's TTL runs out, or DELETE /sessions/{id} is called.
Forget ==
    /\ Event
    /\ cached
    /\ cached' = FALSE /\ session' = Fresh
    /\ UNCHANGED <<row, transcript, request, pc, localVars, streamVars, shared>>

\* A PATCH or DELETE reads the row once, and writes for each of its operations.
ReadStatus ==
    /\ Event
    /\ request = "none"
    /\ request' = row.status
    /\ UNCHANGED <<row, transcript, cached, session, pc, localVars, streamVars, shared>>

WriteStatus ==
    /\ \E status \in AllowedFrom(request) : row' = [row EXCEPT !.status = status]
    /\ UNCHANGED <<transcript, cached, session, request, pc, localVars, streamVars, shared, events>>

EndRequest ==
    /\ request # "none"
    /\ request' = "none"
    /\ UNCHANGED <<row, transcript, cached, session, pc, localVars, streamVars, shared, events>>
-----------------------------------------------------------------------------
Handle(t) == Load(t) \/ Restore(t) \/ Open(t) \/ Launch(t)

Work(t) ==
    \/ \E result \in {"answered", "failed"} : Run(t, result)
    \/ BeginWrite(t) \/ Commit(t) \/ Announce(t) \/ Save(t)

Next ==
    \/ \E t \in Turns :
          \/ Refuse(t) \/ Admit(t) \/ Handle(t) \/ Work(t)
          \/ Raise(t) \/ WriteFails(t) \/ Lose(t) \/ Disconnect(t) \/ TimeOut(t)
    \/ Crash \/ Forget
    \/ ReadStatus \/ WriteStatus \/ EndRequest

Spec == Init /\ [][Next]_vars

\* asyncio runs every handler and task on, the graph run is bounded by the
\* LLM clients' timeouts, and a read of the socket times out.
FairSpec == Spec /\ \A t \in Turns : WF_vars(Handle(t)) /\ WF_vars(Work(t)) /\ WF_vars(TimeOut(t))
-----------------------------------------------------------------------------
(* Types.                                                                  *)

Statuses == {"ACTIVE", "CEILING_HIT", "CLOSED", "ARCHIVED"}
Sessions == [history : Seq(Turns), count : Nat]

\* Every variable has its type.
TypeOK ==
    /\ row \in [status : Statuses, messages : Nat, tokens : Nat,
                ceiling : {"ok", "warning", "critical", "exceeded"}]
    /\ transcript \in Seq([turn : Turns, seq : Nat])
    /\ cached \in BOOLEAN /\ session \in Sessions
    /\ request \in Statuses \cup {"none"}
    /\ pc \in [Turns -> Handling \cup Running \cup {"unsent", "refused", "lost", "over"}]
    /\ base \in [Turns -> Sessions]
    /\ seen \in [Turns -> [messages : Nat, tokens : Nat]]
    /\ outcome \in [Turns -> {"none", "answered", "failed", "raised"}]
    /\ slot \in [Turns -> Nat]
    /\ fate \in [Turns -> {"pending", "kept", "conflict", "outage"}]
    /\ stream \in [Turns -> {"none", "open", "done", "broken"}]
    /\ heard \in SUBSET Turns /\ shared \in SUBSET Turns
    /\ events \in Nat
-----------------------------------------------------------------------------
(* Properties.                                                             *)

InTranscript(t) == \E i \in DOMAIN transcript : transcript[i].turn = t

\* However the turns interleave, the messages of the transcript are numbered
\* without gaps and without repetition, and the row counts exactly them: no
\* transaction leaves half of itself behind (_persist_turn_to_postgres).
RowCountsTranscript ==
    /\ \A i \in DOMAIN transcript : transcript[i].seq = 2 * i - 1
    /\ row.messages = 2 * Len(transcript)

\* The ceiling is estimated from a row that may be stale, yet a conversation is
\* only ever locked when its real counters have reached the ceiling.
LockedOnlyWhenFull ==
    row.status = "CEILING_HIT" => row.messages >= MaxMessages \/ row.tokens >= MaxTokens

\* As long as no two turns were in flight together, ceiling_status agrees with
\* the counters, and no turn ran beyond the ceiling, however often the
\* conversation was closed and reopened meanwhile.
SoloCeiling ==
    shared = {} =>
        /\ row.ceiling = CeilingStatus(row.messages, row.tokens)
        /\ row.messages < MaxMessages + 2 /\ row.tokens <= MaxTokens

\* A turn that was in flight alone is in the transcript once it settled, with
\* or without a client still listening, unless Postgres itself failed.
SoloTurnKept ==
    \A t \in Turns \ shared :
        pc[t] \in {"settled", "done", "over"} /\ outcome[t] # "raised"
            => fate[t] = "outage" \/ InTranscript(t)

\* A client whose turn was in flight alone has its answer when "done" ends its
\* stream: the subscription precedes the task, the answer precedes "done".
SoloAnswerHeard ==
    \A t \in Turns \ shared :
        outcome[t] = "answered" /\ stream[t] = "done" => t \in heard

\* Whatever was lost, the cached history has no turn twice, and the turns that
\* are also in the transcript are in the transcript's order.
HistoryInOrder ==
    LET h == session.history
    IN  \A i, j \in DOMAIN h : i < j =>
            /\ h[i] # h[j]
            /\ \A k, l \in DOMAIN transcript :
                  transcript[k].turn = h[i] /\ transcript[l].turn = h[j] => k < l

\* A turn that was in flight alone extends the cached history it replaces.
SoloSaveExtends ==
    [][\A t \in Turns \ shared :
          Save(t) /\ cached => IsPrefix(session.history, session'.history)]_vars

\* The stream of every client ends, though its task may fail anywhere.
StreamsEnd == \A t \in Turns : stream[t] = "open" ~> stream[t] # "open"

\* The durable state is a log of whole turns behind a lock that only a full
\* conversation gets.
Recorded == INSTANCE Transcript WITH
    log <- [i \in DOMAIN transcript |-> transcript[i].turn],
    spent <- row.tokens, status <- row.status

ImplementsTranscript == Recorded!LogSpec

\* Claimed by _persist_turn_to_postgres for concurrent chat calls: an answered
\* turn whose transaction Postgres did not fail is in the transcript.
AnswersKept ==
    \A t \in Turns :
        pc[t] = "over" /\ outcome[t] = "answered" => fate[t] = "outage" \/ InTranscript(t)

\* Claimed by the supervisor adapter: the language model reads an answer back on
\* the next turn, once the client has seen the first one end.
NextTurnReads ==
    \A t, u \in Turns :
        /\ u < t /\ outcome[u] = "answered" /\ stream[u] = "done" /\ fate[u] = "kept"
        /\ pc[t] = "running"
        => \E i \in DOMAIN base[t].history : base[t].history[i] = u
=============================================================================
