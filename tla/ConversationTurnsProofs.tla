----------------------- MODULE ConversationTurnsProofs -----------------------
(***************************************************************************)
(* What holds of a conversation however many turns are sent, overlap and   *)
(* fail, and for every ceiling: the transcript is whole and counted, the   *)
(* lock follows the real counters, and a turn in flight alone loses        *)
(* nothing.                                                                *)
(***************************************************************************)
EXTENDS ConversationTurns, SequenceTheorems, TLAPS

Levels == {"ok", "warning", "critical", "exceeded"}

LEMMA LevelType == \A m, n : CeilingStatus(m, n) \in Levels
BY DEF CeilingStatus, Levels

\* An estimate at the ceiling is at one of the two limits.
LEMMA LevelExceeded ==
    ASSUME NEW m \in Nat, NEW n \in Nat, CeilingStatus(m, n) = "exceeded"
    PROVE  m >= MaxMessages \/ n >= MaxTokens
BY TurnsOK DEF CeilingStatus

-----------------------------------------------------------------------------
(* Types.                                                                  *)

LEMMA RecentHistoryType ==
    ASSUME transcript \in Seq([turn : Turns, seq : Nat])
    PROVE  RecentHistory \in Seq(Turns)
<1> DEFINE turns == [i \in DOMAIN transcript |-> transcript[i].turn]
           n == Len(turns)
           a == IF n > RecentTurns THEN n - RecentTurns + 1 ELSE 1
<1>1. turns \in Seq(Turns) /\ n \in Nat
  <2>1. DOMAIN transcript = 1 .. Len(transcript) /\ Len(transcript) \in Nat
    BY LenProperties
  <2>2. \A i \in 1 .. Len(transcript) : transcript[i].turn \in Turns
    <3>1. \A i \in 1 .. Len(transcript) : transcript[i] \in [turn : Turns, seq : Nat]
      BY ElementOfSeq
    <3> QED BY <3>1
  <2>3. turns \in [1 .. Len(transcript) -> Turns]
    BY <2>1, <2>2
  <2>4. turns \in Seq(Turns)
    BY <2>1, <2>3
  <2> QED BY <2>4, LenProperties
<1>2. a \in Int /\ a >= 1
  BY <1>1, TurnsOK
<1>3. \A i \in a .. n : turns[i] \in Turns
  BY <1>1, <1>2
<1>4. SubSeq(turns, a, n) \in Seq(Turns)
  <2> HIDE DEF turns, n, a
  <2> QED BY <1>1, <1>2, <1>3, SubSeqProperties
<1> QED BY <1>4 DEF RecentHistory

LEMMA FreshType == Fresh \in Sessions
BY EmptySeq DEF Fresh, Sessions

LEMMA InitTypeOK == Init => TypeOK
<1> SUFFICES ASSUME Init PROVE TypeOK
  OBVIOUS
<1>1. transcript \in Seq([turn : Turns, seq : Nat])
  BY EmptySeq DEF Init
<1>2. /\ row \in [status : Statuses, messages : Nat, tokens : Nat,
                  ceiling : {"ok", "warning", "critical", "exceeded"}]
      /\ seen \in [Turns -> [messages : Nat, tokens : Nat]]
      /\ slot \in [Turns -> Nat] /\ events \in Nat
  BY DEF Init, Statuses
<1>3. session \in Sessions /\ base \in [Turns -> Sessions]
  BY FreshType DEF Init
<1> QED BY <1>1, <1>2, <1>3 DEF Init, TypeOK

LEMMA NextTypeOK == TypeOK /\ [Next]_vars => TypeOK'
<1> SUFFICES ASSUME TypeOK, [Next]_vars PROVE TypeOK'
  OBVIOUS
<1>0. Event => events' \in Nat
  BY DEF Event, TypeOK
<1> USE DEF TypeOK, Statuses, Handling, Running, Step, storeVars, streamVars, localVars
<1>1. ASSUME NEW t \in Turns, Refuse(t) PROVE TypeOK'
  BY <1>1 DEF Refuse
<1>2. ASSUME NEW t \in Turns, Admit(t) PROVE TypeOK'
  <2>1. row.messages \div 2 \in Nat
    OBVIOUS
  <2>2. InFlight \subseteq Turns
    BY DEF InFlight
  <2> QED BY <1>2, <2>1, <2>2 DEF Admit, Sessions
<1>3. ASSUME NEW t \in Turns, Handle(t) PROVE TypeOK'
  <2>1. CASE Load(t)
    BY <2>1 DEF Load
  <2>2. CASE Restore(t)
    BY <2>2, RecentHistoryType DEF Restore, Sessions
  <2>3. CASE Open(t)
    BY <2>3 DEF Open
  <2>4. CASE Launch(t)
    BY <2>4 DEF Launch
  <2> QED BY <1>3, <2>1, <2>2, <2>3, <2>4 DEF Handle
<1>4. ASSUME NEW t \in Turns, Work(t) PROVE TypeOK'
  <2>1. ASSUME NEW result \in {"answered", "failed"}, Run(t, result) PROVE TypeOK'
    BY <2>1 DEF Run
  <2>2. CASE BeginWrite(t)
    <3>1. NextSeq \in Nat
      <4>1. CASE transcript = <<>>
        BY <4>1 DEF NextSeq
      <4>2. CASE transcript # <<>>
        <5>1. Len(transcript) \in 1 .. Len(transcript)
          BY <4>2, EmptySeq, LenProperties
        <5>2. transcript[Len(transcript)] \in [turn : Turns, seq : Nat]
          BY <5>1, ElementOfSeq
        <5>3. transcript[Len(transcript)].seq + 2 \in Nat
          BY <5>2
        <5> QED BY <5>3, <4>2 DEF NextSeq, Last
      <4> QED BY <4>1, <4>2
    <3> QED BY <2>2, <3>1 DEF BeginWrite
  <2>3. CASE Commit(t)
    <3>1. CountedRow(t) \in [status : Statuses, messages : Nat, tokens : Nat, ceiling : Levels]
      <4>1. CeilingStatus(seen[t].messages + 2, seen[t].tokens + Spent(t)) \in Levels
        BY LevelType
      <4>2. Spent(t) \in Nat
        BY DEF Spent
      <4>3. row.messages + 2 \in Nat /\ row.tokens + Spent(t) \in Nat
        BY <4>2
      <4> QED BY <4>1, <4>3 DEF CountedRow, Levels
    <3>2. Append(transcript, [turn |-> t, seq |-> slot[t]]) \in Seq([turn : Turns, seq : Nat])
      OBVIOUS
    <3> QED BY <2>3, <3>1, <3>2 DEF Commit, Levels
  <2>4. CASE Announce(t)
    BY <2>4 DEF Announce, EndStreams
  <2>5. CASE Save(t)
    <3>1. SessionAfter(t) \in Sessions
      BY DEF SessionAfter, Sessions
    <3> QED BY <2>5, <3>1 DEF Save
  <2> QED BY <1>4, <2>1, <2>2, <2>3, <2>4, <2>5 DEF Work
<1>5. ASSUME NEW t \in Turns, Raise(t) PROVE TypeOK'
  BY <1>0, <1>5 DEF Raise, EndStreams
<1>6. ASSUME NEW t \in Turns, WriteFails(t) PROVE TypeOK'
  BY <1>0, <1>6 DEF WriteFails
<1>7. ASSUME NEW t \in Turns, Lose(t) PROVE TypeOK'
  BY <1>0, <1>7 DEF Lose
<1>13. ASSUME NEW t \in Turns, Disconnect(t) PROVE TypeOK'
  BY <1>0, <1>13 DEF Disconnect
<1>14. ASSUME NEW t \in Turns, TimeOut(t) PROVE TypeOK'
  BY <1>14 DEF TimeOut
<1>8. CASE Crash
  BY <1>0, <1>8 DEF Crash
<1>9. CASE Forget
  BY <1>0, <1>9, FreshType DEF Forget
<1>10. CASE ReadStatus \/ EndRequest
  BY <1>0, <1>10 DEF ReadStatus, EndRequest
<1>11. CASE WriteStatus
  BY <1>11 DEF WriteStatus, AllowedFrom
<1>12. CASE UNCHANGED vars
  BY <1>12 DEF vars
<1> QED BY <1>1, <1>2, <1>3, <1>4, <1>5, <1>6, <1>7, <1>8, <1>9, <1>10, <1>11, <1>12,
          <1>13, <1>14 DEF Next

\* Every variable of a conversation keeps its type, whatever the number of turns,
\* the ceiling and the failures (api/conversation_runner.py, api/app.py).
THEOREM TypesKept == Spec => []TypeOK
BY InitTypeOK, NextTypeOK, PTL DEF Spec

-----------------------------------------------------------------------------
(* Who writes what.                                                        *)

LEMMA Writers ==
    ASSUME [Next]_vars
    PROVE  \/ UNCHANGED <<row, transcript, seen>>
           \/ (\E t \in Turns : Launch(t)) /\ UNCHANGED <<row, transcript>>
           \/ (\E t \in Turns : Commit(t)) /\ UNCHANGED seen
           \/ WriteStatus /\ UNCHANGED <<transcript, seen>>
<1> USE DEF storeVars, localVars
<1>1. ASSUME NEW t \in Turns, Refuse(t) \/ Admit(t) \/ Handle(t)
      PROVE  UNCHANGED <<row, transcript, seen>> \/ (Launch(t) /\ UNCHANGED <<row, transcript>>)
  BY <1>1 DEF Refuse, Admit, Handle, Load, Restore, Open, Launch
<1>2. ASSUME NEW t \in Turns, Work(t)
      PROVE  UNCHANGED <<row, transcript, seen>> \/ (Commit(t) /\ UNCHANGED seen)
  BY <1>2 DEF Work, Run, BeginWrite, Commit, Announce, Save
<1>3. ASSUME NEW t \in Turns,
             Raise(t) \/ WriteFails(t) \/ Lose(t) \/ Disconnect(t) \/ TimeOut(t)
      PROVE  UNCHANGED <<row, transcript, seen>>
  BY <1>3 DEF Raise, WriteFails, Lose, Disconnect, TimeOut
<1>4. Crash \/ Forget \/ ReadStatus \/ EndRequest \/ UNCHANGED vars
        => UNCHANGED <<row, transcript, seen>>
  BY DEF Crash, Forget, ReadStatus, EndRequest, vars
<1>5. WriteStatus => UNCHANGED <<transcript, seen>>
  BY DEF WriteStatus
<1> QED BY <1>1, <1>2, <1>3, <1>4, <1>5 DEF Next

-----------------------------------------------------------------------------
(* The lock.  A turn's estimate is made of counters the row had before, and *)
(* counters only grow.                                                      *)

SeenBefore ==
    \A t \in Turns : seen[t].messages <= row.messages /\ seen[t].tokens <= row.tokens

LEMMA InitLocked == Init => SeenBefore /\ LockedOnlyWhenFull
BY DEF Init, SeenBefore, LockedOnlyWhenFull

LEMMA NextLocked ==
    TypeOK /\ SeenBefore /\ LockedOnlyWhenFull /\ [Next]_vars
        => SeenBefore' /\ LockedOnlyWhenFull'
<1> SUFFICES ASSUME TypeOK, SeenBefore, LockedOnlyWhenFull, [Next]_vars
             PROVE  SeenBefore' /\ LockedOnlyWhenFull'
  OBVIOUS
<1> USE DEF SeenBefore, LockedOnlyWhenFull
<1>1. CASE UNCHANGED <<row, transcript, seen>>
  BY <1>1
<1>2. ASSUME NEW t \in Turns, Launch(t), UNCHANGED row
      PROVE  SeenBefore' /\ LockedOnlyWhenFull'
  BY <1>2 DEF Launch, TypeOK
<1>3. ASSUME NEW t \in Turns, Commit(t), UNCHANGED seen
      PROVE  SeenBefore' /\ LockedOnlyWhenFull'
  <2> DEFINE level == CeilingStatus(seen[t].messages + 2, seen[t].tokens + Spent(t))
  <2>1. /\ row.messages \in Nat /\ row.tokens \in Nat
        /\ \A u \in Turns : seen[u].messages \in Nat /\ seen[u].tokens \in Nat
        /\ Spent(t) \in Nat
    BY DEF TypeOK, Spent
  <2>2. CASE UNCHANGED row
    BY <1>3, <2>2
  <2>3. CASE row' = CountedRow(t)
    <3>1. /\ row'.messages = row.messages + 2 /\ row'.tokens = row.tokens + Spent(t)
          /\ row'.status = IF level = "exceeded" THEN "CEILING_HIT" ELSE row.status
      BY <2>3 DEF CountedRow, TypeOK
    <3>2. level = "exceeded"
            => seen[t].messages + 2 >= MaxMessages \/ seen[t].tokens + Spent(t) >= MaxTokens
      BY <2>1, LevelExceeded
    <3> HIDE DEF level
    <3>3. SeenBefore'
      BY <1>3, <2>1, <3>1
    <3>4. LockedOnlyWhenFull'
      BY <1>3, <2>1, <3>1, <3>2, TurnsOK
    <3> QED BY <3>3, <3>4
  <2> QED BY <1>3, <2>2, <2>3 DEF Commit
<1>4. CASE WriteStatus /\ UNCHANGED seen
  <2>1. PICK status \in AllowedFrom(request) : row' = [row EXCEPT !.status = status]
    BY <1>4 DEF WriteStatus
  <2>2. status # "CEILING_HIT"
    BY DEF AllowedFrom
  <2> QED BY <1>4, <2>1, <2>2 DEF TypeOK
<1> QED BY <1>1, <1>2, <1>3, <1>4, Writers

\* A conversation is only locked when its real counters reached the ceiling, though
\* every lock is decided on a row that may be stale (_persist_turn_to_postgres).
THEOREM LockFollowsCounters == Spec => []LockedOnlyWhenFull
<1>1. Init => TypeOK /\ SeenBefore /\ LockedOnlyWhenFull
  BY InitTypeOK, InitLocked
<1>2. TypeOK /\ SeenBefore /\ LockedOnlyWhenFull /\ [Next]_vars
        => TypeOK' /\ SeenBefore' /\ LockedOnlyWhenFull'
  BY NextTypeOK, NextLocked
<1> QED BY <1>1, <1>2, PTL DEF Spec

-----------------------------------------------------------------------------
(* The transcript.                                                         *)

\* A turn that is there writes nothing more.
Settled == {"settled", "done", "over", "lost"}

LEMMA Progress ==
    ASSUME TypeOK, [Next]_vars, NEW u \in Turns
    PROVE  /\ pc[u] \in Settled => pc'[u] \in Settled
           /\ pc'[u] = "writing" /\ pc[u] # "writing" => BeginWrite(u)
           /\ slot'[u] # slot[u] => BeginWrite(u)
           /\ fate'[u] # fate[u] => WriteFails(u) \/ Commit(u)
<1> USE DEF Settled, TypeOK, Handling, Running, Step, storeVars, localVars
<1> DEFINE Goal ==
      /\ pc[u] \in Settled => pc'[u] \in Settled
      /\ pc'[u] = "writing" /\ pc[u] # "writing" => BeginWrite(u)
      /\ slot'[u] # slot[u] => BeginWrite(u)
      /\ fate'[u] # fate[u] => WriteFails(u) \/ Commit(u)
<1> SUFFICES Goal
  OBVIOUS
<1>1. ASSUME NEW t \in Turns, Refuse(t) \/ Admit(t) PROVE Goal
  BY <1>1 DEF Refuse, Admit
<1>2. ASSUME NEW t \in Turns, Handle(t) PROVE Goal
  BY <1>2 DEF Handle, Load, Restore, Open, Launch
<1>3. ASSUME NEW t \in Turns, \E result \in {"answered", "failed"} : Run(t, result) PROVE Goal
  BY <1>3 DEF Run
<1>4. ASSUME NEW t \in Turns, BeginWrite(t) PROVE Goal
  <2>1. CASE u = t
    BY <1>4, <2>1 DEF BeginWrite
  <2>2. CASE u # t
    BY <1>4, <2>2 DEF BeginWrite
  <2> QED BY <2>1, <2>2
<1>5. ASSUME NEW t \in Turns, WriteFails(t) \/ Commit(t) PROVE Goal
  <2>1. /\ UNCHANGED slot /\ pc' = [pc EXCEPT ![t] = "settled"]
        /\ \A v \in Turns \ {t} : fate'[v] = fate[v]
    BY <1>5 DEF WriteFails, Commit
  <2> QED BY <1>5, <2>1
<1>6. ASSUME NEW t \in Turns, Announce(t) \/ Save(t) \/ Raise(t) \/ Lose(t) PROVE Goal
  BY <1>6 DEF Announce, Save, Raise, Lose
<1>7. ASSUME NEW t \in Turns, Disconnect(t) \/ TimeOut(t) PROVE Goal
  BY <1>7 DEF Disconnect, TimeOut
<1>8. CASE Forget \/ ReadStatus \/ WriteStatus \/ EndRequest \/ UNCHANGED vars
  BY <1>8 DEF Forget, ReadStatus, WriteStatus, EndRequest, vars
<1>9. CASE Crash
  BY <1>9 DEF Crash, InFlight
<1> HIDE DEF Goal
<1> QED BY <1>1, <1>2, <1>3, <1>4, <1>5, <1>6, <1>7, <1>8, <1>9 DEF Next, Work

FateInv ==
    \A t \in Turns :
        /\ fate[t] = "kept" <=> InTranscript(t)
        /\ fate[t] # "pending" => pc[t] \in Settled

TurnsOnce ==
    \A i, j \in DOMAIN transcript : transcript[i].turn = transcript[j].turn => i = j

\* A transaction read the number behind some prefix of the transcript.
SlotsInv ==
    \A t \in Turns : pc[t] = "writing" => \E k \in 1 .. Len(transcript) + 1 : slot[t] = 2 * k - 1

TranscriptInv == FateInv /\ TurnsOnce /\ SlotsInv /\ RowCountsTranscript

LEMMA InitTranscript == Init => TranscriptInv
BY DEF Init, TranscriptInv, FateInv, TurnsOnce, SlotsInv, RowCountsTranscript, InTranscript

\* The number the query computes is the one behind the whole transcript.
LEMMA NextSeqIsNext ==
    ASSUME TypeOK, RowCountsTranscript
    PROVE  NextSeq = 2 * Len(transcript) + 1
<1>0. Len(transcript) \in Nat /\ DOMAIN transcript = 1 .. Len(transcript)
  BY LenProperties DEF TypeOK
<1>1. CASE transcript = <<>>
  BY <1>1, EmptySeq DEF NextSeq
<1>2. CASE transcript # <<>>
  <2>1. Len(transcript) \in DOMAIN transcript
    BY <1>0, <1>2, EmptySeq DEF TypeOK
  <2>2. transcript[Len(transcript)].seq = 2 * Len(transcript) - 1
    BY <2>1 DEF RowCountsTranscript
  <2> QED BY <1>0, <1>2, <2>2 DEF NextSeq, Last
<1> QED BY <1>1, <1>2

\* Numbers that are still free are those behind the whole transcript.
LEMMA FreeSlotIsNext ==
    ASSUME TypeOK, TranscriptInv, NEW t \in Turns, pc[t] = "writing", SlotFree(slot[t])
    PROVE  slot[t] = 2 * Len(transcript) + 1
<1>1. Len(transcript) \in Nat /\ DOMAIN transcript = 1 .. Len(transcript)
  BY LenProperties DEF TypeOK
<1>2. PICK k \in 1 .. Len(transcript) + 1 : slot[t] = 2 * k - 1
  BY DEF TranscriptInv, SlotsInv
<1>3. CASE k \in DOMAIN transcript
  <2>1. transcript[k].seq = slot[t]
    BY <1>2, <1>3 DEF TranscriptInv, RowCountsTranscript
  <2> QED BY <1>3, <2>1 DEF SlotFree
<1> QED BY <1>1, <1>2, <1>3

LEMMA NextTranscript == TypeOK /\ TranscriptInv /\ [Next]_vars => TranscriptInv'
<1> SUFFICES ASSUME TypeOK, TranscriptInv, [Next]_vars PROVE TranscriptInv'
  OBVIOUS
<1>0. Len(transcript) \in Nat /\ DOMAIN transcript = 1 .. Len(transcript)
  BY LenProperties DEF TypeOK
<1>1. ASSUME UNCHANGED transcript, row'.messages = row.messages,
             \A u \in Turns : fate'[u] # fate[u]
                => pc'[u] \in Settled /\ fate[u] # "kept" /\ fate'[u] # "kept"
      PROVE  TranscriptInv'
  <2>1. FateInv'
    BY <1>1, Progress DEF TranscriptInv, FateInv, InTranscript
  <2>2. SlotsInv'
    <3> SUFFICES ASSUME NEW u \in Turns, pc'[u] = "writing"
                 PROVE  \E k \in 1 .. Len(transcript) + 1 : slot'[u] = 2 * k - 1
      BY <1>1 DEF SlotsInv
    <3>1. CASE BeginWrite(u)
      <4>1. slot'[u] = NextSeq
        BY <3>1 DEF BeginWrite, TypeOK
      <4>2. NextSeq = 2 * Len(transcript) + 1
        BY NextSeqIsNext DEF TranscriptInv
      <4> QED BY <4>1, <4>2, <1>0
    <3>2. CASE ~BeginWrite(u)
      BY <3>2, Progress DEF TranscriptInv, SlotsInv
    <3> QED BY <3>1, <3>2
  <2>3. TurnsOnce' /\ RowCountsTranscript'
    BY <1>1 DEF TranscriptInv, TurnsOnce, RowCountsTranscript
  <2> QED BY <2>1, <2>2, <2>3 DEF TranscriptInv
<1>2. ASSUME NEW t \in Turns, Commit(t) PROVE TranscriptInv'
  <2>0. pc[t] = "writing" /\ pc' = [pc EXCEPT ![t] = "settled"] /\ UNCHANGED slot
    BY <1>2 DEF Commit, Step
  <2>1. fate[t] = "pending" /\ ~InTranscript(t)
    BY <2>0 DEF TranscriptInv, FateInv, Settled
  <2>2. CASE ~SlotFree(slot[t])
    <3>1. UNCHANGED <<transcript, row>> /\ fate' = [fate EXCEPT ![t] = "conflict"]
      BY <1>2, <2>2 DEF Commit
    <3> QED BY <1>1, <2>0, <2>1, <3>1 DEF TypeOK, Settled
  <2>3. CASE SlotFree(slot[t])
    <3> DEFINE n == Len(transcript)
               new == [turn |-> t, seq |-> slot[t]]
    <3>1. /\ transcript' = Append(transcript, new)
          /\ row' = CountedRow(t) /\ fate' = [fate EXCEPT ![t] = "kept"]
      BY <1>2, <2>3 DEF Commit
    <3>2. /\ Len(transcript') = n + 1 /\ DOMAIN transcript' = 1 .. n + 1
          /\ \A i \in 1 .. n : transcript'[i] = transcript[i]
          /\ transcript'[n + 1] = new
      BY <3>1, <1>0 DEF TypeOK
    <3>3. \A i \in 1 .. n : transcript[i].turn # t
      BY <1>0, <2>1 DEF InTranscript
    <3>4. FateInv'
      <4>1. \A u \in Turns : InTranscript(u)' <=> u = t \/ InTranscript(u)
        BY <1>0, <3>2 DEF InTranscript
      <4>2. \A u \in Turns : fate'[u] = "kept" <=> u = t \/ fate[u] = "kept"
        BY <3>1 DEF TypeOK
      <4>3. \A u \in Turns : fate'[u] # "pending" => pc'[u] \in Settled
        BY <2>0, <3>1 DEF TypeOK, TranscriptInv, FateInv, Settled
      <4> QED BY <4>1, <4>2, <4>3 DEF TranscriptInv, FateInv
    <3>5. TurnsOnce'
      BY <1>0, <3>2, <3>3 DEF TranscriptInv, TurnsOnce
    <3>6. SlotsInv'
      BY <1>0, <2>0, <3>2 DEF TranscriptInv, SlotsInv, TypeOK
    <3>7. RowCountsTranscript'
      <4>1. slot[t] = 2 * (n + 1) - 1
        BY <1>0, <2>0, <2>3, FreeSlotIsNext
      <4>2. row'.messages = row.messages + 2
        BY <3>1 DEF CountedRow, TypeOK
      <4>3. ASSUME NEW i \in 1 .. n PROVE transcript'[i].seq = 2 * i - 1
        BY <1>0, <3>2 DEF TranscriptInv, RowCountsTranscript
      <4>4. transcript'[n + 1].seq = 2 * (n + 1) - 1
        BY <3>2, <4>1
      <4>5. row'.messages = 2 * Len(transcript')
        BY <1>0, <3>2, <4>2 DEF TranscriptInv, RowCountsTranscript
      <4> QED BY <1>0, <3>2, <4>3, <4>4, <4>5 DEF RowCountsTranscript
    <3> QED BY <3>4, <3>5, <3>6, <3>7 DEF TranscriptInv
  <2> QED BY <2>2, <2>3
<1>3. CASE ~ \E t \in Turns : Commit(t)
  <2>1. UNCHANGED transcript /\ row'.messages = row.messages
    BY <1>3, Writers DEF WriteStatus, TypeOK
  <2>2. ASSUME NEW u \in Turns, fate'[u] # fate[u]
        PROVE  pc'[u] \in Settled /\ fate[u] # "kept" /\ fate'[u] # "kept"
    <3>1. WriteFails(u)
      BY <1>3, <2>2, Progress
    <3>2. fate'[u] = "outage" /\ pc[u] \in {"answered", "writing"} /\ pc'[u] = "settled"
      BY <3>1 DEF WriteFails, TypeOK
    <3> QED BY <3>2 DEF TranscriptInv, FateInv, Settled
  <2> QED BY <1>1, <2>1, <2>2
<1> QED BY <1>2, <1>3

\* However turns interleave and fail, messages are numbered without gaps or
\* repetition and the row's counter counts exactly them.
THEOREM RowCounts == Spec => []RowCountsTranscript
<1>1. Init => TypeOK /\ TranscriptInv
  BY InitTypeOK, InitTranscript
<1>2. TypeOK /\ TranscriptInv /\ [Next]_vars => TypeOK' /\ TranscriptInv'
  BY NextTypeOK, NextTranscript
<1>3. TranscriptInv => RowCountsTranscript
  BY DEF TranscriptInv
<1> QED BY <1>1, <1>2, <1>3, PTL DEF Spec

-----------------------------------------------------------------------------
(* The durable log.                                                        *)

Log == [i \in DOMAIN transcript |-> transcript[i].turn]

LEMMA InitRecorded == Init => Recorded!LogInit
BY DEF Init, Recorded!LogInit

LEMMA CommitRecords ==
    ASSUME TypeOK, TranscriptInv, LockedOnlyWhenFull', [Next]_vars, NEW t \in Turns, Commit(t)
    PROVE  Recorded!Record(t) \/ UNCHANGED <<Log, row>>
<1>0. Len(transcript) \in Nat /\ DOMAIN transcript = 1 .. Len(transcript)
  BY LenProperties DEF TypeOK
<1>1. CASE ~SlotFree(slot[t])
  BY <1>1 DEF Commit, Log
<1>2. CASE SlotFree(slot[t])
  <2> DEFINE n == Len(transcript)
  <2>1. /\ transcript' = Append(transcript, [turn |-> t, seq |-> slot[t]])
        /\ row' = CountedRow(t) /\ pc[t] = "writing"
    BY <1>2 DEF Commit, Step
  <2>2. /\ DOMAIN transcript' = 1 .. n + 1 /\ transcript'[n + 1].turn = t
        /\ \A i \in 1 .. n : transcript'[i] = transcript[i]
    BY <1>0, <2>1 DEF TypeOK
  <2>3. \A i \in 1 .. n : transcript[i].turn # t
    <3>1. ~InTranscript(t)
      BY <2>1 DEF TranscriptInv, FateInv, Settled
    <3> QED BY <1>0, <3>1 DEF InTranscript
  <2>4. Log \in [1 .. n -> Turns] /\ Log' \in [1 .. n + 1 -> Turns]
    <3>1. TypeOK'
      BY NextTypeOK
    <3>2. transcript \in [1 .. n -> [turn : Turns, seq : Nat]]
      BY <1>0, LenProperties DEF TypeOK
    <3>3. transcript' \in Seq([turn : Turns, seq : Nat])
      BY <3>1 DEF TypeOK
    <3>4. transcript' \in [1 .. n + 1 -> [turn : Turns, seq : Nat]]
      BY <2>2, <3>3, LenProperties
    <3> QED BY <1>0, <2>2, <3>2, <3>4 DEF Log
  <2>5. Len(Log) = n /\ Len(Log') = n + 1 /\ Log \in Seq(Turns) /\ Log' \in Seq(Turns)
    BY <1>0, <2>4
  <2>6. Log' = Append(Log, t)
    <3>1. \A i \in 1 .. n : Log'[i] = Log[i]
      BY <1>0, <2>2 DEF Log
    <3>2. Log'[n + 1] = t
      BY <1>0, <2>2 DEF Log
    <3> HIDE DEF Log
    <3> QED BY <1>0, <2>4, <2>5, <3>1, <3>2
  <2>7. \A i \in DOMAIN Log : Log[i] # t
    BY <1>0, <2>3 DEF Log
  <2>8. /\ row'.tokens \in {row.tokens, row.tokens + 1}
        /\ row'.messages = row.messages + 2
        /\ row'.status = row.status \/ row'.status = "CEILING_HIT"
    BY <2>1 DEF CountedRow, Spent, TypeOK
  <2>9. row'.status = "CEILING_HIT"
          => 2 * Len(Log') >= MaxMessages \/ row'.tokens >= MaxTokens
    <3>1. row'.messages = 2 * (n + 1)
      BY <1>0, <2>8 DEF TranscriptInv, RowCountsTranscript
    <3> QED BY <2>5, <3>1 DEF LockedOnlyWhenFull
  <2> QED BY <2>6, <2>7, <2>8, <2>9 DEF Recorded!Record, Recorded!Full, Log
<1> QED BY <1>1, <1>2

LEMMA NextRecorded ==
    ASSUME TypeOK, TranscriptInv, LockedOnlyWhenFull', [Next]_vars
    PROVE  [Recorded!LogNext]_Recorded!logVars
<1> USE DEF Recorded!logVars
<1>1. ASSUME NEW t \in Turns, Commit(t) PROVE [Recorded!LogNext]_Recorded!logVars
  <2>1. CASE Recorded!Record(t)
    BY <2>1 DEF Recorded!LogNext
  <2>2. CASE UNCHANGED <<Log, row>>
    BY <2>2 DEF Log
  <2> QED BY <1>1, <2>1, <2>2, CommitRecords
<1>2. CASE WriteStatus /\ UNCHANGED transcript
  <2>1. PICK status \in AllowedFrom(request) : row' = [row EXCEPT !.status = status]
    BY <1>2 DEF WriteStatus
  <2>2. row'.status = status /\ row'.tokens = row.tokens
    BY <2>1 DEF TypeOK
  <2>3. status \in {"ACTIVE", "CLOSED", "ARCHIVED"}
    BY DEF AllowedFrom
  <2>4. Recorded!Decide
    BY <1>2, <2>2, <2>3 DEF Recorded!Decide
  <2> QED BY <2>4 DEF Recorded!LogNext
<1>3. CASE UNCHANGED <<row, transcript>>
  BY <1>3
<1> QED BY <1>1, <1>2, <1>3, Writers

\* A conversation's row and messages implement the durable log: whole turns, each at
\* most once and never taken back, behind a lock that only a full conversation gets.
THEOREM ConversationIsTranscript == Spec => ImplementsTranscript
<1> DEFINE I == TypeOK /\ TranscriptInv /\ SeenBefore /\ LockedOnlyWhenFull
<1>1. Init => I /\ Recorded!LogInit
  BY InitTypeOK, InitTranscript, InitLocked, InitRecorded
<1>2. I /\ [Next]_vars => I'
  BY NextTypeOK, NextTranscript, NextLocked
<1>3. I /\ I' /\ [Next]_vars => [Recorded!LogNext]_Recorded!logVars
  BY NextRecorded
<1> QED BY <1>1, <1>2, <1>3, PTL DEF Spec, ImplementsTranscript, Recorded!LogSpec

-----------------------------------------------------------------------------
(* A turn in flight alone.                                                 *)

Alone == \A t, u \in InFlight : t # u => t \in shared

\* Its transaction finds the transcript as it read it.
SoloWrites ==
    \A t \in Turns \ shared :
        /\ pc[t] = "writing" => slot[t] = 2 * Len(transcript) + 1
        /\ fate[t] # "conflict"
        /\ pc[t] \in {"settled", "done", "over"} /\ outcome[t] # "raised" => fate[t] # "pending"

\* Its copy of the session is still what the cache holds, if the cache still has it.
SoloBase ==
    \A t \in Turns \ shared :
        /\ pc[t] = "restoring" => ~cached
        /\ pc[t] \in {"loaded", "listening"} \cup Running /\ cached => session = base[t]

LEMMA InitAlone == Init => Alone /\ SoloWrites /\ SoloBase
BY DEF Init, Alone, SoloWrites, SoloBase, InFlight, Handling, Running

LEMMA SharedGrows == [Next]_vars => shared \subseteq shared'
<1> SUFFICES ASSUME [Next]_vars PROVE shared \subseteq shared'
  OBVIOUS
<1>1. ASSUME NEW t \in Turns, Refuse(t) \/ Admit(t) \/ Handle(t) PROVE shared \subseteq shared'
  BY <1>1 DEF Refuse, Admit, Handle, Load, Restore, Open, Launch
<1>2. ASSUME NEW t \in Turns, Work(t) PROVE UNCHANGED shared
  BY <1>2 DEF Work, Run, BeginWrite, Commit, Announce, Save
<1>3. ASSUME NEW t \in Turns,
             Raise(t) \/ WriteFails(t) \/ Lose(t) \/ Disconnect(t) \/ TimeOut(t)
      PROVE  UNCHANGED shared
  BY <1>3 DEF Raise, WriteFails, Lose, Disconnect, TimeOut
<1>4. Crash \/ Forget \/ ReadStatus \/ WriteStatus \/ EndRequest \/ UNCHANGED vars
        => UNCHANGED shared
  BY DEF Crash, Forget, ReadStatus, WriteStatus, EndRequest, vars
<1> QED BY <1>1, <1>2, <1>3, <1>4 DEF Next

\* Only a request puts a turn in flight.
LEMMA TakesOff ==
    ASSUME TypeOK, [Next]_vars, NEW t \in Turns, t \in InFlight', t \notin InFlight
    PROVE  Admit(t)
<1> USE DEF InFlight, TypeOK, Handling, Running, Step, storeVars, localVars
<1>1. ASSUME NEW u \in Turns, Refuse(u) \/ Handle(u) PROVE Admit(t)
  BY <1>1 DEF Refuse, Handle, Load, Restore, Open, Launch
<1>2. ASSUME NEW u \in Turns, Admit(u) PROVE Admit(t)
  BY <1>2 DEF Admit
<1>3. ASSUME NEW u \in Turns, Work(u) PROVE Admit(t)
  BY <1>3 DEF Work, Run, BeginWrite, Commit, Announce, Save
<1>4. ASSUME NEW u \in Turns,
             Raise(u) \/ WriteFails(u) \/ Lose(u) \/ Disconnect(u) \/ TimeOut(u)
      PROVE  Admit(t)
  BY <1>4 DEF Raise, WriteFails, Lose, Disconnect, TimeOut
<1>5. Crash \/ Forget \/ ReadStatus \/ WriteStatus \/ EndRequest \/ UNCHANGED vars => Admit(t)
  BY DEF Crash, Forget, ReadStatus, WriteStatus, EndRequest, vars
<1> QED BY <1>1, <1>2, <1>3, <1>4, <1>5 DEF Next

LEMMA NextAlone == TypeOK /\ Alone /\ [Next]_vars => Alone'
<1> SUFFICES ASSUME TypeOK, Alone, [Next]_vars,
                    NEW t \in InFlight', NEW u \in InFlight', t # u
             PROVE  t \in shared'
  BY DEF Alone
<1>0. t \in Turns /\ u \in Turns
  BY DEF InFlight
<1>1. CASE t \in InFlight /\ u \in InFlight
  BY <1>1, SharedGrows DEF Alone
<1>2. CASE t \notin InFlight
  <2>1. Admit(t)
    BY <1>0, <1>2, TakesOff
  <2>2. u \in InFlight
    BY <1>0, <2>1 DEF Admit, Step, InFlight, TypeOK, Handling, Running
  <2> QED BY <2>1, <2>2 DEF Admit
<1>3. CASE u \notin InFlight
  <2>1. Admit(u)
    BY <1>0, <1>3, TakesOff
  <2>2. t \in InFlight
    BY <1>0, <2>1 DEF Admit, Step, InFlight, TypeOK, Handling, Running
  <2> QED BY <2>1, <2>2 DEF Admit
<1> QED BY <1>1, <1>2, <1>3

\* Two turns in flight are two that share the conversation.
LEMMA TwoInFlight ==
    ASSUME TypeOK, Alone, [Next]_vars, NEW t \in Turns \ shared', NEW u \in Turns,
           t \in InFlight, u \in InFlight
    PROVE  t = u
BY SharedGrows DEF Alone

Ended == {"settled", "done", "over"}

\* A turn ends by its transaction, or raises.
LEMMA Ends ==
    ASSUME TypeOK, [Next]_vars, NEW u \in Turns, pc'[u] \in Ended, outcome'[u] # "raised"
    PROVE  \/ WriteFails(u) \/ Commit(u)
           \/ pc[u] \in Ended /\ outcome[u] # "raised"
<1> USE DEF Ended, TypeOK, Handling, Running, Step, storeVars, localVars
<1> DEFINE Goal == \/ WriteFails(u) \/ Commit(u)
                   \/ pc[u] \in Ended /\ outcome[u] # "raised"
<1> SUFFICES Goal
  OBVIOUS
<1>1. ASSUME NEW t \in Turns, Refuse(t) \/ Admit(t) PROVE Goal
  BY <1>1 DEF Refuse, Admit
<1>2. ASSUME NEW t \in Turns, Handle(t) PROVE Goal
  BY <1>2 DEF Handle, Load, Restore, Open, Launch
<1>3. ASSUME NEW t \in Turns, (\E result \in {"answered", "failed"} : Run(t, result)) \/ BeginWrite(t)
      PROVE Goal
  BY <1>3 DEF Run, BeginWrite
<1>4. ASSUME NEW t \in Turns, WriteFails(t) \/ Commit(t) PROVE Goal
  <2>1. CASE u = t
    BY <1>4, <2>1
  <2>2. CASE u # t
    BY <1>4, <2>2 DEF WriteFails, Commit
  <2> QED BY <2>1, <2>2
<1>5. ASSUME NEW t \in Turns, Announce(t) \/ Save(t) \/ Raise(t) \/ Lose(t) PROVE Goal
  BY <1>5 DEF Announce, Save, Raise, Lose
<1>6. ASSUME NEW t \in Turns, Disconnect(t) \/ TimeOut(t) PROVE Goal
  BY <1>6 DEF Disconnect, TimeOut
<1>7. CASE Forget \/ ReadStatus \/ WriteStatus \/ EndRequest \/ UNCHANGED vars
  BY <1>7 DEF Forget, ReadStatus, WriteStatus, EndRequest, vars
<1>8. CASE Crash
  BY <1>8 DEF Crash, InFlight
<1> HIDE DEF Goal
<1> QED BY <1>1, <1>2, <1>3, <1>4, <1>5, <1>6, <1>7, <1>8 DEF Next, Work

LEMMA NextSoloWrites ==
    TypeOK /\ TranscriptInv /\ Alone /\ SoloWrites /\ [Next]_vars => SoloWrites'
<1> SUFFICES ASSUME TypeOK, TranscriptInv, Alone, SoloWrites, [Next]_vars,
                    NEW t \in Turns \ shared'
             PROVE  /\ pc'[t] = "writing" => slot'[t] = 2 * Len(transcript') + 1
                    /\ fate'[t] # "conflict"
                    /\ pc'[t] \in Ended /\ outcome'[t] # "raised" => fate'[t] # "pending"
  BY DEF SoloWrites, Ended
<1>0. t \in Turns \ shared
  BY SharedGrows
<1>1. ASSUME Commit(t)
      PROVE  pc'[t] = "settled" /\ fate'[t] = "kept"
  <2>1. slot[t] = 2 * Len(transcript) + 1
    BY <1>0, <1>1 DEF SoloWrites, Commit, Step
  <2>2. SlotFree(slot[t])
    <3>1. Len(transcript) \in Nat /\ DOMAIN transcript = 1 .. Len(transcript)
      BY LenProperties DEF TypeOK
    <3>2. \A i \in DOMAIN transcript : transcript[i].seq = 2 * i - 1
      BY DEF TranscriptInv, RowCountsTranscript
    <3> QED BY <2>1, <3>1, <3>2 DEF SlotFree
  <2> QED BY <1>1, <2>2 DEF Commit, Step, TypeOK
<1>2. ASSUME WriteFails(t)
      PROVE  pc'[t] = "settled" /\ fate'[t] = "outage"
  BY <1>2 DEF WriteFails, TypeOK
<1>3. ASSUME pc'[t] = "writing" PROVE slot'[t] = 2 * Len(transcript') + 1
  <2>1. UNCHANGED transcript
    <3> SUFFICES ASSUME NEW v \in Turns, Commit(v) PROVE FALSE
      BY Writers DEF WriteStatus
    <3>1. pc[v] = "writing" /\ pc' = [pc EXCEPT ![v] = "settled"]
      BY DEF Commit, Step
    <3>2. v # t /\ pc[t] = "writing"
      BY <1>3, <3>1 DEF TypeOK
    <3> QED BY <3>1, <3>2, TwoInFlight DEF InFlight, Running
  <2>2. CASE BeginWrite(t)
    BY <2>1, <2>2, NextSeqIsNext DEF BeginWrite, TypeOK, TranscriptInv
  <2>3. CASE ~BeginWrite(t)
    BY <1>0, <1>3, <2>1, <2>3, Progress DEF SoloWrites
  <2> QED BY <2>2, <2>3
<1>4. fate'[t] # "conflict"
  BY <1>0, <1>1, <1>2, Progress DEF SoloWrites
<1>5. pc'[t] \in Ended /\ outcome'[t] # "raised" => fate'[t] # "pending"
  BY <1>0, <1>1, <1>2, Progress, Ends DEF SoloWrites, Ended
<1> QED BY <1>3, <1>4, <1>5

\* A turn in flight alone is in the transcript once it settled: nothing but an outage
\* of Postgres or an exception of its task keeps it out.
THEOREM SoloTurnsAreKept == Spec => []SoloTurnKept
<1> DEFINE I == TypeOK /\ TranscriptInv /\ Alone /\ SoloWrites
<1>1. Init => I
  BY InitTypeOK, InitTranscript, InitAlone
<1>2. I /\ [Next]_vars => I'
  BY NextTypeOK, NextTranscript, NextAlone, NextSoloWrites
<1>3. I => SoloTurnKept
  <2> SUFFICES ASSUME I, NEW t \in Turns \ shared,
                      pc[t] \in {"settled", "done", "over"}, outcome[t] # "raised"
               PROVE  fate[t] = "outage" \/ InTranscript(t)
    BY DEF SoloTurnKept
  <2>1. fate[t] \in {"pending", "kept", "conflict", "outage"}
    BY DEF TypeOK
  <2>2. fate[t] = "kept" => InTranscript(t)
    BY DEF TranscriptInv, FateInv
  <2> QED BY <2>1, <2>2 DEF SoloWrites
<1> QED BY <1>1, <1>2, <1>3, PTL DEF Spec

-----------------------------------------------------------------------------
(* The session of a turn in flight alone.                                  *)

\* Where a turn has a copy of the session.
Held == {"loaded", "listening"} \cup Running

\* How the session moves between the cache and the turns.
LEMMA SessionMoves ==
    ASSUME TypeOK, [Next]_vars, NEW u \in Turns
    PROVE  /\ UNCHANGED <<cached, session>> \/ Forget \/ \E v \in Turns : Save(v)
           /\ \/ pc'[u] \notin Held \cup {"restoring"} \/ Load(u) \/ Restore(u)
              \/ pc'[u] = "restoring" /\ pc[u] = "restoring"
              \/ pc'[u] \in Held /\ pc[u] \in Held /\ base'[u] = base[u]
<1> USE DEF TypeOK, Held, Handling, Running, Step, storeVars, localVars
<1> DEFINE Goal ==
      /\ UNCHANGED <<cached, session>> \/ Forget \/ \E v \in Turns : Save(v)
      /\ \/ pc'[u] \notin Held \cup {"restoring"} \/ Load(u) \/ Restore(u)
         \/ pc'[u] = "restoring" /\ pc[u] = "restoring"
         \/ pc'[u] \in Held /\ pc[u] \in Held /\ base'[u] = base[u]
<1> SUFFICES Goal
  OBVIOUS
<1>1. ASSUME NEW t \in Turns, Refuse(t) \/ Admit(t) PROVE Goal
  BY <1>1 DEF Refuse, Admit
<1>2. ASSUME NEW t \in Turns, Load(t) \/ Restore(t) PROVE Goal
  <2>1. UNCHANGED <<cached, session>> /\ \A v \in Turns \ {t} : base'[v] = base[v] /\ pc'[v] = pc[v]
    BY <1>2 DEF Load, Restore
  <2> QED BY <1>2, <2>1
<1>3. ASSUME NEW t \in Turns, Open(t) \/ Launch(t) PROVE Goal
  BY <1>3 DEF Open, Launch
<1>4. ASSUME NEW t \in Turns, (\E result \in {"answered", "failed"} : Run(t, result)) \/ BeginWrite(t)
      PROVE Goal
  BY <1>4 DEF Run, BeginWrite
<1>5. ASSUME NEW t \in Turns, WriteFails(t) \/ Commit(t) PROVE Goal
  BY <1>5 DEF WriteFails, Commit
<1>6. ASSUME NEW t \in Turns, Announce(t) \/ Raise(t) \/ Lose(t) PROVE Goal
  BY <1>6 DEF Announce, Raise, Lose
<1>7. ASSUME NEW t \in Turns, Save(t) PROVE Goal
  <2>1. UNCHANGED base /\ pc' = [pc EXCEPT ![t] = "over"]
    BY <1>7 DEF Save
  <2> QED BY <1>7, <2>1
<1>8. ASSUME NEW t \in Turns, Disconnect(t) \/ TimeOut(t) PROVE Goal
  BY <1>8 DEF Disconnect, TimeOut
<1>9. CASE ReadStatus \/ WriteStatus \/ EndRequest \/ UNCHANGED vars
  BY <1>9 DEF ReadStatus, WriteStatus, EndRequest, vars
<1>10. CASE Crash
  BY <1>10 DEF Crash, InFlight
<1>11. CASE Forget
  <2>1. UNCHANGED <<base, pc>>
    BY <1>11 DEF Forget
  <2> QED BY <1>11, <2>1
<1> HIDE DEF Goal
<1> QED BY <1>1, <1>2, <1>3, <1>4, <1>5, <1>6, <1>7, <1>8, <1>9, <1>10, <1>11
        DEF Next, Handle, Work

LEMMA NextSoloBase == TypeOK /\ Alone /\ SoloBase /\ [Next]_vars => SoloBase'
<1> SUFFICES ASSUME TypeOK, Alone, SoloBase, [Next]_vars, NEW t \in Turns \ shared',
                    pc'[t] \in Held \cup {"restoring"}
             PROVE  /\ pc'[t] = "restoring" => ~cached'
                    /\ pc'[t] \in Held /\ cached' => session' = base'[t]
  BY DEF SoloBase, Held
<1>0. t \in Turns \ shared
  BY SharedGrows
<1>1. CASE Load(t)
  BY <1>1 DEF Load, Step, TypeOK, storeVars, Held, Running
<1>2. CASE Restore(t)
  BY <1>0, <1>2 DEF Restore, Step, TypeOK, SoloBase, storeVars, Held, Running
<1>3. CASE ~Load(t) /\ ~Restore(t)
  <2>1. \/ pc'[t] = "restoring" /\ pc[t] = "restoring"
        \/ pc'[t] \in Held /\ pc[t] \in Held /\ base'[t] = base[t]
    BY <1>3, SessionMoves
  <2>2. t \in InFlight
    BY <2>1 DEF InFlight, Held, Handling, Running
  <2>3. CASE UNCHANGED <<cached, session>>
    BY <1>0, <2>1, <2>3 DEF SoloBase, Held, Running
  <2>4. CASE Forget
    BY <2>4 DEF Forget
  <2>5. ASSUME NEW v \in Turns, Save(v) PROVE FALSE
    <3>1. pc[v] = "done" /\ pc' = [pc EXCEPT ![v] = "over"]
      BY <2>5 DEF Save, Step
    <3>2. v \in InFlight
      BY <3>1 DEF InFlight, Running
    <3>3. v = t
      BY <2>2, <3>2, TwoInFlight
    <3> QED BY <3>1, <3>3 DEF TypeOK, Held, Running
  <2> QED BY <2>3, <2>4, <2>5, SessionMoves
<1> QED BY <1>1, <1>2, <1>3

\* The session a turn in flight alone writes back extends the one it replaces: no
\* history is lost between its load and its save (run_conversation_turn).
THEOREM SoloSavesExtend == Spec => SoloSaveExtends
<1> DEFINE I == TypeOK /\ Alone /\ SoloBase
<1>1. Init => I
  BY InitTypeOK, InitAlone
<1>2. I /\ [Next]_vars => I'
  BY NextTypeOK, NextAlone, NextSoloBase
<1>3. I => \A t \in Turns \ shared :
               Save(t) /\ cached => IsPrefix(session.history, session'.history)
  <2> SUFFICES ASSUME I, NEW t \in Turns \ shared, Save(t), cached
               PROVE  IsPrefix(session.history, session'.history)
    OBVIOUS
  <2>1. session = base[t] /\ session' = SessionAfter(t)
    BY DEF Save, Step, SoloBase, Running
  <2> DEFINE h == base[t].history
  <2>2. h \in Seq(Turns) /\ session.history = h
    BY <2>1 DEF TypeOK, Sessions
  <2>3. session'.history \in {h, Append(h, t)}
    BY <2>1 DEF SessionAfter
  <2> HIDE DEF h
  <2>4. IsPrefix(h, h) /\ IsPrefix(h, Append(h, t))
    BY <2>2 DEF IsPrefix
  <2> QED BY <2>2, <2>3, <2>4
<1> QED BY <1>1, <1>2, <1>3, PTL DEF Spec, SoloSaveExtends

-----------------------------------------------------------------------------
(* The answer of a turn in flight alone.                                   *)

\* Before its client has subscribed.
Early == {"unsent", "refused", "admitted", "restoring", "loaded"}

\* A stream is opened before the task runs, and until the answer is out nobody
\* but the turn itself could end it.
AnswerInv ==
    \A t \in Turns :
        /\ pc[t] \in Early => stream[t] = "none"
        /\ pc[t] \in Early \cup {"listening", "running"} => outcome[t] = "none"
        /\ t \notin shared =>
              /\ pc[t] \in {"listening", "running"} => stream[t] \in {"open", "broken"}
              /\ outcome[t] = "answered" /\ stream[t] \in {"open", "done"} => t \in heard

LEMMA InitAnswer == Init => AnswerInv
BY DEF Init, AnswerInv, Early

LEMMA NextAnswer == TypeOK /\ Alone /\ AnswerInv /\ [Next]_vars => AnswerInv'
<1> SUFFICES ASSUME TypeOK, Alone, AnswerInv, [Next]_vars, NEW t \in Turns
             PROVE  /\ pc'[t] \in Early => stream'[t] = "none"
                    /\ pc'[t] \in Early \cup {"listening", "running"} => outcome'[t] = "none"
                    /\ t \notin shared' =>
                          /\ pc'[t] \in {"listening", "running"} => stream'[t] \in {"open", "broken"}
                          /\ outcome'[t] = "answered" /\ stream'[t] \in {"open", "done"} => t \in heard'
  BY DEF AnswerInv
<1> DEFINE Goal ==
      /\ pc'[t] \in Early => stream'[t] = "none"
      /\ pc'[t] \in Early \cup {"listening", "running"} => outcome'[t] = "none"
      /\ t \notin shared' =>
            /\ pc'[t] \in {"listening", "running"} => stream'[t] \in {"open", "broken"}
            /\ outcome'[t] = "answered" /\ stream'[t] \in {"open", "done"} => t \in heard'
<1> SUFFICES Goal
  OBVIOUS
<1>0. shared \subseteq shared'
  BY SharedGrows
<1> USE DEF TypeOK, AnswerInv, Early, Handling, Running, Step, storeVars, localVars, streamVars
<1>1. ASSUME NEW u \in Turns, Refuse(u) \/ Admit(u) PROVE Goal
  BY <1>0, <1>1 DEF Refuse, Admit
<1>2. ASSUME NEW u \in Turns, Handle(u) PROVE Goal
  BY <1>2 DEF Handle, Load, Restore, Open, Launch
<1>3. ASSUME NEW u \in Turns, \E result \in {"answered", "failed"} : Run(u, result) PROVE Goal
  <2>1. PICK result \in {"answered", "failed"} : Run(u, result)
    BY <1>3
  <2>2. CASE u = t
    BY <2>1, <2>2 DEF Run
  <2>3. CASE u # t
    BY <2>1, <2>3 DEF Run
  <2> QED BY <2>2, <2>3
<1>4. ASSUME NEW u \in Turns, BeginWrite(u) \/ WriteFails(u) \/ Commit(u) \/ Save(u) \/ Lose(u)
      PROVE  Goal
  BY <1>4 DEF BeginWrite, WriteFails, Commit, Save, Lose
<1>5. ASSUME NEW u \in Turns, Announce(u) \/ Raise(u) PROVE Goal
  <2>1. /\ pc[u] \in {"running", "settled", "done"} /\ pc' = [pc EXCEPT ![u] = "done"]
        /\ outcome' \in {outcome, [outcome EXCEPT ![u] = "raised"]}
        /\ UNCHANGED <<heard, shared>> /\ EndStreams
    BY <1>5 DEF Announce, Raise
  <2>2. u \in InFlight
    BY <2>1 DEF InFlight
  <2>3. stream'[t] = IF stream[t] = "open" THEN "done" ELSE stream[t]
    BY <2>1 DEF EndStreams
  <2>4. CASE u = t
    BY <2>1, <2>3, <2>4
  <2>5. CASE u # t
    <3>1. t \notin shared => pc[t] \notin {"listening", "running"}
      BY <2>1, <2>2, <2>5 DEF Alone, InFlight
    <3>2. pc'[t] = pc[t] /\ outcome'[t] = outcome[t]
      BY <2>1, <2>5
    <3> QED BY <2>1, <2>3, <3>1, <3>2
  <2> QED BY <2>4, <2>5
<1>6. ASSUME NEW u \in Turns, Disconnect(u) \/ TimeOut(u) PROVE Goal
  BY <1>6 DEF Disconnect, TimeOut
<1>7. CASE Forget \/ ReadStatus \/ WriteStatus \/ EndRequest \/ UNCHANGED vars
  BY <1>7 DEF Forget, ReadStatus, WriteStatus, EndRequest, vars
<1>8. CASE Crash
  BY <1>8 DEF Crash, InFlight
<1> HIDE DEF Goal
<1> QED BY <1>1, <1>2, <1>3, <1>4, <1>5, <1>6, <1>7, <1>8 DEF Next, Work

\* A client whose turn was in flight alone has its answer when "done" ends its stream
\* (stream_sse_response, run_conversation_turn), however its task ended.
THEOREM SoloAnswersAreHeard == Spec => []SoloAnswerHeard
<1> DEFINE I == TypeOK /\ Alone /\ AnswerInv
<1>1. Init => I
  BY InitTypeOK, InitAlone, InitAnswer
<1>2. I /\ [Next]_vars => I'
  BY NextTypeOK, NextAlone, NextAnswer
<1>3. I => SoloAnswerHeard
  BY DEF AnswerInv, SoloAnswerHeard
<1> QED BY <1>1, <1>2, <1>3, PTL DEF Spec

-----------------------------------------------------------------------------
(* The ceiling of a conversation whose turns never met.                    *)

\* A turn that has not written yet was admitted below the ceiling, and what it was
\* started with is what the row still says.
CeilingInv ==
    shared = {} =>
        /\ row.ceiling = CeilingStatus(row.messages, row.tokens)
        /\ row.messages < MaxMessages + 2 /\ row.tokens <= MaxTokens
        /\ \A t \in Turns :
              /\ pc[t] \in Handling \cup {"running", "answered", "writing"}
                    => row.messages < MaxMessages /\ row.tokens < MaxTokens
              /\ pc[t] \in {"running", "answered", "writing"}
                    => seen[t] = [messages |-> row.messages, tokens |-> row.tokens]

\* A threshold of zero is reached by a conversation nobody has written to.
LEMMA InitCeiling ==
    ASSUME WarningPct > 0, CriticalPct > 0
    PROVE  Init => CeilingInv
<1>1. ASSUME NEW pct \in Nat, NEW limit \in Nat, pct > 0, limit > 0
      PROVE  ~ (0 * 100 >= pct * limit)
  BY <1>1
<1>2. CeilingStatus(0, 0) = "ok"
  <2>1. 100 \in Nat /\ 100 > 0
    OBVIOUS
  <2> QED BY <1>1, <2>1, TurnsOK DEF CeilingStatus
<1> QED BY <1>2, TurnsOK DEF Init, CeilingInv, Handling

\* How a turn comes to the places before its transaction.
LEMMA Arrivals ==
    ASSUME TypeOK, [Next]_vars, NEW u \in Turns
    PROVE  /\ pc'[u] \in Handling \cup {"running", "answered", "writing"}
                => Admit(u) \/ pc[u] \in Handling \cup {"running", "answered", "writing"}
           /\ pc'[u] \in {"running", "answered", "writing"}
                => Launch(u) \/ pc[u] \in {"running", "answered", "writing"}
           /\ seen'[u] # seen[u] => Launch(u)
<1> USE DEF TypeOK, Handling, Running, Step, storeVars, localVars
<1> DEFINE Goal ==
      /\ pc'[u] \in Handling \cup {"running", "answered", "writing"}
           => Admit(u) \/ pc[u] \in Handling \cup {"running", "answered", "writing"}
      /\ pc'[u] \in {"running", "answered", "writing"}
           => Launch(u) \/ pc[u] \in {"running", "answered", "writing"}
      /\ seen'[u] # seen[u] => Launch(u)
<1> SUFFICES Goal
  OBVIOUS
<1>1. ASSUME NEW t \in Turns, Refuse(t) PROVE Goal
  BY <1>1 DEF Refuse
<1>2. ASSUME NEW t \in Turns, Admit(t) PROVE Goal
  <2>1. UNCHANGED seen /\ pc' = [pc EXCEPT ![t] = "admitted"]
    BY <1>2 DEF Admit
  <2> QED BY <1>2, <2>1
<1>3. ASSUME NEW t \in Turns, Load(t) \/ Restore(t) \/ Open(t) PROVE Goal
  BY <1>3 DEF Load, Restore, Open
<1>4. ASSUME NEW t \in Turns, Launch(t) PROVE Goal
  <2>1. /\ pc[t] = "listening" /\ pc' = [pc EXCEPT ![t] = "running"]
        /\ \A v \in Turns \ {t} : seen'[v] = seen[v]
    BY <1>4 DEF Launch
  <2> QED BY <1>4, <2>1
<1>5. ASSUME NEW t \in Turns, Work(t) PROVE Goal
  BY <1>5 DEF Work, Run, BeginWrite, Commit, Announce, Save
<1>6. ASSUME NEW t \in Turns,
             Raise(t) \/ WriteFails(t) \/ Lose(t) \/ Disconnect(t) \/ TimeOut(t)
      PROVE  Goal
  BY <1>6 DEF Raise, WriteFails, Lose, Disconnect, TimeOut
<1>7. CASE Forget \/ ReadStatus \/ WriteStatus \/ EndRequest \/ UNCHANGED vars
  BY <1>7 DEF Forget, ReadStatus, WriteStatus, EndRequest, vars
<1>8. CASE Crash
  BY <1>8 DEF Crash, InFlight
<1> HIDE DEF Goal
<1> QED BY <1>1, <1>2, <1>3, <1>4, <1>5, <1>6, <1>7, <1>8 DEF Next, Handle

LEMMA NextCeiling == TypeOK /\ Alone /\ CeilingInv /\ [Next]_vars => CeilingInv'
<1> SUFFICES ASSUME TypeOK, Alone, CeilingInv, [Next]_vars, shared' = {} PROVE CeilingInv'
  BY DEF CeilingInv
<1> DEFINE Before == Handling \cup {"running", "answered", "writing"}
<1>0. shared = {}
  BY SharedGrows
<1>1. /\ row.messages \in Nat /\ row.tokens \in Nat
      /\ row.ceiling = CeilingStatus(row.messages, row.tokens)
      /\ row.messages < MaxMessages + 2 /\ row.tokens <= MaxTokens
      /\ \A t \in Turns : pc[t] \in Before => row.messages < MaxMessages /\ row.tokens < MaxTokens
      /\ \A t \in Turns : pc[t] \in {"running", "answered", "writing"}
            => seen[t] = [messages |-> row.messages, tokens |-> row.tokens]
  BY <1>0 DEF CeilingInv, TypeOK
<1>2. ASSUME row'.messages = row.messages, row'.tokens = row.tokens, row'.ceiling = row.ceiling
      PROVE  CeilingInv'
  <2>1. ASSUME NEW t \in Turns, pc'[t] \in Before
        PROVE  row'.messages < MaxMessages /\ row'.tokens < MaxTokens
    <3>1. CASE Admit(t)
      BY <1>2, <3>1 DEF Admit, MayChat
    <3>2. CASE pc[t] \in Before
      BY <1>1, <1>2, <3>2
    <3> QED BY <2>1, <3>1, <3>2, Arrivals
  <2>2. ASSUME NEW t \in Turns, pc'[t] \in {"running", "answered", "writing"}
        PROVE  seen'[t] = [messages |-> row'.messages, tokens |-> row'.tokens]
    <3>1. CASE Launch(t)
      BY <1>2, <3>1 DEF Launch, TypeOK
    <3>2. CASE ~Launch(t)
      BY <1>1, <1>2, <2>2, <3>2, Arrivals
    <3> QED BY <3>1, <3>2
  <2> QED BY <1>1, <1>2, <2>1, <2>2 DEF CeilingInv
<1>3. ASSUME NEW t \in Turns, Commit(t), row' = CountedRow(t) PROVE CeilingInv'
  <2>1. pc[t] = "writing" /\ pc' = [pc EXCEPT ![t] = "settled"]
    BY <1>3 DEF Commit, Step
  <2>2. t \in InFlight
    BY <2>1 DEF InFlight, Running
  <2>3. seen[t].messages = row.messages /\ seen[t].tokens = row.tokens
    BY <1>1, <2>1
  <2>4. Spent(t) \in {0, 1}
    BY DEF Spent
  <2>5. /\ row'.messages = row.messages + 2 /\ row'.tokens = row.tokens + Spent(t)
        /\ row'.ceiling = CeilingStatus(row.messages + 2, row.tokens + Spent(t))
    BY <1>3, <2>3 DEF CountedRow, TypeOK
  <2>6. row.messages < MaxMessages /\ row.tokens < MaxTokens
    BY <1>1, <2>1
  <2>7. \A u \in Turns : pc'[u] \notin Before
    <3> SUFFICES ASSUME NEW u \in Turns, pc'[u] \in Before PROVE FALSE
      OBVIOUS
    <3>1. u # t /\ pc[u] \in Before
      BY <2>1 DEF TypeOK, Handling
    <3>2. u \in InFlight
      BY <3>1 DEF InFlight, Running
    <3> QED BY <1>0, <2>2, <3>1, <3>2 DEF Alone
  <2>8. row'.messages < MaxMessages + 2 /\ row'.tokens <= MaxTokens
    BY <1>1, <2>4, <2>5, <2>6, TurnsOK
  <2>9. row'.ceiling = CeilingStatus(row'.messages, row'.tokens)
    BY <2>5
  <2> QED BY <2>7, <2>8, <2>9 DEF CeilingInv
<1>4. CASE WriteStatus
  <2>1. PICK status \in AllowedFrom(request) : row' = [row EXCEPT !.status = status]
    BY <1>4 DEF WriteStatus
  <2> QED BY <1>2, <2>1 DEF TypeOK
<1>5. CASE UNCHANGED row
  BY <1>2, <1>5
<1> QED BY <1>3, <1>4, <1>5, Writers DEF Commit

\* As long as no two turns were in flight together, ceiling_status agrees with the
\* counters and no turn ran beyond the ceiling, for every ceiling and all thresholds
\* above zero (_persist_turn_to_postgres, compute_ceiling_status).
THEOREM SoloCeilingHolds ==
    ASSUME WarningPct > 0, CriticalPct > 0
    PROVE  Spec => []SoloCeiling
<1> DEFINE I == TypeOK /\ Alone /\ CeilingInv
<1>1. Init => I
  BY InitTypeOK, InitAlone, InitCeiling
<1>2. I /\ [Next]_vars => I'
  BY NextTypeOK, NextAlone, NextCeiling
<1>3. I => SoloCeiling
  BY DEF CeilingInv, SoloCeiling
<1> QED BY <1>1, <1>2, <1>3, PTL DEF Spec

-----------------------------------------------------------------------------
(* The order of the history.                                               *)

\* No turn twice, and what is also in the transcript in its order.
Ordered(h, log) ==
    \A i, j \in DOMAIN h : i < j =>
        /\ h[i] # h[j]
        /\ \A k, l \in DOMAIN log : log[k].turn = h[i] /\ log[l].turn = h[j] => k < l

Logs == Seq([turn : Turns, seq : Nat])

\* A turn that is in neither comes last in both.
LEMMA OrderedAppend ==
    ASSUME NEW h \in Seq(Turns), NEW log \in Logs, Ordered(h, log), NEW t \in Turns,
           \A i \in DOMAIN h : h[i] # t, \A k \in DOMAIN log : log[k].turn # t
    PROVE  Ordered(Append(h, t), log)
<1> DEFINE g == Append(h, t)
<1>1. Len(h) \in Nat /\ DOMAIN h = 1 .. Len(h)
  BY LenProperties
<1>2. /\ DOMAIN g = 1 .. Len(h) + 1
      /\ \A i \in 1 .. Len(h) : g[i] = h[i]
      /\ g[Len(h) + 1] = t
  BY <1>1
<1> HIDE DEF g
<1> SUFFICES ASSUME NEW i \in DOMAIN g, NEW j \in DOMAIN g, i < j
             PROVE  /\ g[i] # g[j]
                    /\ \A k, l \in DOMAIN log :
                          log[k].turn = g[i] /\ log[l].turn = g[j] => k < l
  BY DEF Ordered, g
<1>3. i \in DOMAIN h /\ g[i] = h[i]
  BY <1>1, <1>2
<1>4. CASE j = Len(h) + 1
  BY <1>2, <1>3, <1>4
<1>5. CASE j # Len(h) + 1
  <2>1. j \in DOMAIN h /\ g[j] = h[j]
    BY <1>1, <1>2, <1>5
  <2> QED BY <1>3, <2>1 DEF Ordered
<1> QED BY <1>4, <1>5

\* What comes before the last is ordered too.
LEMMA OrderedFront ==
    ASSUME NEW h \in Seq(Turns), NEW log \in Logs, NEW t \in Turns, Ordered(Append(h, t), log)
    PROVE  Ordered(h, log)
<1>1. Len(h) \in Nat /\ DOMAIN h = 1 .. Len(h)
  BY LenProperties
<1>2. DOMAIN Append(h, t) = 1 .. Len(h) + 1 /\ \A i \in 1 .. Len(h) : Append(h, t)[i] = h[i]
  BY <1>1
<1>3. DOMAIN h \subseteq DOMAIN Append(h, t)
  BY <1>1, <1>2
<1> QED BY <1>1, <1>2, <1>3 DEF Ordered

\* A turn written to the transcript disturbs no history it is not in the middle of.
LEMMA OrderedLogged ==
    ASSUME NEW h \in Seq(Turns), NEW log \in Logs, Ordered(h, log),
           NEW entry \in [turn : Turns, seq : Nat],
           \A i \in DOMAIN h : i < Len(h) => h[i] # entry.turn
    PROVE  Ordered(h, Append(log, entry))
<1> DEFINE new == Append(log, entry)
<1>1. /\ Len(log) \in Nat /\ DOMAIN log = 1 .. Len(log)
      /\ Len(h) \in Nat /\ DOMAIN h = 1 .. Len(h)
  BY LenProperties DEF Logs
<1>2. /\ DOMAIN new = 1 .. Len(log) + 1
      /\ \A k \in 1 .. Len(log) : new[k] = log[k]
      /\ new[Len(log) + 1] = entry
  BY <1>1 DEF Logs
<1> HIDE DEF new
<1> SUFFICES ASSUME NEW i \in DOMAIN h, NEW j \in DOMAIN h, i < j,
                    NEW k \in DOMAIN new, NEW l \in DOMAIN new,
                    new[k].turn = h[i], new[l].turn = h[j]
             PROVE  k < l
  BY DEF Ordered, new
<1>3. h[i] # entry.turn
  BY <1>1
<1>4. k \in DOMAIN log /\ new[k] = log[k]
  BY <1>1, <1>2, <1>3
<1>5. CASE l = Len(log) + 1
  BY <1>1, <1>4, <1>5
<1>6. CASE l # Len(log) + 1
  <2>1. l \in DOMAIN log /\ new[l] = log[l]
    BY <1>1, <1>2, <1>6
  <2> QED BY <1>4, <2>1 DEF Ordered
<1> QED BY <1>5, <1>6

\* A session rebuilt from Postgres is in the order of the messages.
LEMMA RecentOrdered ==
    ASSUME TypeOK, TurnsOnce
    PROVE  /\ RecentHistory \in Seq(Turns)
           /\ Ordered(RecentHistory, transcript)
           /\ \A i \in DOMAIN RecentHistory : InTranscript(RecentHistory[i])
<1> DEFINE turns == [i \in DOMAIN transcript |-> transcript[i].turn]
           n == Len(turns)
           a == IF n > RecentTurns THEN n - RecentTurns + 1 ELSE 1
           h == SubSeq(turns, a, n)
<1>1. DOMAIN transcript = 1 .. Len(transcript) /\ Len(transcript) \in Nat
  BY LenProperties DEF TypeOK
<1>2. \A i \in 1 .. Len(transcript) : transcript[i].turn \in Turns
  <2>1. \A i \in 1 .. Len(transcript) : transcript[i] \in [turn : Turns, seq : Nat]
    BY ElementOfSeq DEF TypeOK
  <2> QED BY <2>1
<1>3. turns \in Seq(Turns) /\ n = Len(transcript)
  <2>1. turns \in [1 .. Len(transcript) -> Turns]
    BY <1>1, <1>2
  <2>2. turns \in Seq(Turns)
    BY <1>1, <2>1
  <2>3. DOMAIN turns = 1 .. Len(transcript)
    BY <1>1
  <2> QED BY <1>1, <2>2, <2>3, LenProperties
<1>4. \A i \in 1 .. n : turns[i] = transcript[i].turn
  BY <1>1, <1>3
<1>5. n \in Nat /\ a \in Nat /\ a >= 1
  BY <1>1, <1>3, TurnsOK
<1>6. h = RecentHistory
  BY DEF RecentHistory
<1> HIDE DEF turns, n, a
<1>7. \A i \in a .. n : turns[i] \in Turns
  BY <1>2, <1>3, <1>4, <1>5
<1>8. h \in Seq(Turns) /\ Len(h) = (IF a <= n THEN n - a + 1 ELSE 0)
  BY <1>3, <1>5, <1>7, SubSeqProperties
<1>9. \A i \in DOMAIN h : a + i - 1 \in 1 .. n /\ h[i] = turns[a + i - 1]
  <2> SUFFICES ASSUME NEW i \in DOMAIN h PROVE a + i - 1 \in 1 .. n /\ h[i] = turns[a + i - 1]
    OBVIOUS
  <2>1. i \in 1 .. Len(h)
    BY <1>8, LenProperties
  <2>2. i \in 1 .. (n - a + 1) /\ a + i - 1 \in 1 .. n
    BY <1>5, <1>8, <2>1
  <2>3. h[i] = turns[a + i - 1]
    BY <1>3, <1>5, <1>7, <2>2, SubSeqProperties
  <2> QED BY <2>2, <2>3
<1>10. \A i \in DOMAIN h : a + i - 1 \in DOMAIN transcript /\ h[i] = transcript[a + i - 1].turn
  BY <1>1, <1>3, <1>4, <1>9
<1>11. DOMAIN h \subseteq Nat
  BY <1>8, LenProperties
<1> HIDE DEF h
<1>12. Ordered(h, transcript)
  <2> SUFFICES ASSUME NEW i \in DOMAIN h, NEW j \in DOMAIN h, i < j
               PROVE  /\ h[i] # h[j]
                      /\ \A k, l \in DOMAIN transcript :
                            transcript[k].turn = h[i] /\ transcript[l].turn = h[j] => k < l
    BY DEF Ordered
  <2>1. a + i - 1 < a + j - 1
    BY <1>5, <1>11
  <2>2. a + i - 1 # a + j - 1
    BY <1>5, <1>11
  <2>3. h[i] # h[j]
    BY <1>10, <2>2 DEF TurnsOnce
  <2>4. ASSUME NEW k \in DOMAIN transcript, NEW l \in DOMAIN transcript,
               transcript[k].turn = h[i], transcript[l].turn = h[j]
        PROVE  k < l
    <3>1. k = a + i - 1 /\ l = a + j - 1
      BY <1>10, <2>4 DEF TurnsOnce
    <3> QED BY <2>1, <3>1
  <2> QED BY <2>3, <2>4
<1>13. \A i \in DOMAIN h : InTranscript(h[i])
  BY <1>10 DEF InTranscript
<1> QED BY <1>6, <1>8, <1>12, <1>13

\* Every turn of a history has left its transaction behind.
Past(h, at) == \A i \in DOMAIN h : at[h[i]] \in Settled

\* The session, and what every turn would make of its copy of it.
HistoryInv ==
    /\ Past(session.history, pc) /\ Ordered(session.history, transcript)
    /\ \A t \in Turns :
          Past(base[t].history, pc) /\ Ordered(Append(base[t].history, t), transcript)

LEMMA InitHistory == Init => HistoryInv
<1> SUFFICES ASSUME Init PROVE HistoryInv
  OBVIOUS
<1>1. transcript = <<>> /\ session.history = <<>> /\ \A t \in Turns : base[t].history = <<>>
  BY DEF Init, Fresh
<1>2. DOMAIN << >> = {}
  OBVIOUS
<1>3. \A t \in Turns : DOMAIN Append(<< >>, t) = {1}
  OBVIOUS
<1> QED BY <1>1, <1>2, <1>3 DEF HistoryInv, Past, Ordered

\* A history changes where a turn loads it, and where one is written back.
LEMMA HistoryMoves ==
    ASSUME TypeOK, [Next]_vars
    PROVE  /\ \/ session'.history = session.history
              \/ session'.history = <<>>
              \/ \E t \in Turns : Save(t)
           /\ \A u \in Turns : base'[u].history = base[u].history \/ Load(u) \/ Restore(u)
<1> USE DEF TypeOK, Sessions, storeVars, localVars
<1>1. ASSUME NEW u \in Turns
      PROVE  base'[u].history = base[u].history \/ Load(u) \/ Restore(u)
  <2> DEFINE Goal == base'[u].history = base[u].history \/ Load(u) \/ Restore(u)
  <2> SUFFICES Goal
    OBVIOUS
  <2>1. ASSUME NEW t \in Turns, Refuse(t) \/ Open(t) \/ Launch(t) PROVE Goal
    BY <2>1 DEF Refuse, Open, Launch
  <2>2. ASSUME NEW t \in Turns, Admit(t) PROVE Goal
    BY <2>2 DEF Admit
  <2>3. ASSUME NEW t \in Turns, Load(t) \/ Restore(t) PROVE Goal
    <3>1. \A v \in Turns \ {t} : base'[v] = base[v]
      BY <2>3 DEF Load, Restore
    <3> QED BY <2>3, <3>1
  <2>4. ASSUME NEW t \in Turns, Work(t) PROVE Goal
    BY <2>4 DEF Work, Run, BeginWrite, Commit, Announce, Save
  <2>5. ASSUME NEW t \in Turns,
               Raise(t) \/ WriteFails(t) \/ Lose(t) \/ Disconnect(t) \/ TimeOut(t)
        PROVE  Goal
    BY <2>5 DEF Raise, WriteFails, Lose, Disconnect, TimeOut
  <2>6. CASE Crash \/ Forget \/ ReadStatus \/ WriteStatus \/ EndRequest \/ UNCHANGED vars
    BY <2>6 DEF Crash, Forget, ReadStatus, WriteStatus, EndRequest, vars
  <2> HIDE DEF Goal
  <2> QED BY <2>1, <2>2, <2>3, <2>4, <2>5, <2>6 DEF Next, Handle
<1>2. CASE Turns = {}
  <2>1. UNCHANGED session \/ Forget
    BY <1>2 DEF Next, Crash, ReadStatus, WriteStatus, EndRequest, vars
  <2>2. Forget => session'.history = <<>>
    BY DEF Forget, Fresh
  <2>3. UNCHANGED session => session'.history = session.history
    OBVIOUS
  <2> HIDE DEF TypeOK
  <2> QED BY <1>1, <2>1, <2>2, <2>3, Zenon
<1>3. CASE Turns # {}
  <2>1. UNCHANGED session \/ Forget \/ \E t \in Turns : Save(t)
    BY <1>3, SessionMoves
  <2>2. Forget => session'.history = <<>>
    BY DEF Forget, Fresh
  <2>3. UNCHANGED session => session'.history = session.history
    OBVIOUS
  <2> HIDE DEF TypeOK
  <2> QED BY <1>1, <2>1, <2>2, <2>3, Zenon
<1> QED BY <1>1, <1>2, <1>3

LEMMA NextHistory == TypeOK /\ TranscriptInv /\ HistoryInv /\ [Next]_vars => HistoryInv'
<1> SUFFICES ASSUME TypeOK, TranscriptInv, HistoryInv, [Next]_vars, TypeOK' PROVE HistoryInv'
  BY NextTypeOK
<1>0. /\ transcript \in Logs /\ session.history \in Seq(Turns)
      /\ \A t \in Turns : base[t].history \in Seq(Turns)
      /\ session'.history \in Seq(Turns)
      /\ \A t \in Turns : base'[t].history \in Seq(Turns)
  BY DEF TypeOK, Logs, Sessions
<1>1. ASSUME NEW h \in Seq(Turns), Past(h, pc) PROVE Past(h, pc')
  <2> SUFFICES ASSUME NEW i \in DOMAIN h PROVE pc'[h[i]] \in Settled
    BY DEF Past
  <2>1. h[i] \in Turns /\ pc[h[i]] \in Settled
    BY <1>1, ElementOfSeq, LenProperties DEF Past
  <2> QED BY <2>1, Progress
\* A history that stays as it is stays ordered.
<1>2. ASSUME NEW h \in Seq(Turns), Ordered(h, transcript),
             \A i \in DOMAIN h : i < Len(h) => pc[h[i]] \in Settled
      PROVE  Ordered(h, transcript')
  <2>1. CASE UNCHANGED transcript
    BY <1>2, <2>1
  <2>2. CASE ~ UNCHANGED transcript
    <3>1. PICK t \in Turns : Commit(t)
      BY <2>2, Writers DEF WriteStatus
    <3>2. pc[t] = "writing" /\ transcript' = Append(transcript, [turn |-> t, seq |-> slot[t]])
      BY <2>2, <3>1 DEF Commit, Step
    <3>3. \A i \in DOMAIN h : i < Len(h) => h[i] # t
      BY <1>2, <3>2 DEF Settled
    <3>4. [turn |-> t, seq |-> slot[t]] \in [turn : Turns, seq : Nat]
      BY DEF TypeOK
    <3>5. [turn |-> t, seq |-> slot[t]].turn = t
      OBVIOUS
    <3> QED BY <1>0, <1>2, <3>2, <3>3, <3>4, <3>5, OrderedLogged
  <2> QED BY <2>1, <2>2
<1>3. \A t \in Turns : base[t].history \in Seq(Turns) /\ Append(base[t].history, t) \in Seq(Turns)
  BY <1>0
<1>4. ASSUME NEW t \in Turns
      PROVE  /\ Past(base'[t].history, pc')
             /\ Ordered(Append(base'[t].history, t), transcript')
  <2> DEFINE g == base[t].history
  <2>1. g \in Seq(Turns) /\ Past(g, pc) /\ Ordered(Append(g, t), transcript)
    BY <1>0 DEF HistoryInv
  <2>2. CASE base'[t].history = g
    <3>1. Past(g, pc')
      BY <1>1, <2>1
    <3>2. \A i \in DOMAIN Append(g, t) :
              i < Len(Append(g, t)) => pc[Append(g, t)[i]] \in Settled
      BY <2>1, LenProperties DEF Past
    <3>3. Append(g, t) \in Seq(Turns)
      BY <2>1
    <3>4. Ordered(Append(g, t), transcript')
      BY <1>2, <2>1, <3>2, <3>3
    <3> QED BY <2>2, <3>1, <3>4
  <2>3. CASE Load(t) \/ Restore(t)
    <3> DEFINE h == base'[t].history
    <3>1. /\ pc[t] \in {"admitted", "restoring"} /\ UNCHANGED transcript
          /\ h \in {g, session.history, RecentHistory}
      <4>1. CASE Load(t)
        BY <4>1 DEF Load, Step, TypeOK, storeVars
      <4>2. CASE Restore(t)
        <5>1. base' = [base EXCEPT ![t].history = RecentHistory]
          BY <4>2 DEF Restore
        <5>2. base'[t].history = RecentHistory
          BY <5>1 DEF TypeOK, Sessions
        <5> QED BY <4>2, <5>2 DEF Restore, Step, storeVars
      <4> QED BY <2>3, <4>1, <4>2
    <3>2. CASE h = g
      BY <2>2, <3>2
    <3>3. CASE h \in {session.history, RecentHistory}
      <4>1. h \in Seq(Turns) /\ Ordered(h, transcript)
        BY <1>0, <3>3, RecentOrdered DEF HistoryInv, TranscriptInv
      <4>2. Past(h, pc)
        <5>1. CASE h = session.history
          BY <5>1 DEF HistoryInv
        <5>2. CASE h = RecentHistory
          <6> HIDE DEF h
          <6>1. \A i \in DOMAIN h : h[i] \in Turns /\ InTranscript(h[i])
            BY <5>2, RecentOrdered, ElementOfSeq, LenProperties DEF TranscriptInv
          <6>2. \A u \in Turns : InTranscript(u) => pc[u] \in Settled
            BY DEF TranscriptInv, FateInv
          <6> QED BY <6>1, <6>2 DEF Past
        <5> QED BY <3>3, <5>1, <5>2
      <4>3. \A i \in DOMAIN h : h[i] # t
        BY <3>1, <4>2 DEF Past, Settled
      <4>4. \A k \in DOMAIN transcript : transcript[k].turn # t
        BY <3>1 DEF TranscriptInv, FateInv, Settled, InTranscript
      <4> HIDE DEF h
      <4>5. Ordered(Append(h, t), transcript)
        BY <1>0, <4>1, <4>3, <4>4, OrderedAppend
      <4>6. Past(h, pc')
        BY <1>1, <4>1, <4>2
      <4> QED BY <3>1, <4>5, <4>6 DEF h
    <3> QED BY <3>1, <3>2, <3>3
  <2> QED BY <2>2, <2>3, HistoryMoves
<1>5. Past(session'.history, pc') /\ Ordered(session'.history, transcript')
  <2>1. CASE session'.history = session.history
    BY <1>0, <1>1, <1>2, <2>1 DEF HistoryInv, Past
  <2>2. CASE session'.history = <<>>
    BY <2>2 DEF Past, Ordered
  <2>3. ASSUME NEW t \in Turns, Save(t)
        PROVE  Past(session'.history, pc') /\ Ordered(session'.history, transcript')
    <3> DEFINE g == base[t].history
    <3>1. /\ g \in Seq(Turns) /\ Past(g, pc)
          /\ Ordered(Append(g, t), transcript) /\ Ordered(g, transcript)
      BY <1>0, OrderedFront DEF HistoryInv
    <3>2. /\ pc[t] = "done" /\ UNCHANGED transcript
          /\ session'.history \in {g, Append(g, t)}
      BY <2>3 DEF Save, Step, SessionAfter
    <3>3. Past(g, pc') /\ pc'[t] \in Settled
      <4>1. pc'[t] = "over"
        BY <2>3 DEF Save, Step, TypeOK
      <4> HIDE DEF g
      <4> QED BY <1>1, <3>1, <4>1 DEF Settled
    <3> HIDE DEF g
    <3>4. Past(Append(g, t), pc')
      BY <3>1, <3>3, LenProperties DEF Past
    <3> QED BY <3>1, <3>2, <3>3, <3>4 DEF Past
  <2> QED BY <2>1, <2>2, <2>3, HistoryMoves
<1> QED BY <1>4, <1>5 DEF HistoryInv

\* Whatever turns overlap, are lost or are rebuilt from Postgres, the history the
\* language model reads has no turn twice and follows the transcript
\* (SessionStore, _restore_session_from_postgres, run_conversation_turn).
THEOREM HistoryKeepsOrder == Spec => []HistoryInOrder
<1> DEFINE I == TypeOK /\ TranscriptInv /\ HistoryInv
<1>1. Init => I
  BY InitTypeOK, InitTranscript, InitHistory
<1>2. I /\ [Next]_vars => I'
  BY NextTypeOK, NextTranscript, NextHistory
<1>3. I => HistoryInOrder
  BY DEF HistoryInv, Ordered, HistoryInOrder
<1> QED BY <1>1, <1>2, <1>3, PTL DEF Spec
=============================================================================
