--------------------- MODULE ConversationRequestsProofs ---------------------
(***************************************************************************)
(* What holds of a user's conversations for any number of them, of         *)
(* requests, of operations in a PATCH and any limit: the limit of active   *)
(* conversations, and the life of one, are left only for the reasons the   *)
(* history variables name.                                                 *)
(***************************************************************************)
EXTENDS ConversationRequests, FiniteSetTheorems, SequenceTheorems, TLAPS

Working == {"patch", "delete", "chat"}

RequestRecord == [kind : Kinds, on : Conversations \cup {None},
                  view : Statuses \cup {"none"}, ops : Seq(Operations)]

\* What TypeOK says of one request while the conversations in existing exist.
RequestOK(q, existing) ==
    /\ q \in RequestRecord
    /\ q.kind \in Working => q.ops # <<>> /\ q.on \in existing
    /\ q.kind \notin Working => q.on = None

LEMMA TypeByRequest ==
    TypeOK <=> /\ status \in [Conversations -> Statuses \cup {"none"}]
               /\ request \in [Requests -> RequestRecord]
               /\ \A r \in Requests : RequestOK(request[r], Existing)
               /\ shared \subseteq Conversations /\ rewritten \subseteq Conversations
               /\ crowded \in BOOLEAN
<1>1. ASSUME request \in [Requests -> RequestRecord], NEW r \in Requests
      PROVE  /\ request[r] \in RequestRecord
             /\ request[r].kind \in Working \cup {"unsent", "over", "create"}
  BY <1>1 DEF RequestRecord, Kinds, Working
<1> QED BY <1>1 DEF TypeOK, RequestOK, RequestRecord, Working

LEMMA TailNotEmpty ==
    ASSUME NEW S, NEW s \in Seq(S), s # <<>>, Len(s) # 1
    PROVE  Tail(s) \in Seq(S) /\ Tail(s) # <<>>
<1>1. Tail(s) \in Seq(S) /\ Len(Tail(s)) = Len(s) - 1 /\ Len(s) \in Nat
  BY HeadTailProperties, LenProperties
<1>2. Len(Tail(s)) # 0
  BY <1>1
<1> QED BY <1>1, <1>2, EmptySeq

\* Requests of which nothing changed stay as they are while no conversation is removed.
LEMMA OneRequestChanges ==
    ASSUME TypeOK, NEW r \in Requests, NEW q, request' = [request EXCEPT ![r] = q],
           Existing \subseteq Existing', RequestOK(q, Existing'),
           status' \in [Conversations -> Statuses \cup {"none"}],
           shared' \subseteq Conversations, rewritten' \subseteq Conversations,
           crowded' \in BOOLEAN
    PROVE  TypeOK'
<1>1. q \in RequestRecord
  BY DEF RequestOK
<1>2. request' \in [Requests -> RequestRecord]
  BY <1>1, TypeByRequest
<1>3. ASSUME NEW p \in Requests PROVE RequestOK(request'[p], Existing')
  <2>1. request'[p] = IF p = r THEN q ELSE request[p]
    BY TypeByRequest
  <2> QED BY <2>1, TypeByRequest DEF RequestOK
<1>4. ASSUME NEW p \in Requests
      PROVE  /\ request'[p].kind \in Working => request'[p].ops # <<>> /\ request'[p].on \in Existing'
             /\ request'[p].kind \notin Working => request'[p].on = None
  BY <1>3 DEF RequestOK
<1> QED BY <1>2, <1>4 DEF TypeOK, RequestRecord, Working

\* The five kinds of step a request takes, as far as the type invariant tells them apart.
LEMMA NextType == TypeOK /\ [Next]_vars => TypeOK'
<1> SUFFICES ASSUME TypeOK, [Next]_vars PROVE TypeOK'
  OBVIOUS
<1>0. /\ status \in [Conversations -> Statuses \cup {"none"}]
      /\ request \in [Requests -> RequestRecord]
      /\ shared \subseteq Conversations /\ rewritten \subseteq Conversations /\ crowded \in BOOLEAN
      /\ \A r \in Requests : RequestOK(request[r], Existing)
  BY TypeByRequest
<1>a. <<>> \in Seq(Operations) /\ {"unsent", "over", "create"} \cap Working = {}
  BY DEF Working
<1>1. ASSUME NEW r \in Requests, Count(r) PROVE TypeOK'
  <2>1. PICK q \in {[Unsent EXCEPT !.kind = "create"], Over} :
          request' = [request EXCEPT ![r] = q]
    BY <1>1 DEF Count
  <2>2. RequestOK(q, Existing')
    BY <2>1, <1>a DEF RequestOK, RequestRecord, Kinds, Unsent, Over
  <2> QED BY <1>0, <1>1, <2>1, <2>2, OneRequestChanges DEF Count, Existing
<1>2. ASSUME NEW r \in Requests, Insert(r) PROVE TypeOK'
  <2>1. RequestOK(Over, Existing')
    BY <1>a DEF RequestOK, RequestRecord, Kinds, Unsent, Over
  <2>2. PICK c \in Conversations \ Existing : status' = [status EXCEPT ![c] = "ACTIVE"]
    BY <1>2 DEF Insert
  <2>3. status' \in [Conversations -> Statuses \cup {"none"}] /\ Existing \subseteq Existing'
    BY <1>0, <2>2 DEF Existing, Statuses
  <2> QED BY <1>0, <1>2, <2>1, <2>3, OneRequestChanges DEF Insert
<1>3. ASSUME NEW r \in Requests, NEW kind \in Working, NEW c \in Existing,
             NEW ops \in Seq(Operations) \ {<<>>}, Read(r, kind, c, ops),
             rewritten' \subseteq Conversations
      PROVE  TypeOK'
  <2> DEFINE q == [kind |-> kind, on |-> c, view |-> status[c], ops |-> ops]
  <2>1. c \in Conversations /\ Existing' = Existing
    BY <1>3 DEF Existing, Read
  <2>2. RequestOK(q, Existing')
    BY <1>0, <2>1 DEF RequestOK, RequestRecord, Working, Kinds
  <2>3. request' = [request EXCEPT ![r] = q]
    BY <1>3 DEF Read
  <2>4. shared' \subseteq Conversations /\ crowded' = crowded /\ status' = status
    BY <1>0, <1>3, <2>1 DEF Read
  <2> HIDE DEF q
  <2> QED BY <1>0, <1>3, <2>1, <2>2, <2>3, <2>4, OneRequestChanges
<1>4. ASSUME NEW r \in Requests, Operate(r) PROVE TypeOK'
  <2> DEFINE q == request[r]
             o == Head(q.ops)
             writes == o.op = "replace" /\ MayWrite(q, o.value)
  <2>1. /\ q \in RequestRecord /\ q.kind \in Working /\ q.ops # <<>> /\ q.on \in Existing
        /\ q.ops \in Seq(Operations)
    BY <1>0, <1>4 DEF Operate, RequestOK, Working, RequestRecord
  <2>2. o \in Operations /\ o.value \in Statuses
    <3>1. o \in Operations
      BY <2>1, HeadTailProperties
    <3> HIDE DEF o
    <3> QED BY <3>1 DEF Operations
  <2>3. status' = IF writes THEN [status EXCEPT ![q.on] = o.value] ELSE status
    BY <1>4 DEF Operate, Written
  <2>4. status' \in [Conversations -> Statuses \cup {"none"}] /\ Existing \subseteq Existing'
    BY <1>0, <2>1, <2>2, <2>3 DEF Existing, Statuses
  <2>5. \/ request' = [request EXCEPT ![r] = Advanced(q)]
        \/ request' = [request EXCEPT ![r] = Over]
    BY <1>4 DEF Operate
  <2>6. RequestOK(Over, Existing')
    BY <1>a DEF RequestOK, RequestRecord, Kinds, Unsent, Over
  <2>7. RequestOK(Advanced(q), Existing')
    <3>1. CASE Len(q.ops) = 1
      BY <2>6, <3>1 DEF Advanced
    <3>2. CASE Len(q.ops) # 1
      <4>1. Tail(q.ops) \in Seq(Operations) /\ Tail(q.ops) # <<>>
        BY <2>1, <3>2, TailNotEmpty
      <4>2. Advanced(q) = [q EXCEPT !.ops = Tail(@)]
        BY <3>2 DEF Advanced
      <4> QED BY <2>1, <2>4, <4>1, <4>2 DEF RequestOK, RequestRecord
    <3> QED BY <3>1, <3>2
  <2>8. shared' = shared /\ rewritten' = rewritten /\ crowded' \in BOOLEAN
    BY <1>4 DEF Operate
  <2> HIDE DEF q, o, writes
  <2> QED BY <1>0, <2>4, <2>5, <2>6, <2>7, <2>8, OneRequestChanges
<1>5. ASSUME NEW r \in Requests, Abort(r) \/ EndTurn(r) PROVE TypeOK'
  <2>1. RequestOK(Over, Existing')
    BY <1>a DEF RequestOK, RequestRecord, Kinds, Unsent, Over
  <2> QED BY <1>0, <1>5, <2>1, OneRequestChanges DEF Abort, EndTurn, Existing
<1>6. ASSUME NEW r \in Requests, Patch(r) PROVE TypeOK'
  <2>1. PICK c \in Existing, ops \in Patches :
          Read(r, "patch", c, ops) /\ rewritten' \in {rewritten, rewritten \cup {c}}
    BY <1>6 DEF Patch
  <2>2. ops \in Seq(Operations) \ {<<>>} /\ rewritten' \subseteq Conversations
    BY <1>0, <2>1, RequestsOK DEF Existing
  <2> QED BY <1>3, <2>1, <2>2 DEF Working
<1>7. ASSUME NEW r \in Requests, Delete(r) \/ Chat(r) PROVE TypeOK'
  <2>1. PICK c \in Existing, kind \in Working, value \in Statuses :
          Read(r, kind, c, <<[op |-> "replace", value |-> value]>>) /\ rewritten' = rewritten
    BY <1>7 DEF Delete, Chat, Working, Statuses, Active, Existing
  <2>2. <<[op |-> "replace", value |-> value]>> \in Seq(Operations) \ {<<>>}
    BY DEF Operations
  <2> QED BY <1>0, <1>3, <2>1, <2>2
<1>8. CASE UNCHANGED vars
  BY <1>8 DEF vars, TypeOK, Existing
<1> QED BY <1>1, <1>2, <1>4, <1>5, <1>6, <1>7, <1>8 DEF Next

\* However long a PATCH, a request at work has an operation left, on a conversation
\* that exists.
THEOREM RequestTypes == Spec => []TypeOK
<1>1. Init => TypeOK
  <2>1. Unsent \in RequestRecord /\ Unsent.kind = "unsent" /\ Unsent.on = None
    BY DEF Unsent, RequestRecord, Kinds
  <2> QED BY <2>1 DEF Init, TypeOK, RequestRecord
<1> QED BY <1>1, NextType, PTL DEF Spec
-----------------------------------------------------------------------------
(* The limit.  While nothing is crowded, the count a create rests on is    *)
(* still right when it inserts: no other create is under way, and nothing  *)
(* becomes active but by a create.                                         *)

LimitInv ==
    ~crowded => /\ \A p, q \in Creating : p = q
                /\ Cardinality(Active) <= MaxActive
                /\ Creating # {} => Cardinality(Active) < MaxActive

LEMMA FewerActive ==
    ASSUME Active' \subseteq Active
    PROVE  /\ Cardinality(Active) \in Nat /\ Cardinality(Active') \in Nat
           /\ Cardinality(Active') <= Cardinality(Active)
<1>1. IsFiniteSet(Active)
  BY RequestsOK, FS_Subset DEF Active
<1> QED BY <1>1, FS_Subset, FS_CardinalityType

\* A step that starts no create and makes nothing active keeps the limit.
LEMMA LimitKept ==
    ASSUME LimitInv, Creating' \subseteq Creating, Active' \subseteq Active, crowded' = crowded
    PROVE  LimitInv'
BY FewerActive, RequestsOK DEF LimitInv

LEMMA NextLimit == TypeOK /\ LimitInv /\ [Next]_vars => LimitInv'
<1> SUFFICES ASSUME TypeOK, LimitInv, [Next]_vars, ~crowded' PROVE LimitInv'
  BY DEF LimitInv
<1>0. /\ status \in [Conversations -> Statuses \cup {"none"}]
      /\ request \in [Requests -> RequestRecord]
      /\ \A r \in Requests : RequestOK(request[r], Existing)
  BY TypeByRequest
<1>1. ASSUME NEW r \in Requests, Count(r) PROVE LimitInv'
  <2>1. Creating = {} /\ ~crowded /\ Active' = Active
    BY <1>1 DEF Count, Active
  <2>2. \A p \in Requests : p # r => request'[p] = request[p]
    BY <1>0, <1>1 DEF Count
  <2>3. Creating' \subseteq {r}
    BY <2>1, <2>2 DEF Creating
  <2>4. Cardinality(Active) <= MaxActive /\ Cardinality(Active) \in Nat
    BY <2>1, FewerActive DEF LimitInv
  <2>5. r \in Creating' => Cardinality(Active) < MaxActive
    BY <1>0, <1>1 DEF Count, Creating, Over, Unsent
  <2> QED BY <2>1, <2>3, <2>4, <2>5 DEF LimitInv
<1>2. ASSUME NEW r \in Requests, Insert(r) PROVE LimitInv'
  <2>1. r \in Creating /\ ~crowded
    BY <1>2 DEF Insert, Creating
  <2>2. Creating' = {}
    <3>1. Creating = {r}
      BY <2>1 DEF LimitInv
    <3>2. \A p \in Requests : request'[p] = IF p = r THEN Over ELSE request[p]
      BY <1>0, <1>2 DEF Insert
    <3> QED BY <3>1, <3>2 DEF Creating, Over, Unsent
  <2>3. PICK c \in Conversations \ Existing : status' = [status EXCEPT ![c] = "ACTIVE"]
    BY <1>2 DEF Insert
  <2>4. c \notin Active /\ Active' = Active \cup {c}
    BY <1>0, <2>3 DEF Active, Existing
  <2>5. IsFiniteSet(Active)
    BY RequestsOK, FS_Subset DEF Active
  <2>6. Cardinality(Active') = Cardinality(Active) + 1 /\ Cardinality(Active) \in Nat
    BY <2>4, <2>5, FS_AddElement, FS_CardinalityType
  <2>7. Cardinality(Active) < MaxActive
    BY <2>1 DEF LimitInv
  <2> QED BY <2>2, <2>6, <2>7, RequestsOK DEF LimitInv
<1>3. ASSUME NEW r \in Requests, Patch(r) \/ Delete(r) \/ Chat(r) PROVE LimitInv'
  <2>1. PICK c, kind, ops : c \in Existing /\ kind \in Working /\ Read(r, kind, c, ops)
    BY <1>3 DEF Patch, Delete, Chat, Working, Active, Existing
  <2>2. \A p \in Requests : p # r => request'[p] = request[p]
    BY <1>0, <2>1 DEF Read
  <2>3. request'[r].kind # "create"
    BY <1>0, <2>1 DEF Read, Working
  <2> QED BY <2>1, <2>2, <2>3, LimitKept DEF Creating, Active, Read
<1>4. ASSUME NEW r \in Requests, Operate(r) PROVE LimitInv'
  <2> DEFINE q == request[r]
             o == Head(q.ops)
             writes == o.op = "replace" /\ MayWrite(q, o.value)
  <2>1. /\ status' = IF writes THEN [status EXCEPT ![q.on] = o.value] ELSE status
        /\ crowded' = (crowded \/ (writes /\ o.value = "ACTIVE"))
        /\ q \in RequestRecord /\ q.kind \in Working
    BY <1>0, <1>4 DEF Operate, Written, Working
  <2>2. Active' \subseteq Active /\ crowded' = crowded
    <3>1. writes => o.value # "ACTIVE"
      BY <2>1
    <3>2. crowded' = crowded
      BY <2>1, <3>1 DEF TypeOK
    <3> HIDE DEF writes, q, o
    <3>3. Active' \subseteq Active
      BY <1>0, <2>1, <3>1 DEF Active
    <3> QED BY <3>2, <3>3
  <2>3. \A p \in Requests : request'[p] = IF p = r THEN request'[r] ELSE request[p]
    BY <1>0, <1>4 DEF Operate
  <2>4. request'[r] \in {Advanced(q), Over}
    BY <1>0, <1>4 DEF Operate
  <2>5. request'[r].kind # "create"
    BY <2>1, <2>4 DEF Advanced, Over, Unsent, RequestRecord, Working
  <2>6. Creating' \subseteq Creating
    BY <2>3, <2>5 DEF Creating
  <2> QED BY <2>2, <2>6, LimitKept
<1>5. ASSUME NEW r \in Requests, Abort(r) \/ EndTurn(r) PROVE LimitInv'
  <2>1. Creating' \subseteq Creating /\ Active' = Active /\ crowded' = crowded
    BY <1>0, <1>5 DEF Abort, EndTurn, Creating, Over, Unsent, Active
  <2> QED BY <2>1, LimitKept
<1>6. CASE UNCHANGED vars
  BY <1>6, LimitKept DEF vars, Creating, Active
<1> QED BY <1>1, <1>2, <1>3, <1>4, <1>5, <1>6 DEF Next

\* For any limit and any number of requests: more active conversations than the limit
\* come from creates that overlap or from reopening, and from nothing else.
THEOREM LimitHolds == Spec => []LimitExplained
<1>1. Init => LimitInv
  <2> SUFFICES ASSUME Init PROVE LimitInv
    OBVIOUS
  <2>1. Active = {} /\ Creating = {}
    BY DEF Init, Active, Creating, Unsent
  <2> QED BY <2>1, FS_EmptySet, RequestsOK DEF LimitInv
<1>2. LimitInv => LimitExplained
  BY DEF LimitInv, LimitExplained
<1> QED BY <1>1, <1>2, NextLimit, RequestTypes, PTL DEF Spec
-----------------------------------------------------------------------------
(* One conversation's life.  A request that is alone on its conversation,  *)
(* with one replacement at most, still sees the status it has read until   *)
(* it replaces it.                                                         *)

ReplaceWith(s) == [op |-> "replace", value |-> s]

FreshView(q, s) ==
    /\ \A i, j \in Replacements(q.ops) : i = j
    /\ Replacements(q.ops) # {} => q.view = s
    /\ q.kind = "chat" => q.ops = <<ReplaceWith("CEILING_HIT")>> /\ q.view = "ACTIVE"
    /\ q.kind = "delete" => q.ops = <<ReplaceWith("ARCHIVED")>>

Solo(c) ==
    /\ \A p, q \in WorkingOn(c) : p = q
    /\ \A r \in WorkingOn(c) : FreshView(request[r], status[c])

SoloInv == \A c \in Existing \ (shared \cup rewritten) : Solo(c)

\* A replacement that is done was the only one.
LEMMA TailReplacements ==
    ASSUME NEW ops \in Seq(Operations), ops # <<>>,
           \A i, j \in Replacements(ops) : i = j
    PROVE  /\ \A i, j \in Replacements(Tail(ops)) : i = j
           /\ Replacements(Tail(ops)) # {} => Replacements(ops) # {} /\ Head(ops).op # "replace"
<1>1. /\ Len(ops) \in Nat \ {0} /\ DOMAIN ops = 1..Len(ops)
      /\ Tail(ops) \in Seq(Operations) /\ Len(Tail(ops)) = Len(ops) - 1
      /\ \A i \in 1..Len(Tail(ops)) : Tail(ops)[i] = ops[i + 1]
  BY HeadTailProperties, LenProperties, EmptySeq
<1>2. DOMAIN Tail(ops) = 1..(Len(ops) - 1)
  BY <1>1, LenProperties
<1>3. \A i \in Replacements(Tail(ops)) : i \in Nat \ {0} /\ i + 1 \in Replacements(ops)
  BY <1>1, <1>2 DEF Replacements
<1>4. Head(ops).op = "replace" => 1 \in Replacements(ops)
  BY <1>1 DEF Replacements
<1> QED BY <1>3, <1>4

\* Only the request that takes a step, or the status, can disturb a conversation.
LEMMA OthersStaySolo ==
    ASSUME NEW c, Solo(c), NEW r \in Requests,
           \A p \in Requests : p # r => request'[p] = request[p],
           status'[c] = status[c], request'[r].on # c
    PROVE  Solo(c)'
<1>1. WorkingOn(c)' \subseteq WorkingOn(c) /\ r \notin WorkingOn(c)'
  BY DEF WorkingOn
<1>2. \A p \in WorkingOn(c)' : request'[p] = request[p]
  BY <1>1 DEF WorkingOn
<1> QED BY <1>1, <1>2 DEF Solo

LEMMA ReadStaysSolo ==
    ASSUME TypeOK, SoloInv, NEW r \in Requests, NEW kind \in Working, NEW c \in Existing,
           NEW ops, Read(r, kind, c, ops), rewritten \subseteq rewritten',
           c \notin rewritten' => FreshView([kind |-> kind, on |-> c, view |-> status[c],
                                             ops |-> ops], status[c])
    PROVE  SoloInv'
<1> SUFFICES ASSUME NEW d \in Existing' \ (shared' \cup rewritten') PROVE Solo(d)'
  BY DEF SoloInv
<1>1. /\ status' = status /\ Existing' = Existing
      /\ shared' = IF WorkingOn(c) = {} THEN shared ELSE shared \cup {c}
  BY DEF Read, Existing
<1>2. /\ request'[r] = [kind |-> kind, on |-> c, view |-> status[c], ops |-> ops]
      /\ \A p \in Requests : p # r => request'[p] = request[p]
  BY DEF Read, TypeOK
<1>3. Solo(d)
  BY <1>1 DEF SoloInv
<1>4. CASE d # c
  BY <1>1, <1>2, <1>3, <1>4, OthersStaySolo
<1>5. CASE d = c
  <2>1. WorkingOn(c) = {}
    BY <1>1, <1>5
  <2>2. WorkingOn(c)' = {r}
    BY <1>2, <2>1 DEF WorkingOn
  <2>3. FreshView(request'[r], status'[c])
    BY <1>1, <1>2, <1>5
  <2> QED BY <1>5, <2>2, <2>3 DEF Solo
<1> QED BY <1>4, <1>5

LEMMA SingleReplacement ==
    ASSUME NEW s PROVE \A i, j \in Replacements(<<ReplaceWith(s)>>) : i = j
BY DEF Replacements

LEMMA OperateStaysSolo ==
    ASSUME TypeOK, SoloInv, NEW r \in Requests, Operate(r) PROVE SoloInv'
<1> DEFINE q == request[r]
           o == Head(q.ops)
           writes == o.op = "replace" /\ MayWrite(q, o.value)
<1>1. /\ q \in RequestRecord /\ q.kind \in Working /\ q.ops # <<>> /\ q.on \in Existing
      /\ q.ops \in Seq(Operations)
  BY TypeByRequest DEF Operate, RequestOK, Working, RequestRecord
<1>2. /\ status' = IF writes THEN [status EXCEPT ![q.on] = o.value] ELSE status
      /\ UNCHANGED <<shared, rewritten>>
  BY DEF Operate, Written
<1>3. \A p \in Requests : p # r => request'[p] = request[p]
  BY DEF Operate, TypeOK
<1>4. \/ request'[r] = Over
      \/ request'[r] = Advanced(q) /\ (o.op = "replace" => writes)
  BY DEF Operate, TypeOK
<1>5. o \in Operations /\ o.value \in Statuses /\ o.value # "none"
  <2>1. o \in Operations
    BY <1>1, HeadTailProperties
  <2> HIDE DEF o
  <2> QED BY <2>1 DEF Operations, Statuses
<1>6. Existing' = Existing
  BY <1>1, <1>2, <1>5 DEF Existing, TypeOK
<1>7. request'[r] = Over \/ request'[r] = [q EXCEPT !.ops = Tail(@)]
  BY <1>4 DEF Advanced
<1> SUFFICES ASSUME NEW c \in Existing \ (shared \cup rewritten) PROVE Solo(c)'
  BY <1>2, <1>6 DEF SoloInv
<1>8. Solo(c)
  BY DEF SoloInv
<1>9. CASE request'[r] = Over
  <2>1. request'[r].on # c
    BY <1>9, RequestsOK DEF Over, Unsent, Existing
  <2>2. CASE c # q.on
    <3>1. status'[c] = status[c]
      BY <1>2, <2>2
    <3> QED BY <1>3, <1>8, <2>1, <3>1, OthersStaySolo
  <2>3. CASE c = q.on
    <3>1. WorkingOn(c) = {r}
      BY <1>8, <2>3 DEF Solo, WorkingOn
    <3>2. WorkingOn(c)' = {}
      BY <1>3, <2>1, <3>1 DEF WorkingOn
    <3> QED BY <3>2 DEF Solo
  <2> QED BY <2>2, <2>3
<1>10. CASE request'[r] = Advanced(q) /\ (o.op = "replace" => writes) /\ request'[r] # Over
  <2>1. /\ request'[r] = [q EXCEPT !.ops = Tail(@)] /\ Len(q.ops) # 1
    BY <1>10 DEF Advanced
  <2>2. request'[r].on = q.on /\ request'[r].ops = Tail(q.ops) /\ request'[r].kind = q.kind
        /\ request'[r].view = q.view
    BY <1>1, <2>1 DEF RequestRecord
  <2>3. CASE c # q.on
    <3>1. status'[c] = status[c]
      BY <1>2, <2>3
    <3> QED BY <1>3, <1>8, <2>2, <2>3, <3>1, OthersStaySolo
  <2>4. CASE c = q.on
    <3>1. WorkingOn(c) = {r} /\ FreshView(q, status[c])
      BY <1>8, <2>4 DEF Solo, WorkingOn
    <3>2. WorkingOn(c)' = {r}
      BY <1>3, <2>2, <2>4, <3>1 DEF WorkingOn
    <3>3. /\ \A i, j \in Replacements(Tail(q.ops)) : i = j
          /\ Replacements(Tail(q.ops)) # {} => Replacements(q.ops) # {} /\ o.op # "replace"
      BY <1>1, <3>1, TailReplacements DEF FreshView
    <3>4. Replacements(Tail(q.ops)) # {} => q.view = status'[c]
      BY <1>2, <3>1, <3>3 DEF FreshView
    <3>5. q.kind \notin {"chat", "delete"}
      <4>1. \A s : Len(<<ReplaceWith(s)>>) = 1
        OBVIOUS
      <4> HIDE DEF q
      <4> QED BY <2>1, <3>1, <4>1 DEF FreshView
    <3>6. FreshView(request'[r], status'[c])
      BY <2>2, <3>3, <3>4, <3>5 DEF FreshView
    <3> QED BY <3>2, <3>6 DEF Solo
  <2> QED BY <2>3, <2>4
<1> QED BY <1>4, <1>9, <1>10

LEMMA NextSolo == TypeOK /\ SoloInv /\ [Next]_vars => SoloInv'
<1> SUFFICES ASSUME TypeOK, SoloInv, [Next]_vars PROVE SoloInv'
  OBVIOUS
<1>0. /\ status \in [Conversations -> Statuses \cup {"none"}]
      /\ request \in [Requests -> RequestRecord]
      /\ \A r \in Requests : RequestOK(request[r], Existing)
  BY TypeByRequest
<1>1. ASSUME NEW r \in Requests, Count(r) \/ Abort(r) \/ EndTurn(r) PROVE SoloInv'
  <2>1. /\ \A p \in Requests : p # r => request'[p] = request[p]
        /\ request'[r].on = None
    BY <1>0, <1>1 DEF Count, Abort, EndTurn, Over, Unsent
  <2>2. status' = status /\ Existing' = Existing /\ UNCHANGED <<shared, rewritten>>
    BY <1>1 DEF Count, Abort, EndTurn, Existing
  <2>3. ASSUME NEW c \in Existing \ (shared \cup rewritten) PROVE Solo(c)'
    <3>1. Solo(c) /\ c # None
      BY RequestsOK DEF SoloInv, Existing
    <3> QED BY <2>1, <2>2, <3>1, OthersStaySolo
  <2> QED BY <2>2, <2>3 DEF SoloInv
<1>2. ASSUME NEW r \in Requests, Insert(r) PROVE SoloInv'
  <2>1. PICK c \in Conversations \ Existing : status' = [status EXCEPT ![c] = "ACTIVE"]
    BY <1>2 DEF Insert
  <2>2. \A p \in Requests : request'[p] = IF p = r THEN Over ELSE request[p]
    BY <1>0, <1>2 DEF Insert
  <2>3. UNCHANGED <<shared, rewritten>> /\ Existing' = Existing \cup {c}
    BY <1>0, <1>2, <2>1 DEF Insert, Existing
  <2>4. Over.on = None
    BY DEF Over, Unsent
  <2>5. ASSUME NEW d \in Existing \ (shared \cup rewritten) PROVE Solo(d)'
    <3>1. Solo(d) /\ d # None /\ status'[d] = status[d]
      BY <1>0, <2>1, RequestsOK DEF SoloInv, Existing
    <3> QED BY <2>2, <2>4, <3>1, OthersStaySolo
  <2>6. Solo(c)'
    <3>1. c # None /\ \A p \in Requests : request[p].on # c
      BY <1>0, RequestsOK DEF RequestOK, Existing
    <3>2. WorkingOn(c)' = {}
      BY <2>2, <2>4, <3>1 DEF WorkingOn
    <3> QED BY <3>2 DEF Solo
  <2> QED BY <2>3, <2>5, <2>6 DEF SoloInv
<1>3. ASSUME NEW r \in Requests, Patch(r) PROVE SoloInv'
  <2>1. PICK c \in Existing, ops \in Patches :
          /\ Read(r, "patch", c, ops)
          /\ rewritten' = IF Cardinality(Replacements(ops)) > 1
                          THEN rewritten \cup {c} ELSE rewritten
    BY <1>3 DEF Patch
  <2>2. IsFiniteSet(Replacements(ops))
    <3>1. ops \in Seq(Operations)
      BY RequestsOK
    <3>2. Replacements(ops) \subseteq 1..Len(ops) /\ Len(ops) \in Nat
      BY <3>1 DEF Replacements
    <3>3. 1 \in Int /\ Len(ops) \in Int
      BY <3>2
    <3>4. IsFiniteSet(1..Len(ops))
      BY <3>3, FS_Interval
    <3> HIDE DEF Replacements
    <3> QED BY <3>2, <3>4, FS_Subset
  <2>3. c \notin rewritten' => \A i, j \in Replacements(ops) : i = j
    <3> SUFFICES ASSUME c \notin rewritten', NEW i \in Replacements(ops),
                        NEW j \in Replacements(ops), i # j
                 PROVE  FALSE
      OBVIOUS
    <3>1. Cardinality({i, j}) = 2
      <4>1. IsFiniteSet({i}) /\ Cardinality({i}) = 1
        BY FS_Singleton
      <4>2. Cardinality({i} \cup {j}) = Cardinality({i}) + 1
        BY <4>1, FS_AddElement
      <4>3. {i, j} = {i} \cup {j}
        OBVIOUS
      <4> QED BY <4>1, <4>2, <4>3
    <3>2. Cardinality({i, j}) <= Cardinality(Replacements(ops))
      BY <2>2, FS_Subset
    <3>3. Cardinality(Replacements(ops)) \in Nat
      BY <2>2, FS_CardinalityType
    <3> QED BY <2>1, <3>1, <3>2, <3>3
  <2>4. c \notin rewritten' =>
           FreshView([kind |-> "patch", on |-> c, view |-> status[c], ops |-> ops], status[c])
    BY <2>3 DEF FreshView
  <2>5. rewritten \subseteq rewritten' /\ "patch" \in Working
    BY <2>1 DEF Working
  <2> QED BY <2>1, <2>4, <2>5, ReadStaysSolo
<1>4. ASSUME NEW r \in Requests, Delete(r) PROVE SoloInv'
  <2> DEFINE ops == <<ReplaceWith("ARCHIVED")>>
  <2>1. PICK c \in Existing : Read(r, "delete", c, ops)
    BY <1>4 DEF Delete, ReplaceWith
  <2>2. FreshView([kind |-> "delete", on |-> c, view |-> status[c], ops |-> ops], status[c])
    BY SingleReplacement DEF FreshView
  <2>3. rewritten' = rewritten /\ "delete" \in Working
    BY <1>4 DEF Delete, Working
  <2> HIDE DEF ops
  <2> QED BY <2>1, <2>2, <2>3, ReadStaysSolo
<1>5. ASSUME NEW r \in Requests, Chat(r) PROVE SoloInv'
  <2> DEFINE ops == <<ReplaceWith("CEILING_HIT")>>
  <2>1. PICK c \in Active : Read(r, "chat", c, ops)
    BY <1>5 DEF Chat, ReplaceWith
  <2>2. c \in Existing /\ status[c] = "ACTIVE"
    BY DEF Active, Existing
  <2>3. FreshView([kind |-> "chat", on |-> c, view |-> status[c], ops |-> ops], status[c])
    BY <2>2, SingleReplacement DEF FreshView
  <2>4. rewritten' = rewritten /\ "chat" \in Working
    BY <1>5 DEF Chat, Working
  <2> HIDE DEF ops
  <2> QED BY <2>1, <2>2, <2>3, <2>4, ReadStaysSolo
<1>6. CASE UNCHANGED vars
  BY <1>6 DEF vars, SoloInv, Solo, Existing, WorkingOn
<1> QED BY <1>1, <1>2, <1>3, <1>4, <1>5, <1>6, OperateStaysSolo DEF Next

\* What a request alone on its conversation writes is a move of the conversation's life.
LEMMA SoloStep ==
    ASSUME TypeOK, SoloInv, [Next]_vars, NEW c \in Existing \ (shared' \cup rewritten')
    PROVE  status'[c] = status[c] \/ <<status[c], status'[c]>> \in Lifecycle
<1>1. CASE status' = status
  BY <1>1
<1>2. ASSUME NEW r \in Requests, Insert(r) PROVE status'[c] = status[c]
  BY <1>2 DEF Insert, TypeOK, Existing
<1>3. ASSUME NEW r \in Requests, Operate(r), status'[c] # status[c]
      PROVE  <<status[c], status'[c]>> \in Lifecycle
  <2> DEFINE q == request[r]
             o == Head(q.ops)
  <2>1. /\ o.op = "replace" /\ MayWrite(q, o.value) /\ q.on = c
        /\ status' = [status EXCEPT ![q.on] = o.value] /\ UNCHANGED <<shared, rewritten>>
    BY <1>3 DEF Operate, Written, TypeOK, Existing
  <2>2. q.kind \in Working /\ q.ops # <<>> /\ q.ops \in Seq(Operations)
    BY <1>3, TypeByRequest DEF Operate, RequestOK, Working, RequestRecord
  <2>3. status'[c] = o.value
    BY <2>1 DEF TypeOK, Existing
  <2>4. FreshView(q, status[c])
    BY <2>1 DEF SoloInv, Solo, WorkingOn
  <2>5. q.view = status[c]
    <3>1. 1 \in Replacements(q.ops)
      <4>1. 1 \in DOMAIN q.ops /\ q.ops[1] = o
        BY <2>2, HeadTailProperties, LenProperties, EmptySeq
      <4> QED BY <2>1, <4>1 DEF Replacements
    <3> QED BY <2>4, <3>1 DEF FreshView
  <2>6. CASE q.kind = "patch"
    <3> HIDE DEF q, o
    <3> QED BY <2>1, <2>3, <2>5, <2>6 DEF MayWrite, ValidFrom, Lifecycle
  <2>7. CASE q.kind = "delete"
    <3>1. o.value = "ARCHIVED"
      BY <2>4, <2>7 DEF FreshView, ReplaceWith
    <3>2. q.view = "CLOSED"
      BY <2>1, <2>7 DEF MayWrite
    <3> QED BY <2>3, <2>5, <3>1, <3>2 DEF Lifecycle
  <2>8. CASE q.kind = "chat"
    <3>1. o.value = "CEILING_HIT" /\ q.view = "ACTIVE"
      BY <2>4, <2>8 DEF FreshView, ReplaceWith
    <3> QED BY <2>3, <2>5, <3>1 DEF Lifecycle
  <2> QED BY <2>2, <2>6, <2>7, <2>8 DEF Working
<1>4. ASSUME NEW r \in Requests,
             Count(r) \/ Patch(r) \/ Delete(r) \/ Chat(r) \/ Abort(r) \/ EndTurn(r)
      PROVE  status' = status
  BY <1>4 DEF Count, Patch, Delete, Chat, Abort, EndTurn, Read
<1> QED BY <1>1, <1>2, <1>3, <1>4 DEF Next, vars

\* For any number of requests and any operations: a conversation that no two requests
\* worked on at once, and of which no PATCH replaced the status twice, leads the life of
\* _VALID_TRANSITIONS, DELETE and the ceiling, although each is tested against an old read.
THEOREM SoloLives == Spec => SoloLifecycle
<1>1. Init => TypeOK /\ SoloInv
  <2>1. Unsent \in RequestRecord /\ Unsent.kind = "unsent" /\ Unsent.on = None
    BY DEF Unsent, RequestRecord, Kinds
  <2>2. Init => TypeOK
    BY <2>1 DEF Init, TypeOK, RequestRecord
  <2>3. Init => Existing = {}
    BY DEF Init, Existing
  <2> QED BY <2>2, <2>3 DEF SoloInv
<1>2. TypeOK /\ SoloInv /\ [Next]_vars => (TypeOK /\ SoloInv)'
  BY NextType, NextSolo
<1>3. TypeOK /\ SoloInv /\ [Next]_vars =>
        \A c \in Existing \ (shared' \cup rewritten') :
           status'[c] = status[c] \/ <<status[c], status'[c]>> \in Lifecycle
  BY SoloStep
<1> QED BY <1>1, <1>2, <1>3, PTL DEF Spec, SoloLifecycle
=============================================================================
