----------------------- MODULE ConversationQueueProofs -----------------------
(***************************************************************************)
(* What holds of the queue workers for any number of workers, messages,    *)
(* losses and redeliveries, and whatever the conversation graph results    *)
(* in.                                                                     *)
(***************************************************************************)
EXTENDS ConversationQueue, CommonProofs

Items(s) == {s[i] : i \in 1..Len(s)}
Distinct(s) == \A i, j \in 1..Len(s) : s[i] = s[j] => i = j

\* A turn's record keeps its fields, whatever values the graph gives them.
Shaped(r) ==
    r = [msg |-> r.msg, paged |-> r.paged, compact |-> r.compact, history |-> r.history,
         calls |-> r.calls, raised |-> r.raised]

Busy == Places \ {"idle", "dead"}

\* What holds of one worker: over its connection it owns what waits in its inbox and
\* what it works on, each once, and it acknowledges only what ended in a save.
WorkerOK(box, own, conn, place, r, done) ==
    /\ box \in Seq(Messages \cup {Lost}) /\ own \subseteq Messages
    /\ conn \in {"off", "up", "down"} /\ place \in Places
    /\ Shaped(r) /\ r.msg \in Messages \cup {Lost}
    /\ ~r.raised
    /\ Distinct(box)
    /\ conn = "up" => Items(box) \subseteq own
    /\ conn # "up" => own = {}
    /\ conn = "off" => box = <<>>
    /\ place \in Busy => r.msg \in Messages \ Items(box) /\ (conn = "up" => r.msg \in own)
    /\ place = "acking" => \E end \in Ends : <<end, r.msg>> \in done

Workerwise(f) == f = [w \in Workers |-> f[w]]

WorkersInv ==
    /\ Workerwise(inbox) /\ Workerwise(held) /\ Workerwise(link)
    /\ Workerwise(worker) /\ Workerwise(turn)
    /\ \A w \in Workers :
          WorkerOK(inbox[w], held[w], link[w], worker[w], turn[w], ended)

\* A message that is not settled is queued, or with one worker, or in nobody's hands.
OwnersInv ==
    /\ \A m \in queue : settled[m] = "no" /\ \A w \in Workers : m \notin held[w]
    /\ \A w \in Workers : \A m \in held[w] :
          settled[m] = "no" /\ \A v \in Workers \ {w} : m \notin held[v]

BrokerTypes ==
    /\ body \in Bodies
    /\ queue \subseteq Messages
    /\ settled \in [Messages -> {"no", "acked", "dead"}]
    /\ ended \subseteq Ends \X Messages
    /\ runs \in [Messages -> Nat]
    /\ losses \in [Messages -> Nat]

IInv == BrokerTypes /\ WorkersInv /\ OwnersInv

LEMMA InvTypes == IInv => TypeOK
BY DEF IInv, BrokerTypes, WorkersInv, WorkerOK, Workerwise, TypeOK
-----------------------------------------------------------------------------
(* Inboxes, and the variables that have a value per worker.                *)

LEMMA AppendItems ==
    ASSUME NEW S, NEW s \in Seq(S), NEW x \in S, x \notin Items(s), Distinct(s)
    PROVE  /\ Append(s, x) \in Seq(S) /\ Distinct(Append(s, x))
           /\ Items(Append(s, x)) = Items(s) \cup {x}
<1> DEFINE t == Append(s, x)
<1>1. /\ t \in Seq(S) /\ Len(s) \in Nat /\ Len(t) = Len(s) + 1
      /\ \A i \in 1..Len(s) : t[i] = s[i]
      /\ t[Len(s) + 1] = x
  BY AppendProperties, LenProperties
<1>2. \A i \in 1..Len(t) : i \in 1..Len(s) \/ i = Len(s) + 1
  BY <1>1
<1>3. \A i \in 1..Len(s) : i \in 1..Len(t) /\ s[i] # x
  BY <1>1 DEF Items
<1>4. Len(s) + 1 \in 1..Len(t)
  BY <1>1
<1> HIDE DEF t
<1>5. Distinct(t)
  BY <1>1, <1>2, <1>3 DEF Distinct
<1>6. Items(t) = Items(s) \cup {x}
  BY <1>1, <1>2, <1>3, <1>4 DEF Items
<1> QED BY <1>1, <1>5, <1>6 DEF t

LEMMA TailItems ==
    ASSUME NEW S, NEW s \in Seq(S), s # <<>>, Distinct(s)
    PROVE  /\ Tail(s) \in Seq(S) /\ Distinct(Tail(s)) /\ Head(s) \in Items(s) /\ Head(s) \in S
           /\ Items(Tail(s)) = Items(s) \ {Head(s)}
<1> DEFINE t == Tail(s)
<1>1. /\ t \in Seq(S) /\ Len(s) \in Nat \ {0} /\ Len(t) = Len(s) - 1
      /\ \A i \in 1..Len(t) : t[i] = s[i + 1]
      /\ Head(s) = s[1] /\ Head(s) \in S
  BY HeadTailProperties, LenProperties, EmptySeq
<1>2. \A i \in 1..Len(t) : i \in Nat \ {0} /\ i + 1 \in 1..Len(s) /\ i + 1 # 1
  BY <1>1
<1>3. \A i \in 1..Len(s) : i # 1 => i - 1 \in 1..Len(t) /\ i = (i - 1) + 1
  BY <1>1
<1>4. 1 \in 1..Len(s)
  BY <1>1
<1> HIDE DEF t
<1>5. Distinct(t)
  <2> SUFFICES ASSUME NEW i \in 1..Len(t), NEW j \in 1..Len(t), t[i] = t[j] PROVE i = j
    BY DEF Distinct
  <2>1. i + 1 = j + 1
    BY <1>1, <1>2 DEF Distinct
  <2> QED BY <1>2, <2>1
<1>6. ASSUME NEW x \in Items(t) PROVE x \in Items(s) /\ x # Head(s)
  <2>1. PICK i \in 1..Len(t) : x = t[i]
    BY <1>6 DEF Items
  <2>2. x = s[i + 1] /\ i + 1 \in 1..Len(s) /\ i + 1 # 1
    BY <1>1, <1>2, <2>1
  <2> QED BY <1>1, <1>4, <2>2 DEF Distinct, Items
<1>7. ASSUME NEW x \in Items(s), x # Head(s) PROVE x \in Items(t)
  <2>1. PICK i \in 1..Len(s) : x = s[i]
    BY <1>7 DEF Items
  <2>2. i # 1
    BY <1>1, <1>7, <2>1
  <2>3. t[i - 1] = x
    BY <1>1, <1>3, <2>1, <2>2
  <2> QED BY <1>3, <2>2, <2>3 DEF Items
<1>8. Head(s) \in Items(s)
  BY <1>1, <1>4 DEF Items
<1> QED BY <1>1, <1>5, <1>6, <1>7, <1>8 DEF t

\* Only worker w moves, to a place that is all right.
LEMMA WorkerMoves ==
    ASSUME WorkersInv, NEW w \in Workers, NEW box, NEW own, NEW conn, NEW place, NEW r,
           inbox' = [inbox EXCEPT ![w] = box], held' = [held EXCEPT ![w] = own],
           link' = [link EXCEPT ![w] = conn], worker' = [worker EXCEPT ![w] = place],
           turn' = [turn EXCEPT ![w] = r],
           WorkerOK(box, own, conn, place, r, ended'), ended \subseteq ended'
    PROVE  /\ WorkersInv'
           /\ held'[w] = own /\ \A v \in Workers \ {w} : held'[v] = held[v]
           /\ inbox'[w] = box /\ \A v \in Workers \ {w} : inbox'[v] = inbox[v]
<1>0. Workerwise(inbox) /\ Workerwise(held) /\ Workerwise(link) /\ Workerwise(worker) /\ Workerwise(turn)
  BY DEF WorkersInv
<1>a. Workerwise(inbox') /\ inbox'[w] = box /\ \A v \in Workers \ {w} : inbox'[v] = inbox[v]
  BY <1>0 DEF Workerwise
<1>b. Workerwise(held') /\ held'[w] = own /\ \A v \in Workers \ {w} : held'[v] = held[v]
  BY <1>0 DEF Workerwise
<1>c. Workerwise(link') /\ link'[w] = conn /\ \A v \in Workers \ {w} : link'[v] = link[v]
  BY <1>0 DEF Workerwise
<1>d. Workerwise(worker') /\ worker'[w] = place /\ \A v \in Workers \ {w} : worker'[v] = worker[v]
  BY <1>0 DEF Workerwise
<1>e. Workerwise(turn') /\ turn'[w] = r /\ \A v \in Workers \ {w} : turn'[v] = turn[v]
  BY <1>0 DEF Workerwise
<1>3. ASSUME NEW v \in Workers
      PROVE  WorkerOK(inbox'[v], held'[v], link'[v], worker'[v], turn'[v], ended')
  <2>1. WorkerOK(inbox[v], held[v], link[v], worker[v], turn[v], ended)
    BY DEF WorkersInv
  <2>2. v # w => WorkerOK(inbox[v], held[v], link[v], worker[v], turn[v], ended')
    BY <2>1 DEF WorkerOK
  <2> QED BY <1>a, <1>b, <1>c, <1>d, <1>e, <2>2
<1> QED BY <1>a, <1>b, <1>c, <1>d, <1>e, <1>3 DEF WorkersInv

LEMMA Unmoved == ASSUME NEW f, Workerwise(f), NEW w \in Workers PROVE f = [f EXCEPT ![w] = f[w]]
BY DEF Workerwise
-----------------------------------------------------------------------------
(* Steps of the loop.                                                      *)

\* Nobody owns more than before, and the broker has done nothing.
LEMMA BrokerIdle ==
    ASSUME IInv, WorkersInv', UNCHANGED broker, ended' \subseteq Ends \X Messages,
           runs' \in [Messages -> Nat]
    PROVE  IInv'
<1>1. BrokerTypes'
  BY DEF IInv, BrokerTypes, broker
<1>2. OwnersInv'
  BY DEF IInv, OwnersInv, broker
<1> QED BY <1>1, <1>2 DEF IInv

\* The turn at work goes on to its next place, or is over with nothing said of it.
LEMMA TurnGoesOn ==
    ASSUME IInv, NEW w \in Workers, worker[w] \in Busy, NEW place \in Places, NEW r,
           worker' = [worker EXCEPT ![w] = place], turn' = [turn EXCEPT ![w] = r],
           Shaped(r), ~r.raised, r.msg \in Messages \cup {Lost},
           place \in Busy => r.msg = turn[w].msg,
           ended \subseteq ended', ended' \subseteq Ends \X Messages,
           place = "acking" => \E end \in Ends : <<end, r.msg>> \in ended',
           UNCHANGED <<broker, inbox, runs>>
    PROVE  IInv'
<1>1. WorkerOK(inbox[w], held[w], link[w], worker[w], turn[w], ended) /\ WorkersInv
  BY DEF IInv, WorkersInv
<1>2. WorkerOK(inbox[w], held[w], link[w], place, r, ended')
  BY <1>1 DEF WorkerOK
<1>3. UNCHANGED <<inbox, held, link>>
  BY DEF broker
<1>4. /\ inbox' = [inbox EXCEPT ![w] = inbox[w]] /\ held' = [held EXCEPT ![w] = held[w]]
      /\ link' = [link EXCEPT ![w] = link[w]]
  BY <1>1, <1>3, Unmoved DEF WorkersInv
<1>5. WorkersInv'
  BY <1>1, <1>2, <1>4, WorkerMoves
<1>6. runs' \in [Messages -> Nat]
  BY DEF IInv, BrokerTypes
<1> QED BY <1>5, <1>6, BrokerIdle

\* What a run of the graph leaves of a turn.
LEMMA GraphShape ==
    ASSUME NEW t, Shaped(t), NEW r \in GraphResults(t) PROVE Shaped(r) /\ r.msg = t.msg
<1>1. PICK x : r = Result(x, t)
  BY DEF GraphResults
<1>2. PICK history, raised : r = [t EXCEPT !.raised = raised, !.history = history]
  BY <1>1 DEF Result
<1> QED BY <1>2 DEF Shaped

LEMMA TurnOfShape == ASSUME NEW m PROVE Shaped(TurnOf(m)) /\ TurnOf(m).msg = m /\ ~TurnOf(m).raised
BY DEF TurnOf, StartTurn, Shaped

LEMMA EndOfType == ASSUME NEW r PROVE EndOf(r) \in Ends
BY DEF EndOf, Ends

LEMMA LoopKeeps ==
    ASSUME IInv, NEW w \in Workers,
           Run(w) \/ Publish(w) \/ Save(w) \/ Apologise(w) \/ Restore(w)
    PROVE  IInv'
<1> DEFINE m == turn[w].msg
<1>1. /\ worker[w] \in Busy /\ Workerwise(turn) /\ Shaped(turn[w]) /\ ~turn[w].raised
      /\ m \in Messages /\ ended \subseteq Ends \X Messages
  BY DEF Run, Publish, Save, Apologise, Restore, Busy, Places, IInv, WorkersInv, WorkerOK,
         BrokerTypes
<1>2. /\ UNCHANGED <<broker, inbox, runs>>
      /\ UNCHANGED ended \/ \E end \in Ends : ended' = ended \cup {<<end, m>>}
  BY EndOfType DEF Run, Publish, Save, Apologise, Restore, SaveAs, Ends
<1>3. ended \subseteq ended' /\ ended' \subseteq Ends \X Messages
  BY <1>1, <1>2
<1>4. {"publishing", "failing", "saving", "restoring", "acking", "nacking"} \subseteq Places
  BY DEF Places
<1> HIDE DEF m
<1>5. ASSUME NEW place \in {"publishing", "failing", "saving", "restoring", "acking", "nacking"},
             NEW r, Shaped(r), ~r.raised, r.msg = m,
             worker' = [worker EXCEPT ![w] = place], turn' = [turn EXCEPT ![w] = r],
             place = "acking" => \E end \in Ends : <<end, m>> \in ended'
      PROVE  IInv'
  BY <1>1, <1>2, <1>3, <1>4, <1>5, TurnGoesOn DEF m
<1>6. ASSUME NEW place \in {"failing", "acking", "nacking"}, Drop(w, place),
             place = "acking" => \E end \in Ends : <<end, m>> \in ended'
      PROVE  IInv'
  <2>1. turn' = [turn EXCEPT ![w] = TurnOf(m)] /\ worker' = [worker EXCEPT ![w] = place]
    BY <1>6 DEF Drop, At, m
  <2> QED BY <1>5, <1>6, <2>1, TurnOfShape
<1>7. ASSUME NEW place \in {"saving", "restoring", "nacking"}, At(w, place), turn' = turn
      PROVE  IInv'
  <2>1. turn' = [turn EXCEPT ![w] = turn[w]] /\ worker' = [worker EXCEPT ![w] = place]
    BY <1>1, <1>7, Unmoved DEF At
  <2> QED BY <1>1, <1>5, <2>1 DEF m
<1>8. CASE Run(w)
  <2>1. PICK r \in GraphResults(turn[w]) :
          \/ Drop(w, "failing")
          \/ ~r.raised /\ turn' = [turn EXCEPT ![w] = r] /\ At(w, "publishing")
    BY <1>8 DEF Run
  <2>2. Shaped(r) /\ r.msg = m
    BY <1>1, GraphShape DEF m
  <2>3. CASE Drop(w, "failing")
    BY <1>6, <2>3
  <2>4. CASE ~r.raised /\ turn' = [turn EXCEPT ![w] = r] /\ At(w, "publishing")
    BY <1>5, <2>2, <2>4 DEF At
  <2> QED BY <2>1, <2>3, <2>4
<1>9. CASE Publish(w)
  BY <1>6, <1>7, <1>9 DEF Publish
<1>10. ASSUME NEW history, NEW end \in Ends, SaveAs(w, history, end) PROVE IInv'
  <2>1. <<end, m>> \in ended' /\ Drop(w, "acking")
    BY <1>10 DEF SaveAs, m
  <2> QED BY <1>6, <2>1
<1>11. CASE Save(w)
  <2>1. SaveAs(w, turn[w].history, EndOf(turn[w])) \/ Drop(w, "failing")
    BY <1>11 DEF Save
  <2> QED BY <1>6, <1>10, <2>1, EndOfType
<1>12. CASE Apologise(w)
  BY <1>7, <1>12 DEF Apologise
<1>13. CASE Restore(w)
  <2>1. SaveAs(w, KeptHistory(w), "failed") \/ Drop(w, "nacking")
    BY <1>13 DEF Restore
  <2> QED BY <1>6, <1>10, <2>1 DEF Ends
<1> QED BY <1>8, <1>9, <1>11, <1>12, <1>13

\* The next item leaves an inbox, and may become the turn at work.
LEMMA ItemLeaves ==
    ASSUME IInv, NEW w \in Workers, Waiting(w), Get(w), NEW place \in Places, NEW r,
           worker' = [worker EXCEPT ![w] = place], turn' = [turn EXCEPT ![w] = r],
           Shaped(r), r.msg \in Messages \cup {Lost}, ~r.raised, place # "acking",
           place \in Busy => r.msg = Head(inbox[w]) /\ r.msg # Lost,
           UNCHANGED <<broker, ended>>, runs' \in [Messages -> Nat]
    PROVE  IInv'
<1> DEFINE box == Tail(inbox[w])
<1>1. WorkerOK(inbox[w], held[w], link[w], worker[w], turn[w], ended) /\ WorkersInv
  BY DEF IInv, WorkersInv
<1>2. /\ box \in Seq(Messages \cup {Lost}) /\ Distinct(box)
      /\ Head(inbox[w]) \in Items(inbox[w]) /\ Head(inbox[w]) \in Messages \cup {Lost}
      /\ Items(box) = Items(inbox[w]) \ {Head(inbox[w])}
  BY <1>1, TailItems DEF Waiting, WorkerOK
<1>3. inbox' = [inbox EXCEPT ![w] = box]
  BY DEF Get
<1> HIDE DEF box
<1>4. inbox[w] # <<>>
  BY DEF Waiting
<1>5. WorkerOK(box, held[w], link[w], place, r, ended')
  BY <1>1, <1>2, <1>4 DEF WorkerOK
<1>6. held' = [held EXCEPT ![w] = held[w]] /\ link' = [link EXCEPT ![w] = link[w]]
  BY <1>1, Unmoved DEF WorkersInv, broker
<1>7. WorkersInv'
  BY <1>1, <1>3, <1>5, <1>6, WorkerMoves
<1> QED BY <1>7, BrokerIdle DEF IInv, BrokerTypes

LEMMA InboxKeeps == ASSUME IInv, NEW w \in Workers, Exit(w) \/ Skip(w) \/ Take(w) PROVE IInv'
<1>1. /\ Waiting(w) /\ Get(w) /\ UNCHANGED <<broker, ended>>
      /\ WorkerOK(inbox[w], held[w], link[w], worker[w], turn[w], ended)
      /\ Workerwise(worker) /\ Workerwise(turn) /\ worker[w] = "idle"
      /\ runs \in [Messages -> Nat]
  BY DEF Exit, Skip, Take, Waiting, IInv, WorkersInv, BrokerTypes
<1>2. /\ Shaped(turn[w]) /\ turn[w].msg \in Messages \cup {Lost} /\ ~turn[w].raised
      /\ turn = [turn EXCEPT ![w] = turn[w]] /\ worker = [worker EXCEPT ![w] = worker[w]]
  BY <1>1, Unmoved DEF WorkerOK
<1>3. "idle" \in Places /\ "dead" \in Places /\ "idle" \notin Busy /\ "dead" \notin Busy
      /\ "running" \in Places /\ "nacking" \in Places
  BY DEF Places, Busy
<1>4. CASE Exit(w)
  BY <1>1, <1>2, <1>3, <1>4, ItemLeaves DEF Exit, At
<1>5. CASE Skip(w)
  BY <1>1, <1>2, <1>3, <1>5, ItemLeaves DEF Skip
<1>6. CASE Take(w)
  <2> DEFINE m == Head(inbox[w])
             r == TurnOf(m)
  <2>1. /\ m # Lost /\ turn' = [turn EXCEPT ![w] = r]
        /\ \/ /\ worker' = [worker EXCEPT ![w] = "running"]
              /\ runs' = [runs EXCEPT ![m] = @ + 1]
           \/ worker' = [worker EXCEPT ![w] = "nacking"] /\ UNCHANGED runs
    BY <1>6 DEF Take, At
  <2>2. m \in Messages \cup {Lost}
    BY <1>1, TailItems DEF WorkerOK, Waiting
  <2>3. Shaped(r) /\ r.msg = m /\ ~r.raised
    BY TurnOfShape
  <2>4. runs' \in [Messages -> Nat]
    BY <1>1, <2>1, <2>2
  <2> HIDE DEF r, m
  <2>5. PICK place \in {"running", "nacking"} : worker' = [worker EXCEPT ![w] = place]
    BY <2>1
  <2> QED BY <1>1, <1>3, <2>1, <2>2, <2>3, <2>4, <2>5, ItemLeaves DEF m
<1> QED BY <1>4, <1>5, <1>6
-----------------------------------------------------------------------------
(* Steps of the broker and of the connections.                             *)

LEMMA ConnectKeeps == ASSUME IInv, NEW w \in Workers, Connect(w) PROVE IInv'
<1>1. WorkerOK(inbox[w], held[w], link[w], worker[w], turn[w], ended) /\ WorkersInv
  BY DEF IInv, WorkersInv
<1>2. link[w] = "off" /\ inbox[w] = <<>> /\ Items(inbox[w]) = {} /\ worker[w] = "idle"
  <2>1. inbox[w] = <<>> /\ Len(<<>>) = 0
    BY <1>1 DEF Connect, WorkerOK
  <2> QED BY <2>1 DEF Connect, Items
<1>3. UNCHANGED <<inbox, held, turn, ended>>
  BY DEF Connect
<1>4. /\ WorkerOK(inbox[w], held[w], "up", worker[w], turn[w], ended')
      /\ WorkerOK(inbox[w], held[w], link[w], "dead", turn[w], ended')
  BY <1>1, <1>2, <1>3 DEF WorkerOK, Busy, Places
<1>5. /\ inbox' = [inbox EXCEPT ![w] = inbox[w]] /\ held' = [held EXCEPT ![w] = held[w]]
      /\ turn' = [turn EXCEPT ![w] = turn[w]] /\ ended \subseteq ended'
      /\ link = [link EXCEPT ![w] = link[w]] /\ worker = [worker EXCEPT ![w] = worker[w]]
  BY <1>1, <1>3, Unmoved DEF WorkersInv
<1>6. CASE link' = [link EXCEPT ![w] = "up"] /\ UNCHANGED worker
  <2>1. worker' = [worker EXCEPT ![w] = worker[w]]
    BY <1>5, <1>6
  <2>2. link' = [link EXCEPT ![w] = "up"]
    BY <1>6
  <2>3. WorkersInv'
    BY <1>1, <1>4, <1>5, <2>1, <2>2, WorkerMoves
  <2> QED BY <2>3 DEF IInv, BrokerTypes, OwnersInv, Connect
<1>7. CASE worker' = [worker EXCEPT ![w] = "dead"] /\ UNCHANGED link
  <2>1. link' = [link EXCEPT ![w] = link[w]]
    BY <1>5, <1>7
  <2>2. worker' = [worker EXCEPT ![w] = "dead"]
    BY <1>7
  <2>3. WorkersInv'
    BY <1>1, <1>4, <1>5, <2>1, <2>2, WorkerMoves
  <2> QED BY <2>3 DEF IInv, BrokerTypes, OwnersInv, Connect
<1> QED BY <1>6, <1>7 DEF Connect

LEMMA DeliverKeeps ==
    ASSUME IInv, NEW w \in Workers, NEW m \in Messages, Deliver(w, m) PROVE IInv'
<1> DEFINE box == Append(inbox[w], m)
           own == held[w] \cup {m}
<1>1. WorkerOK(inbox[w], held[w], link[w], worker[w], turn[w], ended) /\ WorkersInv
  BY DEF IInv, WorkersInv
<1>2. link[w] = "up" /\ m \in queue /\ m \notin held[w] /\ m \notin Items(inbox[w])
  BY <1>1 DEF Deliver, IInv, OwnersInv, WorkerOK
<1>3. box \in Seq(Messages \cup {Lost}) /\ Distinct(box) /\ Items(box) = Items(inbox[w]) \cup {m}
  BY <1>1, <1>2, AppendItems DEF WorkerOK
<1>4. inbox' = [inbox EXCEPT ![w] = box] /\ held' = [held EXCEPT ![w] = own]
  BY DEF Deliver
<1> HIDE DEF box, own
<1>5. WorkerOK(box, own, link[w], worker[w], turn[w], ended')
  BY <1>1, <1>2, <1>3 DEF WorkerOK, Deliver, own
<1>6. /\ link' = [link EXCEPT ![w] = link[w]] /\ worker' = [worker EXCEPT ![w] = worker[w]]
      /\ turn' = [turn EXCEPT ![w] = turn[w]] /\ ended \subseteq ended'
  BY <1>1, Unmoved DEF WorkersInv, Deliver
<1>7. WorkersInv'
  BY <1>1, <1>4, <1>5, <1>6, WorkerMoves
<1>a. held'[w] = own /\ \A v \in Workers \ {w} : held'[v] = held[v]
  BY <1>1, <1>4 DEF WorkersInv, Workerwise
<1>8. OwnersInv'
  <2>1. queue' = queue \ {m} /\ settled' = settled
    BY DEF Deliver
  <2>2. \A v \in Workers : m \notin held[v]
    BY <1>2 DEF IInv, OwnersInv
  <2> QED BY <1>2, <1>a, <2>1, <2>2 DEF IInv, OwnersInv, own
<1>9. BrokerTypes'
  BY DEF IInv, BrokerTypes, Deliver
<1> QED BY <1>7, <1>8, <1>9 DEF IInv

\* What is taken back is in nobody's hands but the queue's.
LEMMA TakeBackKeeps ==
    ASSUME IInv, NEW w \in Workers, TakeBack(w),
           NEW box, inbox' = [inbox EXCEPT ![w] = box],
           NEW place, worker' = [worker EXCEPT ![w] = place],
           NEW r, turn' = [turn EXCEPT ![w] = r],
           WorkerOK(box, {}, "down", place, r, ended)
    PROVE  IInv'
<1>1. WorkersInv /\ held[w] \subseteq Messages
  BY DEF IInv, WorkersInv, WorkerOK
<1>2. WorkersInv'
  <2>1. /\ link' = [link EXCEPT ![w] = "down"] /\ held' = [held EXCEPT ![w] = {}]
        /\ ended' = ended
    BY DEF TakeBack
  <2>2. WorkerOK(box, {}, "down", place, r, ended') /\ ended \subseteq ended'
    BY <2>1
  <2> QED BY <1>1, <2>1, <2>2, WorkerMoves
<1>a. held'[w] = {} /\ \A v \in Workers \ {w} : held'[v] = held[v]
  BY <1>1 DEF TakeBack, WorkersInv, Workerwise
<1>3. queue' = queue \cup held[w] /\ settled' = settled
  BY DEF TakeBack
<1>4. OwnersInv'
  BY <1>a, <1>3 DEF IInv, OwnersInv
<1>5. BrokerTypes'
  BY <1>1 DEF IInv, BrokerTypes, TakeBack
<1> QED BY <1>2, <1>4, <1>5 DEF IInv

LEMMA DisconnectKeeps == ASSUME IInv, NEW w \in Workers, Disconnect(w) PROVE IInv'
<1> DEFINE box == Append(inbox[w], Lost)
<1>1. WorkerOK(inbox[w], held[w], link[w], worker[w], turn[w], ended) /\ WorkersInv
  BY DEF IInv, WorkersInv
<1>2. link[w] = "up" /\ Items(inbox[w]) \subseteq Messages /\ Lost \notin Items(inbox[w])
  BY <1>1, QueueAssumption DEF Disconnect, WorkerOK
<1>3. box \in Seq(Messages \cup {Lost}) /\ Distinct(box) /\ Items(box) = Items(inbox[w]) \cup {Lost}
  BY <1>1, <1>2, AppendItems DEF WorkerOK
<1>4. inbox' = [inbox EXCEPT ![w] = box] /\ UNCHANGED <<worker, turn>> /\ TakeBack(w)
  BY DEF Disconnect
<1> HIDE DEF box
<1>5. WorkerOK(box, {}, "down", worker[w], turn[w], ended)
  BY <1>1, <1>2, <1>3, QueueAssumption DEF WorkerOK
<1>6. worker' = [worker EXCEPT ![w] = worker[w]] /\ turn' = [turn EXCEPT ![w] = turn[w]]
  BY <1>1, <1>4, Unmoved DEF WorkersInv
<1> QED BY <1>4, <1>5, <1>6, TakeBackKeeps

\* A worker that is over has nothing in its inbox, and no turn.
LEMMA EmptyHanded ==
    ASSUME NEW conn \in {"off", "down"}, NEW place \in {"idle", "dead"}
    PROVE  WorkerOK(<<>>, {}, conn, place, NoTurn, ended)
<1>1. Shaped(NoTurn) /\ NoTurn.msg = Lost /\ ~NoTurn.raised
  BY DEF NoTurn, StartTurn, Shaped
<1>2. <<>> \in Seq(Messages \cup {Lost}) /\ Len(<<>>) = 0
  BY EmptySeq
<1>3. Distinct(<<>>) /\ Items(<<>>) = {}
  BY <1>2 DEF Distinct, Items
<1>4. place \in Places /\ place \notin Busy /\ place # "acking"
  BY DEF Places, Busy
<1> QED BY <1>1, <1>2, <1>3, <1>4 DEF WorkerOK

LEMMA StopKeeps == ASSUME IInv, NEW w \in Workers, Stop(w) PROVE IInv'
<1>1. WorkerOK(<<>>, {}, "down", "dead", NoTurn, ended)
  BY EmptyHanded
<1>2. /\ TakeBack(w) /\ inbox' = [inbox EXCEPT ![w] = <<>>]
      /\ worker' = [worker EXCEPT ![w] = "dead"] /\ turn' = [turn EXCEPT ![w] = NoTurn]
  BY DEF Stop
<1> QED BY <1>1, <1>2, TakeBackKeeps

\* A turn is over: over a connection that is up, its message leaves the worker's hands.
LEMMA ReplyKeeps ==
    ASSUME IInv, NEW w \in Workers, worker[w] \in Busy,
           NEW result \in {"acked", "dead"}, Reply(w, result)
    PROVE  IInv'
<1> DEFINE m == turn[w].msg
           own == IF link[w] = "up" THEN held[w] \ {m} ELSE held[w]
<1>1. WorkerOK(inbox[w], held[w], link[w], worker[w], turn[w], ended) /\ WorkersInv
  BY DEF IInv, WorkersInv
<1>2. /\ m \in Messages /\ m \notin Items(inbox[w])
      /\ link[w] = "up" => m \in held[w]
  BY <1>1 DEF WorkerOK
<1>3. /\ Shaped(NoTurn) /\ NoTurn.msg = Lost /\ ~NoTurn.raised
      /\ "idle" \in Places /\ "idle" \notin Busy
  BY DEF NoTurn, StartTurn, Shaped, Places, Busy
<1>4. WorkerOK(inbox[w], own, link[w], "idle", NoTurn, ended)
  BY <1>1, <1>2, <1>3 DEF WorkerOK
<1>5. held' = [held EXCEPT ![w] = own]
  <2>1. CASE link[w] = "up"
    BY <2>1 DEF Reply
  <2>2. CASE link[w] # "up"
    <3>1. held' = held /\ held = [held EXCEPT ![w] = held[w]]
      BY <1>1, <2>2, Unmoved DEF Reply, WorkersInv
    <3> QED BY <2>2, <3>1
  <2> QED BY <2>1, <2>2
<1>6. /\ worker' = [worker EXCEPT ![w] = "idle"] /\ turn' = [turn EXCEPT ![w] = NoTurn]
      /\ UNCHANGED <<body, link, inbox, session, ended, runs>>
  BY DEF Reply, At
<1>7. /\ link' = [link EXCEPT ![w] = link[w]] /\ inbox' = [inbox EXCEPT ![w] = inbox[w]]
      /\ ended' = ended /\ ended \subseteq ended'
  BY <1>1, <1>6, Unmoved DEF WorkersInv
<1>8. held'[w] = own /\ \A v \in Workers \ {w} : held'[v] = held[v]
  BY <1>1, <1>5 DEF WorkersInv, Workerwise
<1>9. \/ link[w] # "up" /\ UNCHANGED <<settled, queue, losses>>
      \/ /\ link[w] = "up" /\ settled' = [settled EXCEPT ![m] = result]
         /\ UNCHANGED <<queue, losses>>
      \/ /\ link[w] = "up" /\ queue' = queue \cup {m}
         /\ losses' = [losses EXCEPT ![m] = @ + 1] /\ UNCHANGED settled
  BY DEF Reply
<1> HIDE DEF m, own
<1>10. WorkerOK(inbox[w], own, link[w], "idle", NoTurn, ended')
  BY <1>4, <1>7
<1>11. WorkersInv'
  BY <1>1, <1>5, <1>6, <1>7, <1>10, WorkerMoves
<1>12. own \subseteq held[w] /\ (link[w] = "up" => m \notin own /\ m \in held[w])
  BY <1>2 DEF own
<1>13. BrokerTypes'
  BY <1>2, <1>6, <1>9 DEF IInv, BrokerTypes
<1>14. OwnersInv'
  <2>1. OwnersInv /\ settled \in [Messages -> {"no", "acked", "dead"}]
        /\ queue \subseteq Messages /\ \A v \in Workers : held[v] \subseteq Messages
    BY DEF IInv, BrokerTypes, WorkersInv, WorkerOK
  <2>2. CASE link[w] # "up" /\ UNCHANGED <<settled, queue, losses>>
    BY <1>8, <1>12, <2>1, <2>2 DEF OwnersInv
  <2>3. CASE link[w] = "up" /\ settled' = [settled EXCEPT ![m] = result] /\ queue' = queue
    <3>1. m \notin queue /\ \A v \in Workers : m \notin held'[v]
      BY <1>8, <1>12, <2>1, <2>3 DEF OwnersInv
    <3>2. \A n \in Messages : n # m => settled'[n] = settled[n]
      BY <2>1, <2>3
    <3> QED BY <1>8, <1>12, <2>1, <2>3, <3>1, <3>2 DEF OwnersInv
  <2>4. CASE link[w] = "up" /\ queue' = queue \cup {m} /\ UNCHANGED settled
    <3>1. settled[m] = "no" /\ \A v \in Workers : m \notin held'[v]
      BY <1>8, <1>12, <2>1, <2>4 DEF OwnersInv
    <3> QED BY <1>8, <1>12, <2>1, <2>4, <3>1 DEF OwnersInv
  <2> QED BY <1>9, <2>2, <2>3, <2>4
<1> QED BY <1>11, <1>13, <1>14 DEF IInv

\* A reply that raises changes nothing at the broker: an acknowledgement is followed
\* by a refusal, and a refusal by the end of the worker.
LEMMA ReplyRaises ==
    ASSUME IInv, NEW w \in Workers, worker[w] \in Busy,
           UNCHANGED <<broker, inbox, ended, runs>>,
           \/ At(w, "nacking") /\ UNCHANGED turn
           \/ At(w, "dead") /\ turn' = [turn EXCEPT ![w] = NoTurn]
    PROVE  IInv'
<1>1. /\ WorkerOK(inbox[w], held[w], link[w], worker[w], turn[w], ended)
      /\ Workerwise(turn) /\ ended \subseteq Ends \X Messages
  BY DEF IInv, WorkersInv, BrokerTypes
<1>2. /\ Shaped(turn[w]) /\ ~turn[w].raised /\ turn[w].msg \in Messages \cup {Lost}
      /\ turn = [turn EXCEPT ![w] = turn[w]]
  BY <1>1, Unmoved DEF WorkerOK
<1>3. /\ Shaped(NoTurn) /\ ~NoTurn.raised /\ NoTurn.msg = Lost
      /\ "dead" \in Places /\ "dead" \notin Busy /\ "nacking" \in Places
  BY DEF NoTurn, StartTurn, Shaped, Places, Busy
<1>4. CASE At(w, "nacking") /\ UNCHANGED turn
  <2>1. worker' = [worker EXCEPT ![w] = "nacking"] /\ turn' = [turn EXCEPT ![w] = turn[w]]
    BY <1>2, <1>4 DEF At
  <2> QED BY <1>1, <1>2, <1>3, <2>1, TurnGoesOn
<1>5. CASE At(w, "dead") /\ turn' = [turn EXCEPT ![w] = NoTurn]
  <2>1. worker' = [worker EXCEPT ![w] = "dead"]
    BY <1>5 DEF At
  <2> QED BY <1>1, <1>3, <1>5, <2>1, TurnGoesOn
<1> QED BY <1>4, <1>5

LEMMA InitInv == Init => IInv
<1> SUFFICES ASSUME Init PROVE IInv
  OBVIOUS
<1>1. BrokerTypes
  BY DEF Init, BrokerTypes
<1>2. \A w \in Workers : WorkerOK(inbox[w], held[w], link[w], worker[w], turn[w], ended)
  BY EmptyHanded DEF Init
<1>3. WorkersInv
  BY <1>2 DEF Init, WorkersInv, Workerwise
<1>4. OwnersInv
  BY DEF Init, OwnersInv
<1> QED BY <1>1, <1>3, <1>4 DEF IInv

LEMMA NextInv == IInv /\ [Next]_vars => IInv'
<1> SUFFICES ASSUME IInv, [Next]_vars PROVE IInv'
  OBVIOUS
<1>1. CASE UNCHANGED vars
  BY <1>1 DEF vars, IInv, BrokerTypes, WorkersInv, WorkerOK, OwnersInv
<1>2. ASSUME NEW w \in Workers,
             Connect(w) \/ Work(w) \/ Disconnect(w) \/ Stop(w)
                \/ \E m \in Messages : Deliver(w, m)
      PROVE  IInv'
  <2>1. CASE Ack(w)
    BY <2>1, ReplyKeeps, ReplyRaises DEF Ack, Busy, Places
  <2>2. CASE Nack(w)
    BY <2>2, ReplyKeeps, ReplyRaises DEF Nack, Busy, Places
  <2> QED BY <1>2, <2>1, <2>2, ConnectKeeps, InboxKeeps, LoopKeeps, DisconnectKeeps, StopKeeps,
             DeliverKeeps DEF Work
<1> QED BY <1>1, <1>2 DEF Next

LEMMA SpecInv == Spec => []IInv
BY InitInv, NextInv, PTL DEF Spec

\* Every variable keeps its type, however the workers, the broker and the
\* connections behave and whatever a run of the graph results in: a worker that
\* replies is at the end of a turn for one of the messages.
THEOREM QueueTypes == Spec => []TypeOK
BY SpecInv, InvTypes, PTL
-----------------------------------------------------------------------------
(* Delivery at least once.                                                 *)

LEMMA StepDelivers ==
    ASSUME IInv, NEW w \in Workers, Work(w) \/ Connect(w) \/ Disconnect(w) \/ Stop(w)
    PROVE  UNCHANGED <<settled, ended>> \/ D!Next
<1> DEFINE m == turn[w].msg
<1>1. WorkerOK(inbox[w], held[w], link[w], worker[w], turn[w], ended)
  BY DEF IInv, WorkersInv
<1>2. worker[w] \in Busy => m \in Messages /\ (link[w] = "up" => m \in held[w])
  BY <1>1 DEF WorkerOK
<1>3. link[w] = "up" /\ worker[w] \in Busy => settled[m] = "no"
  BY <1>2 DEF IInv, OwnersInv
<1>4. ASSUME worker[w] \in Busy, settled' = settled,
             NEW end \in Ends, ended' = ended \cup {<<end, m>>}
      PROVE  D!Next
  <2> HIDE DEF m
  <2>1. CASE end = "answered"
    <3>1. Ended("answered")' = Ended("answered") \cup {m} /\ Ended("failed")' = Ended("failed")
      BY <1>2, <1>4, <2>1 DEF Ended
    <3> QED BY <1>2, <1>4, <3>1 DEF D!Next, D!Answer
  <2>2. CASE end = "failed"
    <3>1. Ended("failed")' = Ended("failed") \cup {m} /\ Ended("answered")' = Ended("answered")
      BY <1>2, <1>4, <2>2 DEF Ended
    <3> QED BY <1>2, <1>4, <3>1 DEF D!Next, D!Fail
  <2> QED BY <2>1, <2>2 DEF Ends
<1>5. CASE Save(w) \/ Restore(w)
  <2>1. worker[w] \in Busy /\ settled' = settled
    BY <1>5 DEF Save, Restore, Busy, Places, broker
  <2>2. ended' = ended \/ \E end \in Ends : ended' = ended \cup {<<end, m>>}
    BY <1>5, EndOfType DEF Save, Restore, SaveAs, Ends
  <2> QED BY <1>4, <2>1, <2>2
<1>6. CASE Ack(w)
  <2>1. worker[w] = "acking" /\ worker[w] \in Busy /\ ended' = ended
    BY <1>6 DEF Ack, Reply, Busy, Places
  <2>2. m \in Ended("answered") \cup Ended("failed")
    BY <1>1, <1>2, <2>1 DEF WorkerOK, Ends, Ended
  <2>3. UNCHANGED <<Ended("answered"), Ended("failed")>>
    BY <2>1 DEF Ended
  <2>4. \/ UNCHANGED settled
        \/ link[w] = "up" /\ settled' = [settled EXCEPT ![m] = "acked"]
    BY <1>6 DEF Ack, Reply, broker
  <2> QED BY <1>2, <1>3, <2>1, <2>2, <2>3, <2>4 DEF D!Next, D!Acknowledge
<1>7. CASE Nack(w)
  <2>1. worker[w] \in Busy /\ ended' = ended
    BY <1>7 DEF Nack, Reply, Busy, Places
  <2>2. UNCHANGED <<Ended("answered"), Ended("failed")>>
    BY <2>1 DEF Ended
  <2>3. \/ UNCHANGED settled
        \/ link[w] = "up" /\ settled' = [settled EXCEPT ![m] = "dead"]
    BY <1>7 DEF Nack, Reply, broker
  <2> QED BY <1>2, <1>3, <2>1, <2>2, <2>3 DEF D!Next, D!GiveUp
<1>8. CASE Connect(w) \/ Exit(w) \/ Skip(w) \/ Take(w) \/ Run(w) \/ Publish(w) \/ Apologise(w)
  BY <1>8 DEF Connect, Exit, Skip, Take, Run, Publish, Apologise, broker
<1>9. CASE Disconnect(w) \/ Stop(w)
  BY <1>9 DEF Disconnect, Stop, TakeBack
<1> QED BY <1>5, <1>6, <1>7, <1>8, <1>9 DEF Work

\* A message is acknowledged only after a turn of it has saved its answer, or has
\* failed with its client told and a history saved; else it stays with the broker or
\* is given up by it, and it is settled once.  This holds whichever worker takes it,
\* over however many connections, and wherever its turn or a reply fails.
THEOREM DeliveryImplemented == Spec => ImplementsDelivery
<1> DEFINE delivery == <<settled, Ended("answered"), Ended("failed")>>
<1>1. Init => D!Init
  BY DEF Init, D!Init, Ended
<1>2. IInv /\ [Next]_vars => [D!Next]_delivery
  <2> SUFFICES ASSUME IInv, [Next]_vars PROVE D!Next \/ UNCHANGED delivery
    OBVIOUS
  <2>0. UNCHANGED <<settled, ended>> => UNCHANGED delivery
    BY DEF Ended
  <2>1. CASE UNCHANGED vars
    BY <2>0, <2>1 DEF vars
  <2>2. ASSUME NEW w \in Workers, NEW m \in Messages, Deliver(w, m)
        PROVE  UNCHANGED <<settled, ended>>
    BY <2>2 DEF Deliver
  <2> QED BY <2>0, <2>1, <2>2, StepDelivers DEF Next
<1> QED BY <1>1, <1>2, SpecInv, PTL DEF Spec, ImplementsDelivery, D!AtLeastOnce
-----------------------------------------------------------------------------
(* How often a message is run.                                             *)

Holders(m) == {w \in Workers : m \in Items(inbox[w])}
Queued(m) == IF m \in queue THEN 1 ELSE 0

\* The turns started for a message, the inboxes it waits in and its place in the
\* queue are paid for by its first delivery and those that were repeated.
Paid(m) ==
    /\ IsFiniteSet(Holders(m))
    /\ runs[m] + Cardinality(Holders(m)) + Queued(m) <= 1 + losses[m]

PaidInv == \A m \in Messages : Paid(m)

LEMMA PaidStays ==
    ASSUME NEW m \in Messages, Paid(m), IInv, IInv', Holders(m)' \subseteq Holders(m),
           runs'[m] = runs[m], Queued(m)' - losses'[m] <= Queued(m) - losses[m]
    PROVE  Paid(m)'
<1>1. /\ IsFiniteSet(Holders(m)') /\ Cardinality(Holders(m)') \in Nat
      /\ Cardinality(Holders(m)) \in Nat /\ Cardinality(Holders(m)') <= Cardinality(Holders(m))
  BY FS_Subset, FS_CardinalityType DEF Paid
<1>2. runs[m] \in Nat /\ losses[m] \in Nat /\ losses'[m] \in Nat /\ runs'[m] \in Nat
  BY DEF IInv, BrokerTypes
<1>3. Queued(m) \in Nat /\ Queued(m)' \in Nat
  BY DEF Queued
<1> HIDE DEF Holders, Queued
<1> QED BY <1>1, <1>2, <1>3 DEF Paid

\* The inboxes of the other workers stay as they are.
LEMMA OthersHold ==
    ASSUME NEW w \in Workers, Workerwise(inbox), NEW box, inbox' = [inbox EXCEPT ![w] = box]
    PROVE  inbox'[w] = box /\ \A v \in Workers \ {w} : inbox'[v] = inbox[v]
BY DEF Workerwise

LEMMA DeliverPays ==
    ASSUME IInv, IInv', PaidInv, NEW w \in Workers, NEW n \in Messages, Deliver(w, n)
    PROVE  PaidInv'
<1> SUFFICES ASSUME NEW m \in Messages PROVE Paid(m)'
  BY DEF PaidInv
<1>1. /\ WorkerOK(inbox[w], held[w], link[w], worker[w], turn[w], ended)
      /\ Workerwise(inbox) /\ runs[m] \in Nat /\ losses[m] \in Nat /\ Paid(m)
  BY DEF IInv, WorkersInv, PaidInv, BrokerTypes
<1>2. /\ inbox' = [inbox EXCEPT ![w] = Append(inbox[w], n)] /\ n \in queue
      /\ queue' = queue \ {n} /\ UNCHANGED <<runs, losses>>
  BY DEF Deliver
<1>3. n \notin Items(inbox[w])
  BY <1>1 DEF Deliver, IInv, OwnersInv, WorkerOK
<1>4. Items(Append(inbox[w], n)) = Items(inbox[w]) \cup {n}
  BY <1>1, <1>3, AppendItems DEF WorkerOK
<1>a. /\ inbox'[w] = Append(inbox[w], n)
      /\ \A v \in Workers \ {w} : inbox'[v] = inbox[v]
  BY <1>1, <1>2, OthersHold
<1>5. CASE m = n
  <2>1. Holders(m)' = Holders(m) \cup {w} /\ w \notin Holders(m)
    BY <1>a, <1>3, <1>4, <1>5 DEF Holders
  <2>2. /\ IsFiniteSet(Holders(m)') /\ Cardinality(Holders(m)') = Cardinality(Holders(m)) + 1
        /\ Cardinality(Holders(m)) \in Nat
    BY <1>1, <2>1, FS_AddElement, FS_CardinalityType DEF Paid
  <2>3. Queued(m) = 1 /\ Queued(m)' = 0
    BY <1>2, <1>5 DEF Queued
  <2> HIDE DEF Holders, Queued
  <2> QED BY <1>1, <1>2, <2>2, <2>3 DEF Paid
<1>6. CASE m # n
  <2>1. Holders(m)' = Holders(m)
    <3>1. m \in Items(Append(inbox[w], n)) <=> w \in Holders(m)
      BY <1>4, <1>6 DEF Holders
    <3> QED BY <1>a, <3>1 DEF Holders
  <2>2. Queued(m)' = Queued(m)
    BY <1>2, <1>6 DEF Queued
  <2> HIDE DEF Holders, Queued
  <2> QED BY <1>1, <1>2, <2>1, <2>2 DEF Paid
<1> QED BY <1>5, <1>6

LEMMA TakePays ==
    ASSUME IInv, IInv', PaidInv, NEW w \in Workers, Exit(w) \/ Skip(w) \/ Take(w)
    PROVE  PaidInv'
<1> SUFFICES ASSUME NEW m \in Messages PROVE Paid(m)'
  BY DEF PaidInv
<1> DEFINE n == Head(inbox[w])
<1>1. /\ WorkerOK(inbox[w], held[w], link[w], worker[w], turn[w], ended)
      /\ Workerwise(inbox) /\ runs \in [Messages -> Nat] /\ losses[m] \in Nat /\ Paid(m)
  BY DEF IInv, WorkersInv, PaidInv, BrokerTypes
<1>2. /\ inbox' = [inbox EXCEPT ![w] = Tail(inbox[w])] /\ inbox[w] # <<>>
      /\ UNCHANGED <<queue, losses>>
  BY DEF Exit, Skip, Take, Get, Waiting, broker
<1>3. n \in Items(inbox[w]) /\ Items(Tail(inbox[w])) = Items(inbox[w]) \ {n}
  BY <1>1, <1>2, TailItems DEF WorkerOK
<1>4. runs' = runs \/ runs' = [runs EXCEPT ![n] = @ + 1]
  BY DEF Exit, Skip, Take
<1>5. Queued(m)' = Queued(m) /\ Queued(m) \in Nat
  BY <1>2 DEF Queued
<1> HIDE DEF n
<1>a. inbox'[w] = Tail(inbox[w]) /\ \A v \in Workers \ {w} : inbox'[v] = inbox[v]
  BY <1>1, <1>2, OthersHold
<1>6. CASE m = n
  <2>1. Holders(m)' = Holders(m) \ {w} /\ w \in Holders(m)
    BY <1>a, <1>3, <1>6 DEF Holders
  <2>2. /\ IsFiniteSet(Holders(m)') /\ Cardinality(Holders(m)') = Cardinality(Holders(m)) - 1
        /\ Cardinality(Holders(m)) \in Nat
    BY <1>1, <2>1, FS_RemoveElement, FS_CardinalityType DEF Paid
  <2>3. runs[m] \in Nat /\ (runs'[m] = runs[m] \/ runs'[m] = runs[m] + 1)
    BY <1>1, <1>4, <1>6
  <2> HIDE DEF Holders, Queued
  <2> QED BY <1>1, <1>2, <1>5, <2>2, <2>3 DEF Paid
<1>7. CASE m # n
  <2>1. Holders(m)' = Holders(m)
    <3>1. m \in Items(Tail(inbox[w])) <=> w \in Holders(m)
      BY <1>3, <1>7 DEF Holders
    <3> QED BY <1>a, <3>1 DEF Holders
  <2>2. runs'[m] = runs[m]
    BY <1>1, <1>4, <1>7
  <2> HIDE DEF Holders, Queued
  <2> QED BY <1>1, <1>2, <1>5, <2>1, <2>2 DEF Paid
<1> QED BY <1>6, <1>7

LEMMA TakeBackPays ==
    ASSUME IInv, IInv', PaidInv, NEW w \in Workers, TakeBack(w),
           Disconnect(w) \/ Stop(w)
    PROVE  PaidInv'
<1> SUFFICES ASSUME NEW m \in Messages PROVE Paid(m)'
  BY DEF PaidInv
<1>1. /\ WorkerOK(inbox[w], held[w], link[w], worker[w], turn[w], ended)
      /\ Workerwise(inbox) /\ losses[m] \in Nat /\ Paid(m)
  BY DEF IInv, WorkersInv, PaidInv, BrokerTypes
<1>2. /\ queue' = queue \cup held[w] /\ runs' = runs
      /\ losses' = [k \in Messages |-> IF k \in held[w] THEN losses[k] + 1 ELSE losses[k]]
  BY DEF TakeBack
<1>3. Holders(m)' \subseteq Holders(m)
  <2>1. CASE Disconnect(w)
    <3>1. Items(Append(inbox[w], Lost)) = Items(inbox[w]) \cup {Lost} /\ m # Lost
      BY <1>1, <2>1, QueueAssumption, AppendItems DEF Disconnect, WorkerOK
    <3>2. inbox' = [inbox EXCEPT ![w] = Append(inbox[w], Lost)]
      BY <2>1 DEF Disconnect
    <3>3. /\ inbox'[w] = Append(inbox[w], Lost)
          /\ \A v \in Workers \ {w} : inbox'[v] = inbox[v]
      BY <1>1, <3>2, OthersHold
    <3> QED BY <3>1, <3>3 DEF Holders
  <2>2. CASE Stop(w)
    <3>1. Items(<<>>) = {}
      BY DEF Items
    <3>2. inbox' = [inbox EXCEPT ![w] = <<>>]
      BY <2>2 DEF Stop
    <3>3. inbox'[w] = <<>> /\ \A v \in Workers \ {w} : inbox'[v] = inbox[v]
      BY <1>1, <3>2, OthersHold
    <3> QED BY <3>1, <3>3 DEF Holders
  <2> QED BY <2>1, <2>2
<1>4. Queued(m)' - losses'[m] <= Queued(m) - losses[m]
  BY <1>1, <1>2 DEF Queued, IInv, OwnersInv
<1> HIDE DEF Holders, Queued
<1> QED BY <1>1, <1>2, <1>3, <1>4, PaidStays

LEMMA OthersPay ==
    ASSUME IInv, IInv', PaidInv, NEW w \in Workers,
           \/ Connect(w) \/ Run(w) \/ Publish(w) \/ Save(w) \/ Apologise(w) \/ Restore(w)
           \/ Ack(w) \/ Nack(w)
    PROVE  PaidInv'
<1> SUFFICES ASSUME NEW m \in Messages PROVE Paid(m)'
  BY DEF PaidInv
<1>1. Paid(m) /\ losses \in [Messages -> Nat]
  BY DEF PaidInv, IInv, BrokerTypes
<1>2. UNCHANGED <<inbox, runs>>
  BY DEF Connect, Run, Publish, Save, Apologise, Restore, Ack, Nack, Reply
<1>3. Holders(m)' = Holders(m) /\ runs'[m] = runs[m]
  BY <1>2 DEF Holders
<1>4. \/ UNCHANGED <<queue, losses>>
      \/ \E n : queue' = queue \cup {n} /\ losses' = [losses EXCEPT ![n] = @ + 1]
  BY DEF Connect, Run, Publish, Save, Apologise, Restore, Ack, Nack, Reply, broker
<1>5. Queued(m)' - losses'[m] <= Queued(m) - losses[m]
  BY <1>1, <1>4 DEF Queued
<1> HIDE DEF Holders, Queued
<1> QED BY <1>1, <1>3, <1>5, PaidStays

LEMMA PaidInit == Init => PaidInv
<1> SUFFICES ASSUME Init, NEW m \in Messages PROVE Paid(m)
  BY DEF PaidInv
<1>1. \A w \in Workers : inbox[w] = <<>>
  BY DEF Init
<1>2. Items(<<>>) = {}
  BY DEF Items
<1>3. Holders(m) = {}
  BY <1>1, <1>2 DEF Holders
<1>4. Cardinality(Holders(m)) = 0 /\ IsFiniteSet(Holders(m))
  BY <1>3, FS_EmptySet
<1>5. runs[m] = 0 /\ losses[m] = 0 /\ Queued(m) = 1
  BY DEF Init, Queued
<1> HIDE DEF Holders, Queued
<1> QED BY <1>4, <1>5 DEF Paid

\* A message is run once, and once more at most for each time the broker delivered
\* it again, whatever waits in the inboxes of workers whose connection is lost.
THEOREM RunsAreExplained == Spec => []RunsExplained
<1>1. IInv /\ IInv' /\ PaidInv /\ [Next]_vars => PaidInv'
  <2> SUFFICES ASSUME IInv, IInv', PaidInv, [Next]_vars PROVE PaidInv'
    OBVIOUS
  <2>1. CASE UNCHANGED vars
    BY <2>1 DEF vars, PaidInv, Paid, Holders, Queued
  <2>2. ASSUME NEW w \in Workers, Disconnect(w) \/ Stop(w) PROVE PaidInv'
    BY <2>2, TakeBackPays DEF Disconnect, Stop
  <2> QED BY <2>1, <2>2, DeliverPays, TakePays, OthersPay DEF Next, Work
<1>2. IInv /\ PaidInv => RunsExplained
  <2> SUFFICES ASSUME IInv, PaidInv, NEW m \in Messages PROVE runs[m] <= 1 + losses[m]
    BY DEF RunsExplained
  <2>1. Paid(m) /\ runs[m] \in Nat /\ losses[m] \in Nat /\ Queued(m) \in Nat
    BY DEF PaidInv, IInv, BrokerTypes, Queued
  <2>2. Cardinality(Holders(m)) \in Nat
    BY <2>1, FS_CardinalityType DEF Paid
  <2> HIDE DEF Holders, Queued
  <2> QED BY <2>1, <2>2 DEF Paid
<1> QED BY <1>1, <1>2, PaidInit, SpecInv, PTL DEF Spec
-----------------------------------------------------------------------------
(* FlattenSeq, as the community module defines it: a recursive function    *)
(* that there is, by induction on the length, and that respects parts.     *)

\* F[i] is what the first i of n sequences of q make when joined.
Joins(F, q, n) ==
    (n > 0 => F[1] = q[1]) /\ \A i \in 1..(n - 1) : F[i + 1] = F[i] \o q[i + 1]

\* There are such prefixes up to any position.
LEMMA PrefixesJoin ==
    ASSUME NEW X, NEW L \in Nat, NEW q \in [1..L -> Seq(X)]
    PROVE  \A n \in Nat : n <= L => \E F \in [1..L -> Seq(X)] : Joins(F, q, n)
<1> DEFINE Has(n) == n <= L => \E F \in [1..L -> Seq(X)] : Joins(F, q, n)
           G == {n \in Nat : Has(n)}
<1>1. Has(0)
  BY DEF Joins
<1>2. ASSUME NEW n \in Nat, Has(n), n + 1 <= L PROVE \E F \in [1..L -> Seq(X)] : Joins(F, q, n + 1)
  <2>1. PICK F \in [1..L -> Seq(X)] : Joins(F, q, n)
    BY <1>2
  <2> DEFINE x == IF n = 0 THEN q[1] ELSE F[n] \o q[n + 1]
             H == [F EXCEPT ![n + 1] = x]
  <2>2. n + 1 \in 1..L /\ 1 \in 1..L /\ (n # 0 => n \in 1..L)
    BY <1>2
  <2>3. x \in Seq(X)
    <3>1. CASE n = 0
      BY <2>2, <3>1
    <3>2. CASE n # 0
      <4>1. F[n] \in Seq(X) /\ q[n + 1] \in Seq(X)
        BY <2>2, <3>2
      <4>2. F[n] \o q[n + 1] \in Seq(X)
        BY <4>1, ConcatProperties
      <4> QED BY <3>2, <4>2
    <3> QED BY <3>1, <3>2
  <2>4. H \in [1..L -> Seq(X)] /\ H[n + 1] = x /\ \A i \in 1..L : i # n + 1 => H[i] = F[i]
    <3> HIDE DEF x
    <3> QED BY <2>2, <2>3
  <2> HIDE DEF H
  <2>5. H[1] = q[1]
    <3>1. CASE n = 0
      BY <2>4, <3>1
    <3>2. CASE n # 0
      <4>1. H[1] = F[1]
        BY <2>2, <2>4, <3>2
      <4>2. n > 0
        BY <3>2
      <4> QED BY <2>1, <4>1, <4>2 DEF Joins
    <3> QED BY <3>1, <3>2
  <2>6. ASSUME NEW i \in 1..n PROVE H[i + 1] = H[i] \o q[i + 1]
    <3>1. i \in 1..L /\ i # n + 1 /\ i + 1 \in 1..L /\ i \in 1..n
      BY <1>2
    <3>2. H[i] = F[i]
      BY <2>4, <3>1
    <3>3. CASE i = n
      <4>1. n # 0 /\ H[n + 1] = x
        BY <2>4, <3>1, <3>3
      <4>2. H[n + 1] = F[n] \o q[n + 1]
        BY <4>1
      <4> QED BY <3>2, <3>3, <4>2, Zenon
    <3>4. CASE i # n
      <4>1. i \in 1..(n - 1) /\ i + 1 # n + 1
        BY <3>1, <3>4
      <4>2. H[i + 1] = F[i + 1]
        BY <2>4, <3>1, <4>1
      <4>3. F[i + 1] = F[i] \o q[i + 1]
        BY <2>1, <4>1 DEF Joins
      <4> QED BY <3>2, <4>2, <4>3
    <3> QED BY <3>3, <3>4
  <2>7. Joins(H, q, n + 1)
    <3>1. PICK k \in Nat : k = n + 1
      OBVIOUS
    <3>2. k - 1 = n
      BY <3>1
    <3>3. Joins(H, q, k)
      BY <2>5, <2>6, <3>2 DEF Joins
    <3> QED BY <3>1, <3>3
  <2> QED BY <2>4, <2>7
<1>3. G \in SUBSET Nat /\ 0 \in G /\ \A n \in G : n + 1 \in G
  BY <1>1, <1>2
<1>4. G = Nat
  <2> HIDE DEF G
  <2> QED BY <1>3, NatSetInduction
<1> QED BY <1>4

\* A fact about the first position that carries over to the next holds of all.
LEMMA PositionInduction ==
    ASSUME NEW n \in Nat, NEW G \in SUBSET (1..n), n > 0 => 1 \in G,
           \A i \in G : i < n => i + 1 \in G
    PROVE  G = 1..n
<1> DEFINE K == {m \in Nat : m + 1 \in G \/ m >= n}
<1>1. K \in SUBSET Nat /\ 0 \in K /\ \A m \in K : m + 1 \in K
  OBVIOUS
<1>2. K = Nat
  <2> HIDE DEF K
  <2> QED BY <1>1, NatSetInduction
<1>3. ASSUME NEW i \in 1..n PROVE i \in G
  <2>1. i - 1 \in Nat /\ ~(i - 1 >= n) /\ i - 1 + 1 = i
    OBVIOUS
  <2>2. i - 1 \in K
    BY <1>2, <2>1
  <2> QED BY <2>1, <2>2
<1> QED BY <1>3

\* FlattenSeq joins the sequences one after the other.
LEMMA FlattenJoins ==
    ASSUME NEW X, NEW L \in Nat \ {0}, NEW q \in [1..L -> Seq(X)], Len(q) = L
    PROVE  \E F \in [1..L -> Seq(X)] : FlattenSeq(q) = F[L] /\ Joins(F, q, L)
<1> DEFINE Joined(F) == [i \in 1..L |-> IF i = 1 THEN q[i] ELSE F[i - 1] \o q[i]]
           it == CHOOSE F : F = Joined(F)
<1>1. PICK F \in [1..L -> Seq(X)] : Joins(F, q, L)
  BY PrefixesJoin
<1>2. F = Joined(F)
  <2>1. ASSUME NEW i \in 1..L PROVE F[i] = Joined(F)[i]
    <3>1. CASE i = 1
      BY <1>1, <3>1 DEF Joins
    <3>2. CASE i # 1
      <4>1. i - 1 \in 1..(L - 1) /\ i - 1 + 1 = i
        BY <3>2
      <4>2. F[i - 1 + 1] = F[i - 1] \o q[i - 1 + 1]
        BY <1>1, <4>1, Zenon DEF Joins
      <4>3. F[i] = F[i - 1] \o q[i]
        BY <4>1, <4>2
      <4> QED BY <3>2, <4>3
    <3> QED BY <3>1, <3>2
  <2> HIDE DEF Joined
  <2>2. Joined(F) = [i \in 1..L |-> Joined(F)[i]]
    BY DEF Joined
  <2> QED BY <2>1, <2>2
<1>3. it = Joined(it)
  <2> HIDE DEF Joined
  <2> QED BY <1>2
<1>4. FlattenSeq(q) = it[L]
  BY DEF FlattenSeq
<1> HIDE DEF it
<1>5. Joins(it, q, L)
  <2>1. it[1] = q[1]
    <3>1. 1 \in 1..L
      OBVIOUS
    <3> QED BY <1>3, <3>1
  <2>2. ASSUME NEW i \in 1..(L - 1) PROVE it[i + 1] = it[i] \o q[i + 1]
    <3>1. i + 1 \in 1..L /\ i + 1 # 1 /\ i + 1 - 1 = i
      OBVIOUS
    <3>2. \A k \in 1..L : k # 1 => it[k] = it[k - 1] \o q[k]
      BY <1>3
    <3>3. PICK k \in 1..L : k = i + 1
      BY <3>1
    <3>4. k # 1 /\ k - 1 = i
      BY <3>3
    <3>5. it[k] = it[i] \o q[k]
      BY <3>2, <3>4
    <3> QED BY <3>3, <3>5
  <2> QED BY <2>1, <2>2 DEF Joins
<1>6. \A i \in 1..L : it[i] \in Seq(X)
  <2> DEFINE G == {i \in 1..L : it[i] \in Seq(X)}
  <2>1. 1 \in G
    BY <1>5 DEF Joins
  <2>2. ASSUME NEW i \in G, i < L PROVE i + 1 \in G
    <3>1. i \in 1..(L - 1) /\ i + 1 \in 1..L /\ it[i] \in Seq(X)
      BY <2>2
    <3>2. it[i + 1] = it[i] \o q[i + 1]
      BY <1>5, <3>1 DEF Joins
    <3>3. q[i + 1] \in Seq(X)
      BY <3>1
    <3>4. it[i] \o q[i + 1] \in Seq(X)
      BY <3>1, <3>3, ConcatProperties
    <3> QED BY <3>1, <3>2, <3>4
  <2>3. G \in SUBSET (1..L)
    OBVIOUS
  <2>4. G = 1..L
    <3> HIDE DEF G
    <3> QED BY <2>1, <2>2, <2>3, PositionInduction
  <2> QED BY <2>4
<1>7. it \in [1..L -> Seq(X)]
  BY <1>3, <1>6
<1> HIDE DEF Joined
<1> QED BY <1>4, <1>5, <1>7

LEMMA SeqOfSeqs ==
    ASSUME NEW X, NEW q \in Seq(Seq(X))
    PROVE  Len(q) \in Nat /\ q \in [1..Len(q) -> Seq(X)] /\ (q # <<>> => Len(q) # 0)
BY EmptySeq

LEMMA FlattenType ==
    ASSUME NEW X, NEW q \in Seq(Seq(X))
    PROVE  FlattenSeq(q) \in Seq(X) /\ (q = <<>> => FlattenSeq(q) = <<>>)
<1>1. CASE q = <<>>
  BY <1>1 DEF FlattenSeq
<1>2. CASE q # <<>>
  <2>1. PICK F \in [1..Len(q) -> Seq(X)] : FlattenSeq(q) = F[Len(q)]
    BY <1>2, SeqOfSeqs, FlattenJoins
  <2>2. Len(q) \in 1..Len(q)
    BY <1>2, SeqOfSeqs
  <2> QED BY <1>2, <2>1, <2>2
<1> QED BY <1>1, <1>2

LEMMA FlattenOne ==
    ASSUME NEW X, NEW x \in Seq(X) PROVE FlattenSeq(<<x>>) = x
<1>1. <<x>> \in [1..1 -> Seq(X)] /\ Len(<<x>>) = 1 /\ <<x>>[1] = x
  OBVIOUS
<1>2. PICK F \in [1..1 -> Seq(X)] : FlattenSeq(<<x>>) = F[1] /\ Joins(F, <<x>>, 1)
  <2>1. 1 \in Nat \ {0}
    OBVIOUS
  <2> QED BY <1>1, <2>1, FlattenJoins, Zenon
<1>3. F[1] = x
  BY <1>1, <1>2 DEF Joins
<1> QED BY <1>2, <1>3

LEMMA ConcatSecond ==
    ASSUME NEW S, NEW s \in Seq(S), NEW t \in Seq(S), NEW j \in 1..Len(t)
    PROVE  (s \o t)[Len(s) + j] = t[j]
OBVIOUS

\* Joining is the same in one go and in two parts.
LEMMA FlattenConcat ==
    ASSUME NEW X, NEW q \in Seq(Seq(X)), NEW r \in Seq(Seq(X))
    PROVE  FlattenSeq(q \o r) = FlattenSeq(q) \o FlattenSeq(r)
<1>0. FlattenSeq(q) \in Seq(X) /\ FlattenSeq(r) \in Seq(X)
  BY FlattenType
<1>1. CASE q = <<>>
  <2>1. q \o r = r /\ FlattenSeq(q) = <<>>
    BY <1>1, FlattenType, ConcatEmptySeq
  <2> QED BY <1>0, <2>1, ConcatEmptySeq
<1>2. CASE r = <<>>
  <2>1. q \o r = q /\ FlattenSeq(r) = <<>>
    BY <1>2, FlattenType, ConcatEmptySeq
  <2> QED BY <1>0, <2>1, ConcatEmptySeq
<1>3. CASE q # <<>> /\ r # <<>>
  <2> DEFINE p == q \o r  m == Len(q)  n == Len(r)  l == m + n
  <2>1. /\ m \in Nat \ {0} /\ n \in Nat \ {0}
        /\ q \in [1..m -> Seq(X)] /\ r \in [1..n -> Seq(X)]
    BY <1>3, SeqOfSeqs
  <2>2. /\ p \in Seq(Seq(X)) /\ Len(p) = l
        /\ \A i \in 1..m : p[i] = q[i]
    BY ConcatProperties
  <2>3. p \in [1..l -> Seq(X)]
    <3> HIDE DEF p, m, n, l
    <3> QED BY <2>2, SeqOfSeqs
  <2>4. PICK Q \in [1..m -> Seq(X)] : FlattenSeq(q) = Q[m] /\ Joins(Q, q, m)
    BY <2>1, FlattenJoins
  <2>5. PICK R \in [1..n -> Seq(X)] : FlattenSeq(r) = R[n] /\ Joins(R, r, n)
    BY <2>1, FlattenJoins
  <2>6. PICK P \in [1..l -> Seq(X)] : FlattenSeq(p) = P[l] /\ Joins(P, p, l)
    <3>1. l \in Nat \ {0}
      BY <2>1
    <3> HIDE DEF p, m, n, l
    <3> QED BY <2>2, <2>3, <3>1, FlattenJoins
  <2>e. FlattenSeq(q \o r) = FlattenSeq(p)
    OBVIOUS
  <2>7. \A i \in 1..m : p[i] = q[i]
    BY <2>2
  <2>8. \A j \in 1..n : p[m + j] = r[j]
    BY ConcatSecond, Zenon
  <2>l. l = m + n /\ l \in Nat
    BY <2>1
  <2> HIDE DEF p, m, n, l
  <2>9. \A i \in 1..m : P[i] = Q[i]
    <3> DEFINE G == {i \in 1..m : P[i] = Q[i]}
    <3>1. 1 \in G
      <4>1. 1 \in 1..m /\ l > 0 /\ m > 0
        BY <2>1, <2>l
      <4>2. P[1] = p[1] /\ Q[1] = q[1]
        BY <2>4, <2>6, <4>1 DEF Joins
      <4> QED BY <2>7, <4>1, <4>2
    <3>2. ASSUME NEW i \in G, i < m PROVE i + 1 \in G
      <4>1. i \in 1..(m - 1) /\ i \in 1..(l - 1) /\ i + 1 \in 1..m
        BY <2>1, <2>l, <3>2
      <4>2. P[i + 1] = P[i] \o p[i + 1]
        BY <2>6, <4>1, Zenon DEF Joins
      <4>3. Q[i + 1] = Q[i] \o q[i + 1]
        BY <2>4, <4>1, Zenon DEF Joins
      <4> QED BY <2>7, <3>2, <4>1, <4>2, <4>3
    <3>3. G \in SUBSET (1..m)
      OBVIOUS
    <3>4. G = 1..m
      <4> HIDE DEF G
      <4> QED BY <2>1, <3>1, <3>2, <3>3, PositionInduction
    <3> QED BY <3>4
  <2>10. \A j \in 1..n : P[m + j] = Q[m] \o R[j]
    <3> DEFINE G == {j \in 1..n : P[m + j] = Q[m] \o R[j]}
    <3>0. ASSUME NEW k \in 0..(n - 1) PROVE P[m + (k + 1)] = P[m + k] \o r[k + 1]
      <4>1. m + k \in 1..(l - 1) /\ m + k + 1 = m + (k + 1) /\ k + 1 \in 1..n
        BY <2>1, <2>l
      <4>2. P[m + k + 1] = P[m + k] \o p[m + k + 1]
        BY <2>6, <4>1, Zenon DEF Joins
      <4>3. p[m + (k + 1)] = r[k + 1]
        BY <2>8, <4>1
      <4> QED BY <4>1, <4>2, <4>3
    <3>1. 1 \in G
      <4>1. 1 \in 1..n /\ m \in 1..m /\ 0 \in 0..(n - 1) /\ m + 0 = m /\ 0 + 1 = 1 /\ n > 0
        BY <2>1, <2>l
      <4>2. P[m + (0 + 1)] = P[m + 0] \o r[0 + 1]
        BY <3>0, <4>1, Zenon
      <4>3. R[1] = r[1]
        BY <2>5, <4>1 DEF Joins
      <4>4. P[m] = Q[m]
        BY <2>9, <4>1
      <4>5. P[m + 1] = Q[m] \o R[1]
        BY <4>1, <4>2, <4>3, <4>4
      <4> QED BY <4>1, <4>5
    <3>2. ASSUME NEW j \in G, j < n PROVE j + 1 \in G
      <4>1. j \in 1..(n - 1) /\ j \in 0..(n - 1) /\ j + 1 \in 1..n /\ j \in 1..n /\ m \in 1..m
        BY <2>1, <2>l, <3>2
      <4>2. P[m + (j + 1)] = P[m + j] \o r[j + 1]
        BY <3>0, <4>1
      <4>3. R[j + 1] = R[j] \o r[j + 1]
        BY <2>5, <4>1, Zenon DEF Joins
      <4>4. Q[m] \in Seq(X) /\ R[j] \in Seq(X) /\ r[j + 1] \in Seq(X)
        BY <2>1, <4>1
      <4>5. (Q[m] \o R[j]) \o r[j + 1] = Q[m] \o (R[j] \o r[j + 1])
        <5>1. PICK a \in Seq(X), b \in Seq(X), c \in Seq(X) :
                 a = Q[m] /\ b = R[j] /\ c = r[j + 1]
          BY <4>4
        <5>2. (a \o b) \o c = a \o (b \o c)
          OBVIOUS
        <5> QED BY <5>1, <5>2
      <4>6. P[m + (j + 1)] = Q[m] \o R[j + 1]
        BY <3>2, <4>2, <4>3, <4>5
      <4> QED BY <4>1, <4>6
    <3>3. G \in SUBSET (1..n)
      OBVIOUS
    <3>4. G = 1..n
      <4> HIDE DEF G
      <4> QED BY <2>1, <3>1, <3>2, <3>3, PositionInduction
    <3> QED BY <3>4
  <2>11. n \in 1..n
    BY <2>1
  <2> QED BY <2>4, <2>5, <2>6, <2>10, <2>11, <2>e, <2>l
<1> QED BY <1>1, <1>2, <1>3
-----------------------------------------------------------------------------
(* What a history covers.                                                  *)

Entries == [role : {"user", "assistant", "system"}, of : Seq(Messages \cup Sessions)]

Ofs(h) == [i \in 1..Len(h) |-> h[i].of]

LEMMA CoveredType ==
    ASSUME NEW h \in Seq(Entries)
    PROVE  Ofs(h) \in Seq(Seq(Messages \cup Sessions)) /\ Covered(h) \in Seq(Messages \cup Sessions)
<1> DEFINE X == Messages \cup Sessions
<1>1. \A i \in 1..Len(h) : h[i].of \in Seq(X)
  <2>1. \A i \in 1..Len(h) : h[i] \in Entries
    OBVIOUS
  <2>2. \A e \in Entries : e.of \in Seq(X)
    BY DEF Entries
  <2> QED BY <2>1, <2>2
<1>2. Ofs(h) \in Seq(Seq(X))
  <2> HIDE DEF X
  <2> QED BY <1>1 DEF Ofs
<1>3. Covered(h) = FlattenSeq(Ofs(h))
  BY DEF Covered, Ofs
<1> HIDE DEF X
<1>4. FlattenSeq(Ofs(h)) \in Seq(X)
  BY <1>2, FlattenType
<1> QED BY <1>2, <1>3, <1>4 DEF X

\* Two histories in a row cover what the first covers, then what the second does.
LEMMA CoveredConcat ==
    ASSUME NEW g \in Seq(Entries), NEW h \in Seq(Entries)
    PROVE  g \o h \in Seq(Entries) /\ Covered(g \o h) = Covered(g) \o Covered(h)
<1>1. g \o h \in Seq(Entries)
  BY ConcatProperties
<1>2. Ofs(g \o h) = Ofs(g) \o Ofs(h)
  BY DEF Ofs
<1>3. Covered(g) = FlattenSeq(Ofs(g)) /\ Covered(h) = FlattenSeq(Ofs(h))
      /\ Covered(g \o h) = FlattenSeq(Ofs(g \o h))
  BY DEF Covered, Ofs
<1>4. FlattenSeq(Ofs(g) \o Ofs(h)) = FlattenSeq(Ofs(g)) \o FlattenSeq(Ofs(h))
  BY CoveredType, FlattenConcat, Zenon
<1> QED BY <1>1, <1>2, <1>3, <1>4

LEMMA CoveredEntry ==
    ASSUME NEW e \in Entries PROVE <<e>> \in Seq(Entries) /\ Covered(<<e>>) = e.of
<1>1. <<e>> \in Seq(Entries) /\ e.of \in Seq(Messages \cup Sessions)
  BY DEF Entries
<1>2. [i \in 1..Len(<<e>>) |-> <<e>>[i].of] = <<e.of>>
  OBVIOUS
<1>3. Covered(<<e>>) = FlattenSeq(<<e.of>>)
  BY <1>2 DEF Covered
<1> QED BY <1>1, <1>3, FlattenOne, Zenon

LEMMA KeepTurnsType == KeepTurns \in Nat
BY ConversationGraphAssumption DEF KeepTurns

\* Compaction loses no message and moves none.
LEMMA SummaryCovers ==
    ASSUME NEW h \in Seq(Entries), Len(h) > KeepTurns
    PROVE  Summarise(h) \in Seq(Entries) /\ Covered(Summarise(h)) = Covered(h)
<1> DEFINE n == Len(h) - KeepTurns
           old == SubSeq(h, 1, n)
           new == SubSeq(h, n + 1, Len(h))
           summary == [role |-> "system", of |-> Covered(old)]
<1>1. Len(h) \in Nat /\ n \in 0..Len(h)
  BY KeepTurnsType
<1>2. old \in Seq(Entries) /\ new \in Seq(Entries)
  <2> HIDE DEF n
  <2>1. (\A i \in 1..n : h[i] \in Entries) /\ (\A i \in (n + 1)..Len(h) : h[i] \in Entries)
    BY <1>1
  <2> QED BY <1>1, <2>1, SubSeqProperties
<1>3. old \o new = h
  <2> HIDE DEF n
  <2>1. 1 \in 1..(Len(h) + 1) /\ n \in (1 - 1)..Len(h) /\ Len(h) \in n..Len(h)
    BY <1>1
  <2>2. SubSeq(h, 1, n) \o SubSeq(h, n + 1, Len(h)) = SubSeq(h, 1, Len(h))
    BY <2>1, ConcatAdjacentSubSeq
  <2> QED BY <2>2, SubSeqFull
<1>4. Summarise(h) = <<summary>> \o new
  BY DEF Summarise
<1> HIDE DEF n, old, new
<1>5. summary \in Entries /\ summary.of = Covered(old)
  BY <1>2, CoveredType DEF Entries
<1> HIDE DEF summary
<1>6. <<summary>> \in Seq(Entries) /\ Covered(<<summary>>) = Covered(old)
  BY <1>5, CoveredEntry
<1>7. <<summary>> \o new \in Seq(Entries)
      /\ Covered(<<summary>> \o new) = Covered(<<summary>>) \o Covered(new)
  BY <1>2, <1>6, CoveredConcat, Zenon
<1>8. Covered(old \o new) = Covered(old) \o Covered(new)
  BY <1>2, CoveredConcat, Zenon
<1> QED BY <1>3, <1>4, <1>6, <1>7, <1>8

\* An answered turn adds itself, twice.
LEMMA ExchangeCovers ==
    ASSUME NEW h \in Seq(Entries), NEW m \in Messages
    PROVE  h \o Exchange(m) \in Seq(Entries) /\ Covered(h \o Exchange(m)) = Covered(h) \o <<m, m>>
<1> DEFINE u == [role |-> "user", of |-> <<m>>]  a == [role |-> "assistant", of |-> <<m>>]
<1>1. u \in Entries /\ a \in Entries /\ u.of = <<m>> /\ a.of = <<m>>
  BY DEF Entries
<1>2. Exchange(m) = <<u>> \o <<a>>
  BY DEF Exchange
<1> HIDE DEF u, a
<1>3. <<u>> \in Seq(Entries) /\ <<a>> \in Seq(Entries)
      /\ Covered(<<u>>) = <<m>> /\ Covered(<<a>>) = <<m>>
  BY <1>1, CoveredEntry
<1>4. Exchange(m) \in Seq(Entries) /\ Covered(Exchange(m)) = <<m>> \o <<m>>
  BY <1>2, <1>3, CoveredConcat
<1>5. <<m>> \o <<m>> = <<m, m>>
  <2>1. <<m>> \in Seq(Messages) /\ <<m, m>> = Append(<<m>>, m)
    OBVIOUS
  <2> QED BY <2>1, AppendIsConcat
<1> QED BY <1>4, <1>5, CoveredConcat

\* What covers what a turn started from, in one of the graph's records.
Carries(x, t) ==
    /\ Shaped(x) /\ x.msg = t.msg /\ x.history \in Seq(Entries)
    /\ Covered(x.history) = Covered(t.history)

LEMMA InjectCarries ==
    ASSUME NEW t, Carries(t, t), NEW x \in ContextInject(t) PROVE Carries(x, t)
BY DEF Carries, Shaped, ContextInject

LEMMA CompactCarries ==
    ASSUME NEW t, NEW x, Carries(x, t), NEW y \in Compact(x) PROVE Carries(y, t)
<1>1. CASE y = x
  BY <1>1
<1>2. CASE y # x
  <2>1. Len(x.history) > KeepTurns /\ y = [x EXCEPT !.history = Summarise(x.history)]
    BY <1>2 DEF Compact
  <2>2. /\ Summarise(x.history) \in Seq(Entries)
        /\ Covered(Summarise(x.history)) = Covered(x.history)
    BY <2>1, SummaryCovers DEF Carries
  <2>3. Shaped(y) /\ y.msg = x.msg /\ y.history = Summarise(x.history)
    BY <2>1 DEF Carries, Shaped
  <2> QED BY <2>2, <2>3 DEF Carries
<1> QED BY <1>1, <1>2

LEMMA LoopCarries ==
    ASSUME NEW t, NEW x, Carries(x, t), NEW y \in ReactLoop(x) PROVE Carries(y, t)
<1>1. PICK n : y = [x EXCEPT !.calls = n]
  BY DEF ReactLoop
<1> QED BY <1>1 DEF Carries, Shaped

LEMMA GenerateCarries ==
    ASSUME NEW t, NEW x, Carries(x, t), t.msg \in Messages, NEW y \in Generate(x)
    PROVE  /\ y.history \in Seq(Entries)
           /\ Covered(y.history) \in {Covered(t.history), Covered(t.history) \o <<t.msg, t.msg>>}
<1>1. CASE y.history = x.history
  BY <1>1 DEF Carries
<1>2. CASE y.history # x.history
  <2>1. y = [x EXCEPT !.history = x.history \o Exchange(x.msg)]
    BY <1>2 DEF Generate, Streamed, Carries, Shaped
  <2>2. y.history = x.history \o Exchange(t.msg)
    BY <2>1 DEF Carries, Shaped
  <2>3. x.history \in Seq(Entries) /\ Covered(x.history) = Covered(t.history)
    BY DEF Carries
  <2> QED BY <2>2, <2>3, ExchangeCovers
<1> QED BY <1>1, <1>2

\* What a run of the graph leaves covers what it started from, and this turn at most.
LEMMA GraphCarries ==
    ASSUME NEW t, Shaped(t), t.msg \in Messages, t.history \in Seq(Entries),
           NEW r \in GraphResults(t)
    PROVE  /\ r.history \in Seq(Entries)
           /\ Covered(r.history) \in {Covered(t.history), Covered(t.history) \o <<t.msg, t.msg>>}
<1> DEFINE injected == ContextInject(t)
           compacted == UNION {Compact(x) : x \in injected}
           searched == UNION {ReactLoop(x) : x \in compacted}
           generated == UNION {Generate(x) : x \in searched}
           Good(h) == /\ h \in Seq(Entries)
                      /\ Covered(h) \in {Covered(t.history), Covered(t.history) \o <<t.msg, t.msg>>}
<1>0. Carries(t, t)
  BY DEF Carries
<1>1. \A x \in injected : Carries(x, t)
  BY <1>0, InjectCarries
<1>2. \A x \in compacted : Carries(x, t)
  BY <1>1, CompactCarries
<1>3. \A x \in searched : Carries(x, t)
  BY <1>2, LoopCarries
<1>4. \A x \in generated : Good(x.history)
  BY <1>3, GenerateCarries
<1>5. \A x \in injected : Good(x.history)
  BY <1>1 DEF Carries
<1>6. PICK x \in injected \cup generated : r = Result(x, t)
  BY DEF GraphResults
<1> HIDE DEF injected, compacted, searched, generated
<1>7. r.history = x.history \/ r.history = t.history
  BY <1>6 DEF Result, Shaped
<1> QED BY <1>4, <1>5, <1>6, <1>7
-----------------------------------------------------------------------------
(* What a session is saved with.                                           *)

Carried(m) == {Covered(body[m].history), Covered(body[m].history) \o <<m, m>>}

Carrying(place, r) ==
    place \in Busy =>
        /\ r.history \in Seq(Entries) /\ Covered(r.history) \in Carried(r.msg)
        /\ place = "running" => r.history = body[r.msg].history

\* From the moment it is taken to its answer, a turn's history covers what its
\* message carried, and the turn itself at most.
CarriedInv ==
    /\ session = [s \in Sessions |-> session[s]]
    /\ \A w \in Workers : Carrying(worker[w], turn[w])

LEMMA CarryingMoves ==
    ASSUME IInv, CarriedInv, NEW w \in Workers, NEW place, NEW r,
           worker' = [worker EXCEPT ![w] = place], turn' = [turn EXCEPT ![w] = r],
           UNCHANGED body, Carrying(place, r), session' = [s \in Sessions |-> session'[s]]
    PROVE  CarriedInv'
<1>1. Workerwise(worker) /\ Workerwise(turn)
  BY DEF IInv, WorkersInv
<1>2. worker'[w] = place /\ turn'[w] = r
  BY <1>1 DEF Workerwise
<1>3. \A v \in Workers \ {w} : worker'[v] = worker[v] /\ turn'[v] = turn[v]
  BY <1>1 DEF Workerwise
<1>4. ASSUME NEW v \in Workers PROVE Carrying(worker[v], turn[v])'
  <2>1. Carrying(worker'[v], turn'[v])
    BY <1>2, <1>3 DEF CarriedInv
  <2> QED BY <2>1 DEF Carrying, Carried
<1> QED BY <1>4 DEF CarriedInv

LEMMA CarryingTaken ==
    ASSUME IInv, CarriedInv, NEW w \in Workers, Take(w) PROVE CarriedInv'
<1> DEFINE m == Head(inbox[w])
           b == body[m]
           r == TurnOf(m)
<1>1. /\ m # Lost /\ turn' = [turn EXCEPT ![w] = r] /\ UNCHANGED <<body, session>>
      /\ inbox[w] # <<>>
      /\ \E place \in {"running", "nacking"} : worker' = [worker EXCEPT ![w] = place]
  BY DEF Take, At, broker, Waiting
<1>2. m \in Messages
  <2>1. inbox[w] \in Seq(Messages \cup {Lost})
    BY DEF IInv, WorkersInv, WorkerOK
  <2>2. m \in Messages \cup {Lost}
    BY <1>1, <2>1, HeadTailProperties
  <2> QED BY <1>1, <2>2
<1>3. b.history \in Seq(Entries)
  <2>1. b \in Body
    BY <1>2, QueueAssumption DEF IInv, BrokerTypes
  <2> QED BY <2>1 DEF Body, Entries
<1>4. r.msg = m /\ r.history = b.history
  BY DEF TurnOf, StartTurn
<1> HIDE DEF m, r
<1>5. ASSUME NEW place PROVE Carrying(place, r)
  BY <1>3, <1>4 DEF Carrying, Carried
<1>6. session' = [s \in Sessions |-> session'[s]]
  BY <1>1 DEF CarriedInv
<1> QED BY <1>1, <1>5, <1>6, CarryingMoves

\* A turn that goes on without its result has what its message carried.
LEMMA CarryingDropped ==
    ASSUME IInv, CarriedInv, NEW w \in Workers, worker[w] \in Busy, NEW place, Drop(w, place),
           UNCHANGED body, session' = [s \in Sessions |-> session'[s]]
    PROVE  CarriedInv'
<1> DEFINE m == turn[w].msg
<1>1. m \in Messages
  BY DEF IInv, WorkersInv, WorkerOK
<1>2. body[m].history \in Seq(Entries)
  <2>1. body[m] \in Body
    BY <1>1, QueueAssumption DEF IInv, BrokerTypes
  <2> QED BY <2>1 DEF Body, Entries
<1>3. turn' = [turn EXCEPT ![w] = TurnOf(m)] /\ worker' = [worker EXCEPT ![w] = place]
  BY DEF Drop, At
<1>4. TurnOf(m).msg = m /\ TurnOf(m).history = body[m].history
  BY DEF TurnOf, StartTurn
<1> HIDE DEF m
<1>5. Carrying(place, TurnOf(m))
  BY <1>2, <1>4 DEF Carrying, Carried
<1> QED BY <1>3, <1>5, CarryingMoves

LEMMA CarryingRun ==
    ASSUME IInv, CarriedInv, NEW w \in Workers, Run(w) PROVE CarriedInv'
<1> DEFINE t == turn[w]
<1>1. PICK r \in GraphResults(t) :
        \/ Drop(w, "failing")
        \/ turn' = [turn EXCEPT ![w] = r] /\ worker' = [worker EXCEPT ![w] = "publishing"]
  BY DEF Run, At
<1>2. worker[w] = "running" /\ worker[w] \in Busy /\ UNCHANGED <<body, session>>
  BY DEF Run, Busy, Places, broker
<1>3. Shaped(t) /\ t.msg \in Messages
  BY <1>2 DEF IInv, WorkersInv, WorkerOK
<1>4. t.history \in Seq(Entries) /\ t.history = body[t.msg].history
  BY <1>2 DEF CarriedInv, Carrying
<1> HIDE DEF t
<1>5. /\ r.history \in Seq(Entries) /\ r.msg = t.msg
      /\ Covered(r.history) \in {Covered(t.history), Covered(t.history) \o <<t.msg, t.msg>>}
  BY <1>3, <1>4, GraphShape, GraphCarries
<1>6. Carrying("publishing", r)
  BY <1>4, <1>5 DEF Carrying, Carried
<1>7. session' = [s \in Sessions |-> session'[s]]
  BY <1>2 DEF CarriedInv
<1> QED BY <1>1, <1>2, <1>6, <1>7, CarryingMoves, CarryingDropped

\* The places after the graph keep the turn's record, or drop its result.
LEMMA CarryingOn ==
    ASSUME IInv, CarriedInv, NEW w \in Workers,
           \/ Publish(w) \/ Save(w) \/ Apologise(w) \/ Restore(w)
           \/ worker[w] = "acking" /\ At(w, "nacking") /\ UNCHANGED <<broker, turn, session>>
    PROVE  CarriedInv'
<1>1. /\ UNCHANGED body /\ worker[w] \in Busy
      /\ \/ \E place \in {"acking", "failing", "nacking"} : Drop(w, place)
         \/ UNCHANGED turn /\ \E place \in {"saving", "restoring", "nacking"} : At(w, place)
  BY DEF Publish, Save, Apologise, Restore, SaveAs, broker, Busy, Places
<1>2. session' = [s \in Sessions |-> session'[s]]
  BY DEF Publish, Save, Apologise, Restore, SaveAs, CarriedInv
<1>3. ASSUME UNCHANGED turn, NEW place \in {"saving", "restoring", "nacking"}, At(w, place)
      PROVE  CarriedInv'
  <2>1. turn' = [turn EXCEPT ![w] = turn[w]] /\ worker' = [worker EXCEPT ![w] = place]
    BY <1>3, Unmoved DEF IInv, WorkersInv, At
  <2>2. Carrying(place, turn[w])
    BY <1>1 DEF CarriedInv, Carrying
  <2> QED BY <1>1, <1>2, <2>1, <2>2, CarryingMoves
<1> QED BY <1>1, <1>2, <1>3, CarryingDropped

\* Everyone else is idle or over afterwards, or has not moved.
LEMMA CarryingOthers ==
    ASSUME IInv, CarriedInv, NEW w \in Workers,
           \/ Connect(w) \/ Exit(w) \/ Skip(w) \/ Reply(w, "acked") \/ Nack(w)
           \/ Disconnect(w) \/ Stop(w)
           \/ \E m \in Messages : Deliver(w, m)
    PROVE  CarriedInv'
<1>1. UNCHANGED <<body, session>>
  BY DEF Connect, Exit, Skip, Nack, Reply, Disconnect, Stop, TakeBack, Deliver, broker
<1>2. session' = [s \in Sessions |-> session'[s]]
  BY <1>1 DEF CarriedInv
<1>3. Carrying("idle", NoTurn) /\ Carrying("dead", NoTurn) /\ Carrying("dead", turn[w])
  BY DEF Carrying, Busy
<1>4. turn = [turn EXCEPT ![w] = turn[w]]
  BY Unmoved DEF IInv, WorkersInv
<1>5. CASE UNCHANGED <<worker, turn>>
  BY <1>1, <1>2, <1>5 DEF CarriedInv, Carrying, Carried
<1>6. CASE worker' = [worker EXCEPT ![w] = "dead"] /\ turn' = turn
  BY <1>1, <1>2, <1>3, <1>4, <1>6, CarryingMoves
<1>7. CASE \E place \in {"idle", "dead"} :
              worker' = [worker EXCEPT ![w] = place] /\ turn' = [turn EXCEPT ![w] = NoTurn]
  BY <1>1, <1>2, <1>3, <1>7, CarryingMoves
<1> QED BY <1>5, <1>6, <1>7
        DEF Connect, Exit, Skip, Nack, Reply, Disconnect, Stop, Deliver, At

LEMMA CarriedInit == Init => CarriedInv
BY DEF Init, CarriedInv, Carrying, Busy

LEMMA CarriedNext == IInv /\ CarriedInv /\ [Next]_vars => CarriedInv'
<1> SUFFICES ASSUME IInv, CarriedInv, [Next]_vars PROVE CarriedInv'
  OBVIOUS
<1>1. CASE UNCHANGED vars
  BY <1>1 DEF vars, CarriedInv, Carrying, Carried
<1>2. CASE Next
  <2>1. PICK w \in Workers : Connect(w) \/ Work(w) \/ Disconnect(w) \/ Stop(w)
                               \/ \E m \in Messages : Deliver(w, m)
    BY <1>2 DEF Next
  <2>2. CASE Ack(w)
    BY <2>2, CarryingOn, CarryingOthers DEF Ack
  <2> QED BY <2>1, <2>2, CarryingTaken, CarryingRun, CarryingOn, CarryingOthers DEF Work
<1> QED BY <1>1, <1>2

\* What is saved to a session covers, in order, every message its queue message
\* carried: whatever node failed, whatever was compacted, whoever ran the turn.
THEOREM HistoryIsCarried == Spec => SavesCarriedHistory
<1> DEFINE Kept == \A s \in Sessions : session'[s] # session[s] =>
               \E w \in Workers :
                   LET m == turn[w].msg
                   IN  /\ worker[w] # "acking" /\ worker'[w] = "acking"
                       /\ body[m].session = s
                       /\ Covered(session'[s]) \in {Covered(body[m].history),
                                                    Covered(body[m].history) \o <<m, m>>}
<1>1. ASSUME IInv, CarriedInv, [Next]_vars PROVE Kept
  <2> SUFFICES ASSUME NEW s \in Sessions, session'[s] # session[s]
               PROVE  \E w \in Workers :
                   LET m == turn[w].msg
                   IN  /\ worker[w] # "acking" /\ worker'[w] = "acking"
                       /\ body[m].session = s
                       /\ Covered(session'[s]) \in {Covered(body[m].history),
                                                    Covered(body[m].history) \o <<m, m>>}
    OBVIOUS
  <2>1. PICK w \in Workers : Save(w) \/ Restore(w)
    BY <1>1 DEF Next, Work, Connect, Exit, Skip, Take, Run, Publish, Apologise, Ack, Nack,
                Reply, Disconnect, Stop, TakeBack, Deliver, vars
  <2> DEFINE m == turn[w].msg
  <2>2. worker[w] \in Busy /\ worker[w] # "acking"
    BY <2>1 DEF Save, Restore, Busy, Places
  <2>3. Covered(turn[w].history) \in Carried(m)
    BY <1>1, <2>2 DEF CarriedInv, Carrying
  <2>4. PICK history \in {turn[w].history, body[m].history} :
           /\ session' = [session EXCEPT ![body[m].session] = history]
           /\ worker' = [worker EXCEPT ![w] = "acking"]
    BY <2>1 DEF Save, Restore, SaveAs, KeptHistory, Drop, At
  <2>5. body[m].session = s /\ session'[s] = history
    BY <1>1, <2>4 DEF CarriedInv
  <2>6. worker'[w] = "acking"
    BY <1>1, <2>4 DEF IInv, WorkersInv, Workerwise
  <2> QED BY <2>2, <2>3, <2>4, <2>5, <2>6 DEF Carried
<1>2. IInv /\ CarriedInv /\ [Next]_vars => [Kept]_vars
  BY <1>1
<1> QED BY <1>2, CarriedInit, CarriedNext, SpecInv, PTL DEF Spec, SavesCarriedHistory
=============================================================================
