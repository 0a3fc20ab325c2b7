-------------------------- MODULE AgentTurnsProofs --------------------------
(***************************************************************************)
(* What holds of the multi-agent chat for any number of overlapping turns, *)
(* specialists, delegations, budgets and retries.                          *)
(***************************************************************************)
EXTENDS AgentTurns, SequenceTheorems, TLAPS

\* The calls a frame made are those it counted; the loop's last one may be missing.
CallsCounted(f) ==
    \/ f.made = f.calls + f.tries
    \/ /\ f.at = "answering" /\ f.calls < MaxCalls[f.agent]
       /\ f.made = f.calls + f.tries + 1

\* What is left of a frame's budget at each place of its run.
FrameBudget(f) ==
    /\ CallsCounted(f)
    /\ f.calls <= MaxIterations[f.agent] /\ f.calls <= MaxCalls[f.agent]
    /\ f.at # "answering" => f.tries = 0
    /\ f.at \in {"starting", "deciding"} => ~LoopOver(f)
    /\ f.at = "answering" => f.tries < Attempts(f)

\* A frame of a turn whose tools have returned got.
FrameOK(f, got) == f \in Frame /\ FrameBudget(f) /\ {f.agent} \X f.known \subseteq got

\* All frames but the top one are in the middle of a tool call.
FramesOK(frames, got) ==
    /\ frames \in Seq(Frame)
    /\ \A i \in 1..Len(frames) :
          FrameOK(frames[i], got) /\ (i # Len(frames) => frames[i].at = "acting")

TurnOK(frames, got, place, response) ==
    /\ FramesOK(frames, got)
    /\ place = "delegated" <=> frames # <<>>
    /\ {response.agent} \X response.cards \subseteq got

TurnsInv == \A t \in Turns : TurnOK(stack[t], fetched[t], phase[t], answer[t])

IInv == TypeOK /\ TurnsInv
-----------------------------------------------------------------------------
(* Frames and stacks.                                                      *)

LEMMA BudgetTypes ==
    ASSUME NEW f \in Frame
    PROVE  /\ f.agent \in Specialists /\ f.calls \in Nat /\ f.made \in Nat /\ f.tries \in Nat /\ f.todo \in 0..MaxToolCalls
           /\ f.known \subseteq Entities /\ f.mcp \in BOOLEAN
           /\ f.at \in {"starting", "deciding", "acting", "answering"}
           /\ MaxIterations[f.agent] \in Nat \ {0} /\ MaxCalls[f.agent] \in Nat \ {0}
           /\ Attempts(f) \in Nat \ {0}
<1>1. /\ f.agent \in Specialists /\ f.calls \in Nat /\ f.made \in Nat /\ f.tries \in Nat /\ f.todo \in 0..MaxToolCalls
      /\ f.known \subseteq Entities /\ f.mcp \in BOOLEAN
      /\ f.at \in {"starting", "deciding", "acting", "answering"}
  BY DEF Frame
<1>2. MaxIterations[f.agent] \in Nat \ {0} /\ MaxCalls[f.agent] \in Nat \ {0}
  BY <1>1, AgentAssumption
<1>3. MaxRetries \in Nat \ {0}
  BY AgentAssumption
<1> QED BY <1>1, <1>2, <1>3 DEF Attempts

LEMMA NewFrameOK ==
    ASSUME NEW s \in Specialists, NEW got PROVE FrameOK(NewFrame(s), got)
<1>1. NewFrame(s) \in Frame
  BY AgentAssumption DEF NewFrame, Frame
<1>2. MaxIterations[s] \in Nat \ {0} /\ MaxCalls[s] \in Nat \ {0}
  BY AgentAssumption
<1> QED BY <1>1, <1>2 DEF FrameOK, FrameBudget, CallsCounted, NewFrame, LoopOver

\* A frame goes on after a tool call with the budget it had.
LEMMA ToolDoneOK ==
    ASSUME NEW f, NEW got, FrameOK(f, got), f.at = "acting"
    PROVE  /\ FrameOK(ToolDone(f), got)
           /\ ToolDone(f).agent = f.agent /\ ToolDone(f).known = f.known
<1> DEFINE g == ToolDone(f)
<1>1. f \in Frame /\ f.tries = 0 /\ f.made = f.calls + f.tries
  BY DEF FrameOK, FrameBudget, CallsCounted
<1>2. /\ g \in Frame
      /\ g.agent = f.agent /\ g.known = f.known /\ g.calls = f.calls /\ g.tries = 0
      /\ g.made = f.made
      /\ g.at \in {"acting", "deciding", "answering"}
      /\ g.at = "deciding" => ~LoopOver(f)
  <2>1. CASE f.todo > 1
    BY <1>1, <2>1, AgentAssumption DEF ToolDone, Frame
  <2>2. CASE ~(f.todo > 1) /\ LoopOver(f)
    <3>1. g = [f EXCEPT !.todo = 0, !.at = "answering"]
      BY <2>2 DEF ToolDone
    <3>2. 0 \in 0..MaxToolCalls
      BY AgentAssumption
    <3> HIDE DEF g
    <3> QED BY <1>1, <2>2, <3>1, <3>2 DEF Frame
  <2>3. CASE ~(f.todo > 1) /\ ~LoopOver(f)
    <3>1. g = [f EXCEPT !.todo = 0, !.at = "deciding"]
      BY <2>3 DEF ToolDone
    <3>2. 0 \in 0..MaxToolCalls
      BY AgentAssumption
    <3> HIDE DEF g
    <3> QED BY <1>1, <2>3, <3>1, <3>2 DEF Frame
  <2> QED BY <2>1, <2>2, <2>3
<1> HIDE DEF g
<1>3. Attempts(g) \in Nat \ {0}
  BY <1>2, BudgetTypes
<1>4. FrameBudget(g)
  BY <1>1, <1>2, <1>3 DEF FrameOK, FrameBudget, CallsCounted, LoopOver
<1>5. FrameOK(g, got)
  BY <1>2, <1>4 DEF FrameOK
<1> QED BY <1>2, <1>5 DEF g

\* What a call of the loop makes of a frame keeps its budget.
LEMMA CalledOK ==
    ASSUME NEW f, NEW got, FrameOK(f, got), f.at = "deciding", NEW g \in Called(f)
    PROVE  FrameOK(g, got)
<1> DEFINE n == f.calls + 1
           k == f.made + 1
<1>1. /\ f \in Frame /\ f.tries = 0 /\ f.made = f.calls
      /\ f.calls < MaxIterations[f.agent] /\ f.calls < MaxCalls[f.agent]
  BY BudgetTypes DEF FrameOK, FrameBudget, CallsCounted, LoopOver
<1>2. f.calls \in Nat /\ n \in Nat /\ k \in Nat /\ k = n
  BY <1>1, BudgetTypes
<1>3. MaxToolCalls \in Nat
  BY AgentAssumption
<1>4. /\ g \in Frame /\ g.agent = f.agent /\ g.known = f.known /\ g.tries = 0 /\ g.made = k
      /\ \/ g.calls = n /\ g.at \in {"answering", "acting"}
         \/ g.calls = f.calls /\ g.at = "answering"
  <2>0. f \in Frame /\ f.tries = 0 /\ k \in Nat /\ n \in Nat
    BY <1>1, <1>2
  <2>1. CASE g = [[f EXCEPT !.made = @ + 1] EXCEPT !.at = "answering"]
    <3>1. g = [f EXCEPT !.made = k, !.at = "answering"]
      BY <1>1, <2>1 DEF Frame
    <3> HIDE DEF k, n
    <3> QED BY ONLY <2>0, <3>1 DEF Frame
  <2>2. CASE g = [[[f EXCEPT !.made = @ + 1] EXCEPT !.calls = @ + 1] EXCEPT !.at = "answering"]
    <3>1. g = [f EXCEPT !.made = k, !.calls = n, !.at = "answering"]
      BY <1>1, <2>2 DEF Frame
    <3> HIDE DEF k, n
    <3> QED BY ONLY <2>0, <3>1 DEF Frame
  <2>3. ASSUME NEW m \in 1..MaxToolCalls,
               g = [[[f EXCEPT !.made = @ + 1] EXCEPT !.calls = @ + 1]
                        EXCEPT !.at = "acting", !.todo = m]
        PROVE  /\ g \in Frame /\ g.agent = f.agent /\ g.known = f.known /\ g.tries = 0
               /\ g.made = k /\ g.calls = n /\ g.at = "acting"
    <3>1. g = [f EXCEPT !.made = k, !.calls = n, !.at = "acting", !.todo = m]
      BY <1>1, <2>3 DEF Frame
    <3>2. m \in 0..MaxToolCalls
      BY <1>3
    <3> HIDE DEF k, n
    <3> QED BY ONLY <2>0, <3>1, <3>2 DEF Frame
  <2> QED BY <2>1, <2>2, <2>3 DEF Called
<1> HIDE DEF k, n
<1>5. Attempts(g) \in Nat \ {0} /\ MaxIterations[f.agent] \in Nat /\ MaxCalls[f.agent] \in Nat
  BY <1>1, <1>4, BudgetTypes
<1>6. FrameBudget(g)
  BY <1>1, <1>2, <1>4, <1>5 DEF FrameBudget, CallsCounted, n, k
<1> QED BY <1>4, <1>6 DEF FrameOK

\* The lower frames of a stack with a frame on top.
LEMMA CutAndPush ==
    ASSUME NEW frames, NEW got, NEW more, FramesOK(frames, got), got \subseteq more,
           NEW n \in 0..Len(frames), \A i \in 1..n : frames[i].at = "acting",
           NEW f, FrameOK(f, more)
    PROVE  FramesOK(Append(SubSeq(frames, 1, n), f), more)
<1> DEFINE low == SubSeq(frames, 1, n)
<1>1. frames \in Seq(Frame) /\ Len(frames) \in Nat /\ f \in Frame
  BY DEF FramesOK, FrameOK
<1>2. low \in Seq(Frame) /\ Len(low) = n /\ \A i \in 1..n : low[i] = frames[i]
  BY <1>1, SubSeqProperties
<1> HIDE DEF low
<1>3. /\ Append(low, f) \in Seq(Frame) /\ Len(Append(low, f)) = n + 1
      /\ \A i \in 1..n : Append(low, f)[i] = frames[i]
      /\ Append(low, f)[n + 1] = f
  BY <1>1, <1>2, AppendProperties
<1>4. \A i \in 1..n : FrameOK(frames[i], more)
  BY <1>1 DEF FramesOK, FrameOK
<1>5. \A i \in 1..(n + 1) : i \in 1..n \/ i = n + 1
  OBVIOUS
<1> QED BY <1>3, <1>4, <1>5 DEF FramesOK, low
-----------------------------------------------------------------------------
(* Steps.  A step of one turn leaves the others alone; what is shared does *)
(* not occur in TurnOK.                                                    *)

LEMMA OneTurnMoves ==
    ASSUME IInv, TypeOK', NEW t \in Turns,
           \A u \in Turns \ {t} : /\ stack'[u] = stack[u] /\ fetched'[u] = fetched[u]
                                   /\ phase'[u] = phase[u] /\ answer'[u] = answer[u],
           TurnOK(stack'[t], fetched'[t], phase'[t], answer'[t])
    PROVE  IInv'
<1>1. ASSUME NEW u \in Turns
      PROVE  TurnOK(stack'[u], fetched'[u], phase'[u], answer'[u])
  <2>1. TurnOK(stack[u], fetched[u], phase[u], answer[u])
    BY DEF IInv, TurnsInv
  <2> QED BY <2>1
<1> QED BY <1>1 DEF IInv, TurnsInv

\* A turn at work has a top frame, below which all wait for a tool.
LEMMA TopOK ==
    ASSUME IInv, NEW t \in Turns, phase[t] = "delegated"
    PROVE  /\ stack[t] \in Seq(Frame) /\ Len(stack[t]) \in Nat \ {0}
           /\ FrameOK(Top(t), fetched[t]) /\ Top(t) \in Frame
           /\ FramesOK(stack[t], fetched[t])
           /\ \A i \in 1..(Len(stack[t]) - 1) :
                 stack[t][i].at = "acting" /\ FrameOK(stack[t][i], fetched[t])
<1>1. stack[t] # <<>> /\ FramesOK(stack[t], fetched[t])
  BY DEF IInv, TurnsInv, TurnOK
<1>2. stack[t] \in Seq(Frame) /\ Len(stack[t]) \in Nat \ {0}
  BY <1>1, EmptySeq, LenProperties DEF FramesOK
<1> QED BY <1>1, <1>2 DEF FramesOK, FrameOK, Top

LEMMA SetTopKeeps ==
    ASSUME IInv, NEW t \in Turns, phase[t] = "delegated",
           NEW f, FrameOK(f, fetched'[t]), SetTop(t, f),
           NEW ids \in SUBSET (Specialists \X Entities),
           fetched' = [fetched EXCEPT ![t] = @ \cup ids],
           UNCHANGED <<breaker, phase, offered, answer, audit, failedSince, inARow>>
    PROVE  IInv'
<1> DEFINE frames == Append(Below(t), f)
<1>1. fetched'[t] = fetched[t] \cup ids /\ \A u \in Turns \ {t} : fetched'[u] = fetched[u]
  BY DEF IInv, TypeOK
<1>2. FramesOK(frames, fetched'[t])
  BY <1>1, TopOK, CutAndPush DEF Below
<1>3. frames \in Seq(Frame) /\ frames # <<>>
  <2>1. frames \in Seq(Frame)
    BY <1>2 DEF FramesOK
  <2>2. Below(t) \in Seq(Frame) /\ f \in Frame
    BY TopOK, SubSeqProperties DEF Below, FrameOK
  <2>3. frames # <<>>
    BY <2>2, AppendProperties
  <2> QED BY <2>1, <2>3
<1>4. stack' = [stack EXCEPT ![t] = frames]
  BY DEF SetTop
<1> HIDE DEF frames
<1>5. TypeOK'
  BY <1>3, <1>4 DEF IInv, TypeOK
<1>6. stack'[t] = frames /\ \A u \in Turns \ {t} : stack'[u] = stack[u]
  BY <1>4 DEF IInv, TypeOK
<1>7. TurnOK(stack'[t], fetched'[t], phase'[t], answer'[t])
  BY <1>1, <1>2, <1>3, <1>6 DEF IInv, TurnsInv, TurnOK
<1> QED BY <1>1, <1>5, <1>6, <1>7, OneTurnMoves

\* The same, of a step that fetches nothing.
LEMMA SetTopOnly ==
    ASSUME IInv, NEW t \in Turns, phase[t] = "delegated",
           NEW f, FrameOK(f, fetched[t]), SetTop(t, f),
           UNCHANGED <<breaker, phase, offered, fetched, answer, audit, failedSince, inARow>>
    PROVE  IInv'
<1>1. fetched' = [fetched EXCEPT ![t] = @ \cup {}] /\ fetched'[t] = fetched[t]
  BY DEF IInv, TypeOK
<1>2. {} \in SUBSET (Specialists \X Entities) /\ FrameOK(f, fetched'[t])
  BY <1>1
<1> QED BY <1>1, <1>2, SetTopKeeps

\* A frame that ends resumes the one below.
LEMMA ResumeKeeps ==
    ASSUME IInv, NEW t \in Turns, phase[t] = "delegated", Len(stack[t]) > 1, ResumeParent(t),
           UNCHANGED <<breaker, phase, offered, fetched, answer, audit, failedSince, inARow>>
    PROVE  IInv'
<1> DEFINE n == Len(stack[t])
           f == stack[t][n - 1]
           frames == Append(SubSeq(stack[t], 1, n - 2), ToolDone(f))
<1>1. n \in Nat /\ n > 1 /\ FrameOK(f, fetched[t]) /\ f.at = "acting"
  BY TopOK
<1>2. FrameOK(ToolDone(f), fetched[t])
  BY <1>1, ToolDoneOK
<1>3. FramesOK(frames, fetched[t])
  BY <1>1, <1>2, TopOK, CutAndPush
<1>4. frames \in Seq(Frame) /\ frames # <<>>
  <2>1. SubSeq(stack[t], 1, n - 2) \in Seq(Frame) /\ ToolDone(f) \in Frame
    BY <1>1, <1>2, TopOK, SubSeqProperties DEF FrameOK
  <2> QED BY <2>1, AppendProperties
<1>5. stack' = [stack EXCEPT ![t] = frames]
  BY DEF ResumeParent
<1> HIDE DEF frames, f, n
<1>6. TypeOK'
  BY <1>4, <1>5 DEF IInv, TypeOK
<1>7. stack'[t] = frames /\ \A u \in Turns \ {t} : stack'[u] = stack[u]
  BY <1>5 DEF IInv, TypeOK
<1>8. TurnOK(stack'[t], fetched'[t], phase'[t], answer'[t])
  BY <1>3, <1>4, <1>7 DEF IInv, TurnsInv, TurnOK
<1> QED BY <1>6, <1>7, <1>8, OneTurnMoves

LEMMA EmptyOK == ASSUME NEW got PROVE FramesOK(<<>>, got)
<1>1. <<>> \in Seq(Frame) /\ Len(<<>>) = 0
  BY EmptySeq
<1> QED BY <1>1 DEF FramesOK

LEMMA ReturnKeeps ==
    ASSUME IInv, NEW t \in Turns, phase[t] = "delegated", NEW response \in Answer,
           {response.agent} \X response.cards \subseteq fetched[t], Return(t, response)
    PROVE  IInv'
<1>1. CASE Len(stack[t]) > 1
  BY <1>1, ResumeKeeps DEF Return
<1>2. CASE ~(Len(stack[t]) > 1)
  <2>1. /\ stack' = [stack EXCEPT ![t] = <<>>]
        /\ answer' = [answer EXCEPT ![t] = response]
        /\ phase' = [phase EXCEPT ![t] = "finishing"]
        /\ inARow' = [inARow EXCEPT ![Top(t).agent] = 0]
        /\ UNCHANGED <<breaker, offered, fetched, audit, failedSince>>
    BY <1>2 DEF Return
  <2>2. TypeOK'
    BY <2>1, EmptySeq DEF IInv, TypeOK, Phases
  <2>3. TurnOK(stack'[t], fetched'[t], phase'[t], answer'[t])
    BY <2>1, EmptyOK DEF IInv, TypeOK, TurnOK
  <2> QED BY <2>1, <2>2, <2>3, OneTurnMoves DEF IInv, TypeOK
<1> QED BY <1>1, <1>2

LEMMA RaiseKeeps ==
    ASSUME IInv, NEW t \in Turns, phase[t] = "delegated", Raise(t) PROVE IInv'
<1>1. CASE Len(stack[t]) > 1
  BY <1>1, ResumeKeeps DEF Raise
<1>2. CASE ~(Len(stack[t]) > 1)
  <2> DEFINE s == Top(t).agent
             failed == [NoAnswer EXCEPT !.agent = s]
  <2>1. /\ stack' = [stack EXCEPT ![t] = <<>>]
        /\ breaker' = Trip(s)
        /\ inARow' = [inARow EXCEPT ![s] = @ + 1]
        /\ failedSince' = [u \in Turns |-> IF offered[u] = {} THEN {} ELSE failedSince[u] \cup {s}]
        /\ answer' = [answer EXCEPT ![t] = failed]
        /\ phase' = [phase EXCEPT ![t] = "finishing"]
        /\ UNCHANGED <<offered, fetched, audit>>
    BY <1>2 DEF Raise
  <2>2. s \in Specialists
    BY TopOK, BudgetTypes
  <2>3. failed \in Answer /\ failed.cards = {}
    BY <2>2 DEF NoAnswer, Answer
  <2> HIDE DEF s, failed
  <2>4. breaker' \in [Specialists -> [count : Nat, over : BOOLEAN]]
    BY <2>1, <2>2 DEF Trip, IInv, TypeOK
  <2>a. failedSince' \in [Turns -> SUBSET Specialists] /\ inARow' \in [Specialists -> Nat]
    BY <2>1, <2>2 DEF IInv, TypeOK
  <2>b. stack' \in [Turns -> Seq(Frame)]
    BY <2>1, EmptySeq DEF IInv, TypeOK
  <2>c. phase' \in [Turns -> Phases] /\ answer' \in [Turns -> Answer]
    BY <2>1, <2>3 DEF IInv, TypeOK, Phases
  <2>5. TypeOK'
    BY <2>1, <2>4, <2>a, <2>b, <2>c DEF IInv, TypeOK
  <2>6. TurnOK(stack'[t], fetched'[t], phase'[t], answer'[t])
    BY <2>1, <2>3, EmptyOK DEF IInv, TypeOK, TurnOK
  <2> QED BY <2>1, <2>5, <2>6, OneTurnMoves DEF IInv, TypeOK
<1> QED BY <1>1, <1>2
LEMMA OpenKeeps == ASSUME IInv, NEW t \in Turns, Open(t) PROVE IInv'
<1>1. Checked \in [Specialists -> [count : Nat, over : BOOLEAN]]
  BY DEF Checked, Closed, IInv, TypeOK
<1>2. TypeOK'
  BY <1>1 DEF Open, IInv, TypeOK, Phases
<1>3. stack[t] = <<>> /\ phase'[t] # "delegated"
  BY DEF Open, IInv, TypeOK, TurnsInv, TurnOK
<1>4. TurnOK(stack'[t], fetched'[t], phase'[t], answer'[t])
  BY <1>3 DEF Open, IInv, TurnsInv, TurnOK
<1> QED BY <1>2, <1>4, OneTurnMoves DEF Open, IInv, TypeOK

LEMMA RouteKeeps == ASSUME IInv, NEW t \in Turns, Route(t) PROVE IInv'
<1>1. stack[t] = <<>> /\ TurnOK(stack[t], fetched[t], phase[t], answer[t])
  BY DEF Route, IInv, TurnsInv, TurnOK
<1>2. ASSUME NEW status \in {"error", "success"},
             answer' = [answer EXCEPT ![t] = [NoAnswer EXCEPT !.status = status]],
             phase' = [phase EXCEPT ![t] = "finishing"], UNCHANGED stack
      PROVE  IInv'
  <2> DEFINE response == [NoAnswer EXCEPT !.status = status]
  <2>1. response \in Answer /\ response.cards = {}
    BY DEF NoAnswer, Answer
  <2> HIDE DEF response
  <2>2. TypeOK'
    BY <1>2, <2>1 DEF Route, IInv, TypeOK, Phases, response
  <2>3. TurnOK(stack'[t], fetched'[t], phase'[t], answer'[t])
    BY <1>1, <1>2, <2>1 DEF Route, IInv, TypeOK, TurnOK, response
  <2> QED BY <1>2, <2>2, <2>3, OneTurnMoves DEF Route, IInv, TypeOK
<1>3. ASSUME phase' = [phase EXCEPT ![t] = "failing"], UNCHANGED <<answer, stack>> PROVE IInv'
  <2>1. TypeOK'
    BY <1>3 DEF Route, IInv, TypeOK, Phases
  <2>2. TurnOK(stack'[t], fetched'[t], phase'[t], answer'[t])
    BY <1>1, <1>3 DEF Route, IInv, TypeOK, TurnOK
  <2> QED BY <1>3, <2>1, <2>2, OneTurnMoves DEF Route, IInv, TypeOK
<1>4. ASSUME NEW s \in Specialists, stack' = [stack EXCEPT ![t] = <<NewFrame(s)>>],
             phase' = [phase EXCEPT ![t] = "delegated"], UNCHANGED answer
      PROVE  IInv'
  <2>1. FrameOK(NewFrame(s), fetched[t]) /\ NewFrame(s) \in Frame
    BY NewFrameOK DEF FrameOK
  <2> DEFINE f == NewFrame(s)
  <2> HIDE DEF f
  <2>2. <<f>> \in Seq(Frame) /\ Len(<<f>>) = 1 /\ <<f>>[1] = f /\ <<f>> # <<>>
    BY <2>1 DEF f
  <2>3. FramesOK(<<f>>, fetched[t])
    BY <2>1, <2>2 DEF FramesOK, f
  <2>4. TypeOK'
    BY <1>4, <2>2 DEF Route, IInv, TypeOK, Phases, f
  <2>5. TurnOK(stack'[t], fetched'[t], phase'[t], answer'[t])
    BY <1>1, <1>4, <2>2, <2>3 DEF Route, IInv, TypeOK, TurnOK, f
  <2> QED BY <1>4, <2>4, <2>5, OneTurnMoves DEF Route, IInv, TypeOK
<1> QED BY <1>2, <1>3, <1>4 DEF Route

LEMMA PublishKeeps == ASSUME IInv, NEW t \in Turns, Publish(t) PROVE IInv'
<1>1. NoAnswer \in Answer /\ NoAnswer.cards = {}
  BY DEF NoAnswer, Answer
<1>2. stack[t] = <<>> /\ TurnOK(stack[t], fetched[t], phase[t], answer[t])
  BY DEF Publish, IInv, TurnsInv, TurnOK
<1>3. audit' \in [Turns -> AuditRecord]
  <2>1. audit[t] \in AuditRecord => [audit[t] EXCEPT !.is = "pending"] \in AuditRecord
    BY DEF AuditRecord
  <2> QED BY <2>1 DEF Publish, IInv, TypeOK
<1>4. TypeOK'
  BY <1>1, <1>3 DEF Publish, Forget, IInv, TypeOK, Phases
<1>5. TurnOK(stack'[t], fetched'[t], phase'[t], answer'[t])
  BY <1>1, <1>2, EmptyOK DEF Publish, Forget, IInv, TypeOK, TurnOK
<1> QED BY <1>4, <1>5, OneTurnMoves DEF Publish, Forget, IInv, TypeOK

LEMMA AuditKeeps == ASSUME IInv, NEW t \in Turns, WriteAudit(t) PROVE IInv'
<1>1. \A a \in AuditRecord : AuditAttempt(a) \subseteq AuditRecord
  <2> SUFFICES ASSUME NEW a \in AuditRecord, NEW b \in AuditAttempt(a) PROVE b \in AuditRecord
    OBVIOUS
  <2>1. a.tries \in 0..AuditRetries /\ AuditRetries \in Nat
    BY AgentAssumption DEF AuditRecord
  <2>2. CASE b = Logged(a)
    BY <2>2 DEF AuditRecord, Logged
  <2>3. CASE a.tries < AuditRetries /\ b = [a EXCEPT !.tries = a.tries + 1]
    BY <2>1, <2>3 DEF AuditRecord
  <2> QED BY <2>2, <2>3 DEF AuditAttempt
<1>2. TypeOK'
  BY <1>1 DEF WriteAudit, IInv, TypeOK
<1>3. UNCHANGED <<stack, fetched, phase, answer>>
  BY DEF WriteAudit
<1> QED BY <1>2, <1>3 DEF IInv, TurnsInv

LEMMA CooldownKeeps == ASSUME IInv, NEW s \in Specialists, CooldownEnds(s) PROVE IInv'
<1>1. TypeOK'
  BY DEF CooldownEnds, IInv, TypeOK
<1>2. UNCHANGED <<stack, fetched, phase, answer>>
  BY DEF CooldownEnds
<1> QED BY <1>1, <1>2 DEF IInv, TurnsInv

LEMMA ShutdownKeeps == ASSUME IInv, Shutdown PROVE IInv'
<1>1. NoAnswer \in Answer /\ NoAnswer.cards = {}
  BY DEF NoAnswer, Answer
<1>2. \A a \in AuditRecord : [a EXCEPT !.is = "lost"] \in AuditRecord
  BY DEF AuditRecord
<1>3. audit' \in [Turns -> AuditRecord]
  BY <1>2 DEF Shutdown, IInv, TypeOK
<1>4. TypeOK'
  BY <1>1, <1>3, EmptySeq DEF Shutdown, Closed, IInv, TypeOK, Phases
<1>5. ASSUME NEW t \in Turns PROVE TurnOK(stack'[t], fetched'[t], phase'[t], answer'[t])
  BY <1>1, EmptyOK DEF Shutdown, TurnOK
<1> QED BY <1>4, <1>5 DEF IInv, TurnsInv
LEMMA StartKeeps == ASSUME IInv, NEW t \in Turns, Start(t) PROVE IInv'
<1> DEFINE f == Top(t)
<1>1. phase[t] = "delegated" /\ FrameOK(f, fetched[t]) /\ f \in Frame /\ f.at = "starting"
  BY TopOK DEF Start, Working
<1>2. ASSUME NEW mcp \in BOOLEAN,
             SetTop(t, [f EXCEPT !.mcp = mcp, !.at = "deciding"]),
             UNCHANGED <<breaker, phase, offered, fetched, answer, audit, failedSince, inARow>>
      PROVE  IInv'
  <2> DEFINE g == [f EXCEPT !.mcp = mcp, !.at = "deciding"]
  <2> HIDE DEF f
  <2>1. /\ g \in Frame /\ g.agent = f.agent /\ g.known = f.known /\ g.calls = f.calls
        /\ g.made = f.made /\ g.tries = f.tries /\ g.at = "deciding"
    BY <1>1 DEF Frame
  <2> HIDE DEF g
  <2>2. FrameOK(g, fetched[t])
    BY <1>1, <2>1 DEF FrameOK, FrameBudget, CallsCounted, LoopOver
  <2> QED BY <1>1, <1>2, <2>2, SetTopOnly DEF g
<1>3. \A mcp \in Listed(f.agent) : mcp \in BOOLEAN
  BY DEF Listed
<1> QED BY <1>1, <1>2, <1>3, RaiseKeeps DEF Start

LEMMA DecideKeeps == ASSUME IInv, NEW t \in Turns, Decide(t) PROVE IInv'
<1>1. phase[t] = "delegated" /\ FrameOK(Top(t), fetched[t]) /\ Top(t).at = "deciding"
  BY TopOK DEF Decide, Working
<1>2. PICK f \in Called(Top(t)) : SetTop(t, f)
  BY DEF Decide
<1>3. FrameOK(f, fetched[t])
  BY <1>1, CalledOK
<1> QED BY <1>1, <1>2, <1>3, SetTopOnly DEF Decide

LEMMA SearchKeeps == ASSUME IInv, NEW t \in Turns, Search(t) PROVE IInv'
<1> DEFINE f == Top(t)
<1>1. phase[t] = "delegated" /\ FrameOK(f, fetched[t]) /\ f.at = "acting"
  BY TopOK DEF Search, Working
<1>2. PICK ids \in SUBSET Entities :
        /\ SetTop(t, [ToolDone(f) EXCEPT !.known = @ \cup ids])
        /\ fetched' = [fetched EXCEPT ![t] = @ \cup ({f.agent} \X ids)]
  BY DEF Search
<1> DEFINE d == ToolDone(f)
           g == [d EXCEPT !.known = @ \cup ids]
<1>3. FrameOK(d, fetched[t]) /\ d.agent = f.agent /\ d \in Frame
  BY <1>1, ToolDoneOK DEF FrameOK
<1>4. f.agent \in Specialists
  BY <1>1, BudgetTypes DEF FrameOK
<1>5. SetTop(t, g) /\ fetched'[t] = fetched[t] \cup ({f.agent} \X ids)
  BY <1>2 DEF IInv, TypeOK
<1> HIDE DEF d
<1>6. /\ g \in Frame /\ g.agent = d.agent /\ g.known = d.known \cup ids
      /\ g.calls = d.calls /\ g.made = d.made /\ g.tries = d.tries /\ g.at = d.at
  BY <1>3 DEF Frame
<1> HIDE DEF g
<1>7. FrameBudget(g)
  BY <1>3, <1>6 DEF FrameOK, FrameBudget, CallsCounted, LoopOver, Attempts
<1>8. {g.agent} \X g.known \subseteq fetched'[t]
  BY <1>3, <1>5, <1>6 DEF FrameOK
<1>9. FrameOK(g, fetched'[t])
  BY <1>6, <1>7, <1>8 DEF FrameOK
<1>10. {f.agent} \X ids \in SUBSET (Specialists \X Entities)
  BY <1>4
<1> HIDE DEF f
<1> QED BY <1>1, <1>2, <1>5, <1>9, <1>10, SetTopKeeps DEF Search, f

LEMMA DelegateKeeps == ASSUME IInv, NEW t \in Turns, Delegate(t) PROVE IInv'
<1> DEFINE frames == stack[t]
<1>1. /\ phase[t] = "delegated" /\ Top(t).at = "acting"
      /\ frames \in Seq(Frame) /\ Len(frames) \in Nat \ {0} /\ FramesOK(frames, fetched[t])
  BY TopOK DEF Delegate, Working
<1>2. ASSUME NEW s \in Specialists, stack' = [stack EXCEPT ![t] = Append(frames, NewFrame(s))],
             UNCHANGED <<breaker, phase, offered, fetched, answer, audit, failedSince, inARow>>
      PROVE  IInv'
  <2> DEFINE f == NewFrame(s)
             more == Append(frames, f)
  <2>1. FrameOK(f, fetched[t]) /\ f \in Frame
    BY NewFrameOK DEF FrameOK
  <2> HIDE DEF f
  <2>2. /\ more \in Seq(Frame) /\ Len(more) = Len(frames) + 1 /\ more # <<>>
        /\ \A i \in 1..Len(frames) : more[i] = frames[i]
        /\ more[Len(frames) + 1] = f
    BY <1>1, <2>1, AppendProperties
  <2>3. \A i \in 1..Len(frames) : frames[i].at = "acting" /\ FrameOK(frames[i], fetched[t])
    BY <1>1 DEF FramesOK, Top
  <2> HIDE DEF more
  <2>4. FramesOK(more, fetched[t])
    <3>1. \A i \in 1..(Len(frames) + 1) : i \in 1..Len(frames) \/ i = Len(frames) + 1
      BY <1>1
    <3> QED BY <1>1, <2>1, <2>2, <2>3, <3>1 DEF FramesOK
  <2>5. stack' = [stack EXCEPT ![t] = more]
    BY <1>2 DEF more, f
  <2>6. TypeOK'
    BY <1>2, <2>2, <2>5 DEF IInv, TypeOK
  <2>7. TurnOK(stack'[t], fetched'[t], phase'[t], answer'[t])
    BY <1>1, <1>2, <2>2, <2>4, <2>5 DEF IInv, TypeOK, TurnsInv, TurnOK
  <2> QED BY <1>2, <2>5, <2>6, <2>7, OneTurnMoves DEF IInv, TypeOK
<1>3. \A s \in Delegates[Top(t).agent] : s \in Specialists
  BY <1>1, TopOK, BudgetTypes, AgentAssumption
<1> QED BY <1>1, <1>2, <1>3, RaiseKeeps DEF Delegate

LEMMA RespondKeeps == ASSUME IInv, NEW t \in Turns, Respond(t) PROVE IInv'
<1> DEFINE f == Top(t)
           tried == [f EXCEPT !.made = @ + 1, !.tries = @ + 1]
<1>1. phase[t] = "delegated" /\ FrameOK(f, fetched[t]) /\ f \in Frame /\ f.at = "answering"
  BY TopOK DEF Respond, Working
<1>2. ASSUME NEW status \in {"success", "partial", "error"}, NEW cards \in SUBSET Entities,
             Return(t, Respondent(f, status, cards))
      PROVE  IInv'
  <2> DEFINE response == Respondent(f, status, cards)
  <2>1. f.agent \in Specialists /\ f.known \subseteq Entities
    BY <1>1, BudgetTypes
  <2>2. response \in Answer /\ response.agent = f.agent /\ response.cards \subseteq f.known
    BY <2>1 DEF Respondent, Grounded, Answer
  <2>3. {response.agent} \X response.cards \subseteq fetched[t]
    BY <1>1, <2>2 DEF FrameOK
  <2> HIDE DEF response
  <2> QED BY <1>1, <1>2, <2>2, <2>3, ReturnKeeps DEF response
<1>3. ASSUME tried.tries < Attempts(f), SetTop(t, tried),
             UNCHANGED <<breaker, phase, offered, fetched, answer, audit, failedSince, inARow>>
      PROVE  IInv'
  <2>1. /\ tried \in Frame /\ tried.agent = f.agent /\ tried.known = f.known
        /\ tried.calls = f.calls /\ tried.at = "answering"
        /\ tried.made = f.made + 1 /\ tried.tries = f.tries + 1
        /\ f.calls \in Nat /\ f.made \in Nat /\ f.tries \in Nat
    <3> DEFINE k == f.made + 1
               n == f.tries + 1
    <3>1. f \in Frame /\ f.at = "answering" /\ k \in Nat /\ n \in Nat
      BY <1>1, BudgetTypes
    <3>2. tried = [f EXCEPT !.made = k, !.tries = n]
      BY <1>1 DEF Frame
    <3> HIDE DEF f, k, n, tried
    <3>3. /\ tried \in Frame /\ tried.agent = f.agent /\ tried.known = f.known
          /\ tried.calls = f.calls /\ tried.at = "answering"
          /\ tried.made = k /\ tried.tries = n
      BY ONLY <3>1, <3>2 DEF Frame
    <3> QED BY <1>1, <3>3, BudgetTypes DEF k, n
  <2>2. tried.tries < Attempts(tried)
    BY <1>3, <2>1 DEF Attempts
  <2> HIDE DEF tried, f
  <2>3. FrameOK(tried, fetched[t])
    BY <1>1, <2>1, <2>2 DEF FrameOK, FrameBudget, CallsCounted
  <2> QED BY <1>1, <1>3, <2>3, SetTopOnly
<1>4. {} \in SUBSET Entities
  OBVIOUS
<1> QED BY <1>1, <1>2, <1>3, <1>4 DEF Respond

LEMMA NextInv == IInv /\ [Next]_vars => IInv'
<1> SUFFICES ASSUME IInv, [Next]_vars PROVE IInv'
  OBVIOUS
<1>1. ASSUME NEW t \in Turns, Task(t) PROVE IInv'
  BY <1>1, RouteKeeps, PublishKeeps, StartKeeps, DecideKeeps, SearchKeeps, DelegateKeeps,
     RespondKeeps DEF Task, Work
<1>2. CASE UNCHANGED vars
  BY <1>2 DEF vars, IInv, TypeOK, TurnsInv
<1> QED BY <1>1, <1>2, OpenKeeps, AuditKeeps, CooldownKeeps, ShutdownKeeps DEF Next

LEMMA InitInv == Init => IInv
<1> SUFFICES ASSUME Init PROVE IInv
  OBVIOUS
<1>1. NoAnswer \in Answer /\ NoAnswer.cards = {} /\ [is |-> "none", tries |-> 0] \in AuditRecord
  BY AgentAssumption DEF NoAnswer, Answer, AuditRecord
<1>2. TypeOK
  BY <1>1, EmptySeq DEF Init, TypeOK, Phases
<1>3. TurnsInv
  BY <1>1, EmptyOK DEF Init, TurnsInv, TurnOK
<1> QED BY <1>2, <1>3 DEF IInv
-----------------------------------------------------------------------------
(* The theorems.                                                           *)

LEMMA Invariance == Spec => []IInv
BY InitInv, NextInv, PTL DEF Spec

\* Every variable keeps its type, for any turns, specialists, delegations and budgets,
\* and no more attempts are made at an audit record than its retries allow.
THEOREM AgentTypes == Spec => []TypeOK
BY Invariance, PTL DEF IInv

\* Where the tasks of a turn stand: frames in the middle of a tool call below one on
\* top, each within the iterations of its loop, its counted calls and its retries.
WorkStacked ==
    \A t \in Turns :
        /\ phase[t] = "delegated" <=> stack[t] # <<>>
        /\ \A i \in 1..Len(stack[t]) :
              LET f == stack[t][i] IN
              /\ i # Len(stack[t]) => f.at = "acting"
              /\ f.calls <= MaxIterations[f.agent] /\ f.calls <= MaxCalls[f.agent]
              /\ f.at = "answering" => f.tries < MaxRetries

\* A turn has specialists at work exactly while its task is delegated; all but the
\* last one asked wait for a tool call, and none exceeds its loop or its retries.
THEOREM WorkIsStacked == Spec => []WorkStacked
<1>1. IInv => WorkStacked
  <2> SUFFICES ASSUME IInv, NEW t \in Turns, NEW i \in 1..Len(stack[t])
               PROVE  LET f == stack[t][i] IN
                      /\ phase[t] = "delegated" <=> stack[t] # <<>>
                      /\ i # Len(stack[t]) => f.at = "acting"
                      /\ f.calls <= MaxIterations[f.agent] /\ f.calls <= MaxCalls[f.agent]
                      /\ f.at = "answering" => f.tries < MaxRetries
    BY DEF IInv, TurnsInv, TurnOK, WorkStacked
  <2> DEFINE f == stack[t][i]
  <2>1. /\ FrameOK(f, fetched[t]) /\ (i # Len(stack[t]) => f.at = "acting")
        /\ phase[t] = "delegated" <=> stack[t] # <<>>
    BY DEF IInv, TurnsInv, TurnOK, FramesOK
  <2> HIDE DEF f
  <2>2. f \in Frame /\ FrameBudget(f)
    BY <2>1 DEF FrameOK
  <2>3. f.at = "answering" => f.tries < MaxRetries
    BY <2>2, BudgetTypes, AgentAssumption DEF FrameBudget, Attempts
  <2> QED BY <2>1, <2>2, <2>3 DEF FrameBudget, f
<1> QED BY <1>1, Invariance, PTL

LEMMA FrameWithin ==
    ASSUME NEW f, NEW got, FrameOK(f, got), Spent(f) > MaxCalls[f.agent]
    PROVE  /\ Spent(f) = MaxCalls[f.agent] + 1
           /\ f.made > f.calls + f.tries \/ f.calls = MaxCalls[f.agent]
<1>1. f \in Frame /\ FrameBudget(f)
  BY DEF FrameOK
<1>2. /\ f.calls \in Nat /\ f.made \in Nat /\ f.tries \in Nat /\ MaxRetries \in Nat
      /\ MaxIterations[f.agent] \in Nat /\ MaxCalls[f.agent] \in Nat
  BY <1>1, BudgetTypes, AgentAssumption
<1>3. CASE f.at = "answering"
  <2>1. /\ f.calls <= MaxCalls[f.agent] /\ Spent(f) = f.made + 1
        /\ f.tries < (IF MaxCalls[f.agent] > f.calls THEN MaxCalls[f.agent] - f.calls ELSE 1)
    BY <1>1, <1>2, <1>3 DEF FrameBudget, Attempts, Spent
  <2>2. \/ f.made = f.calls + f.tries
        \/ f.calls < MaxCalls[f.agent] /\ f.made = f.calls + f.tries + 1
    BY <1>1 DEF FrameBudget, CallsCounted
  <2> QED BY <1>2, <2>1, <2>2
<1>4. CASE f.at # "answering"
  <2>1. /\ f.made = f.calls /\ f.calls <= MaxCalls[f.agent]
        /\ f.at = "deciding" => f.calls < MaxCalls[f.agent]
    BY <1>1, <1>2, <1>4 DEF FrameBudget, CallsCounted, LoopOver
  <2>2. Spent(f) <= MaxCalls[f.agent]
    BY <1>2, <1>4, <2>1 DEF Spent
  <2> QED BY <1>2, <2>1, <2>2 DEF Spent
<1> QED BY <1>3, <1>4

\* For any budgets, iterations and retries, at any depth of delegation: a specialist
\* makes one LLM call beyond its budget at most, and that only after a call of its
\* loop raised or its loop spent the whole budget.
THEOREM OverrunIsExplained == Spec => []OverrunExplained
<1>1. IInv => OverrunExplained
  <2> SUFFICES ASSUME IInv, NEW t \in Turns, NEW i \in 1..Len(stack[t]),
                      Spent(stack[t][i]) > MaxCalls[stack[t][i].agent]
               PROVE  LET f == stack[t][i] IN
                      /\ Spent(f) = MaxCalls[f.agent] + 1
                      /\ f.made > f.calls + f.tries \/ f.calls = MaxCalls[f.agent]
    BY DEF OverrunExplained
  <2>1. FrameOK(stack[t][i], fetched[t])
    BY DEF IInv, TurnsInv, TurnOK, FramesOK
  <2> QED BY <2>1, FrameWithin
<1> QED BY <1>1, Invariance, PTL

\* However deep the delegation and however turns overlap, a card shown stands for a
\* record that a search of the answering specialist returned in this very turn.
THEOREM CardsAreFound == Spec => []CardsGrounded
<1>1. IInv => CardsGrounded
  <2> SUFFICES ASSUME IInv, NEW t \in Turns, NEW e \in answer[t].cards
               PROVE  <<answer[t].agent, e>> \in fetched[t]
    BY DEF CardsGrounded
  <2>1. {answer[t].agent} \X answer[t].cards \subseteq fetched[t]
    BY DEF IInv, TurnsInv, TurnOK
  <2> QED BY <2>1
<1> QED BY <1>1, Invariance, PTL

\* For any number of turns and specialists: a failure is counted on top of another one
\* only while a turn is at work that was offered the specialist before the first.
THEOREM TripsOverlap == Spec => []OverlapTrips
<1>1. Init => OverlapTrips
  BY DEF Init, OverlapTrips
<1>2. IInv /\ OverlapTrips /\ [Next]_vars => OverlapTrips'
  <2> SUFFICES ASSUME IInv, OverlapTrips, [Next]_vars PROVE OverlapTrips'
    OBVIOUS
  <2>0. \A u \in Turns : offered'[u] \subseteq Specialists
    <3>1. IInv'
      BY NextInv
    <3> QED BY <3>1 DEF IInv, TypeOK
  <2> SUFFICES ASSUME NEW u \in Turns, NEW s \in Specialists, s \in offered'[u],
                      breaker'[s].count > 0
               PROVE  s \in failedSince'[u]
    BY <2>0 DEF OverlapTrips
  <2>1. ASSUME NEW t \in Turns, Raise(t), phase[t] = "delegated" PROVE s \in failedSince'[u]
    <3>1. CASE Len(stack[t]) > 1
      BY <2>1, <3>1 DEF Raise, OverlapTrips
    <3>2. CASE ~(Len(stack[t]) > 1)
      <4> DEFINE a == Top(t).agent
      <4>1. /\ breaker' = [breaker EXCEPT ![a] = [count |-> @.count + 1, over |-> FALSE]]
            /\ failedSince'[u] = IF offered[u] = {} THEN {} ELSE failedSince[u] \cup {a}
            /\ offered' = offered
        BY <2>1, <3>2 DEF Raise, Trip
      <4> HIDE DEF a
      <4>2. s # a => breaker'[s] = breaker[s]
        BY <4>1 DEF IInv, TypeOK
      <4> QED BY <4>1, <4>2 DEF OverlapTrips
    <3> QED BY <3>1, <3>2
  <2>2. ASSUME NEW t \in Turns, Open(t) PROVE s \in failedSince'[u]
    <3>1. CASE UNCHANGED <<breaker, offered>>
      BY <2>2, <3>1 DEF Open, OverlapTrips
    <3>2. CASE breaker' = Checked
               /\ offered' = [offered EXCEPT ![t] = {p \in Specialists : ~IsBroken(p)}]
      <4>1. breaker[s].count \in Nat /\ breaker[s].count > 0 /\ ~breaker[s].over
        BY <3>2 DEF Checked, Closed, IInv, TypeOK
      <4>2. IsBroken(s)
        BY <4>1 DEF IsBroken
      <4>3. u # t /\ offered'[u] = offered[u]
        BY <3>2, <4>2 DEF IInv, TypeOK
      <4> QED BY <2>2, <4>1, <4>3 DEF Open, OverlapTrips
    <3> QED BY <2>2, <3>1, <3>2 DEF Open
  <2>3. ASSUME NEW p \in Specialists, CooldownEnds(p) PROVE s \in failedSince'[u]
    <3>1. breaker'[s].count = breaker[s].count
      BY <2>3 DEF CooldownEnds, IInv, TypeOK
    <3> QED BY <2>3, <3>1 DEF CooldownEnds, OverlapTrips
  <2>4. ASSUME NEW t \in Turns, Publish(t) PROVE s \in failedSince'[u]
    <3>1. u # t /\ offered'[u] = offered[u] /\ failedSince'[u] = failedSince[u]
      BY <2>4 DEF Publish, Forget, IInv, TypeOK
    <3> QED BY <2>4, <3>1 DEF Publish, OverlapTrips
  <2>5. CASE UNCHANGED <<breaker, offered, failedSince>>
    BY <2>5 DEF OverlapTrips
  <2>6. ASSUME NEW t \in Turns,
               \/ Route(t) \/ WriteAudit(t) \/ Decide(t) \/ Search(t) \/ Respond(t)
               \/ Start(t) \/ Delegate(t)
        PROVE  s \in failedSince'[u]
    <3>1. ASSUME Start(t) \/ Delegate(t), ~Raise(t) PROVE UNCHANGED <<breaker, offered, failedSince>>
      BY <3>1 DEF Start, Delegate
    <3>2. ASSUME Route(t) \/ WriteAudit(t) \/ Decide(t) \/ Search(t) \/ Respond(t)
          PROVE  UNCHANGED <<breaker, offered, failedSince>>
      BY <3>2 DEF Route, WriteAudit, Decide, Search, Respond, Return
    <3>3. Start(t) \/ Delegate(t) => phase[t] = "delegated"
      BY DEF Start, Delegate, Working
    <3> QED BY <2>1, <2>5, <2>6, <3>1, <3>2, <3>3
  <2>7. CASE Shutdown
    BY <2>7 DEF Shutdown
  <2>8. CASE UNCHANGED vars
    BY <2>5, <2>8 DEF vars
  <2> QED BY <2>2, <2>3, <2>4, <2>6, <2>7, <2>8 DEF Next, Task, Work
<1> QED BY <1>1, <1>2, Invariance, PTL DEF Spec
=============================================================================
