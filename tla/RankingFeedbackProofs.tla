------------------------ MODULE RankingFeedbackProofs ------------------------
(***************************************************************************)
(* What holds of a traveler's ranking files for any jobs, signals, events  *)
(* of a job and attempts, and for plans of any length.                     *)
(***************************************************************************)
EXTENDS RankingFeedback, CommonProofs

JobRecord == [status : {"due", "running", "succeeded", "given_up"}, tries : 0..MaxAttempts]

Causes == {"overlap", "cut short", "mid_rewrite"}

ExecRecord == [step : Steps, next : Nat \ {0}, weights : Learned]

LEMMA NoWeightsOK == NoWeights \in Learned
BY DEF NoWeights, Learned

LEMMA IdleOK == Idle \in ExecRecord /\ Idle.step = "idle" /\ Idle.next = 1
BY NoWeightsOK DEF Idle, ExecRecord, Steps

\* A job has a first event.
LEMMA CarriedOK ==
    ASSUME NEW j \in Jobs
    PROVE  /\ Len(Carried[j]) \in Nat \ {0}
           /\ \A i \in 1..Len(Carried[j]) : Carried[j][i] \in Signals
<1>1. Carried[j] \in Seq(Signals) /\ Carried[j] # <<>>
  BY ConstantsOK
<1> QED BY <1>1

LEMMA UpdatedOK ==
    ASSUME NEW w \in Learned, NEW s \in Signals PROVE Updated(w, s) \in Learned
BY DEF Updated, Learned

LEMMA FailedOK ==
    ASSUME job \in [Jobs -> JobRecord], NEW j \in Jobs
    PROVE  Failed(j) \in [Jobs -> JobRecord]
BY DEF Failed, JobRecord

\* One attempt's coroutine changes.
ExecOK(x, e) == e \in ExecRecord /\ e.next \in 1..Len(Carried[x[1]])

LEMMA IdleExec == ASSUME NEW x \in Attempts PROVE ExecOK(x, Idle)
<1>1. x[1] \in Jobs
  BY DEF Attempts
<1> QED BY <1>1, IdleOK, CarriedOK DEF ExecOK

TypeByAttempt ==
    /\ file \in Learned \cup {Empty, Torn}
    /\ log \in Learned
    /\ job \in [Jobs -> JobRecord]
    /\ exec \in [Attempts -> ExecRecord]
    /\ \A x \in Attempts : ExecOK(x, exec[x])
    /\ plan \in Seq(Arms) /\ Len(plan) <= Sections
    /\ plans \in 0..MaxPlans
    /\ causes \subseteq Causes

LEMMA TypeOKByAttempt == TypeOK <=> TypeByAttempt
<1>1. ASSUME exec \in [Attempts -> ExecRecord], NEW x \in Attempts PROVE exec[x] \in ExecRecord
  BY <1>1
<1> QED BY <1>1 DEF TypeOK, TypeByAttempt, ExecOK, JobRecord, ExecRecord, Causes

LEMMA ExecChanges ==
    ASSUME exec \in [Attempts -> ExecRecord], \A y \in Attempts : ExecOK(y, exec[y]),
           NEW x \in Attempts, NEW e, ExecOK(x, e), exec' = [exec EXCEPT ![x] = e]
    PROVE  exec' \in [Attempts -> ExecRecord] /\ \A y \in Attempts : ExecOK(y, exec'[y])
<1>1. e \in ExecRecord
  BY DEF ExecOK
<1>2. exec' \in [Attempts -> ExecRecord]
  BY <1>1
<1>3. \A y \in Attempts : exec'[y] = IF y = x THEN e ELSE exec[y]
  OBVIOUS
<1> QED BY <1>2, <1>3
-----------------------------------------------------------------------------
(* What each kind of step does, as far as the invariants tell them apart.  *)

\* The next place of attempt x, or its end.
LEMMA WorkMoves ==
    ASSUME TypeByAttempt, NEW x \in Attempts, Work(x)
    PROVE  /\ \E e : ExecOK(x, e) /\ exec' = [exec EXCEPT ![x] = e]
           /\ exec[x].step # "idle"
           /\ UNCHANGED <<plan, plans>>
           /\ \/ causes' = causes
              \/ exec[x].step = "write" /\ causes' = causes \cup {"cut short"}
<1>1. ExecOK(x, exec[x]) /\ exec[x] \in ExecRecord /\ x[1] \in Jobs
  BY DEF TypeByAttempt, ExecOK, Attempts
<1> DEFINE q == exec[x]
<1>2. CASE ReadWeights(x)
  <2>1. CASE Readable
    <3> DEFINE e == [q EXCEPT !.step = "record", !.weights = file]
    <3>1. e \in ExecRecord /\ e.next = q.next
      BY <1>1, <2>1 DEF ExecRecord, Steps, Readable
    <3>2. exec' = [exec EXCEPT ![x] = e]
      BY <1>2, <2>1 DEF ReadWeights, TypeByAttempt
    <3> HIDE DEF e
    <3> QED BY <1>1, <1>2, <3>1, <3>2 DEF ExecOK, ReadWeights
  <2>2. CASE ~Readable
    BY <1>2, <2>2, IdleExec DEF ReadWeights, Stop
  <2> QED BY <2>1, <2>2
<1>3. CASE RecordEvent(x)
  <2> DEFINE signal == Carried[x[1]][q.next]
             last == q.next = Len(Carried[x[1]])
             e == [step |-> IF last THEN "truncate" ELSE "record",
                   next |-> IF last THEN q.next ELSE q.next + 1,
                   weights |-> Updated(q.weights, signal)]
  <2>1. signal \in Signals /\ Len(Carried[x[1]]) \in Nat \ {0} /\ q.next \in 1..Len(Carried[x[1]])
    BY <1>1, CarriedOK DEF ExecOK
  <2>2. Updated(q.weights, signal) \in Learned
    BY <1>1, <2>1, UpdatedOK DEF ExecRecord
  <2>3. (IF last THEN q.next ELSE q.next + 1) \in 1..Len(Carried[x[1]])
    BY <2>1
  <2>4. (IF last THEN "truncate" ELSE "record") \in Steps
    BY DEF Steps
  <2>5. exec' = [exec EXCEPT ![x] = e]
    BY <1>3 DEF RecordEvent
  <2>6. e.next \in 1..Len(Carried[x[1]])
    BY <2>3
  <2>7. e \in ExecRecord
    BY <2>1, <2>2, <2>3, <2>4 DEF ExecRecord
  <2> HIDE DEF e
  <2> QED BY <1>3, <2>5, <2>6, <2>7 DEF ExecOK, RecordEvent
<1>4. CASE Truncate(x)
  <2> DEFINE e == [q EXCEPT !.step = "write"]
  <2>1. e \in ExecRecord /\ e.next = q.next
    BY <1>1 DEF ExecRecord, Steps
  <2>2. exec' = [exec EXCEPT ![x] = e]
    BY <1>4 DEF Truncate
  <2> HIDE DEF e
  <2> QED BY <1>1, <1>4, <2>1, <2>2 DEF ExecOK, Truncate
<1>5. CASE WriteWeights(x)
  BY <1>5, IdleExec DEF WriteWeights, Stop
<1>6. CASE Fail(x)
  BY <1>6, IdleExec DEF Fail, Stop
<1> QED BY <1>2, <1>3, <1>4, <1>5, <1>6 DEF Work

\* The part of the type invariant that other variables than exec need.
LEMMA WorkType ==
    ASSUME TypeByAttempt, NEW x \in Attempts, Work(x)
    PROVE  /\ file' \in Learned \cup {Empty, Torn}
           /\ log' \in Learned
           /\ job' \in [Jobs -> JobRecord]
<1>1. ExecOK(x, exec[x]) /\ exec[x] \in ExecRecord /\ x[1] \in Jobs
  BY DEF TypeByAttempt, ExecOK, Attempts
<1>2. CASE ReadWeights(x)
  BY <1>1, <1>2, FailedOK DEF ReadWeights, TypeByAttempt
<1>3. CASE RecordEvent(x)
  <2> DEFINE signal == Carried[x[1]][exec[x].next]
  <2>1. signal \in Signals
    BY <1>1, CarriedOK DEF ExecOK
  <2>2. log' = Updated(log, signal)
    BY <1>3 DEF RecordEvent, Updated
  <2> HIDE DEF signal
  <2> QED BY <1>3, <2>1, <2>2, UpdatedOK DEF RecordEvent, TypeByAttempt
<1>4. CASE Truncate(x)
  BY <1>4 DEF Truncate, TypeByAttempt
<1>5. CASE WriteWeights(x)
  <2>1. exec[x].weights \in Learned
    BY <1>1 DEF ExecRecord
  <2>2. job' \in [Jobs -> JobRecord]
    <3>1. job[x[1]] \in JobRecord
      BY <1>1 DEF TypeByAttempt
    <3>2. [job[x[1]] EXCEPT !.status = "succeeded"] \in JobRecord
      BY <3>1 DEF JobRecord
    <3> QED BY <1>1, <1>5, <3>2 DEF WriteWeights, TypeByAttempt
  <2> QED BY <1>5, <2>1, <2>2 DEF WriteWeights, Filled, TypeByAttempt
<1>6. CASE Fail(x)
  BY <1>1, <1>6, FailedOK DEF Fail, TypeByAttempt
<1> QED BY <1>2, <1>3, <1>4, <1>5, <1>6 DEF Work

LEMMA BeginType ==
    ASSUME TypeByAttempt, NEW j \in Jobs, Begin(j)
    PROVE  /\ <<j, job[j].tries + 1>> \in Attempts
           /\ ExecOK(<<j, job[j].tries + 1>>, [Idle EXCEPT !.step = "read"])
           /\ job' \in [Jobs -> JobRecord]
<1>1. MaxAttempts \in Nat /\ job[j] \in JobRecord
  BY ConstantsOK DEF TypeByAttempt
<1>2. job[j].tries \in Nat /\ job[j].tries < MaxAttempts
  BY <1>1 DEF Begin, JobRecord
<1>3. job[j].tries + 1 \in 1..MaxAttempts
  BY <1>1, <1>2
<1>4. [status |-> "running", tries |-> job[j].tries + 1] \in JobRecord
  BY <1>3 DEF JobRecord
<1>5. [Idle EXCEPT !.step = "read"] \in ExecRecord /\ [Idle EXCEPT !.step = "read"].next = 1
  BY IdleOK DEF ExecRecord, Steps, Idle
<1>6. job' = [job EXCEPT ![j] = [status |-> "running", tries |-> job[j].tries + 1]]
  BY DEF Begin, TypeByAttempt
<1>7. job' \in [Jobs -> JobRecord]
  BY <1>4, <1>6 DEF TypeByAttempt
<1> QED BY <1>3, <1>5, <1>7, CarriedOK DEF Attempts, ExecOK

LEMMA RankType ==
    ASSUME TypeByAttempt, RankSection
    PROVE  /\ plan' \in Seq(Arms) /\ Len(plan') <= Sections
           /\ plans' \in 0..MaxPlans /\ causes' \subseteq Causes
<1>1. ArmUsed \in Arms /\ Sections \in Nat \ {0} /\ MaxPlans \in Nat
  BY ConstantsOK DEF ArmUsed, Arms
<1>2. plan \in Seq(Arms) /\ Len(plan) \in Nat /\ plans \in 0..MaxPlans
  BY DEF TypeByAttempt
<1>5. causes' \subseteq Causes
  BY DEF RankSection, TypeByAttempt, Causes
<1>3. CASE Len(plan) \in 1..(Sections - 1) /\ plan' = Append(plan, ArmUsed) /\ plans' = plans
  BY <1>1, <1>2, <1>3, <1>5
<1>4. CASE plans < MaxPlans /\ plan' = <<ArmUsed>> /\ plans' = plans + 1
  <2> DEFINE arm == ArmUsed
  <2> HIDE DEF arm
  <2>1. <<arm>> \in Seq(Arms) /\ Len(<<arm>>) = 1
    BY <1>1 DEF arm
  <2> QED BY <1>1, <1>2, <1>4, <1>5, <2>1 DEF arm
<1> QED BY <1>3, <1>4 DEF RankSection

LEMMA NextType == TypeOK /\ [Next]_vars => TypeOK'
<1> SUFFICES ASSUME TypeByAttempt, [Next]_vars PROVE TypeByAttempt'
  <2>1. TypeOK' <=> TypeByAttempt'
    BY DEF TypeOK, TypeByAttempt, ExecOK, JobRecord, ExecRecord, Causes
  <2> QED BY <2>1, TypeOKByAttempt
<1>1. ASSUME NEW x \in Attempts, Work(x) PROVE TypeByAttempt'
  <2>1. causes' \subseteq Causes
    BY <1>1, WorkMoves DEF TypeByAttempt, Causes
  <2> QED BY <1>1, <2>1, WorkMoves, WorkType, ExecChanges DEF TypeByAttempt
<1>2. ASSUME NEW j \in Jobs, Begin(j) PROVE TypeByAttempt'
  <2>1. exec' = [exec EXCEPT ![<<j, job[j].tries + 1>>] = [Idle EXCEPT !.step = "read"]]
    BY <1>2 DEF Begin
  <2> QED BY <1>2, <2>1, BeginType, ExecChanges DEF Begin, TypeByAttempt, Causes
<1>3. ASSUME NEW j \in Jobs, TimeOut(j) PROVE TypeByAttempt'
  BY <1>3, FailedOK DEF TimeOut, TypeByAttempt
<1>4. CASE Crash
  BY <1>4, IdleOK, IdleExec DEF Crash, TypeByAttempt, Causes
<1>5. CASE RankSection
  BY <1>5, RankType DEF RankSection, TypeByAttempt
<1>6. CASE UNCHANGED vars
  BY <1>6 DEF vars, TypeByAttempt
<1> QED BY <1>1, <1>2, <1>3, <1>4, <1>5, <1>6 DEF Next

\* Whatever fails or overlaps, a coroutine works on an event its job carries, on weights
\* it could read, and no attempt is counted past the retry policy.
THEOREM FilesTyped == Spec => []TypeOK
<1>1. Init => TypeOK
  <2> SUFFICES ASSUME Init PROVE TypeByAttempt
    BY TypeOKByAttempt
  <2>1. MaxAttempts \in Nat /\ MaxPlans \in Nat /\ Sections \in Nat
    BY ConstantsOK
  <2>2. [status |-> "due", tries |-> 0] \in JobRecord
    BY <2>1 DEF JobRecord
  <2>3. <<>> \in Seq(Arms) /\ Len(<<>>) = 0
    OBVIOUS
  <2> QED BY <2>1, <2>2, <2>3, NoWeightsOK, IdleOK, IdleExec DEF Init, TypeByAttempt
<1> QED BY <1>1, NextType, PTL DEF Spec
-----------------------------------------------------------------------------
(* The file and the arm.  Until attempts overlap or a rewrite is cut short *)
(* there is one writer at most, and the file is empty just while it        *)
(* writes; a plan leaves the arm only if it met such a time.               *)

Cut == {"overlap", "cut short"}

CalmInv ==
    /\ causes \cap Cut = {} =>
          /\ \A x, y \in Running : x = y
          /\ Rewriting = {} => Readable
          /\ Rewriting # {} => file = Empty
    /\ causes = {} => \A i \in DOMAIN plan : plan[i] = Assigned

\* One writer, whose next operation leaves the file empty or whole.
LEMMA WorkCalm ==
    ASSUME TypeByAttempt, CalmInv, NEW x \in Attempts, Work(x), causes' \cap Cut = {}
    PROVE  /\ \A y, z \in Running' : y = z
           /\ (Rewriting' = {} => Readable') /\ (Rewriting' # {} => file' = Empty)
<1>0. exec \in [Attempts -> ExecRecord]
  BY DEF TypeByAttempt
<1>1. causes' = causes /\ causes \cap Cut = {} /\ x \in Running
  <2>1. causes' = causes \/ causes' = causes \cup {"cut short"}
    BY WorkMoves
  <2>2. causes' = causes
    BY <2>1 DEF Cut
  <2> QED BY <2>2, WorkMoves DEF Running
<1>2. Running = {x}
  BY <1>1 DEF CalmInv
<1>3. \A y \in Attempts : y # x => exec'[y] = exec[y]
  BY <1>0, WorkMoves
<1>4. Running' \subseteq {x}
  BY <1>2, <1>3 DEF Running
<1>5. Rewriting \subseteq {x} /\ Rewriting' \subseteq {x}
  BY <1>2, <1>4 DEF Running, Rewriting
<1>6. CASE exec[x].step # "write" /\ exec'[x].step # "write" /\ file' = file
  <2>1. Rewriting = {} /\ Rewriting' = {}
    BY <1>5, <1>6 DEF Rewriting
  <2> QED BY <1>1, <1>4, <1>6, <2>1 DEF CalmInv, Readable
<1>7. CASE ReadWeights(x) \/ RecordEvent(x)
  <2>1. exec[x].step # "write" /\ exec'[x].step # "write" /\ file' = file
    BY <1>0, <1>7, IdleOK DEF ReadWeights, RecordEvent, Stop, ExecRecord
  <2> QED BY <1>6, <2>1
<1>8. CASE Truncate(x)
  <2>1. file' = Empty /\ x \in Rewriting'
    BY <1>0, <1>8 DEF Truncate, Rewriting, ExecRecord
  <2> QED BY <1>4, <2>1
<1>9. CASE WriteWeights(x)
  <2>1. x \in Rewriting
    BY <1>9 DEF WriteWeights, Rewriting
  <2>2. file = Empty
    BY <1>1, <2>1 DEF CalmInv
  <2>3. file' = exec[x].weights
    BY <1>9, <2>2 DEF WriteWeights, Filled
  <2>4. file' \in Learned
    BY <1>0, <2>3 DEF ExecRecord
  <2>5. Rewriting' = {}
    BY <1>0, <1>5, <1>9, IdleOK DEF WriteWeights, Stop, Rewriting
  <2> QED BY <1>4, <2>4, <2>5 DEF Readable
<1>10. CASE Fail(x)
  <2>1. exec[x].step # "write" /\ exec'[x] = Idle
    BY <1>0, <1>1, <1>10 DEF Fail, Stop, Cut
  <2>2. file' = file
    BY <1>10, <2>1 DEF Fail
  <2> QED BY <1>6, <2>1, <2>2, IdleOK
<1> QED BY <1>7, <1>8, <1>9, <1>10 DEF Work

LEMMA NextCalm == TypeOK /\ CalmInv /\ [Next]_vars => CalmInv'
<1> SUFFICES ASSUME TypeByAttempt, CalmInv, [Next]_vars PROVE CalmInv'
  BY TypeOKByAttempt
<1>0. exec \in [Attempts -> ExecRecord]
  BY DEF TypeByAttempt
<1>1. ASSUME NEW x \in Attempts, Work(x) PROVE CalmInv'
  <2>1. plan' = plan /\ (causes' = {} => causes = {})
    BY <1>1, WorkMoves
  <2> QED BY <1>1, <2>1, WorkCalm DEF CalmInv
<1>2. ASSUME NEW j \in Jobs, Begin(j) PROVE CalmInv'
  <2> DEFINE x == <<j, job[j].tries + 1>>
             e == [Idle EXCEPT !.step = "read"]
  <2>1. UNCHANGED <<file, plan>> /\ exec' = [exec EXCEPT ![x] = e]
        /\ causes \subseteq causes' /\ ("overlap" \notin causes' => Running = {})
    BY <1>2 DEF Begin
  <2>2. e.step = "read"
    BY DEF Idle
  <2> HIDE DEF x, e
  <2>3. Running = {} => Running' \subseteq {x} /\ Rewriting' = {} /\ Rewriting = {}
    BY <1>0, <2>1, <2>2 DEF Running, Rewriting
  <2> QED BY <2>1, <2>3 DEF CalmInv, Readable, Cut
<1>3. ASSUME NEW j \in Jobs, TimeOut(j) PROVE CalmInv'
  BY <1>3 DEF TimeOut, CalmInv, Running, Rewriting, Readable
<1>4. CASE Crash
  <2>1. UNCHANGED <<file, plan>> /\ causes \subseteq causes'
        /\ ("cut short" \notin causes' => Rewriting = {})
    BY <1>4 DEF Crash
  <2>2. Running' = {} /\ Rewriting' = {}
    BY <1>4, IdleOK DEF Crash, Running, Rewriting
  <2> QED BY <2>1, <2>2 DEF CalmInv, Readable, Cut
<1>5. CASE RankSection
  <2>1. UNCHANGED <<file, exec>> /\ causes \subseteq causes'
        /\ (causes' = {} => causes = {} /\ Rewriting = {})
    BY <1>5 DEF RankSection
  <2>2. causes' = {} => ArmUsed = Assigned
    BY <2>1, ConstantsOK DEF CalmInv, ArmUsed, Arms
  <2>3. plan' = Append(plan, ArmUsed) \/ plan' = <<ArmUsed>>
    BY <1>5 DEF RankSection
  <2>4. ASSUME causes' = {} PROVE \A i \in DOMAIN plan' : plan'[i] = Assigned
    <3>1. plan \in Seq(Arms) /\ \A i \in DOMAIN plan : plan[i] = Assigned
      BY <2>1, <2>4 DEF TypeByAttempt, CalmInv
    <3>2. Assigned \in Arms /\ ArmUsed = Assigned
      BY <2>2, <2>4, ConstantsOK
    <3> QED BY <2>3, <3>1, <3>2
  <2>5. causes' \cap Cut = {} => causes \cap Cut = {}
    BY <2>1
  <2> QED BY <2>1, <2>4, <2>5 DEF CalmInv, Running, Rewriting, Readable
<1>6. CASE UNCHANGED vars
  BY <1>6 DEF vars, CalmInv, Running, Rewriting, Readable
<1> QED BY <1>1, <1>2, <1>3, <1>4, <1>5, <1>6 DEF Next

LEMMA InitCalm == Init => CalmInv
BY NoWeightsOK, IdleOK DEF Init, CalmInv, Running, Rewriting, Readable

\* For any jobs, attempts and sections: a plan of a traveler is ranked by another arm than
\* the assigned one only after something overlapped, was cut short in a rewrite or met one.
THEOREM ArmKept == Spec => []FallbackExplained
<1>1. CalmInv => FallbackExplained
  BY DEF CalmInv, FallbackExplained
<1> QED BY <1>1, InitCalm, NextCalm, FilesTyped, PTL DEF Spec
-----------------------------------------------------------------------------
(* The log, with any overlap: nobody holds weights that learned more than  *)
(* it holds.                                                               *)

Within(w, l) == \A s \in Signals : w[s] <= l[s]

LoggedInv ==
    /\ Readable => Within(file, log)
    /\ \A x \in Running : Within(exec[x].weights, log) \/ exec[x].step = "read"

LEMMA WithinMore ==
    ASSUME NEW w \in Learned, NEW l \in Learned, NEW s \in Signals, Within(w, l)
    PROVE  Within(w, Updated(l, s)) /\ Within(Updated(w, s), Updated(l, s))
BY DEF Within, Learned, Updated

LEMMA NextLogged == TypeOK /\ LoggedInv /\ [Next]_vars => LoggedInv'
<1> SUFFICES ASSUME TypeByAttempt, LoggedInv, [Next]_vars PROVE LoggedInv'
  BY TypeOKByAttempt
<1>0. exec \in [Attempts -> ExecRecord] /\ log \in Learned
  BY DEF TypeByAttempt
<1>1. ASSUME NEW x \in Attempts, ReadWeights(x) PROVE LoggedInv'
  <2>1. \A y \in Attempts : y # x => exec'[y] = exec[y]
    BY <1>0, <1>1 DEF ReadWeights, Stop
  <2>2. exec'[x] = Idle \/ (Readable /\ exec'[x].weights = file)
    BY <1>0, <1>1 DEF ReadWeights, Stop, ExecRecord
  <2>3. UNCHANGED <<file, log>>
    BY <1>1 DEF ReadWeights
  <2> QED BY <2>1, <2>2, <2>3, IdleOK DEF LoggedInv, Running, Readable
<1>2. ASSUME NEW x \in Attempts, RecordEvent(x) PROVE LoggedInv'
  <2> DEFINE signal == Carried[x[1]][exec[x].next]
  <2>1. signal \in Signals
    <3>1. x[1] \in Jobs /\ exec[x].next \in 1..Len(Carried[x[1]])
      BY DEF TypeByAttempt, ExecOK, Attempts
    <3> QED BY <3>1, CarriedOK
  <2>2. log' = Updated(log, signal) /\ UNCHANGED file
    BY <1>2 DEF RecordEvent, Updated
  <2>3. exec'[x].weights = Updated(exec[x].weights, signal)
    BY <1>0, <1>2 DEF RecordEvent
  <2>4. \A y \in Attempts : y # x => exec'[y] = exec[y]
    BY <1>0, <1>2 DEF RecordEvent
  <2>5. x \in Running /\ exec[x].step # "read"
    BY <1>2 DEF RecordEvent, Running
  <2> HIDE DEF signal
  <2>6. Readable' => Within(file', log')
    BY <1>0, <2>1, <2>2, WithinMore DEF LoggedInv, Readable
  <2>7. Within(exec'[x].weights, log')
    BY <1>0, <2>1, <2>2, <2>3, <2>5, WithinMore DEF LoggedInv, ExecRecord
  <2>8. ASSUME NEW y \in Running', y # x
        PROVE  Within(exec'[y].weights, log') \/ exec'[y].step = "read"
    <3>1. y \in Running /\ exec'[y] = exec[y] /\ exec[y].weights \in Learned
      BY <1>0, <2>4, <2>8 DEF Running, ExecRecord
    <3> QED BY <1>0, <2>1, <2>2, <3>1, WithinMore DEF LoggedInv
  <2> QED BY <2>6, <2>7, <2>8 DEF LoggedInv
<1>3. ASSUME NEW x \in Attempts, Truncate(x) PROVE LoggedInv'
  <2>1. file' \notin Learned /\ log' = log
    BY <1>3, UnreadableOK DEF Truncate
  <2>2. \A y \in Attempts : exec'[y].weights = exec[y].weights
                           /\ (exec'[y].step = "idle" <=> exec[y].step = "idle")
                           /\ (exec[y].step = "read" => exec'[y].step = "read")
    BY <1>0, <1>3 DEF Truncate, ExecRecord
  <2> QED BY <2>1, <2>2 DEF LoggedInv, Readable, Running
<1>4. ASSUME NEW x \in Attempts, WriteWeights(x) PROVE LoggedInv'
  <2>1. x \in Running /\ Within(exec[x].weights, log)
    BY <1>4 DEF WriteWeights, Running, LoggedInv
  <2>2. file' \in {exec[x].weights, Torn} /\ log' = log
    BY <1>4 DEF WriteWeights, Filled
  <2>3. \A y \in Attempts : exec'[y] = IF y = x THEN Idle ELSE exec[y]
    BY <1>0, <1>4 DEF WriteWeights, Stop
  <2> QED BY <2>1, <2>2, <2>3, IdleOK, UnreadableOK DEF LoggedInv, Readable, Running
<1>8. ASSUME NEW x \in Attempts, Fail(x) PROVE LoggedInv'
  <2>1. file' \in {file, Torn} /\ log' = log
    BY <1>8 DEF Fail
  <2>2. \A y \in Attempts : exec'[y] = IF y = x THEN Idle ELSE exec[y]
    BY <1>0, <1>8 DEF Fail, Stop
  <2> QED BY <2>1, <2>2, IdleOK, UnreadableOK DEF LoggedInv, Readable, Running
<1>5. ASSUME NEW j \in Jobs, Begin(j) PROVE LoggedInv'
  <2>1. \A y \in Attempts : exec'[y] = exec[y] \/ exec'[y].step = "read"
    BY <1>0, <1>5 DEF Begin, Idle
  <2> QED BY <1>5, <2>1 DEF Begin, LoggedInv, Readable, Running
<1>6. CASE Crash
  BY <1>6, IdleOK DEF Crash, LoggedInv, Readable, Running
<1>7. CASE RankSection \/ (\E j \in Jobs : TimeOut(j)) \/ UNCHANGED vars
  BY <1>7 DEF RankSection, TimeOut, vars, LoggedInv, Readable, Running
<1> QED BY <1>1, <1>2, <1>3, <1>4, <1>5, <1>6, <1>7, <1>8 DEF Next, Work

\* A part of LearningExplained, for any jobs and with every overlap, late attempt
\* and crash: the weights never rest on feedback that the event log does not hold.
THEOREM LearnedIsLogged == Spec => [](Readable => \A s \in Signals : file[s] <= log[s])
<1>1. Init => LoggedInv
  BY IdleOK DEF Init, LoggedInv, Readable, Running, Within, NoWeights
<1>2. LoggedInv => (Readable => \A s \in Signals : file[s] <= log[s])
  BY DEF LoggedInv, Within
<1> QED BY <1>1, <1>2, NextLogged, FilesTyped, PTL DEF Spec
-----------------------------------------------------------------------------
(* The counts.  A job's signals are those it carries from its first event  *)
(* on; each event recorded is one fewer that is left.                      *)

\* How often job j carries signal s from its n-th event on.
Rest(j, n, s) == Cardinality({i \in DOMAIN Carried[j] : n <= i /\ Carried[j][i] = s})

\* What attempt x may still record of a signal.
Left(x, s) == IF exec[x].step \in {"read", "record"} THEN Rest(x[1], exec[x].next, s) ELSE 0

AllLeft(s) == SumFunction([x \in Attempts |-> Left(x, s)])

LEMMA FiniteRange == \A n \in Nat : IsFiniteSet(1..n)
<1> TAKE n \in Nat
<1>1. 1 \in Int /\ n \in Int
  OBVIOUS
<1> QED BY <1>1, FS_Interval

LEMMA RestType ==
    ASSUME NEW j \in Jobs, NEW n, NEW s
    PROVE  Rest(j, n, s) \in Nat /\ Occurrences(j, s) \in Nat
<1>1. DOMAIN Carried[j] = 1..Len(Carried[j]) /\ Len(Carried[j]) \in Nat
  BY ConstantsOK, LenProperties
<1>2. IsFiniteSet(DOMAIN Carried[j])
  <2>1. IsFiniteSet(1..Len(Carried[j]))
    BY <1>1, FiniteRange, Zenon
  <2> QED BY <1>1, <2>1
<1>3. /\ IsFiniteSet({i \in DOMAIN Carried[j] : n <= i /\ Carried[j][i] = s})
      /\ IsFiniteSet({i \in DOMAIN Carried[j] : Carried[j][i] = s})
  BY <1>2, FS_Subset
<1> QED BY <1>3, FS_CardinalityType DEF Rest, Occurrences

LEMMA RestMoves ==
    ASSUME NEW j \in Jobs, NEW s
    PROVE  /\ Rest(j, 1, s) = Occurrences(j, s)
           /\ Rest(j, Len(Carried[j]) + 1, s) = 0
           /\ \A n \in 1..Len(Carried[j]) :
                 Rest(j, n, s) = Rest(j, n + 1, s) + (IF Carried[j][n] = s THEN 1 ELSE 0)
<1> DEFINE from(n) == {i \in DOMAIN Carried[j] : n <= i /\ Carried[j][i] = s}
<1>1. DOMAIN Carried[j] = 1..Len(Carried[j]) /\ Len(Carried[j]) \in Nat
  BY ConstantsOK, LenProperties
<1>2. Rest(j, 1, s) = Occurrences(j, s)
  <2>1. from(1) = {i \in DOMAIN Carried[j] : Carried[j][i] = s}
    BY <1>1
  <2> QED BY <2>1 DEF Rest, Occurrences
<1>3. Rest(j, Len(Carried[j]) + 1, s) = 0
  <2>1. from(Len(Carried[j]) + 1) = {}
    BY <1>1
  <2> QED BY <2>1, FS_EmptySet DEF Rest
<1>4. ASSUME NEW n \in 1..Len(Carried[j])
      PROVE  Rest(j, n, s) = Rest(j, n + 1, s) + (IF Carried[j][n] = s THEN 1 ELSE 0)
  <2> DEFINE after == from(n + 1)
  <2>1. IsFiniteSet(after) /\ n \notin after
    <3>1. IsFiniteSet(1..Len(Carried[j]))
      BY <1>1, FiniteRange, Zenon
    <3> QED BY <1>1, <3>1, FS_Subset
  <2>2. from(n) = IF Carried[j][n] = s THEN after \cup {n} ELSE after
    BY <1>1
  <2> HIDE DEF after
  <2>3. Cardinality(after \cup {n}) = Cardinality(after) + 1 /\ Cardinality(after) \in Nat
    BY <2>1, FS_AddElement, FS_CardinalityType
  <2>4. Rest(j, n, s) = Cardinality(from(n)) /\ Rest(j, n + 1, s) = Cardinality(after)
    BY DEF Rest, after
  <2> HIDE DEF from
  <2>5. CASE Carried[j][n] = s
    BY <2>2, <2>3, <2>4, <2>5
  <2>6. CASE Carried[j][n] # s
    BY <2>2, <2>3, <2>4, <2>6
  <2> QED BY <2>5, <2>6
<1> QED BY <1>2, <1>3, <1>4

LEMMA LeftType ==
    ASSUME NEW x \in Attempts, NEW s
    PROVE  Left(x, s) \in Nat /\ Left(x, s)' \in Nat
<1>1. x[1] \in Jobs
  BY DEF Attempts
<1> QED BY <1>1, RestType DEF Left

LEMMA AttemptsFinite == IsFiniteSet(Attempts)
<1>1. IsFiniteSet(1..MaxAttempts) /\ IsFiniteSet(Jobs)
  BY ConstantsOK, FS_Interval
<1> QED BY <1>1, FS_Product DEF Attempts

\* What is left is counted, one attempt at a time.
LEMMA AllLeftMoves ==
    ASSUME NEW s
    PROVE  /\ AllLeft(s) \in Nat /\ AllLeft(s)' \in Nat
           /\ (\A x \in Attempts : Left(x, s)' <= Left(x, s)) => AllLeft(s)' <= AllLeft(s)
           /\ \A x \in Attempts :
                 (\A y \in Attempts \ {x} : Left(y, s)' = Left(y, s))
                    => AllLeft(s)' + Left(x, s) = AllLeft(s) + Left(x, s)'
<1> DEFINE f == [x \in Attempts |-> Left(x, s)]
           g == [x \in Attempts |-> Left(x, s)']
<1>1. f \in [Attempts -> Nat] /\ g \in [Attempts -> Nat]
  BY LeftType
<1>2. AllLeft(s) = SumFunction(f) /\ AllLeft(s)' = SumFunction(g)
  BY DEF AllLeft
<1>3. \A x \in Attempts : f[x] = Left(x, s) /\ g[x] = Left(x, s)'
  OBVIOUS
<1> HIDE DEF f, g
<1>4. SumFunction(f) \in Nat /\ SumFunction(g) \in Nat
  <2>1. SumFunction(f) \in Nat
    BY <1>1, AttemptsFinite, SumType, Zenon
  <2>2. SumFunction(g) \in Nat
    BY <1>1, AttemptsFinite, SumType, Zenon
  <2> QED BY <2>1, <2>2
<1>5. ASSUME \A x \in Attempts : g[x] <= f[x] PROVE SumFunction(g) <= SumFunction(f)
  BY <1>1, <1>5, AttemptsFinite, SumMonotone, Zenon
<1>6. ASSUME NEW x \in Attempts, \A y \in Attempts \ {x} : g[y] = f[y]
      PROVE  SumFunction(g) + f[x] = SumFunction(f) + g[x]
  BY <1>1, <1>6, AttemptsFinite, SumChanges, Zenon
<1> QED BY <1>2, <1>3, <1>4, <1>5, <1>6

LEMMA AttemptedType ==
    ASSUME job \in [Jobs -> JobRecord], NEW s PROVE Attempted(s) \in Nat
<1> DEFINE f == [j \in Jobs |-> job[j].tries * Occurrences(j, s)]
<1>1. ASSUME NEW j \in Jobs PROVE job[j].tries * Occurrences(j, s) \in Nat
  <2>1. Occurrences(j, s) \in Nat
    BY RestType
  <2>2. job[j].tries \in Nat
    BY ConstantsOK DEF JobRecord
  <2>3. \A m, n \in Nat : m * n \in Nat
    OBVIOUS
  <2> QED BY <2>1, <2>2, <2>3
<1>2. f \in [Jobs -> Nat] /\ IsFiniteSet(Jobs)
  BY <1>1, ConstantsOK
<1> HIDE DEF f
<1>3. SumFunction(f) \in Nat
  BY <1>2, SumType, Zenon
<1> QED BY <1>3 DEF Attempted, f

LEMMA AttemptedMoves ==
    ASSUME job \in [Jobs -> JobRecord], job' \in [Jobs -> JobRecord], NEW s
    PROVE  /\ Attempted(s) \in Nat /\ Attempted(s)' \in Nat
           /\ (\A j \in Jobs : job'[j].tries = job[j].tries) => Attempted(s)' = Attempted(s)
           /\ \A j \in Jobs :
                 /\ \A k \in Jobs \ {j} : job'[k].tries = job[k].tries
                 /\ job'[j].tries = job[j].tries + 1
                 => Attempted(s)' = Attempted(s) + Occurrences(j, s)
<1> DEFINE f == [j \in Jobs |-> job[j].tries * Occurrences(j, s)]
           g == [j \in Jobs |-> job'[j].tries * Occurrences(j, s)]
<1>0. ASSUME NEW j \in Jobs
      PROVE  job[j].tries \in Nat /\ job'[j].tries \in Nat /\ Occurrences(j, s) \in Nat
  <2>1. Occurrences(j, s) \in Nat
    BY RestType
  <2>2. job[j] \in JobRecord /\ job'[j] \in JobRecord /\ MaxAttempts \in Nat
    BY ConstantsOK
  <2> QED BY <2>1, <2>2 DEF JobRecord
<1>1. f \in [Jobs -> Nat] /\ g \in [Jobs -> Nat]
  <2>1. \A m, n \in Nat : m * n \in Nat
    OBVIOUS
  <2> QED BY <1>0, <2>1
<1>2. Attempted(s) = SumFunction(f) /\ Attempted(s)' = SumFunction(g)
  BY DEF Attempted, Occurrences
<1>3. \A j \in Jobs : /\ f[j] = job[j].tries * Occurrences(j, s)
                      /\ g[j] = job'[j].tries * Occurrences(j, s)
  OBVIOUS
<1>4. (\A j \in Jobs : job'[j].tries = job[j].tries) => f = g
  OBVIOUS
<1> HIDE DEF f, g
<1>5. SumFunction(f) \in Nat /\ SumFunction(g) \in Nat
  <2>1. SumFunction(f) \in Nat
    BY <1>1, ConstantsOK, SumType, Zenon
  <2>2. SumFunction(g) \in Nat
    BY <1>1, ConstantsOK, SumType, Zenon
  <2> QED BY <2>1, <2>2
<1>6. ASSUME NEW j \in Jobs, \A k \in Jobs \ {j} : job'[k].tries = job[k].tries,
             job'[j].tries = job[j].tries + 1
      PROVE  SumFunction(g) = SumFunction(f) + Occurrences(j, s)
  <2>1. \A k \in Jobs \ {j} : g[k] = f[k]
    BY <1>3, <1>6
  <2>2. IsFiniteSet(Jobs)
    BY ConstantsOK
  <2>3. SumFunction(g) + f[j] = SumFunction(f) + g[j]
    BY <1>1, <2>1, <2>2, SumChanges, Zenon
  <2>4. g[j] = f[j] + Occurrences(j, s)
    <3>1. \A t, o \in Nat : (t + 1) * o = t * o + o
      OBVIOUS
    <3>2. job[j].tries \in Nat /\ Occurrences(j, s) \in Nat
      BY <1>0
    <3>3. (job[j].tries + 1) * Occurrences(j, s)
             = job[j].tries * Occurrences(j, s) + Occurrences(j, s)
      BY <3>1, <3>2
    <3> QED BY <1>3, <1>6, <3>3
  <2>5. f[j] \in Nat /\ Occurrences(j, s) \in Nat
    BY <1>0, <1>1
  <2> QED BY <1>5, <2>3, <2>4, <2>5
<1> QED BY <1>2, <1>4, <1>5, <1>6

LEMMA OwedMoves ==
    ASSUME job \in [Jobs -> JobRecord], job' \in [Jobs -> JobRecord], NEW s
    PROVE  /\ Owed(s) \in Nat /\ Owed(s)' \in Nat
           /\ (\A j \in Jobs : job'[j].status = "succeeded" => job[j].status = "succeeded")
                => Owed(s)' <= Owed(s)
           /\ \A j \in Jobs : (\A k \in Jobs \ {j} : job'[k] = job[k])
                => Owed(s)' <= Owed(s) + Occurrences(j, s)
<1> DEFINE f == [j \in Jobs |-> IF job[j].status = "succeeded" THEN Occurrences(j, s) ELSE 0]
           g == [j \in Jobs |-> IF job'[j].status = "succeeded" THEN Occurrences(j, s) ELSE 0]
<1>0. \A j \in Jobs : Occurrences(j, s) \in Nat
  BY RestType
<1>1. f \in [Jobs -> Nat] /\ g \in [Jobs -> Nat]
  BY <1>0
<1>2. Owed(s) = SumFunction(f) /\ Owed(s)' = SumFunction(g)
  BY DEF Owed, Occurrences
<1>3. \A j \in Jobs :
         /\ f[j] = IF job[j].status = "succeeded" THEN Occurrences(j, s) ELSE 0
         /\ g[j] = IF job'[j].status = "succeeded" THEN Occurrences(j, s) ELSE 0
  OBVIOUS
<1> HIDE DEF f, g
<1>4. IsFiniteSet(Jobs)
  BY ConstantsOK
<1>5. SumFunction(f) \in Nat /\ SumFunction(g) \in Nat
  <2>1. SumFunction(f) \in Nat
    BY <1>1, <1>4, SumType, Zenon
  <2>2. SumFunction(g) \in Nat
    BY <1>1, <1>4, SumType, Zenon
  <2> QED BY <2>1, <2>2
<1>6. ASSUME \A j \in Jobs : job'[j].status = "succeeded" => job[j].status = "succeeded"
      PROVE  SumFunction(g) <= SumFunction(f)
  <2>1. \A j \in Jobs : g[j] <= f[j]
    BY <1>0, <1>3, <1>6
  <2> QED BY <1>1, <1>4, <2>1, SumMonotone, Zenon
<1>7. ASSUME NEW j \in Jobs, \A k \in Jobs \ {j} : job'[k] = job[k]
      PROVE  SumFunction(g) <= SumFunction(f) + Occurrences(j, s)
  <2>1. \A k \in Jobs \ {j} : g[k] = f[k]
    BY <1>3, <1>7
  <2>2. SumFunction(g) + f[j] = SumFunction(f) + g[j]
    BY <1>1, <1>4, <2>1, SumChanges, Zenon
  <2>3. f[j] \in Nat /\ g[j] \in Nat /\ g[j] <= Occurrences(j, s) /\ Occurrences(j, s) \in Nat
    BY <1>0, <1>1, <1>3
  <2> QED BY <1>5, <2>2, <2>3
<1> QED BY <1>2, <1>5, <1>6, <1>7

\* What one event, and what a first one, takes from what is left.
LEMMA RecordLeft ==
    ASSUME TypeByAttempt, NEW x \in Attempts, RecordEvent(x), NEW s
    PROVE  /\ Left(x, s) = Left(x, s)' + (IF Carried[x[1]][exec[x].next] = s THEN 1 ELSE 0)
           /\ \A y \in Attempts \ {x} : Left(y, s)' = Left(y, s)
<1> DEFINE j == x[1]
           n == exec[x].next
           last == n = Len(Carried[j])
<1>1. /\ j \in Jobs /\ n \in 1..Len(Carried[j]) /\ Len(Carried[j]) \in Nat
      /\ exec \in [Attempts -> ExecRecord]
  BY CarriedOK DEF TypeByAttempt, ExecOK, Attempts
<1>2. /\ exec[x].step = "record"
      /\ exec'[x].step = IF last THEN "truncate" ELSE "record"
      /\ exec'[x].next = IF last THEN n ELSE n + 1
  BY <1>1 DEF RecordEvent
<1>3. \A y \in Attempts \ {x} : exec'[y] = exec[y]
  BY <1>1 DEF RecordEvent
<1>4. /\ Left(x, s) = Rest(j, n, s)
      /\ Left(x, s)' = IF last THEN 0 ELSE Rest(j, n + 1, s)
  BY <1>2 DEF Left
<1>5. /\ Rest(j, n, s) = Rest(j, n + 1, s) + (IF Carried[j][n] = s THEN 1 ELSE 0)
      /\ last => Rest(j, n + 1, s) = 0
  <2>1. \A m \in 1..Len(Carried[j]) :
           Rest(j, m, s) = Rest(j, m + 1, s) + (IF Carried[j][m] = s THEN 1 ELSE 0)
    BY <1>1, RestMoves
  <2>2. Rest(j, Len(Carried[j]) + 1, s) = 0
    BY <1>1, RestMoves
  <2> QED BY <1>1, <2>1, <2>2
<1>6. Rest(j, n, s) \in Nat
  BY <1>1, RestType
<1>7. Left(x, s) = Left(x, s)' + (IF Carried[j][n] = s THEN 1 ELSE 0)
  BY <1>4, <1>5, LeftType
<1> QED BY <1>3, <1>7 DEF Left

-----------------------------------------------------------------------------
(* The log is paid for by attempts begun.                                  *)

CountInv ==
    /\ \A x \in Running : x[2] <= job[x[1]].tries
    /\ \A x \in Attempts : exec[x].step = "read" => exec[x].next = 1
    /\ \A s \in Signals : log[s] + AllLeft(s) <= Attempted(s)

\* Nobody begins, reads anew or records.
Idler ==
    /\ \A j \in Jobs : job'[j].tries = job[j].tries
    /\ \A x \in Attempts :
          \/ exec'[x] = Idle
          \/ exec'[x].next = exec[x].next /\ exec'[x].step # "idle" /\ exec[x].step # "idle"
             /\ (exec'[x].step \in {"read", "record"} => exec[x].step \in {"read", "record"})
             /\ (exec'[x].step = "read" => exec[x].step = "read")
          \/ exec'[x] = exec[x]
    /\ log' = log

LEMMA FailedKeeps ==
    ASSUME job \in [Jobs -> JobRecord], NEW i \in Jobs, NEW k \in Jobs
    PROVE  /\ Failed(i)[k].tries = job[k].tries
           /\ Failed(i)[k].status = "succeeded" => job[k].status = "succeeded"
           /\ k # i => Failed(i)[k] = job[k]
BY DEF Failed, JobRecord

LEMMA IdlerCounts ==
    ASSUME TypeByAttempt, TypeByAttempt', CountInv, Idler PROVE CountInv'
<1>1. \A x \in Attempts, s \in Signals : Left(x, s)' <= Left(x, s)
  <2> SUFFICES ASSUME NEW x \in Attempts, NEW s \in Signals PROVE Left(x, s)' <= Left(x, s)
    OBVIOUS
  <2>1. Left(x, s) \in Nat /\ Left(x, s)' \in Nat
    BY LeftType
  <2>2. Left(x, s)' = 0 \/ Left(x, s)' = Left(x, s)
    BY IdleOK DEF Idler, Left
  <2> QED BY <2>1, <2>2
<1>2. ASSUME NEW s \in Signals PROVE log'[s] + AllLeft(s)' <= Attempted(s)'
  <2>1. AllLeft(s)' <= AllLeft(s) /\ AllLeft(s) \in Nat /\ AllLeft(s)' \in Nat
    BY <1>1, AllLeftMoves
  <2>2. Attempted(s)' = Attempted(s) /\ Attempted(s) \in Nat
    BY AttemptedMoves DEF Idler, TypeByAttempt
  <2>3. log'[s] = log[s] /\ log[s] \in Nat
    BY DEF Idler, TypeByAttempt, Learned
  <2>4. log[s] + AllLeft(s) <= Attempted(s)
    BY DEF CountInv
  <2> QED BY <2>1, <2>2, <2>3, <2>4
<1>3. \A x \in Running' : x[2] <= job'[x[1]].tries
  <2> SUFFICES ASSUME NEW x \in Running' PROVE x[2] <= job'[x[1]].tries
    OBVIOUS
  <2>1. x \in Running /\ x[1] \in Jobs
    BY IdleOK DEF Idler, Running, Attempts
  <2> QED BY <2>1 DEF Idler, CountInv
<1>4. \A x \in Attempts : exec'[x].step = "read" => exec'[x].next = 1
  BY IdleOK DEF Idler, CountInv
<1> QED BY <1>2, <1>3, <1>4 DEF CountInv

LEMMA WorkIdles ==
    ASSUME TypeByAttempt, NEW x \in Attempts,
           ReadWeights(x) \/ Truncate(x) \/ WriteWeights(x) \/ Fail(x)
    PROVE  Idler
<1>0. exec \in [Attempts -> ExecRecord] /\ x[1] \in Jobs
  BY DEF TypeByAttempt, Attempts
<1>1. \A j \in Jobs : job'[j].tries = job[j].tries
  <2>1. UNCHANGED job \/ job' = Failed(x[1]) \/ job' = [job EXCEPT ![x[1]].status = "succeeded"]
    BY DEF ReadWeights, Truncate, WriteWeights, Fail
  <2> QED BY <1>0, <2>1, FailedKeeps DEF TypeByAttempt, JobRecord
<1>2. log' = log
  BY DEF ReadWeights, Truncate, WriteWeights, Fail
<1>3. \A y \in Attempts : y # x => exec'[y] = exec[y]
  BY <1>0 DEF ReadWeights, Truncate, WriteWeights, Fail, Stop
<1>4. \/ exec'[x] = Idle
      \/ exec'[x].next = exec[x].next
         /\ \/ exec[x].step = "read" /\ exec'[x].step = "record"
            \/ exec[x].step = "truncate" /\ exec'[x].step = "write"
  BY <1>0 DEF ReadWeights, Truncate, WriteWeights, Fail, Stop, ExecRecord
<1> QED BY <1>1, <1>2, <1>3, <1>4 DEF Idler

LEMMA RecordCounts ==
    ASSUME TypeByAttempt, TypeByAttempt', CountInv, NEW x \in Attempts, RecordEvent(x)
    PROVE  CountInv'
<1> DEFINE signal == Carried[x[1]][exec[x].next]
<1>0. exec \in [Attempts -> ExecRecord] /\ job' = job /\ log' = Updated(log, signal)
  BY DEF TypeByAttempt, RecordEvent, Updated
<1>1. ASSUME NEW s \in Signals PROVE log'[s] + AllLeft(s)' <= Attempted(s)'
  <2> DEFINE d == IF signal = s THEN 1 ELSE 0
  <2>1. Left(x, s) = Left(x, s)' + d /\ Left(x, s)' \in Nat
        /\ \A y \in Attempts \ {x} : Left(y, s)' = Left(y, s)
    BY RecordLeft, LeftType
  <2>2. AllLeft(s)' + Left(x, s) = AllLeft(s) + Left(x, s)'
        /\ AllLeft(s) \in Nat /\ AllLeft(s)' \in Nat
    BY <2>1, AllLeftMoves
  <2>3. Attempted(s)' = Attempted(s) /\ Attempted(s) \in Nat
    BY <1>0, AttemptedMoves DEF TypeByAttempt
  <2>4. log'[s] = log[s] + d /\ log[s] \in Nat
    BY <1>0 DEF TypeByAttempt, Learned, Updated
  <2>5. log[s] + AllLeft(s) <= Attempted(s)
    BY DEF CountInv
  <2>6. d \in Nat
    OBVIOUS
  <2> HIDE DEF d
  <2> QED BY <2>1, <2>2, <2>3, <2>4, <2>5, <2>6
<1>2. exec[x].step = "record" /\ exec'[x].step \in {"record", "truncate"}
      /\ \A y \in Attempts \ {x} : exec'[y] = exec[y]
  BY <1>0 DEF RecordEvent
<1>3. \A y \in Running' : y[2] <= job'[y[1]].tries
  BY <1>0, <1>2 DEF CountInv, Running
<1>4. \A y \in Attempts : exec'[y].step = "read" => exec'[y].next = 1
  BY <1>2 DEF CountInv
<1> QED BY <1>1, <1>3, <1>4 DEF CountInv

LEMMA BeginCounts ==
    ASSUME TypeByAttempt, TypeByAttempt', CountInv, NEW j \in Jobs, Begin(j)
    PROVE  CountInv'
<1> DEFINE e == [Idle EXCEPT !.step = "read"]
<1>9. PICK x \in Attempts : x = <<j, job[j].tries + 1>>
  BY BeginType
<1>0. /\ exec \in [Attempts -> ExecRecord] /\ x \in Attempts /\ x[1] = j
      /\ x[2] = job[j].tries + 1 /\ job[j].tries \in Nat /\ log' = log
  <2>1. job[j] \in JobRecord /\ MaxAttempts \in Nat
    BY ConstantsOK DEF TypeByAttempt
  <2> QED BY <1>9, <2>1 DEF TypeByAttempt, Begin, JobRecord
<1>1. /\ \A k \in Jobs \ {j} : job'[k] = job[k]
      /\ job'[j].tries = job[j].tries + 1
  BY DEF Begin, TypeByAttempt
<1>2. exec' = [exec EXCEPT ![x] = e]
  BY <1>9 DEF Begin
<1>3. e.step = "read" /\ e.next = 1
  BY DEF Idle
<1> HIDE DEF e
<1>4. exec'[x] = e /\ \A y \in Attempts \ {x} : exec'[y] = exec[y]
  BY <1>0, <1>2
<1>5. exec[x].step = "idle"
  <2>1. ~(x[2] <= job[x[1]].tries)
    BY <1>0
  <2> QED BY <1>0, <2>1 DEF CountInv, Running
<1>6. ASSUME NEW s \in Signals PROVE log'[s] + AllLeft(s)' <= Attempted(s)'
  <2>1. Left(x, s) = 0 /\ Left(x, s)' = Occurrences(j, s)
    <3>1. Left(x, s)' = Rest(j, 1, s)
      BY <1>0, <1>3, <1>4 DEF Left
    <3> QED BY <1>5, <3>1, RestMoves DEF Left
  <2>2. \A y \in Attempts \ {x} : Left(y, s)' = Left(y, s)
    BY <1>4 DEF Left
  <2>3. AllLeft(s)' + Left(x, s) = AllLeft(s) + Left(x, s)'
        /\ AllLeft(s) \in Nat /\ AllLeft(s)' \in Nat
    BY <1>0, <2>2, AllLeftMoves
  <2>4. Attempted(s)' = Attempted(s) + Occurrences(j, s) /\ Attempted(s) \in Nat
    BY <1>1, AttemptedMoves DEF TypeByAttempt
  <2>5. log'[s] = log[s] /\ log[s] \in Nat
    BY <1>0 DEF TypeByAttempt, Learned
  <2>6. log[s] + AllLeft(s) <= Attempted(s)
    BY DEF CountInv
  <2>7. Occurrences(j, s) \in Nat
    BY RestType
  <2> QED BY <2>1, <2>3, <2>4, <2>5, <2>6, <2>7
<1>7. ASSUME NEW y \in Running' PROVE y[2] <= job'[y[1]].tries
  <2>1. CASE y = x
    BY <1>0, <1>1, <2>1
  <2>2. CASE y # x
    <3>1. y \in Running /\ y[1] \in Jobs /\ y[2] \in Nat
      BY <1>4, <2>2 DEF Running, Attempts
    <3>2. y[2] <= job[y[1]].tries
      BY <3>1 DEF CountInv
    <3>3. job'[y[1]].tries = job[y[1]].tries \/ (y[1] = j /\ job'[y[1]].tries = job[j].tries + 1)
      BY <1>1, <3>1
    <3> QED BY <1>0, <3>1, <3>2, <3>3
  <2> QED BY <2>1, <2>2
<1>8. \A y \in Attempts : exec'[y].step = "read" => exec'[y].next = 1
  BY <1>3, <1>4 DEF CountInv
<1> QED BY <1>6, <1>7, <1>8 DEF CountInv

LEMMA NextCount == TypeByAttempt /\ TypeByAttempt' /\ CountInv /\ [Next]_vars => CountInv'
<1> SUFFICES ASSUME TypeByAttempt, TypeByAttempt', CountInv, [Next]_vars PROVE CountInv'
  OBVIOUS
<1>1. CASE \E x \in Attempts : ReadWeights(x) \/ Truncate(x) \/ WriteWeights(x) \/ Fail(x)
  BY <1>1, WorkIdles, IdlerCounts
<1>2. CASE \E x \in Attempts : RecordEvent(x)
  BY <1>2, RecordCounts
<1>3. CASE \E j \in Jobs : Begin(j)
  BY <1>3, BeginCounts
<1>4. CASE (\E j \in Jobs : TimeOut(j)) \/ Crash \/ RankSection \/ UNCHANGED vars
  <2>1. \A j \in Jobs : job'[j].tries = job[j].tries
    <3>1. job' = job \/ \E i \in Jobs : job' = Failed(i)
      BY <1>4 DEF TimeOut, Crash, RankSection, vars
    <3> QED BY <3>1, FailedKeeps DEF TypeByAttempt
  <2>2. log' = log /\ (exec' = exec \/ \A x \in Attempts : exec'[x] = Idle)
    BY <1>4 DEF TimeOut, Crash, RankSection, vars
  <2>3. Idler
    BY <2>1, <2>2 DEF Idler
  <2> QED BY <2>3, IdlerCounts
<1> QED BY <1>1, <1>2, <1>3, <1>4 DEF Next, Work

-----------------------------------------------------------------------------
(* Feedback that was reported done.                                        *)

\* From its reading on, the only attempt of a traveler without overlaps holds what was
\* reported done, and its own signals but for those it has left.
Holds(x) ==
    \A s \in Signals : Owed(s) + Occurrences(x[1], s) <= exec[x].weights[s] + Left(x, s)

QuietInv ==
    "overlap" \notin causes =>
        /\ \A x, y \in Running : x = y
        /\ Readable => \A s \in Signals : Owed(s) <= file[s]
        /\ \A x \in Running : exec[x].step # "read" => Holds(x)

\* No attempt begins, and none has done anything but end.
LEMMA QuietStays ==
    ASSUME TypeByAttempt, TypeByAttempt', QuietInv, "overlap" \notin causes',
           causes \subseteq causes', file' = file,
           \A j \in Jobs : job'[j].status = "succeeded" => job[j].status = "succeeded",
           \A x \in Attempts : exec'[x] = exec[x] \/ exec'[x] = Idle
    PROVE  QuietInv'
<1>1. Running' \subseteq Running /\ \A x \in Running' : exec'[x] = exec[x]
  BY IdleOK DEF Running
<1>2. \A s \in Signals : Owed(s)' <= Owed(s) /\ Owed(s) \in Nat /\ Owed(s)' \in Nat
  BY OwedMoves DEF TypeByAttempt
<1>3. ASSUME Readable', NEW s \in Signals PROVE Owed(s)' <= file'[s]
  <2>1. Owed(s) <= file[s] /\ file[s] \in Nat
    BY <1>3 DEF QuietInv, Readable, Learned
  <2> QED BY <1>2, <2>1
<1>4. ASSUME NEW x \in Running', exec'[x].step # "read" PROVE Holds(x)'
  <2> SUFFICES ASSUME NEW s \in Signals
               PROVE  Owed(s)' + Occurrences(x[1], s) <= exec'[x].weights[s] + Left(x, s)'
    BY DEF Holds, Occurrences
  <2>1. exec'[x] = exec[x] /\ x \in Running /\ x \in Attempts /\ x[1] \in Jobs
    BY <1>1 DEF Running, Attempts
  <2>2. Left(x, s)' = Left(x, s) /\ Left(x, s) \in Nat
    BY <2>1, LeftType DEF Left
  <2>3. Owed(s) + Occurrences(x[1], s) <= exec[x].weights[s] + Left(x, s)
    BY <1>4, <2>1 DEF QuietInv, Holds
  <2>4. Occurrences(x[1], s) \in Nat /\ exec[x].weights[s] \in Nat
    BY <2>1, RestType DEF TypeByAttempt, ExecOK, ExecRecord, Learned
  <2> QED BY <1>2, <2>1, <2>2, <2>3, <2>4
<1> QED BY <1>1, <1>3, <1>4 DEF QuietInv

\* The only attempt reads, records, opens the file or fills it.
LEMMA WorkStaysQuiet ==
    ASSUME TypeByAttempt, TypeByAttempt', CountInv, QuietInv, "overlap" \notin causes,
           NEW x \in Attempts, Work(x)
    PROVE  QuietInv'
<1>0. /\ exec \in [Attempts -> ExecRecord] /\ x[1] \in Jobs
      /\ \A y \in Attempts \ {x} : exec'[y] = exec[y]
      /\ x \in Running
  BY WorkMoves DEF TypeByAttempt, Attempts, Running
<1>1. Running = {x} /\ Running' \subseteq {x}
  <2>1. Running = {x}
    BY <1>0 DEF QuietInv
  <2> QED BY <1>0, <2>1 DEF Running
<1>2. \A s \in Signals : /\ Owed(s) \in Nat /\ Owed(s)' \in Nat
                         /\ Left(x, s) \in Nat /\ Left(x, s)' \in Nat
                         /\ Occurrences(x[1], s) \in Nat /\ exec[x].weights[s] \in Nat
  <2>1. exec[x].weights \in Learned
    BY <1>0 DEF ExecRecord
  <2> QED BY <1>0, <2>1, OwedMoves, LeftType, RestType DEF TypeByAttempt, Learned
<1> SUFFICES /\ Readable' => \A s \in Signals : Owed(s)' <= file'[s]
             /\ x \in Running' /\ exec'[x].step # "read" => Holds(x)'
  BY <1>1 DEF QuietInv
<1>3. CASE ReadWeights(x)
  <2>1. file' = file /\ \A s \in Signals : Owed(s)' <= Owed(s)
    <3>1. \A j \in Jobs : job'[j].status = "succeeded" => job[j].status = "succeeded"
      BY <1>0, <1>3, FailedKeeps DEF ReadWeights, TypeByAttempt
    <3> QED BY <1>3, <3>1, OwedMoves DEF ReadWeights, TypeByAttempt
  <2>2. CASE Readable
    <3>1. /\ exec[x].step = "read" /\ exec[x].next = 1 /\ exec'[x].step = "record"
          /\ exec'[x].next = 1 /\ exec'[x].weights = file /\ file \in Learned
      <4>1. /\ exec[x].step = "read" /\ exec[x].next = 1 /\ file \in Learned
        BY <1>3, <2>2 DEF ReadWeights, CountInv, Readable
      <4>2. exec' = [exec EXCEPT ![x].step = "record", ![x].weights = file]
        BY <1>3, <2>2 DEF ReadWeights
      <4>3. exec'[x] = [exec[x] EXCEPT !.step = "record", !.weights = file]
        BY <1>0, <4>2
      <4> QED BY <1>0, <4>1, <4>3 DEF ExecRecord
    <3>2. \A s \in Signals : Left(x, s)' = Occurrences(x[1], s)
      <4>1. \A s \in Signals : Left(x, s)' = Rest(x[1], 1, s)
        BY <3>1 DEF Left
      <4> QED BY <1>0, <4>1, RestMoves
    <3>3. \A s \in Signals : Owed(s)' <= file[s] /\ file[s] \in Nat
      <4>1. \A s \in Signals : Owed(s) <= file[s] /\ file[s] \in Nat
        BY <2>2, <3>1 DEF QuietInv, Learned
      <4> QED BY <1>2, <2>1, <4>1
    <3>4. \A s \in Signals :
             Owed(s)' + Occurrences(x[1], s) <= exec'[x].weights[s] + Left(x, s)'
      BY <1>2, <3>1, <3>2, <3>3
    <3>5. Holds(x)'
      BY <3>4 DEF Holds, Occurrences
    <3> QED BY <2>1, <3>3, <3>5
  <2>3. CASE ~Readable
    <3>1. exec'[x] = Idle
      BY <1>0, <1>3, <2>3 DEF ReadWeights, Stop
    <3> QED BY <2>1, <2>3, <3>1, IdleOK DEF Readable, Running
  <2> QED BY <2>2, <2>3
<1>4. CASE RecordEvent(x)
  <2> DEFINE signal == Carried[x[1]][exec[x].next]
  <2>1. /\ exec[x].step = "record" /\ UNCHANGED <<file, job>>
        /\ exec'[x].weights = Updated(exec[x].weights, signal)
    BY <1>0, <1>4 DEF RecordEvent
  <2>2. \A s \in Signals : Owed(s)' = Owed(s)
    BY <2>1 DEF Owed, Occurrences
  <2>3. ASSUME NEW s \in Signals
        PROVE  Owed(s)' + Occurrences(x[1], s) <= exec'[x].weights[s] + Left(x, s)'
    <3> DEFINE d == IF signal = s THEN 1 ELSE 0
    <3>1. Left(x, s) = Left(x, s)' + d
      BY <1>4, RecordLeft
    <3>2. exec'[x].weights[s] = exec[x].weights[s] + d
      <4>1. exec[x].weights \in Learned
        BY <1>0 DEF ExecRecord
      <4> QED BY <1>2, <2>1, <4>1 DEF Updated, Learned
    <3>3. Owed(s) + Occurrences(x[1], s) <= exec[x].weights[s] + Left(x, s)
      BY <1>0, <2>1 DEF QuietInv, Holds
    <3>4. d \in Nat
      OBVIOUS
    <3> HIDE DEF d
    <3> QED BY <1>2, <2>2, <3>1, <3>2, <3>3, <3>4
  <2>4. Holds(x)'
    BY <2>3 DEF Holds, Occurrences
  <2>5. Readable' => \A s \in Signals : Owed(s)' <= file'[s]
    BY <2>1, <2>2 DEF QuietInv, Readable
  <2> QED BY <2>4, <2>5
<1>5. CASE Truncate(x)
  <2>1. /\ exec[x].step = "truncate" /\ exec'[x] = [exec[x] EXCEPT !.step = "write"]
        /\ job' = job /\ file' = Empty
    BY <1>0, <1>5 DEF Truncate
  <2>2. /\ exec'[x].weights = exec[x].weights /\ exec'[x].step = "write"
        /\ \A s \in Signals : Left(x, s)' = Left(x, s) /\ Owed(s)' = Owed(s)
    BY <1>0, <2>1 DEF ExecRecord, Left, Owed, Occurrences
  <2>3. \A s \in Signals : Owed(s) + Occurrences(x[1], s) <= exec[x].weights[s] + Left(x, s)
    BY <1>0, <2>1 DEF QuietInv, Holds
  <2>4. \A s \in Signals :
           Owed(s)' + Occurrences(x[1], s) <= exec'[x].weights[s] + Left(x, s)'
    BY <2>2, <2>3
  <2>5. Holds(x)'
    BY <2>4 DEF Holds, Occurrences
  <2> QED BY <2>1, <2>5, UnreadableOK DEF Readable
<1>6. CASE WriteWeights(x)
  <2>1. /\ exec[x].step = "write" /\ exec'[x] = Idle
        /\ file' \in {exec[x].weights, Torn}
        /\ \A j \in Jobs \ {x[1]} : job'[j] = job[j]
    BY <1>0, <1>6 DEF WriteWeights, Stop, Filled, TypeByAttempt
  <2>2. ASSUME NEW s \in Signals PROVE Owed(s)' <= exec[x].weights[s]
    <3>1. Owed(s) + Occurrences(x[1], s) <= exec[x].weights[s] + Left(x, s)
      BY <1>0, <2>1 DEF QuietInv, Holds
    <3>2. Left(x, s) = 0
      BY <2>1 DEF Left
    <3>3. Owed(s)' <= Owed(s) + Occurrences(x[1], s)
      BY <1>0, <2>1, OwedMoves DEF TypeByAttempt
    <3> QED BY <1>2, <3>1, <3>2, <3>3
  <2> QED BY <2>1, <2>2, IdleOK, UnreadableOK DEF Readable, Running
<1>7. CASE Fail(x)
  <2>1. file' \in {file, Torn} /\ exec'[x] = Idle
    BY <1>0, <1>7 DEF Fail, Stop
  <2>2. \A s \in Signals : Owed(s)' <= Owed(s)
    <3>1. \A j \in Jobs : job'[j].status = "succeeded" => job[j].status = "succeeded"
      BY <1>0, <1>7, FailedKeeps DEF Fail, TypeByAttempt
    <3> QED BY <3>1, OwedMoves DEF TypeByAttempt
  <2>3. ASSUME Readable', NEW s \in Signals PROVE Owed(s)' <= file'[s]
    <3>1. file' = file /\ Owed(s) <= file[s] /\ file[s] \in Nat
      BY <2>1, <2>3, UnreadableOK DEF QuietInv, Readable, Learned
    <3> QED BY <1>2, <2>2, <3>1
  <2> QED BY <2>1, <2>3, IdleOK DEF Running
<1> QED BY <1>3, <1>4, <1>5, <1>6, <1>7 DEF Work

LEMMA NextQuiet ==
    TypeByAttempt /\ TypeByAttempt' /\ CountInv /\ QuietInv /\ [Next]_vars => QuietInv'
<1> SUFFICES ASSUME TypeByAttempt, TypeByAttempt', CountInv, QuietInv, [Next]_vars,
                    "overlap" \notin causes'
             PROVE  QuietInv'
  BY DEF QuietInv
<1>0. exec \in [Attempts -> ExecRecord]
  BY DEF TypeByAttempt
<1>1. ASSUME NEW x \in Attempts, Work(x) PROVE QuietInv'
  <2>1. "overlap" \notin causes
    BY <1>1, WorkMoves
  <2> QED BY <1>1, <2>1, WorkStaysQuiet
<1>2. ASSUME NEW j \in Jobs, Begin(j) PROVE QuietInv'
  <2>1. PICK x \in Attempts : x = <<j, job[j].tries + 1>>
    BY <1>2, BeginType
  <2>2. /\ Running = {} /\ "overlap" \notin causes /\ file' = file
        /\ exec' = [exec EXCEPT ![x] = [Idle EXCEPT !.step = "read"]]
    BY <1>2, <2>1 DEF Begin
  <2>3. exec'[x].step = "read" /\ Running' \subseteq {x}
    BY <1>0, <2>1, <2>2 DEF Running, Idle
  <2>4. \A i \in Jobs : job'[i].status = "succeeded" => job[i].status = "succeeded"
    BY <1>2 DEF Begin, TypeByAttempt
  <2>5. \A s \in Signals : Owed(s)' <= Owed(s) /\ Owed(s) \in Nat /\ Owed(s)' \in Nat
    BY <2>4, OwedMoves DEF TypeByAttempt
  <2>6. Readable' => \A s \in Signals : Owed(s)' <= file'[s]
    <3>1. ASSUME Readable', NEW s \in Signals PROVE Owed(s)' <= file'[s]
      <4>1. Owed(s) <= file[s] /\ file[s] \in Nat
        BY <2>2, <3>1 DEF QuietInv, Readable, Learned
      <4> QED BY <2>2, <2>5, <4>1
    <3> QED BY <3>1
  <2> QED BY <2>3, <2>6 DEF QuietInv
<1>3. CASE (\E j \in Jobs : TimeOut(j)) \/ Crash \/ RankSection \/ UNCHANGED vars
  <2>1. \A j \in Jobs : job'[j].status = "succeeded" => job[j].status = "succeeded"
    BY <1>3, FailedKeeps DEF TimeOut, Crash, RankSection, vars, TypeByAttempt
  <2>2. file' = file /\ causes \subseteq causes'
        /\ \A x \in Attempts : exec'[x] = exec[x] \/ exec'[x] = Idle
    BY <1>3 DEF TimeOut, Crash, RankSection, vars
  <2> QED BY <2>1, <2>2, QuietStays
<1> QED BY <1>1, <1>2, <1>3 DEF Next

LEMMA InitCounts == Init => CountInv /\ QuietInv
<1> SUFFICES ASSUME Init PROVE CountInv /\ QuietInv
  OBVIOUS
<1>1. /\ Running = {} /\ \A x \in Attempts : exec[x].step = "idle"
      /\ file = NoWeights /\ log = NoWeights
      /\ job = [j \in Jobs |-> [status |-> "due", tries |-> 0]]
  BY IdleOK DEF Init, Running
<1>2. ASSUME NEW s \in Signals PROVE AllLeft(s) = 0 /\ Attempted(s) \in Nat /\ Owed(s) = 0
  <2>1. AllLeft(s) = 0
    <3> DEFINE f == [x \in Attempts |-> Left(x, s)]
    <3>1. \A x \in Attempts : Left(x, s) = 0
      BY <1>1 DEF Left
    <3>2. f \in [Attempts -> Nat] /\ \A x \in Attempts : f[x] = 0
      BY <3>1
    <3> HIDE DEF f
    <3>3. SumFunction(f) = 0
      BY <3>2, AttemptsFinite, SumOfZeros, Zenon
    <3> QED BY <3>3 DEF AllLeft, f
  <2>2. Owed(s) = 0
    <3> DEFINE f == [j \in Jobs |-> IF job[j].status = "succeeded"
                                    THEN Occurrences(j, s) ELSE 0]
    <3>1. f \in [Jobs -> Nat] /\ \A j \in Jobs : f[j] = 0
      BY <1>1
    <3>2. IsFiniteSet(Jobs)
      BY ConstantsOK
    <3> HIDE DEF f
    <3>3. SumFunction(f) = 0
      BY <3>1, <3>2, SumOfZeros, Zenon
    <3> QED BY <3>3 DEF Owed, f
  <2>3. Attempted(s) \in Nat
    <3>1. job \in [Jobs -> JobRecord]
      BY <1>1, ConstantsOK DEF JobRecord
    <3> QED BY <3>1, AttemptedType
  <2> QED BY <2>1, <2>2, <2>3
<1>3. CountInv
  BY <1>1, <1>2 DEF CountInv, NoWeights
<1>4. QuietInv
  BY <1>1, <1>2 DEF QuietInv, NoWeights
<1> QED BY <1>3, <1>4

\* For any jobs, signals, attempts, crashes, file errors and late answers: the log rests on
\* attempts begun and readable weights on logged feedback; what an activity reported done
\* is in readable weights as long as no two attempts overlapped; and the weights can be
\* read whenever none is being rewritten, unless attempts overlapped or a crash or an
\* error cut a rewrite short.
THEOREM LearningIsExplained == Spec => []LearningExplained
<1>1. TypeOK <=> TypeByAttempt
  BY TypeOKByAttempt
<1>2. TypeOK' <=> TypeByAttempt'
  BY DEF TypeOK, TypeByAttempt, ExecOK, JobRecord, ExecRecord, Causes
<1>3. Spec => [](CountInv /\ QuietInv)
  BY <1>1, <1>2, InitCounts, NextCount, NextQuiet, FilesTyped, PTL DEF Spec
<1>4. Spec => []CalmInv
  BY InitCalm, NextCalm, FilesTyped, PTL DEF Spec
<1>5. ASSUME TypeByAttempt, CountInv, NEW s \in Signals PROVE log[s] <= Attempted(s)
  <2>1. log[s] + AllLeft(s) <= Attempted(s)
    BY <1>5 DEF CountInv
  <2>2. log[s] \in Nat /\ AllLeft(s) \in Nat /\ Attempted(s) \in Nat
    <3>1. AllLeft(s) \in Nat
      BY <1>5, AllLeftMoves
    <3>2. Attempted(s) \in Nat
      BY <1>5, AttemptedType DEF TypeByAttempt
    <3> QED BY <1>5, <3>1, <3>2 DEF TypeByAttempt, Learned
  <2> QED BY <2>1, <2>2
<1>6. /\ TypeByAttempt /\ CountInv /\ QuietInv /\ CalmInv
      /\ (Readable => \A s \in Signals : file[s] <= log[s])
      => LearningExplained
  BY <1>5 DEF LearningExplained, QuietInv, CalmInv, Cut
<1> QED BY <1>1, <1>3, <1>4, <1>6, LearnedIsLogged, FilesTyped, PTL

=============================================================================
