------------------------------ MODULE EtlProofs ------------------------------
(* What is proved about one scheduled ETL run: the kernel it drives is the  *)
(* kernel of module Scheduler, and the driver, the kernel and the workers   *)
(* together keep the promises of run_scheduled.                            *)
EXTENDS EtlRun, SchedulerProofs, SequenceTheorems

Message == [cmd : {"start"}, id : Ids, priority : Priorities]
           \cup [cmd : Outcomes, id : Ids]

EtlTypeOK ==
  /\ mailbox \in Seq(Message)
  /\ waiting \in [Ids -> Nat]
  /\ holder \in Ids \cup {NoTask}
  /\ reports \in SUBSET [cmd : Outcomes, id : Ids] /\ IsFiniteSet(reports)
  /\ lost \in SUBSET Ids
  /\ runs \in [Ids -> Nat]
  /\ pc \in {"submit", "wait", "report", "done"}
  /\ stage \in DOMAIN Plan
  /\ sent \in 0..Len(Plan[stage]) /\ (pc # "submit" => sent = 0)
  /\ kills \in SUBSET Ids

\* Tasks are as run_scheduled starts them, and are never paused or restored.
Plain ==
  \A i \in Ids : State(i) \in TaskStates =>
    /\ tasks[i].resume = FALSE
    /\ tasks[i].max_attempts = MaxAttempts

\* The stages before the driver's have finished, those after it are untouched.
Barrier ==
  /\ \A s \in DOMAIN Plan : s < stage => \A i \in StageIds(s) : State(i) = "FINISHED"
  /\ \A t \in DOMAIN Plan : stage < t =>
       \A j \in StageIds(t) : State(j) = "NONE" /\ InMailbox({"start"}, j) = {}

\* The attempts the kernel counts are the runs, one ahead for a task to be retried.
Counted ==
  \A i \in Ids :
    /\ State(i) = "NONE" => runs[i] = 0
    /\ State(i) = "PENDING" =>
         \/ tasks[i].attempts = 0 /\ runs[i] = 0
         \/ tasks[i].attempts = runs[i] + 1 /\ runs[i] > 0
    /\ State(i) = "RUNNING" => tasks[i].attempts = runs[i] /\ runs[i] > 0
    /\ State(i) = "FINISHED" => runs[i] > 0

Budgeted ==
  Retries > 0 =>
    \A i \in Ids : /\ runs[i] <= Retries + 1
                   /\ State(i) = "PENDING" => tasks[i].attempts <= Retries + 1

Verdict ==
  /\ \A i \in kills : State(i) = "KILLED"
  /\ pc \in {"submit", "wait"} => kills = {}
  /\ pc \in {"report", "done"} /\ kills = {} =>
       \A i \in Planned : State(i) = "FINISHED"

EtlInv == EtlTypeOK /\ Plain /\ OneWorker /\ Barrier /\ Counted /\ Budgeted /\ Verdict
-----------------------------------------------------------------------------
(* The mailbox.                                                            *)

\* The messages about task i in q with a command of S; InMailbox(S, i) is the same
\* of the mailbox.
InBox(q, S, i) == {k \in DOMAIN q : q[k].id = i /\ q[k].cmd \in S}

LEMMA InBoxFinite ==
  ASSUME NEW q \in Seq(Message), NEW S, NEW i
  PROVE  IsFiniteSet(InBox(q, S, i)) /\ Cardinality(InBox(q, S, i)) \in Nat
<1>1. DOMAIN q = 1..Len(q) /\ Len(q) \in Int
  BY LenProperties
<1>2. IsFiniteSet(1..Len(q))
  BY <1>1, FS_Interval
<1>3. InBox(q, S, i) \subseteq 1..Len(q)
  BY <1>1 DEF InBox
<1>4. QED BY <1>2, <1>3, FS_Subset, FS_CardinalityType

LEMMA InBoxAppend ==
  ASSUME NEW q \in Seq(Message), NEW m \in Message, NEW S, NEW i
  PROVE  /\ Cardinality(InBox(Append(q, m), S, i)) =
              Cardinality(InBox(q, S, i)) + (IF m.id = i /\ m.cmd \in S THEN 1 ELSE 0)
         /\ InBox(Append(q, m), S, i) = {} <=>
              InBox(q, S, i) = {} /\ ~ (m.id = i /\ m.cmd \in S)
<1> DEFINE n == Len(q) + 1
           old == InBox(q, S, i)
<1>1. /\ DOMAIN q = 1..Len(q) /\ Len(q) \in Nat
      /\ DOMAIN Append(q, m) = 1..n
      /\ \A k \in 1..Len(q) : Append(q, m)[k] = q[k]
      /\ Append(q, m)[n] = m
  BY LenProperties, AppendProperties
<1>2. InBox(Append(q, m), S, i) = IF m.id = i /\ m.cmd \in S THEN old \cup {n} ELSE old
  <2>1. 1..n = 1..Len(q) \cup {n} /\ n \notin 1..Len(q)
    BY <1>1
  <2> HIDE DEF n, old
  <2>2. ASSUME NEW k
        PROVE  k \in InBox(Append(q, m), S, i) <=> k \in old \/ (k = n /\ m.id = i /\ m.cmd \in S)
    BY <1>1, <2>1 DEF InBox, old
  <2>3. QED BY <2>2
<1>3. n \notin old /\ IsFiniteSet(old) /\ Cardinality(old) \in Nat
  <2>1. n \notin old
    BY <1>1 DEF InBox
  <2>2. QED BY <2>1, InBoxFinite
<1> HIDE DEF n, old
<1>4. Cardinality(old \cup {n}) = Cardinality(old) + 1
  BY <1>3, FS_AddElement
<1>5. QED BY <1>2, <1>3, <1>4 DEF old

LEMMA InBoxTail ==
  ASSUME NEW q \in Seq(Message), q # <<>>, NEW S, NEW i
  PROVE  /\ Cardinality(InBox(q, S, i)) =
              Cardinality(InBox(Tail(q), S, i))
                + (IF Head(q).id = i /\ Head(q).cmd \in S THEN 1 ELSE 0)
         /\ InBox(q, S, i) = {} => InBox(Tail(q), S, i) = {}
<1> DEFINE later == InBox(q, S, i) \ {1}
           rest == InBox(Tail(q), S, i)
           f == [k \in rest |-> k + 1]
<1>1. /\ DOMAIN q = 1..Len(q) /\ Len(q) \in Nat \ {0}
      /\ DOMAIN Tail(q) = 1..(Len(q) - 1)
      /\ \A k \in 1..(Len(q) - 1) : Tail(q)[k] = q[k + 1]
      /\ Head(q) = q[1]
      /\ Tail(q) \in Seq(Message)
  BY LenProperties, HeadTailProperties, EmptySeq
<1>2. f \in Bijection(rest, later)
  <2>1. \A k \in rest : k \in Nat /\ k + 1 \in later
    BY <1>1 DEF InBox
  <2>2. \A k \in later : k - 1 \in rest /\ k = (k - 1) + 1
    BY <1>1 DEF InBox
  <2> HIDE DEF rest, later
  <2>3. f \in [rest -> later]
    BY <2>1
  <2>4. f \in Injection(rest, later)
    BY <2>1, <2>3 DEF Injection, IsInjective
  <2>5. f \in Surjection(rest, later)
    BY <2>2, <2>3 DEF Surjection
  <2>6. QED BY <2>4, <2>5 DEF Bijection
<1>3. IsFiniteSet(rest) /\ Cardinality(rest) \in Nat
  BY <1>1, InBoxFinite
<1>4. Cardinality(later) = Cardinality(rest)
  <2> HIDE DEF rest, later, f
  <2>1. QED BY <1>2, <1>3, FS_Bijection DEF ExistsBijection
<1>5. 1 \in InBox(q, S, i) <=> Head(q).id = i /\ Head(q).cmd \in S
  BY <1>1 DEF InBox
<1>6. Cardinality(later) =
        IF 1 \in InBox(q, S, i) THEN Cardinality(InBox(q, S, i)) - 1
        ELSE Cardinality(InBox(q, S, i))
  BY InBoxFinite, FS_RemoveElement
<1>7. InBox(q, S, i) = {} => rest = {}
  <2>1. \A k \in rest : k + 1 \in later
    BY <1>1 DEF InBox
  <2>2. QED BY <2>1
<1> HIDE DEF rest, later
<1>8. QED BY <1>3, <1>4, <1>5, <1>6, <1>7, InBoxFinite DEF rest

-----------------------------------------------------------------------------
(* Types, and the kernel driven by the mailbox.                            *)

LEMMA StageTask ==
  ASSUME NEW s \in DOMAIN Plan, NEW k \in 1..Len(Plan[s])
  PROVE  /\ StartMsg(Plan[s][k]) \in Message
         /\ StartMsg(Plan[s][k]).cmd = "start"
         /\ StartMsg(Plan[s][k]).id \in StageIds(s)
<1>1. Plan[s] \in Seq([id : Ids, priority : Priorities])
  BY PlanAssumption, ElementOfSeq, LenProperties
<1>2. Plan[s][k] \in [id : Ids, priority : Priorities] /\ k \in DOMAIN Plan[s]
  BY <1>1, ElementOfSeq, LenProperties
<1>3. QED BY <1>2 DEF StartMsg, Message, StageIds

LEMMA PlanStages ==
  /\ Plan \in Seq(Seq([id : Ids, priority : Priorities])) /\ Plan # <<>>
  /\ DOMAIN Plan = 1..Len(Plan) /\ Len(Plan) \in Nat \ {0}
  /\ \A s \in DOMAIN Plan : StageIds(s) \subseteq Ids /\ Len(Plan[s]) \in Nat
<1>1. /\ Plan \in Seq(Seq([id : Ids, priority : Priorities])) /\ Plan # <<>>
      /\ DOMAIN Plan = 1..Len(Plan) /\ Len(Plan) \in Nat \ {0}
  BY PlanAssumption, LenProperties, EmptySeq
<1>2. ASSUME NEW s \in DOMAIN Plan PROVE StageIds(s) \subseteq Ids /\ Len(Plan[s]) \in Nat
  <2>1. Plan[s] \in Seq([id : Ids, priority : Priorities])
    BY <1>1, ElementOfSeq
  <2>2. \A k \in DOMAIN Plan[s] : Plan[s][k] \in [id : Ids, priority : Priorities]
    BY <2>1, ElementOfSeq, LenProperties
  <2>3. QED BY <2>1, <2>2, LenProperties DEF StageIds
<1>3. QED BY <1>1, <1>2

LEMMA OutcomeMessage ==
  ASSUME NEW m \in [cmd : Outcomes, id : Ids]
  PROVE  m \in Message
BY DEF Message

LEMMA InitTypes == EtlInit => EtlTypeOK
<1>1. 1 \in DOMAIN Plan /\ 0 \in 0..Len(Plan[1])
  BY PlanStages
<1>2. QED BY <1>1, FS_EmptySet, EmptySeq DEF EtlInit, EtlTypeOK, Msg

LEMMA WorkerTypes ==
  ASSUME EtlTypeOK, NEW i \in Ids, WorkerOf(i) \/ Crash(i)
  PROVE  EtlTypeOK'
<1>1. \A c \in Outcomes : Msg(c, i) \in [cmd : Outcomes, id : Ids]
  BY DEF Msg
<1>2. CASE Acquire(i)
  BY <1>2 DEF Acquire, EtlTypeOK, vars, driverVars
<1>3. ASSUME NEW c \in Outcomes, Reject(i, c) PROVE EtlTypeOK'
  <2>1. /\ waiting[i] > 0 /\ waiting' = [waiting EXCEPT ![i] = @ - 1]
        /\ reports' = reports \cup {Msg(c, i)}
        /\ UNCHANGED <<mailbox, holder, lost, runs, pc, stage, sent, kills>>
    BY <1>3 DEF Reject, driverVars
  <2>2. reports' \in SUBSET [cmd : Outcomes, id : Ids] /\ IsFiniteSet(reports')
    BY <1>1, <2>1, FS_AddElement DEF EtlTypeOK, Outcomes
  <2>3. waiting' \in [Ids -> Nat]
    BY <2>1 DEF EtlTypeOK
  <2>4. QED BY <2>1, <2>2, <2>3 DEF EtlTypeOK
<1>4. CASE \E outcome \in Outcomes : Complete(i, outcome)
  <2>1. PICK outcome \in Outcomes : Complete(i, outcome)
    BY <1>4
  <2>2. /\ reports' = reports \cup {Msg(outcome, i)} /\ holder' = NoTask
        /\ UNCHANGED <<mailbox, waiting, lost, runs, pc, stage, sent, kills>>
    BY <2>1 DEF Complete, driverVars
  <2>3. IsFiniteSet(reports')
    BY <2>2, FS_AddElement DEF EtlTypeOK
  <2>4. reports' \in SUBSET [cmd : Outcomes, id : Ids]
    BY <1>1, <2>2 DEF EtlTypeOK
  <2>5. QED BY <2>2, <2>3, <2>4 DEF EtlTypeOK
<1>5. CASE \E m \in reports : m.id = i /\ Report(m)
  <2>1. PICK m \in reports : Report(m)
    BY <1>5
  <2>2. Append(mailbox, m) \in Seq(Message)
    BY OutcomeMessage, AppendProperties DEF EtlTypeOK
  <2>3. QED BY <2>1, <2>2, FS_RemoveElement DEF Report, EtlTypeOK, vars, driverVars
<1>6. CASE Panic(i)
  BY <1>6 DEF Panic, EtlTypeOK, vars, driverVars
<1>7. CASE NoThread(i)
  BY <1>7 DEF NoThread, EtlTypeOK, vars, driverVars
<1>8. QED BY <1>2, <1>3, <1>4, <1>5, <1>6, <1>7 DEF WorkerOf, Crash

LEMMA DriverTypes ==
  ASSUME EtlTypeOK, Driver
  PROVE  EtlTypeOK'
<1>1. /\ DOMAIN Plan = 1..Len(Plan) /\ Len(Plan) \in Nat
      /\ \A s \in DOMAIN Plan : StageIds(s) \subseteq Ids /\ Len(Plan[s]) \in Nat
      /\ stage \in DOMAIN Plan /\ sent \in 0..Len(Plan[stage])
      /\ pc # "submit" => sent = 0
  BY PlanStages DEF EtlTypeOK
<1>2. CASE Submit
  <2>1. sent + 1 \in 1..Len(Plan[stage])
    BY <1>1, <1>2 DEF Submit
  <2>2. Append(mailbox, StartMsg(Plan[stage][sent + 1])) \in Seq(Message)
    BY <1>1, <2>1, StageTask, AppendProperties DEF EtlTypeOK
  <2>3. QED BY <1>1, <1>2, <2>1, <2>2 DEF Submit, EtlTypeOK, workerVars
<1>3. CASE Submitted
  BY <1>1, <1>3 DEF Submitted, EtlTypeOK, workerVars
<1>4. CASE Poll
  <2>1. /\ pc' \in {"submit", "report"}
        /\ pc' = "submit" => stage < Len(Plan)
        /\ stage' = IF pc' = "submit" THEN stage + 1 ELSE stage
        /\ kills' = InStage({"KILLED"})
        /\ sent = 0
        /\ UNCHANGED <<mailbox, waiting, holder, reports, lost, runs, sent>>
    BY <1>1, <1>4 DEF Poll, workerVars
  <2>2. stage' \in DOMAIN Plan
    BY <1>1, <2>1
  <2>3. kills' \in SUBSET Ids
    BY <1>1, <2>1 DEF InStage
  <2>4. QED BY <1>1, <2>1, <2>2, <2>3 DEF EtlTypeOK
<1>5. CASE Conclude
  BY <1>5 DEF Conclude, EtlTypeOK, workerVars
<1>6. QED BY <1>2, <1>3, <1>4, <1>5 DEF Driver

LEMMA DeliverTypes ==
  ASSUME EtlTypeOK, Deliver
  PROVE  EtlTypeOK'
<1>1. Tail(mailbox) \in Seq(Message)
  BY HeadTailProperties DEF Deliver, EtlTypeOK
<1>2. \A i \in Ids : SpawnWorkers(i) \in Nat
  BY DEF SpawnWorkers
<1>3. waiting' \in [Ids -> Nat] /\ runs' \in [Ids -> Nat]
  <2>1. CASE /\ waiting' = [i \in Ids |-> waiting[i] + SpawnWorkers(i)]
             /\ runs' = [i \in Ids |-> runs[i] + SpawnWorkers(i)]
    BY <2>1 DEF EtlTypeOK, SpawnWorkers
  <2>2. CASE UNCHANGED <<waiting, runs>>
    BY <2>2 DEF EtlTypeOK
  <2>3. QED BY <2>1, <2>2 DEF Deliver
<1>4. QED BY <1>1, <1>3 DEF Deliver, EtlTypeOK, driverVars

\* Every message the kernel takes is a step of module Scheduler.
LEMMA TakesNext ==
  ASSUME NEW m \in Message, Takes(m)
  PROVE  Next
<1>1. m.id \in Ids /\ (m.cmd = "start" => m.priority \in Priorities)
  BY DEF Message, Outcomes
<1>2. TheInfo \in Infos /\ MaxAttempts \in RetryCaps /\ NoCheckpoint \in OptCheckpoint
  BY RunAssumption DEF TheInfo, OptCheckpoint
<1>3. CASE m.cmd = "start" /\ Start(m.id, m.priority, MaxAttempts, TheInfo)
  BY <1>1, <1>2, <1>3 DEF Next
<1>4. CASE m.cmd = "finish" /\ Finish(m.id, NoCheckpoint)
  BY <1>1, <1>2, <1>4 DEF Next
<1>5. CASE m.cmd = "kill" /\ Kill(m.id)
  BY <1>1, <1>5 DEF Next
<1>6. CASE m.cmd = "reschedule" /\ Reschedule(m.id, FALSE)
  BY <1>1, <1>6 DEF Next
<1>7. QED BY <1>3, <1>4, <1>5, <1>6 DEF Takes

LEMMA HeadMessage ==
  ASSUME EtlTypeOK, mailbox # <<>>
  PROVE  Head(mailbox) \in Message /\ Head(mailbox).id \in Ids
<1>1. Head(mailbox) \in Message
  BY HeadTailProperties DEF EtlTypeOK
<1>2. QED BY <1>1 DEF Message

\* The workers and the driver leave the kernel alone.
LEMMA OthersKeepKernel ==
  ASSUME Driver \/ \E i \in Ids : WorkerOf(i) \/ Crash(i)
  PROVE  UNCHANGED vars
BY DEF Driver, Submit, Submitted, Poll, Conclude, WorkerOf, Crash, Acquire, Reject,
       Complete, Report, Panic, NoThread

LEMMA EtlTypes == EtlSpec => []EtlTypeOK
<1>1. EtlTypeOK /\ [EtlNext]_etlVars => EtlTypeOK'
  <2>1. ASSUME EtlTypeOK, EtlNext PROVE EtlTypeOK'
    BY <2>1, DeliverTypes, DriverTypes, WorkerTypes DEF EtlNext
  <2>2. ASSUME EtlTypeOK, UNCHANGED etlVars PROVE EtlTypeOK'
    BY <2>2 DEF EtlTypeOK, etlVars, workerVars, driverVars
  <2>3. QED BY <2>1, <2>2
<1>2. QED BY InitTypes, <1>1, PTL DEF EtlSpec

\* The kernel that run_scheduled boots and drives through its mailbox behaves as
\* module Scheduler says, so what is proved about Scheduler holds of it.
THEOREM EtlKernel == EtlSpec => Spec
<1>1. EtlInit => Init
  BY DEF EtlInit
<1>2. EtlTypeOK /\ [EtlNext]_etlVars => [Next]_vars
  <2>1. ASSUME EtlTypeOK, Deliver PROVE [Next]_vars
    <3>1. CASE Takes(Head(mailbox))
      BY <2>1, <3>1, HeadMessage, TakesNext DEF Deliver
    <3>2. CASE UNCHANGED vars
      BY <3>2
    <3>3. QED BY <2>1, <3>1, <3>2 DEF Deliver
  <2>2. ASSUME UNCHANGED etlVars PROVE UNCHANGED vars
    BY <2>2 DEF etlVars
  <2>3. QED BY <2>1, <2>2, OthersKeepKernel DEF EtlNext
<1>3. QED BY <1>1, <1>2, EtlTypes, PTL DEF Spec, EtlSpec

-----------------------------------------------------------------------------
(* What the kernel makes of a message it takes.                            *)

\* The message m about a task makes it t.
Becomes(m, t) ==
  LET old == tasks[m.id] IN
  \/ /\ m.cmd = "start" /\ old.state = "NONE"
     /\ t.state = "PENDING" /\ t.attempts = 0
     /\ t.max_attempts = MaxAttempts /\ t.resume = FALSE
  \/ /\ m.cmd \in Outcomes /\ old.state \in TaskStates
     /\ t.max_attempts = old.max_attempts
     /\ \/ m.cmd = "finish" /\ old.state = "RUNNING" /\ t.state = "FINISHED"
                            /\ t.resume = old.resume
        \/ m.cmd \in {"kill", "reschedule"} /\ t.state = "KILLED" /\ t.resume = old.resume
        \/ /\ m.cmd = "reschedule" /\ ~ Exhausted(old)
           /\ t.state = "PENDING" /\ t.attempts = old.attempts + 1 /\ t.resume = FALSE

\* The tasks D are dispatched, and each gets a worker: task i had become t.
Dispatches(i, t, D, registry, calls) ==
  /\ \A j \in Ids \ D : registry[j] = IF j = i THEN t ELSE tasks[j]
  /\ \A j \in D :
       LET old == IF j = i THEN t ELSE tasks[j] IN
       /\ old.state = "PENDING"
       /\ registry[j].state = "RUNNING" /\ registry[j].resume = FALSE
       /\ registry[j].attempts = AtLeast1(old.attempts)
       /\ registry[j].max_attempts = old.max_attempts
  /\ \A j \in Ids : Call("on_start", j) \in calls <=> j \in D

LEMMA DispatchSpawns ==
  ASSUME Inv, Plain, NEW i \in Ids, NEW t \in Task, t.state = "PENDING" => t.resume = FALSE,
         NEW e, Good(e, {i}), e.tasks = [tasks EXCEPT ![i] = t],
         NEW calls, \A j \in Ids : Call("on_start", j) \notin calls,
         HandledThenDispatched(e, {i}, calls)
  PROVE  \E D \in SUBSET Ids : Dispatches(i, t, D, tasks', spawned')
<1> DEFINE D == Started(e)
<1>1. Sound(e)
  BY DEF Good
<1>2. /\ tasks' = Dispatched(e).tasks
      /\ spawned' = calls \cup DispatchCalls(e)
  BY DEF HandledThenDispatched, Handled
<1>3. \A j \in Ids : e.tasks[j] = IF j = i THEN t ELSE tasks[j]
  BY DEF Inv, TypeOK
<1>4. D \in SUBSET Ids /\ \A j \in D : e.tasks[j].state = "PENDING"
  BY <1>1, StartedPending
<1>5. \A j \in D : e.tasks[j].resume = FALSE /\ e.tasks[j] \in Task
  <2>1. ASSUME NEW j \in D, j # i PROVE tasks[j].resume = FALSE /\ tasks[j] \in Task
    <3>1. State(j) = "PENDING" /\ j \in Ids
      BY <1>3, <1>4, <2>1 DEF State
    <3>2. QED BY <3>1, RegisteredTask DEF Plain, TaskStates, Inv
  <2>2. QED BY <1>3, <1>4, <2>1
<1>6. ASSUME NEW j \in Ids
      PROVE  Call("on_start", j) \in spawned' <=> j \in D
  <2>1. \A k \in D : (IF e.tasks[k].resume THEN "on_resume" ELSE "on_start") = "on_start"
    BY <1>5
  <2>2. DispatchCalls(e) = {Call("on_start", k) : k \in D}
    BY <2>1 DEF DispatchCalls
  <2>3. \A k : Call("on_start", j) = Call("on_start", k) <=> j = k
    BY DEF Call
  <2> HIDE DEF D
  <2>4. QED BY <1>2, <2>2, <2>3
<1>7. \A j \in Ids : tasks'[j] = IF j \in D THEN Run(e.tasks[j]) ELSE e.tasks[j]
  BY <1>1, <1>2, DispatchedTasks
<1> HIDE DEF D
<1>8. \A j \in D : /\ tasks'[j].state = "RUNNING" /\ tasks'[j].resume = FALSE
                   /\ tasks'[j].attempts = AtLeast1(e.tasks[j].attempts)
                   /\ tasks'[j].max_attempts = e.tasks[j].max_attempts
  BY <1>4, <1>5, <1>7 DEF Run, Task
<1>9. Dispatches(i, t, D, tasks', spawned')
  BY <1>3, <1>4, <1>6, <1>7, <1>8 DEF Dispatches
<1>10. QED BY <1>4, <1>9

LEMMA ChangedFields ==
  ASSUME NEW t \in Task
  PROVE  LET f == Finished(t, NoCheckpoint) IN
         /\ f.resume = t.resume /\ f.max_attempts = t.max_attempts
         /\ Killed(t).resume = t.resume /\ Killed(t).max_attempts = t.max_attempts
         /\ GivenUp(t).resume = t.resume /\ GivenUp(t).max_attempts = t.max_attempts
         /\ Retried(t).resume = FALSE /\ Retried(t).max_attempts = t.max_attempts
         /\ Retried(t).attempts = t.attempts + 1
BY DEF Finished, Killed, GivenUp, Retried, Task

LEMMA HookNames ==
  ASSUME NEW i, NEW j
  PROVE  \A h : h # "on_start" => Call(h, i) # Call("on_start", j)
BY DEF Call

\* A handler that takes task i from what it was to t, not pending, and dispatches.
LEMMA ReplaceSpawns ==
  ASSUME Inv, Plain, NEW i \in Ids, NEW t \in Task, t.state \in Terminal,
         NEW h, h # "on_start", HandledThenDispatched(Replace(i, t), {i}, {Call(h, i)})
  PROVE  \E D \in SUBSET Ids : Dispatches(i, t, D, tasks', spawned')
<1> DEFINE e == Replace(i, t)
<1>1. Good(e, {i}) /\ t.state # "PENDING"
  BY ReplaceGood DEF Terminal
<1>2. e.tasks = [tasks EXCEPT ![i] = t]
  BY DEF Replace, Current
<1>3. \A j \in Ids : Call("on_start", j) \notin {Call(h, i)}
  BY HookNames
<1> HIDE DEF e
<1>4. QED BY <1>1, <1>2, <1>3, DispatchSpawns DEF e

\* The same of a task that is queued.
LEMMA QueueSpawns ==
  ASSUME Inv, Plain, NEW i \in Ids, NEW t \in Task, t.state = "PENDING", t.resume = FALSE,
         NEW calls, \A j \in Ids : Call("on_start", j) \notin calls,
         HandledThenDispatched(ReplaceAndQueue(i, t, FALSE), {i}, calls)
  PROVE  \E D \in SUBSET Ids : Dispatches(i, t, D, tasks', spawned')
<1> DEFINE e == ReplaceAndQueue(i, t, FALSE)
<1>1. Good(e, {i})
  BY ReplaceAndQueueGood
<1>2. e.tasks = [tasks EXCEPT ![i] = t]
  BY DEF ReplaceAndQueue, Replace, Current
<1> HIDE DEF e
<1>3. QED BY <1>1, <1>2, DispatchSpawns DEF e

LEMMA StartSpawns ==
  ASSUME Inv, Plain, NEW m \in Message, m.cmd = "start",
         Start(m.id, m.priority, MaxAttempts, TheInfo)
  PROVE  \E t \in Task, D \in SUBSET Ids :
            Becomes(m, t) /\ Dispatches(m.id, t, D, tasks', spawned')
<1> DEFINE i == m.id
           t == NewTask(m.priority, MaxAttempts, TheInfo)
           none == {}
<1>1. i \in Ids /\ m.priority \in Priorities /\ TheInfo \in Infos
  BY RunAssumption DEF Message, Outcomes, TheInfo
<1>2. t \in Task /\ t.state = "PENDING"
  BY <1>1, NewTaskType, RunAssumption
<1>3. t.attempts = 0 /\ t.max_attempts = MaxAttempts /\ t.resume = FALSE
  BY DEF NewTask
<1>4. HandledThenDispatched(ReplaceAndQueue(i, t, FALSE), {i}, none)
  BY DEF Start, StartEffect
<1>5. \A j \in Ids : Call("on_start", j) \notin none
  OBVIOUS
<1> HIDE DEF t, i, none
<1>6. PICK D \in SUBSET Ids : Dispatches(i, t, D, tasks', spawned')
  BY <1>1, <1>2, <1>3, <1>4, <1>5, QueueSpawns
<1>7. Becomes(m, t)
  BY <1>2, <1>3 DEF Becomes, Start, State, i
<1>8. QED BY <1>2, <1>6, <1>7 DEF i

LEMMA FinishSpawns ==
  ASSUME Inv, Plain, NEW m \in Message, m.cmd = "finish", Finish(m.id, NoCheckpoint)
  PROVE  \E t \in Task, D \in SUBSET Ids :
            Becomes(m, t) /\ Dispatches(m.id, t, D, tasks', spawned')
<1> DEFINE i == m.id
           old == tasks[i]
           t == Finished(old, NoCheckpoint)
<1>1. i \in Ids /\ NoCheckpoint \in OptCheckpoint
  BY DEF Message, Outcomes, OptCheckpoint
<1>2. old.state = "RUNNING" /\ old \in Task
  BY <1>1, RegisteredTask DEF Finish, State, TaskStates, Inv
<1>3. /\ t \in Task /\ t.state = "FINISHED"
      /\ t.resume = old.resume /\ t.max_attempts = old.max_attempts
  BY <1>1, <1>2, ChangedTaskType, ChangedFields
<1>4. HandledThenDispatched(Replace(i, t), {i}, {Call("on_finish", i)})
  BY DEF Finish, FinishEffect
<1> HIDE DEF t, i
<1>5. PICK D \in SUBSET Ids : Dispatches(i, t, D, tasks', spawned')
  BY <1>1, <1>3, <1>4, ReplaceSpawns DEF Terminal
<1>6. Becomes(m, t)
  BY <1>2, <1>3 DEF Becomes, TaskStates, Outcomes, i
<1>7. QED BY <1>3, <1>5, <1>6 DEF i

LEMMA KillSpawns ==
  ASSUME Inv, Plain, NEW m \in Message, m.cmd = "kill", Kill(m.id)
  PROVE  \E t \in Task, D \in SUBSET Ids :
            Becomes(m, t) /\ Dispatches(m.id, t, D, tasks', spawned')
<1> DEFINE i == m.id
           old == tasks[i]
           t == Killed(old)
<1>1. i \in Ids
  BY DEF Message, Outcomes
<1>2. old.state \in TaskStates /\ old \in Task
  BY <1>1, RegisteredTask DEF Kill, State, Inv
<1>3. /\ t \in Task /\ t.state = "KILLED"
      /\ t.resume = old.resume /\ t.max_attempts = old.max_attempts
  BY <1>2, EndedTaskType, ChangedFields
<1>4. HandledThenDispatched(Replace(i, t), {i}, {Call("on_kill", i)})
  BY DEF Kill, KillEffect
<1> HIDE DEF t, i
<1>5. PICK D \in SUBSET Ids : Dispatches(i, t, D, tasks', spawned')
  BY <1>1, <1>3, <1>4, ReplaceSpawns DEF Terminal
<1>6. Becomes(m, t)
  BY <1>2, <1>3 DEF Becomes, Outcomes, i
<1>7. QED BY <1>3, <1>5, <1>6 DEF i

LEMMA RescheduleSpawns ==
  ASSUME Inv, Plain, NEW m \in Message, m.cmd = "reschedule", Reschedule(m.id, FALSE)
  PROVE  \E t \in Task, D \in SUBSET Ids :
            Becomes(m, t) /\ Dispatches(m.id, t, D, tasks', spawned')
<1> DEFINE i == m.id
           old == tasks[i]
<1>1. i \in Ids
  BY DEF Message, Outcomes
<1>2. old.state \in TaskStates /\ old \in Task
  BY <1>1, RegisteredTask DEF Reschedule, CanReschedule, State, Inv
<1>3. CASE Exhausted(old)
  <2> DEFINE t == GivenUp(old)
  <2>1. /\ t \in Task /\ t.state = "KILLED"
        /\ t.resume = old.resume /\ t.max_attempts = old.max_attempts
    BY <1>2, EndedTaskType, ChangedFields
  <2>2. HandledThenDispatched(Replace(i, t), {i}, {Call("on_kill", i)})
    BY <1>3 DEF Reschedule, ExhaustEffect
  <2> HIDE DEF t, i
  <2>3. PICK D \in SUBSET Ids : Dispatches(i, t, D, tasks', spawned')
    BY <1>1, <2>1, <2>2, ReplaceSpawns DEF Terminal
  <2>4. Becomes(m, t)
    BY <1>2, <2>1 DEF Becomes, Outcomes, i
  <2>5. QED BY <2>1, <2>3, <2>4 DEF i
<1>4. CASE ~ Exhausted(old)
  <2> DEFINE t == Retried(old)
  <2>1. /\ t \in Task /\ t.state = "PENDING" /\ t.resume = FALSE
        /\ t.attempts = old.attempts + 1 /\ t.max_attempts = old.max_attempts
    BY <1>2, EndedTaskType, ChangedFields
  <2>2. HandledThenDispatched(ReplaceAndQueue(i, t, FALSE), {i}, {Call("on_reschedule", i)})
    BY <1>4 DEF Reschedule, RetryEffect
  <2>3. \A j \in Ids : Call("on_start", j) \notin {Call("on_reschedule", i)}
    BY HookNames
  <2> HIDE DEF t, i
  <2>4. PICK D \in SUBSET Ids : Dispatches(i, t, D, tasks', spawned')
    BY <1>1, <2>1, <2>2, <2>3, QueueSpawns
  <2>5. Becomes(m, t)
    BY <1>2, <1>4, <2>1 DEF Becomes, Outcomes, i
  <2>6. QED BY <2>1, <2>4, <2>5 DEF i
<1>5. QED BY <1>3, <1>4

LEMMA TakesSpawns ==
  ASSUME Inv, Plain, NEW m \in Message, Takes(m)
  PROVE  \E t \in Task, D \in SUBSET Ids :
            Becomes(m, t) /\ Dispatches(m.id, t, D, tasks', spawned')
BY StartSpawns, FinishSpawns, KillSpawns, RescheduleSpawns DEF Takes

-----------------------------------------------------------------------------
(* One worker or report for each running task.                             *)

\* Claims(i), of given threads, holder, reports, mailbox and lost workers.
About(r, i) == {m \in r : m.id = i}

ClaimsOf(i, w, h, r, q, l) ==
  w[i] + (IF h = i THEN 1 ELSE 0) + Cardinality(About(r, i))
       + Cardinality(InBox(q, Outcomes, i)) + (IF i \in l THEN 1 ELSE 0)

LEMMA ClaimsParts ==
  ASSUME EtlTypeOK, NEW i \in Ids
  PROVE  /\ Claims(i) = ClaimsOf(i, waiting, holder, reports, mailbox, lost)
         /\ waiting[i] \in Nat
         /\ Cardinality(About(reports, i)) \in Nat
         /\ Cardinality(InBox(mailbox, Outcomes, i)) \in Nat
<1>1. IsFiniteSet(About(reports, i))
  BY FS_Subset DEF About, EtlTypeOK
<1>2. QED
  BY <1>1, InBoxFinite, FS_CardinalityType
  DEF EtlTypeOK, Claims, ClaimsOf, About, InMailbox, InBox

LEMMA AboutAdd ==
  ASSUME NEW r, IsFiniteSet(r), NEW m, NEW i
  PROVE  Cardinality(About(r \cup {m}, i)) =
           Cardinality(About(r, i)) + (IF m.id = i /\ m \notin r THEN 1 ELSE 0)
<1>1. IsFiniteSet(About(r, i)) /\ Cardinality(About(r, i)) \in Nat
  BY FS_Subset, FS_CardinalityType DEF About
<1>2. About(r \cup {m}, i) = IF m.id = i THEN About(r, i) \cup {m} ELSE About(r, i)
  BY DEF About
<1>3. m \in About(r, i) <=> m \in r /\ m.id = i
  BY DEF About
<1>4. ASSUME NEW A, IsFiniteSet(A)
      PROVE  Cardinality(A \cup {m}) = IF m \in A THEN Cardinality(A) ELSE Cardinality(A) + 1
  BY <1>4, FS_AddElement
<1>5. Cardinality(About(r, i) \cup {m}) =
        IF m \in About(r, i) THEN Cardinality(About(r, i)) ELSE Cardinality(About(r, i)) + 1
  BY <1>1, <1>4
<1>6. CASE m.id = i
  BY <1>1, <1>2, <1>3, <1>5, <1>6
<1>7. CASE m.id # i
  BY <1>1, <1>2, <1>7
<1>8. QED BY <1>6, <1>7

LEMMA AboutRemove ==
  ASSUME NEW r, IsFiniteSet(r), NEW m \in r, NEW i
  PROVE  Cardinality(About(r, i)) =
           Cardinality(About(r \ {m}, i)) + (IF m.id = i THEN 1 ELSE 0)
<1>1. IsFiniteSet(About(r, i)) /\ Cardinality(About(r, i)) \in Nat
  BY FS_Subset, FS_CardinalityType DEF About
<1>2. About(r \ {m}, i) = IF m.id = i THEN About(r, i) \ {m} ELSE About(r, i)
  BY DEF About
<1>3. m \in About(r, i) <=> m.id = i
  BY DEF About
<1>4. ASSUME NEW A, IsFiniteSet(A), m \in A
      PROVE  Cardinality(A \ {m}) = Cardinality(A) - 1
  BY <1>4, FS_RemoveElement
<1>5. CASE m.id = i
  <2>1. Cardinality(About(r, i) \ {m}) = Cardinality(About(r, i)) - 1
    BY <1>1, <1>3, <1>4, <1>5
  <2>2. About(r \ {m}, i) = About(r, i) \ {m}
    BY <1>2, <1>5
  <2>3. Cardinality(About(r \ {m}, i)) = Cardinality(About(r, i)) - 1
    BY <2>1, <2>2
  <2>4. QED BY <1>1, <1>5, <2>3
<1>6. CASE m.id # i
  BY <1>1, <1>2, <1>6
<1>7. QED BY <1>5, <1>6

\* Whatever the workers do, a claim only changes its place.
LEMMA WorkerClaims ==
  ASSUME EtlTypeOK, OneWorker, NEW i \in Ids, WorkerOf(i) \/ Crash(i), NEW j \in Ids
  PROVE  ClaimsOf(j, waiting, holder, reports, mailbox, lost)'
           = ClaimsOf(j, waiting, holder, reports, mailbox, lost)
<1> DEFINE C == ClaimsOf(j, waiting, holder, reports, mailbox, lost)
<1>1. /\ waiting \in [Ids -> Nat] /\ waiting[j] \in Nat
      /\ Cardinality(About(reports, j)) \in Nat
      /\ Cardinality(InBox(mailbox, Outcomes, j)) \in Nat
      /\ IsFiniteSet(reports) /\ mailbox \in Seq(Message) /\ NoTask \notin Ids
  BY ClaimsParts, RunAssumption DEF EtlTypeOK
<1>2. C <= 1
  BY ClaimsParts DEF OneWorker
<1>3. \A c : Msg(c, i).id = i
  BY DEF Msg
<1>4. \A m \in reports : m.id = j => Cardinality(About(reports, j)) >= 1
  <2>1. ASSUME NEW m \in reports, m.id = j PROVE Cardinality(About(reports, j)) >= 1
    <3>1. Cardinality(About(reports \ {m}, j)) \in Nat
      BY <1>1, FS_Subset, FS_CardinalityType DEF About
    <3>2. QED BY <1>1, <2>1, <3>1, AboutRemove
  <2>2. QED BY <2>1
<1> DEFINE hold == IF holder = j THEN 1 ELSE 0
           about == Cardinality(About(reports, j))
           box == Cardinality(InBox(mailbox, Outcomes, j))
           gone == IF j \in lost THEN 1 ELSE 0
<1>5. /\ C = waiting[j] + hold + about + box + gone
      /\ ClaimsOf(j, waiting, holder, reports, mailbox, lost)'
           = waiting'[j] + hold' + about' + box' + gone'
      /\ about \in Nat /\ box \in Nat /\ hold \in {0, 1} /\ gone \in {0, 1}
  BY <1>1 DEF ClaimsOf
<1>6. CASE Acquire(i)
  BY <1>1, <1>6 DEF Acquire, ClaimsOf
<1>7. ASSUME NEW c \in Outcomes, Reject(i, c)
      PROVE  ClaimsOf(j, waiting, holder, reports, mailbox, lost)' = C
  <2>1. waiting' = [waiting EXCEPT ![i] = @ - 1] /\ waiting[i] > 0
        /\ reports' = reports \cup {Msg(c, i)}
        /\ UNCHANGED <<holder, mailbox, lost>>
    BY <1>7 DEF Reject
  <2>2. i = j => Msg(c, i) \notin reports
    BY <1>1, <1>2, <1>3, <1>4, <2>1 DEF ClaimsOf
  <2>3. Cardinality(About(reports', j)) =
          Cardinality(About(reports, j)) + (IF i = j THEN 1 ELSE 0)
    BY <1>1, <1>3, <2>1, <2>2, AboutAdd
  <2>4. waiting'[j] = waiting[j] - (IF i = j THEN 1 ELSE 0)
    BY <1>1, <2>1
  <2>5. about' = about + (IF i = j THEN 1 ELSE 0)
    BY <2>3
  <2>6. hold' = hold /\ box' = box /\ gone' = gone
    BY <2>1
  <2> HIDE DEF hold, about, box, gone, C
  <2>7. QED BY <1>1, <1>5, <2>4, <2>5, <2>6 DEF C
<1>8. CASE \E outcome \in Outcomes : Complete(i, outcome)
  <2>1. PICK outcome \in Outcomes : Complete(i, outcome)
    BY <1>8
  <2>2. holder = i /\ holder' = NoTask
        /\ reports' = reports \cup {Msg(outcome, i)}
        /\ UNCHANGED <<waiting, mailbox, lost>>
    BY <2>1 DEF Complete
  <2>3. i = j => Msg(outcome, i) \notin reports
    BY <1>1, <1>2, <1>3, <1>4, <2>2 DEF ClaimsOf
  <2>4. Cardinality(About(reports', j)) =
          Cardinality(About(reports, j)) + (IF i = j THEN 1 ELSE 0)
    BY <1>1, <1>3, <2>2, <2>3, AboutAdd
  <2>5. hold = (IF i = j THEN 1 ELSE 0) /\ hold' = 0
    BY <1>1, <2>2
  <2>6. about' = about + (IF i = j THEN 1 ELSE 0)
    BY <2>4
  <2>7. waiting'[j] = waiting[j] /\ box' = box /\ gone' = gone
    BY <2>2
  <2> HIDE DEF hold, about, box, gone, C
  <2>8. QED BY <1>1, <1>5, <2>5, <2>6, <2>7 DEF C
<1>9. CASE \E m \in reports : m.id = i /\ Report(m)
  <2>1. PICK m \in reports : m.id = i /\ Report(m)
    BY <1>9
  <2>2. reports' = reports \ {m} /\ mailbox' = Append(mailbox, m)
        /\ UNCHANGED <<waiting, holder, lost>>
    BY <2>1 DEF Report
  <2>3. m \in Message /\ m.cmd \in Outcomes
    BY DEF EtlTypeOK, Message
  <2>4. Cardinality(InBox(mailbox', Outcomes, j)) =
          Cardinality(InBox(mailbox, Outcomes, j)) + (IF i = j THEN 1 ELSE 0)
    BY <1>1, <2>1, <2>2, <2>3, InBoxAppend
  <2>5. Cardinality(About(reports, j)) =
          Cardinality(About(reports', j)) + (IF i = j THEN 1 ELSE 0)
    BY <1>1, <2>1, <2>2, AboutRemove
  <2>6. Cardinality(About(reports', j)) \in Nat
    BY <1>1, <2>2, FS_Subset, FS_CardinalityType DEF About
  <2>7. /\ box' = box + (IF i = j THEN 1 ELSE 0)
        /\ about = about' + (IF i = j THEN 1 ELSE 0) /\ about' \in Nat
    BY <2>4, <2>5, <2>6
  <2>8. waiting'[j] = waiting[j] /\ hold' = hold /\ gone' = gone
    BY <2>2
  <2> HIDE DEF hold, about, box, gone, C
  <2>9. QED BY <1>1, <1>5, <2>7, <2>8 DEF C
<1>10. CASE Panic(i)
  <2>1. i = j => i \notin lost
    BY <1>1, <1>2, <1>10 DEF ClaimsOf, Panic
  <2>2. QED BY <1>1, <1>10, <2>1 DEF Panic, ClaimsOf
<1>11. CASE NoThread(i)
  <2>1. i = j => i \notin lost
    BY <1>1, <1>2, <1>11 DEF ClaimsOf, NoThread
  <2>2. QED BY <1>1, <1>11, <2>1 DEF NoThread, ClaimsOf
<1>12. QED BY <1>6, <1>7, <1>8, <1>9, <1>10, <1>11 DEF WorkerOf, Crash

\* A command of the driver is not a claim.
LEMMA DriverClaims ==
  ASSUME EtlTypeOK, Driver, NEW j \in Ids
  PROVE  ClaimsOf(j, waiting, holder, reports, mailbox, lost)'
           = ClaimsOf(j, waiting, holder, reports, mailbox, lost)
<1>1. UNCHANGED <<waiting, holder, reports, lost>>
  BY DEF Driver, Submit, Submitted, Poll, Conclude, workerVars
<1>2. CASE Submit
  <2>1. sent + 1 \in 1..Len(Plan[stage]) /\ stage \in DOMAIN Plan
    BY <1>2, PlanStages DEF Submit, EtlTypeOK
  <2>2. "start" \notin Outcomes /\ Cardinality(InBox(mailbox, Outcomes, j)) \in Nat
    BY ClaimsParts DEF Outcomes
  <2>3. Cardinality(InBox(mailbox', Outcomes, j)) = Cardinality(InBox(mailbox, Outcomes, j))
    BY <1>2, <2>1, <2>2, StageTask, InBoxAppend DEF Submit, EtlTypeOK
  <2>4. QED BY <1>1, <2>3 DEF ClaimsOf
<1>3. CASE mailbox' = mailbox
  BY <1>1, <1>3 DEF ClaimsOf
<1>4. QED BY <1>2, <1>3 DEF Driver, Submitted, Poll, Conclude

LEMMA OthersOneWorker ==
  ASSUME EtlTypeOK, OneWorker, Driver \/ \E i \in Ids : WorkerOf(i) \/ Crash(i)
  PROVE  OneWorker'
<1>1. \A j \in Ids : State(j)' = State(j)
  BY OthersKeepKernel DEF vars, State
<1>2. ASSUME NEW j \in Ids
      PROVE  Claims(j)' = ClaimsOf(j, waiting, holder, reports, mailbox, lost)'
  BY DEF Claims, ClaimsOf, About, InMailbox, InBox
<1>3. ASSUME NEW j \in Ids PROVE Claims(j)' = Claims(j)
  BY <1>2, DriverClaims, WorkerClaims, ClaimsParts
<1>4. QED BY <1>1, <1>3 DEF OneWorker

-----------------------------------------------------------------------------
(* A message the kernel takes.                                             *)

\* A delivered message is a start that comes twice, which is ignored, or it is
\* taken; a report finds its task running.
LEMMA DeliverStep ==
  ASSUME Inv, EtlTypeOK, Plain, OneWorker, Deliver
  PROVE  LET m == Head(mailbox) IN
         \/ m.cmd = "start" /\ UNCHANGED <<tasks, waiting, runs>>
         \/ /\ m.cmd \in Outcomes => State(m.id) = "RUNNING"
            /\ \E u \in Task, D \in SUBSET Ids :
                 /\ Becomes(m, u)
                 /\ Dispatches(m.id, u, D, tasks', spawned')
                 /\ waiting' = [j \in Ids |-> waiting[j] + (IF j \in D THEN 1 ELSE 0)]
                 /\ runs' = [j \in Ids |-> runs[j] + (IF j \in D THEN 1 ELSE 0)]
<1> DEFINE m == Head(mailbox)
<1>1. m \in Message /\ m.id \in Ids /\ mailbox # <<>> /\ mailbox \in Seq(Message)
  BY HeadMessage DEF Deliver, EtlTypeOK
<1>2. m.cmd \in Outcomes => State(m.id) = "RUNNING"
  <2>1. HAVE m.cmd \in Outcomes
  <2>2. Cardinality(InBox(mailbox, Outcomes, m.id)) =
          Cardinality(InBox(Tail(mailbox), Outcomes, m.id)) + 1
    BY <1>1, <2>1, InBoxTail
  <2>3. Cardinality(InBox(Tail(mailbox), Outcomes, m.id)) \in Nat
    BY <1>1, HeadTailProperties, InBoxFinite
  <2>4. Claims(m.id) >= 1
    <3>1. /\ waiting[m.id] \in Nat
          /\ Cardinality(About(reports, m.id)) \in Nat
          /\ Cardinality(InBox(mailbox, Outcomes, m.id)) >= 1
          /\ Claims(m.id) = ClaimsOf(m.id, waiting, holder, reports, mailbox, lost)
      BY <1>1, <2>2, <2>3, ClaimsParts
    <3> HIDE DEF m
    <3>2. QED BY <3>1, <2>2, <2>3 DEF ClaimsOf
  <2>5. QED BY <1>1, <2>4 DEF OneWorker
<1>3. CASE Ignores(m) /\ UNCHANGED <<vars, waiting, runs>>
  BY <1>2, <1>3 DEF Ignores, Outcomes, TaskStates, Terminal, vars
<1>4. CASE /\ Takes(m)
           /\ waiting' = [i \in Ids |-> waiting[i] + SpawnWorkers(i)]
           /\ runs' = [i \in Ids |-> runs[i] + SpawnWorkers(i)]
  <2>1. PICK u \in Task, D \in SUBSET Ids :
          Becomes(m, u) /\ Dispatches(m.id, u, D, tasks', spawned')
    BY <1>1, <1>4, TakesSpawns
  <2>2. \A j \in Ids : (IF Call("on_start", j) \in spawned' THEN 1 ELSE 0)
                         = (IF j \in D THEN 1 ELSE 0)
    BY <2>1 DEF Dispatches
  <2>3. /\ waiting' = [j \in Ids |-> waiting[j] + (IF j \in D THEN 1 ELSE 0)]
        /\ runs' = [j \in Ids |-> runs[j] + (IF j \in D THEN 1 ELSE 0)]
    BY <1>4, <2>2 DEF SpawnWorkers
  <2>4. QED BY <1>2, <2>1, <2>3
<1>5. QED BY <1>3, <1>4 DEF Deliver

\* A finished or killed task, and one that is not registered and has no start on
\* its way, stays as it is.
LEMMA DeliverKeeps ==
  ASSUME Inv, EtlTypeOK, Plain, OneWorker, Deliver, NEW j \in Ids,
         \/ State(j) \in Terminal
         \/ State(j) = "NONE" /\ InMailbox({"start"}, j) = {}
  PROVE  tasks'[j] = tasks[j]
<1> DEFINE m == Head(mailbox)
<1>1. ASSUME m.id = j, m.cmd = "start" PROVE State(j) # "NONE" \/ InMailbox({"start"}, j) # {}
  <2>1. 1 \in DOMAIN mailbox /\ mailbox[1] = m
    BY HeadTailProperties, LenProperties, EmptySeq DEF Deliver, EtlTypeOK
  <2>2. QED BY <1>1, <2>1 DEF InMailbox
<1>2. CASE UNCHANGED tasks
  BY <1>2
<1>3. CASE /\ m.cmd \in Outcomes => State(m.id) = "RUNNING"
           /\ \E u \in Task, D \in SUBSET Ids :
                Becomes(m, u) /\ Dispatches(m.id, u, D, tasks', spawned')
  <2>1. PICK u \in Task, D \in SUBSET Ids :
          Becomes(m, u) /\ Dispatches(m.id, u, D, tasks', spawned')
    BY <1>3
  <2>2. m.id # j
    BY <1>1, <1>3, <2>1 DEF Becomes, State, Terminal
  <2>3. j \notin D
    BY <2>1, <2>2 DEF Dispatches, State, Terminal
  <2>4. QED BY <2>1, <2>2, <2>3 DEF Dispatches
<1>4. QED BY <1>2, <1>3, DeliverStep

\* A report is taken from the claims of its task, a dispatch adds one to them.
LEMMA DeliverOneWorker ==
  ASSUME Inv, EtlTypeOK, Plain, OneWorker, Deliver
  PROVE  OneWorker'
<1> DEFINE m == Head(mailbox)
<1>1. m \in Message /\ m.id \in Ids /\ mailbox # <<>> /\ mailbox \in Seq(Message)
  BY HeadMessage DEF Deliver, EtlTypeOK
<1>2. UNCHANGED <<holder, reports, lost>> /\ mailbox' = Tail(mailbox)
  BY DEF Deliver
<1>3. "start" \notin Outcomes
  BY DEF Outcomes
<1> SUFFICES ASSUME NEW j \in Ids
             PROVE  Claims(j)' = IF State(j)' = "RUNNING" THEN 1 ELSE 0
  BY DEF OneWorker
<1> DEFINE taken == IF m.id = j /\ m.cmd \in Outcomes THEN 1 ELSE 0
<1>4. ASSUME NEW n \in {0, 1}, waiting'[j] = waiting[j] + n
      PROVE  Claims(j)' = Claims(j) + n - taken
  <2>1. Cardinality(InBox(mailbox, Outcomes, j)) =
          Cardinality(InBox(mailbox', Outcomes, j)) + taken
    BY <1>1, <1>2, InBoxTail
  <2>2. Cardinality(InBox(mailbox', Outcomes, j)) \in Nat
    BY <1>1, <1>2, HeadTailProperties, InBoxFinite
  <2>3. Claims(j)' = ClaimsOf(j, waiting, holder, reports, mailbox, lost)'
    BY DEF Claims, ClaimsOf, About, InMailbox, InBox
  <2>4. /\ waiting[j] \in Nat /\ Cardinality(About(reports, j)) \in Nat
        /\ Claims(j) = ClaimsOf(j, waiting, holder, reports, mailbox, lost)
    BY ClaimsParts
  <2> HIDE DEF m
  <2>5. taken \in {0, 1}
    OBVIOUS
  <2> HIDE DEF taken
  <2>6. ClaimsOf(j, waiting, holder, reports, mailbox, lost)'
          = waiting'[j] + (IF holder = j THEN 1 ELSE 0) + Cardinality(About(reports, j))
            + Cardinality(InBox(mailbox', Outcomes, j)) + (IF j \in lost THEN 1 ELSE 0)
    BY <1>2 DEF ClaimsOf
  <2>7. ClaimsOf(j, waiting, holder, reports, mailbox, lost)
          = waiting[j] + (IF holder = j THEN 1 ELSE 0) + Cardinality(About(reports, j))
            + Cardinality(InBox(mailbox, Outcomes, j)) + (IF j \in lost THEN 1 ELSE 0)
    BY DEF ClaimsOf
  <2>8. QED BY <1>4, <2>1, <2>2, <2>3, <2>4, <2>5, <2>6, <2>7
<1>5. Claims(j) = IF State(j) = "RUNNING" THEN 1 ELSE 0
  BY DEF OneWorker
<1>6. CASE m.cmd = "start" /\ UNCHANGED <<tasks, waiting, runs>>
  <2>1. Claims(j)' = Claims(j)
    <3>1. waiting'[j] = waiting[j] + 0
      BY <1>6 DEF EtlTypeOK
    <3>2. taken = 0
      BY <1>3, <1>6
    <3> HIDE DEF taken
    <3>3. QED BY <1>4, <1>5, <3>1, <3>2
  <2>2. QED BY <1>5, <1>6, <2>1 DEF State
<1>7. CASE /\ m.cmd \in Outcomes => State(m.id) = "RUNNING"
           /\ \E u \in Task, D \in SUBSET Ids :
                /\ Becomes(m, u) /\ Dispatches(m.id, u, D, tasks', spawned')
                /\ waiting' = [k \in Ids |-> waiting[k] + (IF k \in D THEN 1 ELSE 0)]
  <2>1. PICK u \in Task, D \in SUBSET Ids :
          /\ Becomes(m, u) /\ Dispatches(m.id, u, D, tasks', spawned')
          /\ waiting' = [k \in Ids |-> waiting[k] + (IF k \in D THEN 1 ELSE 0)]
    BY <1>7
  <2>2. Claims(j)' = Claims(j) + (IF j \in D THEN 1 ELSE 0) - taken
    <3>1. waiting'[j] = waiting[j] + (IF j \in D THEN 1 ELSE 0)
      BY <2>1
    <3> HIDE DEF taken
    <3>2. QED BY <1>4, <3>1
  <2>3. taken = IF m.id = j /\ m.cmd \in Outcomes THEN 1 ELSE 0
    OBVIOUS
  <2> HIDE DEF taken, m
  <2>4. CASE j \in D
    <3>1. State(j)' = "RUNNING"
      BY <2>1, <2>4 DEF Dispatches, State
    <3>2. j # m.id => State(j) = "PENDING"
      BY <2>1, <2>4 DEF Dispatches, State
    <3>3. j = m.id => IF m.cmd \in Outcomes THEN State(j) = "RUNNING" ELSE State(j) = "NONE"
      BY <1>3, <1>7, <2>1 DEF Becomes, State
    <3>4. QED BY <1>5, <2>2, <2>3, <2>4, <3>1, <3>2, <3>3
  <2>5. CASE j \notin D
    <3>1. CASE j = m.id
      <4>1. State(j)' # "RUNNING"
        BY <2>1, <2>5, <3>1 DEF Dispatches, Becomes, State
      <4>2. IF m.cmd \in Outcomes THEN State(j) = "RUNNING" ELSE State(j) = "NONE"
        BY <1>3, <1>7, <2>1, <3>1 DEF Becomes, State
      <4>3. QED BY <1>5, <2>2, <2>3, <2>5, <3>1, <4>1, <4>2
    <3>2. CASE j # m.id
      <4>1. State(j)' = State(j)
        BY <2>1, <2>5, <3>2 DEF Dispatches, State
      <4>2. QED BY <1>5, <2>2, <2>3, <2>5, <3>2, <4>1
    <3>3. QED BY <3>1, <3>2
  <2>6. QED BY <2>4, <2>5
<1>8. QED BY <1>6, <1>7, DeliverStep

\* No delivery makes a task resumable or changes its cap.
LEMMA DeliverPlain ==
  ASSUME Inv, EtlTypeOK, Plain, OneWorker, Deliver
  PROVE  Plain'
<1> DEFINE m == Head(mailbox)
<1>1. CASE UNCHANGED tasks
  BY <1>1 DEF Plain, State
<1>2. CASE \E u \in Task, D \in SUBSET Ids :
             Becomes(m, u) /\ Dispatches(m.id, u, D, tasks', spawned')
  <2>1. PICK u \in Task, D \in SUBSET Ids :
          Becomes(m, u) /\ Dispatches(m.id, u, D, tasks', spawned')
    BY <1>2
  <2>2. m.id \in Ids
    BY HeadMessage DEF Deliver
  <2> HIDE DEF m
  <2>3. u.resume = FALSE /\ u.max_attempts = MaxAttempts
    BY <2>1, <2>2 DEF Becomes, Plain, State
  <2>4. ASSUME NEW j \in Ids, State(j)' \in TaskStates
        PROVE  tasks'[j].resume = FALSE /\ tasks'[j].max_attempts = MaxAttempts
    <3>1. CASE j \in D
      BY <2>1, <2>3, <3>1 DEF Dispatches, Plain, State, TaskStates
    <3>2. CASE j \notin D
      BY <2>1, <2>3, <2>4, <3>2 DEF Dispatches, Plain, State
    <3>3. QED BY <3>1, <3>2
  <2>5. QED BY <2>4 DEF Plain
<1>3. QED BY <1>1, <1>2, DeliverStep

LEMMA DeliverCounted ==
  ASSUME Inv, EtlTypeOK, Plain, OneWorker, Counted, Budgeted, Deliver
  PROVE  Counted' /\ Budgeted'
<1> DEFINE m == Head(mailbox)
<1>1. CASE UNCHANGED <<tasks, runs>>
  BY <1>1 DEF Counted, Budgeted, State
<1>2. CASE /\ m.cmd \in Outcomes => State(m.id) = "RUNNING"
           /\ \E u \in Task, D \in SUBSET Ids :
                /\ Becomes(m, u) /\ Dispatches(m.id, u, D, tasks', spawned')
                /\ runs' = [k \in Ids |-> runs[k] + (IF k \in D THEN 1 ELSE 0)]
  <2>1. PICK u \in Task, D \in SUBSET Ids :
          /\ Becomes(m, u) /\ Dispatches(m.id, u, D, tasks', spawned')
          /\ runs' = [k \in Ids |-> runs[k] + (IF k \in D THEN 1 ELSE 0)]
    BY <1>2
  <2>2. m.id \in Ids
    BY HeadMessage DEF Deliver
  <2> HIDE DEF m
  <2>3. \A j \in Ids : runs[j] \in Nat /\ runs'[j] = runs[j] + (IF j \in D THEN 1 ELSE 0)
    BY <2>1 DEF EtlTypeOK
  \* The task of the message, before the dispatch.
  <2>4. /\ u.state \in {"PENDING", "FINISHED", "KILLED"}
        /\ u.state = "PENDING" =>
             \/ u.attempts = 0 /\ runs[m.id] = 0
             \/ u.attempts = runs[m.id] + 1 /\ runs[m.id] > 0
        /\ u.state = "FINISHED" => runs[m.id] > 0
        /\ u.state = "PENDING" /\ Retries > 0 => u.attempts <= Retries + 1
    <3>1. m.cmd = "start" => m.cmd \notin Outcomes
      BY DEF Outcomes
    <3>2. CASE m.cmd = "start"
      BY <2>1, <2>2, <3>1, <3>2, RunAssumption DEF Becomes, Counted, State
    <3>3. CASE m.cmd \in Outcomes
      <4>1. /\ State(m.id) = "RUNNING" /\ tasks[m.id] \in Task
            /\ tasks[m.id].attempts = runs[m.id] /\ runs[m.id] > 0
            /\ tasks[m.id].max_attempts = MaxAttempts
        BY <1>2, <2>2, <3>3, RegisteredTask DEF Counted, Plain, TaskStates, Inv
      <4>2. Retries > 0 /\ ~ Exhausted(tasks[m.id]) => runs[m.id] + 1 <= Retries + 1
        BY <2>2, <2>3, <4>1, RunAssumption DEF Exhausted, MaxAttempts
      <4>3. QED BY <2>1, <2>3, <3>1, <3>3, <4>1, <4>2 DEF Becomes
    <3>4. QED BY <2>1, <3>2, <3>3 DEF Becomes
  <2>5. ASSUME NEW j \in Ids
        PROVE  /\ State(j)' = "NONE" => runs'[j] = 0
               /\ State(j)' = "PENDING" =>
                    \/ tasks'[j].attempts = 0 /\ runs'[j] = 0
                    \/ tasks'[j].attempts = runs'[j] + 1 /\ runs'[j] > 0
               /\ State(j)' = "RUNNING" => tasks'[j].attempts = runs'[j] /\ runs'[j] > 0
               /\ State(j)' = "FINISHED" => runs'[j] > 0
               /\ Retries > 0 => /\ runs'[j] <= Retries + 1
                                 /\ State(j)' = "PENDING" => tasks'[j].attempts <= Retries + 1
    <3>1. CASE j \notin D
      <4>1. runs'[j] = runs[j]
        BY <2>3, <3>1
      <4>2. tasks'[j] = IF j = m.id THEN u ELSE tasks[j]
        BY <2>1, <3>1 DEF Dispatches
      <4>3. CASE j = m.id
        BY <2>4, <4>1, <4>2, <4>3 DEF State, Budgeted
      <4>4. CASE j # m.id
        BY <4>1, <4>2, <4>4 DEF State, Counted, Budgeted
      <4>5. QED BY <4>3, <4>4
    <3>2. CASE j \in D
      <4> DEFINE old == IF j = m.id THEN u ELSE tasks[j]
      <4>1. /\ old.state = "PENDING" /\ State(j)' = "RUNNING"
            /\ tasks'[j].attempts = AtLeast1(old.attempts)
            /\ runs'[j] = runs[j] + 1 /\ runs[j] \in Nat
        BY <2>1, <2>3, <3>2 DEF Dispatches, State
      <4>2. /\ \/ old.attempts = 0 /\ runs[j] = 0
               \/ old.attempts = runs[j] + 1 /\ runs[j] > 0
            /\ Retries > 0 => old.attempts <= Retries + 1
        <5>1. CASE j = m.id
          BY <2>4, <4>1, <5>1
        <5>2. CASE j # m.id
          BY <4>1, <5>2 DEF Counted, Budgeted, State
        <5>3. QED BY <5>1, <5>2
      <4> HIDE DEF old
      <4>3. QED BY <4>1, <4>2, RunAssumption DEF AtLeast1
    <3>3. QED BY <3>1, <3>2
  <2>6. QED BY <2>5 DEF Counted, Budgeted
<1>3. QED BY <1>1, <1>2, DeliverStep

\* The barrier and the verdict speak of tasks that a delivery leaves alone.
LEMMA DeliverBarrier ==
  ASSUME Inv, EtlInv, Deliver
  PROVE  Barrier' /\ Verdict'
<1> USE DEF EtlInv
<1>1. UNCHANGED <<pc, stage, sent, kills>> /\ mailbox' = Tail(mailbox)
  BY DEF Deliver, driverVars
<1>2. ASSUME NEW j \in Ids, State(j) \in Terminal
      PROVE  State(j)' = State(j)
  BY <1>2, DeliverKeeps DEF State
<1>3. ASSUME NEW j \in Ids, State(j) = "NONE", InMailbox({"start"}, j) = {}
      PROVE  State(j)' = "NONE" /\ InMailbox({"start"}, j)' = {}
  <2>1. tasks'[j] = tasks[j]
    BY <1>3, DeliverKeeps
  <2>2. InBox(mailbox, {"start"}, j) = {}
    BY <1>3 DEF InMailbox, InBox
  <2>3. InBox(mailbox', {"start"}, j) = {}
    BY <1>1, <2>2, InBoxTail DEF Deliver, EtlTypeOK
  <2>4. QED BY <1>3, <2>1, <2>3 DEF State, InMailbox, InBox
<1>4. \A s \in DOMAIN Plan : StageIds(s) \subseteq Ids
  BY PlanStages
<1>5. Barrier'
  BY <1>1, <1>2, <1>3, <1>4 DEF Barrier, Terminal
<1>6. Verdict'
  <2>1. \A i \in kills : State(i)' = "KILLED"
    BY <1>2 DEF Verdict, Terminal, EtlTypeOK
  <2>2. pc \in {"report", "done"} /\ kills = {} => \A i \in Planned : State(i)' = "FINISHED"
    BY <1>2, <1>4 DEF Verdict, Terminal, Planned
  <2>3. QED BY <1>1, <2>1, <2>2 DEF Verdict
<1>7. QED BY <1>5, <1>6

LEMMA DeliverInv ==
  ASSUME Inv, EtlInv, Deliver
  PROVE  EtlInv'
BY DeliverTypes, DeliverPlain, DeliverOneWorker, DeliverCounted, DeliverBarrier DEF EtlInv

-----------------------------------------------------------------------------
(* The workers and the driver.                                             *)

LEMMA OthersKeep ==
  ASSUME EtlInv, Driver \/ \E i \in Ids : WorkerOf(i) \/ Crash(i)
  PROVE  /\ EtlTypeOK' /\ OneWorker' /\ Plain' /\ Counted' /\ Budgeted'
         /\ UNCHANGED <<tasks, runs>>
<1>1. UNCHANGED runs
  BY DEF Driver, Submit, Submitted, Poll, Conclude, WorkerOf, Crash, Acquire, Reject,
         Complete, Report, Panic, NoThread
<1>2. UNCHANGED tasks
  BY OthersKeepKernel DEF vars
<1>3. Plain' /\ Counted' /\ Budgeted'
  BY <1>1, <1>2 DEF EtlInv, Plain, Counted, Budgeted, State
<1>4. EtlTypeOK' /\ OneWorker'
  BY WorkerTypes, DriverTypes, OthersOneWorker DEF EtlInv
<1>5. QED BY <1>1, <1>2, <1>3, <1>4

LEMMA WorkerInv ==
  ASSUME EtlInv, NEW i \in Ids, WorkerOf(i) \/ Crash(i)
  PROVE  EtlInv'
<1>1. UNCHANGED <<tasks, pc, stage, kills>>
  BY OthersKeep
  DEF WorkerOf, Crash, Acquire, Reject, Complete, Report, Panic, NoThread, driverVars
<1>2. ASSUME NEW j, InMailbox({"start"}, j) = {}
      PROVE  InMailbox({"start"}, j)' = {}
  <2>1. CASE mailbox' = mailbox
    BY <1>2, <2>1 DEF InMailbox
  <2>2. CASE \E m \in reports : Report(m)
    <3>1. PICK m \in reports : mailbox' = Append(mailbox, m)
      BY <2>2 DEF Report
    <3>2. m \in Message /\ m.cmd # "start" /\ mailbox \in Seq(Message)
      BY DEF EtlInv, EtlTypeOK, Message, Outcomes
    <3>3. InBox(mailbox, {"start"}, j) = {}
      BY <1>2 DEF InMailbox, InBox
    <3>4. InBox(mailbox', {"start"}, j) = {}
      BY <3>1, <3>2, <3>3, InBoxAppend
    <3>5. QED BY <3>4 DEF InMailbox, InBox
  <2>3. QED
    BY <2>1, <2>2 DEF WorkerOf, Crash, Acquire, Reject, Complete, Panic, NoThread
<1>3. Barrier' /\ Verdict'
  BY <1>1, <1>2 DEF EtlInv, Barrier, Verdict, State
<1>4. QED BY <1>3, OthersKeep DEF EtlInv

LEMMA SubmitInv ==
  ASSUME EtlInv, Submit
  PROVE  EtlInv'
<1> DEFINE m == StartMsg(Plan[stage][sent + 1])
<1>1. UNCHANGED <<tasks, pc, stage, kills>> /\ mailbox' = Append(mailbox, m)
  BY OthersKeep DEF Driver, Submit, vars
<1>2. stage \in DOMAIN Plan /\ sent + 1 \in 1..Len(Plan[stage]) /\ mailbox \in Seq(Message)
  BY PlanStages DEF EtlInv, EtlTypeOK, Submit
<1>3. m \in Message /\ m.id \in StageIds(stage)
  BY <1>2, StageTask
<1> HIDE DEF m
<1>4. ASSUME NEW t \in DOMAIN Plan, stage < t, NEW j \in StageIds(t),
             InMailbox({"start"}, j) = {}
      PROVE  InMailbox({"start"}, j)' = {}
  <2>1. m.id # j
    <3>1. stage # t
      BY <1>2, <1>4, PlanStages
    <3>2. QED BY <1>2, <1>3, <1>4, <3>1, PlanAssumption
  <2>2. InBox(mailbox, {"start"}, j) = {}
    BY <1>4 DEF InMailbox, InBox
  <2>3. InBox(mailbox', {"start"}, j) = {}
    BY <1>1, <1>2, <1>3, <2>1, <2>2, InBoxAppend
  <2>4. QED BY <2>3 DEF InMailbox, InBox
<1>5. Barrier' /\ Verdict'
  BY <1>1, <1>4 DEF EtlInv, Barrier, Verdict, State
<1>6. QED BY <1>5, OthersKeep DEF EtlInv, Driver

\* The driver leaves a stage when it is over: the barrier holds one stage on.
LEMMA NextStage ==
  ASSUME EtlInv, UNCHANGED <<tasks, mailbox>>, stage' = stage + 1,
         \A i \in StageIds(stage) : State(i) = "FINISHED"
  PROVE  Barrier'
<1>1. DOMAIN Plan \subseteq Nat /\ stage \in DOMAIN Plan
  BY PlanStages DEF EtlInv, EtlTypeOK
<1>2. \A s \in DOMAIN Plan : s < stage + 1 <=> s < stage \/ s = stage
  BY <1>1
<1>3. \A t \in DOMAIN Plan : stage + 1 < t => stage < t
  BY <1>1
<1>4. \A j : State(j)' = State(j) /\ InMailbox({"start"}, j)' = InMailbox({"start"}, j)
  BY DEF State, InMailbox
<1>5. QED BY <1>2, <1>3, <1>4 DEF EtlInv, Barrier

\* At the last stage, all of the plan has finished.
LEMMA LastStage ==
  ASSUME EtlInv, stage = Len(Plan), \A i \in StageIds(stage) : State(i) = "FINISHED"
  PROVE  \A i \in Planned : State(i) = "FINISHED"
<1>1. \A s \in DOMAIN Plan : s < stage \/ s = stage
  BY PlanStages
<1>2. QED BY <1>1 DEF EtlInv, Barrier, Planned

LEMMA SubmittedInv ==
  ASSUME EtlInv, Submitted
  PROVE  EtlInv'
<1>1. UNCHANGED <<tasks, mailbox, kills>> /\ kills = {}
  BY OthersKeep DEF Driver, Submitted, vars, EtlInv, Verdict
<1>2. Plan[stage] = <<>> => StageIds(stage) = {}
  BY DEF StageIds
<1>3. stage' = stage \/ (stage' = stage + 1 /\ Plan[stage] = <<>>)
  BY DEF Submitted
<1>4. Barrier'
  <2>1. CASE stage' = stage
    BY <1>1, <2>1 DEF EtlInv, Barrier, State, InMailbox
  <2>2. CASE stage' = stage + 1 /\ Plan[stage] = <<>>
    BY <1>1, <1>2, <2>2, NextStage
  <2>3. QED BY <1>3, <2>1, <2>2
<1>5. Verdict'
  <2>1. pc' \in {"wait", "submit", "report"}
    BY DEF Submitted
  <2>2. pc' = "report" => Plan[stage] = <<>> /\ stage = Len(Plan)
    BY DEF Submitted
  <2>3. pc' = "report" => \A i \in Planned : State(i) = "FINISHED"
    BY <1>2, <2>2, LastStage
  <2>4. QED BY <1>1, <2>1, <2>3 DEF Verdict, State
<1>6. QED BY <1>4, <1>5, OthersKeep DEF EtlInv, Driver

LEMMA PollInv ==
  ASSUME Inv, EtlInv, Poll
  PROVE  EtlInv'
<1>1. UNCHANGED <<tasks, mailbox>> /\ snapshot = tasks
  BY OthersKeep DEF Driver, Poll, vars, Inv, SnapshotCurrent
<1>2. kills' = {i \in StageIds(stage) : State(i) = "KILLED"}
  BY <1>1 DEF Poll, InStage, State
<1>3. kills' = {} => \A i \in StageIds(stage) : State(i) = "FINISHED"
  BY <1>1 DEF Poll, InStage, State
<1>4. stage \in DOMAIN Plan /\ DOMAIN Plan = 1..Len(Plan) /\ Len(Plan) \in Nat
  BY PlanStages DEF EtlInv, EtlTypeOK
<1>5. CASE kills' = {} /\ stage < Len(Plan)
  <2>1. pc' = "submit" /\ stage' = stage + 1
    BY <1>5 DEF Poll
  <2>2. Barrier'
    BY <1>1, <1>3, <1>5, <2>1, NextStage
  <2>3. Verdict'
    BY <1>5, <2>1 DEF Verdict
  <2>4. QED BY <2>2, <2>3, OthersKeep DEF EtlInv, Driver
<1>6. CASE ~ (kills' = {} /\ stage < Len(Plan))
  <2>1. pc' = "report" /\ stage' = stage
    BY <1>6 DEF Poll
  <2>2. Barrier'
    BY <1>1, <2>1 DEF EtlInv, Barrier, State, InMailbox
  <2>3. kills' = {} => \A i \in Planned : State(i) = "FINISHED"
    BY <1>3, <1>4, <1>6, LastStage
  <2>4. Verdict'
    BY <1>1, <1>2, <2>1, <2>3 DEF Verdict, State
  <2>5. QED BY <2>2, <2>4, OthersKeep DEF EtlInv, Driver
<1>7. QED BY <1>5, <1>6

LEMMA ConcludeInv ==
  ASSUME EtlInv, Conclude
  PROVE  EtlInv'
<1>1. UNCHANGED <<tasks, mailbox, stage, kills>> /\ pc = "report" /\ pc' = "done"
  BY OthersKeep DEF Driver, Conclude, vars
<1>2. Barrier' /\ Verdict'
  BY <1>1 DEF EtlInv, Barrier, Verdict, State, InMailbox
<1>3. QED BY <1>2, OthersKeep DEF EtlInv, Driver

-----------------------------------------------------------------------------
LEMMA EtlInitInv == EtlInit => EtlInv
<1> SUFFICES ASSUME EtlInit PROVE EtlInv
  OBVIOUS
<1>1. /\ EtlTypeOK
      /\ \A i \in Ids : State(i) = "NONE" /\ tasks[i] = NoTask
      /\ mailbox = <<>> /\ stage = 1 /\ kills = {} /\ pc = "submit"
      /\ \A i \in Ids : waiting[i] = 0 /\ runs[i] = 0
      /\ holder \notin Ids /\ reports = {} /\ lost = {}
  BY InitTypes, RunAssumption DEF EtlInit, Init, State, NoTask
<1>2. Plain /\ Counted /\ Budgeted /\ Verdict
  BY <1>1, RunAssumption DEF Plain, Counted, Budgeted, Verdict, TaskStates
<1>3. \A S, i : InMailbox(S, i) = {}
  BY <1>1 DEF InMailbox
<1>4. Barrier
  BY <1>1, <1>3, PlanStages DEF Barrier
<1>5. OneWorker
  <2>1. ASSUME NEW i \in Ids PROVE Claims(i) = 0
    <3>1. {m \in reports : m.id = i} = {} /\ InMailbox(Outcomes, i) = {}
      BY <1>1, <1>3
    <3>2. Cardinality({m \in reports : m.id = i}) = 0 /\ Cardinality(InMailbox(Outcomes, i)) = 0
      BY <3>1, FS_EmptySet
    <3>3. QED BY <1>1, <3>2 DEF Claims
  <2>2. QED BY <1>1, <2>1 DEF OneWorker
<1>6. QED BY <1>1, <1>2, <1>4, <1>5 DEF EtlInv

LEMMA EtlStepInv ==
  ASSUME Inv, EtlInv, [EtlNext]_etlVars
  PROVE  EtlInv'
<1>1. CASE EtlNext
  BY <1>1, DeliverInv, WorkerInv, SubmitInv, SubmittedInv, PollInv, ConcludeInv
  DEF EtlNext, Driver
<1>2. CASE UNCHANGED etlVars
  <2>1. UNCHANGED <<tasks, mailbox, waiting, holder, reports, lost, runs, pc, stage, sent, kills>>
    BY <1>2 DEF etlVars, vars, workerVars, driverVars
  <2>2. EtlTypeOK' /\ Plain' /\ Counted' /\ Budgeted' /\ Verdict'
    BY <2>1 DEF EtlInv, EtlTypeOK, Plain, Counted, Budgeted, Verdict, State
  <2>3. Barrier' /\ OneWorker'
    BY <2>1 DEF EtlInv, Barrier, OneWorker, Claims, State, InMailbox
  <2>4. QED BY <2>2, <2>3 DEF EtlInv
<1>3. QED BY <1>1, <1>2

\* What the driver, the kernel and the workers keep true between them.
THEOREM EtlInvariance == EtlSpec => []EtlInv
<1>1. Inv /\ EtlInv /\ [EtlNext]_etlVars => EtlInv'
  BY EtlStepInv
<1>2. EtlSpec => []Inv
  BY EtlKernel, Invariance, PTL
<1>3. QED BY EtlInitInv, <1>1, <1>2, PTL DEF EtlSpec

\* A running task has one worker thread or one report on its way and no other task
\* has any: EtlHook spawns a thread for every dispatch and for nothing else.
THEOREM OneWorkerEach == EtlSpec => []OneWorker
BY EtlInvariance, PTL DEF EtlInv

\* run_scheduled starts no task of a stage before all tasks of the earlier stages
\* have finished.
THEOREM StagesInOrder == EtlSpec => []StageBarrier
<1>1. EtlInv => StageBarrier
  <2> SUFFICES ASSUME EtlInv, NEW s \in DOMAIN Plan, NEW t \in DOMAIN Plan, s < t,
                      NEW j \in StageIds(t),
                      State(j) # "NONE" \/ InMailbox({"start"}, j) # {},
                      NEW i \in StageIds(s)
               PROVE  State(i) = "FINISHED"
    BY DEF StageBarrier
  <2>1. DOMAIN Plan \subseteq Nat /\ stage \in DOMAIN Plan
    BY PlanStages DEF EtlInv, EtlTypeOK
  <2>2. ~ (stage < t)
    BY DEF EtlInv, Barrier
  <2>3. s < stage
    BY <2>1, <2>2
  <2>4. QED BY <2>3 DEF EtlInv, Barrier
<1>2. QED BY <1>1, EtlInvariance, PTL

\* A run that ends without a killed task has run every pipeline of the plan to its
\* end, and the tasks it names as killed are killed.
THEOREM VerdictIsTrue == EtlSpec => []OkMeansFinished
<1>1. EtlInv => OkMeansFinished
  <2>1. Planned \subseteq Ids
    BY PlanStages DEF Planned
  <2>2. QED BY <2>1 DEF EtlInv, OkMeansFinished, Verdict, Counted
<1>2. QED BY <1>1, EtlInvariance, PTL

\* With retries > 0 no pipeline is given to a worker more than retries + 1 times.
\* (At retries = 0 the kernel's cap is off, and this fails: see the run no_retries.)
THEOREM RunsAreBudgeted ==
  ASSUME Retries # 0
  PROVE  EtlSpec => []RunBudget
<1>1. EtlInv => RunBudget
  BY RunAssumption DEF EtlInv, Budgeted, RunBudget
<1>2. QED BY <1>1, EtlInvariance, PTL
=============================================================================
