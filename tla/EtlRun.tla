-------------------------------- MODULE EtlRun --------------------------------
(***************************************************************************)
(* One scheduled ETL run (src/etl_sched.rs): the driver run_scheduled, the  *)
(* scheduler kernel it boots, and the worker threads of EtlHook.  The       *)
(* driver submits the tasks of a stage, polls the snapshot until the stage  *)
(* is over or a task was killed, and goes on or aborts.  Each dispatch      *)
(* spawns a worker thread, which takes the mutex of the shared store, runs  *)
(* its pipeline to the end while it holds it, and reports what came of it   *)
(* to the kernel's mailbox, which also carries the driver's commands.       *)
(*                                                                         *)
(* The kernel is module Scheduler, driven by this mailbox alone.  No task   *)
(* is ever parked here (workers retry with a delay of 0), so the timer's    *)
(* dispatch would find nothing to do and is left out.                       *)
(***************************************************************************)
EXTENDS Scheduler, Sequences

CONSTANTS
  Plan,        \* the stages, each a sequence of [id, priority]
  Workers,     \* the workers argument
  Legacy,      \* the configuration has no execution section
  Retries,     \* the retries argument
  SoftBound    \* bound: dispatches after which a task may still fail softly

VARIABLES
  mailbox,   \* messages on their way to the actor, in order
  waiting,   \* worker threads of each task that wait for the store
  holder,    \* the task whose worker holds the store's mutex, or NoTask
  reports,   \* reports of workers that have released the store
  poisoned,  \* a worker panicked while it held the mutex
  lost,      \* tasks whose worker vanished without a report
  runs,      \* times each task's pipeline was given to a worker
  pc,        \* the driver: "submit", "wait", "report", "done"
  stage,     \* the stage the driver is at
  sent,      \* tasks of it that were submitted
  kills      \* killed tasks the driver has seen

workerVars == <<waiting, holder, reports, poisoned, lost>>
driverVars == <<pc, stage, sent, kills>>
etlVars == <<vars, mailbox, workerVars, runs, driverVars>>

StageIds(s) == {Plan[s][k].id : k \in DOMAIN Plan[s]}
Planned == UNION {StageIds(s) : s \in DOMAIN Plan}

Msg(c, i) == [cmd |-> c, id |-> i]
StartMsg(e) == [cmd |-> "start", id |-> e.id, priority |-> e.priority]
Outcomes == {"finish", "reschedule", "kill"}

RunSlots == IF Legacy THEN 1 ELSE AtLeast1(Workers)

\* "total attempts = retries + 1"
MaxAttempts == IF Retries = 0 THEN 0 ELSE Retries + 1

\* What build_plan and the checks before it guarantee: there is a pipeline, hence a
\* stage, and the id of a task begins with the number of its stage.
ASSUME PlanAssumption ==
  /\ Plan \in Seq(Seq([id : Ids, priority : Priorities])) \ {<<>>}
  /\ \A s, t \in DOMAIN Plan : s # t => StageIds(s) \cap StageIds(t) = {}

ASSUME RunAssumption ==
  /\ Workers \in Nat /\ Retries \in Nat
  /\ MaxAttempts \in RetryCaps /\ Infos # {}
  /\ NoTask \notin Ids

-----------------------------------------------------------------------------
(* The kernel takes the next message.                                      *)

TheInfo == CHOOSE n \in Infos : TRUE

Takes(m) ==
  \/ m.cmd = "start" /\ Start(m.id, m.priority, MaxAttempts, TheInfo)
  \/ m.cmd = "finish" /\ Finish(m.id, NoCheckpoint)
  \/ m.cmd = "kill" /\ Kill(m.id)
  \/ m.cmd = "reschedule" /\ Reschedule(m.id, FALSE)

Ignores(m) ==
  \/ m.cmd = "start" /\ State(m.id) # "NONE"
  \/ m.cmd = "finish" /\ State(m.id) # "RUNNING"
  \/ m.cmd = "kill" /\ State(m.id) \notin TaskStates \ Terminal

\* Mutant of SpawnWorkers: on_reschedule starts the next attempt as well.
SpawnTwice(i) ==
  Cardinality({h \in {"on_start", "on_reschedule"} : Call(h, i) \in spawned'})

\* EtlHook has work to do in on_start only; its thread goes for the store.
SpawnWorkers(i) == IF Call("on_start", i) \in spawned' THEN 1 ELSE 0

Deliver ==
  /\ mailbox # <<>>
  /\ mailbox' = Tail(mailbox)
  /\ \/ /\ Takes(Head(mailbox))
        /\ waiting' = [i \in Ids |-> waiting[i] + SpawnWorkers(i)]
        /\ runs' = [i \in Ids |-> runs[i] + SpawnWorkers(i)]
     \/ /\ Ignores(Head(mailbox))
        /\ UNCHANGED <<vars, waiting, runs>>
  /\ UNCHANGED <<holder, reports, poisoned, lost, driverVars>>

-----------------------------------------------------------------------------
(* The worker threads.                                                     *)

Acquire(i) ==
  /\ waiting[i] > 0 /\ holder = NoTask /\ ~ poisoned
  /\ holder' = i
  /\ waiting' = [waiting EXCEPT ![i] = @ - 1]
  /\ UNCHANGED <<vars, mailbox, reports, poisoned, lost, runs, driverVars>>

\* A payload that does not parse is a hard failure; so is "pipeline '<name>' failed:
\* shared store poisoned", unless the name holds one of is_retryable's keywords.
Reject(i, outcome) ==
  /\ waiting[i] > 0
  /\ outcome = "reschedule" => poisoned /\ runs[i] <= SoftBound
  /\ waiting' = [waiting EXCEPT ![i] = @ - 1]
  /\ reports' = reports \cup {Msg(outcome, i)}
  /\ UNCHANGED <<vars, mailbox, holder, poisoned, lost, runs, driverVars>>

\* The pipeline returns, and with it the mutex is released.
Complete(i, outcome) ==
  /\ holder = i
  /\ outcome = "reschedule" => runs[i] <= SoftBound
  /\ holder' = NoTask
  /\ reports' = reports \cup {Msg(outcome, i)}
  /\ UNCHANGED <<vars, mailbox, waiting, poisoned, lost, runs, driverVars>>

Report(m) ==
  /\ m \in reports
  /\ reports' = reports \ {m}
  /\ mailbox' = Append(mailbox, m)
  /\ UNCHANGED <<vars, waiting, holder, poisoned, lost, runs, driverVars>>

\* The pipeline panics: the thread dies with the mutex in its hands.
Panic(i) ==
  /\ holder = i
  /\ holder' = NoTask
  /\ poisoned' = TRUE
  /\ lost' = lost \cup {i}
  /\ UNCHANGED <<vars, mailbox, waiting, reports, runs, driverVars>>

\* spawn_thread drops the error of a thread that cannot be created.
NoThread(i) ==
  /\ waiting[i] > 0
  /\ waiting' = [waiting EXCEPT ![i] = @ - 1]
  /\ lost' = lost \cup {i}
  /\ UNCHANGED <<vars, mailbox, holder, reports, poisoned, runs, driverVars>>

-----------------------------------------------------------------------------
(* The driver.                                                             *)

Submit ==
  /\ pc = "submit"
  /\ sent < Len(Plan[stage])
  /\ sent' = sent + 1
  /\ mailbox' = Append(mailbox, StartMsg(Plan[stage][sent + 1]))
  /\ UNCHANGED <<vars, workerVars, runs, pc, stage, kills>>

\* Mutant of Submitted: the driver submits every stage at once.
SubmittedAhead ==
  /\ pc = "submit"
  /\ sent = Len(Plan[stage])
  /\ pc' = IF stage = Len(Plan) THEN "wait" ELSE "submit"
  /\ stage' = IF stage < Len(Plan) THEN stage + 1 ELSE stage
  /\ sent' = 0
  /\ UNCHANGED <<vars, mailbox, workerVars, runs, kills>>

\* An empty stage (a partition of an empty universe) is passed over.
Submitted ==
  /\ pc = "submit"
  /\ sent = Len(Plan[stage])
  /\ pc' = IF Plan[stage] # <<>> THEN "wait"
           ELSE IF stage = Len(Plan) THEN "report" ELSE "submit"
  /\ stage' = IF Plan[stage] = <<>> /\ stage < Len(Plan) THEN stage + 1 ELSE stage
  /\ sent' = 0
  /\ UNCHANGED <<vars, mailbox, workerVars, runs, kills>>

InStage(S) == {i \in StageIds(stage) : snapshot[i].state \in S}

\* Mutant of Poll: a task that has no row yet does not count as active.
PollUnregistered ==
  /\ pc = "wait"
  /\ \/ InStage({"KILLED"}) # {}
     \/ StageIds(stage) = InStage({"NONE", "FINISHED"})
  /\ kills' = InStage({"KILLED"})
  /\ pc' = IF kills' = {} /\ stage < Len(Plan) THEN "submit" ELSE "report"
  /\ stage' = IF pc' = "submit" THEN stage + 1 ELSE stage
  /\ UNCHANGED <<vars, mailbox, workerVars, runs, sent>>

\* One look at the snapshot; if the stage is still active, the driver sleeps.
Poll ==
  /\ pc = "wait"
  /\ \/ InStage({"KILLED"}) # {}
     \/ StageIds(stage) = InStage({"FINISHED"})
  /\ kills' = InStage({"KILLED"})
  /\ pc' = IF kills' = {} /\ stage < Len(Plan) THEN "submit" ELSE "report"
  /\ stage' = IF pc' = "submit" THEN stage + 1 ELSE stage
  /\ UNCHANGED <<vars, mailbox, workerVars, runs, sent>>

\* The final query, the result, and close(), which nobody waits for.
Conclude ==
  /\ pc = "report"
  /\ pc' = "done"
  /\ UNCHANGED <<vars, mailbox, workerVars, runs, stage, sent, kills>>

-----------------------------------------------------------------------------
EtlInit ==
  /\ Init
  /\ slots = RunSlots
  /\ mailbox = <<>>
  /\ waiting = [i \in Ids |-> 0]
  /\ holder = NoTask
  /\ reports = {}
  /\ poisoned = FALSE
  /\ lost = {}
  /\ runs = [i \in Ids |-> 0]
  /\ pc = "submit" /\ stage = 1 /\ sent = 0
  /\ kills = {}

Driver == Submit \/ Submitted \/ Poll \/ Conclude

WorkerOf(i) == \/ Acquire(i)
               \/ \E outcome \in Outcomes \ {"finish"} : Reject(i, outcome)
               \/ \E outcome \in Outcomes : Complete(i, outcome)
               \/ \E m \in reports : m.id = i /\ Report(m)

Crash(i) == Panic(i) \/ NoThread(i)

EtlNext == Deliver \/ Driver \/ \E i \in Ids : WorkerOf(i) \/ Crash(i)

(***************************************************************************)
(* The actor's thread, the driver's thread and the workers keep going; the *)
(* actor until close() stops it, after which it may drop what is left.     *)
(* The mutex need not be fair: some waiting worker gets it.                *)
(***************************************************************************)
EtlFairness == /\ WF_etlVars(pc # "done" /\ Deliver)
               /\ WF_etlVars(Driver)
               /\ WF_etlVars(\E i \in Ids : WorkerOf(i))

EtlSpec == EtlInit /\ [][EtlNext]_etlVars /\ EtlFairness

-----------------------------------------------------------------------------
(* Properties.                                                             *)

InMailbox(S, i) == {k \in DOMAIN mailbox : mailbox[k].id = i /\ mailbox[k].cmd \in S}

\* What is left of the dispatches of task i: threads that wait, hold the store or
\* are about to report, reports the actor has not taken, threads that vanished.
Claims(i) ==
  waiting[i] + (IF holder = i THEN 1 ELSE 0)
  + Cardinality({m \in reports : m.id = i})
  + Cardinality(InMailbox(Outcomes, i))
  + (IF i \in lost THEN 1 ELSE 0)

\* A running task has one worker or one report on its way, any other task has
\* none: two attempts never overlap, no report is applied to a later attempt, and
\* a task whose thread vanished is the only one that stays running for ever.
OneWorker ==
  \A i \in Ids : Claims(i) = IF State(i) = "RUNNING" THEN 1 ELSE 0

\* "stages run serially (a data-flow/ordering barrier)" (docs/scheduler.md:262):
\* no task of a stage exists, or is even on its way to the actor, before every
\* task of the earlier stages has finished; so it finds their tables written.
StageBarrier ==
  \A s, t \in DOMAIN Plan : s < t =>
    \A j \in StageIds(t) :
      State(j) # "NONE" \/ InMailbox({"start"}, j) # {}
        => \A i \in StageIds(s) : State(i) = "FINISHED"

\* A run that returns ok has run every pipeline of the plan to its end; one that
\* does not has a killed task to show for it.
OkMeansFinished ==
  pc = "done" =>
    IF kills = {} THEN \A i \in Planned : State(i) = "FINISHED" /\ runs[i] > 0
                  ELSE \A i \in kills : State(i) = "KILLED"

\* src/etl_sched.rs:445: "`retries` = extra attempts after the first; total
\* attempts = retries + 1".  No pipeline is run more often.
RunBudget == \A i \in Ids : runs[i] <= Retries + 1

\* run_scheduled returns, however its tasks fail, unless a worker thread vanishes
\* without a report.
DriverReturns == <>(pc = "done") \/ <>(lost # {})
=============================================================================
