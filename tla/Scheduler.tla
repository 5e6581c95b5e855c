------------------------------ MODULE Scheduler ------------------------------
(***************************************************************************)
(* The scheduler kernel (src/scheduler.rs): one actor that owns a task     *)
(* registry, a priority queue, a list of delayed retries and a number of   *)
(* concurrency slots.  Each message handler runs to completion before the  *)
(* next one starts, so a handler is one action.  Most handlers end by      *)
(* calling dispatch(), which pops the queue while a slot is free; its      *)
(* whole loop is part of the handler's action (module SchedulerLoop models *)
(* it pop by pop and refines this module).                                 *)
(*                                                                         *)
(* The environment is open: any client or worker may send any command      *)
(* about any task at any time, in any order, which subsumes late, repeated *)
(* and reordered messages.  RestoreOver and RescheduleFrom narrow it.      *)
(***************************************************************************)
EXTENDS Integers, FiniteSets

CONSTANTS
  Ids,             \* task ids clients may use
  Priorities,      \* priorities a start may carry
  RetryCaps,       \* values of max_attempts a start may carry (0: no cap)
  Checkpoints,     \* checkpoint payloads
  NoCheckpoint,    \* checkpoint: None
  Infos,           \* info payloads
  SlotCounts,      \* slot counts asked of new() and of set_slots
  Images,          \* task records that a restore may carry
  RestoreOver,     \* states a task may be in when a restore overwrites it
  RescheduleFrom,  \* states a task may be in when a reschedule arrives
  OrderBound,      \* bound: the order a key may be given
  AttemptBound     \* bound: attempts counted by a reschedule

TaskStates == {"PENDING", "RUNNING", "PAUSED", "FINISHED", "KILLED"}
Terminal == {"FINISHED", "KILLED"}
OptCheckpoint == Checkpoints \cup {NoCheckpoint}

Task == [state : TaskStates, priority : Nat, attempts : Nat, max_attempts : Nat,
         resume : BOOLEAN, checkpoint : OptCheckpoint, info : Infos]

ASSUME IdsAssumption == IsFiniteSet(Ids)
ASSUME InputAssumption ==
  /\ Priorities \subseteq Nat
  /\ RetryCaps \subseteq Nat
  /\ SlotCounts \subseteq Nat
  /\ Images \subseteq Task
ASSUME CheckpointAssumption == NoCheckpoint \notin Checkpoints
ASSUME BoundAssumption == OrderBound \in Nat /\ AttemptBound \in Nat

VARIABLES
  tasks,     \* the registry; an id that is not registered holds NoTask
  queue,     \* the heap, as a set: keys have distinct orders
  delayed,   \* keys of retries whose deadline has not been noticed yet
  slots, running, order,
  snapshot,  \* the rows query() returns, by id
  spawned    \* the hook threads the last handler spawned

vars == <<tasks, queue, delayed, slots, running, order, snapshot, spawned>>

NoTask == [state |-> "NONE"]
MaybeTask == Task \cup {NoTask}
HeapKey == [id : Ids, priority : Nat, order : Nat]
HookCall == [hook : {"on_start", "on_resume", "on_pause", "on_finish",
                     "on_kill", "on_reschedule"},
             id : Ids]

Key(i, p, o) == [id |-> i, priority |-> p, order |-> o]
Call(h, i) == [hook |-> h, id |-> i]

\* Mutant of Before: equals leave the heap last in, first out.
LifoBefore(j, k) == \/ j.priority > k.priority
                    \/ j.priority = k.priority /\ j.order > k.order

\* The heap's order: higher priority first, then first in, first out.
Before(j, k) == \/ j.priority > k.priority
                \/ j.priority = k.priority /\ j.order < k.order

AtLeast1(n) == IF n > 1 THEN n ELSE 1
Dec(n) == IF n > 0 THEN n - 1 ELSE 0                \* saturating_sub(1)
\* Mutant of OrKeep: a command without a checkpoint overwrites the old one.
Overwrite(c, old) == c

OrKeep(c, old) == IF c = NoCheckpoint THEN old ELSE c

State(i) == tasks[i].state

-----------------------------------------------------------------------------
(***************************************************************************)
(* A handler computes the actor's next state e from Current, and dispatch  *)
(* continues from e.                                                       *)
(***************************************************************************)
Current == [tasks |-> tasks, queue |-> queue, delayed |-> delayed,
            slots |-> slots, running |-> running, order |-> order]

\* Keys dispatch would start a task from, if slots were never short: the best
\* key of each pending task.  Every other key is stale when it is popped.
Fresh(e) ==
  {k \in e.queue : /\ e.tasks[k.id].state = "PENDING"
                   /\ ~ \E j \in e.queue : j.id = k.id /\ Before(j, k)}

\* Mutant of Popped: the loop tests running <= slots.
PoppedOneMore(e) ==
  {k \in e.queue :
     Cardinality({j \in Fresh(e) : Before(j, k)}) <= e.slots - e.running}

\* Keys popped before the queue is empty or the slots are full.
Popped(e) ==
  {k \in e.queue :
     Cardinality({j \in Fresh(e) : Before(j, k)}) < e.slots - e.running}

Started(e) == {k.id : k \in Popped(e) \cap Fresh(e)}

Run(t) == [t EXCEPT !.state = "RUNNING", !.attempts = AtLeast1(@), !.resume = FALSE]

DispatchCalls(e) ==
  {Call(IF e.tasks[i].resume THEN "on_resume" ELSE "on_start", i) : i \in Started(e)}

Dispatched(e) ==
  [e EXCEPT !.tasks = [i \in Ids |-> IF i \in Started(e) THEN Run(e.tasks[i])
                                     ELSE e.tasks[i]],
            !.queue = @ \ Popped(e),
            !.running = @ + Cardinality(Started(e))]

\* A handler that ends without dispatching: the actor becomes e, the rows of
\* the ids it synced are patched, and the threads of calls are spawned.
Handled(e, synced, calls) ==
  /\ tasks' = e.tasks
  /\ queue' = e.queue
  /\ delayed' = e.delayed
  /\ slots' = e.slots
  /\ running' = e.running
  /\ order' = e.order
  /\ snapshot' = [i \in Ids |-> IF i \in synced THEN e.tasks[i] ELSE snapshot[i]]
  /\ spawned' = calls

\* Mutant of HandledThenDispatched: dispatch leaves the rows of its tasks alone.
DispatchedUnsynced(e, synced, calls) ==
  Handled(Dispatched(e), synced, calls \cup DispatchCalls(e))

\* A handler that ends with dispatch(), which syncs what it starts.
HandledThenDispatched(e, synced, calls) ==
  Handled(Dispatched(e), synced \cup Started(e), calls \cup DispatchCalls(e))

-----------------------------------------------------------------------------
(* What the handlers make of the task they are about.                      *)

NewTask(p, m, n) ==
  [state |-> "PENDING", priority |-> p, attempts |-> 0, max_attempts |-> m,
   resume |-> FALSE, checkpoint |-> NoCheckpoint, info |-> n]

Paused(t, c) == [t EXCEPT !.state = "PAUSED", !.checkpoint = OrKeep(c, @)]
Resumed(t, c) == [t EXCEPT !.state = "PENDING", !.resume = TRUE,
                           !.checkpoint = OrKeep(c, @)]
Finished(t, c) == [t EXCEPT !.state = "FINISHED", !.checkpoint = OrKeep(c, @)]
Killed(t) == [t EXCEPT !.state = "KILLED"]

\* Mutant of Exhausted: one attempt too many.
ExhaustedLate(t) == t.max_attempts > 0 /\ t.attempts > t.max_attempts

Exhausted(t) == t.max_attempts > 0 /\ t.attempts + 1 > t.max_attempts
GivenUp(t) == [t EXCEPT !.state = "KILLED", !.attempts = @ + 1]
\* Mutant of Retried: the attempt is not counted.
RetriedUncounted(t) == [t EXCEPT !.state = "PENDING", !.resume = FALSE]

Retried(t) == [t EXCEPT !.state = "PENDING", !.attempts = @ + 1, !.resume = FALSE]

Restored(t) ==
  IF t.state \in Terminal THEN t
  ELSE [t EXCEPT !.state = "PENDING", !.resume = t.state \in {"RUNNING", "PAUSED"}]

-----------------------------------------------------------------------------
(* What each handler does to the actor before it dispatches.               *)

\* Mutants of Released: no test of was_running, with and without saturation; and
\* no slot given back at all.
ReleasedUntested(i) == Dec(running)
ReleasedUnguarded(i) == running - 1
NotReleased(i) == running

\* running after task i leaves the state it is in.
Released(i) == IF State(i) = "RUNNING" THEN Dec(running) ELSE running

\* t takes the place of task i, which gives up the slot it may hold.
Replace(i, t) == [Current EXCEPT !.tasks[i] = t, !.running = Released(i)]

\* t takes the place of task i and a new key for it is queued, or parked until
\* the deadline of its retry.
ReplaceAndQueue(i, t, parked) ==
  LET key == Key(i, t.priority, order)
  IN [Replace(i, t) EXCEPT !.queue = IF parked THEN @ ELSE @ \cup {key},
                           !.delayed = IF parked THEN @ \cup {key} ELSE @,
                           !.order = @ + 1]

StartEffect(i, p, m, n) == ReplaceAndQueue(i, NewTask(p, m, n), FALSE)
PauseEffect(i, c) == Replace(i, Paused(tasks[i], c))
\* Mutant of ResumeEffect: the task is pending again but not queued.
ResumeUnqueued(i, c) == Replace(i, Resumed(tasks[i], c))

ResumeEffect(i, c) == ReplaceAndQueue(i, Resumed(tasks[i], c), FALSE)
FinishEffect(i, c) == Replace(i, Finished(tasks[i], c))
KillEffect(i) == Replace(i, Killed(tasks[i]))
ExhaustEffect(i) == Replace(i, GivenUp(tasks[i]))
RetryEffect(i, delay) == ReplaceAndQueue(i, Retried(tasks[i]), delay)
CheckpointEffect(i, c) == [Current EXCEPT !.tasks[i] = [tasks[i] EXCEPT !.checkpoint = c]]
UpdateEffect(i, n) == [Current EXCEPT !.tasks[i] = [tasks[i] EXCEPT !.info = n]]

\* restore of the records in img, in the order rank gives the ones it queues.  img is
\* what tasks() exports, and a registry names no task twice.
Queued(img) == {i \in DOMAIN img : img[i].state \notin Terminal}

Rankings(S) == {r \in [S -> 0 .. Cardinality(S) - 1] :
                  \A i, j \in S : r[i] = r[j] => i = j}

RestoreEffect(img, rank) ==
  [Current EXCEPT
     !.tasks = [i \in Ids |-> IF i \in DOMAIN img THEN Restored(img[i]) ELSE tasks[i]],
     !.queue = @ \cup {Key(i, img[i].priority, order + rank[i]) : i \in Queued(img)},
     !.order = @ + Cardinality(Queued(img))]

SlotsEffect(n) == [Current EXCEPT !.slots = AtLeast1(n)]

\* The keys in ready have reached their deadline.
TickEffect(ready) == [Current EXCEPT !.delayed = @ \ ready, !.queue = @ \cup ready]

-----------------------------------------------------------------------------
(* The message handlers.  A command its handler ignores is a stutter.      *)

Init ==
  /\ tasks = [i \in Ids |-> NoTask]
  /\ queue = {} /\ delayed = {}
  /\ slots \in {AtLeast1(n) : n \in SlotCounts}
  /\ running = 0 /\ order = 0
  /\ snapshot = [i \in Ids |-> NoTask]
  /\ spawned = {}

Start(i, p, m, n) ==
  /\ State(i) = "NONE"
  /\ order < OrderBound
  /\ HandledThenDispatched(StartEffect(i, p, m, n), {i}, {})

\* Mutant of PauseRunning: the slot is freed but not handed on.
PauseAlone(i, c) ==
  /\ State(i) = "RUNNING"
  /\ Handled(PauseEffect(i, c), {i}, {Call("on_pause", i)})

PauseRunning(i, c) ==
  /\ State(i) = "RUNNING"
  /\ HandledThenDispatched(PauseEffect(i, c), {i}, {Call("on_pause", i)})

\* Nothing is dispatched and no hook is told; the task's key stays queued.
PausePending(i, c) ==
  /\ State(i) = "PENDING"
  /\ Handled(PauseEffect(i, c), {i}, {})

Resume(i, c) ==
  /\ State(i) = "PAUSED"
  /\ order < OrderBound
  /\ HandledThenDispatched(ResumeEffect(i, c), {i}, {})

Finish(i, c) ==
  /\ State(i) = "RUNNING"
  /\ HandledThenDispatched(FinishEffect(i, c), {i}, {Call("on_finish", i)})

\* Mutant of Kill: no early return for the terminal states.
KillAny(i) ==
  /\ State(i) \in TaskStates
  /\ HandledThenDispatched(KillEffect(i), {i}, {Call("on_kill", i)})

Kill(i) ==
  /\ State(i) \in TaskStates \ Terminal
  /\ HandledThenDispatched(KillEffect(i), {i}, {Call("on_kill", i)})

\* The handler itself does not look at the task's state.
CanReschedule(i) ==
  /\ State(i) \in TaskStates \cap RescheduleFrom
  /\ tasks[i].attempts < AttemptBound
  /\ order < OrderBound

Reschedule(i, delay) ==
  /\ CanReschedule(i)
  /\ \/ /\ Exhausted(tasks[i])
        /\ HandledThenDispatched(ExhaustEffect(i), {i}, {Call("on_kill", i)})
     \/ /\ ~ Exhausted(tasks[i])
        /\ HandledThenDispatched(RetryEffect(i, delay), {i},
                                 {Call("on_reschedule", i)})

Checkpoint(i, c) ==
  /\ State(i) \in TaskStates
  /\ Handled(CheckpointEffect(i, c), {i}, {})

Update(i, n) ==
  /\ State(i) \in TaskStates
  /\ Handled(UpdateEffect(i, n), {i}, {})

Restore(img) ==
  /\ \A i \in DOMAIN img : State(i) \in RestoreOver
  /\ order + Cardinality(Queued(img)) <= OrderBound
  /\ \E rank \in Rankings(Queued(img)) :
       HandledThenDispatched(RestoreEffect(img, rank), DOMAIN img, {})

SetSlots(n) == HandledThenDispatched(SlotsEffect(n), {}, {})

\* Mutant of Tick: the timer promotes the keys and leaves it at that.
TickAlone(ready) == Handled(TickEffect(ready), {}, {})

\* The 100 ms timer; which deadlines have passed is the clock's choice.
Tick(ready) == HandledThenDispatched(TickEffect(ready), {}, {})

Next ==
  \/ \E i \in Ids :
       \/ \E p \in Priorities, m \in RetryCaps, n \in Infos : Start(i, p, m, n)
       \/ \E c \in OptCheckpoint :
            PauseRunning(i, c) \/ PausePending(i, c) \/ Resume(i, c) \/ Finish(i, c)
       \/ Kill(i)
       \/ \E delay \in BOOLEAN : Reschedule(i, delay)
       \/ \E c \in Checkpoints : Checkpoint(i, c)
       \/ \E n \in Infos : Update(i, n)
  \/ \E S \in SUBSET Ids : \E img \in [S -> Images] : Restore(img)
  \/ \E n \in SlotCounts : SetSlots(n)
  \/ \E ready \in SUBSET delayed : Tick(ready)

Spec == Init /\ [][Next]_vars

(***************************************************************************)
(* The timer keeps ticking and every deadline passes at last; a worker     *)
(* whose task is left running reports that it finished (AutoFinishHook     *)
(* always does).  Clients are under no obligation, nor to stop.            *)
(*                                                                         *)
(* Stated by effect: this is weak fairness, for each task, of the Finish   *)
(* that ends its run and of the Tick that promotes a key of it, without an *)
(* ENABLED for TLC to evaluate.                                            *)
(***************************************************************************)
ParkedKeys(i) == {k \in delayed : k.id = i}

Fairness ==
  \A i \in Ids :
    /\ []<>(State(i) # "RUNNING")
    /\ \/ []<>(ParkedKeys(i) = {})
       \/ []<><<Cardinality(ParkedKeys(i)') < Cardinality(ParkedKeys(i))>>_vars

-----------------------------------------------------------------------------
(* Properties.                                                             *)

TypeOK ==
  /\ tasks \in [Ids -> MaybeTask]
  /\ queue \in SUBSET HeapKey /\ IsFiniteSet(queue)
  /\ delayed \in SUBSET HeapKey /\ IsFiniteSet(delayed)
  /\ slots \in Nat \ {0}
  /\ running \in Nat
  /\ order \in Nat
  /\ snapshot \in [Ids -> MaybeTask]
  /\ spawned \in SUBSET HookCall

RunningIds == {i \in Ids : State(i) = "RUNNING"}

\* The counter dispatch compares with slots is the number of tasks in RUNNING,
\* although eight places change one or the other and the decrement saturates.
\* A drift up loses a slot for good, a drift down overcommits.
SlotAccounting == running = Cardinality(RunningIds)

\* A pending task can still be reached: one of its keys is queued or waits for
\* its deadline, however many stale keys pauses and retries left behind.
NoLostTask ==
  \A i \in Ids : State(i) = "PENDING" => \E k \in queue \cup delayed : k.id = i

\* No slot is idle while a task is queued: every handler that frees a slot or
\* queues a key dispatches before it returns.
WorkConserving == running < slots => queue = {}

\* Between two handlers query() returns the registry: no handler forgets to
\* sync a row it, or the dispatch it ends with, has changed.
SnapshotCurrent == snapshot = tasks

\* With max_attempts > 0, a task that has used up its attempts is killed, and
\* nothing that happens later gives it another one.
RetryCap ==
  \A i \in Ids : /\ State(i) \in TaskStates
                 /\ tasks[i].max_attempts > 0
                 /\ tasks[i].attempts > tasks[i].max_attempts
                 => State(i) = "KILLED"

\* dispatch never starts a task beyond the slots; only lowering the slots may
\* leave more tasks running than there are slots, and then none is added.
NoOvercommit ==
  [][Cardinality(RunningIds') > slots' => RunningIds' \subseteq RunningIds]_vars

\* The handler of this step has started task i.
StartedNow(i) == \E h \in {"on_start", "on_resume"} : Call(h, i) \in spawned'

\* No task is started while one of higher priority is left queued, nor, among
\* equals, one whose key was queued before any key of the started task.
BestFirst ==
  [][\A k \in queue', i \in Ids :
       /\ tasks'[k.id].state = "PENDING"
       /\ StartedNow(i)
       => \/ tasks'[i].priority > tasks'[k.id].priority
          \/ /\ tasks'[i].priority = tasks'[k.id].priority
             /\ k.order < order =>
                  \E j \in queue \cup delayed : j.id = i /\ j.order < k.order]_vars

\* A published checkpoint is replaced but never dropped, by a pause, resume or
\* finish that carries none, a retry, or a kill.
CheckpointKept ==
  [][\A i \in Ids : /\ State(i) \in TaskStates
                    /\ tasks[i].checkpoint # NoCheckpoint
                    => tasks'[i].checkpoint # NoCheckpoint]_vars

\* The terminal states absorb: src/scheduler.rs:80 calls them "absorbing".
TerminalAbsorbs ==
  [][\A i \in Ids : State(i) \in Terminal => tasks'[i].state = State(i)]_vars

\* docs/scheduler.md:174: "A retry delay parks the task in the delayed list
\* until its deadline".  The handler that parks a key does not start its task.
DelayHonoured ==
  [][\A k \in delayed' \ delayed : tasks'[k.id].state = "PENDING"]_vars

\* Task i waits and a task of higher priority is started.
Overtaken(i) ==
  State(i) = "PENDING" /\ \E j \in Ids : StartedNow(j) /\ tasks'[j].priority > tasks[i].priority

\* A task stays pending for ever only if tasks of higher priority are started over it
\* again and again, as clients may see to (pause and resume, retries without a cap).
\* Tasks of its own priority, however often they are paused, resumed or retried, do
\* not starve it: their new keys come after its key (dispatch, Ord of HeapKey).
PendingIsServed ==
  \A i \in Ids : <>[](State(i) = "PENDING") => []<><<Overtaken(i)>>_vars

-----------------------------------------------------------------------------
(* The scheduler implements the pool of tasks it promises to be, as long as *)
(* reschedules concern tasks that have not ended and a restore adds tasks. *)

Pool == INSTANCE TaskPool WITH
  life <- [i \in Ids |-> State(i)],
  parked <- {i \in Ids : State(i) = "PENDING" /\ \A k \in queue : k.id # i},
  cap <- slots,
  Caps <- {AtLeast1(n) : n \in SlotCounts}

\* Queue, stale keys and counter add up to the pool: a slot is filled as soon as
\* it is free, with a task that may run, and a task that has ended has ended.
ImplementsPool == Pool!PoolSpec
=============================================================================
