# A TLA+ model of FinA's schedulers

FinA is a task scheduler in Rust (an actix actor, `src/scheduler.rs`) with an
ETL engine on top of it (`src/etl_sched.rs`, `src/plazy.rs`, `src/store.rs`), a
Python binding (`src/lib.rs`, `python/fina_core/scheduler.py`) and a second,
separate scheduler of processes and threads in pure Python
(`python/fina_core/process_scheduler.py`). This directory specifies what can go
wrong in the order of things (commands, workers, retries, restores, stages,
calls within calls), and what the data path writes whatever that order was.

## 1. Inventory

| component | state | operations | interacts with | what makes it correct |
|---|---|---|---|---|
| kernel (`SchedulerActor`) | registry, heap of keys, delayed keys, slots, running, order | start, pause, resume, finish, kill, reschedule, checkpoint, update, restore, set_slots, 100 ms timer; `dispatch` inside most of them | mailbox, snapshot, hook threads | slots never overcommitted or idle, the best task first, nothing lost, retries bounded, ended tasks stay ended |
| snapshot | one row per task, behind a RwLock | register, sync, upsert; query, counts | written by the kernel, read by any thread | equals the registry between handlers, harmless inside one |
| hooks, notifier | a thread per callback | on_start, on_resume, on_pause, on_finish, on_kill, on_reschedule; reports | one mailbox, no order between threads | one live worker per running task |
| ETL driver (`run_scheduled`) | stage, tasks submitted, kills | submit a stage, poll, abort, conclude | kernel, snapshot | stages are barriers, ok means all done, it returns |
| ETL worker (`EtlHook`) | its thread | run the pipeline, report | shared store, mailbox | one report per dispatch |
| plan expansion (`build_plan`) | none | stages, partitions, ids, filters | reads sources | a partition covers the universe once, ids are distinct |
| shared store | mutex, tables, files | with, write_columns, read, left_join | all workers of a run | serial access; a retry does not duplicate rows |
| pipeline engine, record scanner, expressions, columns | per call | read, scan, project, join, write | store | the rows of a record stream, once each, in order |
| handle registry (`lib.rs`), Python wrapper | map of handles, closed flag | new, cmd, query, count, close, wait | kernel runtime | a handle is usable until closed, closed once |
| process scheduler (`SchedulerService`) | processes, threads | create, spawn, command, `_run_ready` | event bus, handlers that call back | dependencies first, a thread runs once per request, a process ends |
| event bus | handlers by topic | subscribe, publish | calls handlers synchronously | re-entrancy is harmless |

What is hard here: every client and every worker thread sends to one mailbox
and nobody orders them, so a command may be about a task that has since moved
on; the heap is never searched, so keys go stale and are skipped when they are
popped; `running` is a counter kept beside the states it counts; readers see a
copy of the registry; tasks can be restored into a kernel that already runs
some; workers may die without a word. `PROJECT.json` lists each hazard at its
line with the property that covers it.

## 2. Modules

**`Scheduler`** is the kernel. The actor's messages are handled one at a time on
one thread, so a handler is one action with everything it does: the change of
the task, the counter, the key it pushes or parks, the row it patches, the hook
thread it spawns and the whole `dispatch` loop it ends with. The loop is stated
declaratively: `Popped` is the keys it pops, `Started` the tasks it starts. A
handler is a function from the actor's state to the next (`StartEffect`,
`RetryEffect`, ...), which `Handled` (no dispatch: pausing a pending task,
checkpoint, update) or `HandledThenDispatched` turns into an action. Variables
are the fields of `SchedulerActor`; `queue` is a set, since keys have distinct
orders; `spawned` is the hook threads the last handler spawned. The order in
which a task's own `order` field is set, results, errors and timestamps are left
out: nothing branches on them. A restore takes any function from ids to images, which
is what `tasks()` exports; the order of its list is a ranking of the tasks it queues.

The environment is open: any command about any task at any time. That covers
late, repeated and reordered reports. Two constants narrow it where a property
needs it: `RestoreOver` is the states a restored task may be in when it is
overwritten, `RescheduleFrom` the states in which a reschedule may find its
task. The code tests neither, and the violation runs show what follows.

**`SchedulerLoop`** is the same kernel in small steps: a handler takes the actor
to its new state (`Accept`, `AcceptOnly`), patches rows one by one (`SyncRow`),
then pops key by key (`DropStale`, `StartNext`, `Return`). It exists to check
that the declarative `Dispatched` is what the loop does, and to say what a
`query()` can see in the middle of a handler, since it takes the snapshot's lock
only.

**`TaskPool`** is what docs/scheduler.md promises (sections 6 and 8) without
queue, keys or counter: tasks with a lifecycle and `cap` slots, all filled after
every step. `Scheduler` refines it with `life` the states, `parked` the pending
tasks with no key in the queue.

**`EtlRun`** composes the kernel with the one-shot ETL driver and its workers.
`mailbox` is the actor's; the driver appends `start` messages one at a time and
polls the snapshot; each `on_start` the kernel spawns becomes a thread that waits
for the store's mutex, holds it for the whole pipeline, and then reports. Soft
and hard failures, a panic (which poisons the mutex: who comes later fails, softly if
the pipeline's name looks like a soft error) and a thread that cannot be
spawned are steps of the environment. The empty stage (a partition of an empty
universe) and the pipeline listed twice (same id, second start ignored) are in
the instance. What a plan is, and that `retries` and the workers are numbers, is
said by `PlanAssumption` and `RunAssumption`; a `start` carries the priority its
pipeline has in the plan.

The data path has a module per part, from the values up:

- **`Values`**: JSON values as `NValue` shows them, and scalars with what the
  engine does to them: views, comparison, coercion, text, casts. Integers have a
  width (`MaxInt`), floats are counted in halves. Names and errors are texts, cleaned,
  lowered and searched character by character.
- **`Expressions`**: what fields, filters and the conditions of unwind rules do with
  an expression once it is parsed. `Compile` and `Eval` are constants of it.
- **`Evaluation`**: what they stand for: the parser (`Compiled`, a recursive descent
  over tokens) and the evaluator (`Evaluated`). Tokens are whole words: blanks,
  letter case and the inside of literals belong to the tokeniser and are left out.
- **`RecordScanner`**: the cutter of array documents, character by character, for
  the characters it tells apart. `Render`, the text of a value, is a constant;
  **`JsonTexts`** has what it stands for (`Rendered`).
- **`Store`**: columns, parquet files (with row groups, hive directories and torn
  files) and the duckdb tables of the shared store, as functions from the old
  store to the new and an error, which is a text with what the message quotes.
- **`FanOut`**: `chunk_evenly` in closed form.
- **`EtlPlan`**: `build_plan`: stages, nodes, universe, chunks, ids, `{task}`, the
  injected filter and every refusal; and `ConfigOK`, the shape of
  `src/config.rs`, which the instances are assumed to have.
- **`Pipeline`**: the state machine. `Expand` builds the plan, `Begin` takes the
  store's mutex and reads the sources, `ScanRecord` is one record of a scan,
  `WriteDataset` one dataset joined, assembled and written; `BeginFault`,
  `ExpandFault` and `WriteFault` are reads and writes that fail, leaving some of
  the files written and one torn. A failure is soft or hard, as `is_retryable`
  finds one of its words in the whole text (names of pipelines, tables, columns and
  paths included), and puts the task back or kills it. The driver and the kernel
  are seen as in `EtlRun`, abstracted to the set of tasks a stage has `left`. The parser, the
  evaluator and the texts are recursive and nothing in the state machine depends on
  how they are defined, so it has them as constants: `MCPipeline` gives them the
  definitions above, and the proofs hold for any.
- **`PlainRun`**: the reference. `Reference(cf)` is what the rows of every dataset
  should be, computed from the documents with no scanner, accumulator, temporary
  table, partition or retry. `Sound` names what a configuration must be for the
  code to promise it: sources that exist and hold containers, join tables that
  are made before and have distinct keys, fan-outs over distinct strings with no
  filter of their own, targets that do not overlap. Each conjunct is a case in
  which the code really does otherwise (section 5). It also states what a plan owes:
  every value of a universe to one task of the fan-out, to each task an id and a `{task}`
  target of its own.

**`ProcessScheduler`** is `SchedulerService` with its `EventBus`. There is one
thread of control, and all the difficulty is in calls within calls: `stack` holds
the loops of `_run_ready`, the handlers and the events being delivered, and each
action is one round of what is on top. Clients, when the stack is empty, and
handlers, when theirs is on top, perform `Create`, `Spawn`, `Resume`,
`PauseOrCancel`, `Preempt`, `Publish`, `Register` and `Unsubscribe`. `Raises` cuts
the stack down to the innermost handler, or to the client, as an exception does:
a subscription whose thread is not declared, or Python's recursion limit, here
`MaxDepth` nested loops. `aborted` is history: processes whose last loop was cut.
`InputsAssumption` is what `create` and `spawn` accept: threads of different names
with known handlers. `Subscribed` is the effect of the subscriptions of a
definition on the bus, all at once.
MCP tools run in one event loop, so calls of several OS threads are not modelled;
the lock of the service guards only the table of processes.

**`MCScheduler`, `MCSchedulerLoop`, `MCEtlRun`, `MCPipeline`, `MCProcess`** hold the
instances. `MCScheduler` also has `EndlessSpec`, the behaviours in which clients and
workers never run out of orders and attempts (section 3). Operators
whose comment begins with "Mutant of" are the plausible bugs that the properties
must notice; nothing else uses them.

The proofs are in modules of their own (section 6): `FiniteOrders` (first and last
elements of sets), `SchedulerProofs` and `DispatchProofs` (the kernel), `PoolProofs`
(it implements `TaskPool`), `LoopProofs` (`SchedulerLoop` implements it),
`EtlProofs`, `ProcessProofs` and `DataPathProofs` (`FanOut`, `Pipeline` and what of
`PlainRun` is about steps and temporary tables). Each extends the module it is
about; `PoolProofs`, `LoopProofs` and `EtlProofs` also extend the kernel's proofs.

## 3. Runs

| run | asks | bounds | states |
|---|---|---|---|
| `kernel` | slots, order, refinement of `TaskPool`, whom a pending task may wait for for ever | 3 tasks, 2 priorities, no cap, 1 or 2 slots (changed on the way), restores of new tasks, at most 3 keys at a time, no bound on commands | 733 k |
| `restore` | counter, queue, snapshot, idle slots and retries, with restores mixed in | 2 tasks, 5 images of every exported kind, caps 0 and 1, checkpoints, 3 keys | 163 k |
| `loop` | `SchedulerLoop` implements `Scheduler`, queries in the middle, termination, checkpoints | 2 tasks, 2 priorities, 1 checkpoint, 3 keys | 96 k |
| `etl` | barrier, one worker per task, outcome, attempts, return | 4 tasks in 3 stages (one empty), 2 workers, 1 retry | 18 k |
| `pipeline` | rows of a plain run, retries, scanner, parser, fan-out, end of every run | 28 configurations, up to 3 stages, fan-outs of 1, 2 and 4, 2 faults, 1 retry, row groups of 2, `MaxInt` 7 | 14.8 k |
| `process` | ready threads served, none left running, runs asked for, ends noticed, calls return | 2 processes of 2 definitions, 4 operations, loops nested 3 deep | 200 k |
| `retried_table` | violated: a retry doubles a memory table that a later stage joins | 2 stages, 1 fault | |
| `restore_running` | violated: a restore over a running task leaks a slot | 2 tasks | |
| `late_retry` | violated: a reschedule revives an ended task | 2 tasks | |
| `stale_retry` | violated: a stale key starts a parked retry at once | 2 tasks, 4 keys | |
| `no_retries` | violated: `retries = 0` gives a second run where one is allowed | 2 tasks, 1 worker | |
| `shared_target` | violated: two fan-outs of a stage write to one file | `fx.eu` and `fx_eu` | |

Why the bounds are enough. Three tasks on two slots is the least where a slot is
contended between tasks of equal and of different priority while a third runs. Three
keys give every task one, or leave two stale ones beside a task's own; the
`stale_retry` counterexample uses four, handed out one after the other. Attempts
beyond `max_attempts + 1` repeat.

In `restore`, `loop` and `etl` the bounds `OrderBound` and `AttemptBound` disable
commands that would queue one more key or count one more attempt. That is enough for
safety, where every state up to the bound is looked at, and for the liveness of what
ends by itself (a handler, an ETL run). It would not be for a pending task: what
starves it goes on for ever, and would be cut off. So `kernel` has behaviours without an
end (`EndlessSpec`). Between two messages `Compact` numbers the keys that are left anew
and forgets the attempts of tasks without a cap, and of ended tasks all but that they
have ended; nothing looks at more of an order than which of two is smaller (`Before`),
at the attempts of an uncapped task, or at an ended task if nothing revives it.
`OrderBound` there bounds the keys there are at one time, of which a dispatch
pops as many as there is room for; reschedules are about running or pending tasks and restores about new ones, as
`ImplementsPool` and `BestFirst` need. Late reschedules and restores over what is there
belong to `restore`.

`SoftBound` limits how often a pipeline of an ETL run may fail softly; with one retry the
kernel kills the task before the bound matters. Runs with `CHECK_DEADLOCK FALSE` are those of
`EtlRun`, where a run that has returned is at rest.

The configurations of `pipeline` are chosen by case: no execution section, hive
directories, row roots with a fan-out into files, a fan-out into a memory table
that is copied later (with more workers than values, so that a chunk is empty),
three pipelines in parallel with every format, a fan-out over whole values, two
fan-outs side by side under names with `.` and `-`, a pipeline whose name has a retry
keyword in it, an empty one, thirteen with what can go wrong in a pipeline (a
source, a format, a column, a join of no columns, columns of one name), and six that
the plan refuses. Two faults are enough to fail a task
and its retry. Row groups of two rows split datasets of three; the records hold
values that differ in each way the coercions tell apart. `CompileReadsBack` and
`ScanYieldsRecords` quantify over bounded inputs in one state: all expressions two
operators deep over the atoms of the instance, all documents of up to two
containers with brackets, quotes and backslashes in strings. Four operations let
`process` create both processes and still have one handler act inside another, or
resume a thread within itself; one of the processes follows the other's threads
and its own, so that the recursion limit is met. An operation that would change
nothing (an unsubscription of who has not subscribed) is not counted.
`CHECK_DEADLOCK FALSE` there too: the service is at rest when no client calls.

Symmetry over the ids is used for safety properties only.

**Fairness.** `EndlessSpec`: deadlines pass and the timer keeps ticking, so no key stays
parked for ever unless it is parked again, and no task runs for ever, since its worker
reports, as `AutoFinishHook` does. Both are stated by their effect, task by task.
Clients owe nothing, nor need they ever stop. Under that a task can starve, so
`PendingIsServed` says by whom: only tasks of higher priority that are started over
it infinitely often. `LoopSpec`: the actor's thread
executes the handler it is in. `EtlSpec`: the actor (until closed), the driver
and the workers keep going; of the workers waiting for the mutex only *some*
worker is promised it, since `std::sync::Mutex` is not fair. No fairness on
panics or failed spawns. `ProcessScheduler!Spec`: the calling thread goes on with
the innermost call, and a handler returns after finitely many operations, which
`ActBound` makes finite for all of them. That a data-path run ends is stated without fairness,
as the action property `RunAdvances`: every step lowers a rank that cannot fall
for ever, so the run ends under the weak fairness of its threads in `PipeSpec`.
`DriverReturns` says "unless a worker vanished", because
then the driver really may poll for ever.

## 4. What the code does otherwise than it says

1. *Restore over a running task* (`restore_running`). `CmdRestore` replaces the
   record, queues the task again and leaves `running` as it was: one slot fewer
   for the rest of the scheduler's life, and two workers on the task.
2. *Late reschedule* (`late_retry`). `CmdReschedule` does not test the state. A
   worker that reports a soft failure after its task was killed or finished
   brings it back, although the terminal states are called absorbing.
3. *Retry delay* (`stale_retry`). A pause and a resume while a task is queued
   leave two keys. When the task later asks for a delayed retry it is pending
   again and the older key starts it at once: the delay is lost.
4. *`retries = 0`* (`no_retries`). `max_attempts = 0` means "no cap" to the
   kernel, so "no extra attempts" becomes "no limit": the counterexample ends when a
   task that is allowed one run is dispatched for the second time, and nothing in the
   kernel would stop a third.
5. *Rows twice* (`retried_table`). `create_and_append` appends to a table that is
   there. A task that wrote a memory table, failed softly at its next dataset and
   ran again leaves each row twice; a LEFT JOIN with it yields two rows where the
   caller takes one by position, so later rows get other rows' columns.
   docs/scheduler.md:357 promises the join of a plain run.
6. *One file for two workers* (`shared_target`). `{task}` keeps letters, digits, `-` and
   `_` of a task's id and makes all else `_`, so the fan-outs of pipelines `fx.eu` and
   `fx_eu` of one stage write to one file, though docs/scheduler.md:308 gives every
   fan-out worker its own target. What the code does keep is `TargetsApart`: tasks have
   targets of their own if names are still different once cleaned and none begins as
   the tasks of another's fan-out do.

## 5. Other things the models show

Not contradicted by a document, or outside what a property asks (the first two are
contradicted), but modelled as they are; each is a line to know before changing the code.

- `mode: serial` of a stage is parsed and read by nobody: its tasks run side by side like
  any other's, although src/config.rs:34 says that such a stage "runs its group
  one-by-one". The models have no mode, since `build_plan` takes a stage's group alone.
- docs/scheduler.md:196 says that every mutation first moves expired delayed tasks back
  into the queue. The timer alone does (`move_delayed`, scheduler.rs:494): after a command
  an expired retry waits for the next tick, up to 100 ms, while others are started.
- A task can starve behind tasks of higher priority that are paused and resumed, or
  retried without a cap, again and again (section 3, `PendingIsServed`).
- `is_retryable` searches the whole text of an error (etl_sched.rs:394): a pipeline,
  table, column or path with "network" or "503" in its name makes any failure soft.
- In the conditions of unwind rules `!=` acts as `=` (lazy.rs:817).
- A record that is a scalar at the top of an array swallows the record after it.
- A projected column that the join did not select reads its first column (plazy.rs:656).
- A join with a `duckdb://` table fails, since the temporary table is made in the
  in-memory connection; a join that fails leaves its temporary table behind.
- A universe drops values that are not strings, and is read before any stage has
  run, so what an earlier stage writes is not in it.
- A dataset without rows leaves an older file as it was (columnar.rs:178); one
  partitioned by all its columns loses its rows.
- u64 values above the range of i64 wrap (lazy.rs:88); texts are not escaped when
  a value is written as JSON (lazy.rs:972).
- The tie-break table of `_run_ready` is made when the loop is entered, so among
  equals a thread spawned later that had to wait comes before threads declared
  earlier, unlike the comment at process_scheduler.py:203.
- A triggered thread is woken with priority 0 whatever it declared. A handler's
  end overwrites a pause or cancel of its thread. A process stays RUNNING after
  its last thread is cancelled or has failed, and FINISHED after a later spawn.

## 6. Proofs

The theorems hold for every value of the constants that satisfies the assumptions
named below, of which TLC checks the instances' values in every run. No bound
matters to them: `OrderBound`, `AttemptBound`, `SoftBound`, `ActBound` and
`MaxDepth` are any numbers.

| module | theorem | says | if |
|---|---|---|---|
| `SchedulerProofs` | `Invariance` | `Spec => []Inv` | |
| | `TypeCorrect`, `NothingLost`, `QueryCurrent` | `TypeOK`, `NoLostTask`, `SnapshotCurrent` | |
| | `SlotsAccounted` | `SlotAccounting` | `"RUNNING" \notin RestoreOver` |
| `DispatchProofs` | `DispatchInvariance` | `Spec => []DispatchInv` | |
| | `SlotsFilled`, `SlotsRespected` | `WorkConserving`, `NoOvercommit` | |
| | `AttemptsCapped` | `RetryCap` | `CappedImages` |
| | `BestIsFirst`, `CheckpointsSurvive` | `BestFirst`, `CheckpointKept` | `OnlyAdds` |
| `PoolProofs` | `PoolImplemented` | `ImplementsPool` | `PoolEnvironment` |
| `LoopProofs` | `LoopInvariance` | `LoopSpec => []LoopInv` | |
| | `LoopIsAtomic`, `QueriesWithinSlots` | `Atomic`, `RowsWithinSlots` | |
| `EtlProofs` | `EtlKernel` | `EtlSpec => Spec` | |
| | `EtlInvariance` | `EtlSpec => []EtlInv` | |
| | `OneWorkerEach`, `StagesInOrder`, `VerdictIsTrue` | `OneWorker`, `StageBarrier`, `OkMeansFinished` | |
| | `RunsAreBudgeted` | `RunBudget` | `Retries # 0` |
| `DataPathProofs` | `ChunksPartition`, `ChunksAreEven` | every position in one chunk; lengths differ by one at most | |
| | `PipeInvariance` | `PipeSpec => []PipeInv` | `RenderIsText` |
| | `PipeTypes`, `TablesGrow`, `StepsAdvance` | `PipeTypeOK`, `TablesOnlyGrow`, `RunAdvances` | `RenderIsText` |
| | `UniverseShared` | `UniverseIsShared` | `RenderIsText` |
| | `TempTablesGone` | `NoTempTableLeft` | `RenderIsText`, `JoinErrorsAreHard`, `NoTargetIsTemporary` |
| `ProcessProofs` | `ProcInvariance` | `Spec => []ProcInv` | |
| | `ProcessTypes`, `ReadyThreadsAreServed`, `RunningThreadsExecute`, `CallsAreAsked`, `EndsAreNoticed` | `ProcTypeOK`, `ReadyIsServed`, `RunningIsExecuting`, `RunsAreAsked`, `EndIsNoticed` | |

Where a theorem has a condition, the code really fails without it. A restore over
a running task leaks a slot (`restore_running`); one over a queued task leaves a key
with the old priority, which `BestFirst` forbids, or takes a checkpoint away; an
image may already be over its cap; a late reschedule revives a task that ended
(`late_retry`), which is no move of the pool; with `retries = 0` there is no cap
(`no_retries`). `OnlyAdds` is `RestoreOver \subseteq {"NONE"}`, a restore into a kernel
that does not know the tasks yet, as after a restart. `PoolEnvironment` adds that a
reschedule is about a running or pending task. `CappedImages` says that the images
come from a kernel that counts attempts as this one does. A join that fails leaves its
temporary table behind: if its error is one the worker tries again
(a retry keyword in a name it quotes, the pipeline's to begin with), the run may still end well with the table
there, hence `JoinErrorsAreHard`; and a dataset may be written under the name of a
temporary table, hence `NoTargetIsTemporary`. Both speak of the plan, both are true of
every plan of the `pipeline` run (`TempsAssumption` of `MCPipeline`, which TLC
evaluates). `RenderIsText` is not about the code: it says that the constant `Render`
yields sequences of characters, and is a hypothesis because TLC cannot quantify over
all values.

**Kernel.** `Inv` is `TypeOK`, `NoLostTask`, `SnapshotCurrent` and, under its
condition, `SlotAccounting`. `NoLostTask` needs that a key which a dispatch pops
without starting its task belongs to a task that is not pending or that has a
better key in the same batch: among a pending task's queued keys there is a first
one (`FiniteOrders`), so a pending task that is not started keeps a key.
`DispatchInv` adds, as invariants of the actor's state alone,

- `Keyed`: keys have orders of their own, all handed out before. Without it two
  keys may be equally good and neither is first.
- `Within`: at most `running` tasks run. This is what is left of `SlotAccounting`
  when restores overwrite running tasks, and it is enough for `NoOvercommit`.
- `TrueKeys`, under `OnlyAdds`: a key carries its task's priority, so the order of
  keys is the order of tasks.
- `CappedTasks`, under `CappedImages`: no task that is not killed is over its cap.
- `WorkConserving`.

A key is popped when fewer than the free slots hold fresh keys before it. If a key
is left, the popped keys before it include as many fresh ones as slots were free:
so the slots are full (`SlotsFilled`), and no more are started than were free
(`SlotsRespected`). One lemma per handler (`StartFit` to `TickFit`) shows that it
leaves a state from which a dispatch restores the invariant; one lemma about
`Dispatched` does the rest, and the step of `Next` puts the two together.

**Pool.** Under `PoolEnvironment` every `Next` step is one move of `TaskPool` followed
by its filling, or a stutter; there is a lemma per handler. The started tasks are a
subset of the eligible ones of the size the pool asks for, by `SlotAccounting` and
`WorkConserving`.

**Loop.** In the middle of a handler, `Final` is the state it will end in. One pop,
of a stale key or of one that starts its task, leaves `Dispatched(Current)` as it was:
what the atomic handler pops is the first key and what is popped after it
(`DropKeeps`, `StartKeeps`, `NothingLeft`). So the inner steps map to stutters, and
the first step of each command to the handler of the same name. `LoopInv` says that
`Final` is as `DispatchInv` wants it, that only the rows in `dirty` are late, and
that a late row hides a running task only if there was a slot for it, from which
`RowsWithinSlots` follows. All that is proved of `Scheduler` therefore holds of the
loop.

**ETL run.** A step of the composition is a step of the kernel or leaves it alone
(`EtlKernel`), so `Inv` carries over. `EtlInv` is the types, `OneWorker` and

- `Plain`: tasks are as the driver starts them, never paused or restored;
- `Barrier`: stages before the driver's have finished, those after it are
  untouched, even in the mailbox;
- `Counted`: the attempts the kernel counts are the runs, one ahead for a task that
  waits for its retry; `Budgeted` needs it, since the kernel caps attempts only;
- `Budgeted`, and `Verdict`: what the driver knows of kills is true.

**Process scheduler.** `ProcInv` is the types and four facts about calls within
calls. `Nested`: below a handler is a loop of its process, so a handler's end always
comes back to a loop that looks again. `Attended`: a `RUNNING` thread has its
handler on the stack; an exception lands in the innermost handler, so it cuts none
off, and a handler's own end takes the mark away.
`Settled`: a process without a loop on the stack, and not cut short, has no ready
thread and has noticed its end; this is why each command that makes a thread ready
pushes a loop. `AskedThread`: a pending thread is owed one call more than it got.

**Data path.** `PipeInv` is that the configuration is one of `Configs`, the store holds
rectangular tables with cells of their columns' types (`StoreOK`), and

- `PlanInv`: the plan is made whole, every task of it has a pipeline of the
  configuration with datasets (a fan-out's filter changes only filters), and `tries`
  is about the tasks of the stage;
- `LeftInv`: a task that is left, and not under way, has runs left; nothing is left
  of a run that is over;
- `JobInv`: the run that holds the store is of a task that is left, at a group, a
  dataset and a character that exist. `AccInv` says of its accumulators that every
  column has as many cells as there are rows, but the columns of rooted fields, which
  are filled when the dataset is assembled. Types alone are not inductive: a table is
  rectangular because the columns it is written from are of one length, which is kept
  record by record (`PushRowsKeeps`).

The recursive functions the model is built from (the folds, `FlattenSeq`, the bracket
matcher) are opened once: `Recursion` shows that such a function exists on `0..n`,
and what follows is about its values (`Flatten`, `RecordEndRange`). Of what the
parser and the evaluator compute nothing is used but that a cell is coerced to its
column's type.

`TablesOnlyGrow` is the relation `Grows` between two stores, which is reflexive and
transitive (`GrowsTwice`) and holds of each operation of the store, so of a dataset
with its join, its write and its drop in a row, failed half-way or not. For
`RunAdvances` the second number of the rank is the size of a finite set `Runs`: a task
that is tried again takes one run out, and when the stage changes, an earlier number
falls. A scan advances because a record ends after the character it begins with and
within the text, even in a document that is cut off. `NoTempTableLeft` needs more than
it says: until a run fails for good there is no temporary table between any two steps
(`GoneInv`), since `TempTable` is made and dropped within the step that joins, unless
the lookup fails in between.

For `UniverseIsShared` the plan has to be traced back to what it was made from:
`PlanBuilt` says that before the expansion the store is new, and after it the plan is
the expansion of the configuration against a new store, whatever the tasks have
written since. The tasks of a node are then found again in the stage by the name of
their pipeline (`ThoseOfOne`), and of a fan-out the chunks that are not empty are the
first ones (`UsedChunks`), each with the values after those of the chunks before it
(`ChunkIs`, `SplitMap`), so that one after the other they are the universe
(`FanOutShares`).

**Assumptions.** `Scheduler`: `IdsAssumption` (finitely many ids), `InputAssumption`
(priorities, caps and slots are naturals, images are tasks), `CheckpointAssumption`,
`BoundAssumption`. `EtlRun`: `PlanAssumption` (at least one stage, stages share no
id, as `build_plan` numbers them), `RunAssumption`. `ProcessScheduler`:
`TopicsAssumption`, `InputsAssumption`, `BoundsAssumption`. Data path:
`ConfigsAssumption` (configurations are of the shape of `src/config.rs`),
`FilesAssumption` (the files there are hold tables or documents), `RetriesAssumption`
(at least one: with none there is no cap, section 4), `FaultBoundAssumption`,
`GroupRowsAssumption`, `MaxIntAssumption`.

**Model-checked only.**

- Liveness: `PendingIsServed`, `HandlerReturns`, `DriverReturns`, `CallsReturn`. The
  prover has no rule for fairness.
- What the data path computes: `StagesArePlain`, `RetriesKeepRows`,
  `CompileReadsBack`, `ScanYieldsRecords`. They compare the rows of
  a run with those of a reference that is itself recursive over documents and
  configurations, or a text with the value it was made from; a proof is by induction
  over data, for which the prover's theorems cannot be instantiated.
- `TargetsApart`: it is about texts put together from texts and numbers, of which the
  provers know nothing.
- `TerminalAbsorbs`, `DelayHonoured`, `JoinsArePlain` and
  `WorkersHaveOwnTargets`: the code does not keep them.

## 7. Plan

Done: the kernel, its loop, the pool it implements; the ETL driver with its workers;
the data path with its reference; the process scheduler; as theorems, with both
refinements, every safety and action property of the kernel, the loop, the ETL run and
the process scheduler, and of the data path those that do not compare rows with the
reference or texts with each other.

Next theorem: that `Pipeline`'s view of driver and kernel (`left`, `tries`) is
implemented by `EtlRun`.

Next modules, if any: `SchedulerRecovery` (two kernels, one exporting, one
restoring: which hook a task gets after a restore or a pause before its first
dispatch), and `RuntimeHandles` (the registry of `src/lib.rs`, clones of an `Arc`,
`close` against a call in progress, `wait`).

## 8. Not modelled

- The handle registry and the Python wrapper: planned, see above.
- `ParquetSink` is built by nobody; encodings and compression are the parquet crate's.
- The JSON command codec, JSON loads and dumps: conversions without state.
- Payoff descriptions, the YAML builders: formatting and numeric formulas.
- The MCP facade: one service behind five tools, no state of its own. The
  integrations: handlers that call injected functions; what they may do to the
  service is what a handler does in `ProcessScheduler`.
- Wording of results and errors, timings, timestamps, sums of rows.
- A restore whose list names one task twice: the later record wins and the earlier key
  goes stale, or stays if the later one has ended. An export names each task once.
- Of texts: a keyword that spans two parts of an error, where the code's wording stands
  and the model has a blank; names of tables and columns that duckdb takes for one
  because it ignores case, or refuses because they are not quoted; letters outside ASCII,
  which the name of a temporary table keeps (plazy.rs:879) and `{task}` does not.
