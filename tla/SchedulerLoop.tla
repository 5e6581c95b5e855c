---------------------------- MODULE SchedulerLoop ----------------------------
(***************************************************************************)
(* The scheduler kernel one pop of dispatch() at a time.  A handler first  *)
(* changes the registry, the queue and the counters and spawns its hook    *)
(* thread; then it patches the snapshot rows of the tasks it touched, one  *)
(* by one; then, if it ends with dispatch(), the loop pops the queue while *)
(* a slot is free.  query() locks only the snapshot, so a client may read  *)
(* it between any two of these steps; the next message waits until all of  *)
(* them are done.                                                          *)
(*                                                                         *)
(* Scheduler takes all of them as one action.  Property                    *)
(* Atomic: this module implements it, which also checks the declarative    *)
(* Popped and Started of Scheduler against the loop they summarise.        *)
(***************************************************************************)
EXTENDS Scheduler

VARIABLES
  loop,      \* dispatch() is still to be run, or running
  dirty      \* ids changed whose snapshot rows are not yet patched

loopVars == <<vars, loop, dirty>>

\* The handler of a message takes the actor to e and has ids to sync; then it
\* dispatches (Accept) or returns (AcceptOnly).
Take(e, ids, calls) ==
  /\ ~ loop /\ dirty = {}
  /\ tasks' = e.tasks
  /\ queue' = e.queue
  /\ delayed' = e.delayed
  /\ slots' = e.slots
  /\ running' = e.running
  /\ order' = e.order
  /\ spawned' = calls
  /\ dirty' = ids
  /\ UNCHANGED snapshot

Accept(e, ids, calls) == Take(e, ids, calls) /\ loop' = TRUE
AcceptOnly(e, ids, calls) == Take(e, ids, calls) /\ loop' = FALSE

Commands(i) ==
  \/ /\ State(i) = "NONE" /\ order < OrderBound
     /\ \E p \in Priorities, m \in RetryCaps, n \in Infos :
          Accept(StartEffect(i, p, m, n), {i}, {})
  \/ \E c \in OptCheckpoint :
       \/ State(i) = "RUNNING" /\ Accept(PauseEffect(i, c), {i}, {Call("on_pause", i)})
       \/ State(i) = "PENDING" /\ AcceptOnly(PauseEffect(i, c), {i}, {})
       \/ /\ State(i) = "PAUSED" /\ order < OrderBound
          /\ Accept(ResumeEffect(i, c), {i}, {})
       \/ State(i) = "RUNNING" /\ Accept(FinishEffect(i, c), {i}, {Call("on_finish", i)})
  \/ /\ State(i) \in TaskStates \ Terminal
     /\ Accept(KillEffect(i), {i}, {Call("on_kill", i)})
  \/ /\ CanReschedule(i)
     /\ \/ Exhausted(tasks[i]) /\ Accept(ExhaustEffect(i), {i}, {Call("on_kill", i)})
        \/ /\ ~ Exhausted(tasks[i])
           /\ \E delay \in BOOLEAN :
                Accept(RetryEffect(i, delay), {i}, {Call("on_reschedule", i)})
  \/ /\ State(i) \in TaskStates
     /\ \/ \E c \in Checkpoints : AcceptOnly(CheckpointEffect(i, c), {i}, {})
        \/ \E n \in Infos : AcceptOnly(UpdateEffect(i, n), {i}, {})

RestoreCommand ==
  \E S \in SUBSET Ids : \E img \in [S -> Images] :
    /\ \A i \in S : State(i) \in RestoreOver
    /\ order + Cardinality(Queued(img)) <= OrderBound
    /\ \E rank \in Rankings(Queued(img)) : Accept(RestoreEffect(img, rank), S, {})

SlotsOrTick ==
  \/ \E n \in SlotCounts : Accept(SlotsEffect(n), {}, {})
  \/ \E ready \in SUBSET delayed : Accept(TickEffect(ready), {}, {})

\* sync() or upsert() of one row.
SyncRow(i) ==
  /\ i \in dirty
  /\ dirty' = dirty \ {i}
  /\ snapshot' = [snapshot EXCEPT ![i] = tasks[i]]
  /\ UNCHANGED <<tasks, queue, delayed, slots, running, order, spawned, loop>>

\* The next iteration of dispatch(): the best key leaves the heap.
Best(k) == k \in queue /\ \A j \in queue \ {k} : Before(k, j)

\* Mutant of Iterates: dispatch() runs before the handler's own sync().
IteratesUnsynced == loop /\ running < slots

Iterates == loop /\ dirty = {} /\ running < slots

\* Mutant of DropStale: break where the code says continue.
StopAtStale(k) ==
  /\ Iterates /\ Best(k)
  /\ State(k.id) # "PENDING"
  /\ queue' = queue \ {k}
  /\ loop' = FALSE
  /\ UNCHANGED <<tasks, delayed, slots, running, order, snapshot, spawned, dirty>>

DropStale(k) ==
  /\ Iterates /\ Best(k)
  /\ State(k.id) # "PENDING"
  /\ queue' = queue \ {k}
  /\ UNCHANGED <<tasks, delayed, slots, running, order, snapshot, spawned, loop, dirty>>

StartNext(k) ==
  /\ Iterates /\ Best(k)
  /\ State(k.id) = "PENDING"
  /\ queue' = queue \ {k}
  /\ tasks' = [tasks EXCEPT ![k.id] = Run(@)]
  /\ running' = running + 1
  /\ spawned' = spawned \cup
       {Call(IF tasks[k.id].resume THEN "on_resume" ELSE "on_start", k.id)}
  /\ dirty' = {k.id}
  /\ UNCHANGED <<delayed, slots, order, snapshot, loop>>

\* Mutant of Return: the loop waits for the queue to drain.
ReturnWhenDrained ==
  /\ loop /\ dirty = {}
  /\ queue = {}
  /\ loop' = FALSE
  /\ UNCHANGED <<vars, dirty>>

Return ==
  /\ loop /\ dirty = {}
  /\ running >= slots \/ queue = {}
  /\ loop' = FALSE
  /\ UNCHANGED <<vars, dirty>>

LoopInit == Init /\ loop = FALSE /\ dirty = {}

Inner == \/ \E i \in dirty : SyncRow(i)
         \/ \E k \in queue : DropStale(k) \/ StartNext(k)
         \/ Return

LoopNext == \/ \E i \in Ids : Commands(i)
            \/ RestoreCommand
            \/ SlotsOrTick
            \/ Inner

\* The actor's thread keeps executing the handler it is in.
LoopSpec == LoopInit /\ [][LoopNext]_loopVars /\ WF_loopVars(Inner)

-----------------------------------------------------------------------------
(* Where the handler in progress will leave the actor.                     *)

Final == IF loop THEN Dispatched(Current) ELSE Current

FinalSnapshot ==
  [i \in Ids |-> IF i \in dirty \cup (IF loop THEN Started(Current) ELSE {})
                 THEN Final.tasks[i] ELSE snapshot[i]]

Handlers == INSTANCE Scheduler WITH
  tasks <- Final.tasks, queue <- Final.queue, delayed <- delayed,
  slots <- slots, running <- Final.running, order <- order,
  snapshot <- FinalSnapshot,
  spawned <- spawned \cup (IF loop THEN DispatchCalls(Current) ELSE {})

\* Seen at handler granularity, the loop is the kernel Scheduler describes: no
\* pop, stale or not, and no row patched late changes where a handler ends.
Atomic == Handlers!Spec

ShownRunning == {i \in Ids : snapshot[i].state = "RUNNING"}

\* A query that falls in the middle of a handler never sees a slot handed on
\* before it was given up: the rows it counts as running grow only within the
\* slots, because the row of the task that left is patched before dispatch.
RowsWithinSlots ==
  [][Cardinality(ShownRunning') > slots' => ShownRunning' \subseteq ShownRunning]_loopVars

\* dispatch() ends, whatever the queue holds, and the actor gets to the next
\* message.
HandlerReturns == loop ~> ~ loop
=============================================================================
