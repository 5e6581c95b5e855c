------------------------------ MODULE LoopProofs ------------------------------
(* SchedulerLoop implements Scheduler: what Scheduler says dispatch pops and *)
(* starts all at once is what the loop pops and starts key by key, and no    *)
(* order in which a handler patches its rows can be told from any other.     *)
EXTENDS SchedulerLoop, DispatchProofs

-----------------------------------------------------------------------------
(* One pop.                                                                *)

LEMMA SameState ==
  ASSUME NEW d \in ActorStates, NEW e \in ActorStates,
         d.tasks = e.tasks, d.queue = e.queue, d.delayed = e.delayed,
         d.slots = e.slots, d.running = e.running, d.order = e.order
  PROVE  d = e
BY DEF ActorStates

\* d is where dispatch leaves e.
LEMMA SameDispatched ==
  ASSUME NEW d \in ActorStates, NEW e, Sound(e),
         d.tasks = Dispatched(e).tasks, d.queue = e.queue \ Popped(e),
         d.delayed = e.delayed, d.slots = e.slots,
         d.running = e.running + Cardinality(Started(e)), d.order = e.order
  PROVE  d = Dispatched(e)
<1> DEFINE f == Dispatched(e)
<1>1. /\ f.queue = e.queue \ Popped(e) /\ f.delayed = e.delayed
      /\ f.slots = e.slots /\ f.order = e.order
      /\ f.running = e.running + Cardinality(Started(e))
  BY DispatchedFields
<1>2. f \in ActorStates
  BY DispatchedSound DEF Sound
<1> HIDE DEF f
<1>3. d = f
  BY <1>1, <1>2, SameState DEF f
<1>4. QED BY <1>3 DEF f

\* k is what heap.pop() returns.
First(e, k) == k \in e.queue /\ \A j \in e.queue \ {k} : Before(k, j)

\* d is e after k has left the heap; if its task is started, it is in tasks.
Pops(e, k, d) ==
  /\ Sound(e) /\ Sound(d)
  /\ First(e, k) /\ e.running < e.slots
  /\ d.queue = e.queue \ {k}
  /\ d.delayed = e.delayed /\ d.slots = e.slots /\ d.order = e.order

\* The next iteration pops what dispatch pops first.
LEMMA FirstIsPopped ==
  ASSUME NEW e, NEW k, NEW d, Pops(e, k, d)
  PROVE  /\ k \in Popped(e) /\ k \in HeapKey
         /\ \A j \in e.queue : j # k => Before(k, j) /\ ~ Before(j, k)
<1>1. Sound(e) /\ First(e, k) /\ e.running < e.slots
  BY DEF Pops
<1>2. k \in HeapKey /\ e.queue \subseteq HeapKey
  BY <1>1, QueueTypes DEF First
<1>3. \A j \in e.queue : j # k => Before(k, j) /\ ~ Before(j, k)
  BY <1>1, <1>2 DEF First, Before, HeapKey
<1>4. Ahead(e, k) = {}
  BY <1>2, <1>3, BeforeIrreflexive DEF Ahead, Fresh
<1>5. Cardinality(Ahead(e, k)) = 0
  BY <1>4, FS_EmptySet
<1>6. 0 < Room(e)
  BY <1>1 DEF Room, Sound, ActorStates
<1>7. QED BY <1>1, <1>2, <1>3, <1>5, <1>6, PoppedAhead DEF First

\* A stale key: dispatch ends where it would have ended.
LEMMA DropKeeps ==
  ASSUME NEW e, NEW k, NEW d, Pops(e, k, d), e.tasks[k.id].state # "PENDING",
         d.tasks = e.tasks, d.running = e.running
  PROVE  /\ Dispatched(d) = Dispatched(e)
         /\ Started(d) = Started(e)
         /\ DispatchCalls(d) = DispatchCalls(e)
<1>1. /\ Sound(e) /\ Sound(d) /\ d.queue = e.queue \ {k}
      /\ d.delayed = e.delayed /\ d.slots = e.slots /\ d.order = e.order
  BY DEF Pops
<1>2. Fresh(d) = Fresh(e)
  BY <1>1 DEF Fresh
<1>3. \A j : Ahead(d, j) = Ahead(e, j)
  BY <1>2 DEF Ahead
<1>4. Room(d) = Room(e)
  BY <1>1 DEF Room
<1>5. Popped(d) = Popped(e) \ {k}
  BY <1>1, <1>3, <1>4, PoppedAhead
<1>6. k \notin Fresh(e)
  BY DEF Fresh
<1>7. Started(d) = Started(e)
  BY <1>2, <1>5, <1>6 DEF Started
<1>8. DispatchCalls(d) = DispatchCalls(e)
  BY <1>7 DEF DispatchCalls
<1>9. Dispatched(d).tasks = Dispatched(e).tasks
  BY <1>1, <1>7 DEF Dispatched, Sound, ActorStates
<1>10. d.queue \ Popped(d) = e.queue \ Popped(e)
  BY <1>1, <1>5, FirstIsPopped
<1>11. Dispatched(d) = Dispatched(e)
  <2> DEFINE f == Dispatched(d)
  <2>1. /\ f.queue = d.queue \ Popped(d) /\ f.delayed = d.delayed
        /\ f.slots = d.slots /\ f.order = d.order
        /\ f.running = d.running + Cardinality(Started(d))
    BY <1>1, DispatchedFields
  <2>2. f \in ActorStates /\ f.tasks = Dispatched(e).tasks
    BY <1>1, <1>9, DispatchedSound DEF Sound
  <2> HIDE DEF f
  <2>3. f = Dispatched(e)
    BY <1>1, <1>7, <1>10, <2>1, <2>2, SameDispatched
  <2>4. QED BY <2>3 DEF f
<1>12. QED BY <1>7, <1>8, <1>11

\* A key of a pending task: one task fewer is left to start.
LEMMA StartKeeps ==
  ASSUME NEW e, NEW k, NEW d, Pops(e, k, d), e.tasks[k.id].state = "PENDING",
         d.tasks = [e.tasks EXCEPT ![k.id] = Run(@)], d.running = e.running + 1
  PROVE  /\ Dispatched(d) = Dispatched(e)
         /\ k.id \in Ids /\ e.tasks[k.id] \in Task
         /\ Started(e) = Started(d) \cup {k.id}
         /\ DispatchCalls(e) = DispatchCalls(d) \cup
              {Call(IF e.tasks[k.id].resume THEN "on_resume" ELSE "on_start", k.id)}
<1>1. /\ Sound(e) /\ Sound(d) /\ d.queue = e.queue \ {k}
      /\ d.delayed = e.delayed /\ d.slots = e.slots /\ d.order = e.order
  BY DEF Pops
<1>2. /\ k \in Popped(e) /\ k \in HeapKey /\ k.id \in Ids /\ k \in e.queue
      /\ \A j \in e.queue : j # k => Before(k, j) /\ ~ Before(j, k)
  BY FirstIsPopped DEF HeapKey, Popped
<1>3. e.queue \subseteq HeapKey
  BY <1>1, QueueTypes
<1>4. /\ e.tasks[k.id] \in Task
      /\ \A i \in Ids : d.tasks[i] = IF i = k.id THEN Run(e.tasks[k.id]) ELSE e.tasks[i]
      /\ d.tasks[k.id].state = "RUNNING"
  BY <1>1, <1>2, RegisteredIsTask, RunTask DEF Sound, ActorStates, TaskStates
<1>5. k \in Fresh(e)
  BY <1>2, BeforeIrreflexive DEF Fresh
<1>6. Fresh(d) = Fresh(e) \ {k}
  <2>1. ASSUME NEW f \in Fresh(d) PROVE f \in Fresh(e) \ {k}
    <3>1. /\ f \in e.queue /\ f # k /\ f.id \in Ids
          /\ d.tasks[f.id].state = "PENDING"
          /\ ~ \E j \in d.queue : j.id = f.id /\ Before(j, f)
      BY <1>1, <1>3 DEF Fresh, HeapKey
    <3>2. f.id # k.id /\ e.tasks[f.id].state = "PENDING"
      BY <1>4, <3>1
    <3>3. QED BY <1>1, <3>1, <3>2 DEF Fresh
  <2>2. ASSUME NEW f \in Fresh(e) \ {k} PROVE f \in Fresh(d)
    <3>1. /\ f \in d.queue /\ f.id \in Ids
          /\ e.tasks[f.id].state = "PENDING"
          /\ ~ \E j \in e.queue : j.id = f.id /\ Before(j, f)
      BY <1>1, <1>3 DEF Fresh, HeapKey
    <3>2. f.id # k.id
      BY <1>1, <1>2, <3>1
    <3>3. d.tasks[f.id].state = "PENDING"
      BY <1>4, <3>1, <3>2
    <3>4. QED BY <1>1, <3>1, <3>3 DEF Fresh
  <2>3. QED BY <2>1, <2>2
<1>7. ASSUME NEW j \in d.queue
      PROVE  /\ Cardinality(Ahead(e, j)) = Cardinality(Ahead(d, j)) + 1
             /\ Cardinality(Ahead(d, j)) \in Nat
  <2>1. Ahead(d, j) = Ahead(e, j) \ {k} /\ k \in Ahead(e, j)
    BY <1>1, <1>2, <1>5, <1>6 DEF Ahead
  <2>2. Cardinality(Ahead(e, j) \ {k}) = Cardinality(Ahead(e, j)) - 1
    BY <1>1, <2>1, AheadCount, FS_RemoveElement
  <2>3. Cardinality(Ahead(d, j)) \in Nat /\ Cardinality(Ahead(e, j)) \in Nat
    BY <1>1, AheadCount
  <2>4. QED BY <2>1, <2>2, <2>3
<1>8. Room(e) = Room(d) + 1 /\ Room(d) \in Int
  BY <1>1 DEF Room, Sound, ActorStates
<1>9. Popped(d) = Popped(e) \ {k}
  <2>1. ASSUME NEW j \in d.queue
        PROVE  Cardinality(Ahead(d, j)) < Room(d) <=> Cardinality(Ahead(e, j)) < Room(e)
    BY <1>7, <1>8
  <2>2. QED BY <1>1, <2>1, PoppedAhead
<1>10. Started(e) = Started(d) \cup {k.id} /\ k.id \notin Started(d)
  <2>1. k.id \notin Started(d)
    BY <1>1, <1>4, StartedPending
  <2>2. QED BY <1>2, <1>5, <1>6, <1>9, <2>1 DEF Started
<1>11. DispatchCalls(e) = DispatchCalls(d) \cup
         {Call(IF e.tasks[k.id].resume THEN "on_resume" ELSE "on_start", k.id)}
  <2> DEFINE call(i) == Call(IF e.tasks[i].resume THEN "on_resume" ELSE "on_start", i)
  <2>1. DispatchCalls(e) = {call(i) : i \in Started(e)}
    BY DEF DispatchCalls
  <2>2. DispatchCalls(d) = {call(i) : i \in Started(d)}
    BY <1>1, <1>4, <1>10, StartedPending DEF DispatchCalls
  <2> HIDE DEF call
  <2>3. DispatchCalls(e) = DispatchCalls(d) \cup {call(k.id)}
    BY <1>10, <2>1, <2>2
  <2>4. QED BY <2>3 DEF call
<1>12. Dispatched(d).tasks = Dispatched(e).tasks
  <2>1. Dispatched(d).tasks \in [Ids -> MaybeTask] /\ Dispatched(e).tasks \in [Ids -> MaybeTask]
    BY <1>1, DispatchedSound DEF Sound, ActorStates
  <2>2. ASSUME NEW i \in Ids PROVE Dispatched(d).tasks[i] = Dispatched(e).tasks[i]
    <3>1. Dispatched(d).tasks[i] = IF i \in Started(d) THEN Run(d.tasks[i]) ELSE d.tasks[i]
      BY <1>1, DispatchedTasks
    <3>2. Dispatched(e).tasks[i] = IF i \in Started(e) THEN Run(e.tasks[i]) ELSE e.tasks[i]
      BY <1>1, DispatchedTasks
    <3>3. QED BY <1>4, <1>10, <3>1, <3>2
  <2>3. QED BY <2>1, <2>2
<1>13. d.queue \ Popped(d) = e.queue \ Popped(e)
  BY <1>1, <1>2, <1>9
<1>14. d.running + Cardinality(Started(d)) = e.running + Cardinality(Started(e))
  <2>1. Cardinality(Started(e)) = Cardinality(Started(d)) + 1
    <3>1. IsFiniteSet(Started(d))
      BY <1>1, StartedPending
    <3>2. QED BY <1>10, <3>1, FS_AddElement
  <2>2. Cardinality(Started(d)) \in Nat /\ e.running \in Nat
    BY <1>1, FirstsAreTasks DEF Sound, ActorStates
  <2>3. QED BY <2>1, <2>2
<1>15. Dispatched(d) = Dispatched(e)
  <2> DEFINE f == Dispatched(d)
  <2>1. /\ f.queue = d.queue \ Popped(d) /\ f.delayed = d.delayed
        /\ f.slots = d.slots /\ f.order = d.order
        /\ f.running = d.running + Cardinality(Started(d))
    BY <1>1, DispatchedFields
  <2>2. f \in ActorStates /\ f.tasks = Dispatched(e).tasks
    BY <1>1, <1>12, DispatchedSound DEF Sound
  <2> HIDE DEF f
  <2>3. f = Dispatched(e)
    BY <1>1, <1>13, <1>14, <2>1, <2>2, SameDispatched
  <2>4. QED BY <2>3 DEF f
<1>16. QED BY <1>2, <1>4, <1>10, <1>11, <1>15

\* With the heap empty or the slots taken, dispatch does nothing.
LEMMA NothingLeft ==
  ASSUME NEW e, Sound(e), e.running >= e.slots \/ e.queue = {}
  PROVE  /\ Dispatched(e) = e
         /\ Started(e) = {}
         /\ DispatchCalls(e) = {}
<1>1. Popped(e) = {}
  <2>1. CASE e.queue = {}
    BY <2>1 DEF Popped
  <2>2. CASE e.running >= e.slots
    <3>1. Room(e) <= 0 /\ Room(e) \in Int
      BY <2>2 DEF Room, Sound, ActorStates
    <3>2. \A k : ~ (Cardinality(Ahead(e, k)) < Room(e))
      BY <3>1, AheadCount
    <3>3. QED BY <3>2, PoppedAhead
  <2>3. QED BY <2>1, <2>2
<1>2. Started(e) = {}
  BY <1>1 DEF Started
<1>3. Cardinality(Started(e)) = 0
  BY <1>2, FS_EmptySet
<1>4. Dispatched(e).tasks = e.tasks
  BY <1>2 DEF Dispatched, Sound, ActorStates
<1>5. e.running = e.running + Cardinality(Started(e)) /\ e \in ActorStates
  BY <1>3 DEF Sound, ActorStates
<1>6. e = Dispatched(e)
  BY <1>1, <1>4, <1>5, SameDispatched
<1>7. QED BY <1>2, <1>6 DEF DispatchCalls

-----------------------------------------------------------------------------
(* The invariant.                                                          *)

\* What DispatchInv says of the state a handler leaves the actor in.
Settled(e) ==
  /\ Sound(e)
  /\ Reachable(e)
  /\ "RUNNING" \notin RestoreOver => Accounted(e)
  /\ Regular(e)
  /\ e.running < e.slots => e.queue = {}

LoopTypes ==
  /\ loop \in BOOLEAN
  /\ dirty \in SUBSET Ids
  /\ snapshot \in [Ids -> MaybeTask]
  /\ spawned \in SUBSET HookCall
  /\ Sound(Current)

\* Only rows in dirty are late, and the one that hides a running task is that of
\* the task just started, which had a slot.
LateRows ==
  /\ \A i \in Ids \ dirty : snapshot[i] = tasks[i]
  /\ \A i \in dirty : State(i) = "RUNNING" =>
       \/ snapshot[i].state = "RUNNING"
       \/ dirty = {i} /\ running <= slots

LoopInv == /\ LoopTypes
           /\ Within(Current)
           /\ LateRows
           /\ Settled(Final)

\* Between two handlers the kernel is as Scheduler has it.
LEMMA LoopAtRest ==
  ASSUME LoopInv, ~ loop, dirty = {}
  PROVE  DispatchInv
<1>1. Final = Current
  BY DEF Final
<1>2. Settled(Current)
  BY <1>1 DEF LoopInv
<1>3. TypeOK
  BY <1>2 DEF LoopInv, LoopTypes, Settled, Sound, ActorStates, Current, TypeOK
<1>4. NoLostTask
  BY <1>2 DEF Settled, Reachable, NoLostTask, State, Current
<1>5. SnapshotCurrent
  BY <1>3 DEF LoopInv, LateRows, SnapshotCurrent, TypeOK
<1>6. "RUNNING" \notin RestoreOver => SlotAccounting
  <2>1. RunningIn(Current) = RunningIds
    BY DEF RunningIn, RunningIds, State, Current
  <2>2. QED BY <1>2, <2>1 DEF Settled, Accounted, SlotAccounting, Current
<1>7. Regular(Current) /\ WorkConserving
  BY <1>2 DEF Settled, WorkConserving, Current
<1>8. QED BY <1>3, <1>4, <1>5, <1>6, <1>7 DEF DispatchInv, Inv

LEMMA DispatchedSettled ==
  ASSUME NEW e, NEW ids, Fit(e, ids)
  PROVE  Settled(Dispatched(e))
<1> DEFINE d == Dispatched(e)
<1>1. /\ Sound(e) /\ Reachable(e) /\ Regular(e)
      /\ "RUNNING" \notin RestoreOver => Accounted(e)
  BY DEF Fit, Good
<1>2. /\ Sound(d) /\ Reachable(d) /\ Regular(d)
      /\ "RUNNING" \notin RestoreOver => Accounted(d)
  BY <1>1, DispatchedSound, DispatchedReachable, DispatchedAccounted, DispatchedRegular
<1>3. /\ d.queue = e.queue \ Popped(e) /\ d.slots = e.slots
      /\ d.running = e.running + Cardinality(Started(e))
  BY <1>1, DispatchedFields
<1> HIDE DEF d
<1>4. ASSUME d.queue # {} PROVE ~ (d.running < d.slots)
  <2>1. Room(e) <= Cardinality(Started(e))
    BY <1>1, <1>3, <1>4, StartedEnough
  <2>2. QED BY <1>1, <1>3, <2>1, FirstsAreTasks DEF Room, Sound, ActorStates
<1>5. QED BY <1>2, <1>4 DEF Settled, d

\* A handler at its first step: e is where it takes the actor before it
\* dispatches.
Takes(e, ids, calls) ==
  /\ Fit(e, ids)
  /\ ids \subseteq Ids
  /\ calls \subseteq HookCall
  /\ \/ Accept(e, ids, calls)
     \/ /\ AcceptOnly(e, ids, calls)
        /\ e.queue = queue /\ e.slots = slots /\ e.running = running

LEMMA TakeFields ==
  ASSUME NEW e, NEW ids, NEW calls, Takes(e, ids, calls)
  PROVE  /\ ~ loop /\ dirty = {} /\ loop' \in BOOLEAN
         /\ tasks' = e.tasks /\ queue' = e.queue /\ delayed' = e.delayed
         /\ slots' = e.slots /\ running' = e.running /\ order' = e.order
         /\ snapshot' = snapshot /\ spawned' = calls /\ dirty' = ids
BY DEF Takes, Accept, AcceptOnly, Take

LEMMA TakeCurrent ==
  ASSUME NEW e, NEW ids, NEW calls, Takes(e, ids, calls)
  PROVE  /\ Current' = e
         /\ Final' = IF loop' THEN Dispatched(e) ELSE e
<1>1. e \in ActorStates
  BY DEF Takes, Fit, Good, Sound
<1> DEFINE now == [tasks |-> tasks', queue |-> queue', delayed |-> delayed',
                   slots |-> slots', running |-> running', order |-> order']
<1>2. now = e
  BY <1>1, TakeFields DEF ActorStates
<1>3. Current' = now
  BY DEF Current
<1>4. Current' = e
  BY <1>2, <1>3
<1>5. Final' = IF loop' THEN Dispatched(Current') ELSE Current'
  BY DEF Final
<1>6. QED BY <1>4, <1>5

LEMMA TakeInv ==
  ASSUME LoopInv, NEW e, NEW ids, NEW calls, Takes(e, ids, calls)
  PROVE  LoopInv'
<1>1. DispatchInv
  BY LoopAtRest, TakeFields
<1>2. Sound(e) /\ Regular(e) /\ Follows(e) /\ \A i \in Ids \ ids : e.tasks[i] = tasks[i]
  BY DEF Takes, Fit, Good
<1>3. LoopTypes'
  <2>1. Sound(Current')
    BY <1>2, TakeCurrent
  <2>2. (Sound(Current))'
    BY <2>1
  <2>3. QED BY <2>2, TakeFields DEF LoopTypes, LoopInv, Takes
<1>4. Within(Current)'
  <2>1. Within(Current')
    BY <1>2, TakeCurrent DEF Regular
  <2>2. QED BY <2>1
<1>5. LateRows'
  <2>1. snapshot = tasks
    BY <1>1 DEF DispatchInv, Inv, SnapshotCurrent
  <2>2. \A i \in Ids \ ids : snapshot[i] = e.tasks[i]
    BY <1>2, <2>1
  <2>3. \A i \in ids : e.tasks[i].state = "RUNNING" => snapshot[i].state = "RUNNING"
    BY <1>2, <2>1 DEF Takes, Follows, RunningIn, RunningIds, State
  <2>4. QED BY <2>2, <2>3, TakeFields DEF LateRows, State
<1>6. Settled(Final)'
  <2>1. CASE loop'
    <3>1. Settled(Final')
      BY <2>1, TakeCurrent, DispatchedSettled DEF Takes
    <3>2. QED BY <3>1
  <2>2. CASE ~ loop'
    <3>1. e.running < e.slots => e.queue = {}
      BY <1>1, <2>2 DEF Takes, Accept, DispatchInv, WorkConserving
    <3>2. Settled(e)
      BY <3>1 DEF Takes, Fit, Good, Settled
    <3>3. Settled(Final')
      BY <2>2, <3>2, TakeCurrent
    <3>4. QED BY <3>3
  <2>3. QED BY <2>1, <2>2
<1>7. QED BY <1>3, <1>4, <1>5, <1>6 DEF LoopInv

-----------------------------------------------------------------------------
(* The steps inside a handler: they do not change where it ends.           *)

FinalCalls == spawned \cup (IF loop THEN DispatchCalls(Current) ELSE {})

LEMMA CurrentIs ==
  /\ Current.tasks = tasks /\ Current.queue = queue /\ Current.delayed = delayed
  /\ Current.slots = slots /\ Current.running = running /\ Current.order = order
BY DEF Current

\* The rows where a handler ends, when it has reached e with the rows in late to
\* patch; t is where it leaves the registry.
RowsAfter(late, more, t, rows) ==
  [i \in Ids |-> IF i \in late \cup more THEN t[i] ELSE rows[i]]

LEMMA FinalRows ==
  /\ FinalSnapshot = RowsAfter(dirty, IF loop THEN Started(Current) ELSE {},
                               Final.tasks, snapshot)
  /\ FinalSnapshot' = RowsAfter(dirty', IF loop' THEN Started(Current') ELSE {},
                                Final'.tasks, snapshot')
BY DEF FinalSnapshot, RowsAfter

LEMMA SyncKeeps ==
  ASSUME LoopInv, NEW i \in dirty, SyncRow(i)
  PROVE  /\ LoopInv'
         /\ Final' = Final /\ FinalSnapshot' = FinalSnapshot /\ FinalCalls' = FinalCalls
<1>1. /\ dirty' = dirty \ {i} /\ loop' = loop
      /\ snapshot' = [snapshot EXCEPT ![i] = tasks[i]]
      /\ tasks' = tasks /\ queue' = queue /\ delayed' = delayed /\ slots' = slots
      /\ running' = running /\ order' = order /\ spawned' = spawned
  BY DEF SyncRow
<1>2. Current' = Current
  BY <1>1 DEF Current
<1>3. Final' = Final /\ FinalCalls' = FinalCalls
  BY <1>1, <1>2 DEF Final, FinalCalls
<1>4. /\ snapshot \in [Ids -> MaybeTask] /\ dirty \in SUBSET Ids
      /\ tasks \in [Ids -> MaybeTask] /\ Sound(Current) /\ loop \in BOOLEAN
  BY CurrentIs DEF LoopInv, LoopTypes, Sound, ActorStates
<1>5. LoopTypes'
  <2>1. Sound(Current)'
    BY <1>2, <1>4
  <2>2. QED BY <1>1, <1>4, <2>1 DEF LoopTypes, LoopInv
<1>6. LateRows'
  BY <1>1, <1>4 DEF LateRows, LoopInv, State
<1>7. Within(Current)' /\ Settled(Final)'
  <2>1. Within(Current') /\ Settled(Final')
    BY <1>2, <1>3 DEF LoopInv
  <2>2. QED BY <2>1
<1>8. FinalSnapshot' = FinalSnapshot
  <2> DEFINE more == IF loop THEN Started(Current) ELSE {}
  <2>1. i \notin more => Final.tasks[i] = tasks[i]
    BY <1>4, DispatchedTasks, CurrentIs DEF Final
  <2> HIDE DEF more
  <2>2. RowsAfter(dirty \ {i}, more, Final.tasks, [snapshot EXCEPT ![i] = tasks[i]])
          = RowsAfter(dirty, more, Final.tasks, snapshot)
    BY <1>4, <2>1 DEF RowsAfter
  <2>3. (IF loop' THEN Started(Current') ELSE {}) = more
    BY <1>1, <1>2 DEF more
  <2>4. FinalSnapshot' = RowsAfter(dirty \ {i}, more, Final.tasks,
                                   [snapshot EXCEPT ![i] = tasks[i]])
    BY <1>1, <1>3, <2>3, FinalRows
  <2>5. QED BY <2>2, <2>4, FinalRows DEF more
<1>9. QED BY <1>3, <1>5, <1>6, <1>7, <1>8 DEF LoopInv

LEMMA DropStep ==
  ASSUME LoopInv, NEW k \in queue, DropStale(k)
  PROVE  /\ LoopInv'
         /\ Final' = Final /\ FinalSnapshot' = FinalSnapshot /\ FinalCalls' = FinalCalls
<1> DEFINE e == Current
           d == [Current EXCEPT !.queue = queue \ {k}]
<1>1. /\ loop /\ dirty = {} /\ running < slots /\ State(k.id) # "PENDING"
      /\ \A j \in queue \ {k} : Before(k, j)
      /\ queue' = queue \ {k} /\ loop' = loop /\ dirty' = dirty
      /\ tasks' = tasks /\ delayed' = delayed /\ slots' = slots /\ snapshot' = snapshot
      /\ running' = running /\ order' = order /\ spawned' = spawned
  BY DEF DropStale, Iterates, Best
<1>2. Sound(e)
  BY DEF LoopInv, LoopTypes
<1>3. Current' = d
  BY <1>1 DEF Current
<1>4. /\ d.tasks = tasks /\ d.queue = queue \ {k} /\ d.delayed = delayed
      /\ d.slots = slots /\ d.running = running /\ d.order = order
  BY DEF Current
<1>5. Sound(d)
  <2>1. IsFiniteSet(queue \ {k})
    BY <1>2, CurrentIs, FS_Subset DEF Sound
  <2>2. d \in ActorStates
    BY <1>2, CurrentIs DEF Sound, ActorStates
  <2> HIDE DEF d
  <2>3. QED BY <1>2, <1>4, <2>1, <2>2, CurrentIs DEF Sound
<1> HIDE DEF d
<1>6. Pops(e, k, d) /\ e.tasks[k.id].state # "PENDING"
  BY <1>1, <1>2, <1>4, <1>5, CurrentIs DEF Pops, First, State
<1>7. /\ Dispatched(d) = Dispatched(e) /\ Started(d) = Started(e)
      /\ DispatchCalls(d) = DispatchCalls(e)
  BY <1>4, <1>6, CurrentIs, DropKeeps
<1>8. Final' = Final /\ FinalCalls' = FinalCalls
  BY <1>1, <1>3, <1>7 DEF Final, FinalCalls
<1>9. FinalSnapshot' = FinalSnapshot
  BY <1>1, <1>3, <1>7, <1>8, FinalRows
<1>10. LoopTypes'
  <2>1. Sound(Current')
    BY <1>3, <1>5
  <2>2. Sound(Current)'
    BY <2>1
  <2>3. QED BY <1>1, <2>2 DEF LoopTypes, LoopInv
<1>11. LateRows'
  BY <1>1 DEF LateRows, LoopInv, State
<1>12. Within(Current)'
  <2>1. RunningIn(d) = RunningIn(e)
    BY <1>4, CurrentIs DEF RunningIn
  <2>2. Within(d)
    BY <1>4, <2>1, CurrentIs DEF Within, LoopInv
  <2>3. Within(Current')
    BY <1>3, <2>2
  <2>4. QED BY <2>3
<1>13. Settled(Final)'
  <2>1. Settled(Final')
    BY <1>8 DEF LoopInv
  <2>2. QED BY <2>1
<1>14. QED BY <1>8, <1>9, <1>10, <1>11, <1>12, <1>13 DEF LoopInv

LEMMA StartStep ==
  ASSUME LoopInv, NEW k \in queue, StartNext(k)
  PROVE  /\ LoopInv'
         /\ Final' = Final /\ FinalSnapshot' = FinalSnapshot /\ FinalCalls' = FinalCalls
<1> DEFINE e == Current
           T == [tasks EXCEPT ![k.id] = Run(tasks[k.id])]
           d == [tasks |-> T, queue |-> queue \ {k}, delayed |-> delayed,
                 slots |-> slots, running |-> running + 1, order |-> order]
           call == Call(IF tasks[k.id].resume THEN "on_resume" ELSE "on_start", k.id)
<1>1. /\ loop /\ dirty = {} /\ running < slots /\ State(k.id) = "PENDING"
      /\ \A j \in queue \ {k} : Before(k, j)
      /\ queue' = queue \ {k} /\ tasks' = T /\ running' = running + 1
      /\ spawned' = spawned \cup {call} /\ dirty' = {k.id} /\ loop' = loop
      /\ delayed' = delayed /\ slots' = slots /\ snapshot' = snapshot
      /\ order' = order
  BY DEF StartNext, Iterates, Best
<1>2. Sound(e)
  BY DEF LoopInv, LoopTypes
<1>3. Current' = d
  BY <1>1 DEF Current
<1>4. /\ d.tasks = T /\ d.queue = queue \ {k} /\ d.delayed = delayed
      /\ d.slots = slots /\ d.running = running + 1 /\ d.order = order
  OBVIOUS
<1>5. /\ k \in HeapKey /\ k.id \in Ids /\ tasks[k.id] \in Task
      /\ tasks \in [Ids -> MaybeTask] /\ running \in Nat /\ slots \in Nat
      /\ State(k.id) = tasks[k.id].state
  BY <1>1, <1>2, CurrentIs, RegisteredIsTask
     DEF Sound, ActorStates, HeapKey, State, TaskStates
<1>6. Run(tasks[k.id]) \in Task /\ Run(tasks[k.id]).state = "RUNNING"
  BY <1>5, RunTask
<1>7. Sound(d)
  <2>1. IsFiniteSet(queue \ {k})
    BY <1>2, CurrentIs, FS_Subset DEF Sound
  <2>2. T \in [Ids -> MaybeTask] /\ running + 1 \in Nat /\ queue \ {k} \in SUBSET HeapKey
    BY <1>2, <1>5, <1>6, CurrentIs DEF Sound, ActorStates, MaybeTask
  <2> HIDE DEF T
  <2>3. d \in ActorStates
    BY <1>2, <2>2, CurrentIs DEF Sound, ActorStates
  <2> HIDE DEF d
  <2>4. QED BY <1>2, <1>4, <2>1, <2>3, CurrentIs DEF Sound
<1> HIDE DEF d
<1>8. /\ Pops(e, k, d) /\ e.tasks[k.id].state = "PENDING"
      /\ d.tasks = [e.tasks EXCEPT ![k.id] = Run(@)] /\ d.running = e.running + 1
  BY <1>1, <1>2, <1>4, <1>7, CurrentIs DEF Pops, First, State
<1>9. /\ Dispatched(d) = Dispatched(e)
      /\ Started(e) = Started(d) \cup {k.id}
      /\ DispatchCalls(e) = DispatchCalls(d) \cup {call}
  BY <1>8, CurrentIs, StartKeeps
<1> HIDE DEF call
<1>10. Final' = Final
  BY <1>1, <1>3, <1>9 DEF Final
<1>11. FinalCalls' = FinalCalls
  BY <1>1, <1>3, <1>9 DEF FinalCalls
<1>12. FinalSnapshot' = FinalSnapshot
  <2>1. RowsAfter({k.id}, Started(d), Final.tasks, snapshot)
          = RowsAfter({}, Started(e), Final.tasks, snapshot)
    BY <1>9 DEF RowsAfter
  <2>2. FinalSnapshot' = RowsAfter({k.id}, Started(d), Final.tasks, snapshot)
    BY <1>1, <1>3, <1>10, FinalRows
  <2>3. QED BY <1>1, <2>1, <2>2, FinalRows
<1>13. LoopTypes'
  <2>1. Sound(Current')
    BY <1>3, <1>7
  <2>2. Sound(Current)'
    BY <2>1
  <2>3. call \in HookCall
    BY <1>5 DEF call, Call, HookCall
  <2>4. QED BY <1>1, <1>5, <2>2, <2>3 DEF LoopTypes, LoopInv
<1>14. LateRows'
  BY <1>1, <1>5 DEF LateRows, LoopInv, State
<1>15. Within(Current)'
  <2>1. RunningIn(d) = RunningIn(e) \cup {k.id} /\ k.id \notin RunningIn(e)
    BY <1>1, <1>4, <1>5, <1>6, CurrentIs DEF RunningIn
  <2>2. IsFiniteSet(RunningIn(e)) /\ Cardinality(RunningIn(e)) \in Nat
    BY IdsAssumption, FS_Subset, FS_CardinalityType DEF RunningIn
  <2>3. Cardinality(RunningIn(d)) = Cardinality(RunningIn(e)) + 1
    BY <2>1, <2>2, FS_AddElement
  <2>4. Cardinality(RunningIn(e)) <= running
    BY CurrentIs DEF LoopInv, Within
  <2>5. Within(d)
    BY <1>4, <1>5, <2>2, <2>3, <2>4 DEF Within
  <2>6. Within(Current')
    BY <1>3, <2>5
  <2>7. QED BY <2>6
<1>16. Settled(Final)'
  <2>1. Settled(Final')
    BY <1>10 DEF LoopInv
  <2>2. QED BY <2>1
<1>17. QED BY <1>10, <1>11, <1>12, <1>13, <1>14, <1>15, <1>16 DEF LoopInv

LEMMA ReturnStep ==
  ASSUME LoopInv, Return
  PROVE  /\ LoopInv'
         /\ Final' = Final /\ FinalSnapshot' = FinalSnapshot /\ FinalCalls' = FinalCalls
<1>1. /\ loop /\ dirty = {} /\ (running >= slots \/ queue = {})
      /\ ~ loop' /\ loop' \in BOOLEAN /\ dirty' = dirty
      /\ tasks' = tasks /\ queue' = queue /\ delayed' = delayed /\ slots' = slots
      /\ running' = running /\ order' = order /\ snapshot' = snapshot /\ spawned' = spawned
  BY DEF Return, vars
<1>2. Sound(Current)
  BY DEF LoopInv, LoopTypes
<1>3. Current' = Current
  BY <1>1 DEF Current
<1>4. /\ Dispatched(Current) = Current
      /\ Started(Current) = {} /\ DispatchCalls(Current) = {}
  BY <1>1, <1>2, CurrentIs, NothingLeft
<1>5. Final' = Final /\ FinalCalls' = FinalCalls
  BY <1>1, <1>3, <1>4 DEF Final, FinalCalls
<1>6. FinalSnapshot' = FinalSnapshot
  BY <1>1, <1>3, <1>4, <1>5, FinalRows
<1>7. Sound(Current)' /\ Within(Current)' /\ Settled(Final)'
  <2>1. Sound(Current') /\ Within(Current') /\ Settled(Final')
    BY <1>2, <1>3, <1>5 DEF LoopInv
  <2>2. QED BY <2>1
<1>8. LoopTypes' /\ LateRows'
  BY <1>1, <1>7 DEF LoopTypes, LateRows, LoopInv, State
<1>9. QED BY <1>5, <1>6, <1>7, <1>8 DEF LoopInv

-----------------------------------------------------------------------------
(* The operators of the kernel as Handlers has them: those of Scheduler that *)
(* look at no variable are copies, the others speak of where the handler in  *)
(* progress ends.                                                            *)

LEMMA HandlersCardinality == \A S : Handlers!Cardinality(S) = Cardinality(S)
BY DEF Handlers!Cardinality, Cardinality

LEMMA HandlersFresh == \A e : Handlers!Fresh(e) = Fresh(e)
BY DEF Handlers!Fresh, Fresh, Handlers!Before, Before

LEMMA HandlersStarted ==
  \A e : Handlers!Popped(e) = Popped(e) /\ Handlers!Started(e) = Started(e)
<1>1. \A e : Handlers!Popped(e) = Popped(e)
  BY HandlersCardinality, HandlersFresh DEF Handlers!Popped, Popped, Handlers!Before, Before
<1>2. QED BY <1>1, HandlersFresh DEF Handlers!Started, Started

LEMMA HandlersDispatched ==
  \A e : /\ Handlers!Dispatched(e) = Dispatched(e)
         /\ Handlers!DispatchCalls(e) = DispatchCalls(e)
<1>1. \A t : Handlers!Run(t) = Run(t)
  BY DEF Handlers!Run, Run, Handlers!AtLeast1, AtLeast1
<1>2. \A h, i : Handlers!Call(h, i) = Call(h, i)
  BY DEF Handlers!Call, Call
<1>3. \A e : Handlers!Dispatched(e) = Dispatched(e)
  BY <1>1, HandlersCardinality, HandlersStarted DEF Handlers!Dispatched, Dispatched
<1>4. \A e : Handlers!DispatchCalls(e) = DispatchCalls(e)
  BY <1>2, HandlersStarted DEF Handlers!DispatchCalls, DispatchCalls
<1>5. QED BY <1>3, <1>4

\* Between two handlers the effects are the same.
LEMMA HandlersAtRest ==
  ASSUME LoopInv, ~ loop, dirty = {}
  PROVE  /\ Handlers!Current = Current
         /\ \A i : Handlers!State(i) = State(i)
         /\ Final.tasks = tasks /\ FinalSnapshot = snapshot /\ FinalCalls = spawned
<1>1. Final = Current
  BY DEF Final
<1>2. /\ Final.tasks = tasks /\ Final.queue = queue /\ Final.running = running
  BY <1>1, CurrentIs
<1>3. FinalSnapshot = snapshot
  BY DEF FinalSnapshot, LoopInv, LoopTypes
<1>4. FinalCalls = spawned
  BY DEF FinalCalls
<1>5. QED BY <1>2, <1>3, <1>4 DEF Handlers!Current, Current, Handlers!State, State

LEMMA HandlersReplace ==
  ASSUME LoopInv, ~ loop, dirty = {}
  PROVE  /\ \A i, t : Handlers!Replace(i, t) = Replace(i, t)
         /\ \A i, t, parked : Handlers!ReplaceAndQueue(i, t, parked) = ReplaceAndQueue(i, t, parked)
<1>1. Final.running = running
  BY CurrentIs DEF Final
<1>2. \A i, t : Handlers!Replace(i, t) = Replace(i, t)
  <2>1. \A i : Handlers!Released(i) = Released(i)
    BY <1>1, HandlersAtRest DEF Handlers!Released, Released, Handlers!Dec, Dec
  <2>2. Handlers!Current = Current
    BY HandlersAtRest
  <2> SUFFICES ASSUME NEW i, NEW t
               PROVE  Handlers!Replace(i, t) = Replace(i, t)
    OBVIOUS
  <2>3. Handlers!Replace(i, t) = [Handlers!Current EXCEPT !.tasks[i] = t,
                                                          !.running = Handlers!Released(i)]
    BY DEF Handlers!Replace
  <2>4. Replace(i, t) = [Current EXCEPT !.tasks[i] = t, !.running = Released(i)]
    BY DEF Replace
  <2>5. QED BY <2>1, <2>2, <2>3, <2>4
<1>3. QED
  BY <1>2 DEF Handlers!ReplaceAndQueue, ReplaceAndQueue, Handlers!Key, Key

\* A handler that dispatches ends as Scheduler says.
LEMMA AcceptHandles ==
  ASSUME LoopInv, NEW e, NEW ids, NEW calls, Takes(e, ids, calls), Accept(e, ids, calls)
  PROVE  Handlers!HandledThenDispatched(e, ids, calls)
<1> DEFINE f == Dispatched(e)
<1>1. /\ Current' = e /\ loop' /\ Final' = f
  BY TakeCurrent DEF Accept
<1>2. /\ delayed' = e.delayed /\ slots' = e.slots /\ order' = e.order
      /\ spawned' = calls /\ dirty' = ids /\ snapshot' = snapshot
      /\ ~ loop /\ dirty = {}
  BY TakeFields
<1>3. f.delayed = e.delayed /\ f.slots = e.slots /\ f.order = e.order
  BY DispatchedFields DEF Takes, Fit, Good
<1>4. FinalSnapshot' = [i \in Ids |-> IF i \in ids \cup Started(e) THEN f.tasks[i]
                                      ELSE snapshot[i]]
  BY <1>1, <1>2, FinalRows DEF RowsAfter
<1>5. FinalCalls' = calls \cup DispatchCalls(e)
  BY <1>1, <1>2 DEF FinalCalls
<1> HIDE DEF f
<1>6. Handlers!Handled(f, ids \cup Started(e), calls \cup DispatchCalls(e))
  BY <1>1, <1>2, <1>3, <1>4, <1>5, HandlersAtRest DEF Handlers!Handled, FinalCalls
<1>7. QED
  BY <1>6, HandlersDispatched, HandlersStarted DEF Handlers!HandledThenDispatched, f

LEMMA AcceptOnlyHandles ==
  ASSUME LoopInv, NEW e, NEW ids, NEW calls, Takes(e, ids, calls), AcceptOnly(e, ids, calls)
  PROVE  Handlers!Handled(e, ids, calls)
<1>1. /\ Current' = e /\ ~ loop' /\ Final' = e
  BY TakeCurrent DEF AcceptOnly
<1>2. /\ delayed' = e.delayed /\ slots' = e.slots /\ order' = e.order
      /\ spawned' = calls /\ dirty' = ids /\ snapshot' = snapshot
      /\ ~ loop /\ dirty = {}
  BY TakeFields
<1>3. FinalSnapshot' = [i \in Ids |-> IF i \in ids THEN e.tasks[i] ELSE snapshot[i]]
  BY <1>1, <1>2, FinalRows DEF RowsAfter
<1>4. FinalCalls' = calls
  BY <1>1, <1>2 DEF FinalCalls
<1>5. QED BY <1>1, <1>2, <1>3, <1>4, HandlersAtRest DEF Handlers!Handled, FinalCalls

-----------------------------------------------------------------------------
(* The commands, one by one: each is the handler of the same name.         *)

OwnHookCalls == {"on_pause", "on_finish", "on_kill", "on_reschedule"}

LEMMA CallTypes ==
  \A i \in Ids : \A h \in OwnHookCalls :
    {Call(h, i)} \subseteq HookCall /\ Handlers!Call(h, i) = Call(h, i)
BY DEF Call, HookCall, OwnHookCalls, Handlers!Call

LEMMA AcceptStep ==
  ASSUME LoopInv, NEW e, NEW ids \in SUBSET Ids, Fit(e, ids),
         NEW calls \in SUBSET HookCall, Accept(e, ids, calls)
  PROVE  LoopInv' /\ Handlers!HandledThenDispatched(e, ids, calls)
<1>1. Takes(e, ids, calls)
  BY DEF Takes
<1>2. QED BY <1>1, TakeInv, AcceptHandles

LEMMA AcceptOnlyStep ==
  ASSUME LoopInv, NEW e, NEW ids \in SUBSET Ids, Fit(e, ids),
         NEW calls \in SUBSET HookCall, AcceptOnly(e, ids, calls),
         e.queue = queue, e.slots = slots, e.running = running
  PROVE  LoopInv' /\ Handlers!Handled(e, ids, calls)
<1>1. Takes(e, ids, calls)
  BY DEF Takes
<1>2. QED BY <1>1, TakeInv, AcceptOnlyHandles

LEMMA StartCommand ==
  ASSUME LoopInv, NEW i \in Ids, State(i) = "NONE", order < OrderBound,
         NEW p \in Priorities, NEW m \in RetryCaps, NEW n \in Infos,
         Accept(StartEffect(i, p, m, n), {i}, {})
  PROVE  LoopInv' /\ Handlers!Start(i, p, m, n)
<1> DEFINE e == StartEffect(i, p, m, n)
<1>1. ~ loop /\ dirty = {}
  BY DEF Accept, Take
<1>2. DispatchInv
  BY <1>1, LoopAtRest
<1>3. Fit(e, {i})
  BY <1>2, StartFit
<1>4. Handlers!StartEffect(i, p, m, n) = e
  <2>1. Handlers!NewTask(p, m, n) = NewTask(p, m, n)
    BY DEF Handlers!NewTask, NewTask
  <2>2. QED BY <1>1, <2>1, HandlersReplace DEF Handlers!StartEffect, StartEffect
<1> HIDE DEF e
<1>5. LoopInv' /\ Handlers!HandledThenDispatched(e, {i}, {})
  BY <1>3, AcceptStep DEF e
<1>6. QED BY <1>1, <1>4, <1>5, HandlersAtRest DEF Handlers!Start

LEMMA PauseCommand ==
  ASSUME LoopInv, NEW i \in Ids, NEW c \in OptCheckpoint
  PROVE  /\ State(i) = "RUNNING" /\ Accept(PauseEffect(i, c), {i}, {Call("on_pause", i)})
              => LoopInv' /\ Handlers!PauseRunning(i, c)
         /\ State(i) = "PENDING" /\ AcceptOnly(PauseEffect(i, c), {i}, {})
              => LoopInv' /\ Handlers!PausePending(i, c)
<1> DEFINE e == PauseEffect(i, c)
           s == {Call("on_pause", i)}
<1> SUFFICES ASSUME \/ State(i) = "RUNNING" /\ Accept(e, {i}, s)
                    \/ State(i) = "PENDING" /\ AcceptOnly(e, {i}, {})
             PROVE  /\ State(i) = "RUNNING" /\ Accept(e, {i}, s)
                         => LoopInv' /\ Handlers!PauseRunning(i, c)
                    /\ State(i) = "PENDING" /\ AcceptOnly(e, {i}, {})
                         => LoopInv' /\ Handlers!PausePending(i, c)
  OBVIOUS
<1>1. ~ loop /\ dirty = {}
  BY DEF Accept, AcceptOnly, Take
<1>2. DispatchInv
  BY <1>1, LoopAtRest
<1>3. Fit(e, {i})
  BY <1>2, PauseFit
<1>4. Handlers!PauseEffect(i, c) = e
  <2>1. \A t : Handlers!Paused(t, c) = Paused(t, c)
    BY DEF Handlers!Paused, Paused, Handlers!OrKeep, OrKeep
  <2>2. QED BY <1>1, <2>1, HandlersReplace, HandlersAtRest DEF Handlers!PauseEffect, PauseEffect
<1>5. State(i) = "PENDING" => e.queue = queue /\ e.slots = slots /\ e.running = running
  BY ReturnsAlone
<1>6. s \subseteq HookCall /\ {Handlers!Call("on_pause", i)} = s
  BY CallTypes DEF OwnHookCalls
<1> HIDE DEF e, s
<1>7. CASE State(i) = "RUNNING" /\ Accept(e, {i}, s)
  <2>1. LoopInv' /\ Handlers!HandledThenDispatched(e, {i}, s)
    BY <1>3, <1>6, <1>7, AcceptStep
  <2>2. QED BY <1>1, <1>4, <1>6, <1>7, <2>1, HandlersAtRest DEF Handlers!PauseRunning
<1>8. CASE State(i) = "PENDING" /\ AcceptOnly(e, {i}, {})
  <2>1. LoopInv' /\ Handlers!Handled(e, {i}, {})
    BY <1>3, <1>5, <1>8, AcceptOnlyStep
  <2>2. QED BY <1>1, <1>4, <1>8, <2>1, HandlersAtRest DEF Handlers!PausePending
<1>9. QED BY <1>7, <1>8 DEF e, s

LEMMA ResumeCommand ==
  ASSUME LoopInv, NEW i \in Ids, State(i) = "PAUSED", order < OrderBound,
         NEW c \in OptCheckpoint, Accept(ResumeEffect(i, c), {i}, {})
  PROVE  LoopInv' /\ Handlers!Resume(i, c)
<1> DEFINE e == ResumeEffect(i, c)
<1>1. ~ loop /\ dirty = {}
  BY DEF Accept, Take
<1>2. DispatchInv
  BY <1>1, LoopAtRest
<1>3. Fit(e, {i})
  BY <1>2, ResumeFit
<1>4. Handlers!ResumeEffect(i, c) = e
  <2>1. \A t : Handlers!Resumed(t, c) = Resumed(t, c)
    BY DEF Handlers!Resumed, Resumed, Handlers!OrKeep, OrKeep
  <2>2. QED
    BY <1>1, <2>1, HandlersReplace, HandlersAtRest DEF Handlers!ResumeEffect, ResumeEffect
<1> HIDE DEF e
<1>5. LoopInv' /\ Handlers!HandledThenDispatched(e, {i}, {})
  BY <1>3, AcceptStep DEF e
<1>6. QED BY <1>1, <1>4, <1>5, HandlersAtRest DEF Handlers!Resume

LEMMA FinishCommand ==
  ASSUME LoopInv, NEW i \in Ids, State(i) = "RUNNING", NEW c \in OptCheckpoint,
         Accept(FinishEffect(i, c), {i}, {Call("on_finish", i)})
  PROVE  LoopInv' /\ Handlers!Finish(i, c)
<1> DEFINE e == FinishEffect(i, c)
           s == {Call("on_finish", i)}
<1>1. ~ loop /\ dirty = {}
  BY DEF Accept, Take
<1>2. DispatchInv
  BY <1>1, LoopAtRest
<1>3. Fit(e, {i})
  BY <1>2, FinishFit
<1>4. Handlers!FinishEffect(i, c) = e
  <2>1. \A t : Handlers!Finished(t, c) = Finished(t, c)
    BY DEF Handlers!Finished, Finished, Handlers!OrKeep, OrKeep
  <2>2. QED
    BY <1>1, <2>1, HandlersReplace, HandlersAtRest DEF Handlers!FinishEffect, FinishEffect
<1>5. s \subseteq HookCall /\ {Handlers!Call("on_finish", i)} = s
  BY CallTypes DEF OwnHookCalls
<1> HIDE DEF e, s
<1>6. LoopInv' /\ Handlers!HandledThenDispatched(e, {i}, s)
  BY <1>3, <1>5, AcceptStep DEF e, s
<1>7. QED BY <1>1, <1>4, <1>5, <1>6, HandlersAtRest DEF Handlers!Finish

LEMMA KillCommand ==
  ASSUME LoopInv, NEW i \in Ids, State(i) \in TaskStates \ Terminal,
         Accept(KillEffect(i), {i}, {Call("on_kill", i)})
  PROVE  LoopInv' /\ Handlers!Kill(i)
<1> DEFINE e == KillEffect(i)
           s == {Call("on_kill", i)}
<1>1. ~ loop /\ dirty = {}
  BY DEF Accept, Take
<1>2. DispatchInv
  BY <1>1, LoopAtRest
<1>3. Fit(e, {i})
  BY <1>2, KillFit
<1>4. Handlers!KillEffect(i) = e
  <2>1. \A t : Handlers!Killed(t) = Killed(t)
    BY DEF Handlers!Killed, Killed
  <2>2. QED
    BY <1>1, <2>1, HandlersReplace, HandlersAtRest DEF Handlers!KillEffect, KillEffect
<1>5. s \subseteq HookCall /\ {Handlers!Call("on_kill", i)} = s
  BY CallTypes DEF OwnHookCalls
<1>6. Handlers!TaskStates = TaskStates /\ Handlers!Terminal = Terminal
  BY DEF Handlers!TaskStates, TaskStates, Handlers!Terminal, Terminal
<1> HIDE DEF e, s
<1>7. LoopInv' /\ Handlers!HandledThenDispatched(e, {i}, s)
  BY <1>3, <1>5, AcceptStep DEF e, s
<1>8. QED BY <1>1, <1>4, <1>5, <1>6, <1>7, HandlersAtRest DEF Handlers!Kill

LEMMA RescheduleCommand ==
  ASSUME LoopInv, NEW i \in Ids, CanReschedule(i), NEW delay \in BOOLEAN,
         \/ /\ Exhausted(tasks[i])
            /\ Accept(ExhaustEffect(i), {i}, {Call("on_kill", i)})
         \/ /\ ~ Exhausted(tasks[i])
            /\ Accept(RetryEffect(i, delay), {i}, {Call("on_reschedule", i)})
  PROVE  LoopInv' /\ Handlers!Reschedule(i, delay)
<1> DEFINE e == ExhaustEffect(i)
           f == RetryEffect(i, delay)
           s == {Call("on_kill", i)}
           r == {Call("on_reschedule", i)}
<1>1. ~ loop /\ dirty = {}
  BY DEF Accept, Take
<1>2. DispatchInv
  BY <1>1, LoopAtRest
<1>3. Fit(e, {i}) /\ (~ Exhausted(tasks[i]) => Fit(f, {i}))
  BY <1>2, RescheduleFit
<1>4. Handlers!ExhaustEffect(i) = e /\ Handlers!RetryEffect(i, delay) = f
  <2>1. \A t : Handlers!GivenUp(t) = GivenUp(t) /\ Handlers!Retried(t) = Retried(t)
    BY DEF Handlers!GivenUp, GivenUp, Handlers!Retried, Retried
  <2>2. Handlers!ExhaustEffect(i) = e
    BY <1>1, <2>1, HandlersReplace, HandlersAtRest DEF Handlers!ExhaustEffect, ExhaustEffect
  <2>3. Handlers!RetryEffect(i, delay) = f
    BY <1>1, <2>1, HandlersReplace, HandlersAtRest DEF Handlers!RetryEffect, RetryEffect
  <2>4. QED BY <2>2, <2>3
<1>5. /\ s \subseteq HookCall /\ {Handlers!Call("on_kill", i)} = s
      /\ r \subseteq HookCall /\ {Handlers!Call("on_reschedule", i)} = r
  BY CallTypes DEF OwnHookCalls
<1>6. /\ Handlers!CanReschedule(i)
      /\ Handlers!Exhausted(Final.tasks[i]) = Exhausted(tasks[i])
  <2>1. Handlers!CanReschedule(i)
    BY <1>1, HandlersAtRest
       DEF Handlers!CanReschedule, CanReschedule, Handlers!TaskStates, TaskStates
  <2>2. Handlers!Exhausted(Final.tasks[i]) = Exhausted(tasks[i])
    BY <1>1, HandlersAtRest DEF Handlers!Exhausted, Exhausted
  <2>3. QED BY <2>1, <2>2
<1> HIDE DEF e, f, s, r
<1>7. CASE Exhausted(tasks[i]) /\ Accept(e, {i}, s)
  <2>1. LoopInv' /\ Handlers!HandledThenDispatched(e, {i}, s)
    BY <1>3, <1>5, <1>7, AcceptStep
  <2>2. QED BY <1>4, <1>5, <1>6, <1>7, <2>1 DEF Handlers!Reschedule
<1>8. CASE ~ Exhausted(tasks[i]) /\ Accept(f, {i}, r)
  <2>1. LoopInv' /\ Handlers!HandledThenDispatched(f, {i}, r)
    BY <1>3, <1>5, <1>8, AcceptStep
  <2>2. QED BY <1>4, <1>5, <1>6, <1>8, <2>1 DEF Handlers!Reschedule
<1>9. QED BY <1>7, <1>8 DEF e, f, s, r

LEMMA PayloadCommand ==
  ASSUME LoopInv, NEW i \in Ids, State(i) \in TaskStates
  PROVE  /\ \A c \in Checkpoints : AcceptOnly(CheckpointEffect(i, c), {i}, {})
              => LoopInv' /\ Handlers!Checkpoint(i, c)
         /\ \A n \in Infos : AcceptOnly(UpdateEffect(i, n), {i}, {})
              => LoopInv' /\ Handlers!Update(i, n)
<1>1. ASSUME NEW c \in Checkpoints, AcceptOnly(CheckpointEffect(i, c), {i}, {})
      PROVE  LoopInv' /\ Handlers!Checkpoint(i, c)
  <2> DEFINE e == CheckpointEffect(i, c)
  <2>1. ~ loop /\ dirty = {}
    BY <1>1 DEF AcceptOnly, Take
  <2>2. DispatchInv
    BY <2>1, LoopAtRest
  <2>3. Fit(e, {i}) /\ e.queue = queue /\ e.slots = slots /\ e.running = running
    BY <2>2, CheckpointFit, ReturnsAlone
  <2>4. Handlers!CheckpointEffect(i, c) = e
    BY <2>1, HandlersAtRest DEF Handlers!CheckpointEffect, CheckpointEffect
  <2> HIDE DEF e
  <2>5. LoopInv' /\ Handlers!Handled(e, {i}, {})
    BY <1>1, <2>3, AcceptOnlyStep DEF e
  <2>6. QED
    BY <2>1, <2>4, <2>5, HandlersAtRest DEF Handlers!Checkpoint, Handlers!TaskStates, TaskStates
<1>2. ASSUME NEW n \in Infos, AcceptOnly(UpdateEffect(i, n), {i}, {})
      PROVE  LoopInv' /\ Handlers!Update(i, n)
  <2> DEFINE e == UpdateEffect(i, n)
  <2>1. ~ loop /\ dirty = {}
    BY <1>2 DEF AcceptOnly, Take
  <2>2. DispatchInv
    BY <2>1, LoopAtRest
  <2>3. Fit(e, {i}) /\ e.queue = queue /\ e.slots = slots /\ e.running = running
    BY <2>2, UpdateFit, ReturnsAlone
  <2>4. Handlers!UpdateEffect(i, n) = e
    BY <2>1, HandlersAtRest DEF Handlers!UpdateEffect, UpdateEffect
  <2> HIDE DEF e
  <2>5. LoopInv' /\ Handlers!Handled(e, {i}, {})
    BY <1>2, <2>3, AcceptOnlyStep DEF e
  <2>6. QED
    BY <2>1, <2>4, <2>5, HandlersAtRest DEF Handlers!Update, Handlers!TaskStates, TaskStates
<1>3. QED BY <1>1, <1>2

LEMMA RestoreStep ==
  ASSUME LoopInv, RestoreCommand
  PROVE  LoopInv' /\ \E S \in SUBSET Ids : \E img \in [S -> Images] : Handlers!Restore(img)
<1>0. PICK S \in SUBSET Ids : \E img \in [S -> Images] :
        /\ \A i \in S : State(i) \in RestoreOver
        /\ order + Cardinality(Queued(img)) <= OrderBound
        /\ \E rank \in Rankings(Queued(img)) : Accept(RestoreEffect(img, rank), S, {})
  BY DEF RestoreCommand
<1>1. PICK img \in [S -> Images] :
        /\ \A i \in S : State(i) \in RestoreOver
        /\ order + Cardinality(Queued(img)) <= OrderBound
        /\ \E rank \in Rankings(Queued(img)) : Accept(RestoreEffect(img, rank), S, {})
  BY <1>0
<1>2. PICK rank \in Rankings(Queued(img)) : Accept(RestoreEffect(img, rank), S, {})
  BY <1>1
<1> DEFINE e == RestoreEffect(img, rank)
<1>3. ~ loop /\ dirty = {}
  BY <1>2 DEF Accept, Take
<1>4. DispatchInv
  BY <1>3, LoopAtRest
<1>5. Fit(e, S)
  BY <1>1, <1>4, RestoreFit
<1>6. Handlers!Queued(img) = Queued(img) /\ Handlers!Rankings(Queued(img)) = Rankings(Queued(img))
  BY HandlersCardinality
     DEF Handlers!Queued, Queued, Handlers!Terminal, Terminal, Handlers!Rankings, Rankings
<1>7. Handlers!RestoreEffect(img, rank) = e
  <2>1. \A t : Handlers!Restored(t) = Restored(t)
    BY DEF Handlers!Restored, Restored, Handlers!Terminal, Terminal
  <2>2. \A i, p, o : Handlers!Key(i, p, o) = Key(i, p, o)
    BY DEF Handlers!Key, Key
  <2>3. QED
    BY <1>3, <1>6, <2>1, <2>2, HandlersAtRest, HandlersCardinality
       DEF Handlers!RestoreEffect, RestoreEffect
<1> HIDE DEF e
<1>8. LoopInv' /\ Handlers!HandledThenDispatched(e, S, {})
  BY <1>2, <1>5, AcceptStep DEF e
<1>9. Handlers!Restore(img)
  <2>1. DOMAIN img = S
    OBVIOUS
  <2>2. \E r \in Handlers!Rankings(Handlers!Queued(img)) :
          Handlers!HandledThenDispatched(Handlers!RestoreEffect(img, r), DOMAIN img, {})
    BY <1>6, <1>7, <1>8, <2>1
  <2>3. QED
    BY <1>1, <1>3, <1>6, <2>1, <2>2, HandlersAtRest, HandlersCardinality DEF Handlers!Restore
<1>10. QED BY <1>8, <1>9

LEMMA SlotsStep ==
  ASSUME LoopInv, NEW n \in SlotCounts, Accept(SlotsEffect(n), {}, {})
  PROVE  LoopInv' /\ Handlers!SetSlots(n)
<1> DEFINE e == SlotsEffect(n)
<1>1. ~ loop /\ dirty = {}
  BY DEF Accept, Take
<1>2. DispatchInv
  BY <1>1, LoopAtRest
<1>3. Fit(e, {})
  BY <1>2, SlotsFit
<1>4. Handlers!SlotsEffect(n) = e
  BY <1>1, HandlersAtRest DEF Handlers!SlotsEffect, SlotsEffect, Handlers!AtLeast1, AtLeast1
<1> HIDE DEF e
<1>5. LoopInv' /\ Handlers!HandledThenDispatched(e, {}, {})
  BY <1>3, AcceptStep DEF e
<1>6. QED BY <1>4, <1>5 DEF Handlers!SetSlots

LEMMA TickStep ==
  ASSUME LoopInv, NEW ready \in SUBSET delayed, Accept(TickEffect(ready), {}, {})
  PROVE  LoopInv' /\ Handlers!Tick(ready)
<1> DEFINE e == TickEffect(ready)
<1>1. ~ loop /\ dirty = {}
  BY DEF Accept, Take
<1>2. DispatchInv
  BY <1>1, LoopAtRest
<1>3. Fit(e, {})
  BY <1>2, TickFit
<1>4. Handlers!TickEffect(ready) = e
  BY <1>1, HandlersAtRest DEF Handlers!TickEffect, TickEffect
<1> HIDE DEF e
<1>5. LoopInv' /\ Handlers!HandledThenDispatched(e, {}, {})
  BY <1>3, AcceptStep DEF e
<1>6. QED BY <1>4, <1>5 DEF Handlers!Tick

-----------------------------------------------------------------------------
(* The refinement.                                                         *)

LEMMA CommandSimulated ==
  ASSUME LoopInv, NEW i \in Ids, Commands(i)
  PROVE  LoopInv' /\ Handlers!Next
<1>1. CASE \E p \in Priorities, m \in RetryCaps, n \in Infos :
             /\ State(i) = "NONE" /\ order < OrderBound
             /\ Accept(StartEffect(i, p, m, n), {i}, {})
  BY <1>1, StartCommand DEF Handlers!Next
<1>2. ASSUME NEW c \in OptCheckpoint,
             \/ State(i) = "RUNNING" /\ Accept(PauseEffect(i, c), {i}, {Call("on_pause", i)})
             \/ State(i) = "PENDING" /\ AcceptOnly(PauseEffect(i, c), {i}, {})
             \/ /\ State(i) = "PAUSED" /\ order < OrderBound
                /\ Accept(ResumeEffect(i, c), {i}, {})
             \/ State(i) = "RUNNING" /\ Accept(FinishEffect(i, c), {i}, {Call("on_finish", i)})
      PROVE  LoopInv' /\ Handlers!Next
  <2>1. c \in Handlers!OptCheckpoint
    BY DEF Handlers!OptCheckpoint, OptCheckpoint
  <2>2. LoopInv' /\ (\/ Handlers!PauseRunning(i, c) \/ Handlers!PausePending(i, c)
                     \/ Handlers!Resume(i, c) \/ Handlers!Finish(i, c))
    BY <1>2, PauseCommand, ResumeCommand, FinishCommand
  <2>3. QED BY <2>1, <2>2 DEF Handlers!Next
<1>3. CASE /\ State(i) \in TaskStates \ Terminal
           /\ Accept(KillEffect(i), {i}, {Call("on_kill", i)})
  BY <1>3, KillCommand DEF Handlers!Next
<1>4. ASSUME CanReschedule(i), NEW delay \in BOOLEAN,
             \/ /\ Exhausted(tasks[i])
                /\ Accept(ExhaustEffect(i), {i}, {Call("on_kill", i)})
             \/ /\ ~ Exhausted(tasks[i])
                /\ Accept(RetryEffect(i, delay), {i}, {Call("on_reschedule", i)})
      PROVE  LoopInv' /\ Handlers!Next
  BY <1>4, RescheduleCommand DEF Handlers!Next
<1>5. ASSUME State(i) \in TaskStates,
             \/ \E c \in Checkpoints : AcceptOnly(CheckpointEffect(i, c), {i}, {})
             \/ \E n \in Infos : AcceptOnly(UpdateEffect(i, n), {i}, {})
      PROVE  LoopInv' /\ Handlers!Next
  BY <1>5, PayloadCommand DEF Handlers!Next
<1>6. QED BY <1>1, <1>2, <1>3, <1>4, <1>5 DEF Commands

LEMMA SlotsOrTickSimulated ==
  ASSUME LoopInv, SlotsOrTick
  PROVE  LoopInv' /\ Handlers!Next
BY SlotsStep, TickStep DEF SlotsOrTick, Handlers!Next

LEMMA InnerUnchanged ==
  ASSUME LoopInv, Inner
  PROVE  LoopInv' /\ UNCHANGED Handlers!vars
<1>1. /\ LoopInv'
      /\ Final' = Final /\ FinalSnapshot' = FinalSnapshot /\ FinalCalls' = FinalCalls
  BY SyncKeeps, DropStep, StartStep, ReturnStep DEF Inner
<1>2. delayed' = delayed /\ slots' = slots /\ order' = order
  BY DEF Inner, SyncRow, DropStale, StartNext, Return, vars
<1>3. QED BY <1>1, <1>2 DEF Handlers!vars, FinalCalls

LEMMA LoopStep ==
  ASSUME LoopInv, [LoopNext]_loopVars
  PROVE  LoopInv' /\ [Handlers!Next]_Handlers!vars
<1>1. CASE \E i \in Ids : Commands(i)
  BY <1>1, CommandSimulated
<1>2. CASE RestoreCommand
  <2>1. LoopInv' /\ \E S \in SUBSET Ids : \E img \in [S -> Images] : Handlers!Restore(img)
    BY <1>2, RestoreStep
  <2>2. QED BY <2>1 DEF Handlers!Next
<1>3. CASE SlotsOrTick
  BY <1>3, SlotsOrTickSimulated
<1>4. CASE Inner
  BY <1>4, InnerUnchanged
<1>5. CASE UNCHANGED loopVars
  <2>1. /\ loop' = loop /\ dirty' = dirty
        /\ tasks' = tasks /\ queue' = queue /\ delayed' = delayed /\ slots' = slots
        /\ running' = running /\ order' = order /\ snapshot' = snapshot
        /\ spawned' = spawned
    BY <1>5 DEF loopVars, vars
  <2>2. Current' = Current
    BY <2>1 DEF Current
  <2>3. Final' = Final /\ FinalCalls' = FinalCalls
    BY <2>1, <2>2 DEF Final, FinalCalls
  <2>4. FinalSnapshot' = FinalSnapshot
    BY <2>1, <2>2, <2>3, FinalRows
  <2>5. Sound(Current)' /\ Within(Current)' /\ Settled(Final)'
    <3>1. Sound(Current') /\ Within(Current') /\ Settled(Final')
      BY <2>2, <2>3 DEF LoopInv, LoopTypes
    <3>2. QED BY <3>1
  <2>6. LoopInv'
    BY <2>1, <2>5 DEF LoopInv, LoopTypes, LateRows, State
  <2>7. QED BY <2>1, <2>3, <2>4, <2>6 DEF Handlers!vars, FinalCalls
<1>6. QED BY <1>1, <1>2, <1>3, <1>4, <1>5 DEF LoopNext

LEMMA LoopStart ==
  ASSUME LoopInit
  PROVE  LoopInv /\ Handlers!Init
<1>1. Init /\ loop = FALSE /\ dirty = {}
  BY DEF LoopInit
<1>2. DispatchInv
  BY <1>1, InitDispatchInv
<1>3. Final = Current
  BY <1>1 DEF Final
<1>4. Settled(Current) /\ Within(Current)
  <2>1. Sound(Current) /\ Reachable(Current) /\ ("RUNNING" \notin RestoreOver => Accounted(Current))
    BY <1>2, CurrentGood DEF DispatchInv
  <2>2. Regular(Current) /\ WorkConserving
    BY <1>2 DEF DispatchInv
  <2>3. QED BY <2>1, <2>2, CurrentIs DEF Settled, WorkConserving, Regular
<1>5. LoopInv
  <2>1. LoopTypes
    BY <1>1, <1>2, <1>4 DEF DispatchInv, Inv, TypeOK, LoopTypes, Settled
  <2>2. LateRows
    BY <1>1 DEF LateRows, Init
  <2>3. QED BY <1>3, <1>4, <2>1, <2>2 DEF LoopInv
<1>6. Handlers!Init
  <2>1. Final.tasks = tasks /\ Final.queue = queue /\ Final.running = running
    BY <1>3, CurrentIs
  <2>2. FinalSnapshot = snapshot /\ FinalCalls = spawned
    BY <1>1, <1>5, HandlersAtRest
  <2>3. QED
    BY <1>1, <2>1, <2>2
       DEF Init, Handlers!Init, FinalCalls, Handlers!NoTask, NoTask, Handlers!AtLeast1, AtLeast1
<1>7. QED BY <1>5, <1>6

-----------------------------------------------------------------------------
(* What a query sees in the middle of a handler.                           *)

\* A row patched late that adds a running task is the last one to be patched, and
\* no more tasks run then than there are slots.
LEMMA LateRowFits ==
  ASSUME LoopInv, [LoopNext]_loopVars, Cardinality(ShownRunning') > slots'
  PROVE  ShownRunning' \subseteq ShownRunning
<1>1. snapshot' = snapshot => ShownRunning' = ShownRunning
  BY DEF ShownRunning
<1>2. CASE \E i \in dirty : SyncRow(i)
  <2>1. PICK i \in dirty : SyncRow(i)
    BY <1>2
  <2>2. /\ dirty' = dirty \ {i} /\ tasks' = tasks /\ slots' = slots
        /\ snapshot' = [snapshot EXCEPT ![i] = tasks[i]]
        /\ snapshot \in [Ids -> MaybeTask] /\ i \in Ids
        /\ tasks \in [Ids -> MaybeTask] /\ running \in Nat /\ slots \in Nat
    BY <2>1, CurrentIs DEF SyncRow, LoopInv, LoopTypes, Sound, ActorStates
  <2>3. CASE State(i) = "RUNNING" /\ snapshot[i].state # "RUNNING"
    <3>1. dirty = {i} /\ running <= slots
      BY <2>3 DEF LoopInv, LateRows
    <3>2. \A j \in Ids : snapshot'[j] = tasks[j]
      BY <2>2, <3>1 DEF LoopInv, LateRows
    <3>3. ShownRunning' = RunningIn(Current)
      BY <3>2, CurrentIs DEF ShownRunning, RunningIn
    <3>4. Cardinality(RunningIn(Current)) <= running
      BY CurrentIs DEF LoopInv, Within
    <3>5. Cardinality(RunningIn(Current)) \in Nat
      BY IdsAssumption, FS_Subset, FS_CardinalityType DEF RunningIn
    <3>6. QED BY <2>2, <3>1, <3>3, <3>4, <3>5
  <2>4. CASE ~ (State(i) = "RUNNING" /\ snapshot[i].state # "RUNNING")
    BY <2>2, <2>4 DEF ShownRunning, State
  <2>5. QED BY <2>3, <2>4
<1>3. CASE \E i \in Ids : Commands(i)
  BY <1>1, <1>3 DEF Commands, Accept, AcceptOnly, Take
<1>4. CASE RestoreCommand \/ SlotsOrTick
  BY <1>1, <1>4 DEF RestoreCommand, SlotsOrTick, Accept, Take
<1>5. CASE (\E k \in queue : DropStale(k) \/ StartNext(k)) \/ Return \/ UNCHANGED loopVars
  BY <1>1, <1>5 DEF DropStale, StartNext, Return, loopVars, vars
<1>6. QED BY <1>2, <1>3, <1>4, <1>5 DEF LoopNext, Inner

-----------------------------------------------------------------------------
(* Theorems.                                                               *)

\* Wherever a handler is interrupted, where it will end is a state the kernel
\* may be in between two handlers.
THEOREM LoopInvariance == LoopSpec => []LoopInv
<1>1. LoopInit => LoopInv
  BY LoopStart
<1>2. LoopInv /\ [LoopNext]_loopVars => LoopInv'
  BY LoopStep
<1>3. QED BY <1>1, <1>2, PTL DEF LoopSpec

\* Popping the heap key by key while a slot is free, stale keys included, is what
\* Scheduler takes as one step: the atomic handlers of the other theorems are
\* those of the code.
THEOREM LoopIsAtomic == LoopSpec => Atomic
<1>1. LoopInit => Handlers!Init
  BY LoopStart
<1>2. LoopInv /\ [LoopNext]_loopVars => [Handlers!Next]_Handlers!vars
  BY LoopStep
<1>3. QED BY <1>1, <1>2, LoopInvariance, PTL DEF LoopSpec, Atomic, Handlers!Spec

\* A query in the middle of a handler never counts a slot twice.
THEOREM QueriesWithinSlots == LoopSpec => RowsWithinSlots
<1> DEFINE A == Cardinality(ShownRunning') > slots' => ShownRunning' \subseteq ShownRunning
<1>1. LoopInv /\ [LoopNext]_loopVars => [A]_loopVars
  BY LateRowFits
<1>2. QED BY <1>1, LoopInvariance, PTL DEF LoopSpec, RowsWithinSlots
=============================================================================
