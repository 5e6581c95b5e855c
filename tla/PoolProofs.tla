------------------------------ MODULE PoolProofs ------------------------------
(* Scheduler implements TaskPool: queue, stale keys and counter add up to a *)
(* pool of tasks whose slots are filled after every step.                  *)
EXTENDS DispatchProofs

\* The pool that an actor's state shows.
Life(e) == [i \in Ids |-> e.tasks[i].state]

Parked(e) ==
  {i \in Ids : e.tasks[i].state = "PENDING" /\ \A k \in e.queue : k.id # i}

\* The environment for which the pool is promised: reschedules about tasks that
\* have not ended or been paused, restores of new tasks.
PoolEnvironment == OnlyAdds /\ RescheduleFrom \subseteq {"RUNNING", "PENDING"}

\* The instance has a copy of the operator.
LEMMA PoolCardinality == \A S : Pool!Cardinality(S) = Cardinality(S)
BY DEF Pool!Cardinality, Cardinality

-----------------------------------------------------------------------------
(* A handler that dispatches settles the pool.                             *)

\* D may be started when the pool has come to l and p, with n slots.
Fills(D, l, p, n) ==
  LET eligible == Pool!In(l, "PENDING") \ p
      room == n - Cardinality(Pool!In(l, "RUNNING"))
  IN /\ D \in SUBSET eligible
     /\ D # {} => Cardinality(D) <= room
     /\ D # eligible => Cardinality(D) >= room

\* The registry, the queue and the slots after the step show a pool that came to
\* l and p and then started D.
Leaves(D, l, p, n, registry, keys, cap) ==
  /\ [i \in Ids |-> registry[i].state] = [i \in Ids |-> IF i \in D THEN "RUNNING" ELSE l[i]]
  /\ {i \in Ids : registry[i].state = "PENDING" /\ \A k \in keys : k.id # i} = p
  /\ cap = n

LEMMA DispatchSettles ==
  ASSUME DispatchInv, OnlyAdds, NEW e, NEW ids, Good(e, ids), Regular(e), NEW calls,
         HandledThenDispatched(e, ids, calls)
  PROVE  \E D : /\ Fills(D, Life(e), Parked(e), e.slots)
                /\ Leaves(D, Life(e), Parked(e), e.slots, tasks', queue', slots')
<1> DEFINE D == Started(e)
           eligible == Pool!In(Life(e), "PENDING") \ Parked(e)
           room == e.slots - Cardinality(Pool!In(Life(e), "RUNNING"))
<1>1. Sound(e) /\ Accounted(e)
  BY DEF OnlyAdds, Good
<1>2. /\ tasks' = Dispatched(e).tasks
      /\ queue' = e.queue \ Popped(e)
      /\ slots' = e.slots
  BY <1>1, HandledFields, DispatchedFields DEF HandledThenDispatched
<1>3. eligible = {i \in Ids : e.tasks[i].state = "PENDING" /\ \E k \in e.queue : k.id = i}
  BY DEF Pool!In, Life, Parked
<1>4. room = Room(e)
  <2>1. Pool!In(Life(e), "RUNNING") = RunningIn(e)
    BY DEF Pool!In, Life, RunningIn
  <2>2. QED BY <1>1, <2>1 DEF Room, Accounted
<1>5. D \in SUBSET eligible
  BY <1>1, <1>3, StartedPending, QueueTypes DEF Started
<1>6. D # {} => Cardinality(D) <= room
  BY <1>1, <1>4, StartedFits DEF Regular
<1>7. ASSUME D # eligible PROVE Cardinality(D) >= room
  <2>1. PICK i \in eligible : i \notin D
    BY <1>5, <1>7
  <2>2. PICK k \in e.queue : k.id = i
    BY <1>3, <2>1
  <2>3. k \notin Popped(e)
    BY <1>1, <1>3, <2>1, <2>2, PoppedStarted
  <2>4. Room(e) <= Cardinality(D)
    BY <1>1, <2>2, <2>3, StartedEnough
  <2>5. QED BY <1>1, <1>4, <2>4, QueueTypes, FirstsAreTasks
<1>8. [i \in Ids |-> State(i)]' = [i \in Ids |-> IF i \in D THEN "RUNNING" ELSE Life(e)[i]]
  BY <1>1, <1>2, DispatchedTasks DEF State, Life
<1>9. {i \in Ids : State(i) = "PENDING" /\ \A k \in queue : k.id # i}' = Parked(e)
  <2>1. ASSUME NEW i \in Ids, tasks'[i].state = "PENDING",
               \A k \in queue' : k.id # i
        PROVE  i \in Parked(e)
    <3>1. i \notin D /\ e.tasks[i].state = "PENDING"
      BY <1>1, <1>2, <2>1, DispatchedTasks
    <3>2. \A k \in e.queue : k.id # i
      BY <1>1, <1>2, <2>1, <3>1, PoppedStarted
    <3>3. QED BY <3>1, <3>2 DEF Parked
  <2>2. ASSUME NEW i \in Parked(e)
        PROVE  tasks'[i].state = "PENDING" /\ \A k \in queue' : k.id # i
    <3>1. i \in Ids /\ e.tasks[i].state = "PENDING" /\ \A k \in e.queue : k.id # i
      BY DEF Parked
    <3>2. i \notin D
      BY <1>3, <1>5, <3>1
    <3>3. QED BY <1>1, <1>2, <3>1, <3>2, DispatchedTasks
  <2>3. QED BY <2>1, <2>2 DEF State, Parked
<1> HIDE DEF D, eligible, room
<1>10. Fills(D, Life(e), Parked(e), e.slots)
  BY <1>5, <1>6, <1>7 DEF Fills, eligible, room
<1>11. Leaves(D, Life(e), Parked(e), e.slots, tasks', queue', slots')
  BY <1>2, <1>8, <1>9 DEF Leaves, State
<1>12. QED BY <1>10, <1>11

-----------------------------------------------------------------------------
(* What the effects of the handlers are to the pool.                       *)

LEMMA CurrentPool ==
  ASSUME DispatchInv
  PROVE  /\ Life(Current) = [i \in Ids |-> State(i)]
         /\ Parked(Current) =
              {i \in Ids : State(i) = "PENDING" /\ \A k \in queue : k.id # i}
         /\ \A i \in Ids : Life(Current)[i] = State(i)
BY DEF Life, Parked, State, Current

\* The choice of D that Pool!Settle asks for, written out.
LEMMA Settled ==
  ASSUME NEW D, NEW l, NEW p, NEW n, Fills(D, l, p, n),
         Leaves(D, l, p, n, tasks', queue', slots')
  PROVE  /\ D \in SUBSET (Pool!In(l, "PENDING") \ p)
         /\ D # {} => Pool!Cardinality(D) <= n - Pool!Cardinality(Pool!In(l, "RUNNING"))
         /\ D # Pool!In(l, "PENDING") \ p
              => Pool!Cardinality(D) >= n - Pool!Cardinality(Pool!In(l, "RUNNING"))
         /\ [i \in Ids |-> State(i)]' = [i \in Ids |-> IF i \in D THEN "RUNNING" ELSE l[i]]
         /\ {i \in Ids : State(i) = "PENDING" /\ \A k \in queue : k.id # i}' = p
         /\ slots' = n
BY PoolCardinality DEF Fills, Leaves, State

LEMMA Moved ==
  ASSUME DispatchInv, NEW i \in Ids, NEW from, NEW to, State(i) \in from,
         NEW D, NEW l, NEW p, Fills(D, l, p, slots), Leaves(D, l, p, slots, tasks', queue', slots'),
         l = [Life(Current) EXCEPT ![i] = to], p = Parked(Current) \ {i}
  PROVE  Pool!Move(i, from, to)
<1> DEFINE L == [j \in Ids |-> State(j)]
           P == {j \in Ids : State(j) = "PENDING" /\ \A k \in queue : k.id # j}
           l2 == [L EXCEPT ![i] = to]
           p2 == P \ {i}
<1>1. l = l2 /\ p = p2 /\ L[i] \in from
  BY CurrentPool
<1>2. /\ D \in SUBSET (Pool!In(l2, "PENDING") \ p2)
      /\ D # {} => Pool!Cardinality(D) <= slots - Pool!Cardinality(Pool!In(l2, "RUNNING"))
      /\ D # Pool!In(l2, "PENDING") \ p2
           => Pool!Cardinality(D) >= slots - Pool!Cardinality(Pool!In(l2, "RUNNING"))
      /\ [j \in Ids |-> State(j)]' = [j \in Ids |-> IF j \in D THEN "RUNNING" ELSE l2[j]]
      /\ {j \in Ids : State(j) = "PENDING" /\ \A k \in queue : k.id # j}' = p2
      /\ slots' = slots
  <2> HIDE DEF l2, p2
  <2>1. Fills(D, l2, p2, slots) /\ Leaves(D, l2, p2, slots, tasks', queue', slots')
    BY <1>1
  <2>2. QED BY <2>1, Settled
<1>3. QED
  BY <1>1, <1>2 DEF Pool!Move, Pool!Settle

\* The second disjunct of a retry, by the same steps.
LEMMA DelayedRetry ==
  ASSUME DispatchInv, NEW i \in Ids, State(i) \in {"RUNNING", "PENDING"},
         NEW D, NEW l, NEW p, Fills(D, l, p, slots), Leaves(D, l, p, slots, tasks', queue', slots'),
         l = [Life(Current) EXCEPT ![i] = "PENDING"], p = Parked(Current) \cup {i}
  PROVE  Pool!Retry(i)
<1> DEFINE L == [j \in Ids |-> State(j)]
           P == {j \in Ids : State(j) = "PENDING" /\ \A k \in queue : k.id # j}
           l2 == [L EXCEPT ![i] = "PENDING"]
           p2 == P \cup {i}
<1>1. l = l2 /\ p = p2 /\ L[i] \in {"RUNNING", "PENDING"}
  BY CurrentPool
<1>2. /\ D \in SUBSET (Pool!In(l2, "PENDING") \ p2)
      /\ D # {} => Pool!Cardinality(D) <= slots - Pool!Cardinality(Pool!In(l2, "RUNNING"))
      /\ D # Pool!In(l2, "PENDING") \ p2
           => Pool!Cardinality(D) >= slots - Pool!Cardinality(Pool!In(l2, "RUNNING"))
      /\ [j \in Ids |-> State(j)]' = [j \in Ids |-> IF j \in D THEN "RUNNING" ELSE l2[j]]
      /\ {j \in Ids : State(j) = "PENDING" /\ \A k \in queue : k.id # j}' = p2
      /\ slots' = slots
  <2> HIDE DEF l2, p2
  <2>1. Fills(D, l2, p2, slots) /\ Leaves(D, l2, p2, slots, tasks', queue', slots')
    BY <1>1
  <2>2. QED BY <2>1, Settled
<1>3. QED
  BY <1>1, <1>2 DEF Pool!Retry, Pool!Settle

\* A task that is not pending any more.
LEMMA ReplacePool ==
  ASSUME DispatchInv, NEW i \in Ids, NEW t, t.state # "PENDING"
  PROVE  /\ Life(Replace(i, t)) = [Life(Current) EXCEPT ![i] = t.state]
         /\ Parked(Replace(i, t)) = Parked(Current) \ {i}
         /\ Replace(i, t).slots = slots
<1> DEFINE e == Replace(i, t)
<1>1. e.queue = queue /\ e.slots = slots /\ e.tasks = [tasks EXCEPT ![i] = t]
  BY DEF Replace, Current
<1>2. \A j \in Ids : e.tasks[j] = IF j = i THEN t ELSE tasks[j]
  BY <1>1 DEF DispatchInv, Inv, TypeOK
<1> HIDE DEF e
<1>3. Life(e) = [Life(Current) EXCEPT ![i] = t.state]
  BY <1>2 DEF Life, Current
<1>4. Parked(e) = Parked(Current) \ {i}
  BY <1>1, <1>2 DEF Parked, Current
<1>5. QED BY <1>1, <1>3, <1>4 DEF e

\* A pending task and its new key: it is parked only if the key is, and if no
\* stale key of it is left in the queue.
LEMMA ReplaceAndQueuePool ==
  ASSUME DispatchInv, NEW i \in Ids, NEW t, t.state = "PENDING", NEW parked \in BOOLEAN
  PROVE  /\ Life(ReplaceAndQueue(i, t, parked)) = [Life(Current) EXCEPT ![i] = "PENDING"]
         /\ ReplaceAndQueue(i, t, parked).slots = slots
         /\ Parked(ReplaceAndQueue(i, t, parked)) =
              IF parked /\ \A k \in queue : k.id # i
              THEN Parked(Current) \cup {i} ELSE Parked(Current) \ {i}
<1> DEFINE e == ReplaceAndQueue(i, t, parked)
           key == Key(i, t.priority, order)
<1>1. /\ e.queue = IF parked THEN queue ELSE queue \cup {key}
      /\ e.slots = slots /\ e.tasks = [tasks EXCEPT ![i] = t]
  BY DEF ReplaceAndQueue, Replace, Current
<1>2. \A j \in Ids : e.tasks[j] = IF j = i THEN t ELSE tasks[j]
  BY <1>1 DEF DispatchInv, Inv, TypeOK
<1>3. key.id = i
  BY DEF Key
<1> HIDE DEF e, key
<1>4. Life(e) = [Life(Current) EXCEPT ![i] = "PENDING"]
  BY <1>2 DEF Life, Current
<1>5. CASE parked
  BY <1>1, <1>2, <1>4, <1>5 DEF Parked, Current, e
<1>6. CASE ~ parked
  BY <1>1, <1>2, <1>3, <1>4, <1>6 DEF Parked, Current, e
<1>7. QED BY <1>5, <1>6

\* The records restored are new to the pool, and the pending ones are queued.
LEMMA RestorePool ==
  ASSUME DispatchInv, OnlyAdds, NEW S \in SUBSET Ids, NEW img \in [S -> Images],
         \A i \in S : State(i) \in RestoreOver, NEW rank
  PROVE  LET e == RestoreEffect(img, rank)
         IN  \E l \in [S -> {"PENDING", "FINISHED", "KILLED"}] :
               /\ Life(e) = [i \in Ids |-> IF i \in S THEN l[i] ELSE Life(Current)[i]]
               /\ Parked(e) = Parked(Current)
               /\ e.slots = slots
<1> DEFINE e == RestoreEffect(img, rank)
           l == [i \in S |-> Restored(img[i]).state]
           W == Queued(img)
           K == {Key(i, img[i].priority, order + rank[i]) : i \in W}
<1>1. /\ e.queue = queue \cup K /\ e.slots = slots
      /\ e.tasks = [i \in Ids |-> IF i \in S THEN Restored(img[i]) ELSE tasks[i]]
  BY DEF RestoreEffect, Current
<1>2. \A i \in S : tasks[i].state = "NONE"
  BY DEF OnlyAdds, State
<1>3. \A i \in S : img[i] \in Task
  BY InputAssumption
<1>4. ASSUME NEW i \in S
      PROVE  /\ l[i] \in {"PENDING", "FINISHED", "KILLED"}
             /\ l[i] = "PENDING" <=> i \in W
  <2>1. CASE img[i].state \in Terminal
    BY <2>1 DEF Restored, Queued, Terminal
  <2>2. CASE img[i].state \notin Terminal
    <3>1. Restored(img[i]).state = "PENDING"
      BY <1>3, <2>2 DEF Restored, Task
    <3>2. QED BY <2>2, <3>1 DEF Queued
  <2>3. QED BY <2>1, <2>2
<1>5. (\A k \in K : k.id \in W) /\ (\A i \in W : \E k \in K : k.id = i) /\ W \subseteq S
  <2>1. \A i \in W : Key(i, img[i].priority, order + rank[i]).id = i
    BY DEF Key
  <2>2. W \subseteq S
    BY DEF Queued
  <2> HIDE DEF W
  <2>3. QED BY <2>1, <2>2
<1> HIDE DEF e, K, W
<1>6. Life(e) = [i \in Ids |-> IF i \in S THEN l[i] ELSE Life(Current)[i]]
  BY <1>1 DEF Life, Current
<1>7. Parked(e) = Parked(Current)
  <2>1. ASSUME NEW i \in S PROVE i \notin Parked(e) /\ i \notin Parked(Current)
    <3>1. e.tasks[i].state = l[i]
      BY <1>1
    <3>2. QED BY <1>1, <1>2, <1>4, <1>5, <3>1 DEF Parked, Current
  <2>2. ASSUME NEW i \in Ids \ S PROVE i \in Parked(e) <=> i \in Parked(Current)
    BY <1>1, <1>5 DEF Parked, Current
  <2>3. Parked(e) \subseteq Ids /\ Parked(Current) \subseteq Ids
    BY DEF Parked
  <2>4. QED BY <2>1, <2>2, <2>3
<1> HIDE DEF l
<1>8. QED
  <2>1. l \in [S -> {"PENDING", "FINISHED", "KILLED"}]
    BY <1>4 DEF l
  <2>2. QED BY <1>1, <1>6, <1>7, <2>1 DEF e

-----------------------------------------------------------------------------
(* Every step of the kernel is a step of the pool, or changes nothing in it. *)

\* The hypotheses of DispatchSettles, as the lemmas about the handlers give them.
LEMMA HandlesSettles ==
  ASSUME DispatchInv, OnlyAdds, NEW e, NEW ids, NEW calls, Handles(e, ids, calls),
         HandledThenDispatched(e, ids, calls)
  PROVE  \E D : /\ Fills(D, Life(e), Parked(e), e.slots)
                /\ Leaves(D, Life(e), Parked(e), e.slots, tasks', queue', slots')
BY DispatchSettles DEF Handles, Fit

\* A handler that does not dispatch leaves the pool settled: if a slot is free,
\* nothing was eligible before it and nothing is after.
LEMMA PausePendingMoves ==
  ASSUME DispatchInv, OnlyAdds, NEW i \in Ids, NEW ck \in OptCheckpoint,
         PausePending(i, ck)
  PROVE  Pool!Move(i, {"RUNNING", "PENDING"}, "PAUSED")
<1> DEFINE t == Paused(tasks[i], ck)
           e == Replace(i, t)
           l == [Life(Current) EXCEPT ![i] = "PAUSED"]
           p == Parked(Current) \ {i}
           eligible == Pool!In(l, "PENDING") \ p
           room == slots - Cardinality(Pool!In(l, "RUNNING"))
<1>1. t.state = "PAUSED"
  <2>1. tasks[i] \in Task
    BY RegisteredSucceeds DEF PausePending, TaskStates
  <2>2. QED BY <2>1, ChangedTaskType
<1>2. Life(e) = l /\ Parked(e) = p
  BY <1>1, ReplacePool
<1>3. Handled(e, {i}, {})
  BY DEF PausePending, PauseEffect
<1>4. e.queue = queue /\ e.slots = slots
  BY DEF Replace, Current
<1> HIDE DEF e, t
<1>5. tasks' = e.tasks /\ queue' = queue /\ slots' = slots
  BY <1>3, <1>4, HandledFields
<1>6. [j \in Ids |-> State(j)]' = l
  BY <1>2, <1>5 DEF State, Life
<1>7. {j \in Ids : State(j) = "PENDING" /\ \A k \in queue : k.id # j}' = p
  BY <1>2, <1>4, <1>5 DEF State, Parked
<1>8. ASSUME eligible # {} PROVE 0 >= room
  <2>1. Pool!In(l, "RUNNING") = RunningIds
    BY DEF PausePending, Pool!In, Life, Current, RunningIds, State
  <2>2. queue # {}
    BY <1>2, <1>4, <1>8 DEF Pool!In, Life, Parked
  <2>3. running = Cardinality(RunningIds) /\ running \in Nat /\ slots \in Nat
    BY DEF OnlyAdds, DispatchInv, Inv, TypeOK, SlotAccounting
  <2>4. ~ (running < slots)
    BY <2>2 DEF DispatchInv, WorkConserving
  <2>5. QED BY <2>1, <2>3, <2>4
<1>9. Fills({}, l, p, slots) /\ Leaves({}, l, p, slots, tasks', queue', slots')
  <2> HIDE DEF l, p
  <2>1. {} \in SUBSET eligible /\ Cardinality({}) = 0
    BY FS_EmptySet
  <2>2. l = [j \in Ids |-> IF j \in {} THEN "RUNNING" ELSE l[j]]
    BY DEF l, Life
  <2>3. QED
    BY <1>5, <1>6, <1>7, <1>8, <2>1, <2>2 DEF Fills, Leaves, State
<1>10. State(i) \in {"RUNNING", "PENDING"}
  BY DEF PausePending
<1>11. l = [Life(Current) EXCEPT ![i] = "PAUSED"] /\ p = Parked(Current) \ {i}
  OBVIOUS
<1> HIDE DEF l, p
<1> HIDE DEF eligible, room
<1>12. ASSUME NEW from, NEW to, State(i) \in from, to = "PAUSED"
       PROVE  Pool!Move(i, from, to)
  BY <1>9, <1>11, <1>12, Moved
<1>13. QED BY <1>10, <1>12

\* A payload is nothing to the pool.
LEMMA PayloadStutters ==
  ASSUME DispatchInv, NEW i \in Ids, NEW t, t.state = State(i), NEW ids, NEW calls,
         Handled([Current EXCEPT !.tasks[i] = t], ids, calls)
  PROVE  UNCHANGED Pool!poolVars
<1>1. /\ tasks' = [tasks EXCEPT ![i] = t]
      /\ queue' = queue /\ slots' = slots
  BY HandledFields DEF Current
<1>2. \A j \in Ids : tasks'[j].state = tasks[j].state
  BY <1>1 DEF State, DispatchInv, Inv, TypeOK
<1>3. QED BY <1>1, <1>2 DEF Pool!poolVars, State

LEMMA DispatchMoves ==
  ASSUME DispatchInv, OnlyAdds, NEW i \in Ids, NEW from, State(i) \in from, NEW to,
         NEW e, NEW ids, NEW calls, Handles(e, ids, calls),
         HandledThenDispatched(e, ids, calls),
         Life(e) = [Life(Current) EXCEPT ![i] = to],
         Parked(e) = Parked(Current) \ {i},
         e.slots = slots
  PROVE  Pool!Move(i, from, to)
<1>1. PICK D : /\ Fills(D, Life(e), Parked(e), slots)
               /\ Leaves(D, Life(e), Parked(e), slots, tasks', queue', slots')
  BY HandlesSettles
<1>2. QED BY <1>1, Moved

LEMMA RescheduleMoves ==
  ASSUME DispatchInv, PoolEnvironment, NEW i \in Ids, NEW delay \in BOOLEAN,
         Reschedule(i, delay)
  PROVE  Pool!Abandon(i) \/ Pool!Retry(i)
<1>1. /\ OnlyAdds /\ State(i) \in {"RUNNING", "PENDING"} /\ tasks[i] \in Task
      /\ State(i) \in {"RUNNING", "PENDING", "PAUSED"}
  BY RegisteredSucceeds DEF PoolEnvironment, Reschedule, CanReschedule
<1>2. CASE Exhausted(tasks[i])
  <2> DEFINE t == GivenUp(tasks[i])
             e == Replace(i, t)
  <2>1. t.state = "KILLED"
    BY <1>1, EndedTaskType
  <2>2. /\ Handles(e, {i}, {Call("on_kill", i)})
        /\ HandledThenDispatched(e, {i}, {Call("on_kill", i)})
    BY <1>2, RescheduleHandles DEF Reschedule, ExhaustEffect
  <2>3. /\ Life(e) = [Life(Current) EXCEPT ![i] = "KILLED"]
        /\ Parked(e) = Parked(Current) \ {i}
        /\ e.slots = slots
    BY <2>1, ReplacePool
  <2> HIDE DEF e
  <2>4. Pool!Move(i, {"RUNNING", "PENDING", "PAUSED"}, "KILLED")
    BY <1>1, <2>2, <2>3, DispatchMoves
  <2>5. QED BY <2>4 DEF Pool!Abandon
<1>3. CASE ~ Exhausted(tasks[i])
  <2> DEFINE t == Retried(tasks[i])
             e == ReplaceAndQueue(i, t, delay)
  <2>1. t.state = "PENDING"
    BY <1>1, EndedTaskType
  <2>2. /\ Handles(e, {i}, {Call("on_reschedule", i)})
        /\ HandledThenDispatched(e, {i}, {Call("on_reschedule", i)})
    BY <1>3, RescheduleHandles DEF Reschedule, RetryEffect
  <2>3. /\ Life(e) = [Life(Current) EXCEPT ![i] = "PENDING"]
        /\ e.slots = slots
        /\ Parked(e) = IF delay /\ \A k \in queue : k.id # i
                       THEN Parked(Current) \cup {i} ELSE Parked(Current) \ {i}
    BY <2>1, ReplaceAndQueuePool
  <2> HIDE DEF e
  <2>4. CASE delay /\ \A k \in queue : k.id # i
    <3>1. PICK D : /\ Fills(D, Life(e), Parked(e), slots)
                   /\ Leaves(D, Life(e), Parked(e), slots, tasks', queue', slots')
      BY <1>1, <2>2, <2>3, HandlesSettles
    <3>2. Pool!Retry(i)
      BY <1>1, <2>3, <2>4, <3>1, DelayedRetry
    <3>3. QED BY <3>2
  <2>5. CASE ~ (delay /\ \A k \in queue : k.id # i)
    <3>1. Pool!Move(i, {"RUNNING", "PENDING"}, "PENDING")
      BY <1>1, <2>2, <2>3, <2>5, DispatchMoves
    <3>2. QED BY <3>1 DEF Pool!Retry
  <2>6. QED BY <2>4, <2>5
<1>4. QED BY <1>2, <1>3

LEMMA StartMoves ==
  ASSUME DispatchInv, OnlyAdds, NEW i \in Ids, NEW pr \in Priorities,
         NEW m \in RetryCaps, NEW n \in Infos, Start(i, pr, m, n)
  PROVE  Pool!Submit(i)
<1> DEFINE t == NewTask(pr, m, n)
           e == ReplaceAndQueue(i, t, FALSE)
<1>1. State(i) \in {"NONE"}
  BY DEF Start
<1>2. Handles(e, {i}, {}) /\ HandledThenDispatched(e, {i}, {})
  BY StartHandles DEF Start, StartEffect
<1>3. /\ Life(e) = [Life(Current) EXCEPT ![i] = "PENDING"]
      /\ Parked(e) = Parked(Current) \ {i}
      /\ e.slots = slots
  <2>1. t.state = "PENDING"
    BY DEF NewTask
  <2> HIDE DEF t
  <2>2. QED BY <2>1, ReplaceAndQueuePool
<1> HIDE DEF e
<1>4. Pool!Move(i, {"NONE"}, "PENDING")
  BY <1>1, <1>2, <1>3, DispatchMoves
<1>5. QED BY <1>4 DEF Pool!Submit

LEMMA PauseRunningMoves ==
  ASSUME DispatchInv, OnlyAdds, NEW i \in Ids, NEW ck \in OptCheckpoint,
         PauseRunning(i, ck)
  PROVE  Pool!PauseTask(i)
<1> DEFINE t == Paused(tasks[i], ck)
           e == Replace(i, t)
<1>1. State(i) \in {"RUNNING", "PENDING"} /\ tasks[i] \in Task
  BY RegisteredSucceeds DEF PauseRunning, TaskStates
<1>2. /\ Handles(e, {i}, {Call("on_pause", i)})
      /\ HandledThenDispatched(e, {i}, {Call("on_pause", i)})
  BY PauseHandles DEF PauseRunning, PauseEffect
<1>3. /\ Life(e) = [Life(Current) EXCEPT ![i] = "PAUSED"]
      /\ Parked(e) = Parked(Current) \ {i}
      /\ e.slots = slots
  <2>1. t.state = "PAUSED"
    BY <1>1, ChangedTaskType
  <2> HIDE DEF t
  <2>2. QED BY <2>1, ReplacePool
<1> HIDE DEF e
<1>4. Pool!Move(i, {"RUNNING", "PENDING"}, "PAUSED")
  BY <1>1, <1>2, <1>3, DispatchMoves
<1>5. QED BY <1>4 DEF Pool!PauseTask

LEMMA ResumeMoves ==
  ASSUME DispatchInv, OnlyAdds, NEW i \in Ids, NEW ck \in OptCheckpoint, Resume(i, ck)
  PROVE  Pool!ResumeTask(i)
<1> DEFINE t == Resumed(tasks[i], ck)
           e == ReplaceAndQueue(i, t, FALSE)
<1>1. State(i) \in {"PAUSED"} /\ tasks[i] \in Task
  BY RegisteredSucceeds DEF Resume, TaskStates
<1>2. Handles(e, {i}, {}) /\ HandledThenDispatched(e, {i}, {})
  BY ResumeHandles DEF Resume, ResumeEffect
<1>3. /\ Life(e) = [Life(Current) EXCEPT ![i] = "PENDING"]
      /\ Parked(e) = Parked(Current) \ {i}
      /\ e.slots = slots
  <2>1. t.state = "PENDING"
    BY <1>1, ChangedTaskType
  <2> HIDE DEF t
  <2>2. QED BY <2>1, ReplaceAndQueuePool
<1> HIDE DEF e
<1>4. Pool!Move(i, {"PAUSED"}, "PENDING")
  BY <1>1, <1>2, <1>3, DispatchMoves
<1>5. QED BY <1>4 DEF Pool!ResumeTask

LEMMA FinishMoves ==
  ASSUME DispatchInv, OnlyAdds, NEW i \in Ids, NEW ck \in OptCheckpoint, Finish(i, ck)
  PROVE  Pool!Complete(i)
<1> DEFINE t == Finished(tasks[i], ck)
           e == Replace(i, t)
<1>1. State(i) \in {"RUNNING"} /\ tasks[i] \in Task
  BY RegisteredSucceeds DEF Finish, TaskStates
<1>2. /\ Handles(e, {i}, {Call("on_finish", i)})
      /\ HandledThenDispatched(e, {i}, {Call("on_finish", i)})
  BY FinishHandles DEF Finish, FinishEffect
<1>3. /\ Life(e) = [Life(Current) EXCEPT ![i] = "FINISHED"]
      /\ Parked(e) = Parked(Current) \ {i}
      /\ e.slots = slots
  <2>1. t.state = "FINISHED"
    BY <1>1, ChangedTaskType
  <2> HIDE DEF t
  <2>2. QED BY <2>1, ReplacePool
<1> HIDE DEF e
<1>4. Pool!Move(i, {"RUNNING"}, "FINISHED")
  BY <1>1, <1>2, <1>3, DispatchMoves
<1>5. QED BY <1>4 DEF Pool!Complete

LEMMA KillMoves ==
  ASSUME DispatchInv, OnlyAdds, NEW i \in Ids, Kill(i)
  PROVE  Pool!Abandon(i)
<1> DEFINE t == Killed(tasks[i])
           e == Replace(i, t)
<1>1. State(i) \in {"RUNNING", "PENDING", "PAUSED"} /\ tasks[i] \in Task
  BY RegisteredSucceeds DEF Kill, TaskStates, Terminal
<1>2. /\ Handles(e, {i}, {Call("on_kill", i)})
      /\ HandledThenDispatched(e, {i}, {Call("on_kill", i)})
  BY KillHandles DEF Kill, KillEffect
<1>3. /\ Life(e) = [Life(Current) EXCEPT ![i] = "KILLED"]
      /\ Parked(e) = Parked(Current) \ {i}
      /\ e.slots = slots
  <2>1. t.state = "KILLED"
    BY <1>1, EndedTaskType
  <2> HIDE DEF t
  <2>2. QED BY <2>1, ReplacePool
<1> HIDE DEF e
<1>4. Pool!Move(i, {"RUNNING", "PENDING", "PAUSED"}, "KILLED")
  BY <1>1, <1>2, <1>3, DispatchMoves
<1>5. QED BY <1>4 DEF Pool!Abandon

LEMMA CheckpointStutters ==
  ASSUME DispatchInv, NEW i \in Ids, NEW ck \in Checkpoints, Checkpoint(i, ck)
  PROVE  UNCHANGED Pool!poolVars
<1> DEFINE t == [tasks[i] EXCEPT !.checkpoint = ck]
<1>1. tasks[i] \in Task /\ tasks[i].state = State(i)
  BY RegisteredSucceeds DEF Checkpoint
<1>2. t.state = State(i)
  BY <1>1 DEF Task
<1>3. Handled([Current EXCEPT !.tasks[i] = t], {i}, {})
  BY DEF Checkpoint, CheckpointEffect
<1> HIDE DEF t
<1>4. QED BY <1>2, <1>3, PayloadStutters

LEMMA UpdateStutters ==
  ASSUME DispatchInv, NEW i \in Ids, NEW n \in Infos, Update(i, n)
  PROVE  UNCHANGED Pool!poolVars
<1> DEFINE t == [tasks[i] EXCEPT !.info = n]
<1>1. tasks[i] \in Task /\ tasks[i].state = State(i)
  BY RegisteredSucceeds DEF Update
<1>2. t.state = State(i)
  BY <1>1 DEF Task
<1>3. Handled([Current EXCEPT !.tasks[i] = t], {i}, {})
  BY DEF Update, UpdateEffect
<1> HIDE DEF t
<1>4. QED BY <1>2, <1>3, PayloadStutters

LEMMA RestoreImports ==
  ASSUME DispatchInv, OnlyAdds, NEW S \in SUBSET Ids, NEW img \in [S -> Images],
         Restore(img)
  PROVE  Pool!Import(S)
<1>1. PICK rank : /\ Handles(RestoreEffect(img, rank), S, {})
                  /\ HandledThenDispatched(RestoreEffect(img, rank), S, {})
  BY RestoreHandles
<1>2. \A i \in S : State(i) \in RestoreOver
  BY DEF Restore
<1> DEFINE e == RestoreEffect(img, rank)
<1>3. PICK f \in [S -> {"PENDING", "FINISHED", "KILLED"}] :
        /\ Life(e) = [i \in Ids |-> IF i \in S THEN f[i] ELSE Life(Current)[i]]
        /\ Parked(e) = Parked(Current)
        /\ e.slots = slots
  BY <1>2, RestorePool
<1> DEFINE L == [j \in Ids |-> State(j)]
           P == {j \in Ids : State(j) = "PENDING" /\ \A k \in queue : k.id # j}
           l2 == [i \in Ids |-> IF i \in S THEN f[i] ELSE L[i]]
<1> HIDE DEF e
<1>4. Life(e) = l2 /\ Parked(e) = P
  BY <1>3, CurrentPool
<1>5. PICK D : /\ Fills(D, Life(e), Parked(e), e.slots)
               /\ Leaves(D, Life(e), Parked(e), e.slots, tasks', queue', slots')
  BY <1>1, HandlesSettles DEF e
<1>6. /\ D \in SUBSET (Pool!In(l2, "PENDING") \ P)
      /\ D # {} => Pool!Cardinality(D) <= slots - Pool!Cardinality(Pool!In(l2, "RUNNING"))
      /\ D # Pool!In(l2, "PENDING") \ P
           => Pool!Cardinality(D) >= slots - Pool!Cardinality(Pool!In(l2, "RUNNING"))
      /\ [j \in Ids |-> State(j)]' = [j \in Ids |-> IF j \in D THEN "RUNNING" ELSE l2[j]]
      /\ {j \in Ids : State(j) = "PENDING" /\ \A k \in queue : k.id # j}' = P
      /\ slots' = slots
  <2> HIDE DEF l2, P
  <2>1. Fills(D, l2, P, slots) /\ Leaves(D, l2, P, slots, tasks', queue', slots')
    BY <1>3, <1>4, <1>5
  <2>2. QED BY <2>1, Settled
<1>7. \A i \in S : L[i] = "NONE"
  BY <1>2 DEF OnlyAdds
<1> DEFINE Imported(l) == [j \in Ids |-> IF j \in S THEN l[j] ELSE L[j]]
<1>8. \E l \in [S -> {"PENDING", "FINISHED", "KILLED"}] :
        \E E \in SUBSET (Pool!In(Imported(l), "PENDING") \ P) :
           /\ E # {} => Pool!Cardinality(E)
                          <= slots - Pool!Cardinality(Pool!In(Imported(l), "RUNNING"))
           /\ E # Pool!In(Imported(l), "PENDING") \ P
                => Pool!Cardinality(E)
                     >= slots - Pool!Cardinality(Pool!In(Imported(l), "RUNNING"))
           /\ [j \in Ids |-> State(j)]'
                 = [j \in Ids |-> IF j \in E THEN "RUNNING" ELSE Imported(l)[j]]
           /\ {j \in Ids : State(j) = "PENDING" /\ \A k \in queue : k.id # j}' = P
           /\ slots' = slots
  <2> WITNESS f \in [S -> {"PENDING", "FINISHED", "KILLED"}]
  <2>1. QED BY <1>6
<1>9. QED BY Zenon, <1>7, <1>8 DEF Pool!Import, Pool!Settle

LEMMA SetSlotsResizes ==
  ASSUME DispatchInv, OnlyAdds, NEW n \in SlotCounts, SetSlots(n)
  PROVE  Pool!Resize(AtLeast1(n))
<1> DEFINE e == SlotsEffect(n)
           L == [j \in Ids |-> State(j)]
           P == {j \in Ids : State(j) = "PENDING" /\ \A k \in queue : k.id # j}
<1>1. Handles(e, {}, {}) /\ HandledThenDispatched(e, {}, {})
  BY SlotsHandles DEF SetSlots
<1>2. Life(e) = L /\ Parked(e) = P /\ e.slots = AtLeast1(n)
  BY DEF Life, Parked, State, Current, SlotsEffect
<1> HIDE DEF e
<1>3. PICK D : /\ Fills(D, Life(e), Parked(e), e.slots)
               /\ Leaves(D, Life(e), Parked(e), e.slots, tasks', queue', slots')
  BY <1>1, HandlesSettles
<1>4. /\ D \in SUBSET (Pool!In(L, "PENDING") \ P)
      /\ D # {} => Pool!Cardinality(D) <= AtLeast1(n) - Pool!Cardinality(Pool!In(L, "RUNNING"))
      /\ D # Pool!In(L, "PENDING") \ P
           => Pool!Cardinality(D) >= AtLeast1(n) - Pool!Cardinality(Pool!In(L, "RUNNING"))
      /\ [j \in Ids |-> State(j)]' = [j \in Ids |-> IF j \in D THEN "RUNNING" ELSE L[j]]
      /\ {j \in Ids : State(j) = "PENDING" /\ \A k \in queue : k.id # j}' = P
      /\ slots' = AtLeast1(n)
  <2> HIDE DEF L, P
  <2>1. /\ Fills(D, L, P, AtLeast1(n))
        /\ Leaves(D, L, P, AtLeast1(n), tasks', queue', slots')
    BY <1>2, <1>3
  <2>2. QED BY <2>1, Settled
<1>5. QED BY <1>4 DEF Pool!Resize, Pool!Settle

\* The tasks woken are the parked ones whose deadline has passed.
LEMMA TickWakes ==
  ASSUME DispatchInv, OnlyAdds, NEW ready \in SUBSET delayed, Tick(ready)
  PROVE  \E S \in SUBSET {j \in Ids : State(j) = "PENDING" /\ \A k \in queue : k.id # j} :
            Pool!Wake(S)
<1> DEFINE e == TickEffect(ready)
           L == [j \in Ids |-> State(j)]
           P == {j \in Ids : State(j) = "PENDING" /\ \A k \in queue : k.id # j}
<1>1. Handles(e, {}, {}) /\ HandledThenDispatched(e, {}, {})
  BY TickHandles DEF Tick
<1>2. PICK S \in SUBSET P : Life(e) = L /\ Parked(e) = P \ S /\ e.slots = slots
  <2> DEFINE woken == {j \in P : \E k \in ready : k.id = j}
  <2>1. woken \in SUBSET P /\ Life(e) = L /\ Parked(e) = P \ woken /\ e.slots = slots
    BY DEF Life, Parked, State, Current, TickEffect
  <2>2. QED BY <2>1
<1> DEFINE p2 == P \ S
<1> HIDE DEF e
<1>3. PICK D : /\ Fills(D, Life(e), Parked(e), e.slots)
               /\ Leaves(D, Life(e), Parked(e), e.slots, tasks', queue', slots')
  BY <1>1, HandlesSettles
<1>4. /\ D \in SUBSET (Pool!In(L, "PENDING") \ p2)
      /\ D # {} => Pool!Cardinality(D) <= slots - Pool!Cardinality(Pool!In(L, "RUNNING"))
      /\ D # Pool!In(L, "PENDING") \ p2
           => Pool!Cardinality(D) >= slots - Pool!Cardinality(Pool!In(L, "RUNNING"))
      /\ [j \in Ids |-> State(j)]' = [j \in Ids |-> IF j \in D THEN "RUNNING" ELSE L[j]]
      /\ {j \in Ids : State(j) = "PENDING" /\ \A k \in queue : k.id # j}' = p2
      /\ slots' = slots
  <2> HIDE DEF L, p2
  <2>1. Fills(D, L, p2, slots) /\ Leaves(D, L, p2, slots, tasks', queue', slots')
    BY <1>2, <1>3 DEF p2
  <2>2. QED BY <2>1, Settled
<1>5. Pool!Wake(S)
  BY <1>4 DEF Pool!Wake, Pool!Settle
<1>6. QED BY <1>5

\* A step of the kernel is a step of the pool; a payload or a checkpoint is none.
LEMMA NextPool ==
  ASSUME DispatchInv, PoolEnvironment, Next
  PROVE  Pool!PoolNext \/ UNCHANGED Pool!poolVars
<1>1. OnlyAdds
  BY DEF PoolEnvironment
<1>2. CASE \E i \in Ids :
              \/ \E p \in Priorities, m \in RetryCaps, n \in Infos : Start(i, p, m, n)
              \/ \E c \in OptCheckpoint :
                   PauseRunning(i, c) \/ PausePending(i, c) \/ Resume(i, c) \/ Finish(i, c)
              \/ Kill(i)
              \/ \E delay \in BOOLEAN : Reschedule(i, delay)
  <2>1. PICK i \in Ids :
              \/ \E p \in Priorities, m \in RetryCaps, n \in Infos : Start(i, p, m, n)
              \/ \E c \in OptCheckpoint :
                   PauseRunning(i, c) \/ PausePending(i, c) \/ Resume(i, c) \/ Finish(i, c)
              \/ Kill(i)
              \/ \E delay \in BOOLEAN : Reschedule(i, delay)
    BY <1>2
  <2>2. ASSUME NEW c \in OptCheckpoint, PausePending(i, c) PROVE Pool!PauseTask(i)
    BY <1>1, <2>2, PausePendingMoves DEF Pool!PauseTask
  <2>3. \/ Pool!Submit(i) \/ Pool!PauseTask(i) \/ Pool!ResumeTask(i)
        \/ Pool!Complete(i) \/ Pool!Abandon(i) \/ Pool!Retry(i)
    BY <1>1, <2>1, <2>2, StartMoves, PauseRunningMoves, ResumeMoves, FinishMoves,
       KillMoves, RescheduleMoves
  <2>4. QED BY <2>3 DEF Pool!PoolNext
<1>3. CASE \E i \in Ids : \/ \E c \in Checkpoints : Checkpoint(i, c)
                         \/ \E n \in Infos : Update(i, n)
  BY <1>3, CheckpointStutters, UpdateStutters
<1>4. CASE \E S \in SUBSET Ids : \E img \in [S -> Images] : Restore(img)
  BY <1>1, <1>4, RestoreImports DEF Pool!PoolNext
<1>5. CASE \E n \in SlotCounts : SetSlots(n)
  BY <1>1, <1>5, SetSlotsResizes DEF Pool!PoolNext
<1>6. CASE \E ready \in SUBSET delayed : Tick(ready)
  BY <1>1, <1>6, TickWakes DEF Pool!PoolNext
<1>7. QED BY <1>2, <1>3, <1>4, <1>5, <1>6 DEF Next

LEMMA InitPool ==
  ASSUME Init
  PROVE  Pool!PoolInit
BY DEF Init, Pool!PoolInit, State, NoTask

\* The kernel implements the pool of tasks it promises its clients to be (TaskPool,
\* from docs/scheduler.md): every handler, with the dispatch it ends in, is one
\* move of the pool followed by the filling of its slots, or nothing at all.
THEOREM PoolImplemented ==
  ASSUME PoolEnvironment
  PROVE  Spec => ImplementsPool
<1>1. Init => Pool!PoolInit
  BY InitPool
<1>2. DispatchInv /\ [Next]_vars => [Pool!PoolNext]_(Pool!poolVars)
  <2>1. ASSUME DispatchInv, Next PROVE Pool!PoolNext \/ UNCHANGED Pool!poolVars
    BY <2>1, NextPool
  <2>2. ASSUME UNCHANGED vars PROVE UNCHANGED Pool!poolVars
    BY <2>2 DEF vars, Pool!poolVars, State
  <2>3. QED BY <2>1, <2>2
<1>3. QED BY <1>1, <1>2, DispatchInvariance, PTL DEF Spec, ImplementsPool, Pool!PoolSpec
=============================================================================
