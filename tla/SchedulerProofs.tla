--------------------------- MODULE SchedulerProofs ---------------------------
(* Theorems about Scheduler, for every value of its constants.             *)
EXTENDS Scheduler, FiniteOrders

\* The values Current and the effects of the handlers range over.
ActorStates == [tasks : [Ids -> MaybeTask], queue : SUBSET HeapKey,
                delayed : SUBSET HeapKey, slots : Nat \ {0},
                running : Nat, order : Nat]

Sound(e) == /\ e \in ActorStates
            /\ IsFiniteSet(e.queue)
            /\ IsFiniteSet(e.delayed)

-----------------------------------------------------------------------------
(* Types.                                                                  *)

\* A registered id holds a task, any other holds NoTask.
LEMMA RegisteredIsTask ==
  ASSUME NEW t \in MaybeTask, t.state \in TaskStates
  PROVE  t \in Task
BY DEF MaybeTask, NoTask, TaskStates

LEMMA CurrentSound ==
  ASSUME TypeOK
  PROVE  Sound(Current)
BY DEF TypeOK, Sound, Current, ActorStates

\* Only pending tasks are started, and there are finitely many of them.
LEMMA StartedPending ==
  ASSUME NEW e, Sound(e)
  PROVE  /\ Started(e) \subseteq Ids
         /\ \A i \in Started(e) : e.tasks[i].state = "PENDING"
         /\ IsFiniteSet(Started(e))
<1>1. Started(e) \subseteq Ids
  BY DEF Started, Popped, Sound, ActorStates, HeapKey
<1>2. \A i \in Started(e) : e.tasks[i].state = "PENDING"
  BY DEF Started, Fresh
<1>3. IsFiniteSet(Started(e))
  BY <1>1, IdsAssumption, FS_Subset
<1>4. QED BY <1>1, <1>2, <1>3

LEMMA RunTask ==
  ASSUME NEW t \in Task
  PROVE  /\ Run(t) \in Task
         /\ Run(t).state = "RUNNING"
BY DEF Run, Task, AtLeast1, TaskStates

LEMMA DispatchedSound ==
  ASSUME NEW e, Sound(e)
  PROVE  Sound(Dispatched(e))
<1> DEFINE S == Started(e)
           T == [i \in Ids |-> IF i \in S THEN Run(e.tasks[i]) ELSE e.tasks[i]]
<1>1. /\ S \subseteq Ids
      /\ \A i \in S : e.tasks[i].state = "PENDING"
      /\ IsFiniteSet(S)
  BY StartedPending
<1>2. T \in [Ids -> MaybeTask]
  <2>1. ASSUME NEW i \in S PROVE Run(e.tasks[i]) \in MaybeTask
    <3>1. e.tasks[i] \in MaybeTask /\ e.tasks[i].state \in TaskStates
      BY <1>1 DEF Sound, ActorStates, TaskStates
    <3>2. QED BY <3>1, RegisteredIsTask, RunTask DEF MaybeTask
  <2>2. \A i \in Ids : e.tasks[i] \in MaybeTask
    BY DEF Sound, ActorStates
  <2>3. QED BY <2>1, <2>2
<1>3. Cardinality(S) \in Nat
  BY <1>1, FS_CardinalityType
<1>4. IsFiniteSet(e.queue \ Popped(e))
  BY FS_Difference DEF Sound
<1>5. Dispatched(e) = [e EXCEPT !.tasks = T, !.queue = e.queue \ Popped(e),
                                !.running = e.running + Cardinality(S)]
  BY DEF Dispatched
<1> HIDE DEF S, T
<1>6. Dispatched(e) \in ActorStates
  <2>1. /\ e \in ActorStates
        /\ e.queue \ Popped(e) \in SUBSET HeapKey
        /\ e.running + Cardinality(S) \in Nat
    BY <1>3 DEF Sound, ActorStates
  <2>2. ASSUME NEW Q \in SUBSET HeapKey, NEW r \in Nat
        PROVE  [e EXCEPT !.tasks = T, !.queue = Q, !.running = r] \in ActorStates
    BY <1>2, <2>1 DEF ActorStates
  <2>3. QED BY <1>5, <2>1, <2>2
<1>7. Dispatched(e).queue = e.queue \ Popped(e) /\ Dispatched(e).delayed = e.delayed
  BY <1>5 DEF Sound, ActorStates
<1>8. QED BY <1>4, <1>6, <1>7 DEF Sound

LEMMA DispatchCallsType ==
  ASSUME NEW e, Sound(e)
  PROVE  DispatchCalls(e) \subseteq HookCall
BY StartedPending DEF DispatchCalls, Call, HookCall

-----------------------------------------------------------------------------
(* The first key of a finite set.                                          *)

LEMMA BeforeIrreflexive ==
  ASSUME NEW j \in HeapKey
  PROVE  ~ Before(j, j)
BY DEF Before, HeapKey

LEMMA BeforeTransitive ==
  ASSUME NEW j \in HeapKey, NEW k \in HeapKey, NEW l \in HeapKey,
         Before(j, k), Before(k, l)
  PROVE  Before(j, l)
BY DEF Before, HeapKey

LEMMA FirstKey ==
  ASSUME NEW K \in SUBSET HeapKey, IsFiniteSet(K), K # {}
  PROVE  \E k \in K : \A j \in K : ~ Before(j, k)
<1> DEFINE R == {p \in K \X K : Before(p[1], p[2])}
<1>1. \A j, k \in K : <<j, k>> \in R <=> Before(j, k)
  OBVIOUS
<1> HIDE DEF R
<1>2. /\ \A j \in K : <<j, j>> \notin R
      /\ \A j, k, l \in K : <<j, k>> \in R /\ <<k, l>> \in R => <<j, l>> \in R
  BY <1>1, BeforeIrreflexive, BeforeTransitive
<1>3. PICK k \in K : \A j \in K : <<j, k>> \notin R
  BY <1>2, FirstElement
<1>4. QED BY <1>1, <1>3

-----------------------------------------------------------------------------
(* What dispatch keeps.                                                    *)

\* The tasks a state of the registry counts as running.
RunningIn(e) == {i \in Ids : e.tasks[i].state = "RUNNING"}

Accounted(e) == e.running = Cardinality(RunningIn(e))

Reachable(e) ==
  \A i \in Ids : e.tasks[i].state = "PENDING" =>
                   \E k \in e.queue \cup e.delayed : k.id = i

LEMMA DispatchedTasks ==
  ASSUME NEW e, Sound(e), NEW i \in Ids
  PROVE  /\ Dispatched(e).tasks[i] =
              IF i \in Started(e) THEN Run(e.tasks[i]) ELSE e.tasks[i]
         /\ Dispatched(e).tasks[i].state =
              IF i \in Started(e) THEN "RUNNING" ELSE e.tasks[i].state
<1>1. Dispatched(e).tasks =
        [j \in Ids |-> IF j \in Started(e) THEN Run(e.tasks[j]) ELSE e.tasks[j]]
  BY DEF Dispatched, Sound, ActorStates
<1>2. i \in Started(e) => e.tasks[i] \in Task
  BY StartedPending, RegisteredIsTask DEF Sound, ActorStates, TaskStates
<1>3. QED BY <1>1, <1>2, RunTask

\* Each started task takes one slot and was not running before.
LEMMA DispatchedAccounted ==
  ASSUME NEW e, Sound(e), Accounted(e)
  PROVE  Accounted(Dispatched(e))
<1>1. RunningIn(Dispatched(e)) = RunningIn(e) \cup Started(e)
  BY StartedPending, DispatchedTasks DEF RunningIn
<1>2. RunningIn(e) \cap Started(e) = {}
  BY StartedPending DEF RunningIn
<1>3. IsFiniteSet(RunningIn(e)) /\ IsFiniteSet(Started(e))
  BY IdsAssumption, FS_Subset, StartedPending DEF RunningIn
<1>4. /\ Cardinality(RunningIn(e)) \in Nat
      /\ Cardinality(Started(e)) \in Nat
      /\ Cardinality(RunningIn(e) \cap Started(e)) = 0
  BY <1>2, <1>3, FS_CardinalityType, FS_EmptySet
<1>5. Cardinality(RunningIn(Dispatched(e))) =
        Cardinality(RunningIn(e)) + Cardinality(Started(e))
  <2>1. Cardinality(RunningIn(e) \cup Started(e)) =
          Cardinality(RunningIn(e)) + Cardinality(Started(e)) - 0
    BY <1>3, <1>4, FS_Union
  <2>2. QED BY <1>1, <1>4, <2>1
<1>6. Dispatched(e).running = e.running + Cardinality(Started(e))
  BY DEF Dispatched, Sound, ActorStates
<1>7. QED BY <1>5, <1>6 DEF Accounted

\* A pending task whose key was popped was started: the best of its keys is
\* popped no later than the others.
LEMMA PoppedStarted ==
  ASSUME NEW e, Sound(e), NEW k \in Popped(e), e.tasks[k.id].state = "PENDING"
  PROVE  k.id \in Started(e)
<1> DEFINE Own == {j \in e.queue : j.id = k.id}
<1>1. k \in Own /\ IsFiniteSet(Own) /\ Own \in SUBSET HeapKey
  BY FS_Subset DEF Popped, Sound, ActorStates
<1>2. PICK f \in Own : \A j \in Own : ~ Before(j, f)
  BY <1>1, FirstKey
<1>3. f \in Fresh(e)
  BY <1>2 DEF Fresh
<1>4. f \in Popped(e)
  <2>1. CASE Before(f, k)
    <3> DEFINE A(x) == {j \in Fresh(e) : Before(j, x)}
    <3>1. A(f) \subseteq A(k)
      BY <1>1, <1>2, <2>1, BeforeTransitive DEF Fresh, Sound, ActorStates
    <3>2. IsFiniteSet(A(k))
      <4>1. A(k) \subseteq e.queue
        BY DEF Fresh
      <4>2. QED BY <4>1, FS_Subset DEF Sound
    <3>3. /\ Cardinality(A(f)) <= Cardinality(A(k))
          /\ Cardinality(A(f)) \in Nat
          /\ Cardinality(A(k)) \in Nat
      BY <3>1, <3>2, FS_Subset, FS_CardinalityType
    <3>4. Cardinality(A(k)) < e.slots - e.running
      BY DEF Popped
    <3>5. Cardinality(A(f)) < e.slots - e.running
      BY <3>3, <3>4 DEF Sound, ActorStates
    <3>6. QED BY <3>5, <1>2 DEF Popped
  <2>2. CASE ~ Before(f, k)
    \* neither is before the other: they count the same keys ahead of them
    <3>1. \A j \in Fresh(e) : Before(j, f) <=> Before(j, k)
      BY <1>1, <1>2, <2>2 DEF Fresh, Before, Sound, ActorStates, HeapKey
    <3>2. {j \in Fresh(e) : Before(j, f)} = {j \in Fresh(e) : Before(j, k)}
      BY <3>1
    <3>3. QED BY <1>2, <3>2 DEF Popped
  <2>3. QED BY <2>1, <2>2
<1>5. f.id = k.id
  BY <1>2
<1>6. QED BY <1>3, <1>4, <1>5 DEF Started

\* So one that is still pending has its keys left.
LEMMA DispatchedReachable ==
  ASSUME NEW e, Sound(e), Reachable(e)
  PROVE  Reachable(Dispatched(e))
<1> SUFFICES ASSUME NEW i \in Ids, Dispatched(e).tasks[i].state = "PENDING"
             PROVE  \E k \in Dispatched(e).queue \cup Dispatched(e).delayed : k.id = i
  BY DEF Reachable
<1>1. i \notin Started(e) /\ e.tasks[i].state = "PENDING"
  BY DispatchedTasks
<1>2. /\ Dispatched(e).queue = e.queue \ Popped(e)
      /\ Dispatched(e).delayed = e.delayed
  BY DEF Dispatched, Sound, ActorStates
<1>3. PICK k \in e.queue \cup e.delayed : k.id = i
  BY <1>1 DEF Reachable
<1>4. k \notin Popped(e)
  BY <1>1, <1>3, PoppedStarted
<1>5. QED BY <1>2, <1>3, <1>4

-----------------------------------------------------------------------------
(* What the effect of a handler keeps.                                     *)

\* The registry mirrored by the snapshot, the queue and the slot counter.  The
\* counter needs that no restore overwrites a running task.
Inv == /\ TypeOK
       /\ NoLostTask
       /\ SnapshotCurrent
       /\ "RUNNING" \notin RestoreOver => SlotAccounting

\* e is a good state to leave the actor in, or to dispatch from, for a handler
\* that syncs the rows in ids.
Good(e, ids) ==
  /\ Sound(e)
  /\ Reachable(e)
  /\ \A i \in Ids \ ids : e.tasks[i] = tasks[i]
  /\ "RUNNING" \notin RestoreOver => Accounted(e)

LEMMA CurrentGood ==
  ASSUME Inv
  PROVE  /\ Sound(Current)
         /\ Reachable(Current)
         /\ RunningIn(Current) = RunningIds
         /\ "RUNNING" \notin RestoreOver => Accounted(Current)
<1>1. Sound(Current)
  BY DEF Inv, TypeOK, Sound, Current, ActorStates
<1>2. Reachable(Current)
  BY DEF Inv, NoLostTask, State, Reachable, Current
<1>3. RunningIn(Current) = RunningIds
  BY DEF RunningIn, RunningIds, State, Current
<1>4. "RUNNING" \notin RestoreOver => Accounted(Current)
  BY <1>3 DEF Inv, SlotAccounting, Accounted, Current
<1>5. QED BY <1>1, <1>2, <1>3, <1>4

LEMMA RegisteredTask ==
  ASSUME TypeOK, NEW i \in Ids, State(i) \in TaskStates
  PROVE  tasks[i] \in Task
BY RegisteredIsTask DEF TypeOK, State

\* The slot a task gives up is the one it was counted for.
LEMMA ReplaceAccounted ==
  ASSUME Inv, NEW i \in Ids, NEW t \in Task, t.state # "RUNNING",
         "RUNNING" \notin RestoreOver
  PROVE  Accounted(Replace(i, t))
<1>1. /\ Replace(i, t).tasks = [tasks EXCEPT ![i] = t]
      /\ Replace(i, t).running = Released(i)
  BY DEF Replace, Current
<1>2. RunningIn(Replace(i, t)) = RunningIds \ {i}
  BY <1>1 DEF RunningIn, RunningIds, State, Inv, TypeOK
<1>3. IsFiniteSet(RunningIds) /\ Cardinality(RunningIds) = running
  BY IdsAssumption, FS_Subset DEF RunningIds, Inv, SlotAccounting
<1>4. Cardinality(RunningIds \ {i}) = IF i \in RunningIds THEN running - 1 ELSE running
  BY <1>3, FS_RemoveElement
<1>5. i \in RunningIds => running > 0
  <2>1. i \in RunningIds => Cardinality(RunningIds) # 0
    BY <1>3, FS_EmptySet
  <2>2. QED BY <1>3, <2>1 DEF Inv, TypeOK
<1>6. i \in RunningIds <=> State(i) = "RUNNING"
  BY DEF RunningIds
<1>7. Released(i) = IF i \in RunningIds THEN running - 1 ELSE running
  BY <1>5, <1>6 DEF Released, Dec
<1>8. QED BY <1>1, <1>2, <1>4, <1>7 DEF Accounted

LEMMA ReleasedType ==
  ASSUME TypeOK, NEW i \in Ids
  PROVE  Released(i) \in Nat
BY DEF TypeOK, Released, Dec

\* pause, finish, kill: a task leaves the queue's reach, and maybe its slot.
LEMMA ReplaceGood ==
  ASSUME Inv, NEW i \in Ids, NEW t \in Task, t.state \notin {"RUNNING", "PENDING"}
  PROVE  Good(Replace(i, t), {i})
<1> DEFINE e == Replace(i, t)
<1>1. /\ e.tasks = [tasks EXCEPT ![i] = t]
      /\ e.queue = queue /\ e.delayed = delayed
  BY DEF Replace, Current
<1>2. Sound(e)
  BY ReleasedType DEF Replace, Current, Inv, TypeOK, Sound, ActorStates, MaybeTask
<1>3. "RUNNING" \notin RestoreOver => Accounted(e)
  BY ReplaceAccounted
<1> HIDE DEF e
<1>4. Reachable(e)
  BY <1>1 DEF Reachable, Inv, NoLostTask, State, TypeOK
<1>5. QED BY <1>1, <1>2, <1>3, <1>4 DEF Good, e, Inv, TypeOK

\* start, resume, reschedule: a pending task gets a key of its own.
LEMMA ReplaceAndQueueGood ==
  ASSUME Inv, NEW i \in Ids, NEW t \in Task, t.state = "PENDING",
         NEW parked \in BOOLEAN
  PROVE  Good(ReplaceAndQueue(i, t, parked), {i})
<1> DEFINE e == ReplaceAndQueue(i, t, parked)
           key == Key(i, t.priority, order)
           Q == IF parked THEN queue ELSE queue \cup {key}
           D == IF parked THEN delayed \cup {key} ELSE delayed
<1>1. key \in HeapKey /\ key.id = i
  BY DEF Inv, TypeOK, Key, HeapKey, Task
<1>2. /\ Q \in SUBSET HeapKey /\ IsFiniteSet(Q)
      /\ D \in SUBSET HeapKey /\ IsFiniteSet(D)
  BY <1>1, FS_AddElement DEF Inv, TypeOK
<1>3. key \in Q \cup D /\ queue \cup delayed \subseteq Q \cup D
  OBVIOUS
<1>4. e = [Replace(i, t) EXCEPT !.queue = Q, !.delayed = D, !.order = order + 1]
  BY DEF ReplaceAndQueue, Replace, Current
<1> HIDE DEF e, key, Q, D
<1>5. /\ e.tasks = [tasks EXCEPT ![i] = t]
      /\ e.queue = Q /\ e.delayed = D
      /\ e.running = Released(i)
  BY <1>4 DEF Replace, Current
<1>6. Sound(e)
  <2>1. Replace(i, t) \in ActorStates
    BY ReleasedType DEF Replace, Current, Inv, TypeOK, ActorStates, MaybeTask
  <2>2. order + 1 \in Nat
    BY DEF Inv, TypeOK
  <2>3. e \in ActorStates
    BY <1>2, <1>4, <2>1, <2>2 DEF ActorStates
  <2>4. QED BY <1>2, <1>5, <2>3 DEF Sound
<1>7. "RUNNING" \notin RestoreOver => Accounted(e)
  <2>1. Replace(i, t).tasks = e.tasks /\ Replace(i, t).running = e.running
    BY <1>5 DEF Replace, Current
  <2>2. RunningIn(Replace(i, t)) = RunningIn(e)
    BY <2>1 DEF RunningIn
  <2>3. QED BY <2>1, <2>2, ReplaceAccounted DEF Accounted
<1>8. Reachable(e)
  <2>1. e.queue \cup e.delayed = Q \cup D
    BY <1>5
  <2>2. ASSUME NEW j \in Ids, e.tasks[j].state = "PENDING"
        PROVE  \E k \in Q \cup D : k.id = j
    <3>1. CASE j = i
      BY <1>1, <1>3, <3>1
    <3>2. CASE j # i
      <4>1. State(j) = "PENDING"
        BY <1>5, <2>2, <3>2 DEF State, Inv, TypeOK
      <4>2. QED BY <1>3, <4>1 DEF Inv, NoLostTask
    <3>3. QED BY <3>1, <3>2
  <2>3. QED BY <2>1, <2>2 DEF Reachable
<1>9. \A j \in Ids \ {i} : e.tasks[j] = tasks[j]
  BY <1>5 DEF Inv, TypeOK
<1>10. QED BY <1>6, <1>7, <1>8, <1>9 DEF Good, e

\* checkpoint, update: the payload changes and the state does not.
LEMMA PayloadGood ==
  ASSUME Inv, NEW i \in Ids, NEW t \in Task, t.state = State(i)
  PROVE  Good([Current EXCEPT !.tasks[i] = t], {i})
<1> DEFINE e == [Current EXCEPT !.tasks[i] = t]
<1>1. /\ e.tasks = [tasks EXCEPT ![i] = t]
      /\ e.queue = queue /\ e.delayed = delayed /\ e.running = running
  BY DEF Current
<1>2. Sound(e)
  BY DEF Current, Inv, TypeOK, Sound, ActorStates, MaybeTask
<1> HIDE DEF e
<1>3. \A j \in Ids : e.tasks[j].state = State(j)
  BY <1>1 DEF State, Inv, TypeOK
<1>4. Reachable(e)
  BY <1>1, <1>3 DEF Reachable, Inv, NoLostTask
<1>5. "RUNNING" \notin RestoreOver => Accounted(e)
  <2>1. RunningIn(e) = RunningIds
    BY <1>3 DEF RunningIn, RunningIds
  <2>2. QED BY <1>1, <2>1 DEF Accounted, Inv, SlotAccounting
<1>6. QED BY <1>1, <1>2, <1>4, <1>5 DEF Good, e, Inv, TypeOK

LEMMA SlotsGood ==
  ASSUME Inv, NEW n \in SlotCounts
  PROVE  Good(SlotsEffect(n), {})
<1> DEFINE e == SlotsEffect(n)
<1>1. e.tasks = tasks /\ e.queue = queue /\ e.delayed = delayed /\ e.running = running
  BY DEF SlotsEffect, Current
<1>2. Sound(e)
  BY InputAssumption DEF SlotsEffect, AtLeast1, Current, Inv, TypeOK, Sound, ActorStates
<1> HIDE DEF e
<1>3. Reachable(e) /\ RunningIn(e) = RunningIds
  BY <1>1 DEF Reachable, RunningIn, RunningIds, Inv, NoLostTask, State
<1>4. QED BY <1>1, <1>2, <1>3 DEF Good, Accounted, Inv, SlotAccounting, e

LEMMA TickGood ==
  ASSUME Inv, NEW ready \in SUBSET delayed
  PROVE  Good(TickEffect(ready), {})
<1> DEFINE e == TickEffect(ready)
<1>1. /\ e.tasks = tasks /\ e.running = running
      /\ e.queue = queue \cup ready /\ e.delayed = delayed \ ready
  BY DEF TickEffect, Current
<1>2. IsFiniteSet(queue \cup ready) /\ IsFiniteSet(delayed \ ready)
  <2>1. IsFiniteSet(ready)
    BY FS_Subset DEF Inv, TypeOK
  <2>2. QED BY <2>1, FS_Union, FS_Difference DEF Inv, TypeOK
<1>3. e \in ActorStates
  BY DEF TickEffect, Current, Inv, TypeOK, ActorStates
<1> HIDE DEF e
<1>4. e.queue \cup e.delayed = queue \cup delayed
  BY <1>1
<1>5. Reachable(e) /\ RunningIn(e) = RunningIds
  BY <1>1, <1>4 DEF Reachable, RunningIn, RunningIds, Inv, NoLostTask, State
<1>6. QED BY <1>1, <1>2, <1>3, <1>5 DEF Good, Accounted, Inv, SlotAccounting, Sound, e

\* restore: what it queues is pending, and what it overwrites held no slot.
LEMMA RestoreGood ==
  ASSUME Inv, NEW S \in SUBSET Ids, NEW img \in [S -> Images],
         \A i \in S : State(i) \in RestoreOver,
         NEW rank \in Rankings(Queued(img))
  PROVE  Good(RestoreEffect(img, rank), S)
<1> DEFINE e == RestoreEffect(img, rank)
           W == Queued(img)
           key(i) == Key(i, img[i].priority, order + rank[i])
           K == {key(i) : i \in W}
           T == [i \in Ids |-> IF i \in S THEN Restored(img[i]) ELSE tasks[i]]
<1>1. W \subseteq S /\ IsFiniteSet(W) /\ Cardinality(W) \in Nat
  <2>1. W \subseteq S /\ W \in SUBSET Ids
    BY DEF Queued
  <2>2. QED BY <2>1, IdsAssumption, FS_Subset, FS_CardinalityType
<1>2. \A i \in S : img[i] \in Task
  BY InputAssumption
<1>3. \A i \in S : /\ Restored(img[i]) \in MaybeTask
                   /\ Restored(img[i]).state # "RUNNING"
                   /\ Restored(img[i]).state = "PENDING" <=> i \in W
  <2>1. ASSUME NEW i \in S
        PROVE  /\ Restored(img[i]) \in MaybeTask
               /\ Restored(img[i]).state # "RUNNING"
               /\ Restored(img[i]).state = "PENDING" <=> i \in W
    <3>1. CASE img[i].state \in Terminal
      BY <1>2, <3>1 DEF Restored, Queued, Terminal, MaybeTask
    <3>2. CASE img[i].state \notin Terminal
      <4> DEFINE interrupted == img[i].state \in {"RUNNING", "PAUSED"}
      <4>1. interrupted \in BOOLEAN
        OBVIOUS
      <4>2. \A r \in BOOLEAN :
              LET t == [img[i] EXCEPT !.state = "PENDING", !.resume = r]
              IN  t \in Task /\ t.state = "PENDING"
        BY <1>2 DEF Task, TaskStates
      <4>3. Restored(img[i]) = [img[i] EXCEPT !.state = "PENDING", !.resume = interrupted]
        BY <3>2 DEF Restored
      <4> HIDE DEF interrupted
      <4>4. Restored(img[i]) \in Task /\ Restored(img[i]).state = "PENDING"
        BY <4>1, <4>2, <4>3
      <4>5. i \in W
        BY <3>2 DEF Queued
      <4>6. QED BY <4>4, <4>5 DEF MaybeTask
    <3>3. QED BY <3>1, <3>2
  <2>2. QED BY <2>1
<1>4. T \in [Ids -> MaybeTask]
  BY <1>3 DEF Inv, TypeOK
<1>5. \A i \in W : rank[i] \in Nat
  BY <1>1 DEF Rankings
<1>6. \A i \in W : key(i) \in HeapKey /\ key(i).id = i
  BY <1>1, <1>2, <1>5 DEF Key, HeapKey, Inv, TypeOK, Task
<1>7. IsFiniteSet(K)
  <2> DEFINE f == [i \in W |-> key(i)]
  <2>1. f \in Surjection(W, K)
    BY DEF Surjection
  <2> HIDE DEF f, K, W
  <2>2. QED BY <1>1, <2>1, FS_Surjection
<1>8. queue \cup K \in SUBSET HeapKey /\ IsFiniteSet(queue \cup K)
  BY <1>6, <1>7, FS_Union DEF Inv, TypeOK
<1>9. e = [Current EXCEPT !.tasks = T, !.queue = queue \cup K,
                          !.order = order + Cardinality(W)]
  BY DEF RestoreEffect, Current
<1> HIDE DEF e, W, K, T
<1>10. /\ e.tasks = T /\ e.queue = queue \cup K
       /\ e.delayed = delayed /\ e.running = running
  BY <1>9 DEF Current
<1>11. Sound(e)
  <2>1. Current \in ActorStates /\ IsFiniteSet(delayed)
    BY CurrentGood DEF Sound, Current
  <2>2. order + Cardinality(W) \in Nat
    BY <1>1 DEF Inv, TypeOK
  <2>3. e \in ActorStates
    BY <1>4, <1>8, <1>9, <2>1, <2>2 DEF ActorStates
  <2>4. QED BY <1>8, <1>10, <2>1, <2>3 DEF Sound
<1>12. Reachable(e)
  <2> SUFFICES ASSUME NEW i \in Ids, T[i].state = "PENDING"
               PROVE  \E k \in queue \cup K \cup delayed : k.id = i
    BY <1>10 DEF Reachable
  <2>1. CASE i \in S
    <3>1. i \in W
      BY <1>3, <2>1 DEF T
    <3>2. QED BY <3>1, <1>6 DEF K
  <2>2. CASE i \notin S
    BY <2>2 DEF T, Inv, NoLostTask, State
  <2>3. QED BY <2>1, <2>2
<1>13. "RUNNING" \notin RestoreOver => Accounted(e)
  <2>1. ASSUME "RUNNING" \notin RestoreOver PROVE RunningIn(e) = RunningIds
    BY <1>3, <1>10, <2>1 DEF RunningIn, RunningIds, State, T
  <2>2. QED BY <1>10, <2>1 DEF Accounted, Inv, SlotAccounting
<1>14. \A i \in Ids \ S : e.tasks[i] = tasks[i]
  BY <1>10 DEF T
<1>15. QED BY <1>11, <1>12, <1>13, <1>14 DEF Good, e

-----------------------------------------------------------------------------
(* The invariant.                                                          *)

LEMMA HandledInv ==
  ASSUME Inv, NEW e, NEW ids, Good(e, ids), NEW calls, calls \subseteq HookCall,
         Handled(e, ids, calls)
  PROVE  Inv'
<1>1. /\ tasks' = e.tasks /\ queue' = e.queue /\ delayed' = e.delayed
      /\ slots' = e.slots /\ running' = e.running /\ order' = e.order
      /\ snapshot' = [i \in Ids |-> IF i \in ids THEN e.tasks[i] ELSE snapshot[i]]
      /\ spawned' = calls
  BY DEF Handled
<1>2. snapshot' = tasks'
  BY <1>1 DEF Good, Sound, ActorStates, Inv, SnapshotCurrent
<1>3. TypeOK'
  BY <1>1, <1>2 DEF TypeOK, Good, Sound, ActorStates
<1>4. NoLostTask'
  BY <1>1 DEF NoLostTask, State, Good, Reachable
<1>5. "RUNNING" \notin RestoreOver => SlotAccounting'
  <2>1. RunningIds' = RunningIn(e)
    BY <1>1 DEF RunningIds, RunningIn, State
  <2>2. QED BY <1>1, <2>1 DEF SlotAccounting, Good, Accounted
<1>6. QED BY <1>2, <1>3, <1>4, <1>5 DEF Inv, SnapshotCurrent

\* dispatch carries a good state, and the rows it syncs itself, to a good one.
LEMMA DispatchedGood ==
  ASSUME Inv, NEW e, NEW ids, Good(e, ids)
  PROVE  Good(Dispatched(e), ids \cup Started(e))
<1>1. \A i \in Ids \ (ids \cup Started(e)) : Dispatched(e).tasks[i] = tasks[i]
  BY DispatchedTasks DEF Good
<1>2. QED
  BY <1>1, DispatchedSound, DispatchedReachable, DispatchedAccounted DEF Good

LEMMA DispatchedInv ==
  ASSUME Inv, NEW e, NEW ids, Good(e, ids), NEW calls, calls \subseteq HookCall,
         HandledThenDispatched(e, ids, calls)
  PROVE  Inv'
<1>1. calls \cup DispatchCalls(e) \subseteq HookCall
  BY DispatchCallsType DEF Good
<1>2. QED BY <1>1, DispatchedGood, HandledInv DEF HandledThenDispatched

LEMMA CallType ==
  ASSUME NEW i \in Ids
  PROVE  \A h \in {"on_pause", "on_finish", "on_kill", "on_reschedule"} :
           {Call(h, i)} \subseteq HookCall
BY DEF Call, HookCall

LEMMA NewTaskType ==
  ASSUME NEW p \in Priorities, NEW m \in RetryCaps, NEW n \in Infos
  PROVE  NewTask(p, m, n) \in Task /\ NewTask(p, m, n).state = "PENDING"
BY InputAssumption DEF NewTask, Task, TaskStates, OptCheckpoint

LEMMA ChangedTaskType ==
  ASSUME NEW t \in Task, NEW ck \in OptCheckpoint
  PROVE  /\ Paused(t, ck) \in Task /\ Paused(t, ck).state = "PAUSED"
         /\ Resumed(t, ck) \in Task /\ Resumed(t, ck).state = "PENDING"
         /\ Finished(t, ck) \in Task /\ Finished(t, ck).state = "FINISHED"
         /\ [t EXCEPT !.checkpoint = ck] \in Task
<1>1. OrKeep(ck, t.checkpoint) \in OptCheckpoint
  BY DEF OrKeep, Task
<1>2. QED BY <1>1 DEF Paused, Resumed, Finished, Task, TaskStates

LEMMA EndedTaskType ==
  ASSUME NEW t \in Task
  PROVE  /\ Killed(t) \in Task /\ Killed(t).state = "KILLED"
         /\ GivenUp(t) \in Task /\ GivenUp(t).state = "KILLED"
         /\ Retried(t) \in Task /\ Retried(t).state = "PENDING"
<1>1. t.attempts + 1 \in Nat
  BY DEF Task
<1>2. \A n \in Nat :
        /\ [t EXCEPT !.state = "KILLED", !.attempts = n] \in Task
        /\ [t EXCEPT !.state = "PENDING", !.attempts = n, !.resume = FALSE] \in Task
  BY DEF Task, TaskStates
<1>3. GivenUp(t) \in Task /\ Retried(t) \in Task
  BY <1>1, <1>2 DEF GivenUp, Retried
<1>4. Killed(t) \in Task
  BY DEF Killed, Task, TaskStates
<1>5. Killed(t).state = "KILLED" /\ GivenUp(t).state = "KILLED" /\ Retried(t).state = "PENDING"
  BY DEF Killed, GivenUp, Retried, Task
<1>6. QED BY <1>3, <1>4, <1>5

LEMMA NextInv ==
  ASSUME Inv, Next
  PROVE  Inv'
<1> USE DEF Inv
<1>1. ASSUME NEW i \in Ids, NEW p \in Priorities, NEW m \in RetryCaps, NEW n \in Infos,
             Start(i, p, m, n)
      PROVE  Inv'
  <2>1. Good(StartEffect(i, p, m, n), {i})
    BY NewTaskType, ReplaceAndQueueGood DEF StartEffect
  <2>2. QED BY <1>1, <2>1, DispatchedInv DEF Start
<1>2. ASSUME NEW i \in Ids, NEW ck \in OptCheckpoint,
             PauseRunning(i, ck) \/ PausePending(i, ck)
      PROVE  Inv'
  <2>1. State(i) \in TaskStates
    BY <1>2 DEF PauseRunning, PausePending, TaskStates
  <2>2. Good(PauseEffect(i, ck), {i})
    BY <2>1, RegisteredTask, ChangedTaskType, ReplaceGood DEF PauseEffect
  <2>3. CASE PauseRunning(i, ck)
    BY <2>2, <2>3, CallType, DispatchedInv DEF PauseRunning
  <2>4. CASE PausePending(i, ck)
    BY <2>2, <2>4, HandledInv DEF PausePending
  <2>5. QED BY <1>2, <2>3, <2>4
<1>3. ASSUME NEW i \in Ids, NEW ck \in OptCheckpoint, Resume(i, ck)
      PROVE  Inv'
  <2>1. State(i) \in TaskStates
    BY <1>3 DEF Resume, TaskStates
  <2>2. Good(ResumeEffect(i, ck), {i})
    BY <2>1, RegisteredTask, ChangedTaskType, ReplaceAndQueueGood DEF ResumeEffect
  <2>3. QED BY <1>3, <2>2, DispatchedInv DEF Resume
<1>4. ASSUME NEW i \in Ids, NEW ck \in OptCheckpoint, Finish(i, ck)
      PROVE  Inv'
  <2>1. State(i) \in TaskStates
    BY <1>4 DEF Finish, TaskStates
  <2>2. Good(FinishEffect(i, ck), {i})
    BY <2>1, RegisteredTask, ChangedTaskType, ReplaceGood DEF FinishEffect
  <2>3. QED BY <1>4, <2>2, CallType, DispatchedInv DEF Finish
<1>5. ASSUME NEW i \in Ids, Kill(i)
      PROVE  Inv'
  <2>1. State(i) \in TaskStates
    BY <1>5 DEF Kill
  <2>2. Good(KillEffect(i), {i})
    BY <2>1, RegisteredTask, EndedTaskType, ReplaceGood DEF KillEffect
  <2>3. QED BY <1>5, <2>2, CallType, DispatchedInv DEF Kill
<1>6. ASSUME NEW i \in Ids, NEW delay \in BOOLEAN, Reschedule(i, delay)
      PROVE  Inv'
  <2>1. State(i) \in TaskStates
    BY <1>6 DEF Reschedule, CanReschedule
  <2>2. Good(ExhaustEffect(i), {i})
    BY <2>1, RegisteredTask, EndedTaskType, ReplaceGood DEF ExhaustEffect
  <2>3. Good(RetryEffect(i, delay), {i})
    BY <2>1, RegisteredTask, EndedTaskType, ReplaceAndQueueGood DEF RetryEffect
  <2>4. CASE Exhausted(tasks[i])
    BY <1>6, <2>2, <2>4, CallType, DispatchedInv DEF Reschedule
  <2>5. CASE ~ Exhausted(tasks[i])
    BY <1>6, <2>3, <2>5, CallType, DispatchedInv DEF Reschedule
  <2>6. QED BY <2>4, <2>5
<1>7. ASSUME NEW i \in Ids, NEW ck \in Checkpoints, Checkpoint(i, ck)
      PROVE  Inv'
  <2>1. tasks[i] \in Task /\ ck \in OptCheckpoint
    BY <1>7, RegisteredTask DEF Checkpoint, OptCheckpoint
  <2>2. [tasks[i] EXCEPT !.checkpoint = ck].state = State(i)
    BY <2>1 DEF State, Task
  <2>3. Good(CheckpointEffect(i, ck), {i})
    BY <2>1, <2>2, ChangedTaskType, PayloadGood DEF CheckpointEffect
  <2>4. QED BY <1>7, <2>3, HandledInv DEF Checkpoint
<1>8. ASSUME NEW i \in Ids, NEW n \in Infos, Update(i, n)
      PROVE  Inv'
  <2>1. tasks[i] \in Task
    BY <1>8, RegisteredTask DEF Update
  <2>2. [tasks[i] EXCEPT !.info = n] \in Task /\ [tasks[i] EXCEPT !.info = n].state = State(i)
    BY <2>1 DEF State, Task
  <2>3. Good(UpdateEffect(i, n), {i})
    BY <2>2, PayloadGood DEF UpdateEffect
  <2>4. QED BY <1>8, <2>3, HandledInv DEF Update
<1>9. ASSUME NEW S \in SUBSET Ids, NEW img \in [S -> Images], Restore(img)
      PROVE  Inv'
  <2>1. PICK rank \in Rankings(Queued(img)) :
          HandledThenDispatched(RestoreEffect(img, rank), S, {})
    BY <1>9 DEF Restore
  <2>2. Good(RestoreEffect(img, rank), S)
    BY <1>9, RestoreGood DEF Restore
  <2>3. QED BY <2>1, <2>2, DispatchedInv
<1>10. ASSUME NEW n \in SlotCounts, SetSlots(n)
       PROVE  Inv'
  BY <1>10, SlotsGood, DispatchedInv DEF SetSlots
<1>11. ASSUME NEW ready \in SUBSET delayed, Tick(ready)
       PROVE  Inv'
  BY <1>11, TickGood, DispatchedInv DEF Tick
<1>12. QED
  BY <1>1, <1>2, <1>3, <1>4, <1>5, <1>6, <1>7, <1>8, <1>9, <1>10, <1>11 DEF Next

LEMMA InitInv ==
  ASSUME Init
  PROVE  Inv
<1>1. TypeOK
  BY InputAssumption, FS_EmptySet DEF Init, TypeOK, MaybeTask, AtLeast1
<1>2. NoLostTask /\ SnapshotCurrent
  BY DEF Init, NoLostTask, SnapshotCurrent, State, NoTask
<1>3. SlotAccounting
  <2>1. RunningIds = {}
    BY DEF Init, RunningIds, State, NoTask
  <2>2. QED BY <2>1, FS_EmptySet DEF Init, SlotAccounting
<1>4. QED BY <1>1, <1>2, <1>3 DEF Inv

LEMMA StutterInv ==
  ASSUME Inv, UNCHANGED vars
  PROVE  Inv'
BY DEF vars, Inv, TypeOK, NoLostTask, SnapshotCurrent, SlotAccounting, RunningIds, State

\* The invariant holds whatever commands come, in whatever order.
THEOREM Invariance == Spec => []Inv
<1>1. Inv /\ [Next]_vars => Inv'
  BY NextInv, StutterInv
<1>2. QED BY InitInv, <1>1, PTL DEF Spec

\* Every variable keeps its type.
THEOREM TypeCorrect == Spec => []TypeOK
<1>1. Inv => TypeOK
  BY DEF Inv
<1>2. QED BY Invariance, <1>1, PTL

\* Whatever clients and workers send, the slot counter stays the number of
\* running tasks, provided no restore overwrites a running one.
THEOREM SlotsAccounted ==
  ASSUME "RUNNING" \notin RestoreOver
  PROVE  Spec => []SlotAccounting
<1>1. Inv => SlotAccounting
  BY DEF Inv
<1>2. QED BY Invariance, <1>1, PTL

\* No sequence of commands leaves a pending task without a key.
THEOREM NothingLost == Spec => []NoLostTask
<1>1. Inv => NoLostTask
  BY DEF Inv
<1>2. QED BY Invariance, <1>1, PTL

\* Between two handlers a query returns the registry.
THEOREM QueryCurrent == Spec => []SnapshotCurrent
<1>1. Inv => SnapshotCurrent
  BY DEF Inv
<1>2. QED BY Invariance, <1>1, PTL
=============================================================================
