---------------------------- MODULE DispatchProofs ----------------------------
(* Theorems about what dispatch starts, and in which order: that it fills  *)
(* the free slots and no more, with the best tasks, and what survives in a  *)
(* task that is paused, retried, started or killed on the way.             *)
EXTENDS SchedulerProofs

-----------------------------------------------------------------------------
(* The invariant, stated of an actor's state e.                            *)

\* Keys have orders of their own, all of them given out before.
Keyed(e) ==
  /\ \A j, k \in e.queue \cup e.delayed : j.order = k.order => j = k
  /\ \A k \in e.queue \cup e.delayed : k.order < e.order

\* A restore over a running task leaves the counter too high, nothing makes it
\* too low.
Within(e) == Cardinality(RunningIn(e)) <= e.running

\* A key carries the priority of its task: no handler but a restore changes it.
TrueKeys(e) ==
  \A k \in e.queue \cup e.delayed : /\ e.tasks[k.id] \in Task
                                    /\ k.priority = e.tasks[k.id].priority

Capped(t) == t.max_attempts > 0 /\ t.attempts > t.max_attempts => t.state = "KILLED"

CappedTasks(e) == \A i \in Ids : e.tasks[i] \in Task => Capped(e.tasks[i])

\* A restore adds tasks and overwrites none.
OnlyAdds == RestoreOver \subseteq {"NONE"}

\* The images come from a kernel that counts attempts as this one does.
CappedImages == \A t \in Images : Capped(t)

Regular(e) == /\ Keyed(e)
              /\ Within(e)
              /\ OnlyAdds => TrueKeys(e)
              /\ CappedImages => CappedTasks(e)

DispatchInv == Inv /\ Regular(Current) /\ WorkConserving

-----------------------------------------------------------------------------
(* What dispatch pops and starts.                                          *)

\* The keys dispatch would start a task from before it comes to k.
Ahead(e, k) == {j \in Fresh(e) : Before(j, k)}

Room(e) == e.slots - e.running

\* The keys dispatch starts a task from.
Firsts(e) == Popped(e) \cap Fresh(e)

LEMMA QueueTypes ==
  ASSUME NEW e, Sound(e)
  PROVE  /\ e.queue \in SUBSET HeapKey /\ IsFiniteSet(e.queue)
         /\ Fresh(e) \subseteq e.queue /\ IsFiniteSet(Fresh(e))
         /\ Popped(e) \subseteq e.queue
         /\ Firsts(e) \in SUBSET HeapKey /\ IsFiniteSet(Firsts(e))
         /\ Room(e) \in Int
<1>1. e.queue \in SUBSET HeapKey /\ IsFiniteSet(e.queue) /\ Room(e) \in Int
  BY DEF Sound, ActorStates, Room
<1>2. Fresh(e) \subseteq e.queue /\ Popped(e) \subseteq e.queue
  BY DEF Fresh, Popped
<1>3. Firsts(e) \subseteq e.queue
  BY <1>2 DEF Firsts
<1>4. QED BY <1>1, <1>2, <1>3, FS_Subset

LEMMA AheadCount ==
  ASSUME NEW e, Sound(e), NEW k
  PROVE  IsFiniteSet(Ahead(e, k)) /\ Cardinality(Ahead(e, k)) \in Nat
<1>1. Ahead(e, k) \subseteq Fresh(e)
  BY DEF Ahead
<1>2. QED BY <1>1, QueueTypes, FS_Subset, FS_CardinalityType

LEMMA PoppedAhead ==
  ASSUME NEW e, NEW k
  PROVE  k \in Popped(e) <=> k \in e.queue /\ Cardinality(Ahead(e, k)) < Room(e)
BY DEF Popped, Ahead, Room

\* A key that is popped is before any that stays queued.
LEMMA PoppedFirst ==
  ASSUME NEW e, Sound(e), NEW f \in Popped(e), NEW k \in e.queue \ Popped(e)
  PROVE  Before(f, k)
<1> SUFFICES ASSUME ~ Before(f, k)
             PROVE  FALSE
  OBVIOUS
<1>1. f \in HeapKey /\ k \in HeapKey /\ Fresh(e) \subseteq HeapKey
  BY QueueTypes
<1>2. Ahead(e, k) \subseteq Ahead(e, f)
  BY <1>1 DEF Ahead, Before, HeapKey
<1>3. /\ Cardinality(Ahead(e, k)) <= Cardinality(Ahead(e, f))
      /\ Cardinality(Ahead(e, k)) \in Nat
      /\ Cardinality(Ahead(e, f)) \in Nat
  BY <1>2, AheadCount, FS_Subset
<1>4. Cardinality(Ahead(e, f)) < Room(e) /\ ~ (Cardinality(Ahead(e, k)) < Room(e))
  BY PoppedAhead
<1>5. QED BY <1>3, <1>4, QueueTypes

\* A task is started from one key: two best keys of a task would be the same.
LEMMA FirstsAreTasks ==
  ASSUME NEW e, Sound(e)
  PROVE  /\ IsFiniteSet(Started(e))
         /\ Cardinality(Started(e)) \in Nat
         /\ Cardinality(Firsts(e)) \in Nat
         /\ Cardinality(Started(e)) = Cardinality(Firsts(e))
<1> DEFINE F == Firsts(e)
           S == Started(e)
           id == [k \in F |-> k.id]
<1>1. IsFiniteSet(F) /\ IsFiniteSet(S)
  BY QueueTypes, StartedPending
<1>2. id \in Surjection(F, S)
  BY DEF Surjection, Firsts, Started
<1>3. ASSUME NEW j \in F, NEW k \in F, j.id = k.id
      PROVE  j = k
  <2>1. j \in HeapKey /\ k \in HeapKey /\ j \in e.queue /\ k \in e.queue
    BY QueueTypes DEF Firsts
  <2>2. ~ Before(j, k) /\ ~ Before(k, j)
    BY <1>3, <2>1 DEF Firsts, Fresh
  <2>3. j.priority = k.priority /\ j.order = k.order
    BY <2>1, <2>2 DEF Before, HeapKey
  <2>4. QED BY <1>3, <2>1, <2>3 DEF HeapKey
<1>4. id \in Injection(F, S)
  BY <1>2, <1>3 DEF Injection, IsInjective, Surjection
<1> HIDE DEF F, S, id
<1>5. ExistsBijection(F, S)
  BY <1>2, <1>4 DEF ExistsBijection, Bijection
<1>6. Cardinality(F) = Cardinality(S)
  BY <1>1, <1>5, FS_Bijection
<1>7. QED BY <1>1, <1>6, FS_CardinalityType DEF F, S

\* A key that stays queued has enough started tasks ahead of it.
LEMMA StartedEnough ==
  ASSUME NEW e, Sound(e), e.queue \ Popped(e) # {}
  PROVE  Room(e) <= Cardinality(Started(e))
<1>1. PICK x \in e.queue \ Popped(e) : \A j \in e.queue \ Popped(e) : ~ Before(j, x)
  <2>1. e.queue \ Popped(e) \in SUBSET HeapKey /\ IsFiniteSet(e.queue \ Popped(e))
    BY QueueTypes, FS_Subset
  <2>2. QED BY <2>1, FirstKey
<1>2. Ahead(e, x) \subseteq Firsts(e)
  BY <1>1, QueueTypes DEF Ahead, Firsts
<1>3. Cardinality(Ahead(e, x)) <= Cardinality(Firsts(e))
  BY <1>2, QueueTypes, FS_Subset
<1>4. ~ (Cardinality(Ahead(e, x)) < Room(e))
  BY <1>1, PoppedAhead
<1>5. QED BY <1>3, <1>4, AheadCount, FirstsAreTasks, QueueTypes

\* Mirror of FirstKey.
LEMMA LastKey ==
  ASSUME NEW K \in SUBSET HeapKey, IsFiniteSet(K), K # {}
  PROVE  \E k \in K : \A j \in K : ~ Before(k, j)
<1> DEFINE Behind(k) == {j \in K : Before(k, j)}
           N == {Cardinality(Behind(k)) : k \in K}
<1>1. \A k \in K : IsFiniteSet(Behind(k)) /\ Cardinality(Behind(k)) \in Nat
  BY FS_Subset, FS_CardinalityType
<1>2. N \subseteq Nat /\ N # {}
  BY <1>1
<1>3. PICK m \in N : \A n \in N : m <= n
  BY <1>2, LeastNatural
<1>4. PICK k \in K : m = Cardinality(Behind(k))
  BY <1>3
<1>5. ASSUME NEW j \in K, Before(k, j)
      PROVE  FALSE
  <2>1. Behind(j) \subseteq Behind(k)
    BY <1>5, BeforeTransitive
  <2>2. j \in Behind(k) /\ j \notin Behind(j)
    BY <1>5, BeforeIrreflexive
  <2>3. Cardinality(Behind(j)) <= Cardinality(Behind(k)) /\ Behind(j) # Behind(k)
    BY <1>1, <2>1, <2>2, FS_Subset
  <2>4. Cardinality(Behind(j)) # Cardinality(Behind(k))
    BY <1>1, <2>1, <2>3, FS_Subset
  <2>5. Cardinality(Behind(k)) <= Cardinality(Behind(j))
    BY <1>3, <1>4
  <2>6. Cardinality(Behind(j)) \in Nat /\ Cardinality(Behind(k)) \in Nat
    BY <1>1
  <2> HIDE DEF Behind
  <2>7. QED BY <2>3, <2>4, <2>5, <2>6
<1>6. QED BY <1>5

\* The keys of the other tasks started are all ahead of the last one.
LEMMA StartedFits ==
  ASSUME NEW e, Sound(e), Keyed(e), Started(e) # {}
  PROVE  Cardinality(Started(e)) <= Room(e)
<1> DEFINE F == Firsts(e)
<1>1. F # {} /\ F \in SUBSET HeapKey /\ IsFiniteSet(F)
  BY QueueTypes DEF Firsts, Started
<1>2. PICK x \in F : \A j \in F : ~ Before(x, j)
  BY <1>1, LastKey
<1>3. F \ {x} \subseteq Ahead(e, x)
  <2>1. \A j \in F : j.order = x.order => j = x
    BY QueueTypes DEF Keyed, Firsts
  <2>2. ASSUME NEW j \in F, j # x PROVE Before(j, x)
    <3>1. j.order # x.order /\ ~ Before(x, j)
      BY <1>2, <2>1, <2>2
    <3>2. QED BY <1>1, <3>1 DEF Before, HeapKey
  <2>3. QED BY <2>2 DEF Ahead, Firsts
<1>4. Cardinality(F \ {x}) = Cardinality(F) - 1
  BY <1>1, <1>2, FS_RemoveElement
<1>5. Cardinality(F \ {x}) <= Cardinality(Ahead(e, x)) /\ Cardinality(F \ {x}) \in Nat
  BY <1>3, AheadCount, FS_Subset, FS_CardinalityType
<1>6. Cardinality(Ahead(e, x)) < Room(e)
  BY <1>2, PoppedAhead DEF Firsts
<1>7. QED
  BY <1>4, <1>5, <1>6, AheadCount, FirstsAreTasks, QueueTypes

-----------------------------------------------------------------------------
(* What dispatch keeps.                                                    *)

LEMMA DispatchedFields ==
  ASSUME NEW e, Sound(e)
  PROVE  /\ Dispatched(e).queue = e.queue \ Popped(e)
         /\ Dispatched(e).delayed = e.delayed
         /\ Dispatched(e).slots = e.slots
         /\ Dispatched(e).running = e.running + Cardinality(Started(e))
         /\ Dispatched(e).order = e.order
BY DEF Dispatched, Sound, ActorStates

LEMMA DispatchedRunning ==
  ASSUME NEW e, Sound(e)
  PROVE  /\ RunningIn(Dispatched(e)) = RunningIn(e) \cup Started(e)
         /\ Cardinality(RunningIn(e)) \in Nat
         /\ Cardinality(RunningIn(Dispatched(e))) =
              Cardinality(RunningIn(e)) + Cardinality(Started(e))
<1>1. RunningIn(Dispatched(e)) = RunningIn(e) \cup Started(e)
  BY StartedPending, DispatchedTasks DEF RunningIn
<1>2. RunningIn(e) \cap Started(e) = {}
  BY StartedPending DEF RunningIn
<1>3. IsFiniteSet(RunningIn(e)) /\ IsFiniteSet(Started(e))
  BY IdsAssumption, FS_Subset, StartedPending DEF RunningIn
<1>4. /\ Cardinality(RunningIn(e)) \in Nat
      /\ Cardinality(Started(e)) \in Nat
      /\ Cardinality(RunningIn(e) \cap Started(e)) = 0
  BY <1>2, <1>3, FS_CardinalityType, FS_EmptySet
<1>5. Cardinality(RunningIn(e) \cup Started(e)) =
        Cardinality(RunningIn(e)) + Cardinality(Started(e)) - 0
  BY <1>3, <1>4, FS_Union
<1>6. QED BY <1>1, <1>4, <1>5

\* What Run leaves alone, and that a first attempt is within every cap.
LEMMA RunKeeps ==
  ASSUME NEW t \in Task
  PROVE  /\ Run(t) \in Task
         /\ Run(t).priority = t.priority
         /\ Run(t).checkpoint = t.checkpoint
         /\ t.state = "PENDING" /\ Capped(t) => Capped(Run(t))
<1>1. Run(t) \in Task /\ Run(t).priority = t.priority /\ Run(t).checkpoint = t.checkpoint
  BY RunTask DEF Run, Task
<1>2. Run(t).max_attempts = t.max_attempts /\ Run(t).attempts = AtLeast1(t.attempts)
  BY DEF Run, Task
<1>3. t.state = "PENDING" /\ Capped(t) => Capped(Run(t))
  BY <1>2 DEF Capped, AtLeast1, Task
<1>4. QED BY <1>1, <1>3

LEMMA StartedTask ==
  ASSUME NEW e, Sound(e), NEW i \in Started(e)
  PROVE  i \in Ids /\ e.tasks[i] \in Task /\ e.tasks[i].state = "PENDING"
BY StartedPending, RegisteredIsTask DEF Sound, ActorStates, TaskStates

LEMMA DispatchedRegular ==
  ASSUME NEW e, Sound(e), Regular(e)
  PROVE  Regular(Dispatched(e))
<1> DEFINE d == Dispatched(e)
<1>1. d.queue \cup d.delayed \subseteq e.queue \cup e.delayed /\ d.order = e.order
  BY DispatchedFields
<1>2. Keyed(d)
  BY <1>1 DEF Keyed, Regular
<1>3. Within(d)
  BY DispatchedRunning, DispatchedFields, FirstsAreTasks
     DEF Within, Regular, Sound, ActorStates
<1>4. ASSUME OnlyAdds PROVE TrueKeys(d)
  <2> SUFFICES ASSUME NEW k \in e.queue \cup e.delayed
               PROVE  d.tasks[k.id] \in Task /\ k.priority = d.tasks[k.id].priority
    BY <1>1 DEF TrueKeys
  <2>1. k.id \in Ids /\ e.tasks[k.id] \in Task /\ k.priority = e.tasks[k.id].priority
    BY <1>4 DEF Regular, TrueKeys, Sound, ActorStates, HeapKey
  <2>2. QED BY <2>1, DispatchedTasks, RunKeeps
<1>5. ASSUME CappedImages PROVE CappedTasks(d)
  <2> SUFFICES ASSUME NEW i \in Ids, d.tasks[i] \in Task
               PROVE  Capped(d.tasks[i])
    BY DEF CappedTasks
  <2>1. CASE i \in Started(e)
    <3>1. e.tasks[i] \in Task /\ e.tasks[i].state = "PENDING" /\ Capped(e.tasks[i])
      BY <1>5, <2>1, StartedTask DEF Regular, CappedTasks
    <3>2. QED BY <2>1, <3>1, DispatchedTasks, RunKeeps
  <2>2. CASE i \notin Started(e)
    BY <1>5, <2>2, DispatchedTasks DEF Regular, CappedTasks
  <2>3. QED BY <2>1, <2>2
<1>6. QED BY <1>2, <1>3, <1>4, <1>5 DEF Regular

-----------------------------------------------------------------------------
(* What a handler makes of its task.                                       *)

\* t may take the place of old.
Succeeds(t, old) ==
  /\ t \in Task
  /\ t.state = "RUNNING" => old.state = "RUNNING"
  /\ old.state # "NONE" => /\ t.priority = old.priority
                           /\ old.checkpoint # NoCheckpoint => t.checkpoint # NoCheckpoint
                           /\ Capped(old) => Capped(t)
  /\ old.state = "NONE" => Capped(t)

LEMMA NewSucceeds ==
  ASSUME NEW old, old.state = "NONE",
         NEW p \in Priorities, NEW m \in RetryCaps, NEW n \in Infos
  PROVE  Succeeds(NewTask(p, m, n), old)
<1>1. NewTask(p, m, n) \in Task /\ NewTask(p, m, n).state = "PENDING"
  BY NewTaskType
<1>2. Capped(NewTask(p, m, n))
  BY InputAssumption DEF Capped, NewTask
<1>3. QED BY <1>1, <1>2 DEF Succeeds

LEMMA ChangedSucceeds ==
  ASSUME NEW t \in Task, t.state \notin Terminal, NEW ck \in OptCheckpoint
  PROVE  /\ Succeeds(Paused(t, ck), t)
         /\ Succeeds(Resumed(t, ck), t)
         /\ Succeeds(Finished(t, ck), t)
         /\ Succeeds(Killed(t), t)
<1>1. /\ Paused(t, ck) \in Task /\ Paused(t, ck).state = "PAUSED"
      /\ Resumed(t, ck) \in Task /\ Resumed(t, ck).state = "PENDING"
      /\ Finished(t, ck) \in Task /\ Finished(t, ck).state = "FINISHED"
      /\ Killed(t) \in Task /\ Killed(t).state = "KILLED"
  BY ChangedTaskType, EndedTaskType
<1>2. OrKeep(ck, t.checkpoint) = NoCheckpoint => t.checkpoint = NoCheckpoint
  BY DEF OrKeep
<1>3. \A u \in {Paused(t, ck), Resumed(t, ck), Finished(t, ck), Killed(t)} :
        /\ u.priority = t.priority
        /\ u.attempts = t.attempts /\ u.max_attempts = t.max_attempts
        /\ t.checkpoint # NoCheckpoint => u.checkpoint # NoCheckpoint
  BY <1>2 DEF Paused, Resumed, Finished, Killed, Task
<1>4. t.state # "NONE" /\ t.state # "KILLED"
  BY DEF Task, TaskStates, Terminal
<1>5. QED BY <1>1, <1>3, <1>4 DEF Succeeds, Capped

\* A reschedule may find its task in any state.
LEMMA RescheduledSucceeds ==
  ASSUME NEW t \in Task
  PROVE  /\ Succeeds(GivenUp(t), t)
         /\ ~ Exhausted(t) => Succeeds(Retried(t), t)
<1>1. /\ GivenUp(t) \in Task /\ GivenUp(t).state = "KILLED"
      /\ Retried(t) \in Task /\ Retried(t).state = "PENDING"
  BY EndedTaskType
<1>2. /\ GivenUp(t).priority = t.priority /\ GivenUp(t).checkpoint = t.checkpoint
      /\ Retried(t).priority = t.priority /\ Retried(t).checkpoint = t.checkpoint
      /\ Retried(t).attempts = t.attempts + 1
      /\ Retried(t).max_attempts = t.max_attempts
  BY DEF GivenUp, Retried, Task
<1>3. t.state # "NONE" /\ t.attempts \in Nat /\ t.max_attempts \in Nat
  BY DEF Task, TaskStates
<1>4. QED BY <1>1, <1>2, <1>3 DEF Succeeds, Capped, Exhausted

LEMMA PayloadSucceeds ==
  ASSUME NEW t \in Task
  PROVE  /\ \A c \in Checkpoints : Succeeds([t EXCEPT !.checkpoint = c], t)
         /\ \A n \in Infos : Succeeds([t EXCEPT !.info = n], t)
BY CheckpointAssumption DEF Succeeds, Capped, Task, TaskStates, OptCheckpoint

-----------------------------------------------------------------------------
(* What the effect of a handler keeps, and what it adds to.                *)

CheckpointsKept(e) ==
  \A i \in Ids : State(i) \in TaskStates /\ tasks[i].checkpoint # NoCheckpoint
                   => e.tasks[i].checkpoint # NoCheckpoint

\* The keys a handler adds come after all that were there.
NewKeysLast(e) ==
  \A k \in e.queue \cup e.delayed : k.order < order => k \in queue \cup delayed

OldKeysTrue(e) ==
  \A k \in queue \cup delayed : /\ e.tasks[k.id] \in Task
                                /\ k.priority = e.tasks[k.id].priority

Follows(e) == /\ RunningIn(e) \subseteq RunningIds
              /\ NewKeysLast(e)
              /\ OnlyAdds => CheckpointsKept(e)

\* The registry when task i has become t.
LEMMA ChangedTasks ==
  ASSUME DispatchInv, NEW i \in Ids, NEW t, Succeeds(t, tasks[i]),
         NEW e, e.tasks = [tasks EXCEPT ![i] = t]
  PROVE  /\ RunningIn(e) \subseteq RunningIds
         /\ CappedImages => CappedTasks(e)
         /\ OnlyAdds => CheckpointsKept(e)
         /\ OnlyAdds => OldKeysTrue(e)
<1>1. /\ tasks \in [Ids -> MaybeTask]
      /\ \A j \in Ids : e.tasks[j] = IF j = i THEN t ELSE tasks[j]
  BY DEF DispatchInv, Inv, TypeOK
<1>2. tasks[i].state # "NONE" => tasks[i] \in Task
  BY <1>1 DEF MaybeTask, NoTask
<1>3. RunningIn(e) \subseteq RunningIds
  BY <1>1 DEF RunningIn, RunningIds, State, Succeeds
<1>4. CappedImages => CappedTasks(e)
  BY <1>1, <1>2 DEF DispatchInv, Regular, CappedTasks, Current, Succeeds
<1>5. CheckpointsKept(e)
  BY <1>1 DEF CheckpointsKept, State, Succeeds, TaskStates
<1>6. ASSUME OnlyAdds, NEW k \in queue \cup delayed
      PROVE  e.tasks[k.id] \in Task /\ k.priority = e.tasks[k.id].priority
  <2>1. tasks[k.id] \in Task /\ k.priority = tasks[k.id].priority
    BY <1>6 DEF DispatchInv, Regular, TrueKeys, Current
  <2>2. k.id \in Ids
    BY DEF DispatchInv, Inv, TypeOK, HeapKey
  <2>3. tasks[k.id].state # "NONE"
    BY <2>1 DEF Task, TaskStates
  <2>4. QED BY <1>1, <2>1, <2>2, <2>3 DEF Succeeds
<1>7. QED BY <1>3, <1>4, <1>5, <1>6 DEF OldKeysTrue

\* The counter stays high enough: a task that leaves RUNNING was counted.
LEMMA ReplaceWithin ==
  ASSUME DispatchInv, NEW i \in Ids, NEW t, t.state # "RUNNING"
  PROVE  Within(Replace(i, t))
<1>1. /\ Replace(i, t).tasks = [tasks EXCEPT ![i] = t]
      /\ Replace(i, t).running = Released(i)
  BY DEF Replace, Current
<1>2. RunningIn(Replace(i, t)) = RunningIds \ {i}
  BY <1>1 DEF RunningIn, RunningIds, State, DispatchInv, Inv, TypeOK
<1>3. IsFiniteSet(RunningIds) /\ Cardinality(RunningIds) \in Nat
  BY IdsAssumption, FS_Subset, FS_CardinalityType DEF RunningIds
<1>4. Cardinality(RunningIds) <= running /\ running \in Nat
  BY DEF DispatchInv, Inv, TypeOK, Regular, Within, Current, RunningIn, RunningIds, State
<1>5. Cardinality(RunningIds \ {i}) =
        IF i \in RunningIds THEN Cardinality(RunningIds) - 1 ELSE Cardinality(RunningIds)
  BY <1>3, FS_RemoveElement
<1>6. i \in RunningIds => Cardinality(RunningIds) # 0
  BY <1>3, FS_EmptySet
<1>7. i \in RunningIds <=> State(i) = "RUNNING"
  BY DEF RunningIds
<1>8. QED
  BY <1>1, <1>2, <1>3, <1>4, <1>5, <1>6, <1>7 DEF Within, Released, Dec

LEMMA CurrentKeyed ==
  ASSUME DispatchInv
  PROVE  /\ order \in Nat
         /\ \A j, k \in queue \cup delayed : j.order = k.order => j = k
         /\ \A k \in queue \cup delayed : k.order \in Nat /\ k.order < order
<1>1. /\ order \in Nat
      /\ queue \cup delayed \subseteq HeapKey
  BY DEF DispatchInv, Inv, TypeOK
<1>2. Keyed([queue |-> queue, delayed |-> delayed, order |-> order])
  BY DEF DispatchInv, Regular, Keyed, Current
<1>3. QED BY <1>1, <1>2 DEF Keyed, HeapKey

LEMMA ReplaceRegular ==
  ASSUME DispatchInv, NEW i \in Ids, NEW t, t.state # "RUNNING", Succeeds(t, tasks[i])
  PROVE  Regular(Replace(i, t)) /\ Follows(Replace(i, t))
<1> DEFINE e == Replace(i, t)
<1>1. /\ e.tasks = [tasks EXCEPT ![i] = t]
      /\ e.queue = queue /\ e.delayed = delayed /\ e.order = order
  BY DEF Replace, Current
<1>2. Within(e)
  BY ReplaceWithin
<1> HIDE DEF e
<1>3. Keyed(e) /\ NewKeysLast(e)
  BY <1>1, CurrentKeyed DEF Keyed, NewKeysLast
<1>4. OnlyAdds => TrueKeys(e)
  <2>1. OnlyAdds => OldKeysTrue(e)
    BY <1>1, ChangedTasks
  <2>2. QED BY <1>1, <2>1 DEF TrueKeys, OldKeysTrue
<1>5. QED BY <1>1, <1>2, <1>3, <1>4, ChangedTasks DEF Regular, Follows, e

LEMMA ReplaceAndQueueRegular ==
  ASSUME DispatchInv, NEW i \in Ids, NEW t, t.state # "RUNNING", Succeeds(t, tasks[i]),
         NEW parked \in BOOLEAN
  PROVE  /\ Regular(ReplaceAndQueue(i, t, parked))
         /\ Follows(ReplaceAndQueue(i, t, parked))
<1> DEFINE e == ReplaceAndQueue(i, t, parked)
           key == Key(i, t.priority, order)
<1>1. /\ e.tasks = [tasks EXCEPT ![i] = t]
      /\ e.queue \cup e.delayed = (queue \cup delayed) \cup {key}
      /\ e.order = order + 1
      /\ e.running = Replace(i, t).running
  BY DEF ReplaceAndQueue, Replace, Current
<1>2. key.id = i /\ key.priority = t.priority /\ key.order = order
  BY DEF Key
<1> HIDE DEF e, key
<1>3. Within(e)
  <2>1. Replace(i, t).tasks = [tasks EXCEPT ![i] = t]
    BY DEF Replace, Current
  <2>2. RunningIn(e) = RunningIn(Replace(i, t))
    BY <1>1, <2>1 DEF RunningIn
  <2>3. QED BY <1>1, <2>2, ReplaceWithin DEF Within
<1>4. Keyed(e) /\ NewKeysLast(e)
  BY <1>1, <1>2, CurrentKeyed DEF Keyed, NewKeysLast
<1>5. OnlyAdds => TrueKeys(e)
  <2>1. e.tasks[i] = t /\ t \in Task
    BY <1>1 DEF DispatchInv, Inv, TypeOK, Succeeds
  <2>2. OnlyAdds => OldKeysTrue(e)
    BY <1>1, ChangedTasks
  <2>3. QED BY <1>1, <1>2, <2>1, <2>2 DEF TrueKeys, OldKeysTrue
<1>6. QED BY <1>1, <1>3, <1>4, <1>5, ChangedTasks DEF Regular, Follows, e

LEMMA PayloadRegular ==
  ASSUME DispatchInv, NEW i \in Ids, NEW t, Succeeds(t, tasks[i])
  PROVE  /\ Regular([Current EXCEPT !.tasks[i] = t])
         /\ Follows([Current EXCEPT !.tasks[i] = t])
<1> DEFINE e == [Current EXCEPT !.tasks[i] = t]
<1>1. /\ e.tasks = [tasks EXCEPT ![i] = t] /\ e.running = running
      /\ e.queue = queue /\ e.delayed = delayed /\ e.order = order
  BY DEF Current
<1> HIDE DEF e
<1>2. RunningIn(e) \subseteq RunningIds
  BY <1>1, ChangedTasks
<1>3. Within(e)
  <2>1. IsFiniteSet(RunningIds)
    BY IdsAssumption, FS_Subset DEF RunningIds
  <2>2. /\ Cardinality(RunningIn(e)) <= Cardinality(RunningIds)
        /\ Cardinality(RunningIn(e)) \in Nat
        /\ Cardinality(RunningIds) \in Nat
    BY <1>2, <2>1, FS_Subset, FS_CardinalityType
  <2>3. Cardinality(RunningIds) <= running /\ running \in Nat
    BY DEF DispatchInv, Inv, TypeOK, Regular, Within, Current, RunningIn, RunningIds, State
  <2>4. QED BY <1>1, <2>2, <2>3 DEF Within
<1>4. Keyed(e) /\ NewKeysLast(e)
  BY <1>1, CurrentKeyed DEF Keyed, NewKeysLast
<1>5. OnlyAdds => TrueKeys(e)
  <2>1. OnlyAdds => OldKeysTrue(e)
    BY <1>1, ChangedTasks
  <2>2. QED BY <1>1, <2>1 DEF TrueKeys, OldKeysTrue
<1>6. QED BY <1>1, <1>3, <1>4, <1>5, ChangedTasks DEF Regular, Follows, e

\* set_slots and the timer: the registry stays as it is.
LEMMA SameTasksRegular ==
  ASSUME DispatchInv, NEW e, e.tasks = tasks, e.running = running, e.order = order,
         e.queue \cup e.delayed = queue \cup delayed
  PROVE  Regular(e) /\ Follows(e)
<1>1. RunningIn(e) = RunningIds /\ RunningIn(Current) = RunningIds
  BY DEF RunningIn, RunningIds, State, Current
<1>2. Within(e)
  BY <1>1 DEF DispatchInv, Regular, Within, Current
<1>3. Keyed(e) /\ NewKeysLast(e)
  BY CurrentKeyed DEF Keyed, NewKeysLast
<1>4. /\ OnlyAdds => TrueKeys(e)
      /\ CappedImages => CappedTasks(e)
  BY DEF DispatchInv, Regular, TrueKeys, CappedTasks, Current
<1>5. CheckpointsKept(e)
  BY DEF CheckpointsKept
<1>6. QED BY <1>1, <1>2, <1>3, <1>4, <1>5 DEF Regular, Follows

LEMMA RestoredTask ==
  ASSUME NEW t \in Task
  PROVE  /\ Restored(t) \in Task
         /\ Restored(t).state # "RUNNING"
         /\ Restored(t).priority = t.priority
         /\ Capped(t) => Capped(Restored(t))
<1>1. CASE t.state \in Terminal
  BY <1>1 DEF Restored, Terminal
<1>2. CASE t.state \notin Terminal
  <2> DEFINE interrupted == t.state \in {"RUNNING", "PAUSED"}
  <2>1. \A r \in BOOLEAN :
          LET u == [t EXCEPT !.state = "PENDING", !.resume = r]
          IN  /\ u \in Task /\ u.state = "PENDING" /\ u.priority = t.priority
              /\ u.attempts = t.attempts /\ u.max_attempts = t.max_attempts
    BY DEF Task, TaskStates
  <2>2. Restored(t) = [t EXCEPT !.state = "PENDING", !.resume = interrupted]
    BY <1>2 DEF Restored
  <2>3. interrupted \in BOOLEAN /\ t.state # "KILLED"
    BY <1>2 DEF Terminal
  <2> HIDE DEF interrupted
  <2>4. QED BY <2>1, <2>2, <2>3 DEF Capped
<1>3. QED BY <1>1, <1>2

LEMMA RestoreRegular ==
  ASSUME DispatchInv, NEW S \in SUBSET Ids, NEW img \in [S -> Images],
         \A i \in S : State(i) \in RestoreOver,
         NEW rank \in Rankings(Queued(img))
  PROVE  Regular(RestoreEffect(img, rank)) /\ Follows(RestoreEffect(img, rank))
<1> DEFINE e == RestoreEffect(img, rank)
           W == Queued(img)
           key(i) == Key(i, img[i].priority, order + rank[i])
           K == {key(i) : i \in W}
<1>1. W \subseteq S /\ Cardinality(W) \in Nat
  <2>1. W \subseteq S /\ W \in SUBSET Ids
    BY DEF Queued
  <2>2. QED BY <2>1, IdsAssumption, FS_Subset, FS_CardinalityType
<1>2. \A i \in S : img[i] \in Images /\ img[i] \in Task
  BY InputAssumption
<1>3. /\ \A i \in W : rank[i] \in 0 .. Cardinality(W) - 1
      /\ \A i, j \in W : rank[i] = rank[j] => i = j
  BY DEF Rankings
<1>4. /\ e.queue \cup e.delayed = (queue \cup delayed) \cup K
      /\ e.order = order + Cardinality(W)
      /\ e.running = running
      /\ e.tasks = [i \in Ids |-> IF i \in S THEN Restored(img[i]) ELSE tasks[i]]
  BY DEF RestoreEffect, Current
<1>5. \A i \in W : /\ key(i).id = i /\ key(i).priority = img[i].priority
                   /\ key(i).order = order + rank[i]
  BY DEF Key
<1>6. \A k \in K : \E i \in W : k = key(i)
  OBVIOUS
<1> HIDE DEF e, W, key, K
<1>7. tasks \in [Ids -> MaybeTask] /\ queue \cup delayed \subseteq HeapKey
  BY DEF DispatchInv, Inv, TypeOK
<1>8. Keyed(e) /\ NewKeysLast(e)
  <2>1. \A k \in K : /\ k.order \in Nat
                     /\ order <= k.order /\ k.order < order + Cardinality(W)
    BY <1>1, <1>3, <1>5, <1>6, CurrentKeyed
  <2>2. ASSUME NEW j \in K, NEW k \in K, j.order = k.order
        PROVE  j = k
    <3>1. PICK x \in W : j = key(x)
      BY <1>6
    <3>2. PICK y \in W : k = key(y)
      BY <1>6
    <3>3. rank[x] \in Int /\ rank[y] \in Int /\ order + rank[x] = order + rank[y]
      BY <1>1, <1>3, <1>5, <2>2, <3>1, <3>2
    <3>4. rank[x] = rank[y]
      BY <3>3, CurrentKeyed
    <3>5. QED BY <1>3, <3>1, <3>2, <3>4
  <2>3. \A k \in queue \cup delayed :
          k.order \in Nat /\ k.order < order /\ k.order < order + Cardinality(W)
    BY <1>1, CurrentKeyed
  <2>4. \A j \in queue \cup delayed, k \in K : j.order # k.order
    BY <2>1, <2>3, CurrentKeyed
  <2>5. \A j, k \in e.queue \cup e.delayed : j.order = k.order => j = k
    BY <1>4, <2>2, <2>4, CurrentKeyed
  <2>6. \A k \in e.queue \cup e.delayed : k.order < e.order
    BY <1>4, <2>1, <2>3
  <2>7. NewKeysLast(e)
    BY <1>4, <2>1, CurrentKeyed DEF NewKeysLast
  <2>8. QED BY <2>5, <2>6, <2>7 DEF Keyed
<1>9. RunningIn(e) \subseteq RunningIds
  BY <1>2, <1>4, RestoredTask DEF RunningIn, RunningIds, State
<1>10. Within(e)
  <2>1. IsFiniteSet(RunningIds)
    BY IdsAssumption, FS_Subset DEF RunningIds
  <2>2. /\ Cardinality(RunningIn(e)) <= Cardinality(RunningIds)
        /\ Cardinality(RunningIn(e)) \in Nat
        /\ Cardinality(RunningIds) \in Nat
    BY <1>9, <2>1, FS_Subset, FS_CardinalityType
  <2>3. Cardinality(RunningIds) <= running /\ running \in Nat
    BY DEF DispatchInv, Inv, TypeOK, Regular, Within, Current, RunningIn, RunningIds, State
  <2>4. QED BY <1>4, <2>2, <2>3 DEF Within
<1>11. ASSUME OnlyAdds PROVE TrueKeys(e) /\ CheckpointsKept(e)
  <2>1. \A i \in S : tasks[i].state = "NONE"
    BY <1>11 DEF OnlyAdds, State
  <2>2. ASSUME NEW k \in queue \cup delayed
        PROVE  e.tasks[k.id] \in Task /\ k.priority = e.tasks[k.id].priority
    <3>1. tasks[k.id] \in Task /\ k.priority = tasks[k.id].priority /\ k.id \in Ids
      BY <1>7, <1>11 DEF DispatchInv, Regular, TrueKeys, Current, HeapKey
    <3>2. k.id \notin S
      BY <2>1, <3>1 DEF Task, TaskStates
    <3>3. QED BY <1>4, <3>1, <3>2
  <2>3. ASSUME NEW k \in K
        PROVE  e.tasks[k.id] \in Task /\ k.priority = e.tasks[k.id].priority
    <3>1. PICK i \in W : k = key(i)
      BY <1>6
    <3>2. i \in S /\ i \in Ids /\ e.tasks[i] = Restored(img[i])
      BY <1>1, <1>4
    <3>3. QED BY <1>2, <1>5, <3>1, <3>2, RestoredTask
  <2>4. CheckpointsKept(e)
    BY <1>4, <2>1 DEF CheckpointsKept, State, TaskStates
  <2>5. QED BY <1>4, <2>2, <2>3, <2>4 DEF TrueKeys
<1>12. ASSUME CappedImages PROVE CappedTasks(e)
  <2> SUFFICES ASSUME NEW i \in Ids, e.tasks[i] \in Task
               PROVE  Capped(e.tasks[i])
    BY DEF CappedTasks
  <2>1. CASE i \in S
    <3>1. e.tasks[i] = Restored(img[i])
      BY <1>4, <2>1
    <3>2. QED BY <1>2, <1>12, <2>1, <3>1, RestoredTask DEF CappedImages
  <2>2. CASE i \notin S
    BY <1>4, <1>12, <2>2 DEF DispatchInv, Regular, CappedTasks, Current
  <2>3. QED BY <2>1, <2>2
<1>13. QED
  BY <1>8, <1>9, <1>10, <1>11, <1>12 DEF Regular, Follows, e

-----------------------------------------------------------------------------
(* Every step is a handler that takes the actor to some e and returns, with *)
(* queue and counters as they were, or dispatches.                         *)

\* What holds of the state e a handler takes the actor to, before it returns or
\* dispatches, if it syncs the rows in ids.
Fit(e, ids) == Good(e, ids) /\ Regular(e) /\ Follows(e)

\* The hooks a handler calls itself: none of them starts a task.
OwnCalls == [hook : {"on_pause", "on_finish", "on_kill", "on_reschedule"}, id : Ids]

Returns(e, ids, calls) ==
  /\ Handled(e, ids, calls)
  /\ e.queue = queue /\ e.slots = slots /\ e.running = running

Handles(e, ids, calls) ==
  /\ Fit(e, ids)
  /\ calls \subseteq OwnCalls
  /\ Returns(e, ids, calls) \/ HandledThenDispatched(e, ids, calls)

LEMMA OwnCall ==
  ASSUME NEW i \in Ids
  PROVE  \A h \in {"on_pause", "on_finish", "on_kill", "on_reschedule"} :
           {Call(h, i)} \subseteq OwnCalls
BY DEF Call, OwnCalls

LEMMA RegisteredSucceeds ==
  ASSUME DispatchInv, NEW i \in Ids, State(i) \in TaskStates
  PROVE  tasks[i] \in Task /\ tasks[i].state = State(i)
BY RegisteredTask DEF DispatchInv, Inv, State

LEMMA InvHolds ==
  ASSUME DispatchInv
  PROVE  Inv
BY DEF DispatchInv

LEMMA ReplaceFit ==
  ASSUME DispatchInv, NEW i \in Ids, NEW t \in Task, t.state \notin {"RUNNING", "PENDING"},
         Succeeds(t, tasks[i])
  PROVE  Fit(Replace(i, t), {i})
BY InvHolds, ReplaceGood, ReplaceRegular DEF Fit

LEMMA ReplaceAndQueueFit ==
  ASSUME DispatchInv, NEW i \in Ids, NEW t \in Task, t.state = "PENDING",
         Succeeds(t, tasks[i]), NEW parked \in BOOLEAN
  PROVE  Fit(ReplaceAndQueue(i, t, parked), {i})
BY InvHolds, ReplaceAndQueueGood, ReplaceAndQueueRegular DEF Fit

LEMMA PayloadFit ==
  ASSUME DispatchInv, NEW i \in Ids, NEW t \in Task, t.state = State(i),
         Succeeds(t, tasks[i])
  PROVE  Fit([Current EXCEPT !.tasks[i] = t], {i})
BY InvHolds, PayloadGood, PayloadRegular DEF Fit

LEMMA StartFit ==
  ASSUME DispatchInv, NEW i \in Ids, State(i) = "NONE",
         NEW p \in Priorities, NEW m \in RetryCaps, NEW n \in Infos
  PROVE  Fit(StartEffect(i, p, m, n), {i})
<1> DEFINE t == NewTask(p, m, n)
<1>1. t \in Task /\ t.state = "PENDING" /\ Succeeds(t, tasks[i])
  BY NewTaskType, NewSucceeds DEF State
<1> HIDE DEF t
<1>2. QED BY <1>1, ReplaceAndQueueFit DEF StartEffect, t

LEMMA PauseFit ==
  ASSUME DispatchInv, NEW i \in Ids, State(i) \in {"RUNNING", "PENDING"},
         NEW ck \in OptCheckpoint
  PROVE  Fit(PauseEffect(i, ck), {i})
<1> DEFINE t == Paused(tasks[i], ck)
<1>1. State(i) \in TaskStates \ Terminal
  BY DEF TaskStates, Terminal
<1>2. t \in Task /\ t.state = "PAUSED" /\ Succeeds(t, tasks[i])
  BY <1>1, RegisteredSucceeds, ChangedTaskType, ChangedSucceeds
<1> HIDE DEF t
<1>3. QED BY <1>2, ReplaceFit DEF PauseEffect, t

LEMMA ResumeFit ==
  ASSUME DispatchInv, NEW i \in Ids, State(i) = "PAUSED", NEW ck \in OptCheckpoint
  PROVE  Fit(ResumeEffect(i, ck), {i})
<1> DEFINE t == Resumed(tasks[i], ck)
<1>1. State(i) \in TaskStates \ Terminal
  BY DEF TaskStates, Terminal
<1>2. t \in Task /\ t.state = "PENDING" /\ Succeeds(t, tasks[i])
  BY <1>1, RegisteredSucceeds, ChangedTaskType, ChangedSucceeds
<1> HIDE DEF t
<1>3. QED BY <1>2, ReplaceAndQueueFit DEF ResumeEffect, t

LEMMA FinishFit ==
  ASSUME DispatchInv, NEW i \in Ids, State(i) = "RUNNING", NEW ck \in OptCheckpoint
  PROVE  Fit(FinishEffect(i, ck), {i})
<1> DEFINE t == Finished(tasks[i], ck)
<1>1. State(i) \in TaskStates \ Terminal
  BY DEF TaskStates, Terminal
<1>2. t \in Task /\ t.state = "FINISHED" /\ Succeeds(t, tasks[i])
  BY <1>1, RegisteredSucceeds, ChangedTaskType, ChangedSucceeds
<1> HIDE DEF t
<1>3. QED BY <1>2, ReplaceFit DEF FinishEffect, t

LEMMA KillFit ==
  ASSUME DispatchInv, NEW i \in Ids, State(i) \in TaskStates \ Terminal
  PROVE  Fit(KillEffect(i), {i})
<1> DEFINE t == Killed(tasks[i])
<1>1. NoCheckpoint \in OptCheckpoint
  BY DEF OptCheckpoint
<1>2. t \in Task /\ t.state = "KILLED" /\ Succeeds(t, tasks[i])
  BY <1>1, RegisteredSucceeds, EndedTaskType, ChangedSucceeds
<1> HIDE DEF t
<1>3. QED BY <1>2, ReplaceFit DEF KillEffect, t

LEMMA RescheduleFit ==
  ASSUME DispatchInv, NEW i \in Ids, CanReschedule(i), NEW delay \in BOOLEAN
  PROVE  /\ Fit(ExhaustEffect(i), {i})
         /\ ~ Exhausted(tasks[i]) => Fit(RetryEffect(i, delay), {i})
<1>1. tasks[i] \in Task
  BY RegisteredSucceeds DEF CanReschedule
<1>2. Fit(ExhaustEffect(i), {i})
  <2> DEFINE t == GivenUp(tasks[i])
  <2>1. t \in Task /\ t.state = "KILLED" /\ Succeeds(t, tasks[i])
    BY <1>1, EndedTaskType, RescheduledSucceeds
  <2> HIDE DEF t
  <2>2. QED BY <2>1, ReplaceFit DEF ExhaustEffect, t
<1>3. ASSUME ~ Exhausted(tasks[i]) PROVE Fit(RetryEffect(i, delay), {i})
  <2> DEFINE t == Retried(tasks[i])
  <2>1. t \in Task /\ t.state = "PENDING" /\ Succeeds(t, tasks[i])
    BY <1>1, <1>3, EndedTaskType, RescheduledSucceeds
  <2> HIDE DEF t
  <2>2. QED BY <2>1, ReplaceAndQueueFit DEF RetryEffect, t
<1>4. QED BY <1>2, <1>3

LEMMA CheckpointFit ==
  ASSUME DispatchInv, NEW i \in Ids, State(i) \in TaskStates, NEW ck \in Checkpoints
  PROVE  Fit(CheckpointEffect(i, ck), {i})
<1> DEFINE t == [tasks[i] EXCEPT !.checkpoint = ck]
<1>1. tasks[i] \in Task
  BY RegisteredSucceeds
<1>2. t \in Task /\ t.state = State(i) /\ Succeeds(t, tasks[i])
  BY <1>1, ChangedTaskType, PayloadSucceeds DEF State, OptCheckpoint, Task
<1> HIDE DEF t
<1>3. QED BY <1>2, PayloadFit DEF CheckpointEffect, t

LEMMA UpdateFit ==
  ASSUME DispatchInv, NEW i \in Ids, State(i) \in TaskStates, NEW n \in Infos
  PROVE  Fit(UpdateEffect(i, n), {i})
<1> DEFINE t == [tasks[i] EXCEPT !.info = n]
<1>1. tasks[i] \in Task
  BY RegisteredSucceeds
<1>2. t \in Task /\ t.state = State(i) /\ Succeeds(t, tasks[i])
  BY <1>1, PayloadSucceeds DEF State, Task
<1> HIDE DEF t
<1>3. QED BY <1>2, PayloadFit DEF UpdateEffect, t

LEMMA RestoreFit ==
  ASSUME DispatchInv, NEW S \in SUBSET Ids, NEW img \in [S -> Images],
         \A i \in S : State(i) \in RestoreOver,
         NEW rank \in Rankings(Queued(img))
  PROVE  Fit(RestoreEffect(img, rank), S)
BY InvHolds, RestoreGood, RestoreRegular DEF Fit

LEMMA SlotsFit ==
  ASSUME DispatchInv, NEW n \in SlotCounts
  PROVE  Fit(SlotsEffect(n), {})
<1>1. /\ SlotsEffect(n).tasks = tasks /\ SlotsEffect(n).running = running
      /\ SlotsEffect(n).order = order
      /\ SlotsEffect(n).queue \cup SlotsEffect(n).delayed = queue \cup delayed
  BY DEF SlotsEffect, Current
<1>2. QED BY <1>1, InvHolds, SlotsGood, SameTasksRegular DEF Fit

LEMMA TickFit ==
  ASSUME DispatchInv, NEW ready \in SUBSET delayed
  PROVE  Fit(TickEffect(ready), {})
<1>1. /\ TickEffect(ready).tasks = tasks /\ TickEffect(ready).running = running
      /\ TickEffect(ready).order = order
      /\ TickEffect(ready).queue \cup TickEffect(ready).delayed = queue \cup delayed
  BY DEF TickEffect, Current
<1>2. QED BY <1>1, InvHolds, TickGood, SameTasksRegular DEF Fit

\* A handler that does not dispatch leaves queue and counters alone: the task it
\* is about held no slot, or keeps it.
LEMMA ReturnsAlone ==
  /\ \A i \in Ids, ck \in OptCheckpoint : State(i) = "PENDING" =>
       LET e == PauseEffect(i, ck)
       IN  e.queue = queue /\ e.slots = slots /\ e.running = running
  /\ \A i \in Ids, ck \in Checkpoints :
       LET e == CheckpointEffect(i, ck)
       IN  e.queue = queue /\ e.slots = slots /\ e.running = running
  /\ \A i \in Ids, n \in Infos :
       LET e == UpdateEffect(i, n)
       IN  e.queue = queue /\ e.slots = slots /\ e.running = running
BY DEF PauseEffect, CheckpointEffect, UpdateEffect, Replace, Released, Current

LEMMA StartHandles ==
  ASSUME DispatchInv, NEW i \in Ids, NEW p \in Priorities, NEW m \in RetryCaps,
         NEW n \in Infos, Start(i, p, m, n)
  PROVE  Handles(StartEffect(i, p, m, n), {i}, {})
BY StartFit DEF Start, Handles

LEMMA PauseHandles ==
  ASSUME DispatchInv, NEW i \in Ids, NEW ck \in OptCheckpoint,
         PauseRunning(i, ck) \/ PausePending(i, ck)
  PROVE  /\ PauseRunning(i, ck)
              => Handles(PauseEffect(i, ck), {i}, {Call("on_pause", i)})
         /\ PausePending(i, ck) => Handles(PauseEffect(i, ck), {i}, {})
<1>1. Fit(PauseEffect(i, ck), {i})
  BY PauseFit DEF PauseRunning, PausePending
<1>2. QED
  BY <1>1, OwnCall, ReturnsAlone DEF PauseRunning, PausePending, Handles, Returns

LEMMA ResumeHandles ==
  ASSUME DispatchInv, NEW i \in Ids, NEW ck \in OptCheckpoint, Resume(i, ck)
  PROVE  Handles(ResumeEffect(i, ck), {i}, {})
BY ResumeFit DEF Resume, Handles

LEMMA FinishHandles ==
  ASSUME DispatchInv, NEW i \in Ids, NEW ck \in OptCheckpoint, Finish(i, ck)
  PROVE  Handles(FinishEffect(i, ck), {i}, {Call("on_finish", i)})
BY FinishFit, OwnCall DEF Finish, Handles

LEMMA KillHandles ==
  ASSUME DispatchInv, NEW i \in Ids, Kill(i)
  PROVE  Handles(KillEffect(i), {i}, {Call("on_kill", i)})
BY KillFit, OwnCall DEF Kill, Handles

LEMMA RescheduleHandles ==
  ASSUME DispatchInv, NEW i \in Ids, NEW delay \in BOOLEAN, Reschedule(i, delay)
  PROVE  /\ Exhausted(tasks[i])
              => Handles(ExhaustEffect(i), {i}, {Call("on_kill", i)})
         /\ ~ Exhausted(tasks[i])
              => Handles(RetryEffect(i, delay), {i}, {Call("on_reschedule", i)})
<1>1. /\ Fit(ExhaustEffect(i), {i})
      /\ ~ Exhausted(tasks[i]) => Fit(RetryEffect(i, delay), {i})
  BY RescheduleFit DEF Reschedule
<1>2. QED BY <1>1, OwnCall DEF Reschedule, Handles

LEMMA CheckpointHandles ==
  ASSUME DispatchInv, NEW i \in Ids, NEW ck \in Checkpoints, Checkpoint(i, ck)
  PROVE  Handles(CheckpointEffect(i, ck), {i}, {})
BY CheckpointFit, ReturnsAlone DEF Checkpoint, Handles, Returns

LEMMA UpdateHandles ==
  ASSUME DispatchInv, NEW i \in Ids, NEW n \in Infos, Update(i, n)
  PROVE  Handles(UpdateEffect(i, n), {i}, {})
BY UpdateFit, ReturnsAlone DEF Update, Handles, Returns

LEMMA RestoreHandles ==
  ASSUME DispatchInv, NEW S \in SUBSET Ids, NEW img \in [S -> Images], Restore(img)
  PROVE  \E rank \in Rankings(Queued(img)) :
            /\ Handles(RestoreEffect(img, rank), S, {})
            /\ HandledThenDispatched(RestoreEffect(img, rank), S, {})
<1>1. PICK rank \in Rankings(Queued(img)) :
        HandledThenDispatched(RestoreEffect(img, rank), S, {})
  BY DEF Restore
<1>2. Fit(RestoreEffect(img, rank), S)
  BY RestoreFit DEF Restore
<1>3. QED BY <1>1, <1>2 DEF Handles

LEMMA SlotsHandles ==
  ASSUME DispatchInv, NEW n \in SlotCounts, SetSlots(n)
  PROVE  Handles(SlotsEffect(n), {}, {})
BY SlotsFit DEF SetSlots, Handles

LEMMA TickHandles ==
  ASSUME DispatchInv, NEW ready \in SUBSET delayed, Tick(ready)
  PROVE  Handles(TickEffect(ready), {}, {})
BY TickFit DEF Tick, Handles

LEMMA NextHandles ==
  ASSUME DispatchInv, Next
  PROVE  \E e, ids, calls : Handles(e, ids, calls)
<1>1. ASSUME NEW i \in Ids
      PROVE  /\ \A p \in Priorities, m \in RetryCaps, n \in Infos :
                  Start(i, p, m, n) => \E e, ids, calls : Handles(e, ids, calls)
             /\ \A c \in OptCheckpoint :
                  PauseRunning(i, c) \/ PausePending(i, c) \/ Resume(i, c) \/ Finish(i, c)
                    => \E e, ids, calls : Handles(e, ids, calls)
  BY StartHandles, PauseHandles, ResumeHandles, FinishHandles
<1>2. ASSUME NEW i \in Ids
      PROVE  /\ Kill(i) => \E e, ids, calls : Handles(e, ids, calls)
             /\ \A delay \in BOOLEAN :
                  Reschedule(i, delay) => \E e, ids, calls : Handles(e, ids, calls)
             /\ \A c \in Checkpoints :
                  Checkpoint(i, c) => \E e, ids, calls : Handles(e, ids, calls)
             /\ \A n \in Infos :
                  Update(i, n) => \E e, ids, calls : Handles(e, ids, calls)
  BY KillHandles, RescheduleHandles, CheckpointHandles, UpdateHandles
<1>3. QED
  BY <1>1, <1>2, RestoreHandles, SlotsHandles, TickHandles DEF Next

LEMMA HandledFields ==
  ASSUME NEW e, NEW ids, NEW calls, Handled(e, ids, calls)
  PROVE  /\ tasks' = e.tasks /\ queue' = e.queue /\ delayed' = e.delayed
         /\ slots' = e.slots /\ running' = e.running /\ order' = e.order
         /\ spawned' = calls
BY DEF Handled

LEMMA HandledRegular ==
  ASSUME NEW e, NEW ids, NEW calls, Handled(e, ids, calls), Regular(e)
  PROVE  Regular(Current)'
<1>1. RunningIn(Current)' = RunningIn(e)
  BY HandledFields DEF RunningIn, Current
<1>2. Keyed(Current)'
  BY HandledFields DEF Regular, Keyed, Current
<1>3. Within(Current)'
  BY <1>1, HandledFields DEF Regular, Within, Current
<1>4. (OnlyAdds => TrueKeys(Current))'
  BY HandledFields DEF Regular, OnlyAdds, TrueKeys, Current
<1>5. (CappedImages => CappedTasks(Current))'
  BY HandledFields DEF Regular, CappedImages, CappedTasks, Current
<1>6. QED BY <1>2, <1>3, <1>4, <1>5 DEF Regular

LEMMA HandlesFull ==
  ASSUME DispatchInv, NEW e, NEW ids, NEW calls, Handles(e, ids, calls)
  PROVE  Regular(Current)' /\ WorkConserving'
<1>1. Sound(e) /\ Regular(e)
  BY DEF Handles, Fit, Good
<1>2. CASE Returns(e, ids, calls)
  <2>1. WorkConserving'
    BY <1>2, HandledFields DEF Returns, DispatchInv, WorkConserving
  <2>2. QED BY <1>1, <1>2, <2>1, HandledRegular DEF Returns
<1>3. CASE HandledThenDispatched(e, ids, calls)
  <2>1. Handled(Dispatched(e), ids \cup Started(e), calls \cup DispatchCalls(e))
    BY <1>3 DEF HandledThenDispatched
  <2>2. Regular(Current)'
    BY <1>1, <2>1, DispatchedRegular, HandledRegular
  <2>3. /\ queue' = e.queue \ Popped(e) /\ slots' = e.slots
        /\ running' = e.running + Cardinality(Started(e))
    BY <1>1, <2>1, HandledFields, DispatchedFields
  <2>4. ASSUME queue' # {} PROVE ~ (running' < slots')
    <3>1. Room(e) <= Cardinality(Started(e))
      BY <1>1, <2>3, <2>4, StartedEnough
    <3>2. QED BY <1>1, <2>3, <3>1, FirstsAreTasks DEF Room, Sound, ActorStates
  <2>5. QED BY <2>2, <2>4 DEF WorkConserving
<1>4. QED BY <1>2, <1>3 DEF Handles, Fit

LEMMA NextDispatchInv ==
  ASSUME DispatchInv, [Next]_vars
  PROVE  DispatchInv'
<1>1. CASE Next
  <2>1. Inv'
    BY <1>1, NextInv DEF DispatchInv
  <2>2. QED BY <1>1, <2>1, NextHandles, HandlesFull DEF DispatchInv
<1>2. CASE UNCHANGED vars
  <2>1. Inv'
    BY <1>2, StutterInv DEF DispatchInv
  <2>2. Current' = Current
    BY <1>2 DEF vars, Current
  <2>3. Regular(Current)'
    BY <2>2 DEF DispatchInv, Regular, Keyed, Within, RunningIn, TrueKeys, CappedTasks,
                OnlyAdds, CappedImages
  <2>4. WorkConserving'
    BY <1>2 DEF vars, DispatchInv, WorkConserving
  <2>5. QED BY <2>1, <2>3, <2>4 DEF DispatchInv
<1>3. QED BY <1>1, <1>2

LEMMA InitDispatchInv ==
  ASSUME Init
  PROVE  DispatchInv
<1>1. Current.queue \cup Current.delayed = {} /\ queue = {}
  BY DEF Init, Current
<1>2. Inv
  BY InitInv
<1>3. Within(Current)
  <2>1. RunningIn(Current) = {}
    BY DEF Init, RunningIn, Current, NoTask
  <2>2. QED BY <2>1, FS_EmptySet DEF Within, Init, Current
<1>4. CappedTasks(Current)
  BY DEF Init, CappedTasks, Current, NoTask, Task, TaskStates
<1>5. QED
  BY <1>1, <1>2, <1>3, <1>4
     DEF DispatchInv, Regular, Keyed, TrueKeys, WorkConserving

-----------------------------------------------------------------------------
(* Theorems.                                                               *)

\* Keys keep orders of their own, the counter is never too low, no slot is idle
\* while a key is queued, whatever commands come in whatever order.
THEOREM DispatchInvariance == Spec => []DispatchInv
BY InitDispatchInv, NextDispatchInv, PTL DEF Spec

\* No handler returns with a free slot and a key in the queue, restores over
\* running tasks included.
THEOREM SlotsFilled == Spec => []WorkConserving
<1>1. DispatchInv => WorkConserving
  BY DEF DispatchInv
<1>2. QED BY DispatchInvariance, <1>1, PTL

\* With images of a kernel that caps attempts, no task outlives its cap,
\* however many of its reports come late or twice.
THEOREM AttemptsCapped ==
  ASSUME CappedImages
  PROVE  Spec => []RetryCap
<1>1. ASSUME DispatchInv PROVE RetryCap
  <2>1. CappedTasks(Current)
    BY <1>1 DEF DispatchInv, Regular
  <2>2. ASSUME NEW i \in Ids, State(i) \in TaskStates
        PROVE  tasks[i] \in Task
    BY <1>1, <2>2, RegisteredTask DEF DispatchInv, Inv
  <2>3. QED BY <2>1, <2>2 DEF CappedTasks, Capped, RetryCap, State, Current
<1>2. QED BY DispatchInvariance, <1>1, PTL

\* A dispatch starts as many tasks as there are free slots, not one more; it
\* does not matter whether the counter has drifted up.
LEMMA HandlesNoOvercommit ==
  ASSUME DispatchInv, NEW e, NEW ids, NEW calls, Handles(e, ids, calls),
         Cardinality(RunningIds') > slots'
  PROVE  RunningIds' \subseteq RunningIds
<1>1. Sound(e) /\ Regular(e) /\ RunningIn(e) \subseteq RunningIds
  BY DEF Handles, Fit, Good, Follows
<1>2. CASE Returns(e, ids, calls)
  BY <1>1, <1>2, HandledFields DEF Returns, RunningIds, RunningIn, State
<1>3. CASE HandledThenDispatched(e, ids, calls)
  <2>1. tasks' = Dispatched(e).tasks /\ slots' = e.slots
    BY <1>1, <1>3, HandledFields, DispatchedFields DEF HandledThenDispatched
  <2>2. RunningIds' = RunningIn(Dispatched(e))
    BY <2>1 DEF RunningIds, RunningIn, State
  <2>3. CASE Started(e) = {}
    BY <1>1, <2>2, <2>3, DispatchedRunning
  <2>4. CASE Started(e) # {}
    <3>1. Cardinality(Started(e)) <= Room(e)
      BY <1>1, <2>4, StartedFits DEF Regular
    <3>2. Cardinality(RunningIn(e)) <= e.running
      BY <1>1 DEF Regular, Within
    <3>3. ~ (Cardinality(RunningIn(Dispatched(e))) > e.slots)
      BY <1>1, <3>1, <3>2, DispatchedRunning, FirstsAreTasks DEF Room, Sound, ActorStates
    <3>4. QED BY <2>1, <2>2, <3>3
  <2>5. QED BY <2>3, <2>4
<1>4. QED BY <1>2, <1>3 DEF Handles, Fit

\* Only a change of the slots leaves more tasks running than there are slots.
THEOREM SlotsRespected == Spec => NoOvercommit
<1> DEFINE A == Cardinality(RunningIds') > slots' => RunningIds' \subseteq RunningIds
<1>1. DispatchInv /\ [Next]_vars => [A]_vars
  BY NextHandles, HandlesNoOvercommit
<1>2. QED BY DispatchInvariance, <1>1, PTL DEF Spec, NoOvercommit

\* The task of a popped key is better than that of any key left behind.
LEMMA HandlesBestFirst ==
  ASSUME DispatchInv, OnlyAdds, NEW e, NEW ids, NEW calls, Handles(e, ids, calls),
         NEW k \in queue', NEW i \in Ids, StartedNow(i)
  PROVE  \/ tasks'[i].priority > tasks'[k.id].priority
         \/ /\ tasks'[i].priority = tasks'[k.id].priority
            /\ k.order < order =>
                 \E j \in queue \cup delayed : j.id = i /\ j.order < k.order
<1>1. Sound(e) /\ Regular(e) /\ NewKeysLast(e)
  BY DEF Handles, Fit, Good, Follows
<1>2. \A h \in {"on_start", "on_resume"} : Call(h, i) \notin calls
  BY DEF Handles, Fit, Call, OwnCalls
<1>3. CASE Returns(e, ids, calls)
  BY <1>2, <1>3, HandledFields DEF Returns, StartedNow
<1>4. CASE HandledThenDispatched(e, ids, calls)
  <2>1. /\ queue' = e.queue \ Popped(e)
        /\ tasks' = Dispatched(e).tasks
        /\ spawned' = calls \cup DispatchCalls(e)
    BY <1>1, <1>4, HandledFields, DispatchedFields DEF HandledThenDispatched
  <2>2. i \in Started(e)
    BY <1>2, <2>1 DEF StartedNow, DispatchCalls, Call
  <2>3. PICK f \in Popped(e) : f.id = i /\ f \in e.queue
    BY <2>2, QueueTypes, <1>1 DEF Started
  <2>4. Before(f, k)
    BY <1>1, <2>1, <2>3, PoppedFirst
  <2>5. \A j \in e.queue : j.id \in Ids /\ j.priority = tasks'[j.id].priority
    <3>1. ASSUME NEW j \in e.queue
          PROVE  /\ j.id \in Ids /\ e.tasks[j.id] \in Task
                 /\ j.priority = e.tasks[j.id].priority
      BY <1>1, QueueTypes DEF Regular, TrueKeys, HeapKey
    <3>2. QED BY <1>1, <2>1, <3>1, DispatchedTasks, RunKeeps
  <2>6. f.priority = tasks'[i].priority /\ k.priority = tasks'[k.id].priority
    BY <2>1, <2>3, <2>5
  <2>7. /\ f.order \in Nat /\ k.order \in Nat /\ order \in Nat
    BY <1>1, <2>1, <2>3, QueueTypes, CurrentKeyed DEF HeapKey
  <2>8. f.order < k.order /\ k.order < order => f \in queue \cup delayed
    BY <1>1, <2>3, <2>7 DEF NewKeysLast
  <2>9. QED BY <2>3, <2>4, <2>6, <2>8 DEF Before
<1>5. QED BY <1>3, <1>4 DEF Handles, Fit

\* Unless a restore overwrites tasks, and with them the priorities their keys
\* were queued with, dispatch starts the best task first.
THEOREM BestIsFirst ==
  ASSUME OnlyAdds
  PROVE  Spec => BestFirst
<1> DEFINE A ==
  \A k \in queue', i \in Ids :
    /\ tasks'[k.id].state = "PENDING"
    /\ StartedNow(i)
    => \/ tasks'[i].priority > tasks'[k.id].priority
       \/ /\ tasks'[i].priority = tasks'[k.id].priority
          /\ k.order < order =>
               \E j \in queue \cup delayed : j.id = i /\ j.order < k.order
<1>1. DispatchInv /\ [Next]_vars => [A]_vars
  BY NextHandles, HandlesBestFirst
<1>2. QED BY DispatchInvariance, <1>1, PTL DEF Spec, BestFirst

\* Unless a restore overwrites tasks, no command takes a checkpoint away.
THEOREM CheckpointsSurvive ==
  ASSUME OnlyAdds
  PROVE  Spec => CheckpointKept
<1> DEFINE A == \A i \in Ids : /\ State(i) \in TaskStates
                               /\ tasks[i].checkpoint # NoCheckpoint
                               => tasks'[i].checkpoint # NoCheckpoint
<1>1. ASSUME DispatchInv, NEW e, NEW ids, NEW calls, Handles(e, ids, calls)
      PROVE  A
  <2>1. Sound(e) /\ CheckpointsKept(e)
    BY <1>1 DEF Handles, Fit, Good, Follows
  <2>2. CASE Returns(e, ids, calls)
    BY <2>1, <2>2, HandledFields DEF Returns, CheckpointsKept
  <2>3. CASE HandledThenDispatched(e, ids, calls)
    <3>1. tasks' = Dispatched(e).tasks
      BY <2>3, HandledFields DEF HandledThenDispatched
    <3>2. ASSUME NEW i \in Ids
          PROVE  Dispatched(e).tasks[i].checkpoint = e.tasks[i].checkpoint
      BY <2>1, StartedTask, DispatchedTasks, RunKeeps
    <3>3. QED BY <2>1, <3>1, <3>2 DEF CheckpointsKept
  <2>4. QED BY <1>1, <2>2, <2>3 DEF Handles, Fit
<1>2. DispatchInv /\ [Next]_vars => [A]_vars
  BY <1>1, NextHandles
<1>3. QED BY DispatchInvariance, <1>2, PTL DEF Spec, CheckpointKept
=============================================================================
