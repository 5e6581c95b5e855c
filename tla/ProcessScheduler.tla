--------------------------- MODULE ProcessScheduler ---------------------------
(***************************************************************************)
(* The process scheduler of python/fina_core/process_scheduler.py: the      *)
(* SchedulerService with its processes of named threads, and the EventBus   *)
(* that starts threads on events.                                           *)
(*                                                                         *)
(* There is no concurrency but a great deal of re-entrancy.  _run_ready     *)
(* calls handlers and publishes events; a handler may create processes,     *)
(* spawn threads, send commands and publish; a delivered event spawns a     *)
(* thread; and creating, spawning and resuming run _run_ready again, of the *)
(* same process or of another, inside the call that asked for it.  So the   *)
(* state includes the stack of calls: loops of _run_ready, handlers, and    *)
(* events on their way to their subscribers.  An exception cuts the stack   *)
(* down to the nearest handler, whose loop catches what the handler lets    *)
(* through, or else to the client.  Parameters, results, errors and the     *)
(* log of commands are left out: nothing branches on them.                  *)
(***************************************************************************)
EXTENDS Integers, Sequences, FiniteSets, SequencesExt

CONSTANTS
  Procs,         \* process ids, fresh uuids in the code
  Names,         \* names of threads
  Handlers,      \* names of handlers
  Registered,    \* those registered before anything else happens
  Topics,        \* topics of events, "*" and those of ended threads included
  Definitions,   \* the process definitions that may be submitted
  SpawnInputs,   \* what spawn_thread may be called with, the process aside
  Thresholds,    \* priorities that preempt may be given
  NoName,        \* a subscription without start_thread
  ActBound,      \* bound: operations that clients and handlers perform
  MaxDepth       \* loops that may be nested before Python's recursion limit

VARIABLES
  procs,      \* the processes, a function from the ids in use
  subs,       \* for each topic its subscriptions, in order
  handlers,   \* the registered handlers
  stack,      \* the calls in progress, the innermost last
  acts,       \* operations performed
  aborted     \* processes whose last loop was cut short by an exception

vars == <<procs, subs, handlers, stack, acts, aborted>>

States == {"WAITING", "PENDING", "RUNNING", "PAUSED", "FINISHED", "FAILED", "CANCELLED"}

\* The topic under which the end of a thread is published.
EndTopic == [FINISHED |-> "fina.thread.finished", FAILED |-> "fina.thread.failed"]

ASSUME TopicsAssumption == {"*", EndTopic.FINISHED, EndTopic.FAILED} \subseteq Topics

ThreadSpec ==
  [name : Names, handler : Handlers, deps : SUBSET Names, priority : Int, triggered : BOOLEAN]

\* A definition that can be submitted: threads of different names, known handlers.
DefinitionOK(d) ==
  /\ d.threads \in Seq(ThreadSpec)
  /\ \A k, l \in DOMAIN d.threads : d.threads[k].name = d.threads[l].name => k = l
  /\ d.subs \in Seq([topic : Topics, start : Names \cup {NoName}])

ASSUME InputsAssumption ==
  /\ \A d \in Definitions : DefinitionOK(d)
  /\ SpawnInputs \subseteq [name : Names, handler : Handlers, deps : SUBSET Names, priority : Int]
  /\ Registered \subseteq Handlers
ASSUME BoundsAssumption == ActBound \in Nat /\ MaxDepth \in Nat

-----------------------------------------------------------------------------
(* Threads.  `attempts' counts the calls of the handler; `asked' is history: *)
(* how often somebody asked for the thread to run.                           *)

NewThread(x, s) ==
  [name |-> x.name, handler |-> x.handler, deps |-> x.deps, priority |-> x.priority,
   state |-> s, attempts |-> 0, asked |-> IF s = "PENDING" THEN 1 ELSE 0]

NewProcess(d) ==
  [threads |-> [k \in DOMAIN d.threads |->
                  NewThread(d.threads[k],
                            IF d.threads[k].triggered THEN "WAITING" ELSE "PENDING")],
   state |-> "RUNNING"]

\* The place of the thread whose id is the bare name n: the first of that name,
\* since later ones get "#2", "#3", ... appended; 0 if there is none.
Base(ts, n) == SelectInSeq(ts, LAMBDA th : th.name = n)

\* spawn_thread wakes the thread of that name if it waits for its trigger, and
\* adds one otherwise.
Spawned(ts, x) ==
  LET base == Base(ts, x.name) IN
  IF base # 0 /\ ts[base].state = "WAITING"
  THEN [ts EXCEPT ![base].priority = x.priority, ![base].state = "PENDING",
                 ![base].asked = @ + 1]
  ELSE Append(ts, NewThread(x, "PENDING"))

Ready(ts) ==
  {t \in DOMAIN ts :
     /\ ts[t].state = "PENDING"
     /\ \A n \in ts[t].deps : LET base == Base(ts, n)
                             IN base # 0 /\ ts[base].state = "FINISHED"}

\* The tie-break table is made when the loop is entered, with the threads of that
\* moment; a thread it does not know counts as the first.
TieBreak(f, t) == IF t <= f.upTo THEN t ELSE 1

\* The thread the loop f runs next: the sort is stable.
NextOf(f, ts) ==
  CHOOSE t \in Ready(ts) :
    \A u \in Ready(ts) :
      \/ ts[t].priority > ts[u].priority
      \/ /\ ts[t].priority = ts[u].priority
         /\ \/ TieBreak(f, t) < TieBreak(f, u)
            \/ TieBreak(f, t) = TieBreak(f, u) /\ t <= u

-----------------------------------------------------------------------------
(* The stack of calls.                                                     *)

Loop(p, ts) == [kind |-> "loop", proc |-> p, upTo |-> Len(ts)]
Handling(p, t) == [kind |-> "handler", proc |-> p, thread |-> t]
Publishing(topic) == [kind |-> "publish", todo |-> subs[topic] \o subs["*"]]

Top == stack[Len(stack)]
InKind(k) == stack # <<>> /\ Top.kind = k
Below == SubSeq(stack, 1, Len(stack) - 1)
LoopsOf(p) == {k \in DOMAIN stack : stack[k].kind = "loop" /\ stack[k].proc = p}
Executing(p, t) == \E k \in DOMAIN stack : stack[k] = Handling(p, t)

\* Mutant of Landing: the exceptions of nested calls are not caught.
LandingAtClient(s) == 0

\* Where an exception is caught: at the innermost handler call of the stack s,
\* which goes on or lets it through to the loop that called it; 0 is the client.
Landing(s) == SelectLastInSeq(s, LAMBDA f : f.kind = "handler")

\* An exception leaves the calls of s above its landing, and the loop of each
\* process in also was not even entered.
Raises(s, also) ==
  /\ stack' = SubSeq(s, 1, Landing(s))
  /\ aborted' = aborted \cup also
       \cup {s[k].proc : k \in {l \in DOMAIN s : l > Landing(s) /\ s[l].kind = "loop"}}

\* The call of _run_ready(p), when p's threads are ts, by the top of s.
RunReady(s, p, ts) ==
  IF Cardinality({k \in DOMAIN s : s[k].kind = "loop"}) < MaxDepth
  THEN stack' = Append(s, Loop(p, ts)) /\ UNCHANGED aborted
  ELSE Raises(s, {p})

-----------------------------------------------------------------------------
(* What a client, or the handler that is running, may do.                  *)

Acts ==
  /\ stack = <<>> \/ InKind("handler")
  /\ acts < ActBound
  /\ acts' = acts + 1

Register(h) ==
  /\ Acts
  /\ h \notin handlers
  /\ handlers' = handlers \cup {h}
  /\ UNCHANGED <<procs, subs, stack, aborted>>

\* The bus keeps one subscription of a process to a topic: the last one, in the place
\* of the first, which is behind those that were there before the process was.
Subscribed(p, d) ==
  [topic \in Topics |->
     LET mine == {k \in DOMAIN d.subs : d.subs[k].topic = topic} IN
     IF mine = {} THEN subs[topic]
     ELSE Append(subs[topic], [proc |-> p, start |-> d.subs[Max(mine)].start])]

Create(d) ==
  LET p == CHOOSE q \in Procs : q \notin DOMAIN procs
      new == NewProcess(d)
  IN
  /\ Acts
  /\ DOMAIN procs # Procs
  /\ procs' = [q \in DOMAIN procs \cup {p} |-> IF q = p THEN new ELSE procs[q]]
  /\ subs' = Subscribed(p, d)
  /\ RunReady(stack, p, new.threads)
  /\ UNCHANGED handlers

Spawn(p, x) ==
  LET ts == Spawned(procs[p].threads, x) IN
  /\ Acts
  /\ procs' = [procs EXCEPT ![p].threads = ts]
  /\ RunReady(stack, p, ts)
  /\ UNCHANGED <<subs, handlers>>

\* Mutant of CommandState: a state nobody knows.
MisspeltState == [pause |-> "PAUSED", cancel |-> "CANCELED"]

CommandState == [pause |-> "PAUSED", cancel |-> "CANCELLED"]

\* pause and cancel do not look at the state of the thread, and do not run
\* _run_ready either.
PauseOrCancel(p, t, c) ==
  /\ Acts
  /\ procs' = [procs EXCEPT ![p].threads[t].state = CommandState[c]]
  /\ UNCHANGED <<subs, handlers, stack, aborted>>

\* Mutant of Resume: the thread is made ready, and nobody runs it.
ResumeOnly(p, t) ==
  /\ Acts
  /\ procs' = [procs EXCEPT ![p].threads[t].state = "PENDING", ![p].threads[t].asked = @ + 1]
  /\ UNCHANGED <<subs, handlers, stack, aborted>>

\* resume does not look at it either: an ended thread runs again.
Resume(p, t) ==
  LET ts == [procs[p].threads EXCEPT ![t].state = "PENDING", ![t].asked = @ + 1] IN
  /\ Acts
  /\ procs' = [procs EXCEPT ![p].threads = ts]
  /\ RunReady(stack, p, ts)
  /\ UNCHANGED <<subs, handlers>>

Preempt(p, threshold) ==
  /\ Acts
  /\ procs' = [procs EXCEPT ![p].threads =
       [t \in DOMAIN @ |->
          IF @[t].state \in {"PENDING", "RUNNING", "PAUSED"} /\ @[t].priority < threshold
          THEN [@[t] EXCEPT !.state = "PAUSED"] ELSE @[t]]]
  /\ UNCHANGED <<subs, handlers, stack, aborted>>

Publish(topic) ==
  /\ Acts
  /\ stack' = Append(stack, Publishing(topic))
  /\ UNCHANGED <<procs, subs, handlers, aborted>>

Unsubscribe(topic, p) ==
  /\ Acts
  /\ \E k \in DOMAIN subs[topic] :
       /\ subs[topic][k].proc = p
       /\ subs' = [subs EXCEPT ![topic] = RemoveAt(@, k)]
  /\ UNCHANGED <<procs, handlers, stack, aborted>>

-----------------------------------------------------------------------------
(* _run_ready: one round of the loop on top of the stack.                  *)

\* Mutant of CallHandler: the thread is marked only when the handler is done.
CallUnmarked ==
  /\ InKind("loop")
  /\ LET p == Top.proc
         t == NextOf(Top, procs[p].threads)
     IN /\ Ready(procs[p].threads) # {}
        /\ procs[p].threads[t].handler \in handlers
        /\ procs' = [procs EXCEPT ![p].threads[t].attempts = @ + 1]
        /\ stack' = Append(stack, Handling(p, t))
  /\ UNCHANGED <<subs, handlers, acts, aborted>>

\* The handler is called, with the thread RUNNING.
CallHandler ==
  /\ InKind("loop")
  /\ LET p == Top.proc
         ts == procs[p].threads
         t == NextOf(Top, ts)
     IN /\ Ready(ts) # {}
        /\ ts[t].handler \in handlers
        /\ procs' = [procs EXCEPT ![p].threads[t].state = "RUNNING",
                                  ![p].threads[t].attempts = @ + 1]
        /\ stack' = Append(stack, Handling(p, t))
  /\ UNCHANGED <<subs, handlers, acts, aborted>>

\* Mutant of FinishUnhandled: the result is set and the state is not.
LeaveUnhandled ==
  /\ InKind("loop")
  /\ LET ts == procs[Top.proc].threads IN
       Ready(ts) # {} /\ ts[NextOf(Top, ts)].handler \notin handlers
  /\ stack' = Append(stack, Publishing(EndTopic.FINISHED))
  /\ UNCHANGED <<procs, subs, handlers, acts, aborted>>

\* A thread without a handler is done at once.
FinishUnhandled ==
  /\ InKind("loop")
  /\ LET p == Top.proc
         ts == procs[p].threads
         t == NextOf(Top, ts)
     IN /\ Ready(ts) # {}
        /\ ts[t].handler \notin handlers
        /\ procs' = [procs EXCEPT ![p].threads[t].state = "FINISHED"]
        /\ stack' = Append(stack, Publishing(EndTopic.FINISHED))
  /\ UNCHANGED <<subs, handlers, acts, aborted>>

\* Mutant of Leave: only the outermost loop looks whether a process has ended.
LeaveOutermost ==
  /\ InKind("loop")
  /\ Ready(procs[Top.proc].threads) = {}
  /\ procs' = IF /\ Len(stack) = 1
                 /\ \A t \in DOMAIN procs[Top.proc].threads :
                      procs[Top.proc].threads[t].state \in {"FINISHED", "CANCELLED"}
              THEN [procs EXCEPT ![Top.proc].state = "FINISHED"] ELSE procs
  /\ aborted' = aborted \ {Top.proc}
  /\ stack' = Below
  /\ UNCHANGED <<subs, handlers, acts>>

\* No thread is ready: the loop ends, and the process with it if all its threads
\* have.
Leave ==
  /\ InKind("loop")
  /\ LET p == Top.proc
         ts == procs[p].threads
     IN /\ Ready(ts) = {}
        /\ procs' = IF \A t \in DOMAIN ts : ts[t].state \in {"FINISHED", "CANCELLED"}
                    THEN [procs EXCEPT ![p].state = "FINISHED"] ELSE procs
        /\ aborted' = aborted \ {p}
        /\ stack' = Below
  /\ UNCHANGED <<subs, handlers, acts>>

\* The handler on top returns, or raises: whatever became of its thread in the
\* meantime, the thread now has this state, and its end is published.
HandlerEnds(s) ==
  /\ InKind("handler")
  /\ procs' = [procs EXCEPT ![Top.proc].threads[Top.thread].state = s]
  /\ stack' = Append(Below, Publishing(EndTopic[s]))
  /\ UNCHANGED <<subs, handlers, acts, aborted>>

\* publish: the next subscriber gets the event.  Its thread is started with the
\* handler of the declared one, no dependencies and priority 0; a name that is
\* not declared raises a KeyError.
Deliver ==
  /\ InKind("publish")
  /\ Top.todo # <<>>
  /\ LET sub == Head(Top.todo)
         rest == Append(Below, [Top EXCEPT !.todo = Tail(@)])
         ts == procs[sub.proc].threads
         base == Base(ts, sub.start)
         woken == Spawned(ts, [name |-> sub.start, handler |-> ts[base].handler,
                               deps |-> {}, priority |-> 0])
     IN \/ /\ sub.start = NoName
           /\ stack' = rest
           /\ UNCHANGED <<procs, aborted>>
        \/ /\ sub.start # NoName /\ base = 0
           /\ Raises(stack, {})
           /\ UNCHANGED procs
        \/ /\ sub.start # NoName /\ base # 0
           /\ procs' = [procs EXCEPT ![sub.proc].threads = woken]
           /\ RunReady(rest, sub.proc, woken)
  /\ UNCHANGED <<subs, handlers, acts>>

Published ==
  /\ InKind("publish")
  /\ Top.todo = <<>>
  /\ stack' = Below
  /\ UNCHANGED <<procs, subs, handlers, acts, aborted>>

-----------------------------------------------------------------------------

Init ==
  /\ procs = <<>>
  /\ subs = [topic \in Topics |-> <<>>]
  /\ handlers = Registered
  /\ stack = <<>>
  /\ acts = 0
  /\ aborted = {}

Operation ==
  \/ \E h \in Handlers : Register(h)
  \/ \E d \in Definitions : Create(d)
  \/ \E topic \in Topics : Publish(topic)
  \/ \E p \in DOMAIN procs :
       \/ \E x \in SpawnInputs : Spawn(p, x)
       \/ \E t \in DOMAIN procs[p].threads :
            Resume(p, t) \/ \E c \in DOMAIN CommandState : PauseOrCancel(p, t, c)
       \/ \E threshold \in Thresholds : Preempt(p, threshold)
       \/ \E topic \in Topics : Unsubscribe(topic, p)

\* The calls in progress go on.
Proceed ==
  \/ CallHandler
  \/ FinishUnhandled
  \/ Leave
  \/ \E s \in DOMAIN EndTopic : HandlerEnds(s)
  \/ Deliver
  \/ Published

Next == Operation \/ Proceed

\* The thread of the caller goes on with the innermost call, and a handler
\* returns after finitely many operations of its own.
Spec == Init /\ [][Next]_vars /\ WF_vars(Proceed)

-----------------------------------------------------------------------------
(* Properties.                                                             *)

Thread ==
  [name : Names, handler : Handlers, deps : SUBSET Names, priority : Int,
   state : States, attempts : Nat, asked : Nat]

\* Processes, subscriptions and calls have the shapes of the dataclasses, threads
\* are in one of the seven states the code knows, and calls name what exists.
ProcTypeOK ==
  /\ DOMAIN procs \subseteq Procs
  /\ \A p \in DOMAIN procs :
       /\ procs[p].state \in {"RUNNING", "FINISHED"}
       /\ \A t \in DOMAIN procs[p].threads : procs[p].threads[t] \in Thread
  /\ \A topic \in Topics : \A k \in DOMAIN subs[topic] :
       subs[topic][k] \in [proc : DOMAIN procs, start : Names \cup {NoName}]
  /\ \A k \in DOMAIN stack :
       \/ stack[k].kind = "loop" /\ stack[k].proc \in DOMAIN procs
       \/ /\ stack[k].kind = "handler"
          /\ stack[k].thread \in DOMAIN procs[stack[k].proc].threads
       \/ stack[k].kind = "publish"
  /\ handlers \subseteq Handlers
  /\ acts \in 0..ActBound
  /\ aborted \subseteq DOMAIN procs

\* A thread that is ready to run has a loop of its process in progress that will
\* get to it, however deep the calls are nested: nothing that makes a thread ready
\* (a resume, a spawn, a trigger, the end of a dependency) forgets to run
\* _run_ready, and no loop leaves too early.  Excused are processes whose loop an
\* exception cut short: their threads wait for the next call about them.
ReadyIsServed ==
  \A p \in DOMAIN procs \ aborted : Ready(procs[p].threads) # {} => LoopsOf(p) # {}

\* A thread that says RUNNING has its handler on the stack: no exception, and no
\* command that runs the thread again within itself, leaves it RUNNING with nobody
\* to end it.
RunningIsExecuting ==
  \A p \in DOMAIN procs : \A t \in DOMAIN procs[p].threads :
    procs[p].threads[t].state = "RUNNING" => Executing(p, t)

\* Loops of a process nested in its own handlers, at any depth, call a handler
\* once for each time somebody asked for the thread (its creation, its trigger or a
\* resume) and never because an outer loop is still busy with it.
RunsAreAsked ==
  \A p \in DOMAIN procs : \A t \in DOMAIN procs[p].threads :
    procs[p].threads[t].attempts <= procs[p].threads[t].asked

\* When control is back with the client, a process all of whose threads are
\* finished says so, whoever finished the last one: a loop of its own, one nested
\* in a handler of another process, or an event.
EndIsNoticed ==
  stack = <<>> =>
    \A p \in DOMAIN procs \ aborted :
      (\A t \in DOMAIN procs[p].threads : procs[p].threads[t].state = "FINISHED")
        => procs[p].state = "FINISHED"

\* Every call returns to the client: no chain of loops, handlers and events goes
\* round for ever, the one of a process that subscribes to the end of its own
\* threads included, which the recursion limit ends.
CallsReturn == stack # <<>> ~> stack = <<>>

=============================================================================
