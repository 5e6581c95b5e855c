------------------------------ MODULE TaskPool ------------------------------
(***************************************************************************)
(* What the scheduler promises its clients (docs/scheduler.md, 6 and 8):   *)
(* tasks with a lifecycle, of which at most cap are running, and no idle   *)
(* slot while a task is eligible.  There is no queue, key or counter here. *)
(***************************************************************************)
EXTENDS Integers, FiniteSets

CONSTANTS Ids, Caps

VARIABLES
  life,     \* the state of each task, "NONE" before it is submitted
  parked,   \* pending tasks that wait for the deadline of a retry
  cap       \* the number of slots

poolVars == <<life, parked, cap>>

In(l, s) == {i \in Ids : l[i] = s}

\* Every step ends by filling the free slots: with all eligible tasks if there
\* is room, else with as many as there is room for.
Settle(l, p, n) ==
  LET eligible == In(l, "PENDING") \ p
      room == n - Cardinality(In(l, "RUNNING"))
  IN \E D \in SUBSET eligible :
       /\ D # {} => Cardinality(D) <= room
       /\ D # eligible => Cardinality(D) >= room
       /\ life' = [i \in Ids |-> IF i \in D THEN "RUNNING" ELSE l[i]]
       /\ parked' = p
       /\ cap' = n

Move(i, from, to) ==
  /\ life[i] \in from
  /\ Settle([life EXCEPT ![i] = to], parked \ {i}, cap)

PoolInit == /\ life = [i \in Ids |-> "NONE"]
            /\ parked = {}
            /\ cap \in Caps

Submit(i) == Move(i, {"NONE"}, "PENDING")
PauseTask(i) == Move(i, {"RUNNING", "PENDING"}, "PAUSED")
ResumeTask(i) == Move(i, {"PAUSED"}, "PENDING")
Complete(i) == Move(i, {"RUNNING"}, "FINISHED")
Abandon(i) == Move(i, {"RUNNING", "PENDING", "PAUSED"}, "KILLED")

\* Another attempt, at once or after a delay.
Retry(i) ==
  \/ Move(i, {"RUNNING", "PENDING"}, "PENDING")
  \/ /\ life[i] \in {"RUNNING", "PENDING"}
     /\ Settle([life EXCEPT ![i] = "PENDING"], parked \cup {i}, cap)

\* Records of an earlier life: ended tasks stay ended, others start over.
Import(S) ==
  /\ \A i \in S : life[i] = "NONE"
  /\ \E l \in [S -> {"PENDING", "FINISHED", "KILLED"}] :
       Settle([i \in Ids |-> IF i \in S THEN l[i] ELSE life[i]], parked, cap)

Resize(n) == Settle(life, parked, n)

Wake(S) == Settle(life, parked \ S, cap)

PoolNext ==
  \/ \E i \in Ids : Submit(i) \/ PauseTask(i) \/ ResumeTask(i) \/ Complete(i)
                    \/ Abandon(i) \/ Retry(i)
  \/ \E S \in SUBSET Ids : Import(S)
  \/ \E n \in Caps : Resize(n)
  \/ \E S \in SUBSET parked : Wake(S)

PoolSpec == PoolInit /\ [][PoolNext]_poolVars
=============================================================================
