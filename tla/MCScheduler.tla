----------------------------- MODULE MCScheduler -----------------------------
(* Instances of Scheduler for TLC. *)
EXTENDS Scheduler, TLC

CONSTANTS a, b, c, c1, none, i1, i2

\* A record a snapshot can hold: see Run, StartEffect and the handlers.
Image(s, p, at, max, res) ==
  [state |-> s, priority |-> p, attempts |-> at, max_attempts |-> max,
   resume |-> res, checkpoint |-> NoCheckpoint, info |-> i1]

\* Exported by a kernel: fresh, running its last attempt, paused while it ran,
\* released from a pause but not started again, finished.
ExportedImages ==
  {Image("PENDING", 0, 0, 1, FALSE), Image("RUNNING", 1, 1, 1, FALSE),
   Image("PAUSED", 1, 1, 0, FALSE), Image("PENDING", 1, 1, 0, TRUE),
   Image("FINISHED", 0, 1, 1, FALSE)}

\* Exported before they were first started: one that is queued again, one that is not.
FewImages == {Image("PAUSED", 1, 0, 0, FALSE), Image("KILLED", 0, 0, 0, FALSE)}

NoImages == {}

Symmetric == Permutations(Ids)

(***************************************************************************)
(* Behaviours without an end.  Nothing but the order of two orders is ever *)
(* looked at (Before), and the attempts of a task without a cap matter to  *)
(* nothing (Exhausted).  So before the next message the keys that are left *)
(* are numbered anew, and the attempts of uncapped tasks and the past of   *)
(* ended ones, which here nothing revives, are forgotten.  OrderBound is   *)
(* then a bound on the keys there are at a time and AttemptBound none:     *)
(* clients and workers can go on for ever.                                 *)
(***************************************************************************)
Keys == queue \cup delayed
Renumbered(k) == [k EXCEPT !.order = Cardinality({j \in Keys : j.order < k.order})]

Forgotten(t) ==
  CASE t.state = "NONE" -> t
    [] t.state \in Terminal -> [t EXCEPT !.attempts = 0, !.priority = 0, !.resume = FALSE]
    [] OTHER -> [t EXCEPT !.attempts = IF t.max_attempts = 0 THEN 0 ELSE @]

Compact ==
  [Current EXCEPT !.tasks = [i \in Ids |-> Forgotten(tasks[i])],
                  !.queue = {Renumbered(k) : k \in @},
                  !.delayed = {Renumbered(k) : k \in @},
                  !.order = Cardinality(Keys)]

IsCompact == Compact = Current /\ spawned = {}

EndlessNext == \/ IsCompact /\ Next
               \/ ~ IsCompact /\ Handled(Compact, Ids, {})

EndlessSpec == Init /\ [][EndlessNext]_vars /\ Fairness
=============================================================================
