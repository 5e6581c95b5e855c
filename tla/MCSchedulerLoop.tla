--------------------------- MODULE MCSchedulerLoop ---------------------------
(* Instances of SchedulerLoop for TLC. *)
EXTENDS SchedulerLoop, TLC

CONSTANTS a, b, c, c1, none, i1

Image(s, p, at, max, res) ==
  [state |-> s, priority |-> p, attempts |-> at, max_attempts |-> max,
   resume |-> res, checkpoint |-> NoCheckpoint, info |-> i1]

\* A batch of two of these leaves one stale and several fresh keys to pop.
ExportedImages ==
  {Image("PENDING", 0, 0, 1, FALSE), Image("RUNNING", 1, 1, 1, FALSE),
   Image("KILLED", 0, 1, 1, FALSE)}

Symmetric == Permutations(Ids)
=============================================================================
