------------------------------- MODULE MCEtlRun -------------------------------
(* Instances of EtlRun for TLC.                                            *)
EXTENDS EtlRun

CONSTANTS a, b, c, d, none, i1

Entry(i, p) == [id |-> i, priority |-> p]

\* One pipeline is listed twice, with another priority, so its second start is
\* ignored; a partition of an empty universe leaves a stage with no task.
TwoStages == <<<<Entry(a, 0), Entry(b, 1), Entry(a, 1)>>, <<>>,
               <<Entry(c, 0), Entry(d, 0)>>>>

OneStage == <<<<Entry(a, 0), Entry(b, 0)>>>>

NoImages == {}
=============================================================================
