----------------------------- MODULE MCExpress ------------------------------
(* Instances of ExpressRun.                                                 *)
EXTENDS ExpressRun

\* Each fault and each intervention once.
Each == [i \in Interventions |-> 1]
=============================================================================
