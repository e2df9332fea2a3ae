------------------------------- MODULE MCAuto -------------------------------
(* Instances of AutoAdvance.                                                *)
EXTENDS AutoAdvance

None == [i \in Interventions |-> 0]
\* The queue refuses one job.
Failing == [None EXCEPT !["agentfail"] = 1, !["enqueue"] = 1]
=============================================================================
