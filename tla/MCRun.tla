------------------------------- MODULE MCRun -------------------------------
(***************************************************************************)
(* Instances of RunProperties for TLC: budgets of faults and interventions *)
(* that the configurations choose from, and the symmetry of the safety     *)
(* runs.  A configuration picks the phases, the start state and the sizes. *)
(***************************************************************************)
EXTENDS RunProperties, TLC

NoFaults == [i \in Interventions |-> 0]

\* Every fault once, and no intervention of the user.
EachFault == [NoFaults EXCEPT !["crash"] = 1, !["enqueue"] = 1, !["die"] = 1,
                              !["exception"] = 1, !["agentfail"] = 1]

\* Every fault that ends a job, and one of the user's interventions each.
FaultsAndInterventions == [EachFault EXCEPT !["clear"] = 1, !["cancel"] = 1]

\* Requests are alike, and so are tokens.
Symmetry == Permutations(Requests) \cup Permutations(Tokens)
=============================================================================
