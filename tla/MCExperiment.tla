---------------------------- MODULE MCExperiment ----------------------------
(* An instance of Experiment: the run's own paper and the arm B, and the     *)
(* critique of B, asked for ahead of it.                                     *)
EXTENDS Experiment

Panel        == <<"domain">>
ArmListsUsed == {<<"A", "B">>, <<"A", "B_prime", "B">>}
=============================================================================
