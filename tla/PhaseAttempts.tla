--------------------------- MODULE PhaseAttempts ---------------------------
(***************************************************************************)
(* What the phase lock of a run is for: the attempts at the phases of one  *)
(* run come one after the other.  An attempt begins when no other is under *)
(* way and happens once; it ends by itself, or somebody gives it up, who   *)
(* may begin another one in the same step.  An attempt that was given up   *)
(* may still be going on, but it never counts as the current one again.    *)
(***************************************************************************)
CONSTANT Attempt

VARIABLE stage      \* [Attempt -> {"new", "current", "given_up", "over"}]

TypeOK == stage \in [Attempt -> {"new", "current", "given_up", "over"}]

Init == stage = [a \in Attempt |-> "new"]

Begin(a) ==
    /\ stage[a] = "new"
    /\ \A b \in Attempt : stage[b] # "current"
    /\ stage' = [stage EXCEPT ![a] = "current"]

End(a) ==
    /\ stage[a] \in {"current", "given_up"}
    /\ stage' = [stage EXCEPT ![a] = "over"]

GiveUp(a) ==
    /\ stage[a] = "current"
    /\ stage' = [stage EXCEPT ![a] = "given_up"]

Replace(a, b) ==
    /\ stage[a] = "current"
    /\ stage[b] = "new"
    /\ stage' = [stage EXCEPT ![a] = "given_up", ![b] = "current"]

Next ==
    \E a \in Attempt : \/ Begin(a)
                       \/ End(a)
                       \/ GiveUp(a)
                       \/ \E b \in Attempt : Replace(a, b)

Spec == Init /\ [][Next]_stage

\* No two attempts are under way at the same time (phase_lock.py).
OneAtATime ==
    \A a, b \in Attempt : stage[a] = "current" /\ stage[b] = "current" => a = b
=============================================================================
