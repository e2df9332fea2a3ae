--------------------------- MODULE RunProperties ---------------------------
(***************************************************************************)
(* What a run's lifecycle promises, and the fairness under which it makes  *)
(* progress.                                                               *)
(***************************************************************************)
EXTENDS RunLifecycle

\* Requests are served and jobs are run to their end, a worker is there to take
\* a queued job, time passes, and the reaper keeps sweeping.  Nothing is assumed
\* of users, of faults and of the RQ fast path.
Fairness ==
    /\ \A r \in Requests : WF_vars(RequestStep(r))
    /\ \A t \in Tokens : WF_vars(JobStep(t))
    /\ WF_vars(LockAges)
    /\ \A p \in Phases : WF_vars(FallsQuiet(p)) /\ WF_vars(Reap(p))

FairSpec == Spec /\ Fairness
-----------------------------------------------------------------------------
(* The lock implements PhaseAttempts: an attempt is current from the claim  *)
(* of its token until its own release, or until its lock is cleared.        *)

Stage(t) ==
    CASE job[t].pc = "unused" -> "new"
      [] job[t].pc = "gone"   -> "over"
      [] OTHER                -> IF t \in revoked THEN "given_up" ELSE "current"

Attempts == INSTANCE PhaseAttempts WITH Attempt <- Tokens,
                                        stage   <- [t \in Tokens |-> Stage(t)]

\* Claims, hand-overs, releases and clears of phase_lock.py, as the endpoints,
\* the workers and the reaper use them, let attempts follow one another.
AttemptsFollowOneAnother == Attempts!Spec
-----------------------------------------------------------------------------
\* An attempt whose lock nobody has cleared holds the lock until it releases it:
\* claim, hand-over and owner-checked release never leave two such attempts, nor
\* one that goes on without the lock (phase_lock.py).
HolderIsAlone ==
    \A t \in Tokens : job[t].pc \in Owning /\ t \notin revoked => lock.token = t

\* What the recovery gate of main.py takes for a zombie is not being worked on by
\* a worker within its RQ timeout, whatever the lock, the queue and the events of
\* earlier rounds look like.
ZombiesAreDead ==
    \A p \in Phases, t \in Tokens :
        Zombie(p) => ~ (job[t].phase = p /\ job[t].pc = "working" /\ Timed(t))

\* The phases at whose end a run stands only once they have run: a later phase that
\* failed is rewound there after a look at their artifacts, if it is rewound there
\* at all.  The ideator looks at them later, and the drafter ends while it runs.
Backed ==
    {p \in (Phases \cap Versioned) \ {"drafter"} :
        \A q \in Phases \ {"final_rewrite"} :
            InputState[q] = DoneState[p] => q # "ideator" /\ p \in Needs[q]}

ASSUME StartAssumption ==
    \A p \in Backed : DoneState[p] \in InitStates => p \in InitOutput

\* As long as no lock has been cleared under a live attempt, a run that stands at
\* the end of a phase has the artifacts of that phase: the purge of a late version
\* commit never hits the phase that came after it (phase_version.py, main.py).
ReviewHasArtifacts ==
    \A p \in Backed : ~disturbed /\ state = DoneState[p] => p \in output

\* As long as no lock has been cleared under a live attempt, only
\* clear_run_cancel_intent takes a run out of CANCELLED: a worker that overlooks
\* the cancel is never followed by one that honours it (state_machine.py).
CancelledIsFinal ==
    [][~disturbed /\ state = "CANCELLED" => state' = "CANCELLED" \/ ClearCancel]_vars

\* A run does not stay in a running state for ever: its worker moves it on or the
\* reaper does.  DRAFTER_RUNNING is left out, the drafter ends in it.
RunningEnds ==
    \A p \in Phases \ {"drafter"} : state = RunningState[p] ~> state # RunningState[p]
=============================================================================
