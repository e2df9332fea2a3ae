---------------------------- MODULE AutoAdvance -----------------------------
(***************************************************************************)
(* The autopilot of a deep-mode run (auto_advance.py): whenever a job      *)
(* leaves its lock, and on every sweep of the reaper, it looks at the      *)
(* state of the run and does what the user would: accepts a checkpoint,    *)
(* skips one, or starts the next phase by the endpoints of RunLifecycle.   *)
(* A pilot is one call of maybe_advance; it is a request like any other,   *)
(* and competes with the users for the lock.                               *)
(***************************************************************************)
EXTENDS RunProperties

CONSTANTS
    Pilots,
    Sweeper     \* the pilot of the reaper; the others are called by the hook

ASSUME PilotsAssumption == Pilots \subseteq Requests /\ Sweeper \in Pilots

VARIABLES
    due,     \* jobs that have released their lock and not yet called the hook
    goal     \* per pilot, the phase it starts after its checkpoint, or "none"

pilotVars == <<due, goal>>
autoVars == <<vars, pilotVars>>

AutoInit ==
    /\ Init
    /\ due = {}
    /\ goal = [r \in Pilots |-> "none"]

\* States from which the autopilot never goes on.
PauseStates == FailureStates \cup {"CANCELLED"}

\* _DISPATCH: claim the phase's lock and queue it; accept the checkpoint that
\* starts it and then start it; start it; or move the run past a check.
How(h, p) == [how |-> h, phase |-> p]
Dispatch ==
    [DOMAIN_LOADED               |-> How("claim", "proposal"),
     USER_PROPOSAL_REVIEW        |-> How("checkpoint", "scout"),
     USER_SEARCH_REVIEW          |-> How("start", "curator"),
     USER_DEEP_DIVE_REVIEW       |-> How("start", "synthesizer"),
     USER_FIELD_REVIEW           |-> How("start", "framework_lens"),
     USER_LENS_REVIEW            |-> How("start", "ideator"),
     USER_NOVELTY_REVIEW         |-> How("checkpoint", "drafter"),
     DRAFTER_RUNNING             |-> How("claim", "stylist"),
     USER_REVISION_REVIEW        |-> How("start", "critic"),
     USER_EXTERNAL_SCAN_APPROVAL |-> How("skip", "none"),
     USER_INTEGRITY_REVIEW       |-> How("skip", "none"),
     USER_FINAL_ACCEPTANCE       |-> How("start", "exports")]

\* Mutant of Drafted: the drafter is expected to move the run by itself.
Drafted_Never == FALSE

\* _phase_finished_without_transition, and the lock is free.
Drafted == "drafter" \in Phases /\ lock = NoLock /\ round["drafter"] = "closed"

\* maybe_advance finds a handler that acts, of this kind.
Handler(how) ==
    /\ state \in DOMAIN Dispatch
    /\ Dispatch[state].how = how
    /\ Dispatch[state].phase \in Phases \cup {"none"}
    /\ state = "DRAFTER_RUNNING" => Drafted
Idles == \A how \in {"claim", "checkpoint", "start", "skip"} : ~ Handler(how)
-----------------------------------------------------------------------------
(* maybe_advance, up to its first commit.                                   *)

\* _advance_domain_loaded and _advance_drafter_running go straight to the claim.
AdvanceByClaim(r) ==
    /\ Handler("claim")
    /\ req' = [req EXCEPT ![r] = [pc |-> "claim", phase |-> Dispatch[state].phase,
                                  token |-> NoToken]]
    /\ UNCHANGED <<row, events, work, job, budget, history, goal>>

\* _advance_proposal_review and _advance_novelty_review: the checkpoint claims
\* the lock, moves the run and queues the job; the start endpoint comes on top.
AdvanceByCheckpoint(r) ==
    /\ Handler("checkpoint")
    /\ AcceptRead(r, Dispatch[state].phase)
    /\ goal' = [goal EXCEPT ![r] = Dispatch[state].phase]

\* The other reviews record their decision, if any, and then start the phase.
AdvanceByStart(r) ==
    /\ Handler("start")
    /\ goal' = [goal EXCEPT ![r] = Dispatch[state].phase]
    /\ UNCHANGED vars

\* _advance_external_scan_approval and _advance_integrity_review.
AdvanceBySkip ==
    /\ Handler("skip")
    /\ ~deleted
    /\ state' = "USER_FINAL_ACCEPTANCE"
    /\ scan' = (scan /\ state # "USER_EXTERNAL_SCAN_APPROVAL")
    /\ UNCHANGED <<lock, cancel, deleted, cancelFrom, events, work, req, job, budget,
                   history, goal>>

Advance(r) ==
    /\ req[r].pc = "idle"
    /\ goal[r] = "none"
    /\ \/ AdvanceByClaim(r)
       \/ AdvanceByCheckpoint(r)
       \/ AdvanceByStart(r)
       \/ AdvanceBySkip

\* _maybe_trigger_auto_advance: the process that has released the lock.
Hook(r) ==
    r # Sweeper /\ \E t \in due :
        /\ due' = due \ {t}
        /\ \/ Advance(r)
           \/ Idles /\ UNCHANGED <<vars, goal>>

\* resume_auto_advance_idle_runs, after the sweep of the reaper.
Resume(r) ==
    /\ r = Sweeper
    /\ lock = NoLock
    /\ ~deleted
    /\ ~cancel
    /\ Advance(r)
    /\ UNCHANGED due
-----------------------------------------------------------------------------
(* maybe_advance, after its first commit.                                   *)

\* The next unused token: all are alike.
Fresh == CHOOSE t \in Tokens : job[t].pc = "unused"
AnyFresh == \E t \in Tokens : job[t].pc = "unused"

\* Its request fails: the exception ends the whole call.
GivesUp(r) == goal' = [goal EXCEPT ![r] = "none"]

\* Its checkpoint, or the claim that follows its start endpoint.
PilotRequest(r) ==
    /\ \/ AnyFresh /\ Claim(r, Fresh)
       \/ Conflict(r)
       \/ Move(r)
       \/ Enqueue(r)
    /\ IF req[r].pc = "enqueue" \/ req'[r].pc # "idle" THEN UNCHANGED goal
                                                       ELSE GivesUp(r)
    /\ UNCHANGED due

PilotEnqueueFails(r) == EnqueueFails(r) /\ GivesUp(r) /\ UNCHANGED due
PilotCrash(r) == Crash(r) /\ GivesUp(r) /\ UNCHANGED due

\* What start_<p> does before it looks at its own guard.
Recovers(p) ==
    \/ \E q \in {p} \cup (IF p = "critic" THEN {"final_rewrite"} \cap Phases ELSE {}) :
          Zombie(q) /\ CanRewind(p, [phase |-> q, class |-> "partial"])
    \/ state = "FAILED_FIXABLE" /\ CanRewind(p, lastFailure)

\* start_<goal>, in whatever state it finds the run by now; a 409 is swallowed.
Launch(r) ==
    LET p == goal[r]
    IN /\ p # "none"
       /\ req[r].pc = "idle"
       /\ GivesUp(r)
       /\ UNCHANGED due
       /\ \/ StartRead(r, p)
          \/ AnyFresh /\ StartFromZombie(r, p, Fresh)
          \/ AnyFresh /\ StartFromFailure(r, p, Fresh)
          \/ /\ deleted \/ state \notin StartStates[p] \/ ~ Ready(p)
             /\ deleted \/ ~ Recovers(p)
             /\ UNCHANGED vars
-----------------------------------------------------------------------------
(* Everybody else.                                                          *)

\* phase_lock_release_on_exit: the hook comes after the release.
JobLeaves(t) == Leave(t) /\ due' = due \cup {t} /\ UNCHANGED goal

JobGoesOn(t) ==
    /\ \/ JobBegin(t) \/ Enter(t) \/ Refuse(t) \/ Wait(t) \/ Abort(t)
       \/ Finish(t) \/ FinishRaises(t) \/ Settle(t) \/ Chain(t)
    /\ UNCHANGED pilotVars

JobFaults(t) ==
    /\ AgentFail(t) \/ JobException(t) \/ Die(t) \/ Drop(t)
    /\ UNCHANGED pilotVars

\* The reaper, and time as far as its gate looks at it: while the run is in the
\* running state of p.
Sweeps(p) == state = RunningState[p] /\ Sweep(p) /\ UNCHANGED pilotVars

PilotStep(r) == Hook(r) \/ Resume(r) \/ PilotRequest(r) \/ Launch(r)

Step ==
    \/ \E r \in Pilots : PilotStep(r) \/ PilotEnqueueFails(r) \/ PilotCrash(r)
    \/ \E t \in Tokens : JobLeaves(t) \/ JobGoesOn(t) \/ JobFaults(t)
    \/ \E p \in Phases : Sweeps(p)

\* A run is followed up to the first recovery that takes the lock from a live
\* attempt: what the late commit of that attempt drops, nobody may be able to
\* bring back.  It is also followed no further than its tokens go.
OutOfBounds == disturbed \/ ~ AnyFresh
AutoNext == ~ OutOfBounds /\ Step

AutoFairness ==
    /\ \A r \in Pilots : /\ WF_autoVars(PilotRequest(r))
                         /\ WF_autoVars(Launch(r))
                         /\ WF_autoVars(Hook(r))
    /\ WF_autoVars(Resume(Sweeper))
    /\ \A t \in Tokens : WF_autoVars(JobLeaves(t) \/ JobGoesOn(t))
    /\ \A p \in Phases : WF_autoVars(Sweeps(p))

AutoSpec == AutoInit /\ [][AutoNext]_autoVars /\ AutoFairness

\* Without these bounds and with everybody else at work too: users may start, recover,
\* cancel and clear what the autopilot has started.
PilotedNext == Step \/ (Next /\ UNCHANGED pilotVars)
PilotedSpec == AutoInit /\ [][PilotedNext]_autoVars
-----------------------------------------------------------------------------
(* Properties.                                                              *)

\* The autopilot takes the run to its exports, unless a failure or a cancel hands
\* it back to the user: no gate is left without a handler, and no lost trigger,
\* refused enqueue or race between two triggers strands it (auto_advance.py:
\* "any other interruption").
Arrives == <>(OutOfBounds \/ state \in PauseStates \cup {"EXPORTS_DONE"})

\* Nor does it leave a lock behind when all processes live.
LocksComeBack == lock # NoLock ~> OutOfBounds \/ lock = NoLock
=============================================================================
