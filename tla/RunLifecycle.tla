---------------------------- MODULE RunLifecycle ----------------------------
(***************************************************************************)
(* One deep-mode run, and everything that drives it: the start, retry and  *)
(* checkpoint endpoints of main.py, which claim the run's phase lock and   *)
(* queue a job; the RQ workers, which run the agent of the phase under the *)
(* wrapper of phase_version.py; the zombie reaper; and the user's delete,  *)
(* restore, force-approve and clear-lock endpoints.                        *)
(*                                                                         *)
(* A token is one value of new_lock_token() together with the job it is    *)
(* handed to.  A step of the model is what happens between two commits of  *)
(* one process, so everybody else may act wherever the code has written    *)
(* something or has read something that it acts on later.                  *)
(***************************************************************************)
EXTENDS RunStates, Naturals, FiniteSets

CONSTANTS
    Phases,      \* the phases of the run that are looked at; final_rewrite is
                 \* one of them iff settings.final_rewrite_enabled
    Requests,    \* API requests being served at the same time
    Tokens,      \* lock tokens, one for every attempt at a phase
    NoToken,
    InitStates,  \* where the run may stand, with the artifacts of InitOutput
    InitOutput,
    Budget       \* how often each kind of fault or intervention happens

Interventions == {"crash", "enqueue", "die", "exception", "agentfail", "clear",
                  "cancel"}

ASSUME PhasesAssumption ==
    /\ Phases \subseteq DeepPhases
    /\ "final_rewrite" \in Phases => "critic" \in Phases
ASSUME TokenAssumption == NoToken \notin Tokens
ASSUME InitAssumption == /\ InitStates \subseteq RunState
                         /\ InitOutput \subseteq DeepPhases
ASSUME BudgetAssumption == Budget \in [Interventions -> Nat]

VARIABLES
    state,       \* runs.state
    lock,        \* runs.active_phase_lock, its job id, and whether its
                 \* claimed_at is older than the idle threshold
    cancel,      \* runs.cancel_requested_at is set
    deleted,     \* runs.deleted_at is set
    cancelFrom,  \* from_state of the newest state_transition to CANCELLED
    scan,        \* the newest external scan checkpoint approves of the scan
    round,       \* per phase, its newest phase_started / done / failed event
    quiet,       \* per phase, its newest event is older than the threshold
    lastFailure, \* phase and failure class of the newest phase_failed event
    output,      \* the phases with completed artifacts on disk
    running,     \* phase_versions rows that are 'running', by their job
    req,         \* the API requests
    job,         \* the attempts, from the claim of their token to its release
    budget,      \* what is left of Budget
    revoked,     \* history: tokens whose lock somebody else has cleared
    disturbed    \* history: that has happened to an attempt still under way

marks == <<cancel, deleted, cancelFrom, scan>>
row == <<state, lock, marks>>
events == <<round, quiet, lastFailure>>
work == <<output, running>>
history == <<revoked, disturbed>>
vars == <<row, events, work, req, job, budget, history>>

NoLock == [phase |-> "none", token |-> NoToken, aged |-> FALSE]
NoFailure == [phase |-> "none", class |-> "none"]
Idle == [pc |-> "idle", phase |-> "none", token |-> NoToken]
Unused == [pc |-> "unused", phase |-> "none", wrapped |-> FALSE, chained |-> FALSE]

\* A job in one of these steps has begun its run and is driven by a process.
Begun == {"begun", "working", "returned", "leaving"}
\* A job in one of these steps is still under way.
Live == Begun \cup {"claimed", "queued"}
\* A job in one of these steps has not released its token.
Owning == Live \cup {"dead", "swept", "lost", "leaked"}

LockType == [phase : Phases \cup {"none"}, token : Tokens \cup {NoToken}, aged : BOOLEAN]
RequestType == [pc : {"idle", "claim", "accept", "move", "enqueue"},
                phase : Phases \cup {"none"}, token : Tokens \cup {NoToken}]
JobType == [pc : Owning \cup {"unused", "gone"}, phase : Phases \cup {"none"},
            wrapped : BOOLEAN, chained : BOOLEAN]

TypeOK ==
    /\ state \in RunState
    /\ lock \in LockType
    /\ cancel \in BOOLEAN
    /\ deleted \in BOOLEAN
    /\ cancelFrom \in RunState \cup {"none"}
    /\ scan \in BOOLEAN
    /\ round \in [Phases -> {"none", "open", "closed"}]
    /\ quiet \in [Phases -> BOOLEAN]
    /\ lastFailure \in [phase : Phases \cup {"none"},
                        class : {"none", "partial", "graceful", "other"}]
    /\ output \subseteq DeepPhases
    /\ running \subseteq Tokens
    /\ req \in [Requests -> RequestType]
    /\ job \in [Tokens -> JobType]
    /\ budget \in [Interventions -> Nat]
    /\ revoked \subseteq Tokens
    /\ disturbed \in BOOLEAN

Init ==
    /\ state \in InitStates
    /\ lock = NoLock
    /\ cancel = FALSE
    /\ deleted = FALSE
    /\ cancelFrom = "none"
    /\ scan = FALSE
    /\ round = [p \in Phases |-> IF p \in InitOutput THEN "closed" ELSE "none"]
    /\ quiet = [p \in Phases |-> FALSE]
    /\ lastFailure = NoFailure
    /\ output = InitOutput
    /\ running = {}
    /\ req = [r \in Requests |-> Idle]
    /\ job = [t \in Tokens |-> Unused]
    /\ budget = Budget
    /\ revoked = {}
    /\ disturbed = FALSE
-----------------------------------------------------------------------------
(* Helpers.                                                                 *)

\* One more fault of this kind.
Spend(kind) ==
    /\ budget[kind] > 0
    /\ budget' = [budget EXCEPT ![kind] = @ - 1]

\* The newest event of p opens or closes a round of the phase.
Recorded(p, how) ==
    /\ round' = [round EXCEPT ![p] = how]
    /\ quiet' = [quiet EXCEPT ![p] = FALSE]

Failed(p, class) ==
    /\ Recorded(p, "closed")
    /\ lastFailure' = [phase |-> p, class |-> class]

\* What a phase that did not succeed leaves on disk: the artifacts of the
\* version before it, or possibly enough of its own to pass for completed ones.
PartialOutput(p) ==
    \E more \in {{}, {p} \ {"final_rewrite"}} : output' = output \cup more

Goto(t, pc) == job' = [job EXCEPT ![t].pc = pc]

\* Mutant of Ready: the state guard alone decides.
Ready_StateOnly(p) == p \in DeepPhases

\* assert_phase_ready: the artifacts the phase reads are there.
Ready(p) == Needs[p] \subseteq output /\ (p = "integrity" => scan)

\* start_critic runs the rewrite first when it is enabled.
ClaimPhase(p) ==
    IF p = "critic" /\ "final_rewrite" \in Phases THEN "final_rewrite" ELSE p

\* claim_phase_lock found the lock free, and the caller has committed.  The
\* token goes to a job the request still has to queue; a phase without an
\* enqueuer runs right here, and the rewrite cannot be kicked off by a retry.
Claimed(r, t, p, next) ==
    /\ job[t].pc = "unused"
    /\ lock' = [phase |-> p, token |-> t, aged |-> FALSE]
    /\ LET pc == CASE p \in Inline                              -> "queued"
                   [] p = "final_rewrite" /\ next = "kickoff"   -> "leaked"
                   [] OTHER                                     -> "claimed"
       IN /\ job' = [job EXCEPT ![t] = [Unused EXCEPT !.pc = pc, !.phase = p]]
          /\ req' = [req EXCEPT ![r] =
                         IF pc # "claimed" THEN Idle
                         ELSE [pc    |-> IF next = "move" THEN "move" ELSE "enqueue",
                               phase |-> p,
                               token |-> t]]

\* force_clear_phase_lock, whoever the owner is.
Revoke ==
    LET owner == {lock.token} \ {NoToken}
    IN /\ revoked' = revoked \cup owner
       /\ disturbed' = (disturbed \/ \E t \in owner : job[t].pc \in Live)

\* Mutant of Release: the token is not compared.
Release_AnyOwner(t) == lock' = IF lock.phase = job[t].phase THEN NoLock ELSE lock

\* release_phase_lock: the phase and the token must still be those of the row.
Release(t) ==
    lock' = IF lock.phase = job[t].phase /\ lock.token = t THEN NoLock ELSE lock

\* Mutant of Zombie: an old lock is enough, events are not looked at.
Zombie_LockOnly(p) ==
    /\ state = RunningState[p]
    /\ round[p] # "closed"
    /\ lock = NoLock \/ lock.aged

\* Mutant of Zombie: a phase whose lock is still held is never recovered.
Zombie_Unlocked(p) ==
    /\ state = RunningState[p]
    /\ round[p] # "closed"
    /\ lock = NoLock
    /\ round[p] = "none" \/ quiet[p]

\* The compound gate of _recover_zombie_running_phase.
Zombie(p) ==
    /\ state = RunningState[p]
    /\ round[p] # "closed"
    /\ lock = NoLock \/ lock.aged
    /\ round[p] = "none" \/ quiet[p]

\* _recover_failed_fixable_for_phase rewinds to the input state of p, given
\* the newest failure: always when p has no output, otherwise only when p is
\* what failed and its worker died or raised.
CanRewind(p, failure) ==
    /\ p # "final_rewrite"
    /\ \/ p \notin output
       \/ p # "proposal" /\ failure = [phase |-> p, class |-> "partial"]
-----------------------------------------------------------------------------
(* The endpoints that start a phase.                                        *)

\* Every endpoint but start_proposal refuses a deleted run.
Touchable(p) == ~deleted \/ p = "proposal"

\* start_<p> passes its state guard and its readiness check.
StartRead(r, p) ==
    /\ req[r].pc = "idle"
    /\ Touchable(p)
    /\ state \in StartStates[p]
    /\ Ready(p) \/ p = "ideator"
    /\ req' = [req EXCEPT ![r] = [pc |-> "claim", phase |-> p, token |-> NoToken]]
    /\ UNCHANGED <<row, events, work, job, budget, history>>

\* A checkpoint decision that starts p passes its state guard.
AcceptRead(r, p) ==
    /\ req[r].pc = "idle"
    /\ ~deleted
    /\ state \in CheckpointStates[p]
    /\ req' = [req EXCEPT ![r] = [pc |-> "accept", phase |-> p, token |-> NoToken]]
    /\ UNCHANGED <<row, events, work, job, budget, history>>

\* Mutant of Claim: the UPDATE does not test the lock.
Claim_Unconditional(r, t) ==
    /\ req[r].pc \in {"claim", "accept"}
    /\ IF req[r].pc = "claim"
       THEN Claimed(r, t, ClaimPhase(req[r].phase), "enqueue")
       ELSE Claimed(r, t, req[r].phase, "move")
    /\ UNCHANGED <<state, marks, events, work, budget, history>>

\* _claim_or_409: one UPDATE that tests the lock and nothing but the lock.
Claim(r, t) ==
    /\ req[r].pc \in {"claim", "accept"}
    /\ lock = NoLock
    /\ IF req[r].pc = "claim"
       THEN Claimed(r, t, ClaimPhase(req[r].phase), "enqueue")
       ELSE Claimed(r, t, req[r].phase, "move")
    /\ UNCHANGED <<state, marks, events, work, budget, history>>

Conflict(r) ==
    /\ req[r].pc \in {"claim", "accept"}
    /\ lock # NoLock
    /\ req' = [req EXCEPT ![r] = Idle]
    /\ UNCHANGED <<row, events, work, job, budget, history>>

\* The checkpoint moves the run to the running state before it queues the job,
\* or releases the lock when the run has left the review state meanwhile.
Move(r) ==
    /\ req[r].pc = "move"
    /\ LET p == req[r].phase
           t == req[r].token
       IN IF Allowed(state, RunningState[p])
          THEN /\ state' = RunningState[p]
               /\ req' = [req EXCEPT ![r].pc = "enqueue"]
               /\ UNCHANGED <<lock, job>>
          ELSE /\ Release(t)
               /\ Goto(t, "gone")
               /\ req' = [req EXCEPT ![r] = Idle]
               /\ UNCHANGED state
    /\ UNCHANGED <<marks, events, work, budget, history>>

Enqueue(r) ==
    /\ req[r].pc = "enqueue"
    /\ Goto(req[r].token, "queued")
    /\ req' = [req EXCEPT ![r] = Idle]
    /\ UNCHANGED <<row, events, work, budget, history>>

\* Mutant of EnqueueFails: the exception goes straight to the client.
EnqueueFails_KeepsLock(r) ==
    /\ req[r].pc = "enqueue"
    /\ Spend("enqueue")
    /\ Goto(req[r].token, "lost")
    /\ req' = [req EXCEPT ![r] = Idle]
    /\ UNCHANGED <<row, events, work, history>>

\* queue.enqueue raises: _release_after_enqueue_failure, and nothing else.
EnqueueFails(r) ==
    /\ req[r].pc = "enqueue"
    /\ Spend("enqueue")
    /\ Release(req[r].token)
    /\ Goto(req[r].token, "gone")
    /\ req' = [req EXCEPT ![r] = Idle]
    /\ UNCHANGED <<state, marks, events, work, history>>

\* The API process dies between the commit of the claim and the enqueue.
Crash(r) ==
    /\ req[r].pc \in {"move", "enqueue"}
    /\ Spend("crash")
    /\ Goto(req[r].token, "lost")
    /\ req' = [req EXCEPT ![r] = Idle]
    /\ UNCHANGED <<row, events, work, history>>

\* start_<p> on a zombie of its phase: recovered, rewound and claimed in one
\* transaction.  start_critic recovers a zombie rewrite as well.
StartFromZombie(r, p, t) ==
    /\ req[r].pc = "idle"
    /\ Touchable(p)
    /\ \E q \in {p} \cup (IF p = "critic" THEN {"final_rewrite"} \cap Phases ELSE {}) :
          /\ Zombie(q)
          /\ CanRewind(p, [phase |-> q, class |-> "partial"])
          /\ running' = {u \in running : job[u].phase # q}
          /\ Failed(q, "partial")
    /\ Ready(p) \/ p = "ideator"
    /\ Revoke
    /\ state' = InputState[p]
    /\ Claimed(r, t, ClaimPhase(p), "enqueue")
    /\ UNCHANGED <<marks, output, budget>>

\* start_<p> on a failed run, whatever phase has failed.
StartFromFailure(r, p, t) ==
    /\ req[r].pc = "idle"
    /\ Touchable(p)
    /\ state = "FAILED_FIXABLE"
    /\ CanRewind(p, lastFailure)
    /\ Ready(p) \/ p = "ideator"
    /\ Revoke
    /\ state' = InputState[p]
    /\ Claimed(r, t, ClaimPhase(p), "enqueue")
    /\ UNCHANGED <<marks, events, work, budget>>

\* retry_failed_phase, where it starts the phase again.  It claims the lock
\* whether or not there was something to rewind.
Retry(r, p, t) ==
    /\ req[r].pc = "idle"
    /\ ~deleted
    /\ state = "FAILED_FIXABLE"
    /\ lastFailure.phase \in {p, "none"}
    /\ \/ p = "proposal"
       \/ lastFailure.class = "partial"
       \/ p \notin output /\ lastFailure.class # "graceful"
    /\ Ready(p)
    /\ IF CanRewind(p, lastFailure)
       THEN Revoke /\ state' = InputState[p]
       ELSE lock = NoLock /\ UNCHANGED <<state, history>>
    /\ Claimed(r, t, p, "kickoff")
    /\ UNCHANGED <<marks, events, work, budget>>
-----------------------------------------------------------------------------
(* The job: the agent of one phase, in the wrapper of phase_version.py and  *)
(* in phase_lock_release_on_exit.                                           *)

\* maybe_run_with_versioning: the attempt gets a row of its own unless one of
\* its phase is still 'running'; then, or outside the version graph, it has none.
Wraps(p) == p \in Versioned /\ \A u \in running : job[u].phase # p

Begin(t, p, chained) ==
    /\ job' = [job EXCEPT ![t] = [pc |-> "begun", phase |-> p,
                                  wrapped |-> Wraps(p), chained |-> chained]]
    /\ running' = IF Wraps(p) THEN running \cup {t} ELSE running

\* A worker takes the job from the queue.
JobBegin(t) ==
    /\ job[t].pc = "queued"
    /\ Begin(t, job[t].phase, FALSE)
    /\ UNCHANGED <<row, events, output, req, budget, history>>

\* The agent has returned: what is left of its version and of its chain.
AfterBody(t) ==
    IF job[t].wrapped \/ job[t].phase = "final_rewrite" THEN "returned" ELSE "leaving"

\* The agent raises.  The wrapper gives the version up, moves the run to
\* FAILED_FIXABLE if it can and records the failure; without one nothing is.
Raised(t) ==
    LET p == job[t].phase
    IN /\ IF job[t].wrapped
          THEN /\ running' = running \ {t}
               /\ state' = IF Allowed(state, "FAILED_FIXABLE") THEN "FAILED_FIXABLE"
                                                               ELSE state
               /\ Failed(p, "partial")
          ELSE UNCHANGED <<running, state, events>>
       /\ Goto(t, "leaving")
       /\ UNCHANGED <<lock, marks, req, history>>

\* The integrity agent finds that its approval is gone, and returns.
Waits(p) == p = "integrity" /\ ~scan

\* The agent finds a state it accepts, moves the run to its running state and
\* records phase_started.
Enter(t) ==
    LET p == job[t].phase
    IN /\ job[t].pc = "begun"
       /\ ~cancel
       /\ state \in AgentStates[p]
       /\ ~ Waits(p)
       /\ state' = RunningState[p]
       /\ Recorded(p, "open")
       /\ Goto(t, "working")
       /\ UNCHANGED <<lock, marks, lastFailure, work, req,
                      budget, history>>

\* The agent refuses the state it finds, which it reports as an exception.
Refuse(t) ==
    /\ job[t].pc = "begun"
    /\ ~cancel
    /\ state \notin AgentStates[job[t].phase]
    /\ Raised(t)
    /\ UNCHANGED <<output, budget>>

Wait(t) ==
    LET p == job[t].phase
    IN /\ job[t].pc = "begun"
       /\ ~cancel
       /\ state \in AgentStates[p]
       /\ Waits(p)
       /\ Recorded(p, IF round[p] = "none" THEN "open" ELSE round[p])
       /\ Goto(t, AfterBody(t))
       /\ UNCHANGED <<row, lastFailure, work, req, budget, history>>

\* assert_run_active finds a cancel: the run is CANCELLED, or stays in the state
\* that does not allow it, and RunCancelled unwinds the agent.
Abort(t) ==
    /\ \/ job[t].pc = "begun"
       \/ job[t].pc = "working" /\ job[t].phase \in MidPhaseChecks
    /\ cancel
    /\ IF Allowed(state, "CANCELLED")
       THEN state' = "CANCELLED" /\ cancelFrom' = state
       ELSE UNCHANGED <<state, cancelFrom>>
    /\ running' = running \ {t}
    /\ Goto(t, "leaving")
    /\ UNCHANGED <<lock, cancel, deleted, scan, events, output, req, budget, history>>

\* The agent writes its result without a look at the row: no assert_run_active.
Unchecked(t) == job[t].pc = "working" /\ job[t].phase \notin ChecksBeforeDone

\* What the agent's session then holds of runs.state: the state the agent set
\* itself, unless a commit has reloaded it since.
Seen(t) == {state} \cup (IF Unchecked(t) THEN {RunningState[job[t].phase]} ELSE {})

\* The agent succeeds.  The drafter records phase_done and moves the run nowhere.
Finish(t) ==
    LET p == job[t].phase
    IN /\ job[t].pc = "working"
       /\ cancel => Unchecked(t)
       /\ IF p = "drafter"
          THEN UNCHANGED state
          ELSE /\ \E seen \in Seen(t) : Allowed(seen, DoneState[p])
               /\ state' = DoneState[p]
       /\ Recorded(p, "closed")
       /\ output' = output \cup ({p} \ {"final_rewrite"})
       /\ Goto(t, AfterBody(t))
       /\ UNCHANGED <<lock, marks, lastFailure, running, req,
                      budget, history>>

\* The state the run is in by now does not allow the agent's result.
FinishRaises(t) ==
    LET p == job[t].phase
    IN /\ job[t].pc = "working"
       /\ p # "drafter"
       /\ cancel => Unchecked(t)
       /\ ~ Allowed(state, DoneState[p])
       /\ output' = output \cup ({p} \ {"final_rewrite"})
       /\ Raised(t)
       /\ UNCHANGED budget

\* The agent decides that the phase has failed, some before they have started.
AgentFail(t) ==
    LET p == job[t].phase
    IN /\ \/ job[t].pc = "working"
          \/ job[t].pc = "begun" /\ p \in FailsEarly /\ state \in AgentStates[p]
       /\ cancel => Unchecked(t)
       /\ Spend("agentfail")
       /\ \E seen \in Seen(t), f \in AgentFailures[p] :
             /\ Allowed(seen, f) \/ (p \in FailsEarly /\ seen = f)
             /\ state' = f
       /\ Failed(p, AgentFailureClass(p))
       /\ PartialOutput(p)
       /\ Goto(t, AfterBody(t))
       /\ UNCHANGED <<lock, marks, running, req, history>>

\* Any other exception inside the agent, RQ's job timeout included.
JobException(t) ==
    /\ job[t].pc = "working"
    /\ Spend("exception")
    /\ PartialOutput(job[t].phase)
    /\ Raised(t)

\* The wrapper commits the version, and with it drops the artifacts of the
\* phases after it, unless it finds the run in a failure state by now.
Settle(t) ==
    /\ job[t].pc = "returned"
    /\ job[t].wrapped
    /\ running' = running \ {t}
    /\ output' = IF state \in FailureStates \ {"FAILED_NEEDS_USER"} THEN output
                 ELSE output \ Downstream(job[t].phase)
    /\ Goto(t, "leaving")
    /\ UNCHANGED <<row, events, req, budget, history>>

\* transfer_phase_lock finds its phase and its token in the row.
Transfers(t) == lock.phase = "final_rewrite" /\ lock.token = t

\* run_final_rewrite_then_critic: the lock is handed to the critic, and the same
\* job goes on with it; if the lock is no longer ours the job ends here.
Chain(t) ==
    /\ job[t].pc = "returned"
    /\ job[t].phase = "final_rewrite"
    /\ IF state = "CRITIC_RUNNING" /\ Transfers(t)
       THEN /\ lock' = [phase |-> "critic", token |-> t, aged |-> FALSE]
            /\ Begin(t, "critic", TRUE)
       ELSE Goto(t, "leaving") /\ UNCHANGED <<lock, running>>
    /\ UNCHANGED <<state, marks, events, output, req, budget,
                   history>>

\* phase_lock_release_on_exit.
Leave(t) ==
    /\ job[t].pc = "leaving"
    /\ Release(t)
    /\ Goto(t, "gone")
    /\ UNCHANGED <<state, marks, events, work, req, budget,
                   history>>

\* The process that runs the job is killed.
Die(t) ==
    /\ job[t].pc \in Begun
    /\ Spend("die")
    /\ IF job[t].pc = "working" THEN PartialOutput(job[t].phase) ELSE UNCHANGED output
    /\ Goto(t, "dead")
    /\ UNCHANGED <<row, events, running, req, history>>

\* Redis drops the queued job; an inline one dies with its API process.
Drop(t) ==
    /\ job[t].pc = "queued"
    /\ Spend("die")
    /\ Goto(t, "lost")
    /\ UNCHANGED <<row, events, work, req, history>>
-----------------------------------------------------------------------------
(* Time, and the zombie reaper.                                             *)

\* The job is in the hands of an RQ worker, whose timeout for this phase is ten
\* minutes shorter than the idle threshold of the phase.
Timed(t) == /\ job[t].pc \in Begun
            /\ job[t].phase \notin Inline
            /\ ~ job[t].chained

\* A lock outlives the threshold: its job waits in the queue, is gone, or is not
\* bounded by that timeout.
LockAges ==
    /\ lock # NoLock
    /\ ~ lock.aged
    /\ ~ Timed(lock.token)
    /\ lock' = [lock EXCEPT !.aged = TRUE]
    /\ UNCHANGED <<state, marks, events, work, req, job, budget,
                   history>>

\* No event of p for as long as the threshold.
FallsQuiet(p) ==
    /\ round[p] # "none"
    /\ ~ quiet[p]
    /\ \A t \in Tokens : job[t].phase = p => ~ Timed(t)
    /\ quiet' = [quiet EXCEPT ![p] = TRUE]
    /\ UNCHANGED <<row, round, lastFailure, work, req, job, budget, history>>

\* reap_zombies_once and recover_stuck_phase.
Reap(p) ==
    /\ Zombie(p)
    /\ state' = "FAILED_FIXABLE"
    /\ lock' = NoLock
    /\ Revoke
    /\ running' = {u \in running : job[u].phase # p}
    /\ Failed(p, "partial")
    /\ UNCHANGED <<marks, output, req, job, budget>>

\* fast_path_dead_workers_orphan_phase_locks: a started job without a worker
\* ages the lock of the run, if that lock names the phase the run is in.  It makes
\* the lock one hour old, which may be less than the threshold, and than it was.
FastPath(t) ==
    /\ job[t].pc = "dead"
    /\ job[t].phase \notin Inline
    /\ \E p \in Phases : /\ state = RunningState[p]
                         /\ lock.phase = p
                         /\ round[p] # "closed"
    /\ lock' = [lock EXCEPT !.aged = lock.phase \notin OverAnHour]
    /\ Goto(t, "swept")
    /\ UNCHANGED <<state, marks, events, work, req, budget,
                   history>>
-----------------------------------------------------------------------------
(* The user's other endpoints.                                              *)

\* clear_phase_lock.
ForceClear ==
    /\ ~deleted
    /\ lock # NoLock
    /\ Spend("clear")
    /\ Revoke
    /\ lock' = NoLock
    /\ UNCHANGED <<state, marks, events, work, req, job>>

\* force_approve_run.
ForceApprove ==
    /\ ~deleted
    /\ \/ /\ state = "FAILED_VENDOR"
          /\ state' = "USER_FINAL_ACCEPTANCE"
       \/ /\ state = "FAILED_POLICY" /\ lastFailure.phase = "exports"
          /\ state' = "USER_FINAL_ACCEPTANCE"
       \/ /\ state \in FailureStates \ {"FAILED_VENDOR"}
          /\ lastFailure.phase \in output
          /\ state' = ReviewState[lastFailure.phase]
    /\ UNCHANGED <<lock, marks, events, work, req, job, budget,
                   history>>

\* The external scan checkpoint approves of the scan, rejects it, or skips it and
\* moves the run on; none of them looks at the lock.
DecideScan ==
    /\ ~deleted
    /\ state \in {"USER_EXTERNAL_SCAN_APPROVAL", "FAILED_VENDOR"}
    /\ \/ scan' = TRUE /\ UNCHANGED state
       \/ scan' = FALSE /\ state' \in {state, "USER_FINAL_ACCEPTANCE"}
    /\ UNCHANGED <<lock, cancel, deleted, cancelFrom, events, work, req, job, budget,
                   history>>

\* The integrity review checkpoint accepts the findings.
AcceptIntegrity ==
    /\ ~deleted
    /\ state = "USER_INTEGRITY_REVIEW"
    /\ state' = "USER_FINAL_ACCEPTANCE"
    /\ UNCHANGED <<lock, marks, events, work, req, job, budget, history>>

\* Mutant of Delete: the endpoint cancels the run itself.
Delete_CancelsAtOnce ==
    /\ ~deleted
    /\ Spend("cancel")
    /\ deleted' = TRUE
    /\ cancel' = TRUE
    /\ state' = "CANCELLED"
    /\ UNCHANGED <<lock, cancelFrom, scan, events, work, req, job, history>>

\* delete_run.
Delete ==
    /\ ~deleted
    /\ Spend("cancel")
    /\ deleted' = TRUE
    /\ cancel' = (cancel \/ state \notin TerminalStates)
    /\ UNCHANGED <<state, lock, cancelFrom, scan, events, work, req, job, history>>

\* restore_run.
Restore ==
    /\ deleted
    /\ lock = NoLock
    /\ deleted' = FALSE
    /\ cancel' = (cancel /\ state \in RunningStates \cup {"CANCELLED"})
    /\ UNCHANGED <<state, lock, cancelFrom, scan, events, work, req, job, budget,
                   history>>

\* clear_run_cancel_intent.
ClearCancel ==
    /\ ~deleted
    /\ cancel
    /\ state = "CANCELLED"
    /\ cancelFrom \in DOMAIN Successors \ RunningStates
    /\ cancel' = FALSE
    /\ state' = cancelFrom
    /\ UNCHANGED <<lock, deleted, cancelFrom, scan, events, work, req, job, budget,
                   history>>
-----------------------------------------------------------------------------
RequestStep(r) ==
    \/ \E t \in Tokens : Claim(r, t)
    \/ Conflict(r)
    \/ Move(r)
    \/ Enqueue(r)

JobStep(t) ==
    \/ JobBegin(t)
    \/ Enter(t)
    \/ Refuse(t)
    \/ Wait(t)
    \/ Abort(t)
    \/ Finish(t)
    \/ FinishRaises(t)
    \/ Settle(t)
    \/ Chain(t)
    \/ Leave(t)

Sweep(p) == LockAges \/ FallsQuiet(p) \/ Reap(p)

Next ==
    \/ \E r \in Requests :
          \/ RequestStep(r)
          \/ EnqueueFails(r)
          \/ Crash(r)
          \/ \E p \in Phases :
                \/ StartRead(r, p)
                \/ AcceptRead(r, p)
                \/ \E t \in Tokens : \/ StartFromZombie(r, p, t)
                                     \/ StartFromFailure(r, p, t)
                                     \/ Retry(r, p, t)
    \/ \E t \in Tokens : \/ JobStep(t)
                         \/ AgentFail(t)
                         \/ JobException(t)
                         \/ Die(t)
                         \/ Drop(t)
                         \/ FastPath(t)
    \/ \E p \in Phases : Sweep(p)
    \/ ForceClear
    \/ ForceApprove
    \/ DecideScan
    \/ AcceptIntegrity
    \/ Delete
    \/ Restore
    \/ ClearCancel

Spec == Init /\ [][Next]_vars
=============================================================================
