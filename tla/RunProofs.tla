----------------------------- MODULE RunProofs -----------------------------
(***************************************************************************)
(* Type correctness of a run's lifecycle, and that whoever holds its lock  *)
(* is alone, for any phases, requests, tokens and budgets of faults.       *)
(*                                                                         *)
(* HolderIsAlone is not inductive: a release, a hand-over or an enqueue    *)
(* that follows an arbitrary state might hit somebody else's lock.  The    *)
(* invariant adds that the token in the lock names an attempt under way    *)
(* for the phase in the lock, that a request about to queue a job is the   *)
(* only one to hold it, and that what was given up had been claimed.       *)
(* The proof goes through a few lemmas, one for each way in which a step   *)
(* of any process touches the lock and the jobs.                           *)
(*                                                                         *)
(* The second part shows that the lifecycle implements PhaseAttempts: the  *)
(* same invariant says that the owner named in the lock is under way and   *)
(* was not given up, and that nobody else is current.  From PhaseAttempts  *)
(* alone follows that attempts are alone and that what was given up stays  *)
(* given up.                                                               *)
(*                                                                         *)
(* The third part is what the state of a run promises: zombies are dead,   *)
(* the end of a phase has its artifacts, and a cancelled run stays         *)
(* cancelled.                                                              *)
(*                                                                         *)
(* None of it is inductive.  That a zombie is dead needs that an agent in  *)
(* the hands of a worker has an event of its own which no threshold has    *)
(* passed, whatever became of its lock.  The other two hold because, until *)
(* a lock is cleared under a live attempt, there is one attempt under way  *)
(* and the state goes where it takes it: its running state while it works, *)
(* and, between its return and the commit of its version, one of the few   *)
(* states that it or a user can take the run to from there.  The invariant *)
(* of the first part says that the attempt is the only one.                *)
(*                                                                         *)
(* The fourth part shows all of that again with the autopilot at work      *)
(* beside the users: its steps are steps of the lifecycle but for two, and *)
(* these two leave what the first three parts have found invariant.        *)
(***************************************************************************)
EXTENDS AutoAdvance, TLAPS
-----------------------------------------------------------------------------
(* What the tables of RunStates map phases to.                              *)

LEMMA PhaseNames ==
    /\ Versioned = {"scout", "curator", "synthesizer", "tension_extraction",
                    "framework_lens", "ideator", "drafter", "stylist", "critic",
                    "integrity", "exports"}
    /\ DeepPhases = {"scout", "curator", "synthesizer", "tension_extraction",
                    "framework_lens", "ideator", "drafter", "stylist", "critic",
                    "integrity", "exports", "proposal", "final_rewrite"}
<1>1. Len(PHASES) = 11
  BY DEF PHASES
<1>2. 1..Len(PHASES) = {1,2,3,4,5,6,7,8,9,10,11}
  BY <1>1
<1>3. Versioned = {"scout", "curator", "synthesizer", "tension_extraction",
                    "framework_lens", "ideator", "drafter", "stylist", "critic",
                    "integrity", "exports"}
  BY <1>2 DEF PHASES, Versioned
<1>4. QED
  BY <1>3 DEF DeepPhases

LEMMA Tables ==
    /\ RunningState \in [DeepPhases -> RunState]
    /\ DoneState \in [DeepPhases -> RunState]
    /\ ReviewState \in [DeepPhases -> RunState]
    /\ \A p \in DeepPhases \ {"final_rewrite"} : InputState[p] \in RunState
    /\ \A p \in DeepPhases : AgentFailures[p] \subseteq RunState
<1>1. RunningState \in [DeepPhases -> RunState]
  BY PhaseNames DEF RunningState, RunState, RunningStates
<1>2. DoneState \in [DeepPhases -> RunState]
  BY <1>1, PhaseNames DEF DoneState, RunState, RunningStates, ReviewStates, RunningState
<1>3. ReviewState \in [DeepPhases -> RunState]
  BY <1>1, PhaseNames DEF ReviewState, RunState, RunningStates, ReviewStates
<1>4. \A p \in DeepPhases \ {"final_rewrite"} : InputState[p] \in RunState
  BY PhaseNames DEF InputState, RunState, ReviewStates
<1>5. \A p \in DeepPhases : AgentFailures[p] \subseteq RunState
  BY PhaseNames DEF AgentFailures, RunState, FailureStates
<1>6. QED
  BY <1>1, <1>2, <1>3, <1>4, <1>5
-----------------------------------------------------------------------------
(* The inductive invariant.                                                 *)

\* Every job was handed out for a phase of the run, and so was every request.
PhasesAreKnown ==
    /\ \A t \in Tokens : job[t].pc # "unused" => job[t].phase \in Phases
    /\ \A r \in Requests : req[r].pc # "idle" => req[r].phase \in Phases

\* A request that has claimed the lock is about to queue a job of its own.
RequestsHoldJobs ==
    \A r \in Requests : req[r].pc \in {"move", "enqueue"} =>
        /\ req[r].token \in Tokens
        /\ job[req[r].token].pc = "claimed"
        /\ \A s \in Requests :
               req[s].pc \in {"move", "enqueue"} /\ req[s].token = req[r].token => s = r

\* Whoever is named in the lock has not released it, works on the phase that it
\* names, and was not given up.
OwnerIsUnderWay ==
    \A t \in Tokens : lock.token = t =>
        job[t].pc \in Owning /\ job[t].phase = lock.phase /\ t \notin revoked

\* A lock without a token is a free one.
FreeIsFree == lock.token = NoToken => lock = NoLock

\* Only what was claimed is ever given up.
FreshIsNotRevoked == \A t \in revoked : job[t].pc # "unused"

Ownership ==
    /\ RequestsHoldJobs
    /\ OwnerIsUnderWay
    /\ FreeIsFree
    /\ FreshIsNotRevoked
    /\ HolderIsAlone

Invariant == TypeOK /\ PhasesAreKnown /\ Ownership
-----------------------------------------------------------------------------
(* What the steps of the model do to the lock and to the jobs.              *)

LEMMA OwnershipStutters ==
    ASSUME Ownership, UNCHANGED <<lock, req, job, revoked>>
    PROVE  Ownership'
BY DEF Ownership, RequestsHoldJobs, OwnerIsUnderWay, FreeIsFree,
       FreshIsNotRevoked, HolderIsAlone

\* A job that no request holds goes on, or stops, without a look at the lock.
LEMMA OwnershipGoto ==
    ASSUME TypeOK, Ownership, NEW t \in Tokens, NEW pc \in Owning,
           job[t].pc \in Owning \ {"claimed"},
           Goto(t, pc),
           UNCHANGED <<lock, req, revoked>>
    PROVE  Ownership'
<1>1. \A u \in Tokens : job'[u] = IF u = t THEN [job[t] EXCEPT !.pc = pc] ELSE job[u]
  BY DEF LockType, RequestType, JobType, TypeOK, Goto
<1>2. /\ job'[t].pc = pc
      /\ job'[t].phase = job[t].phase
      /\ \A u \in Tokens : u # t => job'[u] = job[u]
  BY <1>1 DEF LockType, RequestType, JobType, TypeOK
<1>3. "unused" \notin Owning
  BY DEF Owning, Live, Begun
<1>4. RequestsHoldJobs'
  BY <1>2 DEF Ownership, RequestsHoldJobs
<1>5. OwnerIsUnderWay'
  BY <1>2 DEF Ownership, OwnerIsUnderWay
<1>6. FreshIsNotRevoked'
  BY <1>2, <1>3 DEF LockType, RequestType, JobType, Ownership, FreshIsNotRevoked, TypeOK
<1>7. HolderIsAlone'
  BY <1>2 DEF Ownership, HolderIsAlone
<1>8. QED
  BY <1>4, <1>5, <1>6, <1>7 DEF Ownership, FreeIsFree

\* A request that holds a job passes it on, or forgets about it.
LEMMA OwnershipHandsOn ==
    ASSUME TypeOK, Ownership, NEW r \in Requests, NEW pc \in Owning,
           req[r].pc \in {"move", "enqueue"},
           Goto(req[r].token, pc),
           req' = [req EXCEPT ![r] = Idle],
           UNCHANGED <<lock, revoked>>
    PROVE  Ownership'
<1> DEFINE t == req[r].token
<1>1. t \in Tokens /\ job[t].pc = "claimed"
  BY DEF Ownership, RequestsHoldJobs
<1>2. /\ job'[t].pc = pc
      /\ job'[t].phase = job[t].phase
      /\ \A u \in Tokens : u # t => job'[u] = job[u]
  BY <1>1 DEF LockType, RequestType, JobType, TypeOK, Goto
<1>3. /\ req'[r] = Idle
      /\ \A s \in Requests : s # r => req'[s] = req[s]
  BY DEF LockType, RequestType, JobType, TypeOK
<1>4. "unused" \notin Owning /\ "claimed" \in Owning
  BY DEF Owning, Live, Begun
<1>5. RequestsHoldJobs'
  BY <1>1, <1>2, <1>3 DEF Ownership, RequestsHoldJobs, Idle
<1>6. OwnerIsUnderWay'
  BY <1>2 DEF Ownership, OwnerIsUnderWay
<1>7. FreshIsNotRevoked'
  BY <1>2, <1>4 DEF LockType, RequestType, JobType, Ownership, FreshIsNotRevoked, TypeOK
<1>8. HolderIsAlone'
  BY <1>1, <1>2, <1>4 DEF Ownership, HolderIsAlone
<1>9. QED
  BY <1>5, <1>6, <1>7, <1>8 DEF Ownership, FreeIsFree

\* An attempt releases the lock, if it is still its own, and is over.  hands are
\* the requests that held the job.
LEMMA OwnershipRelease ==
    ASSUME TypeOK, Ownership, NEW t \in Tokens,
           job[t].pc \in Owning,
           Release(t),
           Goto(t, "gone"),
           \A r \in Requests :
              \/ req'[r] = Idle
              \/ req'[r] = req[r]
                 /\ (req[r].pc \in {"move", "enqueue"} => req[r].token # t),
           UNCHANGED revoked
    PROVE  Ownership'
<1>1. /\ job'[t].pc = "gone"
      /\ \A u \in Tokens : u # t => job'[u] = job[u]
  BY DEF LockType, RequestType, JobType, TypeOK, Goto
<1>2. lock' = IF lock.token = t THEN NoLock ELSE lock
  BY DEF Release, Ownership, OwnerIsUnderWay
<1>3. NoLock.token = NoToken /\ NoToken \notin Tokens
  BY TokenAssumption DEF NoLock
<1>4. "gone" \notin Owning
  BY DEF Owning, Live, Begun
<1>5. RequestsHoldJobs'
  BY <1>1 DEF Ownership, RequestsHoldJobs, Idle
<1>6. OwnerIsUnderWay'
  BY <1>1, <1>2, <1>3 DEF Ownership, OwnerIsUnderWay
<1>7. FreshIsNotRevoked'
  BY <1>1 DEF LockType, RequestType, JobType, Ownership, FreshIsNotRevoked, TypeOK
<1>8. HolderIsAlone'
  BY <1>1, <1>2, <1>3, <1>4 DEF Ownership, HolderIsAlone
<1>9. QED
  BY <1>2, <1>5, <1>6, <1>7, <1>8 DEF Ownership, FreeIsFree

\* The lock is cleared under whoever holds it.
LEMMA OwnershipRevoke ==
    ASSUME TypeOK, Ownership, Revoke, lock' = NoLock, UNCHANGED <<req, job>>
    PROVE  Ownership'
<1>1. NoLock.token = NoToken /\ NoToken \notin Tokens
  BY TokenAssumption DEF NoLock
<1>2. revoked' = revoked \cup ({lock.token} \ {NoToken})
  BY DEF Revoke
<1>3. lock.token \in Tokens => job[lock.token].pc # "unused"
  BY DEF Ownership, OwnerIsUnderWay, Owning, Live, Begun
<1>4. FreshIsNotRevoked'
  BY <1>2, <1>3 DEF LockType, RequestType, JobType, Ownership, FreshIsNotRevoked, TypeOK
<1>5. HolderIsAlone'
  BY <1>1, <1>2 DEF Ownership, HolderIsAlone
<1>6. QED
  BY <1>1, <1>4, <1>5 DEF Ownership, RequestsHoldJobs, OwnerIsUnderWay, FreeIsFree

\* A fresh attempt claims the lock: it was free, or is cleared in the same step.
LEMMA OwnershipClaim ==
    ASSUME TypeOK, Ownership, NEW r \in Requests, NEW t \in Tokens,
           NEW p \in Phases, NEW next,
           req[r].pc \notin {"move", "enqueue"},
           Claimed(r, t, p, next),
           \/ lock = NoLock /\ UNCHANGED revoked
           \/ Revoke
    PROVE  Ownership'
<1> DEFINE pc == CASE p \in Inline                            -> "queued"
                   [] p = "final_rewrite" /\ next = "kickoff" -> "leaked"
                   [] OTHER                                   -> "claimed"
<1>1. NoLock.token = NoToken /\ NoToken \notin Tokens
  BY TokenAssumption DEF NoLock
<1>2. pc \in {"queued", "leaked", "claimed"}
  BY Zenon
<1>3. /\ job[t].pc = "unused"
      /\ lock'.token = t /\ lock'.phase = p
      /\ job' = [job EXCEPT ![t] = [Unused EXCEPT !.pc = pc, !.phase = p]]
      /\ req' = [req EXCEPT ![r] =
                     IF pc # "claimed" THEN Idle
                     ELSE [pc    |-> IF next = "move" THEN "move" ELSE "enqueue",
                           phase |-> p,
                           token |-> t]]
  BY DEF Claimed
<1>4. /\ job'[t].pc = pc
      /\ job'[t].phase = p
      /\ \A u \in Tokens : u # t => job'[u] = job[u]
  <2>1. job'[t] = [Unused EXCEPT !.pc = pc, !.phase = p]
    BY <1>3 DEF LockType, RequestType, JobType, TypeOK
  <2>2. /\ [Unused EXCEPT !.pc = pc, !.phase = p].pc = pc
        /\ [Unused EXCEPT !.pc = pc, !.phase = p].phase = p
    BY DEF Unused
  <2>3. QED
    BY <1>3, <2>1, <2>2 DEF LockType, RequestType, JobType, TypeOK
<1>5. /\ req'[r].pc \in {"move", "enqueue"} => req'[r].token = t /\ pc = "claimed"
      /\ \A s \in Requests : s # r => req'[s] = req[s]
  BY <1>3 DEF LockType, RequestType, JobType, TypeOK, Idle
<1>6. /\ revoked \subseteq revoked'
      /\ t \notin revoked'
      /\ \A u \in Tokens : lock.token = u => u \in revoked'
      /\ \A u \in revoked' : job[u].pc # "unused" /\ u \in Tokens
  BY <1>1, <1>3
     DEF LockType, RequestType, JobType, Revoke, Ownership, OwnerIsUnderWay, FreshIsNotRevoked,
         TypeOK,
                    Owning, Live, Begun
<1>7. pc \in Owning /\ pc # "unused"
  BY <1>2 DEF Owning, Live, Begun
<1>8. RequestsHoldJobs'
  BY <1>3, <1>4, <1>5 DEF Ownership, RequestsHoldJobs
<1>9. OwnerIsUnderWay'
  BY <1>3, <1>4, <1>6, <1>7 DEF OwnerIsUnderWay
<1>10. FreshIsNotRevoked'
  BY <1>4, <1>6, <1>7 DEF FreshIsNotRevoked
<1>11. HolderIsAlone'
  BY <1>3, <1>4, <1>6 DEF Ownership, HolderIsAlone
<1>12. FreeIsFree'
  BY <1>1, <1>3 DEF FreeIsFree
<1>13. QED
  BY <1>8, <1>9, <1>10, <1>11, <1>12 DEF Ownership
-----------------------------------------------------------------------------
(* Type correctness.                                                        *)

LEMMA PhasesAreDeep == Phases \subseteq DeepPhases /\ "none" \notin DeepPhases
BY PhasesAssumption, PhaseNames

LEMMA TypesGoto ==
    ASSUME TypeOK, PhasesAreKnown, NEW t \in Tokens, NEW pc \in Owning \cup {"gone"},
           job[t].pc # "unused",
           Goto(t, pc)
    PROVE  /\ job' \in [Tokens -> JobType]
           /\ \A u \in Tokens : job'[u].pc # "unused" => job'[u].phase \in Phases
BY DEF LockType, RequestType, JobType, TypeOK, PhasesAreKnown, Goto

LEMMA TypesIdle ==
    ASSUME TypeOK, PhasesAreKnown, NEW r \in Requests,
           req' = [req EXCEPT ![r] = Idle]
    PROVE  /\ req' \in [Requests -> RequestType]
           /\ \A s \in Requests : req'[s].pc # "idle" => req'[s].phase \in Phases
BY DEF LockType, RequestType, JobType, TypeOK, PhasesAreKnown, Idle

LEMMA TypesSpend ==
    ASSUME TypeOK, NEW kind \in Interventions, Spend(kind)
    PROVE  budget' \in [Interventions -> Nat]
BY DEF TypeOK, Spend

LEMMA TypesRecorded ==
    ASSUME TypeOK, NEW p \in Phases, NEW how \in {"none", "open", "closed"},
           Recorded(p, how)
    PROVE  /\ round' \in [Phases -> {"none", "open", "closed"}]
           /\ quiet' \in [Phases -> BOOLEAN]
BY DEF TypeOK, Recorded

LEMMA TypesFailed ==
    ASSUME TypeOK, NEW p \in Phases, NEW class \in {"partial", "graceful", "other"},
           Failed(p, class)
    PROVE  /\ round' \in [Phases -> {"none", "open", "closed"}]
           /\ quiet' \in [Phases -> BOOLEAN]
           /\ lastFailure' \in [phase : Phases \cup {"none"},
                                class : {"none", "partial", "graceful", "other"}]
BY TypesRecorded DEF Failed

LEMMA TypesRevoke ==
    ASSUME TypeOK, Revoke
    PROVE  revoked' \subseteq Tokens /\ disturbed' \in BOOLEAN
<1>1. revoked' \subseteq Tokens
  BY DEF LockType, RequestType, JobType, TypeOK, Revoke
<1>2. disturbed' \in BOOLEAN
  BY Zenon DEF LockType, RequestType, JobType, TypeOK, Revoke
<1>3. QED
  BY <1>1, <1>2

LEMMA TypesRelease ==
    ASSUME TypeOK, NEW t \in Tokens, Release(t)
    PROVE  lock' \in LockType
BY DEF LockType, RequestType, JobType, TypeOK, Release, NoLock

LEMMA TypesClaimed ==
    ASSUME TypeOK, PhasesAreKnown, NEW r \in Requests, NEW t \in Tokens,
           NEW p \in Phases, NEW next, Claimed(r, t, p, next)
    PROVE  /\ lock' \in LockType
           /\ job' \in [Tokens -> JobType]
           /\ req' \in [Requests -> RequestType]
           /\ PhasesAreKnown'
<1> DEFINE pc == CASE p \in Inline                            -> "queued"
                   [] p = "final_rewrite" /\ next = "kickoff" -> "leaked"
                   [] OTHER                                   -> "claimed"
           new == [pc |-> IF next = "move" THEN "move" ELSE "enqueue",
                   phase |-> p, token |-> t]
           started == [Unused EXCEPT !.pc = pc, !.phase = p]
<1>1. pc \in Owning /\ pc # "unused"
  <2>1. pc \in {"queued", "leaked", "claimed"}
    BY Zenon
  <2>2. QED
    BY <2>1 DEF Owning, Live, Begun
<1>2. /\ lock' = [phase |-> p, token |-> t, aged |-> FALSE]
      /\ job' = [job EXCEPT ![t] = started]
      /\ req' = [req EXCEPT ![r] = IF pc # "claimed" THEN Idle ELSE new]
  BY DEF Claimed
<1>3. /\ started \in JobType
      /\ started.phase = p
  <2> HIDE DEF pc
  <2> QED
    BY <1>1 DEF Unused, JobType
<1>4. /\ job' \in [Tokens -> JobType]
      /\ \A u \in Tokens : job'[u].pc # "unused" => job'[u].phase \in Phases
  <2> HIDE DEF started
  <2> QED
    BY <1>2, <1>3 DEF LockType, RequestType, JobType, TypeOK, PhasesAreKnown
<1>5. /\ req' \in [Requests -> RequestType]
      /\ \A s \in Requests : req'[s].pc # "idle" => req'[s].phase \in Phases
  <2> HIDE DEF pc
  <2> QED
    BY <1>2 DEF LockType, RequestType, JobType, TypeOK, PhasesAreKnown, Idle
<1>6. QED
  BY <1>2, <1>4, <1>5 DEF LockType, PhasesAreKnown

LEMMA ClaimPhaseIsKnown == ASSUME NEW p \in Phases PROVE ClaimPhase(p) \in Phases
BY DEF ClaimPhase
-----------------------------------------------------------------------------
(* The steps of requests.                                                   *)

LEMMA ReadSteps ==
    ASSUME Invariant, NEW r \in Requests, NEW p \in Phases,
           StartRead(r, p) \/ AcceptRead(r, p)
    PROVE  Invariant'
<1> USE DEF Invariant, row, marks, events, work, history
<1>1. CASE StartRead(r, p)
  <2>1. TypeOK' /\ PhasesAreKnown'
    BY <1>1 DEF StartRead, TypeOK, PhasesAreKnown, RequestType
  <2>2. Ownership'
    BY <1>1
       DEF StartRead, TypeOK, RequestType, Ownership, RequestsHoldJobs, OwnerIsUnderWay,
           FreeIsFree, FreshIsNotRevoked, HolderIsAlone
  <2>3. QED
    BY <2>1, <2>2
<1>2. CASE AcceptRead(r, p)
  <2>1. TypeOK' /\ PhasesAreKnown'
    BY <1>2 DEF AcceptRead, TypeOK, PhasesAreKnown, RequestType
  <2>2. Ownership'
    BY <1>2
       DEF AcceptRead, TypeOK, RequestType, Ownership, RequestsHoldJobs, OwnerIsUnderWay,
           FreeIsFree, FreshIsNotRevoked, HolderIsAlone
  <2>3. QED
    BY <2>1, <2>2
<1>3. QED
  BY <1>1, <1>2

LEMMA ClaimSteps ==
    ASSUME Invariant, NEW r \in Requests, NEW t \in Tokens, Claim(r, t)
    PROVE  Invariant'
<1> USE DEF Invariant, row, marks, events, work, history
<1>1. PICK q \in Phases, next \in {"enqueue", "move"} : Claimed(r, t, q, next)
  BY ClaimPhaseIsKnown DEF Claim, PhasesAreKnown
<1>2. TypeOK' /\ PhasesAreKnown'
  BY <1>1, TypesClaimed DEF Claim, TypeOK
<1>3. Ownership'
  BY <1>1, OwnershipClaim DEF Claim
<1>4. QED
  BY <1>2, <1>3

LEMMA RequestSteps ==
    ASSUME Invariant, NEW r \in Requests,
           Conflict(r) \/ Move(r) \/ Enqueue(r) \/ EnqueueFails(r) \/ Crash(r)
    PROVE  Invariant'
<1> USE DEF Invariant, row, marks, events, work, history
<1>4. CASE Conflict(r)
  <2>1. TypeOK' /\ PhasesAreKnown'
    BY <1>4, TypesIdle DEF Conflict, TypeOK, PhasesAreKnown
  <2>2. Ownership'
    BY <1>4
       DEF Conflict, TypeOK, RequestType, Idle, Ownership, RequestsHoldJobs, OwnerIsUnderWay,
           FreeIsFree, FreshIsNotRevoked, HolderIsAlone
  <2>3. QED
    BY <2>1, <2>2
<1>5. ASSUME req[r].pc \in {"move", "enqueue"}
      PROVE  /\ req[r].token \in Tokens
             /\ job[req[r].token].pc = "claimed"
             /\ "claimed" \in Owning /\ "queued" \in Owning /\ "lost" \in Owning
             /\ req' = [req EXCEPT ![r] = Idle] =>
                   \A s \in Requests :
                      \/ req'[s] = Idle
                      \/ req'[s] = req[s]
                         /\ (req[s].pc \in {"move", "enqueue"} => req[s].token # req[r].token)
  BY <1>5 DEF TypeOK, Ownership, RequestsHoldJobs, Owning, Live, Begun
<1>6. CASE Move(r)
  <2>1. CASE Allowed(state, RunningState[req[r].phase])
    <3>1. /\ state' = RunningState[req[r].phase]
          /\ req' = [req EXCEPT ![r].pc = "enqueue"]
          /\ UNCHANGED <<lock, job, marks, events, work, budget, history>>
      BY <1>6, <2>1 DEF Move
    <3>2. state' \in RunState
      BY <1>6, <3>1, Tables, PhasesAreDeep DEF Move, PhasesAreKnown
    <3>3. TypeOK' /\ PhasesAreKnown'
      BY <1>6, <3>1, <3>2 DEF Move, TypeOK, RequestType, PhasesAreKnown
    <3>4. Ownership'
      BY <1>6, <3>1 DEF Move, TypeOK, RequestType, Ownership, RequestsHoldJobs, OwnerIsUnderWay,
                       FreeIsFree, FreshIsNotRevoked, HolderIsAlone
    <3>5. QED
      BY <3>3, <3>4
  <2>2. CASE ~ Allowed(state, RunningState[req[r].phase])
    <3>1. /\ Release(req[r].token)
          /\ Goto(req[r].token, "gone")
          /\ req' = [req EXCEPT ![r] = Idle]
          /\ UNCHANGED <<state, marks, events, work, budget, history>>
      BY <1>6, <2>2 DEF Move
    <3>2. TypeOK' /\ PhasesAreKnown'
      BY <1>5, <1>6, <3>1, TypesGoto, TypesIdle, TypesRelease
         DEF Move, TypeOK, PhasesAreKnown
    <3>3. Ownership'
      BY <1>5, <1>6, <3>1, OwnershipRelease DEF Move
    <3>4. QED
      BY <3>2, <3>3
  <2>3. QED
    BY <2>1, <2>2
<1>7. CASE Enqueue(r)
  <2>1. TypeOK' /\ PhasesAreKnown'
    BY <1>7, <1>5, TypesGoto, TypesIdle DEF Enqueue, TypeOK, PhasesAreKnown
  <2>2. Ownership'
    BY <1>7, <1>5, OwnershipHandsOn DEF Enqueue
  <2>3. QED
    BY <2>1, <2>2
<1>8. CASE EnqueueFails(r)
  <2>1. TypeOK' /\ PhasesAreKnown'
    BY <1>8, <1>5, TypesGoto, TypesIdle, TypesRelease, TypesSpend
       DEF EnqueueFails, TypeOK, PhasesAreKnown, Interventions
  <2>2. Ownership'
    BY <1>8, <1>5, OwnershipRelease DEF EnqueueFails
  <2>3. QED
    BY <2>1, <2>2
<1>9. CASE Crash(r)
  <2>1. TypeOK' /\ PhasesAreKnown'
    BY <1>9, <1>5, TypesGoto, TypesIdle, TypesSpend DEF Crash, TypeOK, PhasesAreKnown, Interventions
  <2>2. Ownership'
    BY <1>9, <1>5, OwnershipHandsOn DEF Crash
  <2>3. QED
    BY <2>1, <2>2
<1>10. QED
  BY <1>4, <1>6, <1>7, <1>8, <1>9

LEMMA RecoverySteps ==
    ASSUME Invariant, NEW r \in Requests, NEW p \in Phases, NEW t \in Tokens,
           \/ StartFromZombie(r, p, t)
           \/ StartFromFailure(r, p, t)
           \/ Retry(r, p, t)
    PROVE  Invariant'
<1> USE DEF Invariant, row, marks, events, work, history
<1>1. CanRewind(p, [phase |-> p, class |-> "partial"]) \/ p # "final_rewrite" 
         => InputState[p] \in RunState
  BY Tables, PhasesAreDeep DEF CanRewind
<1>2. CASE StartFromZombie(r, p, t)
  <2>1. PICK q \in Phases : /\ CanRewind(p, [phase |-> q, class |-> "partial"])
                            /\ running' = {u \in running : job[u].phase # q}
                            /\ Failed(q, "partial")
    BY <1>2 DEF StartFromZombie
  <2>2. /\ state' \in RunState
        /\ running' \subseteq Tokens
    BY <1>1, <1>2, <2>1 DEF StartFromZombie, CanRewind, TypeOK
  <2>3. TypeOK' /\ PhasesAreKnown'
    BY <1>2, <2>1, <2>2, ClaimPhaseIsKnown, TypesClaimed, TypesFailed, TypesRevoke
       DEF StartFromZombie, TypeOK
  <2>4. Ownership'
    BY <1>2, ClaimPhaseIsKnown, OwnershipClaim DEF StartFromZombie
  <2>5. QED
    BY <2>3, <2>4
<1>3. CASE StartFromFailure(r, p, t)
  <2>1. state' \in RunState
    BY <1>1, <1>3 DEF StartFromFailure, CanRewind
  <2>2. TypeOK' /\ PhasesAreKnown'
    BY <1>3, <2>1, ClaimPhaseIsKnown, TypesClaimed, TypesRevoke
       DEF StartFromFailure, TypeOK
  <2>3. Ownership'
    BY <1>3, ClaimPhaseIsKnown, OwnershipClaim DEF StartFromFailure
  <2>4. QED
    BY <2>2, <2>3
<1>4. CASE Retry(r, p, t)
  <2>1. /\ state' \in RunState
        /\ revoked' \subseteq Tokens
        /\ disturbed' \in BOOLEAN
    BY <1>1, <1>4, TypesRevoke DEF Retry, CanRewind, TypeOK
  <2>2. TypeOK' /\ PhasesAreKnown'
    BY <1>4, <2>1, TypesClaimed DEF Retry, TypeOK
  <2>3. Ownership'
    BY <1>4, OwnershipClaim DEF Retry
  <2>4. QED
    BY <2>2, <2>3
<1>5. QED
  BY <1>2, <1>3, <1>4
-----------------------------------------------------------------------------
(* The steps of jobs.                                                       *)

LEMMA JobPcs ==
    /\ Begun \subseteq Owning \ {"claimed", "unused", "gone"}
    /\ {"begun", "working", "returned", "leaving", "queued", "dead", "swept", "lost"}
          \subseteq Owning \ {"claimed", "unused", "gone"}
BY DEF Owning, Live, Begun

LEMMA WorkingPhase ==
    ASSUME Invariant, NEW t \in Tokens, job[t].pc # "unused"
    PROVE  /\ job[t].phase \in Phases
           /\ job[t].phase \in DeepPhases
           /\ RunningState[job[t].phase] \in RunState
           /\ DoneState[job[t].phase] \in RunState
           /\ AgentFailures[job[t].phase] \subseteq RunState
           /\ AgentFailureClass(job[t].phase) \in {"partial", "graceful", "other"}
BY Tables, PhasesAreDeep DEF Invariant, PhasesAreKnown, AgentFailureClass

\* JobBegin and Chain start an agent in a job that is under way.
LEMMA BeginSteps ==
    ASSUME Invariant, NEW t \in Tokens, NEW p \in Phases, NEW chained \in BOOLEAN,
           job[t].pc \in {"queued", "returned"},
           Begin(t, p, chained),
           \/ lock' = lock /\ p = job[t].phase
           \/ Transfers(t) /\ lock' = [phase |-> p, token |-> t, aged |-> FALSE],
           UNCHANGED <<req, revoked>>
    PROVE  /\ lock' \in LockType
           /\ job' \in [Tokens -> JobType]
           /\ running' \subseteq Tokens
           /\ PhasesAreKnown'
           /\ Ownership'
<1>1. Wraps(p) \in BOOLEAN
  BY Zenon DEF Wraps
<1>2. /\ job'[t] = [pc |-> "begun", phase |-> p, wrapped |-> Wraps(p), chained |-> chained]
      /\ \A u \in Tokens : u # t => job'[u] = job[u]
      /\ job' \in [Tokens -> JobType]
  <2>1. [pc |-> "begun", phase |-> p, wrapped |-> Wraps(p), chained |-> chained] \in JobType
    BY <1>1, JobPcs DEF JobType
  <2>2. QED
    BY <2>1 DEF Begin, Invariant, TypeOK
<1>3. running' \subseteq Tokens
  BY DEF Begin, Invariant, TypeOK
<1>4. lock' \in LockType
  <2>1. CASE lock' = lock
    BY <2>1 DEF Invariant, TypeOK
  <2>2. CASE lock' = [phase |-> p, token |-> t, aged |-> FALSE]
    BY <2>2 DEF LockType
  <2>3. QED
    BY <2>1, <2>2
<1>5. PhasesAreKnown'
  BY <1>2 DEF Invariant, PhasesAreKnown
<1>6. RequestsHoldJobs'
  BY <1>2 DEF Invariant, Ownership, RequestsHoldJobs
<1>7. OwnerIsUnderWay'
  BY <1>2, JobPcs DEF Transfers, Invariant, Ownership, OwnerIsUnderWay
<1>8. FreeIsFree'
  BY TokenAssumption DEF Invariant, Ownership, FreeIsFree
<1>9. FreshIsNotRevoked'
  BY <1>2 DEF Invariant, TypeOK, Ownership, FreshIsNotRevoked
<1>10. HolderIsAlone'
  BY <1>2, JobPcs DEF Transfers, Invariant, Ownership, HolderIsAlone
<1>11. QED
  BY <1>2, <1>3, <1>4, <1>5, <1>6, <1>7, <1>8, <1>9, <1>10 DEF Ownership

\* What is common to the steps of a job that leave the lock alone.
LEMMA GotoSteps ==
    ASSUME Invariant, NEW t \in Tokens, NEW pc \in Owning,
           job[t].pc \in Owning \ {"claimed", "unused"},
           Goto(t, pc),
           UNCHANGED <<lock, req, revoked>>
    PROVE  /\ job' \in [Tokens -> JobType]
           /\ PhasesAreKnown'
           /\ Ownership'
BY TypesGoto, OwnershipGoto DEF Invariant, PhasesAreKnown

LEMMA RaisedSteps ==
    ASSUME Invariant, NEW t \in Tokens, job[t].pc \in {"begun", "working"}, Raised(t)
    PROVE  /\ state' \in RunState
           /\ running' \subseteq Tokens
           /\ round' \in [Phases -> {"none", "open", "closed"}]
           /\ quiet' \in [Phases -> BOOLEAN]
           /\ lastFailure' \in [phase : Phases \cup {"none"},
                                class : {"none", "partial", "graceful", "other"}]
           /\ job' \in [Tokens -> JobType]
           /\ PhasesAreKnown'
           /\ Ownership'
<1>1. /\ job' \in [Tokens -> JobType]
      /\ PhasesAreKnown'
      /\ Ownership'
  BY GotoSteps, JobPcs DEF Raised, history
<1>2. /\ state' \in RunState
      /\ running' \subseteq Tokens
  BY DEF Raised, Invariant, TypeOK, RunState, FailureStates
<1>3. /\ round' \in [Phases -> {"none", "open", "closed"}]
      /\ quiet' \in [Phases -> BOOLEAN]
      /\ lastFailure' \in [phase : Phases \cup {"none"},
                           class : {"none", "partial", "graceful", "other"}]
  BY WorkingPhase, TypesFailed DEF Raised, events, Invariant, TypeOK
<1>4. QED
  BY <1>1, <1>2, <1>3

\* What an agent leaves on disk when it fails is a set of phases again.
LEMMA TypesPartialOutput ==
    ASSUME TypeOK, NEW p \in Phases, PartialOutput(p)
    PROVE  output' \subseteq DeepPhases
BY PhasesAreDeep DEF TypeOK, PartialOutput
LEMMA JobSteps ==
    ASSUME Invariant, NEW t \in Tokens, JobStep(t)
    PROVE  Invariant'
<1> USE DEF row, marks, events, work, history
<1> SUFFICES TypeOK' /\ PhasesAreKnown' /\ Ownership'
  BY DEF Invariant
<1>1. job[t].pc \in {"begun", "working", "returned", "leaving", "queued"} =>
        /\ job[t].pc \in Owning \ {"claimed", "unused"}
        /\ job[t].phase \in Phases
        /\ RunningState[job[t].phase] \in RunState
        /\ DoneState[job[t].phase] \in RunState
  BY JobPcs, WorkingPhase
<1>2. AfterBody(t) \in Owning /\ "working" \in Owning /\ "leaving" \in Owning
  BY JobPcs DEF AfterBody
<1>3. CASE JobBegin(t)
  BY <1>1, <1>3, BeginSteps DEF JobBegin, Invariant, TypeOK
<1>4. CASE Enter(t)
  BY <1>1, <1>2, <1>4, GotoSteps, TypesRecorded DEF Enter, Invariant, TypeOK
<1>5. CASE Refuse(t)
  BY <1>5, RaisedSteps DEF Refuse, Raised, Invariant, TypeOK
<1>6. CASE Wait(t)
  <2>1. (IF round[job[t].phase] = "none" THEN "open" ELSE round[job[t].phase])
          \in {"none", "open", "closed"}
    BY <1>1, <1>6 DEF Wait, Invariant, TypeOK
  <2>2. QED
    BY <1>1, <1>2, <1>6, <2>1, GotoSteps, TypesRecorded DEF Wait, Invariant, TypeOK
<1>7. CASE Abort(t)
  <2>1. /\ state' \in RunState
        /\ cancelFrom' \in RunState \cup {"none"}
        /\ running' \subseteq Tokens
    BY <1>7 DEF Abort, Invariant, TypeOK, RunState
  <2>2. QED
    BY <1>1, <1>2, <1>7, <2>1, GotoSteps DEF Abort, Invariant, TypeOK
<1>8. CASE Finish(t)
  <2>1. /\ state' \in RunState
        /\ output' \subseteq DeepPhases
    BY <1>1, <1>8, PhasesAreDeep DEF Finish, Invariant, TypeOK
  <2>2. QED
    BY <1>1, <1>2, <1>8, <2>1, GotoSteps, TypesRecorded DEF Finish, Invariant, TypeOK
<1>9. CASE FinishRaises(t)
  <2>1. output' \subseteq DeepPhases
    BY <1>1, <1>9, PhasesAreDeep DEF FinishRaises, Invariant, TypeOK
  <2>2. QED
    BY <1>9, <2>1, RaisedSteps DEF FinishRaises, Raised, Invariant, TypeOK
<1>10. CASE Settle(t)
  <2>1. output' \subseteq DeepPhases /\ running' \subseteq Tokens
    BY <1>10 DEF Settle, Invariant, TypeOK
  <2>2. QED
    BY <1>1, <1>2, <1>10, <2>1, GotoSteps DEF Settle, Invariant, TypeOK
<1>11. CASE Chain(t)
  <2>1. CASE state = "CRITIC_RUNNING" /\ Transfers(t)
    <3>1. "critic" \in Phases
      BY <1>1, <1>11, PhasesAssumption DEF Chain
    <3>2. QED
      BY <1>11, <2>1, <3>1, BeginSteps DEF Chain, Invariant, TypeOK
  <2>2. CASE ~ (state = "CRITIC_RUNNING" /\ Transfers(t))
    BY <1>1, <1>2, <1>11, <2>2, GotoSteps DEF Chain, Invariant, TypeOK
  <2>3. QED
    BY <2>1, <2>2
<1>12. CASE Leave(t)
  <2>1. \A r \in Requests : req[r].pc \in {"move", "enqueue"} => req[r].token # t
    BY <1>12 DEF Leave, Invariant, Ownership, RequestsHoldJobs
  <2>2. Ownership'
    BY <1>1, <1>12, <2>1, OwnershipRelease DEF Leave, Invariant
  <2>3. /\ job' \in [Tokens -> JobType]
        /\ \A u \in Tokens : job'[u].pc # "unused" => job'[u].phase \in Phases
    BY <1>12, TypesGoto DEF Leave, Invariant
  <2>4. lock' \in LockType
    BY <1>12, TypesRelease DEF Leave, Invariant
  <2>5. QED
    BY <1>12, <2>2, <2>3, <2>4 DEF Leave, Invariant, TypeOK, PhasesAreKnown
<1>13. QED
  BY <1>3, <1>4, <1>5, <1>6, <1>7, <1>8, <1>9, <1>10, <1>11, <1>12 DEF JobStep

\* Faults of a job, and the fast path that finds it dead.
LEMMA FaultSteps ==
    ASSUME Invariant, NEW t \in Tokens,
           \/ AgentFail(t)
           \/ JobException(t)
           \/ Die(t)
           \/ Drop(t)
           \/ FastPath(t)
    PROVE  Invariant'
<1> USE DEF row, marks, events, work, history
<1> SUFFICES TypeOK' /\ PhasesAreKnown' /\ Ownership'
  BY DEF Invariant
<1>1. /\ AfterBody(t) \in Owning
      /\ {"agentfail", "exception", "die"} \subseteq Interventions
  BY JobPcs DEF AfterBody, Interventions
<1>2. CASE AgentFail(t)
  <2>1. job[t].pc \in {"begun", "working"}
    BY <1>2 DEF AgentFail
  <2>2. /\ state' \in RunState
        /\ output' \subseteq DeepPhases
        /\ budget' \in [Interventions -> Nat]
    BY <1>1, <1>2, <2>1, WorkingPhase, TypesPartialOutput, TypesSpend
       DEF AgentFail, Invariant
  <2>3. /\ round' \in [Phases -> {"none", "open", "closed"}]
        /\ quiet' \in [Phases -> BOOLEAN]
        /\ lastFailure' \in [phase : Phases \cup {"none"},
                             class : {"none", "partial", "graceful", "other"}]
    BY <1>2, <2>1, WorkingPhase, TypesFailed DEF AgentFail, Invariant
  <2>4. QED
    BY <1>1, <1>2, <2>1, <2>2, <2>3, JobPcs, GotoSteps DEF AgentFail, Invariant, TypeOK
<1>3. CASE JobException(t)
  <2>1. /\ output' \subseteq DeepPhases
        /\ budget' \in [Interventions -> Nat]
    BY <1>1, <1>3, WorkingPhase, TypesPartialOutput, TypesSpend DEF JobException, Invariant
  <2>2. QED
    BY <1>3, <2>1, RaisedSteps DEF JobException, Raised, Invariant, TypeOK
<1>4. CASE Die(t)
  <2>1. /\ output' \subseteq DeepPhases
        /\ budget' \in [Interventions -> Nat]
    BY <1>1, <1>4, WorkingPhase, TypesPartialOutput, TypesSpend DEF Die, Invariant, TypeOK
  <2>2. QED
    BY <1>4, <2>1, JobPcs, GotoSteps DEF Die, Invariant, TypeOK
<1>5. CASE Drop(t)
  BY <1>1, <1>5, JobPcs, GotoSteps, TypesSpend DEF Drop, Invariant, TypeOK
<1>6. CASE FastPath(t)
  <2>1. /\ job' \in [Tokens -> JobType]
        /\ \A u \in Tokens : job'[u].pc # "unused" => job'[u].phase \in Phases
    BY <1>6, JobPcs, TypesGoto DEF FastPath, Invariant
  <2>2. /\ lock' \in LockType
        /\ lock'.token = lock.token
        /\ lock'.phase = lock.phase
        /\ lock.token # NoToken
    <3>1. /\ lock' = [lock EXCEPT !.aged = lock.phase \notin OverAnHour]
          /\ lock.phase \in Phases
      BY <1>6 DEF FastPath
    <3>2. lock # NoLock
      BY <3>1, PhasesAreDeep DEF NoLock
    <3>3. QED
      BY <3>1, <3>2 DEF Invariant, TypeOK, LockType, Ownership, FreeIsFree
  <2>3. /\ job'[t].pc = "swept"
        /\ job'[t].phase = job[t].phase
        /\ \A u \in Tokens : u # t => job'[u] = job[u]
    BY <1>6 DEF FastPath, Goto, Invariant, TypeOK, JobType
  <2>4. Ownership'
    BY <1>6, <2>2, <2>3, JobPcs
       DEF FastPath, Invariant, TypeOK, Ownership, RequestsHoldJobs, OwnerIsUnderWay,
           FreeIsFree, FreshIsNotRevoked, HolderIsAlone
  <2>5. QED
    BY <1>6, <2>1, <2>2, <2>4 DEF FastPath, Invariant, TypeOK, PhasesAreKnown
<1>7. QED
  BY <1>2, <1>3, <1>4, <1>5, <1>6
LEMMA AgeingKeepsOwnership ==
    ASSUME Invariant, lock # NoLock, lock' = [lock EXCEPT !.aged = TRUE],
           UNCHANGED <<req, job, revoked>>
    PROVE  lock' \in LockType /\ Ownership'
<1>1. /\ lock' \in LockType
      /\ lock'.token = lock.token
      /\ lock'.phase = lock.phase
      /\ lock.token # NoToken
  BY DEF Invariant, TypeOK, LockType, Ownership, FreeIsFree
<1>2. QED
  BY <1>1 DEF Invariant, Ownership, RequestsHoldJobs, OwnerIsUnderWay, FreeIsFree,
              FreshIsNotRevoked, HolderIsAlone

LEMMA SweepSteps ==
    ASSUME Invariant, NEW p \in Phases, Sweep(p)
    PROVE  Invariant'
<1> USE DEF row, marks, events, work, history
<1> SUFFICES TypeOK' /\ PhasesAreKnown' /\ Ownership'
  BY DEF Invariant
<1>1. CASE LockAges
  BY <1>1, AgeingKeepsOwnership DEF LockAges, Invariant, TypeOK, PhasesAreKnown
<1>2. CASE FallsQuiet(p)
  BY <1>2, OwnershipStutters DEF FallsQuiet, Invariant, TypeOK, PhasesAreKnown
<1>3. CASE Reap(p)
  <2>1. /\ state' \in RunState
        /\ running' \subseteq Tokens
        /\ lock' \in LockType
    BY <1>3 DEF Reap, Invariant, TypeOK, RunState, FailureStates, LockType, NoLock
  <2>2. /\ revoked' \subseteq Tokens
        /\ disturbed' \in BOOLEAN
        /\ round' \in [Phases -> {"none", "open", "closed"}]
        /\ quiet' \in [Phases -> BOOLEAN]
        /\ lastFailure' \in [phase : Phases \cup {"none"},
                             class : {"none", "partial", "graceful", "other"}]
    BY <1>3, TypesRevoke, TypesFailed DEF Reap, Invariant
  <2>3. Ownership'
    BY <1>3, OwnershipRevoke DEF Reap, Invariant
  <2>4. QED
    BY <1>3, <2>1, <2>2, <2>3 DEF Reap, Invariant, TypeOK, PhasesAreKnown
<1>4. QED
  BY <1>1, <1>2, <1>3 DEF Sweep

LEMMA UserSteps ==
    ASSUME Invariant,
           ForceClear \/ ForceApprove \/ DecideScan \/ AcceptIntegrity
              \/ Delete \/ Restore \/ ClearCancel
    PROVE  Invariant'
<1> USE DEF row, marks, events, work, history
<1> SUFFICES TypeOK' /\ PhasesAreKnown' /\ Ownership'
  BY DEF Invariant
<1>1. {"clear", "cancel"} \subseteq Interventions
  BY DEF Interventions
<1>2. CASE ForceClear
  <2>1. lock' \in LockType /\ revoked' \subseteq Tokens /\ disturbed' \in BOOLEAN
    BY <1>2, TypesRevoke DEF ForceClear, Invariant, LockType, NoLock
  <2>2. budget' \in [Interventions -> Nat]
    BY <1>1, <1>2, TypesSpend DEF ForceClear, Invariant
  <2>3. Ownership'
    BY <1>2, OwnershipRevoke DEF ForceClear, Invariant
  <2>4. QED
    BY <1>2, <2>1, <2>2, <2>3 DEF ForceClear, Invariant, TypeOK, PhasesAreKnown
<1>3. CASE ForceApprove
  <2>1. state' \in RunState
    BY <1>3, Tables DEF ForceApprove, Invariant, TypeOK, RunState, ReviewStates
  <2>2. QED
    BY <1>3, <2>1, OwnershipStutters DEF ForceApprove, Invariant, TypeOK, PhasesAreKnown
<1>4. CASE DecideScan
  <2>1. state' \in RunState
    BY <1>4 DEF DecideScan, Invariant, TypeOK, RunState, ReviewStates
  <2>2. QED
    BY <1>4, <2>1, OwnershipStutters DEF DecideScan, Invariant, TypeOK, PhasesAreKnown
<1>5. CASE AcceptIntegrity
  <2>1. state' \in RunState
    BY <1>5 DEF AcceptIntegrity, RunState, ReviewStates
  <2>2. QED
    BY <1>5, <2>1, OwnershipStutters DEF AcceptIntegrity, Invariant, TypeOK, PhasesAreKnown
<1>6. CASE Delete
  <2>1. budget' \in [Interventions -> Nat]
    BY <1>1, <1>6, TypesSpend DEF Delete, Invariant
  <2>2. cancel' \in BOOLEAN
    BY <1>6, Zenon DEF Delete, Invariant, TypeOK
  <2>3. QED
    BY <1>6, <2>1, <2>2, OwnershipStutters DEF Delete, Invariant, TypeOK, PhasesAreKnown
<1>7. CASE Restore
  <2>1. cancel' \in BOOLEAN
    BY <1>7, Zenon DEF Restore, Invariant, TypeOK
  <2>2. QED
    BY <1>7, <2>1, OwnershipStutters DEF Restore, Invariant, TypeOK, PhasesAreKnown
<1>8. CASE ClearCancel
  <2>1. "none" \notin DOMAIN Successors
    BY DEF Successors
  <2>2. state' \in RunState
    BY <1>8, <2>1 DEF ClearCancel, Invariant, TypeOK
  <2>3. QED
    BY <1>8, <2>2, OwnershipStutters DEF ClearCancel, Invariant, TypeOK, PhasesAreKnown
<1>9. QED
  BY <1>2, <1>3, <1>4, <1>5, <1>6, <1>7, <1>8
-----------------------------------------------------------------------------
(* The theorems.                                                            *)

LEMMA InvariantInit == Init => Invariant
<1> SUFFICES ASSUME Init PROVE Invariant
  OBVIOUS
<1>1. TypeOK
  BY InitAssumption, BudgetAssumption
     DEF Init, TypeOK, LockType, RequestType, JobType, NoLock, NoFailure, Idle, Unused
<1>2. PhasesAreKnown /\ Ownership
  BY TokenAssumption
     DEF Init, NoLock, Idle, Unused, PhasesAreKnown, Ownership, RequestsHoldJobs,
         OwnerIsUnderWay, FreeIsFree, FreshIsNotRevoked, HolderIsAlone, Owning, Live, Begun
<1>3. QED
  BY <1>1, <1>2 DEF Invariant

LEMMA InvariantNext == Invariant /\ [Next]_vars => Invariant'
<1> SUFFICES ASSUME Invariant, [Next]_vars
             PROVE  Invariant'
  OBVIOUS
<1>1. CASE UNCHANGED vars
  BY <1>1, OwnershipStutters
     DEF vars, row, marks, events, work, history, Invariant, TypeOK, PhasesAreKnown
<1>2. CASE Next
  <2>1. ASSUME NEW r \in Requests, RequestStep(r) \/ EnqueueFails(r) \/ Crash(r)
        PROVE  Invariant'
    <3>1. CASE \E t \in Tokens : Claim(r, t)
      BY <3>1, ClaimSteps
    <3>2. CASE Conflict(r) \/ Move(r) \/ Enqueue(r) \/ EnqueueFails(r) \/ Crash(r)
      BY <3>2, RequestSteps
    <3>3. QED
      BY <2>1, <3>1, <3>2 DEF RequestStep
  <2>2. ASSUME NEW r \in Requests, NEW p \in Phases, StartRead(r, p) \/ AcceptRead(r, p)
        PROVE  Invariant'
    BY <2>2, ReadSteps
  <2>3. ASSUME NEW r \in Requests, NEW p \in Phases, NEW t \in Tokens,
               StartFromZombie(r, p, t) \/ StartFromFailure(r, p, t) \/ Retry(r, p, t)
        PROVE  Invariant'
    BY <2>3, RecoverySteps
  <2>4. ASSUME NEW t \in Tokens, JobStep(t)
        PROVE  Invariant'
    BY <2>4, JobSteps
  <2>5. ASSUME NEW t \in Tokens,
               AgentFail(t) \/ JobException(t) \/ Die(t) \/ Drop(t) \/ FastPath(t)
        PROVE  Invariant'
    BY <2>5, FaultSteps
  <2>6. ASSUME NEW p \in Phases, Sweep(p)
        PROVE  Invariant'
    BY <2>6, SweepSteps
  <2>7. CASE ForceClear \/ ForceApprove \/ DecideScan \/ AcceptIntegrity
                \/ Delete \/ Restore \/ ClearCancel
    BY <2>7, UserSteps
  <2>8. QED
    BY <1>2, <2>1, <2>2, <2>3, <2>4, <2>5, <2>6, <2>7 DEF Next
<1>3. QED
  BY <1>1, <1>2

\* Every reachable state satisfies the inductive invariant.
THEOREM Inductive == Spec => []Invariant
BY InvariantInit, InvariantNext, PTL DEF Spec

\* Type correctness of the model of a run, for any phases, requests, tokens, start
\* and budget of faults.
THEOREM TypeCorrect == Spec => []TypeOK
<1>1. Invariant => TypeOK
  BY DEF Invariant
<1>2. QED
  BY <1>1, Inductive, PTL

\* Whatever the endpoints, the workers, the reaper and the user do, and however many
\* of them there are, an attempt that was not given up holds the run's lock until it
\* releases it, and it is the only one (phase_lock.py).
THEOREM HolderIsAlwaysAlone == Spec => []HolderIsAlone
<1>1. Invariant => HolderIsAlone
  BY DEF Invariant, Ownership
<1>2. QED
  BY <1>1, Inductive, PTL
-----------------------------------------------------------------------------
(* The lifecycle implements PhaseAttempts.                                  *)

Stages == [t \in Tokens |-> Stage(t)]

LEMMA StageValues ==
    ASSUME Invariant, NEW t \in Tokens
    PROVE  /\ Stage(t) = "new" <=> job[t].pc = "unused"
           /\ job[t].pc \in Owning => Stage(t) = IF t \in revoked THEN "given_up"
                                                                  ELSE "current"
           /\ Stage(t) = "current" => lock.token = t
           /\ lock.token = t => Stage(t) = "current"
<1>1. job[t].pc \in Owning \cup {"unused", "gone"} /\ {"unused", "gone"} \cap Owning = {}
  BY DEF Invariant, TypeOK, JobType, Owning, Live, Begun
<1>2. CASE job[t].pc = "unused"
  BY <1>1, <1>2 DEF Stage, Invariant, Ownership, OwnerIsUnderWay
<1>3. CASE job[t].pc = "gone"
  BY <1>1, <1>3 DEF Stage, Invariant, Ownership, OwnerIsUnderWay
<1>4. CASE job[t].pc \in Owning
  <2>1. Stage(t) = IF t \in revoked THEN "given_up" ELSE "current"
    BY <1>1, <1>4, Zenon DEF Stage
  <2>2. QED
    BY <1>1, <1>4, <2>1 DEF Invariant, Ownership, OwnerIsUnderWay, HolderIsAlone
<1>5. QED
  BY <1>1, <1>2, <1>3, <1>4

LEMMA StagesStutter ==
    ASSUME UNCHANGED <<job, revoked>>
    PROVE  UNCHANGED Stages
BY DEF Stages, Stage

\* What one step of the run is to the attempts: nothing, or a step of their own.
AttemptStep == UNCHANGED Stages \/ Attempts!Next

LEMMA StagesGoto ==
    ASSUME Invariant, NEW t \in Tokens, NEW pc \in Owning,
           job[t].pc \in Owning,
           job'[t].pc = pc,
           \A u \in Tokens : u # t => job'[u] = job[u],
           UNCHANGED revoked
    PROVE  AttemptStep
<1>1. "unused" \notin Owning /\ "gone" \notin Owning
  BY DEF Owning, Live, Begun
<1>2. job[t].pc # "unused" /\ job[t].pc # "gone" /\ job'[t].pc # "unused" /\ job'[t].pc # "gone"
  BY <1>1
<1>3. Stage(t)' = Stage(t)
  BY <1>2, Zenon DEF Stage
<1>4. \A u \in Tokens : Stage(u)' = Stage(u)
  BY <1>3 DEF Stage
<1>5. QED
  BY <1>4 DEF AttemptStep, Stages

LEMMA StagesEnd ==
    ASSUME Invariant, NEW t \in Tokens,
           job[t].pc \in Owning,
           Goto(t, "gone"),
           UNCHANGED revoked
    PROVE  AttemptStep
<1>1. /\ job'[t].pc = "gone"
      /\ \A u \in Tokens : u # t => job'[u] = job[u]
  BY DEF Goto, Invariant, TypeOK, JobType
<1>2. Stage(t)' = "over" /\ \A u \in Tokens : u # t => Stage(u)' = Stage(u)
  BY <1>1 DEF Stage
<1>3. Stage(t) \in {"current", "given_up"}
  BY StageValues
<1>4. Stages' = [Stages EXCEPT ![t] = "over"] /\ Stages[t] \in {"current", "given_up"}
  BY <1>2, <1>3 DEF Stages
<1>5. Attempts!End(t)
  BY <1>4 DEF Attempts!End, Stages
<1>6. QED
  BY <1>5 DEF AttemptStep, Attempts!Next

LEMMA StagesRevoke ==
    ASSUME Invariant, Revoke, UNCHANGED job
    PROVE  AttemptStep
<1>1. CASE lock.token = NoToken
  <2>1. revoked' = revoked
    BY <1>1 DEF Revoke, Invariant, TypeOK
  <2>2. QED
    BY <2>1, StagesStutter DEF AttemptStep
<1>2. CASE lock.token # NoToken
  <2>1. PICK o \in Tokens : o = lock.token
    BY <1>2 DEF Invariant, TypeOK, LockType
  <2>2. revoked' = revoked \cup {o}
    BY <1>2, <2>1 DEF Revoke
  <2>3. Stage(o) = "current" /\ job[o].pc \in Owning
    BY <2>1, StageValues DEF Invariant, Ownership, OwnerIsUnderWay
  <2>4. job'[o].pc # "unused" /\ job'[o].pc # "gone" /\ o \in revoked'
    BY <2>2, <2>3 DEF Owning, Live, Begun
  <2>5. Stage(o)' = "given_up"
    BY <2>4, Zenon DEF Stage
  <2>6. \A u \in Tokens : u # o => Stage(u)' = Stage(u)
    BY <2>2 DEF Stage
  <2>7. Attempts!GiveUp(o)
    BY <2>3, <2>5, <2>6 DEF Attempts!GiveUp
  <2>8. QED
    BY <2>7 DEF AttemptStep, Attempts!Next
<1>3. QED
  BY <1>1, <1>2

\* A claim begins an attempt, and replaces the one whose lock it clears.
LEMMA StagesClaim ==
    ASSUME Invariant, NEW r \in Requests, NEW t \in Tokens, NEW p \in Phases, NEW next,
           Claimed(r, t, p, next),
           \/ lock = NoLock /\ UNCHANGED revoked
           \/ Revoke
    PROVE  AttemptStep
<1> DEFINE pc == CASE p \in Inline                            -> "queued"
                   [] p = "final_rewrite" /\ next = "kickoff" -> "leaked"
                   [] OTHER                                   -> "claimed"
           started == [Unused EXCEPT !.pc = pc, !.phase = p]
<1>1. pc # "unused" /\ pc # "gone"
  <2>1. pc \in {"queued", "leaked", "claimed"}
    BY Zenon
  <2>2. QED
    BY <2>1
<1>2. job' = [job EXCEPT ![t] = started] /\ job[t].pc = "unused"
  BY DEF Claimed
<1>3. started.pc = pc
  <2> HIDE DEF pc
  <2> QED
    BY DEF Unused
<1>4. job'[t].pc # "unused" /\ job'[t].pc # "gone" /\ \A u \in Tokens : u # t => job'[u] = job[u]
  <2> HIDE DEF pc, started
  <2> QED
    BY <1>1, <1>2, <1>3 DEF Invariant, TypeOK
<1>5. t \notin revoked
  BY <1>2 DEF Invariant, Ownership, FreshIsNotRevoked
<1>6. Stage(t) = "new"
  BY <1>2, StageValues
<1>7. lock.token \in Tokens \cup {NoToken} /\ NoToken \notin Tokens
  BY TokenAssumption DEF Invariant, TypeOK, LockType
<1>8. CASE lock.token = NoToken
  <2>1. revoked' = revoked
    BY <1>8 DEF Revoke, Invariant, TypeOK
  <2>2. Stage(t)' = "current"
    BY <1>4, <1>5, <2>1, Zenon DEF Stage
  <2>3. \A u \in Tokens : u # t => Stage(u)' = Stage(u)
    BY <1>4, <2>1 DEF Stage
  <2>4. \A u \in Tokens : Stage(u) # "current"
    BY <1>7, <1>8, StageValues
  <2>5. Attempts!Begin(t)
    BY <1>6, <2>2, <2>3, <2>4 DEF Attempts!Begin
  <2>6. QED
    BY <2>5 DEF AttemptStep, Attempts!Next
<1>9. CASE lock.token # NoToken
  <2>1. PICK o \in Tokens : o = lock.token
    BY <1>7, <1>9
  <2>2. Stage(o) = "current" /\ job[o].pc \in Owning /\ o # t
    BY <1>6, <2>1, StageValues DEF Invariant, Ownership, OwnerIsUnderWay
  <2>3. revoked' = revoked \cup {o}
    BY <1>9, <2>1 DEF Revoke, NoLock
  <2>4. Stage(t)' = "current"
    <3>1. t \notin revoked'
      BY <1>5, <2>2, <2>3
    <3>2. QED
      BY <1>4, <3>1, Zenon DEF Stage
  <2>5. Stage(o)' = "given_up"
    <3>1. job'[o].pc # "unused" /\ job'[o].pc # "gone" /\ o \in revoked'
      BY <1>4, <2>2, <2>3 DEF Owning, Live, Begun
    <3>2. QED
      BY <3>1, Zenon DEF Stage
  <2>6. \A u \in Tokens : u # t /\ u # o => Stage(u)' = Stage(u)
    BY <1>4, <2>3 DEF Stage
  <2>7. Attempts!Replace(o, t)
    BY <1>6, <2>2, <2>4, <2>5, <2>6 DEF Attempts!Replace
  <2>8. QED
    BY <2>7 DEF AttemptStep, Attempts!Next
<1>10. QED
  BY <1>8, <1>9
-----------------------------------------------------------------------------
LEMMA RequestsAttempt ==
    ASSUME Invariant, NEW r \in Requests,
           \/ RequestStep(r) \/ EnqueueFails(r) \/ Crash(r)
           \/ \E p \in Phases : StartRead(r, p) \/ AcceptRead(r, p)
           \/ \E p \in Phases, t \in Tokens :
                 StartFromZombie(r, p, t) \/ StartFromFailure(r, p, t) \/ Retry(r, p, t)
    PROVE  AttemptStep
<1> USE DEF history
<1>1. CASE Conflict(r) \/ \E p \in Phases : StartRead(r, p) \/ AcceptRead(r, p)
  BY <1>1, StagesStutter DEF StartRead, AcceptRead, Conflict, AttemptStep
<1>2. ASSUME NEW t \in Tokens, Claim(r, t)
      PROVE  AttemptStep
  <2>1. PICK q \in Phases, next \in {"enqueue", "move"} : Claimed(r, t, q, next)
    BY <1>2, ClaimPhaseIsKnown DEF Claim, Invariant, PhasesAreKnown
  <2>2. QED
    BY <1>2, <2>1, StagesClaim DEF Claim
<1>3. ASSUME NEW p \in Phases, NEW t \in Tokens, StartFromZombie(r, p, t)
      PROVE  AttemptStep
  BY <1>3, ClaimPhaseIsKnown, StagesClaim DEF StartFromZombie
<1>4. ASSUME NEW p \in Phases, NEW t \in Tokens, StartFromFailure(r, p, t)
      PROVE  AttemptStep
  BY <1>4, ClaimPhaseIsKnown, StagesClaim DEF StartFromFailure
<1>5. ASSUME NEW p \in Phases, NEW t \in Tokens, Retry(r, p, t)
      PROVE  AttemptStep
  BY <1>5, StagesClaim DEF Retry
<1>6. ASSUME req[r].pc \in {"move", "enqueue"}
      PROVE  /\ req[r].token \in Tokens
             /\ job[req[r].token].pc \in Owning
             /\ "queued" \in Owning /\ "lost" \in Owning
  BY <1>6 DEF Invariant, Ownership, RequestsHoldJobs, Owning, Live, Begun
<1>7. ASSUME NEW pc \in Owning, req[r].pc \in {"move", "enqueue"},
             Goto(req[r].token, pc), UNCHANGED revoked
      PROVE  AttemptStep
  <2>1. PICK u \in Tokens : u = req[r].token
    BY <1>6, <1>7
  <2>2. job'[u].pc = pc /\ \A v \in Tokens : v # u => job'[v] = job[v]
    BY <1>7, <2>1 DEF Goto, Invariant, TypeOK, JobType
  <2>3. QED
    BY <1>6, <1>7, <2>1, <2>2, StagesGoto
<1>8. CASE Move(r)
  BY <1>6, <1>8, StagesStutter, StagesEnd DEF Move, AttemptStep
<1>9. CASE Enqueue(r)
  BY <1>6, <1>7, <1>9 DEF Enqueue
<1>10. CASE EnqueueFails(r)
  BY <1>6, <1>10, StagesEnd DEF EnqueueFails
<1>11. CASE Crash(r)
  BY <1>6, <1>7, <1>11 DEF Crash
<1>12. QED
  BY <1>1, <1>2, <1>3, <1>4, <1>5, <1>8, <1>9, <1>10, <1>11 DEF RequestStep

LEMMA JobsAttempt ==
    ASSUME Invariant, NEW t \in Tokens,
           JobStep(t) \/ AgentFail(t) \/ JobException(t) \/ Die(t) \/ Drop(t) \/ FastPath(t)
    PROVE  AttemptStep
<1> USE DEF history
<1>1. ASSUME NEW pc \in Owning, job[t].pc \in Owning, Goto(t, pc), UNCHANGED revoked
      PROVE  AttemptStep
  <2>1. job'[t].pc = pc /\ \A u \in Tokens : u # t => job'[u] = job[u]
    BY <1>1 DEF Goto, Invariant, TypeOK, JobType
  <2>2. QED
    BY <1>1, <2>1, StagesGoto
<1>2. ASSUME NEW p, NEW chained, job[t].pc \in Owning, Begin(t, p, chained), UNCHANGED revoked
      PROVE  AttemptStep
  <2>1. /\ job'[t].pc = "begun"
        /\ \A u \in Tokens : u # t => job'[u] = job[u]
    BY <1>2 DEF Begin, Invariant, TypeOK
  <2>2. QED
    BY <1>2, <2>1, JobPcs, StagesGoto
<1>3. AfterBody(t) \in Owning
  BY JobPcs DEF AfterBody
<1>4. CASE JobBegin(t)
  BY <1>2, <1>4, JobPcs DEF JobBegin
<1>5. CASE Enter(t) \/ Abort(t) \/ Settle(t)
  BY <1>1, <1>5, JobPcs DEF Enter, Abort, Settle
<1>6. CASE Refuse(t) \/ FinishRaises(t) \/ JobException(t)
  BY <1>1, <1>6, JobPcs DEF Refuse, FinishRaises, JobException, Raised
<1>7. CASE Wait(t) \/ Finish(t) \/ AgentFail(t)
  BY <1>1, <1>3, <1>7, JobPcs DEF Wait, Finish, AgentFail
<1>8. CASE Chain(t)
  BY <1>1, <1>2, <1>8, JobPcs DEF Chain
<1>9. CASE Leave(t)
  BY <1>9, JobPcs, StagesEnd DEF Leave
<1>10. CASE Die(t) \/ Drop(t) \/ FastPath(t)
  BY <1>1, <1>10, JobPcs DEF Die, Drop, FastPath
<1>11. QED
  BY <1>4, <1>5, <1>6, <1>7, <1>8, <1>9, <1>10 DEF JobStep

LEMMA OthersAttempt ==
    ASSUME Invariant,
           \/ \E p \in Phases : Sweep(p)
           \/ ForceClear \/ ForceApprove \/ DecideScan \/ AcceptIntegrity
           \/ Delete \/ Restore \/ ClearCancel
    PROVE  AttemptStep
<1> USE DEF history
<1>1. CASE ForceClear \/ \E p \in Phases : Reap(p)
  BY <1>1, StagesRevoke DEF Reap, ForceClear
<1>2. CASE \/ \E p \in Phases : LockAges \/ FallsQuiet(p)
           \/ ForceApprove \/ DecideScan \/ AcceptIntegrity \/ Delete \/ Restore \/ ClearCancel
  BY <1>2, StagesStutter
     DEF LockAges, FallsQuiet, ForceApprove, DecideScan, AcceptIntegrity, Delete,
         Restore, ClearCancel, AttemptStep
<1>3. QED
  BY <1>1, <1>2 DEF Sweep
-----------------------------------------------------------------------------
\* The lock lets attempts follow one another: claims, hand-overs, releases and clears
\* of the run (phase_lock.py, main.py, zombie_reaper.py) are steps of PhaseAttempts.
THEOREM Refinement == Spec => AttemptsFollowOneAnother
<1>1. Init => Attempts!Init
  BY DEF Init, Unused, Attempts!Init, Stage
<1>2. ASSUME Invariant, [Next]_vars
      PROVE  AttemptStep
  <2>1. CASE UNCHANGED vars
    BY <2>1, StagesStutter DEF vars, history, AttemptStep
  <2>2. CASE Next
    BY <1>2, <2>2, RequestsAttempt, JobsAttempt, OthersAttempt DEF Next
  <2>3. QED
    BY <1>2, <2>1, <2>2
<1>3. Invariant /\ [Next]_vars => [Attempts!Next]_Stages
  BY <1>2 DEF AttemptStep
<1>4. QED
  BY <1>1, <1>3, Inductive, PTL DEF Spec, AttemptsFollowOneAnother, Attempts!Spec, Stages

\* What was given up, or is over, never is current again: nothing in phase_lock.py
\* gives a token back to the row.
NeverAgain ==
    [][\A t \in Tokens : Stage(t) \in {"given_up", "over"}
                             => Stage(t)' \in {"given_up", "over"}]_Stages

\* Of these two PhaseAttempts says enough: nothing else is assumed of the run.
LEMMA AttemptsInductive == Attempts!Spec => [](Attempts!TypeOK /\ Attempts!OneAtATime)
<1>1. Attempts!Init => Attempts!TypeOK /\ Attempts!OneAtATime
  BY DEF Attempts!Init, Attempts!TypeOK, Attempts!OneAtATime
<1>2. ASSUME Attempts!TypeOK, Attempts!OneAtATime, [Attempts!Next]_Stages
      PROVE  Attempts!TypeOK' /\ Attempts!OneAtATime'
  <2>1. CASE UNCHANGED Stages
    BY <1>2, <2>1 DEF Stages, Attempts!TypeOK, Attempts!OneAtATime
  <2>2. ASSUME NEW a \in Tokens, Attempts!Begin(a)
        PROVE  Attempts!TypeOK' /\ Attempts!OneAtATime'
    BY <1>2, <2>2 DEF Attempts!Begin, Attempts!TypeOK, Attempts!OneAtATime
  <2>3. ASSUME NEW a \in Tokens, Attempts!End(a) \/ Attempts!GiveUp(a)
        PROVE  Attempts!TypeOK' /\ Attempts!OneAtATime'
    BY <1>2, <2>3 DEF Attempts!End, Attempts!GiveUp, Attempts!TypeOK, Attempts!OneAtATime
  <2>4. ASSUME NEW a \in Tokens, NEW b \in Tokens, Attempts!Replace(a, b)
        PROVE  Attempts!TypeOK' /\ Attempts!OneAtATime'
    BY <1>2, <2>4 DEF Attempts!Replace, Attempts!TypeOK, Attempts!OneAtATime
  <2>5. QED
    BY <1>2, <2>1, <2>2, <2>3, <2>4 DEF Attempts!Next
<1>3. QED
  BY <1>1, <1>2, PTL DEF Attempts!Spec, Stages

\* No two attempts at the phases of a run are current at the same time, whatever
\* starts, ends, clears and takeovers there are (phase_lock.py).
THEOREM AttemptsAreAlone == Spec => []Attempts!OneAtATime
BY Refinement, AttemptsInductive, PTL DEF AttemptsFollowOneAnother

\* Somebody who has lost the lock, or has released it, never counts as its owner
\* again (phase_lock.py: release and transfer compare the token).
THEOREM GivenUpForGood == Spec => NeverAgain
<1>1. ASSUME Attempts!TypeOK, [Attempts!Next]_Stages
      PROVE  [\A t \in Tokens : Stage(t) \in {"given_up", "over"}
                                   => Stage(t)' \in {"given_up", "over"}]_Stages
  <2>1. CASE UNCHANGED Stages
    BY <2>1
  <2>2. CASE Attempts!Next
    BY <1>1, <2>2 DEF Attempts!Next, Attempts!Begin, Attempts!End, Attempts!GiveUp,
                      Attempts!Replace, Attempts!TypeOK
  <2>3. QED
    BY <1>1, <2>1, <2>2
<1>2. QED
  BY <1>1, Refinement, AttemptsInductive, PTL
     DEF AttemptsFollowOneAnother, Attempts!Spec, NeverAgain, Stages
-----------------------------------------------------------------------------
(* The invariant that the promises of the state need.                       *)

\* No agent at work under an RQ timeout has been silent for longer than that.
WorkersAreHeard ==
    \A t \in Tokens : job[t].pc = "working" /\ Timed(t) =>
        round[job[t].phase] # "none" /\ ~quiet[job[t].phase]

\* Nobody has taken the lock from an attempt still under way.
LocksAreKept == \A t \in Tokens : job[t].pc \in Live => t \notin revoked

\* Where a run may stand when the agent of q has returned and its version is not
\* yet committed.
Landing(q) ==
    {DoneState[q], ReviewState[q], "USER_FINAL_ACCEPTANCE", "FAILED_VENDOR"}
       \cup (IF lastFailure.phase = q THEN FailureStates ELSE {})
       \cup (IF q = "integrity" THEN {"USER_EXTERNAL_SCAN_APPROVAL"} ELSE {})

\* The state is that of the attempt under way.
StateFollowsWork ==
    \A t \in Tokens :
        /\ job[t].pc = "working" => state = RunningState[job[t].phase]
        /\ job[t].pc = "returned" => state \in Landing(job[t].phase)

\* The artifacts are there, for the state and for the one a cancel may give back.
ReviewsAreBacked ==
    \A p \in Backed :
        /\ state = DoneState[p] => p \in output
        /\ state = "CANCELLED" /\ cancelFrom = DoneState[p] => p \in output

Course == ~disturbed => LocksAreKept /\ StateFollowsWork /\ ReviewsAreBacked
-----------------------------------------------------------------------------
(* What the tables say of the ends of phases.                               *)

LEMMA NothingIsItsOwnDownstream ==
    /\ \A p \in Versioned : p \notin Downstream(p)
    /\ "critic" \notin Downstream("integrity")
<1>1. Len(PHASES) = 11
  BY DEF PHASES
<1>2. \A i, j \in 1..11 : PHASES[i] = PHASES[j] => i = j
  BY DEF PHASES
<1>3. PHASES[9] = "critic" /\ PHASES[10] = "integrity"
  BY DEF PHASES
<1>4. ASSUME NEW p \in Versioned, p \in Downstream(p) PROVE FALSE
  <2>1. PICK j \in 1..11 : PHASES[j] = p /\ \E i \in 1..(j - 1) : PHASES[i] = p
    BY <1>1, <1>4 DEF Downstream
  <2>2. QED
    BY <1>2, <2>1
<1>5. ASSUME "critic" \in Downstream("integrity") PROVE FALSE
  <2>1. PICK j \in 1..11 : PHASES[j] = "critic" /\ \E i \in 1..(j - 1) : PHASES[i] = "integrity"
    BY <1>1, <1>5 DEF Downstream
  <2>2. QED
    BY <1>2, <1>3, <2>1
<1>6. QED
  BY <1>4, <1>5

\* The state at the end of a phase says which phase it was.
LEMMA EndsOfPhases ==
    ASSUME NEW p \in Versioned \ {"drafter"}
    PROVE  /\ DoneState[p] \notin FailureStates \cup {"CANCELLED", "USER_FINAL_ACCEPTANCE"}
           /\ \A q \in DeepPhases : DoneState[p] # RunningState[q]
           /\ \A q \in DeepPhases : DoneState[p] = DoneState[q] => p = q
           /\ \A q \in DeepPhases : 
                 DoneState[p] = ReviewState[q] => p = q \/ p = "stylist"
           /\ DoneState[p] = "USER_EXTERNAL_SCAN_APPROVAL" => p = "critic"
<1>1. DoneState[p] \notin FailureStates \cup {"CANCELLED", "USER_FINAL_ACCEPTANCE"}
  BY PhaseNames DEF DoneState, FailureStates
<1>2. \A q \in DeepPhases : DoneState[p] # RunningState[q]
  BY PhaseNames DEF DoneState, RunningState
<1>3. \A q \in DeepPhases : DoneState[p] = DoneState[q] => p = q
  BY PhaseNames DEF DoneState
<1>4. \A q \in DeepPhases : DoneState[p] = ReviewState[q] => p = q \/ p = "stylist"
  <2>1. ASSUME NEW q \in DeepPhases
        PROVE  \/ ReviewState[q] \in {"USER_REVISION_REVIEW", "USER_FINAL_ACCEPTANCE"}
               \/ ReviewState[q] = DoneState[q]
    <3>1. CASE q \in {"drafter", "stylist", "final_rewrite", "integrity", "exports"}
      BY <3>1, PhaseNames DEF ReviewState, RunningState
    <3>2. CASE q = "proposal"
      BY <3>2, PhaseNames DEF ReviewState, RunningState, DoneState
    <3>3. CASE q = "scout"
      BY <3>3, PhaseNames DEF ReviewState, RunningState, DoneState
    <3>4. CASE q = "curator"
      BY <3>4, PhaseNames DEF ReviewState, RunningState, DoneState
    <3>5. CASE q = "synthesizer"
      BY <3>5, PhaseNames DEF ReviewState, RunningState, DoneState
    <3>6. CASE q = "tension_extraction"
      BY <3>6, PhaseNames DEF ReviewState, RunningState, DoneState
    <3>7. CASE q = "framework_lens"
      BY <3>7, PhaseNames DEF ReviewState, RunningState, DoneState
    <3>8. CASE q = "ideator"
      BY <3>8, PhaseNames DEF ReviewState, RunningState, DoneState
    <3>9. CASE q = "critic"
      BY <3>9, PhaseNames DEF ReviewState, RunningState, DoneState
    <3>10. QED
      BY <3>1, <3>2, <3>3, <3>4, <3>5, <3>6, <3>7, <3>8, <3>9, PhaseNames
  <2>2. DoneState[p] = "USER_REVISION_REVIEW" => p = "stylist"
    BY PhaseNames DEF DoneState
  <2>3. QED
    BY <1>1, <1>3, <2>1, <2>2
<1>5. DoneState[p] = "USER_EXTERNAL_SCAN_APPROVAL" => p = "critic"
  BY PhaseNames DEF DoneState
<1>6. QED
  BY <1>1, <1>2, <1>3, <1>4, <1>5

LEMMA CancelledIsNoEnd ==
    ASSUME NEW p \in DeepPhases
    PROVE  /\ RunningState[p] # "CANCELLED"
           /\ DoneState[p] # "CANCELLED"
           /\ ReviewState[p] # "CANCELLED"
           /\ "CANCELLED" \notin AgentStates[p]
           /\ AgentFailures[p] \subseteq FailureStates
           /\ p # "final_rewrite" => InputState[p] # "CANCELLED"
           /\ "CANCELLED" \notin FailureStates
           /\ \A to : ~ Allowed("CANCELLED", to)
<1>1. RunningState[p] # "CANCELLED" /\ DoneState[p] # "CANCELLED"
  BY PhaseNames DEF RunningState, DoneState
<1>2. ReviewState[p] # "CANCELLED"
  BY PhaseNames DEF RunningState, ReviewState
<1>3. p # "final_rewrite" => InputState[p] # "CANCELLED"
  BY PhaseNames DEF InputState
<1>4. "CANCELLED" \notin AgentStates[p]
  BY PhaseNames DEF AgentStates, StartStates
<1>5. AgentFailures[p] \subseteq FailureStates
  BY PhaseNames DEF AgentFailures, FailureStates
<1>6. "CANCELLED" \notin FailureStates /\ \A to : ~ Allowed("CANCELLED", to)
  BY DEF FailureStates, Allowed, Successors
<1>7. QED
  BY <1>1, <1>2, <1>4, <1>5, <1>6, <1>3

LEMMA RunningIsNoEnd ==
    ASSUME NEW p \in DeepPhases
    PROVE  RunningState[p] \notin FailureStates \cup ReviewStates \cup {"CANCELLED"}
BY PhaseNames DEF RunningState, FailureStates, ReviewStates

LEMMA BackedPhases ==
    ASSUME NEW p \in Backed
    PROVE  p \in Phases /\ p \in Versioned \ {"drafter"} /\ p # "stylist"
<1>1. InputState["stylist"] = DoneState["stylist"] /\ Needs["stylist"] = {"drafter"}
  BY PhaseNames DEF InputState, DoneState, Needs
<1>2. QED
  BY <1>1 DEF Backed
-----------------------------------------------------------------------------
(* The attempt under way.                                                   *)

\* It holds the lock, there is no other, and a clear of the lock disturbs it.
LEMMA Alone ==
    ASSUME Invariant, LocksAreKept, NEW t \in Tokens, job[t].pc \in Live
    PROVE  /\ lock.token = t
           /\ lock # NoLock
           /\ \A u \in Tokens : job[u].pc \in Live => u = t
           /\ Revoke => disturbed'
<1>1. Live \subseteq Owning
  BY DEF Owning
<1>2. \A u \in Tokens : job[u].pc \in Live => lock.token = u
  BY <1>1 DEF Invariant, Ownership, HolderIsAlone, LocksAreKept
<1>3. NoLock.token = NoToken /\ NoToken \notin Tokens
  BY TokenAssumption DEF NoLock
<1>4. QED
  BY <1>2, <1>3 DEF Revoke

LEMMA PcsOfLive ==
    /\ {"working", "returned", "begun", "leaving", "claimed", "queued"} \subseteq Live
    /\ {"dead", "swept", "lost", "leaked", "gone", "unused"} \cap Live = {}
BY DEF Live, Begun

\* An attempt that is alone goes on.
LEMMA OneGoesOn ==
    ASSUME Invariant, ~disturbed, LocksAreKept, StateFollowsWork,
           NEW t \in Tokens, job[t].pc \in Live,
           \A u \in Tokens : u # t => job'[u] = job[u],
           job'[t].pc = "working" => state' = RunningState[job'[t].phase],
           job'[t].pc = "returned" => (state \in Landing(job[t].phase))',
           UNCHANGED revoked
    PROVE  LocksAreKept' /\ StateFollowsWork'
BY Alone, PcsOfLive DEF LocksAreKept, StateFollowsWork

\* Nobody is at work, and nobody begins to.
LEMMA NobodyWorks ==
    ASSUME \A u \in Tokens : job'[u].pc \in {"working", "returned"} => FALSE
    PROVE  StateFollowsWork'
BY DEF StateFollowsWork

\* The run goes somewhere else, and nothing is purged.
LEMMA RunMoves ==
    ASSUME ReviewsAreBacked, output \subseteq output',
           \A p \in Backed : state' = DoneState[p] => p \in output' \/ state = state',
           state' = "CANCELLED" => UNCHANGED <<state, cancelFrom>>
    PROVE  ReviewsAreBacked'
BY DEF ReviewsAreBacked
-----------------------------------------------------------------------------
(* Workers are heard, whatever happens to the lock.                         *)

\* A phase that has an event, and a fresh one.
Heard(p) == round[p] # "none" /\ ~quiet[p]

LEMMA RecordedIsHeard ==
    ASSUME TypeOK, NEW p \in Phases, NEW how \in {"open", "closed"}, Recorded(p, how)
    PROVE  /\ Heard(p)'
           /\ \A q \in Phases : Heard(q) => Heard(q)'
BY DEF TypeOK, Recorded, Heard

\* Every step records events or keeps those that are there, and no agent begins
\* to work without an event of its own.
LEMMA HeardStays ==
    ASSUME WorkersAreHeard, PhasesAreKnown,
           \A q \in Phases : Heard(q) => Heard(q)',
           \A u \in Tokens : job'[u].pc = "working" => job'[u] = job[u]
    PROVE  WorkersAreHeard'
BY DEF WorkersAreHeard, PhasesAreKnown, Timed, Heard

LEMMA GotoWorks ==
    ASSUME TypeOK, NEW t \in Tokens, NEW pc, pc # "working", Goto(t, pc)
    PROVE  \A u \in Tokens : job'[u].pc = "working" => job'[u] = job[u]
BY DEF TypeOK, JobType, Goto

LEMMA ClaimedWorks ==
    ASSUME TypeOK, NEW r \in Requests, NEW t \in Tokens, NEW p, NEW next,
           Claimed(r, t, p, next)
    PROVE  /\ \A u \in Tokens : u # t => job'[u] = job[u]
           /\ job[t].pc = "unused"
           /\ job'[t].pc \in {"queued", "leaked", "claimed"}
<1> DEFINE pc == CASE p \in Inline                            -> "queued"
                   [] p = "final_rewrite" /\ next = "kickoff" -> "leaked"
                   [] OTHER                                   -> "claimed"
<1>1. pc \in {"queued", "leaked", "claimed"}
  BY Zenon
<1>2. job' = [job EXCEPT ![t] = [Unused EXCEPT !.pc = pc, !.phase = p]]
      /\ job[t].pc = "unused"
  BY DEF Claimed
<1>3. [Unused EXCEPT !.pc = pc, !.phase = p].pc = pc
  BY DEF Unused
<1> HIDE DEF pc
<1>4. QED
  BY <1>1, <1>2, <1>3 DEF TypeOK

LEMMA HeardOfRequests ==
    ASSUME Invariant, WorkersAreHeard, NEW r \in Requests,
           \/ RequestStep(r) \/ EnqueueFails(r) \/ Crash(r)
           \/ \E p \in Phases :
                 \/ StartRead(r, p)
                 \/ AcceptRead(r, p)
                 \/ \E t \in Tokens : \/ StartFromZombie(r, p, t)
                                      \/ StartFromFailure(r, p, t)
                                      \/ Retry(r, p, t)
    PROVE  WorkersAreHeard'
<1> USE DEF row, marks, events, work, history
<1>1. req[r].pc \in {"move", "enqueue"} => req[r].token \in Tokens
  BY DEF Invariant, Ownership, RequestsHoldJobs
<1>2. TypeOK /\ PhasesAreKnown
  BY DEF Invariant
<1>3. CASE UNCHANGED <<events, job>>
  BY <1>2, <1>3, HeardStays DEF Heard
<1>4. ASSUME NEW t \in Tokens, NEW p, NEW next, Claimed(r, t, p, next),
             \A q \in Phases : Heard(q) => Heard(q)'
      PROVE  WorkersAreHeard'
  BY <1>2, <1>4, ClaimedWorks, HeardStays
<1>5. CASE \E t \in Tokens : Claim(r, t)
  BY <1>4, <1>5 DEF Claim, Heard
<1>6. CASE Move(r)
  BY <1>1, <1>2, <1>3, <1>6, GotoWorks, HeardStays DEF Move, Heard
<1>7. CASE Enqueue(r) \/ EnqueueFails(r) \/ Crash(r)
  BY <1>1, <1>2, <1>7, GotoWorks, HeardStays DEF Enqueue, EnqueueFails, Crash, Heard
<1>8. ASSUME NEW p \in Phases, NEW t \in Tokens, StartFromZombie(r, p, t)
      PROVE  WorkersAreHeard'
  <2>1. PICK q \in Phases : Failed(q, "partial")
    BY <1>8 DEF StartFromZombie
  <2>2. \A x \in Phases : Heard(x) => Heard(x)'
    BY <1>2, <2>1, RecordedIsHeard DEF Failed
  <2>3. QED
    BY <1>4, <1>8, <2>2 DEF StartFromZombie
<1>9. ASSUME NEW p \in Phases, NEW t \in Tokens, StartFromFailure(r, p, t) \/ Retry(r, p, t)
      PROVE  WorkersAreHeard'
  BY <1>4, <1>9 DEF StartFromFailure, Retry, Heard
<1>10. ASSUME NEW p \in Phases, StartRead(r, p) \/ AcceptRead(r, p) PROVE WorkersAreHeard'
  BY <1>3, <1>10 DEF StartRead, AcceptRead
<1>11. CASE Conflict(r)
  BY <1>3, <1>11 DEF Conflict
<1>12. QED
  BY <1>5, <1>6, <1>7, <1>8, <1>9, <1>10, <1>11 DEF RequestStep

LEMMA RaisedIsHeard ==
    ASSUME Invariant, NEW t \in Tokens, job[t].pc \in {"begun", "working"}, Raised(t)
    PROVE  \A q \in Phases : Heard(q) => Heard(q)'
<1>1. job[t].phase \in Phases
  BY WorkingPhase
<1>2. QED
  BY <1>1, RecordedIsHeard DEF Raised, Failed, Invariant, Heard, events

LEMMA HeardOfJobs ==
    ASSUME Invariant, WorkersAreHeard, NEW t \in Tokens,
           JobStep(t) \/ AgentFail(t) \/ JobException(t) \/ Die(t) \/ Drop(t) \/ FastPath(t)
    PROVE  WorkersAreHeard'
<1> USE DEF row, marks, events, work, history
<1>1. TypeOK /\ PhasesAreKnown
  BY DEF Invariant
<1>2. job[t].pc # "unused" => job[t].phase \in Phases
  BY <1>1 DEF PhasesAreKnown
<1>3. AfterBody(t) # "working"
  BY DEF AfterBody
<1>4. ASSUME NEW pc, pc # "working", Goto(t, pc), \A q \in Phases : Heard(q) => Heard(q)'
      PROVE  WorkersAreHeard'
  BY <1>1, <1>4, GotoWorks, HeardStays
<1>5. ASSUME NEW p, NEW chained, Begin(t, p, chained), UNCHANGED events PROVE WorkersAreHeard'
  <2>1. \A u \in Tokens : job'[u].pc = "working" => job'[u] = job[u]
    BY <1>1, <1>5 DEF Begin, TypeOK
  <2>2. QED
    BY <1>1, <1>5, <2>1, HeardStays DEF Heard
<1>6. CASE JobBegin(t)
  BY <1>5, <1>6 DEF JobBegin
<1>7. CASE Enter(t)
  <2>1. job[t].phase \in Phases
    BY <1>2, <1>7 DEF Enter
  <2>2. Recorded(job[t].phase, "open")
    BY <1>7 DEF Enter
  <2>3. \A q \in Phases : Heard(q) => Heard(q)'
    BY <1>1, <2>1, <2>2, RecordedIsHeard
  <2>4. round'[job[t].phase] # "none" /\ ~quiet'[job[t].phase]
    BY <1>1, <2>1, <2>2 DEF Recorded, TypeOK
  <2>5. job'[t].phase = job[t].phase /\ \A u \in Tokens : u # t => job'[u] = job[u]
    BY <1>1, <1>7 DEF Enter, Goto, TypeOK, JobType
  <2>6. QED
    BY <1>1, <2>3, <2>4, <2>5 DEF WorkersAreHeard, PhasesAreKnown, Timed, Heard
<1>8. CASE Refuse(t) \/ FinishRaises(t) \/ JobException(t)
  BY <1>4, <1>8, RaisedIsHeard DEF Refuse, FinishRaises, JobException, Raised
<1>9. CASE Wait(t)
  <2>1. /\ job[t].phase \in Phases
        /\ (IF round[job[t].phase] = "none" THEN "open" ELSE round[job[t].phase])
               \in {"open", "closed"}
    BY <1>1, <1>2, <1>9 DEF Wait, TypeOK
  <2>2. QED
    BY <1>1, <1>3, <1>4, <1>9, <2>1, RecordedIsHeard DEF Wait
<1>10. CASE Abort(t) \/ Settle(t) \/ Leave(t) \/ Die(t) \/ Drop(t) \/ FastPath(t)
  BY <1>4, <1>10 DEF Abort, Settle, Leave, Die, Drop, FastPath, Heard
<1>11. CASE Finish(t)
  BY <1>1, <1>2, <1>3, <1>4, <1>11, RecordedIsHeard DEF Finish
<1>12. CASE Chain(t)
  BY <1>4, <1>5, <1>12 DEF Chain, Heard
<1>13. CASE AgentFail(t)
  BY <1>1, <1>2, <1>3, <1>4, <1>13, RecordedIsHeard DEF AgentFail, Failed
<1>14. QED
  BY <1>6, <1>7, <1>8, <1>9, <1>10, <1>11, <1>12, <1>13 DEF JobStep

LEMMA HeardOfOthers ==
    ASSUME Invariant, WorkersAreHeard,
           \/ \E p \in Phases : Sweep(p)
           \/ ForceClear \/ ForceApprove \/ DecideScan \/ AcceptIntegrity
           \/ Delete \/ Restore \/ ClearCancel
           \/ UNCHANGED vars
    PROVE  WorkersAreHeard'
<1> USE DEF row, marks, events, work, history
<1>1. TypeOK /\ PhasesAreKnown
  BY DEF Invariant
<1>2. CASE UNCHANGED <<round, quiet, job>>
  BY <1>1, <1>2, HeardStays DEF Heard
<1>3. ASSUME NEW p \in Phases, FallsQuiet(p) PROVE WorkersAreHeard'
  BY <1>1, <1>3 DEF FallsQuiet, WorkersAreHeard, TypeOK, Timed
<1>4. ASSUME NEW p \in Phases, Reap(p) PROVE WorkersAreHeard'
  BY <1>1, <1>4, RecordedIsHeard, HeardStays DEF Reap, Failed
<1>5. QED
  BY <1>2, <1>3, <1>4 DEF Sweep, LockAges, ForceClear, ForceApprove, DecideScan, AcceptIntegrity,
                          Delete, Restore, ClearCancel, vars
-----------------------------------------------------------------------------
(* The state goes where the attempt under way takes it.                     *)

\* A rewind goes to the end of a phase only after a look at its artifacts.
LEMMA RewindIsBacked ==
    ASSUME NEW p \in Phases, p # "final_rewrite", Ready(p) \/ p = "ideator",
           NEW q \in Backed, InputState[p] = DoneState[q]
    PROVE  q \in output
BY DEF Backed, Ready

\* Somebody claims the lock, and nobody else is at work.
LEMMA CourseOfClaims ==
    ASSUME Invariant, LocksAreKept, ReviewsAreBacked,
           NEW r \in Requests, NEW t \in Tokens, NEW p \in Phases, NEW next,
           Claimed(r, t, p, next),
           \A u \in Tokens : job[u].pc \notin Live,
           revoked' = revoked \cup ({lock.token} \ {NoToken}),
           \/ UNCHANGED state
           \/ /\ state' # "CANCELLED"
              /\ \A q \in Backed : state' = DoneState[q] => q \in output,
           UNCHANGED <<cancelFrom, output>>
    PROVE  LocksAreKept' /\ StateFollowsWork' /\ ReviewsAreBacked'
<1>1. /\ \A u \in Tokens : u # t => job'[u] = job[u]
      /\ job[t].pc = "unused"
      /\ job'[t].pc \in {"queued", "leaked", "claimed"}
  BY ClaimedWorks DEF Invariant
<1>2. t \notin revoked'
  BY <1>1 DEF Invariant, Ownership, OwnerIsUnderWay, FreshIsNotRevoked, Owning, Live, Begun
<1>3. LocksAreKept'
  BY <1>1, <1>2 DEF LocksAreKept
<1>4. StateFollowsWork'
  BY <1>1, PcsOfLive DEF StateFollowsWork
<1>5. ReviewsAreBacked'
  BY RunMoves
<1>6. QED
  BY <1>3, <1>4, <1>5

\* A request that holds a job is the only one under way.
LEMMA CourseOfHandOvers ==
    ASSUME Invariant, LocksAreKept, NEW r \in Requests,
           req[r].pc \in {"move", "enqueue"},
           NEW pc \in {"queued", "lost", "gone"},
           \/ Goto(req[r].token, pc)
           \/ UNCHANGED job,
           UNCHANGED revoked
    PROVE  LocksAreKept' /\ StateFollowsWork'
<1> DEFINE t == req[r].token
<1>1. t \in Tokens /\ job[t].pc = "claimed"
  BY DEF Invariant, Ownership, RequestsHoldJobs
<1>2. /\ \A u \in Tokens : u # t => job'[u] = job[u]
      /\ job'[t].pc \in {"queued", "lost", "gone", "claimed"}
  BY <1>1 DEF Goto, Invariant, TypeOK, JobType
<1>3. \A u \in Tokens : job[u].pc \in Live => u = t
  BY <1>1, Alone, PcsOfLive
<1>4. QED
  BY <1>1, <1>2, <1>3, PcsOfLive DEF LocksAreKept, StateFollowsWork

LEMMA CourseOfRequests ==
    ASSUME Invariant, Course, NEW r \in Requests,
           \/ RequestStep(r) \/ EnqueueFails(r) \/ Crash(r)
           \/ \E p \in Phases :
                 \/ StartRead(r, p)
                 \/ AcceptRead(r, p)
                 \/ \E t \in Tokens : \/ StartFromZombie(r, p, t)
                                      \/ StartFromFailure(r, p, t)
                                      \/ Retry(r, p, t)
    PROVE  Course'
<1> USE DEF row, marks, events, work, history
<1> SUFFICES ASSUME ~disturbed'
             PROVE  LocksAreKept' /\ StateFollowsWork' /\ ReviewsAreBacked'
  BY DEF Course
<1>1. CASE UNCHANGED <<state, cancelFrom, lastFailure, output, job, history>>
  BY <1>1 DEF Course, LocksAreKept, StateFollowsWork, ReviewsAreBacked, Landing
<1>2. ASSUME ~disturbed PROVE LocksAreKept /\ StateFollowsWork /\ ReviewsAreBacked
  BY <1>2 DEF Course
<1>3. ASSUME Revoke
      PROVE  /\ ~disturbed
             /\ \A u \in Tokens : job[u].pc \notin Live
             /\ revoked' = revoked \cup ({lock.token} \ {NoToken})
  <2>1. ~disturbed /\ revoked' = revoked \cup ({lock.token} \ {NoToken})
    BY <1>3 DEF Revoke
  <2>2. QED
    BY <1>2, <1>3, <2>1, Alone
<1>4. ASSUME lock = NoLock, ~disturbed
      PROVE  /\ \A u \in Tokens : job[u].pc \notin Live
             /\ revoked = revoked \cup ({lock.token} \ {NoToken})
  BY <1>2, <1>4, Alone DEF NoLock
<1>5. ASSUME NEW p \in Phases, p # "final_rewrite", Ready(p) \/ p = "ideator",
             state' = InputState[p]
      PROVE  /\ state' # "CANCELLED"
             /\ \A q \in Backed : state' = DoneState[q] => q \in output
  BY <1>5, RewindIsBacked, CancelledIsNoEnd, PhasesAreDeep
<1>6. CASE \E t \in Tokens : Claim(r, t)
  <2>1. PICK t \in Tokens, q \in Phases, next \in {"enqueue", "move"} : Claimed(r, t, q, next)
    BY <1>6, ClaimPhaseIsKnown DEF Claim, Invariant, PhasesAreKnown
  <2>2. lock = NoLock /\ ~disturbed /\ UNCHANGED <<state, cancelFrom, output, revoked>>
    BY <1>6 DEF Claim
  <2>3. QED
    BY <1>2, <1>4, <2>1, <2>2, CourseOfClaims
<1>7. CASE Move(r)
  <2>1. /\ req[r].pc = "move" /\ req[r].phase \in DeepPhases
        /\ \/ state' = RunningState[req[r].phase] /\ UNCHANGED job
           \/ state' = state /\ Goto(req[r].token, "gone")
        /\ ~disturbed /\ UNCHANGED <<revoked, cancelFrom, output>>
    BY <1>7, PhasesAreDeep DEF Move, Invariant, PhasesAreKnown
  <2>2. LocksAreKept' /\ StateFollowsWork'
    BY <1>2, <2>1, CourseOfHandOvers
  <2>3. \A p \in Backed : state' = DoneState[p] => state' = state
    BY <2>1, BackedPhases, EndsOfPhases
  <2>4. state' = "CANCELLED" => UNCHANGED <<state, cancelFrom>>
    BY <2>1, CancelledIsNoEnd
  <2>5. QED
    BY <1>2, <2>1, <2>2, <2>3, <2>4, RunMoves
<1>8. CASE Enqueue(r) \/ EnqueueFails(r) \/ Crash(r)
  <2>1. /\ req[r].pc \in {"move", "enqueue"}
        /\ \E pc \in {"queued", "lost", "gone"} : Goto(req[r].token, pc)
        /\ ~disturbed /\ UNCHANGED <<state, revoked, cancelFrom, output>>
    BY <1>8 DEF Enqueue, EnqueueFails, Crash
  <2>2. LocksAreKept' /\ StateFollowsWork'
    BY <1>2, <2>1, CourseOfHandOvers
  <2>3. QED
    BY <1>2, <2>1, <2>2, RunMoves
<1>9. ASSUME NEW p \in Phases, NEW t \in Tokens,
             StartFromZombie(r, p, t) \/ StartFromFailure(r, p, t)
      PROVE  LocksAreKept' /\ StateFollowsWork' /\ ReviewsAreBacked'
  <2>1. /\ p # "final_rewrite"
        /\ Ready(p) \/ p = "ideator"
        /\ Revoke
        /\ state' = InputState[p]
        /\ Claimed(r, t, ClaimPhase(p), "enqueue")
        /\ UNCHANGED <<cancelFrom, output>>
    BY <1>9 DEF StartFromZombie, StartFromFailure, CanRewind
  <2>2. QED
    BY <1>2, <1>3, <1>5, <2>1, ClaimPhaseIsKnown, CourseOfClaims
<1>10. ASSUME NEW p \in Phases, NEW t \in Tokens, Retry(r, p, t)
       PROVE  LocksAreKept' /\ StateFollowsWork' /\ ReviewsAreBacked'
  <2>1. /\ Ready(p)
        /\ \/ Revoke /\ state' = InputState[p] /\ p # "final_rewrite"
           \/ lock = NoLock /\ UNCHANGED <<state, history>>
        /\ Claimed(r, t, p, "kickoff")
        /\ UNCHANGED <<cancelFrom, output>>
    BY <1>10 DEF Retry, CanRewind
  <2>2. CASE Revoke /\ state' = InputState[p] /\ p # "final_rewrite"
    BY <1>2, <1>3, <1>5, <2>1, <2>2, CourseOfClaims
  <2>3. CASE lock = NoLock /\ UNCHANGED <<state, history>>
    BY <1>2, <1>4, <2>1, <2>3, CourseOfClaims
  <2>4. QED
    BY <2>1, <2>2, <2>3
<1>11. ASSUME NEW p \in Phases, StartRead(r, p) \/ AcceptRead(r, p)
       PROVE  LocksAreKept' /\ StateFollowsWork' /\ ReviewsAreBacked'
  BY <1>1, <1>11 DEF StartRead, AcceptRead
<1>12. CASE Conflict(r)
  BY <1>1, <1>12 DEF Conflict
<1>13. QED
  BY <1>6, <1>7, <1>8, <1>9, <1>10, <1>11, <1>12 DEF RequestStep

\* The version that is committed late purges nothing of the phase the run is in.
LEMMA PurgeMissesTheRun ==
    ASSUME NEW q \in Versioned, state \in Landing(q),
           NEW p \in Backed, state = DoneState[p]
    PROVE  p \notin Downstream(q)
<1>1. p \in Versioned \ {"drafter"} /\ p # "stylist" /\ q \in DeepPhases
  BY BackedPhases DEF DeepPhases
<1>2. state \notin FailureStates /\ state # "USER_FINAL_ACCEPTANCE"
  BY <1>1, EndsOfPhases
<1>3. "FAILED_VENDOR" \in FailureStates
  BY DEF FailureStates
<1>4. p = q \/ (p = "critic" /\ q = "integrity")
  BY <1>1, <1>2, <1>3, EndsOfPhases DEF Landing
<1>5. QED
  BY <1>1, <1>4, NothingIsItsOwnDownstream

LEMMA LandingIsNoCancel ==
    ASSUME NEW q \in DeepPhases, state \in Landing(q)
    PROVE  state # "CANCELLED"
BY CancelledIsNoEnd DEF Landing, FailureStates

\* The agent raises: its job is about to leave, the run has failed or stays.
LEMMA CourseOfRaised ==
    ASSUME Invariant, ~disturbed, LocksAreKept, StateFollowsWork, ReviewsAreBacked,
           NEW t \in Tokens, job[t].pc \in {"begun", "working"}, Raised(t),
           output \subseteq output'
    PROVE  LocksAreKept' /\ StateFollowsWork' /\ ReviewsAreBacked'
<1>1. /\ job'[t].pc = "leaving"
      /\ \A u \in Tokens : u # t => job'[u] = job[u]
      /\ UNCHANGED <<revoked, cancelFrom>>
      /\ state' \in {state, "FAILED_FIXABLE"}
  BY DEF Raised, Goto, Invariant, TypeOK, JobType, marks, history
<1>2. LocksAreKept' /\ StateFollowsWork'
  BY <1>1, OneGoesOn, PcsOfLive
<1>3. \A p \in Backed : DoneState[p] # "FAILED_FIXABLE"
  BY BackedPhases, EndsOfPhases DEF FailureStates
<1>4. QED
  BY <1>1, <1>2, <1>3, RunMoves

LEMMA CourseOfJobs ==
    ASSUME Invariant, Course, NEW t \in Tokens,
           JobStep(t) \/ AgentFail(t) \/ JobException(t) \/ Die(t) \/ Drop(t) \/ FastPath(t)
    PROVE  Course'
<1> USE DEF row, marks, events, work, history
<1> SUFFICES ASSUME ~disturbed'
             PROVE  LocksAreKept' /\ StateFollowsWork' /\ ReviewsAreBacked'
  BY DEF Course
<1> DEFINE q == job[t].phase
<1>1. ~disturbed /\ UNCHANGED <<revoked, disturbed>>
  <2>1. UNCHANGED <<revoked, disturbed>>
    <3>1. CASE JobBegin(t) \/ Enter(t) \/ Wait(t) \/ Abort(t)
      BY <3>1 DEF JobBegin, Enter, Wait, Abort
    <3>2. CASE Refuse(t) \/ FinishRaises(t) \/ JobException(t)
      BY <3>2 DEF Refuse, FinishRaises, JobException, Raised
    <3>3. CASE Finish(t) \/ Settle(t) \/ Chain(t) \/ Leave(t)
      BY <3>3 DEF Finish, Settle, Chain, Leave
    <3>4. CASE AgentFail(t) \/ Die(t) \/ Drop(t) \/ FastPath(t)
      BY <3>4 DEF AgentFail, Die, Drop, FastPath
    <3>5. QED
      BY <3>1, <3>2, <3>3, <3>4 DEF JobStep
  <2>2. QED
    BY <2>1
<1>2. LocksAreKept /\ StateFollowsWork /\ ReviewsAreBacked
  BY <1>1 DEF Course
<1>3. job[t].pc # "unused" => q \in Phases /\ q \in DeepPhases
  BY WorkingPhase
<1>4. ASSUME NEW pc, Goto(t, pc)
      PROVE  /\ job'[t].pc = pc
             /\ job'[t].phase = q
             /\ \A u \in Tokens : u # t => job'[u] = job[u]
  BY <1>4 DEF Goto, Invariant, TypeOK, JobType
<1>5. ASSUME NEW pc, pc \notin {"working", "returned"}, Goto(t, pc), job[t].pc \in Live
      PROVE  LocksAreKept' /\ StateFollowsWork'
  BY <1>1, <1>2, <1>4, <1>5, OneGoesOn
<1>6. AfterBody(t) \in {"returned", "leaving"}
  BY DEF AfterBody
<1>7. ASSUME output \subseteq output', UNCHANGED <<state, cancelFrom>>
      PROVE  ReviewsAreBacked'
  BY <1>2, <1>7, RunMoves
<1>8. ASSUME NEW p, NEW chained, Begin(t, p, chained), job[t].pc \in Live
      PROVE  LocksAreKept' /\ StateFollowsWork'
  <2>1. job'[t].pc = "begun" /\ \A u \in Tokens : u # t => job'[u] = job[u]
    BY <1>8 DEF Begin, Invariant, TypeOK
  <2>2. QED
    BY <1>1, <1>2, <1>8, <2>1, OneGoesOn
<1>9. CASE JobBegin(t)
  BY <1>7, <1>8, <1>9, PcsOfLive DEF JobBegin
<1>10. CASE Enter(t)
  <2>1. q \in DeepPhases /\ state' = RunningState[q] /\ Goto(t, "working")
    BY <1>3, <1>10 DEF Enter
  <2>2. LocksAreKept' /\ StateFollowsWork'
    BY <1>1, <1>2, <1>4, <1>10, <2>1, OneGoesOn, PcsOfLive DEF Enter
  <2>3. ReviewsAreBacked'
    BY <1>2, <1>10, <2>1, RunMoves, BackedPhases, EndsOfPhases, CancelledIsNoEnd DEF Enter
  <2>4. QED
    BY <2>2, <2>3
<1>11. CASE Refuse(t) \/ FinishRaises(t) \/ JobException(t)
  BY <1>1, <1>2, <1>11, CourseOfRaised DEF Refuse, FinishRaises, JobException, PartialOutput
<1>12. CASE Wait(t)
  <2>1. q = "integrity" /\ state \in {"USER_EXTERNAL_SCAN_APPROVAL", "FAILED_VENDOR"}
    BY <1>12 DEF Wait, Waits, AgentStates, StartStates
  <2>2. (state \in Landing(q))'
    BY <1>12, <1>4, <2>1 DEF Wait, Landing
  <2>3. LocksAreKept' /\ StateFollowsWork'
    BY <1>1, <1>2, <1>4, <1>6, <1>12, <2>2, OneGoesOn, PcsOfLive DEF Wait
  <2>4. QED
    BY <1>7, <1>12, <2>3 DEF Wait
<1>13. CASE Abort(t)
  <2>1. job[t].pc \in Live /\ Goto(t, "leaving")
    BY <1>13, PcsOfLive DEF Abort
  <2>2. \/ state' = "CANCELLED" /\ cancelFrom' = state /\ output' = output
        \/ UNCHANGED <<state, cancelFrom, output>>
    BY <1>13 DEF Abort
  <2>3. \A p \in Backed : DoneState[p] # "CANCELLED"
    BY BackedPhases, EndsOfPhases
  <2>4. ReviewsAreBacked'
    BY <1>2, <2>2, <2>3 DEF ReviewsAreBacked
  <2>5. QED
    BY <1>5, <2>1, <2>4
<1>14. CASE Finish(t)
  <2>1. q \in DeepPhases /\ job[t].pc \in Live /\ state = RunningState[q]
    BY <1>2, <1>3, <1>14, PcsOfLive DEF Finish, StateFollowsWork
  <2>2. state' = DoneState[q]
    BY <1>14, <2>1 DEF Finish, DoneState, RunningState
  <2>3. LocksAreKept' /\ StateFollowsWork'
    BY <1>1, <1>2, <1>4, <1>6, <1>14, <2>1, <2>2, OneGoesOn DEF Finish, Landing
  <2>4. \A p \in Backed : state' = DoneState[p] => p \in output'
    <3>1. ASSUME NEW p \in Backed, state' = DoneState[p] PROVE p = q /\ p # "final_rewrite"
      <4>1. p \in Versioned \ {"drafter"}
        BY BackedPhases
      <4>2. p = q
        BY <2>1, <2>2, <3>1, <4>1, EndsOfPhases
      <4>3. QED
        BY <4>1, <4>2, PhaseNames
    <3>2. QED
      BY <1>14, <3>1 DEF Finish
  <2>5. ReviewsAreBacked'
    BY <1>2, <1>14, <2>1, <2>2, <2>4, RunMoves, CancelledIsNoEnd DEF Finish
  <2>6. QED
    BY <2>3, <2>5
<1>15. CASE Settle(t)
  <2>1. job[t].pc \in Live /\ Goto(t, "leaving") /\ state \in Landing(q) /\ q \in DeepPhases
    BY <1>2, <1>3, <1>15, PcsOfLive DEF Settle, StateFollowsWork
  <2>2. state # "CANCELLED"
    BY <2>1, LandingIsNoCancel
  <2>3. \A p \in Backed : state = DoneState[p] => p \notin Downstream(q)
    <3>1. CASE q \in Versioned
      BY <2>1, <3>1, PurgeMissesTheRun
    <3>2. CASE q \notin Versioned
      BY <3>2 DEF Downstream, Versioned
    <3>3. QED
      BY <3>1, <3>2
  <2>4. ReviewsAreBacked'
    BY <1>2, <1>15, <2>2, <2>3 DEF Settle, ReviewsAreBacked
  <2>5. QED
    BY <1>5, <2>1, <2>4
<1>16. CASE Chain(t)
  <2>1. job[t].pc \in Live /\ UNCHANGED <<state, cancelFrom, output>>
    BY <1>16, PcsOfLive DEF Chain
  <2>2. QED
    BY <1>5, <1>7, <1>8, <1>16, <2>1 DEF Chain
<1>17. CASE Leave(t)
  BY <1>5, <1>7, <1>17, PcsOfLive DEF Leave
<1>18. CASE AgentFail(t)
  <2>1. /\ q \in DeepPhases
        /\ job[t].pc \in Live
        /\ state' \in FailureStates
        /\ lastFailure'.phase = q
        /\ output \subseteq output'
        /\ Goto(t, AfterBody(t))
    BY <1>3, <1>18, PcsOfLive, CancelledIsNoEnd DEF AgentFail, Failed, PartialOutput
  <2>2. LocksAreKept' /\ StateFollowsWork'
    BY <1>1, <1>2, <1>4, <1>6, <2>1, OneGoesOn DEF Landing
  <2>3. \A p \in Backed : state' # DoneState[p]
    BY <2>1, BackedPhases, EndsOfPhases
  <2>4. state' # "CANCELLED"
    BY <2>1, CancelledIsNoEnd
  <2>5. QED
    BY <1>2, <2>1, <2>2, <2>3, <2>4, RunMoves
<1>19. CASE Die(t) \/ Drop(t)
  <2>1. job[t].pc \in Live /\ output \subseteq output' /\ UNCHANGED <<state, cancelFrom>>
    BY <1>19, PcsOfLive DEF Die, Drop, Begun, Live, PartialOutput
  <2>2. QED
    BY <1>5, <1>7, <1>19, <2>1 DEF Die, Drop
<1>20. CASE FastPath(t)
  <2>1. Goto(t, "swept") /\ job[t].pc = "dead"
    BY <1>20 DEF FastPath
  <2>2. LocksAreKept' /\ StateFollowsWork'
    BY <1>1, <1>2, <1>4, <1>20, <2>1, PcsOfLive
       DEF FastPath, LocksAreKept, StateFollowsWork, Landing
  <2>3. QED
    BY <1>7, <1>20, <2>2 DEF FastPath
<1>21. QED
  BY <1>9, <1>10, <1>11, <1>12, <1>13, <1>14, <1>15, <1>16, <1>17, <1>18, <1>19, <1>20
     DEF JobStep

LEMMA CourseOfOthers ==
    ASSUME Invariant, Course,
           \/ \E p \in Phases : Sweep(p)
           \/ ForceClear \/ ForceApprove \/ DecideScan \/ AcceptIntegrity
           \/ Delete \/ Restore \/ ClearCancel
           \/ UNCHANGED vars
    PROVE  Course'
<1> USE DEF row, marks, events, work, history
<1> SUFFICES ASSUME ~disturbed'
             PROVE  LocksAreKept' /\ StateFollowsWork' /\ ReviewsAreBacked'
  BY DEF Course
<1>1. CASE UNCHANGED <<state, cancelFrom, lastFailure, output, job, history>>
  BY <1>1 DEF Course, LocksAreKept, StateFollowsWork, ReviewsAreBacked, Landing
<1>2. ASSUME ~disturbed PROVE LocksAreKept /\ StateFollowsWork /\ ReviewsAreBacked
  BY <1>2 DEF Course
<1>3. ASSUME Revoke, UNCHANGED <<job, output, cancelFrom>>,
             \/ UNCHANGED state
             \/ state' \in FailureStates
      PROVE  LocksAreKept' /\ StateFollowsWork' /\ ReviewsAreBacked'
  <2>1. ~disturbed /\ revoked' = revoked \cup ({lock.token} \ {NoToken})
    BY <1>3 DEF Revoke
  <2>2. \A u \in Tokens : job[u].pc \notin Live
    BY <1>2, <1>3, <2>1, Alone
  <2>3. LocksAreKept' /\ StateFollowsWork'
    BY <1>3, <2>2, PcsOfLive DEF LocksAreKept, StateFollowsWork
  <2>4. \A p \in Backed : state' = DoneState[p] => state' = state
    BY <1>3, BackedPhases, EndsOfPhases
  <2>5. state' = "CANCELLED" => state' = state
    BY <1>3 DEF FailureStates
  <2>6. QED
    BY <1>2, <1>3, <2>1, <2>3, <2>4, <2>5, RunMoves
\* A user moves a run that is under review, failed or cancelled.
<1>4. ASSUME UNCHANGED <<job, output, cancelFrom, lastFailure, history>>,
             state \in FailureStates \cup ReviewStates \cup {"CANCELLED"},
             state' # "CANCELLED",
             \A q \in DeepPhases : state \in Landing(q) => state' \in Landing(q),
             \A p \in Backed : state' = DoneState[p] => p \in output
      PROVE  LocksAreKept' /\ StateFollowsWork' /\ ReviewsAreBacked'
  <2>1. LocksAreKept /\ StateFollowsWork /\ ReviewsAreBacked
    BY <1>2, <1>4
  <2>2. LocksAreKept' /\ ReviewsAreBacked'
    BY <1>4, <2>1, RunMoves DEF LocksAreKept
  <2>3. ASSUME NEW t \in Tokens, job[t].pc \in {"working", "returned"}
        PROVE  job[t].pc = "returned" /\ state' \in Landing(job[t].phase)
    <3>1. job[t].phase \in DeepPhases
      BY <2>3, WorkingPhase
    <3>2. QED
      BY <1>4, <2>1, <2>3, <3>1, RunningIsNoEnd DEF StateFollowsWork
  <2>4. StateFollowsWork'
    BY <1>4, <2>3 DEF StateFollowsWork, Landing
  <2>5. QED
    BY <2>2, <2>4
<1>5. \A p \in Backed : /\ p \in Phases
                        /\ DoneState[p] # "USER_FINAL_ACCEPTANCE"
                        /\ \A q \in DeepPhases : DoneState[p] = ReviewState[q] => p = q
  BY BackedPhases, EndsOfPhases
<1>6. CASE ForceApprove
  <2>1. state \in FailureStates
    BY <1>6 DEF ForceApprove, FailureStates
  <2>2. \/ state' = "USER_FINAL_ACCEPTANCE" /\ state \in {"FAILED_VENDOR", "FAILED_POLICY"}
        \/ /\ state \in FailureStates \ {"FAILED_VENDOR"}
           /\ lastFailure.phase \in output
           /\ lastFailure.phase \in DeepPhases
           /\ state' = ReviewState[lastFailure.phase]
    BY <1>6 DEF ForceApprove, Invariant, TypeOK
  <2>3. state' # "CANCELLED"
    BY <2>2, CancelledIsNoEnd
  <2>4. ASSUME NEW q \in DeepPhases, state \in Landing(q)
        PROVE  state' \in Landing(q)
    <3>1. state \notin {DoneState[q], ReviewState[q], "USER_FINAL_ACCEPTANCE",
                        "USER_EXTERNAL_SCAN_APPROVAL"}
      <4>1. DoneState[q] \notin FailureStates
        BY PhaseNames DEF DoneState, FailureStates
      <4>2. ReviewState[q] \notin FailureStates
        BY PhaseNames DEF ReviewState, RunningState, FailureStates
      <4>3. QED
        BY <2>1, <4>1, <4>2 DEF FailureStates
    <3>2. state = "FAILED_VENDOR" \/ lastFailure.phase = q
      BY <2>4, <3>1 DEF Landing
    <3>3. QED
      BY <2>2, <3>2 DEF Landing
  <2>5. \A p \in Backed : state' = DoneState[p] => p \in output
    BY <1>5, <2>2
  <2>6. QED
    BY <1>4, <1>6, <2>1, <2>3, <2>4, <2>5 DEF ForceApprove
<1>7. CASE DecideScan
  <2>1. /\ state \in {"USER_EXTERNAL_SCAN_APPROVAL", "FAILED_VENDOR"}
        /\ state' \in {state, "USER_FINAL_ACCEPTANCE"}
        /\ UNCHANGED <<job, output, cancelFrom, lastFailure, history>>
    BY <1>7 DEF DecideScan
  <2>2. state \in FailureStates \cup ReviewStates /\ state' # "CANCELLED"
    BY <2>1 DEF FailureStates, ReviewStates
  <2>3. \A q \in DeepPhases : state \in Landing(q) => state' \in Landing(q)
    BY <2>1 DEF Landing
  <2>4. \A p \in Backed : state' = DoneState[p] => p \in output
    BY <1>2, <1>5, <2>1 DEF ReviewsAreBacked
  <2>5. QED
    BY <1>4, <2>1, <2>2, <2>3, <2>4
<1>8. CASE AcceptIntegrity
  <2>1. /\ state = "USER_INTEGRITY_REVIEW"
        /\ state' = "USER_FINAL_ACCEPTANCE"
        /\ UNCHANGED <<job, output, cancelFrom, lastFailure, history>>
    BY <1>8 DEF AcceptIntegrity
  <2>2. \A q \in DeepPhases : state' \in Landing(q)
    BY <2>1 DEF Landing
  <2>3. QED
    BY <1>4, <1>5, <2>1, <2>2 DEF ReviewStates
<1>9. CASE ClearCancel
  <2>1. /\ state = "CANCELLED"
        /\ state' = cancelFrom
        /\ cancelFrom \in DOMAIN Successors
        /\ UNCHANGED <<job, output, cancelFrom, lastFailure, history>>
    BY <1>9 DEF ClearCancel
  <2>2. state' # "CANCELLED"
    BY <2>1 DEF Successors
  <2>3. \A q \in DeepPhases : state \notin Landing(q)
    BY <2>1, LandingIsNoCancel
  <2>4. \A p \in Backed : state' = DoneState[p] => p \in output
    BY <1>2, <2>1 DEF ReviewsAreBacked
  <2>5. QED
    BY <1>4, <2>1, <2>2, <2>3, <2>4
<1>10. CASE ForceClear
  BY <1>3, <1>10 DEF ForceClear
<1>11. ASSUME NEW p \in Phases, Sweep(p)
       PROVE  LocksAreKept' /\ StateFollowsWork' /\ ReviewsAreBacked'
  <2>1. CASE LockAges \/ FallsQuiet(p)
    BY <1>1, <2>1 DEF LockAges, FallsQuiet
  <2>2. CASE Reap(p)
    BY <1>3, <2>2 DEF Reap, FailureStates
  <2>3. QED
    BY <1>11, <2>1, <2>2 DEF Sweep
<1>12. CASE Delete \/ Restore \/ UNCHANGED vars
  BY <1>1, <1>12 DEF Delete, Restore, vars
<1>13. QED
  BY <1>6, <1>7, <1>8, <1>9, <1>10, <1>11, <1>12
-----------------------------------------------------------------------------
(* The theorems.                                                            *)

\* The invariant that the promises of the state need, with that of the first part.
Steering == Invariant /\ WorkersAreHeard /\ Course

LEMMA SteeringInit == Init => Steering
<1> SUFFICES ASSUME Init PROVE Steering
  OBVIOUS
<1>1. WorkersAreHeard /\ LocksAreKept /\ StateFollowsWork
  BY DEF Init, Unused, WorkersAreHeard, LocksAreKept, StateFollowsWork
<1>2. "none" \notin {DoneState[p] : p \in DeepPhases}
  BY PhaseNames DEF DoneState
<1>3. ReviewsAreBacked
  BY <1>2, StartAssumption, BackedPhases, PhasesAreDeep DEF Init, ReviewsAreBacked
<1>4. QED
  BY <1>1, <1>3, InvariantInit DEF Steering, Course

LEMMA SteeringNext == Steering /\ [Next]_vars => Steering'
<1> SUFFICES ASSUME Steering, [Next]_vars PROVE Steering'
  OBVIOUS
<1> USE DEF Steering
<1>1. Invariant'
  BY InvariantNext
<1>2. CASE UNCHANGED vars
  BY <1>1, <1>2, HeardOfOthers, CourseOfOthers
<1>3. CASE \E r \in Requests :
              \/ RequestStep(r) \/ EnqueueFails(r) \/ Crash(r)
              \/ \E p \in Phases :
                    \/ StartRead(r, p)
                    \/ AcceptRead(r, p)
                    \/ \E t \in Tokens : \/ StartFromZombie(r, p, t)
                                         \/ StartFromFailure(r, p, t)
                                         \/ Retry(r, p, t)
  BY <1>1, <1>3, HeardOfRequests, CourseOfRequests
<1>4. CASE \E t \in Tokens : JobStep(t) \/ AgentFail(t) \/ JobException(t) \/ Die(t)
                               \/ Drop(t) \/ FastPath(t)
  BY <1>1, <1>4, HeardOfJobs, CourseOfJobs
<1>5. CASE \/ \E p \in Phases : Sweep(p)
           \/ ForceClear \/ ForceApprove \/ DecideScan \/ AcceptIntegrity
           \/ Delete \/ Restore \/ ClearCancel
  BY <1>1, <1>5, HeardOfOthers, CourseOfOthers
<1>6. QED
  BY <1>2, <1>3, <1>4, <1>5 DEF Next

\* Every reachable state satisfies the inductive invariant.
LEMMA AlwaysSteering == Spec => []Steering
BY SteeringInit, SteeringNext, PTL DEF Spec

\* However long a phase queues, chains or dies, and whatever else happens to the
\* lock, the reaper and the endpoints never take a phase for a zombie on which a
\* worker within its RQ timeout is at work (_recover_zombie_running_phase, main.py).
THEOREM ZombiesAreAlwaysDead == Spec => []ZombiesAreDead
<1>1. Steering => ZombiesAreDead
  BY DEF Steering, WorkersAreHeard, ZombiesAreDead, Zombie
<1>2. QED
  BY <1>1, AlwaysSteering, PTL

\* However attempts, failures, rewinds and users' decisions follow one another, a
\* version that is committed late (phase_version.py) never purges the artifacts of
\* the phase at whose end the run stands, as long as locks are kept.
THEOREM ReviewAlwaysHasArtifacts == Spec => []ReviewHasArtifacts
<1>1. Steering => ReviewHasArtifacts
  BY DEF Steering, Course, ReviewsAreBacked, ReviewHasArtifacts
<1>2. QED
  BY <1>1, AlwaysSteering, PTL

\* No step of an agent, an endpoint or the reaper takes a run out of CANCELLED.
LEMMA CancelledStays ==
    ASSUME Steering, Next, ~disturbed, state = "CANCELLED"
    PROVE  state' = "CANCELLED" \/ ClearCancel
<1> USE DEF row, marks, events, work, history
<1>1. Invariant /\ StateFollowsWork
  BY DEF Steering, Course
<1>2. ASSUME NEW t \in Tokens, job[t].pc # "unused"
      PROVE  /\ job[t].pc # "working"
             /\ state \notin AgentStates[job[t].phase]
  BY <1>1, <1>2, WorkingPhase, CancelledIsNoEnd DEF StateFollowsWork
<1>3. \A p \in Phases : state # RunningState[p]
  BY CancelledIsNoEnd, PhasesAreDeep
<1>4. \A to : ~ Allowed(state, to)
  BY DEF Allowed, Successors, FailureStates
<1>5. state \notin FailureStates \cup ReviewStates
  BY DEF FailureStates, ReviewStates
<1>6. "FAILED_FIXABLE" \in FailureStates /\ "FAILED_VENDOR" \in FailureStates
        /\ "FAILED_POLICY" \in FailureStates
  BY DEF FailureStates
<1>7. ASSUME NEW r \in Requests,
             \/ RequestStep(r) \/ EnqueueFails(r) \/ Crash(r)
             \/ \E p \in Phases : StartRead(r, p) \/ AcceptRead(r, p)
      PROVE  state' = state
  BY <1>4, <1>7 DEF RequestStep, Claim, Conflict, Move, Enqueue, EnqueueFails, Crash,
                    StartRead, AcceptRead
<1>8. ASSUME NEW r \in Requests, NEW p \in Phases, NEW t \in Tokens,
             StartFromZombie(r, p, t) \/ StartFromFailure(r, p, t) \/ Retry(r, p, t)
      PROVE  FALSE
  BY <1>3, <1>5, <1>6, <1>8 DEF StartFromZombie, StartFromFailure, Retry, Zombie
<1>9. ASSUME NEW t \in Tokens, Raised(t)
      PROVE  state' = state
  BY <1>4, <1>9 DEF Raised
<1>10. ASSUME NEW t \in Tokens,
              JobStep(t) \/ AgentFail(t) \/ JobException(t) \/ Die(t) \/ Drop(t) \/ FastPath(t)
       PROVE  state' = state
  <2>1. CASE JobBegin(t) \/ Settle(t) \/ Chain(t) \/ Leave(t) \/ Wait(t)
    BY <2>1 DEF JobBegin, Settle, Chain, Leave, Wait
  <2>2. CASE Refuse(t) \/ FinishRaises(t) \/ JobException(t)
    BY <1>9, <2>2 DEF Refuse, FinishRaises, JobException
  <2>3. CASE Abort(t)
    BY <1>4, <2>3 DEF Abort
  <2>4. CASE Enter(t) \/ Finish(t) \/ AgentFail(t)
    BY <1>2, <2>4 DEF Enter, Finish, AgentFail
  <2>5. CASE Die(t) \/ Drop(t) \/ FastPath(t)
    BY <2>5 DEF Die, Drop, FastPath
  <2>6. QED
    BY <1>10, <2>1, <2>2, <2>3, <2>4, <2>5 DEF JobStep
<1>11. ASSUME NEW p \in Phases, Sweep(p) PROVE state' = state
  BY <1>3, <1>11 DEF Sweep, LockAges, FallsQuiet, Reap, Zombie
<1>12. ASSUME ForceClear \/ ForceApprove \/ DecideScan \/ AcceptIntegrity \/ Delete \/ Restore
       PROVE  state' = state
  BY <1>5, <1>6, <1>12 DEF ForceClear, ForceApprove, DecideScan, AcceptIntegrity, Delete, Restore
<1>13. QED
  BY <1>7, <1>8, <1>10, <1>11, <1>12 DEF Next

\* As long as locks are kept, no agent that overlooked the cancel, no endpoint and no
\* sweep takes a run out of CANCELLED; clear_run_cancel_intent does (main.py).
THEOREM CancelledIsAlwaysFinal == Spec => CancelledIsFinal
<1>1. Steering /\ [Next]_vars =>
         [~disturbed /\ state = "CANCELLED" => state' = "CANCELLED" \/ ClearCancel]_vars
  BY CancelledStays
<1>2. QED
  BY <1>1, AlwaysSteering, PTL DEF Spec, CancelledIsFinal
-----------------------------------------------------------------------------
(* The autopilot.                                                           *)

\* A pilot is after a phase of the run.
GoalsAreKnown == goal \in [Pilots -> Phases \cup {"none"}]

\* The two things that the autopilot does and no user: it goes straight to the claim
\* of a phase, or moves the run past a check.
StraightToTheClaim == \E r \in Pilots : req[r].pc = "idle" /\ AdvanceByClaim(r)
AutoStep == [Next]_vars \/ StraightToTheClaim \/ AdvanceBySkip

LEMMA Handlers ==
    /\ Handler("claim") \/ Handler("checkpoint") \/ Handler("start") =>
           Dispatch[state].phase \in Phases
    /\ Handler("skip") => state \in {"USER_EXTERNAL_SCAN_APPROVAL", "USER_INTEGRITY_REVIEW"}
<1>1. \A s \in DOMAIN Dispatch :
          /\ Dispatch[s].how # "skip" => Dispatch[s].phase # "none"
          /\ Dispatch[s].how = "skip" =>
                s \in {"USER_EXTERNAL_SCAN_APPROVAL", "USER_INTEGRITY_REVIEW"}
  BY DEF Dispatch, How
<1>2. QED
  BY <1>1 DEF Handler

LEMMA AutoSteps ==
    ASSUME GoalsAreKnown, [PilotedNext]_autoVars
    PROVE  AutoStep /\ GoalsAreKnown'
<1>1. CASE UNCHANGED autoVars
  BY <1>1 DEF autoVars, pilotVars, AutoStep, GoalsAreKnown
<1>2. ASSUME NEW r \in Pilots, GivesUp(r) \/ UNCHANGED goal
      PROVE  GoalsAreKnown'
  BY <1>2 DEF GivesUp, GoalsAreKnown
<1>3. ASSUME NEW r \in Pilots, Advance(r)
      PROVE  AutoStep /\ GoalsAreKnown'
  <2>1. r \in Requests
    BY PilotsAssumption
  <2>2. CASE AdvanceByClaim(r)
    BY <1>2, <1>3, <2>2 DEF Advance, AdvanceByClaim, AutoStep, StraightToTheClaim
  <2>3. CASE AdvanceByCheckpoint(r)
    <3>1. Dispatch[state].phase \in Phases
      BY <2>3, Handlers DEF AdvanceByCheckpoint
    <3>2. Next
      BY <2>1, <2>3, <3>1 DEF AdvanceByCheckpoint, Next
    <3>3. GoalsAreKnown'
      BY <2>3, <3>1 DEF AdvanceByCheckpoint, GoalsAreKnown
    <3>4. QED
      BY <3>2, <3>3 DEF AutoStep
  <2>4. CASE AdvanceByStart(r)
    <3>1. Dispatch[state].phase \in Phases
      BY <2>4, Handlers DEF AdvanceByStart
    <3>2. GoalsAreKnown'
      BY <2>4, <3>1 DEF AdvanceByStart, GoalsAreKnown
    <3>3. QED
      BY <2>4, <3>2 DEF AdvanceByStart, AutoStep
  <2>5. CASE AdvanceBySkip
    BY <1>2, <2>5 DEF AdvanceBySkip, AutoStep
  <2>6. QED
    BY <1>3, <2>2, <2>3, <2>4, <2>5 DEF Advance
<1>4. ASSUME NEW r \in Pilots, PilotRequest(r)
      PROVE  AutoStep /\ GoalsAreKnown'
  <2>1. RequestStep(r)
    BY <1>4 DEF PilotRequest, RequestStep, AnyFresh, Fresh
  <2>2. Next
    BY <2>1, PilotsAssumption DEF Next
  <2>3. QED
    BY <1>2, <1>4, <2>2 DEF PilotRequest, AutoStep
<1>5. ASSUME NEW r \in Pilots, Launch(r)
      PROVE  AutoStep /\ GoalsAreKnown'
  <2>1. goal[r] \in Phases /\ r \in Requests /\ GivesUp(r)
    BY <1>5, PilotsAssumption DEF Launch, GoalsAreKnown
  <2>2. AnyFresh => Fresh \in Tokens
    BY DEF AnyFresh, Fresh
  <2>3. \/ StartRead(r, goal[r])
        \/ AnyFresh /\ StartFromZombie(r, goal[r], Fresh)
        \/ AnyFresh /\ StartFromFailure(r, goal[r], Fresh)
        \/ UNCHANGED vars
    BY <1>5 DEF Launch
  <2>4. [Next]_vars
    BY <2>1, <2>2, <2>3 DEF Next
  <2>5. QED
    BY <1>2, <2>1, <2>4 DEF AutoStep
<1>6. ASSUME NEW r \in Pilots, PilotEnqueueFails(r) \/ PilotCrash(r)
      PROVE  AutoStep /\ GoalsAreKnown'
  BY <1>2, <1>6, PilotsAssumption DEF PilotEnqueueFails, PilotCrash, Next, AutoStep
<1>7. ASSUME NEW r \in Pilots, Hook(r) \/ Resume(r)
      PROVE  AutoStep /\ GoalsAreKnown'
  <2>1. CASE Advance(r)
    BY <1>3, <2>1
  <2>2. CASE UNCHANGED <<vars, goal>>
    BY <1>2, <2>2 DEF AutoStep
  <2>3. QED
    BY <1>7, <2>1, <2>2 DEF Hook, Resume
<1>8. ASSUME NEW t \in Tokens, JobLeaves(t) \/ JobGoesOn(t) \/ JobFaults(t)
      PROVE  AutoStep /\ GoalsAreKnown'
  <2>1. JobStep(t) \/ AgentFail(t) \/ JobException(t) \/ Die(t) \/ Drop(t)
    BY <1>8 DEF JobLeaves, JobGoesOn, JobFaults, JobStep
  <2>2. Next
    BY <2>1 DEF Next
  <2>3. UNCHANGED goal
    BY <1>8 DEF JobLeaves, JobGoesOn, JobFaults, pilotVars
  <2>4. QED
    BY <2>2, <2>3 DEF AutoStep, GoalsAreKnown
<1>9. ASSUME NEW p \in Phases, Sweeps(p)
      PROVE  AutoStep /\ GoalsAreKnown'
  BY <1>9 DEF Sweeps, Next, AutoStep, GoalsAreKnown, pilotVars
<1>10. CASE Step
  BY <1>4, <1>5, <1>6, <1>7, <1>8, <1>9, <1>10 DEF Step, PilotStep
<1>11. CASE Next /\ UNCHANGED pilotVars
  BY <1>11 DEF AutoStep, GoalsAreKnown, pilotVars
<1>12. QED
  BY <1>1, <1>10, <1>11 DEF PilotedNext

LEMMA SteeringOfClaims ==
    ASSUME Steering, StraightToTheClaim
    PROVE  Steering'
<1> USE DEF row, marks, events, work, history
<1>1. PICK r \in Requests, p \in Phases :
          /\ req[r].pc = "idle"
          /\ req' = [req EXCEPT ![r] = [pc |-> "claim", phase |-> p, token |-> NoToken]]
          /\ UNCHANGED <<row, events, work, job, budget, history>>
  BY PilotsAssumption, Handlers DEF StraightToTheClaim, AdvanceByClaim
<1>2. TypeOK' /\ PhasesAreKnown'
  BY <1>1 DEF Steering, Invariant, TypeOK, PhasesAreKnown, RequestType
<1>3. Ownership'
  BY <1>1 DEF Steering, Invariant, TypeOK, RequestType, Ownership, RequestsHoldJobs,
              OwnerIsUnderWay, FreeIsFree, FreshIsNotRevoked, HolderIsAlone
<1>4. WorkersAreHeard' /\ Course'
  BY <1>1 DEF Steering, WorkersAreHeard, Timed, Course, LocksAreKept, StateFollowsWork,
              ReviewsAreBacked, Landing
<1>5. QED
  BY <1>2, <1>3, <1>4 DEF Steering, Invariant

LEMMA SteeringOfSkips ==
    ASSUME Steering, AdvanceBySkip
    PROVE  Steering'
<1> USE DEF events, work, history
<1>1. /\ state \in {"USER_EXTERNAL_SCAN_APPROVAL", "USER_INTEGRITY_REVIEW"}
      /\ state' = "USER_FINAL_ACCEPTANCE"
      /\ scan' = (scan /\ state # "USER_EXTERNAL_SCAN_APPROVAL")
      /\ UNCHANGED <<lock, cancel, deleted, cancelFrom, events, work, req, job, budget, history>>
  BY Handlers DEF AdvanceBySkip
<1>2. TypeOK'
  <2>1. state' \in RunState
    BY <1>1 DEF RunState, ReviewStates
  <2>2. scan' \in BOOLEAN
    BY <1>1, Zenon
  <2>3. QED
    BY <1>1, <2>1, <2>2 DEF Steering, Invariant, TypeOK
<1>3. PhasesAreKnown' /\ Ownership'
  BY <1>1, OwnershipStutters DEF Steering, Invariant, PhasesAreKnown
<1>4. WorkersAreHeard'
  BY <1>1 DEF Steering, WorkersAreHeard, Timed
<1>5. ASSUME ~disturbed
      PROVE  LocksAreKept' /\ StateFollowsWork' /\ ReviewsAreBacked'
  <2>1. LocksAreKept /\ StateFollowsWork
    BY <1>5 DEF Steering, Course
  <2>2. LocksAreKept'
    BY <1>1, <2>1 DEF LocksAreKept
  <2>3. \A t \in Tokens : job[t].pc # "working"
    <3>1. \A q \in DeepPhases : state # RunningState[q]
      BY <1>1, RunningIsNoEnd DEF ReviewStates
    <3>2. QED
      BY <2>1, <3>1, WorkingPhase DEF Steering, StateFollowsWork
  <2>4. StateFollowsWork'
    BY <1>1, <2>3 DEF StateFollowsWork, Landing
  <2>5. \A p \in Backed : state' # DoneState[p]
    BY <1>1, BackedPhases, EndsOfPhases
  <2>6. ReviewsAreBacked'
    BY <1>1, <2>5 DEF ReviewsAreBacked
  <2>7. QED
    BY <2>2, <2>4, <2>6
<1>6. Course'
  BY <1>1, <1>5 DEF Course
<1>7. QED
  BY <1>2, <1>3, <1>4, <1>6 DEF Steering, Invariant

\* Every reachable state of a piloted run satisfies the same invariant.
LEMMA AlwaysSteeringOnAuto == PilotedSpec => [](Steering /\ GoalsAreKnown)
<1>1. AutoInit => Steering /\ GoalsAreKnown
  BY SteeringInit DEF AutoInit, GoalsAreKnown
<1>2. Steering /\ GoalsAreKnown /\ [PilotedNext]_autoVars => Steering' /\ GoalsAreKnown'
  BY AutoSteps, SteeringNext, SteeringOfClaims, SteeringOfSkips DEF AutoStep
<1>3. QED
  BY <1>1, <1>2, PTL DEF PilotedSpec

\* What the runs check of the autopilot alone is a part of that.
THEOREM AutoIsPiloted == AutoSpec => PilotedSpec
<1>1. [AutoNext]_autoVars => [PilotedNext]_autoVars
  BY DEF AutoNext, PilotedNext
<1>2. QED
  BY <1>1, PTL DEF AutoSpec, PilotedSpec

\* The autopilot's claims, which race with the users', leave whoever holds the lock
\* alone (auto_advance.py, phase_lock.py).
THEOREM HolderIsAloneOnAuto == PilotedSpec => []HolderIsAlone
<1>1. Steering => HolderIsAlone
  BY DEF Steering, Invariant, Ownership
<1>2. QED
  BY <1>1, AlwaysSteeringOnAuto, PTL

\* With the autopilot at work, attempts still follow one another as in PhaseAttempts.
THEOREM RefinementOnAuto == PilotedSpec => AttemptsFollowOneAnother
<1>1. AutoInit => Attempts!Init
  BY DEF AutoInit, Init, Unused, Attempts!Init, Stage
<1>2. ASSUME Steering, GoalsAreKnown, [PilotedNext]_autoVars
      PROVE  [Attempts!Next]_Stages
  <2>1. CASE UNCHANGED vars
    BY <2>1, StagesStutter DEF vars, history
  <2>2. CASE Next
    BY <1>2, <2>2, RequestsAttempt, JobsAttempt, OthersAttempt DEF Next, AttemptStep, Steering
  <2>3. CASE StraightToTheClaim \/ AdvanceBySkip
    BY <2>3, StagesStutter DEF StraightToTheClaim, AdvanceByClaim, AdvanceBySkip, history
  <2>4. QED
    BY <1>2, <2>1, <2>2, <2>3, AutoSteps DEF AutoStep
<1>3. QED
  BY <1>1, <1>2, AlwaysSteeringOnAuto, PTL
     DEF PilotedSpec, AttemptsFollowOneAnother, Attempts!Spec, Stages

\* The start endpoints that the autopilot calls in whatever state it finds the run by
\* then recover no phase on which a worker within its RQ timeout is at work.
THEOREM ZombiesAreDeadOnAuto == PilotedSpec => []ZombiesAreDead
<1>1. Steering => ZombiesAreDead
  BY DEF Steering, WorkersAreHeard, ZombiesAreDead, Zombie
<1>2. QED
  BY <1>1, AlwaysSteeringOnAuto, PTL

\* Wherever the autopilot takes the run to, the artifacts of the phase it stands behind
\* are there, until somebody clears the lock of a live attempt.
THEOREM ReviewHasArtifactsOnAuto == PilotedSpec => []ReviewHasArtifacts
<1>1. Steering => ReviewHasArtifacts
  BY DEF Steering, Course, ReviewsAreBacked, ReviewHasArtifacts
<1>2. QED
  BY <1>1, AlwaysSteeringOnAuto, PTL

\* The autopilot never takes a run out of CANCELLED (PauseStates of auto_advance.py), nor do
\* the workers it has started: while no live attempt has lost its lock, only
\* clear_run_cancel_intent does.
THEOREM CancelledIsFinalOnAuto == PilotedSpec => CancelledIsFinal
<1>1. ASSUME Steering, GoalsAreKnown, [PilotedNext]_autoVars
      PROVE  [~disturbed /\ state = "CANCELLED" => state' = "CANCELLED" \/ ClearCancel]_vars
  <2>1. CASE UNCHANGED vars
    BY <2>1
  <2>2. CASE Next
    BY <1>1, <2>2, CancelledStays
  <2>3. CASE StraightToTheClaim
    BY <2>3 DEF StraightToTheClaim, AdvanceByClaim, row
  <2>4. CASE AdvanceBySkip
    BY <2>4, Handlers DEF AdvanceBySkip
  <2>5. QED
    BY <1>1, <2>1, <2>2, <2>3, <2>4, AutoSteps DEF AutoStep
<1>2. QED
  BY <1>1, AlwaysSteeringOnAuto, PTL DEF PilotedSpec, CancelledIsFinal
=============================================================================
