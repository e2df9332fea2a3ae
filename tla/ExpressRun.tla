----------------------------- MODULE ExpressRun -----------------------------
(***************************************************************************)
(* A run in express mode (express_runner.py): one queued job that calls    *)
(* the model for a manuscript and once more for an audit of it, publishes  *)
(* the result and moves the run.  The job has no phase version and no      *)
(* zombie recovery of its own; what keeps two jobs apart, and what ends a  *)
(* run whose job died, is only the state of the run.  With it come the     *)
(* endpoints that a run in either mode shares: start, mode switch, delete, *)
(* restore and the clearing of the lock.                                   *)
(***************************************************************************)
EXTENDS Integers, FiniteSets

CONSTANTS
    Requests,       \* API calls that may be under way at the same time
    Tokens,         \* lock tokens, one per job
    NoToken,
    FirstMode,      \* generation_mode of the new run
    Usages,         \* tokens a model call may report
    Cap,            \* express_token_cap
    Requested,      \* estimate of the manuscript call
    AuditRequested, \* estimate of the audit call
    Faults          \* how often each fault and each intervention may happen

Interventions == {"enqueue", "break", "clear", "delete", "switch"}
Modes == {"express", "deep"}

ASSUME ExpressAssumption ==
    /\ NoToken \notin Tokens
    /\ FirstMode \in Modes
    /\ Usages \subseteq Nat
    /\ Cap \in Nat /\ Requested \in Nat /\ AuditRequested \in Nat
    /\ Faults \in [Interventions -> Nat]

VARIABLES
    state,      \* "DEEP": any state of the deep mode after DOMAIN_LOADED
    mode,
    lock,       \* active_phase_lock_job_id
    aged,       \* the lock is older than the cutoff of the zombie gate
    cancel,     \* cancel_requested_at is set
    deleted,
    req,        \* API calls, between two of their commits
    job,
    file,       \* per artifact of the run, the job that wrote it
    spent,      \* usage reported to the job that wrote the provenance
    budget

row == <<state, mode, lock, aged, cancel, deleted>>
vars == <<row, req, job, file, spent, budget>>

States == {"DOMAIN_LOADED", "EXPRESS_RUNNING", "EXPRESS_DONE", "EXPRESS_FAILED", "DEEP"}
Startable == {"DOMAIN_LOADED", "EXPRESS_FAILED"}
Artifacts == {"prompt", "manuscript", "audit", "draft", "exports", "provenance"}

Idle == [pc |-> "idle", token |-> NoToken, from |-> "DOMAIN_LOADED", mode |-> FirstMode]
Unused == [pc |-> "unused", kind |-> "express", tries |-> 0, usage |-> 0]

Writing == {"prompt", "manuscript", "audit", "publish", "ship"}

Steps == Writing \cup {"unused", "claimed", "queued", "release", "gone", "lost"}
Request == [pc : {"idle", "claim", "move", "enqueue", "switch"},
            token : Tokens \cup {NoToken}, from : Startable, mode : Modes]
Job == [pc : Steps, kind : Modes, tries : 0..1, usage : Nat]

TypeOK ==
    /\ state \in States
    /\ mode \in Modes
    /\ lock \in Tokens \cup {NoToken}
    /\ aged \in BOOLEAN /\ cancel \in BOOLEAN /\ deleted \in BOOLEAN
    /\ req \in [Requests -> Request]
    /\ job \in [Tokens -> Job]
    /\ file \in [Artifacts -> Tokens \cup {NoToken}]
    /\ spent \in Nat
    /\ budget \in [Interventions -> Nat]

\* A run that load_domain_for_run has moved to DOMAIN_LOADED.
Init ==
    /\ state = "DOMAIN_LOADED"
    /\ mode = FirstMode
    /\ lock = NoToken
    /\ aged = FALSE /\ cancel = FALSE /\ deleted = FALSE
    /\ req = [r \in Requests |-> Idle]
    /\ job = [t \in Tokens |-> Unused]
    /\ file = [a \in Artifacts |-> NoToken]
    /\ spent = 0
    /\ budget = Faults

\* "break" is a process that dies, or an exception nobody expects.
Spend(kind) == budget[kind] > 0 /\ budget' = [budget EXCEPT ![kind] = @ - 1]
Goto(t, pc) == job' = [job EXCEPT ![t].pc = pc]
\* The job ends here: with its lock, or without.
Ends(t, pc) == job' = [job EXCEPT ![t] = [Unused EXCEPT !.pc = pc]]
\* The next unused token: all are alike.
Fresh == CHOOSE t \in Tokens : job[t].pc = "unused"
Answer(r) == req' = [req EXCEPT ![r] = Idle]
Unlock == lock' = NoToken /\ aged' = FALSE
\* release_phase_lock
ReleaseLock(t) == IF lock = t THEN Unlock ELSE UNCHANGED <<lock, aged>>
-----------------------------------------------------------------------------
(* start_proposal and, in express mode, _start_express_generation.          *)

\* Neither asks whether the run is deleted.
StartRead(r) ==
    /\ req[r].pc = "idle"
    /\ state \in IF mode = "express" THEN Startable ELSE {"DOMAIN_LOADED"}
    /\ req' = [req EXCEPT ![r] = [Idle EXCEPT !.pc = "claim", !.from = state, !.mode = mode]]
    /\ UNCHANGED <<row, job, file, spent, budget>>

\* _claim_or_409 commits, and reads the row again.
Claim(r, t) ==
    /\ req[r].pc = "claim"
    /\ lock = NoToken
    /\ job[t].pc = "unused"
    /\ t = Fresh
    /\ lock' = t /\ aged' = FALSE
    /\ job' = [job EXCEPT ![t].pc = "claimed", ![t].kind = req[r].mode]
    /\ req' = [req EXCEPT ![r].pc = IF req[r].mode = "express" THEN "move" ELSE "enqueue",
                          ![r].token = t]
    /\ UNCHANGED <<state, mode, cancel, deleted, file, spent, budget>>

Conflict(r) ==
    /\ req[r].pc = "claim"
    /\ lock # NoToken
    /\ Answer(r)
    /\ UNCHANGED <<row, job, file, spent, budget>>

\* Mutant of Move: the run is moved whatever state it is in by now.
Move_Unchecked(r) ==
    /\ req[r].pc = "move"
    /\ state' = "EXPRESS_RUNNING"
    /\ req' = [req EXCEPT ![r].pc = "enqueue"]
    /\ UNCHANGED <<mode, lock, aged, cancel, deleted, job, file, spent, budget>>

\* The transition to EXPRESS_RUNNING.  Where the table has no such edge the call
\* ends with the exception, and the lock of its committed claim stays.
Move(r) ==
    /\ req[r].pc = "move"
    /\ IF state \in Startable
       THEN /\ state' = "EXPRESS_RUNNING"
            /\ req' = [req EXCEPT ![r].pc = "enqueue"]
            /\ UNCHANGED job
       ELSE /\ Ends(req[r].token, "lost")
            /\ Answer(r)
            /\ UNCHANGED state
    /\ UNCHANGED <<mode, lock, aged, cancel, deleted, file, spent, budget>>

Enqueue(r) ==
    /\ req[r].pc = "enqueue"
    /\ Goto(req[r].token, "queued")
    /\ req' = [req EXCEPT ![r].pc = "idle"]
    /\ UNCHANGED <<row, file, spent, budget>>

\* Mutant of EnqueueFails: the lock comes back, the state does not.
EnqueueFails_StaysRunning(r) ==
    /\ req[r].pc = "enqueue"
    /\ Spend("enqueue")
    /\ ReleaseLock(req[r].token)
    /\ Ends(req[r].token, "gone")
    /\ Answer(r)
    /\ UNCHANGED <<state, mode, cancel, deleted, file, spent>>

\* queue.enqueue raises: the lock is released and, in express mode, the run goes
\* back to the state it was read in.
EnqueueFails(r) ==
    /\ req[r].pc = "enqueue"
    /\ Spend("enqueue")
    /\ ReleaseLock(req[r].token)
    /\ Ends(req[r].token, "gone")
    /\ state' = IF req[r].mode = "express" THEN req[r].from ELSE state
    /\ Answer(r)
    /\ UNCHANGED <<mode, cancel, deleted, file, spent>>

\* The API process dies between two commits.
Crash(r) ==
    /\ req[r].pc \in {"move", "enqueue"}
    /\ Spend("break")
    /\ Ends(req[r].token, "lost")
    /\ Answer(r)
    /\ UNCHANGED <<row, file, spent>>
-----------------------------------------------------------------------------
(* run_express.                                                             *)

Put(artifacts, t) == file' = [a \in Artifacts |-> IF a \in artifacts THEN t ELSE file[a]]

\* _fail_express: the explicit failure, unless somebody has moved the run.
Fail(t) ==
    /\ state' = IF state = "EXPRESS_RUNNING" THEN "EXPRESS_FAILED" ELSE state
    /\ Ends(t, "release")

\* run_express up to its first commit.
JobBegin(t) ==
    /\ job[t].pc = "queued"
    /\ job[t].kind = "express"
    /\ IF state \in Startable \cup {"EXPRESS_RUNNING"}
       THEN state' = "EXPRESS_RUNNING" /\ Goto(t, "prompt")
       ELSE Ends(t, "release") /\ UNCHANGED state
    /\ UNCHANGED <<mode, lock, aged, cancel, deleted, req, file, spent, budget>>

\* The prompt is written, its estimate compared with the cap, and the cancel read.
Prompt(t) ==
    /\ job[t].pc = "prompt"
    /\ Put({"prompt"}, t)
    /\ IF Requested > Cap \/ cancel
       THEN Fail(t)
       ELSE Goto(t, "manuscript") /\ UNCHANGED state
    /\ UNCHANGED <<mode, lock, aged, cancel, deleted, req, spent, budget>>

\* _complete_with_transport_retry: every failure of the HTTP client is taken for
\* one of the transport, a timeout of the call and the alarm of the job included,
\* and tried once more.
TransportError(t) ==
    /\ job[t].pc \in {"manuscript", "audit"}
    /\ IF job[t].tries = 0
       THEN job' = [job EXCEPT ![t].tries = 1] /\ UNCHANGED state
       ELSE Fail(t)
    /\ UNCHANGED <<mode, lock, aged, cancel, deleted, req, file, spent, budget>>

\* The manuscript call answers: budget, completeness, the manuscript itself, the
\* cancel, and the estimate of what the audit will add.
Manuscript(t) ==
    /\ job[t].pc = "manuscript"
    /\ \E usage \in Usages, whole \in BOOLEAN :
          LET known == IF usage = 0 THEN Requested ELSE usage
          IN /\ IF usage > Cap \/ ~whole THEN UNCHANGED file ELSE Put({"manuscript"}, t)
             /\ IF usage > Cap \/ ~whole \/ cancel \/ known + AuditRequested > Cap
                THEN Fail(t)
                ELSE /\ job' = [job EXCEPT ![t].pc = "audit", ![t].tries = 0,
                                           ![t].usage = usage]
                     /\ UNCHANGED state
    /\ UNCHANGED <<mode, lock, aged, cancel, deleted, req, spent, budget>>

\* Mutant of Audit: the audit's own usage is what is compared with the cap.
Audit_OwnUsage(t) ==
    /\ job[t].pc = "audit"
    /\ \E usage \in Usages, json \in BOOLEAN :
          IF ~json \/ usage > Cap
          THEN Fail(t) /\ UNCHANGED file
          ELSE /\ Put({"audit"}, t)
               /\ job' = [job EXCEPT ![t].pc = "publish", ![t].usage = @ + usage]
               /\ UNCHANGED state
    /\ UNCHANGED <<mode, lock, aged, cancel, deleted, req, spent, budget>>

\* _run_audit_critic answers: what it says blocks nothing, but it has to be JSON
\* and the two calls together have to stay within the cap.
Audit(t) ==
    /\ job[t].pc = "audit"
    /\ \E usage \in Usages, json \in BOOLEAN :
          IF ~json \/ job[t].usage + usage > Cap
          THEN Fail(t) /\ UNCHANGED file
          ELSE /\ Put({"audit"}, t)
               /\ job' = [job EXCEPT ![t].pc = "publish", ![t].usage = @ + usage]
               /\ UNCHANGED state
    /\ UNCHANGED <<mode, lock, aged, cancel, deleted, req, spent, budget>>

\* _run_integrity_audit_only, _write_draft_compat_artifacts, the exports and the
\* provenance.
Publish(t) ==
    /\ job[t].pc = "publish"
    /\ Put({"draft", "exports", "provenance"}, t)
    /\ spent' = job[t].usage
    /\ Goto(t, "ship")
    /\ UNCHANGED <<row, req, budget>>

\* The last transition; the cancel is not read again.
Ship(t) ==
    /\ job[t].pc = "ship"
    /\ state' = IF state = "EXPRESS_RUNNING" THEN "EXPRESS_DONE" ELSE state
    /\ Ends(t, "release")
    /\ UNCHANGED <<mode, lock, aged, cancel, deleted, req, file, spent, budget>>

\* Anything that is not an ExpressFailure: the run stays as it is.
Exception(t) ==
    /\ job[t].pc \in Writing
    /\ Spend("break")
    /\ Ends(t, "release")
    /\ UNCHANGED <<row, req, file, spent>>

\* phase_lock_release_on_exit.
Leave(t) ==
    /\ job[t].pc = "release"
    /\ ReleaseLock(t)
    /\ Ends(t, "gone")
    /\ UNCHANGED <<state, mode, cancel, deleted, req, file, spent, budget>>

\* The worker process is killed.
Die(t) ==
    /\ job[t].pc \in Writing \cup {"release"}
    /\ Spend("break")
    /\ Ends(t, "lost")
    /\ UNCHANGED <<row, req, file, spent>>

\* A job of the deep mode moves the run on, and leaves.
DeepJob(t) ==
    /\ job[t].pc = "queued"
    /\ job[t].kind = "deep"
    /\ state' = IF state = "DOMAIN_LOADED" THEN "DEEP" ELSE state
    /\ Ends(t, "release")
    /\ UNCHANGED <<mode, lock, aged, cancel, deleted, req, file, spent, budget>>
-----------------------------------------------------------------------------
(* Time, the reaper, and the other endpoints.                               *)

Age ==
    /\ lock # NoToken
    /\ ~aged
    /\ aged' = TRUE
    /\ UNCHANGED <<state, mode, lock, cancel, deleted, req, job, file, spent, budget>>

\* _recover_zombie_running_phase from the sweep: express jobs write no event of a
\* phase, so that an aged lock is enough.  It is cleared and committed; the move
\* to FAILED_FIXABLE is refused by the table, and the recovery returns.
Reap ==
    /\ state = "EXPRESS_RUNNING"
    /\ lock # NoToken
    /\ aged
    /\ Unlock
    /\ UNCHANGED <<state, mode, cancel, deleted, req, job, file, spent, budget>>

\* clear_phase_lock.
ForceClear ==
    /\ ~deleted
    /\ lock # NoToken
    /\ Spend("clear")
    /\ Unlock
    /\ UNCHANGED <<state, mode, cancel, deleted, req, job, file, spent>>

\* delete_run.
Delete ==
    /\ ~deleted
    /\ Spend("delete")
    /\ deleted' = TRUE
    /\ cancel' = (cancel \/ state # "EXPRESS_DONE")
    /\ UNCHANGED <<state, mode, lock, aged, req, job, file, spent>>

\* restore_run.
Restore ==
    /\ deleted
    /\ lock = NoToken
    /\ deleted' = FALSE
    /\ cancel' = (cancel /\ state = "EXPRESS_RUNNING")
    /\ UNCHANGED <<state, mode, lock, aged, req, job, file, spent, budget>>

\* update_run_settings: the mode is changed only before the generation begins,
\* as far as the request has seen.
SwitchRead(r) ==
    /\ req[r].pc = "idle"
    /\ ~deleted
    /\ Spend("switch")
    /\ state = "DOMAIN_LOADED"
    /\ lock = NoToken
    /\ \E m \in Modes \ {mode} :
          req' = [req EXCEPT ![r] = [Idle EXCEPT !.pc = "switch", !.mode = m]]
    /\ UNCHANGED <<row, job, file, spent>>

Switch(r) ==
    /\ req[r].pc = "switch"
    /\ mode' = req[r].mode
    /\ Answer(r)
    /\ UNCHANGED <<state, lock, aged, cancel, deleted, job, file, spent, budget>>
-----------------------------------------------------------------------------
RequestStep(r) ==
    \/ \E t \in Tokens : Claim(r, t)
    \/ Conflict(r) \/ Move(r) \/ Enqueue(r) \/ Switch(r)

JobStep(t) ==
    \/ JobBegin(t) \/ Prompt(t) \/ TransportError(t) \/ Manuscript(t)
    \/ Audit(t) \/ Publish(t) \/ Ship(t) \/ Leave(t) \/ DeepJob(t)

Next ==
    \/ \E r \in Requests : \/ StartRead(r) \/ SwitchRead(r) \/ RequestStep(r)
                            \/ EnqueueFails(r) \/ Crash(r)
    \/ \E t \in Tokens : JobStep(t) \/ Exception(t) \/ Die(t)
    \/ Age \/ Reap \/ ForceClear \/ Delete \/ Restore

\* Requests are served, a worker runs the jobs, and the reaper sweeps.  Nothing is
\* assumed of users and faults.
Fairness ==
    /\ \A r \in Requests : WF_vars(RequestStep(r))
    /\ \A t \in Tokens : WF_vars(JobStep(t))
    /\ WF_vars(Age) /\ WF_vars(Reap)

Spec == Init /\ [][Next]_vars
FairSpec == Spec /\ Fairness
-----------------------------------------------------------------------------
(* Properties.                                                              *)

\* At most one job of the run writes its files, although the lock it came in
\* with may have been cleared by the reaper, an admin or a competing call: the
\* state of the run alone keeps the next job out (express_runner.py).
OneWriter == Cardinality({t \in Tokens : job[t].pc \in Writing}) <= 1

\* What a finished run shows is the work of one job, complete and audited, and
\* the two calls of that job have reported no more than the cap, after whatever
\* failures, retries and restarts came before (ADR 0003, express_runner.py).
ShippedIsWhole ==
    state = "EXPRESS_DONE" =>
        /\ spent <= Cap
        /\ \E t \in Tokens : \A a \in Artifacts : file[a] = t

\* Unless a process dies or something other than an ExpressFailure is raised, a
\* generation ends, or its call is told that it did not begin: neither a refused
\* enqueue nor a cleared lock leaves the run in EXPRESS_RUNNING.
Broken == budget["break"] < Faults["break"]
GenerationEnds == state = "EXPRESS_RUNNING" ~> state # "EXPRESS_RUNNING" \/ Broken
=============================================================================
