# Appleseed AutoEssay, in TLA+

Appleseed AutoEssay writes an academic essay in a pipeline of phases. Each phase is the work
of one agent, which runs for minutes to hours as a job of an RQ worker; between phases the
user decides how to go on. The unit of work is a *run*: one row of the `runs` table, a log
of events, a tree of artifacts on disk. Two things are hard about the program. API requests,
workers, a recovery sweep, an autopilot and an impatient user all move the same row, without
a lock of the database held for longer than a statement, and any of them may die between two
commits. And each agent is a long chain of model calls, gates, repairs and fallbacks over
one set of files, of which every link must keep what the ones before it have established.
This directory models both: the row and its processes, and what each agent does with what it
reads, asks and writes.

All paths below are relative to `src/backend/src/autoessay/` unless they say otherwise.

## 1. Inventory

| Part | Keeps | Operations | Speaks to |
|---|---|---|---|
| Run state machine, `state_machine.py` | `runs.state`, the `run_events` log, `cancel_requested_at` | `transition`, `append_event`, `assert_run_active` | everybody calls it |
| Phase lock, `phase_lock.py` | `active_phase_lock` (phase), `active_phase_lock_job_id` (token), `active_phase_lock_claimed_at` | claim, release, transfer, force-clear, release on exit of a job | endpoints claim, workers release, recoveries clear |
| Start, retry, checkpoint and recovery endpoints, `main.py` | nothing of their own | `start_<phase>`, `retry_failed_phase`, `_record_*_checkpoint`, `recover_stuck_phase`, `clear_phase_lock`, delete / restore / clear-cancel | lock, state machine, queue |
| Projects, runs and the essay limit, `main.py`, `models.py` | `projects`, `runs`, the lock on the user's row | create, delete, restore and remove a project or a run | workers see the cancel |
| Worker queue, `worker.py` | RQ jobs and their timeouts | enqueue, run, time out, lose a worker | runs agents |
| Phase versions and branches, `phase_version.py`, `branches.py` | `phase_versions` rows, heads, lineage, archives, the files on disk | begin, commit (with the cascade), fail, activate, delete; fork, switch | wraps each agent |
| User edit, `phase_user_edit.py` | a version made by hand | edit or replace under the lock | lock, versions |
| Rerun, `phase_rerun.py` | the branch's `stale_from_phase` | rewind, rerun, restore, recompute the marker | versions, agents |
| Readiness, `phase_readiness.py` | nothing | `phase_ready`, `assert_phase_ready` | reads artifacts for the endpoints |
| Zombie reaper, `zombie_reaper.py` | nothing | the sweep over RUNNING runs, the fast path for dead workers, the resumption of idle runs | recovery gate of `main.py`, RQ registries |
| Force approve, `phase_force_approve.py` | nothing | `compute_force_target`, `force_approve` | state machine, blockers |
| Auto-advance, `auto_advance.py` | `runs.auto_advance` | accepts checkpoints and starts phases, from the hook of a job and from the sweep | endpoints, lock, queue |
| Express mode, `express_runner.py` | `EXPRESS_*` states, its artifacts | one job from the kernel to a manuscript and its audit | lock, reaper |
| Agent harness and model client, `harness/*.py`, `llm_client.py` | `provider_calls`, `agent_invocations`, the call log | retry, validate, correct and audit one call; walk the provider chain | agents |
| Sourcing agents, `agents/scout.py`, `curator.py`, `synthesizer.py` | the pool, the shortlist, PDFs and their manifest, `claims.jsonl` | search, filter, rank, cap, fetch, note | reviews and uploads of the user |
| Writing agents, `agents/drafter.py`, `stylist.py` | drafts with claim map and bibliography | sections, diversity repair, marker repair, coherence, style | the shortlist, force-approve |
| Manuscript agents, `agents/final_rewrite.py`, `_critic_polish_loop.py`, `critic_loop.py`, `critic.py`, `integrity.py`, `exporter.py` | rewrite versions, reviews, blockers, exports | rewrite, three loops, critic, scan, gate and repair of the exports | each other's files, force-approve |
| Planning agents, `agents/proposal.py`, `ideator.py`, `tension_extraction.py`, `framework_lens.py`, outlines and diagnostics | their artifacts | one or two model calls each | harness |
| Architecture experiments, `experiments/*.py`, `scripts/abc-*.py` | `driver_state.json`, manuscripts of the arms, the blind set and its map | drive, generate, blind, judge, aggregate, resume | the HTTP API |
| Literature clients, accounts, corpus, web frontend | their own tables and views | CRUD, vendor I/O, display | endpoints |

### How the parts work together

1. `start_<phase>` reads `runs.state` and the artifacts the phase needs, then claims the
   lock with one conditional UPDATE and a fresh token, commits, and queues a job that
   carries the token. A checkpoint decision does the same but moves the run to its running
   state between claim and enqueue. The two phases without an enqueuer (tension extraction,
   framework lens) run inside the request.
2. The worker enters `phase_lock_release_on_exit`, and inside it the wrapper of
   `phase_version.py`, which makes a version row unless one of the phase is still `running`.
   The agent checks the state, moves the run to `<PHASE>_RUNNING`, records `phase_started`,
   works, records `phase_done` or `phase_failed` and moves the run on. The wrapper then
   commits the version, which drops the artifacts of later phases; the lock is released
   last, if phase and token are still in the row.
3. The final rewrite hands its lock to the critic and goes on with it in the same job.
4. The recovery gate `_recover_zombie_running_phase` takes a run for a zombie when it stands
   in a running state, the newest event of the phase is not a terminal one, the lock is free
   or old, and no event is younger than the idle threshold. The reaper, the recover endpoint
   and the start endpoints use it.
5. A failed run is rewound to the input state of a phase when that phase is started or
   retried, and its lock is force-cleared.
6. Delete only records an intent, which the agent honours at its next look.
7. With auto-advance, the release of a lock, and each sweep for idle runs, calls
   `maybe_advance`, which uses the same checkpoints and endpoints as the user.
8. An agent makes its model calls through the harness. What it leaves on disk is all the
   next agent reads: pool, reviews, shortlist, manifest and claims in sourcing; the draft
   with claim map and bibliography in writing; rewrite versions, reviews and scan at the
   end.

### What is hard

* **Interleaving.** The state guard of an endpoint and its claim are separate statements; a
  checkpoint has three commits; an agent writes its result with a state its session loaded
  long before.
* **Crashes.** A process may die after the claim, after the running state, while an agent
  works, between the done transition and the version commit, or before the release.
* **Lost jobs.** Redis may refuse a job, or lose one it has taken.
* **Time.** Locks and events are judged by their age. The threshold is the job's timeout and
  ten minutes, measured from the claim, but a job may wait in the queue.
* **Takeover.** After a force-clear two agents of one run are alive. The older one still
  writes results, commits its version, and releases.
* **Sequences of user actions.** Delete, restore, clear-cancel, force-approve and clear-lock
  are legal in many states.
* **Files without transactions.** An agent writes several files one by one and may die
  between any two; the next agent, a rerun or a resumed script reads what is there.
* **Loops with several gates.** Repairs, polish rounds and fallbacks each have a check of
  their own, and each may undo what another one has checked.

### What makes each part correct

* Lock: attempts at the phases of a run follow one another; a late release, hand-over or
  enqueue failure never takes somebody else's lock; every claimed lock is released.
* State machine: a running state ends; a cancelled run stays cancelled.
* Reaper: it recovers the dead, and never a worker that is within its timeout.
* Auto-advance: a run arrives at its end or is handed back to the user.
* Express: one writer, and what is shipped is whole and within the cap.
* Versions: a late commit never purges what a later phase has produced; heads, lineage and
  files agree; nothing that is still referred to is deleted; an edit replaces what its
  author saw.
* Essays: the limit holds; the runs of a deleted project are told to stop.
* Harness: every call ends, leaves a complete trail, and fails only when the chain is used
  up.
* Sourcing: what is on the shortlist is approved, allowed, verified and diverse; claims are
  about what the user chose.
* Writing: claims keep to the evidence policy; no pass loses a citation; a draft below its
  floor is reported.
* Manuscript: no text without a gate becomes the manuscript, no score falls, blockers are
  about the text the user sees, exports are sourced or waived.
* Experiments: flags are true, paid work is kept, reports are whole.

`PROJECT.json` lists the hazards line by line, each with the property that watches it.

## 2. Modules

| Module | Content | Instances |
|---|---|---|
| `RunStates` | Constant tables: states, `ALLOWED_TRANSITIONS`, and for each phase its start, entry, running, done, input, review and failure states | |
| `RunLifecycle` | The state of one run and every process that drives it | |
| `PhaseAttempts` | The abstract specification of the lock: attempts begin one at a time, end, are given up, are replaced | |
| `RunProperties` | Fairness, the refinement mapping to `PhaseAttempts`, the properties | `MCRun` |
| `AutoAdvance` | The autopilot, composed with `RunLifecycle`: its pilots are requests of that module | `MCAuto` |
| `ExpressRun` | A run in express mode, on the same lock and reaper | `MCExpress` |
| `VersionGraph` | Versions, heads, branches, the marker and the files of one run, with jobs, reruns, edits and the version endpoints | `MCVersions` |
| `Essays` | The projects and runs of one user, and the limit | `MCEssays` |
| `CallSites` | The parameters of the 32 places from which agents call models and vendors | |
| `ModelCall` | Harness, audit and provider chain, for the calls of one agent | `MCModelCall` |
| `Sourcing` | Scout, curator, synthesizer, reviews and uploads | `MCSourcing` |
| `Drafting` | Drafter and stylist | `MCDrafting` |
| `Manuscript` | Final rewrite, the three loops, critic, integrity, exports | `MCManuscript` |
| `Experiment` | Driver, server, arms, blinder, judge and aggregate | `MCExperiment` |
| `RunProofs` | The proofs about `RunLifecycle` with `RunProperties` and `PhaseAttempts`, and about `AutoAdvance` | |
| `VersionProofs`, `GenerationProofs` | The proofs about `VersionGraph`, and about `ExpressRun` and `Experiment` | |
| `EssaysProofs`, `ModelCallProofs`, `SourcingProofs`, `DraftingProofs`, `ManuscriptProofs` | The proofs about the modules they are named after | |

The modules fall into two groups. `RunLifecycle`, `AutoAdvance`, `ExpressRun`,
`VersionGraph` and `Essays` model rows that several processes move. `ModelCall`, `Sourcing`,
`Drafting`, `Manuscript` and `Experiment` model what one job at a time does to files, and
what the user, a crash or another script does in between. What is one nondeterministic step
of a job in the first group (`Finish` or `AgentFail`) is a module of the second.

In each module, a step is what one process does between two of its commits or writes, or
between a read and the commit that relies on it, so that everybody else can act in each gap
the code leaves. Definitions called `X_Something` next to a definition `X` are what a
plausible mistake in `X` would look like; no specification uses them, they serve to see that
a property can fail.

### RunLifecycle

| Variable | Code |
|---|---|
| `state` | `runs.state` |
| `lock` | the three lock columns; `aged` says that `claimed_at` is older than the idle threshold of the phase |
| `cancel`, `deleted` | `cancel_requested_at` and `deleted_at` are set |
| `cancelFrom` | `from_state` in the payload of the newest transition to `CANCELLED` |
| `scan` | the newest external scan checkpoint approves the scan |
| `round`, `quiet` | what the newest phase event is (none, opening, terminal), and whether it is old |
| `lastFailure` | phase and class of the newest `phase_failed` event |
| `output` | phases whose artifacts pass for completed |
| `running` | `phase_versions` rows with status `running`, named by their job |
| `req` | each API request: how far it has got, for which phase and with which token |
| `job` | each attempt: its step, its phase, whether it has a version row, whether it is a critic in a rewrite job |
| `budget` | how many faults and interventions are left |
| `revoked`, `disturbed` | history: whose lock was cleared by somebody else, and whether one of them was alive |

| Actions | Code |
|---|---|
| `StartRead`, `Claim`, `Conflict`, `Enqueue`, `EnqueueFails` | `start_<phase>`, `_claim_or_409`, `_enqueue_phase`, `_release_after_enqueue_failure` |
| `AcceptRead`, `Claim`, `Move`, `Enqueue` | the proposal, novelty and integrity checkpoints where they start a phase |
| `StartFromZombie`, `StartFromFailure`, `Retry` | `_recover_zombie_running_phase` and `_recover_failed_fixable_for_phase` as the endpoints call them |
| `JobBegin`, `Begin`, `Settle`, `Raised` | `maybe_run_with_versioning`, `run_with_versioning`, `begin_`, `commit_`, `fail_phase_version` |
| `Enter`, `Refuse`, `Wait`, `Abort`, `Finish`, `FinishRaises`, `AgentFail`, `JobException` | the agents |
| `Chain`, `Leave` | `run_final_rewrite_then_critic` with `transfer_phase_lock`; `phase_lock_release_on_exit` |
| `LockAges`, `FallsQuiet`, `Reap`, `FastPath` | time, `reap_zombies_once`, `fast_path_dead_workers_orphan_phase_locks` |
| `ForceClear`, `ForceApprove`, `DecideScan`, `AcceptIntegrity`, `Delete`, `Restore`, `ClearCancel` | the user's other endpoints |
| `Crash`, `Die`, `Drop` | an API process, a worker or a queued job is lost |

What it abstracts:

* An agent's work is one step with a nondeterministic outcome. What a failed phase leaves on
  disk may or may not pass for completed artifacts (`PartialOutput`).
* `Seen` is what an agent's session may believe about `runs.state`: the row as it is, or
  what the agent has written itself, since a commit may or may not have reloaded it.
* A recovery inside a start endpoint reads, clears and claims in one transaction and is one
  action. `Move` reads and writes in one step too.
* `assert_run_active` commits `CANCELLED` and raises; the version row is failed directly
  after that, and both are one step (`Abort`).
* A version commit purges every later phase: what a later phase recorded as its input is
  another version, so its lineage never matches the new one. `VersionGraph` has the whole
  story.
* The idle threshold is the RQ timeout and ten minutes. Events younger than it are always
  there while an RQ worker is within its timeout, hence `Timed` in `LockAges` and
  `FallsQuiet`. Inline phases have no timeout, and a critic that a rewrite goes on with runs
  under the rewrite's, longer one, so neither is `Timed`.
* `FastPath` sets the claim to one hour ago. For the critic and the final rewrite, whose
  default threshold is longer, such a lock is not old (`OverAnHour`). Timeouts configured
  through the environment are not looked at.
* There is one branch and no rerun, so that a version row is only `running` or settled.

### AutoAdvance

`maybe_advance` is a table from states to handlers (`Dispatch`), and a handler claims
(`AdvanceByClaim`), records a checkpoint and then calls the start endpoint on top
(`AdvanceByCheckpoint`, `Launch`), only calls it (`AdvanceByStart`, `Launch`), or skips a
check (`AdvanceBySkip`). `Hook` is the call a worker makes after the release of its lock,
`Resume` the one of the sweep; the set `due` holds jobs between release and hook. A pilot
goes on by the request actions of `RunLifecycle`, so that it loses a claim, meets a refused
queue or dies like any other request. There are two specifications. In `AutoSpec`, whose
properties are about where the autopilot gets to by itself, it is alone with the workers and
the sweep, and is followed up to the first recovery that takes the lock from a live attempt
(`OutOfBounds`). In `PilotedSpec` there is no such bound, and everybody else of
`RunLifecycle` acts beside it: users start what it is about to start, recover, cancel and
clear what it has started, and a hook may be lost.

### ExpressRun

`state`, `lock`, `cancel` and `deleted` are the columns of `RunLifecycle`; `mode` is
`generation_mode`, and `state = "DEEP"` stands for every state of deep mode after
`DOMAIN_LOADED`. `file` says which job wrote each artifact, `spent` what that job's calls
reported. `StartRead`, `Claim`, `Move`, `Enqueue` are `start_proposal` and
`_start_express_generation`; `JobBegin`, `Prompt`, `Manuscript`, `Audit`, `Publish`, `Ship`
are `run_express` in the order of its commits and files; `TransportError` is a failed model
call with its retries; `Exception` is what is not an `ExpressFailure`. `Reap` does what the
gate of `main.py` does to an express run: it clears the lock, and its transition to
`FAILED_FIXABLE` is refused.

### VersionGraph

| Variable | Code |
|---|---|
| `run`, `lock` | kind of `runs.state`, how many phases are behind it; who holds the phase lock |
| `active`, `branch`, `fork`, `stale` | `runs.active_branch_id`, the `branches` rows |
| `head` | `run_heads` |
| `ver` | `phase_versions` with `phase_version_inputs` and the archived files |
| `disk` | what the files of each phase, at the paths agents read, were written by |
| `att` | attempts: a job, a synchronous rerun, an edit, a replacement |
| `direct`, `raced` | history: heads that were chosen rather than computed; heads or files moved under an attempt that holds the lock |

`Begin`, `Enter`, `Finish`, `Fail`, `Commit`, `CommitRaises`, `Settle` are
`run_with_versioning` around an agent, `SaveEdit` and `SaveReplace` the ends of
`apply_phase_user_edit`; `Cascade` is `_cascade_phase_after_upstream_change`. The other
actions are endpoints: activation, activation of a matching lineage, deletion, fork, switch,
deletion of a branch, and the edits of sources, proposal and research kernel that only move
the marker or files. Phases are `N` consecutive ones of the part of the pipeline that is
linear. The bytes of a phase are the version that wrote them. A commit, and the save of an
edit, are one transaction and one step, the move of files included. The run has a proposal,
and requests that lose their claim are not followed.

### Essays

`project` and `run` are the rows, `user` the holder of the `SELECT ... FOR UPDATE` on the
user's row, `call` an API call between its read and its commit. `Gate` is
`_lock_user_for_essay_limit`, with the count; `ProjectCreated`, `RunCreated`,
`ProjectRestored`, `RunRestored` are the commits that follow. `ActiveEssays` is the query of
`_count_active_essays`. Deletions, removals, `ClearCancel` and `Reopen` need no lock; what
they make active without a count is counted in `slips`, and what is added to a project that
was deleted after it had been read is in `late`. `Start` and the jobs stand for the run as
`RunLifecycle` has it.

### ModelCall and CallSites

A call is made from a site (`CallSites`), which fixes its retries, its hooks, its fallback
and what the agent goes on with. `Serve`, `FallThrough` and `GiveUp` are the provider chain
of `chat_completion`; `JudgeAnswer` is validation with the hooks; `WriteLog`, `CommitRow`,
`NextAttempt`, `FinishInvocation` are the audit, in the order of its writes. `Kill` is a
worker that dies, `Alarm` the timeout of the job, which interrupts the request and which the
agent's `except Exception` may survive. An answer is one of the cases the code tells apart,
and what it is worth is chosen when it is judged. The drafter's retries default to 4; TLC
takes 2.

### Sourcing

`skim`, `disk` and `review` are the files and the newest checkpoints; `lib` says what is
true of the records (fit, work, venue, author, access), which never changes. Each agent's
steps are its writes: `Baseline`, `Expand`, `Answer`, `Collected`, `Mine`, `Skim` of the
scout, `Prune`, `Rank`, `Gate`, `Fetch`, `Write`, `CuratorDone` of the curator, `Read`,
`Note`, `SynthesizerDone` of the synthesizer. Vendors answer with any part of what the
library has, models with any score. `Rank` puts the pool in any order that goes by the scores
(`Orders`); `Gate` takes any set of it that `Diverse` describes, the one the code's pass
through the ranking ends with; `job.rest` is the set of places still to fetch. An upload is
two steps, its check (`Post`) and its writes (`Store`), with agents in between. `Crash` is a
killed job together with the reaper.

### Drafting

A section is the sources its claims name, the citation keys of its prose in their order, and
whether it is a stub. `DraftSection` (with the whitelist policy in `Accepts`), `CheckFloor`,
`Diversify`, `Compose`, `RepairMarkers`, `Cohere`, the three files and the verdict are the
drafter, `StyleSection`, `Polish`, `FinishStyle` the stylist. A `study` is what the drafter
may start from. Prompts, keywords, abstracts and layout are left out; the transitions are
cut down to those between the two phases.

### Manuscript

A text is where it came from and whether it would pass the deterministic gate. `rewrite` is
the list of rewrite directories, each with a text, a claim map that may be missing, and an
audit; `review` is what the newest finished critic has read and left open. `Round0` ...
`EndPolish` are the controlled polish loop, `Opening`, `Score`, `Select` the production
critic loop, `WriteText`, `WriteClaims`, `WriteAudit` the files of a version in their order,
`ReadManuscript`, `CriticFails`, `Reviewed` the critic with its fallback (`Revert`),
`PassGate`, `RefuseExport`, `Repair`, `Compose` the exporter. Scores and candidates are
choices. The audit is given the claim map of the same text.

### Experiment

Everything is a file in one results directory. A manuscript is its generation, a number that
grows with each writing, so that a stale copy, provenance or critique can be told from a
current one. `Invoke` and `LoadState` are a command with `--resume`, `--force` or neither;
`Worker(k)` is the thread of a kernel, action by action as `_plan_actions` orders them;
`Save` is the thread's save of the shared state; `BuildBlindset`, `Blind`, `WriteMap`,
`AppendArm` are the blinder; `Judge` and `Aggregate` the scoring. A list of arms is what
`_validate_arms` lets through (`Valid`). All arms have their recipe (`Recipe`); the runs
generate A, B and B_prime. `ExperimentSpec` is the specification, `FairExperiment` the one
with fairness.

## 3. Runs

Deadlock is not checked: users may do nothing, and versions, tokens and counts run out.
Every count is a bound of a cfg or of its MC module. Symmetry is used in `LocksAndVersions`
and `Essays` only, which check no liveness.

| Run | Module and instance | Properties | States |
|---|---|---|---|
| `LocksAndVersions` | `RunLifecycle`: scout, curator, rewrite, critic, from the proposal review or the revision review; 2 requests, 2 tokens, every fault once | `TypeOK`, `HolderIsAlone`, `ReviewHasArtifacts`, `ZombiesAreDead`, `AttemptsFollowOneAnother` | 925 000 |
| `ScanAndExports` | `RunLifecycle`: integrity and exports; 1 request, 2 tokens, every fault once, one clear, one delete | `RunningEnds`, `CancelledIsFinal` | 662 000 |
| `AutoPilot` | `AutoAdvance`: drafter, stylist, rewrite, critic, exports; 2 pilots, 6 tokens, one agent failure, one refused enqueue | `Arrives`, `LocksComeBack` | 251 000 |
| `Versions` | `VersionGraph`: 2 phases, 2 branches, 3 versions, a job or rerun next to an edit or replacement, 2 moves of the user | `HeadsFollowUpstream`, `NothingDangles`, `DiskShowsHeads`, `LineageIsTrue` | 383 000 |
| `Express` | `ExpressRun`: 2 requests, 2 tokens, usages below, at and over a cap of 4, every fault and intervention once | `OneWriter`, `ShippedIsWhole`, `GenerationEnds` | 112 000 |
| `Essays` | `Essays`: 2 projects, 2 runs, 2 callers, limit 1, 1 slip | `LimitHolds`, `DeletedIsCancelled` | 1 380 000 |
| `ModelCalls` | `ModelCall`: 15 sites, one for each way to call, 2 providers, 2 calls, 1 breakdown | `EveryCallIsAudited`, `LogCoversRows`, `FailureMeansExhausted`, `EveryCallEnds` | 812 000 |
| `Sourcing` | `Sourcing`: 3 records, an upload, a rich and a poor library, limit 2, caps 1, 1 redo | `ShortlistIsVouched`, `CapsHold`, `OldPdfsAreGone`, `ClaimsAreGrounded` | 584 000 |
| `Drafts` | `Drafting`: 2 sources, 2 sections, floor 2, 5 studies | `ClaimsAreVouched`, `FloorIsReported`, `KeysSurviveStyle`, `CitationsSurvive` | 106 000 |
| `Manuscripts` | `Manuscript`: 3 attempts, 2 accepted, patience 2, 2 iterations, 1 repair, 2 dimensions, 5 modes, 2 versions, 1 death | `OnlyVouchedTexts`, `NoScoreIsLost`, `UserSeesWhatWasReviewed`, `ExportsAreSourced`, `EveryJobEnds` | 572 000 |
| `Experiments` | `Experiment`: 2 kernels, arms A, B or A, B_prime, B; 2 driver commands, 2 builds, 1 mishap | `FlagsAreTrue`, `CritiqueIsOfTheSubmission`, `ProgressIsKept`, `ReportIsWhole`, `InvocationEnds` | 447 000 |
| `EditLostUpdate` | `VersionGraph`: 1 phase, two actors that work or edit | `EditsFollowWhatTheUserSaw`, which the code does not keep | |

What the runs show:

* `LocksAndVersions`: two users start, retry and recover phases by every way there is, while
  jobs fail, raise, die and are lost. The lock is never shared and implements
  `PhaseAttempts`; late commits take nothing from a finished phase; no worker within its
  timeout is taken for a zombie.
* `ScanAndExports`: a worker or the reaper moves the run out of both running states, also
  when the scan approval is withdrawn, and a cancelled run stays cancelled.
* `AutoPilot`: whatever trigger is lost, refused or overtaken, the run arrives or fails in
  public.
* `Versions`: heads, lineage, references and files agree through commits, cascades, forks,
  switches and edits, except where an endpoint has moved heads or files under an attempt
  that holds the lock, which the endpoints do not look at.
* `Express`: one writer; nothing over the cap or without its audit is shown; a generation
  ends unless a process broke off.
* `Essays`: counted creations and restores never add up beyond the limit, and a deletion
  reaches every run.
* `ModelCalls`: what the harness reports, its rows and its log agree, and it does not give
  up early.
* `Sourcing`, `Drafts`, `Manuscripts`: what later steps and other actors do does not undo
  what an earlier gate has established.
* `Experiments`: an experiment can be killed and resumed at any point without lost or wrong
  results.

### Why these bounds

Two tokens are what it takes for a taken-over attempt to meet the one that replaced it, and
two requests for a claim to lose against another. Two consecutive phases are what it takes
for a late commit to purge a successor; scout and curator are a pair joined by a checkpoint,
rewrite and critic one joined by the hand-over. One fault of each kind gives every pair of
faults. Six tokens let the autopilot start one of its five phases again. Three versions of
two phases on two branches give a head, its replacement and a fork, and two moves are a fork
with a switch, or an activation with a deletion. A limit of one essay with two projects and
two callers is the smallest instance in which two creations compete. A cap between the
usages lets one call, or only the sum of two, exceed it. Two providers give a first, a last
and a fall-through; two calls share an invocation row. A record too many for the limit, two
of one venue and two of one author make every cap bind. Two sections and two sources let a
repair drop a source from one section that the other does not have. Three attempts with a
patience of two reach the exit by patience, by count and by acceptance. Two driver commands
are a run and its resumption, and one mishap falls anywhere in them. The other phases have
the same shape as those that are checked: the tables in `RunStates` cover all thirteen, and
the proofs all of them. The 17 sites of `CallSites` that `ModelCalls` leaves out differ from
those it has in nothing a call can see.

The rewrite and the critic are not in `RunningEnds`: there is a known way to be left in
`CRITIC_RUNNING`, see below.

### Where code and documentation disagree

`EditLostUpdate` shows a behaviour that a comment rules out. `apply_phase_user_edit`
compares the head the client saw with the head of the branch (phase_user_edit.py:240) before
it claims the lock, and not again. Two requests may both pass; the second one to claim
overwrites what the first has written, while the comment at phase_user_edit.py:233 says
"Optimistic concurrency: only let the caller commit if the head they were viewing is still
the head now. Without this two tabs can race and silently overwrite each other".

These were seen while the models were written. They are kept as behaviours of the models,
and the properties, bounds and fairness allow for them:

| Where | Behaviour |
|---|---|
| main.py:3696, main.py:232 | retrying a failed `final_rewrite` claims, finds no kickoff for the phase, answers 500 and keeps the lock |
| main.py:8229, main.py:3425 | a checkpoint moves to `SCOUT_RUNNING`, the enqueue fails, and the terminal event of an earlier round hides the run from the recovery gate |
| main.py:3942, main.py:3925 | the rewind "is a no-op when another phase has failed", but without output of the requested phase it rewinds anyway |
| main.py:4233 | a start in express mode whose transition is invalid leaves its lock |
| main.py:2196 | a hard delete removes the directory before the rows |
| main.py:7894–7897, 7940–7948, agents/curator.py:489, 546 | an upload that has passed its check of the state is stored under an agent that rewrites the manifest |
| zombie_reaper.py:249, 150 | the fast path compares run and phase of a dead job, not its token |
| zombie_reaper.py:267, 130 | its hour is less than the threshold of critic and final rewrite, so that the same sweep does not recover them |
| zombie_reaper.py:56, worker.py:219 | a worker killed after its done transition leaves a lock in a review state, which no sweep visits |
| agents/final_rewrite.py:395 | a worker killed between the rewrite's end and the critic's begin, where an earlier round of the critic is closed, leaves `CRITIC_RUNNING` for ever; a live chained critic may be recovered under the rewrite's longer timeout |
| phase_force_approve.py:108, 114 | a vendor failure is taken for a failure of the last check, and is also how the scout fails |
| agents/exporter.py:122–129, 169–175, 346–376, phase_force_approve.py:274–312 | force-approving a policy failure of the exports leads back to the same refusal when the gate does not depend on blockers |
| agents/drafter.py:4288–4300, 677–696, 771–785 | an exhausted marker repair leaves what it could not repair in the text |
| agents/curator.py:1684–1689, 1738–1786 | the penalty cap is applied before an adjustment that may lift a score again |
| phase_user_edit.py:240, 335 | whether a version may be replaced is judged before the claim as well |

### Fairness

Fairness is weak fairness of single processes, and never of users, faults or exceptions.

* `RunProperties!FairSpec`: a request's own next step; a job's next step, `JobBegin`
  included (there is a worker, and an agent ends, its own timeout and RQ's see to that);
  `LockAges` and `FallsQuiet` (time passes); `Reap` for each phase (`_reaper_loop` sweeps
  for ever). The fast path needs RQ's registries to notice a dead worker and is not fair.
* `AutoSpec`: the same, for the pilots' requests, their launches and hooks, the jobs and the
  sweeps; and the sweep's `Resume`.
* `ExpressRun!FairSpec`: requests, jobs, age, sweep.
* `ModelCall!FairSpec`: a call in progress goes on, since every request has a timeout and
  the rest is local.
* `Manuscript!FairSpec`: the running job and the reaper.
* `Experiment!FairExperiment`: the threads of a live driver. A poll is one step of them;
  that it ends for a run that never reaches its end is due to the timeout (`PollTimesOut`).

`Sourcing`, `Drafting`, `VersionGraph` and `Essays` are checked for safety only. `PilotedSpec`
is there for the proofs, which are about safety too.

## 4. Proofs

The theorems hold for all values of the constants that satisfy the assumptions of their
modules: any number of phases, requests, pilots, attempts, versions, branches, callers,
projects, records, sections, calls, kernels and judges, any start state, any budget of
faults, any cap and limit. The assumptions say

* of `RunLifecycle`: phases are deep-mode phases, the rewrite comes with the critic, and
  `NoToken` is nobody's token; of `RunProperties` (`StartAssumption`): a run that starts at
  the end of a phase of `Backed` has that phase's artifacts;
* of `AutoAdvance` (`PilotsAssumption`): pilots are requests, and the sweep's is one of them;
* of `VersionGraph`: there is a phase, `Main` is a branch, and `NoActor` is nobody
  (`ActorsAssumption`);
* of `ExpressRun` and `Essays`: nobody is nobody as well, runs are numbered in the order of
  creation, and projects are finitely many;
* of `ModelCall`: calls are made from `CallSites`, and there is a provider;
* of `Sourcing`: records and papers are finitely many;
* of `Drafting` (`StudiesAssumption`): the reranker is asked about entries of the shortlist
  only, so that what it vouches for is of the shortlist;
* of `Experiment` (`ArmsAssumption`): the operator passes lists of arms which the driver
  accepts; the threads are one at least, and the reviewers of arm F a list;
* of all: budgets, caps, limits and counts are natural numbers.

TLC evaluates each of them in the runs of its module.

| Theorem | Statement |
|---|---|
| `TypeCorrect` | `RunLifecycle!Spec => []TypeOK` |
| `HolderIsAlwaysAlone` | `RunLifecycle!Spec => []HolderIsAlone` |
| `Refinement` | `RunLifecycle!Spec => AttemptsFollowOneAnother`, that is, `RunLifecycle` implements `PhaseAttempts` |
| `AttemptsAreAlone`, `GivenUpForGood` | under `RunLifecycle!Spec`, at most one attempt is current, and one that was given up or is over never is again |
| `ZombiesAreAlwaysDead`, `ReviewAlwaysHasArtifacts` | `RunLifecycle!Spec => []ZombiesAreDead`, `=> []ReviewHasArtifacts` |
| `CancelledIsAlwaysFinal` | `RunLifecycle!Spec => CancelledIsFinal` (an action property) |
| `AutoIsPiloted` | `AutoAdvance!AutoSpec => AutoAdvance!PilotedSpec` |
| `HolderIsAloneOnAuto`, `ZombiesAreDeadOnAuto`, `ReviewHasArtifactsOnAuto` | `PilotedSpec => []HolderIsAlone`, `=> []ZombiesAreDead`, `=> []ReviewHasArtifacts` |
| `RefinementOnAuto`, `CancelledIsFinalOnAuto` | `PilotedSpec => AttemptsFollowOneAnother`, `=> CancelledIsFinal` |
| `HeadsAlwaysFollowUpstream`, `NothingEverDangles` | `VersionGraph!Spec => []HeadsFollowUpstream`, `=> []NothingDangles` |
| `DiskAlwaysShowsHeads`, `LineageIsAlwaysTrue` | `VersionGraph!Spec => []DiskShowsHeads`, `=> []LineageIsTrue` |
| `OneWriterAlways`, `ShippedIsAlwaysWhole` | `ExpressRun!Spec => []OneWriter`, `=> []ShippedIsWhole` |
| `DeletedIsAlwaysCancelled`, `LimitAlwaysHolds` | `Essays!Spec => []DeletedIsCancelled`, `=> []LimitHolds` |
| `CallsAreAlwaysAudited`, `LogAlwaysCoversRows`, `FailureAlwaysMeansExhausted` | `ModelCall!Spec => []EveryCallIsAudited`, `=> []LogCoversRows`, `=> []FailureMeansExhausted` |
| `ShortlistIsAlwaysVouched`, `CapsAlwaysHold`, `OldPdfsAreAlwaysGone`, `ClaimsAreAlwaysGrounded` | the four invariants of `Sourcing` |
| `ClaimsAreAlwaysVouched`, `FloorIsAlwaysReported`, `KeysAlwaysSurviveStyle`, `CitationsAlwaysSurvive` | the four invariants of `Drafting` |
| `OnlyVouchedTextsEver`, `NoScoreIsEverLost`, `UserAlwaysSeesWhatWasReviewed`, `ExportsAreAlwaysSourced` | the four invariants of `Manuscript` |
| `FlagsAreAlwaysTrue`, `CritiquesAreOfTheSubmission` | `Experiment!ExperimentSpec => []FlagsAreTrue`, `=> []CritiqueIsOfTheSubmission` |
| `ProgressIsAlwaysKept`, `ReportsAreWhole` | `ExperimentSpec => ProgressIsKept`, `=> ReportIsWhole` (action properties) |

Each proof is laid out in the same way: the inductive invariant as a conjunction of named
parts, lemmas about the operators, a lemma per action or group of actions, and the theorem,
which follows from the invariant. None of the properties is inductive as it stands; what is
added, and why, is this.

**The lock.** `HolderIsAlone` says that an attempt that has neither released its token nor
lost its lock to a force-clear is named in the lock. Seen from an arbitrary state, an
enqueue failure might release a lock on behalf of a job that is already at work, or a
release might hit a lock whose phase is not that of its job. `Ownership` adds four facts:

* `RequestsHoldJobs`: a request that has claimed owns a job nobody else drives yet;
* `OwnerIsUnderWay`: the token in the lock is that of an attempt that has not released it,
  works on the phase in the lock, and was not given up;
* `FreeIsFree`: a lock without a token is the free lock;
* `FreshIsNotRevoked`: only claimed tokens are given up.

`Invariant` is `TypeOK`, `PhasesAreKnown` (jobs and requests are about phases of the run)
and `Ownership`. The proof groups the actions by what they do to lock and jobs: a claim, a
step of the owner, a release, a clear, a hand-over. One lemma per group (`Ownership...`)
says that it preserves `Ownership`; the lemmas per actor (`ReadSteps`, `ClaimSteps`,
`RequestSteps`, `RecoverySteps`, `JobSteps`, `FaultSteps`, `SweepSteps`, `UserSteps`) apply
them to the actions.

`Refinement` maps a token to `new`, `current`, `given_up` or `over`. With `OwnerIsUnderWay`
the current attempt is exactly the one in the lock, so that a claim of a free lock is
`Begin`, a claim that clears is `Replace`, a clear is `GiveUp`, a release is `End`, and
everything else stutters. Together with `AttemptsAreAlone` and `GivenUpForGood`, which need
nothing of the run but this, it says what the lock is for: attempts at the phases of a run
never overlap, except for those that somebody has given up, and these do not come back.

**The state of a run.** `Steering` is `Invariant` with two more parts. `WorkersAreHeard`: an
agent at work under an RQ timeout has an event younger than that, which is what the recovery
gate looks for. `Course`, as long as nobody has taken the lock from a live attempt:
`LocksAreKept` (then no live attempt was given up, so by `Ownership` there is one at most),
`StateFollowsWork` (while an agent works the run is in its running state, and when it has
returned the run is where the agents of that phase land, `Landing`) and `ReviewsAreBacked`
(the artifacts are there for the state and for the one a cancelled run may be given back).
The difficult case is the commit of a version, which purges the later phases: `Landing` and
the tables of `RunStates` say that the run does not stand at the end of any of those. That a
cancel is final is then that only the one attempt under way could move the run, and that a
worker which has overlooked the cancel has landed already.

**Versions.** `Invariant` is `TypeOK` and three parts. `Shape` is about rows and heads:
versions are numbered in the order in which they begin, rows, heads and forks refer to
finished versions of the right phase, and `HeadsFollowUpstream`. `Course` is about attempts:
who holds the lock, that active and main branch are there, that an attempt's version is its
own. `Undisturbed` holds until an endpoint has moved heads or files under an attempt: the
bytes of a version are its own (`BytesAreOwn`), files are those of the heads
(`FilesAreHeads`), agents have read what the lineage says (`LineageIsRead`), and an attempt
knows the current head (`AttemptIsCurrent`). Ancestry and cascade are recursive, and what a
recursive function computes cannot be had here by an induction over an operator. But a
parent has a smaller number than its child, and the cascade goes from a phase to the next,
so a counterexample would have a least one (`LeastExists`), and the least one is refuted by
unfolding the definition once (`CascadeFollows`). The actions come down to five changes of
the graph: a row begins, a row fails or goes, a head moves, a branch forks, or none of it.

**Express.** The lock does not keep two express jobs apart, since it may be cleared under
either: what does is the state of the run, since the move to `EXPRESS_RUNNING` is refused
while a generation is under way. `OneGeneration` says that of the requests about to queue a
job, the queued jobs and the writing ones there is one at most, and that while there is one
the run is in `EXPRESS_RUNNING`; `RequestsHoldJobs` ties requests to unused jobs; requests
read a startable state. `WritersOwnTheirFiles` says, for each step a writer has reached,
which files are its own and what it has spent, and with it `ShippedIsWhole` is inductive.

**Essays.** `DeletedIsCancelled` needs, besides types, that a run which itself is deleted
keeps its cancel while it is unfinished (`DeletedRunsAreCancelled`), and that a call that is
about to restore a run knows its project (`RestoresKnowTheirRun`). For `LimitHolds`,
`CountedHoldPlaces` says that a caller that has counted holds the user's row and that there
is still a place for what it is going to add: between its count and its commit only
activations that `slips` counts can come. Lemmas about `ActiveEssays` say that a commit
activates its own project at most, and finiteness of the projects turns this into the
inequality.

**Model calls.** `Chain` ties the decision about an attempt to the step the call has reached
(`DecidedInOrder`) and says of the walk down the providers that nobody asked so far has
served (`WalkGoesOn`). `Audit` follows the call in progress: the rows of its attempts are
the last ones of the table, and how much of the current attempt is in rows and log depends
on the step (`CurrentRows`); rows of other calls are of the past (`RowsAreOfCalls`), and the
past stays as it was (`PastCalls`).

**Sourcing.** The invariant follows the records from the pool to the shortlist
(`ListIsVouched`), from the shortlist to the claims (`ClaimsArePicked`), and the manifest
from one curation to the next (`ManifestIsOfList`). `ListIsCapped` bounds what is fetched
and what is still to be fetched together. That the gate's choice keeps the caps needs no
induction over the ranking: of the records that share a venue, the last one taken had fewer
than `VenueCap` before it.

**Drafting.** A job writes its directory in order, from its own fields (`FilesInOrder`);
what it cites is of the shortlist and the bibliography that of the claim map beside it
(`OnlyListed`); the verdict about the floor is about the sections as they are
(`VerdictIsCurrent`); and text and keys are followed through the coherence pass
(`TextIsOfBody`) and section by section through the stylist (`StyledSoFar`).

**Manuscripts.** The job at work is of the phase the state names and has a directory
(`JobIsOfState`, `JobHasDirectory`); the text in hand is vouched for, and so is the
incumbent of the loop (`TextsInHand`), whose scores are not below the first ones
(`ScoresKept`). `ReviewIsOfNewest` says, for every state from which a run may come back to
the user's decision without another review (`Deciding`), that the newest version is the one
reviewed, and `GateIsOpen` that an exporter that composes has passed the gate.

**The autopilot.** A step of a piloted run is a step of `RunLifecycle`, or stutters there,
but for two (`AutoSteps`): a pilot that goes straight to the claim of a phase, without the
guard of the start endpoint (`StraightToTheClaim`), and one that skips a check
(`AdvanceBySkip`). It needs that a pilot is only ever after a phase of the run
(`GoalsAreKnown`). Both steps preserve `Steering`: the first because a request that has read
nothing owes nothing yet, the second because it leaves a state that no agent works in for
one of which no artifact is asked. So all that is proved of a run is proved of a piloted one
beside its users, and by `AutoIsPiloted` of the one the runs follow alone.

**Experiments.** `Threads` says that a subprocess belongs to a thread whose last step is
saved, and makes an arm that is not done; `SavedIsDone`, that the file knows no more than
the memory. `FlagsHold` is `FlagsAreTrue` and `CritiqueIsOfTheSubmission`, of memory and
file alike, with B done where B_prime is; it survives a writing because no flag is set for
the arm being written. For B_prime this needs `SubprocessesWrite`: the B it critiques is
done, and has been since it was spawned, so that nobody writes it anew. That an arm is
spawned only while it is not done is a fact about `NextStep`: the least open place of a plan
is had from the well-foundedness of the numbers instead of an induction. `ProgressIsKept`
follows from `SavedIsDone`, and `ReportIsWhole` from `IdsAreUnique`, which says of copies,
map and build in progress together that two manuscripts never share an identifier.

Only model-checked: the liveness properties `RunningEnds`, `Arrives`, `LocksComeBack`,
`GenerationEnds`, `EveryCallEnds`, `EveryJobEnds` and `InvocationEnds`, since fairness is out
of the prover's reach. Every safety property that a passing run checks is proved.

`EditsFollowWhatTheUserSaw` is violated, and what the code does keep of it, `LineageIsTrue`
and `DiskShowsHeads`, is proved.

## 5. Not modelled

* `transition_run`, the prompt overrides, the endpoints that only read and the helpers under
  `/api/test`: none of them belongs to the life of a run that users drive, or they change
  nothing.
* What proposal, ideator, tension, framework and outline agents compose: their transitions
  are in `RunLifecycle`, their model calls in `CallSites`, and their texts have no later
  gate that a model could relate them to.
* Literature clients (HTTP; their answers are choices of `Sourcing`), accounts, authors,
  corpus and style profiles (CRUD that no transition of a run depends on), streaming and
  proxies below `llm_client.py`.
* Blind scoring against the baseline, bibliography formats and document layout in the
  manuscript agents.
* The web frontend, which acts through the endpoints; the models let anybody call them at
  any time.
