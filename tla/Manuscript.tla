---------------------------- MODULE Manuscript ----------------------------
(***************************************************************************)
(* The manuscript from the styled draft to the exported files: final       *)
(* rewrite, polish loop, critic loop, critic, integrity scan and exports   *)
(* (final_rewrite.py, critic_loop.py, critic.py, integrity.py, exporter.py).*)
(* A text is where it came from and whether it would pass the              *)
(* deterministic gate (_validate_controlled_polish_candidate, which        *)
(* includes _run_post_rewrite_compliance).  What a model answers is a      *)
(* choice; what the code does with the answer is not.                      *)
(***************************************************************************)
EXTENDS Naturals, Sequences, FiniteSetsExt

CONSTANTS
    MaxAttempts,      \* CONTROLLED_POLISH_MAX_ATTEMPTS
    MaxAccepted,      \* CONTROLLED_POLISH_MAX_ACCEPTED_REWRITES
    Patience,         \* CONTROLLED_POLISH_NO_SCORE_GAIN_PATIENCE
    Iterations,       \* critic_loop_iterations
    MaxRepairs,       \* exports_policy_max_polish_retries
    Dims, Top,        \* the scored dimensions and the best score
    Modes,            \* settings of the run: [holistic, mathematical, baseline, stub]
    MaxVersions,      \* bound: rewrite directories of the run
    MaxDeaths         \* bound: jobs killed by the system

ASSUME LimitsAssumption ==
    {MaxAttempts, MaxAccepted, Patience, Iterations, MaxRepairs, Top,
     MaxVersions, MaxDeaths} \subseteq Nat
ASSUME ModesAssumption ==
    Modes \subseteq [{"holistic", "mathematical", "baseline", "stub"} -> BOOLEAN]

VARIABLES
    state,    \* Run.state
    mode,     \* the run's settings
    draft,    \* what is known of the claim map of the styled draft
    rewrite,  \* rewrite/vNNN: the directories, oldest first
    review,   \* reviews/: what the last finished critic read, whether it left
              \* blockers open, whether a user resolved some of them (waived);
              \* forced: the user's force_approve since
    scanned,  \* the version in integrity_summary.json, if it is there
    exported, \* the version and the text of exports/manuscript.md
    job,      \* the running job
    deaths

vars == <<state, mode, draft, rewrite, review, scanned, exported, job, deaths>>

Nothing == [by |-> "nothing", clean |-> FALSE]
Original == [by |-> "original", clean |-> TRUE]
Text(by) == [by : {by}, clean : BOOLEAN]
Texts == [by : {"rewrite", "round0", "polish", "loop", "repair"}, clean : BOOLEAN]
             \cup {Original}

\* claim_map.json names an exportable source for every claim, does not, or is
\* not there.
Claims == {"sourced", "unsourced", "missing"}

\* audit.json: not there, fallback_to_original, or neither.
Version == [text : Texts \cup {Nothing}, claims : Claims,
            audit : {"missing", "plain", "fallback"}]
NewDir == [text |-> Nothing, claims |-> "missing", audit |-> "missing"]

Scores == [Dims -> 0..Top]
Lowest == [d \in Dims |-> 0]

Monotonic_AnyDimension(s, t) == \E d \in Dims : s[d] >= t[d]

\* _scores_monotonic, _scores_any_gain.
Monotonic(s, t) == \A d \in Dims : s[d] >= t[d]
AnyGain(s, t) == \E d \in Dims : s[d] > t[d]

\* latest_rewrite_dir: the newest directory that holds a manuscript.md; 0 where
\* there is none, and the styled draft is read.
Latest == Max({0} \cup {i \in DOMAIN rewrite : rewrite[i].text # Nothing})

TextOf(v) == IF v = 0 THEN Original ELSE rewrite[v].text
ClaimsOf(v) == IF v = 0 THEN draft ELSE rewrite[v].claims

Idle ==
    [phase |-> "none", pc |-> "idle", cur |-> Nothing, claims |-> "missing",
     audit |-> "plain", retried |-> FALSE, inc |-> Nothing, scores |-> Lowest,
     base |-> Lowest, targets |-> 0, left |-> 0, attempt |-> 0, accepted |-> 0,
     nogain |-> 0, opened |-> FALSE, iter |-> 0, best |-> Nothing, key |-> 0,
     version |-> 0, depth |-> 0]

\* The loops' own fields are forgotten when a loop is over.
Forget(j) == [Idle EXCEPT !.phase = j.phase, !.pc = j.pc, !.cur = j.cur,
                          !.claims = j.claims, !.audit = j.audit,
                          !.version = j.version, !.depth = j.depth]

Init ==
    /\ state = "USER_REVISION_REVIEW"
    /\ mode \in Modes
    /\ draft \in {"sourced", "unsourced"}
    /\ rewrite = <<>>
    /\ review = [version |-> 0, text |-> Nothing, claims |-> "missing", open |-> FALSE,
                 waived |-> FALSE, forced |-> FALSE]
    /\ scanned = <<>>
    /\ exported = [version |-> 0, text |-> Nothing]
    /\ job = Idle
    /\ deaths = 0

papers == <<review, scanned, exported>>
Settled == UNCHANGED <<mode, draft, deaths>>
Working == UNCHANGED <<state, rewrite, papers>> /\ Settled
-----------------------------------------------------------------------------
(* Final rewrite.                                                           *)

\* _run_final_rewrite_with_session up to the first call: the job of /critic
\* begins in USER_REVISION_REVIEW, without a usable draft it fails.
BeginRewrite ==
    /\ state = "USER_REVISION_REVIEW"
    /\ job.pc = "idle"
    /\ Len(rewrite) < MaxVersions
    /\ \/ /\ state' = "FAILED_FIXABLE"
          /\ job' = [Idle EXCEPT !.phase = "final_rewrite"]
          /\ UNCHANGED rewrite
       \/ /\ state' = "REWRITE_RUNNING"
          /\ rewrite' = Append(rewrite, NewDir)
          /\ job' = [Idle EXCEPT !.phase = "final_rewrite", !.cur = Original,
                         !.claims = draft, !.version = Len(rewrite) + 1,
                         !.pc = IF mode.stub THEN "text" ELSE "rewrite"]
    /\ UNCHANGED papers /\ Settled

\* A rewrite that did not come is replaced by the original and skips the loops
\* (_complete_original_fallback_after_llm_error); the retry that did not come
\* leaves the first rewrite refused.
RewriteError ==
    /\ job.pc = "rewrite"
    /\ job' = [job EXCEPT !.audit = "fallback",
                          !.pc = IF job.retried THEN "polish" ELSE "text"]
    /\ Working

\* _run_post_rewrite_compliance: a rewrite passes, is asked for once more when
\* its citation markers changed, or is refused for the original.  The holistic
\* mode keeps the claim map of the draft.
Rewritten ==
    /\ job.pc = "rewrite"
    /\ \/ \E c \in IF mode.holistic THEN {draft} ELSE {"sourced", "unsourced"} :
              job' = [job EXCEPT !.cur = [by |-> "rewrite", clean |-> TRUE],
                                 !.claims = c, !.pc = "polish"]
       \/ /\ ~job.retried
          /\ job' = [job EXCEPT !.retried = TRUE]
       \/ job' = [job EXCEPT !.audit = "fallback", !.pc = "polish"]
    /\ Working
-----------------------------------------------------------------------------
(* The controlled polish loop.                                              *)

\* The critique that the loop starts from freezes the targets.
StartPolish ==
    /\ job.pc = "polish"
    /\ \/ job' = [Forget(job) EXCEPT !.pc = "production"]
       \/ /\ mode.baseline
          /\ \E s \in Scores, n \in 0..1 :
                job' = [Forget(job) EXCEPT
                          !.inc = job.cur, !.scores = s, !.base = s,
                          !.targets = n, !.left = n, !.attempt = 1,
                          !.pc = IF mode.mathematical THEN "round0" ELSE "attempt"]
    /\ Working

\* Round 0 of the mathematical mode: an open rewrite is taken unseen, and
\* critiqued again if the critic answers.
Round0 ==
    /\ job.pc = "round0"
    /\ \/ job' = [job EXCEPT !.pc = "attempt"]
       \/ \E t \in Text("round0") :
            \/ job' = [job EXCEPT !.pc = "attempt", !.inc = t, !.opened = TRUE]
            \/ \E s \in Scores, n \in 0..1 :
                  job' = [job EXCEPT !.pc = "attempt", !.inc = t, !.opened = TRUE,
                                     !.scores = s, !.base = s,
                                     !.targets = n, !.left = n]
    /\ Working

\* The exits of the loop: approved_targets_cleared, max_accepted_rewrites,
\* no_score_gain, and the attempts used up.  target_score_reached asks for
\* cleared targets too, so that the first exit is always taken before it.
PolishOver ==
    \/ job.left = 0
    \/ job.accepted >= MaxAccepted
    \/ job.nogain >= Patience
    \/ job.attempt > MaxAttempts

\* No text, or no critique of it.
AttemptFails ==
    /\ job.pc = "attempt"
    /\ ~PolishOver
    /\ job' = [job EXCEPT !.attempt = @ + 1, !.nogain = @ + 1]
    /\ Working

\* A candidate is accepted if no score is lower; a gain in any dimension, of a
\* refused candidate too, starts the patience again.
Candidate ==
    /\ job.pc = "attempt"
    /\ ~PolishOver
    /\ \E t \in Text("polish"), s \in Scores, n \in 0..job.targets :
          LET waited == IF AnyGain(s, job.scores) THEN 0 ELSE job.nogain + 1
              refused == [job EXCEPT !.attempt = @ + 1, !.nogain = waited]
          IN job' = IF Monotonic(s, job.scores)
                    THEN [refused EXCEPT !.inc = t, !.scores = s, !.left = n,
                                         !.accepted = @ + 1]
                    ELSE refused
    /\ Working

\* The end of the loop.  Only a text of round 0 that no accepted rewrite has
\* replaced is validated.
EndPolish ==
    /\ job.pc = "attempt"
    /\ PolishOver
    /\ LET taken == job.accepted > 0 \/ (job.opened /\ job.inc.clean)
       IN job' = [Forget(job) EXCEPT !.pc = "production",
                                     !.cur = IF taken THEN job.inc ELSE job.cur]
    /\ Working
-----------------------------------------------------------------------------
(* The production critic loop.                                              *)

\* Skipped, failed on the baseline or raised: the manuscript stays.
StartProduction ==
    /\ job.pc = "production"
    /\ \/ job' = [job EXCEPT !.pc = "text"]
       \/ /\ mode.baseline
          /\ job' = [job EXCEPT !.inc = job.cur,
                        !.pc = IF mode.mathematical THEN "opening" ELSE "score"]
    /\ Working

\* Round 0 of this loop: the rewrite replaces the input if it is sane.
Opening ==
    /\ job.pc = "opening"
    /\ \E t \in Text("loop") \cup {job.inc} :
          job' = [job EXCEPT !.pc = "score", !.inc = t]
    /\ Working

Scored_NoCount(j, k) ==
    LET better == j.best = Nothing \/ k > j.key
    IN [j EXCEPT !.best = IF better THEN j.inc ELSE @, !.key = IF better THEN k ELSE @]

\* The row of a scored candidate: the best so far is kept, the first among equals.
Scored(j, k) ==
    LET better == j.best = Nothing \/ k > j.key
    IN [j EXCEPT !.iter = @ + 1, !.best = IF better THEN j.inc ELSE @,
                 !.key = IF better THEN k ELSE @]

\* One iteration: score the candidate; without a plan the same text is scored
\* again; a score or a text that does not come ends the loop.
Score ==
    /\ job.pc = "score"
    /\ job.iter < Iterations
    /\ \/ job' = [job EXCEPT !.pc = "select"]
       \/ \E k \in 0..Top :
            \/ job' = [Scored(job, k) EXCEPT !.pc = "select"]
            \/ \E t \in Text("loop") \cup {job.inc} :
                  job' = [Scored(job, k) EXCEPT !.inc = t]
    /\ Working

Select_Unchecked ==
    /\ \/ job.pc = "select"
       \/ job.pc = "score" /\ job.iter >= Iterations
    /\ job' = [Forget(job) EXCEPT !.pc = "text",
                                  !.cur = IF job.best # Nothing THEN job.best ELSE @]
    /\ Working

\* The selected candidate replaces the manuscript if it differs and passes the
\* gate (_maybe_run_production_critic_loop).
Select ==
    /\ \/ job.pc = "select"
       \/ job.pc = "score" /\ job.iter >= Iterations
    /\ LET replaced == /\ job.best \notin {Nothing, job.cur}
                       /\ job.best.clean
       IN job' = [Forget(job) EXCEPT !.pc = "text",
                                     !.cur = IF replaced THEN job.best ELSE @]
    /\ Working
-----------------------------------------------------------------------------
(* The files of a version, one at a time, and what follows them.            *)

WriteText ==
    /\ job.pc = "text"
    /\ rewrite' = [rewrite EXCEPT ![job.version].text = job.cur]
    /\ job' = [job EXCEPT !.pc = "claims"]
    /\ UNCHANGED <<state, papers>> /\ Settled

WriteClaims ==
    /\ job.pc = "claims"
    /\ rewrite' = [rewrite EXCEPT ![job.version].claims = job.claims]
    /\ job' = [job EXCEPT !.pc = "audit"]
    /\ UNCHANGED <<state, papers>> /\ Settled

WriteAudit ==
    /\ job.pc = "audit"
    /\ rewrite' = [rewrite EXCEPT ![job.version].audit = job.audit]
    /\ job' = [job EXCEPT !.pc = "done"]
    /\ UNCHANGED <<state, papers>> /\ Settled

Written_NoSecondReview ==
    /\ job.pc = "done"
    /\ \/ /\ job.phase = "final_rewrite"
          /\ state' = "CRITIC_RUNNING"
          /\ job' = [Idle EXCEPT !.phase = "critic", !.pc = "critic"]
          /\ UNCHANGED review
       \/ /\ job.phase = "critic"
          /\ state' = "USER_EXTERNAL_SCAN_APPROVAL"
          /\ job' = Idle
          /\ UNCHANGED review
       \/ /\ job.phase = "exports"
          /\ review' = [review EXCEPT !.open = FALSE]
          /\ job' = [Idle EXCEPT !.phase = "exports", !.pc = "gate",
                                 !.attempt = job.attempt]
          /\ UNCHANGED state
    /\ UNCHANGED <<rewrite, scanned, exported>> /\ Settled

\* _complete_success chains into the critic, whatever was written; the critic's
\* fallback runs the critic once more; a repair of the exports goes back to the
\* gate, with the critic's blockers marked resolved.
Written ==
    /\ job.pc = "done"
    /\ \/ /\ job.phase \in {"final_rewrite", "critic"}
          /\ state' = "CRITIC_RUNNING"
          /\ job' = [Idle EXCEPT !.phase = "critic", !.pc = "critic",
                        !.depth = IF job.phase = "critic" THEN 1 ELSE 0]
          /\ UNCHANGED review
       \/ /\ job.phase = "exports"
          /\ review' = [review EXCEPT !.open = FALSE]
          /\ job' = [Idle EXCEPT !.phase = "exports", !.pc = "gate",
                                 !.attempt = job.attempt]
          /\ UNCHANGED state
    /\ UNCHANGED <<rewrite, scanned, exported>> /\ Settled
-----------------------------------------------------------------------------
(* Critic.                                                                  *)

\* The critic as a job of its own: a retry or a rerun of it, or the rewrite is off.
BeginCritic ==
    /\ state = "USER_REVISION_REVIEW"
    /\ job.pc = "idle"
    /\ state' = "CRITIC_RUNNING"
    /\ job' = [Idle EXCEPT !.phase = "critic", !.pc = "critic"]
    /\ UNCHANGED <<rewrite, papers>> /\ Settled

\* The manuscript under review: the newest readable rewrite.
ReadManuscript ==
    /\ job.pc = "critic"
    /\ job' = [job EXCEPT !.pc = "review", !.version = Latest]
    /\ Working

\* audit_claim_map finds nothing in a claim map that is not there.
AuditBlocks(v) == ClaimsOf(v) = "unsourced"

CriticFails ==
    /\ job.pc = "review"
    /\ state' = "FAILED_FIXABLE"
    /\ job' = [Idle EXCEPT !.phase = job.phase]
    /\ UNCHANGED <<rewrite, papers>> /\ Settled

\* complete_downstream_review_fallback: a new version with the styled original.
Revert ==
    /\ Len(rewrite) < MaxVersions
    /\ rewrite' = Append(rewrite, NewDir)
    /\ job' = [job EXCEPT !.pc = "text", !.version = Len(rewrite) + 1,
                          !.cur = Original, !.claims = draft, !.audit = "fallback"]

\* The reports are written; with blockers a holistic rewrite that is not itself
\* a fallback is replaced by the original, once, and reviewed again.
Reviewed ==
    /\ job.pc = "review"
    /\ \E objects \in BOOLEAN :
       LET v == job.version
           open == objects \/ AuditBlocks(v)
           revert == /\ v # 0 /\ open
                     /\ job.depth = 0
                     /\ mode.holistic
                     /\ rewrite[v].audit # "fallback"
       IN /\ review' = [version |-> v, text |-> TextOf(v), claims |-> ClaimsOf(v),
                        open |-> open, waived |-> FALSE,
                        forced |-> FALSE]
          /\ IF revert
             THEN Revert /\ UNCHANGED state
             ELSE /\ state' = "USER_EXTERNAL_SCAN_APPROVAL"
                  /\ job' = Idle
                  /\ UNCHANGED rewrite
    /\ UNCHANGED <<scanned, exported>> /\ Settled
-----------------------------------------------------------------------------
(* External scan, acceptance and exports.                                   *)

\* The user skips the scan, or the scan is run: every kind by the first vendor
\* that answers; when none answers for a kind the scan has failed.
SkipScan ==
    /\ state = "USER_EXTERNAL_SCAN_APPROVAL"
    /\ state' = "USER_FINAL_ACCEPTANCE"
    /\ UNCHANGED <<rewrite, papers, job>> /\ Settled

BeginScan ==
    /\ state \in {"USER_EXTERNAL_SCAN_APPROVAL", "FAILED_VENDOR"}
    /\ job.pc = "idle"
    /\ state' = "INTEGRITY_RUNNING"
    /\ job' = [Idle EXCEPT !.phase = "integrity", !.pc = "scan", !.version = Latest]
    /\ UNCHANGED <<rewrite, papers>> /\ Settled

Scan ==
    /\ job.pc = "scan"
    /\ \/ state' = "FAILED_VENDOR" /\ UNCHANGED scanned
       \/ state' = "USER_INTEGRITY_REVIEW" /\ scanned' = <<job.version>>
    /\ job' = Idle
    /\ UNCHANGED <<rewrite, review, exported>> /\ Settled

Accept ==
    /\ state = "USER_INTEGRITY_REVIEW"
    /\ state' = "USER_FINAL_ACCEPTANCE"
    /\ UNCHANGED <<rewrite, papers, job>> /\ Settled

\* force_approve: after the gate of the exports has refused, the blockers still
\* open are resolved in the user's name; a failed scan is skipped; a failed phase
\* is accepted with whatever it has written before.
ForceApprove ==
    /\ \/ /\ state = "FAILED_POLICY"
          /\ state' = "USER_FINAL_ACCEPTANCE"
          /\ review' = [review EXCEPT !.open = FALSE, !.waived = @ \/ review.open]
       \/ /\ state = "FAILED_VENDOR"
          /\ state' = "USER_FINAL_ACCEPTANCE"
          /\ UNCHANGED review
       \/ /\ state = "FAILED_FIXABLE"
          /\ \/ /\ job.phase = "critic" /\ review.text # Nothing
                /\ state' = "USER_EXTERNAL_SCAN_APPROVAL"
             \/ /\ \/ job.phase = "integrity" /\ scanned # <<>>
                   \/ job.phase = "exports" /\ exported.text # Nothing
                /\ state' = "USER_FINAL_ACCEPTANCE"
          /\ review' = [review EXCEPT !.forced = TRUE]
    /\ UNCHANGED <<rewrite, scanned, exported, job>> /\ Settled

BeginExports ==
    /\ state = "USER_FINAL_ACCEPTANCE"
    /\ job.pc = "idle"
    /\ state' = "EXPORTS_RUNNING"
    /\ job' = [Idle EXCEPT !.phase = "exports", !.pc = "gate"]
    /\ UNCHANGED <<rewrite, papers>> /\ Settled

Blocked_NoMissing == review.open \/ (AuditBlocks(Latest) /\ ~review.waived)

\* The policy gate: the critic's open blockers, and the citation audit of the
\* claim map, which here refuses one that is not there.
Blocked ==
    \/ review.open
    \/ ClaimsOf(Latest) = "missing"
    \/ AuditBlocks(Latest) /\ ~review.waived

PassGate ==
    /\ job.pc = "gate"
    /\ ~Blocked
    /\ job' = [job EXCEPT !.pc = "compose"]
    /\ Working

RefuseExport ==
    /\ job.pc = "gate"
    /\ Blocked
    /\ state' = "FAILED_POLICY"
    /\ job' = [Idle EXCEPT !.phase = job.phase]
    /\ UNCHANGED <<rewrite, papers>> /\ Settled

\* attempt_exports_policy_polish_retry: a repair of the newest rewrite becomes a
\* version of its own, with the claim map it had and no validation.
Repair ==
    /\ job.pc = "gate"
    /\ Blocked
    /\ job.attempt < MaxRepairs
    /\ Latest # 0 /\ ~mode.stub
    /\ Len(rewrite) < MaxVersions
    /\ rewrite' = Append(rewrite, NewDir)
    /\ \E t \in Text("repair") :
          job' = [job EXCEPT !.pc = "text", !.cur = t, !.attempt = @ + 1,
                             !.claims = ClaimsOf(Latest),
                             !.version = Len(rewrite) + 1]
    /\ UNCHANGED <<state, papers>> /\ Settled

Compose ==
    /\ job.pc = "compose"
    /\ exported' = [version |-> Latest, text |-> TextOf(Latest)]
    /\ state' = "EXPORTS_DONE"
    /\ job' = Idle
    /\ UNCHANGED <<rewrite, review, scanned>> /\ Settled
-----------------------------------------------------------------------------
(* Faults and recovery.                                                     *)

\* A job is killed, or raises what no handler of it catches.
Die ==
    /\ job.pc # "idle"
    /\ deaths < MaxDeaths
    /\ deaths' = deaths + 1
    /\ job' = [Idle EXCEPT !.phase = job.phase]
    /\ UNCHANGED <<state, mode, draft, rewrite, papers>>

Running == {"REWRITE_RUNNING", "CRITIC_RUNNING", "INTEGRITY_RUNNING",
            "EXPORTS_RUNNING"}

\* The zombie reaper.
Reap ==
    /\ state \in Running
    /\ job.pc = "idle"
    /\ state' = "FAILED_FIXABLE"
    /\ UNCHANGED <<rewrite, papers, job>> /\ Settled

\* The user recovers the failed phase: the run goes back to where it starts.
Recover ==
    /\ state \in {"FAILED_FIXABLE", "FAILED_POLICY"}
    /\ state' = CASE job.phase \in {"final_rewrite", "critic"} -> "USER_REVISION_REVIEW"
                  [] job.phase = "integrity" -> "USER_EXTERNAL_SCAN_APPROVAL"
                  [] job.phase = "exports" -> "USER_FINAL_ACCEPTANCE"
    /\ job' = Idle
    /\ UNCHANGED <<rewrite, papers>> /\ Settled

JobStep ==
    \/ RewriteError \/ Rewritten
    \/ StartPolish \/ Round0 \/ AttemptFails \/ Candidate \/ EndPolish
    \/ StartProduction \/ Opening \/ Score \/ Select
    \/ WriteText \/ WriteClaims \/ WriteAudit \/ Written
    \/ ReadManuscript \/ CriticFails \/ Reviewed
    \/ Scan \/ PassGate \/ RefuseExport \/ Repair \/ Compose

UserStep ==
    \/ BeginRewrite \/ BeginCritic \/ SkipScan \/ BeginScan \/ Accept \/ ForceApprove
    \/ BeginExports \/ Recover

Next == JobStep \/ UserStep \/ Die \/ Reap

Fairness == WF_vars(JobStep) /\ WF_vars(Reap)

Spec == Init /\ [][Next]_vars
FairSpec == Spec /\ Fairness
-----------------------------------------------------------------------------
(* Properties.                                                              *)

\* A text that round 0 or the critic loop wrote without the citation constraints
\* is not kept unless it passes the gate; nor is a rewrite.
OnlyVouchedTexts ==
    \A i \in DOMAIN rewrite :
        rewrite[i].text.by \in {"rewrite", "round0", "loop"} => rewrite[i].text.clean

\* Along the polish loop no score falls below where the loop started.
NoScoreIsLost ==
    job.pc = "attempt" => \A d \in Dims : job.scores[d] >= job.base[d]

\* While the user decides about the scan, the newest manuscript is the one the
\* critic has read, and the one the scan read, unless the user forced the run on.
UserSeesWhatWasReviewed ==
    state \in {"USER_EXTERNAL_SCAN_APPROVAL", "USER_INTEGRITY_REVIEW"} /\ ~review.forced =>
        /\ review.version = Latest /\ review.text = TextOf(Latest)
        /\ state = "USER_INTEGRITY_REVIEW" => scanned = <<Latest>>

\* What is exported has a claim map, and every claim in it has a source or has
\* been waived by the user, whatever was killed while it was written.
ExportsAreSourced ==
    state = "EXPORTS_DONE" => \/ ClaimsOf(exported.version) = "sourced"
                              \/ ClaimsOf(exported.version) = "unsourced" /\ review.waived

\* A job that was started comes to an end.
EveryJobEnds == (job.pc # "idle") ~> (job.pc = "idle")
=============================================================================
