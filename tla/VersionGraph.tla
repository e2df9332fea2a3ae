---------------------------- MODULE VersionGraph ----------------------------
(***************************************************************************)
(* The version graph of one run: the phase_versions rows that the wrapper  *)
(* of phase_version.py writes around every attempt at a phase, the heads   *)
(* each branch keeps (branches.py), and the one set of files on disk that  *)
(* the agents read and that must show the active branch.  An attempt is a  *)
(* queued job, a synchronous rerun (rerun_phase) or a user's edit          *)
(* (phase_user_edit.py); the version and branch endpoints of main.py act   *)
(* between its steps, because they look at runs.state and not at the lock. *)
(*                                                                         *)
(* Phases are N consecutive phases of PHASES where the pipeline is linear:  *)
(* scout, curator and synthesizer, or the last two of them.                *)
(***************************************************************************)
EXTENDS Naturals, FiniteSets

CONSTANTS
    N,             \* phases
    Branches, Main,
    MaxVersion,    \* versions, numbered in the order in which they are begun
    Actors,        \* attempts under way at the same time
    Kinds,         \* what each of them may be
    MaxMoves,       \* actions of users on versions, branches and files
    Curator         \* the phase that is the curator, 0 if none is

ASSUME SizesAssumption == N \in Nat \ {0} /\ MaxVersion \in Nat /\ MaxMoves \in Nat
ASSUME CuratorAssumption == Curator \in 0..N
ASSUME BranchAssumption == Main \in Branches
ASSUME KindsAssumption == Kinds \in [Actors -> SUBSET {"job", "rerun", "edit", "replace"}]

Phases == 1..N
Versions == 1..MaxVersion
Version == 0..MaxVersion        \* 0 is NULL
NoActor == "none"

ASSUME ActorsAssumption == NoActor \notin Actors

VARIABLES
    run,       \* runs.state: its kind, and how many phases are behind it
    lock,      \* the attempt that holds runs.active_phase_lock
    active,    \* runs.active_branch_id
    branch,    \* per branch, what has become of it
    fork,      \* branches.forked_from_pv_id
    stale,     \* branches.stale_from_phase, 0 when NULL
    head,      \* run_heads, per branch and phase
    ver,       \* phase_versions with phase_version_inputs, and their archive
    disk,      \* per phase, what its files were written by
    att,       \* the attempts
    moves,     \* how many times a user has acted on versions, branches or files
    direct,    \* history: heads installed by an attempt, a user or a fork
    raced      \* history: heads or files moved under an attempt

graph == <<branch, fork, stale, head, ver>>
vars == <<run, lock, active, graph, disk, att, moves, direct, raced>>

\* The files of a phase: the version that wrote them, and the last edit of them.
NoBytes == [by |-> 0, edit |-> 0]
Written(v) == [by |-> v, edit |-> 0]

Nothing == [q \in Phases |-> 0]
NoVersion == [status |-> "unused", phase |-> 1, branch |-> Main, parent |-> 0,
              edited |-> FALSE, lineage |-> Nothing, bytes |-> NoBytes,
              read |-> Nothing]
Idle == [pc |-> "idle", kind |-> "job", phase |-> 1, branch |-> Main, base |-> 0,
         pv |-> 0, prior |-> 0, backup |-> NoBytes,
         before |-> [kind |-> "review", at |-> 0]]

Init ==
    /\ run = [kind |-> "review", at |-> 0]
    /\ lock = NoActor
    /\ active = Main
    /\ branch = [b \in Branches |-> IF b = Main THEN "live" ELSE "none"]
    /\ fork = [b \in Branches |-> 0]
    /\ stale = [b \in Branches |-> 0]
    /\ head = [b \in Branches |-> Nothing]
    /\ ver = [v \in Versions |-> NoVersion]
    /\ disk = [q \in Phases |-> NoBytes]
    /\ att = [a \in Actors |-> Idle]
    /\ moves = 0
    /\ direct = {}
    /\ raced = FALSE
-----------------------------------------------------------------------------
(* The graph.                                                               *)

Least(S) == CHOOSE x \in S : \A y \in S : x <= y
Newest(S) == CHOOSE x \in S : \A y \in S : x >= y

Exists(v) == ver[v].status \in {"running", "done", "failed"}

\* A version with its chain of parents.
Ancestry ==
    LET chain[v \in Version] ==
            IF v = 0 THEN {} ELSE {v} \cup chain[ver[v].parent]
    IN chain

\* reachable_pv_ids_for_branch, with the heads h: the branch's own versions and
\* what it was forked from, closed under parents.
Reachable(b, h, q) ==
    LET seed == IF fork[b] = 0 THEN 0
                ELSE IF ver[fork[b]].phase = q THEN fork[b]
                ELSE ver[fork[b]].lineage[q]
        seen == ({h[q], seed} \ {0})
                    \cup {v \in Versions : Exists(v) /\ ver[v].phase = q
                                                     /\ ver[v].branch = b}
    IN UNION {Ancestry[v] : v \in seen}

\* The heads of the phases before q: what a version of q is computed from now.
Upstream(h, q) == [u \in Phases |-> IF u < q THEN h[u] ELSE 0]

Matching(b, h, q) ==
    {v \in Reachable(b, h, q) : ver[v].status = "done"
                                /\ ver[v].lineage = Upstream(h, q)}

\* Mutant of NextHead: a head survives whatever happens upstream of it.
NextHead_Keeps(b, h, q) ==
    IF h[q] # 0 THEN h[q]
    ELSE IF Matching(b, h, q) = {} THEN 0
    ELSE Newest(Matching(b, h, q))

\* _cascade_phase_after_upstream_change.
NextHead(b, h, q) ==
    IF h[q] # 0 /\ ver[h[q]].lineage = Upstream(h, q) THEN h[q]
    ELSE IF Matching(b, h, q) = {} THEN 0
    ELSE Newest(Matching(b, h, q))

\* The heads of b after p has got a new one: every later phase in turn.
Cascade(b, h, p) ==
    LET upto[q \in 0..N] ==
            IF q <= p THEN h
            ELSE [upto[q - 1] EXCEPT ![q] = NextHead(b, upto[q - 1], q)]
    IN upto[N]

\* Purge and restore: from phase `first` on the disk shows the heads h.
Restored(h, first) ==
    [q \in Phases |-> IF q < first THEN disk[q]
                      ELSE IF h[q] = 0 THEN NoBytes
                      ELSE ver[h[q]].bytes]

\* first_completed_downstream by the branch's heads, and by the files.
FirstHead(h, p) ==
    LET qs == {q \in Phases : q > p /\ h[q] # 0}
    IN IF qs = {} THEN 0 ELSE Least(qs)
FirstFile(p) ==
    LET qs == {q \in Phases : q > p /\ disk[q] # NoBytes}
    IN IF qs = {} THEN 0 ELSE Least(qs)

Quiescent == run.kind # "running"

\* One more action of a user on versions, branches or files.
Acts == moves < MaxMoves /\ moves' = moves + 1

\* History: the head of p in b is somebody's choice; those after it cascaded.
Installed(b, p) ==
    direct' = {d \in direct : d[1] # b \/ d[2] < p} \cup {<<b, p>>}
-----------------------------------------------------------------------------
(* The attempts.                                                            *)

\* start_<p>: the run waits for p, or p is what failed; its input is there.
CheckStart(a, p) ==
    /\ "job" \in Kinds[a]
    /\ att[a] = Idle
    /\ Quiescent
    /\ run.at = p - 1
    /\ p > 1 => disk[p - 1] # NoBytes
    /\ att' = [att EXCEPT ![a] = [Idle EXCEPT !.pc = "checked", !.phase = p]]
    /\ UNCHANGED <<run, lock, active, graph, disk, moves, direct, raced>>

\* rerun_phase: assert_can_rerun, by the files on disk; the branch is the one
\* that is active now.
CheckRerun(a, p) ==
    /\ "rerun" \in Kinds[a]
    /\ att[a] = Idle
    /\ Quiescent
    /\ disk[p] # NoBytes
    /\ p > 1 => disk[p - 1] # NoBytes
    /\ stale[active] # 0 => p <= stale[active]
    /\ att' = [att EXCEPT ![a] =
                  [Idle EXCEPT !.pc = "checked", !.kind = "rerun", !.phase = p,
                               !.branch = active, !.before = run]]
    /\ UNCHANGED <<run, lock, active, graph, disk, moves, direct, raced>>

\* is_pv_branch_exclusive.
Exclusive(v, b) ==
    /\ \A c \in Branches \ {b} : head[c][ver[v].phase] # v
    /\ \A c \in Branches : branch[c] = "live" => fork[c] # v

\* What mode "replace" asks for.
MayReplace(b, p) ==
    /\ FirstHead(head[b], p) = 0
    /\ FirstFile(p) = 0
    /\ head[b][p] # 0
    /\ Exclusive(head[b][p], b)

\* apply_phase_user_edit up to the claim; the client sends the head it shows.
CheckEdit(a, p, kind) ==
    /\ kind \in Kinds[a]
    /\ att[a] = Idle
    /\ Quiescent
    /\ head[active][p] # 0 \/ disk[p] # NoBytes
    /\ stale[active] # 0 => p <= stale[active]
    /\ kind = "replace" => MayReplace(active, p)
    /\ att' = [att EXCEPT ![a] =
                  [Idle EXCEPT !.pc = "checked", !.kind = kind, !.phase = p,
                               !.branch = active, !.base = head[active][p]]]
    /\ UNCHANGED <<run, lock, active, graph, disk, moves, direct, raced>>

\* claim_phase_lock.  The rerun's rewind is part of the same transaction.
Claim(a) ==
    LET t == att[a]
        input == [kind |-> "review", at |-> t.phase - 1]
    IN /\ t.pc = "checked"
       /\ lock = NoActor
       /\ lock' = a
       /\ att' = [att EXCEPT ![a].pc = "claimed"]
       /\ run' = IF t.kind = "rerun" /\ t.before # input THEN input
                 ELSE IF t.kind = "job" /\ run.kind = "failed"
                      THEN [run EXCEPT !.kind = "review"]
                 ELSE run
       /\ raced' = (raced \/ /\ t.kind # "job"
                             /\ \/ t.branch # active
                                \/ t.base # 0 /\ head[t.branch][t.phase] # t.base)
       /\ UNCHANGED <<active, graph, disk, moves, direct>>

\* 409: another phase is running.
GiveUp(a) ==
    /\ att[a].pc = "checked"
    /\ lock # NoActor
    /\ att' = [att EXCEPT ![a] = Idle]
    /\ UNCHANGED <<run, lock, active, graph, disk, moves, direct, raced>>

\* begin_phase_version: a row that names the upstream heads, and a backup.
Begin(a) ==
    LET t == att[a]
        b == IF t.kind = "job" THEN active ELSE t.branch
        fresh == {v \in Versions : ver[v].status = "unused"}
    IN /\ t.pc = "claimed"
       /\ t.kind # "replace"
       /\ fresh # {}
       /\ ver' = [ver EXCEPT ![Least(fresh)] =
                     [NoVersion EXCEPT
                         !.status = "running", !.phase = t.phase, !.branch = b,
                         !.parent = head[b][t.phase], !.edited = t.kind = "edit",
                         !.lineage = Upstream(head[b], t.phase)]]
       /\ att' = [att EXCEPT ![a].pc = "begun", ![a].branch = b,
                             ![a].pv = Least(fresh), ![a].prior = head[b][t.phase],
                             ![a].backup = disk[t.phase]]
       /\ UNCHANGED <<run, lock, active, branch, fork, stale, head, disk, moves,
                      direct, raced>>

\* The agent accepts the state it finds, moves the run to its running state and
\* reads the files of the phases before it.
Enter(a) ==
    LET t == att[a]
    IN /\ t.pc = "begun"
       /\ t.kind # "edit"
       /\ run = [kind |-> "review", at |-> t.phase - 1]
       /\ run' = [run EXCEPT !.kind = "running"]
       /\ ver' = IF Exists(t.pv)
                 THEN [ver EXCEPT ![t.pv].read =
                          [u \in Phases |-> IF u < t.phase THEN disk[u].by ELSE 0]]
                 ELSE ver
       /\ att' = [att EXCEPT ![a].pc = "working"]
       /\ UNCHANGED <<lock, active, branch, fork, stale, head, disk, moves, direct,
                      raced>>

\* The agent finds another state, or fails in the middle of its files.
Raise(a) ==
    LET t == att[a]
    IN /\ \/ t.pc = "begun" /\ t.kind # "edit"
             /\ run # [kind |-> "review", at |-> t.phase - 1]
          \/ t.pc = "working"
       /\ disk' \in {disk} \cup (IF t.pc = "working"
                                 THEN {[disk EXCEPT ![t.phase] = Written(t.pv)]}
                                 ELSE {})
       /\ att' = [att EXCEPT ![a].pc = "raised"]
       /\ UNCHANGED <<run, lock, active, graph, moves, direct, raced>>

\* The agent writes its files and moves the run to the next review.
Finish(a) ==
    LET t == att[a]
    IN /\ t.pc = "working"
       /\ disk' = [disk EXCEPT ![t.phase] = Written(t.pv)]
       /\ run' = [kind |-> "review", at |-> t.phase]
       /\ att' = [att EXCEPT ![a].pc = "returned"]
       /\ UNCHANGED <<lock, active, graph, moves, direct, raced>>

\* Mutant of Fail: the files of the failed attempt stay where they are.
Fail_KeepsFiles(a) ==
    LET t == att[a]
    IN /\ t.pc = "raised"
       /\ ver' = IF Exists(t.pv) THEN [ver EXCEPT ![t.pv].status = "failed"] ELSE ver
       /\ run' = IF t.kind = "rerun" THEN t.before
                 ELSE [kind |-> "failed", at |-> t.phase - 1]
       /\ lock' = NoActor
       /\ att' = [att EXCEPT ![a] = Idle]
       /\ UNCHANGED <<disk, active, branch, fork, stale, head, moves, direct, raced>>

\* fail_phase_version: the files of the prior version come back, the lock goes.
\* The exception leaves the run failed; the rerun then restores its state.
Fail(a) ==
    LET t == att[a]
    IN /\ t.pc = "raised"
       /\ ver' = IF Exists(t.pv) THEN [ver EXCEPT ![t.pv].status = "failed"] ELSE ver
       /\ disk' = IF t.prior # 0 THEN [disk EXCEPT ![t.phase] = t.backup] ELSE disk
       /\ run' = IF t.kind = "rerun" THEN t.before
                 ELSE [kind |-> "failed", at |-> t.phase - 1]
       /\ lock' = NoActor
       /\ att' = [att EXCEPT ![a] = Idle]
       /\ UNCHANGED <<active, branch, fork, stale, head, moves, direct, raced>>

\* commit_phase_version: archives whatever files of the phase are on disk, makes
\* the version the head of its branch, and cascades.
Committed(t, found) ==
    LET h == Cascade(t.branch, [head[t.branch] EXCEPT ![t.phase] = t.pv], t.phase)
    IN /\ ver' = [ver EXCEPT ![t.pv].status = "done",
                             ![t.pv].bytes = found[t.phase]]
       /\ head' = [head EXCEPT ![t.branch] = h]
       /\ disk' = [q \in Phases |-> IF q <= t.phase THEN found[q]
                                    ELSE Restored(h, 1)[q]]
       /\ Installed(t.branch, t.phase)
       /\ stale' = IF t.kind = "edit"
                   THEN [stale EXCEPT ![t.branch] = FirstHead(h, t.phase)] ELSE stale

Commit(a) ==
    LET t == att[a]
    IN /\ t.pc = "returned"
       /\ Exists(t.pv)
       /\ Committed(t, disk)
       /\ lock' = NoActor
       /\ att' = [att EXCEPT ![a] = IF t.kind = "rerun"
                                    THEN [Idle EXCEPT !.pc = "settle", !.kind = "rerun",
                                                      !.phase = t.phase]
                                    ELSE Idle]
       /\ UNCHANGED <<run, active, branch, fork, moves, raced>>

\* The row has been deleted meanwhile, and the commit raises.
CommitRaises(a) ==
    /\ att[a].pc \in {"returned", "begun"}
    /\ att[a].pc = "begun" => att[a].kind = "edit"
    /\ ~ Exists(att[a].pv)
    /\ run' = IF att[a].kind = "rerun" THEN att[a].before ELSE run
    /\ lock' = NoActor
    /\ att' = [att EXCEPT ![a] = Idle]
    /\ UNCHANGED <<active, graph, disk, moves, direct, raced>>

\* update_stale_marker_after_success, by the files and on the branch that is
\* active by now.
Settle(a) ==
    /\ att[a].pc = "settle"
    /\ stale' = [stale EXCEPT ![active] = FirstFile(att[a].phase)]
    /\ att' = [att EXCEPT ![a] = Idle]
    /\ UNCHANGED <<run, lock, active, branch, fork, head, ver, disk, moves, direct,
                   raced>>

\* The user's files are written and committed as a version of their own.
SaveEdit(a) ==
    LET t == att[a]
    IN /\ t.pc = "begun"
       /\ t.kind = "edit"
       /\ Exists(t.pv)
       /\ Committed(t, [disk EXCEPT ![t.phase] = Written(t.pv)])
       /\ lock' = NoActor
       /\ att' = [att EXCEPT ![a] = Idle]
       /\ UNCHANGED <<run, active, branch, fork, moves, raced>>

\* replace_phase_version: the archive of the version is overwritten in place.
SaveReplace(a) ==
    LET t == att[a]
        new == [by |-> t.base, edit |-> moves + 1]
    IN /\ t.pc = "claimed"
       /\ t.kind = "replace"
       /\ Acts
       /\ IF Exists(t.base)
          THEN /\ disk' = [disk EXCEPT ![t.phase] = new]
               /\ ver' = [ver EXCEPT ![t.base].bytes = new, ![t.base].edited = TRUE]
          ELSE UNCHANGED <<disk, ver>>
       /\ lock' = NoActor
       /\ att' = [att EXCEPT ![a] = Idle]
       /\ UNCHANGED <<run, active, branch, fork, stale, head, direct, raced>>
-----------------------------------------------------------------------------
(* The version and branch endpoints: none of them looks at the lock.        *)

\* It may come while an attempt holds the lock.
UnderAttempt == raced' = (raced \/ lock # NoActor)

\* The checks of the endpoint: a version of this phase, visible from the branch.
MayActivate(p, v) ==
    /\ Quiescent
    /\ ver[v].status = "done"
    /\ ver[v].phase = p
    /\ v \in Reachable(active, head[active], p)

\* activate_phase_version.
Activate(p, v) ==
    LET h == Cascade(active, [head[active] EXCEPT ![p] = v], p)
    IN /\ MayActivate(p, v)
       /\ head' = [head EXCEPT ![active] = h]
       /\ disk' = Restored(h, p)
       /\ stale' = [stale EXCEPT ![active] = FirstHead(h, p)]
       /\ Installed(active, p)
       /\ Acts /\ UnderAttempt
       /\ UNCHANGED <<run, lock, active, branch, fork, ver, att>>

\* activate_lineage_match: the newest version that fits the upstream heads.
ActivateMatch(p) ==
    /\ Matching(active, head[active], p) # {}
    /\ Activate(p, Newest(Matching(active, head[active], p)))

\* Mutant of Unreferenced: a version others were computed from may go.
Unreferenced_HeadsOnly(v) ==
    /\ \A b \in Branches : head[b][ver[v].phase] # v
    /\ \A b \in Branches : branch[b] = "live" => fork[b] # v
    /\ \A w \in Versions : Exists(w) => ver[w].parent # v

\* The reverse dependencies delete_phase_version looks for.
Unreferenced(v) ==
    /\ \A b \in Branches : head[b][ver[v].phase] # v
    /\ \A b \in Branches : branch[b] = "live" => fork[b] # v
    /\ \A w \in Versions : Exists(w) => /\ ver[w].parent # v
                                        /\ ver[w].lineage[ver[v].phase] # v

DeleteVersion(v) ==
    /\ Quiescent
    /\ Exists(v)
    /\ Unreferenced(v)
    /\ ver' = [ver EXCEPT ![v] = [NoVersion EXCEPT !.status = "deleted"]]
    /\ fork' = [b \in Branches |-> IF fork[b] = v THEN 0 ELSE fork[b]]
    /\ Acts /\ UnderAttempt
    /\ UNCHANGED <<run, lock, active, branch, stale, head, disk, att, direct>>

\* create_run_branch: the heads of the new branch are the base version and the
\* versions it was computed from, whatever the heads of the base branch are now.
CreateBranch(b, base, v) ==
    /\ Quiescent
    /\ branch[b] = "none"
    /\ branch[base] # "none"
    /\ ver[v].status = "done"
    /\ v \in Reachable(base, head[base], ver[v].phase)
    /\ branch' = [branch EXCEPT ![b] = "live"]
    /\ fork' = [fork EXCEPT ![b] = v]
    /\ head' = [head EXCEPT ![b] = [ver[v].lineage EXCEPT ![ver[v].phase] = v]]
    /\ Acts
    /\ direct' = direct \cup {<<b, q>> : q \in Phases}
    /\ UNCHANGED <<run, lock, active, stale, ver, disk, att, raced>>

\* Mutant of SwitchBranch: the switch moves the pointer and leaves the files.
SwitchBranch_PointerOnly(b) ==
    /\ Quiescent
    /\ branch[b] = "live"
    /\ active' = b
    /\ Acts /\ UnderAttempt
    /\ UNCHANGED <<run, lock, graph, disk, att, direct>>

\* materialize_branch_legacy_paths: the branch the files show from now on.
Shows(b) == active' = b /\ disk' = Restored(head[b], 1)

\* switch_active_branch.
SwitchBranch(b) ==
    /\ Quiescent
    /\ branch[b] = "live"
    /\ Shows(b)
    /\ Acts /\ UnderAttempt
    /\ UNCHANGED <<run, lock, graph, att, direct>>

\* soft_delete_branch: the active one falls back to main.
DeleteBranch(b) ==
    /\ Quiescent
    /\ b # Main
    /\ branch[b] = "live"
    /\ branch' = [branch EXCEPT ![b] = "deleted"]
    /\ Acts
    /\ IF active = b
       THEN Shows(Main) /\ UnderAttempt
       ELSE UNCHANGED <<active, disk, raced>>
    /\ UNCHANGED <<run, lock, fork, stale, head, ver, att, direct>>

\* mark_branch_stale_at_or_earlier: an earlier marker stays.
AtOrEarlier(b, p) == IF stale[b] = 0 \/ p < stale[b] THEN p ELSE stale[b]

\* update_research_role: rewrites the shortlist of the curator in place
\* and marks the synthesizer stale, unless something earlier is.
EditSources ==
    /\ Quiescent
    /\ Curator # 0
    /\ disk[Curator] # NoBytes
    /\ Acts
    /\ disk' = [disk EXCEPT ![Curator].edit = moves + 1]
    /\ stale' = IF Curator < N /\ disk[Curator + 1] # NoBytes
                THEN [stale EXCEPT ![active] = AtOrEarlier(active, Curator + 1)] ELSE stale
    /\ UNCHANGED <<run, lock, active, branch, fork, head, ver, att, direct, raced>>

\* save_proposal after the proposal review: the earliest phase with output is
\* stale from now on.
EditProposal ==
    LET done == {q \in Phases : head[active][q] # 0 \/ disk[q] # NoBytes}
    IN /\ Quiescent
       /\ run.at > 0
       /\ done # {}
       /\ Acts
       /\ stale' = [stale EXCEPT ![active] = Least(done)]
       /\ UNCHANGED <<run, lock, active, branch, fork, head, ver, disk, att,
                      direct, raced>>

\* stale_marks_after_kernel_edit: every branch there is, from the first phase it
\* has a head of; an earlier marker is overwritten.
KernelMarks ==
    [b \in Branches |-> IF branch[b] = "live" /\ FirstHead(head[b], 0) # 0
                        THEN FirstHead(head[b], 0) ELSE stale[b]]

\* edit_research_kernel of a run with a proposal.  It takes the lock, as an attempt
\* does, and the marks are what the heads are then.
EditKernel ==
    /\ Quiescent
    /\ lock = NoActor
    /\ Acts
    /\ stale' = KernelMarks
    /\ UNCHANGED <<run, lock, active, branch, fork, head, ver, disk, att, direct, raced>>
-----------------------------------------------------------------------------
Attempt(a) ==
    \/ \E p \in Phases : \/ CheckStart(a, p)
                         \/ CheckRerun(a, p)
                         \/ CheckEdit(a, p, "edit")
                         \/ CheckEdit(a, p, "replace")
    \/ Claim(a)
    \/ GiveUp(a)
    \/ Begin(a)
    \/ Enter(a)
    \/ Raise(a)
    \/ Finish(a)
    \/ Fail(a)
    \/ Commit(a)
    \/ CommitRaises(a)
    \/ Settle(a)
    \/ SaveEdit(a)
    \/ SaveReplace(a)

Next ==
    \/ \E a \in Actors : Attempt(a)
    \/ \E v \in Versions : Activate(ver[v].phase, v)
    \/ \E p \in Phases : ActivateMatch(p)
    \/ \E v \in Versions : DeleteVersion(v)
    \/ \E b, c \in Branches, v \in Versions : CreateBranch(b, c, v)
    \/ \E b \in Branches : SwitchBranch(b)
    \/ \E b \in Branches : DeleteBranch(b)
    \/ EditSources
    \/ EditProposal
    \/ EditKernel

Spec == Init /\ [][Next]_vars
-----------------------------------------------------------------------------
(* Properties.                                                              *)

\* A head nobody has chosen since the phases before it last changed was
\* computed from exactly the heads of those phases, and the cascade leaves a
\* phase without a head only when no version of the branch fits
\* (_cascade_phase_after_upstream_change).
HeadsFollowUpstream ==
    \A b \in Branches, q \in Phases :
        <<b, q>> \in direct
        \/ IF head[b][q] = 0 THEN Matching(b, head[b], q) = {}
           ELSE ver[head[b][q]].lineage = Upstream(head[b], q)

\* A version that a head, another version or a live branch still refers to has
\* not been deleted, whatever the order of deletes, forks and late commits
\* (delete_phase_version); heads are finished versions of their own phase.
NothingDangles ==
    /\ \A b \in Branches, q \in Phases :
           head[b][q] # 0 => /\ ver[head[b][q]].status = "done"
                             /\ ver[head[b][q]].phase = q
    /\ \A v \in Versions : Exists(v) =>
           /\ ver[v].parent # 0 => Exists(ver[v].parent)
           /\ \A q \in Phases : ver[v].lineage[q] # 0 => Exists(ver[v].lineage[q])
    /\ \A b \in Branches : branch[b] = "live" /\ fork[b] # 0 => Exists(fork[b])

Writing(q) == \E a \in Actors : /\ att[a].phase = q
                                /\ att[a].pc \in {"working", "returned", "raised"}

\* The files the agents read are those of the heads of the active branch, unless
\* an endpoint has moved heads or files under an attempt that held the lock
\* (switch_active_branch, materialize_branch_legacy_paths).
DiskShowsHeads ==
    raced \/ \A q \in Phases : \/ Writing(q)
                               \/ head[active][q] = 0
                               \/ disk[q].by = ver[head[active][q]].bytes.by

\* A version records the versions it was really computed from (the switch
\* endpoint materializes the branch so that no rerun would "record A's run_heads
\* while consuming B's bytes"), unless an endpoint moved them under the attempt.
LineageIsTrue ==
    raced \/ \A v \in Versions :
        ver[v].status = "done" /\ ~ ver[v].edited =>
            \A q \in Phases : ver[v].lineage[q] # 0 =>
                ver[v].read[q] = ver[ver[v].lineage[q]].bytes.by

\* An edit becomes the head in the place of the very version the user was looking
\* at (apply_phase_user_edit: "only let the caller commit if the head they were
\* viewing is still the head now").
EditsFollowWhatTheUserSaw ==
    [][\A a \in Actors :
           att[a].kind = "edit" /\ att[a].pc = "begun" /\ att[a]'.pc = "idle"
           /\ ver'[att[a].pv].status = "done"
               => head[att[a].branch][att[a].phase] = att[a].base]_vars
=============================================================================
