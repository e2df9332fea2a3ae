------------------------------- MODULE Essays -------------------------------
(***************************************************************************)
(* The essays of one user (main.py): projects and their runs are created,  *)
(* deleted, restored and removed while workers work on them, and only so   *)
(* many essays may be active at a time.  What is active is nowhere stored: *)
(* it is counted from the runs, under a lock on the user's row, by those   *)
(* endpoints that expect to add to it.                                     *)
(***************************************************************************)
EXTENDS Integers, FiniteSets, FiniteSetsExt

CONSTANTS
    Projects,
    Runs,       \* 1..n, in the order of their creation
    Callers,    \* API calls that may be under way at the same time
    NoOne,      \* no caller, and no project
    Limit,      \* ACTIVE_ESSAY_LIMIT_PER_USER
    MaxSlips    \* bound on the activations that nobody has counted

ASSUME EssaysAssumption ==
    /\ Runs = 1..Cardinality(Runs)
    /\ IsFiniteSet(Projects)
    /\ NoOne \notin Callers \cup Projects
    /\ Limit \in Nat /\ MaxSlips \in Nat

VARIABLES
    project,    \* the row: "none", "live", "deleted" or "gone"
    old,        \* projects created more than 24 hours ago
    run,        \* the row, with what a worker does for it
    call,       \* API calls, between two of their steps
    user,       \* the caller that holds the lock on the user's row
    slips,      \* activations that were not counted
    late        \* runs that were added to a project after its deletion

vars == <<project, old, run, call, user, slips, late>>

\* "waiting": a review or FAILED_FIXABLE; "done": EXPORTS_DONE, EXPRESS_DONE,
\* FAILED_VENDOR or FAILED_POLICY, which these endpoints treat alike.
Open == {"waiting", "running"}
LIMIT_TERMINAL_STATES == {"done", "cancelled"}

NoRun == [of |-> NoOne, state |-> "none", deleted |-> FALSE, cancel |-> FALSE, job |-> "none"]
Free == [op |-> "none", pc |-> "idle", on |-> NoOne, run |-> 0, counted |-> FALSE]
Operations == {"create_project", "create_run", "restore_project", "restore_run"}

Row == [of : Projects \cup {NoOne}, state : Open \cup LIMIT_TERMINAL_STATES \cup {"none", "gone"},
        deleted : BOOLEAN, cancel : BOOLEAN, job : {"none", "queued", "working"}]
Call == [op : Operations \cup {"none"}, pc : {"idle", "gate", "commit"},
         on : Projects \cup {NoOne}, run : Runs \cup {0}, counted : BOOLEAN]

TypeOK ==
    /\ project \in [Projects -> {"none", "live", "deleted", "gone"}]
    /\ old \subseteq Projects
    /\ run \in [Runs -> Row]
    /\ call \in [Callers -> Call]
    /\ user \in Callers \cup {NoOne}
    /\ slips <= MaxSlips
    /\ late \subseteq Runs

Init ==
    /\ project = [p \in Projects |-> "none"]
    /\ old = {}
    /\ run = [r \in Runs |-> NoRun]
    /\ call = [c \in Callers |-> Free]
    /\ user = NoOne
    /\ slips = 0
    /\ late = {}
-----------------------------------------------------------------------------
(* What is counted.                                                         *)

\* The rows of a project's runs, the visible ones, and the state of the newest.
Rows(p) == {r \in Runs : run[r].of = p /\ run[r].state # "gone"}
Visible(p) == {r \in Rows(p) : ~run[r].deleted}
LatestIsOpen(rs) == \E r \in rs : run[r].state \in Open /\ \A s \in rs : s <= r

\* _count_active_essays: a project without any run counts for a day.
ActiveEssays ==
    {p \in Projects :
        /\ project[p] = "live"
        /\ IF Rows(p) = {} THEN p \notin old ELSE LatestIsOpen(Visible(p))}

\* _project_currently_active, with the project as the call has read it before: it
\* takes a project without runs for an active one, however old it is.
CurrentlyActive(p) == Rows(p) = {} \/ LatestIsOpen(Visible(p))

\* Every step says what it has added without a count.
Slip(counted) ==
    /\ slips' = slips + IF counted THEN 0
                        ELSE Cardinality(ActiveEssays' \ ActiveEssays)
    /\ slips' <= MaxSlips

Answer(c) == call' = [call EXCEPT ![c] = Free]
Unlock(c) == user' = IF user = c THEN NoOne ELSE user
-----------------------------------------------------------------------------
(* The endpoints that count: they read, take the user's lock and count, and *)
(* commit.                                                                  *)

Calls(c, op, p, r, pc) ==
    /\ call[c].pc = "idle"
    /\ call' = [call EXCEPT ![c] = [Free EXCEPT !.op = op, !.pc = pc, !.on = p, !.run = r]]
    /\ UNCHANGED <<project, old, run, user, slips, late>>

\* The id of the new project is nobody else's.
CreateProject(c, p) ==
    /\ project[p] = "none"
    /\ \A d \in Callers : call[d].on # p
    /\ Calls(c, "create_project", p, 0, "gate")

CreateRun(c, p) == project[p] = "live" /\ Calls(c, "create_run", p, 0, "gate")

RestoreProject(c, p) ==
    /\ project[p] = "deleted"
    /\ \A r \in Visible(p) : run[r].job = "none"
    /\ Calls(c, "restore_project", p, 0, "gate")

\* restore_run decides before it takes the lock whether it needs a slot.
RestoreRun(c, r) ==
    LET p == run[r].of
        latest == IF \A v \in Visible(p) : v < r THEN r ELSE Max(Visible(p))
    IN /\ run[r].state \notin {"none", "gone"}
       /\ run[r].deleted
       /\ run[r].job = "none"
       /\ project[p] = "live"
       /\ Calls(c, "restore_run", p, r,
                IF ~CurrentlyActive(p) /\ run[latest].state \in Open
                THEN "gate" ELSE "commit")

\* What the call makes of the rows, now that it has the lock.
NeedsSlot(c) ==
    LET p == call[c].on
    IN CASE call[c].op = "create_run"      -> ~CurrentlyActive(p)
         [] call[c].op = "restore_project" -> Rows(p) = {} \/ LatestIsOpen(Rows(p))
         [] OTHER                          -> TRUE

\* Mutant of Gate: the lock is a no-op, as on SQLite.
Gate_NoLock(c) ==
    /\ call[c].pc = "gate"
    /\ IF NeedsSlot(c) /\ Cardinality(ActiveEssays) >= Limit
       THEN Answer(c)
       ELSE call' = [call EXCEPT ![c].pc = "commit", ![c].counted = NeedsSlot(c)]
    /\ UNCHANGED <<project, old, run, user, slips, late>>

\* _lock_user_for_essay_limit and _count_active_essays.
Gate(c) ==
    /\ call[c].pc = "gate"
    /\ user = NoOne
    /\ IF NeedsSlot(c) /\ Cardinality(ActiveEssays) >= Limit
       THEN Answer(c) /\ UNCHANGED user
       ELSE /\ call' = [call EXCEPT ![c].pc = "commit", ![c].counted = NeedsSlot(c)]
            /\ user' = c
    /\ UNCHANGED <<project, old, run, slips, late>>

Commits(c, op) == call[c].pc = "commit" /\ call[c].op = op
Committed(c) ==
    /\ Answer(c)
    /\ Unlock(c)
    /\ Slip(call[c].counted)

ProjectCreated(c) ==
    /\ Commits(c, "create_project")
    /\ project' = [project EXCEPT ![call[c].on] = "live"]
    /\ UNCHANGED <<old, run, late>>
    /\ Committed(c)

\* The next row: ids and times grow.
NextRow(r) == run[r].state = "none" /\ \A s \in 1..(r - 1) : run[s].state # "none"

RunCreated(c) ==
    /\ Commits(c, "create_run")
    /\ project[call[c].on] # "gone"
    /\ \E r \in Runs :
          /\ NextRow(r)
          /\ run' = [run EXCEPT ![r] = [NoRun EXCEPT !.of = call[c].on, !.state = "waiting"]]
          /\ late' = IF project[call[c].on] = "deleted" THEN late \cup {r} ELSE late
    /\ UNCHANGED <<project, old>>
    /\ Committed(c)

\* A cancel is cleared where it has hit a run at rest.
Cleared(r) == [run[r] EXCEPT !.cancel = @ /\ run[r].state \in {"running", "cancelled"}]

ProjectRestored(c) ==
    LET p == call[c].on
    IN /\ Commits(c, "restore_project")
       /\ project[p] # "gone"
       /\ project' = [project EXCEPT ![p] = "live"]
       /\ run' = [r \in Runs |-> IF r \in Visible(p) THEN Cleared(r) ELSE run[r]]
       /\ late' = late \ Rows(p)
       /\ UNCHANGED old
       /\ Committed(c)

RunRestored(c) ==
    LET r == call[c].run
    IN /\ Commits(c, "restore_run")
       /\ run[r].state # "gone"
       /\ run' = [run EXCEPT ![r] = [Cleared(r) EXCEPT !.deleted = FALSE]]
       /\ late' = IF project[call[c].on] = "deleted" THEN late \cup {r} ELSE late
       /\ UNCHANGED <<project, old>>
       /\ Committed(c)

\* The row that the call has read is gone: it fails.
RowIsGone(c) ==
    /\ call[c].pc = "commit"
    /\ \/ project[call[c].on] = "gone"
       \/ call[c].run # 0 /\ run[call[c].run].state = "gone"
    /\ Answer(c)
    /\ Unlock(c)
    /\ UNCHANGED <<project, old, run, slips, late>>
-----------------------------------------------------------------------------
(* The endpoints that do not count.                                         *)

\* Mutant of DeleteProject: only the running runs are told.
DeleteProject_RunningOnly(p) ==
    /\ project[p] = "live"
    /\ project' = [project EXCEPT ![p] = "deleted"]
    /\ run' = [r \in Runs |-> IF r \in Visible(p) /\ run[r].state = "running"
                              THEN [run[r] EXCEPT !.cancel = TRUE] ELSE run[r]]
    /\ UNCHANGED <<old, call, user, late>>
    /\ Slip(FALSE)

\* delete_project: every run that is not finished gets the cancel, a CANCELLED one
\* as well.
DeleteProject(p) ==
    /\ project[p] = "live"
    /\ project' = [project EXCEPT ![p] = "deleted"]
    /\ run' = [r \in Runs |-> IF r \in Visible(p) /\ run[r].state # "done"
                              THEN [run[r] EXCEPT !.cancel = TRUE] ELSE run[r]]
    /\ UNCHANGED <<old, call, user, late>>
    /\ Slip(FALSE)

\* delete_run: an older run of the project may become its latest.
DeleteRun(r) ==
    /\ run[r].of # NoOne
    /\ run[r].state # "gone"
    /\ project[run[r].of] = "live"
    /\ ~run[r].deleted
    /\ run' = [run EXCEPT ![r] = [@ EXCEPT !.deleted = TRUE,
                                           !.cancel = @ \/ run[r].state \in Open]]
    /\ UNCHANGED <<project, old, call, user, late>>
    /\ Slip(FALSE)

\* hard_delete_run.
RemoveRun(r) ==
    /\ run[r].state \notin {"none", "gone"}
    /\ run[r].deleted
    /\ run[r].job = "none"
    /\ run' = [run EXCEPT ![r] = [NoRun EXCEPT !.state = "gone"]]
    /\ UNCHANGED <<project, old, call, user, late>>
    /\ Slip(FALSE)

\* hard_delete_project.
RemoveProject(p) ==
    /\ project[p] = "deleted"
    /\ \A r \in Rows(p) : run[r].job = "none"
    /\ project' = [project EXCEPT ![p] = "gone"]
    /\ run' = [r \in Runs |-> IF r \in Rows(p) THEN [NoRun EXCEPT !.state = "gone"]
                                               ELSE run[r]]
    /\ UNCHANGED <<old, call, user, late>>
    /\ Slip(FALSE)

Mutable(r) == run[r].of # NoOne /\ project[run[r].of] = "live" /\ ~run[r].deleted

\* clear_run_cancel_intent.
ClearCancel(r) ==
    /\ run[r].state = "cancelled"
    /\ run[r].cancel
    /\ Mutable(r)
    /\ run' = [run EXCEPT ![r] = [@ EXCEPT !.state = "waiting", !.cancel = FALSE]]
    /\ UNCHANGED <<project, old, call, user, late>>
    /\ Slip(FALSE)

\* force_approve_run and rerun_phase take a finished run up again.
Reopen(r) ==
    /\ run[r].state = "done"
    /\ Mutable(r)
    /\ run' = [run EXCEPT ![r] = [@ EXCEPT !.state = "waiting"]]
    /\ UNCHANGED <<project, old, call, user, late>>
    /\ Slip(FALSE)
-----------------------------------------------------------------------------
(* The runs, as far as the rows of the essays see them.                     *)

\* A start endpoint; start_proposal does not ask whether the run, or its project,
\* is deleted.
Start(r) ==
    /\ run[r].state = "waiting"
    /\ run[r].job = "none"
    /\ run' = [run EXCEPT ![r] = [@ EXCEPT !.job = "queued"]]
    /\ UNCHANGED <<project, old, call, user, slips, late>>

\* Its job, which reads the cancel when it begins and before it ends.
Works(r, from, to) ==
    /\ run[r].job = from.job
    /\ run[r].state = from.state
    /\ run' = [run EXCEPT ![r] = [@ EXCEPT !.state = to.state, !.job = to.job]]
    /\ UNCHANGED <<project, old, call, user, late>>
    /\ Slip(FALSE)

At(state, job) == [state |-> state, job |-> job]
JobBegins(r) == ~run[r].cancel /\ Works(r, At("waiting", "queued"), At("running", "working"))
JobCancels(r) ==
    /\ run[r].cancel
    /\ \/ Works(r, At("waiting", "queued"), At("cancelled", "none"))
       \/ Works(r, At("running", "working"), At("cancelled", "none"))
JobEnds(r) ==
    /\ ~run[r].cancel
    /\ \E s \in {"waiting", "done"} :
          Works(r, At("running", "working"), At(s, "none"))
\* A day passes over a project without runs; for the others it counts for nothing.
Day(p) ==
    /\ project[p] # "none"
    /\ p \notin old
    /\ Rows(p) = {}
    /\ old' = old \cup {p}
    /\ UNCHANGED <<project, run, call, user, slips, late>>
-----------------------------------------------------------------------------
CommitStep(c) ==
    \/ ProjectCreated(c) \/ RunCreated(c) \/ ProjectRestored(c) \/ RunRestored(c)
    \/ RowIsGone(c)

Next ==
    \/ \E c \in Callers : Gate(c) \/ CommitStep(c)
    \/ \E c \in Callers, p \in Projects :
          CreateProject(c, p) \/ CreateRun(c, p) \/ RestoreProject(c, p)
    \/ \E c \in Callers, r \in Runs : RestoreRun(c, r)
    \/ \E p \in Projects : DeleteProject(p) \/ RemoveProject(p) \/ Day(p)
    \/ \E r \in Runs : DeleteRun(r) \/ RemoveRun(r) \/ ClearCancel(r) \/ Reopen(r)
    \/ \E r \in Runs : Start(r) \/ JobBegins(r) \/ JobCancels(r) \/ JobEnds(r)

Spec == Init /\ [][Next]_vars
-----------------------------------------------------------------------------
(* Properties.                                                              *)

\* Creations and restores that overlap never add up: beyond the limit there are
\* only essays that came back without a count, by the deletion of a newer run, by
\* a reopened run, or by an endpoint that took its project for active (main.py,
\* _lock_user_for_essay_limit).
LimitHolds == Cardinality(ActiveEssays) <= Limit + slips

\* The worker of a deleted project is told: each of its unfinished runs has the
\* cancel, through any sequence of deletions and restores, unless it was added by
\* a call that had read the project before (main.py, delete_project).
DeletedIsCancelled ==
    \A r \in Runs \ late :
        /\ run[r].of # NoOne
        /\ project[run[r].of] = "deleted"
        /\ run[r].state \in Open
        => run[r].cancel
=============================================================================
