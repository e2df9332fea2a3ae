---------------------------- MODULE EssaysProofs ----------------------------
(***************************************************************************)
(* The worker of a deleted project is told, for any number of projects,    *)
(* runs and callers, and whatever the limit.                               *)
(*                                                                         *)
(* DeletedIsCancelled is not inductive.  A run that is itself deleted is   *)
(* passed over when its project is deleted, so that it must have had the   *)
(* cancel before; and a call that restores a run must know to which        *)
(* project it belongs, after however many other calls have committed.      *)
(*                                                                         *)
(* The second part is the limit on the active essays of a user, for any    *)
(* limit.  Between the count and the commit other calls add essays: those  *)
(* that count wait for the lock on the user's row, and those that do not   *)
(* are slips.  A call that has counted therefore still finds its place     *)
(* free, and it takes only one: an endpoint on one project activates no    *)
(* other.                                                                  *)
(***************************************************************************)
EXTENDS Essays, FiniteSetTheorems, TLAPS
-----------------------------------------------------------------------------
(* The inductive invariant.                                                 *)

Known(r) == run[r].state \notin {"none", "gone"}

\* A deleted run that is not over has the cancel, whatever its project is.
DeletedRunsAreCancelled ==
    \A r \in Runs : run[r].deleted /\ run[r].state \in Open => run[r].cancel

\* A run never changes its project, and its row is never used again.
RestoresKnowTheirRun ==
    \A c \in Callers : call[c].op = "restore_run" =>
        LET r == call[c].run
        IN /\ r \in Runs
           /\ run[r].state # "none"
           /\ run[r].state # "gone" => run[r].of = call[c].on

Invariant ==
    /\ TypeOK
    /\ DeletedRunsAreCancelled
    /\ RestoresKnowTheirRun
    /\ DeletedIsCancelled
-----------------------------------------------------------------------------
(* Types.                                                                   *)

LEMMA InitTypeOK == Init => TypeOK
<1> SUFFICES ASSUME Init PROVE TypeOK
  OBVIOUS
<1>1. NoRun \in Row /\ Free \in Call
  BY DEF NoRun, Free, Row, Call
<1>2. 0 <= MaxSlips
  BY EssaysAssumption
<1> QED
  BY <1>1, <1>2 DEF Init, TypeOK

\* The steps of a call keep the types.
LEMMA CallTypes ==
    ASSUME TypeOK, RestoresKnowTheirRun, NEW c \in Callers,
           \/ Gate(c) \/ CommitStep(c)
           \/ \E p \in Projects : CreateProject(c, p) \/ CreateRun(c, p) \/ RestoreProject(c, p)
           \/ \E r \in Runs : RestoreRun(c, r)
    PROVE  TypeOK'
<1>1. Free \in Call
  BY DEF Free, Call
<1>2. ASSUME NEW op \in Operations, NEW p \in Projects \cup {NoOne}, NEW r \in Runs \cup {0},
             NEW pc \in {"gate", "commit"}, Calls(c, op, p, r, pc)
      PROVE  TypeOK'
  <2>1. [Free EXCEPT !.op = op, !.pc = pc, !.on = p, !.run = r] \in Call
    BY DEF Free, Call
  <2> QED
    BY <1>2, <2>1 DEF Calls, TypeOK
<1>3. ASSUME NEW p \in Projects, CreateProject(c, p) \/ CreateRun(c, p) \/ RestoreProject(c, p)
      PROVE  TypeOK'
  BY <1>2, <1>3 DEF CreateProject, CreateRun, RestoreProject, Operations
<1>4. ASSUME NEW r \in Runs, RestoreRun(c, r) PROVE TypeOK'
  <2>1. run[r].of \in Projects \cup {NoOne}
    BY DEF TypeOK, Row
  <2>2. PICK pc \in {"gate", "commit"} : Calls(c, "restore_run", run[r].of, r, pc)
    BY <1>4 DEF RestoreRun
  <2> QED
    BY <1>2, <2>1, <2>2 DEF Operations
<1>5. CASE Gate(c)
  <2>1. NeedsSlot(c) \in BOOLEAN
    BY DEF NeedsSlot, CurrentlyActive, LatestIsOpen
  <2>2. call' \in [Callers -> Call]
    <3>1. \/ Answer(c)
          \/ call' = [call EXCEPT ![c].pc = "commit", ![c].counted = NeedsSlot(c)]
      BY <1>5 DEF Gate
    <3> QED
      BY <1>1, <2>1, <3>1 DEF Answer, TypeOK, Call
  <2> QED
    BY <1>5, <2>2 DEF Gate, TypeOK
<1>6. ASSUME Answer(c), Unlock(c) PROVE call' \in [Callers -> Call] /\ user' \in Callers \cup {NoOne}
  BY <1>1, <1>6 DEF Answer, Unlock, TypeOK
<1>7. ASSUME Committed(c)
      PROVE  /\ call' \in [Callers -> Call] /\ user' \in Callers \cup {NoOne}
             /\ slips' <= MaxSlips
  BY <1>6, <1>7 DEF Committed, Slip
<1>8. CASE ProjectCreated(c)
  BY <1>7, <1>8 DEF ProjectCreated, TypeOK
<1>9. CASE RunCreated(c)
  <2>1. PICK r \in Runs :
            /\ run' = [run EXCEPT ![r] = [NoRun EXCEPT !.of = call[c].on, !.state = "waiting"]]
            /\ late' = IF project[call[c].on] = "deleted" THEN late \cup {r} ELSE late
    BY <1>9 DEF RunCreated
  <2>2. call[c].on \in Projects \cup {NoOne}
    BY DEF TypeOK, Call
  <2>3. [NoRun EXCEPT !.of = call[c].on, !.state = "waiting"] \in Row
    BY <2>2 DEF NoRun, Row, Open
  <2> QED
    BY <1>7, <1>9, <2>1, <2>3 DEF RunCreated, TypeOK
<1>10. \A r \in Runs : Cleared(r) \in Row
  BY DEF TypeOK, Cleared, Row
<1>11. CASE ProjectRestored(c)
  BY <1>7, <1>10, <1>11 DEF ProjectRestored, TypeOK
<1>12. CASE RunRestored(c)
  <2>1. ASSUME NEW r \in Runs PROVE [Cleared(r) EXCEPT !.deleted = FALSE] \in Row
    BY <1>10 DEF Row
  <2>2. call[c].run \in Runs
    BY <1>12 DEF RunRestored, Commits, RestoresKnowTheirRun
  <2> QED
    BY <1>7, <1>12, <2>1, <2>2 DEF RunRestored, TypeOK
<1>13. CASE RowIsGone(c)
  BY <1>6, <1>13 DEF RowIsGone, TypeOK
<1> QED
  BY <1>3, <1>4, <1>5, <1>8, <1>9, <1>11, <1>12, <1>13 DEF CommitStep

\* One row is written, and stays a row.
LEMMA RowType ==
    ASSUME TypeOK, NEW r \in Runs, NEW new \in Row, run' = [run EXCEPT ![r] = new]
    PROVE  run' \in [Runs -> Row]
BY DEF TypeOK

\* What is written to single columns makes a row.
LEMMA ColumnsType ==
    ASSUME TypeOK, NEW r \in Runs
    PROVE  /\ \A d \in BOOLEAN, b \in BOOLEAN :
                  [run[r] EXCEPT !.deleted = d, !.cancel = b] \in Row
           /\ \A s \in Open \cup LIMIT_TERMINAL_STATES :
                  /\ [run[r] EXCEPT !.state = s] \in Row
                  /\ \A b \in BOOLEAN : [run[r] EXCEPT !.state = s, !.cancel = b] \in Row
                  /\ \A j \in {"none", "queued", "working"} :
                         [run[r] EXCEPT !.state = s, !.job = j] \in Row
           /\ \A j \in {"none", "queued", "working"} : [run[r] EXCEPT !.job = j] \in Row
<1>1. run[r] \in Row
  BY DEF TypeOK
<1> QED
  BY <1>1 DEF Row

\* So do the other endpoints and the jobs.
LEMMA OtherTypes ==
    ASSUME TypeOK,
           \/ \E p \in Projects : DeleteProject(p) \/ RemoveProject(p) \/ Day(p)
           \/ \E r \in Runs : DeleteRun(r) \/ RemoveRun(r) \/ ClearCancel(r) \/ Reopen(r)
           \/ \E r \in Runs : Start(r) \/ JobBegins(r) \/ JobCancels(r) \/ JobEnds(r)
           \/ UNCHANGED vars
    PROVE  TypeOK'
<1> USE DEF Slip
<1>1. [NoRun EXCEPT !.state = "gone"] \in Row
  BY DEF NoRun, Row
<1>3. ASSUME NEW p \in Projects, DeleteProject(p) PROVE TypeOK'
  BY <1>3 DEF DeleteProject, TypeOK, Row
<1>4. ASSUME NEW p \in Projects, RemoveProject(p) PROVE TypeOK'
  BY <1>1, <1>4 DEF RemoveProject, TypeOK
<1>5. ASSUME NEW p \in Projects, Day(p) PROVE TypeOK'
  BY <1>5 DEF Day, TypeOK
<1>6. ASSUME NEW r \in Runs, DeleteRun(r) PROVE TypeOK'
  <2>1. (run[r].cancel \/ run[r].state \in Open) \in BOOLEAN
    OBVIOUS
  <2>2. run' \in [Runs -> Row]
    BY ColumnsType, <1>6, <2>1, RowType DEF DeleteRun
  <2> QED
    BY <1>6, <2>2 DEF DeleteRun, TypeOK
<1>7. ASSUME NEW r \in Runs, RemoveRun(r) PROVE TypeOK'
  BY <1>1, <1>7 DEF RemoveRun, TypeOK
<1>8. ASSUME NEW r \in Runs, ClearCancel(r) PROVE TypeOK'
  <2>1. run' \in [Runs -> Row]
    BY ColumnsType, <1>8, RowType DEF ClearCancel, Open
  <2> QED
    BY <1>8, <2>1 DEF ClearCancel, TypeOK
<1>9. ASSUME NEW r \in Runs, Reopen(r) PROVE TypeOK'
  <2>1. run' \in [Runs -> Row]
    BY ColumnsType, <1>9, RowType DEF Reopen, Open
  <2> QED
    BY <1>9, <2>1 DEF Reopen, TypeOK
<1>10. ASSUME NEW r \in Runs, Start(r) PROVE TypeOK'
  <2>1. run' \in [Runs -> Row]
    BY ColumnsType, <1>10, RowType DEF Start
  <2> QED
    BY <1>10, <2>1 DEF Start, TypeOK
<1>11. ASSUME NEW r \in Runs, NEW from,
              NEW s \in Open \cup LIMIT_TERMINAL_STATES, NEW j \in {"none", "queued", "working"},
              Works(r, from, At(s, j))
       PROVE  TypeOK'
  <2>1. run' = [run EXCEPT ![r] = [run[r] EXCEPT !.state = s, !.job = j]]
    BY <1>11 DEF Works, At
  <2>2. run' \in [Runs -> Row]
    BY ColumnsType, <2>1, RowType
  <2> QED
    BY <1>11, <2>2 DEF Works, TypeOK
<1>12. ASSUME NEW r \in Runs, JobBegins(r) \/ JobCancels(r) \/ JobEnds(r) PROVE TypeOK'
  BY <1>11, <1>12 DEF JobBegins, JobCancels, JobEnds, Open, LIMIT_TERMINAL_STATES
<1>13. CASE UNCHANGED vars
  BY <1>13 DEF vars, TypeOK
<1> QED
  BY <1>3, <1>4, <1>5, <1>6, <1>7, <1>8, <1>9, <1>10, <1>12, <1>13

LEMMA NextTypes == TypeOK /\ RestoresKnowTheirRun /\ [Next]_vars => TypeOK'
BY CallTypes, OtherTypes DEF Next
-----------------------------------------------------------------------------
(* Calls and their runs.                                                    *)

\* A row keeps its project, unless it is created or removed.
LEMMA RunsKeepTheirProject ==
    ASSUME TypeOK, RestoresKnowTheirRun, [Next]_vars, NEW r \in Runs
    PROVE  \/ /\ run'[r].of = run[r].of
              /\ \/ run'[r].state = run[r].state
                 \/ Known(r) /\ run'[r].state \notin {"none", "gone"}
           \/ run'[r].state = "gone"
           \/ run[r].state = "none" /\ run'[r].state = "waiting"
<1>1. ASSUME NEW c \in Callers, RunCreated(c)
      PROVE  \/ run'[r] = run[r]
             \/ run[r].state = "none" /\ run'[r].state = "waiting"
  BY <1>1 DEF RunCreated, NextRow, NoRun, TypeOK
<1>2. ASSUME NEW c \in Callers, ProjectRestored(c) \/ RunRestored(c)
      PROVE  run'[r].state = run[r].state /\ run'[r].of = run[r].of
  <2>1. \A s \in Runs : Cleared(s).state = run[s].state /\ Cleared(s).of = run[s].of
    BY DEF Cleared, TypeOK, Row
  <2>2. \A s \in Runs : LET new == [Cleared(s) EXCEPT !.deleted = FALSE]
                        IN new.state = run[s].state /\ new.of = run[s].of
    BY DEF Cleared, TypeOK, Row
  <2>3. CASE ProjectRestored(c)
    BY <2>1, <2>3 DEF ProjectRestored
  <2>4. CASE RunRestored(c)
    BY <2>2, <2>4 DEF RunRestored, TypeOK
  <2> QED
    BY <1>2, <2>3, <2>4
<1>3. ASSUME \E p \in Projects : DeleteProject(p)
      PROVE  run'[r].state = run[r].state /\ run'[r].of = run[r].of
  BY <1>3 DEF DeleteProject, TypeOK, Row
<1>4. ASSUME \/ \E p \in Projects : RemoveProject(p)
             \/ \E s \in Runs : RemoveRun(s)
      PROVE  run'[r] = run[r] \/ run'[r].state = "gone"
  BY <1>4 DEF RemoveProject, RemoveRun, NoRun, TypeOK
<1>5. ASSUME NEW s \in Runs, NEW new, run' = [run EXCEPT ![s] = new],
             new.of = run[s].of,
             new.state = run[s].state \/ (Known(s) /\ new.state \notin {"none", "gone"})
      PROVE  /\ run'[r].of = run[r].of
             /\ \/ run'[r].state = run[r].state
                \/ Known(r) /\ run'[r].state \notin {"none", "gone"}
  <2>1. run'[r] = IF r = s THEN new ELSE run[r]
    BY <1>5 DEF TypeOK
  <2> QED
    BY <1>5, <2>1 DEF Known
<1>6. ASSUME NEW s \in Runs,
             \/ DeleteRun(s) \/ ClearCancel(s) \/ Reopen(s) \/ Start(s)
             \/ JobBegins(s) \/ JobCancels(s) \/ JobEnds(s)
      PROVE  /\ run'[r].of = run[r].of
             /\ \/ run'[r].state = run[r].state
                \/ Known(r) /\ run'[r].state \notin {"none", "gone"}
  <2>1. run[s] \in Row
    BY DEF TypeOK
  <2>2. CASE DeleteRun(s)
    <3>1. PICK b : run' = [run EXCEPT ![s] = [run[s] EXCEPT !.deleted = TRUE, !.cancel = b]]
      BY <2>2 DEF DeleteRun
    <3> QED
      BY <2>1, <3>1, <1>5 DEF Row
  <2>3. CASE ClearCancel(s) \/ Reopen(s)
    BY <2>1, <2>3, <1>5 DEF ClearCancel, Reopen, Known, Row
  <2>4. CASE Start(s)
    BY <2>1, <2>4, <1>5 DEF Start, Row
  <2>5. CASE JobBegins(s) \/ JobCancels(s) \/ JobEnds(s)
    <3>1. PICK q \in Open \cup LIMIT_TERMINAL_STATES, j \in {"none", "queued", "working"} :
              /\ Known(s)
              /\ run' = [run EXCEPT ![s] = [run[s] EXCEPT !.state = q, !.job = j]]
      BY <2>5 DEF JobBegins, JobCancels, JobEnds, Works, At, Known, Open, LIMIT_TERMINAL_STATES
    <3> QED
      BY <2>1, <3>1, <1>5 DEF Row, Open, LIMIT_TERMINAL_STATES
  <2> QED
    BY <1>6, <2>2, <2>3, <2>4, <2>5
<1>7. ASSUME UNCHANGED run PROVE run'[r] = run[r]
  BY <1>7
<1>8. \/ \E c \in Callers : RunCreated(c) \/ ProjectRestored(c) \/ RunRestored(c)
      \/ \E p \in Projects : DeleteProject(p) \/ RemoveProject(p)
      \/ \E s \in Runs : DeleteRun(s) \/ RemoveRun(s) \/ ClearCancel(s) \/ Reopen(s) \/ Start(s)
      \/ \E s \in Runs : JobBegins(s) \/ JobCancels(s) \/ JobEnds(s)
      \/ UNCHANGED run
  BY DEF Next, vars, CommitStep, ProjectCreated, RowIsGone, Gate, CreateProject, CreateRun,
         RestoreProject, RestoreRun, Calls, Day
<1> QED
  BY <1>1, <1>2, <1>3, <1>4, <1>5, <1>6, <1>7, <1>8 DEF Known

LEMMA NextRestores == TypeOK /\ RestoresKnowTheirRun /\ [Next]_vars => RestoresKnowTheirRun'
<1> SUFFICES ASSUME TypeOK, RestoresKnowTheirRun, [Next]_vars, NEW c \in Callers,
                    call'[c].op = "restore_run"
             PROVE  LET r == call'[c].run
                    IN /\ r \in Runs
                       /\ run'[r].state # "none"
                       /\ run'[r].state # "gone" => run'[r].of = call'[c].on
  BY DEF RestoresKnowTheirRun
<1>1. CASE /\ call[c].op = "restore_run" /\ call'[c].run = call[c].run
           /\ call'[c].on = call[c].on
  <2>1. /\ call[c].run \in Runs
        /\ run[call[c].run].state # "none"
        /\ run[call[c].run].state # "gone" => run[call[c].run].of = call[c].on
    BY <1>1 DEF RestoresKnowTheirRun
  <2> QED
    BY <1>1, <2>1, RunsKeepTheirProject DEF RestoresKnowTheirRun, Known
<1>2. ASSUME NEW d \in Callers, NEW r \in Runs, RestoreRun(d, r), d = c
      PROVE  call'[c].run = r /\ Known(r) /\ UNCHANGED run /\ call'[c].on = run[r].of
  <2>1. PICK pc \in {"gate", "commit"} : Calls(c, "restore_run", run[r].of, r, pc)
    BY <1>2 DEF RestoreRun
  <2> QED
    BY <1>2, <2>1 DEF Calls, Free, RestoreRun, Known, TypeOK
<1>3. ASSUME NEW d \in Callers, NEW op \in Operations \ {"restore_run"}, NEW p, Calls(d, op, p, 0, "gate")
      PROVE  d # c /\ call'[c] = call[c]
  BY <1>3 DEF Calls, Free, TypeOK
<1>4. ASSUME NEW d \in Callers, Answer(d) PROVE d # c /\ call'[c] = call[c]
  BY <1>4 DEF Answer, Free, TypeOK
<1>5. ASSUME NEW d \in Callers,
             call' = [call EXCEPT ![d].pc = "commit", ![d].counted = NeedsSlot(d)]
      PROVE  /\ call[c].op = "restore_run" /\ call'[c].run = call[c].run
             /\ call'[c].on = call[c].on
  BY <1>5 DEF TypeOK, Call
<1>6. \/ UNCHANGED call
      \/ \E d \in Callers :
            \/ \E r \in Runs : RestoreRun(d, r)
            \/ \E op \in Operations \ {"restore_run"}, p \in Projects : Calls(d, op, p, 0, "gate")
            \/ Answer(d)
            \/ call' = [call EXCEPT ![d].pc = "commit", ![d].counted = NeedsSlot(d)]
  BY DEF Next, vars, CommitStep, ProjectCreated, RunCreated, ProjectRestored, RunRestored,
         Committed, RowIsGone, Gate, CreateProject, CreateRun, RestoreProject, Operations,
         DeleteProject, RemoveProject, Day, DeleteRun, RemoveRun, ClearCancel, Reopen, Start,
         JobBegins, JobCancels, JobEnds, Works
<1>7. ASSUME NEW d \in Callers, NEW r \in Runs, RestoreRun(d, r), d # c
      PROVE  call'[c] = call[c]
  BY <1>7 DEF RestoreRun, Calls, TypeOK
<1>8. ASSUME NEW d \in Callers, NEW r \in Runs, RestoreRun(d, r), d = c
      PROVE  LET q == call'[c].run
             IN /\ q \in Runs
                /\ run'[q].state # "none"
                /\ run'[q].state # "gone" => run'[q].of = call'[c].on
  <2>1. call'[c].run = r /\ Known(r) /\ UNCHANGED run /\ call'[c].on = run[r].of
    BY <1>2, <1>8
  <2> QED
    BY <2>1 DEF Known
<1> QED
  BY <1>1, <1>3, <1>4, <1>5, <1>6, <1>7, <1>8
-----------------------------------------------------------------------------
(* The cancel of what is deleted.                                           *)

\* What is asked of one run.
Told(r) ==
    /\ run[r].deleted /\ run[r].state \in Open => run[r].cancel
    /\ r \in Runs \ late /\ run[r].of # NoOne /\ project[run[r].of] = "deleted"
          /\ run[r].state \in Open => run[r].cancel

LEMMA ToldIsEnough == (DeletedRunsAreCancelled /\ DeletedIsCancelled) <=> \A r \in Runs : Told(r)
BY DEF DeletedRunsAreCancelled, DeletedIsCancelled, Told

\* A run that is not deleted, of a project that is not either, need not be.
LEMMA LiveTold ==
    ASSUME NEW r \in Runs, NEW p, run'[r].of = p, project'[p] # "deleted", ~run'[r].deleted
    PROVE  Told(r)'
BY DEF Told

\* Nor need one that is not open.
LEMMA ClosedTold ==
    ASSUME NEW r \in Runs, run'[r].state \notin Open
    PROVE  Told(r)'
BY DEF Told

\* The calls that commit.
LEMMA CommitTold ==
    ASSUME TypeOK, RestoresKnowTheirRun, NEW c \in Callers, CommitStep(c),
           NEW r \in Runs, Told(r)
    PROVE  Told(r)'
<1>1. CASE ProjectCreated(c)
  <2>1. \A p \in Projects : project'[p] = project[p] \/ project'[p] = "live"
    BY <1>1 DEF ProjectCreated, TypeOK
  <2>2. run[r].of # NoOne => run[r].of \in Projects
    BY DEF TypeOK, Row
  <2> QED
    BY <1>1, <2>1, <2>2 DEF ProjectCreated, Told
<1>2. CASE RunCreated(c)
  <2>1. PICK s \in Runs :
            /\ run' = [run EXCEPT ![s] = [NoRun EXCEPT !.of = call[c].on, !.state = "waiting"]]
            /\ late' = IF project[call[c].on] = "deleted" THEN late \cup {s} ELSE late
    BY <1>2 DEF RunCreated
  <2>2. project' = project /\ late \subseteq late'
    BY <1>2, <2>1 DEF RunCreated
  <2>3. CASE r = s
    BY <2>1, <2>2, <2>3 DEF Told, NoRun, TypeOK
  <2>4. CASE r # s
    BY <2>1, <2>2, <2>4 DEF Told, TypeOK
  <2> QED
    BY <2>3, <2>4
<1>3. CASE ProjectRestored(c)
  <2> DEFINE p == call[c].on
  <2>1. run[r].of # NoOne => run[r].of \in Projects
    BY DEF TypeOK, Row
  <2>2. p \in Projects => project'[p] = "live"
    BY <1>3 DEF ProjectRestored, TypeOK
  <2>3. \A q \in Projects : q # p => project'[q] = project[q]
    BY <1>3 DEF ProjectRestored, TypeOK
  <2>4. CASE r \in Visible(p)
    <3>1. run'[r] = Cleared(r)
      BY <1>3, <2>4 DEF ProjectRestored
    <3>2. run'[r].of = p /\ ~run'[r].deleted
      BY <2>4, <3>1 DEF Visible, Rows, Cleared, TypeOK, Row
    <3> QED
      BY <2>1, <2>2, <3>2, <2>4 DEF Told, Visible, Rows
  <2>5. CASE r \notin Visible(p)
    <3>1. run'[r] = run[r] /\ late' = late \ Rows(p)
      BY <1>3, <2>5 DEF ProjectRestored
    <3>2. CASE run[r].of = p /\ run[r].of # NoOne
      BY <2>1, <2>2, <3>1, <3>2 DEF Told
    <3>3. CASE run[r].of # p \/ run[r].of = NoOne
      <4>1. r \in late => r \in late' \/ run[r].of = NoOne
        BY <3>1, <3>3 DEF Rows
      <4> QED
        BY <2>1, <2>3, <3>1, <3>3, <4>1 DEF Told
    <3> QED
      BY <3>2, <3>3
  <2> QED
    BY <2>4, <2>5
<1>4. CASE RunRestored(c)
  <2>1. /\ call[c].run \in Runs
        /\ run[call[c].run].of = call[c].on
    BY <1>4 DEF RunRestored, Commits, RestoresKnowTheirRun
  <2>2. project' = project /\ late \subseteq late'
    BY <1>4 DEF RunRestored
  <2>3. CASE r = call[c].run
    <3>1. run'[r] = [Cleared(r) EXCEPT !.deleted = FALSE]
      BY <1>4, <2>1, <2>3 DEF RunRestored, TypeOK
    <3>2. run'[r].of = call[c].on /\ ~run'[r].deleted
      BY <2>1, <2>3, <3>1 DEF Cleared, TypeOK, Row
    <3>3. project[call[c].on] = "deleted" => r \in late'
      BY <1>4, <2>3 DEF RunRestored
    <3> QED
      BY <2>2, <3>2, <3>3 DEF Told
  <2>4. CASE r # call[c].run
    <3>1. run'[r] = run[r]
      BY <1>4, <2>4 DEF RunRestored, TypeOK
    <3> QED
      BY <2>2, <3>1 DEF Told
  <2> QED
    BY <2>3, <2>4
<1>5. CASE RowIsGone(c)
  BY <1>5 DEF RowIsGone, Told
<1> QED
  BY <1>1, <1>2, <1>3, <1>4, <1>5 DEF CommitStep

\* The endpoints on a project.
LEMMA ProjectTold ==
    ASSUME TypeOK, NEW p \in Projects, DeleteProject(p) \/ RemoveProject(p) \/ Day(p),
           NEW r \in Runs, Told(r)
    PROVE  Told(r)'
<1>1. run[r].of # NoOne => run[r].of \in Projects
  BY DEF TypeOK, Row
<1>2. CASE DeleteProject(p)
  <2>1. \A q \in Projects : q # p => project'[q] = project[q]
    BY <1>2 DEF DeleteProject, TypeOK
  <2>2. CASE r \in Visible(p) /\ run[r].state # "done"
    <3>1. run'[r].cancel
      BY <1>2, <2>2 DEF DeleteProject, TypeOK, Row
    <3> QED
      BY <3>1 DEF Told
  <2>3. CASE ~(r \in Visible(p) /\ run[r].state # "done")
    <3>1. run'[r] = run[r] /\ late' = late
      BY <1>2, <2>3 DEF DeleteProject
    <3>2. CASE run[r].of = p
      BY <2>3, <3>1, <3>2 DEF Told, Visible, Rows, Open
    <3>3. CASE run[r].of # p
      BY <1>1, <2>1, <3>1, <3>3 DEF Told
    <3> QED
      BY <3>2, <3>3
  <2> QED
    BY <2>2, <2>3
<1>3. CASE RemoveProject(p)
  <2>1. \A q \in Projects : project'[q] = "deleted" => project[q] = "deleted"
    BY <1>3 DEF RemoveProject, TypeOK
  <2>2. CASE r \in Rows(p)
    BY <1>3, <2>2, ClosedTold DEF RemoveProject, NoRun, Open
  <2>3. CASE r \notin Rows(p)
    BY <1>1, <1>3, <2>1, <2>3 DEF RemoveProject, Told
  <2> QED
    BY <2>2, <2>3
<1>4. CASE Day(p)
  BY <1>4 DEF Day, Told
<1> QED
  BY <1>2, <1>3, <1>4

\* The endpoints on a run, and its jobs.
LEMMA RunTold ==
    ASSUME TypeOK, NEW s \in Runs,
           \/ DeleteRun(s) \/ RemoveRun(s) \/ ClearCancel(s) \/ Reopen(s)
           \/ Start(s) \/ JobBegins(s) \/ JobCancels(s) \/ JobEnds(s),
           NEW r \in Runs, Told(r)
    PROVE  Told(r)'
<1>1. UNCHANGED <<project, late>>
  BY DEF DeleteRun, RemoveRun, ClearCancel, Reopen, Start, JobBegins, JobCancels, JobEnds, Works
<1>2. CASE r # s
  <2>1. run'[r] = run[r]
    BY <1>2 DEF DeleteRun, RemoveRun, ClearCancel, Reopen, Start, JobBegins, JobCancels,
                JobEnds, Works, TypeOK
  <2> QED
    BY <1>1, <2>1 DEF Told
<1>3. CASE r = s
  <2>1. run[r] \in Row
    BY DEF TypeOK
  <2>2. CASE DeleteRun(s)
    <3>1. PICK b : /\ run' = [run EXCEPT ![s] = [run[s] EXCEPT !.deleted = TRUE, !.cancel = b]]
                   /\ run[s].state \in Open => b
      BY <2>2 DEF DeleteRun
    <3>2. run'[r].state = run[r].state /\ (run[r].state \in Open => run'[r].cancel)
      BY <1>3, <2>1, <3>1 DEF TypeOK, Row
    <3> QED
      BY <3>2 DEF Told
  <2>3. CASE RemoveRun(s)
    <3>1. run'[r].state = "gone"
      BY <1>3, <2>3 DEF RemoveRun, NoRun, TypeOK
    <3> QED
      BY <3>1, ClosedTold DEF Open
  <2>4. CASE ClearCancel(s) \/ Reopen(s)
    <3>1. run'[r].of = run[r].of /\ run'[r].deleted = run[r].deleted
      <4>1. CASE ClearCancel(s)
        BY <1>3, <2>1, <4>1 DEF ClearCancel, TypeOK, Row
      <4>2. CASE Reopen(s)
        BY <1>3, <2>1, <4>2 DEF Reopen, TypeOK, Row
      <4> QED
        BY <2>4, <4>1, <4>2
    <3>2. project[run[r].of] = "live" /\ ~run[r].deleted
      BY <1>3, <2>4 DEF ClearCancel, Reopen, Mutable
    <3> QED
      BY <1>1, <3>1, <3>2, LiveTold
  <2>5. CASE Start(s)
    <3>1. /\ run'[r].of = run[r].of /\ run'[r].deleted = run[r].deleted
          /\ run'[r].cancel = run[r].cancel /\ run'[r].state = run[r].state
      BY <1>3, <2>1, <2>5 DEF Start, TypeOK, Row
    <3> QED
      BY <1>1, <3>1 DEF Told
  <2>6. CASE JobBegins(s) \/ JobCancels(s) \/ JobEnds(s)
    <3>1. PICK q \in Open \cup LIMIT_TERMINAL_STATES, j \in {"none", "queued", "working"} :
              /\ run[r].state \in Open
              /\ run' = [run EXCEPT ![s] = [run[s] EXCEPT !.state = q, !.job = j]]
      BY <1>3, <2>6 DEF JobBegins, JobCancels, JobEnds, Works, At, Open, LIMIT_TERMINAL_STATES
    <3>2. /\ run'[r].of = run[r].of /\ run'[r].deleted = run[r].deleted
          /\ run'[r].cancel = run[r].cancel
      BY <1>3, <2>1, <3>1 DEF TypeOK, Row
    <3> QED
      BY <1>1, <3>1, <3>2 DEF Told
  <2> QED
    BY <2>2, <2>3, <2>4, <2>5, <2>6
<1> QED
  BY <1>2, <1>3
-----------------------------------------------------------------------------
(* Theorems.                                                                *)

LEMMA InitInvariant == Init => Invariant
<1> SUFFICES ASSUME Init PROVE Invariant
  OBVIOUS
<1>1. DeletedRunsAreCancelled /\ DeletedIsCancelled
  BY DEF Init, DeletedRunsAreCancelled, DeletedIsCancelled, NoRun
<1>2. RestoresKnowTheirRun
  BY DEF Init, RestoresKnowTheirRun, Free
<1> QED
  BY <1>1, <1>2, InitTypeOK DEF Invariant

LEMMA NextInvariant == Invariant /\ [Next]_vars => Invariant'
<1> SUFFICES ASSUME Invariant, [Next]_vars PROVE Invariant'
  OBVIOUS
<1>1. TypeOK' /\ RestoresKnowTheirRun'
  BY NextTypes, NextRestores DEF Invariant
<1>2. \A r \in Runs : Told(r)
  BY ToldIsEnough DEF Invariant
<1>3. ASSUME NEW r \in Runs PROVE Told(r)'
  <2>1. ASSUME UNCHANGED <<project, run, late>> PROVE Told(r)'
    BY <1>2, <2>1 DEF Told
  <2>2. ASSUME NEW c \in Callers, CommitStep(c) PROVE Told(r)'
    BY <1>2, <2>2, CommitTold DEF Invariant
  <2>3. ASSUME NEW p \in Projects, DeleteProject(p) \/ RemoveProject(p) \/ Day(p)
        PROVE  Told(r)'
    BY <1>2, <2>3, ProjectTold DEF Invariant
  <2>4. ASSUME NEW s \in Runs,
               \/ DeleteRun(s) \/ RemoveRun(s) \/ ClearCancel(s) \/ Reopen(s)
               \/ Start(s) \/ JobBegins(s) \/ JobCancels(s) \/ JobEnds(s)
        PROVE  Told(r)'
    BY <1>2, <2>4, RunTold DEF Invariant
  <2>5. \/ \E c \in Callers : CommitStep(c)
        \/ \E p \in Projects : DeleteProject(p) \/ RemoveProject(p) \/ Day(p)
        \/ \E s \in Runs : \/ DeleteRun(s) \/ RemoveRun(s) \/ ClearCancel(s) \/ Reopen(s)
                           \/ Start(s) \/ JobBegins(s) \/ JobCancels(s) \/ JobEnds(s)
        \/ UNCHANGED <<project, run, late>>
    BY DEF Next, vars, Gate, CreateProject, CreateRun, RestoreProject, RestoreRun, Calls
  <2> QED
    BY <2>1, <2>2, <2>3, <2>4, <2>5
<1>4. (DeletedRunsAreCancelled /\ DeletedIsCancelled)'
  BY <1>3 DEF DeletedRunsAreCancelled, DeletedIsCancelled, Told
<1> QED
  BY <1>1, <1>4 DEF Invariant

LEMMA Inductive == Spec => []Invariant
BY InitInvariant, NextInvariant, PTL DEF Spec

\* Every variable keeps its type (main.py).
THEOREM EssaysTypes == Spec => []TypeOK
<1>1. Invariant => TypeOK
  BY DEF Invariant
<1> QED
  BY <1>1, Inductive, PTL

\* An unfinished run of a deleted project has the cancel, however the deletions and
\* restores of the project and of its runs, and the jobs of the runs, follow one
\* another (delete_project, delete_run, restore_run, clear_run_cancel_intent).
THEOREM DeletedIsAlwaysCancelled == Spec => []DeletedIsCancelled
<1>1. Invariant => DeletedIsCancelled
  BY DEF Invariant
<1> QED
  BY <1>1, Inductive, PTL
-----------------------------------------------------------------------------
(* The limit: the inductive invariant.                                      *)

\* A row that is not yet used belongs to no project.
UnusedRows == \A r \in Runs : run[r].state = "none" => run[r].of = NoOne

\* A call that has counted holds the lock, and a place is free.
CountedHoldPlaces ==
    \A c \in Callers : call[c].pc = "commit" /\ call[c].counted =>
        user = c /\ Cardinality(ActiveEssays) < Limit + slips

LimitInvariant ==
    /\ Invariant
    /\ UnusedRows
    /\ slips \in Nat
    /\ CountedHoldPlaces
    /\ LimitHolds
-----------------------------------------------------------------------------
(* Which essays are active.                                                 *)

LEMMA ActiveIsFinite ==
    /\ IsFiniteSet(ActiveEssays) /\ Cardinality(ActiveEssays) \in Nat
    /\ IsFiniteSet(ActiveEssays') /\ Cardinality(ActiveEssays') \in Nat
    /\ IsFiniteSet(ActiveEssays' \ ActiveEssays)
    /\ Cardinality(ActiveEssays' \ ActiveEssays) \in Nat
<1>1. ActiveEssays \subseteq Projects /\ ActiveEssays' \subseteq Projects
  BY DEF ActiveEssays
<1>2. IsFiniteSet(ActiveEssays) /\ IsFiniteSet(ActiveEssays')
      /\ IsFiniteSet(ActiveEssays' \ ActiveEssays)
  BY <1>1, FS_Subset, EssaysAssumption
<1> QED
  BY <1>2, FS_CardinalityType

\* No step has more active essays than before and the new ones.
LEMMA ActiveGrows ==
    Cardinality(ActiveEssays') <= Cardinality(ActiveEssays)
                                  + Cardinality(ActiveEssays' \ ActiveEssays)
<1> DEFINE A == ActiveEssays
           B == ActiveEssays' \ ActiveEssays
<1>1. IsFiniteSet(A) /\ IsFiniteSet(B) /\ A \cap B = {}
  BY ActiveIsFinite
<1>2. /\ IsFiniteSet(A \cup B)
      /\ Cardinality(A \cup B) = Cardinality(A) + Cardinality(B) - Cardinality(A \cap B)
  BY <1>1, FS_Union
<1>3. Cardinality(A \cap B) = 0
  BY <1>1, FS_EmptySet
<1>4. Cardinality(ActiveEssays') <= Cardinality(A \cup B)
  BY <1>2, FS_Subset
<1> QED
  BY <1>2, <1>3, <1>4, ActiveIsFinite

\* Whether an essay is active depends on its own rows.
LEMMA OwnRows ==
    ASSUME NEW p \in Projects, project'[p] = project[p], p \in old <=> p \in old',
           \A r \in Runs : r \in Rows(p) \/ r \in Rows(p)' =>
               /\ run'[r].of = run[r].of /\ run'[r].state = run[r].state
               /\ run'[r].deleted = run[r].deleted
    PROVE  p \in ActiveEssays' <=> p \in ActiveEssays
<1>1. Rows(p)' = Rows(p) /\ Visible(p)' = Visible(p)
  BY DEF Rows, Visible
<1>2. LatestIsOpen(Visible(p))' <=> LatestIsOpen(Visible(p))
  <2>1. \A r \in Visible(p) : run'[r].state = run[r].state
    <3>1. \A r \in Visible(p) : r \in Runs /\ r \in Rows(p)
      BY DEF Visible, Rows
    <3> QED
      BY <3>1
  <2> QED
    BY <1>1, <2>1 DEF LatestIsOpen
<1> QED
  BY <1>1, <1>2 DEF ActiveEssays

\* A step that says what it has added without a count.
LEMMA SlipKeeps ==
    ASSUME LimitInvariant, Slip(FALSE)
    PROVE  /\ slips' \in Nat
           /\ LimitHolds'
           /\ Cardinality(ActiveEssays) < Limit + slips
                  => Cardinality(ActiveEssays') < Limit + slips'
<1>1. slips' = slips + Cardinality(ActiveEssays' \ ActiveEssays)
  BY DEF Slip
<1> QED
  BY <1>1, ActiveGrows, ActiveIsFinite, EssaysAssumption DEF LimitInvariant, LimitHolds

\* A step that changes nothing an essay is counted by, or makes it older.
LEMMA NothingActivated ==
    ASSUME LimitInvariant, UNCHANGED slips,
           \A p \in Projects : p \in ActiveEssays' => p \in ActiveEssays
    PROVE  /\ slips' \in Nat
           /\ LimitHolds'
           /\ Cardinality(ActiveEssays') <= Cardinality(ActiveEssays)
<1>1. ActiveEssays' \subseteq ActiveEssays
  BY DEF ActiveEssays
<1>2. Cardinality(ActiveEssays') <= Cardinality(ActiveEssays)
  BY <1>1, FS_Subset, ActiveIsFinite
<1> QED
  BY <1>2, ActiveIsFinite, EssaysAssumption DEF LimitInvariant, LimitHolds

\* A step that activates one essay.
LEMMA OneActivated ==
    ASSUME LimitInvariant, NEW q, Slip(TRUE),
           \A p \in Projects : p # q => (p \in ActiveEssays' => p \in ActiveEssays)
    PROVE  /\ slips' = slips
           /\ Cardinality(ActiveEssays') <= Cardinality(ActiveEssays) + 1
<1>1. slips' = slips
  BY DEF Slip, LimitInvariant
<1>2. ActiveEssays' \subseteq ActiveEssays \cup {q}
  BY DEF ActiveEssays
<1>3. /\ IsFiniteSet(ActiveEssays \cup {q})
      /\ Cardinality(ActiveEssays \cup {q}) \in Nat
      /\ Cardinality(ActiveEssays \cup {q}) <= Cardinality(ActiveEssays) + 1
  <2>1. /\ IsFiniteSet(ActiveEssays \cup {q})
        /\ Cardinality(ActiveEssays \cup {q}) = IF q \in ActiveEssays THEN Cardinality(ActiveEssays)
                                                ELSE Cardinality(ActiveEssays) + 1
    BY FS_AddElement, ActiveIsFinite
  <2> QED
    BY <2>1, ActiveIsFinite
<1>4. Cardinality(ActiveEssays') <= Cardinality(ActiveEssays \cup {q})
  BY <1>2, <1>3, FS_Subset
<1> QED
  BY <1>1, <1>3, <1>4, ActiveIsFinite
-----------------------------------------------------------------------------
(* Rows.                                                                    *)

LEMMA NextUnusedRows == LimitInvariant /\ [Next]_vars => UnusedRows'
<1> SUFFICES ASSUME LimitInvariant, [Next]_vars, NEW r \in Runs, run'[r].state = "none"
             PROVE  run'[r].of = NoOne
  BY DEF UnusedRows
<1>1. run[r].state = "none" /\ run'[r].of = run[r].of
  BY RunsKeepTheirProject DEF LimitInvariant, Invariant
<1> QED
  BY <1>1 DEF LimitInvariant, UnusedRows
-----------------------------------------------------------------------------
(* The calls that commit.                                                   *)

\* A call on one project activates no other.
LEMMA CommitActivatesOne ==
    ASSUME LimitInvariant, NEW c \in Callers,
           ProjectCreated(c) \/ RunCreated(c) \/ ProjectRestored(c) \/ RunRestored(c),
           NEW p \in Projects, p # call[c].on
    PROVE  p \in ActiveEssays' <=> p \in ActiveEssays
<1> DEFINE Kept == \A r \in Runs : r \in Rows(p) \/ r \in Rows(p)' =>
                       /\ run'[r].of = run[r].of /\ run'[r].state = run[r].state
                       /\ run'[r].deleted = run[r].deleted
<1>1. UNCHANGED old
  BY DEF ProjectCreated, RunCreated, ProjectRestored, RunRestored
<1>2. project'[p] = project[p]
  BY DEF ProjectCreated, RunCreated, ProjectRestored, RunRestored, LimitInvariant, Invariant,
         TypeOK
<1>3. Kept
  <2>1. CASE ProjectCreated(c)
    BY <2>1 DEF ProjectCreated
  <2>2. CASE RunCreated(c)
    <3>1. PICK s \in Runs :
              /\ run[s].of = NoOne
              /\ run' = [run EXCEPT ![s] = [NoRun EXCEPT !.of = call[c].on, !.state = "waiting"]]
      BY <2>2 DEF RunCreated, NextRow, LimitInvariant, UnusedRows
    <3>2. s \notin Rows(p) /\ s \notin Rows(p)'
      BY <3>1, EssaysAssumption DEF Rows, NoRun, LimitInvariant, Invariant, TypeOK
    <3>3. \A r \in Runs : r # s => run'[r] = run[r]
      BY <3>1 DEF LimitInvariant, Invariant, TypeOK
    <3> QED
      BY <3>2, <3>3
  <2>3. CASE ProjectRestored(c)
    <3>1. \A r \in Runs : /\ Cleared(r).of = run[r].of /\ Cleared(r).state = run[r].state
                          /\ Cleared(r).deleted = run[r].deleted
      BY DEF Cleared, LimitInvariant, Invariant, TypeOK, Row
    <3>2. \A r \in Runs : run'[r] = run[r] \/ run'[r] = Cleared(r)
      BY <2>3 DEF ProjectRestored
    <3> QED
      BY <3>1, <3>2
  <2>4. CASE RunRestored(c)
    <3> DEFINE s == call[c].run
    <3>1. s \in Runs /\ run[s].of = call[c].on
      BY <2>4 DEF RunRestored, Commits, LimitInvariant, Invariant, RestoresKnowTheirRun
    <3>2. run' = [run EXCEPT ![s] = [Cleared(s) EXCEPT !.deleted = FALSE]]
      BY <2>4 DEF RunRestored
    <3>3. run'[s].of = call[c].on /\ \A r \in Runs : r # s => run'[r] = run[r]
      BY <3>1, <3>2 DEF Cleared, LimitInvariant, Invariant, TypeOK, Row
    <3>4. s \notin Rows(p) /\ s \notin Rows(p)'
      BY <3>1, <3>3 DEF Rows
    <3> QED
      BY <3>3, <3>4
  <2> QED
    BY <2>1, <2>2, <2>3, <2>4
<1> QED
  BY <1>1, <1>2, <1>3, OwnRows

LEMMA CommitLimit ==
    ASSUME LimitInvariant, NEW c \in Callers, CommitStep(c)
    PROVE  slips' \in Nat /\ CountedHoldPlaces' /\ LimitHolds'
<1>1. call'[c].pc = "idle" /\ (\A d \in Callers : d # c => call'[d] = call[d])
  BY DEF CommitStep, ProjectCreated, RunCreated, ProjectRestored, RunRestored, Committed,
         RowIsGone, Answer, Free, LimitInvariant, Invariant, TypeOK
<1>2. \A d \in Callers : d # c /\ user = d => user' = d
  BY DEF CommitStep, ProjectCreated, RunCreated, ProjectRestored, RunRestored, Committed,
         RowIsGone, Unlock
<1>3. call[c].pc = "commit" /\ call[c].counted \in BOOLEAN
  BY DEF CommitStep, ProjectCreated, RunCreated, ProjectRestored, RunRestored, Commits,
         RowIsGone, LimitInvariant, Invariant, TypeOK, Call
<1>4. CASE RowIsGone(c)
  <2>1. ActiveEssays' = ActiveEssays /\ slips' = slips
    BY <1>4 DEF RowIsGone, ActiveEssays, Rows, Visible, LatestIsOpen
  <2> QED
    BY <1>1, <1>2, <2>1 DEF LimitInvariant, CountedHoldPlaces, LimitHolds
<1>5. CASE ~RowIsGone(c) /\ ~call[c].counted
  <2>1. Slip(FALSE)
    BY <1>3, <1>5 DEF CommitStep, ProjectCreated, RunCreated, ProjectRestored, RunRestored,
                      Committed, Slip
  <2> QED
    BY <1>1, <1>2, <2>1, SlipKeeps DEF LimitInvariant, CountedHoldPlaces
<1>6. CASE ~RowIsGone(c) /\ call[c].counted
  <2>1. Slip(TRUE)
    BY <1>3, <1>6 DEF CommitStep, ProjectCreated, RunCreated, ProjectRestored, RunRestored,
                      Committed, Slip
  <2>2. /\ slips' = slips
        /\ Cardinality(ActiveEssays') <= Cardinality(ActiveEssays) + 1
    BY <1>6, <2>1, CommitActivatesOne, OneActivated DEF CommitStep
  <2>3. user = c /\ Cardinality(ActiveEssays) < Limit + slips
    BY <1>3, <1>6 DEF LimitInvariant, CountedHoldPlaces
  <2>4. LimitHolds'
    BY <2>2, <2>3, ActiveIsFinite, EssaysAssumption DEF LimitInvariant, LimitHolds
  <2>5. \A d \in Callers : ~(call'[d].pc = "commit" /\ call'[d].counted)
    BY <1>1, <2>3 DEF LimitInvariant, CountedHoldPlaces
  <2> QED
    BY <2>2, <2>4, <2>5 DEF LimitInvariant, CountedHoldPlaces
<1> QED
  BY <1>4, <1>5, <1>6
-----------------------------------------------------------------------------
(* The other steps.                                                         *)

\* The count itself: whoever passes it has the lock, and a place.
LEMMA GateLimit ==
    ASSUME LimitInvariant, NEW c \in Callers, Gate(c)
    PROVE  slips' \in Nat /\ CountedHoldPlaces' /\ LimitHolds'
<1>1. ActiveEssays' = ActiveEssays /\ slips' = slips
  BY DEF Gate, ActiveEssays, Rows, Visible, LatestIsOpen
<1>2. \A d \in Callers : ~(call[d].pc = "commit" /\ call[d].counted)
  BY EssaysAssumption DEF Gate, LimitInvariant, CountedHoldPlaces
<1>3. \A d \in Callers : d # c => call'[d] = call[d]
  BY DEF Gate, Answer, LimitInvariant, Invariant, TypeOK
<1>4. call'[c].pc = "commit" /\ call'[c].counted =>
          user' = c /\ Cardinality(ActiveEssays) < Limit + slips
  <2>1. CASE NeedsSlot(c) /\ Cardinality(ActiveEssays) >= Limit
    BY <2>1 DEF Gate, Answer, Free, LimitInvariant, Invariant, TypeOK
  <2>2. CASE ~(NeedsSlot(c) /\ Cardinality(ActiveEssays) >= Limit)
    <3>1. user' = c /\ call'[c].counted = NeedsSlot(c)
      BY <2>2 DEF Gate, LimitInvariant, Invariant, TypeOK, Call
    <3>2. NeedsSlot(c) => Cardinality(ActiveEssays) < Limit + slips
      BY <2>2, ActiveIsFinite, EssaysAssumption DEF LimitInvariant
    <3> QED
      BY <3>1, <3>2
  <2> QED
    BY <2>1, <2>2
<1> QED
  BY <1>1, <1>2, <1>3, <1>4 DEF LimitInvariant, CountedHoldPlaces, LimitHolds

\* A call that begins has counted nothing.
LEMMA CallLimit ==
    ASSUME LimitInvariant, NEW c \in Callers, NEW op, NEW p, NEW r, NEW pc, Calls(c, op, p, r, pc)
    PROVE  slips' \in Nat /\ CountedHoldPlaces' /\ LimitHolds'
<1>1. ActiveEssays' = ActiveEssays /\ slips' = slips /\ user' = user
  BY DEF Calls, ActiveEssays, Rows, Visible, LatestIsOpen
<1>2. ~call'[c].counted /\ (\A d \in Callers : d # c => call'[d] = call[d])
  BY DEF Calls, Free, LimitInvariant, Invariant, TypeOK
<1> QED
  BY <1>1, <1>2 DEF LimitInvariant, CountedHoldPlaces, LimitHolds

\* A day, the start of a job, and a step of nobody.
LEMMA QuietLimit ==
    ASSUME LimitInvariant,
           \/ \E p \in Projects : Day(p)
           \/ \E r \in Runs : Start(r)
           \/ UNCHANGED vars
    PROVE  slips' \in Nat /\ CountedHoldPlaces' /\ LimitHolds'
<1>1. UNCHANGED <<slips, call, user, project>> /\ old \subseteq old'
  BY DEF Day, Start, vars
<1>2. \A r \in Runs : /\ run'[r].of = run[r].of /\ run'[r].state = run[r].state
                      /\ run'[r].deleted = run[r].deleted
  BY DEF Day, Start, vars, LimitInvariant, Invariant, TypeOK, Row
<1>3. ASSUME NEW p \in Projects PROVE p \in ActiveEssays' => p \in ActiveEssays
  <2>1. Rows(p)' = Rows(p) /\ Visible(p)' = Visible(p)
    BY <1>2 DEF Rows, Visible
  <2>2. LatestIsOpen(Visible(p))' <=> LatestIsOpen(Visible(p))
    <3>1. \A r \in Visible(p) : run'[r].state = run[r].state
      BY <1>2 DEF Visible, Rows
    <3> QED
      BY <2>1, <3>1 DEF LatestIsOpen
  <2> QED
    BY <1>1, <2>1, <2>2 DEF ActiveEssays
<1>4. slips' \in Nat /\ LimitHolds' /\ Cardinality(ActiveEssays') <= Cardinality(ActiveEssays)
  BY <1>1, <1>3, NothingActivated
<1> QED
  BY <1>1, <1>4, ActiveIsFinite, EssaysAssumption DEF LimitInvariant, CountedHoldPlaces

\* What does not count says what it adds.
LEMMA UncountedLimit ==
    ASSUME LimitInvariant, Slip(FALSE), UNCHANGED <<call, user>>
    PROVE  slips' \in Nat /\ CountedHoldPlaces' /\ LimitHolds'
BY SlipKeeps DEF LimitInvariant, CountedHoldPlaces
-----------------------------------------------------------------------------
(* The theorem.                                                             *)

LEMMA InitLimit == Init => LimitInvariant
<1> SUFFICES ASSUME Init PROVE LimitInvariant
  OBVIOUS
<1>1. ActiveEssays = {}
  BY DEF Init, ActiveEssays
<1>2. UnusedRows /\ CountedHoldPlaces /\ slips \in Nat
  BY DEF Init, UnusedRows, CountedHoldPlaces, NoRun, Free
<1>3. LimitHolds
  BY <1>1, FS_EmptySet, EssaysAssumption DEF Init, LimitHolds
<1> QED
  BY <1>2, <1>3, InitInvariant DEF LimitInvariant

LEMMA NextLimit == LimitInvariant /\ [Next]_vars => LimitInvariant'
<1> SUFFICES ASSUME LimitInvariant, [Next]_vars PROVE LimitInvariant'
  OBVIOUS
<1> DEFINE Kept == slips' \in Nat /\ CountedHoldPlaces' /\ LimitHolds'
<1>1. Invariant' /\ UnusedRows'
  BY NextInvariant, NextUnusedRows DEF LimitInvariant
<1>2. ASSUME NEW c \in Callers, Gate(c) \/ CommitStep(c) PROVE Kept
  BY <1>2, GateLimit, CommitLimit
<1>3. ASSUME NEW c \in Callers, NEW p \in Projects,
             CreateProject(c, p) \/ CreateRun(c, p) \/ RestoreProject(c, p)
      PROVE  Kept
  BY <1>3, CallLimit DEF CreateProject, CreateRun, RestoreProject
<1>4. ASSUME NEW c \in Callers, NEW r \in Runs, RestoreRun(c, r) PROVE Kept
  <2>1. PICK pc : Calls(c, "restore_run", run[r].of, r, pc)
    BY <1>4 DEF RestoreRun
  <2> QED
    BY <2>1, CallLimit
<1>5. ASSUME NEW p \in Projects, DeleteProject(p) \/ RemoveProject(p) PROVE Kept
  BY <1>5, UncountedLimit DEF DeleteProject, RemoveProject
<1>6. ASSUME NEW r \in Runs,
             \/ DeleteRun(r) \/ RemoveRun(r) \/ ClearCancel(r) \/ Reopen(r)
             \/ JobBegins(r) \/ JobCancels(r) \/ JobEnds(r)
      PROVE  Kept
  BY <1>6, UncountedLimit
  DEF DeleteRun, RemoveRun, ClearCancel, Reopen, JobBegins, JobCancels, JobEnds, Works
<1>7. ASSUME \/ \E p \in Projects : Day(p)
             \/ \E r \in Runs : Start(r)
             \/ UNCHANGED vars
      PROVE  Kept
  BY <1>7, QuietLimit
<1>8. Kept
  BY <1>2, <1>3, <1>4, <1>5, <1>6, <1>7 DEF Next
<1> QED
  BY <1>1, <1>8 DEF LimitInvariant

\* However creations, restores and deletions overlap, a user has no more active essays
\* than the limit and those that came back without a count (_count_active_essays,
\* _lock_user_for_essay_limit).
THEOREM LimitAlwaysHolds == Spec => []LimitHolds
<1>1. LimitInvariant => LimitHolds
  BY DEF LimitInvariant
<1> QED
  BY <1>1, InitLimit, NextLimit, PTL DEF Spec
=============================================================================
