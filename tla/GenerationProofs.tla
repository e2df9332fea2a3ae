-------------------------- MODULE GenerationProofs --------------------------
(***************************************************************************)
(* The two other ways in which papers are made beside the deep mode: an    *)
(* express run, and the arms of the architecture experiment.               *)
(*                                                                         *)
(* An express run has one writer, and what it ships is whole, for any      *)
(* requests, tokens, usages, caps and budgets of faults.  OneWriter is not *)
(* inductive: a second job that is queued while the run is in              *)
(* EXPRESS_RUNNING would begin beside the first.  No such job can be       *)
(* there: a generation is under way from the move of its request until its *)
(* job ends, the run is in EXPRESS_RUNNING all that time, and the move is  *)
(* refused there.  What a writer has written so far is then still its own. *)
(*                                                                         *)
(* An experiment's state file tells the truth about its files, for any     *)
(* kernels, arm lists, costs, concurrency and budgets of faults.           *)
(* FlagsAreTrue alone is not inductive: an arm is written before it is     *)
(* flagged, the flag is first in the memory that all threads share, and a  *)
(* save of any thread writes it.  The invariant says the same of the       *)
(* memory, that a subprocess only writes an arm that is not flagged, what  *)
(* it has written at each of its phases, and that B stays as a critique of *)
(* it has found it.  That a report is whole needs that no two blinded      *)
(* manuscripts, of whichever builds and appends, share an identifier.      *)
(***************************************************************************)
EXTENDS ExpressRun, Experiment, FiniteSetTheorems, SequenceTheorems, WellFoundedInduction, TLAPS
-----------------------------------------------------------------------------
(* The inductive invariant.                                                 *)

\* A request that has claimed is the only one to queue its job, in the mode that
\* it has read.
RequestsHoldJobs ==
    \A r \in Requests : req[r].pc \in {"move", "enqueue"} =>
        /\ req[r].token \in Tokens
        /\ job[req[r].token].pc = "claimed"
        /\ job[req[r].token].kind = req[r].mode
        /\ \A s \in Requests :
               req[s].pc \in {"move", "enqueue"} /\ req[s].token = req[r].token => s = r

\* From the move of its request until it ends.
UnderWay(t) ==
    \/ \E r \in Requests : /\ req[r].pc = "enqueue"
                           /\ req[r].mode = "express"
                           /\ req[r].token = t
    \/ job[t].pc = "queued" /\ job[t].kind = "express"
    \/ job[t].pc \in Writing

\* One generation at a time, and the run says so.
OneGeneration ==
    /\ \A t \in Tokens : UnderWay(t) => state = "EXPRESS_RUNNING"
    /\ \A t, u \in Tokens : UnderWay(t) /\ UnderWay(u) => t = u

\* A writer finds what it has written, and its usage is within the cap once the
\* audit is in.
WritersOwnTheirFiles ==
    \A t \in Tokens :
        /\ job[t].pc \in {"manuscript", "audit", "publish", "ship"} => file["prompt"] = t
        /\ job[t].pc \in {"audit", "publish", "ship"} => file["manuscript"] = t
        /\ job[t].pc \in {"publish", "ship"} => file["audit"] = t /\ job[t].usage <= Cap
        /\ job[t].pc = "ship" => /\ \A a \in Artifacts : file[a] = t
                                 /\ spent = job[t].usage

Invariant ==
    /\ TypeOK
    /\ RequestsHoldJobs
    /\ OneGeneration
    /\ WritersOwnTheirFiles
    /\ ShippedIsWhole
-----------------------------------------------------------------------------
(* Types.                                                                   *)

LEMMA InitTypeOK == Init => TypeOK
<1> SUFFICES ASSUME Init PROVE TypeOK
  OBVIOUS
<1>1. Idle \in Request /\ Unused \in Job
  BY ExpressAssumption DEF Idle, Unused, Request, Job, Startable, Modes, Steps
<1>2. Faults \in [Interventions -> Nat] /\ FirstMode \in Modes
  BY ExpressAssumption
<1> QED
  BY <1>1, <1>2 DEF Init, TypeOK, States

\* A budget stays a budget.
LEMMA SpendType ==
    ASSUME TypeOK, NEW kind \in Interventions, Spend(kind)
    PROVE  budget' \in [Interventions -> Nat]
BY DEF TypeOK, Spend

\* What becomes of a job is a job.
LEMMA JobType ==
    ASSUME TypeOK, NEW t \in Tokens, NEW pc \in Steps, Goto(t, pc) \/ Ends(t, pc)
    PROVE  job' \in [Tokens -> Job]
BY DEF TypeOK, Goto, Ends, Unused, Modes, Job

\* So it is when the job fails.
LEMMA FailType ==
    ASSUME TypeOK, NEW t \in Tokens, Fail(t)
    PROVE  state' \in States /\ job' \in [Tokens -> Job]
BY JobType DEF Fail, TypeOK, States, Steps

\* A request that is answered is a request.
LEMMA AnswerType ==
    ASSUME TypeOK, NEW r \in Requests, Answer(r)
    PROVE  req' \in [Requests -> Request]
BY ExpressAssumption DEF TypeOK, Answer, Idle, Startable, Request

\* A lock that is released is a lock.
LEMMA LockType ==
    ASSUME TypeOK, NEW t, ReleaseLock(t) \/ Unlock
    PROVE  lock' \in Tokens \cup {NoToken} /\ aged' \in BOOLEAN
BY DEF TypeOK, ReleaseLock, Unlock

\* What a job writes is written by a job.
LEMMA PutType ==
    ASSUME TypeOK, NEW t \in Tokens, NEW artifacts, Put(artifacts, t)
    PROVE  file' \in [Artifacts -> Tokens \cup {NoToken}]
BY DEF TypeOK, Put

\* The steps of a request keep the types.
LEMMA RequestTypes ==
    ASSUME TypeOK, NEW r \in Requests,
           \/ StartRead(r) \/ SwitchRead(r) \/ RequestStep(r) \/ EnqueueFails(r) \/ Crash(r)
    PROVE  TypeOK'
<1>1. CASE StartRead(r)
  BY <1>1, ExpressAssumption DEF TypeOK, StartRead, row, Idle, Request, Startable
<1>2. CASE SwitchRead(r)
  <2>1. budget' \in [Interventions -> Nat]
    BY <1>2, SpendType DEF SwitchRead, Interventions
  <2>2. req' \in [Requests -> Request]
    <3>1. PICK m \in Modes : req' = [req EXCEPT ![r] = [Idle EXCEPT !.pc = "switch", !.mode = m]]
      BY <1>2 DEF SwitchRead
    <3>2. [Idle EXCEPT !.pc = "switch", !.mode = m] \in Request
      BY ExpressAssumption DEF Idle, Request, Startable
    <3> QED
      BY <3>1, <3>2 DEF TypeOK
  <2> QED
    BY <1>2, <2>1, <2>2 DEF TypeOK, SwitchRead, row
<1>3. ASSUME NEW t \in Tokens, Claim(r, t) PROVE TypeOK'
  <2>1. req' \in [Requests -> Request]
    <3>1. PICK pc \in {"move", "enqueue"} :
              req' = [req EXCEPT ![r].pc = pc, ![r].token = t]
      BY <1>3 DEF Claim
    <3> QED
      BY <3>1 DEF TypeOK, Request
  <2>2. job' \in [Tokens -> Job]
    <3>1. req[r].mode \in Modes
      BY DEF TypeOK, Request
    <3>2. job' = [job EXCEPT ![t].pc = "claimed", ![t].kind = req[r].mode]
      BY <1>3 DEF Claim
    <3> QED
      BY <3>1, <3>2 DEF TypeOK, Job, Steps
  <2> QED
    BY <1>3, <2>1, <2>2 DEF TypeOK, Claim
<1>4. CASE Conflict(r)
  BY <1>4, AnswerType DEF TypeOK, Conflict, row
<1>5. CASE Move(r)
  <2>1. CASE state \in Startable
    BY <1>5, <2>1 DEF TypeOK, Move, Request, States
  <2>2. CASE state \notin Startable
    <3>1. req[r].token \in Tokens => job' \in [Tokens -> Job]
      BY <1>5, <2>2, JobType DEF Move, Steps
    <3>2. req[r].token \notin Tokens => job' = job
      BY <1>5, <2>2 DEF Move, Ends, TypeOK
    <3> QED
      BY <1>5, <2>2, <3>1, <3>2, AnswerType DEF TypeOK, Move
  <2> QED
    BY <2>1, <2>2
<1>6. CASE Enqueue(r)
  <2>1. req[r].token \in Tokens => job' \in [Tokens -> Job]
    BY <1>6, JobType DEF Enqueue, Steps
  <2>2. req[r].token \notin Tokens => job' = job
    BY <1>6 DEF Enqueue, Goto, TypeOK
  <2>3. req' \in [Requests -> Request]
    BY <1>6 DEF Enqueue, TypeOK, Request
  <2> QED
    BY <1>6, <2>1, <2>2, <2>3 DEF TypeOK, Enqueue, row
<1>7. CASE Switch(r)
  BY <1>7, AnswerType DEF TypeOK, Switch, Request
<1>8. CASE EnqueueFails(r)
  <2>1. req[r].token \in Tokens => job' \in [Tokens -> Job]
    BY <1>8, JobType DEF EnqueueFails, Steps
  <2>2. req[r].token \notin Tokens => job' = job
    BY <1>8 DEF EnqueueFails, Ends, TypeOK
  <2>3. lock' \in Tokens \cup {NoToken} /\ aged' \in BOOLEAN
    BY <1>8, LockType DEF EnqueueFails
  <2>4. budget' \in [Interventions -> Nat]
    BY <1>8, SpendType DEF EnqueueFails, Interventions
  <2>5. state' \in States
    BY <1>8 DEF EnqueueFails, TypeOK, Request, Startable, States
  <2> QED
    BY <1>8, <2>1, <2>2, <2>3, <2>4, <2>5, AnswerType DEF TypeOK, EnqueueFails
<1>9. CASE Crash(r)
  <2>1. req[r].token \in Tokens => job' \in [Tokens -> Job]
    BY <1>9, JobType DEF Crash, Steps
  <2>2. req[r].token \notin Tokens => job' = job
    BY <1>9 DEF Crash, Ends, TypeOK
  <2>3. budget' \in [Interventions -> Nat]
    BY <1>9, SpendType DEF Crash, Interventions
  <2> QED
    BY <1>9, <2>1, <2>2, <2>3, AnswerType DEF TypeOK, Crash, row
<1> QED
  BY <1>1, <1>2, <1>3, <1>4, <1>5, <1>6, <1>7, <1>8, <1>9 DEF RequestStep

\* The steps of a job keep the types.
LEMMA JobTypes ==
    ASSUME TypeOK, NEW t \in Tokens, JobStep(t) \/ Exception(t) \/ Die(t)
    PROVE  TypeOK'
<1> USE DEF Steps, Writing
<1>1. CASE JobBegin(t)
  BY <1>1, JobType DEF TypeOK, JobBegin, States
<1>2. CASE Prompt(t)
  BY <1>2, JobType, FailType, PutType DEF TypeOK, Prompt
<1>3. CASE TransportError(t)
  <2>1. job' \in [Tokens -> Job] /\ state' \in States
    <3>1. CASE job[t].tries = 0
      BY <1>3, <3>1 DEF TypeOK, TransportError, Job
    <3>2. CASE job[t].tries # 0
      BY <1>3, <3>2, FailType DEF TransportError
    <3> QED
      BY <3>1, <3>2
  <2> QED
    BY <1>3, <2>1 DEF TypeOK, TransportError
<1>4. CASE Manuscript(t)
  <2>1. job' \in [Tokens -> Job] /\ state' \in States
    <3>1. CASE Fail(t)
      BY <3>1, FailType
    <3>2. CASE ~Fail(t)
      <4>1. UNCHANGED state
        BY <1>4, <3>2 DEF Manuscript
      <4>2. PICK usage \in Usages :
                job' = [job EXCEPT ![t].pc = "audit", ![t].tries = 0, ![t].usage = usage]
        BY <1>4, <3>2 DEF Manuscript
      <4>3. usage \in Nat
        BY ExpressAssumption
      <4>4. [job[t] EXCEPT !.pc = "audit", !.tries = 0, !.usage = usage] \in Job
        <5>1. job[t] \in [pc : Steps, kind : Modes, tries : 0..1, usage : Nat]
          BY DEF TypeOK, Job
        <5>2. "audit" \in Steps /\ 0 \in 0..1
          OBVIOUS
        <5> HIDE DEF Steps
        <5> QED
          BY <4>3, <5>1, <5>2 DEF Job
      <4>5. job' = [job EXCEPT ![t] = [job[t] EXCEPT !.pc = "audit", !.tries = 0,
                                                     !.usage = usage]]
        BY <4>2 DEF TypeOK, Job
      <4> QED
        BY <4>1, <4>4, <4>5 DEF TypeOK
    <3> QED
      BY <3>1, <3>2
  <2>2. file' \in [Artifacts -> Tokens \cup {NoToken}]
    BY <1>4, PutType DEF Manuscript, TypeOK
  <2> QED
    BY <1>4, <2>1, <2>2 DEF TypeOK, Manuscript
<1>5. CASE Audit(t)
  <2>1. job' \in [Tokens -> Job] /\ state' \in States
    <3>1. CASE Fail(t)
      BY <3>1, FailType
    <3>2. CASE ~Fail(t)
      <4>1. UNCHANGED state
        BY <1>5, <3>2 DEF Audit
      <4>2. PICK usage \in Usages :
                job' = [job EXCEPT ![t].pc = "publish", ![t].usage = @ + usage]
        BY <1>5, <3>2 DEF Audit
      <4>3. job[t].usage + usage \in Nat
        BY ExpressAssumption DEF TypeOK, Job
      <4> QED
        BY <4>1, <4>2, <4>3 DEF TypeOK, Job
    <3> QED
      BY <3>1, <3>2
  <2>2. file' \in [Artifacts -> Tokens \cup {NoToken}]
    BY <1>5, PutType DEF Audit, TypeOK
  <2> QED
    BY <1>5, <2>1, <2>2 DEF TypeOK, Audit
<1>6. CASE Publish(t)
  <2>1. job[t].usage \in Nat
    BY DEF TypeOK, Job
  <2> QED
    BY <1>6, <2>1, JobType, PutType DEF TypeOK, Publish, row
<1>7. CASE Ship(t)
  BY <1>7, JobType DEF TypeOK, Ship, States
<1>8. CASE Leave(t)
  BY <1>8, JobType, LockType DEF TypeOK, Leave
<1>9. CASE DeepJob(t)
  BY <1>9, JobType DEF TypeOK, DeepJob, States
<1>10. CASE Exception(t)
  BY <1>10, JobType, SpendType DEF TypeOK, Exception, row, Interventions
<1>11. CASE Die(t)
  BY <1>11, JobType, SpendType DEF TypeOK, Die, row, Interventions
<1> QED
  BY <1>1, <1>2, <1>3, <1>4, <1>5, <1>6, <1>7, <1>8, <1>9, <1>10, <1>11 DEF JobStep

\* So do the reaper, the other endpoints, and a step of nobody.
LEMMA OtherTypes ==
    ASSUME TypeOK,
           \/ Age \/ Reap \/ ForceClear \/ Delete \/ Restore
           \/ UNCHANGED vars
    PROVE  TypeOK'
<1>1. CASE Age
  BY <1>1 DEF TypeOK, Age
<1>2. CASE Reap
  BY <1>2, LockType DEF TypeOK, Reap
<1>3. CASE ForceClear
  BY <1>3, LockType, SpendType DEF TypeOK, ForceClear, Interventions
<1>4. CASE Delete
  BY <1>4, SpendType DEF TypeOK, Delete, Interventions
<1>5. CASE Restore
  BY <1>5 DEF TypeOK, Restore
<1>6. CASE UNCHANGED vars
  BY <1>6 DEF TypeOK, vars, row
<1> QED
  BY <1>1, <1>2, <1>3, <1>4, <1>5, <1>6

\* Every variable keeps its type, for any instance (ExpressRun.tla).
LEMMA NextTypes == TypeOK /\ [Next]_vars => TypeOK'
BY RequestTypes, JobTypes, OtherTypes DEF Next
-----------------------------------------------------------------------------
(* Who holds which job.                                                     *)

Ownership == TypeOK /\ RequestsHoldJobs /\ OneGeneration

LEMMA InitOwnership == Init => Ownership
<1> SUFFICES ASSUME Init PROVE Ownership
  OBVIOUS
<1>1. RequestsHoldJobs
  BY DEF Init, RequestsHoldJobs, Idle
<1>2. \A t \in Tokens : ~UnderWay(t)
  BY DEF Init, UnderWay, Idle, Unused, Writing
<1> QED
  BY <1>1, <1>2, InitTypeOK DEF Ownership, OneGeneration

\* A request that begins, or ends, takes nothing from the others.
LEMMA AnswerOwnership ==
    ASSUME Ownership, NEW r \in Requests, NEW q, q.pc \notin {"move", "enqueue"},
           req' = [req EXCEPT ![r] = q], UNCHANGED <<state, job>>
    PROVE  RequestsHoldJobs' /\ OneGeneration'
<1>1. \A s \in Requests : req'[s].pc \in {"move", "enqueue"} => req'[s] = req[s]
  BY DEF Ownership, TypeOK
<1>2. RequestsHoldJobs'
  BY <1>1 DEF Ownership, RequestsHoldJobs
<1>3. \A t \in Tokens : UnderWay(t)' => UnderWay(t)
  BY <1>1 DEF UnderWay
<1> QED
  BY <1>2, <1>3 DEF Ownership, OneGeneration

\* A job that is taken out of the hands of its request, which ends.
LEMMA GiveUpOwnership ==
    ASSUME Ownership, NEW r \in Requests, req[r].pc \in {"move", "enqueue"},
           NEW pc \in {"gone", "lost"}, Ends(req[r].token, pc), Answer(r),
           \/ UNCHANGED state
           \/ req[r].pc = "enqueue" /\ req[r].mode = "express"
    PROVE  RequestsHoldJobs' /\ OneGeneration'
<1>1. /\ req[r].token \in Tokens
      /\ \A s \in Requests : s # r /\ req[s].pc \in {"move", "enqueue"} =>
             req[s].token # req[r].token
  BY DEF Ownership, RequestsHoldJobs
<1>2. /\ \A s \in Requests : req'[s] = IF s = r THEN Idle ELSE req[s]
      /\ \A t \in Tokens : t # req[r].token => job'[t] = job[t]
      /\ job'[req[r].token].pc = pc
  BY <1>1 DEF Ownership, TypeOK, Answer, Ends, Unused, Job
<1>3. RequestsHoldJobs'
  BY <1>1, <1>2 DEF Ownership, RequestsHoldJobs, Idle
<1>4. \A t \in Tokens : UnderWay(t)' => UnderWay(t) /\ t # req[r].token
  BY <1>1, <1>2 DEF UnderWay, Idle, Writing
<1>5. OneGeneration'
  <2>1. CASE UNCHANGED state
    BY <1>4, <2>1 DEF Ownership, OneGeneration
  <2>2. CASE req[r].pc = "enqueue" /\ req[r].mode = "express"
    <3>1. UnderWay(req[r].token)
      BY <2>2 DEF UnderWay
    <3>2. \A t \in Tokens : ~UnderWay(t)'
      BY <1>1, <1>4, <3>1 DEF Ownership, OneGeneration
    <3> QED
      BY <3>2 DEF OneGeneration
  <2> QED
    BY <2>1, <2>2
<1> QED
  BY <1>3, <1>5

LEMMA RequestOwnership ==
    ASSUME Ownership, NEW r \in Requests,
           \/ StartRead(r) \/ SwitchRead(r) \/ RequestStep(r) \/ EnqueueFails(r) \/ Crash(r)
    PROVE  RequestsHoldJobs' /\ OneGeneration'
<1>1. CASE StartRead(r)
  <2>1. [Idle EXCEPT !.pc = "claim", !.from = state, !.mode = mode].pc = "claim"
    BY DEF Idle
  <2> QED
    BY <1>1, <2>1, AnswerOwnership DEF StartRead, row
<1>2. CASE SwitchRead(r)
  <2>1. PICK m \in Modes : req' = [req EXCEPT ![r] = [Idle EXCEPT !.pc = "switch", !.mode = m]]
    BY <1>2 DEF SwitchRead
  <2>2. [Idle EXCEPT !.pc = "switch", !.mode = m].pc = "switch"
    BY DEF Idle
  <2> QED
    BY <1>2, <2>1, <2>2, AnswerOwnership DEF SwitchRead, row
<1>3. CASE Conflict(r)
  BY <1>3, AnswerOwnership DEF Conflict, Answer, Idle, row
<1>4. CASE Switch(r)
  BY <1>4, AnswerOwnership DEF Switch, Answer, Idle
<1>5. ASSUME NEW t \in Tokens, Claim(r, t) PROVE RequestsHoldJobs' /\ OneGeneration'
  <2>1. PICK pc \in {"move", "enqueue"} :
            /\ pc = "enqueue" => req[r].mode # "express"
            /\ req' = [req EXCEPT ![r].pc = pc, ![r].token = t]
    BY <1>5 DEF Claim
  <2>2. /\ \A s \in Requests : s # r => req'[s] = req[s]
        /\ req'[r].pc = pc /\ req'[r].token = t /\ req'[r].mode = req[r].mode
    BY <2>1 DEF Ownership, TypeOK, Request
  <2>3. /\ \A u \in Tokens : u # t => job'[u] = job[u]
        /\ job'[t].pc = "claimed" /\ job'[t].kind = req[r].mode
    BY <1>5 DEF Claim, Ownership, TypeOK, Job
  <2>4. \A s \in Requests : req[s].pc \in {"move", "enqueue"} => req[s].token # t
    BY <1>5 DEF Claim, Ownership, RequestsHoldJobs
  <2>5. RequestsHoldJobs'
    BY <2>2, <2>3, <2>4 DEF Ownership, RequestsHoldJobs
  <2>6. \A u \in Tokens : UnderWay(u)' => UnderWay(u)
    BY <2>1, <2>2, <2>3, <2>4 DEF UnderWay, Writing
  <2> QED
    BY <1>5, <2>5, <2>6 DEF Claim, Ownership, OneGeneration
<1>6. CASE Move(r)
  <2>1. CASE state \in Startable
    <3>1. /\ \A s \in Requests : s # r => req'[s] = req[s]
          /\ req'[r].pc = "enqueue" /\ req'[r].token = req[r].token
          /\ req'[r].mode = req[r].mode
          /\ state' = "EXPRESS_RUNNING"
          /\ UNCHANGED job
      BY <1>6, <2>1 DEF Move, Ownership, TypeOK, Request
    <3>2. RequestsHoldJobs'
      BY <1>6, <3>1 DEF Move, Ownership, RequestsHoldJobs
    <3>3. \A t \in Tokens : ~UnderWay(t)
      BY <2>1 DEF Ownership, OneGeneration, Startable
    <3>4. \A t \in Tokens : UnderWay(t)' => t = req[r].token
      BY <3>1, <3>3 DEF UnderWay
    <3> QED
      BY <3>1, <3>2, <3>4 DEF OneGeneration
  <2>2. CASE state \notin Startable
    BY <1>6, <2>2, GiveUpOwnership DEF Move
  <2> QED
    BY <2>1, <2>2
<1>7. CASE Enqueue(r)
  <2>1. /\ \A s \in Requests : s # r => req'[s] = req[s]
        /\ req'[r].pc = "idle"
    BY <1>7 DEF Enqueue, Ownership, TypeOK, Request
  <2>2. /\ req[r].token \in Tokens
        /\ job[req[r].token].kind = req[r].mode
        /\ \A s \in Requests : s # r /\ req[s].pc \in {"move", "enqueue"} =>
               req[s].token # req[r].token
    BY <1>7 DEF Enqueue, Ownership, RequestsHoldJobs
  <2>3. /\ \A u \in Tokens : u # req[r].token => job'[u] = job[u]
        /\ job'[req[r].token].pc = "queued"
        /\ job'[req[r].token].kind = req[r].mode
    BY <1>7, <2>2 DEF Enqueue, Goto, Ownership, TypeOK, Job
  <2>4. RequestsHoldJobs'
    BY <2>1, <2>2, <2>3 DEF Ownership, RequestsHoldJobs
  <2>5. \A u \in Tokens : UnderWay(u)' => UnderWay(u)
    BY <1>7, <2>1, <2>3 DEF UnderWay, Enqueue, Writing
  <2> QED
    BY <1>7, <2>4, <2>5 DEF Enqueue, row, Ownership, OneGeneration
<1>8. CASE EnqueueFails(r)
  BY <1>8, GiveUpOwnership DEF EnqueueFails
<1>9. CASE Crash(r)
  BY <1>9, GiveUpOwnership DEF Crash, row
<1> QED
  BY <1>1, <1>2, <1>3, <1>4, <1>5, <1>6, <1>7, <1>8, <1>9 DEF RequestStep
\* A job begins when its request has moved the run, and ends once.
LEMMA JobOwnership ==
    ASSUME Ownership, NEW t \in Tokens, JobStep(t) \/ Exception(t) \/ Die(t)
    PROVE  RequestsHoldJobs' /\ OneGeneration'
<1>1. /\ job[t].pc \in Writing \cup {"queued", "release"}
      /\ req' = req
  BY DEF JobStep, JobBegin, Prompt, TransportError, Manuscript, Audit, Publish, Ship, Leave,
         DeepJob, Exception, Die, Writing
<1>2. \A u \in Tokens : u # t => job'[u] = job[u]
  BY DEF JobStep, JobBegin, Prompt, TransportError, Manuscript, Audit, Publish, Ship, Leave,
         DeepJob, Exception, Die, Ends, Goto, Fail, Ownership, TypeOK
<1>3. RequestsHoldJobs'
  BY <1>1, <1>2 DEF Ownership, RequestsHoldJobs, Writing
<1>4. \A u \in Tokens : u # t => (UnderWay(u)' <=> UnderWay(u))
  BY <1>1, <1>2 DEF UnderWay
<1>5. UnderWay(t)' => UnderWay(t) /\ UNCHANGED state
  <2> SUFFICES ASSUME UnderWay(t)' PROVE UnderWay(t) /\ UNCHANGED state
    OBVIOUS
  <2>1. \/ job'[t].pc = "queued" /\ job'[t].kind = "express"
        \/ job'[t].pc \in Writing
    BY <1>1 DEF UnderWay, Ownership, RequestsHoldJobs, Writing
  <2>2. job[t].pc \in Writing => UnderWay(t)
    BY DEF UnderWay
  <2>3. CASE JobBegin(t)
    <3>1. UnderWay(t)
      BY <2>3 DEF JobBegin, UnderWay
    <3> QED
      BY <2>1, <2>3, <3>1 DEF JobBegin, Ownership, OneGeneration, TypeOK, Ends, Unused
  <2>4. CASE DeepJob(t) \/ Leave(t) \/ Exception(t) \/ Die(t) \/ Ship(t)
    BY <2>1, <2>4
    DEF DeepJob, Leave, Exception, Die, Ship, Ends, Unused, Ownership, TypeOK, Writing
  <2>5. CASE Prompt(t) \/ TransportError(t)
    BY <2>1, <2>2, <2>5
    DEF Prompt, TransportError, Fail, Ends, Unused, Ownership, TypeOK, Writing
  <2>6. CASE Manuscript(t)
    BY <2>1, <2>2, <2>6 DEF Manuscript, Fail, Ends, Unused, Ownership, TypeOK, Writing
  <2>7. CASE Audit(t)
    BY <2>1, <2>2, <2>7 DEF Audit, Fail, Ends, Unused, Ownership, TypeOK, Writing
  <2>8. CASE Publish(t)
    BY <2>1, <2>2, <2>8 DEF Publish, row, Writing
  <2> QED
    BY <2>3, <2>4, <2>5, <2>6, <2>7, <2>8 DEF JobStep
<1>6. UnderWay(t) \/ UNCHANGED state \/ (\A u \in Tokens : ~UnderWay(u))
  <2>1. job[t].pc \in Writing => UnderWay(t)
    BY DEF UnderWay
  <2>2. CASE JobBegin(t)
    BY <2>2 DEF JobBegin, UnderWay
  <2>3. CASE DeepJob(t)
    BY <2>3 DEF DeepJob, Ownership, OneGeneration
  <2>4. CASE Leave(t)
    BY <2>4 DEF Leave
  <2>5. CASE ~(JobBegin(t) \/ DeepJob(t) \/ Leave(t))
    <3>1. job[t].pc \in Writing \/ UNCHANGED state
      BY <2>5 DEF JobStep, Prompt, TransportError, Manuscript, Audit, Publish, Ship,
                  Exception, Die, row, Writing
    <3> QED
      BY <2>1, <3>1
  <2> QED
    BY <2>2, <2>3, <2>4, <2>5
<1>7. OneGeneration'
  <2>1. CASE UNCHANGED state
    BY <1>4, <1>5, <2>1 DEF Ownership, OneGeneration
  <2>2. CASE ~UNCHANGED state
    <3>1. ~UnderWay(t)'
      BY <1>5, <2>2
    <3>2. \A u \in Tokens : ~UnderWay(u)'
      BY <1>4, <1>6, <2>2, <3>1 DEF Ownership, OneGeneration
    <3> QED
      BY <3>2 DEF OneGeneration
  <2> QED
    BY <2>1, <2>2
<1> QED
  BY <1>3, <1>7

LEMMA NextOwnership == Ownership /\ [Next]_vars => Ownership'
<1> SUFFICES ASSUME Ownership, [Next]_vars PROVE Ownership'
  OBVIOUS
<1>1. TypeOK'
  BY NextTypes DEF Ownership
<1>2. ASSUME UNCHANGED <<state, req, job>> PROVE RequestsHoldJobs' /\ OneGeneration'
  BY <1>2 DEF Ownership, RequestsHoldJobs, OneGeneration, UnderWay
<1>3. ASSUME Age \/ Reap \/ ForceClear \/ Delete \/ Restore \/ UNCHANGED vars
      PROVE  RequestsHoldJobs' /\ OneGeneration'
  BY <1>2, <1>3 DEF Age, Reap, ForceClear, Delete, Restore, vars, row
<1>4. ASSUME NEW r \in Requests,
             \/ StartRead(r) \/ SwitchRead(r) \/ RequestStep(r) \/ EnqueueFails(r) \/ Crash(r)
      PROVE  RequestsHoldJobs' /\ OneGeneration'
  BY <1>4, RequestOwnership
<1>5. ASSUME NEW t \in Tokens, JobStep(t) \/ Exception(t) \/ Die(t)
      PROVE  RequestsHoldJobs' /\ OneGeneration'
  BY <1>5, JobOwnership
<1>6. RequestsHoldJobs' /\ OneGeneration'
  BY <1>3, <1>4, <1>5 DEF Next
<1> QED
  BY <1>1, <1>6 DEF Ownership
-----------------------------------------------------------------------------
(* What a job has written.                                                  *)

LEMMA InitInvariant == Init => Invariant
<1> SUFFICES ASSUME Init PROVE Invariant
  OBVIOUS
<1>1. WritersOwnTheirFiles
  BY DEF Init, WritersOwnTheirFiles, Unused
<1>2. ShippedIsWhole
  BY DEF Init, ShippedIsWhole
<1> QED
  BY <1>1, <1>2, InitOwnership DEF Invariant, Ownership

\* While nobody writes, what was written stays: the others do not see a job begin.
LEMMA StepOfNoWriter ==
    ASSUME Invariant, UNCHANGED <<file, spent>>,
           \A u \in Tokens : job'[u] = job[u] \/ job'[u].pc \notin Writing \ {"prompt"},
           state' = "EXPRESS_DONE" => state = "EXPRESS_DONE"
    PROVE  WritersOwnTheirFiles' /\ ShippedIsWhole'
<1>1. WritersOwnTheirFiles'
  BY DEF Invariant, WritersOwnTheirFiles, Writing
<1>2. ShippedIsWhole'
  BY DEF Invariant, ShippedIsWhole
<1> QED
  BY <1>1, <1>2

\* A job that writes is the only one that does, and the run has not shipped.
LEMMA WriterIsAlone ==
    ASSUME Invariant, NEW t \in Tokens, job[t].pc \in Writing
    PROVE  /\ state = "EXPRESS_RUNNING"
           /\ \A u \in Tokens : job[u].pc \in Writing => u = t
BY DEF Invariant, OneGeneration, UnderWay

LEMMA RequestWrites ==
    ASSUME Invariant, NEW r \in Requests,
           \/ StartRead(r) \/ SwitchRead(r) \/ RequestStep(r) \/ EnqueueFails(r) \/ Crash(r)
    PROVE  WritersOwnTheirFiles' /\ ShippedIsWhole'
<1>1. UNCHANGED <<file, spent>>
  BY DEF StartRead, SwitchRead, RequestStep, EnqueueFails, Crash, Claim, Conflict, Move,
         Enqueue, Switch
<1>2. state' = "EXPRESS_DONE" => state = "EXPRESS_DONE"
  <2>1. req[r].from \in Startable
    BY DEF Invariant, TypeOK, Request
  <2> QED
    BY <2>1 DEF StartRead, SwitchRead, RequestStep, EnqueueFails, Crash, Claim, Conflict,
                Move, Enqueue, Switch, row, Startable
<1>3. \A u \in Tokens : job'[u] = job[u] \/ job'[u].pc \notin Writing \ {"prompt"}
  <2>1. ASSUME NEW t \in Tokens, Claim(r, t)
        PROVE  \A u \in Tokens : u # t => job'[u] = job[u]
    BY <2>1 DEF Claim, Invariant, TypeOK
  <2>2. ASSUME NEW t \in Tokens, Claim(r, t) PROVE job'[t].pc = "claimed"
    BY <2>2 DEF Claim, Invariant, TypeOK, Job
  <2>3. CASE Move(r) \/ EnqueueFails(r) \/ Crash(r)
    BY <2>3 DEF Move, EnqueueFails, Crash, Ends, Unused, Invariant, TypeOK, Writing
  <2>4. CASE Enqueue(r)
    BY <2>4 DEF Enqueue, Goto, Invariant, TypeOK, Job, Writing
  <2>5. CASE UNCHANGED job
    BY <2>5
  <2> QED
    BY <2>1, <2>2, <2>3, <2>4, <2>5
    DEF StartRead, SwitchRead, RequestStep, Conflict, Switch, Writing
<1> QED
  BY <1>1, <1>2, <1>3, StepOfNoWriter

\* A job that ends keeps what it has written, unless it has shipped.
LEMMA EndsWrites ==
    ASSUME Invariant, NEW t \in Tokens, NEW pc \in {"release", "gone", "lost"}, Ends(t, pc),
           UNCHANGED <<file, spent>>,
           state' = "EXPRESS_DONE" => state = "EXPRESS_DONE"
    PROVE  WritersOwnTheirFiles' /\ ShippedIsWhole'
<1>1. \A u \in Tokens : job'[u] = job[u] \/ job'[u].pc \notin Writing \ {"prompt"}
  BY DEF Ends, Unused, Invariant, TypeOK, Writing
<1> QED
  BY <1>1, StepOfNoWriter

LEMMA JobWrites ==
    ASSUME Invariant, NEW t \in Tokens, JobStep(t) \/ Exception(t) \/ Die(t)
    PROVE  WritersOwnTheirFiles' /\ ShippedIsWhole'
<1> DEFINE Alone == /\ state = "EXPRESS_RUNNING"
                    /\ \A u \in Tokens : job[u].pc \in Writing => u = t
           Others == \A u \in Tokens : u # t => job'[u] = job[u]
<1>1. job[t].pc \in Writing => Alone
  BY WriterIsAlone
<1>2. Others
  BY DEF JobStep, JobBegin, Prompt, TransportError, Manuscript, Audit, Publish, Ship, Leave,
         DeepJob, Exception, Die, Ends, Goto, Fail, Invariant, TypeOK
<1>3. CASE JobBegin(t)
  <2>1. job'[t].pc \in {"prompt", "release"}
    BY <1>3 DEF JobBegin, Goto, Ends, Unused, Invariant, TypeOK, Job
  <2> QED
    BY <1>2, <1>3, <2>1, StepOfNoWriter DEF JobBegin, Writing
<1>4. CASE Leave(t)
  BY <1>4, EndsWrites DEF Leave
<1>5. CASE DeepJob(t)
  BY <1>5, EndsWrites DEF DeepJob
<1>6. CASE Exception(t) \/ Die(t)
  BY <1>6, EndsWrites DEF Exception, Die, row
<1>7. CASE Ship(t)
  <2>1. Alone
    BY <1>1, <1>7 DEF Ship, Writing
  <2>2. job'[t].pc = "release" /\ UNCHANGED <<file, spent>>
    BY <1>7 DEF Ship, Ends, Unused, Invariant, TypeOK
  <2>3. WritersOwnTheirFiles'
    BY <1>2, <2>2 DEF WritersOwnTheirFiles, Invariant
  <2>4. spent <= Cap /\ \A a \in Artifacts : file[a] = t
    BY <1>7 DEF Ship, Invariant, WritersOwnTheirFiles
  <2> QED
    BY <2>2, <2>3, <2>4 DEF ShippedIsWhole
<1>8. CASE Prompt(t) \/ TransportError(t) \/ Manuscript(t) \/ Audit(t) \/ Publish(t)
  <2>1. Alone /\ job[t].pc \in Writing
    BY <1>1, <1>8 DEF Prompt, TransportError, Manuscript, Audit, Publish, Writing
  <2>2. state' # "EXPRESS_DONE"
    BY <1>8, <2>1 DEF Prompt, TransportError, Manuscript, Audit, Publish, Fail, row
  <2>3. ASSUME /\ job'[t].pc \in {"manuscript", "audit", "publish", "ship"} =>
                      file'["prompt"] = t
               /\ job'[t].pc \in {"audit", "publish", "ship"} => file'["manuscript"] = t
               /\ job'[t].pc \in {"publish", "ship"} =>
                      file'["audit"] = t /\ job'[t].usage <= Cap
               /\ job'[t].pc = "ship" => /\ \A a \in Artifacts : file'[a] = t
                                         /\ spent' = job'[t].usage
        PROVE  WritersOwnTheirFiles' /\ ShippedIsWhole'
    BY <1>2, <2>1, <2>2, <2>3 DEF WritersOwnTheirFiles, ShippedIsWhole, Writing
  <2>4. CASE Prompt(t)
    <3>1. file'["prompt"] = t
      BY <2>4 DEF Prompt, Put, Artifacts
    <3>2. job'[t].pc \in {"manuscript", "release"}
      BY <2>4 DEF Prompt, Fail, Ends, Goto, Unused, Invariant, TypeOK, Job
    <3> QED
      BY <2>3, <3>1, <3>2
  <2>5. CASE TransportError(t)
    <3>1. job'[t].pc = "release" \/ job'[t].pc = job[t].pc
      BY <2>5 DEF TransportError, Fail, Ends, Unused, Invariant, TypeOK, Job
    <3>2. job[t].pc \in {"manuscript", "audit"} /\ file' = file
      BY <2>5 DEF TransportError
    <3> QED
      BY <2>3, <3>1, <3>2 DEF Invariant, WritersOwnTheirFiles
  <2>6. CASE Manuscript(t)
    <3>1. \/ job'[t].pc = "release"
          \/ job'[t].pc = "audit" /\ Put({"manuscript"}, t)
      BY <2>6 DEF Manuscript, Fail, Ends, Unused, Invariant, TypeOK, Job
    <3>2. job[t].pc = "manuscript"
      BY <2>6 DEF Manuscript
    <3> QED
      BY <2>3, <3>1, <3>2 DEF Invariant, WritersOwnTheirFiles, Put, Artifacts
  <2>7. CASE Audit(t)
    <3>1. \/ job'[t].pc = "release"
          \/ /\ job'[t].pc = "publish" /\ job'[t].usage <= Cap
             /\ Put({"audit"}, t)
      <4>1. Fail(t) => job'[t].pc = "release"
        BY DEF Fail, Ends, Unused, Invariant, TypeOK
      <4>2. CASE ~Fail(t)
        <5>1. PICK usage \in Usages :
                  /\ job[t].usage + usage <= Cap
                  /\ Put({"audit"}, t)
                  /\ job' = [job EXCEPT ![t].pc = "publish", ![t].usage = @ + usage]
          <6>1. \A usage \in Usages : ~(job[t].usage + usage > Cap)
                                      => job[t].usage + usage <= Cap
            BY ExpressAssumption DEF Invariant, TypeOK, Job
          <6> QED
            BY <2>7, <4>2, <6>1 DEF Audit
        <5> QED
          BY <5>1 DEF Invariant, TypeOK, Job
      <4> QED
        BY <4>1, <4>2
    <3>2. job[t].pc = "audit"
      BY <2>7 DEF Audit
    <3> QED
      BY <2>3, <3>1, <3>2 DEF Invariant, WritersOwnTheirFiles, Put, Artifacts
  <2>8. CASE Publish(t)
    <3>1. /\ job'[t].pc = "ship" /\ job'[t].usage = job[t].usage
          /\ job[t].pc = "publish" /\ spent' = job[t].usage
      BY <2>8 DEF Publish, Goto, Invariant, TypeOK, Job
    <3>2. \A a \in Artifacts : file'[a] = t
      BY <2>8 DEF Publish, Put, Artifacts, Invariant, WritersOwnTheirFiles
    <3> QED
      BY <2>3, <3>1, <3>2 DEF Invariant, WritersOwnTheirFiles, Artifacts
  <2> QED
    BY <1>8, <2>4, <2>5, <2>6, <2>7, <2>8
<1> QED
  BY <1>3, <1>4, <1>5, <1>6, <1>7, <1>8 DEF JobStep
\* The invariant is inductive.
LEMMA NextInvariant == Invariant /\ [Next]_vars => Invariant'
<1> SUFFICES ASSUME Invariant, [Next]_vars PROVE Invariant'
  OBVIOUS
<1>1. Ownership'
  BY NextOwnership DEF Invariant, Ownership
<1>2. ASSUME NEW r \in Requests,
             \/ StartRead(r) \/ SwitchRead(r) \/ RequestStep(r) \/ EnqueueFails(r) \/ Crash(r)
      PROVE  WritersOwnTheirFiles' /\ ShippedIsWhole'
  BY <1>2, RequestWrites
<1>3. ASSUME NEW t \in Tokens, JobStep(t) \/ Exception(t) \/ Die(t)
      PROVE  WritersOwnTheirFiles' /\ ShippedIsWhole'
  BY <1>3, JobWrites
<1>4. ASSUME UNCHANGED <<state, job, file, spent>>
      PROVE  WritersOwnTheirFiles' /\ ShippedIsWhole'
  BY <1>4, StepOfNoWriter
<1>5. ASSUME Age \/ Reap \/ ForceClear \/ Delete \/ Restore \/ UNCHANGED vars
      PROVE  WritersOwnTheirFiles' /\ ShippedIsWhole'
  BY <1>4, <1>5 DEF Age, Reap, ForceClear, Delete, Restore, vars, row
<1>6. WritersOwnTheirFiles' /\ ShippedIsWhole'
  BY <1>2, <1>3, <1>5 DEF Next
<1> QED
  BY <1>1, <1>6 DEF Invariant, Ownership

LEMMA Inductive == Spec => []Invariant
BY InitInvariant, NextInvariant, PTL DEF Spec
-----------------------------------------------------------------------------
(* Theorems.                                                                *)

\* Every variable keeps its type (express_runner.py, main.py).
THEOREM ExpressTypes == Spec => []TypeOK
<1>1. Invariant => TypeOK
  BY DEF Invariant
<1> QED
  BY <1>1, Inductive, PTL

\* However many calls compete for a run, and however often its lock is taken away,
\* at most one express job writes its files (run_express, start_proposal).
THEOREM OneWriterAlways == Spec => []OneWriter
<1>1. ASSUME Invariant PROVE OneWriter
  <2> DEFINE Writers == {t \in Tokens : job[t].pc \in Writing}
  <2>1. CASE Writers = {}
    BY <2>1, FS_EmptySet DEF OneWriter
  <2>2. CASE Writers # {}
    <3>1. PICK t \in Tokens : job[t].pc \in Writing
      BY <2>2
    <3>2. Writers = {t}
      BY <1>1, <3>1, WriterIsAlone
    <3>3. Cardinality({t}) = 1
      BY FS_Singleton
    <3> QED
      BY <3>2, <3>3 DEF OneWriter
  <2> QED
    BY <2>1, <2>2
<1> QED
  BY <1>1, Inductive, PTL

\* A run in EXPRESS_DONE shows the work of one job, audited and within the cap, after
\* whatever came before (run_express, ADR 0003).
THEOREM ShippedIsAlwaysWhole == Spec => []ShippedIsWhole
<1>1. Invariant => ShippedIsWhole
  BY DEF Invariant
<1> QED
  BY <1>1, Inductive, PTL
-----------------------------------------------------------------------------
(* Types of an experiment.                                                  *)

ApiNames == {"project", "run", "kernel", "pilot", "poll", "dump"}

KernelEntry == [done : SUBSET (ApiNames \cup Arms), blocked : BOOLEAN]
DriverState ==
    [arms : Seq(SupportedArms), status : {"running", "partial", "complete"},
     kernels : [Kernels -> KernelEntry]]

Stages == STRING \cup {"write", "critique", "retry", "intake", "structure", "draft",
                      "integrity", "revise"}
SubprocessType ==
    [arm : Arms \cup {"none"}, stages : Seq(Stages), spent : Nat, base : Nat,
     phase : {"calls", "written", "recorded"}]
Provenance == [of : Nat, base : Nat, cost : Nat]

Blinded == [id : Ids, kernel : Kernels, arm : Arms]
Copy == [id : Ids, kernel : Kernels, arm : Arms, of : Nat, judges : SUBSET JudgeIds]

DriverTypes ==
    /\ driver \in {"off", "on"}
    /\ arms \in Seq(SupportedArms) /\ ToSet(arms) \subseteq Arms
    /\ mem \in DriverState \cup {NoState}
    /\ disk \in DriverState \cup {NoState}
    /\ busy \subseteq Kernels /\ left \subseteq Kernels /\ unsaved \subseteq Kernels
    /\ gen \in [Kernels -> SubprocessType]

FileTypes ==
    /\ packs \subseteq Kernels
    /\ text \in [Kernels -> [Arms -> Nat]]
    /\ prov \in [Kernels -> [Arms -> Provenance]]

BlindTypes ==
    /\ copies \subseteq Copy
    /\ map = NoMap \/ map \subseteq Blinded
    /\ builder \in [todo : SUBSET (Kernels \X Arms), entries : SUBSET Blinded]

ServerTypes ==
    /\ made \in [Kernels -> Nat]
    /\ aRun \in [Kernels -> {"none", "new", "going", "ready", "costly", "failed"}]
    /\ given \in [{"driver", "blindset"} -> Nat]
    /\ mishaps \in Nat

-----------------------------------------------------------------------------
(* The inductive invariant of an experiment.                                *)

\* There is a state in memory while there is a driver, and a subprocess belongs to
\* a thread whose last step is saved, and makes an arm that is not done.
Threads ==
    /\ driver = "on" <=> mem # NoState
    /\ busy \cap left = {} /\ unsaved \subseteq busy
    /\ \A k \in Kernels : gen[k] # NoSubprocess =>
          /\ driver = "on" /\ k \in busy \ unsaved
          /\ gen[k].arm \in Arms \ mem.kernels[k].done

\* What is saved was done.
SavedIsDone ==
    driver = "on" =>
        /\ disk # NoState
        /\ \A k \in Kernels : disk.kernels[k].done \subseteq mem.kernels[k].done

\* What a state says is done is in these files, and a critique is of the manuscript
\* of B beside it.
FlagsOf(progress, p, t, v) ==
    progress # NoState =>
        \A k \in Kernels :
            /\ "dump" \in progress.kernels[k].done => k \in p
            /\ \A a \in Arms \cap progress.kernels[k].done : t[k][a] > 0 /\ v[k][a].of = t[k][a]
            /\ "B_prime" \in progress.kernels[k].done =>
                  "B" \in progress.kernels[k].done /\ v[k]["B_prime"].base = t[k]["B"]

FlagsHold == FlagsOf(mem, packs, text, prov) /\ FlagsOf(disk, packs, text, prov)

\* A subprocess has written what its phase says, and critiques a finished B.
SubprocessesWrite ==
    \A k \in Kernels : gen[k] # NoSubprocess =>
        /\ gen[k].phase \in {"written", "recorded"} => text[k][gen[k].arm] > 0
        /\ gen[k].phase = "recorded" =>
              /\ prov[k][gen[k].arm].of = text[k][gen[k].arm]
              /\ prov[k][gen[k].arm].base = gen[k].base
        /\ gen[k].arm = "B_prime" =>
              "B" \in mem.kernels[k].done /\ gen[k].base = text[k]["B"]

\* No two blinded manuscripts share an identifier.
Mapped == IF map = NoMap THEN {} ELSE map
IdsAreOf(set) == \A c, d \in set : c.id = d.id => c.kernel = d.kernel /\ c.arm = d.arm
IdsAreUnique == IdsAreOf(copies \cup Mapped \cup builder.entries)

Generated == DriverTypes /\ FileTypes /\ Threads /\ SavedIsDone /\ FlagsHold /\ SubprocessesWrite
BlindSet == BlindTypes /\ IdsAreUnique

ExperimentInvariant == Generated /\ BlindSet /\ ServerTypes
-----------------------------------------------------------------------------
(* Arms, states and steps.                                                  *)

LessThan == {p \in Nat \X Nat : p[1] < p[2]}

LEMMA LessIsWellFounded == IsWellFoundedOn(LessThan, Nat)
<1>1. LessThan = OpToRel(<, Nat)
  BY DEF LessThan, OpToRel
<1>2. QED
  BY <1>1, NatLessThanWellFounded

LEMMA LeastIsOf ==
    ASSUME NEW S \in SUBSET Nat, S # {}
    PROVE  Min(S) \in S
<1>1. PICK x \in S : \A y \in S : ~(<<y, x>> \in LessThan)
  BY LessIsWellFounded, WFMin
<1>2. \A y, z \in Nat : <<y, z>> \notin LessThan => z <= y
  BY DEF LessThan
<1>3. \E z \in S : \A y \in S : z =< y
  BY <1>1, <1>2
<1>4. QED
  BY <1>3 DEF Min

LEMMA ArmNames ==
    /\ Arms \subseteq SupportedArms
    /\ \A list \in ArmLists : list \in Seq(SupportedArms) /\ ToSet(list) \subseteq Arms
    /\ ApiNames \cap Arms = {} /\ "end" \notin Arms /\ "none" \notin Arms
<1>1. \A list \in ArmLists : list \in Seq(SupportedArms) /\ ToSet(list) \subseteq Arms
  BY ArmsAssumption DEF Valid, Arms
<1>2. \A list \in ArmLists : ToSet(list) \subseteq SupportedArms
  BY <1>1 DEF ToSet
<1>3. Arms \subseteq SupportedArms
  BY <1>2 DEF Arms
<1>4. QED
  BY <1>1, <1>3 DEF SupportedArms, ApiNames

LEMMA StatesOfDrivers ==
    /\ NoState \notin DriverState
    /\ \A progress \in DriverState :
          progress.kernels \in [Kernels -> KernelEntry] /\ progress # NoState
<1>1. \A progress \in DriverState : progress.status # NoState.status
  BY DEF DriverState, NoState
<1>2. QED
  BY <1>1 DEF DriverState

LEMMA NewStates ==
    ASSUME NEW list \in ArmLists
    PROVE  /\ NewState(list) \in DriverState
           /\ \A k \in Kernels : NewState(list).kernels[k].done = {}
BY ArmNames DEF NewState, NewKernel, DriverState, KernelEntry

\* A thread is at a step that is not done yet.
LEMMA AtAnOpenStep ==
    ASSUME Generated, NEW k \in Kernels, NEW s, s # "end", At(k, s)
    PROVE  /\ s \in (ApiNames \cup Arms) \ mem.kernels[k].done
           /\ driver = "on" /\ k \in busy \ unsaved /\ gen[k] = NoSubprocess
           /\ mem \in DriverState
<1> DEFINE plan == ApiSteps \o arms
           open == {i \in DOMAIN plan : plan[i] \notin mem.kernels[k].done}
<1>1. ApiSteps \in Seq(ApiNames \cup Arms) /\ arms \in Seq(ApiNames \cup Arms)
  <2>1. ApiSteps \in Seq(ApiNames \cup Arms)
    BY DEF ApiSteps, ApiNames
  <2>2. \A i \in 1..Len(arms) : arms[i] \in Arms
    BY DEF Generated, DriverTypes, ToSet
  <2>3. QED
    BY <2>1, <2>2 DEF Generated, DriverTypes
<1>2. plan \in Seq(ApiNames \cup Arms)
  BY <1>1, ConcatProperties
<1>3. DOMAIN plan \subseteq Nat /\ \A i \in DOMAIN plan : plan[i] \in ApiNames \cup Arms
  BY <1>2
<1>4. s = IF open = {} THEN "end" ELSE plan[Min(open)]
  BY DEF At, NextStep
<1>5. Min(open) \in open
  BY <1>3, <1>4, LeastIsOf
<1>6. s \in (ApiNames \cup Arms) \ mem.kernels[k].done
  BY <1>3, <1>4, <1>5
<1>7. mem \in DriverState
  BY DEF At, Generated, DriverTypes, Threads
<1>8. QED
  BY <1>6, <1>7 DEF At
-----------------------------------------------------------------------------
(* What a step of the driver or of a subprocess does to state and files.    *)

\* What a state says of the files stays true while no file of an arm that it calls
\* done is written.
LEMMA FlagsStay ==
    ASSUME NEW progress, NEW p, NEW t, NEW v, NEW p2, NEW t2, NEW v2,
           FlagsOf(progress, p, t, v), p \subseteq p2,
           progress # NoState => \A k \in Kernels :
               progress.kernels[k].done \subseteq ApiNames \cup Arms,
           progress # NoState => \A k \in Kernels : \A a \in Arms \cap progress.kernels[k].done :
               t2[k][a] = t[k][a] /\ v2[k][a] = v[k][a]
    PROVE  FlagsOf(progress, p2, t2, v2)
<1> SUFFICES ASSUME progress # NoState, NEW k \in Kernels
             PROVE  /\ "dump" \in progress.kernels[k].done => k \in p2
                    /\ \A a \in Arms \cap progress.kernels[k].done :
                          t2[k][a] > 0 /\ v2[k][a].of = t2[k][a]
                    /\ "B_prime" \in progress.kernels[k].done =>
                          "B" \in progress.kernels[k].done /\ v2[k]["B_prime"].base = t2[k]["B"]
  BY DEF FlagsOf
<1>1. "B_prime" \notin ApiNames /\ "B" \notin ApiNames
  BY DEF ApiNames
<1>2. QED
  BY <1>1 DEF FlagsOf

\* States that call the same steps done say the same of the files.
LEMMA FlagsOfSameSteps ==
    ASSUME NEW one, NEW two, NEW p, NEW t, NEW v,
           FlagsOf(one, p, t, v), one # NoState,
           \A k \in Kernels : two.kernels[k].done = one.kernels[k].done
    PROVE  FlagsOf(two, p, t, v)
BY DEF FlagsOf

LEMMA FlagsOfNewState ==
    ASSUME NEW list \in ArmLists, NEW p, NEW t, NEW v
    PROVE  FlagsOf(NewState(list), p, t, v)
BY NewStates DEF FlagsOf

\* A step of kernel k that is over is recorded in memory.
LEMMA DidStep ==
    ASSUME Generated, NEW k \in Kernels, NEW s \in ApiNames \cup Arms,
           driver = "on", k \in busy \ unsaved, Did(k, s),
           gen' = [gen EXCEPT ![k] = NoSubprocess],
           text' = text, prov' = prov, packs \subseteq packs', packs' \subseteq Kernels,
           s = "dump" => k \in packs',
           s \in Arms => text[k][s] > 0 /\ prov[k][s].of = text[k][s],
           s = "B_prime" => /\ "B" \in mem.kernels[k].done
                            /\ prov[k][s].base = text[k]["B"]
    PROVE  Generated'
<1> USE DEF Generated
<1>1. mem \in DriverState /\ mem # NoState
  BY DEF Threads, DriverTypes
<1>2. /\ mem' \in DriverState /\ mem' # NoState
      /\ \A j \in Kernels : mem'.kernels[j].done =
              IF j = k THEN mem.kernels[j].done \cup {s} ELSE mem.kernels[j].done
  <2>1. mem' = [mem EXCEPT !.kernels = [mem.kernels EXCEPT ![k] =
                   [mem.kernels[k] EXCEPT !.done = mem.kernels[k].done \cup {s}]]]
    BY DEF Did
  <2>2. mem' \in DriverState
    BY <1>1, <2>1 DEF DriverState, KernelEntry
  <2>3. \A j \in Kernels : mem'.kernels[j].done =
              IF j = k THEN mem.kernels[j].done \cup {s} ELSE mem.kernels[j].done
    BY <1>1, <2>1 DEF DriverState, KernelEntry
  <2>4. QED
    BY <2>2, <2>3, StatesOfDrivers
<1>3. NoSubprocess \in SubprocessType
  BY DEF NoSubprocess, SubprocessType
<1>4. DriverTypes' /\ FileTypes'
  BY <1>2, <1>3 DEF DriverTypes, FileTypes, Did
<1>5. \A j \in Kernels : gen'[j] # NoSubprocess => j # k /\ gen'[j] = gen[j]
  BY DEF DriverTypes
<1>6. Threads'
  BY <1>2, <1>5 DEF Threads, Did
<1>7. SavedIsDone'
  BY <1>2 DEF SavedIsDone, Did
<1>8. FlagsOf(disk, packs, text, prov)'
  <2>1. disk # NoState => \A j \in Kernels : disk.kernels[j].done \subseteq ApiNames \cup Arms
    BY DEF DriverTypes, DriverState, KernelEntry
  <2>2. FlagsOf(disk, packs', text, prov)
    BY <2>1, FlagsStay DEF FlagsHold
  <2>3. QED
    BY <2>2 DEF Did
<1>9. FlagsOf(mem, packs, text, prov)'
  <2> SUFFICES ASSUME NEW j \in Kernels
               PROVE  /\ "dump" \in mem'.kernels[j].done => j \in packs'
                      /\ \A a \in Arms \cap mem'.kernels[j].done :
                            text[j][a] > 0 /\ prov[j][a].of = text[j][a]
                      /\ "B_prime" \in mem'.kernels[j].done =>
                            /\ "B" \in mem'.kernels[j].done
                            /\ prov[j]["B_prime"].base = text[j]["B"]
    BY DEF FlagsOf
  <2>1. /\ "dump" \in mem.kernels[j].done => j \in packs
        /\ \A a \in Arms \cap mem.kernels[j].done :
              text[j][a] > 0 /\ prov[j][a].of = text[j][a]
        /\ "B_prime" \in mem.kernels[j].done =>
              /\ "B" \in mem.kernels[j].done
              /\ prov[j]["B_prime"].base = text[j]["B"]
    BY <1>1 DEF FlagsOf, FlagsHold
  <2>2. CASE j = k
    BY <1>2, <2>1, <2>2
  <2>3. CASE j # k
    BY <1>2, <2>1, <2>3
  <2>4. QED
    BY <2>2, <2>3
<1>10. SubprocessesWrite'
  <2> SUFFICES ASSUME NEW j \in Kernels, gen'[j] # NoSubprocess
               PROVE  /\ gen[j].phase \in {"written", "recorded"} => text[j][gen[j].arm] > 0
                      /\ gen[j].phase = "recorded" =>
                            /\ prov[j][gen[j].arm].of = text[j][gen[j].arm]
                            /\ prov[j][gen[j].arm].base = gen[j].base
                      /\ gen[j].arm = "B_prime" =>
                            "B" \in mem'.kernels[j].done /\ gen[j].base = text[j]["B"]
    BY <1>5 DEF SubprocessesWrite
  <2>1. gen[j] # NoSubprocess /\ mem.kernels[j].done \subseteq mem'.kernels[j].done
    BY <1>2, <1>5
  <2>2. QED
    BY <2>1 DEF SubprocessesWrite
<1>11. QED
  BY <1>4, <1>6, <1>7, <1>8, <1>9, <1>10 DEF FlagsHold

\* A step of kernel k that has failed.
LEMMA BlockedStep ==
    ASSUME Generated, NEW k \in Kernels, driver = "on", k \in busy \ unsaved, Blocked(k),
           gen' = [gen EXCEPT ![k] = NoSubprocess],
           text' = text, prov' = prov, packs \subseteq packs', packs' \subseteq Kernels
    PROVE  Generated'
<1> USE DEF Generated
<1>1. mem \in DriverState /\ mem # NoState
  BY DEF Threads, DriverTypes
<1>2. /\ mem' \in DriverState /\ mem' # NoState
      /\ \A j \in Kernels : mem'.kernels[j].done = mem.kernels[j].done
  <2>1. mem' = [mem EXCEPT !.kernels = [mem.kernels EXCEPT ![k] =
                   [mem.kernels[k] EXCEPT !.blocked = TRUE]]]
    BY DEF Blocked
  <2>2. mem' \in DriverState
    <3>1. [mem.kernels[k] EXCEPT !.blocked = TRUE] \in KernelEntry
      BY <1>1 DEF DriverState, KernelEntry
    <3>2. QED
      BY <1>1, <2>1, <3>1 DEF DriverState
  <2>3. \A j \in Kernels : mem'.kernels[j].done = mem.kernels[j].done
    BY <1>1, <2>1 DEF DriverState, KernelEntry
  <2>4. QED
    BY <2>2, <2>3, StatesOfDrivers
<1>3. NoSubprocess \in SubprocessType
  BY DEF NoSubprocess, SubprocessType
<1>4. DriverTypes' /\ FileTypes'
  BY <1>2, <1>3 DEF DriverTypes, FileTypes, Blocked
<1>5. \A j \in Kernels : gen'[j] # NoSubprocess => j # k /\ gen'[j] = gen[j]
  BY DEF DriverTypes
<1>6. Threads'
  BY <1>2, <1>5 DEF Threads, Blocked
<1>7. SavedIsDone'
  BY <1>2 DEF SavedIsDone, Blocked
<1>8. FlagsOf(disk, packs, text, prov)'
  <2>1. disk # NoState => \A j \in Kernels : disk.kernels[j].done \subseteq ApiNames \cup Arms
    BY DEF DriverTypes, DriverState, KernelEntry
  <2>2. FlagsOf(disk, packs', text, prov)
    BY <2>1, FlagsStay DEF FlagsHold
  <2>3. QED
    BY <2>2 DEF Blocked
<1>9. FlagsOf(mem, packs, text, prov)'
  BY <1>1, <1>2 DEF FlagsOf, FlagsHold
<1>10. SubprocessesWrite'
  BY <1>2, <1>5 DEF SubprocessesWrite
<1>11. QED
  BY <1>4, <1>6, <1>7, <1>8, <1>9, <1>10 DEF FlagsHold

\* A subprocess of kernel k goes on, and writes its own arm at most.
LEMMA SubprocessStep ==
    ASSUME Generated, NEW k \in Kernels, NEW g \in SubprocessType, g # NoSubprocess,
           driver = "on", k \in busy \ unsaved, g.arm \in Arms \ mem.kernels[k].done,
           UNCHANGED <<driverVars, disk, packs>>, gen' = [gen EXCEPT ![k] = g],
           text' \in [Kernels -> [Arms -> Nat]], prov' \in [Kernels -> [Arms -> Provenance]],
           \A j \in Kernels, a \in Arms : j # k \/ a # g.arm =>
               text'[j][a] = text[j][a] /\ prov'[j][a] = prov[j][a],
           g.phase \in {"written", "recorded"} => text'[k][g.arm] > 0,
           g.phase = "recorded" => /\ prov'[k][g.arm].of = text'[k][g.arm]
                                   /\ prov'[k][g.arm].base = g.base,
           g.arm = "B_prime" => "B" \in mem.kernels[k].done /\ g.base = text[k]["B"]
    PROVE  Generated'
<1> USE DEF Generated, driverVars
<1>1. mem \in DriverState /\ mem # NoState
  BY DEF Threads, DriverTypes
<1>2. DriverTypes' /\ FileTypes'
  BY DEF DriverTypes, FileTypes
<1>3. gen'[k] = g /\ \A j \in Kernels \ {k} : gen'[j] = gen[j]
  BY DEF DriverTypes
<1>4. Threads'
  BY <1>3 DEF Threads
<1>5. SavedIsDone'
  BY DEF SavedIsDone
<1>6. \A j \in Kernels : disk.kernels[j].done \subseteq mem.kernels[j].done
  BY DEF SavedIsDone
<1>7. /\ \A j \in Kernels : mem.kernels[j].done \subseteq ApiNames \cup Arms
      /\ disk # NoState => \A j \in Kernels : disk.kernels[j].done \subseteq ApiNames \cup Arms
  BY <1>1 DEF DriverTypes, DriverState, KernelEntry
<1>8. \A j \in Kernels : \A a \in Arms \cap mem.kernels[j].done :
          text'[j][a] = text[j][a] /\ prov'[j][a] = prov[j][a]
  OBVIOUS
<1>9. FlagsOf(mem, packs, text', prov')
  BY <1>7, <1>8, FlagsStay DEF FlagsHold
<1>10. FlagsOf(disk, packs, text', prov')
  BY <1>6, <1>7, <1>8, FlagsStay DEF FlagsHold
<1>11. SubprocessesWrite'
  <2>1. "B" \notin ApiNames
    BY DEF ApiNames
  <2>2. \A j \in Kernels : "B" \in mem.kernels[j].done => text'[j]["B"] = text[j]["B"]
    BY <1>7, <1>8, <2>1
  <2>3. ASSUME NEW j \in Kernels \ {k}, gen'[j] # NoSubprocess
        PROVE  /\ gen'[j].phase \in {"written", "recorded"} => text'[j][gen'[j].arm] > 0
               /\ gen'[j].phase = "recorded" =>
                     /\ prov'[j][gen'[j].arm].of = text'[j][gen'[j].arm]
                     /\ prov'[j][gen'[j].arm].base = gen'[j].base
               /\ gen'[j].arm = "B_prime" =>
                     "B" \in mem'.kernels[j].done /\ gen'[j].base = text'[j]["B"]
    <3>1. gen'[j] = gen[j] /\ gen[j].arm \in Arms
      BY <1>3, <2>3 DEF Threads
    <3>2. text'[j][gen[j].arm] = text[j][gen[j].arm] /\ prov'[j][gen[j].arm] = prov[j][gen[j].arm]
      BY <3>1
    <3>3. QED
      BY <2>2, <2>3, <3>1, <3>2 DEF SubprocessesWrite
  <2>4. QED
    BY <1>3, <2>2, <2>3 DEF SubprocessesWrite
<1>12. QED
  BY <1>2, <1>4, <1>5, <1>9, <1>10, <1>11 DEF FlagsHold
-----------------------------------------------------------------------------
(* Steps of the driver itself.                                              *)

LEMMA GeneratedStutters ==
    ASSUME Generated, UNCHANGED <<driverVars, disk, gen, armVars>>
    PROVE  Generated'
BY DEF Generated, driverVars, armVars, DriverTypes, FileTypes, Threads, SavedIsDone, FlagsHold,
       FlagsOf, SubprocessesWrite

\* A save writes what memory says is done.
LEMMA SavedStep ==
    ASSUME Generated, driver = "on", UNCHANGED <<driver, arms, gen, armVars>>,
           mem' \in DriverState, disk' = mem',
           \A j \in Kernels : mem'.kernels[j].done = mem.kernels[j].done,
           busy' \subseteq Kernels, left' \subseteq Kernels, busy' \cap left' = {},
           unsaved' \subseteq busy',
           \A j \in Kernels : gen[j] # NoSubprocess => j \in busy' \ unsaved'
    PROVE  Generated'
<1> USE DEF Generated, armVars
<1>1. mem \in DriverState /\ mem # NoState
  BY DEF Threads, DriverTypes
<1>2. mem' # NoState
  BY StatesOfDrivers
<1>3. DriverTypes' /\ FileTypes'
  BY DEF DriverTypes, FileTypes
<1>4. Threads' /\ SavedIsDone'
  BY <1>2 DEF Threads, SavedIsDone
<1>5. FlagsOf(mem', packs, text, prov)
  BY <1>1, FlagsOfSameSteps DEF FlagsHold
<1>6. FlagsHold'
  BY <1>5 DEF FlagsHold
<1>7. SubprocessesWrite'
  BY DEF SubprocessesWrite
<1>8. QED
  BY <1>3, <1>4, <1>6, <1>7

LEMMA TakeStep == ASSUME Generated, NEW k \in Kernels, Take(k) PROVE Generated'
<1> USE DEF Generated
<1>1. mem \in DriverState
  BY DEF Take, Threads, DriverTypes
<1>2. CASE IsComplete(mem.kernels[k], arms)
  <2>1. mem' = mem /\ busy' = busy /\ left' = left \cup {k}
    BY <1>2 DEF Take
  <2>2. /\ busy' \subseteq Kernels /\ left' \subseteq Kernels /\ busy' \cap left' = {}
        /\ unsaved' \subseteq busy'
        /\ \A j \in Kernels : gen[j] # NoSubprocess => j \in busy' \ unsaved'
    BY <2>1 DEF Take, DriverTypes, Threads
  <2>3. QED
    BY <1>1, <2>1, <2>2, SavedStep DEF Take
<1>3. CASE ~IsComplete(mem.kernels[k], arms)
  <2>1. /\ mem' = [mem EXCEPT !.kernels = [mem.kernels EXCEPT ![k] =
                      [mem.kernels[k] EXCEPT !.blocked = FALSE]]]
        /\ busy' = busy \cup {k} /\ left' = left
    BY <1>3 DEF Take
  <2>2. [mem.kernels[k] EXCEPT !.blocked = FALSE] \in KernelEntry
    BY <1>1 DEF DriverState, KernelEntry
  <2>3. mem' \in DriverState
    BY <1>1, <2>1, <2>2 DEF DriverState
  <2>4. \A j \in Kernels : mem'.kernels[j].done = mem.kernels[j].done
    BY <1>1, <2>1 DEF DriverState, KernelEntry
  <2>5. /\ busy' \subseteq Kernels /\ left' \subseteq Kernels /\ busy' \cap left' = {}
        /\ unsaved' \subseteq busy'
        /\ \A j \in Kernels : gen[j] # NoSubprocess => j \in busy' \ unsaved'
    BY <2>1 DEF Take, DriverTypes, Threads
  <2>6. QED
    BY <2>3, <2>4, <2>5, SavedStep DEF Take
<1>4. QED
  BY <1>2, <1>3

LEMMA SaveStep == ASSUME Generated, NEW k \in Kernels, Save(k) PROVE Generated'
<1> USE DEF Generated
<1>1. mem \in DriverState
  BY DEF Save, Threads, DriverTypes
<1>2. \/ busy' = busy \ {k} /\ left' = left \cup {k}
      \/ busy' = busy /\ left' = left
  BY DEF Save
<1>3. /\ busy' \subseteq Kernels /\ left' \subseteq Kernels /\ busy' \cap left' = {}
      /\ unsaved' \subseteq busy'
      /\ \A j \in Kernels : gen[j] # NoSubprocess => j \in busy' \ unsaved'
  BY <1>2 DEF Save, DriverTypes, Threads
<1>4. QED
  BY <1>1, <1>3, SavedStep DEF Save

\* The driver ends, or dies: what memory holds is gone.
LEMMA DriverStops ==
    ASSUME Generated, driver' = "off", mem' = NoState, UNCHANGED <<arms, armVars>>,
           disk' \in DriverState \cup {NoState}, FlagsOf(disk', packs, text, prov),
           busy' \subseteq Kernels, left' = {}, unsaved' = {},
           gen' = [j \in Kernels |-> NoSubprocess]
    PROVE  Generated'
<1> USE DEF Generated, armVars
<1>1. NoSubprocess \in SubprocessType
  BY DEF NoSubprocess, SubprocessType
<1>2. DriverTypes' /\ FileTypes'
  BY <1>1 DEF DriverTypes, FileTypes
<1>3. Threads' /\ SavedIsDone' /\ SubprocessesWrite'
  BY DEF Threads, SavedIsDone, SubprocessesWrite
<1>4. FlagsHold'
  BY DEF FlagsHold, FlagsOf
<1>5. QED
  BY <1>2, <1>3, <1>4

LEMMA ConcludeStep == ASSUME Generated, Conclude PROVE Generated'
<1> USE DEF Generated
<1>1. mem \in DriverState /\ mem # NoState
  BY DEF Conclude, Threads, DriverTypes
<1>2. OverallStatus(mem) \in {"running", "partial", "complete"}
  BY DEF OverallStatus
<1>3. disk' \in DriverState
  BY <1>1, <1>2 DEF Conclude, DriverState
<1>4. \A j \in Kernels : disk'.kernels[j].done = mem.kernels[j].done
  BY <1>1 DEF Conclude, DriverState
<1>5. FlagsOf(disk', packs, text, prov)
  BY <1>1, <1>4, FlagsOfSameSteps DEF FlagsHold
<1>6. \A j \in Kernels : gen[j] = NoSubprocess
  BY DEF Conclude, Threads
<1>7. gen' = [j \in Kernels |-> NoSubprocess]
  BY <1>6 DEF Conclude, DriverTypes
<1>8. QED
  BY <1>3, <1>5, <1>7, DriverStops DEF Conclude, DriverTypes

LEMMA DriverDiesStep == ASSUME Generated, DriverDies PROVE Generated'
BY DriverStops DEF DriverDies, Generated, DriverTypes, FlagsHold

LEMMA InvokeStep ==
    ASSUME Generated, NEW how \in {"new", "resume", "force"}, NEW list \in ArmLists,
           Invoke(how, list)
    PROVE  Generated'
<1> USE DEF Generated
<1>1. driver = "off" /\ mem' = LoadState(how, list) /\ disk' = LoadState(how, list)
  BY DEF Invoke
<1>2. \/ LoadState(how, list) = NewState(list)
      \/ how = "resume" /\ LoadState(how, list) = disk /\ disk # NoState
  BY DEF LoadState
<1>3. LoadState(how, list) \in DriverState /\ LoadState(how, list) # NoState
  BY <1>2, NewStates, StatesOfDrivers DEF DriverTypes
<1>4. \A j \in Kernels : gen[j] = NoSubprocess
  BY <1>1 DEF Threads
<1>5. list \in Seq(SupportedArms) /\ ToSet(list) \subseteq Arms
  BY ArmNames
<1>6. DriverTypes'
  BY <1>1, <1>3, <1>5 DEF Invoke, DriverTypes
<1>7. FileTypes'
  <2>1. CASE how = "force"
    <3>1. packs' = {} /\ text' = [k \in Kernels |-> [a \in Arms |-> 0]]
          /\ prov' = [k \in Kernels |-> [a \in Arms |-> NoProv]]
      BY <2>1 DEF Invoke, Wipe
    <3>2. NoProv \in Provenance
      BY DEF NoProv, Provenance
    <3>3. QED
      BY <3>1, <3>2 DEF FileTypes
  <2>2. CASE how # "force"
    BY <2>2 DEF Invoke, armVars, FileTypes
  <2>3. QED
    BY <2>1, <2>2
<1>8. Threads'
  BY <1>1, <1>3, <1>4 DEF Invoke, Threads
<1>9. SavedIsDone'
  BY <1>1, <1>3 DEF SavedIsDone
<1>10. SubprocessesWrite'
  BY <1>4 DEF Invoke, SubprocessesWrite
<1>11. FlagsOf(LoadState(how, list), packs', text', prov')
  <2>1. CASE LoadState(how, list) = NewState(list)
    BY <2>1, FlagsOfNewState
  <2>2. CASE how = "resume" /\ LoadState(how, list) = disk
    BY <2>2 DEF Invoke, armVars, FlagsHold
  <2>3. QED
    BY <1>2, <2>1, <2>2
<1>12. FlagsHold'
  BY <1>1, <1>11 DEF FlagsHold
<1>13. QED
  BY <1>6, <1>7, <1>8, <1>9, <1>10, <1>12
-----------------------------------------------------------------------------
(* Steps of the threads and their subprocesses.                             *)

LEMMA NothingEnds ==
    ASSUME Generated, NEW k \in Kernels, gen[k] = NoSubprocess
    PROVE  [gen EXCEPT ![k] = NoSubprocess] = gen
BY DEF Generated, DriverTypes

LEMMA ApiStep ==
    ASSUME Generated, NEW k \in Kernels,
           \/ CreateProject(k) \/ CreateRun(k) \/ SetKernel(k) \/ EnablePilot(k)
           \/ Poll(k) \/ PollTimesOut(k) \/ DumpFrontHalf(k) \/ StepFails(k)
    PROVE  Generated'
<1>1. packs \subseteq Kernels
  BY DEF Generated, FileTypes
<1>2. "dump" \notin Arms /\ "poll" \notin Arms /\ "project" \notin Arms /\ "run" \notin Arms
      /\ "kernel" \notin Arms /\ "pilot" \notin Arms
  BY ArmNames DEF ApiNames
<1>3. ASSUME NEW s \in {"project", "run", "kernel", "pilot", "poll"},
             At(k, s), Did(k, s), UNCHANGED <<gen, armVars>>
      PROVE  Generated'
  <2>1. driver = "on" /\ k \in busy \ unsaved /\ gen[k] = NoSubprocess
    BY <1>3, AtAnOpenStep
  <2>2. gen' = [gen EXCEPT ![k] = NoSubprocess]
    BY <1>3, <2>1, NothingEnds
  <2>3. s \in ApiNames \cup Arms /\ s # "dump" /\ s \notin Arms /\ s # "B_prime"
    BY <1>2 DEF ApiNames
  <2>4. text' = text /\ prov' = prov /\ packs' = packs
    BY <1>3 DEF armVars
  <2>5. QED
    BY <1>1, <1>3, <2>1, <2>2, <2>3, <2>4, DidStep
<1>4. ASSUME NEW s \in ApiNames, At(k, s), Blocked(k), UNCHANGED <<gen, text, prov>>,
             packs \subseteq packs', packs' \subseteq Kernels
      PROVE  Generated'
  <2>1. driver = "on" /\ k \in busy \ unsaved /\ gen[k] = NoSubprocess
    <3>1. s # "end"
      BY DEF ApiNames
    <3>2. QED
      BY <1>4, <3>1, AtAnOpenStep
  <2>2. gen' = [gen EXCEPT ![k] = NoSubprocess]
    BY <1>4, <2>1, NothingEnds
  <2>3. QED
    BY <1>4, <2>1, <2>2, BlockedStep
<1>5. CASE CreateProject(k)
  BY <1>3, <1>5 DEF CreateProject
<1>6. CASE CreateRun(k)
  BY <1>3, <1>6 DEF CreateRun
<1>7. CASE SetKernel(k)
  BY <1>3, <1>7 DEF SetKernel
<1>8. CASE EnablePilot(k)
  BY <1>3, <1>8 DEF EnablePilot
<1>9. CASE Poll(k)
  BY <1>1, <1>3, <1>4, <1>9 DEF Poll, armVars, ApiNames
<1>10. CASE PollTimesOut(k)
  BY <1>1, <1>4, <1>10 DEF PollTimesOut, armVars, ApiNames
<1>11. CASE DumpFrontHalf(k)
  <2>1. At(k, "dump") /\ Did(k, "dump") /\ packs' = packs \cup {k} /\ UNCHANGED <<gen, text, prov>>
    BY <1>11 DEF DumpFrontHalf
  <2>2. driver = "on" /\ k \in busy \ unsaved /\ gen[k] = NoSubprocess
    BY <2>1, AtAnOpenStep
  <2>3. gen' = [gen EXCEPT ![k] = NoSubprocess]
    BY <2>1, <2>2, NothingEnds
  <2>4. "dump" \in ApiNames \cup Arms
    BY DEF ApiNames
  <2>5. QED
    BY <1>1, <1>2, <2>1, <2>2, <2>3, <2>4, DidStep
<1>12. CASE StepFails(k)
  <2>1. PICK i \in 1..Len(ApiSteps) : At(k, ApiSteps[i])
    BY <1>12 DEF StepFails
  <2>2. ApiSteps[i] \in ApiNames
    BY DEF ApiSteps, ApiNames
  <2>3. packs' = packs \/ packs' = packs \cup {k}
    BY <1>12 DEF StepFails
  <2>4. Blocked(k) /\ UNCHANGED <<gen, text, prov>>
    BY <1>12 DEF StepFails
  <2>5. QED
    BY <1>1, <1>4, <2>1, <2>2, <2>3, <2>4
<1>13. QED
  BY <1>5, <1>6, <1>7, <1>8, <1>9, <1>10, <1>11, <1>12

LEMMA SpawnStep ==
    ASSUME Generated, NEW k \in Kernels, NEW arm \in Arms, Spawn(k, arm)
    PROVE  Generated'
<1>1. arm \notin mem.kernels[k].done /\ driver = "on" /\ k \in busy \ unsaved
      /\ gen[k] = NoSubprocess
  BY AtAnOpenStep, ArmNames DEF Spawn
<1>2. UNCHANGED armVars
  BY DEF Spawn
<1>3. CASE Blocked(k) /\ gen' = gen
  <2>1. gen' = [gen EXCEPT ![k] = NoSubprocess]
    BY <1>1, <1>3, NothingEnds
  <2>2. QED
    BY <1>1, <1>2, <1>3, <2>1, BlockedStep DEF armVars, Generated, FileTypes
<1>4. CASE /\ arm = "B_prime" => "B" \in mem.kernels[k].done
           /\ Recipe[arm].reads \subseteq Available(k)
           /\ gen' = [gen EXCEPT ![k] = Subprocess(k, arm)] /\ UNCHANGED <<driverVars, disk, given>>
  <2>1. Recipe[arm].calls \in Seq(Stages)
    <3>1. ArmF.calls \in Seq(Stages)
      <4>1. /\ <<"intake", "structure", "draft", "integrity">> \in Seq(Stages)
            /\ <<"revise">> \in Seq(Stages) /\ Reviewers \in Seq(Stages)
        BY ExperimentAssumption DEF Stages
      <4>2. QED
        BY <4>1, ConcatProperties DEF ArmF
    <3>2. <<>> \in Seq(Stages) /\ <<"write">> \in Seq(Stages) /\ <<"critique">> \in Seq(Stages)
      BY DEF Stages
    <3>3. \A a \in SupportedArms :
              Recipe[a].calls \in {ArmF.calls, <<>>, <<"write">>, <<"critique">>}
      BY DEF SupportedArms, Recipe, ArmA, ArmB, ArmBPrime, ArmC, ArmE, ArmG
    <3>4. QED
      BY <3>1, <3>2, <3>3, ArmNames
  <2>2. arm = "B_prime" => "B" \in Arms
    BY <1>4 DEF Recipe, ArmBPrime, Available
  <2>3. (IF arm = "B_prime" THEN text[k]["B"] ELSE 0) \in Nat
    BY <2>2 DEF Generated, FileTypes
  <2>4. (IF arm = "A" THEN RunUsage(k) ELSE 0) \in Nat
    BY ExperimentAssumption DEF RunUsage
  <2>5. Subprocess(k, arm) \in SubprocessType
    BY <2>1, <2>3, <2>4 DEF Subprocess, SubprocessType
  <2>6. /\ Subprocess(k, arm).arm = arm /\ Subprocess(k, arm).phase = "calls"
        /\ arm = "B_prime" => Subprocess(k, arm).base = text[k]["B"]
    BY DEF Subprocess
  <2>7. Subprocess(k, arm) # NoSubprocess
    <3>1. NoSubprocess.arm = "none" /\ arm # "none"
      BY ArmNames DEF NoSubprocess
    <3>2. QED
      BY <2>6, <3>1
  <2>8. text' \in [Kernels -> [Arms -> Nat]] /\ prov' \in [Kernels -> [Arms -> Provenance]]
    BY <1>2 DEF Generated, FileTypes, armVars
  <2>9. QED
    BY <1>1, <1>2, <1>4, <2>5, <2>6, <2>7, <2>8, SubprocessStep DEF armVars
<1>5. QED
  BY <1>3, <1>4 DEF Spawn

\* What is known of a subprocess at work.
LEMMA AtWork ==
    ASSUME Generated, NEW k \in Kernels, gen[k] # NoSubprocess
    PROVE  /\ gen[k] \in SubprocessType /\ gen[k].arm \in Arms \ mem.kernels[k].done
           /\ driver = "on" /\ k \in busy \ unsaved
           /\ gen[k].arm = "B_prime" =>
                 "B" \in mem.kernels[k].done /\ gen[k].base = text[k]["B"]
           /\ text \in [Kernels -> [Arms -> Nat]] /\ prov \in [Kernels -> [Arms -> Provenance]]
BY DEF Generated, DriverTypes, FileTypes, Threads, SubprocessesWrite

LEMMA CallStep == ASSUME Generated, NEW k \in Kernels, Call(k) PROVE Generated'
<1>1. gen[k] # NoSubprocess /\ gen[k].phase = "calls" /\ gen[k].stages # <<>>
  BY DEF Call, Working
<1>2. PICK cost \in CallCosts, stages \in Seq(Stages) :
          gen' = [gen EXCEPT ![k] = [gen[k] EXCEPT !.stages = stages,
                                                   !.spent = gen[k].spent + cost]]
  <2>1. gen[k].stages \in Seq(Stages)
    BY <1>1, AtWork DEF SubprocessType
  <2>2. Tail(gen[k].stages) \in Seq(Stages) /\ <<"retry">> \in Seq(Stages)
    BY <1>1, <2>1 DEF Stages
  <2>3. PICK cost \in CallCosts :
           \/ gen' = [gen EXCEPT ![k].stages = Tail(@), ![k].spent = @ + cost]
           \/ gen' = [gen EXCEPT ![k].stages = <<"retry">>, ![k].spent = @ + cost]
    BY DEF Call
  <2>4. gen \in [Kernels -> SubprocessType]
    BY DEF Generated, DriverTypes
  <2>5. \/ gen' = [gen EXCEPT ![k] = [gen[k] EXCEPT !.stages = Tail(gen[k].stages),
                                                   !.spent = gen[k].spent + cost]]
        \/ gen' = [gen EXCEPT ![k] = [gen[k] EXCEPT !.stages = <<"retry">>,
                                                   !.spent = gen[k].spent + cost]]
    BY <2>3, <2>4 DEF SubprocessType
  <2>6. QED
    BY <2>2, <2>5
<1> DEFINE g == [gen[k] EXCEPT !.stages = stages, !.spent = gen[k].spent + cost]
<1>3. /\ g \in SubprocessType /\ g.arm = gen[k].arm /\ g.phase = "calls"
      /\ g.base = gen[k].base
  <2>1. gen[k] \in SubprocessType /\ cost \in Nat
    BY <1>1, AtWork, ExperimentAssumption
  <2>2. gen[k].spent + cost \in Nat
    BY <2>1 DEF SubprocessType
  <2>3. QED
    BY <1>1, <2>1, <2>2 DEF SubprocessType
<1>4. g # NoSubprocess
  BY <1>1, <1>3, AtWork, ArmNames DEF NoSubprocess
<1>5. UNCHANGED <<driverVars, disk, armVars>>
  BY DEF Call
<1>6. gen' = [gen EXCEPT ![k] = g]
  BY <1>2
<1> HIDE DEF g
<1>7. QED
  BY <1>1, <1>3, <1>4, <1>5, <1>6, AtWork, SubprocessStep DEF armVars

LEMMA GenerationFailsStep ==
    ASSUME Generated, NEW k \in Kernels, GenerationFails(k) PROVE Generated'
BY AtWork, BlockedStep DEF GenerationFails, armVars, Generated, FileTypes

LEMMA WriteManuscriptStep ==
    ASSUME Generated, NEW k \in Kernels, WriteManuscript(k) PROVE Generated'
<1>1. gen[k] # NoSubprocess /\ gen[k].phase = "calls"
  BY DEF WriteManuscript, Working
<1>2. packs' = packs /\ prov' = prov /\ packs \subseteq Kernels
  BY DEF WriteManuscript, Generated, FileTypes
<1>3. CASE gen' = [gen EXCEPT ![k] = NoSubprocess] /\ Blocked(k) /\ text' = text
  BY <1>1, <1>2, <1>3, AtWork, BlockedStep
<1>4. CASE /\ gen' = [gen EXCEPT ![k].phase = "written"]
           /\ text' = [text EXCEPT ![k][gen[k].arm] = @ + 1]
           /\ UNCHANGED <<driverVars, disk>>
  <2> DEFINE g == [gen[k] EXCEPT !.phase = "written"]
  <2>1. /\ g \in SubprocessType /\ g.arm = gen[k].arm /\ g.phase = "written"
        /\ g.base = gen[k].base
    BY <1>1, AtWork DEF SubprocessType
  <2>2. g # NoSubprocess
    BY <1>1, <2>1, AtWork, ArmNames DEF NoSubprocess
  <2>3. gen' = [gen EXCEPT ![k] = g]
    BY <1>4
  <2> HIDE DEF g
  <2>4. /\ text' \in [Kernels -> [Arms -> Nat]]
        /\ text'[k][gen[k].arm] > 0
        /\ \A j \in Kernels, a \in Arms : j # k \/ a # gen[k].arm => text'[j][a] = text[j][a]
    <3>1. text' = [text EXCEPT ![k] = [text[k] EXCEPT ![gen[k].arm] = text[k][gen[k].arm] + 1]]
      BY <1>4
    <3>2. text[k] \in [Arms -> Nat] /\ gen[k].arm \in Arms /\ text[k][gen[k].arm] \in Nat
      BY <1>1, AtWork
    <3>3. [text[k] EXCEPT ![gen[k].arm] = text[k][gen[k].arm] + 1] \in [Arms -> Nat]
      BY <3>2
    <3>4. QED
      BY <1>1, <3>1, <3>2, <3>3, AtWork
  <2>5. /\ driver = "on" /\ k \in busy \ unsaved /\ g.arm \in Arms \ mem.kernels[k].done
        /\ g.arm = "B_prime" => "B" \in mem.kernels[k].done /\ g.base = text[k]["B"]
        /\ prov' \in [Kernels -> [Arms -> Provenance]]
    BY <1>1, <1>2, <2>1, AtWork
  <2>6. \A j \in Kernels, a \in Arms : j # k \/ a # g.arm =>
            text'[j][a] = text[j][a] /\ prov'[j][a] = prov[j][a]
    BY <1>2, <2>1, <2>4
  <2>7. UNCHANGED <<driverVars, disk, packs>> /\ text'[k][g.arm] > 0 /\ g.phase # "recorded"
    BY <1>2, <1>4, <2>1, <2>4
  <2>8. QED
    BY <2>1, <2>2, <2>3, <2>4, <2>5, <2>6, <2>7, SubprocessStep
<1>5. QED
  BY <1>3, <1>4 DEF WriteManuscript

LEMMA WriteProvenanceStep ==
    ASSUME Generated, NEW k \in Kernels, WriteProvenance(k) PROVE Generated'
<1>1. gen[k] # NoSubprocess /\ gen[k].phase = "written"
  BY DEF WriteProvenance, Working
<1> DEFINE g == [gen[k] EXCEPT !.phase = "recorded"]
           entry == [of |-> text[k][gen[k].arm], base |-> gen[k].base, cost |-> gen[k].spent]
<1>2. /\ g \in SubprocessType /\ g.arm = gen[k].arm /\ g.phase = "recorded"
      /\ g.base = gen[k].base
  BY <1>1, AtWork DEF SubprocessType
<1>3. g # NoSubprocess
  BY <1>1, <1>2, AtWork, ArmNames DEF NoSubprocess
<1>4. gen' = [gen EXCEPT ![k] = g]
  BY DEF WriteProvenance
<1>5. entry \in Provenance /\ entry.of = text[k][gen[k].arm] /\ entry.base = gen[k].base
  BY <1>1, AtWork DEF Provenance, SubprocessType
<1>6. prov' = [prov EXCEPT ![k] = [prov[k] EXCEPT ![gen[k].arm] = entry]]
  BY DEF WriteProvenance
<1> HIDE DEF g, entry
<1>7. /\ prov' \in [Kernels -> [Arms -> Provenance]]
      /\ prov'[k][gen[k].arm] = entry
      /\ \A j \in Kernels, a \in Arms : j # k \/ a # gen[k].arm => prov'[j][a] = prov[j][a]
  <2>1. prov[k] \in [Arms -> Provenance] /\ gen[k].arm \in Arms
    BY <1>1, AtWork
  <2>2. [prov[k] EXCEPT ![gen[k].arm] = entry] \in [Arms -> Provenance]
    BY <1>5, <2>1
  <2>3. QED
    BY <1>1, <1>6, <2>1, <2>2, AtWork
<1>8. text[k][gen[k].arm] > 0
  BY <1>1 DEF Generated, SubprocessesWrite
<1>9. UNCHANGED <<driverVars, disk, packs, text>>
  BY DEF WriteProvenance
<1>10. /\ driver = "on" /\ k \in busy \ unsaved /\ g.arm \in Arms \ mem.kernels[k].done
       /\ g.arm = "B_prime" => "B" \in mem.kernels[k].done /\ g.base = text[k]["B"]
       /\ text' \in [Kernels -> [Arms -> Nat]]
  BY <1>1, <1>2, <1>9, AtWork
<1>11. \A j \in Kernels, a \in Arms : j # k \/ a # g.arm =>
           text'[j][a] = text[j][a] /\ prov'[j][a] = prov[j][a]
  BY <1>2, <1>7, <1>9
<1>12. /\ text'[k][g.arm] > 0
       /\ prov'[k][g.arm].of = text'[k][g.arm] /\ prov'[k][g.arm].base = g.base
  BY <1>2, <1>5, <1>7, <1>8, <1>9
<1>13. QED
  BY <1>2, <1>3, <1>4, <1>7, <1>9, <1>10, <1>11, <1>12, SubprocessStep

LEMMA FlagArmStep == ASSUME Generated, NEW k \in Kernels, FlagArm(k) PROVE Generated'
<1>1. gen[k] # NoSubprocess /\ gen[k].phase = "recorded"
  BY DEF FlagArm, Working
<1>2. gen' = [gen EXCEPT ![k] = NoSubprocess] /\ packs' = packs /\ text' = text /\ prov' = prov
      /\ packs \subseteq Kernels
  BY DEF FlagArm, armVars, Generated, FileTypes
<1>3. CASE Blocked(k)
  BY <1>1, <1>2, <1>3, AtWork, BlockedStep
<1>4. CASE Did(k, gen[k].arm)
  <2>1. /\ text[k][gen[k].arm] > 0
        /\ prov[k][gen[k].arm].of = text[k][gen[k].arm]
        /\ prov[k][gen[k].arm].base = gen[k].base
    BY <1>1 DEF Generated, SubprocessesWrite
  <2>2. gen[k].arm # "dump" /\ gen[k].arm \in ApiNames \cup Arms
    BY <1>1, AtWork, ArmNames DEF ApiNames
  <2>3. QED
    BY <1>1, <1>2, <1>4, <2>1, <2>2, AtWork, DidStep
<1>5. QED
  BY <1>3, <1>4 DEF FlagArm
-----------------------------------------------------------------------------
(* Steps of the experiment.                                                 *)

\* What the driver, its threads and the server do for kernel k.
DriverSteps(k) ==
    \/ Take(k) \/ Save(k)
    \/ CreateProject(k) \/ CreateRun(k) \/ SetKernel(k) \/ EnablePilot(k)
    \/ Poll(k) \/ PollTimesOut(k) \/ DumpFrontHalf(k) \/ StepFails(k)
    \/ (\E a \in Arms : Spawn(k, a))
    \/ Call(k) \/ GenerationFails(k) \/ WriteManuscript(k) \/ WriteProvenance(k) \/ FlagArm(k)
    \/ RunEnds(k)

\* What the operator's other commands and the judges do.
BlindSteps ==
    \/ \E force \in BOOLEAN : BuildBlindset(force)
    \/ \E a \in Arms : AppendArm(a)
    \/ Blind \/ WriteMap \/ BuilderDies \/ Scoring

LEMMA StepsOfTheExperiment ==
    ExperimentNext =>
        \/ \E how \in {"new", "resume", "force"}, list \in ArmLists : Invoke(how, list)
        \/ \E k \in Kernels : DriverSteps(k)
        \/ Conclude \/ DriverDies \/ BlindSteps
BY DEF ExperimentNext, Worker, DriverSteps, BlindSteps

LEMMA BlindSetIsLeft ==
    ASSUME (\E k \in Kernels : DriverSteps(k)) \/ Conclude \/ DriverDies
    PROVE  UNCHANGED <<blindVars, given>>
BY DEF DriverSteps, Take, Save, CreateProject, CreateRun, SetKernel, EnablePilot, Poll,
       PollTimesOut, DumpFrontHalf, StepFails, Spawn, Call, GenerationFails, WriteManuscript,
       WriteProvenance,
       FlagArm, RunEnds, Conclude, DriverDies, Did, Blocked, Mishap

LEMMA DriverIsLeft ==
    ASSUME BlindSteps
    PROVE  UNCHANGED <<driverVars, disk, gen, serverVars, armVars>>
BY DEF BlindSteps, BuildBlindset, AppendArm, Blind, WriteMap, BuilderDies, Scoring, Judge, Aggregate

LEMMA GeneratedNext == Generated /\ [ExperimentNext]_experimentVars => Generated'
<1> SUFFICES ASSUME Generated, [ExperimentNext]_experimentVars PROVE Generated'
  OBVIOUS
<1>1. CASE UNCHANGED experimentVars
  BY <1>1, GeneratedStutters DEF experimentVars, driverVars, armVars
<1>2. CASE \E how \in {"new", "resume", "force"}, list \in ArmLists : Invoke(how, list)
  BY <1>2, InvokeStep
<1>3. ASSUME NEW k \in Kernels, DriverSteps(k) PROVE Generated'
  <2>1. CASE RunEnds(k)
    BY <2>1, GeneratedStutters DEF RunEnds
  <2>2. QED
    BY <1>3, <2>1, TakeStep, SaveStep, ApiStep, SpawnStep, CallStep, GenerationFailsStep,
       WriteManuscriptStep, WriteProvenanceStep, FlagArmStep DEF DriverSteps
<1>4. CASE Conclude \/ DriverDies
  BY <1>4, ConcludeStep, DriverDiesStep
<1>5. CASE BlindSteps
  BY <1>5, DriverIsLeft, GeneratedStutters
<1>6. QED
  BY <1>1, <1>2, <1>3, <1>4, <1>5, StepsOfTheExperiment
-----------------------------------------------------------------------------
(* The blind set.                                                           *)

LEMMA BlindSetStutters ==
    ASSUME BlindSet, UNCHANGED <<copies, map, builder>> PROVE BlindSet'
BY DEF BlindSet, BlindTypes, IdsAreUnique, IdsAreOf, Mapped, Ids

\* Fewer entries, no new identifier.
LEMMA FewerIds ==
    ASSUME NEW S, NEW T, T \subseteq S, IdsAreOf(S) PROVE IdsAreOf(T)
BY DEF IdsAreOf

LEMMA ManuscriptsAreOfArms == Manuscripts \subseteq Kernels \X Arms
BY DEF Manuscripts

LEMMA BlindIsFresh == ASSUME Generated, BlindSet, Blind PROVE BlindSet'
<1> DEFINE m == CHOOSE n \in builder.todo : TRUE
           e == [id |-> FreshId, kernel |-> m[1], arm |-> m[2]]
           c == [id |-> FreshId, kernel |-> m[1], arm |-> m[2],
                 of |-> text[m[1]][m[2]], judges |-> {}]
           known == copies \cup Mapped \cup builder.entries
<1>1. FreshId \in Ids /\ FreshId \notin UsedIds
  BY DEF Blind, FreshId
<1>2. m \in Kernels \X Arms /\ m \in builder.todo
  BY DEF Blind, BlindSet, BlindTypes
<1>3. text[m[1]][m[2]] \in Nat
  BY <1>2 DEF Generated, FileTypes
<1>4. e \in Blinded /\ c \in Copy
  BY <1>1, <1>2, <1>3 DEF Blinded, Copy
<1>5. /\ builder' = [todo |-> builder.todo \ {m}, entries |-> builder.entries \cup {e}]
      /\ copies' = copies \cup {c} /\ map' = map
  BY DEF Blind
<1>6. e.id = FreshId /\ c.id = FreshId /\ e.kernel = c.kernel /\ e.arm = c.arm
  OBVIOUS
<1>7. \A d \in known : d.id # FreshId
  BY <1>1 DEF UsedIds, Mapped
<1> HIDE DEF m, e, c
<1>8. Ids' = Ids
  BY DEF Ids
<1>9. BlindTypes'
  BY <1>4, <1>5, <1>8 DEF BlindSet, BlindTypes, Blinded, Copy
<1>10. (copies \cup Mapped \cup builder.entries)' = known \cup {e, c}
  BY <1>5 DEF Mapped
<1>11. IdsAreOf(known \cup {e, c})
  BY <1>6, <1>7 DEF BlindSet, IdsAreUnique, IdsAreOf
<1>12. QED
  BY <1>9, <1>10, <1>11 DEF BlindSet, IdsAreUnique

LEMMA BlindSetNext ==
    Generated /\ BlindSet /\ [ExperimentNext]_experimentVars => BlindSet'
<1> SUFFICES ASSUME Generated, BlindSet, [ExperimentNext]_experimentVars PROVE BlindSet'
  OBVIOUS
<1> USE DEF BlindSet
<1>1. CASE UNCHANGED experimentVars
  BY <1>1, BlindSetStutters DEF experimentVars
<1>2. ASSUME NEW T, T \subseteq copies \cup Mapped \cup builder.entries,
             (copies \cup Mapped \cup builder.entries)' = T, BlindTypes'
      PROVE  BlindSet'
  BY <1>2, FewerIds DEF IdsAreUnique
<1>3. Ids' = Ids /\ Blinded' = Blinded /\ Copy' = Copy
  BY DEF Ids, Blinded, Copy
<1>4. NoBuilder \in [todo : SUBSET (Kernels \X Arms), entries : SUBSET Blinded]
      /\ NoBuilder.entries = {}
  BY DEF NoBuilder
<1>5. ASSUME NEW how \in {"new", "resume", "force"}, NEW list \in ArmLists, Invoke(how, list)
      PROVE  BlindSet'
  <2>1. CASE how = "force"
    <3>1. copies' = {} /\ map' = NoMap /\ builder' = builder
      BY <1>5, <2>1 DEF Invoke, Wipe, blindVars
    <3>2. BlindTypes'
      BY <1>3, <3>1 DEF BlindTypes
    <3>3. (copies \cup Mapped \cup builder.entries)'
        \subseteq copies \cup Mapped \cup builder.entries
      BY <3>1 DEF Mapped
    <3>4. QED
      BY <1>2, <3>2, <3>3
  <2>2. CASE how # "force"
    BY <1>5, <2>2, BlindSetStutters DEF Invoke, blindVars
  <2>3. QED
    BY <2>1, <2>2
<1>6. CASE (\E k \in Kernels : DriverSteps(k)) \/ Conclude \/ DriverDies
  BY <1>6, BlindSetIsLeft, BlindSetStutters DEF blindVars
<1>7. ASSUME NEW force \in BOOLEAN, BuildBlindset(force) PROVE BlindSet'
  <2>1. /\ builder' = [todo |-> Manuscripts, entries |-> {}]
        /\ copies' \subseteq copies /\ map' = map
    BY <1>7 DEF BuildBlindset
  <2>2. BlindTypes'
    BY <1>3, <2>1, ManuscriptsAreOfArms DEF BlindTypes
  <2>3. (copies \cup Mapped \cup builder.entries)'
        \subseteq copies \cup Mapped \cup builder.entries
    BY <2>1 DEF Mapped
  <2>4. QED
    BY <1>2, <2>2, <2>3
<1>8. ASSUME NEW arm \in Arms, AppendArm(arm) PROVE BlindSet'
  <2>1. PICK todo \in SUBSET Manuscripts : builder' = [todo |-> todo, entries |-> map]
    BY <1>8 DEF AppendArm
  <2>2. copies' = copies /\ map' = map /\ map # NoMap
    BY <1>8 DEF AppendArm
  <2>3. BlindTypes'
    BY <1>3, <2>1, <2>2, ManuscriptsAreOfArms DEF BlindTypes
  <2>4. (copies \cup Mapped \cup builder.entries)'
        \subseteq copies \cup Mapped \cup builder.entries
    BY <2>1, <2>2 DEF Mapped
  <2>5. QED
    BY <1>2, <2>3, <2>4
<1>9. CASE Blind
  BY <1>9, BlindIsFresh
<1>10. CASE WriteMap
  <2>1. map' = builder.entries /\ builder' = NoBuilder /\ copies' = copies
    BY <1>10 DEF WriteMap
  <2>2. BlindTypes'
    BY <1>3, <1>4, <2>1 DEF BlindTypes
  <2>3. (copies \cup Mapped \cup builder.entries)'
        \subseteq copies \cup Mapped \cup builder.entries
    BY <1>4, <2>1 DEF Mapped
  <2>4. QED
    BY <1>2, <2>2, <2>3
<1>11. CASE BuilderDies
  <2>1. map' = map /\ builder' = NoBuilder /\ copies' = copies
    BY <1>11 DEF BuilderDies
  <2>2. BlindTypes'
    BY <1>3, <1>4, <2>1 DEF BlindTypes
  <2>3. (copies \cup Mapped \cup builder.entries)'
        \subseteq copies \cup Mapped \cup builder.entries
    BY <1>4, <2>1 DEF Mapped
  <2>4. QED
    BY <1>2, <2>2, <2>3
<1>12. ASSUME NEW c \in copies, NEW j \in JudgeIds, Judge(c, j) PROVE BlindSet'
  <2> DEFINE d == [c EXCEPT !.judges = c.judges \cup {j}]
  <2>1. copies' = (copies \ {c}) \cup {d} /\ map' = map /\ builder' = builder
    BY <1>12 DEF Judge
  <2>2. d \in Copy /\ d.id = c.id /\ d.kernel = c.kernel /\ d.arm = c.arm
    BY DEF BlindTypes, Copy
  <2> HIDE DEF d
  <2>3. BlindTypes'
    BY <1>3, <2>1, <2>2 DEF BlindTypes
  <2>4. (copies \cup Mapped \cup builder.entries)'
          \subseteq copies \cup Mapped \cup builder.entries \cup {d}
    BY <2>1 DEF Mapped
  <2>5. IdsAreOf(copies \cup Mapped \cup builder.entries \cup {d})
    BY <2>2 DEF IdsAreUnique, IdsAreOf
  <2>6. QED
    BY <2>3, <2>4, <2>5, FewerIds DEF IdsAreUnique
<1>13. CASE Aggregate
  BY <1>13, BlindSetStutters DEF Aggregate
<1>14. CASE BlindSteps
  BY <1>7, <1>8, <1>9, <1>10, <1>11, <1>12, <1>13, <1>14 DEF BlindSteps, Scoring
<1>15. QED
  BY <1>1, <1>5, <1>6, <1>14, StepsOfTheExperiment
-----------------------------------------------------------------------------
(* The server and the counts.                                               *)

LEMMA ServerTypesNext ==
    ServerTypes /\ [ExperimentNext]_experimentVars => ServerTypes'
<1> SUFFICES ASSUME ServerTypes, [ExperimentNext]_experimentVars PROVE ServerTypes'
  OBVIOUS
<1> USE DEF ServerTypes
<1>1. ASSUME UNCHANGED serverVars, \/ given' = given
                                   \/ \E to \in {"driver", "blindset"} :
                                         given' = [given EXCEPT ![to] = @ + 1],
             mishaps' = mishaps \/ mishaps' = mishaps + 1
      PROVE  ServerTypes'
  BY <1>1 DEF serverVars
<1>2. CASE UNCHANGED experimentVars
  BY <1>2 DEF experimentVars
<1>3. CASE \E how \in {"new", "resume", "force"}, list \in ArmLists : Invoke(how, list)
  BY <1>1, <1>3 DEF Invoke, Command
<1>4. ASSUME NEW k \in Kernels, DriverSteps(k) PROVE ServerTypes'
  <2>1. given' = given
    BY <1>4, BlindSetIsLeft
  <2>2. mishaps' = mishaps \/ mishaps' = mishaps + 1
    BY <1>4 DEF DriverSteps, Take, Save, CreateProject, CreateRun, SetKernel, EnablePilot, Poll,
        PollTimesOut, DumpFrontHalf, StepFails, Spawn, Call, GenerationFails, WriteManuscript,
        WriteProvenance, FlagArm, RunEnds, Mishap
  <2>3. made' = made \/ made' = [made EXCEPT ![k] = @ + 1]
    BY <1>4 DEF DriverSteps, Take, Save, CreateProject, CreateRun, SetKernel, EnablePilot, Poll,
        PollTimesOut, DumpFrontHalf, StepFails, Spawn, Call, GenerationFails, WriteManuscript,
        WriteProvenance, FlagArm, RunEnds, serverVars
  <2>4. \/ aRun' = aRun
        \/ \E reached \in {"new", "going", "ready", "costly", "failed"} :
              aRun' = [aRun EXCEPT ![k] = reached]
    <3>1. CASE EnablePilot(k)
      <4>1. CASE aRun[k] = "new"
        BY <3>1, <4>1 DEF EnablePilot
      <4>2. CASE aRun[k] # "new"
        BY <3>1, <4>2 DEF EnablePilot
      <4>3. QED
        BY <4>1, <4>2
    <3>2. CASE ~EnablePilot(k)
      BY <1>4, <3>2 DEF DriverSteps, Take, Save, CreateProject, CreateRun, SetKernel, Poll,
         PollTimesOut, DumpFrontHalf, StepFails, Spawn, Call, GenerationFails, WriteManuscript,
         WriteProvenance, FlagArm, RunEnds, serverVars
    <3>3. QED
      BY <3>1, <3>2
  <2>5. made' \in [Kernels -> Nat]
    BY <2>3
  <2>6. aRun' \in [Kernels -> {"none", "new", "going", "ready", "costly", "failed"}]
    BY <2>4
  <2>7. QED
    BY <2>1, <2>2, <2>5, <2>6
<1>5. CASE Conclude \/ DriverDies
  BY <1>1, <1>5, BlindSetIsLeft DEF Conclude, DriverDies, Mishap
<1>6. CASE BlindSteps
  <2>1. \/ given' = given
        \/ \E to \in {"driver", "blindset"} : given' = [given EXCEPT ![to] = @ + 1]
    BY <1>6 DEF BlindSteps, BuildBlindset, AppendArm, Blind, WriteMap, BuilderDies, Scoring, Judge,
       Aggregate, Command
  <2>2. mishaps' = mishaps \/ mishaps' = mishaps + 1
    BY <1>6 DEF BlindSteps, BuildBlindset, AppendArm, Blind, WriteMap, BuilderDies, Scoring, Judge,
       Aggregate, Mishap
  <2>3. QED
    BY <1>1, <1>6, <2>1, <2>2, DriverIsLeft
<1>7. QED
  BY <1>2, <1>3, <1>4, <1>5, <1>6, StepsOfTheExperiment

LEMMA ExperimentStarts == ExperimentInit => ExperimentInvariant
<1> SUFFICES ASSUME ExperimentInit PROVE ExperimentInvariant
  OBVIOUS
<1> USE DEF ExperimentInit
<1>1. NoSubprocess \in SubprocessType /\ NoProv \in Provenance
  BY DEF NoSubprocess, SubprocessType, NoProv, Provenance
<1>2. arms \in Seq(SupportedArms) /\ ToSet(arms) \subseteq Arms
  BY DEF ToSet
<1>3. DriverTypes /\ FileTypes
  BY <1>1, <1>2 DEF DriverTypes, FileTypes
<1>4. Threads /\ SavedIsDone /\ FlagsHold /\ SubprocessesWrite
  BY DEF Threads, SavedIsDone, FlagsHold, FlagsOf, SubprocessesWrite
<1>5. BlindSet
  BY DEF BlindSet, BlindTypes, IdsAreUnique, IdsAreOf, Mapped, NoBuilder
<1>6. ServerTypes
  BY DEF ServerTypes
<1>7. QED
  BY <1>3, <1>4, <1>5, <1>6 DEF ExperimentInvariant, Generated

\* The inductive invariant: the types, and what the driver's state, the subprocesses and
\* the blind set say of the files.
THEOREM ExperimentInductive == ExperimentSpec => []ExperimentInvariant
<1>1. ExperimentInvariant /\ [ExperimentNext]_experimentVars => ExperimentInvariant'
  BY GeneratedNext, BlindSetNext, ServerTypesNext DEF ExperimentInvariant
<1>2. QED
  BY <1>1, ExperimentStarts, PTL DEF ExperimentSpec
-----------------------------------------------------------------------------
(* What the experiment promises.                                            *)

\* driver_state.json never calls a front half or an arm done whose files are not on disk,
\* whichever invocations, threads and subprocesses died on the way (_save_state and
\* _generate_arm of abc_driver.py).
THEOREM FlagsAreAlwaysTrue == ExperimentSpec => []FlagsAreTrue
<1>1. ExperimentInvariant => FlagsAreTrue
  BY DEF ExperimentInvariant, Generated, FlagsHold, FlagsOf, FlagsAreTrue
<1>2. QED
  BY <1>1, ExperimentInductive, PTL

\* "B must complete before B_prime": an arm B_prime that is flagged critiques the manuscript
\* of B beside it, through every forced invocation, resume and crash.
THEOREM CritiquesAreOfTheSubmission == ExperimentSpec => []CritiqueIsOfTheSubmission
<1>1. ExperimentInvariant => CritiqueIsOfTheSubmission
  <2> SUFFICES ASSUME ExperimentInvariant, disk # NoState, NEW k \in Kernels,
                      "B_prime" \in disk.kernels[k].done
               PROVE  prov[k]["B_prime"].base = text[k]["B"] /\ text[k]["B"] > 0
    BY DEF CritiqueIsOfTheSubmission
  <2>1. "B" \in disk.kernels[k].done /\ prov[k]["B_prime"].base = text[k]["B"]
    BY DEF ExperimentInvariant, Generated, FlagsHold, FlagsOf
  <2>2. disk.kernels[k].done \subseteq ApiNames \cup Arms
    BY DEF ExperimentInvariant, Generated, DriverTypes, DriverState, KernelEntry
  <2>3. "B" \in Arms
    BY <2>1, <2>2 DEF ApiNames
  <2>4. QED
    BY <2>1, <2>3 DEF ExperimentInvariant, Generated, FlagsHold, FlagsOf
<1>2. QED
  BY <1>1, ExperimentInductive, PTL

\* Each save of a thread, each resume and each crash keeps what was saved, and the server
\* is asked for a kernel's run only while none is saved (the step table of abc_driver.py).
THEOREM ProgressIsAlwaysKept == ExperimentSpec => ProgressIsKept
<1> DEFINE Kept == \A k \in Kernels :
              disk # NoState =>
                  /\ disk.kernels[k].done \subseteq disk'.kernels[k].done
                  /\ "run" \in disk.kernels[k].done => made'[k] = made[k]
<1>1. ASSUME ExperimentInvariant, [ExperimentNext]_experimentVars
      PROVE  [(\E list \in ArmLists : Invoke("force", list)) \/ Kept]_experimentVars
  <2> USE <1>1
  <2>1. ASSUME disk' = disk, made' = made PROVE Kept
    BY <2>1
  <2>2. ASSUME NEW how \in {"new", "resume"}, NEW list \in ArmLists, Invoke(how, list)
        PROVE  Kept
    <3>1. made' = made
      BY <2>2 DEF Invoke, serverVars
    <3>2. disk # NoState => disk' = disk
      BY <2>2 DEF Invoke, LoadState
    <3>3. QED
      BY <3>1, <3>2
  <2>3. ASSUME NEW k \in Kernels, DriverSteps(k) PROVE Kept
    <3>1. CASE Take(k) \/ Save(k)
      <4>1. disk' = mem' /\ made' = made /\ driver = "on"
        BY <3>1 DEF Take, Save, serverVars
      <4>2. \A j \in Kernels : mem.kernels[j].done = mem'.kernels[j].done
        <5>1. mem \in DriverState
          BY <4>1 DEF ExperimentInvariant, Generated, Threads, DriverTypes
        <5>2. \/ mem' = mem
              \/ mem' = [mem EXCEPT !.kernels = [mem.kernels EXCEPT ![k] =
                            [mem.kernels[k] EXCEPT !.blocked = FALSE]]]
          BY <3>1 DEF Take, Save
        <5>3. QED
          BY <5>1, <5>2 DEF DriverState, KernelEntry
      <4>3. QED
        BY <4>1, <4>2 DEF ExperimentInvariant, Generated, SavedIsDone
    <3>2. CASE CreateRun(k) \/ StepFails(k)
      <4>1. disk' = disk /\ (made' = made \/ made' = [made EXCEPT ![k] = @ + 1])
        BY <3>2 DEF CreateRun, StepFails, serverVars, Did, Blocked
      <4>2. CASE made' = made
        BY <2>1, <4>1, <4>2
      <4>3. CASE made' # made
        <5>1. At(k, "run")
          <6>1. CASE CreateRun(k)
            BY <6>1 DEF CreateRun
          <6>2. CASE StepFails(k)
            BY <4>3, <6>2 DEF StepFails, serverVars
          <6>3. QED
            BY <3>2, <6>1, <6>2
        <5>2. "run" \notin mem.kernels[k].done /\ driver = "on"
          BY <5>1, AtAnOpenStep DEF ExperimentInvariant
        <5>3. "run" \notin disk.kernels[k].done
          BY <5>2 DEF ExperimentInvariant, Generated, SavedIsDone
        <5>4. \A j \in Kernels : j # k => made'[j] = made[j]
          BY <4>1 DEF ExperimentInvariant, ServerTypes
        <5>5. QED
          BY <4>1, <5>3, <5>4
      <4>4. QED
        BY <4>2, <4>3
    <3>3. CASE ~(Take(k) \/ Save(k) \/ CreateRun(k) \/ StepFails(k))
      <4>1. disk' = disk /\ made' = made
        BY <2>3, <3>3 DEF DriverSteps, CreateProject, SetKernel, EnablePilot, Poll, PollTimesOut,
           DumpFrontHalf, Spawn, Call, GenerationFails, WriteManuscript, WriteProvenance, FlagArm,
           RunEnds, Did, Blocked, serverVars
      <4>2. QED
        BY <2>1, <4>1
    <3>4. QED
      BY <3>1, <3>2, <3>3
  <2>4. CASE Conclude
    <3>1. driver = "on" /\ made' = made /\ disk' = [mem EXCEPT !.status = OverallStatus(mem)]
      BY <2>4 DEF Conclude, serverVars
    <3>2. \A j \in Kernels : disk'.kernels[j].done = mem.kernels[j].done
      BY <3>1 DEF ExperimentInvariant, Generated, Threads, DriverTypes, DriverState
    <3>3. QED
      BY <3>1, <3>2 DEF ExperimentInvariant, Generated, SavedIsDone
  <2>5. CASE DriverDies
    BY <2>1, <2>5 DEF DriverDies, serverVars
  <2>6. CASE BlindSteps
    BY <2>1, <2>6, DriverIsLeft DEF serverVars
  <2> HIDE DEF Kept
  <2>7. CASE \E how \in {"new", "resume", "force"}, list \in ArmLists : Invoke(how, list)
    BY <2>2, <2>7
  <2>8. QED
    BY <2>3, <2>4, <2>5, <2>6, <2>7, StepsOfTheExperiment
<1>2. [(\E list \in ArmLists : Invoke("force", list)) \/ Kept]_experimentVars
        => [\/ \E list \in ArmLists : Invoke("force", list)
            \/ \A k \in Kernels :
                  disk # NoState =>
                      /\ disk.kernels[k].done \subseteq disk'.kernels[k].done
                      /\ "run" \in disk.kernels[k].done => made'[k] = made[k]]_experimentVars
  OBVIOUS
<1> HIDE DEF Kept
<1>3. QED
  BY <1>1, <1>2, ExperimentInductive, PTL DEF ExperimentSpec, ProgressIsKept

\* A report counts every blinded manuscript once, under its own kernel and arm, and no
\* folder of a build that died, after whichever builds and appends (aggregate of
\* abc-aggregate.py).
THEOREM ReportsAreWhole == ExperimentSpec => ReportIsWhole
<1> DEFINE Whole ==
        report' # report /\ report' # {} =>
            /\ {[kernel |-> c.kernel, arm |-> c.arm, id |-> c.id] : c \in copies}
                 = {[kernel |-> r.kernel, arm |-> r.arm, id |-> r.id] : r \in report'}
            /\ \A r, q \in report' : r.kernel = q.kernel /\ r.arm = q.arm => r = q
<1>1. ASSUME ExperimentInvariant, [ExperimentNext]_experimentVars
      PROVE  Whole
  <2> SUFFICES ASSUME report' # report, report' # {}
               PROVE  /\ {[kernel |-> c.kernel, arm |-> c.arm, id |-> c.id] : c \in copies}
                           = {[kernel |-> r.kernel, arm |-> r.arm, id |-> r.id] : r \in report'}
                      /\ \A r, q \in report' : r.kernel = q.kernel /\ r.arm = q.arm => r = q
    OBVIOUS
  <2>1. Aggregate
    <3>1. ~UNCHANGED experimentVars
      BY DEF experimentVars
    <3>2. ~(\E how \in {"new", "resume", "force"}, list \in ArmLists : Invoke(how, list))
      BY DEF Invoke, Wipe
    <3>3. ~((\E k \in Kernels : DriverSteps(k)) \/ Conclude \/ DriverDies)
      BY BlindSetIsLeft DEF blindVars
    <3>4. BlindSteps
      BY <1>1, <3>1, <3>2, <3>3, StepsOfTheExperiment
    <3>5. QED
      BY <3>4 DEF BlindSteps, BuildBlindset, AppendArm, Blind, WriteMap, BuilderDies, Scoring, Judge
  <2>2. /\ map # NoMap /\ report' = Rows(map)
        /\ {c.id : c \in copies} = {e.id : e \in map}
        /\ \A e, f \in map : e.kernel = f.kernel /\ e.arm = f.arm => e = f
    BY <2>1 DEF Aggregate, Agree
  <2>3. \A c \in copies, e \in map : c.id = e.id => c.kernel = e.kernel /\ c.arm = e.arm
    BY <1>1, <2>2 DEF ExperimentInvariant, BlindSet, IdsAreUnique, IdsAreOf, Mapped
  <2>4. {[kernel |-> c.kernel, arm |-> c.arm, id |-> c.id] : c \in copies}
          = {[kernel |-> e.kernel, arm |-> e.arm, id |-> e.id] : e \in map}
    BY <2>2, <2>3
  <2>5. {[kernel |-> r.kernel, arm |-> r.arm, id |-> r.id] : r \in report'}
          = {[kernel |-> e.kernel, arm |-> e.arm, id |-> e.id] : e \in map}
    <3>1. \A r \in report' : \E e \in map : r.kernel = e.kernel /\ r.arm = e.arm /\ r.id = e.id
      BY <2>2 DEF Rows
    <3>2. \A e \in map : \E r \in report' : r.kernel = e.kernel /\ r.arm = e.arm /\ r.id = e.id
      <4> TAKE e \in map
      <4>1. [kernel |-> e.kernel, arm |-> e.arm, id |-> e.id,
             cost |-> prov[e.kernel][e.arm].cost] \in report'
        BY <2>2 DEF Rows
      <4>2. QED
        BY <4>1
    <3>3. QED
      BY <3>1, <3>2
  <2>6. \A r, q \in report' : r.kernel = q.kernel /\ r.arm = q.arm => r = q
    BY <2>2 DEF Rows
  <2>7. QED
    BY <2>4, <2>5, <2>6
<1>2. [Whole]_experimentVars
        => [report' # report /\ report' # {} =>
              /\ {[kernel |-> c.kernel, arm |-> c.arm, id |-> c.id] : c \in copies}
                   = {[kernel |-> r.kernel, arm |-> r.arm, id |-> r.id] : r \in report'}
              /\ \A r, q \in report' : r.kernel = q.kernel /\ r.arm = q.arm => r = q]_experimentVars
  OBVIOUS
<1> HIDE DEF Whole
<1>3. QED
  BY <1>1, <1>2, ExperimentInductive, PTL DEF ExperimentSpec, ReportIsWhole
=============================================================================
