----------------------------- MODULE Experiment -----------------------------
(***************************************************************************)
(* The architecture-comparison experiment (backend/src/autoessay/          *)
(* experiments and scripts/abc-*.py).  For every kernel the driver creates  *)
(* a project and a run through the HTTP API, waits for the run to reach     *)
(* EXPORTS_DONE, dumps its front half and generates one manuscript per arm; *)
(* it keeps its progress in driver_state.json so that an invocation that    *)
(* died or was blocked can be resumed.  A second script copies the          *)
(* manuscripts under random ids (the blind set), the judges score the       *)
(* copies, and the aggregation joins the scores with blind_map.json.        *)
(*                                                                          *)
(* Everything is a file in one results directory, written piece by piece    *)
(* by processes that may die between two pieces.  A manuscript's text is    *)
(* its generation, a number that grows each time the arm is written.        *)
(***************************************************************************)
EXTENDS Integers, FiniteSets, Sequences, SequencesExt

CONSTANTS
  Kernels,      \* research kernels of the experiment
  ArmLists,     \* the --arms an operator may pass, sequences of arms
  Concurrency,  \* --max-concurrency
  Reviewers,    \* the reviewer roles of arm F
  TokenCap,     \* the token cap of an arm
  CallCosts,    \* what one model call may use
  JudgeIds,     \* the judges
  Invocations,  \* bound: driver commands the operator gives
  Builds,       \* bound: blind-set commands
  Mishaps       \* bound: crashes, failed calls, echoes and lost answers

SupportedArms == {"A", "B", "B_prime", "C", "E", "F", "G"}

\* The driver refuses other arms before it does anything.
Valid(list) ==
  /\ list \in Seq(SupportedArms) /\ IsInjective(list)
  /\ "A" \in ToSet(list)
  /\ "B_prime" \in ToSet(list) => "B" \in ToSet(list)

ASSUME ArmsAssumption == \A list \in ArmLists : Valid(list)
ASSUME ExperimentAssumption ==
  /\ Concurrency \in Nat \ {0} /\ TokenCap \in Nat /\ CallCosts \subseteq Nat \ {0}
  /\ Reviewers \in Seq(STRING)
  /\ {Invocations, Builds} \subseteq Nat /\ Mishaps \in Nat

VARIABLES
  driver,    \* the driver process: "off" or "on"
  arms,      \* the --arms of this invocation
  mem,       \* the state it holds in memory, shared by its threads
  disk,      \* driver_state.json
  busy,      \* kernels a worker thread is processing
  left,      \* kernels this invocation is through with
  unsaved,   \* kernels whose thread is about to save
  gen,       \* the generate subprocess of each kernel
  made,      \* runs created on the server per kernel, lost ones included
  aRun,      \* the state of the kernel's A run on the server
  packs,     \* kernels whose front_half package is on disk
  text,      \* manuscript.md of each arm: its generation, 0 when absent
  prov,      \* provenance.json of each arm
  copies,    \* the blinded folders
  map,       \* the entries of blind_map.json, or NoMap
  builder,   \* the blind-set process
  report,    \* the rows of aggregate.json
  given,     \* commands given so far, to the driver and for the blind set
  mishaps    \* mishaps so far

driverVars == <<driver, arms, mem, busy, left, unsaved>>
serverVars == <<made, aRun>>
armVars    == <<packs, text, prov>>
blindVars  == <<copies, map, builder, report>>
experimentVars == <<driver, arms, mem, disk, busy, left, unsaved, gen, made, aRun, packs,
          text, prov, copies, map, builder, report, given, mishaps>>

NoState == [arms |-> <<>>, status |-> "absent", kernels |-> <<>>]
NoMap   == {[id |-> 0, kernel |-> "none", arm |-> "none"]}
Arms   == UNION {ToSet(list) : list \in ArmLists}
ApiSteps  == <<"project", "run", "kernel", "pilot", "poll", "dump">>
NoProv == [of |-> 0, base |-> 0, cost |-> 0]
NoSubprocess   == [arm |-> "none", stages |-> <<>>, spent |-> 0, base |-> 0, phase |-> "calls"]

NoBuilder == [todo |-> {}, entries |-> {}]

NewKernel == [done |-> {}, blocked |-> FALSE]
NewState(list) ==
  [arms |-> list, status |-> "running", kernels |-> [k \in Kernels |-> NewKernel]]

Mishap  == mishaps < Mishaps /\ mishaps' = mishaps + 1
Command(to, bound) == given[to] < bound /\ given' = [given EXCEPT ![to] = @ + 1]

-----------------------------------------------------------------------------
(* The driver's state machine.                                              *)

IsComplete(entry, list) == {"poll", "dump"} \cup ToSet(list) \subseteq entry.done

\* The first step of the kernel that its entry does not record as done.
NextStep(k) ==
  LET plan == ApiSteps \o arms
      open == {i \in DOMAIN plan : plan[i] \notin mem.kernels[k].done}
  IN  IF open = {} THEN "end" ELSE plan[Min(open)]

OverallStatus(state) ==
  LET complete == {k \in Kernels : IsComplete(state.kernels[k], state.arms)}
  IN  CASE complete = Kernels -> "complete"
        [] \E k \in Kernels \ complete : state.kernels[k].blocked -> "partial"
        [] OTHER -> "running"

\* Mutant: a forced invocation keeps the state of what it threw away.
LoadState_KeepsOnForce(mode, list) ==
  IF disk # NoState THEN disk ELSE NewState(list)

\* Mutant: a resume starts over.
LoadState_New(mode, list) == NewState(list)

LoadState(mode, list) ==
  IF mode = "resume" /\ disk # NoState THEN disk ELSE NewState(list)

Wipe ==
  /\ packs' = {} /\ copies' = {} /\ map' = NoMap /\ report' = {}
  /\ text' = [k \in Kernels |-> [a \in Arms |-> 0]]
  /\ prov' = [k \in Kernels |-> [a \in Arms |-> NoProv]]

Invoke(mode, list) ==
  /\ driver = "off" /\ builder = NoBuilder
  /\ Command("driver", Invocations)
  /\ mode = "new" => disk = NoState
  /\ driver' = "on" /\ arms' = list
  /\ LET state == LoadState(mode, list)
     IN  mem' = state /\ disk' = state
  /\ IF mode = "force" THEN Wipe ELSE UNCHANGED <<armVars, copies, map, report>>
  /\ busy' = {} /\ left' = {} /\ unsaved' = {}
  /\ UNCHANGED <<gen, serverVars, builder, mishaps>>

\* A worker thread starts a kernel, and saves; one that is complete is skipped.
Take(k) ==
  /\ driver = "on" /\ k \notin busy \cup left /\ Cardinality(busy) < Concurrency
  /\ IF IsComplete(mem.kernels[k], arms)
     THEN left' = left \cup {k} /\ UNCHANGED <<busy, mem>>
     ELSE /\ busy' = busy \cup {k} /\ UNCHANGED left
          /\ mem' = [mem EXCEPT !.kernels[k].blocked = FALSE]
  /\ disk' = mem'
  /\ UNCHANGED <<driver, arms, unsaved, gen, serverVars, armVars, blindVars, given, mishaps>>

\* A save writes the whole shared state, under the output lock; after its last one, the
\* kernel complete or blocked, the thread returns.
Save(k) ==
  /\ driver = "on" /\ k \in unsaved
  /\ unsaved' = unsaved \ {k}
  /\ disk' = mem
  /\ IF mem.kernels[k].blocked \/ NextStep(k) = "end"
     THEN busy' = busy \ {k} /\ left' = left \cup {k}
     ELSE UNCHANGED <<busy, left>>
  /\ UNCHANGED <<driver, arms, mem, gen, serverVars, armVars, blindVars, given, mishaps>>

\* The thread of kernel k is at this step, its earlier steps saved.
At(k, step) ==
  /\ driver = "on" /\ k \in busy \ unsaved
  /\ ~mem.kernels[k].blocked /\ gen[k] = NoSubprocess
  /\ NextStep(k) = step

Did(k, step) ==
  /\ mem' = [mem EXCEPT !.kernels[k].done = @ \cup {step}]
  /\ unsaved' = unsaved \cup {k}
  /\ UNCHANGED <<driver, arms, disk, busy, left, given>>

Blocked(k) ==
  /\ mem' = [mem EXCEPT !.kernels[k].blocked = TRUE]
  /\ unsaved' = unsaved \cup {k}
  /\ UNCHANGED <<driver, arms, disk, busy, left, given>>

-----------------------------------------------------------------------------
(* The steps before the arms: calls to the API of the server.               *)

CreateProject(k) ==
  /\ At(k, "project") /\ Did(k, "project")
  /\ UNCHANGED <<gen, serverVars, armVars, blindVars, mishaps>>

CreateRun(k) ==
  /\ At(k, "run") /\ Did(k, "run")
  /\ made' = [made EXCEPT ![k] = @ + 1] /\ aRun' = [aRun EXCEPT ![k] = "new"]
  /\ UNCHANGED <<gen, armVars, blindVars, mishaps>>

SetKernel(k) ==
  /\ At(k, "kernel") /\ Did(k, "kernel")
  /\ UNCHANGED <<gen, serverVars, armVars, blindVars, mishaps>>

EnablePilot(k) ==
  /\ At(k, "pilot") /\ Did(k, "pilot")
  /\ aRun' = [aRun EXCEPT ![k] = IF @ = "new" THEN "going" ELSE @]
  /\ UNCHANGED <<gen, made, armVars, blindVars, mishaps>>

Poll(k) ==
  /\ At(k, "poll") /\ aRun[k] \in {"ready", "costly", "failed"}
  /\ IF aRun[k] = "failed" THEN Blocked(k) ELSE Did(k, "poll")
  /\ UNCHANGED <<gen, serverVars, armVars, blindVars, mishaps>>

\* Mutant: no deadline (--run-timeout-seconds 0).
PollTimesOut_Never(k) == FALSE

\* The deadline of --run-timeout-seconds passes while the run still works or waits.
PollTimesOut(k) ==
  /\ At(k, "poll") /\ aRun[k] \in {"new", "going"}
  /\ Blocked(k)
  /\ UNCHANGED <<gen, serverVars, armVars, blindVars, mishaps>>

DumpFrontHalf(k) ==
  /\ At(k, "dump") /\ Did(k, "dump")
  /\ packs' = packs \cup {k}
  /\ UNCHANGED <<gen, serverVars, text, prov, blindVars, mishaps>>

\* A call fails; the server may have done its part and only the answer be lost.
StepFails(k) ==
  /\ \E i \in 1 .. Len(ApiSteps) :
       /\ At(k, ApiSteps[i])
       /\ \/ UNCHANGED <<serverVars, packs>>
          \/ ApiSteps[i] = "run" /\ made' = [made EXCEPT ![k] = @ + 1] /\ UNCHANGED <<aRun, packs>>
          \/ ApiSteps[i] = "dump" /\ packs' = packs \cup {k} /\ UNCHANGED serverVars
  /\ Blocked(k) /\ Mishap
  /\ UNCHANGED <<gen, text, prov, blindVars>>

\* The run arrives, over the token cap or not, or fails.
RunEnds(k) ==
  /\ aRun[k] = "going"
  /\ \E end \in {"ready", "costly", "failed"} : aRun' = [aRun EXCEPT ![k] = end]
  /\ UNCHANGED <<driverVars, disk, gen, made, armVars, blindVars, given, mishaps>>

-----------------------------------------------------------------------------
(* Generating an arm, in a subprocess.                                      *)

\* What each arm reads and the model calls it makes.
ArmA      == [reads |-> {"run_dir"},           calls |-> <<>>]
ArmB      == [reads |-> {"kernel", "package"}, calls |-> <<"write">>]
ArmBPrime == [reads |-> {"package", "B"},      calls |-> <<"critique">>]
ArmC      == [reads |-> {"kernel"},            calls |-> <<"write">>]
ArmE      == [reads |-> {"kernel"},            calls |-> <<"write">>]
ArmF      == [reads |-> {"kernel"},
              calls |-> <<"intake", "structure", "draft", "integrity">> \o Reviewers \o <<"revise">>]
ArmG      == [reads |-> {"kernel", "package"}, calls |-> <<"write">>]

Recipe == [A |-> ArmA, B |-> ArmB, B_prime |-> ArmBPrime, C |-> ArmC, E |-> ArmE,
           F |-> ArmF, G |-> ArmG]

Available(k) ==
  {"kernel"} \cup (IF k \in packs THEN {"run_dir", "package"} ELSE {})
             \cup (IF "B" \in Arms /\ text[k]["B"] > 0 THEN {"B"} ELSE {})

\* What the A run used, as its llm_calls.jsonl say.
RunUsage(k) == IF aRun[k] = "costly" THEN TokenCap + 1 ELSE 1

Subprocess(k, arm) ==
  [arm |-> arm, stages |-> Recipe[arm].calls, phase |-> "calls",
   spent |-> IF arm = "A" THEN RunUsage(k) ELSE 0,
   base |-> IF arm = "B_prime" THEN text[k]["B"] ELSE 0]

\* Mutant: B_prime takes the manuscript of B it finds, complete or not.
Spawn_AnyOrder(k, arm) ==
  /\ At(k, arm)
  /\ IF Recipe[arm].reads \subseteq Available(k)
     THEN gen' = [gen EXCEPT ![k] = Subprocess(k, arm)] /\ UNCHANGED <<driverVars, disk, given>>
     ELSE Blocked(k) /\ UNCHANGED gen
  /\ UNCHANGED <<serverVars, armVars, blindVars, mishaps>>

\* B_prime must follow B, and critiques the manuscript of B it finds.
Spawn(k, arm) ==
  /\ At(k, arm)
  /\ IF (arm = "B_prime" => "B" \in mem.kernels[k].done) /\ Recipe[arm].reads \subseteq Available(k)
     THEN gen' = [gen EXCEPT ![k] = Subprocess(k, arm)] /\ UNCHANGED <<driverVars, disk, given>>
     ELSE Blocked(k) /\ UNCHANGED gen
  /\ UNCHANGED <<serverVars, armVars, blindVars, mishaps>>

Working(k, phase) == driver = "on" /\ gen[k] # NoSubprocess /\ gen[k].phase = phase

\* One model call answers.  A critique that only repeats its base is asked again, once.
Call(k) ==
  /\ Working(k, "calls") /\ gen[k].stages # <<>>
  /\ \E cost \in CallCosts :
       \/ /\ gen' = [gen EXCEPT ![k].stages = Tail(@), ![k].spent = @ + cost]
          /\ UNCHANGED mishaps
       \/ /\ Head(gen[k].stages) = "critique" /\ Mishap
          /\ gen' = [gen EXCEPT ![k].stages = <<"retry">>, ![k].spent = @ + cost]
  /\ UNCHANGED <<driverVars, disk, serverVars, armVars, blindVars, given>>

\* The subprocess fails and leaves what it wrote: no answer, no usage, a second echo,
\* a file that cannot be written.
GenerationFails(k) ==
  /\ gen[k] # NoSubprocess /\ driver = "on" /\ Mishap
  /\ gen' = [gen EXCEPT ![k] = NoSubprocess]
  /\ Blocked(k)
  /\ UNCHANGED <<serverVars, armVars, blindVars>>

OverCap(spent) == spent > TokenCap

\* The provenance is composed first, which refuses an arm over the cap.
WriteManuscript(k) ==
  /\ Working(k, "calls") /\ gen[k].stages = <<>>
  /\ IF OverCap(gen[k].spent)
     THEN gen' = [gen EXCEPT ![k] = NoSubprocess] /\ Blocked(k) /\ UNCHANGED text
     ELSE /\ gen' = [gen EXCEPT ![k].phase = "written"]
          /\ text' = [text EXCEPT ![k][gen[k].arm] = @ + 1]
          /\ UNCHANGED <<driverVars, disk, given>>
  /\ UNCHANGED <<serverVars, packs, prov, blindVars, mishaps>>

WriteProvenance(k) ==
  /\ Working(k, "written")
  /\ gen' = [gen EXCEPT ![k].phase = "recorded"]
  /\ prov' = [prov EXCEPT ![k][gen[k].arm] =
       [of |-> text[k][gen[k].arm], base |-> gen[k].base, cost |-> gen[k].spent]]
  /\ UNCHANGED <<driverVars, disk, serverVars, packs, text, blindVars, given, mishaps>>

\* The driver reads the usage back from the provenance and flags the arm.
FlagArm(k) ==
  /\ Working(k, "recorded")
  /\ gen' = [gen EXCEPT ![k] = NoSubprocess]
  /\ IF OverCap(prov[k][gen[k].arm].cost) THEN Blocked(k) ELSE Did(k, gen[k].arm)
  /\ UNCHANGED <<serverVars, armVars, blindVars, mishaps>>

\* All threads have returned: the last save, with the status of the experiment.
Conclude ==
  /\ driver = "on" /\ left = Kernels /\ unsaved = {}
  /\ disk' = [mem EXCEPT !.status = OverallStatus(mem)]
  /\ driver' = "off" /\ mem' = NoState /\ left' = {}
  /\ UNCHANGED <<arms, busy, unsaved, gen, serverVars, armVars, blindVars, given, mishaps>>

DriverDies ==
  /\ driver = "on" /\ Mishap
  /\ driver' = "off" /\ mem' = NoState
  /\ busy' = {} /\ left' = {} /\ unsaved' = {}
  /\ gen' = [k \in Kernels |-> NoSubprocess]
  /\ UNCHANGED <<arms, disk, serverVars, armVars, blindVars, given>>

-----------------------------------------------------------------------------
(* The blind set, the judges and the aggregation; the operator runs these   *)
(* when no driver is at work.                                               *)

Manuscripts == {m \in Kernels \X Arms : text[m[1]][m[2]] > 0}
Ids         == 1 .. (Builds + Mishaps) * Cardinality(Kernels) * Cardinality(Arms)
UsedIds     == {c.id : c \in copies} \cup (IF map = NoMap THEN {} ELSE {e.id : e \in map})
                 \cup {e.id : e \in builder.entries}
FreshId     == CHOOSE id \in Ids : id \notin UsedIds

\* build_blindset: refused when there is a map, unless forced; a forced build clears
\* the blinded folders of the kernels that have manuscripts.
BuildBlindset(force) ==
  /\ driver = "off" /\ builder = NoBuilder /\ Command("blindset", Builds)
  /\ Manuscripts # {} /\ (map = NoMap \/ force)
  /\ builder' = [todo |-> Manuscripts, entries |-> {}]
  /\ copies' = IF force THEN {c \in copies : c.kernel \notin {m[1] : m \in Manuscripts}}
               ELSE copies
  /\ UNCHANGED <<driverVars, disk, gen, serverVars, armVars, map, report, mishaps>>

\* abc-append-arm-to-blindset: the manuscripts of one arm that the map lacks.
AppendArm(arm) ==
  /\ driver = "off" /\ builder = NoBuilder /\ map # NoMap /\ Command("blindset", Builds)
  /\ builder' = [todo |-> {m \in Manuscripts : m[2] = arm
                                /\ ~\E e \in map : e.kernel = m[1] /\ e.arm = arm},
                 entries |-> map]
  /\ builder'.todo # {}
  /\ UNCHANGED <<driverVars, disk, gen, serverVars, armVars, copies, map, report, mishaps>>

\* The next manuscript, in the order of the directories.
Blind ==
  /\ builder.todo # {} /\ Ids \ UsedIds # {}
  /\ LET m == CHOOSE n \in builder.todo : TRUE IN
       /\ builder' = [todo |-> builder.todo \ {m},
                      entries |-> builder.entries
                        \cup {[id |-> FreshId, kernel |-> m[1], arm |-> m[2]]}]
       /\ copies' = copies \cup {[id |-> FreshId, kernel |-> m[1], arm |-> m[2],
                                  of |-> text[m[1]][m[2]], judges |-> {}]}
  /\ UNCHANGED <<driverVars, disk, gen, serverVars, armVars, map, report, given, mishaps>>

WriteMap ==
  /\ builder.todo = {} /\ builder # NoBuilder
  /\ map' = builder.entries /\ builder' = NoBuilder
  /\ UNCHANGED <<driverVars, disk, gen, serverVars, armVars, copies, report, given, mishaps>>

BuilderDies ==
  /\ builder # NoBuilder /\ Mishap
  /\ builder' = NoBuilder
  /\ UNCHANGED <<driverVars, disk, gen, serverVars, armVars, copies, map, report, given>>

\* A judge's valid answer for a blinded folder, whoever's it is.
Judge(c, judge) ==
  /\ driver = "off" /\ builder = NoBuilder
  /\ c \in copies /\ judge \notin c.judges
  /\ copies' = (copies \ {c}) \cup {[c EXCEPT !.judges = @ \cup {judge}]}
  /\ UNCHANGED <<driverVars, disk, gen, serverVars, armVars, map, builder, report, given, mishaps>>

Scored == copies # {} /\ \A c \in copies : c.judges = JudgeIds

\* One row per entry of the map, and refused when folders and map disagree.
Rows(entries) ==
  {[kernel |-> e.kernel, arm |-> e.arm, id |-> e.id,
    cost |-> prov[e.kernel][e.arm].cost] : e \in entries}

\* Mutant: a folder the map does not know is passed over.
Agree_EntriesOnly ==
  /\ {e.id : e \in map} \subseteq {c.id : c \in copies}
  /\ \A e, f \in map : e.kernel = f.kernel /\ e.arm = f.arm => e = f

Agree ==
  /\ {c.id : c \in copies} = {e.id : e \in map}
  /\ \A e, f \in map : e.kernel = f.kernel /\ e.arm = f.arm => e = f

Aggregate ==
  /\ driver = "off" /\ builder = NoBuilder
  /\ Scored /\ map # NoMap /\ Agree
  /\ report' = Rows(map) /\ report' # report
  /\ UNCHANGED <<driverVars, disk, gen, serverVars, armVars, copies, map, builder, given, mishaps>>

-----------------------------------------------------------------------------
ExperimentInit ==
  /\ driver = "off" /\ arms = <<>> /\ mem = NoState /\ disk = NoState
  /\ busy = {} /\ left = {} /\ unsaved = {}
  /\ gen = [k \in Kernels |-> NoSubprocess]
  /\ made = [k \in Kernels |-> 0] /\ aRun = [k \in Kernels |-> "none"]
  /\ packs = {} /\ text = [k \in Kernels |-> [a \in Arms |-> 0]]
  /\ prov = [k \in Kernels |-> [a \in Arms |-> NoProv]]
  /\ copies = {} /\ map = NoMap /\ builder = NoBuilder /\ report = {}
  /\ given = [to \in {"driver", "blindset"} |-> 0] /\ mishaps = 0

Worker(k) ==
  \/ Take(k) \/ Save(k) \/ CreateProject(k) \/ CreateRun(k) \/ SetKernel(k)
  \/ EnablePilot(k) \/ Poll(k) \/ PollTimesOut(k) \/ DumpFrontHalf(k)
  \/ (\E a \in Arms : Spawn(k, a))
  \/ Call(k) \/ WriteManuscript(k) \/ WriteProvenance(k) \/ FlagArm(k)

Scoring == Aggregate \/ \E c \in copies, j \in JudgeIds : Judge(c, j)

ExperimentNext ==
  \/ \E mode \in {"new", "resume", "force"}, list \in ArmLists : Invoke(mode, list)
  \/ \E k \in Kernels : Worker(k) \/ StepFails(k) \/ GenerationFails(k) \/ RunEnds(k)
  \/ Conclude \/ DriverDies
  \/ \E force \in BOOLEAN : BuildBlindset(force)
  \/ \E a \in Arms : AppendArm(a)
  \/ Blind \/ WriteMap \/ BuilderDies \/ Scoring

ExperimentFairness == (\A k \in Kernels : WF_experimentVars(Worker(k))) /\ WF_experimentVars(Conclude)

ExperimentSpec == ExperimentInit /\ [][ExperimentNext]_experimentVars
FairExperiment == ExperimentSpec /\ ExperimentFairness

-----------------------------------------------------------------------------
\* What driver_state.json says is done is on disk, whatever died on the way: the front
\* half, and for each arm a manuscript with the provenance of the same generation.
FlagsAreTrue ==
  disk # NoState =>
    \A k \in Kernels :
      /\ "dump" \in disk.kernels[k].done => k \in packs
      /\ \A a \in Arms \cap disk.kernels[k].done :
           text[k][a] > 0 /\ prov[k][a].of = text[k][a]

\* "B must complete before B_prime": an arm B_prime that is flagged critiques the
\* manuscript of B that is submitted next to it, not an earlier one.
CritiqueIsOfTheSubmission ==
  disk # NoState =>
    \A k \in Kernels :
      "B_prime" \in disk.kernels[k].done =>
        prov[k]["B_prime"].base = text[k]["B"] /\ text[k]["B"] > 0

\* Progress that was saved is kept by every thread's save and by every later invocation
\* but a forced one, and the server is asked for one run only once that is saved.
ProgressIsKept ==
  [][\/ \E list \in ArmLists : Invoke("force", list)
     \/ \A k \in Kernels :
          disk # NoState =>
            /\ disk.kernels[k].done \subseteq disk'.kernels[k].done
            /\ "run" \in disk.kernels[k].done => made'[k] = made[k]]_experimentVars

\* Whenever the aggregation writes a report, every manuscript that was blinded is in it
\* once, under its own kernel and arm, and no folder of an interrupted build is counted.
ReportIsWhole ==
  [][report' # report /\ report' # {} =>
       /\ {[kernel |-> c.kernel, arm |-> c.arm, id |-> c.id] : c \in copies}
            = {[kernel |-> r.kernel, arm |-> r.arm, id |-> r.id] : r \in report'}
       /\ \A r, q \in report' : r.kernel = q.kernel /\ r.arm = q.arm => r = q]_experimentVars

\* Every invocation ends, with a timeout on the runs: one blocked kernel does not keep
\* the others, nor the driver, from finishing.
InvocationEnds == (driver = "on") ~> (driver = "off")
=============================================================================
