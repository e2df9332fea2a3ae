----------------------------- MODULE RunStates -----------------------------
(***************************************************************************)
(* The constant tables of a deep-mode run: the states of state_machine.py, *)
(* its transition table, and, for every phase, the states that its start   *)
(* endpoint (main.py), its agent (a module of agents/) and the rewind of   *)
(* phase_rerun.py name.  Express mode has a state machine of its own.      *)
(***************************************************************************)
EXTENDS Naturals, Sequences

\* The pipeline order of phase_rerun.py.  proposal and final_rewrite run in a
\* deep-mode run too, but neither is part of the version graph.
PHASES == <<"scout", "curator", "synthesizer", "tension_extraction",
            "framework_lens", "ideator", "drafter", "stylist", "critic",
            "integrity", "exports">>

Versioned == {PHASES[i] : i \in 1..Len(PHASES)}
DeepPhases == Versioned \cup {"proposal", "final_rewrite"}

\* Phases strictly after p in pipeline order.
Downstream(p) ==
    {PHASES[j] : j \in {k \in 1..Len(PHASES) :
                            \E i \in 1..(k - 1) : PHASES[i] = p}}

FailureStates == {"FAILED_FIXABLE", "FAILED_NEEDS_USER", "FAILED_VENDOR",
                  "FAILED_POLICY"}

\* The states in which a user decides how the run goes on.
ReviewStates ==
    {"USER_PROPOSAL_REVIEW", "USER_SEARCH_REVIEW", "USER_DEEP_DIVE_REVIEW",
     "USER_FIELD_REVIEW", "USER_TENSION_REVIEW", "USER_LENS_REVIEW",
     "USER_NOVELTY_REVIEW", "USER_REVISION_REVIEW",
     "USER_EXTERNAL_SCAN_APPROVAL", "USER_INTEGRITY_REVIEW",
     "USER_FINAL_ACCEPTANCE"}

\* _PHASE_RUNNING_STATE of main.py.
RunningState ==
    [proposal           |-> "PROPOSAL_DRAFTING",
     scout              |-> "SCOUT_RUNNING",
     curator            |-> "CURATOR_RUNNING",
     synthesizer        |-> "SYNTHESIZER_RUNNING",
     tension_extraction |-> "TENSION_EXTRACTION_RUNNING",
     framework_lens     |-> "FRAMEWORK_LENS_RUNNING",
     ideator            |-> "IDEATOR_RUNNING",
     drafter            |-> "DRAFTER_RUNNING",
     stylist            |-> "STYLIST_RUNNING",
     final_rewrite      |-> "REWRITE_RUNNING",
     critic             |-> "CRITIC_RUNNING",
     integrity          |-> "INTEGRITY_RUNNING",
     exports            |-> "EXPORTS_RUNNING"]

RunningStates == {RunningState[p] : p \in DeepPhases}

RunState == {"TOPIC_ENTERED", "DOMAIN_LOADED", "EXPORTS_DONE", "CANCELLED"}
                \cup FailureStates \cup ReviewStates \cup RunningStates

\* ALLOWED_TRANSITIONS without the failure states and CANCELLED, which every
\* row of the pipeline lists as well.
Successors ==
    [TOPIC_ENTERED               |-> {"DOMAIN_LOADED"},
     DOMAIN_LOADED               |-> {"PROPOSAL_DRAFTING", "SCOUT_RUNNING"},
     PROPOSAL_DRAFTING           |-> {"USER_PROPOSAL_REVIEW"},
     USER_PROPOSAL_REVIEW        |-> {"PROPOSAL_DRAFTING", "SCOUT_RUNNING"},
     SCOUT_RUNNING               |-> {"USER_SEARCH_REVIEW"},
     USER_SEARCH_REVIEW          |-> {"CURATOR_RUNNING"},
     CURATOR_RUNNING             |-> {"USER_DEEP_DIVE_REVIEW"},
     USER_DEEP_DIVE_REVIEW       |-> {"SYNTHESIZER_RUNNING"},
     SYNTHESIZER_RUNNING         |-> {"USER_FIELD_REVIEW"},
     USER_FIELD_REVIEW           |-> {"TENSION_EXTRACTION_RUNNING",
                                      "FRAMEWORK_LENS_RUNNING", "IDEATOR_RUNNING"},
     TENSION_EXTRACTION_RUNNING  |-> {"USER_TENSION_REVIEW"},
     USER_TENSION_REVIEW         |-> {"FRAMEWORK_LENS_RUNNING", "IDEATOR_RUNNING",
                                      "TENSION_EXTRACTION_RUNNING"},
     FRAMEWORK_LENS_RUNNING      |-> {"USER_LENS_REVIEW"},
     USER_LENS_REVIEW            |-> {"IDEATOR_RUNNING", "FRAMEWORK_LENS_RUNNING",
                                      "TENSION_EXTRACTION_RUNNING"},
     IDEATOR_RUNNING             |-> {"USER_NOVELTY_REVIEW"},
     USER_NOVELTY_REVIEW         |-> {"DRAFTER_RUNNING"},
     DRAFTER_RUNNING             |-> {"STYLIST_RUNNING", "USER_REVISION_REVIEW"},
     STYLIST_RUNNING             |-> {"USER_REVISION_REVIEW", "CRITIC_RUNNING"},
     USER_REVISION_REVIEW        |-> {"REWRITE_RUNNING", "CRITIC_RUNNING",
                                      "USER_EXTERNAL_SCAN_APPROVAL",
                                      "DRAFTER_RUNNING", "STYLIST_RUNNING"},
     REWRITE_RUNNING             |-> {"CRITIC_RUNNING"},
     CRITIC_RUNNING              |-> {"USER_EXTERNAL_SCAN_APPROVAL",
                                      "USER_REVISION_REVIEW"},
     USER_EXTERNAL_SCAN_APPROVAL |-> {"INTEGRITY_RUNNING", "USER_FINAL_ACCEPTANCE"},
     INTEGRITY_RUNNING           |-> {"USER_INTEGRITY_REVIEW"},
     USER_INTEGRITY_REVIEW       |-> {"USER_FINAL_ACCEPTANCE", "DRAFTER_RUNNING",
                                      "STYLIST_RUNNING"},
     USER_FINAL_ACCEPTANCE       |-> {"EXPORTS_RUNNING", "DRAFTER_RUNNING",
                                      "STYLIST_RUNNING"},
     EXPORTS_RUNNING             |-> {"EXPORTS_DONE"}]

\* transition() succeeds exactly when its target is allowed from run.state.
Allowed(from, to) ==
    \/ /\ from \in DOMAIN Successors
       /\ to \in Successors[from] \cup FailureStates \cup {"CANCELLED"}
    \/ /\ from \in FailureStates \ {"FAILED_VENDOR"}
       /\ to \in ReviewStates
    \/ /\ from = "FAILED_VENDOR"
       /\ to \in {"INTEGRITY_RUNNING", "USER_EXTERNAL_SCAN_APPROVAL",
                  "USER_FINAL_ACCEPTANCE"}
-----------------------------------------------------------------------------
(* The states each step of a phase names.                                   *)

\* The guard of the phase's start endpoint.  final_rewrite has none of its own:
\* start_critic claims it when final_rewrite_enabled is set.
StartStates ==
    [proposal           |-> {"DOMAIN_LOADED", "USER_PROPOSAL_REVIEW"},
     scout              |-> {"DOMAIN_LOADED", "USER_PROPOSAL_REVIEW"},
     curator            |-> {"USER_SEARCH_REVIEW"},
     synthesizer        |-> {"USER_DEEP_DIVE_REVIEW"},
     tension_extraction |-> {"USER_FIELD_REVIEW", "USER_TENSION_REVIEW"},
     framework_lens     |-> {"USER_FIELD_REVIEW"},
     ideator            |-> {"USER_FIELD_REVIEW", "USER_LENS_REVIEW",
                             "USER_TENSION_REVIEW"},
     drafter            |-> {"USER_NOVELTY_REVIEW", "DRAFTER_RUNNING"},
     stylist            |-> {"DRAFTER_RUNNING", "USER_REVISION_REVIEW"},
     final_rewrite      |-> {},
     critic             |-> {"USER_REVISION_REVIEW"},
     integrity          |-> {"USER_EXTERNAL_SCAN_APPROVAL", "FAILED_VENDOR"},
     exports            |-> {"USER_FINAL_ACCEPTANCE"}]

\* The states the agent accepts on entry: those of the endpoint, and for the
\* agents a checkpoint or the rewrite starts, their own running state.
AgentStates ==
    [StartStates EXCEPT
        !["scout"]         = @ \cup {"SCOUT_RUNNING"},
        !["critic"]        = @ \cup {"CRITIC_RUNNING"},
        !["final_rewrite"] = {"USER_REVISION_REVIEW", "REWRITE_RUNNING"}]

\* Where the agent leaves the run when it succeeds; the drafter stays in
\* DRAFTER_RUNNING and records phase_done only.
DoneState ==
    [proposal           |-> "USER_PROPOSAL_REVIEW",
     scout              |-> "USER_SEARCH_REVIEW",
     curator            |-> "USER_DEEP_DIVE_REVIEW",
     synthesizer        |-> "USER_FIELD_REVIEW",
     tension_extraction |-> "USER_TENSION_REVIEW",
     framework_lens     |-> "USER_LENS_REVIEW",
     ideator            |-> "USER_NOVELTY_REVIEW",
     drafter            |-> "DRAFTER_RUNNING",
     stylist            |-> "USER_REVISION_REVIEW",
     final_rewrite      |-> "CRITIC_RUNNING",
     critic             |-> "USER_EXTERNAL_SCAN_APPROVAL",
     integrity          |-> "USER_INTEGRITY_REVIEW",
     exports            |-> "EXPORTS_DONE"]

\* The failure states the agent moves the run to by itself.
AgentFailures ==
    [p \in DeepPhases |->
        CASE p \in {"scout", "integrity"}         -> {"FAILED_VENDOR"}
          [] p \in {"exports", "final_rewrite"}   -> {"FAILED_FIXABLE", "FAILED_POLICY"}
          [] OTHER                                -> {"FAILED_FIXABLE"}]

\* Mutant of AgentFailureClass: a class no part of main.py knows.
AgentFailureClass_Unknown(p) == "fixable"

\* The failure_class such a failure records.
AgentFailureClass(p) == IF p = "framework_lens" THEN "other" ELSE "graceful"

\* Agents that can fail before they move the run to their running state.
FailsEarly == {"stylist", "final_rewrite", "critic", "integrity"}

\* Agents that refresh the run and honour a cancel right before they commit.
ChecksBeforeDone == {"scout", "curator"}

\* Agents that also honour a cancel while they work.
MidPhaseChecks == {"scout", "curator", "final_rewrite"}

\* LIMIT_TERMINAL_STATES of main.py: a run that is left alone when deleted.
TerminalStates == {"EXPORTS_DONE", "CANCELLED", "FAILED_VENDOR", "FAILED_POLICY"}

\* Phases without an enqueuer: the endpoint runs the agent inline.
Inline == {"tension_extraction", "framework_lens"}

\* Phases whose idle threshold, their job timeout and ten minutes, is longer than
\* the hour by which the fast path of the reaper ages a lock.
OverAnHour == {"final_rewrite", "critic"}

\* PHASE_INPUT_STATES, and DOMAIN_LOADED for proposal: where a failed phase is
\* rewound to before it is started again.
InputState ==
    [proposal           |-> "DOMAIN_LOADED",
     scout              |-> "USER_PROPOSAL_REVIEW",
     curator            |-> "USER_SEARCH_REVIEW",
     synthesizer        |-> "USER_DEEP_DIVE_REVIEW",
     tension_extraction |-> "USER_FIELD_REVIEW",
     framework_lens     |-> "USER_FIELD_REVIEW",
     ideator            |-> "USER_FIELD_REVIEW",
     drafter            |-> "USER_NOVELTY_REVIEW",
     stylist            |-> "USER_REVISION_REVIEW",
     critic             |-> "USER_REVISION_REVIEW",
     integrity          |-> "USER_EXTERNAL_SCAN_APPROVAL",
     exports            |-> "USER_FINAL_ACCEPTANCE"]

\* The review states whose accepting checkpoint starts the phase.
CheckpointStates ==
    [p \in DeepPhases |->
        CASE p = "scout"   -> {"USER_PROPOSAL_REVIEW"}
          [] p = "drafter" -> {"USER_NOVELTY_REVIEW", "USER_INTEGRITY_REVIEW"}
          [] OTHER         -> {}]

\* The phase whose artifacts the readiness check of p opens.
Needs ==
    [p \in DeepPhases |->
        CASE p = "curator"     -> {"scout"}
          [] p = "synthesizer" -> {"curator"}
          [] p = "ideator"     -> {"synthesizer"}
          [] p = "stylist"     -> {"drafter"}
          [] p = "critic"      -> {"stylist"}
          [] p = "exports"     -> {"stylist"}
          [] OTHER             -> {}]

\* PHASE_REVIEW_STATE: where force-approve sends a run whose phase failed.
ReviewState ==
    [RunningState EXCEPT
        !["proposal"]           = "USER_PROPOSAL_REVIEW",
        !["scout"]              = "USER_SEARCH_REVIEW",
        !["curator"]            = "USER_DEEP_DIVE_REVIEW",
        !["synthesizer"]        = "USER_FIELD_REVIEW",
        !["tension_extraction"] = "USER_TENSION_REVIEW",
        !["framework_lens"]     = "USER_LENS_REVIEW",
        !["ideator"]            = "USER_NOVELTY_REVIEW",
        !["drafter"]            = "USER_REVISION_REVIEW",
        !["stylist"]            = "USER_REVISION_REVIEW",
        !["final_rewrite"]      = "USER_REVISION_REVIEW",
        !["critic"]             = "USER_EXTERNAL_SCAN_APPROVAL",
        !["integrity"]          = "USER_FINAL_ACCEPTANCE",
        !["exports"]            = "USER_FINAL_ACCEPTANCE"]
=============================================================================
