------------------------------ MODULE CallSites ------------------------------
(***************************************************************************)
(* The places from which the agents call models and vendors: what each     *)
(* passes to the harness, and what it goes on with when the call gives no  *)
(* answer.  The prompts, the schemas and the texts of the fallbacks are    *)
(* left out.                                                               *)
(*                                                                         *)
(* kind       run_llm_step, run_tool_step, or the two streamed turns       *)
(* attempts   retries of the call site, plus one                           *)
(* writer     an AuditWriter per call ("own"), or one for all the calls of *)
(*            the phase ("shared")                                         *)
(* fallback   "always" (llm_optional, with one), "hook" (only a hook may   *)
(*            use it), "none" (llm_optional or not)                        *)
(* objections what its post-call hooks may do with a valid answer          *)
(* rechecked  whether an accepted answer may still be thrown away          *)
(* refused    what the agent does when no answer was valid: the phase      *)
(*            fails, it keeps the text it had, it puts a stub in place, it *)
(*            skips the step, or it asks again in another way              *)
(* lost       what it does when the providers could not be had             *)
(***************************************************************************)
EXTENDS Naturals

CONSTANT DrafterRetries     \* settings.drafter_max_corrective_retries

ASSUME DrafterAssumption == DrafterRetries \in Nat

\* A call with some retries, and what the agent does without its answer.
Call(retries, instead) ==
    [kind |-> "llm", attempts |-> retries + 1, writer |-> "own", fallback |-> "none",
     objections |-> {}, rechecked |-> FALSE, refused |-> {instead}, lost |-> {instead}]

Shared(call) == [call EXCEPT !.writer = "shared"]
Rechecked(call) == [call EXCEPT !.rechecked = TRUE]
Guarded(call) == [call EXCEPT !.objections = {"hookRejects"}]
-----------------------------------------------------------------------------
(* Before the draft.                                                        *)

Proposal == Call(2, "fails")

\* Two calls at most, by one writer: the scout goes on without a baseline.
ShadowBaseline == Rechecked(Shared(Call(DrafterRetries, "asks again")))

\* The hook wants queries with words of the title; else templates of the domain.
QueryExpansion ==
    [Guarded(Rechecked(Call(2, "stub"))) EXCEPT !.fallback = "always"]

Canon == Rechecked(Call(2, "skips"))
Frontier == Rechecked(Call(2, "skips"))

\* _score_relevance_batches_via_harness: four axes, then one, then by year.
FourAxes == Call(2, "asks again")
OneAxis == Rechecked(Call(1, "stub"))

SourceNote == Rechecked(Call(2, "skips"))
Diagnostic == Rechecked(Call(1, "stub"))

\* Tensions whose claims the synthesizer has never made are dropped, and all of
\* them may be.
Tensions == Rechecked(Call(2, "stub"))

FrameworkLens == Guarded(Call(2, "stub"))
AngleCards == Rechecked(Call(2, "fails"))
Outlines == Rechecked(Call(1, "stub"))
-----------------------------------------------------------------------------
(* The draft and its style.                                                 *)

\* The section is a stub, or the run fails when all are.
DraftSection == Guarded(Rechecked(Shared(Call(DrafterRetries, "stub"))))
DiversityRepair == Rechecked(Shared(Call(1, "keeps")))
MarkerRepair == Rechecked(Shared(Call(1, "asks again")))
Coherence == Rechecked(Shared(Call(1, "keeps")))

\* The n-gram guard puts the original in place; a lost claim or citation key fails
\* the phase, anything else keeps the original.
StyledSection ==
    [Shared(Call(2, "keeps")) EXCEPT !.fallback = "hook",
                                     !.objections = {"hookRejects", "hookFallsBack"},
                                     !.refused = {"fails", "keeps"}]
Repolish == [StyledSection EXCEPT !.attempts = 1]
-----------------------------------------------------------------------------
(* The rewrite, the review and the exports.                                 *)

Rewrite == Rechecked(Call(1, "keeps"))
ExpertCritique == Rechecked(Call(1, "skips"))
PolishRewrite == Rechecked(Call(1, "keeps"))

\* The critique and the directive of the first round, outside the harness.
Turns == [Call(0, "keeps") EXCEPT !.kind = "turns"]
LoopScore == Rechecked(Call(1, "skips"))
LoopOpening == Rechecked(Call(1, "keeps"))
LoopRewrite == Rechecked(Call(1, "keeps"))
GateSample == Rechecked(Call(1, "skips"))

CriticReport == Call(2, "fails")
PolishScore == Rechecked(Shared(Call(1, "skips")))

\* run_tool_step: transient errors are retried once, a bad answer is not.
VendorScan == [Guarded(Call(1, "fails")) EXCEPT !.kind = "tool"]

FrontMatter == Rechecked(Call(1, "stub"))
SelfCheck == Rechecked(Call(1, "stub"))
-----------------------------------------------------------------------------
CallSite ==
    [proposal |-> Proposal, shadow_baseline |-> ShadowBaseline,
     query_expansion |-> QueryExpansion, canon |-> Canon, frontier |-> Frontier,
     four_axes |-> FourAxes, one_axis |-> OneAxis, source_note |-> SourceNote,
     material_diagnostic |-> Diagnostic, tension_extraction |-> Tensions,
     framework_lens |-> FrameworkLens, angle_cards |-> AngleCards,
     detailed_outline |-> Outlines, section |-> DraftSection,
     diversity_repair |-> DiversityRepair, cite_marker_repair |-> MarkerRepair,
     global_coherence |-> Coherence, styled_section |-> StyledSection,
     repolish |-> Repolish, rewrite |-> Rewrite, expert_critique |-> ExpertCritique,
     polish_rewrite |-> PolishRewrite, turns |-> Turns, loop_score |-> LoopScore,
     loop_opening |-> LoopOpening, loop_rewrite |-> LoopRewrite,
     gate_sample |-> GateSample, critic_report |-> CriticReport,
     polish_score |-> PolishScore, vendor_scan |-> VendorScan,
     front_matter |-> FrontMatter, self_check |-> SelfCheck]
=============================================================================
