----------------------------- MODULE Drafting -----------------------------
(***************************************************************************)
(* The drafter and the stylist (agents/drafter.py, agents/stylist.py): from *)
(* a shortlist of sources to a styled draft.  A section of the draft is the *)
(* sources its claims name, the citation keys of its prose and whether it   *)
(* is a stub.  What a model answers is a choice; what the code does with    *)
(* the answer is not.  The calls themselves are those of ModelCall.         *)
(***************************************************************************)
EXTENDS Naturals, FiniteSets, Sequences, FiniteSetsExt, SequencesExt

CONSTANTS
    Sources,       \* the sources a shortlist may hold
    Foreign,       \* an id that names no source
    Keys,          \* what a citation in the prose may look like
    Length,        \* sections of the plan
    Floor,         \* cited_sources_diversity_floor
    Targets,       \* _DIVERSITY_REPAIR_TARGET_SECTIONS
    Repairs,       \* drafter_cite_marker_max_retries
    Corrections,   \* max_corrective_retries of a stylist section
    Studies        \* what the drafter may start from

ASSUME BoundsAssumption ==
    /\ {Floor, Targets, Repairs, Corrections} \subseteq Nat
    /\ Length \in Nat \ {0}
    /\ Foreign \notin Sources

\* The reranker is asked about entries of the shortlist only.
ASSUME StudiesAssumption ==
    \A s \in Studies :
        s.shortlist \in Seq(Sources) /\ s.vouched \subseteq ToSet(s.shortlist)

VARIABLES
    state,      \* Run.state
    study,      \* shortlist: best source first; low: its sources of low relevance
                \* where the topic has keywords (known); vouched: low sources the
                \* reranker stands up for; bound, analytic: the evidence policy;
                \* numbered: the paper cites by [N] (Chinese, Japanese)
    draft,      \* the newest drafts/vNNN; the older ones are never read again
    reported,   \* a cited_sources_below_floor event is about that draft
    job         \* the running job

vars == <<state, study, draft, reported, job>>

Parts == 1..Length
Ids == Sources \cup {Foreign}
Blank == [ids |-> {}, keys |-> {}, failed |-> FALSE]
Prose == [Parts -> SUBSET Keys]

\* manuscript.md (raw: a citation-shaped marker is left that names no cited
\* source), claim_map.jsonl, citations.bib, style/paper_styled.md.
NewDraft == [text |-> <<>>, claims |-> <<>>, bib |-> <<>>, styled |-> <<>>]

Listed == ToSet(study.shortlist)

\* The whitelist of _drafted_section_from_raw.
Relevant == Listed \ study.low

\* _eligible_diversity_count: none where the topic has no keywords.
Eligible == IF study.known THEN Relevant \cup study.vouched ELSE {}

\* _cited_source_ids of the flattened claim map.
Cited(secs) == UNION {secs[i].ids : i \in Parts}

\* _check_diversity_floor.
Below(secs) == Cardinality(Cited(secs)) < Min({Floor, Cardinality(Eligible)})

Idle == [phase |-> "none", pc |-> "idle", part |-> 1, attempt |-> 0,
         secs |-> [i \in Parts |-> Blank], below |-> FALSE,
         keys |-> [i \in Parts |-> {}], raw |-> FALSE, body |-> [i \in Parts |-> {}],
         lost |-> FALSE, overlap |-> FALSE]

Init ==
    /\ state = "USER_NOVELTY_REVIEW"
    /\ study \in Studies
    /\ draft = NewDraft
    /\ reported = FALSE
    /\ job = Idle

Working == UNCHANGED <<state, study, draft, reported>>
Settled == UNCHANGED study
Rest(phase) == [Idle EXCEPT !.phase = phase]
-----------------------------------------------------------------------------
(* Drafter: sections.                                                       *)

\* _run_drafter_with_session up to the first section.  Without a thesis or a
\* shortlist the run fails before there is a directory.
BeginDraft ==
    /\ state \in {"USER_NOVELTY_REVIEW", "DRAFTER_RUNNING"}
    /\ job.pc = "idle"
    /\ IF study.shortlist = <<>>
       THEN /\ state' = "FAILED_FIXABLE"
            /\ job' = Rest("drafter")
            /\ UNCHANGED <<draft, reported>>
       ELSE /\ state' = "DRAFTER_RUNNING"
            /\ draft' = NewDraft
            /\ reported' = FALSE
            /\ job' = [Idle EXCEPT !.phase = "drafter", !.pc = "section"]
    /\ Settled

\* Mutant of Accepts: a model-backed claim is not asked for its ids.
Accepts_AnyBacked(raw) ==
    raw.backed \/ study.bound # "strict" \/ (raw.ids # {} /\ raw.ids \subseteq Listed)

\* The citation_whitelist hook: a claim the model backs itself names no source
\* and needs a policy that allows it, any other names sources of the shortlist
\* only.  A soft policy warns; with both off nothing is looked at.
Accepts(raw) ==
    \/ study.bound = "off" /\ study.analytic = "off"
    \/ raw.backed /\ raw.ids = {} /\ study.analytic # "strict"
    \/ ~raw.backed /\ (study.bound = "strict" => raw.ids # {} /\ raw.ids \subseteq Listed)

\* What a claim names in the end: sources of low relevance are dropped, where
\* nothing else is left another source takes their place, and unknown ids go too,
\* except from a claim the model backs itself.
Normalized(raw) ==
    LET kept == raw.ids \ study.low
        instead == IF kept = {} /\ raw.ids # {} /\ Relevant # {}
                   THEN {{r} : r \in Relevant} ELSE {kept}
    IN  IF raw.backed THEN instead ELSE {ids \cap Relevant : ids \in instead}

Add(sec) ==
    job' = [job EXCEPT !.secs[job.part] = sec,
                       !.part = IF @ < Length THEN @ + 1 ELSE 1,
                       !.pc = IF job.part < Length THEN "section" ELSE "floor"]

\* _draft_section, committed section by section: an accepted answer, or after
\* the last rejected one, or any exception, a stub on the best source.
DraftSection ==
    /\ job.pc = "section"
    /\ \/ \E raw \in [ids : SUBSET Ids, backed : BOOLEAN], keys \in SUBSET Keys :
              /\ Accepts(raw)
              /\ \E ids \in Normalized(raw) :
                    Add([ids |-> ids, keys |-> keys, failed |-> FALSE])
       \/ Add([ids |-> {Head(study.shortlist)}, keys |-> {}, failed |-> TRUE])
    /\ Working

\* _check_diversity_floor before the repair.
CheckFloor ==
    /\ job.pc = "floor"
    /\ job' = [job EXCEPT !.below = Below(job.secs),
                          !.pc = IF Below(job.secs) THEN "diversify" ELSE "compose"]
    /\ Working

\* _pick_repair_target_sections: those that cite the fewest sources, the first
\* of those that cite equally many.
Weakest ==
    LET n(i) == Cardinality(job.secs[i].ids)
    IN  {i \in Parts : Cardinality({j \in Parts : n(j) < n(i) \/ (n(j) = n(i) /\ j < i)}) < Targets}

\* _normalize_diversity_repair_claim_map keeps only ids of this list.
Offered == (Cited(job.secs) \cap Listed) \cup Eligible

\* Mutant of Diversify: a repair that was applied is taken to have helped.
Diversify_Trusting ==
    /\ job.pc = "diversify"
    /\ \/ \E some \in SUBSET Weakest :
              \E new \in [some -> [ids : SUBSET Offered, keys : SUBSET Keys, failed : {FALSE}]] :
                  /\ ~(UNION {new[i].ids : i \in some} \subseteq Cited(job.secs))
                  /\ job' = [job EXCEPT !.secs = [i \in Parts |-> IF i \in some THEN new[i] ELSE @[i]],
                                        !.below = FALSE, !.pc = "compose"]
       \/ job' = [job EXCEPT !.pc = "compose"]
    /\ Working

\* _maybe_run_llm_diversity_repair: one call that may rewrite the weakest
\* sections, kept when a source nobody cited yet comes in, whatever goes out; a
\* stub that is rewritten is no stub any more.  The floor is checked again.
Diversify ==
    /\ job.pc = "diversify"
    /\ \/ \E some \in SUBSET Weakest :
              \E new \in [some -> [ids : SUBSET Offered, keys : SUBSET Keys, failed : {FALSE}]] :
                  LET secs == [i \in Parts |-> IF i \in some THEN new[i] ELSE job.secs[i]]
                  IN  /\ ~(Cited(secs) \subseteq Cited(job.secs))
                      /\ job' = [job EXCEPT !.secs = secs, !.below = Below(secs), !.pc = "compose"]
       \/ job' = [job EXCEPT !.pc = "compose"]
    /\ Working
-----------------------------------------------------------------------------
(* Drafter: the manuscript.                                                 *)

\* The event of a draft below its floor; then the claim map and the cited
\* sources are fixed, and the markers of a numbered paper are resolved against
\* them (_normalize_inline_citations_zh_with_unresolved): without a cited source
\* none is looked at.  From here on the prose is the manuscript.
Compose ==
    /\ job.pc = "compose"
    /\ reported' = job.below
    /\ \E raw \in IF study.numbered /\ Cited(job.secs) \cap Listed # {} THEN BOOLEAN ELSE {FALSE} :
          job' = [job EXCEPT !.keys = [i \in Parts |-> job.secs[i].keys], !.raw = raw,
                             !.body = [i \in Parts |-> job.secs[i].keys],
                             !.secs = [i \in Parts |-> [@[i] EXCEPT !.keys = {}]],
                             !.pc = IF raw /\ study.repairs THEN "cite" ELSE "cohere"]
    /\ UNCHANGED <<state, draft>> /\ Settled

\* A round of _maybe_run_cite_marker_repair: no answer, or a text whose markers
\* are resolved again.  Only a text without a marker left replaces the
\* manuscript; markers no paragraph holds, or the last round, end it.
RepairMarkers ==
    /\ job.pc = "cite"
    /\ \/ /\ job.attempt < Repairs
          /\ \/ job' = [job EXCEPT !.attempt = @ + 1]
             \/ \E keys \in Prose :
                   job' = [job EXCEPT !.attempt = @ + 1, !.body = keys]
             \/ \E keys \in Prose :
                   job' = [job EXCEPT !.attempt = 0, !.body = keys, !.keys = keys,
                                      !.raw = FALSE, !.pc = "cohere"]
       \/ job' = [job EXCEPT !.attempt = 0,
                             !.body = job.keys, !.pc = "cohere"]
    /\ Working

\* Where a key is cited, how often, and in how many paragraphs.
Count(keys, k) == Cardinality({i \in Parts : k \in keys[i]})
Bearing(keys) == Cardinality({i \in Parts : keys[i] # {}})

\* Mutant of Coherent: the set of citations, not how often each occurs.
Coherent_SetOnly(before, after) ==
    \A k \in Keys : Count(before, k) > 0 <=> Count(after, k) > 0

\* _validate_global_coherence_output: the same citations as often, in no fewer
\* paragraphs.
Coherent(before, after) ==
    /\ \A k \in Keys : Count(before, k) = Count(after, k)
    /\ Bearing(after) >= Bearing(before)

\* _maybe_run_global_coherence_pass: skipped without an [N], kept only when it
\* validates; whether a marker is left raw is not asked again.
Cohere ==
    /\ job.pc = "cohere"
    /\ \/ job' = [job EXCEPT !.pc = "text"]
       \/ /\ study.numbered
          /\ Bearing(job.keys) > 0
          /\ \E keys \in Prose, raw \in BOOLEAN :
                /\ Coherent(job.keys, keys)
                /\ job' = [job EXCEPT !.keys = keys, !.raw = raw, !.pc = "text"]
    /\ Working

\* The files, one after the other; a job may die in between.
WriteText ==
    /\ job.pc = "text"
    /\ draft' = [draft EXCEPT !.text = <<[keys |-> job.keys, raw |-> job.raw]>>]
    /\ job' = [job EXCEPT !.pc = "claims"]
    /\ UNCHANGED <<state, reported>> /\ Settled

WriteClaims ==
    /\ job.pc = "claims"
    /\ draft' = [draft EXCEPT !.claims = <<job.secs>>]
    /\ job' = [job EXCEPT !.pc = "bib"]
    /\ UNCHANGED <<state, reported>> /\ Settled

\* cited_sources: what generate_bib writes.
Bibliography(secs) == Cited(secs) \cap Listed

WriteBib ==
    /\ job.pc = "bib"
    /\ draft' = [draft EXCEPT !.bib = <<Bibliography(job.secs)>>]
    /\ job' = [job EXCEPT !.pc = "verdict"]
    /\ UNCHANGED <<state, reported>> /\ Settled

AllStubs(secs) == \A i \in Parts : secs[i].failed

\* A draft of stubs alone fails; any other leaves the run in DRAFTER_RUNNING,
\* what the citation repair came to notwithstanding.
FinishDraft ==
    /\ job.pc = "verdict"
    /\ state' = IF AllStubs(job.secs) THEN "FAILED_FIXABLE" ELSE state
    /\ job' = Rest("drafter")
    /\ UNCHANGED <<draft, reported>> /\ Settled
-----------------------------------------------------------------------------
(* Stylist.                                                                 *)

\* stylist_artifacts_ready, asked by start_stylist and by the agent: the newest
\* directory is complete.
Ready == <<>> \notin {draft.text, draft.claims, draft.bib}

\* _run_stylist_with_session up to the first section; a manuscript without
\* headings fails.
BeginStyle ==
    /\ state \in {"DRAFTER_RUNNING", "USER_REVISION_REVIEW"}
    /\ job.pc = "idle"
    /\ Ready
    /\ \/ /\ state' = "STYLIST_RUNNING"
          /\ job' = [Idle EXCEPT !.phase = "stylist", !.pc = "style"]
       \/ /\ state' = "FAILED_FIXABLE"
          /\ job' = Rest("stylist")
    /\ UNCHANGED <<draft, reported>> /\ Settled

\* Mutant of Dropped: the difference the other way round.
Dropped_Swapped(original, revised) == ~study.numbered /\ ~(revised \subseteq original)

\* _missing_citation_keys: keys of citations.bib only, which the [N] of a numbered
\* paper are not.
Dropped(original, revised) == ~study.numbered /\ ~(original \subseteq revised)

Original == draft.text[1].keys

\* The section, or the full text, is done with these keys.
Styled(keys) ==
    job' = [job EXCEPT !.keys[job.part] = keys, !.attempt = 0, !.lost = FALSE, !.overlap = FALSE,
                       !.part = IF @ < Length THEN @ + 1 ELSE 1,
                       !.pc = IF job.part < Length THEN "style" ELSE "score"]

FailStyle ==
    /\ state' = "FAILED_FIXABLE"
    /\ job' = Rest("stylist")

\* An attempt at a section.  ngram_guard falls back to the original, unless a
\* later hook asks for another attempt: an overlap seen once keeps the original
\* all the same, and a claim or key dropped once fails the run when no attempt
\* succeeds (_stylist_safety_guidance looks at every attempt).
StyleSection ==
    /\ job.pc = "style"
    /\ \/ \E keys \in SUBSET Keys :        \* accepted
              /\ ~Dropped(Original[job.part], keys)
              /\ Styled(IF job.overlap THEN Original[job.part] ELSE keys)
              /\ UNCHANGED state
       \/ /\ Styled(Original[job.part])    \* the guard's fallback, or an exception
          /\ UNCHANGED state
       \/ \E lost, overlap \in BOOLEAN :   \* rejected
              IF job.attempt < Corrections
              THEN /\ job' = [job EXCEPT !.attempt = @ + 1, !.lost = @ \/ lost,
                                         !.overlap = @ \/ (lost /\ overlap)]
                   /\ UNCHANGED state
              ELSE IF job.lost \/ lost THEN FailStyle
              ELSE Styled(Original[job.part]) /\ UNCHANGED state
    /\ UNCHANGED <<draft, reported>> /\ Settled

\* The keys a text cites anywhere.
AllKeys(keys) == UNION {keys[i] : i \in Parts}

\* Below the stop-slop threshold the whole text is polished once more, in one
\* attempt, against the draft and not against the revised sections.
Polish ==
    /\ job.pc = "score"
    /\ \/ /\ job' = [job EXCEPT !.pc = "save"]
          /\ UNCHANGED state
       \/ /\ \E keys \in Prose :
                /\ ~Dropped(AllKeys(Original), AllKeys(keys))
                /\ job' = [job EXCEPT !.keys = keys, !.pc = "save"]
          /\ UNCHANGED state
       \/ FailStyle
    /\ UNCHANGED <<draft, reported>> /\ Settled

\* style/paper_styled.md and the review.
FinishStyle ==
    /\ job.pc = "save"
    /\ draft' = [draft EXCEPT !.styled = <<job.keys>>]
    /\ state' = "USER_REVISION_REVIEW"
    /\ job' = Rest("stylist")
    /\ UNCHANGED reported /\ Settled
-----------------------------------------------------------------------------
(* The user and the system.                                                 *)

\* The failed phase is rewound to its input state.
Retry ==
    /\ state = "FAILED_FIXABLE"
    /\ job.pc = "idle"
    /\ state' = IF job.phase = "drafter" THEN "USER_NOVELTY_REVIEW" ELSE "USER_REVISION_REVIEW"
    /\ UNCHANGED <<draft, reported, job>> /\ Settled

\* The failed phase is sent on to its review (PHASE_REVIEW_STATE).
ForceApprove ==
    /\ state = "FAILED_FIXABLE"
    /\ job.pc = "idle"
    /\ state' = "USER_REVISION_REVIEW"
    /\ UNCHANGED <<study, draft, reported, job>>

\* rerun_phase of the drafter.
Redraft ==
    /\ state = "USER_REVISION_REVIEW"
    /\ job.pc = "idle"
    /\ state' = "USER_NOVELTY_REVIEW"
    /\ UNCHANGED <<draft, reported, job>> /\ Settled

\* A job the system kills; the reaper fails its run.
Die ==
    /\ job.pc # "idle"
    /\ state' = "FAILED_FIXABLE"
    /\ job' = Rest(job.phase)
    /\ UNCHANGED <<study, draft, reported>>

DraftStep ==
    \/ DraftSection \/ CheckFloor \/ Diversify \/ Compose \/ RepairMarkers \/ Cohere
    \/ WriteText \/ WriteClaims \/ WriteBib \/ FinishDraft

StyleStep == StyleSection \/ Polish \/ FinishStyle

Next ==
    \/ BeginDraft \/ DraftStep \/ BeginStyle \/ StyleStep
    \/ Retry \/ ForceApprove \/ Redraft \/ Die

Spec == Init /\ [][Next]_vars

-----------------------------------------------------------------------------
\* As long as the evidence policy is on, whoever wrote a section last (a section
\* call, a stub, the diversity repair), each source the claims of a draft name is
\* an entry of its bibliography.
ClaimsAreVouched ==
    draft.bib # <<>> /\ ~(study.bound = "off" /\ study.analytic = "off")
        => Cited(draft.claims[1]) \subseteq draft.bib[1]

\* A draft on disk cites fewer sources than its shortlist could give, up to the
\* floor, exactly when the event that says so was recorded for it.
FloorIsReported ==
    draft.claims # <<>> => (reported <=> Below(draft.claims[1]))

\* No citation key of a draft is lost in its styled text, over all sections, their
\* attempts and the last polish.
KeysSurviveStyle ==
    draft.styled # <<>> /\ ~study.numbered
        => AllKeys(draft.text[1].keys) \subseteq AllKeys(draft.styled[1])

\* The manuscript on disk cites as often what the sections cite, or what the
\* repair of their markers left, whatever the coherence pass did to the text.
CitationsSurvive ==
    job.pc \in {"claims", "bib", "verdict"}
        => \A k \in Keys : Count(draft.text[1].keys, k) = Count(job.body, k)

=============================================================================
