----------------------------- MODULE Sourcing -----------------------------
(***************************************************************************)
(* From a topic to claims: the scout searches, the user reviews, the        *)
(* curator ranks and fetches, the user reviews again, the synthesizer reads *)
(* (agents/scout.py, curator.py, synthesizer.py and what they call), while  *)
(* the user uploads papers (main.py upload_source_pdf).  What a vendor or a *)
(* model answers is a choice.  Only the newest of each review counts.       *)
(***************************************************************************)
EXTENDS Naturals, FiniteSets, Sequences, FiniteSetsExt

CONSTANTS
    Records,       \* what the vendors, the mining and the archives may find
    Papers,        \* what the user may upload, under an id of Records too
    Clients,       \* the vendors the scout asks
    Manual,        \* those of them that are not automated
    Rescue,        \* min_pool of filter_off_topic_candidates
    MinPool,       \* synthesizer_min_processed_sources
    Limit,         \* _shortlist_limit
    VenueCap,      \* max(1, floor(limit * DIVERSITY_VENUE_CAP))
    AuthorCap,     \* DIVERSITY_AUTHOR_CAP
    Libraries,     \* what may be true of the records
    Redos          \* bound: how often a phase is retried or rerun

ASSUME CapsAssumption ==
    /\ {Rescue, MinPool, Limit, VenueCap, AuthorCap, Redos} \subseteq Nat
    /\ Manual \subseteq Clients
    /\ IsFiniteSet(Records) /\ IsFiniteSet(Papers)

VARIABLES
    state,     \* Run.state
    lib,       \* of each record: client and work; fit ("strong", "rescue", "none")
               \* to the topic; verified, allowed by the literature policy; venue,
               \* author, year; access; text: there is an abstract; hits: it names
               \* the kernel's material and can be read
    baseline,  \* shadow_baseline/baseline_v001.json is there
    skim,      \* discovery/skim_candidates.jsonl
    review,    \* the newest ACCEPTED ids of each source review; open: it is the
               \* newest and younger than the output it is about
    disk,      \* shortlist.json, fulltext_manifest.json (an entry is the user's or was
               \* fetched), the PDFs of fulltext/, user_upload_sources.json, the
               \* sources of claims.jsonl; stale: stale_from_phase of the branch is
               \* the synthesizer or an earlier phase
    posting,   \* the upload past its check of the state
    job,       \* the running job; phase is the last one's when none runs
    redos      \* retries and reruns so far

vars == <<state, lib, baseline, skim, review, disk, posting, job, redos>>

Ids == Records \cup Papers
RunningStates == {"SCOUT_RUNNING", "CURATOR_RUNNING", "SYNTHESIZER_RUNNING"}

\* _uploaded_source: what the curator knows of a paper the user brought.
Uploaded == [client |-> "user_upload", work |-> "own", fit |-> "strong", verified |-> TRUE,
             allowed |-> TRUE, venue |-> "none", author |-> "user", year |-> 0,
             access |-> "open", text |-> FALSE, hits |-> FALSE, nr |-> 0]

\* _merge_source_lists: an upload takes the place of the record of its id.
Of(id) == IF id \in disk.uploaded \cup (Papers \ Records) THEN Uploaded ELSE lib[id]

Idle == [phase |-> "none", pc |-> "idle", tries |-> 0, pending |-> {}, answered |-> FALSE,
         pool |-> {}, ranked |-> <<>>, rest |-> {}, manifest |-> [id \in Ids |-> "none"],
         done |-> {}, poor |-> 0]
Rest(phase) == [Idle EXCEPT !.phase = phase]

Init ==
    /\ state = "DOMAIN_LOADED"
    /\ lib \in Libraries
    /\ baseline = FALSE
    /\ skim = {}
    /\ review = [kind \in {"search", "dive"} |-> [ids |-> <<>>, open |-> FALSE]]
    /\ disk = [shortlist |-> {}, manifest |-> [id \in Ids |-> "none"], files |-> {},
               uploaded |-> {}, claims |-> <<>>, stale |-> FALSE]
    /\ posting = <<>>
    /\ job = Idle
    /\ redos = 0

Before(phase) == CASE phase = "scout" -> "DOMAIN_LOADED"
                   [] phase = "curator" -> "USER_SEARCH_REVIEW"
                   [] phase = "synthesizer" -> "USER_DEEP_DIVE_REVIEW"

Later(phase) == CASE phase = "scout" -> {"USER_SEARCH_REVIEW", "USER_DEEP_DIVE_REVIEW",
                                         "USER_FIELD_REVIEW"}
                  [] phase = "curator" -> {"USER_DEEP_DIVE_REVIEW", "USER_FIELD_REVIEW"}
                  [] phase = "synthesizer" -> {"USER_FIELD_REVIEW"}

\* _fail_fixable, and the same ending of the curator and the scout.
Failed(as) == state' = as /\ job' = Rest(job.phase)

\* The output of a phase is newer than every review of it.
Close(kind) == review' = [review EXCEPT ![kind].open = FALSE]

Enter(phase) ==
    CASE phase = "scout" ->
            state' = "SCOUT_RUNNING" /\ job' = [Idle EXCEPT !.phase = phase, !.pc = "baseline"]
      [] phase = "curator" ->
            state' = "CURATOR_RUNNING" /\ job' = [Idle EXCEPT !.phase = phase, !.pc = "prune"]
      [] phase = "synthesizer" ->
            state' = "SYNTHESIZER_RUNNING" /\ job' = [Idle EXCEPT !.phase = phase, !.pc = "read"]

\* _require_source_review_checkpoint: an accepted review of the current output.
Cleared(phase) ==
    CASE phase = "scout" -> TRUE
      [] phase = "curator" -> review["search"].open
      [] phase = "synthesizer" -> review["dive"].open

\* start_scout, start_curator, start_synthesizer.
Start(phase) ==
    /\ job.pc = "idle"
    /\ state = Before(phase)
    /\ Cleared(phase)
    /\ Enter(phase)
    /\ UNCHANGED <<lib, baseline, skim, review, disk, posting, redos>>

\* retry_failed_phase and rerun_phase ask for no review.
Redo(phase) ==
    /\ job.pc = "idle"
    /\ redos < Redos
    /\ redos' = redos + 1
    /\ \/ state \in {"FAILED_FIXABLE", "FAILED_VENDOR"} /\ job.phase = phase
       \/ state \in Later(phase)
    /\ Enter(phase)
    /\ UNCHANGED <<lib, baseline, skim, review, disk, posting>>

\* The worker dies, or an exception leaves the job; a recovery fails the run.  Not
\* where the bound leaves nothing to follow.
Crash ==
    /\ job.pc # "idle" /\ redos < Redos
    /\ Failed("FAILED_FIXABLE")
    /\ UNCHANGED <<lib, baseline, skim, review, disk, posting, redos>>
-----------------------------------------------------------------------------
(* Scout.                                                                   *)

ScoutRests == UNCHANGED <<lib, review, disk, posting, redos>>

\* _run_shadow_baseline_best_effort: once for a run, two attempts, then without.
Baseline ==
    /\ job.pc = "baseline"
    /\ \/ baseline /\ job' = [job EXCEPT !.pc = "expand", !.tries = 0] /\ UNCHANGED baseline
       \/ ~baseline /\ baseline' = TRUE /\ job' = [job EXCEPT !.pc = "expand", !.tries = 0]
       \/ /\ ~baseline
          /\ job' = IF job.tries = 1 THEN [job EXCEPT !.pc = "expand", !.tries = 0]
                                     ELSE [job EXCEPT !.tries = 1]
          /\ UNCHANGED baseline
    /\ UNCHANGED <<state, skim>> /\ ScoutRests

Corrections == 2   \* max_corrective_retries of the query expansion

\* The hook of the title: too few of the queries name the title and the kernel.
OffTitle ==
    /\ job.pc = "expand" /\ job.tries < Corrections
    /\ job' = [job EXCEPT !.tries = @ + 1]
    /\ UNCHANGED <<state, baseline, skim>> /\ ScoutRests

\* _expand_queries: whatever the model answers there is something to ask, the
\* templates of the domain at worst.
Expand ==
    /\ job.pc = "expand"
    /\ job' = [job EXCEPT !.pc = "search", !.tries = 0, !.pending = Clients]
    /\ UNCHANGED <<state, baseline, skim>> /\ ScoutRests

Found(client) == {r \in Records : lib[r].client = client}

\* A search task of _collect_sources ends, in any order; an error is a warning.
\* Only an automated client that answers counts as a success.
Answer(client) ==
    /\ job.pc = "search" /\ client \in job.pending
    /\ \/ \E hits \in {{}, Found(client)} :
            job' = [job EXCEPT !.pending = @ \ {client}, !.pool = @ \cup hits,
                               !.answered = @ \/ client \notin Manual]
       \/ job' = [job EXCEPT !.pending = @ \ {client}]
    /\ UNCHANGED <<state, baseline, skim>> /\ ScoutRests

\* deduplicate_sources: the first record of each work, the mined ones first.
Dedup(pool) ==
    {r \in pool : \A s \in pool : lib[s].work = lib[r].work => lib[r].nr <= lib[s].nr}

\* filter_off_topic_candidates: what fits, and what fits half while there is
\* little.
Fitting(pool) ==
    LET strong == {r \in pool : lib[r].fit = "strong"}
        half == {r \in pool : lib[r].fit = "rescue"}
        first(r) == {s \in half : lib[s].nr < lib[r].nr}
    IN  strong \cup {r \in half : Cardinality(strong) + Cardinality(first(r)) < Rescue}

\* _ensure_topic_fitness_dedup_floor: the filter is bypassed where it would leave
\* fewer works than the synthesizer needs and the search found enough.
Floored(pool) ==
    LET kept == Fitting(pool)
    IN  IF Cardinality(Dedup(kept)) < MinPool /\ Cardinality(Dedup(pool)) >= MinPool
        THEN pool ELSE kept

\* No automated client answered.
NoVendor ==
    /\ job.pc = "search" /\ job.pending = {} /\ ~job.answered
    /\ Failed("FAILED_VENDOR")
    /\ UNCHANGED <<baseline, skim>> /\ ScoutRests

\* The end of _collect_sources.
Collected ==
    /\ job.pc = "search" /\ job.pending = {} /\ job.answered
    /\ job' = [job EXCEPT !.pc = "mine", !.pool = Floored(@)]
    /\ UNCHANGED <<state, baseline, skim>> /\ ScoutRests

\* _verify_one_work: each work of the model's canon is asked of two vendors, and
\* found or dropped on its own.
Confirmed == SUBSET Found("canon")

\* mine_and_verify_canonical_sources; a failure of it is a warning.
Canon == {{}} \cup Confirmed

\* enrich_with_shadow_baseline: the references of the baseline, likewise.
Shadowed == IF baseline THEN {{}, Found("shadow")} ELSE {{}}

\* _official_archive_sources_for_kernel: the archives of one topic, verified.
Archives == Found("official")

\* What the scout adds to the search, one after the other.
Mine ==
    /\ job.pc = "mine"
    /\ \E canon \in Canon, shadow \in Shadowed :
         job' = [job EXCEPT !.pc = "skim", !.pool = @ \cup canon \cup shadow \cup Archives]
    /\ UNCHANGED <<state, baseline, skim>> /\ ScoutRests

\* Duplicates go, the filter once more (without the floor), the files, the commit.
Skim ==
    /\ job.pc = "skim"
    /\ skim' = Fitting(Dedup(job.pool))
    /\ state' = "USER_SEARCH_REVIEW"
    /\ job' = Rest("scout")
    /\ Close("search")
    /\ UNCHANGED <<lib, baseline, disk, posting, redos>>
-----------------------------------------------------------------------------
(* The user: reviews and uploads.                                           *)

\* _record_source_review_checkpoint: only in the state of that review.
Review(kind) ==
    /\ job.pc = "idle"
    /\ state = Before(IF kind = "search" THEN "curator" ELSE "synthesizer")
    /\ \/ \E ids \in SUBSET (IF kind = "search" THEN skim ELSE disk.shortlist) :
            review' = [review EXCEPT ![kind] = [ids |-> <<ids>>, open |-> TRUE]]
       \/ Close(kind)
    /\ UNCHANGED <<state, lib, baseline, skim, disk, posting, job, redos>>

\* upload_source_pdf up to its check of the state.  The input safety check and the
\* reading of the body come between it and the store.
Post(id) ==
    /\ posting = <<>>
    /\ state \notin RunningStates
    /\ id \notin disk.uploaded
    /\ posting' = <<id>>
    /\ UNCHANGED <<state, lib, baseline, skim, review, disk, job, redos>>

\* The text is not safe, or the file is no PDF or too large.
Refuse ==
    /\ posting # <<>>
    /\ posting' = <<>>
    /\ UNCHANGED <<state, lib, baseline, skim, review, disk, job, redos>>

\* store_uploaded_pdf, and the marker where there is a synthesis to be stale.
Store ==
    /\ posting # <<>>
    /\ LET id == posting[1]
       IN  disk' = [disk EXCEPT !.uploaded = @ \cup {id}, !.shortlist = @ \cup {id},
                                !.manifest[id] = "user",
                                !.stale = @ \/ disk.claims # <<>>]
    /\ posting' = <<>>
    /\ UNCHANGED <<state, lib, baseline, skim, review, job, redos>>
-----------------------------------------------------------------------------
(* Curator.                                                                 *)

CuratorRests == UNCHANGED <<lib, baseline, skim, posting, redos>>

\* Mutant of Kept: an entry stays while its source is a candidate again.
Kept_Incremental == {id \in Ids : disk.manifest[id] # "none" /\ id \in skim \cup disk.uploaded}

\* _is_user_owned_manifest_entry.
Kept == {id \in Ids : disk.manifest[id] # "none"
                      /\ (id \in disk.uploaded \/ disk.manifest[id] = "user")}

\* The newest accepted review, whatever its age, and every upload.
Candidates ==
    disk.uploaded \cup
        (IF review["search"].ids = <<>> THEN skim ELSE skim \cap review["search"].ids[1])

\* _prune_curator_replacement_cache: what the curator once fetched goes.
Replaced ==
    [disk EXCEPT !.manifest = [id \in Ids |-> IF id \in Kept THEN @[id] ELSE "none"],
                 !.files = @ \cap {id \in Kept : disk.manifest[id] = "fetched"}]

\* The cache is pruned, and the candidates are there or not: none at all, none that
\* were approved, none the literature policy lets in, or the rest is scored.
Prune ==
    /\ job.pc = "prune"
    /\ disk' = Replaced
    /\ LET allowed == {id \in Candidates : Of(id).allowed}
       IN  IF allowed = {} THEN Failed("FAILED_FIXABLE")
           ELSE /\ job' = [job EXCEPT !.pc = "rank", !.pool = allowed]
                /\ UNCHANGED state
    /\ UNCHANGED review /\ CuratorRests

Cap == 30        \* HARD_PENALTY_CAP, in percent

\* What a batch of four axes may say of a source: its scores blended, and whether
\* it is out of scope or not to be retained.
AxesSay == {[raw |-> 90, unfit |-> FALSE], [raw |-> 90, unfit |-> TRUE]}

\* The batch of one axis that takes its place where it fails knows of no scope.
LegacySays == {[raw |-> 20, unfit |-> FALSE], [raw |-> 90, unfit |-> FALSE]}

\* _rank_sources: the penalty.
Penalised(said) == IF said.unfit THEN Min({said.raw, Cap}) ELSE said.raw

\* _apply_kernel_access_adjustment: what names the kernel's material and can be
\* read stays within the deep dive.
Lifted(id, score) == IF Of(id).hits THEN Min({100, Max({score + 10, 68})}) ELSE score

\* By score, the best first; sorted() keeps the order of equal ones.
Orders(score) ==
    LET before(x, y) == score[x] > score[y] \/ (score[x] = score[y] /\ Of(x).nr < Of(y).nr)
        places == 1..Cardinality(DOMAIN score)
    IN  {seq \in [places -> DOMAIN score] :
           \A i, j \in places : i < j => seq[i] # seq[j] /\ ~before(seq[j], seq[i])}

\* Scores of all batches, or years only.
Scores ==
    {[id \in job.pool |-> Lifted(id, Penalised(said[id]))] :
        said \in [job.pool -> AxesSay \cup LegacySays]}
    \cup {[id \in job.pool |-> Lifted(id, Of(id).year)]}

\* _score_relevance_batches.
Rank ==
    /\ job.pc = "rank"
    /\ \E score \in Scores : \E seq \in Orders(score) :
          job' = [job EXCEPT !.pc = "gate", !.pool = {}, !.ranked = seq]
    /\ UNCHANGED <<state, review, disk>> /\ CuratorRests

With(chosen, field, value) == Cardinality({id \in chosen : Of(id)[field] = value})

\* Mutant of Fits: one too many of a venue or an author.
Fits_OneMore(id, chosen) ==
    /\ Cardinality(chosen) < Limit
    /\ Of(id).venue # "none" => With(chosen, "venue", Of(id).venue) <= VenueCap
    /\ With(chosen, "author", Of(id).author) <= AuthorCap

\* The tests of diversity_rerank; who fails one is a runner-up.
Fits(id, chosen) ==
    /\ Cardinality(chosen) < Limit
    /\ Of(id).venue # "none" => With(chosen, "venue", Of(id).venue) < VenueCap
    /\ With(chosen, "author", Of(id).author) < AuthorCap

\* Mutant of Gated: unverified sources pass.
Gated_All(id) == TRUE

\* _apply_verification_gate, include_unverified_in_citation_pool off.
Gated(id) == Of(id).verified

\* diversity_rerank of what passed the gate: from the best on, the places of those
\* that fit with the ones taken before them.
Diverse(seq, taken) ==
    \A i \in DOMAIN seq :
        i \in taken <=> Gated(seq[i]) /\ Fits(seq[i], {seq[j] : j \in {t \in taken : t < i}})

\* The gate, the caps, and the manifest as it is now.
Gate ==
    /\ job.pc = "gate"
    /\ \E taken \in SUBSET DOMAIN job.ranked :
          /\ Diverse(job.ranked, taken)
          /\ job' = [job EXCEPT !.pc = "fetch", !.manifest = disk.manifest, !.rest = taken]
    /\ UNCHANGED <<state, review, disk>> /\ CuratorRests

\* What is open, and what has only metadata but a page with a PDF on it.
Fetchable(id) == Of(id).access \in {"open", "metadata"}

\* _resolve_source_fulltext: the PDF is fetched, or asked of the user.  An upload
\* with a DOI or a URL may be fetched too.
Fetch ==
    /\ job.pc = "fetch" /\ job.rest # {}
    /\ LET best == Min(job.rest)
           id == job.ranked[best]
           next == [job EXCEPT !.rest = @ \ {best}, !.done = @ \cup {id}]
       IN  \/ /\ Fetchable(id)
              /\ disk' = [disk EXCEPT !.files = @ \cup {id}]
              /\ job' = [next EXCEPT !.manifest[id] = "fetched"]
           \/ UNCHANGED disk /\ job' = next
    /\ UNCHANGED <<state, review>> /\ CuratorRests

\* shortlist.json and fulltext_manifest.json.
Write ==
    /\ job.pc = "fetch" /\ job.rest = {}
    /\ disk' = [disk EXCEPT !.shortlist = job.done, !.manifest = job.manifest]
    /\ job' = [job EXCEPT !.pc = "commit"]
    /\ UNCHANGED <<state, review>> /\ CuratorRests

CuratorDone ==
    /\ job.pc = "commit"
    /\ state' = "USER_DEEP_DIVE_REVIEW"
    /\ job' = Rest("curator")
    /\ Close("dive")
    /\ UNCHANGED disk /\ CuratorRests
-----------------------------------------------------------------------------
(* Synthesizer.                                                             *)

SynthesizerRests == UNCHANGED <<lib, baseline, skim, review, posting, redos>>

\* Mutant of Chosen: the review is not asked.
Chosen_Shortlist == disk.shortlist

\* _select_sources; without a review the best of the shortlist, which is no longer
\* than the deep dive here.
Chosen ==
    IF review["dive"].ids # <<>> THEN disk.shortlist \cap review["dive"].ids[1]
                                 ELSE disk.shortlist

\* The shortlist and the manifest are read once.
Read ==
    /\ job.pc = "read"
    /\ IF Chosen = {}
       THEN disk' = [disk EXCEPT !.claims = <<{}>>] /\ Failed("FAILED_FIXABLE")
       ELSE /\ job' = [job EXCEPT !.pc = "notes", !.pool = Chosen, !.pending = Chosen,
                                  !.manifest = disk.manifest]
            /\ UNCHANGED <<state, disk>>
    /\ SynthesizerRests

\* The PDF the manifest names is there: an upload's own, or a fetched one.
Readable(id) == job.manifest[id] = "user" \/ id \in disk.files

\* _source_text: of the PDF, else of the abstract or the verified metadata.
Sourced(id) == IF job.manifest[id] # "none" THEN Readable(id)
                                            ELSE Of(id).text \/ Of(id).verified

\* One source: a summary, or a warning.  A PDF that is gone or cannot be read
\* counts as a poor extraction.
Note(id) ==
    /\ job.pc = "notes" /\ id \in job.pending
    /\ LET next == [job EXCEPT !.pending = @ \ {id}]
       IN  \/ Sourced(id) /\ job' = [next EXCEPT !.done = @ \cup {id}]
           \/ job.manifest[id] # "none" /\ job' = [next EXCEPT !.poor = @ + 1]
           \/ job' = next
    /\ UNCHANGED <<state, disk>> /\ SynthesizerRests

\* claims.jsonl and the dual tracks, then the two thresholds.
SynthesizerDone ==
    /\ job.pc = "notes" /\ job.pending = {}
    /\ LET enough == Cardinality(job.done) >= MinPool /\ 2 * job.poor <= Cardinality(job.pool)
       IN  /\ disk' = [disk EXCEPT !.claims = <<job.done>>, !.stale = @ /\ ~enough]
           /\ Failed(IF enough THEN "USER_FIELD_REVIEW" ELSE "FAILED_FIXABLE")
    /\ SynthesizerRests
-----------------------------------------------------------------------------
ScoutStep == Baseline \/ OffTitle \/ Expand \/ (\E c \in Clients : Answer(c))
             \/ NoVendor \/ Collected \/ Mine \/ Skim
CuratorStep == Prune \/ Rank \/ Gate \/ Fetch \/ Write \/ CuratorDone
SynthesizerStep == Read \/ (\E id \in Ids : Note(id)) \/ SynthesizerDone
JobStep == ScoutStep \/ CuratorStep \/ SynthesizerStep

UserStep == \/ \E phase \in {"scout", "curator", "synthesizer"} : Start(phase) \/ Redo(phase)
            \/ \E kind \in {"search", "dive"} : Review(kind)
            \/ \E id \in Papers : Post(id)
            \/ Refuse
            \/ Store

Next == JobStep \/ UserStep \/ Crash

Spec == Init /\ [][Next]_vars

-----------------------------------------------------------------------------
\* Whatever was rerun, crashed or uploaded in between: a source the user reads on
\* the shortlist is the user's own, or the scout's pool holds it, the newest
\* accepted review approves it (where there is one), the policy allows it and it
\* is verified.
ShortlistIsVouched ==
    state = "USER_DEEP_DIVE_REVIEW" =>
        \A id \in disk.shortlist \ disk.uploaded :
            /\ id \in skim
            /\ review["search"].ids # <<>> => id \in review["search"].ids[1]
            /\ lib[id].allowed /\ lib[id].verified

\* The diversity caps hold of what the curator put on the shortlist, whatever the
\* order of the scores; an upload may come on top.
CapsHold ==
    state = "USER_DEEP_DIVE_REVIEW" =>
        LET chosen == disk.shortlist \ disk.uploaded
        IN  /\ Cardinality(chosen) <= Limit
            /\ \A id \in chosen :
                  /\ lib[id].venue # "none" => With(chosen, "venue", lib[id].venue) <= VenueCap
                  /\ With(chosen, "author", lib[id].author) <= AuthorCap

\* The replacement contract of _prune_curator_replacement_cache: after a curation,
\* also one that follows a crash or a rerun of the scout, the manifest names no
\* fetched PDF of an old shortlist, and every PDF it names is there.
OldPdfsAreGone ==
    state = "USER_DEEP_DIVE_REVIEW" =>
        \A id \in Ids : disk.manifest[id] = "fetched" =>
            id \in disk.files /\ id \in disk.shortlist \cup disk.uploaded

\* A synthesis the user reads speaks of sources of the shortlist the user chose
\* for the deep dive, and of no more of them than could be read.
ClaimsAreGrounded ==
    state = "USER_FIELD_REVIEW" =>
        \A id \in disk.claims[1] :
            /\ id \in disk.shortlist
            /\ review["dive"].ids # <<>> => id \in review["dive"].ids[1]
            /\ disk.manifest[id] = "fetched" => id \in disk.files

=============================================================================
