--------------------------- MODULE SourcingProofs ---------------------------
(***************************************************************************)
(* What the scout, the curator and the synthesizer promise of the sources, *)
(* for any records and papers, limits and caps, libraries, and any number  *)
(* of reruns, crashes and uploads that come in between.                    *)
(*                                                                         *)
(* The properties hold in the two states in which the user reads: of the   *)
(* shortlist and of the synthesis.  They are carried there by the job: by  *)
(* its pool, its ranking, the places it has taken and what it has fetched. *)
(* An upload that is stored meanwhile changes the files under a running    *)
(* job, so that each part excepts what is the user's own.                  *)
(***************************************************************************)
EXTENDS Sourcing, FiniteSetTheorems, SequenceTheorems, WellFoundedInduction, TLAPS
-----------------------------------------------------------------------------
(* Types.                                                                   *)

ScoutSteps == {"baseline", "expand", "search", "mine", "skim"}
CuratorSteps == {"prune", "rank", "gate", "fetch", "commit"}
SynthesizerSteps == {"read", "notes"}
Phases == {"scout", "curator", "synthesizer"}
Manifest == [Ids -> {"none", "user", "fetched"}]

ReviewType == [{"search", "dive"} -> [ids : Seq(SUBSET Ids), open : BOOLEAN]]

DiskType ==
    [shortlist : SUBSET Ids, manifest : Manifest, files : SUBSET Ids, uploaded : SUBSET Ids,
     claims : Seq(SUBSET Ids), stale : BOOLEAN]

JobType ==
    [phase : Phases \cup {"none"},
     pc : ScoutSteps \cup CuratorSteps \cup SynthesizerSteps \cup {"idle"},
     tries : Nat, pending : SUBSET (Clients \cup Ids), answered : BOOLEAN, pool : SUBSET Ids,
     ranked : Seq(Ids), rest : SUBSET Nat, manifest : Manifest, done : SUBSET Ids, poor : Nat]

TypeOK ==
    /\ skim \in SUBSET Records
    /\ review \in ReviewType
    /\ disk \in DiskType
    /\ posting \in Seq(Papers)
    /\ job \in JobType

-----------------------------------------------------------------------------
(* The inductive invariant.                                                 *)

StateIsOfJob ==
    /\ job.pc \in ScoutSteps => state = "SCOUT_RUNNING" /\ job.pool \subseteq Records
    /\ job.pc \in CuratorSteps => state = "CURATOR_RUNNING"
    /\ job.pc \in SynthesizerSteps => state = "SYNTHESIZER_RUNNING"
    /\ job.pc \notin {"fetch", "commit", "notes"} => job.done = {}

\* The shortlist is on disk and nothing that would put another in its place has begun.
Listed == job.pc = "commit" \/ state = "USER_DEEP_DIVE_REVIEW"

Approved(id) ==
    /\ id \in skim
    /\ review["search"].ids # <<>> => id \in review["search"].ids[1]
    /\ lib[id].allowed

\* From the candidates to the shortlist.
ListIsVouched ==
    /\ job.pc = "rank" => \A id \in job.pool \ disk.uploaded : Approved(id)
    /\ job.pc \in {"gate", "fetch"} =>
          \A i \in DOMAIN job.ranked : job.ranked[i] \notin disk.uploaded => Approved(job.ranked[i])
    /\ job.pc = "fetch" =>
          /\ job.rest \subseteq DOMAIN job.ranked
          /\ \A i \in job.rest : job.ranked[i] \notin disk.uploaded => lib[job.ranked[i]].verified
          /\ \A id \in job.done \ disk.uploaded : Approved(id) /\ lib[id].verified
    /\ Listed => \A id \in disk.shortlist \ disk.uploaded : Approved(id) /\ lib[id].verified

Number(set, field, value) == Cardinality({id \in set : lib[id][field] = value})

Capped(set) ==
    /\ Cardinality(set) <= Limit
    /\ \A id \in set :
          /\ lib[id].venue # "none" => Number(set, "venue", lib[id].venue) <= VenueCap
          /\ Number(set, "author", lib[id].author) <= AuthorCap

\* What is fetched already and what is left.
Taken == job.done \cup {job.ranked[i] : i \in job.rest}

ListIsCapped ==
    /\ job.pc = "fetch" => Capped(Taken \ disk.uploaded)
    /\ Listed => Capped(disk.shortlist \ disk.uploaded)

\* A PDF a manifest names is there, and of the shortlist as soon as there is a new one.
ManifestIsOfList ==
    /\ \A id \in Ids : disk.manifest[id] = "fetched" => id \in disk.files
    /\ job.pc \in {"rank", "gate"} =>
          \A id \in Ids : disk.manifest[id] = "fetched" => id \in disk.uploaded
    /\ job.pc = "fetch" =>
          \A id \in Ids : job.manifest[id] = "fetched" =>
                            id \in disk.files /\ id \in job.done \cup disk.uploaded
    /\ Listed =>
          \A id \in Ids : disk.manifest[id] = "fetched" => id \in disk.shortlist \cup disk.uploaded

Picked(id) ==
    /\ id \in disk.shortlist
    /\ review["dive"].ids # <<>> => id \in review["dive"].ids[1]

\* What the synthesizer reads and has read.
ClaimsArePicked ==
    /\ job.pc = "notes" => \A id \in job.pending \cup job.done : Picked(id)
    /\ state = "USER_FIELD_REVIEW" => \A id \in disk.claims[1] : Picked(id)

Invariant ==
    /\ TypeOK
    /\ StateIsOfJob
    /\ ListIsVouched
    /\ ListIsCapped
    /\ ManifestIsOfList
    /\ ClaimsArePicked
-----------------------------------------------------------------------------
(* Numbers and sets.                                                        *)

LessThan == {p \in Nat \X Nat : p[1] < p[2]}

LEMMA LessIsWellFounded == IsWellFoundedOn(LessThan, Nat)
<1>1. LessThan = OpToRel(<, Nat)
  BY DEF LessThan, OpToRel
<1>2. QED
  BY <1>1, NatLessThanWellFounded

LEMMA LeastExists ==
    ASSUME NEW S \in SUBSET Nat, S # {}
    PROVE  \E x \in S : \A y \in S : x <= y
<1>1. PICK x \in S : \A y \in S : ~(<<y, x>> \in LessThan)
  BY LessIsWellFounded, WFMin
<1>2. \A y, z \in Nat : <<y, z>> \notin LessThan => z <= y
  BY DEF LessThan
<1>3. QED
  BY <1>1, <1>2

LEMMA MinIsIn == ASSUME NEW S \in SUBSET Nat, S # {} PROVE Min(S) \in S
BY LeastExists DEF Min

LEMMA GreatestExists ==
    ASSUME NEW n \in Nat, NEW S \in SUBSET (1..n), S # {}
    PROVE  \E x \in S : \A y \in S : y <= x
<1> DEFINE T == {n - x : x \in S}
<1>1. T \in SUBSET Nat /\ T # {}
  <2>1. \A x \in S : n - x \in Nat
    OBVIOUS
  <2>2. QED
    BY <2>1
<1>2. PICK t \in T : \A u \in T : t <= u
  <2> HIDE DEF T
  <2>1. QED
    BY <1>1, LeastExists
<1>3. PICK x \in S : t = n - x
  OBVIOUS
<1>4. \A y \in S : n - x <= n - y
  BY <1>2, <1>3
<1>5. QED
  BY <1>4

\* One more than fewer than the cap is within it.
LEMMA OneMore ==
    ASSUME NEW A, IsFiniteSet(A), NEW x, NEW B, B \subseteq A \cup {x},
           NEW cap \in Nat, Cardinality(A) < cap
    PROVE  Cardinality(B) <= cap
<1>1. Cardinality(A) \in Nat
  BY FS_CardinalityType
<1>2. IsFiniteSet(A \cup {x}) /\ Cardinality(A \cup {x}) \in {Cardinality(A), Cardinality(A) + 1}
  BY FS_AddElement
<1>3. Cardinality(B) \in Nat /\ Cardinality(B) <= Cardinality(A \cup {x})
  BY <1>2, FS_Subset, FS_CardinalityType
<1>4. QED
  BY <1>1, <1>2, <1>3

LEMMA FewerOf ==
    ASSUME NEW A, IsFiniteSet(A), NEW B, B \subseteq A
    PROVE  /\ IsFiniteSet(B) /\ Cardinality(B) \in Nat /\ Cardinality(A) \in Nat
           /\ Cardinality(B) <= Cardinality(A)
BY FS_Subset, FS_CardinalityType

LEMMA IdsAreFinite ==
    /\ IsFiniteSet(Ids)
    /\ \A set \in SUBSET Ids : IsFiniteSet(set)
    /\ Records \subseteq Ids /\ Papers \subseteq Ids
    /\ {Limit, VenueCap, AuthorCap} \subseteq Nat
<1>1. IsFiniteSet(Ids)
  BY CapsAssumption, FS_Union DEF Ids
<1>2. QED
  BY <1>1, CapsAssumption, FS_Subset DEF Ids

\* A part of a capped set is capped.
LEMMA CappedPart ==
    ASSUME NEW set \in SUBSET Ids, NEW part \in SUBSET set, Capped(set)
    PROVE  Capped(part)
<1>1. IsFiniteSet(set)
  BY IdsAreFinite
<1>2. Cardinality(part) <= Limit
  BY <1>1, FewerOf, IdsAreFinite DEF Capped
<1>3. ASSUME NEW field, NEW value
      PROVE  /\ Number(part, field, value) \in Nat /\ Number(set, field, value) \in Nat
             /\ Number(part, field, value) <= Number(set, field, value)
  <2> DEFINE B == {id \in part : lib[id][field] = value}
             A == {id \in set : lib[id][field] = value}
  <2>1. B \subseteq A /\ IsFiniteSet(A)
    BY <1>1, FS_Subset
  <2>2. Cardinality(B) \in Nat /\ Cardinality(A) \in Nat /\ Cardinality(B) <= Cardinality(A)
    <3> HIDE DEF A, B
    <3>1. QED
      BY <2>1, FewerOf
  <2>3. QED
    BY <2>2 DEF Number
<1>4. ASSUME NEW id \in part
      PROVE  /\ lib[id].venue # "none" => Number(part, "venue", lib[id].venue) <= VenueCap
             /\ Number(part, "author", lib[id].author) <= AuthorCap
  <2>1. /\ lib[id].venue # "none" => Number(set, "venue", lib[id].venue) <= VenueCap
        /\ Number(set, "author", lib[id].author) <= AuthorCap
    BY DEF Capped
  <2>2. /\ Number(part, "venue", lib[id].venue) <= Number(set, "venue", lib[id].venue)
        /\ Number(part, "author", lib[id].author) <= Number(set, "author", lib[id].author)
        /\ {Number(part, "venue", lib[id].venue), Number(set, "venue", lib[id].venue),
            Number(part, "author", lib[id].author), Number(set, "author", lib[id].author)}
              \subseteq Nat
    BY <1>3
  <2>3. QED
    BY <2>1, <2>2, IdsAreFinite
<1>5. QED
  BY <1>2, <1>4 DEF Capped

\* A record that is no upload is known from the library.
LEMMA OfRecord ==
    ASSUME NEW id \in Records, id \notin disk.uploaded
    PROVE  Of(id) = lib[id]
BY DEF Of

\* Whoever goes through a ranking in order and takes what fits stays within a cap that
\* what fits asks for: look at the last one taken of those the cap counts.
LEMMA TakenWithin ==
    ASSUME NEW seq \in Seq(Ids), NEW taken \in SUBSET DOMAIN seq,
           NEW counted \in SUBSET Ids, NEW cap \in Nat,
           \A i \in taken :
               seq[i] \in counted =>
                   Cardinality({seq[j] : j \in {t \in taken : t < i}} \cap counted) < cap
    PROVE  Cardinality({seq[i] : i \in taken} \cap counted) <= cap
<1> DEFINE last == {i \in taken : seq[i] \in counted}
           all == {seq[i] : i \in taken} \cap counted
<1>1. DOMAIN seq = 1..Len(seq) /\ Len(seq) \in Nat
  BY LenProperties
<1>2. \A i \in DOMAIN seq : seq[i] \in Ids
  BY ElementOfSeq, <1>1
<1>3. CASE last = {}
  <2>1. all = {}
    BY <1>3
  <2> HIDE DEF all
  <2>2. Cardinality(all) = 0
    BY <2>1, FS_EmptySet
  <2>3. QED
    BY <2>2 DEF all
<1>4. CASE last # {}
  <2>1. PICK i \in last : \A j \in last : j <= i
    BY <1>1, <1>4, GreatestExists
  <2> DEFINE before == {seq[j] : j \in {t \in taken : t < i}} \cap counted
  <2>2. Cardinality(before) < cap
    BY <2>1
  <2>3. all \subseteq before \cup {seq[i]}
    <3> SUFFICES ASSUME NEW j \in taken, seq[j] \in counted, j # i
                 PROVE  j < i
      OBVIOUS
    <3>1. j \in last /\ j <= i
      BY <2>1
    <3>2. QED
      BY <1>1, <3>1, <2>1
  <2>4. IsFiniteSet(before)
    BY <1>2, IdsAreFinite
  <2> HIDE DEF before, all, last
  <2>5. Cardinality(all) <= cap
    BY <2>2, <2>3, <2>4, OneMore
  <2>6. QED
    BY <2>5 DEF all
<1>5. QED
  BY <1>3, <1>4

LEMMA DiverseIsCapped ==
    ASSUME NEW seq \in Seq(Ids), NEW taken \in SUBSET DOMAIN seq, Diverse(seq, taken),
           \A i \in DOMAIN seq : seq[i] \notin disk.uploaded => seq[i] \in Records
    PROVE  Capped({seq[i] : i \in taken} \ disk.uploaded)
<1> DEFINE all == {seq[i] : i \in taken}
           own == all \ disk.uploaded
           before(i) == {seq[j] : j \in {t \in taken : t < i}}
<1>1. \A i \in DOMAIN seq : seq[i] \in Ids
  BY ElementOfSeq, LenProperties
<1>2. all \in SUBSET Ids /\ IsFiniteSet(all)
  BY <1>1, IdsAreFinite
<1>3. \A i \in taken : Fits(seq[i], before(i))
  BY DEF Diverse
<1>4. \A i \in taken : before(i) \subseteq Ids
  BY <1>1
<1>5. Cardinality(own) <= Limit
  <2>1. \A i \in taken : before(i) \cap Ids = before(i)
    BY <1>4
  <2>2. \A i \in taken : Cardinality(before(i) \cap Ids) < Limit
    BY <1>3, <2>1 DEF Fits
  <2>3. Cardinality(all \cap Ids) <= Limit
    BY <2>2, TakenWithin, IdsAreFinite
  <2>4. all \cap Ids = all /\ own \subseteq all
    BY <1>2
  <2> HIDE DEF own, all
  <2>5. QED
    BY <1>2, <2>3, <2>4, FewerOf, IdsAreFinite
<1>6. ASSUME NEW field, NEW value, NEW cap \in Nat,
             \A i \in taken : Of(seq[i])[field] = value => With(before(i), field, value) < cap
      PROVE  Number(own, field, value) <= cap
  <2> DEFINE counted == {id \in Ids : Of(id)[field] = value}
  <2>1. ASSUME NEW i \in taken, seq[i] \in counted
        PROVE  Cardinality(before(i) \cap counted) < cap
    <3>1. before(i) \cap counted = {id \in before(i) : Of(id)[field] = value}
      BY <1>4
    <3>2. With(before(i), field, value) < cap
      BY <1>6, <2>1
    <3>3. QED
      BY <3>1, <3>2 DEF With
  <2>2. Cardinality(all \cap counted) <= cap
    BY <2>1, TakenWithin
  <2>3. {id \in own : lib[id][field] = value} \subseteq all \cap counted
    <3>1. \A id \in own : id \in Ids /\ Of(id) = lib[id]
      BY <1>2, OfRecord
    <3>2. QED
      BY <3>1
  <2>4. IsFiniteSet(all \cap counted)
    BY <1>2, FS_Subset
  <2> DEFINE A == all \cap counted
             B == {id \in own : lib[id][field] = value}
  <2>5. Cardinality(A) <= cap /\ B \subseteq A /\ IsFiniteSet(A)
    BY <2>2, <2>3, <2>4
  <2>6. Cardinality(B) <= cap
    <3> HIDE DEF A, B
    <3>1. QED
      BY <2>5, FewerOf
  <2>7. QED
    BY <2>6 DEF Number
<1>7. ASSUME NEW id \in own
      PROVE  /\ lib[id].venue # "none" => Number(own, "venue", lib[id].venue) <= VenueCap
             /\ Number(own, "author", lib[id].author) <= AuthorCap
  <2> DEFINE v == lib[id].venue
             a == lib[id].author
  <2>1. v # "none" => \A i \in taken : Of(seq[i]).venue = v => With(before(i), "venue", v) < VenueCap
    BY <1>3 DEF Fits
  <2>2. \A i \in taken : Of(seq[i]).author = a => With(before(i), "author", a) < AuthorCap
    BY <1>3 DEF Fits
  <2> HIDE DEF v, a, before
  <2>3. v # "none" => Number(own, "venue", v) <= VenueCap
    BY <1>6, <2>1, IdsAreFinite
  <2>4. Number(own, "author", a) <= AuthorCap
    BY <1>6, <2>2, IdsAreFinite
  <2>5. QED
    BY <2>3, <2>4 DEF v, a
<1>8. QED
  BY <1>5, <1>7 DEF Capped
-----------------------------------------------------------------------------
(* Steps that touch no list: the scout, and a job that starts or stops.     *)

LEMMA RestIsJob ==
    ASSUME NEW p \in Phases \cup {"none"}
    PROVE  /\ Rest(p) \in JobType /\ Idle \in JobType
           /\ Rest(p).pc = "idle" /\ Rest(p).done = {} /\ Idle.done = {} /\ Idle.pool = {}
<1>1. [id \in Ids |-> "none"] \in Manifest
  BY DEF Manifest
<1>2. Idle \in JobType /\ Idle.pc = "idle" /\ Idle.done = {} /\ Idle.pool = {}
  BY <1>1 DEF Idle, JobType
<1>3. Rest(p) = [Idle EXCEPT !.phase = p]
  BY DEF Rest
<1> HIDE DEF Idle
<1>4. QED
  BY <1>2, <1>3 DEF JobType

\* Whatever a job carries of a list is gone or not yet there, and no user reads one.
LEMMA Quiet ==
    ASSUME Invariant, TypeOK', StateIsOfJob', disk' = disk,
           job'.pc \notin {"rank", "gate", "fetch", "commit", "notes"},
           state' \notin {"USER_DEEP_DIVE_REVIEW", "USER_FIELD_REVIEW"}
    PROVE  Invariant'
<1>1. ListIsVouched' /\ ListIsCapped' /\ ClaimsArePicked'
  BY DEF ListIsVouched, ListIsCapped, ClaimsArePicked, Listed
<1>2. ManifestIsOfList'
  BY DEF Invariant, ManifestIsOfList, Listed
<1>3. QED
  BY <1>1, <1>2 DEF Invariant

LEMMA FailedKeeps ==
    ASSUME Invariant, NEW as \in {"FAILED_FIXABLE", "FAILED_VENDOR"}, Failed(as),
           UNCHANGED <<lib, skim, review, disk, posting>>
    PROVE  Invariant'
<1>1. job.phase \in Phases \cup {"none"} /\ job' = Rest(job.phase) /\ state' = as
  BY DEF Invariant, TypeOK, JobType, Failed
<1>2. job' \in JobType /\ job'.pc = "idle" /\ job'.done = {}
  BY <1>1, RestIsJob
<1>3. TypeOK'
  BY <1>2 DEF Invariant, TypeOK
<1>4. StateIsOfJob'
  BY <1>2 DEF StateIsOfJob, ScoutSteps, CuratorSteps, SynthesizerSteps
<1>5. QED
  BY <1>1, <1>2, <1>3, <1>4, Quiet

LEMMA EnterKeeps ==
    ASSUME Invariant, NEW phase \in Phases, Enter(phase),
           UNCHANGED <<lib, skim, review, disk, posting>>
    PROVE  Invariant'
<1>1. PICK step \in {"baseline", "prune", "read"} :
         /\ job' = [Idle EXCEPT !.phase = phase, !.pc = step]
         /\ step = "baseline" => state' = "SCOUT_RUNNING"
         /\ step = "prune" => state' = "CURATOR_RUNNING"
         /\ step = "read" => state' = "SYNTHESIZER_RUNNING"
  BY DEF Enter, Phases
<1>2. job' \in JobType /\ job'.pc = step /\ job'.done = {} /\ job'.pool = {}
  BY <1>1, RestIsJob DEF JobType, ScoutSteps, CuratorSteps, SynthesizerSteps
<1>3. TypeOK'
  BY <1>2 DEF Invariant, TypeOK
<1>4. StateIsOfJob'
  BY <1>1, <1>2 DEF StateIsOfJob, ScoutSteps, CuratorSteps, SynthesizerSteps
<1>5. QED
  BY <1>1, <1>2, <1>3, <1>4, Quiet

LEMMA ScoutGoesOn ==
    ASSUME Invariant, job.pc \in ScoutSteps, UNCHANGED <<state, skim>>, ScoutRests,
           job' \in JobType, job'.pc \in ScoutSteps, job'.pool \subseteq Records,
           job'.done = job.done
    PROVE  Invariant'
<1>1. TypeOK'
  BY DEF Invariant, TypeOK, ScoutRests
<1>2. StateIsOfJob'
  BY DEF Invariant, StateIsOfJob, ScoutSteps, CuratorSteps, SynthesizerSteps
<1>3. state = "SCOUT_RUNNING"
  BY DEF Invariant, StateIsOfJob
<1>4. QED
  BY <1>1, <1>2, <1>3, Quiet DEF ScoutRests, ScoutSteps

LEMMA FittingIsPart == ASSUME NEW pool PROVE Fitting(pool) \subseteq pool /\ Dedup(pool) \subseteq pool
BY DEF Fitting, Dedup

LEMMA ScoutKeeps == Invariant /\ ScoutStep => Invariant'
<1> SUFFICES ASSUME Invariant, ScoutStep PROVE Invariant'
  OBVIOUS
<1>1. job \in JobType /\ (job.pc \in ScoutSteps => job.pool \in SUBSET Records)
  BY DEF Invariant, TypeOK, StateIsOfJob
<1>2. Records \subseteq Ids
  BY IdsAreFinite
<1> DEFINE more == job.tries + 1
<1>3. more \in Nat
  BY <1>1 DEF JobType
<1> HIDE DEF more
<1>4. CASE Baseline
  <2>1. \/ job' = [job EXCEPT !.pc = "expand", !.tries = 0]
        \/ job' = [job EXCEPT !.tries = 1]
    BY <1>4 DEF Baseline
  <2>2. job.pc = "baseline" /\ UNCHANGED <<state, skim>> /\ ScoutRests
    BY <1>4 DEF Baseline
  <2>3. job' \in JobType /\ job'.pc \in ScoutSteps /\ job'.pool = job.pool /\ job'.done = job.done
    <3>1. CASE job' = [job EXCEPT !.pc = "expand", !.tries = 0]
      BY <1>1, <3>1 DEF JobType, ScoutSteps
    <3>2. CASE job' = [job EXCEPT !.tries = 1]
      <4>1. job' \in JobType /\ job'.pc = job.pc /\ job'.pool = job.pool /\ job'.done = job.done
        BY <1>1, <3>2 DEF JobType
      <4>2. QED
        BY <2>2, <4>1 DEF ScoutSteps
    <3>3. QED
      BY <2>1, <3>1, <3>2
  <2>4. QED
    BY <1>1, <2>2, <2>3, ScoutGoesOn DEF ScoutSteps
<1>5. CASE OffTitle
  <2>1. job' = [job EXCEPT !.tries = more] /\ job.pc = "expand" /\ UNCHANGED <<state, skim>>
        /\ ScoutRests
    BY <1>5 DEF OffTitle, more
  <2>2. job' \in JobType /\ job'.pc = "expand" /\ job'.pool = job.pool /\ job'.done = job.done
    BY <1>1, <1>3, <2>1 DEF JobType
  <2>3. QED
    BY <1>1, <2>1, <2>2, ScoutGoesOn DEF ScoutSteps
<1>6. CASE Expand
  <2>1. job' = [job EXCEPT !.pc = "search", !.tries = 0, !.pending = Clients]
        /\ job.pc = "expand" /\ UNCHANGED <<state, skim>> /\ ScoutRests
    BY <1>6 DEF Expand
  <2>2. job' \in JobType /\ job'.pc = "search" /\ job'.pool = job.pool /\ job'.done = job.done
    BY <1>1, <2>1 DEF JobType, ScoutSteps
  <2>3. QED
    BY <1>1, <2>1, <2>2, ScoutGoesOn DEF ScoutSteps
<1>7. ASSUME NEW c \in Clients, Answer(c)
      PROVE  Invariant'
  <2>1. job.pc = "search" /\ UNCHANGED <<state, skim>> /\ ScoutRests
    BY <1>7 DEF Answer
  <2>2. CASE job' = [job EXCEPT !.pending = @ \ {c}]
    <3>1. job' \in JobType /\ job'.pc = "search" /\ job'.pool = job.pool /\ job'.done = job.done
      BY <1>1, <2>1, <2>2 DEF JobType
    <3>2. QED
      BY <1>1, <2>1, <3>1, ScoutGoesOn DEF ScoutSteps
  <2>3. ASSUME NEW hits \in {{}, Found(c)},
               job' = [job EXCEPT !.pending = @ \ {c}, !.pool = @ \cup hits,
                                  !.answered = @ \/ c \notin Manual]
        PROVE  Invariant'
    <3> DEFINE pool == job.pool \cup hits
               answered == job.answered \/ c \notin Manual
    <3>1. pool \in SUBSET Records /\ pool \in SUBSET Ids /\ answered \in BOOLEAN
      BY <1>1, <1>2, <2>1 DEF Found, JobType, ScoutSteps
    <3>2. job' = [job EXCEPT !.pending = @ \ {c}, !.pool = pool, !.answered = answered]
      BY <2>3
    <3> HIDE DEF pool, answered
    <3>3. job' \in JobType /\ job'.pc = "search" /\ job'.pool = pool /\ job'.done = job.done
      BY <1>1, <2>1, <3>1, <3>2 DEF JobType
    <3>4. QED
      BY <2>1, <3>1, <3>3, ScoutGoesOn DEF ScoutSteps
  <2>4. QED
    BY <1>7, <2>2, <2>3 DEF Answer
<1>8. CASE NoVendor
  BY <1>8, FailedKeeps DEF NoVendor, ScoutRests
<1>9. CASE Collected
  <2> DEFINE pool == Floored(job.pool)
  <2>1. job.pc = "search" /\ UNCHANGED <<state, skim>> /\ ScoutRests
        /\ job' = [job EXCEPT !.pc = "mine", !.pool = pool]
    BY <1>9 DEF Collected
  <2>2. pool \in SUBSET Records /\ pool \in SUBSET Ids
    BY <1>1, <1>2, <2>1, FittingIsPart DEF Floored, ScoutSteps
  <2> HIDE DEF pool
  <2>3. job' \in JobType /\ job'.pc = "mine" /\ job'.pool = pool /\ job'.done = job.done
    BY <1>1, <2>1, <2>2 DEF JobType, ScoutSteps
  <2>4. QED
    BY <2>1, <2>2, <2>3, ScoutGoesOn DEF ScoutSteps
<1>10. CASE Mine
  <2>1. job.pc = "mine" /\ UNCHANGED <<state, skim>> /\ ScoutRests
    BY <1>10 DEF Mine
  <2>2. PICK canon \in Canon, shadow \in Shadowed :
           job' = [job EXCEPT !.pc = "skim", !.pool = @ \cup canon \cup shadow \cup Archives]
    BY <1>10 DEF Mine
  <2> DEFINE pool == job.pool \cup canon \cup shadow \cup Archives
  <2>3. pool \in SUBSET Records /\ pool \in SUBSET Ids
    BY <1>1, <1>2, <2>1 DEF Canon, Confirmed, Shadowed, Archives, Found, ScoutSteps
  <2>4. job' = [job EXCEPT !.pc = "skim", !.pool = pool]
    BY <2>2
  <2> HIDE DEF pool
  <2>5. job' \in JobType /\ job'.pc = "skim" /\ job'.pool = pool /\ job'.done = job.done
    BY <1>1, <2>1, <2>3, <2>4 DEF JobType, ScoutSteps
  <2>6. QED
    BY <2>1, <2>3, <2>5, ScoutGoesOn DEF ScoutSteps
<1>11. CASE Skim
  <2>1. job.pc = "skim" /\ job' = Rest("scout") /\ state' = "USER_SEARCH_REVIEW"
        /\ disk' = disk /\ posting' = posting
    BY <1>11 DEF Skim
  <2>2. job' \in JobType /\ job'.pc = "idle" /\ job'.done = {}
    BY <2>1, RestIsJob DEF Phases
  <2>3. skim' \in SUBSET Records
    <3>1. skim' = Fitting(Dedup(job.pool))
      BY <1>11 DEF Skim
    <3>2. Fitting(Dedup(job.pool)) \subseteq Dedup(job.pool) /\ Dedup(job.pool) \subseteq job.pool
      BY FittingIsPart
    <3>3. QED
      BY <1>1, <2>1, <3>1, <3>2 DEF ScoutSteps
  <2>4. review' \in ReviewType
    BY <1>11 DEF Skim, Close, Invariant, TypeOK, ReviewType
  <2>5. TypeOK'
    BY <2>1, <2>2, <2>3, <2>4 DEF Invariant, TypeOK
  <2>6. StateIsOfJob'
    BY <2>2 DEF StateIsOfJob, ScoutSteps, CuratorSteps, SynthesizerSteps
  <2>7. QED
    BY <2>1, <2>2, <2>5, <2>6, Quiet
<1>12. QED
  BY <1>4, <1>5, <1>6, <1>7, <1>8, <1>9, <1>10, <1>11 DEF ScoutStep

-----------------------------------------------------------------------------
(* The user.                                                                *)

LEMMA CapsStay ==
    ASSUME UNCHANGED <<lib, disk, job>>
    PROVE  /\ Capped(disk.shortlist \ disk.uploaded)' = Capped(disk.shortlist \ disk.uploaded)
           /\ Capped(Taken \ disk.uploaded)' = Capped(Taken \ disk.uploaded)
<1>1. Taken' = Taken
  BY DEF Taken
<1>2. Capped(disk.shortlist \ disk.uploaded)' = Capped(disk.shortlist \ disk.uploaded)
  BY DEF Capped, Number
<1>3. Capped(Taken \ disk.uploaded)' = Capped(Taken \ disk.uploaded)
  BY <1>1 DEF Capped, Number
<1>4. QED
  BY <1>2, <1>3

\* Nothing that the invariant speaks of changes.
LEMMA StuttersKeep ==
    ASSUME Invariant, UNCHANGED <<state, lib, skim, review, disk, job>>, posting' \in Seq(Papers)
    PROVE  Invariant'
<1>1. TypeOK' /\ StateIsOfJob'
  BY DEF Invariant, TypeOK, StateIsOfJob
<1>2. ListIsVouched'
  BY DEF Invariant, ListIsVouched, Listed, Approved
<1>3. ListIsCapped'
  BY CapsStay DEF Invariant, ListIsCapped, Listed
<1>4. ManifestIsOfList' /\ ClaimsArePicked'
  BY DEF Invariant, ManifestIsOfList, Listed, ClaimsArePicked, Picked
<1>5. QED
  BY <1>1, <1>2, <1>3, <1>4 DEF Invariant

LEMMA ReviewKeeps ==
    ASSUME Invariant, NEW kind \in {"search", "dive"}, Review(kind)
    PROVE  Invariant'
<1>1. job.pc = "idle" /\ UNCHANGED <<state, lib, skim, disk, posting, job>>
      /\ state = Before(IF kind = "search" THEN "curator" ELSE "synthesizer")
  BY DEF Review
<1>2. review' \in ReviewType /\ \A other \in {"search", "dive"} \ {kind} : review'[other] = review[other]
  <2>1. review \in ReviewType /\ skim \subseteq Ids /\ disk.shortlist \subseteq Ids
    BY IdsAreFinite DEF Invariant, TypeOK, DiskType
  <2>2. CASE Close(kind)
    BY <2>1, <2>2 DEF Close, ReviewType
  <2>3. ASSUME NEW ids \in SUBSET (IF kind = "search" THEN skim ELSE disk.shortlist),
               review' = [review EXCEPT ![kind] = [ids |-> <<ids>>, open |-> TRUE]]
        PROVE  review' \in ReviewType
               /\ \A other \in {"search", "dive"} \ {kind} : review'[other] = review[other]
    <3>1. ids \in SUBSET Ids
      BY <2>1
    <3>2. [ids |-> <<ids>>, open |-> TRUE] \in [ids : Seq(SUBSET Ids), open : BOOLEAN]
      BY <3>1
    <3> DEFINE new == [ids |-> <<ids>>, open |-> TRUE]
    <3> HIDE DEF new
    <3>3. QED
      BY <2>1, <2>3, <3>2 DEF new, ReviewType
  <2>4. QED
    BY <2>2, <2>3 DEF Review
<1>3. TypeOK'
  BY <1>1, <1>2 DEF Invariant, TypeOK
<1>4. StateIsOfJob'
  BY <1>1 DEF Invariant, StateIsOfJob
<1>5. CASE kind = "search"
  <2>1. state = "USER_SEARCH_REVIEW"
    BY <1>1, <1>5 DEF Before
  <2>2. QED
    BY <1>1, <1>3, <1>4, <2>1, Quiet
<1>6. CASE kind = "dive"
  <2>1. state = "USER_DEEP_DIVE_REVIEW" /\ review'["search"] = review["search"]
    BY <1>1, <1>2, <1>6 DEF Before
  <2>2. ListIsVouched'
    BY <1>1, <2>1 DEF Invariant, ListIsVouched, Listed, Approved
  <2>3. ListIsCapped'
    BY <1>1, CapsStay DEF Invariant, ListIsCapped, Listed
  <2>4. ManifestIsOfList' /\ ClaimsArePicked'
    BY <1>1, <2>1 DEF Invariant, ManifestIsOfList, Listed, ClaimsArePicked
  <2>5. QED
    BY <1>3, <1>4, <2>2, <2>3, <2>4 DEF Invariant
<1>7. QED
  BY <1>5, <1>6

LEMMA StoreKeeps == Invariant /\ Store => Invariant'
<1> SUFFICES ASSUME Invariant, Store PROVE Invariant'
  OBVIOUS
<1>1. UNCHANGED <<state, lib, skim, review, job>> /\ posting' = <<>>
      /\ disk \in DiskType /\ job \in JobType
  BY DEF Store, Invariant, TypeOK
<1> DEFINE id == posting[1]
           stale == disk.stale \/ disk.claims # <<>>
<1>2. id \in Ids
  <2>1. posting \in Seq(Papers) /\ posting # <<>>
    BY DEF Store, Invariant, TypeOK
  <2>2. posting[1] \in Papers
    BY <2>1, EmptySeq, LenProperties, ElementOfSeq
  <2>3. QED
    BY <2>2, IdsAreFinite
<1> DEFINE uploaded == disk.uploaded \cup {id}
           shortlist == disk.shortlist \cup {id}
           manifest == [disk.manifest EXCEPT ![id] = "user"]
<1>3. disk' = [disk EXCEPT !.uploaded = uploaded, !.shortlist = shortlist,
                           !.manifest = manifest, !.stale = stale]
  BY DEF Store
<1>4. uploaded \in SUBSET Ids /\ shortlist \in SUBSET Ids /\ manifest \in Manifest
      /\ stale \in BOOLEAN /\ (\A x \in Ids : manifest[x] = "fetched" => disk.manifest[x] = "fetched")
      /\ disk.uploaded \subseteq uploaded /\ disk.shortlist \subseteq shortlist
      /\ shortlist \ uploaded \subseteq disk.shortlist \ disk.uploaded
  BY <1>1, <1>2 DEF DiskType, Manifest
<1> HIDE DEF id, uploaded, shortlist, manifest, stale
<1>5. /\ disk' \in DiskType /\ disk'.uploaded = uploaded /\ disk'.shortlist = shortlist
      /\ disk'.manifest = manifest /\ disk'.files = disk.files /\ disk'.claims = disk.claims
  BY <1>1, <1>3, <1>4 DEF DiskType
<1>6. TypeOK'
  BY <1>1, <1>5 DEF Invariant, TypeOK
<1>7. StateIsOfJob'
  BY <1>1 DEF Invariant, StateIsOfJob
<1>8. ListIsVouched'
  BY <1>1, <1>4, <1>5 DEF Invariant, ListIsVouched, Listed, Approved
<1>9. ListIsCapped'
  <2>1. Capped(disk.shortlist \ disk.uploaded)' = Capped(shortlist \ uploaded)
    BY <1>1, <1>5 DEF Capped, Number
  <2>2. Taken' = Taken
    BY <1>1 DEF Taken
  <2>3. Capped(Taken \ disk.uploaded)' = Capped(Taken \ uploaded)
    BY <1>1, <1>5, <2>2 DEF Capped, Number
  <2>4. Listed => Capped(shortlist \ uploaded)
    <3>1. disk.shortlist \ disk.uploaded \in SUBSET Ids
      BY <1>1 DEF DiskType
    <3>2. QED
      BY <1>4, <3>1, CappedPart DEF Invariant, ListIsCapped
  <2>5. job.pc = "fetch" => Capped(Taken \ uploaded)
    <3> SUFFICES ASSUME job.pc = "fetch" PROVE Capped(Taken \ uploaded)
      OBVIOUS
    <3>1. \A i \in job.rest : job.ranked[i] \in Ids
      <4>1. job.rest \subseteq DOMAIN job.ranked /\ job.ranked \in Seq(Ids)
        BY <1>1 DEF Invariant, ListIsVouched, JobType
      <4>2. QED
        BY <4>1, ElementOfSeq, LenProperties
    <3>2. Taken \ disk.uploaded \in SUBSET Ids
      BY <1>1, <3>1 DEF Taken, JobType
    <3>3. QED
      BY <1>4, <3>2, CappedPart DEF Invariant, ListIsCapped
  <2>6. Listed' = Listed
    BY <1>1 DEF Listed
  <2>7. QED
    BY <1>1, <1>5, <2>1, <2>3, <2>4, <2>5, <2>6 DEF ListIsCapped
<1>10. ManifestIsOfList'
  BY <1>1, <1>4, <1>5 DEF Invariant, ManifestIsOfList, Listed
<1>11. ClaimsArePicked'
  BY <1>1, <1>4, <1>5 DEF Invariant, ClaimsArePicked, Picked
<1>12. QED
  BY <1>6, <1>7, <1>8, <1>9, <1>10, <1>11 DEF Invariant

LEMMA UserKeeps == Invariant /\ UserStep => Invariant'
<1> SUFFICES ASSUME Invariant, UserStep PROVE Invariant'
  OBVIOUS
<1>1. ASSUME NEW phase \in Phases, Start(phase) \/ Redo(phase) PROVE Invariant'
  BY <1>1, EnterKeeps DEF Start, Redo
<1>2. ASSUME NEW kind \in {"search", "dive"}, Review(kind) PROVE Invariant'
  BY <1>2, ReviewKeeps
<1>3. ASSUME NEW id \in Papers, Post(id) PROVE Invariant'
  <2>1. posting' \in Seq(Papers)
    BY <1>3 DEF Post
  <2>2. QED
    BY <1>3, <2>1, StuttersKeep DEF Post
<1>4. CASE Refuse
  <2>1. posting' \in Seq(Papers)
    BY <1>4 DEF Refuse
  <2>2. QED
    BY <1>4, <2>1, StuttersKeep DEF Refuse
<1>5. CASE Store
  BY <1>5, StoreKeeps
<1>6. QED
  BY <1>1, <1>2, <1>3, <1>4, <1>5 DEF UserStep, Phases
-----------------------------------------------------------------------------
(* The curator.                                                             *)

\* In each of its steps the curator alone runs, and it leaves alone what the
\* approval of a source is about.
LEMMA Curating ==
    ASSUME Invariant, job.pc \in CuratorSteps, CuratorRests, review' = review
    PROVE  /\ state = "CURATOR_RUNNING"
           /\ \A id : Approved(id)' = Approved(id)
           /\ \A set : Capped(set) => Capped(set)'
           /\ disk \in DiskType /\ job \in JobType
           /\ disk' \in DiskType /\ job' \in JobType => TypeOK'
<1>1. state = "CURATOR_RUNNING" /\ disk \in DiskType /\ job \in JobType
  BY DEF Invariant, TypeOK, StateIsOfJob
<1>2. ASSUME NEW id PROVE Approved(id)' = Approved(id)
  BY DEF Approved, CuratorRests
<1>3. ASSUME NEW set PROVE Capped(set) => Capped(set)'
  BY DEF Capped, Number, CuratorRests
<1>4. disk' \in DiskType /\ job' \in JobType => TypeOK'
  BY DEF Invariant, TypeOK, CuratorRests
<1>5. QED
  BY <1>1, <1>2, <1>3, <1>4

LEMMA PruneKeeps == Invariant /\ Prune => Invariant'
<1> SUFFICES ASSUME Invariant, Prune PROVE Invariant'
  OBVIOUS
<1>1. job.pc = "prune" /\ disk' = Replaced /\ review' = review /\ CuratorRests
  BY DEF Prune
<1>2. /\ state = "CURATOR_RUNNING" /\ disk \in DiskType /\ job \in JobType
      /\ \A id : Approved(id)' = Approved(id)
      /\ disk' \in DiskType /\ job' \in JobType => TypeOK'
  BY <1>1, Curating DEF CuratorSteps
<1> DEFINE manifest == [id \in Ids |-> IF id \in Kept THEN disk.manifest[id] ELSE "none"]
           files == disk.files \cap {id \in Kept : disk.manifest[id] = "fetched"}
<1>3. disk' = [disk EXCEPT !.manifest = manifest, !.files = files]
  BY <1>1 DEF Replaced
<1>4. manifest \in Manifest /\ files \in SUBSET Ids
  BY <1>2 DEF DiskType, Manifest
<1>5. \A id \in Ids : manifest[id] = "fetched" => id \in files /\ id \in disk.uploaded
  <2> SUFFICES ASSUME NEW id \in Ids, manifest[id] = "fetched"
               PROVE  id \in files /\ id \in disk.uploaded
    OBVIOUS
  <2>1. id \in Kept /\ disk.manifest[id] = "fetched"
    OBVIOUS
  <2>2. id \in disk.files
    BY <2>1 DEF Invariant, ManifestIsOfList
  <2>3. id \in disk.uploaded
    BY <2>1 DEF Kept
  <2>4. QED
    BY <2>1, <2>2, <2>3
<1> HIDE DEF manifest, files
<1>6. /\ disk' \in DiskType /\ disk'.manifest = manifest /\ disk'.files = files
      /\ disk'.uploaded = disk.uploaded /\ disk'.shortlist = disk.shortlist
      /\ disk'.claims = disk.claims
  BY <1>2, <1>3, <1>4 DEF DiskType
<1>7. CASE Failed("FAILED_FIXABLE")
  <2>1. state' = "FAILED_FIXABLE" /\ job' \in JobType /\ job'.pc = "idle" /\ job'.done = {}
    <3>1. job' = Rest(job.phase) /\ job.phase \in Phases \cup {"none"} /\ state' = "FAILED_FIXABLE"
      BY <1>2, <1>7 DEF Failed, JobType
    <3>2. QED
      BY <3>1, RestIsJob
  <2>2. TypeOK'
    BY <1>2, <1>6, <2>1
  <2>3. StateIsOfJob'
    BY <2>1 DEF StateIsOfJob, ScoutSteps, CuratorSteps, SynthesizerSteps
  <2>4. ListIsVouched' /\ ListIsCapped' /\ ClaimsArePicked'
    BY <2>1 DEF ListIsVouched, ListIsCapped, ClaimsArePicked, Listed
  <2>5. ManifestIsOfList'
    BY <1>5, <1>6, <2>1 DEF ManifestIsOfList, Listed
  <2>6. QED
    BY <2>2, <2>3, <2>4, <2>5 DEF Invariant
<1> DEFINE allowed == {id \in Candidates : Of(id).allowed}
<1>8. CASE job' = [job EXCEPT !.pc = "rank", !.pool = allowed] /\ state' = state
  <2>1. allowed \in SUBSET Ids
    BY <1>2, IdsAreFinite DEF Candidates, DiskType, Invariant, TypeOK
  <2>2. \A id \in allowed \ disk.uploaded : Approved(id)
    <3> SUFFICES ASSUME NEW id \in allowed, id \notin disk.uploaded PROVE Approved(id)
      OBVIOUS
    <3>1. /\ id \in skim
          /\ review["search"].ids # <<>> => id \in review["search"].ids[1]
      BY DEF Candidates
    <3>2. Of(id) = lib[id]
      BY <3>1, OfRecord DEF Invariant, TypeOK
    <3>3. QED
      BY <3>1, <3>2 DEF Approved
  <2> HIDE DEF allowed
  <2>3. /\ job' \in JobType /\ job'.pc = "rank" /\ job'.pool = allowed
        /\ job'.done = job.done
    BY <1>2, <1>8, <2>1 DEF JobType, CuratorSteps
  <2>4. TypeOK'
    BY <1>2, <1>6, <2>3
  <2>5. StateIsOfJob'
    BY <1>1, <1>2, <1>8, <2>3 DEF Invariant, StateIsOfJob, ScoutSteps, CuratorSteps, SynthesizerSteps
  <2>6. ListIsVouched'
    BY <1>2, <1>6, <1>8, <2>2, <2>3 DEF ListIsVouched, Listed
  <2>7. ListIsCapped' /\ ClaimsArePicked'
    BY <1>2, <1>8, <2>3 DEF ListIsCapped, ClaimsArePicked, Listed
  <2>8. ManifestIsOfList'
    BY <1>2, <1>5, <1>6, <1>8, <2>3 DEF ManifestIsOfList, Listed
  <2>9. QED
    BY <2>4, <2>5, <2>6, <2>7, <2>8 DEF Invariant
<1>9. QED
  BY <1>7, <1>8 DEF Prune

LEMMA RankKeeps == Invariant /\ Rank => Invariant'
<1> SUFFICES ASSUME Invariant, Rank PROVE Invariant'
  OBVIOUS
<1>1. job.pc = "rank" /\ UNCHANGED <<state, review, disk>> /\ CuratorRests
  BY DEF Rank
<1>2. /\ state = "CURATOR_RUNNING" /\ disk \in DiskType /\ job \in JobType
      /\ \A id : Approved(id)' = Approved(id)
      /\ disk' \in DiskType /\ job' \in JobType => TypeOK'
  BY <1>1, Curating DEF CuratorSteps
<1>3. PICK score \in Scores : \E seq \in Orders(score) :
         job' = [job EXCEPT !.pc = "gate", !.pool = {}, !.ranked = seq]
  BY DEF Rank
<1>4. PICK seq \in Orders(score) : job' = [job EXCEPT !.pc = "gate", !.pool = {}, !.ranked = seq]
  BY <1>3
<1>5. DOMAIN score = job.pool
  BY DEF Scores
<1>6. seq \in Seq(Ids) /\ \A i \in DOMAIN seq : seq[i] \in job.pool
  <2>1. seq \in [1..Cardinality(job.pool) -> job.pool]
    BY <1>5 DEF Orders
  <2>2. job.pool \in SUBSET Ids /\ Cardinality(job.pool) \in Nat
    BY <1>2, IdsAreFinite, FS_CardinalityType DEF JobType
  <2>3. \A i \in 1..Cardinality(job.pool) : seq[i] \in Ids
    BY <2>1, <2>2
  <2>4. seq \in Seq(Ids)
    BY <2>1, <2>2, <2>3, IsASeq
  <2>5. QED
    BY <2>1, <2>4
<1>7. /\ job' \in JobType /\ job'.pc = "gate" /\ job'.ranked = seq /\ job'.done = job.done
  BY <1>2, <1>4, <1>6 DEF JobType, CuratorSteps
<1>8. TypeOK'
  BY <1>1, <1>2, <1>7
<1>9. StateIsOfJob'
  BY <1>1, <1>2, <1>7 DEF Invariant, StateIsOfJob, ScoutSteps, CuratorSteps, SynthesizerSteps
<1>10. ListIsVouched'
  <2>1. \A id \in job.pool \ disk.uploaded : Approved(id)
    BY <1>1 DEF Invariant, ListIsVouched
  <2>2. QED
    BY <1>1, <1>2, <1>6, <1>7, <2>1 DEF ListIsVouched, Listed
<1>11. ListIsCapped' /\ ClaimsArePicked'
  BY <1>1, <1>2, <1>7 DEF ListIsCapped, ClaimsArePicked, Listed
<1>12. ManifestIsOfList'
  BY <1>1, <1>2, <1>7 DEF Invariant, ManifestIsOfList, Listed
<1>13. QED
  BY <1>8, <1>9, <1>10, <1>11, <1>12 DEF Invariant

LEMMA GateKeeps == Invariant /\ Gate => Invariant'
<1> SUFFICES ASSUME Invariant, Gate PROVE Invariant'
  OBVIOUS
<1>1. job.pc = "gate" /\ UNCHANGED <<state, review, disk>> /\ CuratorRests
  BY DEF Gate
<1>2. /\ state = "CURATOR_RUNNING" /\ disk \in DiskType /\ job \in JobType
      /\ \A id : Approved(id)' = Approved(id)
      /\ \A set : Capped(set) => Capped(set)'
      /\ disk' \in DiskType /\ job' \in JobType => TypeOK'
  BY <1>1, Curating DEF CuratorSteps
<1>3. PICK taken \in SUBSET DOMAIN job.ranked :
         /\ Diverse(job.ranked, taken)
         /\ job' = [job EXCEPT !.pc = "fetch", !.manifest = disk.manifest, !.rest = taken]
  BY DEF Gate
<1>4. job.ranked \in Seq(Ids) /\ taken \in SUBSET Nat
  BY <1>2, LenProperties DEF JobType
<1>5. /\ job' \in JobType /\ job'.pc = "fetch" /\ job'.ranked = job.ranked /\ job'.done = job.done
      /\ job'.rest = taken /\ job'.manifest = disk.manifest
  BY <1>2, <1>3, <1>4 DEF JobType, DiskType, CuratorSteps
<1>6. \A i \in DOMAIN job.ranked : job.ranked[i] \notin disk.uploaded => Approved(job.ranked[i])
  BY <1>1 DEF Invariant, ListIsVouched
<1>7. \A i \in DOMAIN job.ranked : job.ranked[i] \notin disk.uploaded => job.ranked[i] \in Records
  BY <1>6 DEF Approved, Invariant, TypeOK
<1>8. job.done = {}
  BY <1>1 DEF Invariant, StateIsOfJob
<1>9. \A i \in taken : job.ranked[i] \notin disk.uploaded => lib[job.ranked[i]].verified
  BY <1>3, <1>7, OfRecord DEF Diverse, Gated
<1>10. TypeOK'
  BY <1>1, <1>2, <1>5
<1>11. StateIsOfJob'
  BY <1>1, <1>2, <1>5 DEF StateIsOfJob, ScoutSteps, CuratorSteps, SynthesizerSteps
<1>12. ListIsVouched'
  BY <1>1, <1>2, <1>3, <1>5, <1>6, <1>8, <1>9 DEF ListIsVouched, Listed, CuratorRests
<1>13. ListIsCapped'
  <2> DEFINE set == {job.ranked[i] : i \in taken} \ disk.uploaded
  <2>1. Capped(set)
    BY <1>3, <1>4, <1>7, DiverseIsCapped
  <2>2. (Taken \ disk.uploaded)' = set
    BY <1>1, <1>5, <1>8 DEF Taken
  <2>3. Capped(Taken \ disk.uploaded)'
    <3>1. lib' = lib
      BY <1>1 DEF CuratorRests
    <3> HIDE DEF set
    <3>2. QED
      BY <2>1, <2>2, <3>1 DEF Capped, Number
  <2>4. QED
    BY <1>1, <1>2, <1>5, <2>3 DEF ListIsCapped, Listed
<1>14. ManifestIsOfList'
  <2>1. \A id \in Ids : disk.manifest[id] = "fetched" => id \in disk.files /\ id \in disk.uploaded
    BY <1>1 DEF Invariant, ManifestIsOfList
  <2>2. QED
    BY <1>1, <1>2, <1>5, <2>1 DEF ManifestIsOfList, Listed
<1>15. ClaimsArePicked'
  BY <1>1, <1>2, <1>5 DEF ClaimsArePicked
<1>16. QED
  BY <1>10, <1>11, <1>12, <1>13, <1>14, <1>15 DEF Invariant

LEMMA FetchKeeps == Invariant /\ Fetch => Invariant'
<1> SUFFICES ASSUME Invariant, Fetch PROVE Invariant'
  OBVIOUS
<1>1. job.pc = "fetch" /\ job.rest # {} /\ UNCHANGED <<state, review>> /\ CuratorRests
  BY DEF Fetch
<1>2. /\ state = "CURATOR_RUNNING" /\ disk \in DiskType /\ job \in JobType
      /\ \A id : Approved(id)' = Approved(id)
      /\ disk' \in DiskType /\ job' \in JobType => TypeOK'
  BY <1>1, Curating DEF CuratorSteps
<1> DEFINE best == Min(job.rest)
           id == job.ranked[best]
           rest == job.rest \ {best}
           done == job.done \cup {id}
           next == [job EXCEPT !.rest = rest, !.done = done]
<1>3. /\ job.rest \subseteq DOMAIN job.ranked
      /\ \A i \in DOMAIN job.ranked : job.ranked[i] \notin disk.uploaded => Approved(job.ranked[i])
      /\ \A i \in job.rest : job.ranked[i] \notin disk.uploaded => lib[job.ranked[i]].verified
      /\ \A x \in job.done \ disk.uploaded : Approved(x) /\ lib[x].verified
  BY <1>1 DEF Invariant, ListIsVouched
<1>4. best \in job.rest /\ id \in Ids /\ rest \in SUBSET Nat /\ done \in SUBSET Ids
  <2>1. job.rest \in SUBSET Nat /\ job.ranked \in Seq(Ids) /\ job.done \in SUBSET Ids
    BY <1>2 DEF JobType
  <2>2. best \in job.rest
    BY <1>1, <2>1, MinIsIn
  <2>3. id \in Ids
    BY <1>3, <2>1, <2>2, ElementOfSeq, LenProperties
  <2> HIDE DEF id, best
  <2>4. QED
    BY <2>1, <2>2, <2>3
<1>5. done \cup {job.ranked[i] : i \in rest} = Taken
  BY <1>4 DEF Taken
<1>6. id \notin disk.uploaded => Approved(id) /\ lib[id].verified
  BY <1>3, <1>4
<1>7. \/ /\ disk' = [disk EXCEPT !.files = @ \cup {id}]
         /\ job' = [next EXCEPT !.manifest[id] = "fetched"]
      \/ disk' = disk /\ job' = next
  BY DEF Fetch
<1> HIDE DEF best, id, rest, done
<1>8. /\ next \in JobType /\ next.pc = "fetch" /\ next.rest = rest /\ next.done = done
      /\ next.ranked = job.ranked /\ next.manifest = job.manifest
  BY <1>1, <1>2, <1>4 DEF JobType
<1> HIDE DEF next
<1>9. /\ disk' \in DiskType /\ disk'.uploaded = disk.uploaded /\ disk'.manifest = disk.manifest
      /\ disk'.shortlist = disk.shortlist /\ disk'.claims = disk.claims
      /\ job' \in JobType /\ job'.pc = "fetch" /\ job'.rest = rest /\ job'.done = done
      /\ job'.ranked = job.ranked
      /\ disk.files \subseteq disk'.files
      /\ \A x \in Ids : job'.manifest[x] = "fetched" =>
            \/ job.manifest[x] = "fetched"
            \/ x = id /\ id \in disk'.files
  <2>1. CASE disk' = disk /\ job' = next
    BY <1>2, <1>8, <2>1
  <2>2. CASE /\ disk' = [disk EXCEPT !.files = @ \cup {id}]
             /\ job' = [next EXCEPT !.manifest[id] = "fetched"]
    <3>1. /\ disk' \in DiskType /\ disk'.uploaded = disk.uploaded /\ disk'.manifest = disk.manifest
          /\ disk'.shortlist = disk.shortlist /\ disk'.claims = disk.claims
          /\ disk'.files = disk.files \cup {id}
      BY <1>2, <1>4, <2>2 DEF DiskType
    <3> DEFINE manifest == [job.manifest EXCEPT ![id] = "fetched"]
    <3>2. manifest \in Manifest /\ (\A x \in Ids : x # id => manifest[x] = job.manifest[x])
      BY <1>2 DEF JobType, Manifest
    <3>3. job' = [next EXCEPT !.manifest = manifest]
      BY <1>8, <2>2
    <3> HIDE DEF manifest
    <3>4. /\ job' \in JobType /\ job'.pc = "fetch" /\ job'.rest = rest /\ job'.done = done
          /\ job'.ranked = job.ranked /\ job'.manifest = manifest
      BY <1>8, <3>2, <3>3 DEF JobType
    <3>5. QED
      BY <3>1, <3>2, <3>4
  <2>3. QED
    BY <1>7, <2>1, <2>2
<1>10. TypeOK'
  BY <1>2, <1>9
<1>11. StateIsOfJob'
  BY <1>1, <1>2, <1>9 DEF StateIsOfJob, ScoutSteps, CuratorSteps, SynthesizerSteps
<1>12. ListIsVouched'
  <2>1. rest \subseteq job.rest /\ done = job.done \cup {id}
    BY DEF rest, done
  <2>2. lib' = lib
    BY <1>1 DEF CuratorRests
  <2>3. ~Listed'
    BY <1>1, <1>2, <1>9 DEF Listed
  <2>4. QED
    BY <1>2, <1>3, <1>6, <1>9, <2>1, <2>2, <2>3 DEF ListIsVouched
<1>13. ListIsCapped'
  <2>1. Taken' = Taken
    BY <1>5, <1>9 DEF Taken
  <2>2. Capped(Taken \ disk.uploaded)
    BY <1>1 DEF Invariant, ListIsCapped
  <2>3. Capped(Taken \ disk.uploaded)'
    BY <1>1, <1>9, <2>1, <2>2 DEF Capped, Number, CuratorRests
  <2>4. QED
    BY <1>1, <1>2, <1>9, <2>3 DEF ListIsCapped, Listed
<1>14. ManifestIsOfList'
  <2>1. /\ \A x \in Ids : disk.manifest[x] = "fetched" => x \in disk.files
        /\ \A x \in Ids : job.manifest[x] = "fetched" =>
                            x \in disk.files /\ x \in job.done \cup disk.uploaded
    BY <1>1 DEF Invariant, ManifestIsOfList
  <2>2. done = job.done \cup {id}
    BY DEF done
  <2>3. QED
    BY <1>1, <1>2, <1>9, <2>1, <2>2 DEF ManifestIsOfList, Listed
<1>15. ClaimsArePicked'
  BY <1>1, <1>2, <1>9 DEF ClaimsArePicked
<1>16. QED
  BY <1>10, <1>11, <1>12, <1>13, <1>14, <1>15 DEF Invariant

LEMMA WriteKeeps == Invariant /\ Write => Invariant'
<1> SUFFICES ASSUME Invariant, Write PROVE Invariant'
  OBVIOUS
<1>1. job.pc = "fetch" /\ job.rest = {} /\ UNCHANGED <<state, review>> /\ CuratorRests
      /\ disk' = [disk EXCEPT !.shortlist = job.done, !.manifest = job.manifest]
      /\ job' = [job EXCEPT !.pc = "commit"]
  BY DEF Write
<1>2. /\ state = "CURATOR_RUNNING" /\ disk \in DiskType /\ job \in JobType
      /\ \A id : Approved(id)' = Approved(id)
      /\ disk' \in DiskType /\ job' \in JobType => TypeOK'
  BY <1>1, Curating DEF CuratorSteps
<1>3. /\ job' \in JobType /\ job'.pc = "commit" /\ job'.done = job.done
      /\ disk' \in DiskType /\ disk'.shortlist = job.done /\ disk'.manifest = job.manifest
      /\ disk'.uploaded = disk.uploaded /\ disk'.files = disk.files /\ disk'.claims = disk.claims
  BY <1>1, <1>2 DEF JobType, DiskType, CuratorSteps
<1>4. TypeOK'
  BY <1>2, <1>3
<1>5. StateIsOfJob'
  BY <1>1, <1>2, <1>3 DEF StateIsOfJob, ScoutSteps, CuratorSteps, SynthesizerSteps
<1>6. ListIsVouched'
  <2>1. \A x \in job.done \ disk.uploaded : Approved(x) /\ lib[x].verified
    BY <1>1 DEF Invariant, ListIsVouched
  <2>2. QED
    BY <1>1, <1>2, <1>3, <2>1 DEF ListIsVouched, CuratorRests
<1>7. ListIsCapped'
  <2>1. Taken = job.done
    BY <1>1 DEF Taken
  <2>2. Capped(Taken \ disk.uploaded)
    BY <1>1 DEF Invariant, ListIsCapped
  <2> DEFINE set == job.done \ disk.uploaded
  <2>3. Capped(set) /\ (disk.shortlist \ disk.uploaded)' = set
    BY <1>3, <2>1, <2>2
  <2>4. Capped(disk.shortlist \ disk.uploaded)'
    <3>1. lib' = lib
      BY <1>1 DEF CuratorRests
    <3> HIDE DEF set
    <3>2. QED
      BY <2>3, <3>1 DEF Capped, Number
  <2>5. QED
    BY <1>3, <2>4 DEF ListIsCapped
<1>8. ManifestIsOfList'
  <2>1. \A x \in Ids : job.manifest[x] = "fetched" =>
                           x \in disk.files /\ x \in job.done \cup disk.uploaded
    BY <1>1 DEF Invariant, ManifestIsOfList
  <2>2. QED
    BY <1>3, <2>1 DEF ManifestIsOfList
<1>9. ClaimsArePicked'
  BY <1>1, <1>2, <1>3 DEF ClaimsArePicked
<1>10. QED
  BY <1>4, <1>5, <1>6, <1>7, <1>8, <1>9 DEF Invariant

LEMMA CuratorDoneKeeps == Invariant /\ CuratorDone => Invariant'
<1> SUFFICES ASSUME Invariant, CuratorDone PROVE Invariant'
  OBVIOUS
<1>1. job.pc = "commit" /\ state' = "USER_DEEP_DIVE_REVIEW" /\ job' = Rest("curator")
      /\ Close("dive") /\ disk' = disk /\ CuratorRests /\ Listed
  BY DEF CuratorDone, Listed
<1>2. job' \in JobType /\ job'.pc = "idle" /\ job'.done = {}
  BY <1>1, RestIsJob DEF Phases
<1>3. review' \in ReviewType /\ review'["search"] = review["search"]
  BY <1>1 DEF Close, Invariant, TypeOK, ReviewType
<1>4. TypeOK'
  BY <1>1, <1>2, <1>3 DEF Invariant, TypeOK, CuratorRests
<1>5. StateIsOfJob'
  BY <1>2 DEF StateIsOfJob, ScoutSteps, CuratorSteps, SynthesizerSteps
<1>6. ListIsVouched'
  BY <1>1, <1>2, <1>3 DEF Invariant, ListIsVouched, Approved, CuratorRests
<1>7. ListIsCapped'
  <2>1. Capped(disk.shortlist \ disk.uploaded)
    BY <1>1 DEF Invariant, ListIsCapped
  <2>2. Capped(disk.shortlist \ disk.uploaded)'
    <3>1. lib' = lib /\ disk' = disk
      BY <1>1 DEF CuratorRests
    <3>2. QED
      BY <2>1, <3>1 DEF Capped, Number
  <2>3. QED
    BY <1>2, <2>2 DEF ListIsCapped
<1>8. ManifestIsOfList'
  BY <1>1, <1>2 DEF Invariant, ManifestIsOfList
<1>9. ClaimsArePicked'
  BY <1>1, <1>2 DEF ClaimsArePicked
<1>10. QED
  BY <1>4, <1>5, <1>6, <1>7, <1>8, <1>9 DEF Invariant

LEMMA CuratorKeeps == Invariant /\ CuratorStep => Invariant'
BY PruneKeeps, RankKeeps, GateKeeps, FetchKeeps, WriteKeeps, CuratorDoneKeeps DEF CuratorStep
-----------------------------------------------------------------------------
(* The synthesizer.                                                         *)

\* The synthesizer leaves what the curator left, and what the user picked, alone.
LEMMA Reading ==
    ASSUME Invariant, job.pc \in SynthesizerSteps, SynthesizerRests
    PROVE  /\ state = "SYNTHESIZER_RUNNING"
           /\ disk \in DiskType /\ job \in JobType
           /\ disk' \in DiskType /\ job' \in JobType => TypeOK'
           /\ \A id \in Ids : disk.manifest[id] = "fetched" => id \in disk.files
BY DEF Invariant, TypeOK, StateIsOfJob, ManifestIsOfList, SynthesizerRests

\* Once it has read its lists a step of it shows the user no shortlist.
LEMMA ReadingKeeps ==
    ASSUME Invariant, TypeOK', StateIsOfJob', ClaimsArePicked',
           disk'.manifest = disk.manifest, disk'.files = disk.files,
           job'.pc \in {"notes", "idle"}, state' # "USER_DEEP_DIVE_REVIEW"
    PROVE  Invariant'
<1>1. ~Listed' /\ job'.pc \notin {"rank", "gate", "fetch"}
  BY DEF Listed
<1>2. ListIsVouched' /\ ListIsCapped'
  BY <1>1 DEF ListIsVouched, ListIsCapped
<1>3. ManifestIsOfList'
  BY <1>1 DEF Invariant, ManifestIsOfList
<1>4. QED
  BY <1>2, <1>3 DEF Invariant

LEMMA ReadKeeps == Invariant /\ Read => Invariant'
<1> SUFFICES ASSUME Invariant, Read PROVE Invariant'
  OBVIOUS
<1>1. job.pc = "read" /\ SynthesizerRests
  BY DEF Read
<1>2. /\ state = "SYNTHESIZER_RUNNING" /\ disk \in DiskType /\ job \in JobType
      /\ disk' \in DiskType /\ job' \in JobType => TypeOK'
  BY <1>1, Reading DEF SynthesizerSteps
<1>3. CASE disk' = [disk EXCEPT !.claims = <<{}>>] /\ Failed("FAILED_FIXABLE")
  <2>1. <<{}>> \in Seq(SUBSET Ids)
    OBVIOUS
  <2>2. disk' \in DiskType /\ disk'.manifest = disk.manifest /\ disk'.files = disk.files
    BY <1>2, <1>3, <2>1 DEF DiskType
  <2>3. job' = Rest(job.phase) /\ job.phase \in Phases \cup {"none"} /\ state' = "FAILED_FIXABLE"
    BY <1>2, <1>3 DEF Failed, JobType
  <2>4. job' \in JobType /\ job'.pc = "idle" /\ job'.done = {}
    BY <2>3, RestIsJob
  <2>5. StateIsOfJob' /\ ClaimsArePicked'
    BY <2>3, <2>4 DEF StateIsOfJob, ClaimsArePicked, ScoutSteps, CuratorSteps, SynthesizerSteps
  <2>6. QED
    BY <1>2, <2>2, <2>3, <2>4, <2>5, ReadingKeeps
<1>4. CASE /\ job' = [job EXCEPT !.pc = "notes", !.pool = Chosen, !.pending = Chosen,
                                 !.manifest = disk.manifest]
           /\ UNCHANGED <<state, disk>>
  <2> DEFINE chosen == Chosen
  <2>1. chosen \in SUBSET Ids /\ chosen \in SUBSET (Clients \cup Ids)
        /\ \A id \in chosen : Picked(id)
    BY <1>2 DEF Chosen, Picked, DiskType
  <2>2. job' = [job EXCEPT !.pc = "notes", !.pool = chosen, !.pending = chosen,
                           !.manifest = disk.manifest]
    BY <1>4
  <2> HIDE DEF chosen
  <2>3. job' \in JobType /\ job'.pc = "notes" /\ job'.pending = chosen /\ job'.done = job.done
    BY <1>2, <2>1, <2>2 DEF JobType, DiskType, SynthesizerSteps
  <2>4. job.done = {}
    BY <1>1 DEF Invariant, StateIsOfJob
  <2>5. StateIsOfJob'
    BY <1>2, <1>4, <2>3 DEF StateIsOfJob, ScoutSteps, CuratorSteps, SynthesizerSteps
  <2>6. ClaimsArePicked'
    BY <1>1, <1>2, <1>4, <2>1, <2>3, <2>4 DEF ClaimsArePicked, Picked, SynthesizerRests
  <2>7. QED
    BY <1>2, <1>4, <2>3, <2>5, <2>6, ReadingKeeps
<1>5. QED
  BY <1>3, <1>4 DEF Read

LEMMA NoteKeeps ==
    ASSUME Invariant, NEW id \in Ids, Note(id)
    PROVE  Invariant'
<1>1. job.pc = "notes" /\ id \in job.pending /\ UNCHANGED <<state, disk>> /\ SynthesizerRests
  BY DEF Note
<1>2. /\ state = "SYNTHESIZER_RUNNING" /\ disk \in DiskType /\ job \in JobType
      /\ disk' \in DiskType /\ job' \in JobType => TypeOK'
  BY <1>1, Reading DEF SynthesizerSteps
<1> DEFINE next == [job EXCEPT !.pending = @ \ {id}]
           more == next.poor + 1
<1>3. next \in JobType /\ next.pc = "notes" /\ next.pending \subseteq job.pending
      /\ next.done = job.done
  BY <1>1, <1>2 DEF JobType
<1>4. \/ job' = [next EXCEPT !.done = @ \cup {id}]
      \/ job' = [next EXCEPT !.poor = more]
      \/ job' = next
  BY DEF Note
<1> HIDE DEF next
<1>5. more \in Nat
  BY <1>3 DEF JobType
<1> HIDE DEF more
<1>6. /\ job' \in JobType /\ job'.pc = "notes" /\ job'.pending \subseteq job.pending
      /\ job'.done \subseteq job.done \cup job.pending
  <2>1. CASE job' = [next EXCEPT !.done = @ \cup {id}]
    <3> DEFINE done == next.done \cup {id}
    <3>1. done \in SUBSET Ids /\ done \subseteq job.done \cup job.pending
      BY <1>1, <1>3 DEF JobType
    <3>2. job' = [next EXCEPT !.done = done]
      BY <2>1
    <3> HIDE DEF done
    <3>3. QED
      BY <1>3, <3>1, <3>2 DEF JobType
  <2>2. CASE job' = [next EXCEPT !.poor = more]
    BY <1>3, <1>5, <2>2 DEF JobType
  <2>3. CASE job' = next
    BY <1>3, <2>3
  <2>4. QED
    BY <1>4, <2>1, <2>2, <2>3
<1>7. StateIsOfJob'
  BY <1>1, <1>2, <1>6 DEF StateIsOfJob, ScoutSteps, CuratorSteps, SynthesizerSteps
<1>8. ClaimsArePicked'
  <2>1. \A x \in job.pending \cup job.done : Picked(x)
    BY <1>1 DEF Invariant, ClaimsArePicked
  <2>2. QED
    BY <1>1, <1>2, <1>6, <2>1 DEF ClaimsArePicked, Picked, SynthesizerRests
<1>9. QED
  BY <1>1, <1>2, <1>6, <1>7, <1>8, ReadingKeeps

LEMMA SynthesizerDoneKeeps == Invariant /\ SynthesizerDone => Invariant'
<1> SUFFICES ASSUME Invariant, SynthesizerDone PROVE Invariant'
  OBVIOUS
<1>1. job.pc = "notes" /\ SynthesizerRests
  BY DEF SynthesizerDone
<1>2. /\ state = "SYNTHESIZER_RUNNING" /\ disk \in DiskType /\ job \in JobType
      /\ disk' \in DiskType /\ job' \in JobType => TypeOK'
  BY <1>1, Reading DEF SynthesizerSteps
<1> DEFINE enough == Cardinality(job.done) >= MinPool /\ 2 * job.poor <= Cardinality(job.pool)
           stale == disk.stale /\ ~enough
           claims == <<job.done>>
           as == IF enough THEN "USER_FIELD_REVIEW" ELSE "FAILED_FIXABLE"
<1>3. /\ disk' = [disk EXCEPT !.claims = claims, !.stale = stale]
      /\ state' = as /\ job' = Rest(job.phase)
  BY DEF SynthesizerDone, Failed
<1>4. claims \in Seq(SUBSET Ids) /\ stale \in BOOLEAN /\ claims[1] = job.done
      /\ as \in {"USER_FIELD_REVIEW", "FAILED_FIXABLE"}
  BY <1>2 DEF JobType, DiskType
<1> HIDE DEF enough, stale, claims, as
<1>5. /\ disk' \in DiskType /\ disk'.manifest = disk.manifest /\ disk'.files = disk.files
      /\ disk'.claims = claims /\ disk'.shortlist = disk.shortlist
  BY <1>2, <1>3, <1>4 DEF DiskType
<1>6. job' \in JobType /\ job'.pc = "idle" /\ job'.done = {}
  <2>1. job.phase \in Phases \cup {"none"}
    BY <1>2 DEF JobType
  <2>2. QED
    BY <1>3, <2>1, RestIsJob
<1>7. StateIsOfJob'
  BY <1>6 DEF StateIsOfJob, ScoutSteps, CuratorSteps, SynthesizerSteps
<1>8. ClaimsArePicked'
  <2>1. \A x \in job.done : Picked(x)
    BY <1>1 DEF Invariant, ClaimsArePicked
  <2>2. QED
    BY <1>1, <1>4, <1>5, <1>6, <2>1 DEF ClaimsArePicked, Picked, SynthesizerRests
<1>9. QED
  BY <1>2, <1>3, <1>4, <1>5, <1>6, <1>7, <1>8, ReadingKeeps

-----------------------------------------------------------------------------
(* The specification.                                                       *)

LEMMA InitKeeps == Init => Invariant
<1> SUFFICES ASSUME Init PROVE Invariant
  OBVIOUS
<1>1. job \in JobType /\ job.pc = "idle" /\ job.done = {}
  <2>1. job = Idle /\ Idle.pc = "idle"
    BY DEF Init, Idle
  <2>2. QED
    BY <2>1, RestIsJob
<1>2. disk \in DiskType /\ \A id \in Ids : disk.manifest[id] = "none"
  <2> DEFINE none == [id \in Ids |-> "none"]
  <2>1. none \in Manifest /\ \A id \in Ids : none[id] = "none"
    BY DEF Manifest
  <2>2. disk = [shortlist |-> {}, manifest |-> none, files |-> {}, uploaded |-> {},
                claims |-> <<>>, stale |-> FALSE]
    BY DEF Init
  <2> HIDE DEF none
  <2>3. QED
    BY <2>1, <2>2 DEF DiskType
<1>3. TypeOK
  <2>1. review \in ReviewType /\ skim \in SUBSET Records /\ posting \in Seq(Papers)
    BY DEF Init, ReviewType
  <2>2. QED
    BY <1>1, <1>2, <2>1 DEF TypeOK
<1>4. state = "DOMAIN_LOADED"
  BY DEF Init
<1>5. StateIsOfJob /\ ListIsVouched /\ ListIsCapped /\ ClaimsArePicked
  BY <1>1, <1>4 DEF StateIsOfJob, ListIsVouched, ListIsCapped, ClaimsArePicked, Listed,
                    ScoutSteps, CuratorSteps, SynthesizerSteps
<1>6. ManifestIsOfList
  BY <1>1, <1>2, <1>4 DEF ManifestIsOfList, Listed
<1>7. QED
  BY <1>3, <1>5, <1>6 DEF Invariant

LEMMA NextKeeps == Invariant /\ [Next]_vars => Invariant'
<1> SUFFICES ASSUME Invariant, [Next]_vars PROVE Invariant'
  OBVIOUS
<1>1. CASE ScoutStep
  BY <1>1, ScoutKeeps
<1>2. CASE CuratorStep
  BY <1>2, CuratorKeeps
<1>3. CASE SynthesizerStep
  BY <1>3, ReadKeeps, NoteKeeps, SynthesizerDoneKeeps DEF SynthesizerStep
<1>4. CASE UserStep
  BY <1>4, UserKeeps
<1>5. CASE Crash
  BY <1>5, FailedKeeps DEF Crash
<1>6. CASE UNCHANGED vars
  <2>1. posting' \in Seq(Papers)
    BY <1>6 DEF vars, Invariant, TypeOK
  <2>2. QED
    BY <1>6, <2>1, StuttersKeep DEF vars
<1>7. QED
  BY <1>1, <1>2, <1>3, <1>4, <1>5, <1>6 DEF Next, JobStep

LEMMA InvariantHolds == Spec => []Invariant
BY InitKeeps, NextKeeps, PTL DEF Spec

\* What the user reads on the shortlist is the user's own, or a record of the pool of
\* the scout that the newest review approves, the policy allows and that is verified:
\* no rerun, crash or upload lets an older pool or an older review through.
THEOREM ShortlistIsAlwaysVouched == Spec => []ShortlistIsVouched
<1>1. Invariant => ShortlistIsVouched
  BY DEF Invariant, ListIsVouched, Listed, Approved, ShortlistIsVouched
<1>2. QED
  BY <1>1, InvariantHolds, PTL

\* The diversity caps hold of the shortlist for any ranking of any number of records.
THEOREM CapsAlwaysHold == Spec => []CapsHold
<1>1. Invariant => CapsHold
  <2> SUFFICES ASSUME Invariant, state = "USER_DEEP_DIVE_REVIEW"
               PROVE  LET chosen == disk.shortlist \ disk.uploaded
                      IN  /\ Cardinality(chosen) <= Limit
                          /\ \A id \in chosen :
                                /\ lib[id].venue # "none" =>
                                      With(chosen, "venue", lib[id].venue) <= VenueCap
                                /\ With(chosen, "author", lib[id].author) <= AuthorCap
    BY DEF CapsHold
  <2> DEFINE chosen == disk.shortlist \ disk.uploaded
  <2>1. Capped(chosen)
    BY DEF Invariant, ListIsCapped, Listed
  <2>2. \A id \in chosen : Of(id) = lib[id]
    <3>1. \A id \in chosen : id \in Records
      BY DEF Invariant, TypeOK, ListIsVouched, Listed, Approved
    <3>2. QED
      BY <3>1, OfRecord
  <2>3. ASSUME NEW field, NEW value
        PROVE  With(chosen, field, value) = Number(chosen, field, value)
    <3>1. {id \in chosen : Of(id)[field] = value} = {id \in chosen : lib[id][field] = value}
      BY <2>2
    <3> HIDE DEF chosen
    <3>2. QED
      BY <3>1 DEF With, Number
  <2> HIDE DEF chosen
  <2>4. /\ Cardinality(chosen) <= Limit
        /\ \A id \in chosen :
              /\ lib[id].venue # "none" => With(chosen, "venue", lib[id].venue) <= VenueCap
              /\ With(chosen, "author", lib[id].author) <= AuthorCap
    BY <2>1, <2>3 DEF Capped
  <2>5. QED
    BY <2>4 DEF chosen
<1>2. QED
  BY <1>1, InvariantHolds, PTL

\* After a curation the manifest names no fetched PDF of an older shortlist, and every
\* PDF it names is there.
THEOREM OldPdfsAreAlwaysGone == Spec => []OldPdfsAreGone
<1>1. Invariant => OldPdfsAreGone
  BY DEF Invariant, ManifestIsOfList, Listed, OldPdfsAreGone
<1>2. QED
  BY <1>1, InvariantHolds, PTL

\* A synthesis the user reads speaks of sources of the shortlist, those the user chose,
\* whatever was uploaded while it was made.
THEOREM ClaimsAreAlwaysGrounded == Spec => []ClaimsAreGrounded
<1>1. Invariant => ClaimsAreGrounded
  <2> SUFFICES ASSUME Invariant, state = "USER_FIELD_REVIEW", NEW id \in disk.claims[1]
               PROVE  /\ id \in disk.shortlist
                      /\ review["dive"].ids # <<>> => id \in review["dive"].ids[1]
                      /\ disk.manifest[id] = "fetched" => id \in disk.files
    BY DEF ClaimsAreGrounded
  <2>1. Picked(id)
    BY DEF Invariant, ClaimsArePicked
  <2>2. id \in Ids
    BY <2>1 DEF Picked, Invariant, TypeOK, DiskType
  <2>3. QED
    BY <2>1, <2>2 DEF Picked, Invariant, ManifestIsOfList
<1>2. QED
  BY <1>1, InvariantHolds, PTL
=============================================================================
