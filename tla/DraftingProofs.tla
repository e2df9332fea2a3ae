--------------------------- MODULE DraftingProofs ---------------------------
(***************************************************************************)
(* What the drafter and the stylist promise, for any sources, citation     *)
(* keys, plan length, floor, limits of the repairs and studies, and any    *)
(* deaths of a job.                                                        *)
(*                                                                         *)
(* The four properties are about files, and the files are written from the *)
(* fields of the running job one after the other.  The invariant therefore *)
(* says which files there are at each step and from what, and carries what *)
(* each property says of a file back to the job that will write it: the    *)
(* sections are vouched for by whoever wrote them last, the verdict about  *)
(* the floor is that of the sections as they are, the text cites as often  *)
(* what the repair left, and the styled sections so far keep their keys.   *)
(***************************************************************************)
EXTENDS Drafting, SequenceTheorems, TLAPS
-----------------------------------------------------------------------------
(* Types.                                                                   *)

\* The steps of a job: before the manuscript is fixed, at its text, at its files.
Collecting == {"section", "floor", "diversify", "compose"}
Editing == {"cite", "cohere", "text"}
Filing == {"claims", "bib", "verdict"}
Drafts == Collecting \cup Editing \cup Filing
Styles == {"style", "score", "save"}

SectionType == [ids : SUBSET Ids, keys : SUBSET Keys, failed : BOOLEAN]
Sections == [Parts -> SectionType]
Text == [keys : Prose, raw : BOOLEAN]

JobType ==
    [phase : {"none", "drafter", "stylist"}, pc : Drafts \cup Styles \cup {"idle"},
     part : Parts, attempt : Nat, secs : Sections, below : BOOLEAN, keys : Prose,
     raw : BOOLEAN, body : Prose, lost : BOOLEAN, overlap : BOOLEAN]

DraftType ==
    [text : Seq(Text), claims : Seq(Sections), bib : Seq(SUBSET Sources), styled : Seq(Prose)]

TypeOK ==
    /\ study \in Studies
    /\ draft \in DraftType
    /\ job \in JobType

-----------------------------------------------------------------------------
(* The inductive invariant.                                                 *)

\* A job writes the files of a new directory in order, from its own fields.
FilesInOrder ==
    /\ job.pc \in Drafts => study.shortlist # <<>> /\ draft.styled = <<>>
    /\ job.pc \in Collecting \cup Editing => draft.text = <<>>
    /\ job.pc \in Filing => draft.text = <<[keys |-> job.keys, raw |-> job.raw]>>
    /\ job.pc \in Drafts \ {"bib", "verdict"} => draft.claims = <<>>
    /\ job.pc \in {"bib", "verdict"} => draft.claims = <<job.secs>>
    /\ job.pc \in Drafts \ {"verdict"} => draft.bib = <<>>
    /\ job.pc \in Styles => draft.text # <<>>

Policy == ~(study.bound = "off" /\ study.analytic = "off")

\* Only sources of the shortlist are cited, and the bibliography is that of the
\* claim map beside it.
OnlyListed ==
    /\ Policy => \A i \in Parts : job.secs[i].ids \subseteq Listed
    /\ Policy /\ draft.claims # <<>> => Cited(draft.claims[1]) \subseteq Listed
    /\ draft.bib # <<>> => draft.claims # <<>> /\ draft.bib[1] = Bibliography(draft.claims[1])

\* The verdict about the floor is about the sections as they are.
VerdictIsCurrent ==
    /\ job.pc \in {"diversify", "compose"} => job.below = Below(job.secs)
    /\ job.pc \in Editing \cup Filing => reported = Below(job.secs)
    /\ draft.claims # <<>> => reported = Below(draft.claims[1])

\* The text in hand cites what the repair left, the coherence pass included.
TextIsOfBody ==
    /\ job.pc = "cohere" => job.keys = job.body
    /\ job.pc \in {"text"} \cup Filing => \A k \in Keys : Count(job.keys, k) = Count(job.body, k)

\* The sections styled so far keep their keys; once all are, so does the text.
StyledSoFar ==
    ~study.numbered =>
        /\ \A i \in Parts : job.pc = "style" /\ i < job.part => Original[i] \subseteq job.keys[i]
        /\ job.pc = "score" => \A i \in Parts : Original[i] \subseteq job.keys[i]
        /\ job.pc = "save" => AllKeys(Original) \subseteq AllKeys(job.keys)

Invariant ==
    /\ TypeOK
    /\ FilesInOrder
    /\ OnlyListed
    /\ VerdictIsCurrent
    /\ TextIsOfBody
    /\ StyledSoFar /\ KeysSurviveStyle
-----------------------------------------------------------------------------
(* Lists, and what the operators yield.                                     *)

LEMMA Constants ==
    /\ 1 \in Parts /\ Length \in Parts
    /\ \A n \in Parts : n < Length => n + 1 \in Parts
    /\ Foreign \in Ids /\ Sources \subseteq Ids
BY BoundsAssumption DEF Parts, Ids

LEMMA FirstOf ==
    ASSUME NEW S, NEW s \in Seq(S), s # <<>>
    PROVE  s[1] \in S /\ Head(s) \in S /\ Head(s) \in ToSet(s)
<1>1. Len(s) \in Nat /\ Len(s) # 0 /\ DOMAIN s = 1..Len(s)
  BY EmptySeq, LenProperties
<1>2. 1 \in DOMAIN s /\ s[1] \in S
  BY <1>1, ElementOfSeq
<1>3. QED
  BY <1>2, HeadTailProperties DEF ToSet

\* What a study offers is in its shortlist.
LEMMA StudyOffers ==
    ASSUME study \in Studies
    PROVE  /\ Listed \subseteq Sources
           /\ Eligible \subseteq Listed
           /\ Relevant \subseteq Listed
           /\ study.shortlist # <<>> => Head(study.shortlist) \in Listed
<1>1. study.shortlist \in Seq(Sources) /\ study.vouched \subseteq Listed
  BY StudiesAssumption DEF Listed
<1>2. \A i \in DOMAIN study.shortlist : study.shortlist[i] \in Sources
  BY <1>1, ElementOfSeq, LenProperties
<1>3. Listed \subseteq Sources
  BY <1>2 DEF Listed, ToSet
<1>4. Relevant \subseteq Listed /\ Eligible \subseteq Listed
  BY <1>1 DEF Relevant, Eligible
<1>5. QED
  BY <1>1, <1>3, <1>4, FirstOf DEF Listed

\* Whatever the model answered, an accepted claim names listed sources only.
LEMMA AcceptedIsListed ==
    ASSUME study \in Studies, Policy,
           NEW raw \in [ids : SUBSET Ids, backed : BOOLEAN], Accepts(raw),
           NEW ids \in Normalized(raw)
    PROVE  ids \subseteq Listed
<1>1. CASE raw.backed
  <2>1. raw.ids = {}
    BY <1>1 DEF Accepts, Policy
  <2>2. Normalized(raw) = {{}}
    BY <1>1, <2>1 DEF Normalized
  <2>3. QED
    BY <2>2
<1>2. CASE ~raw.backed
  <2>1. \E any : ids = any \cap Relevant
    BY <1>2 DEF Normalized
  <2>2. QED
    BY <2>1, StudyOffers
<1>3. QED
  BY <1>1, <1>2

LEMMA NormalizedIsTyped ==
    ASSUME study \in Studies, NEW raw \in [ids : SUBSET Ids, backed : BOOLEAN],
           NEW ids \in Normalized(raw)
    PROVE  ids \in SUBSET Ids
<1> DEFINE kept == raw.ids \ study.low
           instead == IF kept = {} /\ raw.ids # {} /\ Relevant # {}
                      THEN {{r} : r \in Relevant} ELSE {kept}
<1>1. Relevant \subseteq Ids
  BY StudyOffers, Constants
<1>2. instead \subseteq SUBSET Ids
  BY <1>1
<1>3. Normalized(raw) = IF raw.backed THEN instead ELSE {any \cap Relevant : any \in instead}
  BY DEF Normalized
<1> HIDE DEF instead
<1>4. QED
  BY <1>2, <1>3

LEMMA SameIds ==
    ASSUME NEW s, NEW t, \A i \in Parts : s[i].ids = t[i].ids
    PROVE  Cited(s) = Cited(t) /\ Below(s) = Below(t) /\ Bibliography(s) = Bibliography(t)
<1>1. Cited(s) = Cited(t)
  BY DEF Cited
<1>2. QED
  BY <1>1 DEF Below, Bibliography

LEMMA BelowIsBoolean == ASSUME NEW s PROVE Below(s) \in BOOLEAN
BY DEF Below

LEMMA IdleIsJob ==
    Idle \in JobType /\ Idle.pc = "idle" /\ \A i \in Parts : Idle.secs[i].ids = {}
<1>1. Blank \in SectionType
  BY DEF Blank, SectionType
<1>2. [i \in Parts |-> Blank] \in Sections /\ [i \in Parts |-> {}] \in Prose
  BY <1>1 DEF Sections, Prose
<1>3. QED
  BY <1>2, Constants DEF Idle, JobType, Blank

LEMMA RestIsJob ==
    ASSUME NEW p \in {"none", "drafter", "stylist"}
    PROVE  /\ Rest(p) \in JobType
           /\ Rest(p).pc = "idle" /\ Rest(p).phase = p
           /\ \A i \in Parts : Rest(p).secs[i].ids = {}
<1>1. Rest(p) = [Idle EXCEPT !.phase = p]
  BY DEF Rest
<1>2. QED
  BY <1>1, IdleIsJob DEF JobType

-----------------------------------------------------------------------------
(* A job that comes to rest.                                                *)

\* The properties of the files outlive the job that wrote them.
LEMMA Resting ==
    ASSUME Invariant, NEW p \in {"none", "drafter", "stylist"}, job' = Rest(p),
           UNCHANGED <<study, draft, reported>>
    PROVE  Invariant'
<1>1. job' \in JobType /\ job'.pc = "idle" /\ \A i \in Parts : job'.secs[i].ids = {}
  BY RestIsJob
<1>2. TypeOK'
  BY <1>1 DEF Invariant, TypeOK
<1>3. FilesInOrder'
  BY <1>1 DEF FilesInOrder, Collecting, Editing, Filing, Drafts, Styles
<1>4. OnlyListed'
  BY <1>1 DEF Invariant, OnlyListed, Policy, Listed, Cited, Bibliography
<1>5. VerdictIsCurrent'
  BY <1>1 DEF Invariant, VerdictIsCurrent, Editing, Filing, Below, Cited, Eligible, Relevant, Listed
<1>6. TextIsOfBody'
  BY <1>1 DEF TextIsOfBody, Filing
<1>7. StyledSoFar'
  BY <1>1 DEF StyledSoFar
<1>8. KeysSurviveStyle'
  BY DEF Invariant, KeysSurviveStyle
<1>9. QED
  BY <1>2, <1>3, <1>4, <1>5, <1>6, <1>7, <1>8 DEF Invariant
-----------------------------------------------------------------------------
(* The drafter.                                                             *)

LEMMA InitKeeps == Init => Invariant
<1> SUFFICES ASSUME Init PROVE Invariant
  OBVIOUS
<1>1. job.pc = "idle" /\ job \in JobType
  BY IdleIsJob DEF Init
<1>2. \A i \in Parts : job.secs[i].ids = {}
  BY IdleIsJob DEF Init
<1>3. TypeOK
  BY <1>1 DEF Init, TypeOK, NewDraft, DraftType
<1>4. draft.text = <<>> /\ draft.claims = <<>> /\ draft.bib = <<>> /\ draft.styled = <<>>
  BY DEF Init, NewDraft
<1>5. FilesInOrder /\ VerdictIsCurrent /\ TextIsOfBody /\ StyledSoFar /\ KeysSurviveStyle
  BY <1>1, <1>4 DEF FilesInOrder, VerdictIsCurrent, TextIsOfBody, StyledSoFar, KeysSurviveStyle,
                    Collecting, Editing, Filing, Drafts, Styles
<1>6. OnlyListed
  BY <1>2, <1>4 DEF OnlyListed
<1>7. QED
  BY <1>3, <1>5, <1>6 DEF Invariant

LEMMA BeginDraftKeeps == Invariant /\ BeginDraft => Invariant'
<1> SUFFICES ASSUME Invariant, BeginDraft PROVE Invariant'
  OBVIOUS
<1>1. study' = study /\ study \in Studies
  BY DEF BeginDraft, Settled, Invariant, TypeOK
<1>2. CASE study.shortlist = <<>>
  BY <1>1, <1>2, Resting DEF BeginDraft
<1>3. CASE study.shortlist # <<>>
  <2>1. job' = [Idle EXCEPT !.phase = "drafter", !.pc = "section"] /\ draft' = NewDraft
    BY <1>3 DEF BeginDraft
  <2>2. job' \in JobType /\ job'.pc = "section" /\ \A i \in Parts : job'.secs[i].ids = {}
    BY <2>1, IdleIsJob DEF JobType, Drafts, Collecting
  <2>3. draft' \in DraftType /\ draft'.text = <<>> /\ draft'.claims = <<>>
        /\ draft'.bib = <<>> /\ draft'.styled = <<>>
    BY <2>1 DEF NewDraft, DraftType
  <2>4. TypeOK'
    BY <1>1, <2>2, <2>3 DEF TypeOK
  <2>5. FilesInOrder'
    BY <1>1, <1>3, <2>2, <2>3 DEF FilesInOrder, Collecting, Editing, Filing, Drafts, Styles
  <2>6. OnlyListed'
    BY <2>2, <2>3 DEF OnlyListed
  <2>7. VerdictIsCurrent' /\ TextIsOfBody' /\ StyledSoFar' /\ KeysSurviveStyle'
    BY <2>2, <2>3 DEF VerdictIsCurrent, TextIsOfBody, StyledSoFar, KeysSurviveStyle,
                      Editing, Filing
  <2>8. QED
    BY <2>4, <2>5, <2>6, <2>7 DEF Invariant
<1>4. QED
  BY <1>2, <1>3

\* A step within the drafter that writes no file: what is to be shown is about
\* the job alone.
LEMMA DraftGoesOn ==
    ASSUME Invariant, job.pc \in Collecting \cup Editing,
           UNCHANGED <<study, draft>>,
           job' \in JobType, job'.pc \in Collecting \cup Editing,
           Policy => \A i \in Parts : job'.secs[i].ids \subseteq Listed,
           job'.pc \in {"diversify", "compose"} => job'.below = Below(job'.secs),
           job'.pc \in Editing => reported' = Below(job'.secs),
           TextIsOfBody'
    PROVE  Invariant'
<1>1. TypeOK'
  BY DEF Invariant, TypeOK
<1>2. FilesInOrder'
  BY DEF Invariant, FilesInOrder, Collecting, Editing, Filing, Drafts, Styles
<1>3. draft.claims = <<>> /\ draft.bib = <<>> /\ draft.styled = <<>>
  BY DEF Invariant, FilesInOrder, Collecting, Editing, Drafts
<1>4. Policy' = Policy /\ Listed' = Listed /\ Below(job'.secs) = Below(job.secs)' 
  BY DEF Policy, Listed, Below, Eligible, Relevant
<1>5. OnlyListed'
  BY <1>3, <1>4 DEF OnlyListed
<1>6. VerdictIsCurrent'
  BY <1>3, <1>4 DEF VerdictIsCurrent, Collecting, Editing, Filing
<1>7. StyledSoFar' /\ KeysSurviveStyle'
  BY <1>3 DEF StyledSoFar, KeysSurviveStyle, Collecting, Editing
<1>8. QED
  BY <1>1, <1>2, <1>5, <1>6, <1>7 DEF Invariant

LEMMA DraftSectionKeeps == Invariant /\ DraftSection => Invariant'
<1> SUFFICES ASSUME Invariant, DraftSection PROVE Invariant'
  OBVIOUS
<1>1. job \in JobType /\ study \in Studies /\ job.pc = "section"
  BY DEF DraftSection, Invariant, TypeOK
<1>2. PICK sec \in SectionType : Add(sec) /\ (Policy => sec.ids \subseteq Listed)
  <2>1. ASSUME NEW raw \in [ids : SUBSET Ids, backed : BOOLEAN], NEW keys \in SUBSET Keys,
               Accepts(raw), NEW ids \in Normalized(raw)
        PROVE  /\ [ids |-> ids, keys |-> keys, failed |-> FALSE] \in SectionType
               /\ Policy => ids \subseteq Listed
    BY <1>1, <2>1, NormalizedIsTyped, AcceptedIsListed DEF SectionType
  <2> DEFINE stub == [ids |-> {Head(study.shortlist)}, keys |-> {}, failed |-> TRUE]
  <2>2. stub \in SectionType /\ stub.ids \subseteq Listed
    <3>1. study.shortlist # <<>>
      BY <1>1 DEF Invariant, FilesInOrder, Drafts, Collecting
    <3>2. QED
      BY <1>1, <3>1, StudyOffers, Constants DEF SectionType
  <2>3. CASE Add(stub)
    BY <2>2, <2>3
  <2>4. CASE \E raw \in [ids : SUBSET Ids, backed : BOOLEAN], keys \in SUBSET Keys :
                /\ Accepts(raw)
                /\ \E ids \in Normalized(raw) :
                      Add([ids |-> ids, keys |-> keys, failed |-> FALSE])
    <3>1. PICK raw \in [ids : SUBSET Ids, backed : BOOLEAN], keys \in SUBSET Keys :
              /\ Accepts(raw)
              /\ \E ids \in Normalized(raw) : Add([ids |-> ids, keys |-> keys, failed |-> FALSE])
      BY <2>4
    <3>2. PICK ids \in Normalized(raw) : Add([ids |-> ids, keys |-> keys, failed |-> FALSE])
      BY <3>1
    <3> DEFINE sec == [ids |-> ids, keys |-> keys, failed |-> FALSE]
    <3>3. sec \in SectionType /\ Add(sec) /\ (Policy => sec.ids \subseteq Listed)
      BY <2>1, <3>1, <3>2
    <3> HIDE DEF sec
    <3>4. QED
      BY <3>3
  <2>5. QED
    BY <2>3, <2>4 DEF DraftSection
<1>3. job' = [job EXCEPT !.secs[job.part] = sec,
                         !.part = IF @ < Length THEN @ + 1 ELSE 1,
                         !.pc = IF job.part < Length THEN "section" ELSE "floor"]
  BY <1>2 DEF Add
<1>4. /\ job' \in JobType /\ job'.pc \in {"section", "floor"}
      /\ job'.secs = [job.secs EXCEPT ![job.part] = sec]
  <2>1. job.part \in Parts /\ (IF job.part < Length THEN job.part + 1 ELSE 1) \in Parts
    BY <1>1, Constants DEF JobType
  <2>2. [job.secs EXCEPT ![job.part] = sec] \in Sections
    BY <1>1, <2>1 DEF JobType, Sections
  <2>3. QED
    BY <1>1, <1>3, <2>1, <2>2 DEF JobType, Drafts, Collecting
<1>5. Policy => \A i \in Parts : job'.secs[i].ids \subseteq Listed
  BY <1>1, <1>2, <1>4 DEF Invariant, OnlyListed, JobType, Sections
<1>6. TextIsOfBody' /\ UNCHANGED <<study, draft>>
  BY <1>4 DEF TextIsOfBody, Filing, DraftSection, Working
<1>7. QED
  BY <1>1, <1>4, <1>5, <1>6, DraftGoesOn DEF Collecting, Editing

LEMMA CheckFloorKeeps == Invariant /\ CheckFloor => Invariant'
<1> SUFFICES ASSUME Invariant, CheckFloor PROVE Invariant'
  OBVIOUS
<1>1. job \in JobType /\ job.pc = "floor"
  BY DEF CheckFloor, Invariant, TypeOK
<1>2. /\ job' \in JobType /\ job'.pc \in {"diversify", "compose"}
      /\ job'.secs = job.secs /\ job'.below = Below(job.secs)
  BY <1>1, BelowIsBoolean DEF CheckFloor, JobType, Drafts, Collecting
<1>3. Policy => \A i \in Parts : job'.secs[i].ids \subseteq Listed
  BY <1>2 DEF Invariant, OnlyListed
<1>4. TextIsOfBody' /\ UNCHANGED <<study, draft>>
  BY <1>2 DEF TextIsOfBody, Filing, CheckFloor, Working
<1>5. QED
  BY <1>1, <1>2, <1>3, <1>4, DraftGoesOn DEF Collecting, Editing

LEMMA DiversifyKeeps == Invariant /\ Diversify => Invariant'
<1> SUFFICES ASSUME Invariant, Diversify PROVE Invariant'
  OBVIOUS
<1>1. job \in JobType /\ study \in Studies /\ job.pc = "diversify"
  BY DEF Diversify, Invariant, TypeOK
<1>2. Offered \subseteq Listed
  BY <1>1, StudyOffers DEF Offered
<1>3. UNCHANGED <<study, draft>>
  BY DEF Diversify, Working
<1>4. CASE job' = [job EXCEPT !.pc = "compose"]
  <2>1. /\ job' \in JobType /\ job'.pc = "compose"
        /\ job'.secs = job.secs /\ job'.below = job.below
    BY <1>1, <1>4 DEF JobType, Drafts, Collecting
  <2>2. Policy => \A i \in Parts : job'.secs[i].ids \subseteq Listed
    BY <2>1 DEF Invariant, OnlyListed
  <2>3. job'.below = Below(job'.secs)
    BY <1>1, <2>1 DEF Invariant, VerdictIsCurrent
  <2>4. TextIsOfBody'
    BY <2>1 DEF TextIsOfBody, Filing
  <2>5. QED
    BY <1>1, <1>3, <2>1, <2>2, <2>3, <2>4, DraftGoesOn DEF Collecting, Editing
<1>5. CASE \E some \in SUBSET Weakest :
             \E new \in [some -> [ids : SUBSET Offered, keys : SUBSET Keys, failed : {FALSE}]] :
                LET secs == [i \in Parts |-> IF i \in some THEN new[i] ELSE job.secs[i]]
                IN  job' = [job EXCEPT !.secs = secs, !.below = Below(secs), !.pc = "compose"]
  <2>1. PICK some \in SUBSET Weakest :
             \E new \in [some -> [ids : SUBSET Offered, keys : SUBSET Keys, failed : {FALSE}]] :
                LET secs == [i \in Parts |-> IF i \in some THEN new[i] ELSE job.secs[i]]
                IN  job' = [job EXCEPT !.secs = secs, !.below = Below(secs), !.pc = "compose"]
    BY <1>5
  <2>2. PICK new \in [some -> [ids : SUBSET Offered, keys : SUBSET Keys, failed : {FALSE}]] :
                LET secs == [i \in Parts |-> IF i \in some THEN new[i] ELSE job.secs[i]]
                IN  job' = [job EXCEPT !.secs = secs, !.below = Below(secs), !.pc = "compose"]
    BY <2>1
  <2> DEFINE secs == [i \in Parts |-> IF i \in some THEN new[i] ELSE job.secs[i]]
  <2>3. job' = [job EXCEPT !.secs = secs, !.below = Below(secs), !.pc = "compose"]
    BY <2>2, Zenon
  <2>4. \A i \in Parts : /\ secs[i] \in SectionType
                         /\ Policy => secs[i].ids \subseteq Listed
    <3>1. Listed \subseteq Ids
      BY <1>1, StudyOffers, Constants
    <3>2. ASSUME NEW i \in Parts, i \in some
          PROVE  new[i] \in SectionType /\ new[i].ids \subseteq Listed
      BY <1>2, <3>1, <3>2 DEF SectionType
    <3>3. ASSUME NEW i \in Parts
          PROVE  job.secs[i] \in SectionType /\ (Policy => job.secs[i].ids \subseteq Listed)
      BY <1>1 DEF JobType, Sections, Invariant, OnlyListed
    <3>4. QED
      BY <3>2, <3>3
  <2>5. secs \in Sections
    BY <2>4 DEF Sections
  <2> HIDE DEF secs
  <2>6. /\ job' \in JobType /\ job'.pc = "compose"
        /\ job'.secs = secs /\ job'.below = Below(secs)
    BY <1>1, <2>3, <2>5, BelowIsBoolean DEF JobType, Drafts, Collecting
  <2>7. TextIsOfBody'
    BY <2>6 DEF TextIsOfBody, Filing
  <2>8. QED
    BY <1>1, <1>3, <2>4, <2>6, <2>7, DraftGoesOn DEF Collecting, Editing
<1>6. QED
  BY <1>4, <1>5 DEF Diversify

LEMMA ComposeKeeps == Invariant /\ Compose => Invariant'
<1> SUFFICES ASSUME Invariant, Compose PROVE Invariant'
  OBVIOUS
<1>1. job \in JobType /\ job.pc = "compose"
  BY DEF Compose, Invariant, TypeOK
<1> DEFINE body == [i \in Parts |-> job.secs[i].keys]
           secs == [i \in Parts |-> [job.secs[i] EXCEPT !.keys = {}]]
<1>2. body \in Prose /\ secs \in Sections
  BY <1>1 DEF Prose, JobType, Sections, SectionType
<1>3. \A i \in Parts : secs[i].ids = job.secs[i].ids
  BY <1>1 DEF JobType, Sections, SectionType
<1>4. PICK raw \in BOOLEAN :
         job' = [job EXCEPT !.keys = body, !.raw = raw, !.body = body, !.secs = secs,
                            !.pc = IF raw /\ study.repairs THEN "cite" ELSE "cohere"]
  BY DEF Compose
<1> HIDE DEF body, secs
<1>5. /\ job' \in JobType /\ job'.pc \in {"cite", "cohere"}
      /\ job'.keys = body /\ job'.body = body /\ job'.secs = secs
  <2> DEFINE step == IF raw /\ study.repairs THEN "cite" ELSE "cohere"
             j == [job EXCEPT !.keys = body, !.raw = raw, !.body = body]
  <2>1. j \in JobType /\ j.keys = body /\ j.body = body
    BY <1>1, <1>2 DEF JobType
  <2>2. job' = [j EXCEPT !.secs = secs, !.pc = step]
    BY <1>4
  <2>3. step \in {"cite", "cohere"}
    OBVIOUS
  <2> HIDE DEF j, step
  <2>4. QED
    BY <1>2, <2>1, <2>2, <2>3 DEF JobType, Drafts, Editing
<1>6. Policy => \A i \in Parts : job'.secs[i].ids \subseteq Listed
  BY <1>3, <1>5 DEF Invariant, OnlyListed
<1>7. reported' = Below(job'.secs)
  <2>1. Below(secs) = Below(job.secs)
    BY <1>3, SameIds
  <2>2. QED
    BY <1>1, <1>5, <2>1 DEF Compose, Invariant, VerdictIsCurrent
<1>8. TextIsOfBody' /\ UNCHANGED <<study, draft>>
  BY <1>5 DEF TextIsOfBody, Filing, Compose, Settled
<1>9. QED
  BY <1>1, <1>5, <1>6, <1>7, <1>8, DraftGoesOn DEF Collecting, Editing

\* A step that edits the text in hand and leaves the sections alone.
LEMMA EditingGoesOn ==
    ASSUME Invariant, job.pc \in Editing, Working, job' \in JobType, job'.pc \in Editing,
           job'.secs = job.secs, TextIsOfBody'
    PROVE  Invariant'
<1>1. Policy => \A i \in Parts : job'.secs[i].ids \subseteq Listed
  BY DEF Invariant, OnlyListed
<1>2. reported' = Below(job'.secs)
  BY DEF Invariant, VerdictIsCurrent, Working
<1>3. job'.pc \notin {"diversify", "compose"}
  BY DEF Editing
<1>4. QED
  BY <1>1, <1>2, <1>3, DraftGoesOn DEF Working

LEMMA RepairMarkersKeeps == Invariant /\ RepairMarkers => Invariant'
<1> SUFFICES ASSUME Invariant, RepairMarkers PROVE Invariant'
  OBVIOUS
<1>1. job \in JobType /\ job.pc = "cite" /\ job.pc \in Editing /\ Working
  BY DEF RepairMarkers, Invariant, TypeOK, Editing
<1> DEFINE more == job.attempt + 1
<1>2. more \in Nat
  BY <1>1 DEF JobType
<1> HIDE DEF more
<1>3. CASE job' = [job EXCEPT !.attempt = more]
  <2>1. job' \in JobType /\ job'.pc = "cite" /\ job'.secs = job.secs
    BY <1>1, <1>2, <1>3 DEF JobType
  <2>2. QED
    BY <1>1, <2>1, EditingGoesOn DEF TextIsOfBody, Filing, Editing
<1>4. ASSUME NEW keys \in Prose, job' = [job EXCEPT !.attempt = more, !.body = keys]
      PROVE  Invariant'
  <2>1. job' \in JobType /\ job'.pc = "cite" /\ job'.secs = job.secs
    BY <1>1, <1>2, <1>4 DEF JobType
  <2>2. QED
    BY <1>1, <2>1, EditingGoesOn DEF TextIsOfBody, Filing, Editing
<1>5. ASSUME NEW keys \in Prose,
             job' = [job EXCEPT !.attempt = 0, !.body = keys, !.keys = keys,
                                !.raw = FALSE, !.pc = "cohere"]
      PROVE  Invariant'
  <2> DEFINE j == [job EXCEPT !.attempt = 0, !.body = keys, !.keys = keys]
  <2>1. j \in JobType /\ j.keys = keys /\ j.body = keys /\ j.secs = job.secs
    BY <1>1, <1>5 DEF JobType
  <2>2. job' = [j EXCEPT !.raw = FALSE, !.pc = "cohere"]
    BY <1>5
  <2> HIDE DEF j
  <2>3. job' \in JobType /\ job'.pc = "cohere" /\ job'.secs = job.secs
        /\ job'.keys = job'.body
    BY <2>1, <2>2 DEF JobType, Drafts, Editing
  <2>4. QED
    BY <1>1, <2>3, EditingGoesOn DEF TextIsOfBody, Filing, Editing
<1>6. CASE job' = [job EXCEPT !.attempt = 0, !.body = job.keys, !.pc = "cohere"]
  <2>1. job' \in JobType /\ job'.pc = "cohere" /\ job'.secs = job.secs
        /\ job'.keys = job'.body
    BY <1>1, <1>6 DEF JobType, Drafts, Editing
  <2>2. QED
    BY <1>1, <2>1, EditingGoesOn DEF TextIsOfBody, Filing, Editing
<1>7. QED
  BY <1>3, <1>4, <1>5, <1>6 DEF RepairMarkers, more

LEMMA CohereKeeps == Invariant /\ Cohere => Invariant'
<1> SUFFICES ASSUME Invariant, Cohere PROVE Invariant'
  OBVIOUS
<1>1. job \in JobType /\ job.pc = "cohere" /\ job.pc \in Editing /\ Working
      /\ job.keys = job.body
  BY DEF Cohere, Invariant, TypeOK, Editing, TextIsOfBody
<1>2. CASE job' = [job EXCEPT !.pc = "text"]
  <2>1. /\ job' \in JobType /\ job'.pc = "text" /\ job'.secs = job.secs
        /\ job'.keys = job.keys /\ job'.body = job.body
    BY <1>1, <1>2 DEF JobType, Drafts, Editing
  <2>2. TextIsOfBody'
    BY <1>1, <2>1 DEF TextIsOfBody
  <2>3. QED
    BY <1>1, <2>1, <2>2, EditingGoesOn DEF Editing
<1>3. ASSUME NEW keys \in Prose, NEW raw \in BOOLEAN, Coherent(job.keys, keys),
             job' = [job EXCEPT !.keys = keys, !.raw = raw, !.pc = "text"]
      PROVE  Invariant'
  <2>1. /\ job' \in JobType /\ job'.pc = "text" /\ job'.secs = job.secs
        /\ job'.keys = keys /\ job'.body = job.body
    BY <1>1, <1>3 DEF JobType, Drafts, Editing
  <2>2. \A k \in Keys : Count(job.keys, k) = Count(keys, k)
    BY <1>3 DEF Coherent
  <2>3. \A k \in Keys : Count(keys, k) = Count(job.body, k)
    BY <1>1, <2>2
  <2>4. TextIsOfBody'
    BY <2>1, <2>3 DEF TextIsOfBody, Count
  <2>5. QED
    BY <1>1, <2>1, <2>4, EditingGoesOn DEF Editing
<1>4. QED
  BY <1>2, <1>3 DEF Cohere

-----------------------------------------------------------------------------
(* The files of the drafter.                                                *)

\* Everything of a job but where it is.
LEMMA JobMoves ==
    ASSUME job \in JobType, NEW pc \in Drafts \cup Styles, job' = [job EXCEPT !.pc = pc]
    PROVE  /\ job' \in JobType /\ job'.pc = pc
           /\ job'.secs = job.secs /\ job'.keys = job.keys /\ job'.raw = job.raw
           /\ job'.body = job.body
BY DEF JobType

LEMMA WriteTextKeeps == Invariant /\ WriteText => Invariant'
<1> SUFFICES ASSUME Invariant, WriteText PROVE Invariant'
  OBVIOUS
<1>1. job \in JobType /\ draft \in DraftType /\ job.pc = "text"
      /\ study' = study /\ study \in Studies /\ reported' = reported
  BY DEF WriteText, Settled, Invariant, TypeOK
<1>2. /\ job' \in JobType /\ job'.pc = "claims" /\ job'.secs = job.secs
      /\ job'.keys = job.keys /\ job'.raw = job.raw /\ job'.body = job.body
  BY <1>1, JobMoves DEF WriteText, Drafts, Filing
<1> DEFINE text == [keys |-> job.keys, raw |-> job.raw]
<1>3. text \in Text
  BY <1>1 DEF Text, JobType
<1>4. /\ draft' \in DraftType /\ draft'.text = <<text>> /\ draft'.claims = draft.claims
      /\ draft'.bib = draft.bib /\ draft'.styled = draft.styled
  <2>1. draft' = [draft EXCEPT !.text = <<text>>]
    BY DEF WriteText
  <2>2. <<text>> \in Seq(Text)
    BY <1>3
  <2> HIDE DEF text
  <2>3. QED
    BY <1>1, <2>1, <2>2 DEF DraftType
<1>5. /\ draft.claims = <<>> /\ draft.bib = <<>> /\ draft.styled = <<>>
      /\ study.shortlist # <<>>
  BY <1>1 DEF Invariant, FilesInOrder, Drafts, Editing
<1>6. TypeOK'
  BY <1>1, <1>2, <1>4 DEF TypeOK
<1>7. FilesInOrder'
  BY <1>1, <1>2, <1>4, <1>5 DEF FilesInOrder, Collecting, Editing, Filing, Drafts, Styles
<1>8. OnlyListed'
  BY <1>1, <1>2, <1>4, <1>5 DEF Invariant, OnlyListed, Policy, Listed
<1>9. VerdictIsCurrent'
  <2>1. reported = Below(job.secs)
    BY <1>1 DEF Invariant, VerdictIsCurrent, Editing
  <2>2. QED
    BY <1>1, <1>2, <1>4, <1>5, <2>1
       DEF VerdictIsCurrent, Editing, Filing, Below, Cited, Eligible, Relevant, Listed
<1>10. TextIsOfBody'
  BY <1>1, <1>2 DEF Invariant, TextIsOfBody, Count
<1>11. StyledSoFar' /\ KeysSurviveStyle'
  BY <1>2, <1>4, <1>5 DEF StyledSoFar, KeysSurviveStyle
<1>12. QED
  BY <1>6, <1>7, <1>8, <1>9, <1>10, <1>11 DEF Invariant

LEMMA WriteClaimsKeeps == Invariant /\ WriteClaims => Invariant'
<1> SUFFICES ASSUME Invariant, WriteClaims PROVE Invariant'
  OBVIOUS
<1>1. job \in JobType /\ draft \in DraftType /\ job.pc = "claims"
      /\ study' = study /\ study \in Studies /\ reported' = reported
  BY DEF WriteClaims, Settled, Invariant, TypeOK
<1>2. /\ job' \in JobType /\ job'.pc = "bib" /\ job'.secs = job.secs
      /\ job'.keys = job.keys /\ job'.raw = job.raw /\ job'.body = job.body
  BY <1>1, JobMoves DEF WriteClaims, Drafts, Filing
<1>3. /\ draft' \in DraftType /\ draft'.text = draft.text /\ draft'.claims = <<job.secs>>
      /\ draft'.bib = draft.bib /\ draft'.styled = draft.styled
  <2>1. <<job.secs>> \in Seq(Sections)
    BY <1>1 DEF JobType
  <2> DEFINE claims == <<job.secs>>
  <2>2. draft' = [draft EXCEPT !.claims = claims]
    BY DEF WriteClaims
  <2> HIDE DEF claims
  <2>3. draft' \in DraftType /\ draft'.claims = claims /\ draft'.text = draft.text
        /\ draft'.bib = draft.bib /\ draft'.styled = draft.styled
    BY <1>1, <2>1, <2>2 DEF DraftType, claims
  <2>4. QED
    BY <2>3 DEF claims
<1>4. /\ draft.text = <<[keys |-> job.keys, raw |-> job.raw]>>
      /\ draft.bib = <<>> /\ draft.styled = <<>> /\ study.shortlist # <<>>
  BY <1>1 DEF Invariant, FilesInOrder, Drafts, Filing
<1>5. draft'.claims[1] = job.secs
  BY <1>3
<1>6. TypeOK'
  BY <1>1, <1>2, <1>3 DEF TypeOK
<1>7. FilesInOrder'
  BY <1>1, <1>2, <1>3, <1>4 DEF FilesInOrder, Collecting, Editing, Filing, Drafts, Styles
<1>8. OnlyListed'
  <2>1. Policy => Cited(job.secs) \subseteq Listed
    BY DEF Invariant, OnlyListed, Cited
  <2>2. QED
    BY <1>1, <1>2, <1>3, <1>4, <1>5, <2>1 DEF Invariant, OnlyListed, Policy, Listed, Cited
<1>9. VerdictIsCurrent'
  <2>1. reported = Below(job.secs)
    BY <1>1 DEF Invariant, VerdictIsCurrent, Filing
  <2>2. Below(job.secs)' = Below(job.secs) /\ Below(draft.claims[1])' = Below(job.secs)
    BY <1>1, <1>2, <1>5 DEF Below, Cited, Eligible, Relevant, Listed
  <2>3. QED
    BY <1>1, <1>2, <2>1, <2>2 DEF VerdictIsCurrent
<1>10. TextIsOfBody'
  BY <1>1, <1>2 DEF Invariant, TextIsOfBody, Filing, Count
<1>11. StyledSoFar' /\ KeysSurviveStyle'
  BY <1>2, <1>3, <1>4 DEF StyledSoFar, KeysSurviveStyle
<1>12. QED
  BY <1>6, <1>7, <1>8, <1>9, <1>10, <1>11 DEF Invariant

LEMMA WriteBibKeeps == Invariant /\ WriteBib => Invariant'
<1> SUFFICES ASSUME Invariant, WriteBib PROVE Invariant'
  OBVIOUS
<1>1. job \in JobType /\ draft \in DraftType /\ job.pc = "bib"
      /\ study' = study /\ study \in Studies /\ reported' = reported
  BY DEF WriteBib, Settled, Invariant, TypeOK
<1>2. /\ job' \in JobType /\ job'.pc = "verdict" /\ job'.secs = job.secs
      /\ job'.keys = job.keys /\ job'.raw = job.raw /\ job'.body = job.body
  BY <1>1, JobMoves DEF WriteBib, Drafts, Filing
<1> DEFINE bib == Bibliography(job.secs)
<1>3. bib \in SUBSET Sources
  BY <1>1, StudyOffers DEF Bibliography
<1>4. /\ draft' \in DraftType /\ draft'.text = draft.text /\ draft'.claims = draft.claims
      /\ draft'.bib = <<bib>> /\ draft'.styled = draft.styled
  <2>1. draft' = [draft EXCEPT !.bib = <<bib>>]
    BY DEF WriteBib
  <2>2. <<bib>> \in Seq(SUBSET Sources)
    BY <1>3
  <2> HIDE DEF bib
  <2>3. QED
    BY <1>1, <2>1, <2>2 DEF DraftType
<1>5. /\ draft.text = <<[keys |-> job.keys, raw |-> job.raw]>> /\ draft.claims = <<job.secs>>
      /\ draft.styled = <<>> /\ study.shortlist # <<>>
  BY <1>1 DEF Invariant, FilesInOrder, Drafts, Filing
<1>6. TypeOK'
  BY <1>1, <1>2, <1>4 DEF TypeOK
<1>7. FilesInOrder'
  BY <1>1, <1>2, <1>4, <1>5 DEF FilesInOrder, Collecting, Editing, Filing, Drafts, Styles
<1>8. OnlyListed'
  <2>1. draft'.claims # <<>> /\ draft'.claims[1] = job.secs /\ draft'.bib[1] = bib
    BY <1>4, <1>5
  <2>2. Bibliography(draft.claims[1])' = bib
    BY <1>1, <2>1 DEF Bibliography, Cited, Listed
  <2> HIDE DEF bib
  <2>3. QED
    BY <1>1, <1>2, <1>4, <2>1, <2>2 DEF Invariant, OnlyListed, Policy, Listed, Cited
<1>9. VerdictIsCurrent'
  <2>1. reported = Below(job.secs) /\ reported = Below(draft.claims[1])
    BY <1>1, <1>5 DEF Invariant, VerdictIsCurrent, Filing
  <2>2. /\ Below(job.secs)' = Below(job.secs)
        /\ Below(draft.claims[1])' = Below(draft.claims[1])
    BY <1>1, <1>2, <1>4 DEF Below, Cited, Eligible, Relevant, Listed
  <2>3. QED
    BY <1>1, <1>2, <2>1, <2>2 DEF VerdictIsCurrent
<1>10. TextIsOfBody'
  BY <1>1, <1>2 DEF Invariant, TextIsOfBody, Filing, Count
<1>11. StyledSoFar' /\ KeysSurviveStyle'
  BY <1>2, <1>4, <1>5 DEF StyledSoFar, KeysSurviveStyle
<1>12. QED
  BY <1>6, <1>7, <1>8, <1>9, <1>10, <1>11 DEF Invariant

-----------------------------------------------------------------------------
(* The stylist.                                                             *)

\* A step of the stylist before its file changes the job and no file.
LEMMA StyleGoesOn ==
    ASSUME Invariant, job.pc \in Styles \cup {"idle"}, UNCHANGED <<study, draft, reported>>,
           draft.text # <<>>, job' \in JobType, job'.pc \in Styles,
           Policy => \A i \in Parts : job'.secs[i].ids \subseteq Listed, StyledSoFar'
    PROVE  Invariant'
<1>1. TypeOK'
  BY DEF Invariant, TypeOK
<1>2. FilesInOrder'
  BY DEF FilesInOrder, Collecting, Editing, Filing, Drafts, Styles
<1>3. OnlyListed'
  BY DEF Invariant, OnlyListed, Policy, Listed, Cited, Bibliography
<1>4. VerdictIsCurrent'
  BY DEF Invariant, VerdictIsCurrent, Editing, Filing, Styles, Below, Cited, Eligible, Relevant,
         Listed
<1>5. TextIsOfBody'
  BY DEF TextIsOfBody, Filing, Styles
<1>6. KeysSurviveStyle'
  BY DEF Invariant, KeysSurviveStyle
<1>7. QED
  BY <1>1, <1>2, <1>3, <1>4, <1>5, <1>6 DEF Invariant

LEMMA OriginalIsTyped ==
    ASSUME draft \in DraftType, draft.text # <<>>
    PROVE  Original \in Prose /\ \A i \in Parts : Original[i] \subseteq Keys
<1>1. draft.text[1] \in Text
  BY FirstOf DEF DraftType
<1>2. QED
  BY <1>1 DEF Original, Text, Prose

LEMMA BeginStyleKeeps == Invariant /\ BeginStyle => Invariant'
<1> SUFFICES ASSUME Invariant, BeginStyle PROVE Invariant'
  OBVIOUS
<1>1. job.pc = "idle" /\ draft.text # <<>> /\ UNCHANGED <<study, draft, reported>>
  BY DEF BeginStyle, Ready, Settled
<1>2. CASE job' = [Idle EXCEPT !.phase = "stylist", !.pc = "style"]
  <2>1. job' \in JobType /\ job'.pc = "style" /\ job'.part = Idle.part
        /\ \A i \in Parts : job'.secs[i].ids = {}
    BY <1>2, IdleIsJob DEF JobType, Styles
  <2>2. \A i \in Parts : ~(i < job'.part)
    BY <2>1, BoundsAssumption DEF Idle, Parts
  <2>3. StyledSoFar'
    BY <2>1, <2>2 DEF StyledSoFar
  <2>4. QED
    BY <1>1, <2>1, <2>3, StyleGoesOn DEF Styles
<1>3. CASE job' = Rest("stylist")
  BY <1>1, <1>3, Resting
<1>4. QED
  BY <1>2, <1>3 DEF BeginStyle

\* A section is done: with its own keys, or with keys that hold them.
LEMMA StyledKeeps ==
    ASSUME Invariant, job.pc = "style", UNCHANGED <<study, draft, reported>>,
           NEW keys \in SUBSET Keys, Styled(keys),
           ~study.numbered => Original[job.part] \subseteq keys
    PROVE  Invariant'
<1>1. job \in JobType /\ draft \in DraftType
  BY DEF Invariant, TypeOK
<1> DEFINE next == IF job.part < Length THEN job.part + 1 ELSE 1
           pc == IF job.part < Length THEN "style" ELSE "score"
           all == [job.keys EXCEPT ![job.part] = keys]
<1>2. /\ next \in Parts /\ pc \in {"style", "score"} /\ all \in Prose
      /\ job.part \in Parts
  BY <1>1, Constants DEF JobType, Prose
<1>3. /\ job' \in JobType /\ job'.pc = pc /\ job'.part = next /\ job'.keys = all
      /\ job'.secs = job.secs
  <2> DEFINE j == [job EXCEPT !.keys = all, !.attempt = 0, !.lost = FALSE]
  <2>1. j \in JobType /\ j.keys = all /\ j.secs = job.secs
    <3> HIDE DEF all
    <3>1. QED
      BY <1>1, <1>2 DEF JobType
  <2>2. job' = [j EXCEPT !.overlap = FALSE, !.part = next, !.pc = pc]
    BY DEF Styled
  <2> HIDE DEF j, all, next, pc
  <2>3. QED
    BY <1>2, <2>1, <2>2 DEF JobType, Styles
<1>4. ASSUME ~study.numbered, NEW i \in Parts, i < job.part \/ i = job.part
      PROVE  Original[i] \subseteq all[i]
  <2>1. CASE i = job.part
    BY <1>1, <1>4, <2>1 DEF JobType, Prose
  <2>2. CASE i # job.part
    <3>1. Original[i] \subseteq job.keys[i]
      BY <1>4, <2>2 DEF Invariant, StyledSoFar
    <3>2. all[i] = job.keys[i]
      BY <1>1, <2>2 DEF JobType, Prose
    <3>3. QED
      BY <3>1, <3>2
  <2>3. QED
    BY <2>1, <2>2
<1>5. StyledSoFar'
  <2>1. Original' = Original
    BY DEF Original
  <2>2. CASE job.part < Length
    <3>1. pc = "style" /\ next = job.part + 1
      BY <2>2
    <3>2. \A i \in Parts : i < job.part + 1 => i < job.part \/ i = job.part
      BY <1>2 DEF Parts
    <3> HIDE DEF pc, next, all
    <3>3. QED
      BY <1>3, <1>4, <2>1, <3>1, <3>2 DEF StyledSoFar
  <2>3. CASE ~(job.part < Length)
    <3>1. pc = "score"
      BY <2>3
    <3>2. \A i \in Parts : i < job.part \/ i = job.part
      BY <1>2, <2>3, BoundsAssumption DEF Parts
    <3> HIDE DEF pc, next, all
    <3>3. QED
      BY <1>3, <1>4, <2>1, <3>1, <3>2 DEF StyledSoFar
  <2>4. QED
    BY <2>2, <2>3
<1>6. draft.text # <<>> /\ (Policy => \A i \in Parts : job'.secs[i].ids \subseteq Listed)
  BY <1>3 DEF Invariant, FilesInOrder, OnlyListed, Styles
<1>7. job'.pc \in Styles
  BY <1>2, <1>3 DEF Styles
<1>8. QED
  BY <1>3, <1>5, <1>6, <1>7, StyleGoesOn DEF Styles

LEMMA StyleSectionKeeps == Invariant /\ StyleSection => Invariant'
<1> SUFFICES ASSUME Invariant, StyleSection PROVE Invariant'
  OBVIOUS
<1>1. job \in JobType /\ draft \in DraftType /\ job.pc = "style" /\ draft.text # <<>>
      /\ UNCHANGED <<study, draft, reported>>
  BY DEF StyleSection, Settled, Invariant, TypeOK, FilesInOrder, Styles
<1>2. job.part \in Parts /\ Original[job.part] \in SUBSET Keys
  BY <1>1, OriginalIsTyped DEF JobType
<1>3. ASSUME Styled(Original[job.part])
      PROVE  Invariant'
  BY <1>1, <1>2, <1>3, StyledKeeps
<1>4. ASSUME NEW keys \in SUBSET Keys, ~Dropped(Original[job.part], keys),
             Styled(IF job.overlap THEN Original[job.part] ELSE keys)
      PROVE  Invariant'
  <2>1. CASE job.overlap
    BY <1>3, <1>4, <2>1
  <2>2. CASE ~job.overlap
    BY <1>1, <1>4, <2>2, StyledKeeps DEF Dropped
  <2>3. QED
    BY <2>1, <2>2
<1>5. CASE FailStyle
  BY <1>1, <1>5, Resting DEF FailStyle
<1>6. ASSUME NEW lost \in BOOLEAN, NEW overlap \in BOOLEAN,
             job' = [job EXCEPT !.attempt = @ + 1, !.lost = @ \/ lost,
                                !.overlap = @ \/ (lost /\ overlap)]
      PROVE  Invariant'
  <2> DEFINE more == job.attempt + 1
             l == job.lost \/ lost
             o == job.overlap \/ (lost /\ overlap)
  <2>1. more \in Nat /\ l \in BOOLEAN /\ o \in BOOLEAN
    BY <1>1 DEF JobType
  <2>2. job' = [job EXCEPT !.attempt = more, !.lost = l, !.overlap = o]
    BY <1>6
  <2> HIDE DEF more, l, o
  <2>3. /\ job' \in JobType /\ job'.pc = "style" /\ job'.part = job.part
        /\ job'.keys = job.keys /\ job'.secs = job.secs
    BY <1>1, <2>1, <2>2 DEF JobType
  <2>4. StyledSoFar'
    BY <1>1, <2>3 DEF Invariant, StyledSoFar, Original
  <2>5. Policy => \A i \in Parts : job'.secs[i].ids \subseteq Listed
    BY <2>3 DEF Invariant, OnlyListed
  <2>6. QED
    BY <1>1, <2>3, <2>4, <2>5, StyleGoesOn DEF Styles
<1>7. QED
  BY <1>3, <1>4, <1>5, <1>6 DEF StyleSection

LEMMA PolishKeeps == Invariant /\ Polish => Invariant'
<1> SUFFICES ASSUME Invariant, Polish PROVE Invariant'
  OBVIOUS
<1>1. job \in JobType /\ draft \in DraftType /\ job.pc = "score" /\ draft.text # <<>>
      /\ UNCHANGED <<study, draft, reported>>
  BY DEF Polish, Settled, Invariant, TypeOK, FilesInOrder, Styles
<1>2. CASE FailStyle
  BY <1>1, <1>2, Resting DEF FailStyle
<1>3. ASSUME NEW keys \in Prose, ~study.numbered => AllKeys(Original) \subseteq AllKeys(keys),
             job' = [job EXCEPT !.keys = keys, !.pc = "save"]
      PROVE  Invariant'
  <2>1. job' \in JobType /\ job'.pc = "save" /\ job'.keys = keys /\ job'.secs = job.secs
    BY <1>1, <1>3 DEF JobType, Styles
  <2>2. AllKeys(Original)' = AllKeys(Original) /\ AllKeys(job'.keys) = AllKeys(keys)
    BY <1>1, <2>1 DEF AllKeys, Original
  <2>3. StyledSoFar'
    BY <1>1, <1>3, <2>1, <2>2 DEF StyledSoFar, AllKeys
  <2>4. Policy => \A i \in Parts : job'.secs[i].ids \subseteq Listed
    BY <2>1 DEF Invariant, OnlyListed
  <2>5. QED
    BY <1>1, <2>1, <2>3, <2>4, StyleGoesOn DEF Styles
<1>4. CASE job' = [job EXCEPT !.pc = "save"]
  <2>1. job.keys \in Prose /\ job' = [job EXCEPT !.keys = job.keys, !.pc = "save"]
    BY <1>1, <1>4 DEF JobType
  <2>2. ~study.numbered => \A i \in Parts : Original[i] \subseteq job.keys[i]
    BY <1>1 DEF Invariant, StyledSoFar
  <2>3. ~study.numbered => AllKeys(Original) \subseteq AllKeys(job.keys)
    BY <2>2 DEF AllKeys
  <2>4. QED
    BY <1>3, <2>1, <2>3
<1>5. ASSUME NEW keys \in Prose, ~Dropped(AllKeys(Original), AllKeys(keys)),
             job' = [job EXCEPT !.keys = keys, !.pc = "save"]
      PROVE  Invariant'
  BY <1>3, <1>5 DEF Dropped
<1>6. QED
  BY <1>2, <1>4, <1>5 DEF Polish

LEMMA FinishStyleKeeps == Invariant /\ FinishStyle => Invariant'
<1> SUFFICES ASSUME Invariant, FinishStyle PROVE Invariant'
  OBVIOUS
<1>1. job \in JobType /\ draft \in DraftType /\ job.pc = "save" /\ job' = Rest("stylist")
      /\ UNCHANGED <<study, reported>>
  BY DEF FinishStyle, Settled, Invariant, TypeOK
<1>2. /\ job' \in JobType /\ job'.pc = "idle" /\ \A i \in Parts : job'.secs[i].ids = {}
  BY <1>1, RestIsJob
<1> DEFINE styled == <<job.keys>>
<1>3. styled \in Seq(Prose) /\ styled[1] = job.keys
  BY <1>1 DEF JobType
<1>4. draft' = [draft EXCEPT !.styled = styled]
  BY DEF FinishStyle
<1> HIDE DEF styled
<1>5. /\ draft' \in DraftType /\ draft'.styled = styled /\ draft'.text = draft.text
      /\ draft'.claims = draft.claims /\ draft'.bib = draft.bib
  BY <1>1, <1>3, <1>4 DEF DraftType
<1>6. TypeOK'
  BY <1>1, <1>2, <1>5 DEF Invariant, TypeOK
<1>7. FilesInOrder'
  BY <1>2 DEF FilesInOrder, Collecting, Editing, Filing, Drafts, Styles
<1>8. OnlyListed'
  BY <1>1, <1>2, <1>5 DEF Invariant, OnlyListed, Policy, Listed, Cited, Bibliography
<1>9. VerdictIsCurrent'
  BY <1>1, <1>2, <1>5 DEF Invariant, VerdictIsCurrent, Editing, Filing, Below, Cited, Eligible,
                          Relevant, Listed
<1>10. TextIsOfBody' /\ StyledSoFar'
  BY <1>2 DEF TextIsOfBody, Filing, StyledSoFar
<1>11. KeysSurviveStyle'
  <2>1. ~study.numbered => AllKeys(Original) \subseteq AllKeys(job.keys)
    BY <1>1 DEF Invariant, StyledSoFar
  <2>2. AllKeys(draft.text[1].keys)' = AllKeys(Original)
        /\ AllKeys(draft.styled[1])' = AllKeys(job.keys)
    BY <1>3, <1>5 DEF AllKeys, Original
  <2>3. QED
    BY <1>1, <2>1, <2>2 DEF KeysSurviveStyle
<1>12. QED
  BY <1>6, <1>7, <1>8, <1>9, <1>10, <1>11 DEF Invariant

-----------------------------------------------------------------------------
(* The specification.                                                       *)

LEMMA StuttersKeep ==
    ASSUME Invariant, UNCHANGED <<study, draft, reported, job>>
    PROVE  Invariant'
<1>1. TypeOK' /\ FilesInOrder' /\ TextIsOfBody' /\ KeysSurviveStyle'
  BY DEF Invariant, TypeOK, FilesInOrder, TextIsOfBody, Count, KeysSurviveStyle
<1>2. OnlyListed'
  BY DEF Invariant, OnlyListed, Policy, Listed, Cited, Bibliography
<1>3. VerdictIsCurrent'
  BY DEF Invariant, VerdictIsCurrent, Below, Cited, Eligible, Relevant, Listed
<1>4. StyledSoFar'
  BY DEF Invariant, StyledSoFar, Original, AllKeys
<1>5. QED
  BY <1>1, <1>2, <1>3, <1>4 DEF Invariant

LEMMA NextKeeps == Invariant /\ [Next]_vars => Invariant'
<1> SUFFICES ASSUME Invariant, [Next]_vars PROVE Invariant'
  OBVIOUS
<1>1. CASE BeginDraft
  BY <1>1, BeginDraftKeeps
<1>2. CASE DraftSection
  BY <1>2, DraftSectionKeeps
<1>3. CASE CheckFloor
  BY <1>3, CheckFloorKeeps
<1>4. CASE Diversify
  BY <1>4, DiversifyKeeps
<1>5. CASE Compose
  BY <1>5, ComposeKeeps
<1>6. CASE RepairMarkers
  BY <1>6, RepairMarkersKeeps
<1>7. CASE Cohere
  BY <1>7, CohereKeeps
<1>8. CASE WriteText
  BY <1>8, WriteTextKeeps
<1>9. CASE WriteClaims
  BY <1>9, WriteClaimsKeeps
<1>10. CASE WriteBib
  BY <1>10, WriteBibKeeps
<1>11. CASE FinishDraft
  BY <1>11, Resting DEF FinishDraft, Settled
<1>12. CASE BeginStyle
  BY <1>12, BeginStyleKeeps
<1>13. CASE StyleSection
  BY <1>13, StyleSectionKeeps
<1>14. CASE Polish
  BY <1>14, PolishKeeps
<1>15. CASE FinishStyle
  BY <1>15, FinishStyleKeeps
<1>16. CASE Retry \/ ForceApprove \/ Redraft
  BY <1>16, StuttersKeep DEF Retry, ForceApprove, Redraft, Settled
<1>17. CASE Die
  <2>1. job.phase \in {"none", "drafter", "stylist"}
    BY DEF Invariant, TypeOK, JobType
  <2>2. QED
    BY <1>17, <2>1, Resting DEF Die
<1>18. CASE UNCHANGED vars
  BY <1>18, StuttersKeep DEF vars
<1>19. QED
  BY <1>1, <1>2, <1>3, <1>4, <1>5, <1>6, <1>7, <1>8, <1>9, <1>10, <1>11, <1>12, <1>13, <1>14,
     <1>15, <1>16, <1>17, <1>18 DEF Next, DraftStep, StyleStep

LEMMA InvariantHolds == Spec => []Invariant
BY InitKeeps, NextKeeps, PTL DEF Spec

\* As long as the evidence policy is on, every source the claims of a draft name
\* is in the bibliography beside them, whichever of the section calls, the stubs
\* and the diversity repair wrote the section last.
THEOREM ClaimsAreAlwaysVouched == Spec => []ClaimsAreVouched
<1>1. Invariant => ClaimsAreVouched
  BY DEF Invariant, OnlyListed, Policy, Bibliography, ClaimsAreVouched
<1>2. QED
  BY <1>1, InvariantHolds, PTL

\* The event of a draft below its floor is there exactly when the draft on disk
\* is below it: no repair, no failed job and no second draft makes it stale.
THEOREM FloorIsAlwaysReported == Spec => []FloorIsReported
<1>1. Invariant => FloorIsReported
  BY DEF Invariant, VerdictIsCurrent, FloorIsReported
<1>2. QED
  BY <1>1, InvariantHolds, PTL

\* A paper that cites by key has in its styled text each key of its draft, for
\* any number of sections and attempts.
THEOREM KeysAlwaysSurviveStyle == Spec => []KeysSurviveStyle
<1>1. Invariant => KeysSurviveStyle
  BY DEF Invariant
<1>2. QED
  BY <1>1, InvariantHolds, PTL

\* The manuscript on disk cites as often what its sections cited, or what the
\* repair of the markers left of that.
THEOREM CitationsAlwaysSurvive == Spec => []CitationsSurvive
<1>1. Invariant => CitationsSurvive
  <2> SUFFICES ASSUME Invariant, job.pc \in Filing
               PROVE  \A k \in Keys : Count(draft.text[1].keys, k) = Count(job.body, k)
    BY DEF CitationsSurvive, Filing
  <2>1. draft.text = <<[keys |-> job.keys, raw |-> job.raw]>>
    BY DEF Invariant, FilesInOrder
  <2>2. draft.text[1].keys = job.keys
    BY <2>1
  <2>3. QED
    BY <2>2 DEF Invariant, TextIsOfBody
<1>2. QED
  BY <1>1, InvariantHolds, PTL
=============================================================================
