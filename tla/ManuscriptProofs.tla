---------------------------- MODULE ManuscriptProofs ----------------------------
(***************************************************************************)
(* What the rewrite, the reviews and the exports promise of a manuscript,  *)
(* for any limits of the loops, any scored dimensions, any settings, any   *)
(* number of versions and any deaths.                                      *)
(*                                                                         *)
(* None of the four properties is inductive.  That only vouched texts are  *)
(* kept needs the texts in the hands of the job, and that a polished text  *)
(* is the incumbent as soon as a candidate was accepted.  That the user    *)
(* decides about what was reviewed needs every state from which a run      *)
(* comes back to that decision, a failed or killed scan among them, and    *)
(* that a job in the middle of a review holds the newest version.  That    *)
(* exports are sourced needs that the gate is still open when the files    *)
(* are composed.  All of it rests on one job at a time, of the phase that  *)
(* the state of the run names.                                             *)
(***************************************************************************)
EXTENDS Manuscript, SequenceTheorems, WellFoundedInduction, TLAPS
-----------------------------------------------------------------------------
(* Types.                                                                   *)

States == {"USER_REVISION_REVIEW", "REWRITE_RUNNING", "CRITIC_RUNNING",
           "USER_EXTERNAL_SCAN_APPROVAL", "INTEGRITY_RUNNING", "USER_INTEGRITY_REVIEW",
           "USER_FINAL_ACCEPTANCE", "EXPORTS_RUNNING", "EXPORTS_DONE",
           "FAILED_FIXABLE", "FAILED_VENDOR", "FAILED_POLICY"}
Phases == {"final_rewrite", "critic", "integrity", "exports"}

\* Where a job is: making a text, writing a version, or in another phase.
Making == {"rewrite", "polish", "round0", "attempt", "production", "opening", "score", "select"}
Writing == {"text", "claims", "audit", "done"}
Places == Making \cup Writing \cup {"idle", "critic", "review", "scan", "gate", "compose"}

Bodies == Texts \cup {Nothing}

JobType ==
    [phase : Phases \cup {"none"}, pc : Places, cur : Bodies, claims : Claims,
     audit : {"plain", "fallback"}, retried : BOOLEAN, inc : Bodies, scores : Scores,
     base : Scores, targets : 0..1, left : 0..1, attempt : Nat, accepted : Nat,
     nogain : Nat, opened : BOOLEAN, iter : Nat, best : Bodies, key : Nat,
     version : Nat, depth : 0..1]

ReviewType ==
    [version : Nat, text : Bodies, claims : Claims, open : BOOLEAN, waived : BOOLEAN,
     forced : BOOLEAN]

TypeOK ==
    /\ state \in States
    /\ mode \in Modes
    /\ draft \in {"sourced", "unsourced"}
    /\ rewrite \in Seq(Version)
    /\ review \in ReviewType
    /\ scanned \in Seq(Nat)
    /\ exported \in [version : Nat, text : Bodies]
    /\ job \in JobType
    /\ deaths \in Nat

-----------------------------------------------------------------------------
(* The inductive invariant.                                                 *)

\* One job at a time, of the phase the run's state names; a job that failed or
\* died has left its phase behind.
JobIsOfState ==
    /\ job.pc # "idle" => state \in Running
    /\ state = "REWRITE_RUNNING" => job.phase = "final_rewrite"
    /\ state = "CRITIC_RUNNING" => job.phase = "critic"
    /\ state = "INTEGRITY_RUNNING" => job.phase = "integrity"
    /\ state = "EXPORTS_RUNNING" => job.phase = "exports"
    /\ state = "FAILED_POLICY" => job.phase = "exports"
    /\ state = "FAILED_FIXABLE" => job.phase # "none"
    /\ job.pc \in Making => job.phase = "final_rewrite"
    /\ job.pc \in Writing => job.phase \in {"final_rewrite", "critic", "exports"}
    /\ job.pc \in {"critic", "review"} => job.phase = "critic"
    /\ job.pc = "scan" => job.phase = "integrity"
    /\ job.pc \in {"gate", "compose"} => job.phase = "exports"

\* A job that makes or writes a text has a directory for it.
JobHasDirectory == job.pc \in Making \cup Writing => job.version \in DOMAIN rewrite

Vouched(t) == t.by \in {"rewrite", "round0", "loop"} => t.clean

\* The text a job would write is vouched for; in the polish loop whatever came
\* after an accepted candidate is such a candidate.
TextsInHand ==
    /\ Vouched(job.cur)
    /\ job.pc = "round0" => job.accepted = 0
    /\ job.pc = "attempt" /\ job.accepted > 0 => job.inc.by = "polish"

ScoresKept ==
    job.pc \in {"round0", "attempt"} => \A d \in Dims : job.scores[d] >= job.base[d]

\* The states from which a run may come (back) to the user's decision about the
\* scan without another review.
Deciding ==
    \/ state \in {"USER_EXTERNAL_SCAN_APPROVAL", "INTEGRITY_RUNNING", "FAILED_VENDOR",
                  "USER_INTEGRITY_REVIEW"}
    \/ state = "FAILED_FIXABLE" /\ job.phase = "integrity"

ReviewIsOfNewest ==
    /\ job.pc \in {"review", "scan"} => job.version = Latest
    /\ Deciding /\ ~review.forced => review.version = Latest /\ review.text = TextOf(Latest)
    /\ state = "USER_INTEGRITY_REVIEW" => scanned = <<Latest>>

GateIsOpen == job.pc = "compose" => ~Blocked

Invariant ==
    /\ TypeOK
    /\ JobIsOfState
    /\ JobHasDirectory
    /\ TextsInHand /\ OnlyVouchedTexts
    /\ ScoresKept
    /\ ReviewIsOfNewest
    /\ GateIsOpen /\ ExportsAreSourced
-----------------------------------------------------------------------------
(* What the operators yield.                                                *)

LessThan == {p \in Nat \X Nat : p[1] < p[2]}

LEMMA LessIsWellFounded == IsWellFoundedOn(LessThan, Nat)
<1>1. LessThan = OpToRel(<, Nat)
  BY DEF LessThan, OpToRel
<1>2. QED
  BY <1>1, NatLessThanWellFounded

\* Max, of the community modules, is the greatest element of a bounded set.
LEMMA MaxIsIn ==
    ASSUME NEW n \in Nat, NEW S \in SUBSET (0..n), S # {}
    PROVE  /\ Max(S) \in S
           /\ \A x \in S : Max(S) >= x
<1> DEFINE T == {n - x : x \in S}
<1>1. T \subseteq Nat /\ T # {}
  OBVIOUS
<1>2. PICK t \in T : \A u \in T : ~(<<u, t>> \in LessThan)
  BY <1>1, LessIsWellFounded, WFMin
<1>3. \A u \in T : u >= t
  <2>1. \A u, v \in Nat : <<u, v>> \notin LessThan => u >= v
    BY DEF LessThan
  <2> HIDE DEF T
  <2>2. QED
    BY <1>1, <1>2, <2>1
<1>4. PICK x \in S : t = n - x
  OBVIOUS
<1>5. \A y \in S : x >= y
  <2>1. ASSUME NEW y \in S
        PROVE  x >= y
    <3>1. n - y >= n - x
      BY <1>3, <1>4
    <3>2. QED
      BY <3>1
  <2>2. QED
    BY <2>1
<1>6. \E m \in S : \A y \in S : m >= y
  BY <1>5
<1>7. QED
  BY <1>6 DEF Max

LEMMA BodyFacts ==
    /\ Nothing \in Bodies /\ Original \in Bodies
    /\ \A by \in {"rewrite", "round0", "polish", "loop", "repair"} : Text(by) \subseteq Texts
    /\ Texts \subseteq Bodies
    /\ \A t \in Bodies : t.clean => Vouched(t)
    /\ \A t \in Text("polish") \cup Text("repair") : Vouched(t)
    /\ Vouched(Nothing) /\ Vouched(Original)
    /\ Original # Nothing
BY DEF Bodies, Texts, Text, Nothing, Original, Vouched

\* The newest readable rewrite is one of the directories, or none.
LEMMA LatestIs ==
    ASSUME TypeOK
    PROVE  /\ Latest \in Nat
           /\ Latest # 0 => Latest \in DOMAIN rewrite /\ rewrite[Latest].text # Nothing
           /\ TextOf(Latest) \in Bodies
           /\ ClaimsOf(Latest) \in Claims
<1> DEFINE readable == {i \in DOMAIN rewrite : rewrite[i].text # Nothing}
<1>1. Len(rewrite) \in Nat /\ DOMAIN rewrite = 1..Len(rewrite)
  BY DEF TypeOK
<1>2. {0} \cup readable \in SUBSET (0..Len(rewrite)) /\ {0} \cup readable # {}
  BY <1>1
<1>3. Latest \in {0} \cup readable
  <2>1. Max({0} \cup readable) \in {0} \cup readable
    BY <1>1, <1>2, MaxIsIn
  <2>2. QED
    BY <2>1 DEF Latest
<1>4. \A i \in DOMAIN rewrite : rewrite[i].text \in Bodies /\ rewrite[i].claims \in Claims
  <2>1. \A i \in DOMAIN rewrite : rewrite[i] \in Version
    BY ElementOfSeq DEF TypeOK
  <2>2. QED
    BY <2>1 DEF Version, Bodies
<1>5. QED
  BY <1>1, <1>3, <1>4, BodyFacts DEF TextOf, ClaimsOf, TypeOK, Claims

LEMMA SameFiles ==
    ASSUME UNCHANGED <<rewrite, draft>>
    PROVE  /\ Latest' = Latest
           /\ \A v : TextOf(v)' = TextOf(v) /\ ClaimsOf(v)' = ClaimsOf(v)
BY DEF Latest, TextOf, ClaimsOf

LEMMA IdleType ==
    /\ Idle \in JobType
    /\ Idle.pc = "idle" /\ Idle.phase = "none" /\ Idle.cur = Nothing
<1>1. Lowest \in Scores
  BY LimitsAssumption DEF Lowest, Scores
<1>2. QED
  BY <1>1, BodyFacts DEF Idle, JobType, Places, Claims

LEMMA ForgetType ==
    ASSUME NEW j \in JobType
    PROVE  /\ Forget(j) \in JobType
           /\ Forget(j).phase = j.phase /\ Forget(j).pc = j.pc /\ Forget(j).cur = j.cur
           /\ Forget(j).version = j.version
           /\ Forget(j).accepted = 0
<1>1. Lowest \in Scores
  BY LimitsAssumption DEF Lowest, Scores
<1>2. /\ Forget(j).phase = j.phase /\ Forget(j).pc = j.pc /\ Forget(j).cur = j.cur
      /\ Forget(j).version = j.version /\ Forget(j).claims = j.claims
      /\ Forget(j).audit = j.audit /\ Forget(j).depth = j.depth
      /\ Forget(j).accepted = 0
  BY DEF Forget, Idle
<1>3. Forget(j) \in JobType
  <2>1. Forget(j) = [Idle EXCEPT !.phase = j.phase, !.pc = j.pc, !.cur = j.cur,
                                 !.claims = j.claims, !.audit = j.audit,
                                 !.version = j.version, !.depth = j.depth]
    BY DEF Forget
  <2>2. /\ j.phase \in Phases \cup {"none"} /\ j.pc \in Places /\ j.cur \in Bodies
        /\ j.claims \in Claims /\ j.audit \in {"plain", "fallback"}
        /\ j.version \in Nat /\ j.depth \in 0..1
    BY DEF JobType
  <2>3. QED
    <3> DEFINE i == Idle
               k == [i EXCEPT !.phase = j.phase, !.pc = j.pc, !.cur = j.cur]
    <3>1. i \in JobType
      BY IdleType
    <3>2. Forget(j) = [k EXCEPT !.claims = j.claims, !.audit = j.audit,
                                !.version = j.version, !.depth = j.depth]
      BY <2>1
    <3> HIDE DEF i
    <3>3. k \in JobType
      BY <2>2, <3>1 DEF JobType
    <3> HIDE DEF k
    <3>4. QED
      BY <2>2, <3>2, <3>3 DEF JobType
<1>4. QED
  BY <1>2, <1>3
-----------------------------------------------------------------------------
(* Making a text.                                                           *)

\* While a text is made nothing else moves.
LEMMA MakingKeeps ==
    ASSUME Invariant, Working, job.pc \in Making,
           job' \in JobType, job'.pc \in Making \cup {"text"},
           job'.phase = job.phase, job'.version = job.version,
           TextsInHand', ScoresKept'
    PROVE  Invariant'
<1>1. UNCHANGED <<state, rewrite, review, scanned, exported, mode, draft, deaths>>
  BY DEF Working, papers, Settled
<1>2. TypeOK'
  BY <1>1 DEF Invariant, TypeOK
<1>3. JobIsOfState' /\ JobHasDirectory'
  BY <1>1 DEF Invariant, JobIsOfState, JobHasDirectory, Making, Writing
<1>4. OnlyVouchedTexts'
  BY <1>1 DEF Invariant, OnlyVouchedTexts
<1>5. ReviewIsOfNewest'
  BY <1>1, SameFiles DEF Invariant, ReviewIsOfNewest, Deciding, JobIsOfState, Making
<1>6. GateIsOpen' /\ ExportsAreSourced'
  BY <1>1, SameFiles DEF Invariant, GateIsOpen, ExportsAreSourced, Making
<1>7. QED
  BY <1>2, <1>3, <1>4, <1>5, <1>6 DEF Invariant

LEMMA RewriteKeeps ==
    ASSUME Invariant, RewriteError \/ Rewritten
    PROVE  Invariant'
<1>1. job \in JobType /\ job.pc = "rewrite" /\ Working /\ Vouched(job.cur)
      /\ draft \in Claims
  BY DEF RewriteError, Rewritten, Invariant, TypeOK, TextsInHand, Claims
<1>2. /\ job' \in JobType
      /\ job'.pc \in {"rewrite", "polish", "text"}
      /\ job'.phase = job.phase /\ job'.version = job.version
      /\ Vouched(job'.cur)
  <2>1. CASE RewriteError
    BY <1>1, <2>1 DEF RewriteError, JobType, Places, Making, Writing
  <2>2. CASE Rewritten
    <3>1. [by |-> "rewrite", clean |-> TRUE] \in Bodies /\ Vouched([by |-> "rewrite", clean |-> TRUE])
      BY DEF Bodies, Texts, Vouched
    <3>2. CASE \E c \in IF mode.holistic THEN {draft} ELSE {"sourced", "unsourced"} :
                  job' = [job EXCEPT !.cur = [by |-> "rewrite", clean |-> TRUE],
                                     !.claims = c, !.pc = "polish"]
      <4>1. PICK c \in Claims :
               job' = [job EXCEPT !.cur = [by |-> "rewrite", clean |-> TRUE],
                                  !.claims = c, !.pc = "polish"]
        BY <1>1, <3>2 DEF Claims
      <4>2. QED
        BY <1>1, <3>1, <4>1 DEF JobType, Places, Making
    <3>3. CASE job' = [job EXCEPT !.retried = TRUE]
      BY <1>1, <3>3 DEF JobType
    <3>4. CASE job' = [job EXCEPT !.audit = "fallback", !.pc = "polish"]
      BY <1>1, <3>4 DEF JobType, Places, Making
    <3>5. QED
      BY <2>2, <3>2, <3>3, <3>4 DEF Rewritten
  <2>3. QED
    BY <2>1, <2>2
<1>3. TextsInHand' /\ ScoresKept'
  BY <1>2 DEF TextsInHand, ScoresKept, Vouched
<1>4. QED
  BY <1>1, <1>2, <1>3, MakingKeeps DEF Making

\* A failed or refused attempt counts.
LEMMA RefusedType ==
    ASSUME NEW j \in JobType, NEW w \in Nat
    PROVE  LET k == [j EXCEPT !.attempt = @ + 1, !.nogain = w]
           IN  /\ k \in JobType
               /\ k.pc = j.pc /\ k.phase = j.phase /\ k.version = j.version
               /\ k.cur = j.cur /\ k.inc = j.inc /\ k.accepted = j.accepted
               /\ k.scores = j.scores /\ k.base = j.base
<1> DEFINE a == j.attempt + 1
           k == [j EXCEPT !.attempt = a, !.nogain = w]
<1>1. a \in Nat
  BY DEF JobType
<1> HIDE DEF a
<1>2. k \in JobType
  BY <1>1 DEF JobType
<1>3. /\ k.pc = j.pc /\ k.phase = j.phase /\ k.version = j.version
      /\ k.cur = j.cur /\ k.inc = j.inc /\ k.accepted = j.accepted
      /\ k.scores = j.scores /\ k.base = j.base
  BY DEF JobType
<1>4. QED
  BY <1>2, <1>3 DEF a

LEMMA StartPolishKeeps ==
    ASSUME Invariant, StartPolish
    PROVE  Invariant'
<1>1. job \in JobType /\ job.pc = "polish" /\ Working /\ Vouched(job.cur) /\ job.cur \in Bodies
  BY DEF StartPolish, Invariant, TypeOK, TextsInHand, JobType
<1> DEFINE f == Forget(job)
<1>2. f \in JobType /\ f.phase = job.phase /\ f.cur = job.cur /\ f.version = job.version
      /\ f.accepted = 0
  BY <1>1, ForgetType
<1>3. CASE job' = [f EXCEPT !.pc = "production"]
  <2> HIDE DEF f
  <2>1. /\ job' \in JobType /\ job'.pc = "production"
        /\ job'.phase = job.phase /\ job'.version = job.version /\ job'.cur = job.cur
    BY <1>2, <1>3 DEF JobType, Places, Making
  <2>2. TextsInHand' /\ ScoresKept'
    BY <1>1, <2>1 DEF TextsInHand, ScoresKept, Vouched
  <2>3. QED
    BY <1>1, <2>1, <2>2, MakingKeeps DEF Making
<1>4. CASE \E s \in Scores, n \in 0..1 :
              job' = [f EXCEPT !.inc = job.cur, !.scores = s, !.base = s,
                               !.targets = n, !.left = n, !.attempt = 1,
                               !.pc = IF mode.mathematical THEN "round0" ELSE "attempt"]
  <2>1. PICK s \in Scores, n \in 0..1 :
              job' = [f EXCEPT !.inc = job.cur, !.scores = s, !.base = s,
                               !.targets = n, !.left = n, !.attempt = 1,
                               !.pc = IF mode.mathematical THEN "round0" ELSE "attempt"]
    BY <1>4
  <2> DEFINE k == [f EXCEPT !.scores = s, !.base = s, !.targets = n, !.left = n]
  <2>2. job' = [k EXCEPT !.inc = job.cur, !.attempt = 1,
                         !.pc = IF mode.mathematical THEN "round0" ELSE "attempt"]
    BY <2>1
  <2>3. k \in JobType
    <3> HIDE DEF f
    <3>1. QED
      BY <1>2 DEF JobType
  <2>4. /\ k.phase = job.phase /\ k.version = job.version /\ k.cur = job.cur
        /\ k.accepted = 0 /\ k.scores = s /\ k.base = s
    <3> HIDE DEF f
    <3>1. QED
      BY <1>2 DEF JobType
  <2> DEFINE pc1 == IF mode.mathematical THEN "round0" ELSE "attempt"
  <2>5. pc1 \in {"round0", "attempt"} /\ pc1 \in Places
    BY DEF Places, Making
  <2> HIDE DEF k, f, pc1
  <2>6. job' = [k EXCEPT !.inc = job.cur, !.attempt = 1, !.pc = pc1]
    BY <2>2 DEF pc1
  <2>7. job' \in JobType
    BY <1>1, <2>3, <2>5, <2>6 DEF JobType
  <2>8. /\ job'.pc = pc1
        /\ job'.phase = job.phase /\ job'.version = job.version /\ job'.cur = job.cur
        /\ job'.accepted = 0 /\ job'.scores = s /\ job'.base = s
    BY <2>3, <2>4, <2>6 DEF JobType
  <2>9. \A d \in Dims : s[d] \in Nat
    BY LimitsAssumption DEF Scores
  <2>10. TextsInHand' /\ ScoresKept'
    BY <1>1, <2>5, <2>8, <2>9 DEF TextsInHand, ScoresKept, Vouched
  <2>11. QED
    BY <1>1, <2>5, <2>7, <2>8, <2>10, MakingKeeps DEF Making
<1>5. QED
  BY <1>3, <1>4 DEF StartPolish

LEMMA Round0Keeps ==
    ASSUME Invariant, Round0
    PROVE  Invariant'
<1>1. job \in JobType
  BY DEF Invariant, TypeOK
<1>2. /\ job.pc = "round0" /\ Working /\ Vouched(job.cur)
      /\ job.accepted = 0
      /\ \A d \in Dims : job.scores[d] >= job.base[d]
  BY DEF Round0, Invariant, TextsInHand, ScoresKept
<1>3. /\ job' \in JobType
      /\ job'.pc = "attempt"
      /\ job'.phase = job.phase /\ job'.version = job.version /\ job'.cur = job.cur
      /\ job'.accepted = 0
      /\ \A d \in Dims : job'.scores[d] >= job'.base[d]
  <2>1. CASE job' = [job EXCEPT !.pc = "attempt"]
    BY <1>1, <1>2, <2>1 DEF JobType, Places, Making
  <2>2. ASSUME NEW t \in Text("round0")
        PROVE  t \in Bodies
    BY BodyFacts
  <2>3. CASE \E t \in Text("round0") :
                job' = [job EXCEPT !.pc = "attempt", !.inc = t, !.opened = TRUE]
    <3>1. PICK t \in Text("round0") :
                job' = [job EXCEPT !.pc = "attempt", !.inc = t, !.opened = TRUE]
      BY <2>3
    <3>2. t \in Bodies
      BY <2>2
    <3>3. job' \in JobType
      BY <1>1, <3>1, <3>2 DEF JobType, Places, Making
    <3>4. QED
      BY <1>1, <1>2, <3>1, <3>3 DEF JobType
  <2>4. CASE \E t \in Text("round0"), s \in Scores, n \in 0..1 :
                job' = [job EXCEPT !.pc = "attempt", !.inc = t, !.opened = TRUE,
                                   !.scores = s, !.base = s, !.targets = n, !.left = n]
    <3>1. PICK t \in Text("round0"), s \in Scores, n \in 0..1 :
                job' = [job EXCEPT !.pc = "attempt", !.inc = t, !.opened = TRUE,
                                   !.scores = s, !.base = s, !.targets = n, !.left = n]
      BY <2>4
    <3> DEFINE k == [job EXCEPT !.scores = s, !.base = s, !.targets = n, !.left = n]
    <3>2. job' = [k EXCEPT !.pc = "attempt", !.inc = t, !.opened = TRUE]
      BY <3>1
    <3>3. k \in JobType
      BY <1>1 DEF JobType
    <3>4. /\ k.phase = job.phase /\ k.version = job.version /\ k.cur = job.cur
          /\ k.accepted = 0 /\ k.scores = s /\ k.base = s
      BY <1>1, <1>2 DEF JobType
    <3>5. t \in Bodies
      BY <2>2
    <3> HIDE DEF k
    <3>6. job' \in JobType
      BY <3>2, <3>3, <3>5 DEF JobType, Places, Making
    <3>7. /\ job'.pc = "attempt"
          /\ job'.phase = job.phase /\ job'.version = job.version /\ job'.cur = job.cur
          /\ job'.accepted = 0 /\ job'.scores = s /\ job'.base = s
      BY <3>2, <3>3, <3>4 DEF JobType
    <3>8. \A d \in Dims : s[d] \in Nat
      BY LimitsAssumption DEF Scores
    <3>9. QED
      BY <3>6, <3>7, <3>8
  <2>5. QED
    BY <2>1, <2>3, <2>4 DEF Round0
<1>4. TextsInHand' /\ ScoresKept'
  BY <1>2, <1>3 DEF TextsInHand, ScoresKept, Vouched
<1>5. QED
  BY <1>2, <1>3, <1>4, MakingKeeps DEF Making

LEMMA AttemptFailsKeeps ==
    ASSUME Invariant, AttemptFails
    PROVE  Invariant'
<1>1. /\ job \in JobType /\ job.pc = "attempt" /\ Working
      /\ TextsInHand /\ ScoresKept
      /\ job' = [job EXCEPT !.attempt = @ + 1, !.nogain = job.nogain + 1]
      /\ job.nogain + 1 \in Nat
  BY DEF AttemptFails, Invariant, TypeOK, JobType
<1>2. /\ job' \in JobType
      /\ job'.pc = job.pc /\ job'.phase = job.phase /\ job'.version = job.version
      /\ job'.cur = job.cur /\ job'.inc = job.inc /\ job'.accepted = job.accepted
      /\ job'.scores = job.scores /\ job'.base = job.base
  BY <1>1, RefusedType
<1>3. TextsInHand' /\ ScoresKept'
  BY <1>1, <1>2 DEF TextsInHand, ScoresKept, Vouched
<1>4. QED
  BY <1>1, <1>2, <1>3, MakingKeeps DEF Making

LEMMA CandidateKeeps ==
    ASSUME Invariant, Candidate
    PROVE  Invariant'
<1>1. /\ job \in JobType /\ job.pc = "attempt" /\ Working
      /\ TextsInHand /\ ScoresKept
      /\ job.scores \in Scores /\ job.base \in Scores /\ job.targets \in 0..1
      /\ job.nogain \in Nat /\ job.accepted \in Nat
  BY DEF Candidate, Invariant, TypeOK, JobType
<1>2. PICK t \in Text("polish"), s \in Scores, n \in 0..job.targets :
         LET waited == IF AnyGain(s, job.scores) THEN 0 ELSE job.nogain + 1
             refused == [job EXCEPT !.attempt = @ + 1, !.nogain = waited]
         IN job' = IF Monotonic(s, job.scores)
                   THEN [refused EXCEPT !.inc = t, !.scores = s, !.left = n,
                                        !.accepted = @ + 1]
                   ELSE refused
  BY DEF Candidate
<1> DEFINE waited == IF AnyGain(s, job.scores) THEN 0 ELSE job.nogain + 1
           refused == [job EXCEPT !.attempt = @ + 1, !.nogain = waited]
<1>3. waited \in Nat
  BY <1>1
<1> HIDE DEF waited
<1>4. /\ refused \in JobType
      /\ refused.pc = job.pc /\ refused.phase = job.phase /\ refused.version = job.version
      /\ refused.cur = job.cur /\ refused.inc = job.inc /\ refused.accepted = job.accepted
      /\ refused.scores = job.scores /\ refused.base = job.base
  BY <1>1, <1>3, RefusedType
<1> USE DEF waited
<1>5. /\ job' = IF Monotonic(s, job.scores)
                THEN [refused EXCEPT !.inc = t, !.scores = s, !.left = n, !.accepted = @ + 1]
                ELSE refused
      /\ t \in Bodies /\ t.by = "polish"
      /\ n \in 0..1
  BY <1>1, <1>2, BodyFacts DEF Text
<1> HIDE DEF refused
<1>6. CASE ~Monotonic(s, job.scores)
  <2>1. TextsInHand' /\ ScoresKept'
    BY <1>1, <1>4, <1>5, <1>6 DEF TextsInHand, ScoresKept, Vouched
  <2>2. QED
    BY <1>1, <1>4, <1>5, <1>6, <2>1, MakingKeeps DEF Making
<1>7. CASE Monotonic(s, job.scores)
  <2>1. /\ job' \in JobType
        /\ job'.pc = job.pc /\ job'.phase = job.phase /\ job'.version = job.version
        /\ job'.cur = job.cur /\ job'.inc = t
        /\ job'.scores = s /\ job'.base = job.base
    <3> DEFINE a == refused.accepted + 1
    <3>1. a \in Nat
      BY <1>1, <1>4
    <3>2. job' = [refused EXCEPT !.inc = t, !.scores = s, !.left = n, !.accepted = a]
      BY <1>5, <1>7
    <3> DEFINE won == [refused EXCEPT !.inc = t, !.scores = s]
    <3>3. /\ won \in JobType
          /\ won.pc = refused.pc /\ won.phase = refused.phase
          /\ won.version = refused.version /\ won.cur = refused.cur
          /\ won.inc = t /\ won.scores = s /\ won.base = refused.base
      BY <1>4, <1>5 DEF JobType
    <3>4. job' = [won EXCEPT !.left = n, !.accepted = a]
      BY <1>4, <3>2 DEF JobType
    <3> HIDE DEF a, won
    <3>5. job' \in JobType
      BY <1>5, <3>1, <3>3, <3>4 DEF JobType
    <3>6. QED
      BY <1>4, <3>3, <3>4, <3>5 DEF JobType
  <2>2. TextsInHand'
    BY <1>1, <1>5, <2>1 DEF TextsInHand, Vouched
  <2>3. ScoresKept'
    <3>1. \A d \in Dims : s[d] \in Nat /\ job.scores[d] \in Nat /\ job.base[d] \in Nat
      BY <1>1, LimitsAssumption DEF Scores
    <3>2. \A d \in Dims : s[d] >= job.scores[d] /\ job.scores[d] >= job.base[d]
      BY <1>1, <1>7 DEF Monotonic, ScoresKept
    <3>3. \A d \in Dims : s[d] >= job.base[d]
      BY <3>1, <3>2
    <3>4. QED
      BY <2>1, <3>3 DEF ScoresKept
  <2>4. QED
    BY <1>1, <2>1, <2>2, <2>3, MakingKeeps DEF Making
<1>8. QED
  BY <1>6, <1>7

LEMMA EndPolishKeeps ==
    ASSUME Invariant, EndPolish
    PROVE  Invariant'
<1> DEFINE f == Forget(job)
           text == IF job.accepted > 0 \/ (job.opened /\ job.inc.clean) THEN job.inc ELSE job.cur
<1>1. /\ job \in JobType /\ job.pc = "attempt" /\ Working
      /\ TextsInHand
      /\ job.inc \in Bodies /\ job.cur \in Bodies
      /\ job' = [f EXCEPT !.pc = "production", !.cur = text]
  BY DEF EndPolish, Invariant, TypeOK, JobType
<1>2. f \in JobType /\ f.phase = job.phase /\ f.version = job.version
  BY <1>1, ForgetType
<1>3. text \in Bodies /\ Vouched(text)
  BY <1>1, BodyFacts DEF TextsInHand, Vouched
<1> HIDE DEF f, text
<1>4. /\ job' \in JobType /\ job'.pc = "production" /\ job'.cur = text
      /\ job'.phase = job.phase /\ job'.version = job.version
  BY <1>1, <1>2, <1>3 DEF JobType, Places, Making
<1>5. TextsInHand' /\ ScoresKept'
  BY <1>3, <1>4 DEF TextsInHand, ScoresKept, Vouched
<1>6. QED
  BY <1>1, <1>4, <1>5, MakingKeeps DEF Making

\* The production loop holds its candidates apart from the text until Select.
LEMMA ProductionKeeps ==
    ASSUME Invariant, StartProduction \/ Opening \/ Score
    PROVE  Invariant'
<1>1. /\ job \in JobType /\ job.pc \in {"production", "opening", "score"} /\ Working
      /\ TextsInHand
      /\ job.inc \in Bodies /\ job.cur \in Bodies /\ job.best \in Bodies
      /\ job.iter \in Nat /\ job.key \in Nat
  BY DEF StartProduction, Opening, Score, Invariant, TypeOK, JobType
<1>2. Text("loop") \cup {job.inc} \subseteq Bodies
  BY <1>1, BodyFacts
<1>3. /\ job' \in JobType
      /\ job'.pc \in {"text", "opening", "score", "select"}
      /\ job'.phase = job.phase /\ job'.version = job.version /\ job'.cur = job.cur
  <2>1. CASE StartProduction
    <3>1. CASE job' = [job EXCEPT !.pc = "text"]
      BY <1>1, <3>1 DEF JobType, Places, Writing
    <3>2. CASE job' # [job EXCEPT !.pc = "text"]
      <4>1. PICK pc \in {"opening", "score"} : job' = [job EXCEPT !.inc = job.cur, !.pc = pc]
        BY <2>1, <3>2 DEF StartProduction
      <4>2. pc \in Places
        BY <4>1 DEF Places, Making
      <4>3. QED
        BY <1>1, <4>1, <4>2 DEF JobType
    <3>3. QED
      BY <3>1, <3>2
  <2>2. CASE Opening
    <3>1. PICK t \in Bodies : job' = [job EXCEPT !.pc = "score", !.inc = t]
      BY <1>2, <2>2 DEF Opening
    <3>2. QED
      BY <1>1, <3>1 DEF JobType, Places, Making
  <2>3. ASSUME NEW k \in 0..Top
        PROVE  /\ Scored(job, k) \in JobType
               /\ Scored(job, k).pc = job.pc /\ Scored(job, k).phase = job.phase
               /\ Scored(job, k).version = job.version /\ Scored(job, k).cur = job.cur
    <3>1. k \in Nat
      BY LimitsAssumption
    <3> DEFINE best == IF job.best = Nothing \/ k > job.key THEN job.inc ELSE job.best
               key == IF job.best = Nothing \/ k > job.key THEN k ELSE job.key
    <3>2. best \in Bodies /\ key \in Nat
      BY <1>1, <3>1
    <3>3. Scored(job, k) = [job EXCEPT !.iter = @ + 1, !.best = best, !.key = key]
      BY DEF Scored
    <3> DEFINE iter == job.iter + 1
    <3>4. Scored(job, k) = [job EXCEPT !.iter = iter, !.best = best, !.key = key] /\ iter \in Nat
      BY <1>1, <3>3
    <3> HIDE DEF best, key, iter
    <3>5. Scored(job, k) \in JobType
      BY <1>1, <3>2, <3>4 DEF JobType
    <3>6. QED
      BY <1>1, <3>4, <3>5 DEF JobType
  <2>4. CASE Score
    <3>1. CASE job' = [job EXCEPT !.pc = "select"]
      BY <1>1, <3>1 DEF JobType, Places, Making
    <3>2. CASE \E k \in 0..Top : job' = [Scored(job, k) EXCEPT !.pc = "select"]
      <4>1. PICK k \in 0..Top : job' = [Scored(job, k) EXCEPT !.pc = "select"]
        BY <3>2
      <4>2. QED
        BY <2>3, <4>1 DEF JobType, Places, Making
    <3>3. CASE \E k \in 0..Top : \E t \in Text("loop") \cup {job.inc} :
                  job' = [Scored(job, k) EXCEPT !.inc = t]
      <4>1. PICK k \in 0..Top, t \in Bodies : job' = [Scored(job, k) EXCEPT !.inc = t]
        BY <1>2, <3>3
      <4>2. job.pc = "score"
        BY <2>4 DEF Score
      <4>3. QED
        BY <2>3, <4>1, <4>2 DEF JobType
    <3>4. QED
      BY <2>4, <3>1, <3>2, <3>3 DEF Score
  <2>5. QED
    BY <2>1, <2>2, <2>4
<1>4. TextsInHand' /\ ScoresKept'
  BY <1>1, <1>3 DEF TextsInHand, ScoresKept, Vouched
<1>5. QED
  BY <1>1, <1>3, <1>4, MakingKeeps DEF Making

LEMMA SelectKeeps ==
    ASSUME Invariant, Select
    PROVE  Invariant'
<1> DEFINE f == Forget(job)
           replaced == job.best \notin {Nothing, job.cur} /\ job.best.clean
           text == IF replaced THEN job.best ELSE job.cur
<1>1. /\ job \in JobType /\ job.pc \in {"select", "score"} /\ Working
      /\ TextsInHand
      /\ job.best \in Bodies /\ job.cur \in Bodies
  BY DEF Select, Invariant, TypeOK, JobType
<1>2. f \in JobType /\ f.phase = job.phase /\ f.version = job.version /\ f.cur = job.cur
  BY <1>1, ForgetType
<1>3. job' = [f EXCEPT !.pc = "text", !.cur = text]
  BY <1>2 DEF Select
<1>4. text \in Bodies /\ Vouched(text)
  BY <1>1, BodyFacts DEF TextsInHand
<1> HIDE DEF f, text
<1>5. /\ job' \in JobType /\ job'.pc = "text" /\ job'.cur = text
      /\ job'.phase = job.phase /\ job'.version = job.version
  BY <1>2, <1>3, <1>4 DEF JobType, Places, Writing
<1>6. TextsInHand' /\ ScoresKept'
  BY <1>4, <1>5 DEF TextsInHand, ScoresKept, Vouched
<1>7. QED
  BY <1>1, <1>5, <1>6, MakingKeeps DEF Making
-----------------------------------------------------------------------------
(* The other steps, by what they do to the directories.                     *)

\* While a job is under way its phase tells the state of the run.
LEMMA StateOfPhase ==
    ASSUME Invariant, job.pc # "idle"
    PROVE  /\ state \in Running
           /\ job.phase = "final_rewrite" => state = "REWRITE_RUNNING"
           /\ job.phase = "critic" => state = "CRITIC_RUNNING"
           /\ job.phase = "integrity" => state = "INTEGRITY_RUNNING"
           /\ job.phase = "exports" => state = "EXPORTS_RUNNING"
           /\ job.phase \in Phases
BY DEF Invariant, JobIsOfState, Running, Phases

LEMMA HandsOff ==
    ASSUME job'.pc \notin {"round0", "attempt"}, Vouched(job'.cur)
    PROVE  TextsInHand' /\ ScoresKept'
BY DEF TextsInHand, ScoresKept, Vouched

\* What the next job, or the rest of a finished one, is.
LEMMA JobAt ==
    ASSUME NEW k, NEW phase \in Phases, NEW pc \in Places,
           k = [Idle EXCEPT !.phase = phase, !.pc = pc]
    PROVE  k \in JobType /\ k.phase = phase /\ k.pc = pc /\ Vouched(k.cur)
<1> DEFINE i == Idle
<1>1. i \in JobType /\ i.cur = Nothing
  BY IdleType
<1> HIDE DEF i
<1>2. k = [i EXCEPT !.phase = phase, !.pc = pc]
  BY DEF i
<1>3. k \in JobType
  BY <1>1, <1>2 DEF JobType
<1>4. k.phase = phase /\ k.pc = pc /\ k.cur = Nothing
  BY <1>1, <1>2 DEF JobType
<1>5. QED
  BY <1>3, <1>4, BodyFacts

LEMMA JobOver ==
    ASSUME NEW phase \in Phases, NEW k, k = [Idle EXCEPT !.phase = phase]
    PROVE  k \in JobType /\ k.phase = phase /\ k.pc = "idle" /\ Vouched(k.cur)
<1> DEFINE i == Idle
<1>1. i \in JobType /\ i.cur = Nothing /\ i.pc = "idle"
  BY IdleType
<1> HIDE DEF i
<1>2. k = [i EXCEPT !.phase = phase]
  BY DEF i
<1>3. k \in JobType
  BY <1>1, <1>2 DEF JobType
<1>4. k.phase = phase /\ k.pc = "idle" /\ k.cur = Nothing
  BY <1>1, <1>2 DEF JobType
<1>5. QED
  BY <1>3, <1>4, BodyFacts

LEMMA JobWith ==
    ASSUME NEW j \in JobType, Vouched(j.cur), NEW n \in Nat, NEW depth \in 0..1,
           NEW k, \/ k = [j EXCEPT !.version = n]
                  \/ k = [j EXCEPT !.attempt = n]
                  \/ k = [j EXCEPT !.depth = depth]
    PROVE  /\ k \in JobType /\ k.phase = j.phase /\ k.pc = j.pc /\ Vouched(k.cur)
           /\ k = [j EXCEPT !.version = n] => k.version = n
<1>1. k \in JobType
  BY DEF JobType
<1>2. k.phase = j.phase /\ k.pc = j.pc /\ k.cur = j.cur
  BY DEF JobType
<1>3. k = [j EXCEPT !.version = n] => k.version = n
  BY DEF JobType
<1>4. QED
  BY <1>1, <1>2, <1>3

\* A step that leaves the directories alone.
LEMMA FilesStay ==
    ASSUME Invariant, UNCHANGED <<rewrite, exported, mode, draft>>, deaths' \in Nat,
           state' \in States, state' # "EXPORTS_DONE",
           job' \in JobType, job'.pc \notin Making \cup Writing, Vouched(job'.cur),
           review' \in ReviewType, scanned' \in Seq(Nat),
           JobIsOfState', ReviewIsOfNewest', GateIsOpen'
    PROVE  Invariant'
<1>1. TypeOK'
  BY DEF Invariant, TypeOK
<1>2. JobHasDirectory' /\ TextsInHand' /\ ScoresKept'
  BY HandsOff DEF JobHasDirectory, Making
<1>3. OnlyVouchedTexts'
  BY DEF Invariant, OnlyVouchedTexts
<1>4. ExportsAreSourced'
  BY DEF ExportsAreSourced
<1>5. QED
  BY <1>1, <1>2, <1>3, <1>4 DEF Invariant

\* A step that opens a new directory for the text in hand.
LEMMA DirectoryOpens ==
    ASSUME Invariant, rewrite' = Append(rewrite, NewDir),
           UNCHANGED <<scanned, exported, mode, draft, deaths>>,
           state' \in {"REWRITE_RUNNING", "CRITIC_RUNNING", "EXPORTS_RUNNING"},
           job' \in JobType, job'.pc \in {"rewrite", "text"}, Vouched(job'.cur),
           job'.version = Len(rewrite) + 1,
           review' \in ReviewType,
           JobIsOfState'
    PROVE  Invariant'
<1>1. NewDir \in Version
  BY BodyFacts DEF NewDir, Version, Claims, Bodies
<1>2. /\ rewrite' \in Seq(Version)
      /\ DOMAIN rewrite' = 1..(Len(rewrite) + 1)
      /\ \A i \in DOMAIN rewrite : rewrite'[i] = rewrite[i]
      /\ rewrite'[Len(rewrite) + 1] = NewDir
      /\ DOMAIN rewrite = 1..Len(rewrite) /\ Len(rewrite) \in Nat
  BY <1>1 DEF Invariant, TypeOK
<1>3. TypeOK'
  BY <1>2 DEF Invariant, TypeOK, States
<1>4. JobHasDirectory' /\ TextsInHand' /\ ScoresKept'
  BY <1>2, HandsOff DEF JobHasDirectory
<1>5. OnlyVouchedTexts'
  <2>1. NewDir.text.by \notin {"rewrite", "round0", "loop"}
    BY DEF NewDir, Nothing
  <2>2. QED
    BY <1>2, <2>1 DEF Invariant, OnlyVouchedTexts
<1>6. ReviewIsOfNewest' /\ GateIsOpen' /\ ExportsAreSourced'
  BY DEF ReviewIsOfNewest, Deciding, GateIsOpen, ExportsAreSourced
<1>7. QED
  BY <1>3, <1>4, <1>5, <1>6 DEF Invariant

\* A step that writes a file of the job's directory.
LEMMA DirectoryFills ==
    ASSUME Invariant, job.pc \in Writing,
           NEW d \in Version, rewrite' = [rewrite EXCEPT ![job.version] = d], Vouched(d.text),
           UNCHANGED <<state, review, scanned, exported, mode, draft, deaths>>,
           NEW pc \in {"claims", "audit", "done"}, job' = [job EXCEPT !.pc = pc]
    PROVE  Invariant'
<1>1. /\ job \in JobType /\ job.version \in DOMAIN rewrite
      /\ job.phase \in {"final_rewrite", "critic", "exports"}
      /\ Vouched(job.cur)
      /\ rewrite \in Seq(Version)
  BY DEF Invariant, TypeOK, JobHasDirectory, JobIsOfState, TextsInHand
<1>2. /\ job' \in JobType /\ job'.pc = pc /\ pc \in Writing
      /\ job'.phase = job.phase /\ job'.version = job.version /\ job'.cur = job.cur
  BY <1>1 DEF JobType, Places, Writing
<1>3. /\ rewrite' \in Seq(Version)
      /\ DOMAIN rewrite' = DOMAIN rewrite
      /\ \A i \in DOMAIN rewrite : rewrite'[i] = IF i = job.version THEN d ELSE rewrite[i]
  BY <1>1, ExceptSeq
<1>4. TypeOK'
  BY <1>2, <1>3 DEF Invariant, TypeOK
<1>5. state \in {"REWRITE_RUNNING", "CRITIC_RUNNING", "EXPORTS_RUNNING"}
  BY <1>1, StateOfPhase DEF Writing
<1>6. JobIsOfState' /\ JobHasDirectory'
  BY <1>1, <1>2, <1>3, <1>5 DEF Invariant, JobIsOfState, JobHasDirectory, Writing, Making
<1>7. TextsInHand' /\ ScoresKept'
  BY <1>1, <1>2, HandsOff DEF Writing
<1>8. OnlyVouchedTexts'
  BY <1>3 DEF Invariant, OnlyVouchedTexts, Vouched
<1>9. ReviewIsOfNewest' /\ GateIsOpen' /\ ExportsAreSourced'
  BY <1>2, <1>5 DEF ReviewIsOfNewest, Deciding, GateIsOpen, ExportsAreSourced
<1>10. QED
  BY <1>4, <1>6, <1>7, <1>8, <1>9 DEF Invariant
-----------------------------------------------------------------------------
(* The final rewrite begins, and writes its files.                          *)

LEMMA BeginRewriteKeeps ==
    ASSUME Invariant, BeginRewrite
    PROVE  Invariant'
<1>1. /\ state = "USER_REVISION_REVIEW" /\ job.pc = "idle"
      /\ UNCHANGED <<review, scanned, exported, mode, draft, deaths>>
      /\ TypeOK
      /\ "final_rewrite" \in Phases
  BY DEF BeginRewrite, papers, Settled, Invariant, Phases
<1>2. CASE /\ state' = "FAILED_FIXABLE"
           /\ job' = [Idle EXCEPT !.phase = "final_rewrite"]
           /\ UNCHANGED rewrite
  <2>1. job' \in JobType /\ job'.phase = "final_rewrite" /\ job'.pc = "idle" /\ Vouched(job'.cur)
    BY <1>1, <1>2, JobOver
  <2>2. JobIsOfState' /\ ReviewIsOfNewest' /\ GateIsOpen'
    BY <1>2, <2>1 DEF JobIsOfState, ReviewIsOfNewest, Deciding, GateIsOpen, Making, Writing
  <2>3. state' \in States /\ state' # "EXPORTS_DONE" /\ job'.pc \notin Making \cup Writing
    BY <1>2, <2>1 DEF States, Making, Writing
  <2>4. QED
    BY <1>1, <1>2, <2>1, <2>2, <2>3, FilesStay DEF TypeOK
<1>3. CASE /\ state' = "REWRITE_RUNNING"
           /\ rewrite' = Append(rewrite, NewDir)
           /\ job' = [Idle EXCEPT !.phase = "final_rewrite", !.cur = Original,
                          !.claims = draft, !.version = Len(rewrite) + 1,
                          !.pc = IF mode.stub THEN "text" ELSE "rewrite"]
  <2> DEFINE pc1 == IF mode.stub THEN "text" ELSE "rewrite"
             k == [Idle EXCEPT !.phase = "final_rewrite", !.pc = pc1]
             n == Len(rewrite) + 1
  <2>1. pc1 \in {"text", "rewrite"} /\ pc1 \in Places /\ n \in Nat /\ draft \in Claims
    BY <1>1 DEF Places, Making, Writing, TypeOK, Claims
  <2>2. k \in JobType /\ k.phase = "final_rewrite" /\ k.pc = pc1
    <3> HIDE DEF k, pc1
    <3>1. k = [Idle EXCEPT !.phase = "final_rewrite", !.pc = pc1]
      BY DEF k
    <3>2. QED
      BY <1>1, <2>1, <3>1, JobAt
  <2>3. job' = [k EXCEPT !.cur = Original, !.claims = draft, !.version = n]
    BY <1>3
  <2> HIDE DEF k, pc1, n
  <2>4. job' \in JobType
    BY <2>1, <2>2, <2>3, BodyFacts DEF JobType
  <2>5. job'.phase = "final_rewrite" /\ job'.pc = pc1 /\ job'.cur = Original /\ job'.version = n
    BY <2>2, <2>3 DEF JobType
  <2>6. JobIsOfState'
    BY <1>3, <2>1, <2>5 DEF JobIsOfState, Running, Making, Writing
  <2>7. Vouched(job'.cur)
    BY <2>5, BodyFacts
  <2>8. review' \in ReviewType /\ job'.version = Len(rewrite) + 1 /\ job'.pc \in {"rewrite", "text"}
    BY <1>1, <2>1, <2>5 DEF TypeOK, n
  <2>9. QED
    BY <1>1, <1>3, <2>4, <2>6, <2>7, <2>8, DirectoryOpens
<1>4. QED
  BY <1>2, <1>3 DEF BeginRewrite

LEMMA WritingKeeps ==
    ASSUME Invariant, WriteText \/ WriteClaims \/ WriteAudit
    PROVE  Invariant'
<1>1. /\ job.pc \in Writing
      /\ UNCHANGED <<state, review, scanned, exported, mode, draft, deaths>>
  BY DEF WriteText, WriteClaims, WriteAudit, papers, Settled, Writing
<1>2. /\ job \in JobType /\ job.version \in DOMAIN rewrite /\ Vouched(job.cur)
      /\ OnlyVouchedTexts
  BY <1>1 DEF Invariant, TypeOK, JobHasDirectory, TextsInHand
<1> DEFINE old == rewrite[job.version]
<1>3. old \in Version /\ Vouched(old.text)
  BY <1>2, ElementOfSeq DEF Invariant, TypeOK, OnlyVouchedTexts, Vouched
<1>4. /\ job.cur \in Texts \cup {Nothing} /\ job.claims \in Claims
      /\ job.audit \in {"missing", "plain", "fallback"}
  BY <1>2 DEF JobType, Bodies
<1> HIDE DEF old
<1>5. CASE WriteText
  <2>1. /\ rewrite' = [rewrite EXCEPT ![job.version] = [old EXCEPT !.text = job.cur]]
        /\ job' = [job EXCEPT !.pc = "claims"]
    BY <1>5 DEF WriteText, old
  <2>2. [old EXCEPT !.text = job.cur] \in Version /\ [old EXCEPT !.text = job.cur].text = job.cur
    BY <1>3, <1>4 DEF Version
  <2>3. QED
    BY <1>1, <1>2, <2>1, <2>2, DirectoryFills
<1>6. CASE WriteClaims
  <2>1. /\ rewrite' = [rewrite EXCEPT ![job.version] = [old EXCEPT !.claims = job.claims]]
        /\ job' = [job EXCEPT !.pc = "audit"]
    BY <1>6 DEF WriteClaims, old
  <2>2. [old EXCEPT !.claims = job.claims] \in Version
        /\ [old EXCEPT !.claims = job.claims].text = old.text
    BY <1>3, <1>4 DEF Version
  <2>3. QED
    BY <1>1, <1>3, <2>1, <2>2, DirectoryFills
<1>7. CASE WriteAudit
  <2>1. /\ rewrite' = [rewrite EXCEPT ![job.version] = [old EXCEPT !.audit = job.audit]]
        /\ job' = [job EXCEPT !.pc = "done"]
    BY <1>7 DEF WriteAudit, old
  <2>2. [old EXCEPT !.audit = job.audit] \in Version
        /\ [old EXCEPT !.audit = job.audit].text = old.text
    BY <1>3, <1>4 DEF Version
  <2>3. QED
    BY <1>1, <1>3, <2>1, <2>2, DirectoryFills
<1>8. QED
  BY <1>5, <1>6, <1>7

LEMMA WrittenKeeps ==
    ASSUME Invariant, Written
    PROVE  Invariant'
<1>1. /\ job.pc = "done" /\ job \in JobType
      /\ UNCHANGED <<rewrite, scanned, exported, mode, draft, deaths>>
      /\ TypeOK
  BY DEF Written, Settled, Invariant, TypeOK
<1>2. CASE job.phase \in {"final_rewrite", "critic"}
  <2> DEFINE k == [Idle EXCEPT !.phase = "critic", !.pc = "critic"]
             n == IF job.phase = "critic" THEN 1 ELSE 0
  <2>1. /\ state' = "CRITIC_RUNNING" /\ UNCHANGED review
        /\ job' = [k EXCEPT !.depth = n]
    BY <1>2 DEF Written
  <2>2. k \in JobType /\ k.phase = "critic" /\ k.pc = "critic" /\ Vouched(k.cur)
    <3>1. "critic" \in Phases /\ "critic" \in Places
      BY DEF Phases, Places
    <3> HIDE DEF k
    <3>2. k = [Idle EXCEPT !.phase = "critic", !.pc = "critic"]
      BY DEF k
    <3>3. QED
      BY <3>1, <3>2, JobAt
  <2>3. n \in 0..1 /\ 0 \in Nat
    OBVIOUS
  <2> HIDE DEF k, n
  <2>4. job' \in JobType /\ job'.phase = "critic" /\ job'.pc = "critic" /\ Vouched(job'.cur)
    BY <2>1, <2>2, <2>3, JobWith
  <2>5. JobIsOfState' /\ ReviewIsOfNewest' /\ GateIsOpen'
    BY <2>1, <2>4 DEF JobIsOfState, ReviewIsOfNewest, Deciding, GateIsOpen, Running, Making, Writing
  <2>6. state' \in States /\ state' # "EXPORTS_DONE" /\ job'.pc \notin Making \cup Writing
    BY <2>1, <2>4 DEF States, Making, Writing
  <2>7. QED
    BY <1>1, <2>1, <2>4, <2>5, <2>6, FilesStay DEF TypeOK
<1>3. CASE job.phase = "exports"
  <2> DEFINE k == [Idle EXCEPT !.phase = "exports", !.pc = "gate"]
             n == job.attempt
  <2>1. /\ review' = [review EXCEPT !.open = FALSE] /\ UNCHANGED state
        /\ job' = [k EXCEPT !.attempt = n]
    BY <1>3 DEF Written
  <2>2. k \in JobType /\ k.phase = "exports" /\ k.pc = "gate" /\ Vouched(k.cur)
    <3>1. "exports" \in Phases /\ "gate" \in Places
      BY DEF Phases, Places
    <3> HIDE DEF k
    <3>2. k = [Idle EXCEPT !.phase = "exports", !.pc = "gate"]
      BY DEF k
    <3>3. QED
      BY <3>1, <3>2, JobAt
  <2>3. n \in Nat /\ 0 \in 0..1
    BY <1>1 DEF JobType
  <2> HIDE DEF k, n
  <2>4. job' \in JobType /\ job'.phase = "exports" /\ job'.pc = "gate" /\ Vouched(job'.cur)
    BY <2>1, <2>2, <2>3, JobWith
  <2>5. state' = "EXPORTS_RUNNING"
    BY <1>1, <1>3, <2>1, StateOfPhase
  <2>6. JobIsOfState' /\ ReviewIsOfNewest' /\ GateIsOpen'
    BY <2>4, <2>5 DEF JobIsOfState, ReviewIsOfNewest, Deciding, GateIsOpen, Running, Making, Writing
  <2>7. state' \in States /\ state' # "EXPORTS_DONE" /\ job'.pc \notin Making \cup Writing
    BY <2>4, <2>5 DEF States, Making, Writing
  <2>8. review' \in ReviewType
    BY <1>1, <2>1 DEF TypeOK, ReviewType
  <2>9. QED
    BY <1>1, <2>4, <2>6, <2>7, <2>8, FilesStay DEF TypeOK
<1>4. QED
  BY <1>2, <1>3 DEF Written
-----------------------------------------------------------------------------
(* Critic.                                                                  *)

LEMMA CriticKeeps ==
    ASSUME Invariant, BeginCritic \/ ReadManuscript \/ CriticFails
    PROVE  Invariant'
<1>1. /\ UNCHANGED <<rewrite, review, scanned, exported, mode, draft, deaths>>
      /\ TypeOK /\ job \in JobType /\ Vouched(job.cur)
  BY DEF BeginCritic, ReadManuscript, CriticFails, Working, papers, Settled, Invariant, TypeOK, TextsInHand
<1>2. Latest' = Latest /\ Latest \in Nat
  BY <1>1, SameFiles, LatestIs
<1>3. /\ job' \in JobType /\ Vouched(job'.cur) /\ job'.phase = "critic"
      /\ \/ state' = "CRITIC_RUNNING" /\ job'.pc = "critic"
         \/ state' = "CRITIC_RUNNING" /\ job'.pc = "review" /\ job'.version = Latest
         \/ state' = "FAILED_FIXABLE" /\ job'.pc = "idle"
  <2>1. CASE BeginCritic
    <3>1. job' = [Idle EXCEPT !.phase = "critic", !.pc = "critic"] /\ state' = "CRITIC_RUNNING"
      BY <2>1 DEF BeginCritic
    <3>2. "critic" \in Phases /\ "critic" \in Places
      BY DEF Phases, Places
    <3>3. QED
      BY <3>1, <3>2, JobAt
  <2>2. CASE ReadManuscript
    <3> DEFINE k == [job EXCEPT !.pc = "review"]
               n == Latest
    <3>1. k \in JobType /\ k.pc = "review" /\ k.phase = job.phase /\ k.cur = job.cur
      BY <1>1 DEF JobType, Places
    <3>2. job' = [k EXCEPT !.version = n] /\ job.pc = "critic"
      BY <2>2 DEF ReadManuscript
    <3>3. n \in Nat /\ 0 \in 0..1 /\ Vouched(k.cur)
      BY <1>1, <1>2, <3>1
    <3> HIDE DEF k, n
    <3>4. job' \in JobType /\ job'.pc = "review" /\ job'.phase = job.phase /\ Vouched(job'.cur)
          /\ job'.version = n
      BY <3>1, <3>2, <3>3, JobWith
    <3>5. UNCHANGED state /\ job.phase = "critic" /\ state = "CRITIC_RUNNING"
      BY <2>2, <3>2, StateOfPhase DEF ReadManuscript, Working, Invariant, JobIsOfState
    <3>6. QED
      BY <3>4, <3>5 DEF n
  <2>3. CASE CriticFails
    <3>1. job.phase = "critic" /\ state' = "FAILED_FIXABLE" /\ job' = [Idle EXCEPT !.phase = job.phase]
      BY <2>3 DEF CriticFails, Invariant, JobIsOfState
    <3>2. QED
      BY <3>1, JobOver DEF Phases
  <2>4. QED
    BY <2>1, <2>2, <2>3
<1>4. JobIsOfState' /\ ReviewIsOfNewest' /\ GateIsOpen'
  BY <1>2, <1>3 DEF JobIsOfState, ReviewIsOfNewest, Deciding, GateIsOpen, Running, Making, Writing
<1>5. state' \in States /\ state' # "EXPORTS_DONE" /\ job'.pc \notin Making \cup Writing
  BY <1>3 DEF States, Making, Writing
<1>6. QED
  BY <1>1, <1>3, <1>4, <1>5, FilesStay DEF TypeOK

LEMMA ReviewedKeeps ==
    ASSUME Invariant, Reviewed
    PROVE  Invariant'
<1>1. /\ job.pc = "review" /\ job \in JobType /\ job.version = Latest
      /\ job.phase = "critic" /\ state = "CRITIC_RUNNING"
      /\ UNCHANGED <<scanned, exported, mode, draft, deaths>>
      /\ TypeOK
  BY StateOfPhase DEF Reviewed, Settled, Invariant, TypeOK, ReviewIsOfNewest, JobIsOfState
<1>2. PICK open \in BOOLEAN, revert \in BOOLEAN :
        /\ review' = [version |-> Latest, text |-> TextOf(Latest), claims |-> ClaimsOf(Latest),
                      open |-> open, waived |-> FALSE, forced |-> FALSE]
        /\ IF revert THEN Revert /\ UNCHANGED state
           ELSE /\ state' = "USER_EXTERNAL_SCAN_APPROVAL"
                /\ job' = Idle
                /\ UNCHANGED rewrite
  <2>1. PICK objects \in BOOLEAN :
       LET v == job.version
           open == objects \/ AuditBlocks(v)
           revert == /\ v # 0 /\ open
                     /\ job.depth = 0
                     /\ mode.holistic
                     /\ rewrite[v].audit # "fallback"
       IN /\ review' = [version |-> v, text |-> TextOf(v), claims |-> ClaimsOf(v),
                        open |-> open, waived |-> FALSE, forced |-> FALSE]
          /\ IF revert
             THEN Revert /\ UNCHANGED state
             ELSE /\ state' = "USER_EXTERNAL_SCAN_APPROVAL"
                  /\ job' = Idle
                  /\ UNCHANGED rewrite
    BY DEF Reviewed
  <2> DEFINE open == objects \/ AuditBlocks(job.version)
             revert == /\ job.version # 0 /\ open
                       /\ job.depth = 0
                       /\ mode.holistic
                       /\ rewrite[job.version].audit # "fallback"
  <2>2. open \in BOOLEAN /\ revert \in BOOLEAN
    BY DEF AuditBlocks
  <2>3. QED
    BY <1>1, <2>1, <2>2
<1>3. review' \in ReviewType
  BY <1>1, <1>2, LatestIs DEF ReviewType
<1>4. CASE revert
  <2> DEFINE k == [job EXCEPT !.pc = "text", !.version = Len(rewrite) + 1]
  <2>1. /\ rewrite' = Append(rewrite, NewDir)
        /\ job' = [k EXCEPT !.cur = Original, !.claims = draft, !.audit = "fallback"]
        /\ UNCHANGED state
    BY <1>2, <1>4 DEF Revert
  <2>2. Len(rewrite) + 1 \in Nat /\ draft \in Claims
    BY <1>1 DEF TypeOK, Claims
  <2>3. k \in JobType
    <3> DEFINE n == Len(rewrite) + 1
    <3> HIDE DEF n
    <3>1. [job EXCEPT !.pc = "text", !.version = n] \in JobType
      BY <1>1, <2>2 DEF JobType, Places, Writing, n
    <3>2. QED
      BY <3>1 DEF n
  <2>4. k.phase = "critic" /\ k.pc = "text" /\ k.version = Len(rewrite) + 1
    BY <1>1 DEF JobType
  <2> HIDE DEF k
  <2>5. job' \in JobType
    BY <2>1, <2>2, <2>3, BodyFacts DEF JobType
  <2>6. job'.phase = "critic" /\ job'.pc = "text" /\ job'.version = Len(rewrite) + 1
        /\ job'.cur = Original
    BY <2>1, <2>3, <2>4 DEF JobType
  <2>7. JobIsOfState'
    BY <1>1, <2>1, <2>6 DEF JobIsOfState, Running, Making, Writing
  <2>8. QED
    BY <1>1, <1>3, <2>1, <2>5, <2>6, <2>7, DirectoryOpens, BodyFacts
<1>5. CASE ~revert
  <2>1. state' = "USER_EXTERNAL_SCAN_APPROVAL" /\ job' = Idle /\ UNCHANGED rewrite
    BY <1>2, <1>5
  <2>2. job' \in JobType /\ job'.pc = "idle" /\ Vouched(job'.cur)
    BY <2>1, IdleType, BodyFacts
  <2>3. Latest' = Latest /\ TextOf(Latest)' = TextOf(Latest)
    BY <1>1, <2>1, SameFiles
  <2>4. review'.version = Latest /\ review'.text = TextOf(Latest)
    BY <1>2
  <2>5. JobIsOfState' /\ ReviewIsOfNewest' /\ GateIsOpen'
    BY <2>1, <2>2, <2>3, <2>4 DEF JobIsOfState, ReviewIsOfNewest, Deciding, GateIsOpen, Making, Writing
  <2>6. state' \in States /\ state' # "EXPORTS_DONE" /\ job'.pc \notin Making \cup Writing
    BY <2>1, <2>2 DEF States, Making, Writing
  <2>7. QED
    BY <1>1, <1>3, <2>1, <2>2, <2>5, <2>6, FilesStay DEF TypeOK
<1>6. QED
  BY <1>4, <1>5
-----------------------------------------------------------------------------
(* Scan, acceptance, exports, recovery.                                     *)

\* States that take a job's work to reach.
NotByMoving == {"EXPORTS_DONE", "USER_INTEGRITY_REVIEW", "FAILED_POLICY"}

\* The user moves on, or the reaper fails the run: nobody is at work.
LEMMA UserMoves ==
    ASSUME Invariant, job.pc = "idle", UNCHANGED <<rewrite, scanned, exported, mode, draft, deaths>>,
           job' = job \/ job' = Idle,
           state' \in States \ (Running \cup NotByMoving),
           job' = Idle => state' # "FAILED_FIXABLE",
           job.phase = "none" => state' # "FAILED_FIXABLE",
           review' \in ReviewType,
           review'.version = review.version, review'.text = review.text,
           Deciding' => Deciding \/ review'.forced, review.forced => review'.forced
    PROVE  Invariant'
<1>1. job' \in JobType /\ job'.pc = "idle" /\ Vouched(job'.cur)
  BY IdleType, BodyFacts DEF Invariant, TypeOK, TextsInHand
<1>2. Latest' = Latest /\ TextOf(Latest)' = TextOf(Latest)
  BY SameFiles
<1>3. JobIsOfState'
  BY <1>1, IdleType DEF JobIsOfState, Running, Making, Writing, NotByMoving
<1>4. ReviewIsOfNewest' /\ GateIsOpen'
  BY <1>1, <1>2 DEF Invariant, ReviewIsOfNewest, GateIsOpen, NotByMoving
<1>5. state' \in States /\ state' # "EXPORTS_DONE" /\ job'.pc \notin Making \cup Writing
  BY <1>1 DEF Making, Writing, NotByMoving
<1>6. QED
  BY <1>1, <1>3, <1>4, <1>5, FilesStay DEF Invariant, TypeOK

\* In a state of the user nobody is at work.
LEMMA NobodyAtWork ==
    ASSUME Invariant, state \notin Running
    PROVE  job.pc = "idle" /\ job \in JobType /\ review \in ReviewType
BY DEF Invariant, TypeOK, JobIsOfState

LEMMA UserKeeps ==
    ASSUME Invariant, SkipScan \/ Accept \/ Recover \/ Reap
    PROVE  Invariant'
<1>1. /\ UNCHANGED <<rewrite, review, scanned, exported, mode, draft, deaths>>
      /\ review \in ReviewType
  BY DEF SkipScan, Accept, Recover, Reap, papers, Settled, Invariant, TypeOK
<1>2. CASE SkipScan \/ Accept
  <2>1. state' = "USER_FINAL_ACCEPTANCE" /\ job' = job /\ state \notin Running
    BY <1>2 DEF SkipScan, Accept, Running
  <2>2. ~Deciding' /\ state' \in States \ (Running \cup NotByMoving)
    BY <2>1 DEF Deciding, States, Running, NotByMoving
  <2>3. QED
    BY <1>1, <2>1, <2>2, NobodyAtWork, UserMoves
<1>3. CASE Recover
  <2>1. /\ state \in {"FAILED_FIXABLE", "FAILED_POLICY"} /\ job' = Idle
        /\ state' = CASE job.phase \in {"final_rewrite", "critic"} -> "USER_REVISION_REVIEW"
                      [] job.phase = "integrity" -> "USER_EXTERNAL_SCAN_APPROVAL"
                      [] job.phase = "exports" -> "USER_FINAL_ACCEPTANCE"
    BY <1>3 DEF Recover
  <2>2. state \notin Running /\ job.phase \in Phases
    BY <2>1 DEF Running, Invariant, JobIsOfState, TypeOK, JobType
  <2>3. \/ state' \in {"USER_REVISION_REVIEW", "USER_FINAL_ACCEPTANCE"}
        \/ state' = "USER_EXTERNAL_SCAN_APPROVAL" /\ job.phase = "integrity"
    BY <2>1, <2>2 DEF Phases
  <2>4. state = "FAILED_POLICY" => job.phase # "integrity"
    BY DEF Invariant, JobIsOfState
  <2>5. Deciding' => Deciding
    BY <2>1, <2>3, <2>4 DEF Deciding
  <2>6. state' \in States \ (Running \cup NotByMoving)
        /\ state' # "FAILED_FIXABLE"
    BY <2>3 DEF States, Running, NotByMoving
  <2>7. QED
    BY <1>1, <2>1, <2>2, <2>5, <2>6, NobodyAtWork, UserMoves
<1>4. CASE Reap
  <2>1. state \in Running /\ job.pc = "idle" /\ state' = "FAILED_FIXABLE" /\ job' = job
    BY <1>4 DEF Reap
  <2>2. job.phase # "none" /\ (job.phase = "integrity" => state = "INTEGRITY_RUNNING")
    BY <2>1 DEF Invariant, JobIsOfState, Running
  <2>3. Deciding' => Deciding
    BY <2>1, <2>2 DEF Deciding
  <2>4. state' \in States \ (Running \cup NotByMoving)
    BY <2>1 DEF States, Running, NotByMoving
  <2>5. job' # Idle
    BY <2>1, <2>2, IdleType
  <2>6. QED
    BY <1>1, <2>1, <2>2, <2>3, <2>4, <2>5, UserMoves
<1>5. QED
  BY <1>2, <1>3, <1>4

LEMMA ForceApproveKeeps ==
    ASSUME Invariant, ForceApprove
    PROVE  Invariant'
<1>1. /\ UNCHANGED <<rewrite, scanned, exported, mode, draft, deaths>> /\ job' = job
      /\ state \notin Running
      /\ state' \in {"USER_FINAL_ACCEPTANCE", "USER_EXTERNAL_SCAN_APPROVAL"}
  BY DEF ForceApprove, Settled, Running
<1>2. job.pc = "idle" /\ job \in JobType /\ review \in ReviewType
  BY <1>1, NobodyAtWork
<1>3. /\ review' \in ReviewType
      /\ review'.version = review.version /\ review'.text = review.text
      /\ review.forced => review'.forced
      /\ state' = "USER_EXTERNAL_SCAN_APPROVAL" => review'.forced
  <2>1. CASE /\ review' = [review EXCEPT !.open = FALSE, !.waived = @ \/ review.open]
             /\ state' = "USER_FINAL_ACCEPTANCE"
    BY <1>2, <2>1 DEF ReviewType
  <2>2. CASE UNCHANGED review /\ state' = "USER_FINAL_ACCEPTANCE"
    BY <1>2, <2>2
  <2>3. CASE review' = [review EXCEPT !.forced = TRUE]
    BY <1>2, <2>3 DEF ReviewType
  <2>4. QED
    BY <2>1, <2>2, <2>3 DEF ForceApprove
<1>4. Deciding' => review'.forced
  BY <1>1, <1>3 DEF Deciding
<1>5. /\ state' \in States \ (Running \cup NotByMoving)
      /\ state' # "FAILED_FIXABLE"
  BY <1>1 DEF States, Running, NotByMoving
<1>6. QED
  BY <1>1, <1>2, <1>3, <1>4, <1>5, UserMoves

LEMMA ScanKeeps ==
    ASSUME Invariant, BeginScan \/ Scan
    PROVE  Invariant'
<1>1. /\ UNCHANGED <<rewrite, review, exported, mode, draft, deaths>>
      /\ TypeOK /\ ReviewIsOfNewest
  BY DEF BeginScan, Scan, papers, Settled, Invariant
<1>2. Latest' = Latest /\ TextOf(Latest)' = TextOf(Latest) /\ Latest \in Nat
  BY <1>1, SameFiles, LatestIs
<1>3. CASE BeginScan
  <2> DEFINE k == [Idle EXCEPT !.phase = "integrity", !.pc = "scan"]
             n == Latest
  <2>1. /\ state \in {"USER_EXTERNAL_SCAN_APPROVAL", "FAILED_VENDOR"}
        /\ state' = "INTEGRITY_RUNNING" /\ UNCHANGED scanned
        /\ job' = [k EXCEPT !.version = n]
    BY <1>3 DEF BeginScan, papers
  <2>2. k \in JobType /\ k.phase = "integrity" /\ k.pc = "scan" /\ Vouched(k.cur)
    <3>1. "integrity" \in Phases /\ "scan" \in Places
      BY DEF Phases, Places
    <3> HIDE DEF k
    <3>2. k = [Idle EXCEPT !.phase = "integrity", !.pc = "scan"]
      BY DEF k
    <3>3. QED
      BY <3>1, <3>2, JobAt
  <2>3. n \in Nat /\ 0 \in 0..1
    BY <1>2
  <2> HIDE DEF k, n
  <2>4. job' \in JobType /\ job'.phase = "integrity" /\ job'.pc = "scan" /\ job'.version = n
        /\ Vouched(job'.cur)
    BY <2>1, <2>2, <2>3, JobWith
  <2>5. JobIsOfState' /\ GateIsOpen'
    BY <2>1, <2>4 DEF JobIsOfState, GateIsOpen, Running, Making, Writing
  <2>6. ReviewIsOfNewest'
    BY <1>1, <1>2, <2>1, <2>4 DEF ReviewIsOfNewest, Deciding, n
  <2>7. state' \in States /\ state' # "EXPORTS_DONE" /\ job'.pc \notin Making \cup Writing
    BY <2>1, <2>4 DEF States, Making, Writing
  <2>8. QED
    BY <1>1, <2>1, <2>4, <2>5, <2>6, <2>7, FilesStay DEF TypeOK
<1>4. CASE Scan
  <2>1. /\ job.pc = "scan" /\ job' = Idle
        /\ \/ state' = "FAILED_VENDOR" /\ UNCHANGED scanned
           \/ state' = "USER_INTEGRITY_REVIEW" /\ scanned' = <<Latest>>
    BY <1>1, <1>4 DEF Scan, ReviewIsOfNewest
  <2>2. state = "INTEGRITY_RUNNING"
    BY <2>1, StateOfPhase DEF Invariant, JobIsOfState
  <2>3. job' \in JobType /\ job'.pc = "idle" /\ Vouched(job'.cur)
    BY <2>1, IdleType, BodyFacts
  <2>4. scanned' \in Seq(Nat)
    <3>1. <<Latest>> \in Seq(Nat)
      BY <1>2
    <3>2. QED
      BY <1>1, <2>1, <3>1 DEF TypeOK
  <2>5. JobIsOfState' /\ GateIsOpen'
    BY <2>1, <2>3 DEF JobIsOfState, GateIsOpen, Making, Writing
  <2>6. ReviewIsOfNewest'
    BY <1>1, <1>2, <2>1, <2>2, <2>3 DEF ReviewIsOfNewest, Deciding
  <2>7. state' \in States /\ state' # "EXPORTS_DONE" /\ job'.pc \notin Making \cup Writing
    BY <2>1, <2>3 DEF States, Making, Writing
  <2>8. QED
    BY <1>1, <2>3, <2>5, <2>6, <2>7, <2>4, FilesStay DEF TypeOK
<1>5. QED
  BY <1>3, <1>4

LEMMA GateKeeps ==
    ASSUME Invariant, BeginExports \/ PassGate \/ RefuseExport
    PROVE  Invariant'
<1>1. /\ UNCHANGED <<rewrite, review, scanned, exported, mode, draft, deaths>>
      /\ TypeOK /\ job \in JobType /\ Vouched(job.cur)
  BY DEF BeginExports, PassGate, RefuseExport, Working, papers, Settled, Invariant, TypeOK, TextsInHand
<1>2. Blocked' <=> Blocked
  <2>1. Latest' = Latest /\ \A v : ClaimsOf(v)' = ClaimsOf(v)
    BY <1>1, SameFiles
  <2>2. QED
    BY <1>1, <2>1 DEF Blocked, AuditBlocks
<1>3. /\ job' \in JobType /\ job'.phase = "exports" /\ Vouched(job'.cur)
      /\ \/ state' = "EXPORTS_RUNNING" /\ job'.pc = "gate"
         \/ state' = "EXPORTS_RUNNING" /\ job'.pc = "compose" /\ ~Blocked
         \/ state' = "FAILED_POLICY" /\ job'.pc = "idle"
  <2>1. CASE BeginExports
    <3>1. job' = [Idle EXCEPT !.phase = "exports", !.pc = "gate"] /\ state' = "EXPORTS_RUNNING"
      BY <2>1 DEF BeginExports
    <3>2. "exports" \in Phases /\ "gate" \in Places
      BY DEF Phases, Places
    <3>3. QED
      BY <3>1, <3>2, JobAt
  <2>2. CASE PassGate
    <3>1. job' = [job EXCEPT !.pc = "compose"] /\ ~Blocked /\ UNCHANGED state /\ job.pc = "gate"
      BY <2>2 DEF PassGate, Working
    <3>2. job.phase = "exports" /\ state = "EXPORTS_RUNNING"
      BY <3>1, StateOfPhase DEF Invariant, JobIsOfState
    <3>3. job' \in JobType /\ job'.pc = "compose" /\ job'.phase = job.phase /\ job'.cur = job.cur
      BY <1>1, <3>1 DEF JobType, Places
    <3>4. QED
      BY <1>1, <3>1, <3>2, <3>3
  <2>3. CASE RefuseExport
    <3>1. job' = [Idle EXCEPT !.phase = job.phase] /\ state' = "FAILED_POLICY" /\ job.phase = "exports"
      BY <2>3 DEF RefuseExport, Invariant, JobIsOfState
    <3>2. QED
      BY <3>1, JobOver DEF Phases
  <2>4. QED
    BY <2>1, <2>2, <2>3
<1>4. JobIsOfState' /\ ReviewIsOfNewest' /\ GateIsOpen'
  BY <1>2, <1>3 DEF JobIsOfState, ReviewIsOfNewest, Deciding, GateIsOpen, Running, Making, Writing
<1>5. state' \in States /\ state' # "EXPORTS_DONE" /\ job'.pc \notin Making \cup Writing
  BY <1>3 DEF States, Making, Writing
<1>6. QED
  BY <1>1, <1>3, <1>4, <1>5, FilesStay DEF TypeOK

LEMMA RepairKeeps ==
    ASSUME Invariant, Repair
    PROVE  Invariant'
<1>1. /\ job.pc = "gate" /\ job \in JobType
      /\ rewrite' = Append(rewrite, NewDir)
      /\ UNCHANGED <<state, review, scanned, exported, mode, draft, deaths>>
      /\ job.phase = "exports" /\ state = "EXPORTS_RUNNING"
      /\ TypeOK
  BY StateOfPhase DEF Repair, papers, Settled, Invariant, TypeOK, JobIsOfState
<1>2. PICK t \in Text("repair") :
          job' = [job EXCEPT !.pc = "text", !.cur = t, !.attempt = @ + 1,
                             !.claims = ClaimsOf(Latest),
                             !.version = Len(rewrite) + 1]
  BY DEF Repair
<1>3. t \in Bodies /\ Vouched(t) /\ ClaimsOf(Latest) \in Claims
  BY <1>1, BodyFacts, LatestIs
<1> DEFINE n == Len(rewrite) + 1
           a == job.attempt + 1
           c == ClaimsOf(Latest)
           k == [job EXCEPT !.pc = "text", !.cur = t]
<1>4. n \in Nat /\ a \in Nat /\ c \in Claims
  BY <1>1, <1>3 DEF TypeOK, JobType
<1>5. job' = [k EXCEPT !.attempt = a, !.claims = c, !.version = n]
  BY <1>2
<1>6. k \in JobType
  BY <1>1, <1>3 DEF JobType, Places, Writing
<1>7. k.phase = "exports" /\ k.pc = "text" /\ k.cur = t
  BY <1>1 DEF JobType
<1> HIDE DEF n, a, c, k
<1>8. job' \in JobType
  BY <1>4, <1>5, <1>6 DEF JobType
<1>9. job'.phase = "exports" /\ job'.pc = "text" /\ job'.cur = t /\ job'.version = n
  BY <1>5, <1>6, <1>7 DEF JobType
<1>10. JobIsOfState'
  BY <1>1, <1>9 DEF JobIsOfState, Running, Making, Writing
<1>11. job'.version = Len(rewrite) + 1 /\ review' \in ReviewType
  BY <1>1, <1>9 DEF n, TypeOK
<1>12. QED
  BY <1>1, <1>3, <1>8, <1>9, <1>10, <1>11, DirectoryOpens

LEMMA ComposeKeeps ==
    ASSUME Invariant, Compose
    PROVE  Invariant'
<1>1. /\ job.pc = "compose" /\ ~Blocked
      /\ exported' = [version |-> Latest, text |-> TextOf(Latest)]
      /\ state' = "EXPORTS_DONE" /\ job' = Idle
      /\ UNCHANGED <<rewrite, review, scanned, mode, draft, deaths>>
      /\ TypeOK
  BY DEF Compose, Settled, Invariant, GateIsOpen
<1>2. /\ Latest \in Nat /\ TextOf(Latest) \in Bodies /\ ClaimsOf(Latest) \in Claims
      /\ \A v : ClaimsOf(v)' = ClaimsOf(v)
  BY <1>1, LatestIs, SameFiles
<1>3. job' \in JobType /\ job'.pc = "idle" /\ Vouched(job'.cur)
  BY <1>1, IdleType, BodyFacts
<1>4. TypeOK'
  <2>1. exported' \in [version : Nat, text : Bodies] /\ state' \in States
    BY <1>1, <1>2 DEF States
  <2>2. QED
    BY <1>1, <1>3, <2>1 DEF TypeOK
<1>5. JobIsOfState' /\ JobHasDirectory' /\ TextsInHand' /\ ScoresKept'
  BY <1>1, <1>3, HandsOff DEF JobIsOfState, JobHasDirectory, Making, Writing
<1>6. OnlyVouchedTexts'
  BY <1>1 DEF Invariant, OnlyVouchedTexts
<1>7. ReviewIsOfNewest' /\ GateIsOpen'
  BY <1>1, <1>3 DEF ReviewIsOfNewest, Deciding, GateIsOpen
<1>8. ExportsAreSourced'
  <2>1. ClaimsOf(Latest) = "sourced" \/ (ClaimsOf(Latest) = "unsourced" /\ review.waived)
    BY <1>1, <1>2 DEF Blocked, AuditBlocks, Claims
  <2>2. exported'.version = Latest
    BY <1>1
  <2>3. ClaimsOf(exported.version)' = ClaimsOf(Latest)
    BY <1>1, <2>2 DEF ClaimsOf
  <2>4. QED
    BY <1>1, <2>1, <2>3 DEF ExportsAreSourced
<1>9. QED
  BY <1>4, <1>5, <1>6, <1>7, <1>8 DEF Invariant

LEMMA DieKeeps ==
    ASSUME Invariant, Die
    PROVE  Invariant'
<1>1. /\ job.pc # "idle"
      /\ deaths' = deaths + 1
      /\ job' = [Idle EXCEPT !.phase = job.phase]
      /\ UNCHANGED <<state, mode, draft, rewrite, review, scanned, exported>>
      /\ TypeOK
  BY DEF Die, papers, Invariant
<1>2. state \in Running /\ job.phase \in Phases
  BY <1>1, StateOfPhase
<1>3. job' \in JobType /\ job'.phase = job.phase /\ job'.pc = "idle" /\ Vouched(job'.cur)
  BY <1>1, <1>2, JobOver
<1>4. JobIsOfState' /\ GateIsOpen'
  BY <1>1, <1>3 DEF Invariant, JobIsOfState, GateIsOpen, Making, Writing
<1>5. ReviewIsOfNewest'
  BY <1>1, <1>2, <1>3, SameFiles DEF Invariant, ReviewIsOfNewest, Deciding, Running
<1>6. state' \in States /\ state' # "EXPORTS_DONE" /\ job'.pc \notin Making \cup Writing
  BY <1>1, <1>2, <1>3 DEF TypeOK, Running, Making, Writing
<1>7. QED
  BY <1>1, <1>3, <1>4, <1>5, <1>6, FilesStay DEF TypeOK
-----------------------------------------------------------------------------
(* Every step.                                                              *)

LEMMA Starts == Init => Invariant
<1> SUFFICES ASSUME Init
             PROVE  Invariant
  OBVIOUS
<1>1. /\ state = "USER_REVISION_REVIEW" /\ rewrite = <<>> /\ scanned = <<>> /\ job = Idle
      /\ mode \in Modes /\ draft \in {"sourced", "unsourced"} /\ deaths = 0
      /\ exported = [version |-> 0, text |-> Nothing]
      /\ review = [version |-> 0, text |-> Nothing, claims |-> "missing", open |-> FALSE,
                   waived |-> FALSE, forced |-> FALSE]
  BY DEF Init
<1>2. TypeOK
  <2>1. review \in ReviewType /\ exported \in [version : Nat, text : Bodies]
    BY <1>1, BodyFacts DEF ReviewType, Claims
  <2>2. QED
    BY <1>1, <2>1, IdleType DEF TypeOK, States
<1>3. job.pc = "idle" /\ Vouched(job.cur)
  BY <1>1, IdleType, BodyFacts
<1>4. QED
  BY <1>1, <1>2, <1>3 DEF Invariant, JobIsOfState, JobHasDirectory, TextsInHand, OnlyVouchedTexts,
       ScoresKept, ReviewIsOfNewest, Deciding, GateIsOpen, ExportsAreSourced, Making, Writing

LEMMA Continues == Invariant /\ [Next]_vars => Invariant'
<1> SUFFICES ASSUME Invariant, [Next]_vars
             PROVE  Invariant'
  OBVIOUS
<1>1. CASE JobStep
  BY <1>1, RewriteKeeps, StartPolishKeeps, Round0Keeps, AttemptFailsKeeps, CandidateKeeps, EndPolishKeeps,
     ProductionKeeps, SelectKeeps, WritingKeeps, WrittenKeeps, CriticKeeps, ReviewedKeeps, ScanKeeps,
     GateKeeps, RepairKeeps, ComposeKeeps DEF JobStep
<1>2. CASE UserStep
  BY <1>2, BeginRewriteKeeps, CriticKeeps, UserKeeps, ScanKeeps, ForceApproveKeeps, GateKeeps DEF UserStep
<1>3. CASE Die \/ Reap
  BY <1>3, DieKeeps, UserKeeps
<1>4. CASE UNCHANGED vars
  <2>1. UNCHANGED <<state, mode, draft, rewrite, review, scanned, exported, job, deaths>>
    BY <1>4 DEF vars
  <2>2. Latest' = Latest /\ \A v : TextOf(v)' = TextOf(v) /\ ClaimsOf(v)' = ClaimsOf(v)
    BY <2>1, SameFiles
  <2>3. TypeOK' /\ JobIsOfState' /\ JobHasDirectory' /\ TextsInHand' /\ OnlyVouchedTexts' /\ ScoresKept'
    BY <2>1 DEF Invariant, TypeOK, JobIsOfState, JobHasDirectory, TextsInHand, Vouched,
         OnlyVouchedTexts, ScoresKept
  <2>4. ReviewIsOfNewest' /\ GateIsOpen' /\ ExportsAreSourced'
    BY <2>1, <2>2 DEF Invariant, ReviewIsOfNewest, Deciding, GateIsOpen, ExportsAreSourced, Blocked, AuditBlocks
  <2>5. QED
    BY <2>3, <2>4 DEF Invariant
<1>5. QED
  BY <1>1, <1>2, <1>3, <1>4 DEF Next

LEMMA Inductive == Spec => []Invariant
<1>1. QED
  BY Starts, Continues, PTL DEF Spec
-----------------------------------------------------------------------------
\* No text that a model wrote without the citation constraints gets into a rewrite
\* directory unless it passed the gate, along the polish loop, the critic loop and
\* every fallback (final_rewrite.py, critic_loop.py).
THEOREM OnlyVouchedTextsEver == Spec => []OnlyVouchedTexts
<1>1. Invariant => OnlyVouchedTexts
  BY DEF Invariant
<1>2. QED
  BY <1>1, Inductive, PTL

\* For any dimensions and scores, no accepted candidate of the polish loop takes a
\* score below the one the loop started from (_scores_monotonic).
THEOREM NoScoreIsEverLost == Spec => []NoScoreIsLost
<1>1. Invariant => NoScoreIsLost
  BY DEF Invariant, ScoresKept, NoScoreIsLost
<1>2. QED
  BY <1>1, Inductive, PTL

\* Whatever failed, was killed, recovered or written again before, the manuscript
\* the user decides about is the one that was reviewed and scanned, unless the user
\* forced the run on (critic.py, integrity.py, main.py).
THEOREM UserAlwaysSeesWhatWasReviewed == Spec => []UserSeesWhatWasReviewed
<1>1. Invariant => UserSeesWhatWasReviewed
  BY DEF Invariant, ReviewIsOfNewest, Deciding, UserSeesWhatWasReviewed
<1>2. QED
  BY <1>1, Inductive, PTL

\* Nothing is exported without a claim map whose claims have sources or were waived,
\* however many repairs and restarts there were (exporter.py).
THEOREM ExportsAreAlwaysSourced == Spec => []ExportsAreSourced
<1>1. Invariant => ExportsAreSourced
  BY DEF Invariant
<1>2. QED
  BY <1>1, Inductive, PTL
=============================================================================
