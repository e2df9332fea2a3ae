---------------------------- MODULE ModelCallProofs ----------------------------
(***************************************************************************)
(* What the harness promises of every call, for any chain of providers,    *)
(* any number of calls from any places, any retries and any breakdowns.    *)
(*                                                                         *)
(* That a call which ended has its rows, its invocation and its log lines  *)
(* is not inductive.  The invariant follows the call in progress as well:  *)
(* its attempts are the last rows of the table, numbered from one, and how *)
(* much of the current one is on disk depends on where the call is.  That  *)
(* nothing is reported as a transport failure too early needs that the     *)
(* walk down the chain has asked nobody who serves, and that it ends with  *)
(* the answer that what is raised is chosen by.                            *)
(***************************************************************************)
EXTENDS ModelCall, SequenceTheorems, TLAPS
-----------------------------------------------------------------------------
(* Types.                                                                   *)

Kinds == {"llm", "tool", "turns"}
Writers == {"own", "shared"}
Ways == {"fails", "asks again", "stub", "skips", "keeps"}

SiteType ==
    [kind : Kinds, attempts : Nat, writer : Writers, fallback : {"none", "always", "hook"},
     objections : SUBSET Judgements, rechecked : BOOLEAN, refused : SUBSET Ways,
     lost : SUBSET Ways]

Closing == FinalStatuses \cup {"retrying"}
Results == FinalStatuses \cup {"none", "revised", "interrupted"}
Takes == {"content", "fallback"} \cup Ways

Row == [step : Nat, attempt : Nat, status : Closing \cup {"pending"}]
Invocation == [status : FinalStatuses \cup {"none", "started"}, retries : Nat]
Outcome == [status : Results, taken : Takes]

TypeOK ==
    /\ pc \in {"idle", "asking", "judging", "logging", "committing", "again", "closing", "dead"}
    /\ site \in Sites
    /\ attempt \in Nat
    /\ asked \in Seq(Answers \cup ToolAnswers)
    /\ decided \in Closing \cup {"none"}
    /\ client \in {"none", "open"}
    /\ rows \in Seq(Row)
    /\ log \subseteq Nat
    /\ inv \in [Writers -> Invocation]
    /\ outcomes \in Seq(Outcome)
    /\ broken \in Nat

-----------------------------------------------------------------------------
(* The inductive invariant.                                                 *)

\* The call in progress, counted from 1, and whether it keeps rows.
Current == Len(outcomes) + 1
Audited == kind # "turns" /\ pc \notin {"idle", "dead"}

\* Where a call is, and what is decided of its attempt by then.
DecidedInOrder ==
    /\ pc \in {"idle", "asking", "judging"} => decided = "none"
    /\ pc \in {"logging", "committing"} => decided \in Closing
    /\ pc = "again" => decided = "retrying"
    /\ pc = "closing" => decided \in FinalStatuses
    /\ pc \in {"judging", "logging", "committing", "again", "closing"} => kind # "turns"

\* Rows are written for the calls made so far only.
RowsAreOfCalls ==
    \A i \in DOMAIN rows :
        /\ rows[i].step <= Current
        /\ pc # "dead" /\ ~Audited => rows[i].step < Current

\* The attempts of the call in progress are the last rows, and the audit of the
\* current one is as far as the call is.
CurrentRows ==
    Audited =>
        LET first == Len(rows) - attempt + 1 IN
        /\ attempt >= 1 /\ first >= 1
        /\ \A i \in DOMAIN rows : rows[i].step = Current <=> i >= first
        /\ \A i \in first..Len(rows) : rows[i].attempt = i - first + 1
        /\ \A i \in first..(Len(rows) - 1) : rows[i].status = "retrying" /\ i \in log
        /\ rows[Len(rows)].status = IF pc \in {"again", "closing"} THEN decided ELSE "pending"
        /\ pc \in {"committing", "again", "closing"} => Len(rows) \in log

\* The rows of a call that ended with a status of the audit.
PastRows(s) ==
    \E first, last \in DOMAIN rows :
        /\ first <= last
        /\ \A i \in DOMAIN rows : rows[i].step = s <=> i \in first..last
        /\ \A i \in first..last :
              /\ rows[i].attempt = i - first + 1
              /\ rows[i].status = IF i = last THEN outcomes[s].status ELSE "retrying"
              /\ i \in log

PastCalls ==
    \A s \in DOMAIN outcomes : outcomes[s].status \in FinalStatuses => PastRows(s)

\* The walk down the chain has met providers that did not serve and did not end it.
WalkGoesOn ==
    pc = "asking" /\ kind = "llm" =>
        Len(asked) < NProviders /\ \A i \in DOMAIN asked : ~Serves(asked[i])

Chain == DecidedInOrder /\ WalkGoesOn /\ FailureMeansExhausted

Audit == RowsAreOfCalls /\ CurrentRows /\ PastCalls /\ EveryCallIsAudited /\ LogCoversRows

Invariant == TypeOK /\ Chain /\ Audit
-----------------------------------------------------------------------------
(* What the table of call sites says of a call.                             *)

LEMMA SitesOfCalls ==
    /\ \A n \in Nat, w \in Ways : Call(n, w) \in SiteType
    /\ \A c \in SiteType : /\ Shared(c) \in SiteType
                           /\ Rechecked(c) \in SiteType
                           /\ Guarded(c) \in SiteType
<1>1. \A n \in Nat, w \in Ways : Call(n, w) \in SiteType
  BY DEF Call, SiteType, Kinds, Writers
<1>2. \A c \in SiteType : Shared(c) \in SiteType
  BY DEF Shared, SiteType, Writers
<1>3. \A c \in SiteType : Rechecked(c) \in SiteType
  BY DEF Rechecked, SiteType
<1>4. \A c \in SiteType : Guarded(c) \in SiteType
  BY DEF Guarded, SiteType, Judgements
<1>5. QED
  BY <1>1, <1>2, <1>3, <1>4

LEMMA SitesAreCalls ==
    \A c \in DOMAIN CallSite : CallSite[c] \in SiteType
<1> USE SitesOfCalls, DrafterAssumption
<1> DEFINE Calls == {Call(n, w) : n \in Nat, w \in Ways}
<1>0. Ways = {"fails", "asks again", "stub", "skips", "keeps"}
  BY DEF Ways
<1>1. /\ Proposal \in SiteType
      /\ Canon \in SiteType
      /\ Frontier \in SiteType
      /\ FourAxes \in SiteType
      /\ OneAxis \in SiteType
      /\ SourceNote \in SiteType
      /\ Diagnostic \in SiteType
      /\ Tensions \in SiteType
      /\ FrameworkLens \in SiteType
      /\ AngleCards \in SiteType
      /\ Outlines \in SiteType
  BY <1>0 DEF Proposal, Canon, Frontier, FourAxes, OneAxis, SourceNote, Diagnostic, Tensions, FrameworkLens, AngleCards, Outlines
<1>2. /\ ShadowBaseline \in SiteType
      /\ DraftSection \in SiteType
      /\ DiversityRepair \in SiteType
      /\ MarkerRepair \in SiteType
      /\ Coherence \in SiteType
  BY <1>0 DEF ShadowBaseline, DraftSection, DiversityRepair, MarkerRepair, Coherence
<1>3. /\ QueryExpansion \in SiteType
      /\ StyledSection \in SiteType
      /\ Repolish \in SiteType
  <2>1. QueryExpansion \in SiteType
    <3>1. Guarded(Rechecked(Call(2, "stub"))) \in SiteType
      BY <1>0
    <3>2. QED
      BY <3>1 DEF QueryExpansion, SiteType
  <2>2. StyledSection \in SiteType
    <3>1. Shared(Call(2, "keeps")) \in SiteType
      BY <1>0
    <3>2. QED
      <4>1. /\ {"hookRejects", "hookFallsBack"} \subseteq Judgements
            /\ {"fails", "keeps"} \subseteq Ways
        BY <1>0 DEF Judgements
      <4> DEFINE c == Shared(Call(2, "keeps"))
      <4>2. c \in SiteType /\ StyledSection = [c EXCEPT !.fallback = "hook",
                                     !.objections = {"hookRejects", "hookFallsBack"},
                                     !.refused = {"fails", "keeps"}]
        BY <3>1 DEF StyledSection
      <4> HIDE DEF c
      <4>3. QED
        BY <4>1, <4>2 DEF SiteType
  <2>3. Repolish \in SiteType
    BY <2>2 DEF Repolish, SiteType
  <2>4. QED
    BY <2>1, <2>2, <2>3
<1>4. Turns \in SiteType /\ VendorScan \in SiteType
  <2>1. Call(0, "keeps") \in SiteType /\ Guarded(Call(1, "fails")) \in SiteType
    BY <1>0
  <2>2. QED
    BY <2>1 DEF Turns, VendorScan, SiteType, Kinds
<1>5. /\ Rewrite \in SiteType
      /\ ExpertCritique \in SiteType
      /\ PolishRewrite \in SiteType
      /\ LoopScore \in SiteType
      /\ LoopOpening \in SiteType
      /\ LoopRewrite \in SiteType
      /\ GateSample \in SiteType
      /\ CriticReport \in SiteType
      /\ PolishScore \in SiteType
      /\ FrontMatter \in SiteType
      /\ SelfCheck \in SiteType
  BY <1>0 DEF Rewrite, ExpertCritique, PolishRewrite, LoopScore, LoopOpening, LoopRewrite, GateSample,
            CriticReport, PolishScore, FrontMatter, SelfCheck
<1>6. QED
  BY <1>1, <1>2, <1>3, <1>4, <1>5 DEF CallSite

LEMMA SiteFacts ==
    ASSUME TypeOK
    PROVE  /\ at \in SiteType
           /\ kind \in Kinds
           /\ at.writer \in Writers
           /\ at.refused \subseteq Ways
           /\ at.lost \subseteq Ways
<1>1. at \in SiteType
  BY SitesAreCalls, SitesAssumption DEF TypeOK, at
<1>2. QED
  BY <1>1 DEF SiteType, kind
-----------------------------------------------------------------------------
(* Type correctness.                                                        *)

LEMMA TypesSettle ==
    ASSUME TypeOK, NEW status \in Closing, Settle(status), asked' \in Seq(Answers \cup ToolAnswers)
    PROVE  TypeOK'
BY DEF TypeOK, Settle

LEMMA TypesInvalid ==
    ASSUME TypeOK, Invalid
    PROVE  \E status \in {"retrying", "rejected_fallback_used", "failed_schema_violation"} :
              Settle(status)
BY DEF Invalid

LEMMA TypesReturn ==
    ASSUME TypeOK, NEW result \in Results, Return(result)
    PROVE  /\ outcomes' \in Seq(Outcome)
           /\ Len(outcomes') = Len(outcomes) + 1
           /\ \A s \in DOMAIN outcomes : outcomes'[s] = outcomes[s]
           /\ outcomes'[Len(outcomes')].status = result
           /\ pc' = "idle"
           /\ client' = "none"
           /\ decided' = "none"
           /\ asked' = <<>>
<1>1. Taken(result) \subseteq Takes
  BY SiteFacts DEF Taken, Takes
<1>2. PICK t \in Takes : outcomes' = Append(outcomes, [status |-> result, taken |-> t])
  BY <1>1 DEF Return
<1>3. [status |-> result, taken |-> t] \in Outcome
  BY DEF Outcome
<1>4. QED
  BY <1>2, <1>3 DEF Return, TypeOK

LEMMA TypesRecorded ==
    ASSUME TypeOK, NEW n \in Nat, site' \in Sites, Recorded(n)
    PROVE  /\ rows' \in Seq(Row)
           /\ Len(rows') = Len(rows) + 1
           /\ \A i \in DOMAIN rows : rows'[i] = rows[i]
           /\ rows'[Len(rows')] = [step |-> Current, attempt |-> n, status |-> "pending"]
           /\ inv' \in [Writers -> Invocation]
<1>1. [step |-> Current, attempt |-> n, status |-> "pending"] \in Row
  BY DEF Row, TypeOK, Current
<1>2. /\ rows' \in Seq(Row)
      /\ Len(rows') = Len(rows) + 1
      /\ \A i \in DOMAIN rows : rows'[i] = rows[i]
      /\ rows'[Len(rows')] = [step |-> Current, attempt |-> n, status |-> "pending"]
  BY <1>1 DEF Recorded, TypeOK, Current
<1>3. CallSite[site'].writer \in Writers
  BY SitesAreCalls, SitesAssumption DEF SiteType
<1>4. inv' \in [Writers -> Invocation]
  <2>1. [status |-> "started", retries |-> 0] \in Invocation
    BY DEF Invocation
  <2>2. QED
    BY <1>3, <2>1 DEF Recorded, TypeOK
<1>5. QED
  BY <1>2, <1>4
-----------------------------------------------------------------------------
(* The audit trail.                                                         *)

LEMMA RowsAreRows ==
    ASSUME NEW table \in Seq(Row)
    PROVE  /\ DOMAIN table = 1..Len(table)
           /\ Len(table) \in Nat
           /\ \A i \in DOMAIN table : /\ table[i] \in Row
                                      /\ table[i].step \in Nat
                                      /\ table[i].attempt \in Nat
<1>1. \A i \in DOMAIN table : table[i] \in Row
  BY ElementOfSeq
<1>2. QED
  BY <1>1 DEF Row

LEMMA SameSite == UNCHANGED site => kind' = kind /\ at' = at
BY DEF kind, at

\* What ended stays as it is: rows that are there keep their step, and those that
\* are settled their status; the log only grows.
LEMMA PastStays ==
    ASSUME TypeOK, PastCalls, rows' \in Seq(Row),
           Len(rows) <= Len(rows'),
           \A i \in DOMAIN rows : rows'[i].step = rows[i].step,
           \A i \in DOMAIN rows : rows[i].step < Current => rows'[i] = rows[i],
           \A i \in DOMAIN rows' : i \notin DOMAIN rows => rows'[i].step >= Current,
           log \subseteq log',
           NEW s \in DOMAIN outcomes, outcomes[s].status \in FinalStatuses,
           outcomes'[s] = outcomes[s]
    PROVE  PastRows(s)'
<1>1. PICK first \in DOMAIN rows, last \in DOMAIN rows :
        /\ first <= last
        /\ \A i \in DOMAIN rows : rows[i].step = s <=> i \in first..last
        /\ \A i \in first..last :
              /\ rows[i].attempt = i - first + 1
              /\ rows[i].status = IF i = last THEN outcomes[s].status ELSE "retrying"
              /\ i \in log
  BY DEF PastCalls, PastRows
<1>2. /\ DOMAIN rows = 1..Len(rows) /\ DOMAIN rows' = 1..Len(rows')
      /\ Len(rows) \in Nat /\ Len(rows') \in Nat
      /\ \A i \in DOMAIN rows' : rows'[i].step \in Nat
      /\ s \in Nat /\ Current \in Nat /\ s < Current
  BY RowsAreRows DEF TypeOK, Current
<1>3. first \in DOMAIN rows' /\ last \in DOMAIN rows' /\ first..last \subseteq DOMAIN rows
  BY <1>2
<1>4. \A i \in DOMAIN rows' : rows'[i].step = s <=> i \in first..last
  <2>1. \A i \in DOMAIN rows : rows'[i].step = s <=> i \in first..last
    BY <1>1
  <2>2. \A i \in DOMAIN rows' : i \notin DOMAIN rows => rows'[i].step # s
    BY <1>2
  <2>3. QED
    BY <1>3, <2>1, <2>2
<1>5. \A i \in first..last : /\ rows'[i] = rows[i]
                             /\ i \in log'
  BY <1>1, <1>2, <1>3
<1>6. \A i \in first..last :
         /\ rows'[i].attempt = i - first + 1
         /\ rows'[i].status = IF i = last THEN outcomes'[s].status ELSE "retrying"
         /\ i \in log'
  BY <1>1, <1>5
<1>7. QED
  BY <1>1, <1>3, <1>4, <1>6 DEF PastRows

\* An attempt goes on, or is settled, without a trace in the tables yet.
LEMMA AuditStays ==
    ASSUME TypeOK, Audit,
           UNCHANGED <<rows, log, inv, outcomes, site>>,
           pc \in {"asking", "judging"},
           pc' \in {"asking", "judging", "logging"},
           kind # "turns" => attempt' = attempt
    PROVE  Audit'
<1>1. Audited' = Audited /\ Current' = Current
  BY SameSite DEF Audited, Current
<1>2. RowsAreOfCalls' /\ LogCoversRows' /\ EveryCallIsAudited'
  BY <1>1 DEF Audit, RowsAreOfCalls, LogCoversRows, EveryCallIsAudited
<1>3. PastCalls'
  BY DEF Audit, PastCalls, PastRows
<1>4. CurrentRows'
  BY <1>1 DEF Audit, CurrentRows, Audited
<1>5. QED
  BY <1>2, <1>3, <1>4 DEF Audit

\* The call ends without a status of the audit: the two turns, or the alarm.
LEMMA AuditLetsGo ==
    ASSUME TypeOK, Audit,
           UNCHANGED <<rows, log, inv, site>>,
           pc # "dead",
           NEW result \in Results \ FinalStatuses, Return(result)
    PROVE  Audit'
<1>1. /\ outcomes' \in Seq(Outcome)
      /\ Len(outcomes') = Len(outcomes) + 1
      /\ \A s \in DOMAIN outcomes : outcomes'[s] = outcomes[s]
      /\ outcomes'[Len(outcomes')].status = result
      /\ pc' = "idle"
  BY TypesReturn
<1>2. /\ DOMAIN outcomes' = 1..Len(outcomes') /\ DOMAIN outcomes = 1..Len(outcomes)
      /\ Len(outcomes) \in Nat
      /\ Current' = Current + 1
      /\ ~Audited'
  BY <1>1 DEF TypeOK, Current, Audited
<1>3. RowsAreOfCalls' /\ LogCoversRows'
  <2>1. \A i \in DOMAIN rows : rows[i].step \in Nat
    BY RowsAreRows DEF TypeOK
  <2>2. Current \in Nat
    BY <1>2 DEF Current
  <2>3. QED
    BY <1>2, <2>1, <2>2 DEF Audit, RowsAreOfCalls, LogCoversRows
<1>4. CurrentRows'
  BY <1>2 DEF CurrentRows
<1>5. ASSUME NEW s \in DOMAIN outcomes', outcomes'[s].status \in FinalStatuses
      PROVE  s \in DOMAIN outcomes /\ s # Len(outcomes') /\ outcomes'[s] = outcomes[s]
  BY <1>1, <1>2, <1>5
<1>6. PastCalls'
  BY <1>5 DEF Audit, PastCalls, PastRows
<1>7. EveryCallIsAudited'
  BY <1>5, <1>6 DEF EveryCallIsAudited, PastCalls, PastRows
<1>8. QED
  BY <1>3, <1>4, <1>6, <1>7 DEF Audit

LEMMA AuditWriteLog ==
    ASSUME Invariant, WriteLog
    PROVE  Audit'
<1>1. /\ UNCHANGED <<rows, inv, outcomes, site, attempt, decided>>
      /\ log' = log \cup {Len(rows)}
      /\ pc = "logging" /\ pc' = "committing"
  BY DEF WriteLog
<1>2. Audited /\ Audited' /\ Current' = Current
  BY <1>1, SameSite DEF Audited, Current, Invariant, Chain, DecidedInOrder
<1>3. RowsAreOfCalls' /\ LogCoversRows' /\ EveryCallIsAudited'
  BY <1>1, <1>2 DEF Invariant, Audit, RowsAreOfCalls, LogCoversRows, EveryCallIsAudited
<1>4. PastCalls'
  BY <1>1 DEF Invariant, Audit, PastCalls, PastRows
<1>5. CurrentRows'
  BY <1>1, <1>2 DEF Invariant, Audit, CurrentRows
<1>6. QED
  BY <1>3, <1>4, <1>5 DEF Audit

LEMMA AuditCommitRow ==
    ASSUME Invariant, CommitRow
    PROVE  rows' \in Seq(Row) /\ Audit'
<1> DEFINE n == Len(rows)
<1>1. /\ UNCHANGED <<log, inv, outcomes, site, attempt, decided>>
      /\ rows' = [rows EXCEPT ![n].status = decided]
      /\ pc = "committing"
      /\ pc' = IF decided = "retrying" THEN "again" ELSE "closing"
      /\ decided \in Closing
  BY DEF CommitRow, Invariant, Chain, DecidedInOrder
<1>2. Audited /\ Audited' /\ Current' = Current
  BY <1>1, SameSite DEF Audited, Current, Invariant, Chain, DecidedInOrder
<1>3. /\ attempt \in Nat /\ attempt >= 1
      /\ n \in Nat
      /\ n - attempt + 1 >= 1
      /\ DOMAIN rows = 1..n
      /\ n \in DOMAIN rows
      /\ rows[n].step = Current
      /\ n \in log
  BY <1>1, <1>2 DEF Invariant, TypeOK, Audit, CurrentRows
<1>4. [rows[n] EXCEPT !.status = decided] \in Row
  <2>1. rows[n] \in Row
    BY <1>3, RowsAreRows DEF Invariant, TypeOK
  <2>2. QED
    BY <1>1, <2>1 DEF Row
<1>5. /\ rows' \in Seq(Row)
      /\ Len(rows') = n
      /\ DOMAIN rows' = DOMAIN rows
      /\ rows'[n].status = decided
      /\ rows'[n].step = rows[n].step
      /\ rows'[n].attempt = rows[n].attempt
      /\ \A i \in DOMAIN rows : i # n => rows'[i] = rows[i]
  <2> DEFINE row == [rows[n] EXCEPT !.status = decided]
  <2>1. rows \in Seq(Row) /\ n \in 1..Len(rows)
    BY <1>3 DEF Invariant, TypeOK
  <2>2. /\ row.status = decided
        /\ row.step = rows[n].step
        /\ row.attempt = rows[n].attempt
    <3>1. rows[n] \in Row
      BY <1>3, <2>1, RowsAreRows
    <3>2. QED
      BY <3>1 DEF Row
  <2>3. rows' = [rows EXCEPT ![n] = row]
    BY <1>1
  <2>4. row \in Row
    BY <1>4
  <2> HIDE DEF row, n
  <2>5. /\ rows' \in Seq(Row)
        /\ Len(rows') = Len(rows)
        /\ \A i \in 1..Len(rows) : rows'[i] = IF i = n THEN row ELSE rows[i]
    BY <2>1, <2>3, <2>4, ExceptSeq
  <2>6. DOMAIN rows' = 1..Len(rows) /\ DOMAIN rows = 1..Len(rows)
    BY <2>1, <2>5
  <2>7. Len(rows') = n
    BY <2>5 DEF n
  <2>8. QED
    BY <2>1, <2>2, <2>5, <2>6, <2>7
<1>6. RowsAreOfCalls'
  BY <1>2, <1>5 DEF Invariant, Audit, RowsAreOfCalls
<1>7. LogCoversRows'
  BY <1>1, <1>3, <1>5 DEF Invariant, Audit, LogCoversRows
<1>8. EveryCallIsAudited'
  BY <1>1 DEF EveryCallIsAudited
<1>9. PastCalls'
  <2>1. ASSUME NEW s \in DOMAIN outcomes, outcomes[s].status \in FinalStatuses
        PROVE  PastRows(s)'
    <3>1. /\ Len(rows) <= Len(rows')
          /\ \A i \in DOMAIN rows : rows'[i].step = rows[i].step
          /\ \A i \in DOMAIN rows : rows[i].step < Current => rows'[i] = rows[i]
          /\ \A i \in DOMAIN rows' : i \notin DOMAIN rows => rows'[i].step >= Current
          /\ log \subseteq log'
          /\ outcomes'[s] = outcomes[s]
      BY <1>1, <1>3, <1>5 DEF Current, Invariant, TypeOK
    <3>2. QED
      BY <1>5, <2>1, <3>1, PastStays DEF Invariant, Audit
  <2>2. QED
    BY <1>1, <2>1 DEF PastCalls
<1>10. CurrentRows'
  BY <1>1, <1>2, <1>3, <1>5 DEF Invariant, Audit, CurrentRows
<1>11. QED
  BY <1>5, <1>6, <1>7, <1>8, <1>9, <1>10 DEF Audit

LEMMA AuditNextAttempt ==
    ASSUME Invariant, NextAttempt
    PROVE  Audit'
<1>1. /\ pc = "again" /\ pc' = "asking" /\ decided = "retrying"
      /\ attempt' = attempt + 1
      /\ UNCHANGED <<site, log, outcomes>>
      /\ Recorded(attempt + 1)
      /\ TypeOK
      /\ kind # "turns"
  BY DEF NextAttempt, Invariant, Chain, DecidedInOrder
<1>2. /\ Audited /\ Audited' /\ Current' = Current
      /\ attempt \in Nat /\ attempt + 1 \in Nat
      /\ Len(rows) \in Nat
      /\ Current \in Nat
      /\ log \subseteq Nat
  BY <1>1, SameSite DEF Audited, Current, TypeOK
<1>3. /\ rows' \in Seq(Row)
      /\ Len(rows') = Len(rows) + 1
      /\ \A i \in DOMAIN rows : rows'[i] = rows[i]
      /\ rows'[Len(rows')].step = Current
      /\ rows'[Len(rows')].attempt = attempt + 1
      /\ rows'[Len(rows')].status = "pending"
      /\ DOMAIN rows = 1..Len(rows)
      /\ DOMAIN rows' = 1..Len(rows')
  <2>1. site' \in Sites
    BY <1>1 DEF TypeOK
  <2>2. /\ rows' \in Seq(Row)
        /\ Len(rows') = Len(rows) + 1
        /\ \A i \in DOMAIN rows : rows'[i] = rows[i]
        /\ rows'[Len(rows')] = [step |-> Current, attempt |-> attempt + 1, status |-> "pending"]
    BY <1>1, <1>2, <2>1, TypesRecorded
  <2>3. QED
    BY <1>1, <2>2 DEF TypeOK
<1>4. RowsAreOfCalls'
  BY <1>2, <1>3 DEF Invariant, Audit, RowsAreOfCalls
<1>5. LogCoversRows'
  BY <1>1, <1>2, <1>3 DEF Invariant, Audit, LogCoversRows
<1>6. EveryCallIsAudited'
  BY <1>1 DEF EveryCallIsAudited
<1>7. PastCalls'
  <2>1. ASSUME NEW s \in DOMAIN outcomes, outcomes[s].status \in FinalStatuses
        PROVE  PastRows(s)'
    BY <1>1, <1>2, <1>3, <2>1, PastStays DEF Invariant, Audit
  <2>2. QED
    BY <1>1, <2>1 DEF PastCalls
<1>8. CurrentRows'
  <2> DEFINE first == Len(rows) - attempt + 1
  <2>1. /\ attempt >= 1 /\ first >= 1
        /\ \A i \in DOMAIN rows : rows[i].step = Current <=> i >= first
        /\ \A i \in first..Len(rows) : rows[i].attempt = i - first + 1
        /\ \A i \in first..(Len(rows) - 1) : rows[i].status = "retrying" /\ i \in log
        /\ rows[Len(rows)].status = "retrying"
        /\ Len(rows) \in log
    BY <1>1, <1>2 DEF Invariant, Audit, CurrentRows
  <2>2. Len(rows') - attempt' + 1 = first /\ first \in Nat /\ first <= Len(rows)
    BY <1>1, <1>2, <1>3, <2>1
  <2> HIDE DEF first
  <2>3. \A i \in DOMAIN rows' : rows'[i].step = Current <=> i >= first
    BY <1>2, <1>3, <2>1, <2>2
  <2>4. ASSUME NEW i \in first..Len(rows)
        PROVE  /\ i \in DOMAIN rows
               /\ rows'[i] = rows[i]
               /\ rows[i].attempt = i - first + 1
               /\ rows[i].status = "retrying"
               /\ i \in log
    <3>1. i \in DOMAIN rows
      BY <1>2, <1>3, <2>2, <2>1
    <3>2. i = Len(rows) \/ i \in first..(Len(rows) - 1)
      BY <1>2, <2>2
    <3>3. QED
      BY <1>3, <2>1, <3>1, <3>2
  <2>5. \A i \in first..Len(rows') : rows'[i].attempt = i - first + 1
    <3>1. rows'[Len(rows')].attempt = Len(rows') - first + 1
      BY <1>1, <1>2, <1>3, <2>2
    <3>2. \A i \in first..Len(rows') : i = Len(rows') \/ i \in first..Len(rows)
      BY <1>2, <1>3, <2>2
    <3>3. QED
      BY <2>4, <3>1, <3>2
  <2>6. \A i \in first..(Len(rows') - 1) : rows'[i].status = "retrying" /\ i \in log'
    <3>1. Len(rows') - 1 = Len(rows)
      BY <1>2, <1>3
    <3>2. QED
      BY <1>1, <2>4, <3>1
  <2>7. QED
    BY <1>1, <1>2, <1>3, <2>1, <2>2, <2>3, <2>5, <2>6 DEF CurrentRows
<1>9. QED
  BY <1>4, <1>5, <1>6, <1>7, <1>8 DEF Audit

LEMMA AuditFinishInvocation ==
    ASSUME Invariant, FinishInvocation
    PROVE  Audit'
<1> DEFINE first == Len(rows) - attempt + 1
<1>1. /\ pc = "closing" /\ pc' = "idle"
      /\ decided \in FinalStatuses
      /\ inv' = [inv EXCEPT ![at.writer] = [status |-> decided, retries |-> attempt - 1]]
      /\ UNCHANGED <<site, attempt, rows, log>>
      /\ Return(decided)
      /\ decided \in Results
      /\ kind # "turns"
      /\ TypeOK
  BY DEF FinishInvocation, Return, Invariant, Chain, DecidedInOrder, Results
<1>2. /\ outcomes' \in Seq(Outcome)
      /\ Len(outcomes') = Len(outcomes) + 1
      /\ \A s \in DOMAIN outcomes : outcomes'[s] = outcomes[s]
      /\ outcomes'[Len(outcomes')].status = decided
  BY <1>1, TypesReturn
<1>3. /\ DOMAIN outcomes' = 1..Len(outcomes') /\ DOMAIN outcomes = 1..Len(outcomes)
      /\ Len(outcomes) \in Nat
      /\ Len(outcomes') = Current
      /\ Current \in Nat
      /\ Current' = Current + 1
      /\ ~Audited' /\ Audited
  BY <1>1, <1>2 DEF TypeOK, Current, Audited
<1>4. /\ attempt \in Nat /\ attempt >= 1
      /\ Len(rows) \in Nat
      /\ DOMAIN rows = 1..Len(rows)
      /\ first >= 1 /\ first <= Len(rows)
      /\ \A i \in DOMAIN rows : rows[i].step = Current <=> i >= first
      /\ \A i \in first..Len(rows) : rows[i].attempt = i - first + 1
      /\ \A i \in first..(Len(rows) - 1) : rows[i].status = "retrying" /\ i \in log
      /\ rows[Len(rows)].status = decided
      /\ Len(rows) \in log
      /\ \A i \in DOMAIN rows : rows[i].step \in Nat /\ rows[i].step <= Current
  BY <1>1, <1>3, RowsAreRows DEF TypeOK, Invariant, Audit, CurrentRows, RowsAreOfCalls
<1>5. RowsAreOfCalls' /\ CurrentRows' /\ LogCoversRows'
  BY <1>1, <1>3, <1>4 DEF Invariant, Audit, RowsAreOfCalls, CurrentRows, LogCoversRows
<1>6. ASSUME NEW s, s = Len(outcomes')
      PROVE  PastRows(s)'
  <2>1. /\ first \in DOMAIN rows /\ Len(rows) \in DOMAIN rows
        /\ \A i \in DOMAIN rows : rows[i].step = Current <=> i \in first..Len(rows)
    BY <1>3, <1>4
  <2>2. \A i \in first..Len(rows) :
          /\ rows[i].status = IF i = Len(rows) THEN decided ELSE "retrying"
          /\ i \in log
    BY <1>4
  <2> HIDE DEF first
  <2>3. QED
    BY <1>1, <1>2, <1>3, <1>4, <1>6, <2>1, <2>2 DEF PastRows
<1>7. ASSUME NEW s \in DOMAIN outcomes, outcomes'[s].status \in FinalStatuses
      PROVE  PastRows(s)'
  <2>1. /\ outcomes[s].status \in FinalStatuses
        /\ outcomes'[s] = outcomes[s]
    BY <1>2, <1>7
  <2>2. PastRows(s)
    BY <2>1 DEF Invariant, Audit, PastCalls
  <2>3. QED
    BY <1>1, <2>1, <2>2 DEF PastRows
<1>8. PastCalls'
  <2>1. \A s \in DOMAIN outcomes' : s \in DOMAIN outcomes \/ s = Len(outcomes')
    BY <1>2, <1>3
  <2>2. QED
    BY <1>6, <1>7, <2>1 DEF PastCalls
<1>9. EveryCallIsAudited'
  <2>1. inv'[at'.writer] = [status |-> decided, retries |-> attempt - 1]
    <3>1. at' = at /\ at.writer \in Writers
      BY <1>1, SiteFacts, SameSite
    <3>2. inv \in [Writers -> Invocation]
      BY <1>1 DEF TypeOK
    <3>3. QED
      BY <1>1, <3>1, <3>2
  <2>2. ASSUME NEW s \in DOMAIN outcomes', outcomes'[s].status \in FinalStatuses,
               NEW a \in DOMAIN rows, NEW b \in DOMAIN rows,
               a <= b,
               \A i \in DOMAIN rows : rows[i].step = s <=> i \in a..b,
               s = Len(outcomes')
        PROVE  b - a = attempt - 1
    <3>1. b = Len(rows)
      BY <1>3, <1>4, <2>2
    <3>2. a = first
      <4>1. a >= first
        BY <1>3, <1>4, <2>2
      <4>2. rows[first].step = s
        BY <1>3, <1>4, <2>2
      <4>3. first \in a..b
        BY <1>4, <2>2, <4>2
      <4>4. QED
        BY <1>4, <4>1, <4>3
    <3>3. QED
      BY <1>4, <3>1, <3>2
  <2>3. SUFFICES ASSUME NEW s \in DOMAIN outcomes', outcomes'[s].status \in FinalStatuses
                 PROVE  \E a, b \in DOMAIN rows' :
                           /\ a <= b
                           /\ \A i \in DOMAIN rows' : rows'[i].step = s <=> i \in a..b
                           /\ s = Len(outcomes') => inv'[at'.writer] = [status  |-> outcomes'[s].status,
                                                                        retries |-> b - a]
                           /\ \A i \in a..b :
                                 /\ rows'[i].attempt = i - a + 1
                                 /\ rows'[i].status = IF i = b THEN outcomes'[s].status ELSE "retrying"
                                 /\ i \in log'
    BY DEF EveryCallIsAudited
  <2>4. PICK a \in DOMAIN rows', b \in DOMAIN rows' :
           /\ a <= b
           /\ \A i \in DOMAIN rows' : rows'[i].step = s <=> i \in a..b
           /\ \A i \in a..b :
                 /\ rows'[i].attempt = i - a + 1
                 /\ rows'[i].status = IF i = b THEN outcomes'[s].status ELSE "retrying"
                 /\ i \in log'
    BY <1>8, <2>3 DEF PastCalls, PastRows
  <2>5. s = Len(outcomes') => inv'[at'.writer] = [status |-> outcomes'[s].status, retries |-> b - a]
    BY <1>1, <1>2, <2>1, <2>2, <2>3, <2>4
  <2>6. QED
    BY <2>4, <2>5
<1>10. QED
  BY <1>5, <1>8, <1>9 DEF Audit

LEMMA AuditBegin ==
    ASSUME Invariant, NEW c \in Sites, Begin(c)
    PROVE  Audit'
<1>1. /\ pc = "idle" /\ pc' = "asking" /\ site' = c /\ attempt' = 1
      /\ IF CallSite[c].kind = "turns" THEN UNCHANGED <<rows, inv>> ELSE Recorded(1)
      /\ UNCHANGED <<log, outcomes>>
      /\ TypeOK
      /\ kind' = CallSite[c].kind
  BY DEF Begin, Invariant, kind, at
<1>2. /\ Current' = Current /\ Current \in Nat
      /\ ~Audited
      /\ Audited' <=> CallSite[c].kind # "turns"
      /\ DOMAIN rows = 1..Len(rows) /\ Len(rows) \in Nat
      /\ \A i \in DOMAIN rows : rows[i].step \in Nat /\ rows[i].step < Current
  BY <1>1, RowsAreRows DEF Audited, Current, TypeOK, Invariant, Audit, RowsAreOfCalls
<1>3. EveryCallIsAudited'
  BY <1>1 DEF EveryCallIsAudited
<1>4. CASE CallSite[c].kind = "turns"
  <2>1. UNCHANGED <<rows, inv>> /\ ~Audited'
    BY <1>1, <1>2, <1>4
  <2>2. RowsAreOfCalls' /\ CurrentRows' /\ LogCoversRows'
    BY <1>1, <1>2, <2>1 DEF Invariant, Audit, RowsAreOfCalls, CurrentRows, LogCoversRows
  <2>3. PastCalls'
    BY <1>1, <2>1 DEF Invariant, Audit, PastCalls, PastRows
  <2>4. QED
    BY <1>3, <2>2, <2>3 DEF Audit
<1>5. CASE CallSite[c].kind # "turns"
  <2>1. /\ rows' \in Seq(Row)
        /\ Len(rows') = Len(rows) + 1
        /\ \A i \in DOMAIN rows : rows'[i] = rows[i]
        /\ rows'[Len(rows')].step = Current
        /\ rows'[Len(rows')].attempt = 1
        /\ rows'[Len(rows')].status = "pending"
        /\ DOMAIN rows' = 1..Len(rows')
    <3>1. /\ rows' \in Seq(Row)
          /\ Len(rows') = Len(rows) + 1
          /\ \A i \in DOMAIN rows : rows'[i] = rows[i]
          /\ rows'[Len(rows')] = [step |-> Current, attempt |-> 1, status |-> "pending"]
      BY <1>1, <1>5, TypesRecorded
    <3>2. QED
      BY <3>1
  <2>2. RowsAreOfCalls' /\ LogCoversRows'
    BY <1>1, <1>2, <1>5, <2>1 DEF Invariant, Audit, RowsAreOfCalls, LogCoversRows
  <2>3. CurrentRows'
    <3>1. Len(rows') - attempt' + 1 = Len(rows')
      BY <1>1, <1>2, <2>1
    <3>2. \A i \in DOMAIN rows' : rows'[i].step = Current <=> i >= Len(rows')
      BY <1>2, <2>1
    <3>3. QED
      BY <1>1, <1>2, <2>1, <3>1, <3>2 DEF CurrentRows
  <2>4. PastCalls'
    <3>1. ASSUME NEW s \in DOMAIN outcomes, outcomes[s].status \in FinalStatuses
          PROVE  PastRows(s)'
      BY <1>1, <1>2, <2>1, <3>1, PastStays DEF Invariant, Audit
    <3>2. QED
      BY <1>1, <3>1 DEF PastCalls
  <2>5. QED
    BY <1>3, <2>2, <2>3, <2>4 DEF Audit
<1>6. QED
  BY <1>4, <1>5

LEMMA AuditKill ==
    ASSUME Invariant, Kill
    PROVE  Audit'
<1>1. /\ pc' = "dead"
      /\ UNCHANGED <<site, rows, log, outcomes>>
      /\ ~Audited' /\ Current' = Current
  BY DEF Kill, Audited, Current
<1>2. RowsAreOfCalls' /\ CurrentRows' /\ LogCoversRows' /\ EveryCallIsAudited'
  BY <1>1 DEF Invariant, Audit, RowsAreOfCalls, CurrentRows, LogCoversRows, EveryCallIsAudited
<1>3. PastCalls'
  BY <1>1 DEF Invariant, Audit, PastCalls, PastRows
<1>4. QED
  BY <1>2, <1>3 DEF Audit
-----------------------------------------------------------------------------
(* The walk down the chain.                                                 *)

\* An answer whose content did not parse is what is raised when it is the last.
LEMMA LastContentSurfaces ==
    ASSUME NEW s \in Seq(Answers \cup ToolAnswers), NEW a \in BadContent
    PROVE  Surfaces(Append(s, a)) = "json"
<1> DEFINE t == Append(s, a)
           n == Len(t)
           responded == {i \in DOMAIN t : Responded(t[i])}
           excepted == {i \in DOMAIN t : Excepted(t[i])}
<1>1. n \in Nat /\ DOMAIN t = 1..n /\ t[n] = a /\ n \in DOMAIN t
  OBVIOUS
<1>2. Responded(a) /\ Excepted(a) /\ a # "busy"
  BY DEF Responded, Excepted, BadContent
<1> HIDE DEF n, t
<1>3. ASSUME NEW S \in SUBSET (1..n), n \in S
      PROVE  Max(S) = n
  <2>1. \E x \in S : \A y \in S : x >= y
    BY <1>1, <1>3
  <2>2. Max(S) \in S /\ \A y \in S : Max(S) >= y
    BY <2>1 DEF Max
  <2>3. PICK m \in S : m = Max(S) /\ \A y \in S : m >= y
    BY <2>2
  <2>4. m \in 1..n /\ m >= n
    BY <1>3, <2>3
  <2>5. m = n
    BY <1>1, <2>4
  <2>6. QED
    BY <2>3, <2>5
<1>4. Max(responded) = n /\ Max(excepted) = n /\ responded # {} /\ excepted # {}
  BY <1>1, <1>2, <1>3
<1>5. LastOf(t, Responded) = a /\ LastOf(t, Excepted) = a
  BY <1>1, <1>4 DEF LastOf
<1>6. QED
  BY <1>2, <1>5 DEF Surfaces, t

\* A call that lets go has nothing decided.
LEMMA ChainReturns ==
    ASSUME NEW result, Return(result)
    PROVE  Chain'
BY DEF Return, Chain, DecidedInOrder, WalkGoesOn, FailureMeansExhausted

\* A new attempt starts with the first provider.
LEMMA ChainStarts ==
    ASSUME pc' = "asking", asked' = <<>>, decided' = "none"
    PROVE  Chain'
BY ChainAssumption DEF Chain, DecidedInOrder, WalkGoesOn, FailureMeansExhausted

\* Later steps keep what was asked and decided.
LEMMA ChainStays ==
    ASSUME Chain, UNCHANGED <<site, asked, decided>>, pc' # "asking", DecidedInOrder'
    PROVE  Chain'
BY SameSite DEF Chain, WalkGoesOn, FailureMeansExhausted, Aborts, Serves

\* An attempt is settled: what is left to show is the reason of a transport failure.
LEMMA SettleKeeps ==
    ASSUME Invariant, NEW status \in Closing, Settle(status),
           pc \in {"asking", "judging"}, kind # "turns",
           asked' \in Seq(Answers \cup ToolAnswers),
           status = "failed_transport" => FailureMeansExhausted'
    PROVE  Invariant'
<1>1. TypeOK'
  BY TypesSettle DEF Invariant
<1>2. Chain'
  <2>1. /\ pc' = "logging" /\ decided' = status /\ UNCHANGED site
    BY DEF Settle
  <2>2. DecidedInOrder'
    BY <2>1, SameSite DEF DecidedInOrder
  <2>3. QED
    BY <2>1, <2>2 DEF Chain, WalkGoesOn, FailureMeansExhausted
<1>3. Audit'
  BY AuditStays DEF Settle, Invariant
<1>4. QED
  BY <1>1, <1>2, <1>3 DEF Invariant

\* The call returns to the agent without a status of the audit.
LEMMA LetGoKeeps ==
    ASSUME Invariant, NEW result \in Results \ FinalStatuses, Return(result), pc # "dead",
           UNCHANGED <<site, attempt, rows, log, inv>>, broken' \in Nat
    PROVE  Invariant'
<1>1. /\ outcomes' \in Seq(Outcome) /\ pc' = "idle" /\ client' = "none"
      /\ decided' = "none" /\ asked' = <<>>
  BY TypesReturn DEF Invariant
<1>2. TypeOK'
  BY <1>1 DEF Invariant, TypeOK
<1>3. QED
  BY <1>2, ChainReturns, AuditLetsGo DEF Invariant
-----------------------------------------------------------------------------
(* The steps of a call.                                                     *)

LEMMA BeginKeeps ==
    ASSUME Invariant, NEW c \in Sites, Begin(c)
    PROVE  Invariant'
<1>1. /\ pc' = "asking" /\ site' = c /\ attempt' = 1 /\ asked' = <<>> /\ client' \in {"none", "open"}
      /\ IF CallSite[c].kind = "turns" THEN UNCHANGED <<rows, inv>> ELSE Recorded(1)
      /\ UNCHANGED <<decided, log, outcomes, broken>>
      /\ decided' = "none"
  BY DEF Begin, Invariant, Chain, DecidedInOrder
<1>2. rows' \in Seq(Row) /\ inv' \in [Writers -> Invocation]
  BY <1>1, TypesRecorded DEF Invariant, TypeOK
<1>3. TypeOK'
  BY <1>1, <1>2 DEF Invariant, TypeOK
<1>4. QED
  BY <1>1, <1>3, ChainStarts, AuditBegin DEF Invariant

\* A provider serves: an audited call has its answer judged, one of the two turns
\* goes on to the second or returns.
LEMMA ServeKeeps ==
    ASSUME Invariant, NEW a \in Answers, Serve(a)
    PROVE  Invariant'
<1>1. /\ pc = "asking" /\ kind # "tool"
      /\ UNCHANGED <<site, rows, log, inv, broken>>
      /\ TypeOK /\ Chain /\ Audit
      /\ decided = "none"
  BY DEF Serve, Invariant, Chain, DecidedInOrder
<1>2. CASE kind = "llm"
  <2>1. /\ pc' = "judging" /\ asked' = Append(asked, a)
        /\ UNCHANGED <<attempt, decided, client, outcomes>>
    BY <1>2 DEF Serve
  <2>2. TypeOK'
    BY <1>1, <2>1 DEF TypeOK
  <2>3. Chain'
    BY <1>1, <1>2, <2>1, SameSite DEF Chain, DecidedInOrder, WalkGoesOn, FailureMeansExhausted
  <2>4. QED
    BY <1>1, <2>1, <2>2, <2>3, AuditStays DEF Invariant
<1>3. CASE kind = "turns"
  <2>1. TurnServed(a)
    BY <1>3 DEF Serve
  <2>2. CASE a # "blank" /\ attempt = 1
    <3>1. /\ attempt' = 2 /\ asked' = <<>>
          /\ UNCHANGED <<pc, decided, client, outcomes>>
      BY <2>1, <2>2 DEF TurnServed
    <3>2. TypeOK'
      BY <1>1, <3>1 DEF TypeOK
    <3>3. QED
      BY <1>1, <1>3, <3>1, <3>2, ChainStarts, AuditStays DEF Invariant
  <2>3. CASE a = "blank" \/ attempt # 1
    <3>1. /\ Return("none") \/ Return("revised")
          /\ UNCHANGED attempt
      BY <2>1, <2>3 DEF TurnServed
    <3>2. {"none", "revised"} \subseteq Results \ FinalStatuses
      BY DEF Results, FinalStatuses
    <3>3. broken' \in Nat
      BY <1>1 DEF TypeOK
    <3>4. QED
      BY <1>1, <3>1, <3>2, <3>3, LetGoKeeps
  <2>4. QED
    BY <2>2, <2>3
<1>4. QED
  BY <1>1, <1>2, <1>3, SiteFacts DEF Kinds

LEMMA FallThroughKeeps ==
    ASSUME Invariant, NEW a \in Answers, FallThrough(a)
    PROVE  Invariant'
<1>1. /\ pc = "asking" /\ kind # "tool" /\ ~Serves(a)
      /\ Len(asked) + 1 < NProviders
      /\ asked' = Append(asked, a)
      /\ UNCHANGED <<pc, site, attempt, decided, client, rows, log, inv, outcomes, broken>>
      /\ TypeOK /\ Chain /\ Audit
      /\ decided = "none"
  BY DEF FallThrough, Invariant, Chain, DecidedInOrder
<1>2. TypeOK'
  BY <1>1 DEF TypeOK
<1>3. Chain'
  <2>1. \A x : Serves(x)' <=> Serves(x)
    BY <1>1, SameSite DEF Serves
  <2>2. ASSUME kind = "llm"
        PROVE  Len(asked') < NProviders /\ \A i \in DOMAIN asked' : ~Serves(asked'[i])
    <3>1. \A i \in DOMAIN asked : ~Serves(asked[i])
      BY <1>1, <2>2 DEF Chain, WalkGoesOn
    <3>2. asked \in Seq(Answers \cup ToolAnswers)
      BY <1>1 DEF TypeOK
    <3>3. QED
      BY <1>1, <3>1, <3>2
  <2>3. QED
    BY <1>1, <2>1, <2>2, SameSite DEF Chain, DecidedInOrder, WalkGoesOn, FailureMeansExhausted, Serves
<1>4. QED
  BY <1>1, <1>2, <1>3, AuditStays DEF Invariant

\* The chain gave up.  When it did not because of the request itself, everybody was
\* asked, and the last answer is no content that failed to parse.
LEMMA GiveUpKeeps ==
    ASSUME Invariant, NEW a \in Answers, GiveUp(a)
    PROVE  Invariant'
<1>1. /\ pc = "asking" /\ kind # "tool" /\ ~Serves(a)
      /\ Aborts(a) \/ Len(asked) + 1 = NProviders
      /\ TypeOK /\ Chain
      /\ kind \in {"llm", "turns"}
  BY SiteFacts DEF GiveUp, Invariant, Kinds
<1>2. CASE kind = "turns"
  <2>1. Return("none") /\ UNCHANGED <<site, attempt, rows, log, inv, broken>>
    BY <1>2 DEF GiveUp
  <2>2. "none" \in Results \ FinalStatuses /\ broken' \in Nat
    BY <1>1, <2>1 DEF Results, FinalStatuses, TypeOK
  <2>3. QED
    BY <1>1, <2>1, <2>2, LetGoKeeps
<1>3. CASE kind = "llm"
  <2>1. /\ asked' = Append(asked, a)
        /\ IF ~Aborts(a) /\ Surfaces(asked') = "json" THEN Invalid ELSE Settle("failed_transport")
    BY <1>3 DEF GiveUp
  <2>2. /\ asked' \in Seq(Answers \cup ToolAnswers)
        /\ Len(asked') = Len(asked) + 1
        /\ Last(asked') = a
        /\ asked'[Len(asked')] = a
        /\ \A i \in DOMAIN asked : asked'[i] = asked[i]
    BY <1>1, <2>1 DEF TypeOK, Last
  <2>3. CASE Invalid
    <3>1. PICK status \in {"retrying", "rejected_fallback_used", "failed_schema_violation"} :
            Settle(status)
      BY <1>1, <2>3, TypesInvalid
    <3>2. status \in Closing /\ status # "failed_transport"
      BY DEF Closing, FinalStatuses
    <3>3. QED
      BY <1>1, <1>3, <2>2, <3>1, <3>2, SettleKeeps
  <2>4. CASE Settle("failed_transport") /\ (Aborts(a) \/ Surfaces(asked') # "json")
    <3>1. UNCHANGED site /\ kind' = kind
      BY <2>4, SameSite DEF Settle
    <3>2. \A x : (Serves(x)' <=> Serves(x)) /\ (Aborts(x)' <=> Aborts(x))
      BY <3>1 DEF Serves, Aborts
    <3>3. ASSUME Aborts(a)
          PROVE  FailureMeansExhausted'
      BY <2>2, <3>1, <3>2, <3>3 DEF FailureMeansExhausted, Aborts
    <3>4. ASSUME ~Aborts(a)
          PROVE  FailureMeansExhausted'
      <4>1. Len(asked') = NProviders
        BY <1>1, <2>2, <3>4
      <4>2. a \notin BadContent
        BY <1>1, <2>1, <2>4, <3>4, LastContentSurfaces DEF TypeOK
      <4>3. \A i \in DOMAIN asked' : ~Serves(asked'[i])
        <5>1. \A i \in DOMAIN asked : ~Serves(asked[i])
          BY <1>1, <1>3 DEF Chain, WalkGoesOn
        <5>2. \A i \in DOMAIN asked' : i \in DOMAIN asked \/ i = Len(asked')
          BY <1>1, <2>1, <2>2 DEF TypeOK
        <5>3. QED
          BY <1>1, <2>2, <5>1, <5>2
      <4>4. QED
        BY <2>2, <3>1, <3>2, <4>1, <4>2, <4>3 DEF FailureMeansExhausted, Serves
    <3>5. "failed_transport" \in Closing
      BY DEF Closing, FinalStatuses
    <3>6. FailureMeansExhausted'
      BY <3>3, <3>4
    <3>7. QED
      BY <1>1, <1>3, <2>2, <2>4, <3>5, <3>6, SettleKeeps
  <2>5. QED
    BY <2>1, <2>3, <2>4
<1>4. QED
  BY <1>1, <1>2, <1>3

LEMMA JudgeKeeps ==
    ASSUME Invariant, NEW j \in Judgements, JudgeAnswer(j) \/ JudgeTool(j)
    PROVE  Invariant'
<1>1. /\ pc = "judging" /\ kind # "turns" /\ UNCHANGED asked
      /\ TypeOK
  BY DEF JudgeAnswer, JudgeTool, Invariant
<1>2. \E status \in {"accepted", "rejected_fallback_used", "retrying", "failed_schema_violation"} :
         Settle(status)
  BY <1>1, TypesInvalid DEF JudgeAnswer, JudgeTool
<1>3. PICK status \in {"accepted", "rejected_fallback_used", "retrying", "failed_schema_violation"} :
         Settle(status)
  BY <1>2
<1>4. status \in Closing /\ status # "failed_transport"
  BY DEF Closing, FinalStatuses
<1>5. asked' \in Seq(Answers \cup ToolAnswers)
  BY <1>1 DEF TypeOK
<1>6. QED
  BY <1>1, <1>3, <1>4, <1>5, SettleKeeps

LEMMA VendorAnswersKeeps ==
    ASSUME Invariant, NEW a \in ToolAnswers, VendorAnswers(a)
    PROVE  Invariant'
<1>1. /\ pc = "asking" /\ kind = "tool" /\ asked' = Append(asked, a)
      /\ TypeOK /\ Chain /\ Audit
      /\ decided = "none"
  BY DEF VendorAnswers, Invariant, Chain, DecidedInOrder
<1>2. asked' \in Seq(Answers \cup ToolAnswers)
  BY <1>1 DEF TypeOK
<1>3. CASE a = "ok"
  <2>1. /\ pc' = "judging"
        /\ UNCHANGED <<site, attempt, decided, client, rows, log, inv, outcomes, broken>>
    BY <1>3 DEF VendorAnswers
  <2>2. TypeOK'
    BY <1>1, <1>2, <2>1 DEF TypeOK
  <2>3. Chain'
    BY <1>1, <2>1, SameSite DEF Chain, DecidedInOrder, WalkGoesOn, FailureMeansExhausted
  <2>4. QED
    BY <1>1, <2>1, <2>2, <2>3, AuditStays DEF Invariant
<1>4. CASE a # "ok"
  <2>1. \E status \in {"retrying", "failed_transport", "failed_vendor"} : Settle(status)
    BY <1>4 DEF VendorAnswers, ToolAnswers
  <2>2. PICK status \in {"retrying", "failed_transport", "failed_vendor"} : Settle(status)
    BY <2>1
  <2>3. status \in Closing
    BY DEF Closing, FinalStatuses
  <2>4. FailureMeansExhausted'
    BY <1>1, <2>2, SameSite DEF Settle, FailureMeansExhausted
  <2>5. QED
    BY <1>1, <1>2, <2>2, <2>3, <2>4, SettleKeeps
<1>5. QED
  BY <1>3, <1>4

LEMMA WriteLogKeeps ==
    ASSUME Invariant, WriteLog
    PROVE  Invariant'
<1>1. /\ pc = "logging" /\ pc' = "committing"
      /\ log' = log \cup {Len(rows)}
      /\ UNCHANGED <<site, attempt, asked, decided, client, rows, inv, outcomes, broken>>
      /\ TypeOK /\ Chain
  BY DEF WriteLog, Invariant
<1>2. TypeOK'
  <2>1. Len(rows) \in Nat
    BY <1>1, RowsAreRows DEF TypeOK
  <2>2. QED
    BY <1>1, <2>1 DEF TypeOK
<1>3. Chain'
  BY <1>1, SameSite, ChainStays DEF Chain, DecidedInOrder
<1>4. QED
  BY <1>2, <1>3, AuditWriteLog DEF Invariant

LEMMA CommitRowKeeps ==
    ASSUME Invariant, CommitRow
    PROVE  Invariant'
<1>1. /\ pc = "committing"
      /\ pc' = IF decided = "retrying" THEN "again" ELSE "closing"
      /\ UNCHANGED <<site, attempt, asked, decided, client, log, inv, outcomes, broken>>
      /\ TypeOK /\ Chain
  BY DEF CommitRow, Invariant
<1>2. TypeOK'
  BY <1>1, AuditCommitRow DEF TypeOK
<1>3. Chain'
  BY <1>1, SameSite, ChainStays DEF Chain, DecidedInOrder, Closing
<1>4. QED
  BY <1>2, <1>3, AuditCommitRow DEF Invariant

LEMMA NextAttemptKeeps ==
    ASSUME Invariant, NextAttempt
    PROVE  Invariant'
<1>1. /\ attempt' = attempt + 1 /\ asked' = <<>> /\ decided' = "none" /\ pc' = "asking"
      /\ Recorded(attempt + 1)
      /\ UNCHANGED <<site, client, log, outcomes, broken>>
      /\ TypeOK
  BY DEF NextAttempt, Invariant
<1>2. rows' \in Seq(Row) /\ inv' \in [Writers -> Invocation]
  <2>1. attempt + 1 \in Nat /\ site' \in Sites
    BY <1>1 DEF TypeOK
  <2>2. QED
    BY <1>1, <2>1, TypesRecorded
<1>3. TypeOK'
  BY <1>1, <1>2 DEF TypeOK
<1>4. QED
  BY <1>1, <1>3, ChainStarts, AuditNextAttempt DEF Invariant

LEMMA FinishInvocationKeeps ==
    ASSUME Invariant, FinishInvocation
    PROVE  Invariant'
<1>1. /\ inv' = [inv EXCEPT ![at.writer] = [status |-> decided, retries |-> attempt - 1]]
      /\ Return(decided)
      /\ UNCHANGED <<site, attempt, rows, log, broken>>
      /\ decided \in FinalStatuses
      /\ attempt \in Nat /\ attempt >= 1
      /\ TypeOK
  BY DEF FinishInvocation, Invariant, Chain, DecidedInOrder, TypeOK, Audit, CurrentRows, Audited
<1>2. [status |-> decided, retries |-> attempt - 1] \in Invocation
  BY <1>1 DEF Invocation
<1>3. decided \in Results
  BY <1>1 DEF Results
<1>4. TypeOK'
  <2>1. /\ outcomes' \in Seq(Outcome) /\ pc' = "idle" /\ client' = "none"
        /\ decided' = "none" /\ asked' = <<>>
    BY <1>1, <1>3, TypesReturn
  <2>2. inv' \in [Writers -> Invocation]
    BY <1>1, <1>2, SiteFacts DEF TypeOK
  <2>3. QED
    BY <1>1, <2>1, <2>2 DEF TypeOK
<1>5. QED
  BY <1>1, <1>4, ChainReturns, AuditFinishInvocation DEF Invariant

LEMMA BreakdownsKeep ==
    ASSUME Invariant, Kill \/ Alarm
    PROVE  Invariant'
<1>1. CASE Kill
  <2>1. /\ pc' = "dead" /\ client' = "none" /\ broken' = broken + 1
        /\ UNCHANGED <<site, attempt, asked, decided, rows, log, inv, outcomes>>
    BY <1>1 DEF Kill
  <2>2. TypeOK'
    BY <2>1 DEF Invariant, TypeOK
  <2>3. Chain'
    BY <2>1, ChainStays DEF Invariant, DecidedInOrder
  <2>4. QED
    BY <1>1, <2>2, <2>3, AuditKill DEF Invariant
<1>2. CASE Alarm
  <2>1. /\ Return("none") \/ Return("interrupted")
        /\ UNCHANGED <<site, attempt, rows, log, inv>>
        /\ broken' \in Nat
        /\ pc # "dead"
    BY <1>2 DEF Alarm, Invariant, TypeOK
  <2>2. {"none", "interrupted"} \subseteq Results \ FinalStatuses
    BY DEF Results, FinalStatuses
  <2>3. QED
    BY <2>1, <2>2, LetGoKeeps
<1>3. QED
  BY <1>1, <1>2

LEMMA Starts == Init => Invariant
<1> SUFFICES ASSUME Init
             PROVE  Invariant
  OBVIOUS
<1>1. /\ pc = "idle" /\ attempt = 0 /\ asked = <<>> /\ decided = "none" /\ client = "none"
      /\ rows = <<>> /\ log = {} /\ outcomes = <<>> /\ broken = 0
      /\ inv = [w \in {"own", "shared"} |-> NoInvocation]
  BY DEF Init
<1>2. site \in Sites
  BY SitesAssumption DEF Init
<1>3. NoInvocation \in Invocation
  BY DEF NoInvocation, Invocation
<1>4. TypeOK
  BY <1>1, <1>2, <1>3 DEF TypeOK, Writers
<1>5. Chain
  BY <1>1 DEF Chain, DecidedInOrder, WalkGoesOn, FailureMeansExhausted
<1>6. Audit
  <2>1. ~Audited /\ DOMAIN rows = {} /\ DOMAIN outcomes = {}
    BY <1>1 DEF Audited
  <2>2. QED
    BY <2>1 DEF Audit, RowsAreOfCalls, CurrentRows, PastCalls, EveryCallIsAudited, LogCoversRows
<1>7. QED
  BY <1>4, <1>5, <1>6 DEF Invariant

LEMMA Continues == Invariant /\ [Next]_vars => Invariant'
<1> SUFFICES ASSUME Invariant, [Next]_vars
             PROVE  Invariant'
  OBVIOUS
<1>1. ASSUME NEW c \in Sites, Begin(c)
      PROVE  Invariant'
  BY <1>1, BeginKeeps
<1>2. CASE CallStep
  BY <1>2, ServeKeeps, FallThroughKeeps, GiveUpKeeps, JudgeKeeps, VendorAnswersKeeps, WriteLogKeeps,
     CommitRowKeeps, NextAttemptKeeps, FinishInvocationKeeps DEF CallStep
<1>3. CASE Kill \/ Alarm
  BY <1>3, BreakdownsKeep
<1>4. CASE UNCHANGED vars
  <2>1. /\ UNCHANGED <<pc, site, attempt, asked, decided, client, rows, log, inv, outcomes, broken>>
        /\ UNCHANGED at
    BY <1>4, SameSite DEF vars
  <2>2. TypeOK'
    BY <2>1 DEF Invariant, TypeOK
  <2>3. Chain'
    BY <2>1 DEF Invariant, Chain, DecidedInOrder, WalkGoesOn, FailureMeansExhausted, Aborts, Serves, kind
  <2>4. RowsAreOfCalls' /\ CurrentRows'
    BY <2>1 DEF Invariant, Audit, RowsAreOfCalls, CurrentRows, Audited, Current, kind
  <2>5. PastCalls' /\ LogCoversRows'
    BY <2>1 DEF Invariant, Audit, PastCalls, PastRows, LogCoversRows
  <2>6. EveryCallIsAudited'
    BY <2>1 DEF Invariant, Audit, EveryCallIsAudited
  <2>7. QED
    BY <2>2, <2>3, <2>4, <2>5, <2>6 DEF Invariant, Audit
<1>5. QED
  BY <1>1, <1>2, <1>3, <1>4 DEF Next

LEMMA Inductive == Spec => []Invariant
<1>1. QED
  BY Starts, Continues, PTL DEF Spec
-----------------------------------------------------------------------------
\* A call that ended with a status of the harness left one row per attempt, all but
\* the last "retrying", a log line for each, and an invocation that counts its
\* retries (run_llm_step, run_tool_step and AuditWriter), however many calls share
\* the writer and wherever the alarm rang before.
THEOREM CallsAreAlwaysAudited == Spec => []EveryCallIsAudited
<1>1. Invariant => EveryCallIsAudited
  BY DEF Invariant, Audit
<1>2. QED
  BY <1>1, Inductive, PTL

\* A row that is settled has its line in the log, wherever the worker is killed:
\* finish_attempt writes the files before it commits.
THEOREM LogAlwaysCoversRows == Spec => []LogCoversRows
<1>1. Invariant => LogCoversRows
  BY DEF Invariant, Audit
<1>2. QED
  BY <1>1, Inductive, PTL

\* Whatever the providers answer and however many there are, chat_completion makes a
\* call a transport failure only when the request was refused or the whole chain was
\* asked in vain, and never when a corrective retry could have repaired the answer.
THEOREM FailureAlwaysMeansExhausted == Spec => []FailureMeansExhausted
<1>1. Invariant => FailureMeansExhausted
  BY DEF Invariant, Chain
<1>2. QED
  BY <1>1, Inductive, PTL
=============================================================================
