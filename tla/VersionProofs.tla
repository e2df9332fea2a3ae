---------------------------- MODULE VersionProofs ----------------------------
(***************************************************************************)
(* What the version graph of a run promises, for any number of phases,     *)
(* versions, branches and attempts, and any moves of the user: the heads   *)
(* follow the phases before them, nothing that is referred to goes, and    *)
(* as long as no endpoint comes between the steps of an attempt the files  *)
(* are those of the heads and the lineage says what was read.              *)
(*                                                                         *)
(* Parents have smaller numbers than their children, so what a chain of    *)
(* parents or the cascade computes is followed to its least counterexample *)
(* (LeastExists).  A step then comes down to one change of the graph: a    *)
(* row begins, fails or goes, a head moves, a branch forks, or none does.  *)
(***************************************************************************)
EXTENDS VersionGraph, NaturalsInduction, WellFoundedInduction, TLAPS
-----------------------------------------------------------------------------
(* Types.                                                                   *)

Heads == [Phases -> Version]
Bytes == [by : Version, edit : Nat]
RunState == [kind : {"review", "running", "failed"}, at : 0..N]

Row == [status : {"unused", "running", "done", "failed", "deleted"}, phase : Phases,
        branch : Branches, parent : Version, edited : BOOLEAN, lineage : Heads,
        bytes : Bytes, read : Heads]

Attempts ==
    [pc : {"idle", "checked", "claimed", "begun", "working", "raised", "returned", "settle"},
     kind : {"job", "rerun", "edit", "replace"}, phase : Phases, branch : Branches,
     base : Version, pv : Version, prior : Version, backup : Bytes, before : RunState]

TypeOK ==
    /\ run \in RunState
    /\ lock \in Actors \cup {NoActor}
    /\ active \in Branches
    /\ branch \in [Branches -> {"none", "live", "deleted"}]
    /\ fork \in [Branches -> Version]
    /\ stale \in [Branches -> 0..N]
    /\ head \in [Branches -> Heads]
    /\ ver \in [Versions -> Row]
    /\ disk \in [Phases -> Bytes]
    /\ att \in [Actors -> Attempts]
    /\ moves \in Nat
    /\ direct \in SUBSET (Branches \X Phases)
    /\ raced \in BOOLEAN
-----------------------------------------------------------------------------
(* The inductive invariant.                                                 *)

\* Versions are numbered as they are begun, and none is unused again.
UsedInOrder ==
    \A v, w \in Versions : ver[v].status = "unused" /\ v < w => ver[w].status = "unused"

\* A finished version of phase q.
Done(v, q) == v \in Versions /\ ver[v].status = "done" /\ ver[v].phase = q

\* What rows, heads and branches refer to is done, and of the phase it stands for.
RowsRefer ==
    \A v \in Versions :
        /\ ver[v].parent # 0 => ver[v].parent < v /\ Done(ver[v].parent, ver[v].phase)
        /\ \A q \in Phases : ver[v].lineage[q] # 0 => Done(ver[v].lineage[q], q)
        /\ ~ Exists(v) => ver[v].parent = 0 /\ ver[v].lineage = Nothing

HeadsAreDone == \A b \in Branches, q \in Phases : head[b][q] # 0 => Done(head[b][q], q)

ForksAreDone == \A b \in Branches : fork[b] # 0 => Done(fork[b], ver[fork[b]].phase)

\* Attempts that have the lock, and those of them that have a version.
Held == {"claimed", "begun", "working", "raised", "returned"}
Versioned == {"begun", "working", "raised", "returned"}

LockIsHeld == \A a \in Actors : att[a].pc \in Held <=> lock = a

\* The active branch, and the one it falls back to, are no free slots.
ActiveIsThere == branch[active] # "none" /\ branch[Main] # "none"

\* The version of an attempt is its own, and unfinished.
Own(t) ==
    /\ t.pv \in Versions
    /\ ver[t.pv].status \in {"running", "deleted"}
    /\ ver[t.pv].status = "running" =>
          ver[t.pv].phase = t.phase /\ ver[t.pv].branch = t.branch

AttemptsOwn ==
    \A a \in Actors :
        /\ att[a].pc \in Versioned => Own(att[a])
        /\ att[a].pc # "idle" /\ att[a].kind = "replace" => att[a].base \in Versions

Shape == UsedInOrder /\ RowsRefer /\ HeadsAreDone /\ ForksAreDone /\ HeadsFollowUpstream
Course == LockIsHeld /\ ActiveIsThere /\ AttemptsOwn

\* What holds of files and attempts as long as nothing was moved under an attempt.
BytesAreOwn == \A v \in Versions : ver[v].status = "done" => ver[v].bytes.by = v

FilesAreHeads ==
    \A q \in Phases : Writing(q) \/ head[active][q] = 0 \/ disk[q].by = head[active][q]

ReadIsLineage(v) == \A q \in Phases : ver[v].lineage[q] # 0 => ver[v].read[q] = ver[v].lineage[q]

LineageIsRead ==
    \A v \in Versions : ver[v].status = "done" /\ ~ ver[v].edited => ReadIsLineage(v)

AttemptIsCurrent(t) ==
    /\ t.pc \in Held /\ t.kind # "job" => t.branch = active
    /\ t.pc = "claimed" /\ t.kind = "replace" => t.base = head[active][t.phase]
    /\ t.pc \in Versioned =>
          /\ t.branch = active
          /\ ver[t.pv].status = "running"
          /\ ver[t.pv].edited <=> t.kind = "edit"
          /\ t.prior = head[active][t.phase]
          /\ t.prior # 0 => t.backup.by = t.prior
          /\ ver[t.pv].lineage = Upstream(head[active], t.phase)
    /\ t.pc \in {"working", "returned"} => t.kind # "edit" /\ ReadIsLineage(t.pv)
    /\ t.pc = "returned" => disk[t.phase].by = t.pv

Undisturbed ==
    ~raced => /\ BytesAreOwn
              /\ FilesAreHeads
              /\ LineageIsRead
              /\ \A a \in Actors : AttemptIsCurrent(att[a])

Invariant == TypeOK /\ Shape /\ Course /\ Undisturbed
-----------------------------------------------------------------------------
(* Numbers.                                                                 *)

LessThan == {p \in Nat \X Nat : p[1] < p[2]}

LEMMA LessIsWellFounded == IsWellFoundedOn(LessThan, Nat)
<1>1. LessThan = OpToRel(<, Nat)
  BY DEF LessThan, OpToRel
<1>2. QED
  BY <1>1, NatLessThanWellFounded

LEMMA LeastExists ==
    ASSUME NEW S \in SUBSET Nat, S # {}
    PROVE  \E x \in S : \A y \in S : x <= y
<1>1. PICK x \in S : \A y \in S : ~(<<y, x>> \in LessThan)
  BY LessIsWellFounded, WFMin
<1>2. \A y, z \in Nat : <<y, z>> \notin LessThan => z <= y
  BY DEF LessThan
<1>3. QED
  BY <1>1, <1>2

LEMMA LeastIsIn ==
    ASSUME NEW S \in SUBSET Nat, S # {}
    PROVE  Least(S) \in S /\ \A y \in S : Least(S) <= y
BY LeastExists DEF Least

LEMMA NewestIsIn == ASSUME NEW S \in SUBSET Versions, S # {} PROVE Newest(S) \in S
<1> DEFINE T == {MaxVersion - x : x \in S}
<1>1. T \in SUBSET Nat /\ T # {}
  <2>1. \A x \in S : MaxVersion - x \in Nat
    BY SizesAssumption DEF Versions
  <2>2. QED
    BY <2>1
<1>2. PICK t \in T : \A u \in T : t <= u
  <2> HIDE DEF T
  <2>1. QED
    BY <1>1, LeastExists
<1>3. PICK x \in S : t = MaxVersion - x
  OBVIOUS
<1>4. \A y \in S : x >= y
  <2>1. \A y \in S : MaxVersion - x <= MaxVersion - y
    BY <1>2, <1>3
  <2>2. QED
    BY <2>1, SizesAssumption DEF Versions
<1>5. QED
  BY <1>4 DEF Newest
-----------------------------------------------------------------------------
(* Ancestry.                                                                *)

Rows == ver \in [Versions -> Row]

\* A version with the chain of its parent.
LEMMA Climbs ==
    Rows => Ancestry = [v \in Version |-> IF v = 0 THEN {}
                                          ELSE {v} \cup Ancestry[ver[v].parent]]
<1> SUFFICES ASSUME Rows
             PROVE  Ancestry = [v \in Version |-> IF v = 0 THEN {}
                                                  ELSE {v} \cup Ancestry[ver[v].parent]]
  OBVIOUS
<1> DEFINE Closed(S) == \A x \in S : ver[x].parent # 0 => ver[x].parent \in S
           c == [v \in Version |->
                   IF v = 0 THEN {}
                   ELSE {w \in Versions : \A S \in SUBSET Versions :
                                              v \in S /\ Closed(S) => w \in S}]
           F(chain) == [v \in Version |-> IF v = 0 THEN {}
                                          ELSE {v} \cup chain[ver[v].parent]]
<1>1. \E chain : chain = F(chain)
  <2>1. ASSUME NEW v \in Version, v # 0 PROVE c[v] = {v} \cup c[ver[v].parent]
    <3> DEFINE p == ver[v].parent
    <3>1. v \in Versions /\ p \in Version
      BY <2>1, SizesAssumption DEF Rows, Row, Version, Versions
    <3>2. v \in c[v]
      BY <2>1, <3>1
    <3>3. ASSUME NEW w \in c[p] PROVE w \in c[v]
      <4>1. p # 0
        BY <3>3, <3>1
      <4>2. w \in Versions /\ \A S \in SUBSET Versions : p \in S /\ Closed(S) => w \in S
        BY <4>1, <3>1, <3>3
      <4>3. QED
        BY <4>1, <4>2, <2>1
    <3>4. ASSUME NEW w \in c[v], w # v PROVE w \in c[p]
      <4>1. w \in Versions /\ \A S \in SUBSET Versions : v \in S /\ Closed(S) => w \in S
        BY <3>4, <2>1
      <4>2. p # 0
        <5>1. p = 0 => {v} \in SUBSET Versions /\ Closed({v})
          BY <3>1
        <5>2. QED
          BY <5>1, <4>1, <3>4
      <4>3. ASSUME NEW S \in SUBSET Versions, p \in S, Closed(S) PROVE w \in S
        <5>1. S \cup {v} \in SUBSET Versions /\ Closed(S \cup {v})
          BY <3>1, <4>3
        <5>2. QED
          BY <5>1, <4>1, <3>4
      <4>4. QED
        BY <4>1, <4>2, <4>3, <3>1
    <3> HIDE DEF c, p
    <3>5. QED
      BY <3>2, <3>3, <3>4 DEF p
  <2>2. c = [v \in Version |-> c[v]]
    OBVIOUS
  <2>3. c[0] = {}
    BY SizesAssumption DEF Version
  <2> HIDE DEF c
  <2>4. c = F(c)
    BY <2>1, <2>2, <2>3
  <2>5. QED
    BY <2>4
<1>2. Ancestry = F(Ancestry)
  BY <1>1 DEF Ancestry
<1>3. QED
  BY <1>2

LEMMA ChainOf ==
    Rows => \A v \in Versions : Ancestry[v] = {v} \cup IF ver[v].parent = 0 THEN {}
                                                       ELSE Ancestry[ver[v].parent]
<1> SUFFICES ASSUME Rows, NEW v \in Versions
             PROVE  Ancestry[v] = {v} \cup IF ver[v].parent = 0 THEN {}
                                           ELSE Ancestry[ver[v].parent]
  OBVIOUS
<1>1. v \in Version /\ v # 0 /\ 0 \in Version
  BY SizesAssumption DEF Version, Versions
<1>2. Ancestry[v] = {v} \cup Ancestry[ver[v].parent] /\ Ancestry[0] = {}
  BY <1>1, Climbs
<1>3. QED
  BY <1>2

LEMMA ChainAfter ==
    ASSUME Rows', NEW w \in Versions
    PROVE  Ancestry'[w] = {w} \cup IF ver'[w].parent = 0 THEN {}
                                   ELSE Ancestry'[ver'[w].parent]
<1>1. (Rows => \A v \in Versions :
                   Ancestry[v] = {v} \cup IF ver[v].parent = 0 THEN {}
                                          ELSE Ancestry[ver[v].parent])'
  BY ChainOf, PTL
<1>2. QED
  BY <1>1

\* The ancestors of a version are of its phase, and none of them was deleted.
LEMMA AncestorsExist ==
    ASSUME Rows, RowsRefer, NEW v \in Versions, Exists(v), NEW w \in Ancestry[v]
    PROVE  w \in Versions /\ Exists(w) /\ ver[w].phase = ver[v].phase
<1> DEFINE Good(x) == \A y \in Ancestry[x] :
                          y \in Versions /\ Exists(y) /\ ver[y].phase = ver[x].phase
           Bad == {x \in Versions : Exists(x) /\ ~ Good(x)}
<1>1. Bad = {}
  <2> SUFFICES ASSUME Bad # {} PROVE FALSE
    OBVIOUS
  <2>1. Bad \in SUBSET Nat
    BY DEF Versions
  <2>2. PICK x \in Bad : \A y \in Bad : x <= y
    <3> HIDE DEF Bad
    <3>1. QED
      BY <2>1, LeastExists
  <2>3. CASE ver[x].parent = 0
    BY <2>3, ChainOf
  <2>4. CASE ver[x].parent # 0
    <3> DEFINE p == ver[x].parent
    <3>1. p < x /\ Done(p, ver[x].phase)
      BY <2>4 DEF RowsRefer
    <3>2. p \in Versions /\ Exists(p) /\ ver[p].phase = ver[x].phase /\ ~ (x <= p)
      BY <3>1 DEF Done, Exists, Versions
    <3>3. Good(p)
      BY <2>2, <3>2
    <3>4. Ancestry[x] = {x} \cup Ancestry[p]
      BY <2>4, ChainOf
    <3>5. QED
      BY <3>2, <3>3, <3>4
  <2>5. QED
    BY <2>3, <2>4
<1>2. QED
  BY <1>1

\* Versions whose parents stay keep their ancestors.
LEMMA AncestryKept ==
    ASSUME Rows, Rows', RowsRefer, NEW D \in SUBSET Versions,
           \A v \in D : /\ ver'[v].parent = ver[v].parent
                        /\ ver[v].parent # 0 => ver[v].parent \in D
    PROVE  \A v \in D : Ancestry'[v] = Ancestry[v]
<1> DEFINE Bad == {v \in D : Ancestry'[v] # Ancestry[v]}
<1>1. Bad = {}
  <2> SUFFICES ASSUME Bad # {} PROVE FALSE
    OBVIOUS
  <2>1. Bad \in SUBSET Nat
    <3>1. Bad \subseteq D
      OBVIOUS
    <3>2. D \subseteq Nat
      BY DEF Versions
    <3>3. QED
      BY <3>1, <3>2
  <2>2. PICK x \in Bad : \A y \in Bad : x <= y
    <3> HIDE DEF Bad
    <3>1. QED
      BY <2>1, LeastExists
  <2>3. Ancestry[x] = {x} \cup IF ver[x].parent = 0 THEN {} ELSE Ancestry[ver[x].parent]
    BY ChainOf
  <2>4. Ancestry'[x] = {x} \cup IF ver'[x].parent = 0 THEN {} ELSE Ancestry'[ver'[x].parent]
    BY ChainAfter
  <2>5. ver[x].parent # 0 => /\ Ancestry'[ver[x].parent] = Ancestry[ver[x].parent]
    <3>1. ver[x].parent # 0 => ver[x].parent \in D /\ ver[x].parent < x
      BY DEF RowsRefer
    <3>2. ver[x].parent # 0 => ~ (x <= ver[x].parent)
      <4>1. x \in Nat /\ ver[x].parent \in Nat
        BY DEF Rows, Row, Version, Versions
      <4>2. QED
        BY <3>1, <4>1
    <3>3. QED
      BY <3>1, <3>2, <2>2
  <2>6. QED
    BY <2>3, <2>4, <2>5
<1>2. QED
  BY <1>1
-----------------------------------------------------------------------------
(* The versions a branch sees, and the cascade.                             *)

Sound == Rows /\ fork \in [Branches -> Version] /\ RowsRefer /\ ForksAreDone

\* Where the search of reachable_pv_ids_for_branch starts.
Seed(b, q) == IF fork[b] = 0 THEN 0
              ELSE IF ver[fork[b]].phase = q THEN fork[b]
              ELSE ver[fork[b]].lineage[q]
Roots(b, h, q) ==
    ({h[q], Seed(b, q)} \ {0})
       \cup {v \in Versions : Exists(v) /\ ver[v].phase = q /\ ver[v].branch = b}

LEMMA ReachableFromRoots ==
    ASSUME NEW b, NEW h, NEW q
    PROVE  Reachable(b, h, q) = UNION {Ancestry[v] : v \in Roots(b, h, q)}
BY DEF Reachable, Roots, Seed

LEMMA RootsExist ==
    ASSUME Sound, NEW b \in Branches, NEW h, NEW q \in Phases, h[q] # 0 => Done(h[q], q),
           NEW v \in Roots(b, h, q)
    PROVE  v \in Versions /\ Exists(v) /\ ver[v].phase = q
<1>1. CASE v = h[q] /\ v # 0
  BY <1>1 DEF Done, Exists
<1>2. CASE v = Seed(b, q) /\ v # 0
  <2>1. fork[b] # 0 /\ fork[b] \in Versions
    BY <1>2 DEF Seed, Sound, ForksAreDone, Done
  <2>2. Done(fork[b], ver[fork[b]].phase)
    BY <2>1 DEF Sound, ForksAreDone
  <2>3. ver[fork[b]].phase # q => Done(v, q)
    BY <1>2, <2>1 DEF Seed, Sound, RowsRefer
  <2>4. QED
    BY <1>2, <2>1, <2>2, <2>3 DEF Seed, Done, Exists
<1>3. CASE v \in Versions /\ Exists(v) /\ ver[v].phase = q
  BY <1>3
<1>4. QED
  BY <1>1, <1>2, <1>3 DEF Roots

LEMMA ReachableExist ==
    ASSUME Sound, NEW b \in Branches, NEW h, NEW q \in Phases, h[q] # 0 => Done(h[q], q),
           NEW v \in Reachable(b, h, q)
    PROVE  v \in Versions /\ Exists(v) /\ ver[v].phase = q
<1>1. PICK r \in Roots(b, h, q) : v \in Ancestry[r]
  BY ReachableFromRoots
<1>2. r \in Versions /\ Exists(r) /\ ver[r].phase = q
  BY RootsExist
<1>3. QED
  BY <1>1, <1>2, AncestorsExist DEF Sound

LEMMA MatchingAreDone ==
    ASSUME Sound, NEW b \in Branches, NEW h, NEW q \in Phases, h[q] # 0 => Done(h[q], q),
           NEW v \in Matching(b, h, q)
    PROVE  Done(v, q) /\ ver[v].lineage = Upstream(h, q)
<1>1. v \in Reachable(b, h, q) /\ ver[v].status = "done" /\ ver[v].lineage = Upstream(h, q)
  BY DEF Matching
<1>2. QED
  BY <1>1, ReachableExist DEF Done

\* A head that the cascade leaves or gives a phase was computed from the heads before
\* it, and it leaves the phase without one only when no version fits.
LEMMA NextHeadFits ==
    ASSUME Sound, NEW b \in Branches, NEW h, NEW q \in Phases, h[q] # 0 => Done(h[q], q)
    PROVE  \/ NextHead(b, h, q) = 0 /\ Matching(b, h, q) = {}
           \/ /\ Done(NextHead(b, h, q), q)
              /\ ver[NextHead(b, h, q)].lineage = Upstream(h, q)
<1>1. CASE h[q] # 0 /\ ver[h[q]].lineage = Upstream(h, q)
  BY <1>1 DEF NextHead
<1>2. CASE ~ (h[q] # 0 /\ ver[h[q]].lineage = Upstream(h, q))
  <2>1. CASE Matching(b, h, q) = {}
    BY <1>2, <2>1 DEF NextHead
  <2>2. CASE Matching(b, h, q) # {}
    <3>1. Matching(b, h, q) \in SUBSET Versions
      BY MatchingAreDone DEF Done
    <3>2. Newest(Matching(b, h, q)) \in Matching(b, h, q)
      BY <2>2, <3>1, NewestIsIn
    <3>3. NextHead(b, h, q) = Newest(Matching(b, h, q))
      BY <1>2, <2>2 DEF NextHead
    <3>4. QED
      BY <3>2, <3>3, MatchingAreDone
  <2>3. QED
    BY <2>1, <2>2
<1>3. QED
  BY <1>1, <1>2

\* Without a head of its own a phase sees no more than with one.
LEMMA FewerMatch ==
    ASSUME NEW b, NEW q \in Phases, NEW g, NEW h, g[q] = 0 \/ g[q] = h[q],
           Upstream(g, q) = Upstream(h, q)
    PROVE  Matching(b, g, q) \subseteq Matching(b, h, q)
<1>1. Roots(b, g, q) \subseteq Roots(b, h, q)
  BY DEF Roots
<1>2. Reachable(b, g, q) \subseteq Reachable(b, h, q)
  BY <1>1, ReachableFromRoots
<1>3. QED
  BY <1>2 DEF Matching

\* The heads T follow from the heads h of branch b when p has got a new one.
Follows(T, b, h, p) ==
    /\ T \in Heads
    /\ \A q \in Phases : q <= p => T[q] = h[q]
    /\ \A q \in Phases : q > p =>
          IF T[q] = 0 THEN Matching(b, T, q) = {}
          ELSE Done(T[q], q) /\ ver[T[q]].lineage = Upstream(T, q)

LEMMA CascadeFollows ==
    ASSUME Sound, NEW b \in Branches, NEW h \in Heads, NEW p \in Phases,
           \A q \in Phases : q > p /\ h[q] # 0 => Done(h[q], q)
    PROVE  Follows(Cascade(b, h, p), b, h, p)
<1> DEFINE F(u, n) == [q \in 0..n |-> IF q <= p THEN h
                                      ELSE [u[q - 1] EXCEPT ![q] = NextHead(b, u[q - 1], q)]]
<1>1. \E u : u = F(u, N)
  <2> DEFINE Bad == {n \in 0..N : ~ \E u : u = F(u, n)}
  <2>1. Bad = {}
    <3> SUFFICES ASSUME Bad # {} PROVE FALSE
      OBVIOUS
    <3>1. Bad \in SUBSET Nat
      <4>1. 0..N \subseteq Nat
        BY SizesAssumption
      <4>2. Bad \subseteq 0..N
        OBVIOUS
      <4>3. QED
        BY <4>1, <4>2
    <3>2. PICK n \in Bad : \A m \in Bad : n <= m
      <4> HIDE DEF Bad
      <4>1. QED
        BY <3>1, LeastExists
    <3>3. n \in 0..N /\ n # 0
      <4>1. [q \in 0..0 |-> h] = F([q \in 0..0 |-> h], 0)
        BY DEF Phases
      <4>2. 0 \notin Bad
        BY <4>1
      <4>3. QED
        BY <4>2
    <3>4. PICK u : u = F(u, n - 1)
      <4>1. n - 1 \in 0..N /\ ~ (n <= n - 1)
        BY <3>3, SizesAssumption
      <4>2. n - 1 \notin Bad
        BY <3>2, <4>1
      <4>3. QED
        BY <4>1, <4>2
    <3> DEFINE w == [q \in 0..n |-> IF q < n THEN u[q]
                                    ELSE IF n <= p THEN h
                                    ELSE [u[n - 1] EXCEPT ![n] = NextHead(b, u[n - 1], n)]]
    <3>5. \A q \in 0..n : w[q] = IF q <= p THEN h
                                 ELSE [w[q - 1] EXCEPT ![q] = NextHead(b, w[q - 1], q)]
      <4>1. TAKE q \in 0..n
      <4>2. CASE q = n
        <5>1. n - 1 \in 0..n /\ n - 1 < n /\ q \in 0..n
          BY <3>3, <4>2
        <5>2. w[n - 1] = u[n - 1]
          BY <5>1
        <5>3. QED
          BY <4>2, <5>1, <5>2
      <4>3. CASE q # n
        <5>1. q \in 0..n-1 /\ q < n
          BY <3>3, <4>3
        <5>2. w[q] = u[q]
          BY <5>1
        <5>3. u[q] = IF q <= p THEN h
                     ELSE [u[q - 1] EXCEPT ![q] = NextHead(b, u[q - 1], q)]
          BY <3>4, <5>1
        <5>4. ~ (q <= p) => w[q - 1] = u[q - 1]
          <6>1. ~ (q <= p) => q - 1 \in 0..n /\ q - 1 < n
            BY <5>1, <3>3 DEF Phases
          <6>2. QED
            BY <6>1
        <5> HIDE DEF w
        <5>5. QED
          BY <5>2, <5>3, <5>4
      <4>4. QED
        BY <4>2, <4>3
    <3>6. w = F(w, n)
      <4>1. w = [q \in 0..n |-> w[q]]
        OBVIOUS
      <4> HIDE DEF w
      <4>2. QED
        BY <3>5, <4>1
    <3>7. QED
      <4> HIDE DEF w
      <4>1. QED
        BY <3>6
  <2>2. N \in 0..N
    BY SizesAssumption
  <2>3. QED
    BY <2>1, <2>2
<1>2. PICK u : u = F(u, N) /\ Cascade(b, h, p) = u[N]
  <2>1. LET u == CHOOSE u : u = F(u, N) IN u = F(u, N) /\ Cascade(b, h, p) = u[N]
    BY <1>1 DEF Cascade
  <2>2. QED
    BY <2>1
<1> HIDE DEF F
<1>3. \A n \in 0..N : u[n] = IF n <= p THEN h
                             ELSE [u[n - 1] EXCEPT ![n] = NextHead(b, u[n - 1], n)]
  BY <1>2 DEF F
<1> HIDE DEF F
\* Up to n the heads have followed; after it they are what they were.
<1> DEFINE Step(n) == /\ u[n] \in Heads
                      /\ \A x \in Phases : x > n \/ x <= p => u[n][x] = h[x]
<1>4. \A n \in 0..N : Step(n)
  <2> DEFINE Bad == {n \in 0..N : ~ Step(n)}
  <2>1. Bad = {}
    <3> SUFFICES ASSUME Bad # {} PROVE FALSE
      OBVIOUS
    <3>1. Bad \in SUBSET Nat
      <4>1. 0..N \subseteq Nat
        BY SizesAssumption
      <4>2. Bad \subseteq 0..N
        OBVIOUS
      <4>3. QED
        BY <4>1, <4>2
    <3>2. PICK n \in Bad : \A m \in Bad : n <= m
      <4> HIDE DEF Bad
      <4>1. QED
        BY <3>1, LeastExists
    <3>3. n \in 0..N /\ ~ Step(n)
      OBVIOUS
    <3>4. ~ (n <= p)
      <4>1. n <= p => Step(n)
        BY <1>3, <3>3
      <4>2. QED
        BY <3>3, <4>1
    <3>5. n \in Phases /\ n - 1 \in 0..N /\ ~ (n <= n - 1)
      BY <3>3, <3>4, SizesAssumption DEF Phases
    <3>6. Step(n - 1)
      <4>1. n - 1 \notin Bad
        BY <3>2, <3>5
      <4>2. QED
        BY <3>5, <4>1
    <3>7. u[n - 1][n] # 0 => Done(u[n - 1][n], n)
      <4>1. n > n - 1 /\ n > p
        BY <3>4, <3>5 DEF Phases
      <4>2. u[n - 1][n] = h[n]
        BY <3>5, <3>6, <4>1
      <4>3. QED
        BY <3>5, <4>1, <4>2
    <3>8. NextHead(b, u[n - 1], n) \in Version
      <4>1. 0 \in Version /\ Versions \subseteq Version
        BY SizesAssumption DEF Version, Versions
      <4>2. QED
        BY <3>5, <3>7, <4>1, NextHeadFits DEF Done
    <3>9. u[n] = [u[n - 1] EXCEPT ![n] = NextHead(b, u[n - 1], n)]
      BY <1>3, <3>3, <3>4
    <3> HIDE DEF Bad
    <3>10. u[n] \in Heads
      BY <3>5, <3>6, <3>8, <3>9 DEF Heads
    <3>11. ASSUME NEW x \in Phases, x > n \/ x <= p PROVE u[n][x] = h[x]
      <4>1. x # n /\ (x > n - 1 \/ x <= p)
        BY <3>4, <3>5, <3>11 DEF Phases
      <4>2. u[n][x] = u[n - 1][x]
        BY <3>6, <3>9, <4>1 DEF Heads
      <4>3. QED
        BY <3>6, <4>1, <4>2
    <3>12. QED
      BY <3>3, <3>10, <3>11
  <2>2. QED
    BY <2>1
<1>5. \A n \in 0..N, x \in Phases : x <= n => u[N][x] = u[n][x]
  <2> SUFFICES ASSUME NEW n \in 0..N, NEW x \in Phases, x <= n
               PROVE  u[N][x] = u[n][x]
    OBVIOUS
  <2> DEFINE Bad == {m \in n..N : u[m][x] # u[n][x]}
  <2>1. Bad = {}
    <3> SUFFICES ASSUME Bad # {} PROVE FALSE
      OBVIOUS
    <3>1. Bad \in SUBSET Nat
      <4>1. n..N \subseteq Nat
        BY SizesAssumption
      <4>2. Bad \subseteq n..N
        OBVIOUS
      <4>3. QED
        BY <4>1, <4>2
    <3>2. PICK m \in Bad : \A k \in Bad : m <= k
      <4> HIDE DEF Bad
      <4>1. QED
        BY <3>1, LeastExists
    <3>3. m \in n..N /\ m # n /\ u[m][x] # u[n][x]
      OBVIOUS
    <3>4. m - 1 \in n..N /\ ~ (m <= m - 1) /\ m \in 0..N /\ m - 1 \in 0..N /\ x # m
      BY <3>3, SizesAssumption DEF Phases
    <3>5. u[m - 1][x] = u[n][x]
      <4>1. m - 1 \notin Bad
        BY <3>2, <3>4
      <4>2. QED
        BY <3>4, <4>1
    <3>6. CASE m <= p
      <4>1. m - 1 <= p
        BY <3>4, <3>6, SizesAssumption DEF Phases
      <4>2. u[m] = h /\ u[m - 1] = h
        BY <1>3, <3>4, <3>6, <4>1
      <4>3. QED
        BY <3>3, <3>5, <4>2
    <3>7. CASE ~ (m <= p)
      <4>1. u[m] = [u[m - 1] EXCEPT ![m] = NextHead(b, u[m - 1], m)]
        BY <1>3, <3>4, <3>7
      <4>2. u[m - 1] \in Heads
        BY <1>4, <3>4
      <4>3. u[m][x] = u[m - 1][x]
        BY <3>4, <4>1, <4>2 DEF Heads
      <4>4. QED
        BY <3>3, <3>5, <4>3
    <3>8. QED
      BY <3>6, <3>7
  <2>2. N \in n..N
    BY SizesAssumption
  <2>3. QED
    BY <2>1, <2>2
<1> DEFINE T == u[N]
<1>6. T \in Heads /\ \A x \in Phases : x <= p => T[x] = h[x]
  <2>1. Step(N)
    BY <1>4, SizesAssumption
  <2>2. QED
    BY <2>1
<1>7. ASSUME NEW q \in Phases, q > p
      PROVE  IF T[q] = 0 THEN Matching(b, T, q) = {}
             ELSE Done(T[q], q) /\ ver[T[q]].lineage = Upstream(T, q)
  <2> DEFINE g == u[q - 1]
  <2>1. q \in 0..N /\ q - 1 \in 0..N /\ ~ (q <= p) /\ q > q - 1 /\ q <= q
    BY <1>7, SizesAssumption DEF Phases
  <2>2. g \in Heads /\ g[q] = h[q]
    <3>1. Step(q - 1)
      BY <1>4, <2>1
    <3>2. QED
      BY <2>1, <3>1
  <2>3. u[q] = [g EXCEPT ![q] = NextHead(b, g, q)]
    BY <1>3, <2>1
  <2>4. T[q] = NextHead(b, g, q)
    <3>1. u[q][q] = NextHead(b, g, q)
      BY <2>2, <2>3 DEF Heads
    <3>2. T[q] = u[q][q]
      BY <1>5, <2>1
    <3>3. QED
      BY <3>1, <3>2
  <2>5. Upstream(T, q) = Upstream(g, q)
    <3>1. \A x \in Phases : x < q => T[x] = g[x]
      <4> SUFFICES ASSUME NEW x \in Phases, x < q PROVE T[x] = g[x]
        OBVIOUS
      <4>1. x <= q - 1
        BY <1>7 DEF Phases
      <4>2. QED
        BY <1>5, <2>1, <4>1
    <3> HIDE DEF T, g
    <3>2. QED
      BY <3>1 DEF Upstream
  <2>6. g[q] # 0 => Done(g[q], q)
    BY <1>7, <2>2
  <2> HIDE DEF T, g
  <2>7. CASE NextHead(b, g, q) = 0 /\ Matching(b, g, q) = {}
    <3>1. Matching(b, T, q) \subseteq Matching(b, g, q)
      BY <2>4, <2>5, <2>7, FewerMatch
    <3>2. QED
      BY <2>4, <2>7, <3>1
  <2>8. CASE Done(NextHead(b, g, q), q) /\ ver[NextHead(b, g, q)].lineage = Upstream(g, q)
    <3>1. NextHead(b, g, q) # 0
      BY <2>8 DEF Done, Versions
    <3>2. QED
      BY <2>4, <2>5, <2>8, <3>1
  <2>9. QED
    BY <2>6, <2>7, <2>8, NextHeadFits
<1> HIDE DEF T, Step
<1>8. Follows(T, b, h, p)
  BY <1>6, <1>7 DEF Follows
<1>9. QED
  BY <1>2, <1>8 DEF T
-----------------------------------------------------------------------------
(* What a branch sees when one version changes, or none does.               *)

SameRow(v) ==
    /\ ver'[v].status = ver[v].status
    /\ ver'[v].phase = ver[v].phase
    /\ ver'[v].branch = ver[v].branch
    /\ ver'[v].parent = ver[v].parent
    /\ ver'[v].lineage = ver[v].lineage

LEMMA AncestorsStay ==
    ASSUME Rows, RowsRefer, NEW D \in SUBSET Versions,
           \A v \in D : ver[v].parent # 0 => ver[v].parent \in D
    PROVE  \A v \in D : Ancestry[v] \subseteq D
<1> DEFINE Bad == {v \in D : ~ (Ancestry[v] \subseteq D)}
<1>1. Bad = {}
  <2> SUFFICES ASSUME Bad # {} PROVE FALSE
    OBVIOUS
  <2>1. Bad \in SUBSET Nat
    <3>1. Bad \subseteq D
      OBVIOUS
    <3>2. D \subseteq Nat
      BY DEF Versions
    <3>3. QED
      BY <3>1, <3>2
  <2>2. PICK x \in Bad : \A y \in Bad : x <= y
    <3> HIDE DEF Bad
    <3>1. QED
      BY <2>1, LeastExists
  <2>3. x \in D /\ Ancestry[x] = {x} \cup IF ver[x].parent = 0 THEN {}
                                          ELSE Ancestry[ver[x].parent]
    BY ChainOf
  <2>4. ver[x].parent # 0 => Ancestry[ver[x].parent] \subseteq D
    <3>1. ver[x].parent # 0 => ver[x].parent \in D /\ ver[x].parent < x
      BY <2>3 DEF RowsRefer
    <3>2. x \in Nat /\ ver[x].parent \in Nat
      BY DEF Rows, Row, Version, Versions
    <3>3. ver[x].parent # 0 => ver[x].parent \notin Bad
      BY <3>1, <3>2, <2>2
    <3>4. QED
      BY <3>1, <3>3
  <2>5. QED
    BY <2>3, <2>4
<1>2. QED
  BY <1>1

LEMMA MatchingSame ==
    ASSUME Sound, Rows', \A v \in Versions : SameRow(v),
           NEW b \in Branches, fork'[b] = fork[b], NEW q \in Phases, NEW h,
           h[q] # 0 => Done(h[q], q)
    PROVE  Matching(b, h, q)' \subseteq Matching(b, h, q)
<1>1. \A v \in Versions : Ancestry'[v] = Ancestry[v]
  <2>1. \A v \in Versions : ver[v].parent # 0 => ver[v].parent \in Versions
    BY DEF Sound, RowsRefer, Done
  <2>2. QED
    BY <2>1, AncestryKept DEF Sound, SameRow
<1>2. Roots(b, h, q)' = Roots(b, h, q)
  <2>1. fork[b] # 0 => fork[b] \in Versions
    BY DEF Sound, ForksAreDone, Done
  <2>2. Seed(b, q)' = Seed(b, q)
    BY <2>1 DEF Seed, SameRow
  <2>3. QED
    BY <2>2 DEF Roots, SameRow, Exists
<1>3. Reachable(b, h, q)' = Reachable(b, h, q)
  <2>1. \A r \in Roots(b, h, q) : Ancestry'[r] = Ancestry[r]
    BY <1>1, RootsExist
  <2>2. Reachable(b, h, q)' = UNION {Ancestry'[v] : v \in Roots(b, h, q)'}
    BY DEF Reachable, Roots, Seed
  <2>3. QED
    BY <1>2, <2>1, <2>2, ReachableFromRoots
<1>4. \A v \in Reachable(b, h, q) : v \in Versions
  BY ReachableExist
<1>5. QED
  BY <1>3, <1>4 DEF Matching, SameRow

LEMMA MatchingShrinks ==
    ASSUME Sound, Rows', NEW f \in Versions,
           NEW b \in Branches, NEW q \in Phases, NEW h, h[q] # 0 => Done(h[q], q), h[q] # f,
           \A v \in Versions \ {f} : /\ SameRow(v)
                                     /\ ver[v].parent # f
                                     /\ ver[v].lineage[q] # f,
           fork'[b] = 0 \/ (fork'[b] = fork[b] /\ fork[b] # f),
           Exists(f)' /\ ver'[f].phase = q /\ ver'[f].branch = b =>
              /\ ver'[f].status # "done"
              /\ ver'[f].parent # 0 => /\ ver'[f].parent \in Versions \ {f}
                                       /\ Ancestry[ver'[f].parent] \subseteq Reachable(b, h, q)
    PROVE  Matching(b, h, q)' \subseteq Matching(b, h, q)
<1> DEFINE D == Versions \ {f}
<1>1. \A v \in D : ver'[v].parent = ver[v].parent /\ (ver[v].parent # 0 => ver[v].parent \in D)
  BY DEF Sound, RowsRefer, Done, SameRow
<1>2. \A v \in D : Ancestry'[v] = Ancestry[v] /\ Ancestry[v] \subseteq D
  <2>1. D \in SUBSET Versions
    OBVIOUS
  <2> HIDE DEF D
  <2>2. QED
    BY <1>1, <2>1, AncestryKept, AncestorsStay DEF Sound
<1>3. fork'[b] # 0 => fork'[b] = fork[b] /\ fork[b] \in D
  BY DEF Sound, ForksAreDone, Done
<1>4. ASSUME NEW r \in Roots(b, h, q)', r # f
      PROVE  r \in Roots(b, h, q) /\ r \in D
  <2>1. CASE r = h[q] /\ r # 0
    BY <1>4, <2>1 DEF Roots, Done
  <2>2. CASE r = Seed(b, q)' /\ r # 0
    <3>1. fork'[b] # 0
      BY <2>2 DEF Seed
    <3>2. Seed(b, q)' = Seed(b, q)
      BY <1>3, <3>1 DEF Seed, SameRow
    <3>3. r \in Roots(b, h, q)
      BY <2>2, <3>2 DEF Roots
    <3>4. QED
      BY <1>4, <3>3, RootsExist
  <2>3. CASE r \in Versions /\ Exists(r)' /\ ver'[r].phase = q /\ ver'[r].branch = b
    BY <1>4, <2>3 DEF Roots, SameRow, Exists
  <2>4. QED
    BY <2>1, <2>2, <2>3 DEF Roots
<1>5. f \in Roots(b, h, q)' => Exists(f)' /\ ver'[f].phase = q /\ ver'[f].branch = b
  <2>1. Seed(b, q)' # f
    <3>1. CASE fork'[b] = 0
      <4>1. f # 0
        BY DEF Versions
      <4>2. QED
        BY <3>1, <4>1 DEF Seed
    <3>2. CASE fork'[b] # 0
      BY <1>3, <3>2 DEF Seed, SameRow
    <3>3. QED
      BY <3>1, <3>2
  <2>2. QED
    BY <2>1 DEF Roots
<1>6. ASSUME NEW v \in Matching(b, h, q)' PROVE v \in Matching(b, h, q)
  <2>1. /\ v \in Reachable(b, h, q)'
        /\ ver'[v].status = "done"
        /\ ver'[v].lineage = Upstream(h, q)
    BY <1>6 DEF Matching, Upstream
  <2>2. PICK r \in Roots(b, h, q)' : v \in Ancestry'[r]
    <3>1. Reachable(b, h, q)' = UNION {Ancestry'[r] : r \in Roots(b, h, q)'}
      BY DEF Reachable, Roots, Seed
    <3>2. QED
      BY <2>1, <3>1
  <2>3. v \in D /\ v \in Reachable(b, h, q)
    <3>1. CASE r # f
      <4>1. r \in Roots(b, h, q) /\ r \in D
        BY <1>4, <3>1
      <4>2. v \in Ancestry[r] /\ v \in D
        BY <1>2, <2>2, <4>1
      <4>3. QED
        BY <4>1, <4>2, ReachableFromRoots
    <3>2. CASE r = f
      <4>1. /\ ver'[f].status # "done"
            /\ ver'[f].parent # 0 => /\ ver'[f].parent \in D
                                     /\ Ancestry[ver'[f].parent] \subseteq Reachable(b, h, q)
        BY <1>5, <3>2
      <4>2. Ancestry'[f] = {f} \cup IF ver'[f].parent = 0 THEN {}
                                    ELSE Ancestry'[ver'[f].parent]
        BY ChainAfter
      <4>3. v # f
        BY <2>1, <4>1
      <4>4. ver'[f].parent # 0 /\ v \in Ancestry'[ver'[f].parent]
        BY <2>2, <3>2, <4>2, <4>3
      <4>5. QED
        BY <1>2, <4>1, <4>4
    <3>3. QED
      BY <3>1, <3>2
  <2>4. SameRow(v)
    BY <2>3
  <2>5. QED
    BY <2>1, <2>3, <2>4 DEF Matching, SameRow
<1>7. QED
  BY <1>6
-----------------------------------------------------------------------------
(* The steps of the graph.                                                  *)

Shaped ==
    /\ Rows
    /\ fork \in [Branches -> Version]
    /\ head \in [Branches -> Heads]
    /\ direct \in SUBSET (Branches \X Phases)

\* HeadsFollowUpstream of one phase of one branch.
FollowsAt(b, q) ==
    <<b, q>> \in direct
    \/ IF head[b][q] = 0 THEN Matching(b, head[b], q) = {}
       ELSE ver[head[b][q]].lineage = Upstream(head[b], q)

LEMMA ShapeIsSound == Shaped /\ Shape => Sound
BY DEF Shaped, Shape, Sound

\* What Done says of versions whose rows stay.
LEMMA DoneStays ==
    ASSUME NEW v, NEW q, Done(v, q), SameRow(v)
    PROVE  Done(v, q)'
BY DEF Done, SameRow

LEMMA RowsRest ==
    ASSUME Shaped, Shape, Shaped', \A v \in Versions : SameRow(v)
    PROVE  /\ UsedInOrder' /\ RowsRefer'
           /\ \A v \in Versions, q \in Phases : Done(v, q) => Done(v, q)'
<1>1. UsedInOrder'
  BY DEF Shape, UsedInOrder, SameRow
<1>2. \A v \in Versions, q \in Phases : Done(v, q) => Done(v, q)'
  BY DoneStays
<1>3. RowsRefer'
  <2> SUFFICES ASSUME NEW v \in Versions
               PROVE  /\ ver'[v].parent # 0 => /\ ver'[v].parent < v
                                               /\ Done(ver[v].parent, ver[v].phase)'
                      /\ \A q \in Phases : ver'[v].lineage[q] # 0 => Done(ver[v].lineage[q], q)'
                      /\ ~ Exists(v)' => ver'[v].parent = 0 /\ ver'[v].lineage = Nothing
    BY DEF RowsRefer, Exists, Nothing
  <2>1. SameRow(v) /\ (Exists(v)' <=> Exists(v))
    BY DEF SameRow, Exists
  <2>2. /\ ver[v].parent # 0 => ver[v].parent < v /\ Done(ver[v].parent, ver[v].phase)
        /\ \A q \in Phases : ver[v].lineage[q] # 0 => Done(ver[v].lineage[q], q)
        /\ ~ Exists(v) => ver[v].parent = 0 /\ ver[v].lineage = Nothing
    BY DEF Shape, RowsRefer
  <2>3. ver[v].phase \in Phases
    BY DEF Shaped, Rows, Row
  <2>4. QED
    BY <1>2, <2>1, <2>2, <2>3 DEF SameRow, Done
<1>4. QED
  BY <1>1, <1>2, <1>3

LEMMA GraphRests ==
    ASSUME Shaped, Shape, Shaped', \A v \in Versions : SameRow(v),
           UNCHANGED <<fork, head, direct>>
    PROVE  Shape'
<1>1. UsedInOrder' /\ RowsRefer'
  BY RowsRest
<1>2. \A v \in Versions, q \in Phases : Done(v, q) => Done(v, q)'
  BY RowsRest
<1>3. HeadsAreDone'
  BY <1>2 DEF Shape, HeadsAreDone, Done, SameRow
<1>4. ForksAreDone'
  BY <1>2 DEF Shape, ForksAreDone, Done, SameRow
<1>5. HeadsFollowUpstream'
  <2> SUFFICES ASSUME NEW b \in Branches, NEW q \in Phases PROVE FollowsAt(b, q)'
    BY DEF HeadsFollowUpstream, FollowsAt
  <2>1. FollowsAt(b, q)
    BY DEF Shape, HeadsFollowUpstream, FollowsAt
  <2>2. CASE <<b, q>> \in direct
    BY <2>2 DEF FollowsAt
  <2>3. CASE <<b, q>> \notin direct /\ head[b][q] = 0
    <3>1. Matching(b, head[b], q)' \subseteq Matching(b, head[b], q)
      BY <2>3, MatchingSame, ShapeIsSound DEF Shaped
    <3>2. QED
      BY <2>1, <2>3, <3>1 DEF FollowsAt
  <2>4. CASE <<b, q>> \notin direct /\ head[b][q] # 0
    <3>1. Done(head[b][q], q)
      BY <2>4 DEF Shape, HeadsAreDone
    <3>2. QED
      BY <2>1, <2>4, <3>1 DEF FollowsAt, Done, SameRow, Upstream
  <2>5. QED
    BY <2>2, <2>3, <2>4
<1>6. QED
  BY <1>1, <1>3, <1>4, <1>5 DEF Shape

\* Nothing refers to a version that is not done.
LEMMA UnfinishedIsFree ==
    ASSUME Shaped, Shape, NEW f \in Versions, ver[f].status # "done"
    PROVE  /\ \A v \in Versions : /\ ver[v].parent # f
                                  /\ \A q \in Phases : ver[v].lineage[q] # f
           /\ \A b \in Branches : fork[b] # f
           /\ \A b \in Branches, q \in Phases : head[b][q] # f
<1>1. f # 0 /\ \A q : ~ Done(f, q)
  BY DEF Versions, Done
<1>2. QED
  BY <1>1 DEF Shape, RowsRefer, ForksAreDone, HeadsAreDone

\* What the row of a version refers to, as RowsRefer says of all of them.
Refers(v) ==
    /\ ver[v].parent # 0 => ver[v].parent < v /\ Done(ver[v].parent, ver[v].phase)
    /\ \A q \in Phases : ver[v].lineage[q] # 0 => Done(ver[v].lineage[q], q)
    /\ ~ Exists(v) => ver[v].parent = 0 /\ ver[v].lineage = Nothing

Unneeded(f) ==
    /\ \A v \in Versions \ {f} : /\ SameRow(v)
                                 /\ ver[v].parent # f
                                 /\ \A q \in Phases : ver[v].lineage[q] # f
    /\ \A b \in Branches : fork'[b] = 0 \/ (fork'[b] = fork[b] /\ fork[b] # f)

LEMMA OneRowChanges ==
    ASSUME Shaped, Shape, Shaped', NEW f \in Versions, Unneeded(f), Refers(f)',
           ver'[f].status # "unused",
           \A v \in Versions : v < f => ver[v].status # "unused"
    PROVE  UsedInOrder' /\ RowsRefer' /\ ForksAreDone'
<1>1. \A v \in Versions, q \in Phases : v # f /\ Done(v, q) => Done(v, q)'
  BY DoneStays DEF Unneeded
<1>2. UsedInOrder'
  <2> SUFFICES ASSUME NEW v \in Versions, NEW w \in Versions,
                      ver'[v].status = "unused", v < w
               PROVE  ver'[w].status = "unused"
    BY DEF UsedInOrder
  <2>1. v # f /\ ver[v].status = "unused"
    BY DEF Unneeded, SameRow
  <2>2. w # f
    BY <2>1
  <2>3. ver[w].status = "unused"
    BY <2>1 DEF Shape, UsedInOrder
  <2>4. QED
    BY <2>2, <2>3 DEF Unneeded, SameRow
<1>3. RowsRefer'
  <2>1. ASSUME NEW v \in Versions, v # f PROVE Refers(v)'
    <3>1. SameRow(v) /\ ver[v].parent # f /\ \A q \in Phases : ver[v].lineage[q] # f
      BY <2>1 DEF Unneeded
    <3>2. Refers(v)
      BY DEF Shape, RowsRefer, Refers
    <3>3. ver[v].phase \in Phases
      BY DEF Shaped, Rows, Row
    <3>4. ver[v].parent # 0 => Done(ver[v].parent, ver[v].phase)'
      BY <1>1, <3>1, <3>2, <3>3 DEF Refers, Done, SameRow
    <3>5. \A q \in Phases : ver[v].lineage[q] # 0 => Done(ver[v].lineage[q], q)'
      BY <1>1, <3>1, <3>2 DEF Refers, Done, SameRow
    <3>6. QED
      BY <3>1, <3>2, <3>4, <3>5 DEF Refers, SameRow, Exists, Nothing
  <2>2. \A v \in Versions : Refers(v)'
    BY <2>1
  <2>3. QED
    BY <2>2 DEF RowsRefer, Refers
<1>4. ForksAreDone'
  <2> SUFFICES ASSUME NEW b \in Branches, fork'[b] # 0
               PROVE  Done(fork[b], ver[fork[b]].phase)'
    BY DEF ForksAreDone
  <2>1. fork'[b] = fork[b] /\ fork[b] # f
    BY DEF Unneeded
  <2>2. Done(fork[b], ver[fork[b]].phase)
    BY <2>1 DEF Shape, ForksAreDone
  <2>3. QED
    BY <2>1, <2>2 DEF Done, Unneeded, SameRow
<1>5. QED
  BY <1>2, <1>3, <1>4

\* begin_phase_version: a new version that names the heads of its branch.
LEMMA RowBegins ==
    ASSUME Shaped, Shape, Shaped', NEW f \in Versions, NEW c \in Branches, NEW p \in Phases,
           ver[f].status = "unused", \A v \in Versions : v < f => ver[v].status # "unused",
           \A v \in Versions \ {f} : SameRow(v),
           ver'[f].status = "running", ver'[f].phase = p, ver'[f].branch = c,
           ver'[f].parent = head[c][p], ver'[f].lineage = Upstream(head[c], p),
           UNCHANGED <<fork, head, direct>>
    PROVE  Shape'
<1>1. /\ \A v \in Versions : ver[v].parent # f /\ \A q \in Phases : ver[v].lineage[q] # f
      /\ \A b \in Branches : fork[b] # f
      /\ \A b \in Branches, q \in Phases : head[b][q] # f
  BY UnfinishedIsFree
<1>2. Unneeded(f)
  BY <1>1 DEF Unneeded
<1>3. \A b \in Branches, q \in Phases : head[b][q] # 0 =>
          head[b][q] # f /\ Done(head[b][q], q) /\ Done(head[b][q], q)'
  BY <1>1, DoneStays DEF Shape, HeadsAreDone, Done
<1>4. Refers(f)'
  <2>1. head[c][p] # 0 => head[c][p] < f
    <3>1. ASSUME head[c][p] # 0 PROVE head[c][p] < f
      <4>1. head[c][p] \in Versions /\ ver[head[c][p]].status # "unused" /\ head[c][p] # f
        BY <1>3, <3>1 DEF Done
      <4>2. ~ (f < head[c][p])
        BY <4>1 DEF Shape, UsedInOrder
      <4>3. QED
        BY <4>1, <4>2 DEF Versions
    <3>2. QED
      BY <3>1
  <2>2. \A q \in Phases : Upstream(head[c], p)[q] # 0 => Done(head[c][q], q)'
                                                        /\ Upstream(head[c], p)[q] = head[c][q]
    BY <1>3 DEF Upstream
  <2>3. Exists(f)'
    BY DEF Exists
  <2>4. QED
    BY <1>3, <2>1, <2>2, <2>3 DEF Refers, Done
<1>5. UsedInOrder' /\ RowsRefer' /\ ForksAreDone'
  BY <1>2, <1>4, OneRowChanges
<1>6. HeadsAreDone'
  BY <1>3 DEF HeadsAreDone
<1>7. ASSUME NEW b \in Branches, NEW q \in Phases PROVE FollowsAt(b, q)'
  <2>1. FollowsAt(b, q)
    BY DEF Shape, HeadsFollowUpstream, FollowsAt
  <2>2. CASE <<b, q>> \in direct
    BY <2>2 DEF FollowsAt
  <2>3. CASE <<b, q>> \notin direct /\ head[b][q] = 0
    <3>1. ver'[f].phase = q /\ ver'[f].branch = b => ver'[f].parent = 0
      BY <2>3
    <3>2. Matching(b, head[b], q)' \subseteq Matching(b, head[b], q)
      BY <1>1, <2>3, <3>1, MatchingShrinks, ShapeIsSound DEF Shaped
    <3>3. QED
      BY <2>1, <2>3, <3>2 DEF FollowsAt
  <2>4. CASE <<b, q>> \notin direct /\ head[b][q] # 0
    BY <1>3, <2>1, <2>4 DEF FollowsAt, Done, SameRow, Upstream
  <2>5. QED
    BY <2>2, <2>3, <2>4
<1>8. HeadsFollowUpstream'
  BY <1>7 DEF HeadsFollowUpstream, FollowsAt
<1>9. QED
  BY <1>5, <1>6, <1>8 DEF Shape

\* fail_phase_version.
LEMMA RowFails ==
    ASSUME Shaped, Shape, Shaped', NEW f \in Versions, ver[f].status = "running",
           \A v \in Versions \ {f} : SameRow(v),
           ver'[f].status = "failed", ver'[f].phase = ver[f].phase,
           ver'[f].branch = ver[f].branch, ver'[f].parent = ver[f].parent,
           ver'[f].lineage = ver[f].lineage,
           UNCHANGED <<fork, head, direct>>
    PROVE  Shape'
<1>1. /\ \A v \in Versions : ver[v].parent # f /\ \A q \in Phases : ver[v].lineage[q] # f
      /\ \A b \in Branches : fork[b] # f
      /\ \A b \in Branches, q \in Phases : head[b][q] # f
  BY UnfinishedIsFree
<1>2. Unneeded(f)
  BY <1>1 DEF Unneeded
<1>3. \A v, q : Done(v, q) => Done(v, q)'
  BY DoneStays DEF Done
<1>4. Refers(f)'
  <2>1. Refers(f)
    BY DEF Shape, RowsRefer, Refers
  <2>2. Exists(f)'
    BY DEF Exists
  <2>3. QED
    BY <1>3, <2>1, <2>2 DEF Refers, Done
<1>5. \A v \in Versions : v < f => ver[v].status # "unused"
  BY DEF Shape, UsedInOrder
<1>6. UsedInOrder' /\ RowsRefer' /\ ForksAreDone'
  BY <1>2, <1>4, <1>5, OneRowChanges
<1>7. HeadsAreDone'
  BY <1>3 DEF HeadsAreDone, Shape, Done
<1>8. ASSUME NEW b \in Branches, NEW q \in Phases PROVE FollowsAt(b, q)'
  <2>1. FollowsAt(b, q)
    BY DEF Shape, HeadsFollowUpstream, FollowsAt
  <2>2. CASE <<b, q>> \in direct
    BY <2>2 DEF FollowsAt
  <2>3. CASE <<b, q>> \notin direct /\ head[b][q] = 0
    <3>1. ASSUME ver[f].phase = q, ver[f].branch = b, ver[f].parent # 0
          PROVE  /\ ver[f].parent \in Versions \ {f}
                 /\ Ancestry[ver[f].parent] \subseteq Reachable(b, head[b], q)
      <4>1. ver[f].parent \in Versions
        BY <3>1 DEF Shape, RowsRefer, Done
      <4>2. f \in Roots(b, head[b], q)
        BY <3>1 DEF Roots, Exists
      <4>3. Ancestry[ver[f].parent] \subseteq Ancestry[f]
        BY <3>1, ChainOf DEF Shaped
      <4>4. QED
        BY <1>1, <4>1, <4>2, <4>3, ReachableFromRoots
    <3>2. Matching(b, head[b], q)' \subseteq Matching(b, head[b], q)
      BY <1>1, <2>3, <3>1, MatchingShrinks, ShapeIsSound DEF Shaped
    <3>3. QED
      BY <2>1, <2>3, <3>2 DEF FollowsAt
  <2>4. CASE <<b, q>> \notin direct /\ head[b][q] # 0
    <3>1. head[b][q] \in Versions \ {f}
      BY <1>1, <2>4 DEF Shape, HeadsAreDone, Done
    <3>2. QED
      BY <2>1, <2>4, <3>1 DEF FollowsAt, SameRow, Upstream
  <2>5. QED
    BY <2>2, <2>3, <2>4
<1>9. HeadsFollowUpstream'
  BY <1>8 DEF HeadsFollowUpstream, FollowsAt
<1>10. QED
  BY <1>6, <1>7, <1>9 DEF Shape

\* delete_phase_version: nothing refers to the version any more.
LEMMA RowGoes ==
    ASSUME Shaped, Shape, Shaped', NEW f \in Versions, Exists(f), Unreferenced(f),
           \A v \in Versions \ {f} : SameRow(v),
           ver'[f].status = "deleted", ver'[f].parent = 0, ver'[f].lineage = Nothing,
           fork' = [b \in Branches |-> IF fork[b] = f THEN 0 ELSE fork[b]],
           UNCHANGED <<head, direct>>
    PROVE  Shape'
<1>1. ASSUME NEW v \in Versions
      PROVE  ver[v].parent # f /\ \A q \in Phases : ver[v].lineage[q] # f
  <2>1. Refers(v) /\ f # 0
    BY DEF Shape, RowsRefer, Refers, Versions
  <2>2. CASE Exists(v)
    BY <2>1, <2>2 DEF Unreferenced, Refers, Done
  <2>3. CASE ~ Exists(v)
    BY <2>1, <2>3 DEF Refers, Nothing
  <2>4. QED
    BY <2>2, <2>3
<1>2. \A b \in Branches, q \in Phases : head[b][q] # f
  <2>1. f # 0
    BY DEF Versions
  <2>2. QED
    BY <2>1 DEF Unreferenced, Shape, HeadsAreDone, Done
<1>3. \A b \in Branches : fork'[b] = 0 \/ (fork'[b] = fork[b] /\ fork[b] # f)
  OBVIOUS
<1>4. Unneeded(f)
  BY <1>1, <1>3 DEF Unneeded
<1>5. \A v, q : v # f /\ Done(v, q) => Done(v, q)'
  BY DoneStays DEF Done
<1>6. Refers(f)'
  BY DEF Refers, Nothing
<1>7. \A v \in Versions : v < f => ver[v].status # "unused"
  BY DEF Shape, UsedInOrder, Exists
<1>8. UsedInOrder' /\ RowsRefer' /\ ForksAreDone'
  BY <1>4, <1>6, <1>7, OneRowChanges
<1>9. HeadsAreDone'
  BY <1>2, <1>5 DEF HeadsAreDone, Shape, Done
<1>10. ASSUME NEW b \in Branches, NEW q \in Phases PROVE FollowsAt(b, q)'
  <2>1. FollowsAt(b, q)
    BY DEF Shape, HeadsFollowUpstream, FollowsAt
  <2>2. CASE <<b, q>> \in direct
    BY <2>2 DEF FollowsAt
  <2>3. CASE <<b, q>> \notin direct /\ head[b][q] = 0
    <3>1. ~ Exists(f)'
      BY DEF Exists
    <3>2. Matching(b, head[b], q)' \subseteq Matching(b, head[b], q)
      BY <1>1, <1>2, <1>3, <2>3, <3>1, MatchingShrinks, ShapeIsSound DEF Shaped
    <3>3. QED
      BY <2>1, <2>3, <3>2 DEF FollowsAt
  <2>4. CASE <<b, q>> \notin direct /\ head[b][q] # 0
    <3>1. head[b][q] \in Versions \ {f}
      BY <1>2, <2>4 DEF Shape, HeadsAreDone, Done
    <3>2. QED
      BY <2>1, <2>4, <3>1 DEF FollowsAt, SameRow, Upstream
  <2>5. QED
    BY <2>2, <2>3, <2>4
<1>11. HeadsFollowUpstream'
  BY <1>10 DEF HeadsFollowUpstream, FollowsAt
<1>12. QED
  BY <1>8, <1>9, <1>11 DEF Shape

\* A finished version, or one that has just been committed, becomes the head of its
\* phase, and the later heads of the branch follow.
LEMMA HeadMoves ==
    ASSUME Shaped, Shape, Shaped',
           NEW f \in Versions, NEW c \in Branches, NEW p \in Phases, NEW T,
           ver[f].status = "done" \/ (ver[f].status = "running" /\ ver[f].branch = c),
           ver[f].phase = p,
           \A v \in Versions \ {f} : SameRow(v),
           ver'[f].status = "done", ver'[f].phase = p, ver'[f].branch = ver[f].branch,
           ver'[f].parent = ver[f].parent, ver'[f].lineage = ver[f].lineage,
           Follows(T, c, [head[c] EXCEPT ![p] = f], p),
           fork' = fork, head' = [head EXCEPT ![c] = T],
           direct' = {d \in direct : d[1] # c \/ d[2] < p} \cup {<<c, p>>}
    PROVE  Shape'
<1>1. ver[f].status = "running" =>
          /\ \A v \in Versions : ver[v].parent # f /\ \A q \in Phases : ver[v].lineage[q] # f
          /\ \A b \in Branches : fork[b] # f
          /\ \A b \in Branches, q \in Phases : head[b][q] # f
  BY UnfinishedIsFree
<1>2. ver[f].status = "done" => \A v \in Versions : SameRow(v)
  BY DEF SameRow
<1>3. \A v, q : Done(v, q) => Done(v, q)'
  BY DoneStays DEF Done
<1>4. Done(f, p)'
  BY DEF Done
<1>5. UsedInOrder' /\ RowsRefer'
  <2>1. CASE ver[f].status = "done"
    BY <1>2, <2>1, RowsRest
  <2>2. CASE ver[f].status = "running"
    <3>1. Unneeded(f)
      BY <1>1, <2>2 DEF Unneeded
    <3>2. Refers(f)'
      <4>1. Refers(f) /\ Exists(f)
        BY <2>2 DEF Shape, RowsRefer, Refers, Exists
      <4>2. QED
        BY <1>3, <4>1 DEF Refers, Done, Exists
    <3>3. \A v \in Versions : v < f => ver[v].status # "unused"
      BY <2>2 DEF Shape, UsedInOrder
    <3>4. QED
      BY <3>1, <3>2, <3>3, OneRowChanges
  <2>3. QED
    BY <2>1, <2>2
<1>6. ForksAreDone'
  BY <1>3 DEF Shape, ForksAreDone, Done
<1>7. T \in Heads /\ \A q \in Phases : q < p => T[q] = head[c][q]
  BY DEF Follows, Heads, Phases, Shaped
<1>8. T[p] = f
  <2>1. head[c] \in Heads
    BY DEF Shaped
  <2>2. [head[c] EXCEPT ![p] = f][p] = f
    BY <2>1 DEF Heads
  <2>3. p <= p
    BY DEF Phases
  <2>4. QED
    BY <2>2, <2>3 DEF Follows
<1>9. \A b \in Branches : head'[b] = IF b = c THEN T ELSE head[b]
  BY DEF Shaped
<1>10. \A q \in Phases : q > p /\ T[q] # 0 => Done(T[q], q)
  BY DEF Follows
<1>11. HeadsAreDone'
  <2> SUFFICES ASSUME NEW b \in Branches, NEW q \in Phases, head'[b][q] # 0
               PROVE  Done(head[b][q], q)'
    BY DEF HeadsAreDone
  <2>1. CASE b # c
    BY <1>3, <1>9, <2>1 DEF Shape, HeadsAreDone
  <2>2. CASE b = c /\ q < p
    BY <1>3, <1>7, <1>9, <2>2 DEF Shape, HeadsAreDone
  <2>3. CASE b = c /\ q = p
    BY <1>4, <1>8, <1>9, <2>3
  <2>4. CASE b = c /\ q > p
    BY <1>3, <1>9, <1>10, <2>4
  <2>5. QED
    BY <2>1, <2>2, <2>3, <2>4 DEF Phases
<1>12. ASSUME NEW b \in Branches, NEW q \in Phases, NEW h,
              h[q] # 0 => Done(h[q], q), b # c \/ q # p
       PROVE  Matching(b, h, q)' \subseteq Matching(b, h, q)
  <2>1. CASE ver[f].status = "done"
    BY <1>2, <1>12, <2>1, MatchingSame, ShapeIsSound DEF Shaped
  <2>2. CASE ver[f].status = "running"
    <3>1. ~ (ver'[f].phase = q /\ ver'[f].branch = b) /\ h[q] # f
      BY <1>12, <2>2 DEF Done, Versions
    <3>2. QED
      BY <1>1, <1>12, <2>2, <3>1, MatchingShrinks, ShapeIsSound DEF Shaped
  <2>3. QED
    BY <2>1, <2>2
<1>13. ASSUME NEW b \in Branches, NEW q \in Phases PROVE FollowsAt(b, q)'
  <2>1. FollowsAt(b, q)
    BY DEF Shape, HeadsFollowUpstream, FollowsAt
  <2>2. CASE <<b, q>> \in direct'
    BY <2>2 DEF FollowsAt
  <2>3. CASE <<b, q>> \notin direct' /\ (b # c \/ q < p)
    <3>1. <<b, q>> \notin direct
      BY <2>3
    <3>2. head'[b][q] = head[b][q] /\ Upstream(head'[b], q) = Upstream(head[b], q)
      <4>1. CASE b # c
        BY <1>9, <4>1
      <4>2. CASE b = c /\ q < p
        BY <1>7, <1>9, <4>2 DEF Upstream, Phases
      <4>3. QED
        BY <2>3, <4>1, <4>2
    <3>3. head[b][q] # 0 => Done(head[b][q], q)
      BY DEF Shape, HeadsAreDone
    <3>4. CASE head[b][q] = 0
      <4>1. Matching(b, head'[b], q) \subseteq Matching(b, head[b], q)
        BY <3>2, FewerMatch
      <4>2. Matching(b, head[b], q)' \subseteq Matching(b, head'[b], q)
        BY <1>12, <2>3, <3>2, <3>4 DEF Phases
      <4>3. Matching(b, head[b], q) = {}
        BY <2>1, <3>1, <3>4 DEF FollowsAt
      <4>4. QED
        BY <3>2, <3>4, <4>1, <4>2, <4>3 DEF FollowsAt
    <3>5. CASE head[b][q] # 0
      <4>1. ver[head[b][q]].lineage = Upstream(head[b], q)
        BY <2>1, <3>1, <3>5 DEF FollowsAt
      <4>2. ver'[head[b][q]].lineage = ver[head[b][q]].lineage
        BY <3>3, <3>5 DEF Done, SameRow
      <4>3. Upstream(head[b], q)' = Upstream(head[b], q)
        BY <3>2 DEF Upstream
      <4>4. QED
        BY <3>2, <3>5, <4>1, <4>2, <4>3 DEF FollowsAt
    <3>6. QED
      BY <3>4, <3>5
  <2>4. CASE <<b, q>> \notin direct' /\ b = c /\ ~ (q < p)
    <3>1. q > p
      BY <2>4 DEF Phases
    <3>2. IF T[q] = 0 THEN Matching(c, T, q) = {}
          ELSE Done(T[q], q) /\ ver[T[q]].lineage = Upstream(T, q)
      BY <3>1 DEF Follows
    <3>3. head'[b] = T
      BY <1>9, <2>4
    <3>4. CASE T[q] = 0
      <4>1. Matching(b, head[b], q)' \subseteq Matching(b, T, q)
        BY <1>12, <2>4, <3>1, <3>3, <3>4 DEF Phases
      <4>2. QED
        BY <2>4, <3>2, <3>3, <3>4, <4>1 DEF FollowsAt
    <3>5. CASE T[q] # 0
      <4>1. ver'[T[q]].lineage = ver[T[q]].lineage
        BY <3>2, <3>5 DEF Done, SameRow
      <4>2. Upstream(head[b], q)' = Upstream(T, q)
        BY <3>3 DEF Upstream
      <4>3. QED
        BY <3>2, <3>3, <3>5, <4>1, <4>2 DEF FollowsAt
    <3>6. QED
      BY <3>4, <3>5
  <2>5. QED
    BY <2>2, <2>3, <2>4
<1>14. HeadsFollowUpstream'
  BY <1>13 DEF HeadsFollowUpstream, FollowsAt
<1>15. QED
  BY <1>5, <1>6, <1>11, <1>14 DEF Shape

\* create_run_branch: the heads of the new branch are what its base was computed from.
LEMMA BranchForks ==
    ASSUME Shaped, Shape, Shaped', NEW c \in Branches, NEW f \in Versions,
           ver[f].status = "done", UNCHANGED ver,
           fork' = [fork EXCEPT ![c] = f],
           head' = [head EXCEPT ![c] = [ver[f].lineage EXCEPT ![ver[f].phase] = f]],
           direct' = direct \cup {<<c, q>> : q \in Phases}
    PROVE  Shape'
<1>1. \A v \in Versions : SameRow(v)
  BY DEF SameRow
<1>2. UsedInOrder' /\ RowsRefer'
  BY <1>1, RowsRest
<1>3. \A v, q : Done(v, q) => Done(v, q)'
  BY DEF Done
<1>4. ver[f].phase \in Phases /\ ver[f].lineage \in Heads
  BY DEF Shaped, Rows, Row
<1>5. Done(f, ver[f].phase)
  BY DEF Done
<1>6. ForksAreDone'
  BY <1>3, <1>5 DEF Shape, Shaped, ForksAreDone, Done
<1>7. \A b \in Branches : head'[b] = IF b = c THEN [ver[f].lineage EXCEPT ![ver[f].phase] = f]
                                     ELSE head[b]
  BY DEF Shaped
<1>8. HeadsAreDone'
  <2> SUFFICES ASSUME NEW b \in Branches, NEW q \in Phases, head'[b][q] # 0
               PROVE  Done(head[b][q], q)'
    BY DEF HeadsAreDone
  <2>1. CASE b # c
    BY <1>3, <1>7, <2>1 DEF Shape, HeadsAreDone
  <2>2. CASE b = c /\ q # ver[f].phase
    <3>1. head'[b][q] = ver[f].lineage[q]
      BY <1>4, <1>7, <2>2 DEF Heads
    <3>2. QED
      BY <1>3, <3>1 DEF Shape, RowsRefer
  <2>3. CASE b = c /\ q = ver[f].phase
    BY <1>3, <1>4, <1>5, <1>7, <2>3 DEF Heads
  <2>4. QED
    BY <2>1, <2>2, <2>3
<1>9. ASSUME NEW b \in Branches, NEW q \in Phases PROVE FollowsAt(b, q)'
  <2>1. FollowsAt(b, q)
    BY DEF Shape, HeadsFollowUpstream, FollowsAt
  <2>2. CASE <<b, q>> \in direct'
    BY <2>2 DEF FollowsAt
  <2>3. CASE <<b, q>> \notin direct'
    <3>1. b # c /\ <<b, q>> \notin direct
      BY <2>3
    <3>2. head'[b] = head[b] /\ fork'[b] = fork[b]
      BY <1>7, <3>1 DEF Shaped
    <3>3. CASE head[b][q] = 0
      <4>1. Matching(b, head[b], q)' \subseteq Matching(b, head[b], q)
        BY <1>1, <3>2, <3>3, MatchingSame, ShapeIsSound DEF Shaped
      <4>2. QED
        BY <2>1, <3>1, <3>2, <3>3, <4>1 DEF FollowsAt
    <3>4. CASE head[b][q] # 0
      BY <2>1, <3>1, <3>2, <3>4 DEF FollowsAt, Upstream
    <3>5. QED
      BY <3>3, <3>4
  <2>4. QED
    BY <2>2, <2>3
<1>10. HeadsFollowUpstream'
  BY <1>9 DEF HeadsFollowUpstream, FollowsAt
<1>11. QED
  BY <1>2, <1>6, <1>8, <1>10 DEF Shape
-----------------------------------------------------------------------------
(* Types of what the steps put together.                                    *)

LEMMA ValueTypes ==
    /\ 0 \in Version /\ Versions \subseteq Version /\ Version \ {0} \subseteq Versions
    /\ 1 \in Phases /\ Phases \subseteq 0..N /\ 0 \in 0..N
    /\ Nothing \in Heads
    /\ NoBytes \in Bytes
    /\ \A v \in Version : Written(v) \in Bytes
    /\ NoVersion \in Row
    /\ Idle \in Attempts
<1>1. 0 \in Version /\ Versions \subseteq Version /\ Version \ {0} \subseteq Versions
  BY SizesAssumption DEF Version, Versions
<1>2. 1 \in Phases /\ Phases \subseteq 0..N /\ 0 \in 0..N
  BY SizesAssumption DEF Phases
<1>3. Nothing \in Heads /\ NoBytes \in Bytes /\ \A v \in Version : Written(v) \in Bytes
  BY <1>1 DEF Nothing, Heads, NoBytes, Bytes, Written
<1>4. NoVersion \in Row
  BY <1>1, <1>2, <1>3, BranchAssumption DEF NoVersion, Row
<1>5. Idle \in Attempts
  BY <1>1, <1>2, <1>3, BranchAssumption DEF Idle, Attempts, RunState
<1>6. QED
  BY <1>1, <1>2, <1>3, <1>4, <1>5

LEMMA LeastPhase ==
    ASSUME NEW S \in SUBSET Phases, S # {}
    PROVE  Least(S) \in Phases
<1>1. Phases \subseteq Nat
  BY DEF Phases
<1>2. QED
  BY <1>1, LeastIsIn

LEMMA FirstIsPhase ==
    ASSUME NEW h, NEW p
    PROVE  FirstHead(h, p) \in 0..N /\ FirstFile(p) \in 0..N
<1>1. FirstHead(h, p) \in 0..N
  <2> DEFINE qs == {q \in Phases : q > p /\ h[q] # 0}
  <2>1. qs \in SUBSET Phases
    OBVIOUS
  <2>2. FirstHead(h, p) = IF qs = {} THEN 0 ELSE Least(qs)
    BY DEF FirstHead
  <2> HIDE DEF qs
  <2>3. QED
    BY <2>1, <2>2, LeastPhase, ValueTypes
<1>2. FirstFile(p) \in 0..N
  <2> DEFINE qs == {q \in Phases : q > p /\ disk[q] # NoBytes}
  <2>1. qs \in SUBSET Phases
    OBVIOUS
  <2>2. FirstFile(p) = IF qs = {} THEN 0 ELSE Least(qs)
    BY DEF FirstFile
  <2> HIDE DEF qs
  <2>3. QED
    BY <2>1, <2>2, LeastPhase, ValueTypes
<1>3. QED
  BY <1>1, <1>2

LEMMA RestoredType ==
    ASSUME TypeOK, NEW h \in Heads, NEW first
    PROVE  Restored(h, first) \in [Phases -> Bytes]
<1>1. ASSUME NEW q \in Phases, h[q] # 0 PROVE ver[h[q]].bytes \in Bytes
  <2>1. h[q] \in Versions
    BY <1>1, ValueTypes DEF Heads
  <2>2. QED
    BY <2>1 DEF TypeOK, Row
<1>2. QED
  BY <1>1, ValueTypes DEF Restored, TypeOK

\* What TypeOK says of the attempt a.
LEMMA TypeOfAttempt ==
    ASSUME TypeOK, NEW a \in Actors
    PROVE  /\ att[a] \in Attempts
           /\ att[a].phase \in Phases
           /\ att[a].branch \in Branches
           /\ att[a].base \in Version /\ att[a].pv \in Version /\ att[a].prior \in Version
           /\ att[a].backup \in Bytes
           /\ att[a].before \in RunState
           /\ att[a].kind \in {"job", "rerun", "edit", "replace"}
BY DEF TypeOK, Attempts

LEMMA AttemptMoves ==
    ASSUME TypeOK, NEW a \in Actors, NEW t \in Attempts, att' = [att EXCEPT ![a] = t]
    PROVE  /\ att' \in [Actors -> Attempts]
           /\ att'[a] = t
           /\ \A b \in Actors \ {a} : att'[b] = att[b]
BY DEF TypeOK

\* At most one attempt has the lock.
LEMMA OneHolds ==
    ASSUME LockIsHeld, NEW a \in Actors, att[a].pc \in Held
    PROVE  lock = a /\ lock # NoActor /\ \A b \in Actors \ {a} : att[b].pc \notin Held
BY ActorsAssumption DEF LockIsHeld

LEMMA NobodyHolds ==
    ASSUME LockIsHeld, lock = NoActor
    PROVE  \A b \in Actors : att[b].pc \notin Held
BY ActorsAssumption DEF LockIsHeld

\* Attempts without the lock write nothing and have nothing to keep current.
LEMMA FreeIsQuiet ==
    ASSUME NEW a \in Actors, \A b \in Actors \ {a} : att[b].pc \notin Held
    PROVE  /\ \A b \in Actors \ {a} : AttemptIsCurrent(att[b])
           /\ \A q \in Phases : Writing(q) =>
                 att[a].phase = q /\ att[a].pc \in {"working", "returned", "raised"}
BY DEF AttemptIsCurrent, Held, Versioned, Writing

LEMMA FreeIsQuietAfter ==
    ASSUME \A b \in Actors : att'[b].pc \notin Held
    PROVE  /\ \A b \in Actors : AttemptIsCurrent(att[b])'
           /\ \A q \in Phases : ~ Writing(q)'
BY DEF AttemptIsCurrent, Held, Versioned, Writing

LEMMA ShapeIsShaped == TypeOK => Shaped
BY DEF TypeOK, Shaped, Rows
-----------------------------------------------------------------------------
(* Steps that leave the graph alone.                                        *)

LEMMA ShapeRests ==
    ASSUME TypeOK, TypeOK', Shape, UNCHANGED <<ver, fork, head, direct>>
    PROVE  Shape'
<1>1. \A v \in Versions : SameRow(v)
  BY DEF SameRow
<1>2. Shaped /\ Shaped'
  BY DEF TypeOK, Shaped, Rows
<1>3. QED
  BY <1>1, <1>2, GraphRests

\* A step of an attempt that has the lock neither before nor after it.
LEMMA FreeStep ==
    ASSUME Invariant, TypeOK',
           UNCHANGED <<lock, active, branch, fork, head, ver, disk, direct, raced>>,
           NEW a \in Actors, \A b \in Actors \ {a} : att'[b] = att[b],
           att[a].pc \notin Held, att'[a].pc \notin Held,
           att'[a].pc # "idle" /\ att'[a].kind = "replace" => att'[a].base \in Versions
    PROVE  Invariant'
<1>1. Shape'
  BY ShapeRests DEF Invariant
<1>2. LockIsHeld' /\ ActiveIsThere'
  BY DEF Invariant, Course, LockIsHeld, ActiveIsThere
<1>3. AttemptsOwn'
  BY DEF Invariant, Course, AttemptsOwn, Own, Versioned, Held
<1>4. ASSUME NEW b \in Actors, AttemptIsCurrent(att[b]) PROVE AttemptIsCurrent(att[b])'
  <2>1. CASE b = a
    BY <2>1 DEF AttemptIsCurrent, Held, Versioned
  <2>2. CASE b # a
    BY <1>4, <2>2 DEF AttemptIsCurrent, ReadIsLineage, Upstream
  <2>3. QED
    BY <2>1, <2>2
<1>5. \A q \in Phases : Writing(q)' <=> Writing(q)
  BY DEF Writing, Held
<1>6. Undisturbed'
  BY <1>4, <1>5 DEF Invariant, Undisturbed, BytesAreOwn, FilesAreHeads, LineageIsRead, ReadIsLineage
<1>7. QED
  BY <1>1, <1>2, <1>3, <1>6 DEF Invariant, Course

\* A user's step that moves no head and no file.
LEMMA UserStep ==
    ASSUME Invariant, TypeOK',
           UNCHANGED <<lock, active, branch, fork, head, ver, att, direct, raced>>,
           \A q \in Phases : disk'[q].by = disk[q].by
    PROVE  Invariant'
<1>1. Shape'
  BY ShapeRests DEF Invariant
<1>2. LockIsHeld' /\ ActiveIsThere'
  BY DEF Invariant, Course, LockIsHeld, ActiveIsThere
<1>3. AttemptsOwn'
  BY DEF Invariant, Course, AttemptsOwn, Own, Versioned
<1>4. ASSUME NEW b \in Actors, AttemptIsCurrent(att[b]) PROVE AttemptIsCurrent(att[b])'
  <2>1. att[b].phase \in Phases
    BY TypeOfAttempt DEF Invariant
  <2>2. QED
    BY <1>4, <2>1 DEF AttemptIsCurrent, ReadIsLineage, Upstream
<1>5. \A q \in Phases : Writing(q)' <=> Writing(q)
  BY DEF Writing
<1>6. Undisturbed'
  BY <1>4, <1>5 DEF Invariant, Undisturbed, BytesAreOwn, FilesAreHeads, LineageIsRead, ReadIsLineage
<1>7. QED
  BY <1>1, <1>2, <1>3, <1>6 DEF Invariant, Course

LEMMA CheckStartKeeps ==
    ASSUME Invariant, NEW a \in Actors, NEW p \in Phases, CheckStart(a, p)
    PROVE  Invariant'
<1> DEFINE t == [Idle EXCEPT !.pc = "checked", !.phase = p]
<1>1. t \in Attempts /\ t.pc = "checked" /\ t.kind = "job"
  BY ValueTypes DEF Attempts, Idle
<1>2. att' = [att EXCEPT ![a] = t] /\ att[a].pc \notin Held
  BY DEF CheckStart, Idle, Held
<1> HIDE DEF t
<1>3. /\ att' \in [Actors -> Attempts] /\ att'[a] = t
      /\ \A b \in Actors \ {a} : att'[b] = att[b]
  BY <1>1, <1>2, AttemptMoves DEF Invariant
<1>4. TypeOK'
  BY <1>3 DEF CheckStart, graph, Invariant, TypeOK
<1>5. QED
  BY <1>1, <1>2, <1>3, <1>4, FreeStep DEF CheckStart, graph, Held

LEMMA CheckRerunKeeps ==
    ASSUME Invariant, NEW a \in Actors, NEW p \in Phases, CheckRerun(a, p)
    PROVE  Invariant'
<1> DEFINE t1 == [Idle EXCEPT !.pc = "checked", !.kind = "rerun", !.phase = p]
           t == [t1 EXCEPT !.branch = active, !.before = run]
<1>1. t1 \in Attempts /\ t1.pc = "checked" /\ t1.kind = "rerun"
  BY ValueTypes DEF Attempts, Idle
<1>2. att' = [att EXCEPT ![a] = t] /\ att[a].pc \notin Held
  BY DEF CheckRerun, Idle, Held
<1> HIDE DEF t1
<1>3. t \in Attempts /\ t.pc = "checked" /\ t.kind = "rerun"
  BY <1>1 DEF Attempts, Invariant, TypeOK
<1> HIDE DEF t
<1>4. /\ att' \in [Actors -> Attempts] /\ att'[a] = t
      /\ \A b \in Actors \ {a} : att'[b] = att[b]
  BY <1>2, <1>3, AttemptMoves DEF Invariant
<1>5. TypeOK'
  BY <1>4 DEF CheckRerun, graph, Invariant, TypeOK
<1>6. QED
  BY <1>2, <1>3, <1>4, <1>5, FreeStep DEF CheckRerun, graph, Held

LEMMA CheckEditKeeps ==
    ASSUME Invariant, NEW a \in Actors, NEW p \in Phases, NEW k \in {"edit", "replace"},
           CheckEdit(a, p, k)
    PROVE  Invariant'
<1> DEFINE t1 == [Idle EXCEPT !.pc = "checked", !.kind = k, !.phase = p]
           t == [t1 EXCEPT !.branch = active, !.base = head[active][p]]
<1>1. t1 \in Attempts /\ t1.pc = "checked" /\ t1.kind = k
  BY ValueTypes DEF Attempts, Idle
<1>2. att' = [att EXCEPT ![a] = t] /\ att[a].pc \notin Held
  BY DEF CheckEdit, Idle, Held
<1> HIDE DEF t1
<1>3. active \in Branches /\ head[active][p] \in Version
  BY DEF Invariant, TypeOK, Heads
<1>4. t \in Attempts /\ t.pc = "checked" /\ t.kind = k /\ t.base = head[active][p]
  BY <1>1, <1>3 DEF Attempts
<1>5. t.kind = "replace" => t.base \in Versions
  BY <1>3, <1>4, ValueTypes DEF CheckEdit, MayReplace
<1> HIDE DEF t
<1>6. /\ att' \in [Actors -> Attempts] /\ att'[a] = t
      /\ \A b \in Actors \ {a} : att'[b] = att[b]
  BY <1>2, <1>4, AttemptMoves DEF Invariant
<1>7. TypeOK'
  BY <1>6 DEF CheckEdit, graph, Invariant, TypeOK
<1>8. QED
  BY <1>2, <1>4, <1>5, <1>6, <1>7, FreeStep DEF CheckEdit, graph, Held

LEMMA GiveUpKeeps ==
    ASSUME Invariant, NEW a \in Actors, GiveUp(a)
    PROVE  Invariant'
<1>1. att' = [att EXCEPT ![a] = Idle] /\ att[a].pc \notin Held /\ Idle.pc = "idle"
  BY DEF GiveUp, Idle, Held
<1>2. /\ att' \in [Actors -> Attempts] /\ att'[a] = Idle
      /\ \A b \in Actors \ {a} : att'[b] = att[b]
  BY <1>1, ValueTypes, AttemptMoves DEF Invariant
<1>3. TypeOK'
  BY <1>2 DEF GiveUp, graph, Invariant, TypeOK
<1>4. QED
  BY <1>1, <1>2, <1>3, FreeStep DEF GiveUp, graph, Held

LEMMA SettleKeeps ==
    ASSUME Invariant, NEW a \in Actors, Settle(a)
    PROVE  Invariant'
<1>1. att' = [att EXCEPT ![a] = Idle] /\ att[a].pc \notin Held /\ Idle.pc = "idle"
  BY DEF Settle, Idle, Held
<1>2. /\ att' \in [Actors -> Attempts] /\ att'[a] = Idle
      /\ \A b \in Actors \ {a} : att'[b] = att[b]
  BY <1>1, ValueTypes, AttemptMoves DEF Invariant
<1>3. stale' \in [Branches -> 0..N]
  BY FirstIsPhase DEF Settle, Invariant, TypeOK
<1>4. TypeOK'
  BY <1>2, <1>3 DEF Settle, Invariant, TypeOK
<1>5. QED
  BY <1>1, <1>2, <1>4, FreeStep DEF Settle, Held

\* The edits of sources, proposal and kernel leave marks, and no head or version moves.
LEMMA MarksKeep ==
    ASSUME Invariant, EditSources \/ EditProposal \/ EditKernel
    PROVE  Invariant'
<1>1. /\ UNCHANGED <<run, lock, active, branch, fork, head, ver, att, direct, raced>>
      /\ moves' = moves + 1
  BY DEF EditSources, EditProposal, EditKernel, Acts
<1>2. stale' \in [Branches -> 0..N]
  <2>1. CASE EditSources
    <3>1. Curator < N => AtOrEarlier(active, Curator + 1) \in 0..N
      <4>1. active \in Branches /\ stale[active] \in 0..N
        BY DEF Invariant, TypeOK
      <4>2. Curator < N => Curator + 1 \in 0..N
        BY CuratorAssumption, SizesAssumption
      <4>3. QED
        BY <4>1, <4>2 DEF AtOrEarlier
    <3>2. QED
      BY <2>1, <3>1 DEF EditSources, Invariant, TypeOK
  <2>2. CASE EditProposal
    <3> DEFINE done == {q \in Phases : head[active][q] # 0 \/ disk[q] # NoBytes}
    <3>1. done \in SUBSET Phases /\ done # {} /\ stale' = [stale EXCEPT ![active] = Least(done)]
      BY <2>2 DEF EditProposal
    <3> HIDE DEF done
    <3>2. Least(done) \in 0..N
      BY <3>1, LeastPhase, ValueTypes
    <3>3. QED
      BY <3>1, <3>2 DEF Invariant, TypeOK
  <2>3. CASE EditKernel
    BY <2>3, FirstIsPhase DEF EditKernel, KernelMarks, Invariant, TypeOK
  <2>4. QED
    BY <2>1, <2>2, <2>3
<1>3. disk' \in [Phases -> Bytes] /\ \A q \in Phases : disk'[q].by = disk[q].by
  <2>1. CASE EditSources
    <3>1. /\ disk \in [Phases -> Bytes] /\ moves + 1 \in Nat
          /\ disk' = [disk EXCEPT ![Curator].edit = moves + 1]
      BY <2>1 DEF EditSources, Invariant, TypeOK
    <3>2. QED
      BY <3>1 DEF Bytes
  <2>2. CASE EditProposal \/ EditKernel
    BY <2>2 DEF EditProposal, EditKernel, Invariant, TypeOK
  <2>3. QED
    BY <2>1, <2>2
<1>4. TypeOK'
  BY <1>1, <1>2, <1>3 DEF Invariant, TypeOK
<1>5. QED
  BY <1>1, <1>3, <1>4, UserStep
-----------------------------------------------------------------------------
(* Steps of the attempt that has the lock.                                  *)

\* The lock of one attempt and its own version, when no other attempt is changed.
LEMMA HolderStep ==
    ASSUME Invariant, NEW a \in Actors, \A b \in Actors \ {a} : att'[b] = att[b],
           \/ att[a].pc \in Held /\ att'[a].pc \in Held /\ lock' = lock
           \/ att[a].pc \in Held /\ att'[a].pc \notin Held /\ lock' = NoActor
           \/ lock = NoActor /\ att'[a].pc \in Held /\ lock' = a,
           UNCHANGED <<active, branch>>,
           \A v \in Versions :
               (/\ v # att[a].pv \/ att[a].pc \notin Versioned
                /\ ver[v].status \in {"running", "deleted"}) =>
                   /\ ver'[v].status = ver[v].status
                   /\ ver'[v].phase = ver[v].phase
                   /\ ver'[v].branch = ver[v].branch,
           att'[a].pc \in Versioned => Own(att[a])',
           att'[a].pc # "idle" /\ att'[a].kind = "replace" => att'[a].base \in Versions
    PROVE  Course'
<1>1. \A b \in Actors \ {a} : att[b].pc \notin Held /\ att'[b].pc \notin Held
  BY OneHolds, NobodyHolds DEF Invariant, Course
<1>2. LockIsHeld'
  BY <1>1, ActorsAssumption DEF Invariant, Course, LockIsHeld
<1>3. ActiveIsThere'
  BY DEF Invariant, Course, ActiveIsThere
<1>4. \A b \in Actors \ {a} : att'[b].pc \notin Versioned
  BY <1>1 DEF Held, Versioned
<1>5. AttemptsOwn'
  BY <1>4 DEF Invariant, Course, AttemptsOwn
<1>6. QED
  BY <1>2, <1>3, <1>5 DEF Course

LEMMA ClaimKeeps ==
    ASSUME Invariant, NEW a \in Actors, Claim(a)
    PROVE  Invariant'
<1> DEFINE t == [att[a] EXCEPT !.pc = "claimed"]
<1>1. /\ t \in Attempts /\ t.pc = "claimed" /\ t.kind = att[a].kind /\ t.base = att[a].base
      /\ t.phase = att[a].phase /\ t.branch = att[a].branch
  BY TypeOfAttempt DEF Invariant, Attempts
<1>2. att' = [att EXCEPT ![a] = t] /\ att[a].pc = "checked" /\ lock = NoActor /\ lock' = a
  BY DEF Claim
<1> HIDE DEF t
<1>3. /\ att' \in [Actors -> Attempts] /\ att'[a] = t
      /\ \A b \in Actors \ {a} : att'[b] = att[b]
  BY <1>1, <1>2, AttemptMoves DEF Invariant
<1>4. run' \in RunState
  <2>1. att[a].phase - 1 \in 0..N
    BY TypeOfAttempt, SizesAssumption DEF Invariant, Phases
  <2>2. run \in RunState
    BY DEF Invariant, TypeOK
  <2>3. QED
    BY <2>1, <2>2 DEF Claim, RunState
<1>5. TypeOK'
  BY <1>2, <1>3, <1>4 DEF Claim, graph, Invariant, TypeOK
<1>6. Shape'
  BY <1>5, ShapeRests DEF Claim, graph, Invariant
<1>7. Course'
  <2>1. t.kind = "replace" => t.base \in Versions
    BY <1>1, <1>2 DEF Invariant, Course, AttemptsOwn
  <2>2. UNCHANGED <<active, branch, ver>>
    BY DEF Claim, graph
  <2>3. att[a].pc \notin Versioned /\ att'[a].pc \in Held /\ att'[a].pc \notin Versioned
    BY <1>1, <1>2, <1>3 DEF Versioned, Held
  <2>4. QED
    BY <1>2, <1>3, <2>1, <2>2, <2>3, HolderStep
<1>8. ASSUME ~ raced'
      PROVE  BytesAreOwn' /\ FilesAreHeads' /\ LineageIsRead'
             /\ \A b \in Actors : AttemptIsCurrent(att[b])'
  <2>1. /\ ~ raced
        /\ t.kind # "job" => t.branch = active
        /\ t.kind # "job" /\ t.base # 0 => head[t.branch][t.phase] = t.base
    BY <1>1, <1>8 DEF Claim
  <2>2. BytesAreOwn /\ FilesAreHeads /\ LineageIsRead
    BY <2>1 DEF Invariant, Undisturbed
  <2>3. UNCHANGED <<active, head, ver, disk>>
    BY DEF Claim, graph
  <2>4. \A b \in Actors : att[b].pc \notin Held
    BY <1>2, NobodyHolds DEF Invariant, Course
  <2>5. \A q \in Phases : ~ Writing(q)
    BY <2>4 DEF Writing, Held
  <2>6. BytesAreOwn' /\ FilesAreHeads' /\ LineageIsRead'
    BY <2>2, <2>3, <2>5 DEF BytesAreOwn, FilesAreHeads, LineageIsRead, ReadIsLineage
  <2>7. AttemptIsCurrent(att[a])'
    <3>1. t.kind = "replace" => t.base = head[active][t.phase]
      <4>1. t.kind = "replace" => t.base \in Versions
        BY <1>1, <1>2 DEF Invariant, Course, AttemptsOwn
      <4>2. QED
        BY <2>1, <4>1 DEF Versions
    <3>2. QED
      BY <1>1, <1>3, <2>1, <2>3, <3>1 DEF AttemptIsCurrent, Versioned
  <2>8. \A b \in Actors \ {a} : AttemptIsCurrent(att[b])'
    BY <1>3, <2>4 DEF AttemptIsCurrent, Held, Versioned
  <2>9. QED
    BY <2>6, <2>7, <2>8
<1>9. Undisturbed'
  BY <1>8 DEF Undisturbed
<1>10. QED
  BY <1>5, <1>6, <1>7, <1>9 DEF Invariant

\* begin_phase_version.
LEMMA BeginKeeps ==
    ASSUME Invariant, NEW a \in Actors, Begin(a)
    PROVE  Invariant'
<1> DEFINE p == att[a].phase
           c == IF att[a].kind = "job" THEN active ELSE att[a].branch
           fresh == {v \in Versions : ver[v].status = "unused"}
           f == Least(fresh)
           r1 == [NoVersion EXCEPT !.status = "running", !.phase = p, !.branch = c]
           row == [r1 EXCEPT !.parent = head[c][p], !.edited = att[a].kind = "edit",
                             !.lineage = Upstream(head[c], p)]
           t1 == [att[a] EXCEPT !.pc = "begun", !.branch = c, !.pv = f]
           t == [t1 EXCEPT !.prior = head[c][p], !.backup = disk[p]]
<1>1. /\ att[a].pc = "claimed"
      /\ att[a].kind # "replace"
      /\ fresh # {}
      /\ ver' = [ver EXCEPT ![f] = row]
      /\ att' = [att EXCEPT ![a] = t]
      /\ UNCHANGED <<run, lock, active, branch, fork, stale, head, disk, moves, direct, raced>>
  BY TypeOfAttempt DEF Begin, Invariant, TypeOK, Attempts
<1>2. f \in Versions /\ ver[f].status = "unused" /\ \A v \in Versions : v < f => ver[v].status # "unused"
  <2>1. fresh \in SUBSET Nat
    BY DEF Versions
  <2> HIDE DEF fresh
  <2>2. f \in fresh /\ \A v \in fresh : f <= v
    BY <1>1, <2>1, LeastIsIn
  <2> USE DEF fresh
  <2> HIDE DEF f
  <2>3. \A v \in Versions : v < f => v \notin fresh
    BY <2>2 DEF Versions
  <2>4. QED
    BY <2>2, <2>3
<1>3. p \in Phases /\ c \in Branches /\ head[c] \in Heads /\ head[c][p] \in Version /\ disk[p] \in Bytes
  BY TypeOfAttempt DEF Invariant, TypeOK, Heads
<1> HIDE DEF c, p, fresh, f
<1>4. Upstream(head[c], p) \in Heads
  BY <1>3, ValueTypes DEF Upstream, Heads
<1>5. r1 \in Row /\ r1.status = "running" /\ r1.phase = p /\ r1.branch = c
  BY <1>3, ValueTypes DEF Row, NoVersion
<1> HIDE DEF r1
<1>6. /\ row \in Row /\ row.status = "running" /\ row.phase = p /\ row.branch = c
      /\ row.parent = head[c][p] /\ (row.edited <=> att[a].kind = "edit")
      /\ row.lineage = Upstream(head[c], p)
  BY <1>3, <1>4, <1>5 DEF Row
<1>7. t1 \in Attempts /\ t1.pc = "begun" /\ t1.branch = c /\ t1.pv = f /\ t1.phase = p /\ t1.kind = att[a].kind
  BY <1>2, <1>3, TypeOfAttempt, ValueTypes DEF Invariant, Attempts, p
<1> HIDE DEF t1
<1>8. /\ t \in Attempts /\ t.pc = "begun" /\ t.branch = c /\ t.pv = f /\ t.phase = p
      /\ t.kind = att[a].kind /\ t.prior = head[c][p] /\ t.backup = disk[p]
  BY <1>3, <1>7 DEF Attempts
<1> HIDE DEF t, row
<1>9. /\ att' \in [Actors -> Attempts] /\ att'[a] = t
      /\ \A b \in Actors \ {a} : att'[b] = att[b]
  BY <1>1, <1>8, AttemptMoves DEF Invariant
<1>10. ver' \in [Versions -> Row] /\ ver'[f] = row /\ \A v \in Versions \ {f} : ver'[v] = ver[v]
  BY <1>1, <1>2, <1>6 DEF Invariant, TypeOK
<1>11. TypeOK'
  BY <1>1, <1>9, <1>10 DEF Invariant, TypeOK
<1>12. Shape'
  <2>1. Shaped /\ Shaped' /\ \A v \in Versions \ {f} : SameRow(v)
    BY <1>10, <1>11 DEF Invariant, TypeOK, Shaped, Rows, SameRow
  <2>2. QED
    BY <1>1, <1>2, <1>3, <1>6, <1>10, <2>1, RowBegins DEF Invariant
<1>13. Course'
  <2>1. Own(att[a])'
    BY <1>2, <1>6, <1>8, <1>9, <1>10 DEF Own
  <2>2. att[a].pc \in Held /\ att'[a].pc \in Held
    BY <1>1, <1>8, <1>9 DEF Held
  <2>3. \A v \in Versions : ver[v].status \in {"running", "deleted"} => ver'[v] = ver[v]
    BY <1>2, <1>10
  <2>4. QED
    BY <1>1, <1>8, <1>9, <2>1, <2>2, <2>3, HolderStep
<1>14. ASSUME ~ raced'
       PROVE  BytesAreOwn' /\ FilesAreHeads' /\ LineageIsRead'
              /\ \A b \in Actors : AttemptIsCurrent(att[b])'
  <2>1. ~ raced /\ BytesAreOwn /\ FilesAreHeads /\ LineageIsRead /\ AttemptIsCurrent(att[a])
    BY <1>1, <1>14 DEF Invariant, Undisturbed
  <2>2. \A b \in Actors \ {a} : att[b].pc \notin Held
    BY <1>1, OneHolds DEF Invariant, Course, Held
  <2>3. c = active
    BY <1>1, <2>1 DEF AttemptIsCurrent, c, Held
  <2>4. \A q \in Phases : ~ Writing(q)
    BY <1>1, <2>2 DEF Writing, Held
  <2>5. BytesAreOwn'
    BY <1>6, <1>10, <2>1 DEF BytesAreOwn
  <2>6. FilesAreHeads'
    BY <1>1, <2>1, <2>4 DEF FilesAreHeads
  <2>7. LineageIsRead'
    BY <1>6, <1>10, <2>1 DEF LineageIsRead, ReadIsLineage
  <2>8. AttemptIsCurrent(att[a])'
    <3>1. t.prior # 0 => t.backup.by = t.prior
      BY <1>3, <1>8, <2>1, <2>3, <2>4 DEF FilesAreHeads
    <3>2. /\ t.branch = active' /\ t.prior = head'[active'][t.phase]
          /\ ver'[t.pv].lineage = Upstream(head'[active'], t.phase)
          /\ ver'[t.pv].status = "running" /\ (ver'[t.pv].edited <=> t.kind = "edit")
      BY <1>1, <1>6, <1>8, <1>10, <2>3
    <3>3. t.pc = "begun"
      BY <1>8
    <3>4. QED
      BY <1>9, <3>1, <3>2, <3>3 DEF AttemptIsCurrent, Upstream, Versioned
  <2>9. \A b \in Actors \ {a} : AttemptIsCurrent(att[b])'
    BY <1>9, <2>2 DEF AttemptIsCurrent, Held, Versioned
  <2>10. QED
    BY <2>5, <2>6, <2>7, <2>8, <2>9
<1>15. Undisturbed'
  BY <1>14 DEF Undisturbed
<1>16. QED
  BY <1>11, <1>12, <1>13, <1>15 DEF Invariant

\* Only the attempt with the lock has anything to keep current.
LEMMA HolderStaysCurrent ==
    ASSUME Invariant, NEW a \in Actors, att[a].pc \in Held,
           \A b \in Actors \ {a} : att'[b] = att[b],
           ~ raced' => BytesAreOwn' /\ FilesAreHeads' /\ LineageIsRead'
                       /\ AttemptIsCurrent(att[a])'
    PROVE  Undisturbed'
<1>1. \A b \in Actors \ {a} : att[b].pc \notin Held
  BY OneHolds DEF Invariant, Course
<1>2. \A b \in Actors \ {a} : AttemptIsCurrent(att[b])'
  BY <1>1 DEF AttemptIsCurrent, Held, Versioned
<1>3. QED
  BY <1>2 DEF Undisturbed

\* What is true of the attempt that has the lock as long as nothing was moved.
LEMMA HolderIsCurrent ==
    ASSUME Invariant, ~ raced, NEW a \in Actors, att[a].pc \in Held
    PROVE  /\ BytesAreOwn /\ FilesAreHeads /\ LineageIsRead /\ AttemptIsCurrent(att[a])
           /\ \A q \in Phases : \/ att[a].phase = q /\ att[a].pc \in {"working", "returned", "raised"}
                                \/ head[active][q] = 0
                                \/ disk[q].by = head[active][q]
<1>1. BytesAreOwn /\ FilesAreHeads /\ LineageIsRead /\ AttemptIsCurrent(att[a])
  BY DEF Invariant, Undisturbed
<1>2. \A b \in Actors \ {a} : att[b].pc \notin Held
  BY OneHolds DEF Invariant, Course
<1>3. \A q \in Phases : Writing(q) =>
          att[a].phase = q /\ att[a].pc \in {"working", "returned", "raised"}
  BY <1>2 DEF Writing, Held
<1>4. QED
  BY <1>1, <1>3 DEF FilesAreHeads

\* The agent reads what the heads of the active branch have written.
LEMMA EnterKeeps ==
    ASSUME Invariant, NEW a \in Actors, Enter(a)
    PROVE  Invariant'
<1> DEFINE v == att[a].pv
           p == att[a].phase
           seen == [u \in Phases |-> IF u < p THEN disk[u].by ELSE 0]
           row == [ver[v] EXCEPT !.read = seen]
           t == [att[a] EXCEPT !.pc = "working"]
<1>1. /\ att[a].pc = "begun"
      /\ att[a].kind # "edit"
      /\ run' = [run EXCEPT !.kind = "running"]
      /\ ver' = IF Exists(v) THEN [ver EXCEPT ![v] = row] ELSE ver
      /\ att' = [att EXCEPT ![a] = t]
      /\ UNCHANGED <<lock, active, branch, fork, stale, head, disk, moves, direct, raced>>
  BY DEF Enter
<1>2. v \in Versions /\ p \in Phases /\ Own(att[a])
  BY <1>1, TypeOfAttempt DEF Invariant, Course, AttemptsOwn, Own, Versioned
<1>3. seen \in Heads
  BY ValueTypes DEF Heads, Invariant, TypeOK, Bytes
<1> HIDE DEF seen
<1>4. /\ row \in Row /\ row.read = seen /\ row.status = ver[v].status /\ row.phase = ver[v].phase
      /\ row.branch = ver[v].branch /\ row.parent = ver[v].parent
      /\ row.lineage = ver[v].lineage /\ row.edited = ver[v].edited /\ row.bytes = ver[v].bytes
  BY <1>2, <1>3 DEF Invariant, TypeOK, Row
<1>5. /\ t \in Attempts /\ t.pc = "working" /\ t.kind = att[a].kind /\ t.phase = p
      /\ t.branch = att[a].branch /\ t.base = att[a].base /\ t.pv = v
      /\ t.prior = att[a].prior /\ t.backup = att[a].backup
  BY TypeOfAttempt DEF Invariant, Attempts
<1> HIDE DEF row, t
<1>6. /\ att' \in [Actors -> Attempts] /\ att'[a] = t
      /\ \A b \in Actors \ {a} : att'[b] = att[b]
  BY <1>1, <1>5, AttemptMoves DEF Invariant
<1>7. /\ ver' \in [Versions -> Row]
      /\ \A w \in Versions \ {v} : ver'[w] = ver[w]
      /\ ver'[v] = IF Exists(v) THEN row ELSE ver[v]
  BY <1>1, <1>2, <1>4 DEF Invariant, TypeOK
<1>8. TypeOK'
  <2>1. run' \in RunState
    BY <1>1 DEF Invariant, TypeOK, RunState
  <2>2. QED
    BY <1>1, <1>6, <1>7, <2>1 DEF Invariant, TypeOK
<1>9. \A w \in Versions : SameRow(w)
  BY <1>4, <1>7 DEF SameRow
<1>10. Shape'
  <2>1. Shaped /\ Shaped'
    BY <1>8 DEF Invariant, TypeOK, Shaped, Rows
  <2>2. QED
    BY <1>1, <1>9, <2>1, GraphRests DEF Invariant
<1>11. Course'
  <2>1. Own(att[a])'
    BY <1>2, <1>5, <1>6, <1>9 DEF Own, SameRow
  <2>2. att[a].pc \in Held /\ att'[a].pc \in Held
    BY <1>1, <1>5, <1>6 DEF Held
  <2>3. att'[a].pc # "idle" /\ att'[a].kind = "replace" => att'[a].base \in Versions
    BY <1>1, <1>5, <1>6 DEF Invariant, Course, AttemptsOwn
  <2>4. QED
    BY <1>1, <1>6, <1>9, <2>1, <2>2, <2>3, HolderStep DEF SameRow
<1>12. ASSUME ~ raced'
       PROVE  BytesAreOwn' /\ FilesAreHeads' /\ LineageIsRead' /\ AttemptIsCurrent(att[a])'
  <2>1. ~ raced /\ att[a].pc \in Held
    BY <1>1, <1>12 DEF Held
  <2>2. /\ BytesAreOwn /\ FilesAreHeads /\ LineageIsRead /\ AttemptIsCurrent(att[a])
        /\ \A q \in Phases : head[active][q] = 0 \/ disk[q].by = head[active][q]
    BY <1>1, <2>1, HolderIsCurrent
  <2>3. ver[v].status = "running" /\ ver[v].lineage = Upstream(head[active], p)
    BY <1>1, <2>2 DEF AttemptIsCurrent, Versioned
  <2>4. BytesAreOwn'
    BY <1>4, <1>7, <2>2, <2>3 DEF BytesAreOwn
  <2>5. FilesAreHeads'
    BY <1>1, <2>2 DEF FilesAreHeads
  <2>6. LineageIsRead'
    BY <1>4, <1>7, <2>2, <2>3 DEF LineageIsRead, ReadIsLineage
  <2>7. \A q \in Phases : ver'[v].lineage[q] # 0 => ver'[v].read[q] = ver'[v].lineage[q]
    <3>1. ver'[v].read = seen /\ ver'[v].lineage = Upstream(head[active], p)
      BY <1>4, <1>7, <2>3 DEF Exists
    <3>2. QED
      BY <2>2, <3>1 DEF Upstream, seen
  <2>8. AttemptIsCurrent(att[a])'
    <3>1. /\ ver'[v].status = "running" /\ ver'[v].edited = ver[v].edited
          /\ ver'[v].lineage = ver[v].lineage
      BY <1>4, <1>7, <2>3
    <3>2. /\ t.branch = active' /\ t.prior = head'[active'][t.phase]
          /\ t.prior # 0 => t.backup.by = t.prior
          /\ ver[v].edited <=> t.kind = "edit"
          /\ ver[v].lineage = Upstream(head'[active'], t.phase)
      BY <1>1, <1>5, <2>2, <2>3 DEF AttemptIsCurrent, Versioned
    <3>3. ReadIsLineage(att[a].pv)'
      BY <1>5, <1>6, <2>7 DEF ReadIsLineage
    <3>4. QED
      BY <1>1, <1>5, <1>6, <3>1, <3>2, <3>3 DEF AttemptIsCurrent, Upstream, Versioned
  <2>9. QED
    BY <2>4, <2>5, <2>6, <2>8
<1>13. Undisturbed'
  BY <1>1, <1>6, <1>12, HolderStaysCurrent DEF Held
<1>14. QED
  BY <1>8, <1>10, <1>11, <1>13 DEF Invariant

\* The files of the attempt's own phase are written, by Raise in part.
LEMMA WritesKeep ==
    ASSUME Invariant, NEW a \in Actors, Raise(a) \/ Finish(a)
    PROVE  Invariant'
<1> DEFINE p == att[a].phase
           pc == IF Finish(a) THEN "returned" ELSE "raised"
           t == [att[a] EXCEPT !.pc = pc]
<1>1. /\ att[a].pc \in {"begun", "working"}
      /\ pc = "returned" => att[a].pc = "working"
      /\ att' = [att EXCEPT ![a] = t]
      /\ UNCHANGED <<lock, active, graph, moves, direct, raced>>
  BY DEF Raise, Finish
<1>2. p \in Phases /\ att[a].pv \in Version /\ Own(att[a])
  BY <1>1, TypeOfAttempt DEF Invariant, Course, AttemptsOwn, Versioned
<1>3. /\ disk' = disk \/ disk' = [disk EXCEPT ![p] = Written(att[a].pv)]
      /\ pc = "returned" => disk' = [disk EXCEPT ![p] = Written(att[a].pv)]
  BY DEF Raise, Finish
<1>4. run' \in RunState
  BY <1>2, ValueTypes DEF Raise, Finish, Invariant, TypeOK, RunState
<1>5. pc \in {"returned", "raised"}
  OBVIOUS
<1> HIDE DEF pc
<1>6. /\ t \in Attempts /\ t.pc = pc /\ t.kind = att[a].kind /\ t.phase = p
      /\ t.branch = att[a].branch /\ t.base = att[a].base /\ t.pv = att[a].pv
      /\ t.prior = att[a].prior /\ t.backup = att[a].backup
  BY <1>5, TypeOfAttempt DEF Invariant, Attempts
<1> HIDE DEF t
<1>7. /\ att' \in [Actors -> Attempts] /\ att'[a] = t
      /\ \A b \in Actors \ {a} : att'[b] = att[b]
  BY <1>1, <1>6, AttemptMoves DEF Invariant
<1>8. /\ disk' \in [Phases -> Bytes]
      /\ \A q \in Phases \ {p} : disk'[q] = disk[q]
      /\ pc = "returned" => disk'[p].by = att[a].pv
  BY <1>2, <1>3, ValueTypes DEF Invariant, TypeOK, Written
<1>9. TypeOK'
  BY <1>1, <1>4, <1>7, <1>8 DEF graph, Invariant, TypeOK
<1>10. Shape'
  BY <1>1, <1>9, ShapeRests DEF graph, Invariant
<1>11. att[a].pc \in Held /\ att'[a].pc \in Held
  BY <1>1, <1>5, <1>6, <1>7 DEF Held
<1>12. Course'
  <2>1. Own(att[a])'
    BY <1>1, <1>2, <1>6, <1>7 DEF graph, Own
  <2>2. att'[a].pc # "idle" /\ att'[a].kind = "replace" => att'[a].base \in Versions
    BY <1>1, <1>6, <1>7 DEF Invariant, Course, AttemptsOwn
  <2>3. QED
    BY <1>1, <1>7, <1>11, <2>1, <2>2, HolderStep DEF graph
<1>13. ASSUME ~ raced'
       PROVE  BytesAreOwn' /\ FilesAreHeads' /\ LineageIsRead' /\ AttemptIsCurrent(att[a])'
  <2>1. ~ raced /\ UNCHANGED <<active, head, ver>>
    BY <1>1, <1>13 DEF graph
  <2>2. /\ BytesAreOwn /\ FilesAreHeads /\ LineageIsRead /\ AttemptIsCurrent(att[a])
        /\ \A q \in Phases \ {p} : head[active][q] = 0 \/ disk[q].by = head[active][q]
    BY <1>11, <2>1, HolderIsCurrent
  <2>3. BytesAreOwn' /\ LineageIsRead'
    BY <2>1, <2>2 DEF BytesAreOwn, LineageIsRead, ReadIsLineage
  <2>4. \A q \in Phases : q = p => Writing(q)'
    BY <1>5, <1>6, <1>7 DEF Writing
  <2>5. FilesAreHeads'
    BY <1>8, <2>1, <2>2, <2>4 DEF FilesAreHeads
  <2>6. AttemptIsCurrent(att[a])'
    BY <1>1, <1>5, <1>6, <1>7, <1>8, <2>1, <2>2
    DEF AttemptIsCurrent, Upstream, Versioned, Held, ReadIsLineage
  <2>7. QED
    BY <2>3, <2>5, <2>6
<1>14. Undisturbed'
  BY <1>7, <1>11, <1>13, HolderStaysCurrent
<1>15. QED
  BY <1>9, <1>10, <1>12, <1>14 DEF Invariant

\* The attempt lets the lock go, and is forgotten or waits for Settle.
LEMMA LetsGo ==
    ASSUME Invariant, NEW a \in Actors, att[a].pc \in Held,
           NEW t \in Attempts, t.pc \in {"idle", "settle"}, t.kind # "replace",
           att' = [att EXCEPT ![a] = t], lock' = NoActor, UNCHANGED <<active, branch>>
    PROVE  /\ att' \in [Actors -> Attempts]
           /\ lock' \in Actors \cup {NoActor}
           /\ Course'
           /\ \A b \in Actors : AttemptIsCurrent(att[b])'
           /\ \A q \in Phases : ~ Writing(q)'
<1>1. /\ att' \in [Actors -> Attempts] /\ att'[a] = t
      /\ \A b \in Actors \ {a} : att'[b] = att[b]
  BY AttemptMoves DEF Invariant
<1>2. \A b \in Actors \ {a} : att[b].pc \notin Held
  BY OneHolds DEF Invariant, Course
<1>3. \A b \in Actors : att'[b].pc \notin Held
  BY <1>1, <1>2 DEF Held
<1>4. LockIsHeld' /\ ActiveIsThere'
  BY <1>3, ActorsAssumption DEF LockIsHeld, ActiveIsThere, Invariant, Course
<1>5. AttemptsOwn'
  BY <1>1, <1>3 DEF Invariant, Course, AttemptsOwn, Held, Versioned
<1>6. QED
  BY <1>1, <1>3, <1>4, <1>5, FreeIsQuietAfter DEF Course

\* fail_phase_version.
LEMMA FailKeeps ==
    ASSUME Invariant, NEW a \in Actors, Fail(a)
    PROVE  Invariant'
<1> DEFINE v == att[a].pv
           p == att[a].phase
           row == [ver[v] EXCEPT !.status = "failed"]
<1>1. /\ att[a].pc = "raised"
      /\ ver' = IF Exists(v) THEN [ver EXCEPT ![v] = row] ELSE ver
      /\ disk' = IF att[a].prior # 0 THEN [disk EXCEPT ![p] = att[a].backup] ELSE disk
      /\ run' = IF att[a].kind = "rerun" THEN att[a].before
                ELSE [kind |-> "failed", at |-> p - 1]
      /\ lock' = NoActor
      /\ att' = [att EXCEPT ![a] = Idle]
      /\ UNCHANGED <<active, branch, fork, stale, head, moves, direct, raced>>
  BY DEF Fail
<1>2. /\ p \in Phases /\ att[a].before \in RunState /\ att[a].backup \in Bytes
      /\ Own(att[a]) /\ v \in Versions
  BY <1>1, TypeOfAttempt DEF Invariant, Course, AttemptsOwn, Own, Versioned
<1>3. /\ row \in Row /\ row.status = "failed" /\ row.phase = ver[v].phase
      /\ row.branch = ver[v].branch /\ row.parent = ver[v].parent /\ row.lineage = ver[v].lineage
  BY <1>2 DEF Invariant, TypeOK, Row
<1> HIDE DEF row
<1>4. /\ ver' \in [Versions -> Row]
      /\ \A w \in Versions \ {v} : ver'[w] = ver[w]
      /\ ver'[v] = IF Exists(v) THEN row ELSE ver[v]
  BY <1>1, <1>2, <1>3 DEF Invariant, TypeOK
<1>5. /\ disk' \in [Phases -> Bytes]
      /\ \A q \in Phases \ {p} : disk'[q] = disk[q]
      /\ att[a].prior # 0 => disk'[p] = att[a].backup
  BY <1>1, <1>2 DEF Invariant, TypeOK
<1>6. /\ att' \in [Actors -> Attempts]
      /\ lock' \in Actors \cup {NoActor}
      /\ Course'
      /\ \A b \in Actors : AttemptIsCurrent(att[b])'
      /\ \A q \in Phases : ~ Writing(q)'
  BY <1>1, ValueTypes, LetsGo DEF Held, Idle
<1>7. TypeOK'
  <2>1. p - 1 \in 0..N
    BY <1>2, SizesAssumption DEF Phases
  <2>2. run' \in RunState
    BY <1>1, <1>2, <2>1 DEF RunState
  <2>3. QED
    BY <1>1, <1>4, <1>5, <1>6, <2>2 DEF Invariant, TypeOK
<1>8. Shape'
  <2>1. Shaped /\ Shaped'
    BY <1>7 DEF Invariant, TypeOK, Shaped, Rows
  <2>2. CASE Exists(v)
    <3>1. ver[v].status = "running"
      BY <1>2, <2>2 DEF Own, Exists
    <3>2. \A w \in Versions \ {v} : SameRow(w)
      BY <1>4 DEF SameRow
    <3>3. QED
      BY <1>1, <1>2, <1>3, <1>4, <2>1, <2>2, <3>1, <3>2, RowFails DEF Invariant
  <2>3. CASE ~ Exists(v)
    BY <1>1, <1>7, <2>3, ShapeRests DEF Invariant
  <2>4. QED
    BY <2>2, <2>3
<1>9. ASSUME ~ raced' PROVE BytesAreOwn' /\ FilesAreHeads' /\ LineageIsRead'
  <2>1. ~ raced /\ att[a].pc \in Held
    BY <1>1, <1>9 DEF Held
  <2>2. /\ BytesAreOwn /\ FilesAreHeads /\ LineageIsRead /\ AttemptIsCurrent(att[a])
        /\ \A q \in Phases \ {p} : head[active][q] = 0 \/ disk[q].by = head[active][q]
    BY <2>1, HolderIsCurrent
  <2>3. ver[v].status = "running" /\ ver'[v].status = "failed"
    BY <1>1, <1>3, <1>4, <2>2 DEF AttemptIsCurrent, Versioned, Exists
  <2>4. BytesAreOwn' /\ LineageIsRead'
    BY <1>4, <2>2, <2>3 DEF BytesAreOwn, LineageIsRead, ReadIsLineage
  <2>5. head[active][p] = 0 \/ disk'[p].by = head[active][p]
    BY <1>1, <1>5, <2>2 DEF AttemptIsCurrent, Versioned
  <2>6. FilesAreHeads'
    BY <1>1, <1>5, <2>2, <2>5 DEF FilesAreHeads
  <2>7. QED
    BY <2>4, <2>6
<1>10. QED
  BY <1>6, <1>7, <1>8, <1>9 DEF Invariant, Undisturbed

\* The version has been deleted under the attempt: an endpoint has come in between.
LEMMA CommitRaisesKeeps ==
    ASSUME Invariant, NEW a \in Actors, CommitRaises(a)
    PROVE  Invariant'
<1>1. /\ att[a].pc \in {"returned", "begun"} /\ ~ Exists(att[a].pv)
      /\ run' = IF att[a].kind = "rerun" THEN att[a].before ELSE run
      /\ lock' = NoActor
      /\ att' = [att EXCEPT ![a] = Idle]
      /\ UNCHANGED <<active, graph, disk, moves, direct, raced>>
  BY DEF CommitRaises
<1>2. raced
  <2>1. att[a].pc \in Held /\ att[a].pc \in Versioned
    BY <1>1 DEF Held, Versioned
  <2>2. ~ raced => ver[att[a].pv].status = "running"
    BY <2>1 DEF Invariant, Undisturbed, AttemptIsCurrent
  <2>3. QED
    BY <1>1, <2>2 DEF Exists, Invariant, TypeOK
<1>3. /\ att' \in [Actors -> Attempts] /\ lock' \in Actors \cup {NoActor} /\ Course'
  BY <1>1, ValueTypes, LetsGo DEF Held, Idle, graph
<1>4. TypeOK'
  BY <1>1, <1>3, TypeOfAttempt DEF graph, Invariant, TypeOK
<1>5. Shape'
  BY <1>1, <1>4, ShapeRests DEF graph, Invariant
<1>6. QED
  BY <1>1, <1>2, <1>3, <1>4, <1>5 DEF Invariant, Undisturbed

\* replace_phase_version.
LEMMA SaveReplaceKeeps ==
    ASSUME Invariant, NEW a \in Actors, SaveReplace(a)
    PROVE  Invariant'
<1> DEFINE v == att[a].base
           p == att[a].phase
           new == [by |-> v, edit |-> moves + 1]
           row == [ver[v] EXCEPT !.bytes = new, !.edited = TRUE]
<1>1. /\ att[a].pc = "claimed" /\ att[a].kind = "replace"
      /\ moves' = moves + 1
      /\ IF Exists(v) THEN disk' = [disk EXCEPT ![p] = new] /\ ver' = [ver EXCEPT ![v] = row]
         ELSE UNCHANGED <<disk, ver>>
      /\ lock' = NoActor
      /\ att' = [att EXCEPT ![a] = Idle]
      /\ UNCHANGED <<run, active, branch, fork, stale, head, direct, raced>>
  BY DEF SaveReplace, Acts
<1>2. v \in Versions /\ p \in Phases
  BY <1>1, TypeOfAttempt DEF Invariant, Course, AttemptsOwn
<1>3. new \in Bytes /\ new.by = v
  BY <1>2, ValueTypes DEF Bytes, Invariant, TypeOK
<1> HIDE DEF new
<1>4. /\ row \in Row /\ row.bytes = new /\ row.edited /\ row.status = ver[v].status
      /\ row.phase = ver[v].phase /\ row.branch = ver[v].branch
      /\ row.parent = ver[v].parent /\ row.lineage = ver[v].lineage
  BY <1>2, <1>3 DEF Invariant, TypeOK, Row
<1> HIDE DEF row
<1>5. /\ ver' \in [Versions -> Row]
      /\ \A w \in Versions \ {v} : ver'[w] = ver[w]
      /\ ver'[v] = IF Exists(v) THEN row ELSE ver[v]
  BY <1>1, <1>2, <1>4 DEF Invariant, TypeOK
<1>6. /\ disk' \in [Phases -> Bytes]
      /\ \A q \in Phases \ {p} : disk'[q] = disk[q]
      /\ disk'[p] = IF Exists(v) THEN new ELSE disk[p]
  BY <1>1, <1>2, <1>3 DEF Invariant, TypeOK
<1>7. /\ att' \in [Actors -> Attempts]
      /\ lock' \in Actors \cup {NoActor}
      /\ Course'
      /\ \A b \in Actors : AttemptIsCurrent(att[b])'
      /\ \A q \in Phases : ~ Writing(q)'
  BY <1>1, ValueTypes, LetsGo DEF Held, Idle
<1>8. TypeOK'
  BY <1>1, <1>5, <1>6, <1>7 DEF Invariant, TypeOK
<1>9. Shape'
  <2>1. \A w \in Versions : SameRow(w)
    BY <1>4, <1>5 DEF SameRow
  <2>2. Shaped /\ Shaped'
    BY <1>8 DEF Invariant, TypeOK, Shaped, Rows
  <2>3. QED
    BY <1>1, <2>1, <2>2, GraphRests DEF Invariant
<1>10. ASSUME ~ raced' PROVE BytesAreOwn' /\ FilesAreHeads' /\ LineageIsRead'
  <2>1. ~ raced /\ att[a].pc \in Held
    BY <1>1, <1>10 DEF Held
  <2>2. /\ BytesAreOwn /\ FilesAreHeads /\ LineageIsRead /\ AttemptIsCurrent(att[a])
        /\ \A q \in Phases : head[active][q] = 0 \/ disk[q].by = head[active][q]
    BY <1>1, <2>1, HolderIsCurrent
  <2>3. v = head[active][p]
    BY <1>1, <2>2 DEF AttemptIsCurrent
  <2>4. BytesAreOwn'
    BY <1>3, <1>4, <1>5, <2>2 DEF BytesAreOwn
  <2>5. LineageIsRead'
    BY <1>4, <1>5, <2>2 DEF LineageIsRead, ReadIsLineage, Exists
  <2>6. FilesAreHeads'
    BY <1>1, <1>3, <1>6, <2>2, <2>3 DEF FilesAreHeads
  <2>7. QED
    BY <2>4, <2>5, <2>6
<1>11. QED
  BY <1>7, <1>8, <1>9, <1>10 DEF Invariant, Undisturbed
-----------------------------------------------------------------------------
(* Steps that move heads.                                                   *)

\* What the cascade makes of the heads of b when f becomes the head of p.
LEMMA CascadeOfHead ==
    ASSUME Invariant, NEW b \in Branches, NEW p \in Phases, NEW f \in Versions, NEW h, NEW T,
           h = [head[b] EXCEPT ![p] = f], T = Cascade(b, h, p)
    PROVE  /\ Follows(T, b, h, p)
           /\ T \in Heads /\ T[p] = f
           /\ \A q \in Phases : q < p => T[q] = head[b][q]
           /\ \A q \in Phases : q > p /\ T[q] # 0 => Done(T[q], q)
<1>1. Sound
  BY ShapeIsSound DEF Invariant, TypeOK, Shaped, Rows
<1>2. head[b] \in Heads /\ f \in Version
  BY ValueTypes DEF Invariant, TypeOK
<1>3. /\ h \in Heads
      /\ h[p] = f
      /\ \A q \in Phases \ {p} : h[q] = head[b][q]
  BY <1>2 DEF Heads
<1>4. ASSUME NEW q \in Phases, q > p, h[q] # 0 PROVE Done(h[q], q)
  <2>1. q # p
    BY <1>4 DEF Phases
  <2>2. QED
    BY <1>3, <1>4, <2>1 DEF Invariant, Shape, HeadsAreDone
<1>5. Follows(T, b, h, p)
  BY <1>1, <1>3, <1>4, CascadeFollows
<1>6. p <= p /\ \A q \in Phases : q < p => q <= p /\ q # p
  BY DEF Phases
<1>7. QED
  BY <1>3, <1>5, <1>6 DEF Follows

\* commit_phase_version, of an attempt whose files are `found`.
LEMMA CommittedKeeps ==
    ASSUME Invariant, NEW a \in Actors, Exists(att[a].pv),
           att[a].pc = "returned" \/ (att[a].pc = "begun" /\ att[a].kind = "edit"),
           NEW found \in [Phases -> Bytes],
           \A q \in Phases \ {att[a].phase} : found[q] = disk[q],
           ~ raced => found[att[a].phase].by = att[a].pv,
           Committed(att[a], found),
           NEW t \in Attempts, t.pc \in {"idle", "settle"}, t.kind # "replace",
           att' = [att EXCEPT ![a] = t], lock' = NoActor,
           UNCHANGED <<run, active, branch, fork, moves, raced>>
    PROVE  Invariant'
<1> DEFINE v == att[a].pv
           p == att[a].phase
           b == att[a].branch
           h == [head[b] EXCEPT ![p] = v]
           T == Cascade(b, h, p)
           row == [ver[v] EXCEPT !.status = "done", !.bytes = found[p]]
<1>1. att[a].pc \in Held /\ att[a].pc \in Versioned
  BY DEF Held, Versioned
<1>2. /\ v \in Versions /\ p \in Phases /\ b \in Branches
      /\ ver[v].status = "running" /\ ver[v].phase = p /\ ver[v].branch = b
  BY <1>1, TypeOfAttempt DEF Invariant, Course, AttemptsOwn, Own, Exists
<1>3. /\ ver' = [ver EXCEPT ![v] = row]
      /\ head' = [head EXCEPT ![b] = T]
      /\ disk' = [q \in Phases |-> IF q <= p THEN found[q] ELSE Restored(T, 1)[q]]
      /\ direct' = {d \in direct : d[1] # b \/ d[2] < p} \cup {<<b, p>>}
      /\ stale' = IF att[a].kind = "edit" THEN [stale EXCEPT ![b] = FirstHead(T, p)] ELSE stale
  BY DEF Committed, Installed
<1> HIDE DEF v, p, b
<1>4. /\ Follows(T, b, h, p)
      /\ T \in Heads /\ T[p] = v
      /\ \A q \in Phases : q < p => T[q] = head[b][q]
      /\ \A q \in Phases : q > p /\ T[q] # 0 => Done(T[q], q)
  BY <1>2, CascadeOfHead
<1>5. /\ row \in Row /\ row.status = "done" /\ row.phase = p /\ row.branch = b
      /\ row.parent = ver[v].parent /\ row.lineage = ver[v].lineage
      /\ row.bytes = found[p] /\ row.read = ver[v].read /\ row.edited = ver[v].edited
  BY <1>2 DEF Invariant, TypeOK, Row
<1> HIDE DEF T, row
<1>6. /\ ver' \in [Versions -> Row] /\ ver'[v] = row
      /\ \A w \in Versions \ {v} : ver'[w] = ver[w]
  BY <1>2, <1>3, <1>5 DEF Invariant, TypeOK
<1>7. /\ att' \in [Actors -> Attempts]
      /\ lock' \in Actors \cup {NoActor}
      /\ Course'
      /\ \A c \in Actors : AttemptIsCurrent(att[c])'
      /\ \A q \in Phases : ~ Writing(q)'
  BY <1>1, LetsGo
<1>8. TypeOK'
  <2>1. disk' \in [Phases -> Bytes]
    BY <1>3, <1>4, RestoredType DEF Invariant
  <2>2. head' \in [Branches -> Heads]
    BY <1>3, <1>4 DEF Invariant, TypeOK
  <2>3. stale' \in [Branches -> 0..N]
    BY <1>3, FirstIsPhase DEF Invariant, TypeOK
  <2>4. direct' \in SUBSET (Branches \X Phases)
    BY <1>2, <1>3 DEF Invariant, TypeOK
  <2>5. QED
    BY <1>6, <1>7, <2>1, <2>2, <2>3, <2>4 DEF Invariant, TypeOK
<1>9. Shape'
  <2>1. Shaped /\ Shaped'
    BY <1>8 DEF Invariant, TypeOK, Shaped, Rows
  <2>2. \A w \in Versions \ {v} : SameRow(w)
    BY <1>6 DEF SameRow
  <2>3. QED
    BY <1>2, <1>3, <1>4, <1>5, <1>6, <2>1, <2>2, HeadMoves DEF Invariant
<1>10. ASSUME ~ raced' PROVE BytesAreOwn' /\ FilesAreHeads' /\ LineageIsRead'
  <2>1. ~ raced /\ active' = active /\ found[p].by = v
    BY <1>10 DEF v, p
  <2>2. /\ BytesAreOwn /\ LineageIsRead /\ AttemptIsCurrent(att[a])
        /\ \A q \in Phases \ {p} : head[active][q] = 0 \/ disk[q].by = head[active][q]
    BY <1>1, <2>1, HolderIsCurrent DEF p
  <2>3. b = active
    BY <1>1, <2>2 DEF AttemptIsCurrent, b
  <2>4. BytesAreOwn'
    BY <1>5, <1>6, <2>1, <2>2 DEF BytesAreOwn
  <2>5. LineageIsRead'
    <3>1. ~ ver[v].edited => ReadIsLineage(v)
      BY <1>1, <2>2 DEF AttemptIsCurrent, v
    <3>2. QED
      BY <1>5, <1>6, <2>2, <3>1 DEF LineageIsRead, ReadIsLineage
  <2>6. \A q \in Phases : T[q] = 0 \/ disk'[q].by = T[q]
    <3> SUFFICES ASSUME NEW q \in Phases, T[q] # 0 PROVE disk'[q].by = T[q]
      OBVIOUS
    <3>1. CASE q < p
      <4>1. q # p /\ q <= p /\ T[q] = head[active][q]
        BY <1>2, <1>4, <2>3, <3>1 DEF Phases
      <4>2. QED
        BY <1>3, <2>2, <4>1 DEF p
    <3>2. CASE q = p
      <4>1. q <= p
        BY <1>2, <3>2 DEF Phases
      <4>2. QED
        BY <1>3, <1>4, <2>1, <3>2, <4>1
    <3>3. CASE q > p
      <4>1. ~ (q <= p) /\ q >= 1
        BY <1>2, <3>3 DEF Phases
      <4>2. disk'[q] = ver[T[q]].bytes
        BY <1>3, <4>1 DEF Restored, Phases
      <4>3. QED
        BY <1>4, <2>2, <3>3, <4>2 DEF BytesAreOwn, Done
    <3>4. QED
      BY <1>2, <3>1, <3>2, <3>3 DEF Phases
  <2>7. FilesAreHeads'
    <3>1. head'[active] = T
      BY <1>2, <1>3, <2>3 DEF Invariant, TypeOK
    <3>2. QED
      BY <2>1, <2>6, <3>1 DEF FilesAreHeads
  <2>8. QED
    BY <2>4, <2>5, <2>7
<1>11. QED
  BY <1>7, <1>8, <1>9, <1>10 DEF Invariant, Undisturbed

LEMMA CommitKeeps ==
    ASSUME Invariant, NEW a \in Actors, Commit(a)
    PROVE  Invariant'
<1> DEFINE t == IF att[a].kind = "rerun"
                THEN [Idle EXCEPT !.pc = "settle", !.kind = "rerun", !.phase = att[a].phase]
                ELSE Idle
<1>1. t \in Attempts /\ t.pc \in {"idle", "settle"} /\ t.kind # "replace"
  BY ValueTypes, TypeOfAttempt DEF Invariant, Attempts, Idle
<1>2. /\ att[a].pc = "returned" /\ Exists(att[a].pv) /\ Committed(att[a], disk)
      /\ lock' = NoActor /\ att' = [att EXCEPT ![a] = t]
      /\ UNCHANGED <<run, active, branch, fork, moves, raced>>
  BY DEF Commit
<1>3. ~ raced => disk[att[a].phase].by = att[a].pv
  BY <1>2 DEF Invariant, Undisturbed, AttemptIsCurrent
<1>4. disk \in [Phases -> Bytes]
  BY DEF Invariant, TypeOK
<1> HIDE DEF t
<1>5. QED
  BY <1>1, <1>2, <1>3, <1>4, CommittedKeeps

LEMMA SaveEditKeeps ==
    ASSUME Invariant, NEW a \in Actors, SaveEdit(a)
    PROVE  Invariant'
<1> DEFINE found == [disk EXCEPT ![att[a].phase] = Written(att[a].pv)]
<1>1. /\ att[a].pc = "begun" /\ att[a].kind = "edit" /\ Exists(att[a].pv)
      /\ Committed(att[a], found)
      /\ lock' = NoActor /\ att' = [att EXCEPT ![a] = Idle]
      /\ UNCHANGED <<run, active, branch, fork, moves, raced>>
  BY DEF SaveEdit
<1>2. /\ found \in [Phases -> Bytes]
      /\ \A q \in Phases \ {att[a].phase} : found[q] = disk[q]
      /\ found[att[a].phase].by = att[a].pv
  BY TypeOfAttempt, ValueTypes DEF Invariant, TypeOK, Written
<1>3. Idle.pc = "idle" /\ Idle.kind # "replace"
  BY DEF Idle
<1> HIDE DEF found
<1>4. QED
  BY <1>1, <1>2, <1>3, ValueTypes, CommittedKeeps

\* An endpoint acts while no attempt has the lock, or it races with the one that has.
LEMMA EndpointIsAlone ==
    ASSUME Invariant, UnderAttempt, att' = att, ~ raced'
    PROVE  /\ ~ raced /\ BytesAreOwn /\ FilesAreHeads /\ LineageIsRead
           /\ \A q \in Phases : head[active][q] = 0 \/ disk[q].by = head[active][q]
           /\ \A b \in Actors : AttemptIsCurrent(att[b])'
<1>1. ~ raced /\ lock = NoActor
  BY DEF UnderAttempt, Invariant, TypeOK
<1>2. \A b \in Actors : att[b].pc \notin Held
  BY <1>1, NobodyHolds DEF Invariant, Course
<1>3. \A q \in Phases : ~ Writing(q)
  BY <1>2 DEF Writing, Held
<1>4. BytesAreOwn /\ FilesAreHeads /\ LineageIsRead
  BY <1>1 DEF Invariant, Undisturbed
<1>5. QED
  BY <1>1, <1>2, <1>3, <1>4, FreeIsQuietAfter DEF FilesAreHeads

\* activate_phase_version.
LEMMA ActivateKeeps ==
    ASSUME Invariant, NEW p \in Phases, NEW v \in Versions, Activate(p, v)
    PROVE  Invariant'
<1> DEFINE h == [head[active] EXCEPT ![p] = v]
           T == Cascade(active, h, p)
<1>1. /\ ver[v].status = "done" /\ ver[v].phase = p
      /\ head' = [head EXCEPT ![active] = T]
      /\ disk' = Restored(T, p)
      /\ stale' = [stale EXCEPT ![active] = FirstHead(T, p)]
      /\ direct' = {d \in direct : d[1] # active \/ d[2] < p} \cup {<<active, p>>}
      /\ moves' = moves + 1 /\ UnderAttempt
      /\ UNCHANGED <<run, lock, active, branch, fork, ver, att>>
  BY DEF Activate, MayActivate, Installed, Acts
<1>2. active \in Branches
  BY DEF Invariant, TypeOK
<1>3. /\ Follows(T, active, h, p)
      /\ T \in Heads /\ T[p] = v
      /\ \A q \in Phases : q < p => T[q] = head[active][q]
      /\ \A q \in Phases : q > p /\ T[q] # 0 => Done(T[q], q)
  BY <1>2, CascadeOfHead
<1> HIDE DEF T
<1>4. TypeOK'
  <2>1. disk' \in [Phases -> Bytes]
    BY <1>1, <1>3, RestoredType DEF Invariant
  <2>2. head' \in [Branches -> Heads]
    BY <1>1, <1>3 DEF Invariant, TypeOK
  <2>3. stale' \in [Branches -> 0..N]
    BY <1>1, FirstIsPhase DEF Invariant, TypeOK
  <2>4. direct' \in SUBSET (Branches \X Phases)
    BY <1>1, <1>2 DEF Invariant, TypeOK
  <2>5. raced' \in BOOLEAN
    BY <1>1 DEF UnderAttempt
  <2>6. QED
    BY <1>1, <2>1, <2>2, <2>3, <2>4, <2>5 DEF Invariant, TypeOK
<1>5. Shape'
  <2>1. Shaped /\ Shaped'
    BY <1>4 DEF Invariant, TypeOK, Shaped, Rows
  <2>2. \A w \in Versions : SameRow(w)
    BY <1>1 DEF SameRow
  <2>3. QED
    BY <1>1, <1>2, <1>3, <2>1, <2>2, HeadMoves DEF Invariant
<1>6. Course'
  BY <1>1 DEF Invariant, Course, LockIsHeld, ActiveIsThere, AttemptsOwn, Own
<1>7. ASSUME ~ raced'
      PROVE  /\ BytesAreOwn' /\ FilesAreHeads' /\ LineageIsRead'
             /\ \A b \in Actors : AttemptIsCurrent(att[b])'
  <2>1. /\ BytesAreOwn /\ LineageIsRead
        /\ \A q \in Phases : head[active][q] = 0 \/ disk[q].by = head[active][q]
        /\ \A b \in Actors : AttemptIsCurrent(att[b])'
    BY <1>1, <1>7, EndpointIsAlone
  <2>2. BytesAreOwn' /\ LineageIsRead'
    BY <1>1, <2>1 DEF BytesAreOwn, LineageIsRead, ReadIsLineage
  <2>3. \A q \in Phases : T[q] = 0 \/ disk'[q].by = T[q]
    <3> SUFFICES ASSUME NEW q \in Phases, T[q] # 0 PROVE disk'[q].by = T[q]
      OBVIOUS
    <3>1. CASE q < p
      BY <1>1, <1>3, <2>1, <3>1 DEF Restored
    <3>2. CASE ~ (q < p)
      <4>1. Done(T[q], q)
        BY <1>1, <1>3, <3>2 DEF Done, Phases
      <4>2. disk'[q] = ver[T[q]].bytes
        BY <1>1, <3>2 DEF Restored
      <4>3. QED
        BY <2>1, <4>1, <4>2 DEF BytesAreOwn, Done
    <3>3. QED
      BY <3>1, <3>2
  <2>4. FilesAreHeads'
    <3>1. active' = active /\ head'[active] = T
      BY <1>1, <1>2 DEF Invariant, TypeOK
    <3>2. QED
      BY <2>3, <3>1 DEF FilesAreHeads
  <2>5. QED
    BY <2>1, <2>2, <2>4
<1>8. QED
  BY <1>4, <1>5, <1>6, <1>7 DEF Invariant, Undisturbed

LEMMA ActivateMatchKeeps ==
    ASSUME Invariant, NEW p \in Phases, ActivateMatch(p)
    PROVE  Invariant'
<1> DEFINE S == Matching(active, head[active], p)
<1>1. active \in Branches /\ (head[active][p] # 0 => Done(head[active][p], p))
  BY DEF Invariant, TypeOK, Shape, HeadsAreDone
<1>2. Sound
  BY ShapeIsSound DEF Invariant, TypeOK, Shaped, Rows
<1>3. S \in SUBSET Versions /\ S # {} /\ Activate(p, Newest(S))
  BY <1>1, <1>2, MatchingAreDone DEF ActivateMatch, Done
<1> HIDE DEF S
<1>4. Newest(S) \in Versions
  BY <1>3, NewestIsIn
<1>5. QED
  BY <1>3, <1>4, ActivateKeeps
-----------------------------------------------------------------------------
(* Versions and branches that come and go.                                  *)

LEMMA DeleteVersionKeeps ==
    ASSUME Invariant, NEW v \in Versions, DeleteVersion(v)
    PROVE  Invariant'
<1> DEFINE row == [NoVersion EXCEPT !.status = "deleted"]
<1>1. /\ Exists(v) /\ Unreferenced(v)
      /\ ver' = [ver EXCEPT ![v] = row]
      /\ fork' = [b \in Branches |-> IF fork[b] = v THEN 0 ELSE fork[b]]
      /\ moves' = moves + 1 /\ UnderAttempt
      /\ UNCHANGED <<run, lock, active, branch, stale, head, disk, att, direct>>
  BY DEF DeleteVersion, Acts
<1>2. row \in Row /\ row.status = "deleted" /\ row.parent = 0 /\ row.lineage = Nothing
  BY ValueTypes DEF Row, NoVersion
<1> HIDE DEF row
<1>3. /\ ver' \in [Versions -> Row] /\ ver'[v] = row
      /\ \A w \in Versions \ {v} : ver'[w] = ver[w]
  BY <1>1, <1>2 DEF Invariant, TypeOK
<1>4. TypeOK'
  <2>1. fork' \in [Branches -> Version]
    BY <1>1, ValueTypes DEF Invariant, TypeOK
  <2>2. raced' \in BOOLEAN
    BY <1>1 DEF UnderAttempt
  <2>3. QED
    BY <1>1, <1>3, <2>1, <2>2 DEF Invariant, TypeOK
<1>5. Shape'
  <2>1. Shaped /\ Shaped'
    BY <1>4 DEF Invariant, TypeOK, Shaped, Rows
  <2>2. \A w \in Versions \ {v} : SameRow(w)
    BY <1>3 DEF SameRow
  <2>3. QED
    BY <1>1, <1>2, <1>3, <2>1, <2>2, RowGoes DEF Invariant
<1>6. Course'
  <2>1. ASSUME NEW a \in Actors, att[a].pc \in Versioned PROVE Own(att[a])'
    <3>1. Own(att[a])
      BY <2>1 DEF Invariant, Course, AttemptsOwn
    <3>2. att' = att /\ (ver'[att[a].pv] = ver[att[a].pv] \/ ver'[att[a].pv].status = "deleted")
      BY <1>1, <1>2, <1>3, <3>1 DEF Own
    <3>3. QED
      BY <3>1, <3>2 DEF Own
  <2>2. QED
    BY <1>1, <2>1 DEF Invariant, Course, LockIsHeld, ActiveIsThere, AttemptsOwn
<1>7. ASSUME ~ raced'
      PROVE  /\ BytesAreOwn' /\ FilesAreHeads' /\ LineageIsRead'
             /\ \A b \in Actors : AttemptIsCurrent(att[b])'
  <2>1. /\ BytesAreOwn /\ LineageIsRead
        /\ \A q \in Phases : head[active][q] = 0 \/ disk[q].by = head[active][q]
        /\ \A b \in Actors : AttemptIsCurrent(att[b])'
    BY <1>1, <1>7, EndpointIsAlone
  <2>2. BytesAreOwn' /\ LineageIsRead'
    BY <1>2, <1>3, <2>1 DEF BytesAreOwn, LineageIsRead, ReadIsLineage
  <2>3. QED
    BY <1>1, <2>1, <2>2 DEF FilesAreHeads
<1>8. QED
  BY <1>4, <1>5, <1>6, <1>7 DEF Invariant, Undisturbed

LEMMA StaysCurrent ==
    ASSUME NEW a \in Actors, AttemptIsCurrent(att[a]), head'[active] = head[active],
           active' = active, ver' = ver, disk' = disk, att' = att
    PROVE  AttemptIsCurrent(att[a])'
<1>1. ReadIsLineage(att[a].pv)'
      <=> \A q \in Phases : ver[att[a].pv].lineage[q] # 0 =>
              ver[att[a].pv].read[q] = ver[att[a].pv].lineage[q]
  BY DEF ReadIsLineage
<1>2. Upstream(head[active], att[a].phase)' = Upstream(head[active], att[a].phase)
  BY DEF Upstream
<1>3. QED
  BY <1>1, <1>2 DEF AttemptIsCurrent, ReadIsLineage

\* create_run_branch: it moves no head of the active branch.
LEMMA CreateBranchKeeps ==
    ASSUME Invariant, NEW b \in Branches, NEW base \in Branches, NEW v \in Versions,
           CreateBranch(b, base, v)
    PROVE  Invariant'
<1> DEFINE h == [ver[v].lineage EXCEPT ![ver[v].phase] = v]
<1>1. /\ branch[b] = "none" /\ ver[v].status = "done"
      /\ branch' = [branch EXCEPT ![b] = "live"]
      /\ fork' = [fork EXCEPT ![b] = v]
      /\ head' = [head EXCEPT ![b] = h]
      /\ direct' = direct \cup {<<b, q>> : q \in Phases}
      /\ moves' = moves + 1
      /\ UNCHANGED <<run, lock, active, stale, ver, disk, att, raced>>
  BY DEF CreateBranch, Acts
<1>2. h \in Heads
  BY ValueTypes DEF Invariant, TypeOK, Row, Heads
<1>3. TypeOK'
  <2>1. /\ branch' \in [Branches -> {"none", "live", "deleted"}]
        /\ fork' \in [Branches -> Version] /\ head' \in [Branches -> Heads]
    BY <1>1, <1>2, ValueTypes DEF Invariant, TypeOK
  <2>2. direct' \in SUBSET (Branches \X Phases)
    BY <1>1 DEF Invariant, TypeOK
  <2>3. QED
    BY <1>1, <2>1, <2>2 DEF Invariant, TypeOK
<1>4. Shape'
  <2>1. Shaped /\ Shaped'
    BY <1>3 DEF Invariant, TypeOK, Shaped, Rows
  <2>2. QED
    BY <1>1, <2>1, BranchForks DEF Invariant
<1>5. active \in Branches /\ b # active /\ b # Main
  BY <1>1 DEF Invariant, TypeOK, Course, ActiveIsThere
<1>6. Course'
  <2>1. ActiveIsThere'
    BY <1>1, <1>5, BranchAssumption DEF Invariant, TypeOK, Course, ActiveIsThere
  <2>2. QED
    BY <1>1, <2>1 DEF Invariant, Course, LockIsHeld, AttemptsOwn, Own
<1>7. head'[active] = head[active] /\ active' = active
  BY <1>1, <1>5 DEF Invariant, TypeOK
<1>8. Undisturbed'
  <2>1. \A a \in Actors : AttemptIsCurrent(att[a]) => AttemptIsCurrent(att[a])'
    BY <1>1, <1>7, StaysCurrent
  <2>2. FilesAreHeads => FilesAreHeads'
    BY <1>1, <1>7 DEF FilesAreHeads, Writing
  <2>3. QED
    BY <1>1, <2>1, <2>2 DEF Invariant, Undisturbed, BytesAreOwn, LineageIsRead, ReadIsLineage
<1>9. QED
  BY <1>3, <1>4, <1>6, <1>8 DEF Invariant

\* materialize_branch_legacy_paths: the files of another branch come to the disk.
LEMMA ShowsKeeps ==
    ASSUME Invariant, NEW b \in Branches, Shows(b), UnderAttempt, moves' = moves + 1,
           UNCHANGED <<run, lock, fork, stale, head, ver, att, direct>>,
           branch' \in [Branches -> {"none", "live", "deleted"}],
           branch'[b] # "none", branch'[Main] # "none"
    PROVE  Invariant'
<1>1. active' = b /\ disk' = Restored(head[b], 1) /\ head[b] \in Heads
  BY DEF Shows, Invariant, TypeOK
<1>2. TypeOK'
  <2>1. disk' \in [Phases -> Bytes]
    BY <1>1, RestoredType DEF Invariant
  <2>2. raced' \in BOOLEAN
    BY DEF UnderAttempt
  <2>3. QED
    BY <1>1, <2>1, <2>2 DEF Invariant, TypeOK
<1>3. Shape'
  BY <1>2, ShapeRests DEF Invariant
<1>4. Course'
  BY <1>1 DEF Invariant, Course, LockIsHeld, ActiveIsThere, AttemptsOwn, Own
<1>5. ASSUME ~ raced'
      PROVE  /\ BytesAreOwn' /\ FilesAreHeads' /\ LineageIsRead'
             /\ \A a \in Actors : AttemptIsCurrent(att[a])'
  <2>1. BytesAreOwn /\ LineageIsRead /\ \A a \in Actors : AttemptIsCurrent(att[a])'
    BY <1>5, EndpointIsAlone
  <2>2. BytesAreOwn' /\ LineageIsRead'
    BY <2>1 DEF BytesAreOwn, LineageIsRead, ReadIsLineage
  <2>3. \A q \in Phases : head[b][q] = 0 \/ disk'[q].by = head[b][q]
    <3> SUFFICES ASSUME NEW q \in Phases, head[b][q] # 0 PROVE disk'[q].by = head[b][q]
      OBVIOUS
    <3>1. Done(head[b][q], q)
      BY DEF Invariant, Shape, HeadsAreDone
    <3>2. disk'[q] = ver[head[b][q]].bytes
      BY <1>1 DEF Restored, Phases
    <3>3. QED
      BY <2>1, <3>1, <3>2 DEF BytesAreOwn, Done
  <2>4. FilesAreHeads'
    BY <1>1, <2>3 DEF FilesAreHeads
  <2>5. QED
    BY <2>1, <2>2, <2>4
<1>6. QED
  BY <1>2, <1>3, <1>4, <1>5 DEF Invariant, Undisturbed

LEMMA SwitchBranchKeeps ==
    ASSUME Invariant, NEW b \in Branches, SwitchBranch(b)
    PROVE  Invariant'
<1>1. /\ branch[b] = "live" /\ Shows(b) /\ UnderAttempt /\ moves' = moves + 1
      /\ UNCHANGED <<run, lock, branch, fork, stale, head, ver, att, direct>>
  BY DEF SwitchBranch, Acts, graph
<1>2. branch \in [Branches -> {"none", "live", "deleted"}] /\ branch[Main] # "none"
  BY DEF Invariant, TypeOK, Course, ActiveIsThere
<1>3. QED
  BY <1>1, <1>2, ShowsKeeps

LEMMA DeleteBranchKeeps ==
    ASSUME Invariant, NEW b \in Branches, DeleteBranch(b)
    PROVE  Invariant'
<1>1. /\ b # Main /\ branch' = [branch EXCEPT ![b] = "deleted"] /\ moves' = moves + 1
      /\ IF active = b THEN Shows(Main) /\ UnderAttempt ELSE UNCHANGED <<active, disk, raced>>
      /\ UNCHANGED <<run, lock, fork, stale, head, ver, att, direct>>
  BY DEF DeleteBranch, Acts
<1>2. /\ branch' \in [Branches -> {"none", "live", "deleted"}]
      /\ branch'[Main] # "none" /\ branch'[active] # "none"
  BY <1>1, BranchAssumption DEF Invariant, TypeOK, Course, ActiveIsThere
<1>3. CASE active = b
  BY <1>1, <1>2, <1>3, ShowsKeeps, BranchAssumption
<1>4. CASE active # b
  <2>1. TypeOK'
    BY <1>1, <1>2, <1>4 DEF Invariant, TypeOK
  <2>2. Shape'
    BY <1>1, <2>1, ShapeRests DEF Invariant
  <2>3. Course'
    BY <1>1, <1>2, <1>4 DEF Invariant, Course, LockIsHeld, ActiveIsThere, AttemptsOwn, Own
  <2>4. \A a \in Actors : AttemptIsCurrent(att[a]) => AttemptIsCurrent(att[a])'
    BY <1>1, <1>4, StaysCurrent
  <2>5. FilesAreHeads => FilesAreHeads'
    BY <1>1, <1>4 DEF FilesAreHeads, Writing
  <2>6. Undisturbed'
    BY <1>1, <1>4, <2>4, <2>5 DEF Invariant, Undisturbed, BytesAreOwn, LineageIsRead, ReadIsLineage
  <2>7. QED
    BY <2>1, <2>2, <2>3, <2>6 DEF Invariant
<1>5. QED
  BY <1>3, <1>4
-----------------------------------------------------------------------------
(* The graph at first, and every step.                                      *)

LEMMA InvariantAtFirst == Init => Invariant
<1> SUFFICES ASSUME Init PROVE Invariant
  OBVIOUS
<1>1. /\ head = [b \in Branches |-> Nothing] /\ fork = [b \in Branches |-> 0]
      /\ ver = [v \in Versions |-> NoVersion] /\ att = [a \in Actors |-> Idle]
      /\ disk = [q \in Phases |-> NoBytes] /\ lock = NoActor /\ active = Main
  BY DEF Init
<1>2. TypeOK
  BY ValueTypes, BranchAssumption DEF Init, TypeOK, RunState
<1>3. \A b \in Branches, q \in Phases : head[b][q] = 0
  BY <1>1 DEF Nothing
<1>4. \A v \in Versions :
          /\ ver[v].status = "unused" /\ ~ Exists(v) /\ ver[v].parent = 0
          /\ ver[v].lineage = Nothing
  BY <1>1 DEF NoVersion, Exists
<1>5. UsedInOrder /\ RowsRefer /\ HeadsAreDone /\ ForksAreDone
  BY <1>1, <1>3, <1>4 DEF UsedInOrder, RowsRefer, HeadsAreDone, ForksAreDone, Nothing
<1>6. HeadsFollowUpstream
  <2>1. Sound
    BY <1>2, <1>5 DEF Sound, TypeOK, Rows
  <2>2. \A b \in Branches, q \in Phases : Matching(b, head[b], q) = {}
    BY <1>3, <1>4, <2>1, MatchingAreDone DEF Done
  <2>3. QED
    BY <1>3, <2>2 DEF HeadsFollowUpstream
<1>7. \A a \in Actors : att[a].pc \notin Held /\ att[a].pc = "idle"
  BY <1>1 DEF Idle, Held
<1>8. Course
  BY <1>1, <1>7, ActorsAssumption, BranchAssumption
  DEF Init, Course, LockIsHeld, ActiveIsThere, AttemptsOwn, Held, Versioned
<1>9. Undisturbed
  <2>1. \A a \in Actors : AttemptIsCurrent(att[a])
    BY <1>7 DEF AttemptIsCurrent, Held, Versioned
  <2>2. FilesAreHeads
    BY <1>1, <1>3, BranchAssumption DEF FilesAreHeads
  <2>3. BytesAreOwn /\ LineageIsRead
    BY <1>4 DEF BytesAreOwn, LineageIsRead
  <2>4. QED
    BY <2>1, <2>2, <2>3 DEF Undisturbed
<1>10. QED
  BY <1>2, <1>5, <1>6, <1>8, <1>9 DEF Invariant, Shape

LEMMA InvariantStays == Invariant /\ [Next]_vars => Invariant'
<1> SUFFICES ASSUME Invariant, [Next]_vars PROVE Invariant'
  OBVIOUS
<1>1. ASSUME NEW a \in Actors, Attempt(a) PROVE Invariant'
  <2>1. ASSUME NEW p \in Phases,
               \/ CheckStart(a, p) \/ CheckRerun(a, p)
               \/ CheckEdit(a, p, "edit") \/ CheckEdit(a, p, "replace")
        PROVE  Invariant'
    BY <2>1, CheckStartKeeps, CheckRerunKeeps, CheckEditKeeps
  <2>2. CASE Claim(a) \/ GiveUp(a) \/ Begin(a) \/ Enter(a) \/ Raise(a) \/ Finish(a) \/ Fail(a)
    BY <2>2, ClaimKeeps, GiveUpKeeps, BeginKeeps, EnterKeeps, WritesKeep, FailKeeps
  <2>3. CASE Commit(a) \/ CommitRaises(a) \/ Settle(a) \/ SaveEdit(a) \/ SaveReplace(a)
    BY <2>3, CommitKeeps, CommitRaisesKeeps, SettleKeeps, SaveEditKeeps, SaveReplaceKeeps
  <2>4. QED
    BY <1>1, <2>1, <2>2, <2>3 DEF Attempt
<1>2. ASSUME NEW v \in Versions, Activate(ver[v].phase, v) PROVE Invariant'
  <2>1. ver[v].phase \in Phases
    BY DEF Invariant, TypeOK, Row
  <2>2. QED
    BY <1>2, <2>1, ActivateKeeps
<1>3. ASSUME NEW p \in Phases, ActivateMatch(p) PROVE Invariant'
  BY <1>3, ActivateMatchKeeps
<1>4. ASSUME NEW v \in Versions, DeleteVersion(v) PROVE Invariant'
  BY <1>4, DeleteVersionKeeps
<1>5. ASSUME NEW b \in Branches, NEW c \in Branches, NEW v \in Versions, CreateBranch(b, c, v)
      PROVE  Invariant'
  BY <1>5, CreateBranchKeeps
<1>6. ASSUME NEW b \in Branches, SwitchBranch(b) \/ DeleteBranch(b) PROVE Invariant'
  BY <1>6, SwitchBranchKeeps, DeleteBranchKeeps
<1>7. CASE EditSources \/ EditProposal \/ EditKernel
  BY <1>7, MarksKeep
<1>8. CASE UNCHANGED vars
  <2>1. UNCHANGED <<run, lock, active, branch, fork, stale, head, ver, disk, att, moves, direct, raced>>
    BY <1>8 DEF vars, graph
  <2>2. TypeOK'
    BY <2>1 DEF Invariant, TypeOK
  <2>3. QED
    BY <2>1, <2>2, UserStep
<1>9. QED
  BY <1>1, <1>2, <1>3, <1>4, <1>5, <1>6, <1>7, <1>8 DEF Next

LEMMA InvariantHolds == Spec => []Invariant
BY InvariantAtFirst, InvariantStays, PTL DEF Spec
-----------------------------------------------------------------------------
(* The promises.                                                            *)

\* Whatever is rerun, edited, activated or forked, a head that nobody chose since the
\* phases before it last moved was computed from their heads, and a phase is left
\* without a head only when no version fits (_cascade_phase_after_upstream_change).
THEOREM HeadsAlwaysFollowUpstream == Spec => []HeadsFollowUpstream
<1>1. Invariant => HeadsFollowUpstream
  BY DEF Invariant, Shape
<1>2. QED
  BY <1>1, InvariantHolds, PTL

\* No version that a head, a later version or a live branch refers to is deleted, in
\* whatever order deletes, forks, commits and failures come (delete_phase_version).
THEOREM NothingEverDangles == Spec => []NothingDangles
<1>1. Invariant => NothingDangles
  <2> SUFFICES ASSUME Invariant PROVE NothingDangles
    OBVIOUS
  <2>1. RowsRefer /\ HeadsAreDone /\ ForksAreDone
    BY DEF Invariant, Shape
  <2>2. QED
    BY <2>1 DEF NothingDangles, RowsRefer, HeadsAreDone, ForksAreDone, Done, Exists
<1>2. QED
  BY <1>1, InvariantHolds, PTL

\* As long as no endpoint moves heads or files under an attempt, the files the agents
\* read are those of the heads of the active branch (switch_active_branch,
\* materialize_branch_legacy_paths, commit_phase_version, fail_phase_version).
THEOREM DiskAlwaysShowsHeads == Spec => []DiskShowsHeads
<1>1. Invariant => DiskShowsHeads
  <2> SUFFICES ASSUME Invariant, ~ raced, NEW q \in Phases, ~ Writing(q), head[active][q] # 0
               PROVE  disk[q].by = ver[head[active][q]].bytes.by
    BY DEF DiskShowsHeads
  <2>1. BytesAreOwn /\ disk[q].by = head[active][q]
    BY DEF Invariant, Undisturbed, FilesAreHeads
  <2>2. Done(head[active][q], q)
    BY DEF Invariant, TypeOK, Shape, HeadsAreDone
  <2>3. QED
    BY <2>1, <2>2 DEF BytesAreOwn, Done
<1>2. QED
  BY <1>1, InvariantHolds, PTL

\* Nor does a version then name others than those whose files its agent read
\* (begin_phase_version takes the lineage, the agent reads the files later).
THEOREM LineageIsAlwaysTrue == Spec => []LineageIsTrue
<1>1. Invariant => LineageIsTrue
  <2> SUFFICES ASSUME Invariant, ~ raced, NEW v \in Versions,
                      ver[v].status = "done", ~ ver[v].edited,
                      NEW q \in Phases, ver[v].lineage[q] # 0
               PROVE  ver[v].read[q] = ver[ver[v].lineage[q]].bytes.by
    BY DEF LineageIsTrue
  <2>1. BytesAreOwn /\ ver[v].read[q] = ver[v].lineage[q]
    BY DEF Invariant, Undisturbed, LineageIsRead, ReadIsLineage
  <2>2. Done(ver[v].lineage[q], q)
    BY DEF Invariant, Shape, RowsRefer
  <2>3. QED
    BY <2>1, <2>2 DEF BytesAreOwn, Done
<1>2. QED
  BY <1>1, InvariantHolds, PTL
=============================================================================
