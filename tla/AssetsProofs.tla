---------------------------- MODULE AssetsProofs ----------------------------
(***************************************************************************)
(* Proofs about what the runs of assets do to their data, for any number   *)
(* of sources, files, groups, tasks, runs and changes: the selection of    *)
(* the active rows is exact, a migration keeps the newest rows and leaves  *)
(* a dataset that is one collection, and the collection of a source, a     *)
(* text source and a union of upstreams tell the truth, whatever earlier   *)
(* runs that failed or died have left behind.                              *)
(***************************************************************************)
EXTENDS MCAssets, FiniteSetTheorems, WellFoundedInduction, TLAPS

-----------------------------------------------------------------------------
(* The selection of the active rows.  What candidate files, caches, snapshot   *)
(* and manifest say of themselves is true, of the present or of what was.      *)

Row == [rank : Rank, source : Source]
Profile == [fingerprint : Nat, contract : Nat, partitions : SUBSET PartitionsOf(Group)]
Manifest == [contract : Nat, sources : UNION {[S -> Nat] : S \in SUBSET Source}]

\* The rows of one source that may be active.
Winners(s, c) == [g \in Group |-> {r.rank : r \in First(RowsOf(content, {s})[g], c)}]

\* The candidate file of s was made of version v under contract c.
Stamped(s, v, c) ==
  candidate[s] # None /\ occupancy[s].fingerprint = v /\ occupancy[s].contract = c

\* A candidate file with the stamp of the present holds the winners of its source, ...
FilesInv ==
  /\ content \in [Source -> Contents \cup {None}] /\ version \in [Source -> Nat \ {0}] /\ contract \in Nat
  /\ DOMAIN candidate = Source /\ DOMAIN occupancy = Source
  /\ \A s \in Source :
       /\ candidate[s] = None <=> occupancy[s] = None
       /\ candidate[s] # None =>
            /\ candidate[s] \in [Group -> SUBSET Rank] /\ occupancy[s] \in Profile
            /\ occupancy[s].partitions = PartitionsOf(GroupsOf(candidate[s]))
            /\ occupancy[s].fingerprint <= version[s] /\ occupancy[s].contract <= contract
       /\ Stamped(s, version[s], contract) => content[s] # None /\ candidate[s] = Winners(s, contract)

\* ... a run stamps what it builds with what it has listed, ...
RunInv ==
  /\ pc \in {"idle", "building", "selecting", "writing"}
  /\ full \in BOOLEAN /\ stale \in BOOLEAN /\ impacted \in SUBSET Group /\ plan \in Nat
  /\ listed \in [Source -> Nat] /\ plan <= contract /\ \A s \in Source : listed[s] <= version[s]
  /\ pending \in SUBSET Listed /\ (pc # "building" => pending = {})
  /\ pc # "idle" =>
       /\ ~complete /\ (pc # "writing" => globalCache = <<>>)
       /\ quiet => plan = contract /\ listed = [s \in Source |-> IF s \in Present THEN version[s] ELSE 0]
       /\ \A s \in Listed \ pending : Stamped(s, listed[s], plan)
  /\ pc \in {"selecting", "writing"} =>
       manifest # None /\ manifest.contract = plan /\ manifest.sources = [s \in Listed |-> listed[s]]
  /\ pc = "writing" => selected = SelectFrom(Listed)

\* ... the snapshot is the selection of the run before, and during a run it still
\* holds for the groups that are not impacted, ...
SnapshotInv ==
  snapshot # None =>
    /\ snapshot \in [Group -> SUBSET Row] /\ manifest # None
    /\ pc = "idle" =>
         /\ DOMAIN manifest.sources \in SUBSET Source
         /\ \A s \in DOMAIN manifest.sources : candidate[s] # None
         /\ snapshot = Reduce(RowsOf(candidate, DOMAIN manifest.sources), manifest.contract)
    /\ pc \in {"building", "selecting"} /\ ~full =>
         \A g \in Group \ impacted :
           /\ snapshot[g] = First(RowsOf(candidate, {s \in Listed : candidate[s] # None})[g], plan)
           /\ \A s \in pending : candidate[s] # None => candidate[s][g] = {}

\* ... and what a cache has under a stamp was made of the candidate files that bear it:
\* the next run reuses the files that bear the stamp of the present.
Kept(k) ==
  /\ DOMAIN k[2] \in SUBSET Source
  /\ \A s \in DOMAIN k[2] :
       /\ k[2][s] \in Nat \X Nat /\ k[2][s][1] <= version[s] /\ k[2][s][2] <= contract
       /\ k[2][s] = <<version[s], contract>> =>
            /\ content[s] # None /\ Stamped(s, version[s], contract)
            /\ manifest # None /\ manifest.contract = contract
            /\ s \in DOMAIN manifest.sources /\ manifest.sources[s] = version[s]
            /\ pc # "idle" => listed[s] = version[s] /\ plan = contract
       /\ s \in pending => k[2][s] # <<listed[s], plan>>
  /\ \A c \in Nat :
       (\A s \in DOMAIN k[2] : k[2][s][2] = c /\ Stamped(s, k[2][s][1], c)) =>
         localCache[k] = Reduce([g \in {h \in Group : PartitionOf[h] = k[1]} |->
                                   RowsOf(candidate, DOMAIN k[2])[g]], c)
CacheInv == \A k \in DOMAIN localCache : Kept(k)

SelectionInv == FilesInv /\ RunInv /\ SnapshotInv /\ CacheInv /\ SelectionIsExact

-----------------------------------------------------------------------------
(* The order of the rows *)

\* Every set of numbers that has one has a least one.
LEMMA LeastNumber ==
  ASSUME NEW T \in SUBSET Nat, T # {}
  PROVE  \E x \in T : \A y \in T : x <= y
  <1> DEFINE R == {ss \in Nat \X Nat : ss[1] < ss[2]}
  <1>1. R = OpToRel(<, Nat)
    BY Zenon DEF OpToRel
  <1>2. IsWellFoundedOn(R, Nat)
    BY <1>1, NatLessThanWellFounded, Zenon
  <1>3. \A x, y \in Nat : y < x => <<y, x>> \in R
    OBVIOUS
  <1> HIDE DEF R
  <1>4. PICK x \in T : \A y \in T : ~(<<y, x>> \in R)
    BY <1>2, WFMin, Zenon
  <1>5. ASSUME NEW y \in T PROVE x <= y
    <2>1. x \in Nat /\ y \in Nat
      OBVIOUS
    <2>2. ~(y < x)
      BY <1>3, <1>4, <2>1, Zenon
    <2> QED BY <2>1, <2>2
  <1> QED BY <1>5

LEMMA RowsFinite ==
  ASSUME NEW R \in SUBSET Row
  PROVE  IsFiniteSet(R)
  <1> DEFINE P == Rank \X Source
             f == [p \in P |-> [rank |-> p[1], source |-> p[2]]]
  <1>1. IsFiniteSet(P)
    BY SelectionAssumption, FS_Product
  <1>2. \A r \in Row : \E p \in P : f[p] = r
    <2>1. ASSUME NEW r \in Row PROVE <<r.rank, r.source>> \in P /\ f[<<r.rank, r.source>>] = r
      BY DEF Row
    <2> QED BY <2>1
  <1>3. f \in [P -> Row]
    BY DEF Row
  <1>4. f \in Surjection(P, Row)
    <2> HIDE DEF f, P
    <2> QED BY <1>2, <1>3 DEF Surjection
  <1>5. IsFiniteSet(Row)
    <2> HIDE DEF f, P
    <2> QED BY <1>1, <1>4, FS_Surjection
  <1> QED BY <1>5, FS_Subset

\* The order is strict and total.
LEMMA BeforeIs ==
  ASSUME NEW c \in Nat
  PROVE  /\ \A r, q \in Row : r # q => Before(r, q, c) \/ Before(q, r, c)
         /\ \A r, q \in Row : ~(Before(r, q, c) /\ Before(q, r, c))
         /\ \A r, q, p \in Row : Before(r, q, c) /\ Before(q, p, c) => Before(r, p, c)
  <1>1. ASSUME NEW r \in Row
        PROVE  r.rank \in Nat /\ r.source \in Nat /\ r = [rank |-> r.rank, source |-> r.source]
    <2>1. Rank \subseteq Nat /\ Source \subseteq Nat
      BY SelectionAssumption
    <2>2. PICK k \in Rank, s \in Source : r = [rank |-> k, source |-> s]
      BY Zenon DEF Row
    <2> QED BY <2>1, <2>2
  <1>2. ASSUME NEW r \in Row, NEW q \in Row, r # q PROVE Before(r, q, c) \/ Before(q, r, c)
    <2>1. r.rank # q.rank \/ r.source # q.source
      BY <1>1, <1>2
    <2> QED BY <1>1, <2>1 DEF Before
  <1>3. ASSUME NEW r \in Row, NEW q \in Row PROVE ~(Before(r, q, c) /\ Before(q, r, c))
    BY <1>1 DEF Before
  <1>4. ASSUME NEW r \in Row, NEW q \in Row, NEW p \in Row, Before(r, q, c), Before(q, p, c) PROVE Before(r, p, c)
    BY <1>1, <1>4 DEF Before
  <1> QED BY <1>2, <1>3, <1>4

LEMMA FirstIs ==
  ASSUME NEW R, NEW c, NEW r
  PROVE  r \in First(R, c) <=> r \in R /\ \A q \in R : q = r \/ Before(r, q, c)
  BY DEF First

\* Of rows that there are, one is first.
LEMMA FirstExists ==
  ASSUME NEW R \in SUBSET Row, R # {}, NEW c \in Nat
  PROVE  First(R, c) # {}
  <1> DEFINE ahead(r) == {q \in R : Before(q, r, c)}
             N == {Cardinality(ahead(r)) : r \in R}
  <1>1. ASSUME NEW r \in R PROVE IsFiniteSet(ahead(r)) /\ Cardinality(ahead(r)) \in Nat
    <2>1. ahead(r) \in SUBSET Row
      OBVIOUS
    <2> HIDE DEF ahead
    <2> QED BY <2>1, RowsFinite, FS_CardinalityType
  <1>2. N \in SUBSET Nat /\ N # {}
    BY <1>1
  <1>3. PICK n \in N : \A m \in N : n <= m
    <2> HIDE DEF N
    <2> QED BY <1>2, LeastNumber
  <1>4. PICK r \in R : n = Cardinality(ahead(r))
    OBVIOUS
  <1>5. ASSUME NEW q \in R, Before(q, r, c) PROVE FALSE
    <2>1. q \in ahead(r) /\ q \notin ahead(q)
      BY <1>5, BeforeIs
    <2>2. ASSUME NEW p \in ahead(q) PROVE p \in ahead(r)
      BY <1>5, BeforeIs
    <2>3. ahead(q) \in SUBSET ahead(r) /\ ahead(q) # ahead(r)
      BY <2>1, <2>2
    <2>4. n <= Cardinality(ahead(q))
      BY <1>3
    <2> HIDE DEF ahead
    <2>5. Cardinality(ahead(q)) <= Cardinality(ahead(r)) /\ Cardinality(ahead(q)) # Cardinality(ahead(r))
      BY <1>1, <2>3, FS_Subset
    <2>6. Cardinality(ahead(q)) \in Nat /\ Cardinality(ahead(r)) \in Nat
      BY <1>1
    <2> QED BY <1>4, <2>4, <2>5, <2>6
  <1>6. \A q \in R : q = r \/ Before(r, q, c)
    BY <1>5, BeforeIs
  <1>7. r \in First(R, c)
    BY <1>6, FirstIs
  <1> QED BY <1>7

\* The first of all rows is the first of those that are first in their own set: rows may be
\* reduced set by set, in any grouping, before they are reduced together.
All(I, R) == UNION {R[i] : i \in I}
Firsts(I, R, c) == UNION {First(R[i], c) : i \in I}

LEMMA FirstOfFirst ==
  ASSUME NEW I, NEW R, \A i \in I : R[i] \in SUBSET Row, NEW c \in Nat
  PROVE  First(Firsts(I, R, c), c) = First(All(I, R), c)
  <1> DEFINE A == All(I, R)
             B == Firsts(I, R, c)
  <1>1. ASSUME NEW r PROVE r \in A <=> \E i \in I : r \in R[i]
    BY DEF All
  <1>2. ASSUME NEW r PROVE r \in B <=> \E i \in I : r \in First(R[i], c)
    BY DEF Firsts
  <1>3. B \subseteq A /\ A \subseteq Row
    BY <1>1, <1>2, FirstIs
  <1> HIDE DEF A, B
  <1>4. ASSUME NEW r \in First(A, c) PROVE r \in First(B, c)
    <2>1. r \in A /\ \A q \in A : q = r \/ Before(r, q, c)
      BY <1>4, FirstIs
    <2>2. PICK i \in I : r \in R[i]
      BY <1>1, <2>1
    <2>3. \A q \in R[i] : q \in A
      BY <1>1
    <2>4. r \in First(R[i], c)
      BY <2>1, <2>2, <2>3, FirstIs
    <2>5. r \in B /\ \A q \in B : q = r \/ Before(r, q, c)
      BY <1>2, <1>3, <2>1, <2>4
    <2> QED BY <2>5, FirstIs
  <1>5. ASSUME NEW r \in First(B, c) PROVE r \in First(A, c)
    <2>1. r \in B /\ \A q \in B : q = r \/ Before(r, q, c)
      BY <1>5, FirstIs
    <2>2. ASSUME NEW q \in A PROVE q = r \/ Before(r, q, c)
      <3>1. PICK i \in I : q \in R[i]
        BY <1>1
      <3>2. PICK f \in First(R[i], c) : TRUE
        BY <3>1, FirstExists
      <3>3. f \in B /\ f \in R[i] /\ (q = f \/ Before(f, q, c))
        BY <1>2, <3>1, FirstIs
      <3>4. f = r \/ Before(r, f, c)
        BY <2>1, <3>3
      <3>5. r \in Row /\ q \in Row /\ f \in Row
        BY <1>3, <2>1, <3>3
      <3> QED BY <3>3, <3>4, <3>5, BeforeIs
    <2>3. r \in A
      BY <1>3, <2>1
    <2> QED BY <2>2, <2>3, FirstIs
  <1> QED BY <1>4, <1>5 DEF A, B

\* The rows of some sources in one group.
LEMMA RowsIs ==
  ASSUME NEW f, NEW S, NEW g \in Group, NEW r
  PROVE  r \in RowsOf(f, S)[g] <=> \E s \in S : \E k \in f[s][g] : r = [rank |-> k, source |-> s]
  BY DEF RowsOf

LEMMA RowsTyped ==
  ASSUME NEW S \in SUBSET Source, NEW g \in Group, NEW f, \A s \in S : f[s][g] \in SUBSET Rank
  PROVE  RowsOf(f, S)[g] \in SUBSET Row
  <1>1. ASSUME NEW r \in RowsOf(f, S)[g] PROVE r \in Row
    <2>1. PICK s \in S : \E k \in f[s][g] : r = [rank |-> k, source |-> s]
      BY RowsIs
    <2>2. PICK k \in f[s][g] : r = [rank |-> k, source |-> s]
      BY <2>1
    <2> QED BY <2>2 DEF Row
  <1> QED BY <1>1

LEMMA ReduceIs ==
  ASSUME NEW f, NEW S, NEW c
  PROVE  /\ DOMAIN Reduce(RowsOf(f, S), c) = Group
         /\ Reduce(RowsOf(f, S), c) = [g \in Group |-> First(RowsOf(f, S)[g], c)]
  BY DEF Reduce, RowsOf

LEMMA ReduceTyped ==
  ASSUME NEW f, NEW S \in SUBSET Source, NEW c, \A s \in S : f[s] \in [Group -> SUBSET Rank]
  PROVE  Reduce(RowsOf(f, S), c) \in [Group -> SUBSET Row]
  <1>1. ASSUME NEW g \in Group PROVE First(RowsOf(f, S)[g], c) \in SUBSET Row
    <2>1. RowsOf(f, S)[g] \in SUBSET Row
      BY RowsTyped
    <2> QED BY <2>1, FirstIs
  <1> QED BY <1>1, ReduceIs

-----------------------------------------------------------------------------
(* The ways a selection takes *)

\* The first of the local winners are the first of all rows.
LEMMA WinnersSelect ==
  ASSUME NEW S \in SUBSET Source, NEW c \in Nat, \A s \in S : content[s] \in [Group -> SUBSET Rank],
         \A s \in S : candidate[s] = Winners(s, c)
  PROVE  Reduce(RowsOf(candidate, S), c) = Reduce(RowsOf(content, S), c)
  <1>1. ASSUME NEW g \in Group
        PROVE  First(RowsOf(candidate, S)[g], c) = First(RowsOf(content, S)[g], c)
    <2> DEFINE R == [s \in S |-> RowsOf(content, {s})[g]]
    <2>1. \A s \in S : R[s] = RowsOf(content, {s})[g]
      OBVIOUS
    <2>2. ASSUME NEW s \in S, NEW r
          PROVE  r \in R[s] <=> \E k \in content[s][g] : r = [rank |-> k, source |-> s]
      BY <2>1, RowsIs
    <2> HIDE DEF R
    <2>3. \A s \in S : R[s] \in SUBSET Row
      <3>1. ASSUME NEW s \in S PROVE RowsOf(content, {s})[g] \in SUBSET Row
        <4>1. \A t \in {s} : content[t][g] \in SUBSET Rank
          OBVIOUS
        <4>2. {s} \in SUBSET Source
          OBVIOUS
        <4> QED BY <4>1, <4>2, RowsTyped
      <3> QED BY <2>1, <3>1
    <2>4. All(S, R) = RowsOf(content, S)[g]
      <3>1. ASSUME NEW r PROVE r \in All(S, R) <=> r \in RowsOf(content, S)[g]
        BY <2>2, RowsIs DEF All
      <3> QED BY <3>1
    <2>5. Firsts(S, R, c) = RowsOf(candidate, S)[g]
      <3>1. ASSUME NEW s \in S, NEW r
            PROVE  r \in First(R[s], c) <=> \E k \in candidate[s][g] : r = [rank |-> k, source |-> s]
        <4>1. candidate[s][g] = {q.rank : q \in First(R[s], c)}
          <5>1. candidate[s] = Winners(s, c) /\ R[s] = RowsOf(content, {s})[g]
            BY <2>1
          <5>2. Winners(s, c)[g] = {q.rank : q \in First(RowsOf(content, {s})[g], c)}
            BY DEF Winners
          <5> QED BY <5>1, <5>2
        <4>2. \A q \in First(R[s], c) : q = [rank |-> q.rank, source |-> s]
          <5>1. SUFFICES ASSUME NEW q \in First(R[s], c) PROVE q = [rank |-> q.rank, source |-> s]
            OBVIOUS
          <5>2. PICK k \in content[s][g] : q = [rank |-> k, source |-> s]
            BY <2>2, <5>1, FirstIs
          <5> QED BY <5>2
        <4> QED BY <4>1, <4>2
      <3>2. ASSUME NEW r PROVE r \in Firsts(S, R, c) <=> r \in RowsOf(candidate, S)[g]
        BY <3>1, RowsIs DEF Firsts
      <3> QED BY <3>2
    <2>6. First(Firsts(S, R, c), c) = First(All(S, R), c)
      BY <2>3, FirstOfFirst
    <2> QED BY <2>4, <2>5, <2>6, Zenon
  <1>2. [g \in Group |-> First(RowsOf(candidate, S)[g], c)] = [g \in Group |-> First(RowsOf(content, S)[g], c)]
    BY <1>1, Zenon
  <1> QED BY <1>2, ReduceIs

\* No candidate file that is left out has a row of an impacted group.
LEMMA AcceptedSelect ==
  ASSUME FilesInv, RunInv, \A s \in Listed : candidate[s] # None, NEW g \in impacted
  PROVE  Reduce(FramesOf(Accepted), plan)[g] = SelectFrom(Listed)[g]
  <1>1. g \in Group /\ Listed \subseteq Source
    BY DEF RunInv, Listed
  <1> DEFINE named == {s \in Listed : occupancy[s] = None \/ occupancy[s].partitions \cap PartitionsOf(impacted) # {}}
  <1>2. Accepted = IF named = {} THEN Listed ELSE named
    BY DEF Accepted
  <1>3. PartitionOf[g] \in PartitionsOf(impacted)
    BY DEF PartitionsOf
  <1>4. ASSUME NEW s \in Listed, candidate[s][g] # {} PROVE s \in named
    <2>1. occupancy[s].partitions = PartitionsOf(GroupsOf(candidate[s])) /\ g \in GroupsOf(candidate[s])
      BY <1>1, <1>4 DEF FilesInv, GroupsOf
    <2>2. PartitionOf[g] \in occupancy[s].partitions
      BY <2>1 DEF PartitionsOf
    <2> QED BY <1>3, <2>2
  <1>5. ASSUME NEW r PROVE r \in RowsOf(candidate, Accepted)[g] <=> r \in RowsOf(candidate, Listed)[g]
    BY <1>1, <1>2, <1>4, RowsIs
  <1>6. RowsOf(candidate, Accepted)[g] = RowsOf(candidate, Listed)[g]
    BY <1>5
  <1>7. FramesOf(Accepted)[g] = RowsOf(candidate, Accepted)[g] /\ DOMAIN FramesOf(Accepted) = Group
    BY <1>1, <1>3 DEF FramesOf
  <1>8. Reduce(FramesOf(Accepted), plan)[g] = First(RowsOf(candidate, Listed)[g], plan)
    BY <1>1, <1>6, <1>7 DEF Reduce
  <1> QED BY <1>1, <1>8, ReduceIs DEF SelectFrom

Partition(p) == {h \in Group : PartitionOf[h] = p}
LocalExact(cohort, p) ==
  LocalWinners(cohort, p) = Reduce([g \in Partition(p) |-> RowsOf(candidate, cohort)[g]], plan)

\* What the cache of local winners has is what would be computed.
LEMMA CacheSelects ==
  ASSUME RunInv, CacheInv, pc = "selecting", NEW cohort \in SUBSET Listed, NEW p
  PROVE  LocalExact(cohort, p)
  <1> DEFINE k == LocalKey(cohort, p)
  <1>1. k[1] = p /\ DOMAIN k[2] = cohort /\ \A s \in cohort : k[2][s] = <<listed[s], plan>>
    BY DEF LocalKey
  <1>2. CASE k \in DOMAIN localCache
    <2>1. plan \in Nat /\ \A s \in Listed : Stamped(s, listed[s], plan)
      BY DEF RunInv
    <2>2. \A s \in cohort : k[2][s][2] = plan /\ k[2][s][1] = listed[s]
      BY <1>1
    <2>3. \A s \in DOMAIN k[2] : k[2][s][2] = plan /\ Stamped(s, k[2][s][1], plan)
      BY <1>1, <2>1, <2>2
    <2>4. Kept(k)
      BY <1>2 DEF CacheInv
    <2> HIDE DEF k
    <2>5. localCache[k] = Reduce([g \in {h \in Group : PartitionOf[h] = k[1]} |-> RowsOf(candidate, DOMAIN k[2])[g]], plan)
      BY <2>1, <2>3, <2>4 DEF Kept
    <2>6. localCache[k] = Reduce([g \in Partition(p) |-> RowsOf(candidate, cohort)[g]], plan)
      BY <1>1, <2>5 DEF Partition
    <2> QED BY <1>2, <2>6 DEF LocalExact, LocalWinners, k
  <1>3. CASE k \notin DOMAIN localCache
    BY <1>3 DEF LocalExact, LocalWinners, LocalSelection, CohortRows, Partition
  <1> QED BY <1>2, <1>3

Shards(locals, layout) ==
  [g \in Group |-> UNION {Reduced(x, locals, layout)[g] :
                            x \in {y \in Buckets(locals, layout) : g \in DOMAIN Reduced(y, locals, layout)}}]

\* Neither the cohorts nor the sub-buckets change what is selected.
LEMMA ShardsSelect ==
  ASSUME NEW cohorts, cohorts \in Cohorts, NEW layout, plan \in Nat, Listed \subseteq Source,
         \A s \in Listed : candidate[s] \in [Group -> SUBSET Rank],
         \A C \in cohorts : \A p \in PartitionsOf(Group) : LocalExact(C, p)
  PROVE  Shards(Locals(cohorts), layout) = SelectFrom(Listed)
  <1> DEFINE locals == Locals(cohorts)
  <1>1. DOMAIN locals = PartitionsOf(Group)
        /\ \A p \in PartitionsOf(Group) : DOMAIN locals[p] = cohorts /\ \A C \in cohorts : locals[p][C] = LocalWinners(C, p)
    BY DEF Locals
  <1>2. \A C \in cohorts : C \in SUBSET Listed
    BY DEF Cohorts
  <1>3. \A s \in Listed : \E C \in cohorts : s \in C
    BY DEF Cohorts
  <1> HIDE DEF locals
  <1>4. ASSUME NEW g \in Group PROVE Shards(locals, layout)[g] = First(RowsOf(candidate, Listed)[g], plan)
    <2> DEFINE p == PartitionOf[g]
               x == <<p, layout[g]>>
               R == [C \in cohorts |-> RowsOf(candidate, C)[g]]
    <2>1. p \in PartitionsOf(Group)
      BY DEF PartitionsOf
    <2>2. ASSUME NEW C \in cohorts
          PROVE  R[C] \in SUBSET Row /\ locals[p][C][g] = First(R[C], plan) /\ DOMAIN locals[p][C] = Partition(p)
      <3>1. \A s \in C : candidate[s][g] \in SUBSET Rank
        BY <1>2
      <3>2. C \in SUBSET Source
        BY <1>2
      <3>3. RowsOf(candidate, C)[g] \in SUBSET Row
        BY <3>1, <3>2, RowsTyped
      <3>4. locals[p][C] = Reduce([h \in Partition(p) |-> RowsOf(candidate, C)[h]], plan)
        BY <1>1, <2>1 DEF LocalExact
      <3>5. g \in Partition(p)
        BY DEF Partition
      <3> QED BY <3>3, <3>4, <3>5 DEF Reduce
    <2>3. All(cohorts, R) = RowsOf(candidate, Listed)[g]
      <3>1. ASSUME NEW r PROVE r \in All(cohorts, R) <=> r \in RowsOf(candidate, Listed)[g]
        BY <1>2, <1>3, RowsIs DEF All
      <3> QED BY <3>1
    <2> HIDE DEF R
    <2>4. First(Firsts(cohorts, R, plan), plan) = First(RowsOf(candidate, Listed)[g], plan)
      <3>1. First(Firsts(cohorts, R, plan), plan) = First(All(cohorts, R), plan)
        BY <2>2, FirstOfFirst
      <3> QED BY <2>3, <3>1, Zenon
    <2>5. UNION {locals[p][C][g] : C \in cohorts} = Firsts(cohorts, R, plan)
      BY <2>2 DEF Firsts
    <2>6. \A y \in Buckets(locals, layout) : g \in DOMAIN Reduced(y, locals, layout) <=> y = x
      <3>1. ASSUME NEW y \in Buckets(locals, layout) PROVE y = <<y[1], y[2]>>
        BY DEF Buckets
      <3>2. ASSUME NEW y PROVE g \in DOMAIN Reduced(y, locals, layout) <=> p = y[1] /\ layout[g] = y[2]
        BY DEF Reduced, Reduce
      <3> QED BY <3>1, <3>2
    <2>7. Reduced(x, locals, layout)[g] = First(UNION {locals[p][C][g] : C \in cohorts}, plan)
      <3>1. x[1] = p /\ x[2] = layout[g] /\ DOMAIN locals[p] = cohorts
        BY <1>1, <2>1
      <3>2. g \in {h \in Group : PartitionOf[h] = x[1] /\ layout[h] = x[2]}
        BY <3>1
      <3> HIDE DEF x, p
      <3>3. Reduced(x, locals, layout)[g] = First(UNION {locals[x[1]][C][g] : C \in DOMAIN locals[x[1]]}, plan)
        BY <3>2 DEF Reduced, Reduce
      <3> QED BY <3>1, <3>3
    <2>8. Shards(locals, layout)[g]
            = UNION {Reduced(y, locals, layout)[g] : y \in {z \in Buckets(locals, layout) : z = x}}
      BY <2>6 DEF Shards
    <2> HIDE DEF x
    <2>9. CASE x \in Buckets(locals, layout)
      <3>1. Shards(locals, layout)[g] = Reduced(x, locals, layout)[g]
        BY <2>8, <2>9
      <3> QED BY <2>4, <2>5, <2>7, <3>1
    <2>10. CASE x \notin Buckets(locals, layout)
      <3>1. Shards(locals, layout)[g] = {}
        BY <2>8, <2>10
      <3>2. ASSUME NEW C \in cohorts PROVE R[C] = {}
        <4>1. layout[g] \notin Batches(locals[p][C], layout)
          BY <1>1, <2>1, <2>10 DEF Buckets, x
        <4>2. g \in Partition(p)
          BY DEF Partition
        <4>3. locals[p][C][g] = {}
          BY <2>2, <4>1, <4>2 DEF Batches
        <4>4. First(R[C], plan) = {} /\ R[C] \in SUBSET Row
          BY <2>2, <4>3
        <4> QED BY <4>4, FirstExists
      <3>3. RowsOf(candidate, Listed)[g] = {}
        BY <2>3, <3>2 DEF All
      <3> QED BY <3>1, <3>3, FirstIs
    <2> QED BY <2>9, <2>10
  <1>5. Shards(locals, layout) = [g \in Group |-> Shards(locals, layout)[g]]
    BY DEF Shards
  <1>6. SelectFrom(Listed) = [g \in Group |-> First(RowsOf(candidate, Listed)[g], plan)]
    BY ReduceIs DEF SelectFrom
  <1>7. Shards(locals, layout) = SelectFrom(Listed)
    BY <1>4, <1>5, <1>6, Zenon
  <1> QED BY <1>7 DEF locals

-----------------------------------------------------------------------------
(* What the steps have in common *)

LEMMA NoneIs ==
  /\ \A c \in Contents : c \in [Group -> SUBSET Rank] /\ c # None
  /\ \A f \in [Group -> SUBSET Rank] \cup [Group -> SUBSET Row] \cup Profile \cup Manifest : f # None
  BY SelectionAssumption DEF Row, Profile, PartitionsOf, Manifest

LEMMA RowsSame ==
  ASSUME NEW e, NEW f, NEW S, \A s \in S : e[s] = f[s]
  PROVE  RowsOf(e, S) = RowsOf(f, S)
  <1>1. ASSUME NEW g \in Group PROVE RowsOf(e, S)[g] = RowsOf(f, S)[g]
    <2>1. ASSUME NEW r PROVE r \in RowsOf(e, S)[g] <=> r \in RowsOf(f, S)[g]
      BY RowsIs
    <2> QED BY <2>1
  <1> QED BY <1>1 DEF RowsOf

LEMMA WinnersSame ==
  ASSUME NEW s, contract' = contract, content'[s] = content[s]
  PROVE  Winners(s, contract)' = Winners(s, contract)
  <1>1. RowsOf(content', {s}) = RowsOf(content, {s})
    <2>1. \A t \in {s} : content'[t] = content[t]
      OBVIOUS
    <2> QED BY <2>1, RowsSame
  <1>2. Winners(s, contract)' = [g \in Group |-> {r.rank : r \in First(RowsOf(content', {s})[g], contract)}]
    BY DEF Winners, First, RowsOf
  <1> QED BY <1>1, <1>2 DEF Winners

LEMMA WinnersTyped ==
  ASSUME FilesInv, NEW s \in Source, content[s] # None, NEW c
  PROVE  Winners(s, c) \in [Group -> SUBSET Rank]
  <1>1. content[s] \in [Group -> SUBSET Rank]
    BY NoneIs DEF FilesInv
  <1>2. ASSUME NEW g \in Group PROVE {r.rank : r \in First(RowsOf(content, {s})[g], c)} \in SUBSET Rank
    <2>1. \A t \in {s} : content[t][g] \in SUBSET Rank
      BY <1>1
    <2>2. {s} \in SUBSET Source
      OBVIOUS
    <2>3. RowsOf(content, {s})[g] \in SUBSET Row
      BY <2>1, <2>2, RowsTyped
    <2>4. ASSUME NEW r \in First(RowsOf(content, {s})[g], c) PROVE r.rank \in Rank
      <3>1. r \in Row
        BY <2>3, FirstIs
      <3>2. PICK k \in Rank, t \in Source : r = [rank |-> k, source |-> t]
        BY <3>1, Zenon DEF Row
      <3> QED BY <3>2
    <2> QED BY <2>4
  <1> QED BY <1>2 DEF Winners

\* A step that leaves sources and candidate files alone.
LEMMA FilesSame ==
  ASSUME FilesInv, UNCHANGED <<content, version, contract, candidate, occupancy>>
  PROVE  FilesInv'
  BY DEF FilesInv, Stamped, Winners, GroupsOf, PartitionsOf

LEMMA CacheSame ==
  ASSUME CacheInv, UNCHANGED <<content, version, contract, candidate, occupancy, manifest, localCache, listed, plan>>,
         pending' \subseteq pending, pc = "idle" => pc' = "idle"
  PROVE  CacheInv'
  <1>1. ASSUME NEW k \in DOMAIN localCache, Kept(k) PROVE Kept(k)'
    BY <1>1 DEF Kept, Stamped
  <1> QED BY <1>1 DEF CacheInv

\* The listed sources of a run under which nothing has changed are those that are there.
LEMMA QuietListed ==
  ASSUME FilesInv, RunInv, pc # "idle", quiet
  PROVE  plan = contract /\ Listed = Present /\ \A s \in Listed : listed[s] = version[s]
  BY DEF FilesInv, RunInv, Listed, Present

-----------------------------------------------------------------------------
(* The steps *)

LEMMA InitSelection == Init => SelectionInv
  <1> SUFFICES ASSUME Init PROVE SelectionInv
    OBVIOUS
  <1>0. /\ content \in [Source -> Contents \cup {None}] /\ version = [s \in Source |-> 1] /\ contract = 1
        /\ candidate = [s \in Source |-> None] /\ occupancy = [s \in Source |-> None]
        /\ pc = "idle" /\ listed = [s \in Source |-> 0] /\ plan = 1 /\ impacted = {} /\ pending = {}
    BY DEF Init
  <1>1. FilesInv
    <2>1. version \in [Source -> Nat \ {0}] /\ contract \in Nat
      BY <1>0
    <2>2. \A s \in Source : candidate[s] = None /\ occupancy[s] = None
      BY <1>0
    <2> QED BY <1>0, <2>1, <2>2 DEF FilesInv, Stamped
  <1>2. RunInv
    <2>1. full \in BOOLEAN /\ stale \in BOOLEAN
      BY Zenon DEF Init
    <2>2. listed \in [Source -> Nat] /\ plan \in Nat /\ plan <= contract /\ \A s \in Source : listed[s] <= version[s]
      BY <1>0
    <2> QED BY <1>0, <2>1, <2>2 DEF RunInv
  <1>3. SnapshotInv
    BY DEF Init, SnapshotInv
  <1>4. CacheInv
    BY DEF Init, CacheInv
  <1>5. SelectionIsExact
    BY DEF Init, SelectionIsExact
  <1> QED BY <1>1, <1>2, <1>3, <1>4, <1>5 DEF SelectionInv

LEMMA ReplaceStep ==
  ASSUME SelectionInv, NEW s \in Source, NEW c \in Contents \cup {None}, ReplaceSource(s, c)
  PROVE  SelectionInv'
  <1>1. FilesInv /\ RunInv /\ SnapshotInv /\ CacheInv
    BY DEF SelectionInv
  <1>2. /\ content' = [content EXCEPT ![s] = c] /\ version' = [version EXCEPT ![s] = @ + 1] /\ quiet' = FALSE
        /\ contract' = contract /\ candidate' = candidate /\ occupancy' = occupancy /\ manifest' = manifest
        /\ snapshot' = snapshot /\ localCache' = localCache /\ globalCache' = globalCache /\ pc' = pc
        /\ listed' = listed /\ plan' = plan /\ full' = full /\ impacted' = impacted /\ stale' = stale
        /\ pending' = pending /\ selected' = selected /\ complete' = complete
    BY DEF ReplaceSource, files, caches, scope
  <1>3. /\ content' \in [Source -> Contents \cup {None}] /\ version' \in [Source -> Nat \ {0}]
        /\ version'[s] = version[s] + 1 /\ version[s] \in Nat
        /\ \A t \in Source : t # s => content'[t] = content[t] /\ version'[t] = version[t]
        /\ \A t \in Source : version[t] \in Nat /\ version'[t] \in Nat /\ version[t] <= version'[t]
    BY <1>1, <1>2 DEF FilesInv
  <1>4. FilesInv'
    <2>1. ASSUME NEW t \in Source, Stamped(t, version[t], contract)'
          PROVE  content'[t] # None /\ candidate'[t] = Winners(t, contract)'
      <3>1. t # s
        <4>1. candidate[t] # None /\ occupancy[t].fingerprint = version'[t]
          BY <1>2, <2>1 DEF Stamped
        <4>2. occupancy[t].fingerprint <= version[t] /\ occupancy[t] \in Profile
          BY <1>1, <4>1 DEF FilesInv
        <4> QED BY <1>3, <4>1, <4>2
      <3>2. Stamped(t, version[t], contract)
        BY <1>2, <1>3, <2>1, <3>1 DEF Stamped
      <3>3. Winners(t, contract)' = Winners(t, contract)
        <4>1. content'[t] = content[t]
          BY <1>3, <3>1
        <4>2. contract' = contract
          BY <1>2
        <4> QED BY <4>1, <4>2, WinnersSame
      <3> QED BY <1>1, <1>2, <1>3, <3>1, <3>2, <3>3 DEF FilesInv
    <2>2. ASSUME NEW t \in Source, candidate[t] # None
          PROVE  occupancy[t].fingerprint <= version'[t]
      <3>1. occupancy[t].fingerprint <= version[t] /\ occupancy[t] \in Profile
        BY <1>1, <2>2 DEF FilesInv
      <3>2. occupancy[t].fingerprint \in Nat
        BY <3>1 DEF Profile
      <3> QED BY <1>3, <3>1, <3>2
    <2> QED BY <1>1, <1>2, <1>3, <2>1, <2>2 DEF FilesInv, GroupsOf, PartitionsOf
  <1>5. RunInv'
    <2>1. Listed' = Listed /\ SelectFrom(Listed)' = SelectFrom(Listed)
      BY <1>2 DEF Listed, SelectFrom
    <2>2. \A t \in Source : listed[t] <= version'[t]
      BY <1>1, <1>3 DEF RunInv
    <2> QED BY <1>1, <1>2, <2>1, <2>2 DEF RunInv, Stamped
  <1>6. SnapshotInv'
    BY <1>1, <1>2 DEF SnapshotInv, Listed
  <1>7. CacheInv'
    <2>1. ASSUME NEW k \in DOMAIN localCache PROVE Kept(k)'
      <3>1. Kept(k)
        BY <1>1 DEF CacheInv
      <3>2. ASSUME NEW t \in DOMAIN k[2]
            PROVE  k[2][t] # <<version'[s], contract>> \/ t # s
        <4>1. t \in Source /\ k[2][t] \in Nat \X Nat /\ k[2][t][1] <= version[t]
          BY <3>1 DEF Kept
        <4> QED BY <1>3, <4>1
      <3>3. ASSUME NEW t \in DOMAIN k[2]
            PROVE  k[2][t][1] <= version'[t]
        <4>1. t \in Source /\ k[2][t] \in Nat \X Nat /\ k[2][t][1] <= version[t]
          BY <3>1 DEF Kept
        <4> QED BY <1>3, <4>1
      <3> QED BY <1>2, <1>3, <3>1, <3>2, <3>3 DEF Kept, Stamped
    <2> QED BY <1>2, <2>1 DEF CacheInv
  <1>8. SelectionIsExact'
    BY <1>2 DEF SelectionIsExact
  <1> QED BY <1>4, <1>5, <1>6, <1>7, <1>8 DEF SelectionInv

LEMMA ContractStep ==
  ASSUME SelectionInv, ChangeContract
  PROVE  SelectionInv'
  <1>1. FilesInv /\ RunInv /\ SnapshotInv /\ CacheInv
    BY DEF SelectionInv
  <1>2. /\ contract' = contract + 1 /\ quiet' = FALSE
        /\ content' = content /\ version' = version /\ candidate' = candidate /\ occupancy' = occupancy
        /\ manifest' = manifest
        /\ snapshot' = snapshot /\ localCache' = localCache /\ globalCache' = globalCache /\ pc' = pc
        /\ listed' = listed /\ plan' = plan /\ full' = full /\ impacted' = impacted /\ stale' = stale
        /\ pending' = pending /\ selected' = selected /\ complete' = complete
    BY DEF ChangeContract, files, caches, scope
  <1>3. contract \in Nat
    BY <1>1 DEF FilesInv
  <1>4. FilesInv'
    <2>1. ASSUME NEW t \in Source, candidate[t] # None
          PROVE  occupancy[t].contract <= contract' /\ occupancy[t].contract # contract'
      <3>1. occupancy[t].contract <= contract /\ occupancy[t] \in Profile
        BY <1>1, <2>1 DEF FilesInv
      <3>2. occupancy[t].contract \in Nat
        BY <3>1 DEF Profile
      <3> QED BY <1>2, <1>3, <3>1, <3>2
    <2>2. contract' \in Nat
      BY <1>2, <1>3
    <2> QED BY <1>1, <1>2, <2>1, <2>2 DEF FilesInv, Stamped, GroupsOf, PartitionsOf
  <1>5. RunInv'
    <2>1. Listed' = Listed /\ SelectFrom(Listed)' = SelectFrom(Listed)
      BY <1>2 DEF Listed, SelectFrom
    <2>2. plan <= contract'
      BY <1>1, <1>2, <1>3 DEF RunInv
    <2> QED BY <1>1, <1>2, <2>1, <2>2 DEF RunInv, Stamped
  <1>6. SnapshotInv'
    BY <1>1, <1>2 DEF SnapshotInv, Listed
  <1>7. CacheInv'
    <2>1. ASSUME NEW k \in DOMAIN localCache PROVE Kept(k)'
      <3>1. Kept(k)
        BY <1>1 DEF CacheInv
      <3>2. ASSUME NEW t \in DOMAIN k[2]
            PROVE  k[2][t][2] <= contract' /\ k[2][t] # <<version[t], contract'>>
        <4>1. t \in Source /\ k[2][t] \in Nat \X Nat /\ k[2][t][2] <= contract
          BY <3>1 DEF Kept
        <4> QED BY <1>2, <1>3, <4>1
      <3> QED BY <1>2, <3>1, <3>2 DEF Kept, Stamped
    <2> QED BY <1>2, <2>1 DEF CacheInv
  <1>8. SelectionIsExact'
    BY <1>2 DEF SelectionIsExact
  <1> QED BY <1>4, <1>5, <1>6, <1>7, <1>8 DEF SelectionInv

LEMMA ExamineStep ==
  ASSUME SelectionInv, ~KeepGlobal, Examine
  PROVE  SelectionInv'
  <1> DEFINE rebuild == manifest = None \/ manifest.contract # contract
             gone == IF rebuild THEN Source ELSE DOMAIN manifest.sources \ Present
             changed == {s \in Present : rebuild \/ ~CanReuse(s)}
  <1>1. FilesInv /\ RunInv /\ SnapshotInv /\ CacheInv
    BY DEF SelectionInv
  <1>2. /\ content' = content /\ version' = version /\ contract' = contract /\ manifest' = manifest
        /\ snapshot' = snapshot /\ selected' = selected
        /\ pc = "idle" /\ pc' = "building" /\ quiet' = TRUE /\ complete' = FALSE
        /\ listed' = [s \in Source |-> IF s \in Present THEN version[s] ELSE 0] /\ plan' = contract
        /\ full' = rebuild /\ impacted' = (IF rebuild THEN {} ELSE OldGroups(gone \cup changed))
        /\ pending' = changed
        /\ candidate' = [s \in Source |-> IF s \in gone THEN None ELSE candidate[s]]
        /\ occupancy' = [s \in Source |-> IF s \in gone THEN None ELSE occupancy[s]]
        /\ localCache' = (IF rebuild THEN <<>> ELSE localCache) /\ globalCache' = <<>>
    BY DEF Examine, world
  <1>3. stale' \in BOOLEAN /\ full' \in BOOLEAN
    BY Zenon DEF Examine
  <1>4. /\ \A s \in Source : version[s] \in Nat \ {0}
        /\ \A s \in Present : s \in Source /\ content[s] # None
        /\ contract \in Nat
    BY <1>1 DEF FilesInv, Present
  <1>5. /\ \A s \in Present : ~rebuild => s \notin gone
        /\ \A s \in changed : s \in Present /\ (rebuild \/ ~CanReuse(s))
        /\ \A s \in Present : s \notin changed => ~rebuild /\ CanReuse(s)
        /\ ~rebuild => \A s \in DOMAIN manifest.sources : s \in Present \/ s \in gone
        /\ ~rebuild => manifest # None /\ manifest.contract = contract
        /\ rebuild => gone = Source
    OBVIOUS
  <1>6. \A s, g : s \in gone \cup changed /\ candidate[s] # None /\ g \in Group /\ candidate[s][g] # {}
                     => g \in OldGroups(gone \cup changed)
    BY DEF OldGroups, GroupsOf
  <1>7. OldGroups(gone \cup changed) \in SUBSET Group
    BY DEF OldGroups, GroupsOf
  <1> HIDE DEF rebuild, gone, changed
  <1>8. /\ \A s \in Source : s \notin gone => candidate'[s] = candidate[s] /\ occupancy'[s] = occupancy[s]
        /\ \A s \in Source : s \in gone => candidate'[s] = None /\ occupancy'[s] = None
        /\ \A s \in Present : listed'[s] = version[s]
    BY <1>2, <1>4
  <1>9. Listed' = Present
    <2>1. ASSUME NEW s \in Source PROVE listed'[s] # 0 <=> s \in Present
      BY <1>2, <1>4
    <2> QED BY <2>1 DEF Listed, Present
  <1>10. Present' = Present
    BY <1>2 DEF Present
  <1>11. FilesInv'
    <2>1. ASSUME NEW s \in Source, Stamped(s, version[s], contract)'
          PROVE  content'[s] # None /\ candidate'[s] = Winners(s, contract)'
      <3>1. Stamped(s, version[s], contract) /\ candidate'[s] = candidate[s]
        BY <1>2, <1>8, <2>1 DEF Stamped
      <3>2. Winners(s, contract)' = Winners(s, contract)
        BY <1>2, WinnersSame
      <3> QED BY <1>1, <1>2, <3>1, <3>2 DEF FilesInv
    <2>2. ASSUME NEW s \in Source
          PROVE  /\ candidate'[s] = None <=> occupancy'[s] = None
                 /\ candidate'[s] # None =>
                      /\ candidate'[s] \in [Group -> SUBSET Rank] /\ occupancy'[s] \in Profile
                      /\ occupancy'[s].partitions = PartitionsOf(GroupsOf(candidate'[s]))
                      /\ occupancy'[s].fingerprint <= version'[s] /\ occupancy'[s].contract <= contract'
      BY <1>1, <1>2, <1>8 DEF FilesInv
    <2>3. \A s \in Source : (candidate[s] = None)' <=> (occupancy[s] = None)'
      BY <2>2
    <2> QED BY <1>1, <1>2, <2>1, <2>2, <2>3 DEF FilesInv, GroupsOf, PartitionsOf
  <1>12. RunInv'
    <2>1. listed' \in [Source -> Nat] /\ \A s \in Source : listed'[s] <= version'[s]
      BY <1>2, <1>4
    <2>2. impacted' \in SUBSET Group
      BY <1>2, <1>7
    <2>3. pending' \in SUBSET Listed'
      BY <1>2, <1>5, <1>9
    <2>4. ASSUME NEW s \in Listed' \ pending' PROVE Stamped(s, listed[s], plan)'
      <3>1. s \in Present /\ ~rebuild /\ CanReuse(s) /\ s \in Source /\ s \notin gone
        BY <1>2, <1>4, <1>5, <1>9, <2>4
      <3> QED BY <1>2, <1>8, <3>1 DEF CanReuse, Stamped
    <2>5. plan' \in Nat /\ plan' <= contract'
      BY <1>2, <1>4
    <2> QED BY <1>2, <1>3, <1>10, <2>1, <2>2, <2>3, <2>4, <2>5 DEF RunInv
  <1>13. SnapshotInv'
    <2>1. SUFFICES ASSUME snapshot # None PROVE SnapshotInv'
      BY <1>2 DEF SnapshotInv
    <2>2. /\ snapshot \in [Group -> SUBSET Row] /\ manifest # None
          /\ DOMAIN manifest.sources \in SUBSET Source
          /\ \A s \in DOMAIN manifest.sources : candidate[s] # None
          /\ snapshot = Reduce(RowsOf(candidate, DOMAIN manifest.sources), manifest.contract)
      BY <1>1, <1>2, <2>1 DEF SnapshotInv
    <2>3. ASSUME ~rebuild, NEW g \in Group \ impacted'
          PROVE  /\ snapshot[g] = First(RowsOf(candidate', {s \in Present : candidate'[s] # None})[g], contract)
                 /\ \A s \in changed : candidate'[s] # None => candidate'[s][g] = {}
      <3> DEFINE D == DOMAIN manifest.sources
                 P == {s \in Present : candidate'[s] # None}
      <3>1. \A s : s \in gone \cup changed /\ candidate[s] # None => candidate[s][g] = {}
        BY <1>2, <1>6, <2>3
      <3>2. \A s \in changed : candidate'[s] # None => candidate'[s][g] = {}
        BY <1>4, <1>5, <1>8, <2>3, <3>1
      <3>3. ASSUME NEW s \in P, candidate'[s][g] # {} PROVE s \in D /\ candidate[s] = candidate'[s]
        <4>1. s \in Present /\ s \in Source /\ s \notin gone /\ candidate'[s] = candidate[s] /\ candidate[s] # None
          BY <1>4, <1>5, <1>8, <2>3
        <4>2. CanReuse(s)
          BY <1>5, <3>1, <3>3, <4>1
        <4> QED BY <4>1, <4>2 DEF CanReuse
      <3>4. ASSUME NEW s \in D, candidate[s][g] # {} PROVE s \in P /\ candidate[s] = candidate'[s]
        <4>1. s \notin gone /\ s \in Present /\ s \in Source
          BY <1>4, <1>5, <2>2, <2>3, <3>1, <3>4
        <4> QED BY <1>8, <2>2, <4>1
      <3>5. RowsOf(candidate', P)[g] = RowsOf(candidate, D)[g]
        <4> HIDE DEF P, D
        <4>1. ASSUME NEW r PROVE r \in RowsOf(candidate', P)[g] <=> r \in RowsOf(candidate, D)[g]
          BY <3>3, <3>4, RowsIs
        <4> QED BY <4>1
      <3>6. snapshot[g] = First(RowsOf(candidate, D)[g], contract)
        <4>1. manifest.contract = contract
          BY <1>5, <2>3
        <4> QED BY <2>2, <4>1, ReduceIs
      <3> QED BY <3>2, <3>5, <3>6
    <2> QED BY <1>2, <1>9, <2>2, <2>3 DEF SnapshotInv
  <1>14. CacheInv'
    <2>1. CASE rebuild
      BY <1>2, <2>1 DEF CacheInv
    <2>2. ASSUME ~rebuild, NEW k \in DOMAIN localCache PROVE Kept(k)'
      <3>1. Kept(k)
        BY <1>1 DEF CacheInv
      <3>2. ASSUME NEW s \in DOMAIN k[2], k[2][s] = <<version[s], contract>>
            PROVE  /\ content[s] # None /\ Stamped(s, version[s], contract) /\ candidate'[s] = candidate[s]
                   /\ occupancy'[s] = occupancy[s] /\ s \notin changed /\ listed'[s] = version[s]
                   /\ manifest # None /\ manifest.contract = contract
                   /\ s \in DOMAIN manifest.sources /\ manifest.sources[s] = version[s]
        <4>1. /\ s \in Source /\ content[s] # None /\ Stamped(s, version[s], contract)
              /\ manifest # None /\ manifest.contract = contract
              /\ s \in DOMAIN manifest.sources /\ manifest.sources[s] = version[s]
          BY <3>1, <3>2 DEF Kept
        <4>2. s \in Present /\ s \notin gone
          BY <1>5, <2>2, <4>1 DEF Present
        <4>3. occupancy[s] # None
          BY <1>1, <4>1 DEF FilesInv, Stamped
        <4>4. CanReuse(s)
          BY <4>1, <4>3 DEF CanReuse, Stamped
        <4> QED BY <1>5, <1>8, <2>2, <4>1, <4>2, <4>4
      <3>3. ASSUME NEW s \in DOMAIN k[2], s \in changed PROVE k[2][s] # <<listed'[s], contract>>
        <4>1. listed'[s] = version[s]
          BY <1>5, <1>8, <3>3
        <4> QED BY <3>2, <3>3, <4>1
      <3>4. ASSUME NEW c \in Nat, \A s \in DOMAIN k[2] : k[2][s][2] = c /\ Stamped(s, k[2][s][1], c)'
            PROVE  localCache[k] = Reduce([g \in {h \in Group : PartitionOf[h] = k[1]} |->
                                             RowsOf(candidate', DOMAIN k[2])[g]], c)
        <4>1. ASSUME NEW s \in DOMAIN k[2]
              PROVE  candidate'[s] = candidate[s] /\ k[2][s][2] = c /\ Stamped(s, k[2][s][1], c)
          <5>1. s \in Source /\ Stamped(s, k[2][s][1], c)'
            BY <3>1, <3>4 DEF Kept
          <5>2. candidate'[s] # None
            BY <5>1 DEF Stamped
          <5>3. candidate'[s] = candidate[s] /\ occupancy'[s] = occupancy[s]
            BY <1>8, <5>1, <5>2
          <5> QED BY <3>4, <5>1, <5>3 DEF Stamped
        <4>2. RowsOf(candidate', DOMAIN k[2]) = RowsOf(candidate, DOMAIN k[2])
          BY <4>1, RowsSame
        <4> QED BY <3>1, <4>1, <4>2 DEF Kept
      <3> QED BY <1>2, <2>2, <3>1, <3>2, <3>3, <3>4 DEF Kept, Stamped
    <2> QED BY <1>2, <2>1, <2>2 DEF CacheInv
  <1>15. SelectionIsExact'
    BY <1>2 DEF SelectionIsExact
  <1> QED BY <1>11, <1>12, <1>13, <1>14, <1>15 DEF SelectionInv

LEMMA BuildStep ==
  ASSUME SelectionInv, NEW s \in Source, Build(s)
  PROVE  SelectionInv'
  <1> DEFINE stamp == [fingerprint |-> listed[s], contract |-> plan, partitions |-> PartitionsOf(GroupsOf(Winners(s, plan)))]
  <1>1. FilesInv /\ RunInv /\ SnapshotInv /\ CacheInv
    BY DEF SelectionInv
  <1>2. PICK W : W = Winners(s, plan)
    OBVIOUS
  <1>3. PICK o : o = stamp
    OBVIOUS
  <1>4. /\ content' = content /\ version' = version /\ contract' = contract /\ manifest' = manifest
        /\ snapshot' = snapshot /\ localCache' = localCache /\ globalCache' = globalCache
        /\ listed' = listed /\ plan' = plan /\ full' = full
        /\ selected' = selected /\ quiet' = quiet /\ complete' = complete
        /\ pc = "building" /\ pc' = pc /\ stale' = TRUE
        /\ s \in pending /\ content[s] # None /\ pending' = pending \ {s}
    BY DEF Build, world, caches, scope, history
  <1>5. /\ candidate' = [candidate EXCEPT ![s] = W] /\ occupancy' = [occupancy EXCEPT ![s] = o]
        /\ impacted' = impacted \cup GroupsOf(W)
    BY <1>2, <1>3 DEF Build, CandidateOf, Winners, OccupancyOf
  <1>6. s \in Listed /\ Listed' = Listed /\ Listed \subseteq Source
    BY <1>1, <1>4 DEF RunInv, Listed
  <1>7. /\ listed[s] \in Nat /\ listed[s] <= version[s] /\ plan \in Nat /\ plan <= contract
        /\ version[s] \in Nat /\ contract \in Nat
    BY <1>1 DEF RunInv, FilesInv
  <1>8. W \in [Group -> SUBSET Rank] /\ W # None
    BY <1>1, <1>2, <1>4, WinnersTyped, NoneIs
  <1>9. /\ o.fingerprint = listed[s] /\ o.contract = plan /\ o.partitions = PartitionsOf(GroupsOf(W))
        /\ o \in Profile
    <2>1. PartitionsOf(GroupsOf(W)) \in SUBSET PartitionsOf(Group)
      BY DEF PartitionsOf, GroupsOf
    <2> QED BY <1>2, <1>3, <1>7, <2>1 DEF Profile
  <1>10. o # None
    BY <1>9, NoneIs
  <1> HIDE DEF stamp
  <1>11. candidate' [s] = W /\ occupancy'[s] = o
         /\ \A t \in Source : t # s => candidate'[t] = candidate[t] /\ occupancy'[t] = occupancy[t]
    <2>1. s \in DOMAIN candidate /\ s \in DOMAIN occupancy
      BY <1>1 DEF FilesInv
    <2> QED BY <1>5, <2>1
  <1>12. FilesInv'
    <2>1. ASSUME NEW t \in Source, Stamped(t, version[t], contract)'
          PROVE  content'[t] # None /\ candidate'[t] = Winners(t, contract)'
      <3>1. Winners(t, contract)' = Winners(t, contract)
        BY <1>4, WinnersSame
      <3>2. CASE t = s
        <4>1. plan = contract
          BY <1>4, <1>9, <1>11, <2>1, <3>2 DEF Stamped
        <4> QED BY <1>2, <1>4, <1>11, <3>1, <3>2, <4>1
      <3>3. CASE t # s
        BY <1>1, <1>4, <1>11, <2>1, <3>1, <3>3 DEF FilesInv, Stamped
      <3> QED BY <3>2, <3>3
    <2>2. ASSUME NEW t \in Source
          PROVE  /\ candidate'[t] = None <=> occupancy'[t] = None
                 /\ candidate'[t] # None =>
                      /\ candidate'[t] \in [Group -> SUBSET Rank] /\ occupancy'[t] \in Profile
                      /\ occupancy'[t].partitions = PartitionsOf(GroupsOf(candidate'[t]))
                      /\ occupancy'[t].fingerprint <= version'[t] /\ occupancy'[t].contract <= contract'
      <3>1. CASE t = s
        BY <1>4, <1>7, <1>8, <1>9, <1>10, <1>11, <3>1
      <3>2. CASE t # s
        BY <1>1, <1>4, <1>11, <3>2 DEF FilesInv
      <3> QED BY <3>1, <3>2
    <2>3. DOMAIN candidate' = Source /\ DOMAIN occupancy' = Source
      BY <1>1, <1>5 DEF FilesInv
    <2>4. \A t \in Source : (candidate[t] = None)' <=> (occupancy[t] = None)'
      BY <2>2
    <2> QED BY <1>1, <1>4, <2>1, <2>2, <2>3, <2>4 DEF FilesInv, GroupsOf, PartitionsOf
  <1>13. RunInv'
    <2>1. ASSUME NEW t \in Listed \ (pending \ {s}) PROVE Stamped(t, listed[t], plan)'
      <3>1. CASE t = s
        BY <1>4, <1>8, <1>9, <1>11, <3>1 DEF Stamped
      <3>2. CASE t # s
        BY <1>1, <1>4, <1>6, <1>11, <2>1, <3>2 DEF RunInv, Stamped
      <3> QED BY <3>1, <3>2
    <2>2. impacted' \in SUBSET Group
      BY <1>1, <1>5 DEF RunInv, GroupsOf
    <2>3. stale' \in BOOLEAN
      BY <1>4
    <2>4. Present' = Present
      BY <1>4 DEF Present
    <2> QED BY <1>1, <1>4, <1>6, <2>1, <2>2, <2>3, <2>4 DEF RunInv
  <1>14. SnapshotInv'
    <2>1. ASSUME snapshot # None, ~full, NEW g \in Group \ impacted'
          PROVE  /\ snapshot[g] = First(RowsOf(candidate', {t \in Listed : candidate'[t] # None})[g], plan)
                 /\ \A t \in pending' : candidate'[t] # None => candidate'[t][g] = {}
      <3> DEFINE P == {t \in Listed : candidate[t] # None}
                 Q == {t \in Listed : candidate'[t] # None}
      <3>1. g \in Group \ impacted /\ W[g] = {}
        BY <1>5, <2>1 DEF GroupsOf
      <3>2. /\ snapshot[g] = First(RowsOf(candidate, P)[g], plan)
            /\ \A t \in pending : candidate[t] # None => candidate[t][g] = {}
        BY <1>1, <1>4, <2>1, <3>1 DEF SnapshotInv
      <3>3. \A t \in Q : t \in Source /\ (t # s => t \in P /\ candidate'[t] = candidate[t]) /\ (t = s => candidate'[t][g] = {})
        BY <1>6, <1>11, <3>1
      <3>4. \A t \in P : t \in Source /\ (t # s => t \in Q /\ candidate'[t] = candidate[t]) /\ (t = s => candidate[t][g] = {})
        BY <1>4, <1>6, <1>11, <3>2
      <3> HIDE DEF P, Q
      <3>5. RowsOf(candidate', Q)[g] = RowsOf(candidate, P)[g]
        <4>1. ASSUME NEW r PROVE r \in RowsOf(candidate', Q)[g] <=> r \in RowsOf(candidate, P)[g]
          BY <3>3, <3>4, RowsIs
        <4> QED BY <4>1
      <3>6. \A t \in pending' : t # s /\ t \in Source /\ t \in pending
        BY <1>1, <1>4, <1>6 DEF RunInv
      <3> QED BY <1>11, <3>2, <3>5, <3>6 DEF Q
    <2> QED BY <1>1, <1>4, <1>6, <2>1 DEF SnapshotInv
  <1>15. CacheInv'
    <2>1. ASSUME NEW k \in DOMAIN localCache PROVE Kept(k)'
      <3>1. Kept(k)
        BY <1>1 DEF CacheInv
      <3>2. s \in DOMAIN k[2] => k[2][s] # <<listed[s], plan>>
        BY <1>4, <3>1 DEF Kept
      <3>3. ASSUME NEW t \in DOMAIN k[2], k[2][t] = <<version[t], contract>>
            PROVE  t # s
        BY <1>4, <3>1, <3>2, <3>3 DEF Kept
      <3>4. ASSUME NEW c \in Nat, \A t \in DOMAIN k[2] : k[2][t][2] = c /\ Stamped(t, k[2][t][1], c)'
            PROVE  localCache[k] = Reduce([g \in {h \in Group : PartitionOf[h] = k[1]} |->
                                             RowsOf(candidate', DOMAIN k[2])[g]], c)
        <4>1. ASSUME s \in DOMAIN k[2] PROVE FALSE
          <5>1. k[2][s] \in Nat \X Nat /\ k[2][s][2] = c /\ Stamped(s, k[2][s][1], c)'
            BY <3>1, <3>4, <4>1 DEF Kept
          <5>2. k[2][s][1] = listed[s] /\ k[2][s][2] = plan
            BY <1>9, <1>11, <5>1 DEF Stamped
          <5> QED BY <3>2, <4>1, <5>1, <5>2
        <4>2. ASSUME NEW t \in DOMAIN k[2]
              PROVE  candidate'[t] = candidate[t] /\ k[2][t][2] = c /\ Stamped(t, k[2][t][1], c)
          <5>1. t \in Source /\ t # s
            BY <3>1, <4>1 DEF Kept
          <5> QED BY <1>11, <3>4, <5>1 DEF Stamped
        <4>3. RowsOf(candidate', DOMAIN k[2]) = RowsOf(candidate, DOMAIN k[2])
          BY <4>2, RowsSame
        <4> QED BY <3>1, <4>2, <4>3 DEF Kept
      <3> QED BY <1>4, <1>11, <3>1, <3>3, <3>4 DEF Kept, Stamped
    <2> QED BY <1>4, <2>1 DEF CacheInv
  <1>16. SelectionIsExact'
    BY <1>4 DEF SelectionIsExact
  <1> QED BY <1>12, <1>13, <1>14, <1>15, <1>16 DEF SelectionInv

LEMMA WriteManifestStep ==
  ASSUME SelectionInv, WriteManifest
  PROVE  SelectionInv'
  <1> DEFINE m == [contract |-> plan, sources |-> [s \in Listed |-> listed[s]]]
  <1>1. FilesInv /\ RunInv /\ SnapshotInv /\ CacheInv
    BY DEF SelectionInv
  <1>2. /\ content' = content /\ version' = version /\ contract' = contract
        /\ candidate' = candidate /\ occupancy' = occupancy
        /\ snapshot' = snapshot /\ localCache' = localCache /\ globalCache' = globalCache
        /\ listed' = listed /\ plan' = plan /\ full' = full /\ impacted' = impacted /\ stale' = stale
        /\ pending' = pending /\ selected' = selected /\ quiet' = quiet /\ complete' = complete
        /\ pc = "building" /\ pc' = "selecting" /\ pending = {}
    BY DEF WriteManifest, world, files, caches, scope, history
  <1>3. manifest' = m
    BY DEF WriteManifest, Restrict
  <1>4. manifest'.contract = plan /\ manifest'.sources = [s \in Listed |-> listed[s]]
    BY <1>3
  <1>5. m \in Manifest
    <2>1. plan \in Nat /\ Listed \in SUBSET Source /\ [s \in Listed |-> listed[s]] \in [Listed -> Nat]
      BY <1>1 DEF RunInv, Listed
    <2> QED BY <2>1 DEF Manifest
  <1>6. manifest' # None
    BY <1>3, <1>5, NoneIs
  <1> HIDE DEF m
  <1>7. Listed' = Listed /\ Present' = Present
    BY <1>2 DEF Listed, Present
  <1>8. FilesInv'
    BY <1>1, <1>2, FilesSame
  <1>9. RunInv'
    BY <1>1, <1>2, <1>4, <1>6, <1>7 DEF RunInv, Stamped
  <1>10. SnapshotInv'
    BY <1>1, <1>2, <1>6, <1>7 DEF SnapshotInv
  <1>11. CacheInv'
    <2>1. ASSUME NEW k \in DOMAIN localCache PROVE Kept(k)'
      <3>1. Kept(k)
        BY <1>1 DEF CacheInv
      <3>2. ASSUME NEW s \in DOMAIN k[2], k[2][s] = <<version[s], contract>>
            PROVE  /\ manifest'.contract = contract
                   /\ s \in DOMAIN manifest'.sources /\ manifest'.sources[s] = version[s]
        <4>1. s \in Source /\ listed[s] = version[s] /\ plan = contract
          BY <1>2, <3>1, <3>2 DEF Kept
        <4>2. s \in Listed
          BY <1>1, <4>1 DEF FilesInv, Listed
        <4> QED BY <1>4, <4>1, <4>2
      <3> QED BY <1>2, <1>6, <3>1, <3>2 DEF Kept, Stamped
    <2> QED BY <1>2, <2>1 DEF CacheInv
  <1>12. SelectionIsExact'
    BY <1>2 DEF SelectionIsExact
  <1> QED BY <1>8, <1>9, <1>10, <1>11, <1>12 DEF SelectionInv

\* What the selections have in common: each selects the first of the rows of all listed
\* candidate files, and leaves caches that tell the truth.
LEMMA SelectedStep ==
  ASSUME SelectionInv, pc = "selecting", Write(SelectFrom(Listed)), CacheInv',
         UNCHANGED <<world, files, manifest, snapshot, scope, impacted, stale, pending, history, complete>>
  PROVE  SelectionInv'
  <1>1. FilesInv /\ RunInv /\ SnapshotInv
    BY DEF SelectionInv
  <1>2. /\ content' = content /\ version' = version /\ contract' = contract /\ manifest' = manifest
        /\ candidate' = candidate /\ occupancy' = occupancy /\ snapshot' = snapshot
        /\ listed' = listed /\ plan' = plan /\ full' = full /\ impacted' = impacted /\ stale' = stale
        /\ pending' = pending /\ quiet' = quiet /\ complete' = complete
        /\ pc' = "writing" /\ selected' = SelectFrom(Listed)
    BY DEF world, files, scope, history, Write
  <1>3. Listed' = Listed /\ Present' = Present /\ SelectFrom(Listed)' = SelectFrom(Listed)
    BY <1>2 DEF Listed, Present, SelectFrom
  <1>4. FilesInv'
    BY <1>1, <1>2, FilesSame
  <1>5. RunInv'
    BY <1>1, <1>2, <1>3 DEF RunInv, Stamped
  <1>6. SnapshotInv'
    BY <1>1, <1>2 DEF SnapshotInv
  <1>7. SelectionIsExact'
    BY <1>2 DEF SelectionIsExact
  <1> QED BY <1>4, <1>5, <1>6, <1>7 DEF SelectionInv

\* The caches of a selection that does not touch them.
LEMMA CachesKept ==
  ASSUME SelectionInv, pc # "idle",
         UNCHANGED <<world, files, manifest, caches, scope, pending>>
  PROVE  CacheInv'
  <1>1. CacheInv
    BY DEF SelectionInv
  <1>2. /\ content' = content /\ version' = version /\ contract' = contract /\ manifest' = manifest
        /\ candidate' = candidate /\ occupancy' = occupancy /\ localCache' = localCache
        /\ listed' = listed /\ plan' = plan /\ pending' = pending
    BY DEF world, files, scope, caches
  <1> QED BY <1>1, <1>2, CacheSame

LEMMA SelectImpactedStep ==
  ASSUME SelectionInv, SelectImpacted
  PROVE  SelectionInv'
  <1> DEFINE merged == [g \in Group |-> IF g \in impacted THEN Reduce(FramesOf(Accepted), plan)[g] ELSE snapshot[g]]
  <1>1. FilesInv /\ RunInv /\ SnapshotInv
    BY DEF SelectionInv
  <1>2. pc = "selecting" /\ ~full /\ snapshot # None /\ Write(merged)
    BY DEF SelectImpacted, CanIncrement
  <1>3. UNCHANGED <<world, files, manifest, snapshot, caches, scope, impacted, stale, pending, history, complete>>
    BY DEF SelectImpacted
  <1>4. \A s \in Listed : candidate[s] # None
    BY <1>1, <1>2 DEF RunInv, Stamped
  <1>5. {s \in Listed : candidate[s] # None} = Listed
    BY <1>4
  <1>6. SelectFrom(Listed) = [g \in Group |-> First(RowsOf(candidate, Listed)[g], plan)]
    BY ReduceIs DEF SelectFrom
  <1>7. ASSUME NEW g \in Group
        PROVE  (IF g \in impacted THEN Reduce(FramesOf(Accepted), plan)[g] ELSE snapshot[g]) = SelectFrom(Listed)[g]
    <2>1. CASE g \in impacted
      BY <1>1, <1>4, <2>1, AcceptedSelect
    <2>2. CASE g \notin impacted
      BY <1>1, <1>2, <1>5, <1>6, <2>2 DEF SnapshotInv
    <2> QED BY <2>1, <2>2
  <1>8. merged = [g \in Group |-> SelectFrom(Listed)[g]]
    BY <1>7, Zenon
  <1>9. merged = SelectFrom(Listed)
    BY <1>6, <1>8
  <1> HIDE DEF merged
  <1>10. Write(SelectFrom(Listed))
    BY <1>2, <1>9
  <1>11. CacheInv'
    BY <1>2, <1>3, CachesKept
  <1> QED BY <1>2, <1>3, <1>10, <1>11, SelectedStep

LEMMA SelectDirectlyStep ==
  ASSUME SelectionInv, SelectDirectly
  PROVE  SelectionInv'
  <1>1. /\ pc = "selecting" /\ Write(SelectFrom(Listed))
        /\ UNCHANGED <<world, files, manifest, snapshot, caches, scope, impacted, stale, pending, history, complete>>
    BY DEF SelectDirectly
  <1>2. CacheInv'
    BY <1>1, CachesKept
  <1> QED BY <1>1, <1>2, SelectedStep

LEMMA SelectInBucketsStep ==
  ASSUME SelectionInv, SelectInBuckets
  PROVE  SelectionInv'
  <1>1. PICK bucketOf \in Layouts :
          Write([g \in Group |-> Reduce(RoutedRows(Listed, bucketOf, bucketOf[g]), plan)[g]])
    BY DEF SelectInBuckets
  <1>2. ASSUME NEW g \in Group
        PROVE  Reduce(RoutedRows(Listed, bucketOf, bucketOf[g]), plan)[g] = First(RowsOf(candidate, Listed)[g], plan)
    BY DEF RoutedRows, Reduce
  <1>3. [g \in Group |-> Reduce(RoutedRows(Listed, bucketOf, bucketOf[g]), plan)[g]]
          = [g \in Group |-> First(RowsOf(candidate, Listed)[g], plan)]
    BY <1>2, Zenon
  <1>4. /\ pc = "selecting" /\ Write(SelectFrom(Listed))
        /\ UNCHANGED <<world, files, manifest, snapshot, caches, scope, impacted, stale, pending, history, complete>>
    BY <1>1, <1>3, ReduceIs DEF SelectInBuckets, SelectFrom
  <1>5. CacheInv'
    BY <1>4, CachesKept
  <1> QED BY <1>4, <1>5, SelectedStep

\* What a selection through the caches keeps of a cohort is as good as what was there.
LEMMA NewKept ==
  ASSUME SelectionInv, pc = "selecting", NEW C \in SUBSET Listed, NEW p, NEW k, k = LocalKey(C, p),
         localCache'[k] = LocalWinners(C, p), LocalExact(C, p), pc' = "writing",
         UNCHANGED <<world, files, manifest, scope, pending>>
  PROVE  Kept(k)'
  <1>1. FilesInv /\ RunInv
    BY DEF SelectionInv
  <1>2. /\ content' = content /\ version' = version /\ contract' = contract /\ manifest' = manifest
        /\ candidate' = candidate /\ occupancy' = occupancy
        /\ listed' = listed /\ plan' = plan /\ pending' = pending
    BY DEF world, files, scope
  <1>3. k[1] = p /\ DOMAIN k[2] = C /\ \A s \in C : k[2][s] = <<listed[s], plan>>
    BY DEF LocalKey
  <1>4. /\ pending = {} /\ C \subseteq Source /\ plan \in Nat /\ plan <= contract
        /\ \A s \in C : listed[s] \in Nat /\ listed[s] <= version[s] /\ Stamped(s, listed[s], plan)
        /\ manifest # None /\ manifest.contract = plan
        /\ \A s \in C : s \in DOMAIN manifest.sources /\ manifest.sources[s] = listed[s]
    BY <1>1 DEF RunInv, Listed
  <1>5. ASSUME NEW s \in C
        PROVE  /\ k[2][s] \in Nat \X Nat /\ k[2][s][1] = listed[s] /\ k[2][s][2] = plan
               /\ k[2][s] = <<version[s], contract>> =>
                    content[s] # None /\ listed[s] = version[s] /\ plan = contract /\ Stamped(s, version[s], contract)
    <2>1. k[2][s] \in Nat \X Nat /\ k[2][s][1] = listed[s] /\ k[2][s][2] = plan
      <3>1. k[2][s] = <<listed[s], plan>>
        BY <1>3, Zenon
      <3>2. listed[s] \in Nat /\ plan \in Nat
        BY <1>4
      <3> QED BY <3>1, <3>2
    <2>2. ASSUME k[2][s] = <<version[s], contract>>
          PROVE  content[s] # None /\ listed[s] = version[s] /\ plan = contract /\ Stamped(s, version[s], contract)
      <3>1. listed[s] = version[s] /\ plan = contract
        BY <2>1, <2>2
      <3> QED BY <1>1, <1>4, <3>1 DEF FilesInv
    <2> QED BY <2>1, <2>2
  <1>6. ASSUME NEW c \in Nat, \A s \in C : k[2][s][2] = c
        PROVE  LocalWinners(C, p) = Reduce([g \in {h \in Group : PartitionOf[h] = p} |-> RowsOf(candidate, C)[g]], c)
    <2> DEFINE P == {h \in Group : PartitionOf[h] = p}
               rows == [g \in P |-> RowsOf(candidate, C)[g]]
    <2>1. LocalWinners(C, p) = Reduce(rows, plan)
      BY DEF LocalExact, Partition
    <2>2. CASE C # {}
      <3>1. c = plan
        BY <1>5, <1>6, <2>2
      <3> QED BY <2>1, <3>1
    <2>3. CASE C = {}
      <3>1. \A g \in P : rows[g] = {}
        BY <2>3 DEF RowsOf
      <3>2. DOMAIN rows = P
        OBVIOUS
      <3> HIDE DEF rows
      <3>3. Reduce(rows, plan) = Reduce(rows, c)
        BY <3>1, <3>2 DEF Reduce, First
      <3> QED BY <2>1, <3>3 DEF rows
    <2> QED BY <2>2, <2>3
  <1> QED BY <1>2, <1>3, <1>4, <1>5, <1>6 DEF Kept, Stamped

LEMMA SelectInShardsStep ==
  ASSUME SelectionInv, NEW cohorts \in Cohorts, NEW layout \in Layouts, SelectInShards(cohorts, layout)
  PROVE  SelectionInv'
  <1> DEFINE locals == Locals(cohorts)
             buckets == Buckets(locals, layout)
             winners == [x \in buckets |-> GlobalWinners(x, locals, layout)]
             routes == cohorts \X DOMAIN locals
             newLocal == {LocalKey(x[1], x[2]) : x \in routes} \ DOMAIN localCache
             keyed(k) == CHOOSE x \in routes : LocalKey(x[1], x[2]) = k
  <1>1. FilesInv /\ RunInv /\ CacheInv
    BY DEF SelectionInv
  <1>2. /\ pc = "selecting"
        /\ Write([g \in Group |-> UNION {winners[x][g] : x \in {y \in buckets : g \in DOMAIN winners[y]}}])
        /\ localCache' = [k \in DOMAIN localCache \cup newLocal |->
             IF k \in newLocal THEN locals[keyed(k)[2]][keyed(k)[1]] ELSE localCache[k]]
        /\ UNCHANGED <<world, files, manifest, snapshot, scope, impacted, stale, pending, history, complete>>
    <2>1. DOMAIN winners = buckets
      OBVIOUS
    <2>2. Write([g \in Group |->
            UNION {winners[x][g] : x \in {y \in DOMAIN winners : g \in DOMAIN winners[y]}}])
      BY Zenon DEF SelectInShards
    <2> QED BY <2>1, <2>2, Zenon DEF SelectInShards, KeptLocal
  <1>3. globalCache = <<>> /\ plan \in Nat /\ Listed \subseteq Source /\ pc' = "writing"
        /\ \A s \in Listed : candidate[s] \in [Group -> SUBSET Rank]
    BY <1>1, <1>2 DEF RunInv, FilesInv, Listed, Write, Stamped
  <1>4. \A C \in cohorts : C \in SUBSET Listed
    BY DEF Cohorts
  <1>5. \A C \in cohorts : \A p \in PartitionsOf(Group) : LocalExact(C, p)
    BY <1>1, <1>2, <1>4, CacheSelects
  <1>6. /\ DOMAIN locals = PartitionsOf(Group)
        /\ \A p \in PartitionsOf(Group), C \in cohorts : locals[p][C] = LocalWinners(C, p)
    BY DEF Locals
  <1>7. winners = [x \in buckets |-> Reduced(x, locals, layout)]
    <2>1. DOMAIN globalCache = {}
      BY <1>3
    <2>2. \A x : GlobalWinners(x, locals, layout) = Reduced(x, locals, layout)
      BY <2>1 DEF GlobalWinners
    <2> HIDE DEF buckets, locals
    <2> QED BY <2>2
  <1>8. Write(SelectFrom(Listed))
    <2>1. Shards(locals, layout) = SelectFrom(Listed)
      BY <1>3, <1>5, ShardsSelect
    <2>2. [g \in Group |-> UNION {winners[x][g] : x \in {y \in buckets : g \in DOMAIN winners[y]}}] = Shards(locals, layout)
      <3> HIDE DEF winners, locals
      <3>1. \A x \in buckets : winners[x] = Reduced(x, locals, layout)
        BY <1>7
      <3>2. ASSUME NEW g \in Group
            PROVE  UNION {winners[x][g] : x \in {y \in buckets : g \in DOMAIN winners[y]}}
                     = UNION {Reduced(x, locals, layout)[g] : x \in {y \in buckets : g \in DOMAIN Reduced(y, locals, layout)}}
        <4> HIDE DEF buckets
        <4> QED BY <3>1
      <3> QED BY <3>2, Zenon DEF Shards
    <2> QED BY <1>2, <2>1, <2>2
  <1> HIDE DEF winners
  <1>9. CacheInv'
    <2>1. ASSUME NEW k \in newLocal PROVE Kept(k)'
      <3>1. \E x \in routes : LocalKey(x[1], x[2]) = k
        BY <2>1
      <3>2. PICK x \in routes : x = keyed(k) /\ LocalKey(x[1], x[2]) = k
        <4> HIDE DEF routes
        <4> QED BY <3>1
      <3>3. x[1] \in cohorts /\ x[2] \in PartitionsOf(Group)
        BY <1>6, <3>2
      <3>4. localCache'[k] = LocalWinners(x[1], x[2])
        <4>1. localCache'[k] = locals[x[2]][x[1]]
          <5> HIDE DEF newLocal, keyed, locals
          <5> QED BY <1>2, <2>1, <3>2
        <4> QED BY <1>6, <3>3, <4>1
      <3> QED BY <1>2, <1>3, <1>4, <1>5, <3>2, <3>3, <3>4, NewKept
    <2>2. ASSUME NEW k \in DOMAIN localCache PROVE Kept(k)'
      <3>1. localCache'[k] = localCache[k]
        <4>1. k \notin newLocal
          BY <2>2
        <4> HIDE DEF newLocal, keyed, locals
        <4> QED BY <1>2, <2>2, <4>1
      <3>2. Kept(k)
        BY <1>1, <2>2 DEF CacheInv
      <3>3. /\ content' = content /\ version' = version /\ contract' = contract /\ manifest' = manifest
            /\ candidate' = candidate /\ occupancy' = occupancy
            /\ listed' = listed /\ plan' = plan /\ pending' = pending
        BY <1>2 DEF world, files, scope
      <3> QED BY <1>2, <3>1, <3>2, <3>3 DEF Kept, Stamped
    <2>3. DOMAIN localCache' = DOMAIN localCache \cup newLocal
      <3> HIDE DEF newLocal, keyed, locals
      <3> QED BY <1>2
    <2> QED BY <2>1, <2>2, <2>3 DEF CacheInv
  <1> QED BY <1>2, <1>8, <1>9, SelectedStep

LEMMA WriteSnapshotStep ==
  ASSUME SelectionInv, WriteSnapshot
  PROVE  SelectionInv'
  <1>1. FilesInv /\ RunInv /\ SnapshotInv /\ CacheInv
    BY DEF SelectionInv
  <1>2. /\ content' = content /\ version' = version /\ contract' = contract /\ manifest' = manifest
        /\ candidate' = candidate /\ occupancy' = occupancy
        /\ localCache' = localCache /\ globalCache' = globalCache
        /\ listed' = listed /\ plan' = plan /\ full' = full /\ impacted' = impacted /\ stale' = stale
        /\ pending' = pending /\ selected' = selected /\ quiet' = quiet /\ complete' = TRUE
        /\ pc = "writing" /\ pc' = "idle" /\ snapshot' = selected
    BY DEF WriteSnapshot, world, files, caches, scope, history
  <1>3. Listed' = Listed /\ Listed \in SUBSET Source
    BY <1>2 DEF Listed
  <1>4. /\ pending = {} /\ manifest # None /\ manifest.contract = plan /\ DOMAIN manifest.sources = Listed
        /\ selected = Reduce(RowsOf(candidate, Listed), plan) /\ plan \in Nat
        /\ \A s \in Listed : Stamped(s, listed[s], plan)
    BY <1>1, <1>2 DEF RunInv, SelectFrom
  <1>5. \A s \in Listed : candidate[s] # None /\ candidate[s] \in [Group -> SUBSET Rank]
    BY <1>1, <1>3, <1>4 DEF FilesInv, Stamped
  <1>6. FilesInv'
    BY <1>1, <1>2, FilesSame
  <1>7. RunInv'
    BY <1>1, <1>2, <1>3, <1>4 DEF RunInv
  <1>8. SnapshotInv'
    <2>1. selected \in [Group -> SUBSET Row]
      BY <1>3, <1>4, <1>5, ReduceTyped
    <2> QED BY <1>2, <1>3, <1>4, <1>5, <2>1 DEF SnapshotInv
  <1>9. CacheInv'
    BY <1>1, <1>2, CacheSame
  <1>10. SelectionIsExact'
    <2>1. ASSUME quiet PROVE selected = ActiveRows(content, contract)
      <3>1. plan = contract /\ Listed = Present /\ \A s \in Listed : listed[s] = version[s]
        BY <1>1, <1>2, <2>1, QuietListed
      <3>2. \A s \in Listed : content[s] # None /\ candidate[s] = Winners(s, contract)
        BY <1>1, <1>3, <1>4, <3>1 DEF FilesInv
      <3>3. \A s \in Listed : content[s] \in [Group -> SUBSET Rank]
        BY <1>1, <1>3, <3>2, NoneIs DEF FilesInv
      <3>4. Reduce(RowsOf(candidate, Listed), contract) = Reduce(RowsOf(content, Listed), contract)
        BY <1>3, <1>4, <3>1, <3>2, <3>3, WinnersSelect
      <3> QED BY <1>4, <3>1, <3>4 DEF ActiveRows, Present
    <2>2. ActiveRows(content, contract)' = ActiveRows(content, contract)
      BY <1>2 DEF ActiveRows
    <2> QED BY <1>2, <2>1, <2>2 DEF SelectionIsExact
  <1> QED BY <1>6, <1>7, <1>8, <1>9, <1>10 DEF SelectionInv

LEMMA StopStep ==
  ASSUME SelectionInv, Orderly, Stop
  PROVE  SelectionInv'
  <1>1. FilesInv /\ RunInv /\ SnapshotInv /\ CacheInv
    BY DEF SelectionInv
  <1>2. /\ content' = content /\ version' = version /\ contract' = contract /\ manifest' = manifest
        /\ candidate' = candidate /\ occupancy' = occupancy
        /\ localCache' = localCache /\ globalCache' = globalCache
        /\ listed' = listed /\ plan' = plan /\ full' = full /\ impacted' = impacted /\ stale' = stale
        /\ pending' = {} /\ selected' = selected /\ quiet' = quiet /\ complete' = complete
        /\ pc # "idle" /\ pc' = "idle" /\ snapshot' = snapshot /\ snapshot = None
    BY DEF Stop, world, files, caches, scope, history
  <1>3. Listed' = Listed
    BY <1>2 DEF Listed
  <1>4. FilesInv'
    BY <1>1, <1>2, FilesSame
  <1>5. RunInv'
    BY <1>1, <1>2, <1>3 DEF RunInv
  <1>6. SnapshotInv'
    BY <1>2 DEF SnapshotInv
  <1>7. CacheInv'
    BY <1>1, <1>2, CacheSame
  <1>8. SelectionIsExact'
    BY <1>1, <1>2 DEF RunInv, SelectionIsExact
  <1> QED BY <1>4, <1>5, <1>6, <1>7, <1>8 DEF SelectionInv

LEMMA StutterStep ==
  ASSUME SelectionInv, UNCHANGED vars
  PROVE  SelectionInv'
  <1>1. FilesInv /\ RunInv /\ SnapshotInv /\ CacheInv /\ SelectionIsExact
    BY DEF SelectionInv
  <1>2. /\ content' = content /\ version' = version /\ contract' = contract /\ manifest' = manifest
        /\ candidate' = candidate /\ occupancy' = occupancy
        /\ localCache' = localCache /\ globalCache' = globalCache
        /\ listed' = listed /\ plan' = plan /\ full' = full /\ impacted' = impacted /\ stale' = stale
        /\ pending' = pending /\ selected' = selected /\ quiet' = quiet /\ complete' = complete
        /\ pc' = pc /\ snapshot' = snapshot
    BY DEF vars, world, files, caches, scope, history
  <1>3. Listed' = Listed /\ Present' = Present /\ SelectFrom(Listed)' = SelectFrom(Listed)
    BY <1>2 DEF Listed, Present, SelectFrom
  <1>4. FilesInv'
    BY <1>1, <1>2, FilesSame
  <1>5. RunInv'
    BY <1>1, <1>2, <1>3 DEF RunInv, Stamped
  <1>6. SnapshotInv'
    BY <1>1, <1>2, <1>3 DEF SnapshotInv
  <1>7. CacheInv'
    BY <1>1, <1>2, CacheSame
  <1>8. SelectionIsExact'
    BY <1>1, <1>2 DEF SelectionIsExact, ActiveRows
  <1> QED BY <1>4, <1>5, <1>6, <1>7, <1>8 DEF SelectionInv

LEMMA SelectionStep ==
  ASSUME Orderly, ~KeepGlobal, SelectionInv, [Next]_vars
  PROVE  SelectionInv'
  <1>1. ASSUME NEW s \in Source, NEW c \in Contents \cup {None}, ReplaceSource(s, c) PROVE SelectionInv'
    BY <1>1, ReplaceStep
  <1>2. CASE ChangeContract
    BY <1>2, ContractStep
  <1>3. CASE Examine
    BY <1>3, ExamineStep
  <1>4. CASE WriteManifest
    BY <1>4, WriteManifestStep
  <1>5. CASE SelectImpacted
    BY <1>5, SelectImpactedStep
  <1>6. CASE SelectDirectly
    BY <1>6, SelectDirectlyStep
  <1>7. CASE WriteSnapshot
    BY <1>7, WriteSnapshotStep
  <1>8. CASE Stop
    BY <1>8, StopStep
  <1>9. ASSUME NEW s \in Source, Build(s) PROVE SelectionInv'
    BY <1>9, BuildStep
  <1>10. ASSUME NEW cohorts \in Cohorts, NEW layout \in Layouts, SelectInShards(cohorts, layout) PROVE SelectionInv'
    BY <1>10, SelectInShardsStep
  <1>11. CASE SelectInBuckets
    BY <1>11, SelectInBucketsStep
  <1>12. CASE UNCHANGED vars
    BY <1>12, StutterStep
  <1> QED BY <1>1, <1>2, <1>3, <1>4, <1>5, <1>6, <1>7, <1>8, <1>9, <1>10, <1>11, <1>12 DEF Next, SelectSharded

LEMMA SelectionInvariant ==
  ASSUME Orderly, ~KeepGlobal
  PROVE  Spec => []SelectionInv
  <1>1. Init => SelectionInv
    BY InitSelection
  <1>2. SelectionInv /\ [Next]_vars => SelectionInv'
    BY SelectionStep
  <1> QED BY <1>1, <1>2, PTL DEF Spec

-----------------------------------------------------------------------------
(* What is proved *)

\* Candidate files, snapshot and manifest have their types, a run has built what it
\* selects from (_build_active_coordinate_snapshot reads what
\* _refresh_candidate_sidecars has left).
THEOREM SelectionTypeCorrect ==
  ASSUME Orderly, ~KeepGlobal
  PROVE  Spec => []TypeOK
  <1>1. ASSUME SelectionInv PROVE TypeOK
    <2>1. FilesInv /\ RunInv /\ SnapshotInv
      BY <1>1 DEF SelectionInv
    <2>2. /\ version \in [Source -> Nat]
          /\ \A s \in Source : candidate[s] = None \/ candidate[s] \in [Group -> SUBSET Rank]
      BY <2>1 DEF FilesInv
    <2>3. snapshot = None \/ snapshot \in [Group -> SUBSET [rank : Rank, source : Source]]
      BY <2>1 DEF SnapshotInv, Row
    <2>4. \A s \in pending : pc = "building" /\ listed[s] <= version[s]
      BY <2>1 DEF RunInv, Listed
    <2>5. pc \in {"selecting", "writing"} => manifest # None /\ DOMAIN manifest.sources = Listed
      BY <2>1 DEF RunInv
    <2>6. full \in BOOLEAN /\ stale \in BOOLEAN /\ impacted \subseteq Group /\ pending \subseteq Listed
      BY <2>1, Zenon DEF RunInv
    <2> QED BY <2>1, <2>2, <2>3, <2>4, <2>5, <2>6 DEF TypeOK, FilesInv, RunInv
  <1> QED BY <1>1, SelectionInvariant, PTL

\* A run under which nothing changed leaves the active row of every group over the
\* sources that are there (_build_active_coordinate_snapshot: incremental, direct, or in
\* shards through the cache of local winners), whatever earlier runs, also those that
\* failed before there was a snapshot, have left in candidate files, caches and snapshot:
\* where runs follow one another once there is a snapshot, and the cache of global
\* winners is empty (see ActiveSelection_kept for what it does otherwise).
THEOREM SelectionExact ==
  ASSUME Orderly, ~KeepGlobal
  PROVE  Spec => []SelectionIsExact
  <1>1. SelectionInv => SelectionIsExact
    BY DEF SelectionInv
  <1> QED BY <1>1, SelectionInvariant, PTL

-----------------------------------------------------------------------------
(* The migration of a dataset.  The dataset is always what was collected last: *)
(* what replaces it was rewritten from it, since its parts, its metadata and   *)
(* the plan were read one after the other and the first and the last agree.    *)

\* A directory that holds the newest collection, all of it in the layout of its receipt.
Newest(d) ==
  /\ d \in Migration!Directories /\ Migration!IsCollection(d, collected)
  /\ \A p \in DOMAIN d.part : d.part[p].layout = IF d.receipt = "none" THEN "old" ELSE "new"

MigrationLocals ==
  [pc : {"idle", "rewrite", "record", "copy", "parity", "check"} \cup Migration!Swapping,
   plan : UNION {[S -> Migration!File] : S \in SUBSET Part},
   done : SUBSET Part, part : Part \cup {None}]

MigrationTypes ==
  /\ {dataset, staging, backup, failed} \subseteq Migration!Directories \cup {None}
  /\ previous \subseteq Migration!Directories
  /\ collected \in Migration!Version /\ collector \in {"idle", "moved"}
  /\ migration \in MigrationLocals
  /\ starts \in 0 .. MaxStarts

DirectoriesInv ==
  /\ dataset # None => Newest(dataset)
  /\ dataset = None => \E d \in {backup} \cup previous : d # None /\ Migration!IsCollection(d, collected)
  /\ collector = "moved" => dataset = None /\ collected < MaxVersion /\ migration.pc \notin Migration!Swapping
  /\ staging # None => \A p \in DOMAIN staging.part : staging.part[p].layout = "new"

\* What the migration has read was collected in this order: plan, metadata, rows.
ReadInv ==
  \E v \in 1 .. collected :
    /\ \A p \in DOMAIN migration.plan : migration.plan[p].version = v
    /\ migration.pc \in {"parity", "check"} => staging.meta \in v .. collected
    /\ migration.pc = "check" =>
         \E w \in staging.meta .. collected :
           DOMAIN staging.part = PartsOf[w] /\ \A p \in PartsOf[w] : staging.part[p].version = w

SwapInv ==
  /\ migration.pc \notin {"idle", "validate", "probe", "refresh"} => staging # None
  /\ migration.pc = "record" => migration.part \in DOMAIN staging.part
  /\ migration.pc \in {"seal", "aside", "swap"} => Migration!IsCollection(staging, collected)
  /\ migration.pc \in {"aside", "swap"} => staging.receipt = "completed"
  /\ migration.pc \in Migration!Swapping => (dataset = None <=> migration.pc = "swap")
  /\ migration.pc \in {"swap", "validate"} => backup # None /\ Newest(backup)
  /\ migration.pc \in {"validate", "probe", "refresh"} => dataset.receipt # "none"

MigrationInv ==
  MigrationTypes /\ DirectoriesInv /\ SwapInv /\ (migration.pc # "idle" => ReadInv)

LEMMA NoDirectory == ASSUME NEW d \in Migration!Directories PROVE d # None
  BY MigrationConstants DEF Migration!MigrationAssumption

LEMMA CollectionType ==
  ASSUME NEW v \in Migration!Version
  PROVE  /\ Migration!Collection(v) \in Migration!Directories
         /\ Migration!IsCollection(Migration!Collection(v), v)
         /\ Migration!Collection(v).receipt = "none"
         /\ \A p \in DOMAIN Migration!Collection(v).part : Migration!Collection(v).part[p].layout = "old"
  <1> DEFINE f == [p \in PartsOf[v] |-> [version |-> v, layout |-> "old"]]
             e == <<>>
  <1>1. PartsOf[v] \in SUBSET Part
    BY MigrationConstants DEF Migration!MigrationAssumption, Migration!Version
  <1>2. f \in [PartsOf[v] -> Migration!File]
    BY DEF Migration!File, Migration!Layout
  <1>3. f \in UNION {[S -> Migration!File] : S \in SUBSET Part}
    BY <1>1, <1>2
  <1>4. e \in [{} -> [source : Migration!File, destination : Migration!File]]
    OBVIOUS
  <1>5. e \in UNION {[S -> [source : Migration!File, destination : Migration!File]] : S \in SUBSET Part}
    BY <1>4
  <1>6. Migration!Collection(v) = [part |-> f, meta |-> v, receipt |-> "none", sealed |-> TRUE, resume |-> e]
    BY DEF Migration!Collection, Migration!Directory
  <1> HIDE DEF e
  <1>7. DOMAIN f = PartsOf[v] /\ \A p \in PartsOf[v] : f[p].version = v /\ f[p].layout = "old"
    OBVIOUS
  <1> HIDE DEF f
  <1> QED BY <1>3, <1>5, <1>6, <1>7 DEF Migration!Directories, Migration!IsCollection

LEMMA EmptyType ==
  Migration!EmptyStaging \in Migration!Directories /\ DOMAIN Migration!EmptyStaging.part = {}
  <1> DEFINE e == <<>>
  <1>1. /\ e \in [{} -> [source : Migration!File, destination : Migration!File]]
        /\ e \in [{} -> Migration!File] /\ DOMAIN e = {}
    OBVIOUS
  <1>2. e \in UNION {[S -> [source : Migration!File, destination : Migration!File]] : S \in SUBSET Part}
    BY <1>1
  <1>3. e \in UNION {[S -> Migration!File] : S \in SUBSET Part}
    BY <1>1
  <1>4. Migration!EmptyStaging = [part |-> e, meta |-> 0, receipt |-> "none", sealed |-> FALSE, resume |-> e]
    BY DEF Migration!EmptyStaging, Migration!Directory
  <1> HIDE DEF e
  <1> QED BY <1>1, <1>2, <1>3, <1>4 DEF Migration!Directories

LEMMA DirectoryShape ==
  ASSUME NEW d \in Migration!Directories
  PROVE  /\ DOMAIN d.part \in SUBSET Part /\ d.part \in [DOMAIN d.part -> Migration!File]
         /\ d.part \in UNION {[S -> Migration!File] : S \in SUBSET Part}
         /\ d.meta \in Migration!Version \cup {0} /\ d.sealed \in BOOLEAN
         /\ d.receipt \in {"none", "completed", "probed"}
         /\ d = [part |-> d.part, meta |-> d.meta, receipt |-> d.receipt, sealed |-> d.sealed,
                 resume |-> d.resume]
         /\ d.resume \in UNION {[S -> [source : Migration!File, destination : Migration!File]] : S \in SUBSET Part}
  BY DEF Migration!Directories

LEMMA Versions == Migration!Version \subseteq Nat /\ 1 \in Migration!Version
  BY MigrationConstants DEF Migration!MigrationAssumption, Migration!Version

LEMMA IdleType == Migration!Idle \in MigrationLocals /\ Migration!Idle.pc = "idle"
  <1>1. <<>> \in [{} -> Migration!File]
    OBVIOUS
  <1>2. <<>> \in UNION {[S -> Migration!File] : S \in SUBSET Part}
    BY <1>1
  <1> QED BY <1>2 DEF MigrationLocals, Migration!Idle

LEMMA MigrationInit == ASSUME Migration!Init PROVE MigrationInv
  <1>1. 1 \in Migration!Version /\ MaxStarts \in Nat
    BY Versions, MigrationConstants DEF Migration!MigrationAssumption
  <1>2. /\ dataset = Migration!Collection(1) /\ staging = None /\ backup = None /\ failed = None
        /\ previous = {} /\ collected = 1 /\ collector = "idle" /\ starts = 0
        /\ migration = Migration!Idle
    BY DEF Migration!Init
  <1>3. Newest(dataset) /\ dataset \in Migration!Directories
    BY <1>1, <1>2, CollectionType DEF Newest
  <1>4. dataset # None
    BY <1>3, NoDirectory
  <1>7. MigrationTypes
    BY <1>1, <1>2, <1>3, IdleType DEF MigrationTypes
  <1>8. migration.pc = "idle"
    BY <1>2, IdleType
  <1>9. DirectoriesInv
    BY <1>2, <1>3, <1>4, <1>8 DEF DirectoriesInv
  <1>10. SwapInv
    BY <1>8 DEF SwapInv, Migration!Swapping
  <1> QED BY <1>7, <1>8, <1>9, <1>10 DEF MigrationInv

LEMMA NextCollectionType ==
  ASSUME MigrationInv, collected < MaxVersion
  PROVE  /\ collected + 1 \in Migration!Version /\ collected \in Nat
         /\ Migration!NextCollection \in Migration!Directories /\ Migration!NextCollection # None
         /\ Migration!IsCollection(Migration!NextCollection, collected + 1)
         /\ \A p \in DOMAIN Migration!NextCollection.part :
              Migration!NextCollection.part[p].layout
                = IF Migration!NextCollection.receipt = "none" THEN "old" ELSE "new"
  <1>1. collected \in 1 .. MaxVersion /\ MaxVersion \in Nat
    BY MigrationConstants DEF MigrationInv, MigrationTypes, Migration!Version, Migration!MigrationAssumption
  <1>2. collected + 1 \in Migration!Version
    BY <1>1 DEF Migration!Version
  <1> QED BY <1>1, <1>2, CollectionType, NoDirectory DEF Migration!NextCollection

\* A collection of the next version comes under the name of the dataset.
LEMMA CollectedAnew ==
  ASSUME MigrationInv, collected < MaxVersion, dataset' = Migration!NextCollection, collected' = collected + 1,
         collector' = "idle", migration.pc \notin Migration!Swapping, previous' \subseteq previous,
         UNCHANGED <<staging, backup, failed, migration, starts>>
  PROVE  MigrationInv'
  <1>1. /\ collected + 1 \in Migration!Version /\ collected \in Nat
        /\ Migration!NextCollection \in Migration!Directories /\ Migration!NextCollection # None
        /\ Migration!IsCollection(Migration!NextCollection, collected + 1)
        /\ \A p \in DOMAIN Migration!NextCollection.part :
             Migration!NextCollection.part[p].layout
               = IF Migration!NextCollection.receipt = "none" THEN "old" ELSE "new"
    BY NextCollectionType
  <1>2. Newest(dataset)'
    BY <1>1 DEF Newest
  <1>3. MigrationTypes'
    BY <1>1 DEF MigrationInv, MigrationTypes
  <1>4. DirectoriesInv'
    BY <1>1, <1>2 DEF MigrationInv, DirectoriesInv
  <1>5. SwapInv'
    BY DEF MigrationInv, SwapInv, Migration!Swapping
  <1>6. migration.pc # "idle" => ReadInv'
    <2> SUFFICES ASSUME migration.pc # "idle" PROVE ReadInv'
      OBVIOUS
    <2>1. PICK v \in 1 .. collected :
            /\ \A p \in DOMAIN migration.plan : migration.plan[p].version = v
            /\ migration.pc \in {"parity", "check"} => staging.meta \in v .. collected
            /\ migration.pc = "check" =>
                 \E w \in staging.meta .. collected :
                   DOMAIN staging.part = PartsOf[w] /\ \A p \in PartsOf[w] : staging.part[p].version = w
      BY DEF MigrationInv, ReadInv
    <2>2. v \in 1 .. collected' /\ v .. collected \subseteq v .. collected'
      BY <1>1
    <2>3. staging.meta .. collected \subseteq staging.meta .. collected' \/ migration.pc # "check"
      BY <1>1, <2>1
    <2> QED BY <2>1, <2>2, <2>3 DEF ReadInv
  <1> QED BY <1>3, <1>4, <1>5, <1>6 DEF MigrationInv

LEMMA CollectorKeeps ==
  ASSUME MigrationInv, Migration!CollectionBegins \/ Migration!CollectionEnds \/ Migration!CollectionDies
  PROVE  MigrationInv'
  <1>1. CASE Migration!CollectionBegins /\ dataset = None
    <2>1. collected < MaxVersion /\ migration.pc \notin Migration!Swapping /\ collector' = "idle"
      BY <1>1 DEF Migration!CollectionBegins
    <2> QED BY <1>1, <2>1, CollectedAnew DEF Migration!CollectionBegins
  <1>2. CASE Migration!CollectionBegins /\ dataset # None
    <2>1. /\ collected < MaxVersion /\ migration.pc \notin Migration!Swapping
          /\ dataset' = None /\ previous' = previous \cup {dataset} /\ collector' = "moved"
          /\ UNCHANGED <<collected, staging, backup, failed, migration, starts>>
      BY <1>2 DEF Migration!CollectionBegins
    <2>2. dataset \in Migration!Directories /\ Migration!IsCollection(dataset, collected)
      BY <1>2 DEF MigrationInv, DirectoriesInv, Newest
    <2>3. MigrationTypes'
      BY <2>1, <2>2 DEF MigrationInv, MigrationTypes
    <2>4. DirectoriesInv'
      BY <1>2, <2>1, <2>2 DEF MigrationInv, DirectoriesInv
    <2>5. SwapInv'
      BY <2>1 DEF MigrationInv, SwapInv, Migration!Swapping
    <2>6. ReadInv' <=> ReadInv
      BY <2>1 DEF ReadInv
    <2> QED BY <2>1, <2>3, <2>4, <2>5, <2>6 DEF MigrationInv
  <1>3. CASE Migration!CollectionEnds
    <2>1. collected < MaxVersion /\ migration.pc \notin Migration!Swapping
      BY <1>3 DEF Migration!CollectionEnds, MigrationInv, DirectoriesInv
    <2> QED BY <1>3, <2>1, CollectedAnew DEF Migration!CollectionEnds
  <1>4. CASE Migration!CollectionDies
    <2>1. /\ collector' = "idle"
          /\ UNCHANGED <<dataset, staging, backup, failed, previous, collected, migration, starts>>
      BY <1>4 DEF Migration!CollectionDies, Migration!directories
    <2>2. MigrationTypes'
      BY <2>1 DEF MigrationInv, MigrationTypes
    <2>3. DirectoriesInv'
      BY <2>1 DEF MigrationInv, DirectoriesInv, Newest
    <2>4. SwapInv'
      BY <2>1 DEF MigrationInv, SwapInv, Newest
    <2>5. ReadInv' <=> ReadInv
      BY <2>1 DEF ReadInv
    <2> QED BY <2>1, <2>2, <2>3, <2>4, <2>5 DEF MigrationInv
  <1> QED BY <1>1, <1>2, <1>3, <1>4

LEMMA LocalsType == ASSUME MigrationInv PROVE migration \in MigrationLocals
  BY DEF MigrationInv, MigrationTypes, MigrationLocals

\* A step that changes the staging directory and nothing else on disk.
LEMMA StagingStep ==
  ASSUME MigrationInv, UNCHANGED <<dataset, backup, failed, previous, collected, collector>>,
         staging' \in Migration!Directories \cup {None},
         staging' # None => \A p \in DOMAIN staging'.part : staging'.part[p].layout = "new",
         migration' \in MigrationLocals, starts' \in 0 .. MaxStarts,
         migration'.pc \in Migration!Swapping => dataset # None
  PROVE  MigrationTypes' /\ DirectoriesInv'
  <1>1. MigrationTypes'
    BY DEF MigrationInv, MigrationTypes, MigrationLocals
  <1>2. \A d : Newest(d)' <=> Newest(d)
    BY DEF Newest
  <1>3. DirectoriesInv'
    BY <1>2 DEF MigrationInv, DirectoriesInv
  <1> QED BY <1>1, <1>3

LEMMA GotoType ==
  ASSUME MigrationInv, NEW pc1 \in {"idle", "rewrite", "record", "copy", "parity", "check"} \cup Migration!Swapping,
         Migration!Goto(pc1)
  PROVE  /\ migration' \in MigrationLocals /\ migration'.pc = pc1 /\ migration'.plan = migration.plan
         /\ migration'.part = migration.part
  BY LocalsType DEF MigrationLocals, Migration!Goto

LEMMA StartKeeps == ASSUME MigrationInv, Migration!Start PROVE MigrationInv'
  <1>1. /\ dataset # None /\ starts < MaxStarts /\ starts' = starts + 1
        /\ migration' = [Migration!Idle EXCEPT !.pc = "rewrite", !.plan = dataset.part]
        /\ staging' = IF staging = None THEN Migration!EmptyStaging ELSE staging
        /\ UNCHANGED <<dataset, backup, failed, previous, collected, collector>>
    BY DEF Migration!Start
  <1>2. /\ dataset \in Migration!Directories /\ Migration!IsCollection(dataset, collected)
        /\ collected \in Nat \ {0}
    BY <1>1, Versions DEF MigrationInv, MigrationTypes, DirectoriesInv, Newest, Migration!Version
  <1>3. /\ migration' \in MigrationLocals /\ migration'.pc = "rewrite" /\ migration'.plan = dataset.part
    BY <1>1, <1>2, IdleType, DirectoryShape DEF MigrationLocals
  <1>4. /\ staging' \in Migration!Directories
        /\ \A p \in DOMAIN staging'.part : staging'.part[p].layout = "new"
    <2>1. CASE staging = None
      BY <1>1, <2>1, EmptyType
    <2>2. CASE staging # None
      BY <1>1, <2>2 DEF MigrationInv, MigrationTypes, DirectoriesInv
    <2> QED BY <2>1, <2>2
  <1>5. starts' \in 0 .. MaxStarts
    BY <1>1, MigrationConstants DEF MigrationInv, MigrationTypes, Migration!MigrationAssumption
  <1>6. MigrationTypes' /\ DirectoriesInv'
    BY <1>1, <1>3, <1>4, <1>5, StagingStep
  <1>7. SwapInv'
    BY <1>3, <1>4, NoDirectory DEF SwapInv, Migration!Swapping
  <1>8. ReadInv'
    BY <1>1, <1>2, <1>3 DEF ReadInv, Migration!IsCollection
  <1> QED BY <1>6, <1>7, <1>8 DEF MigrationInv

LEMMA ResumeKeeps == ASSUME MigrationInv, NEW p \in Part, Migration!Resume(p) PROVE MigrationInv'
  <1>1. /\ migration.pc = "rewrite" /\ migration' = [migration EXCEPT !.done = @ \cup {p}]
        /\ UNCHANGED <<dataset, staging, backup, failed, previous, collected, collector, starts>>
    BY DEF Migration!Resume, Migration!directories
  <1>2. /\ migration' \in MigrationLocals /\ migration'.pc = "rewrite" /\ migration'.plan = migration.plan
    BY <1>1, LocalsType DEF MigrationLocals
  <1>3. MigrationTypes' /\ DirectoriesInv'
    BY <1>1, <1>2, StagingStep DEF MigrationInv, MigrationTypes, DirectoriesInv, Migration!Swapping
  <1>4. SwapInv'
    BY <1>1, <1>2 DEF MigrationInv, SwapInv, Migration!Swapping
  <1>5. ReadInv'
    BY <1>1, <1>2 DEF MigrationInv, ReadInv
  <1> QED BY <1>3, <1>4, <1>5 DEF MigrationInv

LEMMA RewriteKeeps == ASSUME MigrationInv, NEW p \in Part, Migration!RewritePart(p) PROVE MigrationInv'
  <1> DEFINE e == [dataset.part[p] EXCEPT !.layout = "new"]
             f == Migration!With(staging.part, p, e)
  <1>1. /\ migration.pc = "rewrite" /\ dataset # None /\ p \in DOMAIN dataset.part
        /\ staging' = [staging EXCEPT !.part = f]
        /\ migration' = [migration EXCEPT !.pc = "record", !.part = p]
        /\ UNCHANGED <<dataset, backup, failed, previous, collected, collector, starts>>
    BY DEF Migration!RewritePart
  <1>2. dataset \in Migration!Directories /\ staging \in Migration!Directories /\ staging # None
    BY <1>1 DEF MigrationInv, MigrationTypes, DirectoriesInv, Newest, SwapInv
  <1>3. e \in Migration!File /\ e.layout = "new"
    BY <1>1, <1>2, DirectoryShape DEF Migration!File, Migration!Layout
  <1> HIDE DEF e
  <1>4. \A q \in DOMAIN staging.part : staging.part[q].layout = "new"
    BY <1>2 DEF MigrationInv, DirectoriesInv
  <1>5. /\ DOMAIN f = DOMAIN staging.part \cup {p} /\ p \in DOMAIN f
        /\ f \in [DOMAIN staging.part \cup {p} -> Migration!File]
        /\ \A q \in DOMAIN f : f[q].layout = "new"
    BY <1>2, <1>3, <1>4, DirectoryShape DEF Migration!With
  <1>6. f \in UNION {[S -> Migration!File] : S \in SUBSET Part}
    <2>1. DOMAIN staging.part \cup {p} \in SUBSET Part
      BY <1>2, DirectoryShape
    <2> QED BY <1>5, <2>1
  <1> HIDE DEF f
  <1>7. staging' \in Migration!Directories /\ staging'.part = f
    BY <1>1, <1>2, <1>6 DEF Migration!Directories
  <1>8. /\ migration' \in MigrationLocals /\ migration'.pc = "record" /\ migration'.plan = migration.plan
        /\ migration'.part = p
    BY <1>1, LocalsType DEF MigrationLocals
  <1>9. MigrationTypes' /\ DirectoriesInv'
    BY <1>1, <1>5, <1>7, <1>8, StagingStep DEF MigrationInv, MigrationTypes, Migration!Swapping
  <1>10. SwapInv'
    BY <1>5, <1>7, <1>8, NoDirectory DEF SwapInv, Migration!Swapping
  <1>11. ReadInv'
    BY <1>1, <1>8 DEF MigrationInv, ReadInv
  <1> QED BY <1>9, <1>10, <1>11 DEF MigrationInv

LEMMA RecordKeeps == ASSUME MigrationInv, Migration!RecordPart PROVE MigrationInv'
  <1> DEFINE p == migration.part
             e == [source |-> dataset.part[p], destination |-> staging.part[p]]
             f == Migration!With(staging.resume, p, e)
  <1>1. /\ migration.pc = "record" /\ dataset # None /\ p \in DOMAIN dataset.part
        /\ staging' = [staging EXCEPT !.resume = f]
        /\ migration' = [migration EXCEPT !.pc = "rewrite", !.done = @ \cup {p}]
        /\ UNCHANGED <<dataset, backup, failed, previous, collected, collector, starts>>
    BY DEF Migration!RecordPart
  <1>2. /\ dataset \in Migration!Directories /\ staging \in Migration!Directories /\ staging # None
        /\ p \in DOMAIN staging.part
    BY <1>1 DEF MigrationInv, MigrationTypes, DirectoriesInv, Newest, SwapInv
  <1>3. e \in [source : Migration!File, destination : Migration!File] /\ p \in Part
    BY <1>1, <1>2, DirectoryShape
  <1> HIDE DEF e
  <1>4. PICK S \in SUBSET Part : staging.resume \in [S -> [source : Migration!File, destination : Migration!File]]
    <2>1. staging.resume \in UNION {[S -> [source : Migration!File, destination : Migration!File]] : S \in SUBSET Part}
      BY <1>2, DirectoryShape
    <2> QED BY <2>1
  <1>5. f \in [S \cup {p} -> [source : Migration!File, destination : Migration!File]]
    BY <1>3, <1>4 DEF Migration!With
  <1>6. S \cup {p} \in SUBSET Part
    BY <1>3
  <1> HIDE DEF f
  <1>7. f \in UNION {[T -> [source : Migration!File, destination : Migration!File]] : T \in SUBSET Part}
    BY <1>5, <1>6
  <1>8. staging' \in Migration!Directories /\ staging'.part = staging.part
    BY <1>1, <1>2, <1>7 DEF Migration!Directories
  <1>9. /\ migration' \in MigrationLocals /\ migration'.pc = "rewrite" /\ migration'.plan = migration.plan
    BY <1>1, <1>3, LocalsType DEF MigrationLocals
  <1>10. MigrationTypes' /\ DirectoriesInv'
    BY <1>1, <1>2, <1>8, <1>9, StagingStep DEF MigrationInv, MigrationTypes, DirectoriesInv, Migration!Swapping
  <1>11. SwapInv'
    BY <1>8, <1>9, NoDirectory DEF SwapInv, Migration!Swapping
  <1>12. ReadInv'
    BY <1>1, <1>9 DEF MigrationInv, ReadInv
  <1> QED BY <1>10, <1>11, <1>12 DEF MigrationInv

LEMMA CopyKeeps == ASSUME MigrationInv, Migration!CopyProvenance PROVE MigrationInv'
  <1>1. /\ migration.pc = "rewrite" /\ dataset # None
        /\ staging' = [staging EXCEPT !.meta = dataset.meta] /\ Migration!Goto("parity")
        /\ UNCHANGED <<dataset, backup, failed, previous, collected, collector, starts>>
    BY DEF Migration!CopyProvenance
  <1>2. /\ dataset \in Migration!Directories /\ staging \in Migration!Directories /\ staging # None
        /\ dataset.meta = collected
    BY <1>1 DEF MigrationInv, MigrationTypes, DirectoriesInv, Newest, SwapInv, Migration!IsCollection
  <1>3. staging' \in Migration!Directories /\ staging'.part = staging.part /\ staging'.meta = collected
    BY <1>1, <1>2, DirectoryShape DEF Migration!Directories
  <1>4. migration' \in MigrationLocals /\ migration'.pc = "parity" /\ migration'.plan = migration.plan
    BY <1>1, GotoType
  <1>5. MigrationTypes' /\ DirectoriesInv'
    BY <1>1, <1>2, <1>3, <1>4, StagingStep DEF MigrationInv, MigrationTypes, DirectoriesInv, Migration!Swapping
  <1>6. SwapInv'
    BY <1>3, <1>4, NoDirectory DEF SwapInv, Migration!Swapping
  <1>7. collected \in Nat
    BY Versions DEF MigrationInv, MigrationTypes
  <1>8. ReadInv'
    BY <1>1, <1>3, <1>4, <1>7 DEF MigrationInv, ReadInv
  <1> QED BY <1>5, <1>6, <1>8 DEF MigrationInv

LEMMA CompareKeeps == ASSUME MigrationInv, Migration!Compare PROVE MigrationInv'
  <1>1. /\ migration.pc = "parity" /\ dataset # None /\ Migration!SameRows(dataset, staging)
        /\ Migration!Goto("check")
        /\ UNCHANGED <<dataset, staging, backup, failed, previous, collected, collector, starts>>
    BY DEF Migration!Compare, Migration!directories
  <1>2. staging # None /\ staging \in Migration!Directories /\ Migration!IsCollection(dataset, collected)
    BY <1>1 DEF MigrationInv, MigrationTypes, DirectoriesInv, Newest, SwapInv
  <1>3. DOMAIN staging.part = PartsOf[collected] /\ \A p \in PartsOf[collected] : staging.part[p].version = collected
    BY <1>1, <1>2 DEF Migration!IsCollection, Migration!SameRows
  <1>4. migration' \in MigrationLocals /\ migration'.pc = "check" /\ migration'.plan = migration.plan
    BY <1>1, GotoType
  <1>5. MigrationTypes' /\ DirectoriesInv'
    BY <1>1, <1>2, <1>4, StagingStep DEF MigrationInv, MigrationTypes, DirectoriesInv, Migration!Swapping
  <1>6. SwapInv'
    BY <1>1, <1>2, <1>4 DEF SwapInv, Migration!Swapping
  <1>7. collected \in Nat
    BY Versions DEF MigrationInv, MigrationTypes
  <1>8. PICK v \in 1 .. collected :
          (\A p \in DOMAIN migration.plan : migration.plan[p].version = v) /\ staging.meta \in v .. collected
    BY <1>1 DEF MigrationInv, ReadInv
  <1>9. collected \in staging.meta .. collected
    BY <1>7, <1>8
  <1>10. ReadInv'
    BY <1>1, <1>3, <1>4, <1>8, <1>9 DEF ReadInv
  <1> QED BY <1>5, <1>6, <1>10 DEF MigrationInv

\* The plan names the version that is there now, so nothing was collected in between.
LEMMA CheckKeeps == ASSUME MigrationInv, Migration!CheckSource PROVE MigrationInv'
  <1>1. /\ migration.pc = "check" /\ dataset # None /\ dataset.part = migration.plan
        /\ Migration!Goto("seal")
        /\ UNCHANGED <<dataset, staging, backup, failed, previous, collected, collector, starts>>
    BY DEF Migration!CheckSource, Migration!SameSource, Migration!directories
  <1>2. /\ staging # None /\ staging \in Migration!Directories /\ Migration!IsCollection(dataset, collected)
        /\ collected \in Migration!Version
    <2>1. staging # None /\ staging \in Migration!Directories /\ collected \in Migration!Version
      BY <1>1 DEF MigrationInv, MigrationTypes, SwapInv
    <2>2. Migration!IsCollection(dataset, collected)
      BY <1>1 DEF MigrationInv, DirectoriesInv, Newest
    <2> QED BY <2>1, <2>2
  <1>3. migration' \in MigrationLocals /\ migration'.pc = "seal" /\ migration'.plan = migration.plan
    BY <1>1, GotoType DEF Migration!Swapping
  <1>4. PICK v \in 1 .. collected :
          /\ \A p \in DOMAIN migration.plan : migration.plan[p].version = v
          /\ staging.meta \in v .. collected
          /\ \E w \in staging.meta .. collected :
               DOMAIN staging.part = PartsOf[w] /\ \A p \in PartsOf[w] : staging.part[p].version = w
    BY <1>1 DEF MigrationInv, ReadInv
  <1>5. PICK p \in PartsOf[collected] : TRUE
    BY <1>2, MigrationConstants DEF Migration!MigrationAssumption
  <1>6. collected \in Nat /\ v = collected
    BY <1>1, <1>2, <1>4, <1>5, Versions DEF Migration!IsCollection
  <1>7. Migration!IsCollection(staging, collected)
    BY <1>4, <1>6 DEF Migration!IsCollection
  <1>8. MigrationTypes' /\ DirectoriesInv'
    BY <1>1, <1>2, <1>3, StagingStep DEF MigrationInv, MigrationTypes, DirectoriesInv
  <1>9. SwapInv'
    BY <1>1, <1>2, <1>3, <1>7 DEF SwapInv, Migration!Swapping, Migration!IsCollection
  <1>10. ReadInv'
    BY <1>1, <1>3, <1>4 DEF ReadInv
  <1> QED BY <1>8, <1>9, <1>10 DEF MigrationInv

LEMMA SealKeeps == ASSUME MigrationInv, Migration!Seal PROVE MigrationInv'
  <1>1. /\ migration.pc = "seal" /\ Migration!Goto("aside")
        /\ staging' = [staging EXCEPT !.receipt = "completed", !.sealed = TRUE, !.resume = <<>>]
        /\ UNCHANGED <<dataset, backup, failed, previous, collected, collector, starts>>
    BY DEF Migration!Seal
  <1>2. /\ staging \in Migration!Directories /\ staging # None /\ Migration!IsCollection(staging, collected)
        /\ dataset # None
    BY <1>1 DEF MigrationInv, MigrationTypes, SwapInv, Migration!Swapping
  <1>3. <<>> \in UNION {[S -> [source : Migration!File, destination : Migration!File]] : S \in SUBSET Part}
    BY EmptyType DEF Migration!Directories, Migration!EmptyStaging, Migration!Directory
  <1>4. /\ staging' \in Migration!Directories /\ staging'.part = staging.part /\ staging'.meta = staging.meta
        /\ staging'.receipt = "completed"
    BY <1>1, <1>2, <1>3 DEF Migration!Directories
  <1>5. migration' \in MigrationLocals /\ migration'.pc = "aside" /\ migration'.plan = migration.plan
    BY <1>1, GotoType DEF Migration!Swapping
  <1>6. MigrationTypes' /\ DirectoriesInv'
    BY <1>1, <1>2, <1>4, <1>5, StagingStep DEF MigrationInv, MigrationTypes, DirectoriesInv
  <1>7. SwapInv'
    BY <1>1, <1>2, <1>4, <1>5, NoDirectory DEF SwapInv, Migration!Swapping, Migration!IsCollection
  <1>8. ReadInv'
    BY <1>1, <1>5 DEF MigrationInv, ReadInv
  <1> QED BY <1>6, <1>7, <1>8 DEF MigrationInv

LEMMA PutAsideKeeps == ASSUME MigrationInv, Migration!PutAside PROVE MigrationInv'
  <1>1. /\ migration.pc = "aside" /\ dataset # None /\ Migration!Goto("swap")
        /\ backup' = dataset /\ dataset' = None
        /\ UNCHANGED <<staging, failed, previous, collected, collector, starts>>
    BY DEF Migration!PutAside
  <1>2. migration' \in MigrationLocals /\ migration'.pc = "swap" /\ migration'.plan = migration.plan
    BY <1>1, GotoType DEF Migration!Swapping
  <1>3. Newest(dataset) /\ collector # "moved"
    BY <1>1 DEF MigrationInv, DirectoriesInv
  <1>4. MigrationTypes'
    BY <1>1, <1>2, <1>3 DEF MigrationInv, MigrationTypes, MigrationLocals, Newest
  <1>5. DirectoriesInv'
    BY <1>1, <1>3 DEF MigrationInv, DirectoriesInv, Newest
  <1>6. SwapInv'
    <2>1. staging # None /\ Migration!IsCollection(staging, collected) /\ staging.receipt = "completed"
      BY <1>1 DEF MigrationInv, SwapInv
    <2>2. Newest(backup)'
      BY <1>1, <1>3 DEF Newest
    <2> QED BY <1>1, <1>2, <2>1, <2>2 DEF SwapInv, Migration!Swapping
  <1>7. ReadInv'
    BY <1>1, <1>2 DEF MigrationInv, ReadInv
  <1> QED BY <1>4, <1>5, <1>6, <1>7 DEF MigrationInv

LEMMA SwapInKeeps == ASSUME MigrationInv, Migration!SwapIn PROVE MigrationInv'
  <1>1. /\ migration.pc = "swap" /\ dataset = None /\ Migration!Goto("validate")
        /\ dataset' = staging /\ staging' = None
        /\ UNCHANGED <<backup, failed, previous, collected, collector, starts>>
    BY DEF Migration!SwapIn
  <1>2. migration' \in MigrationLocals /\ migration'.pc = "validate" /\ migration'.plan = migration.plan
    BY <1>1, GotoType DEF Migration!Swapping
  <1>3. /\ staging # None /\ staging \in Migration!Directories /\ Migration!IsCollection(staging, collected)
        /\ staging.receipt = "completed" /\ \A p \in DOMAIN staging.part : staging.part[p].layout = "new"
    BY <1>1 DEF MigrationInv, MigrationTypes, DirectoriesInv, SwapInv
  <1>4. Newest(dataset)'
    BY <1>1, <1>3 DEF Newest
  <1>5. MigrationTypes'
    BY <1>1, <1>2, <1>3 DEF MigrationInv, MigrationTypes, MigrationLocals
  <1>6. collector # "moved"
    BY <1>1 DEF MigrationInv, DirectoriesInv, Migration!Swapping
  <1>7. DirectoriesInv'
    BY <1>1, <1>3, <1>4, <1>6 DEF DirectoriesInv
  <1>8. backup # None /\ Newest(backup)'
    BY <1>1 DEF MigrationInv, SwapInv, Newest
  <1>9. SwapInv'
    BY <1>1, <1>2, <1>3, <1>8 DEF SwapInv, Migration!Swapping
  <1>10. ReadInv'
    BY <1>1, <1>2 DEF MigrationInv, ReadInv
  <1> QED BY <1>5, <1>7, <1>9, <1>10 DEF MigrationInv

LEMMA ValidateKeeps == ASSUME MigrationInv, Migration!Validate PROVE MigrationInv'
  <1>1. /\ migration.pc = "validate" /\ backup' = None /\ Migration!Goto("probe")
        /\ UNCHANGED <<dataset, staging, failed, previous, collected, collector, starts>>
    BY DEF Migration!Validate
  <1>2. migration' \in MigrationLocals /\ migration'.pc = "probe" /\ migration'.plan = migration.plan
    BY <1>1, GotoType DEF Migration!Swapping
  <1>3. dataset # None /\ dataset.receipt # "none" /\ Newest(dataset)' /\ collector # "moved"
    BY <1>1 DEF MigrationInv, SwapInv, DirectoriesInv, Newest, Migration!Swapping
  <1>4. MigrationTypes'
    BY <1>1, <1>2 DEF MigrationInv, MigrationTypes, MigrationLocals
  <1>5. DirectoriesInv'
    BY <1>1, <1>3 DEF MigrationInv, DirectoriesInv
  <1>6. SwapInv'
    BY <1>1, <1>2, <1>3 DEF SwapInv, Migration!Swapping
  <1>7. ReadInv'
    BY <1>1, <1>2 DEF MigrationInv, ReadInv
  <1> QED BY <1>4, <1>5, <1>6, <1>7 DEF MigrationInv

LEMMA RollBackKeeps == ASSUME MigrationInv, Migration!RollBack PROVE MigrationInv'
  <1>1. /\ migration.pc \in {"swap", "validate"} /\ backup # None /\ migration' = Migration!Idle
        /\ UNCHANGED <<staging, previous, collected, collector, starts>>
        /\ \/ dataset # None /\ UNCHANGED <<dataset, backup, failed>>
           \/ dataset' = backup /\ backup' = None /\ failed' \in {dataset, failed}
    BY DEF Migration!RollBack, Migration!Stop
  <1>2. migration' \in MigrationLocals /\ migration'.pc = "idle"
    BY <1>1, IdleType
  <1>3. Newest(backup) /\ collector # "moved"
    BY <1>1 DEF MigrationInv, SwapInv, DirectoriesInv, Migration!Swapping
  <1>4. MigrationTypes'
    BY <1>1, <1>2, <1>3 DEF MigrationInv, MigrationTypes, MigrationLocals
  <1>5. dataset' # None /\ Newest(dataset)'
    BY <1>1, <1>3 DEF MigrationInv, DirectoriesInv, Newest
  <1>6. DirectoriesInv'
    BY <1>1, <1>3, <1>5 DEF MigrationInv, DirectoriesInv
  <1>7. SwapInv'
    BY <1>2 DEF SwapInv, Migration!Swapping
  <1> QED BY <1>2, <1>4, <1>6, <1>7 DEF MigrationInv

\* The receipt and the manifest of the dataset are written again.
LEMMA ReceiptKeeps ==
  ASSUME MigrationInv, NEW receipt \in {"completed", "probed"}, NEW sealed \in BOOLEAN,
         migration.pc \in {"probe", "refresh"},
         dataset' = [dataset EXCEPT !.receipt = receipt, !.sealed = sealed],
         migration' \in MigrationLocals, migration'.pc \in {"refresh", "idle"},
         migration'.pc # "idle" => migration'.plan = migration.plan,
         UNCHANGED <<staging, backup, failed, previous, collected, collector, starts>>
  PROVE  MigrationInv'
  <1>1. dataset # None /\ dataset \in Migration!Directories /\ dataset.receipt # "none" /\ Newest(dataset)
        /\ collector # "moved"
    BY DEF MigrationInv, SwapInv, DirectoriesInv, Newest, Migration!Swapping
  <1>2. /\ dataset' \in Migration!Directories /\ dataset'.part = dataset.part /\ dataset'.meta = dataset.meta
        /\ dataset'.receipt = receipt
    BY <1>1 DEF Migration!Directories
  <1>3. dataset' # None /\ Newest(dataset)'
    <2>1. \A p \in DOMAIN dataset.part : dataset.part[p].layout = "new"
      BY <1>1 DEF Newest
    <2> QED BY <1>1, <1>2, <2>1, NoDirectory DEF Newest, Migration!IsCollection
  <1>4. MigrationTypes'
    BY <1>2 DEF MigrationInv, MigrationTypes, MigrationLocals
  <1>5. DirectoriesInv'
    BY <1>1, <1>3 DEF MigrationInv, DirectoriesInv
  <1>6. SwapInv'
    BY <1>2, <1>3 DEF SwapInv, Migration!Swapping
  <1>7. migration'.pc # "idle" => ReadInv'
    BY DEF MigrationInv, ReadInv
  <1> QED BY <1>4, <1>5, <1>6, <1>7 DEF MigrationInv

LEMMA ProbeKeeps == ASSUME MigrationInv, Migration!Probe PROVE MigrationInv'
  <1>1. migration.pc = "probe" /\ dataset # None
    BY DEF Migration!Probe, MigrationInv, SwapInv, Migration!Swapping
  <1>2. /\ dataset' = [dataset EXCEPT !.receipt = "probed", !.sealed = FALSE] /\ Migration!Goto("refresh")
        /\ UNCHANGED <<staging, backup, failed, previous, collected, collector, starts>>
    BY <1>1 DEF Migration!Probe
  <1>3. migration' \in MigrationLocals /\ migration'.pc = "refresh" /\ migration'.plan = migration.plan
    BY <1>2, GotoType DEF Migration!Swapping
  <1> QED BY <1>1, <1>2, <1>3, ReceiptKeeps

LEMMA RefreshKeeps == ASSUME MigrationInv, Migration!Refresh PROVE MigrationInv'
  <1>1. /\ migration.pc = "refresh" /\ dataset # None /\ dataset \in Migration!Directories
        /\ dataset.receipt # "none"
    BY DEF Migration!Refresh, MigrationInv, SwapInv, DirectoriesInv, Newest, Migration!Swapping
  <1>2. /\ dataset' = [dataset EXCEPT !.sealed = TRUE] /\ migration' = Migration!Idle
        /\ UNCHANGED <<staging, backup, failed, previous, collected, collector, starts>>
    BY <1>1 DEF Migration!Refresh, Migration!Stop
  <1>3. dataset.receipt \in {"completed", "probed"}
    BY <1>1, DirectoryShape
  <1>4. dataset' = [dataset EXCEPT !.receipt = dataset.receipt, !.sealed = TRUE]
    BY <1>1, <1>2 DEF Migration!Directories
  <1> QED BY <1>1, <1>2, <1>3, <1>4, IdleType, ReceiptKeeps

LEMMA MigrationDies == ASSUME MigrationInv, Migration!Die PROVE MigrationInv'
  <1>1. /\ migration' = Migration!Idle
        /\ UNCHANGED <<dataset, staging, backup, failed, previous, collected, collector, starts>>
    BY DEF Migration!Die, Migration!Stop, Migration!directories
  <1>2. migration' \in MigrationLocals /\ migration'.pc = "idle"
    BY <1>1, IdleType
  <1>3. MigrationTypes' /\ DirectoriesInv'
    BY <1>1, <1>2, StagingStep DEF MigrationInv, MigrationTypes, DirectoriesInv, Migration!Swapping
  <1>4. SwapInv'
    BY <1>2 DEF SwapInv, Migration!Swapping
  <1> QED BY <1>2, <1>3, <1>4 DEF MigrationInv

LEMMA MigrationStutters == ASSUME MigrationInv, UNCHANGED migrationVars PROVE MigrationInv'
  <1>1. UNCHANGED <<dataset, staging, backup, failed, previous, collected, collector, migration, starts>>
    BY DEF migrationVars
  <1>2. MigrationTypes'
    BY <1>1 DEF MigrationInv, MigrationTypes
  <1>3. DirectoriesInv' /\ SwapInv'
    BY <1>1 DEF MigrationInv, DirectoriesInv, SwapInv, Newest
  <1>4. ReadInv' <=> ReadInv
    BY <1>1 DEF ReadInv
  <1> QED BY <1>1, <1>2, <1>3, <1>4 DEF MigrationInv

LEMMA MigrationStep == ASSUME MigrationInv, Migration!Next PROVE MigrationInv'
  BY CollectorKeeps, StartKeeps, ResumeKeeps, RewriteKeeps, RecordKeeps, CopyKeeps, CompareKeeps,
     CheckKeeps, SealKeeps, PutAsideKeeps, SwapInKeeps, ValidateKeeps, RollBackKeeps, ProbeKeeps,
     RefreshKeeps, MigrationDies
     DEF Migration!Next

\* Whatever is found under the name of a dataset is one collection with its own metadata, in
\* the layout its receipt says, and the rows that were collected last are never lost: for
\* any parts, collections and number of migrations, wherever migrations and collections die,
\* as long as no collection begins between the last look at the manifest and the end
\* (migrate_0101_dataset).
THEOREM MigrationsKeepData == AssetsSpec => []MigrationKeepsData
  <1>1. AssetsInit => MigrationInv
    BY MigrationInit DEF AssetsInit
  <1>2. MigrationInv /\ [AssetsNext]_assetsVars => MigrationInv'
    BY MigrationStep, MigrationStutters
       DEF AssetsNext, assetsVars, OfSelection, OfChain, OfCollection, OfText, OfUnion, OfMigration
  <1>3. MigrationInv => MigrationKeepsData
    <2> SUFFICES ASSUME MigrationInv PROVE MigrationKeepsData
      OBVIOUS
    <2>1. Migration!TypeOK
      <3>1. ASSUME NEW d \in ({dataset, staging, backup, failed} \cup previous) \ {None}
            PROVE  /\ DOMAIN d.part \subseteq Part /\ Migration!Range(d.part) \subseteq Migration!File
                   /\ d.meta \in Migration!Version \cup {0} /\ d.receipt \in {"none", "completed", "probed"}
        <4>1. d \in Migration!Directories
          BY DEF MigrationInv, MigrationTypes
        <4>2. PICK S \in SUBSET Part : d.part \in [S -> Migration!File]
          BY <4>1 DEF Migration!Directories
        <4> QED BY <4>1, <4>2 DEF Migration!Directories, Migration!Range
      <3> QED BY <3>1, Versions DEF MigrationInv, MigrationTypes, MigrationLocals, Migration!TypeOK
    <2>2. Migration!DatasetIsOneCollection
      BY DEF MigrationInv, MigrationTypes, DirectoriesInv, Newest, Migration!DatasetIsOneCollection
    <2>3. Migration!NewestSurvives
      BY DEF MigrationInv, DirectoriesInv, Newest, Migration!NewestSurvives
    <2> QED BY <2>1, <2>2, <2>3 DEF MigrationKeepsData
  <1> QED BY <1>1, <1>2, <1>3, PTL DEF AssetsSpec

-----------------------------------------------------------------------------
(* The text source.  What the manifest says of a file is never newer than what *)
(* its rows were made of, and that never newer than the file: contents do not  *)
(* return, so the same checksum means the same content, and so does the stamp. *)

Honest(f, e) ==
  /\ e.made[2] = e.contract /\ e.hash <= e.made[1] /\ e.made[1] <= textChanges + 1 /\ e.stamp <= textChanges + 1
  /\ file[f] # None =>
       e.made[1] <= file[f].content /\ (e.stamp = file[f].stamp => e.made[1] = file[f].content)

HonestEntries(E) == \A f \in DOMAIN E : Honest(f, E[f])

\* The entries of the files that are there, made of what is there.
ExactEntries(E) ==
  DOMAIN E = Text!Files /\ \A f \in DOMAIN E : E[f].there /\ E[f].made = <<file[f].content, textContract>>

TextLocals ==
  [pc : {"idle", "stat", "hash", "copy", "read", "commit", "swap", "drop", "refresh"},
   todo : SUBSET TextFile, contract : Nat, previous : Text!Entries, stamp : Nat, hash : Nat,
   staged : Text!Entries, aside : Text!Outputs \cup {None}]

Staging == {"stat", "hash", "copy", "read"}

TextTypes ==
  /\ file \in [TextFile -> [content : Nat, stamp : Nat] \cup {None}]
  /\ textContract \in Nat /\ run \in TextLocals /\ output \in Text!Outputs \cup {None}
  /\ parked \in 0 .. textRuns /\ textChanges \in 0 .. TextChanges /\ textRuns \in 0 .. MaxRuns
  /\ textQuiet \in BOOLEAN /\ ended \in BOOLEAN
  /\ run.pc \in Staging => parked < textRuns
  /\ run.pc \in {"swap", "drop"} => parked > 0

\* No file is from the future.
AgesInv ==
  \A f \in TextFile :
    file[f] # None => file[f].content <= textChanges + 1 /\ file[f].stamp <= textChanges + 1

EntriesInv ==
  /\ HonestEntries(run.previous) /\ HonestEntries(run.staged)
  /\ output # None => HonestEntries(output.entries)
  /\ run.aside # None => HonestEntries(run.aside.entries)
  /\ run.pc \in Staging /\ output # None =>
       \A f \in DOMAIN run.previous \cap DOMAIN output.entries :
         output.entries[f].made = run.previous[f].made

\* What is known of the file that is looked at.
CurrentInv ==
  LET f == Text!Current  e == run.previous[f] IN
  /\ run.pc \in {"hash", "copy", "read"} => run.todo # {} /\ run.stamp <= textChanges + 1
  /\ run.pc \in {"hash", "copy", "read"} /\ textQuiet => file[f] # None /\ run.stamp = file[f].stamp
  /\ run.pc = "read" => run.hash <= textChanges + 1 /\ (file[f] # None => run.hash <= file[f].content)
  /\ run.pc = "copy" =>
       /\ f \in DOMAIN run.previous /\ e.contract = run.contract /\ run.hash = e.hash
       /\ file[f] # None /\ run.stamp = file[f].stamp => e.made[1] = file[f].content

\* As long as nothing changes, what is staged is what is there.
ExactInv ==
  /\ run.pc # "idle" => ~ended
  /\ run.pc # "idle" /\ textQuiet => run.contract = textContract
  /\ run.pc \in Staging \cup {"swap"} /\ textQuiet =>
       /\ Text!Files = run.todo \cup DOMAIN run.staged
       /\ \A f \in DOMAIN run.staged :
            run.staged[f].there /\ run.staged[f].made = <<file[f].content, textContract>>
  /\ run.pc = "swap" => run.todo = {} /\ run.aside # None
  /\ run.pc \in {"drop", "refresh"} => output # None /\ (textQuiet => ExactEntries(output.entries))
  /\ run.pc = "idle" /\ ended /\ textQuiet =>
       output # None /\ output.sealed /\ ExactEntries(output.entries)

TextInv == TextTypes /\ AgesInv /\ EntriesInv /\ CurrentInv /\ ExactInv

TextEntry == [stamp : Nat, hash : Nat, contract : Nat, made : Nat \X Nat, there : BOOLEAN]

LEMMA EntriesShape ==
  ASSUME NEW E \in Text!Entries
  PROVE  DOMAIN E \in SUBSET TextFile /\ E \in [DOMAIN E -> TextEntry]
  BY DEF Text!Entries, TextEntry

LEMMA EntriesMake ==
  ASSUME NEW S \in SUBSET TextFile, NEW E \in [S -> TextEntry]
  PROVE  E \in Text!Entries
  BY DEF Text!Entries, TextEntry

LEMMA NoEntries == <<>> \in Text!Entries /\ DOMAIN <<>> = {}
  <1>1. <<>> \in [{} -> TextEntry]
    OBVIOUS
  <1> QED BY <1>1, EntriesMake

LEMMA TextIdle ==
  /\ Text!Idle \in TextLocals /\ Text!Idle.pc = "idle" /\ Text!Idle.previous = <<>>
  /\ Text!Idle.staged = <<>> /\ Text!Idle.aside = None
  BY NoEntries DEF Text!Idle, TextLocals

LEMMA NoOutput == ASSUME NEW o \in Text!Outputs PROVE o # None /\ o.entries \in Text!Entries /\ o.sealed \in BOOLEAN
  BY TextConstants DEF Text!TextAssumption, Text!Outputs

LEMMA CurrentFile ==
  ASSUME TextInv, run.todo # {}
  PROVE  Text!Current \in run.todo /\ Text!Current \in TextFile
  <1>1. run.todo \in SUBSET TextFile /\ run.todo \in SUBSET Nat
    BY TextConstants DEF TextInv, TextTypes, TextLocals, Text!TextAssumption
  <1>2. \E x \in run.todo : \A y \in run.todo : x <= y
    BY <1>1, LeastNumber
  <1>3. Text!Current = CHOOSE x \in run.todo : \A y \in run.todo : x <= y
    BY DEF Text!Current, Text!Min
  <1>4. Text!Current \in run.todo
    BY <1>2, <1>3
  <1> QED BY <1>1, <1>4

LEMMA TextInit == ASSUME Text!Init PROVE TextInv
  <1>1. /\ file = [f \in TextFile |-> [content |-> 1, stamp |-> 1]] /\ textContract = 1
        /\ output = None /\ parked = 0 /\ run = Text!Idle
        /\ textChanges = 0 /\ textRuns = 0 /\ textQuiet = TRUE /\ ended = FALSE
    BY DEF Text!Init
  <1>2. TextChanges \in Nat /\ MaxRuns \in Nat
    BY TextConstants DEF Text!TextAssumption
  <1>3. TextTypes
    <2>1. file \in [TextFile -> [content : Nat, stamp : Nat] \cup {None}]
      BY <1>1
    <2>2. run \in TextLocals /\ run.pc = "idle"
      BY <1>1, TextIdle
    <2>3. parked \in 0 .. textRuns /\ textChanges \in 0 .. TextChanges /\ textRuns \in 0 .. MaxRuns
      BY <1>1, <1>2
    <2> QED BY <1>1, <2>1, <2>2, <2>3 DEF TextTypes, Staging
  <1>4. AgesInv
    BY <1>1 DEF AgesInv
  <1>5. EntriesInv
    BY <1>1, TextIdle, NoEntries DEF EntriesInv, HonestEntries, Staging
  <1>6. CurrentInv
    BY <1>1, TextIdle DEF CurrentInv
  <1>7. ExactInv
    BY <1>1, TextIdle DEF ExactInv, Staging
  <1> QED BY <1>3, <1>4, <1>5, <1>6, <1>7 DEF TextInv

-----------------------------------------------------------------------------

\* A file keeps its content under a new stamp, gets a new one, or goes away.
Aged(f) ==
  file'[f] # None =>
    \/ file'[f] = file[f]
    \/ file'[f].stamp = textChanges + 2
       /\ (file'[f].content = textChanges + 2 \/ (file[f] # None /\ file'[f].content = file[f].content))

LEMMA HonestAges ==
  ASSUME TextTypes, textChanges' = textChanges + 1, NEW f \in TextFile, Aged(f),
         file' \in [TextFile -> [content : Nat, stamp : Nat] \cup {None}],
         NEW e \in TextEntry, Honest(f, e)
  PROVE  Honest(f, e)'
  <1>1. textChanges \in Nat /\ e.stamp \in Nat /\ e.made[1] \in Nat
    BY DEF TextTypes, TextEntry
  <1>2. file[f] # None => file[f].content \in Nat /\ file[f].stamp \in Nat
    BY DEF TextTypes
  <1>3. file'[f] # None => file'[f].content \in Nat /\ file'[f].stamp \in Nat
    OBVIOUS
  <1> QED BY <1>1, <1>2, <1>3 DEF Honest, Aged

\* All but whether the parts are there.
SameEntry(e, d) == e.stamp = d.stamp /\ e.hash = d.hash /\ e.contract = d.contract /\ e.made = d.made

\* A change of the world, or of the output: the run goes on with what it knows.
LEMMA WorldChanges ==
  ASSUME TextInv, textChanges < TextChanges, textChanges' = textChanges + 1, textQuiet' = FALSE,
         file' \in [TextFile -> [content : Nat, stamp : Nat] \cup {None}],
         \A f \in TextFile : Aged(f), textContract' \in Nat, UNCHANGED <<parked, run, textRuns, ended>>,
         output' \in Text!Outputs \cup {None}, output' = None <=> output = None,
         output # None =>
           /\ DOMAIN output'.entries = DOMAIN output.entries
           /\ \A f \in DOMAIN output.entries : SameEntry(output'.entries[f], output.entries[f])
  PROVE  TextInv'
  <1>1. TextTypes'
    <2>1. textChanges' \in 0 .. TextChanges
      BY TextConstants DEF TextInv, TextTypes, Text!TextAssumption
    <2> QED BY <2>1 DEF TextInv, TextTypes
  <1>2. \A f \in TextFile : file'[f] # None => file'[f].content \in Nat /\ file'[f].stamp \in Nat
    OBVIOUS
  <1>3. \A f \in TextFile : file[f] # None => file[f].content \in Nat /\ file[f].stamp \in Nat
    BY DEF TextInv, TextTypes
  <1>4. textChanges \in Nat
    BY DEF TextInv, TextTypes
  <1>5. AgesInv'
    BY <1>2, <1>3, <1>4 DEF TextInv, AgesInv, Aged
  <1>6. ASSUME NEW E \in Text!Entries, HonestEntries(E)
        PROVE  HonestEntries(E)'
    <2> SUFFICES ASSUME NEW f \in DOMAIN E PROVE Honest(f, E[f])'
      BY DEF HonestEntries
    <2>1. f \in TextFile /\ E[f] \in TextEntry
      BY EntriesShape
    <2> QED BY <1>6, <2>1, HonestAges DEF TextInv, HonestEntries
  <1>7. run.previous \in Text!Entries /\ run.staged \in Text!Entries /\ run.aside \in Text!Outputs \cup {None}
    BY DEF TextInv, TextTypes, TextLocals
  <1>8. HonestEntries(run.previous)' /\ HonestEntries(run.staged)'
    <2>1. HonestEntries(run.previous) /\ HonestEntries(run.staged)
      BY DEF TextInv, EntriesInv
    <2> QED BY <1>6, <1>7, <2>1 DEF HonestEntries
  <1>9. run'.aside # None => HonestEntries(run.aside.entries)'
    BY <1>6, <1>7, NoOutput DEF TextInv, EntriesInv, HonestEntries
  <1>10. output' # None => HonestEntries(output.entries)'
    <2> SUFFICES ASSUME output # None, NEW f \in DOMAIN output'.entries PROVE Honest(f, output.entries[f])'
      BY DEF HonestEntries
    <2>1. output \in Text!Outputs /\ f \in DOMAIN output.entries
      BY DEF TextInv, TextTypes
    <2>2. output.entries[f] \in TextEntry /\ f \in TextFile
      BY <2>1, NoOutput, EntriesShape
    <2>3. Honest(f, output.entries[f])
      BY <2>1 DEF TextInv, EntriesInv, HonestEntries
    <2> DEFINE e == output.entries[f]
               d == output'.entries[f]
    <2>4. d.stamp = e.stamp /\ d.hash = e.hash /\ d.contract = e.contract /\ d.made = e.made
      BY <2>1 DEF SameEntry
    <2>5. e.made[2] = e.contract /\ e.hash <= e.made[1] /\ e.made[1] <= textChanges' + 1 /\ e.stamp <= textChanges' + 1
          /\ (file'[f] # None =>
               e.made[1] <= file'[f].content /\ (e.stamp = file'[f].stamp => e.made[1] = file'[f].content))
      <3>1. PICK x : x = e
        OBVIOUS
      <3>2. Honest(f, x)'
        BY <2>2, <2>3, <3>1, HonestAges DEF TextInv
      <3> QED BY <3>1, <3>2 DEF Honest
    <2> QED BY <2>4, <2>5 DEF Honest
  <1>11. run.pc \in Staging /\ output' # None =>
           \A f \in DOMAIN run.previous \cap DOMAIN output'.entries :
             output'.entries[f].made = run.previous[f].made
    <2> SUFFICES ASSUME run.pc \in Staging, output # None, NEW f \in DOMAIN run.previous \cap DOMAIN output.entries
                 PROVE  output'.entries[f].made = run.previous[f].made
      OBVIOUS
    <2>1. output'.entries[f].made = output.entries[f].made
      BY DEF SameEntry
    <2> QED BY <2>1 DEF TextInv, EntriesInv
  <1>12. EntriesInv'
    BY <1>8, <1>9, <1>10, <1>11 DEF EntriesInv
  <1>13. CurrentInv'
    <2> DEFINE f == Text!Current
    <2>1. f' = f
      BY DEF Text!Current
    <2>2. CASE run.pc \in {"hash", "copy", "read"}
      <3>1. f \in TextFile /\ run.todo # {} /\ run.stamp <= textChanges + 1 /\ run.stamp \in Nat /\ run.hash \in Nat
        BY <2>2, CurrentFile DEF TextInv, TextTypes, CurrentInv, TextLocals
      <3> HIDE DEF f
      <3>2. run.pc = "read" => run.hash <= textChanges + 1 /\ (file[f] # None => run.hash <= file[f].content)
        BY DEF TextInv, CurrentInv, f
      <3>3. run.pc = "copy" =>
              /\ f \in DOMAIN run.previous /\ run.previous[f].contract = run.contract /\ run.hash = run.previous[f].hash
              /\ file[f] # None /\ run.stamp = file[f].stamp => run.previous[f].made[1] = file[f].content
        BY DEF TextInv, CurrentInv, f
      <3>4. Aged(f) /\ (file[f] # None => file[f].content \in Nat /\ file[f].stamp \in Nat)
            /\ (file'[f] # None => file'[f].content \in Nat /\ file'[f].stamp \in Nat)
        BY <1>2, <1>3, <3>1
      <3>5. run.pc = "read" => run.hash <= textChanges' + 1 /\ (file'[f] # None => run.hash <= file'[f].content)
        BY <1>4, <3>1, <3>2, <3>4 DEF Aged
      <3>6. file'[f] # None /\ run.stamp = file'[f].stamp => file'[f] = file[f]
        BY <1>4, <3>1, <3>4 DEF Aged
      <3>7. run.stamp <= textChanges' + 1
        BY <1>4, <3>1
      <3>8. f = Text!Current /\ f = Text!Current'
        BY <2>1 DEF f
      <3> QED BY <3>1, <3>3, <3>5, <3>6, <3>7, <3>8 DEF CurrentInv
    <2> QED BY <2>2 DEF CurrentInv
  <1>14. ExactInv'
    BY DEF TextInv, ExactInv
  <1> QED BY <1>1, <1>5, <1>12, <1>13, <1>14 DEF TextInv

LEMMA ChangesKeepText ==
  ASSUME TextInv,
         Text!EditContract \/ \E f \in TextFile : Text!WriteFile(f) \/ Text!RemoveFile(f) \/ Text!LoseParts(f)
  PROVE  TextInv'
  <1> DEFINE Worlds == [TextFile -> [content : Nat, stamp : Nat] \cup {None}]
  <1>1. file \in Worlds /\ textContract \in Nat /\ textChanges \in Nat /\ output \in Text!Outputs \cup {None}
    BY DEF TextInv, TextTypes
  <1>2. ASSUME NEW f \in TextFile, NEW c1 \in Nat, Text!Write(f, c1),
               c1 = textChanges + 2 \/ (file[f] # None /\ c1 = file[f].content)
        PROVE  TextInv'
    <2>1. /\ textChanges < TextChanges /\ textChanges' = textChanges + 1 /\ textQuiet' = FALSE
          /\ file' = [file EXCEPT ![f] = [content |-> c1, stamp |-> textChanges + 2]]
          /\ UNCHANGED <<textContract, output, parked, run, textRuns, ended>>
      BY <1>2 DEF Text!Write, Text!Change
    <2>2. file' \in Worlds
      BY <1>1, <2>1
    <2>3. \A g \in TextFile : Aged(g)
      BY <1>1, <1>2, <2>1 DEF Aged
    <2> QED BY <1>1, <2>1, <2>2, <2>3, WorldChanges DEF SameEntry
  <1>3. ASSUME NEW f \in TextFile, Text!WriteFile(f) PROVE TextInv'
    <2>1. textChanges + 2 \in Nat /\ (file[f] # None => file[f].content \in Nat)
      BY <1>1
    <2>2. Text!Write(f, textChanges + 2) \/ (file[f] # None /\ Text!Write(f, file[f].content))
      BY <1>3 DEF Text!WriteFile
    <2> QED BY <1>2, <2>1, <2>2
  <1>4. ASSUME NEW f \in TextFile, Text!RemoveFile(f) PROVE TextInv'
    <2>1. /\ textChanges < TextChanges /\ textChanges' = textChanges + 1 /\ textQuiet' = FALSE
          /\ file' = [file EXCEPT ![f] = None]
          /\ UNCHANGED <<textContract, output, parked, run, textRuns, ended>>
      BY <1>4 DEF Text!RemoveFile, Text!Change
    <2>2. file' \in Worlds /\ \A g \in TextFile : Aged(g)
      BY <1>1, <2>1 DEF Aged
    <2> QED BY <1>1, <2>1, <2>2, WorldChanges DEF SameEntry
  <1>5. CASE Text!EditContract
    <2>1. /\ textChanges < TextChanges /\ textChanges' = textChanges + 1 /\ textQuiet' = FALSE
          /\ textContract' = textContract + 1
          /\ UNCHANGED <<file, output, parked, run, textRuns, ended>>
      BY <1>5 DEF Text!EditContract, Text!Change
    <2>2. file' \in Worlds /\ \A g \in TextFile : Aged(g)
      BY <1>1, <2>1 DEF Aged
    <2>3. textContract' \in Nat
      BY <1>1, <2>1
    <2> QED BY <1>1, <2>1, <2>2, <2>3, WorldChanges DEF SameEntry
  <1>6. ASSUME NEW f \in TextFile, Text!LoseParts(f) PROVE TextInv'
    <2>1. /\ textChanges < TextChanges /\ textChanges' = textChanges + 1 /\ textQuiet' = FALSE
          /\ output # None /\ f \in DOMAIN output.entries
          /\ output' = [output EXCEPT !.entries[f].there = FALSE]
          /\ UNCHANGED <<file, textContract, parked, run, textRuns, ended>>
      BY <1>6 DEF Text!LoseParts, Text!Change, Text!world
    <2>2. file' \in Worlds /\ \A g \in TextFile : Aged(g)
      BY <1>1, <2>1 DEF Aged
    <2> DEFINE E == output.entries
               F == [E EXCEPT ![f].there = FALSE]
    <2>3. output \in Text!Outputs /\ E \in Text!Entries
      BY <1>1, <2>1, NoOutput
    <2>4. E \in [DOMAIN E -> TextEntry] /\ DOMAIN E \in SUBSET TextFile
      BY <2>3, EntriesShape
    <2>5. F \in [DOMAIN E -> TextEntry] /\ \A g \in DOMAIN E : SameEntry(F[g], E[g])
      BY <2>1, <2>4 DEF TextEntry, SameEntry
    <2>6. F \in Text!Entries
      BY <2>4, <2>5, EntriesMake
    <2>7. output' = [output EXCEPT !.entries = F]
      BY <2>1
    <2>8. DOMAIN F = DOMAIN E
      OBVIOUS
    <2> HIDE DEF F
    <2>9. output' \in Text!Outputs /\ output'.entries = F
      BY <2>3, <2>6, <2>7 DEF Text!Outputs
    <2> QED BY <2>1, <2>2, <2>5, <2>8, <2>9, <1>1, NoOutput, WorldChanges
  <1> QED BY <1>3, <1>4, <1>5, <1>6

-----------------------------------------------------------------------------

\* A step of the run leaves the world alone, and so what is honest of it.
LEMMA HonestStays ==
  ASSUME UNCHANGED <<file, textChanges>>
  PROVE  \A E : (\A f \in DOMAIN E : Honest(f, E[f])) => (\A f \in DOMAIN E : Honest(f, E[f])')
  BY DEF Honest

LEMMA RunStep ==
  ASSUME TextInv, UNCHANGED <<file, textContract, textChanges>>, TextTypes', EntriesInv', CurrentInv', ExactInv'
  PROVE  TextInv'
  BY DEF TextInv, AgesInv

LEMMA TextStarts == ASSUME TextInv, Text!Start PROVE TextInv'
  <1>0. PICK E : E = IF output = None THEN <<>> ELSE output.entries
    OBVIOUS
  <1>1. /\ run.pc = "idle" /\ textRuns < MaxRuns
        /\ run' = [Text!Idle EXCEPT !.pc = "stat", !.todo = Text!Files, !.contract = textContract, !.previous = E]
        /\ textRuns' = textRuns + 1 /\ textQuiet' = TRUE /\ ended' = FALSE
        /\ UNCHANGED <<file, textContract, output, parked, textChanges>>
    BY <1>0 DEF Text!Start, Text!world
  <1>2. E \in Text!Entries /\ HonestEntries(E) /\ (output # None => E = output.entries)
    BY <1>0, NoEntries, NoOutput DEF TextInv, TextTypes, EntriesInv, HonestEntries
  <1>3. Text!Files \in SUBSET TextFile /\ textContract \in Nat
    BY DEF TextInv, TextTypes, Text!Files
  <1>4. /\ run' \in TextLocals /\ run'.pc = "stat" /\ run'.todo = Text!Files /\ run'.contract = textContract
        /\ run'.previous = E /\ run'.staged = <<>> /\ run'.aside = None
    BY <1>1, <1>2, <1>3, TextIdle DEF TextLocals
  <1>5. TextTypes'
    <2>1. parked' \in 0 .. textRuns' /\ parked' < textRuns' /\ textRuns' \in 0 .. MaxRuns
      BY <1>1, TextConstants DEF TextInv, TextTypes, Text!TextAssumption
    <2> QED BY <1>1, <1>4, <2>1 DEF TextInv, TextTypes
  <1>6. HonestEntries(E)' /\ (output # None => HonestEntries(output.entries)')
    <2>1. \A D : HonestEntries(D) => HonestEntries(D)'
      BY <1>1, HonestStays DEF HonestEntries
    <2> QED BY <1>1, <1>2, <2>1 DEF TextInv, EntriesInv
  <1>7. EntriesInv'
    <2>1. HonestEntries(run.previous)' /\ (output' # None => HonestEntries(output.entries)')
      BY <1>1, <1>4, <1>6 DEF HonestEntries
    <2>2. HonestEntries(run.staged)' /\ run'.aside = None
      BY <1>4, NoEntries DEF HonestEntries
    <2>3. output' # None => run'.previous = output'.entries
      BY <1>1, <1>2, <1>4
    <2> QED BY <2>1, <2>2, <2>3 DEF EntriesInv
  <1>8. CurrentInv'
    BY <1>4 DEF CurrentInv
  <1>9. ExactInv'
    BY <1>1, <1>4, NoEntries DEF ExactInv, Text!Files
  <1> QED BY <1>1, <1>5, <1>7, <1>8, <1>9, RunStep

\* Only what the run knows of the current file changes.
LEMMA Looked ==
  ASSUME TextInv, run.pc \in Staging, run.todo # {}, NEW pc1 \in {"hash", "copy", "read"},
         NEW s \in Nat, NEW h \in Nat, run' = [run EXCEPT !.pc = pc1, !.stamp = s, !.hash = h],
         UNCHANGED <<file, textContract, output, parked, textChanges, textRuns, textQuiet, ended>>,
         s <= textChanges + 1,
         (file[Text!Current] # None /\ s = file[Text!Current].stamp) \/ ~textQuiet,
         pc1 = "read" =>
           h <= textChanges + 1 /\ (file[Text!Current] # None => h <= file[Text!Current].content),
         pc1 = "copy" =>
           /\ Text!Current \in DOMAIN run.previous /\ run.previous[Text!Current].contract = run.contract
           /\ h = run.previous[Text!Current].hash
           /\ file[Text!Current] # None /\ s = file[Text!Current].stamp =>
                run.previous[Text!Current].made[1] = file[Text!Current].content
  PROVE  TextInv'
  <1>1. /\ run' \in TextLocals /\ run'.pc = pc1 /\ run'.stamp = s /\ run'.hash = h /\ run'.todo = run.todo
        /\ run'.contract = run.contract /\ run'.previous = run.previous /\ run'.staged = run.staged
        /\ run'.aside = run.aside
    BY DEF TextInv, TextTypes, TextLocals
  <1>2. Text!Current' = Text!Current
    BY <1>1 DEF Text!Current
  <1>3. TextTypes'
    BY <1>1 DEF TextInv, TextTypes, Staging
  <1>4. EntriesInv'
    <2>1. /\ HonestEntries(run.previous) /\ HonestEntries(run.staged)
          /\ (output # None => HonestEntries(output.entries)) /\ (run.aside # None => HonestEntries(run.aside.entries))
      BY DEF TextInv, EntriesInv
    <2>2. \A E : HonestEntries(E) => HonestEntries(E)'
      BY HonestStays DEF HonestEntries
    <2> QED BY <1>1, <2>1, <2>2 DEF TextInv, EntriesInv, HonestEntries, Staging
  <1>5. CurrentInv'
    BY <1>1, <1>2 DEF CurrentInv
  <1>6. ExactInv'
    BY <1>1 DEF TextInv, ExactInv, Staging, Text!Files
  <1> QED BY <1>3, <1>4, <1>5, <1>6, RunStep

LEMMA StatKeeps == ASSUME TextInv, Text!Stat PROVE TextInv'
  <1> DEFINE f == Text!Current
             s == file[f].stamp
             h == IF f \in DOMAIN run.previous THEN run.previous[f].hash ELSE 0
             pc1 == IF Text!Known(f) /\ run.previous[f].stamp = s THEN "copy" ELSE "hash"
  <1>1. /\ run.pc = "stat" /\ run.todo # {} /\ file[f] # None
        /\ run' = [run EXCEPT !.stamp = s, !.pc = pc1, !.hash = h]
        /\ UNCHANGED <<file, textContract, output, parked, textChanges, textRuns, textQuiet, ended>>
    BY DEF Text!Stat, Text!world
  <1>2. f \in TextFile
    BY <1>1, CurrentFile
  <1>3. s \in Nat /\ s <= textChanges + 1
    BY <1>1, <1>2 DEF TextInv, TextTypes, AgesInv
  <1>4. run.previous \in Text!Entries /\ HonestEntries(run.previous)
    BY DEF TextInv, TextTypes, TextLocals, EntriesInv
  <1>5. h \in Nat
    BY <1>4, EntriesShape DEF TextEntry
  <1>6. pc1 = "copy" =>
          /\ f \in DOMAIN run.previous /\ run.previous[f].contract = run.contract
          /\ h = run.previous[f].hash
          /\ file[f] # None /\ s = file[f].stamp => run.previous[f].made[1] = file[f].content
    BY <1>1, <1>4 DEF Text!Known, HonestEntries, Honest
  <1>7. run' = [run EXCEPT !.pc = pc1, !.stamp = s, !.hash = h]
    BY <1>1 DEF TextInv, TextTypes, TextLocals
  <1>8. pc1 \in {"hash", "copy", "read"} /\ pc1 # "read"
    OBVIOUS
  <1>9. run.pc \in Staging
    BY <1>1 DEF Staging
  <1> HIDE DEF h, s, pc1
  <1>10. file[f] # None /\ s = file[f].stamp
    BY <1>1 DEF s
  <1> QED BY <1>1, <1>3, <1>5, <1>6, <1>7, <1>8, <1>9, <1>10, Looked

LEMMA HashKeeps == ASSUME TextInv, Text!Hash PROVE TextInv'
  <1> DEFINE f == Text!Current
             h == file[f].content
             s == run.stamp
             pc1 == IF Text!Known(f) /\ run.previous[f].hash = h THEN "copy" ELSE "read"
  <1>1. /\ run.pc = "hash" /\ file[f] # None
        /\ run' = [run EXCEPT !.hash = h, !.pc = pc1]
        /\ UNCHANGED <<file, textContract, output, parked, textChanges, textRuns, textQuiet, ended>>
    BY DEF Text!Hash, Text!world
  <1>2. /\ run.todo # {} /\ s <= textChanges + 1
        /\ textQuiet => file[f] # None /\ s = file[f].stamp
    BY <1>1 DEF TextInv, CurrentInv
  <1>3. f \in TextFile
    BY <1>2, CurrentFile
  <1>4. h \in Nat /\ h <= textChanges + 1 /\ s \in Nat
    BY <1>1, <1>3 DEF TextInv, TextTypes, AgesInv, TextLocals
  <1>5. run.previous \in Text!Entries /\ HonestEntries(run.previous)
    BY DEF TextInv, TextTypes, TextLocals, EntriesInv
  <1>6. pc1 = "copy" =>
          /\ f \in DOMAIN run.previous /\ run.previous[f].contract = run.contract
          /\ h = run.previous[f].hash
          /\ run.previous[f].made[1] = file[f].content
    <2> SUFFICES ASSUME pc1 = "copy"
                 PROVE  /\ f \in DOMAIN run.previous /\ run.previous[f].contract = run.contract
                        /\ h = run.previous[f].hash
                        /\ run.previous[f].made[1] = file[f].content
      OBVIOUS
    <2>1. f \in DOMAIN run.previous /\ run.previous[f].contract = run.contract /\ h = run.previous[f].hash
      BY DEF Text!Known
    <2>2. Honest(f, run.previous[f]) /\ run.previous[f] \in TextEntry
      BY <1>5, <2>1, EntriesShape DEF HonestEntries
    <2>3. h <= run.previous[f].made[1] /\ run.previous[f].made[1] <= h
      BY <1>1, <2>1, <2>2 DEF Honest
    <2>4. run.previous[f].made[1] \in Nat
      BY <2>2 DEF TextEntry
    <2> QED BY <1>4, <2>1, <2>3, <2>4
  <1>7. run' = [run EXCEPT !.pc = pc1, !.stamp = s, !.hash = h]
    BY <1>1 DEF TextInv, TextTypes, TextLocals
  <1>8. pc1 \in {"hash", "copy", "read"}
    OBVIOUS
  <1>9. run.pc \in Staging
    BY <1>1 DEF Staging
  <1>10. h <= file[f].content
    BY <1>4
  <1> HIDE DEF h, s, pc1
  <1>11. textQuiet \in BOOLEAN
    BY DEF TextInv, TextTypes
  <1> QED BY <1>1, <1>2, <1>4, <1>6, <1>7, <1>8, <1>9, <1>10, <1>11, Looked

\* An entry of the current file is staged with its parts.
LEMMA Staged ==
  ASSUME TextInv, run.pc \in Staging, run.todo # {}, NEW e \in TextEntry, Honest(Text!Current, e), e.there,
         textQuiet => file[Text!Current] # None /\ e.made = <<file[Text!Current].content, textContract>>,
         Text!Stage(e),
         UNCHANGED <<file, textContract, output, parked, textChanges, textRuns, textQuiet, ended>>
  PROVE  TextInv'
  <1> DEFINE f == Text!Current
             E == [g \in DOMAIN run.staged \cup {f} |-> IF g = f THEN e ELSE run.staged[g]]
  <1>1. f \in run.todo /\ f \in TextFile
    BY CurrentFile
  <1> HIDE DEF f
  <1>2. run.staged \in [DOMAIN run.staged -> TextEntry] /\ DOMAIN run.staged \in SUBSET TextFile
    BY EntriesShape DEF TextInv, TextTypes, TextLocals
  <1>3. E \in [DOMAIN run.staged \cup {f} -> TextEntry] /\ DOMAIN run.staged \cup {f} \in SUBSET TextFile
    BY <1>1, <1>2
  <1>4. E \in Text!Entries
    BY <1>3, EntriesMake
  <1>5. HonestEntries(E)
    BY DEF TextInv, EntriesInv, HonestEntries, f
  <1>6. DOMAIN E = DOMAIN run.staged \cup {f} /\ E[f] = e /\ \A g \in DOMAIN E \ {f} : E[g] = run.staged[g]
    OBVIOUS
  <1>7. run' = [run EXCEPT !.pc = "stat", !.todo = run.todo \ {f}, !.stamp = 0, !.hash = 0, !.staged = E]
    BY DEF Text!Stage, f
  <1> HIDE DEF E
  <1>8. /\ run' \in TextLocals /\ run'.pc = "stat" /\ run'.todo = run.todo \ {f} /\ run'.staged = E
        /\ run'.contract = run.contract /\ run'.previous = run.previous /\ run'.aside = run.aside
    BY <1>4, <1>7 DEF TextInv, TextTypes, TextLocals
  <1>9. TextTypes'
    BY <1>8 DEF TextInv, TextTypes, Staging
  <1>10. EntriesInv'
    <2>1. /\ HonestEntries(run.previous) /\ HonestEntries(E)
          /\ (output # None => HonestEntries(output.entries)) /\ (run.aside # None => HonestEntries(run.aside.entries))
      BY <1>5 DEF TextInv, EntriesInv
    <2>2. \A D : HonestEntries(D) => HonestEntries(D)'
      BY HonestStays DEF HonestEntries
    <2>3. HonestEntries(run.staged)'
      <3>1. PICK D : D = E
        OBVIOUS
      <3> QED BY <1>8, <2>1, <2>2, <3>1 DEF HonestEntries
    <2> QED BY <1>8, <2>1, <2>2, <2>3 DEF TextInv, EntriesInv, HonestEntries
  <1>11. CurrentInv'
    BY <1>8 DEF CurrentInv
  <1>12. ExactInv'
    <2>1. run.pc # "idle" /\ ~ended
      BY DEF TextInv, ExactInv, Staging
    <2>2. textQuiet => run.contract = textContract
      BY <2>1 DEF TextInv, ExactInv
    <2>3. textQuiet =>
            /\ Text!Files = run.todo \cup DOMAIN run.staged
            /\ \A g \in DOMAIN run.staged :
                 run.staged[g].there /\ run.staged[g].made = <<file[g].content, textContract>>
      BY DEF TextInv, ExactInv
    <2>4. textQuiet =>
            /\ Text!Files = (run.todo \ {f}) \cup DOMAIN E
            /\ \A g \in DOMAIN E : E[g].there /\ E[g].made = <<file[g].content, textContract>>
      BY <1>1, <1>6, <2>3 DEF f
    <2>5. Text!Files' = Text!Files
      BY DEF Text!Files
    <2> QED BY <1>8, <2>1, <2>2, <2>4, <2>5 DEF ExactInv
  <1> QED BY <1>9, <1>10, <1>11, <1>12, RunStep

LEMMA CopyPartsKeeps == ASSUME TextInv, Text!Copy PROVE TextInv'
  <1> DEFINE f == Text!Current
             p == run.previous[f]
             e == Text!Entry(run.stamp, run.hash, p.contract, output.entries[f].made)
  <1>1. /\ run.pc = "copy" /\ output # None /\ f \in DOMAIN output.entries /\ Text!Stage(e)
        /\ UNCHANGED <<file, textContract, output, parked, textChanges, textRuns, textQuiet, ended>>
    BY DEF Text!Copy, Text!Available, Text!world
  <1>2. /\ run.todo # {} /\ run.stamp <= textChanges + 1
        /\ textQuiet => file[f] # None /\ run.stamp = file[f].stamp
        /\ f \in DOMAIN run.previous /\ p.contract = run.contract /\ run.hash = p.hash
        /\ file[f] # None /\ run.stamp = file[f].stamp => p.made[1] = file[f].content
    BY <1>1 DEF TextInv, CurrentInv
  <1>3. run.pc \in Staging
    BY <1>1 DEF Staging
  <1>4. Honest(f, p) /\ output.entries[f].made = p.made
    BY <1>1, <1>2, <1>3 DEF TextInv, EntriesInv, HonestEntries
  <1>5. p \in TextEntry
    BY <1>2, EntriesShape DEF TextInv, TextTypes, TextLocals
  <1>6. run.stamp \in Nat /\ run.hash \in Nat
    BY DEF TextInv, TextTypes, TextLocals
  <1>7. e = [stamp |-> run.stamp, hash |-> p.hash, contract |-> p.contract, made |-> p.made, there |-> TRUE]
    BY <1>2, <1>4 DEF Text!Entry
  <1> HIDE DEF e
  <1>8. e \in TextEntry /\ e.there
    BY <1>5, <1>6, <1>7 DEF TextEntry
  <1>9. Honest(f, e)
    BY <1>2, <1>4, <1>7 DEF Honest
  <1>10. textQuiet => file[f] # None /\ e.made = <<file[f].content, textContract>>
    <2> SUFFICES ASSUME textQuiet PROVE file[f] # None /\ e.made = <<file[f].content, textContract>>
      OBVIOUS
    <2>1. run.contract = textContract
      BY <1>1 DEF TextInv, ExactInv
    <2>2. p.made[2] = textContract /\ p.made[1] = file[f].content /\ file[f] # None
      BY <1>2, <1>4, <2>1 DEF Honest
    <2>3. p.made = <<p.made[1], p.made[2]>>
      BY <1>5 DEF TextEntry
    <2> QED BY <1>7, <2>2, <2>3
  <1> QED BY <1>1, <1>2, <1>3, <1>8, <1>9, <1>10, Staged

LEMMA ReadKeeps == ASSUME TextInv, Text!Read PROVE TextInv'
  <1> DEFINE f == Text!Current
             e == Text!Entry(run.stamp, run.hash, run.contract, <<file[f].content, run.contract>>)
  <1>1. /\ run.pc = "read" /\ file[f] # None /\ Text!Stage(e)
        /\ UNCHANGED <<file, textContract, output, parked, textChanges, textRuns, textQuiet, ended>>
    BY DEF Text!Read, Text!world
  <1>2. /\ run.todo # {} /\ run.stamp <= textChanges + 1 /\ run.hash <= file[f].content
    BY <1>1 DEF TextInv, CurrentInv
  <1>3. f \in TextFile
    BY <1>2, CurrentFile
  <1>4. file[f].content \in Nat /\ file[f].content <= textChanges + 1
    BY <1>1, <1>3 DEF TextInv, TextTypes, AgesInv
  <1>5. run.stamp \in Nat /\ run.hash \in Nat /\ run.contract \in Nat
    BY DEF TextInv, TextTypes, TextLocals
  <1>6. e = [stamp |-> run.stamp, hash |-> run.hash, contract |-> run.contract,
             made |-> <<file[f].content, run.contract>>, there |-> TRUE]
    BY DEF Text!Entry
  <1> HIDE DEF e
  <1>7. e \in TextEntry /\ e.there
    BY <1>4, <1>5, <1>6 DEF TextEntry
  <1>8. Honest(f, e)
    BY <1>2, <1>4, <1>6 DEF Honest
  <1>9. textQuiet => e.made = <<file[f].content, textContract>>
    BY <1>1, <1>6 DEF TextInv, ExactInv
  <1>10. run.pc \in Staging
    BY <1>1 DEF Staging
  <1> QED BY <1>1, <1>2, <1>7, <1>8, <1>9, <1>10, Staged

LEMMA TextAside == ASSUME TextInv, Text!PutAside PROVE TextInv'
  <1>1. /\ run.pc = "stat" /\ run.todo = {} /\ output # None /\ output' = None /\ parked' = parked + 1
        /\ run' = [run EXCEPT !.pc = "swap", !.aside = output]
        /\ UNCHANGED <<file, textContract, textChanges, textRuns, textQuiet, ended>>
    BY DEF Text!PutAside, Text!world
  <1>2. /\ run' \in TextLocals /\ run'.pc = "swap" /\ run'.todo = {} /\ run'.staged = run.staged
        /\ run'.contract = run.contract /\ run'.previous = run.previous /\ run'.aside = output
    BY <1>1 DEF TextInv, TextTypes, TextLocals
  <1>3. TextTypes'
    <2>1. parked' \in 0 .. textRuns' /\ parked' > 0
      BY <1>1 DEF TextInv, TextTypes, Staging
    <2> QED BY <1>1, <1>2, <2>1 DEF TextInv, TextTypes, Staging
  <1>4. EntriesInv'
    <2>1. /\ HonestEntries(run.previous) /\ HonestEntries(run.staged) /\ HonestEntries(output.entries)
      BY <1>1 DEF TextInv, EntriesInv
    <2>2. \A D : HonestEntries(D) => HonestEntries(D)'
      BY <1>1, HonestStays DEF HonestEntries
    <2> QED BY <1>1, <1>2, <2>1, <2>2 DEF EntriesInv, HonestEntries
  <1>5. CurrentInv'
    BY <1>2 DEF CurrentInv
  <1>6. ExactInv'
    BY <1>1, <1>2 DEF TextInv, ExactInv, Staging, Text!Files
  <1> QED BY <1>1, <1>3, <1>4, <1>5, <1>6, RunStep

LEMMA TextSwaps == ASSUME TextInv, Text!SwapIn PROVE TextInv'
  <1> DEFINE o == Text!Output(run.staged, FALSE)
             pc1 == IF run.pc = "swap" THEN "drop" ELSE "refresh"
  <1>1. run.pc = "swap" \/ (run.pc = "stat" /\ run.todo = {})
    BY DEF Text!SwapIn
  <1>8. /\ output' = o /\ run' = [run EXCEPT !.pc = pc1, !.aside = None]
         /\ UNCHANGED <<file, textContract, parked, textChanges, textRuns, textQuiet, ended>>
    BY DEF Text!SwapIn, Text!world
  <1>2. o \in Text!Outputs /\ o.entries = run.staged /\ o # None
    BY NoOutput DEF TextInv, TextTypes, TextLocals, Text!Output, Text!Outputs
  <1> HIDE DEF o
  <1>3. /\ run' \in TextLocals /\ run'.pc = pc1 /\ run'.staged = run.staged
        /\ run'.contract = run.contract /\ run'.previous = run.previous /\ run'.aside = None
    BY <1>8 DEF TextInv, TextTypes, TextLocals
  <1>4. TextTypes'
    BY <1>1, <1>8, <1>2, <1>3 DEF TextInv, TextTypes, Staging
  <1>5. EntriesInv'
    <2>1. /\ HonestEntries(run.previous) /\ HonestEntries(run.staged)
      BY DEF TextInv, EntriesInv
    <2>2. \A D : HonestEntries(D) => HonestEntries(D)'
      BY <1>8, HonestStays DEF HonestEntries
    <2>3. output'.entries = run.staged /\ run'.pc \notin Staging
      BY <1>8, <1>2, <1>3 DEF Staging
    <2> QED BY <1>3, <2>1, <2>2, <2>3 DEF EntriesInv, HonestEntries
  <1>6. CurrentInv'
    BY <1>3 DEF CurrentInv
  <1>7. ExactInv'
    <2>1. run.pc \in Staging \cup {"swap"} /\ run.pc # "idle" /\ run.todo = {}
      BY <1>1 DEF TextInv, ExactInv, Staging
    <2>2. textQuiet => ExactEntries(run.staged) /\ run.contract = textContract
      BY <2>1 DEF TextInv, ExactInv, ExactEntries
    <2>3. ~ended
      BY <2>1 DEF TextInv, ExactInv
    <2>4. \A D : ExactEntries(D) => ExactEntries(D)'
      BY <1>8 DEF ExactEntries, Text!Files
    <2>5. textQuiet => ExactEntries(output.entries)'
      BY <1>8, <1>2, <2>2, <2>4 DEF ExactEntries
    <2> QED BY <1>8, <1>2, <1>3, <2>2, <2>3, <2>5 DEF ExactInv, Staging
  <1> QED BY <1>8, <1>4, <1>5, <1>6, <1>7, RunStep

LEMMA DropKeepsText == ASSUME TextInv, Text!DropBackup PROVE TextInv'
  <1>1. /\ run.pc = "drop" /\ parked' = parked - 1 /\ run' = [run EXCEPT !.pc = "refresh"]
        /\ UNCHANGED <<file, textContract, output, textChanges, textRuns, textQuiet, ended>>
    BY DEF Text!DropBackup, Text!Goto, Text!world
  <1>2. /\ run' \in TextLocals /\ run'.pc = "refresh" /\ run'.staged = run.staged
        /\ run'.contract = run.contract /\ run'.previous = run.previous /\ run'.aside = run.aside
    BY <1>1 DEF TextInv, TextTypes, TextLocals
  <1>3. TextTypes'
    <2>1. parked' \in 0 .. textRuns'
      BY <1>1 DEF TextInv, TextTypes
    <2> QED BY <1>1, <1>2, <2>1 DEF TextInv, TextTypes, Staging
  <1>4. EntriesInv'
    <2>1. /\ HonestEntries(run.previous) /\ HonestEntries(run.staged)
          /\ (output # None => HonestEntries(output.entries)) /\ (run.aside # None => HonestEntries(run.aside.entries))
      BY DEF TextInv, EntriesInv
    <2>2. \A D : HonestEntries(D) => HonestEntries(D)'
      BY <1>1, HonestStays DEF HonestEntries
    <2> QED BY <1>1, <1>2, <2>1, <2>2 DEF EntriesInv, HonestEntries, Staging
  <1>5. CurrentInv'
    BY <1>2 DEF CurrentInv
  <1>6. ExactInv'
    BY <1>1, <1>2 DEF TextInv, ExactInv, ExactEntries, Staging, Text!Files
  <1> QED BY <1>1, <1>3, <1>4, <1>5, <1>6, RunStep

\* Where a run is over nothing is staged, and what there is was there before.
LEMMA RunEnds ==
  ASSUME TextInv, run' = Text!Idle, UNCHANGED <<file, textContract, textChanges, textRuns, textQuiet>>,
         output' \in Text!Outputs \cup {None}, output' # None => HonestEntries(output'.entries),
         parked' \in 0 .. textRuns, ended' \in BOOLEAN,
         ended' /\ textQuiet => output' # None /\ output'.sealed /\ ExactEntries(output'.entries)
  PROVE  TextInv'
  <1>1. run' \in TextLocals /\ run'.pc = "idle" /\ run'.staged = <<>> /\ run'.previous = <<>> /\ run'.aside = None
    BY TextIdle
  <1>2. TextTypes'
    BY <1>1 DEF TextInv, TextTypes, Staging
  <1>3. EntriesInv'
    <2>1. \A D : HonestEntries(D) => HonestEntries(D)'
      BY HonestStays DEF HonestEntries
    <2>2. output' # None => HonestEntries(output.entries)'
      BY <2>1 DEF HonestEntries
    <2> QED BY <1>1, <2>2, NoEntries DEF EntriesInv, HonestEntries, Staging
  <1>4. CurrentInv'
    BY <1>1 DEF CurrentInv
  <1>5. ExactInv'
    <2>1. \A D : ExactEntries(D) => ExactEntries(D)'
      BY DEF ExactEntries, Text!Files
    <2>2. ended' /\ textQuiet' => output' # None /\ output'.sealed /\ ExactEntries(output.entries)'
      BY <2>1 DEF ExactEntries
    <2> QED BY <1>1, <2>2 DEF ExactInv, Staging
  <1> QED BY <1>2, <1>3, <1>4, <1>5, RunStep

LEMMA RefreshEnds == ASSUME TextInv, Text!Refresh PROVE TextInv'
  <1>1. /\ run.pc = "refresh" /\ output' = [output EXCEPT !.sealed = TRUE] /\ run' = Text!Idle /\ ended' = TRUE
        /\ UNCHANGED <<file, textContract, parked, textChanges, textRuns, textQuiet>>
    BY DEF Text!Refresh, Text!world
  <1>2. output \in Text!Outputs /\ HonestEntries(output.entries) /\ (textQuiet => ExactEntries(output.entries))
    BY <1>1 DEF TextInv, TextTypes, EntriesInv, ExactInv
  <1>3. output' \in Text!Outputs /\ output'.entries = output.entries /\ output'.sealed
    BY <1>1, <1>2 DEF Text!Outputs
  <1>4. parked \in 0 .. textRuns
    BY DEF TextInv, TextTypes
  <1> QED BY <1>1, <1>2, <1>3, <1>4, NoOutput, RunEnds

LEMMA FailuresEnd == ASSUME TextInv, Text!Fail \/ Text!SwapFails \/ Text!Die PROVE TextInv'
  <1>1. /\ run.pc # "idle" /\ run' = Text!Idle
        /\ UNCHANGED <<file, textContract, textChanges, textRuns, textQuiet, ended>>
    BY DEF Text!Fail, Text!SwapFails, Text!Die, Text!world
  <1>2. ~ended /\ ended \in BOOLEAN
    BY <1>1 DEF TextInv, TextTypes, ExactInv
  <1>3. output' \in {output, run.aside}
    BY DEF Text!Fail, Text!SwapFails, Text!Die
  <1>4. /\ {output, run.aside} \subseteq Text!Outputs \cup {None}
        /\ (output # None => HonestEntries(output.entries)) /\ (run.aside # None => HonestEntries(run.aside.entries))
    BY DEF TextInv, TextTypes, TextLocals, EntriesInv
  <1>5. parked' \in 0 .. textRuns
    <2>1. CASE Text!SwapFails
      BY <2>1 DEF Text!SwapFails, TextInv, TextTypes
    <2>2. CASE Text!Fail \/ Text!Die
      BY <2>2 DEF Text!Fail, Text!Die, TextInv, TextTypes
    <2> QED BY <2>1, <2>2
  <1>6. PICK o : o = output'
    OBVIOUS
  <1>7. o \in Text!Outputs \cup {None} /\ (o # None => HonestEntries(o.entries))
    BY <1>3, <1>4, <1>6
  <1> QED BY <1>1, <1>2, <1>5, <1>6, <1>7, RunEnds

LEMMA TextStutters == ASSUME TextInv, UNCHANGED textVars PROVE TextInv'
  <1>1. /\ UNCHANGED <<file, textContract, output, parked, run>>
        /\ UNCHANGED <<textChanges, textRuns, textQuiet, ended>>
    BY DEF textVars
  <1>2. TextTypes'
    BY <1>1 DEF TextInv, TextTypes
  <1>3. EntriesInv'
    BY <1>1 DEF TextInv, EntriesInv, HonestEntries, Honest
  <1>4. CurrentInv'
    BY <1>1 DEF TextInv, CurrentInv, Text!Current
  <1>5. ExactInv'
    BY <1>1 DEF TextInv, ExactInv, ExactEntries, Text!Files
  <1> QED BY <1>1, <1>2, <1>3, <1>4, <1>5, RunStep

LEMMA TextStep == ASSUME TextInv, Text!Next PROVE TextInv'
  BY ChangesKeepText, TextStarts, StatKeeps, HashKeeps, CopyPartsKeeps, ReadKeeps, TextAside, TextSwaps,
     DropKeepsText, RefreshEnds, FailuresEnd
     DEF Text!Next

LEMMA TextTellsTruth == ASSUME TextInv PROVE Text!TypeOK /\ Text!OutputIsExact
  <1>1. /\ run.previous \in Text!Entries /\ run.staged \in Text!Entries
        /\ output # None => output.entries \in Text!Entries /\ output.sealed \in BOOLEAN
    BY NoOutput DEF TextInv, TextTypes, TextLocals
  <1>2. /\ DOMAIN run.previous \subseteq TextFile /\ DOMAIN run.staged \subseteq TextFile
        /\ output # None => DOMAIN output.entries \subseteq TextFile
    BY <1>1, EntriesShape
  <1>3. parked \in 0 .. MaxRuns
    BY TextConstants DEF TextInv, TextTypes, Text!TextAssumption
  <1>4. Text!TypeOK
    BY <1>1, <1>2, <1>3 DEF TextInv, TextTypes, TextLocals, Text!TypeOK
  <1>5. Text!OutputIsExact
    BY DEF TextInv, ExactInv, ExactEntries, Text!OutputIsExact
  <1> QED BY <1>4, <1>5

-----------------------------------------------------------------------------
(* The union of upstreams.  A cache holds of every file a content that is not  *)
(* older than the one it is named after, and not newer than the file: under    *)
(* the name of the present, that is the present content.                       *)

Names == UNION {[S -> Nat] : S \in SUBSET UnionFile}
Caches == [rows : Names, sealed : BOOLEAN]
UnionLocals ==
  [pc : Union!Running \cup {"idle", "end"}, name : Names, todo : SUBSET UnionFile, staged : Names]

\* The rows were read after the files had been listed under this name.
ReadAfter(n, R) ==
  \A f \in DOMAIN R :
    /\ n[f] <= R[f] /\ R[f] <= memberChanges + 1
    /\ member[f] # None => R[f] <= member[f]
WholeUnion(n, R) == DOMAIN R = DOMAIN n /\ ReadAfter(n, R)

UnionTypes ==
  /\ member \in [UnionFile -> Nat \cup {None}] /\ memberChanges \in 0 .. UnionChanges
  /\ memberQuiet \in [UnionRun -> BOOLEAN] /\ union \in [UnionRun -> UnionLocals]
  /\ DOMAIN cache \subseteq Names /\ \A n \in DOMAIN cache : cache[n] \in Caches
  /\ replaced \in [UnionRun -> Caches \cup {None}]

CachesInv ==
  /\ \A f \in UnionFile : member[f] # None => member[f] <= memberChanges + 1
  /\ \A n \in DOMAIN cache : WholeUnion(n, cache[n].rows)

OneRuns ==
  \A q, r \in UnionRun : union[q].pc \in Union!Running /\ union[r].pc \in Union!Running => q = r

UnionRunInv(r) ==
  /\ replaced[r] # None => union[r].pc # "idle" /\ WholeUnion(union[r].name, replaced[r].rows)
  /\ union[r].pc \in Union!Running =>
       /\ \A f \in DOMAIN union[r].name :
            /\ union[r].name[f] <= memberChanges + 1
            /\ member[f] # None => union[r].name[f] <= member[f]
       /\ memberQuiet[r] => union[r].name = Union!Fingerprint
  /\ union[r].pc = "validate" => union[r].staged = <<>>
  /\ union[r].pc \in {"build", "swap"} =>
       /\ union[r].todo \cup DOMAIN union[r].staged = DOMAIN union[r].name
       /\ ReadAfter(union[r].name, union[r].staged)
  /\ union[r].pc = "swap" => union[r].todo = {}
  /\ union[r].pc = "use" => Union!Cached(union[r].name) /\ cache[union[r].name].sealed

UnionInv == UnionTypes /\ CachesInv /\ OneRuns /\ \A r \in UnionRun : UnionRunInv(r)

LEMMA NamesShape ==
  ASSUME NEW n \in Names
  PROVE  DOMAIN n \in SUBSET UnionFile /\ n \in [DOMAIN n -> Nat]
  BY DEF Names

LEMMA NamesMake ==
  ASSUME NEW S \in SUBSET UnionFile, NEW n \in [S -> Nat]
  PROVE  n \in Names
  BY DEF Names

LEMMA NoName == <<>> \in Names /\ DOMAIN <<>> = {}
  <1>1. <<>> \in [{} -> Nat]
    OBVIOUS
  <1> QED BY <1>1, NamesMake

LEMMA FreshType ==
  /\ Union!Fresh \in UnionLocals /\ Union!Fresh.pc = "idle" /\ Union!Fresh.staged = <<>>
  BY NoName DEF Union!Fresh, UnionLocals

LEMMA FingerprintType ==
  ASSUME UnionTypes
  PROVE  /\ Union!Fingerprint \in Names /\ DOMAIN Union!Fingerprint = Union!Present
         /\ \A f \in Union!Present : Union!Fingerprint[f] = member[f] /\ member[f] # None
         /\ Union!Present \in SUBSET UnionFile
  <1>1. Union!Present \in SUBSET UnionFile /\ \A f \in Union!Present : member[f] \in Nat /\ member[f] # None
    BY DEF UnionTypes, Union!Present
  <1>2. Union!Fingerprint \in [Union!Present -> Nat]
    BY <1>1 DEF Union!Fingerprint
  <1> QED BY <1>1, <1>2, NamesMake DEF Union!Fingerprint

LEMMA UnionInit == ASSUME Union!Init PROVE UnionInv
  <1>1. /\ member = [f \in UnionFile |-> 1] /\ cache = <<>> /\ replaced = [r \in UnionRun |-> None]
        /\ union = [r \in UnionRun |-> Union!Fresh]
        /\ memberChanges = 0 /\ memberQuiet = [r \in UnionRun |-> TRUE]
    BY DEF Union!Init
  <1>2. UnionTypes
    <2>1. memberChanges \in 0 .. UnionChanges
      BY <1>1, UnionConstants
    <2>2. union \in [UnionRun -> UnionLocals]
      BY <1>1, FreshType
    <2>3. DOMAIN cache = {}
      BY <1>1
    <2> QED BY <1>1, <2>1, <2>2, <2>3 DEF UnionTypes
  <1>3. CachesInv
    BY <1>1 DEF CachesInv
  <1>4. \A r \in UnionRun : union[r].pc = "idle" /\ replaced[r] = None
    BY <1>1, FreshType
  <1>5. OneRuns /\ \A r \in UnionRun : UnionRunInv(r)
    BY <1>4 DEF OneRuns, UnionRunInv, Union!Running
  <1> QED BY <1>2, <1>3, <1>5 DEF UnionInv

\* A file gets a content that is newer than any, or goes away.
LEMMA FileChanges == ASSUME UnionInv, NEW g \in UnionFile, Union!ChangeFile(g) PROVE UnionInv'
  <1>1. /\ memberChanges < UnionChanges /\ memberChanges' = memberChanges + 1
        /\ memberQuiet' = [r \in UnionRun |-> FALSE] /\ UNCHANGED <<cache, replaced, union>>
        /\ member' = [member EXCEPT ![g] = memberChanges + 2] \/ member' = [member EXCEPT ![g] = None]
    BY DEF Union!ChangeFile
  <1>2. memberChanges \in Nat /\ UnionChanges \in Nat
    BY UnionConstants DEF UnionInv, UnionTypes
  <1>3. /\ member' \in [UnionFile -> Nat \cup {None}]
        /\ \A f \in UnionFile : member'[f] = member[f] \/ member'[f] = None \/ member'[f] = memberChanges + 2
    BY <1>1, <1>2 DEF UnionInv, UnionTypes
  <1>4. UnionTypes'
    BY <1>1, <1>2, <1>3 DEF UnionInv, UnionTypes
  <1>5. ASSUME NEW n \in Names, NEW R \in Names, ReadAfter(n, R) PROVE ReadAfter(n, R)'
    <2> SUFFICES ASSUME NEW f \in DOMAIN R
                 PROVE  /\ n[f] <= R[f] /\ R[f] <= memberChanges' + 1
                        /\ member'[f] # None => R[f] <= member'[f]
      BY DEF ReadAfter
    <2>1. R[f] \in Nat /\ f \in UnionFile
      BY NamesShape
    <2>2. n[f] <= R[f] /\ R[f] <= memberChanges + 1 /\ (member[f] # None => R[f] <= member[f])
      BY <1>5 DEF ReadAfter
    <2>3. R[f] <= memberChanges + 2
      BY <1>2, <2>1, <2>2
    <2> QED BY <1>1, <1>2, <1>3, <2>1, <2>2, <2>3
  <1>6. CachesInv'
    <2>1. ASSUME NEW f \in UnionFile, member'[f] # None PROVE member'[f] <= memberChanges' + 1
      <3>1. member[f] # None => member[f] <= memberChanges + 1 /\ member[f] \in Nat
        BY DEF UnionInv, CachesInv, UnionTypes
      <3> QED BY <1>1, <1>2, <1>3, <2>1, <3>1
    <2>2. ASSUME NEW n \in DOMAIN cache PROVE WholeUnion(n, cache[n].rows)'
      <3>1. n \in Names /\ cache[n].rows \in Names /\ WholeUnion(n, cache[n].rows)
        BY DEF UnionInv, UnionTypes, CachesInv, Caches
      <3>2. PICK R : R = cache[n].rows
        OBVIOUS
      <3>3. WholeUnion(n, R)'
        BY <1>5, <3>1, <3>2 DEF WholeUnion
      <3> QED BY <1>1, <3>2, <3>3 DEF WholeUnion
    <2> QED BY <1>1, <2>1, <2>2 DEF CachesInv
  <1>7. OneRuns'
    BY <1>1 DEF UnionInv, OneRuns
  <1>8. ASSUME NEW r \in UnionRun PROVE UnionRunInv(r)'
    <2>1. UnionRunInv(r) /\ union[r] \in UnionLocals /\ replaced[r] \in Caches \cup {None} /\ ~memberQuiet'[r]
      BY <1>1 DEF UnionInv, UnionTypes
    <2>2. union[r].name \in Names /\ union[r].staged \in Names
      BY <2>1 DEF UnionLocals
    <2>3. replaced[r] # None => WholeUnion(union[r].name, replaced[r].rows)'
      <3> SUFFICES ASSUME replaced[r] # None PROVE WholeUnion(union[r].name, replaced[r].rows)'
        OBVIOUS
      <3>1. PICK n, R : n = union[r].name /\ R = replaced[r].rows
        OBVIOUS
      <3>2. WholeUnion(n, R) /\ n \in Names /\ R \in Names
        BY <2>1, <2>2, <3>1 DEF UnionRunInv, Caches
      <3>3. WholeUnion(n, R)'
        BY <1>5, <3>2 DEF WholeUnion
      <3> QED BY <1>1, <3>1, <3>3
    <2>4. union[r].pc \in {"build", "swap"} => ReadAfter(union[r].name, union[r].staged)'
      <3> SUFFICES ASSUME union[r].pc \in {"build", "swap"} PROVE ReadAfter(union[r].name, union[r].staged)'
        OBVIOUS
      <3>1. PICK n, R : n = union[r].name /\ R = union[r].staged
        OBVIOUS
      <3>2. ReadAfter(n, R) /\ n \in Names /\ R \in Names
        BY <2>1, <2>2, <3>1 DEF UnionRunInv
      <3>3. ReadAfter(n, R)'
        BY <1>5, <3>2
      <3> QED BY <1>1, <3>1, <3>3
    <2>5. union[r].pc \in Union!Running =>
            \A f \in DOMAIN union[r].name :
              /\ union[r].name[f] <= memberChanges' + 1
              /\ member'[f] # None => union[r].name[f] <= member'[f]
      <3> SUFFICES ASSUME union[r].pc \in Union!Running, NEW f \in DOMAIN union[r].name
                   PROVE  /\ union[r].name[f] <= memberChanges' + 1
                          /\ member'[f] # None => union[r].name[f] <= member'[f]
        OBVIOUS
      <3>1. union[r].name[f] \in Nat /\ f \in UnionFile
        BY <2>2, NamesShape
      <3>2. union[r].name[f] <= memberChanges + 1 /\ (member[f] # None => union[r].name[f] <= member[f])
        BY <2>1 DEF UnionRunInv
      <3> QED BY <1>1, <1>2, <1>3, <3>1, <3>2
    <2> QED BY <1>1, <2>1, <2>3, <2>4, <2>5 DEF UnionRunInv, Union!Cached
  <1> QED BY <1>4, <1>6, <1>7, <1>8 DEF UnionInv

\* A step of a run while no other one is under way.
LEMMA RunAlone ==
  ASSUME UnionInv, NEW r \in UnionRun, \A q \in UnionRun \ {r} : union[q].pc \notin Union!Running,
         UNCHANGED <<member, memberChanges>>, UnionTypes',
         \A q \in UnionRun \ {r} : union'[q] = union[q] /\ replaced'[q] = replaced[q],
         \A n \in DOMAIN cache' : WholeUnion(n, cache'[n].rows), UnionRunInv(r)'
  PROVE  UnionInv'
  <1>1. \A n, R : WholeUnion(n, R)' <=> WholeUnion(n, R)
    BY DEF WholeUnion, ReadAfter
  <1>2. CachesInv'
    <2>1. \A n \in DOMAIN cache' : WholeUnion(n, cache[n].rows)'
      BY <1>1 DEF WholeUnion
    <2> QED BY <2>1 DEF UnionInv, CachesInv
  <1>3. OneRuns'
    BY DEF OneRuns
  <1>4. ASSUME NEW q \in UnionRun, q # r PROVE UnionRunInv(q)'
    <2>1. union'[q] = union[q] /\ replaced'[q] = replaced[q] /\ union[q].pc \notin Union!Running
      BY <1>4
    <2>2. UnionRunInv(q)
      BY DEF UnionInv
    <2>3. replaced[q] # None => WholeUnion(union[q].name, replaced[q].rows)'
      BY <1>1, <2>1, <2>2 DEF UnionRunInv, WholeUnion
    <2> QED BY <2>1, <2>2, <2>3 DEF UnionRunInv, Union!Running
  <1> QED BY <1>2, <1>3, <1>4 DEF UnionInv

\* A run that is under way is the only one.
LEMMA NoOther ==
  ASSUME UnionInv, NEW r \in UnionRun, union[r].pc \in Union!Running
  PROVE  \A q \in UnionRun \ {r} : union[q].pc \notin Union!Running
  BY DEF UnionInv, OneRuns

LEMMA RunFacts ==
  ASSUME UnionInv, NEW r \in UnionRun
  PROVE  /\ UnionRunInv(r) /\ union[r] \in UnionLocals /\ union[r].name \in Names /\ union[r].staged \in Names
         /\ union[r].todo \in SUBSET UnionFile
         /\ union \in [UnionRun -> UnionLocals] /\ replaced \in [UnionRun -> Caches \cup {None}]
         /\ memberQuiet \in [UnionRun -> BOOLEAN]
         /\ \A n \in DOMAIN cache : n \in Names /\ cache[n] \in Caches /\ WholeUnion(n, cache[n].rows)
  BY DEF UnionInv, UnionTypes, UnionLocals, CachesInv

LEMMA ListKeeps == ASSUME UnionInv, NEW r \in UnionRun, Union!List(r) PROVE UnionInv'
  <1> DEFINE l == [Union!Fresh EXCEPT !.pc = "validate", !.name = Union!Fingerprint]
  <1>1. /\ union[r].pc = "idle" /\ \A q \in UnionRun : union[q].pc \notin Union!Running
        /\ union' = [union EXCEPT ![r] = l] /\ memberQuiet' = [memberQuiet EXCEPT ![r] = TRUE]
        /\ UNCHANGED <<member, cache, replaced, memberChanges>>
    BY DEF Union!List, Union!At
  <1>2. /\ Union!Fingerprint \in Names /\ DOMAIN Union!Fingerprint = Union!Present
        /\ \A f \in Union!Present : Union!Fingerprint[f] = member[f] /\ member[f] # None
        /\ Union!Present \in SUBSET UnionFile
    BY FingerprintType DEF UnionInv
  <1>3. l \in UnionLocals /\ l.pc = "validate" /\ l.name = Union!Fingerprint /\ l.staged = <<>>
    BY <1>2, FreshType DEF UnionLocals, Union!Running
  <1> HIDE DEF l
  <1>4. UnionTypes'
    BY <1>1, <1>3 DEF UnionInv, UnionTypes
  <1>5. union'[r] = l /\ \A q \in UnionRun \ {r} : union'[q] = union[q]
    BY <1>1 DEF UnionInv, UnionTypes
  <1>6. \A f \in Union!Present : member[f] \in Nat /\ member[f] <= memberChanges + 1
    BY <1>2 DEF UnionInv, UnionTypes, CachesInv
  <1>7. Union!Fingerprint' = Union!Fingerprint
    BY <1>1 DEF Union!Fingerprint, Union!Present
  <1>8. UnionRunInv(r)'
    <2>1. replaced[r] = None
      BY <1>1 DEF UnionInv, UnionRunInv
    <2>2. \A f \in DOMAIN Union!Fingerprint :
            /\ Union!Fingerprint[f] <= memberChanges + 1
            /\ member[f] # None => Union!Fingerprint[f] <= member[f]
      BY <1>2, <1>6
    <2> QED BY <1>1, <1>3, <1>5, <1>7, <2>1, <2>2 DEF UnionRunInv
  <1> QED BY <1>1, <1>4, <1>5, <1>8, RunAlone, RunFacts

LEMMA ValidateUnion == ASSUME UnionInv, NEW r \in UnionRun, Union!Validate(r) PROVE UnionInv'
  <1> DEFINE n == union[r].name
             pc1 == IF Union!Cached(n) /\ cache[n].sealed THEN "use" ELSE "build"
  <1>1. /\ union[r].pc = "validate"
        /\ union' = [union EXCEPT ![r].pc = pc1, ![r].todo = DOMAIN n]
        /\ UNCHANGED <<member, cache, replaced, memberChanges, memberQuiet>>
    BY DEF Union!Validate, Union!At
  <1>2. /\ UnionRunInv(r) /\ union[r] \in UnionLocals /\ n \in Names /\ union \in [UnionRun -> UnionLocals]
        /\ \A m \in DOMAIN cache : WholeUnion(m, cache[m].rows)
    BY RunFacts
  <1>3. DOMAIN n \in SUBSET UnionFile
    BY <1>2, NamesShape
  <1>4. /\ union' \in [UnionRun -> UnionLocals] /\ union'[r].pc = pc1 /\ union'[r].todo = DOMAIN n
        /\ union'[r].name = n /\ union'[r].staged = union[r].staged
        /\ \A q \in UnionRun \ {r} : union'[q] = union[q]
    BY <1>1, <1>2, <1>3 DEF UnionLocals, Union!Running
  <1>5. UnionTypes'
    BY <1>1, <1>4 DEF UnionInv, UnionTypes
  <1>6. union[r].pc \in Union!Running /\ pc1 \in {"use", "build"}
    BY <1>1 DEF Union!Running
  <1>7. pc1 = "use" => Union!Cached(n) /\ cache[n].sealed
    OBVIOUS
  <1> HIDE DEF pc1
  <1>8. Union!Fingerprint' = Union!Fingerprint
    BY <1>1 DEF Union!Fingerprint, Union!Present
  <1>9. UnionRunInv(r)'
    <2>1. union[r].staged = <<>> /\ DOMAIN union[r].staged = {}
      BY <1>1, <1>2, NoName DEF UnionRunInv
    <2>2. replaced[r] # None => WholeUnion(n, replaced[r].rows)'
      BY <1>1, <1>2, <1>4 DEF UnionRunInv, WholeUnion, ReadAfter
    <2>3. ReadAfter(n, <<>>)'
      BY NoName DEF ReadAfter
    <2>4. (Union!Cached(union[r].name) /\ cache[union[r].name].sealed)' <=> Union!Cached(n) /\ cache[n].sealed
      BY <1>1, <1>4 DEF Union!Cached
    <2>5. ReadAfter(union[r].name, union[r].staged)'
      BY <1>4, <2>1, NoName DEF ReadAfter
    <2>6. \A f \in DOMAIN n : n[f] <= memberChanges + 1 /\ (member[f] # None => n[f] <= member[f])
      BY <1>2, <1>6 DEF UnionRunInv
    <2>7. memberQuiet[r] => n = Union!Fingerprint
      BY <1>2, <1>6 DEF UnionRunInv
    <2>8. replaced'[r] # None => WholeUnion(union[r].name, replaced[r].rows)'
      BY <1>1, <1>2, <1>4 DEF UnionRunInv, WholeUnion, ReadAfter
    <2> QED BY <1>1, <1>4, <1>6, <1>7, <1>8, <2>1, <2>4, <2>5, <2>6, <2>7, <2>8 DEF UnionRunInv
  <1> QED BY <1>1, <1>2, <1>4, <1>5, <1>6, <1>9, NoOther, RunAlone

LEMMA ReadFileKeeps ==
  ASSUME UnionInv, NEW r \in UnionRun, NEW f \in UnionFile, Union!ReadFile(r, f) PROVE UnionInv'
  <1> DEFINE n == union[r].name
             R == union[r].staged
             S == [g \in DOMAIN R \cup {f} |-> IF g = f THEN member[f] ELSE R[g]]
  <1>1. /\ union[r].pc = "build" /\ f \in union[r].todo /\ member[f] # None
        /\ union' = [union EXCEPT ![r].todo = union[r].todo \ {f}, ![r].staged = S]
        /\ UNCHANGED <<member, cache, replaced, memberChanges, memberQuiet>>
    BY RunFacts DEF Union!ReadFile, Union!At
  <1>2. /\ UnionRunInv(r) /\ union[r] \in UnionLocals /\ n \in Names /\ R \in Names
        /\ union \in [UnionRun -> UnionLocals] /\ union[r].todo \in SUBSET UnionFile
        /\ \A m \in DOMAIN cache : WholeUnion(m, cache[m].rows)
    BY RunFacts
  <1>3. member[f] \in Nat /\ member[f] <= memberChanges + 1
    BY <1>1 DEF UnionInv, UnionTypes, CachesInv
  <1>4. DOMAIN R \in SUBSET UnionFile /\ R \in [DOMAIN R -> Nat]
    BY <1>2, NamesShape
  <1>5. S \in [DOMAIN R \cup {f} -> Nat] /\ DOMAIN R \cup {f} \in SUBSET UnionFile
    BY <1>3, <1>4
  <1>6. S \in Names
    BY <1>5, NamesMake
  <1>7. union[r].pc \in Union!Running
    BY <1>1 DEF Union!Running
  <1>8. f \in DOMAIN n /\ n[f] <= member[f]
    BY <1>1, <1>2, <1>7 DEF UnionRunInv
  <1>9. ReadAfter(n, S)
    BY <1>1, <1>2, <1>3, <1>8 DEF UnionRunInv, ReadAfter
  <1>10. DOMAIN S = DOMAIN R \cup {f}
    OBVIOUS
  <1> HIDE DEF S
  <1>11. /\ union' \in [UnionRun -> UnionLocals] /\ union'[r].pc = "build" /\ union'[r].todo = union[r].todo \ {f}
         /\ union'[r].name = n /\ union'[r].staged = S
         /\ \A q \in UnionRun \ {r} : union'[q] = union[q]
    BY <1>1, <1>2, <1>6 DEF UnionLocals
  <1>12. UnionTypes'
    BY <1>1, <1>11 DEF UnionInv, UnionTypes
  <1>13. Union!Fingerprint' = Union!Fingerprint
    BY <1>1 DEF Union!Fingerprint, Union!Present
  <1>14. UnionRunInv(r)'
    <2>1. ReadAfter(union[r].name, union[r].staged)'
      BY <1>1, <1>9, <1>11 DEF ReadAfter
    <2>2. replaced'[r] # None => WholeUnion(union[r].name, replaced[r].rows)'
      BY <1>1, <1>2, <1>11 DEF UnionRunInv, WholeUnion, ReadAfter
    <2>3. \A g \in DOMAIN n : n[g] <= memberChanges + 1 /\ (member[g] # None => n[g] <= member[g])
      BY <1>2, <1>7 DEF UnionRunInv
    <2>4. memberQuiet[r] => n = Union!Fingerprint
      BY <1>2, <1>7 DEF UnionRunInv
    <2>5. (union[r].todo \ {f}) \cup DOMAIN S = DOMAIN n
      BY <1>1, <1>2, <1>10 DEF UnionRunInv
    <2> QED BY <1>1, <1>11, <1>13, <2>1, <2>2, <2>3, <2>4, <2>5 DEF UnionRunInv
  <1> QED BY <1>1, <1>2, <1>7, <1>11, <1>12, <1>14, NoOther, RunAlone

LEMMA UnionAside == ASSUME UnionInv, NEW r \in UnionRun, Union!PutAside(r) PROVE UnionInv'
  <1> DEFINE n == union[r].name
  <1>1. /\ union[r].pc = "build" /\ union[r].todo = {} /\ n \in DOMAIN cache
        /\ cache' = [m \in DOMAIN cache \ {n} |-> cache[m]] /\ replaced' = [replaced EXCEPT ![r] = cache[n]]
        /\ union' = [union EXCEPT ![r].pc = "swap"]
        /\ UNCHANGED <<member, memberChanges, memberQuiet>>
    BY DEF Union!PutAside, Union!At, Union!Goto, Union!Cached, Union!Without, Union!Restrict
  <1>2. /\ UnionRunInv(r) /\ union[r] \in UnionLocals /\ union \in [UnionRun -> UnionLocals]
        /\ replaced \in [UnionRun -> Caches \cup {None}]
        /\ \A m \in DOMAIN cache : m \in Names /\ cache[m] \in Caches /\ WholeUnion(m, cache[m].rows)
    BY RunFacts
  <1>3. /\ union' \in [UnionRun -> UnionLocals] /\ union'[r].pc = "swap" /\ union'[r].todo = {}
        /\ union'[r].name = n /\ union'[r].staged = union[r].staged
        /\ \A q \in UnionRun \ {r} : union'[q] = union[q] /\ replaced'[q] = replaced[q]
    BY <1>1, <1>2 DEF UnionLocals, Union!Running
  <1>4. DOMAIN cache' = DOMAIN cache \ {n} /\ \A m \in DOMAIN cache' : cache'[m] = cache[m]
    BY <1>1
  <1>5. replaced' \in [UnionRun -> Caches \cup {None}] /\ replaced'[r] = cache[n]
    BY <1>1, <1>2
  <1>6. UnionTypes'
    BY <1>1, <1>2, <1>3, <1>4, <1>5 DEF UnionInv, UnionTypes
  <1>7. union[r].pc \in Union!Running
    BY <1>1 DEF Union!Running
  <1>8. Union!Fingerprint' = Union!Fingerprint
    BY <1>1 DEF Union!Fingerprint, Union!Present
  <1>9. UnionRunInv(r)'
    <2>1. ReadAfter(union[r].name, union[r].staged)'
      BY <1>1, <1>2, <1>3 DEF UnionRunInv, ReadAfter
    <2>2. WholeUnion(union[r].name, replaced[r].rows)'
      BY <1>1, <1>2, <1>3, <1>5 DEF WholeUnion, ReadAfter
    <2>3. \A g \in DOMAIN n : n[g] <= memberChanges + 1 /\ (member[g] # None => n[g] <= member[g])
      BY <1>2, <1>7 DEF UnionRunInv
    <2>4. memberQuiet[r] => n = Union!Fingerprint
      BY <1>2, <1>7 DEF UnionRunInv
    <2>5. DOMAIN union[r].staged = DOMAIN n
      BY <1>1, <1>2 DEF UnionRunInv
    <2> QED BY <1>1, <1>3, <1>8, <2>1, <2>2, <2>3, <2>4, <2>5 DEF UnionRunInv
  <1> QED BY <1>1, <1>2, <1>3, <1>4, <1>6, <1>7, <1>9, NoOther, RunAlone

LEMMA UnionSwaps == ASSUME UnionInv, NEW r \in UnionRun, Union!SwapIn(r) PROVE UnionInv'
  <1> DEFINE n == union[r].name
             d == [rows |-> union[r].staged, sealed |-> FALSE]
  <1>1. /\ union[r].pc = "swap" \/ (union[r].pc = "build" /\ union[r].todo = {})
        /\ cache' = [m \in DOMAIN cache \cup {n} |-> IF m = n THEN d ELSE cache[m]]
        /\ union' = [union EXCEPT ![r].pc = "drop"]
        /\ UNCHANGED <<member, replaced, memberChanges, memberQuiet>>
    BY DEF Union!SwapIn, Union!At, Union!Goto, Union!With
  <1>2. /\ UnionRunInv(r) /\ union[r] \in UnionLocals /\ union \in [UnionRun -> UnionLocals]
        /\ n \in Names /\ union[r].staged \in Names
        /\ \A m \in DOMAIN cache : m \in Names /\ cache[m] \in Caches /\ WholeUnion(m, cache[m].rows)
    BY RunFacts
  <1>3. /\ union' \in [UnionRun -> UnionLocals] /\ union'[r].pc = "drop"
        /\ union'[r].name = n
        /\ \A q \in UnionRun \ {r} : union'[q] = union[q]
    BY <1>1, <1>2 DEF UnionLocals, Union!Running
  <1>4. d \in Caches /\ d.rows = union[r].staged
    BY <1>2 DEF Caches
  <1>5. union[r].pc \in {"build", "swap"} /\ union[r].todo = {}
    BY <1>1, <1>2 DEF UnionRunInv
  <1>6. WholeUnion(n, d.rows)
    BY <1>2, <1>4, <1>5 DEF UnionRunInv, WholeUnion
  <1> HIDE DEF d
  <1>7. DOMAIN cache' = DOMAIN cache \cup {n} /\ cache'[n] = d /\ \A m \in DOMAIN cache' \ {n} : cache'[m] = cache[m]
    BY <1>1
  <1>8. /\ \A m \in DOMAIN cache' : WholeUnion(m, cache'[m].rows)
        /\ DOMAIN cache' \subseteq Names /\ \A m \in DOMAIN cache' : cache'[m] \in Caches
    BY <1>2, <1>4, <1>6, <1>7
  <1>9. UnionTypes'
    BY <1>1, <1>3, <1>8 DEF UnionInv, UnionTypes
  <1>10. union[r].pc \in Union!Running
    BY <1>5 DEF Union!Running
  <1>11. Union!Fingerprint' = Union!Fingerprint
    BY <1>1 DEF Union!Fingerprint, Union!Present
  <1>12. UnionRunInv(r)'
    <2>2. replaced'[r] # None => WholeUnion(union[r].name, replaced[r].rows)'
      BY <1>1, <1>2, <1>3 DEF UnionRunInv, WholeUnion, ReadAfter
    <2>3. \A g \in DOMAIN n : n[g] <= memberChanges + 1 /\ (member[g] # None => n[g] <= member[g])
      BY <1>2, <1>10 DEF UnionRunInv
    <2>4. memberQuiet[r] => n = Union!Fingerprint
      BY <1>2, <1>10 DEF UnionRunInv
    <2> QED BY <1>1, <1>3, <1>11, <2>2, <2>3, <2>4 DEF UnionRunInv
  <1> QED BY <1>1, <1>3, <1>8, <1>9, <1>10, <1>12, NoOther, RunAlone

LEMMA UnionDrops == ASSUME UnionInv, NEW r \in UnionRun, Union!DropBackup(r) PROVE UnionInv'
  <1>1. /\ union[r].pc = "drop" /\ replaced' = [replaced EXCEPT ![r] = None]
        /\ union' = [union EXCEPT ![r].pc = "refresh"]
        /\ UNCHANGED <<member, cache, memberChanges, memberQuiet>>
    BY DEF Union!DropBackup, Union!At, Union!Goto
  <1>2. /\ UnionRunInv(r) /\ union \in [UnionRun -> UnionLocals]
        /\ replaced \in [UnionRun -> Caches \cup {None}]
        /\ \A m \in DOMAIN cache : WholeUnion(m, cache[m].rows)
    BY RunFacts
  <1>3. /\ union' \in [UnionRun -> UnionLocals] /\ union'[r].pc = "refresh" /\ union'[r].name = union[r].name
        /\ replaced' \in [UnionRun -> Caches \cup {None}] /\ replaced'[r] = None
        /\ \A q \in UnionRun \ {r} : union'[q] = union[q] /\ replaced'[q] = replaced[q]
    BY <1>1, <1>2 DEF UnionLocals, Union!Running
  <1>4. UnionTypes'
    BY <1>1, <1>3 DEF UnionInv, UnionTypes
  <1>5. union[r].pc \in Union!Running
    BY <1>1 DEF Union!Running
  <1>6. Union!Fingerprint' = Union!Fingerprint
    BY <1>1 DEF Union!Fingerprint, Union!Present
  <1>7. UnionRunInv(r)'
    BY <1>1, <1>2, <1>3, <1>5, <1>6 DEF UnionRunInv
  <1> QED BY <1>1, <1>2, <1>3, <1>4, <1>5, <1>7, NoOther, RunAlone

LEMMA UnionRefreshes == ASSUME UnionInv, NEW r \in UnionRun, Union!Refresh(r) PROVE UnionInv'
  <1> DEFINE n == union[r].name
  <1>1. /\ union[r].pc = "refresh" /\ n \in DOMAIN cache /\ cache' = [cache EXCEPT ![n].sealed = TRUE]
        /\ union' = [union EXCEPT ![r].pc = "use"]
        /\ UNCHANGED <<member, replaced, memberChanges, memberQuiet>>
    BY DEF Union!Refresh, Union!At, Union!Goto, Union!Cached
  <1>2. /\ UnionRunInv(r) /\ union \in [UnionRun -> UnionLocals]
        /\ \A m \in DOMAIN cache : m \in Names /\ cache[m] \in Caches /\ WholeUnion(m, cache[m].rows)
    BY RunFacts
  <1>3. /\ union' \in [UnionRun -> UnionLocals] /\ union'[r].pc = "use" /\ union'[r].name = n
        /\ \A q \in UnionRun \ {r} : union'[q] = union[q]
    BY <1>1, <1>2 DEF UnionLocals, Union!Running
  <1>4. /\ DOMAIN cache' = DOMAIN cache
        /\ \A m \in DOMAIN cache : cache'[m] \in Caches /\ cache'[m].rows = cache[m].rows
        /\ cache'[n].sealed
    BY <1>1, <1>2 DEF Caches
  <1>5. UnionTypes'
    BY <1>1, <1>2, <1>3, <1>4 DEF UnionInv, UnionTypes
  <1>6. union[r].pc \in Union!Running
    BY <1>1 DEF Union!Running
  <1>7. Union!Fingerprint' = Union!Fingerprint
    BY <1>1 DEF Union!Fingerprint, Union!Present
  <1>8. UnionRunInv(r)'
    <2>1. replaced'[r] # None => WholeUnion(union[r].name, replaced[r].rows)'
      BY <1>1, <1>2, <1>3 DEF UnionRunInv, WholeUnion, ReadAfter
    <2>2. Union!Cached(union[r].name)' /\ (cache[union[r].name].sealed)'
      BY <1>1, <1>3, <1>4 DEF Union!Cached
    <2> QED BY <1>1, <1>2, <1>3, <1>6, <1>7, <2>1, <2>2 DEF UnionRunInv
  <1> QED BY <1>1, <1>2, <1>3, <1>4, <1>5, <1>6, <1>8, NoOther, RunAlone

\* A run ends; what it had put aside may be the cache again.
LEMMA UnionEnds ==
  ASSUME UnionInv, NEW r \in UnionRun, Union!Finish(r) \/ Union!Die(r) \/ Union!Fail(r) PROVE UnionInv'
  <1> DEFINE n == union[r].name
             d == replaced[r]
  <1>1. /\ union[r].pc \in Union!Running /\ union' = [union EXCEPT ![r].pc = "end"]
        /\ replaced' \in {replaced, [replaced EXCEPT ![r] = None]}
        /\ \/ UNCHANGED cache
           \/ d # None /\ cache' = [m \in DOMAIN cache \cup {n} |-> IF m = n THEN d ELSE cache[m]]
        /\ UNCHANGED <<member, memberChanges, memberQuiet>>
    BY DEF Union!Finish, Union!Die, Union!Fail, Union!At, Union!Goto, Union!With, Union!Running
  <1>2. /\ UnionRunInv(r) /\ union \in [UnionRun -> UnionLocals] /\ n \in Names
        /\ replaced \in [UnionRun -> Caches \cup {None}]
        /\ \A m \in DOMAIN cache : m \in Names /\ cache[m] \in Caches /\ WholeUnion(m, cache[m].rows)
    BY RunFacts
  <1>3. /\ union' \in [UnionRun -> UnionLocals] /\ union'[r].pc = "end" /\ union'[r].name = n
        /\ replaced' \in [UnionRun -> Caches \cup {None}] /\ replaced'[r] \in {d, None}
        /\ \A q \in UnionRun \ {r} : union'[q] = union[q] /\ replaced'[q] = replaced[q]
    BY <1>1, <1>2 DEF UnionLocals, Union!Running
  <1>4. d # None => d \in Caches /\ WholeUnion(n, d.rows)
    BY <1>2 DEF UnionRunInv
  <1>5. /\ \A m \in DOMAIN cache' : WholeUnion(m, cache'[m].rows)
        /\ DOMAIN cache' \subseteq Names /\ \A m \in DOMAIN cache' : cache'[m] \in Caches
    <2>1. CASE UNCHANGED cache
      BY <1>2, <2>1
    <2>2. CASE d # None /\ cache' = [m \in DOMAIN cache \cup {n} |-> IF m = n THEN d ELSE cache[m]]
      <3>1. DOMAIN cache' = DOMAIN cache \cup {n} /\ cache'[n] = d /\ \A m \in DOMAIN cache' \ {n} : cache'[m] = cache[m]
        BY <2>2
      <3> QED BY <1>2, <1>4, <2>2, <3>1
    <2> QED BY <1>1, <2>1, <2>2
  <1>6. UnionTypes'
    BY <1>1, <1>3, <1>5 DEF UnionInv, UnionTypes
  <1>7. UnionRunInv(r)'
    <2>1. replaced'[r] # None => WholeUnion(union[r].name, replaced[r].rows)'
      BY <1>1, <1>3, <1>4 DEF WholeUnion, ReadAfter
    <2> QED BY <1>3, <2>1 DEF UnionRunInv, Union!Running
  <1> QED BY <1>1, <1>3, <1>5, <1>6, <1>7, NoOther, RunAlone

LEMMA UnionStutters == ASSUME UnionInv, UNCHANGED unionVars PROVE UnionInv'
  <1>1. UNCHANGED <<member, cache, replaced, union, memberChanges, memberQuiet>>
    BY DEF unionVars
  <1>2. UnionTypes'
    BY <1>1 DEF UnionInv, UnionTypes
  <1>3. CachesInv' /\ OneRuns'
    BY <1>1 DEF UnionInv, CachesInv, OneRuns, WholeUnion, ReadAfter
  <1>4. ASSUME NEW r \in UnionRun PROVE UnionRunInv(r)'
    <2>1. Union!Fingerprint' = Union!Fingerprint
      BY <1>1 DEF Union!Fingerprint, Union!Present
    <2> QED BY <1>1, <2>1 DEF UnionInv, UnionRunInv, WholeUnion, ReadAfter, Union!Cached
  <1> QED BY <1>2, <1>3, <1>4 DEF UnionInv

LEMMA UnionStep == ASSUME UnionInv, Union!Next PROVE UnionInv'
  BY FileChanges, ListKeeps, ValidateUnion, ReadFileKeeps, UnionAside, UnionSwaps, UnionDrops,
     UnionRefreshes, UnionEnds
     DEF Union!Next

LEMMA UnionTellsTruth == ASSUME UnionInv PROVE Union!TypeOK /\ Union!UnionIsExact
  <1>1. Union!TypeOK
    <2>1. \A n \in DOMAIN cache : cache[n].sealed \in BOOLEAN /\ DOMAIN cache[n].rows \subseteq UnionFile
      BY NamesShape DEF UnionInv, UnionTypes, Caches
    <2> QED BY <2>1 DEF UnionInv, UnionTypes, UnionLocals, Union!TypeOK
  <1>2. ASSUME NEW r \in UnionRun, union[r].pc = "use"
        PROVE  /\ Union!Cached(union[r].name) /\ cache[union[r].name].sealed
               /\ memberQuiet[r] => cache[union[r].name].rows = [f \in Union!Present |-> member[f]]
    <2> DEFINE n == union[r].name
               R == cache[n].rows
    <2>1. Union!Cached(n) /\ cache[n].sealed /\ union[r].pc \in Union!Running
      BY <1>2 DEF UnionInv, UnionRunInv, Union!Running
    <2>2. ASSUME memberQuiet[r] PROVE R = [f \in Union!Present |-> member[f]]
      <3>1. n = Union!Fingerprint /\ n \in DOMAIN cache
        BY <2>1, <2>2 DEF UnionInv, UnionRunInv, Union!Cached
      <3>2. R \in Names /\ WholeUnion(n, R)
        BY <3>1, RunFacts DEF Caches
      <3>3. /\ DOMAIN n = Union!Present /\ Union!Present \in SUBSET UnionFile
            /\ \A f \in Union!Present : n[f] = member[f] /\ member[f] # None
        BY <3>1, FingerprintType DEF UnionInv
      <3>4. R \in [DOMAIN R -> Nat]
        BY <3>2, NamesShape
      <3>5. ASSUME NEW f \in Union!Present PROVE R[f] = member[f]
        <4>1. n[f] <= R[f] /\ R[f] <= member[f]
          BY <3>2, <3>3 DEF WholeUnion, ReadAfter
        <4>2. R[f] \in Nat /\ member[f] \in Nat
          BY <3>2, <3>3, <3>4 DEF WholeUnion, UnionInv, UnionTypes
        <4> QED BY <3>3, <4>1, <4>2
      <3>6. DOMAIN R = Union!Present
        BY <3>2, <3>3 DEF WholeUnion
      <3> HIDE DEF R
      <3> QED BY <3>4, <3>5, <3>6
    <2> QED BY <2>1, <2>2
  <1> QED BY <1>1, <1>2 DEF Union!UnionIsExact, Union!At

-----------------------------------------------------------------------------
(* The collection of a source.  What was collected last is kept by something   *)
(* that is not about to be removed; and as long as no other run is at work,    *)
(* the step a task has reached says what its output and its backups are.       *)

TaskStates == {"none", "queued", "lost"} \cup Collected!Active \cup Collected!Ended
Backups == [run : Collected!Run, task : Collected!Task, attempt : 1 .. SourceAttempts, holds : 0 .. SourceRuns]

CollectionTypes ==
  /\ mode \in SourceModes
  /\ collection \in [Collected!Task -> 0 .. SourceRuns] /\ newest \in [Collected!Task -> 0 .. SourceRuns]
  /\ aside \subseteq Backups
  /\ staged \subseteq Collected!Run \X Collected!Task /\ shared \in BOOLEAN /\ (staged # {} => shared)
  /\ catalog = None \/ catalog \subseteq Collected!Task
  /\ runPc \in [Collected!Run -> {"idle", "run", "done", "raised", "dead"}]
  /\ at \in [Collected!Run -> [Collected!Task -> TaskStates]]
  /\ attempt \in [Collected!Run -> [Collected!Task -> 0 .. SourceAttempts]]
  /\ moved \in [Collected!Run -> [Collected!Task -> BOOLEAN]]
  /\ before \in [Collected!Run -> [Collected!Task -> 0 .. SourceRuns]]

AttemptOf(r, t) ==
  /\ at[r][t] \in Collected!Active => attempt[r][t] > 0
  /\ at[r][t] = "again" => attempt[r][t] < SourceAttempts
  /\ moved[r][t] => at[r][t] \in Collected!Active
  /\ t \notin Collected!Selected => at[r][t] = "none"

AttemptsInv == \A r \in Collected!Run, t \in Collected!Task : AttemptOf(r, t)

\* A backup that its task is about to remove.
Dropping(b) == at[b.run][b.task] = "drop" /\ attempt[b.run][b.task] = b.attempt

LossOf(t) ==
  newest[t] # 0 =>
    collection[t] = newest[t] \/ \E b \in aside : b.task = t /\ b.holds = newest[t] /\ ~Dropping(b)

LossInv == \A t \in Collected!Task : LossOf(t)

Started(r) == runPc[r] # "idle"
AtWork(r) == runPc[r] = "run" \/ \E t \in Collected!Task : at[r][t] \in Collected!Active
Latest(r) == Started(r) /\ \A q \in Collected!Run : q > r => ~Started(q)

OrderInv ==
  /\ \A q, r \in Collected!Run : q < r /\ Started(r) =>
       Started(q) /\ (mode.overlap \/ ~AtWork(q))
  /\ \A r \in Collected!Run : ~Started(r) =>
       (\A t \in Collected!Task : at[r][t] = "none") /\ \A b \in aside : b.run # r
  /\ \A r \in Collected!Run : runPc[r] = "done" => ~AtWork(r) /\ \A t \in Collected!Task : at[r][t] # "lost"

Mine(r, t) == {b \in aside : b.run = r /\ b.task = t}

\* What becomes of the output if the attempt under way fails.
Broken(r, t) == \E b \in Mine(r, t) : b.holds = 0
Otherwise(r, t) == IF Broken(r, t) THEN r ELSE before[r][t]

TaskInv(r, t) ==
  /\ at[r][t] \in {"none", "queued"} => Mine(r, t) = {} /\ collection[t] = before[r][t]
  /\ at[r][t] \in {"make", "leaf", "call", "commit", "aside"} =>
       ~moved[r][t] /\ collection[t] = Otherwise(r, t) /\ \A b \in Mine(r, t) : b.attempt < attempt[r][t]
  /\ at[r][t] = "aside" => collection[t] # 0
  /\ at[r][t] \in {"swap", "restore"} =>
       /\ collection[t] = 0 /\ (moved[r][t] <=> Otherwise(r, t) # 0)
       /\ moved[r][t] => Collected!Named(r, t, Otherwise(r, t)) \in aside
       /\ \A b \in Mine(r, t) :
            b.attempt < attempt[r][t] \/ (moved[r][t] /\ b = Collected!Named(r, t, Otherwise(r, t)))
  /\ at[r][t] \in {"drop", "cleanup", "ok"} => collection[t] = r
  /\ at[r][t] \in {"again", "giveup", "error"} => collection[t] = Otherwise(r, t)
  /\ at[r][t] \in {"drop", "again", "giveup"} => \A b \in Mine(r, t) : b.attempt <= attempt[r][t]

LatestInv ==
  ~mode.overlap => \A r \in Collected!Run : Latest(r) =>
    /\ \A t \in Collected!Task : TaskInv(r, t)
    /\ runPc[r] = "done" => catalog = {t \in Collected!Task : collection[t] # 0}

CollectionInv == CollectionTypes /\ AttemptsInv /\ LossInv /\ OrderInv /\ LatestInv
-----------------------------------------------------------------------------
\* A step of one task of one run leaves alone what the others have.
Others(r, t) ==
  /\ \A q \in Collected!Run, u \in Collected!Task : q # r \/ u # t =>
       at'[q][u] = at[q][u] /\ attempt'[q][u] = attempt[q][u] /\ moved'[q][u] = moved[q][u]
  /\ \A u \in Collected!Task : u # t => collection'[u] = collection[u] /\ newest'[u] = newest[u]
  /\ \A b \in aside \cup aside' : b.run # r \/ b.task # t => (b \in aside /\ b \in aside')
  /\ mode' = mode /\ catalog' = catalog /\ runPc' = runPc /\ before' = before

\* What Collected!Task and its like name does not change with the step.
LEMMA SameTasks ==
  ASSUME mode' = mode
  PROVE  /\ Collected!Task' = Collected!Task /\ Collected!Selected' = Collected!Selected
         /\ Backups' = Backups /\ mode.overlap' = mode.overlap
BY DEF Collected!Task, Collected!Selected, Backups

\* The run of an active task has begun.
LEMMA WorkIsStarted ==
  ASSUME CollectionInv, NEW r \in Collected!Run, AtWork(r)
  PROVE  Started(r) /\ runPc[r] # "done"
BY DEF CollectionInv, OrderInv, AtWork, Started, Collected!Active

\* What was collected of the other tasks is kept.
LEMMA OtherLoss ==
  ASSUME CollectionInv, NEW r \in Collected!Run, NEW t \in Collected!Task, Others(r, t), CollectionTypes',
         NEW u \in Collected!Task, u # t
  PROVE  LossOf(u)'
<1>1. newest'[u] = newest[u] /\ collection'[u] = collection[u]
  BY DEF Others
<1>2. ASSUME NEW b \in aside, b.task = u, b.holds = newest[u], ~Dropping(b)
      PROVE  b \in aside' /\ ~Dropping(b)'
  <2>1. b \in aside'
    BY <1>2 DEF Others
  <2>2. b.run \in Collected!Run
    BY DEF CollectionInv, CollectionTypes, Backups
  <2>3. at'[b.run][b.task] = at[b.run][b.task] /\ attempt'[b.run][b.task] = attempt[b.run][b.task]
    BY <2>2, <1>2 DEF Others
  <2> QED
    BY <2>1, <2>3, <1>2 DEF Dropping
<1>3. LossOf(u)
  BY DEF CollectionInv, LossInv
<1>4. CASE newest[u] # 0 /\ collection[u] # newest[u]
  <2>1. PICK b \in aside : b.task = u /\ b.holds = newest[u] /\ ~Dropping(b)
    BY <1>3, <1>4 DEF LossOf
  <2> QED
    BY <2>1, <1>2, <1>1 DEF LossOf
<1>5. CASE ~(newest[u] # 0 /\ collection[u] # newest[u])
  BY <1>5, <1>1 DEF LossOf
<1> QED
  BY <1>4, <1>5

\* The order of the runs is kept by the step of a task whose run is at work.
LEMMA OrderKept ==
  ASSUME CollectionInv, NEW r \in Collected!Run, NEW t \in Collected!Task, AtWork(r), Others(r, t)
  PROVE  OrderInv'
<1>0. Collected!Task' = Collected!Task /\ runPc' = runPc /\ mode' = mode
  BY SameTasks DEF Others
<1>1. Started(r) /\ runPc[r] # "done"
  BY WorkIsStarted
<1>2. ASSUME NEW q \in Collected!Run
      PROVE  (Started(q))' <=> Started(q)
  BY <1>0 DEF Started
<1>3. ASSUME NEW q \in Collected!Run, q # r
      PROVE  /\ AtWork(q)' <=> AtWork(q)
             /\ \A u \in Collected!Task : at'[q][u] = at[q][u]
  BY <1>3, <1>0 DEF Others, AtWork
<1>4. ASSUME NEW q \in Collected!Run, NEW s \in Collected!Run, q < s, Started(s)'
      PROVE  Started(q)' /\ (mode'.overlap \/ ~AtWork(q)')
  <2>1. Started(q) /\ (mode.overlap \/ ~AtWork(q))
    BY <1>4, <1>2 DEF CollectionInv, OrderInv
  <2>2. q # r \/ mode.overlap
    BY <2>1
  <2> QED
    BY <2>1, <2>2, <1>2, <1>3, <1>0
<1>5. ASSUME NEW q \in Collected!Run, ~Started(q)'
      PROVE  (\A u \in Collected!Task : at'[q][u] = "none") /\ \A b \in aside' : b.run # q
  <2>1. q # r /\ ~Started(q)
    BY <1>5, <1>1, <1>2
  <2>2. (\A u \in Collected!Task : at[q][u] = "none") /\ \A b \in aside : b.run # q
    BY <2>1 DEF CollectionInv, OrderInv
  <2>3. \A b \in aside' : b.run # q
    BY <2>1, <2>2 DEF Others
  <2> QED
    BY <2>1, <2>2, <2>3, <1>3
<1>6. ASSUME NEW q \in Collected!Run, runPc'[q] = "done"
      PROVE  ~AtWork(q)' /\ \A u \in Collected!Task : at'[q][u] # "lost"
  <2>1. q # r
    BY <1>6, <1>1, <1>0
  <2>2. ~AtWork(q) /\ \A u \in Collected!Task : at[q][u] # "lost"
    BY <1>6, <1>0 DEF CollectionInv, OrderInv
  <2> QED
    BY <2>1, <2>2, <1>3
<1>7. OrderInv' <=>
        /\ \A q, s \in Collected!Run : q < s /\ Started(s)' =>
             Started(q)' /\ (mode'.overlap \/ ~AtWork(q)')
        /\ \A q \in Collected!Run : ~Started(q)' =>
             (\A u \in Collected!Task : at'[q][u] = "none") /\ \A b \in aside' : b.run # q
        /\ \A q \in Collected!Run : runPc'[q] = "done" =>
             ~AtWork(q)' /\ \A u \in Collected!Task : at'[q][u] # "lost"
  BY <1>0 DEF OrderInv
<1> QED
  BY <1>4, <1>5, <1>6, <1>7

\* The other tasks of the latest run stand where they stood.
LEMMA OtherTasks ==
  ASSUME CollectionTypes, CollectionTypes', NEW r \in Collected!Run, NEW t \in Collected!Task, Others(r, t),
         NEW u \in Collected!Task, u # t, TaskInv(r, u)
  PROVE  TaskInv(r, u)'
<1>1. /\ at'[r][u] = at[r][u] /\ attempt'[r][u] = attempt[r][u] /\ moved'[r][u] = moved[r][u]
      /\ collection'[u] = collection[u] /\ before' = before
  BY DEF Others
<1>2. Mine(r, u)' = Mine(r, u)
  BY DEF Others, Mine
<1>3. Broken(r, u)' <=> Broken(r, u)
  BY <1>2 DEF Broken
<1>4. Otherwise(r, u)' = Otherwise(r, u)
  BY <1>1, <1>3 DEF Otherwise
<1>5. PICK o : o = Otherwise(r, u)
  OBVIOUS
<1>6. Otherwise(r, u)' = o
  BY <1>4, <1>5
<1>7. Collected!Named(r, u, o)' = Collected!Named(r, u, o) /\ Collected!Named(r, u, o).run = r
      /\ Collected!Named(r, u, o).task = u
  BY <1>1 DEF Collected!Named
<1>8. Collected!Named(r, u, o) \in aside' <=> Collected!Named(r, u, o) \in aside
  BY <1>7 DEF Others
<1> HIDE DEF Otherwise, Mine
<1> QED
  BY <1>1, <1>2, <1>5, <1>6, <1>7, <1>8 DEF TaskInv

\* So a step of a task keeps the invariant if it keeps the task's part of it.
LEMMA TaskStepKeeps ==
  ASSUME CollectionInv, NEW r \in Collected!Run, NEW t \in Collected!Task, AtWork(r), Others(r, t),
         CollectionTypes', AttemptOf(r, t)', LossOf(t)', TaskInv(r, t) => TaskInv(r, t)'
  PROVE  CollectionInv'
<1>0. Collected!Task' = Collected!Task /\ Collected!Selected' = Collected!Selected /\ runPc' = runPc
      /\ mode' = mode /\ catalog' = catalog
  BY SameTasks DEF Others
<1>1. AttemptsInv'
  <2>1. ASSUME NEW q \in Collected!Run, NEW u \in Collected!Task
        PROVE  AttemptOf(q, u)'
    <3>1. CASE q = r /\ u = t
      BY <3>1
    <3>2. CASE q # r \/ u # t
      <4>1. AttemptOf(q, u)
        BY DEF CollectionInv, AttemptsInv
      <4> QED
        BY <4>1, <3>2, <1>0 DEF AttemptOf, Others
    <3> QED
      BY <3>1, <3>2
  <2> QED
    BY <2>1, <1>0 DEF AttemptsInv
<1>2. LossInv'
  BY OtherLoss, <1>0 DEF LossInv
<1>3. OrderInv'
  BY OrderKept
<1>4. LatestInv'
  <2>1. ASSUME ~mode'.overlap, NEW q \in Collected!Run, Latest(q)'
        PROVE  (\A u \in Collected!Task : TaskInv(q, u)') /\ runPc'[q] # "done"
    <3>1. Latest(q) /\ ~mode.overlap
      BY <2>1, <1>0 DEF Latest, Started
    <3>2. Started(r) /\ runPc[r] # "done"
      BY WorkIsStarted
    <3>3. q = r
      <4>1. ~(r > q)
        BY <3>1, <3>2 DEF Latest
      <4>2. ~(r < q)
        BY <3>1 DEF Latest, CollectionInv, OrderInv
      <4> QED
        BY <4>1, <4>2, CollectionConstants DEF Collected!Run, Collected!CollectionAssumption
    <3>4. \A u \in Collected!Task : TaskInv(r, u)
      BY <3>1, <3>3 DEF CollectionInv, LatestInv
    <3>5. \A u \in Collected!Task : TaskInv(r, u)'
      <4> TAKE u \in Collected!Task
      <4>1. CASE u = t
        BY <4>1, <3>4
      <4>2. CASE u # t
        BY <4>2, <3>4, OtherTasks DEF CollectionInv
      <4> QED
        BY <4>1, <4>2
    <3> QED
      BY <3>2, <3>3, <3>5, <1>0
  <2> QED
    BY <2>1, <1>0 DEF LatestInv
<1> QED
  BY <1>1, <1>2, <1>3, <1>4 DEF CollectionInv
-----------------------------------------------------------------------------
\* The numbers and the states the proofs of the steps reason with.
LEMMA TaskTypes ==
  ASSUME CollectionInv, NEW r \in Collected!Run, NEW t \in Collected!Task
  PROVE  /\ at[r][t] \in TaskStates /\ attempt[r][t] \in Nat /\ moved[r][t] \in BOOLEAN
         /\ at \in [Collected!Run -> [Collected!Task -> TaskStates]]
         /\ attempt \in [Collected!Run -> [Collected!Task -> 0 .. SourceAttempts]]
         /\ moved \in [Collected!Run -> [Collected!Task -> BOOLEAN]]
         /\ r \in Nat \ {0} /\ r \in 0 .. SourceRuns /\ SourceAttempts \in Nat \ {0} /\ SourceRuns \in Nat
         /\ collection \in [Collected!Task -> 0 .. SourceRuns] /\ newest \in [Collected!Task -> 0 .. SourceRuns]
         /\ collection[t] \in Nat /\ newest[t] \in Nat
         /\ \A b \in aside : b \in Backups /\ b.attempt \in Nat /\ b.holds \in Nat
         /\ AttemptOf(r, t) /\ LossOf(t)
<1>1. SourceRuns \in Nat /\ SourceAttempts \in Nat \ {0}
  BY CollectionConstants DEF Collected!CollectionAssumption
<1>2. CollectionTypes /\ AttemptOf(r, t) /\ LossOf(t)
  BY DEF CollectionInv, AttemptsInv, LossInv
<1>3. r \in Nat \ {0} /\ r \in 0 .. SourceRuns
  BY <1>1 DEF Collected!Run
<1>4. at[r][t] \in TaskStates /\ attempt[r][t] \in 0 .. SourceAttempts /\ moved[r][t] \in BOOLEAN
  BY <1>2 DEF CollectionTypes
<1>5. collection[t] \in 0 .. SourceRuns /\ newest[t] \in 0 .. SourceRuns
  BY <1>2 DEF CollectionTypes
<1>6. \A b \in aside : b \in Backups /\ b.attempt \in Nat /\ b.holds \in Nat
  BY <1>1, <1>2 DEF CollectionTypes, Backups
<1> QED
  BY <1>1, <1>2, <1>3, <1>4, <1>5, <1>6 DEF CollectionTypes

\* A task that only goes to another step of its own, with all on disk as it was.
LEMMA GotoKeeps ==
  ASSUME CollectionInv, NEW r \in Collected!Run, NEW t \in Collected!Task, AtWork(r),
         NEW p \in TaskStates, Collected!Goto(r, t, p), p # "drop",
         mode' = mode, collection' = collection, aside' = aside, catalog' = catalog, runPc' = runPc,
         before' = before, newest' = newest,
         NEW n \in 0 .. SourceAttempts, NEW m \in BOOLEAN,
         attempt' = [attempt EXCEPT ![r][t] = n], moved' = [moved EXCEPT ![r][t] = m],
         staged' \subseteq Collected!Run \X Collected!Task, shared' \in BOOLEAN, staged' # {} => shared',
         m => p \in Collected!Active, p \in Collected!Active => n > 0, p = "again" => n < SourceAttempts,
         t \in Collected!Selected,
         TaskInv(r, t) => TaskInv(r, t)'
  PROVE  CollectionInv'
<1>1. /\ at \in [Collected!Run -> [Collected!Task -> TaskStates]]
      /\ attempt \in [Collected!Run -> [Collected!Task -> 0 .. SourceAttempts]]
      /\ moved \in [Collected!Run -> [Collected!Task -> BOOLEAN]] /\ LossOf(t)
  BY TaskTypes
<1>2. at' = [at EXCEPT ![r][t] = p]
  BY DEF Collected!Goto
<1>3. at'[r][t] = p /\ attempt'[r][t] = n /\ moved'[r][t] = m
  BY <1>1, <1>2
<1>4. CollectionTypes'
  <2>1. /\ at' \in [Collected!Run -> [Collected!Task -> TaskStates]]
        /\ attempt' \in [Collected!Run -> [Collected!Task -> 0 .. SourceAttempts]]
        /\ moved' \in [Collected!Run -> [Collected!Task -> BOOLEAN]]
    BY <1>1, <1>2
  <2>2. CollectionTypes
    BY SameTasks DEF CollectionInv
  <2> QED
    BY <2>1, <2>2, SameTasks DEF CollectionTypes
<1>5. Others(r, t)
  BY <1>1, <1>2 DEF Others
<1>6. AttemptOf(r, t)'
  BY <1>3, SameTasks DEF AttemptOf
<1>7. LossOf(t)'
  <2>1. ASSUME NEW b \in aside, ~Dropping(b)
        PROVE  ~Dropping(b)'
    <3>1. b.run \in Collected!Run /\ b.task \in Collected!Task
      BY DEF CollectionInv, CollectionTypes, Backups
    <3>2. CASE b.run = r /\ b.task = t
      BY <3>2, <1>3 DEF Dropping
    <3>3. CASE b.run # r \/ b.task # t
      BY <3>3, <3>1, <1>5, <2>1 DEF Others, Dropping
    <3> QED
      BY <3>2, <3>3
  <2> QED
    BY <1>1, <2>1 DEF LossOf
<1> QED
  BY <1>4, <1>5, <1>6, <1>7, TaskStepKeeps
-----------------------------------------------------------------------------
(* The steps of a task *)

\* What an active task knows of itself.
LEMMA ActiveTask ==
  ASSUME CollectionInv, NEW r \in Collected!Run, NEW t \in Collected!Task, at[r][t] \in Collected!Active
  PROVE  /\ AtWork(r) /\ attempt[r][t] > 0 /\ t \in Collected!Selected
         /\ attempt[r][t] \in 0 .. SourceAttempts /\ moved[r][t] \in BOOLEAN
         /\ attempt = [attempt EXCEPT ![r][t] = attempt[r][t]]
         /\ moved = [moved EXCEPT ![r][t] = moved[r][t]]
         /\ attempt[r][t] \in Nat
<1>1. attempt[r][t] > 0 /\ t \in Collected!Selected
  BY TaskTypes DEF AttemptOf, Collected!Active
<1>2. attempt[r][t] \in 0 .. SourceAttempts /\ moved[r][t] \in BOOLEAN
  BY TaskTypes
<1>3. attempt = [attempt EXCEPT ![r][t] = attempt[r][t]]
  BY TaskTypes
<1>4. moved = [moved EXCEPT ![r][t] = moved[r][t]]
  BY TaskTypes
<1> QED
  BY <1>1, <1>2, <1>3, <1>4, TaskTypes DEF AtWork

\* A failure goes to one of two steps, and leaves the task on its way.
LEMMA FailureGoes ==
  ASSUME NEW r, NEW t, Collected!Failed(r, t)
  PROVE  \E p \in {"giveup", "again"} :
           Collected!Goto(r, t, p) /\ (p = "again" => attempt[r][t] < SourceAttempts)
BY DEF Collected!Failed

LEMMA StartTaskKeeps ==
  ASSUME CollectionInv, NEW r \in Collected!Run, NEW t \in Collected!Task, Collected!StartTask(r, t)
  PROVE  CollectionInv'
<1>1. at[r][t] = "queued"
  <2> DEFINE Q == Collected!At(r, {"queued"})
  <2>1. Q \in SUBSET Nat /\ Q # {}
    BY DEF Collected!At, Collected!Task, Collected!StartTask
  <2>2. \E x \in Q : \A y \in Q : x <= y
    BY <2>1, LeastNumber
  <2>3. t \in Q
    BY <2>2 DEF Collected!StartTask, Collected!Min
  <2> QED
    BY <2>3 DEF Collected!At
<1>2. AtWork(r) /\ runPc' = runPc
  BY DEF Collected!StartTask, AtWork
<1>3. ~moved[r][t] /\ t \in Collected!Selected
  BY <1>1, TaskTypes DEF AttemptOf, Collected!Active
<1>4. moved' = [moved EXCEPT ![r][t] = FALSE]
  BY <1>3, TaskTypes, Zenon DEF Collected!StartTask, Collected!tasks
<1>5. Collected!Goto(r, t, "make") /\ attempt' = [attempt EXCEPT ![r][t] = 1]
  BY DEF Collected!StartTask, Collected!Goto
<1>6. /\ mode' = mode /\ collection' = collection /\ aside' = aside /\ staged' = staged /\ shared' = shared
      /\ catalog' = catalog /\ before' = before /\ newest' = newest
  BY DEF Collected!StartTask, Collected!disk
<1>7. TaskInv(r, t) => TaskInv(r, t)'
  <2>1. at'[r][t] = "make" /\ moved'[r][t] = FALSE
    BY <1>4, <1>5, TaskTypes DEF Collected!Goto
  <2>2. Mine(r, t)' = Mine(r, t)
    BY <1>6 DEF Mine
  <2>3. ASSUME TaskInv(r, t)
        PROVE  Mine(r, t)' = {} /\ collection'[t] = Otherwise(r, t)'
    BY <2>2, <2>3, <1>1, <1>6 DEF TaskInv, Otherwise, Broken
  <2> QED
    BY <2>1, <2>3 DEF TaskInv
<1>8. 1 \in 0 .. SourceAttempts /\ "make" \in TaskStates
  BY TaskTypes DEF TaskStates, Collected!Active
<1>9. staged' \subseteq Collected!Run \X Collected!Task /\ shared' \in BOOLEAN /\ (staged' # {} => shared')
  BY <1>6 DEF CollectionInv, CollectionTypes
<1> QED
  <2>1. PICK p, n, m : p = "make" /\ n = 1 /\ m = FALSE
    OBVIOUS
  <2>2. /\ p \in TaskStates /\ p # "drop" /\ p # "again" /\ n \in 0 .. SourceAttempts /\ n > 0 /\ ~m
        /\ Collected!Goto(r, t, p) /\ attempt' = [attempt EXCEPT ![r][t] = n]
    BY <2>1, <1>5, <1>8
  <2>3. m \in BOOLEAN /\ moved' = [moved EXCEPT ![r][t] = m]
    BY <2>1, <1>4, Zenon
  <2> QED
    BY <2>2, <2>3, <1>2, <1>3, <1>6, <1>7, <1>9, GotoKeeps

\* Where the task of a step that keeps collection, backups, attempt and move may go.
LEMMA StillKeeps ==
  ASSUME CollectionInv, NEW r \in Collected!Run, NEW t \in Collected!Task, at[r][t] \in Collected!Active,
         NEW p \in Collected!Active, Collected!Goto(r, t, p), p # "drop",
         p = "again" => attempt[r][t] < SourceAttempts,
         mode' = mode, collection' = collection, aside' = aside, catalog' = catalog, runPc' = runPc,
         before' = before, newest' = newest, attempt' = attempt, moved' = moved,
         staged' \subseteq Collected!Run \X Collected!Task, shared' \in BOOLEAN, staged' # {} => shared',
         \/ at[r][t] \in {"make", "leaf", "call"} /\ p \in {"leaf", "call", "commit", "again", "giveup"}
         \/ at[r][t] = "commit" /\ p = (IF collection[t] = 0 THEN "swap" ELSE "aside")
         \/ at[r][t] = "swap" /\ p = "restore"
         \/ at[r][t] = "aside" /\ p \in {"again", "giveup"}
         \/ at[r][t] = "restore" /\ ~moved[r][t] /\ p \in {"again", "giveup"}
  PROVE  CollectionInv'
<1>1. TaskInv(r, t) => TaskInv(r, t)'
  <2>1. at'[r][t] = p /\ attempt'[r][t] = attempt[r][t] /\ moved'[r][t] = moved[r][t]
    BY TaskTypes DEF Collected!Goto
  <2>2. Mine(r, t)' = Mine(r, t) /\ collection'[t] = collection[t]
    BY DEF Mine
  <2>3. Otherwise(r, t)' = Otherwise(r, t)
    BY <2>2 DEF Otherwise, Broken
  <2>4. \A b \in Mine(r, t) : b.attempt \in Nat
    BY TaskTypes DEF Mine
  <2>5. attempt[r][t] \in Nat
    BY TaskTypes
  <2>6. PICK o : o = Otherwise(r, t)
    OBVIOUS
  <2>7. Otherwise(r, t)' = o
    BY <2>3, <2>6
  <2>8. Collected!Named(r, t, o)' = Collected!Named(r, t, o)
    BY DEF Collected!Named
  <2> HIDE DEF Mine, Otherwise
  <2>9. ASSUME TaskInv(r, t)
        PROVE  TaskInv(r, t)'
    <3>1. CASE at[r][t] \in {"make", "leaf", "call"} /\ p \in {"leaf", "call", "commit", "again", "giveup"}
      BY <3>1, <2>1, <2>2, <2>3, <2>4, <2>5, <2>9 DEF TaskInv
    <3>2. CASE at[r][t] = "commit" /\ p = "aside" /\ collection[t] # 0
      BY <3>2, <2>1, <2>2, <2>3, <2>4, <2>5, <2>9 DEF TaskInv
    <3>3. CASE at[r][t] = "commit" /\ p = "swap" /\ collection[t] = 0
      BY <3>3, <2>1, <2>2, <2>3, <2>4, <2>5, <2>9 DEF TaskInv
    <3>4. CASE at[r][t] = "swap" /\ p = "restore"
      BY <3>4, <2>1, <2>2, <2>6, <2>7, <2>8, <2>9 DEF TaskInv
    <3>5. CASE at[r][t] = "aside" /\ p \in {"again", "giveup"}
      BY <3>5, <2>1, <2>2, <2>3, <2>4, <2>5, <2>9 DEF TaskInv
    <3>6. CASE at[r][t] = "restore" /\ ~moved[r][t] /\ p \in {"again", "giveup"}
      <4>1. /\ collection[t] = 0 /\ Otherwise(r, t) = 0
            /\ \A b \in Mine(r, t) : b.attempt < attempt[r][t]
        BY <3>6, <2>9 DEF TaskInv
      <4> QED
        BY <4>1, <3>6, <2>1, <2>2, <2>3, <2>4, <2>5 DEF TaskInv
    <3> QED
      BY <3>1, <3>2, <3>3, <3>4, <3>5, <3>6
  <2> QED
    BY <2>9
<1>2. PICK n, m : n = attempt[r][t] /\ m = moved[r][t]
  OBVIOUS
<1>3. /\ AtWork(r) /\ n > 0 /\ t \in Collected!Selected /\ n \in 0 .. SourceAttempts /\ m \in BOOLEAN
      /\ attempt' = [attempt EXCEPT ![r][t] = n] /\ moved' = [moved EXCEPT ![r][t] = m]
  BY <1>2, ActiveTask, Zenon
<1>4. p \in TaskStates
  BY DEF TaskStates
<1> QED
  BY <1>1, <1>2, <1>3, <1>4, GotoKeeps

LEMMA MakeKeeps ==
  ASSUME CollectionInv, NEW r \in Collected!Run, NEW t \in Collected!Task,
         \/ Collected!MakeDirectory(r, t) \/ Collected!MakeLeaf(r, t) \/ Collected!CallApi(r, t)
         \/ Collected!LookForOutput(r, t) \/ Collected!SwapFails(r, t)
  PROVE  CollectionInv'
<1>0. staged \subseteq Collected!Run \X Collected!Task /\ shared \in BOOLEAN /\ (staged # {} => shared)
  BY DEF CollectionInv, CollectionTypes
<1>1. CASE Collected!MakeDirectory(r, t)
  <2>1. /\ at[r][t] = "make" /\ shared' = TRUE /\ mode' = mode /\ collection' = collection /\ aside' = aside
        /\ catalog' = catalog /\ runPc' = runPc /\ attempt' = attempt /\ moved' = moved /\ before' = before
        /\ newest' = newest /\ staged' \subseteq staged \cup {<<r, t>>}
    BY <1>1 DEF Collected!MakeDirectory
  <2>2. PICK p \in {"leaf", "call"} : Collected!Goto(r, t, p)
    BY <1>1 DEF Collected!MakeDirectory
  <2>3. staged' \subseteq Collected!Run \X Collected!Task
    BY <2>1, <1>0
  <2> QED
    BY <2>1, <2>2, <2>3, StillKeeps DEF Collected!Active
<1>2. CASE Collected!MakeLeaf(r, t)
  <2>1. /\ at[r][t] = "leaf" /\ shared' = shared /\ mode' = mode /\ collection' = collection /\ aside' = aside
        /\ catalog' = catalog /\ runPc' = runPc /\ attempt' = attempt /\ moved' = moved /\ before' = before
        /\ newest' = newest
    BY <1>2 DEF Collected!MakeLeaf
  <2>2. \/ shared /\ staged' = staged \cup {<<r, t>>} /\ Collected!Goto(r, t, "call")
        \/ ~shared /\ staged' = staged /\ Collected!Failed(r, t)
    BY <1>2 DEF Collected!MakeLeaf
  <2>3. PICK p \in {"call", "giveup", "again"} :
          Collected!Goto(r, t, p) /\ (p = "again" => attempt[r][t] < SourceAttempts)
    BY <2>2, FailureGoes
  <2>4. staged' \subseteq Collected!Run \X Collected!Task /\ (staged' # {} => shared')
    BY <2>1, <2>2, <1>0
  <2> QED
    BY <2>1, <2>3, <2>4, <1>0, StillKeeps DEF Collected!Active
<1>3. CASE Collected!CallApi(r, t)
  <2>1. /\ at[r][t] = "call" /\ shared' = shared /\ mode' = mode /\ collection' = collection /\ aside' = aside
        /\ catalog' = catalog /\ runPc' = runPc /\ attempt' = attempt /\ moved' = moved /\ before' = before
        /\ newest' = newest /\ staged' = staged
    BY <1>3 DEF Collected!CallApi, Collected!disk
  <2>2. PICK p \in {"commit", "giveup", "again"} :
          Collected!Goto(r, t, p) /\ (p = "again" => attempt[r][t] < SourceAttempts)
    BY <1>3, FailureGoes DEF Collected!CallApi
  <2> QED
    BY <2>1, <2>2, <1>0, StillKeeps DEF Collected!Active
<1>4. CASE Collected!LookForOutput(r, t)
  <2>1. /\ at[r][t] = "commit" /\ shared' = shared /\ mode' = mode /\ collection' = collection /\ aside' = aside
        /\ catalog' = catalog /\ runPc' = runPc /\ attempt' = attempt /\ moved' = moved /\ before' = before
        /\ newest' = newest /\ staged' = staged
    BY <1>4 DEF Collected!LookForOutput, Collected!disk
  <2>2. PICK p : p = (IF collection[t] = 0 THEN "swap" ELSE "aside")
    OBVIOUS
  <2>3. Collected!Goto(r, t, p) /\ p \in Collected!Active /\ p # "drop" /\ p # "again"
    BY <2>2, <1>4 DEF Collected!LookForOutput, Collected!Active
  <2> QED
    BY <2>1, <2>2, <2>3, <1>0, StillKeeps DEF Collected!Active
<1>5. CASE Collected!SwapFails(r, t)
  <2>1. /\ at[r][t] = "swap" /\ shared' = shared /\ mode' = mode /\ collection' = collection /\ aside' = aside
        /\ catalog' = catalog /\ runPc' = runPc /\ attempt' = attempt /\ moved' = moved /\ before' = before
        /\ newest' = newest /\ staged' = staged /\ Collected!Goto(r, t, "restore")
    BY <1>5 DEF Collected!SwapFails, Collected!disk
  <2> QED
    BY <2>1, <1>0, StillKeeps DEF Collected!Active
<1> QED
  BY <1>1, <1>2, <1>3, <1>4, <1>5
\* A task that goes on with its attempt, whatever becomes of its output and backups.
LEMMA DiskKeeps ==
  ASSUME CollectionInv, NEW r \in Collected!Run, NEW t \in Collected!Task, at[r][t] \in Collected!Active,
         NEW p \in Collected!Active, Collected!Goto(r, t, p), p = "again" => attempt[r][t] < SourceAttempts,
         mode' = mode, catalog' = catalog, runPc' = runPc, before' = before, attempt' = attempt,
         NEW m \in BOOLEAN, moved' = [moved EXCEPT ![r][t] = m],
         NEW o \in 0 .. SourceRuns, collection' = [collection EXCEPT ![t] = o],
         NEW n \in 0 .. SourceRuns, newest' = [newest EXCEPT ![t] = n],
         aside' \subseteq Backups, \A b \in aside \cup aside' : b.run # r \/ b.task # t => (b \in aside /\ b \in aside'),
         staged' \subseteq staged, shared' = shared,
         LossOf(t)', TaskInv(r, t) => TaskInv(r, t)'
  PROVE  CollectionInv'
<1>1. /\ at \in [Collected!Run -> [Collected!Task -> TaskStates]]
      /\ moved \in [Collected!Run -> [Collected!Task -> BOOLEAN]]
      /\ collection \in [Collected!Task -> 0 .. SourceRuns] /\ newest \in [Collected!Task -> 0 .. SourceRuns]
  BY TaskTypes
<1>2. at' = [at EXCEPT ![r][t] = p] /\ p \in TaskStates
  BY DEF Collected!Goto, TaskStates
<1>3. CollectionTypes'
  <2>1. /\ at' \in [Collected!Run -> [Collected!Task -> TaskStates]]
        /\ collection' \in [Collected!Task -> 0 .. SourceRuns] /\ newest' \in [Collected!Task -> 0 .. SourceRuns]
    BY <1>1, <1>2
  <2>2. moved' \in [Collected!Run -> [Collected!Task -> BOOLEAN]]
    BY <1>1
  <2>3. CollectionTypes
    BY DEF CollectionInv
  <2> QED
    BY <2>1, <2>2, <2>3, SameTasks DEF CollectionTypes
<1>4. Others(r, t)
  <2>1. \A q \in Collected!Run, u \in Collected!Task : q # r \/ u # t => at'[q][u] = at[q][u]
    BY <1>1, <1>2
  <2>2. \A q \in Collected!Run, u \in Collected!Task : q # r \/ u # t => moved'[q][u] = moved[q][u]
    BY <1>1
  <2>3. \A u \in Collected!Task : u # t => collection'[u] = collection[u] /\ newest'[u] = newest[u]
    BY <1>1
  <2> QED
    BY <2>1, <2>2, <2>3 DEF Others
<1>5. AttemptOf(r, t)'
  <2>1. attempt[r][t] > 0 /\ t \in Collected!Selected
    BY ActiveTask
  <2>2. at'[r][t] = p
    BY <1>1, <1>2
  <2> QED
    BY <2>1, <2>2, SameTasks DEF AttemptOf
<1> QED
  BY <1>3, <1>4, <1>5, ActiveTask, TaskStepKeeps

LEMMA OutputAsideKeeps ==
  ASSUME CollectionInv, NEW r \in Collected!Run, NEW t \in Collected!Task, Collected!PutAside(r, t)
  PROVE  CollectionInv'
<1>0. /\ at[r][t] = "aside" /\ mode' = mode /\ staged' = staged /\ shared' = shared /\ catalog' = catalog
      /\ runPc' = runPc /\ attempt' = attempt /\ before' = before /\ newest' = newest
  BY DEF Collected!PutAside
<1>1. at[r][t] \in Collected!Active /\ attempt[r][t] \in Nat /\ attempt[r][t] \in 1 .. SourceAttempts
  <2>1. at[r][t] \in Collected!Active
    BY <1>0 DEF Collected!Active
  <2>2. attempt[r][t] \in 0 .. SourceAttempts /\ attempt[r][t] > 0
    BY <2>1, ActiveTask
  <2> QED
    BY <2>1, <2>2, TaskTypes
<1>2. staged \subseteq Collected!Run \X Collected!Task /\ shared \in BOOLEAN /\ (staged # {} => shared)
  BY DEF CollectionInv, CollectionTypes
<1>3. CASE collection[t] = 0
  <2>1. Collected!Failed(r, t) /\ collection' = collection /\ aside' = aside /\ moved' = moved
    BY <1>3 DEF Collected!PutAside
  <2>2. PICK p \in {"giveup", "again"} :
          Collected!Goto(r, t, p) /\ (p = "again" => attempt[r][t] < SourceAttempts)
    BY <2>1, FailureGoes
  <2> QED
    BY <1>0, <1>1, <1>2, <2>1, <2>2, StillKeeps DEF Collected!Active
<1>4. CASE collection[t] # 0
  <2> DEFINE new == Collected!Named(r, t, collection[t])
  <2>1. /\ collection' = [collection EXCEPT ![t] = 0] /\ aside' = aside \cup {new}
        /\ moved' = [moved EXCEPT ![r][t] = TRUE] /\ Collected!Goto(r, t, "swap")
    BY <1>4 DEF Collected!PutAside
  <2>2. /\ new \in Backups /\ new.run = r /\ new.task = t /\ new.attempt = attempt[r][t]
        /\ new.holds = collection[t]
    BY <1>1, TaskTypes DEF Collected!Named, Backups
  <2>3. at'[r][t] = "swap" /\ moved'[r][t] = TRUE /\ collection'[t] = 0
    BY <2>1, TaskTypes DEF Collected!Goto
  <2>4. aside' \subseteq Backups
    BY <2>1, <2>2, TaskTypes
  <2>5. \A b \in aside \cup aside' : b.run # r \/ b.task # t => (b \in aside /\ b \in aside')
    BY <2>1, <2>2
  <2>6. LossOf(t)'
    <3>1. ASSUME NEW b \in aside', b.task = t, b.holds = newest[t],
                 ~(at[b.run][b.task] = "drop" /\ attempt[b.run][b.task] = b.attempt)
          PROVE  ~Dropping(b)'
      <4>1. b.run \in Collected!Run
        BY <2>4 DEF Backups
      <4>2. at'[b.run][b.task] = "drop" => at[b.run][b.task] = "drop"
        BY <4>1, <3>1, <2>1, TaskTypes DEF Collected!Goto
      <4> QED
        BY <4>2, <3>1, <1>0 DEF Dropping
    <3>2. CASE collection[t] = newest[t]
      <4>1. ~(at[new.run][new.task] = "drop" /\ attempt[new.run][new.task] = new.attempt)
        BY <2>2, <1>0
      <4>3. PICK b \in aside' : b.task = t /\ b.holds = newest[t] /\ b = new
        BY <2>1, <2>2, <3>2
      <4> HIDE DEF new
      <4>4. ~(at[b.run][b.task] = "drop" /\ attempt[b.run][b.task] = b.attempt)
        BY <4>1, <4>3
      <4>5. ~Dropping(b)'
        BY <4>3, <4>4, <3>1
      <4> QED
        BY <4>3, <4>5, <1>0 DEF LossOf
    <3>3. CASE newest[t] # 0 /\ collection[t] # newest[t]
      <4>1. PICK b \in aside : b.task = t /\ b.holds = newest[t] /\ ~Dropping(b)
        BY <3>3, TaskTypes DEF LossOf
      <4>2. ~Dropping(b)'
        BY <4>1, <3>1, <2>1 DEF Dropping
      <4> QED
        BY <4>1, <4>2, <2>1, <1>0 DEF LossOf
    <3>4. CASE newest[t] = 0
      BY <3>4, <1>0 DEF LossOf
    <3> QED
      BY <3>2, <3>3, <3>4
  <2>7. TaskInv(r, t) => TaskInv(r, t)'
    <3>1. Mine(r, t)' = Mine(r, t) \cup {new}
      BY <2>1, <2>2 DEF Mine
    <3>2. Broken(r, t)' <=> Broken(r, t)
      BY <3>1, <2>2, <1>4 DEF Broken
    <3>3. Otherwise(r, t)' = Otherwise(r, t)
      BY <3>2, <1>0 DEF Otherwise
    <3>4. PICK c : c = collection[t]
      OBVIOUS
    <3>5. Collected!Named(r, t, c)' = new /\ c # 0
      BY <3>4, <1>0, <1>4 DEF Collected!Named
    <3>6. new \in aside'
      BY <2>1
    <3> HIDE DEF Mine, Otherwise, new
    <3>7. ASSUME TaskInv(r, t)
          PROVE  TaskInv(r, t)'
      <4>1. Otherwise(r, t)' = c /\ \A b \in Mine(r, t) : b.attempt < attempt[r][t]
        BY <3>7, <3>3, <3>4, <1>0 DEF TaskInv
      <4>2. Collected!Named(r, t, Otherwise(r, t))' = new
        BY <4>1, <3>5
      <4> QED
        BY <4>1, <4>2, <3>1, <3>5, <3>6, <2>3, <1>0 DEF TaskInv
    <3> QED
      BY <3>7
  <2>8. PICK m, o, n : m = TRUE /\ o = 0 /\ n = newest[t]
    OBVIOUS
  <2>9. /\ o \in 0 .. SourceRuns /\ collection' = [collection EXCEPT ![t] = o] /\ n \in 0 .. SourceRuns
        /\ newest' = [newest EXCEPT ![t] = n]
    BY <2>1, <2>8, <1>0, TaskTypes
  <2>10. m \in BOOLEAN /\ moved' = [moved EXCEPT ![r][t] = m]
    BY <2>1, <2>8, Zenon
  <2> HIDE DEF new
  <2> QED
    BY <1>0, <1>1, <2>1, <2>4, <2>5, <2>6, <2>7, <2>9, <2>10, DiskKeeps DEF Collected!Active
<1> QED
  BY <1>3, <1>4

LEMMA OutputSwapKeeps ==
  ASSUME CollectionInv, NEW r \in Collected!Run, NEW t \in Collected!Task, Collected!SwapIn(r, t)
  PROVE  CollectionInv'
<1>0. /\ at[r][t] = "swap" /\ collection[t] = 0 /\ mode' = mode /\ aside' = aside /\ shared' = shared
      /\ catalog' = catalog /\ runPc' = runPc /\ attempt' = attempt /\ moved' = moved /\ before' = before
      /\ collection' = [collection EXCEPT ![t] = r] /\ newest' = [newest EXCEPT ![t] = r]
      /\ staged' \subseteq staged
  BY DEF Collected!SwapIn
<1>1. PICK p : p = IF moved[r][t] THEN "drop" ELSE "cleanup"
  OBVIOUS
<1>2. Collected!Goto(r, t, p) /\ p \in Collected!Active /\ p \in {"drop", "cleanup"} /\ p # "again"
  <2>1. Collected!Goto(r, t, p)
    BY <1>1, Zenon DEF Collected!SwapIn
  <2> QED
    BY <2>1, <1>1 DEF Collected!Active
<1>3. at'[r][t] = p /\ collection'[t] = r /\ newest'[t] = r
  BY <1>0, <1>2, TaskTypes DEF Collected!Goto
<1>4. LossOf(t)'
  BY <1>3 DEF LossOf
<1>5. TaskInv(r, t) => TaskInv(r, t)'
  <2>1. Mine(r, t)' = Mine(r, t)
    BY <1>0 DEF Mine
  <2>2. attempt[r][t] \in Nat /\ \A b \in Mine(r, t) : b.attempt \in Nat
    BY TaskTypes DEF Mine
  <2>3. ASSUME TaskInv(r, t), NEW b \in Mine(r, t)
        PROVE  b.attempt <= attempt[r][t]
    <3>1. b.attempt < attempt[r][t] \/ b = Collected!Named(r, t, Otherwise(r, t))
      BY <2>3, <1>0 DEF TaskInv
    <3> QED
      BY <3>1, <2>2 DEF Collected!Named
  <2> HIDE DEF Mine
  <2> QED
    BY <2>1, <2>3, <1>0, <1>2, <1>3 DEF TaskInv
<1>6. PICK m : m = moved[r][t]
  OBVIOUS
<1>7. at[r][t] \in Collected!Active /\ r \in 0 .. SourceRuns /\ aside' \subseteq Backups
  BY <1>0, TaskTypes DEF Collected!Active
<1>8. m \in BOOLEAN /\ moved' = [moved EXCEPT ![r][t] = m]
  BY <1>0, <1>6, <1>7, ActiveTask, Zenon
<1>9. \A b \in aside \cup aside' : b.run # r \/ b.task # t => (b \in aside /\ b \in aside')
  BY <1>0
<1> QED
  BY <1>0, <1>2, <1>4, <1>5, <1>7, <1>8, <1>9, DiskKeeps
LEMMA RestoreKeeps ==
  ASSUME CollectionInv, NEW r \in Collected!Run, NEW t \in Collected!Task, Collected!Restore(r, t)
  PROVE  CollectionInv'
<1>0. /\ at[r][t] = "restore" /\ mode' = mode /\ staged' = staged /\ shared' = shared /\ catalog' = catalog
      /\ runPc' = runPc /\ attempt' = attempt /\ before' = before /\ newest' = newest /\ moved' = moved
      /\ Collected!Failed(r, t)
  BY DEF Collected!Restore
<1>1. at[r][t] \in Collected!Active
  BY <1>0 DEF Collected!Active
<1>2. staged \subseteq Collected!Run \X Collected!Task /\ shared \in BOOLEAN /\ (staged # {} => shared)
  BY DEF CollectionInv, CollectionTypes
<1>3. PICK p \in {"giveup", "again"} :
        Collected!Goto(r, t, p) /\ (p = "again" => attempt[r][t] < SourceAttempts)
  BY <1>0, FailureGoes
<1>4. p \in Collected!Active /\ p # "drop" /\ at'[r][t] = p
  BY <1>3, TaskTypes DEF Collected!Active, Collected!Goto
<1>5. PICK m : m = moved[r][t]
  OBVIOUS
<1>6. m \in BOOLEAN /\ moved' = [moved EXCEPT ![r][t] = m]
  BY <1>0, <1>1, <1>5, ActiveTask, Zenon
<1>7. CASE moved[r][t] /\ collection[t] = 0
  <2>1. PICK b \in Collected!Backup(r, t) :
          collection' = [collection EXCEPT ![t] = b.holds] /\ aside' = aside \ {b}
    BY <1>7 DEF Collected!Restore
  <2>2. b \in aside /\ b = Collected!Named(r, t, b.holds) /\ b \in Backups /\ b.holds \in 0 .. SourceRuns
    BY <2>1, TaskTypes DEF Collected!Backup, Backups
  <2>3. b.run = r /\ b.task = t /\ b.attempt = attempt[r][t]
    BY <2>2 DEF Collected!Named
  <2>4. collection'[t] = b.holds
    BY <2>1, TaskTypes
  <2>5. LossOf(t)'
    <3>1. ASSUME NEW c \in aside, c # b, c.task = t, c.holds = newest[t], ~Dropping(c)
          PROVE  c \in aside' /\ ~Dropping(c)'
      <4>1. c.run \in Collected!Run
        BY TaskTypes DEF Backups
      <4>2. at'[c.run][c.task] = "drop" => at[c.run][c.task] = "drop"
        BY <4>1, <3>1, <1>3, TaskTypes DEF Collected!Goto
      <4> QED
        BY <4>2, <3>1, <2>1, <1>0 DEF Dropping
    <3>2. CASE newest[t] # 0 /\ b.holds # newest[t]
      <4>1. PICK c \in aside : c.task = t /\ c.holds = newest[t] /\ ~Dropping(c)
        BY <3>2, <1>7, TaskTypes DEF LossOf
      <4> QED
        BY <4>1, <3>1, <3>2, <1>0 DEF LossOf
    <3>3. CASE ~(newest[t] # 0 /\ b.holds # newest[t])
      BY <3>3, <2>4, <1>0 DEF LossOf
    <3> QED
      BY <3>2, <3>3
  <2>6. TaskInv(r, t) => TaskInv(r, t)'
    <3>1. Mine(r, t)' = Mine(r, t) \ {b}
      BY <2>1 DEF Mine
    <3>2. b \in Mine(r, t)
      BY <2>2, <2>3 DEF Mine
    <3>3. \A c \in Mine(r, t) : c.attempt \in Nat
      BY TaskTypes DEF Mine
    <3>4. attempt[r][t] \in Nat
      BY TaskTypes
    <3>5. ASSUME TaskInv(r, t)
          PROVE  TaskInv(r, t)'
      <4>1. Otherwise(r, t) # 0 /\ \A c \in Mine(r, t) :
              c.attempt < attempt[r][t] \/ c = Collected!Named(r, t, Otherwise(r, t))
        BY <3>5, <1>0, <1>7 DEF TaskInv
      <4>2. b = Collected!Named(r, t, Otherwise(r, t))
        BY <4>1, <3>2, <3>4, <2>3
      <4>3. b.holds = Otherwise(r, t)
        BY <4>2 DEF Collected!Named
      <4>4. Broken(r, t)' <=> Broken(r, t)
        BY <3>1, <4>1, <4>3 DEF Broken
      <4>5. Otherwise(r, t)' = Otherwise(r, t)
        BY <4>4, <1>0 DEF Otherwise
      <4>6. \A c \in Mine(r, t) : c.attempt <= attempt[r][t]
        BY <4>1, <4>2, <3>3, <3>4, <2>3
      <4> HIDE DEF Mine, Otherwise
      <4> QED
        BY <4>3, <4>5, <4>6, <3>1, <2>4, <1>0, <1>3, <1>4 DEF TaskInv
    <3> QED
      BY <3>5
  <2>7. aside' \subseteq Backups
    BY <2>1, TaskTypes
  <2>8. \A c \in aside \cup aside' : c.run # r \/ c.task # t => (c \in aside /\ c \in aside')
    BY <2>1, <2>3
  <2>9. PICK o, n : o = b.holds /\ n = newest[t]
    OBVIOUS
  <2>10. /\ o \in 0 .. SourceRuns /\ collection' = [collection EXCEPT ![t] = o] /\ n \in 0 .. SourceRuns
         /\ newest' = [newest EXCEPT ![t] = n]
    BY <2>1, <2>2, <2>9, <1>0, TaskTypes
  <2> QED
    BY <1>0, <1>1, <1>3, <1>4, <1>6, <2>5, <2>6, <2>7, <2>8, <2>10, DiskKeeps
<1>8. CASE ~(moved[r][t] /\ collection[t] = 0)
  <2>1. collection' = collection /\ aside' = aside
    BY <1>8 DEF Collected!Restore
  <2>2. LossOf(t)'
    <3>1. ASSUME NEW c \in aside, ~Dropping(c)
          PROVE  ~Dropping(c)'
      <4>1. c.run \in Collected!Run /\ c.task \in Collected!Task
        BY TaskTypes DEF Backups
      <4>2. at'[c.run][c.task] = "drop" => at[c.run][c.task] = "drop"
        BY <4>1, <1>3, TaskTypes DEF Collected!Goto
      <4> QED
        BY <4>2, <3>1, <1>0 DEF Dropping
    <3> QED
      BY <3>1, <2>1, <1>0, TaskTypes DEF LossOf
  <2>3. TaskInv(r, t) => TaskInv(r, t)'
    <3>1. Mine(r, t)' = Mine(r, t) /\ (Broken(r, t)' <=> Broken(r, t))
      BY <2>1 DEF Mine, Broken
    <3>2. Otherwise(r, t)' = Otherwise(r, t)
      BY <3>1, <1>0 DEF Otherwise
    <3>3. \A c \in Mine(r, t) : c.attempt \in Nat
      BY TaskTypes DEF Mine
    <3>4. attempt[r][t] \in Nat
      BY TaskTypes
    <3>5. ASSUME TaskInv(r, t)
          PROVE  TaskInv(r, t)'
      <4>1. /\ collection[t] = 0 /\ ~moved[r][t] /\ Otherwise(r, t) = 0
            /\ \A c \in Mine(r, t) : c.attempt < attempt[r][t]
        BY <3>5, <1>0, <1>8 DEF TaskInv
      <4> HIDE DEF Mine, Otherwise
      <4> QED
        BY <4>1, <3>1, <3>2, <3>3, <3>4, <2>1, <1>0, <1>3, <1>4 DEF TaskInv
    <3> QED
      BY <3>5
  <2>4. PICK o, n : o = collection[t] /\ n = newest[t]
    OBVIOUS
  <2>5. /\ o \in 0 .. SourceRuns /\ collection' = [collection EXCEPT ![t] = o] /\ n \in 0 .. SourceRuns
        /\ newest' = [newest EXCEPT ![t] = n] /\ aside' \subseteq Backups
    BY <2>1, <2>4, <1>0, TaskTypes
  <2> QED
    BY <1>0, <1>1, <1>3, <1>4, <1>6, <2>1, <2>2, <2>3, <2>5, DiskKeeps
<1> QED
  BY <1>7, <1>8

LEMMA DropBackupKeeps ==
  ASSUME CollectionInv, NEW r \in Collected!Run, NEW t \in Collected!Task, Collected!DropBackup(r, t)
  PROVE  CollectionInv'
<1>0. /\ at[r][t] = "drop" /\ mode' = mode /\ staged' = staged /\ shared' = shared /\ catalog' = catalog
      /\ runPc' = runPc /\ attempt' = attempt /\ before' = before /\ newest' = newest /\ moved' = moved
      /\ collection' = collection
  BY DEF Collected!DropBackup
<1>1. at[r][t] \in Collected!Active
  BY <1>0 DEF Collected!Active
<1>2. attempt[r][t] \in 1 .. SourceAttempts
  BY <1>1, ActiveTask, TaskTypes
<1> DEFINE half == Collected!Named(r, t, 0)
<1>3. half \in Backups /\ half.run = r /\ half.task = t /\ half.attempt = attempt[r][t] /\ half.holds = 0
  BY <1>2, TaskTypes DEF Collected!Named, Backups
<1>4. \A b \in Collected!Backup(r, t) : b \in aside /\ b.run = r /\ b.task = t /\ b.attempt = attempt[r][t]
  BY DEF Collected!Backup, Collected!Named
<1>5. \/ aside' = aside \ Collected!Backup(r, t) /\ Collected!Goto(r, t, "cleanup")
      \/ aside' = (aside \ Collected!Backup(r, t)) \cup {half} /\ Collected!Failed(r, t)
  BY DEF Collected!DropBackup
<1>6. PICK p \in {"cleanup", "giveup", "again"} :
        /\ Collected!Goto(r, t, p) /\ (p = "again" => attempt[r][t] < SourceAttempts)
        /\ p # "cleanup" => half \in aside'
  BY <1>5, FailureGoes
<1> HIDE DEF half
<1>7. p \in Collected!Active /\ p # "drop" /\ at'[r][t] = p
  BY <1>6, TaskTypes DEF Collected!Active, Collected!Goto
<1>8. aside' \subseteq aside \cup {half} /\ aside \subseteq aside' \cup Collected!Backup(r, t)
  BY <1>5
<1>9. LossOf(t)'
  <2>1. ASSUME NEW c \in aside, ~Dropping(c)
        PROVE  c \in aside' /\ ~Dropping(c)'
    <3>1. c.run \in Collected!Run /\ c.task \in Collected!Task
      BY TaskTypes DEF Backups
    <3>2. at'[c.run][c.task] = "drop" => at[c.run][c.task] = "drop"
      BY <3>1, <1>6, TaskTypes DEF Collected!Goto
    <3>3. c \notin Collected!Backup(r, t)
      BY <2>1, <1>0, <1>4 DEF Dropping
    <3> QED
      BY <3>2, <3>3, <2>1, <1>0, <1>8 DEF Dropping
  <2> QED
    BY <2>1, <1>0, TaskTypes DEF LossOf
<1>10. TaskInv(r, t) => TaskInv(r, t)'
  <2>1. Mine(r, t)' \subseteq Mine(r, t) \cup {half}
    BY <1>8 DEF Mine
  <2>2. p # "cleanup" => half \in Mine(r, t)'
    BY <1>3, <1>6 DEF Mine
  <2>3. p # "cleanup" => Otherwise(r, t)' = r
    BY <2>2, <1>3 DEF Otherwise, Broken
  <2>4. attempt[r][t] \in Nat
    BY TaskTypes
  <2>5. ASSUME TaskInv(r, t)
        PROVE  TaskInv(r, t)'
    <3>1. collection[t] = r /\ \A b \in Mine(r, t) : b.attempt <= attempt[r][t]
      BY <2>5, <1>0 DEF TaskInv
    <3>2. \A b \in Mine(r, t)' : b.attempt <= attempt[r][t]
      BY <3>1, <2>1, <2>4, <1>3
    <3> HIDE DEF Mine, Otherwise
    <3> QED
      BY <3>1, <3>2, <2>3, <1>0, <1>6, <1>7 DEF TaskInv
  <2> QED
    BY <2>5
<1>11. PICK m : m = moved[r][t]
  OBVIOUS
<1>12. m \in BOOLEAN /\ moved' = [moved EXCEPT ![r][t] = m]
  BY <1>0, <1>1, <1>11, ActiveTask, Zenon
<1>13. PICK o, n : o = collection[t] /\ n = newest[t]
  OBVIOUS
<1>14. /\ o \in 0 .. SourceRuns /\ collection' = [collection EXCEPT ![t] = o] /\ n \in 0 .. SourceRuns
       /\ newest' = [newest EXCEPT ![t] = n]
  BY <1>13, <1>0, TaskTypes
<1>15. aside' \subseteq Backups
  BY <1>3, <1>8, TaskTypes
<1>16. \A b \in aside \cup aside' : b.run # r \/ b.task # t => (b \in aside /\ b \in aside')
  BY <1>3, <1>4, <1>8
<1> QED
  BY <1>0, <1>1, <1>6, <1>7, <1>9, <1>10, <1>12, <1>14, <1>15, <1>16, DiskKeeps

LEMMA CleanUpKeeps ==
  ASSUME CollectionInv, NEW r \in Collected!Run, NEW t \in Collected!Task, Collected!CleanUp(r, t)
  PROVE  CollectionInv'
<1>0. /\ at[r][t] \in {"cleanup", "again", "giveup"} /\ mode' = mode /\ catalog' = catalog /\ runPc' = runPc
      /\ before' = before /\ newest' = newest /\ collection' = collection /\ aside' = aside
      /\ staged' = staged \ {<<r, t>>} /\ shared' = (shared /\ (staged' # {} \/ aside # {}))
  BY DEF Collected!CleanUp
<1>1. at[r][t] \in Collected!Active
  BY <1>0 DEF Collected!Active
<1>2. staged' \subseteq Collected!Run \X Collected!Task /\ shared' \in BOOLEAN /\ (staged' # {} => shared')
  <2>1. staged \subseteq Collected!Run \X Collected!Task /\ (staged # {} => shared)
    BY DEF CollectionInv, CollectionTypes
  <2>2. shared' \in BOOLEAN
    BY <1>0, Zenon
  <2>3. staged' # {} => shared'
    BY <2>1, <1>0
  <2> QED
    BY <2>1, <2>2, <2>3, <1>0
<1>3. PICK p, n : /\ p = CASE at[r][t] = "cleanup" -> "ok" [] at[r][t] = "again" -> "make"
                           [] at[r][t] = "giveup" -> "error"
                  /\ n = IF at[r][t] = "again" THEN attempt[r][t] + 1 ELSE 0
  OBVIOUS
<1>4. Collected!Goto(r, t, p)
  BY <1>3, Zenon DEF Collected!CleanUp
<1>5. attempt' = [attempt EXCEPT ![r][t] = n]
  BY <1>3, TaskTypes DEF Collected!CleanUp
<1>6. /\ at[r][t] = "cleanup" => p = "ok"
      /\ at[r][t] = "again" => p = "make"
      /\ at[r][t] = "giveup" => p = "error"
  BY <1>0, <1>3
<1>7. at[r][t] = "again" => attempt[r][t] < SourceAttempts
  BY TaskTypes DEF AttemptOf
<1>8. /\ p \in TaskStates /\ p # "drop" /\ p # "again" /\ n \in 0 .. SourceAttempts
      /\ (p \in Collected!Active => n > 0) /\ t \in Collected!Selected
  <2>1. p \in TaskStates /\ p # "drop" /\ p # "again" /\ (p \in Collected!Active => at[r][t] = "again")
    BY <1>0, <1>6 DEF TaskStates, Collected!Active, Collected!Ended
  <2>2. n \in 0 .. SourceAttempts /\ (at[r][t] = "again" => n > 0)
    BY <1>3, <1>7, TaskTypes
  <2> QED
    BY <2>1, <2>2, <1>1, ActiveTask
<1>9. PICK m : m = FALSE
  OBVIOUS
<1>10. m \in BOOLEAN /\ ~m /\ moved' = [moved EXCEPT ![r][t] = m]
  BY <1>9, Zenon DEF Collected!CleanUp
<1>11. TaskInv(r, t) => TaskInv(r, t)'
  <2>1. at'[r][t] = p /\ attempt'[r][t] = n /\ ~moved'[r][t]
    BY <1>4, <1>5, <1>10, TaskTypes DEF Collected!Goto
  <2>2. Mine(r, t)' = Mine(r, t) /\ (Broken(r, t)' <=> Broken(r, t))
    BY <1>0 DEF Mine, Broken
  <2>3. Otherwise(r, t)' = Otherwise(r, t)
    BY <2>2, <1>0 DEF Otherwise
  <2>4. attempt[r][t] \in Nat /\ \A b \in Mine(r, t) : b.attempt \in Nat
    BY TaskTypes DEF Mine
  <2>5. ASSUME TaskInv(r, t)
        PROVE  TaskInv(r, t)'
    <3> HIDE DEF Mine, Otherwise
    <3>1. CASE at[r][t] = "cleanup"
      BY <3>1, <2>1, <2>5, <1>0, <1>6 DEF TaskInv
    <3>2. CASE at[r][t] = "again"
      <4>1. n = attempt[r][t] + 1 /\ p = "make"
        BY <3>2, <1>3, <1>6
      <4>2. collection[t] = Otherwise(r, t) /\ \A b \in Mine(r, t) : b.attempt <= attempt[r][t]
        BY <3>2, <2>5 DEF TaskInv
      <4>3. \A b \in Mine(r, t) : b.attempt < n
        BY <4>1, <4>2, <2>4
      <4> QED
        BY <4>1, <4>2, <4>3, <2>1, <2>2, <2>3, <1>0 DEF TaskInv
    <3>3. CASE at[r][t] = "giveup"
      BY <3>3, <2>1, <2>2, <2>3, <2>5, <1>0, <1>6 DEF TaskInv
    <3> QED
      BY <3>1, <3>2, <3>3, <1>0
  <2> QED
    BY <2>5
<1> QED
  BY <1>0, <1>1, <1>2, <1>4, <1>5, <1>8, <1>10, <1>11, ActiveTask, GotoKeeps

LEMMA ProcessDiesKeeps ==
  ASSUME CollectionInv, NEW r \in Collected!Run, NEW t \in Collected!Task, Collected!ProcessDies(r, t)
  PROVE  CollectionInv'
<1>0. /\ at[r][t] \in Collected!Active /\ mode' = mode /\ catalog' = catalog /\ runPc' = runPc
      /\ before' = before /\ newest' = newest /\ collection' = collection /\ aside' = aside
      /\ staged' = staged /\ shared' = shared
  BY DEF Collected!ProcessDies, Collected!disk
<1>1. PICK p, n, m : p = "lost" /\ n = 0 /\ m = FALSE
  OBVIOUS
<1>2. Collected!Goto(r, t, p) /\ attempt' = [attempt EXCEPT ![r][t] = n]
  BY <1>1 DEF Collected!ProcessDies
<1>3. m \in BOOLEAN /\ ~m /\ moved' = [moved EXCEPT ![r][t] = m]
  BY <1>1, Zenon DEF Collected!ProcessDies
<1>4. p \in TaskStates /\ p # "drop" /\ p # "again" /\ p \notin Collected!Active /\ n \in 0 .. SourceAttempts
  BY <1>1, TaskTypes DEF TaskStates, Collected!Active
<1>5. at'[r][t] = "lost"
  BY <1>1, <1>2, TaskTypes DEF Collected!Goto
<1>6. TaskInv(r, t)'
  BY <1>5 DEF TaskInv
<1>7. staged' \subseteq Collected!Run \X Collected!Task /\ shared' \in BOOLEAN /\ (staged' # {} => shared')
  BY <1>0 DEF CollectionInv, CollectionTypes
<1> QED
  BY <1>0, <1>2, <1>3, <1>4, <1>6, <1>7, ActiveTask, GotoKeeps
-----------------------------------------------------------------------------
(* The steps of a run *)

\* A backup, an output or a task of one run at rest is untouched when the steps of
\* the tasks, the attempts, the outputs and the backups are.
LEMMA RestingTasks ==
  ASSUME NEW r \in Collected!Run,
         NEW t, TaskInv(r, t), at'[r][t] = at[r][t] \/ {at[r][t], at'[r][t]} \subseteq {"none", "queued"},
         attempt' = attempt, moved' = moved, collection' = collection, aside' = aside, before' = before
  PROVE  TaskInv(r, t)'
<1>1. Mine(r, t)' = Mine(r, t) /\ (Broken(r, t)' <=> Broken(r, t))
  BY DEF Mine, Broken
<1>2. PICK o : o = Otherwise(r, t)
  OBVIOUS
<1>3. Otherwise(r, t)' = o
  BY <1>1, <1>2 DEF Otherwise
<1>4. Collected!Named(r, t, o)' = Collected!Named(r, t, o)
  BY DEF Collected!Named
<1> HIDE DEF Mine, Otherwise
<1>5. CASE at'[r][t] = at[r][t]
  BY <1>1, <1>2, <1>3, <1>4, <1>5 DEF TaskInv
<1>6. CASE {at[r][t], at'[r][t]} \subseteq {"none", "queued"}
  BY <1>1, <1>6 DEF TaskInv
<1> QED
  BY <1>5, <1>6

LEMMA BeginKeeps ==
  ASSUME CollectionInv, NEW r \in Collected!Run, Collected!Begin(r)
  PROVE  CollectionInv'
<1>0. /\ ~Started(r) /\ (\A q \in Collected!Run : q < r => Started(q)) /\ mode' = mode
      /\ attempt' = attempt /\ moved' = moved
      /\ at' = [at EXCEPT ![r] = [t \in Collected!Task |-> IF t \in Collected!Selected THEN "queued" ELSE "none"]]
      /\ runPc' = [runPc EXCEPT ![r] = "run"]
  BY DEF Collected!Begin, Started
<1>1. Collected!Task' = Collected!Task /\ Collected!Selected' = Collected!Selected /\ Backups' = Backups
  BY <1>0, SameTasks
<1>2. CollectionTypes /\ SourceRuns \in Nat /\ Collected!Run \subseteq Nat
  BY CollectionConstants DEF CollectionInv, Collected!CollectionAssumption, Collected!Run
<1>3. PICK k : k = Collected!Kept
  OBVIOUS
<1>4. collection' = k /\ before' = [before EXCEPT ![r] = k] /\ k \in [Collected!Task -> 0 .. SourceRuns]
  BY <1>2, <1>3 DEF Collected!Begin, Collected!Kept, CollectionTypes
<1>5. \/ /\ mode.reset /\ aside' = {} /\ staged' = {} /\ shared' = FALSE /\ catalog' = None /\ newest' = k
         /\ k = [t \in Collected!Task |-> 0]
      \/ /\ ~mode.reset /\ aside' = aside /\ staged' = staged /\ shared' = shared /\ catalog' = catalog
         /\ newest' = newest /\ k = collection
  BY <1>3 DEF Collected!Begin, Collected!Kept
<1>6. /\ \A t \in Collected!Task : at[r][t] = "none" /\ at'[r][t] \in {"none", "queued"}
      /\ \A t \in Collected!Task : t \notin Collected!Selected => at'[r][t] = "none"
      /\ \A b \in aside : b.run # r
  BY <1>0, <1>2 DEF CollectionInv, OrderInv, CollectionTypes
<1>7. \A q \in Collected!Run : q # r => at'[q] = at[q] /\ runPc'[q] = runPc[q]
  BY <1>0, <1>2 DEF CollectionTypes
<1>8. runPc'[r] = "run" /\ Started(r)' /\ aside' \subseteq aside
  BY <1>0, <1>2, <1>5 DEF CollectionTypes, Started
<1>9. CollectionTypes'
  <2>1. /\ staged' \subseteq Collected!Run \X Collected!Task /\ shared' \in BOOLEAN /\ (staged' # {} => shared')
        /\ newest' \in [Collected!Task -> 0 .. SourceRuns] /\ aside' \subseteq Backups
        /\ (catalog' = None \/ catalog' \subseteq Collected!Task)
    BY <1>2, <1>4, <1>5 DEF CollectionTypes
  <2>2. runPc' \in [Collected!Run -> {"idle", "run", "done", "raised", "dead"}]
    BY <1>0, <1>2 DEF CollectionTypes
  <2>3. at' \in [Collected!Run -> [Collected!Task -> TaskStates]]
    BY <1>0, <1>2 DEF CollectionTypes, TaskStates
  <2>4. before' \in [Collected!Run -> [Collected!Task -> 0 .. SourceRuns]]
    BY <1>4, <1>2 DEF CollectionTypes
  <2> QED
    BY <2>1, <2>2, <2>3, <2>4, <1>0, <1>1, <1>2, <1>4 DEF CollectionTypes
<1>10. AttemptsInv'
  <2>1. ASSUME NEW q \in Collected!Run, NEW t \in Collected!Task
        PROVE  AttemptOf(q, t)'
    <3>1. AttemptOf(q, t)
      BY DEF CollectionInv, AttemptsInv
    <3>2. CASE q = r
      BY <3>1, <3>2, <1>0, <1>1, <1>6 DEF AttemptOf, Collected!Active
    <3>3. CASE q # r
      BY <3>1, <3>3, <1>0, <1>1, <1>7 DEF AttemptOf
    <3> QED
      BY <3>2, <3>3
  <2> QED
    BY <2>1, <1>1 DEF AttemptsInv
<1>11. LossInv'
  <2>1. CASE mode.reset
    BY <2>1, <1>1, <1>5 DEF LossInv, LossOf
  <2>2. CASE ~mode.reset
    <3>1. ASSUME NEW b \in aside, ~Dropping(b)
          PROVE  ~Dropping(b)'
      <4>1. b.run \in Collected!Run /\ b.run # r
        BY <1>2, <1>6 DEF CollectionTypes, Backups
      <4> QED
        BY <4>1, <3>1, <1>0, <1>7 DEF Dropping
    <3>2. ASSUME NEW t \in Collected!Task
          PROVE  LossOf(t)'
      <4>1. LossOf(t) /\ aside' = aside /\ newest' = newest /\ collection' = collection
        BY <2>2, <1>4, <1>5 DEF CollectionInv, LossInv
      <4> QED
        BY <4>1, <3>1 DEF LossOf
    <3> QED
      BY <3>2, <1>1 DEF LossInv
  <2> QED
    BY <2>1, <2>2
<1>12. \A q \in Collected!Run : q # r => (Started(q)' <=> Started(q)) /\ (AtWork(q)' <=> AtWork(q))
  BY <1>1, <1>7 DEF Started, AtWork
<1>13. \A q \in Collected!Run : q # r /\ Started(q) => q < r
  <2>1. \A q \in Collected!Run : r < q => ~Started(q)
    BY <1>0 DEF CollectionInv, OrderInv
  <2> QED
    BY <2>1, <1>2
<1>14. OrderInv'
  <2>1. ASSUME NEW q \in Collected!Run, NEW s \in Collected!Run, q < s, Started(s)'
        PROVE  Started(q)' /\ (mode'.overlap \/ ~AtWork(q)')
    <3>1. CASE s = r
      <4>1. q # r /\ Started(q)
        BY <3>1, <2>1, <1>0, <1>2
      <4>2. mode.overlap \/ ~AtWork(q)
        BY DEF Collected!Begin, Collected!Working, Collected!At, AtWork
      <4> QED
        BY <4>1, <4>2, <1>0, <1>12
    <3>2. CASE s # r
      <4>1. Started(q) /\ (mode.overlap \/ ~AtWork(q))
        BY <3>2, <2>1, <1>12 DEF CollectionInv, OrderInv
      <4> QED
        BY <4>1, <1>0, <1>12
    <3> QED
      BY <3>1, <3>2
  <2>2. ASSUME NEW q \in Collected!Run, ~Started(q)'
        PROVE  (\A t \in Collected!Task : at'[q][t] = "none") /\ \A b \in aside' : b.run # q
    <3>1. q # r /\ ~Started(q)
      BY <2>2, <1>8, <1>12
    <3>2. (\A t \in Collected!Task : at[q][t] = "none") /\ \A b \in aside : b.run # q
      BY <3>1 DEF CollectionInv, OrderInv
    <3> QED
      BY <3>1, <3>2, <1>7, <1>8
  <2>3. ASSUME NEW q \in Collected!Run, runPc'[q] = "done"
        PROVE  ~AtWork(q)' /\ \A t \in Collected!Task : at'[q][t] # "lost"
    <3>1. q # r
      BY <2>3, <1>8
    <3>2. ~AtWork(q) /\ \A t \in Collected!Task : at[q][t] # "lost"
      BY <2>3, <3>1, <1>7 DEF CollectionInv, OrderInv
    <3> QED
      BY <3>1, <3>2, <1>7, <1>12
  <2>4. OrderInv' <=>
          /\ \A q, s \in Collected!Run : q < s /\ Started(s)' =>
               Started(q)' /\ (mode'.overlap \/ ~AtWork(q)')
          /\ \A q \in Collected!Run : ~Started(q)' =>
               (\A u \in Collected!Task : at'[q][u] = "none") /\ \A b \in aside' : b.run # q
          /\ \A q \in Collected!Run : runPc'[q] = "done" =>
               ~AtWork(q)' /\ \A u \in Collected!Task : at'[q][u] # "lost"
    BY <1>1 DEF OrderInv
  <2> QED
    BY <2>1, <2>2, <2>3, <2>4
<1>15. LatestInv'
  <2>1. ASSUME NEW q \in Collected!Run, Latest(q)'
        PROVE  q = r
    <3>1. ~(r > q) /\ Started(q)'
      BY <2>1, <1>8 DEF Latest
    <3> QED
      BY <3>1, <1>2, <1>12, <1>13
  <2>2. ASSUME NEW t \in Collected!Task
        PROVE  TaskInv(r, t)'
    <3>1. Mine(r, t)' = {}
      BY <1>6, <1>8 DEF Mine
    <3>2. collection'[t] = before'[r][t]
      BY <1>2, <1>4 DEF CollectionTypes
    <3> HIDE DEF Mine, Otherwise
    <3> QED
      BY <3>1, <3>2, <1>6 DEF TaskInv
  <2> QED
    BY <2>1, <2>2, <1>1, <1>8 DEF LatestInv
<1> QED
  BY <1>9, <1>10, <1>11, <1>14, <1>15 DEF CollectionInv

\* The end of a run: the datasets, the backups and what the tasks do stay as they are.
LEMMA EndKeeps ==
  ASSUME CollectionInv, NEW r \in Collected!Run, runPc[r] = "run",
         NEW p \in {"done", "raised", "dead"}, runPc' = [runPc EXCEPT ![r] = p],
         mode' = mode, collection' = collection, aside' = aside, staged' = staged, shared' = shared,
         attempt' = attempt, moved' = moved, before' = before, newest' = newest,
         catalog' = catalog \/ (p = "done" /\ catalog' = {t \in Collected!Task : collection[t] # 0}),
         at' \in [Collected!Run -> [Collected!Task -> TaskStates]],
         \A q \in Collected!Run, t \in Collected!Task :
           at'[q][t] = at[q][t] \/ (at[q][t] = "queued" /\ at'[q][t] = "none"),
         p = "done" =>
           /\ catalog' = {t \in Collected!Task : collection[t] # 0}
           /\ \A t \in Collected!Task : at'[r][t] \notin Collected!Active /\ at'[r][t] # "lost"
  PROVE  CollectionInv'
<1>1. /\ Collected!Task' = Collected!Task /\ Collected!Selected' = Collected!Selected /\ Backups' = Backups
      /\ CollectionTypes
  BY SameTasks DEF CollectionInv
<1>2. /\ \A q \in Collected!Run : q # r => runPc'[q] = runPc[q]
      /\ runPc'[r] = p /\ p # "run" /\ p # "idle"
      /\ runPc' \in [Collected!Run -> {"idle", "run", "done", "raised", "dead"}]
  BY <1>1 DEF CollectionTypes
<1>3. CollectionTypes'
  <2>1. catalog' = None \/ catalog' \subseteq Collected!Task
    BY <1>1 DEF CollectionTypes
  <2> QED
    BY <2>1, <1>1, <1>2 DEF CollectionTypes
<1>4. \A q \in Collected!Run, t \in Collected!Task :
        /\ at'[q][t] \in Collected!Active <=> at[q][t] \in Collected!Active
        /\ at'[q][t] = "again" <=> at[q][t] = "again"
        /\ at'[q][t] = "drop" <=> at[q][t] = "drop"
        /\ at'[q][t] = "lost" <=> at[q][t] = "lost"
        /\ at[q][t] = "none" => at'[q][t] = "none"
  BY DEF Collected!Active
<1>5. AttemptsInv'
  <2>1. \A q \in Collected!Run, t \in Collected!Task : AttemptOf(q, t)
    BY DEF CollectionInv, AttemptsInv
  <2>2. ASSUME NEW q \in Collected!Run, NEW t \in Collected!Task
        PROVE  AttemptOf(q, t)'
    <3>1. AttemptOf(q, t)
      BY <2>1
    <3> HIDE DEF Collected!Active, Collected!Selected
    <3> QED
      BY <3>1, <1>1, <1>4 DEF AttemptOf
  <2> QED
    BY <2>2, <1>1 DEF AttemptsInv
<1>6. LossInv'
  <2>1. \A b \in aside : Dropping(b)' <=> Dropping(b)
    BY <1>1, <1>4 DEF Dropping, CollectionTypes, Backups
  <2>2. ASSUME NEW t \in Collected!Task
        PROVE  LossOf(t)'
    BY <2>1 DEF CollectionInv, LossInv, LossOf
  <2> QED
    BY <2>2, <1>1 DEF LossInv
<1>7. /\ Started(r) /\ Started(r)'
      /\ \A q \in Collected!Run : Started(q)' <=> Started(q)
      /\ \A q \in Collected!Run : AtWork(q)' => AtWork(q)
      /\ p = "done" => ~AtWork(r)'
  <2>1. Started(r) /\ Started(r)'
    BY <1>2 DEF Started
  <2>2. \A q \in Collected!Run : Started(q)' <=> Started(q)
    BY <2>1, <1>2 DEF Started
  <2>3. \A q \in Collected!Run : AtWork(q)' => AtWork(q)
    BY <1>1, <1>2, <1>4 DEF AtWork
  <2>4. p = "done" => ~AtWork(r)'
    BY <1>1, <1>2 DEF AtWork
  <2> QED
    BY <2>1, <2>2, <2>3, <2>4
<1>8. OrderInv'
  <2>1. \A q, s \in Collected!Run : q < s /\ Started(s)' =>
          Started(q)' /\ (mode'.overlap \/ ~AtWork(q)')
    BY <1>7 DEF CollectionInv, OrderInv
  <2>2. \A q \in Collected!Run : ~Started(q)' =>
          (\A u \in Collected!Task : at'[q][u] = "none") /\ \A b \in aside' : b.run # q
    BY <1>4, <1>7 DEF CollectionInv, OrderInv
  <2>3. ASSUME NEW q \in Collected!Run, runPc'[q] = "done"
        PROVE  ~AtWork(q)' /\ \A u \in Collected!Task : at'[q][u] # "lost"
    <3>1. CASE q = r
      BY <3>1, <2>3, <1>2, <1>7
    <3>2. CASE q # r
      <4>1. ~AtWork(q) /\ \A u \in Collected!Task : at[q][u] # "lost"
        BY <3>2, <2>3, <1>2 DEF CollectionInv, OrderInv
      <4> QED
        BY <4>1, <1>4, <1>7
    <3> QED
      BY <3>1, <3>2
  <2> QED
    BY <2>1, <2>2, <2>3, <1>1 DEF OrderInv
<1>9. LatestInv'
  <2>1. ASSUME ~mode.overlap, NEW q \in Collected!Run, Latest(q)'
        PROVE  /\ \A t \in Collected!Task : TaskInv(q, t)'
               /\ runPc'[q] = "done" => catalog' = {t \in Collected!Task : collection'[t] # 0}
    <3>1. Latest(q)
      BY <2>1, <1>7 DEF Latest
    <3>2. /\ \A t \in Collected!Task : TaskInv(q, t)
          /\ runPc[q] = "done" => catalog = {t \in Collected!Task : collection[t] # 0}
      BY <3>1, <2>1 DEF CollectionInv, LatestInv
    <3>3. \A t \in Collected!Task : TaskInv(q, t)'
      <4> TAKE t \in Collected!Task
      <4>1. TaskInv(q, t) /\ (at'[q][t] = at[q][t] \/ {at[q][t], at'[q][t]} \subseteq {"none", "queued"})
        BY <3>2
      <4> QED
        BY <4>1, RestingTasks
    <3>4. runPc'[q] = "done" => catalog' = {t \in Collected!Task : collection[t] # 0}
      BY <3>2, <1>2
    <3> QED
      BY <3>3, <3>4
  <2> QED
    BY <2>1, <1>1 DEF LatestInv
<1> QED
  BY <1>3, <1>5, <1>6, <1>8, <1>9 DEF CollectionInv
LEMMA CatalogKeeps ==
  ASSUME CollectionInv, NEW r \in Collected!Run,
         Collected!Catalog(r) \/ Collected!Raise(r) \/ Collected!Die(r)
  PROVE  CollectionInv'
<1>0. CollectionTypes /\ AttemptsInv
  BY DEF CollectionInv
<1>1. CASE Collected!Catalog(r)
  <2>1. /\ runPc[r] = "run" /\ runPc' = [runPc EXCEPT ![r] = "done"] /\ mode' = mode /\ collection' = collection
        /\ aside' = aside /\ staged' = staged /\ shared' = shared /\ at' = at /\ attempt' = attempt
        /\ moved' = moved /\ before' = before /\ newest' = newest
        /\ catalog' = {t \in Collected!Task : collection[t] # 0}
        /\ \A t \in Collected!Selected : at[r][t] \in Collected!Ended
    BY <1>1 DEF Collected!Catalog, Collected!tasks
  <2>2. \A t \in Collected!Task : at[r][t] \notin Collected!Active /\ at[r][t] # "lost"
    <3> TAKE t \in Collected!Task
    <3>1. CASE t \in Collected!Selected
      BY <3>1, <2>1 DEF Collected!Ended, Collected!Active
    <3>2. CASE t \notin Collected!Selected
      BY <3>2, <1>0 DEF AttemptsInv, AttemptOf, Collected!Active
    <3> QED
      BY <3>1, <3>2
  <2>3. at' \in [Collected!Run -> [Collected!Task -> TaskStates]]
    BY <2>1, <1>0 DEF CollectionTypes
  <2> QED
    BY <2>1, <2>2, <2>3, EndKeeps
<1>2. CASE Collected!Raise(r)
  <2>1. /\ runPc[r] = "run" /\ runPc' = [runPc EXCEPT ![r] = "raised"] /\ mode' = mode
        /\ collection' = collection /\ aside' = aside /\ staged' = staged /\ shared' = shared /\ at' = at
        /\ attempt' = attempt /\ moved' = moved /\ before' = before /\ newest' = newest /\ catalog' = catalog
    BY <1>2 DEF Collected!Raise, Collected!tasks, Collected!disk
  <2>2. at' \in [Collected!Run -> [Collected!Task -> TaskStates]]
    BY <2>1, <1>0 DEF CollectionTypes
  <2> QED
    BY <2>1, <2>2, EndKeeps
<1>3. CASE Collected!Die(r)
  <2>1. /\ runPc[r] = "run" /\ runPc' = [runPc EXCEPT ![r] = "dead"] /\ mode' = mode
        /\ collection' = collection /\ aside' = aside /\ staged' = staged /\ shared' = shared
        /\ attempt' = attempt /\ moved' = moved /\ before' = before /\ newest' = newest /\ catalog' = catalog
        /\ at' = [at EXCEPT ![r] = [t \in Collected!Task |-> IF at[r][t] = "queued" THEN "none" ELSE at[r][t]]]
    BY <1>3 DEF Collected!Die, Collected!disk
  <2>2. at' \in [Collected!Run -> [Collected!Task -> TaskStates]]
    BY <2>1, <1>0 DEF CollectionTypes, TaskStates
  <2>3. \A q \in Collected!Run, t \in Collected!Task :
          at'[q][t] = at[q][t] \/ (at[q][t] = "queued" /\ at'[q][t] = "none")
    BY <2>1, <1>0 DEF CollectionTypes
  <2> QED
    BY <2>1, <2>2, <2>3, EndKeeps
<1> QED
  BY <1>1, <1>2, <1>3

\* The first state, a step of the collection, and a step of another part.
LEMMA CollectionInit ==
  ASSUME Collected!Init
  PROVE  CollectionInv
<1>1. /\ \A r \in Collected!Run : ~Started(r) /\ \A t \in Collected!Task : at[r][t] = "none" /\ ~moved[r][t]
      /\ aside = {} /\ \A t \in Collected!Task : newest[t] = 0
  BY DEF Collected!Init, Started
<1>2. CollectionTypes
  <2>1. SourceRuns \in Nat /\ SourceAttempts \in Nat
    BY CollectionConstants DEF Collected!CollectionAssumption
  <2>2. /\ mode \in SourceModes /\ collection = [t \in Collected!Task |-> 0]
        /\ aside = {} /\ staged = {} /\ shared = FALSE /\ catalog = None
        /\ runPc = [r \in Collected!Run |-> "idle"]
        /\ at = [r \in Collected!Run |-> [t \in Collected!Task |-> "none"]]
        /\ attempt = [r \in Collected!Run |-> [t \in Collected!Task |-> 0]]
        /\ moved = [r \in Collected!Run |-> [t \in Collected!Task |-> FALSE]]
        /\ before = [r \in Collected!Run |-> collection] /\ newest = collection
    BY DEF Collected!Init
  <2>3. collection \in [Collected!Task -> 0 .. SourceRuns] /\ newest \in [Collected!Task -> 0 .. SourceRuns]
    BY <2>1, <2>2
  <2>4. before \in [Collected!Run -> [Collected!Task -> 0 .. SourceRuns]]
    BY <2>2, <2>3
  <2>5. at \in [Collected!Run -> [Collected!Task -> TaskStates]]
    BY <2>2 DEF TaskStates
  <2>6. attempt \in [Collected!Run -> [Collected!Task -> 0 .. SourceAttempts]]
    BY <2>1, <2>2
  <2>7. moved \in [Collected!Run -> [Collected!Task -> BOOLEAN]]
    BY <2>2
  <2>8. aside \subseteq Backups /\ staged \subseteq Collected!Run \X Collected!Task /\ shared \in BOOLEAN
    BY <2>2
  <2> QED
    BY <2>2, <2>3, <2>4, <2>5, <2>6, <2>7, <2>8 DEF CollectionTypes
<1>3. AttemptsInv
  BY <1>1 DEF AttemptsInv, AttemptOf, Collected!Active
<1>4. LossInv
  BY <1>1 DEF LossInv, LossOf
<1>5. OrderInv
  BY <1>1 DEF OrderInv, Started
<1>6. LatestInv
  BY <1>1 DEF LatestInv, Latest
<1> QED
  BY <1>2, <1>3, <1>4, <1>5, <1>6 DEF CollectionInv

LEMMA CollectionStep ==
  ASSUME CollectionInv, Collected!Next
  PROVE  CollectionInv'
<1>1. PICK r \in Collected!Run :
        \/ Collected!Begin(r) \/ Collected!Catalog(r) \/ Collected!Raise(r) \/ Collected!Die(r)
        \/ \E t \in Collected!Task :
             \/ Collected!StartTask(r, t) \/ Collected!MakeDirectory(r, t) \/ Collected!MakeLeaf(r, t)
             \/ Collected!CallApi(r, t) \/ Collected!LookForOutput(r, t) \/ Collected!PutAside(r, t)
             \/ Collected!SwapIn(r, t) \/ Collected!SwapFails(r, t) \/ Collected!Restore(r, t)
             \/ Collected!DropBackup(r, t) \/ Collected!CleanUp(r, t) \/ Collected!ProcessDies(r, t)
  BY Zenon DEF Collected!Next
<1>2. CASE Collected!Begin(r) \/ Collected!Catalog(r) \/ Collected!Raise(r) \/ Collected!Die(r)
  BY <1>2, BeginKeeps, CatalogKeeps
<1>3. ASSUME NEW t \in Collected!Task,
             \/ Collected!StartTask(r, t) \/ Collected!MakeDirectory(r, t) \/ Collected!MakeLeaf(r, t)
             \/ Collected!CallApi(r, t) \/ Collected!LookForOutput(r, t) \/ Collected!PutAside(r, t)
             \/ Collected!SwapIn(r, t) \/ Collected!SwapFails(r, t) \/ Collected!Restore(r, t)
             \/ Collected!DropBackup(r, t) \/ Collected!CleanUp(r, t) \/ Collected!ProcessDies(r, t)
      PROVE  CollectionInv'
  BY <1>3, StartTaskKeeps, MakeKeeps, OutputAsideKeeps, OutputSwapKeeps, RestoreKeeps, DropBackupKeeps,
     CleanUpKeeps, ProcessDiesKeeps
<1> QED
  BY <1>1, <1>2, <1>3

LEMMA CollectionStutters ==
  ASSUME CollectionInv, UNCHANGED collectionVars
  PROVE  CollectionInv'
<1>1. /\ mode' = mode /\ collection' = collection /\ aside' = aside /\ staged' = staged /\ shared' = shared
      /\ catalog' = catalog /\ runPc' = runPc /\ at' = at /\ attempt' = attempt /\ moved' = moved
      /\ before' = before /\ newest' = newest
  BY DEF collectionVars
<1>2. /\ Collected!Task' = Collected!Task /\ Collected!Selected' = Collected!Selected /\ Backups' = Backups
  BY <1>1, SameTasks
<1>3. CollectionTypes' /\ AttemptsInv' /\ LossInv' /\ OrderInv'
  <2>1. CollectionTypes'
    BY <1>1, <1>2 DEF CollectionInv, CollectionTypes
  <2>2. AttemptsInv'
    BY <1>1, <1>2 DEF CollectionInv, AttemptsInv, AttemptOf
  <2>3. LossInv'
    BY <1>1, <1>2 DEF CollectionInv, LossInv, LossOf, Dropping
  <2>4. OrderInv'
    BY <1>1, <1>2 DEF CollectionInv, OrderInv, Started, AtWork
  <2> QED
    BY <2>1, <2>2, <2>3, <2>4
<1>4. LatestInv'
  <2>1. ASSUME NEW r \in Collected!Run, NEW t \in Collected!Task, TaskInv(r, t)
        PROVE  TaskInv(r, t)'
    BY <1>1, <2>1, RestingTasks
  <2>2. \A r \in Collected!Run : Latest(r)' <=> Latest(r)
    BY <1>1 DEF Latest, Started
  <2> QED
    BY <1>1, <1>2, <2>1, <2>2 DEF CollectionInv, LatestInv
<1> QED
  BY <1>3, <1>4 DEF CollectionInv

\* What the invariant says of the collection.
LEMMA CollectionTellsIt ==
  ASSUME CollectionInv
  PROVE  Collected!TypeOK /\ Collected!CollectionTellsTruth
<1>1. Collected!TypeOK
  BY DEF CollectionInv, CollectionTypes, Collected!TypeOK, Backups, TaskStates
<1>2. Collected!NothingIsLost
  BY DEF CollectionInv, LossInv, LossOf, Collected!NothingIsLost
<1>3. ASSUME NEW r \in Collected!Run, runPc[r] = "done", ~mode.overlap,
             \A q \in Collected!Run : q > r => runPc[q] = "idle"
      PROVE  /\ catalog = {t \in Collected!Task : collection[t] # 0}
             /\ \A t \in Collected!Task :
                  collection[t] = IF \/ at[r][t] = "ok"
                                     \/ \E b \in aside : b.run = r /\ b.task = t /\ b.holds = 0
                                  THEN r ELSE before[r][t]
  <2>1. Latest(r)
    BY <1>3 DEF Latest, Started
  <2>2. /\ \A t \in Collected!Task : TaskInv(r, t)
        /\ catalog = {t \in Collected!Task : collection[t] # 0}
    BY <2>1, <1>3 DEF CollectionInv, LatestInv
  <2>3. ASSUME NEW t \in Collected!Task
        PROVE  collection[t] = IF \/ at[r][t] = "ok"
                                  \/ \E b \in aside : b.run = r /\ b.task = t /\ b.holds = 0
                               THEN r ELSE before[r][t]
    <3>1. at[r][t] \notin Collected!Active /\ at[r][t] # "lost" /\ at[r][t] \in TaskStates
      BY <1>3 DEF CollectionInv, OrderInv, AtWork, CollectionTypes
    <3>2. at[r][t] \in {"none", "queued", "ok", "error"}
      BY <3>1 DEF TaskStates, Collected!Ended
    <3>3. Broken(r, t) <=> \E b \in aside : b.run = r /\ b.task = t /\ b.holds = 0
      BY DEF Broken, Mine
    <3>4. CASE at[r][t] \in {"none", "queued"}
      <4>1. Mine(r, t) = {} /\ collection[t] = before[r][t]
        BY <3>4, <2>2 DEF TaskInv
      <4>2. ~Broken(r, t)
        BY <4>1 DEF Broken
      <4> QED
        BY <4>1, <4>2, <3>3, <3>4
    <3>5. CASE at[r][t] = "ok"
      BY <3>5, <2>2 DEF TaskInv
    <3>6. CASE at[r][t] = "error"
      <4>1. collection[t] = Otherwise(r, t)
        BY <3>6, <2>2 DEF TaskInv
      <4> QED
        BY <4>1, <3>3, <3>6 DEF Otherwise
    <3> QED
      BY <3>2, <3>4, <3>5, <3>6
  <2> QED
    BY <2>2, <2>3
<1>4. Collected!ReturnTellsTruth
  BY <1>3 DEF Collected!ReturnTellsTruth
<1> QED
  BY <1>1, <1>2, <1>4 DEF Collected!CollectionTellsTruth

-----------------------------------------------------------------------------
(* The sources *)

SourcesInv == CollectionInv /\ TextInv /\ UnionInv

LEMMA SourcesKeep ==
  ASSUME SourcesInv, [AssetsNext]_assetsVars
  PROVE  SourcesInv'
<1>1. CollectionInv'
  <2>1. Collected!Next \/ UNCHANGED collectionVars
    BY DEF AssetsNext, assetsVars, OfSelection, OfChain, OfCollection, OfText, OfUnion, OfMigration
  <2> QED
    BY <2>1, CollectionStep, CollectionStutters DEF SourcesInv
<1>2. TextInv'
  <2>1. Text!Next \/ UNCHANGED textVars
    BY DEF AssetsNext, assetsVars, OfSelection, OfChain, OfCollection, OfText, OfUnion, OfMigration
  <2> QED
    BY <2>1, TextStep, TextStutters DEF SourcesInv
<1>3. UnionInv'
  <2>1. Union!Next \/ UNCHANGED unionVars
    BY DEF AssetsNext, assetsVars, OfSelection, OfChain, OfCollection, OfText, OfUnion, OfMigration
  <2> QED
    BY <2>1, UnionStep, UnionStutters DEF SourcesInv
<1> QED
  BY <1>1, <1>2, <1>3 DEF SourcesInv

\* What the sources leave is true, for any tasks, files, runs and changes.  A collection
\* never loses what was collected last, wherever a task fails or its process dies, and a
\* run that returns has the new output of a task exactly where the task succeeded
\* (commit_staged_dataset, write_source_dataset_catalog).  A text source that ends under
\* no change has the rows of its files under its contract (csv_incremental), and a union
\* that is used holds the rows of the upstreams that are there (the cache of the
\* combined upstream is named after them).
THEOREM SourcesAreTrue == AssetsSpec => []SourcesTellTruth
<1>1. AssetsInit => SourcesInv
  BY CollectionInit, TextInit, UnionInit DEF AssetsInit, SourcesInv
<1>2. SourcesInv /\ [AssetsNext]_assetsVars => SourcesInv'
  BY SourcesKeep
<1>3. SourcesInv => SourcesTellTruth
  BY CollectionTellsIt, TextTellsTruth, UnionTellsTruth DEF SourcesInv, SourcesTellTruth
<1> QED
  BY <1>1, <1>2, <1>3, PTL DEF AssetsSpec
=============================================================================
