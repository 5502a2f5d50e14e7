----------------------------- MODULE RunsProofs -----------------------------
(***************************************************************************)
(* Proofs about the runs of MCRuns for every number of runs, segments and  *)
(* files.                                                                  *)
(*                                                                         *)
(* Appends: the lock file lets one run at a time reserve, move and         *)
(* publish; so a number that was given out belongs to one run key, the     *)
(* manifest is an append-only log, no part that it lists is lost, and the  *)
(* calculation manifest names what was committed.                          *)
(*                                                                         *)
(* Probes: the lock keeps publishers apart, and a version that was read    *)
(* and is still there was there all the time in between; so the profiles   *)
(* of a generation are those of one moment.                                *)
(***************************************************************************)
EXTENDS MCRuns, FiniteSetTheorems, SequenceTheorems, TLAPS

\* Where runs overlap, nothing happens between the test of a lock's age and its removal,
\* and no run is inside the lock for an hour.
LocksHold == \A d \in Deployments : d.overlap => d.breakAtomically /\ d.heldBriefly

\* Runs that overlap have one contract.
OneContract == \A d \in Deployments : d.overlap => \A b, c \in d.contracts : b = c

\* A run has no number yet; it has one and may commit under it; its parts are staged.
Early == {"idle", "previous", "lock1", "break1", "reserve", "reserved"}
Numbered == {"unlock1", "stage", "lock2", "break2", "decide", "move"}
Ready == {"lock2", "break2", "decide", "move"}
Settled == {"unlock2", "cleanup", "record"}

Committed == Fact!Range(generations)

Types ==
  /\ deployment \in Deployments /\ upstream \in Fact!Upstream
  /\ generations \in Seq(Fact!Generations) /\ files \subseteq Fact!PartOf
  /\ lastSeq \in 0 .. Cardinality(Run)
  /\ calculated = None \/ Fact!CalculationManifest(calculated)
  /\ segmentStaging \subseteq [key : Fact!RunKey, part : Fact!PartOf]
  /\ appendLock \in Run \cup {None} /\ stale \in BOOLEAN
  /\ appendPc \in [Run -> {"idle"} \cup Fact!Alive \cup Fact!Ended]
  /\ delta \in [Run -> Fact!Delta]
  /\ DOMAIN previous = Run /\ previous = [r \in Run |-> previous[r]]
  /\ \A r \in Run : previous[r] = None \/ Fact!CalculationManifest(previous[r])
  /\ seq \in [Run -> 0 .. Cardinality(Run)]
  /\ staged \in [Run -> SUBSET Fact!PartOf] /\ moved \in [Run -> SUBSET Fact!PartOf]
  /\ seen \in [Run -> Seq(Fact!Generations)]

-----------------------------------------------------------------------------
\* Runs that do not overlap are alive one at a time.
OneAlive ==
  ~deployment.overlap => \A q, r \in Run : appendPc[q] \in Fact!Alive /\ appendPc[r] \in Fact!Alive => q = r

\* A run inside the lock is the one the file names; and a stale file names a dead one,
\* where no run is inside for an hour.
LockInv ==
  /\ \A r \in Run : appendPc[r] \in Fact!Locked => appendLock = r
  /\ \A r \in Run : appendPc[r] \in Fact!Breaking => ~deployment.breakAtomically
  /\ appendLock # None => appendPc[appendLock] # "idle"
  /\ stale => appendLock # None
  /\ stale /\ deployment.heldBriefly => appendPc[appendLock] \notin Fact!Alive

\* Numbers are given out in order, one per run at most, and used for one run key.
LogInv ==
  /\ \A g \in Committed : g.seq <= lastSeq
  /\ \A g, h \in Committed : g.seq = h.seq => g.key = h.key
  /\ lastSeq <= Cardinality({r \in Run : appendPc[r] \notin Early})

\* A number belongs to one run key, ...
NumberInv(r) ==
  /\ appendPc[r] \in Numbered =>
       /\ seq[r] \in 1 .. lastSeq
       /\ \A g \in Committed : g.seq = seq[r] => g.key = delta[r]
  /\ appendPc[r] = "reserved" => seen[r] = generations
  /\ appendPc[r] = "move" => seen[r] = generations /\ \A g \in Committed : g.key # delta[r]

\* ... whether committed or not.
NumbersApart ==
  \A q, r \in Run :
    appendPc[q] \in Numbered /\ appendPc[r] \in Numbered /\ seq[q] = seq[r] => delta[q] = delta[r]

\* The parts of number n for the run key d, one per segment, ...
Made(parts, n, d) ==
  /\ \A p \in parts :
       /\ p.seq = n /\ p.segment \in d.selected \ deployment.barren /\ p.contract = d.contract
       /\ UpstreamStable => p.content = d.upstream[p.segment]
  /\ \A p, o \in parts : p.segment = o.segment => p = o

\* ... and none left out.
Complete(parts, n, d) ==
  /\ Made(parts, n, d)
  /\ \A s \in d.selected \ deployment.barren : \E p \in parts : p.segment = s

GenerationInv ==
  \A g \in Committed : g.files # {} /\ g.files \subseteq files /\ Complete(g.files, g.seq, g.key)

StagedInv(r) ==
  /\ appendPc[r] \in Early \cup {"unlock1"} \cup Fact!Ended => staged[r] = {}
  /\ appendPc[r] = "stage" => Made(staged[r], seq[r], delta[r])
  /\ appendPc[r] \in Ready => staged[r] # {} /\ Complete(staged[r], seq[r], delta[r])
  /\ appendPc[r] \in Early \cup Fact!Ended \cup (Numbered \ {"move"}) => moved[r] = {}
  /\ moved[r] \subseteq staged[r]
  /\ appendPc[r] = "move" => moved[r] \subseteq files

\* What a run does not calculate again stands in the manifest m as it read it.
KeptFrom(m, d) ==
  \A s \in Fact!Present(d.upstream) \ d.selected :
    /\ m # None /\ m.contract = d.contract
    /\ s \in DOMAIN m.active /\ m.active[s].content = d.upstream[s]

ReadInv(r) ==
  /\ appendPc[r] \in Fact!Alive =>
       delta[r].contract \in deployment.contracts /\ delta[r].selected \subseteq Fact!Present(delta[r].upstream)
  /\ UpstreamStable /\ appendPc[r] \in Fact!Reading => delta[r].upstream = upstream
  /\ ~deployment.overlap /\ appendPc[r] = "previous" => KeptFrom(calculated, delta[r])
  /\ ~deployment.overlap /\ appendPc[r] \in Fact!Alive \ {"previous"} => KeptFrom(previous[r], delta[r])

AppendInv ==
  /\ Types /\ OneAlive /\ LockInv /\ LogInv /\ NumbersApart /\ GenerationInv
  /\ \A r \in Run : NumberInv(r) /\ StagedInv(r) /\ ReadInv(r)

-----------------------------------------------------------------------------
\* An entry is calculated from the contents it names, and its parts are committed.
EntryIsCommitted(s, e, c) ==
  \E g \in Committed :
    /\ g.seq = e.gen
    /\ e.parts = {p \in g.files : p.segment = s}
    /\ [seq |-> e.gen, segment |-> s, content |-> e.content, contract |-> c] \in e.parts

EntriesAreCommitted(m) ==
  m # None =>
    /\ m.contract \in deployment.contracts
    /\ \A s \in DOMAIN m.active \ deployment.barren : EntryIsCommitted(s, m.active[s], m.contract)

\* What a run is about to record is committed, its parts and those of the run before.
RecordInv(r) ==
  /\ appendPc[r] \in Fact!Alive \ {"previous"} => EntriesAreCommitted(previous[r])
  /\ appendPc[r] \in Settled =>
       /\ Complete(staged[r], seq[r], delta[r])
       /\ staged[r] # {} => \E g \in Committed : g.seq = seq[r] /\ g.files = staged[r]

CalculatedInv == EntriesAreCommitted(calculated) /\ \A r \in Run : RecordInv(r)
-----------------------------------------------------------------------------
(* What a step can change *)

\* The variables of run q do not change.
Keeps(q) ==
  /\ delta'[q] = delta[q] /\ previous'[q] = previous[q] /\ seq'[q] = seq[q]
  /\ staged'[q] = staged[q] /\ moved'[q] = moved[q] /\ seen'[q] = seen[q]
Unmoved(q) == appendPc'[q] = appendPc[q] /\ Keeps(q)

\* They are those of a process that is gone.
Forgotten(q) ==
  /\ delta'[q] = Fact!NoDelta /\ previous'[q] = None /\ seq'[q] = 0
  /\ staged'[q] = {} /\ moved'[q] = {} /\ seen'[q] = <<>>

\* SegmentAppend counts as this module does.
LEMMA SameCount ==
  /\ IsFiniteSet(Run) <=> Fact!IsFiniteSet(Run)
  /\ Fact!Cardinality(Run) = Cardinality(Run)
BY DEF Fact!IsFiniteSet, IsFiniteSet, Fact!Cardinality, Cardinality

LEMMA Constants ==
  ASSUME Fact!AppendAssumption, deployment \in Deployments
  PROVE  /\ MaxVersion \in Nat \ {0} /\ None \notin Run /\ IsFiniteSet(Run)
         /\ Cardinality(Run) \in Nat /\ Fact!NoDelta \in Fact!Delta
         /\ deployment.contracts \subseteq Contract
<1>1. /\ MaxVersion \in Nat \ {0} /\ None \notin Run /\ IsFiniteSet(Run)
      /\ deployment \in Fact!Deployment /\ deployment.contracts # {}
  BY SameCount DEF Fact!AppendAssumption
<1>2. Cardinality(Run) \in Nat BY <1>1, FS_CardinalityType
<1>3. deployment.contracts \subseteq Contract BY <1>1 DEF Fact!Deployment
<1>4. (CHOOSE c \in Contract : TRUE) \in Contract BY <1>1, <1>3
<1>5. [s \in Segment |-> 0] \in Fact!Upstream BY <1>1 DEF Fact!Upstream
<1>6. Fact!NoDelta \in Fact!Delta BY <1>4, <1>5 DEF Fact!NoDelta, Fact!Delta
<1> QED BY <1>1, <1>2, <1>3, <1>6

LEMMA Moves ==
  ASSUME Types, NEW r \in Run, NEW from, NEW to, Fact!Goto(r, from, to)
  PROVE  appendPc[r] = from /\ appendPc'[r] = to /\ \A q \in Run \ {r} : appendPc'[q] = appendPc[q]
BY DEF Fact!Goto, Types

LEMMA Forgets ==
  ASSUME Types, NEW r \in Run, Fact!Forget(r)
  PROVE  Forgotten(r) /\ \A q \in Run \ {r} : Keeps(q)
BY DEF Fact!Forget, Types, Forgotten, Keeps

LEMMA Stays ==
  ASSUME UNCHANGED Fact!run
  PROVE  \A q \in Run : Keeps(q)
BY DEF Fact!run, Keeps

\* What a run leaves alone: how the dataset is used, and the other runs.
LEMMA EnvironmentStays ==
  ASSUME NEW r \in Run, Fact!Step(r)
  PROVE  UNCHANGED Fact!environment
<1>1. CASE Fact!Plan(r) \/ Fact!ReadPrevious(r) \/ Fact!Record(r) \/ Fact!Die(r)
  BY <1>1 DEF Fact!Plan, Fact!ReadPrevious, Fact!Record, Fact!Die
<1>2. CASE Fact!Locking(r)
  BY <1>2 DEF Fact!Locking, Fact!Acquire, Fact!FindStale, Fact!BreakLock, Fact!LockTimeout
<1>3. CASE Fact!Reserving(r) BY <1>3 DEF Fact!Reserving, Fact!ReadForReserve, Fact!Reserve, Fact!UnlockReserved
<1>4. CASE Fact!Staging(r) BY <1>4 DEF Fact!Staging, Fact!StagePart, Fact!EndStaging, Fact!StagingFails
<1>5. CASE Fact!Committing(r)
  BY <1>5
  DEF Fact!Committing, Fact!Decide, Fact!MovePart, Fact!Publish, Fact!CommitFails, Fact!UnlockCommitted,
      Fact!Rollback
<1> QED BY <1>1, <1>2, <1>3, <1>4, <1>5 DEF Fact!Step

LEMMA OthersUnmoved ==
  ASSUME Types, NEW r \in Run, Fact!Step(r), NEW q \in Run \ {r}
  PROVE  Unmoved(q)
<1>1. CASE Fact!Plan(r) BY <1>1, Moves DEF Fact!Plan, Unmoved, Keeps, Types
<1>2. CASE Fact!ReadPrevious(r) BY <1>2, Moves DEF Fact!ReadPrevious, Unmoved, Keeps, Types
<1>3. CASE Fact!Acquire(r) \/ Fact!FindStale(r) \/ Fact!BreakLock(r)
  BY <1>3, Moves, Stays DEF Fact!Acquire, Fact!FindStale, Fact!BreakLock, Unmoved
<1>4. CASE Fact!LockTimeout(r) BY <1>4, Moves, Forgets, Stays DEF Fact!LockTimeout, Unmoved
<1>5. CASE Fact!ReadForReserve(r) BY <1>5, Moves DEF Fact!ReadForReserve, Unmoved, Keeps, Types
<1>6. CASE Fact!Reserve(r)
  <2>1. seen'[q] = seen[q] /\ seq'[q] = seq[q] BY <1>6 DEF Fact!Reserve, Types
  <2> QED BY <1>6, <2>1, Moves DEF Fact!Reserve, Unmoved, Keeps
<1>7. CASE Fact!UnlockReserved(r) \/ Fact!EndStaging(r) \/ Fact!StagingFails(r) \/ Fact!Publish(r)
              \/ Fact!CommitFails(r) \/ Fact!UnlockCommitted(r)
  BY <1>7, Moves, Stays
  DEF Fact!UnlockReserved, Fact!EndStaging, Fact!StagingFails, Fact!Publish, Fact!CommitFails,
      Fact!UnlockCommitted, Unmoved
<1>8. CASE \E s \in Segment : Fact!StagePart(r, s)
  BY <1>8, Moves DEF Fact!StagePart, Unmoved, Keeps, Types
<1>9. CASE Fact!Decide(r) BY <1>9, Moves DEF Fact!Decide, Unmoved, Keeps, Types
<1>10. CASE Fact!MovePart(r) BY <1>10, Moves DEF Fact!MovePart, Unmoved, Keeps, Types
<1>11. CASE Fact!Rollback(r) BY <1>11, Moves, Forgets, Stays DEF Fact!Rollback, Unmoved
<1>12. CASE Fact!Record(r) BY <1>12, Moves, Forgets DEF Fact!Record, Unmoved
<1>13. CASE Fact!Die(r)
  <2>1. appendPc'[q] = appendPc[q] BY <1>13 DEF Fact!Die, Types
  <2> QED BY <1>13, <2>1, Forgets DEF Fact!Die, Unmoved
<1> QED
  BY <1>1, <1>2, <1>3, <1>4, <1>5, <1>6, <1>7, <1>8, <1>9, <1>10, <1>11, <1>12, <1>13
  DEF Fact!Step, Fact!Locking, Fact!Reserving, Fact!Staging, Fact!Committing

\* The manifest grows only when a run publishes, and numbers are given out only when it reserves.
LEMMA LogChanges ==
  ASSUME Types, NEW r \in Run, Fact!Step(r)
  PROVE  \/ UNCHANGED <<generations, lastSeq>>
         \/ Fact!Reserve(r) /\ UNCHANGED generations
         \/ Fact!Publish(r) /\ UNCHANGED lastSeq
<1>1. CASE Fact!Plan(r) \/ Fact!ReadPrevious(r) \/ Fact!Die(r)
  BY <1>1 DEF Fact!Plan, Fact!ReadPrevious, Fact!Die, Fact!dataset
<1>2. CASE Fact!Locking(r)
  BY <1>2 DEF Fact!Locking, Fact!Acquire, Fact!FindStale, Fact!BreakLock, Fact!LockTimeout, Fact!dataset
<1>3. CASE Fact!Reserving(r)
  BY <1>3 DEF Fact!Reserving, Fact!ReadForReserve, Fact!Reserve, Fact!UnlockReserved, Fact!dataset
<1>4. CASE Fact!Staging(r)
  BY <1>4 DEF Fact!Staging, Fact!StagePart, Fact!EndStaging, Fact!StagingFails, Fact!dataset
<1>5. CASE Fact!Committing(r)
  BY <1>5
  DEF Fact!Committing, Fact!Decide, Fact!MovePart, Fact!Publish, Fact!CommitFails, Fact!UnlockCommitted,
      Fact!Rollback, Fact!dataset
<1>6. CASE Fact!Record(r) BY <1>6 DEF Fact!Record
<1> QED BY <1>1, <1>2, <1>3, <1>4, <1>5, <1>6 DEF Fact!Step

-----------------------------------------------------------------------------
(* Types *)

LEMMA InitTypes ==
  ASSUME Fact!AppendAssumption, Fact!Init
  PROVE  Types
<1>1. deployment \in Deployments BY DEF Fact!Init
<1>2. MaxVersion \in Nat \ {0} /\ Cardinality(Run) \in Nat /\ Fact!NoDelta \in Fact!Delta BY <1>1, Constants
<1>3. upstream \in Fact!Upstream BY <1>2 DEF Fact!Init, Fact!Upstream
<1>4. generations \in Seq(Fact!Generations) /\ seen \in [Run -> Seq(Fact!Generations)] BY DEF Fact!Init
<1>5. delta \in [Run -> Fact!Delta] BY <1>2 DEF Fact!Init
<1>6. appendPc \in [Run -> {"idle"} \cup Fact!Alive \cup Fact!Ended] /\ seq \in [Run -> 0 .. Cardinality(Run)]
  BY <1>2 DEF Fact!Init
<1>7. staged \in [Run -> SUBSET Fact!PartOf] /\ moved \in [Run -> SUBSET Fact!PartOf] BY DEF Fact!Init
<1>8. /\ lastSeq \in 0 .. Cardinality(Run) /\ files \subseteq Fact!PartOf
      /\ segmentStaging \subseteq [key : Fact!RunKey, part : Fact!PartOf]
  BY <1>2 DEF Fact!Init
<1>9. DOMAIN previous = Run /\ previous = [r \in Run |-> previous[r]] /\ \A r \in Run : previous[r] = None
  BY DEF Fact!Init
<1>10. calculated = None /\ appendLock = None /\ stale \in BOOLEAN BY DEF Fact!Init
<1> QED BY <1>1, <1>3, <1>4, <1>5, <1>6, <1>7, <1>8, <1>9, <1>10 DEF Types

\* The parts and the contents of a plan are well formed.
LEMMA NewParts ==
  ASSUME Fact!AppendAssumption, Types, NEW r \in Run, NEW s \in Segment, seq[r] # 0, upstream[s] # 0
  PROVE  [seq |-> seq[r], segment |-> s, content |-> upstream[s], contract |-> delta[r].contract] \in Fact!PartOf
<1>1. seq[r] \in Fact!Seqs BY Constants, SameCount DEF Types, Fact!Seqs
<1>2. upstream[s] \in Fact!Content BY Constants DEF Types, Fact!Upstream, Fact!Content
<1>3. delta[r].contract \in Contract BY DEF Types, Fact!Delta
<1> QED BY <1>1, <1>2, <1>3 DEF Fact!PartOf

LEMMA NewActive ==
  ASSUME Fact!AppendAssumption, Types, NEW r \in Run, appendPc[r] = "record", ReadInv(r)
  PROVE  Fact!CalculationManifest([contract |-> delta[r].contract, active |-> Fact!NextActive(r)])
<1> DEFINE d == delta[r]
           old == IF previous[r] = None THEN {} ELSE DOMAIN previous[r].active
           kept == {s \in Fact!Present(d.upstream) \ d.selected :
                      s \in old /\ previous[r].active[s].content = d.upstream[s]}
           gen == IF staged[r] = {} THEN 0 ELSE seq[r]
           new(s) == [content |-> d.upstream[s], gen |-> gen, parts |-> {p \in staged[r] : p.segment = s}]
<1>1. Fact!NextActive(r) = [s \in kept \cup d.selected |-> IF s \in d.selected THEN new(s) ELSE previous[r].active[s]]
  BY DEF Fact!NextActive
<1>2. d \in Fact!Delta /\ d.selected \subseteq Fact!Present(d.upstream) BY DEF ReadInv, Fact!Alive, Types
<1>3. d.contract \in Contract /\ d.upstream \in Fact!Upstream /\ d.selected \subseteq Segment
  BY <1>2 DEF Fact!Delta
<1>4. ASSUME NEW s \in d.selected PROVE new(s) \in Fact!Entry
  <2>1. d.upstream[s] \in Fact!Content
    BY <1>2, <1>3, <1>4, Constants DEF Fact!Present, Fact!Upstream, Fact!Content, Types
  <2>2. gen \in 0 .. Cardinality(Run) BY Constants DEF Types
  <2>3. {p \in staged[r] : p.segment = s} \in SUBSET Fact!PartOf BY DEF Types
  <2> QED BY SameCount, <2>1, <2>2, <2>3 DEF Fact!Entry
<1>5. ASSUME NEW s \in kept PROVE previous[r].active[s] \in Fact!Entry
  BY <1>5 DEF Types, Fact!CalculationManifest
<1>6. kept \subseteq Segment BY DEF Fact!Present
<1> HIDE DEF kept, gen, old, d
<1>7. DOMAIN Fact!NextActive(r) = kept \cup d.selected BY <1>1
<1>8. ASSUME NEW s \in kept \cup d.selected PROVE Fact!NextActive(r)[s] \in Fact!Entry
  <2>1. CASE s \in d.selected BY <1>1, <1>4, <2>1
  <2>2. CASE s \notin d.selected BY <1>1, <1>5, <1>8, <2>2
  <2> QED BY <2>1, <2>2
<1> QED BY <1>3, <1>6, <1>7, <1>8 DEF Fact!CalculationManifest, d

\* The numbers that are read are at most the last one given out: the next one is one more.
LEMMA NextNumber ==
  ASSUME Fact!AppendAssumption, Types, LogInv, NEW r \in Run, seen[r] = generations
  PROVE  Fact!NextSeq(r) = lastSeq + 1
<1> DEFINE S == {lastSeq} \cup {g.seq : g \in Fact!Range(seen[r])}
<1>1. lastSeq \in Nat BY Constants DEF Types
<1>2. \A n \in S : lastSeq >= n
  <2>1. \A g \in Fact!Range(seen[r]) : lastSeq >= g.seq BY DEF LogInv, Committed
  <2> QED BY <1>1, <2>1
<1>3. lastSeq \in S OBVIOUS
<1>4. S \subseteq Int
  <2>1. \A g \in Fact!Range(seen[r]) : g \in Fact!Generations BY DEF Types, Fact!Range
  <2>2. \A g \in Fact!Generations : g.seq \in Int BY Constants DEF Fact!Generations, Fact!Seqs, Types
  <2> QED BY <1>1, <2>1, <2>2
<1> HIDE DEF S
<1>5. Fact!Max(S) \in S /\ \A n \in S : Fact!Max(S) >= n
  <2>1. \E m \in S : \A n \in S : m >= n BY <1>2, <1>3
  <2>2. Fact!Max(S) = CHOOSE m \in S : \A n \in S : m >= n BY DEF Fact!Max
  <2> QED BY <2>1, <2>2
<1>6. \A m \in Int : m >= lastSeq /\ lastSeq >= m => m = lastSeq BY <1>1
<1>7. Fact!Max(S) \in Int /\ Fact!Max(S) >= lastSeq /\ lastSeq >= Fact!Max(S) BY <1>2, <1>3, <1>4, <1>5, Zenon
<1>8. Fact!Max(S) = lastSeq BY <1>6, <1>7, Zenon
<1> QED BY <1>8 DEF Fact!NextSeq, S

\* There is a number for every run.
LEMMA NumbersLast ==
  ASSUME Fact!AppendAssumption, Types, LogInv, NEW r \in Run, appendPc[r] \in Early
  PROVE  lastSeq + 1 \in 1 .. Cardinality(Run)
<1> DEFINE S == {q \in Run : appendPc[q] \notin Early}
<1>1. IsFiniteSet(Run) /\ Cardinality(Run) \in Nat /\ lastSeq \in Nat BY Constants DEF Types
<1>2. IsFiniteSet(S) /\ Cardinality(S) <= Cardinality(Run) BY <1>1, FS_Subset
<1>3. Cardinality(S) \in Nat BY <1>2, FS_CardinalityType
<1>4. Cardinality(S) # Cardinality(Run)
  <2>1. S # Run OBVIOUS
  <2> QED BY <1>1, <2>1, FS_Subset
<1>5. lastSeq <= Cardinality(S) BY DEF LogInv
<1> QED BY <1>1, <1>2, <1>3, <1>4, <1>5

LEMMA TypesStep ==
  ASSUME Fact!AppendAssumption, Types, LogInv, NEW r \in Run, Fact!Step(r), NumberInv(r), StagedInv(r),
         ReadInv(r)
  PROVE  Types'
<1> USE DEF Fact!environment, Fact!dataset, Fact!mutex
<1>0. /\ MaxVersion \in Nat \ {0} /\ Cardinality(Run) \in Nat /\ Fact!NoDelta \in Fact!Delta
      /\ deployment.contracts \subseteq Contract
  BY Constants DEF Types
<1>1. CASE Fact!Plan(r)
  <2> DEFINE new(c) == [contract |-> c, upstream |-> upstream,
               selected |-> {s \in Fact!Present(upstream) :
                 \/ calculated = None \/ calculated.contract # c
                 \/ s \notin (IF calculated = None THEN {} ELSE DOMAIN calculated.active)
                 \/ calculated.active[s].content # upstream[s]},
               removed |-> IF calculated = None \/ calculated.contract # c
                           THEN IF calculated = None THEN {} ELSE DOMAIN calculated.active
                           ELSE DOMAIN calculated.active \ Fact!Present(upstream)]
  <2>1. PICK c \in deployment.contracts : delta' = [delta EXCEPT ![r] = delta'[r]] /\ delta'[r] \in Fact!Delta
    <3>1. PICK c \in deployment.contracts :
            LET old == IF calculated = None THEN {} ELSE DOMAIN calculated.active
                full == calculated = None \/ calculated.contract # c
            IN delta' = [delta EXCEPT ![r] =
                 [contract |-> c, upstream |-> upstream,
                  selected |-> {s \in Fact!Present(upstream) :
                                  full \/ s \notin old \/ calculated.active[s].content # upstream[s]},
                  removed |-> IF full THEN old ELSE old \ Fact!Present(upstream)]]
      BY <1>1 DEF Fact!Plan
    <3>2. upstream \in Fact!Upstream /\ c \in Contract /\ Fact!Present(upstream) \subseteq Segment
      BY <1>0 DEF Types, Fact!Present
    <3>3. calculated # None => DOMAIN calculated.active \subseteq Segment BY DEF Types, Fact!CalculationManifest
    <3> QED BY <3>1, <3>2, <3>3 DEF Types, Fact!Delta
  <2>2. delta' \in [Run -> Fact!Delta] BY <2>1 DEF Types
  <2>3. appendPc' \in [Run -> {"idle"} \cup Fact!Alive \cup Fact!Ended]
    BY <1>1 DEF Fact!Plan, Fact!Goto, Types, Fact!Alive, Fact!Reading
  <2> QED BY <1>1, <2>2, <2>3 DEF Fact!Plan, Types, Fact!CalculationManifest
<1>2. CASE Fact!ReadPrevious(r)
  <2>1. appendPc' \in [Run -> {"idle"} \cup Fact!Alive \cup Fact!Ended]
    BY <1>2 DEF Fact!ReadPrevious, Fact!Goto, Types, Fact!Alive, Fact!Waiting
  <2>2. DOMAIN previous' = Run /\ previous' = [q \in Run |-> previous'[q]]
    BY <1>2 DEF Fact!ReadPrevious, Types
  <2>3. \A q \in Run : previous'[q] = IF q = r THEN calculated ELSE previous[q]
    BY <1>2 DEF Fact!ReadPrevious, Types
  <2> QED BY <1>2, <2>1, <2>2, <2>3 DEF Fact!ReadPrevious, Types, Fact!CalculationManifest
<1>3. CASE Fact!Acquire(r) \/ Fact!FindStale(r) \/ Fact!BreakLock(r) \/ Fact!UnlockReserved(r)
              \/ Fact!UnlockCommitted(r)
  <2>1. appendPc' \in [Run -> {"idle"} \cup Fact!Alive \cup Fact!Ended]
    <3>1. CASE Fact!Acquire(r) \/ Fact!BreakLock(r)
      BY <3>1 DEF Fact!Acquire, Fact!BreakLock, Fact!Goto, Types, Fact!Alive, Fact!Waiting, Fact!Locked
    <3>2. CASE Fact!FindStale(r) BY <3>2 DEF Fact!FindStale, Fact!Goto, Types, Fact!Alive, Fact!Breaking
    <3>3. CASE Fact!UnlockReserved(r) \/ Fact!UnlockCommitted(r)
      BY <3>3 DEF Fact!UnlockReserved, Fact!UnlockCommitted, Fact!Goto, Types, Fact!Alive, Fact!Reading
    <3> QED BY <1>3, <3>1, <3>2, <3>3
  <2>2. appendLock' \in Run \cup {None} /\ stale' \in BOOLEAN
    BY <1>3
    DEF Fact!Acquire, Fact!FindStale, Fact!BreakLock, Fact!UnlockReserved, Fact!UnlockCommitted,
        Fact!Released, Types
  <2>3. UNCHANGED <<deployment, upstream, generations, files, lastSeq, calculated, segmentStaging, Fact!run>>
    BY <1>3 DEF Fact!Acquire, Fact!FindStale, Fact!BreakLock, Fact!UnlockReserved, Fact!UnlockCommitted
  <2> QED BY <2>1, <2>2, <2>3 DEF Fact!run, Types, Fact!CalculationManifest
<1>4. CASE Fact!EndStaging(r) \/ Fact!StagingFails(r) \/ Fact!CommitFails(r)
  <2>1. appendPc' \in [Run -> {"idle"} \cup Fact!Alive \cup Fact!Ended]
    BY <1>4
    DEF Fact!EndStaging, Fact!StagingFails, Fact!CommitFails, Fact!Goto, Types, Fact!Alive,
        Fact!Waiting, Fact!Locked
  <2>2. files' \subseteq Fact!PartOf BY <1>4 DEF Fact!EndStaging, Fact!StagingFails, Fact!CommitFails, Types
  <2>3. UNCHANGED <<deployment, upstream, generations, lastSeq, calculated, segmentStaging, appendLock,
                    stale, Fact!run>>
    BY <1>4 DEF Fact!EndStaging, Fact!StagingFails, Fact!CommitFails
  <2> QED BY <2>1, <2>2, <2>3 DEF Fact!run, Types, Fact!CalculationManifest
<1>5. ASSUME Fact!Forget(r)
      PROVE  /\ delta' \in [Run -> Fact!Delta] /\ seq' \in [Run -> 0 .. Cardinality(Run)]
             /\ staged' \in [Run -> SUBSET Fact!PartOf] /\ moved' \in [Run -> SUBSET Fact!PartOf]
             /\ seen' \in [Run -> Seq(Fact!Generations)]
             /\ DOMAIN previous' = Run /\ previous' = [q \in Run |-> previous'[q]]
             /\ \A q \in Run : previous'[q] = None \/ Fact!CalculationManifest(previous'[q])
  <2>1. delta' \in [Run -> Fact!Delta] /\ seq' \in [Run -> 0 .. Cardinality(Run)]
    BY <1>0, <1>5 DEF Fact!Forget, Types
  <2>2. staged' \in [Run -> SUBSET Fact!PartOf] /\ moved' \in [Run -> SUBSET Fact!PartOf]
    BY <1>5 DEF Fact!Forget, Types
  <2>3. <<>> \in Seq(Fact!Generations) OBVIOUS
  <2>4. seen' \in [Run -> Seq(Fact!Generations)] BY <1>5, <2>3 DEF Fact!Forget, Types
  <2>5. DOMAIN previous' = Run /\ previous' = [q \in Run |-> previous'[q]] BY <1>5 DEF Fact!Forget, Types
  <2>6. \A q \in Run : previous'[q] = IF q = r THEN None ELSE previous[q] BY <1>5 DEF Fact!Forget, Types
  <2>7. \A q \in Run : previous'[q] = None \/ Fact!CalculationManifest(previous'[q]) BY <2>6 DEF Types
  <2> QED BY <2>1, <2>2, <2>4, <2>5, <2>7
<1>6. CASE Fact!LockTimeout(r)
  <2>1. appendPc' \in [Run -> {"idle"} \cup Fact!Alive \cup Fact!Ended]
    BY <1>6 DEF Fact!LockTimeout, Fact!Goto, Types, Fact!Alive, Fact!Ended
  <2>2. UNCHANGED <<deployment, upstream, generations, files, lastSeq, calculated, segmentStaging,
                    appendLock, stale>>
    BY <1>6 DEF Fact!LockTimeout
  <2>3. CASE Fact!Forget(r) BY <1>5, <2>1, <2>2, <2>3 DEF Types, Fact!CalculationManifest
  <2>4. CASE UNCHANGED Fact!run BY <2>1, <2>2, <2>4 DEF Fact!run, Types, Fact!CalculationManifest
  <2> QED BY <1>6, <2>3, <2>4 DEF Fact!LockTimeout
<1>7. CASE Fact!Die(r)
  <2>1. appendPc' \in [Run -> {"idle"} \cup Fact!Alive \cup Fact!Ended] BY <1>7 DEF Fact!Die, Types, Fact!Ended
  <2> QED BY <1>5, <1>7, <2>1 DEF Fact!Die, Types, Fact!CalculationManifest
<1>8. CASE Fact!Rollback(r)
  <2>1. appendPc' \in [Run -> {"idle"} \cup Fact!Alive \cup Fact!Ended]
    BY <1>8 DEF Fact!Rollback, Fact!Goto, Types, Fact!Alive, Fact!Ended
  <2>2. UNCHANGED <<deployment, upstream, generations, files, lastSeq, calculated, appendLock, stale>>
    BY <1>8 DEF Fact!Rollback
  <2>3. segmentStaging' \subseteq [key : Fact!RunKey, part : Fact!PartOf] BY <1>8 DEF Fact!Rollback, Types
  <2>4. CASE Fact!Forget(r) BY <1>5, <2>1, <2>2, <2>3, <2>4 DEF Types, Fact!CalculationManifest
  <2>5. CASE UNCHANGED Fact!run BY <2>1, <2>2, <2>3, <2>5 DEF Fact!run, Types, Fact!CalculationManifest
  <2> QED BY <1>8, <2>4, <2>5 DEF Fact!Rollback
<1>9. CASE Fact!Record(r)
  <2>1. appendPc' \in [Run -> {"idle"} \cup Fact!Alive \cup Fact!Ended]
    BY <1>9 DEF Fact!Record, Fact!Goto, Types, Fact!Ended
  <2>2. Fact!CalculationManifest(calculated')
    <3>1. appendPc[r] = "record" BY <1>9 DEF Fact!Record, Fact!Goto
    <3>2. calculated' = [contract |-> delta[r].contract, active |-> Fact!NextActive(r)] BY <1>9 DEF Fact!Record
    <3> QED BY <3>1, <3>2, NewActive
  <2> QED BY <1>5, <1>9, <2>1, <2>2 DEF Fact!Record, Types, Fact!CalculationManifest
<1>10. CASE Fact!ReadForReserve(r)
  <2>1. appendPc' \in [Run -> {"idle"} \cup Fact!Alive \cup Fact!Ended]
    BY <1>10 DEF Fact!ReadForReserve, Fact!Goto, Types, Fact!Alive, Fact!Locked
  <2>2. seen' \in [Run -> Seq(Fact!Generations)] BY <1>10 DEF Fact!ReadForReserve, Types
  <2> QED BY <1>10, <2>1, <2>2 DEF Fact!ReadForReserve, Types, Fact!CalculationManifest
<1>11. CASE Fact!Reserve(r)
  <2>1. appendPc[r] = "reserved" /\ appendPc' \in [Run -> {"idle"} \cup Fact!Alive \cup Fact!Ended]
    BY <1>11 DEF Fact!Reserve, Fact!Goto, Types, Fact!Alive, Fact!Locked
  <2>2. <<>> \in Seq(Fact!Generations) OBVIOUS
  <2>3. seen' \in [Run -> Seq(Fact!Generations)] BY <1>11, <2>2 DEF Fact!Reserve, Types
  <2>4. /\ seq' \in [Run -> 0 .. Cardinality(Run)]
        /\ lastSeq' \in 0 .. Cardinality(Run)
    <3>1. CASE Fact!Same(r) # {}
      <4>1. PICK g \in Fact!Same(r) : seq' = [seq EXCEPT ![r] = g.seq] BY <1>11, <3>1 DEF Fact!Reserve
      <4>2. g \in Fact!Generations BY DEF Fact!Same, Fact!Range, Types
      <4>3. g.seq \in 0 .. Cardinality(Run) BY SameCount, <1>0, <4>2 DEF Fact!Generations, Fact!Seqs
      <4> QED BY <1>11, <3>1, <4>1, <4>3 DEF Fact!Reserve, Types
    <3>2. CASE Fact!Same(r) = {}
      <4>1. Fact!NextSeq(r) = lastSeq + 1 /\ lastSeq + 1 \in 1 .. Cardinality(Run)
        BY <2>1, NextNumber, NumbersLast DEF NumberInv, Early
      <4>2. seq' = [seq EXCEPT ![r] = lastSeq + 1] /\ lastSeq' = lastSeq + 1
        BY <1>11, <3>2, <4>1 DEF Fact!Reserve
      <4>3. lastSeq + 1 \in 0 .. Cardinality(Run) BY <1>0, <4>1
      <4> QED BY <4>2, <4>3 DEF Types
    <3> QED BY <3>1, <3>2
  <2> QED BY <1>11, <2>1, <2>3, <2>4 DEF Fact!Reserve, Types, Fact!CalculationManifest
<1>12. CASE \E s \in Segment : Fact!StagePart(r, s)
  <2>1. PICK s \in Segment : Fact!StagePart(r, s) BY <1>12
  <2> DEFINE p == [seq |-> seq[r], segment |-> s, content |-> upstream[s], contract |-> delta[r].contract]
  <2>2. seq[r] # 0 BY <1>0, <2>1 DEF Fact!StagePart, Fact!Goto, NumberInv, Numbered, Types
  <2>3. p \in Fact!PartOf BY <2>1, <2>2, NewParts DEF Fact!StagePart
  <2>4. appendPc' \in [Run -> {"idle"} \cup Fact!Alive \cup Fact!Ended]
    BY <2>1 DEF Fact!StagePart, Fact!Goto, Types
  <2>5. /\ staged' = [staged EXCEPT ![r] = @ \cup {p}]
        /\ segmentStaging' = segmentStaging \cup {Fact!StagedUnder(delta[r], p)}
    BY <2>1 DEF Fact!StagePart
  <2>6. staged' \in [Run -> SUBSET Fact!PartOf] BY <2>3, <2>5 DEF Types
  <2>7. segmentStaging' \subseteq [key : Fact!RunKey, part : Fact!PartOf]
    BY <2>3, <2>5 DEF Types, Fact!StagedUnder, Fact!RunKey
  <2> QED BY <2>1, <2>4, <2>6, <2>7 DEF Fact!StagePart, Types, Fact!CalculationManifest
<1>13. CASE Fact!Decide(r)
  <2>1. appendPc' \in [Run -> {"idle"} \cup Fact!Alive \cup Fact!Ended]
    BY <1>13 DEF Fact!Decide, Fact!Goto, Types, Fact!Alive, Fact!Locked
  <2>2. seen' \in [Run -> Seq(Fact!Generations)] BY <1>13 DEF Fact!Decide, Types
  <2>3. seq' \in [Run -> 0 .. Cardinality(Run)] /\ staged' \in [Run -> SUBSET Fact!PartOf]
    <3>1. CASE UNCHANGED <<seq, staged>> BY <3>1 DEF Types
    <3>2. ASSUME NEW g \in Fact!Range(generations), seq' = [seq EXCEPT ![r] = g.seq],
                 staged' = [staged EXCEPT ![r] = g.files]
          PROVE  seq' \in [Run -> 0 .. Cardinality(Run)] /\ staged' \in [Run -> SUBSET Fact!PartOf]
      <4>1. g \in Fact!Generations BY <3>2 DEF Fact!Range, Types
      <4>2. g.seq \in 0 .. Cardinality(Run) /\ g.files \in SUBSET Fact!PartOf
        BY SameCount, <1>0, <4>1 DEF Fact!Generations, Fact!Seqs
      <4> QED BY <3>2, <4>2 DEF Types
    <3> QED BY <1>13, <3>1, <3>2 DEF Fact!Decide
  <2> QED BY <1>13, <2>1, <2>2, <2>3 DEF Fact!Decide, Types, Fact!CalculationManifest
<1>14. CASE Fact!MovePart(r)
  <2>1. appendPc' \in [Run -> {"idle"} \cup Fact!Alive \cup Fact!Ended]
    BY <1>14 DEF Fact!MovePart, Fact!Goto, Types
  <2>2. PICK p \in staged[r] \ moved[r] :
          /\ segmentStaging' = segmentStaging \ {Fact!StagedUnder(delta[r], p)}
          /\ files' = {f \in files : f.seq # p.seq \/ f.segment # p.segment} \cup {p}
          /\ moved' = [moved EXCEPT ![r] = @ \cup {p}]
    BY <1>14 DEF Fact!MovePart
  <2>3. p \in Fact!PartOf BY DEF Types
  <2>4. moved' \in [Run -> SUBSET Fact!PartOf] BY <2>2, <2>3 DEF Types
  <2>5. files' \subseteq Fact!PartOf /\ segmentStaging' \subseteq [key : Fact!RunKey, part : Fact!PartOf]
    BY <2>2, <2>3 DEF Types
  <2> QED BY <1>14, <2>1, <2>4, <2>5 DEF Fact!MovePart, Types, Fact!CalculationManifest
<1>15. CASE Fact!Publish(r)
  <2>1. appendPc[r] = "move" /\ appendPc' \in [Run -> {"idle"} \cup Fact!Alive \cup Fact!Ended]
    BY <1>15 DEF Fact!Publish, Fact!Goto, Types, Fact!Alive, Fact!Locked
  <2> DEFINE g == [seq |-> seq[r], key |-> delta[r], files |-> staged[r]]
  <2>2. g \in Fact!Generations
    <3>1. seq[r] \in Fact!Seqs BY SameCount, <1>0, <2>1 DEF NumberInv, Numbered, Types, Fact!Seqs
    <3> QED BY <3>1 DEF Types, Fact!Generations, Fact!RunKey
  <2>3. generations' = Append(seen[r], g) BY <1>15 DEF Fact!Publish
  <2>4. generations' \in Seq(Fact!Generations) BY <2>2, <2>3 DEF Types
  <2> QED BY <1>15, <2>1, <2>4 DEF Fact!Publish, Fact!run, Types, Fact!CalculationManifest
<1> QED
  BY <1>1, <1>2, <1>3, <1>4, <1>6, <1>7, <1>8, <1>9, <1>10, <1>11, <1>12, <1>13, <1>14, <1>15
  DEF Fact!Step, Fact!Locking, Fact!Reserving, Fact!Staging, Fact!Committing

LEMMA TypesOutside ==
  ASSUME Fact!AppendAssumption, Types,
         (\E s \in Segment : Fact!ReplaceUpstream(s)) \/ Fact!LockAges \/ UNCHANGED Fact!vars
  PROVE  Types'
<1> USE DEF Fact!environment, Fact!dataset, Fact!mutex
<1>1. CASE \E s \in Segment : Fact!ReplaceUpstream(s)
  <2>1. upstream' \in Fact!Upstream BY <1>1 DEF Fact!ReplaceUpstream, Types, Fact!Upstream
  <2> QED BY <1>1, <2>1 DEF Fact!ReplaceUpstream, Fact!run, Types, Fact!CalculationManifest
<1>2. CASE Fact!LockAges BY <1>2 DEF Fact!LockAges, Fact!run, Types, Fact!CalculationManifest
<1>3. CASE UNCHANGED Fact!vars BY <1>3 DEF Fact!vars, Fact!run, Types, Fact!CalculationManifest
<1> QED BY <1>1, <1>2, <1>3

-----------------------------------------------------------------------------
(* The lock *)

\* Only a plan makes a run alive.
LEMMA AliveStays ==
  ASSUME Types, NEW r \in Run, Fact!Step(r), ~Fact!Plan(r)
  PROVE  appendPc[r] \in Fact!Alive
<1>1. CASE Fact!ReadPrevious(r) \/ Fact!Record(r) \/ Fact!Die(r)
  BY <1>1 DEF Fact!ReadPrevious, Fact!Record, Fact!Die, Fact!Goto, Fact!Alive, Fact!Reading
<1>2. CASE Fact!Locking(r)
  BY <1>2
  DEF Fact!Locking, Fact!Acquire, Fact!FindStale, Fact!BreakLock, Fact!LockTimeout, Fact!Goto,
      Fact!Alive, Fact!Waiting, Fact!Breaking
<1>3. CASE Fact!Reserving(r)
  BY <1>3
  DEF Fact!Reserving, Fact!ReadForReserve, Fact!Reserve, Fact!UnlockReserved, Fact!Goto, Fact!Alive,
      Fact!Locked
<1>4. CASE Fact!Staging(r)
  BY <1>4
  DEF Fact!Staging, Fact!StagePart, Fact!EndStaging, Fact!StagingFails, Fact!Goto, Fact!Alive,
      Fact!Reading
<1>5. CASE Fact!Committing(r)
  BY <1>5
  DEF Fact!Committing, Fact!Decide, Fact!MovePart, Fact!Publish, Fact!CommitFails, Fact!UnlockCommitted,
      Fact!Rollback, Fact!Goto, Fact!Alive, Fact!Locked
<1> QED BY <1>1, <1>2, <1>3, <1>4, <1>5 DEF Fact!Step

LEMMA OneAliveStep ==
  ASSUME Types, OneAlive, NEW r \in Run, Fact!Step(r)
  PROVE  OneAlive'
<1>1. SUFFICES ASSUME ~deployment.overlap, NEW q \in Run \ {r}, appendPc'[q] \in Fact!Alive,
                      appendPc'[r] \in Fact!Alive
               PROVE  FALSE
  <2>1. ASSUME ~deployment.overlap, NEW p \in Run, NEW q \in Run, appendPc'[p] \in Fact!Alive,
               appendPc'[q] \in Fact!Alive, p # q
        PROVE  FALSE
    <3>1. CASE p = r BY <1>1, <2>1, <3>1
    <3>2. CASE q = r BY <1>1, <2>1, <3>2
    <3>3. CASE p # r /\ q # r
      <4>1. appendPc[p] \in Fact!Alive /\ appendPc[q] \in Fact!Alive BY <2>1, <3>3, OthersUnmoved DEF Unmoved
      <4> QED BY <2>1, <4>1 DEF OneAlive
    <3> QED BY <3>1, <3>2, <3>3
  <2> QED BY <2>1, EnvironmentStays DEF Fact!environment, OneAlive
<1>2. appendPc[q] \in Fact!Alive BY <1>1, OthersUnmoved DEF Unmoved
<1>3. CASE Fact!Plan(r) BY <1>1, <1>2, <1>3 DEF Fact!Plan
<1>4. CASE ~Fact!Plan(r)
  <2>1. appendPc[r] \in Fact!Alive BY <1>4, AliveStays
  <2> QED BY <1>1, <1>2, <2>1 DEF OneAlive
<1> QED BY <1>3, <1>4

\* Nobody takes the lock from a run inside it.
LEMMA LockStep ==
  ASSUME Fact!AppendAssumption, LocksHold, Types, OneAlive, LockInv, NEW r \in Run, Fact!Step(r)
  PROVE  LockInv'
<1>0. None \notin Run /\ (deployment.overlap => deployment.breakAtomically /\ deployment.heldBriefly) /\ UNCHANGED deployment
  BY Constants, EnvironmentStays DEF Fact!environment, Types, LocksHold
<1>1. /\ \A q \in Run : appendPc[q] \in Fact!Locked => appendLock = q
      /\ \A q \in Run : appendPc[q] \in Fact!Breaking => ~deployment.breakAtomically
      /\ appendLock # None => appendLock \in Run /\ appendPc[appendLock] # "idle"
      /\ stale => appendLock # None
      /\ stale /\ deployment.heldBriefly => appendPc[appendLock] \notin Fact!Alive
  BY DEF LockInv, Types
<1>2. appendPc[r] \notin Fact!Ended \cup {"idle"} \/ Fact!Plan(r)
  BY AliveStays DEF Fact!Alive, Fact!Ended, Fact!Waiting, Fact!Breaking, Fact!Locked, Fact!Reading
<1>3. \A q \in Run \ {r} : appendPc'[q] = appendPc[q] BY OthersUnmoved DEF Unmoved
<1>4. ASSUME UNCHANGED <<appendLock, stale>>,
             appendPc'[r] \in Fact!Locked => appendPc[r] \in Fact!Locked,
             appendPc'[r] \in Fact!Breaking => ~deployment.breakAtomically,
             appendPc'[r] # "idle",
             appendPc'[r] \in Fact!Alive => appendPc[r] \in Fact!Alive \cup {"idle"}
      PROVE  LockInv'
  BY <1>0, <1>1, <1>3, <1>4 DEF LockInv
<1>5. CASE Fact!Plan(r) \/ Fact!ReadPrevious(r) \/ Fact!Record(r)
  <2>1. UNCHANGED <<appendLock, stale>> BY <1>5 DEF Fact!Plan, Fact!ReadPrevious, Fact!Record, Fact!mutex
  <2>2. appendPc'[r] \in {"previous", "record", "lock1", "done"}
    BY <1>5, Moves DEF Fact!Plan, Fact!ReadPrevious, Fact!Record
  <2>3. appendPc'[r] \in Fact!Alive => appendPc[r] \in Fact!Alive \cup {"idle"}
    BY <1>5, AliveStays DEF Fact!Plan, Fact!Goto
  <2>4. appendPc'[r] \notin Fact!Locked \cup Fact!Breaking \cup {"idle"} BY <2>2 DEF Fact!Locked, Fact!Breaking
  <2> QED BY <1>4, <2>1, <2>3, <2>4
<1>6. CASE Fact!Acquire(r)
  <2>1. appendLock = None /\ appendLock' = r /\ stale' = FALSE /\ appendPc'[r] \in {"reserve", "decide"}
    BY <1>6, Moves DEF Fact!Acquire
  <2> QED BY <1>0, <1>1, <1>3, <2>1 DEF LockInv, Fact!Breaking
<1>7. CASE Fact!FindStale(r)
  <2>1. CASE deployment.breakAtomically
    <3>1. appendLock' = None /\ stale' = FALSE /\ appendPc' = appendPc /\ appendLock # None /\ stale
      BY <1>7, <2>1 DEF Fact!FindStale
    <3>2. \A q \in Run : appendPc[q] \notin Fact!Locked
      <4>1. CASE deployment.heldBriefly BY <1>1, <3>1, <4>1 DEF Fact!Alive
      <4>2. CASE ~deployment.heldBriefly
        <5>1. appendPc[r] \in Fact!Waiting BY <1>7, <2>1 DEF Fact!FindStale
        <5>2. \A q \in Run \ {r} : appendPc[q] \notin Fact!Alive
          BY <1>0, <4>2, <5>1 DEF OneAlive, Fact!Alive
        <5> QED BY <5>1, <5>2 DEF Fact!Alive, Fact!Waiting, Fact!Locked
      <4> QED BY <4>1, <4>2
    <3> QED BY <1>0, <1>1, <3>1, <3>2 DEF LockInv
  <2>2. CASE ~deployment.breakAtomically
    <3>1. UNCHANGED <<appendLock, stale>> /\ appendPc'[r] \in Fact!Breaking
      BY <1>7, <2>2, Moves DEF Fact!FindStale, Fact!mutex, Fact!Breaking
    <3>2. appendPc[r] \in Fact!Waiting BY <1>7, <2>2 DEF Fact!FindStale, Fact!Goto, Fact!Waiting
    <3> QED BY <1>4, <2>2, <3>1, <3>2 DEF Fact!Locked, Fact!Alive, Fact!Breaking
  <2> QED BY <2>1, <2>2
<1>8. CASE Fact!BreakLock(r)
  <2>1. /\ appendPc[r] \in Fact!Breaking /\ appendPc'[r] \in Fact!Waiting
        /\ appendLock' = None /\ stale' = FALSE
    BY <1>8, Moves DEF Fact!BreakLock, Fact!Breaking, Fact!Waiting
  <2>2. ~deployment.overlap /\ appendPc[r] \in Fact!Alive BY <1>0, <1>1, <2>1 DEF Fact!Alive
  <2>3. \A q \in Run \ {r} : appendPc[q] \notin Fact!Alive BY <2>2 DEF OneAlive
  <2> QED BY <1>0, <1>3, <2>1, <2>3 DEF LockInv, Fact!Alive, Fact!Waiting, Fact!Locked, Fact!Breaking
<1>9. CASE Fact!UnlockReserved(r) \/ Fact!UnlockCommitted(r)
  <2>1. /\ appendPc[r] \in {"unlock1", "unlock2", "unlockfailed"}
        /\ appendPc'[r] \in {"stage", "cleanup", "rollback"} /\ Fact!Released(r)
    BY <1>9, Moves DEF Fact!UnlockReserved, Fact!UnlockCommitted
  <2>2. appendLock = r BY <1>1, <2>1 DEF Fact!Locked
  <2>3. appendLock' = None /\ stale' = FALSE BY <2>1, <2>2 DEF Fact!Released
  <2>4. \A q \in Run \ {r} : appendPc[q] \notin Fact!Locked BY <1>1, <2>2
  <2> QED BY <1>0, <1>1, <1>3, <2>1, <2>3, <2>4 DEF LockInv, Fact!Locked, Fact!Breaking
<1>10. CASE Fact!LockTimeout(r) \/ Fact!Rollback(r) \/ Fact!Die(r)
  <2>1. UNCHANGED <<appendLock, stale>> BY <1>10 DEF Fact!LockTimeout, Fact!Rollback, Fact!Die, Fact!mutex
  <2>2. appendPc'[r] \in {"failed", "rollback", "record", "dead"}
    BY <1>10, Moves DEF Fact!LockTimeout, Fact!Rollback, Fact!Die, Types
  <2>3. appendPc[r] \in Fact!Alive
    BY <1>10, AliveStays
    DEF Fact!LockTimeout, Fact!Rollback, Fact!Die, Fact!Goto, Fact!Alive, Fact!Waiting
  <2> QED BY <1>4, <2>1, <2>2, <2>3 DEF Fact!Locked, Fact!Breaking
<1>11. CASE Fact!ReadForReserve(r) \/ Fact!Reserve(r) \/ Fact!Decide(r) \/ Fact!MovePart(r)
               \/ Fact!Publish(r) \/ Fact!CommitFails(r)
  <2>1. UNCHANGED <<appendLock, stale>>
    BY <1>11
    DEF Fact!ReadForReserve, Fact!Reserve, Fact!Decide, Fact!MovePart, Fact!Publish, Fact!CommitFails,
        Fact!mutex
  <2>2. appendPc[r] \in Fact!Locked /\ appendPc'[r] \in Fact!Locked
    BY <1>11, Moves
    DEF Fact!ReadForReserve, Fact!Reserve, Fact!Decide, Fact!MovePart, Fact!Publish, Fact!CommitFails,
        Fact!Locked
  <2> QED BY <1>4, <2>1, <2>2 DEF Fact!Locked, Fact!Breaking, Fact!Alive
<1>12. CASE Fact!Staging(r)
  <2>1. UNCHANGED <<appendLock, stale>>
    BY <1>12 DEF Fact!Staging, Fact!StagePart, Fact!EndStaging, Fact!StagingFails, Fact!mutex
  <2>2. appendPc[r] = "stage" /\ appendPc'[r] \in {"stage", "cleanup", "lock2", "rollback"}
    BY <1>12, Moves DEF Fact!Staging, Fact!StagePart, Fact!EndStaging, Fact!StagingFails
  <2> QED BY <1>4, <2>1, <2>2 DEF Fact!Locked, Fact!Breaking, Fact!Alive, Fact!Reading
<1> QED
  BY <1>5, <1>6, <1>7, <1>8, <1>9, <1>10, <1>11, <1>12
  DEF Fact!Step, Fact!Locking, Fact!Reserving, Fact!Committing

-----------------------------------------------------------------------------
(* Numbers *)

LEMMA LockedAlone ==
  ASSUME LockInv, NEW q \in Run, NEW r \in Run, appendPc[q] \in Fact!Locked, appendPc[r] \in Fact!Locked
  PROVE  q = r
BY DEF LockInv

\* A run that has a number does not become one without.
LEMMA NotEarlyAgain ==
  ASSUME Types, NEW r \in Run, Fact!Step(r), appendPc'[r] \in Early
  PROVE  appendPc[r] \in Early /\ ~Fact!Reserve(r)
<1>1. CASE Fact!Plan(r) BY <1>1 DEF Fact!Plan, Fact!Goto, Fact!Reserve, Early
<1>2. CASE Fact!ReadPrevious(r) BY <1>2 DEF Fact!ReadPrevious, Fact!Goto, Fact!Reserve, Early
<1>3. CASE Fact!Acquire(r) \/ Fact!BreakLock(r)
  <2>1. appendPc[r] \in {"lock1", "break1"} BY <1>3, Moves DEF Fact!Acquire, Fact!BreakLock, Early
  <2> QED BY <2>1 DEF Early, Fact!Reserve, Fact!Goto
<1>4. CASE Fact!FindStale(r)
  <2>1. CASE appendPc[r] = "lock1" BY <2>1 DEF Early, Fact!Reserve, Fact!Goto
  <2>2. CASE appendPc[r] = "lock2" /\ appendPc' = appendPc BY <2>2 DEF Early
  <2>3. CASE Fact!Goto(r, "lock2", "break2") BY <2>3, Moves DEF Early
  <2> QED BY <1>4, <2>1, <2>2, <2>3 DEF Fact!FindStale, Fact!Goto, Fact!Waiting
<1>5. CASE Fact!LockTimeout(r)
  <2>1. appendPc'[r] \in {"failed", "rollback"} BY <1>5 DEF Fact!LockTimeout, Fact!Goto, Types
  <2> QED BY <2>1 DEF Early
<1>6. CASE Fact!Reserving(r)
  <2>1. CASE Fact!ReadForReserve(r) BY <2>1 DEF Fact!ReadForReserve, Fact!Goto, Fact!Reserve, Early
  <2>2. CASE Fact!Reserve(r) \/ Fact!UnlockReserved(r)
    <3>1. appendPc'[r] \in {"unlock1", "stage"} BY <2>2, Moves DEF Fact!Reserve, Fact!UnlockReserved
    <3> QED BY <3>1 DEF Early
  <2> QED BY <1>6, <2>1, <2>2 DEF Fact!Reserving
<1>7. CASE Fact!Staging(r)
  <2>1. appendPc'[r] \in {"stage", "cleanup", "lock2", "rollback"}
    BY <1>7, Moves DEF Fact!Staging, Fact!StagePart, Fact!EndStaging, Fact!StagingFails
  <2> QED BY <2>1 DEF Early
<1>8. CASE Fact!Committing(r)
  BY <1>8, Moves
  DEF Fact!Committing, Fact!Decide, Fact!MovePart, Fact!Publish, Fact!CommitFails, Fact!UnlockCommitted,
      Fact!Rollback, Early
<1>9. CASE Fact!Record(r) BY <1>9, Moves DEF Fact!Record, Early
<1>10. CASE Fact!Die(r) BY <1>10 DEF Fact!Die, Types, Early
<1> QED BY <1>1, <1>2, <1>3, <1>4, <1>5, <1>6, <1>7, <1>8, <1>9, <1>10 DEF Fact!Step, Fact!Locking

\* What is committed after a step of run r.
LEMMA NewLog ==
  ASSUME Fact!AppendAssumption, Types, NEW r \in Run, Fact!Publish(r), NumberInv(r)
  PROVE  LET new == [seq |-> seq[r], key |-> delta[r], files |-> staged[r]]
         IN  /\ Committed' = Committed \cup {new} /\ new \in Fact!Generations
             /\ generations' = Append(generations, new)
<1> DEFINE new == [seq |-> seq[r], key |-> delta[r], files |-> staged[r]]
<1>1. appendPc[r] = "move" /\ generations' = Append(generations, new)
  BY DEF Fact!Publish, Fact!Goto, NumberInv
<1>2. new \in Fact!Generations
  <2>1. lastSeq \in 0 .. Cardinality(Run) /\ Cardinality(Run) \in Nat BY Constants DEF Types
  <2>2. seq[r] \in Fact!Seqs BY SameCount, <1>1, <2>1 DEF NumberInv, Numbered, Fact!Seqs
  <2> QED BY <2>2 DEF Types, Fact!Generations, Fact!RunKey
<1> HIDE DEF new
<1>3. generations \in Seq(Fact!Generations) BY DEF Types
<1>4. /\ Len(generations) \in Nat /\ Len(generations') = Len(generations) + 1
      /\ \A i \in 1 .. Len(generations) : generations'[i] = generations[i]
      /\ generations'[Len(generations) + 1] = new
      /\ DOMAIN generations = 1 .. Len(generations) /\ DOMAIN generations' = 1 .. Len(generations')
  <2>1. generations' \in Seq(Fact!Generations) BY <1>1, <1>2, <1>3, AppendProperties
  <2> QED BY <1>1, <1>2, <1>3, <2>1, AppendProperties
<1>5. Committed' = Committed \cup {new}
  <2>1. \A x : x \in Committed' <=> x \in Committed \cup {new}
    <3>1. ASSUME NEW x, x \in Committed' PROVE x \in Committed \cup {new}
      <4>1. PICK i \in 1 .. Len(generations') : x = generations'[i] BY <1>4, <3>1 DEF Committed, Fact!Range
      <4>2. CASE i = Len(generations) + 1 BY <1>4, <4>1, <4>2
      <4>3. CASE i \in 1 .. Len(generations) BY <1>4, <4>1, <4>3 DEF Committed, Fact!Range
      <4> QED BY <1>4, <4>1, <4>2, <4>3
    <3>2. ASSUME NEW x, x \in Committed PROVE x \in Committed'
      <4>1. PICK i \in 1 .. Len(generations) : x = generations[i] BY <1>4, <3>2 DEF Committed, Fact!Range
      <4>2. i \in DOMAIN generations' /\ generations'[i] = x BY <1>4, <4>1
      <4> QED BY <4>2 DEF Committed, Fact!Range
    <3>3. new \in Committed'
      <4>1. Len(generations) + 1 \in DOMAIN generations' BY <1>4
      <4> QED BY <1>4, <4>1 DEF Committed, Fact!Range
    <3> QED BY <3>1, <3>2, <3>3
  <2> QED BY <2>1
<1> QED BY <1>1, <1>2, <1>5 DEF new

\* What a run reserves.
LEMMA Reserved ==
  ASSUME Fact!AppendAssumption, Types, LogInv, NEW r \in Run, Fact!Reserve(r), NumberInv(r)
  PROVE  /\ appendPc[r] = "reserved" /\ appendPc'[r] = "unlock1" /\ Committed' = Committed /\ delta' = delta
         /\ \/ lastSeq' = lastSeq /\ \E g \in Committed : g.key = delta[r] /\ seq'[r] = g.seq
            \/ lastSeq' = lastSeq + 1 /\ seq'[r] = lastSeq + 1 /\ lastSeq + 1 \in 1 .. Cardinality(Run)
<1>1. appendPc[r] = "reserved" /\ appendPc'[r] = "unlock1" /\ generations' = generations /\ delta' = delta
  BY Moves DEF Fact!Reserve
<1>2. seen[r] = generations BY <1>1 DEF NumberInv
<1>3. CASE Fact!Same(r) # {}
  <2>1. PICK g \in Fact!Same(r) : seq' = [seq EXCEPT ![r] = g.seq] BY <1>3 DEF Fact!Reserve
  <2>2. g \in Committed /\ g.key = delta[r] BY <1>2 DEF Fact!Same, Committed
  <2>3. seq'[r] = g.seq /\ lastSeq' = lastSeq BY <1>3, <2>1 DEF Types, Fact!Reserve
  <2> QED BY <1>1, <2>2, <2>3 DEF Committed
<1>4. CASE Fact!Same(r) = {}
  <2>1. Fact!NextSeq(r) = lastSeq + 1 /\ lastSeq + 1 \in 1 .. Cardinality(Run)
    BY <1>1, <1>2, NextNumber, NumbersLast DEF Early
  <2>2. seq' = [seq EXCEPT ![r] = lastSeq + 1] /\ lastSeq' = lastSeq + 1 BY <1>4, <2>1 DEF Fact!Reserve
  <2>3. seq'[r] = lastSeq + 1 BY <2>2 DEF Types
  <2> QED BY <1>1, <2>1, <2>2, <2>3 DEF Committed
<1> QED BY <1>3, <1>4

LEMMA LogStep ==
  ASSUME Fact!AppendAssumption, Types, LogInv, NEW r \in Run, Fact!Step(r), NumberInv(r)
  PROVE  LogInv'
<1> DEFINE S == {q \in Run : appendPc[q] \notin Early}
<1>1. IsFiniteSet(Run) /\ lastSeq \in Nat BY Constants DEF Types
<1>2. S \subseteq S' BY NotEarlyAgain, OthersUnmoved DEF Unmoved
<1>3. IsFiniteSet(S) /\ IsFiniteSet(S') BY <1>1, FS_Subset
<1>4. Cardinality(S) \in Nat /\ Cardinality(S') \in Nat /\ Cardinality(S) <= Cardinality(S')
  BY <1>2, <1>3, FS_Subset, FS_CardinalityType
<1>5. lastSeq <= Cardinality(S) /\ \A g \in Committed : g.seq <= lastSeq BY DEF LogInv
<1> HIDE DEF S
<1>6. \A g, h \in Committed' : g.seq = h.seq => g.key = h.key
  <2>1. CASE UNCHANGED generations BY <2>1 DEF LogInv, Committed
  <2>2. CASE Fact!Publish(r)
    <3>1. Committed' = Committed \cup {[seq |-> seq[r], key |-> delta[r], files |-> staged[r]]}
      BY <2>2, NewLog
    <3>2. \A g \in Committed : g.seq = seq[r] => g.key = delta[r]
      BY <2>2 DEF Fact!Publish, Fact!Goto, NumberInv, Numbered
    <3> QED BY <3>1, <3>2 DEF LogInv
  <2> QED BY <2>1, <2>2, LogChanges
<1>7. SUFFICES lastSeq' <= Cardinality(S') /\ \A g \in Committed' : g.seq <= lastSeq'
  BY <1>6 DEF LogInv, S
<1>8. CASE UNCHANGED <<generations, lastSeq>> BY <1>1, <1>4, <1>5, <1>8 DEF Committed
<1>9. CASE Fact!Reserve(r)
  <2>1. appendPc[r] \in Early /\ appendPc'[r] \notin Early /\ Committed' = Committed BY <1>9, Reserved DEF Early
  <2>2. Cardinality(S) + 1 <= Cardinality(S')
    <3>1. r \in S' \ S BY <2>1 DEF S
    <3>2. S \cup {r} \in SUBSET S' BY <1>2, <3>1
    <3>3. Cardinality(S \cup {r}) = Cardinality(S) + 1 BY <1>3, <3>1, FS_AddElement
    <3> QED BY <1>3, <3>2, <3>3, FS_Subset
  <2>3. lastSeq' \in {lastSeq, lastSeq + 1} BY <1>9, Reserved
  <2>4. \A g \in Committed : g.seq \in Nat
    <3>1. \A g \in Committed : g \in Fact!Generations BY DEF Committed, Fact!Range, Types
    <3>2. Cardinality(Run) \in Nat BY Constants DEF Types
    <3> QED BY <3>1, <3>2 DEF Fact!Generations, Fact!Seqs
  <2>5. \A g \in Committed : g.seq <= lastSeq' BY <1>1, <1>5, <2>3, <2>4
  <2> QED BY <1>1, <1>4, <1>5, <2>1, <2>2, <2>3, <2>5
<1>10. CASE Fact!Publish(r) /\ lastSeq' = lastSeq
  <2>1. seq[r] <= lastSeq BY <1>1, <1>10 DEF Fact!Publish, Fact!Goto, NumberInv, Numbered
  <2>2. Committed' = Committed \cup {[seq |-> seq[r], key |-> delta[r], files |-> staged[r]]}
    BY <1>10, NewLog
  <2> QED BY <1>1, <1>4, <1>5, <1>10, <2>1, <2>2
<1> QED BY <1>8, <1>9, <1>10, LogChanges

\* Where a run that has a number after a step has it from.
LEMMA Numbering ==
  ASSUME Types, NEW r \in Run, Fact!Step(r), appendPc'[r] \in Numbered
  PROVE  \/ Fact!Reserve(r)
         \/ /\ appendPc[r] \in Numbered /\ seq'[r] = seq[r] /\ delta'[r] = delta[r]
            /\ UNCHANGED <<generations, lastSeq>>
            /\ appendPc'[r] = "move" => Fact!Decide(r) \/ (appendPc[r] = "move" /\ seen'[r] = seen[r])
<1>1. CASE Fact!Acquire(r) \/ Fact!FindStale(r) \/ Fact!BreakLock(r)
  <2>1. UNCHANGED <<generations, lastSeq, Fact!run>>
    BY <1>1 DEF Fact!Acquire, Fact!FindStale, Fact!BreakLock, Fact!dataset
  <2>2. appendPc'[r] # "move" /\ appendPc[r] \in {"lock2", "break2"}
    <3>1. CASE Fact!Acquire(r) BY <3>1, Moves DEF Fact!Acquire, Numbered
    <3>2. CASE Fact!FindStale(r)
      <4>1. CASE appendPc' = appendPc BY <3>2, <4>1 DEF Fact!FindStale, Fact!Goto, Fact!Waiting, Numbered
      <4>2. CASE Fact!Goto(r, "lock1", "break1") BY <4>2, Moves DEF Numbered
      <4>3. CASE Fact!Goto(r, "lock2", "break2") BY <4>3, Moves
      <4> QED BY <3>2, <4>1, <4>2, <4>3 DEF Fact!FindStale
    <3>3. CASE Fact!BreakLock(r)
      <4>1. CASE Fact!Goto(r, "break1", "lock1") BY <4>1, Moves DEF Numbered
      <4>2. CASE Fact!Goto(r, "break2", "lock2") BY <4>2, Moves
      <4> QED BY <3>3, <4>1, <4>2 DEF Fact!BreakLock
    <3> QED BY <1>1, <3>1, <3>2, <3>3
  <2> QED BY <2>1, <2>2, Stays DEF Keeps, Numbered
<1>2. CASE Fact!UnlockReserved(r) \/ Fact!EndStaging(r)
  <2>1. UNCHANGED <<generations, lastSeq, Fact!run>>
    BY <1>2 DEF Fact!UnlockReserved, Fact!EndStaging, Fact!dataset
  <2>2. appendPc[r] \in {"unlock1", "stage"} /\ appendPc'[r] \in {"stage", "cleanup", "lock2"}
    BY <1>2, Moves DEF Fact!UnlockReserved, Fact!EndStaging
  <2> QED BY <2>1, <2>2, Stays DEF Keeps, Numbered
<1>3. CASE \E s \in Segment : Fact!StagePart(r, s)
  <2>1. /\ UNCHANGED <<generations, lastSeq, delta, seq>> /\ appendPc[r] = "stage" /\ appendPc'[r] = "stage"
    BY <1>3, Moves DEF Fact!StagePart, Fact!dataset
  <2> QED BY <2>1 DEF Numbered
<1>4. CASE Fact!Decide(r)
  <2>1. CASE Fact!Goto(r, "decide", "unlock2") BY <2>1, Moves DEF Numbered
  <2>2. CASE Fact!Goto(r, "decide", "move") /\ UNCHANGED seq
    <3>1. UNCHANGED <<generations, lastSeq, delta>> BY <1>4 DEF Fact!Decide, Fact!dataset
    <3>2. appendPc[r] = "decide" BY <2>2 DEF Fact!Goto
    <3> QED BY <1>4, <2>2, <3>1, <3>2 DEF Numbered
  <2> QED BY <1>4, <2>1, <2>2 DEF Fact!Decide
<1>5. CASE Fact!MovePart(r) BY <1>5, Moves DEF Fact!MovePart, Numbered
<1>6. CASE Fact!Plan(r) \/ Fact!ReadPrevious(r) \/ Fact!ReadForReserve(r) \/ Fact!Record(r)
              \/ Fact!LockTimeout(r) \/ Fact!Die(r)
  <2>1. appendPc'[r] \in {"previous", "record", "lock1", "reserved", "done", "failed", "rollback", "dead"}
    BY <1>6
    DEF Fact!Plan, Fact!ReadPrevious, Fact!ReadForReserve, Fact!Record, Fact!LockTimeout, Fact!Die,
        Fact!Goto, Types
  <2> QED BY <2>1 DEF Numbered
<1>7. CASE Fact!StagingFails(r) \/ Fact!Publish(r) \/ Fact!CommitFails(r) \/ Fact!UnlockCommitted(r)
              \/ Fact!Rollback(r)
  <2>1. appendPc'[r] \in {"rollback", "unlock2", "unlockfailed", "cleanup", "record", "failed"}
    BY <1>7
    DEF Fact!StagingFails, Fact!Publish, Fact!CommitFails, Fact!UnlockCommitted, Fact!Rollback,
        Fact!Goto, Types
  <2> QED BY <2>1 DEF Numbered
<1> QED
  BY <1>1, <1>2, <1>3, <1>4, <1>5, <1>6, <1>7
  DEF Fact!Step, Fact!Locking, Fact!Reserving, Fact!Staging, Fact!Committing

LEMMA NumberOthers ==
  ASSUME Fact!AppendAssumption, Types, LogInv, LockInv, NumbersApart, NEW r \in Run, Fact!Step(r), NumberInv(r),
         NEW q \in Run \ {r}, NumberInv(q)
  PROVE  NumberInv(q)'
<1>1. Unmoved(q) BY OthersUnmoved
<1>2. CASE UNCHANGED <<generations, lastSeq>>
  BY <1>1, <1>2 DEF Unmoved, Keeps, NumberInv, Committed
<1>3. CASE Fact!Reserve(r) /\ UNCHANGED generations
  <2>1. lastSeq' \in {lastSeq, lastSeq + 1} /\ lastSeq \in Nat BY <1>3, Reserved, Constants DEF Types
  <2>2. appendPc[q] \in Numbered => seq[q] \in 1 .. lastSeq' BY <2>1 DEF NumberInv
  <2> QED BY <1>1, <1>3, <2>2 DEF Unmoved, Keeps, NumberInv, Committed
<1>4. CASE Fact!Publish(r) /\ UNCHANGED lastSeq
  <2> DEFINE new == [seq |-> seq[r], key |-> delta[r], files |-> staged[r]]
  <2>1. appendPc[r] = "move" /\ Committed' = Committed \cup {new} BY <1>4, NewLog DEF Fact!Publish, Fact!Goto
  <2>2. appendPc[q] \notin Fact!Locked BY <2>1, LockedAlone DEF Fact!Locked
  <2>3. appendPc[q] \in Numbered /\ new.seq = seq[q] => new.key = delta[q]
    BY <2>1 DEF NumbersApart, Numbered
  <2> QED BY <1>1, <1>4, <2>1, <2>2, <2>3 DEF Unmoved, Keeps, NumberInv, Fact!Locked
<1> QED BY <1>2, <1>3, <1>4, LogChanges

LEMMA NumberOwn ==
  ASSUME Fact!AppendAssumption, Types, LogInv, LockInv, NumbersApart, NEW r \in Run, Fact!Step(r), NumberInv(r),
         \A q \in Run \ {r} : NumberInv(q)
  PROVE  NumberInv(r)'
<1>1. appendPc'[r] = "reserved" => seen'[r] = generations'
  <2>1. appendPc'[r] = "reserved" => Fact!ReadForReserve(r)
    <3>1. SUFFICES ASSUME appendPc'[r] = "reserved", ~Fact!ReadForReserve(r) PROVE FALSE OBVIOUS
    <3>2. ~Fact!Reserve(r) BY <3>1, NotEarlyAgain DEF Early
    <3>3. CASE Fact!Plan(r) \/ Fact!ReadPrevious(r) \/ Fact!Record(r) \/ Fact!Die(r)
      BY <3>1, <3>3 DEF Fact!Plan, Fact!ReadPrevious, Fact!Record, Fact!Die, Fact!Goto, Types
    <3>4. CASE Fact!Acquire(r) \/ Fact!BreakLock(r) \/ Fact!LockTimeout(r)
      BY <3>1, <3>4 DEF Fact!Acquire, Fact!BreakLock, Fact!LockTimeout, Fact!Goto, Types
    <3>5. CASE Fact!FindStale(r) BY <3>1, <3>5 DEF Fact!FindStale, Fact!Goto, Types, Fact!Waiting
    <3>6. CASE Fact!UnlockReserved(r) \/ Fact!Staging(r)
      BY <3>1, <3>6
      DEF Fact!UnlockReserved, Fact!Staging, Fact!StagePart, Fact!EndStaging, Fact!StagingFails,
          Fact!Goto, Types
    <3>7. CASE Fact!Committing(r)
      BY <3>1, <3>7
      DEF Fact!Committing, Fact!Decide, Fact!MovePart, Fact!Publish, Fact!CommitFails,
          Fact!UnlockCommitted, Fact!Rollback, Fact!Goto, Types
    <3> QED BY <3>1, <3>2, <3>3, <3>4, <3>5, <3>6, <3>7 DEF Fact!Step, Fact!Locking, Fact!Reserving
  <2>2. Fact!ReadForReserve(r) => seen'[r] = generations' BY DEF Fact!ReadForReserve, Fact!dataset, Types
  <2> QED BY <2>1, <2>2
<1>2. CASE appendPc'[r] \notin Numbered BY <1>1, <1>2 DEF NumberInv, Numbered
<1>3. CASE appendPc'[r] \in Numbered /\ Fact!Reserve(r)
  <2>1. appendPc'[r] = "unlock1" /\ Committed' = Committed /\ delta' = delta BY <1>3, Reserved
  <2>2. \A g \in Committed : g.seq \in 1 .. lastSeq
    <3>1. \A g \in Committed : g \in Fact!Generations BY DEF Committed, Fact!Range, Types
    <3>2. Cardinality(Run) \in Nat /\ lastSeq \in Nat BY Constants DEF Types
    <3> QED BY <3>1, <3>2 DEF Fact!Generations, Fact!Seqs, LogInv
  <2>3. ASSUME NEW g \in Committed, g.key = delta[r], seq'[r] = g.seq, lastSeq' = lastSeq
        PROVE  NumberInv(r)'
    <3>1. seq'[r] \in 1 .. lastSeq' BY <2>2, <2>3
    <3>2. \A h \in Committed : h.seq = seq'[r] => h.key = delta[r] BY <2>3 DEF LogInv
    <3> QED BY <2>1, <3>1, <3>2 DEF NumberInv
  <2>4. ASSUME lastSeq' = lastSeq + 1, seq'[r] = lastSeq + 1
        PROVE  NumberInv(r)'
    <3>1. lastSeq \in Nat BY Constants DEF Types
    <3>2. \A h \in Committed : h.seq # lastSeq + 1 BY <2>2, <3>1
    <3> QED BY <2>1, <2>4, <3>1, <3>2 DEF NumberInv
  <2> QED BY <1>3, <2>3, <2>4, Reserved
<1>4. CASE appendPc'[r] \in Numbered /\ ~Fact!Reserve(r)
  <2>1. /\ appendPc[r] \in Numbered /\ seq'[r] = seq[r] /\ delta'[r] = delta[r]
        /\ UNCHANGED <<generations, lastSeq>>
        /\ appendPc'[r] = "move" => Fact!Decide(r) \/ (appendPc[r] = "move" /\ seen'[r] = seen[r])
    BY <1>4, Numbering
  <2>2. ASSUME appendPc'[r] = "move" PROVE seen'[r] = generations' /\ \A g \in Committed : g.key # delta[r]
    <3>1. CASE Fact!Decide(r)
      <4>1. Fact!Goto(r, "decide", "move") BY <2>2, <3>1, Moves DEF Fact!Decide
      <4>2. \A g \in Committed : g.key # delta[r] BY <2>2, <3>1, Moves DEF Fact!Decide, Committed
      <4> QED BY <3>1, <4>2 DEF Fact!Decide, Fact!dataset, Types
    <3>2. CASE appendPc[r] = "move" /\ seen'[r] = seen[r] BY <2>1, <3>2 DEF NumberInv
    <3> QED BY <2>1, <2>2, <3>1, <3>2
  <2> QED BY <1>1, <2>1, <2>2 DEF NumberInv, Committed
<1> QED BY <1>2, <1>3, <1>4

LEMMA NumbersApartStep ==
  ASSUME Fact!AppendAssumption, Types, LogInv, NumbersApart, NEW r \in Run, Fact!Step(r),
         \A q \in Run : NumberInv(q)
  PROVE  NumbersApart'
<1>1. ASSUME NEW q \in Run \ {r}, appendPc'[q] \in Numbered, appendPc'[r] \in Numbered, seq'[q] = seq'[r]
      PROVE  delta'[q] = delta'[r]
  <2>1. /\ appendPc[q] \in Numbered /\ seq'[q] = seq[q] /\ delta'[q] = delta[q]
        /\ seq[q] \in 1 .. lastSeq /\ \A g \in Committed : g.seq = seq[q] => g.key = delta[q]
    BY <1>1, OthersUnmoved DEF Unmoved, Keeps, NumberInv
  <2>2. CASE Fact!Reserve(r)
    <3>1. delta' = delta BY <2>2, Reserved
    <3>2. lastSeq \in Nat BY Constants DEF Types
    <3>3. seq'[r] # lastSeq + 1 BY <1>1, <2>1, <3>2
    <3>4. PICK g \in Committed : g.key = delta[r] /\ seq'[r] = g.seq BY <2>2, <3>3, Reserved
    <3> QED BY <1>1, <2>1, <3>1, <3>4
  <2>3. CASE ~Fact!Reserve(r)
    <3>1. appendPc[r] \in Numbered /\ seq'[r] = seq[r] /\ delta'[r] = delta[r] BY <1>1, <2>3, Numbering
    <3> QED BY <1>1, <2>1, <3>1 DEF NumbersApart
  <2> QED BY <2>2, <2>3
<1>2. \A q \in Run \ {r} : Unmoved(q) BY OthersUnmoved
<1> QED BY <1>1, <1>2 DEF NumbersApart, Unmoved, Keeps

-----------------------------------------------------------------------------
(* Parts *)

\* Parts are put in place and removed only by a run inside the lock.
LEMMA FilesChange ==
  ASSUME NEW r \in Run, Fact!Step(r)
  PROVE  files' = files \/ Fact!MovePart(r) \/ Fact!CommitFails(r)
<1>1. CASE Fact!Plan(r) \/ Fact!ReadPrevious(r) \/ Fact!Record(r) \/ Fact!Die(r)
  BY <1>1 DEF Fact!Plan, Fact!ReadPrevious, Fact!Record, Fact!Die, Fact!dataset
<1>2. CASE Fact!Locking(r)
  BY <1>2 DEF Fact!Locking, Fact!Acquire, Fact!FindStale, Fact!BreakLock, Fact!LockTimeout, Fact!dataset
<1>3. CASE Fact!Reserving(r)
  BY <1>3 DEF Fact!Reserving, Fact!ReadForReserve, Fact!Reserve, Fact!UnlockReserved, Fact!dataset
<1>4. CASE Fact!Staging(r)
  BY <1>4 DEF Fact!Staging, Fact!StagePart, Fact!EndStaging, Fact!StagingFails, Fact!dataset
<1>5. CASE Fact!Committing(r)
  BY <1>5 DEF Fact!Committing, Fact!Decide, Fact!Publish, Fact!UnlockCommitted, Fact!Rollback, Fact!dataset
<1> QED BY <1>1, <1>2, <1>3, <1>4, <1>5 DEF Fact!Step

\* The parts of a run in its commit are of no generation.
LEMMA OwnParts ==
  ASSUME NEW r \in Run, appendPc[r] = "move", NumberInv(r), StagedInv(r), GenerationInv,
         NEW p \in staged[r], NEW g \in Committed, NEW f \in g.files
  PROVE  f.seq # p.seq
<1>1. p.seq = seq[r] BY DEF StagedInv, Ready, Complete, Made
<1>2. f.seq = g.seq BY DEF GenerationInv, Complete, Made
<1>3. g.seq # seq[r] BY DEF NumberInv, Numbered
<1> QED BY <1>1, <1>2, <1>3

LEMMA GenerationStep ==
  ASSUME Fact!AppendAssumption, Types, GenerationInv, NEW r \in Run, Fact!Step(r), NumberInv(r), StagedInv(r)
  PROVE  GenerationInv'
<1>1. deployment' = deployment BY EnvironmentStays DEF Fact!environment
<1>2. \A g \in Committed : g.files # {} /\ g.files \subseteq files /\ Complete(g.files, g.seq, g.key)
  BY DEF GenerationInv
<1>3. \A g \in Committed : Complete(g.files, g.seq, g.key)' <=> Complete(g.files, g.seq, g.key)
  BY <1>1 DEF Complete, Made
<1>4. CASE Fact!MovePart(r)
  <2>1. PICK p \in staged[r] \ moved[r] :
          files' = {f \in files : f.seq # p.seq \/ f.segment # p.segment} \cup {p}
    BY <1>4 DEF Fact!MovePart
  <2>2. generations' = generations /\ appendPc[r] = "move" BY <1>4 DEF Fact!MovePart, Fact!Goto
  <2>3. \A g \in Committed : \A f \in g.files : f.seq # p.seq BY <2>2, OwnParts
  <2>4. \A g \in Committed : g.files \subseteq files' BY <1>2, <2>1, <2>3
  <2> QED BY <1>2, <1>3, <2>2, <2>4 DEF GenerationInv, Committed
<1>5. CASE Fact!CommitFails(r)
  <2>1. generations' = generations /\ appendPc[r] = "move" /\ files' = files \ moved[r]
    BY <1>5 DEF Fact!CommitFails, Fact!Goto
  <2>2. \A g \in Committed : \A f \in g.files : f \notin staged[r] BY <2>1, OwnParts
  <2>3. moved[r] \subseteq staged[r] BY DEF StagedInv
  <2>4. \A g \in Committed : g.files \subseteq files' BY <1>2, <2>1, <2>2, <2>3
  <2> QED BY <1>2, <1>3, <2>1, <2>4 DEF GenerationInv, Committed
<1>6. CASE Fact!Publish(r) /\ files' = files
  <2>0. PICK new : new = [seq |-> seq[r], key |-> delta[r], files |-> staged[r]] OBVIOUS
  <2>1. Committed' = Committed \cup {new} BY <1>6, <2>0, NewLog
  <2>2. appendPc[r] = "move" /\ moved[r] = staged[r] BY <1>6 DEF Fact!Publish, Fact!Goto
  <2>3. staged[r] # {} /\ staged[r] \subseteq files /\ Complete(staged[r], seq[r], delta[r])
    BY <2>2 DEF StagedInv, Ready
  <2>4. new.files # {} /\ new.files \subseteq files /\ Complete(new.files, new.seq, new.key) BY <2>0, <2>3
  <2>5. Complete(new.files, new.seq, new.key)' BY <1>1, <2>4 DEF Complete, Made
  <2> QED BY <1>2, <1>3, <1>6, <2>1, <2>4, <2>5 DEF GenerationInv
<1>7. CASE UNCHANGED <<generations, files>> BY <1>2, <1>3, <1>7 DEF GenerationInv, Committed
<1> QED BY <1>4, <1>5, <1>6, <1>7, FilesChange, LogChanges DEF Fact!Publish

LEMMA StagedOthers ==
  ASSUME Types, LockInv, NEW r \in Run, Fact!Step(r), NEW q \in Run \ {r}, StagedInv(q)
  PROVE  StagedInv(q)'
<1>1. Unmoved(q) /\ deployment' = deployment BY OthersUnmoved, EnvironmentStays DEF Fact!environment
<1>2. appendPc[q] = "move" => files' = files
  <2>1. Fact!MovePart(r) \/ Fact!CommitFails(r) => appendPc[r] = "move"
    BY DEF Fact!MovePart, Fact!CommitFails, Fact!Goto
  <2> QED BY <2>1, FilesChange, LockedAlone DEF Fact!Locked
<1> QED BY <1>1, <1>2 DEF Unmoved, Keeps, StagedInv, Complete, Made

LEMMA StagedOwn ==
  ASSUME Fact!AppendAssumption, Types, GenerationInv, NEW r \in Run, Fact!Step(r), StagedInv(r), ReadInv(r)
  PROVE  StagedInv(r)'
<1>0. deployment' = deployment BY EnvironmentStays DEF Fact!environment
<1>1. ASSUME Forgotten(r), appendPc'[r] \in Fact!Ended PROVE StagedInv(r)'
  BY <1>1 DEF Forgotten, StagedInv, Fact!Ended, Early, Ready, Numbered
<1>2. ASSUME appendPc[r] \in Early \cup {"unlock1"}, appendPc'[r] \in Early \cup {"unlock1", "stage", "record"},
             staged'[r] = staged[r], moved'[r] = moved[r]
      PROVE  StagedInv(r)'
  <2>1. staged[r] = {} /\ moved[r] = {} BY <1>2 DEF StagedInv, Numbered
  <2> QED BY <1>2, <2>1 DEF StagedInv, Fact!Ended, Early, Ready, Numbered, Made
<1>3. ASSUME appendPc[r] \in Ready, appendPc'[r] \in Ready, Keeps(r),
             appendPc'[r] = "move" => appendPc[r] = "decide",
             moved[r] = {}
      PROVE  StagedInv(r)'
  BY <1>0, <1>3 DEF StagedInv, Keeps, Ready, Early, Fact!Ended, Numbered, Complete, Made
<1>4. ASSUME appendPc'[r] \in {"rollback", "cleanup", "record", "unlock2", "unlockfailed"}, Keeps(r)
      PROVE  StagedInv(r)'
  BY <1>4 DEF StagedInv, Keeps, Ready, Early, Fact!Ended, Numbered
<1>5. CASE Fact!Plan(r) \/ Fact!ReadPrevious(r) \/ Fact!ReadForReserve(r) \/ Fact!Reserve(r)
  <2>1. staged'[r] = staged[r] /\ moved'[r] = moved[r]
    BY <1>5 DEF Fact!Plan, Fact!ReadPrevious, Fact!ReadForReserve, Fact!Reserve
  <2>2. appendPc[r] \in Early
    BY <1>5 DEF Fact!Plan, Fact!ReadPrevious, Fact!ReadForReserve, Fact!Reserve, Fact!Goto, Early
  <2>3. appendPc'[r] \in Early \cup {"unlock1", "record"}
    BY <1>5, Moves DEF Fact!Plan, Fact!ReadPrevious, Fact!ReadForReserve, Fact!Reserve, Early
  <2> QED BY <1>2, <2>1, <2>2, <2>3
<1>6. CASE Fact!Acquire(r) \/ Fact!FindStale(r) \/ Fact!BreakLock(r)
  <2>1. Keeps(r) BY <1>6, Stays DEF Fact!Acquire, Fact!FindStale, Fact!BreakLock
  <2>2. \/ appendPc[r] \in {"lock1", "break1"} /\ appendPc'[r] \in {"lock1", "break1", "reserve"}
        \/ appendPc[r] \in {"lock2", "break2"} /\ appendPc'[r] \in {"lock2", "break2", "decide"}
    <3>1. CASE Fact!Acquire(r) BY <3>1, Moves DEF Fact!Acquire
    <3>2. CASE Fact!FindStale(r)
      <4>1. CASE appendPc' = appendPc BY <3>2, <4>1 DEF Fact!FindStale, Fact!Goto, Fact!Waiting
      <4>2. CASE Fact!Goto(r, "lock1", "break1") \/ Fact!Goto(r, "lock2", "break2") BY <4>2, Moves
      <4> QED BY <3>2, <4>1, <4>2 DEF Fact!FindStale
    <3>3. CASE Fact!BreakLock(r) BY <3>3, Moves DEF Fact!BreakLock
    <3> QED BY <1>6, <3>1, <3>2, <3>3
  <2>3. CASE appendPc[r] \in {"lock1", "break1"} /\ appendPc'[r] \in {"lock1", "break1", "reserve"}
    BY <1>2, <2>1, <2>3 DEF Early, Keeps
  <2>4. CASE appendPc[r] \in {"lock2", "break2"} /\ appendPc'[r] \in {"lock2", "break2", "decide"}
    <3>1. moved[r] = {} BY <2>4 DEF StagedInv, Numbered
    <3> QED BY <1>3, <2>1, <2>4, <3>1 DEF Ready
  <2> QED BY <2>2, <2>3, <2>4
<1>7. CASE Fact!LockTimeout(r)
  <2>1. CASE Fact!Goto(r, "lock1", "failed") /\ Fact!Forget(r) BY <1>1, <2>1, Moves, Forgets DEF Fact!Ended
  <2>2. CASE Fact!Goto(r, "lock2", "rollback") /\ UNCHANGED Fact!run BY <1>4, <2>2, Moves, Stays
  <2> QED BY <1>7, <2>1, <2>2 DEF Fact!LockTimeout
<1>8. CASE Fact!UnlockReserved(r)
  <2>1. appendPc[r] = "unlock1" /\ appendPc'[r] = "stage" /\ Keeps(r)
    BY <1>8, Moves, Stays DEF Fact!UnlockReserved
  <2> QED BY <1>2, <2>1 DEF Keeps
<1>9. CASE \E s \in Segment : Fact!StagePart(r, s)
  <2>1. PICK s \in Segment : Fact!StagePart(r, s) BY <1>9
  <2>0. PICK p : p = [seq |-> seq[r], segment |-> s, content |-> upstream[s], contract |-> delta[r].contract]
    OBVIOUS
  <2>2. /\ appendPc[r] = "stage" /\ appendPc'[r] = "stage"
        /\ delta'[r] = delta[r] /\ seq'[r] = seq[r] /\ moved'[r] = moved[r]
        /\ s \in delta[r].selected \ deployment.barren /\ \A o \in staged[r] : o.segment # s
    BY <2>1, Moves DEF Fact!StagePart
  <2>3. staged'[r] = staged[r] \cup {p} BY <2>0, <2>1 DEF Fact!StagePart, Types
  <2>4. Made(staged[r], seq[r], delta[r]) /\ moved[r] = {} BY <2>2 DEF StagedInv, Numbered
  <2>5. UpstreamStable => p.content = delta[r].upstream[s] BY <2>0, <2>2 DEF ReadInv, Fact!Reading
  <2>6. Made(staged[r] \cup {p}, seq[r], delta[r]) BY <2>0, <2>2, <2>4, <2>5 DEF Made
  <2>7. Made(staged[r], seq[r], delta[r])' BY <1>0, <2>2, <2>3, <2>6 DEF Made
  <2> QED BY <2>2, <2>4, <2>7 DEF StagedInv, Ready, Early, Fact!Ended, Numbered
<1>10. CASE Fact!EndStaging(r)
  <2>1. appendPc[r] = "stage" /\ Keeps(r) /\ {p.segment : p \in staged[r]} = delta[r].selected \ deployment.barren
    BY <1>10, Stays DEF Fact!EndStaging, Fact!Goto
  <2>2. CASE staged[r] = {} BY <1>4, <1>10, <2>1, <2>2, Moves DEF Fact!EndStaging
  <2>3. CASE staged[r] # {}
    <3>1. appendPc'[r] = "lock2" BY <1>10, <2>3, Moves DEF Fact!EndStaging
    <3>2. Complete(staged[r], seq[r], delta[r]) /\ moved[r] = {}
      BY <2>1 DEF StagedInv, Numbered, Complete
    <3>3. Complete(staged[r], seq[r], delta[r])' BY <1>0, <2>1, <3>2 DEF Complete, Made, Keeps
    <3> QED BY <2>1, <2>3, <3>1, <3>2, <3>3 DEF StagedInv, Keeps, Ready, Early, Fact!Ended, Numbered
  <2> QED BY <2>2, <2>3
<1>11. CASE Fact!StagingFails(r) \/ Fact!Publish(r) \/ Fact!CommitFails(r) \/ Fact!UnlockCommitted(r)
  <2>1. Keeps(r) BY <1>11, Stays DEF Fact!StagingFails, Fact!Publish, Fact!CommitFails, Fact!UnlockCommitted
  <2>2. appendPc'[r] \in {"rollback", "unlock2", "unlockfailed", "cleanup"}
    BY <1>11, Moves DEF Fact!StagingFails, Fact!Publish, Fact!CommitFails, Fact!UnlockCommitted
  <2> QED BY <1>4, <2>1, <2>2
<1>12. CASE Fact!Decide(r)
  <2>1. appendPc[r] = "decide" /\ moved'[r] = {} BY <1>12 DEF Fact!Decide, Fact!Goto, StagedInv, Numbered
  <2>2. CASE Fact!Goto(r, "decide", "move") /\ UNCHANGED <<seq, staged>>
    <3>1. appendPc'[r] = "move" /\ staged'[r] = staged[r] /\ seq'[r] = seq[r] /\ delta'[r] = delta[r]
      BY <1>12, <2>2, Moves DEF Fact!Decide
    <3>2. staged[r] # {} /\ Complete(staged[r], seq[r], delta[r]) BY <2>1 DEF StagedInv, Ready
    <3>3. Complete(staged[r], seq[r], delta[r])' BY <1>0, <3>1, <3>2 DEF Complete, Made
    <3> QED BY <2>1, <3>1, <3>2, <3>3 DEF StagedInv, Ready, Early, Fact!Ended, Numbered
  <2>3. CASE Fact!Goto(r, "decide", "unlock2")
    <3>1. appendPc'[r] = "unlock2" BY <2>3, Moves
    <3> QED BY <2>1, <3>1 DEF StagedInv, Ready, Early, Fact!Ended, Numbered
  <2> QED BY <1>12, <2>2, <2>3 DEF Fact!Decide
<1>13. CASE Fact!MovePart(r)
  <2>1. PICK p \in staged[r] \ moved[r] :
          /\ files' = {f \in files : f.seq # p.seq \/ f.segment # p.segment} \cup {p}
          /\ moved' = [moved EXCEPT ![r] = @ \cup {p}]
    BY <1>13 DEF Fact!MovePart
  <2>2. /\ appendPc[r] = "move" /\ appendPc'[r] = "move"
        /\ staged'[r] = staged[r] /\ seq'[r] = seq[r] /\ delta'[r] = delta[r] /\ moved'[r] = moved[r] \cup {p}
    BY <1>13, <2>1, Moves DEF Fact!MovePart, Types
  <2>3. /\ staged[r] # {} /\ Complete(staged[r], seq[r], delta[r])
        /\ moved[r] \subseteq staged[r] /\ moved[r] \subseteq files
    BY <2>2 DEF StagedInv, Ready
  <2>4. \A o \in moved[r] : o.segment # p.segment BY <2>1, <2>3 DEF Complete, Made
  <2>5. moved'[r] \subseteq files' /\ moved'[r] \subseteq staged'[r] BY <2>1, <2>2, <2>3, <2>4
  <2>6. Complete(staged[r], seq[r], delta[r])' BY <1>0, <2>2, <2>3 DEF Complete, Made
  <2> QED BY <2>2, <2>3, <2>5, <2>6 DEF StagedInv, Ready, Early, Fact!Ended, Numbered
<1>14. CASE Fact!Rollback(r)
  <2>1. CASE Fact!Goto(r, "cleanup", "record") /\ UNCHANGED Fact!run BY <1>4, <2>1, Moves, Stays
  <2>2. CASE Fact!Goto(r, "rollback", "failed") /\ Fact!Forget(r) BY <1>1, <2>2, Moves, Forgets DEF Fact!Ended
  <2> QED BY <1>14, <2>1, <2>2 DEF Fact!Rollback
<1>15. CASE Fact!Record(r) BY <1>1, <1>15, Moves, Forgets DEF Fact!Record, Fact!Ended
<1>16. CASE Fact!Die(r)
  <2>1. appendPc'[r] \in Fact!Ended BY <1>16 DEF Fact!Die, Types, Fact!Ended
  <2> QED BY <1>1, <1>16, <2>1, Forgets DEF Fact!Die
<1> QED
  BY <1>5, <1>6, <1>7, <1>8, <1>9, <1>10, <1>11, <1>12, <1>13, <1>14, <1>15, <1>16
  DEF Fact!Step, Fact!Locking, Fact!Reserving, Fact!Staging, Fact!Committing

-----------------------------------------------------------------------------
(* What a run has read *)

\* A run makes its plan, looks at the calculation manifest once more, and keeps both.
LEMMA ReadChanges ==
  ASSUME Types, NEW r \in Run, Fact!Step(r), ~Fact!Plan(r), appendPc'[r] \in Fact!Alive
  PROVE  /\ delta'[r] = delta[r] /\ appendPc'[r] # "previous"
         /\ Fact!ReadPrevious(r) \/ (previous'[r] = previous[r] /\ appendPc[r] # "previous")
         /\ appendPc'[r] \in Fact!Reading => appendPc[r] \in Fact!Reading
<1>1. CASE Fact!ReadPrevious(r)
  <2>1. appendPc[r] = "previous" /\ appendPc'[r] \in {"record", "lock1"} /\ delta' = delta
    BY <1>1, Moves DEF Fact!ReadPrevious
  <2> QED BY <1>1, <2>1 DEF Fact!Reading
<1>2. CASE Fact!Acquire(r) \/ Fact!FindStale(r) \/ Fact!BreakLock(r)
  <2>1. Keeps(r) BY <1>2, Stays DEF Fact!Acquire, Fact!FindStale, Fact!BreakLock
  <2>2. \/ appendPc[r] \in {"lock1", "break1"} /\ appendPc'[r] \in {"lock1", "break1", "reserve"}
        \/ appendPc[r] \in {"lock2", "break2"} /\ appendPc'[r] \in {"lock2", "break2", "decide"}
    <3>1. CASE Fact!Acquire(r) BY <3>1, Moves DEF Fact!Acquire
    <3>2. CASE Fact!FindStale(r)
      <4>1. CASE appendPc' = appendPc BY <3>2, <4>1 DEF Fact!FindStale, Fact!Goto, Fact!Waiting
      <4>2. CASE Fact!Goto(r, "lock1", "break1") \/ Fact!Goto(r, "lock2", "break2") BY <4>2, Moves
      <4> QED BY <3>2, <4>1, <4>2 DEF Fact!FindStale
    <3>3. CASE Fact!BreakLock(r) BY <3>3, Moves DEF Fact!BreakLock
    <3> QED BY <1>2, <3>1, <3>2, <3>3
  <2> QED BY <2>1, <2>2 DEF Keeps, Fact!Reading
<1>3. CASE Fact!LockTimeout(r)
  <2>1. CASE Fact!Goto(r, "lock1", "failed")
    <3>1. appendPc'[r] = "failed" BY <2>1, Moves
    <3> QED BY <3>1 DEF Fact!Alive, Fact!Waiting, Fact!Breaking, Fact!Locked, Fact!Reading
  <2>2. CASE Fact!Goto(r, "lock2", "rollback") /\ UNCHANGED Fact!run
    <3>1. appendPc[r] = "lock2" /\ appendPc'[r] = "rollback" /\ Keeps(r) BY <2>2, Moves, Stays
    <3> QED BY <3>1 DEF Keeps, Fact!Reading
  <2> QED BY <1>3, <2>1, <2>2 DEF Fact!LockTimeout
<1>4. CASE Fact!ReadForReserve(r) \/ Fact!Reserve(r) \/ Fact!UnlockReserved(r)
  <2>1. UNCHANGED <<delta, previous>>
    BY <1>4 DEF Fact!ReadForReserve, Fact!Reserve, Fact!UnlockReserved, Fact!run
  <2>2. appendPc[r] \in {"reserve", "reserved", "unlock1"} /\ appendPc'[r] \in {"reserved", "unlock1", "stage"}
    BY <1>4, Moves DEF Fact!ReadForReserve, Fact!Reserve, Fact!UnlockReserved
  <2> QED BY <2>1, <2>2 DEF Fact!Reading
<1>5. CASE Fact!Staging(r)
  <2>1. UNCHANGED <<delta, previous>>
    BY <1>5 DEF Fact!Staging, Fact!StagePart, Fact!EndStaging, Fact!StagingFails, Fact!run
  <2>2. appendPc[r] = "stage" /\ appendPc'[r] \in {"stage", "cleanup", "lock2", "rollback"}
    BY <1>5, Moves DEF Fact!Staging, Fact!StagePart, Fact!EndStaging, Fact!StagingFails
  <2> QED BY <2>1, <2>2 DEF Fact!Reading
<1>6. CASE Fact!Decide(r) \/ Fact!MovePart(r) \/ Fact!Publish(r) \/ Fact!CommitFails(r)
              \/ Fact!UnlockCommitted(r)
  <2>1. UNCHANGED <<delta, previous>>
    BY <1>6 DEF Fact!Decide, Fact!MovePart, Fact!Publish, Fact!CommitFails, Fact!UnlockCommitted, Fact!run
  <2>2. /\ appendPc[r] \in {"decide", "move", "unlock2", "unlockfailed"}
        /\ appendPc'[r] \in {"move", "unlock2", "unlockfailed", "cleanup", "rollback"}
    BY <1>6, Moves DEF Fact!Decide, Fact!MovePart, Fact!Publish, Fact!CommitFails, Fact!UnlockCommitted
  <2> QED BY <2>1, <2>2 DEF Fact!Reading
<1>7. CASE Fact!Rollback(r)
  <2>1. CASE Fact!Goto(r, "cleanup", "record") /\ UNCHANGED Fact!run
    <3>1. appendPc[r] = "cleanup" /\ appendPc'[r] = "record" /\ Keeps(r) BY <2>1, Moves, Stays
    <3> QED BY <3>1 DEF Keeps, Fact!Reading
  <2>2. CASE Fact!Goto(r, "rollback", "failed")
    <3>1. appendPc'[r] = "failed" BY <2>2, Moves
    <3> QED BY <3>1 DEF Fact!Alive, Fact!Waiting, Fact!Breaking, Fact!Locked, Fact!Reading
  <2> QED BY <1>7, <2>1, <2>2 DEF Fact!Rollback
<1>8. CASE Fact!Record(r) \/ Fact!Die(r)
  <2>1. appendPc'[r] \in {"done", "dead"} BY <1>8 DEF Fact!Record, Fact!Die, Fact!Goto, Types
  <2> QED BY <2>1 DEF Fact!Alive, Fact!Waiting, Fact!Breaking, Fact!Locked, Fact!Reading
<1> QED
  BY <1>1, <1>2, <1>3, <1>4, <1>5, <1>6, <1>7, <1>8 DEF Fact!Step, Fact!Locking, Fact!Reserving, Fact!Committing

\* The calculation manifest is replaced only by a run that ends.
LEMMA CalculatedChanges ==
  ASSUME NEW r \in Run, Fact!Step(r)
  PROVE  calculated' = calculated \/ Fact!Record(r)
<1>1. CASE Fact!Plan(r) \/ Fact!ReadPrevious(r) \/ Fact!Die(r)
  BY <1>1 DEF Fact!Plan, Fact!ReadPrevious, Fact!Die, Fact!dataset
<1>2. CASE Fact!Locking(r)
  BY <1>2 DEF Fact!Locking, Fact!Acquire, Fact!FindStale, Fact!BreakLock, Fact!LockTimeout, Fact!dataset
<1>3. CASE Fact!Reserving(r)
  BY <1>3 DEF Fact!Reserving, Fact!ReadForReserve, Fact!Reserve, Fact!UnlockReserved, Fact!dataset
<1>4. CASE Fact!Staging(r)
  BY <1>4 DEF Fact!Staging, Fact!StagePart, Fact!EndStaging, Fact!StagingFails, Fact!dataset
<1>5. CASE Fact!Committing(r)
  BY <1>5
  DEF Fact!Committing, Fact!Decide, Fact!MovePart, Fact!Publish, Fact!CommitFails, Fact!UnlockCommitted,
      Fact!Rollback, Fact!dataset
<1> QED BY <1>1, <1>2, <1>3, <1>4, <1>5 DEF Fact!Step

LEMMA ReadOthers ==
  ASSUME Types, OneAlive, NEW r \in Run, Fact!Step(r), NEW q \in Run \ {r}, ReadInv(q)
  PROVE  ReadInv(q)'
<1>1. Unmoved(q) /\ UNCHANGED <<deployment, upstream>> BY OthersUnmoved, EnvironmentStays DEF Fact!environment
<1>2. ~deployment.overlap /\ appendPc[q] = "previous" => calculated' = calculated
  <2>1. Fact!Record(r) => appendPc[r] \in Fact!Alive BY DEF Fact!Record, Fact!Goto, Fact!Alive
  <2>2. appendPc[q] = "previous" => appendPc[q] \in Fact!Alive BY DEF Fact!Alive, Fact!Reading
  <2> QED BY <2>1, <2>2, CalculatedChanges DEF OneAlive
<1> QED BY <1>1, <1>2 DEF Unmoved, Keeps, ReadInv, KeptFrom

LEMMA ReadOwn ==
  ASSUME Types, NEW r \in Run, Fact!Step(r), ReadInv(r)
  PROVE  ReadInv(r)'
<1>0. UNCHANGED <<deployment, upstream>> BY EnvironmentStays DEF Fact!environment
<1>1. CASE Fact!Plan(r)
  <2>1. appendPc'[r] = "previous" /\ calculated' = calculated BY <1>1, Moves DEF Fact!Plan, Fact!dataset
  <2>2. PICK c \in deployment.contracts :
          LET old == IF calculated = None THEN {} ELSE DOMAIN calculated.active
              full == calculated = None \/ calculated.contract # c
          IN delta' = [delta EXCEPT ![r] =
               [contract |-> c, upstream |-> upstream,
                selected |-> {s \in Fact!Present(upstream) :
                                full \/ s \notin old \/ calculated.active[s].content # upstream[s]},
                removed |-> IF full THEN old ELSE old \ Fact!Present(upstream)]]
    BY <1>1 DEF Fact!Plan
  <2>3. /\ delta'[r].contract = c /\ delta'[r].upstream = upstream
        /\ delta'[r].selected = {s \in Fact!Present(upstream) :
             \/ calculated = None \/ calculated.contract # c
             \/ s \notin (IF calculated = None THEN {} ELSE DOMAIN calculated.active)
             \/ calculated.active[s].content # upstream[s]}
    BY <2>2 DEF Types
  <2>4. KeptFrom(calculated, delta'[r]) BY <2>3 DEF KeptFrom
  <2>5. delta'[r].selected \subseteq Fact!Present(delta'[r].upstream) BY <2>3
  <2> QED BY <1>0, <2>1, <2>3, <2>4, <2>5 DEF ReadInv, KeptFrom, Fact!Present
<1>2. CASE ~Fact!Plan(r) /\ appendPc'[r] \in Fact!Alive
  <2>1. /\ delta'[r] = delta[r] /\ appendPc'[r] # "previous" /\ appendPc[r] \in Fact!Alive
        /\ appendPc'[r] \in Fact!Reading => appendPc[r] \in Fact!Reading
    BY <1>2, ReadChanges, AliveStays
  <2>2. ~deployment.overlap => KeptFrom(previous'[r], delta[r])
    <3>1. CASE Fact!ReadPrevious(r)
      <4>1. appendPc[r] = "previous" /\ previous'[r] = calculated
        BY <3>1 DEF Fact!ReadPrevious, Fact!Goto, Types
      <4> QED BY <4>1 DEF ReadInv
    <3>2. CASE previous'[r] = previous[r] /\ appendPc[r] # "previous" BY <2>1, <3>2 DEF ReadInv
    <3> QED BY <1>2, <3>1, <3>2, ReadChanges
  <2> QED BY <1>0, <2>1, <2>2 DEF ReadInv, KeptFrom, Fact!Present
<1>3. CASE ~Fact!Plan(r) /\ appendPc'[r] \notin Fact!Alive
  <2>1. appendPc'[r] \notin Fact!Reading BY <1>3 DEF Fact!Alive
  <2>2. appendPc'[r] # "previous" BY <2>1 DEF Fact!Reading
  <2> QED BY <1>3, <2>1, <2>2 DEF ReadInv
<1> QED BY <1>1, <1>2, <1>3

-----------------------------------------------------------------------------
(* The invariant *)

LEMMA AppendInit ==
  ASSUME Fact!AppendAssumption, Fact!Init
  PROVE  AppendInv
<1>1. Types BY InitTypes
<1>2. generations = <<>> /\ lastSeq = 0 /\ appendLock = None /\ stale = FALSE /\ calculated = None
  BY DEF Fact!Init
<1>3. \A r \in Run : appendPc[r] = "idle" /\ staged[r] = {} /\ moved[r] = {} BY DEF Fact!Init
<1>4. Committed = {} BY <1>2 DEF Committed, Fact!Range
<1>5. OneAlive BY <1>3 DEF OneAlive, Fact!Alive, Fact!Waiting, Fact!Breaking, Fact!Locked, Fact!Reading
<1>6. LockInv BY <1>2, <1>3 DEF LockInv, Fact!Locked, Fact!Breaking
<1>7. LogInv
  <2>1. IsFiniteSet(Run) BY <1>1, Constants DEF Types
  <2>2. Cardinality({r \in Run : appendPc[r] \notin Early}) \in Nat BY <2>1, FS_Subset, FS_CardinalityType
  <2> QED BY <1>2, <1>4, <2>2 DEF LogInv
<1>8. NumbersApart /\ \A r \in Run : NumberInv(r) BY <1>3 DEF NumbersApart, NumberInv, Numbered
<1>9. GenerationInv BY <1>4 DEF GenerationInv
<1>10. \A r \in Run : StagedInv(r) BY <1>3 DEF StagedInv, Ready
<1>11. \A r \in Run : ReadInv(r)
  BY <1>3 DEF ReadInv, Fact!Alive, Fact!Waiting, Fact!Breaking, Fact!Locked, Fact!Reading
<1> QED BY <1>1, <1>5, <1>6, <1>7, <1>8, <1>9, <1>10, <1>11 DEF AppendInv

LEMMA AppendStep ==
  ASSUME Fact!AppendAssumption, LocksHold, AppendInv, NEW r \in Run, Fact!Step(r)
  PROVE  AppendInv'
<1>1. /\ Types /\ OneAlive /\ LockInv /\ LogInv /\ NumbersApart /\ GenerationInv
      /\ \A q \in Run : NumberInv(q) /\ StagedInv(q) /\ ReadInv(q)
  BY DEF AppendInv
<1>2. Types' BY <1>1, TypesStep
<1>3. OneAlive' /\ LockInv' BY <1>1, OneAliveStep, LockStep
<1>4. LogInv' /\ NumbersApart' BY <1>1, LogStep, NumbersApartStep
<1>5. GenerationInv' BY <1>1, GenerationStep
<1>6. \A q \in Run : NumberInv(q)' BY <1>1, NumberOwn, NumberOthers
<1>7. \A q \in Run : StagedInv(q)' BY <1>1, StagedOwn, StagedOthers
<1>8. \A q \in Run : ReadInv(q)' BY <1>1, ReadOwn, ReadOthers
<1> QED BY <1>2, <1>3, <1>4, <1>5, <1>6, <1>7, <1>8 DEF AppendInv

\* Upstream changes, and locks grow old, under runs that have read what they need.
LEMMA AppendOutside ==
  ASSUME Fact!AppendAssumption, AppendInv,
         (\E s \in Segment : Fact!ReplaceUpstream(s)) \/ Fact!LockAges \/ UNCHANGED Fact!vars
  PROVE  AppendInv'
<1>1. Types' BY TypesOutside DEF AppendInv
<1>2. /\ UNCHANGED <<deployment, Fact!dataset, segmentStaging, appendLock, appendPc, Fact!run>>
      /\ (UpstreamStable => upstream' = upstream \/ \A r \in Run : appendPc[r] \notin Fact!Reading)
  BY DEF Fact!ReplaceUpstream, Fact!LockAges, Fact!vars, Fact!environment, Fact!mutex
<1>3. UNCHANGED stale \/ (/\ stale' = TRUE /\ appendLock # None
                          /\ deployment.heldBriefly => appendPc[appendLock] \notin Fact!Alive)
  BY DEF Fact!ReplaceUpstream, Fact!LockAges, Fact!vars, Fact!mutex
<1>4. UNCHANGED <<generations, files, lastSeq, calculated>> /\ UNCHANGED <<delta, previous, seq,
                  staged, moved, seen>>
  BY <1>2 DEF Fact!dataset, Fact!run
<1>5. OneAlive' BY <1>2 DEF AppendInv, OneAlive
<1>6. LockInv' BY <1>2, <1>3 DEF AppendInv, LockInv
<1>7. LogInv' BY <1>2, <1>4 DEF AppendInv, LogInv, Committed
<1>8. NumbersApart' BY <1>2, <1>4 DEF AppendInv, NumbersApart
<1>9. GenerationInv' BY <1>2, <1>4 DEF AppendInv, GenerationInv, Committed, Complete, Made
<1>10. \A r \in Run : NumberInv(r)' BY <1>2, <1>4 DEF AppendInv, NumberInv, Committed
<1>11. \A r \in Run : StagedInv(r)' BY <1>2, <1>4 DEF AppendInv, StagedInv, Complete, Made
<1>12. \A r \in Run : ReadInv(r)' BY <1>2, <1>4 DEF AppendInv, ReadInv, KeptFrom, Fact!Present
<1> QED BY <1>1, <1>5, <1>6, <1>7, <1>8, <1>9, <1>10, <1>11, <1>12 DEF AppendInv

LEMMA AppendNext ==
  ASSUME Fact!AppendAssumption, LocksHold, AppendInv, [Fact!Next]_(Fact!vars)
  PROVE  AppendInv'
<1>1. CASE \E r \in Run : Fact!Step(r) BY <1>1, AppendStep
<1>2. CASE (\E s \in Segment : Fact!ReplaceUpstream(s)) \/ Fact!LockAges \/ UNCHANGED Fact!vars
  BY <1>2, AppendOutside
<1> QED BY <1>1, <1>2 DEF Fact!Next

-----------------------------------------------------------------------------
(* What is recorded *)

\* Nothing that is committed is ever taken back.
LEMMA CommittedGrows ==
  ASSUME Fact!AppendAssumption, AppendInv, NEW r \in Run, Fact!Step(r)
  PROVE  Committed \subseteq Committed'
<1>1. CASE UNCHANGED generations BY <1>1 DEF Committed
<1>2. CASE Fact!Publish(r) BY <1>2, NewLog DEF AppendInv
<1> QED BY <1>1, <1>2, LogChanges DEF AppendInv

LEMMA EntriesStay ==
  ASSUME Committed \subseteq Committed', deployment' = deployment, NEW m, EntriesAreCommitted(m)
  PROVE  EntriesAreCommitted(m)'
<1>1. ASSUME NEW s, NEW e, NEW c, EntryIsCommitted(s, e, c) PROVE EntryIsCommitted(s, e, c)'
  BY <1>1 DEF EntryIsCommitted
<1> QED BY <1>1 DEF EntriesAreCommitted

LEMMA RecordOthers ==
  ASSUME Fact!AppendAssumption, AppendInv, NEW r \in Run, Fact!Step(r), NEW q \in Run \ {r}, RecordInv(q)
  PROVE  RecordInv(q)'
<1>1. Unmoved(q) /\ deployment' = deployment /\ Committed \subseteq Committed'
  BY OthersUnmoved, EnvironmentStays, CommittedGrows DEF Fact!environment, AppendInv
<1>2. PICK m : m = previous[q] OBVIOUS
<1>3. appendPc[q] \in Fact!Alive \ {"previous"} => EntriesAreCommitted(m)'
  BY <1>1, <1>2, EntriesStay DEF RecordInv
<1>4. EntriesAreCommitted(previous[q])' <=> EntriesAreCommitted(m)'
  BY <1>1, <1>2 DEF Unmoved, Keeps, EntriesAreCommitted
<1> QED BY <1>1, <1>3, <1>4 DEF RecordInv, Unmoved, Keeps, Complete, Made

\* The steps after which the parts of a run are committed, or it has none.
LEMMA Settling ==
  ASSUME Fact!AppendAssumption, AppendInv, NEW r \in Run, Fact!Step(r), appendPc'[r] \in Settled
  PROVE  \/ appendPc[r] \in Settled /\ Keeps(r)
         \/ Fact!ReadPrevious(r) /\ delta[r].selected = {} /\ staged'[r] = {} /\ delta'[r] = delta[r]
         \/ Fact!EndStaging(r) /\ staged[r] = {} /\ Keeps(r)
         \/ /\ Fact!Decide(r) /\ delta'[r] = delta[r] /\ generations' = generations
            /\ \E g \in Committed : g.key = delta[r] /\ seq'[r] = g.seq /\ staged'[r] = g.files
         \/ Fact!Publish(r) /\ appendPc[r] = "move" /\ Keeps(r)
<1>1. CASE Fact!ReadPrevious(r)
  <2>1. appendPc[r] = "previous" /\ (delta[r].selected # {} => appendPc'[r] = "lock1") /\ UNCHANGED <<delta, staged>>
    BY <1>1, Moves DEF Fact!ReadPrevious, AppendInv
  <2>2. delta[r].selected = {} BY <2>1 DEF Settled
  <2>3. staged[r] = {} BY <2>1 DEF AppendInv, StagedInv, Early
  <2> QED BY <1>1, <2>1, <2>2, <2>3
<1>2. CASE Fact!EndStaging(r)
  <2>1. Keeps(r) /\ (staged[r] # {} => appendPc'[r] = "lock2")
    BY <1>2, Moves, Stays DEF Fact!EndStaging, AppendInv
  <2> QED BY <1>2, <2>1 DEF Settled
<1>3. CASE Fact!Decide(r)
  <2>1. ~Fact!Goto(r, "decide", "move") BY Moves DEF Settled, AppendInv
  <2>2. PICK g \in Committed : /\ g.key = delta[r] /\ seq' = [seq EXCEPT ![r] = g.seq]
                               /\ staged' = [staged EXCEPT ![r] = g.files]
    BY <1>3, <2>1 DEF Fact!Decide, Committed
  <2> QED BY <1>3, <2>2 DEF Fact!Decide, Fact!dataset, AppendInv, Types
<1>4. CASE Fact!Publish(r) BY <1>4, Stays DEF Fact!Publish, Fact!Goto
<1>5. CASE Fact!UnlockCommitted(r)
  <2>1. CASE Fact!Goto(r, "unlock2", "cleanup")
    BY <1>5, <2>1, Stays DEF Fact!UnlockCommitted, Fact!Goto, Settled
  <2>2. CASE Fact!Goto(r, "unlockfailed", "rollback")
    <3>1. appendPc'[r] = "rollback" BY <2>2, Moves DEF AppendInv
    <3> QED BY <3>1 DEF Settled
  <2> QED BY <1>5, <2>1, <2>2 DEF Fact!UnlockCommitted
<1>6. CASE Fact!Rollback(r)
  <2>1. CASE Fact!Goto(r, "cleanup", "record") /\ UNCHANGED Fact!run BY <2>1, Stays DEF Fact!Goto, Settled
  <2>2. CASE Fact!Goto(r, "rollback", "failed")
    <3>1. appendPc'[r] = "failed" BY <2>2, Moves DEF AppendInv
    <3> QED BY <3>1 DEF Settled
  <2> QED BY <1>6, <2>1, <2>2 DEF Fact!Rollback
<1>7. CASE Fact!Plan(r) \/ Fact!Record(r) \/ Fact!Die(r)
  <2>1. appendPc'[r] \in {"previous", "done", "dead"}
    BY <1>7 DEF Fact!Plan, Fact!Record, Fact!Die, Fact!Goto, AppendInv, Types
  <2> QED BY <2>1 DEF Settled
<1>8. CASE Fact!Acquire(r) \/ Fact!FindStale(r) \/ Fact!BreakLock(r) \/ Fact!LockTimeout(r)
  <2>1. appendPc'[r] \in {"reserve", "decide", "lock1", "lock2", "break1", "break2", "failed", "rollback"}
    <3>1. CASE Fact!FindStale(r) BY <3>1 DEF Fact!FindStale, Fact!Goto, Fact!Waiting, AppendInv, Types
    <3>2. CASE Fact!Acquire(r) \/ Fact!BreakLock(r) \/ Fact!LockTimeout(r)
      BY <3>2 DEF Fact!Acquire, Fact!BreakLock, Fact!LockTimeout, Fact!Goto, AppendInv, Types
    <3> QED BY <1>8, <3>1, <3>2
  <2> QED BY <2>1 DEF Settled
<1>9. CASE Fact!Reserving(r)
  <2>1. appendPc'[r] \in {"reserved", "unlock1", "stage"}
    BY <1>9
    DEF Fact!Reserving, Fact!ReadForReserve, Fact!Reserve, Fact!UnlockReserved, Fact!Goto, AppendInv,
        Types
  <2> QED BY <2>1 DEF Settled
<1>10. CASE (\E s \in Segment : Fact!StagePart(r, s)) \/ Fact!StagingFails(r)
  <2>1. appendPc'[r] \in {"stage", "rollback"}
    BY <1>10 DEF Fact!StagePart, Fact!StagingFails, Fact!Goto, AppendInv, Types
  <2> QED BY <2>1 DEF Settled
<1>11. CASE Fact!MovePart(r) \/ Fact!CommitFails(r)
  <2>1. appendPc'[r] \in {"move", "unlockfailed"}
    BY <1>11 DEF Fact!MovePart, Fact!CommitFails, Fact!Goto, AppendInv, Types
  <2> QED BY <2>1 DEF Settled
<1> QED
  BY <1>1, <1>2, <1>3, <1>4, <1>5, <1>6, <1>7, <1>8, <1>9, <1>10, <1>11
  DEF Fact!Step, Fact!Locking, Fact!Staging, Fact!Committing

LEMMA RecordOwn ==
  ASSUME Fact!AppendAssumption, AppendInv, NEW r \in Run, Fact!Step(r), EntriesAreCommitted(calculated),
         RecordInv(r)
  PROVE  RecordInv(r)'
<1>0. deployment' = deployment /\ Committed \subseteq Committed'
  BY EnvironmentStays, CommittedGrows DEF Fact!environment
<1>1. ASSUME appendPc'[r] \in Fact!Alive \ {"previous"} PROVE EntriesAreCommitted(previous[r])'
  <2>0. ~Fact!Plan(r) BY <1>1, Moves DEF Fact!Plan, AppendInv
  <2>1. Fact!ReadPrevious(r) \/ (previous'[r] = previous[r] /\ appendPc[r] # "previous")
    BY <1>1, <2>0, ReadChanges DEF AppendInv
  <2>2. PICK m : m = previous'[r] OBVIOUS
  <2>3. EntriesAreCommitted(m)
    <3>1. CASE Fact!ReadPrevious(r)
      <4>1. previous'[r] = calculated BY <3>1 DEF Fact!ReadPrevious, AppendInv, Types
      <4> QED BY <2>2, <4>1
    <3>2. CASE previous'[r] = previous[r] /\ appendPc[r] # "previous"
      <4>1. appendPc[r] \in Fact!Alive BY <2>0, AliveStays DEF AppendInv
      <4> QED BY <2>2, <3>2, <4>1 DEF RecordInv
    <3> QED BY <2>1, <3>1, <3>2
  <2>4. EntriesAreCommitted(m)' BY <1>0, <2>3, EntriesStay
  <2> QED BY <2>2, <2>4 DEF EntriesAreCommitted
<1>2. ASSUME appendPc'[r] \in Settled
      PROVE  /\ Complete(staged[r], seq[r], delta[r])'
             /\ staged'[r] # {} => \E g \in Committed' : g.seq = seq'[r] /\ g.files = staged'[r]
  <2>1. CASE appendPc[r] \in Settled /\ Keeps(r)
    BY <1>0, <2>1 DEF RecordInv, Keeps, Complete, Made
  <2>2. CASE Fact!ReadPrevious(r) /\ delta[r].selected = {} /\ staged'[r] = {} /\ delta'[r] = delta[r]
    BY <1>0, <2>2 DEF Complete, Made
  <2>3. CASE Fact!EndStaging(r) /\ staged[r] = {} /\ Keeps(r)
    <3>1. {p.segment : p \in staged[r]} = delta[r].selected \ deployment.barren BY <2>3 DEF Fact!EndStaging
    <3>2. delta[r].selected \ deployment.barren = {} BY <2>3, <3>1
    <3> QED BY <1>0, <2>3, <3>2 DEF Keeps, Complete, Made
  <2>4. CASE /\ Fact!Decide(r) /\ delta'[r] = delta[r] /\ generations' = generations
             /\ \E g \in Committed : g.key = delta[r] /\ seq'[r] = g.seq /\ staged'[r] = g.files
    <3>1. PICK g \in Committed : g.key = delta[r] /\ seq'[r] = g.seq /\ staged'[r] = g.files BY <2>4
    <3>2. Complete(g.files, g.seq, g.key) BY DEF AppendInv, GenerationInv
    <3> QED BY <1>0, <2>4, <3>1, <3>2 DEF Complete, Made
  <2>5. CASE Fact!Publish(r) /\ appendPc[r] = "move" /\ Keeps(r)
    <3>1. Complete(staged[r], seq[r], delta[r]) BY <2>5 DEF AppendInv, StagedInv, Ready
    <3>2. PICK new : new = [seq |-> seq[r], key |-> delta[r], files |-> staged[r]] OBVIOUS
    <3>3. new \in Committed' /\ new.seq = seq[r] /\ new.files = staged[r]
      BY <2>5, <3>2, NewLog DEF AppendInv
    <3> QED BY <1>0, <2>5, <3>1, <3>3 DEF Keeps, Complete, Made
  <2> QED BY <1>2, <2>1, <2>2, <2>3, <2>4, <2>5, Settling
<1> QED BY <1>1, <1>2 DEF RecordInv

\* What a run records: what it calculated, and what the run before had.
LEMMA Recorded ==
  ASSUME NEW r \in Run, Fact!Record(r)
  PROVE  LET d == delta[r]
             old == IF previous[r] = None THEN {} ELSE DOMAIN previous[r].active
             kept == {s \in Fact!Present(d.upstream) \ d.selected :
                        s \in old /\ previous[r].active[s].content = d.upstream[s]}
             gen == IF staged[r] = {} THEN 0 ELSE seq[r]
         IN  /\ appendPc[r] = "record" /\ calculated'.contract = d.contract
             /\ DOMAIN calculated'.active = kept \cup d.selected
             /\ \A s \in d.selected : calculated'.active[s] =
                  [content |-> d.upstream[s], gen |-> gen, parts |-> {p \in staged[r] : p.segment = s}]
             /\ \A s \in d.selected : calculated'.active[s].content = d.upstream[s]
             /\ \A s \in kept : calculated'.active[s] = previous[r].active[s]
<1>1. appendPc[r] = "record" /\ calculated' = [contract |-> delta[r].contract, active |-> Fact!NextActive(r)]
  BY DEF Fact!Record, Fact!Goto
<1>2. calculated'.contract = delta[r].contract /\ calculated'.active = Fact!NextActive(r) BY <1>1
<1> QED BY <1>1, <1>2 DEF Fact!NextActive

LEMMA NewEntries ==
  ASSUME Fact!AppendAssumption, OneContract, UpstreamStable, AppendInv, NEW r \in Run, Fact!Record(r),
         RecordInv(r)
  PROVE  EntriesAreCommitted(calculated)'
<1>1. /\ UNCHANGED <<deployment, generations>> /\ appendPc[r] = "record" /\ appendPc[r] \in Fact!Alive \ {"previous"}
  BY Recorded DEF Fact!Record, Fact!environment, Fact!Alive
<1>2. /\ delta[r].contract \in deployment.contracts /\ calculated'.contract = delta[r].contract
      /\ delta[r].selected \subseteq Fact!Present(delta[r].upstream)
  BY <1>1, Recorded DEF AppendInv, ReadInv
<1>3. /\ EntriesAreCommitted(previous[r]) /\ Complete(staged[r], seq[r], delta[r])
      /\ staged[r] # {} => \E g \in Committed : g.seq = seq[r] /\ g.files = staged[r]
  BY <1>1 DEF RecordInv, Settled
<1>4. ASSUME NEW s \in delta[r].selected \ deployment.barren
      PROVE  EntryIsCommitted(s, calculated'.active[s], delta[r].contract)
  <2>1. PICK p \in staged[r] : p.segment = s BY <1>3 DEF Complete
  <2>2. p.seq = seq[r] /\ p.contract = delta[r].contract /\ p.content = delta[r].upstream[s]
    BY <1>3, <2>1 DEF Complete, Made
  <2>3. p = [seq |-> seq[r], segment |-> s, content |-> delta[r].upstream[s], contract |-> delta[r].contract]
    <3>1. p \in Fact!PartOf BY DEF AppendInv, Types
    <3>2. p = [seq |-> p.seq, segment |-> p.segment, content |-> p.content, contract |-> p.contract]
      BY <3>1 DEF Fact!PartOf
    <3> QED BY <2>1, <2>2, <3>2
  <2>4. PICK g \in Committed : g.seq = seq[r] /\ g.files = staged[r] BY <1>3, <2>1
  <2>5. calculated'.active[s] = [content |-> delta[r].upstream[s], gen |-> seq[r],
                                 parts |-> {o \in staged[r] : o.segment = s}]
    BY <2>1, Recorded
  <2>6. PICK e : e = calculated'.active[s] OBVIOUS
  <2>7. e.gen = seq[r] /\ e.content = delta[r].upstream[s] /\ e.parts = {o \in g.files : o.segment = s}
    BY <2>4, <2>5, <2>6
  <2>8. p \in e.parts BY <2>1, <2>4, <2>7
  <2> QED BY <2>3, <2>4, <2>6, <2>7, <2>8 DEF EntryIsCommitted
<1>5. ASSUME NEW s \in DOMAIN calculated'.active \ deployment.barren, s \notin delta[r].selected
      PROVE  EntryIsCommitted(s, calculated'.active[s], delta[r].contract)
  <2>1. /\ previous[r] # None /\ s \in DOMAIN previous[r].active /\ s \in Fact!Present(delta[r].upstream)
        /\ calculated'.active[s] = previous[r].active[s]
    BY <1>5, Recorded
  <2>2. /\ EntryIsCommitted(s, previous[r].active[s], previous[r].contract)
        /\ previous[r].contract \in deployment.contracts
    BY <1>3, <1>5, <2>1 DEF EntriesAreCommitted
  <2>3. previous[r].contract = delta[r].contract
    <3>1. CASE deployment.overlap BY <1>2, <2>2, <3>1 DEF OneContract, AppendInv, Types
    <3>2. CASE ~deployment.overlap BY <1>1, <1>5, <2>1, <3>2 DEF AppendInv, ReadInv, KeptFrom
    <3> QED BY <3>1, <3>2
  <2> QED BY <2>1, <2>2, <2>3
<1>6. \A s \in DOMAIN calculated'.active \ deployment.barren :
        EntryIsCommitted(s, calculated'.active[s], delta[r].contract)
  BY <1>4, <1>5
<1>7. PICK m : m = calculated' OBVIOUS
<1>8. EntriesAreCommitted(m) BY <1>2, <1>6, <1>7 DEF EntriesAreCommitted
<1>9. EntriesAreCommitted(m)' BY <1>1, <1>8, EntriesStay DEF Committed
<1> QED BY <1>7, <1>9 DEF EntriesAreCommitted

LEMMA CalculatedNext ==
  ASSUME Fact!AppendAssumption, OneContract, UpstreamStable, AppendInv, CalculatedInv, [Fact!Next]_(Fact!vars)
  PROVE  CalculatedInv'
<1>1. CASE \E r \in Run : Fact!Step(r)
  <2>1. PICK r \in Run : Fact!Step(r) BY <1>1
  <2>2. \A q \in Run : RecordInv(q)' BY <2>1, RecordOwn, RecordOthers DEF CalculatedInv
  <2>3. EntriesAreCommitted(calculated)'
    <3>1. CASE Fact!Record(r) BY <3>1, NewEntries DEF CalculatedInv
    <3>2. CASE calculated' = calculated
      <4>1. PICK m : m = calculated OBVIOUS
      <4>2. EntriesAreCommitted(m) BY <4>1 DEF CalculatedInv
      <4>3. EntriesAreCommitted(m)'
        BY <2>1, <4>2, EntriesStay, CommittedGrows, EnvironmentStays DEF Fact!environment
      <4> QED BY <3>2, <4>1, <4>3 DEF EntriesAreCommitted
    <3> QED BY <2>1, <3>1, <3>2, CalculatedChanges
  <2> QED BY <2>2, <2>3 DEF CalculatedInv
<1>2. CASE (\E s \in Segment : Fact!ReplaceUpstream(s)) \/ Fact!LockAges \/ UNCHANGED Fact!vars
  <2>1. UNCHANGED <<deployment, generations, calculated, appendPc, delta, previous, seq, staged>>
    BY <1>2 DEF Fact!ReplaceUpstream, Fact!LockAges, Fact!vars, Fact!environment, Fact!dataset, Fact!run
  <2>2. /\ EntriesAreCommitted(calculated)'
        /\ \A r \in Run : EntriesAreCommitted(previous[r])' <=> EntriesAreCommitted(previous[r])
    BY <2>1 DEF CalculatedInv, EntriesAreCommitted, EntryIsCommitted, Committed
  <2>3. \A r \in Run : RecordInv(r)' BY <2>1, <2>2 DEF CalculatedInv, RecordInv, Committed, Complete, Made
  <2> QED BY <2>2, <2>3 DEF CalculatedInv
<1> QED BY <1>1, <1>2 DEF Fact!Next

-----------------------------------------------------------------------------
(* Theorems about appends *)

\* The runs of a calculated fact take the steps of SegmentAppend, or none.
LEMMA AlwaysAppends ==
  ASSUME LocksHold
  PROVE  RunsSpec => Fact!Init /\ [][Fact!Next]_(Fact!vars) /\ []AppendInv
<1>1. RunsInit => Fact!Init BY DEF RunsInit
<1>2. [RunsNext]_runsVars => [Fact!Next]_(Fact!vars)
  <2>1. UNCHANGED appendVars => UNCHANGED Fact!vars
    BY DEF appendVars, Fact!vars, Fact!environment, Fact!dataset, Fact!mutex, Fact!run
  <2> QED BY <2>1 DEF RunsNext, OfDataset, OfProbe, runsVars
<1>3. Fact!Init => AppendInv BY FactConstants, AppendInit
<1>4. AppendInv /\ [Fact!Next]_(Fact!vars) => AppendInv' BY FactConstants, AppendNext
<1> QED BY <1>1, <1>2, <1>3, <1>4, PTL DEF RunsSpec

\* However runs wait, give up and die around the lock file, and break what the dead
\* have left, one at most is inside (of runs that overlap this takes LocksHold; one that
\* is alone may be as slow as it likes); and no error path, no retry that shares a staging
\* directory and no run with the number of another removes or overwrites a part of a
\* committed generation.
THEOREM CommittedPartsStay ==
  ASSUME LocksHold
  PROVE  RunsSpec => [](Fact!TypeOK /\ Fact!MutualExclusion /\ Fact!CommittedFilesStay)
<1>1. AppendInv => Fact!TypeOK
  <2> SUFFICES ASSUME AppendInv PROVE Fact!TypeOK OBVIOUS
  <2>1. \A r \in Run : /\ seq[r] \in 0 .. Cardinality(Run)
                      /\ staged[r] \subseteq Fact!PartOf /\ moved[r] \subseteq staged[r]
    BY DEF AppendInv, Types, StagedInv
  <2> QED BY SameCount, <2>1 DEF AppendInv, Types, Fact!TypeOK
<1>2. AppendInv => Fact!MutualExclusion BY DEF AppendInv, LockInv, Fact!MutualExclusion
<1>3. AppendInv => Fact!CommittedFilesStay
  BY DEF AppendInv, GenerationInv, Fact!CommittedFilesStay, Committed
<1> QED BY <1>1, <1>2, <1>3, AlwaysAppends, PTL

\* A run that does not overlap with others and ends has recorded every segment
\* of the upstream dataset as it read it, also those it did not calculate.
THEOREM ReadIsRecorded ==
  ASSUME LocksHold
  PROVE  RunsSpec => RecordsWhatItRead
<1>1. ASSUME AppendInv, [Fact!Next]_(Fact!vars), NEW r \in Run, ~deployment.overlap,
             appendPc[r] = "record", appendPc'[r] = "done"
      PROVE  /\ DOMAIN calculated'.active = Fact!Present(delta[r].upstream)
             /\ \A s \in Fact!Present(delta[r].upstream) : calculated'.active[s].content = delta[r].upstream[s]
  <2>1. PICK q \in Run : Fact!Step(q) BY <1>1 DEF Fact!Next, Fact!ReplaceUpstream, Fact!LockAges, Fact!vars
  <2>2. q = r BY <1>1, <2>1, OthersUnmoved DEF AppendInv, Unmoved
  <2>3. Fact!Record(r)
    <3>1. CASE Fact!Plan(r) \/ Fact!ReadPrevious(r) \/ Fact!Reserving(r) \/ Fact!Staging(r)
      BY <1>1, <3>1
      DEF Fact!Plan, Fact!ReadPrevious, Fact!Reserving, Fact!ReadForReserve, Fact!Reserve,
          Fact!UnlockReserved, Fact!Staging, Fact!StagePart, Fact!EndStaging,
          Fact!StagingFails, Fact!Goto
    <3>2. CASE Fact!Locking(r)
      BY <1>1, <3>2
      DEF Fact!Locking, Fact!Acquire, Fact!FindStale, Fact!BreakLock, Fact!LockTimeout, Fact!Goto,
          Fact!Waiting
    <3>3. CASE Fact!Committing(r)
      BY <1>1, <3>3
      DEF Fact!Committing, Fact!Decide, Fact!MovePart, Fact!Publish, Fact!CommitFails,
          Fact!UnlockCommitted, Fact!Rollback, Fact!Goto
    <3>4. CASE Fact!Die(r) BY <1>1, <3>4 DEF Fact!Die, AppendInv, Types
    <3> QED BY <2>1, <2>2, <3>1, <3>2, <3>3, <3>4 DEF Fact!Step
  <2>4. KeptFrom(previous[r], delta[r]) /\ delta[r].selected \subseteq Fact!Present(delta[r].upstream)
    BY <1>1 DEF AppendInv, ReadInv, Fact!Alive
  <2> DEFINE kept == {s \in Fact!Present(delta[r].upstream) \ delta[r].selected :
                        /\ s \in IF previous[r] = None THEN {} ELSE DOMAIN previous[r].active
                        /\ previous[r].active[s].content = delta[r].upstream[s]}
  <2>5. kept = Fact!Present(delta[r].upstream) \ delta[r].selected BY <2>4 DEF KeptFrom
  <2>6. /\ DOMAIN calculated'.active = kept \cup delta[r].selected
        /\ \A s \in kept : calculated'.active[s] = previous[r].active[s]
    BY <2>3, Recorded
  <2>7. \A s \in delta[r].selected : calculated'.active[s].content = delta[r].upstream[s] BY <2>3, Recorded
  <2>8. \A s \in kept : calculated'.active[s].content = delta[r].upstream[s] BY <2>6
  <2> QED BY <2>4, <2>5, <2>6, <2>7, <2>8
<1>2. AppendInv /\ [Fact!Next]_(Fact!vars) =>
        \A r \in Run : ~deployment.overlap /\ appendPc[r] = "record" /\ appendPc'[r] = "done" =>
          /\ DOMAIN calculated'.active = Fact!Present(delta[r].upstream)
          /\ \A s \in Fact!Present(delta[r].upstream) : calculated'.active[s].content = delta[r].upstream[s]
  BY <1>1
<1> QED BY <1>2, AlwaysAppends, PTL DEF RecordsWhatItRead, Fact!RecordsWhatItRead

\* The manifest only grows, by one generation at a time, and never has a run
\* key or a number twice: no retry calculates into it what is there already.  Of runs
\* that overlap this takes commits of less than an hour (LocksHold).
THEOREM AppendsAreALog ==
  ASSUME LocksHold
  PROVE  RunsSpec => ImplementsAppendLog
<1>1. Fact!Init => Fact!Log!Init BY DEF Fact!Init, Fact!Log!Init
<1>2. AppendInv /\ [Fact!Next]_(Fact!vars) => [Fact!Log!Extend]_generations
  <2> SUFFICES ASSUME AppendInv, [Fact!Next]_(Fact!vars), generations' # generations
               PROVE  Fact!Log!Extend OBVIOUS
  <2>1. PICK r \in Run : Fact!Step(r)
    BY DEF Fact!Next, Fact!ReplaceUpstream, Fact!LockAges, Fact!vars, Fact!dataset
  <2>2. Fact!Publish(r) BY <2>1, LogChanges DEF AppendInv
  <2>3. PICK new \in Fact!Generations : /\ new.seq = seq[r] /\ new.key = delta[r]
                                        /\ generations' = Append(generations, new)
    BY FactConstants, <2>2, NewLog DEF AppendInv
  <2>4. generations \in Seq(Fact!Generations) BY DEF AppendInv, Types
  <2>5. /\ Len(generations) \in Nat /\ Len(generations') = Len(generations) + 1
        /\ \A i \in 1 .. Len(generations) : generations'[i] = generations[i]
        /\ generations'[Len(generations')] = new
    BY <2>3, <2>4, AppendProperties
  <2>6. SubSeq(generations', 1, Len(generations)) = generations
    <3>1. \A i \in 1 .. Len(generations) : generations'[i] \in Fact!Generations BY <2>4, <2>5
    <3>2. /\ SubSeq(generations', 1, Len(generations)) \in Seq(Fact!Generations)
          /\ Len(SubSeq(generations', 1, Len(generations))) = Len(generations)
          /\ \A i \in 1 .. Len(generations) : SubSeq(generations', 1, Len(generations))[i] = generations'[i]
      BY <2>5, <3>1, SubSeqProperties
    <3> QED BY <2>4, <2>5, <3>2
  <2>7. \A g \in Committed : g.seq # new.seq /\ g.key # new.key
    <3>1. appendPc[r] = "move" BY <2>2 DEF Fact!Publish, Fact!Goto
    <3> QED BY <2>3, <3>1 DEF AppendInv, NumberInv, Numbered
  <2>8. \A i \in DOMAIN generations : generations[i] \in Committed BY DEF Committed, Fact!Range
  <2> QED BY <2>5, <2>6, <2>7, <2>8 DEF Fact!Log!Extend
<1> QED BY <1>1, <1>2, AlwaysAppends, PTL DEF ImplementsAppendLog, Fact!ImplementsAppendLog, Fact!Log!Spec

\* Where locks hold, what was committed stays; and a segment that the calculation manifest calls
\* calculated has its parts in a committed generation, calculated from the contents
\* that the manifest names.
THEOREM CommittedAndRecorded ==
  ASSUME LocksHold, OneContract, UpstreamStable
  PROVE  RunsSpec => []CommittedStays
<1>1. Fact!Init => CalculatedInv
  <2> SUFFICES ASSUME Fact!Init PROVE CalculatedInv OBVIOUS
  <2>1. calculated = None /\ \A r \in Run : appendPc[r] = "idle" BY DEF Fact!Init
  <2> QED BY <2>1
      DEF CalculatedInv, EntriesAreCommitted, RecordInv, Settled, Fact!Alive, Fact!Waiting,
          Fact!Breaking, Fact!Locked, Fact!Reading
<1>2. AppendInv /\ CalculatedInv /\ [Fact!Next]_(Fact!vars) => CalculatedInv' BY FactConstants, CalculatedNext
<1>3. CalculatedInv => Fact!CalculatedIsCommitted
  BY DEF CalculatedInv, EntriesAreCommitted, EntryIsCommitted, Fact!CalculatedIsCommitted, Committed
<1> QED BY <1>1, <1>2, <1>3, AlwaysAppends, CommittedPartsStay, PTL DEF CommittedStays

-----------------------------------------------------------------------------
(* Probes *)

\* The window of each file lies in one partition of the grid.  A file that is inspected again
\* for one partition, while another that it lies in is copied, is recorded in two versions.
OnePartition == \A f \in File : \E k \in KeysOf[f] : KeysOf[f] = {k}

\* A run has the lock; it is taking or breaking it; it has published, or never will.
Holding == {"pid", "build", "write", "validate", "point", "clean", "release"}
Alone == {"pid", "break", "again"}
After == {"point", "clean", "release", "done", "used", "failed", "dead"}

\* It has compared the files; it has also inspected what changed.
Inspected == Alone \cup {"build", "write"}
Compared == {"inspect"} \cup Inspected

Pc(r) == probing[r].pc
Before(r) == probing[r].previous

\* A field for every local variable.
Shape(x) ==
  x = [pc |-> x.pc, previous |-> x.previous, identity |-> x.identity, known |-> x.known,
       profile |-> x.profile, todo |-> x.todo, parts |-> x.parts, used |-> x.used]

Profile == UNION {[S -> Probe!Version] : S \in SUBSET File}

ProbeTypes ==
  /\ version \in moments /\ moments \subseteq [File -> Probe!Version]
  /\ latest \in Run \cup {None} /\ generation = [q \in Run |-> generation[q]]
  /\ probeLock \in Probe!LockFile \cup {None} /\ probeStaging \subseteq Run
  /\ probing = [r \in Run |-> probing[r]]
  /\ \A r \in Run :
       /\ Shape(probing[r]) /\ Before(r) \in Run \cup {None}
       /\ DOMAIN probing[r].profile \subseteq Probe!Listed(r) /\ probing[r].todo \subseteq File

\* The lock file names the run that has it, or one that died with it; and of the runs
\* that are taking or breaking it there is one at most.
HeldInv ==
  /\ \A r \in Run : Pc(r) \in Holding => probeLock # None /\ probeLock.owner = r
  /\ \A q, r \in Run : Pc(q) \in Alone /\ Pc(r) \in Alone => q = r
  /\ probeLock # None =>
       /\ Pc(probeLock.owner) \in Holding \cup {"dead"}
       /\ ~probeLock.pid => Pc(probeLock.owner) \in {"pid", "dead"}
  /\ \A r \in Run : Pc(r) = "break" => probeLock # None /\ Pc(probeLock.owner) = "dead"

\* What latest.json and the runs name will not be published again, and is there.
NamedInv ==
  /\ latest # None => Pc(latest) \in After /\ generation[latest] # None
  /\ \A r \in Run :
       /\ Before(r) # None => Pc(Before(r)) \in After
       /\ generation[r] # None => Pc(r) \in After
       /\ Pc(r) = "point" => generation[r] # None
       /\ Pc(r) = "clean" => latest = r
       /\ Pc(r) \in {"done", "used"} => Before(r) \in Run

\* Version v of file f was read.
Seen(f, v) == v # 0 /\ \E m \in moments : m[f] = v

Grid(S, p) == [k \in Probe!PartitionsOf(S) |-> Probe!RowsOf(k, S, p)]

\* The profiles of a generation are those of moment m, and if a file is now as the
\* generation says, it was so at m.
MadeAt(g, m) ==
  /\ g.parts = Grid(DOMAIN g.dataset, m)
  /\ \A f \in DOMAIN g.dataset :
       Seen(f, g.dataset[f]) /\ (version[f] = g.dataset[f] => m[f] = g.dataset[f])

ManifestInv(q) ==
  generation[q] # None =>
    DOMAIN generation[q].dataset \subseteq File /\ \E m \in moments : MadeAt(generation[q], m)

\* What run r inspected stood together at moment m, if what it has yet to look at again
\* turns out to be the same.
Stood(r, m) ==
  \A f \in Probe!Listed(r) :
    /\ f \notin probing[r].todo \/ version[f] = probing[r].profile[f] => m[f] = probing[r].profile[f]
    /\ version[f] = probing[r].identity[f] => m[f] = probing[r].identity[f]

IdentityInv(r) ==
  /\ Pc(r) \in {"identify", "validate"} \cup Compared =>
       probing[r].identity \in Profile /\ probing[r].todo \subseteq Probe!Listed(r)
  /\ Pc(r) = "identify" =>
       \A f \in Probe!Listed(r) : f \in probing[r].todo \/ Seen(f, probing[r].identity[f])
  /\ Pc(r) \in {"validate"} \cup Compared => \A f \in Probe!Listed(r) : Seen(f, probing[r].identity[f])

ProfileInv(r) ==
  /\ Pc(r) \in Inspected => probing[r].todo = {}
  /\ Pc(r) \in Compared =>
       /\ Before(r) # None /\ generation[Before(r)] # None => probing[r].known = Probe!ProfilesIn(Before(r))
       /\ DOMAIN probing[r].profile = Probe!Listed(r) \ probing[r].todo
       /\ \A f \in DOMAIN probing[r].profile : Seen(f, probing[r].profile[f])
       /\ \A f \in Probe!Unchanged(r) :
            f \notin probing[r].todo /\ probing[r].profile[f] = probing[r].identity[f]

BuiltInv(r) ==
  Pc(r) = "validate" =>
    /\ DOMAIN probing[r].profile = Probe!Listed(r)
    /\ \A f \in Probe!Listed(r) : Seen(f, probing[r].profile[f])
    /\ probing[r].parts = Grid(Probe!Listed(r), probing[r].profile)
    /\ \E m \in moments : Stood(r, m)

ProbeInv ==
  /\ ProbeTypes /\ HeldInv /\ NamedInv
  /\ \A r \in Run : ManifestInv(r) /\ IdentityInv(r) /\ ProfileInv(r) /\ BuiltInv(r)
  /\ Probe!HandleTellsTruth

-----------------------------------------------------------------------------
(* What a step of a run changes *)

\* The local variables of run r become x, those of the others stay.
Becomes(r, x) == probing' = [probing EXCEPT ![r] = x]

LEMMA Becoming ==
  ASSUME ProbeTypes, NEW r \in Run, NEW x, Becomes(r, x)
  PROVE  /\ probing'[r] = x /\ \A q \in Run \ {r} : probing'[q] = probing[q]
         /\ probing' = [q \in Run |-> probing'[q]]
BY DEF Becomes, ProbeTypes

\* One run goes from one place to another and nothing else changes in it.
LEMMA Going ==
  ASSUME ProbeTypes, NEW r \in Run, NEW from, NEW to, Probe!Goto(r, from, to)
  PROVE  /\ Pc(r) = from /\ Pc(r)' = to /\ Becomes(r, [probing[r] EXCEPT !.pc = to])
         /\ Shape(probing[r])' /\ Before(r)' = Before(r)
         /\ probing'[r].identity = probing[r].identity /\ probing'[r].known = probing[r].known
         /\ probing'[r].profile = probing[r].profile /\ probing'[r].todo = probing[r].todo
         /\ probing'[r].parts = probing[r].parts /\ probing'[r].used = probing[r].used
         /\ \A q \in Run \ {r} : probing'[q] = probing[q]
         /\ probing' = [q \in Run |-> probing'[q]]
<1> DEFINE x == [probing[r] EXCEPT !.pc = to]
<1>1. Pc(r) = from /\ Becomes(r, x) BY DEF Probe!Goto, Probe!Become, Pc, Becomes
<1>2. /\ x.pc = to /\ x.previous = probing[r].previous /\ x.identity = probing[r].identity
      /\ x.known = probing[r].known /\ x.profile = probing[r].profile /\ x.todo = probing[r].todo
      /\ x.parts = probing[r].parts /\ x.used = probing[r].used /\ Shape(x)
  BY DEF ProbeTypes, Shape
<1> HIDE DEF x
<1>3. /\ probing'[r] = x /\ \A q \in Run \ {r} : probing'[q] = probing[q]
      /\ probing' = [q \in Run |-> probing'[q]]
  BY <1>1, Becoming
<1>4. Pc(r)' = to /\ Before(r)' = Before(r) /\ Shape(probing[r])' BY <1>2, <1>3 DEF Pc, Before, Shape
<1>5. Becomes(r, [probing[r] EXCEPT !.pc = to]) BY <1>1 DEF x
<1> QED BY <1>1, <1>2, <1>3, <1>4, <1>5

\* One run forgets what it knew.
LEMMA Leaving ==
  ASSUME ProbeTypes, NEW r \in Run, NEW from, NEW to, NEW g, Probe!Leave(r, from, to, g)
  PROVE  /\ Pc(r) = from /\ Pc(r)' = to /\ Shape(probing[r])' /\ Before(r)' = g
         /\ probing'[r].todo = {} /\ probing'[r].profile = probing'[r].identity
         /\ \A q \in Run \ {r} : probing'[q] = probing[q]
         /\ probing' = [q \in Run |-> probing'[q]]
<1> DEFINE x == [Probe!Fresh EXCEPT !.pc = to, !.previous = g]
<1>1. Pc(r) = from /\ Becomes(r, x) BY DEF Probe!Leave, Probe!Become, Pc, Becomes
<1>2. x.pc = to /\ x.previous = g /\ x.todo = {} /\ x.profile = x.identity /\ Shape(x)
  <2>1. PICK y : y = Probe!Fresh OBVIOUS
  <2>2. Shape(y) /\ y.todo = {} /\ y.profile = y.identity BY <2>1 DEF Probe!Fresh, Shape
  <2>3. x = [y EXCEPT !.pc = to, !.previous = g] BY <2>1
  <2> HIDE DEF x
  <2> QED BY <2>2, <2>3 DEF Shape
<1> HIDE DEF x
<1>3. /\ probing'[r] = x /\ \A q \in Run \ {r} : probing'[q] = probing[q]
      /\ probing' = [q \in Run |-> probing'[q]]
  BY <1>1, Becoming
<1> QED BY <1>1, <1>2, <1>3 DEF Pc, Before, Shape

\* It becomes what a record says.
LEMMA Turning ==
  ASSUME ProbeTypes, NEW r \in Run, NEW from, NEW x, Probe!Become(r, from, x)
  PROVE  /\ Pc(r) = from /\ probing'[r] = x /\ Pc(r)' = x.pc /\ Before(r)' = x.previous
         /\ \A q \in Run \ {r} : probing'[q] = probing[q]
         /\ probing' = [q \in Run |-> probing'[q]]
<1>1. Pc(r) = from /\ Becomes(r, x) BY DEF Probe!Become, Pc, Becomes
<1>2. /\ probing'[r] = x /\ \A q \in Run \ {r} : probing'[q] = probing[q]
      /\ probing' = [q \in Run |-> probing'[q]]
  BY <1>1, Becoming
<1> QED BY <1>1, <1>2 DEF Pc, Before

-----------------------------------------------------------------------------
(* What a step leaves alone *)

\* What a generation holds is known as long as it is there.
LEMMA SameProfiles ==
  ASSUME NEW g, generation'[g] = generation[g]
  PROVE  Probe!ProfilesIn(g)' = Probe!ProfilesIn(g)
BY DEF Probe!ProfilesIn

\* A run that does not move, while the source stays and generations go at most.
LEMMA RunStays ==
  ASSUME NEW q \in Run, probing'[q] = probing[q], UNCHANGED <<version, moments>>,
         Before(q) # None => generation'[Before(q)] \in {generation[Before(q)], None},
         IdentityInv(q), ProfileInv(q), BuiltInv(q)
  PROVE  IdentityInv(q)' /\ ProfileInv(q)' /\ BuiltInv(q)'
<1>1. /\ Pc(q)' = Pc(q) /\ Before(q)' = Before(q) /\ Probe!Listed(q)' = Probe!Listed(q)
      /\ Probe!Unchanged(q)' = Probe!Unchanged(q)
  BY DEF Pc, Before, Probe!Listed, Probe!Unchanged
<1>2. \A f, v : Seen(f, v)' = Seen(f, v) BY DEF Seen
<1>3. IdentityInv(q)' BY <1>1, <1>2 DEF IdentityInv
<1>4. Before(q) # None /\ generation'[Before(q)] # None =>
        generation[Before(q)] # None /\ Probe!ProfilesIn(Before(q))' = Probe!ProfilesIn(Before(q))
  <2>1. PICK g : g = Before(q) OBVIOUS
  <2>2. generation'[g] = generation[g] => Probe!ProfilesIn(g)' = Probe!ProfilesIn(g) BY SameProfiles
  <2>3. Probe!ProfilesIn(Before(q))' = Probe!ProfilesIn(g)' BY <1>1, <2>1
  <2> QED BY <2>1, <2>2, <2>3
<1>5. ProfileInv(q)' BY <1>1, <1>2, <1>4 DEF ProfileInv
<1>6. \A m : Stood(q, m)' = Stood(q, m) BY <1>1 DEF Stood
<1>7. BuiltInv(q)'
  <2>1. Grid(Probe!Listed(q), probing[q].profile)' = Grid(Probe!Listed(q), probing[q].profile)
    BY <1>1 DEF Grid, Probe!RowsOf
  <2> QED BY <1>1, <1>2, <1>6, <2>1 DEF BuiltInv
<1> QED BY <1>3, <1>5, <1>7

\* A generation that stays or goes.
LEMMA GenerationStays ==
  ASSUME NEW q \in Run, generation'[q] \in {generation[q], None}, UNCHANGED <<version, moments>>,
         ManifestInv(q)
  PROVE  ManifestInv(q)'
<1>1. \A f, v : Seen(f, v)' = Seen(f, v) BY DEF Seen
<1>2. \A g, m : MadeAt(g, m)' = MadeAt(g, m) BY <1>1 DEF MadeAt, Grid, Probe!RowsOf, Probe!PartitionsOf
<1> QED BY <1>2 DEF ManifestInv

-----------------------------------------------------------------------------
(* The lock *)

\* Only run r moves.
Alike(r) == \A q \in Run \ {r} : probing'[q] = probing[q]

\* A run moves and leaves the lock as it is.
LEMMA HeldQuietly ==
  ASSUME ProbeTypes, HeldInv, NEW r \in Run, Alike(r), probeLock' = probeLock,
         Pc(r) # "dead", Pc(r)' \notin Alone, Pc(r)' \in Holding => Pc(r) \in Holding,
         Pc(r) \in Holding => Pc(r)' \in Holding \cup {"dead"},
         Pc(r) = "pid" => Pc(r)' = "dead"
  PROVE  HeldInv'
<1>1. \A q \in Run \ {r} : Pc(q)' = Pc(q) BY DEF Alike, Pc
<1>2. probeLock # None => probeLock.owner \in Run BY DEF ProbeTypes, Probe!LockFile
<1>3. \A q \in Run : Pc(q)' \in Holding => probeLock' # None /\ probeLock'.owner = q
  BY <1>1 DEF HeldInv
<1>4. \A q, p \in Run : Pc(q)' \in Alone /\ Pc(p)' \in Alone => q = p BY <1>1 DEF HeldInv
<1>5. ASSUME probeLock' # None
      PROVE  /\ Pc(probeLock.owner)' \in Holding \cup {"dead"}
             /\ ~probeLock.pid => Pc(probeLock.owner)' \in {"pid", "dead"}
  <2>1. CASE probeLock.owner = r BY <1>5, <2>1 DEF HeldInv
  <2>2. CASE probeLock.owner # r
    <3>1. Pc(probeLock.owner)' = Pc(probeLock.owner) BY <1>1, <1>2, <1>5, <2>2
    <3> QED BY <1>5, <3>1 DEF HeldInv
  <2> QED BY <2>1, <2>2
<1>6. ASSUME NEW q \in Run, Pc(q)' = "break" PROVE probeLock' # None /\ Pc(probeLock.owner)' = "dead"
  <2>1. q # r BY <1>6 DEF Alone
  <2>2. probeLock # None /\ Pc(probeLock.owner) = "dead" BY <1>1, <1>6, <2>1 DEF HeldInv
  <2>3. probeLock.owner # r BY <2>2
  <2> QED BY <1>1, <1>2, <2>2, <2>3
<1> QED BY <1>3, <1>4, <1>5, <1>6 DEF HeldInv, Pc

\* A run lets go of the lock, which it had or which is that of a dead run.
LEMMA HeldNoMore ==
  ASSUME ProbeTypes, HeldInv, NEW r \in Run, Alike(r), probeLock' = None,
         Pc(r) \in Holding \cup {"break"}, Pc(r)' \in {"again", "done", "failed"},
         Pc(r)' = "again" => Pc(r) \in Alone
  PROVE  HeldInv'
<1>1. \A q \in Run \ {r} : Pc(q)' = Pc(q) BY DEF Alike, Pc
<1>2. ASSUME NEW q \in Run PROVE Pc(q)' \notin Holding
  <2>1. CASE q = r BY <2>1 DEF Holding
  <2>2. CASE q # r
    <3>1. CASE Pc(r) \in Holding BY <1>1, <2>2, <3>1 DEF HeldInv
    <3>2. CASE Pc(r) = "break" BY <1>1, <2>2, <3>2 DEF HeldInv, Holding
    <3> QED BY <3>1, <3>2
  <2> QED BY <2>1, <2>2
<1>3. \A q, p \in Run : Pc(q)' \in Alone /\ Pc(p)' \in Alone => q = p BY <1>1 DEF HeldInv, Alone
<1>4. ASSUME NEW q \in Run PROVE Pc(q)' # "break"
  <2>1. CASE q = r BY <2>1
  <2>2. CASE q # r
    <3>1. CASE Pc(r) \in Holding
      <4>1. probeLock.owner = r BY <3>1 DEF HeldInv
      <4> QED BY <1>1, <2>2, <3>1, <4>1 DEF HeldInv, Holding
    <3>2. CASE Pc(r) = "break" BY <1>1, <2>2, <3>2 DEF HeldInv, Alone
    <3> QED BY <3>1, <3>2
  <2> QED BY <2>1, <2>2
<1> QED BY <1>2, <1>3, <1>4 DEF HeldInv

\* A run makes the lock when nobody has it and nobody else is about to.
LEMMA HeldFirst ==
  ASSUME ProbeTypes, HeldInv, SoundLock, NEW r \in Run, Alike(r), Probe!Undisturbed(r),
         probeLock = None, probeLock' = [owner |-> r, pid |-> FALSE], Pc(r)' = "pid"
  PROVE  HeldInv'
<1>1. \A q \in Run \ {r} : Pc(q)' = Pc(q) /\ Pc(q) \notin Alone
  BY DEF Alike, Pc, Probe!Undisturbed, Alone
<1>2. probeLock' # None /\ probeLock'.owner = r
  <2>1. [owner |-> r, pid |-> FALSE] \in Probe!LockFile BY DEF Probe!LockFile
  <2>2. None \notin Probe!LockFile BY ProbeConstants DEF Probe!ProbeAssumption
  <2>3. probeLock'.owner = r OBVIOUS
  <2> QED BY <2>1, <2>2, <2>3
<1>3. \A q \in Run : Pc(q)' \in Holding \cup {"break"} => q = r BY <1>1 DEF HeldInv, Alone
<1>4. \A q \in Run : Pc(q)' \in Alone => q = r BY <1>1
<1>5. Pc(probeLock.owner)' = "pid" BY <1>2
<1> QED BY <1>2, <1>3, <1>4, <1>5 DEF HeldInv, Holding, Alone, Pc

\* The pid is written by the run that made the lock.
LEMMA HeldWithPid ==
  ASSUME ProbeTypes, HeldInv, NEW r \in Run, Alike(r), Pc(r) = "pid", Pc(r)' = "build",
         probeLock' = IF probeLock # None /\ probeLock.owner = r
                      THEN [probeLock EXCEPT !.pid = TRUE] ELSE probeLock
  PROVE  HeldInv' /\ probeLock' \in Probe!LockFile
<1>1. \A q \in Run \ {r} : Pc(q)' = Pc(q) /\ Pc(q) \notin Alone
  BY DEF Alike, Pc, HeldInv, Alone
<1>2. probeLock # None /\ probeLock.owner = r BY DEF HeldInv, Holding
<1>3. probeLock' \in Probe!LockFile /\ probeLock'.owner = r /\ probeLock'.pid
  BY <1>2 DEF ProbeTypes, Probe!LockFile
<1>4. probeLock' # None BY <1>3, ProbeConstants DEF Probe!ProbeAssumption
<1>5. \A q \in Run : Pc(q)' \in Holding \cup {"break"} => q = r BY <1>1, <1>2 DEF HeldInv, Alone
<1>6. \A q \in Run : Pc(q)' \notin Alone BY <1>1 DEF Alone
<1>7. Pc(probeLock.owner)' = "build" BY <1>3
<1> QED BY <1>3, <1>4, <1>5, <1>6, <1>7 DEF HeldInv, Holding, Alone, Pc

\* A run sets out to break a lock: its owner is dead.
LEMMA HeldByTheDead ==
  ASSUME ProbeTypes, HeldInv, SoundLock, NEW r \in Run, Alike(r), Probe!Undisturbed(r),
         probeLock # None, probeLock' = probeLock, Pc(r) = "inspect", Pc(r)' = "break",
         ~probeLock.pid \/ Pc(probeLock.owner) = "dead"
  PROVE  HeldInv'
<1>1. \A q \in Run \ {r} : Pc(q)' = Pc(q) /\ Pc(q) \notin Alone
  BY DEF Alike, Pc, Probe!Undisturbed, Alone
<1>2. probeLock.owner \in Run BY DEF ProbeTypes, Probe!LockFile
<1>3. Pc(probeLock.owner) = "dead"
  <2>1. CASE probeLock.pid BY <2>1
  <2>2. CASE ~probeLock.pid
    <3>1. Pc(probeLock.owner) \in {"pid", "dead"} BY <2>2 DEF HeldInv
    <3>2. Pc(probeLock.owner) # "pid" BY <1>1, <1>2 DEF Alone
    <3> QED BY <3>1, <3>2
  <2> QED BY <2>1, <2>2
<1>4. probeLock.owner # r /\ Pc(probeLock.owner)' = "dead" BY <1>1, <1>2, <1>3
<1>5. \A q \in Run : Pc(q)' \in Holding => probeLock.owner = q BY <1>1 DEF HeldInv, Holding
<1>6. \A q, p \in Run : Pc(q)' \in Alone /\ Pc(p)' \in Alone => q = p BY <1>1 DEF Alone
<1> QED BY <1>4, <1>5, <1>6 DEF HeldInv, Pc

-----------------------------------------------------------------------------
(* What is named, and the rest *)

\* A run moves and publishes nothing.
LEMMA NamedQuietly ==
  ASSUME ProbeTypes, NamedInv, NEW r \in Run, Alike(r), UNCHANGED <<latest, generation>>,
         Pc(r) \in After => Pc(r)' \in After,
         Pc(r)' \in {"point", "clean"} => Pc(r)' = Pc(r),
         Before(r)' # None => Before(r)' \in Run /\ Pc(Before(r)') \in After,
         Pc(r)' \in {"done", "used"} => Before(r)' # None
  PROVE  NamedInv'
<1>1. \A q \in Run \ {r} : Pc(q)' = Pc(q) /\ Before(q)' = Before(q) BY DEF Alike, Pc, Before
<1>2. \A q \in Run : Pc(q) \in After => Pc(q)' \in After BY <1>1
<1>3. latest' # None => Pc(latest)' \in After /\ generation'[latest'] # None
  <2>1. latest # None => latest \in Run BY DEF ProbeTypes
  <2> QED BY <1>2, <2>1 DEF NamedInv
<1>4. ASSUME NEW q \in Run, Before(q)' # None PROVE probing'[Before(q)'].pc \in After
  <2>1. PICK g : g = Before(q)' OBVIOUS
  <2>2. g \in Run /\ Pc(g) \in After
    <3>1. CASE q = r BY <1>4, <2>1, <3>1
    <3>2. CASE q # r BY <1>1, <1>4, <2>1, <3>2 DEF NamedInv, ProbeTypes
    <3> QED BY <3>1, <3>2
  <2>3. Pc(g)' \in After BY <1>2, <2>2
  <2> QED BY <2>1, <2>3 DEF Pc
<1>5. ASSUME NEW q \in Run
      PROVE  /\ generation'[q] # None => Pc(q)' \in After
             /\ Pc(q)' = "point" => generation'[q] # None
             /\ Pc(q)' = "clean" => latest' = q
             /\ Pc(q)' \in {"done", "used"} => Before(q)' \in Run
  <2>1. CASE q = r BY <1>2, <2>1 DEF NamedInv
  <2>2. CASE q # r BY <1>1, <2>2 DEF NamedInv
  <2> QED BY <2>1, <2>2
<1> QED BY <1>3, <1>4, <1>5 DEF NamedInv, Pc, Before

\* The handle that run r uses is true.
Told(r) ==
  generation[Before(r)] # None => Probe!ProfilesIn(Before(r)) = probing[r].used

\* A handle that is used stays true while generations go at most.
LEMMA HandlesStay ==
  ASSUME ProbeTypes, Probe!HandleTellsTruth, NEW r \in Run, Alike(r),
         \A q \in Run : generation'[q] \in {generation[q], None},
         \A q \in Run : Pc(q) = "used" => Before(q) \in Run,
         Pc(r)' = "used" => Told(r)'
  PROVE  Probe!HandleTellsTruth'
<1> SUFFICES ASSUME NEW q \in Run, probing'[q].pc = "used", generation'[probing'[q].previous] # None
             PROVE  Probe!ProfilesIn(probing[q].previous)' = probing'[q].used
  BY DEF Probe!HandleTellsTruth
<1>0. CASE q = r BY <1>0 DEF Told, Before, Pc
<1> SUFFICES ASSUME q # r PROVE Probe!ProfilesIn(probing[q].previous)' = probing'[q].used BY <1>0
<1>1. q # r /\ probing'[q] = probing[q] BY DEF Alike
<1>2. PICK g : g = probing[q].previous OBVIOUS
<1>3. g \in Run BY <1>1, <1>2 DEF Pc, Before
<1>4. generation'[g] = generation[g] /\ generation[g] # None BY <1>1, <1>2, <1>3
<1>5. Probe!ProfilesIn(g)' = Probe!ProfilesIn(g) BY <1>4, SameProfiles
<1>6. Probe!ProfilesIn(g) = probing[q].used BY <1>1, <1>2, <1>4 DEF Probe!HandleTellsTruth
<1>7. Probe!ProfilesIn(probing[q].previous)' = Probe!ProfilesIn(g)' BY <1>1, <1>2
<1> QED BY <1>1, <1>5, <1>6, <1>7

\* A run moves, the source stays, generations go at most.
LEMMA RestStays ==
  ASSUME ProbeInv, NEW r \in Run, Alike(r), UNCHANGED <<version, moments>>,
         \A q \in Run : generation'[q] \in {generation[q], None},
         IdentityInv(r)', ProfileInv(r)', BuiltInv(r)', Pc(r)' = "used" => Told(r)'
  PROVE  /\ \A q \in Run : ManifestInv(q)' /\ IdentityInv(q)' /\ ProfileInv(q)' /\ BuiltInv(q)'
         /\ Probe!HandleTellsTruth'
<1>1. ASSUME NEW q \in Run \ {r} PROVE IdentityInv(q)' /\ ProfileInv(q)' /\ BuiltInv(q)'
  <2>1. Before(q) # None => generation'[Before(q)] \in {generation[Before(q)], None}
    BY DEF ProbeInv, ProbeTypes
  <2>2. probing'[q] = probing[q] BY DEF Alike
  <2>3. IdentityInv(q) /\ ProfileInv(q) /\ BuiltInv(q) BY DEF ProbeInv
  <2> QED BY <2>1, <2>2, <2>3, RunStays
<1>2. ASSUME NEW q \in Run PROVE ManifestInv(q)'
  <2>1. ManifestInv(q) BY DEF ProbeInv
  <2> QED BY <2>1, GenerationStays
<1>3. Probe!HandleTellsTruth'
  <2>1. \A q \in Run : Pc(q) = "used" => Before(q) \in Run BY DEF ProbeInv, NamedInv
  <2>2. ProbeTypes /\ Probe!HandleTellsTruth BY DEF ProbeInv
  <2> QED BY <2>1, <2>2, HandlesStay
<1> QED BY <1>1, <1>2, <1>3

\* A run moves and publishes nothing: all is well if it is well with the lock and the run.
LEMMA QuietStep ==
  ASSUME ProbeInv, NEW r \in Run, Alike(r), probing' = [q \in Run |-> probing'[q]],
         UNCHANGED <<version, moments, latest, generation>>,
         probeStaging' \subseteq Run, probeLock' \in Probe!LockFile \cup {None}, HeldInv',
         Shape(probing[r])', (DOMAIN probing[r].profile)' \subseteq Probe!Listed(r)', probing'[r].todo \subseteq File,
         Pc(r) \in After => Pc(r)' \in After,
         Pc(r)' \in {"point", "clean"} => Pc(r)' = Pc(r),
         Before(r)' # None => Before(r)' \in Run /\ Pc(Before(r)') \in After,
         Pc(r)' \in {"done", "used"} => Before(r)' # None, Pc(r)' = "used" => Told(r)',
         IdentityInv(r)', ProfileInv(r)', BuiltInv(r)'
  PROVE  ProbeInv'
<1>1. ProbeTypes'
  <2>1. /\ version' \in moments' /\ moments' \subseteq [File -> Probe!Version]
        /\ latest' \in Run \cup {None} /\ generation' = [q \in Run |-> generation'[q]]
    BY DEF ProbeInv, ProbeTypes
  <2>2. ASSUME NEW q \in Run
        PROVE  /\ Shape(probing[q])' /\ Before(q)' \in Run \cup {None}
               /\ (DOMAIN probing[q].profile)' \subseteq Probe!Listed(q)' /\ probing'[q].todo \subseteq File
    <3>1. CASE q = r BY <3>1
    <3>2. CASE q # r
      <4>1. probing'[q] = probing[q] BY <3>2 DEF Alike
      <4>2. /\ Shape(probing[q]) /\ Before(q) \in Run \cup {None}
            /\ DOMAIN probing[q].profile \subseteq Probe!Listed(q) /\ probing[q].todo \subseteq File
        BY DEF ProbeInv, ProbeTypes
      <4> QED BY <4>1, <4>2 DEF Before, Shape, Probe!Listed
    <3> QED BY <3>1, <3>2
  <2> QED BY <2>1, <2>2 DEF ProbeTypes, Before, Probe!Listed, Shape
<1>2. NamedInv'
  <2>1. ProbeTypes /\ NamedInv BY DEF ProbeInv
  <2>2. Pc(r)' \in {"done", "used"} => Before(r)' # None OBVIOUS
  <2> QED BY <2>1, <2>2, NamedQuietly
<1>3. /\ \A q \in Run : ManifestInv(q)' /\ IdentityInv(q)' /\ ProfileInv(q)' /\ BuiltInv(q)'
      /\ Probe!HandleTellsTruth'
  <2>1. \A q \in Run : generation'[q] \in {generation[q], None} OBVIOUS
  <2> QED BY <2>1, RestStays
<1> QED BY <1>1, <1>2, <1>3 DEF ProbeInv

\* A run gives up, dies, or ends with a handle, and forgets.
LEMMA LeavingStep ==
  ASSUME ProbeInv, NEW r \in Run, NEW from, NEW to \in {"done", "failed", "dead"}, NEW g,
         Probe!Leave(r, from, to, g), UNCHANGED <<version, moments, latest, generation>>,
         probeStaging' \subseteq Run, probeLock' \in Probe!LockFile \cup {None}, HeldInv',
         g # None => g \in Run /\ Pc(g) \in After, to = "done" => g # None
  PROVE  ProbeInv'
<1>0. ProbeTypes BY DEF ProbeInv
<1>1. /\ Pc(r) = from /\ Pc(r)' = to /\ Shape(probing[r])' /\ Before(r)' = g
      /\ probing'[r].todo = {} /\ probing'[r].profile = probing'[r].identity
      /\ Alike(r) /\ probing' = [q \in Run |-> probing'[q]]
  BY <1>0, Leaving DEF Alike
<1>2. (DOMAIN probing[r].profile)' \subseteq Probe!Listed(r)' /\ probing'[r].todo \subseteq File
  BY <1>1 DEF Probe!Listed
<1>3. Pc(r)' \in After /\ Pc(r)' \notin {"point", "clean", "used"} BY <1>1 DEF After
<1>4. Before(r)' # None => Before(r)' \in Run /\ Pc(Before(r)') \in After BY <1>1
<1>5. Pc(r)' = "done" => Before(r)' # None BY <1>1
<1>6. IdentityInv(r)' /\ ProfileInv(r)' /\ BuiltInv(r)'
  BY <1>1 DEF IdentityInv, ProfileInv, BuiltInv, Compared, Inspected, Alone
<1> QED BY <1>1, <1>2, <1>3, <1>4, <1>5, <1>6, QuietStep

\* What a run knows of its files does not depend on where it is.
LEMMA SameKnowledge ==
  ASSUME NEW r \in Run, UNCHANGED <<version, moments, generation>>, Before(r)' = Before(r),
         probing'[r].identity = probing[r].identity, probing'[r].known = probing[r].known,
         probing'[r].profile = probing[r].profile, probing'[r].todo = probing[r].todo
  PROVE  /\ Probe!Listed(r)' = Probe!Listed(r) /\ Probe!Unchanged(r)' = Probe!Unchanged(r)
         /\ (\A f, v : Seen(f, v)' = Seen(f, v))
         /\ Probe!ProfilesIn(Before(r))' = Probe!ProfilesIn(Before(r))
<1>1. Probe!ProfilesIn(Before(r))' = Probe!ProfilesIn(Before(r))
  <2>1. PICK g : g = Before(r) OBVIOUS
  <2>2. Probe!ProfilesIn(g)' = Probe!ProfilesIn(g) BY SameProfiles
  <2>3. Probe!ProfilesIn(Before(r))' = Probe!ProfilesIn(g)' BY <2>1
  <2> QED BY <2>1, <2>2, <2>3
<1> QED BY <1>1 DEF Probe!Listed, Probe!Unchanged, Seen

\* A run that has inspected its files goes on to take the lock and to build.
LEMMA GoingStep ==
  ASSUME ProbeInv, NEW r \in Run, NEW from \in Compared, NEW to \in Inspected,
         Probe!Goto(r, from, to), probing[r].todo = {},
         UNCHANGED <<version, moments, latest, generation>>,
         probeStaging' \subseteq Run, probeLock' \in Probe!LockFile \cup {None}, HeldInv'
  PROVE  ProbeInv'
<1>0. ProbeTypes BY DEF ProbeInv
<1>1. /\ Pc(r) = from /\ Pc(r)' = to /\ Shape(probing[r])' /\ Before(r)' = Before(r)
      /\ probing'[r].identity = probing[r].identity /\ probing'[r].known = probing[r].known
      /\ probing'[r].profile = probing[r].profile /\ probing'[r].todo = probing[r].todo
      /\ Alike(r) /\ probing' = [q \in Run |-> probing'[q]]
  BY <1>0, Going DEF Alike
<1>2. /\ Probe!Listed(r)' = Probe!Listed(r) /\ Probe!Unchanged(r)' = Probe!Unchanged(r)
      /\ (\A f, v : Seen(f, v)' = Seen(f, v))
      /\ Probe!ProfilesIn(Before(r))' = Probe!ProfilesIn(Before(r))
  BY <1>1, SameKnowledge
<1>3. (DOMAIN probing[r].profile)' \subseteq Probe!Listed(r)' /\ probing'[r].todo \subseteq File
  BY <1>0, <1>1, <1>2 DEF ProbeTypes
<1>4. /\ Pc(r) \in Compared /\ Pc(r)' \in Compared /\ Pc(r)' \in Inspected /\ Pc(r) \notin After
      /\ Pc(r)' \notin {"point", "clean", "done", "used", "identify", "validate"}
  BY <1>1 DEF After, Compared, Inspected, Alone
<1>5. Before(r)' # None => Before(r)' \in Run /\ Pc(Before(r)') \in After
  BY <1>1 DEF ProbeInv, ProbeTypes, NamedInv
<1>6. IdentityInv(r)'
  <2>1. IdentityInv(r) BY DEF ProbeInv
  <2>2. /\ probing[r].identity \in Profile /\ probing[r].todo \subseteq Probe!Listed(r)
        /\ \A f \in Probe!Listed(r) : Seen(f, probing[r].identity[f])
    BY <1>4, <2>1 DEF IdentityInv
  <2> QED BY <1>1, <1>2, <1>4, <2>2 DEF IdentityInv
<1>7. ProfileInv(r)'
  <2>1. ProfileInv(r) BY DEF ProbeInv
  <2>2. /\ Before(r) # None /\ generation[Before(r)] # None => probing[r].known = Probe!ProfilesIn(Before(r))
        /\ DOMAIN probing[r].profile = Probe!Listed(r) \ probing[r].todo
        /\ \A f \in DOMAIN probing[r].profile : Seen(f, probing[r].profile[f])
        /\ \A f \in Probe!Unchanged(r) :
             f \notin probing[r].todo /\ probing[r].profile[f] = probing[r].identity[f]
    BY <1>4, <2>1 DEF ProfileInv
  <2> QED BY <1>1, <1>2, <2>2 DEF ProfileInv
<1>8. BuiltInv(r)' BY <1>4 DEF BuiltInv
<1>9. Pc(r)' # "used" BY <1>4
<1> QED BY <1>1, <1>3, <1>4, <1>5, <1>6, <1>7, <1>8, QuietStep

\* The runs that end.
LEMMA EndingSteps ==
  ASSUME ProbeInv, SoundLock, NEW r \in Run,
         Probe!Reuse(r) \/ Probe!Release(r) \/ Probe!Fail(r) \/ Probe!Die(r)
  PROVE  ProbeInv'
<1>0. ProbeTypes /\ HeldInv /\ NamedInv BY DEF ProbeInv
<1>1. CASE Probe!Reuse(r)
  <2>1. Probe!Leave(r, "identify", "done", Before(r)) /\ Before(r) # None
        /\ UNCHANGED <<version, moments, latest, generation, probeLock, probeStaging>>
    BY <1>1 DEF Probe!Reuse, Probe!Reusable, Probe!source, Probe!disk, Before
  <2>2. /\ Pc(r) = "identify" /\ Pc(r)' = "done" /\ Alike(r) BY <1>0, <2>1, Leaving DEF Alike
  <2>3. HeldInv' BY <1>0, <2>1, <2>2, HeldQuietly DEF Holding, Alone
  <2>4. PICK g : g = Before(r) OBVIOUS
  <2>5. g \in Run /\ Pc(g) \in After BY <1>0, <2>1, <2>4 DEF ProbeTypes, NamedInv
  <2>6. probeStaging' \subseteq Run /\ probeLock' \in Probe!LockFile \cup {None}
    BY <1>0, <2>1 DEF ProbeTypes
  <2> QED BY <2>1, <2>3, <2>4, <2>5, <2>6, LeavingStep
<1>2. CASE Probe!Release(r)
  <2>1. Probe!Leave(r, "release", "done", r) /\ probeLock' = None
        /\ UNCHANGED <<version, moments, latest, generation, probeStaging>>
    BY <1>2 DEF Probe!Release, Probe!source
  <2>2. /\ Pc(r) = "release" /\ Pc(r)' = "done" /\ Alike(r) BY <1>0, <2>1, Leaving DEF Alike
  <2>3. HeldInv' BY <1>0, <2>1, <2>2, HeldNoMore DEF Holding
  <2>4. r # None BY ProbeConstants DEF Probe!ProbeAssumption
  <2>5. Pc(r) \in After BY <2>2 DEF After
  <2>6. probeStaging' \subseteq Run /\ probeLock' \in Probe!LockFile \cup {None}
    BY <1>0, <2>1 DEF ProbeTypes
  <2> QED BY <2>1, <2>3, <2>4, <2>5, <2>6, LeavingStep
<1>3. CASE Probe!Fail(r)
  <2>1. PICK from : from = Pc(r) OBVIOUS
  <2>2. /\ Probe!Leave(r, from, "failed", None) /\ from \in {"identify", "inspect"} \cup Probe!Locked
        /\ probeLock' = IF from \in Probe!Locked THEN None ELSE probeLock
        /\ probeStaging' \subseteq probeStaging /\ UNCHANGED <<version, moments, latest, generation>>
    BY <1>3, <2>1 DEF Probe!Fail, Probe!source, Pc
  <2>3. /\ Pc(r) = from /\ Pc(r)' = "failed" /\ Alike(r) BY <1>0, <2>2, Leaving DEF Alike
  <2>4. HeldInv'
    <3>1. CASE from \in Probe!Locked BY <1>0, <2>2, <2>3, <3>1, HeldNoMore DEF Holding, Probe!Locked
    <3>2. CASE from \notin Probe!Locked BY <1>0, <2>2, <2>3, <3>2, HeldQuietly DEF Holding, Alone
    <3> QED BY <3>1, <3>2
  <2>5. probeStaging' \subseteq Run /\ probeLock' \in Probe!LockFile \cup {None}
    BY <1>0, <2>2 DEF ProbeTypes
  <2> QED BY <2>2, <2>4, <2>5, LeavingStep
<1>4. CASE Probe!Die(r)
  <2>1. PICK from : from = Pc(r) OBVIOUS
  <2>2. /\ Probe!Leave(r, from, "dead", None) /\ from # "dead"
        /\ UNCHANGED <<version, moments, latest, generation, probeLock, probeStaging>>
    BY <1>4, <2>1 DEF Probe!Die, Probe!source, Probe!disk, Probe!AtRest, Pc
  <2>3. /\ Pc(r) = from /\ Pc(r)' = "dead" /\ Alike(r) BY <1>0, <2>2, Leaving DEF Alike
  <2>4. HeldInv' BY <1>0, <2>2, <2>3, HeldQuietly DEF Holding, Alone
  <2>5. probeStaging' \subseteq Run /\ probeLock' \in Probe!LockFile \cup {None}
    BY <1>0, <2>2 DEF ProbeTypes
  <2> QED BY <2>2, <2>4, <2>5, LeavingStep
<1> QED BY <1>1, <1>2, <1>3, <1>4

\* The runs that take, break and use the lock.
LEMMA LockSteps ==
  ASSUME ProbeInv, SoundLock, NEW r \in Run,
         \/ Probe!CreateLock(r) \/ Probe!WritePid(r) \/ Probe!FindLock(r) \/ Probe!BreakLock(r)
         \/ Probe!Stage(r)
  PROVE  ProbeInv'
<1>0. ProbeTypes /\ HeldInv /\ NamedInv BY DEF ProbeInv
<1>a. probeStaging \subseteq Run /\ probeLock \in Probe!LockFile \cup {None} BY <1>0 DEF ProbeTypes
<1>b. Pc(r) \in Inspected => probing[r].todo = {} BY DEF ProbeInv, ProfileInv
<1>1. CASE Probe!CreateLock(r)
  <2>1. PICK from : from = Pc(r) OBVIOUS
  <2>2. /\ Probe!Goto(r, from, "pid") /\ from \in {"inspect", "again"} /\ probing[r].todo = {}
        /\ probeLock = None /\ Probe!Undisturbed(r) /\ probeLock' = [owner |-> r, pid |-> FALSE]
        /\ UNCHANGED <<version, moments, latest, generation, probeStaging>>
    BY <1>1, <2>1 DEF Probe!CreateLock, Probe!source, Pc
  <2>3. Alike(r) /\ Pc(r)' = "pid" BY <1>0, <2>2, Going DEF Alike
  <2>4. HeldInv' BY <1>0, <2>2, <2>3, HeldFirst
  <2>5. probeLock' \in Probe!LockFile \cup {None}
    <3>1. [owner |-> r, pid |-> FALSE] \in Probe!LockFile BY DEF Probe!LockFile
    <3> QED BY <2>2, <3>1
  <2>6. from \in Compared /\ "pid" \in Inspected BY <2>2 DEF Compared, Inspected, Alone
  <2>7. probeStaging' \subseteq Run BY <1>a, <2>2
  <2> QED BY <2>2, <2>4, <2>5, <2>6, <2>7, GoingStep
<1>2. CASE Probe!WritePid(r)
  <2>1. /\ Probe!Goto(r, "pid", "build")
        /\ probeLock' = IF probeLock # None /\ probeLock.owner = r
                         THEN [probeLock EXCEPT !.pid = TRUE] ELSE probeLock
        /\ UNCHANGED <<version, moments, latest, generation, probeStaging>>
    BY <1>2 DEF Probe!WritePid, Probe!source
  <2>2. Alike(r) /\ Pc(r) = "pid" /\ Pc(r)' = "build" BY <1>0, <2>1, Going DEF Alike
  <2>3. HeldInv' /\ probeLock' \in Probe!LockFile BY <1>0, <2>1, <2>2, HeldWithPid
  <2>4. "pid" \in Compared /\ "pid" \in Inspected /\ "build" \in Inspected
    BY DEF Compared, Inspected, Alone
  <2>5. probing[r].todo = {} /\ probeStaging' \subseteq Run BY <1>a, <1>b, <2>1, <2>2, <2>4
  <2>6. probeLock' \in Probe!LockFile \cup {None} BY <2>3
  <2> QED BY <2>1, <2>3, <2>4, <2>5, <2>6, GoingStep
<1>3. CASE Probe!FindLock(r)
  <2>1. PICK from : from = Pc(r) OBVIOUS
  <2>2. /\ from \in {"inspect", "again"} /\ probing[r].todo = {} /\ probeLock # None
        /\ Probe!Undisturbed(r)
        /\ UNCHANGED <<version, moments, latest, generation, probeLock, probeStaging>>
    BY <1>3, <2>1 DEF Probe!FindLock, Probe!source, Probe!disk, Pc
  <2>3. \/ /\ Probe!Goto(r, "inspect", "break") /\ from = "inspect"
           /\ ~probeLock.pid \/ Pc(probeLock.owner) = "dead"
        \/ Probe!Leave(r, from, "failed", None)
    BY <1>3, <2>1 DEF Probe!FindLock, Probe!Alive, Pc
  <2>4. probeStaging' \subseteq Run /\ probeLock' \in Probe!LockFile \cup {None} BY <1>a, <2>2
  <2>5. CASE Probe!Leave(r, from, "failed", None)
    <3>1. Alike(r) /\ Pc(r) = from /\ Pc(r)' = "failed" BY <1>0, <2>5, Leaving DEF Alike
    <3>2. HeldInv' BY <1>0, <2>2, <3>1, HeldQuietly DEF Holding, Alone
    <3> QED BY <2>2, <2>4, <2>5, <3>2, LeavingStep
  <2>6. CASE /\ Probe!Goto(r, "inspect", "break") /\ from = "inspect"
             /\ ~probeLock.pid \/ Pc(probeLock.owner) = "dead"
    <3>1. Alike(r) /\ Pc(r) = "inspect" /\ Pc(r)' = "break" BY <1>0, <2>6, Going DEF Alike
    <3>2. HeldInv' BY <1>0, <2>2, <2>6, <3>1, HeldByTheDead
    <3>3. "inspect" \in Compared /\ "break" \in Inspected BY DEF Compared, Inspected, Alone
    <3> QED BY <2>2, <2>4, <2>6, <3>2, <3>3, GoingStep
  <2> QED BY <2>3, <2>5, <2>6
<1>4. CASE Probe!BreakLock(r)
  <2>1. /\ Probe!Goto(r, "break", "again") /\ probeLock' = None
        /\ UNCHANGED <<version, moments, latest, generation, probeStaging>>
    BY <1>4 DEF Probe!BreakLock, Probe!source
  <2>2. Alike(r) /\ Pc(r) = "break" /\ Pc(r)' = "again" BY <1>0, <2>1, Going DEF Alike
  <2>3. HeldInv' BY <1>0, <2>1, <2>2, HeldNoMore DEF Alone
  <2>4. "break" \in Compared /\ "break" \in Inspected /\ "again" \in Inspected
    BY DEF Compared, Inspected, Alone
  <2>5. probing[r].todo = {} /\ probeStaging' \subseteq Run BY <1>a, <1>b, <2>1, <2>2, <2>4
  <2>6. probeLock' \in Probe!LockFile \cup {None} BY <2>1
  <2> QED BY <2>1, <2>3, <2>4, <2>5, <2>6, GoingStep
<1>5. CASE Probe!Stage(r)
  <2>1. /\ Probe!Goto(r, "build", "write") /\ probeStaging' \subseteq Run
        /\ UNCHANGED <<version, moments, latest, generation, probeLock>>
    BY <1>5, <1>a DEF Probe!Stage, Probe!source
  <2>2. Alike(r) /\ Pc(r) = "build" /\ Pc(r)' = "write" BY <1>0, <2>1, Going DEF Alike
  <2>3. HeldInv' BY <1>0, <2>1, <2>2, HeldQuietly DEF Holding, Alone
  <2>4. "build" \in Compared /\ "build" \in Inspected /\ "write" \in Inspected
    BY DEF Compared, Inspected, Alone
  <2>5. probing[r].todo = {} BY <1>b, <2>2, <2>4
  <2>6. probeLock' \in Probe!LockFile \cup {None} BY <1>a, <2>1
  <2> QED BY <2>1, <2>3, <2>4, <2>5, <2>6, GoingStep
<1> QED BY <1>1, <1>2, <1>3, <1>4, <1>5

-----------------------------------------------------------------------------
(* Reading the files *)

LEMMA Versions == 0 \in Probe!Version /\ \A v \in Probe!Version : v \in Nat
BY ProbeConstants DEF Probe!ProbeAssumption, Probe!Version

\* What is read now was seen.
LEMMA ReadNow ==
  ASSUME ProbeTypes, NEW f \in File, version[f] > 0
  PROVE  Seen(f, version[f]) /\ version[f] \in Probe!Version
BY Versions DEF ProbeTypes, Seen

LEMMA StartStep ==
  ASSUME ProbeInv, NEW r \in Run, Probe!Start(r)
  PROVE  ProbeInv'
<1> DEFINE S == {f \in File : version[f] > 0}
           g == IF latest # None /\ generation[latest] # None THEN latest ELSE None
           x == [Probe!Fresh EXCEPT !.pc = "identify", !.todo = S, !.identity = [f \in S |-> 0],
                                    !.previous = g]
<1>0. ProbeTypes /\ HeldInv /\ NamedInv BY DEF ProbeInv
<1>1. /\ Probe!Become(r, "idle", x)
      /\ UNCHANGED <<version, moments, latest, generation, probeLock, probeStaging>>
  BY DEF Probe!Start, Probe!source, Probe!disk
<1>2. /\ x.pc = "identify" /\ x.previous = g /\ x.todo = S /\ x.identity = [f \in S |-> 0]
      /\ DOMAIN x.profile = {} /\ Shape(x)
  <2>1. PICK y : y = Probe!Fresh OBVIOUS
  <2>2. Shape(y) /\ y.profile = <<>> BY <2>1 DEF Probe!Fresh, Shape
  <2>3. DOMAIN y.profile = {} BY <2>2
  <2>4. PICK z : z = [f \in S |-> 0] OBVIOUS
  <2>5. x = [y EXCEPT !.pc = "identify", !.todo = S, !.identity = z, !.previous = g] BY <2>1, <2>4
  <2> HIDE DEF x
  <2>6. /\ x.pc = "identify" /\ x.previous = g /\ x.todo = S /\ x.identity = z
        /\ x.profile = y.profile /\ Shape(x)
    BY <2>2, <2>5 DEF Shape
  <2> QED BY <2>3, <2>4, <2>6
<1>3. S \subseteq File /\ [f \in S |-> 0] \in Profile
  <2>1. S \in SUBSET File OBVIOUS
  <2>2. [f \in S |-> 0] \in [S -> Probe!Version] BY Versions
  <2> HIDE DEF S
  <2> QED BY <2>1, <2>2 DEF Profile
<1>4. g # None => g \in Run /\ Pc(g) \in After BY <1>0 DEF ProbeTypes, NamedInv
<1> HIDE DEF x, S, g
<1>5. /\ Pc(r) = "idle" /\ probing'[r] = x /\ Pc(r)' = "identify" /\ Before(r)' = g
      /\ Alike(r) /\ probing' = [q \in Run |-> probing'[q]]
  BY <1>0, <1>1, <1>2, Turning DEF Alike
<1>6. Probe!Listed(r)' = S BY <1>2, <1>5 DEF Probe!Listed
<1>7. HeldInv' BY <1>0, <1>1, <1>5, HeldQuietly DEF Holding, Alone
<1>8. /\ Shape(probing[r])' /\ (DOMAIN probing[r].profile)' \subseteq Probe!Listed(r)'
      /\ probing'[r].todo \subseteq File
  BY <1>2, <1>3, <1>5 DEF Shape
<1>9. IdentityInv(r)' /\ ProfileInv(r)' /\ BuiltInv(r)'
  BY <1>2, <1>3, <1>5, <1>6 DEF IdentityInv, ProfileInv, BuiltInv, Compared, Inspected, Alone
<1>10. probeStaging' \subseteq Run /\ probeLock' \in Probe!LockFile \cup {None}
  BY <1>0, <1>1 DEF ProbeTypes
<1>11. Pc(r) \notin After BY <1>5 DEF After
<1>12. Before(r)' # None => Before(r)' \in Run /\ Pc(Before(r)') \in After BY <1>4, <1>5
<1> QED BY <1>1, <1>5, <1>7, <1>8, <1>9, <1>10, <1>11, <1>12, QuietStep

LEMMA IdentifyStep ==
  ASSUME ProbeInv, NEW r \in Run, Probe!Identify(r)
  PROVE  ProbeInv'
<1> DEFINE n == Probe!NextFile(r)
           x == [probing[r] EXCEPT !.identity[n] = version[n], !.todo = @ \ {n}]
<1>0. ProbeTypes /\ HeldInv /\ NamedInv BY DEF ProbeInv
<1>1. /\ Probe!Become(r, "identify", x) /\ version[n] > 0
      /\ UNCHANGED <<version, moments, latest, generation, probeLock, probeStaging>>
  BY DEF Probe!Identify, Probe!MayRead, Probe!source, Probe!disk
<1>2. /\ x.pc = probing[r].pc /\ x.previous = Before(r) /\ x.todo = probing[r].todo \ {n}
      /\ x.identity = [probing[r].identity EXCEPT ![n] = version[n]]
      /\ x.profile = probing[r].profile /\ Shape(x)
  <2>1. PICK y : y = probing[r] OBVIOUS
  <2>2. PICK z : z = [y.identity EXCEPT ![n] = version[n]] OBVIOUS
  <2>3. PICK t : t = y.todo \ {n} OBVIOUS
  <2>4. x = [y EXCEPT !.identity = z, !.todo = t] BY <2>1, <2>2, <2>3
  <2>5. Shape(y) BY <1>0, <2>1 DEF ProbeTypes
  <2> HIDE DEF x
  <2>6. /\ x.pc = y.pc /\ x.previous = y.previous /\ x.todo = t /\ x.identity = z
        /\ x.profile = y.profile /\ Shape(x)
    BY <2>4, <2>5 DEF Shape
  <2> QED BY <2>1, <2>2, <2>3, <2>6 DEF Before
<1> HIDE DEF x
<1>3. /\ Pc(r) = "identify" /\ probing'[r] = x /\ Pc(r)' = "identify" /\ Before(r)' = Before(r)
      /\ Alike(r) /\ probing' = [q \in Run |-> probing'[q]]
  <2>1. /\ Pc(r) = "identify" /\ probing'[r] = x /\ Pc(r)' = x.pc /\ Before(r)' = x.previous
        /\ Alike(r) /\ probing' = [q \in Run |-> probing'[q]]
    BY <1>0, <1>1, Turning DEF Alike
  <2> QED BY <1>2, <2>1 DEF Pc
<1>4. /\ probing[r].identity \in Profile /\ probing[r].todo \subseteq Probe!Listed(r)
      /\ \A f \in Probe!Listed(r) : f \in probing[r].todo \/ Seen(f, probing[r].identity[f])
  BY <1>3 DEF ProbeInv, IdentityInv
<1>5. PICK D \in SUBSET File : probing[r].identity \in [D -> Probe!Version] BY <1>4 DEF Profile
<1>6. n \in D => Seen(n, version[n]) /\ version[n] \in Probe!Version BY <1>0, <1>1, ReadNow
<1>7. x.identity \in [D -> Probe!Version] BY <1>2, <1>5, <1>6
<1>8. Probe!Listed(r) = D /\ Probe!Listed(r)' = D BY <1>3, <1>5, <1>7 DEF Probe!Listed
<1>9. \A f, v : Seen(f, v)' = Seen(f, v) BY <1>1 DEF Seen
<1>10. IdentityInv(r)'
  <2>1. probing'[r].identity \in Profile /\ probing'[r].todo \subseteq Probe!Listed(r)'
    BY <1>2, <1>3, <1>4, <1>7, <1>8 DEF Profile
  <2>2. ASSUME NEW f \in D PROVE f \in x.todo \/ Seen(f, x.identity[f])
    <3>1. CASE f = n BY <1>2, <1>5, <1>6, <3>1
    <3>2. CASE f # n BY <1>2, <1>4, <1>5, <1>8, <3>2
    <3> QED BY <3>1, <3>2
  <2>3. \A f \in Probe!Listed(r)' : f \in probing'[r].todo \/ Seen(f, probing[r].identity[f])'
    BY <1>3, <1>8, <1>9, <2>2
  <2> QED BY <1>3, <2>1, <2>3 DEF IdentityInv, Compared, Inspected, Alone
<1>11. ProfileInv(r)' /\ BuiltInv(r)'
  BY <1>3 DEF ProfileInv, BuiltInv, Compared, Inspected, Alone
<1>12. HeldInv' BY <1>0, <1>1, <1>3, HeldQuietly DEF Holding, Alone
<1>13. /\ Shape(probing[r])' /\ (DOMAIN probing[r].profile)' \subseteq Probe!Listed(r)'
       /\ probing'[r].todo \subseteq File
  BY <1>0, <1>2, <1>3, <1>8 DEF Shape, ProbeTypes
<1>14. probeStaging' \subseteq Run /\ probeLock' \in Probe!LockFile \cup {None}
  BY <1>0, <1>1 DEF ProbeTypes
<1>15. Pc(r) \notin After BY <1>3 DEF After
<1>16. Before(r)' # None => Before(r)' \in Run /\ Pc(Before(r)') \in After
  BY <1>0, <1>3 DEF ProbeTypes, NamedInv
<1> QED BY <1>1, <1>3, <1>10, <1>11, <1>12, <1>13, <1>14, <1>15, <1>16, QuietStep

LEMMA CompareStep ==
  ASSUME ProbeInv, NEW r \in Run, Probe!Compare(r)
  PROVE  ProbeInv'
<1> DEFINE k == Probe!ProfilesIn(Before(r))
           same == {f \in Probe!Listed(r) \cap DOMAIN k : k[f] = probing[r].identity[f]}
           x == [probing[r] EXCEPT !.pc = "inspect", !.known = k, !.todo = Probe!Listed(r) \ same,
                                   !.profile = Probe!Restrict(k, same)]
<1>0. ProbeTypes /\ HeldInv /\ NamedInv BY DEF ProbeInv
<1>1. /\ Probe!Become(r, "identify", x) /\ probing[r].todo = {}
      /\ UNCHANGED <<version, moments, latest, generation, probeLock, probeStaging>>
  BY DEF Probe!Compare, Probe!source, Probe!disk, Before
<1>2. /\ x.pc = "inspect" /\ x.previous = Before(r) /\ x.todo = Probe!Listed(r) \ same
      /\ x.identity = probing[r].identity /\ x.known = k
      /\ x.profile = [f \in same |-> k[f]] /\ Shape(x)
  <2>1. PICK y : y = probing[r] OBVIOUS
  <2>2. PICK z : z = Probe!Restrict(k, same) OBVIOUS
  <2>3. PICK t : t = Probe!Listed(r) \ same OBVIOUS
  <2>4. PICK j : j = k OBVIOUS
  <2>5. x = [y EXCEPT !.pc = "inspect", !.known = j, !.todo = t, !.profile = z] BY <2>1, <2>2, <2>3, <2>4
  <2>6. Shape(y) BY <1>0, <2>1 DEF ProbeTypes
  <2>7. z = [f \in same |-> k[f]] BY <2>2 DEF Probe!Restrict
  <2> HIDE DEF x, k, same
  <2>8. /\ x.pc = "inspect" /\ x.previous = y.previous /\ x.todo = t /\ x.identity = y.identity
        /\ x.known = j /\ x.profile = z /\ Shape(x)
    BY <2>5, <2>6 DEF Shape
  <2> QED BY <2>1, <2>3, <2>4, <2>7, <2>8 DEF Before
<1> HIDE DEF x
<1>3. /\ Pc(r) = "identify" /\ probing'[r] = x /\ Pc(r)' = "inspect" /\ Before(r)' = Before(r)
      /\ Alike(r) /\ probing' = [q \in Run |-> probing'[q]]
  BY <1>0, <1>1, <1>2, Turning DEF Alike
<1>4. /\ probing[r].identity \in Profile
      /\ \A f \in Probe!Listed(r) : Seen(f, probing[r].identity[f])
  BY <1>1, <1>3 DEF ProbeInv, IdentityInv
<1>5. Probe!Listed(r)' = Probe!Listed(r) /\ Probe!Listed(r) \subseteq File
  <2>1. PICK D \in SUBSET File : probing[r].identity \in [D -> Probe!Version] BY <1>4 DEF Profile
  <2> QED BY <1>2, <1>3, <2>1 DEF Probe!Listed
<1>6. \A f, v : Seen(f, v)' = Seen(f, v) BY <1>1 DEF Seen
<1>7. IdentityInv(r)'
  BY <1>2, <1>3, <1>4, <1>5, <1>6 DEF IdentityInv, Compared, Inspected, Alone
<1>8. Probe!ProfilesIn(Before(r))' = k
  <2>1. PICK g : g = Before(r) OBVIOUS
  <2>2. Probe!ProfilesIn(g)' = Probe!ProfilesIn(g) BY <1>1, SameProfiles
  <2>3. Probe!ProfilesIn(Before(r))' = Probe!ProfilesIn(g)' BY <1>3, <2>1
  <2> QED BY <2>1, <2>2, <2>3
<1>9. Probe!Unchanged(r)' = same BY <1>2, <1>3, <1>5 DEF Probe!Unchanged
<1>10. ProfileInv(r)'
  <2>1. DOMAIN x.profile = same /\ DOMAIN x.profile = Probe!Listed(r) \ x.todo BY <1>2
  <2>2. \A f \in same : x.profile[f] = probing[r].identity[f] /\ f \notin x.todo /\ f \in Probe!Listed(r)
    BY <1>2
  <2>3. \A f \in same : Seen(f, x.profile[f]) BY <1>4, <2>2
  <2> HIDE DEF same, k
  <2>4. /\ Pc(r)' \notin Inspected /\ probing'[r].known = Probe!ProfilesIn(Before(r))'
        /\ DOMAIN probing'[r].profile = Probe!Listed(r)' \ probing'[r].todo
    BY <1>2, <1>3, <1>5, <1>8, <2>1 DEF Inspected, Alone
  <2>5. \A f \in DOMAIN probing'[r].profile : Seen(f, probing[r].profile[f])' BY <1>3, <1>6, <2>1, <2>3
  <2>6. \A f \in Probe!Unchanged(r)' :
          f \notin probing'[r].todo /\ probing'[r].profile[f] = probing'[r].identity[f]
    BY <1>2, <1>3, <1>9, <2>2
  <2> QED BY <2>4, <2>5, <2>6 DEF ProfileInv
<1>11. BuiltInv(r)' BY <1>3 DEF BuiltInv
<1>12. HeldInv' BY <1>0, <1>1, <1>3, HeldQuietly DEF Holding, Alone
<1>13. /\ Shape(probing[r])' /\ (DOMAIN probing[r].profile)' \subseteq Probe!Listed(r)'
       /\ probing'[r].todo \subseteq File
  BY <1>2, <1>3, <1>5 DEF Shape
<1>14. probeStaging' \subseteq Run /\ probeLock' \in Probe!LockFile \cup {None}
  BY <1>0, <1>1 DEF ProbeTypes
<1>15. Pc(r) \notin After BY <1>3 DEF After
<1>16. Before(r)' # None => Before(r)' \in Run /\ Pc(Before(r)') \in After
  BY <1>0, <1>3 DEF ProbeTypes, NamedInv
<1> QED BY <1>1, <1>3, <1>7, <1>10, <1>11, <1>12, <1>13, <1>14, <1>15, <1>16, QuietStep

\* There is a first among the files to read.
LEMMA FirstFile ==
  ASSUME NEW S, S \subseteq File, S # {}
  PROVE  Probe!Min(S) \in S
<1> DEFINE R == OpToRel(<, Nat)
<1>1. S \subseteq Nat BY ProbeConstants DEF Probe!ProbeAssumption
<1>2. IsWellFoundedOn(R, Nat) BY NatLessThanWellFounded
<1>3. \A i, j \in Nat : i < j => <<i, j>> \in R BY DEF OpToRel
<1> HIDE DEF R
<1>4. PICK m \in S : \A n \in S : ~(<<n, m>> \in R) BY <1>1, <1>2, WFMin
<1>5. \A n \in S : m <= n
  <2> SUFFICES ASSUME NEW n \in S PROVE m <= n OBVIOUS
  <2>1. m \in Nat /\ n \in Nat BY <1>1, <1>4
  <2>2. ~(n < m) BY <1>3, <1>4, <2>1
  <2> QED BY <2>1, <2>2
<1>6. \E i \in S : \A n \in S : i <= n BY <1>4, <1>5
<1> QED BY <1>6 DEF Probe!Min

LEMMA InspectStep ==
  ASSUME ProbeInv, NEW r \in Run, Probe!Inspect(r)
  PROVE  ProbeInv'
<1> DEFINE n == Probe!NextFile(r)
           p == [f \in DOMAIN probing[r].profile \cup {n} |->
                   IF f = n THEN version[f] ELSE probing[r].profile[f]]
           x == [probing[r] EXCEPT !.todo = @ \ {n}, !.profile = p]
<1>0. ProbeTypes /\ HeldInv /\ NamedInv BY DEF ProbeInv
<1>1. /\ Probe!Become(r, "inspect", x) /\ version[n] > 0 /\ probing[r].todo # {}
      /\ UNCHANGED <<version, moments, latest, generation, probeLock, probeStaging>>
  <2>1. x = [probing[r] EXCEPT !.todo = @ \ {n},
               !.profile = [f \in DOMAIN @ \cup {n} |-> IF f = n THEN version[f] ELSE @[f]]]
    OBVIOUS
  <2> HIDE DEF x
  <2> QED BY <2>1 DEF Probe!Inspect, Probe!MayRead, Probe!source, Probe!disk
<1>2. /\ x.pc = probing[r].pc /\ x.previous = Before(r) /\ x.todo = probing[r].todo \ {n}
      /\ x.identity = probing[r].identity /\ x.known = probing[r].known
      /\ x.profile = p /\ Shape(x)
  <2>1. PICK y : y = probing[r] OBVIOUS
  <2>2. PICK z : z = p OBVIOUS
  <2>3. PICK t : t = y.todo \ {n} OBVIOUS
  <2>4. x = [y EXCEPT !.todo = t, !.profile = z] BY <2>1, <2>2, <2>3
  <2>5. Shape(y) BY <1>0, <2>1 DEF ProbeTypes
  <2> HIDE DEF x, p
  <2>6. /\ x.pc = y.pc /\ x.previous = y.previous /\ x.todo = t /\ x.identity = y.identity
        /\ x.known = y.known /\ x.profile = z /\ Shape(x)
    BY <2>4, <2>5 DEF Shape
  <2> QED BY <2>1, <2>2, <2>3, <2>6 DEF Before
<1> HIDE DEF x
<1>3. /\ Pc(r) = "inspect" /\ probing'[r] = x /\ Pc(r)' = "inspect" /\ Before(r)' = Before(r)
      /\ Alike(r) /\ probing' = [q \in Run |-> probing'[q]]
  <2>1. /\ Pc(r) = "inspect" /\ probing'[r] = x /\ Pc(r)' = x.pc /\ Before(r)' = x.previous
        /\ Alike(r) /\ probing' = [q \in Run |-> probing'[q]]
    BY <1>0, <1>1, Turning DEF Alike
  <2> QED BY <1>2, <2>1 DEF Pc
<1>4. /\ probing[r].identity \in Profile /\ probing[r].todo \subseteq Probe!Listed(r)
      /\ \A f \in Probe!Listed(r) : Seen(f, probing[r].identity[f])
  BY <1>3 DEF ProbeInv, IdentityInv, Compared
<1>5. /\ Before(r) # None /\ generation[Before(r)] # None => probing[r].known = Probe!ProfilesIn(Before(r))
      /\ DOMAIN probing[r].profile = Probe!Listed(r) \ probing[r].todo
      /\ \A f \in DOMAIN probing[r].profile : Seen(f, probing[r].profile[f])
      /\ \A f \in Probe!Unchanged(r) :
           f \notin probing[r].todo /\ probing[r].profile[f] = probing[r].identity[f]
  BY <1>3 DEF ProbeInv, ProfileInv, Compared
<1>6. n \in probing[r].todo /\ n \in File
  BY <1>0, <1>1, FirstFile DEF ProbeTypes, Probe!NextFile
<1>7. Seen(n, version[n]) BY <1>0, <1>1, <1>6, ReadNow
<1>8. /\ Probe!Listed(r)' = Probe!Listed(r) /\ Probe!Unchanged(r)' = Probe!Unchanged(r)
      /\ (\A f, v : Seen(f, v)' = Seen(f, v))
  BY <1>1, <1>2, <1>3 DEF Probe!Listed, Probe!Unchanged, Seen
<1>9. Probe!ProfilesIn(Before(r))' = Probe!ProfilesIn(Before(r))
  <2>1. PICK g : g = Before(r) OBVIOUS
  <2>2. Probe!ProfilesIn(g)' = Probe!ProfilesIn(g) BY <1>1, SameProfiles
  <2>3. Probe!ProfilesIn(Before(r))' = Probe!ProfilesIn(g)' BY <1>3, <2>1
  <2> QED BY <2>1, <2>2, <2>3
<1>10. IdentityInv(r)'
  <2>1. probing'[r].todo \subseteq Probe!Listed(r)' BY <1>2, <1>3, <1>4, <1>8
  <2>2. \A f \in Probe!Listed(r)' : Seen(f, probing[r].identity[f])' BY <1>2, <1>3, <1>4, <1>8
  <2> QED BY <1>2, <1>3, <1>4, <2>1, <2>2 DEF IdentityInv
<1>11. ProfileInv(r)'
  <2>1. DOMAIN p = Probe!Listed(r) \ x.todo BY <1>2, <1>4, <1>5, <1>6
  <2>2. \A f \in DOMAIN p : Seen(f, p[f]) BY <1>5, <1>7
  <2>3. \A f \in Probe!Unchanged(r) : f \notin x.todo /\ p[f] = probing[r].identity[f]
    <3> SUFFICES ASSUME NEW f \in Probe!Unchanged(r)
                 PROVE  f \notin x.todo /\ p[f] = probing[r].identity[f]
      OBVIOUS
    <3>1. f # n /\ f \in DOMAIN probing[r].profile BY <1>5, <1>6 DEF Probe!Unchanged
    <3> QED BY <1>2, <1>5, <3>1
  <2> HIDE DEF p
  <2>4. /\ Pc(r)' \notin Inspected
        /\ Before(r)' # None /\ (generation[Before(r)])' # None =>
              probing'[r].known = Probe!ProfilesIn(Before(r))'
        /\ DOMAIN probing'[r].profile = Probe!Listed(r)' \ probing'[r].todo
    BY <1>1, <1>2, <1>3, <1>5, <1>8, <1>9, <2>1 DEF Inspected, Alone
  <2>5. \A f \in DOMAIN probing'[r].profile : Seen(f, probing[r].profile[f])' BY <1>2, <1>3, <1>8, <2>2
  <2>6. \A f \in Probe!Unchanged(r)' :
          f \notin probing'[r].todo /\ probing'[r].profile[f] = probing'[r].identity[f]
    BY <1>2, <1>3, <1>8, <2>3
  <2> QED BY <2>4, <2>5, <2>6 DEF ProfileInv
<1>12. BuiltInv(r)' BY <1>3 DEF BuiltInv
<1>13. HeldInv' BY <1>0, <1>1, <1>3, HeldQuietly DEF Holding, Alone
<1>14. /\ Shape(probing[r])' /\ (DOMAIN probing[r].profile)' \subseteq Probe!Listed(r)'
       /\ probing'[r].todo \subseteq File
  <2>1. DOMAIN x.profile \subseteq Probe!Listed(r) BY <1>2, <1>4, <1>5, <1>6
  <2> QED BY <1>0, <1>2, <1>3, <1>8, <2>1 DEF Shape, ProbeTypes
<1>15. probeStaging' \subseteq Run /\ probeLock' \in Probe!LockFile \cup {None}
  BY <1>0, <1>1 DEF ProbeTypes
<1>16. Pc(r) \notin After BY <1>3 DEF After
<1>17. Before(r)' # None => Before(r)' \in Run /\ Pc(Before(r)') \in After
  BY <1>0, <1>3 DEF ProbeTypes, NamedInv
<1> QED BY <1>1, <1>3, <1>10, <1>11, <1>12, <1>13, <1>14, <1>15, <1>16, <1>17, QuietStep

-----------------------------------------------------------------------------
(* Building the artifacts *)

\* The profiles that are read back from a generation are those it was made of.
LEMMA WholeProfiles ==
  ASSUME NEW g, NEW D, NEW m, g # None, generation[g] # None, D \subseteq File,
         generation[g].parts = Grid(D, m)
  PROVE  Probe!ProfilesIn(g) = [f \in D |-> m[f]]
<1> DEFINE rows == UNION Probe!Range(generation[g].parts)
<1>1. Probe!Range(generation[g].parts) = {Probe!RowsOf(k, D, m) : k \in Probe!PartitionsOf(D)}
  BY DEF Probe!Range, Grid
<1>2. rows = {<<f, m[f]>> : f \in D}
  <2>1. ASSUME NEW x \in rows PROVE x \in {<<f, m[f]>> : f \in D}
    <3>1. PICK k \in Probe!PartitionsOf(D) : x \in Probe!RowsOf(k, D, m) BY <1>1
    <3> QED BY <3>1 DEF Probe!RowsOf
  <2>2. ASSUME NEW f \in D PROVE <<f, m[f]>> \in rows
    <3>1. PICK k : k \in KeysOf[f] BY ProbeConstants DEF Probe!ProbeAssumption
    <3>2. k \in Probe!PartitionsOf(D) BY <3>1 DEF Probe!PartitionsOf
    <3>3. <<f, m[f]>> \in Probe!RowsOf(k, D, m) BY <3>1 DEF Probe!RowsOf
    <3> QED BY <1>1, <3>2, <3>3
  <2> QED BY <2>1, <2>2
<1> HIDE DEF rows
<1>3. \A x \in rows : x[1] \in D /\ x[2] = m[x[1]]
  <2> SUFFICES ASSUME NEW x \in rows PROVE x[1] \in D /\ x[2] = m[x[1]] OBVIOUS
  <2>1. PICK f \in D : x = <<f, m[f]>> BY <1>2
  <2> QED BY <2>1
<1>4. ASSUME NEW f \in D PROVE \E x \in rows : x[1] = f
  <2>1. <<f, m[f]>> \in rows BY <1>2
  <2>2. <<f, m[f]>>[1] = f OBVIOUS
  <2> QED BY <2>1, <2>2
<1> DEFINE Of(f) == (CHOOSE x \in rows : x[1] = f)[2]
           S == {x[1] : x \in rows}
<1>5. Probe!ProfilesIn(g) = [f \in S |-> Of(f)] BY DEF Probe!ProfilesIn, rows
<1>6. S = D BY <1>3, <1>4
<1>7. ASSUME NEW f \in D PROVE Of(f) = m[f]
  <2>1. PICK y : y = CHOOSE x \in rows : x[1] = f OBVIOUS
  <2>2. y \in rows /\ y[1] = f BY <1>4, <2>1
  <2> QED BY <1>3, <2>1, <2>2
<1> HIDE DEF Of, S
<1>8. Probe!ProfilesIn(g) = [f \in D |-> Of(f)] BY <1>5, <1>6
<1> QED BY <1>7, <1>8

\* Partition k has no changed and no removed file: L lists the files, D the previous ones.
Untouched(k, L, D, was, is, same, p, m) ==
  /\ L \subseteq File /\ D \subseteq File /\ same = {f \in L \cap D : was[f] = is[f]}
  /\ k \notin Probe!PartitionsOf(L \ same) /\ k \notin Probe!PartitionsOf(D \ L)
  /\ \A f \in D : was[f] = m[f]
  /\ \A f \in same : KeysOf[f] = {k} => p[f] = is[f]

\* A partition that is copied is the one that would be made: its files are unchanged, and
\* not inspected again, for they lie in no other partition.
LEMMA CopiedIsMade ==
  ASSUME OnePartition, NEW k, NEW L, NEW D, NEW was, NEW is, NEW same, NEW p, NEW m,
         Untouched(k, L, D, was, is, same, p, m)
  PROVE  Probe!RowsOf(k, D, m) = Probe!RowsOf(k, L, p)
<1> USE DEF Untouched
<1>1. \A f \in L : k \in KeysOf[f] => f \in same BY DEF Probe!PartitionsOf
<1>2. \A f \in D : k \in KeysOf[f] => f \in L BY DEF Probe!PartitionsOf
<1>3. {f \in D : k \in KeysOf[f]} = {f \in L : k \in KeysOf[f]} BY <1>1, <1>2
<1>4. ASSUME NEW f \in L, k \in KeysOf[f] PROVE p[f] = m[f]
  <2>1. f \in same /\ KeysOf[f] = {k} BY <1>1, <1>4 DEF OnePartition
  <2> QED BY <2>1
<1> QED BY <1>3, <1>4 DEF Probe!RowsOf

LEMMA WriteStep ==
  ASSUME ProbeInv, OnePartition, NEW r \in Run, Probe!WriteArtifacts(r)
  PROVE  ProbeInv'
<1> DEFINE L == Probe!Listed(r)
           g == Before(r)
           old == IF g = None \/ generation[g] = None THEN <<>> ELSE generation[g].parts
           copied == (Probe!PartitionsOf(L) \cap DOMAIN old) \ Probe!Affected(r)
           made == Probe!PartitionsOf(L) \ copied
           again == {f \in Probe!Unchanged(r) : KeysOf[f] \cap made # {}}
           p == [f \in L |-> IF f \in again THEN version[f] ELSE probing[r].profile[f]]
           parts == [k \in Probe!PartitionsOf(L) |->
                       IF k \in copied THEN old[k] ELSE Probe!RowsOf(k, L, p)]
           x == [probing[r] EXCEPT !.pc = "validate", !.todo = L, !.profile = p, !.parts = parts]
<1>0. ProbeTypes /\ HeldInv /\ NamedInv BY DEF ProbeInv
<1>1. /\ Probe!Become(r, "write", x) /\ \A f \in again : version[f] > 0
      /\ UNCHANGED <<version, moments, latest, generation, probeLock, probeStaging>>
  BY DEF Probe!WriteArtifacts, Probe!source, Probe!disk, Before
<1>2. /\ x.pc = "validate" /\ x.previous = g /\ x.todo = L /\ x.identity = probing[r].identity
      /\ x.profile = p /\ x.parts = parts /\ Shape(x)
  <2>1. PICK y : y = probing[r] OBVIOUS
  <2>2. PICK z : z = p OBVIOUS
  <2>3. PICK t : t = L OBVIOUS
  <2>4. PICK u : u = parts OBVIOUS
  <2>5. x = [y EXCEPT !.pc = "validate", !.todo = t, !.profile = z, !.parts = u]
    BY <2>1, <2>2, <2>3, <2>4
  <2>6. Shape(y) BY <1>0, <2>1 DEF ProbeTypes
  <2>7. g = y.previous BY <2>1 DEF Before
  <2> HIDE DEF x, p, parts, L, g
  <2>8. /\ x.pc = "validate" /\ x.previous = y.previous /\ x.todo = t /\ x.identity = y.identity
        /\ x.profile = z /\ x.parts = u /\ Shape(x)
    BY <2>5, <2>6 DEF Shape
  <2> QED BY <2>1, <2>2, <2>3, <2>4, <2>7, <2>8
<1> HIDE DEF x
<1>3. /\ Pc(r) = "write" /\ probing'[r] = x /\ Pc(r)' = "validate" /\ Before(r)' = g
      /\ Alike(r) /\ probing' = [q \in Run |-> probing'[q]]
  BY <1>0, <1>1, <1>2, Turning DEF Alike
<1>4. /\ probing[r].identity \in Profile /\ \A f \in L : Seen(f, probing[r].identity[f])
  BY <1>3 DEF ProbeInv, IdentityInv, Compared, Inspected
<1>5. /\ g # None /\ generation[g] # None => probing[r].known = Probe!ProfilesIn(g)
      /\ DOMAIN probing[r].profile = L
      /\ \A f \in L : Seen(f, probing[r].profile[f])
      /\ \A f \in Probe!Unchanged(r) : probing[r].profile[f] = probing[r].identity[f]
  <2>1. "write" \in Inspected /\ "write" \in Compared BY DEF Inspected, Compared
  <2>2. ProfileInv(r) BY DEF ProbeInv
  <2> QED BY <1>3, <2>1, <2>2 DEF ProfileInv
<1>6. L \subseteq File /\ Probe!Listed(r)' = L
  <2>1. PICK D \in SUBSET File : probing[r].identity \in [D -> Probe!Version] BY <1>4 DEF Profile
  <2> QED BY <1>2, <1>3, <2>1 DEF Probe!Listed
<1>7. \A f, v : Seen(f, v)' = Seen(f, v) BY <1>1 DEF Seen
<1>8. ASSUME NEW k \in copied PROVE old[k] = Probe!RowsOf(k, L, p)
  <2>1. g # None /\ generation[g] # None
    <3>1. CASE g = None \/ generation[g] = None
      <4>1. old = <<>> BY <3>1
      <4>2. DOMAIN old = {} BY <4>1
      <4> QED BY <1>8, <4>2
    <3> QED BY <3>1
  <2>2. g \in Run BY <1>0, <2>1 DEF ProbeTypes
  <2>3. ManifestInv(g) BY <2>2 DEF ProbeInv
  <2> DEFINE D == DOMAIN generation[g].dataset
  <2>4. D \subseteq File BY <2>1, <2>3 DEF ManifestInv
  <2>5. PICK m \in moments : MadeAt(generation[g], m) BY <2>1, <2>3 DEF ManifestInv
  <2>6. old = Grid(D, m) BY <2>1, <2>5 DEF MadeAt
  <2>7. probing[r].known = [f \in D |-> m[f]]
    <3>1. generation[g].parts = Grid(D, m) BY <2>5 DEF MadeAt
    <3>2. PICK e : e = g OBVIOUS
    <3> HIDE DEF D, g
    <3>3. Probe!ProfilesIn(e) = [f \in D |-> m[f]] BY <2>1, <2>4, <3>1, <3>2, WholeProfiles
    <3> QED BY <1>5, <2>1, <3>2, <3>3
  <2>8. old[k] = Probe!RowsOf(k, D, m) BY <1>8, <2>6 DEF Grid
  <2>9. Probe!Unchanged(r) = {f \in L \cap D : probing[r].known[f] = probing[r].identity[f]}
    BY <2>7 DEF Probe!Unchanged
  <2>10. k \notin Probe!PartitionsOf(L \ Probe!Unchanged(r)) /\ k \notin Probe!PartitionsOf(D \ L)
    <3>1. k \in Probe!PartitionsOf(L) /\ k \notin Probe!Affected(r) BY <1>8
    <3>2. DOMAIN probing[r].known = D BY <2>7
    <3> HIDE DEF L, D
    <3> QED BY <3>1, <3>2 DEF Probe!Affected, L
  <2>11. \A f \in D : probing[r].known[f] = m[f] BY <2>7
  <2>12. ASSUME NEW f \in Probe!Unchanged(r), KeysOf[f] = {k} PROVE p[f] = probing[r].identity[f]
    <3>1. f \notin again BY <1>8, <2>12
    <3>2. f \in L BY <2>9
    <3> QED BY <1>5, <3>1, <3>2
  <2> HIDE DEF D, L, p, copied, old
  <2>13. PICK i, j, u : i = probing[r].known /\ j = probing[r].identity /\ u = Probe!Unchanged(r) OBVIOUS
  <2>14. u = {f \in L \cap D : i[f] = j[f]} BY <2>9, <2>13
  <2>15. k \notin Probe!PartitionsOf(L \ u) /\ k \notin Probe!PartitionsOf(D \ L) BY <2>10, <2>13
  <2>16. \A f \in D : i[f] = m[f] BY <2>11, <2>13
  <2>17. \A f \in u : KeysOf[f] = {k} => p[f] = j[f] BY <2>12, <2>13
  <2>18. Untouched(k, L, D, i, j, u, p, m)
    BY <1>6, <2>4, <2>14, <2>15, <2>16, <2>17 DEF Untouched
  <2>19. Probe!RowsOf(k, D, m) = Probe!RowsOf(k, L, p) BY <2>18, CopiedIsMade
  <2> QED BY <2>8, <2>19
<1>9. ASSUME NEW f \in L PROVE Seen(f, p[f])
  <2>1. CASE f \in again
    <3>1. version[f] > 0 /\ f \in File BY <1>1, <1>6, <2>1
    <3>2. Seen(f, version[f]) BY <1>0, <3>1, ReadNow
    <3> QED BY <2>1, <3>2
  <2>2. CASE f \notin again BY <1>5, <2>2
  <2> QED BY <2>1, <2>2
<1>10. parts = Grid(L, p) /\ DOMAIN p = L BY <1>8 DEF Grid
<1> HIDE DEF p, L, parts, copied, made, again, old
<1>11. IdentityInv(r)'
  <2>1. \A f \in Probe!Listed(r)' : Seen(f, probing[r].identity[f])' BY <1>2, <1>3, <1>4, <1>6, <1>7
  <2> QED BY <1>2, <1>3, <1>4, <1>6, <2>1 DEF IdentityInv
<1>12. ProfileInv(r)' BY <1>3 DEF ProfileInv, Compared, Inspected, Alone
<1>13. BuiltInv(r)'
  <2>1. \A f \in Probe!Listed(r)' : Seen(f, probing[r].profile[f])' BY <1>2, <1>3, <1>6, <1>7, <1>9
  <2>2. Grid(Probe!Listed(r), probing[r].profile)' = Grid(L, p)
    BY <1>2, <1>3, <1>6 DEF Grid, Probe!RowsOf, Probe!PartitionsOf
  <2>3. PICK m : m = version OBVIOUS
  <2>4. m \in moments' /\ version' = m BY <1>0, <1>1, <2>3 DEF ProbeTypes
  <2>5. Stood(r, m)' BY <1>2, <1>3, <1>6, <2>4 DEF Stood
  <2> QED BY <1>2, <1>3, <1>6, <1>10, <2>1, <2>2, <2>4, <2>5 DEF BuiltInv
<1>14. HeldInv' BY <1>0, <1>1, <1>3, HeldQuietly DEF Holding, Alone
<1>15. /\ Shape(probing[r])' /\ (DOMAIN probing[r].profile)' \subseteq Probe!Listed(r)'
       /\ probing'[r].todo \subseteq File
  BY <1>2, <1>3, <1>6, <1>10 DEF Shape
<1>16. probeStaging' \subseteq Run /\ probeLock' \in Probe!LockFile \cup {None}
  BY <1>0, <1>1 DEF ProbeTypes
<1>17. Pc(r) \notin After BY <1>3 DEF After
<1>18. Before(r)' # None => Before(r)' \in Run /\ Pc(Before(r)') \in After
  BY <1>0, <1>3 DEF ProbeTypes, NamedInv
<1> QED BY <1>1, <1>3, <1>11, <1>12, <1>13, <1>14, <1>15, <1>16, <1>17, <1>18, QuietStep

\* A file that is validated was there, as it was inspected, at the moment of the others.
LEMMA ValidateStep ==
  ASSUME ProbeInv, NEW r \in Run, Probe!Validate(r)
  PROVE  ProbeInv'
<1> DEFINE n == Probe!NextFile(r)
           x == [probing[r] EXCEPT !.todo = @ \ {n}]
<1>0. ProbeTypes /\ HeldInv /\ NamedInv BY DEF ProbeInv
<1>1. /\ Probe!Become(r, "validate", x) /\ version[n] = probing[r].profile[n]
      /\ UNCHANGED <<version, moments, latest, generation, probeLock, probeStaging>>
  BY DEF Probe!Validate, Probe!MayRead, Probe!source, Probe!disk
<1>2. /\ x.pc = probing[r].pc /\ x.previous = Before(r) /\ x.todo = probing[r].todo \ {n}
      /\ x.identity = probing[r].identity /\ x.known = probing[r].known
      /\ x.profile = probing[r].profile /\ x.parts = probing[r].parts /\ Shape(x)
  <2>1. PICK y : y = probing[r] OBVIOUS
  <2>2. PICK t : t = y.todo \ {n} OBVIOUS
  <2>3. x = [y EXCEPT !.todo = t] BY <2>1, <2>2
  <2>4. Shape(y) BY <1>0, <2>1 DEF ProbeTypes
  <2> HIDE DEF x
  <2>5. /\ x.pc = y.pc /\ x.previous = y.previous /\ x.todo = t /\ x.identity = y.identity
        /\ x.known = y.known /\ x.profile = y.profile /\ x.parts = y.parts /\ Shape(x)
    BY <2>3, <2>4 DEF Shape
  <2> QED BY <2>1, <2>2, <2>5 DEF Before
<1> HIDE DEF x
<1>3. /\ Pc(r) = "validate" /\ probing'[r] = x /\ Pc(r)' = "validate" /\ Before(r)' = Before(r)
      /\ Alike(r) /\ probing' = [q \in Run |-> probing'[q]]
  <2>1. /\ Pc(r) = "validate" /\ probing'[r] = x /\ Pc(r)' = x.pc /\ Before(r)' = x.previous
        /\ Alike(r) /\ probing' = [q \in Run |-> probing'[q]]
    BY <1>0, <1>1, Turning DEF Alike
  <2> QED BY <1>2, <2>1 DEF Pc
<1>4. /\ Probe!Listed(r)' = Probe!Listed(r) /\ (\A f, v : Seen(f, v)' = Seen(f, v))
  BY <1>1, <1>2, <1>3 DEF Probe!Listed, Seen
<1>5. IdentityInv(r)'
  <2>1. /\ probing[r].identity \in Profile /\ probing[r].todo \subseteq Probe!Listed(r)
        /\ \A f \in Probe!Listed(r) : Seen(f, probing[r].identity[f])
    BY <1>3 DEF ProbeInv, IdentityInv
  <2>2. probing'[r].identity \in Profile /\ probing'[r].todo \subseteq Probe!Listed(r)'
    BY <1>2, <1>3, <1>4, <2>1
  <2>3. \A f \in Probe!Listed(r)' : Seen(f, probing[r].identity[f])' BY <1>2, <1>3, <1>4, <2>1
  <2> QED BY <1>3, <2>2, <2>3 DEF IdentityInv
<1>6. ProfileInv(r)' BY <1>3 DEF ProfileInv, Compared, Inspected, Alone
<1>7. /\ DOMAIN probing[r].profile = Probe!Listed(r)
      /\ \A f \in Probe!Listed(r) : Seen(f, probing[r].profile[f])
      /\ probing[r].parts = Grid(Probe!Listed(r), probing[r].profile)
      /\ \E m \in moments : Stood(r, m)
  BY <1>3 DEF ProbeInv, BuiltInv
<1>8. BuiltInv(r)'
  <2>1. PICK m \in moments : Stood(r, m) BY <1>7
  <2>2. Stood(r, m)'
    <3>1. \A f \in Probe!Listed(r) : f \notin x.todo => m[f] = probing[r].profile[f]
      BY <1>1, <1>2, <2>1 DEF Stood
    <3> QED BY <1>1, <1>2, <1>3, <1>4, <2>1, <3>1 DEF Stood
  <2>3. Grid(Probe!Listed(r), probing[r].profile)' = Grid(Probe!Listed(r), probing[r].profile)
    BY <1>2, <1>3, <1>4 DEF Grid, Probe!RowsOf, Probe!PartitionsOf
  <2>4. \A f \in Probe!Listed(r)' : Seen(f, probing[r].profile[f])' BY <1>2, <1>3, <1>4, <1>7
  <2> QED BY <1>1, <1>2, <1>3, <1>4, <1>7, <2>1, <2>2, <2>3, <2>4 DEF BuiltInv
<1>9. HeldInv' BY <1>0, <1>1, <1>3, HeldQuietly DEF Holding, Alone
<1>10. /\ Shape(probing[r])' /\ (DOMAIN probing[r].profile)' \subseteq Probe!Listed(r)'
       /\ probing'[r].todo \subseteq File
  BY <1>0, <1>2, <1>3, <1>4 DEF Shape, ProbeTypes
<1>11. probeStaging' \subseteq Run /\ probeLock' \in Probe!LockFile \cup {None}
  BY <1>0, <1>1 DEF ProbeTypes
<1>12. Pc(r) \notin After BY <1>3 DEF After
<1>13. Before(r)' # None => Before(r)' \in Run /\ Pc(Before(r)') \in After
  BY <1>0, <1>3 DEF ProbeTypes, NamedInv
<1> QED BY <1>1, <1>3, <1>5, <1>6, <1>8, <1>9, <1>10, <1>11, <1>12, <1>13, QuietStep

-----------------------------------------------------------------------------
(* Using a handle *)

LEMMA UseStep ==
  ASSUME ProbeInv, NEW r \in Run, Probe!Use(r)
  PROVE  ProbeInv'
<1> DEFINE now == Probe!Restrict(version, {f \in File : version[f] > 0})
           x == [probing[r] EXCEPT !.pc = "used", !.used = now]
<1>0. ProbeTypes /\ HeldInv /\ NamedInv BY DEF ProbeInv
<1>1. /\ Probe!Become(r, "done", x) /\ generation[Before(r)] # None
      /\ generation[Before(r)].dataset = now
      /\ UNCHANGED <<version, moments, latest, generation, probeLock, probeStaging>>
  BY DEF Probe!Use, Probe!source, Probe!disk, Before
<1>2. /\ x.pc = "used" /\ x.previous = Before(r) /\ x.todo = probing[r].todo
      /\ x.identity = probing[r].identity /\ x.profile = probing[r].profile /\ x.used = now /\ Shape(x)
  <2>1. PICK y : y = probing[r] OBVIOUS
  <2>2. PICK u : u = now OBVIOUS
  <2>3. x = [y EXCEPT !.pc = "used", !.used = u] BY <2>1, <2>2
  <2>4. Shape(y) BY <1>0, <2>1 DEF ProbeTypes
  <2> HIDE DEF x, now
  <2>5. /\ x.pc = "used" /\ x.previous = y.previous /\ x.todo = y.todo /\ x.identity = y.identity
        /\ x.profile = y.profile /\ x.used = u /\ Shape(x)
    BY <2>3, <2>4 DEF Shape
  <2> QED BY <2>1, <2>2, <2>5 DEF Before
<1> HIDE DEF x
<1>3. /\ Pc(r) = "done" /\ probing'[r] = x /\ Pc(r)' = "used" /\ Before(r)' = Before(r)
      /\ Alike(r) /\ probing' = [q \in Run |-> probing'[q]]
  BY <1>0, <1>1, <1>2, Turning DEF Alike
<1>4. PICK g : g = Before(r) OBVIOUS
<1>5. g \in Run BY <1>0, <1>3, <1>4 DEF NamedInv
<1>6. Probe!ProfilesIn(g) = now
  <2> DEFINE D == DOMAIN generation[g].dataset
  <2>1. ManifestInv(g) /\ g # None
    BY <1>5, ProbeConstants DEF ProbeInv, Probe!ProbeAssumption
  <2>2. D \subseteq File BY <1>1, <1>4, <2>1 DEF ManifestInv
  <2>3. PICK m \in moments : MadeAt(generation[g], m) BY <1>1, <1>4, <2>1 DEF ManifestInv
  <2>4. generation[g].parts = Grid(D, m) BY <2>3 DEF MadeAt
  <2>5. D = {f \in File : version[f] > 0} /\ \A f \in D : generation[g].dataset[f] = version[f]
    BY <1>1, <1>4 DEF Probe!Restrict
  <2>6. \A f \in D : m[f] = version[f] BY <2>3, <2>5 DEF MadeAt
  <2>7. now = [f \in D |-> version[f]] BY <2>5 DEF Probe!Restrict
  <2> HIDE DEF D, now
  <2>8. Probe!ProfilesIn(g) = [f \in D |-> m[f]] BY <1>1, <1>4, <2>1, <2>2, <2>4, WholeProfiles
  <2> QED BY <2>6, <2>7, <2>8
<1>7. Told(r)'
  <2>1. Probe!ProfilesIn(g)' = Probe!ProfilesIn(g) BY <1>1, SameProfiles
  <2>2. Probe!ProfilesIn(Before(r))' = Probe!ProfilesIn(g)' BY <1>3, <1>4
  <2> HIDE DEF now
  <2>3. probing'[r].used = now BY <1>2, <1>3
  <2> QED BY <1>6, <2>1, <2>2, <2>3 DEF Told
<1>8. HeldInv' BY <1>0, <1>1, <1>3, HeldQuietly DEF Holding, Alone
<1>9. /\ Shape(probing[r])' /\ (DOMAIN probing[r].profile)' \subseteq Probe!Listed(r)'
      /\ probing'[r].todo \subseteq File
  BY <1>0, <1>2, <1>3 DEF Shape, ProbeTypes, Probe!Listed
<1>10. IdentityInv(r)' /\ ProfileInv(r)' /\ BuiltInv(r)'
  BY <1>3 DEF IdentityInv, ProfileInv, BuiltInv, Compared, Inspected, Alone
<1>11. probeStaging' \subseteq Run /\ probeLock' \in Probe!LockFile \cup {None}
  BY <1>0, <1>1 DEF ProbeTypes
<1>12. Pc(r)' \in After BY <1>3 DEF After
<1>13. Before(r)' # None /\ Before(r)' \in Run /\ Pc(Before(r)') \in After
  <2>1. Before(r) # None BY <1>4, <1>5, ProbeConstants DEF Probe!ProbeAssumption
  <2> QED BY <1>0, <1>3, <1>4, <1>5, <2>1 DEF NamedInv
<1> QED BY <1>1, <1>3, <1>7, <1>8, <1>9, <1>10, <1>11, <1>12, <1>13, QuietStep

-----------------------------------------------------------------------------
(* Publishing *)

\* What a run publishes is a manifest, and so not nothing.
LEMMA Publishable ==
  ASSUME ProbeTypes, NEW d \in Profile, NEW m \in moments
  PROVE  [dataset |-> d, parts |-> Grid(DOMAIN d, m)] # None
<1>1. PICK D \in SUBSET File : d \in [D -> Probe!Version] BY DEF Profile
<1>2. DOMAIN d = D BY <1>1
<1>3. m \in [File -> Probe!Version] BY DEF ProbeTypes
<1>4. ASSUME NEW k PROVE Probe!RowsOf(k, D, m) \subseteq File \X Probe!Version
  <2> SUFFICES ASSUME NEW f \in D PROVE <<f, m[f]>> \in File \X Probe!Version BY DEF Probe!RowsOf
  <2> QED BY <1>3
<1> DEFINE K == Probe!PartitionsOf(D)
           G == Grid(D, m)
<1>5. K \subseteq Probe!PartitionsOf(File) BY DEF Probe!PartitionsOf
<1>6. G \in [K -> SUBSET (File \X Probe!Version)]
  <2>1. G = [k \in K |-> Probe!RowsOf(k, D, m)] BY DEF Grid
  <2> HIDE DEF K, G
  <2> QED BY <1>4, <2>1
<1> HIDE DEF K, G
<1>7. G \in UNION {[C -> SUBSET (File \X Probe!Version)] : C \in SUBSET Probe!PartitionsOf(File)}
  BY <1>5, <1>6
<1>8. d \in UNION {[S -> Probe!Version] : S \in SUBSET File} BY <1>1
<1>9. [dataset |-> d, parts |-> G] \in Probe!Manifest BY <1>7, <1>8 DEF Probe!Manifest
<1>10. None \notin Probe!Manifest BY ProbeConstants DEF Probe!ProbeAssumption
<1> QED BY <1>2, <1>9, <1>10 DEF G

\* A generation is made of what all its files were at one moment, the last before the
\* first of them was looked at again.
LEMMA PublishStep ==
  ASSUME ProbeInv, NEW r \in Run, Probe!Publish(r)
  PROVE  ProbeInv'
<1>0. ProbeTypes /\ HeldInv /\ NamedInv BY DEF ProbeInv
<1>1. PICK d, L, new : /\ d = probing[r].identity /\ L = Probe!Listed(r)
                       /\ new = [dataset |-> probing[r].identity, parts |-> probing[r].parts]
  OBVIOUS
<1>2. PICK g : g = Before(r) OBVIOUS
<1>3. /\ probing[r].todo = {} /\ Probe!Leave(r, "validate", "point", g)
      /\ generation' = [generation EXCEPT ![r] = new] /\ probeStaging' \subseteq probeStaging
      /\ UNCHANGED <<version, moments, latest, probeLock>>
  BY <1>1, <1>2 DEF Probe!Publish, Probe!source, Before
<1>4. /\ Pc(r) = "validate" /\ Pc(r)' = "point" /\ Shape(probing[r])' /\ Before(r)' = g
      /\ probing'[r].todo = {} /\ probing'[r].profile = probing'[r].identity
      /\ Alike(r) /\ probing' = [q \in Run |-> probing'[q]]
  BY <1>0, <1>3, Leaving DEF Alike
<1>5. /\ generation'[r] = new /\ \A q \in Run \ {r} : generation'[q] = generation[q]
      /\ generation' = [q \in Run |-> generation'[q]]
  BY <1>0, <1>3 DEF ProbeTypes
<1>6. /\ d \in Profile /\ L = DOMAIN d /\ L \subseteq File /\ \A f \in L : Seen(f, d[f])
  <2>1. probing[r].identity \in Profile /\ \A f \in Probe!Listed(r) : Seen(f, probing[r].identity[f])
    BY <1>4 DEF ProbeInv, IdentityInv
  <2>2. d \in Profile /\ L = DOMAIN d /\ \A f \in L : Seen(f, d[f]) BY <1>1, <2>1 DEF Probe!Listed
  <2>3. PICK D \in SUBSET File : d \in [D -> Probe!Version] BY <2>2 DEF Profile
  <2> QED BY <2>2, <2>3
<1>7. PICK m \in moments : MadeAt(new, m)
  <2>1. /\ DOMAIN probing[r].profile = L /\ probing[r].parts = Grid(L, probing[r].profile)
        /\ \E m \in moments : Stood(r, m)
    BY <1>1, <1>4 DEF ProbeInv, BuiltInv
  <2>2. PICK m \in moments : Stood(r, m) BY <2>1
  <2>3. \A f \in L : m[f] = probing[r].profile[f] /\ (version[f] = d[f] => m[f] = d[f])
    BY <1>1, <1>3, <2>2 DEF Stood
  <2>4. Grid(L, probing[r].profile) = Grid(L, m)
    <3>1. \A k : Probe!RowsOf(k, L, probing[r].profile) = Probe!RowsOf(k, L, m) BY <2>3 DEF Probe!RowsOf
    <3> QED BY <3>1 DEF Grid
  <2>5. new.dataset = d /\ new.parts = probing[r].parts BY <1>1
  <2>6. MadeAt(new, m) BY <1>6, <2>1, <2>3, <2>4, <2>5 DEF MadeAt
  <2> QED BY <2>2, <2>6
<1>8. new # None
  <2>1. [dataset |-> d, parts |-> Grid(DOMAIN d, m)] # None BY <1>0, <1>6, <1>7, Publishable
  <2>2. new.parts = Grid(DOMAIN d, m) BY <1>1, <1>7 DEF MadeAt
  <2>3. new = [dataset |-> d, parts |-> new.parts] BY <1>1
  <2> QED BY <2>1, <2>2, <2>3
<1>9. \A q \in Run : Before(q) # None => Before(q) \in Run \ {r}
  <2> SUFFICES ASSUME NEW q \in Run, Before(q) # None PROVE Before(q) \in Run \ {r} OBVIOUS
  <2>1. Before(q) \in Run /\ Pc(Before(q)) \in After BY <1>0 DEF ProbeTypes, NamedInv
  <2> QED BY <1>4, <2>1 DEF After
<1>10. latest # None => latest \in Run \ {r}
  BY <1>0, <1>4 DEF ProbeTypes, NamedInv, After
<1>11. \A q \in Run \ {r} : Pc(q)' = Pc(q) /\ Before(q)' = Before(q) BY <1>4 DEF Alike, Pc, Before
<1>12. ProbeTypes'
  <2>1. /\ version' \in moments' /\ moments' \subseteq [File -> Probe!Version]
        /\ latest' \in Run \cup {None} /\ probeLock' \in Probe!LockFile \cup {None}
        /\ probeStaging' \subseteq Run
    BY <1>0, <1>3 DEF ProbeTypes
  <2>2. ASSUME NEW q \in Run
        PROVE  /\ Shape(probing[q])' /\ Before(q)' \in Run \cup {None}
               /\ (DOMAIN probing[q].profile)' \subseteq Probe!Listed(q)' /\ probing'[q].todo \subseteq File
    <3>1. CASE q = r BY <1>2, <1>4, <1>9, <3>1 DEF Probe!Listed
    <3>2. CASE q # r
      <4>1. probing'[q] = probing[q] BY <1>4, <3>2 DEF Alike
      <4>2. /\ Shape(probing[q]) /\ Before(q) \in Run \cup {None}
            /\ DOMAIN probing[q].profile \subseteq Probe!Listed(q) /\ probing[q].todo \subseteq File
        BY <1>0 DEF ProbeTypes
      <4> QED BY <4>1, <4>2 DEF Before, Shape, Probe!Listed
    <3> QED BY <3>1, <3>2
  <2> QED BY <1>4, <1>5, <2>1, <2>2 DEF ProbeTypes, Before, Probe!Listed, Shape
<1>13. HeldInv' BY <1>0, <1>3, <1>4, HeldQuietly DEF Holding, Alone
<1>14. NamedInv'
  <2>1. latest' # None => Pc(latest)' \in After /\ generation'[latest'] # None
    BY <1>0, <1>3, <1>5, <1>10, <1>11 DEF NamedInv
  <2>2. ASSUME NEW q \in Run, Before(q)' # None PROVE probing'[Before(q)'].pc \in After
    <3>1. PICK h : h = Before(q)' OBVIOUS
    <3>2. h = Before(q) /\ h # None BY <1>2, <1>4, <1>11, <2>2, <3>1
    <3>3. h \in Run \ {r} /\ Pc(h) \in After BY <1>0, <1>9, <3>2 DEF NamedInv
    <3>4. Pc(h)' \in After BY <1>11, <3>3
    <3> QED BY <3>1, <3>4 DEF Pc
  <2>3. ASSUME NEW q \in Run
        PROVE  /\ generation'[q] # None => Pc(q)' \in After
               /\ Pc(q)' = "point" => generation'[q] # None
               /\ Pc(q)' = "clean" => latest' = q
               /\ Pc(q)' \in {"done", "used"} => Before(q)' \in Run
    <3>1. CASE q = r BY <1>4, <1>5, <1>8, <3>1 DEF After
    <3>2. CASE q # r BY <1>0, <1>3, <1>5, <1>11, <3>2 DEF NamedInv
    <3> QED BY <3>1, <3>2
  <2> QED BY <2>1, <2>2, <2>3 DEF NamedInv, Pc, Before
<1>15. ASSUME NEW q \in Run PROVE ManifestInv(q)'
  <2>1. ManifestInv(q) BY DEF ProbeInv
  <2>2. CASE q # r
    <3>1. generation'[q] = generation[q] BY <1>5, <2>2
    <3> QED BY <1>3, <2>1, <3>1, GenerationStays
  <2>3. CASE q = r
    <3>1. MadeAt(new, m)'
      <4>1. \A f, v : Seen(f, v)' = Seen(f, v) BY <1>3 DEF Seen
      <4> QED BY <1>3, <1>7, <4>1 DEF MadeAt, Grid, Probe!RowsOf, Probe!PartitionsOf
    <3>2. generation'[q] = new /\ DOMAIN new.dataset \subseteq File /\ m \in moments'
      BY <1>1, <1>3, <1>5, <1>6, <1>7, <2>3
    <3>3. MadeAt(generation[q], m)' BY <3>1, <3>2 DEF MadeAt
    <3> QED BY <3>2, <3>3 DEF ManifestInv
  <2> QED BY <2>2, <2>3
<1>16. ASSUME NEW q \in Run PROVE IdentityInv(q)' /\ ProfileInv(q)' /\ BuiltInv(q)'
  <2>1. CASE q = r BY <1>4, <2>1 DEF IdentityInv, ProfileInv, BuiltInv, Compared, Inspected, Alone
  <2>2. CASE q # r
    <3>1. Before(q) # None => generation'[Before(q)] \in {generation[Before(q)], None} BY <1>5, <1>9
    <3>2. probing'[q] = probing[q] BY <1>4, <2>2 DEF Alike
    <3>3. IdentityInv(q) /\ ProfileInv(q) /\ BuiltInv(q) BY DEF ProbeInv
    <3> QED BY <1>3, <3>1, <3>2, <3>3, RunStays
  <2> QED BY <2>1, <2>2
<1>17. Probe!HandleTellsTruth'
  <2> SUFFICES ASSUME NEW q \in Run, probing'[q].pc = "used", generation'[probing'[q].previous] # None
               PROVE  Probe!ProfilesIn(probing[q].previous)' = probing'[q].used
    BY DEF Probe!HandleTellsTruth
  <2>1. q # r /\ probing'[q] = probing[q] BY <1>4 DEF Alike, Pc
  <2>2. PICK h : h = probing[q].previous OBVIOUS
  <2>3. h \in Run \ {r}
    <3>1. Before(q) \in Run BY <1>0, <2>1 DEF NamedInv, Pc
    <3>2. Before(q) # None BY <3>1, ProbeConstants DEF Probe!ProbeAssumption
    <3> QED BY <1>9, <2>2, <3>2 DEF Before
  <2>4. generation'[h] = generation[h] /\ generation[h] # None BY <1>5, <2>1, <2>2, <2>3
  <2>5. Probe!ProfilesIn(h)' = Probe!ProfilesIn(h) BY <2>4, SameProfiles
  <2>6. Probe!ProfilesIn(h) = probing[q].used
    BY <2>1, <2>2, <2>4 DEF ProbeInv, Probe!HandleTellsTruth
  <2>7. Probe!ProfilesIn(probing[q].previous)' = Probe!ProfilesIn(h)' BY <2>1, <2>2
  <2> QED BY <2>1, <2>5, <2>6, <2>7
<1> QED BY <1>12, <1>13, <1>14, <1>15, <1>16, <1>17 DEF ProbeInv

\* latest.json comes to name the new generation.
LEMMA PointStep ==
  ASSUME ProbeInv, NEW r \in Run, Probe!PointLatest(r)
  PROVE  ProbeInv'
<1>0. ProbeTypes /\ HeldInv /\ NamedInv BY DEF ProbeInv
<1>1. /\ Probe!Goto(r, "point", "clean") /\ latest' = r
      /\ UNCHANGED <<version, moments, generation, probeLock, probeStaging>>
  BY DEF Probe!PointLatest, Probe!source
<1>2. /\ Pc(r) = "point" /\ Pc(r)' = "clean" /\ Shape(probing[r])' /\ Before(r)' = Before(r)
      /\ probing'[r].identity = probing[r].identity /\ probing'[r].profile = probing[r].profile
      /\ probing'[r].todo = probing[r].todo /\ Alike(r) /\ probing' = [q \in Run |-> probing'[q]]
  BY <1>0, <1>1, Going DEF Alike
<1>3. \A q \in Run \ {r} : Pc(q)' = Pc(q) /\ Before(q)' = Before(q) BY <1>2 DEF Alike, Pc, Before
<1>4. \A q \in Run \ {r} : Pc(q) # "clean"
  <2>1. probeLock.owner = r BY <1>0, <1>2 DEF HeldInv, Holding
  <2> QED BY <1>0, <2>1 DEF HeldInv, Holding
<1>5. HeldInv' BY <1>0, <1>1, <1>2, HeldQuietly DEF Holding, Alone
<1>6. ProbeTypes'
  <2>1. ASSUME NEW q \in Run
        PROVE  /\ Shape(probing[q])' /\ Before(q)' \in Run \cup {None}
               /\ (DOMAIN probing[q].profile)' \subseteq Probe!Listed(q)' /\ probing'[q].todo \subseteq File
    <3>1. /\ Shape(probing[q]) /\ Before(q) \in Run \cup {None}
          /\ DOMAIN probing[q].profile \subseteq Probe!Listed(q) /\ probing[q].todo \subseteq File
      BY <1>0 DEF ProbeTypes
    <3>2. CASE q = r BY <1>2, <3>1, <3>2 DEF Probe!Listed
    <3>3. CASE q # r
      <4>1. probing'[q] = probing[q] BY <1>2, <3>3 DEF Alike
      <4> QED BY <3>1, <4>1 DEF Before, Shape, Probe!Listed
    <3> QED BY <3>2, <3>3
  <2> QED BY <1>0, <1>1, <1>2, <2>1 DEF ProbeTypes, Before, Probe!Listed, Shape
<1>7. NamedInv'
  <2>1. \A q \in Run : Pc(q) \in After => Pc(q)' \in After BY <1>2, <1>3 DEF After
  <2>2. Pc(r)' \in After /\ generation'[r] # None BY <1>0, <1>1, <1>2 DEF NamedInv, After
  <2>3. latest' # None => Pc(latest)' \in After /\ generation'[latest'] # None BY <1>1, <2>2 DEF Pc
  <2>4. ASSUME NEW q \in Run, Before(q)' # None PROVE probing'[Before(q)'].pc \in After
    <3>1. PICK h : h = Before(q) OBVIOUS
    <3>2. Before(q)' = h /\ h # None BY <1>2, <1>3, <2>4, <3>1
    <3>3. h \in Run /\ Pc(h) \in After BY <1>0, <3>1, <3>2 DEF ProbeTypes, NamedInv
    <3>4. Pc(h)' \in After BY <2>1, <3>3
    <3> QED BY <3>2, <3>4 DEF Pc
  <2>5. ASSUME NEW q \in Run
        PROVE  /\ generation'[q] # None => Pc(q)' \in After
               /\ Pc(q)' = "point" => generation'[q] # None
               /\ Pc(q)' = "clean" => latest' = q
               /\ Pc(q)' \in {"done", "used"} => Before(q)' \in Run
    <3>1. CASE q = r BY <1>1, <1>2, <2>2, <3>1
    <3>2. CASE q # r BY <1>0, <1>1, <1>3, <1>4, <3>2 DEF NamedInv
    <3> QED BY <3>1, <3>2
  <2> QED BY <2>3, <2>4, <2>5 DEF NamedInv, Pc, Before
<1>8. IdentityInv(r)' /\ ProfileInv(r)' /\ BuiltInv(r)'
  BY <1>2 DEF IdentityInv, ProfileInv, BuiltInv, Compared, Inspected, Alone
<1>9. /\ \A q \in Run : ManifestInv(q)' /\ IdentityInv(q)' /\ ProfileInv(q)' /\ BuiltInv(q)'
      /\ Probe!HandleTellsTruth'
  <2>1. \A q \in Run : generation'[q] \in {generation[q], None} BY <1>1
  <2>2. Pc(r)' = "used" => Told(r)' BY <1>2
  <2> QED BY <1>1, <1>2, <1>8, <2>1, <2>2, RestStays
<1> QED BY <1>5, <1>6, <1>7, <1>9 DEF ProbeInv

\* The generations that go are not the one that latest.json names.
LEMMA CleanStep ==
  ASSUME ProbeInv, NEW r \in Run, Probe!CleanUp(r)
  PROVE  ProbeInv'
<1>0. ProbeTypes /\ HeldInv /\ NamedInv BY DEF ProbeInv
<1>1. PICK g : g = Before(r) OBVIOUS
<1>2. /\ Probe!Goto(r, "clean", "release")
      /\ generation' = [q \in Run |-> IF q \in {r, g} THEN generation[q] ELSE None]
      /\ UNCHANGED <<version, moments, latest, probeLock, probeStaging>>
  BY <1>1 DEF Probe!CleanUp, Probe!source, Before
<1>3. /\ Pc(r) = "clean" /\ Pc(r)' = "release" /\ Shape(probing[r])' /\ Before(r)' = Before(r)
      /\ probing'[r].identity = probing[r].identity /\ probing'[r].profile = probing[r].profile
      /\ probing'[r].todo = probing[r].todo /\ Alike(r) /\ probing' = [q \in Run |-> probing'[q]]
  BY <1>0, <1>2, Going DEF Alike
<1>4. /\ generation' = [q \in Run |-> generation'[q]]
      /\ \A q \in Run : generation'[q] \in {generation[q], None}
      /\ generation'[r] = generation[r]
  BY <1>2
<1>5. \A q \in Run \ {r} : Pc(q)' = Pc(q) /\ Before(q)' = Before(q) BY <1>3 DEF Alike, Pc, Before
<1>6. \A q \in Run \ {r} : Pc(q) # "point"
  <2>1. probeLock.owner = r BY <1>0, <1>3 DEF HeldInv, Holding
  <2> QED BY <1>0, <2>1 DEF HeldInv, Holding
<1>7. HeldInv' BY <1>0, <1>2, <1>3, HeldQuietly DEF Holding, Alone
<1>8. ProbeTypes'
  <2>1. ASSUME NEW q \in Run
        PROVE  /\ Shape(probing[q])' /\ Before(q)' \in Run \cup {None}
               /\ (DOMAIN probing[q].profile)' \subseteq Probe!Listed(q)' /\ probing'[q].todo \subseteq File
    <3>1. /\ Shape(probing[q]) /\ Before(q) \in Run \cup {None}
          /\ DOMAIN probing[q].profile \subseteq Probe!Listed(q) /\ probing[q].todo \subseteq File
      BY <1>0 DEF ProbeTypes
    <3>2. CASE q = r BY <1>3, <3>1, <3>2 DEF Probe!Listed
    <3>3. CASE q # r
      <4>1. probing'[q] = probing[q] BY <1>3, <3>3 DEF Alike
      <4> QED BY <3>1, <4>1 DEF Before, Shape, Probe!Listed
    <3> QED BY <3>2, <3>3
  <2> QED BY <1>0, <1>2, <1>3, <1>4, <2>1 DEF ProbeTypes, Before, Probe!Listed, Shape
<1>9. NamedInv'
  <2>1. \A q \in Run : Pc(q) \in After => Pc(q)' \in After BY <1>3, <1>5 DEF After
  <2>2. latest = r BY <1>0, <1>3 DEF NamedInv
  <2>3. Pc(r)' \in After /\ generation'[r] # None
    <3>1. latest # None BY <2>2, ProbeConstants DEF Probe!ProbeAssumption
    <3> QED BY <1>0, <1>3, <1>4, <2>2, <3>1 DEF NamedInv, After
  <2>4. latest' # None => Pc(latest)' \in After /\ generation'[latest'] # None
    BY <1>2, <2>2, <2>3 DEF Pc
  <2>5. ASSUME NEW q \in Run, Before(q)' # None PROVE probing'[Before(q)'].pc \in After
    <3>1. PICK h : h = Before(q) OBVIOUS
    <3>2. Before(q)' = h /\ h # None BY <1>3, <1>5, <2>5, <3>1
    <3>3. h \in Run /\ Pc(h) \in After BY <1>0, <3>1, <3>2 DEF ProbeTypes, NamedInv
    <3>4. Pc(h)' \in After BY <2>1, <3>3
    <3> QED BY <3>2, <3>4 DEF Pc
  <2>6. ASSUME NEW q \in Run
        PROVE  /\ generation'[q] # None => Pc(q)' \in After
               /\ Pc(q)' = "point" => generation'[q] # None
               /\ Pc(q)' = "clean" => latest' = q
               /\ Pc(q)' \in {"done", "used"} => Before(q)' \in Run
    <3>1. CASE q = r BY <1>3, <2>3, <3>1
    <3>2. CASE q # r BY <1>0, <1>2, <1>4, <1>5, <1>6, <2>1, <3>2 DEF NamedInv
    <3> QED BY <3>1, <3>2
  <2> QED BY <2>4, <2>5, <2>6 DEF NamedInv, Pc, Before
<1>10. IdentityInv(r)' /\ ProfileInv(r)' /\ BuiltInv(r)'
  BY <1>3 DEF IdentityInv, ProfileInv, BuiltInv, Compared, Inspected, Alone
<1>11. /\ \A q \in Run : ManifestInv(q)' /\ IdentityInv(q)' /\ ProfileInv(q)' /\ BuiltInv(q)'
       /\ Probe!HandleTellsTruth'
  <2>1. Pc(r)' = "used" => Told(r)' BY <1>3
  <2> QED BY <1>2, <1>3, <1>4, <1>10, <2>1, RestStays
<1> QED BY <1>7, <1>8, <1>9, <1>11 DEF ProbeInv

-----------------------------------------------------------------------------
(* The source *)

\* A file that changes is what it never was: nothing that was read turns out to be so.
LEMMA SourceStep ==
  ASSUME ProbeInv, NEW f \in File, NEW v \in Probe!Version, Probe!ChangeFile(f, v)
  PROVE  ProbeInv'
<1>0. ProbeTypes /\ HeldInv /\ NamedInv BY DEF ProbeInv
<1>1. /\ v = 0 \/ \A m \in moments : v > m[f]
      /\ version' = [version EXCEPT ![f] = v] /\ moments' = moments \cup {version'}
      /\ UNCHANGED <<latest, generation, probeLock, probeStaging, probing>>
  BY DEF Probe!ChangeFile, Probe!disk
<1>2. moments \subseteq [File -> Nat] /\ version \in [File -> Nat] /\ v \in Nat
  <2>1. Probe!Version \subseteq Nat BY ProbeConstants DEF Probe!Version, Probe!ProbeAssumption
  <2> QED BY <1>0, <2>1 DEF ProbeTypes
<1>3. ASSUME NEW h, NEW a, Seen(h, a) PROVE Seen(h, a)' BY <1>1, <1>3 DEF Seen
<1>4. ASSUME NEW h \in File, NEW a, Seen(h, a), version'[h] = a PROVE version[h] = a
  <2>1. CASE h = f
    <3>1. version'[h] = v /\ v = a /\ a # 0 BY <1>1, <1>2, <1>4, <2>1 DEF Seen
    <3>2. PICK m \in moments : m[h] = a BY <1>4 DEF Seen
    <3>3. v > m[f] BY <1>1, <3>1
    <3> QED BY <1>2, <2>1, <3>1, <3>2, <3>3
  <2>2. CASE h # f BY <1>1, <1>2, <1>4, <2>2
  <2> QED BY <2>1, <2>2
<1>5. /\ \A r \in Run : Pc(r)' = Pc(r) /\ Before(r)' = Before(r) /\ Probe!Listed(r)' = Probe!Listed(r)
                        /\ Probe!Unchanged(r)' = Probe!Unchanged(r)
      /\ \A g : Probe!ProfilesIn(g)' = Probe!ProfilesIn(g)
  BY <1>1 DEF Pc, Before, Probe!Listed, Probe!Unchanged, Probe!ProfilesIn
<1>6. ProbeTypes'
  <2>1. version' \in [File -> Probe!Version] BY <1>0, <1>1 DEF ProbeTypes
  <2>2. version' \in moments' /\ moments' \subseteq [File -> Probe!Version]
    BY <1>0, <1>1, <2>1 DEF ProbeTypes
  <2> QED BY <1>0, <1>1, <2>2 DEF ProbeTypes, Before, Probe!Listed, Shape
<1>7. HeldInv' BY <1>0, <1>1 DEF HeldInv, Pc
<1>8. NamedInv' BY <1>0, <1>1 DEF NamedInv, Pc, Before
<1>9. ASSUME NEW q \in Run PROVE ManifestInv(q)'
  <2> SUFFICES ASSUME generation[q] # None
               PROVE  /\ DOMAIN generation[q].dataset \subseteq File
                      /\ \E m \in moments' : MadeAt(generation[q], m)'
    BY <1>1 DEF ManifestInv, MadeAt
  <2>1. DOMAIN generation[q].dataset \subseteq File /\ \E m \in moments : MadeAt(generation[q], m)
    BY DEF ProbeInv, ManifestInv
  <2>2. PICK m \in moments : MadeAt(generation[q], m) BY <2>1
  <2>3. PICK e : e = generation[q] OBVIOUS
  <2>4. ASSUME NEW h \in DOMAIN e.dataset
        PROVE  /\ Seen(h, e.dataset[h])' /\ (version'[h] = e.dataset[h] => m[h] = e.dataset[h])
    <3>1. Seen(h, e.dataset[h]) /\ (version[h] = e.dataset[h] => m[h] = e.dataset[h]) /\ h \in File
      BY <2>1, <2>2, <2>3, <2>4 DEF MadeAt
    <3>2. PICK a : a = e.dataset[h] OBVIOUS
    <3>3. Seen(h, a)' BY <1>3, <3>1, <3>2
    <3>4. version'[h] = a => version[h] = a BY <1>4, <3>1, <3>2
    <3> QED BY <3>1, <3>2, <3>3, <3>4 DEF Seen
  <2>5. e.parts = Grid(DOMAIN e.dataset, m) BY <2>2, <2>3 DEF MadeAt
  <2>6. MadeAt(e, m)' BY <2>4, <2>5 DEF MadeAt, Grid, Probe!RowsOf, Probe!PartitionsOf
  <2>7. generation' = generation /\ m \in moments' BY <1>1, <2>2
  <2> QED BY <2>1, <2>3, <2>6, <2>7 DEF MadeAt
<1>10. ASSUME NEW r \in Run PROVE IdentityInv(r)' /\ ProfileInv(r)' /\ BuiltInv(r)'
  <2>0. IdentityInv(r) /\ ProfileInv(r) /\ BuiltInv(r) BY DEF ProbeInv
  <2>1. IdentityInv(r)' BY <1>1, <1>3, <1>5, <2>0 DEF IdentityInv, Seen
  <2>2. ProfileInv(r)' BY <1>1, <1>3, <1>5, <2>0 DEF ProfileInv, Seen
  <2>3. BuiltInv(r)'
    <3> SUFFICES ASSUME Pc(r) = "validate" PROVE BuiltInv(r)' BY <1>5 DEF BuiltInv
    <3>1. /\ DOMAIN probing[r].profile = Probe!Listed(r)
          /\ \A h \in Probe!Listed(r) : Seen(h, probing[r].profile[h])
          /\ probing[r].parts = Grid(Probe!Listed(r), probing[r].profile)
          /\ \E m \in moments : Stood(r, m)
      BY <2>0 DEF BuiltInv
    <3>2. PICK m \in moments : Stood(r, m) BY <3>1
    <3>3. /\ Probe!Listed(r) \subseteq File
          /\ \A h \in Probe!Listed(r) : Seen(h, probing[r].identity[h])
      <4>1. probing[r].identity \in Profile /\ \A h \in Probe!Listed(r) : Seen(h, probing[r].identity[h])
        BY <2>0 DEF IdentityInv
      <4>2. PICK D \in SUBSET File : probing[r].identity \in [D -> Probe!Version] BY <4>1 DEF Profile
      <4> QED BY <4>1, <4>2 DEF Probe!Listed
    <3>4. Stood(r, m)'
      <4>1. ASSUME NEW h \in Probe!Listed(r)
            PROVE  /\ version'[h] = probing[r].profile[h] => version[h] = probing[r].profile[h]
                   /\ version'[h] = probing[r].identity[h] => version[h] = probing[r].identity[h]
        <5>1. PICK a, b : a = probing[r].profile[h] /\ b = probing[r].identity[h] OBVIOUS
        <5>2. h \in File /\ Seen(h, a) /\ Seen(h, b) BY <3>1, <3>3, <5>1
        <5> QED BY <1>4, <5>1, <5>2
      <4> QED BY <1>1, <1>5, <3>2, <4>1 DEF Stood
    <3>5. \A h \in Probe!Listed(r) : Seen(h, probing[r].profile[h])'
      <4> SUFFICES ASSUME NEW h \in Probe!Listed(r) PROVE Seen(h, probing[r].profile[h])' OBVIOUS
      <4>1. PICK a : a = probing[r].profile[h] OBVIOUS
      <4>2. Seen(h, a)' BY <1>3, <3>1, <4>1
      <4> QED BY <1>1, <4>1, <4>2 DEF Seen
    <3>6. Grid(Probe!Listed(r), probing[r].profile)' = Grid(Probe!Listed(r), probing[r].profile)
      BY <1>1, <1>5 DEF Grid, Probe!RowsOf, Probe!PartitionsOf
    <3>7. m \in moments' BY <1>1
    <3>8. \A h \in Probe!Listed(r)' : Seen(h, probing[r].profile[h])' BY <1>5, <3>5
    <3> QED BY <1>1, <1>5, <3>1, <3>4, <3>6, <3>7, <3>8 DEF BuiltInv
  <2> QED BY <2>1, <2>2, <2>3
<1>11. Probe!HandleTellsTruth'
  BY <1>1, <1>5 DEF ProbeInv, Probe!HandleTellsTruth
<1> QED BY <1>6, <1>7, <1>8, <1>9, <1>10, <1>11 DEF ProbeInv

-----------------------------------------------------------------------------
(* The theorem *)

LEMMA ProbeStart ==
  ASSUME RunsInit
  PROVE  ProbeInv
<1>1. /\ version = [f \in File |-> 1] /\ moments = {version} /\ latest = None
      /\ generation = [r \in Run |-> None] /\ probeLock = None /\ probeStaging = {}
      /\ probing = [r \in Run |-> Probe!Fresh]
  BY DEF RunsInit, Probe!Init
<1>2. PICK y : y = Probe!Fresh OBVIOUS
<1>3. Shape(y) /\ y.pc = "idle" /\ y.previous = None /\ y.profile = y.identity /\ y.todo = {}
  BY <1>2 DEF Probe!Fresh, Shape
<1>4. \A r \in Run : probing[r] = y /\ Pc(r) = "idle" /\ Before(r) = None /\ generation[r] = None
  BY <1>1, <1>2, <1>3 DEF Pc, Before
<1>5. version \in [File -> Probe!Version]
  <2>1. 1 \in Probe!Version BY ProbeConstants DEF Probe!Version, Probe!ProbeAssumption
  <2> QED BY <1>1, <2>1
<1>6. ProbeTypes BY <1>1, <1>3, <1>4, <1>5 DEF ProbeTypes, Before, Probe!Listed
<1>7. HeldInv BY <1>1, <1>4 DEF HeldInv, Holding, Alone
<1>8. NamedInv BY <1>1, <1>4 DEF NamedInv
<1>9. \A r \in Run : ManifestInv(r) /\ IdentityInv(r) /\ ProfileInv(r) /\ BuiltInv(r)
  BY <1>4 DEF ManifestInv, IdentityInv, ProfileInv, BuiltInv, Compared, Inspected, Alone
<1>10. Probe!HandleTellsTruth BY <1>4 DEF Probe!HandleTellsTruth, Pc
<1> QED BY <1>6, <1>7, <1>8, <1>9, <1>10 DEF ProbeInv

LEMMA ProbeNext ==
  ASSUME ProbeInv, SoundLock, OnePartition, [Probe!Next]_(Probe!vars)
  PROVE  ProbeInv'
<1>1. CASE UNCHANGED Probe!vars
  <2>1. UNCHANGED <<version, moments, latest, generation, probeLock, probeStaging, probing>>
    BY <1>1 DEF Probe!vars, Probe!source, Probe!disk
  <2>2. \A r \in Run : /\ Pc(r)' = Pc(r) /\ Before(r)' = Before(r) /\ Probe!Listed(r)' = Probe!Listed(r)
                       /\ Probe!Unchanged(r)' = Probe!Unchanged(r)
    BY <2>1 DEF Pc, Before, Probe!Listed, Probe!Unchanged
  <2>3. ProbeTypes' BY <2>1 DEF ProbeInv, ProbeTypes, Before, Probe!Listed, Shape
  <2>4. HeldInv' BY <2>1 DEF ProbeInv, HeldInv, Pc
  <2>5. NamedInv' BY <2>1 DEF ProbeInv, NamedInv, Pc, Before
  <2>6. ASSUME NEW q \in Run
        PROVE  ManifestInv(q)' /\ IdentityInv(q)' /\ ProfileInv(q)' /\ BuiltInv(q)'
    <3>1. ManifestInv(q) /\ IdentityInv(q) /\ ProfileInv(q) /\ BuiltInv(q) BY DEF ProbeInv
    <3>2. ManifestInv(q)' BY <2>1, <3>1, GenerationStays
    <3> QED BY <2>1, <3>1, <3>2, RunStays
  <2>7. Probe!HandleTellsTruth' BY <2>1 DEF ProbeInv, Probe!HandleTellsTruth, Probe!ProfilesIn
  <2> QED BY <2>3, <2>4, <2>5, <2>6, <2>7 DEF ProbeInv
<1>2. CASE \E f \in File, v \in Probe!Version : Probe!ChangeFile(f, v) BY <1>2, SourceStep
<1>3. ASSUME NEW r \in Run,
             \/ Probe!Start(r) \/ Probe!Identify(r) \/ Probe!Reuse(r) \/ Probe!Compare(r) \/ Probe!Inspect(r)
             \/ Probe!CreateLock(r) \/ Probe!WritePid(r) \/ Probe!FindLock(r) \/ Probe!BreakLock(r)
             \/ Probe!Stage(r) \/ Probe!WriteArtifacts(r) \/ Probe!Validate(r) \/ Probe!Publish(r)
             \/ Probe!PointLatest(r) \/ Probe!CleanUp(r)
             \/ Probe!Release(r) \/ Probe!Fail(r) \/ Probe!Die(r) \/ Probe!Use(r)
      PROVE  ProbeInv'
  <2>1. CASE Probe!Start(r) \/ Probe!Identify(r) \/ Probe!Compare(r) \/ Probe!Inspect(r)
    BY <2>1, StartStep, IdentifyStep, CompareStep, InspectStep
  <2>2. CASE \/ Probe!CreateLock(r) \/ Probe!WritePid(r) \/ Probe!FindLock(r) \/ Probe!BreakLock(r)
             \/ Probe!Stage(r)
    BY <2>2, LockSteps
  <2>3. CASE \/ Probe!WriteArtifacts(r) \/ Probe!Validate(r) \/ Probe!Publish(r)
             \/ Probe!PointLatest(r) \/ Probe!CleanUp(r)
    BY <2>3, WriteStep, ValidateStep, PublishStep, PointStep, CleanStep
  <2>4. CASE Probe!Reuse(r) \/ Probe!Release(r) \/ Probe!Fail(r) \/ Probe!Die(r)
    BY <2>4, EndingSteps
  <2>5. CASE Probe!Use(r) BY <2>5, UseStep
  <2> QED BY <1>3, <2>1, <2>2, <2>3, <2>4, <2>5
<1> QED BY <1>1, <1>2, <1>3 DEF Probe!Next

\* Whoever dies with the lock or beside it, what latest.json names is there and holds the
\* profiles of one moment; and a run that validates its handle is told what is there.
THEOREM ProbesTellTruth ==
  ASSUME SoundLock, OnePartition
  PROVE  RunsSpec => []ProbeTellsTruth
<1>1. RunsInit => ProbeInv BY ProbeStart
<1>2. [RunsNext]_runsVars => [Probe!Next]_(Probe!vars)
  <2>1. UNCHANGED probeVars => UNCHANGED Probe!vars
    BY DEF probeVars, Probe!vars, Probe!source, Probe!disk
  <2> QED BY <2>1 DEF RunsNext, OfDataset, OfAppend, runsVars
<1>3. ProbeInv /\ [Probe!Next]_(Probe!vars) => ProbeInv' BY ProbeNext
<1>4. ProbeInv => ProbeTellsTruth
  <2> SUFFICES ASSUME ProbeInv PROVE ProbeTellsTruth OBVIOUS
  <2>1. ProbeTypes /\ NamedInv /\ Probe!HandleTellsTruth BY DEF ProbeInv
  <2>2. Probe!TypeOK BY <2>1 DEF ProbeTypes, Probe!TypeOK, Probe!Listed
  <2>3. Probe!LatestTellsTruth
    <3> SUFFICES ASSUME latest # None
                 PROVE  /\ generation[latest] # None
                        /\ LET g == generation[latest]
                               S == DOMAIN g.dataset
                           IN  \E m \in moments : g.parts = [k \in Probe!PartitionsOf(S) |-> Probe!RowsOf(k, S, m)]
      BY DEF Probe!LatestTellsTruth
    <3>1. latest \in Run /\ generation[latest] # None BY <2>1 DEF ProbeTypes, NamedInv
    <3>2. ManifestInv(latest) BY <3>1 DEF ProbeInv
    <3>3. PICK m \in moments : MadeAt(generation[latest], m) BY <3>1, <3>2 DEF ManifestInv
    <3> QED BY <3>1, <3>3 DEF MadeAt, Grid
  <2> QED BY <2>1, <2>2, <2>3 DEF ProbeTellsTruth
<1> QED BY <1>1, <1>2, <1>3, <1>4, PTL DEF RunsSpec
=============================================================================
