--------------------------- MODULE SegmentAppend ---------------------------
(***************************************************************************)
(* The incremental runs of a 0102 calculated fact                          *)
(* (assets/a0102_calculated_fact: segment_runtime.py, upstream_delta.py,   *)
(* segment_append.py and calculation_manifest.py).                         *)
(*                                                                         *)
(* A run compares the segments of the upstream dataset with those of the   *)
(* calculation manifest, reserves a generation number, stages one part for *)
(* each segment that changed, appends them as one generation to the        *)
(* manifest of the dataset, and records the segments as calculated.  The   *)
(* reservation and the commit hold a lock file; runs may overlap, die      *)
(* anywhere, and are retried with the same run key while the upstream      *)
(* dataset stays as it is.                                                 *)
(***************************************************************************)
EXTENDS Naturals, Sequences, FiniteSets, FiniteSetsExt, Functions

CONSTANTS
  Run,              \* the runs, each used once
  Segment,          \* the relative paths of the upstream segments
  Contract,         \* calculation contracts: the expressions of a definition
  MaxVersion,       \* bound: contents a segment can have
  Deployments,      \* how the dataset may be used
  UpstreamStable,   \* TRUE: upstream is not replaced while a run reads it
  None              \* no such file

\* The contents (sha256) of a segment; 0: it is not in the upstream dataset.
Content == 1 .. MaxVersion
Upstream == [Segment -> 0 .. MaxVersion]

\* plan_upstream_delta: what a run read and what it selected.
Delta == [contract : Contract, upstream : Upstream, selected : SUBSET Segment,
          removed : SUBSET Segment]

\* _run_key hashes the delta, of the selected segments their contents.
RunKey == Delta

Seqs == 1 .. Cardinality(Run)

\* An output part; its path is made from seq and its segment.
PartOf == [seq : Seqs, segment : Segment, content : Content, contract : Contract]

Generations == [seq : Seqs, key : RunKey, files : SUBSET PartOf]

\* An entry of active_segments; gen is 0 when nothing was calculated.
Entry == [content : Content, gen : 0 .. Cardinality(Run), parts : SUBSET PartOf]

\* read_calculation_manifest: no path has two entries.
CalculationManifest(m) ==
  /\ m.contract \in Contract /\ DOMAIN m.active \subseteq Segment
  /\ \A s \in DOMAIN m.active : m.active[s] \in Entry

\* The segments and contracts that occur, the segments that lack the columns of
\* every expression, whether runs may overlap, whether nothing happens between the
\* test of a lock's age and its removal, whether a run is never an hour inside the lock
\* (nobody renews the time of the file), and how many runs there are at most.
Deployment == [segments : SUBSET Segment, contracts : SUBSET Contract, barren : SUBSET Segment,
               overlap : BOOLEAN, breakAtomically : BOOLEAN, heldBriefly : BOOLEAN, runs : Nat]

\* Assumed of the constants (where the module is used).
AppendAssumption ==
  /\ MaxVersion \in Nat \ {0} /\ None \notin Run
  /\ IsFiniteSet(Run) /\ IsFiniteSet(Segment)
  /\ Deployments \subseteq Deployment /\ \A d \in Deployments : d.contracts # {}
  /\ UpstreamStable \in BOOLEAN

VARIABLES
  deployment,   \* how the dataset is used; it does not change
  upstream,     \* the manifest and the files of the upstream dataset
  generations,  \* the generations of _dataset.manifest.json
  files,        \* the part files in _generations
  lastSeq,      \* generation-sequence.json
  calculated,   \* calculation-manifest.json, or None
  staging,      \* the staged parts, under the hash of a run key
  lock,         \* the run whose token is in append.lock, or None
  stale,        \* append.lock is older than an hour
  pc, delta, previous, seq, staged, moved, seen

environment == <<deployment, upstream>>
dataset == <<generations, files, lastSeq, calculated>>
mutex == <<lock, stale>>
run == <<delta, previous, seq, staged, moved, seen>>
vars == <<environment, dataset, staging, mutex, pc, run>>

Waiting == {"lock1", "lock2"}
Breaking == {"break1", "break2"}
Locked == {"reserve", "reserved", "unlock1", "decide", "move", "publish", "undo", "unlock2", "unlockfailed"}
Reading == {"previous", "plan", "stage"} \cup {"lock1", "break1", "reserve", "reserved", "unlock1"}
Alive == Waiting \cup Breaking \cup Locked \cup Reading \cup {"rollback", "cleanup", "record"}
Ended == {"done", "failed", "dead"}

TypeOK ==
  /\ deployment \in Deployments
  /\ upstream \in Upstream
  /\ generations \in Seq(Generations)
  /\ files \subseteq PartOf
  /\ lastSeq \in 0 .. Cardinality(Run)
  /\ calculated = None \/ CalculationManifest(calculated)
  /\ staging \subseteq [key : RunKey, part : PartOf]
  /\ lock \in Run \cup {None} /\ stale \in BOOLEAN
  /\ pc \in [Run -> {"idle"} \cup Alive \cup Ended]
  /\ \A r \in Run : seq[r] \in 0 .. Cardinality(Run) /\ staged[r] \subseteq PartOf /\ moved[r] \subseteq staged[r]

NoDelta == [contract |-> CHOOSE c \in Contract : TRUE, upstream |-> [s \in Segment |-> 0], selected |-> {}, removed |-> {}]

Init ==
  /\ deployment \in Deployments
  /\ upstream = [s \in Segment |-> IF s \in deployment.segments THEN 1 ELSE 0]
  /\ generations = <<>> /\ files = {} /\ lastSeq = 0 /\ calculated = None
  /\ staging = {}
  /\ lock = None /\ stale = FALSE
  /\ pc = [r \in Run |-> "idle"]
  /\ delta = [r \in Run |-> NoDelta]
  /\ previous = [r \in Run |-> None]
  /\ seq = [r \in Run |-> 0]
  /\ staged = [r \in Run |-> {}]
  /\ moved = [r \in Run |-> {}]
  /\ seen = [r \in Run |-> <<>>]

Goto(r, from, to) == pc[r] = from /\ pc' = [pc EXCEPT ![r] = to]

\* The process of run r is gone, and its local variables with it.
Forget(r) ==
  /\ delta' = [delta EXCEPT ![r] = NoDelta]
  /\ previous' = [previous EXCEPT ![r] = None]
  /\ seq' = [seq EXCEPT ![r] = 0]
  /\ staged' = [staged EXCEPT ![r] = {}]
  /\ moved' = [moved EXCEPT ![r] = {}]
  /\ seen' = [seen EXCEPT ![r] = <<>>]

-----------------------------------------------------------------------------
(* The upstream dataset and the clock *)

Started == {r \in Run : pc[r] # "idle"}

\* Another asset commits a dataset in which one segment differs (bound: as long as a run
\* may still read it).
ReplaceUpstream(s) ==
  /\ s \in deployment.segments
  /\ Cardinality(Started) < deployment.runs \/ \E r \in Run : pc[r] \in Reading
  /\ UpstreamStable => \A r \in Run : pc[r] \notin Reading
  /\ \E v \in 0 .. MaxVersion : v # upstream[s] /\ upstream' = [upstream EXCEPT ![s] = v]
  /\ UNCHANGED <<deployment, dataset, staging, mutex, pc, run>>

\* Mutant of LockAges: an hour may always be too short for a commit.
LockAgesAnyhow ==
  /\ lock # None /\ ~stale
  /\ stale' = TRUE
  /\ UNCHANGED <<environment, dataset, staging, lock, pc, run>>

\* The lock file is an hour old: its run died, or it has not come to an end yet.
LockAges ==
  /\ lock # None /\ ~stale
  /\ deployment.heldBriefly => pc[lock] \notin Alive
  /\ stale' = TRUE
  /\ UNCHANGED <<environment, dataset, staging, lock, pc, run>>

-----------------------------------------------------------------------------
(* Planning *)

Present(u) == {s \in Segment : u[s] # 0}

\* plan_upstream_delta: everything, if there is no manifest or it was made
\* under another contract, and else what differs from it.
Plan(r) ==
  /\ ~deployment.overlap => \A q \in Run : pc[q] \notin Alive
  /\ Cardinality(Started) < deployment.runs
  /\ Goto(r, "idle", "previous")
  /\ \E c \in deployment.contracts :
       LET old == IF calculated = None THEN {} ELSE DOMAIN calculated.active
           full == calculated = None \/ calculated.contract # c
       IN delta' = [delta EXCEPT ![r] =
            [contract |-> c, upstream |-> upstream,
             selected |-> {s \in Present(upstream) :
                             full \/ s \notin old \/ calculated.active[s].content # upstream[s]},
             removed |-> IF full THEN old ELSE old \ Present(upstream)]]
  /\ UNCHANGED <<environment, dataset, staging, mutex, previous, seq, staged, moved, seen>>

\* execute_segment_plan reads the calculation manifest once more.  Without a
\* selected segment there is nothing to append.
ReadPrevious(r) ==
  /\ Goto(r, "previous", IF delta[r].selected = {} THEN "record" ELSE "lock1")
  /\ previous' = [previous EXCEPT ![r] = calculated]
  /\ UNCHANGED <<environment, dataset, staging, mutex, delta, seq, staged, moved, seen>>

-----------------------------------------------------------------------------
(* The lock file: _dataset_lock *)

\* O_CREAT | O_EXCL
Acquire(r) ==
  /\ Goto(r, "lock1", "reserve") \/ Goto(r, "lock2", "decide")
  /\ lock = None
  /\ lock' = r /\ stale' = FALSE
  /\ UNCHANGED <<environment, dataset, staging, run>>

\* Mutant of FindStale: the age of the file is not looked at.
BreakAny(r) ==
  /\ lock # None
  /\ pc[r] \in Waiting
  /\ lock' = None /\ stale' = FALSE
  /\ UNCHANGED <<environment, dataset, staging, pc, run>>

\* The file is there and older than an hour: it is removed, and the run tries
\* again.  Between the test and the removal another run can do the same.
FindStale(r) ==
  /\ lock # None /\ stale
  /\ IF deployment.breakAtomically
     THEN /\ pc[r] \in Waiting
          /\ lock' = None /\ stale' = FALSE
          /\ UNCHANGED pc
     ELSE /\ Goto(r, "lock1", "break1") \/ Goto(r, "lock2", "break2")
          /\ UNCHANGED mutex
  /\ UNCHANGED <<environment, dataset, staging, run>>

BreakLock(r) ==
  /\ Goto(r, "break1", "lock1") \/ Goto(r, "break2", "lock2")
  /\ lock' = None /\ stale' = FALSE
  /\ UNCHANGED <<environment, dataset, staging, run>>

\* After 60 seconds the run gives up.  Only the commit runs inside the with
\* statement of the transaction, whose __exit__ rolls back.
LockTimeout(r) ==
  /\ lock # None
  /\ \/ Goto(r, "lock1", "failed") /\ Forget(r)
     \/ Goto(r, "lock2", "rollback") /\ UNCHANGED run
  /\ UNCHANGED <<environment, dataset, staging, mutex>>

\* The file is removed if it holds the token of this run.
Released(r) ==
  /\ lock' = IF lock = r THEN None ELSE lock
  /\ stale' = IF lock = r THEN FALSE ELSE stale

-----------------------------------------------------------------------------
(* _reserve_generation *)

Same(r) == {g \in Range(seen[r]) : g.key = delta[r]}

\* The largest number given out or committed, and one more.
NextSeq(r) == Max({lastSeq} \cup {g.seq : g \in Range(seen[r])}) + 1

ReadForReserve(r) ==
  /\ Goto(r, "reserve", "reserved")
  /\ seen' = [seen EXCEPT ![r] = generations]
  /\ UNCHANGED <<environment, dataset, staging, mutex, delta, previous, seq, staged, moved>>

\* Mutant of Reserve: a number is skipped.
ReserveNext(r) ==
  /\ Goto(r, "reserved", "unlock1")
  /\ seen' = [seen EXCEPT ![r] = <<>>]
  /\ seq' = [seq EXCEPT ![r] = NextSeq(r) + 1]
  /\ lastSeq' = NextSeq(r) + 1
  /\ UNCHANGED <<environment, generations, files, calculated, staging, mutex, delta, previous, staged, moved>>

\* A retry of what is committed gets the number that it has.
Reserve(r) ==
  /\ Goto(r, "reserved", "unlock1")
  /\ seen' = [seen EXCEPT ![r] = <<>>]
  /\ IF Same(r) # {}
     THEN /\ \E g \in Same(r) : seq' = [seq EXCEPT ![r] = g.seq]
          /\ UNCHANGED lastSeq
     ELSE /\ seq' = [seq EXCEPT ![r] = NextSeq(r)]
          /\ lastSeq' = NextSeq(r)
  /\ UNCHANGED <<environment, generations, files, calculated, staging, mutex, delta, previous, staged, moved>>

UnlockReserved(r) ==
  /\ Goto(r, "unlock1", "stage")
  /\ Released(r)
  /\ UNCHANGED <<environment, dataset, staging, run>>

-----------------------------------------------------------------------------
(* Staging: adopt_parquet_file *)

\* The staging directory belongs to the run key, not to the run.
StagedUnder(key, p) == [key |-> key, part |-> p]

\* A task calculates one segment from the file that is at its path now.
StagePart(r, s) ==
  /\ Goto(r, "stage", "stage")
  /\ s \in delta[r].selected \ deployment.barren
  /\ \A p \in staged[r] : p.segment # s
  /\ upstream[s] # 0
  /\ LET p == [seq |-> seq[r], segment |-> s, content |-> upstream[s], contract |-> delta[r].contract]
     IN /\ staged' = [staged EXCEPT ![r] = @ \cup {p}]
        /\ staging' = staging \cup {StagedUnder(delta[r], p)}
  /\ UNCHANGED <<environment, dataset, mutex, delta, previous, seq, moved, seen>>

\* Every task is adopted; without a part there is no commit.
EndStaging(r) ==
  /\ {p.segment : p \in staged[r]} = delta[r].selected \ deployment.barren
  /\ Goto(r, "stage", IF staged[r] = {} THEN "cleanup" ELSE "lock2")
  /\ UNCHANGED <<environment, dataset, staging, mutex, run>>

\* A task fails, or its output is refused.
StagingFails(r) ==
  /\ Goto(r, "stage", "rollback")
  /\ UNCHANGED <<environment, dataset, staging, mutex, run>>

-----------------------------------------------------------------------------
(* commit and rollback *)

\* Mutant of Decide: the run key is not looked up.
DecideAlwaysNew(r) ==
  /\ Goto(r, "decide", "move")
  /\ seen' = [seen EXCEPT ![r] = generations]
  /\ UNCHANGED <<environment, dataset, staging, mutex, delta, previous, seq, staged, moved>>

\* A generation with this run key exists: it is reused, with its parts.
Decide(r) ==
  /\ \/ /\ \A g \in Range(generations) : g.key # delta[r]
        /\ Goto(r, "decide", "move")
        /\ UNCHANGED <<seq, staged>>
     \/ \E g \in Range(generations) :
          /\ g.key = delta[r]
          /\ Goto(r, "decide", "unlock2")
          /\ seq' = [seq EXCEPT ![r] = g.seq]
          /\ staged' = [staged EXCEPT ![r] = g.files]
  /\ seen' = [seen EXCEPT ![r] = generations]
  /\ UNCHANGED <<environment, dataset, staging, mutex, delta, previous, moved>>

\* A staged part is renamed to its destination.
MovePart(r) ==
  /\ Goto(r, "move", "move")
  /\ \E p \in staged[r] \ moved[r] :
       /\ StagedUnder(delta[r], p) \in staging
       /\ staging' = staging \ {StagedUnder(delta[r], p)}
       /\ files' = {f \in files : f.seq # p.seq \/ f.segment # p.segment} \cup {p}
       /\ moved' = [moved EXCEPT ![r] = @ \cup {p}]
  /\ UNCHANGED <<environment, generations, lastSeq, calculated, mutex, delta, previous, seq, staged, seen>>

\* Mutant of Publish: the manifest is written before the parts are moved.
PublishEarly(r) ==
  /\ Goto(r, "move", "unlock2")
  /\ generations' = Append(seen[r], [seq |-> seq[r], key |-> delta[r], files |-> staged[r]])
  /\ UNCHANGED <<environment, files, lastSeq, calculated, staging, mutex, run>>

\* The manifest that was read is written back with the generation appended.
Publish(r) ==
  /\ moved[r] = staged[r]
  /\ Goto(r, "move", "unlock2")
  /\ generations' = Append(seen[r], [seq |-> seq[r], key |-> delta[r], files |-> staged[r]])
  /\ UNCHANGED <<environment, files, lastSeq, calculated, staging, mutex, run>>

\* A part is missing, or any other error: the moved parts are removed.
CommitFails(r) ==
  /\ Goto(r, "move", "unlockfailed")
  /\ files' = files \ moved[r]
  /\ UNCHANGED <<environment, generations, lastSeq, calculated, staging, mutex, run>>

UnlockCommitted(r) ==
  /\ Goto(r, "unlock2", "cleanup") \/ Goto(r, "unlockfailed", "rollback")
  /\ Released(r)
  /\ UNCHANGED <<environment, dataset, staging, run>>

\* rollback removes the staging directory, after a commit or an error.
Rollback(r) ==
  /\ \/ Goto(r, "cleanup", "record") /\ UNCHANGED run
     \/ Goto(r, "rollback", "failed") /\ Forget(r)
  /\ staging' = {x \in staging : x.key # delta[r]}
  /\ UNCHANGED <<environment, dataset, mutex>>

-----------------------------------------------------------------------------
(* The calculation manifest *)

\* _next_active_segments: the selected segments point to the generation, the
\* others keep the entry they had if its contents are the same.
NextActive(r) ==
  LET d == delta[r]
      old == IF previous[r] = None THEN {} ELSE DOMAIN previous[r].active
      kept == {s \in Present(d.upstream) \ d.selected :
                 s \in old /\ previous[r].active[s].content = d.upstream[s]}
      gen == IF staged[r] = {} THEN 0 ELSE seq[r]
  IN [s \in kept \cup d.selected |->
        IF s \in d.selected
        THEN [content |-> d.upstream[s], gen |-> gen, parts |-> {p \in staged[r] : p.segment = s}]
        ELSE previous[r].active[s]]

\* Mutant of Record: every segment points to the generation of this run.
RecordAll(r) ==
  /\ Goto(r, "record", "done")
  /\ calculated' = [contract |-> delta[r].contract,
                    active |-> [s \in Present(delta[r].upstream) |->
                       [content |-> delta[r].upstream[s], gen |-> seq[r],
                        parts |-> {p \in staged[r] : p.segment = s}]]]
  /\ Forget(r)
  /\ UNCHANGED <<environment, generations, files, lastSeq, staging, mutex>>

\* Mutant of Record: the segments of the previous manifest are dropped.
RecordSelected(r) ==
  /\ Goto(r, "record", "done")
  /\ calculated' = [contract |-> delta[r].contract,
                    active |-> [s \in delta[r].selected |-> NextActive(r)[s]]]
  /\ Forget(r)
  /\ UNCHANGED <<environment, generations, files, lastSeq, staging, mutex>>

Record(r) ==
  /\ Goto(r, "record", "done")
  /\ calculated' = [contract |-> delta[r].contract, active |-> NextActive(r)]
  /\ Forget(r)
  /\ UNCHANGED <<environment, generations, files, lastSeq, staging, mutex>>

Die(r) ==
  /\ pc[r] \in Alive
  /\ pc' = [pc EXCEPT ![r] = "dead"]
  /\ Forget(r)
  /\ UNCHANGED <<environment, dataset, staging, mutex>>

-----------------------------------------------------------------------------

Locking(r) == Acquire(r) \/ FindStale(r) \/ BreakLock(r) \/ LockTimeout(r)
Reserving(r) == ReadForReserve(r) \/ Reserve(r) \/ UnlockReserved(r)
Staging(r) == (\E s \in Segment : StagePart(r, s)) \/ EndStaging(r) \/ StagingFails(r)
Committing(r) ==
  Decide(r) \/ MovePart(r) \/ Publish(r) \/ CommitFails(r) \/ UnlockCommitted(r) \/ Rollback(r)

Step(r) ==
  \/ Plan(r) \/ ReadPrevious(r) \/ Locking(r) \/ Reserving(r) \/ Staging(r) \/ Committing(r)
  \/ Record(r) \/ Die(r)

Next == (\E s \in Segment : ReplaceUpstream(s)) \/ LockAges \/ \E r \in Run : Step(r)

Spec == Init /\ [][Next]_vars

-----------------------------------------------------------------------------
(* Properties *)

\* Two runs are never inside the lock at once, whoever died in it or (where runs do not
\* overlap) stays in it for an hour.
MutualExclusion ==
  \A q, r \in Run : pc[q] \in Locked /\ pc[r] \in Locked => q = r

\* Every part a committed generation lists is there, with the contents it was
\* committed with: no error path of commit, no retry that shares the staging
\* directory and no reused number removes or overwrites it.
CommittedFilesStay == \A g \in Range(generations) : g.files \subseteq files /\ g.files # {}

\* A segment the calculation manifest calls calculated has its parts in a
\* committed generation, calculated from the contents that the entry names:
\* a later run that does not select it loses nothing.
CalculatedIsCommitted ==
  calculated # None =>
    \A s \in DOMAIN calculated.active \ deployment.barren :
      LET e == calculated.active[s] IN
        \E g \in Range(generations) :
          /\ g.seq = e.gen
          /\ e.parts = {p \in g.files : p.segment = s}
          /\ [seq |-> e.gen, segment |-> s, content |-> e.content,
              contract |-> calculated.contract] \in e.parts

\* Where runs do not overlap, one that ends has recorded every segment of the
\* upstream dataset that it read, and no other.  (One that overlaps may read
\* the manifest of an older run between its two looks, and drop a segment,
\* which the next run calculates again.)
RecordsWhatItRead ==
  [][\A r \in Run : ~deployment.overlap /\ pc[r] = "record" /\ pc'[r] = "done" =>
       /\ DOMAIN calculated'.active = Present(delta[r].upstream)
       /\ \A s \in Present(delta[r].upstream) :
            calculated'.active[s].content = delta[r].upstream[s]]_vars

Log == INSTANCE AppendLog WITH log <- generations

\* The manifest is an append-only log: no run key twice, however often a run
\* is retried, no number twice, and no generation ever lost.  (Of runs that overlap
\* this is so only in the deployments that break locks atomically and hold them briefly.)
ImplementsAppendLog == Log!Spec
=============================================================================
