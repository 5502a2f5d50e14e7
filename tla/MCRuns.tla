------------------------------- MODULE MCRuns -------------------------------
(* What runs find on the local disk and share, side by side: a dataset,     *)
(* a calculated fact, and the probe of a source.  A behaviour is about one  *)
(* of the three, the others do not start.                                   *)
EXTENDS DatasetTransaction, TLC

CONSTANTS
  Segment, Contract, s1, s2, c1, c2, Deployments, UpstreamStable, File, KeysOf, MaxChanges,
  MaxAtWork, SoundLock, None

VARIABLES
  part,  \* what this behaviour is about
  deployment, upstream, generations, files, lastSeq, calculated, segmentStaging, appendLock, stale,
  appendPc, delta, previous, seq, staged, moved, seen,
  version, latest, generation, probeLock, probeStaging, probing, changes, moments

\* Three runs of one contract that overlap and are quick about their commits.
Overlapping ==
  [segments |-> {s1}, contracts |-> {c1}, barren |-> {}, overlap |-> TRUE,
   breakAtomically |-> TRUE, heldBriefly |-> TRUE, runs |-> 3]

\* Two runs one after the other: the contract may change, one segment is barren, and a
\* commit may take an hour and more.
Recontracting ==
  [segments |-> {s1, s2}, contracts |-> {c1, c2}, barren |-> {s2}, overlap |-> FALSE,
   breakAtomically |-> FALSE, heldBriefly |-> FALSE, runs |-> 2]

MCDeployments == {Overlapping, Recontracting}

Fact ==
  INSTANCE SegmentAppend WITH
    staging <- segmentStaging, lock <- appendLock, pc <- appendPc

ASSUME FactConstants == Fact!AppendAssumption

\* Two files, each in a partition of its own: no run copies one partition of a file and
\* makes another.
MCKeysOf == <<{"a"}, {"b"}>>

Probe ==
  INSTANCE PhysicalProbe WITH
    lock <- probeLock, staging <- probeStaging, run <- probing

ASSUME ProbeConstants == Probe!ProbeAssumption

appendVars ==
  <<deployment, upstream, generations, files, lastSeq, calculated, segmentStaging, appendLock, stale,
    appendPc, delta, previous, seq, staged, moved, seen>>
probeVars == <<version, latest, generation, probeLock, probeStaging, probing, changes, moments>>
runsVars == <<part, vars, appendVars, probeVars>>

RunsInit ==
  /\ part \in {"dataset", "append", "probe"} /\ Init /\ Fact!Init /\ Probe!Init
  /\ part # "append" => deployment = Overlapping
  /\ version = [f \in File |-> 1]

OfDataset == part = "dataset" /\ UNCHANGED <<part, appendVars, probeVars>>
OfAppend == part = "append" /\ UNCHANGED <<part, vars, probeVars>>
OfProbe == part = "probe" /\ UNCHANGED <<part, vars, appendVars>>

RunsNext ==
  \/ OfDataset /\ Next
  \/ OfAppend /\ Fact!Next
  \/ OfProbe /\ Probe!Next

RunsSpec == RunsInit /\ [][RunsNext]_runsVars

\* Runs are interchangeable, and so are the parts of the dataset: sound for safety only.
Symmetry == Permutations(Run) \cup Permutations(Part)

-----------------------------------------------------------------------------
\* Two runs never hold a lock at once, and what a run committed stays and is recorded.
CommittedStays ==
  Fact!TypeOK /\ Fact!MutualExclusion /\ Fact!CommittedFilesStay /\ Fact!CalculatedIsCommitted

\* What the pointer of the probe names, and what a run takes from it, is what is there.
ProbeTellsTruth == Probe!TypeOK /\ Probe!LatestTellsTruth /\ Probe!HandleTellsTruth

\* A run records the segments as it read them (SegmentAppend).
RecordsWhatItRead == Fact!RecordsWhatItRead

\* The runs of a calculated fact implement an append-only log (SegmentAppend).
ImplementsAppendLog == Fact!ImplementsAppendLog
=============================================================================
