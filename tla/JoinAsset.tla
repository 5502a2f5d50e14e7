------------------------------ MODULE JoinAsset ------------------------------
(***************************************************************************)
(* The join asset 0301 (assets/a0301_join/producer.py) and the tasks it    *)
(* hands to the engine (native/engine/src/join.rs).  The left side is the  *)
(* space of keys, built anew by every run; of every right file an index    *)
(* says which of its row groups hold which key.  The index of a file is    *)
(* kept for as long as its manifest says that the definition and the file  *)
(* are the same.  A task takes a part of the keys of a partition, reads    *)
(* the files and row groups that the indices name, and joins them.         *)
(*                                                                         *)
(* Files and definition may change while a run is going on.                *)
(***************************************************************************)
EXTENDS Integers, Sequences, FiniteSets, FiniteSetsExt

CONSTANTS
  File,          \* the files of the right source
  Key,           \* the keys of the left side, numbers in their sorted order
  PartitionOf,   \* of each key its partition
  Named,         \* of each file the partition its path is named after, or None
  Definition,    \* versions of the definition, which join on one column each
  LeftContents,  \* contents of the left side: sets of keys and None
  Contents,      \* of each file its contents: sequences of row groups
  PartSize,      \* target_key_groups_per_part, or target_rows_per_part if less
  BatchRows,     \* input_batch_rows
  MaxChanges,    \* bound: changes to the files
  FailsIn,       \* the phases in which a run may fail or die
  MayReturn,     \* TRUE: after a failure an earlier definition may come back
  None

\* There is a right source, of finite row groups; what a run has seen is not None.
JoinAssumption ==
  /\ File # {} /\ MaxChanges \in Nat /\ None \notin Nat
  /\ None \notin [definition : Definition, left : Nat, right : [File -> Nat \cup {None}]]
  /\ \A c \in LeftContents : c \subseteq Key \cup {None}
  /\ \A f \in File : \A c \in Contents[f] : \A g \in DOMAIN c : IsFiniteSet(c[g])

VARIABLES
  definition, \* the definition, as it is by now
  left,       \* the left side: its content and its size and time
  right,      \* the right files: the same of each, or None
  manifest,   \* right_key_index.manifest.json, or None
  frames,     \* right_key_index/: of each file its candidates, or None
  run,        \* the local variables of the run
  output,     \* the dataset: of each task its rows, or None
  metadata,   \* what the last complete run had seen, or None
  spoiled,    \* history: the last run failed
  changes     \* counter for the bound, and the clock of the files

vars == <<definition, left, right, manifest, frames, run, output, metadata, spoiled, changes>>

Phases == {"idle", "keyspace", "index", "manifest", "join", "commit", "metadata"}
Idle ==
  [phase |-> "idle", seen |-> None, files |-> {}, keys |-> {}, group |-> <<>>, full |-> FALSE,
   todo |-> {}, index |-> [f \in File |-> {}], times |-> [f \in File |-> None], staged |-> None]
Present == {f \in File : right[f] # None}
Times(fs) == [f \in File |-> IF fs[f] = None THEN None ELSE fs[f].time]

TypeOK ==
  /\ definition \in Definition /\ left.content \in LeftContents
  /\ DOMAIN right = File /\ \A f \in Present : right[f].content \in Contents[f]
  /\ manifest # None => manifest.contract \in Definition /\ DOMAIN manifest.times = File
  /\ DOMAIN frames = File
  /\ run.phase \in Phases /\ run.keys \subseteq Key /\ run.todo \subseteq File
  /\ metadata # None => metadata.definition \in Definition
  /\ spoiled \in BOOLEAN /\ changes \in 0 .. MaxChanges

Init ==
  /\ definition \in Definition
  /\ left \in [content : LeftContents, time : {0}]
  /\ right \in {fs \in [File -> [content : UNION {Contents[f] : f \in File}, time : {0}]] :
                  \A f \in File : fs[f].content \in Contents[f]}
  /\ manifest = None /\ frames = [f \in File |-> None]
  /\ run = Idle /\ output = None /\ metadata = None /\ spoiled = FALSE /\ changes = 0

-----------------------------------------------------------------------------
(* What others do *)

ChangeRight(f) ==
  /\ changes < MaxChanges
  /\ \/ \E c \in Contents[f] : right' = [right EXCEPT ![f] = [content |-> c, time |-> changes + 1]]
     \/ right[f] # None /\ right' = [right EXCEPT ![f] = None]
  /\ changes' = changes + 1
  /\ UNCHANGED <<definition, left, manifest, frames, run, output, metadata, spoiled>>

ChangeLeft ==
  /\ changes < MaxChanges
  /\ \E c \in LeftContents : left' = [content |-> c, time |-> changes + 1]
  /\ changes' = changes + 1
  /\ UNCHANGED <<definition, right, manifest, frames, run, output, metadata, spoiled>>

\* The definitions whose traces the runs left behind.
Earlier == IF manifest = None THEN {} ELSE {manifest.contract}

Edit ==
  /\ run.phase = "idle"
  /\ \E d \in Definition \ {definition} :
       /\ d \in Earlier => MayReturn \/ ~ spoiled
       /\ definition' = d
  /\ UNCHANGED <<left, right, manifest, frames, run, output, metadata, spoiled, changes>>

-----------------------------------------------------------------------------
(* A run up to its index *)

\* A run of a definition other than that of the last complete run begins by removing
\* that run's metadata and dataset; the index lies elsewhere and stays.
Reset ==
  /\ run.phase = "idle" /\ metadata # None /\ metadata.definition # definition
  /\ metadata' = None /\ output' = None
  /\ UNCHANGED <<definition, left, right, manifest, frames, run, spoiled, changes>>

Seen == [definition |-> definition, left |-> left.time, right |-> Times(right)]

\* A run that sees what the last complete one saw ends here, and writes the same again.
Unchanged == metadata = Seen /\ output # None

Begin ==
  /\ run.phase = "idle"
  /\ metadata # None => metadata.definition = definition
  /\ Present # {} /\ ~ Unchanged
  /\ run' = [Idle EXCEPT !.phase = "keyspace", !.seen = Seen, !.files = Present, !.todo = Present]
  /\ UNCHANGED <<definition, left, right, manifest, frames, output, metadata, spoiled, changes>>

\* The rows of the keyspace come in any order, in one row group or two.
Groupings(keys) == {g \in [keys -> 1 .. 2] : g[Min(keys)] = 1}

\* The keyspace is made of the left side as it is by now, without null keys.
\* An index made for another definition is removed; its manifest stays.
Materialize ==
  /\ run.phase = "keyspace"
  /\ LET full == manifest = None \/ manifest.contract # run.seen.definition IN
     /\ \E g \in Groupings(left.content \ {None}) :
          run' = [run EXCEPT !.phase = "index", !.keys = left.content \ {None}, !.group = g,
                             !.full = full]
     /\ frames' = IF full THEN [f \in File |-> None] ELSE frames
  /\ UNCHANGED <<definition, left, right, manifest, output, metadata, spoiled, changes>>

Groups(content) == DOMAIN content

\* The row groups in which each key is found, and in how many rows; null is none.
Candidates(content, d) ==
  LET Rows(k, g) == Cardinality({r \in content[g] : r.on[d] = k}) IN
  { [key |-> s[1], group |-> s[2], rows |-> Rows(s[1], s[2])] :
      s \in {x \in Key \X Groups(content) : Rows(x[1], x[2]) > 0} }

\* Mutant of CanReuse: any index of the file will do.
CanReuseAny(f) == ~ run.full /\ frames[f] # None

CanReuse(f) ==
  /\ ~ run.full /\ frames[f] # None
  /\ manifest.times[f] = right[f].time

IndexFile(f) ==
  /\ run.phase = "index" /\ f \in run.todo /\ right[f] # None
  /\ LET c == IF CanReuse(f) THEN frames[f]
              ELSE Candidates(right[f].content, run.seen.definition) IN
     /\ frames' = [frames EXCEPT ![f] = c]
     /\ run' = [run EXCEPT !.todo = @ \ {f}, !.index[f] = c, !.times[f] = right[f].time,
                           !.phase = IF run.todo = {f} THEN "manifest" ELSE "index"]
  /\ UNCHANGED <<definition, left, right, manifest, output, metadata, spoiled, changes>>

\* The files that the manifest lists and the run did not find.
Stale == IF run.full THEN {} ELSE {f \in File : manifest.times[f] # None /\ run.times[f] = None}

\* Their candidates are removed before the manifest is replaced.
DropStale ==
  /\ run.phase = "manifest"
  /\ \E f \in Stale : frames[f] # None /\ frames' = [frames EXCEPT ![f] = None]
  /\ UNCHANGED <<definition, left, right, manifest, run, output, metadata, spoiled, changes>>

WriteManifest ==
  /\ run.phase = "manifest" /\ \A f \in Stale : frames[f] = None
  /\ manifest' = [contract |-> run.seen.definition, times |-> run.times]
  /\ run' = [run EXCEPT !.phase = "join"]
  /\ UNCHANGED <<definition, left, right, frames, output, metadata, spoiled, changes>>

-----------------------------------------------------------------------------
(* The tasks *)

Partitions == {PartitionOf[k] : k \in run.keys}
KeysIn(p) == {k \in run.keys : PartitionOf[k] = p}
Rank(k, keys) == Cardinality({j \in keys : j < k})

\* The keys of a partition in their order, PartSize to a part.
PartOf(k) == [partition |-> PartitionOf[k], part |-> Rank(k, KeysIn(PartitionOf[k])) \div PartSize]
Tasks == {PartOf(k) : k \in run.keys}
KeyRows(t) == {k \in run.keys : PartOf(k) = t}

\* The row groups of the keyspace that hold keys of the task.
LeftSpans(t) == {run.group[k] : k \in KeyRows(t)}

\* The row groups of the right files that the index names for the keys of the task.
MatchingSpans(t) ==
  UNION {{<<f, c.group>> : c \in {x \in run.index[f] : x.key \in KeyRows(t)}} : f \in run.files}

\* Where it names none at all, everything is read.
SelectedFiles(t) == IF MatchingSpans(t) # {} THEN {s[1] : s \in MatchingSpans(t)} ELSE run.files

\* Of those, the worker keeps the files that are named after the partition, if any is.
NamedFiles(t) ==
  LET named == {f \in SelectedFiles(t) : Named[f] = t.partition} IN
  IF named # {} THEN named ELSE SelectedFiles(t)

SelectedGroups(t, f) ==
  IF MatchingSpans(t) # {} THEN {s[2] : s \in {x \in MatchingSpans(t) : x[1] = f}}
  ELSE Groups(right[f].content)

\* A file that is gone, a row group it does not have, or no row group at all raise.
Readable(t) ==
  /\ \A f \in NamedFiles(t) : right[f] # None /\ SelectedGroups(t, f) \subseteq Groups(right[f].content)
  /\ \E f \in NamedFiles(t) : SelectedGroups(t, f) # {}

RightRows(t) == UNION {UNION {right[f].content[g] : g \in SelectedGroups(t, f)} : f \in NamedFiles(t)}

\* A right source with many rows of which few are expected to match is filtered first.
EstimatedRows(t) ==
  MapThenSumSet(LAMBDA f :
    MapThenSumSet(LAMBDA c : c.rows, {c \in run.index[f] : c.key \in KeyRows(t)}), run.files)
ShouldStage(t) ==
  /\ Cardinality(RightRows(t)) > BatchRows
  /\ 2 * EstimatedRows(t) <= Cardinality(RightRows(t))
StagedRows(t, d) ==
  IF ShouldStage(t) THEN {r \in RightRows(t) : r.on[d] \in KeyRows(t)} ELSE RightRows(t)

\* Mutant of LeftRows: the part of the keys that is another task's is not taken out.
LeftOfPartition(t) == {k \in KeysIn(t.partition) : run.group[k] \in LeftSpans(t)}

\* The keys of the row groups, of the partition and of the task.
LeftRows(t) ==
  {k \in KeysIn(t.partition) : run.group[k] \in LeftSpans(t) /\ k \in KeyRows(t)}

\* Every left row with each right row of its key, or with none.
Joined(keys, rows, d) ==
  {[key |-> p[1], row |-> p[2].id] : p \in {x \in keys \X rows : x[2].on[d] = x[1]}}
    \cup {[key |-> k, row |-> None] : k \in {x \in keys : \A r \in rows : r.on[d] # x}}

TaskRows(t) == Joined(LeftRows(t), StagedRows(t, run.seen.definition), run.seen.definition)

\* The tasks read the files as they are by now; one that raises fails the run.
JoinTasks ==
  /\ run.phase = "join"
  /\ \A t \in Tasks : Readable(t)
  /\ run' = [run EXCEPT !.phase = "commit", !.staged = [t \in Tasks |-> TaskRows(t)]]
  /\ UNCHANGED <<definition, left, right, manifest, frames, output, metadata, spoiled, changes>>

\* The metadata are inside the dataset, and go with the one that is replaced.
Commit ==
  /\ run.phase = "commit"
  /\ output' = run.staged /\ metadata' = None /\ run' = [run EXCEPT !.phase = "metadata"]
  /\ UNCHANGED <<definition, left, right, manifest, frames, spoiled, changes>>

\* Mutant of WriteMetadata: what is there by now, not what the run had seen.
WriteMetadataNow ==
  /\ run.phase = "metadata"
  /\ metadata' = Seen /\ run' = Idle /\ spoiled' = FALSE
  /\ UNCHANGED <<definition, left, right, manifest, frames, output, changes>>

WriteMetadata ==
  /\ run.phase = "metadata"
  /\ metadata' = run.seen /\ run' = Idle /\ spoiled' = FALSE
  /\ UNCHANGED <<definition, left, right, manifest, frames, output, changes>>

\* The run raises or dies; the dataset keeps what the last commit made of it.
Fail ==
  /\ run.phase \in FailsIn
  /\ run' = Idle /\ spoiled' = TRUE
  /\ UNCHANGED <<definition, left, right, manifest, frames, output, metadata, changes>>

Next ==
  \/ \E f \in File : ChangeRight(f) \/ IndexFile(f)
  \/ ChangeLeft \/ Edit
  \/ Reset \/ Begin \/ Materialize \/ DropStale \/ WriteManifest \/ JoinTasks \/ Commit \/ WriteMetadata
  \/ Fail

Spec == Init /\ [][Next]_vars

-----------------------------------------------------------------------------
(* Properties *)

\* What the join of the whole sides is, without indices, parts and tasks.
Expected ==
  Joined(left.content \ {None},
         UNION {UNION {right[f].content[g] : g \in Groups(right[f].content)} : f \in Present},
         definition)

\* A dataset that the next run would take for up to date (_maybe_skip_unchanged) holds
\* the join of what is there, and no row of it twice: whatever changed while its run was
\* going on, and whatever index earlier runs, or ones that failed, left to it.
JoinIsExact ==
  run.phase = "idle" /\ Unchanged =>
    /\ UNION {output[t] : t \in DOMAIN output} = Expected
    /\ \A t, u \in DOMAIN output : t # u => output[t] \cap output[u] = {}
=============================================================================
