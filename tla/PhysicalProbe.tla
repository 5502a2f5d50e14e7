---------------------------- MODULE PhysicalProbe ----------------------------
(***************************************************************************)
(* The physical probe of a source (runtime/parquet_probe/probe.py): the    *)
(* profiles of its files, by partition of their time windows, published as *)
(* a generation that latest.json names.  A run reuses the latest one, or   *)
(* makes the next from it: the partitions of changed files anew, the rest  *)
(* copied.  One lock file keeps publishers apart; any run may die.         *)
(***************************************************************************)
EXTENDS Naturals, FiniteSetsExt, Functions

CONSTANTS
  Run,          \* runs, which are processes of their own; each names its generation
  File,         \* numbered in the order they are read
  KeysOf,       \* the partitions of the windows of each file
  MaxVersion,   \* bound: versions of a file
  MaxChanges,   \* bound: changed files
  MaxAtWork,    \* bound: runs that overlap
  SoundLock,    \* TRUE: nobody comes between the two halves of taking or breaking the lock
  None

VARIABLES
  version,               \* of each file, 0 when it is not there
  latest, generation,    \* latest.json and generations/
  lock, staging,         \* .probe.lock, and the runs whose staging directory exists
  run,                   \* the local variables of the runs
  changes,               \* counter for the bound
  moments                \* history: all that the source has been

disk == <<latest, generation, lock, staging>>
source == <<version, changes, moments>>
vars == <<source, disk, run>>

Fresh == [pc |-> "idle", previous |-> None, identity |-> <<>>,
          known |-> <<>>, profile |-> <<>>, todo |-> {}, parts |-> <<>>, used |-> None]

PartitionsOf(files) == UNION {KeysOf[f] : f \in files}

\* The profiles in partition k; a profile is known by the version it was taken of.
RowsOf(k, files, profile) == {<<f, profile[f]>> : f \in {h \in files : k \in KeysOf[h]}}

\* What .probe.lock and a generation can hold.
Version == 0 .. MaxVersion
LockFile == [owner : Run, pid : BOOLEAN]
Manifest == [dataset : UNION {[S -> Version] : S \in SUBSET File},
             parts : UNION {[K -> SUBSET (File \X Version)] : K \in SUBSET PartitionsOf(File)}]

\* Assumed of the constants (where the module is used).
ProbeAssumption ==
  /\ File \subseteq Nat /\ \A f \in File : KeysOf[f] # {}
  /\ MaxVersion \in Nat \ {0} /\ SoundLock \in BOOLEAN
  /\ None \notin Run /\ None \notin LockFile /\ None \notin Manifest

\* The profiles that a generation holds, as _read_previous_file_profiles finds them.
ProfilesIn(g) ==
  IF g = None \/ generation[g] = None THEN <<>>
  ELSE LET rows == UNION Range(generation[g].parts)
       IN  [f \in {r[1] : r \in rows} |-> (CHOOSE r \in rows : r[1] = f)[2]]

TypeOK ==
  /\ version \in [File -> Version]
  /\ latest \in Run \cup {None} /\ staging \subseteq Run
  /\ lock \in LockFile \cup {None}
  /\ \A r \in Run : DOMAIN run[r].profile \subseteq DOMAIN run[r].identity /\ run[r].todo \subseteq File

Init ==
  /\ version \in [File -> 0 .. 1] /\ changes = 0 /\ moments = {version}
  /\ latest = None /\ generation = [r \in Run |-> None] /\ lock = None /\ staging = {}
  /\ run = [r \in Run |-> Fresh]

\* A file is written, replaced or removed; it is never again what it was before.
ChangeFile(f, v) ==
  /\ changes < MaxChanges /\ v # version[f] /\ (v = 0 \/ \A m \in moments : v > m[f])
  /\ changes' = changes + 1
  /\ version' = [version EXCEPT ![f] = v] /\ moments' = moments \cup {version'}
  /\ UNCHANGED <<disk, run>>

-----------------------------------------------------------------------------
(* ensure_probe, before the lock *)

AtRest == {"idle", "done", "used", "failed", "dead"}
Become(r, from, new) == run[r].pc = from /\ run' = [run EXCEPT ![r] = new]
Goto(r, from, to) == Become(r, from, [run[r] EXCEPT !.pc = to])

\* What is known no more is forgotten.
Leave(r, from, to, g) == Become(r, from, [Fresh EXCEPT !.pc = to, !.previous = g])
Listed(r) == DOMAIN run[r].identity

\* discover_parquet_files, and the latest manifest if it and its artifacts are whole.
Start(r) ==
  LET files == {f \in File : version[f] > 0} IN
  /\ files # {} /\ Cardinality({q \in Run : run[q].pc \notin AtRest}) < MaxAtWork
  /\ Become(r, "idle", [Fresh EXCEPT !.pc = "identify", !.todo = files,
       !.identity = [f \in files |-> 0],
       !.previous = IF latest # None /\ generation[latest] # None THEN latest ELSE None])
  /\ UNCHANGED <<source, disk>>

\* Reading the next of the files to do; it raises when the file has gone.
NextFile(r) == Min(run[r].todo)
MayRead(r, from) == run[r].pc = from /\ run[r].todo # {} /\ version[NextFile(r)] > 0

Identify(r) ==
  /\ MayRead(r, "identify")
  /\ Become(r, "identify", [run[r] EXCEPT !.identity[NextFile(r)] = version[NextFile(r)],
                                          !.todo = @ \ {NextFile(r)}])
  /\ UNCHANGED <<source, disk>>

\* _manifest_reusable (the policy is the same in all runs)
Reusable(r) ==
  LET g == run[r].previous IN
  /\ g # None /\ generation[g] # None
  /\ generation[g].dataset = run[r].identity

Reuse(r) ==
  /\ run[r].todo = {} /\ Reusable(r)
  /\ Leave(r, "identify", "done", run[r].previous)
  /\ UNCHANGED <<source, disk>>

\* What is as the previous generation says needs no inspection.
Unchanged(r) == {f \in Listed(r) \cap DOMAIN run[r].known : run[r].known[f] = run[r].identity[f]}

Compare(r) ==
  LET known == ProfilesIn(run[r].previous)
      same == {f \in Listed(r) \cap DOMAIN known : known[f] = run[r].identity[f]}
  IN
  /\ run[r].todo = {} /\ ~Reusable(r)
  /\ Become(r, "identify", [run[r] EXCEPT !.pc = "inspect", !.known = known, !.todo = Listed(r) \ same,
                                          !.profile = Restrict(known, same)])
  /\ UNCHANGED <<source, disk>>

Inspect(r) ==
  /\ MayRead(r, "inspect")
  /\ Become(r, "inspect", [run[r] EXCEPT !.todo = @ \ {NextFile(r)},
       !.profile = [f \in DOMAIN @ \cup {NextFile(r)} |-> IF f = NextFile(r) THEN version[f] ELSE @[f]]])
  /\ UNCHANGED <<source, disk>>

-----------------------------------------------------------------------------
(* _acquire_lock *)

Alive(r) == run[r].pc # "dead"

\* Nobody else is in the middle of taking or breaking the lock.
Undisturbed(r) == SoundLock => \A q \in Run \ {r} : run[q].pc \notin {"pid", "break", "again"}

\* O_CREAT | O_EXCL, and then the pid.
CreateLock(r) ==
  /\ run[r].pc \in {"inspect", "again"} /\ run[r].todo = {} /\ lock = None /\ Undisturbed(r)
  /\ lock' = [owner |-> r, pid |-> FALSE]
  /\ Goto(r, run[r].pc, "pid")
  /\ UNCHANGED <<source, latest, generation, staging>>

WritePid(r) ==
  /\ Goto(r, "pid", "build")
  /\ lock' = IF lock # None /\ lock.owner = r THEN [lock EXCEPT !.pid = TRUE] ELSE lock
  /\ UNCHANGED <<source, latest, generation, staging>>

\* Mutant of FindLock: every lock that is found counts as left behind.
FindLockAny(r) ==
  /\ run[r].pc \in {"inspect", "again"} /\ run[r].todo = {} /\ lock # None /\ Undisturbed(r)
  /\ Goto(r, run[r].pc, "break")
  /\ UNCHANGED <<source, disk>>

\* A lock without a pid, or of a dead process, is broken at the first attempt.
FindLock(r) ==
  /\ run[r].pc \in {"inspect", "again"} /\ run[r].todo = {} /\ lock # None /\ Undisturbed(r)
  /\ LET dead == ~lock.pid \/ ~Alive(lock.owner) IN
     IF run[r].pc = "inspect" /\ dead THEN Goto(r, "inspect", "break")
     ELSE Leave(r, run[r].pc, "failed", None)
  /\ UNCHANGED <<source, disk>>

BreakLock(r) ==
  /\ Goto(r, "break", "again")
  /\ lock' = None
  /\ UNCHANGED <<source, latest, generation, staging>>

-----------------------------------------------------------------------------
(* ensure_probe, under the lock *)

\* _recover_orphan_staging, and a staging directory of its own.
Stage(r) ==
  /\ Goto(r, "build", "write")
  /\ staging' = {q \in staging : Alive(q)} \cup {r}
  /\ UNCHANGED <<source, latest, generation, lock>>

\* The partitions of changed and removed files; all when there is nothing to start from,
\* or nothing changed and the latest does not serve all the same.
Affected(r) ==
  LET byChange == PartitionsOf(Listed(r) \ Unchanged(r))
                    \cup PartitionsOf(DOMAIN run[r].known \ Listed(r))
  IN  IF run[r].previous = None \/ byChange = {} THEN PartitionsOf(Listed(r)) ELSE byChange

\* _write_partitioned_probe_artifacts: the files of affected partitions that were not
\* inspected are inspected now, and partitions that are not affected are copied.
WriteArtifacts(r) ==
  LET g == run[r].previous
      old == IF g = None \/ generation[g] = None THEN <<>> ELSE generation[g].parts
      copied == (PartitionsOf(Listed(r)) \cap DOMAIN old) \ Affected(r)
      made == PartitionsOf(Listed(r)) \ copied
      again == {f \in Unchanged(r) : KeysOf[f] \cap made # {}}
      profile == [f \in Listed(r) |-> IF f \in again THEN version[f] ELSE run[r].profile[f]]
  IN
  /\ \A f \in again : version[f] > 0
  /\ Become(r, "write", [run[r] EXCEPT !.pc = "validate", !.todo = Listed(r), !.profile = profile,
       !.parts = [k \in PartitionsOf(Listed(r)) |->
         IF k \in copied THEN old[k] ELSE RowsOf(k, Listed(r), profile)]])
  /\ UNCHANGED <<source, disk>>

\* Mutant of Validate: the source is taken to be what it was.
ValidateNothing(r) ==
  /\ run[r].todo # {}
  /\ Become(r, "validate", [run[r] EXCEPT !.todo = {}])
  /\ UNCHANGED <<source, disk>>

\* _validate_source_unchanged, file by file.
Validate(r) ==
  /\ MayRead(r, "validate") /\ version[NextFile(r)] = run[r].profile[NextFile(r)]
  /\ Become(r, "validate", [run[r] EXCEPT !.todo = @ \ {NextFile(r)}])
  /\ UNCHANGED <<source, disk>>

\* The staging directory becomes the generation.
Publish(r) ==
  /\ run[r].todo = {} /\ r \in staging
  /\ Leave(r, "validate", "point", run[r].previous)
  /\ generation' = [generation EXCEPT ![r] =
       [dataset |-> run[r].identity, parts |-> run[r].parts]]
  /\ staging' = staging \ {r}
  /\ UNCHANGED <<source, latest, lock>>

PointLatest(r) ==
  /\ Goto(r, "point", "clean")
  /\ latest' = r
  /\ UNCHANGED <<source, generation, lock, staging>>

\* _cleanup_probe_generations: all but the new one and the one that was latest at the start.
CleanUp(r) ==
  /\ Goto(r, "clean", "release")
  /\ generation' = [q \in Run |-> IF q \in {r, run[r].previous} THEN generation[q] ELSE None]
  /\ UNCHANGED <<source, latest, lock, staging>>

\* The lock file is removed, whoever made it; the handle names the generation.
Release(r) ==
  /\ Leave(r, "release", "done", r)
  /\ lock' = None
  /\ UNCHANGED <<source, latest, generation, staging>>

-----------------------------------------------------------------------------

\* Whatever is raised: under the lock the staging directory and the lock go.
Locked == {"build", "write", "validate", "point", "clean"}
Fail(r) ==
  /\ run[r].pc \in {"identify", "inspect"} \cup Locked
  /\ Leave(r, run[r].pc, "failed", None)
  /\ lock' = IF run[r].pc \in Locked THEN None ELSE lock
  /\ staging' = staging \ {r}
  /\ UNCHANGED <<source, latest, generation>>

Die(r) ==
  /\ run[r].pc \notin AtRest
  /\ Leave(r, run[r].pc, "dead", None)
  /\ UNCHANGED <<source, disk>>

\* Mutant of Use: only the artifacts are looked at.
UseUnchecked(r) ==
  /\ run[r].pc = "done" /\ generation[run[r].previous] # None
  /\ Become(r, "done", [run[r] EXCEPT !.pc = "used",
                          !.used = Restrict(version, {f \in File : version[f] > 0})])
  /\ UNCHANGED <<source, disk>>

\* validate_probe_manifest: the run that was given the handle makes sure of it.
Use(r) ==
  LET g == run[r].previous
      now == Restrict(version, {f \in File : version[f] > 0})
  IN
  /\ run[r].pc = "done" /\ generation[g] # None /\ generation[g].dataset = now
  /\ Become(r, "done", [run[r] EXCEPT !.pc = "used", !.used = now])
  /\ UNCHANGED <<source, disk>>

Next ==
  \/ \E f \in File, v \in Version : ChangeFile(f, v)
  \/ \E r \in Run :
       \/ Start(r) \/ Identify(r) \/ Reuse(r) \/ Compare(r) \/ Inspect(r)
       \/ CreateLock(r) \/ WritePid(r) \/ FindLock(r) \/ BreakLock(r)
       \/ Stage(r) \/ WriteArtifacts(r) \/ Validate(r) \/ Publish(r) \/ PointLatest(r) \/ CleanUp(r)
       \/ Release(r) \/ Fail(r) \/ Die(r) \/ Use(r)

Spec == Init /\ [][Next]_vars

-----------------------------------------------------------------------------
(* Properties *)

\* What latest.json names is there and whole, whoever died: every partition holds the
\* profiles of the files whose windows lie in it, one of each, as they were together at
\* some moment (files that came or went since the listing aside).
LatestTellsTruth ==
  latest # None =>
    /\ generation[latest] # None
    /\ LET g == generation[latest]
           files == DOMAIN g.dataset
       IN  \E m \in moments : g.parts = [k \in PartitionsOf(files) |-> RowsOf(k, files, m)]

\* A handle that passed its validation describes the source as it was then, reused or
\* published, though the fingerprint of the dataset and the profiles are read apart.
HandleTellsTruth ==
  \A r \in Run : run[r].pc = "used" /\ generation[run[r].previous] # None =>
    ProfilesIn(run[r].previous) = run[r].used
=============================================================================
