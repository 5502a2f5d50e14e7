------------------------- MODULE DatasetTransaction -------------------------
(***************************************************************************)
(* A dataset directory and the runs that rebuild it: the transaction of    *)
(* runtime/transactions.py inside the run of a 0201 asset that uses it     *)
(* (runtime/runner.py, assets/a0201_curated/producer.py and                *)
(* runtime/metadata.py).                                                   *)
(*                                                                         *)
(* A run takes a snapshot of its sources (the probe), drops the output if  *)
(* the definition changed, skips if the metadata in the output says        *)
(* nothing changed, recovers the directories that earlier runs left,       *)
(* stages every part (linking unchanged parts from the current output),    *)
(* seals a manifest, and swaps the staged directory in by two renames with *)
(* the old one parked as a backup between them.  It then writes the        *)
(* metadata and the provenance of the manifest into the new output.        *)
(*                                                                         *)
(* Every rename, link and removal of a directory is a step, so that a run  *)
(* can die, and another one can look, between any two of them.  A removal  *)
(* of a directory tree can be seen half done.                              *)
(***************************************************************************)
EXTENDS Naturals

CONSTANTS
  Run,          \* the runs; each is used once, as its transaction id is
  Part,         \* the tasks of the asset, one output part each
  Definition,   \* the contents the definition file can have
  MaxVersion,   \* bound: how often a source is replaced
  Exclusive,    \* TRUE: a run starts only when no other run is alive
  Absent        \* no such file or directory

Version == 1 .. MaxVersion

\* What a part is computed from, and so what its fingerprint identifies.
Content == Definition \X Version

\* The snapshot a run works from: its definition and a version per source.
Plan == [defn : Definition, source : [Part -> Version]]

Product(pl, p) == <<pl.defn, pl.source[p]>>

(***************************************************************************)
(* A dataset directory: its part files, the parts its manifest lists with  *)
(* their checksums, the metadata written into it, and whether the          *)
(* provenance section of the manifest matches that metadata.               *)
(***************************************************************************)
Files == [Part -> Content \cup {Absent}]

Dir == [parts : Files, manifest : Files \cup {Absent},
        meta : Plan \cup {Absent}, sealed : BOOLEAN]

NoFiles == [p \in Part |-> Absent]

EmptyDir == [parts |-> NoFiles, manifest |-> Absent, meta |-> Absent, sealed |-> FALSE]

ASSUME AbsentAssumption ==
  Absent \notin Dir /\ Absent \notin Files /\ Absent \notin Content /\ Absent \notin Plan

ASSUME ConstantsAssumption ==
  Exclusive \in BOOLEAN /\ MaxVersion \in Nat \ {0} /\ Definition # {}

VARIABLES
  source,      \* [Part -> Version]: the source files on disk
  definition,  \* the definition file on disk
  final,       \* final_root
  staging,     \* staging[r]: the directory .name.txn-r
  backup,      \* backup[r]: the directory .name.backup-r
  swap,        \* swap[r]: the directory .name.copy-r of a cross-device commit
  pc,          \* where each run is
  plan,        \* plan[r]: the snapshot the run works from
  known,       \* known[r]: the previous metadata as the run last read it
  opened,      \* opened[r]: tasks whose worker accepted its source file
  finished     \* finished[r]: tasks that returned an ok result

dirs == <<final, staging, backup, swap>>
run == <<plan, known, opened, finished>>
vars == <<source, definition, dirs, pc, run>>

\* Where a run can be, in the order of the code.
BeforeRecovery == {"load", "reset", "fingerprint", "validate", "recover"}
Building == {"create", "link", "build"}
Committing == {"seal", "move", "install", "swap", "dropsource", "drop", "restore"}
Recording == {"write1", "seal1", "write2", "seal2"}
Ended == {"done", "failed", "dead"}

Alive == BeforeRecovery \cup {"sweep"} \cup Building \cup Committing \cup Recording \cup {"abort"}

IsAlive(r) == pc[r] \in Alive

Goto(r, from, to) == pc[r] = from /\ pc' = [pc EXCEPT ![r] = to]

TypeOK ==
  /\ source \in [Part -> Version]
  /\ definition \in Definition
  /\ final \in Dir \cup {Absent}
  /\ staging \in [Run -> Dir \cup {Absent}]
  /\ backup \in [Run -> Dir \cup {Absent}]
  /\ swap \in [Run -> Dir \cup {Absent}]
  /\ pc \in [Run -> Alive \cup Ended \cup {"idle"}]
  /\ plan \in [Run -> Plan]
  /\ known \in [Run -> Plan \cup {Absent}]
  /\ opened \in [Run -> SUBSET Part]
  /\ finished \in [Run -> SUBSET Part]

Init ==
  /\ source = [p \in Part |-> 1]
  /\ definition \in Definition
  /\ final = Absent
  /\ staging = [r \in Run |-> Absent]
  /\ backup = [r \in Run |-> Absent]
  /\ swap = [r \in Run |-> Absent]
  /\ pc = [r \in Run |-> "idle"]
  /\ plan = [r \in Run |-> [defn |-> definition, source |-> source]]
  /\ known = [r \in Run |-> Absent]
  /\ opened = [r \in Run |-> {}]
  /\ finished = [r \in Run |-> {}]

-----------------------------------------------------------------------------
(* Reading and damaging directories *)

\* The metadata found in a directory, or none.
MetaOf(d) == IF d = Absent THEN Absent ELSE d.meta

\* mkdir(parents=True, exist_ok=True): a writer finds or makes the directory.
Ensured(d) == IF d = Absent THEN EmptyDir ELSE d

\* validate_committed_dataset: a manifest, every listed part as listed, and
\* a provenance section that matches the metadata in the directory.
Valid(d) ==
  /\ d.manifest # Absent
  /\ \A p \in Part : d.manifest[p] # Absent => d.parts[p] = d.manifest[p]
  /\ d.meta # Absent
  /\ d.sealed

\* The directory with only the parts in keep, and perhaps without its
\* manifest or its metadata: a removal of the tree that is under way.
Remnant(d, keep, m, x) ==
  [d EXCEPT !.parts = [p \in Part |-> IF p \in keep THEN d.parts[p] ELSE Absent],
            !.manifest = m, !.meta = x]

-----------------------------------------------------------------------------
(* The world around the runs *)

\* An upstream asset replaces a source file.
ReplaceSource(p) ==
  /\ source[p] < MaxVersion
  /\ source' = [source EXCEPT ![p] = @ + 1]
  /\ UNCHANGED <<definition, dirs, pc, run>>

\* The definition file is edited.
EditDefinition ==
  /\ definition' \in Definition \ {definition}
  /\ UNCHANGED <<source, dirs, pc, run>>

-----------------------------------------------------------------------------
(* From the start of a run to its transaction *)

\* run_pipeline_yaml loads the definition and publishes the probe of its
\* sources: the snapshot that every later check compares with.
Start(r) ==
  /\ Exclusive => \A s \in Run : ~IsAlive(s)
  /\ Goto(r, "idle", "load")
  /\ plan' = [plan EXCEPT ![r] = [defn |-> definition, source |-> source]]
  /\ UNCHANGED <<source, definition, dirs, known, opened, finished>>

\* _reset_reason: metadata written for another definition.
DefinitionChanged(r) ==
  MetaOf(final) # Absent /\ MetaOf(final).defn # plan[r].defn

KeepOutputs(r) ==
  /\ Goto(r, "load", "fingerprint")
  /\ ~DefinitionChanged(r)
  /\ UNCHANGED <<source, definition, dirs, run>>

\* _reset_pipeline_outputs: first the metadata goes, then the sink's tree.
BeginReset(r) ==
  /\ Goto(r, "load", "reset")
  /\ DefinitionChanged(r)
  /\ \E keep \in SUBSET Part, m \in {final.manifest, Absent} :
       final' = Remnant(final, keep, m, Absent)
  /\ UNCHANGED <<source, definition, staging, backup, swap, run>>

FinishReset(r) ==
  /\ Goto(r, "reset", "fingerprint")
  /\ final' = Absent
  /\ UNCHANGED <<source, definition, staging, backup, swap, run>>

\* Mutant of Fingerprint: the fingerprint leaves out the sources.
FingerprintOfDefinition(r) ==
  /\ source = plan[r].source
  /\ Goto(r, "fingerprint",
          IF MetaOf(final) # Absent /\ MetaOf(final).defn = plan[r].defn THEN "validate" ELSE "recover")
  /\ UNCHANGED <<source, definition, dirs, run>>

\* The producer validates the probe against the sources it discovers, hashes
\* them with the plan, and compares with the metadata in the output.
Fingerprint(r) ==
  /\ source = plan[r].source
  /\ Goto(r, "fingerprint", IF MetaOf(final) = plan[r] THEN "validate" ELSE "recover")
  /\ UNCHANGED <<source, definition, dirs, run>>

\* Either check of the probe finds a changed source: the run raises.
SourceChanged(r) ==
  /\ source # plan[r].source
  /\ Goto(r, "fingerprint", "failed") \/ Goto(r, "create", "failed")
  /\ UNCHANGED <<source, definition, dirs, run>>

\* _maybe_skip_unchanged: the output is reused if it validates.
ValidateUnchanged(r) ==
  /\ Goto(r, "validate", IF final # Absent /\ Valid(final) THEN "write1" ELSE "recover")
  /\ UNCHANGED <<source, definition, dirs, run>>

\* recover_orphan_transactions removes every staging directory it finds,
RemoveStaging(r, s) ==
  /\ Goto(r, "recover", "recover")
  /\ staging[s] # Absent
  /\ staging' = [staging EXCEPT ![s] = Absent]
  /\ UNCHANGED <<source, definition, final, backup, swap, run>>

\* Mutant of RestoreBackup: a missing output is not restored.
NothingRestored(r) ==
  /\ Goto(r, "recover", "sweep")
  /\ \A s \in Run : staging[s] = Absent
  /\ UNCHANGED <<source, definition, dirs, run>>

\* moves the last backup in the order of the random ids, so any one, back
\* to an output that is missing,
RestoreBackup(r) ==
  /\ Goto(r, "recover", "sweep")
  /\ \A s \in Run : staging[s] = Absent
  /\ \/ /\ final = Absent
        /\ \E s \in Run : /\ backup[s] # Absent
                          /\ final' = backup[s]
                          /\ backup' = [backup EXCEPT ![s] = Absent]
     \/ /\ final # Absent \/ \A s \in Run : backup[s] = Absent
        /\ UNCHANGED <<final, backup>>
  /\ UNCHANGED <<source, definition, staging, swap, run>>

\* and removes the other backups.
SweepBackup(r, s) ==
  /\ Goto(r, "sweep", "sweep")
  /\ backup[s] # Absent
  /\ backup' = [backup EXCEPT ![s] = Absent]
  /\ UNCHANGED <<source, definition, final, staging, swap, run>>

EndRecovery(r) ==
  /\ Goto(r, "sweep", "create")
  /\ \A s \in Run : backup[s] = Absent
  /\ UNCHANGED <<source, definition, dirs, run>>

\* Mutant of EraseBackup: the backup goes before the new output is in place.
EraseBackupEarly(r, s) ==
  /\ pc[r] \in {"install", "drop"} /\ s = r
  /\ backup[s] # Absent
  /\ backup' = [backup EXCEPT ![s] = Remnant(@, {}, Absent, Absent)]
  /\ UNCHANGED <<source, definition, final, staging, swap, pc, run>>

\* A backup is being removed: during recovery, after an install, on abort.
EraseBackup(r, s) ==
  /\ \/ pc[r] = "sweep"
     \/ pc[r] = "drop" /\ s = r
     \/ pc[r] = "abort" /\ s = r /\ final # Absent
  /\ backup[s] # Absent
  /\ \E keep \in SUBSET Part, m \in {backup[s].manifest, Absent}, x \in {backup[s].meta, Absent} :
       backup' = [backup EXCEPT ![s] = Remnant(@, keep, m, x)]
  /\ UNCHANGED <<source, definition, final, staging, swap, pc, run>>

-----------------------------------------------------------------------------
(* Staging the parts *)

\* The previous part fingerprints are read, the probe is checked against the
\* sources once more, and DatasetTransaction.create makes the directory.
Create(r) ==
  /\ source = plan[r].source
  /\ Goto(r, "create", "link")
  /\ known' = [known EXCEPT ![r] = MetaOf(final)]
  /\ staging' = [staging EXCEPT ![r] = EmptyDir]
  /\ UNCHANGED <<source, definition, final, backup, swap, plan, opened, finished>>

\* Mutant of Reusable: the fingerprint of a part leaves out the definition.
ReusableForAnyDefinition(r, p) ==
  /\ known[r] # Absent
  /\ known[r].source[p] = plan[r].source[p]
  /\ final # Absent
  /\ final.parts[p] # Absent

\* A part whose fingerprint is unchanged and whose file is in the output.
Reusable(r, p) ==
  /\ known[r] # Absent
  /\ Product(known[r], p) = Product(plan[r], p)
  /\ final # Absent
  /\ final.parts[p] # Absent

\* _stage_reusable_coordinate_tasks links them into the staging directory.
LinkReusable(r) ==
  /\ Goto(r, "link", "build")
  /\ LET reused == {p \in Part : Reusable(r, p)} IN
       /\ finished' = [finished EXCEPT ![r] = reused]
       /\ staging' = [staging EXCEPT ![r] =
            IF reused = {} THEN @
            ELSE [Ensured(@) EXCEPT !.parts =
                    [p \in Part |-> IF p \in reused THEN final.parts[p] ELSE Ensured(staging[r]).parts[p]]]]
  /\ UNCHANGED <<source, definition, final, backup, swap, plan, known, opened>>

\* A worker compares its source file with the snapshot before it reads it.
OpenSource(r, p) ==
  /\ Goto(r, "build", "build")
  /\ p \notin finished[r] \cup opened[r]
  /\ source[p] = plan[r].source[p]
  /\ opened' = [opened EXCEPT ![r] = @ \cup {p}]
  /\ UNCHANGED <<source, definition, dirs, plan, known, finished>>

\* It reads what is on disk then, and makes the directories it writes to.
WritePart(r, p) ==
  /\ Goto(r, "build", "build")
  /\ p \in opened[r]
  /\ staging' = [staging EXCEPT ![r] =
       [Ensured(@) EXCEPT !.parts[p] = <<plan[r].defn, source[p]>>]]
  /\ opened' = [opened EXCEPT ![r] = @ \ {p}]
  /\ finished' = [finished EXCEPT ![r] = @ \cup {p}]
  /\ UNCHANGED <<source, definition, final, backup, swap, plan, known>>

\* Mutants of BeginCommit: failed tasks are overlooked, or the last check of
\* the probe is.
BeginCommitIncomplete(r) ==
  /\ finished[r] # {}
  /\ source = plan[r].source
  /\ Goto(r, "build", "seal")
  /\ UNCHANGED <<source, definition, dirs, run>>

BeginCommitUnchecked(r) ==
  /\ finished[r] = Part
  /\ Goto(r, "build", "seal")
  /\ UNCHANGED <<source, definition, dirs, run>>

\* Every task is ok and the probe still matches: the transaction commits.
BeginCommit(r) ==
  /\ finished[r] = Part
  /\ source = plan[r].source
  /\ Goto(r, "build", "seal")
  /\ UNCHANGED <<source, definition, dirs, run>>

\* A changed source, a failed task, an invalid part: the run aborts.
BuildFails(r) ==
  /\ Goto(r, "build", "abort") \/ Goto(r, "seal", "abort")
  /\ UNCHANGED <<source, definition, dirs, run>>

-----------------------------------------------------------------------------
(* DatasetTransaction.commit and abort *)

\* _validate_and_write_manifest lists the parts that are there.
Seal(r) ==
  /\ Goto(r, "seal", "move")
  /\ staging' = [staging EXCEPT ![r] =
       [Ensured(@) EXCEPT !.manifest = Ensured(staging[r]).parts, !.sealed = FALSE]]
  /\ UNCHANGED <<source, definition, final, backup, swap, run>>

MoveExisting(r) ==
  /\ Goto(r, "move", "install")
  /\ final' = Absent
  /\ backup' = IF final # Absent THEN [backup EXCEPT ![r] = final] ELSE backup
  /\ UNCHANGED <<source, definition, staging, swap, run>>

\* The second rename needs a free target.
Install(r) ==
  /\ staging[r] # Absent /\ final = Absent
  /\ Goto(r, "install", "drop")
  /\ final' = staging[r]
  /\ staging' = [staging EXCEPT ![r] = Absent]
  /\ UNCHANGED <<source, definition, backup, swap, run>>

\* EXDEV: _copy_verify_swap copies the tree beside the target,
CopyAcross(r) ==
  /\ staging[r] # Absent
  /\ Goto(r, "install", "swap")
  /\ swap' = [swap EXCEPT ![r] = staging[r]]
  /\ UNCHANGED <<source, definition, final, staging, backup, run>>

\* renames the copy,
InstallCopy(r) ==
  /\ swap[r] # Absent /\ final = Absent
  /\ Goto(r, "swap", "dropsource")
  /\ final' = swap[r]
  /\ swap' = [swap EXCEPT ![r] = Absent]
  /\ UNCHANGED <<source, definition, staging, backup, run>>

\* Mutant of DropCopied: the source stays.
KeepCopied(r) ==
  /\ Goto(r, "dropsource", "drop")
  /\ UNCHANGED <<source, definition, dirs, run>>

\* and removes the source.
DropCopied(r) ==
  /\ Goto(r, "dropsource", "drop")
  /\ staging' = [staging EXCEPT ![r] = Absent]
  /\ UNCHANGED <<source, definition, final, backup, swap, run>>

\* An error of a rename, of the copy or of its verification.
InstallFails(r) ==
  /\ \E from \in {"move", "install", "swap", "dropsource"} : Goto(r, from, "restore")
  /\ swap' = [swap EXCEPT ![r] = Absent]
  /\ UNCHANGED <<source, definition, final, staging, backup, run>>

\* The backup of run r goes back if the output is missing.
PutBack(r) ==
  /\ final = Absent /\ backup[r] # Absent
  /\ final' = backup[r]
  /\ backup' = [backup EXCEPT ![r] = Absent]

\* The except clause of commit.
RestoreExisting(r) ==
  /\ Goto(r, "restore", "abort")
  /\ \/ PutBack(r)
     \/ /\ final # Absent \/ backup[r] = Absent
        /\ UNCHANGED <<final, backup>>
  /\ UNCHANGED <<source, definition, staging, swap, run>>

DropBackup(r) ==
  /\ Goto(r, "drop", "write1")
  /\ backup' = [backup EXCEPT ![r] = Absent]
  /\ UNCHANGED <<source, definition, final, staging, swap, run>>

\* The removal of the backup fails after the output was installed.
DropFails(r) ==
  /\ Goto(r, "drop", "abort")
  /\ UNCHANGED <<source, definition, dirs, run>>

\* Mutant of Abort: the backup goes back whatever the output is.
AbortRestoresAlways(r) ==
  /\ Goto(r, "abort", "failed")
  /\ staging' = [staging EXCEPT ![r] = Absent]
  /\ final' = IF backup[r] # Absent THEN backup[r] ELSE final
  /\ backup' = [backup EXCEPT ![r] = Absent]
  /\ UNCHANGED <<source, definition, swap, run>>

Abort(r) ==
  /\ Goto(r, "abort", "failed")
  /\ staging' = [staging EXCEPT ![r] = Absent]
  /\ \/ PutBack(r)
     \/ /\ final # Absent \/ backup[r] = Absent
        /\ backup' = [backup EXCEPT ![r] = Absent]
        /\ UNCHANGED final
  /\ UNCHANGED <<source, definition, swap, run>>

-----------------------------------------------------------------------------
(* Recording the run in its output: write_metadata, by the producer and    *)
(* then by the runner                                                      *)

\* Mutant of WriteMetadata: the fingerprint of the sources is not recorded.
WriteDefinition(r) ==
  /\ Goto(r, "write1", "seal1") \/ Goto(r, "write2", "seal2")
  /\ final' = [Ensured(final) EXCEPT !.meta = [defn |-> plan[r].defn], !.sealed = FALSE]
  /\ UNCHANGED <<source, definition, staging, backup, swap, run>>

WriteMetadata(r) ==
  /\ Goto(r, "write1", "seal1") \/ Goto(r, "write2", "seal2")
  /\ final' = [Ensured(final) EXCEPT !.meta = plan[r], !.sealed = FALSE]
  /\ UNCHANGED <<source, definition, staging, backup, swap, run>>

\* refresh_dataset_manifest_provenance, a no-op without a manifest.
RefreshProvenance(r) ==
  /\ Goto(r, "seal1", "write2") \/ Goto(r, "seal2", "done")
  /\ final' = IF MetaOf(final) # Absent /\ final.manifest # Absent
              THEN [final EXCEPT !.sealed = TRUE] ELSE final
  /\ UNCHANGED <<source, definition, staging, backup, swap, run>>

\* The process is killed, or an error escapes outside the try block of the
\* transaction: nothing else happens in this run.
Die(r) ==
  /\ IsAlive(r)
  /\ pc' = [pc EXCEPT ![r] = "dead"]
  /\ UNCHANGED <<source, definition, dirs, run>>

-----------------------------------------------------------------------------

Prepare(r) ==
  \/ KeepOutputs(r) \/ BeginReset(r) \/ FinishReset(r)
  \/ Fingerprint(r) \/ SourceChanged(r) \/ ValidateUnchanged(r)

Recover(r) ==
  \/ \E s \in Run : RemoveStaging(r, s)
  \/ RestoreBackup(r)
  \/ \E s \in Run : SweepBackup(r, s)
  \/ EndRecovery(r)
  \/ \E s \in Run : EraseBackup(r, s)

Build(r) ==
  \/ Create(r) \/ LinkReusable(r)
  \/ \E p \in Part : OpenSource(r, p) \/ WritePart(r, p)
  \/ BeginCommit(r) \/ BuildFails(r)

Commit(r) ==
  \/ Seal(r) \/ MoveExisting(r) \/ Install(r)
  \/ CopyAcross(r) \/ InstallCopy(r) \/ DropCopied(r)
  \/ InstallFails(r) \/ RestoreExisting(r)
  \/ DropBackup(r) \/ DropFails(r) \/ Abort(r)

Record(r) == WriteMetadata(r) \/ RefreshProvenance(r)

Step(r) == Prepare(r) \/ Recover(r) \/ Build(r) \/ Commit(r) \/ Record(r)

Next ==
  \/ \E p \in Part : ReplaceSource(p)
  \/ EditDefinition
  \/ \E r \in Run : Start(r) \/ Step(r) \/ Die(r)

Spec == Init /\ [][Next]_vars

\* A run that is not killed goes on: it is a sequential program that waits
\* for nobody.  Nothing makes a run start, die, fail or find EXDEV.
Fairness == \A r \in Run : WF_vars(Step(r))

FairSpec == Spec /\ Fairness

-----------------------------------------------------------------------------
(* Properties *)

Whole(d) == d # Absent /\ d.manifest # Absent /\ \A p \in Part : d.parts[p] # Absent

\* The output is complete before it gets its final name: whatever a reader
\* finds under final_root has a manifest and every part, whichever run died
\* between two steps of recovery, commit or abort (README.md:50).
NoIncompleteExposure == final # Absent => Whole(final)

\* Recovery never turns a half removed backup into the output: while there is
\* no output, every backup that recover_orphan_transactions could restore is
\* a whole dataset.
RestorableIsWhole ==
  final = Absent => \A r \in Run : backup[r] # Absent => Whole(backup[r])

\* What readers find, or a recovery would give them, is whole.
OutputIsWhole == NoIncompleteExposure /\ RestorableIsWhole

\* The metadata in the output tells the truth about the parts beside it, so
\* that the skip of a run and the reuse of its parts, which trust it, never
\* keep a part that was computed from something else: not after a crash
\* between the swap and write_metadata, nor after a restored backup, nor when
\* a source changed between a worker's check and its read.
MetadataTellsTruth ==
  MetaOf(final) # Absent =>
    \A p \in Part : final.parts[p] \in {Absent, Product(final.meta, p)}

\* A run that skips leaves an output that is what it would have computed.
SkipIsSound ==
  [][\A r \in Run : pc[r] = "validate" /\ pc'[r] = "write1" =>
       \A p \in Part : final.parts[p] = Product(plan[r], p)]_vars

\* A run that has committed leaves no staging directory and no backup of any
\* earlier run behind, however those runs ended.
CleanAfterCommit ==
  \A r \in Run : pc[r] \in Recording /\ finished[r] = Part =>
    \A s \in Run : staging[s] = Absent /\ backup[s] = Absent

\* What readers can get at, now or after a recovery: the parts of a whole
\* output, or of the backup recovery would restore.
Contents ==
  CASE Whole(final) -> final.parts
    [] final = Absent /\ \E r \in Run : Whole(backup[r]) ->
         backup[CHOOSE r \in Run : Whole(backup[r])].parts
    [] OTHER -> Absent

Atomic == INSTANCE AtomicDataset WITH contents <- Contents

\* Runs that do not overlap implement a dataset that changes in one step: from
\* one snapshot of the sources to a later one, and to nothing at all only when
\* the definition changed.
ImplementsAtomicDataset == Atomic!Spec

\* Once a run that finds the output missing and a backup to restore gets to
\* recovery, readers get an output back unless the run is killed first.
RestoresIn(r) ==
  pc[r] = "recover" /\ final = Absent /\ (\E s \in Run : backup[s] # Absent)
    ~> final # Absent \/ pc[r] = "dead"

\* Every run restores what it finds (the liveness of recover_orphan_transactions).
RecoveryRestores == \A r \in Run : RestoresIn(r)
=============================================================================
