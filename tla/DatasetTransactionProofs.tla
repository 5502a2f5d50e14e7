---------------------- MODULE DatasetTransactionProofs ----------------------
(***************************************************************************)
(* Theorems about the dataset transaction, for any runs, parts, versions   *)
(* and definitions.                                                        *)
(***************************************************************************)
EXTENDS DatasetTransaction, TLAPS

-----------------------------------------------------------------------------
(* Directories *)

\* A directory is what its four fields say.
LEMMA DirFields ==
  ASSUME NEW d \in Dir
  PROVE  /\ d.parts \in Files
         /\ d.manifest \in Files \cup {Absent}
         /\ d.meta \in Plan \cup {Absent}
         /\ d.sealed \in BOOLEAN
         /\ d # Absent
  BY AbsentAssumption DEF Dir

LEMMA EmptyDirType == EmptyDir \in Dir /\ EmptyDir # Absent
  <1>1. NoFiles \in Files
    BY DEF NoFiles, Files
  <1>2. EmptyDir \in Dir
    BY <1>1 DEF EmptyDir, Dir
  <1> QED BY <1>2, AbsentAssumption

\* mkdir gives a directory whatever was there.
LEMMA EnsuredType ==
  ASSUME NEW d \in Dir \cup {Absent}
  PROVE  Ensured(d) \in Dir /\ Ensured(d) # Absent
  BY EmptyDirType, AbsentAssumption DEF Ensured

\* What a removal leaves is a directory still.
LEMMA RemnantType ==
  ASSUME NEW d \in Dir, NEW keep \in SUBSET Part,
         NEW m \in Files \cup {Absent}, NEW x \in Plan \cup {Absent}
  PROVE  Remnant(d, keep, m, x) \in Dir /\ Remnant(d, keep, m, x) # Absent
  <1>1. [p \in Part |-> IF p \in keep THEN d.parts[p] ELSE Absent] \in Files
    BY DirFields DEF Files
  <1>2. Remnant(d, keep, m, x) \in Dir
    BY <1>1 DEF Remnant, Dir
  <1> QED BY <1>2, AbsentAssumption

\* Replacing one field.
LEMMA WithParts ==
  ASSUME NEW d \in Dir, NEW f \in Files
  PROVE  /\ [d EXCEPT !.parts = f] \in Dir
         /\ [d EXCEPT !.parts = f].parts = f
        /\ [d EXCEPT !.parts = f].manifest = d.manifest
        /\ [d EXCEPT !.parts = f].meta = d.meta
  BY DEF Dir

LEMMA WithManifest ==
  ASSUME NEW d \in Dir, NEW f \in Files
  PROVE  /\ [d EXCEPT !.manifest = f, !.sealed = FALSE] \in Dir
         /\ [d EXCEPT !.manifest = f, !.sealed = FALSE].parts = d.parts
         /\ [d EXCEPT !.manifest = f, !.sealed = FALSE].manifest = f
        /\ [d EXCEPT !.manifest = f, !.sealed = FALSE].meta = d.meta
  BY DEF Dir

LEMMA WithMetadata ==
  ASSUME NEW d \in Dir, NEW x \in Plan
  PROVE  /\ [d EXCEPT !.meta = x, !.sealed = FALSE] \in Dir
         /\ [d EXCEPT !.meta = x, !.sealed = FALSE].parts = d.parts
         /\ [d EXCEPT !.meta = x, !.sealed = FALSE].manifest = d.manifest
        /\ [d EXCEPT !.meta = x, !.sealed = FALSE].meta = x
  BY DEF Dir

LEMMA WithSeal ==
  ASSUME NEW d \in Dir
  PROVE  /\ [d EXCEPT !.sealed = TRUE] \in Dir
         /\ [d EXCEPT !.sealed = TRUE].parts = d.parts
         /\ [d EXCEPT !.sealed = TRUE].manifest = d.manifest
        /\ [d EXCEPT !.sealed = TRUE].meta = d.meta
  BY DEF Dir

\* A worker writes one part.
LEMMA WithPart ==
  ASSUME NEW d \in Dir, NEW p \in Part, NEW c \in Content
  PROVE  /\ [d EXCEPT !.parts[p] = c] \in Dir
         /\ [d EXCEPT !.parts[p] = c].parts = [d.parts EXCEPT ![p] = c]
        /\ [d EXCEPT !.parts[p] = c].manifest = d.manifest
        /\ [d EXCEPT !.parts[p] = c].meta = d.meta
  <1>1. [d.parts EXCEPT ![p] = c] \in Files
    BY DirFields DEF Files
  <1> QED BY <1>1 DEF Dir

-----------------------------------------------------------------------------
(* Type correctness *)

LEMMA InitType == Init => TypeOK
  <1> SUFFICES ASSUME Init PROVE TypeOK
    OBVIOUS
  <1>1. source \in [Part -> Version]
    BY ConstantsAssumption DEF Init, Version
  <1> QED BY <1>1 DEF Init, TypeOK, Plan

\* Each group of actions keeps the types.
LEMMA PrepareType ==
  ASSUME TypeOK, NEW r \in Run, Start(r) \/ Prepare(r) \/ Die(r)
  PROVE  TypeOK'
  <1> USE DEF TypeOK, Goto, Alive, Ended, BeforeRecovery, Building, Committing, Recording
  <1>1. CASE Start(r)
    BY <1>1 DEF Start, dirs, Plan
  <1>2. CASE KeepOutputs(r)
    BY <1>2 DEF KeepOutputs, dirs, run
  <1>3. CASE BeginReset(r)
    <2>1. final \in Dir
      BY <1>3 DEF BeginReset, DefinitionChanged, MetaOf
    <2>2. final' \in Dir
      BY <1>3, <2>1, RemnantType, DirFields DEF BeginReset
    <2> QED BY <1>3, <2>2 DEF BeginReset, run
  <1>4. CASE FinishReset(r)
    BY <1>4 DEF FinishReset, run
  <1>5. CASE Fingerprint(r)
    BY <1>5 DEF Fingerprint, dirs, run
  <1>6. CASE SourceChanged(r)
    BY <1>6 DEF SourceChanged, dirs, run
  <1>7. CASE ValidateUnchanged(r)
    BY <1>7 DEF ValidateUnchanged, dirs, run
  <1>8. CASE Die(r)
    BY <1>8 DEF Die, dirs, run
  <1> QED BY <1>1, <1>2, <1>3, <1>4, <1>5, <1>6, <1>7, <1>8 DEF Prepare

LEMMA RecoverType ==
  ASSUME TypeOK, NEW r \in Run, Recover(r)
  PROVE  TypeOK'
  <1> USE DEF TypeOK, Goto, Alive, Ended, BeforeRecovery, Building, Committing, Recording
  <1>1. CASE \E s \in Run : RemoveStaging(r, s)
    BY <1>1 DEF RemoveStaging, run
  <1>2. CASE RestoreBackup(r)
    BY <1>2 DEF RestoreBackup, run
  <1>3. CASE \E s \in Run : SweepBackup(r, s)
    BY <1>3 DEF SweepBackup, run
  <1>4. CASE EndRecovery(r)
    BY <1>4 DEF EndRecovery, dirs, run
  <1>5. CASE \E s \in Run : EraseBackup(r, s)
    <2>1. PICK s \in Run : EraseBackup(r, s)
      BY <1>5
    <2>2. backup[s] \in Dir
      BY <2>1 DEF EraseBackup
    <2>3. \E d \in Dir : backup' = [backup EXCEPT ![s] = d]
      BY <2>1, <2>2, RemnantType, DirFields DEF EraseBackup
    <2> QED BY <2>1, <2>3 DEF EraseBackup, run
  <1> QED BY <1>1, <1>2, <1>3, <1>4, <1>5 DEF Recover

LEMMA BuildType ==
  ASSUME TypeOK, NEW r \in Run, Build(r)
  PROVE  TypeOK'
  <1> USE DEF TypeOK, Goto, Alive, Ended, BeforeRecovery, Building, Committing, Recording
  <1>1. CASE Create(r)
    <2>1. MetaOf(final) \in Plan \cup {Absent}
      BY DirFields DEF MetaOf
    <2> QED BY <1>1, <2>1, EmptyDirType DEF Create
  <1>2. CASE LinkReusable(r)
    <2> DEFINE reused == {p \in Part : Reusable(r, p)}
               linked == [p \in Part |-> IF p \in reused THEN final.parts[p]
                                        ELSE Ensured(staging[r]).parts[p]]
    <2>1. Ensured(staging[r]) \in Dir
      BY EnsuredType
    <2>2. CASE reused = {}
      <3>1. staging' = staging
        BY <1>2, <2>2 DEF LinkReusable
      <3> QED BY <1>2, <3>1 DEF LinkReusable
    <2>3. CASE reused # {}
      <3>1. final \in Dir
        BY <2>3 DEF Reusable
      <3>2. linked \in Files
        BY <2>1, <3>1, DirFields DEF Files
      <3>3. [Ensured(staging[r]) EXCEPT !.parts = linked] \in Dir
        BY <2>1, <3>2, WithParts
      <3>4. staging' = [staging EXCEPT ![r] = [Ensured(staging[r]) EXCEPT !.parts = linked]]
        BY <1>2, <2>3 DEF LinkReusable
      <3> QED BY <1>2, <3>3, <3>4 DEF LinkReusable
    <2> QED BY <2>2, <2>3
  <1>3. CASE \E p \in Part : OpenSource(r, p)
    BY <1>3 DEF OpenSource, dirs
  <1>4. CASE \E p \in Part : WritePart(r, p)
    <2>1. PICK p \in Part : WritePart(r, p)
      BY <1>4
    <2> DEFINE written == [Ensured(staging[r]) EXCEPT !.parts[p] = <<plan[r].defn, source[p]>>]
    <2>2. <<plan[r].defn, source[p]>> \in Content
      BY DEF Content, Plan
    <2>3. written \in Dir
      BY <2>2, EnsuredType, WithPart
    <2>4. staging' = [staging EXCEPT ![r] = written]
      BY <2>1 DEF WritePart
    <2> QED BY <2>1, <2>3, <2>4 DEF WritePart
  <1>5. CASE BeginCommit(r)
    BY <1>5 DEF BeginCommit, dirs, run
  <1>6. CASE BuildFails(r)
    BY <1>6 DEF BuildFails, dirs, run
  <1> QED BY <1>1, <1>2, <1>3, <1>4, <1>5, <1>6 DEF Build

LEMMA CommitType ==
  ASSUME TypeOK, NEW r \in Run, Commit(r)
  PROVE  TypeOK'
  <1> USE DEF TypeOK, Goto, Alive, Ended, BeforeRecovery, Building, Committing, Recording
  <1>1. CASE Seal(r)
    <2> DEFINE sealed == [Ensured(staging[r]) EXCEPT !.manifest = Ensured(staging[r]).parts,
                                                    !.sealed = FALSE]
    <2>1. sealed \in Dir
      BY EnsuredType, DirFields, WithManifest
    <2>2. staging' = [staging EXCEPT ![r] = sealed]
      BY <1>1 DEF Seal
    <2> QED BY <1>1, <2>1, <2>2 DEF Seal, run
  <1>2. CASE MoveExisting(r)
    BY <1>2 DEF MoveExisting, run
  <1>3. CASE Install(r)
    BY <1>3 DEF Install, run
  <1>4. CASE CopyAcross(r)
    BY <1>4 DEF CopyAcross, run
  <1>5. CASE InstallCopy(r)
    BY <1>5 DEF InstallCopy, run
  <1>6. CASE DropCopied(r)
    BY <1>6 DEF DropCopied, run
  <1>7. CASE InstallFails(r)
    BY <1>7 DEF InstallFails, run
  <1>8. CASE RestoreExisting(r)
    BY <1>8 DEF RestoreExisting, PutBack, run
  <1>9. CASE DropBackup(r)
    BY <1>9 DEF DropBackup, run
  <1>10. CASE DropFails(r)
    BY <1>10 DEF DropFails, dirs, run
  <1>11. CASE Abort(r)
    BY <1>11 DEF Abort, PutBack, run
  <1> QED BY <1>1, <1>2, <1>3, <1>4, <1>5, <1>6, <1>7, <1>8, <1>9, <1>10, <1>11 DEF Commit

LEMMA RecordType ==
  ASSUME TypeOK, NEW r \in Run, Record(r)
  PROVE  TypeOK'
  <1> USE DEF TypeOK, Goto, Alive, Ended, BeforeRecovery, Building, Committing, Recording
  <1>1. CASE WriteMetadata(r)
    <2>1. [Ensured(final) EXCEPT !.meta = plan[r], !.sealed = FALSE] \in Dir
      BY EnsuredType, WithMetadata
    <2> QED BY <1>1, <2>1 DEF WriteMetadata, run
  <1>2. CASE RefreshProvenance(r)
    <2>1. CASE MetaOf(final) # Absent /\ final.manifest # Absent
      <3>1. final \in Dir
        BY <2>1 DEF MetaOf
      <3>2. final' \in Dir
        BY <1>2, <2>1, <3>1, WithSeal DEF RefreshProvenance
      <3> QED BY <1>2, <3>2 DEF RefreshProvenance, run
    <2>2. CASE ~(MetaOf(final) # Absent /\ final.manifest # Absent)
      BY <1>2, <2>2 DEF RefreshProvenance, run
    <2> QED BY <2>1, <2>2
  <1> QED BY <1>1, <1>2 DEF Record

LEMMA NextType == TypeOK /\ [Next]_vars => TypeOK'
  <1> SUFFICES ASSUME TypeOK, [Next]_vars PROVE TypeOK'
    OBVIOUS
  <1>1. CASE \E p \in Part : ReplaceSource(p)
    <2>1. PICK p \in Part : ReplaceSource(p)
      BY <1>1
    <2>2. source[p] + 1 \in Version
      BY <2>1, ConstantsAssumption DEF ReplaceSource, TypeOK, Version
    <2> QED BY <2>1, <2>2 DEF ReplaceSource, TypeOK, dirs, run
  <1>2. CASE EditDefinition
    BY <1>2 DEF EditDefinition, TypeOK, dirs, run
  <1>3. CASE \E r \in Run : Start(r) \/ Step(r) \/ Die(r)
    BY <1>3, PrepareType, RecoverType, BuildType, CommitType, RecordType DEF Step
  <1>4. CASE UNCHANGED vars
    BY <1>4 DEF TypeOK, vars, dirs, run
  <1> QED BY <1>1, <1>2, <1>3, <1>4 DEF Next

\* Every state of the runs and the directories has its type: no operation
\* builds a directory tree, a snapshot or a program point of another shape.
THEOREM TypeCorrect == Spec => []TypeOK
  <1> QED BY InitType, NextType, PTL DEF Spec

-----------------------------------------------------------------------------
(* What readers see when runs do not overlap and the definition stays      *)

Alone == \A r, s \in Run : IsAlive(r) /\ IsAlive(s) => r = s

\* Recovery has restored what it can before it removes any backup, and has
\* removed them all before the transaction starts.
Swept(r) ==
  /\ pc[r] = "sweep" => final # Absent \/ \A s \in Run : backup[s] = Absent
  /\ pc[r] \in {"create", "link", "build", "seal", "move"} => \A s \in Run : backup[s] = Absent

\* The new output is in place before its backup goes.
Installed(r) == pc[r] \in {"dropsource", "drop"} \cup Recording => final # Absent

\* What a finished task wrote stays in the staging directory until it is
\* installed.
Staged(r) ==
  /\ pc[r] = "build" => \A p \in finished[r] : staging[r] # Absent /\ staging[r].parts[p] # Absent
  /\ pc[r] = "seal" => \A p \in Part : staging[r] # Absent /\ staging[r].parts[p] # Absent
  /\ pc[r] \in {"move", "install"} => Whole(staging[r])
  /\ pc[r] = "swap" => Whole(swap[r])

\* Where run r is, and what is then true of the directories.
RunInv(r) == pc[r] # "reset" /\ Swept(r) /\ Installed(r) /\ Staged(r)

\* NoIncompleteExposure is not inductive: what becomes visible next is in the
\* backups and in the staging directory.
ExposureInv == TypeOK /\ Alone /\ OutputIsWhole /\ \A r \in Run : RunInv(r)

LEMMA InitExposure == Init => ExposureInv
  <1> SUFFICES ASSUME Init PROVE ExposureInv
    OBVIOUS
  <1>1. \A r \in Run : pc[r] = "idle"
    BY DEF Init
  <1>2. Alone
    BY <1>1 DEF Alone, IsAlive, Alive, BeforeRecovery, Building, Committing, Recording
  <1>3. OutputIsWhole
    BY DEF Init, OutputIsWhole, NoIncompleteExposure, RestorableIsWhole
  <1>4. \A r \in Run : RunInv(r)
    BY <1>1 DEF RunInv, Swept, Installed, Staged, Recording
  <1> QED BY <1>2, <1>3, <1>4, InitType DEF ExposureInv

\* Only the run that is alive takes a step, and only its program point moves.
LEMMA StepIsOfAlive ==
  ASSUME TypeOK, NEW r \in Run, Step(r) \/ Die(r)
  PROVE  IsAlive(r) /\ \E x : pc' = [pc EXCEPT ![r] = x]
  <1> USE DEF IsAlive, Goto, Alive, BeforeRecovery, Building, Committing, Recording, TypeOK
  <1>1. CASE Prepare(r)
    BY <1>1 DEF Prepare, KeepOutputs, BeginReset, FinishReset, Fingerprint, SourceChanged,
                ValidateUnchanged
  <1>2. CASE Recover(r)
    <2>1. CASE \E s \in Run : EraseBackup(r, s)
      <3>1. IsAlive(r) /\ pc' = pc
        BY <2>1 DEF EraseBackup
      <3>2. pc' = [pc EXCEPT ![r] = pc[r]]
        BY <3>1
      <3> QED BY <3>1, <3>2
    <2> QED BY <1>2, <2>1 DEF Recover, RemoveStaging, RestoreBackup, SweepBackup, EndRecovery
  <1>3. CASE Build(r)
    BY <1>3 DEF Build, Create, LinkReusable, OpenSource, WritePart, BeginCommit, BuildFails
  <1>4. CASE Commit(r)
    BY <1>4 DEF Commit, Seal, MoveExisting, Install, CopyAcross, InstallCopy, DropCopied,
                InstallFails, RestoreExisting, DropBackup, DropFails, Abort
  <1>5. CASE Record(r)
    BY <1>5 DEF Record, WriteMetadata, RefreshProvenance
  <1>6. CASE Die(r)
    BY <1>6 DEF Die
  <1> QED BY <1>1, <1>2, <1>3, <1>4, <1>5, <1>6 DEF Step

\* So it is enough to look at the run that takes the step.
LEMMA OthersKeep ==
  ASSUME ExposureInv, NEW r \in Run, Step(r) \/ Die(r), TypeOK', OutputIsWhole', RunInv(r)'
  PROVE  ExposureInv'
  <1>1. PICK x : pc' = [pc EXCEPT ![r] = x]
    BY StepIsOfAlive DEF ExposureInv
  <1>2. \A s \in Run : s # r => pc'[s] = pc[s] /\ ~IsAlive(s)
    BY <1>1, StepIsOfAlive DEF ExposureInv, Alone, TypeOK
  <1>3. Alone'
    BY <1>2 DEF Alone, IsAlive
  <1>4. \A s \in Run : s # r => RunInv(s)'
    BY <1>2 DEF IsAlive, RunInv, Swept, Installed, Staged, Alive, BeforeRecovery, Building,
                Committing, Recording
  <1> QED BY <1>3, <1>4 DEF ExposureInv

LEMMA StartExposure ==
  ASSUME ExposureInv, Exclusive, NEW r \in Run, Start(r)
  PROVE  ExposureInv'
  <1>1. TypeOK'
    BY PrepareType DEF ExposureInv
  <1>2. /\ pc' = [pc EXCEPT ![r] = "load"]
        /\ \A s \in Run : ~IsAlive(s)
        /\ UNCHANGED dirs
    BY DEF Start, Goto, dirs
  <1>3. \A s \in Run : s # r => ~IsAlive(s)'
    BY <1>2 DEF IsAlive, ExposureInv, TypeOK
  <1>4. Alone'
    BY <1>3 DEF Alone
  <1>5. OutputIsWhole'
    BY <1>2 DEF ExposureInv, OutputIsWhole, NoIncompleteExposure, RestorableIsWhole, dirs
  <1>6. \A s \in Run : RunInv(s)'
    <2>1. pc'[r] = "load"
      BY <1>2 DEF ExposureInv, TypeOK
    <2>2. RunInv(r)'
      BY <2>1 DEF RunInv, Swept, Installed, Staged, Recording
    <2>3. ASSUME NEW s \in Run, s # r PROVE RunInv(s)'
      BY <1>3, <2>3 DEF IsAlive, RunInv, Swept, Installed, Staged, Alive, BeforeRecovery, Building,
                Committing, Recording
    <2> QED BY <2>2, <2>3
  <1> QED BY <1>1, <1>4, <1>5, <1>6 DEF ExposureInv

\* With one definition no metadata is of another one.
LEMMA NothingToReset ==
  ASSUME TypeOK, \A d, e \in Definition : d = e, NEW r \in Run
  PROVE  ~DefinitionChanged(r)
  <1>1. ASSUME MetaOf(final) # Absent PROVE MetaOf(final).defn = plan[r].defn
    <2>1. MetaOf(final) \in Plan
      BY <1>1, DirFields DEF TypeOK, MetaOf
    <2> QED BY <2>1 DEF TypeOK, Plan
  <1> QED BY <1>1 DEF DefinitionChanged

LEMMA PrepareExposure ==
  ASSUME ExposureInv, \A d, e \in Definition : d = e, NEW r \in Run, Prepare(r) \/ Die(r)
  PROVE  ExposureInv'
  <1>1. TypeOK'
    BY PrepareType DEF ExposureInv
  <1>2. ~BeginReset(r) /\ ~FinishReset(r)
    BY NothingToReset DEF ExposureInv, RunInv, BeginReset, FinishReset, Goto
  <1>3. /\ UNCHANGED <<final, backup>>
        /\ pc'[r] \in {"fingerprint", "validate", "recover", "failed", "write1", "dead"}
        /\ pc'[r] = "write1" => final # Absent
    BY <1>2 DEF Prepare, KeepOutputs, Fingerprint, SourceChanged, ValidateUnchanged, Die, Goto,
                dirs, ExposureInv, TypeOK
  <1>4. OutputIsWhole'
    BY <1>3 DEF ExposureInv, OutputIsWhole, NoIncompleteExposure, RestorableIsWhole
  <1>5. RunInv(r)'
    BY <1>3 DEF RunInv, Swept, Installed, Staged, Recording
  <1> QED BY <1>1, <1>4, <1>5, OthersKeep DEF Step

LEMMA RecoverExposure ==
  ASSUME ExposureInv, NEW r \in Run, Recover(r)
  PROVE  ExposureInv'
  <1>1. TypeOK'
    BY RecoverType DEF ExposureInv
  <1>2. TypeOK /\ OutputIsWhole /\ RunInv(r)
    BY DEF ExposureInv
  <1> USE DEF Goto, OutputIsWhole, NoIncompleteExposure, RestorableIsWhole
  <1>3. SUFFICES OutputIsWhole' /\ RunInv(r)'
    BY <1>1, OthersKeep DEF Step
  <1>4. CASE \E s \in Run : RemoveStaging(r, s)
    <2>1. UNCHANGED <<final, backup>> /\ pc'[r] = "recover"
      BY <1>2, <1>4 DEF RemoveStaging, TypeOK
    <2> QED BY <1>2, <2>1 DEF RunInv, Swept, Installed, Staged, Recording
  <1>5. CASE RestoreBackup(r)
    <2>1. pc'[r] = "sweep"
      BY <1>2, <1>5 DEF RestoreBackup, TypeOK
    <2>2. OutputIsWhole' /\ (final' # Absent \/ \A s \in Run : backup'[s] = Absent)
      BY <1>2, <1>5 DEF RestoreBackup, TypeOK, Whole
    <2> QED BY <2>1, <2>2 DEF RunInv, Swept, Installed, Staged, Recording
  <1>6. CASE \E s \in Run : SweepBackup(r, s)
    <2>1. pc'[r] = "sweep" /\ final' = final /\ pc[r] = "sweep"
      BY <1>2, <1>6 DEF SweepBackup, TypeOK
    <2>2. \A s \in Run : backup'[s] \in {backup[s], Absent}
      BY <1>2, <1>6 DEF SweepBackup, TypeOK
    <2> QED BY <1>2, <2>1, <2>2 DEF RunInv, Swept, Installed, Staged, Recording
  <1>7. CASE EndRecovery(r)
    <2>1. /\ UNCHANGED <<final, backup>> /\ pc'[r] = "create"
          /\ \A s \in Run : backup[s] = Absent
      BY <1>2, <1>7 DEF EndRecovery, TypeOK, dirs
    <2> QED BY <1>2, <2>1 DEF RunInv, Swept, Installed, Staged, Recording
  <1>8. CASE \E s \in Run : EraseBackup(r, s)
    <2>1. PICK s \in Run : EraseBackup(r, s)
      BY <1>8
    <2>2. /\ UNCHANGED <<final, staging, swap, pc, finished>>
          /\ pc[r] \in {"sweep", "drop", "abort"}
      BY <2>1 DEF EraseBackup, run
    <2>3. final # Absent
      BY <1>2, <2>1 DEF EraseBackup, RunInv, Swept, Installed
    <2> QED BY <1>2, <2>2, <2>3 DEF RunInv, Swept, Installed, Staged, Recording
  <1> QED BY <1>4, <1>5, <1>6, <1>7, <1>8 DEF Recover

LEMMA BuildExposure ==
  ASSUME ExposureInv, NEW r \in Run, Build(r)
  PROVE  ExposureInv'
  <1>1. TypeOK'
    BY BuildType DEF ExposureInv
  <1>2. TypeOK /\ OutputIsWhole /\ RunInv(r)
    BY DEF ExposureInv
  <1> USE DEF Goto
  <1>3. UNCHANGED <<final, backup>>
    BY DEF Build, Create, LinkReusable, OpenSource, WritePart, BeginCommit, BuildFails, dirs
  <1>4. OutputIsWhole'
    BY <1>2, <1>3 DEF OutputIsWhole, NoIncompleteExposure, RestorableIsWhole
  <1>5. /\ pc[r] \in {"create", "link", "build", "seal"}
        /\ pc'[r] \in {"link", "build", "seal", "abort"}
        /\ pc'[r] # "abort" => pc[r] # "seal"
    BY <1>2 DEF Build, Create, LinkReusable, OpenSource, WritePart, BeginCommit, BuildFails, TypeOK
  <1>6. Swept(r)' /\ Installed(r)'
    BY <1>2, <1>3, <1>5 DEF RunInv, Swept, Installed, Recording
  <1>7. SUFFICES Staged(r)'
    BY <1>1, <1>4, <1>5, <1>6, OthersKeep DEF Step, RunInv
  <1>8. CASE Create(r)
    BY <1>2, <1>8 DEF Create, Staged, TypeOK
  <1>9. CASE LinkReusable(r)
    <2> DEFINE reused == {p \in Part : Reusable(r, p)}
               linked == [p \in Part |-> IF p \in reused THEN final.parts[p]
                                        ELSE Ensured(staging[r]).parts[p]]
    <2>1. pc'[r] = "build" /\ finished'[r] = reused
      BY <1>2, <1>9 DEF LinkReusable, TypeOK
    <2>2. CASE reused = {}
      BY <2>1, <2>2 DEF Staged
    <2>3. CASE reused # {}
      <3>1. final \in Dir /\ Ensured(staging[r]) \in Dir
        BY <1>2, <2>3, EnsuredType DEF Reusable, TypeOK
      <3>2. linked \in Files
        BY <3>1, DirFields DEF Files
      <3>3. staging'[r] = [Ensured(staging[r]) EXCEPT !.parts = linked]
        BY <1>2, <1>9, <2>3 DEF LinkReusable, TypeOK
      <3>4. staging'[r] \in Dir /\ staging'[r].parts = linked
        BY <3>1, <3>2, <3>3, WithParts
      <3>5. \A p \in reused : linked[p] # Absent
        BY DEF Reusable
      <3> QED BY <2>1, <3>4, <3>5, DirFields DEF Staged
    <2> QED BY <2>2, <2>3
  <1>10. CASE \E p \in Part : OpenSource(r, p)
    BY <1>2, <1>10 DEF OpenSource, Staged, RunInv, TypeOK, dirs
  <1>11. CASE \E p \in Part : WritePart(r, p)
    <2>1. PICK p \in Part : WritePart(r, p)
      BY <1>11
    <2> DEFINE c == <<plan[r].defn, source[p]>>
               d == Ensured(staging[r])
    <2>2. c \in Content /\ c # Absent
      BY <1>2, AbsentAssumption DEF Content, Plan, TypeOK
    <2>3. d \in Dir
      BY <1>2, EnsuredType DEF TypeOK
    <2>4. staging'[r] = [d EXCEPT !.parts[p] = c]
      BY <1>2, <2>1 DEF WritePart, TypeOK
    <2>5. staging'[r] # Absent /\ staging'[r].parts = [d.parts EXCEPT ![p] = c]
      BY <2>2, <2>3, <2>4, WithPart, DirFields
    <2>6. /\ pc'[r] = "build" /\ pc[r] = "build"
          /\ finished'[r] = finished[r] \cup {p} /\ finished[r] \subseteq Part
      BY <1>2, <2>1 DEF WritePart, TypeOK
    <2>7. \A q \in finished[r] : d.parts[q] # Absent
      BY <1>2, <2>6 DEF RunInv, Staged, Ensured
    <2>8. \A q \in finished'[r] : staging'[r].parts[q] # Absent
      BY <2>2, <2>3, <2>5, <2>6, <2>7, DirFields DEF Files
    <2> QED BY <2>5, <2>6, <2>8 DEF Staged
  <1>12. CASE BeginCommit(r)
    BY <1>2, <1>12 DEF BeginCommit, Staged, RunInv, TypeOK, dirs, run
  <1>13. CASE BuildFails(r)
    BY <1>2, <1>13 DEF BuildFails, Staged, TypeOK, dirs, run
  <1> QED BY <1>8, <1>9, <1>10, <1>11, <1>12, <1>13 DEF Build

LEMMA CommitExposure ==
  ASSUME ExposureInv, NEW r \in Run, Commit(r)
  PROVE  ExposureInv'
  <1>1. TypeOK'
    BY CommitType DEF ExposureInv
  <1>2. TypeOK /\ OutputIsWhole /\ RunInv(r)
    BY DEF ExposureInv
  <1> USE DEF Goto, OutputIsWhole, NoIncompleteExposure, RestorableIsWhole, TypeOK
  <1>3. SUFFICES OutputIsWhole' /\ RunInv(r)'
    BY <1>1, OthersKeep DEF Step
  <1>4. CASE Seal(r)
    <2> DEFINE d == Ensured(staging[r])
               sealed == [d EXCEPT !.manifest = d.parts, !.sealed = FALSE]
    <2>1. d \in Dir /\ d.parts \in Files
      BY <1>2, EnsuredType, DirFields
    <2>2. staging'[r] = sealed /\ pc'[r] = "move" /\ pc[r] = "seal" /\ UNCHANGED <<final, backup>>
      BY <1>2, <1>4 DEF Seal
    <2>3. sealed \in Dir /\ sealed.manifest = d.parts /\ sealed.parts = d.parts
      BY <2>1, WithManifest
    <2>4. \A p \in Part : d.parts[p] # Absent
      BY <1>2, <2>2 DEF RunInv, Staged, Ensured
    <2>5. d.parts # Absent /\ sealed # Absent
      BY <2>1, <2>3, AbsentAssumption
    <2>6. Whole(staging'[r])
      BY <2>2, <2>3, <2>4, <2>5 DEF Whole
    <2> QED BY <1>2, <2>2, <2>6 DEF RunInv, Swept, Installed, Staged, Recording
  <1>5. CASE MoveExisting(r)
    <2>1. /\ pc'[r] = "install" /\ pc[r] = "move" /\ final' = Absent /\ staging' = staging
          /\ \A s \in Run : backup[s] = Absent
      BY <1>2, <1>5 DEF MoveExisting, RunInv, Swept
    <2>2. \A s \in Run : backup'[s] \in {Absent, final}
      BY <1>2, <1>5, <2>1 DEF MoveExisting
    <2> QED BY <1>2, <2>1, <2>2 DEF RunInv, Swept, Installed, Staged, Recording
  <1>6. CASE Install(r)
    <2>1. pc'[r] = "drop" /\ Whole(final') /\ final' # Absent
      BY <1>2, <1>6 DEF Install, RunInv, Staged
    <2> QED BY <2>1 DEF RunInv, Swept, Installed, Staged, Recording
  <1>7. CASE CopyAcross(r)
    <2>1. /\ UNCHANGED <<final, backup>> /\ pc'[r] = "swap" /\ swap'[r] = staging[r]
          /\ Whole(staging[r])
      BY <1>2, <1>7 DEF CopyAcross, RunInv, Staged
    <2> QED BY <1>2, <2>1 DEF RunInv, Swept, Installed, Staged, Recording
  <1>8. CASE InstallCopy(r)
    <2>1. pc'[r] = "dropsource" /\ Whole(final') /\ final' # Absent
      BY <1>2, <1>8 DEF InstallCopy, RunInv, Staged
    <2> QED BY <2>1 DEF RunInv, Swept, Installed, Staged, Recording
  <1>9. CASE DropCopied(r)
    <2>1. UNCHANGED <<final, backup>> /\ pc'[r] = "drop" /\ pc[r] = "dropsource"
      BY <1>2, <1>9 DEF DropCopied
    <2> QED BY <1>2, <2>1 DEF RunInv, Swept, Installed, Staged, Recording
  <1>10. CASE InstallFails(r)
    <2>1. UNCHANGED <<final, backup>> /\ pc'[r] = "restore"
      BY <1>2, <1>10 DEF InstallFails
    <2> QED BY <1>2, <2>1 DEF RunInv, Swept, Installed, Staged, Recording
  <1>11. CASE RestoreExisting(r)
    <2>1. pc'[r] = "abort"
      BY <1>2, <1>11 DEF RestoreExisting
    <2>2. OutputIsWhole'
      BY <1>2, <1>11 DEF RestoreExisting, PutBack, Whole
    <2> QED BY <2>1, <2>2 DEF RunInv, Swept, Installed, Staged, Recording
  <1>12. CASE DropBackup(r)
    <2>1. pc'[r] = "write1" /\ final' = final /\ final # Absent
      BY <1>2, <1>12 DEF DropBackup, RunInv, Installed
    <2> QED BY <1>2, <2>1 DEF RunInv, Swept, Installed, Staged, Recording
  <1>13. CASE DropFails(r)
    <2>1. UNCHANGED <<final, backup>> /\ pc'[r] = "abort"
      BY <1>2, <1>13 DEF DropFails, dirs
    <2> QED BY <1>2, <2>1 DEF RunInv, Swept, Installed, Staged, Recording
  <1>14. CASE Abort(r)
    <2>1. pc'[r] = "failed"
      BY <1>2, <1>14 DEF Abort
    <2>2. OutputIsWhole'
      BY <1>2, <1>14 DEF Abort, PutBack, Whole
    <2> QED BY <2>1, <2>2 DEF RunInv, Swept, Installed, Staged, Recording
  <1> QED BY <1>4, <1>5, <1>6, <1>7, <1>8, <1>9, <1>10, <1>11, <1>12, <1>13, <1>14 DEF Commit

LEMMA RecordExposure ==
  ASSUME ExposureInv, NEW r \in Run, Record(r)
  PROVE  ExposureInv'
  <1>1. TypeOK'
    BY RecordType DEF ExposureInv
  <1>2. TypeOK /\ OutputIsWhole /\ RunInv(r)
    BY DEF ExposureInv
  <1>3. pc[r] \in Recording /\ pc'[r] \in Recording \cup {"done"} /\ backup' = backup
    BY <1>2 DEF Record, WriteMetadata, RefreshProvenance, Goto, TypeOK, Recording
  <1>4. final \in Dir /\ Whole(final)
    BY <1>2, <1>3 DEF RunInv, Installed, TypeOK, OutputIsWhole, NoIncompleteExposure
  <1>5. final' \in Dir /\ final'.parts = final.parts /\ final'.manifest = final.manifest
    <2>1. CASE WriteMetadata(r)
      <3>1. final' = [final EXCEPT !.meta = plan[r], !.sealed = FALSE]
        BY <1>4, <2>1 DEF WriteMetadata, Ensured, Whole
      <3> QED BY <1>2, <1>4, <3>1, WithMetadata DEF TypeOK
    <2>2. CASE RefreshProvenance(r)
      BY <1>4, <2>2, WithSeal DEF RefreshProvenance
    <2> QED BY <2>1, <2>2 DEF Record
  <1>6. final' # Absent
    BY <1>5, AbsentAssumption
  <1>7. OutputIsWhole'
    BY <1>4, <1>5, <1>6 DEF OutputIsWhole, NoIncompleteExposure, RestorableIsWhole, Whole
  <1>8. RunInv(r)'
    BY <1>3, <1>6 DEF RunInv, Swept, Installed, Staged, Recording
  <1> QED BY <1>1, <1>7, <1>8, OthersKeep DEF Step

LEMMA NextExposure ==
  ASSUME Exclusive, \A d, e \in Definition : d = e, ExposureInv, [Next]_vars
  PROVE  ExposureInv'
  <1>1. TypeOK /\ TypeOK'
    BY NextType DEF ExposureInv
  <1>2. CASE \/ \E p \in Part : ReplaceSource(p)
            \/ EditDefinition
            \/ UNCHANGED vars
    <2>1. UNCHANGED <<dirs, pc, run>>
      BY <1>2 DEF ReplaceSource, EditDefinition, vars
    <2> QED BY <1>1, <2>1 DEF ExposureInv, Alone, IsAlive, OutputIsWhole, NoIncompleteExposure,
              RestorableIsWhole, RunInv, Swept, Installed, Staged, dirs, run
  <1>3. ASSUME NEW r \in Run, Start(r) \/ Step(r) \/ Die(r)
        PROVE  ExposureInv'
    BY <1>3, StartExposure, PrepareExposure, RecoverExposure, BuildExposure, CommitExposure,
       RecordExposure DEF Step
  <1> QED BY <1>2, <1>3 DEF Next

LEMMA AlwaysExposed ==
  ASSUME Exclusive, \A d, e \in Definition : d = e
  PROVE  Spec => []ExposureInv
  <1>1. Init => ExposureInv
    BY InitExposure
  <1>2. ExposureInv /\ [Next]_vars => ExposureInv'
    BY NextExposure
  <1> QED BY <1>1, <1>2, PTL DEF Spec

\* Runs of one asset that do not overlap and share one definition never show
\* a reader an incomplete dataset, and recovery never finds a backup that it
\* would restore although parts of it are missing: however often runs die, at
\* whatever step of staging, recovery, commit or abort (transactions.py).
THEOREM OutputsAreWhole ==
  ASSUME Exclusive, \A d, e \in Definition : d = e
  PROVE  Spec => []OutputIsWhole
  <1>1. ExposureInv => OutputIsWhole
    BY DEF ExposureInv
  <1> QED BY <1>1, AlwaysExposed, PTL

-----------------------------------------------------------------------------
(* What runs that do not overlap leave on disk: the metadata tell the truth,   *)
(* a skip is sound, a commit cleans up, and the output moves as AtomicDataset  *)
(* says.  All four follow from the one invariant TruthInv.                     *)

(* What is true of a directory tree, by its role.  A tree with a manifest has  *)
(* an entry for every part; metadata describe the parts beside them; and no    *)
(* part was computed from a source newer than v.                               *)
Listed(d) == d.manifest # Absent => \A p \in Part : d.manifest[p] # Absent

Truthful(d) == d.meta # Absent => \A p \in Part : d.parts[p] \in {Absent, Product(d.meta, p)}

NotAfter(d, v) == \A p \in Part : d.parts[p] # Absent => d.parts[p][2] <= v[p]

(* A tree that once was the output, whole or half removed, and one that never  *)
(* was: staging has no metadata before it is committed, which is why a half    *)
(* built tree can never be taken for a result.                                 *)
Sane(d) == d # Absent => Listed(d) /\ Truthful(d) /\ NotAfter(d, source)

Unrecorded(d) == d # Absent => Listed(d) /\ d.meta = Absent

(* The tree holds exactly what a run with the plan pl computes; sealed, it can *)
(* be committed.                                                               *)
Exact(d, pl) == d # Absent /\ \A p \in Part : d.parts[p] = Product(pl, p)

Sealed(d, pl) == Exact(d, pl) /\ d.manifest # Absent

(* A staged part is of the run's own definition and no older than its plan:    *)
(* parts kept from a dead run are checked before they are reused.              *)
Draft(r, p) ==
  LET c == staging[r].parts[p] IN
  c # Absent => c[1] = plan[r].defn /\ plan[r].source[p] <= c[2] /\ c[2] <= source[p]

NoBackup == \A s \in Run : backup[s] = Absent
NoStaging == \A s \in Run : staging[s] = Absent

(* The part of the invariant about the disk alone.  At most one backup exists, *)
(* and none beside an output whose metadata are recorded: recovery never has   *)
(* to choose between two trees that both claim to be the result.               *)
Directories ==
  /\ Sane(final)
  /\ \A s \in Run : Sane(backup[s]) /\ Unrecorded(staging[s]) /\ Unrecorded(swap[s])
  /\ \A s, t \in Run : backup[s] # Absent /\ backup[t] # Absent => s = t
  /\ MetaOf(final) # Absent => NoBackup
  /\ \A s \in Run : pc[s] = "idle" => finished[s] = {}
  /\ \A s \in Run, p \in Part : plan[s].source[p] <= source[p]

(* What a run may rely on at each of its steps, in the order of the steps.     *)
RunTruth(r) ==
  /\ pc[r] \in BeforeRecovery \cup {"sweep", "create", "link"} => finished[r] = {}
  /\ pc[r] = "reset" =>
       /\ NoBackup
       /\ final # Absent => \A p \in Part : final.parts[p] # Absent => final.parts[p][1] # plan[r].defn
  /\ pc[r] = "validate" => MetaOf(final) = plan[r]
  /\ pc[r] \in {"sweep", "create"} => NoStaging
  /\ pc[r] = "sweep" => final # Absent \/ NoBackup
  /\ pc[r] \in {"create", "link", "build", "seal", "move"} \cup Recording => NoBackup
  /\ pc[r] \in {"link", "build"} \cup Committing =>
       \A s \in Run \ {r} : staging[s] = Absent /\ backup[s] = Absent
  /\ pc[r] = "link" => known[r] = MetaOf(final) /\ staging[r] = EmptyDir
  /\ pc[r] = "build" =>
       /\ \A p \in finished[r] : staging[r] # Absent /\ staging[r].parts[p] # Absent
       /\ staging[r] # Absent => \A p \in Part : Draft(r, p)
  /\ pc[r] = "seal" => \A p \in Part : staging[r] # Absent /\ staging[r].parts[p] = Product(plan[r], p)
  /\ pc[r] \in {"move", "install"} => Sealed(staging[r], plan[r])
  /\ pc[r] = "swap" => Sealed(swap[r], plan[r])
  /\ pc[r] \in {"dropsource", "drop"} \cup Recording => Exact(final, plan[r])
  /\ pc[r] = "drop" => staging[r] = Absent
  /\ pc[r] \in Recording /\ finished[r] # {} => NoStaging
  /\ pc[r] \in {"seal", "move"} /\ final # Absent => NotAfter(final, plan[r].source)
  /\ pc[r] \in {"install", "swap"} /\ backup[r] # Absent => NotAfter(backup[r], plan[r].source)

(* The inductive invariant.  RunTruth says nothing of a run that is dead, so   *)
(* a death at any step keeps it.                                               *)
TruthInv == TypeOK /\ Alone /\ Directories /\ \A r \in Run : RunTruth(r)

-----------------------------------------------------------------------------
(* Directories *)

LEMMA RemnantSane ==
  ASSUME NEW d \in Dir, Sane(d), NEW keep \in SUBSET Part,
         NEW m \in {d.manifest, Absent}, NEW x \in {d.meta, Absent}
  PROVE  Sane(Remnant(d, keep, m, x))
  <1> DEFINE e == Remnant(d, keep, m, x)
  <1>1. /\ e.parts = [p \in Part |-> IF p \in keep THEN d.parts[p] ELSE Absent]
        /\ e.manifest = m /\ e.meta = x
    BY DEF Remnant, Dir
  <1>2. d # Absent
    BY DirFields
  <1>3. Listed(e)
    BY <1>1, <1>2 DEF Sane, Listed
  <1>4. \A p \in Part : e.parts[p] \in {d.parts[p], Absent}
    BY <1>1
  <1>5. Truthful(e)
    BY <1>1, <1>2, <1>4 DEF Sane, Truthful
  <1>6. NotAfter(e, source)
    BY <1>2, <1>4 DEF Sane, NotAfter
  <1> QED BY <1>3, <1>5, <1>6 DEF Sane

-----------------------------------------------------------------------------
(* Steps of one run *)

LEMMA InitTruth == Init => TruthInv
  <1> SUFFICES ASSUME Init PROVE TruthInv
    OBVIOUS
  <1>1. TypeOK /\ \A r \in Run : pc[r] = "idle"
    BY InitType DEF Init
  <1>2. Alone
    BY <1>1 DEF Alone, IsAlive, Alive, BeforeRecovery, Building, Committing, Recording
  <1>3. Directories
    BY ConstantsAssumption DEF Init, Directories, Sane, Unrecorded, NoBackup
  <1>4. \A r \in Run : RunTruth(r)
    BY <1>1 DEF RunTruth, BeforeRecovery, Committing, Recording
  <1> QED BY <1>1, <1>2, <1>3, <1>4 DEF TruthInv

\* It is enough to look at the run that takes the step.
LEMMA OthersKeepTruth ==
  ASSUME TruthInv, NEW r \in Run, Step(r) \/ Die(r), Directories', RunTruth(r)'
  PROVE  TruthInv'
  <1>1. TypeOK /\ TypeOK'
    BY NextType DEF TruthInv, Next
  <1>2. PICK x : pc' = [pc EXCEPT ![r] = x]
    BY <1>1, StepIsOfAlive
  <1>3. \A s \in Run : s # r => pc'[s] = pc[s] /\ ~IsAlive(s)
    BY <1>1, <1>2, StepIsOfAlive DEF TruthInv, Alone, TypeOK
  <1>4. Alone'
    BY <1>3 DEF Alone, IsAlive
  <1>5. \A s \in Run : s # r => RunTruth(s)'
    BY <1>3 DEF IsAlive, RunTruth, Alive, BeforeRecovery, Building, Committing, Recording
  <1> QED BY <1>1, <1>4, <1>5 DEF TruthInv

\* A step that leaves the directories alone.
LEMMA QuietStep ==
  ASSUME TruthInv, NEW r \in Run, IsAlive(r), NEW x, x # "idle",
         pc' = [pc EXCEPT ![r] = x], UNCHANGED <<source, plan, dirs, finished>>
  PROVE  Directories'
  <1>1. \A s \in Run : pc'[s] = "idle" => pc[s] = "idle"
    BY DEF TruthInv, TypeOK
  <1> QED BY <1>1 DEF TruthInv, Directories, Sane, Unrecorded, NoBackup, NotAfter, dirs

LEMMA StartTruth ==
  ASSUME TruthInv, Exclusive, NEW r \in Run, Start(r)
  PROVE  TruthInv'
  <1>1. TypeOK /\ TypeOK'
    BY NextType DEF TruthInv, Next
  <1>2. /\ pc[r] = "idle" /\ pc' = [pc EXCEPT ![r] = "load"]
        /\ plan' = [plan EXCEPT ![r] = [defn |-> definition, source |-> source]]
        /\ \A s \in Run : ~IsAlive(s)
        /\ UNCHANGED <<source, finished>> /\ UNCHANGED dirs
    BY DEF Start, Goto
  <1>3. \A s \in Run : s # r => ~IsAlive(s)'
    BY <1>1, <1>2 DEF IsAlive, TypeOK
  <1>4. Alone'
    BY <1>3 DEF Alone
  <1>5. \A s \in Run, p \in Part : plan'[s].source[p] <= source[p]
    <2>1. plan'[r].source = source /\ \A s \in Run : s # r => plan'[s] = plan[s]
      BY <1>1, <1>2 DEF TypeOK
    <2>2. \A p \in Part : source[p] \in Nat
      BY <1>1, ConstantsAssumption DEF TypeOK, Version
    <2> QED BY <2>1, <2>2 DEF TruthInv, Directories
  <1>6. Directories'
    <2>1. \A s \in Run : pc'[s] = "idle" => pc[s] = "idle"
      BY <1>1, <1>2 DEF TypeOK
    <2> QED BY <1>2, <1>5, <2>1 DEF TruthInv, Directories, Sane, Unrecorded, NoBackup, NotAfter, dirs
  <1>7. ASSUME NEW s \in Run PROVE RunTruth(s)'
    <2>1. CASE s = r
      <3>1. pc'[r] = "load" /\ finished'[r] = {}
        BY <1>1, <1>2 DEF TypeOK, TruthInv, Directories
      <3> QED BY <2>1, <3>1 DEF RunTruth, Committing, Recording
    <2>2. CASE s # r
      BY <1>3, <2>2 DEF IsAlive, RunTruth, Alive, BeforeRecovery, Building, Committing, Recording
    <2> QED BY <2>1, <2>2
  <1> QED BY <1>1, <1>4, <1>6, <1>7 DEF TruthInv

LEMMA PrepareTruth ==
  ASSUME TruthInv, NEW r \in Run, Prepare(r) \/ Die(r)
  PROVE  TruthInv'
  <1>1. TypeOK /\ TypeOK' /\ IsAlive(r) /\ RunTruth(r) /\ Directories
    BY NextType, StepIsOfAlive DEF TruthInv, Next, Step
  <1> USE DEF Goto
  <1>2. SUFFICES Directories' /\ RunTruth(r)'
    BY OthersKeepTruth DEF Step
  <1>3. ASSUME NEW x \in {"fingerprint", "validate", "recover", "failed", "write1", "dead"},
               pc' = [pc EXCEPT ![r] = x], UNCHANGED <<source, definition, dirs, run>>
        PROVE  Directories' /\ pc'[r] = x
    BY <1>1, <1>3, QuietStep DEF run, TypeOK
  <1>4. CASE KeepOutputs(r)
    <2>1. pc'[r] = "fingerprint" /\ Directories' /\ finished'[r] = {}
      BY <1>1, <1>3, <1>4 DEF KeepOutputs, RunTruth, BeforeRecovery, run
    <2> QED BY <2>1 DEF RunTruth, Committing, Recording
  <1>5. CASE BeginReset(r)
    <2>1. final \in Dir /\ MetaOf(final) # Absent /\ final.meta.defn # plan[r].defn
      BY <1>1, <1>5 DEF BeginReset, DefinitionChanged, MetaOf, TypeOK
    <2>2. PICK keep \in SUBSET Part, m \in {final.manifest, Absent} :
            final' = Remnant(final, keep, m, Absent)
      BY <1>5 DEF BeginReset
    <2>3. Sane(final)'
      BY <1>1, <1>5, <2>1, <2>2, RemnantSane DEF BeginReset, Directories, Sane, NotAfter
    <2>4. final'.meta = Absent /\ \A p \in Part : final'.parts[p] \in {final.parts[p], Absent}
      BY <2>1, <2>2 DEF Remnant, Dir
    <2>5. NoBackup
      BY <1>1, <2>1 DEF Directories
    <2>6. pc'[r] = "reset" /\ pc[r] = "load" /\ UNCHANGED <<source, staging, backup, swap, plan, finished>>
      BY <1>1, <1>5 DEF BeginReset, run, TypeOK
    <2>7. \A s \in Run : pc'[s] = "idle" => pc[s] = "idle"
      BY <1>1, <1>5 DEF BeginReset, TypeOK
    <2>8. Directories'
      BY <1>1, <2>3, <2>5, <2>6, <2>7 DEF Directories, Sane, Unrecorded, NoBackup, NotAfter
    <2>9. \A p \in Part : final'.parts[p] # Absent => final'.parts[p][1] # plan[r].defn
      <3>1. \A p \in Part : final.parts[p] \in {Absent, Product(final.meta, p)}
        BY <1>1, <2>1, DirFields DEF Directories, Sane, Truthful, MetaOf
      <3> QED BY <2>1, <2>4, <3>1 DEF Product
    <2> QED BY <1>1, <2>5, <2>6, <2>8, <2>9 DEF RunTruth, BeforeRecovery, Committing, Recording, NoBackup
  <1>6. CASE FinishReset(r)
    <2>1. /\ pc'[r] = "fingerprint" /\ pc[r] = "reset" /\ final' = Absent
          /\ UNCHANGED <<source, staging, backup, swap, plan, finished>>
      BY <1>1, <1>6 DEF FinishReset, run, TypeOK
    <2>2. \A s \in Run : pc'[s] = "idle" => pc[s] = "idle"
      BY <1>1, <1>6 DEF FinishReset, TypeOK
    <2>3. Directories'
      BY <1>1, <2>1, <2>2 DEF Directories, Sane, Unrecorded, NoBackup, NotAfter, MetaOf
    <2> QED BY <1>1, <2>1, <2>3 DEF RunTruth, BeforeRecovery, Committing, Recording
  <1>7. CASE Fingerprint(r)
    <2>1. pc'[r] \in {"validate", "recover"} /\ Directories' /\ UNCHANGED <<finished, plan, final>>
      BY <1>1, <1>3, <1>7 DEF Fingerprint, run, dirs
    <2>2. pc[r] = "fingerprint" /\ (pc'[r] = "validate" => MetaOf(final) = plan[r])
      BY <1>1, <1>7 DEF Fingerprint, TypeOK
    <2> QED BY <1>1, <2>1, <2>2 DEF RunTruth, BeforeRecovery, Committing, Recording, MetaOf
  <1>8. CASE SourceChanged(r)
    <2>1. pc'[r] = "failed" /\ Directories'
      BY <1>1, <1>3, <1>8 DEF SourceChanged
    <2> QED BY <2>1 DEF RunTruth, BeforeRecovery, Committing, Recording
  <1>9. CASE ValidateUnchanged(r)
    <2>1. /\ pc'[r] \in {"write1", "recover"} /\ Directories'
          /\ UNCHANGED <<finished, plan, final, backup>> /\ pc[r] = "validate"
          /\ pc'[r] = "write1" => final # Absent /\ Valid(final)
      BY <1>1, <1>3, <1>9 DEF ValidateUnchanged, run, dirs, TypeOK
    <2>2. pc'[r] = "write1" => Exact(final, plan[r]) /\ NoBackup
      <3> SUFFICES ASSUME pc'[r] = "write1" PROVE Exact(final, plan[r]) /\ NoBackup
        OBVIOUS
      <3>1. final # Absent /\ Valid(final) /\ final.meta = plan[r] /\ plan[r] # Absent
        BY <1>1, <2>1, AbsentAssumption DEF RunTruth, MetaOf, TypeOK
      <3>2. \A p \in Part : final.parts[p] = Product(plan[r], p)
        BY <1>1, <3>1 DEF Directories, Sane, Listed, Truthful, Valid
      <3> QED BY <1>1, <3>1, <3>2 DEF Exact, Directories, MetaOf
    <2> QED BY <1>1, <2>1, <2>2 DEF RunTruth, BeforeRecovery, Committing, Recording, NoBackup, Exact
  <1>10. CASE Die(r)
    <2>1. pc'[r] = "dead" /\ Directories'
      BY <1>1, <1>3, <1>10 DEF Die
    <2> QED BY <2>1 DEF RunTruth, BeforeRecovery, Committing, Recording
  <1> QED BY <1>2, <1>4, <1>5, <1>6, <1>7, <1>8, <1>9, <1>10 DEF Prepare

LEMMA RecoverTruth ==
  ASSUME TruthInv, NEW r \in Run, Recover(r)
  PROVE  TruthInv'
  <1>1. TypeOK /\ TypeOK' /\ IsAlive(r) /\ RunTruth(r) /\ Directories
    BY NextType, StepIsOfAlive DEF TruthInv, Next, Step
  <1> USE DEF Goto
  <1>2. SUFFICES Directories' /\ RunTruth(r)'
    BY OthersKeepTruth DEF Step
  <1>3. UNCHANGED <<source, swap, plan, finished>> /\ \A s \in Run : pc'[s] = "idle" => pc[s] = "idle"
    BY <1>1 DEF Recover, RemoveStaging, RestoreBackup, SweepBackup, EndRecovery, EraseBackup, dirs, run,
                TypeOK
  <1>4. CASE \E s \in Run : RemoveStaging(r, s)
    <2>1. /\ UNCHANGED <<final, backup>> /\ pc'[r] = "recover" /\ pc[r] = "recover"
          /\ \A s \in Run : staging'[s] \in {staging[s], Absent}
      BY <1>1, <1>4 DEF RemoveStaging, TypeOK
    <2>2. Directories'
      BY <1>1, <1>3, <2>1 DEF Directories, Sane, Unrecorded, NoBackup, NotAfter
    <2> QED BY <1>1, <1>3, <2>1, <2>2 DEF RunTruth, BeforeRecovery, Committing, Recording
  <1>5. CASE RestoreBackup(r)
    <2>1. /\ pc[r] = "recover" /\ pc'[r] = "sweep" /\ staging' = staging /\ NoStaging
      BY <1>1, <1>5 DEF RestoreBackup, TypeOK, NoStaging
    <2>2. CASE UNCHANGED <<final, backup>> /\ (final # Absent \/ NoBackup)
      <3>1. Directories'
        BY <1>1, <1>3, <2>1, <2>2 DEF Directories, Sane, Unrecorded, NoBackup, NotAfter
      <3> QED BY <1>1, <1>3, <2>1, <2>2, <3>1
              DEF RunTruth, BeforeRecovery, Committing, Recording, NoStaging, NoBackup
    <2>3. CASE \E s \in Run : /\ backup[s] # Absent /\ final' = backup[s]
                            /\ backup' = [backup EXCEPT ![s] = Absent]
      <3>1. PICK s \in Run : /\ backup[s] # Absent /\ final' = backup[s]
                            /\ backup' = [backup EXCEPT ![s] = Absent]
        BY <2>3
      <3>2. NoBackup'
        BY <1>1, <3>1 DEF Directories, NoBackup, TypeOK
      <3>3. Sane(final)'
        BY <1>1, <1>3, <3>1 DEF Directories, Sane, NotAfter
      <3>4. Directories'
        BY <1>1, <1>3, <2>1, <3>2, <3>3 DEF Directories, Unrecorded, NoBackup, Sane
      <3> QED BY <1>1, <1>3, <2>1, <3>2, <3>4 DEF RunTruth, BeforeRecovery, Committing, Recording, NoStaging
    <2> QED BY <1>5, <2>2, <2>3 DEF RestoreBackup, NoBackup
  <1>6. CASE \E s \in Run : SweepBackup(r, s)
    <2>1. /\ UNCHANGED <<final, staging>> /\ pc'[r] = "sweep" /\ pc[r] = "sweep"
          /\ \A s \in Run : backup'[s] \in {backup[s], Absent}
      BY <1>1, <1>6 DEF SweepBackup, TypeOK
    <2>2. Directories'
      BY <1>1, <1>3, <2>1 DEF Directories, Sane, Unrecorded, NoBackup, NotAfter
    <2> QED BY <1>1, <1>3, <2>1, <2>2 DEF RunTruth, BeforeRecovery, Committing, Recording, NoStaging, NoBackup
  <1>7. CASE EndRecovery(r)
    <2>1. UNCHANGED dirs /\ pc'[r] = "create" /\ pc[r] = "sweep" /\ NoBackup
      BY <1>1, <1>7 DEF EndRecovery, TypeOK, NoBackup
    <2>2. Directories'
      BY <1>1, <1>3, <2>1 DEF Directories, Sane, Unrecorded, NoBackup, NotAfter, dirs
    <2> QED BY <1>1, <1>3, <2>1, <2>2
            DEF RunTruth, BeforeRecovery, Committing, Recording, NoStaging, NoBackup, dirs
  <1>8. CASE \E s \in Run : EraseBackup(r, s)
    <2>1. PICK s \in Run : EraseBackup(r, s)
      BY <1>8
    <2>2. backup[s] \in Dir /\ Sane(backup[s]) /\ backup[s] # Absent
      BY <1>1, <2>1 DEF EraseBackup, TypeOK, Directories
    <2>3. PICK keep \in SUBSET Part, m \in {backup[s].manifest, Absent}, x \in {backup[s].meta, Absent} :
            backup' = [backup EXCEPT ![s] = Remnant(backup[s], keep, m, x)]
      BY <2>1 DEF EraseBackup
    <2>4. Sane(backup'[s])
      BY <1>1, <2>2, <2>3, RemnantSane DEF TypeOK
    <2>5. /\ \A q \in Run : q # s => backup'[q] = backup[q]
          /\ \A q \in Run : backup'[q] # Absent => backup[q] # Absent
          /\ UNCHANGED <<final, staging, pc>> /\ (final # Absent \/ NoBackup)
          /\ pc[r] \in {"sweep", "drop", "abort"}
      BY <1>1, <2>1, <2>2, <2>3 DEF EraseBackup, run, TypeOK, RunTruth, Exact
    <2>6. Directories'
      BY <1>1, <1>3, <2>2, <2>4, <2>5 DEF Directories, Sane, Unrecorded, NoBackup, NotAfter
    <2>7. RunTruth(r)'
      BY <1>1, <1>3, <2>2, <2>5 DEF RunTruth, BeforeRecovery, Committing, Recording, NoStaging, NoBackup, Exact
    <2> QED BY <2>6, <2>7
  <1> QED BY <1>2, <1>4, <1>5, <1>6, <1>7, <1>8 DEF Recover

LEMMA RecordTruth ==
  ASSUME TruthInv, NEW r \in Run, Record(r)
  PROVE  TruthInv'
  <1>1. TypeOK /\ TypeOK' /\ IsAlive(r) /\ RunTruth(r) /\ Directories
    BY NextType, StepIsOfAlive DEF TruthInv, Next, Step
  <1> USE DEF Goto
  <1>2. SUFFICES Directories' /\ RunTruth(r)'
    BY OthersKeepTruth DEF Step
  <1>3. /\ UNCHANGED <<source, staging, backup, swap, plan, finished>>
        /\ \A s \in Run : pc'[s] = "idle" => pc[s] = "idle"
        /\ pc[r] \in Recording /\ pc'[r] \in Recording \cup {"done"}
    BY <1>1 DEF Record, WriteMetadata, RefreshProvenance, run, TypeOK, Recording
  <1>4. final \in Dir /\ final # Absent /\ Exact(final, plan[r]) /\ NoBackup /\ Sane(final)
    BY <1>1, <1>3 DEF RunTruth, Exact, TypeOK, Directories
  <1>5. /\ final' \in Dir /\ final' # Absent /\ final'.parts = final.parts
        /\ final'.manifest = final.manifest /\ final'.meta \in {final.meta, plan[r]}
    <2>1. CASE WriteMetadata(r)
      <3>1. final' = [final EXCEPT !.meta = plan[r], !.sealed = FALSE]
        BY <1>4, <2>1 DEF WriteMetadata, Ensured
      <3>2. plan[r] \in Plan
        BY <1>1 DEF TypeOK
      <3> QED BY <1>4, <3>1, <3>2, WithMetadata, DirFields
    <2>2. CASE RefreshProvenance(r)
      BY <1>4, <2>2, WithSeal, DirFields DEF RefreshProvenance
    <2> QED BY <2>1, <2>2 DEF Record
  <1>6. Exact(final', plan[r])
    BY <1>4, <1>5 DEF Exact
  <1>7. Sane(final)'
    BY <1>3, <1>4, <1>5, <1>6 DEF Sane, Listed, Truthful, NotAfter, Exact
  <1>8. Directories'
    BY <1>1, <1>3, <1>4, <1>7 DEF Directories, Sane, NotAfter, Unrecorded, NoBackup
  <1>9. RunTruth(r)'
    BY <1>1, <1>3, <1>4, <1>6 DEF RunTruth, BeforeRecovery, Committing, Recording, NoStaging, NoBackup
  <1> QED BY <1>8, <1>9

\* A staging directory that changes in its parts only.
LEMMA StagingStep ==
  ASSUME TruthInv, TypeOK', NEW r \in Run, IsAlive(r), NEW d \in Dir, Unrecorded(d),
         staging' = [staging EXCEPT ![r] = d], UNCHANGED <<source, final, backup, swap, plan>>,
         \A s \in Run : pc'[s] = "idle" => pc[s] = "idle" /\ finished'[s] = finished[s]
  PROVE  Directories'
  <1>1. \A s \in Run : Unrecorded(staging'[s])
    BY DEF TruthInv, TypeOK, Directories
  <1> QED BY <1>1 DEF TruthInv, Directories, Sane, NotAfter, Unrecorded, NoBackup

LEMMA BuildTruth ==
  ASSUME TruthInv, NEW r \in Run, Build(r)
  PROVE  TruthInv'
  <1>1. TypeOK /\ TypeOK' /\ IsAlive(r) /\ RunTruth(r) /\ Directories
    BY NextType, StepIsOfAlive DEF TruthInv, Next, Step
  <1> USE DEF Goto
  <1>2. SUFFICES Directories' /\ RunTruth(r)'
    BY OthersKeepTruth DEF Step
  <1>3. /\ UNCHANGED <<source, final, backup, swap, plan>>
        /\ \A s \in Run : s # r => pc'[s] = pc[s] /\ finished'[s] = finished[s] /\ staging'[s] = staging[s]
        /\ \A s \in Run : pc'[s] = "idle" => pc[s] = "idle" /\ finished'[s] = finished[s]
    BY <1>1 DEF Build, Create, LinkReusable, OpenSource, WritePart, BeginCommit, BuildFails, dirs, run,
                TypeOK
  <1>4. \A p \in Part : source[p] \in Nat /\ plan[r].source[p] \in Nat
    BY <1>1, ConstantsAssumption DEF TypeOK, Plan, Version
  <1>5. CASE Create(r)
    <2>1. /\ pc[r] = "create" /\ pc'[r] = "link" /\ known'[r] = MetaOf(final) /\ finished' = finished
          /\ staging' = [staging EXCEPT ![r] = EmptyDir]
      BY <1>1, <1>5 DEF Create, TypeOK
    <2>2. Unrecorded(EmptyDir)
      BY DEF Unrecorded, EmptyDir, Listed
    <2>3. Directories'
      BY <1>1, <1>3, <2>1, <2>2, EmptyDirType, StagingStep
    <2>4. staging'[r] = EmptyDir /\ MetaOf(final)' = MetaOf(final)
      BY <1>1, <1>3, <2>1 DEF TypeOK, MetaOf
    <2> QED BY <1>1, <1>3, <2>1, <2>3, <2>4
            DEF RunTruth, BeforeRecovery, Committing, Recording, NoStaging, NoBackup
  <1>6. CASE LinkReusable(r)
    <2> DEFINE reused == {p \in Part : Reusable(r, p)}
               linked == [p \in Part |-> IF p \in reused THEN final.parts[p]
                                        ELSE Ensured(staging[r]).parts[p]]
    <2>1. /\ pc[r] = "link" /\ pc'[r] = "build" /\ finished'[r] = reused
          /\ known[r] = MetaOf(final) /\ staging[r] = EmptyDir
      BY <1>1, <1>6 DEF LinkReusable, RunTruth, TypeOK
    <2>2. \A p \in reused : /\ final \in Dir /\ final.parts[p] # Absent
                            /\ final.parts[p] = Product(plan[r], p)
      <3> SUFFICES ASSUME NEW p \in reused
                   PROVE  final \in Dir /\ final.parts[p] # Absent /\ final.parts[p] = Product(plan[r], p)
        OBVIOUS
      <3>1. /\ final # Absent /\ final.parts[p] # Absent /\ final.meta # Absent
            /\ Product(final.meta, p) = Product(plan[r], p)
        BY <2>1 DEF Reusable, MetaOf
      <3> QED BY <1>1, <3>1 DEF Directories, Sane, Truthful, TypeOK
    <2>3. \A p \in Part : EmptyDir.parts[p] = Absent
      BY DEF EmptyDir, NoFiles
    <2>4. Ensured(staging[r]) = EmptyDir
      BY <2>1, EmptyDirType DEF Ensured
    <2>5. CASE reused = {}
      <3>1. staging' = [staging EXCEPT ![r] = EmptyDir]
        BY <1>1, <1>6, <2>1, <2>5 DEF LinkReusable, TypeOK
      <3>2. Directories'
        BY <1>1, <1>3, <3>1, EmptyDirType, StagingStep DEF Unrecorded, EmptyDir, Listed
      <3>3. staging'[r] = EmptyDir
        BY <1>1, <3>1 DEF TypeOK
      <3> QED BY <1>1, <1>3, <2>1, <2>3, <2>5, <3>2, <3>3
              DEF RunTruth, BeforeRecovery, Committing, Recording, NoBackup, Draft
    <2>6. CASE reused # {}
      <3>1. linked \in Files
        <4>1. final \in Dir
          BY <2>2, <2>6
        <4> QED BY <2>4, <4>1, DirFields, EmptyDirType DEF Files
      <3> DEFINE d == [EmptyDir EXCEPT !.parts = linked]
      <3>2. d \in Dir /\ d.parts = linked /\ d.manifest = Absent /\ d.meta = Absent
        BY <3>1, EmptyDirType, WithParts DEF EmptyDir
      <3>3. staging' = [staging EXCEPT ![r] = d]
        BY <1>6, <2>4, <2>6 DEF LinkReusable
      <3>4. Directories'
        BY <1>1, <1>3, <3>2, <3>3, StagingStep DEF Unrecorded, Listed
      <3>5. staging'[r] = d /\ d # Absent
        BY <1>1, <3>2, <3>3, DirFields DEF TypeOK
      <3>6. \A p \in Part : linked[p] # Absent => linked[p] = Product(plan[r], p)
        BY <2>2, <2>3, <2>4
      <3>7. \A p \in Part : Draft(r, p)'
        <4> SUFFICES ASSUME NEW p \in Part, linked[p] # Absent
                     PROVE  /\ linked[p][1] = plan[r].defn
                            /\ plan[r].source[p] <= linked[p][2] /\ linked[p][2] <= source[p]
          BY <1>3, <3>2, <3>5 DEF Draft
        <4>1. linked[p][1] = plan[r].defn /\ linked[p][2] = plan[r].source[p]
          BY <3>6 DEF Product
        <4> QED BY <1>1, <1>4, <4>1 DEF Directories
      <3>8. \A p \in reused : staging'[r].parts[p] # Absent
        BY <2>2, <3>2, <3>5
      <3> QED BY <1>1, <1>3, <2>1, <3>4, <3>5, <3>7, <3>8
              DEF RunTruth, BeforeRecovery, Committing, Recording, NoBackup
    <2> QED BY <2>5, <2>6
  <1>7. CASE \E p \in Part : OpenSource(r, p)
    <2>1. pc[r] = "build" /\ pc'[r] = "build" /\ UNCHANGED <<finished, plan, dirs>>
      BY <1>1, <1>7 DEF OpenSource, TypeOK
    <2>2. Directories'
      BY <1>1, <1>3, <2>1 DEF Directories, Sane, NotAfter, Unrecorded, NoBackup, dirs
    <2> QED BY <1>1, <1>3, <2>1, <2>2
            DEF RunTruth, BeforeRecovery, Committing, Recording, NoBackup, Draft, dirs
  <1>8. CASE \E p \in Part : WritePart(r, p)
    <2>1. PICK p \in Part : WritePart(r, p)
      BY <1>8
    <2> DEFINE c == <<plan[r].defn, source[p]>>
               e == Ensured(staging[r])
               d == [e EXCEPT !.parts[p] = c]
    <2>2. c \in Content /\ c # Absent
      BY <1>1, AbsentAssumption DEF Content, Plan, TypeOK
    <2>3. e \in Dir /\ e.parts \in Files /\ Unrecorded(e)
      BY <1>1, EnsuredType, DirFields DEF TypeOK, Ensured, Directories, Unrecorded, EmptyDir, Listed
    <2>4. d \in Dir /\ d # Absent /\ Unrecorded(d) /\ d.parts = [e.parts EXCEPT ![p] = c]
      <3>1. /\ d \in Dir /\ d.parts = [e.parts EXCEPT ![p] = c]
            /\ d.manifest = e.manifest /\ d.meta = e.meta
        BY <2>2, <2>3, WithPart
      <3>2. e # Absent /\ d # Absent
        BY <2>3, <3>1, AbsentAssumption
      <3> QED BY <2>3, <3>1, <3>2 DEF Unrecorded, Listed
    <2>5. /\ pc[r] = "build" /\ pc'[r] = "build" /\ finished'[r] = finished[r] \cup {p}
          /\ staging' = [staging EXCEPT ![r] = d] /\ staging'[r] = d
      BY <1>1, <2>1 DEF WritePart, TypeOK
    <2>6. Directories'
      BY <1>1, <1>3, <2>4, <2>5, StagingStep
    <2>7. ASSUME NEW q \in Part
          PROVE  d.parts[q] = IF q = p THEN c ELSE e.parts[q]
      BY <2>3, <2>4 DEF Files
    <2>8. \A q \in Part : e.parts[q] # Absent => staging[r] # Absent /\ staging[r].parts[q] = e.parts[q]
      BY DEF Ensured, EmptyDir, NoFiles
    <2>9. \A q \in Part : Draft(r, q)'
      <3>1. PICK f : f = d.parts
        OBVIOUS
      <3>2. staging'[r].parts = f /\ plan' = plan /\ source' = source
        BY <1>3, <2>5, <3>1
      <3>3. \A q \in Part : f[q] # Absent => /\ f[q][1] = plan[r].defn
                                            /\ plan[r].source[q] <= f[q][2]
                                            /\ f[q][2] <= source[q]
        <4> SUFFICES ASSUME NEW q \in Part, f[q] # Absent
                     PROVE  /\ f[q][1] = plan[r].defn
                            /\ plan[r].source[q] <= f[q][2] /\ f[q][2] <= source[q]
          OBVIOUS
        <4>1. CASE q = p
          <5>1. f[q] = <<plan[r].defn, source[q]>>
            BY <2>7, <3>1, <4>1
          <5>2. source[q] \in Nat /\ plan[r].source[q] <= source[q]
            BY <1>1, <1>4 DEF Directories
          <5> QED BY <5>1, <5>2
        <4>2. CASE q # p
          <5>1. f[q] = e.parts[q] /\ e.parts[q] # Absent
            BY <2>7, <3>1, <4>2
          <5>2. staging[r] # Absent /\ staging[r].parts[q] = f[q]
            BY <2>8, <5>1
          <5>3. Draft(r, q)
            BY <1>1, <2>5, <5>2 DEF RunTruth
          <5> QED BY <5>2, <5>3 DEF Draft
        <4> QED BY <4>1, <4>2
      <3> HIDE DEF d, e, c
      <3> QED BY <3>2, <3>3 DEF Draft
    <2>10. \A q \in finished'[r] : d.parts[q] # Absent
      <3>1. \A q \in finished[r] : q \in Part /\ e.parts[q] # Absent
        BY <1>1, <2>5 DEF RunTruth, Ensured, TypeOK
      <3> QED BY <2>2, <2>5, <2>7, <3>1
    <2> QED BY <1>1, <1>3, <2>4, <2>5, <2>6, <2>9, <2>10
            DEF RunTruth, BeforeRecovery, Committing, Recording, NoBackup
  <1>9. CASE BeginCommit(r)
    <2>1. /\ pc[r] = "build" /\ pc'[r] = "seal" /\ UNCHANGED <<finished, staging>> /\ finished[r] = Part
          /\ source = plan[r].source
      BY <1>1, <1>9 DEF BeginCommit, run, dirs, TypeOK
    <2>2. Directories'
      BY <1>1, <1>3, <2>1 DEF Directories, Sane, NotAfter, Unrecorded, NoBackup
    <2>3. ASSUME NEW p \in Part PROVE staging[r] # Absent /\ staging[r].parts[p] = Product(plan[r], p)
      <3>1. staging[r] \in Dir /\ staging[r].parts[p] # Absent /\ Draft(r, p)
        BY <1>1, <2>1 DEF RunTruth, TypeOK
      <3>2. staging[r].parts[p] \in Definition \X Version
        BY <3>1, DirFields DEF Files, Content
      <3>3. staging[r].parts[p][1] = plan[r].defn /\ staging[r].parts[p][2] = source[p]
        BY <1>4, <2>1, <3>1, <3>2 DEF Draft, Version
      <3> QED BY <1>1, <2>1, <3>1, <3>2, <3>3 DEF Product, RunTruth
    <2> QED BY <1>1, <1>3, <2>1, <2>2, <2>3
            DEF RunTruth, BeforeRecovery, Committing, Recording, NoBackup, Directories, Sane
  <1>10. CASE BuildFails(r)
    <2>1. pc'[r] = "abort" /\ UNCHANGED <<staging, finished>>
      BY <1>1, <1>10 DEF BuildFails, run, dirs, TypeOK
    <2>2. Directories'
      BY <1>1, <1>3, <2>1 DEF Directories, Sane, NotAfter, Unrecorded, NoBackup
    <2> QED BY <2>1, <2>2 DEF RunTruth, BeforeRecovery, Committing, Recording
  <1> QED BY <1>5, <1>6, <1>7, <1>8, <1>9, <1>10 DEF Build

\* The backup of run r goes back, or nothing does.
LEMMA RestoreTruth ==
  ASSUME TruthInv, TypeOK', NEW r \in Run, IsAlive(r),
         \/ PutBack(r)
         \/ /\ final # Absent \/ backup[r] = Absent
            /\ backup' \in {backup, [backup EXCEPT ![r] = Absent]} /\ UNCHANGED final,
         UNCHANGED <<source, swap, plan, finished>>,
         \A s \in Run : staging'[s] \in {staging[s], Absent},
         \A s \in Run : pc'[s] = "idle" => pc[s] = "idle"
  PROVE  Directories'
  <1>1. TypeOK /\ Directories
    BY DEF TruthInv
  <1>2. \A s \in Run : Unrecorded(staging'[s])
    BY <1>1 DEF Directories, Unrecorded
  <1>3. CASE PutBack(r)
    <2>1. /\ backup[r] # Absent /\ final' = backup[r] /\ NoBackup'
      BY <1>1, <1>3 DEF PutBack, Directories, NoBackup, TypeOK
    <2>2. Sane(final)'
      BY <1>1, <2>1 DEF Directories, Sane, NotAfter
    <2> QED BY <1>1, <1>2, <2>1, <2>2 DEF Directories, NoBackup, Sane, Unrecorded
  <1>4. CASE /\ final # Absent \/ backup[r] = Absent
            /\ backup' \in {backup, [backup EXCEPT ![r] = Absent]} /\ UNCHANGED final
    <2>1. \A s \in Run : backup'[s] \in {backup[s], Absent}
      BY <1>1, <1>4 DEF TypeOK
    <2> QED BY <1>1, <1>2, <1>4, <2>1 DEF Directories, NoBackup, Sane, NotAfter, Unrecorded
  <1> QED BY <1>3, <1>4

LEMMA CommitTruth ==
  ASSUME TruthInv, NEW r \in Run, Commit(r)
  PROVE  TruthInv'
  <1>1. TypeOK /\ TypeOK' /\ IsAlive(r) /\ RunTruth(r) /\ Directories
    BY NextType, StepIsOfAlive DEF TruthInv, Next, Step
  <1> USE DEF Goto
  <1>2. SUFFICES Directories' /\ RunTruth(r)'
    BY OthersKeepTruth DEF Step
  <1>3. /\ UNCHANGED <<source, plan, finished>>
        /\ \A s \in Run : s # r => staging'[s] = staging[s] /\ backup'[s] = backup[s]
        /\ \A s \in Run : pc'[s] = "idle" => pc[s] = "idle"
    BY <1>1 DEF Commit, Seal, MoveExisting, Install, CopyAcross, InstallCopy, DropCopied, InstallFails,
                RestoreExisting, DropBackup, DropFails, Abort, PutBack, dirs, run, TypeOK
  <1>4. CASE Seal(r)
    <2> DEFINE e == Ensured(staging[r])
               d == [e EXCEPT !.manifest = e.parts, !.sealed = FALSE]
    <2>1. e \in Dir /\ e.parts \in Files /\ Unrecorded(e) /\ e # Absent
      BY <1>1, EnsuredType, DirFields DEF TypeOK, Ensured, Directories, Unrecorded, EmptyDir, Listed
    <2>2. /\ staging' = [staging EXCEPT ![r] = d] /\ pc'[r] = "move" /\ pc[r] = "seal"
          /\ UNCHANGED <<final, backup, swap>>
      BY <1>1, <1>4 DEF Seal, TypeOK
    <2>3. d \in Dir /\ d.manifest = e.parts /\ d.parts = e.parts /\ d.meta = e.meta
      BY <2>1, WithManifest
    <2>4. \A p \in Part : e.parts[p] = Product(plan[r], p)
      BY <1>1, <2>2 DEF RunTruth, Ensured
    <2>5. d # Absent /\ e.parts # Absent /\ \A p \in Part : Product(plan[r], p) # Absent
      <3>1. \A p \in Part : Product(plan[r], p) \in Content
        BY <1>1 DEF TypeOK, Plan, Product, Content
      <3> QED BY <2>1, <2>3, <3>1, AbsentAssumption
    <2>6. Unrecorded(d) /\ Sealed(d, plan[r])
      BY <2>1, <2>3, <2>4, <2>5 DEF Unrecorded, Listed, Sealed, Exact
    <2>7. Directories'
      BY <1>1, <1>3, <2>2, <2>3, <2>6, StagingStep
    <2>8. staging'[r] = d
      BY <1>1, <2>2 DEF TypeOK
    <2> QED BY <1>1, <1>3, <2>2, <2>6, <2>7, <2>8
            DEF RunTruth, BeforeRecovery, Committing, Recording, NoBackup
  <1>5. CASE MoveExisting(r)
    <2>1. /\ pc[r] = "move" /\ pc'[r] = "install" /\ final' = Absent /\ UNCHANGED <<staging, swap>>
          /\ NoBackup /\ backup'[r] = final
      BY <1>1, <1>5 DEF MoveExisting, RunTruth, NoBackup, TypeOK
    <2>2. Sane(backup[r])'
      BY <1>1, <1>3, <2>1 DEF Directories, Sane, NotAfter
    <2>3. \A s \in Run : s # r => backup'[s] = Absent
      BY <1>3, <2>1 DEF NoBackup
    <2>4. Directories'
      BY <1>1, <1>3, <2>1, <2>2, <2>3 DEF Directories, NoBackup, Sane, Unrecorded, MetaOf
    <2> QED BY <1>1, <1>3, <2>1, <2>3, <2>4
            DEF RunTruth, BeforeRecovery, Committing, Recording, NoBackup, NotAfter
  <1>6. CASE Install(r)
    <2>1. /\ pc[r] = "install" /\ pc'[r] = "drop" /\ final' = staging[r] /\ staging'[r] = Absent
          /\ UNCHANGED <<backup, swap>>
      BY <1>1, <1>6 DEF Install, TypeOK
    <2>2. Sealed(final', plan[r]) /\ Unrecorded(final')
      BY <1>1, <2>1 DEF RunTruth, Directories
    <2>3. Sane(final)'
      BY <1>1, <1>3, <2>2 DEF Unrecorded, Sane, Truthful, NotAfter, Sealed, Exact, Product, Directories
    <2>4. MetaOf(final') = Absent
      BY <2>2 DEF Unrecorded, Sealed, Exact, MetaOf
    <2>5. Directories'
      BY <1>1, <1>3, <2>1, <2>3, <2>4 DEF Directories, NoBackup, Sane, NotAfter, Unrecorded, MetaOf
    <2> QED BY <1>1, <1>3, <2>1, <2>2, <2>5
            DEF RunTruth, BeforeRecovery, Committing, Recording, NoBackup, Sealed
  <1>7. CASE CopyAcross(r)
    <2>1. /\ pc[r] = "install" /\ pc'[r] = "swap" /\ swap'[r] = staging[r]
          /\ UNCHANGED <<final, staging, backup>> /\ \A s \in Run : s # r => swap'[s] = swap[s]
      BY <1>1, <1>7 DEF CopyAcross, TypeOK
    <2>2. Directories'
      BY <1>1, <1>3, <2>1 DEF Directories, NoBackup, Sane, NotAfter, Unrecorded
    <2> QED BY <1>1, <1>3, <2>1, <2>2 DEF RunTruth, BeforeRecovery, Committing, Recording, NoBackup
  <1>8. CASE InstallCopy(r)
    <2>1. /\ pc[r] = "swap" /\ pc'[r] = "dropsource" /\ final' = swap[r]
          /\ UNCHANGED <<backup, staging>> /\ \A s \in Run : swap'[s] \in {swap[s], Absent}
      BY <1>1, <1>8 DEF InstallCopy, TypeOK
    <2>2. Sealed(final', plan[r]) /\ Unrecorded(final')
      BY <1>1, <2>1 DEF RunTruth, Directories
    <2>3. Sane(final)'
      BY <1>1, <1>3, <2>2 DEF Unrecorded, Sane, Truthful, NotAfter, Sealed, Exact, Product, Directories
    <2>4. MetaOf(final') = Absent
      BY <2>2 DEF Unrecorded, Sealed, Exact, MetaOf
    <2>5. Directories'
      BY <1>1, <1>3, <2>1, <2>3, <2>4 DEF Directories, NoBackup, Sane, NotAfter, Unrecorded, MetaOf
    <2> QED BY <1>1, <1>3, <2>1, <2>2, <2>5
            DEF RunTruth, BeforeRecovery, Committing, Recording, NoBackup, Sealed
  <1>9. CASE DropCopied(r)
    <2>1. /\ pc[r] = "dropsource" /\ pc'[r] = "drop" /\ staging'[r] = Absent
          /\ UNCHANGED <<final, backup, swap>>
      BY <1>1, <1>9 DEF DropCopied, TypeOK
    <2>2. Directories'
      BY <1>1, <1>3, <2>1 DEF Directories, NoBackup, Sane, NotAfter, Unrecorded
    <2> QED BY <1>1, <1>3, <2>1, <2>2 DEF RunTruth, BeforeRecovery, Committing, Recording, NoBackup
  <1>10. CASE InstallFails(r)
    <2>1. /\ pc[r] \in Committing /\ pc'[r] = "restore" /\ UNCHANGED <<final, backup, staging>>
          /\ \A s \in Run : swap'[s] \in {swap[s], Absent}
      BY <1>1, <1>10 DEF InstallFails, TypeOK, Committing
    <2>2. Directories'
      BY <1>1, <1>3, <2>1 DEF Directories, NoBackup, Sane, NotAfter, Unrecorded
    <2> QED BY <1>1, <1>3, <2>1, <2>2 DEF RunTruth, BeforeRecovery, Committing, Recording, NoBackup
  <1>11. CASE RestoreExisting(r)
    <2>1. pc'[r] = "abort"
      BY <1>1, <1>11 DEF RestoreExisting, TypeOK
    <2>2. Directories'
      BY <1>1, <1>3, <1>11, RestoreTruth DEF RestoreExisting
    <2> QED BY <2>1, <2>2 DEF RunTruth, BeforeRecovery, Committing, Recording
  <1>12. CASE DropBackup(r)
    <2>1. /\ pc[r] = "drop" /\ pc'[r] = "write1" /\ backup'[r] = Absent
          /\ UNCHANGED <<final, staging, swap>>
      BY <1>1, <1>12 DEF DropBackup, TypeOK
    <2>2. NoBackup' /\ NoStaging'
      BY <1>1, <1>3, <2>1 DEF NoBackup, NoStaging, RunTruth, Committing
    <2>3. Directories'
      BY <1>1, <1>3, <2>1, <2>2 DEF Directories, NoBackup, Sane, NotAfter, Unrecorded
    <2> QED BY <1>1, <1>3, <2>1, <2>2, <2>3 DEF RunTruth, BeforeRecovery, Committing, Recording
  <1>13. CASE DropFails(r)
    <2>1. pc'[r] = "abort" /\ UNCHANGED dirs
      BY <1>1, <1>13 DEF DropFails, TypeOK
    <2>2. Directories'
      BY <1>1, <1>3, <2>1 DEF Directories, NoBackup, Sane, NotAfter, Unrecorded, dirs
    <2> QED BY <2>1, <2>2 DEF RunTruth, BeforeRecovery, Committing, Recording
  <1>14. CASE Abort(r)
    <2>1. pc'[r] = "failed" /\ \A s \in Run : staging'[s] \in {staging[s], Absent}
      BY <1>1, <1>14 DEF Abort, TypeOK
    <2>2. Directories'
      BY <1>1, <1>3, <1>14, <2>1, RestoreTruth DEF Abort
    <2> QED BY <2>1, <2>2 DEF RunTruth, BeforeRecovery, Committing, Recording
  <1> QED BY <1>4, <1>5, <1>6, <1>7, <1>8, <1>9, <1>10, <1>11, <1>12, <1>13, <1>14 DEF Commit

LEMMA NextTruth ==
  ASSUME Exclusive, TruthInv, [Next]_vars
  PROVE  TruthInv'
  <1>1. TypeOK /\ TypeOK' /\ Directories
    BY NextType DEF TruthInv
  <1>2. CASE \E p \in Part : ReplaceSource(p)
    <2>1. PICK p \in Part : ReplaceSource(p)
      BY <1>2
    <2>2. /\ UNCHANGED <<dirs, pc, run>> /\ \A q \in Part : source[q] \in Nat /\ source'[q] \in Nat
          /\ \A q \in Part : source[q] <= source'[q]
      BY <1>1, <2>1, ConstantsAssumption DEF ReplaceSource, TypeOK, Version
    <2>3. \A s \in Run, q \in Part : plan[s].source[q] \in Nat
      BY <1>1, ConstantsAssumption DEF TypeOK, Plan, Version
    <2>4. ASSUME NEW d \in Dir \cup {Absent}, Sane(d)
          PROVE  Sane(d)'
      <3>1. ASSUME NEW q \in Part, d # Absent, d.parts[q] # Absent PROVE d.parts[q][2] \in Nat
        <4>1. d.parts[q] \in Definition \X Version
          BY <3>1, DirFields DEF Files, Content
        <4> QED BY <4>1, ConstantsAssumption DEF Version
      <3> QED BY <2>2, <2>4, <3>1 DEF Sane, NotAfter, Listed, Truthful, Product
    <2>5. Directories'
      <3>1. Sane(final)' /\ \A s \in Run : Sane(backup[s])'
        BY <1>1, <2>2, <2>4 DEF Directories, TypeOK, dirs
      <3>2. \A s \in Run, q \in Part : plan'[s].source[q] <= source'[q]
        BY <1>1, <2>2, <2>3 DEF Directories, run
      <3> QED BY <1>1, <2>2, <3>1, <3>2 DEF Directories, Unrecorded, NoBackup, dirs, run
    <2>6. ASSUME NEW s \in Run PROVE RunTruth(s)'
      <3>1. ASSUME NEW q \in Part, staging[s] # Absent, Draft(s, q) PROVE Draft(s, q)'
        <4>1. staging[s].parts[q] # Absent => staging[s].parts[q] \in Definition \X Version
          BY <1>1, <3>1, DirFields DEF TypeOK, Files, Content
        <4> QED BY <2>2, <2>3, <3>1, <4>1, ConstantsAssumption DEF Draft, dirs, run, Version
      <3> QED BY <2>2, <3>1 DEF TruthInv, RunTruth, dirs, run, NoStaging, NoBackup, NotAfter, Exact, Sealed
    <2> QED BY <1>1, <2>2, <2>5, <2>6 DEF TruthInv, Alone, IsAlive
  <1>3. CASE EditDefinition \/ UNCHANGED vars
    <2>1. UNCHANGED <<source, dirs, pc, run>>
      BY <1>3 DEF EditDefinition, vars
    <2>2. Directories'
      BY <1>1, <2>1 DEF Directories, NoBackup, Sane, NotAfter, Unrecorded, dirs, run
    <2>3. \A s \in Run : RunTruth(s)'
      BY <2>1 DEF TruthInv, RunTruth, dirs, run, NoStaging, NoBackup, NotAfter, Exact, Sealed, Draft
    <2> QED BY <1>1, <2>1, <2>2, <2>3 DEF TruthInv, Alone, IsAlive
  <1>4. ASSUME NEW r \in Run, Start(r) \/ Step(r) \/ Die(r)
        PROVE  TruthInv'
    BY <1>4, StartTruth, PrepareTruth, RecoverTruth, BuildTruth, CommitTruth, RecordTruth DEF Step
  <1> QED BY <1>2, <1>3, <1>4 DEF Next

-----------------------------------------------------------------------------
(* What the invariant says *)

LEMMA AlwaysTruth == ASSUME Exclusive PROVE Spec => []TruthInv
  <1>1. Init => TruthInv
    BY InitTruth
  <1>2. TruthInv /\ [Next]_vars => TruthInv'
    BY NextTruth
  <1> QED BY <1>1, <1>2, PTL DEF Spec

\* The metadata in the output describes the parts beside it, for runs that do not overlap: however
\* often they die, and whatever happens to their sources and their definition meanwhile.
THEOREM MetadataIsTrue == ASSUME Exclusive PROVE Spec => []MetadataTellsTruth
  <1>1. TruthInv => MetadataTellsTruth
    BY DEF TruthInv, Directories, Sane, Truthful, MetadataTellsTruth, MetaOf
  <1> QED BY <1>1, AlwaysTruth, PTL

\* A run that has committed leaves nothing behind of itself or of any run before it. An asset
\* without parts has no commit that finished[r] would show.
THEOREM CommitsCleanUp == ASSUME Exclusive, Part # {} PROVE Spec => []CleanAfterCommit
  <1>1. TruthInv => CleanAfterCommit
    BY DEF TruthInv, RunTruth, CleanAfterCommit, NoStaging, NoBackup
  <1> QED BY <1>1, AlwaysTruth, PTL

\* A run that skips leaves in place what it would have computed.
THEOREM SkipsAreSound == ASSUME Exclusive PROVE Spec => SkipIsSound
  <1> DEFINE Skips == \A r \in Run : pc[r] = "validate" /\ pc'[r] = "write1" =>
                        \A p \in Part : final.parts[p] = Product(plan[r], p)
  <1>1. ASSUME TruthInv, [Next]_vars, NEW r \in Run, pc[r] = "validate", pc'[r] = "write1"
        PROVE  \A p \in Part : final.parts[p] = Product(plan[r], p)
    <2>1. TypeOK /\ Directories /\ RunTruth(r)
      BY <1>1 DEF TruthInv
    <2>2. PICK s \in Run : Start(s) \/ Step(s) \/ Die(s)
      BY <1>1 DEF Next, ReplaceSource, EditDefinition, vars
    <2>3. \E x : pc' = [pc EXCEPT ![s] = x]
      BY <2>1, <2>2, StepIsOfAlive DEF Start, Goto
    <2>4. s = r
      BY <1>1, <2>1, <2>3 DEF TypeOK
    <2>5. ValidateUnchanged(r)
      <3>1. ~Start(r) /\ ~Die(r)
        BY <1>1, <2>1 DEF Start, Die, Goto, TypeOK
      <3>2. CASE Prepare(r)
        BY <1>1, <3>2 DEF Prepare, KeepOutputs, BeginReset, FinishReset, Fingerprint, SourceChanged, Goto
      <3>3. ~Recover(r)
        BY <1>1 DEF Recover, RemoveStaging, RestoreBackup, SweepBackup, EndRecovery, EraseBackup, Goto
      <3>4. ~Build(r)
        BY <1>1 DEF Build, Create, LinkReusable, OpenSource, WritePart, BeginCommit, BuildFails, Goto
      <3>5. ~Commit(r)
        BY <1>1 DEF Commit, Seal, MoveExisting, Install, CopyAcross, InstallCopy, DropCopied,
                    InstallFails, RestoreExisting, DropBackup, DropFails, Abort, Goto
      <3>6. ~Record(r)
        BY <1>1 DEF Record, WriteMetadata, RefreshProvenance, Goto
      <3> QED BY <2>2, <2>4, <3>1, <3>2, <3>3, <3>4, <3>5, <3>6 DEF Step
    <2>6. final # Absent /\ Valid(final) /\ final.meta = plan[r] /\ plan[r] # Absent
      BY <1>1, <2>1, <2>5, AbsentAssumption DEF ValidateUnchanged, Goto, RunTruth, MetaOf, TypeOK
    <2> QED BY <2>1, <2>6 DEF Directories, Sane, Listed, Truthful, Valid
  <1>2. TruthInv /\ [Next]_vars => [Skips]_vars
    BY <1>1
  <1> QED BY <1>2, AlwaysTruth, PTL DEF Spec, SkipIsSound

-----------------------------------------------------------------------------
(* The transaction implements a dataset that changes in one step *)

\* Contents, as a function of the directories it looks at.
ContentsOf(f, b) ==
  CASE Whole(f) -> f.parts
    [] f = Absent /\ \E r \in Run : Whole(b[r]) -> b[CHOOSE r \in Run : Whole(b[r])].parts
    [] OTHER -> Absent

LEMMA ContentsAre == Contents = ContentsOf(final, backup) /\ Contents' = ContentsOf(final, backup)'
  BY DEF Contents, ContentsOf

LEMMA ContentsOfWhole == ASSUME NEW f, NEW b, Whole(f) PROVE ContentsOf(f, b) = f.parts
  BY DEF ContentsOf, Whole

LEMMA ContentsOfBackup ==
  ASSUME NEW b, NEW s \in Run, Whole(b[s]), \A t \in Run : Whole(b[t]) => t = s
  PROVE  ContentsOf(Absent, b) = b[s].parts
  <1>1. ~Whole(Absent)
    BY DEF Whole
  <1>2. (CHOOSE r \in Run : Whole(b[r])) = s
    OBVIOUS
  <1> QED BY <1>1, <1>2 DEF ContentsOf

LEMMA ContentsOfNothing ==
  ASSUME NEW f, NEW b, ~Whole(f), f # Absent \/ \A s \in Run : ~Whole(b[s])
  PROVE  ContentsOf(f, b) = Absent
  BY DEF ContentsOf

\* What is done to the backups beside an output shows nowhere.
LEMMA ContentsOfOutput ==
  ASSUME NEW f, NEW b, NEW c, f # Absent
  PROVE  ContentsOf(f, b) = ContentsOf(f, c)
  <1>1. CASE Whole(f)
    BY <1>1, ContentsOfWhole
  <1>2. CASE ~Whole(f)
    BY <1>2, ContentsOfNothing
  <1> QED BY <1>1, <1>2

\* The only directory that is not Absent is moved to or from its backup.
LEMMA ContentsOfMoved ==
  ASSUME NEW b, NEW c, NEW s \in Run, b[s] # Absent,
         \A t \in Run : t # s => b[t] = Absent
  PROVE  ContentsOf(Absent, b) = ContentsOf(b[s], c)
  <1>1. \A t \in Run : Whole(b[t]) => t = s
    BY DEF Whole
  <1>2. CASE Whole(b[s])
    BY <1>1, <1>2, ContentsOfBackup, ContentsOfWhole
  <1>3. CASE ~Whole(b[s])
    <2>1. ~Whole(Absent)
      BY DEF Whole
    <2> QED BY <1>1, <1>3, <2>1, ContentsOfNothing
  <1> QED BY <1>2, <1>3

LEMMA InstallPublishes ==
  ASSUME TruthInv, Part # {}, NEW r \in Run, pc[r] \in {"install", "swap"},
         final = Absent, Sealed(final', plan[r]), final' \in Dir
  PROVE  Atomic!Publish
  <1>1. TypeOK /\ Directories /\ RunTruth(r)
    BY DEF TruthInv
  <1>2. \A p \in Part : Product(plan[r], p) \in Content /\ Product(plan[r], p) # Absent
    BY <1>1, AbsentAssumption DEF TypeOK, Plan, Product, Content
  <1>3. Whole(final')
    BY <1>2 DEF Sealed, Exact, Whole
  <1>4. Contents' = final'.parts
    BY <1>3, ContentsAre, ContentsOfWhole
  <1>5. final'.parts = [p \in Part |-> Product(plan[r], p)]
    <2>1. final'.parts \in Files
      BY DirFields
    <2> QED BY <2>1 DEF Sealed, Exact, Files
  <1>6. plan[r].defn \in Definition /\ plan[r].source \in [Part -> 1 .. MaxVersion]
    BY <1>1 DEF TypeOK, Plan, Version
  <1>7. ASSUME Contents # Absent PROVE \A p \in Part : Contents[p][2] <= plan[r].source[p]
    <2>1. \A s \in Run : s # r => backup[s] = Absent
      BY <1>1 DEF RunTruth, Committing
    <2>2. Whole(backup[r])
      <3>1. ~Whole(Absent)
        BY DEF Whole
      <3> QED BY <1>7, <2>1, <3>1, ContentsAre, ContentsOfNothing
    <2>3. Contents = backup[r].parts
      BY <2>1, <2>2, ContentsAre, ContentsOfBackup DEF Whole
    <2> QED BY <1>1, <2>2, <2>3 DEF RunTruth, NotAfter, Whole
  <1> QED BY <1>4, <1>5, <1>6, <1>7 DEF Atomic!Publish, Atomic!Generation, Product

LEMMA ResetWithdraws ==
  ASSUME TruthInv, Part # {}, NEW r \in Run, BeginReset(r) \/ FinishReset(r)
  PROVE  Atomic!Withdraw \/ Contents' = Contents
  <1>1. TypeOK /\ TypeOK' /\ Directories /\ RunTruth(r)
    BY NextType DEF TruthInv, Next, Step, Prepare
  <1>2. plan[r].defn \in Definition
    BY <1>1 DEF TypeOK, Plan
  <1>3. CASE BeginReset(r)
    <2>1. final \in Dir /\ final # Absent /\ final.meta # Absent /\ final.meta.defn # plan[r].defn
      BY <1>1, <1>3 DEF BeginReset, DefinitionChanged, MetaOf, TypeOK
    <2>2. PICK keep \in SUBSET Part, m \in {final.manifest, Absent} :
            final' = Remnant(final, keep, m, Absent)
      BY <1>3 DEF BeginReset
    <2>3. /\ final' \in Dir /\ final' # Absent /\ final'.manifest \in {final.manifest, Absent}
          /\ \A p \in Part : final'.parts[p] \in {final.parts[p], Absent}
      <3>1. final' \in Dir /\ final' # Absent
        BY <2>1, <2>2, RemnantType, DirFields
      <3> QED BY <2>1, <2>2, <3>1 DEF Remnant, Dir
    <2>4. CASE Whole(final')
      <3>1. final.manifest # Absent /\ \A p \in Part : final'.parts[p] = final.parts[p] /\ final.parts[p] # Absent
        BY <2>3, <2>4 DEF Whole
      <3>2. final'.parts = final.parts
        BY <2>1, <2>3, <3>1, DirFields DEF Files
      <3>3. Whole(final)
        BY <2>1, <3>1 DEF Whole
      <3> QED BY <2>4, <3>2, <3>3, ContentsAre, ContentsOfWhole
    <2>5. CASE ~Whole(final') /\ Whole(final)
      <3>1. Contents = final.parts /\ Contents' = Absent
        BY <2>3, <2>5, ContentsAre, ContentsOfWhole, ContentsOfNothing
      <3>2. final.parts # Absent
        BY <2>1, DirFields, AbsentAssumption
      <3>3. \A p \in Part : final.parts[p][1] # plan[r].defn
        BY <1>1, <2>1, <2>5 DEF Directories, Sane, Truthful, Whole, Product
      <3> QED BY <1>2, <3>1, <3>2, <3>3 DEF Atomic!Withdraw
    <2>6. CASE ~Whole(final') /\ ~Whole(final)
      BY <2>1, <2>3, <2>6, ContentsAre, ContentsOfNothing
    <2> QED BY <2>4, <2>5, <2>6
  <1>4. CASE FinishReset(r)
    <2>1. final' = Absent /\ backup' = backup /\ pc[r] = "reset" /\ NoBackup
      BY <1>1, <1>4 DEF FinishReset, Goto, RunTruth
    <2>2. ~Whole(Absent) /\ \A s \in Run : ~Whole(backup[s])
      BY <2>1 DEF NoBackup, Whole
    <2>3. Contents' = Absent
      BY <2>1, <2>2, ContentsAre, ContentsOfNothing
    <2>4. CASE Whole(final)
      <3>1. final \in Dir /\ Contents = final.parts /\ final.parts # Absent
        BY <1>1, <2>4, ContentsAre, ContentsOfWhole, DirFields, AbsentAssumption DEF Whole, TypeOK
      <3>2. \A p \in Part : final.parts[p][1] # plan[r].defn
        BY <1>1, <2>1, <2>4 DEF RunTruth, Whole
      <3> QED BY <1>2, <2>3, <3>1, <3>2 DEF Atomic!Withdraw
    <2>5. CASE ~Whole(final)
      BY <2>2, <2>3, <2>5, ContentsAre, ContentsOfNothing
    <2> QED BY <2>4, <2>5
  <1> QED BY <1>3, <1>4

\* Moving the only backup back shows nowhere.
LEMMA MovedBack ==
  ASSUME TruthInv, NEW s \in Run, final = Absent, backup[s] # Absent, final' = backup[s]
  PROVE  Contents' = Contents
  <1>1. \A t \in Run : t # s => backup[t] = Absent
    BY DEF TruthInv, Directories
  <1> QED BY <1>1, ContentsAre, ContentsOfMoved

LEMMA StepRefines ==
  ASSUME TruthInv, Part # {}, NEW r \in Run, Start(r) \/ Step(r) \/ Die(r)
  PROVE  Atomic!Next \/ Contents' = Contents
  <1>1. TypeOK /\ TypeOK' /\ Directories /\ RunTruth(r)
    BY NextType DEF TruthInv, Next
  <1> USE DEF Goto
  <1>2. CASE UNCHANGED <<final, backup>>
    BY <1>2, ContentsAre
  <1>3. CASE final' = final /\ final # Absent
    BY <1>3, ContentsAre, ContentsOfOutput
  <1>4. CASE Prepare(r)
    BY <1>2, <1>4, ResetWithdraws DEF Prepare, KeepOutputs, Fingerprint, SourceChanged, ValidateUnchanged,
                dirs, Atomic!Next
  <1>5. CASE Recover(r)
    <2>1. CASE RestoreBackup(r)
      BY <1>2, <2>1, MovedBack DEF RestoreBackup
    <2>2. CASE \E s \in Run : SweepBackup(r, s) \/ EraseBackup(r, s)
      <3>1. final' = final /\ final # Absent
        BY <1>1, <2>2 DEF SweepBackup, EraseBackup, RunTruth, NoBackup, Exact
      <3> QED BY <1>3, <3>1
    <2> QED BY <1>2, <1>5, <2>1, <2>2 DEF Recover, RemoveStaging, EndRecovery, dirs
  <1>6. CASE Build(r)
    BY <1>2, <1>6 DEF Build, Create, LinkReusable, OpenSource, WritePart, BeginCommit, BuildFails, dirs
  <1>7. CASE Commit(r)
    <2>1. CASE MoveExisting(r)
      <3>1. CASE final = Absent
        BY <1>2, <2>1, <3>1 DEF MoveExisting
      <3>2. CASE final # Absent
        <4>1. /\ final' = Absent /\ backup'[r] = final /\ backup'[r] # Absent
              /\ \A t \in Run : t # r => backup'[t] = Absent
          BY <1>1, <2>1, <3>2 DEF MoveExisting, RunTruth, NoBackup, TypeOK
        <4>2. ContentsOf(Absent, backup') = ContentsOf(backup'[r], backup)
          BY <4>1, ContentsOfMoved
        <4> QED BY <4>1, <4>2, ContentsAre
      <3> QED BY <3>1, <3>2
    <2>2. CASE Install(r)
      <3>1. /\ pc[r] = "install" /\ final = Absent /\ final' = staging[r] /\ staging[r] # Absent
            /\ Sealed(staging[r], plan[r]) /\ staging[r] \in Dir
        BY <1>1, <2>2 DEF Install, RunTruth, TypeOK
      <3> QED BY <3>1, InstallPublishes DEF Atomic!Next
    <2>3. CASE InstallCopy(r)
      <3>1. /\ pc[r] = "swap" /\ final = Absent /\ final' = swap[r] /\ swap[r] # Absent
            /\ Sealed(swap[r], plan[r]) /\ swap[r] \in Dir
        BY <1>1, <2>3 DEF InstallCopy, RunTruth, TypeOK
      <3> QED BY <3>1, InstallPublishes DEF Atomic!Next
    <2>4. CASE RestoreExisting(r)
      BY <1>2, <2>4, MovedBack DEF RestoreExisting, PutBack
    <2>5. CASE DropBackup(r)
      <3>1. final' = final /\ final # Absent
        BY <1>1, <2>5 DEF DropBackup, RunTruth, Exact
      <3> QED BY <1>3, <3>1
    <2>6. CASE Abort(r)
      <3>1. CASE PutBack(r)
        BY <3>1, MovedBack DEF PutBack
      <3>2. CASE final' = final /\ backup[r] = Absent /\ backup' = [backup EXCEPT ![r] = Absent]
        <4>1. backup' = backup
          BY <1>1, <3>2 DEF TypeOK
        <4> QED BY <1>2, <3>2, <4>1
      <3> QED BY <1>3, <2>6, <3>1, <3>2 DEF Abort
    <2> QED BY <1>2, <1>7, <2>1, <2>2, <2>3, <2>4, <2>5, <2>6
            DEF Commit, Seal, CopyAcross, DropCopied, InstallFails, DropFails, dirs
  <1>8. CASE Record(r)
    <2>1. final \in Dir /\ final # Absent /\ backup' = backup
      BY <1>1, <1>8 DEF Record, WriteMetadata, RefreshProvenance, RunTruth, Recording, Exact, TypeOK
    <2>2. /\ final' \in Dir /\ final' # Absent
          /\ final'.parts = final.parts /\ final'.manifest = final.manifest
      <3>1. CASE WriteMetadata(r)
        <4>1. final' = [final EXCEPT !.meta = plan[r], !.sealed = FALSE] /\ plan[r] \in Plan
          BY <1>1, <2>1, <3>1 DEF WriteMetadata, Ensured, TypeOK
        <4> QED BY <2>1, <4>1, WithMetadata, DirFields
      <3>2. CASE RefreshProvenance(r)
        BY <2>1, <3>2, WithSeal, DirFields DEF RefreshProvenance
      <3> QED BY <1>8, <3>1, <3>2 DEF Record
    <2>3. CASE Whole(final)
      <3>1. Whole(final')
        BY <2>2, <2>3 DEF Whole
      <3> QED BY <2>2, <2>3, <3>1, ContentsAre, ContentsOfWhole
    <2>4. CASE ~Whole(final)
      <3>1. ~Whole(final')
        BY <2>1, <2>2, <2>4 DEF Whole
      <3> QED BY <2>1, <2>2, <2>4, <3>1, ContentsAre, ContentsOfNothing
    <2> QED BY <2>3, <2>4
  <1> QED BY <1>2, <1>4, <1>5, <1>6, <1>7, <1>8 DEF Step, Start, Die, dirs

\* Runs that do not overlap implement AtomicDataset, whatever they are interrupted by and however
\* sources and definition change: readers find one snapshot after another, no source going back,
\* and nothing only after the definition changed or before the first commit.
THEOREM TransactionIsAtomic == ASSUME Exclusive, Part # {} PROVE Spec => ImplementsAtomicDataset
  <1>1. Init => Atomic!Init
    <2> SUFFICES ASSUME Init PROVE Atomic!Init
      OBVIOUS
    <2>1. ~Whole(final) /\ \A s \in Run : ~Whole(backup[s])
      BY DEF Init, Whole
    <2> QED BY <2>1, ContentsAre, ContentsOfNothing DEF Atomic!Init
  <1>2. TruthInv /\ [Next]_vars => [Atomic!Next]_Contents
    <2> SUFFICES ASSUME TruthInv, [Next]_vars PROVE Atomic!Next \/ Contents' = Contents
      OBVIOUS
    <2>1. CASE \E p \in Part : ReplaceSource(p)
      BY <2>1, ContentsAre DEF ReplaceSource, dirs
    <2>2. CASE EditDefinition \/ UNCHANGED vars
      BY <2>2, ContentsAre DEF EditDefinition, vars, dirs
    <2> QED BY <2>1, <2>2, StepRefines DEF Next
  <1> QED BY <1>1, <1>2, AlwaysTruth, PTL DEF Spec, ImplementsAtomicDataset, Atomic!Spec
=============================================================================
