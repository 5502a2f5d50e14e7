--------------------------- MODULE LayoutMigration ---------------------------
(***************************************************************************)
(* The migration of a collected dataset to another physical layout         *)
(* (migrations/physical_layout/migration.py): its parts are rewritten into *)
(* a staging directory beside it, compared with it, and swapped in.  A     *)
(* migration that died is resumed from what it recorded.                   *)
(*                                                                         *)
(* Meanwhile the source may be collected anew (assets/a0101_source), which *)
(* replaces the dataset in two renames.  Either process may die.           *)
(***************************************************************************)
EXTENDS Naturals, FiniteSets, Functions

CONSTANTS
  Part,         \* relative paths of parts
  PartsOf,      \* PartsOf[v]: the parts of the collection of version v
  MaxVersion,   \* bound: collections
  MaxStarts,    \* bound: migrations
  Undisturbed,  \* TRUE: no collection begins between the comparison of the manifests
                \* and the end of the migration
  None

Version == 1 .. MaxVersion
Layout == {"old", "new"}
File == [version : Version, layout : Layout]
Directories ==
  [part : UNION {[S -> File] : S \in SUBSET Part}, meta : Version \cup {0},
   receipt : {"none", "completed", "probed"}, sealed : BOOLEAN,
   resume : UNION {[S -> [source : File, destination : File]] : S \in SUBSET Part}]

MigrationAssumption ==
  /\ MaxVersion \in Nat \ {0} /\ MaxStarts \in Nat /\ None \notin Directories
  /\ \A v \in Version : PartsOf[v] \subseteq Part /\ PartsOf[v] # {}

VARIABLES
  dataset,    \* the directory of the dataset, or None
  staging,    \* .<dataset>.layout-<id>.staging, or None
  backup,     \* .<dataset>.layout-<id>.backup, or None
  failed,     \* .<dataset>.layout-<id>.failed, or None
  previous,   \* what collections have put aside under .temp
  collected,  \* the version that was collected last
  collector, migration,  \* the local variables of the two processes
  starts      \* counter for the bound

directories == <<dataset, staging, backup, failed, previous>>
vars == <<directories, collected, collector, migration, starts>>

\* A directory: its parts, the version its metadata are about, the receipt of the
\* migration, and whether the checksums of its manifest are those of its files.
Directory(part, meta, receipt, sealed) ==
  [part |-> part, meta |-> meta, receipt |-> receipt, sealed |-> sealed, resume |-> <<>>]

Collection(v) ==
  Directory([p \in PartsOf[v] |-> [version |-> v, layout |-> "old"]], v, "none", TRUE)
EmptyStaging == Directory(<<>>, 0, "none", FALSE)

Idle == [pc |-> "idle", plan |-> <<>>, done |-> {}, part |-> None]
Swapping == {"seal", "aside", "swap", "validate", "probe", "refresh"}

TypeOK ==
  /\ \A d \in ({dataset, staging, backup, failed} \cup previous) \ {None} :
       /\ DOMAIN d.part \subseteq Part /\ Range(d.part) \subseteq File
       /\ d.meta \in Version \cup {0} /\ d.receipt \in {"none", "completed", "probed"}
  /\ collected \in Version \cup {0} /\ collector \in {"idle", "moved"}
  /\ migration.pc \in {"idle", "rewrite", "record", "copy", "parity", "check"} \cup Swapping
  /\ starts \in 0 .. MaxStarts

Init ==
  /\ dataset = Collection(1) /\ staging = None /\ backup = None /\ failed = None /\ previous = {}
  /\ collected = 1 /\ collector = "idle" /\ migration = Idle /\ starts = 0

-----------------------------------------------------------------------------
(* commit_staged_dataset of the collector *)

NextCollection == Collection(collected + 1)

\* The output is put aside if there is one; otherwise the new one is renamed at once.
CollectionBegins ==
  /\ collector = "idle" /\ collected < MaxVersion
  /\ Undisturbed => migration.pc \notin Swapping
  /\ IF dataset = None
     THEN /\ dataset' = NextCollection /\ collected' = collected + 1
          /\ UNCHANGED <<previous, collector>>
     ELSE /\ dataset' = None /\ previous' = previous \cup {dataset} /\ collector' = "moved"
          /\ UNCHANGED collected
  /\ UNCHANGED <<staging, backup, failed, migration, starts>>

\* The second rename, and the removal of what was put aside.
CollectionEnds ==
  /\ collector = "moved" /\ dataset = None
  /\ dataset' = NextCollection /\ collected' = collected + 1
  /\ previous' = previous \ {d \in previous : d.meta = collected}
  /\ collector' = "idle"
  /\ UNCHANGED <<staging, backup, failed, migration, starts>>

\* The process dies between its renames, or finds the output there again and gives up.
CollectionDies ==
  /\ collector = "moved" /\ collector' = "idle"
  /\ UNCHANGED <<directories, collected, migration, starts>>

-----------------------------------------------------------------------------
(* migrate_0101_dataset *)

Goto(pc) == migration' = [migration EXCEPT !.pc = pc]
Stop == migration' = Idle

\* _build_plan: a dataset that is not valid is refused; one that has the receipt
\* is left as it is.
Start ==
  /\ migration.pc = "idle" /\ starts < MaxStarts /\ starts' = starts + 1
  /\ dataset # None /\ dataset.sealed /\ dataset.receipt = "none"
  /\ migration' = [Idle EXCEPT !.pc = "rewrite", !.plan = dataset.part]
  /\ staging' = IF staging = None THEN EmptyStaging ELSE staging
  /\ UNCHANGED <<dataset, backup, failed, previous, collected, collector>>

Planned == DOMAIN migration.plan

\* What an earlier migration recorded is kept if source and destination are the same.
Resumable(p) ==
  /\ p \in DOMAIN staging.resume \cap DOMAIN staging.part
  /\ staging.resume[p].source = migration.plan[p]
  /\ staging.resume[p].destination = staging.part[p]

With(f, p, x) == [q \in DOMAIN f \cup {p} |-> IF q = p THEN x ELSE f[q]]

Resume(p) ==
  /\ migration.pc = "rewrite" /\ p \in Planned \ migration.done /\ Resumable(p)
  /\ migration' = [migration EXCEPT !.done = @ \cup {p}]
  /\ UNCHANGED <<directories, collected, collector, starts>>

\* _rewrite_part: the part as it is now is written under the layout of the plan.
RewritePart(p) ==
  /\ migration.pc = "rewrite" /\ p \in Planned \ migration.done /\ ~Resumable(p)
  /\ dataset # None /\ p \in DOMAIN dataset.part
  /\ staging' = [staging EXCEPT !.part = With(@, p, [dataset.part[p] EXCEPT !.layout = "new"])]
  /\ migration' = [migration EXCEPT !.pc = "record", !.part = p]
  /\ UNCHANGED <<dataset, backup, failed, previous, collected, collector, starts>>

\* The checksums are taken after the part is written.
RecordPart ==
  LET p == migration.part IN
  /\ migration.pc = "record" /\ dataset # None /\ p \in DOMAIN dataset.part
  /\ staging' = [staging EXCEPT !.resume =
                   With(@, p, [source |-> dataset.part[p], destination |-> staging.part[p]])]
  /\ migration' = [migration EXCEPT !.pc = "rewrite", !.done = @ \cup {p}]
  /\ UNCHANGED <<dataset, backup, failed, previous, collected, collector, starts>>

CopyProvenance ==
  /\ migration.pc = "rewrite" /\ migration.done = Planned /\ dataset # None
  /\ staging' = [staging EXCEPT !.meta = dataset.meta]
  /\ Goto("parity")
  /\ UNCHANGED <<dataset, backup, failed, previous, collected, collector, starts>>

\* Mutant of SameRows: what was rewritten is not compared.
SameRowsAssumed(d, e) == TRUE

\* compare_bounded_summaries: the same files with the same rows.
SameRows(d, e) ==
  /\ DOMAIN d.part = DOMAIN e.part
  /\ \A p \in DOMAIN d.part : d.part[p].version = e.part[p].version

Compare ==
  /\ migration.pc = "parity" /\ dataset # None /\ SameRows(dataset, staging)
  /\ Goto("check")
  /\ UNCHANGED <<directories, collected, collector, starts>>

\* Mutant of SameSource: the manifest is not looked at again.
SameSourceAssumed == TRUE

\* The manifest, which lists the parts, is the one the plan was made from.
SameSource == dataset # None /\ dataset.part = migration.plan

CheckSource ==
  /\ migration.pc = "check" /\ SameSource
  /\ Goto("seal")
  /\ UNCHANGED <<directories, collected, collector, starts>>

\* The receipt, the metadata and the manifest are written; the record goes.
Seal ==
  /\ migration.pc = "seal"
  /\ staging' = [staging EXCEPT !.receipt = "completed", !.sealed = TRUE, !.resume = <<>>]
  /\ Goto("aside")
  /\ UNCHANGED <<dataset, backup, failed, previous, collected, collector, starts>>

\* A backup that an earlier migration left is removed first.
PutAside ==
  /\ migration.pc = "aside" /\ dataset # None
  /\ backup' = dataset /\ dataset' = None
  /\ Goto("swap")
  /\ UNCHANGED <<staging, failed, previous, collected, collector, starts>>

SwapIn ==
  /\ migration.pc = "swap" /\ dataset = None
  /\ dataset' = staging /\ staging' = None
  /\ Goto("validate")
  /\ UNCHANGED <<backup, failed, previous, collected, collector, starts>>

\* validate_committed_dataset succeeds.
Validate ==
  /\ migration.pc = "validate"
  /\ backup' = None
  /\ Goto("probe")
  /\ UNCHANGED <<dataset, staging, failed, previous, collected, collector, starts>>

\* The swap or the validation fails: the backup becomes the dataset again, and what
\* is in its place is put away (which fails where there is something already).
RollBack ==
  /\ migration.pc \in {"swap", "validate"} /\ backup # None
  /\ IF dataset # None /\ failed # None
     THEN UNCHANGED <<dataset, backup, failed>>
     ELSE /\ failed' = IF dataset # None THEN dataset ELSE failed
          /\ dataset' = backup /\ backup' = None
  /\ Stop
  /\ UNCHANGED <<staging, previous, collected, collector, starts>>

\* The report of the probe goes into the receipt, whose checksum is then another.
Probe ==
  /\ migration.pc = "probe"
  /\ dataset' = [(IF dataset = None THEN EmptyStaging ELSE dataset)
                   EXCEPT !.receipt = "probed", !.sealed = FALSE]
  /\ Goto("refresh")
  /\ UNCHANGED <<staging, backup, failed, previous, collected, collector, starts>>

\* refresh_dataset_manifest_provenance.
Refresh ==
  /\ migration.pc = "refresh"
  /\ dataset' = IF dataset = None THEN None ELSE [dataset EXCEPT !.sealed = TRUE]
  /\ Stop
  /\ UNCHANGED <<staging, backup, failed, previous, collected, collector, starts>>

\* The process dies, or something else is raised; nothing is cleaned up.
Die ==
  /\ migration.pc # "idle"
  /\ Stop
  /\ UNCHANGED <<directories, collected, collector, starts>>

Next ==
  \/ CollectionBegins \/ CollectionEnds \/ CollectionDies
  \/ Start \/ \E p \in Part : Resume(p) \/ RewritePart(p)
  \/ RecordPart \/ CopyProvenance \/ Compare \/ CheckSource \/ Seal
  \/ PutAside \/ SwapIn \/ Validate \/ RollBack \/ Probe \/ Refresh \/ Die

Spec == Init /\ [][Next]_vars

-----------------------------------------------------------------------------
(* Properties *)

IsCollection(d, v) ==
  /\ DOMAIN d.part = PartsOf[v] /\ d.meta = v
  /\ \A p \in PartsOf[v] : d.part[p].version = v

\* Whatever is found under the name of the dataset is one collection, all of it in
\* the layout its receipt says, with its own metadata: though migrations die and
\* are resumed from the parts of an earlier one, over a source that has changed.
DatasetIsOneCollection ==
  dataset # None =>
    /\ \E v \in Version : IsCollection(dataset, v)
    /\ \A p \in DOMAIN dataset.part :
         dataset.part[p].layout = IF dataset.receipt = "none" THEN "old" ELSE "new"

\* The rows that were collected last are never lost: they are the dataset, or the
\* migration or a collection that died has put them aside.
NewestSurvives ==
  \E d \in {dataset, backup} \cup previous : d # None /\ IsCollection(d, collected)
=============================================================================
