# Verification of smoking-data

smoking-data is an asset-oriented data engine: YAML definitions are compiled to
plans, plans run as processes that rebuild datasets (directories of Parquet or
SBDF parts with a manifest), and datasets are published to an object store. It
has no server. What must be right in spite of failures is therefore a protocol
over *files and objects*, carried out by processes that may die between any two
system calls and may overlap with another process that runs the same code; and
what must be right in spite of nothing is that the table a plan writes is the
one its definition describes. Both are modelled here. Paths are relative to
`src/smoking_data/` unless they begin with another directory of the repository.

The promises checked are the repository's own: a dataset is completed in a
temporary place and replaces the final one, so that an incomplete dataset is not
exposed (`README.md:50`); datasets are committed atomically (`README.md:13`);
datasets are published as immutable generations (`README.md:148-149`); operations
whose order the kernel cannot preserve are rejected (`runtime/lowering.py:502`).

- [1. The system](#1-the-system)
- [2. The modules](#2-the-modules)
- [3. What each run checks](#3-what-each-run-checks)
- [4. Fairness](#4-fairness)
- [5. What is proved](#5-what-is-proved)
- [6. What is only model-checked, and what is not modelled](#6-what-is-only-model-checked-and-what-is-not-modelled)
- [7. Where code and documents disagree](#7-where-code-and-documents-disagree)
- [8. Plan](#8-plan)
- [9. Running it](#9-running-it)

## 1. The system

| Component | State it keeps | Operations | Hard behaviour | What makes it correct |
| --- | --- | --- | --- | --- |
| dataset transaction (`runtime/transactions.py`, `runtime/metadata.py`) | `final_root`, `.txn-*` and `.backup-*` directories beside it, manifest, metadata | create, commit, abort, `recover_orphan_transactions`, `write_metadata` | a death between two renames; failing renames; removal of a tree seen half done; overlapping runs | readers find a complete dataset or none; recovery restores only complete ones; metadata describes the parts beside it |
| curated asset run (`runtime/runner.py`, `assets/a0201_curated/producer.py`) | plan and snapshot of its sources, candidate files, snapshots, cohort caches | reset, skip, reuse of parts, selection of active rows, workers, commit | sources and definition change while it runs; results kept from earlier runs | skip, reuse and incremental selection give what a full run would |
| pipeline compiler, planners (`runtime/lowering.py`, `core/pipeline.py`, `planning/`) | the compiled document, tasks | expand, compile, lower, cut rows into tasks | the kernel runs its own order of operations; windows and pivots see one task only | what is written is what the operations say in their order, over all rows |
| calculated fact (`assets/a0102_calculated_fact/`) | generations in the manifest, part files, `append.lock`, staging by run key, calculation manifest; the plan of the expressions | delta plan, reserve, stage, commit, roll back, record; bind, layer, project | a lock broken by age; retries with one run key; a death between commit and record; names resolved once for segments that differ | generations are an append-only log, what is recorded is committed, every value is its expression's |
| join asset (`assets/a0301_join/producer.py`) | index of right keys with its manifest | build or reuse the index, plan tasks, bounded join | files and definition change, a run fails with a half-built index | an up-to-date output is the join of both sides |
| native engine (`native/engine/`) | reader, channel, writer thread, temporary files | run one task | a killed process, a retry that finds remains | all rows of the task or none |
| remote publication (`runtime/object_store/publication.py`, `operations.py`) | objects of generations, `catalog/latest.json` with its etag, receipt | snapshot, upload, compare-and-swap of the pointer, receipt, retry, garbage collection | lost responses and deaths between uploads; publishers in the wrong order; deletion of objects that are being reused | the pointer names complete generations and never goes back |
| remote reading (`runtime/object_store/remote_reader.py`, `remote_upstream.py`) | a pinned generation, its local copies | pin, plan, download, project | collection of the generation while it is read | what is read is one generation |
| scheduler (`runtime/scheduler.py`) | `schedules`, `occurrences`, `occurrence_targets` tables, the lock transaction | tick: due minute, check, claim, targets, close | the clock is read before the lock; ticks die; a row outlives its tick | no occurrence runs twice, none is forgotten, rows tell what happened |
| bounded writer (`runtime/bounded_writer.py`) | queue, error and result of a writer thread, its session | submit, finish, abort | failure on either side while the queue is full or empty | a result means every batch; an abandoned session is never completed; nobody waits for ever |
| task runner (`runtime/task_runner.py`) | batches and generations of worker processes, results | run tasks in subprocesses, retry | dead workers, recycling by memory, children that outlive their pool | one result per task, no task twice |
| parquet probe (`runtime/parquet_probe/`) | lock file with a pid, staging, published snapshot | probe, reuse, recovery | the lock is created before its pid is written | the pointer tells the truth about the files |
| asset chain (`runtime/asset_chain.py`) | chain metadata with receipts | topological execution, blocking, reuse | receipts that are stale | an asset is reused only when nothing it depends on changed |
| sources (`assets/a0101_source/pipeline/io.py`, `assets/a0103_csv_source/runner.py`, `runtime/upstream_union.py`) | outputs, backups, catalog, union cache | two renames without recovery | a death between them; files that change back | what is kept was made of what is there |
| layout migration (`migrations/physical_layout/migration.py`) | plan, staging, backup, failed directories | rewrite, compare, swap, validate, roll back, resume | a death anywhere, a collection meanwhile | the dataset is one collection, and the newest survives |
| calculation status (`assets/a0102_calculated_fact/calculation_status.py`) | status file, event log, metadata | compare, write, append events | a death between manifest, status and events; segments and expressions that change in between | what is blocked was skipped, what is recovered was calculated, every change has its event |
| operation registry (`runtime/operation_registry.py`) | tables of operations, nodes, definitions, executions; the completion catalog beside them | record a definition, an execution, an insertion; write the catalog | a catalog made from a query that another process overtook; a row the tables refuse | a run that returned is recorded whole; the catalog says what the registry holds |

The remaining components are listed with the reason why they are not modelled in
`PROJECT.json`: they are loading and wording, observation, or computation without
control state.

How they interact: the **scheduler** starts assets and chains, one target after
the other, under one lock per project. A **chain** runs its assets one after the
other. An **asset run** reads the snapshot the **probe** made, selects rows, hands
tasks to the **task runner**, whose children run the **native engine**, writes large
outputs through the **bounded writer** and makes them visible with the **dataset
transaction**, or appends them with the **calculated fact** protocol, whose upstream
is another asset's dataset. **Publication** reads a committed dataset, without any
lock against the runs that replace it, and **remote reading** follows its pointer.
All of this goes through the file system or the object store: there are no messages
between processes, except the queue of the bounded writer, the channel of a native
task and the pools of the task runner.

## 2. The modules

| Module | Models | Its abstract specification or what it builds on |
| --- | --- | --- |
| `DatasetTransaction` | the transaction inside a run of asset 0201 | `AtomicDataset` |
| `SegmentAppend` | asset 0102: delta, reservation, commit, record | `AppendLog` |
| `Publication` | publishers, the object store, the collector | `RemoteDataset` |
| `RemoteReader` | readers of what `RemoteDataset` allows | `RemoteDataset` is its environment |
| `Scheduler` | ticks over a directory of schedules | |
| `BoundedWriter` | producer and writer thread | |
| `TaskRunner` | a call of the task runner by its two demanding callers | |
| `NativeTask` | a task of the engine: reader, channel, writer thread, temporary files | |
| `ActiveSelection` | the choice of active rows, incremental and cached | a direct definition over all sources |
| `AssetChain` | runs of a chain of assets | |
| `PhysicalProbe` | runs of a probe | |
| `SourceCollection`, `CsvSource`, `UnionCache` | the outputs that are replaced by two renames without recovery | |
| `LayoutMigration` | the migration beside a collection | |
| `JoinAsset` | a join run with the index it keeps | the join of both sides |
| `ColumnOperations`, `CuratedPayload` | the operations of a curated document, and their way from the document to the kernel | the operations in their order |
| `TaskLayout` | rows cut into tasks, windows and pivots over them | windows and pivots over all rows |
| `FactPlan` | planning and calculation of the expressions of asset 0102 | the meaning of an expression in its segment |
| `CalculationStatus` | what a calculated fact says of the calculations it skipped | |
| `OperationRegistry` | runs and authoring tools over the registry and its catalog | |
| `MCRuns`, `MCStores`, `MCAssets`, `MCWorkers`, `MCDefinitions`, `MCScheduler` | instances for TLC | the modules above |
| `MCDatasetTransaction`, `MCPublication`, `MCSegmentAppend`, `MCActiveSelection` | instances for the violation runs | |
| `DatasetTransactionProofs`, `SchedulerProofs`, `PublicationProofs`, `TaskRunnerProofs` | theorems | the module they are named for |
| `AssetsProofs` | theorems about `ActiveSelection`, and about `LayoutMigration`, `SourceCollection`, `CsvSource` and `UnionCache` as `MCAssets` composes them | `MCAssets` |
| `RunsProofs` | theorems about `SegmentAppend` and `PhysicalProbe` as `MCRuns` composes them | `MCRuns` |
| `StoresProofs` | theorems about `CalculationStatus`, `RemoteReader` and `JoinAsset` | `MCStores` |
| `WorkersProofs` | the theorem about `BoundedWriter` | `MCWorkers` |

`MCRuns`, `MCStores`, `MCAssets`, `MCWorkers` and `MCDefinitions` hold several
components side by side that share nothing. Their variable `part` says which one a
behaviour is about; the others do not start. So their state spaces add up instead of
multiplying, and one run asks one question of related components. The parameters of the
parts that theorems are about (`SegmentAppend`, `PhysicalProbe`, `RemoteReader`,
`CalculationStatus`, `JoinAsset`, `BoundedWriter`, `LayoutMigration`, `SourceCollection`,
`CsvSource`, `UnionCache`) are constants of the composed module, which the `.cfg` gives its values: the
theorems are about all values.

Each module has one action per operation that can be seen from outside: one
rename, one link, one write of a file, one request to the object store, one
transaction of the database, one queue operation. What a process computes from
its own variables between two of them is folded into the step. A process keeps a
program counter, and dying is an action that loses its local variables and nothing
else.

**`DatasetTransaction`.** A directory is a record of its part files, what its
manifest lists, the metadata inside it, and whether the provenance section of
the manifest matches that metadata. A part is identified with what it was
computed from (definition and source version), which stands for its bytes and
checksum. `final`, `staging[r]`, `backup[r]` and `swap[r]` are the kinds of
directories. The actions follow a run: `Start`, `BeginReset`/`FinishReset`
(`_reset_pipeline_outputs`), `Fingerprint` and `ValidateUnchanged` (the skip),
recovery (`RemoveStaging`, `RestoreBackup`, `SweepBackup`, `EraseBackup`), `Create`,
`LinkReusable`, `OpenSource`/`WritePart` (a worker compares its source with the
snapshot, then reads it), `Seal`, the swap (`MoveExisting`, `Install`, or
`CopyAcross`/`InstallCopy`/`DropCopied` on another file system), its error paths
(`InstallFails`, `PutBack`, `RestoreExisting`, `DropFails`, `Abort`), and
`WriteMetadata`/`RefreshProvenance`. Removing a tree takes two steps and passes
through a remnant with any subset of its files.

**`SegmentAppend`.** `upstream` holds the contents of each segment; a generation
is a sequence number, the run key and its part files. The lock file is the token
of the run in it and whether it is older than an hour (`LockAges`), which the code takes
for the sign of a dead owner without looking for it, and which happens to a living one
unless the deployment says `heldBriefly`. `FindStale`/`BreakLock`
are the test of the age and the `unlink` that follows it; `Reserve`, `StagePart`,
`Decide`, `MovePart`, `Publish`, `CommitFails`, `Rollback` and `Record` follow
`segment_append.py` and `segment_runtime.py` in order.

**`Publication`, `RemoteDataset`, `RemoteReader`.** `local` is the history of the local
dataset, `store` maps a generation to the objects written under it, `catalog` is the
history of `catalog/latest.json` (its length stands for the etag), `receipt` the local
receipt. A publisher reads the local manifest three times (`ReadManifest`,
`NameGeneration`, `HashManifest`), looks at the pointer (`HeadPointer`,
`ReadParent`), links the parts into its own snapshot, uploads, and swaps the
pointer; every step may fail or be the last. The collector plans, confirms that
the plan is still current, and deletes object by object. `RemoteDataset` is what this
promises to readers; `RemoteReader` takes exactly that promise as its environment, so
that the two are composed without the product of their states.

**`Scheduler`.** `checked`, `row` and `result` are the columns of the three tables
that decide anything. A tick reads the clock (`ReadClock`), takes the lock
(`Acquire`), and for each definition notes the check, claims and runs
(`Check`, `Claim`, `StartTarget`, `EndTarget`, `Finish`). The cron expression
stands behind the set of due minutes. `runs`, `since` and `excused` are history
variables that only properties read.

**`BoundedWriter`, `TaskRunner`, `NativeTask`.** `queue` is the `queue.Queue`; the
producer's `_put` is a look at the error, then a put that waits and times out into
another look. `PlanJoin` and `PlanCandidates` are the callers of the task runner: the
join producer deals its eligible tasks out to batches and drops what it can reuse, the
candidate sidecars calibrate with one task and retry lost tasks with half the batch
size. A generation is one pool: futures are submitted one by one (`Submit` may meet a
pool that broke already), harvested in any order, and the pool is left when its
children have gone. `ProcessPoolExecutor` is external and modelled from how it is used:
a dead child breaks the pool, which fails every future that is not done and terminates
the other children some time later. A `NativeTask` reads the rows its coordinates name,
batch by batch, hands them through a bounded channel to a thread that writes each row to
the file of its partition under a temporary name, and renames the files at the end.

**`ActiveSelection`, `AssetChain`, `PhysicalProbe`, `JoinAsset`** keep something from
one run to the next: candidate files and snapshots, receipts, generations of profiles,
the index of right keys. Each module has the changes around the runs as actions of their
own, and its main property compares what a run kept with what a run without memory
would have made.

**`SourceCollection`, `CsvSource`, `UnionCache`, `LayoutMigration`** replace a directory
by two renames with their own idea of recovery, or none.

**`CuratedPayload`, `TaskLayout`, `FactPlan`** are the algorithms between a definition and
a table. Inputs are all definitions of a small grammar; values are symbolic (a value says
what it was computed from), so that two tables are equal only if they were computed in the
same way. The property compares what the pipeline of passes writes with a direct meaning.

**`CalculationStatus`, `OperationRegistry`** are what runs say of themselves. A calculation is
an expression in a segment, a part of the upstream in one version; `Plan`, `Process`,
`Record`, `WriteStatus`, `AppendEvents` and `WriteMetadata` are the files a run writes, in their order,
and history variables hold what became of each calculation and what a death left unsaid. In
the registry a transaction is one step (`Define`, `Record`, `Insert`), and the catalog is
queried and replaced in two more (`Query`, `Write`), which other processes may come between.

## 3. What each run checks

| Run | Instance | Question |
| --- | --- | --- |
| `runs` | three parts: 3 runs of a dataset of 2 parts, 1 definition, 2 source versions, no overlap; 3 overlapping runs of a calculated fact with 1 segment and 1 contract, or 2 in turn with 2 segments and 2 contracts, whose commits may take an hour; 3 runs of a probe, 2 at once, over 2 files in 2 partitions with 2 changes | deaths and failing renames anywhere: `OutputIsWhole`, `CleanAfterCommit`, `CommittedStays`, `ProbeTellsTruth`, `RecordsWhatItRead`; the refinements `ImplementsAtomicDataset` and `ImplementsAppendLog` |
| `definitions` | five parts: 3 runs of a dataset of 1 part with 2 definitions and 2 versions; documents of at most 3 payload operations; 4 rows in 2 files and 3 row groups; calculated facts of at most 4 expressions over 2 segments; 2 processes at once, or 3 in turn, over a registry of 2 operations with 1 edit | `MetadataTellsTruth` and `SkipIsSound` while the definition is edited; `PayloadIsExact`, `TasksAreWhole`, `FactIsExact`, `RegistryTellsTruth` |
| `scheduler` | 2 ticks, 2 schedules, 2 directories of definitions, 4 minutes, window 1, up to 3 targets | `RunsOnce`, `LiveRowRuns`, `RowTellsTargets`, `CaughtUp`, `RowsEndOnce` |
| `workers` | four parts: 3 or 4 tasks on 2 workers with batch limits of 1, 2 and none, 2 deaths; a queue of 2 and 5 batches; 6 native tasks with one kill; 3 runs of a dataset | `ExactlyOnce`, `SuccessStays`, `WholeOrNothing`, `TaskIsExact`, and under fairness `CallersReturn` |
| `stores` | four parts: 2 publishers, 2 contents, 3 commits, 3 deployments; 2 readers of 2 generations; joins of 3 keys with 2 right files, 2 definitions, 2 changes; a status over 2 parts, 2 expressions, 2 columns with 2 changes | `PublishedIsWhole`, `RetryReproduces`, `LatestNeverGoesBack`, `ImplementsRemoteDataset`; `ReadsTellTruth`; `JoinIsExact`; `StatusTellsTruth` |
| `assets` | six parts: a selection over 2 sources, 3 groups, 3 runs, 2 changes; a chain of 3 assets, 3 graphs, 2 runs, reusing what is unchanged or (on the line) not; a collection of 2 tasks in 5 modes; a text source of 2 files, 3 changes; a union of 2 files, 3 runs; a migration of a dataset of 2 parts, 3 starts | `SelectionIsExact`, `ChainTellsTruth`, `SourcesTellTruth`, `MigrationKeepsData` |
| `dataset_overlap` | 2 runs that overlap, 2 parts | *violation* of `NoIncompleteExposure` |
| `append_stale_lock` | 3 overlapping runs, the lock of a dead one broken in two steps | *violation* of `ImplementsAppendLog` |
| `publication_rerun` | 1 publisher, 1 content, 2 commits | *violation* of `RetryReproduces` |
| `selection_cache` | the cache of global winners is kept between runs | *violation* of `SelectionIsExact` |
| `join_index` | a definition that comes back after a failed run | *violation* of `JoinIsExact` |
| `payload_order` | operations of `materialize` in any order of kinds | *violation* of `WrittenIsMeant` |

Every passing run also checks the type invariants of its parts: that of the module it
extends by the name `TypeOK`, those of the other parts as a conjunct of their properties.
`OutputIsWhole` is type correctness, `NoIncompleteExposure` and `RestorableIsWhole` in one;
`CallersReturn` says of every caller that it gets its answer, and of the last run of a
dataset that it restores the backup it finds. Deadlock is
not checked: in every module the processes really do stop (a run, a tick or a
caller ends, and the bounds end the rest).

The bounds, and why they are enough:

- *Runs* (3). A third one is what it takes for "the second run recovers from the
  first, dies in the middle, and the third recovers from both", and for two waiters at
  the lock of a dead run. Each run is used once, as its transaction id is.
- *Parts, segments, files* (2): one present and one missing is an incomplete dataset;
  one changed and one kept is an incremental run. Where more than one is not
  needed to break a property (a definition that changes, overlapping appends of one
  key) it is 1, to leave room for the third run.
- *Versions, contents, commits* (2, 2, 3): one change while somebody works with
  the old state; three commits let an old publisher meet a pointer that moved
  twice and a collector that retains one generation find another to delete.
- The upstream of a calculated fact changes as long as a run is there that may still read
  it (`Started`): after that nothing depends on it.
- *Minutes* (4) with a *window* of 1: first check, a missed minute inside the
  window, one outside, and the present. *Timeouts* of 1 and 2 are shorter and
  longer than the gaps between due minutes. Three *targets* give one before and
  one after the failed one.
- *Tasks* (3, 4) on two *workers* with a limit of 2: two batches at once and a later
  generation, a batch that is cut with a rest, and a retry that halves the limit. Two
  *deaths*: the second one may meet the retry of what the first one lost.
- *Batches* (5) with a *queue* of 2: full, with one in the hands of the writer
  and one of the producer, and one more.
- *Operations* (3): cast, replace and calculate in every order, a rename between two
  others, a calculation on a calculation. *Rows* (4): a group of two in one row group
  and one elsewhere, and a row of another group.

Symmetry is used for safety only, and only where the sets are interchangeable (runs, and the
parts of the dataset, in `runs`, where the segments and contracts of a calculated fact are
named; never in `workers`, which checks liveness). Assumptions that an instance makes and the code
does not enforce are constants, so that they can be switched off:

- `KeysOf`: each file of a probe lies in one partition (section 7 says what happens when
  it lies in several).
- `ReaderDeployments`: readers that overlap link their files; two that copy one file over
  each other can read it half written.
- `Exclusive`: runs of one asset do not overlap. The scheduler sees to it for the
  targets that only it starts; `dataset_overlap` switches it off.
- `UpstreamStable`: the upstream dataset is not replaced while a calculated fact reads it.
- `CommitsApart`: no commit falls between the three readings of the local manifest.
- `breakAtomically`: nothing happens between the test of a lock's age and its removal;
  `append_stale_lock` switches it off. `SoundLock` is the same for the pid of a probe's lock.
- `heldBriefly`: a run is never inside the append lock for an hour. The code does not see to
  it: `commit` rewrites, moves and hashes every part under the lock and nobody renews the time
  of the file, so that a large or a suspended commit loses its lock to the next waiter
  (section 7). The overlapping deployments of `runs` and `append_stale_lock` assume it; the
  deployment of `runs` in which runs follow one another does not need it. The mutant
  `LockAgesAnyhow` of `runs` drops it and breaks `CommittedStays` and `ImplementsAppendLog`.
- `Undisturbed`: nobody replaces the output of an asset between its commit and the
  receipt the chain takes of it; no collection begins while a migration swaps.
- `Orderly`: no run of a selection is stopped once there is a snapshot to start from. `KeepGlobal = FALSE`: the cache of global winners is emptied between
  runs; `selection_cache` keeps it, as the code does.
- `MayReturn`: what changed comes back: the content of a text file, or the definition of
  a join after a failure, which `join_index` allows.
- `Apart`: assets that share a union do not build it at once.
- `Liberties`: what authors of definitions do not keep to. The passing run has none:
  operations of one phase stand in the kernel's order and renames keep names apart
  (`payload_order` takes the first liberty), every segment has the keys of the lookups
  it is configured with and no expression is named like a column that another reads
  under an alias, and no rolling window has an order.

## 4. Fairness

Only `workers` checks liveness. Its parts have two threads at most: the calling thread
(`MainNext`: the caller of the task runner with its pool, the producer, the reader of a
native task, or the run of a dataset) and the writer thread (`ThreadNext`). Each is
under weak fairness of its own, as two threads that the operating system runs. A
behaviour is about one part, and runs of a dataset follow one another, so that fairness
of the disjunction is fairness of the thread it is about.

Calls of a session and tasks are assumed to return or raise. Deaths, kills, exceptions
of the caller (`ProducerFails`), `Start` and changes of the world are under no fairness;
a failing rename is one of the outcomes of a step, never one that must happen. A `put`
that times out is a step of the producer, so that fairness does not say the queue ever
has room: that must follow from the writer. For the task runner weak fairness of
`Progress` as a whole is less than fairness of each process, and enough because no step
of the protocol can be repeated for ever.

No other run needs fairness; the violation runs check safety or a refinement whose
counterexamples are finite.

## 5. What is proved

Every theorem holds for all values of the constants that the named assumptions of the
component admit (`AbsentAssumption` and `ConstantsAssumption` of the transaction,
`ConstantsAssumption` of the publication, `SchedulerAssumption`, `RunnerAssumption`,
`SelectionAssumption`, and, from `AppendAssumption` on, `ProbeAssumption`, `ReaderAssumption`,
`StatusAssumption`, `JoinAssumption`, `WriterAssumption`, `MigrationAssumption`, `TextAssumption`,
`CollectionAssumption` and `UnionConstants`: bounds that are numbers, deployments and modes
that are well formed, model values that are no members). Those from `AppendAssumption` on
belong to modules that are instantiated; the composed module assumes them by a name of its own (`FactConstants` and
the like), so that TLC evaluates them. Where a theorem needs more, the hypothesis stands
in its statement and is named here with what goes wrong without it. Each property is one
that a run of section 3 checks too, unless the table says otherwise.

| Theorem | Module | States | Under |
| --- | --- | --- | --- |
| `TypeCorrect` | `DatasetTransactionProofs` | `[]TypeOK` | |
| `OutputsAreWhole` | 〃 | `[]OutputIsWhole`: `TypeOK`, `NoIncompleteExposure`, `RestorableIsWhole` | `Exclusive`, a definition that does not change |
| `MetadataIsTrue` | 〃 | `[]MetadataTellsTruth` | `Exclusive` |
| `CommitsCleanUp` | 〃 | `[]CleanAfterCommit` | `Exclusive`, a part at least |
| `SkipsAreSound` | 〃 | `SkipIsSound` (action property) | `Exclusive` |
| `TransactionIsAtomic` | 〃 | the refinement `ImplementsAtomicDataset` | `Exclusive`, a part at least |
| `SchedulerTypeCorrect` | `SchedulerProofs` | `[]TypeOK` | |
| `TargetsRunOnce` | 〃 | `[]RunsOnce` | |
| `LiveRowIsRunning` | 〃 | `[]LiveRowRuns` | |
| `RowsTellTargets` | 〃 | `[]RowTellsTargets` | |
| `RowsAreClosedOnce` | 〃 | `RowsEndOnce` (action property) | |
| `NothingForgotten` | 〃 | `[]CaughtUp` | |
| `PublicationTypeCorrect` | `PublicationProofs` | `[]TypeOK` | `CommitsApart`, `CollectsApart` |
| `PublicationsAreWhole` | 〃 | `[]PublishedIsWhole` | 〃 |
| `PointerNeverGoesBack` | 〃 | `LatestNeverGoesBack` (action property) | 〃 |
| `RetriesReproduce` | 〃 | `[]RetryReproduces` | 〃 and `ApartAppends` |
| `PublicationIsRemoteDataset` | 〃 | the refinement `ImplementsRemoteDataset` | `CommitsApart`, `CollectsApart` |
| `RunnerTypeCorrect` | `TaskRunnerProofs` | `[]TypeOK` | |
| `TasksRunExactlyOnce` | 〃 | `[]ExactlyOnce` | |
| `SuccessIsKept` | 〃 | `SuccessStays` (action property) | |
| `CommittedPartsStay` | `RunsProofs` | `[](Fact!TypeOK /\ Fact!MutualExclusion /\ Fact!CommittedFilesStay)`, which is part of `CommittedStays` | `LocksHold` |
| `ReadIsRecorded` | 〃 | `RecordsWhatItRead` (action property) | 〃 |
| `AppendsAreALog` | 〃 | the refinement `ImplementsAppendLog` | 〃 |
| `CommittedAndRecorded` | 〃 | `[]CommittedStays` | 〃 and `UpstreamStable`, `OneContract` |
| `ProbesTellTruth` | 〃 | `[]ProbeTellsTruth` | `SoundLock`, `OnePartition` |
| `WritersAreWhole` | `WorkersProofs` | `[]WholeOrNothing` | |
| `StatusIsTrue` | `StoresProofs` | `[]StatusTellsTruth` | |
| `ReadersGetOneGeneration` | 〃 | `[]ReadsTellTruth` | readers that overlap link their files |
| `JoinsAreExact` | 〃 | `[]JoinIsExact` | `MayReturn` FALSE, `NamedWhereTheyAre` |
| `SelectionTypeCorrect` | `AssetsProofs` | `[]TypeOK` | `Orderly`, `~KeepGlobal` |
| `SelectionExact` | 〃 | `[]SelectionIsExact` | 〃 |
| `MigrationsKeepData` | 〃 | `[]MigrationKeepsData` | `Undisturbed` |
| `SourcesAreTrue` | 〃 | `[]SourcesTellTruth` | contents that do not return (text source), `Apart` (union) |

**The dataset transaction.** `NoIncompleteExposure` is not inductive, since what becomes
visible next is in the backups and in the staging directory. `ExposureInv` adds: at most
one run is alive (`Alone`); recovery has restored what it can before it removes a backup,
and no backup is left when the transaction is created (`Swept`); while a run is in its
commit, staging and backup hold what the next rename needs (`RunInv`). `Exclusive` is
needed (`dataset_overlap` is the counterexample without it), and so is the definition that
does not change: a changed one removes the visible output in place, long before its
replacement is complete. The theorems in the second half of the module allow the definition to
change at any moment, and follow from one more invariant, `TruthInv`: every tree that once
was the output, a backup, the copy of a copied commit and a remnant of either included,
has metadata that describe its parts and parts that are no newer than their sources
(`Sane`); a staging tree has no metadata before it is committed (`Unrecorded`), which is why
a half-built one is never taken for a result; and `RunTruth` says for each place of a run
which of the trees are gone, and which hold exactly its plan. Under `TruthInv` each step is a step of
`AtomicDataset` (`Publish`, `Withdraw`) or leaves what a reader finds. An asset without
parts is excluded where `finished` would have to tell that it committed.

**The scheduler.** `TypeInv` adds to the types that what a tick remembers lies in the past
and that it runs targets that exist (`Remembered`). `ClaimInv` says that a schedule has one
running row at most, that the row of a tick that executes is running, that an unclaimed
occurrence has run nothing, and that no target that still lies before its tick was run; the
lemma `OneTick` (the lock admits one tick) makes the steps of the other ticks harmless.
`RowInv` adds what is left by the targets of an occurrence, its tick alive or dead
(`Series`: successes, then one failure at most, then targets that never ran) and what a
tick knows of the targets around its index (`Progress`). `CheckInv` is `CaughtUp` with the
fact that a schedule has the history value `since` exactly when it was checked. Nothing is
assumed: these hold for every directory of definitions, and with ticks that die anywhere.

**Publication.** A publisher reads the local manifest, the pointer and the parent at
different moments, and its invariant is the relation between what it read and what it
has uploaded since. `PubInv` has one part for each: what the three readings
have in common (`Reads`), the order of commits (`Follows`), which objects are under the
generation at each place (`Uploads`), that every generation the pointer ever named is
whole and its document later than the one before (`CatalogInv`), that publications that do
not overlap find the pointer where they left it (`SerialInv`), what the collector may still
delete (`CollectorInv`), and what an attempt that failed has left for the next one
(`RetryInv`). The hypotheses are on the set of deployments. `CommitsApart`: no commit
falls between the three readings. `CollectsApart`: the collector runs only beside appends
that are published one at a time. `ApartAppends`: publications that do not overlap are
appends; `publication_rerun` shows a snapshot that cannot be published again. All three are
known limits of the protocol (section 6), and the deployments of `stores` satisfy them.

**The task runner.** The first half of `TaskRunnerProofs` is about planning: a plan is
a sequence of batches in which every task is in one place (`Plan`), and cutting into
chunks, dealing out, filtering and cutting again with half the limit keep it so
(`CoversPlan`, `ChunksPlan`, `DealtPlan`, `ReboundPlan`). The second half is `RunnerInv`:
a task of a call is in exactly one place, in a batch not yet submitted, in a future,
in a rest handed back, or in a result (`PlacesInv`); a future that is done has one
result for each task it took or a rest with the others (`FutureInv`); a child has done a
prefix of its batch (`ChildInv`); no more children than workers (`LimitInv`); what a
broken pool may have started is not submitted again in the same call (`FreshInv`); and
what a caller has kept of its calls fits what it asks for next (`CallInv`). Nothing is
assumed beyond the types of the constants: any number of tasks, workers and deaths.

**The bounded writer.** `BoundedInv` follows the batches: what is written is the beginning of what
was submitted, and until an error the writer's batch and those in the queue continue it, up
to the last one produced (`FlowInv`), whatever the capacity. `MeetingInv` says where the two
threads can stand relative to one another: the object that closes the queue is in it only while
the producer waits for the end of the writer, or after both are through, and a session is
completed only when everything was written and the producer still wants it.

**The appends of a calculated fact.** `AppendInv` starts from the lock: a run inside it is
the one whose token the file holds (`LockInv`). Where runs overlap this rests on `LocksHold`:
no run is inside the lock for an hour (`heldBriefly`), so that a stale file names a run that is
dead, and nothing happens between the test of its age and its removal (`breakAtomically`);
then whoever breaks it takes nothing from a living one. Where runs do not overlap a lock may
grow stale under its living owner, but there is nobody else to break it (`OneAlive`), and
nothing is assumed. Therefore numbers are given
out in order, one per run at most, and belong to one run key, those that are only reserved
included (`LogInv`, `NumberInv`, `NumbersApart`): a retry may meet a generation of its own
number, but then it has its own key, too. With that the parts that a run moves, or removes
again when its commit fails, have a number no generation has, and so nothing that is
committed is touched (`StagedInv`, `GenerationInv`); and when a run publishes, the
manifest is still the one it looked at, without its key and its number, which is the
step of `AppendLog`. `ReadInv` says that the segments a plan does not select stand in the
manifest of the run before as the plan read them, and `CalculatedInv` that the parts of a
run that is about to record are committed and are those of its key. Both halves of
`LocksHold` are assumptions about the operation of the program and not facts of the code:
without `breakAtomically` `append_stale_lock` is the counterexample, without `heldBriefly`
the mutant `LockAgesAnyhow`. `UpstreamStable` is needed for what is
calculated, not for the log; `OneContract` excludes overlapping runs under two contracts,
where a run may keep an entry of the other contract (section 6). The deployments of
`runs` satisfy all three.

**The probe.** `ProbeInv` is about what a run has learnt while others change the source. The
identities and profiles a run holds are versions that were read (`Seen`); once it has compared, the
profiles it took over from the generation before it are those of the identities it found (`ProfileInv`). When it has
built the parts, these are the grid of its profiles, and there is a moment at which all the
profiles stood together, provided that the files which it has yet to look at again turn out to
be the same (`Stood`, `BuiltInv`). So what it publishes is the grid of one moment (`MadeAt`,
`ManifestInv`). `HeldInv` says who has the lock file and who is dead, and `NamedInv` that
what `latest.json` and the runs name is not published again. `SoundLock` is needed: the lock
file exists before its pid is written, and a second process that reads it in between takes its
owner for dead. `OnePartition` is needed, too, which only the attempt to prove this showed
(section 7).

**The remote reader.** Its environment is `RemoteDataset`, which `PublicationIsRemoteDataset`
shows to be implemented by publishers and collector. `PublishedInv` is what the reader needs of
it: every object holds what its generation says, and those of the generation in the pointer are
all there. `DiskInv` says that a local file has the contents of its name or is still being
copied; `Memory`, that what a reader remembers is of the generation it pinned, and that it
misses an object only when the pointer has moved on; `Placed`, that what it has checked off
is on the disk. Two readers that copy (and do not link) one file at once can read it half
written, hence the hypothesis.

**The calculation status.** `StatusInv` relates, for each calculation, the status (`Agrees`) and
its last event (`Said`) to what the history says happened; `Behind` and `Pending` are those
that a run between two of its files has not got to yet. The exceptions of the property
(`guessed`, `lost`) are the two gaps of the code: a run marks as recovered what it did not
process, and events die with the run that wrote their status.

**The join.** Nothing that a run reads is locked, so it can read the sides of different moments.
What saves the dataset is that each change has a time of its own: if the sides are what the
run saw at its beginning (`Unmoved`), they were so all the while (`ChangesAreSeen`). `JoinRunInv` therefore
says of a run only what it has made in that case: keys, index, staged rows and output
(`Exact`). Candidates outlive runs; `Indexed` says that those of a file which still has its
time in the manifest are the candidates of its rows, and `FramesInv` for which definition, also
after runs that failed. For the tasks: a row with a key of the task is in a row group the index
names, or no row group is named and everything is read (`TaskHasItsRows`), filtering before the join drops no
row with a key, and the parts of the partitions divide the keys, so that together the
tasks are the join and no row is in two of them (`TasksAreTheJoin`). `MayReturn` is FALSE: `join_index` is the
counterexample. `NamedWhereTheyAre` (where a file is named after a partition, all
rows with a key of the partition are in such files) is needed since a worker that finds one file so named reads no other.

**Active selection.** `SelectionIsExact` compares the rows of an incremental or cached
run with a direct definition over all sources. The lemmas about the algorithm are: among
the numbers of a set there is a least one (`LeastNumber`); reducing winners of parts
gives the winners of the whole (`FirstOfFirst`, `WinnersSelect`), which is what candidate
files, shards and the two caches rest on (`AcceptedSelect`, `CacheSelects`,
`ShardsSelect`). `SelectionInv` says what survives a run, a failed one included: a candidate
file stamped with the present version and contract holds the winners of its source
(`FilesInv`), what a run has refreshed so far (`RunInv`), a snapshot agrees with its manifest
wherever that agrees with the present (`SnapshotInv`), and entries of the local
cache hold what their keys say (`CacheInv`). `Orderly` excludes a run that dies after
there is a snapshot to start from, a known limit: the manifest of the run before then
vouches for candidate files that are newer. `~KeepGlobal` empties the cache of global
winners between runs; `selection_cache` shows the wrong rows it gives otherwise.

**The migration.** A dataset under its name is one collection (`Newest`), and what replaces
it was read file by file from a dataset that a collector may have changed in the meantime.
`ReadInv` says what that leaves: the plan, the metadata and the rows were collected in this
order, so that if the last comparison finds the manifest of the plan, all three are of one
collection. `DirectoriesInv` and `SwapInv` then follow the two renames: while nothing
has the name, a backup holds the last collection whole. `Undisturbed` (no collection begins
between that comparison and the end of the swap) is fixed in `MCAssets`; the code holds no lock
there.

**The collection of a source.** That the last collection is not lost is not inductive, because a backup that
holds it can be removed: `LossInv` asks for a backup that its task is not about to remove
(`Dropping`). That a run which returns tells the truth rests on `TaskInv`: for the latest
run it says of every step of a task which output is in place, which backups are its own and of
which attempt; `Otherwise` is what stays if the attempt fails. `OrderInv` gives that no
other run is at work then, unless the mode lets runs overlap.

**The text source.** The entries of a manifest are kept by runs that died or saw files change
under them, so they need not be true. They are `Honest`: the checksum of an entry is never newer than
the rows, and the rows never newer than the file. A file with the time or
the checksum of its entry therefore has exactly the rows of the entry, if contents do not
return (`MayReturn` is FALSE: a file that
was replaced between checksum and reading, and later gets back what the checksum was of, would be taken
for unchanged). `CurrentInv` is about the
file a run looks at, `ExactInv` about what is staged as long as nothing changes.

**The union of upstreams.** A cache is named after what was listed, and read afterwards
(`ReadAfter`): what it holds is between its name and the present, so under the name of the present it is
the present. `OneRuns` is `Apart`: of overlapping runs one can delete the cache the other uses.

The proofs are laid out alike: a lemma for each group of actions that says what the step
leaves alone, a lemma for each part of the invariant, one step per action under the
lemma that `Next` keeps it, and at the end the theorem that follows from it.

## 6. What is only model-checked, and what is not modelled

With TLC only:

- `CallersReturn`: liveness under fairness is out of the prover's reach.
- `PayloadIsExact`, `TasksAreWhole`, `FactIsExact`, `TaskIsExact`: what passes and
  folds over a document, an expression or rows compute. A proof for every input is an
  induction over the data for each of the passes.
- `ChainTellsTruth`: what is up to date is defined by recursion along the graph of the
  assets, and so is the order of execution.
- `RegistryTellsTruth`: a short protocol over a handful of files, of which small instances
  meet every order of steps.

Left out of the modelled components:

- *Dataset transaction*: the `reset_before_run` option; the temporary directory that
  a copy across file systems leaves when it dies (nothing ever removes it).
- *Calculated fact, append*: the full scan of an upstream dataset without a change
  receipt; the temporary file name that overlapping writers of the calculation manifest
  share (the write is one step). That the calculation manifest is read twice is modelled;
  two *overlapping* runs under two contracts are not.
- *Calculated fact, expressions*: types of literals and keys; of what loading a definition
  refuses, `Loads` and `AliasesAccepted` have what the plan rests on (columns included in a
  long output, lookups of one name, an alias of two columns). Known and excluded by `Liberties`: every lookup of a run is configured for every
  segment, although its key is projected only for selected expressions, so that a
  segment without it fails the whole run; a skipped expression named like a source
  column that another one reads through an alias is filled with the raw column in wide
  output; an expression named like an identity or retained column overwrites it. Columns of lists
  are expanded and compacted in place, and a list stands for its elements.
- *Calculation status*: an upstream without receipts (a full scan recovers nothing), and
  compacted names, which never recover.
- *Operation registry*: the query API and the rendering of the catalog; the sizing registries.
- *Operations of curated assets*: joins, snapshots, `list_restore`, unnest and filters
  are left out of `CuratedPayload`; every cast is to text. Renames that `PlainRenames`
  excludes: `{a: b, b: c}` loses a column (`producer.py:6336`), a cast whose column is
  renamed and then consumed is dropped, a swap followed by a rename that is hoisted does
  not end, and a hoisted rename leaves earlier operations with the old name. A calculated
  column of `sort_first` that only the sidecar needs is required of the source.
- *Windows and pivots*: `TaskLayout` excludes rolling windows with an order (the kernel
  orders `lag` and `lead` only, `expression_executor.rs:775`). Not modelled: ties of
  `LastValueForMin`, labels that look like the texts for null, the columns of pivots
  that differ from part to part, and types of merged pieces.
- *Active selection*: sizes in bytes, the bundles of sources, null sort keys of mixed type;
  the pruning of the caches beyond 512 entries.
- *Native task*: an empty batch of a partitioned task, which panics and leaves its
  temporary files; page pruning and the coordinate format.
- *Join*: a right key of another type than the left one; estimates of sizes. `_candidate`
  files are one per right file. A task is taken over from a run before by its fingerprint only
  if its left side is no keyspace, and the keyspace is a new file in every run.
- *Text source*: the parsing of lines. Files that are reused by checksum keep their old
  `source_modified_at`; two rules of a dataset may write one flat name.
- *Publication*: a multipart upload looks at the final key and then copies without a
  condition, and is modelled as one conditional put. The age of a generation that the
  collector goes by is that of its last upload. Without `CommitsApart`
  `GenerationHoldsItsContent` fails, since the local manifest is read three
  times (`publication.py:142`, `:665`, `:164`); when publications of appends overlap,
  `RetryReproduces` fails although `:454` asks for a retry; and when the collector
  runs beside overlapping publishers the pointer can name a generation of which objects
  are missing. These are known limits of the protocol and the reason for the fields of
  `Deployment`.
- *Scheduler*: definitions do not change (an edited time zone changes the key of an
  occurrence); the `--now` option; a third tick that is stalled for minutes
  between clock and lock, which may claim an occurrence that a later one superseded.
  `CaughtUp` excuses what the code lets go: a death between check and claim,
  a schedule that was found running, minutes outside of the window.
- *Task runner*: the order of results (by task id), which decides only the failure that is
  reported; a child that takes a call item of a pool already broken (its outcome is
  dropped). When a child dies while tasks are still being submitted, `submit` raises, and
  the candidate sidecars do not retry: `OneResultEach` speaks of calls that return.
- *Bounded writer*: an interrupt inside the join of `finish`; that the session's `abort`
  is called again after it raised. The thread sets its error before it cleans up,
  and `abort` returns at once after a failed `finish`: `NothingBehind` allows exactly
  this remainder.
- *Layout migration*: its working directories `.layout-…` are visible to readers that
  list the directory above; the properties speak of the dataset's own name.
- *Asset chain*: receipts hold size and time of every file of an upstream output,
  metadata included, and `write_metadata` renews that file in every run, a skipped one
  included, so that a chain whose roots always execute can hardly ever reuse an asset.

The other components are listed in `PROJECT.json` with the reason.

## 7. Where code and documents disagree

- `dataset_overlap`: `recover_orphan_transactions` removes the staging directory of a
  run that is alive, and the manifest is then made from whatever is left: the
  overlapped run commits a dataset with no parts.
- `append_stale_lock`: of two waiters that find `append.lock` stale, the slower one
  removes the lock that the faster one just took; one committed generation is lost. The
  same loss has a second cause, which needs no race of waiters: the age of the file is taken for
  the death of its owner, so that the lock of a commit of more than an hour is broken while it
  runs (section 3, `heldBriefly`), and both runs publish from the manifest that each has read.
- `publication_rerun`: the identity of a generation hashes its parts only, but the
  renewed manifest and metadata are uploaded under it as immutable objects, so that a
  dataset that was kept unchanged cannot be published again after its next run.
- `selection_cache`: routes of a bundle are built anew without the key of their contents,
  so that the cache of global winners answers for a source that has changed since.
- `join_index`: the index of a failed run stands under the manifest of the definition
  before it; when that definition comes back, rows are missing from the join.
- `payload_order`: after `materialize`, casts, replacements and calculations may stand in
  any order, but the kernel runs its own; the validation that should reject this gives
  all three one phase.

Met while modelling and proving, with no document that says otherwise:

- *Probe of a file in several partitions* (`probe.py:1023-1053`): when one partition must
  be made anew because another of its files changed, every file of it is inspected again,
  unchanged ones included, and their profiles are replaced in place. If such a file is
  replaced meanwhile, `_validate_source_unchanged` compares it with its new profile and
  finds nothing, while another partition of the same file was copied with its old rows:
  the generation holds two versions of one file. With `KeysOf` `<<{"a"}, {"a", "b"}>>` TLC
  finds it; `ProbesTellTruth` excludes it by `OnePartition`.
- *Calculation status* (`calculation_status.py:74`): a blocked calculation of a segment that the
  run did not select is called recovered without having been calculated; a crash between
  the status and the event log loses the events for good (`:114`).
- *Operation registry* (`operation_registry.py:315`): a committed run whose graph holds one
  operation with the same inputs under two aliases is not recorded, since the second row
  has the key of the first.

## 8. Plan

What is left, in this order.

1. Filters, joins and unnest in `ColumnOperations`.
2. A theorem about the operation registry.
3. Publications of large objects, which a multipart upload splits (`backend.py:349`).

## 9. Running it

`tlc -config <cfg> <module>` for the runs named in `PROJECT.json`, and `tlapm <module>`
for the modules whose names end in `Proofs`. With two workers `definitions` takes half a
minute and the other passing runs one to three minutes; the violation runs take seconds.
`PROJECT.json` also maps every definition to the lines it models and names, for each
property, a change of the code that breaks it.
