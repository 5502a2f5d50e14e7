------------------------------ MODULE MCAssets ------------------------------
(* What the runs of assets do to their data, side by side: the selection of  *)
(* the active rows, a chain of assets, the collection of a source, a text    *)
(* source, a union of upstreams, and the migration of a dataset.  They share *)
(* nothing: a behaviour is about one of them, the others do not start.       *)
EXTENDS ActiveSelection

CONSTANTS
  Asset, Graphs, ChainRuns,                         \* AssetChain
  SourceRuns, SourceAttempts, SourceModes,          \* SourceCollection
  TextFile, TextChanges,                            \* CsvSource
  UnionFile, UnionRun, UnionChanges,                \* UnionCache
  Part, PartsOf, MaxVersion, MaxStarts, p1, p2      \* LayoutMigration

VARIABLES
  part,  \* what this behaviour is about
  inputs, unchangedPolicy, definition, external, outputs, record, chainPc, order, result, seen,
  other, clock, chainRuns, chainChanges, chainQuiet,
  mode, collection, aside, staged, shared, catalog, runPc, at, attempt, moved, before, newest,
  file, textContract, output, parked, run, textChanges, textRuns, textQuiet, ended,
  member, cache, replaced, union, memberChanges, memberQuiet,
  dataset, staging, backup, failed, previous, collected, collector, migration, starts

\* Three sources of two groups and more: no row, one, or two in a group.
MCPartitionOf == <<"a", "a", "b">>
MCContents == { <<{2}, {1, 2}, {}>>, <<{}, {}, {2}>>, <<{1}, {2}, {1}>> }
MCFirst ==
  { <<<<{2}, {1, 2}, {}>>, None>>, <<<<{2}, {1, 2}, {}>>, <<{}, {}, {2}>>>>, <<None, <<{}, {}, {2}>>>> }

\* A line against the order of the definition, a join, and a cycle.
MCGraphs == {<<{2}, {3}, {}>>, <<{}, {}, {1, 2}>>, <<{2}, {1}, {}>>}

\* All of them reuse what has not changed; that nothing is reused is tried on the line.
MCFirstChains ==
  {<<g, "skip">> : g \in MCGraphs} \cup {<<<<{2}, {3}, {}>>, "run">>}

Chain ==
  INSTANCE AssetChain WITH
    MaxRuns <- ChainRuns, Undisturbed <- TRUE, world <- external, output <- outputs,
    pc <- chainPc, runs <- chainRuns, changes <- chainChanges, quiet <- chainQuiet

\* Two workers, a warm-up, a test run of one task, runs that begin anew or overlap.
Collecting(n, limit, workers, warmup, reset, overlap) ==
  [tasks |-> n, limit |-> limit, workers |-> workers, warmup |-> warmup, reset |-> reset,
   overlap |-> overlap]
MCModes ==
  { Collecting(2, 2, 2, FALSE, FALSE, FALSE), Collecting(2, 2, 2, TRUE, FALSE, FALSE),
    Collecting(2, 1, 1, FALSE, FALSE, FALSE), Collecting(2, 2, 1, FALSE, TRUE, FALSE),
    Collecting(1, 1, 1, FALSE, FALSE, TRUE) }

Collected ==
  INSTANCE SourceCollection WITH
    MaxRuns <- SourceRuns, MaxAttempts <- SourceAttempts, Modes <- SourceModes, output <- collection, pc <- runPc

ASSUME CollectionConstants == Collected!CollectionAssumption

Text ==
  INSTANCE CsvSource WITH
    File <- TextFile, MaxChanges <- TextChanges, MayReturn <- FALSE, contract <- textContract,
    changes <- textChanges, runs <- textRuns, quiet <- textQuiet

ASSUME TextConstants == Text!TextAssumption
ASSUME UnionConstants == UnionChanges \in Nat

Union ==
  INSTANCE UnionCache WITH
    File <- UnionFile, Run <- UnionRun, MaxChanges <- UnionChanges, Apart <- TRUE,
    file <- member, parked <- replaced, run <- union, changes <- memberChanges, quiet <- memberQuiet

\* A dataset of two parts; a later collection may have one, or both.
MCPartsOf == <<{p1, p2}, {p1}, {p1, p2}>>

Migration == INSTANCE LayoutMigration WITH Undisturbed <- TRUE

ASSUME MigrationConstants == Migration!MigrationAssumption

chainVars ==
  <<inputs, unchangedPolicy, definition, external, outputs, record, chainPc, order, result, seen,
    other, clock, chainRuns, chainChanges, chainQuiet>>
collectionVars ==
  <<mode, collection, aside, staged, shared, catalog, runPc, at, attempt, moved, before, newest>>
textVars == <<file, textContract, output, parked, run, textChanges, textRuns, textQuiet, ended>>
unionVars == <<member, cache, replaced, union, memberChanges, memberQuiet>>
migrationVars ==
  <<dataset, staging, backup, failed, previous, collected, collector, migration, starts>>
assetsVars ==
  <<part, vars, chainVars, collectionVars, textVars, unionVars, migrationVars>>

AssetsInit ==
  /\ part \in {"selection", "chain", "collection", "text", "union", "migration"}
  /\ Init /\ Chain!Init /\ Collected!Init /\ Text!Init /\ Union!Init /\ Migration!Init
  /\ content \in IF part = "selection" THEN MCFirst ELSE {[s \in Source |-> None]}
  /\ <<inputs, unchangedPolicy>> \in
       IF part = "chain" THEN MCFirstChains ELSE {<<CHOOSE g \in Graphs : TRUE, "skip">>}
  /\ part # "collection" => mode = CHOOSE m \in SourceModes : TRUE

OfSelection ==
  /\ part = "selection"
  /\ UNCHANGED <<part, chainVars, collectionVars, textVars, unionVars, migrationVars>>
OfChain ==
  /\ part = "chain"
  /\ UNCHANGED <<part, vars, collectionVars, textVars, unionVars, migrationVars>>
OfCollection ==
  /\ part = "collection"
  /\ UNCHANGED <<part, vars, chainVars, textVars, unionVars, migrationVars>>
OfText ==
  /\ part = "text"
  /\ UNCHANGED <<part, vars, chainVars, collectionVars, unionVars, migrationVars>>
OfUnion ==
  /\ part = "union"
  /\ UNCHANGED <<part, vars, chainVars, collectionVars, textVars, migrationVars>>
OfMigration ==
  /\ part = "migration"
  /\ UNCHANGED <<part, vars, chainVars, collectionVars, textVars, unionVars>>
AssetsNext ==
  \/ OfSelection /\ Next
  \/ OfChain /\ Chain!Next
  \/ OfCollection /\ Collected!Next
  \/ OfText /\ Text!Next
  \/ OfUnion /\ Union!Next
  \/ OfMigration /\ Migration!Next

AssetsSpec == AssetsInit /\ [][AssetsNext]_assetsVars

-----------------------------------------------------------------------------
\* The properties of the chain, the sources and the migration, by their names.
ChainTellsTruth ==
  Chain!TypeOK /\ Chain!OkMeansUpToDate /\ Chain!FailureStopsDownstream
SourcesTellTruth ==
  /\ Collected!TypeOK /\ Collected!CollectionTellsTruth
  /\ Text!TypeOK /\ Text!OutputIsExact
  /\ Union!TypeOK /\ Union!UnionIsExact
MigrationKeepsData ==
  Migration!TypeOK /\ Migration!DatasetIsOneCollection /\ Migration!NewestSurvives
=============================================================================
