------------------------------ MODULE MCStores ------------------------------
(* What is kept between runs, side by side: a remote dataset published and *)
(* collected, one that is read through local caches, a join of two local   *)
(* datasets with its index, and what a calculated fact says of the         *)
(* calculations it skipped.  A behaviour is about one of the four, the     *)
(* others do not start.                                                    *)
EXTENDS Publication, TLC

CONSTANTS
  Parts,                                           \* what behaviours are about
  Reader, Part, p1, p2, MaxGeneration, GenerationListing, Indexes, ReaderDeployments,
  JoinFile, JoinKey, KeyPartition, Named,          \* JoinAsset,
  Definition, LeftContents, RightContents, PartSize, BatchRows, MaxJoinChanges, FailsIn, MayReturn,
  FirstSides,                                      \* which begins with these
  Expression, Path, Column, Needs, MaxFactChanges, \* CalculationStatus,
  FirstColumns, FirstNeeds                         \* which begins with these

VARIABLES
  part,  \* what this behaviour is about
  readerDeployment, latest, objects, cache, proxies, copies, reader,
  definition, left, right, manifest, frames, run, output, metadata, spoiled, changes,
  needs, upstream, calculations, status, told, noted, factRun, factChanges, attempt, guessed, lost

Operated(appending, overlap, collecting) ==
  [appending |-> appending, overlap |-> overlap, collecting |-> collecting]

\* Publishers overlap, or one at a time publishes appends while the collector runs.
MCDeployments ==
  {Operated(TRUE, TRUE, FALSE), Operated(FALSE, TRUE, FALSE), Operated(TRUE, FALSE, TRUE)}

\* Two generations that share a part; only the second has a planning index.
MCListing == <<p1 :> "a" @@ p2 :> "b", p1 :> "a" @@ p2 :> "c">>
MCIndexes == <<{"groups"}, {"keys"}>>

\* One reader at a time in any way, or two that read whole parts.
ReadBy(modes, overlap, links) == [modes |-> modes, overlap |-> overlap, links |-> links]
MCReading ==
  {ReadBy({"key", "index", "projected", "whole"}, FALSE, l) : l \in BOOLEAN}
    \cup {ReadBy({"whole"}, TRUE, TRUE)}

Remotely ==
  INSTANCE RemoteReader WITH
    Listing <- GenerationListing, Deployments <- ReaderDeployments,
    deployment <- readerDeployment, local <- copies

ASSUME ReaderConstants == Remotely!ReaderAssumption

Row(id, a, b) == [id |-> id, on |-> [a |-> a, b |-> b]]

\* Three keys in two partitions; a right file named after one of them, with two row groups
\* or one, and another that can be empty; either column of the rows can be joined on.
MCKeyPartition == <<"p", "p", "q">>
MCNamed == <<"p", None>>
MCLeftContents == {{1, 2, 3}, {1, 3, None}}
MCRightContents ==
  << {<<{Row(1, 1, 2)}, {Row(2, 2, 1)}>>, <<{Row(3, 1, 1), Row(4, 1, 2)}, {Row(5, None, 2)}>>},
     {<<>>, <<{Row(6, 3, None), Row(7, 3, 3), Row(8, None, None)}>>} >>
MCFirstSides ==
  {<<"a", {1, 2, 3}, <<c, <<{Row(6, 3, None), Row(7, 3, 3), Row(8, None, None)}>>>>>> : c \in MCRightContents[1]}

Joining ==
  INSTANCE JoinAsset WITH
    File <- JoinFile, Key <- JoinKey, PartitionOf <- KeyPartition, Contents <- RightContents,
    MaxChanges <- MaxJoinChanges

ASSUME JoinConstants == Joining!JoinAssumption

\* One expression that is defined with one column or with the other, and one of both.
MCNeeds == [x |-> {{"a"}, {"b"}}, y |-> {{"a", "b"}}]
MCFirstNeeds == [x |-> {"a"}, y |-> {"a", "b"}]
MCFirstColumns == <<{"a"}, {"a", "b"}>>

Calculated ==
  INSTANCE CalculationStatus WITH
    MaxChanges <- MaxFactChanges, manifest <- calculations, run <- factRun, changes <- factChanges

ASSUME StatusConstants == Calculated!StatusAssumption

readerVars == <<readerDeployment, latest, objects, cache, proxies, copies, reader>>
joinVars == <<definition, left, right, manifest, frames, run, output, metadata, spoiled, changes>>
statusVars ==
  <<needs, upstream, calculations, status, told, noted, factRun, factChanges, attempt, guessed, lost>>
storesVars == <<part, vars, readerVars, joinVars, statusVars>>

StoresInit ==
  /\ part \in Parts /\ Init /\ Remotely!Init /\ Joining!Init /\ Calculated!Init
  /\ part # "publishing" => deployment = Operated(FALSE, TRUE, FALSE)
  /\ part # "reading" => readerDeployment = ReadBy({"whole"}, TRUE, TRUE)
  /\ <<definition, left.content, [f \in JoinFile |-> right[f].content]>> \in
       IF part = "joining" THEN FirstSides ELSE {CHOOSE s \in FirstSides : TRUE}
  /\ needs = FirstNeeds /\ \A p \in Path : upstream[p].columns = FirstColumns[p]

OfPublishing == part = "publishing" /\ UNCHANGED <<part, readerVars, joinVars, statusVars>>
OfReading == part = "reading" /\ UNCHANGED <<part, vars, joinVars, statusVars>>
OfJoining == part = "joining" /\ UNCHANGED <<part, vars, readerVars, statusVars>>
OfCalculations == part = "calculations" /\ UNCHANGED <<part, vars, readerVars, joinVars>>

StoresNext ==
  \/ OfPublishing /\ Next
  \/ OfReading /\ Remotely!Next
  \/ OfJoining /\ Joining!Next
  \/ OfCalculations /\ Calculated!Next

StoresSpec == StoresInit /\ [][StoresNext]_storesVars

\* Publishers are interchangeable, and so are readers, which bear the same names.
Symmetry == Permutations(Publisher \cup Reader)

-----------------------------------------------------------------------------
\* What a reader returns is one generation, and it fails for want of a generation only
\* when that has become old.
ReadsTellTruth ==
  Remotely!TypeOK /\ Remotely!ReadsOneGeneration /\ Remotely!MissesOnlyTheOld

\* The joined dataset, its index and its metadata are those of one run (JoinAsset).
JoinIsExact == Joining!TypeOK /\ Joining!JoinIsExact

\* What is said of skipped calculations, and told of them, is what became of them
\* (CalculationStatus).
StatusTellsTruth == Calculated!StatusTellsTruth
=============================================================================
