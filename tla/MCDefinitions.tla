--------------------------- MODULE MCDefinitions ---------------------------
(* What becomes of what authors write, side by side: a dataset whose        *)
(* definition is edited between its runs, the operations of a curated       *)
(* asset, its windows and pivots over the tasks its rows are cut into, the  *)
(* expressions of a calculated fact, and what the registry holds of the     *)
(* definitions and their runs.  A behaviour is about one of the five, the   *)
(* others do not start.                                                     *)
EXTENDS DatasetTransaction, TLC

CONSTANTS Liberties  \* what authors do not keep to (CuratedPayload, TaskLayout, FactPlan)

VARIABLES
  part,  \* what this behaviour is about
  document, status, compiled, lowered, request, table,
  spec, columns, factStatus, factPlan, fact,
  rows, op, limit, layoutStatus, tasks, output,
  registered, yaml, specs, nodes, definitions, executions, inserts, catalog, process, edits, behind

-----------------------------------------------------------------------------
(* The operations of a curated asset *)

Op == INSTANCE ColumnOperations

\* Casts, calculations that build on one another, columns replaced, left out, renamed (by name,
\* by swap and along a line) and unpivoted.
MCPayload ==
  { Op!CastOf({"a"}), Op!CastOf({"b"}), Op!ReplaceOf("a", "a"), Op!ReplaceOf("a", "x"),
    Op!CalcOf("x", {"a"}), Op!CalcOf("y", {"x"}), Op!CalcOf("a", {"b"}),
    Op!IncludeOf({"p", "a"}), Op!IncludeOf({"p", "c"}), Op!ExcludeOf({"b"}),
    Op!RenameOf(<< <<"a", "c">> >>), Op!RenameOf(<< <<"x", "b">> >>), Op!RenameOf(<< <<"b", "a">> >>),
    Op!RenameOf(<< <<"a", "b">>, <<"b", "a">> >>), Op!RenameOf(<< <<"a", "b">>, <<"b", "c">> >>),
    Op!UnpivotOf({"p"}, {"a", "b"}, "n", "v"), Op!UnpivotOf({"p"}, {"c"}, "n", "a"),
    Op!AssertOf({"c"}), Op!AssertOf({"x", "b"}) }
MCSidecar == {Op!CastOf({"a"}), Op!CalcOf("x", {"a"}), Op!ReplaceOf("a", "a")}

Curated ==
  INSTANCE CuratedPayload WITH
    SourceColumn <- {"p", "a", "b"}, PartitionColumn <- "p", Payload <- MCPayload,
    Sidecar <- MCSidecar, MaxPayload <- 3, Methods <- {"all_rows", "sort_first"},
    Liberties <- Liberties \cap {"order", "renames"}, plan <- compiled

ASSUME Curated!PayloadAssumption

-----------------------------------------------------------------------------
(* The tasks of a curated asset *)

Opt(S) == {{}} \cup {{x} : x \in S}

\* Windows by the key: without an order, with one, and rolling.
Window(f, by) == [function |-> f, by |-> by, n |-> 2, minimum |-> 1,
                  ordered |-> FALSE, nulls |-> "last", descending |-> FALSE]
OrderedWindow(f, nulls, descending) ==
  [Window(f, {"key"}) EXCEPT !.ordered = TRUE, !.nulls = nulls, !.descending = descending]
Windows ==
  {Window(f, {"key"}) :
     f \in {"count", "uniquecount", "sum", "max", "median", "nthlargest", "denserank", "rankreal",
            "valueformax", "valueformin", "firstvalidafter", "lastvalidbefore", "first", "last",
            "mostcommon", "uniqueconcatenate"}}
  \cup {OrderedWindow(f, n, d) :
          f \in {"rownumber", "lag", "lead"}, n \in {"first", "last"}, d \in BOOLEAN}
Rolling(nulls, descending) ==
  {OrderedWindow(f, nulls, descending) : f \in {"rollingsum", "rollingmax"}}

Pivot(aggregation, keys, nullColumn) ==
  [rowKeys |-> keys, columnKeys |-> {"sub"}, aggregation |-> aggregation,
   nullColumn |-> nullColumn, duplicates |-> "error"]
NoPivot == [rowKeys |-> {}, columnKeys |-> {}, aggregation |-> "none",
            nullColumn |-> "error", duplicates |-> "error"]
Operations(windows, pivot, selection) ==
  [windows |-> windows, pivot |-> pivot, selection |-> selection]

\* Four rows in two files and three row groups, the last always the same.
Places == {<<1, 1, 1>>, <<1, 2, 2>>, <<2, 1, 1>>}
LastPlace == <<2, 1, 2>>
OrderAt == (<<1, 1, 1>> :> {2}) @@ (<<1, 2, 2>> :> {}) @@ (<<2, 1, 1>> :> {1})
RowOf(t, order) == [partition |-> t[1], key |-> t[2], sub |-> t[3], value |-> t[4], order |-> order]
Snapshots(partitions, keys, subs, values) ==
  {[x \in Places \cup {LastPlace} |->
      IF x = LastPlace THEN RowOf(<<{1}, {1}, {1}, {2}>>, {2}) ELSE RowOf(t[x], OrderAt[x])] :
     t \in [Places -> partitions \X keys \X subs \X values]}

\* Windows over values, windows and no windows over partitions, pivots of cells with any rows,
\* and pivots of what a window calculated.
MCCases ==
  (Snapshots({{1}}, Opt({1}), {{1}}, Opt({1, 2}))
     \X ({Operations(Windows, NoPivot, {"key"})}
         \cup {Operations(Rolling(n, d), NoPivot, s) :
                 n \in {"first", "last"}, d \in BOOLEAN, s \in {{}, {"key"}}}))
  \cup
  (Snapshots({{1}, {2}}, Opt({1}), {{1}}, {{1}})
     \X {Operations(w, NoPivot, s) :
           w \in {{}, {Window("count", {"key"})}, {Window("count", {})},
                  {Window("count", {"key"}), Window("sum", {})}},
           s \in {{}, {"key"}}})
  \cup
  (Snapshots({{1}}, {{1}, {2}}, Opt({1}), {{}, {2}})
     \X ({Operations({}, Pivot(a, {"key"}, n), {"key"}) :
            a \in {"first", "sum", "count", "min", "unique_concatenate"}, n \in {"error", "label"}}
         \cup {Operations({Window("count", {"key"})}, Pivot("sum", k, "label"), {"key"}) :
                 k \in {{"key", "value"}, {"value"}}}))

\* Tasks limited by rows, by bytes and row groups, and by files.
Limit(nRows, bytes, files, rowGroups, piece) ==
  [rows |-> nRows, bytes |-> bytes, files |-> files, rowGroups |-> rowGroups, piece |-> piece]
MCLimits == {Limit(2, 9, 9, 9, 1), Limit(9, 3, 2, 2, 1), Limit(9, 5, 1, 2, 2)}

Layout ==
  INSTANCE TaskLayout WITH
    Cases <- MCCases, Limits <- MCLimits, BytesOf <- <<1, 2>>,
    Liberties <- Liberties \cap {"rolling"}, status <- layoutStatus

ASSUME Layout!LayoutAssumption

-----------------------------------------------------------------------------
(* The expressions of a calculated fact *)

Expr(name, refs, kind) == [name |-> name, refs |-> refs, kind |-> kind]

\* Of columns, aliases (v), looked up values (w), one another, or nothing there is (q); of lists
\* natively, by calls and by windows; and expressions named like the columns they read.
MCExpressions ==
  { Expr("x", {"a"}, "native"), Expr("x", {"v"}, "call"), Expr("x", {"w"}, "native"),
    Expr("x", {"y"}, "native"), Expr("x", {"q"}, "native"),
    Expr("y", {"x", "b"}, "native"), Expr("y", {"x", "L.w"}, "native"), Expr("y", {"a"}, "call"),
    Expr("y", {"v"}, "window"),
    Expr("a", {"b"}, "native"), Expr("a", {"a", "k"}, "native"), Expr("b", {"a", "b"}, "native") }

MCFiles == {E \in SUBSET MCExpressions : E # {} /\ \A e, f \in E : e.name = f.name => e = f}

\* Facts and wide outputs: mode, identity, included columns; the last is refused.
MCOutputs ==
  { <<"long", {"id"}, {}>>, <<"long", {"id", "k"}, {}>>, <<"wide", {"id"}, {}>>,
    <<"wide", {"id"}, {"k"}>>, <<"wide", {"id"}, {"a"}>>, <<"long", {"id"}, {"k"}>> }

Lookup(alias, unique) == [alias |-> alias, key |-> "k", columns |-> {"w"}, unique |-> unique]
MCLookups ==
  {{}, {Lookup("L", TRUE)}, {Lookup("L", TRUE), Lookup("M", TRUE)}, {Lookup("L", FALSE)},
   {Lookup("L", TRUE), Lookup("L", FALSE)}}

\* The alias v of b, alone, with b expanded, or of two columns.
MCNames == { <<{<<"v", "b">>}, {}>>, <<{<<"v", "b">>}, {"b"}>>, <<{<<"v", "a">>, <<"v", "b">>}, {}>> }

\* Lookups only where they are read, and other names only where v is read.
Reads(expressions, n) == \E e \in expressions : n \in e.refs
MCSpecs ==
  {s \in {[expressions |-> E, mode |-> o[1], identity |-> o[2], include |-> o[3], lookups |-> l,
           aliases |-> n[1], expand |-> n[2]] :
             E \in MCFiles, o \in MCOutputs, l \in MCLookups, n \in MCNames} :
     /\ s.expand # {} \/ s.aliases # {<<"v", "b">>} => Reads(s.expressions, "v")
     /\ s.lookups # {} => Reads(s.expressions, "w") \/ Reads(s.expressions, "L.w")}

\* Two segments: one with any columns, the other with all or few.
MCSchemas ==
  {<<c, d>> : c \in {{"id"} \cup X : X \in SUBSET {"a", "b", "k"}} \cup {{"a", "b", "k"}},
              d \in {{"id", "a", "b", "k"}, {"id", "a"}}}

Calculated ==
  INSTANCE FactPlan WITH
    Segment <- {1, 2}, Specs <- MCSpecs, Schemas <- MCSchemas, ListColumn <- {"b"},
    Qualified <- "L.w" :> <<"L", "w">>, Liberties <- Liberties \cap {"keys", "names"},
    plan <- factPlan, status <- factStatus

ASSUME Calculated!FactAssumption

-----------------------------------------------------------------------------
(* The registry *)

Node(alias, operation, node) == [alias |-> alias, spec |-> operation, node |-> node]

TwoAtOnce == [processes |-> {1, 2}, overlap |-> TRUE]
OneNode == {Node("x", "s", 1)}

\* Two runs and an author at a time, or two at once; graphs of one operation, of another one
\* that no longer exists, and of the same one twice.
Registry ==
  INSTANCE OperationRegistry WITH
    Process <- {1, 2, 3}, Definition <- {"d"}, Spec <- {"s", "t"}, Removed <- {"t"},
    Deployments <- {TwoAtOnce, [processes |-> {1, 2, 3}, overlap |-> FALSE]},
    Graphs <- {OneNode, {Node("y", "s", 1), Node("x", "t", 2)},
               {Node("x", "s", 1), Node("y", "s", 1)}},
    MaxEdits <- 1, None <- Absent, deployment <- registered

ASSUME Registry!RegistryAssumption

-----------------------------------------------------------------------------
payloadVars == <<document, status, compiled, lowered, request, table>>
factVars == <<spec, columns, factStatus, factPlan, fact>>
layoutVars == <<rows, op, limit, layoutStatus, tasks, output>>
registryVars ==
  <<registered, yaml, specs, nodes, definitions, executions, inserts, catalog, process, edits, behind>>
definitionsVars == <<part, vars, payloadVars, factVars, layoutVars, registryVars>>

DefinitionsInit ==
  /\ part \in {"dataset", "payload", "tasks", "fact", "registry"}
  /\ Init /\ Curated!Init /\ Layout!Init /\ Calculated!Init /\ Registry!Init
  /\ part # "registry" => registered = TwoAtOnce /\ yaml["d"].graph = OneNode

OfDataset == part = "dataset" /\ UNCHANGED <<part, payloadVars, layoutVars, factVars, registryVars>>
OfPayload == part = "payload" /\ UNCHANGED <<part, vars, layoutVars, factVars, registryVars>>
OfTasks == part = "tasks" /\ UNCHANGED <<part, vars, payloadVars, factVars, registryVars>>
OfFact == part = "fact" /\ UNCHANGED <<part, vars, payloadVars, layoutVars, registryVars>>
OfRegistry == part = "registry" /\ UNCHANGED <<part, vars, payloadVars, layoutVars, factVars>>

DefinitionsNext ==
  \/ OfDataset /\ Next
  \/ OfPayload /\ Curated!Next
  \/ OfTasks /\ Layout!Next
  \/ OfFact /\ Calculated!Next
  \/ OfRegistry /\ Registry!Next

DefinitionsSpec == DefinitionsInit /\ [][DefinitionsNext]_definitionsVars

\* Runs and the definitions of the dataset are interchangeable: sound for safety only.
Symmetry == Permutations(Run) \cup Permutations(Definition)

-----------------------------------------------------------------------------
\* The written table is what the operations say in their order; the compiler knows its columns,
\* and what it accepts is written.
WrittenIsMeant == Curated!WrittenIsMeant
PayloadIsExact ==
  /\ Curated!TypeOK
  /\ WrittenIsMeant /\ Curated!CompiledKnowsColumns
  /\ Curated!RequestEnds /\ Curated!RequestIsWritten

\* The rows of a curated asset are all in tasks that fit; windows and pivots calculated task by
\* task are those over all rows (TaskLayout).
TasksAreWhole ==
  /\ Layout!TypeOK
  /\ Layout!TasksHoldTheRows /\ Layout!WindowsAreWhole /\ Layout!PivotIsWhole
  /\ Layout!FailsForItsRows /\ Layout!NothingRejected

\* A calculated fact is planned and calculated as its expressions say (FactPlan).
FactIsExact ==
  /\ Calculated!TypeOK
  /\ Calculated!PlanIsExact /\ Calculated!TasksFindTheirInputs
  /\ Calculated!FactIsExact /\ Calculated!EmptyOnlyWithoutInputs

\* The registry holds the runs that ended, and its catalog says what it holds
\* (OperationRegistry).
RegistryTellsTruth ==
  Registry!TypeOK /\ Registry!RunsAreRecorded /\ Registry!CatalogCatchesUp
=============================================================================
