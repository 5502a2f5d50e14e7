--------------------------- MODULE CuratedPayload ---------------------------
(* How the operations of a curated document become a written table: the    *)
(* document is expanded to one chain of operations, compiled against the   *)
(* columns of its source, lowered to the fixed stages of the native kernel *)
(* (cast, replace, calculate, rename, post operations), turned into a      *)
(* request for the columns to read, and executed.  The kernel runs its own *)
(* order, so what has to be right is that the table it writes is the one   *)
(* the operations describe in the order in which they are written.         *)
(*                                                                         *)
(* Rows are selected elsewhere (ActiveSelection), so one row of the source *)
(* is enough.  Two columns that a request reads under one name are told    *)
(* apart nowhere; PlainRenames keeps them apart.                           *)
EXTENDS ColumnOperations, FiniteSets, Functions

CONSTANTS
  SourceColumn,     \* columns in the source's files
  PartitionColumn,  \* the column the dataset is partitioned by
  Payload,          \* operations an author may write under materialize
  Sidecar,          \* operations an author may write under build_sidecar
  MaxPayload,       \* operations under materialize, at most
  Methods,          \* of active_row_selection: "all_rows", "sort_first"
  Liberties         \* what authors do not keep to: "order" of kinds, plain "renames"

\* Assumed of the constants (where the module is used).
PayloadAssumption ==
  /\ PartitionColumn \in SourceColumn /\ MaxPayload \in Nat
  /\ Methods \subseteq {"all_rows", "sort_first"}
  /\ Liberties \subseteq {"order", "renames"}

VARIABLES
  document,  \* what the author wrote
  status,    \* how far it came
  plan,      \* its operations, one chain
  lowered,   \* stages of the kernel
  request,   \* columns to read, and under which names
  table      \* what was written

vars == <<document, status, plan, lowered, request, table>>

-----------------------------------------------------------------------------
(* What a document means.                                                  *)

SourceRows == {[c \in SourceColumn |-> From(c)]}

\* With all_rows the operations of the sidecar are operations of the payload too.
Described(d) == (IF d.method = "all_rows" THEN d.sidecar ELSE <<>>) \o d.payload
Meaning(d) == FoldLeft(Meant, SourceRows, Described(d))

-----------------------------------------------------------------------------
(* Documents.                                                              *)

\* Kinds in the order in which the kernel runs them.
KernelStage(op) ==
  CASE op.kind = "type_cast"         -> 1
    [] op.kind = "reference_replace" -> 2
    [] op.kind = "add_calc"          -> 3
    [] OTHER                         -> 4

IsRename(op) == op.kind = "rename_columns"

\* A calculation reads nothing that a later one replaces.
InKernelOrder(ops) ==
  /\ \A i, j \in DOMAIN ops : i < j => KernelStage(ops[i]) <= KernelStage(ops[j])
  /\ \A i, j \in DOMAIN ops :
       i < j /\ ops[i].kind = "add_calc" /\ ops[j].kind = "add_calc" =>
         ops[j].name \notin ops[i].columns

\* What is cast stays text, whatever else is done to it.
CastsStay(ops) ==
  \A i, j \in DOMAIN ops :
    ops[i].kind = "type_cast" /\ ops[j].kind = "add_calc" => ops[j].name \notin ops[i].columns

\* No name is renamed and taken at once, and a column that is cast has its name to itself.
PlainRenames(ops) ==
  \A j \in DOMAIN ops : IsRename(ops[j]) =>
    LET new == Targets(ops[j].mapping)
        old == Sources(ops[j].mapping)
    IN  /\ old \cap new = {}
        /\ \A i \in DOMAIN ops :
             ops[i].kind = "type_cast" => ops[i].columns \cap (old \cup new) = {}

Documents ==
  {[method |-> m, sidecar |-> s, payload |-> p] :
     m \in Methods, s \in {<<>>} \cup {<<op>> : op \in Sidecar},
     p \in BoundedSeq(Payload, MaxPayload)}

-----------------------------------------------------------------------------
(* From the document to the stages of the kernel.                          *)

SidecarKinds == {"filter", "type_cast", "add_calc"}
PayloadKinds ==
  {"type_cast", "add_calc", "reference_replace", "include_columns", "exclude_columns",
   "rename_columns", "unpivot", "data_assertion"}

AssertionsLast(ops) ==
  \A i, j \in DOMAIN ops : i < j /\ ops[i].kind = "data_assertion" => ops[j].kind = "data_assertion"

\* The chain: sidecar, selection, materialize and its operations, the write.
Expanded(d) ==
  [boundary |-> Len(d.sidecar) + 3,
   operations |->
     d.sidecar \o <<SidecarOf, SelectOf(d.method), MaterializeOf(PartitionColumn)>>
       \o d.payload \o <<WriteOf(PartitionColumn)>>]

RenameAccepted(mapping, known) ==
  /\ Cardinality(Targets(mapping)) = Len(mapping)
  /\ (known \ Sources(mapping)) \cap Targets(mapping) = {}

\* Mutant of AdvanceRename: what is renamed stays known.
AdvanceTargets(known, mapping) == known \cup Targets(mapping)

\* The mapping is applied entry by entry.
AdvanceRename(known, mapping) ==
  FoldLeft(LAMBDA k, m : (k \ {m[1]}) \cup {m[2]}, known, mapping)

AdvanceKnownColumns(known, op) ==
  CASE op.kind = "include_columns"                   -> known \cap op.columns
    [] op.kind = "exclude_columns"                   -> known \ op.columns
    [] op.kind = "rename_columns"                    -> AdvanceRename(known, op.mapping)
    [] op.kind = "unpivot"                           -> op.ids \cup {op.name, op.value}
    [] op.kind = "type_cast"                         -> known \cup op.columns
    [] op.kind \in {"add_calc", "reference_replace"} -> known \cup {op.name}
    [] OTHER                                         -> known

\* The columns that an include or exclude leaves, as far as they are known.
Resolved(op, known) ==
  IF op.kind = "exclude_columns" THEN known \ op.columns ELSE op.columns

CompileOperation(c, op) ==
  [accepted |-> /\ c.accepted
                /\ op.columns \subseteq c.known
                /\ IsRename(op) => RenameAccepted(op.mapping, c.known),
   known |-> AdvanceKnownColumns(c.known, op),
   operations |-> Append(c.operations, op @@ [resolved |-> Resolved(op, c.known)])]

Compiled(ops) ==
  FoldLeft(CompileOperation, [accepted |-> TRUE, known |-> SourceColumn, operations |-> <<>>], ops)

Phase(i) ==
  LET kind == plan.operations[i].kind IN
  CASE kind \in {"type_cast", "reference_replace", "add_calc"} /\ i > plan.boundary -> 5
    [] kind = "type_cast"                                                           -> 1
    [] kind = "add_calc"                                                            -> 3
    [] kind \in {"build_sidecar", "active_row_selection", "materialize"}            -> 4
    [] kind \in {"include_columns", "exclude_columns", "rename_columns", "unpivot"} -> 7
    [] kind = "data_assertion"                                                      -> 8
    [] kind = "write_dataset"                                                       -> 9

OperationOrderAccepted ==
  \A i \in DOMAIN plan.operations : i > 1 => Phase(i - 1) <= Phase(i)

OfKind(ops, kinds) == SelectSeq(ops, LAMBDA op : op.kind \in kinds)

\* A rename whose target a later operation consumes is done before the post operations.
Hoisted(i) ==
  /\ IsRename(plan.operations[i])
  /\ \E j \in DOMAIN plan.operations :
       j > i /\ Targets(plan.operations[i].mapping) \cap plan.operations[j].columns # {}

RenamesWhere(hoisted) ==
  LET at == SelectSeq([i \in DOMAIN plan.operations |-> i],
                      LAMBDA i : IsRename(plan.operations[i]) /\ Hoisted(i) = hoisted)
  IN  [i \in DOMAIN at |-> plan.operations[at[i]]]

PostOperations ==
  LET at == SelectSeq([i \in DOMAIN plan.operations |-> i],
                      LAMBDA i : /\ Phase(i) = 7
                                 /\ ~ Hoisted(i))
  IN  [i \in DOMAIN at |-> plan.operations[at[i]]]

\* Columns the written table is expected to have.
InferColumn(columns, op) ==
  CASE op.kind \in {"include_columns", "exclude_columns"} -> op.resolved
    [] op.kind = "rename_columns" -> {Renamed(op.mapping, c) : c \in columns}
    [] op.kind = "unpivot" -> op.ids \cup {op.name, op.value}
    [] op.kind = "type_cast" -> columns \cup op.columns
    [] op.kind \in {"add_calc", "reference_replace"} -> columns \cup {op.name}
    [] OTHER -> columns

WriterOutputColumns == FoldLeft(InferColumn, SourceColumn, plan.operations)

\* Mutant of PayloadOperations: whatever the sidecar does is done to the payload.
AllOperations == plan.operations

\* Operations of the sidecar only serve the selection, unless it takes all rows.
PayloadOperations ==
  IF document.method = "all_rows"
  THEN plan.operations
  ELSE SubSeq(plan.operations, plan.boundary, Len(plan.operations))

LowerCurated ==
  [casts    |-> UNION {op.columns : op \in ToSet(OfKind(PayloadOperations, {"type_cast"}))},
   calcs    |-> OfKind(PayloadOperations, {"add_calc"}),
   replaces |-> OfKind(PayloadOperations, {"reference_replace"}),
   pre      |-> RenamesWhere(TRUE),
   post     |-> PostOperations,
   expected |-> WriterOutputColumns]

-----------------------------------------------------------------------------
(* The request of a worker.                                                *)

Names(ops) == {op.name : op \in ToSet(ops)}
Dependencies(op, names) == (op.columns \cap names) \ {op.name}

\* Calculations are laid out in layers by the names they read.
ExpressionsCompile(calcs) ==
  /\ Cardinality(Names(calcs)) = Len(calcs)
  /\ \E layer \in [Names(calcs) -> 1..Len(calcs)] :
       \A op \in ToSet(calcs) : \A d \in Dependencies(op, Names(calcs)) : layer[d] < layer[op.name]

\* The name of a column before the renames that were seen; after as many steps as there are
\* aliases it is either no alias or will be one for ever.
SourceName(aliases, column) ==
  LET Follow[n \in Nat] ==
        IF n = 0 THEN column
        ELSE IF Follow[n - 1] \in DOMAIN aliases THEN aliases[Follow[n - 1]] ELSE Follow[n - 1]
  IN  Follow[Cardinality(DOMAIN aliases)]

Circular(aliases, column) == SourceName(aliases, column) \in DOMAIN aliases

SeenRename(s, m) ==
  LET source == SourceName(s.aliases, m[1])
  IN  [columns |-> s.columns \cup {source},
       aliases |-> (m[2] :> source) @@ s.aliases,
       endless |-> s.endless \/ Circular(s.aliases, m[1])]

Seen(s, op) ==
  IF IsRename(op) THEN FoldLeft(SeenRename, s, op.mapping)
  ELSE [s EXCEPT !.columns = @ \cup {SourceName(s.aliases, c) : c \in op.columns},
                 !.endless = @ \/ \E c \in op.columns : Circular(s.aliases, c)]

PostOperationSources(ops) ==
  FoldLeft(Seen, [columns |-> {}, aliases |-> <<>>, endless |-> FALSE], ops)

PostOperationOutputs(ops) ==
  UNION {CASE IsRename(op)        -> Targets(op.mapping)
           [] op.kind = "unpivot" -> {op.name, op.value}
           [] OTHER               -> {} : op \in ToSet(ops)}

Generated == Names(lowered.calcs) \cup Names(lowered.replaces)

\* Mutant of RequiredSourceColumns: what is replaced is not read for that.
RequiredUnlessReplaced ==
  (UNION {op.columns : op \in ToSet(lowered.calcs)} \ Generated)
    \cup (PostOperationSources(lowered.post).columns \ Generated)
    \cup (PostOperationSources(lowered.pre).columns \ Generated)
    \cup ((lowered.expected \ Generated) \ PostOperationOutputs(lowered.pre \o lowered.post))

RequiredSourceColumns ==
  (UNION {op.columns : op \in ToSet(lowered.calcs)} \ Generated)
    \cup UNION {op.columns : op \in ToSet(lowered.replaces)}
    \cup (PostOperationSources(lowered.post).columns \ Generated)
    \cup (PostOperationSources(lowered.pre).columns \ Generated)
    \cup ((lowered.expected \ Generated) \ PostOperationOutputs(lowered.pre \o lowered.post))

\* The mappings of the hoisted renames are one dictionary.
PreRenames == FoldLeft(LAMBDA all, op : all \o op.mapping, <<>>, lowered.pre)
PreRename == FoldLeft(LAMBDA d, m : (m[1] :> m[2]) @@ d, <<>>, PreRenames)
PreRenameKeys ==
  FoldLeft(LAMBDA keys, m : IF Contains(keys, m[1]) THEN keys ELSE Append(keys, m[1]),
           <<>>, PreRenames)

\* A required target of a hoisted rename is read as its source.
ReadAsSource(required, source) ==
  CASE source \in Generated             -> required \ {PreRename[source]}
    [] source \notin Generated /\ PreRename[source] \in required ->
         (required \ {PreRename[source]}) \cup {source}
    [] OTHER                            -> required

ProjectionColumns ==
  LET required == FoldLeft(ReadAsSource, RequiredSourceColumns, PreRenameKeys)
  IN  [c \in required |-> IF c \in DOMAIN PreRename THEN PreRename[c] ELSE c]

Endless == PostOperationSources(lowered.post).endless \/ PostOperationSources(lowered.pre).endless

-----------------------------------------------------------------------------
(* The kernel.                                                             *)

Projected ==
  IF DOMAIN request \subseteq SourceColumn
  THEN {[n \in Range(request) |-> From(CHOOSE c \in DOMAIN request : request[c] = n)]}
  ELSE Broken

ReplaceRows(rows, op) ==
  IF op.columns \subseteq Columns(rows)
  THEN {With(r, op.name, Replaced(r[CHOOSE c \in op.columns : TRUE])) : r \in rows}
  ELSE Broken

\* Layer by layer: a name that is calculated is read as calculated, except by itself.
CalculateRow(row) ==
  LET names == Names(lowered.calcs)
      Of(n) == (CHOOSE op \in ToSet(lowered.calcs) : op.name = n).columns
      Value[n \in names] ==
        Calculated(n, [c \in Of(n) |-> IF c \in names \ {n} THEN Value[c] ELSE row[c]])
  IN  [c \in DOMAIN row \cup names |-> IF c \in names THEN Value[c] ELSE row[c]]

CalculateRows(rows) ==
  IF \A op \in ToSet(lowered.calcs) :
       op.columns \ (Names(lowered.calcs) \ {op.name}) \subseteq Columns(rows)
  THEN {CalculateRow(r) : r \in rows}
  ELSE Broken

Executed ==
  LET restored   == CastRows(lowered.casts, Projected)
      replaced   == FoldLeft(ReplaceRows, restored, lowered.replaces)
      calculated == CalculateRows(replaced)
  IN  FoldLeft(ExecutePostOperation, calculated, lowered.pre \o lowered.post)

\* Columns of the table that the types of the casts name but that are not text.
Mistyped(rows) == {c \in lowered.casts : \E r \in rows : c \in DOMAIN r /\ Text(r[c]) # r[c]}

Assertions == OfKind(plan.operations, {"data_assertion"})
Asserted(rows) == \A op \in ToSet(Assertions) : op.columns \subseteq Columns(rows)

-----------------------------------------------------------------------------
(* One action per stage.                                                   *)

Empty == <<>>

Init ==
  /\ document = Empty /\ status = "none" /\ plan = Empty
  /\ lowered = Empty /\ request = Empty /\ table = Broken

Author ==
  /\ status = "none"
  /\ \E d \in Documents :
       /\ CastsStay(Described(d))
       /\ "order" \in Liberties \/ InKernelOrder(Described(d))
       /\ "renames" \in Liberties \/ PlainRenames(Described(d))
       /\ document' = d
  /\ status' = "authored"
  /\ UNCHANGED <<plan, lowered, request, table>>

Expand ==
  /\ status = "authored"
  /\ LET allowed ==
           /\ \A op \in ToSet(document.sidecar) : op.kind \in SidecarKinds
           /\ \A op \in ToSet(document.payload) : op.kind \in PayloadKinds
           /\ AssertionsLast(document.payload)
     IN  /\ status' = IF allowed THEN "expanded" ELSE "rejected"
         /\ plan' = IF allowed THEN Expanded(document) ELSE plan
  /\ UNCHANGED <<document, lowered, request, table>>

Compile ==
  /\ status = "expanded"
  /\ LET compiled == Compiled(plan.operations)
     IN  /\ status' = IF compiled.accepted THEN "compiled" ELSE "rejected"
         /\ plan' = [plan EXCEPT !.operations = compiled.operations]
  /\ UNCHANGED <<document, lowered, request, table>>

Lower ==
  /\ status = "compiled"
  /\ status' = IF OperationOrderAccepted THEN "lowered" ELSE "rejected"
  /\ lowered' = IF OperationOrderAccepted THEN LowerCurated ELSE lowered
  /\ UNCHANGED <<document, plan, request, table>>

\* The names of two renames that go round in circles are followed for ever.
Prepare ==
  /\ status = "lowered"
  /\ ExpressionsCompile(lowered.calcs) => ~ Endless
  /\ status' = IF ExpressionsCompile(lowered.calcs) THEN "requested" ELSE "failed"
  /\ request' = IF ExpressionsCompile(lowered.calcs) THEN ProjectionColumns ELSE request
  /\ UNCHANGED <<document, plan, lowered, table>>

Fail ==
  /\ status = "requested"
  /\ Executed = Broken \/ Mistyped(Executed) # {} \/ ~ Asserted(Executed)
  /\ status' = "failed"
  /\ UNCHANGED <<document, plan, lowered, request, table>>

\* The file has the types of the casts: a column of another type is converted or refused.
Write ==
  /\ status = "requested"
  /\ Executed # Broken /\ Asserted(Executed)
  /\ table' = CastRows(Mistyped(Executed), Executed)
  /\ status' = "written"
  /\ UNCHANGED <<document, plan, lowered, request>>

Next ==
  \/ Author \/ Expand \/ Compile \/ Lower \/ Prepare \/ Fail \/ Write

Spec == Init /\ [][Next]_vars

-----------------------------------------------------------------------------
(* Properties.                                                             *)

TypeOK ==
  /\ status \in {"none", "authored", "expanded", "compiled", "lowered", "requested",
                 "written", "failed", "rejected"}
  /\ document # Empty =>
       /\ document.method \in Methods
       /\ ToSet(document.sidecar) \subseteq Sidecar
       /\ ToSet(document.payload) \subseteq Payload
  /\ status = "written" <=> table # Broken
  /\ "renames" \in Liberties \/ Cardinality(Range(request)) = Cardinality(DOMAIN request)

\* The table that is written is the one that the operations describe in their order.
WrittenIsMeant == status = "written" => table = Meaning(document)

\* The compiler knows exactly the columns that the operations leave behind one another.
SidecarStays == document.method = "all_rows" \/ OfKind(document.sidecar, {"add_calc"}) = <<>>
CompiledKnowsColumns ==
  status = "compiled" /\ SidecarStays =>
    Compiled(plan.operations).known = Columns(Meaning(document))

\* What is accepted and requested is written.  Two kinds of documents fail instead: a rename
\* that is hoisted leaves operations that were written before it without the name they read,
\* and a calculation that only serves the selection is read from the source all the same.
RequestIsWritten ==
  status = "failed" /\ request # Empty => lowered.pre # Empty \/ ~ SidecarStays

\* Finding the columns to read comes to an end.
RequestEnds == status = "lowered" /\ ExpressionsCompile(lowered.calcs) => ~ Endless

=============================================================================
