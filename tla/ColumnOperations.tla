-------------------------- MODULE ColumnOperations --------------------------
(* The operations on columns of a curated document: what each does to the  *)
(* rows before it.  Values are symbolic: a value says how it was computed  *)
(* from the columns of the source.  Every cast is to text; pivot,          *)
(* list_restore, unnest and filter are left out.                           *)
EXTENDS Naturals, Sequences, SequencesExt

-----------------------------------------------------------------------------
CastOf(columns) == [kind |-> "type_cast", columns |-> columns]
CalcOf(name, columns) == [kind |-> "add_calc", name |-> name, columns |-> columns]
ReplaceOf(source, output) == [kind |-> "reference_replace", columns |-> {source}, name |-> output]
IncludeOf(columns) == [kind |-> "include_columns", columns |-> columns]
ExcludeOf(columns) == [kind |-> "exclude_columns", columns |-> columns]
RenameOf(mapping) ==
  [kind |-> "rename_columns", columns |-> {m[1] : m \in ToSet(mapping)}, mapping |-> mapping]
UnpivotOf(ids, values, name, value) ==
  [kind |-> "unpivot", columns |-> ids \cup values, ids |-> ids, values |-> values,
   name |-> name, value |-> value]
AssertOf(columns) == [kind |-> "data_assertion", columns |-> columns]

SidecarOf == [kind |-> "build_sidecar", columns |-> {}]
SelectOf(method) == [kind |-> "active_row_selection", columns |-> {}, method |-> method]
MaterializeOf(partition) == [kind |-> "materialize", columns |-> {partition}]
WriteOf(partition) == [kind |-> "write_dataset", columns |-> {partition}]

\* A rename reads its mapping in the order in which it is written.
Sources(mapping) == {m[1] : m \in ToSet(mapping)}
Targets(mapping) == {m[2] : m \in ToSet(mapping)}
Renamed(mapping, column) ==
  IF column \in Sources(mapping)
  THEN (CHOOSE m \in ToSet(mapping) : m[1] = column)[2]
  ELSE column

From(column) == <<"source", column>>
Text(v) == IF v[1] \in {"text", "replaced", "name"} THEN v ELSE <<"text", v>>
Replaced(v) == <<"replaced", Text(v)>>
Calculated(name, inputs) == <<"calculated", name, inputs>>

Columns(rows) == UNION {DOMAIN r : r \in rows}
Broken == {}

With(row, name, value) == [c \in DOMAIN row \cup {name} |-> IF c = name THEN value ELSE row[c]]
Only(row, columns) == [c \in DOMAIN row \cap columns |-> row[c]]

CastRows(columns, rows) ==
  {[c \in DOMAIN r |-> IF c \in columns THEN Text(r[c]) ELSE r[c]] : r \in rows}

\* Post operations of the kernel: the batch that comes out, or Broken.
RenameRows(mapping, rows) ==
  LET New(c) == Renamed(mapping, c)
      Old(n) == CHOOSE c \in Columns(rows) : New(c) = n
  IN  IF \E c, d \in Columns(rows) : c # d /\ New(c) = New(d)
      THEN Broken
      ELSE {[n \in {New(c) : c \in DOMAIN r} |-> r[Old(n)]] : r \in rows}

IncludeRows(columns, rows) ==
  IF columns \subseteq Columns(rows) THEN {Only(r, columns) : r \in rows} ELSE Broken

ExcludeRows(columns, rows) == {Only(r, DOMAIN r \ columns) : r \in rows}

UnpivotRows(op, rows) ==
  IF op.columns \subseteq Columns(rows)
  THEN {With(With(Only(r, op.ids), op.name, <<"name", v>>), op.value, r[v]) :
          r \in rows, v \in op.values}
  ELSE Broken

ExecutePostOperation(rows, op) ==
  CASE rows = Broken               -> Broken
    [] op.kind = "include_columns" -> IncludeRows(op.columns, rows)
    [] op.kind = "exclude_columns" -> ExcludeRows(op.columns, rows)
    [] op.kind = "rename_columns"  -> RenameRows(op.mapping, rows)
    [] op.kind = "unpivot"         -> UnpivotRows(op, rows)

\* What one operation means for the rows before it.
Meant(rows, op) ==
  IF ~ op.columns \subseteq Columns(rows) THEN Broken
  ELSE CASE op.kind = "type_cast" -> CastRows(op.columns, rows)
         [] op.kind = "add_calc" ->
              {With(r, op.name, Calculated(op.name, Only(r, op.columns))) : r \in rows}
         [] op.kind = "reference_replace" ->
              {With(r, op.name, Replaced(r[CHOOSE c \in op.columns : TRUE])) : r \in rows}
         [] op.kind = "data_assertion" -> rows
         [] OTHER -> ExecutePostOperation(rows, op)
=============================================================================
