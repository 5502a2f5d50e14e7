----------------------------- MODULE TaskLayout -----------------------------
(* How the rows a curated asset has selected become tasks.  The rows of a  *)
(* partition are cut into parts; the native task of a part calculates      *)
(* windows and pivots from the rows of the part alone.  So a part has to   *)
(* hold every group of a window or a pivot whole, and where such a group   *)
(* is too large for a task, the pivot is made of pieces that are merged.   *)
(*                                                                         *)
(* Values that may be null are sets of at most one element.                *)
EXTENDS Integers, SequencesExt

CONSTANTS
  Cases,     \* rows by their places (file, row group, index), with the operations on them
  Limits,    \* of a task: rows, bytes, files, row groups; and rows of a piece
  BytesOf,   \* of a row, by its file
  Liberties  \* what authors do not keep to: "rolling" (below)

\* Assumed of the constants (where the module is used).
LayoutAssumption == Liberties \subseteq {"rolling"}

VARIABLES
  rows,    \* the active rows, by number in active order
  op,      \* windows, pivot and the keys of the selection
  limit,   \* of a task
  status,  \* of the run
  tasks,   \* the places of each part, in active order
  output   \* what the task of each part wrote

vars == <<rows, op, limit, status, tasks, output>>

None == <<>>
Null == {}
NoPivot == [rowKeys |-> {}, columnKeys |-> {}, aggregation |-> "none", nullColumn |-> "error", duplicates |-> "error"]
Pivots == op.pivot # NoPivot
TextOf(keys, x) == [k \in keys |-> rows[x][k]]
Partitions == {rows[x].partition : x \in DOMAIN rows}

-----------------------------------------------------------------------------
(* Orders *)

\* Of tuples of numbers.
Less(s, t) == \E i \in DOMAIN s : s[i] < t[i] /\ \A j \in 1 .. i - 1 : s[j] = t[j]
InOrder(S, rank) ==
  [i \in 1 .. Cardinality(S) |->
     CHOOSE x \in S : Cardinality({y \in S : Less(rank[y], rank[x])}) = i - 1]

\* ACTIVE_ORDER: the keys of the selection, nulls first, then the place.
ActiveRows(snapshot, selection) ==
  LET rank == [x \in DOMAIN snapshot |->
                 <<IF "key" \in selection THEN Max({0} \cup snapshot[x].key) ELSE 0, x[1], x[3]>>]
      order == InOrder(DOMAIN snapshot, rank)
  IN  [i \in DOMAIN order |-> snapshot[order[i]] @@ [file |-> order[i][1], rowGroup |-> order[i][2]]]
InActiveOrder(S) == SetToSortSeq(S, LAMBDA x, y : x < y)

\* ORDER BY of a window, ties in active order.
OrderTerm(w, v) ==
  IF v = Null THEN (IF w.nulls = "first" THEN -9 ELSE 9)
  ELSE IF w.descending THEN 0 - Max(v) ELSE Max(v)
WindowRank(w) == [x \in DOMAIN rows |-> <<OrderTerm(w, rows[x].order), x>>]

-----------------------------------------------------------------------------
(* Which groups have to stay whole *)

Crossing(keys) ==
  \E x, y \in DOMAIN rows :
    TextOf(keys, x) = TextOf(keys, y) /\ rows[x].partition # rows[y].partition

\* _validate_window_boundaries_lazy: all windows have the same keys, within partitions.
WindowContracts == {w.by : w \in op.windows}
WindowsAccepted ==
  /\ Cardinality(WindowContracts) <= 1
  /\ \A keys \in WindowContracts : IF keys = {} THEN Cardinality(Partitions) = 1 ELSE ~Crossing(keys)

\* _complete_group_keys_lazy: of the keys of windows and of a pivot the fewer, which the
\* others contain.  None is for rows that need no others.
Contracts == WindowContracts \cup (IF ~Pivots THEN {} ELSE {op.pivot.rowKeys})
Chosen == CHOOSE keys \in Contracts : \A other \in Contracts : Cardinality(keys) <= Cardinality(other)
CompleteGroups == IF Contracts = {} THEN {} ELSE {Chosen}

\* Mutant: the keys need not be nested.
GroupsWithinPartitions ==
  \/ {} \in Contracts /\ Cardinality(Partitions) = 1
  \/ {} \notin Contracts /\ \A keys \in Contracts : ~Crossing(keys)
GroupsAccepted ==
  \/ {} \in Contracts /\ Cardinality(Partitions) = 1
  \/ {} \notin Contracts /\ \A keys \in Contracts : ~Crossing(keys) /\ Chosen \subseteq keys

\* _pivot_spill_aggregation: what can be merged from pieces.
Mergeable == {"sum", "count", "min", "max"}
SpillAllowed == Pivots /\ op.pivot.aggregation \in Mergeable /\ op.windows = {}

-----------------------------------------------------------------------------
(* The parts of a partition *)

SumOver(S, f) == FoldSet(LAMBDA x, sum : sum + f[x], 0, S)
Bytes(places) == SumOver(places, [x \in places |-> BytesOf[rows[x].file]])
Files(places) == {rows[x].file : x \in places}
RowGroups(places) == {<<rows[x].file, rows[x].rowGroup>> : x \in places}
Fits(places) ==
  /\ Cardinality(places) <= limit.rows
  /\ Bytes(places) <= limit.bytes
  /\ Cardinality(Files(places)) <= limit.files
  /\ Cardinality(RowGroups(places)) <= limit.rowGroups

PartitionRows(p) == {x \in DOMAIN rows : rows[x].partition = p}

\* What goes into one part undivided, in active order: groups, or single rows.
\* Mutant: a group ends with the rows of a row group.
UnitsOfRowGroups(p) ==
  LET group(x) == {y \in PartitionRows(p) :
                     /\ TextOf(UNION CompleteGroups, y) = TextOf(UNION CompleteGroups, x)
                     /\ <<rows[y].file, rows[y].rowGroup>> = <<rows[x].file, rows[x].rowGroup>>}
      firsts == InActiveOrder({x \in PartitionRows(p) : x = Min(group(x))})
  IN  [i \in DOMAIN firsts |-> group(firsts[i])]

Units(p) ==
  LET group(x) == IF CompleteGroups = {} THEN {x}
                  ELSE {y \in PartitionRows(p) : TextOf(Chosen, y) = TextOf(Chosen, x)}
      firsts == InActiveOrder({x \in PartitionRows(p) : x = Min(group(x))})
  IN  [i \in DOMAIN firsts |-> group(firsts[i])]

\* ensure_complete_group_within_budget
Oversized(unit) == Bytes(unit) > limit.bytes
BudgetKept == \A p \in Partitions : \A i \in DOMAIN Units(p) :
                CompleteGroups = {} \/ ~Oversized(Units(p)[i]) \/ SpillAllowed

\* Mutant: a part is closed when it is too large already.
PartsClosedLate(p) ==
  LET units == Units(p)
      Cut[i \in 0 .. Len(units)] ==
        IF i = 0 THEN <<{}>>
        ELSE LET before == Cut[i - 1]
                 last == before[Len(before)]
             IN  IF last = {} \/ Fits(last)
                 THEN [before EXCEPT ![Len(before)] = last \cup units[i]]
                 ELSE Append(before, units[i])
  IN  Cut[Len(units)]

\* _group_part_indices, _assign_rows: a part is closed by the first unit that does not fit.
Parts(p) ==
  LET units == Units(p)
      Cut[i \in 0 .. Len(units)] ==
        IF i = 0 THEN <<{}>>
        ELSE LET before == Cut[i - 1]
                 last == before[Len(before)]
             IN  IF last = {} \/ Fits(last \cup units[i])
                 THEN [before EXCEPT ![Len(before)] = last \cup units[i]]
                 ELSE Append(before, units[i])
  IN  Cut[Len(units)]

\* _build_plan: a task for each part; it spills if a group of it is too large.
TasksOf(p, parts, units) ==
  {[partition |-> p, part |-> i, coordinates |-> InActiveOrder(parts[i]),
    spill |-> CompleteGroups # {} /\ \E unit \in Range(units) : unit \subseteq parts[i] /\ Oversized(unit)] :
     i \in DOMAIN parts}
PlannedTasks == UNION {TasksOf(p, Parts(p), Units(p)) : p \in Partitions}

-----------------------------------------------------------------------------
(* Windows: of a batch, a sequence of places in active order               *)

Value(x) == rows[x].value
ValidOf(group) == SelectSeq(group, LAMBDA x : Value(x) # Null)
Values(group) == [i \in DOMAIN group |-> Max(Value(group[i]))]

\* window_groups, order_window_groups
WindowGroup(w, batch, x) == SelectSeq(batch, LAMBDA y : TextOf(w.by, y) = TextOf(w.by, x))
Ordered(w, group) == InOrder(Range(group), WindowRank(w))
PositionIn(group, x) == CHOOSE i \in DOMAIN group : group[i] = x

\* window_numeric_stat, and the counts of evaluate_window.
Sorted(numbers) ==
  LET at == [i \in DOMAIN numbers |-> <<numbers[i], i>>]
  IN  [k \in DOMAIN numbers |-> numbers[InOrder(DOMAIN numbers, at)[k]]]
SumOf(numbers) == SumOver(DOMAIN numbers, numbers)
\* Four times a quartile, interpolated.
Quartile(numbers, q) ==
  LET sorted == Sorted(numbers)
      lower  == (q * (Len(numbers) - 1)) \div 4
      rest   == (q * (Len(numbers) - 1)) % 4
  IN  4 * sorted[lower + 1]
        + (IF rest = 0 THEN 0 ELSE (sorted[lower + 2] - sorted[lower + 1]) * rest)
WindowStat(function, group) ==
  LET numbers == Values(ValidOf(group))
  IN  CASE function = "count" -> {Len(numbers)}
        [] function = "uniquecount" -> {Cardinality(Range(numbers))}
        [] numbers = <<>> -> Null
        [] function = "sum" -> {SumOf(numbers)}
        [] function = "max" -> {Max(Range(numbers))}
        [] function = "median" -> {Quartile(numbers, 2)}
        [] function = "nthlargest" ->
             IF Len(numbers) < 2 THEN Null ELSE {Sorted(numbers)[Len(numbers) - 1]}

\* window_rank: equal values share a rank, or twice their average rank.
WindowRankOf(function, group, x) ==
  LET numbers == Sorted(Values(ValidOf(group)))
      Dense[i \in DOMAIN numbers] ==
        IF i = 1 THEN 1 ELSE Dense[i - 1] + (IF numbers[i] = numbers[i - 1] THEN 0 ELSE 1)
      at    == CHOOSE i \in DOMAIN numbers :
                 numbers[i] = Max(Value(x)) /\ (i = 1 \/ numbers[i - 1] # numbers[i])
      after == CHOOSE i \in at .. Len(numbers) :
                 numbers[i] = numbers[at] /\ (i = Len(numbers) \/ numbers[i + 1] # numbers[i])
  IN  IF Value(x) = Null THEN Null
      ELSE IF function = "denserank" THEN {Dense[at]} ELSE {at + after}

\* window_value_for: the last of the largest, the first of the smallest.
WindowValueFor(function, group) ==
  LET order(x) == Max(rows[x].order)
      known == SelectSeq(group, LAMBDA x : rows[x].order # Null)
      Best[i \in 1 .. Len(known)] ==
        IF i = 1 THEN known[1]
        ELSE IF \/ function = "valueformax" /\ order(known[i]) >= order(Best[i - 1])
                \/ function = "valueformin" /\ order(known[i]) < order(Best[i - 1])
             THEN known[i] ELSE Best[i - 1]
  IN  IF known = <<>> THEN Null ELSE Value(Best[Len(known)])

\* window_fill
WindowFill(function, group, x) ==
  LET at == PositionIn(group, x)
      reach == {i \in DOMAIN group : Value(group[i]) # Null
                                     /\ IF function = "firstvalidafter" THEN i >= at ELSE i <= at}
  IN  IF reach = {} THEN Null
      ELSE Value(group[IF function = "firstvalidafter" THEN Min(reach) ELSE Max(reach)])

\* window_first_last, window_lag_lead
WindowEdge(function, group) == Value(group[IF function = "first" THEN 1 ELSE Len(group)])
WindowShift(w, group, x) ==
  LET i == PositionIn(group, x) + (IF w.function = "lag" THEN 0 - w.n ELSE w.n)
  IN  IF i \in DOMAIN group THEN Value(group[i]) ELSE Null

\* window_rolling_numeric: n rows, of which most have to have values.
WindowRolling(w, group, x) ==
  LET at == PositionIn(group, x)
      numbers == Values(ValidOf(SubSeq(group, Max({1, at - (w.n - 1)}), at)))
  IN  IF Len(numbers) < w.minimum THEN Null
      ELSE IF w.function = "rollingsum" THEN {SumOf(numbers)} ELSE {Max(Range(numbers))}

\* window_most_common: of equally common values the one that comes first.
Distinct(group) ==
  LET valid == ValidOf(group)
      first(i) == \A j \in 1 .. i - 1 : Value(valid[j]) # Value(valid[i])
      firsts == {i \in DOMAIN valid : first(i)}
  IN  [k \in 1 .. Cardinality(firsts) |->
         Value(valid[CHOOSE i \in firsts : Cardinality({j \in firsts : j < i}) = k - 1])]
WindowMostCommon(group) ==
  LET found == Distinct(group)
      count(i) == Cardinality({j \in DOMAIN group : Value(group[j]) = found[i]})
      most == {i \in DOMAIN found : \A j \in DOMAIN found : count(i) >= count(j)}
  IN  IF found = <<>> THEN Null ELSE found[Min(most)]
WindowConcatenate(group) == IF Distinct(group) = <<>> THEN Null ELSE {Distinct(group)}

\* window_row_number
WindowRowNumber(w, group, x) == {PositionIn(Ordered(w, group), x)}

\* evaluate_window: only lag and lead are given the ordered groups.
EvaluateWindow(w, batch, x) ==
  LET group == WindowGroup(w, batch, x)
      f == w.function
  IN  CASE f = "rownumber" -> WindowRowNumber(w, group, x)
        [] f \in {"denserank", "rankreal"} -> WindowRankOf(f, group, x)
        [] f \in {"valueformax", "valueformin"} -> WindowValueFor(f, group)
        [] f \in {"firstvalidafter", "lastvalidbefore"} -> WindowFill(f, group, x)
        [] f \in {"first", "last"} -> WindowEdge(f, group)
        [] f \in {"lag", "lead"} -> WindowShift(w, IF w.ordered THEN Ordered(w, group) ELSE group, x)
        [] f \in {"rollingsum", "rollingmax"} -> WindowRolling(w, group, x)
        [] f = "mostcommon" -> WindowMostCommon(group)
        [] f = "uniqueconcatenate" -> WindowConcatenate(group)
        [] OTHER -> WindowStat(f, group)

-----------------------------------------------------------------------------
(* Pivots *)

\* What a pivot aggregates: a column, or what a window made of it.
Input(batch, x) ==
  IF op.windows = {} THEN Value(x)
  ELSE EvaluateWindow(CHOOSE w \in op.windows : TRUE, batch, x)

\* aggregate_column
Aggregate(function, inputs) ==
  LET valid == SelectSeq(inputs, LAMBDA v : v # Null)
      numbers == [i \in DOMAIN valid |-> Max(valid[i])]
      new(i) == \A j \in 1 .. i - 1 : numbers[j] # numbers[i]
      found == {i \in DOMAIN numbers : new(i)}
  IN  CASE function = "first" -> IF inputs = <<>> THEN Null ELSE inputs[1]
        [] function = "count" -> {Len(numbers)}
        [] numbers = <<>> -> Null
        [] function = "sum" -> {SumOf(numbers)}
        [] function = "min" -> {Min(Range(numbers))}
        [] function = "max" -> {Max(Range(numbers))}
        [] function = "unique_concatenate" ->
             {[k \in 1 .. Cardinality(found) |->
                 numbers[CHOOSE i \in found : Cardinality({j \in found : j < i}) = k - 1]]}

\* pivot_record_batch: a row for each row key, a column for each column key there is.
RowKeyOf(x) == TextOf(op.pivot.rowKeys, x)
ColumnKeyOf(x) == TextOf(op.pivot.columnKeys, x)
Cell(batch, r, c) == SelectSeq(batch, LAMBDA x : RowKeyOf(x) = r /\ ColumnKeyOf(x) = c)
Pivoted(batch) ==
  LET places  == Range(batch)
      inputs(cell) == [i \in DOMAIN cell |-> Input(batch, cell[i])]
  IN  [r \in {RowKeyOf(x) : x \in places} |->
         [c \in {ColumnKeyOf(x) : x \in places} |->
            Aggregate(op.pivot.aggregation, inputs(Cell(batch, r, c)))]]
NullColumn(places) == \E x \in places : \E k \in op.pivot.columnKeys : rows[x][k] = Null
Duplicated(places) ==
  \E x, y \in places : x # y /\ RowKeyOf(x) = RowKeyOf(y) /\ ColumnKeyOf(x) = ColumnKeyOf(y)
PivotRejects(places) ==
  \/ op.pivot.nullColumn = "error" /\ NullColumn(places)
  \/ op.pivot.aggregation = "first" /\ op.pivot.duplicates = "error" /\ Duplicated(places)

\* _write_curated_part_spill_fallback: pieces are pivoted apart and merged pair by pair;
\* there a sum of nothing is 0.
\* Mutant: counts are merged like extremes.
MergedCounts(found) ==
  LET valid == UNION Range(found) IN IF valid = {} THEN Null ELSE {Max(valid)}
MergedValue(found) ==
  LET valid == UNION Range(found)
      both  == SumOver({i \in DOMAIN found : found[i] # Null}, [i \in DOMAIN found |-> Max(found[i])])
  IN  IF op.pivot.aggregation \in {"sum", "count"} THEN {both}
      ELSE IF valid = {} THEN Null
      ELSE IF op.pivot.aggregation = "min" THEN {Min(valid)} ELSE {Max(valid)}
MergedPair(a, b) ==
  LET columns == UNION {DOMAIN f[r] : f \in {a, b}, r \in DOMAIN a \cup DOMAIN b}
      columnsOf(f) == UNION {DOMAIN f[r] : r \in DOMAIN f}
      at(f, r, c) == IF r \in DOMAIN f /\ c \in DOMAIN f[r] THEN f[r][c] ELSE Null
  IN  [r \in DOMAIN a \cup DOMAIN b |->
         [c \in columnsOf(a) \cup columnsOf(b) |-> MergedValue(<<at(a, r, c), at(b, r, c)>>)]]
Pieces(batch) ==
  [i \in 1 .. (Len(batch) + limit.piece - 1) \div limit.piece |->
     Pivoted(SubSeq(batch, (i - 1) * limit.piece + 1, Min({i * limit.piece, Len(batch)})))]
Merged(pieces) ==
  LET Rounds[r \in 0 .. Len(pieces)] ==
        IF r = 0 THEN pieces
        ELSE LET before == Rounds[r - 1]
             IN  [i \in 1 .. (Len(before) + 1) \div 2 |->
                    IF 2 * i > Len(before) THEN before[2 * i - 1]
                    ELSE MergedPair(before[2 * i - 1], before[2 * i])]
  IN  Rounds[Len(pieces)][1]

-----------------------------------------------------------------------------
(* The task of a part: execute_curated_task_impl *)

\* Batches of row groups, put together and sorted by the active order.
Combined(task) == InActiveOrder(Range(task.coordinates))

WindowOutput(batch) == [x \in Range(batch) |-> [w \in op.windows |-> EvaluateWindow(w, batch, x)]]
TaskOutput(task) ==
  IF ~Pivots THEN WindowOutput(Combined(task))
  ELSE IF task.spill THEN Merged(Pieces(task.coordinates))
  ELSE Pivoted(Combined(task))
TaskFails(task) == Pivots /\ PivotRejects(Range(task.coordinates))

-----------------------------------------------------------------------------
(* What the rows mean, whatever the tasks *)

Group(w, x) == {y \in DOMAIN rows : TextOf(w.by, y) = TextOf(w.by, x)}
Before(w, y, x) == IF w.ordered
                   THEN Less(<<OrderTerm(w, rows[y].order), y>>, <<OrderTerm(w, rows[x].order), x>>)
                   ELSE y < x
Place(w, x) == Cardinality({y \in Group(w, x) : Before(w, y, x)})
At(w, x, distance) == {y \in Group(w, x) : Place(w, y) - Place(w, x) = distance}
NumberOf(x) == Max(Value(x))
With(S) == {x \in S : Value(x) # Null}
Total(S) == SumOver(S, [x \in S |-> NumberOf(x)])
Nearest(S, w, x, first) ==
  {y \in S : \A z \in S : IF first THEN ~Before(w, z, y) ELSE ~Before(w, y, z)}
\* The n-th of values, from the least: so many lie below it, and not all beside it.
Nth(S, n) == CHOOSE v \in {NumberOf(x) : x \in S} :
  /\ Cardinality({x \in S : NumberOf(x) < v}) < n
  /\ Cardinality({x \in S : NumberOf(x) <= v}) >= n

\* The values a window may have at a row: one, but for ties.
MeantWindow(w, x) ==
  LET G == Group(w, x)
      V == With(G)
      n == Cardinality(V)
      f == w.function
      of(S) == IF S = {} THEN {Null} ELSE {Value(y) : y \in S}
      frame == With({y \in G : Place(w, x) - Place(w, y) \in 0 .. w.n - 1})
      ordering == {y \in G : rows[y].order # Null}
      number(y) == Max(rows[y].order)
      upTo == {y \in V : ~Before(w, x, y)}
      from == {y \in V : ~Before(w, y, x)}
      appearances(v) == Cardinality({y \in G : Value(y) = v})
  IN  CASE f = "rownumber" -> {{Place(w, x) + 1}}
        [] f = "count" -> {{n}}
        [] f = "uniquecount" -> {{Cardinality({Value(y) : y \in V})}}
        [] f = "denserank" ->
             {IF Value(x) = Null THEN Null
              ELSE {Cardinality({Value(y) : y \in {z \in V : NumberOf(z) <= NumberOf(x)}})}}
        [] f = "rankreal" ->
             {IF Value(x) = Null THEN Null
              ELSE {2 * Cardinality({y \in V : NumberOf(y) < NumberOf(x)})
                    + Cardinality({y \in V : Value(y) = Value(x)}) + 1}}
        [] f = "valueformax" ->
             of({y \in ordering : \A z \in ordering : number(z) <= number(y)})
        [] f = "valueformin" ->
             of({y \in ordering : \A z \in ordering : number(z) >= number(y)})
        [] f = "firstvalidafter" -> of(Nearest(from, w, x, TRUE))
        [] f = "lastvalidbefore" -> of(Nearest(upTo, w, x, FALSE))
        [] f = "first" -> of(Nearest(G, w, x, TRUE))
        [] f = "last" -> of(Nearest(G, w, x, FALSE))
        [] f = "lag" -> of(At(w, x, 0 - w.n))
        [] f = "lead" -> of(At(w, x, w.n))
        [] f \in {"rollingsum", "rollingmax"} ->
             {IF Cardinality(frame) < w.minimum THEN Null
              ELSE IF f = "rollingsum" THEN {Total(frame)} ELSE {Nth(frame, Cardinality(frame))}}
        [] f = "mostcommon" ->
             IF V = {} THEN {Null}
             ELSE {Value(y) : y \in {z \in V : \A u \in V : appearances(Value(u)) <= appearances(Value(z))}}
        [] V = {} -> {Null}
        [] f = "sum" -> {{Total(V)}}
        [] f = "max" -> {{Nth(V, n)}}
        [] f = "median" -> {{2 * (Nth(V, (n + 1) \div 2) + Nth(V, (n + 2) \div 2))}}
        [] f = "nthlargest" -> {IF n < 2 THEN Null ELSE {Nth(V, n - 1)}}
        [] f = "uniqueconcatenate" ->
             {{s} : s \in {t \in [1 .. Cardinality({Value(y) : y \in V}) -> {Value(y) : y \in V}] :
                            \A i, j \in DOMAIN t : i < j =>
                              \E y \in V : Value(y) = t[i] /\ \A z \in V : Value(z) = t[j] => Before(w, y, z)}}

\* The values a pivot may have in a cell, from all rows.
MeantCell(r, c) ==
  LET S == {x \in DOMAIN rows : RowKeyOf(x) = r /\ ColumnKeyOf(x) = c}
  IN  {Aggregate(op.pivot.aggregation,
                 [i \in 1 .. Cardinality(S) |-> Input([j \in DOMAIN rows |-> j], InActiveOrder(S)[i])])}

-----------------------------------------------------------------------------
\* What authors keep to: rows come in the order of rolling windows.
RollingInOrder ==
  \A w \in op.windows : w.function \in {"rollingsum", "rollingmax"} =>
    \A x, y \in DOMAIN rows :
      TextOf(w.by, x) = TextOf(w.by, y) =>
        (Before(w, x, y) <=> x < y)

Init ==
  /\ rows = <<>> /\ op = None /\ limit = None /\ status = "none"
  /\ tasks = {} /\ output = None

Author ==
  /\ status = "none"
  /\ \E c \in Cases : rows' = ActiveRows(c[1], c[2].selection) /\ op' = c[2]
  /\ limit' \in Limits
  /\ "rolling" \in Liberties \/ RollingInOrder'
  /\ status' = "selected"
  /\ UNCHANGED <<tasks, output>>

\* Rows without a partition, groups across partitions and groups that no task can hold are refused.
PlanTasks ==
  /\ status = "selected"
  /\ IF Null \notin Partitions /\ WindowsAccepted /\ GroupsAccepted /\ BudgetKept
     THEN tasks' = PlannedTasks /\ status' = "planned"
     ELSE status' = "refused" /\ UNCHANGED tasks
  /\ UNCHANGED <<rows, op, limit, output>>

\* The tasks share nothing; one that fails, fails the run.
Materialize ==
  /\ status = "planned"
  /\ IF \E t \in tasks : TaskFails(t)
     THEN status' = "failed" /\ UNCHANGED output
     ELSE output' = [t \in tasks |-> TaskOutput(t)] /\ status' = "written"
  /\ UNCHANGED <<rows, op, limit, tasks>>

Done == status \in {"refused", "failed", "written"}
Finished == Done /\ UNCHANGED vars
Next == Author \/ PlanTasks \/ Materialize \/ Finished
Spec == Init /\ [][Next]_vars

-----------------------------------------------------------------------------
TypeOK ==
  /\ status \in {"none", "selected", "planned", "refused", "failed", "written"}
  /\ status = "none" \/ limit \in Limits
  /\ \A t \in tasks : Range(t.coordinates) \subseteq DOMAIN rows
  /\ output = None \/ DOMAIN output = tasks

\* Every row is in one task of its partition; a task exceeds its limits only by a single
\* group, and the memory only where it spills.
TasksHoldTheRows ==
  status \in {"planned", "written"} =>
    /\ \A x \in DOMAIN rows : Cardinality({t \in tasks : x \in Range(t.coordinates)}) = 1
    /\ \A t \in tasks :
         LET held == Range(t.coordinates)
         IN  /\ held # {} /\ \A x \in held : rows[x].partition = t.partition
             /\ \/ Fits(held)
                \/ CompleteGroups # {} /\ \A x, y \in held : TextOf(Chosen, x) = TextOf(Chosen, y)
                \/ Cardinality(held) = 1
             /\ t.spill \/ Contracts = {} \/ Bytes(held) <= limit.bytes

\* The windows of a row are those over all rows.
WindowsAreWhole ==
  status = "written" /\ ~Pivots =>
    \A t \in tasks : \A x \in DOMAIN output[t] : \A w \in op.windows :
      output[t][x][w] \in MeantWindow(w, x)

\* Each row key is in one task, and its cells are those over all rows; a column no row of a
\* task has is not in its output.
PivotIsWhole ==
  status = "written" /\ Pivots =>
    /\ \A x \in DOMAIN rows : \E t \in tasks :
         RowKeyOf(x) \in DOMAIN output[t] /\ ColumnKeyOf(x) \in DOMAIN output[t][RowKeyOf(x)]
    /\ \A t \in tasks : \A r \in DOMAIN output[t] :
         /\ \A u \in tasks \ {t} : r \notin DOMAIN output[u]
         /\ \A c \in DOMAIN output[t][r] :
              \/ output[t][r][c] \in MeantCell(r, c)
              \/ t.spill /\ op.pivot.aggregation = "sum" /\ output[t][r][c] = {0}
                 /\ Null \in MeantCell(r, c)

\* A run fails only over what its rows are.
FailsForItsRows ==
  status = "failed" => PivotRejects(DOMAIN rows)
NothingRejected ==
  status = "written" /\ Pivots => ~PivotRejects(DOMAIN rows)
=============================================================================
