------------------------------ MODULE FactPlan ------------------------------
(* What a run of asset 0102 calculates: every name an expression reads is  *)
(* bound once, against the union of the columns of all segments of the     *)
(* upstream dataset; expressions whose inputs exist nowhere are left out;  *)
(* and each segment gets a task with the expressions whose inputs it has.  *)
(* The task of a segment reads by names alone, in a batch made of columns, *)
(* aliases and looked up values, so what has to be right is that it finds  *)
(* under every name what the plan bound to it.                             *)
(*                                                                         *)
(* A value is the set of what it was made from; null is made from nothing. *)
EXTENDS Naturals, Sequences, FiniteSets, FiniteSetsExt, Functions

CONSTANTS
  Segment,    \* the segments of the upstream dataset
  Specs,      \* definitions an author may write
  Schemas,    \* functions from segments to their columns
  ListColumn, \* the columns of lists
  Qualified,  \* the names of the form alias.column, as pairs
  Liberties   \* what authors do not keep to: "keys" and "names" (below)

\* Assumed of the constants (where the module is used).
FactAssumption ==
  /\ IsFiniteSet(Segment)
  /\ Liberties \subseteq {"keys", "names"}

VARIABLES
  spec,      \* the definition
  columns,   \* the columns of each segment
  status,    \* of the run
  plan,      \* CalculatedFactRunPlan
  fact       \* what the task of a segment wrote

vars == <<spec, columns, status, plan, fact>>

None == <<>>
\* A segment before its task has run, without any facts, and with those that were written.
Awaited == [state |-> "awaited", rows |-> None]
Barren == [state |-> "barren", rows |-> None]
Written(rows) == [state |-> "written", rows |-> rows]
Null == [of |-> {}, list |-> FALSE]
Source(c) == [of |-> {<<"source", c>>}, list |-> c \in ListColumn]
SourceColumns == UNION Range(columns)
NamesOf(expressions) == {e.name : e \in expressions}
Named(expressions, n) == CHOOSE e \in expressions : e.name = n

\* The columns of the upstream dataset that are part of the output.
Retained == spec.identity \cup spec.include

\* The operations of a definition: columns are included only in wide outputs.  Lists are
\* expanded and compacted in place, under the names they have.
OperationsLoad(d) == d.mode = "long" => d.include = {}

\* load_calculated_fact_spec: a definition that is loaded says what identifies a row, and does
\* not call two lookups the same.
Loads(d) ==
  /\ d.identity # {}
  /\ \A k, l \in d.lookups : k.alias = l.alias => k = l
  /\ OperationsLoad(d)

-----------------------------------------------------------------------------
(* What a definition means, expression by expression: an expression may    *)
(* read any other, itself only as a column.                                *)

\* load_column_alias_registry: the files of aliases, which are pairs, as a function.
AliasRegistry ==
  [n \in {a[1] : a \in spec.aliases} |-> (CHOOSE a \in spec.aliases : a[1] = n)[2]]

\* What a name stands for that no expression calculates, given some columns.
LookupOf(n) ==
  IF n \in DOMAIN Qualified
  THEN {l \in spec.lookups : l.alias = Qualified[n][1] /\ Qualified[n][2] \in l.columns}
  ELSE {l \in spec.lookups : n \in l.columns}
Physical(n) == IF n \in DOMAIN AliasRegistry THEN AliasRegistry[n] ELSE n
LookedUp(n) == IF n \in DOMAIN Qualified THEN Qualified[n][2] ELSE n

Leaf(n, known) ==
  IF Physical(n) \in known THEN {Source(Physical(n))}
  ELSE IF Physical(n) # n THEN {}
  ELSE {[of |-> {<<l.alias, LookedUp(n)>>} \cup Source(Physical(l.key)).of, list |-> FALSE] :
          l \in {k \in LookupOf(n) : Physical(k.key) \in known}}

\* Of an expression with lists the values are lists.
Combined(e, values) ==
  [of |-> UNION {v.of : v \in values} \cup {<<"calculated", e.name>>},
   list |-> \E v \in values : v.list]

\* The value of an expression where the columns are known, if its inputs are; expressions
\* reach one another in fewer steps than there are expressions.
Meaning(known) ==
  LET E == spec.expressions
      Value[n \in NamesOf(E), depth \in 0 .. Cardinality(E)] ==
        LET e == Named(E, n)
            Input(r) ==
              IF r \in NamesOf(E) \ {n}
              THEN IF depth = 0 THEN {} ELSE Value[r, depth - 1]
              ELSE Leaf(r, known)
        IN  IF \E r \in e.refs : Input(r) = {} THEN {}
            ELSE {Combined(e, UNION {Input(r) : r \in e.refs})}
  IN  [n \in NamesOf(E) |-> Value[n, Cardinality(E)]]

-----------------------------------------------------------------------------
(* compile_expression_file: the layers in which expressions are run.       *)

Dependencies(e, expressions) == e.refs \cap (NamesOf(expressions) \ {e.name})

\* The layers, some of them empty; expressions in a cycle are in none.
Layers(expressions) ==
  LET Until[i \in 0 .. Cardinality(expressions)] ==
        IF i = 0 THEN {}
        ELSE {e \in expressions : Dependencies(e, expressions) \subseteq NamesOf(Until[i - 1])}
  IN  [i \in 1 .. Cardinality(expressions) |-> Until[i] \ Until[i - 1]]

Compiled(expressions) == UNION Range(Layers(expressions)) = expressions

-----------------------------------------------------------------------------
(* build_binding_plan: what each name is bound to.                         *)

Binding(n, kind, column, lookup) == [name |-> n, kind |-> kind, column |-> column, lookup |-> lookup]

\* An alias is of one column, and no column itself.
AliasesAccepted(known) ==
  /\ \A a, b \in spec.aliases : a[1] = b[1] => a = b
  /\ DOMAIN AliasRegistry \cap known = {}

\* Of kind "missing" is what does not exist, of kind "fatal" what fails the run.
BindLeafOrMissing(n, known) ==
  LET candidates == {l \in spec.lookups : n \in l.columns}
      qualifying == IF n \in DOMAIN Qualified THEN {l \in spec.lookups : l.alias = Qualified[n][1]} ELSE {}
  IN  IF n \in known THEN Binding(n, "source", n, None)
      ELSE IF n \in DOMAIN AliasRegistry THEN Binding(n, "virtual_alias", AliasRegistry[n], None)
      ELSE IF qualifying # {}
        THEN IF \E l \in qualifying : Qualified[n][2] \in l.columns
             THEN Binding(n, "lookup", Qualified[n][2], Qualified[n][1])
             ELSE Binding(n, "missing", n, None)
      ELSE IF Cardinality(candidates) = 1
        THEN Binding(n, "lookup", n, (CHOOSE l \in candidates : TRUE).alias)
      ELSE IF Cardinality(candidates) > 1 \/ n \in NamesOf(spec.expressions)
        THEN Binding(n, "fatal", n, None)
      ELSE Binding(n, "missing", n, None)

LookupNamed(a) == CHOOSE l \in spec.lookups : l.alias = a
KeyColumn(l) == IF l.key \in DOMAIN AliasRegistry THEN AliasRegistry[l.key] ELSE l.key

\* Mutant of Bind: what a skipped expression is called is looked for elsewhere.
BindUnlessCalculated(n, bound, known) ==
  IF n \in bound.available THEN Binding(n, "expression", n, None) ELSE BindLeafOrMissing(n, known)

\* A name in an expression, after the layers before it.
Bind(n, bound, known) ==
  LET leaf == BindLeafOrMissing(n, known)
  IN  IF n \in bound.skipped THEN Binding(n, "missing", n, None)
      ELSE IF n \in bound.available THEN Binding(n, "expression", n, None)
      ELSE IF \/ leaf.kind = "virtual_alias" /\ leaf.column \notin known
              \/ leaf.kind = "lookup" /\ KeyColumn(LookupNamed(leaf.lookup)) \notin known
        THEN Binding(n, "missing", n, None)
      ELSE leaf

\* One layer: expressions that miss something are skipped, and what is bound stays bound.
BindLayer(bound, layer, known) ==
  LET found(e) == {Bind(n, bound, known) : n \in e.refs}
      misses(e) == \E b \in found(e) : b.kind = "missing"
      usable(e) == {b \in found(e) : b.kind # "missing"}
      active    == {e \in layer : ~misses(e)}
      all       == bound.bindings \cup UNION {found(e) : e \in active}
  IN  [bindings  |-> all,
       skipped   |-> bound.skipped \cup NamesOf(layer \ active),
       available |-> bound.available \cup NamesOf(active),
       failed    |-> \/ bound.failed
                     \/ \E e \in layer : \E b \in usable(e) :
                          \/ b.kind = "fatal"
                          \/ \E o \in all : o.name = b.name /\ o # b]

BindingPlan(known) ==
  LET layers == Layers(spec.expressions)
      After[i \in 0 .. Len(layers)] ==
        IF i = 0 THEN [bindings |-> {}, skipped |-> {}, available |-> {}, failed |-> FALSE]
        ELSE BindLayer(After[i - 1], layers[i], known)
  IN  After[Cardinality(spec.expressions)]

UsedLookups(bindings) == {l \in spec.lookups : \E b \in bindings : b.kind = "lookup" /\ b.lookup = l.alias}

SourceProjection(bindings, known) ==
  Retained \cup {b.column : b \in {c \in bindings : c.kind \in {"source", "virtual_alias"}}}
    \cup {KeyColumn(l) : l \in UsedLookups(bindings)} \cup (spec.expand \cap known)

\* The keys of a lookup that is used are unique: it does not multiply rows.
LookupKeysUnique(bindings) == \A l \in UsedLookups(bindings) : l.unique

-----------------------------------------------------------------------------
(* plan_expression_execution: whether values are lists, and how such       *)
(* expressions are run.                                                    *)

Strategy(kind, reads) ==
  IF ~reads THEN "scalar"
  ELSE CASE kind = "native" -> "list_native_map"
         [] kind = "call" /\ spec.expand # {} -> "expand_calculate_compact"
         [] OTHER -> "unsupported"

\* The names that are lists once the first layers are planned.
ListNames(active, bindings) ==
  LET leaves == {b.name : b \in {c \in bindings : c.kind \in {"source", "virtual_alias"}
                                                  /\ c.column \in ListColumn}}
      layers == Layers(active)
      After[i \in 0 .. Len(layers)] ==
        IF i = 0 THEN leaves
        ELSE LET layer == layers[i]
                 lists == {e \in layer : e.refs \cap After[i - 1] # {}}
             IN  (After[i - 1] \ NamesOf(layer)) \cup NamesOf(lists)
  IN  After

ExecutionPlanned(active, bindings) ==
  LET layers == Layers(active)
      lists  == ListNames(active, bindings)
  IN  \A i \in DOMAIN layers : \A e \in layers[i] :
        Strategy(e.kind, e.refs \cap lists[i - 1] # {}) # "unsupported"

\* Columns to expand are lists where they exist.
ExpandTypesAccepted(known) == spec.expand \cap known \subseteq ListColumn

-----------------------------------------------------------------------------
(* build_calculated_fact_plan.                                             *)

\* Mutant of BindingColumns: an expression needs the alias rather than its column, and no key of a lookup.
BindingNames(b) == {b.name}

\* derive_expression_fingerprint_specs: the columns an expression needs in the end.
BindingColumns(b) ==
  IF b.kind = "lookup" THEN {KeyColumn(LookupNamed(b.lookup))} ELSE {b.column}
PhysicalInputs(active, bindings) ==
  LET leaf(n) == CHOOSE b \in bindings : b.name = n /\ b.kind # "expression"
      layers == Layers(active)
      After[i \in 0 .. Len(layers)] ==
        IF i = 0 THEN [n \in {} |-> {}]
        ELSE LET before == After[i - 1]
             IN  [n \in DOMAIN before \cup NamesOf(layers[i]) |->
                    IF n \in DOMAIN before THEN before[n]
                    ELSE UNION {IF r \in DOMAIN before THEN before[r] ELSE BindingColumns(leaf(r)) :
                                  r \in Named(active, n).refs}]
  IN  After[Cardinality(active)]

PlanOf ==
  LET bound  == BindingPlan(SourceColumns)
      active == {e \in spec.expressions : e.name \in bound.available}
  IN  [bindings |-> bound.bindings,
       active   |-> active,
       inputs   |-> PhysicalInputs(active, bound.bindings),
       lists    |-> ListNames(active, bound.bindings)[Cardinality(active)],
       project  |-> SourceProjection(bound.bindings, SourceColumns)]

\* In the order of the code, which stops at the first of these; Plan evaluates no later one.
PlanAccepted ==
  LET bound  == BindingPlan(SourceColumns)
      active == {e \in spec.expressions : e.name \in bound.available}
  IN  /\ Loads(spec)
      /\ ExpandTypesAccepted(SourceColumns)
      /\ spec.include \subseteq SourceColumns
      /\ Compiled(spec.expressions)
      /\ AliasesAccepted(SourceColumns)
      /\ ~bound.failed
      /\ Retained \subseteq SourceColumns
      /\ LookupKeysUnique(bound.bindings)
      /\ ExecutionPlanned(active, bound.bindings)
      /\ spec.mode = "wide" => Retained \cap NamesOf(active) = {}

-----------------------------------------------------------------------------
(* The task of a segment.                                                  *)

\* Mutant of Selected: a segment calculates whatever the dataset has the inputs for.
SelectedAll(p, s) == p.active

\* _segment_expression_names: what the segment has the inputs for.
Selected(p, s) == {e \in p.active : p.inputs[e.name] \subseteq columns[s]}

\* subset_expression_ir: with what they read.
WithRequired(p, chosen) ==
  LET Until[i \in 0 .. Cardinality(p.active)] ==
        IF i = 0 THEN chosen
        ELSE Until[i - 1] \cup {e \in p.active : \E o \in Until[i - 1] : e.name \in o.refs}
  IN  Until[Cardinality(p.active)]

\* _projection_columns: physical columns under their names, then their aliases.
Projection(p, s, chosen) ==
  LET required == Retained \cup UNION {p.inputs[e.name] : e \in chosen}
      physical == p.project \cap required \cap columns[s]
      logical  == {b.name : b \in {c \in p.bindings : c.kind = "virtual_alias"}}
                    \cup {l.key : l \in {k \in spec.lookups : k.key \in DOMAIN AliasRegistry}}
      aliases  == {n \in logical \ physical : Physical(n) \in required \cap columns[s]}
  IN  [n \in physical \cup aliases |-> IF n \in physical THEN Source(n) ELSE Source(Physical(n))]

\* _lookup_enrich_configs and the join of the kernel: the lookups of the run, in every task.
Enriched(p, batch) ==
  LET values == {b \in p.bindings : b.kind = "lookup"}
      value(b) == [of |-> {<<b.lookup, b.column>>} \cup batch[LookupNamed(b.lookup).key].of,
                   list |-> FALSE]
  IN  [n \in DOMAIN batch \cup {b.name : b \in values} |->
         IF n \in DOMAIN batch THEN batch[n] ELSE value(CHOOSE b \in values : b.name = n)]
EnrichSucceeds(p, batch) == \A l \in UsedLookups(p.bindings) : l.key \in DOMAIN batch

\* evaluate_expression: lists natively, or expanded and compacted.
EvaluateSucceeds(e, batch) ==
  /\ e.refs \subseteq DOMAIN batch
  /\ (\E n \in e.refs : batch[n].list) => e.kind # "window"
Evaluate(e, batch) == Combined(e, {batch[n] : n \in e.refs})

\* The names of the batch that the output is made from.
FinalLive(p, s) ==
  IF spec.mode = "wide" THEN Retained \cup NamesOf(p.active)
  ELSE spec.identity \cup NamesOf(Selected(p, s))

\* execute_expression_ir_retaining: a layer reads the batch before it, and a name is replaced.
ExecuteLayer(batch, layer, live) ==
  [n \in (DOMAIN batch \cup NamesOf(layer)) \cap live |->
     IF n \in NamesOf(layer) THEN Evaluate(Named(layer, n), batch) ELSE batch[n]]

Execution(p, s) ==
  LET chosen == Selected(p, s)
      layers == Layers(WithRequired(p, chosen))
      later(i) == UNION {UNION {e.refs : e \in layers[j]} : j \in i + 1 .. Len(layers)}
      restored == Projection(p, s, chosen)
      After[i \in 0 .. Len(layers)] ==
        IF i = 0 THEN [ok |-> EnrichSucceeds(p, restored),
                       batch |-> IF EnrichSucceeds(p, restored) THEN Enriched(p, restored) ELSE restored]
        ELSE LET before == After[i - 1]
                 layer  == layers[i]
             IN  IF /\ before.ok
                    /\ \A e \in layer : EvaluateSucceeds(e, before.batch)
                 THEN [ok |-> TRUE,
                       batch |-> IF layer = {} THEN before.batch
                                 ELSE ExecuteLayer(before.batch, layer, FinalLive(p, s) \cup later(i))]
                 ELSE [before EXCEPT !.ok = FALSE]
  IN  After[Len(layers)]

\* _wide_output_projection and apply_projection: the columns of a wide output are always the
\* same; null is what the batch does not have and need not have.
WideOutput(p, s, batch) ==
  LET retained(n) == IF n \in DOMAIN batch THEN batch[n] ELSE Null
      optional == {n \in Retained : n \notin columns[s]} \cup (NamesOf(p.active) \ NamesOf(Selected(p, s)))
  IN  [ok |-> Retained \cup NamesOf(p.active) \subseteq DOMAIN batch \cup optional,
       rows |-> [c \in Retained \cup NamesOf(p.active) |-> retained(c)]]

\* to_persisted_long_fact_v1: the identity, and a value for each expression of the task.
LongOutput(p, s, batch) ==
  LET names == NamesOf(Selected(p, s))
  IN  [ok |-> spec.identity \cup names \subseteq DOMAIN batch,
       rows |-> [c \in spec.identity \cup names |-> batch[c]]]

Output(p, s) ==
  LET run == Execution(p, s)
  IN  IF ~run.ok THEN [ok |-> FALSE, rows |-> None]
      ELSE IF spec.mode = "wide" THEN WideOutput(p, s, run.batch)
      ELSE LongOutput(p, s, run.batch)

-----------------------------------------------------------------------------
(* What authors keep to, unless they take the liberty.                     *)

\* Each segment has the keys of the lookups, retained in the output.
KeysRetained ==
  \A l \in spec.lookups :
    Physical(l.key) \in Retained /\ \A s \in Segment : Physical(l.key) \in columns[s]

\* Expressions do not take the names of columns that are retained or that others read by an alias.
NamesApart ==
  NamesOf(spec.expressions) \cap (Retained \cup Range(AliasRegistry) \cup spec.expand) = {}

-----------------------------------------------------------------------------
Init ==
  /\ spec = None /\ columns = None /\ plan = None /\ status = "none"
  /\ fact = [s \in Segment |-> Awaited]

Author ==
  /\ status = "none"
  /\ spec' \in Specs /\ columns' \in Schemas
  /\ "keys" \in Liberties \/ KeysRetained'
  /\ "names" \in Liberties \/ NamesApart'
  /\ status' = "started"
  /\ UNCHANGED <<plan, fact>>

Plan ==
  /\ status = "started"
  /\ IF PlanAccepted
     THEN status' = "planned" /\ plan' = PlanOf
     ELSE status' = "failed" /\ UNCHANGED plan
  /\ UNCHANGED <<spec, columns, fact>>

\* A segment without its identity fails the run; one without any input has no long task.
RunSegment(s) ==
  /\ status = "planned" /\ fact[s] = Awaited
  /\ IF ~(spec.identity \subseteq columns[s])
     THEN status' = "failed" /\ UNCHANGED fact
     ELSE IF spec.mode = "long" /\ Selected(plan, s) = {}
     THEN fact' = [fact EXCEPT ![s] = Barren] /\ UNCHANGED status
     ELSE LET output == Output(plan, s)
          IN  IF output.ok
              THEN fact' = [fact EXCEPT ![s] = Written(output.rows)] /\ UNCHANGED status
              ELSE status' = "broken" /\ UNCHANGED fact
  /\ UNCHANGED <<spec, columns, plan>>

Done ==
  \/ status \in {"failed", "broken"}
  \/ status = "planned" /\ \A s \in Segment : fact[s] # Awaited
Finished == Done /\ UNCHANGED vars

Next == Author \/ Plan \/ (\E s \in Segment : RunSegment(s)) \/ Finished
Spec == Init /\ [][Next]_vars

-----------------------------------------------------------------------------
TypeOK ==
  /\ status # "none" => spec \in Specs /\ columns \in Schemas
  /\ status \in {"none", "started", "planned", "failed", "broken"}
  /\ status \in {"none", "started"} => plan = None
  /\ DOMAIN fact = Segment

\* An accepted plan calculates exactly the expressions whose inputs exist in the upstream
\* dataset, however they reach them, and knows which of them are lists.
PlanIsExact ==
  plan # None =>
    LET meant == Meaning(SourceColumns)
    IN  /\ NamesOf(plan.active) = {n \in DOMAIN meant : meant[n] # {}}
        /\ \A n \in NamesOf(plan.active) : n \in plan.lists <=> \E v \in meant[n] : v.list

\* A task never fails for a name that the plan bound.
TasksFindTheirInputs == status # "broken"

\* A segment holds for each expression its value where it has the inputs, null or nothing
\* where it has not; and retained columns are those of the source.
FactIsExact ==
  \A s \in Segment : fact[s].state = "written" =>
    LET meant == Meaning(columns[s])
        rows  == fact[s].rows
    IN
      /\ \A c \in Retained : rows[c] = IF c \in columns[s] THEN Source(c) ELSE Null
      /\ \A e \in plan.active :
           LET n == e.name
           IN  IF meant[e.name] # {} THEN n \in DOMAIN rows /\ rows[n] \in meant[e.name]
               ELSE IF spec.mode = "wide" THEN rows[n] = Null
               ELSE n \notin DOMAIN rows

\* Every segment that lacks the inputs of all expressions has no facts, and no other.
EmptyOnlyWithoutInputs ==
  \A s \in Segment : fact[s].state = "barren" =>
    \A n \in NamesOf(plan.active) : Meaning(columns[s])[n] = {}
=============================================================================
