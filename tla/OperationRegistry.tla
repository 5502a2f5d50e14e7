------------------------- MODULE OperationRegistry -------------------------
(***************************************************************************)
(* What a pipeline run leaves in the operation registry                    *)
(* (runtime/operation_registry.py, run_pipeline_yaml of runtime/runner.py):*)
(* it records its definition, works, and records its execution.  The       *)
(* registry is a database, whose transactions are atomic; the completion   *)
(* catalog is a file made from a query of it after a transaction.          *)
(*                                                                         *)
(* Runs and authoring tools share both without any lock, and may die.  A   *)
(* transaction that waits for the database longer than its timeout raises  *)
(* and is left out.                                                        *)
(***************************************************************************)
EXTENDS Naturals, FiniteSets

CONSTANTS
  Process,     \* runs of pipelines, and insertions by an authoring tool
  Deployments, \* which processes there are, and whether one waits for the other
  Definition,  \* the pipeline definitions
  Spec,        \* canonical operations
  Removed,     \* those of operations that no longer exist, which the catalog omits
  Graphs,      \* compiled graphs: sets of nodes [alias, spec, node]
  MaxEdits,    \* bound: changes of the definitions
  None

VARIABLES
  deployment,   \* one of Deployments; it does not change
  yaml,         \* the definitions: the hash of the text, and the graph it compiles to
  specs,        \* operation_specs: the last alias of each known spec
  nodes,        \* dag_nodes: the last status of each known node
  definitions,  \* definition_operations: of each definition its hash and nodes
  executions,   \* executions: a row for each node of a recorded run
  inserts,      \* operation_events: the insertions of each spec
  catalog,      \* completion-catalog.json
  process,      \* the local variables of the processes
  edits,        \* counter for the bound
  behind        \* history: the catalog was last written from an overtaken query, or not at all

registry == <<specs, nodes, definitions, executions, inserts>>
vars == <<deployment, yaml, registry, catalog, process, edits, behind>>

\* Assumed of the constants (where the module is used).
RegistryAssumption ==
  /\ Removed \subseteq Spec
  /\ \A g \in Graphs : \A n \in g : n.spec \in Spec

NodeKeys == {n.node : n \in UNION Graphs}
Fresh == [pc |-> "idle", graph |-> {}, hash |-> 0, definition |-> None, status |-> None,
          then |-> None, rows |-> None, late |-> FALSE]
AtRest == {"idle", "returned", "raised", "unrecorded", "dead"}

TypeOK ==
  /\ deployment \in Deployments
  /\ \A d \in Definition : yaml[d].graph \in Graphs /\ yaml[d].hash \in Nat
  /\ DOMAIN specs = Spec /\ DOMAIN nodes = NodeKeys /\ inserts \in [Spec -> Nat]
  /\ \A d \in Definition : definitions[d] = None \/ definitions[d].nodes \in Graphs
  /\ \A e \in executions : e.run \in Process /\ e.node \in NodeKeys /\ e.status \in {"success", "failed"}
  /\ \A p \in Process :
       process[p].pc \in AtRest \cup {"define", "query", "write", "execute", "complete", "record"}
  /\ edits \in 0 .. MaxEdits /\ behind \in BOOLEAN

Init ==
  /\ deployment \in Deployments
  /\ yaml \in [Definition -> {[hash |-> 0, graph |-> g] : g \in Graphs}]
  /\ specs = [s \in Spec |-> None] /\ nodes = [n \in NodeKeys |-> None]
  /\ definitions = [d \in Definition |-> None] /\ executions = {} /\ inserts = [s \in Spec |-> 0]
  /\ catalog = None /\ process = [p \in Process |-> Fresh] /\ edits = 0 /\ behind = FALSE

\* A definition is edited, or compiles to another graph because an upstream was.
Edit(d) ==
  /\ edits < MaxEdits /\ edits' = edits + 1
  /\ \E g \in Graphs \ {yaml[d].graph}, h \in {yaml[d].hash, edits + 1} :
       yaml' = [yaml EXCEPT ![d] = [hash |-> h, graph |-> g]]
  /\ UNCHANGED <<deployment, registry, catalog, process, behind>>

-----------------------------------------------------------------------------

At(p, l) == process[p].pc = l
Goto(p, l) == process' = [process EXCEPT ![p].pc = l]

Raise(p) == process' = [process EXCEPT ![p] = [Fresh EXCEPT !.pc = "raised"]]

\* Mutant of Committed: the catalog is written anew only for executions.
CommittedQuietly(p, next) ==
  process' = [process EXCEPT ![p].pc = IF next = "returned" /\ At(p, "idle") THEN next ELSE "query",
                             ![p].then = next, ![p].hash = 0]

\* A transaction is followed by the writing of the catalog and then by what is next.
Committed(p, next) == process' = [process EXCEPT ![p].pc = "query", ![p].then = next, ![p].hash = 0]

MayStart(p) ==
  /\ At(p, "idle") /\ p \in deployment.processes
  /\ deployment.overlap \/ \A q \in Process : process[q].pc \in AtRest

\* The definition is loaded and compiled.
Load(p, d) ==
  /\ MayStart(p)
  /\ process' = [process EXCEPT ![p] =
                   [Fresh EXCEPT !.pc = "define", !.definition = d,
                                 !.graph = yaml[d].graph, !.hash = yaml[d].hash]]
  /\ UNCHANGED <<deployment, yaml, registry, catalog, edits, behind>>

\* Mutant of Unchanged: the text alone is compared.
SameText(p) ==
  /\ definitions[process[p].definition] # None
  /\ definitions[process[p].definition].hash = process[p].hash

\* _definition_is_unchanged: the rows of the definition are those of its graph.
Unchanged(p) ==
  definitions[process[p].definition] = [hash |-> process[p].hash, nodes |-> process[p].graph]

\* record_graph_definition; one that is unchanged leaves the catalog alone.
Define(p) ==
  LET g == process[p].graph
      Alias(s) == CHOOSE n \in g : n.spec = s
  IN
  /\ At(p, "define")
  /\ IF Unchanged(p)
     THEN process' = [process EXCEPT ![p].pc = "execute", ![p].hash = 0] /\ UNCHANGED <<specs, nodes, definitions>>
     ELSE /\ definitions' =
               [definitions EXCEPT ![process[p].definition] = [hash |-> process[p].hash, nodes |-> g]]
          /\ specs' =
               [s \in Spec |-> IF \E n \in g : n.spec = s THEN Alias(s).alias ELSE specs[s]]
          /\ nodes' =
               [k \in NodeKeys |->
                  IF nodes[k] = None /\ \E n \in g : n.node = k THEN "validated" ELSE nodes[k]]
          /\ Committed(p, "execute")
  /\ UNCHANGED <<deployment, yaml, executions, inserts, catalog, edits, behind>>

\* The query of _write_completion_catalog: each known operation with its counts.
Counts ==
  LET RunsWith(s, status) == {e.run : e \in {x \in executions : x.spec = s /\ x.status = status}}
      Uses(s) == {d \in Definition : definitions[d] # None /\ \E n \in definitions[d].nodes : n.spec = s}
  IN  [s \in {x \in Spec \ Removed : specs[x] # None} |->
         [alias |-> specs[s], definitions |-> Cardinality(Uses(s)), inserts |-> inserts[s],
          successes |-> Cardinality(RunsWith(s, "success")),
          failures |-> Cardinality(RunsWith(s, "failed"))]]

Query(p) ==
  /\ At(p, "query")
  /\ process' = [process EXCEPT ![p].pc = "write", ![p].rows = Counts, ![p].late = FALSE]
  /\ UNCHANGED <<deployment, yaml, registry, catalog, edits, behind>>

\* Those that have queried and not written yet may no longer have the newest rows.
Overtake(p, local) ==
  [q \in Process |->
     IF q = p THEN local ELSE [process[q] EXCEPT !.late = @ \/ process[q].pc = "write"]]

\* A temporary file of the process replaces the catalog.
Write(p) ==
  /\ At(p, "write")
  /\ catalog' = process[p].rows /\ behind' = process[p].late
  /\ process' = Overtake(p, [process[p] EXCEPT !.pc = process[p].then, !.rows = None, !.late = FALSE])
  /\ UNCHANGED <<deployment, yaml, registry, edits>>

\* The asset runs.  If it raises, that is recorded; what follows before its metadata is
\* written is not covered.
Execute(p) ==
  /\ At(p, "execute")
  /\ \/ process' = [process EXCEPT ![p].pc = "record", ![p].status = "failed", ![p].then = "raised"]
     \/ Raise(p)
     \/ \E s \in {"success", "failed"} :
          process' = [process EXCEPT ![p].pc = "complete", ![p].status = s]
  /\ UNCHANGED <<deployment, yaml, registry, catalog, edits, behind>>

\* The metadata is written, then the dataset is described and published: a failure of the
\* first is recorded, one of the others is not.
Complete(p) ==
  /\ At(p, "complete")
  /\ \/ process' = [process EXCEPT ![p].pc = "record", ![p].status = "failed", ![p].then = "raised"]
     \/ Raise(p)
     \/ process' = [process EXCEPT ![p].pc = "record", ![p].then = "returned"]
  /\ UNCHANGED <<deployment, yaml, registry, catalog, edits, behind>>

\* The keys of the table, <node>_<run>, and its references to dag_nodes.
Insertable(p) ==
  /\ \A m, n \in process[p].graph : m.node = n.node => m = n
  /\ \A n \in process[p].graph : nodes[n.node] # None

\* record_graph_execution; a row the table refuses rolls the transaction back and raises.
Record(p) ==
  LET g == process[p].graph
      status == process[p].status
      Row(n) == [run |-> p, node |-> n.node, spec |-> n.spec, status |-> status]
  IN
  /\ At(p, "record")
  /\ IF Insertable(p)
     THEN /\ executions' = executions \cup {Row(n) : n \in g}
          /\ nodes' = [k \in NodeKeys |-> IF \E n \in g : n.node = k THEN status ELSE nodes[k]]
          /\ Committed(p, process[p].then)
     ELSE Goto(p, "unrecorded") /\ UNCHANGED <<executions, nodes>>
  /\ UNCHANGED <<deployment, yaml, specs, definitions, inserts, catalog, edits, behind>>

\* record_authoring_insert; the alias is that of a completion the author accepted.
Insert(p, s, alias) ==
  /\ MayStart(p)
  /\ IF specs[s] = None
     THEN Raise(p) /\ UNCHANGED <<specs, inserts>>
     ELSE /\ specs' = [specs EXCEPT ![s] = IF alias = None THEN @ ELSE alias]
          /\ inserts' = [inserts EXCEPT ![s] = @ + 1]
          /\ Committed(p, "returned")
  /\ UNCHANGED <<deployment, yaml, nodes, definitions, executions, catalog, edits, behind>>

\* A process that dies between its transaction and the catalog leaves that behind.
Die(p) ==
  /\ process[p].pc \notin AtRest
  /\ LET unwritten == process[p].pc \in {"query", "write"}
         dead == [Fresh EXCEPT !.pc = "dead"]
     IN  /\ process' = IF unwritten THEN Overtake(p, dead) ELSE [process EXCEPT ![p] = dead]
         /\ behind' = (behind \/ unwritten)
  /\ UNCHANGED <<deployment, yaml, registry, catalog, edits>>

Next ==
  \/ \E d \in Definition : Edit(d)
  \/ \E p \in Process :
       \/ Define(p) \/ Query(p) \/ Write(p) \/ Execute(p) \/ Complete(p) \/ Record(p) \/ Die(p)
       \/ \E d \in Definition : Load(p, d)
       \/ \E s \in Spec, alias \in {None, "z"} : Insert(p, s, alias)

RegistrySpec == Init /\ [][Next]_vars

-----------------------------------------------------------------------------
(* Properties *)

RowsOf(p) == {e \in executions : e.run = p}

\* A run that returned is recorded, with every node of its graph and one status; a run is
\* never recorded in part, and the registry refuses one only because its graph has two
\* nodes of one key: the same operation with the same inputs under two aliases.
RunsAreRecorded ==
  \A p \in Process :
    /\ At(p, "returned") /\ process[p].definition # None =>
         /\ {e.node : e \in RowsOf(p)} = {n.node : n \in process[p].graph}
         /\ \A e \in RowsOf(p) : e.status = process[p].status
    /\ At(p, "raised") => \A e \in RowsOf(p) : e.status = "failed"
    /\ At(p, "unrecorded") =>
         RowsOf(p) = {} /\ \E m, n \in process[p].graph : m # n /\ m.node = n.node

\* When nobody is at work, the catalog says what the registry holds, unless it was last
\* written from a query that another process overtook, or a process died before it wrote.
CatalogCatchesUp ==
  /\ \A p \in Process : process[p].pc \in AtRest
  /\ ~ behind
  => IF catalog = None THEN Counts = << >> ELSE catalog = Counts
=============================================================================
