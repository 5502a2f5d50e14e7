----------------------------- MODULE AssetChain -----------------------------
(***************************************************************************)
(* A chain of assets (runtime/asset_chain.py): the assets of a definition  *)
(* are executed in topological order, one at a time; what lies downstream  *)
(* of a failure is blocked, and an asset is reused when its fingerprint    *)
(* and the receipt of its output are those of the previous chain run.      *)
(*                                                                         *)
(* The record of the previous run is a file that is replaced at the end of *)
(* a run.  Meanwhile other processes may run the same assets, sources and  *)
(* definitions change, and the chain may die.                              *)
(***************************************************************************)
EXTENDS Naturals, Sequences, FiniteSetsExt, Functions

CONSTANTS
  Asset,       \* the assets, numbered in the order of the definition
  Graphs,      \* the graphs: inputs[a] is the set of the upstreams of a
  MaxRuns,     \* bound: runs of the chain
  MaxChanges,  \* bound: edited definitions, replaced sources and runs of others
  Undisturbed, \* TRUE: nobody replaces an output between its commit and its receipt
  None

VARIABLES
  inputs, unchangedPolicy,  \* the definition of the chain; it does not change
  definition, world,  \* versions of the asset definitions and of the external sources
  output,             \* the output of each asset: its content and its stamp, or None
  record,             \* <chain>.metadata.json: the results of the last run, or None
  pc, order, result,  \* the run: its assets in order and the results so far
  seen,               \* what the execution under way has read
  other,              \* the run of another process, between its reads and its writes
  clock,              \* source of stamps: sizes and times of the files of an output
  runs, changes,      \* counters for the bounds
  quiet               \* history: nothing else has changed since the run began

chain == <<inputs, unchangedPolicy>>
files == <<definition, world, output, record, clock>>
process == <<pc, order, result, seen>>
environment == <<other, changes, quiet>>
vars == <<chain, files, process, environment, runs>>

IsRoot(a) == inputs[a] = {}

\* _receipt_fingerprint over _path_receipt: names, sizes and times of all files.
Receipt(a, fingerprint) ==
  <<fingerprint, IF output[a] = None THEN None ELSE output[a].stamp>>

\* Mutant of InputFingerprint: the receipts of the upstreams are left out.
DefinitionFingerprint(a) == <<a, definition[a]>>

\* _input_fingerprint: definition (with configuration and contract) and upstreams.
InputFingerprint(a) == <<a, definition[a], [u \in inputs[a] |-> result[u].receipt]>>

\* What an execution of the asset reads, and so what its output is made of.
Readable(a) == \A u \in inputs[a] : output[u] # None
Reads(a) == <<definition[a], IF IsRoot(a) THEN world ELSE [u \in inputs[a] |-> output[u].content]>>

\* The output that a fresh computation of the whole graph would give.
UpToDate ==
  LET content[a \in Asset] ==
        <<definition[a], IF IsRoot(a) THEN world ELSE [u \in inputs[a] |-> content[u]]>>
  IN  content

Unfinished == [status |-> "none", fingerprint |-> None, receipt |-> None]
Finished(status, fingerprint, receipt) ==
  [status |-> status, fingerprint |-> fingerprint, receipt |-> receipt]
Good == {"executed", "reused"}
Bad == {"failed", "blocked"}

TypeOK ==
  /\ inputs \in Graphs /\ unchangedPolicy \in {"skip", "run"}
  /\ definition \in [Asset -> Nat] /\ world \in Nat /\ clock \in Nat
  /\ \A a \in Asset : output[a] = None \/ output[a].stamp \in 1 .. clock
  /\ record = None \/ DOMAIN record = Asset
  /\ pc \in {"idle", "next", "read", "write", "certify", "rejected"}
  /\ order \in Seq(Asset) /\ \A a \in Asset : result[a].status \in Good \cup Bad \cup {"none", "running"}

Init ==
  /\ inputs \in Graphs /\ unchangedPolicy \in {"skip", "run"}
  /\ definition = [a \in Asset |-> 1] /\ world = 1
  /\ output = [a \in Asset |-> None] /\ record = None
  /\ pc = "idle" /\ order = <<>> /\ seen = None
  /\ result = [a \in Asset |-> Unfinished]
  /\ other = None /\ clock = 0 /\ runs = 0 /\ changes = 0 /\ quiet = TRUE

-----------------------------------------------------------------------------
(* Everybody else *)

Change == changes < MaxChanges /\ changes' = changes + 1 /\ quiet' = FALSE

EditDefinition(a) ==
  /\ Change
  /\ definition' = [definition EXCEPT ![a] = @ + 1]
  /\ UNCHANGED <<chain, world, output, record, clock, process, other, runs>>

ReplaceSource ==
  /\ Change
  /\ world' = world + 1
  /\ UNCHANGED <<chain, definition, output, record, clock, process, other, runs>>

\* The scheduler, or somebody by hand, executes an asset of the chain by itself.
OtherReads(a) ==
  /\ other = None /\ changes < MaxChanges /\ Readable(a)
  /\ other' = [asset |-> a, content |-> Reads(a)]
  /\ UNCHANGED <<chain, files, process, changes, quiet, runs>>

OtherWrites ==
  /\ other # None
  /\ Undisturbed => ~(pc = "certify" /\ order[1] = other.asset)
  /\ Change
  /\ clock' = clock + 1
  /\ output' = [output EXCEPT ![other.asset] = [content |-> other.content, stamp |-> clock + 1]]
  /\ other' = None
  /\ UNCHANGED <<chain, definition, world, record, process, runs>>

-----------------------------------------------------------------------------
(* load_asset_chain *)

\* Mutant of TopologicalOrder: the assets in the order of the definition.
DeclaredOrder ==
  LET extend[s \in Seq(Asset)] ==
        IF Len(s) = Cardinality(Asset) THEN s ELSE extend[Append(s, Len(s) + 1)]
  IN  extend[<<>>]

\* The first asset, as declared, all of whose upstreams are placed comes next.
TopologicalOrder ==
  LET ready(s) == {a \in Asset \ Range(s) : inputs[a] \subseteq Range(s)}
      extend[s \in Seq(Asset)] == IF ready(s) = {} THEN s ELSE extend[Append(s, Min(ready(s)))]
  IN  extend[<<>>]

\* A graph with a cycle (or an asset that is its own upstream) is refused.
LoadAssetChain ==
  /\ pc = "idle" /\ runs < MaxRuns
  /\ runs' = runs + 1 /\ quiet' = TRUE
  /\ order' = TopologicalOrder
  /\ pc' = IF Len(TopologicalOrder) < Cardinality(Asset) THEN "rejected" ELSE "next"
  /\ result' = [a \in Asset |-> Unfinished] /\ seen' = None
  /\ UNCHANGED <<chain, files, other, changes>>

-----------------------------------------------------------------------------
(* run_asset_chain *)

Current == order[1]
Left(s) == order' = s
Resolve(a, res) == result' = [result EXCEPT ![a] = res]

\* Mutant of BlockedBy: only a failure blocks, and what is blocked does not.
FailedUpstreams(a) == {u \in inputs[a] : result[u].status = "failed"}

BlockedBy(a) == {u \in inputs[a] : result[u].status \in Bad}

\* Mutant of CanReuse: the output is there, whoever wrote it.
CanReuseAny(a, previous) ==
  /\ unchangedPolicy = "skip" /\ ~IsRoot(a) /\ record # None
  /\ previous.fingerprint = InputFingerprint(a)
  /\ previous.status \in Good /\ output[a] # None

\* _can_reuse: roots may observe external state and are always executed.
CanReuse(a, previous) ==
  /\ unchangedPolicy = "skip" /\ ~IsRoot(a) /\ record # None
  /\ previous.fingerprint = InputFingerprint(a)
  /\ previous.status \in Good
  /\ output[a] # None
  /\ Receipt(a, previous.fingerprint) = previous.receipt

Previous(a) == IF record = None THEN Unfinished ELSE record[a]

Block ==
  /\ pc = "next" /\ order # <<>> /\ BlockedBy(Current) # {}
  /\ Resolve(Current, Finished("blocked", InputFingerprint(Current), None))
  /\ Left(Tail(order))
  /\ UNCHANGED <<chain, files, pc, seen, environment, runs>>

Reuse ==
  /\ pc = "next" /\ order # <<>> /\ BlockedBy(Current) = {}
  /\ CanReuse(Current, Previous(Current))
  /\ Resolve(Current, Finished("reused", InputFingerprint(Current), Previous(Current).receipt))
  /\ Left(Tail(order))
  /\ UNCHANGED <<chain, files, pc, seen, environment, runs>>

\* The fingerprint is taken before the execution, which reads everything anew.
Execute ==
  /\ pc = "next" /\ order # <<>> /\ BlockedBy(Current) = {}
  /\ ~CanReuse(Current, Previous(Current))
  /\ Resolve(Current, Finished("running", InputFingerprint(Current), None))
  /\ pc' = "read"
  /\ UNCHANGED <<chain, files, order, seen, environment, runs>>

\* _execute_asset: whatever is raised becomes a result, and the chain goes on.
Failed ==
  /\ Resolve(Current, [result[Current] EXCEPT !.status = "failed"])
  /\ Left(Tail(order)) /\ pc' = "next" /\ seen' = None

ReadInputs ==
  /\ pc = "read"
  /\ \/ Readable(Current) /\ seen' = Reads(Current) /\ pc' = "write" /\ UNCHANGED <<order, result>>
     \/ Failed
  /\ UNCHANGED <<chain, files, environment, runs>>

\* The asset commits its output, leaves an output that is as it should be alone,
\* or fails, and then its output is what it was or missing.
WriteOutput ==
  /\ pc = "write"
  /\ \/ /\ clock' = clock + 1
        /\ output' = [output EXCEPT ![Current] = [content |-> seen, stamp |-> clock + 1]]
        /\ pc' = "certify" /\ UNCHANGED <<order, result, seen>>
     \/ /\ output[Current] # None /\ output[Current].content = seen
        /\ pc' = "certify" /\ UNCHANGED <<output, clock, order, result, seen>>
     \/ /\ Failed
        /\ output' \in {output, [output EXCEPT ![Current] = None]}
        /\ UNCHANGED clock
  /\ UNCHANGED <<chain, definition, world, record, environment, runs>>

\* The receipt of the output as it is found after the execution.
Certify ==
  /\ pc = "certify"
  /\ LET fingerprint == result[Current].fingerprint IN
     Resolve(Current, Finished("executed", fingerprint, Receipt(Current, fingerprint)))
  /\ Left(Tail(order)) /\ pc' = "next" /\ seen' = None
  /\ UNCHANGED <<chain, files, environment, runs>>

\* _write_chain_metadata replaces the record as a whole.
Finish ==
  /\ pc = "next" /\ order = <<>>
  /\ record' = result
  /\ pc' = "idle"
  /\ UNCHANGED <<chain, definition, world, output, clock, order, result, seen, environment, runs>>

\* The chain dies, and with it what it has not recorded.
Die ==
  /\ pc \in {"next", "read", "write", "certify"}
  /\ pc' = "idle" /\ order' = <<>> /\ seen' = None
  /\ result' = [a \in Asset |-> Unfinished]
  /\ UNCHANGED <<chain, files, environment, runs>>

Next ==
  \/ \E a \in Asset : EditDefinition(a) \/ OtherReads(a)
  \/ ReplaceSource \/ OtherWrites
  \/ LoadAssetChain \/ Block \/ Reuse \/ Execute \/ ReadInputs \/ WriteOutput \/ Certify
  \/ Finish \/ Die

Spec == Init /\ [][Next]_vars

-----------------------------------------------------------------------------
(* Properties *)

AllGood == \A a \in Asset : result[a].status \in Good

\* A chain that ends well leaves every output as a computation of the whole graph
\* from the present sources and definitions would leave it: what was reused was not
\* computed from something else, whoever died, failed or ran in between, as long as
\* nothing changed under this very run.
OkMeansUpToDate ==
  pc = "idle" /\ AllGood /\ quiet =>
    \A a \in Asset : output[a] # None /\ output[a].content = UpToDate[a]

\* No asset runs, or counts as good, downstream of a failure, at any distance
\* (failure_policy stop_downstream), nor before its upstreams.
FailureStopsDownstream ==
  \A a \in Asset : result[a].status \in Good \cup {"running"} =>
    \A u \in inputs[a] : result[u].status \in Good
=============================================================================
