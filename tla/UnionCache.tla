------------------------------ MODULE UnionCache ------------------------------
(***************************************************************************)
(* The union of several upstreams that a 0201 asset reads as one source    *)
(* (runtime/upstream_union.py): a cache directory named after what the     *)
(* files were when they were listed.  A cache that is whole is used again; *)
(* any other is built by a dataset transaction without recovery.           *)
(*                                                                         *)
(* Assets with the same union share its cache.                             *)
(***************************************************************************)
EXTENDS Naturals, Functions

CONSTANTS
  File,        \* the files of the members
  Run,
  MaxChanges,  \* bound: files written or removed
  Apart,       \* TRUE: no two runs at once
  None

VARIABLES
  file,     \* of each file its content, which its size and time identify, or None
  cache,    \* the directories upstream-union/<source>-<fingerprint>.dataset
  parked,   \* the caches put aside by commits, of each run
  run,      \* the local variables of the runs
  changes,  \* counter for the bound
  quiet     \* history: the files did not change since the run listed them

vars == <<file, cache, parked, run, changes, quiet>>

Fresh == [pc |-> "idle", name |-> <<>>, todo |-> {}, staged |-> <<>>]
Present == {f \in File : file[f] # None}
Running == {"validate", "build", "swap", "drop", "refresh", "use"}

TypeOK ==
  /\ DOMAIN file = File /\ changes \in 0 .. MaxChanges /\ quiet \in [Run -> BOOLEAN]
  /\ \A n \in DOMAIN cache : cache[n].sealed \in BOOLEAN /\ DOMAIN cache[n].rows \subseteq File
  /\ \A r \in Run : run[r].pc \in Running \cup {"idle", "end"} /\ run[r].todo \subseteq File

Init ==
  /\ file = [f \in File |-> 1] /\ cache = <<>> /\ parked = [r \in Run |-> None]
  /\ run = [r \in Run |-> Fresh]
  /\ changes = 0 /\ quiet = [r \in Run |-> TRUE]

\* An upstream is written anew; every member keeps at least one file.
ChangeFile(f) ==
  /\ changes < MaxChanges
  /\ \/ file' = [file EXCEPT ![f] = changes + 2]
     \/ file[f] # None /\ Present # {f} /\ file' = [file EXCEPT ![f] = None]
  /\ changes' = changes + 1 /\ quiet' = [r \in Run |-> FALSE]
  /\ UNCHANGED <<cache, parked, run>>

-----------------------------------------------------------------------------

\* Mutant of Fingerprint: only the paths.
PathsOnly == [f \in Present |-> 0]

\* The paths of the files with their sizes and times.
Fingerprint == [f \in Present |-> file[f]]

At(r, p) == run[r].pc = p
Goto(r, p) == run' = [run EXCEPT ![r].pc = p]
Cached(n) == n \in DOMAIN cache
With(n, dir) == [m \in DOMAIN cache \cup {n} |-> IF m = n THEN dir ELSE cache[m]]
Without(n) == Restrict(cache, DOMAIN cache \ {n})

List(r) ==
  /\ At(r, "idle")
  /\ Apart => \A q \in Run : run[q].pc \notin Running
  /\ run' = [run EXCEPT ![r] = [Fresh EXCEPT !.pc = "validate", !.name = Fingerprint]]
  /\ quiet' = [quiet EXCEPT ![r] = TRUE]
  /\ UNCHANGED <<file, cache, parked, changes>>

\* validate_committed_dataset compares the checksums of the parts and of the provenance.
Validate(r) ==
  /\ At(r, "validate")
  /\ run' = [run EXCEPT ![r].pc = IF Cached(run[r].name) /\ cache[run[r].name].sealed THEN "use" ELSE "build",
                        ![r].todo = DOMAIN run[r].name]
  /\ UNCHANGED <<file, cache, parked, changes, quiet>>

\* A file is read as it is by now; one that is gone raises.
ReadFile(r, f) ==
  /\ At(r, "build") /\ f \in run[r].todo /\ file[f] # None
  /\ run' = [run EXCEPT ![r].todo = @ \ {f},
                        ![r].staged = [g \in DOMAIN @ \cup {f} |-> IF g = f THEN file[f] ELSE @[g]]]
  /\ UNCHANGED <<file, cache, parked, changes, quiet>>

PutAside(r) ==
  /\ At(r, "build") /\ run[r].todo = {} /\ Cached(run[r].name)
  /\ cache' = Without(run[r].name) /\ parked' = [parked EXCEPT ![r] = cache[run[r].name]]
  /\ Goto(r, "swap")
  /\ UNCHANGED <<file, changes, quiet>>

SwapIn(r) ==
  /\ At(r, "swap") \/ (At(r, "build") /\ run[r].todo = {})
  /\ ~ Cached(run[r].name)
  /\ cache' = With(run[r].name, [rows |-> run[r].staged, sealed |-> FALSE])
  /\ Goto(r, "drop")
  /\ UNCHANGED <<file, parked, changes, quiet>>

DropBackup(r) ==
  /\ At(r, "drop")
  /\ parked' = [parked EXCEPT ![r] = None] /\ Goto(r, "refresh")
  /\ UNCHANGED <<file, cache, changes, quiet>>

\* refresh_dataset_manifest_provenance; a manifest that is gone raises.
Refresh(r) ==
  /\ At(r, "refresh") /\ Cached(run[r].name)
  /\ cache' = [cache EXCEPT ![run[r].name].sealed = TRUE] /\ Goto(r, "use")
  /\ UNCHANGED <<file, parked, changes, quiet>>

Finish(r) ==
  /\ At(r, "use") /\ Goto(r, "end")
  /\ UNCHANGED <<file, cache, parked, changes, quiet>>

\* An exception aborts the transaction, which puts back what it had put aside.
Fail(r) ==
  /\ run[r].pc \in Running
  /\ IF parked[r] # None /\ ~ Cached(run[r].name) THEN cache' = With(run[r].name, parked[r]) ELSE UNCHANGED cache
  /\ parked' = [parked EXCEPT ![r] = None] /\ Goto(r, "end")
  /\ UNCHANGED <<file, changes, quiet>>

Die(r) ==
  /\ run[r].pc \in Running /\ Goto(r, "end")
  /\ UNCHANGED <<file, cache, parked, changes, quiet>>

Next ==
  \/ \E f \in File : ChangeFile(f)
  \/ \E r \in Run :
       \/ List(r) \/ Validate(r) \/ PutAside(r) \/ SwapIn(r) \/ DropBackup(r) \/ Refresh(r)
       \/ Finish(r) \/ Fail(r) \/ Die(r)
       \/ \E f \in File : ReadFile(r, f)

Spec == Init /\ [][Next]_vars

-----------------------------------------------------------------------------
(* Properties *)

\* As long as a run uses its union the cache is there, and if the files are still what
\* they were when it listed them it holds exactly their rows: whether the run built the
\* cache, or one that died or read changing files left it.
UnionIsExact ==
  \A r \in Run : At(r, "use") =>
    /\ Cached(run[r].name) /\ cache[run[r].name].sealed
    /\ quiet[r] => cache[run[r].name].rows = [f \in Present |-> file[f]]
=============================================================================
