-------------------------- MODULE SourceCollection --------------------------
(***************************************************************************)
(* The collection of a source (asset 0101, assets/a0101_source/pipeline):  *)
(* a run calls an API for each of its tasks, each call in a process of its *)
(* own, and every task that succeeds replaces its own dataset.  There is   *)
(* no transaction over the tasks and no recovery: two renames per dataset, *)
(* a catalog of the directory at the end.                                  *)
(*                                                                         *)
(* The staging directories of all tasks lie in one directory, which the    *)
(* task that leaves it empty removes.                                      *)
(***************************************************************************)
EXTENDS Naturals, FiniteSetsExt

CONSTANTS
  MaxRuns,      \* bound: runs, each is used once
  MaxAttempts,  \* max_retries + 1
  Modes,        \* how the definition may have the runs work
  None

Run == 1 .. MaxRuns

CollectionAssumption ==
  /\ MaxRuns \in Nat /\ MaxAttempts \in Nat \ {0}
  /\ Modes \subseteq [tasks : Nat, limit : Nat, workers : Nat, warmup : BOOLEAN, reset : BOOLEAN,
                      overlap : BOOLEAN]

VARIABLES
  mode,      \* one of Modes; it does not change
  output,    \* <task>.dataset: the run that collected it, 0 when there is none
  aside,     \* the datasets <task>.dataset.previous.<uuid>
  staged,    \* the staging directories <task>.<uuid>.dataset, by run and task
  shared,    \* the directory they lie in exists
  catalog,   \* dataset-catalog.json: the tasks it lists, or None
  pc,        \* the process of each run
  at, attempt, moved,  \* its tasks
  before,    \* history: the outputs when a run began
  newest     \* history: the run that last put its collection in place

disk == <<output, aside, staged, shared, catalog>>
tasks == <<at, attempt, moved>>
vars == <<mode, disk, pc, tasks, before, newest>>

Task == 1 .. mode.tasks
Selected == 1 .. mode.limit  \* select_final_tasks

Active == {"make", "leaf", "call", "commit", "aside", "swap", "restore", "drop",
           "cleanup", "again", "giveup"}
Ended == {"ok", "error"}
At(r, S) == {t \in Task : at[r][t] \in S}
Working(r) == pc[r] = "run" \/ At(r, Active) # {}

TypeOK ==
  /\ mode \in Modes /\ output \in [Task -> 0 .. MaxRuns] /\ newest \in [Task -> 0 .. MaxRuns]
  /\ aside \subseteq [run : Run, task : Task, attempt : 1 .. MaxAttempts, holds : 0 .. MaxRuns]
  /\ staged \subseteq Run \X Task /\ shared \in BOOLEAN
  /\ catalog = None \/ catalog \subseteq Task
  /\ pc \in [Run -> {"idle", "run", "done", "raised", "dead"}]
  /\ at \in [Run -> [Task -> {"none", "queued", "lost"} \cup Active \cup Ended]]
  /\ attempt \in [Run -> [Task -> 0 .. MaxAttempts]] /\ moved \in [Run -> [Task -> BOOLEAN]]
  /\ staged # {} => shared

Init ==
  /\ mode \in Modes
  /\ output = [t \in Task |-> 0] /\ aside = {} /\ staged = {} /\ shared = FALSE /\ catalog = None
  /\ pc = [r \in Run |-> "idle"]
  /\ at = [r \in Run |-> [t \in Task |-> "none"]]
  /\ attempt = [r \in Run |-> [t \in Task |-> 0]]
  /\ moved = [r \in Run |-> [t \in Task |-> FALSE]]
  /\ before = [r \in Run |-> output] /\ newest = output

-----------------------------------------------------------------------------
(* The run *)

\* _reset_source_run_artifacts removes the directory of the outputs, with all in it.
Kept == IF mode.reset THEN [t \in Task |-> 0] ELSE output

Begin(r) ==
  /\ pc[r] = "idle" /\ \A q \in Run : q < r => pc[q] # "idle"
  /\ mode.overlap \/ \A q \in Run : ~ Working(q)
  /\ pc' = [pc EXCEPT ![r] = "run"]
  /\ at' = [at EXCEPT ![r] = [t \in Task |-> IF t \in Selected THEN "queued" ELSE "none"]]
  /\ output' = Kept /\ before' = [before EXCEPT ![r] = Kept]
  /\ IF mode.reset
     THEN aside' = {} /\ staged' = {} /\ shared' = FALSE /\ catalog' = None /\ newest' = Kept
     ELSE UNCHANGED <<aside, staged, shared, catalog, newest>>
  /\ UNCHANGED <<mode, attempt, moved>>

\* The first task alone, if it is to warm up; then as many as there are workers.
WarmingUp(r) == mode.warmup /\ at[r][1] \notin Ended
Room(r) == Cardinality(At(r, Active)) < (IF WarmingUp(r) THEN 1 ELSE mode.workers)

\* A lost process is noticed at once by a run that waits for it alone; a pool of
\* threads first finishes what is queued.
Stopped(r) == At(r, {"lost"}) # {} /\ (WarmingUp(r) \/ mode.workers = 1)

StartTask(r, t) ==
  /\ pc[r] = "run" /\ At(r, {"queued"}) # {} /\ t = Min(At(r, {"queued"}))
  /\ Room(r) /\ ~ Stopped(r)
  /\ at' = [at EXCEPT ![r][t] = "make"] /\ attempt' = [attempt EXCEPT ![r][t] = 1]
  /\ UNCHANGED <<mode, disk, pc, moved, before, newest>>

\* write_source_dataset_catalog lists the datasets that are there.
Catalog(r) ==
  /\ pc[r] = "run" /\ \A t \in Selected : at[r][t] \in Ended
  /\ catalog' = {t \in Task : output[t] # 0}
  /\ pc' = [pc EXCEPT ![r] = "done"]
  /\ UNCHANGED <<mode, output, aside, staged, shared, tasks, before, newest>>

\* The exception of a lost process leaves the run without a catalog.
Raise(r) ==
  /\ pc[r] = "run" /\ At(r, {"lost"}) # {} /\ At(r, Active) = {}
  /\ Stopped(r) \/ At(r, {"queued"}) = {}
  /\ pc' = [pc EXCEPT ![r] = "raised"]
  /\ UNCHANGED <<mode, disk, tasks, before, newest>>

\* The run dies; the processes of its tasks go on with what they do.
Die(r) ==
  /\ pc[r] = "run"
  /\ pc' = [pc EXCEPT ![r] = "dead"]
  /\ at' = [at EXCEPT ![r] = [t \in Task |-> IF @[t] = "queued" THEN "none" ELSE @[t]]]
  /\ UNCHANGED <<mode, disk, attempt, moved, before, newest>>

-----------------------------------------------------------------------------
(* A task, in a process of its own *)

Goto(r, t, p) == at' = [at EXCEPT ![r][t] = p]

\* An exception: some are tried again, as long as there are attempts left.
Failed(r, t) ==
  \/ Goto(r, t, "giveup")
  \/ attempt[r][t] < MaxAttempts /\ Goto(r, t, "again")

\* The adapter makes its directory: the parent first, when that is missing.
MakeDirectory(r, t) ==
  /\ at[r][t] = "make"
  /\ IF shared THEN staged' = staged \cup {<<r, t>>} /\ Goto(r, t, "call")
     ELSE Goto(r, t, "leaf") /\ UNCHANGED staged
  /\ shared' = TRUE
  /\ UNCHANGED <<mode, output, aside, catalog, pc, attempt, moved, before, newest>>

MakeLeaf(r, t) ==
  /\ at[r][t] = "leaf"
  /\ IF shared THEN staged' = staged \cup {<<r, t>>} /\ Goto(r, t, "call")
     ELSE Failed(r, t) /\ UNCHANGED staged
  /\ UNCHANGED <<mode, output, aside, shared, catalog, pc, attempt, moved, before, newest>>

\* The call, the profile, the provenance and the manifest: all in the staging directory.
CallApi(r, t) ==
  /\ at[r][t] = "call"
  /\ Goto(r, t, "commit") \/ Failed(r, t)
  /\ UNCHANGED <<mode, disk, pc, attempt, moved, before, newest>>

\* commit_staged_dataset looks for an output, puts it aside, and moves the new one in.
LookForOutput(r, t) ==
  /\ at[r][t] = "commit"
  /\ Goto(r, t, IF output[t] = 0 THEN "swap" ELSE "aside")
  /\ UNCHANGED <<mode, disk, pc, attempt, moved, before, newest>>

\* A backup bears the name of its attempt; one that is half removed holds nothing.
Named(r, t, run) == [run |-> r, task |-> t, attempt |-> attempt[r][t], holds |-> run]
Backup(r, t) == {b \in aside : b = Named(r, t, b.holds)}

PutAside(r, t) ==
  /\ at[r][t] = "aside"
  /\ IF output[t] = 0 THEN Failed(r, t) /\ UNCHANGED <<output, aside, moved>>
     ELSE /\ output' = [output EXCEPT ![t] = 0]
          /\ aside' = aside \cup {Named(r, t, output[t])}
          /\ moved' = [moved EXCEPT ![r][t] = TRUE] /\ Goto(r, t, "swap")
  /\ UNCHANGED <<mode, staged, shared, catalog, pc, attempt, before, newest>>

SwapIn(r, t) ==
  /\ at[r][t] = "swap"
  /\ output[t] = 0  \* a directory does not replace one that is not empty
  /\ output' = [output EXCEPT ![t] = r] /\ newest' = [newest EXCEPT ![t] = r]
  /\ staged' = staged \ {<<r, t>>}
  /\ Goto(r, t, IF moved[r][t] THEN "drop" ELSE "cleanup")
  /\ UNCHANGED <<mode, aside, shared, catalog, pc, attempt, moved, before>>

SwapFails(r, t) ==
  /\ at[r][t] = "swap"
  /\ Goto(r, t, "restore")
  /\ UNCHANGED <<mode, disk, pc, attempt, moved, before, newest>>

\* Mutant of Restore: the exception goes straight up.
NoRestore(r, t) ==
  /\ at[r][t] = "restore" /\ Failed(r, t)
  /\ UNCHANGED <<mode, disk, pc, attempt, moved, before, newest>>

Restore(r, t) ==
  /\ at[r][t] = "restore"
  /\ IF moved[r][t] /\ output[t] = 0
     THEN \E b \in Backup(r, t) : output' = [output EXCEPT ![t] = b.holds] /\ aside' = aside \ {b}
     ELSE UNCHANGED <<output, aside>>
  /\ Failed(r, t)
  /\ UNCHANGED <<mode, staged, shared, catalog, pc, attempt, moved, before, newest>>

\* A backup that cannot be removed is an exception like any other.
DropBackup(r, t) ==
  /\ at[r][t] = "drop"
  /\ \/ aside' = aside \ Backup(r, t) /\ Goto(r, t, "cleanup")
     \/ aside' = (aside \ Backup(r, t)) \cup {Named(r, t, 0)} /\ Failed(r, t)
  /\ UNCHANGED <<mode, output, staged, shared, catalog, pc, attempt, moved, before, newest>>

\* Mutant of CleanUp: the directory above goes whatever lies in it.
CleanUpAll(r, t) ==
  /\ at[r][t] \in {"cleanup", "again", "giveup"}
  /\ staged' = staged \ {<<r, t>>} /\ shared' = FALSE
  /\ Goto(r, t, IF at[r][t] = "again" THEN "make" ELSE "error")
  /\ UNCHANGED <<mode, output, aside, catalog, pc, attempt, moved, before, newest>>

\* cleanup_staging_dataset after every attempt: the staging directory, and the one
\* above it when it is empty.
CleanUp(r, t) ==
  /\ at[r][t] \in {"cleanup", "again", "giveup"}
  /\ staged' = staged \ {<<r, t>>}
  /\ shared' = (shared /\ (staged' # {} \/ aside # {}))
  /\ Goto(r, t, CASE at[r][t] = "cleanup" -> "ok" [] at[r][t] = "again" -> "make"
                  [] at[r][t] = "giveup" -> "error")
  /\ attempt' = [attempt EXCEPT ![r][t] = IF at[r][t] = "again" THEN @ + 1 ELSE 0]
  /\ moved' = [moved EXCEPT ![r][t] = FALSE]
  /\ UNCHANGED <<mode, output, aside, catalog, pc, before, newest>>

ProcessDies(r, t) ==
  /\ at[r][t] \in Active
  /\ Goto(r, t, "lost")
  /\ attempt' = [attempt EXCEPT ![r][t] = 0] /\ moved' = [moved EXCEPT ![r][t] = FALSE]
  /\ UNCHANGED <<mode, disk, pc, before, newest>>

Next ==
  \E r \in Run :
    \/ Begin(r) \/ Catalog(r) \/ Raise(r) \/ Die(r)
    \/ \E t \in Task :
         \/ StartTask(r, t) \/ MakeDirectory(r, t) \/ MakeLeaf(r, t) \/ CallApi(r, t)
         \/ LookForOutput(r, t) \/ PutAside(r, t) \/ SwapIn(r, t) \/ SwapFails(r, t)
         \/ Restore(r, t) \/ DropBackup(r, t) \/ CleanUp(r, t) \/ ProcessDies(r, t)

Spec == Init /\ [][Next]_vars

-----------------------------------------------------------------------------
(* Properties *)

\* What was collected last is never lost, though there is no recovery: it is the
\* output of its task, or a run that died or failed has put it aside.
NothingIsLost ==
  \A t \in Task : newest[t] # 0 =>
    output[t] = newest[t] \/ \E b \in aside : b.task = t /\ b.holds = newest[t]

\* A run that returns tells the truth, unless another one went on beside it: a task
\* that succeeded has its collection in place, one that failed has left what was
\* there (or only a backup it could not remove), and the catalog lists every dataset,
\* whatever run collected it, and no other.
ReturnTellsTruth ==
  \A r \in Run :
    pc[r] = "done" /\ ~ mode.overlap /\ (\A q \in Run : q > r => pc[q] = "idle") =>
      /\ catalog = {t \in Task : output[t] # 0}
      /\ \A t \in Task :
           output[t] = IF \/ at[r][t] = "ok"
                          \/ \E b \in aside : b.run = r /\ b.task = t /\ b.holds = 0
                       THEN r ELSE before[r][t]

CollectionTellsTruth == NothingIsLost /\ ReturnTellsTruth
=============================================================================
