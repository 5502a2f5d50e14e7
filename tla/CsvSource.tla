------------------------------ MODULE CsvSource ------------------------------
(***************************************************************************)
(* The run of a text source (asset 0103, assets/a0103_csv_source/runner.py) *)
(* over a directory of files: what the manifest in the output says was     *)
(* made of a file is copied from the output as long as the contract, the   *)
(* parts, and the size and time or else the checksum of the file are the   *)
(* same; everything else is read again.  A new output replaces the old one *)
(* in two renames, without recovery: a run that dies between them leaves   *)
(* nothing, and the next one starts from nothing.                          *)
(***************************************************************************)
EXTENDS Naturals, FiniteSetsExt, Functions

CONSTANTS
  File,        \* the source files, numbered in the order of their paths
  MaxChanges,  \* bound: files written, touched or removed, contracts edited, parts lost
  MaxRuns,     \* bound: runs
  MayReturn,   \* TRUE: a file may get again the content it had before
  None

\* Of each file what the manifest says of it and what its parts are, see Entry.
Entries ==
  UNION {[S -> [stamp : Nat, hash : Nat, contract : Nat, made : Nat \X Nat, there : BOOLEAN]] :
           S \in SUBSET File}
Outputs == [entries : Entries, sealed : BOOLEAN]

TextAssumption ==
  /\ File \subseteq Nat /\ MaxChanges \in Nat /\ MaxRuns \in Nat
  /\ None \notin [content : Nat, stamp : Nat] /\ None \notin Outputs

VARIABLES
  file,      \* of each file its content and its stamp (size and time), or None
  contract,  \* the definition: operations, routes, rules
  output,    \* the output directory, or None
  parked,    \* outputs left under .<name>.backup-<id>
  run,       \* the local variables of the run
  changes, runs,  \* counters for the bounds
  quiet, ended    \* history: nothing changed since the last run began; it ended well

world == <<file, contract>>
vars == <<world, output, parked, run, changes, runs, quiet, ended>>

\* What was made of a file: its entry in source-files.json and the parts themselves.
\* "made" is the content and the contract that the rows come from, "there" says that
\* the parts have the sizes of the entry.
Entry(stamp, hash, c, made) == [stamp |-> stamp, hash |-> hash, contract |-> c, made |-> made, there |-> TRUE]
Output(entries, sealed) == [entries |-> entries, sealed |-> sealed]

Idle == [pc |-> "idle", todo |-> {}, contract |-> 0, previous |-> <<>>, stamp |-> 0, hash |-> 0,
         staged |-> <<>>, aside |-> None]
Current == Min(run.todo)

TypeOK ==
  /\ DOMAIN file = File /\ contract \in Nat
  /\ run.pc \in {"idle", "stat", "hash", "copy", "read", "commit", "swap", "drop", "refresh"}
  /\ run.todo \subseteq File /\ DOMAIN run.staged \subseteq File /\ DOMAIN run.previous \subseteq File
  /\ output # None => DOMAIN output.entries \subseteq File /\ output.sealed \in BOOLEAN
  /\ parked \in 0 .. MaxRuns /\ changes \in 0 .. MaxChanges /\ runs \in 0 .. MaxRuns

Init ==
  /\ file = [f \in File |-> [content |-> 1, stamp |-> 1]] /\ contract = 1
  /\ output = None /\ parked = 0 /\ run = Idle
  /\ changes = 0 /\ runs = 0 /\ quiet = TRUE /\ ended = FALSE

-----------------------------------------------------------------------------
(* The world around: every change of a file gives it a new stamp *)

Change == changes < MaxChanges /\ changes' = changes + 1 /\ quiet' = FALSE

Write(f, content) ==
  /\ Change
  /\ file' = [file EXCEPT ![f] = [content |-> content, stamp |-> changes + 2]]
  /\ UNCHANGED <<contract, output, parked, run, runs, ended>>

\* A new content, the same one at another time, or an earlier one.
WriteFile(f) ==
  \/ Write(f, changes + 2)
  \/ file[f] # None /\ Write(f, file[f].content)
  \/ MayReturn /\ Write(f, 1)

RemoveFile(f) ==
  /\ Change /\ file[f] # None
  /\ file' = [file EXCEPT ![f] = None]
  /\ UNCHANGED <<contract, output, parked, run, runs, ended>>

EditContract ==
  /\ Change
  /\ contract' = contract + 1
  /\ UNCHANGED <<file, output, parked, run, runs, ended>>

\* Somebody removes parts of the output, or truncates them.
LoseParts(f) ==
  /\ Change /\ output # None /\ f \in DOMAIN output.entries
  /\ output' = [output EXCEPT !.entries[f].there = FALSE]
  /\ UNCHANGED <<world, parked, run, runs, ended>>

-----------------------------------------------------------------------------
(* The run *)

Files == {f \in File : file[f] # None}

\* The contract, the files and the manifest of the output are read once; a source
\* without a file is an error.
Start ==
  /\ run.pc = "idle" /\ runs < MaxRuns /\ Files # {}
  /\ run' = [Idle EXCEPT !.pc = "stat", !.todo = Files, !.contract = contract,
                         !.previous = IF output = None THEN <<>> ELSE output.entries]
  /\ runs' = runs + 1 /\ quiet' = TRUE /\ ended' = FALSE
  /\ UNCHANGED <<world, output, parked, changes>>

Goto(p) == run' = [run EXCEPT !.pc = p]

\* _outputs_available looks at the parts that are there now.
Available(f) == output # None /\ f \in DOMAIN output.entries /\ output.entries[f].there

\* Mutant of Known: the contract of the entry does not matter.
KnownByName(f) == f \in DOMAIN run.previous /\ Available(f)

\* _reusable_entry before it compares the file.
Known(f) ==
  /\ f \in DOMAIN run.previous /\ run.previous[f].contract = run.contract
  /\ Available(f)

\* A file that is gone by now raises.
Stat ==
  /\ run.pc = "stat" /\ run.todo # {} /\ file[Current] # None
  /\ run' = [run EXCEPT
       !.stamp = file[Current].stamp,
       !.pc = IF Known(Current) /\ run.previous[Current].stamp = file[Current].stamp THEN "copy" ELSE "hash",
       !.hash = IF Current \in DOMAIN run.previous THEN run.previous[Current].hash ELSE 0]
  /\ UNCHANGED <<world, output, parked, changes, runs, quiet, ended>>

\* file_sha256; the entry is taken over under the stamp of before.
Hash ==
  /\ run.pc = "hash" /\ file[Current] # None
  /\ run' = [run EXCEPT
       !.hash = file[Current].content,
       !.pc = IF Known(Current) /\ run.previous[Current].hash = file[Current].content THEN "copy" ELSE "read"]
  /\ UNCHANGED <<world, output, parked, changes, runs, quiet, ended>>

Stage(entry) ==
  run' = [run EXCEPT !.pc = "stat", !.todo = @ \ {Current}, !.stamp = 0, !.hash = 0,
                     !.staged = [f \in DOMAIN @ \cup {Current} |-> IF f = Current THEN entry ELSE @[f]]]

\* _copy_previous_outputs raises when a part is missing.
Copy ==
  /\ run.pc = "copy" /\ Available(Current)
  /\ Stage(Entry(run.stamp, run.hash, run.previous[Current].contract, output.entries[Current].made))
  /\ UNCHANGED <<world, output, parked, changes, runs, quiet, ended>>

\* _process_file raises when the stamp changes while it reads; it does not compare it
\* with the one the entry gets.
Read ==
  /\ run.pc = "read" /\ file[Current] # None
  /\ Stage(Entry(run.stamp, run.hash, run.contract, <<file[Current].content, run.contract>>))
  /\ UNCHANGED <<world, output, parked, changes, runs, quiet, ended>>

\* The manifests and the metadata are written into the staging directory, which the
\* commit moves in after it has put the old output aside.
PutAside ==
  /\ run.pc = "stat" /\ run.todo = {} /\ output # None
  /\ output' = None /\ parked' = parked + 1
  /\ run' = [run EXCEPT !.pc = "swap", !.aside = output]
  /\ UNCHANGED <<world, changes, runs, quiet, ended>>

SwapIn ==
  /\ run.pc = "swap" \/ (run.pc = "stat" /\ run.todo = {} /\ output = None)
  /\ output' = Output(run.staged, FALSE)
  /\ run' = [run EXCEPT !.pc = IF run.pc = "swap" THEN "drop" ELSE "refresh", !.aside = None]
  /\ UNCHANGED <<world, parked, changes, runs, quiet, ended>>

DropBackup ==
  /\ run.pc = "drop"
  /\ parked' = parked - 1 /\ Goto("refresh")
  /\ UNCHANGED <<world, output, changes, runs, quiet, ended>>

\* refresh_dataset_manifest_provenance ends the run.
Refresh ==
  /\ run.pc = "refresh"
  /\ output' = [output EXCEPT !.sealed = TRUE]
  /\ run' = Idle /\ ended' = TRUE
  /\ UNCHANGED <<world, parked, changes, runs, quiet>>

\* An exception while it stages: the transaction is aborted, the output stays.
Fail ==
  /\ run.pc \in {"stat", "hash", "copy", "read"}
  /\ run' = Idle
  /\ UNCHANGED <<world, output, parked, changes, runs, quiet, ended>>

\* The second rename fails: the old output is put back.
SwapFails ==
  /\ run.pc = "swap"
  /\ output' = run.aside /\ parked' = parked - 1 /\ run' = Idle
  /\ UNCHANGED <<world, changes, runs, quiet, ended>>

\* The process dies, or fails after the commit.
Die ==
  /\ run.pc \in {"swap", "drop", "refresh"}
  /\ run' = Idle
  /\ UNCHANGED <<world, output, parked, changes, runs, quiet, ended>>

Next ==
  \/ \E f \in File : WriteFile(f) \/ RemoveFile(f) \/ LoseParts(f)
  \/ EditContract \/ Start \/ Stat \/ Hash \/ Copy \/ Read
  \/ PutAside \/ SwapIn \/ DropBackup \/ SwapFails \/ Refresh
  \/ Fail \/ Die

Spec == Init /\ [][Next]_vars

-----------------------------------------------------------------------------
(* Properties *)

\* A run that ends well, and under which nothing changed, leaves exactly the rows of
\* the files that are there, made under the contract of now, whatever the runs before
\* it left: outputs reused from entries that were written while a file changed, runs
\* that died between the two renames, parts that got lost.
OutputIsExact ==
  run.pc = "idle" /\ ended /\ quiet =>
    /\ output # None /\ output.sealed /\ DOMAIN output.entries = Files
    /\ \A f \in Files : output.entries[f].there /\ output.entries[f].made = <<file[f].content, contract>>
=============================================================================
