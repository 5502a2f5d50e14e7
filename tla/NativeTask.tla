------------------------------ MODULE NativeTask ------------------------------
(***************************************************************************)
(* One task of the engine (native/engine/src/converter.rs,                 *)
(* execute_curated_task_impl): the rows that a coordinate file names are    *)
(* read batch by batch and handed through a bounded channel to a thread     *)
(* that writes each row to the file of its partition, under a temporary     *)
(* name until all files are closed (bounded_pipeline.rs,                    *)
(* ParquetWriterPipeline).                                                  *)
(*                                                                         *)
(* The process of the task may be killed; the task runner then gives the    *)
(* task to another process, which finds what the first one left.            *)
(***************************************************************************)
EXTENDS Integers, Sequences, FiniteSets, SequencesExt

CONSTANTS
  Tasks,       \* the tasks: coordinates and how their rows are laid out
  Source,      \* of each file its row groups, each a sequence of rows
  Component,   \* of each partition value what becomes of it in a path
  BatchRows,   \* the rows of a batch
  Capacity,    \* writer_queue_capacity_batches
  MaxAttempts, \* bound: the processes that the task is given to
  None

VARIABLES
  task,     \* the task, an element of Tasks (it does not change)
  plan,     \* how many batches it reads, and the ones it sends (they do not change)
  attempt,  \* how many processes have had it
  reader,   \* the main thread: "reads", "finishes", "waits", "fails", "returned", "dead"
  read,     \* how many batches have been read
  held,     \* the batches not yet handed over
  queue,    \* the channel
  commit,   \* the commit flag
  open,     \* FALSE once the sender is dropped
  writer,   \* the writer thread: "writes", "publishes", "ok", "error"
  writers,  \* of each path the rows written to it, or None
  temps,    \* of each path its temporary file: the attempt that made it, or None
  files,    \* of each path the file: its rows and its attempt, or None
  result,   \* what the task returned: "ok", "error" or None
  trouble   \* history: something failed in this process

vars == <<task, plan, attempt, reader, read, held, queue, commit, open, writer, writers, temps, files, result, trouble>>

-----------------------------------------------------------------------------
(* Reading *)

\* A row as it was read: where it lies, its value and how many elements its lists have.
At(c) == [file |-> c.file, group |-> c.group, offset |-> c.offset, order |-> c.order,
          value |-> Source[c.file][c.group][c.offset].value,
          elements |-> Source[c.file][c.group][c.offset].elements]

Before(a, b) ==
  \/ a.file < b.file
  \/ a.file = b.file /\ a.group < b.group
  \/ a.file = b.file /\ a.group = b.group /\ a.offset < b.offset

InOrder(rows, before(_, _)) ==
  [i \in 1 .. Cardinality(rows) |->
     CHOOSE r \in rows : Cardinality({s \in rows : before(s, r)}) = i - 1]

\* The row groups of the coordinates in their order, the offsets of each in theirs.
Groups ==
  InOrder({[file |-> c.file, group |-> c.group, offset |-> 0] : c \in task.coordinates}, Before)
RowsOf(g) == InOrder({At(c) : c \in {x \in task.coordinates : x.file = g.file /\ x.group = g.group}}, Before)

\* The selected rows of a row group, BatchRows at a time.
Chunks(rows) ==
  [i \in 1 .. ((Len(rows) + BatchRows - 1) \div BatchRows) |->
     SubSeq(rows, (i - 1) * BatchRows + 1, IF i * BatchRows < Len(rows) THEN i * BatchRows ELSE Len(rows))]
SourceBatches ==
  FlattenSeq([i \in DOMAIN Groups |->
    [j \in DOMAIN Chunks(RowsOf(Groups[i])) |->
       [rows |-> Chunks(RowsOf(Groups[i]))[j], group |-> Groups[i].group]]])

\* unnest: a row becomes a row for each element of its lists, and none without elements.
Unnested(rows) ==
  IF ~ task.unnest THEN [i \in DOMAIN rows |-> <<rows[i], 1>>]
  ELSE FlattenSeq([i \in DOMAIN rows |-> [e \in 1 .. rows[i].elements |-> <<rows[i], e>>]])

ByOrder(rows) == SortSeq(rows, LAMBDA a, b : a.order < b.order)
AllRows(batches) == FlattenSeq([i \in DOMAIN batches |-> batches[i].rows])

\* Windows, pivots and assertions want all rows of the task, in the order of the selection.
Combined(batches) == [rows |-> Unnested(ByOrder(AllRows(batches))), group |-> 1]
Single(batch) == [rows |-> Unnested(batch.rows), group |-> batch.group]

\* Mutant of Ready: the batches are combined as they were read.
ReadyUnsorted ==
  IF task.complete
  THEN <<[rows |-> Unnested(AllRows(SourceBatches)), group |-> 1]>>
  ELSE [i \in DOMAIN SourceBatches |-> Single(SourceBatches[i])]

\* What the batches become before they are sent.
Ready ==
  IF task.complete THEN <<Combined(SourceBatches)>> ELSE [i \in DOMAIN SourceBatches |-> Single(SourceBatches[i])]

-----------------------------------------------------------------------------
(* Paths *)

FileName(group) == IF task.byGroup THEN group ELSE 0
Path(value, group) ==
  <<IF task.partition = "none" THEN None ELSE Component[value], FileName(group)>>
PathOf(row, batch) == Path(row[1].value, batch.group)

Paths == ({None} \cup {Component[v] : v \in DOMAIN Component}) \X (0 .. 2)
PathOrder(p, q) == p[2] < q[2] \/ (p[2] = q[2] /\ p[1] = None /\ q[1] # None)

\* The rows of a batch that go to a path.  A task that is guaranteed to lie in one
\* partition looks at its first row alone.
RowsFor(p, batch) ==
  IF task.partition = "rows"
  THEN SelectSeq(batch.rows, LAMBDA r : PathOf(r, batch) = p)
  ELSE batch.rows

Targets(batch) ==
  CASE task.partition = "none" -> {Path(None, batch.group)}
    [] task.partition = "guaranteed" -> {PathOf(batch.rows[1], batch)}
    [] OTHER -> {PathOf(batch.rows[i], batch) : i \in DOMAIN batch.rows}

\* The partition of a batch is asked of its first row: without one the thread panics.
Panics(batch) == task.partition # "none" /\ batch.rows = <<>>

-----------------------------------------------------------------------------
Init ==
  /\ task \in Tasks /\ plan = [batches |-> Len(SourceBatches), sent |-> Ready]
  /\ attempt = 1 /\ reader = "reads" /\ read = 0 /\ held = <<>>
  /\ queue = <<>> /\ commit = FALSE /\ open = TRUE /\ writer = "writes"
  /\ writers = [p \in Paths |-> None] /\ temps = [p \in Paths |-> None]
  /\ files = [p \in Paths |-> None] /\ result = None /\ trouble = FALSE

writerVars == <<writer, writers, temps, files>>

\* A batch is read; the rows of some tasks are kept until the last batch has been.
Read ==
  /\ reader = "reads" /\ held = <<>> /\ read < plan.batches
  /\ read' = read + 1
  /\ held' = CASE ~ task.complete -> <<plan.sent[read + 1]>>
               [] read + 1 = plan.batches -> plan.sent
               [] OTHER -> <<>>
  /\ UNCHANGED <<task, plan, attempt, reader, queue, commit, open, writerVars, result, trouble>>

\* Sending waits for room, and fails once the writer is gone.
Send ==
  /\ reader = "reads" /\ held # <<>>
  /\ \/ /\ writer = "writes" /\ Len(queue) < Capacity
        /\ queue' = Append(queue, Head(held)) /\ held' = Tail(held)
        /\ UNCHANGED <<open, reader>>
     \/ /\ writer = "error"
        /\ reader' = "fails" /\ open' = FALSE /\ UNCHANGED <<queue, held>>
  /\ UNCHANGED <<task, plan, attempt, read, commit, writerVars, result, trouble>>

\* A file that cannot be read, an operation that fails: the pipeline is dropped.
Fail ==
  /\ reader = "reads" /\ reader' = "fails" /\ open' = FALSE
  /\ trouble' = TRUE
  /\ UNCHANGED <<task, plan, attempt, read, held, queue, commit, writerVars, result>>

\* Mutant of SetCommit: the flag is forgotten.
SetNothing ==
  /\ reader = "reads" /\ held = <<>> /\ read = plan.batches
  /\ reader' = "finishes"
  /\ UNCHANGED <<task, plan, attempt, read, held, queue, commit, open, writerVars, result, trouble>>

\* finish: the flag is set, and then the sender dropped.
SetCommit ==
  /\ reader = "reads" /\ held = <<>> /\ read = plan.batches
  /\ commit' = TRUE /\ reader' = "finishes"
  /\ UNCHANGED <<task, plan, attempt, read, held, queue, open, writerVars, result, trouble>>

DropSender ==
  /\ reader = "finishes"
  /\ open' = FALSE /\ reader' = "waits"
  /\ UNCHANGED <<task, plan, attempt, read, held, queue, commit, writerVars, result, trouble>>

\* The main thread joins the writer, whatever comes of it.
Join ==
  /\ reader \in {"waits", "fails"} /\ writer \in {"ok", "error"}
  /\ result' = IF reader = "waits" /\ writer = "ok" THEN "ok" ELSE "error"
  /\ reader' = "returned"
  /\ UNCHANGED <<task, plan, attempt, read, held, queue, commit, open, writerVars, trouble>>

-----------------------------------------------------------------------------
(* Writing *)

Opened == {p \in Paths : writers[p] # None}
WithoutTemps == [p \in Paths |-> IF p \in Opened THEN None ELSE temps[p]]

\* Mutant of Write: a path that was written to before is begun anew.
WriteAnew ==
  /\ writer = "writes" /\ queue # <<>> /\ reader # "dead" /\ ~ Panics(Head(queue))
  /\ LET batch == Head(queue) IN
     /\ writers' = [p \in Paths |-> IF p \in Targets(batch) THEN RowsFor(p, batch) ELSE writers[p]]
     /\ temps' = [p \in Paths |-> IF p \in Targets(batch) THEN attempt ELSE temps[p]]
  /\ queue' = Tail(queue)
  /\ UNCHANGED <<task, plan, attempt, reader, read, held, commit, open, writer, files, result, trouble>>

\* The rows of a batch are added to the temporary files of their paths.
Write ==
  /\ writer = "writes" /\ queue # <<>> /\ reader # "dead" /\ ~ Panics(Head(queue))
  /\ LET batch == Head(queue) IN
     /\ writers' = [p \in Paths |->
          IF p \notin Targets(batch) THEN writers[p]
          ELSE (IF writers[p] = None THEN <<>> ELSE writers[p]) \o RowsFor(p, batch)]
     /\ temps' = [p \in Paths |-> IF p \in Targets(batch) THEN attempt ELSE temps[p]]
  /\ queue' = Tail(queue)
  /\ UNCHANGED <<task, plan, attempt, reader, read, held, commit, open, writer, files, result, trouble>>

\* A panic unwinds the thread and leaves the temporary files.
Panic ==
  /\ writer = "writes" /\ queue # <<>> /\ reader # "dead" /\ Panics(Head(queue))
  /\ writer' = "error" /\ writers' = [p \in Paths |-> None] /\ queue' = <<>>
  /\ trouble' = TRUE
  /\ UNCHANGED <<task, plan, attempt, reader, read, held, commit, open, temps, files, result>>

\* A write that fails removes the temporary files, and the channel goes.
WriteFails ==
  /\ writer = "writes" /\ queue # <<>> /\ reader # "dead"
  /\ writer' = "error" /\ temps' = WithoutTemps /\ writers' = [p \in Paths |-> None]
  /\ queue' = <<>>
  /\ trouble' = TRUE
  /\ UNCHANGED <<task, plan, attempt, reader, read, held, commit, open, files, result>>

AtEnd == writer = "writes" /\ queue = <<>> /\ ~ open /\ reader # "dead"

\* Mutant of Close: the flag is not asked for.
CloseAnyway ==
  /\ AtEnd /\ Opened # {}
  /\ writer' = "publishes"
  /\ UNCHANGED <<task, plan, attempt, reader, read, held, queue, commit, open, writers, temps, files, result, trouble>>

\* The channel is empty and the sender gone: all files are closed.
Close ==
  /\ AtEnd /\ commit /\ Opened # {}
  /\ writer' = "publishes"
  /\ UNCHANGED <<task, plan, attempt, reader, read, held, queue, commit, open, writers, temps, files, result, trouble>>

\* The flag is not set, or a file cannot be closed: the temporary files are removed.
Abandon ==
  /\ AtEnd
  /\ writer' = "error" /\ temps' = WithoutTemps /\ writers' = [p \in Paths |-> None]
  /\ trouble' = (trouble \/ commit)
  /\ UNCHANGED <<task, plan, attempt, reader, read, held, queue, commit, open, files, result>>

\* The files in the order of their paths: those whose temporary file is still there.
Waiting == {p \in Opened : temps[p] = attempt}
NextPath(p) == p \in Waiting /\ \A q \in Waiting \ {p} : ~ PathOrder(q, p)

\* An existing file of the name is removed.
Replace ==
  /\ writer = "publishes" /\ reader # "dead"
  /\ \E p \in Waiting : NextPath(p) /\ files[p] # None /\ files' = [files EXCEPT ![p] = None]
  /\ UNCHANGED <<task, plan, attempt, reader, read, held, queue, commit, open, writer, writers, temps, result, trouble>>

\* The temporary file takes its name.
Publish ==
  /\ writer = "publishes" /\ reader # "dead"
  /\ \E p \in Waiting :
       /\ NextPath(p) /\ files[p] = None
       /\ files' = [files EXCEPT ![p] = [rows |-> writers[p], attempt |-> attempt]]
       /\ temps' = [temps EXCEPT ![p] = None]
       /\ writer' = IF Waiting = {p} THEN "ok" ELSE "publishes"
  /\ UNCHANGED <<task, plan, attempt, reader, read, held, queue, commit, open, writers, result, trouble>>

\* Mutant of PublishFails: what has been published stays.
PublishFailsShort ==
  /\ writer = "publishes" /\ reader # "dead"
  /\ writer' = "error" /\ writers' = [p \in Paths |-> None]
  /\ temps' = WithoutTemps /\ UNCHANGED files
  /\ trouble' = TRUE
  /\ UNCHANGED <<task, plan, attempt, reader, read, held, queue, commit, open, result>>

\* A removal or a renaming that keeps failing takes back all of it.
PublishFails ==
  /\ writer = "publishes" /\ reader # "dead"
  /\ writer' = "error" /\ writers' = [p \in Paths |-> None]
  /\ temps' = WithoutTemps
  /\ files' = [p \in Paths |-> IF p \in Opened \ Waiting THEN None ELSE files[p]]
  /\ trouble' = TRUE
  /\ UNCHANGED <<task, plan, attempt, reader, read, held, queue, commit, open, result>>

-----------------------------------------------------------------------------
(* The process *)

Kill ==
  /\ result = None /\ reader # "dead" /\ attempt < MaxAttempts
  /\ reader' = "dead" /\ held' = <<>> /\ queue' = <<>> /\ writers' = [p \in Paths |-> None]
  /\ UNCHANGED <<task, plan, attempt, read, commit, open, writer, temps, files, result, trouble>>

Retry ==
  /\ reader = "dead"
  /\ attempt' = attempt + 1 /\ reader' = "reads" /\ read' = 0
  /\ commit' = FALSE /\ open' = TRUE /\ writer' = "writes"
  /\ trouble' = FALSE
  /\ UNCHANGED <<task, plan, held, queue, writers, temps, files, result>>

ReaderNext == Read \/ Send \/ Fail \/ SetCommit \/ DropSender \/ Join \/ Retry
WriterNext == Write \/ Panic \/ WriteFails \/ Close \/ Abandon \/ Replace \/ Publish \/ PublishFails
Next == ReaderNext \/ WriterNext \/ Kill

Spec == Init /\ [][Next]_vars
FairSpec == Spec /\ WF_vars(ReaderNext) /\ WF_vars(WriterNext)

-----------------------------------------------------------------------------
(* Properties *)

TypeOK ==
  /\ task \in Tasks /\ attempt \in 1 .. MaxAttempts
  /\ reader \in {"reads", "finishes", "waits", "fails", "returned", "dead"}
  /\ read \in 0 .. plan.batches /\ Len(queue) <= Capacity
  /\ writer \in {"writes", "publishes", "ok", "error"}
  /\ DOMAIN writers = Paths /\ temps \in [Paths -> (1 .. MaxAttempts) \cup {None}]
  /\ DOMAIN files = Paths /\ result \in {None, "ok", "error"}

\* The rows of the coordinates, all of them and in the order they are wanted in.
Wanted ==
  Unnested(InOrder({At(c) : c \in task.coordinates},
             LAMBDA a, b : IF task.complete THEN a.order < b.order ELSE Before(a, b)))
WantedPath(r) == Path(r[1].value, IF task.complete THEN 1 ELSE r[1].group)

\* A task that succeeds has left in each file the rows of its partition, all of them and
\* in their order, no other file, and no temporary one, whatever processes had the task
\* before (finalize_managed_writers).
ResultIsExact ==
  result = "ok" =>
    \A p \in Paths :
      LET rows == SelectSeq(Wanted, LAMBDA r : WantedPath(r) = p) IN
      /\ temps[p] = None
      /\ rows # <<>> => files[p] = [rows |-> rows, attempt |-> attempt]
      /\ rows = <<>> /\ files[p] # None => files[p] = [rows |-> <<>>, attempt |-> attempt]

\* A task that fails has left no file of its own, except when the writer panicked
\* (cleanup_managed_writer_temporaries).
FailureLeavesNothing ==
  result = "error" =>
    \A p \in Paths :
      /\ files[p] # None => files[p].attempt < attempt
      /\ (\A i \in DOMAIN plan.sent : ~ Panics(plan.sent[i])) => temps[p] = None \/ temps[p] < attempt

\* Nothing fails but for a cause: when no file, operation or thread did, the task succeeds
\* (BoundedPipeline.finish).
FailsOnlyForCause == result = "error" => trouble

HasReturned == result # None

\* A task that is not killed for ever returns.
TaskReturns == <>HasReturned
=============================================================================
