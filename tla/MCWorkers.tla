------------------------------ MODULE MCWorkers ------------------------------
(* What is checked under fairness: the task runner with a few tasks and two    *)
(* workers and, side by side, the bounded writer, a task of the engine, and    *)
(* the recovery of a dataset.  They share nothing: a behaviour is about one.   *)
EXTENDS TaskRunner, TLC

CONSTANTS Capacity, Batches, Stop, Absent

VARIABLES
  part,  \* which of the four this behaviour is about
  producer, handing, produced, finished, aborted, outcome, queue, writer, item, session,
  written, error, ready,
  task, taskPlan, attempt, reader, read, held, channel, commit, open, thread, writers, temps, files,
  result, trouble,
  source, definition, final, staging, backup, swap, datasetPc, plan, known, opened, partsDone

Writer == INSTANCE BoundedWriter

ElementRow(v, n) == [value |-> v, elements |-> n]

\* Two files of two row groups; rows with no, one and two elements in their lists.
MCSource ==
  << << <<ElementRow("x", 1), ElementRow("y", 2)>>, <<ElementRow("x", 0)>> >>,
     << <<ElementRow("z", 1)>>, <<ElementRow("y", 0), ElementRow("x", 2)>> >> >>

Row(f, g, o, n) == [file |-> f, group |-> g, offset |-> o, order |-> n]
AllRows == {Row(1, 1, 1, 5), Row(1, 1, 2, 3), Row(1, 2, 1, 4), Row(2, 1, 1, 1), Row(2, 2, 2, 2)}
EngineTask(rows, partition, byGroup, complete, unnest) ==
  [coordinates |-> rows, partition |-> partition, byGroup |-> byGroup, complete |-> complete,
   unnest |-> unnest]

\* A task of two rows that lie in one partition.
SmallTask == EngineTask({Row(1, 1, 1, 2), Row(1, 2, 1, 1)}, "guaranteed", FALSE, FALSE, FALSE)

\* Tasks of one row group and of all, with and without partitions, batch by batch or combined.
MCTasks ==
  { SmallTask, EngineTask(AllRows, "rows", FALSE, FALSE, FALSE),
    EngineTask(AllRows, "rows", FALSE, TRUE, TRUE), EngineTask(AllRows, "rows", TRUE, FALSE, FALSE),
    EngineTask(AllRows, "none", TRUE, FALSE, TRUE), EngineTask(AllRows, "rows", FALSE, FALSE, TRUE) }

\* Two values whose paths are the same.
Native ==
  INSTANCE NativeTask WITH
    Tasks <- MCTasks, Source <- MCSource,
    Component <- ("x" :> "x" @@ "y" :> "y_" @@ "z" :> "y_"),
    BatchRows <- 1, MaxAttempts <- 2, queue <- channel, writer <- thread, plan <- taskPlan

\* Three runs of a dataset of one part.
Dataset ==
  INSTANCE DatasetTransaction WITH
    Run <- 1..3, Part <- {1}, Definition <- {1}, MaxVersion <- 1, Exclusive <- TRUE,
    pc <- datasetPc, finished <- partsDone

ASSUME WorkersAssumption == Writer!WriterAssumption /\ Dataset!AbsentAssumption /\ Dataset!ConstantsAssumption

Called(who, tasks, perChild, calibrate, dying) ==
  [caller |-> who, tasks |-> tasks, workers |-> 2, perChild |-> perChild, calibrate |-> calibrate,
   deaths |-> dying]

\* Joins without a limit, with batches, and with a limit that forbids them;
\* candidates with and without a calibration.
MCDeployments ==
  { Called("join", 3, None, FALSE, 2), Called("join", 4, 2, FALSE, 0),
    Called("join", 3, 2, FALSE, 2), Called("join", 3, 1, FALSE, 2),
    Called("candidates", 3, 2, FALSE, 2), Called("candidates", 3, 2, TRUE, 2) }

writerVars == <<producer, handing, produced, finished, aborted, outcome, queue, writer, item,
                session, written, error, ready>>
nativeVars == <<task, taskPlan, attempt, reader, read, held, channel, commit, open, thread, writers,
                temps, files, result, trouble>>
datasetVars ==
  <<source, definition, final, staging, backup, swap, datasetPc, plan, known, opened, partsDone>>
workersVars == <<part, vars, writerVars, nativeVars, datasetVars>>

WorkersInit ==
  /\ part \in {"tasks", "writer", "native", "dataset"} /\ Init /\ Writer!Init /\ Native!Init /\ Dataset!Init
  /\ part # "tasks" => deployment = Called("join", 3, None, FALSE, 2)
  /\ part # "native" => task = SmallTask

OfTasks == part = "tasks" /\ UNCHANGED <<part, writerVars, nativeVars, datasetVars>>
OfWriter == part = "writer" /\ UNCHANGED <<part, vars, nativeVars, datasetVars>>
OfNative == part = "native" /\ UNCHANGED <<part, vars, writerVars, datasetVars>>
OfDataset == part = "dataset" /\ UNCHANGED <<part, vars, writerVars, nativeVars>>

WorkersNext ==
  \/ OfTasks /\ Next
  \/ OfWriter /\ Writer!Next
  \/ OfNative /\ Native!Next
  \/ OfDataset /\ Dataset!Next

\* The calling thread of each, and the thread that writers and tasks of the engine start: as a
\* behaviour is about one of them, and runs of a dataset follow one another, fairness of the
\* disjunction is fairness of each.
MainNext ==
  \/ OfTasks /\ Progress
  \/ OfWriter /\ Writer!ProducerNext
  \/ OfNative /\ Native!ReaderNext
  \/ OfDataset /\ \E r \in 1..3 : Dataset!Step(r)
ThreadNext ==
  \/ OfWriter /\ Writer!WriterNext
  \/ OfNative /\ Native!WriterNext

WorkersSpec ==
  /\ WorkersInit /\ [][WorkersNext]_workersVars
  /\ WF_workersVars(MainNext)
  /\ WF_workersVars(ThreadNext)

-----------------------------------------------------------------------------
\* What the bounded writer returns is all it was given, and what fails leaves nothing.
WholeOrNothing ==
  Writer!TypeOK /\ Writer!ResultIsWhole /\ Writer!CompletedIsWhole /\ Writer!NothingBehind

\* A task of the engine leaves the rows it was given, or none, and fails for a cause.
TaskIsExact ==
  Native!TypeOK /\ Native!ResultIsExact /\ Native!FailureLeavesNothing /\ Native!FailsOnlyForCause

\* The callers of the first three get their answer, their result or an exception; the last
\* run of a dataset restores the backup that it finds (DatasetTransaction).
CallersReturn ==
  /\ <>(CASE part = "tasks" -> HasReturned
         [] part = "writer" -> Writer!HasReturned
         [] part = "native" -> Native!HasReturned
         [] part = "dataset" -> TRUE)
  /\ Dataset!RestoresIn(3)
=============================================================================
