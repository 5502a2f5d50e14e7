----------------------------- MODULE TaskRunner -----------------------------
(* The task runner of runtime/task_runner.py with the two callers that use all *)
(* of it: the join producer, which plans batches (assets/a0301_join), and the  *)
(* candidate sidecars, which calibrate with one task and retry what a lost     *)
(* child or a lack of memory has failed (assets/a0201_curated).                *)
(*                                                                             *)
(* Batches of tasks go to a pool of child processes, one pool per generation.  *)
(* A child that dies breaks its pool: every future that is not done fails, and *)
(* the other children are terminated some time later.  A child over its memory *)
(* limit hands back the rest of its batch.                                     *)
EXTENDS Integers, Sequences, FiniteSets, Functions

CONSTANTS
  MaxTasks,     \* the largest number of tasks
  MaxWorkers,   \* the largest number of workers
  MaxDeaths,    \* bound: the largest number of children that die
  Deployments,  \* the calls a run of the model may start with
  None          \* max_tasks_per_child is not given

Task == 1..MaxTasks
Child == 1..MaxWorkers

\* A caller, its tasks 1..tasks, workers, max_tasks_per_child, calibrate_workers, and
\* how many children may die.
Deployment == [caller : {"join", "candidates"}, tasks : Task, workers : Child,
               perChild : (Nat \ {0}) \cup {None}, calibrate : BOOLEAN, deaths : 0..MaxDeaths]

ASSUME RunnerAssumption ==
  /\ MaxTasks \in Nat \ {0} /\ MaxWorkers \in Nat \ {0} /\ MaxDeaths \in Nat
  /\ None \notin Nat
  /\ Deployments \subseteq Deployment
  /\ \A d \in Deployments : d.caller = "candidates" => d.perChild # None

VARIABLES
  deployment,  \* the call (it does not change)
  phase,       \* where the calling process is
  failing,     \* it is leaving the pool with an exception
  mode,        \* submission_mode
  size,        \* max_tasks_per_child of the call under way
  asked,       \* the tasks of the caller
  todo,        \* the tasks that wait for the end of the calibration
  pending,     \* the batches of later generations
  future,      \* the futures of this generation
  broken,      \* the pool is broken
  child,       \* the child processes of the pool
  results,     \* of the call under way
  answer,      \* the caller's results
  runs,        \* history: how often a task was started in the call under way
  deaths       \* history: children that died

call == <<mode, size, todo, pending, results>>
caller == <<deployment, asked, answer>>
pool == <<future, broken, child>>
history == <<runs, deaths>>
vars == <<caller, phase, failing, call, pool, history>>

Kind == {"ok", "failed", "memory", "abnormal"}
Result == [task : Task, kind : Kind]
NoChild == [pc |-> "none", future |-> 0, left |-> <<>>, done |-> <<>>, ran |-> 0, limit |-> None]

Smaller(m, n) == IF m < n THEN m ELSE n
Larger(m, n) == IF m < n THEN n ELSE m
Parts(n, m) == (n + m - 1) \div m

\* The numbers of a set in their order, and what a sequence has at such positions.
InOrder(S) == [i \in 1..Cardinality(S) |-> CHOOSE n \in S : Cardinality({m \in S : m <= n}) = i]
At(s, S) == [i \in 1..Cardinality(S) |-> s[InOrder(S)[i]]]

Init ==
  /\ deployment \in Deployments
  /\ phase = "planning" /\ failing = FALSE
  /\ mode = "single" /\ size = None /\ asked = {} /\ todo = {}
  /\ pending = <<>> /\ future = <<>> /\ broken = FALSE
  /\ child = [c \in Child |-> NoChild]
  /\ results = <<>> /\ answer = <<>>
  /\ runs = [t \in Task |-> 0] /\ deaths = 0

-----------------------------------------------------------------------------
(* Batches *)

\* Consecutive batches of n tasks.
Chunks(s, n) == [i \in 1..Parts(Len(s), n) |-> SubSeq(s, (i - 1) * n + 1, Smaller(i * n, Len(s)))]

\* Tasks dealt out to n batches in turn.
Dealt(s, n) == [i \in 1..n |-> [k \in 1..Parts(Len(s) - i + 1, n) |-> s[(k - 1) * n + i]]]

\* _plan_partition_local_task_batches: the eligible tasks are dealt out to as
\* many batches as there are workers, or as the limit of a batch takes; every
\* other task is alone.
Planned(eligible) ==
  LET limit == IF deployment.perChild = None THEN 4 ELSE Smaller(4, deployment.perChild)
      together == InOrder(eligible)
      count == Smaller(Len(together),
                       Larger(Smaller(deployment.workers, Len(together)), Parts(Len(together), limit)))
  IN  IF deployment.caller # "join" \/ deployment.tasks <= 1 \/ limit <= 1
      THEN <<>>
      ELSE Dealt(together, count) \o Chunks(InOrder((1..deployment.tasks) \ eligible), 1)

\* _rebind_partition_local_task_batches: what is not dirty drops out.
Rebound(batches, dirty) ==
  LET rest == [i \in DOMAIN batches |->
                 At(batches[i], {k \in DOMAIN batches[i] : batches[i][k] \in dirty})]
  IN  At(rest, {i \in DOMAIN rest : rest[i] # <<>>})

\* run_tasks_in_subprocesses begins with these tasks.
Call(tasks, perChild, batches) ==
  LET chosen == IF batches # <<>> THEN "explicit" ELSE IF perChild = None THEN "single" ELSE "limited"
  IN  /\ mode' = chosen
      /\ size' = perChild
      /\ pending' = CASE chosen = "explicit" -> batches
                      [] chosen = "single"   -> Chunks(InOrder(tasks), 1)
                      [] chosen = "limited"  -> Chunks(InOrder(tasks), perChild)
      /\ results' = <<>>
      /\ runs' = [t \in Task |-> 0]

\* The join producer keeps the parts that are not dirty.
PlanJoin ==
  /\ phase = "planning" /\ deployment.caller = "join"
  /\ phase' = "between"
  /\ \E eligible \in SUBSET (1..deployment.tasks), dirty \in SUBSET (1..deployment.tasks) :
       /\ asked' = dirty
       /\ Call(dirty, deployment.perChild, Rebound(Planned(eligible), dirty))
  /\ UNCHANGED <<deployment, answer, failing, todo, pool, deaths>>

\* The candidate sidecars try the first task alone.
PlanCandidates ==
  /\ phase = "planning" /\ deployment.caller = "candidates"
  /\ phase' = "between"
  /\ asked' = 1..deployment.tasks
  /\ IF deployment.calibrate /\ deployment.tasks > 1
     THEN Call({1}, 1, <<>>) /\ todo' = 2..deployment.tasks
     ELSE Call(asked', deployment.perChild, <<>>) /\ todo' = {}
  /\ UNCHANGED <<deployment, answer, failing, pool, deaths>>

-----------------------------------------------------------------------------
(* A generation: one pool *)

\* Mutant of GenerationSize: all batches go to one pool.
EveryBatch == Len(pending)

\* Without batches all tasks go to one pool.
GenerationSize == IF mode = "single" THEN Len(pending) ELSE Smaller(deployment.workers, Len(pending))

BeginGeneration ==
  /\ phase = "between" /\ pending # <<>>
  /\ phase' = "submitting"
  /\ future' = [i \in 1..GenerationSize |->
                  [batch |-> pending[i], state |-> "unsent", done |-> <<>>, rest |-> <<>>]]
  /\ pending' = SubSeq(pending, GenerationSize + 1, Len(pending))
  /\ broken' = FALSE
  /\ UNCHANGED <<caller, failing, mode, size, todo, results, child, history>>

Unsent == {f \in DOMAIN future : future[f].state = "unsent"}
Set(f, state) == future' = [future EXCEPT ![f].state = state]

Submit ==
  /\ phase = "submitting" /\ ~broken
  /\ \E f \in Unsent :
       /\ \A g \in Unsent : f <= g
       /\ Set(f, "queued")
       /\ phase' = IF Unsent = {f} THEN "waiting" ELSE "submitting"
  /\ UNCHANGED <<caller, failing, call, broken, child, history>>

\* submit raises when the pool is broken already, and nobody catches it.
SubmitRaises ==
  /\ phase = "submitting" /\ broken
  /\ phase' = "leaving" /\ failing' = TRUE
  /\ UNCHANGED <<caller, call, pool, history>>

Abnormal(batch) == [i \in DOMAIN batch |-> [task |-> batch[i], kind |-> "abnormal"]]

\* Where as_completed takes the caller after it has seen future f.
Seen(f) ==
  phase' = IF \A g \in DOMAIN future \ {f} : future[g].state = "seen" THEN "leaving" ELSE "waiting"

\* Mutant of HarvestDone: the rest of a recycled batch is forgotten.
HarvestForgetful(f) ==
  /\ phase = "waiting" /\ future[f].state = "done"
  /\ results' = results \o future[f].done
  /\ Set(f, "seen") /\ Seen(f)
  /\ UNCHANGED <<caller, failing, mode, size, todo, pending, broken, child, history>>

\* The rest of a recycled batch waits for a later generation; where no batch
\* may be recycled it counts as lost.
HarvestDone(f) ==
  /\ phase = "waiting" /\ future[f].state = "done"
  /\ LET rest == future[f].rest IN
     IF mode = "explicit"
     THEN /\ results' = results \o future[f].done
          /\ pending' = IF rest = <<>> THEN pending ELSE Append(pending, rest)
     ELSE /\ results' = results \o future[f].done \o Abnormal(rest)
          /\ UNCHANGED pending
  /\ Set(f, "seen") /\ Seen(f)
  /\ UNCHANGED <<caller, failing, mode, size, todo, broken, child, history>>

\* BrokenProcessPool: every task of the batch counts as lost.
HarvestBroken(f) ==
  /\ phase = "waiting" /\ future[f].state = "broken"
  /\ results' = results \o Abnormal(future[f].batch)
  /\ Set(f, "seen") /\ Seen(f)
  /\ UNCHANGED <<caller, failing, mode, size, todo, pending, broken, child, history>>

\* Any other exception of a future leaves the loop.
HarvestRaises(f) ==
  /\ phase = "waiting" /\ future[f].state = "escaped"
  /\ phase' = "leaving" /\ failing' = TRUE
  /\ UNCHANGED <<caller, call, pool, history>>

Closed ==
  /\ child' = [c \in Child |-> NoChild]
  /\ phase' = IF failing THEN "raised" ELSE "between"
  /\ UNCHANGED <<caller, failing, call, future, broken, history>>

\* Mutant of LeavePool: the caller does not wait for the children.
LeaveAtOnce ==
  /\ phase = "leaving"
  /\ phase' = IF failing THEN "raised" ELSE "between"
  /\ UNCHANGED <<caller, failing, call, pool, history>>

\* The end of the with statement: shutdown waits for what was submitted, and
\* for the children.
LeavePool ==
  /\ phase = "leaving"
  /\ \A f \in DOMAIN future : future[f].state \notin {"queued", "taken"}
  /\ \A c \in Child : child[c].pc \notin {"busy", "reporting"}
  /\ Closed

-----------------------------------------------------------------------------
(* The children: ProcessPoolExecutor and _run_task_batch *)

PoolSize == IF mode = "single" THEN deployment.workers ELSE Len(future)

\* A new child, or one that is idle, takes a batch and starts its first task.
Take(c, f) ==
  /\ ~broken /\ c <= PoolSize
  /\ child[c].pc \in {"none", "idle"}
  /\ future[f].state = "queued"
  /\ Set(f, "taken")
  /\ child' = [child EXCEPT ![c] = [pc |-> "busy", future |-> f, left |-> future[f].batch,
                                    done |-> <<>>, ran |-> @.ran + 1,
                                    limit |-> IF mode = "limited" THEN size ELSE None]]
  /\ runs' = [runs EXCEPT ![Head(future[f].batch)] = @ + 1]
  /\ UNCHANGED <<caller, phase, failing, call, broken, deaths>>

Ended(c, kind) == Append(child[c].done, [task |-> Head(child[c].left), kind |-> kind])

\* _run_task_guarded turns an exception into a result; the next task starts.
EndTask(c, kind) ==
  /\ child[c].pc = "busy" /\ Len(child[c].left) > 1
  /\ child' = [child EXCEPT ![c].done = Ended(c, kind), ![c].left = Tail(@), ![c].ran = @ + 1]
  /\ runs' = [runs EXCEPT ![child[c].left[2]] = @ + 1]
  /\ UNCHANGED <<caller, phase, failing, call, future, broken, deaths>>

EndBatch(c, kind) ==
  /\ child[c].pc = "busy" /\ Len(child[c].left) = 1
  /\ child' = [child EXCEPT ![c].pc = "reporting", ![c].done = Ended(c, kind), ![c].left = <<>>]
  /\ UNCHANGED <<caller, phase, failing, call, future, broken, history>>

MayRecycle == mode = "explicit"

\* Mutant of Recycle: the task that has just ended is handed back too.
RecycleAll(c, kind) ==
  /\ child[c].pc = "busy" /\ Len(child[c].left) > 1
  /\ MayRecycle
  /\ child' = [child EXCEPT ![c].pc = "reporting", ![c].done = Ended(c, kind)]
  /\ UNCHANGED <<caller, phase, failing, call, future, broken, history>>

\* The child uses too much memory after a task that is not its last.
Recycle(c, kind) ==
  /\ child[c].pc = "busy" /\ Len(child[c].left) > 1
  /\ MayRecycle
  /\ child' = [child EXCEPT ![c].pc = "reporting", ![c].done = Ended(c, kind), ![c].left = Tail(@)]
  /\ UNCHANGED <<caller, phase, failing, call, future, broken, history>>

\* Mutant of Kept: a child outlives its batch in every mode.
KeptAlways(c) == [NoChild EXCEPT !.pc = "idle", !.ran = child[c].ran]

\* The pool of a batch with a limit has max_tasks_per_child = 1.
Kept(c) == IF mode = "limited" THEN NoChild ELSE [NoChild EXCEPT !.pc = "idle", !.ran = child[c].ran]

\* The pool receives what the child sends.
Report(c) ==
  /\ child[c].pc = "reporting" /\ ~broken
  /\ future' = [future EXCEPT ![child[c].future].state = "done", ![child[c].future].done = child[c].done,
                              ![child[c].future].rest = child[c].left]
  /\ child' = [child EXCEPT ![c] = Kept(c)]
  /\ UNCHANGED <<caller, phase, failing, call, broken, history>>

\* An exception that is no Exception escapes _run_task_guarded; the child sends it.
Escape(c) ==
  /\ child[c].pc = "busy" /\ ~broken
  /\ Set(child[c].future, "escaped")
  /\ child' = [child EXCEPT ![c] = Kept(c)]
  /\ UNCHANGED <<caller, phase, failing, call, broken, history>>

Die(c) ==
  /\ child[c].pc \in {"idle", "busy"} /\ deaths < deployment.deaths
  /\ child' = [child EXCEPT ![c] = [NoChild EXCEPT !.pc = "dead"]]
  /\ deaths' = deaths + 1
  /\ UNCHANGED <<caller, phase, failing, call, future, broken, runs>>

\* The pool notices a dead child: all futures that are not done fail.
BreakPool ==
  /\ ~broken /\ \E c \in Child : child[c].pc = "dead"
  /\ broken' = TRUE
  /\ future' = [f \in DOMAIN future |->
                  IF future[f].state \in {"queued", "taken"} THEN [future[f] EXCEPT !.state = "broken"]
                  ELSE future[f]]
  /\ UNCHANGED <<caller, phase, failing, call, child, history>>

\* The other children run on until the pool gets to terminate them.
Terminate(c) ==
  /\ broken /\ child[c].pc # "none"
  /\ child' = [child EXCEPT ![c] = NoChild]
  /\ UNCHANGED <<caller, phase, failing, call, future, broken, history>>

-----------------------------------------------------------------------------
(* The end of a call *)

Of(t, s) == CHOOSE r \in Range(s) : r.task = t
TasksOf(s) == {r.task : r \in Range(s)}

\* New results replace old ones of the same task, or are appended.  (Their
\* order is that of the task ids; nothing depends on it.)
Settle ==
  /\ phase = "between" /\ pending = <<>>
  /\ phase' = "settled"
  /\ answer' = IF TasksOf(results) \subseteq TasksOf(answer)
                 THEN [i \in DOMAIN answer |->
                        IF answer[i].task \in TasksOf(results) THEN Of(answer[i].task, results) ELSE answer[i]]
                 ELSE answer \o results
  /\ UNCHANGED <<deployment, asked, failing, call, pool, history>>

\* The tasks after the calibration.
CallRemaining ==
  /\ phase = "settled" /\ todo # {}
  /\ phase' = "between"
  /\ Call(todo, deployment.perChild, <<>>)
  /\ todo' = {}
  /\ UNCHANGED <<caller, failing, pool, deaths>>

\* Mutant of Retryable: everything is run again.
RetryEverything == asked

Retryable == {r.task : r \in {s \in Range(answer) : s.kind \in {"abnormal", "memory"}}}

MayRetry == deployment.caller = "candidates" /\ Retryable # {}

\* Mutant of Retry: the batches do not become smaller.
RetrySameSize ==
  /\ phase = "settled" /\ todo = {} /\ MayRetry /\ size > 1
  /\ phase' = "between"
  /\ Call(Retryable, size, <<>>)
  /\ UNCHANGED <<caller, failing, todo, pool, deaths>>

\* Half the batch size for the tasks whose child was lost or lacked memory.
Retry ==
  /\ phase = "settled" /\ todo = {} /\ MayRetry /\ size > 1
  /\ phase' = "between"
  /\ Call(Retryable, Larger(1, size \div 2), <<>>)
  /\ UNCHANGED <<caller, failing, todo, pool, deaths>>

Return ==
  /\ phase = "settled" /\ todo = {} /\ ~(MayRetry /\ size > 1)
  /\ phase' = "returned"
  /\ UNCHANGED <<caller, failing, call, pool, history>>

-----------------------------------------------------------------------------

Calling ==
  \/ PlanJoin \/ PlanCandidates \/ BeginGeneration \/ Submit \/ SubmitRaises \/ LeavePool
  \/ \E f \in DOMAIN future : HarvestDone(f) \/ HarvestBroken(f) \/ HarvestRaises(f)
  \/ Settle \/ CallRemaining \/ Retry \/ Return

Running(c) ==
  \/ \E f \in DOMAIN future : Take(c, f)
  \/ \E kind \in {"ok", "failed", "memory"} : EndTask(c, kind) \/ EndBatch(c, kind) \/ Recycle(c, kind)
  \/ Report(c) \/ Terminate(c)

Progress == Calling \/ BreakPool \/ \E c \in Child : Running(c)

Next == Progress \/ \E c \in Child : Escape(c) \/ Die(c)

\* The calling process, the pool and its children run on; nothing makes a
\* child die or lets an exception escape.
Spec == Init /\ [][Next]_vars /\ WF_vars(Progress)

-----------------------------------------------------------------------------
(* Properties *)

\* Every variable has its type; a pool that runs batches has no more children than there are workers.
TypeOK ==
  /\ deployment \in Deployments
  /\ phase \in {"planning", "between", "submitting", "waiting", "leaving", "settled", "returned", "raised"}
  /\ failing \in BOOLEAN /\ broken \in BOOLEAN
  /\ mode \in {"explicit", "single", "limited"} /\ size \in (Nat \ {0}) \cup {None}
  /\ asked \subseteq Task /\ todo \subseteq asked
  /\ \A f \in DOMAIN future : future[f].state \in {"unsent", "queued", "taken", "done", "broken", "escaped", "seen"}
  /\ mode # "single" => Len(future) <= deployment.workers
  /\ \A c \in Child : child[c].pc \in {"none", "idle", "busy", "reporting", "dead"}
  /\ Range(results) \subseteq Result /\ Range(answer) \subseteq Result
  /\ deaths \in 0..MaxDeaths /\ runs \in [Task -> Nat]

\* A caller that gets an answer gets exactly one result for each of its tasks, however batches were planned, cut at the memory limit, lost with their pool and tried again.
OneResultEach ==
  phase = "returned" => /\ Len(answer) = Cardinality(asked)
                        /\ TasksOf(answer) = asked

\* No call starts a task twice: not when a batch is recycled, nor when its pool breaks.
RunsOnce == \A t \in Task : runs[t] <= 1

\* No task runs in two children at once, though a broken pool leaves children behind it and the lost tasks are tried again.
NeverTwiceAtOnce ==
  \A c, d \in Child : child[c].pc = "busy" /\ child[d].pc = "busy" /\ c # d =>
    Head(child[c].left) # Head(child[d].left)

\* A child never runs more than max_tasks_per_child tasks: the batch it gets is its only one ("Each submitted batch must get one fresh child and exit after at most N logical tasks", task_runner.py:240).
ChildStaysFresh == \A c \in Child : child[c].limit # None => child[c].ran <= child[c].limit

\* Every task has one result, ran once for it, never ran in two children at once, and
\* ran in a child that had not yet taken as many tasks as it may.
ExactlyOnce == OneResultEach /\ RunsOnce /\ NeverTwiceAtOnce /\ ChildStaysFresh

\* A success is never replaced by the outcome of a retry.
SuccessStays ==
  [][\A r \in Range(answer) : r.kind = "ok" => r \in Range(answer')]_vars

HasReturned == phase \in {"returned", "raised"}

\* However children die and run out of memory, the caller gets its answer or an exception.
CallReturns == <>HasReturned
=============================================================================
