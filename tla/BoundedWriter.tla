---------------------------- MODULE BoundedWriter ----------------------------
(* The bounded writer of runtime/bounded_writer.py: a producer hands batches   *)
(* through a queue of limited size to a thread that owns the format's writer   *)
(* session.  The callers (0103 routes, the 0401 snapshot) submit their batches,*)
(* call finish, and on any exception call abort.  The session may fail in its  *)
(* factory and in every call.                                                  *)
EXTENDS Integers, Sequences

CONSTANTS
  Capacity,  \* capacity_batches
  Batches,   \* bound: how many batches the producer has at most
  Stop       \* the _STOP object

\* What the constants have to be (whoever instantiates the module assumes it).
WriterAssumption ==
  /\ Capacity \in Nat \ {0} /\ Batches \in Nat
  /\ Stop \notin 1..Batches

VARIABLES
  producer,  \* where the caller's thread is
  handing,   \* the object its _put hands over
  produced,  \* _batches_produced
  finished,  \* _finished
  aborted,   \* _aborted
  outcome,   \* what the caller got: nothing yet, the result, or an exception
  queue,     \* _queue
  writer,    \* where the writer thread is
  item,      \* the batch it took
  session,   \* state of the writer session
  written,   \* the batches the session has written, in order
  error,     \* _error is set
  ready      \* _result_ready

producerVars == <<producer, handing, produced, finished, aborted, outcome>>
writerVars == <<writer, item, session, written, error, ready>>
vars == <<producerVars, queue, writerVars>>

Batch == 1..Batches
Alive == writer # "over"

Init ==
  /\ producer = "producing" /\ handing = Stop /\ produced = 0
  /\ finished = FALSE /\ aborted = FALSE /\ outcome = "none"
  /\ queue = <<>>
  /\ writer = "opening" /\ item = Stop /\ session = "none" /\ written = <<>>
  /\ error = FALSE /\ ready = FALSE

-----------------------------------------------------------------------------
(* The producer.                                                              *)

(* submit: the next batch is to be handed over.                               *)
Submit ==
  /\ producer = "producing"
  /\ produced < Batches
  /\ handing' = produced + 1
  /\ producer' = "checking"
  /\ UNCHANGED <<produced, finished, aborted, outcome, queue, writerVars>>

(* finish: the pipeline is closed, then the stop object is handed over.       *)
BeginFinish ==
  /\ producer = "producing"
  /\ finished' = TRUE
  /\ handing' = Stop
  /\ producer' = "checking"
  /\ UNCHANGED <<produced, aborted, outcome, queue, writerVars>>

(* An exception of the caller's own, or of submit or finish, makes it abort.  *)
ProducerFails ==
  /\ producer = "producing"
  /\ producer' = "excepting"
  /\ UNCHANGED <<handing, produced, finished, aborted, outcome, queue, writerVars>>

(* _put looks at the error and at the thread before each attempt.             *)
\* Mutant: the error and the thread are not looked at.
CheckNothing ==
  /\ producer = "checking"
  /\ producer' = "putting"
  /\ UNCHANGED <<handing, produced, finished, aborted, outcome, queue, writerVars>>

CheckWriter ==
  /\ producer = "checking"
  /\ producer' = IF error \/ ~Alive THEN "excepting" ELSE "putting"
  /\ UNCHANGED <<handing, produced, finished, aborted, outcome, queue, writerVars>>

\* Mutant: one batch more than the capacity is let in.
PutBatchOver ==
  /\ producer = "putting" /\ handing # Stop
  /\ Len(queue) <= Capacity
  /\ queue' = Append(queue, handing)
  /\ produced' = produced + 1
  /\ producer' = "producing"
  /\ UNCHANGED <<handing, finished, aborted, outcome, writerVars>>

PutBatch ==
  /\ producer = "putting" /\ handing # Stop
  /\ Len(queue) < Capacity
  /\ queue' = Append(queue, handing)
  /\ produced' = produced + 1
  /\ producer' = "producing"
  /\ UNCHANGED <<handing, finished, aborted, outcome, writerVars>>

PutStop ==
  /\ producer = "putting" /\ handing = Stop
  /\ Len(queue) < Capacity
  /\ queue' = Append(queue, Stop)
  /\ producer' = "joining"
  /\ UNCHANGED <<handing, produced, finished, aborted, outcome, writerVars>>

PutTimesOut ==
  /\ producer = "putting"
  /\ Len(queue) >= Capacity
  /\ producer' = "checking"
  /\ UNCHANGED <<handing, produced, finished, aborted, outcome, queue, writerVars>>

\* Mutant: only the counts are compared.
JoinCounts ==
  /\ producer = "joining"
  /\ ~Alive
  /\ IF Len(written) = produced
       THEN producer' = "left" /\ outcome' = "result"
       ELSE producer' = "excepting" /\ UNCHANGED outcome
  /\ UNCHANGED <<handing, produced, finished, aborted, queue, writerVars>>

(* finish returns the result, or raises after the thread has ended.           *)
Join ==
  /\ producer = "joining"
  /\ ~Alive
  /\ IF ~error /\ ready /\ Len(written) = produced
       THEN producer' = "left" /\ outcome' = "result"
       ELSE producer' = "excepting" /\ UNCHANGED outcome
  /\ UNCHANGED <<handing, produced, finished, aborted, queue, writerVars>>

(* abort: nothing when the pipeline is closed; else the event comes first.    *)
AbortClosed ==
  /\ producer = "excepting"
  /\ finished
  /\ producer' = "left" /\ outcome' = "raised"
  /\ UNCHANGED <<handing, produced, finished, aborted, queue, writerVars>>

BeginAbort ==
  /\ producer = "excepting"
  /\ ~finished
  /\ finished' = TRUE /\ aborted' = TRUE
  /\ producer' = "stopping"
  /\ UNCHANGED <<handing, produced, outcome, queue, writerVars>>

(* The stop object is handed over, unless the thread has ended.               *)
StopWriter ==
  /\ producer = "stopping"
  /\ \/ ~Alive /\ UNCHANGED queue
     \/ Len(queue) < Capacity /\ queue' = Append(queue, Stop)
  /\ producer' = "awaiting"
  /\ UNCHANGED <<handing, produced, finished, aborted, outcome, writerVars>>

\* Mutant: abort does not wait for the thread.
LeaveAborted ==
  /\ producer = "awaiting"
  /\ producer' = "left" /\ outcome' = "raised"
  /\ UNCHANGED <<handing, produced, finished, aborted, queue, writerVars>>

JoinAborted ==
  /\ producer = "awaiting"
  /\ ~Alive
  /\ producer' = "left" /\ outcome' = "raised"
  /\ UNCHANGED <<handing, produced, finished, aborted, queue, writerVars>>

-----------------------------------------------------------------------------
(* The writer thread.                                                         *)

Open ==
  /\ writer = "opening"
  /\ writer' = "getting" /\ session' = "open"
  /\ UNCHANGED <<producerVars, queue, item, written, error, ready>>

Take ==
  /\ writer = "getting"
  /\ queue # <<>> /\ Head(queue) # Stop
  /\ item' = Head(queue) /\ queue' = Tail(queue)
  /\ writer' = "writing"
  /\ UNCHANGED <<producerVars, session, written, error, ready>>

\* Mutant: the thread does not ask whether it is to give up.
TakeStopFinishing ==
  /\ writer = "getting"
  /\ queue # <<>> /\ Head(queue) = Stop
  /\ queue' = Tail(queue)
  /\ writer' = "finishing"
  /\ UNCHANGED <<producerVars, item, session, written, error, ready>>

(* The stop object: the session is given up or completed.                     *)
TakeStop ==
  /\ writer = "getting"
  /\ queue # <<>> /\ Head(queue) = Stop
  /\ queue' = Tail(queue)
  /\ writer' = IF aborted THEN "aborting" ELSE "finishing"
  /\ UNCHANGED <<producerVars, item, session, written, error, ready>>

Write ==
  /\ writer = "writing"
  /\ written' = Append(written, item)
  /\ writer' = "getting"
  /\ UNCHANGED <<producerVars, queue, item, session, error, ready>>

FinishSession ==
  /\ writer = "finishing"
  /\ session' = "finished" /\ ready' = TRUE
  /\ writer' = "over"
  /\ UNCHANGED <<producerVars, queue, item, written, error>>

AbortSession ==
  /\ writer = "aborting"
  /\ session' = "aborted"
  /\ writer' = "over"
  /\ UNCHANGED <<producerVars, queue, item, written, error, ready>>

(* Any call of the session fails: the error is set for the producer to see,   *)
(* then what was opened is given up.                                          *)
WriterFails ==
  /\ writer \in {"opening", "writing", "finishing", "aborting"}
  /\ error' = TRUE
  /\ writer' = IF session = "none" THEN "over" ELSE "cleaning"
  /\ UNCHANGED <<producerVars, queue, item, session, written, ready>>

CleanUp ==
  /\ writer = "cleaning"
  /\ session' = "aborted"
  /\ writer' = "over"
  /\ UNCHANGED <<producerVars, queue, item, written, error, ready>>

ProducerNext ==
  \/ Submit \/ BeginFinish \/ CheckWriter \/ PutBatch \/ PutStop \/ PutTimesOut \/ Join
  \/ AbortClosed \/ BeginAbort \/ StopWriter \/ JoinAborted
WriterNext ==
  \/ Open \/ Take \/ TakeStop \/ Write \/ FinishSession \/ AbortSession \/ WriterFails \/ CleanUp

(* Both threads run on; an exception of the producer may come or not.         *)
Next == ProducerNext \/ ProducerFails \/ WriterNext
Spec == Init /\ [][Next]_vars /\ WF_vars(ProducerNext) /\ WF_vars(WriterNext)

-----------------------------------------------------------------------------
Sent == [i \in 1..produced |-> i]

\* Every variable has its type; the queue is never longer than its capacity, and holds the stop object last only.
TypeOK ==
  /\ producer \in {"producing", "checking", "putting", "joining", "excepting", "stopping", "awaiting", "left"}
  /\ handing \in Batch \cup {Stop} /\ produced \in 0..Batches
  /\ finished \in BOOLEAN /\ aborted \in BOOLEAN /\ outcome \in {"none", "result", "raised"}
  /\ queue \in Seq(Batch \cup {Stop}) /\ Len(queue) <= Capacity
  /\ \A i \in 1..Len(queue) : queue[i] = Stop => i = Len(queue)
  /\ writer \in {"opening", "getting", "writing", "finishing", "aborting", "cleaning", "over"}
  /\ item \in Batch \cup {Stop} /\ session \in {"none", "open", "finished", "aborted"}
  /\ written \in Seq(Batch) /\ error \in BOOLEAN /\ ready \in BOOLEAN

\* finish returns a result only when every batch was written once, in the order of the submits, and the session was completed (finish).
ResultIsWhole == outcome = "result" => written = Sent /\ session = "finished" /\ ~error

\* A session that was given up, by abort before finish or by a failure, is never completed, so that no partial file takes its final name: a completed session holds everything that was submitted (_run).
CompletedIsWhole == session = "finished" => ~aborted /\ finished /\ written = Sent

\* When the caller leaves, the thread has ended: nothing is written to the staging directory behind its back, except that after a failed finish the failed session may still be cleaning up (abort, finish).
NothingBehind ==
  outcome # "none" => \/ writer = "over"
                      \/ writer = "cleaning" /\ error /\ ~aborted

HasReturned == outcome # "none"

\* Whatever fails, and however full the queue is, the caller gets its result or its
\* exception: nobody waits for ever for the other one (_put, join).
CallerReturns == <>HasReturned
=============================================================================
