----------------------------- MODULE WorkersProofs -----------------------------
(* Proofs about what runs beside the task runner: the bounded writer, for any  *)
(* number of batches and any capacity of its queue.                            *)
EXTENDS MCWorkers, TLAPS

-----------------------------------------------------------------------------
(* The bounded writer.  A batch is in the queue, with the writer, or written,  *)
(* and what is written is the beginning of what was submitted.                 *)

HoldsStop == queue # <<>> /\ queue[Len(queue)] = Stop
Taken == IF writer = "writing" THEN 1 ELSE 0
Waiting == IF HoldsStop THEN Len(queue) - 1 ELSE Len(queue)

\* Where the producer is, and what it has said.
ProducerInv ==
  /\ producer \in {"checking", "putting"} =>
       IF handing = Stop THEN finished ELSE handing = produced + 1 /\ ~finished
  /\ producer = "producing" => ~finished
  /\ producer \in {"joining", "stopping", "awaiting", "left"} => finished
  /\ producer \in {"stopping", "awaiting"} => aborted
  /\ aborted => producer \in {"stopping", "awaiting", "left"}
  /\ outcome # "none" <=> producer = "left"

\* Where the writer is, and what has become of its session.
WriterInv ==
  /\ writer = "opening" => session = "none"
  /\ writer \in {"getting", "writing", "finishing", "aborting", "cleaning"} => session = "open"
  /\ error => writer \in {"cleaning", "over"}
  /\ writer = "cleaning" => error
  /\ session = "finished" => writer = "over" /\ ~error
  /\ ready <=> session = "finished"

\* What is where, in the order of the submits, unless a batch was lost with the session.
FlowInv ==
  /\ \A i \in 1 .. Len(written) : written[i] = i
  /\ ~error /\ writer = "writing" => item = Len(written) + 1
  /\ ~error => \A i \in 1 .. Len(queue) : queue[i] # Stop => queue[i] = Len(written) + Taken + i
  /\ writer \in {"opening", "getting", "writing"} => produced = Len(written) + Taken + Waiting

\* How the two threads meet: through the stop object, the error and the end of the thread.
MeetingInv ==
  /\ HoldsStop => \/ producer \in {"joining", "awaiting"}
                  \/ producer \in {"excepting", "left"} /\ finished /\ writer = "over"
  /\ writer \in {"finishing", "aborting"} => queue = <<>>
  /\ writer = "finishing" => producer = "joining" /\ produced = Len(written)
  /\ writer = "aborting" => producer = "awaiting"
  /\ producer = "excepting" /\ finished => writer \in {"cleaning", "over"}
  /\ producer = "left" => writer = "over" \/ (writer = "cleaning" /\ ~aborted)
  /\ session = "finished" =>
       producer \in {"joining", "excepting", "left"} /\ finished /\ ~aborted /\ produced = Len(written)
  /\ writer = "over" /\ ~error => session = "finished" \/ producer \in {"awaiting", "left"}
  /\ outcome = "result" => session = "finished"

BoundedInv == Writer!TypeOK /\ ProducerInv /\ WriterInv /\ FlowInv /\ MeetingInv

LEMMA WriterConstants ==
  /\ Capacity \in Nat /\ Capacity > 0 /\ Batches \in Nat
  /\ Stop \notin Writer!Batch
  BY WorkersAssumption DEF Writer!WriterAssumption, Writer!Batch

LEMMA BoundedInit == Writer!Init => BoundedInv
  <1> SUFFICES ASSUME Writer!Init PROVE BoundedInv
    OBVIOUS
  <1>1. queue = <<>> /\ Len(queue) = 0 /\ written = <<>> /\ Len(written) = 0 /\ ~HoldsStop
    BY DEF Writer!Init, HoldsStop
  <1>2. Writer!TypeOK
    <2>1. queue \in Seq(Writer!Batch \cup {Stop}) /\ written \in Seq(Writer!Batch)
      BY DEF Writer!Init
    <2>2. 0 \in 0 .. Batches /\ Len(queue) <= Capacity
      BY <1>1, WriterConstants
    <2>3. \A i \in 1 .. Len(queue) : queue[i] = Stop => i = Len(queue)
      BY <1>1
    <2> QED BY <2>1, <2>2, <2>3 DEF Writer!Init, Writer!TypeOK
  <1>3. ProducerInv /\ WriterInv /\ MeetingInv
    BY <1>1 DEF Writer!Init, ProducerInv, WriterInv, MeetingInv
  <1>4. FlowInv
    BY <1>1 DEF Writer!Init, FlowInv, Taken, Waiting
  <1> QED BY <1>2, <1>3, <1>4 DEF BoundedInv

(* The producer's steps that leave the queue alone.                            *)
LEMMA ProducerMoves ==
  ASSUME BoundedInv,
         \/ Writer!Submit \/ Writer!BeginFinish \/ Writer!ProducerFails \/ Writer!CheckWriter
         \/ Writer!PutTimesOut \/ Writer!Join \/ Writer!AbortClosed \/ Writer!BeginAbort
         \/ Writer!JoinAborted
  PROVE  BoundedInv'
  <1> USE DEF Writer!Submit, Writer!BeginFinish, Writer!ProducerFails, Writer!CheckWriter,
              Writer!PutTimesOut, Writer!Join, Writer!AbortClosed, Writer!BeginAbort,
              Writer!JoinAborted
  <1>1. /\ queue' = queue /\ produced' = produced
        /\ UNCHANGED <<writer, item, session, written, error, ready>>
    BY DEF Writer!writerVars
  <1>2. FlowInv' /\ WriterInv'
    BY <1>1 DEF BoundedInv, FlowInv, WriterInv, HoldsStop, Taken, Waiting
  <1>3. Writer!TypeOK'
    <2>1. Writer!TypeOK /\ 1 .. Len(queue) = (1 .. Len(queue))'
      BY <1>1 DEF BoundedInv
    <2>2. handing' \in Writer!Batch \cup {Stop}
      BY <2>1, WriterConstants DEF Writer!TypeOK, Writer!Batch
    <2>3. /\ producer' \in {"producing", "checking", "putting", "joining", "excepting", "stopping",
                           "awaiting", "left"}
          /\ finished' \in BOOLEAN /\ aborted' \in BOOLEAN /\ outcome' \in {"none", "result", "raised"}
      BY <2>1 DEF Writer!TypeOK
    <2> QED BY <1>1, <2>1, <2>2, <2>3 DEF Writer!TypeOK
  <1>4. ProducerInv'
    BY <1>1, WriterConstants DEF BoundedInv, ProducerInv, Writer!TypeOK, Writer!Batch
  <1>5. MeetingInv'
    <2>1. HoldsStop' <=> HoldsStop
      BY <1>1 DEF HoldsStop
    <2> USE DEF BoundedInv, ProducerInv, WriterInv, MeetingInv, Writer!Alive
    <2>2. CASE Writer!Submit \/ Writer!BeginFinish \/ Writer!ProducerFails \/ Writer!PutTimesOut
      BY <1>1, <2>1, <2>2
    <2>3. CASE Writer!CheckWriter \/ Writer!AbortClosed \/ Writer!BeginAbort \/ Writer!JoinAborted
      BY <1>1, <2>1, <2>3
    <2>4. CASE Writer!Join
      BY <1>1, <2>1, <2>4
    <2> QED BY <2>2, <2>3, <2>4
  <1> QED BY <1>2, <1>3, <1>4, <1>5 DEF BoundedInv

(* Putting a batch or the stop object at the end of the queue.                 *)
LEMMA PutLast ==
  ASSUME BoundedInv, ~HoldsStop, NEW b \in Writer!Batch \cup {Stop}, queue' = Append(queue, b),
         Len(queue) < Capacity
  PROVE  /\ queue' \in Seq(Writer!Batch \cup {Stop}) /\ Len(queue') = Len(queue) + 1
         /\ Len(queue') <= Capacity
         /\ \A i \in 1 .. Len(queue) : queue'[i] = queue[i] /\ queue[i] # Stop
         /\ queue'[Len(queue')] = b /\ queue' # <<>>
         /\ \A i \in 1 .. Len(queue') : queue'[i] = Stop => i = Len(queue')
         /\ Len(queue) \in Nat
  <1>1. /\ queue \in Seq(Writer!Batch \cup {Stop}) /\ Len(queue) \in Nat
        /\ \A i \in 1 .. Len(queue) : queue[i] = Stop => i = Len(queue)
    BY DEF BoundedInv, Writer!TypeOK
  <1>2. \A i \in 1 .. Len(queue) : queue[i] # Stop
    BY <1>1 DEF HoldsStop
  <1>3. /\ queue' \in Seq(Writer!Batch \cup {Stop}) /\ Len(queue') = Len(queue) + 1
        /\ \A i \in 1 .. Len(queue) : queue'[i] = queue[i]
        /\ queue'[Len(queue) + 1] = b
    BY <1>1
  <1>4. \A i \in 1 .. Len(queue') : queue'[i] = Stop => i = Len(queue')
    BY <1>1, <1>2, <1>3
  <1> QED BY <1>1, <1>2, <1>3, <1>4, WriterConstants

LEMMA PutsBatch == ASSUME BoundedInv, Writer!PutBatch PROVE BoundedInv'
  <1> USE DEF Writer!PutBatch
  <1>1. /\ UNCHANGED <<handing, finished, aborted, outcome, writer, item, session, written, error, ready>>
        /\ producer = "putting" /\ producer' = "producing" /\ produced' = produced + 1
        /\ handing # Stop
    BY DEF Writer!writerVars
  <1>2. ~HoldsStop /\ ~finished /\ handing = produced + 1 /\ handing \in Writer!Batch
    BY <1>1 DEF BoundedInv, MeetingInv, ProducerInv, Writer!TypeOK
  <1>3. /\ queue' \in Seq(Writer!Batch \cup {Stop}) /\ Len(queue') = Len(queue) + 1
        /\ Len(queue') <= Capacity
        /\ \A i \in 1 .. Len(queue) : queue'[i] = queue[i] /\ queue[i] # Stop
        /\ queue'[Len(queue')] = handing /\ queue' # <<>>
        /\ \A i \in 1 .. Len(queue') : queue'[i] = Stop => i = Len(queue')
        /\ Len(queue) \in Nat
    BY <1>1, <1>2, PutLast
  <1>4. ~HoldsStop'
    BY <1>1, <1>3 DEF HoldsStop
  <1>5. Writer!TypeOK'
    <2>1. produced' \in 0 .. Batches
      BY <1>1, <1>2, WriterConstants DEF Writer!Batch, BoundedInv, Writer!TypeOK
    <2> QED BY <1>1, <1>3, <2>1 DEF BoundedInv, Writer!TypeOK
  <1>6. ProducerInv' /\ WriterInv'
    BY <1>1, <1>2 DEF BoundedInv, ProducerInv, WriterInv
  <1>7. MeetingInv'
    BY <1>1, <1>2, <1>4 DEF BoundedInv, MeetingInv, WriterInv, ProducerInv
  <1>8. FlowInv'
    <2>1. Len(written) \in Nat /\ produced \in Nat /\ Taken \in Nat
      BY WriterConstants DEF BoundedInv, Writer!TypeOK, Taken
    <2>2. Waiting' = Len(queue) + 1 /\ Waiting = Len(queue) /\ Taken' = Taken
      BY <1>1, <1>2, <1>3, <1>4 DEF Waiting, Taken
    <2>3. writer \in {"opening", "getting", "writing"} => produced = Len(written) + Taken + Len(queue)
      BY <2>2 DEF BoundedInv, FlowInv
    <2>4. ASSUME ~error, NEW i \in 1 .. Len(queue'), queue'[i] # Stop
          PROVE  queue'[i] = Len(written) + Taken + i
      <3>1. CASE i \in 1 .. Len(queue)
        BY <1>3, <2>4, <3>1 DEF BoundedInv, FlowInv
      <3>2. CASE i = Len(queue')
        <4>1. writer \in {"opening", "getting", "writing"}
          BY <1>1, <1>2, <2>4 DEF BoundedInv, MeetingInv, WriterInv, Writer!TypeOK
        <4> QED BY <1>2, <1>3, <2>1, <2>3, <3>2, <4>1
      <3> QED BY <1>3, <3>1, <3>2
    <2> QED BY <1>1, <2>1, <2>2, <2>3, <2>4 DEF BoundedInv, FlowInv
  <1> QED BY <1>5, <1>6, <1>7, <1>8 DEF BoundedInv

LEMMA PutsStop == ASSUME BoundedInv, Writer!PutStop \/ Writer!StopWriter PROVE BoundedInv'
  <1> USE DEF Writer!PutStop, Writer!StopWriter
  <1>1. /\ UNCHANGED <<handing, produced, finished, aborted, outcome>>
        /\ UNCHANGED <<writer, item, session, written, error, ready>>
        /\ \/ producer = "putting" /\ handing = Stop /\ producer' = "joining"
           \/ producer = "stopping" /\ producer' = "awaiting"
    BY DEF Writer!writerVars
  <1>2. ~HoldsStop /\ finished
    BY <1>1 DEF BoundedInv, MeetingInv, ProducerInv
  <1>3. ProducerInv' /\ WriterInv'
    BY <1>1, <1>2 DEF BoundedInv, ProducerInv, WriterInv
  <1>4. CASE queue' = queue /\ writer = "over" /\ producer = "stopping"
    <2>1. Writer!TypeOK' /\ FlowInv'
      BY <1>1, <1>4 DEF BoundedInv, Writer!TypeOK, FlowInv, Taken, Waiting, HoldsStop
    <2>2. MeetingInv'
      BY <1>1, <1>2, <1>4 DEF BoundedInv, MeetingInv, HoldsStop, WriterInv, ProducerInv
    <2> QED BY <1>3, <2>1, <2>2 DEF BoundedInv
  <1>5. CASE Len(queue) < Capacity /\ queue' = Append(queue, Stop)
    <2>1. /\ queue' \in Seq(Writer!Batch \cup {Stop}) /\ Len(queue') = Len(queue) + 1
          /\ Len(queue') <= Capacity
          /\ \A i \in 1 .. Len(queue) : queue'[i] = queue[i] /\ queue[i] # Stop
          /\ queue'[Len(queue')] = Stop /\ queue' # <<>>
          /\ \A i \in 1 .. Len(queue') : queue'[i] = Stop => i = Len(queue')
          /\ Len(queue) \in Nat
      BY <1>2, <1>5, PutLast
    <2>2. Writer!TypeOK'
      BY <1>1, <2>1 DEF BoundedInv, Writer!TypeOK
    <2>3. HoldsStop' /\ writer \notin {"finishing", "aborting"}
      BY <1>1, <2>1 DEF HoldsStop, BoundedInv, MeetingInv
    <2>4. MeetingInv'
      BY <1>1, <1>2, <2>3 DEF BoundedInv, MeetingInv, WriterInv, ProducerInv
    <2>5. FlowInv'
      <3>1. Waiting' = Waiting /\ Taken' = Taken
        BY <1>1, <1>2, <2>1, <2>3 DEF Waiting, Taken
      <3>2. ~error => \A i \in 1 .. Len(queue') : queue'[i] # Stop => queue'[i] = Len(written) + Taken + i
        BY <2>1 DEF BoundedInv, FlowInv
      <3> QED BY <1>1, <3>1, <3>2 DEF BoundedInv, FlowInv
    <2> QED BY <1>3, <2>2, <2>4, <2>5 DEF BoundedInv
  <1> QED BY <1>4, <1>5 DEF Writer!Alive

(* What the producer has when the writer takes something.                      *)
LEMMA TakeFirst ==
  ASSUME BoundedInv, queue # <<>>, queue' = Tail(queue)
  PROVE  /\ queue' \in Seq(Writer!Batch \cup {Stop}) /\ Len(queue') = Len(queue) - 1
         /\ Len(queue) \in Nat \ {0} /\ Head(queue) = queue[1]
         /\ \A i \in 1 .. Len(queue') : queue'[i] = queue[i + 1]
         /\ Head(queue) \in Writer!Batch \cup {Stop}
  BY DEF BoundedInv, Writer!TypeOK

LEMMA Takes == ASSUME BoundedInv, Writer!Take PROVE BoundedInv'
  <1> USE DEF Writer!Take
  <1>1. /\ UNCHANGED <<producer, handing, produced, finished, aborted, outcome>>
        /\ UNCHANGED <<session, written, error, ready>>
        /\ writer = "getting" /\ writer' = "writing" /\ item' = Head(queue) /\ Head(queue) # Stop
        /\ queue # <<>> /\ queue' = Tail(queue)
    BY DEF Writer!producerVars
  <1>2. /\ queue' \in Seq(Writer!Batch \cup {Stop}) /\ Len(queue') = Len(queue) - 1
        /\ Len(queue) \in Nat \ {0} /\ Head(queue) = queue[1]
        /\ \A i \in 1 .. Len(queue') : queue'[i] = queue[i + 1]
        /\ Head(queue) \in Writer!Batch \cup {Stop}
    BY <1>1, TakeFirst
  <1>3. Writer!TypeOK /\ ProducerInv /\ WriterInv /\ FlowInv /\ MeetingInv
    BY DEF BoundedInv
  <1>4. HoldsStop' <=> HoldsStop
    <2>1. CASE Len(queue) = 1
      <3>1. ~HoldsStop
        BY <1>1, <1>2, <2>1 DEF HoldsStop
      <3>2. queue' = <<>>
        BY <1>2, <2>1
      <3> QED BY <3>1, <3>2 DEF HoldsStop
    <2>2. CASE Len(queue) > 1
      <3>1. Len(queue') \in 1 .. Len(queue') /\ Len(queue') + 1 = Len(queue)
        BY <1>2, <2>2
      <3>2. queue'[Len(queue')] = queue[Len(queue)]
        BY <1>2, <3>1
      <3>3. queue' # <<>>
        BY <3>1
      <3> QED BY <1>1, <3>2, <3>3 DEF HoldsStop
    <2> QED BY <1>2, <2>1, <2>2
  <1>5. Writer!TypeOK'
    <2>1. Len(queue') <= Capacity
      <3>1. Len(queue) <= Capacity
        BY <1>3 DEF Writer!TypeOK
      <3> QED BY <1>2, <3>1, WriterConstants
    <2>2. ASSUME NEW i \in 1 .. Len(queue'), queue'[i] = Stop PROVE i = Len(queue')
      <3>1. i \in Nat /\ i + 1 \in 1 .. Len(queue) /\ queue[i + 1] = Stop
        BY <1>2, <2>2
      <3>2. i + 1 = Len(queue)
        BY <1>3, <3>1 DEF Writer!TypeOK
      <3>3. \A n \in Nat : i + 1 = n => i = n - 1
        BY <3>1
      <3>4. Len(queue) \in Nat /\ Len(queue') = Len(queue) - 1
        BY <1>2
      <3> QED BY <3>2, <3>3, <3>4
    <2>3. writer' = "writing" /\ item' \in Writer!Batch \cup {Stop} /\ queue' \in Seq(Writer!Batch \cup {Stop})
      BY <1>1, <1>2
    <2> QED BY <1>1, <1>3, <2>1, <2>2, <2>3 DEF Writer!TypeOK
  <1>6. ProducerInv' /\ WriterInv' /\ MeetingInv'
    BY <1>1, <1>3, <1>4 DEF ProducerInv, WriterInv, MeetingInv
  <1>7. FlowInv'
    <2>1. Len(written) \in Nat /\ produced \in Nat /\ ~error /\ Taken = 0 /\ Taken' = 1
      BY <1>1, <1>3 DEF Writer!TypeOK, Taken, WriterInv
    <2>2. Waiting' = Waiting - 1 /\ Waiting \in Int
      BY <1>1, <1>2, <1>4 DEF Waiting
    <2>3. item' = Len(written) + 1
      BY <1>1, <1>2, <1>3, <2>1 DEF FlowInv
    <2>4. \A i \in 1 .. Len(queue') : queue'[i] # Stop => queue'[i] = Len(written) + 1 + i
      <3> SUFFICES ASSUME NEW i \in 1 .. Len(queue'), queue'[i] # Stop
                   PROVE  queue'[i] = Len(written) + 1 + i
        OBVIOUS
      <3>1. i \in Nat /\ i + 1 \in 1 .. Len(queue) /\ queue'[i] = queue[i + 1]
        BY <1>2
      <3>2. queue[i + 1] = Len(written) + Taken + (i + 1)
        BY <1>3, <2>1, <3>1 DEF FlowInv
      <3> QED BY <2>1, <3>1, <3>2
    <2>5. produced = Len(written) + 1 + Waiting'
      BY <1>1, <1>3, <2>1, <2>2 DEF FlowInv
    <2> QED BY <1>1, <1>3, <2>1, <2>3, <2>4, <2>5 DEF FlowInv
  <1> QED BY <1>5, <1>6, <1>7 DEF BoundedInv

LEMMA TakesStop == ASSUME BoundedInv, Writer!TakeStop PROVE BoundedInv'
  <1> USE DEF Writer!TakeStop
  <1>1. /\ UNCHANGED <<producer, handing, produced, finished, aborted, outcome>>
        /\ UNCHANGED <<item, session, written, error, ready>>
        /\ writer = "getting" /\ writer' = (IF aborted THEN "aborting" ELSE "finishing")
        /\ queue # <<>> /\ queue' = Tail(queue) /\ Head(queue) = Stop
    BY DEF Writer!producerVars
  <1>2. /\ queue' \in Seq(Writer!Batch \cup {Stop}) /\ Len(queue') = Len(queue) - 1
        /\ Len(queue) \in Nat \ {0} /\ Head(queue) = queue[1]
    BY <1>1, TakeFirst
  <1>3. Writer!TypeOK /\ ProducerInv /\ WriterInv /\ FlowInv /\ MeetingInv
    BY DEF BoundedInv
  <1>4. Len(queue) = 1 /\ queue' = <<>> /\ Len(queue') = 0
    <2>1. 1 \in 1 .. Len(queue) /\ queue[1] = Stop
      BY <1>1, <1>2
    <2>2. Len(queue) = 1
      BY <1>3, <2>1 DEF Writer!TypeOK
    <2>3. Len(queue') = 0
      BY <1>2, <2>2
    <2> QED BY <1>2, <2>2, <2>3
  <1>4a. 1 .. Len(queue') = {}
    BY <1>4
  <1>5. HoldsStop /\ ~HoldsStop' /\ Waiting = 0
    BY <1>1, <1>2, <1>4 DEF HoldsStop, Waiting
  <1>6. producer = IF aborted THEN "awaiting" ELSE "joining"
    BY <1>1, <1>3, <1>5 DEF MeetingInv, ProducerInv
  <1>7. produced = Len(written)
    BY <1>1, <1>3, <1>5 DEF FlowInv, Taken, Writer!TypeOK
  <1>8. Writer!TypeOK'
    <2>1. Len(queue') <= Capacity
      BY <1>4, WriterConstants
    <2>2. \A i \in 1 .. Len(queue') : queue'[i] = Stop => i = Len(queue')
      BY <1>4a, Zenon
    <2>3. writer' \in {"getting", "finishing", "aborting"} /\ queue' \in Seq(Writer!Batch \cup {Stop})
      BY <1>1, <1>2
    <2> QED BY <1>1, <1>3, <2>1, <2>2, <2>3 DEF Writer!TypeOK
  <1>9. ProducerInv' /\ WriterInv'
    BY <1>1, <1>3 DEF ProducerInv, WriterInv
  <1>10. FlowInv'
    <2>1. \A i \in 1 .. Len(queue') : queue'[i] # Stop => queue'[i] = Len(written') + Taken' + i
      BY <1>4a, Zenon
    <2> QED BY <1>1, <1>3, <2>1 DEF FlowInv
  <1>11. MeetingInv'
    BY <1>1, <1>3, <1>4, <1>5, <1>6, <1>7 DEF MeetingInv, ProducerInv, WriterInv
  <1> QED BY <1>8, <1>9, <1>10, <1>11 DEF BoundedInv

LEMMA Writes == ASSUME BoundedInv, Writer!Write PROVE BoundedInv'
  <1> USE DEF Writer!Write
  <1>1. /\ UNCHANGED <<producer, handing, produced, finished, aborted, outcome>>
        /\ UNCHANGED <<queue, item, session, error, ready>>
        /\ writer = "writing" /\ writer' = "getting" /\ written' = Append(written, item)
    BY DEF Writer!producerVars
  <1>2. Writer!TypeOK /\ ProducerInv /\ WriterInv /\ FlowInv /\ MeetingInv
    BY DEF BoundedInv
  <1>3. Len(written) \in Nat /\ item = Len(written) + 1 /\ ~error /\ item \in Writer!Batch
    <2>1. Len(written) \in Nat /\ item = Len(written) + 1 /\ ~error
      BY <1>1, <1>2 DEF Writer!TypeOK, WriterInv, FlowInv
    <2>2. produced \in 0 .. Batches /\ Len(queue) \in Nat
      BY <1>2 DEF Writer!TypeOK
    <2>3. Waiting \in Nat
      <3>1. HoldsStop => Len(queue) # 0
        BY <1>2 DEF HoldsStop, Writer!TypeOK
      <3> QED BY <2>2, <3>1 DEF Waiting
    <2>4. produced = Len(written) + 1 + Waiting
      BY <1>1, <1>2 DEF FlowInv, Taken
    <2> QED BY <2>1, <2>2, <2>3, <2>4, WriterConstants DEF Writer!Batch
  <1>4. /\ written' \in Seq(Writer!Batch) /\ Len(written') = Len(written) + 1
        /\ \A i \in 1 .. Len(written) : written'[i] = written[i]
        /\ written'[Len(written) + 1] = item
    BY <1>1, <1>2, <1>3 DEF Writer!TypeOK
  <1>5. Writer!TypeOK'
    BY <1>1, <1>2, <1>4 DEF Writer!TypeOK
  <1>6. (HoldsStop' <=> HoldsStop) /\ Waiting' = Waiting
    BY <1>1 DEF HoldsStop, Waiting
  <1>7. ProducerInv' /\ WriterInv' /\ MeetingInv'
    BY <1>1, <1>2, <1>6 DEF ProducerInv, WriterInv, MeetingInv
  <1>8. FlowInv'
    <2>1. \A i \in 1 .. Len(written') : written'[i] = i
      BY <1>2, <1>3, <1>4 DEF FlowInv
    <2>2. Len(written') + Taken' = Len(written) + Taken
      BY <1>1, <1>3, <1>4 DEF Taken
    <2> QED BY <1>1, <1>2, <1>6, <2>1, <2>2 DEF FlowInv
  <1> QED BY <1>5, <1>7, <1>8 DEF BoundedInv

(* The writer's steps that leave the queue and what is written alone.          *)
LEMMA WriterMoves ==
  ASSUME BoundedInv,
         \/ Writer!Open \/ Writer!FinishSession \/ Writer!AbortSession \/ Writer!WriterFails
         \/ Writer!CleanUp
  PROVE  BoundedInv'
  <1> USE DEF Writer!Open, Writer!FinishSession, Writer!AbortSession, Writer!WriterFails, Writer!CleanUp
  <1>1. /\ UNCHANGED <<producer, handing, produced, finished, aborted, outcome>>
        /\ UNCHANGED <<queue, item, written>>
    BY DEF Writer!producerVars
  <1>2. Writer!TypeOK /\ ProducerInv /\ WriterInv /\ FlowInv /\ MeetingInv
    BY DEF BoundedInv
  <1>3. (HoldsStop' <=> HoldsStop) /\ Waiting' = Waiting
    BY <1>1 DEF HoldsStop, Waiting
  <1>4. Writer!TypeOK'
    <2>1. /\ writer' \in {"opening", "getting", "writing", "finishing", "aborting", "cleaning", "over"}
          /\ session' \in {"none", "open", "finished", "aborted"}
          /\ error' \in BOOLEAN /\ ready' \in BOOLEAN
      BY <1>2 DEF Writer!TypeOK
    <2> QED BY <1>1, <1>2, <2>1 DEF Writer!TypeOK
  <1>5. ProducerInv' /\ WriterInv'
    BY <1>1, <1>2 DEF ProducerInv, WriterInv
  <1>6. FlowInv'
    BY <1>1, <1>2, <1>3 DEF FlowInv, Taken
  <1>7. MeetingInv'
    BY <1>1, <1>2, <1>3 DEF MeetingInv, WriterInv, ProducerInv
  <1> QED BY <1>4, <1>5, <1>6, <1>7 DEF BoundedInv

LEMMA BoundedStep == ASSUME BoundedInv, Writer!Next PROVE BoundedInv'
  BY ProducerMoves, PutsBatch, PutsStop, Takes, TakesStop, Writes, WriterMoves
     DEF Writer!Next, Writer!ProducerNext, Writer!WriterNext

LEMMA BoundedStutter == ASSUME BoundedInv, UNCHANGED writerVars PROVE BoundedInv'
  <1>1. /\ UNCHANGED <<producer, handing, produced, finished, aborted, outcome>>
        /\ UNCHANGED <<queue, writer, item, session, written, error, ready>>
    BY DEF writerVars
  <1>2. Writer!TypeOK'
    BY <1>1 DEF BoundedInv, Writer!TypeOK
  <1>3. FlowInv' /\ WriterInv'
    BY <1>1 DEF BoundedInv, FlowInv, WriterInv, HoldsStop, Taken, Waiting
  <1>4. ProducerInv' /\ MeetingInv'
    BY <1>1 DEF BoundedInv, ProducerInv, MeetingInv, HoldsStop
  <1> QED BY <1>2, <1>3, <1>4 DEF BoundedInv

\* What was written is what was sent, if as much was.
LEMMA AllSent ==
  ASSUME BoundedInv, produced = Len(written)
  PROVE  written = Writer!Sent
  <1>1. written \in Seq(Writer!Batch) /\ \A i \in 1 .. Len(written) : written[i] = i
    BY DEF BoundedInv, Writer!TypeOK, FlowInv
  <1>2. written = [i \in 1 .. Len(written) |-> written[i]]
    BY <1>1
  <1> QED BY <1>1, <1>2 DEF Writer!Sent

\* A caller of the bounded writer that gets a result gets everything it submitted, in order and
\* completed; a session that was given up or failed is never completed; and nothing is written
\* behind the caller's back: for any capacity and any number of batches, whatever fails (finish,
\* abort, _run).
THEOREM WritersAreWhole == WorkersSpec => []WholeOrNothing
  <1>1. WorkersInit => BoundedInv
    BY BoundedInit DEF WorkersInit
  <1>2. BoundedInv /\ [WorkersNext]_workersVars => BoundedInv'
    BY BoundedStep, BoundedStutter
       DEF WorkersNext, workersVars, OfTasks, OfWriter, OfNative, OfDataset
  <1>3. BoundedInv => WholeOrNothing
    <2> SUFFICES ASSUME BoundedInv PROVE WholeOrNothing
      OBVIOUS
    <2>1. Writer!ResultIsWhole
      BY AllSent DEF BoundedInv, MeetingInv, WriterInv, Writer!ResultIsWhole
    <2>2. Writer!CompletedIsWhole
      BY AllSent DEF BoundedInv, MeetingInv, Writer!CompletedIsWhole
    <2>3. Writer!NothingBehind
      BY DEF BoundedInv, MeetingInv, ProducerInv, WriterInv, Writer!NothingBehind
    <2> QED BY <2>1, <2>2, <2>3 DEF BoundedInv, WholeOrNothing
  <1> QED BY <1>1, <1>2, <1>3, PTL DEF WorkersSpec
=============================================================================
