-------------------------- MODULE SQSSourceProofs --------------------------
(***************************************************************************)
(* Proofs about the two sources that settle messages with a queue, for any *)
(* messages.  SQS, with any numbers of goroutines, channel capacities and  *)
(* batch sizes: no message is deleted before its events are delivered, no  *)
(* delete buffer overflows, the source implements AtLeastOnce, and its     *)
(* goroutines return with empty hands.  Service Bus, with any consumers    *)
(* and locks: the types, the capacity of errChan, the same promise, one    *)
(* holder for each lock, and an end that leaves no message in hand.        *)
(***************************************************************************)
EXTENDS SQSSource, FiniteSetTheorems, TLAPS

\* The sink acknowledged every event of message m.
Delivered(m) == EventsOf(m) \subseteq acked[m]

\* A processor has sent the events of its message before the next one.
ProcessorInv ==
    \A p \in Processors :
        /\ current[p] = None => next[p] = 1
        /\ current[p] # None =>
              /\ next[p] \in 1..(NumEvents[current[p].id] + 1)
              /\ 1..(next[p] - 1) \subseteq acked[current[p].id]

\* Whatever is on its way to deletion was delivered.
QueueInv  == \A i \in 1..Len(deleteQueue) : Delivered(deleteQueue[i].id)
BufferInv == \A d \in Deleters : \A m \in Messages : buffer[d][m] # None => Delivered(m)
DeleteInv == \A m \in Messages : inSQS[m] = "deleted" => Delivered(m)

\* The sink only acknowledges events of the message.
AckInv == \A m \in Messages : acked[m] \subseteq EventsOf(m)

\* The inductive invariant.
Inv == /\ TypeOK
       /\ ProcessorInv
       /\ QueueInv
       /\ BufferInv
       /\ DeleteInv
       /\ AckInv

USE SizesAssumption, MessagesAssumption

\* A new messageDeleteBuffer is empty.
LEMMA EmptyBufferType ==
    /\ EmptyBuffer \in [Messages -> Handles \cup {None}]
    /\ \A m \in Messages : EmptyBuffer[m] = None
BY DEF EmptyBuffer

\* The invariant holds before anything was received.
LEMMA InvInit == Init => Inv
<1> SUFFICES ASSUME Init PROVE Inv
    OBVIOUS
<1>1. TypeOK
  <2>1. /\ processQueue \in Seq(Copies) /\ Len(processQueue) <= ProcessCap
        /\ deleteQueue \in Seq(Copies) /\ Len(deleteQueue) <= DeleteCap
        /\ batch \in [Receivers -> SUBSET Copies]
    BY DEF Init
  <2>2. buffer \in [Deleters -> [Messages -> Handles \cup {None}]]
    BY EmptyBufferType DEF Init
  <2> QED
    BY <2>1, <2>2 DEF Init, TypeOK
<1>2. ProcessorInv /\ QueueInv /\ DeleteInv /\ AckInv
    BY DEF Init, ProcessorInv, QueueInv, DeleteInv, AckInv
<1>3. BufferInv
    BY EmptyBufferType DEF Init, BufferInv
<1> QED
    BY <1>1, <1>2, <1>3 DEF Inv

\* Every step of a receiver, processor or deleter, a shutdown, a restart and a
\* visibility timeout preserve the invariant.
LEMMA InvNext == Inv /\ [Next]_vars => Inv'
<1> SUFFICES ASSUME Inv, [Next]_vars PROVE Inv'
    OBVIOUS
<1> USE DEF Inv
<1>1. ASSUME NEW c \in Receivers, Receive(c) PROVE Inv'
  <2> USE <1>1 DEF Receive, sqsVars
  <2>1. TypeOK'
    <3> DEFINE Ready == {m \in Messages : inSQS[m] = "visible" /\ Held(m) # Handles}
               Received(S, h, ok) ==
                 /\ S # {} /\ Cardinality(S) <= ReceiveBatch
                 /\ \A m \in S : h[m] \notin Held(m)
                 /\ ok => ~cancelled
                 /\ inSQS' = [m \in Messages |-> IF m \in S THEN "inflight" ELSE inSQS[m]]
                 /\ receipt' = [m \in Messages |-> IF m \in S THEN h[m] ELSE receipt[m]]
                 /\ batch' = [batch EXCEPT
                        ![c] = IF ok THEN {[id |-> m, handle |-> h[m]] : m \in S} ELSE {}]
    <3>0. \E S \in SUBSET Ready : \E h \in [S -> Handles], ok \in BOOLEAN : Received(S, h, ok)
      BY <1>1 DEF Receive
    <3> HIDE DEF Received
    <3>p. PICK S \in SUBSET Ready : \E h \in [S -> Handles], ok \in BOOLEAN : Received(S, h, ok)
      BY <3>0
    <3>1. PICK h \in [S -> Handles], ok \in BOOLEAN : Received(S, h, ok)
      BY <3>p
    <3>s. S \subseteq Messages
      OBVIOUS
    <3> USE DEF Received
    <3>2. {[id |-> m, handle |-> h[m]] : m \in S} \subseteq Copies
      BY <3>s DEF Copies
    <3>3. batch' \in [Receivers -> SUBSET Copies]
      BY <3>1, <3>2 DEF TypeOK
    <3>4. /\ inSQS' \in [Messages -> {"visible", "inflight", "deleted"}]
          /\ receipt' \in [Messages -> Handles \cup {None}]
      BY <3>1, <3>s DEF TypeOK
    <3> QED
      BY <3>3, <3>4 DEF TypeOK
  <2>2. ProcessorInv'
    BY DEF TypeOK, Copies, ProcessorInv
  <2>3. QueueInv'
    BY DEF TypeOK, Copies, QueueInv, Delivered
  <2>4. BufferInv'
    BY EmptyBufferType DEF TypeOK, BufferInv, Delivered
  <2>5. DeleteInv'
    BY DEF TypeOK, DeleteInv, Delivered
  <2>6. AckInv'
    BY DEF TypeOK, AckInv
  <2> QED
    BY <2>1, <2>2, <2>3, <2>4, <2>5, <2>6
<1>2. ASSUME NEW c \in Receivers, EnqueueProcess(c) PROVE Inv'
  <2> USE <1>2 DEF EnqueueProcess, sqsVars
  <2>1. TypeOK'
    BY EmptyBufferType DEF TypeOK, Routines
  <2>2. ProcessorInv'
    BY DEF TypeOK, Copies, ProcessorInv
  <2>3. QueueInv'
    BY DEF TypeOK, Copies, QueueInv, Delivered
  <2>4. BufferInv'
    BY EmptyBufferType DEF TypeOK, BufferInv, Delivered
  <2>5. DeleteInv'
    BY DEF TypeOK, DeleteInv, Delivered
  <2>6. AckInv'
    BY DEF TypeOK, AckInv
  <2> QED
    BY <2>1, <2>2, <2>3, <2>4, <2>5, <2>6
<1>3. ASSUME NEW c \in Receivers, ReceiverExits(c) PROVE Inv'
  <2> USE <1>3 DEF ReceiverExits, sqsVars
  <2>1. TypeOK'
    BY EmptyBufferType DEF TypeOK, Routines
  <2>2. ProcessorInv'
    BY DEF TypeOK, Copies, ProcessorInv
  <2>3. QueueInv'
    BY DEF TypeOK, Copies, QueueInv, Delivered
  <2>4. BufferInv'
    BY EmptyBufferType DEF TypeOK, BufferInv, Delivered
  <2>5. DeleteInv'
    BY DEF TypeOK, DeleteInv, Delivered
  <2>6. AckInv'
    BY DEF TypeOK, AckInv
  <2> QED
    BY <2>1, <2>2, <2>3, <2>4, <2>5, <2>6
<1>4. ASSUME NEW p \in Processors, Process(p) PROVE Inv'
  <2> USE <1>4 DEF Process, Idle, sqsVars
  <2>0. PICK k \in {Head(processQueue), None} : current' = [current EXCEPT ![p] = k]
    OBVIOUS
  <2>h. Head(processQueue) \in Copies /\ Tail(processQueue) \in Seq(Copies)
        /\ Len(Tail(processQueue)) <= ProcessCap
    BY DEF TypeOK
  <2>1. TypeOK'
    BY <2>0, <2>h DEF TypeOK
  <2>2. ProcessorInv'
    BY <2>0, <2>h DEF TypeOK, Copies, ProcessorInv
  <2>3. QueueInv'
    BY DEF TypeOK, Copies, QueueInv, Delivered
  <2>4. BufferInv'
    BY EmptyBufferType DEF TypeOK, BufferInv, Delivered
  <2>5. DeleteInv'
    BY DEF TypeOK, DeleteInv, Delivered
  <2>6. AckInv'
    BY DEF TypeOK, AckInv
  <2> QED
    BY <2>1, <2>2, <2>3, <2>4, <2>5, <2>6
<1>5. ASSUME NEW p \in Processors, SendEvent(p) PROVE Inv'
  <2> DEFINE m == current[p].id
  <2>0. /\ current[p] \in Copies /\ m \in Messages
        /\ next[p] \in 1..NumEvents[m] /\ next[p] \in EventsOf(m)
    BY <1>5 DEF SendEvent, TypeOK, Copies, ProcessorInv, EventsOf
  <2>1. CASE /\ acked' = [acked EXCEPT ![m] = @ \cup {next[p]}]
             /\ next' = [next EXCEPT ![p] = @ + 1]
             /\ UNCHANGED current
    <3>0. UNCHANGED <<cancelled, inSQS, receipt, batch, processQueue, deleteQueue, buffer, exited>>
      BY <1>5 DEF SendEvent, sqsVars
    <3> HIDE DEF m
    <3>1. \A x \in Messages : acked[x] \subseteq acked'[x]
      BY <2>0, <2>1 DEF TypeOK
    <3>2. \A x \in Messages : Delivered(x) => Delivered(x)'
      BY <3>1 DEF Delivered
    <3>3. TypeOK'
      BY <2>0, <2>1, <3>0 DEF TypeOK
    <3>4. ProcessorInv'
      <4> SUFFICES ASSUME NEW q \in Processors
                   PROVE  /\ current[q] = None => next'[q] = 1
                          /\ current[q] # None =>
                               /\ next'[q] \in 1..(NumEvents[current[q].id] + 1)
                               /\ 1..(next'[q] - 1) \subseteq acked'[current[q].id]
        BY <2>1 DEF ProcessorInv
      <4>1. CASE q # p
        BY <2>1, <3>1, <4>1 DEF ProcessorInv, TypeOK, Copies
      <4>2. CASE q = p
        <5>1. next'[p] = next[p] + 1 /\ acked'[m] = acked[m] \cup {next[p]}
          BY <2>0, <2>1 DEF TypeOK
        <5>2. current[p] # None /\ 1..(next[p] - 1) \subseteq acked[m]
          BY <1>5 DEF SendEvent, ProcessorInv, m
        <5>3. 1..next[p] \subseteq acked'[m]
          BY <2>0, <5>1, <5>2
        <5> QED
          BY <2>0, <4>2, <5>1, <5>2, <5>3 DEF m
      <4> QED
        BY <4>1, <4>2
    <3>5. QueueInv'
      <4>0. \A i \in 1..Len(deleteQueue) : deleteQueue[i] \in Copies
        BY DEF TypeOK
      <4>1. \A i \in 1..Len(deleteQueue) : deleteQueue[i].id \in Messages
        BY <4>0 DEF Copies
      <4>2. \A i \in 1..Len(deleteQueue) : EventsOf(deleteQueue[i].id) \subseteq acked'[deleteQueue[i].id]
        BY <3>1, <4>1 DEF QueueInv, Delivered
      <4> QED
        BY <3>0, <4>2 DEF QueueInv, Delivered
    <3>6. BufferInv' /\ DeleteInv'
      BY <3>0, <3>2 DEF BufferInv, DeleteInv
    <3>7. AckInv'
      BY <2>0, <2>1 DEF AckInv, TypeOK, EventsOf
    <3> QED
      BY <3>3, <3>4, <3>5, <3>6, <3>7
  <2>2. CASE /\ current' = [current EXCEPT ![p] = None]
             /\ next' = [next EXCEPT ![p] = 1]
             /\ UNCHANGED acked
    <3>0. UNCHANGED <<cancelled, inSQS, receipt, batch, processQueue, deleteQueue, buffer, exited>>
      BY <1>5 DEF SendEvent, sqsVars
    <3>1. TypeOK'
      BY <2>2, <3>0 DEF TypeOK
    <3>2. ProcessorInv'
      BY <2>2 DEF ProcessorInv, TypeOK
    <3>3. QueueInv' /\ BufferInv' /\ DeleteInv' /\ AckInv'
      BY <2>2, <3>0 DEF QueueInv, BufferInv, DeleteInv, AckInv, Delivered
    <3> QED
      BY <3>1, <3>2, <3>3
  <2> QED
    BY <1>5, <2>1, <2>2 DEF SendEvent
<1>6. ASSUME NEW p \in Processors, EnqueueDelete(p) PROVE Inv'
  <2> USE <1>6 DEF EnqueueDelete, sqsVars
  <2>1. TypeOK'
    BY EmptyBufferType DEF TypeOK, Routines
  <2>2. ProcessorInv'
    BY DEF TypeOK, Copies, ProcessorInv
  <2>3. QueueInv'
    BY DEF TypeOK, Copies, QueueInv, Delivered, ProcessorInv, EventsOf
  <2>4. BufferInv'
    BY EmptyBufferType DEF TypeOK, BufferInv, Delivered
  <2>5. DeleteInv'
    BY DEF TypeOK, DeleteInv, Delivered
  <2>6. AckInv'
    BY DEF TypeOK, AckInv
  <2> QED
    BY <2>1, <2>2, <2>3, <2>4, <2>5, <2>6
<1>7. ASSUME NEW p \in Processors, ProcessorExits(p) PROVE Inv'
  <2> USE <1>7 DEF ProcessorExits, Idle, sqsVars
  <2>1. TypeOK'
    BY EmptyBufferType DEF TypeOK, Routines
  <2>2. ProcessorInv'
    BY DEF TypeOK, Copies, ProcessorInv
  <2>3. QueueInv'
    BY DEF TypeOK, Copies, QueueInv, Delivered
  <2>4. BufferInv'
    BY EmptyBufferType DEF TypeOK, BufferInv, Delivered
  <2>5. DeleteInv'
    BY DEF TypeOK, DeleteInv, Delivered
  <2>6. AckInv'
    BY DEF TypeOK, AckInv
  <2> QED
    BY <2>1, <2>2, <2>3, <2>4, <2>5, <2>6
<1>8. ASSUME NEW d \in Deleters, Collect(d) PROVE Inv'
  <2> DEFINE k   == Head(deleteQueue)
             buf == [buffer[d] EXCEPT ![k.id] = k.handle]
  <2>0. /\ deleteQueue # <<>> /\ deleteQueue' = Tail(deleteQueue)
        /\ UNCHANGED <<cancelled, receipt, batch, processQueue, current, next, exited, acked>>
    BY <1>8 DEF Collect
  <2>1. /\ k \in Copies /\ k = deleteQueue[1]
        /\ deleteQueue' \in Seq(Copies) /\ Len(deleteQueue') = Len(deleteQueue) - 1
        /\ \A i \in 1..Len(deleteQueue') : deleteQueue'[i] = deleteQueue[i + 1]
    BY <2>0 DEF TypeOK
  <2>2. k.id \in Messages /\ k.handle \in Handles /\ Delivered(k.id)
    BY <2>0, <2>1 DEF QueueInv, Copies, TypeOK
  <2>3. /\ buf \in [Messages -> Handles \cup {None}]
        /\ \A m \in Messages : buf[m] # None => Delivered(m)
    BY <2>2 DEF TypeOK, BufferInv
  <2>4. QueueInv'
    <3>1. \A i \in 1..Len(deleteQueue') : i + 1 \in 1..Len(deleteQueue)
      BY <2>0, <2>1 DEF TypeOK
    <3> QED
      BY <2>0, <2>1, <3>1 DEF QueueInv, Delivered
  <2>5. /\ inSQS' \in [Messages -> {"visible", "inflight", "deleted"}]
        /\ DeleteInv'
    <3>1. CASE UNCHANGED inSQS
      BY <2>0, <3>1 DEF DeleteInv, Delivered, TypeOK
    <3>2. CASE deleteMessages(buf)
      <4> HIDE DEF buf
      <4> QED
        BY <2>0, <2>3, <3>2 DEF deleteMessages, Buffered, DeleteInv, Delivered, TypeOK
    <3> QED
      BY <1>8, <3>1, <3>2 DEF Collect
  <2>6. /\ buffer' \in [Deleters -> [Messages -> Handles \cup {None}]]
        /\ BufferInv'
    <3>1. CASE buffer' = [buffer EXCEPT ![d] = EmptyBuffer]
      BY <2>0, <3>1, EmptyBufferType DEF BufferInv, Delivered, TypeOK
    <3>2. CASE buffer' = [buffer EXCEPT ![d] = buf]
      <4> HIDE DEF buf
      <4> QED
        BY <2>0, <2>3, <3>2 DEF BufferInv, Delivered, TypeOK
    <3> QED
      BY <1>8, <3>1, <3>2 DEF Collect
  <2>7. TypeOK'
    BY <2>0, <2>1, <2>5, <2>6 DEF TypeOK
  <2>8. ProcessorInv' /\ AckInv'
    BY <2>0 DEF ProcessorInv, AckInv
  <2> QED
    BY <2>4, <2>5, <2>6, <2>7, <2>8
<1>9. ASSUME NEW d \in Deleters, Flush(d) PROVE Inv'
  <2> USE <1>9 DEF Flush, handleDeletion, deleteMessages, Buffered, sqsVars
  <2>1. TypeOK'
    BY EmptyBufferType DEF TypeOK, Routines
  <2>2. ProcessorInv'
    BY DEF TypeOK, Copies, ProcessorInv
  <2>3. QueueInv'
    BY DEF TypeOK, Copies, QueueInv, Delivered
  <2>4. BufferInv'
    BY EmptyBufferType DEF TypeOK, BufferInv, Delivered
  <2>5. DeleteInv'
    BY DEF TypeOK, DeleteInv, Delivered, BufferInv
  <2>6. AckInv'
    BY DEF TypeOK, AckInv
  <2> QED
    BY <2>1, <2>2, <2>3, <2>4, <2>5, <2>6
<1>10. ASSUME NEW d \in Deleters, DeleterExits(d) PROVE Inv'
  <2> USE <1>10 DEF DeleterExits, handleDeletion, deleteMessages, Buffered, sqsVars
  <2>1. TypeOK'
    BY EmptyBufferType DEF TypeOK, Routines
  <2>2. ProcessorInv'
    BY DEF TypeOK, Copies, ProcessorInv
  <2>3. QueueInv'
    BY DEF TypeOK, Copies, QueueInv, Delivered
  <2>4. BufferInv'
    BY EmptyBufferType DEF TypeOK, BufferInv, Delivered
  <2>5. DeleteInv'
    BY DEF TypeOK, DeleteInv, Delivered, BufferInv
  <2>6. AckInv'
    BY DEF TypeOK, AckInv
  <2> QED
    BY <2>1, <2>2, <2>3, <2>4, <2>5, <2>6
<1>11. ASSUME NEW m \in Messages, VisibilityTimeout(m) PROVE Inv'
  <2> USE <1>11 DEF VisibilityTimeout, sqsVars
  <2>1. TypeOK'
    BY EmptyBufferType DEF TypeOK, Routines
  <2>2. ProcessorInv'
    BY DEF TypeOK, Copies, ProcessorInv
  <2>3. QueueInv'
    BY DEF TypeOK, Copies, QueueInv, Delivered
  <2>4. BufferInv'
    BY EmptyBufferType DEF TypeOK, BufferInv, Delivered
  <2>5. DeleteInv'
    BY DEF TypeOK, DeleteInv, Delivered
  <2>6. AckInv'
    BY DEF TypeOK, AckInv
  <2> QED
    BY <2>1, <2>2, <2>3, <2>4, <2>5, <2>6
<1>12. CASE Cancel
  <2> USE <1>12 DEF Cancel, sqsVars
  <2>1. TypeOK'
    BY EmptyBufferType DEF TypeOK, Routines
  <2>2. ProcessorInv'
    BY DEF TypeOK, Copies, ProcessorInv
  <2>3. QueueInv'
    BY DEF TypeOK, Copies, QueueInv, Delivered
  <2>4. BufferInv'
    BY EmptyBufferType DEF TypeOK, BufferInv, Delivered
  <2>5. DeleteInv'
    BY DEF TypeOK, DeleteInv, Delivered
  <2>6. AckInv'
    BY DEF TypeOK, AckInv
  <2> QED
    BY <2>1, <2>2, <2>3, <2>4, <2>5, <2>6
<1>13. CASE Restart
  <2> USE <1>13 DEF Restart, sqsVars
  <2>1. TypeOK'
    <3>1. /\ processQueue' \in Seq(Copies) /\ Len(processQueue') <= ProcessCap
          /\ deleteQueue' \in Seq(Copies) /\ Len(deleteQueue') <= DeleteCap
          /\ batch' \in [Receivers -> SUBSET Copies]
      OBVIOUS
    <3>2. buffer' \in [Deleters -> [Messages -> Handles \cup {None}]]
      BY EmptyBufferType
    <3> QED
      BY <3>1, <3>2 DEF TypeOK
  <2>2. ProcessorInv'
    BY DEF TypeOK, Copies, ProcessorInv
  <2>3. QueueInv'
    BY DEF TypeOK, Copies, QueueInv, Delivered
  <2>4. BufferInv'
    BY EmptyBufferType DEF TypeOK, BufferInv, Delivered
  <2>5. DeleteInv'
    BY DEF TypeOK, DeleteInv, Delivered
  <2>6. AckInv'
    BY DEF TypeOK, AckInv
  <2> QED
    BY <2>1, <2>2, <2>3, <2>4, <2>5, <2>6
<1>14. CASE UNCHANGED vars
  BY <1>14 DEF vars, sqsVars, TypeOK, ProcessorInv, QueueInv, BufferInv, DeleteInv, AckInv,
            Delivered
<1> QED
  BY <1>1, <1>2, <1>3, <1>4, <1>5, <1>6, <1>7, <1>8, <1>9, <1>10, <1>11, <1>12, <1>13, <1>14 DEF Next

\* The inductive invariant holds in every reachable state.
THEOREM Invariance == Spec => []Inv
BY InvInit, InvNext, PTL DEF Spec

\* Every variable keeps its type and the channels stay within their capacities.
THEOREM TypeCorrect == Spec => []TypeOK
<1>1. Inv => TypeOK
    BY DEF Inv
<1> QED
    BY <1>1, Invariance, PTL

\* No message is deleted from SQS before the sink acknowledged all its events, for
\* any number of receivers, processors and deleters.
THEOREM DeletedOnlyIfDelivered == Spec => []DeletedWasDelivered
<1>1. Inv => DeletedWasDelivered
    BY DEF Inv, DeleteInv, AckInv, Delivered, DeletedWasDelivered
<1> QED
    BY <1>1, Invariance, PTL

----------------------------------------------------------------------------
(* The size of the deletion batches. *)

\* A buffer holds finitely many messages, and room for one more.
RoomInv ==
    \A d \in Deleters :
        /\ IsFiniteSet(Buffered(buffer[d]))
        /\ Cardinality(Buffered(buffer[d])) < DeleteBatch

\* An empty buffer has room, whatever the size of a batch.
LEMMA EmptyBufferHasRoom ==
    /\ IsFiniteSet(Buffered(EmptyBuffer))
    /\ Cardinality(Buffered(EmptyBuffer)) < DeleteBatch
<1>1. Buffered(EmptyBuffer) = {}
    BY DEF Buffered, EmptyBuffer
<1> QED
    BY <1>1, FS_EmptySet

\* A message added to a buffer, or replaced in it, fills the batch at most.
LEMMA AddToBuffer ==
    ASSUME NEW b \in [Messages -> Handles \cup {None}],
           NEW m \in Messages, NEW h \in Handles,
           IsFiniteSet(Buffered(b)), Cardinality(Buffered(b)) < DeleteBatch
    PROVE  LET new == Buffered([b EXCEPT ![m] = h])
           IN  IsFiniteSet(new) /\ Cardinality(new) \in Nat /\ Cardinality(new) <= DeleteBatch
<1> DEFINE old == Buffered(b)
           new == Buffered([b EXCEPT ![m] = h])
<1>1. new = old \cup {m}
    BY DEF Buffered
<1> HIDE DEF new
<1>2. /\ IsFiniteSet(new)
      /\ Cardinality(new) = IF m \in old THEN Cardinality(old) ELSE Cardinality(old) + 1
  <2> HIDE DEF old
  <2> QED
    BY <1>1, FS_AddElement DEF old
<1>3. Cardinality(old) \in Nat
    BY FS_CardinalityType
<1> QED
    BY <1>2, <1>3 DEF new

\* Every step leaves room in every buffer: a buffer only grows in Collect, which
\* empties it when the batch is full.
LEMMA RoomNext == Inv /\ RoomInv /\ [Next]_vars => RoomInv'
<1> SUFFICES ASSUME Inv, RoomInv, [Next]_vars PROVE RoomInv'
    OBVIOUS
<1>1. ASSUME NEW d \in Deleters, buffer' = [buffer EXCEPT ![d] = EmptyBuffer]
      PROVE  RoomInv'
  <2> SUFFICES ASSUME NEW e \in Deleters
               PROVE  /\ IsFiniteSet(Buffered(buffer'[e]))
                      /\ Cardinality(Buffered(buffer'[e])) < DeleteBatch
    BY DEF RoomInv, Buffered
  <2>1. buffer'[e] = EmptyBuffer \/ buffer'[e] = buffer[e]
    BY <1>1 DEF Inv, TypeOK
  <2> QED
    BY <2>1, EmptyBufferHasRoom DEF RoomInv
<1>2. ASSUME NEW d \in Deleters, Collect(d) PROVE RoomInv'
  <2> DEFINE k   == Head(deleteQueue)
             buf == [buffer[d] EXCEPT ![k.id] = k.handle]
  <2>1. buffer[d] \in [Messages -> Handles \cup {None}]
    BY DEF Inv, TypeOK
  <2>2. k \in Copies
    BY <1>2 DEF Collect, Inv, TypeOK
  <2>3. k.id \in Messages /\ k.handle \in Handles
    BY <2>2 DEF Copies
  <2>4. IsFiniteSet(Buffered(buffer[d])) /\ Cardinality(Buffered(buffer[d])) < DeleteBatch
    BY DEF RoomInv
  <2> HIDE DEF k
  <2>5. /\ IsFiniteSet(Buffered(buf))
        /\ Cardinality(Buffered(buf)) \in Nat /\ Cardinality(Buffered(buf)) <= DeleteBatch
    BY <2>1, <2>3, <2>4, AddToBuffer
  <2>6. CASE Cardinality(Buffered(buf)) = DeleteBatch
    BY <1>1, <1>2, <2>6 DEF Collect, k
  <2>7. CASE Cardinality(Buffered(buf)) # DeleteBatch
    <3>1. buffer' = [buffer EXCEPT ![d] = buf]
      BY <1>2, <2>7 DEF Collect, k
    <3> SUFFICES ASSUME NEW e \in Deleters
                 PROVE  /\ IsFiniteSet(Buffered(buffer'[e]))
                        /\ Cardinality(Buffered(buffer'[e])) < DeleteBatch
      BY DEF RoomInv, Buffered
    <3> HIDE DEF buf
    <3>2. IF e = d THEN buffer'[e] = buf ELSE buffer'[e] = buffer[e]
      BY <3>1 DEF Inv, TypeOK
    <3>3. Cardinality(Buffered(buf)) < DeleteBatch
      BY <2>5, <2>7
    <3> QED
      BY <2>5, <3>2, <3>3 DEF RoomInv
  <2> QED
    BY <2>6, <2>7
<1>3. ASSUME NEW d \in Deleters, handleDeletion(d) PROVE RoomInv'
    BY <1>1, <1>3 DEF handleDeletion
<1>4. CASE Restart
  <2> SUFFICES ASSUME NEW e \in Deleters
               PROVE  /\ IsFiniteSet(Buffered(buffer'[e]))
                      /\ Cardinality(Buffered(buffer'[e])) < DeleteBatch
    BY DEF RoomInv, Buffered
  <2> QED
    BY <1>4, EmptyBufferHasRoom DEF Restart
<1>5. ASSUME \/ \E c \in Receivers : Receive(c) \/ EnqueueProcess(c) \/ ReceiverExits(c)
             \/ \E p \in Processors :
                   Process(p) \/ SendEvent(p) \/ EnqueueDelete(p) \/ ProcessorExits(p)
             \/ \E m \in Messages : VisibilityTimeout(m)
             \/ Cancel \/ UNCHANGED vars
      PROVE  RoomInv'
  <2>1. UNCHANGED buffer
    BY <1>5 DEF Receive, EnqueueProcess, ReceiverExits, Process, SendEvent, EnqueueDelete,
                ProcessorExits, VisibilityTimeout, Cancel, vars
  <2> QED
    BY <2>1 DEF RoomInv, Buffered
<1> QED
    BY <1>2, <1>3, <1>4, <1>5 DEF Next, Flush, DeleterExits

\* No batch ever exceeds maxDeleteMsgBatchSize, for any size of it and any number of
\* deleters.
THEOREM BatchesFit == Spec => []DeleteBufferHasRoom
<1>1. Init => RoomInv
    BY EmptyBufferHasRoom DEF Init, RoomInv
<1>2. RoomInv => DeleteBufferHasRoom
    BY DEF RoomInv, DeleteBufferHasRoom
<1> QED
    BY <1>1, <1>2, RoomNext, Invariance, PTL DEF Spec

----------------------------------------------------------------------------
(* Refinement of AtLeastOnce. *)

Settled == {m \in Messages : inSQS[m] = "deleted"}

\* A DeleteMessageBatch call is a Settle step of AtLeastOnce.
LEMMA DeleteRefines ==
    ASSUME Inv, UNCHANGED acked,
           NEW buf, \A m \in Messages : buf[m] # None => Delivered(m),
           deleteMessages(buf)
    PROVE  ALO!Next
<1>1. PICK S \in SUBSET Buffered(buf) :
        inSQS' = [m \in Messages |->
                    IF m \in S /\ buf[m] = receipt[m] THEN "deleted" ELSE inSQS[m]]
    BY DEF deleteMessages
<1> DEFINE D == {m \in S : buf[m] = receipt[m]}
<1>2. D \in SUBSET Messages /\ \A m \in D : Delivered(m)
    BY DEF Buffered
<1>3. Settled' = Settled \cup D
    BY <1>1, <1>2 DEF Settled
<1>4. \A m \in D : acked[m] = EventsOf(m)
    BY <1>2 DEF Inv, AckInv, Delivered
<1> HIDE DEF D
<1>5. PICK E \in SUBSET Messages : E = D
    BY <1>2
<1>6. ALO!Settle(E)
    BY <1>3, <1>4, <1>5 DEF ALO!Settle, Settled
<1> QED
    BY <1>6 DEF ALO!Next

\* A step of the adapter is a Deliver or a Settle step of AtLeastOnce, or changes
\* neither what the sink acknowledged nor what SQS deleted.
LEMMA StepRefines == Inv /\ [Next]_vars => [ALO!Next]_<<acked, Settled>>
<1> SUFFICES ASSUME Inv, [Next]_vars PROVE [ALO!Next]_<<acked, Settled>>
    OBVIOUS
<1>1. ASSUME NEW c \in Receivers, Receive(c) PROVE UNCHANGED <<acked, Settled>>
    BY <1>1 DEF Receive, Settled, Inv, TypeOK
<1>2. ASSUME NEW m \in Messages, VisibilityTimeout(m) PROVE UNCHANGED <<acked, Settled>>
    BY <1>2 DEF VisibilityTimeout, Settled, Inv, TypeOK
<1>3. ASSUME NEW p \in Processors, SendEvent(p)
      PROVE  ALO!Next \/ UNCHANGED <<acked, Settled>>
  <2> DEFINE m == current[p].id
  <2>1. /\ m \in Messages /\ next[p] \in EventsOf(m)
        /\ Settled' = Settled
    BY <1>3 DEF SendEvent, sqsVars, Settled, Inv, TypeOK, Copies, ProcessorInv, EventsOf
  <2>2. CASE acked' = [acked EXCEPT ![m] = @ \cup {next[p]}]
    <3>1. ALO!Deliver(m, next[p])
      BY <2>1, <2>2 DEF ALO!Deliver, Settled
    <3> HIDE DEF m
    <3> QED
      BY <2>1, <3>1 DEF ALO!Next
  <2>3. CASE UNCHANGED acked
    BY <2>1, <2>3
  <2> QED
    BY <1>3, <2>2, <2>3 DEF SendEvent
<1>4. ASSUME NEW d \in Deleters, Collect(d)
      PROVE  ALO!Next \/ UNCHANGED <<acked, Settled>>
  <2> DEFINE k   == Head(deleteQueue)
             buf == [buffer[d] EXCEPT ![k.id] = k.handle]
  <2>1. UNCHANGED acked /\ (deleteMessages(buf) \/ UNCHANGED inSQS)
    BY <1>4 DEF Collect
  <2>0. /\ k \in Copies /\ k = deleteQueue[1]
        /\ 1 \in 1..Len(deleteQueue)
    BY <1>4 DEF Collect, Inv, TypeOK
  <2>2. k \in Copies /\ Delivered(k.id)
    BY <2>0 DEF Inv, QueueInv
  <2>3. \A m \in Messages : buf[m] # None => Delivered(m)
    BY <2>2 DEF Inv, TypeOK, BufferInv, Copies
  <2>4. CASE deleteMessages(buf)
    <3> HIDE DEF buf
    <3> QED
      BY <2>1, <2>3, <2>4, DeleteRefines
  <2>5. CASE UNCHANGED inSQS
    BY <2>1, <2>5 DEF Settled
  <2> QED
    BY <2>1, <2>4, <2>5
<1>5. ASSUME NEW d \in Deleters, handleDeletion(d) PROVE ALO!Next
  <2>1. UNCHANGED acked /\ deleteMessages(buffer[d])
    BY <1>5 DEF handleDeletion
  <2>2. \A m \in Messages : buffer[d][m] # None => Delivered(m)
    BY DEF Inv, BufferInv
  <2> QED
    BY <2>1, <2>2, DeleteRefines
<1>6. ASSUME \/ \E c \in Receivers : EnqueueProcess(c) \/ ReceiverExits(c)
             \/ \E p \in Processors : Process(p) \/ EnqueueDelete(p) \/ ProcessorExits(p)
             \/ Cancel \/ Restart \/ UNCHANGED vars
      PROVE  UNCHANGED <<acked, Settled>>
    BY <1>6 DEF EnqueueProcess, ReceiverExits, Process, EnqueueDelete, ProcessorExits,
                Cancel, Restart, vars, sqsVars, Settled
<1> QED
    BY <1>1, <1>2, <1>3, <1>4, <1>5, <1>6 DEF Next, Flush, DeleterExits

\* The SQS source implements AtLeastOnce.
THEOREM Refinement == Spec => Implements
<1>1. Init => ALO!Init
    BY DEF Init, ALO!Init
<1>2. Inv /\ [Next]_vars => [ALO!Next]_<<acked, Settled>>
    BY StepRefines
<1> QED
    BY <1>1, <1>2, Invariance, PTL DEF Spec, Implements, ALO!Spec, Settled

----------------------------------------------------------------------------
(* Shutdown. *)

\* A goroutine that returned took nothing with it: once every receiver, processor and
\* deleter is gone, a message the adapter had received and not settled is on one of
\* the two channels or was given up, and every deletion that was batched was sent.
ExitedHoldNothing ==
    /\ \A c \in Receivers \cap exited : batch[c] = {}
    /\ \A p \in Processors \cap exited : current[p] = None
    /\ \A d \in Deleters \cap exited : buffer[d] = EmptyBuffer

\* A goroutine that returned takes nothing any more, and one returns only with empty
\* hands.
LEMMA ExitedNext == Inv /\ ExitedHoldNothing /\ [Next]_vars => ExitedHoldNothing'
<1> SUFFICES ASSUME Inv, ExitedHoldNothing, [Next]_vars PROVE ExitedHoldNothing'
    OBVIOUS
<1> USE DEF ExitedHoldNothing, Running
<1>1. /\ batch \in [Receivers -> SUBSET Copies]
      /\ current \in [Processors -> Copies \cup {None}]
      /\ buffer \in [Deleters -> [Messages -> Handles \cup {None}]]
    BY DEF Inv, TypeOK
<1>2. EmptyBuffer' = EmptyBuffer
    BY DEF EmptyBuffer
<1>3. CASE \E c \in Receivers : Receive(c)
  <2>1. PICK c \in Receivers : Receive(c)
      BY <1>3
  <2>2. Running(c) /\ (\E B : batch' = [batch EXCEPT ![c] = B])
        /\ UNCHANGED <<current, buffer, exited>>
      BY <2>1 DEF Receive
  <2> QED
      BY <1>1, <1>2, <2>2
<1>4. CASE \E c \in Receivers : EnqueueProcess(c)
  <2>1. PICK c \in Receivers : EnqueueProcess(c)
      BY <1>4
  <2>2. batch[c] # {} /\ (\E B : batch' = [batch EXCEPT ![c] = B])
        /\ UNCHANGED <<current, buffer, exited>>
      BY <2>1 DEF EnqueueProcess
  <2> QED
      BY <1>1, <1>2, <2>2
<1>5. CASE \E c \in Receivers : ReceiverExits(c)
  <2>1. PICK c \in Receivers : ReceiverExits(c)
      BY <1>5
  <2>2. c \notin Processors /\ c \notin Deleters
      BY RoutinesAssumption
  <2> QED
      BY <1>2, <2>1, <2>2 DEF ReceiverExits
<1>6. ASSUME NEW p \in Processors, Process(p) PROVE ExitedHoldNothing'
    BY <1>1, <1>2, <1>6 DEF Process, Idle
<1>7. ASSUME NEW p \in Processors, SendEvent(p) \/ EnqueueDelete(p) PROVE ExitedHoldNothing'
  <2>1. current[p] # None /\ (UNCHANGED current \/ current' = [current EXCEPT ![p] = None])
        /\ UNCHANGED <<batch, buffer, exited>>
      BY <1>7 DEF SendEvent, EnqueueDelete
  <2> QED
      BY <1>1, <1>2, <2>1
<1>8. ASSUME NEW p \in Processors, ProcessorExits(p) PROVE ExitedHoldNothing'
  <2>1. p \notin Receivers /\ p \notin Deleters
      BY RoutinesAssumption
  <2> QED
      BY <1>2, <1>8, <2>1 DEF ProcessorExits, Idle
<1>9. ASSUME NEW d \in Deleters, Collect(d) PROVE ExitedHoldNothing'
  <2>1. Running(d) /\ (\E b : buffer' = [buffer EXCEPT ![d] = b])
        /\ UNCHANGED <<batch, current, exited>>
      BY <1>9 DEF Collect
  <2> QED
      BY <1>1, <1>2, <2>1
<1>10. ASSUME NEW d \in Deleters, Flush(d) \/ DeleterExits(d) PROVE ExitedHoldNothing'
  <2>1. d \notin Receivers /\ d \notin Processors
      BY RoutinesAssumption
  <2>2. /\ buffer' = [buffer EXCEPT ![d] = EmptyBuffer]
        /\ exited' = exited \/ exited' = exited \cup {d}
        /\ UNCHANGED <<batch, current>>
      BY <1>10 DEF Flush, DeleterExits, handleDeletion
  <2> QED
      BY <1>1, <1>2, <2>1, <2>2
<1>11. CASE Cancel \/ UNCHANGED vars \/ \E m \in Messages : VisibilityTimeout(m)
    BY <1>2, <1>11 DEF Cancel, vars, VisibilityTimeout
<1>12. CASE Restart
    BY <1>12 DEF Restart
<1> QED
    BY <1>3, <1>4, <1>5, <1>6, <1>7, <1>8, <1>9, <1>10, <1>11, <1>12 DEF Next

\* A shutdown loses neither a message in hand nor a batched deletion.
THEOREM ShutdownLeavesNothing == Spec => []ExitedHoldNothing
<1>1. Init => ExitedHoldNothing
    BY DEF Init, ExitedHoldNothing
<1> QED
    BY <1>1, ExitedNext, Invariance, PTL DEF Spec

----------------------------------------------------------------------------
(* The Service Bus source.  Its module is instantiated: the variables that *)
(* have the same name in both modules stand for each source in its own     *)
(* part of this module, the others are declared here.                      *)

CONSTANTS Locks, Consumers, Producer
VARIABLES start, done, routine, errors, received, refused, inBus, lock

SB == INSTANCE ServiceBusSource

\* ConstantsAssumption of ServiceBusSource, as far as it is not MessagesAssumption.
BusConstants == IsFiniteSet(Consumers) /\ Producer \notin Consumers /\ None \notin Locks

\* A consumer whose events were not refused has sent those before the next one.
ConsumerInv ==
    \A c \in Consumers :
        /\ current[c] = None => next[c] = 1 /\ ~refused[c]
        /\ current[c] # None =>
              /\ next[c] \in 1..(NumEvents[current[c].id] + 1)
              /\ ~refused[c] => 1..(next[c] - 1) \subseteq acked[current[c].id]

\* A completed message was delivered.
CompleteInv == \A m \in Messages : inBus[m] = "completed" => Delivered(m)

\* The inductive invariant.
BusInv == SB!TypeOK /\ ConsumerInv /\ CompleteInv /\ AckInv

Completed == {m \in Messages : inBus[m] = "completed"}

\* errChan has room for as many errors as there are consumers.
LEMMA MaxType == ASSUME BusConstants PROVE SB!maxConcurrent \in Nat
<1>1. Cardinality(Consumers) \in Nat
    BY FS_CardinalityType DEF BusConstants
<1>2. SB!maxConcurrent = Cardinality(Consumers)
    BY DEF SB!maxConcurrent, SB!Cardinality, Cardinality
<1> QED
    BY <1>1, <1>2

\* The invariant holds before anything was received.
LEMMA BusInit == ASSUME BusConstants PROVE SB!Init => BusInv
<1> SUFFICES ASSUME SB!Init PROVE BusInv
    OBVIOUS
<1>1. SB!TypeOK
  <2>0. SB!maxConcurrent \in Nat
    BY MaxType
  <2>1. start \in {"select", "wait", "gather"}
    BY DEF SB!Init
  <2>4. done \in BOOLEAN
    BY DEF SB!Init
  <2>5. errors = 0
    BY DEF SB!Init
  <2>6. errors \in 0..SB!maxConcurrent
    BY <2>0, <2>5
  <2>2. /\ routine \in [SB!Routines -> {"run", "fail", "exit"}]
        /\ received \in SUBSET SB!Copies
        /\ current \in [Consumers -> SB!Copies \cup {None}]
        /\ next \in [Consumers -> Nat]
        /\ inBus \in [Messages -> {"available", "completed"}]
        /\ lock \in [Messages -> Locks \cup {None}]
        /\ acked \in [Messages -> SUBSET Nat]
    BY DEF SB!Init
  <2>3. refused \in [Consumers -> BOOLEAN]
    BY DEF SB!Init
  <2> QED
    BY <2>1, <2>2, <2>3, <2>4, <2>6 DEF SB!TypeOK
<1>2. ConsumerInv /\ CompleteInv /\ AckInv
    BY DEF SB!Init, ConsumerInv, CompleteInv, AckInv
<1> QED
    BY <1>1, <1>2 DEF BusInv

\* A consumer leaves its message.
LEMMA LeaveNext ==
    ASSUME BusInv, NEW c \in Consumers, NEW s \in {"run", "fail", "exit"}, SB!Leave(c, s),
           UNCHANGED acked
    PROVE  /\ ConsumerInv'
           /\ current' \in [Consumers -> SB!Copies \cup {None}] /\ next' \in [Consumers -> Nat]
           /\ refused' \in [Consumers -> BOOLEAN]
           /\ routine' \in [SB!Routines -> {"run", "fail", "exit"}]
<1>1. /\ current' \in [Consumers -> SB!Copies \cup {None}] /\ next' \in [Consumers -> Nat]
      /\ routine' \in [SB!Routines -> {"run", "fail", "exit"}]
    BY DEF BusInv, SB!TypeOK, SB!Leave
<1>2. refused' \in [Consumers -> BOOLEAN]
    BY DEF BusInv, SB!TypeOK, SB!Leave
<1>3. ConsumerInv'
  <2> SUFFICES ASSUME NEW x \in Consumers
               PROVE  /\ current'[x] = None => next'[x] = 1 /\ ~refused'[x]
                      /\ current'[x] # None =>
                            /\ next'[x] \in 1..(NumEvents[current'[x].id] + 1)
                            /\ ~refused'[x] => 1..(next'[x] - 1) \subseteq acked'[current'[x].id]
    BY DEF ConsumerInv
  <2>1. CASE x = c
    BY <2>1 DEF BusInv, SB!TypeOK, SB!Leave
  <2>2. CASE x # c
    <3>1. current'[x] = current[x] /\ next'[x] = next[x] /\ refused'[x] = refused[x]
      BY <2>2 DEF BusInv, SB!TypeOK, SB!Leave
    <3> QED
      BY <3>1 DEF BusInv, ConsumerInv
  <2> QED
    BY <2>1, <2>2
<1> QED
    BY <1>1, <1>2, <1>3

\* The message of a consumer.
LEMMA MessageType ==
    ASSUME BusInv, NEW c \in Consumers, current[c] # None
    PROVE  current[c].id \in Messages /\ NumEvents[current[c].id] \in Nat
BY DEF BusInv, SB!TypeOK, SB!Copies

\* An event is sent, and acknowledged or refused.
LEMMA SendNext == ASSUME BusInv, NEW c \in Consumers, SB!SendEvent(c) PROVE BusInv'
<1> DEFINE m == current[c].id
           e == next[c]
<1>1. current[c] # None /\ e <= NumEvents[m] /\ next' = [next EXCEPT ![c] = e + 1]
      /\ UNCHANGED <<start, done, routine, errors, received, current, inBus, lock>>
  <2>1. m \in Messages /\ NumEvents[m] \in Nat /\ e \in Nat
    BY MessageType DEF SB!SendEvent, BusInv, SB!TypeOK
  <2> QED
    BY <2>1 DEF SB!SendEvent, SB!Sent, SB!busVars
<1>2. m \in Messages /\ NumEvents[m] \in Nat /\ e \in 1..NumEvents[m]
    BY <1>1, MessageType DEF BusInv, SB!TypeOK, ConsumerInv
<1>3. \/ acked' = [acked EXCEPT ![m] = @ \cup {e}] /\ refused' = refused
      \/ acked' = acked /\ refused' = [refused EXCEPT ![c] = TRUE]
    BY DEF SB!SendEvent
<1>4. \A n \in Messages : acked[n] \subseteq acked'[n] /\ (n # m => acked'[n] = acked[n])
    BY <1>2, <1>3 DEF BusInv, SB!TypeOK
<1>5. AckInv'
  <2>1. acked'[m] \subseteq acked[m] \cup {e}
    BY <1>2, <1>3 DEF BusInv, SB!TypeOK
  <2>2. e \in EventsOf(m)
    BY <1>2 DEF EventsOf
  <2> QED
    BY <1>4, <2>1, <2>2 DEF BusInv, AckInv
<1>6. CompleteInv'
    BY <1>1, <1>4 DEF BusInv, CompleteInv, Delivered
<1>7. SB!TypeOK'
  <2>1. acked' \in [Messages -> SUBSET Nat] /\ next' \in [Consumers -> Nat]
    BY <1>1, <1>2, <1>3 DEF BusInv, SB!TypeOK
  <2>2. refused' \in [Consumers -> BOOLEAN]
    BY <1>3 DEF BusInv, SB!TypeOK
  <2> QED
    BY <1>1, <2>1, <2>2 DEF BusInv, SB!TypeOK
<1>8. ConsumerInv'
  <2> SUFFICES ASSUME NEW x \in Consumers
               PROVE  /\ current[x] = None => next'[x] = 1 /\ ~refused'[x]
                      /\ current[x] # None =>
                            /\ next'[x] \in 1..(NumEvents[current[x].id] + 1)
                            /\ ~refused'[x] => 1..(next'[x] - 1) \subseteq acked'[current[x].id]
    BY <1>1 DEF ConsumerInv
  <2>1. CASE x = c
    <3>1. next'[c] = e + 1 /\ next'[c] \in 1..(NumEvents[m] + 1) /\ (e + 1) - 1 = e
      BY <1>1, <1>2 DEF BusInv, SB!TypeOK
    <3>2. ASSUME ~refused'[c] PROVE 1..e \subseteq acked'[m]
      <4>1. acked' = [acked EXCEPT ![m] = @ \cup {e}] /\ ~refused[c]
        BY <1>3, <3>2 DEF BusInv, SB!TypeOK
      <4>2. 1..(e - 1) \subseteq acked[m]
        BY <1>1, <4>1 DEF BusInv, ConsumerInv
      <4>3. acked'[m] = acked[m] \cup {e}
        BY <1>2, <4>1 DEF BusInv, SB!TypeOK
      <4>4. 1..e = 1..(e - 1) \cup {e}
        BY <1>2
      <4> QED
        BY <4>2, <4>3, <4>4
    <3> QED
      BY <1>1, <2>1, <3>1, <3>2
  <2>2. CASE x # c
    <3>1. next'[x] = next[x] /\ refused'[x] = refused[x]
      BY <1>1, <1>3, <2>2 DEF BusInv, SB!TypeOK
    <3>2. current[x] # None => current[x].id \in Messages
      BY MessageType
    <3> QED
      BY <1>4, <3>1, <3>2 DEF BusInv, ConsumerInv
  <2> QED
    BY <2>1, <2>2
<1> QED
    BY <1>5, <1>6, <1>7, <1>8 DEF BusInv

\* A message is completed when its events were sent and none was refused.
LEMMA CompleteNext ==
    ASSUME BusInv, NEW c \in Consumers, SB!CompleteMessage(c)
    PROVE  /\ BusInv' /\ UNCHANGED acked
           /\ \/ UNCHANGED inBus
              \/ \E m \in Messages : /\ inBus' = [inBus EXCEPT ![m] = "completed"]
                                     /\ Delivered(m)
<1> DEFINE m == current[c].id
<1>1. current[c] # None /\ next[c] > NumEvents[m] /\ ~refused[c]
      /\ UNCHANGED <<start, done, errors, received, acked>>
    BY DEF SB!CompleteMessage, SB!Sent
<1>2. m \in Messages /\ NumEvents[m] \in Nat
    BY <1>1, MessageType
<1>3. Delivered(m)
  <2>1. next[c] \in 1..(NumEvents[m] + 1) /\ 1..(next[c] - 1) \subseteq acked[m]
    BY <1>1 DEF BusInv, ConsumerInv
  <2>2. next[c] - 1 = NumEvents[m]
    BY <1>1, <1>2, <2>1
  <2> QED
    BY <2>1, <2>2 DEF Delivered, EventsOf
<1>4. PICK s \in {"run", "fail"} : SB!Leave(c, s)
    BY DEF SB!CompleteMessage
<1>5. \/ UNCHANGED <<inBus, lock>>
      \/ /\ inBus' = [inBus EXCEPT ![m] = "completed"]
         /\ lock' = [lock EXCEPT ![m] = None]
    BY DEF SB!CompleteMessage, SB!busVars
<1>6. /\ ConsumerInv'
      /\ current' \in [Consumers -> SB!Copies \cup {None}] /\ next' \in [Consumers -> Nat]
      /\ refused' \in [Consumers -> BOOLEAN]
      /\ routine' \in [SB!Routines -> {"run", "fail", "exit"}]
    BY <1>1, <1>4, LeaveNext
<1>7. /\ inBus' \in [Messages -> {"available", "completed"}]
      /\ lock' \in [Messages -> Locks \cup {None}]
    BY <1>2, <1>5 DEF BusInv, SB!TypeOK
<1>8. SB!TypeOK'
    BY <1>1, <1>6, <1>7 DEF BusInv, SB!TypeOK
<1>9. CompleteInv' /\ AckInv'
    BY <1>1, <1>2, <1>3, <1>5 DEF BusInv, SB!TypeOK, CompleteInv, AckInv, Delivered
<1> QED
    BY <1>1, <1>2, <1>3, <1>5, <1>6, <1>8, <1>9 DEF BusInv

\* Any other step of a consumer.
LEMMA ConsumeNext ==
    ASSUME BusInv, NEW c \in Consumers,
           SB!HandOver(c) \/ SB!ConsumerExits(c) \/ SB!ConvertFails(c) \/ SB!HandleFails(c)
    PROVE  BusInv' /\ UNCHANGED <<acked, inBus>>
<1>1. CASE SB!HandOver(c)
  <2>1. PICK k \in received : received' = received \ {k} /\ current' = [current EXCEPT ![c] = k]
    BY <1>1 DEF SB!HandOver
  <2>2. UNCHANGED <<start, done, routine, errors, next, refused, inBus, lock, acked>>
        /\ current[c] = None
    BY <1>1 DEF SB!HandOver, SB!busVars, SB!Idle
  <2>3. k \in SB!Copies /\ k.id \in Messages /\ NumEvents[k.id] \in Nat
    BY DEF BusInv, SB!TypeOK, SB!Copies
  <2>4. SB!TypeOK'
    BY <2>1, <2>2, <2>3 DEF BusInv, SB!TypeOK
  <2>5. ConsumerInv'
    <3> SUFFICES ASSUME NEW x \in Consumers
                 PROVE  /\ current'[x] = None => next[x] = 1 /\ ~refused[x]
                        /\ current'[x] # None =>
                              /\ next[x] \in 1..(NumEvents[current'[x].id] + 1)
                              /\ ~refused[x] => 1..(next[x] - 1) \subseteq acked[current'[x].id]
      BY <2>2 DEF ConsumerInv
    <3>1. CASE x = c
      <4>1. current'[c] = k /\ next[c] = 1 /\ ~refused[c]
        BY <2>1, <2>2 DEF BusInv, SB!TypeOK, ConsumerInv
      <4> QED
        BY <2>3, <3>1, <4>1
    <3>2. CASE x # c
      <4>1. current'[x] = current[x]
        BY <2>1, <3>2 DEF BusInv, SB!TypeOK
      <4> QED
        BY <4>1 DEF BusInv, ConsumerInv
    <3> QED
      BY <3>1, <3>2
  <2> QED
    BY <2>2, <2>4, <2>5 DEF BusInv, CompleteInv, AckInv, Delivered
<1>2. CASE SB!ConsumerExits(c)
  <2>1. routine' = [routine EXCEPT ![c] = "exit"]
        /\ UNCHANGED <<start, done, errors, received, current, next, refused, inBus, lock, acked>>
    BY <1>2 DEF SB!ConsumerExits, SB!workVars, SB!busVars
  <2>2. SB!TypeOK'
    BY <2>1 DEF BusInv, SB!TypeOK
  <2> QED
    BY <2>1, <2>2 DEF BusInv, ConsumerInv, CompleteInv, AckInv, Delivered
<1>3. CASE SB!ConvertFails(c) \/ SB!HandleFails(c)
  <2>1. SB!Leave(c, "fail") /\ UNCHANGED <<start, done, errors, received, inBus, lock, acked>>
    BY <1>3 DEF SB!ConvertFails, SB!HandleFails, SB!busVars
  <2>2. /\ ConsumerInv'
        /\ current' \in [Consumers -> SB!Copies \cup {None}] /\ next' \in [Consumers -> Nat]
        /\ refused' \in [Consumers -> BOOLEAN]
        /\ routine' \in [SB!Routines -> {"run", "fail", "exit"}]
    BY <2>1, LeaveNext
  <2>3. SB!TypeOK'
    BY <2>1, <2>2 DEF BusInv, SB!TypeOK
  <2> QED
    BY <2>1, <2>2, <2>3 DEF BusInv, CompleteInv, AckInv, Delivered
<1> QED
    BY <1>1, <1>2, <1>3

\* The producer, Start, the errors and the environment touch no message in progress.
LEMMA RestNext ==
    ASSUME BusConstants, BusInv,
           \/ SB!ReceiveMessages \/ SB!ProducerExits \/ SB!ProducerFails
           \/ \E x \in SB!Routines : SB!ReportError(x)
           \/ SB!StartTakesError \/ SB!StartSeesDone \/ SB!WaitReturns \/ SB!Gather
           \/ SB!Shutdown \/ \E m \in Messages : SB!LockExpires(m)
    PROVE  BusInv' /\ UNCHANGED <<acked, inBus>>
<1> USE DEF SB!workVars, SB!busVars
<1>1. UNCHANGED <<current, next, refused, inBus, acked>>
    BY DEF SB!ReceiveMessages, SB!ProducerExits, SB!ProducerFails, SB!ReportError,
           SB!StartTakesError, SB!StartSeesDone, SB!WaitReturns, SB!Gather, SB!Shutdown,
           SB!LockExpires
<1>2. received' \in SUBSET SB!Copies /\ lock' \in [Messages -> Locks \cup {None}]
  <2>1. CASE SB!ReceiveMessages
    <3>1. PICK S \in SUBSET Messages : \E l \in [S -> Locks] :
              /\ lock' = [m \in Messages |-> IF m \in S THEN l[m] ELSE lock[m]]
              /\ received' = {[id |-> m, lock |-> l[m]] : m \in S}
      BY <2>1 DEF SB!ReceiveMessages
    <3>2. PICK l \in [S -> Locks] :
              /\ lock' = [m \in Messages |-> IF m \in S THEN l[m] ELSE lock[m]]
              /\ received' = {[id |-> m, lock |-> l[m]] : m \in S}
      BY <3>1
    <3> QED
      BY <3>2 DEF BusInv, SB!TypeOK, SB!Copies
  <2>2. CASE \E m \in Messages : SB!LockExpires(m)
    BY <2>2 DEF SB!LockExpires, BusInv, SB!TypeOK
  <2>3. CASE UNCHANGED <<received, lock>>
    BY <2>3 DEF BusInv, SB!TypeOK
  <2> QED
    BY <2>1, <2>2, <2>3
    DEF SB!ProducerExits, SB!ProducerFails, SB!ReportError, SB!StartTakesError, SB!StartSeesDone,
        SB!WaitReturns, SB!Gather, SB!Shutdown
<1>3. errors' \in 0..SB!maxConcurrent
  <2>1. errors \in 0..SB!maxConcurrent /\ SB!maxConcurrent \in Nat
    BY MaxType DEF BusInv, SB!TypeOK
  <2> QED
    BY <2>1
    DEF SB!ReceiveMessages, SB!ProducerExits, SB!ProducerFails, SB!ReportError,
        SB!StartTakesError, SB!StartSeesDone, SB!WaitReturns, SB!Gather, SB!Shutdown,
        SB!LockExpires
<1>4. routine' \in [SB!Routines -> {"run", "fail", "exit"}]
    BY DEF SB!ReceiveMessages, SB!ProducerExits, SB!ProducerFails, SB!ReportError,
           SB!StartTakesError, SB!StartSeesDone, SB!WaitReturns, SB!Gather, SB!Shutdown,
           SB!LockExpires, BusInv, SB!TypeOK
<1>5. start' \in {"select", "wait", "gather"}
    BY DEF SB!ReceiveMessages, SB!ProducerExits, SB!ProducerFails, SB!ReportError,
           SB!StartTakesError, SB!StartSeesDone, SB!WaitReturns, SB!Gather, SB!Shutdown,
           SB!LockExpires, BusInv, SB!TypeOK
<1>6. done' \in BOOLEAN
  <2>1. done' = done \/ done' = TRUE
    BY DEF SB!ReceiveMessages, SB!ProducerExits, SB!ProducerFails, SB!ReportError,
           SB!StartTakesError, SB!StartSeesDone, SB!WaitReturns, SB!Gather, SB!Shutdown,
           SB!LockExpires
  <2> QED
    BY <2>1 DEF BusInv, SB!TypeOK
<1>7. SB!TypeOK'
    BY <1>1, <1>2, <1>3, <1>4, <1>5, <1>6 DEF BusInv, SB!TypeOK
<1> QED
    BY <1>1, <1>7 DEF BusInv, ConsumerInv, CompleteInv, AckInv, Delivered

\* A new process has no message in progress.
LEMMA RestartNext == ASSUME BusConstants, BusInv, SB!Restart PROVE BusInv' /\ UNCHANGED <<acked, inBus>>
<1>1. start' = "select" /\ done' = FALSE /\ errors' = 0 /\ received' = {}
      /\ routine' = [x \in SB!Routines |-> "run"] /\ UNCHANGED <<inBus, lock, acked>>
    BY DEF SB!Restart, SB!busVars
<1>2. /\ current' = [c \in Consumers |-> None] /\ next' = [c \in Consumers |-> 1]
      /\ refused' = [c \in Consumers |-> FALSE]
    BY DEF SB!Restart
<1>0. SB!maxConcurrent \in Nat
    BY MaxType
<1>3. errors' \in 0..SB!maxConcurrent
    BY <1>0, <1>1
<1>8. done' \in BOOLEAN
    BY <1>1
<1>4. refused' \in [Consumers -> BOOLEAN]
    BY <1>2
<1>5. current' \in [Consumers -> SB!Copies \cup {None}] /\ next' \in [Consumers -> Nat]
      /\ routine' \in [SB!Routines -> {"run", "fail", "exit"}] /\ received' \in SUBSET SB!Copies
    BY <1>1, <1>2
<1>6. SB!TypeOK'
    BY <1>1, <1>3, <1>4, <1>5, <1>8 DEF BusInv, SB!TypeOK
<1>7. ConsumerInv'
    BY <1>2 DEF ConsumerInv
<1> QED
    BY <1>1, <1>6, <1>7 DEF BusInv, CompleteInv, AckInv, Delivered

\* Every step keeps the invariant, and completes only what was delivered.
LEMMA BusNext ==
    ASSUME BusConstants PROVE BusInv /\ [SB!Next]_(SB!vars) => BusInv'
<1> SUFFICES ASSUME BusInv, [SB!Next]_(SB!vars) PROVE BusInv'
    OBVIOUS
<1>1. CASE UNCHANGED SB!vars
  <2>1. UNCHANGED <<start, done, routine, errors, received, current, next, refused, inBus, lock, acked>>
    BY <1>1 DEF SB!vars, SB!workVars, SB!busVars
  <2> QED
    BY <2>1 DEF BusInv, SB!TypeOK, ConsumerInv, CompleteInv, AckInv, Delivered
<1>2. CASE SB!Next
    BY <1>2, SendNext, CompleteNext, ConsumeNext, RestNext, RestartNext DEF SB!Next, SB!Consume
<1> QED
    BY <1>1, <1>2

LEMMA BusInvariance == ASSUME BusConstants PROVE SB!Spec => []BusInv
<1>1. SB!Init => BusInv
    BY BusInit
<1>2. BusInv /\ [SB!Next]_(SB!vars) => BusInv'
    BY BusNext
<1> QED
    BY <1>1, <1>2, PTL DEF SB!Spec

\* A step of the Service Bus source is a Deliver or a Settle step, or a stutter.
LEMMA BusRefines ==
    ASSUME BusConstants
    PROVE  BusInv /\ [SB!Next]_(SB!vars) => [SB!ALO!Next]_<<acked, Completed>>
<1> SUFFICES ASSUME BusInv, [SB!Next]_(SB!vars) PROVE [SB!ALO!Next]_<<acked, Completed>>
    OBVIOUS
<1>1. CASE UNCHANGED <<acked, inBus>>
    BY <1>1 DEF Completed
<1>2. ASSUME NEW c \in Consumers, SB!SendEvent(c) PROVE SB!ALO!Next \/ UNCHANGED <<acked, Completed>>
  <2> DEFINE m == current[c].id
  <2>1. current[c] # None /\ Completed' = Completed
    BY <1>2 DEF SB!SendEvent, SB!busVars, Completed
  <2>2. m \in Messages /\ NumEvents[m] \in Nat
    BY <2>1, MessageType
  <2>3. next[c] \in SB!EventsOf(m)
    BY <1>2, <2>1, <2>2 DEF SB!SendEvent, SB!Sent, SB!EventsOf, BusInv, SB!TypeOK, ConsumerInv
  <2>4. CASE acked' = [acked EXCEPT ![m] = @ \cup {next[c]}]
    <3>1. SB!ALO!Deliver(m, next[c])
      BY <2>1, <2>3, <2>4 DEF SB!ALO!Deliver, Completed
    <3> HIDE DEF m
    <3> QED
      BY <2>2, <2>3, <3>1 DEF SB!ALO!Next
  <2>5. CASE UNCHANGED acked
    BY <2>1, <2>5
  <2> QED
    BY <1>2, <2>4, <2>5 DEF SB!SendEvent
<1>3. ASSUME NEW c \in Consumers, SB!CompleteMessage(c)
      PROVE  SB!ALO!Next \/ UNCHANGED <<acked, inBus>>
  <2>1. UNCHANGED acked
    BY <1>3, CompleteNext
  <2>2. ASSUME NEW m \in Messages, inBus' = [inBus EXCEPT ![m] = "completed"], Delivered(m)
        PROVE  SB!ALO!Next
    <3>1. Completed' = Completed \cup {m}
      BY <2>2 DEF Completed, BusInv, SB!TypeOK
    <3>2. acked[m] = SB!EventsOf(m)
      BY <2>2 DEF BusInv, AckInv, Delivered, EventsOf, SB!EventsOf
    <3>3. SB!ALO!Settle({m})
      BY <2>1, <3>1, <3>2 DEF SB!ALO!Settle, Completed
    <3>4. {m} \in SUBSET Messages
      BY <2>2
    <3> QED
      BY <3>3, <3>4 DEF SB!ALO!Next
  <2> QED
    BY <1>3, <2>1, <2>2, CompleteNext
<1>4. CASE SB!Next
    BY <1>1, <1>2, <1>3, <1>4, ConsumeNext, RestNext, RestartNext DEF SB!Next, SB!Consume
<1>5. CASE UNCHANGED SB!vars
    BY <1>1, <1>5 DEF SB!vars, SB!busVars
<1> QED
    BY <1>4, <1>5

\* Every variable of the Service Bus source keeps its type, and errChan its capacity.
THEOREM BusTypeCorrect == ASSUME BusConstants PROVE SB!Spec => []SB!TypeOK
<1>1. BusInv => SB!TypeOK
    BY DEF BusInv
<1> QED
    BY <1>1, BusInvariance, PTL

\* The Service Bus source implements AtLeastOnce: a message is completed only after the
\* sink acknowledged its events, however locks are lost and consumers fail.
THEOREM BusRefinement == ASSUME BusConstants PROVE SB!Spec => SB!Implements
<1>1. SB!Init => SB!ALO!Init
    BY DEF SB!Init, SB!ALO!Init
<1>2. BusInv /\ [SB!Next]_(SB!vars) => [SB!ALO!Next]_<<acked, Completed>>
    BY BusRefines
<1> QED
    BY <1>1, <1>2, BusInvariance, PTL DEF SB!Spec, SB!Implements, SB!ALO!Spec, Completed

----------------------------------------------------------------------------
(* How the routines of the Service Bus source end. *)

Exited == {x \in SB!Routines : routine[x] = "exit"}

\* Only a routine that runs holds messages.
HandsInv == /\ \A c \in Consumers : current[c] # None => routine[c] = "run"
            /\ received # {} => routine[Producer] = "run"

\* Start gathers the errors of routines that have returned.
GatherInv == start = "gather" => \A x \in SB!Routines : routine[x] = "exit"

\* Every error in errChan is that of another routine that returned.
ErrorsInv == errors <= Cardinality(Exited)

\* Messages in hand, the routines and Start, together inductive.
EndInv == HandsInv /\ GatherInv /\ ErrorsInv

\* When Start gathers the errors no routine is left and no message is in hand: every
\* message that was received was completed, or its lock is left to expire.
NothingInHand ==
    start = "gather" =>
        /\ \A x \in SB!Routines : routine[x] = "exit"
        /\ received = {} /\ \A c \in Consumers : current[c] = None

\* errChan holds an error less than there are routines; a routine that finds it full
\* is the last one, and only Start waits for it.
OnlyLastBlocks ==
    \A x \in SB!Routines :
        routine[x] = "fail" /\ errors = SB!maxConcurrent
            => \A y \in SB!Routines \ {x} : routine[y] = "exit"

\* There is one routine more than errChan has room.
LEMMA RoutinesFinite ==
    ASSUME BusConstants
    PROVE  /\ IsFiniteSet(SB!Routines)
           /\ Cardinality(SB!Routines) = SB!maxConcurrent + 1
<1>1. IsFiniteSet(Consumers) /\ Producer \notin Consumers
    BY DEF BusConstants
<1>2. SB!Routines = Consumers \cup {Producer}
    BY DEF SB!Routines
<1>3. SB!maxConcurrent = Cardinality(Consumers)
    BY DEF SB!maxConcurrent, SB!Cardinality, Cardinality
<1> QED
    BY <1>1, <1>2, <1>3, FS_AddElement

\* The number of routines that returned grows with them.
LEMMA ExitedGrows ==
    ASSUME BusConstants, Exited \subseteq Exited'
    PROVE  /\ Cardinality(Exited) \in Nat /\ Cardinality(Exited)' \in Nat
           /\ Cardinality(Exited) <= Cardinality(Exited)'
           /\ \A x \in Exited' \ Exited : Cardinality(Exited) + 1 <= Cardinality(Exited)'
<1>1. /\ Exited \subseteq SB!Routines /\ Exited' \subseteq SB!Routines
      /\ IsFiniteSet(SB!Routines)
    BY RoutinesFinite DEF Exited, SB!Routines
<1> DEFINE E == Exited
           F == Exited'
<1>2. E \subseteq SB!Routines /\ F \subseteq SB!Routines /\ E \subseteq F
    BY <1>1
<1> HIDE DEF E, F
<1>3. IsFiniteSet(E) /\ IsFiniteSet(F)
    BY <1>1, <1>2, FS_Subset
<1>4. /\ Cardinality(E) \in Nat /\ Cardinality(F) \in Nat
      /\ Cardinality(E) <= Cardinality(F)
    BY <1>2, <1>3, FS_Subset, FS_CardinalityType
<1>5. ASSUME NEW x \in F \ E PROVE Cardinality(E) + 1 <= Cardinality(F)
  <2>1. IsFiniteSet(E \cup {x}) /\ Cardinality(E \cup {x}) = Cardinality(E) + 1
      BY <1>3, <1>5, FS_AddElement
  <2>2. E \cup {x} \subseteq F
      BY <1>2, <1>5
  <2> QED
      BY <1>3, <2>1, <2>2, FS_Subset
<1> QED
    BY <1>4, <1>5 DEF E, F

\* A routine changes its state as the code of one routine does: it leaves run, for
\* fail or exit, and nothing brings it back.
LEMMA EndStep ==
    ASSUME BusConstants, BusInv, EndInv, NEW x \in SB!Routines, routine[x] # "exit",
           NEW s \in {"run", "fail", "exit"}, routine' = [routine EXCEPT ![x] = s],
           UNCHANGED <<start, errors>>
    PROVE  GatherInv' /\ ErrorsInv'
<1>1. GatherInv'
    BY DEF EndInv, GatherInv
<1>2. Exited \subseteq Exited'
    BY DEF Exited, SB!Routines, BusInv, SB!TypeOK
<1>3. errors \in Nat
  <2>1. SB!maxConcurrent \in Nat /\ errors \in 0..SB!maxConcurrent
      BY MaxType DEF BusInv, SB!TypeOK
  <2> QED
      BY <2>1
<1> QED
    BY <1>1, <1>2, <1>3, ExitedGrows DEF EndInv, ErrorsInv

\* Every step keeps messages with those who run, and the errors with those who do not.
LEMMA EndNext ==
    ASSUME BusConstants PROVE BusInv /\ EndInv /\ [SB!Next]_(SB!vars) => EndInv'
<1> SUFFICES ASSUME BusInv, EndInv, [SB!Next]_(SB!vars) PROVE EndInv'
    OBVIOUS
<1> USE DEF SB!workVars, SB!busVars
<1>0. /\ routine \in [SB!Routines -> {"run", "fail", "exit"}]
      /\ current \in [Consumers -> SB!Copies \cup {None}]
      /\ Producer \in SB!Routines /\ Consumers \subseteq SB!Routines
      /\ Producer \notin Consumers
    BY DEF BusInv, SB!TypeOK, SB!Routines, BusConstants
<1>e. SB!maxConcurrent \in Nat /\ errors \in 0..SB!maxConcurrent
    BY MaxType DEF BusInv, SB!TypeOK
\* Steps that leave the routines as they are.
<1>1. ASSUME UNCHANGED <<start, routine, errors>> PROVE GatherInv' /\ ErrorsInv'
    BY <1>1 DEF EndInv, GatherInv, ErrorsInv, Exited, SB!Routines
<1>2. CASE SB!ReceiveMessages
  <2>1. routine[Producer] = "run" /\ UNCHANGED <<start, routine, errors, current>>
      BY <1>2 DEF SB!ReceiveMessages, SB!Producing
  <2> QED
      BY <1>1, <2>1 DEF EndInv, HandsInv
<1>3. CASE SB!ProducerExits \/ SB!ProducerFails
  <2>1. /\ routine[Producer] = "run" /\ received = {}
        /\ \E s \in {"fail", "exit"} : routine' = [routine EXCEPT ![Producer] = s]
        /\ UNCHANGED <<start, errors, current, received>>
      BY <1>3 DEF SB!ProducerExits, SB!ProducerFails, SB!Producing
  <2>2. HandsInv'
      BY <1>0, <2>1 DEF EndInv, HandsInv
  <2> QED
      BY <1>0, <2>1, <2>2, EndStep DEF EndInv
<1>4. ASSUME NEW c \in Consumers, SB!HandOver(c) \/ SB!SendEvent(c) PROVE EndInv'
  <2>1. /\ routine[c] = "run" /\ UNCHANGED <<start, routine, errors>>
        /\ received' \subseteq received
        /\ UNCHANGED current \/ \E k : current' = [current EXCEPT ![c] = k]
      BY <1>4 DEF SB!HandOver, SB!SendEvent, SB!Idle, EndInv, HandsInv
  <2> QED
      BY <1>0, <1>1, <2>1 DEF EndInv, HandsInv
<1>5. ASSUME NEW c \in Consumers, SB!ConsumerExits(c) PROVE EndInv'
  <2>1. /\ routine[c] = "run" /\ current[c] = None
        /\ routine' = [routine EXCEPT ![c] = "exit"]
        /\ UNCHANGED <<start, errors, current, received>>
      BY <1>5 DEF SB!ConsumerExits, SB!Idle
  <2>2. HandsInv'
      BY <1>0, <2>1 DEF EndInv, HandsInv
  <2> QED
      BY <1>0, <2>1, <2>2, EndStep DEF EndInv
<1>6. ASSUME NEW c \in Consumers,
             SB!ConvertFails(c) \/ SB!HandleFails(c) \/ SB!CompleteMessage(c)
      PROVE  EndInv'
  <2>1. PICK s \in {"run", "fail"} : SB!Leave(c, s)
      BY <1>6 DEF SB!ConvertFails, SB!HandleFails, SB!CompleteMessage
  <2>2. /\ routine[c] = "run"
        /\ routine' = [routine EXCEPT ![c] = s]
        /\ current' = [current EXCEPT ![c] = None]
        /\ UNCHANGED <<start, errors, received>>
      BY <1>6, <2>1 DEF SB!ConvertFails, SB!HandleFails, SB!CompleteMessage, SB!Leave, SB!Sent,
                        EndInv, HandsInv
  <2>3. HandsInv'
      BY <1>0, <2>2 DEF EndInv, HandsInv
  <2> QED
      BY <1>0, <2>2, <2>3, EndStep DEF EndInv
<1>7. ASSUME NEW x \in SB!Routines, SB!ReportError(x) PROVE EndInv'
  <2>1. /\ routine[x] = "fail" /\ errors' = errors + 1
        /\ routine' = [routine EXCEPT ![x] = "exit"]
        /\ UNCHANGED <<start, current, received>>
      BY <1>7 DEF SB!ReportError
  <2>2. HandsInv' /\ GatherInv'
      BY <1>0, <2>1 DEF EndInv, HandsInv, GatherInv
  <2>3. Exited \subseteq Exited' /\ x \in Exited' \ Exited
      BY <1>0, <2>1 DEF Exited, SB!Routines
  <2>4. ErrorsInv'
      BY <1>e, <2>1, <2>3, ExitedGrows DEF EndInv, ErrorsInv
  <2> QED
      BY <2>2, <2>4 DEF EndInv
<1>8. CASE SB!StartTakesError \/ SB!StartSeesDone \/ SB!WaitReturns \/ SB!Gather
  <2>1. /\ UNCHANGED <<routine, current, received>>
        /\ errors' = errors \/ errors' = errors - 1
        /\ start' = "gather" => \A x \in SB!Routines : routine[x] = "exit"
      BY <1>8 DEF SB!StartTakesError, SB!StartSeesDone, SB!WaitReturns, SB!Gather, EndInv, GatherInv
  <2>2. HandsInv' /\ GatherInv' /\ Exited' = Exited
      BY <2>1 DEF EndInv, HandsInv, GatherInv, Exited, SB!Routines
  <2>3. Cardinality(Exited) \in Nat
      BY <2>2, ExitedGrows
  <2>4. ErrorsInv'
      BY <1>e, <2>1, <2>2, <2>3 DEF EndInv, ErrorsInv
  <2> QED
      BY <2>2, <2>4 DEF EndInv
<1>9. CASE SB!Shutdown \/ UNCHANGED SB!vars \/ \E m \in Messages : SB!LockExpires(m)
  <2>1. UNCHANGED <<start, routine, errors, current, received>>
      BY <1>9 DEF SB!Shutdown, SB!LockExpires, SB!vars
  <2> QED
      BY <1>1, <2>1 DEF EndInv, HandsInv
<1>10. CASE SB!Restart
  <2>1. /\ start' = "select" /\ errors' = 0 /\ received' = {}
        /\ routine' = [x \in SB!Routines |-> "run"]
        /\ current' = [c \in Consumers |-> None]
      BY <1>10 DEF SB!Restart
  <2>2. Exited' = {}
      BY <2>1 DEF Exited, SB!Routines
  <2>3. ErrorsInv'
      BY <2>1, <2>2, FS_EmptySet DEF ErrorsInv
  <2> QED
      BY <1>0, <2>1, <2>3 DEF EndInv, HandsInv, GatherInv
<1> QED
    BY <1>2, <1>3, <1>4, <1>5, <1>6, <1>7, <1>8, <1>9, <1>10 DEF SB!Next, SB!Consume

\* Messages stay with routines that run, in every reachable state.
LEMMA EndInvariance == ASSUME BusConstants PROVE SB!Spec => []EndInv
<1>1. SB!Init => EndInv
  <2> SUFFICES ASSUME SB!Init PROVE EndInv
      OBVIOUS
  <2>1. Exited = {} /\ errors = 0
      BY DEF SB!Init, Exited
  <2> QED
      BY <2>1, FS_EmptySet DEF SB!Init, EndInv, HandsInv, GatherInv, ErrorsInv
<1>2. BusInv /\ EndInv /\ [SB!Next]_(SB!vars) => EndInv'
    BY EndNext
<1> QED
    BY <1>1, <1>2, BusInvariance, PTL DEF SB!Spec

\* Start of the Service Bus source returns with no message in hand.
THEOREM BusShutdownLeavesNothing == ASSUME BusConstants PROVE SB!Spec => []NothingInHand
<1>1. EndInv => NothingInHand
  <2> SUFFICES ASSUME EndInv, start = "gather"
               PROVE  /\ \A x \in SB!Routines : routine[x] = "exit"
                      /\ received = {} /\ \A c \in Consumers : current[c] = None
      BY DEF NothingInHand
  <2>1. Producer \in SB!Routines /\ Consumers \subseteq SB!Routines
      BY DEF SB!Routines
  <2> QED
      BY <2>1 DEF EndInv, HandsInv, GatherInv
<1> QED
    BY <1>1, EndInvariance, PTL

\* errChan is too small by one error at most: it never blocks a routine that another waits for.
THEOREM ErrorsLoseNobodyElse == ASSUME BusConstants PROVE SB!Spec => []OnlyLastBlocks
<1>1. EndInv => OnlyLastBlocks
  <2> SUFFICES ASSUME EndInv, NEW x \in SB!Routines, routine[x] = "fail",
                      errors = SB!maxConcurrent
               PROVE  \A y \in SB!Routines \ {x} : routine[y] = "exit"
      BY DEF OnlyLastBlocks
  <2> DEFINE Others == SB!Routines \ {x}
  <2>1. IsFiniteSet(Others) /\ Cardinality(Others) = SB!maxConcurrent
    <3>1. SB!maxConcurrent \in Nat
        BY MaxType
    <3>2. IsFiniteSet(SB!Routines) /\ Cardinality(SB!Routines) = SB!maxConcurrent + 1
        BY RoutinesFinite
    <3>3. IsFiniteSet(Others) /\ Cardinality(Others) = Cardinality(SB!Routines) - 1
        BY <3>2, FS_RemoveElement
    <3> HIDE DEF Others
    <3> QED
        BY <3>1, <3>2, <3>3
  <2>2. Exited \subseteq Others
      BY DEF Exited
  <2>3. SB!maxConcurrent <= Cardinality(Exited)
      BY DEF EndInv, ErrorsInv
  <2> HIDE DEF Others
  <2>4. Exited = Others
    <3>1. Exited \in SUBSET Others
        BY <2>2
    <3>2. /\ Cardinality(Exited) <= Cardinality(Others)
          /\ Cardinality(Others) = Cardinality(Exited) => Others = Exited
        BY <2>1, <3>1, FS_Subset
    <3>3. Cardinality(Exited) \in Nat
        BY <2>1, <3>1, FS_Subset, FS_CardinalityType
    <3> QED
        BY <2>1, <2>3, <3>2, <3>3, MaxType
  <2> QED
      BY <2>4 DEF Exited, Others
<1> QED
    BY <1>1, EndInvariance, PTL

\* A copy of a message has one holder: no two consumers work on the same lock, and the
\* producer has let go of what it handed over.  Two consumers that handle a message at
\* the same time hold different locks of it, of which at most one is valid.
CopiesApart ==
    \A c \in Consumers : current[c] # None =>
        /\ current[c] \notin received
        /\ \A d \in Consumers \ {c} : current[d] # current[c]

\* Messages are locked anew before they are received, and handed over once.
LEMMA ApartNext ==
    ASSUME BusConstants PROVE BusInv /\ CopiesApart /\ [SB!Next]_(SB!vars) => CopiesApart'
<1> SUFFICES ASSUME BusInv, CopiesApart, [SB!Next]_(SB!vars) PROVE CopiesApart'
    OBVIOUS
<1> USE DEF SB!workVars, SB!busVars
<1>0. current \in [Consumers -> SB!Copies \cup {None}]
    BY DEF BusInv, SB!TypeOK
<1>1. ASSUME NEW c \in Consumers, received' = received, current' = [current EXCEPT ![c] = None]
      PROVE  CopiesApart'
    BY <1>0, <1>1 DEF CopiesApart
<1>2. CASE SB!ReceiveMessages
  <2>1. PICK S \in SUBSET Messages : \E l \in [S -> Locks] :
            /\ \A m \in S : l[m] \notin SB!Held(m)
            /\ received' = {[id |-> m, lock |-> l[m]] : m \in S}
      BY <1>2 DEF SB!ReceiveMessages
  <2>2. PICK l \in [S -> Locks] :
            /\ \A m \in S : l[m] \notin SB!Held(m)
            /\ received' = {[id |-> m, lock |-> l[m]] : m \in S}
      BY <2>1
  <2>3. ASSUME NEW c \in Consumers, current[c] \in received' PROVE FALSE
    <3>1. PICK m \in S : current[c] = [id |-> m, lock |-> l[m]]
        BY <2>2, <2>3
    <3>2. l[m] \in SB!Held(m)
        BY <3>1 DEF SB!Held
    <3> QED
        BY <2>2, <3>2
  <2>4. UNCHANGED current
      BY <1>2 DEF SB!ReceiveMessages
  <2> QED
      BY <2>3, <2>4 DEF CopiesApart
<1>3. ASSUME NEW c \in Consumers, SB!HandOver(c) PROVE CopiesApart'
  <2>1. PICK k \in received : received' = received \ {k} /\ current' = [current EXCEPT ![c] = k]
      BY <1>3 DEF SB!HandOver
  <2>2. \A d \in Consumers : current'[d] = IF d = c THEN k ELSE current[d]
      BY <1>0, <2>1
  <2>3. k # None => \A d \in Consumers : current[d] # k
      BY <2>1 DEF CopiesApart
  <2> QED
      BY <2>1, <2>2, <2>3 DEF CopiesApart
<1>4. ASSUME NEW c \in Consumers,
             SB!ConvertFails(c) \/ SB!HandleFails(c) \/ SB!CompleteMessage(c)
      PROVE  CopiesApart'
  <2>1. received' = received /\ current' = [current EXCEPT ![c] = None]
      BY <1>4 DEF SB!ConvertFails, SB!HandleFails, SB!CompleteMessage, SB!Leave
  <2> QED
      BY <1>1, <2>1
<1>5. CASE SB!Restart
  <2>1. current' = [c \in Consumers |-> None]
      BY <1>5 DEF SB!Restart
  <2> QED
      BY <2>1 DEF CopiesApart
<1>6. CASE \/ SB!ProducerExits \/ SB!ProducerFails
           \/ \E c \in Consumers : SB!ConsumerExits(c) \/ SB!SendEvent(c)
           \/ \E x \in SB!Routines : SB!ReportError(x)
           \/ SB!StartTakesError \/ SB!StartSeesDone \/ SB!WaitReturns \/ SB!Gather
           \/ SB!Shutdown \/ (\E m \in Messages : SB!LockExpires(m)) \/ UNCHANGED SB!vars
  <2>1. UNCHANGED <<received, current>>
      BY <1>6 DEF SB!ProducerExits, SB!ProducerFails, SB!ConsumerExits, SB!SendEvent,
                  SB!ReportError, SB!StartTakesError, SB!StartSeesDone, SB!WaitReturns,
                  SB!Gather, SB!Shutdown, SB!LockExpires, SB!vars
  <2> QED
      BY <2>1 DEF CopiesApart
<1> QED
    BY <1>2, <1>3, <1>4, <1>5, <1>6 DEF SB!Next, SB!Consume

\* No lock of a message is ever in two hands.
THEOREM OneHolder == ASSUME BusConstants PROVE SB!Spec => []CopiesApart
<1>1. SB!Init => CopiesApart
    BY DEF SB!Init, CopiesApart
<1>2. BusInv /\ CopiesApart /\ [SB!Next]_(SB!vars) => CopiesApart'
    BY ApartNext
<1> QED
    BY <1>1, <1>2, BusInvariance, PTL DEF SB!Spec
=============================================================================
