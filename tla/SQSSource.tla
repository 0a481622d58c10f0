------------------------------ MODULE SQSSource ------------------------------
(***************************************************************************)
(* The Amazon SQS source adapter (pkg/sources/adapter/awssqssource).       *)
(* Receivers poll the SQS queue and put messages on processQueue;          *)
(* processors convert each message, send its events to the sink and put    *)
(* the message on deleteQueue; deleters collect messages and delete them   *)
(* from SQS in batches.  A message that is not deleted in time becomes     *)
(* visible again and is received again, with a new receipt handle.         *)
(***************************************************************************)
EXTENDS Naturals, Sequences, FiniteSets

CONSTANTS
    Messages,               \* messages of the SQS queue
    NumEvents,              \* the number of events a message is converted to
    Handles,                \* receipt handles (bounds the copies of a message)
    Receivers, Processors, Deleters,
    ReceiveBatch,           \* maxReceiveMsgBatchSize
    DeleteBatch,            \* maxDeleteMsgBatchSize
    ProcessCap, DeleteCap,  \* capacities of the two Go channels
    None

ASSUME SizesAssumption ==
    /\ ReceiveBatch \in Nat \ {0} /\ DeleteBatch \in Nat \ {0}
    /\ ProcessCap \in Nat /\ DeleteCap \in Nat
ASSUME MessagesAssumption ==
    /\ NumEvents \in [Messages -> Nat]
    /\ None \notin Handles /\ None \notin Messages
\* Every goroutine runs one of the three loops.
ASSUME RoutinesAssumption ==
    /\ Receivers \cap Processors = {} /\ Receivers \cap Deleters = {}
    /\ Processors \cap Deleters = {}

VARIABLES
    cancelled,    \* ctx is done: Start is shutting the adapter down
    inSQS,        \* SQS: whether a message is visible, inflight or deleted
    receipt,      \* SQS: the receipt handle of the last receive
    batch,        \* receiver -> received messages not yet put on processQueue
    processQueue, \* the channels between the goroutines
    deleteQueue,
    current,      \* processor -> the message it handles
    next,         \* processor -> the next event of that message to send
    buffer,       \* deleter -> its messageDeleteBuffer: message -> handle
    exited,       \* the goroutines that returned
    acked         \* message -> the events the sink acknowledged

sqsVars == <<inSQS, receipt>>
vars == <<cancelled, sqsVars, batch, processQueue, deleteQueue, current, next,
          buffer, exited, acked>>

Copies     == [id : Messages, handle : Handles]
Routines   == Receivers \cup Processors \cup Deleters
EventsOf(m) == 1..NumEvents[m]

EmptyBuffer == [m \in Messages |-> None]

TypeOK ==
    /\ cancelled \in BOOLEAN
    /\ inSQS \in [Messages -> {"visible", "inflight", "deleted"}]
    /\ receipt \in [Messages -> Handles \cup {None}]
    /\ batch \in [Receivers -> SUBSET Copies]
    /\ processQueue \in Seq(Copies) /\ Len(processQueue) <= ProcessCap
    /\ deleteQueue \in Seq(Copies) /\ Len(deleteQueue) <= DeleteCap
    /\ current \in [Processors -> Copies \cup {None}]
    /\ next \in [Processors -> Nat]
    /\ buffer \in [Deleters -> [Messages -> Handles \cup {None}]]
    /\ exited \in SUBSET Routines
    /\ acked \in [Messages -> SUBSET Nat]

Init ==
    /\ cancelled = FALSE
    /\ inSQS = [m \in Messages |-> "visible"]
    /\ receipt = [m \in Messages |-> None]
    /\ batch = [c \in Receivers |-> {}]
    /\ processQueue = <<>> /\ deleteQueue = <<>>
    /\ current = [p \in Processors |-> None]
    /\ next = [p \in Processors |-> 1]
    /\ buffer = [d \in Deleters |-> EmptyBuffer]
    /\ exited = {}
    /\ acked = [m \in Messages |-> {}]

Running(x) == x \notin exited

\* The copies of a message somewhere in the adapter.
Held(m) ==
    {h \in Handles :
        LET k == [id |-> m, handle |-> h]
        IN  \/ \E c \in Receivers : k \in batch[c]
            \/ \E i \in 1..Len(processQueue) : processQueue[i] = k
            \/ \E i \in 1..Len(deleteQueue) : deleteQueue[i] = k
            \/ \E p \in Processors : current[p] = k
            \/ \E d \in Deleters : buffer[d][m] = h}

----------------------------------------------------------------------------
(* Receivers. *)

\* ReceiveMessage hands out some visible messages, each with a receipt handle
\* that differs from the ones still in use.  The call may fail after SQS handed
\* the messages out; it always fails once the context is done.
Receive(c) ==
    /\ Running(c) /\ batch[c] = {}
    /\ \E S \in SUBSET {m \in Messages : inSQS[m] = "visible" /\ Held(m) # Handles} :
       \E h \in [S -> Handles], ok \in BOOLEAN :
          /\ S # {} /\ Cardinality(S) <= ReceiveBatch
          /\ \A m \in S : h[m] \notin Held(m)
          /\ ok => ~cancelled
          /\ inSQS' = [m \in Messages |-> IF m \in S THEN "inflight" ELSE inSQS[m]]
          /\ receipt' = [m \in Messages |-> IF m \in S THEN h[m] ELSE receipt[m]]
          /\ batch' = [batch EXCEPT
                         ![c] = IF ok THEN {[id |-> m, handle |-> h[m]] : m \in S} ELSE {}]
    /\ UNCHANGED <<cancelled, processQueue, deleteQueue, current, next, buffer,
                   exited, acked>>

\* The receiver blocks until the channel has room, even when ctx is done.
EnqueueProcess(c) ==
    /\ Len(processQueue) < ProcessCap
    /\ \E k \in batch[c] :
          /\ processQueue' = Append(processQueue, k)
          /\ batch' = [batch EXCEPT ![c] = @ \ {k}]
    /\ UNCHANGED <<cancelled, sqsVars, deleteQueue, current, next, buffer,
                   exited, acked>>

ReceiverExits(c) ==
    /\ cancelled /\ Running(c) /\ batch[c] = {}
    /\ exited' = exited \cup {c}
    /\ UNCHANGED <<cancelled, sqsVars, batch, processQueue, deleteQueue, current,
                   next, buffer, acked>>

----------------------------------------------------------------------------
(* Processors. *)

Idle(p) == Running(p) /\ current[p] = None

\* Mutant of Process: the message is put up for deletion before it is sent.
ProcessDeletesFirst(p) ==
    /\ Idle(p) /\ processQueue # <<>> /\ Len(deleteQueue) < DeleteCap
    /\ current' = [current EXCEPT ![p] = Head(processQueue)]
    /\ deleteQueue' = Append(deleteQueue, Head(processQueue))
    /\ processQueue' = Tail(processQueue)
    /\ UNCHANGED <<cancelled, sqsVars, batch, next, buffer, exited, acked>>

\* Takes a message and converts it; a message that cannot be converted (its body
\* is not represented) is dropped, and SQS will hand it out again.
Process(p) ==
    /\ Idle(p) /\ processQueue # <<>>
    /\ \E k \in {Head(processQueue), None} : current' = [current EXCEPT ![p] = k]
    /\ processQueue' = Tail(processQueue)
    /\ UNCHANGED <<cancelled, sqsVars, batch, deleteQueue, next, buffer, exited, acked>>

\* Mutant of SendEvent: the message is deleted although an event was refused.
SendEventIgnoresErrors(p) ==
    /\ current[p] # None /\ next[p] <= NumEvents[current[p].id]
    /\ next' = [next EXCEPT ![p] = @ + 1]
    /\ \E ok \in BOOLEAN :
          acked' = IF ok THEN [acked EXCEPT ![current[p].id] = @ \cup {next[p]}] ELSE acked
    /\ UNCHANGED <<cancelled, sqsVars, batch, processQueue, deleteQueue, current,
                   buffer, exited>>

\* Mutant of SendEvent: the processor returns when the sink refuses an event.
SendEventErrorReturns(p) ==
    /\ current[p] # None /\ next[p] <= NumEvents[current[p].id]
    /\ \/ /\ acked' = [acked EXCEPT ![current[p].id] = @ \cup {next[p]}]
          /\ next' = [next EXCEPT ![p] = @ + 1]
          /\ UNCHANGED <<current, exited>>
       \/ /\ current' = [current EXCEPT ![p] = None]
          /\ exited' = exited \cup {p}
          /\ UNCHANGED <<next, acked>>
    /\ UNCHANGED <<cancelled, sqsVars, batch, processQueue, deleteQueue, buffer>>

\* sendSQSEvent: the sink acknowledges the event, or the rest of the message is
\* skipped and the message not deleted.
SendEvent(p) ==
    /\ current[p] # None /\ next[p] <= NumEvents[current[p].id]
    /\ \/ /\ acked' = [acked EXCEPT ![current[p].id] = @ \cup {next[p]}]
          /\ next' = [next EXCEPT ![p] = @ + 1]
          /\ UNCHANGED current
       \/ /\ current' = [current EXCEPT ![p] = None]
          /\ next' = [next EXCEPT ![p] = 1]
          /\ UNCHANGED acked
    /\ UNCHANGED <<cancelled, sqsVars, batch, processQueue, deleteQueue, buffer, exited>>

\* Mutant of EnqueueDelete: the deletion queue grows without bound.
EnqueueDeleteUnbounded(p) ==
    /\ current[p] # None /\ next[p] > NumEvents[current[p].id]
    /\ deleteQueue' = Append(deleteQueue, current[p])
    /\ current' = [current EXCEPT ![p] = None]
    /\ next' = [next EXCEPT ![p] = 1]
    /\ UNCHANGED <<cancelled, sqsVars, batch, processQueue, buffer, exited, acked>>

\* Every event was sent; the processor blocks until the channel has room, even
\* when ctx is done.
EnqueueDelete(p) ==
    /\ current[p] # None /\ next[p] > NumEvents[current[p].id]
    /\ Len(deleteQueue) < DeleteCap
    /\ deleteQueue' = Append(deleteQueue, current[p])
    /\ current' = [current EXCEPT ![p] = None]
    /\ next' = [next EXCEPT ![p] = 1]
    /\ UNCHANGED <<cancelled, sqsVars, batch, processQueue, buffer, exited, acked>>

\* Mutant of ProcessorExits: the context is looked at only when a message arrives.
ProcessorExitsOnMessage(p) ==
    /\ cancelled /\ Idle(p) /\ processQueue # <<>>
    /\ exited' = exited \cup {p}
    /\ UNCHANGED <<cancelled, sqsVars, batch, processQueue, deleteQueue, current,
                   next, buffer, acked>>

ProcessorExits(p) ==
    /\ cancelled /\ Idle(p)
    /\ exited' = exited \cup {p}
    /\ UNCHANGED <<cancelled, sqsVars, batch, processQueue, deleteQueue, current,
                   next, buffer, acked>>

----------------------------------------------------------------------------
(* Deleters. *)

Buffered(buf) == {m \in Messages : buf[m] # None}

\* DeleteMessageBatch: all, some or none of the entries succeed, and an entry
\* deletes its message only if its receipt handle is the latest one.  Whatever
\* happened, the buffer is emptied afterwards.
deleteMessages(buf) ==
    \E S \in SUBSET Buffered(buf) :
        inSQS' = [m \in Messages |->
                    IF m \in S /\ buf[m] = receipt[m] THEN "deleted" ELSE inSQS[m]]

\* Mutant of Collect: the size of the batch is not looked at.
CollectUnbounded(d) ==
    /\ Running(d) /\ deleteQueue # <<>>
    /\ deleteQueue' = Tail(deleteQueue)
    /\ LET k == Head(deleteQueue)
       IN  buffer' = [buffer EXCEPT ![d] = [@ EXCEPT ![k.id] = k.handle]]
    /\ UNCHANGED <<cancelled, sqsVars, batch, processQueue, current, next, exited, acked>>

\* A message for deletion is added to the buffer, under its id: a later copy
\* replaces an earlier one.  A full buffer is flushed at once.
Collect(d) ==
    /\ Running(d) /\ deleteQueue # <<>>
    /\ deleteQueue' = Tail(deleteQueue)
    /\ LET k   == Head(deleteQueue)
           buf == [buffer[d] EXCEPT ![k.id] = k.handle]
       IN  IF Cardinality(Buffered(buf)) = DeleteBatch
           THEN /\ deleteMessages(buf)
                /\ buffer' = [buffer EXCEPT ![d] = EmptyBuffer]
           ELSE /\ buffer' = [buffer EXCEPT ![d] = buf]
                /\ UNCHANGED inSQS
    /\ UNCHANGED <<cancelled, receipt, batch, processQueue, current, next, exited, acked>>

\* The timer expired, or the context is done and the deleter flushes and returns.
handleDeletion(d) ==
    /\ Running(d)
    /\ deleteMessages(buffer[d])
    /\ buffer' = [buffer EXCEPT ![d] = EmptyBuffer]
    /\ UNCHANGED <<cancelled, receipt, batch, processQueue, deleteQueue, current,
                   next, acked>>

Flush(d) == handleDeletion(d) /\ UNCHANGED exited

DeleterExits(d) == cancelled /\ handleDeletion(d) /\ exited' = exited \cup {d}

----------------------------------------------------------------------------
(* Start, the process and SQS. *)

\* The context of Start is done.
Cancel ==
    /\ ~cancelled /\ cancelled' = TRUE
    /\ UNCHANGED <<sqsVars, batch, processQueue, deleteQueue, current, next,
                   buffer, exited, acked>>

\* The process ends, in good order or not, and a new one starts: everything the
\* adapter held in memory is gone.
Restart ==
    /\ cancelled' = FALSE
    /\ batch' = [c \in Receivers |-> {}]
    /\ processQueue' = <<>> /\ deleteQueue' = <<>>
    /\ current' = [p \in Processors |-> None]
    /\ next' = [p \in Processors |-> 1]
    /\ buffer' = [d \in Deleters |-> EmptyBuffer]
    /\ exited' = {}
    /\ UNCHANGED <<sqsVars, acked>>

\* SQS makes a message visible again that was not deleted in time.
VisibilityTimeout(m) ==
    /\ inSQS[m] = "inflight"
    /\ inSQS' = [inSQS EXCEPT ![m] = "visible"]
    /\ UNCHANGED <<cancelled, receipt, batch, processQueue, deleteQueue, current,
                   next, buffer, exited, acked>>

Next ==
    \/ \E c \in Receivers : Receive(c) \/ EnqueueProcess(c) \/ ReceiverExits(c)
    \/ \E p \in Processors :
          Process(p) \/ SendEvent(p) \/ EnqueueDelete(p) \/ ProcessorExits(p)
    \/ \E d \in Deleters : Collect(d) \/ Flush(d) \/ DeleterExits(d)
    \/ \E m \in Messages : VisibilityTimeout(m)
    \/ Cancel \/ Restart

Spec == Init /\ [][Next]_vars

\* Goroutines that can run are run and calls to the sink return.  Which of several
\* goroutines waiting on a channel is served is left open.
FairSpec ==
    /\ Spec
    /\ \A c \in Receivers : WF_vars(EnqueueProcess(c)) /\ WF_vars(ReceiverExits(c))
    /\ WF_vars(\E p \in Processors : Process(p))
    /\ WF_vars(\E p \in Processors : EnqueueDelete(p))
    /\ \A p \in Processors : WF_vars(SendEvent(p)) /\ WF_vars(ProcessorExits(p))
    /\ WF_vars(\E d \in Deleters : Collect(d))
    /\ \A d \in Deleters : WF_vars(DeleterExits(d))

----------------------------------------------------------------------------
(* Properties. *)

\* A message is deleted from SQS only after the sink acknowledged every event made
\* from it, although deletions are batched, receipts go stale and copies of a
\* message are processed concurrently.
DeletedWasDelivered ==
    \A m \in Messages : inSQS[m] = "deleted" => acked[m] = EventsOf(m)

\* A batch of deletions never exceeds what SQS accepts: a buffer that is not being
\* flushed has room for one more message.
DeleteBufferHasRoom ==
    \A d \in Deleters : Cardinality(Buffered(buffer[d])) < DeleteBatch

\* The source implements the at-least-once contract.
ALO == INSTANCE AtLeastOnce WITH settled <- {m \in Messages : inSQS[m] = "deleted"}

Implements == ALO!Spec

\* While the adapter runs, a receiver gets rid of the messages it received: the
\* pipeline never clogs, whatever the sink and SQS answer.
PipelineDrains ==
    \A c \in Receivers : batch[c] # {} ~> (batch[c] = {} \/ cancelled)

\* A sender blocked for good: its channel is full and all who read it have returned.
Blocked ==
    \/ /\ Len(processQueue) = ProcessCap /\ \E c \in Receivers : batch[c] # {}
       /\ Processors \subseteq exited
    \/ /\ Len(deleteQueue) = DeleteCap /\ \E p \in Processors : current[p] # None
       /\ Deleters \subseteq exited

\* After the context is done every goroutine returns, and Start with it, unless a
\* sender is blocked on a full channel that nobody reads any more.
ShutdownCompletes == cancelled ~> (exited = Routines \/ Blocked \/ ~cancelled)
=============================================================================
