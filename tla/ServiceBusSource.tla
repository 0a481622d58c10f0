-------------------------- MODULE ServiceBusSource --------------------------
(***************************************************************************)
(* The Azure Service Bus source adapter                                    *)
(* (pkg/sources/adapter/azureservicebussource).  One producer receives     *)
(* messages and hands them, over an unbuffered channel, to maxConcurrent   *)
(* consumers, which send the events of a message to the sink and complete  *)
(* the message.  The first error of any routine is meant to stop all of    *)
(* them; Start gathers the errors from a buffered channel.                 *)
(***************************************************************************)
EXTENDS Naturals, FiniteSets

CONSTANTS
    Messages,     \* messages of the queue or topic
    NumEvents,    \* the number of events a message is converted to; it is 1 with
                  \* the only message processor there is
    Locks,        \* lock tokens (bounds the copies of a message)
    Consumers,    \* the maxConcurrent consumer goroutines
    Producer,     \* the producer goroutine
    None

ASSUME ConstantsAssumption ==
    /\ NumEvents \in [Messages -> Nat]
    /\ IsFiniteSet(Consumers) /\ Producer \notin Consumers
    /\ None \notin Messages /\ None \notin Locks

Routines      == Consumers \cup {Producer}
maxConcurrent == Cardinality(Consumers)
Copies        == [id : Messages, lock : Locks]
EventsOf(m)   == 1..NumEvents[m]

VARIABLES
    start,      \* where Start is: select, wait (for the WaitGroup) or gather
    done,       \* cctx is done
    routine,    \* routine -> run, fail (writing to errChan) or exit
    errors,     \* the number of errors in errChan
    received,   \* the producer's received messages not yet handed over
    current,    \* consumer -> the message it handles
    next,       \* consumer -> the next event of that message to send
    refused,    \* consumer -> whether the sink refused an event of it
    inBus,      \* Service Bus: whether a message is available or completed
    lock,       \* Service Bus: the valid lock of a message, if any
    acked       \* message -> the events the sink acknowledged

busVars  == <<inBus, lock>>
workVars == <<received, current, next, refused>>
vars     == <<start, done, routine, errors, workVars, busVars, acked>>

TypeOK ==
    /\ start \in {"select", "wait", "gather"}
    /\ done \in BOOLEAN
    /\ routine \in [Routines -> {"run", "fail", "exit"}]
    /\ errors \in 0..maxConcurrent
    /\ received \in SUBSET Copies
    /\ current \in [Consumers -> Copies \cup {None}]
    /\ next \in [Consumers -> Nat]
    /\ refused \in [Consumers -> BOOLEAN]
    /\ inBus \in [Messages -> {"available", "completed"}]
    /\ lock \in [Messages -> Locks \cup {None}]
    /\ acked \in [Messages -> SUBSET Nat]

Init ==
    /\ start = "select" /\ done = FALSE
    /\ routine = [x \in Routines |-> "run"]
    /\ errors = 0
    /\ received = {}
    /\ current = [c \in Consumers |-> None]
    /\ next = [c \in Consumers |-> 1]
    /\ refused = [c \in Consumers |-> FALSE]
    /\ inBus = [m \in Messages |-> "available"]
    /\ lock = [m \in Messages |-> None]
    /\ acked = [m \in Messages |-> {}]

\* The lock tokens of a message that are held somewhere in the adapter.
Held(m) == {l \in Locks : \/ [id |-> m, lock |-> l] \in received
                          \/ \E c \in Consumers : current[c] = [id |-> m, lock |-> l]}

----------------------------------------------------------------------------
(* The producer. *)

Producing == routine[Producer] = "run" /\ received = {}

\* ReceiveMessages locks some available messages for this receiver.
ReceiveMessages ==
    /\ Producing /\ ~done
    /\ \E S \in SUBSET {m \in Messages : inBus[m] = "available" /\ lock[m] = None} \ {{}} :
       \E l \in [S -> Locks] :
          /\ \A m \in S : l[m] \notin Held(m)
          /\ lock' = [m \in Messages |-> IF m \in S THEN l[m] ELSE lock[m]]
          /\ received' = {[id |-> m, lock |-> l[m]] : m \in S}
    /\ UNCHANGED <<start, done, routine, errors, current, next, refused, inBus, acked>>

\* A cancelled context ends the producer.
ProducerExits ==
    /\ Producing /\ done
    /\ routine' = [routine EXCEPT ![Producer] = "exit"]
    /\ UNCHANGED <<start, done, errors, workVars, busVars, acked>>

\* Receiving failed for another reason.  (The error of toMessage, which would end
\* the producer too, is always nil.)
ProducerFails ==
    /\ Producing
    /\ routine' = [routine EXCEPT ![Producer] = "fail"]
    /\ UNCHANGED <<start, done, errors, workVars, busVars, acked>>

----------------------------------------------------------------------------
(* The consumers. *)

Idle(c)    == routine[c] = "run" /\ current[c] = None
Sent(c)    == current[c] # None /\ next[c] > NumEvents[current[c].id]
\* Leaves the message: the consumer takes another one, or reports an error.
Leave(c, state) ==
    /\ current' = [current EXCEPT ![c] = None]
    /\ next' = [next EXCEPT ![c] = 1]
    /\ refused' = [refused EXCEPT ![c] = FALSE]
    /\ routine' = [routine EXCEPT ![c] = state]

\* The producer hands a message over on the unbuffered channel.  It waits for a
\* consumer even when the context is done, and a consumer may choose the message
\* over the context.
HandOver(c) ==
    /\ Idle(c)
    /\ \E k \in received : /\ received' = received \ {k}
                           /\ current' = [current EXCEPT ![c] = k]
    /\ UNCHANGED <<start, done, routine, errors, next, refused, busVars, acked>>

ConsumerExits(c) ==
    /\ Idle(c) /\ done
    /\ routine' = [routine EXCEPT ![c] = "exit"]
    /\ UNCHANGED <<start, done, errors, workVars, busVars, acked>>

\* The message processor cannot convert the message.
ConvertFails(c) ==
    /\ current[c] # None /\ next[c] = 1
    /\ Leave(c, "fail")
    /\ UNCHANGED <<start, done, errors, received, busVars, acked>>

\* sendCloudEvent: an event that is refused does not keep the next ones from
\* being sent.
SendEvent(c) ==
    /\ current[c] # None /\ ~Sent(c)
    /\ next' = [next EXCEPT ![c] = @ + 1]
    /\ \/ /\ acked' = [acked EXCEPT ![current[c].id] = @ \cup {next[c]}]
          /\ UNCHANGED refused
       \/ /\ refused' = [refused EXCEPT ![c] = TRUE]
          /\ UNCHANGED acked
    /\ UNCHANGED <<start, done, routine, errors, received, current, busVars>>

\* Some event was refused: the message is not completed.
HandleFails(c) ==
    /\ Sent(c) /\ refused[c]
    /\ Leave(c, "fail")
    /\ UNCHANGED <<start, done, errors, received, busVars, acked>>

\* Mutant of CompleteMessage: the refused events are not looked at.
CompleteAnyway(c) ==
    /\ Sent(c)
    /\ LET k == current[c]
       IN  /\ lock[k.id] = k.lock
           /\ inBus' = [inBus EXCEPT ![k.id] = "completed"]
           /\ lock' = [lock EXCEPT ![k.id] = None]
           /\ Leave(c, "run")
    /\ UNCHANGED <<start, done, errors, received, acked>>

\* CompleteMessage fails when the lock was lost or the call goes wrong.
CompleteMessage(c) ==
    /\ Sent(c) /\ ~refused[c]
    /\ LET k == current[c]
       IN  \/ /\ lock[k.id] = k.lock
              /\ inBus' = [inBus EXCEPT ![k.id] = "completed"]
              /\ lock' = [lock EXCEPT ![k.id] = None]
              /\ Leave(c, "run")
           \/ /\ Leave(c, "fail")
              /\ UNCHANGED busVars
    /\ UNCHANGED <<start, done, errors, received, acked>>

\* Mutant of ReportError: errors are collected without a bound.
ReportErrorUnbounded(x) ==
    /\ routine[x] = "fail"
    /\ errors' = errors + 1
    /\ routine' = [routine EXCEPT ![x] = "exit"]
    /\ UNCHANGED <<start, done, workVars, busVars, acked>>

\* errChan <- err; return.
ReportError(x) ==
    /\ routine[x] = "fail" /\ errors < maxConcurrent
    /\ errors' = errors + 1
    /\ routine' = [routine EXCEPT ![x] = "exit"]
    /\ UNCHANGED <<start, done, workVars, busVars, acked>>

----------------------------------------------------------------------------
(* Start. *)

\* Mutant of StartTakesError: Start waits for the routines without cancelling.
StartTakesErrorNoCancel ==
    /\ start = "select" /\ errors > 0
    /\ errors' = errors - 1 /\ start' = "wait"
    /\ UNCHANGED <<done, routine, workVars, busVars, acked>>

\* The select of Start: an error arrived, or the context is done; then cancel().
StartTakesError ==
    /\ start = "select" /\ errors > 0
    /\ errors' = errors - 1 /\ start' = "wait" /\ done' = TRUE
    /\ UNCHANGED <<routine, workVars, busVars, acked>>

StartSeesDone ==
    /\ start = "select" /\ done
    /\ start' = "wait"
    /\ UNCHANGED <<done, routine, errors, workVars, busVars, acked>>

\* wg.Wait returned; the loop over errChan takes what is in it.  Nothing closes
\* the channel, so that the loop never ends.
WaitReturns ==
    /\ start = "wait" /\ \A x \in Routines : routine[x] = "exit"
    /\ start' = "gather"
    /\ UNCHANGED <<done, routine, errors, workVars, busVars, acked>>

Gather ==
    /\ start = "gather" /\ errors > 0
    /\ errors' = errors - 1
    /\ UNCHANGED <<start, done, routine, workVars, busVars, acked>>

----------------------------------------------------------------------------
(* The environment. *)

\* The context Start was given is done.
Shutdown ==
    /\ ~done /\ done' = TRUE
    /\ UNCHANGED <<start, routine, errors, workVars, busVars, acked>>

\* Service Bus gives up a lock that was held for too long.
LockExpires(m) ==
    /\ lock[m] # None
    /\ lock' = [lock EXCEPT ![m] = None]
    /\ UNCHANGED <<start, done, routine, errors, workVars, inBus, acked>>

\* The process is killed and started again.
Restart ==
    /\ start' = "select" /\ done' = FALSE
    /\ routine' = [x \in Routines |-> "run"]
    /\ errors' = 0
    /\ received' = {}
    /\ current' = [c \in Consumers |-> None]
    /\ next' = [c \in Consumers |-> 1]
    /\ refused' = [c \in Consumers |-> FALSE]
    /\ UNCHANGED <<busVars, acked>>

Consume(c) ==
    ConvertFails(c) \/ SendEvent(c) \/ HandleFails(c) \/ CompleteMessage(c)

Next ==
    \/ ReceiveMessages \/ ProducerExits \/ ProducerFails
    \/ \E c \in Consumers : HandOver(c) \/ ConsumerExits(c) \/ Consume(c)
    \/ \E x \in Routines : ReportError(x)
    \/ StartTakesError \/ StartSeesDone \/ WaitReturns \/ Gather
    \/ Shutdown \/ Restart
    \/ \E m \in Messages : LockExpires(m)

Spec == Init /\ [][Next]_vars

\* Goroutines that can run are run, and calls to the sink and to Service Bus
\* return.  Messages need not arrive, locks need not expire, nobody restarts the
\* process.
FairSpec ==
    /\ Spec
    /\ \A c \in Consumers : WF_vars(Consume(c)) /\ WF_vars(ConsumerExits(c))
    /\ \A x \in Routines : WF_vars(ReportError(x))
    /\ WF_vars(ProducerExits) /\ WF_vars(StartTakesError \/ StartSeesDone)
    /\ WF_vars(WaitReturns) /\ WF_vars(Gather)

----------------------------------------------------------------------------
(* Properties. *)

\* The source implements the at-least-once contract: a message is completed only
\* after the sink acknowledged all its events, even when its lock was lost meanwhile
\* and another consumer handles it too.
ALO == INSTANCE AtLeastOnce WITH settled <- {m \in Messages : inBus[m] = "completed"}

Implements == ALO!Spec

Stuck == \/ received # {} /\ \A c \in Consumers : routine[c] # "run"
         \/ errors = maxConcurrent /\ \E x \in Routines : routine[x] = "fail"

\* One routine that fails brings all of them to an end, unless the producer waits
\* for a consumer when none is left or an error finds errChan full (or the process
\* was restarted and all run again).
ErrorStopsAllRoutines ==
    (\E x \in Routines : routine[x] = "fail")
        ~> (start = "gather" \/ Stuck \/ \A x \in Routines : routine[x] = "run")

\* adapter.go:323: "If routines fail while exiting they will write to the errChan,
\* which has capacity to store an error per routine without blocking": while Start
\* waits for the routines, one that fails can write its error.
ErrChanHasCapacity ==
    start = "wait" /\ (\E x \in Routines : routine[x] = "fail")
        => errors < maxConcurrent
=============================================================================
