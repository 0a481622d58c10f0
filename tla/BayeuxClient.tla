---------------------------- MODULE BayeuxClient ----------------------------
(***************************************************************************)
(* The Bayeux client of the Salesforce source                              *)
(* (pkg/sources/adapter/salesforcesource/client/bayeux.go) with the one    *)
(* subscription the adapter makes.  A connect loop authenticates, shakes   *)
(* hands, subscribes and long-polls; it is driven by a token that moves    *)
(* between the channels poll and errc and a backoff goroutine.  A worker   *)
(* loop dispatches what the connect loop received and stores the replay ID *)
(* from which the next subscription resumes.                               *)
(***************************************************************************)
EXTENDS Integers, Sequences

CONSTANTS
    MaxEvents,       \* bound: the events Salesforce publishes
    InitialReplays   \* configured replay IDs: an event's ID, 0 or Tip

Tip == -1            \* replay ID for "only events published from now on"

ASSUME ReplayAssumption ==
    MaxEvents \in Nat /\ InitialReplays \subseteq (0..MaxEvents) \cup {Tip}

VARIABLES
    cancelled,        \* the context passed to Start is done
    loop,             \* where the connect loop is
    poll, errc,       \* signals in the two channels of capacity 1
    backoffs,         \* backoff goroutines that have not signalled poll yet
    needsHandshake,
    inbox,            \* rest of the Connect response: event IDs and meta messages
    worker,           \* where Start's worker loop is
    event,            \* the event the worker dispatches
    initialReplay,    \* the configured replay ID
    replay,           \* subsReplays: the stored replay ID
    published,        \* Salesforce: events 1..published exist
    cursor,           \* Salesforce: the last event sent to the current session
    dispatched,       \* the events given to the dispatcher
    missed            \* events no session will send: lost responses, and events
                      \* older than a subscription to the tip

tokenVars  == <<poll, errc, backoffs>>
serverVars == <<published, cursor, missed>>
workerVars == <<worker, event, initialReplay, replay, dispatched>>
vars == <<cancelled, loop, tokenVars, needsHandshake, inbox, workerVars, serverVars>>

Events == 1..MaxEvents
Meta   == {0, -1}      \* successful, and unsuccessful with advice "handshake"

TypeOK ==
    /\ cancelled \in BOOLEAN
    /\ loop \in {"select", "auth", "handshake", "subscribe", "connect", "report",
                 "deliver", "locked", "stopped"}
    /\ poll \in 0..1 /\ errc \in 0..1 /\ backoffs \in 0..1
    /\ needsHandshake \in BOOLEAN
    /\ inbox \in Seq(Events \cup Meta)
    /\ worker \in {"idle", "dispatch", "store", "returned"}
    /\ event \in 0..MaxEvents
    /\ initialReplay \in (0..MaxEvents) \cup {Tip}
    /\ replay \in (0..MaxEvents) \cup {Tip}
    /\ published \in 0..MaxEvents /\ cursor \in 0..MaxEvents
    /\ dispatched \in SUBSET Events /\ missed \in SUBSET Events

Init ==
    /\ cancelled = FALSE
    /\ loop = "select"
    /\ poll = 1 /\ errc = 0 /\ backoffs = 0
    /\ needsHandshake = TRUE
    /\ inbox = <<>>
    /\ worker = "idle" /\ event = 0
    /\ initialReplay \in InitialReplays /\ replay = initialReplay
    /\ published \in 0..MaxEvents /\ initialReplay <= published /\ cursor = 0
    /\ dispatched = {} /\ missed = {}

----------------------------------------------------------------------------
(* The connect loop. *)

\* case <-b.ctx.Done(): close(b.stopCh).
Stop ==
    /\ loop = "select" /\ cancelled
    /\ loop' = "stopped"
    /\ UNCHANGED <<cancelled, tokenVars, needsHandshake, inbox, workerVars, serverVars>>

\* Mutant of TakeError: the signal stays in the channel.
TakeErrorKeepsSignal ==
    /\ loop = "select" /\ errc = 1
    /\ backoffs' = backoffs + 1
    /\ UNCHANGED <<cancelled, loop, poll, errc, needsHandshake, inbox, workerVars, serverVars>>

\* Mutant of TakeError: the signal is taken and no retry is scheduled.
TakeErrorNoRetry ==
    /\ loop = "select" /\ errc = 1
    /\ errc' = 0
    /\ UNCHANGED <<cancelled, loop, poll, backoffs, needsHandshake, inbox, workerVars, serverVars>>

\* case <-errc: a goroutine signals poll when the backoff has passed.
TakeError ==
    /\ loop = "select" /\ errc = 1
    /\ errc' = 0 /\ backoffs' = backoffs + 1
    /\ UNCHANGED <<cancelled, loop, poll, needsHandshake, inbox, workerVars, serverVars>>

BackoffPasses ==
    /\ backoffs > 0 /\ poll = 0
    /\ backoffs' = backoffs - 1 /\ poll' = 1
    /\ UNCHANGED <<cancelled, loop, errc, needsHandshake, inbox, workerVars, serverVars>>

\* case <-poll.
TakePoll ==
    /\ loop = "select" /\ poll = 1
    /\ poll' = 0
    /\ loop' = IF needsHandshake THEN "auth" ELSE "connect"
    /\ UNCHANGED <<cancelled, errc, backoffs, needsHandshake, inbox, workerVars, serverVars>>

\* authenticate: credentials are created or renewed.
Authenticate ==
    /\ loop = "auth"
    /\ loop' \in {"handshake", "report"}
    /\ UNCHANGED <<cancelled, tokenVars, needsHandshake, inbox, workerVars, serverVars>>

\* handshake holds the mutex while doPost runs, and doPost takes the mutex when the
\* status is 401 or 403: the connect loop then waits for itself.
Handshake ==
    /\ loop = "handshake"
    /\ \/ ~cancelled /\ loop' \in {"subscribe", "locked"}
       \/ loop' = "report"
    /\ UNCHANGED <<cancelled, tokenVars, needsHandshake, inbox, workerVars, serverVars>>

\* The position from which Salesforce sends events to a subscription.
Resume(id) == IF id = Tip THEN published ELSE id

\* subscribe with the stored replay ID, then leave init.
Subscribe ==
    /\ loop = "subscribe"
    /\ \/ /\ ~cancelled
          /\ cursor' = Resume(replay)
          /\ missed' = IF replay = Tip THEN missed \cup 1..published ELSE missed
          /\ needsHandshake' = FALSE
          /\ loop' = "connect"
       \/ /\ loop' = "report"
          /\ UNCHANGED <<needsHandshake, cursor, missed>>
    /\ UNCHANGED <<cancelled, tokenVars, inbox, workerVars, published>>

Range(a, b) == [i \in 1..(b - a) |-> a + i]

\* Connect returned: events of the session and the outcome of the call itself.
ConnectSucceeds ==
    /\ loop = "connect" /\ ~cancelled
    /\ \E n \in cursor..published, m \in Meta :
          /\ inbox' = Append(Range(cursor, n), m)
          /\ cursor' = n
    /\ loop' = "deliver"
    /\ UNCHANGED <<cancelled, tokenVars, needsHandshake, workerVars, published, missed>>

\* Connect failed: the response may be lost with the events in it, and a 401 or 403
\* asks for a new handshake.
ConnectFails ==
    /\ loop = "connect"
    /\ \/ \E n \in cursor..published :
             /\ cursor' = n
             /\ missed' = missed \cup (cursor + 1)..n
             /\ UNCHANGED needsHandshake
       \/ /\ ~cancelled
          /\ needsHandshake' = TRUE
          /\ UNCHANGED <<cursor, missed>>
    /\ loop' = "report"
    /\ UNCHANGED <<cancelled, tokenVars, inbox, workerVars, published>>

\* Mutant of Report: the error path falls through to the end of the loop.
ReportFallsThrough ==
    /\ loop = "report" /\ worker = "idle"
    /\ errc' = 1 /\ poll' = 1 /\ loop' = "select"
    /\ UNCHANGED <<cancelled, backoffs, needsHandshake, inbox, workerVars, serverVars>>

\* b.errCh <- err is taken by the worker, which logs it; errc <- empty.
Report ==
    /\ loop = "report" /\ worker = "idle"
    /\ errc' = 1 /\ loop' = "select"
    /\ UNCHANGED <<cancelled, poll, backoffs, needsHandshake, inbox, workerVars, serverVars>>

\* manageMeta.
ManageMeta ==
    /\ loop = "deliver" /\ inbox # <<>> /\ Head(inbox) \in Meta
    /\ needsHandshake' = (needsHandshake \/ Head(inbox) = -1)
    /\ inbox' = Tail(inbox)
    /\ UNCHANGED <<cancelled, loop, tokenVars, workerVars, serverVars>>

\* Mutant of Deliver: an event is dropped when the worker is busy.
DeliverOrDrop ==
    /\ loop = "deliver" /\ inbox # <<>> /\ Head(inbox) \in Events
    /\ inbox' = Tail(inbox)
    /\ IF worker = "idle" THEN worker' = "dispatch" /\ event' = Head(inbox)
                          ELSE UNCHANGED <<worker, event>>
    /\ UNCHANGED <<cancelled, loop, tokenVars, needsHandshake, initialReplay, replay, dispatched, serverVars>>

\* b.msgCh <- &crs[i]: the worker takes the event when it is idle.
Deliver ==
    /\ loop = "deliver" /\ inbox # <<>> /\ Head(inbox) \in Events
    /\ worker = "idle"
    /\ worker' = "dispatch" /\ event' = Head(inbox)
    /\ inbox' = Tail(inbox)
    /\ UNCHANGED <<cancelled, loop, tokenVars, needsHandshake, initialReplay, replay, dispatched, serverVars>>

\* poll <- empty at the end of the loop.
Delivered ==
    /\ loop = "deliver" /\ inbox = <<>>
    /\ poll' = 1 /\ loop' = "select"
    /\ UNCHANGED <<cancelled, errc, backoffs, needsHandshake, inbox, workerVars, serverVars>>

----------------------------------------------------------------------------
(* The worker loop. *)

\* Mutant of Dispatch: the replay ID is stored before the event is dispatched.
DispatchAfterStore ==
    /\ worker = "dispatch"
    /\ IF replay = event
       THEN dispatched' = dispatched \cup {event} /\ worker' = "store" /\ UNCHANGED replay
       ELSE replay' = event /\ UNCHANGED <<dispatched, worker>>
    /\ UNCHANGED <<cancelled, loop, tokenVars, needsHandshake, inbox, event, initialReplay, serverVars>>

\* DispatchEvent sends the event to the sink; it reports no error to its caller.
Dispatch ==
    /\ worker = "dispatch"
    /\ dispatched' = dispatched \cup {event}
    /\ worker' = "store"
    /\ UNCHANGED <<cancelled, loop, tokenVars, needsHandshake, inbox, event, initialReplay, replay, serverVars>>

StoreReplay ==
    /\ worker = "store"
    /\ replay' = event
    /\ worker' = "idle" /\ event' = 0
    /\ UNCHANGED <<cancelled, loop, tokenVars, needsHandshake, inbox, initialReplay, dispatched, serverVars>>

\* Mutant of Return: the worker stops only when there is nothing left to poll.
ReturnWhenPolled ==
    /\ worker = "idle" /\ loop = "stopped" /\ poll = 0
    /\ worker' = "returned"
    /\ UNCHANGED <<cancelled, loop, tokenVars, needsHandshake, inbox, event, initialReplay, replay, dispatched, serverVars>>

\* case <-b.stopCh.
Return ==
    /\ worker = "idle" /\ loop = "stopped"
    /\ worker' = "returned"
    /\ UNCHANGED <<cancelled, loop, tokenVars, needsHandshake, inbox, event, initialReplay, replay, dispatched, serverVars>>

----------------------------------------------------------------------------
(* The environment. *)

Cancel ==
    /\ ~cancelled /\ cancelled' = TRUE
    /\ UNCHANGED <<loop, tokenVars, needsHandshake, inbox, workerVars, serverVars>>

Publish ==
    /\ published < MaxEvents
    /\ published' = published + 1
    /\ UNCHANGED <<cancelled, loop, tokenVars, needsHandshake, inbox, workerVars, cursor, missed>>

ConnectLoop ==
    \/ TakeError \/ TakePoll \/ Authenticate \/ Handshake \/ Subscribe
    \/ ConnectSucceeds \/ ConnectFails \/ Report \/ ManageMeta \/ Deliver \/ Delivered

Worker == Dispatch \/ StoreReplay \/ Return

Next == ConnectLoop \/ Stop \/ BackoffPasses \/ Worker \/ Cancel \/ Publish

Spec == Init /\ [][Next]_vars

\* The goroutines run, timers expire and HTTP calls return.  select chooses at
\* random among its ready cases, so that a context that stays done is seen.
FairSpec ==
    /\ Spec
    /\ WF_vars(ConnectLoop) /\ SF_vars(Stop)
    /\ WF_vars(BackoffPasses) /\ WF_vars(Worker)

----------------------------------------------------------------------------
(* Properties. *)

\* The token that drives the connect loop is in exactly one place: a second one
\* would fill poll and leak goroutines, none would end polling for good.  That is
\* what "All other cases at the processing loop MUST put the signal in the poll
\* channel" is for.
OneToken ==
    poll + errc + backoffs + (IF loop \in {"select", "stopped"} THEN 0 ELSE 1) = 1

\* The replay ID never runs ahead of the dispatcher: every event up to it was
\* dispatched, or no session was ever going to send it.
NoSilentSkip ==
    replay # Tip => \A e \in Events :
        e <= replay => e \in dispatched \cup missed \cup 1..initialReplay

\* Nothing the session sent is dropped between the two loops: it was dispatched,
\* waits in the response or is in the worker's hands, unless the response was lost.
NothingDropped ==
    \A e \in Events :
        e <= cursor => \/ e \in dispatched \cup missed \cup 1..initialReplay
                       \/ e = event
                       \/ \E i \in 1..Len(inbox) : inbox[i] = e

\* After an error the client polls or shakes hands again.
RetriesAfterError == loop = "report" ~> (loop \in {"auth", "connect"} \/ cancelled)

\* Cancelling the context ends Start, as bayeux.go:161 says ("The process is stopped
\* by cancelling the passed context."), unless a handshake was refused with 401 or
\* 403: doPost then waits for the mutex that handshake holds.
StopsUnlessLocked == cancelled ~> (worker = "returned" \/ loop = "locked")

=============================================================================
