---------------------------- MODULE Synchronizer ----------------------------
(***************************************************************************)
(* The Synchronizer flow adapter (pkg/flow/adapter/synchronizer): it holds *)
(* the HTTP connection of a client open while the client's event travels   *)
(* to the sink, and answers the client with the event that comes back      *)
(* carrying the same correlation key.                                      *)
(*                                                                         *)
(* Every event is dispatched on a goroutine of its own.  A client request  *)
(* also starts a goroutine that forwards the event to the sink.  The       *)
(* goroutines share the session map and talk over two unbuffered channels  *)
(* per request: the session's response channel and sendErr.  A request's   *)
(* response channel is identified by the request that made it.             *)
(***************************************************************************)
CONSTANTS
    Requests,   \* events without a correlation key: client requests
    Responses,  \* events that carry a correlation key: backend responses
    Keys,       \* the correlation keys randString can generate
    None        \* no session, no key, no answer

ASSUME NoneAssumption == None \notin Requests \cup Responses \cup Keys

VARIABLES
    up,         \* the adapter process is running
    sessions,   \* storage.sessions: key -> the request whose channel it holds
    closed,     \* the requests whose response channel was closed
    pc,         \* where the goroutine that serves a request is
    key,        \* the correlation key a request was given
    sender,     \* the goroutine that forwards a request to the sink
    reply,      \* what the client of a request was answered
    answer,     \* the response event a request received from its channel
    rpc,        \* where the goroutine that serves a response is
    channel,    \* the response channel serveResponse took from the storage
    origin,     \* the request the backend answers with this response
    verdict     \* what the sender of a response event was answered

reqVars  == <<pc, key, sender, reply, answer>>
respVars == <<rpc, channel, origin, verdict>>
vars     == <<up, sessions, closed, reqVars, respVars>>

Replies  == {"none", "ACK", "400", "500exists", "500closed", "504", "aborted"}
Verdicts == {"none", "ACK", "502noSession", "502refused", "panic", "aborted"}

TypeOK ==
    /\ up \in BOOLEAN
    /\ sessions \in [Keys -> Requests \cup {None}]
    /\ closed \in SUBSET Requests
    /\ pc \in [Requests -> {"idle", "spawned", "select", "leaving", "closing", "done"}]
    /\ key \in [Requests -> Keys \cup {None}]
    /\ sender \in [Requests -> {"none", "sending", "failed", "done"}]
    /\ reply \in [Requests -> Replies]
    /\ answer \in [Requests -> Responses \cup {None}]
    /\ rpc \in [Responses -> {"idle", "forward", "done"}]
    /\ channel \in [Responses -> Requests \cup {None}]
    /\ origin \in [Responses -> Requests \cup {None}]
    /\ verdict \in [Responses -> Verdicts]

Init ==
    /\ up = TRUE
    /\ sessions = [k \in Keys |-> None]
    /\ closed = {}
    /\ pc = [r \in Requests |-> "idle"]
    /\ key = [r \in Requests |-> None]
    /\ sender = [r \in Requests |-> "none"]
    /\ reply = [r \in Requests |-> "none"]
    /\ answer = [r \in Requests |-> None]
    /\ rpc = [p \in Responses |-> "idle"]
    /\ channel = [p \in Responses |-> None]
    /\ origin = [p \in Responses |-> None]
    /\ verdict = [p \in Responses |-> "none"]

----------------------------------------------------------------------------
(* Client requests: dispatch and serveRequest. *)

\* The part of serveRequest during which the request owns a session.
Held(r) == pc[r] \in {"spawned", "select", "leaving", "closing"}

\* Mutant of add: no check for an existing session, which is overwritten.
addOverwrites(r, k) ==
    /\ sessions' = [sessions EXCEPT ![k] = r]
    /\ pc' = [pc EXCEPT ![r] = "spawned"]
    /\ sender' = [sender EXCEPT ![r] = "sending"]
    /\ UNCHANGED reply

\* storage.add: the key must not have a session, or the request fails.
add(r, k) ==
    IF sessions[k] # None
    THEN /\ pc' = [pc EXCEPT ![r] = "done"]
         /\ reply' = [reply EXCEPT ![r] = "500exists"]
         /\ UNCHANGED <<sessions, sender>>
    ELSE /\ sessions' = [sessions EXCEPT ![k] = r]
         /\ pc' = [pc EXCEPT ![r] = "spawned"]
         /\ sender' = [sender EXCEPT ![r] = "sending"]
         /\ UNCHANGED reply

\* correlationKey.set: the event gets what randString drew, which may be a key that
\* is in use.
set(r, k) == key' = [key EXCEPT ![r] = k]

\* An event without a correlation key arrives: it is given a random key and a
\* session, and the goroutine that forwards it is started.
ServeRequest(r) ==
    /\ up /\ pc[r] = "idle"
    /\ \E k \in Keys : set(r, k) /\ add(r, k)
    /\ UNCHANGED <<up, closed, answer, respVars>>

\* The goroutine parks in its select; only from here on a send on the response
\* channel finds a receiver.
EnterSelect(r) ==
    /\ up /\ pc[r] = "spawned"
    /\ pc' = [pc EXCEPT ![r] = "select"]
    /\ UNCHANGED <<up, sessions, closed, key, sender, reply, answer, respVars>>

\* Send to the sink returned: delivered ends the goroutine, undelivered makes it
\* send the error on sendErr.
SendReturns(r) ==
    /\ up /\ sender[r] = "sending"
    /\ \E res \in {"done", "failed"} : sender' = [sender EXCEPT ![r] = res]
    /\ UNCHANGED <<up, sessions, closed, pc, key, reply, answer, respVars>>

\* Mutant of SelectReady: the select has no timer.
SelectReadyNoTimer(r) ==
    (IF sender[r] = "failed" THEN {"400"} ELSE {})
      \cup (IF r \in closed THEN {"500closed"} ELSE {})

\* The replies the cases of serveRequest's select can give, other than the one
\* that a response event brings (see Forward).
SelectReady(r) ==
    {"504"} \cup (IF sender[r] = "failed" THEN {"400"} ELSE {})
            \cup (IF r \in closed THEN {"500closed"} ELSE {})

Select(r) ==
    /\ up /\ pc[r] = "select"
    /\ \E res \in SelectReady(r) :
          /\ reply' = [reply EXCEPT ![r] = res]
          /\ sender' = IF res = "400" THEN [sender EXCEPT ![r] = "done"] ELSE sender
    /\ pc' = [pc EXCEPT ![r] = "leaving"]
    /\ UNCHANGED <<up, sessions, closed, key, answer, respVars>>

\* The deferred calls run last in, first out: close(sendErr), then
\* storage.delete, which closes the channel the map holds under the key.
CloseSendErr(r) ==
    /\ up /\ pc[r] = "leaving"
    /\ pc' = [pc EXCEPT ![r] = "closing"]
    /\ UNCHANGED <<up, sessions, closed, key, sender, reply, answer, respVars>>

delete(r) ==
    /\ up /\ pc[r] = "closing"
    /\ closed' = closed \cup {sessions[key[r]]}
    /\ sessions' = [sessions EXCEPT ![key[r]] = None]
    /\ pc' = [pc EXCEPT ![r] = "done"]
    /\ UNCHANGED <<up, key, sender, reply, answer, respVars>>

\* A goroutine that sends on sendErr after serveRequest closed it panics.  No
\* handler is above it on the stack, so the process dies and with it every
\* session and every connection it was serving.
SenderPanics(r) ==
    /\ up /\ sender[r] = "failed" /\ pc[r] \in {"closing", "done"}
    /\ up' = FALSE
    /\ sessions' = [k \in Keys |-> None]
    /\ sender' = [q \in Requests |-> IF sender[q] = "none" THEN "none" ELSE "done"]
    /\ pc' = [q \in Requests |-> IF pc[q] = "idle" THEN "idle" ELSE "done"]
    /\ reply' = [q \in Requests |->
                   IF pc[q] \notin {"idle", "done"} THEN "aborted" ELSE reply[q]]
    /\ rpc' = [p \in Responses |-> IF rpc[p] = "idle" THEN "idle" ELSE "done"]
    /\ verdict' = [p \in Responses |->
                     IF rpc[p] = "forward" THEN "aborted" ELSE verdict[p]]
    /\ UNCHANGED <<closed, key, answer, channel, origin>>

\* Kubernetes restarts the container with an empty storage.
Restart ==
    /\ ~up
    /\ up' = TRUE
    /\ UNCHANGED <<sessions, closed, reqVars, respVars>>

----------------------------------------------------------------------------
(* Backend responses: dispatch and serveResponse. *)

\* Mutant of ServeResponse: the session is not looked up by the event's key.
ServeResponseAnySession(p) ==
    /\ up /\ rpc[p] = "idle"
    /\ \E r \in Requests, k \in Keys :
          /\ sender[r] # "none" /\ sessions[k] # None
          /\ origin' = [origin EXCEPT ![p] = r]
          /\ channel' = [channel EXCEPT ![p] = sessions[k]]
          /\ rpc' = [rpc EXCEPT ![p] = "forward"]
    /\ UNCHANGED <<up, sessions, closed, reqVars, verdict>>

\* storage.get: the channel of the key's session, if there is one.
get(k) == sessions[k]

\* The backend answers a request that was forwarded (an event with another key finds
\* no session and changes nothing); storage.get runs under the lock, and the channel
\* it returns is used after the lock is released.
ServeResponse(p) ==
    /\ up /\ rpc[p] = "idle"
    /\ \E r \in Requests :
          /\ sender[r] # "none"
          /\ origin' = [origin EXCEPT ![p] = r]
          /\ LET c == get(key[r])
             IN  /\ channel' = [channel EXCEPT ![p] = c]
                 /\ rpc' = [rpc EXCEPT ![p] = IF c = None THEN "done" ELSE "forward"]
                 /\ verdict' = [verdict EXCEPT
                                 ![p] = IF c = None THEN "502noSession" ELSE "none"]
    /\ UNCHANGED <<up, sessions, closed, reqVars>>

\* Mutant of Forward: the response channel is buffered, so that the send succeeds
\* without a receiver.
ForwardBuffered(p) ==
    /\ up /\ rpc[p] = "forward" /\ channel[p] \notin closed
    /\ rpc' = [rpc EXCEPT ![p] = "done"]
    /\ verdict' = [verdict EXCEPT ![p] = "ACK"]
    /\ IF pc[channel[p]] = "select"
       THEN /\ answer' = [answer EXCEPT ![channel[p]] = p]
            /\ reply' = [reply EXCEPT ![channel[p]] = "ACK"]
            /\ pc' = [pc EXCEPT ![channel[p]] = "leaving"]
       ELSE UNCHANGED <<pc, reply, answer>>
    /\ UNCHANGED <<up, sessions, closed, key, sender, channel, origin>>

\* Mutant of Forward: the event is written to the session whether or not its
\* client still waits.
ForwardUnchecked(p) ==
    /\ up /\ rpc[p] = "forward"
    /\ rpc' = [rpc EXCEPT ![p] = "done"]
    /\ verdict' = [verdict EXCEPT ![p] = "ACK"]
    /\ answer' = [answer EXCEPT ![channel[p]] = p]
    /\ UNCHANGED <<up, sessions, closed, pc, key, sender, reply, channel, origin>>

\* The non-blocking send of serveResponse: a closed channel panics (the CloudEvents
\* client or the HTTP server recovers), a parked receiver takes the event, and
\* otherwise the event is refused.
Forward(p) ==
    /\ up /\ rpc[p] = "forward"
    /\ rpc' = [rpc EXCEPT ![p] = "done"]
    /\ LET c == channel[p]
       IN  \/ /\ c \in closed
              /\ verdict' = [verdict EXCEPT ![p] = "panic"]
              /\ UNCHANGED <<pc, reply, answer>>
           \/ /\ c \notin closed /\ pc[c] = "select"
              /\ verdict' = [verdict EXCEPT ![p] = "ACK"]
              /\ answer' = [answer EXCEPT ![c] = p]
              /\ reply' = [reply EXCEPT ![c] = "ACK"]
              /\ pc' = [pc EXCEPT ![c] = "leaving"]
           \/ /\ c \notin closed /\ pc[c] # "select"
              /\ verdict' = [verdict EXCEPT ![p] = "502refused"]
              /\ UNCHANGED <<pc, reply, answer>>
    /\ UNCHANGED <<up, sessions, closed, key, sender, channel, origin>>

----------------------------------------------------------------------------
Serve(r) == EnterSelect(r) \/ Select(r) \/ CloseSendErr(r) \/ delete(r)

Next ==
    \/ \E r \in Requests : ServeRequest(r) \/ Serve(r) \/ SendReturns(r) \/ SenderPanics(r)
    \/ \E p \in Responses : ServeResponse(p) \/ Forward(p)
    \/ Restart

Spec == Init /\ [][Next]_vars

\* A goroutine that can run is run, a timer that expired is seen, and the
\* container is restarted.  Nothing obliges the sink, the clients or the backend.
FairSpec == /\ Spec
            /\ \A r \in Requests : WF_vars(Serve(r))
            /\ \A p \in Responses : WF_vars(Forward(p))
            /\ WF_vars(Restart)

----------------------------------------------------------------------------
(* Properties. *)

\* A request owns its session: from add to delete, and at no other time, the
\* storage holds its channel under its key, and nobody closes that channel
\* meanwhile.  So "500closed" is never answered, no session outlives its client,
\* and no delete takes away another client's session when keys collide.
SessionOwned ==
    \A r \in Requests :
        /\ \A k \in Keys : sessions[k] = r <=> (Held(r) /\ key[r] = k)
        /\ Held(r) => r \notin closed
        /\ reply[r] # "500closed"

\* The backend is told that its response was forwarded exactly when one client
\* received it; only a crash can then keep it from that client.
AckedResponseReceived ==
    /\ \A p \in Responses :
          verdict[p] = "ACK" <=> \E r \in Requests : answer[r] = p
    /\ \A r, q \in Requests : answer[r] = answer[q] /\ answer[r] # None => r = q
    /\ \A r \in Requests : answer[r] # None => reply[r] \in {"ACK", "aborted"}
    /\ \A r \in Requests : reply[r] = "ACK" => answer[r] # None

\* A client is answered with the response to a request that had its own key,
\* hence with the response to its own request unless two requests drew the same
\* key, although the channel is used after the storage's lock was released.
CorrectCorrelation ==
    \A r \in Requests : answer[r] # None => key[origin[answer[r]]] = key[r]

\* A response reaches a client only once, while its session is open and before
\* it was given any other answer.
NoLateAnswer ==
    [][\A r \in Requests :
          answer'[r] # answer[r] => reply[r] = "none" /\ sessions[key[r]] = r]_vars

\* Every client gets an answer, and every response handler returns, whatever the
\* sink and the backend do.
HandlersReturn ==
    /\ \A r \in Requests : pc[r] # "idle" ~> pc[r] = "done"
    /\ \A p \in Responses : rpc[p] # "idle" ~> rpc[p] = "done"
=============================================================================
