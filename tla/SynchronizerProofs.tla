------------------------- MODULE SynchronizerProofs -------------------------
(***************************************************************************)
(* Proofs about the Synchronizer for any number of requests, responses and *)
(* correlation keys.                                                       *)
(***************************************************************************)
EXTENDS Synchronizer, Integers, TLAPS

\* A request has a key once it was dispatched, is forwarded only then, and only
\* the channel of a request that returned is closed.
Dispatched ==
    \A r \in Requests :
        /\ pc[r] # "idle" => key[r] \in Keys
        /\ sender[r] # "none" => pc[r] # "idle"
        /\ r \in closed => pc[r] = "done"

\* A request whose client still waits has no answer yet.
Waiting ==
    \A r \in Requests :
        pc[r] \in {"idle", "spawned", "select"} => reply[r] = "none" /\ answer[r] = None

\* A response handler that has not sent yet has no verdict; the channel it holds
\* is that of a request with the key of the request it answers; and what a client
\* received came through the client's own channel.
InFlight ==
    /\ \A p \in Responses :
          /\ rpc[p] # "done" => verdict[p] = "none"
          /\ rpc[p] = "forward" => channel[p] # None
          /\ channel[p] # None =>
                /\ rpc[p] # "idle"
                /\ origin[p] # None
                /\ pc[channel[p]] # "idle" /\ pc[origin[p]] # "idle"
                /\ key[channel[p]] = key[origin[p]]
    /\ \A r \in Requests : answer[r] # None => channel[answer[r]] = r

\* The inductive invariant.
Inv == /\ TypeOK
       /\ SessionOwned
       /\ Dispatched
       /\ Waiting
       /\ InFlight
       /\ AckedResponseReceived

USE NoneAssumption

\* The invariant holds when the adapter starts with an empty session map.
LEMMA InvInit == Init => Inv
<1> SUFFICES ASSUME Init PROVE Inv
    OBVIOUS
<1>1. TypeOK
    BY DEF Init, TypeOK, Replies, Verdicts
<1>2. SessionOwned
    BY DEF Init, SessionOwned, Held
<1>3. Dispatched /\ Waiting /\ InFlight /\ AckedResponseReceived
    BY DEF Init, Dispatched, Waiting, InFlight, AckedResponseReceived
<1> QED
    BY <1>1, <1>2, <1>3 DEF Inv

\* storage.delete closes the channel of the request that calls it: the session map
\* holds that request under its key.
LEMMA OwnSession ==
    ASSUME Inv, NEW r \in Requests, Held(r)
    PROVE  key[r] \in Keys /\ sessions[key[r]] = r
BY DEF Inv, SessionOwned, Dispatched, Held

\* Every step of a handler, of a forwarding goroutine, a crash and a restart
\* preserve the invariant.
LEMMA InvNext == Inv /\ [Next]_vars => Inv'
<1> SUFFICES ASSUME Inv, [Next]_vars PROVE Inv'
    OBVIOUS
<1> USE DEF Inv
<1>1. ASSUME NEW r \in Requests, ServeRequest(r) PROVE Inv'
  <2> USE <1>1 DEF ServeRequest, set, add, reqVars, respVars
  <2>1. TypeOK'
    BY DEF TypeOK, Replies, Verdicts
  <2>2. SessionOwned'
    BY DEF TypeOK, SessionOwned, Held, Dispatched
  <2>3. Dispatched'
    BY DEF TypeOK, Dispatched
  <2>4. Waiting'
    BY DEF TypeOK, Waiting
  <2>5. InFlight'
    BY DEF TypeOK, InFlight, Dispatched
  <2>6. AckedResponseReceived'
    BY DEF TypeOK, AckedResponseReceived, Waiting, InFlight
  <2> QED
    BY <2>1, <2>2, <2>3, <2>4, <2>5, <2>6
<1>2. ASSUME NEW r \in Requests, EnterSelect(r) PROVE Inv'
  <2> USE <1>2 DEF EnterSelect, reqVars, respVars
  <2>1. TypeOK'
    BY DEF TypeOK, Replies, Verdicts
  <2>2. SessionOwned'
    BY DEF TypeOK, SessionOwned, Held, Dispatched
  <2>3. Dispatched'
    BY DEF TypeOK, Dispatched
  <2>4. Waiting'
    BY DEF TypeOK, Waiting
  <2>5. InFlight'
    BY DEF TypeOK, InFlight, Dispatched
  <2>6. AckedResponseReceived'
    BY DEF TypeOK, AckedResponseReceived, Waiting, InFlight
  <2> QED
    BY <2>1, <2>2, <2>3, <2>4, <2>5, <2>6
<1>3. ASSUME NEW r \in Requests, SendReturns(r) PROVE Inv'
  <2> USE <1>3 DEF SendReturns, reqVars, respVars
  <2>1. TypeOK'
    BY DEF TypeOK, Replies, Verdicts
  <2>2. SessionOwned'
    BY DEF TypeOK, SessionOwned, Held, Dispatched
  <2>3. Dispatched'
    BY DEF TypeOK, Dispatched
  <2>4. Waiting'
    BY DEF TypeOK, Waiting
  <2>5. InFlight'
    BY DEF TypeOK, InFlight, Dispatched
  <2>6. AckedResponseReceived'
    BY DEF TypeOK, AckedResponseReceived, Waiting, InFlight
  <2> QED
    BY <2>1, <2>2, <2>3, <2>4, <2>5, <2>6
<1>4. ASSUME NEW r \in Requests, Select(r) PROVE Inv'
  <2> USE <1>4 DEF Select, SelectReady, reqVars, respVars
  <2>1. TypeOK'
    BY DEF TypeOK, Replies, Verdicts
  <2>2. SessionOwned'
    BY DEF TypeOK, SessionOwned, Held, Dispatched
  <2>3. Dispatched'
    BY DEF TypeOK, Dispatched
  <2>4. Waiting'
    BY DEF TypeOK, Waiting
  <2>5. InFlight'
    BY DEF TypeOK, InFlight, Dispatched
  <2>6. AckedResponseReceived'
    BY DEF TypeOK, AckedResponseReceived, Waiting, InFlight
  <2> QED
    BY <2>1, <2>2, <2>3, <2>4, <2>5, <2>6
<1>5. ASSUME NEW r \in Requests, CloseSendErr(r) PROVE Inv'
  <2> USE <1>5 DEF CloseSendErr, reqVars, respVars
  <2>1. TypeOK'
    BY DEF TypeOK, Replies, Verdicts
  <2>2. SessionOwned'
    BY DEF TypeOK, SessionOwned, Held, Dispatched
  <2>3. Dispatched'
    BY DEF TypeOK, Dispatched
  <2>4. Waiting'
    BY DEF TypeOK, Waiting
  <2>5. InFlight'
    BY DEF TypeOK, InFlight, Dispatched
  <2>6. AckedResponseReceived'
    BY DEF TypeOK, AckedResponseReceived, Waiting, InFlight
  <2> QED
    BY <2>1, <2>2, <2>3, <2>4, <2>5, <2>6
<1>6. ASSUME NEW r \in Requests, delete(r) PROVE Inv'
  <2> USE <1>6 DEF delete, reqVars, respVars
  <2>0. key[r] \in Keys /\ sessions[key[r]] = r
    BY OwnSession DEF Held
  <2>1. TypeOK'
    BY <2>0 DEF TypeOK, Replies, Verdicts
  <2>2. SessionOwned'
    BY <2>0 DEF TypeOK, SessionOwned, Held, Dispatched
  <2>3. Dispatched'
    BY <2>0 DEF TypeOK, Dispatched
  <2>4. Waiting'
    BY <2>0 DEF TypeOK, Waiting
  <2>5. InFlight'
    BY <2>0 DEF TypeOK, InFlight, Dispatched
  <2>6. AckedResponseReceived'
    BY <2>0 DEF TypeOK, AckedResponseReceived, Waiting, InFlight
  <2> QED
    BY <2>1, <2>2, <2>3, <2>4, <2>5, <2>6
<1>7. ASSUME NEW r \in Requests, SenderPanics(r) PROVE Inv'
  <2> USE <1>7 DEF SenderPanics, reqVars, respVars
  <2>1. TypeOK'
    BY DEF TypeOK, Replies, Verdicts
  <2>2. SessionOwned'
    BY DEF TypeOK, SessionOwned, Held, Dispatched
  <2>3. Dispatched'
    BY DEF TypeOK, Dispatched
  <2>4. Waiting'
    BY DEF TypeOK, Waiting
  <2>5. InFlight'
    BY DEF TypeOK, InFlight, Dispatched
  <2>6. AckedResponseReceived'
    BY DEF TypeOK, AckedResponseReceived, Waiting, InFlight
  <2> QED
    BY <2>1, <2>2, <2>3, <2>4, <2>5, <2>6
<1>8. ASSUME NEW p \in Responses, ServeResponse(p) PROVE Inv'
  <2> USE <1>8 DEF ServeResponse, get, reqVars, respVars
  <2>1. TypeOK'
    BY DEF TypeOK, Replies, Verdicts, Dispatched
  <2>2. SessionOwned'
    BY DEF TypeOK, SessionOwned, Held, Dispatched
  <2>3. Dispatched'
    BY DEF TypeOK, Dispatched
  <2>4. Waiting'
    BY DEF TypeOK, Waiting
  <2>5. InFlight'
    BY DEF TypeOK, InFlight, Dispatched, SessionOwned, Held
  <2>6. AckedResponseReceived'
    BY DEF TypeOK, AckedResponseReceived, Waiting, InFlight
  <2> QED
    BY <2>1, <2>2, <2>3, <2>4, <2>5, <2>6
<1>9. ASSUME NEW p \in Responses, Forward(p) PROVE Inv'
  <2> USE <1>9 DEF Forward, reqVars, respVars
  <2>1. TypeOK'
    BY DEF TypeOK, Replies, Verdicts
  <2>2. SessionOwned'
    BY DEF TypeOK, SessionOwned, Held, Dispatched
  <2>3. Dispatched'
    BY DEF TypeOK, Dispatched
  <2>4. Waiting'
    BY DEF TypeOK, Waiting, InFlight
  <2>5. InFlight'
    BY DEF TypeOK, InFlight, Dispatched
  <2>6. AckedResponseReceived'
    <3> DEFINE c == channel[p]
    <3>0. /\ c \in Requests /\ verdict[p] = "none"
          /\ \A r \in Requests : answer[r] # p
      BY DEF TypeOK, InFlight, AckedResponseReceived
    <3>1. CASE c \in closed \/ pc[c] # "select"
      <4>1. /\ UNCHANGED <<reply, answer>>
            /\ verdict'[p] # "ACK"
            /\ \A q \in Responses : q # p => verdict'[q] = verdict[q]
        BY <3>0, <3>1 DEF TypeOK
      <4> QED
        BY <3>0, <4>1 DEF TypeOK, AckedResponseReceived
    <3>2. CASE c \notin closed /\ pc[c] = "select"
      <4>1. answer[c] = None
        BY <3>0, <3>2 DEF Waiting
      <4>2. /\ verdict' = [verdict EXCEPT ![p] = "ACK"]
            /\ answer' = [answer EXCEPT ![c] = p]
            /\ reply' = [reply EXCEPT ![c] = "ACK"]
        BY <3>2
      <4> HIDE DEF c, Forward
      <4> QED
        BY <3>0, <4>1, <4>2 DEF TypeOK, AckedResponseReceived
    <3> QED
      BY <3>1, <3>2
  <2> QED
    BY <2>1, <2>2, <2>3, <2>4, <2>5, <2>6
<1>10. CASE Restart
  <2> USE <1>10 DEF Restart, reqVars, respVars
  <2>1. TypeOK'
    BY DEF TypeOK, Replies, Verdicts
  <2>2. SessionOwned'
    BY DEF TypeOK, SessionOwned, Held, Dispatched
  <2>3. Dispatched'
    BY DEF TypeOK, Dispatched
  <2>4. Waiting'
    BY DEF TypeOK, Waiting
  <2>5. InFlight'
    BY DEF TypeOK, InFlight, Dispatched
  <2>6. AckedResponseReceived'
    BY DEF TypeOK, AckedResponseReceived, Waiting, InFlight
  <2> QED
    BY <2>1, <2>2, <2>3, <2>4, <2>5, <2>6
<1>11. CASE UNCHANGED vars
  BY <1>11 DEF vars, reqVars, respVars, TypeOK, SessionOwned, Held, Dispatched, Waiting,
            InFlight, AckedResponseReceived
<1> QED
  BY <1>1, <1>2, <1>3, <1>4, <1>5, <1>6, <1>7, <1>8, <1>9, <1>10, <1>11 DEF Next, Serve

\* The inductive invariant holds in every reachable state.
THEOREM Invariance == Spec => []Inv
BY InvInit, InvNext, PTL DEF Spec

\* Every variable keeps its type; in particular storage.delete only ever closes the
\* response channel of a request.
THEOREM TypeCorrect == Spec => []TypeOK
<1>1. Inv => TypeOK
    BY DEF Inv
<1> QED
    BY <1>1, Invariance, PTL

\* From storage.add to storage.delete, and at no other time, the session under a
\* request's key is the request's own, and its channel is open.
THEOREM SessionsOwned == Spec => []SessionOwned
<1>1. Inv => SessionOwned
    BY DEF Inv
<1> QED
    BY <1>1, Invariance, PTL

\* serveResponse acknowledges an event exactly when one client received it.
THEOREM AcksAreReceipts == Spec => []AckedResponseReceived
<1>1. Inv => AckedResponseReceived
    BY DEF Inv
<1> QED
    BY <1>1, Invariance, PTL

\* A client only receives the response to a request with its own correlation key.
THEOREM Correlation == Spec => []CorrectCorrelation
<1>1. Inv => CorrectCorrelation
    BY DEF Inv, InFlight, CorrectCorrelation, TypeOK
<1> QED
    BY <1>1, Invariance, PTL

\* serveRequest hands a response to its client at most once, while the session is
\* open and before any other reply.
THEOREM AnswersInTime == Spec => NoLateAnswer
<1> DEFINE InTime == \A r \in Requests :
                       answer'[r] # answer[r] =>
                         reply[r] = "none" /\ sessions[key[r]] = r
<1>1. Inv /\ [Next]_vars => [InTime]_vars
  <2> SUFFICES ASSUME Inv, Next, NEW r \in Requests, answer'[r] # answer[r]
               PROVE  reply[r] = "none" /\ sessions[key[r]] = r
      BY DEF vars
  <2>1. PICK p \in Responses : Forward(p)
      BY DEF Next, Serve, ServeRequest, set, add, EnterSelect, SendReturns, Select,
             CloseSendErr, delete, SenderPanics, Restart, ServeResponse, reqVars
  <2>2. pc[r] = "select"
      BY <2>1 DEF Forward, Inv, TypeOK
  <2>3. reply[r] = "none"
      BY <2>2 DEF Inv, Waiting
  <2>4. sessions[key[r]] = r
      BY <2>2, OwnSession DEF Held
  <2> QED
      BY <2>2, <2>3, <2>4
<1> QED
    BY <1>1, Invariance, PTL DEF Spec, NoLateAnswer

----------------------------------------------------------------------------
(* Further results. *)

\* A client whose key no other request drew receives the response to its own request:
\* collisions of randString are the only way to someone else's.
OwnResponse ==
    \A r \in Requests :
        answer[r] # None /\ (\A q \in Requests \ {r} : key[q] # key[r]) => origin[answer[r]] = r

\* Correlation with distinct keys is ownership.
THEOREM UniqueKeysGetOwnResponse == Spec => []OwnResponse
<1>1. Inv => OwnResponse
  <2> SUFFICES ASSUME Inv, NEW r \in Requests, answer[r] # None,
                      \A q \in Requests \ {r} : key[q] # key[r]
               PROVE  origin[answer[r]] = r
      BY DEF OwnResponse
  <2>1. answer[r] \in Responses /\ channel[answer[r]] = r
      BY DEF Inv, TypeOK, InFlight
  <2>2. origin[answer[r]] \in Requests /\ key[origin[answer[r]]] = key[r]
      BY <2>1 DEF Inv, TypeOK, InFlight
  <2> QED
      BY <2>2
<1> QED
    BY <1>1, Invariance, PTL

\* The handlers of a request and of a response return with an answer, and have none
\* before: no select, default or deferred call leaves a connection unanswered, and a
\* crash of the process counts as one.
ReturnedWasAnswered ==
    /\ \A r \in Requests : reply[r] # "none" <=> pc[r] \in {"leaving", "closing", "done"}
    /\ \A p \in Responses : verdict[p] # "none" <=> rpc[p] = "done"

\* Every step that ends a wait gives the answer, and no step takes it back.
LEMMA AnswerNext == Inv /\ ReturnedWasAnswered /\ [Next]_vars => ReturnedWasAnswered'
<1> SUFFICES ASSUME Inv, ReturnedWasAnswered, [Next]_vars PROVE ReturnedWasAnswered'
    OBVIOUS
<1> USE DEF ReturnedWasAnswered, reqVars, respVars
<1>1. TypeOK
    BY DEF Inv
<1>2. ASSUME NEW r \in Requests, ServeRequest(r) \/ Serve(r) \/ SendReturns(r)
      PROVE  ReturnedWasAnswered'
  <2>1. CASE ServeRequest(r)
      BY <1>1, <2>1 DEF ServeRequest, set, add, TypeOK
  <2>2. CASE EnterSelect(r) \/ CloseSendErr(r) \/ delete(r) \/ SendReturns(r)
      BY <1>1, <2>2 DEF EnterSelect, CloseSendErr, delete, SendReturns, TypeOK
  <2>3. CASE Select(r)
    <3>1. PICK res \in SelectReady(r) : reply' = [reply EXCEPT ![r] = res]
        BY <2>3 DEF Select
    <3>2. res # "none"
        BY DEF SelectReady
    <3>3. pc' = [pc EXCEPT ![r] = "leaving"] /\ UNCHANGED <<rpc, verdict>>
        BY <2>3 DEF Select
    <3> QED
        BY <1>1, <3>1, <3>2, <3>3 DEF TypeOK
  <2> QED
      BY <1>2, <2>1, <2>2, <2>3 DEF Serve
<1>3. ASSUME NEW r \in Requests, SenderPanics(r) PROVE ReturnedWasAnswered'
    BY <1>1, <1>3 DEF SenderPanics, TypeOK
<1>4. ASSUME NEW p \in Responses, ServeResponse(p) PROVE ReturnedWasAnswered'
    BY <1>1, <1>4 DEF ServeResponse, TypeOK
<1>5. ASSUME NEW p \in Responses, Forward(p) PROVE ReturnedWasAnswered'
  <2> DEFINE c == channel[p]
  <2>1. rpc' = [rpc EXCEPT ![p] = "done"]
        /\ \E v \in {"panic", "ACK", "502refused"} : verdict' = [verdict EXCEPT ![p] = v]
      BY <1>5 DEF Forward
  <2>2. \/ UNCHANGED <<pc, reply>>
        \/ reply' = [reply EXCEPT ![c] = "ACK"] /\ pc' = [pc EXCEPT ![c] = "leaving"]
      BY <1>5 DEF Forward
  <2> HIDE DEF c
  <2>3. \A q \in Responses : verdict'[q] # "none" <=> rpc'[q] = "done"
      BY <1>1, <2>1 DEF TypeOK
  <2>4. \A r \in Requests : reply'[r] # "none" <=> pc'[r] \in {"leaving", "closing", "done"}
      BY <1>1, <2>2 DEF TypeOK
  <2> QED
      BY <2>3, <2>4
<1>6. CASE Restart \/ UNCHANGED vars
    BY <1>6 DEF Restart, vars
<1> QED
    BY <1>2, <1>3, <1>4, <1>5, <1>6 DEF Next

\* Nobody leaves serveRequest or serveResponse without an answer, or is answered before.
THEOREM EveryoneIsAnswered == Spec => []ReturnedWasAnswered
<1>1. Init => ReturnedWasAnswered
    BY DEF Init, ReturnedWasAnswered
<1> QED
    BY <1>1, AnswerNext, Invariance, PTL DEF Spec

\* How far serveRequest has come.
Stage ==
    [s \in {"idle", "spawned", "select", "leaving", "closing", "done"} |->
        CASE s = "idle" -> 0 [] s = "spawned" -> 1 [] s = "select" -> 2
          [] s = "leaving" -> 3 [] s = "closing" -> 4 [] OTHER -> 5]

\* serveRequest returns after at most four steps of its own, whatever the sink, the
\* backend and the other handlers do in between: each of its steps brings it further,
\* and nobody's step brings it back.
Advances ==
    [][\A r \in Requests : /\ Stage[pc[r]] <= Stage[pc'[r]]
                           /\ Serve(r) => Stage[pc[r]] < Stage[pc'[r]]]_vars

\* No handler goes round in circles in serveRequest.
THEOREM HandlersAdvance == Spec => Advances
<1> DEFINE A == \A r \in Requests : /\ Stage[pc[r]] <= Stage[pc'[r]]
                                    /\ Serve(r) => Stage[pc[r]] < Stage[pc'[r]]
<1>1. Inv /\ Next => A
  <2> SUFFICES ASSUME Inv, Next, NEW r \in Requests
               PROVE  /\ Stage[pc[r]] <= Stage[pc'[r]]
                      /\ Serve(r) => Stage[pc[r]] < Stage[pc'[r]]
      OBVIOUS
  <2> USE DEF reqVars, respVars
  <2>0. pc \in [Requests -> {"idle", "spawned", "select", "leaving", "closing", "done"}]
      BY DEF Inv, TypeOK
  <2>1. ASSUME NEW q \in Requests, Serve(q)
        PROVE  \/ pc[q] = "spawned" /\ pc' = [pc EXCEPT ![q] = "select"]
               \/ pc[q] = "select" /\ pc' = [pc EXCEPT ![q] = "leaving"]
               \/ pc[q] = "leaving" /\ pc' = [pc EXCEPT ![q] = "closing"]
               \/ pc[q] = "closing" /\ pc' = [pc EXCEPT ![q] = "done"]
      BY <2>1 DEF Serve, EnterSelect, Select, CloseSendErr, delete
  <2>2. Serve(r) => Stage[pc[r]] < Stage[pc'[r]]
      BY <2>0, <2>1 DEF Stage
  <2>3. CASE \E q \in Requests : Serve(q)
      BY <2>0, <2>1, <2>3 DEF Stage
  <2>4. CASE \E q \in Requests : ServeRequest(q)
    <3>1. PICK q \in Requests : ServeRequest(q)
        BY <2>4
    <3>2. pc[q] = "idle" /\ \E s \in {"spawned", "done"} : pc' = [pc EXCEPT ![q] = s]
        BY <3>1 DEF ServeRequest, add
    <3> QED
        BY <2>0, <2>2, <3>2 DEF Stage
  <2>5. CASE \E q \in Requests : SenderPanics(q)
    <3>1. pc'[r] = IF pc[r] = "idle" THEN "idle" ELSE "done"
        BY <2>5 DEF SenderPanics
    <3> QED
        BY <2>0, <2>2, <3>1 DEF Stage
  <2>6. CASE \E p \in Responses : Forward(p)
    <3>1. PICK p \in Responses : Forward(p)
        BY <2>6
    <3>2. \/ UNCHANGED pc
          \/ pc[channel[p]] = "select" /\ pc' = [pc EXCEPT ![channel[p]] = "leaving"]
        BY <3>1 DEF Forward
    <3> QED
        BY <2>0, <2>2, <3>2 DEF Stage
  <2>7. CASE \/ \E q \in Requests : SendReturns(q)
             \/ \E p \in Responses : ServeResponse(p)
             \/ Restart
    <3>1. UNCHANGED pc
        BY <2>7 DEF SendReturns, ServeResponse, Restart
    <3> QED
        BY <2>0, <2>2, <3>1 DEF Stage
  <2> QED
      BY <2>2, <2>3, <2>4, <2>5, <2>6, <2>7 DEF Next
<1>2. Inv /\ [Next]_vars => [A]_vars
    BY <1>1
<1> QED
    BY <1>2, Invariance, PTL DEF Spec, Advances
=============================================================================
