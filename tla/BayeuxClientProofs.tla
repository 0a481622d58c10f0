------------------------ MODULE BayeuxClientProofs ------------------------
(***************************************************************************)
(* The invariants of BayeuxClient, and what Start leaves behind, for any   *)
(* number of events and any configured replay IDs.                         *)
(***************************************************************************)
EXTENDS BayeuxClient, TLAPS

\* The events that need no dispatch any more.
Covered == dispatched \cup missed \cup 1..initialReplay

\* The worker holds an event only while it dispatches and stores it, and every
\* older event was dealt with before.
WorkerInv ==
    /\ worker \in {"idle", "returned"} => event = 0
    /\ worker \in {"dispatch", "store"} =>
          event \in Events /\ \A e \in Events : e < event => e \in Covered
    /\ worker = "store" => event \in Covered

\* The response is consumed before the next call, and holds the session's events in
\* their order.
InboxInv ==
    /\ loop # "deliver" => inbox = <<>>
    /\ \A i \in 1..Len(inbox) : inbox[i] <= cursor
    /\ \A i, j \in 1..Len(inbox) : i < j /\ inbox[j] \in Events => inbox[i] < inbox[j]

\* The inductive invariant.
Inv == TypeOK /\ OneToken /\ WorkerInv /\ InboxInv /\ NoSilentSkip /\ NothingDropped

USE ReplayAssumption DEF Tip, Events, Meta

\* The invariant holds when Start has put the first token into poll.
LEMMA InvInit == Init => Inv
<1> SUFFICES ASSUME Init PROVE Inv
    OBVIOUS
<1>1. TypeOK
  <2>1. cancelled \in BOOLEAN /\ needsHandshake \in BOOLEAN
    BY DEF Init
  <2>3. inbox \in Seq(Events \cup Meta)
    BY DEF Init
  <2>2. initialReplay \in (0..MaxEvents) \cup {Tip} /\ replay = initialReplay
    BY DEF Init
  <2> QED
    BY <2>1, <2>2, <2>3 DEF Init, TypeOK
<1>2. OneToken
    BY DEF Init, OneToken
<1>3. WorkerInv /\ InboxInv
    BY DEF Init, WorkerInv, InboxInv
<1>4. NoSilentSkip /\ NothingDropped
    BY DEF Init, NoSilentSkip, NothingDropped
<1> QED
    BY <1>1, <1>2, <1>3, <1>4 DEF Inv

\* The token moves between its places and no step makes or loses one.
LEMMA TokenNext == TypeOK /\ OneToken /\ [Next]_vars => OneToken'
<1> SUFFICES ASSUME TypeOK, OneToken, [Next]_vars PROVE OneToken'
    OBVIOUS
<1> USE DEF TypeOK, OneToken
<1>1. CASE Stop
    BY <1>1 DEF Stop, tokenVars
<1>7. CASE TakeError
    BY <1>7 DEF TakeError
<1>8. CASE BackoffPasses
    BY <1>8 DEF BackoffPasses
<1>9. CASE TakePoll
    BY <1>9 DEF TakePoll
<1>2. CASE Authenticate \/ Handshake \/ Subscribe
    BY <1>2 DEF Authenticate, Handshake, Subscribe, tokenVars
<1>3. CASE ConnectSucceeds
    BY <1>3 DEF ConnectSucceeds, tokenVars
<1>4. CASE ConnectFails \/ Report
    BY <1>4 DEF ConnectFails, Report, tokenVars
<1>5. CASE ManageMeta \/ Deliver \/ Delivered
    BY <1>5 DEF ManageMeta, Deliver, Delivered, tokenVars
<1>6. CASE Worker \/ Cancel \/ Publish \/ UNCHANGED vars
    BY <1>6 DEF Worker, Dispatch, StoreReplay, Return, Cancel, Publish, vars, tokenVars
<1> QED
    BY <1>1, <1>2, <1>3, <1>4, <1>5, <1>6, <1>7, <1>8, <1>9 DEF Next, ConnectLoop

\* The steps that change nothing the replay invariants speak of, except where the
\* loops are.
LEMMA ControlNext ==
    ASSUME Inv,
           \/ Stop \/ TakeError \/ BackoffPasses \/ TakePoll \/ Authenticate \/ Handshake
           \/ Report \/ Return \/ Cancel \/ Publish
    PROVE  TypeOK' /\ WorkerInv' /\ InboxInv' /\ NoSilentSkip' /\ NothingDropped'
<1> USE DEF Stop, TakeError, BackoffPasses, TakePoll, Authenticate, Handshake,
            Report, Return, Cancel, Publish, tokenVars, serverVars, workerVars
<1>1. TypeOK'
  <2>1. cancelled' \in BOOLEAN /\ needsHandshake' \in BOOLEAN
    BY DEF Inv, TypeOK
  <2>2. /\ loop' \in {"select", "auth", "handshake", "subscribe", "connect", "report",
                   "deliver", "locked", "stopped"}
        /\ worker' \in {"idle", "dispatch", "store", "returned"}
    BY DEF Inv, TypeOK
  <2>3. poll' \in 0..1 /\ errc' \in 0..1 /\ backoffs' \in 0..1
    BY DEF Inv, TypeOK, OneToken
  <2>4. inbox' \in Seq(Events \cup Meta)
    BY DEF Inv, TypeOK
  <2>5. /\ event' \in 0..MaxEvents
        /\ initialReplay' \in (0..MaxEvents) \cup {Tip}
        /\ replay' \in (0..MaxEvents) \cup {Tip}
        /\ published' \in 0..MaxEvents /\ cursor' \in 0..MaxEvents
    <3>1. event' \in 0..MaxEvents
      BY DEF Inv, TypeOK
    <3>2. initialReplay' \in (0..MaxEvents) \cup {Tip}
      BY DEF Inv, TypeOK
    <3>3. replay' \in (0..MaxEvents) \cup {Tip}
      BY DEF Inv, TypeOK
    <3>4. published' \in 0..MaxEvents
      BY DEF Inv, TypeOK
    <3>5. cursor' \in 0..MaxEvents
      BY DEF Inv, TypeOK
    <3> QED
      BY <3>1, <3>2, <3>3, <3>4, <3>5
  <2>6. dispatched' \subseteq Events /\ missed' \subseteq Events
    BY DEF Inv, TypeOK
  <2> QED
    BY <2>1, <2>2, <2>3, <2>4, <2>5, <2>6 DEF TypeOK
<1>2. WorkerInv'
    BY DEF Inv, TypeOK, WorkerInv, Covered
<1>3. InboxInv'
    BY DEF Inv, TypeOK, InboxInv
<1>4. NoSilentSkip' /\ NothingDropped'
    BY DEF Inv, TypeOK, NoSilentSkip, NothingDropped
<1> QED
    BY <1>1, <1>2, <1>3, <1>4

\* A subscription resumes after a replay ID that covers every older event.
LEMMA SubscribeNext ==
    ASSUME Inv, Subscribe
    PROVE  TypeOK' /\ WorkerInv' /\ InboxInv' /\ NoSilentSkip' /\ NothingDropped'
<1> USE DEF Subscribe, Resume, tokenVars, workerVars
<1>1. TypeOK'
  <2>1. cancelled' \in BOOLEAN /\ needsHandshake' \in BOOLEAN
    BY DEF Inv, TypeOK
  <2>2. /\ loop' \in {"select", "auth", "handshake", "subscribe", "connect", "report",
                   "deliver", "locked", "stopped"}
        /\ worker' \in {"idle", "dispatch", "store", "returned"}
    BY DEF Inv, TypeOK
  <2>3. poll' \in 0..1 /\ errc' \in 0..1 /\ backoffs' \in 0..1
    BY DEF Inv, TypeOK, OneToken
  <2>4. inbox' \in Seq(Events \cup Meta)
    BY DEF Inv, TypeOK
  <2>5. /\ event' \in 0..MaxEvents
        /\ initialReplay' \in (0..MaxEvents) \cup {Tip}
        /\ replay' \in (0..MaxEvents) \cup {Tip}
        /\ published' \in 0..MaxEvents /\ cursor' \in 0..MaxEvents
    <3>1. event' \in 0..MaxEvents
      BY DEF Inv, TypeOK
    <3>2. initialReplay' \in (0..MaxEvents) \cup {Tip}
      BY DEF Inv, TypeOK
    <3>3. replay' \in (0..MaxEvents) \cup {Tip}
      BY DEF Inv, TypeOK
    <3>4. published' \in 0..MaxEvents
      BY DEF Inv, TypeOK
    <3>5. cursor' \in 0..MaxEvents
      BY DEF Inv, TypeOK
    <3> QED
      BY <3>1, <3>2, <3>3, <3>4, <3>5
  <2>6. dispatched' \subseteq Events /\ missed' \subseteq Events
    <3>1. 1..published \subseteq Events
      BY DEF Inv, TypeOK
    <3>2. dispatched' = dispatched /\ (missed' = missed \/ missed' = missed \cup 1..published)
      OBVIOUS
    <3> QED
      BY <3>1, <3>2 DEF Inv, TypeOK
  <2> QED
    BY <2>1, <2>2, <2>3, <2>4, <2>5, <2>6 DEF TypeOK
<1>2. WorkerInv'
    BY DEF Inv, TypeOK, WorkerInv, Covered
<1>3. InboxInv'
    BY DEF Inv, TypeOK, InboxInv
<1>4. NoSilentSkip'
    BY DEF Inv, TypeOK, NoSilentSkip
<1>5. NothingDropped'
    BY DEF Inv, TypeOK, InboxInv, NoSilentSkip, NothingDropped
<1> QED
    BY <1>1, <1>2, <1>3, <1>4, <1>5

\* A response holds the events after the session's position, in order.
LEMMA ConnectSucceedsNext ==
    ASSUME Inv, ConnectSucceeds
    PROVE  TypeOK' /\ WorkerInv' /\ InboxInv' /\ NoSilentSkip' /\ NothingDropped'
<1> USE DEF ConnectSucceeds, tokenVars, workerVars
<1>1. PICK n \in cursor..published, m \in Meta :
        inbox' = Append(Range(cursor, n), m) /\ cursor' = n
    OBVIOUS
<1>2. /\ n \in 0..MaxEvents /\ cursor \in 0..MaxEvents /\ cursor <= n
      /\ Range(cursor, n) \in Seq(Events \cup Meta)
      /\ Len(Range(cursor, n)) = n - cursor
      /\ \A i \in 1..(n - cursor) : Range(cursor, n)[i] = cursor + i
    BY DEF Inv, TypeOK, Range
<1>3. /\ inbox' \in Seq(Events \cup Meta)
      /\ Len(inbox') = n - cursor + 1
      /\ \A i \in 1..(n - cursor) : inbox'[i] = cursor + i
      /\ inbox'[n - cursor + 1] = m
  <2> DEFINE r == Range(cursor, n)
  <2>1. r \in Seq(Events \cup Meta) /\ m \in Events \cup Meta /\ inbox' = Append(r, m)
    BY <1>1, <1>2
  <2>2. Len(r) = n - cursor /\ \A i \in 1..(n - cursor) : r[i] = cursor + i
    BY <1>2
  <2>3. n - cursor \in Nat
    BY <1>2
  <2> HIDE DEF r
  <2> QED
    BY <2>1, <2>2, <2>3
<1>4. TypeOK'
    BY <1>1, <1>2, <1>3 DEF Inv, TypeOK, OneToken
<1>5. WorkerInv'
    BY DEF Inv, TypeOK, WorkerInv, Covered
<1>6. InboxInv'
  <2>1. \A i \in 1..Len(inbox') : inbox'[i] <= n
    BY <1>2, <1>3
  <2>2. ASSUME NEW i \in 1..Len(inbox'), NEW j \in 1..Len(inbox'), i < j, inbox'[j] \in Events
        PROVE  inbox'[i] < inbox'[j]
    <3>1. j # n - cursor + 1
      BY <1>3, <2>2
    <3>2. i \in 1..(n - cursor) /\ j \in 1..(n - cursor)
      BY <1>2, <1>3, <2>2, <3>1
    <3> QED
      BY <1>2, <1>3, <2>2, <3>2
  <2> QED
    BY <1>1, <2>1, <2>2 DEF InboxInv
<1>7. NoSilentSkip'
    BY DEF Inv, TypeOK, NoSilentSkip
<1>8. NothingDropped'
  <2> SUFFICES ASSUME NEW e \in Events, e <= n
               PROVE  \/ e \in dispatched \cup missed \cup 1..initialReplay
                      \/ e = event
                      \/ \E i \in 1..Len(inbox') : inbox'[i] = e
      BY <1>1 DEF NothingDropped
  <2>1. CASE e <= cursor
      BY <2>1 DEF Inv, InboxInv, NothingDropped
  <2>2. CASE e > cursor
      <3>1. e - cursor \in 1..(n - cursor) /\ inbox'[e - cursor] = e
        BY <1>2, <1>3, <2>2
      <3> QED
        BY <1>2, <1>3, <3>1
  <2> QED
      BY <2>1, <2>2, <1>2
<1> QED
    BY <1>4, <1>5, <1>6, <1>7, <1>8

\* The events of a lost response count as missed.
LEMMA ConnectFailsNext ==
    ASSUME Inv, ConnectFails
    PROVE  TypeOK' /\ WorkerInv' /\ InboxInv' /\ NoSilentSkip' /\ NothingDropped'
<1> USE DEF ConnectFails, tokenVars, workerVars
<1>1. TypeOK'
  <2>1. cancelled' \in BOOLEAN /\ needsHandshake' \in BOOLEAN
    BY DEF Inv, TypeOK
  <2>2. /\ loop' \in {"select", "auth", "handshake", "subscribe", "connect", "report",
                   "deliver", "locked", "stopped"}
        /\ worker' \in {"idle", "dispatch", "store", "returned"}
    BY DEF Inv, TypeOK
  <2>3. poll' \in 0..1 /\ errc' \in 0..1 /\ backoffs' \in 0..1
    BY DEF Inv, TypeOK, OneToken
  <2>4. inbox' \in Seq(Events \cup Meta)
    BY DEF Inv, TypeOK
  <2>5. /\ event' \in 0..MaxEvents
        /\ initialReplay' \in (0..MaxEvents) \cup {Tip}
        /\ replay' \in (0..MaxEvents) \cup {Tip}
        /\ published' \in 0..MaxEvents /\ cursor' \in 0..MaxEvents
    <3>1. event' \in 0..MaxEvents
      BY DEF Inv, TypeOK
    <3>2. initialReplay' \in (0..MaxEvents) \cup {Tip}
      BY DEF Inv, TypeOK
    <3>3. replay' \in (0..MaxEvents) \cup {Tip}
      BY DEF Inv, TypeOK
    <3>4. published' \in 0..MaxEvents
      BY DEF Inv, TypeOK
    <3>5. cursor' \in 0..MaxEvents
      BY DEF Inv, TypeOK
    <3> QED
      BY <3>1, <3>2, <3>3, <3>4, <3>5
  <2>6. dispatched' \subseteq Events /\ missed' \subseteq Events
    <3>1. \A n \in cursor..published : (cursor + 1)..n \subseteq Events
      BY DEF Inv, TypeOK
    <3>2. /\ dispatched' = dispatched
          /\ \/ missed' = missed
             \/ \E n \in cursor..published : missed' = missed \cup (cursor + 1)..n
      OBVIOUS
    <3> QED
      BY <3>1, <3>2 DEF Inv, TypeOK
  <2> QED
    BY <2>1, <2>2, <2>3, <2>4, <2>5, <2>6 DEF TypeOK
<1>2. WorkerInv'
    BY DEF Inv, TypeOK, WorkerInv, Covered
<1>3. InboxInv'
    BY DEF Inv, TypeOK, InboxInv
<1>4. NoSilentSkip'
    BY DEF Inv, TypeOK, NoSilentSkip
<1>5. NothingDropped'
    BY DEF Inv, TypeOK, InboxInv, NothingDropped
<1> QED
    BY <1>1, <1>2, <1>3, <1>4, <1>5

\* What the connect loop keeps of the response after it took the first message.
LEMMA TailOfInbox ==
    ASSUME Inv, inbox # <<>>, inbox' = Tail(inbox), UNCHANGED cursor
    PROVE  /\ inbox' \in Seq(Events \cup Meta)
           /\ Head(inbox) = inbox[1] /\ 1 \in 1..Len(inbox)
           /\ Len(inbox') = Len(inbox) - 1
           /\ \A i \in 1..Len(inbox') : inbox'[i] = inbox[i + 1] /\ i + 1 \in 1..Len(inbox)
           /\ \A i \in 2..Len(inbox) : inbox'[i - 1] = inbox[i] /\ i - 1 \in 1..Len(inbox')
BY DEF Inv, TypeOK

\* A meta message changes the connect loop and no event.
LEMMA ManageMetaNext ==
    ASSUME Inv, ManageMeta
    PROVE  TypeOK' /\ WorkerInv' /\ InboxInv' /\ NoSilentSkip' /\ NothingDropped'
<1> USE DEF ManageMeta, tokenVars, workerVars, serverVars
<1>0. inbox # <<>> /\ inbox' = Tail(inbox) /\ UNCHANGED cursor
    OBVIOUS
<1>a. inbox \in Seq(Events \cup Meta) /\ Len(inbox) \in Nat
    BY DEF Inv, TypeOK
<1>1. TypeOK'
    BY <1>0, TailOfInbox DEF Inv, TypeOK, OneToken
<1>2. WorkerInv'
    BY DEF Inv, TypeOK, WorkerInv, Covered
<1>3. InboxInv'
    BY <1>0, <1>a, TailOfInbox DEF Inv, InboxInv
<1>4. NoSilentSkip'
    BY DEF Inv, TypeOK, NoSilentSkip
<1>5. NothingDropped'
  <2> SUFFICES ASSUME NEW e \in Events, e <= cursor, e # event,
                      e \notin dispatched \cup missed \cup 1..initialReplay
               PROVE  \E i \in 1..Len(inbox') : inbox'[i] = e
      BY DEF NothingDropped
  <2>1. PICK i \in 1..Len(inbox) : inbox[i] = e
      BY DEF Inv, NothingDropped
  <2>2. i # 1
      BY <1>0, <2>1, TailOfInbox
  <2> QED
      BY <1>0, <1>a, <2>1, <2>2, TailOfInbox
<1> QED
    BY <1>1, <1>2, <1>3, <1>4, <1>5

\* The worker takes the oldest event of the response: whatever is older was dealt
\* with.
LEMMA DeliverNext ==
    ASSUME Inv, Deliver
    PROVE  TypeOK' /\ WorkerInv' /\ InboxInv' /\ NoSilentSkip' /\ NothingDropped'
<1> USE DEF Deliver, tokenVars, serverVars
<1>0. inbox # <<>> /\ inbox' = Tail(inbox) /\ UNCHANGED cursor
    OBVIOUS
<1>a. inbox \in Seq(Events \cup Meta) /\ Len(inbox) \in Nat
    BY DEF Inv, TypeOK
<1>b. Head(inbox) = inbox[1] /\ inbox[1] \in Events /\ inbox[1] <= cursor
    BY <1>0, TailOfInbox DEF Inv, InboxInv
<1>1. TypeOK'
    BY <1>0, <1>b, TailOfInbox DEF Inv, TypeOK, OneToken
<1>2. WorkerInv'
  <2>1. ASSUME NEW e \in Events, e < inbox[1] PROVE e \in Covered
    <3>1. e <= cursor /\ e # event
        BY <1>b, <2>1 DEF Inv, TypeOK, WorkerInv
    <3>2. \A i \in 1..Len(inbox) : inbox[i] # e
      <4> SUFFICES ASSUME NEW i \in 1..Len(inbox), inbox[i] = e PROVE FALSE
          OBVIOUS
      <4>1. i = 1 \/ 1 < i
          BY <1>a
      <4>2. 1 \in 1..Len(inbox)
          BY <1>0, TailOfInbox
      <4>3. 1 < i => inbox[1] < inbox[i]
          BY <4>2 DEF Inv, InboxInv
      <4> QED
          BY <1>b, <2>1, <4>1, <4>3
    <3> QED
        BY <3>1, <3>2 DEF Inv, NothingDropped, Covered
  <2> QED
    BY <1>b, <2>1 DEF WorkerInv, Covered
<1>3. InboxInv'
    BY <1>0, <1>a, TailOfInbox DEF Inv, InboxInv
<1>4. NoSilentSkip'
    BY DEF Inv, TypeOK, NoSilentSkip
<1>5. NothingDropped'
  <2> SUFFICES ASSUME NEW e \in Events, e <= cursor, e # inbox[1],
                      e \notin dispatched \cup missed \cup 1..initialReplay
               PROVE  \E i \in 1..Len(inbox') : inbox'[i] = e
      BY <1>b DEF NothingDropped
  <2>1. PICK i \in 1..Len(inbox) : inbox[i] = e
      BY DEF Inv, WorkerInv, NothingDropped
  <2>2. i # 1
      BY <2>1
  <2>3. i \in 2..Len(inbox)
      BY <2>2
  <2>4. inbox'[i - 1] = inbox[i] /\ i - 1 \in 1..Len(inbox')
      BY <1>0, <1>a, <2>3, TailOfInbox
  <2> QED
      BY <2>1, <2>4
<1> QED
    BY <1>1, <1>2, <1>3, <1>4, <1>5

\* The connect loop polls again when the response is used up.
LEMMA DeliveredNext ==
    ASSUME Inv, Delivered
    PROVE  TypeOK' /\ WorkerInv' /\ InboxInv' /\ NoSilentSkip' /\ NothingDropped'
<1> USE DEF Delivered, workerVars, serverVars
<1>1. TypeOK'
    BY DEF Inv, TypeOK, OneToken
<1>2. WorkerInv'
    BY DEF Inv, TypeOK, WorkerInv, Covered
<1>3. InboxInv'
    BY DEF Inv, TypeOK, InboxInv
<1>4. NoSilentSkip' /\ NothingDropped'
    BY DEF Inv, TypeOK, NoSilentSkip, NothingDropped
<1> QED
    BY <1>1, <1>2, <1>3, <1>4

\* The replay ID is stored after the event was dispatched.
LEMMA WorkerNext ==
    ASSUME Inv, Dispatch \/ StoreReplay
    PROVE  TypeOK' /\ WorkerInv' /\ InboxInv' /\ NoSilentSkip' /\ NothingDropped'
<1> USE DEF Dispatch, StoreReplay, tokenVars, serverVars
<1>1. TypeOK'
  <2>1. cancelled' \in BOOLEAN /\ needsHandshake' \in BOOLEAN
    BY DEF Inv, TypeOK
  <2>2. /\ loop' \in {"select", "auth", "handshake", "subscribe", "connect", "report",
                   "deliver", "locked", "stopped"}
        /\ worker' \in {"idle", "dispatch", "store", "returned"}
    BY DEF Inv, TypeOK
  <2>3. poll' \in 0..1 /\ errc' \in 0..1 /\ backoffs' \in 0..1
    BY DEF Inv, TypeOK, OneToken
  <2>4. inbox' \in Seq(Events \cup Meta)
    BY DEF Inv, TypeOK
  <2>5. /\ event' \in 0..MaxEvents
        /\ initialReplay' \in (0..MaxEvents) \cup {Tip}
        /\ replay' \in (0..MaxEvents) \cup {Tip}
        /\ published' \in 0..MaxEvents /\ cursor' \in 0..MaxEvents
    <3>1. event' \in 0..MaxEvents
      BY DEF Inv, TypeOK
    <3>2. initialReplay' \in (0..MaxEvents) \cup {Tip}
      BY DEF Inv, TypeOK
    <3>3. replay' \in (0..MaxEvents) \cup {Tip}
      BY DEF Inv, TypeOK
    <3>4. published' \in 0..MaxEvents
      BY DEF Inv, TypeOK
    <3>5. cursor' \in 0..MaxEvents
      BY DEF Inv, TypeOK
    <3> QED
      BY <3>1, <3>2, <3>3, <3>4, <3>5
  <2>6. dispatched' \subseteq Events /\ missed' \subseteq Events
    BY DEF Inv, TypeOK, WorkerInv
  <2> QED
    BY <2>1, <2>2, <2>3, <2>4, <2>5, <2>6 DEF TypeOK
<1>2. WorkerInv'
    BY DEF Inv, TypeOK, WorkerInv, Covered
<1>3. InboxInv'
    BY DEF Inv, TypeOK, InboxInv
<1>4. NoSilentSkip'
    BY DEF Inv, TypeOK, WorkerInv, Covered, NoSilentSkip
<1>5. NothingDropped'
    BY DEF Inv, TypeOK, WorkerInv, Covered, NothingDropped
<1> QED
    BY <1>1, <1>2, <1>3, <1>4, <1>5

\* Every step keeps the invariant.
LEMMA InvNext == Inv /\ [Next]_vars => Inv'
<1> SUFFICES ASSUME Inv, [Next]_vars PROVE Inv'
    OBVIOUS
<1>1. OneToken'
    BY TokenNext DEF Inv
<1>2. CASE UNCHANGED vars
    BY <1>2 DEF Inv, vars, tokenVars, serverVars, workerVars, TypeOK, OneToken, WorkerInv,
                InboxInv, NoSilentSkip, NothingDropped, Covered
<1>3. ASSUME Next PROVE TypeOK' /\ WorkerInv' /\ InboxInv' /\ NoSilentSkip' /\ NothingDropped'
    BY <1>3, ControlNext, SubscribeNext, ConnectSucceedsNext, ConnectFailsNext,
       ManageMetaNext, DeliverNext, DeliveredNext, WorkerNext
       DEF Next, ConnectLoop, Worker
<1> QED
    BY <1>1, <1>2, <1>3 DEF Inv

\* The inductive invariant holds in every reachable state of the client.
THEOREM Invariance == Spec => []Inv
BY InvInit, InvNext, PTL DEF Spec

\* Every variable keeps its type: the channels hold at most one signal, and at most
\* one backoff goroutine waits.
THEOREM TypeCorrect == Spec => []TypeOK
<1>1. Inv => TypeOK
    BY DEF Inv
<1> QED
    BY <1>1, Invariance, PTL

\* The connect loop is driven by exactly one token, whatever fails.
THEOREM TokenConserved == Spec => []OneToken
<1>1. Inv => OneToken
    BY DEF Inv
<1> QED
    BY <1>1, Invariance, PTL

\* The stored replay ID never passes an event that was not dispatched.
THEOREM ReplayIsSafe == Spec => []NoSilentSkip
<1>1. Inv => NoSilentSkip
    BY DEF Inv
<1> QED
    BY <1>1, Invariance, PTL

\* No event is dropped between the session and the dispatcher.
THEOREM EventsReachWorker == Spec => []NothingDropped
<1>1. Inv => NothingDropped
    BY DEF Inv
<1> QED
    BY <1>1, Invariance, PTL

----------------------------------------------------------------------------
(* The end of Start. *)

\* The worker, which takes the errors and the events of the connect loop, is there as
\* long as the connect loop runs: neither waits for a goroutine that is gone.
WorkerStays == worker = "returned" => loop = "stopped"

\* Start returns only when every event the session sent was dispatched, apart from
\* those of lost responses: cancelling drops nothing between the two loops, and the
\* replay ID of the last event was stored.
StopLosesNothing ==
    worker = "returned" =>
        /\ inbox = <<>> /\ event = 0
        /\ \A e \in Events : e <= cursor => e \in Covered

\* Nothing leaves the state in which the connect loop closed stopCh.
LEMMA WorkerStaysNext == WorkerStays /\ [Next]_vars => WorkerStays'
<1> SUFFICES ASSUME WorkerStays, [Next]_vars PROVE WorkerStays'
    OBVIOUS
<1>1. CASE ConnectLoop
  <2>1. /\ loop \in {"select", "auth", "handshake", "subscribe", "connect", "report", "deliver"}
        /\ UNCHANGED worker \/ worker' = "dispatch"
      BY <1>1 DEF ConnectLoop, TakeError, TakePoll, Authenticate, Handshake, Subscribe,
                  ConnectSucceeds, ConnectFails, Report, ManageMeta, Deliver, Delivered, workerVars
  <2> QED
      BY <2>1 DEF WorkerStays
<1>2. CASE Stop
    BY <1>2 DEF Stop, WorkerStays
<1>3. CASE Worker
    BY <1>3 DEF Worker, Dispatch, StoreReplay, Return, WorkerStays
<1>4. CASE BackoffPasses \/ Cancel \/ Publish \/ UNCHANGED vars
    BY <1>4 DEF BackoffPasses, Cancel, Publish, vars, workerVars, WorkerStays
<1> QED
    BY <1>1, <1>2, <1>3, <1>4 DEF Next

\* The connect loop never waits for a worker that has returned.
THEOREM WorkerOutlivesLoop == Spec => []WorkerStays
<1>1. Init => WorkerStays
    BY DEF Init, WorkerStays
<1> QED
    BY <1>1, WorkerStaysNext, PTL DEF Spec

\* A cancelled client dispatches what it received before it returns.
THEOREM StopIsClean == Spec => []StopLosesNothing
<1>1. Inv /\ WorkerStays => StopLosesNothing
    BY DEF Inv, WorkerStays, WorkerInv, InboxInv, NothingDropped, Covered, StopLosesNothing
<1> QED
    BY <1>1, Invariance, WorkerOutlivesLoop, PTL
=============================================================================
