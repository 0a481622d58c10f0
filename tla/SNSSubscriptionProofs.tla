------------------------ MODULE SNSSubscriptionProofs ------------------------
(***************************************************************************)
(* Proofs about SNSSubscription, for any set of sources and any bounds: a  *)
(* subscription outlives its source only for the reasons that its          *)
(* finalizer recorded, and the state has its types.                        *)
(***************************************************************************)
EXTENDS SNSSubscription, TLAPS

\* A worker is busy only with an object that exists.
IdleInv == \A s \in Sources : obj[s] = "absent" => pc[s] = "idle"

\* What the finalizer unsubscribed or did not find is gone altogether: not even a
\* pending subscription is left for a late token to confirm.
GoneInv == \A s \in Sources : obj[s] = "absent" /\ left[s] = "none" => sub[s] = "none"

\* The part of TypeOK that the argument needs.
Shape ==
    /\ obj \in [Sources -> {"absent", "live", "deleted"}]
    /\ pc \in [Sources -> {"idle", "find", "subscribe", "update", "f_find", "f_unsubscribe"}]
    /\ sub \in [Sources -> {"none", "pending", "confirmed"}]
    /\ left \in [Sources -> {"none", "pending", "no URL", "ignored"}]

Inv == Shape /\ IdleInv /\ GoneInv

\* The steps that change neither an object nor a subscription.
Quiet(s) ==
    \/ ReconcileKind(s) \/ MarkNoSink(s) \/ findSubscription(s) \/ updateStatus(s)
    \/ Fail(s) \/ Adapter(s)

\* The steps of one source that change its object or its subscription.
Changing(s) ==
    \/ Create(s) \/ Delete(s) \/ Expire(s) \/ subscribe(s) \/ ensureUnsubscribed(s)
    \/ findToUnsubscribe(s) \/ unsubscribe(s) \/ GiveUp(s) \/ ServeHTTP(s)

\* The steps that concern all sources.
Global == DeleteTopic \/ RouteReady \/ ControllerRestart \/ IsReady \/ AdapterRestart

\* Every step is of one of these kinds.
LEMMA NextCases ==
    ASSUME Next
    PROVE  (\E s \in Sources : Quiet(s) \/ Changing(s)) \/ Global
BY DEF Next, Controller, Quiet, Changing, Global

\* The invariant holds before anything has been created.
LEMMA InitInv == Init => Inv
BY DEF Init, Inv, Shape, IdleInv, GoneInv

\* Only a source that exists is looked at, and looking at it changes nothing but
\* where its worker is.
LEMMA QuietNext ==
    ASSUME Inv, NEW s \in Sources, Quiet(s)
    PROVE  Inv'
<1> USE DEF apiVars, workerVars, snsVars, adapterVars, Goto
<1>1. CASE ReconcileKind(s)
  <2>1. UNCHANGED <<obj, sub, left>> /\ Shape'
    BY <1>1 DEF ReconcileKind, Inv, Shape
  <2>2. obj[s] = "live" /\ \A t \in Sources \ {s} : pc'[t] = pc[t]
    BY <1>1 DEF ReconcileKind, Inv, Shape
  <2>3. IdleInv'
    BY <2>1, <2>2 DEF Inv, IdleInv
  <2> QED
    BY <2>1, <2>3 DEF Inv, GoneInv
<1>2. CASE MarkNoSink(s)
  <2>1. UNCHANGED <<obj, sub, left>> /\ Shape'
    BY <1>2 DEF MarkNoSink, Inv, Shape
  <2>2. obj[s] = "live" /\ \A t \in Sources \ {s} : pc'[t] = pc[t]
    BY <1>2 DEF MarkNoSink, Inv, Shape
  <2>3. IdleInv'
    BY <2>1, <2>2 DEF Inv, IdleInv
  <2> QED
    BY <2>1, <2>3 DEF Inv, GoneInv
<1>3. CASE findSubscription(s)
  <2>1. UNCHANGED <<obj, sub, left>> /\ Shape'
    BY <1>3 DEF findSubscription, Inv, Shape
  <2>2. pc[s] # "idle" /\ \A t \in Sources \ {s} : pc'[t] = pc[t]
    BY <1>3 DEF findSubscription, Inv, Shape
  <2>3. IdleInv'
    BY <2>1, <2>2 DEF Inv, IdleInv
  <2> QED
    BY <2>1, <2>3 DEF Inv, GoneInv
<1>4. CASE updateStatus(s)
  <2>1. UNCHANGED <<obj, sub, left>> /\ Shape'
    BY <1>4 DEF updateStatus, Inv, Shape
  <2>2. pc'[s] = "idle" /\ \A t \in Sources \ {s} : pc'[t] = pc[t]
    BY <1>4 DEF updateStatus, Inv, Shape
  <2>3. IdleInv'
    BY <2>1, <2>2 DEF Inv, IdleInv
  <2> QED
    BY <2>1, <2>3 DEF Inv, GoneInv
<1>5. CASE Fail(s)
  <2>1. UNCHANGED <<obj, sub, left>> /\ Shape'
    BY <1>5 DEF Fail, Inv, Shape
  <2>2. pc[s] # "idle" /\ \A t \in Sources \ {s} : pc'[t] = pc[t]
    BY <1>5 DEF Fail, Inv, Shape
  <2>3. IdleInv'
    BY <2>1, <2>2 DEF Inv, IdleInv
  <2> QED
    BY <2>1, <2>3 DEF Inv, GoneInv
<1>6. CASE Adapter(s)
  <2>1. UNCHANGED <<obj, sub, left, pc>>
    BY <1>6 DEF Adapter, Sync, RegisterHandlerFor, DeregisterHandlerFor
  <2> QED
    BY <2>1 DEF Inv, Shape, IdleInv, GoneInv
<1> QED
    BY <1>1, <1>2, <1>3, <1>4, <1>5, <1>6 DEF Quiet

\* A source is released with the reason "none" only when SNS has nothing of it, and
\* nobody subscribes a source that does not exist.
LEMMA ChangingNext ==
    ASSUME Inv, NEW s \in Sources, Changing(s)
    PROVE  Inv'
<1> USE DEF apiVars, workerVars, snsVars, adapterVars, Goto, Release
<1>1. CASE Create(s)
  <2>1. Shape'
    BY <1>1 DEF Create, Inv, Shape
  <2>2. IdleInv' /\ GoneInv'
    BY <1>1 DEF Create, Inv, Shape, IdleInv, GoneInv
  <2> QED
    BY <2>1, <2>2 DEF Inv
<1>2. CASE Delete(s)
  <2>1. Shape'
    BY <1>2 DEF Delete, Inv, Shape
  <2>2. IdleInv' /\ GoneInv'
    BY <1>2 DEF Delete, Inv, Shape, IdleInv, GoneInv
  <2> QED
    BY <2>1, <2>2 DEF Inv
<1>3. CASE Expire(s)
  <2>1. Shape'
    BY <1>3 DEF Expire, Inv, Shape
  <2>2. IdleInv' /\ GoneInv'
    BY <1>3 DEF Expire, Inv, Shape, IdleInv, GoneInv
  <2> QED
    BY <2>1, <2>2 DEF Inv
<1>4. CASE ServeHTTP(s)
  <2>1. Shape'
    BY <1>4 DEF ServeHTTP, Inv, Shape
  <2>2. IdleInv' /\ GoneInv'
    BY <1>4 DEF ServeHTTP, Inv, Shape, IdleInv, GoneInv
  <2> QED
    BY <2>1, <2>2 DEF Inv
<1>5. CASE subscribe(s)
  <2>1. Shape'
    BY <1>5 DEF subscribe, Inv, Shape
  <2>2. IdleInv' /\ GoneInv'
    BY <1>5 DEF subscribe, Inv, Shape, IdleInv, GoneInv
  <2> QED
    BY <2>1, <2>2 DEF Inv
<1>6. CASE ensureUnsubscribed(s)
  <2>1. Shape' /\ sub' = sub
    BY <1>6 DEF ensureUnsubscribed, Inv, Shape
  <2>2. \A t \in Sources \ {s} : obj'[t] = obj[t] /\ pc'[t] = pc[t] /\ left'[t] = left[t]
    BY <1>6 DEF ensureUnsubscribed, Inv, Shape
  <2>3. obj'[s] = "absent" => pc'[s] = "idle" /\ (left'[s] = "none" => sub[s] = "none")
    BY <1>6 DEF ensureUnsubscribed, Inv, Shape
  <2>4. IdleInv' /\ GoneInv'
    BY <2>1, <2>2, <2>3 DEF Inv, IdleInv, GoneInv
  <2> QED
    BY <2>1, <2>4 DEF Inv
<1>7. CASE findToUnsubscribe(s)
  <2>1. Shape' /\ sub' = sub
    BY <1>7 DEF findToUnsubscribe, Inv, Shape
  <2>2. \A t \in Sources \ {s} : obj'[t] = obj[t] /\ pc'[t] = pc[t] /\ left'[t] = left[t]
    BY <1>7 DEF findToUnsubscribe, Inv, Shape
  <2>3. obj'[s] = "absent" => pc'[s] = "idle" /\ (left'[s] = "none" => sub[s] = "none")
    BY <1>7 DEF findToUnsubscribe, isPending, Inv, Shape, IdleInv
  <2>4. IdleInv' /\ GoneInv'
    BY <2>1, <2>2, <2>3 DEF Inv, IdleInv, GoneInv
  <2> QED
    BY <2>1, <2>4 DEF Inv
<1>8. CASE unsubscribe(s)
  <2>1. Shape'
    BY <1>8 DEF unsubscribe, Inv, Shape
  <2>2. IdleInv' /\ GoneInv'
    BY <1>8 DEF unsubscribe, Inv, Shape, IdleInv, GoneInv
  <2> QED
    BY <2>1, <2>2 DEF Inv
<1>9. CASE GiveUp(s)
  <2>1. Shape'
    BY <1>9 DEF GiveUp, Inv, Shape
  <2>2. IdleInv' /\ GoneInv'
    BY <1>9 DEF GiveUp, Inv, Shape, IdleInv, GoneInv
  <2> QED
    BY <2>1, <2>2 DEF Inv
<1> QED
    BY <1>1, <1>2, <1>3, <1>4, <1>5, <1>6, <1>7, <1>8, <1>9 DEF Changing

\* A deleted topic and restarts bring no subscription back.
LEMMA GlobalNext == ASSUME Inv, Global PROVE Inv'
<1> USE DEF apiVars, workerVars, snsVars, adapterVars
<1>1. CASE DeleteTopic
    BY <1>1 DEF DeleteTopic, Inv, Shape, IdleInv, GoneInv
<1>2. CASE ControllerRestart
    BY <1>2 DEF ControllerRestart, Inv, Shape, IdleInv, GoneInv
<1>3. CASE RouteReady \/ IsReady \/ AdapterRestart
  <2>1. UNCHANGED <<obj, sub, left, pc>>
    BY <1>3 DEF RouteReady, IsReady, AdapterRestart
  <2> QED
    BY <2>1 DEF Inv, Shape, IdleInv, GoneInv
<1> QED
    BY <1>1, <1>2, <1>3 DEF Global

\* The invariant is inductive.
LEMMA InvNext == Inv /\ [Next]_vars => Inv'
<1> SUFFICES ASSUME Inv, [Next]_vars PROVE Inv'
    OBVIOUS
<1>1. CASE Next
    BY <1>1, NextCases, QuietNext, ChangingNext, GlobalNext
<1>2. CASE UNCHANGED vars
    BY <1>2 DEF vars, apiVars, workerVars, snsVars, Inv, Shape, IdleInv, GoneInv
<1> QED
    BY <1>1, <1>2

\* A source that is gone left a confirmed subscription only if its finalizer met a
\* pending one, had no URL, or ignored an error (ensureUnsubscribed).
THEOREM OnlyPendingIsLeft == Spec => []OnlyPendingDangles
<1>1. Inv => OnlyPendingDangles
    BY DEF Inv, GoneInv, OnlyPendingDangles
<1> QED
    BY <1>1, InitInv, InvNext, PTL DEF Spec

\* A subscription that the finalizer of a gone source unsubscribed, or did not find, is
\* not even pending, so that no late token can confirm it: what OnlyPendingDangles says
\* of the present holds of whatever SNS may still do with the subscription.
THEOREM NothingPendingIsLeft == Spec => []GoneInv
<1>1. Inv => GoneInv
    BY DEF Inv
<1> QED
    BY <1>1, InitInv, InvNext, PTL DEF Spec

----------------------------------------------------------------------------
(* Types. *)

\* What the objects' status and the workers' copies of it hold.
StatusType == status \in [Sources -> Status] /\ st \in [Sources -> Status]

\* The adapter's view and the tokens.
ViewType ==
    /\ cached \in [Sources -> {"absent", "live", "deleted"}]
    /\ token \subseteq Sources /\ sinks \subseteq Sources /\ handlers \subseteq Sources

LatchType == topic \in BOOLEAN /\ ready \in BOOLEAN /\ svcURL \in BOOLEAN

\* The numbers of sources made and of faults are bounded.
CountType == changes \in 0..MaxChanges /\ faults \in 0..MaxFaults

\* TypeOK in parts.
LEMMA TypeParts == TypeOK <=> Shape /\ StatusType /\ ViewType /\ LatchType /\ CountType
BY DEF TypeOK, Shape, StatusType, ViewType, LatchType, CountType

\* Nothing has been made, counted or read in the first state.
LEMMA TypeInit == Init => StatusType /\ ViewType /\ LatchType /\ CountType
<1> SUFFICES ASSUME Init PROVE StatusType /\ ViewType /\ LatchType /\ CountType
    OBVIOUS
<1>1. NoStatus \in Status
    BY DEF NoStatus, Status
<1>2. StatusType
    BY <1>1 DEF Init, StatusType
<1>3. ViewType /\ LatchType
    BY DEF Init, ViewType, LatchType
<1>4. CountType
    BY SNSSubscriptionAssumption DEF Init, CountType
<1> QED
    BY <1>2, <1>3, <1>4

\* A source is counted when it is made, a fault when it happens, and neither beyond
\* its bound.
LEMMA CountNext ==
    ASSUME CountType, Next
    PROVE  CountType'
<1>1. /\ UNCHANGED changes \/ (changes < MaxChanges /\ changes' = changes + 1)
      /\ UNCHANGED faults \/ (faults < MaxFaults /\ faults' = faults + 1)
  <2>1. CASE Global
    BY <2>1 DEF Global, DeleteTopic, RouteReady, ControllerRestart, IsReady, AdapterRestart, apiVars
  <2>2. CASE \E s \in Sources : Quiet(s)
    BY <2>2 DEF Quiet, ReconcileKind, MarkNoSink, findSubscription, updateStatus, Fail, Adapter,
       Sync, RegisterHandlerFor, DeregisterHandlerFor, apiVars
  <2>3. CASE \E s \in Sources : Changing(s)
    BY <2>3 DEF Changing, Create, Delete, Expire, subscribe, ensureUnsubscribed,
       findToUnsubscribe, unsubscribe, GiveUp, ServeHTTP, apiVars
  <2> QED
    BY <2>1, <2>2, <2>3, NextCases
<1> QED
    BY <1>1, SNSSubscriptionAssumption DEF CountType

\* The topic goes, the Service gets its URL, the probe latches.
LEMMA LatchNext ==
    ASSUME LatchType, Next
    PROVE  LatchType'
<1>1. CASE Global
    BY <1>1 DEF Global, DeleteTopic, RouteReady, ControllerRestart, IsReady, AdapterRestart,
       snsVars, adapterVars, LatchType
<1>2. CASE \E s \in Sources : Quiet(s)
    BY <1>2 DEF Quiet, ReconcileKind, MarkNoSink, findSubscription, updateStatus, Fail, Adapter,
       Sync, RegisterHandlerFor, DeregisterHandlerFor, snsVars, adapterVars, LatchType
<1>3. CASE \E s \in Sources : Changing(s)
    BY <1>3 DEF Changing, Create, Delete, Expire, subscribe, ensureUnsubscribed,
       findToUnsubscribe, unsubscribe, GiveUp, ServeHTTP, snsVars, adapterVars, LatchType
<1> QED
    BY <1>1, <1>2, <1>3, NextCases

\* The adapter knows of the API server's sources only, SNS of tokens for their URLs.
LEMMA ViewNext ==
    ASSUME ViewType, Shape, Next
    PROVE  ViewType'
<1>1. CASE Global
    BY <1>1 DEF Global, DeleteTopic, RouteReady, ControllerRestart, IsReady, AdapterRestart,
       snsVars, adapterVars, ViewType
<1>2. ASSUME NEW s \in Sources, Quiet(s) PROVE ViewType'
  <2>1. CASE UNCHANGED <<token, cached, sinks, handlers>>
    BY <2>1 DEF ViewType
  <2>2. ASSUME ~Adapter(s) PROVE UNCHANGED <<token, cached, sinks, handlers>>
    BY <1>2, <2>2 DEF Quiet, ReconcileKind, MarkNoSink, findSubscription, updateStatus, Fail,
       snsVars, adapterVars
  <2>3. CASE Sync(s)
    BY <2>3 DEF Sync, snsVars, ViewType, Shape
  <2>4. CASE RegisterHandlerFor(s) \/ DeregisterHandlerFor(s)
    BY <2>4 DEF RegisterHandlerFor, DeregisterHandlerFor, snsVars, ViewType
  <2> QED
    BY <2>1, <2>2, <2>3, <2>4 DEF Adapter
<1>3. ASSUME NEW s \in Sources, Changing(s) PROVE ViewType'
    BY <1>3 DEF Changing, Create, Delete, Expire, subscribe, ensureUnsubscribed,
       findToUnsubscribe, unsubscribe, GiveUp, ServeHTTP, snsVars, adapterVars, ViewType
<1> QED
    BY <1>1, <1>2, <1>3, NextCases

\* A worker finds the subscription confirmed, or not.
LEMMA SetARN ==
    ASSUME st \in [Sources -> Status], NEW s \in Sources, NEW b
    PROVE  [st EXCEPT ![s].arn = @ \/ b] \in [Sources -> Status]
<1>1. (st[s].arn \/ b) \in BOOLEAN
    OBVIOUS
<1> DEFINE arn == st[s].arn \/ b
<1> HIDE DEF arn
<1>2. [st EXCEPT ![s].arn = arn] \in [Sources -> Status]
    BY <1>1 DEF Status, arn
<1> QED
    BY <1>2 DEF arn

\* A worker sets parts of its copy of the Status, and writes or forgets it as a whole.
LEMMA StatusNext ==
    ASSUME StatusType, LatchType, Next
    PROVE  StatusType'
<1> USE DEF apiVars, workerVars
<1>0. /\ NoStatus \in Status
      /\ \A x \in Status : \A b \in BOOLEAN :
           /\ [x EXCEPT !.sink = FALSE] \in Status
           /\ [sink |-> TRUE, url |-> b, arn |-> x.arn] \in Status
    BY DEF NoStatus, Status
<1>1. CASE Global
    BY <1>0, <1>1 DEF Global, DeleteTopic, RouteReady, ControllerRestart, IsReady,
       AdapterRestart, StatusType
<1>2. ASSUME NEW s \in Sources, Quiet(s) PROVE StatusType'
  <2>1. CASE ReconcileKind(s)
    BY <1>0, <2>1 DEF ReconcileKind, StatusType, LatchType
  <2>2. CASE MarkNoSink(s)
    BY <1>0, <2>2 DEF MarkNoSink, StatusType
  <2>3. CASE findSubscription(s)
    BY <2>3, SetARN DEF findSubscription, StatusType
  <2>4. CASE updateStatus(s) \/ Fail(s)
    BY <1>0, <2>4 DEF updateStatus, Fail, StatusType
  <2>5. CASE Adapter(s)
    BY <2>5 DEF Adapter, Sync, RegisterHandlerFor, DeregisterHandlerFor, StatusType
  <2> QED
    BY <1>2, <2>1, <2>2, <2>3, <2>4, <2>5 DEF Quiet
<1>3. ASSUME NEW s \in Sources, Changing(s) PROVE StatusType'
  <2>1. CASE subscribe(s)
    BY <2>1, SetARN DEF subscribe, StatusType
  <2>2. CASE Create(s) \/ Delete(s) \/ Expire(s) \/ ServeHTTP(s)
    BY <2>2 DEF Create, Delete, Expire, ServeHTTP, StatusType
  <2>3. CASE ensureUnsubscribed(s) \/ findToUnsubscribe(s) \/ unsubscribe(s) \/ GiveUp(s)
    BY <1>0, <2>3 DEF ensureUnsubscribed, findToUnsubscribe, unsubscribe, GiveUp, Release, StatusType
  <2> QED
    BY <1>3, <2>1, <2>2, <2>3 DEF Changing
<1> QED
    BY <1>1, <1>2, <1>3, NextCases

\* Every step keeps the types.
LEMMA TypeNext ==
    Shape /\ StatusType /\ ViewType /\ LatchType /\ CountType /\ [Next]_vars
        => StatusType' /\ ViewType' /\ LatchType' /\ CountType'
<1>1. ASSUME Shape, StatusType, ViewType, LatchType, CountType, Next
      PROVE  StatusType' /\ ViewType' /\ LatchType' /\ CountType'
    BY <1>1, CountNext, LatchNext, ViewNext, StatusNext
<1>2. ASSUME StatusType, ViewType, LatchType, CountType, UNCHANGED vars
      PROVE  StatusType' /\ ViewType' /\ LatchType' /\ CountType'
    BY <1>2 DEF vars, apiVars, workerVars, snsVars, adapterVars, StatusType, ViewType,
       LatchType, CountType
<1> QED
    BY <1>1, <1>2

\* The state of controller, adapter and SNS has its types: what the adapter and SNS know
\* of is a source, and the Status is whole however a reconciliation ended (Fail,
\* ControllerRestart).
THEOREM TypeCorrect == Spec => []TypeOK
<1>1. Inv => Shape
    BY DEF Inv
<1> QED
    BY <1>1, InitInv, InvNext, TypeInit, TypeNext, TypeParts, PTL DEF Spec

=============================================================================
