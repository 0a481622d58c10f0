-------------------------- MODULE S3SourceProofs ---------------------------
(***************************************************************************)
(* Proofs about S3Source, for any set of sources and any bounds: the queue *)
(* is deleted for its owner only, and with it, and a removed entry comes   *)
(* back only from a configuration that was read before its removal.        *)
(***************************************************************************)
EXTENDS S3Source, TLAPS

\* A worker is busy only with an object that exists, and finalizes only one that is
\* being deleted.
PhaseInv ==
    \A s \in Sources : /\ obj[s] = "absent" => pc[s] = "idle"
                       /\ pc[s] \in Finalizing => obj[s] = "deleted"

\* Between the look at its tags and its deletion, the queue stays its owner's.
OwnerInv == \A s \in Sources : pc[s] = "f_delete" => queueOwner = s

\* A worker holds a configuration only between reading and writing it.
CopyInv == \A s \in Sources : pc[s] \notin {"put", "f_put"} => notifCfg[s] = NoConfig

\* The entry of a source that is gone, or about to lose its finalizer, is nowhere:
\* neither in the bucket nor in a configuration that some worker is about to write.
Forgotten(s) == config[s] = NoEntry /\ \A t \in Sources : notifCfg[t][s] = NoEntry

EntryInv ==
    \A s \in Sources :
        (obj[s] = "absent" \/ pc[s] = "f_clear") /\ s \notin ignored \cup overlapped =>
            Forgotten(s)

Inv == TypeOK /\ PhaseInv /\ OwnerInv /\ CopyInv /\ EntryInv

\* The steps that touch neither the queue nor a configuration.
Quiet(s) ==
    \/ Create(s) \/ Edit(s) \/ Delete(s) \/ ReconcileKind(s) \/ QueueURL(s)
    \/ QueueAttributes(s) \/ FinalizeKind(s) \/ EnsureNoQueue(s) \/ QueueTags(s)
    \/ IgnoreSQS(s) \/ GiveUp(s) \/ clearFinalizer(s)

\* The steps at SQS.
AtSQS(s) == CreateQueue(s) \/ syncQueuePolicy(s) \/ DeleteQueue(s)

\* The steps that read, write or forget a configuration.
AtS3(s) ==
    \/ getNotificationsConfig(s) \/ configureNotifications(s)
    \/ EnsureNotificationsDisabled(s) \/ Unsubscribe(s) \/ Fail(s)

\* No configuration has no entries.
LEMMA NoConfigEmpty == NoConfig \in Configs /\ \A s \in Sources : NoConfig[s] = NoEntry
BY DEF NoConfig, Configs

\* The invariant holds before anything has been created.
LEMMA InitInv == Init => Inv
<1> SUFFICES ASSUME Init PROVE Inv
    OBVIOUS
<1>1. TypeOK
  <2>1. /\ obj \in [Sources -> {"absent", "live", "deleted"}]
        /\ pc \in [Sources -> {"idle"} \cup Reconciling \cup Finalizing]
    BY DEF Init
  <2>2. spec \in [Sources -> Specs] /\ src \in [Sources -> Specs]
    BY DEF Init
  <2>3. config \in Configs /\ notifCfg \in [Sources -> Configs]
    BY NoConfigEmpty DEF Init
  <2>4. /\ queueOwner \in Sources \cup {Nobody} /\ policy \in BOOLEAN
        /\ ignored \subseteq Sources /\ overlapped \subseteq Sources
    BY DEF Init
  <2>5. changes \in 0..MaxChanges /\ faults \in 0..MaxFaults
    BY S3SourceAssumption DEF Init
  <2> QED
    BY <2>1, <2>2, <2>3, <2>4, <2>5 DEF TypeOK
<1>2. PhaseInv /\ OwnerInv /\ CopyInv
    BY DEF Init, PhaseInv, OwnerInv, CopyInv, Finalizing
<1>3. EntryInv
    BY NoConfigEmpty DEF Init, EntryInv, Forgotten
<1> QED
    BY <1>1, <1>2, <1>3 DEF Inv

\* What users do, and what a worker only looks up, keeps the invariant.
LEMMA QuietNext ==
    ASSUME Inv, NEW s \in Sources, Quiet(s)
    PROVE  Inv'
<1> USE DEF userVars, sqsVars, history, Goto
<1>1. CASE Create(s)
  <2>1. TypeOK'
    BY <1>1, S3SourceAssumption DEF Create, Inv, TypeOK
  <2>2. PhaseInv' /\ OwnerInv' /\ CopyInv'
    BY <1>1 DEF Create, Inv, TypeOK, PhaseInv, OwnerInv, CopyInv, Finalizing
  <2>3. EntryInv'
    <3>1. UNCHANGED <<pc, config, notifCfg>> /\ pc[s] = "idle" /\ obj'[s] = "live"
      BY <1>1 DEF Create, Inv, TypeOK, PhaseInv
    <3>2. \A t \in Sources \ {s} : obj'[t] = obj[t]
      BY <1>1 DEF Create, Inv, TypeOK
    <3>3. ignored' = ignored \ {s} /\ overlapped' = overlapped \ {s}
      BY <1>1 DEF Create
    <3> QED
      BY <3>1, <3>2, <3>3 DEF Inv, EntryInv, Forgotten
  <2> QED
    BY <2>1, <2>2, <2>3 DEF Inv
<1>2. CASE Edit(s)
  <2>1. TypeOK'
    BY <1>2, S3SourceAssumption DEF Edit, Inv, TypeOK
  <2>2. PhaseInv' /\ OwnerInv' /\ CopyInv'
    BY <1>2 DEF Edit, Inv, PhaseInv, OwnerInv, CopyInv
  <2>3. EntryInv'
    BY <1>2 DEF Edit, Inv, EntryInv, Forgotten
  <2> QED
    BY <2>1, <2>2, <2>3 DEF Inv
<1>3. CASE Delete(s)
  <2>1. TypeOK'
    BY <1>3 DEF Delete, Inv, TypeOK
  <2>2. PhaseInv' /\ OwnerInv' /\ CopyInv'
    BY <1>3 DEF Delete, Inv, TypeOK, PhaseInv, OwnerInv, CopyInv
  <2>3. EntryInv'
    BY <1>3 DEF Delete, Inv, TypeOK, EntryInv, Forgotten
  <2> QED
    BY <2>1, <2>2, <2>3 DEF Inv
<1>4. CASE GiveUp(s)
  <2>1. TypeOK'
    BY <1>4, S3SourceAssumption DEF GiveUp, Inv, TypeOK, Finalizing
  <2>2. PhaseInv' /\ OwnerInv' /\ CopyInv'
    BY <1>4 DEF GiveUp, Inv, TypeOK, PhaseInv, OwnerInv, CopyInv, Finalizing
  <2>3. EntryInv'
    <3>1. UNCHANGED <<obj, config, notifCfg, overlapped>> /\ ignored' = ignored \cup {s}
      BY <1>4 DEF GiveUp
    <3>2. \A t \in Sources \ {s} : pc'[t] = pc[t]
      BY <1>4 DEF GiveUp, Inv, TypeOK
    <3> QED
      BY <3>1, <3>2 DEF Inv, EntryInv, Forgotten
  <2> QED
    BY <2>1, <2>2, <2>3 DEF Inv
<1>5. CASE ReconcileKind(s) \/ FinalizeKind(s)
  <2>1. TypeOK'
    BY <1>5 DEF ReconcileKind, FinalizeKind, Inv, TypeOK, Reconciling, Finalizing
  <2>2. PhaseInv'
    BY <1>5 DEF ReconcileKind, FinalizeKind, Inv, TypeOK, PhaseInv, Finalizing
  <2>3. OwnerInv' /\ CopyInv'
    BY <1>5 DEF ReconcileKind, FinalizeKind, Inv, TypeOK, OwnerInv, CopyInv
  <2>4. EntryInv'
    BY <1>5 DEF ReconcileKind, FinalizeKind, Inv, TypeOK, EntryInv, Forgotten
  <2> QED
    BY <2>1, <2>2, <2>3, <2>4 DEF Inv
<1>6. CASE \/ QueueURL(s) \/ QueueAttributes(s) \/ EnsureNoQueue(s) \/ QueueTags(s)
           \/ IgnoreSQS(s)
  <2>1. TypeOK'
    BY <1>6, S3SourceAssumption
       DEF QueueURL, QueueAttributes, EnsureNoQueue, QueueTags, IgnoreSQS, Inv, TypeOK,
       Reconciling, Finalizing
  <2>2. PhaseInv'
    BY <1>6 DEF QueueURL, QueueAttributes, EnsureNoQueue, QueueTags, IgnoreSQS, Inv, TypeOK,
       PhaseInv, Finalizing
  <2>3. OwnerInv'
    BY <1>6 DEF QueueURL, QueueAttributes, EnsureNoQueue, QueueTags, IgnoreSQS,
       assertOwnership, Inv, TypeOK, OwnerInv
  <2>4. CopyInv'
    BY <1>6 DEF QueueURL, QueueAttributes, EnsureNoQueue, QueueTags, IgnoreSQS, Inv, TypeOK, CopyInv
  <2>5. EntryInv'
    BY <1>6 DEF QueueURL, QueueAttributes, EnsureNoQueue, QueueTags, IgnoreSQS, Inv, TypeOK,
       EntryInv, Forgotten
  <2> QED
    BY <2>1, <2>2, <2>3, <2>4, <2>5 DEF Inv
<1>7. CASE clearFinalizer(s)
  <2>1. TypeOK'
    BY <1>7 DEF clearFinalizer, Inv, TypeOK
  <2>2. PhaseInv' /\ OwnerInv' /\ CopyInv'
    BY <1>7 DEF clearFinalizer, Inv, TypeOK, PhaseInv, OwnerInv, CopyInv, Finalizing
  <2>3. EntryInv'
    BY <1>7 DEF clearFinalizer, Inv, TypeOK, EntryInv, Forgotten
  <2> QED
    BY <2>1, <2>2, <2>3 DEF Inv
<1> QED
    BY <1>1, <1>2, <1>3, <1>4, <1>5, <1>6, <1>7 DEF Quiet

\* While one worker is about to delete the queue, it belongs to its source: no other
\* worker is, and a queue that exists is not created again.
LEMMA SQSNext ==
    ASSUME Inv, NEW s \in Sources, AtSQS(s)
    PROVE  Inv'
<1> USE DEF AtSQS, userVars, sqsVars, history, Goto
<1>1. TypeOK'
    BY DEF CreateQueue, syncQueuePolicy, DeleteQueue, queueTags, Inv, TypeOK, Reconciling,
       Finalizing
<1>2. PhaseInv'
    BY DEF CreateQueue, syncQueuePolicy, DeleteQueue, Inv, TypeOK, PhaseInv, Finalizing
<1>3. OwnerInv'
  <2>1. CASE CreateQueue(s)
    BY <2>1, S3SourceAssumption DEF CreateQueue, Inv, TypeOK, OwnerInv
  <2>2. CASE syncQueuePolicy(s)
    BY <2>2 DEF syncQueuePolicy, Inv, TypeOK, OwnerInv
  <2>3. CASE DeleteQueue(s)
    BY <2>3 DEF DeleteQueue, Inv, TypeOK, OwnerInv
  <2> QED
    BY <2>1, <2>2, <2>3
<1>4. CopyInv'
    BY DEF CreateQueue, syncQueuePolicy, DeleteQueue, Inv, TypeOK, CopyInv
<1>5. EntryInv'
    BY DEF CreateQueue, syncQueuePolicy, DeleteQueue, Inv, TypeOK, EntryInv, Forgotten
<1> QED
    BY <1>1, <1>2, <1>3, <1>4, <1>5 DEF Inv

\* Every configuration that is read, and so every one that is written, is without the
\* entries of sources that are gone.
LEMMA S3Next ==
    ASSUME Inv, NEW s \in Sources, AtS3(s)
    PROVE  Inv'
<1> USE DEF userVars, sqsVars, history, Goto, Return
<1>1. CASE getNotificationsConfig(s) \/ EnsureNotificationsDisabled(s)
  <2>1. TypeOK'
    BY <1>1, NoConfigEmpty DEF getNotificationsConfig, EnsureNotificationsDisabled, Inv, TypeOK,
       Reconciling, Finalizing
  <2>2. PhaseInv'
    BY <1>1 DEF getNotificationsConfig, EnsureNotificationsDisabled, Inv, TypeOK, PhaseInv, Finalizing
  <2>3. OwnerInv'
    BY <1>1 DEF getNotificationsConfig, EnsureNotificationsDisabled, Inv, TypeOK, OwnerInv
  <2>4. CopyInv'
    BY <1>1 DEF getNotificationsConfig, EnsureNotificationsDisabled, Inv, TypeOK, CopyInv
  <2>5. EntryInv'
    <3>1. notifCfg'[s] = config \/ notifCfg'[s] = NoConfig
      BY <1>1 DEF getNotificationsConfig, EnsureNotificationsDisabled, Inv, TypeOK
    <3>2. \A t \in Sources \ {s} : notifCfg'[t] = notifCfg[t]
      BY <1>1 DEF getNotificationsConfig, EnsureNotificationsDisabled, Inv, TypeOK
    <3>3. /\ config' = config /\ obj' = obj /\ ignored' = ignored /\ overlapped' = overlapped
          /\ \A t \in Sources : pc'[t] = "f_clear" => pc[t] = "f_clear"
      BY <1>1 DEF getNotificationsConfig, EnsureNotificationsDisabled, Inv, TypeOK
    <3> QED
      BY <3>1, <3>2, <3>3, NoConfigEmpty DEF Inv, EntryInv, Forgotten
  <2> QED
    BY <2>1, <2>2, <2>3, <2>4, <2>5 DEF Inv
<1>2. CASE Fail(s)
  <2>1. TypeOK'
    BY <1>2, NoConfigEmpty, S3SourceAssumption DEF Fail, Inv, TypeOK
  <2>2. PhaseInv' /\ OwnerInv' /\ CopyInv'
    BY <1>2 DEF Fail, Inv, TypeOK, PhaseInv, OwnerInv, CopyInv, Finalizing
  <2>3. EntryInv'
    BY <1>2, NoConfigEmpty DEF Fail, Inv, TypeOK, EntryInv, Forgotten
  <2> QED
    BY <2>1, <2>2, <2>3 DEF Inv
<1>3. CASE configureNotifications(s)
  <2>1. TypeOK'
    BY <1>3, NoConfigEmpty DEF configureNotifications, Inv, TypeOK, Configs
  <2>2. PhaseInv' /\ OwnerInv' /\ CopyInv'
    BY <1>3 DEF configureNotifications, Inv, TypeOK, PhaseInv, OwnerInv, CopyInv, Finalizing
  <2>3. EntryInv'
    <3> SUFFICES ASSUME NEW t \in Sources, obj'[t] = "absent" \/ pc'[t] = "f_clear",
                        t \notin ignored' \cup overlapped'
                 PROVE  Forgotten(t)'
      BY DEF EntryInv
    <3>1. t # s /\ Forgotten(t)
      BY <1>3 DEF configureNotifications, Inv, TypeOK, PhaseInv, EntryInv
    <3>2. config'[t] = notifCfg[s][t]
      BY <1>3, <3>1 DEF configureNotifications, Inv, TypeOK, Configs
    <3>3. \A u \in Sources : notifCfg'[u][t] = NoEntry
      BY <1>3, <3>1, NoConfigEmpty DEF configureNotifications, Inv, TypeOK, Forgotten
    <3> QED
      BY <3>1, <3>2, <3>3 DEF Forgotten
  <2> QED
    BY <2>1, <2>2, <2>3 DEF Inv
<1>4. CASE Unsubscribe(s)
  <2>1. TypeOK'
    BY <1>4, NoConfigEmpty
       DEF Unsubscribe, removeQueueConfiguration, Inv, TypeOK, Configs, Finalizing
  <2>2. PhaseInv' /\ OwnerInv' /\ CopyInv'
    BY <1>4 DEF Unsubscribe, Inv, TypeOK, PhaseInv, OwnerInv, CopyInv, Finalizing
  <2>3. EntryInv'
    <3> SUFFICES ASSUME NEW t \in Sources, obj'[t] = "absent" \/ pc'[t] = "f_clear",
                        t \notin ignored' \cup overlapped'
                 PROVE  Forgotten(t)'
      BY DEF EntryInv
    <3>1. notifCfg'[s] = NoConfig /\ \A u \in Sources \ {s} : notifCfg'[u] = notifCfg[u]
      BY <1>4 DEF Unsubscribe, Inv, TypeOK
    <3>2. CASE t = s
      <4>1. config'[s] = NoEntry
        BY <1>4 DEF Unsubscribe, removeQueueConfiguration, Inv, TypeOK, Configs
      <4>2. ~Held(s)
        BY <1>4, <3>2 DEF Unsubscribe
      <4> QED
        BY <3>1, <3>2, <4>1, <4>2, NoConfigEmpty DEF Held, Forgotten
    <3>3. CASE t # s
      <4>1. Forgotten(t)
        BY <1>4, <3>3 DEF Unsubscribe, Inv, TypeOK, EntryInv
      <4>2. config'[t] = notifCfg[s][t]
        BY <1>4, <3>3 DEF Unsubscribe, removeQueueConfiguration, Inv, TypeOK, Configs
      <4> QED
        BY <3>1, <4>1, <4>2, NoConfigEmpty DEF Forgotten
    <3> QED
      BY <3>2, <3>3
  <2> QED
    BY <2>1, <2>2, <2>3 DEF Inv
<1> QED
    BY <1>1, <1>2, <1>3, <1>4 DEF AtS3

\* A controller that takes over begins with idle workers.
LEMMA RestartNext == ASSUME Inv, Restart PROVE Inv'
<1> USE DEF Restart, userVars, sqsVars, history
<1>1. TypeOK'
    BY NoConfigEmpty, S3SourceAssumption DEF Inv, TypeOK
<1>2. PhaseInv' /\ OwnerInv' /\ CopyInv'
    BY DEF Inv, PhaseInv, OwnerInv, CopyInv, Finalizing
<1>3. EntryInv'
    BY NoConfigEmpty DEF Inv, EntryInv, Forgotten
<1> QED
    BY <1>1, <1>2, <1>3 DEF Inv

\* Every step is of one of these kinds.
LEMMA NextCases ==
    ASSUME Next
    PROVE  (\E s \in Sources : Quiet(s) \/ AtSQS(s) \/ AtS3(s)) \/ Restart
BY DEF Next, Worker, Quiet, AtSQS, AtS3

\* The invariant is inductive.
LEMMA InvNext == Inv /\ [Next]_vars => Inv'
<1> SUFFICES ASSUME Inv, [Next]_vars PROVE Inv'
    OBVIOUS
<1>1. CASE Next
    BY <1>1, NextCases, QuietNext, SQSNext, S3Next, RestartNext
<1>2. CASE UNCHANGED vars
  <2> USE <1>2 DEF vars, userVars, sqsVars, history
  <2>1. TypeOK'
    BY DEF Inv, TypeOK
  <2>2. PhaseInv' /\ OwnerInv' /\ CopyInv'
    BY DEF Inv, PhaseInv, OwnerInv, CopyInv
  <2>3. EntryInv'
    BY DEF Inv, EntryInv, Forgotten
  <2> QED
    BY <2>1, <2>2, <2>3 DEF Inv
<1> QED
    BY <1>1, <1>2

\* The invariant holds throughout.
THEOREM Invariance == Spec => []Inv
<1> QED
    BY InitInv, InvNext, PTL DEF Spec

\* The variables have their types.
THEOREM TypeCorrect == Spec => []TypeOK
<1>1. Inv => TypeOK
    BY DEF Inv
<1> QED
    BY <1>1, Invariance, PTL

\* The entry of a source that is gone stays removed, unless its finalizer gave up or
\* another worker held the entry when it was removed.
THEOREM Removed == Spec => []RemovedUnlessOverlapped
<1>1. Inv => RemovedUnlessOverlapped
    BY DEF Inv, EntryInv, Forgotten, RemovedUnlessOverlapped
<1> QED
    BY <1>1, Invariance, PTL

\* Only DeleteQueue takes the queue away, for a source that owns it and is being deleted.
THEOREM QueueIsKept == Spec => QueueKept
<1>1. Inv /\ [Next]_vars =>
        [queueOwner # Nobody /\ queueOwner' = Nobody => obj[queueOwner] = "deleted"]_vars
  <2> SUFFICES ASSUME Inv, Next, queueOwner # Nobody, queueOwner' = Nobody
               PROVE  obj[queueOwner] = "deleted"
    OBVIOUS
  <2> USE DEF userVars, sqsVars
  <2>1. PICK s \in Sources : DeleteQueue(s)
    <3>1. ASSUME NEW s \in Sources, Quiet(s) PROVE queueOwner' = queueOwner
      BY <3>1 DEF Quiet, Create, Edit, Delete, ReconcileKind, QueueURL, FinalizeKind,
                  QueueAttributes, EnsureNoQueue, QueueTags, IgnoreSQS, GiveUp, clearFinalizer
    <3>2. ASSUME NEW s \in Sources, AtS3(s) PROVE queueOwner' = queueOwner
      BY <3>2 DEF AtS3, getNotificationsConfig, configureNotifications,
                  EnsureNotificationsDisabled, Unsubscribe, Fail
    <3>3. ASSUME Restart PROVE queueOwner' = queueOwner
      BY <3>3 DEF Restart
    <3>4. ASSUME NEW s \in Sources, CreateQueue(s) \/ syncQueuePolicy(s)
          PROVE  queueOwner' = queueOwner
      BY <3>4 DEF CreateQueue, syncQueuePolicy
    <3> QED
      BY <3>1, <3>2, <3>3, <3>4, NextCases DEF AtSQS
  <2>2. queueOwner = s /\ obj[s] = "deleted"
    BY <2>1 DEF DeleteQueue, Inv, OwnerInv, PhaseInv, Finalizing
  <2> QED
    BY <2>2
<1> QED
    BY <1>1, Invariance, PTL DEF Spec, QueueKept

\* The entry of a source that is gone, or about to lose its finalizer, is not even in a
\* configuration that some worker is about to write, under the same two conditions: no
\* write brings it back later.
THEOREM NowhereHeld == Spec => []EntryInv
<1>1. Inv => EntryInv
    BY DEF Inv
<1> QED
    BY <1>1, Invariance, PTL

----------------------------------------------------------------------------
(* The managed queue of a source that is gone. *)

\* Nobody moves a source between the managed queue and one of the user's, and no
\* finalizer ignores an error of SQS or S3.
Careful ==
    [][\A s \in Sources : /\ spec'[s].queue = spec[s].queue
                          /\ ~IgnoreSQS(s) /\ ~GiveUp(s)]_vars

\* The managed queue goes with the source that made it (EnsureNoQueue), so that the
\* next source of the bucket makes its own and can delete it again.
QueueOwned == \A s \in Sources : queueOwner = s => obj[s] # "absent"

\* What makes it inductive: only a source with a managed queue creates one, and its
\* finalizer comes to the bucket's configuration when it has deleted it.
ManagedInv ==
    \A s \in Sources :
        /\ queueOwner = s =>
              /\ obj[s] # "absent" /\ spec[s].queue = "managed"
              /\ pc[s] \notin {"f_get", "f_put", "f_clear"}
        /\ pc[s] \in {"url", "create"} => spec[s].queue = "managed"

\* Every step but the two that ignore errors, and a change of the destination, keeps it.
LEMMA ManagedNext ==
    ASSUME Inv, ManagedInv, Next,
           \A s \in Sources : spec'[s].queue = spec[s].queue /\ ~IgnoreSQS(s) /\ ~GiveUp(s)
    PROVE  ManagedInv'
<1> USE DEF userVars, sqsVars, history, Goto, Return
<1>1. ASSUME NEW s \in Sources, Create(s) \/ Edit(s) \/ Delete(s) PROVE ManagedInv'
  <2>1. UNCHANGED <<queueOwner, pc>>
    BY <1>1 DEF Create, Edit, Delete
  <2>2. \A t \in Sources : obj[t] # "absent" => obj'[t] # "absent"
    BY <1>1 DEF Create, Edit, Delete, Inv, TypeOK
  <2> QED
    BY <2>1, <2>2 DEF ManagedInv
<1>2. ASSUME NEW s \in Sources,
             \/ ReconcileKind(s) \/ QueueURL(s) \/ QueueAttributes(s)
             \/ FinalizeKind(s) \/ EnsureNoQueue(s) \/ QueueTags(s)
      PROVE  ManagedInv'
  <2>1. UNCHANGED <<obj, spec, queueOwner>> /\ \A t \in Sources \ {s} : pc'[t] = pc[t]
    BY <1>2 DEF ReconcileKind, QueueURL, QueueAttributes, FinalizeKind, EnsureNoQueue, QueueTags,
       Inv, TypeOK
  <2>2. /\ queueOwner = s => pc'[s] \notin {"f_get", "f_put", "f_clear"}
        /\ pc'[s] \in {"url", "create"} => spec[s].queue = "managed"
    <3>1. CASE ReconcileKind(s)
      BY <3>1 DEF ReconcileKind, Inv, TypeOK, Specs, Queues
    <3>2. CASE QueueURL(s)
      BY <3>2 DEF QueueURL, Inv, TypeOK, ManagedInv
    <3>3. CASE FinalizeKind(s)
      BY <3>3 DEF FinalizeKind, Inv, TypeOK, ManagedInv
    <3>4. CASE EnsureNoQueue(s)
      BY <3>4, S3SourceAssumption DEF EnsureNoQueue, Inv, TypeOK
    <3>5. CASE QueueTags(s)
      BY <3>5, S3SourceAssumption DEF QueueTags, assertOwnership, Inv, TypeOK
    <3>6. CASE QueueAttributes(s)
      BY <3>6 DEF QueueAttributes, Inv, TypeOK, ManagedInv
    <3> QED
      BY <1>2, <3>1, <3>2, <3>3, <3>4, <3>5, <3>6
  <2> QED
    BY <2>1, <2>2 DEF ManagedInv
<1>3. ASSUME NEW s \in Sources, CreateQueue(s) PROVE ManagedInv'
  <2>1. UNCHANGED <<obj, spec>> /\ pc' = [pc EXCEPT ![s] = "attrs"] /\ pc[s] = "create"
        /\ queueOwner' \in {queueOwner, s}
    BY <1>3 DEF CreateQueue, queueTags
  <2>2. obj[s] # "absent" /\ spec[s].queue = "managed"
    BY <2>1 DEF Inv, PhaseInv, ManagedInv
  <2> QED
    BY <2>1, <2>2 DEF ManagedInv, Inv, TypeOK
<1>4. ASSUME NEW s \in Sources, DeleteQueue(s) PROVE ManagedInv'
    BY <1>4, S3SourceAssumption DEF DeleteQueue, ManagedInv, Inv, TypeOK
<1>5. ASSUME NEW s \in Sources,
             \/ syncQueuePolicy(s) \/ getNotificationsConfig(s) \/ configureNotifications(s) \/ Fail(s)
      PROVE  ManagedInv'
  <2>1. UNCHANGED <<obj, spec, queueOwner>>
        /\ \E p \in {"idle", "get", "put"} : pc' = [pc EXCEPT ![s] = p]
    BY <1>5 DEF syncQueuePolicy, getNotificationsConfig, configureNotifications, Fail
  <2> QED
    BY <2>1 DEF ManagedInv, Inv, TypeOK
<1>6. ASSUME NEW s \in Sources,
             EnsureNotificationsDisabled(s) \/ Unsubscribe(s) \/ clearFinalizer(s)
      PROVE  ManagedInv'
  <2>1. UNCHANGED <<spec, queueOwner>> /\ pc[s] \in {"f_get", "f_put", "f_clear"}
    BY <1>6 DEF EnsureNotificationsDisabled, Unsubscribe, clearFinalizer
  <2>2. \A t \in Sources \ {s} : obj'[t] = obj[t] /\ pc'[t] = pc[t]
    BY <1>6 DEF EnsureNotificationsDisabled, Unsubscribe, clearFinalizer, Inv, TypeOK
  <2>3. pc'[s] \in {"idle", "f_put", "f_clear"}
    BY <1>6 DEF EnsureNotificationsDisabled, Unsubscribe, clearFinalizer, Inv, TypeOK
  <2>4. queueOwner # s
    BY <2>1 DEF ManagedInv
  <2> SUFFICES ASSUME NEW t \in Sources
               PROVE  /\ queueOwner' = t =>
                            /\ obj'[t] # "absent" /\ spec'[t].queue = "managed"
                            /\ pc'[t] \notin {"f_get", "f_put", "f_clear"}
                      /\ pc'[t] \in {"url", "create"} => spec'[t].queue = "managed"
    BY DEF ManagedInv
  <2>5. CASE t = s
    BY <2>1, <2>3, <2>4, <2>5
  <2>6. CASE t # s
    BY <2>1, <2>2, <2>6 DEF ManagedInv
  <2> QED
    BY <2>5, <2>6
<1>7. ASSUME Restart PROVE ManagedInv'
    BY <1>7 DEF Restart, ManagedInv
<1> QED
    BY <1>1, <1>2, <1>3, <1>4, <1>5, <1>6, <1>7 DEF Next, Worker

\* Every queue the controller made is deleted with the source that owns it, however
\* sources share the bucket, calls fail and the controller restarts, unless a
\* finalizer ignored an error or a destination was edited: EnsureNoQueue looks at the
\* destination the source has now, and skips the queue of one it had before.
THEOREM QueueGoesWithOwner == Spec /\ Careful => []QueueOwned
<1>1. Init => ManagedInv
    BY S3SourceAssumption DEF Init, ManagedInv
<1>2. ASSUME Inv, ManagedInv, [Next]_vars,
             [\A s \in Sources : /\ spec'[s].queue = spec[s].queue
                                 /\ ~IgnoreSQS(s) /\ ~GiveUp(s)]_vars
      PROVE  ManagedInv'
  <2>1. CASE UNCHANGED vars
    BY <1>2, <2>1 DEF vars, userVars, sqsVars, ManagedInv
  <2> QED
    BY <1>2, <2>1, ManagedNext
<1>3. ManagedInv => QueueOwned
    BY DEF ManagedInv, QueueOwned
<1> QED
    BY <1>1, <1>2, <1>3, Invariance, PTL DEF Spec, Careful

=============================================================================
