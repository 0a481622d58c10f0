------------------------------ MODULE S3Source ------------------------------
(***************************************************************************)
(* The AWSS3Source controller (pkg/sources/reconciler/awss3source) for     *)
(* several sources of one bucket.  They share two things outside the       *)
(* cluster: the SQS queue, whose name is made from the bucket alone, and   *)
(* the bucket's notification configuration, one document that holds an     *)
(* entry per source and is read and written as a whole, without a version. *)
(* The controller works on different sources concurrently, and on one      *)
(* source by one worker at a time.                                         *)
(***************************************************************************)
EXTENDS Integers

CONSTANTS
    Sources,    \* AWSS3Sources that observe the bucket
    EventTypes, \* lists of event types a source may ask for
    MaxChanges, \* bound: sources made and specs edited by users
    MaxFaults,  \* bound: failing calls and restarts of the controller
    Nobody,     \* no source
    NoEntry     \* no entry in a configuration

\* Spec.Destination: the queue the controller manages, or one the user provides.
Queues  == {"managed", "user"}
Specs   == [types : EventTypes, queue : Queues]
Configs == [Sources -> Specs \cup {NoEntry}]

ASSUME S3SourceAssumption ==
    /\ MaxChanges \in Nat /\ MaxFaults \in Nat
    /\ Nobody \notin Sources /\ NoEntry \notin Specs

VARIABLES
    obj,        \* API server: a source is "absent", "live" or being "deleted"
    spec,       \* API server: its Spec
    queueOwner, \* SQS: the tag owned-by of the managed queue, or Nobody without a queue
    policy,     \* SQS: the queue's policy lets the bucket send to it
    config,     \* S3: the notification configuration, by the entries' Ids
    pc,         \* where the worker of a source is
    src,        \* the worker's copy of the Spec
    notifCfg,   \* the configuration it read
    changes, faults,
    ignored,    \* history: sources whose finalizer gave up on an error
    overlapped  \* history: sources whose entry was removed while another worker held it

userVars == <<obj, spec, changes>>
sqsVars  == <<queueOwner, policy>>
history  == <<ignored, overlapped>>
vars     == <<userVars, sqsVars, config, pc, src, notifCfg, faults, history>>

Reconciling == {"url", "create", "attrs", "policy", "get", "put"}
Finalizing  == {"f_url", "f_owner", "f_delete", "f_get", "f_put", "f_clear"}

TypeOK ==
    /\ obj \in [Sources -> {"absent", "live", "deleted"}]
    /\ spec \in [Sources -> Specs] /\ src \in [Sources -> Specs]
    /\ queueOwner \in Sources \cup {Nobody} /\ policy \in BOOLEAN
    /\ config \in Configs /\ notifCfg \in [Sources -> Configs]
    /\ pc \in [Sources -> {"idle"} \cup Reconciling \cup Finalizing]
    /\ changes \in 0..MaxChanges /\ faults \in 0..MaxFaults
    /\ ignored \subseteq Sources /\ overlapped \subseteq Sources

NoConfig == [s \in Sources |-> NoEntry]

Init ==
    /\ obj = [s \in Sources |-> "absent"]
    /\ spec \in [Sources -> Specs]
    /\ src = spec
    /\ queueOwner = Nobody /\ policy = FALSE
    /\ config = NoConfig /\ notifCfg = [s \in Sources |-> NoConfig]
    /\ pc = [s \in Sources |-> "idle"]
    /\ changes = 0 /\ faults = 0
    /\ ignored = {} /\ overlapped = {}

----------------------------------------------------------------------------
(* Users. *)

Create(s) ==
    /\ obj[s] = "absent" /\ changes < MaxChanges
    /\ obj' = [obj EXCEPT ![s] = "live"] /\ changes' = changes + 1
    /\ ignored' = ignored \ {s} /\ overlapped' = overlapped \ {s}
    /\ UNCHANGED <<spec, sqsVars, config, pc, src, notifCfg, faults>>

Edit(s) ==
    /\ obj[s] = "live" /\ changes < MaxChanges
    /\ \E new \in Specs \ {spec[s]} : spec' = [spec EXCEPT ![s] = new]
    /\ changes' = changes + 1
    /\ UNCHANGED <<obj, sqsVars, config, pc, src, notifCfg, faults, history>>

\* The object stays, marked for deletion, until its finalizer is removed.
Delete(s) ==
    /\ obj[s] = "live"
    /\ obj' = [obj EXCEPT ![s] = "deleted"]
    /\ UNCHANGED <<spec, changes, sqsVars, config, pc, src, notifCfg, faults, history>>

----------------------------------------------------------------------------
(* ReconcileKind.  A step is one call to SQS or S3.                        *)

Goto(s, step) == pc' = [pc EXCEPT ![s] = step]

\* The worker returns; what it had read is forgotten.
Return(s) == /\ Goto(s, "idle")
             /\ notifCfg' = [notifCfg EXCEPT ![s] = NoConfig]

\* The workqueue hands out a source, after a change, an error or a resync.  A
\* queue of the user is taken as it is.
ReconcileKind(s) ==
    /\ pc[s] = "idle" /\ obj[s] = "live"
    /\ src' = [src EXCEPT ![s] = spec[s]]
    /\ Goto(s, IF spec[s].queue = "user" THEN "get" ELSE "url")
    /\ UNCHANGED <<userVars, sqsVars, config, notifCfg, faults, history>>

QueueURL(s) ==
    /\ pc[s] = "url"
    /\ Goto(s, IF queueOwner = Nobody THEN "create" ELSE "attrs")
    /\ UNCHANGED <<userVars, sqsVars, config, src, notifCfg, faults, history>>

\* Mutant of queueTags: the source's namespace and name are left out.
queueTagsUnnamed(s) == "io.triggermesh.awss3sources"

\* The tag owned-by of a queue that s creates.
queueTags(s) == s

\* CreateQueue returns the queue that exists when there is one by now.
CreateQueue(s) ==
    /\ pc[s] = "create"
    /\ queueOwner' = IF queueOwner = Nobody THEN queueTags(s) ELSE queueOwner
    /\ Goto(s, "attrs")
    /\ UNCHANGED <<userVars, policy, config, src, notifCfg, faults, history>>

\* The queue's attributes are read.
QueueAttributes(s) ==
    /\ pc[s] = "attrs"
    /\ Goto(s, CASE queueOwner = Nobody -> "idle" [] policy -> "get" [] OTHER -> "policy")
    /\ UNCHANGED <<userVars, sqsVars, config, src, notifCfg, faults, history>>

\* The policy is set when it was another.
syncQueuePolicy(s) ==
    /\ pc[s] = "policy"
    /\ policy' = (queueOwner # Nobody)
    /\ Goto(s, IF queueOwner = Nobody THEN "idle" ELSE "get")
    /\ UNCHANGED <<userVars, queueOwner, config, src, notifCfg, faults, history>>

\* Mutant of setQueueConfiguration: an entry that is there is never replaced.
setQueueConfigurationOnce(cfg, s) == cfg[s] = NoEntry

\* Whether the entry must be written: the queue it names is not compared.
setQueueConfiguration(cfg, s) ==
    cfg[s] # NoEntry => cfg[s].types # src[s].types

\* The configuration is read; without an update to make, that is all.
getNotificationsConfig(s) ==
    /\ pc[s] = "get"
    /\ \/ /\ setQueueConfiguration(config, s)
          /\ notifCfg' = [notifCfg EXCEPT ![s] = config]
          /\ Goto(s, "put")
       \/ ~setQueueConfiguration(config, s) /\ Return(s)
    /\ UNCHANGED <<userVars, sqsVars, config, src, faults, history>>

\* The whole document is written back, with the source's own entry.
configureNotifications(s) ==
    /\ pc[s] = "put"
    /\ config' = [notifCfg[s] EXCEPT ![s] = src[s]]
    /\ Return(s)
    /\ UNCHANGED <<userVars, sqsVars, src, faults, history>>

----------------------------------------------------------------------------
(* FinalizeKind. *)

FinalizeKind(s) ==
    /\ pc[s] = "idle" /\ obj[s] = "deleted"
    /\ src' = [src EXCEPT ![s] = spec[s]]
    /\ Goto(s, IF spec[s].queue = "user" THEN "f_get" ELSE "f_url")
    /\ UNCHANGED <<userVars, sqsVars, config, notifCfg, faults, history>>

EnsureNoQueue(s) ==
    /\ pc[s] = "f_url"
    /\ Goto(s, IF queueOwner = Nobody THEN "f_get" ELSE "f_owner")
    /\ UNCHANGED <<userVars, sqsVars, config, src, notifCfg, faults, history>>

\* Mutant of assertOwnership: a queue of the bucket is deleted by every source.
assertOwnershipAny(s) == queueOwner # Nobody

assertOwnership(s) == queueOwner = s

\* A queue deleted since its URL was found has no tags: an error, retried.
QueueTags(s) ==
    /\ pc[s] = "f_owner"
    /\ Goto(s, CASE queueOwner = Nobody -> "idle"
                 [] queueOwner # Nobody /\ assertOwnership(s) -> "f_delete"
                 [] OTHER -> "f_get")
    /\ UNCHANGED <<userVars, sqsVars, config, src, notifCfg, faults, history>>

DeleteQueue(s) ==
    /\ pc[s] = "f_delete"
    /\ queueOwner' = Nobody /\ policy' = FALSE
    /\ Goto(s, "f_get")
    /\ UNCHANGED <<userVars, config, src, notifCfg, faults, history>>

EnsureNotificationsDisabled(s) ==
    /\ pc[s] = "f_get"
    /\ notifCfg' = [notifCfg EXCEPT ![s] = config]
    /\ Goto(s, "f_put")
    /\ UNCHANGED <<userVars, sqsVars, config, src, faults, history>>

\* Mutant of removeQueueConfiguration: the entries stay as they were read.
removeQueueConfigurationNot(cfg, s) == cfg

removeQueueConfiguration(cfg, s) == [cfg EXCEPT ![s] = NoEntry]

\* Another worker is about to write a configuration that has an entry of s.
Held(s) == \E t \in Sources \ {s} : notifCfg[t][s] # NoEntry

Unsubscribe(s) ==
    /\ pc[s] = "f_put"
    /\ config' = removeQueueConfiguration(notifCfg[s], s)
    /\ ignored' = ignored \ {s}
    /\ overlapped' = IF Held(s) THEN overlapped \cup {s} ELSE overlapped \ {s}
    /\ Goto(s, "f_clear") /\ notifCfg' = [notifCfg EXCEPT ![s] = NoConfig]
    /\ UNCHANGED <<userVars, sqsVars, src, faults>>

\* The finalizer is removed, by a patch, when FinalizeKind returns nil or a Normal event.
clearFinalizer(s) ==
    /\ pc[s] = "f_clear"
    /\ obj' = [obj EXCEPT ![s] = "absent"]
    /\ Goto(s, "idle")
    /\ UNCHANGED <<spec, changes, sqsVars, config, src, notifCfg, faults, history>>

----------------------------------------------------------------------------
(* Failures. *)

\* A call fails: the status says so, and the source is reconciled again.
Fail(s) ==
    /\ pc[s] # "idle" /\ faults < MaxFaults
    /\ faults' = faults + 1
    /\ Return(s)
    /\ UNCHANGED <<userVars, sqsVars, config, src, history>>

\* The finalizer ignores an authorization error of SQS, and goes on with S3.
IgnoreSQS(s) ==
    /\ pc[s] \in {"f_url", "f_delete"} /\ faults < MaxFaults
    /\ faults' = faults + 1
    /\ Goto(s, "f_get")
    /\ UNCHANGED <<userVars, sqsVars, config, src, notifCfg, history>>

\* Without the Secret, or when S3 denies it the configuration, it lets the object go.
GiveUp(s) ==
    /\ pc[s] \in {"idle", "f_get"} /\ obj[s] = "deleted"
    /\ faults < MaxFaults /\ faults' = faults + 1
    /\ Goto(s, "f_clear")
    /\ ignored' = ignored \cup {s}
    /\ UNCHANGED <<userVars, sqsVars, config, src, notifCfg, overlapped>>

\* The controller stops and another replica takes over.
Restart ==
    /\ faults < MaxFaults /\ \E s \in Sources : pc[s] # "idle"
    /\ faults' = faults + 1
    /\ pc' = [s \in Sources |-> "idle"]
    /\ notifCfg' = [s \in Sources |-> NoConfig]
    /\ UNCHANGED <<userVars, sqsVars, config, src, history>>

----------------------------------------------------------------------------

Worker(s) ==
    \/ ReconcileKind(s) \/ QueueURL(s) \/ CreateQueue(s) \/ QueueAttributes(s)
    \/ syncQueuePolicy(s) \/ getNotificationsConfig(s) \/ configureNotifications(s)
    \/ FinalizeKind(s) \/ EnsureNoQueue(s) \/ QueueTags(s) \/ DeleteQueue(s)
    \/ EnsureNotificationsDisabled(s) \/ Unsubscribe(s) \/ clearFinalizer(s)

Next ==
    \/ \E s \in Sources : \/ Create(s) \/ Edit(s) \/ Delete(s) \/ Worker(s)
                          \/ Fail(s) \/ IgnoreSQS(s) \/ GiveUp(s)
    \/ Restart

Spec == Init /\ [][Next]_vars

\* A worker that has begun goes on, and informers resync: every source is handed
\* out again and again.
FairSpec == Spec /\ \A s \in Sources : WF_vars(Worker(s))

----------------------------------------------------------------------------

\* The queue that all sources of the bucket use disappears only while the source
\* that made it is being deleted, whoever else is finalized: the tags are read in
\* one call (assertOwnership) and the queue deleted in another (DeleteQueue).
QueueKept ==
    [][queueOwner # Nobody /\ queueOwner' = Nobody => obj[queueOwner] = "deleted"]_vars

\* A source that is gone has left no entry in the bucket's configuration, unless
\* its finalizer ignored an error, or another worker held a configuration with the
\* entry at the moment the finalizer wrote its own: a worker that reads later
\* cannot bring the entry back (EnsureNotificationsDisabled).
RemovedUnlessOverlapped ==
    \A s \in Sources :
        obj[s] = "absent" /\ s \notin ignored \cup overlapped => config[s] = NoEntry

\* Workers overwrite each other's entries, and a finalizer deletes the queue the
\* others still use; when users and faults have come to rest, all of it is repaired:
\* every live source has its entry with its event types, and a managed queue that
\* accepts the bucket's messages (EnsureQueue, EnsureNotificationsEnabled).
Subscribed(s) ==
    /\ config[s] # NoEntry /\ config[s].types = spec[s].types
    /\ spec[s].queue = "managed" => queueOwner # Nobody /\ policy

Converges == <>[](\A s \in Sources : obj[s] = "live" => Subscribed(s))

=============================================================================
