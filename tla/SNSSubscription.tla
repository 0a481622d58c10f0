--------------------------- MODULE SNSSubscription ---------------------------
(***************************************************************************)
(* The AWSSNSSource: its controller (pkg/sources/reconciler/awssnssource)  *)
(* subscribes the source's URL to a topic, SNS posts a token to that URL,  *)
(* and the multi-tenant adapter (pkg/sources/adapter/awssnssource) behind  *)
(* it confirms the subscription, if its router has a handler for the URL   *)
(* by then.  Controller, adapter and SNS know of each other only through   *)
(* the objects' status, informer caches and the adapter's readiness.       *)
(***************************************************************************)
EXTENDS Integers, FiniteSets

CONSTANTS
    Sources,    \* names of AWSSNSSources: a name has one URL
    MaxChanges, \* bound: sources made
    MaxFaults   \* bound: failing calls, lost tokens, restarts

ASSUME SNSSubscriptionAssumption == MaxChanges \in Nat /\ MaxFaults \in Nat

VARIABLES
    obj,       \* API server: a source is "absent", "live" or being "deleted"
    status,    \* API server: what its Status has of SinkURI, Address.URL, SubscriptionARN
    pc,        \* controller: where the worker of a source is
    st,        \* controller: the worker's copy of the Status
    topic,     \* SNS: the topic exists
    sub,       \* SNS: the subscription of a URL is "none", "pending", "confirmed"
    token,     \* SNS: a SubscriptionConfirmation is on its way
    cached,    \* adapter: the sources in its informer, as "absent", "live", "deleted"
    sinks,     \* adapter: those whose cached Status has a SinkURI
    handlers,  \* adapter: the URLs its router serves
    ready,     \* adapter: the latch of the readiness probe
    svcURL,    \* Knative: the adapter's Service has a URL
    changes, faults,
    left       \* history: why the last finalizer left a subscription alone, or "none"

apiVars     == <<obj, status, changes>>
workerVars  == <<pc, st>>
snsVars     == <<topic, sub, token>>
adapterVars == <<cached, sinks, handlers, ready, svcURL>>
vars        == <<apiVars, workerVars, snsVars, adapterVars, faults, left>>

Status   == [sink : BOOLEAN, url : BOOLEAN, arn : BOOLEAN]
NoStatus == [sink |-> FALSE, url |-> FALSE, arn |-> FALSE]

TypeOK ==
    /\ obj \in [Sources -> {"absent", "live", "deleted"}]
    /\ cached \in [Sources -> {"absent", "live", "deleted"}]
    /\ status \in [Sources -> Status] /\ st \in [Sources -> Status]
    /\ pc \in [Sources -> {"idle", "find", "subscribe", "update", "f_find", "f_unsubscribe"}]
    /\ topic \in BOOLEAN /\ sub \in [Sources -> {"none", "pending", "confirmed"}]
    /\ token \subseteq Sources /\ sinks \subseteq Sources /\ handlers \subseteq Sources
    /\ ready \in BOOLEAN /\ svcURL \in BOOLEAN
    /\ changes \in 0..MaxChanges /\ faults \in 0..MaxFaults
    /\ left \in [Sources -> {"none", "pending", "no URL", "ignored"}]

Init ==
    /\ obj = [s \in Sources |-> "absent"] /\ status = [s \in Sources |-> NoStatus]
    /\ pc = [s \in Sources |-> "idle"] /\ st = [s \in Sources |-> NoStatus]
    /\ topic = TRUE /\ sub = [s \in Sources |-> "none"] /\ token = {}
    /\ cached = [s \in Sources |-> "absent"] /\ sinks = {} /\ handlers = {}
    /\ ready = FALSE /\ svcURL = FALSE
    /\ changes = 0 /\ faults = 0 /\ left = [s \in Sources |-> "none"]

----------------------------------------------------------------------------
(* Users, Knative Serving and SNS. *)

Create(s) ==
    /\ obj[s] = "absent" /\ changes < MaxChanges
    /\ obj' = [obj EXCEPT ![s] = "live"]
    /\ changes' = changes + 1 /\ left' = [left EXCEPT ![s] = "none"]
    /\ UNCHANGED <<status, workerVars, snsVars, adapterVars, faults>>

Delete(s) ==
    /\ obj[s] = "live"
    /\ obj' = [obj EXCEPT ![s] = "deleted"]
    /\ UNCHANGED <<status, changes, workerVars, snsVars, adapterVars, faults, left>>

\* A topic takes its subscriptions with it.
DeleteTopic ==
    /\ topic /\ faults < MaxFaults
    /\ topic' = FALSE /\ sub' = [s \in Sources |-> "none"] /\ token' = {}
    /\ faults' = faults + 1
    /\ UNCHANGED <<apiVars, workerVars, adapterVars, left>>

RouteReady ==
    /\ ~svcURL /\ svcURL' = TRUE
    /\ UNCHANGED <<apiVars, workerVars, snsVars, cached, sinks, handlers, ready, faults, left>>

\* SNS gives up on a token, or on a subscription that is not confirmed.
Expire(s) ==
    /\ faults < MaxFaults /\ (s \in token \/ sub[s] = "pending")
    /\ \/ token' = token \ {s} /\ UNCHANGED sub
       \/ sub[s] = "pending" /\ sub' = [sub EXCEPT ![s] = "none"] /\ UNCHANGED token
    /\ faults' = faults + 1
    /\ UNCHANGED <<apiVars, workerVars, topic, adapterVars, left>>

----------------------------------------------------------------------------
(* ReconcileKind.  A step is one call to SNS or to the API server.         *)

Goto(s, step) == pc' = [pc EXCEPT ![s] = step]

\* ReconcileAdapter puts the sink and the adapter's URL in the Status; while the
\* adapter is not ready there is nothing to subscribe.
ReconcileKind(s) ==
    /\ pc[s] = "idle" /\ obj[s] = "live"
    /\ st' = [st EXCEPT ![s] = [sink |-> TRUE, url |-> svcURL, arn |-> status[s].arn]]
    /\ Goto(s, IF ready /\ svcURL THEN "find" ELSE "update")
    /\ UNCHANGED <<apiVars, snsVars, adapterVars, faults, left>>

\* The sink cannot be resolved: the Status loses it.
MarkNoSink(s) ==
    /\ pc[s] = "idle" /\ obj[s] = "live" /\ faults < MaxFaults
    /\ st' = [st EXCEPT ![s] = [status[s] EXCEPT !.sink = FALSE]]
    /\ Goto(s, "update") /\ faults' = faults + 1
    /\ UNCHANGED <<apiVars, snsVars, adapterVars, left>>

isPending(s) == sub[s] = "pending"

\* checkTopicExists and findSubscription.
findSubscription(s) ==
    /\ pc[s] = "find"
    /\ IF topic /\ (isPending(s) \/ sub[s] = "none")
       THEN Goto(s, "subscribe") /\ UNCHANGED st
       ELSE Goto(s, "update") /\ st' = [st EXCEPT ![s].arn = @ \/ topic]
    /\ UNCHANGED <<apiVars, snsVars, adapterVars, faults, left>>

\* SNS posts a token unless the subscription is confirmed already; a pending one is
\* an error, and the source is reconciled again.
subscribe(s) ==
    /\ pc[s] = "subscribe"
    /\ IF topic /\ sub[s] # "confirmed"
       THEN /\ sub' = [sub EXCEPT ![s] = "pending"] /\ token' = token \cup {s}
            /\ UNCHANGED st
       ELSE /\ st' = [st EXCEPT ![s].arn = @ \/ sub[s] = "confirmed"]
            /\ UNCHANGED <<sub, token>>
    /\ Goto(s, "update")
    /\ UNCHANGED <<apiVars, topic, adapterVars, faults, left>>

\* The Status is written when ReconcileKind has returned, with or without an error.
updateStatus(s) ==
    /\ pc[s] = "update"
    /\ status' = [status EXCEPT ![s] = st[s]]
    /\ Goto(s, "idle") /\ st' = [st EXCEPT ![s] = NoStatus]
    /\ UNCHANGED <<obj, changes, snsVars, adapterVars, faults, left>>

----------------------------------------------------------------------------
(* FinalizeKind. *)

\* FinalizeKind returns nil or a Normal event, and the finalizer is removed.  The
\* patch carries the resourceVersion that the cache has by now, and fails when that is
\* not the latest.  FinalizeKind is taken to have read the latest Status: that the
\* cache catches up between its read and the patch is left out.
Release(s, why) ==
    /\ obj' = [obj EXCEPT ![s] = "absent"] /\ status' = [status EXCEPT ![s] = NoStatus]
    /\ left' = [left EXCEPT ![s] = why]
    /\ Goto(s, "idle")

\* With the topic and the URL the subscription is looked up; otherwise the ARN of
\* the Status is used, and without one there is nothing to do.
ensureUnsubscribed(s) ==
    /\ pc[s] = "idle" /\ obj[s] = "deleted"
    /\ \/ topic /\ status[s].url /\ Goto(s, "f_find") /\ UNCHANGED <<obj, status, left>>
       \/ /\ ~(topic /\ status[s].url) /\ status[s].arn
          /\ Goto(s, "f_unsubscribe") /\ UNCHANGED <<obj, status, left>>
       \/ /\ ~(topic /\ status[s].url) /\ ~status[s].arn
          /\ Release(s, "no URL")
    /\ UNCHANGED <<changes, st, snsVars, adapterVars, faults>>

findToUnsubscribe(s) ==
    /\ pc[s] = "f_find"
    /\ \/ isPending(s) /\ Release(s, "pending")
       \/ sub[s] = "none" /\ Release(s, "none")
       \/ /\ ~isPending(s) /\ sub[s] # "none"
          /\ Goto(s, "f_unsubscribe") /\ UNCHANGED <<obj, status, left>>
    /\ UNCHANGED <<changes, st, snsVars, adapterVars, faults>>

\* Mutant of unsubscribe: the object is released and the subscription kept.
unsubscribeNot(s) ==
    /\ pc[s] = "f_unsubscribe"
    /\ Release(s, "none")
    /\ UNCHANGED <<changes, st, snsVars, adapterVars, faults>>

unsubscribe(s) ==
    /\ pc[s] = "f_unsubscribe"
    /\ sub' = [sub EXCEPT ![s] = "none"] /\ token' = token \ {s}
    /\ Release(s, "none")
    /\ UNCHANGED <<changes, st, topic, adapterVars, faults>>

\* A missing Secret or an authorization error is ignored by the finalizer.
GiveUp(s) ==
    /\ obj[s] = "deleted" /\ pc[s] \in {"idle", "f_find", "f_unsubscribe"}
    /\ faults < MaxFaults /\ faults' = faults + 1
    /\ Release(s, "ignored")
    /\ UNCHANGED <<changes, st, snsVars, adapterVars>>

\* A call fails: to SNS, after which the Status is still written, or to the API server.
Fail(s) ==
    /\ faults < MaxFaults /\ faults' = faults + 1
    /\ \/ /\ pc[s] \in {"find", "subscribe"}
          /\ Goto(s, "update") /\ UNCHANGED st
       \/ /\ pc[s] \in {"update", "f_find", "f_unsubscribe"}
          /\ Goto(s, "idle") /\ st' = [st EXCEPT ![s] = NoStatus]
    /\ UNCHANGED <<apiVars, snsVars, adapterVars, left>>

\* The controller stops and another replica takes over.
ControllerRestart ==
    /\ faults < MaxFaults /\ \E s \in Sources : pc[s] # "idle"
    /\ pc' = [s \in Sources |-> "idle"] /\ st' = [s \in Sources |-> NoStatus]
    /\ faults' = faults + 1
    /\ UNCHANGED <<apiVars, snsVars, adapterVars, left>>

----------------------------------------------------------------------------
(* The multi-tenant adapter. *)

Sync(s) ==
    /\ cached[s] # obj[s] \/ (s \in sinks) # (obj[s] # "absent" /\ status[s].sink)
    /\ cached' = [cached EXCEPT ![s] = obj[s]]
    /\ sinks' = IF obj[s] # "absent" /\ status[s].sink THEN sinks \cup {s} ELSE sinks \ {s}
    /\ UNCHANGED <<apiVars, workerVars, snsVars, handlers, ready, svcURL, faults, left>>

RegisterHandlerFor(s) ==
    /\ cached[s] = "live" /\ s \in sinks /\ s \notin handlers
    /\ handlers' = handlers \cup {s}
    /\ UNCHANGED <<apiVars, workerVars, snsVars, cached, sinks, ready, svcURL, faults, left>>

\* ObserveDeletion: the object has left the cache.
DeregisterHandlerFor(s) ==
    /\ cached[s] = "absent" /\ s \in handlers
    /\ handlers' = handlers \ {s}
    /\ UNCHANGED <<apiVars, workerVars, snsVars, cached, sinks, ready, svcURL, faults, left>>

\* Mutant of HandlersMatch: off by one, a handler more than sources.
HandlersMatchMore == Cardinality(handlers) > Cardinality(sinks)

\* A handler for every source with a sink, by their numbers.
HandlersMatch == Cardinality(handlers) >= Cardinality(sinks)

\* The readiness probe compares the numbers of handlers and of sources with a sink,
\* and keeps its first positive answer.
IsReady ==
    /\ ~ready /\ \E s \in Sources : cached[s] # "absent"
    /\ HandlersMatch
    /\ ready' = TRUE
    /\ UNCHANGED <<apiVars, workerVars, snsVars, cached, sinks, handlers, svcURL, faults, left>>

\* SNS posts the token to the source's URL.  Without a handler the router answers
\* 404, and SNS tries again.
ServeHTTP(s) ==
    /\ s \in token /\ s \in handlers
    /\ token' = token \ {s}
    /\ sub' = [sub EXCEPT ![s] = IF @ = "pending" THEN "confirmed" ELSE @]
    /\ UNCHANGED <<apiVars, workerVars, topic, adapterVars, faults, left>>

AdapterRestart ==
    /\ faults < MaxFaults /\ faults' = faults + 1
    /\ cached' = [s \in Sources |-> "absent"]
    /\ sinks' = {} /\ handlers' = {} /\ ready' = FALSE
    /\ UNCHANGED <<apiVars, workerVars, snsVars, svcURL, left>>

----------------------------------------------------------------------------

Controller(s) ==
    \/ ReconcileKind(s) \/ findSubscription(s) \/ subscribe(s) \/ updateStatus(s)
    \/ ensureUnsubscribed(s) \/ findToUnsubscribe(s) \/ unsubscribe(s)

Adapter(s) == Sync(s) \/ RegisterHandlerFor(s) \/ DeregisterHandlerFor(s)

Next ==
    \/ \E s \in Sources :
         \/ Create(s) \/ Delete(s) \/ Expire(s) \/ Controller(s) \/ MarkNoSink(s)
         \/ GiveUp(s) \/ Fail(s) \/ Adapter(s) \/ ServeHTTP(s)
    \/ DeleteTopic \/ RouteReady \/ ControllerRestart \/ IsReady \/ AdapterRestart

Spec == Init /\ [][Next]_vars

\* Workers go on and are given their sources again (a pending subscription is an
\* error, retried); informers catch up; the probe is polled, and SNS tries again.
FairSpec ==
    /\ Spec /\ WF_vars(RouteReady) /\ WF_vars(IsReady)
    /\ \A s \in Sources : WF_vars(Controller(s)) /\ WF_vars(Adapter(s)) /\ WF_vars(ServeHTTP(s))

----------------------------------------------------------------------------

\* A source that is gone has no confirmed subscription, unless its finalizer met one
\* that was still pending, had no URL to look for, or ignored an error; what it did
\* unsubscribe, or did not find, no late token brings back (ensureUnsubscribed).
OnlyPendingDangles ==
    \A s \in Sources : obj[s] = "absent" /\ left[s] = "none" => sub[s] # "confirmed"

\* A live source is subscribed in the end, and its Status says so, although the token
\* may reach the adapter before it has a handler, or be lost: ensureSubscribed
\* subscribes again while the subscription is pending.
EventuallySubscribed ==
    \A s \in Sources :
        obj[s] = "live" ~> \/ obj[s] # "live" \/ ~topic
                           \/ sub[s] = "confirmed" /\ status[s].arn

=============================================================================
