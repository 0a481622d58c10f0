# A TLA+ model of TriggerMesh

TriggerMesh connects event sources, transformations and targets on Kubernetes.
Controllers reconcile custom resources into *adapters*, small processes that
receive events over HTTP or from a third-party service and send CloudEvents to a
sink. Most adapters are a few dozen lines around an API call. The ones modelled
here keep state that several goroutines, callbacks or controllers share, and
their correctness depends on the order of steps.

All paths below are relative to `pkg/` of the repository.

## 1. Inventory

| Component | State | Operations | Interacts with | What is hard |
|---|---|---|---|---|
| Synchronizer `flow/adapter/synchronizer` | map of sessions, one response channel and one `sendErr` channel per client | `serveRequest`, its forwarding goroutine, `serveResponse`, the response timeout | clients and backend over HTTP; sink | channels used after the map's lock was released; timeout against answer; key collisions; panics |
| SQS source `sources/adapter/awssqssource` | two Go channels, delete buffers; receipt handles in SQS | receive, process, send, collect, flush, shutdown | SQS, sink | redelivery while a copy is in the pipeline; stale receipts; batched deletion; shutdown with blocked senders |
| Service Bus source `sources/adapter/azureservicebussource` | `errChan`, unbuffered message channel, message locks | producer, consumers, `Start` | Service Bus, sink | one failing routine must stop the others; lock expiry; capacity of `errChan` |
| Salesforce source `sources/adapter/salesforcesource` | channels `poll`, `errc`, `msgs`, `stopCh`; replay IDs; session and handshake flags | authenticate, handshake, subscribe, connect, manage meta, dispatch | Salesforce streaming API, sink | token passing between goroutines; replay ID against dispatch; re-entrant lock; cancellation |
| Transformation `flow/adapter/transformation` | shared transformers, one `Storage` of variables per event | store, parse, shift, add, delete; flush | HTTP client or sink | concurrent requests share transformers and storage |
| Generic reconciler `reconciler/reconcile.go`, `adapter.go` | Kubernetes objects and informer caches | list owners, get, create, update ServiceAccount; adapters; status | API server, garbage collector | concurrent workers, stale caches, conflicts, restarts |
| S3 source controller `sources/reconciler/awss3source` | the bucket's notification configuration and a queue per bucket, in AWS; finalizers | ensure the queue, its policy and the notifications; undo them | S3, SQS, API server | sources of one bucket share the queue and read-modify-write one document |
| DynamoDB source `sources/adapter/awsdynamodbsource` | map of processors, a position per shard | list shards, start processors, read, send | DynamoDB streams, sink | a processor ends while the shard is listed again; sealed shards, replaced streams |
| SNS source `sources/reconciler/awssnssource`, `sources/adapter/awssnssource`, `adapter/common/router` | subscriptions in AWS, status, table of handlers, readiness | subscribe, confirm, probe, finalize | SNS, informers, API server | the confirmation goes around through SNS and another process |
| Event Hubs source | a processor per partition | start | Event Hubs | an error ends a partition's processor for good |
| Routing filter, splitter | compiled expressions by UID and generation | filter, split, send | informers, sink | concurrent cache; partial sends |
| File watcher `adapter/fs` | watched files, cached content | add, notify | inotify | replaced files |
| Other sources, target adapters, conversions, functions | none of their own, or the client library's | one callback per message | third-party APIs | little beyond the API itself |
| API types, webhook, generated clients, commands | none | | | |

What makes them correct:

* Synchronizer: each client gets one answer, in time, and it is the response with
  its own correlation key; a backend is told "accepted" exactly when a client
  received the response.
* Queue-backed sources: a message leaves the upstream queue only after the sink
  acknowledged every event made from it (`AtLeastOnce`); the pipeline neither
  clogs nor hangs at shutdown.
* Salesforce: the replay ID never passes an event that was not dispatched; the
  client polls as long as it runs and stops when told to.
* Transformation: requests do not influence each other and leave nothing behind.
* S3: the shared queue outlives every source but its owner, an entry is removed
  with its source, and concurrent reconciliations converge.
* DynamoDB: the records of a shard reach the sink in order and once; every open
  shard is read.
* SNS: a live source ends up subscribed, a deleted one leaves no subscription.
* Reconciler: concurrent reconciliations converge on one ServiceAccount owned by
  every instance, never touch a user's, and let it be collected.

`PROJECT.json` lists every component with its status and every hazard at the
line where it bites.

## 2. Modules

| Module | Models | Role |
|---|---|---|
| `Synchronizer` | synchronizer adapter | component; its own model-checking module |
| `AtLeastOnce` | what a queue-backed source promises | abstract specification |
| `SQSSource`, `MCSQSSource` | SQS source | component, implements `AtLeastOnce` |
| `ServiceBusSource`, `MCServiceBusSource` | Service Bus source | component, implements `AtLeastOnce` |
| `BayeuxClient`, `MCBayeuxClient` | Salesforce source | component |
| `Transformation`, `MCTransformation` | transformation adapter | component |
| `SharedServiceAccount` | ServiceAccount of multi-tenant types | component; its own model-checking module |
| `S3Source` | S3 source controller | component; its own model-checking module |
| `DynamoDBSource` | DynamoDB source adapter | component; its own model-checking module |
| `SNSSubscription` | SNS controller, adapter and SNS together | composition; its own model-checking module |
| `SynchronizerProofs`, `BayeuxClientProofs`, `TransformationProofs`, `SharedServiceAccountProofs`, `S3SourceProofs`, `DynamoDBSourceProofs`, `SNSSubscriptionProofs` | | theorems and proofs about the component of that name |
| `SQSSourceProofs` | | theorems and proofs about `SQSSource` and, instantiated as `SB`, `ServiceBusSource` |

Every component module ends with its properties. The operators that stand
directly before an action under a similar name (for instance `GetSAUnchecked`
before `GetSA`) are deliberately wrong variants: substituted for the action they
make a property fail, which shows that the property depends on that detail of the
code.

### Synchronizer

A request goes from `idle`, once its session is added, to `spawned` (the
forwarding goroutine `sender[r]` runs), `select`, and through its deferred calls
(`leaving`, `closing`) to `done`. A response event takes its channel from the map
under the lock and is then in `forward`, where it no longer has the lock. `sessions` and `closed` are the session map and the closed
channels. A send on the unbuffered channel succeeds only when the request's
goroutine is in its `select`; on a closed channel it panics, which ends a
response's handler. A failing `Send` that finds `sendErr` closed panics in a
goroutine without recovery, which ends the process (`SenderPanics`); `Restart`
loses all sessions. `randString` may draw any key, a key in use included.

### SQSSource

One action per step of `receive.go`, `process.go` and `delete.go`. SQS is
external: it hands out a message with a new receipt handle, makes it visible
again when the visibility timeout passes, and accepts a deletion only with a
valid handle. The sink may refuse any event. A deletion batch may fail as a
whole or for some entries. Shutdown is `cancelled` and the exit of each
goroutine at the places where the code looks at the context; a crash or a
redeploy starts over with empty channels while SQS keeps its state.

### ServiceBusSource

The producer's receive loop, the consumers, and `Start` (`select`, `wait` for the
WaitGroup, `gather` errors). Errors in `errChan` are counted, not distinguished.
A message's lock may expire while a consumer handles it; another consumer then
gets a copy.

### BayeuxClient

`loop` is the connect loop's position, `worker` the worker loop's. The
events of the subscribed channel are 1, 2, ..., and are their own replay IDs.
`cursor`, `published` and `missed` are Salesforce's side: a session sends the
events after the replay ID of its subscription. `missed` collects the events of
responses that were lost on the way and the events older than a subscription to
the tip; no client could deliver these. An event counts as dispatched when the
dispatcher was called. `DispatchEvent` has no result, so the client cannot know
whether the sink accepted it: **the Salesforce source is at most once towards the
sink**, and no property here claims more.

### Transformation

A JSON document is a function from paths to values; no path contains another.
Texts are atoms: `composeValue` replaces a variable in a text by the text that it
composes, and values have at most one variable. The pipelines are constants;
`applyTransformations` lists the operations in the order in which the code runs
them (the init steps of both pipelines, the rest of the context's pipeline, the
decoding of the context, the rest of the data's pipeline). It and `Alone`, what the
pipelines make of one event without any other, are recursive functions on the
positions of the program, which the proofs can reason about. Steps that touch
shared state (the storage, `Delete.Value`) are separate, so that two requests
interleave between them. Two concurrent writes of the string `Delete.Value` are a
data race; a reader may then see `Torn`. `eventUniqueID` is modelled as the code
computes it, as a join of words, so that two events can share an identifier.

### SharedServiceAccount

An instance is a name with a UID; deleting and creating it again gives a new UID.
The API server, the informer caches and the workers each have their own copy. An
OwnerReference is a pair of name and UID. A resourceVersion only matters as "not
changed since it was read", so copies carry a flag (`cacheCurrent`, `current`)
that each write clears. `mergeOwners` goes through a Go map, so it yields any
order. Calls may fail, the controller may crash between any two steps, a user may
create a ServiceAccount of that name, and the garbage collector removes dangling
owners and the ownerless account. The API server and the garbage collector are
external.

### S3Source

A worker's `pc` names the next call it makes to SQS or S3: `url`, `create`, `attrs`,
`policy`, `get`, `put` in `ReconcileKind`, and the `f_` steps in `FinalizeKind`, the
last of which, `f_clear`, is the patch that removes the finalizer: it may fail, or a
restart come before it, after the entry was removed, and the source is finalized again.
The queue is its `owned-by` tag, since its name depends on the bucket alone. The
notification configuration has one entry per source; `notifCfg[s]` is the whole
document as the worker of `s` read it, and it is written back as a whole.
`setQueueConfiguration` compares event types and not the queue, as in the code.
`ignored` and `overlapped` are history: they record why an entry may be left
behind. A Warning event that the finalizer returns as it is, and not
wrapped in an error, is recorded and not requeued: the next try is at the next
resync, which the fairness of the worker stands for.

### DynamoDBSource

`loop` follows `Start` and `recheckStream`: one step per call and per shard of a
page. `processors` is the `sync.Map`; a goroutine's record has its `pc`, the position
it began at, the position it has reached and the end of its batch. A shard has
room for two goroutines, so that a second one would be seen. A processor begins at
`LATEST`, so records written while none runs are skipped; nothing in the
repository promises these, and `NoGap` speaks of the records after the position a
processor began at. The table (external) takes records, seals shards, and
disables and replaces its stream. The two deferred calls of a goroutine are steps of
their own (`Done`, then `Delete`), so that `Start` may return while a shard is still in
the map. When a look-up of the stream fails, `Start` returns its error at once
(`loop = "failed"`), without `wg.Wait`; the process ends with it.

### SNSSubscription

Three parties that know of each other only through stale copies. The
controller's worker looks for a subscription (`find`), subscribes, and writes the
status afterwards (`update`), which a restart may prevent. SNS keeps `sub` and a
`token` on its way. The adapter has an informer (`cached`, `sinks`), a router
(`handlers`) and a readiness latch (`ready`), which the controller waits for.
`left` is history: what the finalizer recorded when it left a subscription alone.

## 3. Runs

Passing runs:

| Run | Instance | Shows |
|---|---|---|
| `synchronizer` | 2 clients, 2 responses, 2 keys | sessions are owned; acknowledgements are receipts; correlation; answers in time; all handlers return |
| `sqs` | 2 messages (of 2 and 1 events), 2 handles, 1 receiver, 2 processors, 1 deleter, batches of 2, channels of 1 | at-least-once and its refinement; delete buffers stay within a batch; the pipeline drains; shutdown completes |
| `servicebus` | 2 messages, 2 lock tokens, 2 consumers | at-least-once and its refinement; one error stops all routines |
| `bayeux` | 3 events, replay -1, 0 or 1 | one token; replay ID behind the dispatcher; nothing dropped between the loops; retry; stop |
| `shared_sa` | 2 instance names, 3 changes (creations, failures, restarts) | owners are kept, unique and complete in the end; user accounts untouched; clean-up |
| `transformation` | 2 handlers that take any sequence of 5 events, 2 configurations with all operations | isolation, no leaked variables, every request answered |
| `s3` | 2 sources of one bucket, 2 lists of event types, 3 changes, 1 fault | the queue goes only with its owner; entries of deleted sources stay removed; sources that overwrite each other converge |
| `dynamodb` | 2 shards, 2 records each, 2 faults | order without repetition; no gap; open shards get a processor |
| `sns` | 2 sources, 2 creations, 1 fault | only pending or ignored subscriptions are left behind; live sources are subscribed in the end |

Why the bounds are enough. Every race listed in the hazards needs two actors on
one object and at most one earlier state of it: two clients that draw one key,
two processors or consumers with copies of one message, a response and a lost
one before it, two workers on one ServiceAccount with a recreated instance, two
requests under one identifier. Each instance has that much and a little more;
channels of capacity 1 fill and drain. 3 changes in `shared_sa` allow the two
creations and one recreation, failure or restart. A third handler of
`transformation` adds no new kind of overlap, since each shared cell is accessed
by at most two in a race. In `s3` two workers hold one document, one of them
finalizing, and the third change is an edit or a recreation in between. In
`dynamodb` two records tell order from repetition and a gap from an end, two
shards give pages, a sealed shard with its successor and a replaced stream, and
two faults end a processor and then the one that follows it, or the process. In
`sns` the second creation is a recreation or a second source, whose handler the
probe counts for the first. What does not depend on the sizes is proved (section 5).
No symmetry is declared: most of the runs check liveness, for which it is
unsound.

Deadlock checking is on for the two queue-backed sources, where something can
always happen. It is off where the system may really stop: all events handled
(synchronizer, transformation), the client stopped (Bayeux) or the process
ended (DynamoDB), nothing left to reconcile.

Runs that show a disagreement between the code and what the repository says:

| Run | Property | The code |
|---|---|---|
| `servicebus_errchan` | `ErrChanHasCapacity` | `errChan` has room for the consumers but not for the producer as well (`azureservicebussource/adapter.go:287`) |
| `shared_sa_nil` | `NoInstanceIsHarmless` | a nil ServiceAccount is dereferenced when the last instance left the cache during a reconciliation (`reconciler/reconcile.go:295`) |
| `transformation_delete` | `FilterIsOwn` | `Delete.Apply` replaces the variable's name by the first event's value in the shared transformer (`delete/delete.go:79`) |

`PROJECT.json` has further findings that need no run of their own because an
action of the model, or an exception in a property, is the finding: the
synchronizer's two panics and the response it refuses while its client is not yet
in its `select`; `Start` of the Service Bus source, which never returns since nobody
closes `errChan`; the Bayeux handshake that locks `b.mutex` twice after a 401 or
403 (the exception of `StopsUnlessLocked`); the collision of `eventUniqueID`;
`delete` operations with a separator other than "."; the S3 entry that a
concurrent worker restores after the finalizer removed it (the exception
`overlapped`), and a changed destination that never reaches the bucket; the SNS
subscription left pending by the finalizer and confirmed afterwards; the SNS probe
that compares numbers of handlers and sources.

Smaller observations made while modelling:

* Bayeux: the stored replay ID is not monotone. When a response ends with a failed
  meta message that advises a handshake, the connect loop subscribes again with the
  replay ID stored so far while the worker still holds the last event; if the next
  response is lost, older events are sent again after it and the stored ID goes
  back. That only repeats events (`NoSilentSkip`). With replay ID -1, a
  re-subscription before the worker's first store subscribes to the tip again and
  misses what was published in between; the model counts these as `missed`.
* Shared ServiceAccount: `NoOwnerLost` holds per name. Its form per UID does not:
  a worker that listed owners before an instance was recreated and reads the
  ServiceAccount after may write the old UID over the new one; `Converges` shows
  that it is repaired. The random order of `mergeOwners` undoes the sort of
  `serviceAccountOwners` and causes updates without a difference in content.
* S3: a source whose `Spec.Destination` is edited from the managed queue to one of
  the user's, and which is deleted then, leaves its managed queue behind: the
  finalizer looks at the destination the source has now (`EnsureNoQueue`). The next
  source of the bucket finds a queue it does not own and never deletes it either.
  `QueueGoesWithOwner` (section 5) proves that this and the errors that a finalizer
  ignores are the only ways to leave it.
* Adapters of multi-tenant types take overrides and labels from the instance that
  is reconciled (`reconciler/adapter.go:159-170, 245-256`), so instances with
  different overrides overwrite each other's. Not modelled yet.
* Synchronizer: `randString` draws from a `rand.Rand` that all requests use without
  a lock, so that keys may repeat more often than their length suggests; the model
  lets any key be drawn.
* Transformation: with several variables in one text, the result depends on the
  iteration order of a Go map; a shift operation without ":" panics at start-up.

## 4. Fairness

Safety properties are checked and proved without fairness. Liveness assumes only:

* a goroutine that can run is run (weak fairness of its actions), and calls to the
  sink or to a service return, with success or not, since the clients in use have
  timeouts;
* timers expire (the synchronizer's timeout, the Bayeux back-off);
* `select` picks at random among ready cases, so that a context that stays done is
  eventually seen (strong fairness of `Stop` in `BayeuxClient`);
* Kubernetes restarts a container that died (`Restart` in `Synchronizer`);
* a DynamoDB process that failed is started again, its loop and its processors go on;
* SNS posts a token until it is answered, and the kubelet polls the readiness probe
  (`SNSSubscription`);
* informers catch up, failed keys are queued again, resyncs bring every instance
  back to a worker, and the garbage collector runs (`SharedServiceAccount`; without
  the collector also `S3Source` and `SNSSubscription`).

Nothing is assumed about clients, backends, messages that arrive, visibility
timeouts, users, or any call succeeding, except that failures named in a `MaxFaults` bound
are finitely many. Where several goroutines wait on one Go
channel, fairness is for the group, not for each of them. `ShutdownCompletes` and
`ErrorStopsAllRoutines` name the states in which the code does block (a send on a
full channel whose readers have all returned); they show that there are no others.

## 5. Theorems

All proofs are checked by TLAPS for every value of the constants under the
assumptions stated in the component modules (`NoneAssumption`, `SizesAssumption`, `RoutinesAssumption`,
`MessagesAssumption`, `ReplayAssumption`, `TransformationAssumption`,
`ConfigurationAssumption`, `SharedServiceAccountAssumption`, `S3SourceAssumption`,
`DynamoDBSourceAssumption`, `SNSSubscriptionAssumption`): markers such as `None` are
none of the values they mark, the three groups of goroutines of the SQS source are
disjoint, capacities are natural numbers, replay IDs are event IDs or special, a configuration has the operations that the API defines with the
arguments they take. In each module `Inv` is the inductive invariant, with
`Init => Inv`, `Inv /\ [Next]_vars => Inv'` and one step of the latter per action.
Every invariant, every action property and both refinements that a passing run
checks are proved.

The last part of each proof module has results beyond the runs: stronger or
complementary statements about the same component, defined where they are proved.
Several are the *safety half* of a liveness property: which states a goroutine may
end or wait in, or what decreases with each step, which leaves fairness as the only
thing that TLC alone vouches for. They were checked with TLC on the instances of the
runs before they were proved, and `PROJECT.json` lists them without a property.

* `SynchronizerProofs`: `TypeCorrect`, `SessionsOwned`, `AcksAreReceipts`,
  `Correlation`, `AnswersInTime`. `Dispatched` (a request
  that was dispatched has a key, and only the channel of one that returned is
  closed) supports `SessionOwned`. Correlation needs more, because `serveResponse`
  keeps a channel after it gave up the lock: `InFlight` says that the channel a
  response holds belongs to a request with the key of the one its backend answers,
  even when that request is over. `Waiting` says that a request up to its `select`
  has no answer and no reply yet. Beyond the runs: `UniqueKeysGetOwnResponse` (with a
  key of its own a client gets the response to its own request),
  `EveryoneIsAnswered` (a handler has replied exactly when it is past its wait), and
  `HandlersAdvance`, the safety half of `HandlersReturn`: a request is at one of six
  stages (`Stage`), each of its steps takes it to a later one, nobody's to an earlier.
* `SQSSourceProofs`: `TypeCorrect`, `DeletedOnlyIfDelivered`, `BatchesFit`,
  `Refinement`. `DeletedWasDelivered` is about the end of the pipeline; the invariant
  follows a message through it: a processor at event n has delivered the n-1 before
  it (`ProcessorInv`), what is on `deleteQueue` or in a buffer is delivered
  (`QueueInv`, `BufferInv`), and `acked` never shrinks. `Refinement` maps
  `settled` to the deleted messages: a batch deletion is a `Settle`, an
  acknowledged send a `Deliver`, and every other step stutters. `BatchesFit`
  (`DeleteBufferHasRoom`) rests on `RoomInv`: a buffer is finite, and adding a
  message to it, known or new, adds at most one to its size. `ShutdownLeavesNothing`
  says that a goroutine that returned has nothing in hand, neither messages nor
  batched deletions; it needs that no goroutine is of two groups.
* `SQSSourceProofs`, last part: `BusTypeCorrect` (`TypeOK` of `ServiceBusSource`) and
  `BusRefinement` (its `Implements`). `BusInv` is weaker on the way than `Inv`: a
  consumer whose event was refused stays at its message without having delivered
  anything (`refused`), so `ConsumerInv` only covers the others. That `errChan`
  has no more errors than its capacity is part of the types. The hypothesis
  `BusConstants` is what `ConstantsAssumption` of that module says of the constants
  that `SQSSource` does not have: finitely many consumers, none of them the
  producer, and a marker that is no lock. A component that is instantiated has its
  properties under the names `SB!TypeOK` and `SB!Implements`, so `PROJECT.json`
  lists these theorems without a property of a run.
* `SQSSourceProofs`, the end of the Service Bus source: `BusShutdownLeavesNothing`,
  `ErrorsLoseNobodyElse`, `OneHolder`. `EndInv` is the strengthening: whoever ended
  has no message (`HandsInv`), `Start` gathers after all routines (`GatherInv`), and
  errors are at most the routines that ended (`ErrorsInv`, a statement about
  cardinalities). So the error for which `errChan` has no room is that of the last
  routine: the exception of `ErrorStopsAllRoutines` is the whole of it. `OneHolder`
  says that a copy of a message, which is its lock, has one holder.
* `BayeuxClientProofs`: `TypeCorrect`, `TokenConserved`, `ReplayIsSafe`,
  `EventsReachWorker`. The stored replay ID jumps to the event just dispatched,
  which is safe only because all older events are covered: `InboxInv` (a response
  is in order and not beyond the session's position) and `WorkerInv` (everything
  older than the event in the worker's hands is covered) carry that from the
  subscription to the store. `WorkerOutlivesLoop` and `StopIsClean` are about the end
  of `Start`: the worker returns after the connect loop, and with nothing left to
  dispatch.
* `TransformationProofs`: `TypeCorrect`, `StorageIsFlushed`, `IsolatedRequests`, for
  any handlers, pipelines and documents. `StorageInv` gives the shape of the
  storage, `EventInv` that a busy handler has an event, and `TypeInv` the types,
  which need that `applyTransformations` only lists operations of its
  configuration. `Isolated` compares the answer with `Alone`, the whole run of the
  pipelines on that event. `IsolationInv` compares at every position of the program
  in between (`RunInv`): document and variables are those of `AloneAfter` at that
  position, unless a request with the same `eventUniqueID` overlapped. Each action
  either stays at its position or makes the next step of `AloneAfter`
  (`Proceeds`), and leaves the others' storage alone since their identifiers differ
  (`ApartInv`). `FilterInv` says that the shared transformers keep the values they
  were configured with. It is the reason for the hypothesis `OwnFilters`, that no
  delete operation names a variable as its value: with one that does, the first
  request changes the transformer for all others, which the run
  `transformation_delete` shows. The configurations of the run `transformation`
  satisfy it.

  The library's induction theorem takes an operator as a parameter and cannot be
  used here. The lemma `Induction` states induction over *sets* of numbers
  instead and follows from the well-foundedness of inclusion on finite sets, a
  first-order theorem of the library; `ApplyFacts` and `AloneFacts` use it to unfold
  the recursive functions `apply` and `AloneAfter`.

  `OneAnswer` and `RequestsFinish` are what `AllAnswered` has besides fairness: a
  handler answers once, and `Rest`, a bound on the steps that are left of its request,
  is a natural number that each of its steps lowers and only the next request raises.
  With `TypeInv` the positions stay within the program, failing operations included.
* `SharedServiceAccountProofs`: `TypeCorrect`, `OwnersDistinct`, `OwnersKept`,
  `UsersAccountIsKept`, for any names, workers and changes. That no name is twice in
  the list is a fact about `serviceAccountOwners` and `mergeOwners`, which go through
  a set and a map: an enumeration as long as its set has no repetitions
  (`NoRepetition`). `OwnersInv` carries it through the copies in the cache and in
  the workers' hands. `OwnersKept` and `UsersAccountIsKept` are about the copy a
  worker writes from: if the API server accepts the write, nothing changed since the
  copy was read, hence the list made from it has all names of the current one and
  the account is the controller's (`UpdateInv`); that a copy from the cache with the
  latest resourceVersion is the current object is `CacheInv`.
  `AlwaysOwned`, `OrphanIsCollectable` and `ListedInstanceStays` are what
  `Converges` needs of the safety side: the controller never writes an empty list
  (`OwnedInv`, which includes the copies in the cache and in hand), so the garbage
  collector always finds the account of the last instance, and an instance that
  exists and is listed stays listed under its name, whoever writes or collects.
* `S3SourceProofs`: `TypeCorrect`, `Removed`, `QueueIsKept`. `EntryInv` says that
  the entry of a source that is gone is neither in the bucket nor in any document a
  worker holds, since every such document is written back sooner or later, and that
  this is so from the finalizer's write on, while the source still waits for the
  finalizer to be removed; `CopyInv` that a worker holds one only between its read and its write. `OwnerInv`
  carries the ownership from the look at the tags to the deletion, `PhaseInv` that
  only an object under deletion is finalized. `NowhereHeld` states `EntryInv` itself.
  `QueueGoesWithOwner` adds what `QueueKept` does not say, that the managed queue does
  go with its owner. It has a hypothesis on the behaviour, `Careful`: no finalizer
  ignores an error, and nobody moves a source between the managed queue and a queue
  of the user's. Both exceptions are real (section 3). `ManagedInv` is inductive under
  it: the owner exists, has a managed queue, and its finalizer does not reach the
  bucket's configuration before the queue is deleted.
* `DynamoDBSourceProofs`: `RecordsInOrder`, `RecordsWithoutGap`. `Sole` (only the
  first goroutine of a shard is used, and its shard is in the map) is what
  `LoadOrStore` achieves; with it `PositionInv` says that the sink has nothing
  beyond the position of the shard's processor, and nothing that was not written,
  which is why a processor that begins at the end of the shard repeats nothing.
  `PageInv` keeps `Start` within the shards that exist. `OneProcessorPerShard`
  is the safety half of `ShardsServed`: a shard is in the map exactly while its only
  goroutine runs (`MapInv`), so that an ended processor never hides its shard from
  the next listing. `ShutdownTerminates` is about the end: once the context is
  cancelled, each step of `Start` lowers `LoopRest` and each step of a processor lowers
  its `Rest`, two natural numbers that no other step raises, except that the page
  `Start` is at may still start processors. It covers both ways in which `Start` ends,
  after `wg.Wait` and, on a failed look-up, without waiting.
  `TypeCorrect` is proved with the types of the listing and of each goroutine.
* `SNSSubscriptionProofs`: `OnlyPendingIsLeft`. `GoneInv` is stronger than the
  property: SNS has *no* subscription of a source released without a reason, so a
  late token finds nothing to confirm; `IdleInv` says that nobody subscribes for
  an object that is gone. `NothingPendingIsLeft` states `GoneInv` itself;
  `TypeCorrect` is proved too.

Only model-checked: the liveness properties, which need fairness and `ENABLED`
(`HandlersReturn`, `PipelineDrains`, `ShutdownCompletes`, `ErrorStopsAllRoutines`,
`RetriesAfterError`, `StopsUnlessLocked`, `AllAnswered`, `ShardsServed`,
`EventuallySubscribed`, `CleanedUp`, and `Converges` of `SharedServiceAccount` and
of `S3Source`).

## 6. Not modelled

The contents of events and all conversions but the transformation's operations;
metrics, logging and status conditions; authentication beyond success or failure;
HTTP itself (a request is received and answered once); nested JSON documents and
several variables in one text; the target adapters, pure conversions and sources
without state of their own; generated code. The splitter and the CloudWatch
source are at most once by design: what the sink refuses is logged and the event,
or the interval, is not tried again. Left out of the newer modules: deletion of the
queue or the bucket by others and S3's own validation of destinations
(`S3Source`); a finalizer that reads an old Status from the informer's cache, when the
cache catches up before the finalizer is removed (`SNSSubscription`); two controller or adapter pods that overlap during a roll-out; the
records that a shard gets before its first listing (`DynamoDBSource`); deletion of
the SNS adapter with its last source. `PROJECT.json` gives the reason for each
component.

Most of the repository's lines are generated clients and deep copies, API types
and many adapters and reconcilers of one shape (one call to a third-party
API, or the get, compare, create or update of one object). They have no
interleaving to model, which is why the modules map to a small share of the lines.

## 7. Plan

1. `AdapterObjects`: adapters and RoleBindings of several tenants, from informer
   caches; convergence when overrides agree, and what happens when they do not. It
   composes with `SharedServiceAccount`, whose collection takes these objects away.
2. Reconcilers with shared external state like `S3Source`'s: the EventGrid system
   topic and the EventBridge queue.
3. Proofs: every safety property of the passing runs is proved, and so are type
   correctness of every component and the safety halves of the liveness properties
   named in section 5. What is left to TLC needs fairness and `ENABLED`. Next would
   be the disjunctions behind `PipelineDrains` and `StopsUnlessLocked`: that in every
   state which is not final some goroutine can take a step.
