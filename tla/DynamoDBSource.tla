--------------------------- MODULE DynamoDBSource ---------------------------
(***************************************************************************)
(* The adapter of the AWSDynamoDBSource                                    *)
(* (pkg/sources/adapter/awsdynamodbsource/adapter.go): a loop lists the    *)
(* shards of the table's stream every 15 seconds and starts a goroutine, a *)
(* records processor, for each shard that has none.  A processor reads its *)
(* shard from the LATEST position on and sends each record to the sink; an *)
(* error ends it, and the next listing starts another.                     *)
(*                                                                         *)
(* Shards and streams are numbered in the order they are made: a stream is *)
(* known by its first shard, the records of a shard are 1, 2, 3, ...       *)
(***************************************************************************)
EXTENDS Integers, Sequences

CONSTANTS
    NumShards,  \* bound: shards that are ever made
    MaxRecords, \* bound: records written to a shard
    MaxFaults   \* bound: failing calls, refused events and crashes

ASSUME DynamoDBSourceAssumption ==
    NumShards \in Nat \ {0} /\ MaxRecords \in Nat /\ MaxFaults \in Nat

Shards  == 1..NumShards
Records == 0..MaxRecords

\* Goroutines of a shard.  One is all there should be; the second has room for
\* the mistake.
Goroutines == Shards \X {1, 2}

VARIABLES
    stream,     \* DynamoDB: the table's latest stream
    enabled,    \* DynamoDB: its status is ENABLED
    created,    \* DynamoDB: the number of shards made so far
    sealed,     \* DynamoDB: shards that take no more records
    written,    \* DynamoDB: the number of records of each shard
    delivered,  \* the sink: the records it acknowledged, of each shard
    loop,       \* where Start is
    streamARN,  \* the stream it is checking
    shard,      \* the next shard of the page,
    page,       \* the last shard of the page,
    more,       \* and whether more pages follow
    processors, \* the sync.Map of shards that have a processor
    proc,       \* the goroutines: pc, the position they began at, the one they have
                \* reached, the end of the batch and whether the shard ends there
    cancelled, faults

tableVars == <<stream, enabled, created, sealed, written>>
startVars == <<loop, streamARN, shard, page, more>>
procVars  == <<processors, proc>>
vars      == <<tableVars, delivered, startVars, procVars, cancelled, faults>>

Idle == [pc |-> "none", first |-> 0, iter |-> 0, batch |-> 0, nil |-> FALSE]

TypeOK ==
    /\ stream \in Shards /\ enabled \in BOOLEAN /\ created \in Shards
    /\ sealed \subseteq Shards /\ written \in [Shards -> Records]
    /\ delivered \in [Shards -> Seq(Records)]
    /\ loop \in {"verify", "select", "describe", "ensure", "wait", "returned", "failed"}
    /\ streamARN \in Shards /\ shard \in 0..NumShards /\ page \in 0..NumShards
    /\ more \in BOOLEAN
    /\ processors \subseteq Shards
    /\ proc \in [Goroutines -> [pc : {"none", "start", "poll", "send", "done", "left"},
                                 first : Records, iter : Records, batch : Records,
                                 nil : BOOLEAN]]
    /\ cancelled \in BOOLEAN /\ faults \in 0..MaxFaults

Init ==
    /\ stream = 1 /\ enabled = TRUE /\ created = 1 /\ sealed = {}
    /\ written = [s \in Shards |-> 0] /\ delivered = [s \in Shards |-> <<>>]
    /\ loop = "verify" /\ streamARN = 1 /\ shard = 0 /\ page = 0 /\ more = FALSE
    /\ processors = {} /\ proc = [g \in Goroutines |-> Idle]
    /\ cancelled = FALSE /\ faults = 0

----------------------------------------------------------------------------
(* The table. *)

Open(s) == s \in stream..created /\ s \notin sealed

Write(s) ==
    /\ Open(s) /\ written[s] < MaxRecords
    /\ written' = [written EXCEPT ![s] = @ + 1]
    /\ UNCHANGED <<stream, enabled, created, sealed, delivered, startVars, procVars, cancelled, faults>>

\* A shard is sealed and a new one takes its place.
Roll(s) ==
    /\ Open(s) /\ created < NumShards
    /\ sealed' = sealed \cup {s} /\ created' = created + 1
    /\ UNCHANGED <<stream, enabled, written, delivered, startVars, procVars, cancelled, faults>>

Disable ==
    /\ enabled
    /\ enabled' = FALSE /\ sealed' = sealed \cup (stream..created)
    /\ UNCHANGED <<stream, created, written, delivered, startVars, procVars, cancelled, faults>>

\* A table whose stream is enabled again has another stream.
Enable ==
    /\ ~enabled /\ created < NumShards
    /\ enabled' = TRUE /\ created' = created + 1 /\ stream' = created + 1
    /\ UNCHANGED <<sealed, written, delivered, startVars, procVars, cancelled, faults>>

----------------------------------------------------------------------------
(* Start. *)

\* A call fails because of a fault, or because the context is cancelled.
Fault == /\ faults < MaxFaults \/ cancelled
         /\ faults' = IF cancelled THEN faults ELSE faults + 1

\* Start waits for the next tick; what belonged to the last one is forgotten.
Select == loop' = "select" /\ streamARN' = 1 /\ shard' = 0 /\ page' = 0 /\ more' = FALSE

\* The stream is looked up once before the loop begins.
Verify ==
    /\ loop = "verify"
    /\ \/ ~cancelled /\ loop' = "select" /\ UNCHANGED faults
       \/ Fault /\ loop' = "failed"
    /\ UNCHANGED <<tableVars, delivered, streamARN, shard, page, more, procVars, cancelled>>

\* The timer fires; when the context is cancelled as well, select may still choose
\* the timer.  A failing look-up ends Start, without waiting for the processors.
Tick ==
    /\ loop = "select"
    /\ \/ /\ ~cancelled
          /\ loop' = "describe" /\ streamARN' = stream
          /\ page' = stream - 1 /\ UNCHANGED faults
       \/ /\ Fault
          /\ loop' = "failed" /\ UNCHANGED <<streamARN, page>>
    /\ UNCHANGED <<tableVars, delivered, shard, more, procVars, cancelled>>

\* One page of recheckStream, of any length.  An error, logged, and a stream that is not enabled
\* end the check.
DescribeStream ==
    /\ loop = "describe"
    /\ \/ Fault /\ Select
       \/ /\ ~cancelled /\ ~(enabled /\ streamARN = stream)
          /\ Select /\ UNCHANGED faults
       \/ /\ ~cancelled /\ enabled /\ streamARN = stream
          /\ shard' = page + 1
          /\ \E last \in (page + 1)..created : page' = last /\ more' = (last < created)
          /\ loop' = "ensure" /\ UNCHANGED <<streamARN, faults>>
    /\ UNCHANGED <<tableVars, delivered, procVars, cancelled>>

FreeGoroutine(s) == IF proc[<<s, 1>>].pc = "none" THEN <<s, 1>> ELSE <<s, 2>>

\* Mutant of LoadOrStore: a processor is started whatever the map says.
LoadOrStoreAlways(s) == FALSE

\* Whether the shard had a processor already; it is in the map afterwards.
LoadOrStore(s) == s \in processors

\* ensureRecordsProcessor for the next shard of the page.
ensureRecordsProcessor ==
    /\ loop = "ensure"
    /\ processors' = processors \cup {shard}
    /\ proc' = IF LoadOrStore(shard) THEN proc
               ELSE [proc EXCEPT ![FreeGoroutine(shard)] = [Idle EXCEPT !.pc = "start"]]
    /\ \/ /\ shard < page
          /\ shard' = shard + 1 /\ UNCHANGED <<loop, streamARN, page, more>>
       \/ /\ shard = page /\ more
          /\ loop' = "describe" /\ UNCHANGED <<streamARN, shard, page, more>>
       \/ shard = page /\ ~more /\ Select
    /\ UNCHANGED <<tableVars, delivered, cancelled, faults>>

\* The context is cancelled: the loop ends, and Start waits for the processors.
Break ==
    /\ loop = "select" /\ cancelled
    /\ loop' = "wait"
    /\ UNCHANGED <<tableVars, delivered, streamARN, shard, page, more, procVars, cancelled, faults>>

\* The goroutines that wg counts.
Counted == {g \in Goroutines : proc[g].pc \notin {"none", "left"}}

ReturnStart ==
    /\ loop = "wait" /\ Counted = {}
    /\ loop' = "returned"
    /\ UNCHANGED <<tableVars, delivered, streamARN, shard, page, more, procVars, cancelled, faults>>

----------------------------------------------------------------------------
(* runRecordsProcessor, in goroutine g of shard g[1]. *)

Set(g, p) == proc' = [proc EXCEPT ![g] = p]

\* The LATEST iterator of the shard: only records written from now on are read.
GetShardIterator(g) ==
    /\ proc[g].pc = "start" /\ ~cancelled
    /\ Set(g, [Idle EXCEPT !.pc = "poll", !.first = written[g[1]], !.iter = written[g[1]]])
    /\ UNCHANGED <<tableVars, delivered, startVars, processors, cancelled, faults>>

\* A page of records, up to any position.  The next iterator is nil at the end of
\* a sealed shard.
GetRecords(g) ==
    /\ proc[g].pc = "poll" /\ ~cancelled
    /\ \E last \in proc[g].iter..written[g[1]] :
         LET nil == g[1] \in sealed /\ last = written[g[1]]
         IN  Set(g, [proc[g] EXCEPT !.batch = last, !.nil = nil,
                                    !.pc = IF last > proc[g].iter THEN "send"
                                           ELSE IF nil THEN "done" ELSE "poll"])
    /\ UNCHANGED <<tableVars, delivered, startVars, processors, cancelled, faults>>

\* Position of a processor after record p.iter + 1 was acknowledged.
Advance(p) ==
    [p EXCEPT !.iter = @ + 1,
              !.pc = IF p.iter + 1 < p.batch THEN "send" ELSE IF p.nil THEN "done" ELSE "poll"]

sendDynamoDBEvent(g) ==
    /\ proc[g].pc = "send"
    /\ delivered' = [delivered EXCEPT ![g[1]] = Append(@, proc[g].iter + 1)]
    /\ Set(g, Advance(proc[g]))
    /\ UNCHANGED <<tableVars, startVars, processors, cancelled, faults>>

\* Mutant of Abort: a refused event is skipped.
AbortNot(g) ==
    /\ proc[g].pc \in {"start", "poll", "send"} /\ Fault
    /\ Set(g, IF proc[g].pc = "send" THEN Advance(proc[g]) ELSE [Idle EXCEPT !.pc = "done"])
    /\ UNCHANGED <<tableVars, delivered, startVars, processors, cancelled>>

\* A failing call, a refused event or the cancelled context ends the processor,
\* with the rest of its batch.
Abort(g) ==
    /\ proc[g].pc \in {"start", "poll", "send"} /\ Fault
    /\ Set(g, [Idle EXCEPT !.pc = "done"])
    /\ UNCHANGED <<tableVars, delivered, startVars, processors, cancelled>>

\* The deferred calls run last in, first out: wg.Done, then Delete.
Done(g) ==
    /\ proc[g].pc = "done"
    /\ Set(g, [Idle EXCEPT !.pc = "left"])
    /\ UNCHANGED <<tableVars, delivered, startVars, processors, cancelled, faults>>

\* Mutant of Delete: the shard stays in the map.
DeleteNot(g) ==
    /\ proc[g].pc = "left"
    /\ Set(g, Idle)
    /\ UNCHANGED <<tableVars, delivered, startVars, processors, cancelled, faults>>

\* The shard leaves the map, when Start may have returned.
Delete(g) ==
    /\ proc[g].pc = "left"
    /\ Set(g, Idle) /\ processors' = processors \ {g[1]}
    /\ UNCHANGED <<tableVars, delivered, startVars, cancelled, faults>>

----------------------------------------------------------------------------
(* The process. *)

Cancel ==
    /\ ~cancelled /\ loop \notin {"returned", "failed"}
    /\ cancelled' = TRUE
    /\ UNCHANGED <<tableVars, delivered, startVars, procVars, faults>>

\* The process ended with an error, or crashes; Kubernetes starts it again.
Restart ==
    /\ ~cancelled
    /\ \/ loop = "failed" /\ UNCHANGED faults
       \/ loop # "failed" /\ faults < MaxFaults /\ faults' = faults + 1
    /\ loop' = "verify" /\ streamARN' = 1 /\ shard' = 0 /\ page' = 0 /\ more' = FALSE
    /\ processors' = {} /\ proc' = [g \in Goroutines |-> Idle]
    /\ UNCHANGED <<tableVars, delivered, cancelled>>

Start == Verify \/ Tick \/ DescribeStream \/ ensureRecordsProcessor \/ Break \/ ReturnStart

Processor(g) ==
    \/ GetShardIterator(g) \/ GetRecords(g) \/ sendDynamoDBEvent(g) \/ Abort(g)
    \/ Done(g) \/ Delete(g)

Next ==
    \/ \E s \in Shards : Write(s) \/ Roll(s)
    \/ Disable \/ Enable \/ Start \/ Cancel \/ Restart
    \/ \E g \in Goroutines : Processor(g)

Spec == Init /\ [][Next]_vars

\* The loop and the processors go on, and a process that failed is started again.
FairSpec ==
    /\ Spec /\ WF_vars(Start) /\ WF_vars(loop = "failed" /\ Restart)
    /\ \A g \in Goroutines : WF_vars(Processor(g))

----------------------------------------------------------------------------

\* The sink gets the records of a shard in the order of the shard, and none twice,
\* although processors fail, shards are listed again and again and the process may
\* be restarted: at most one processor reads a shard (LoadOrStore, line 259).
InOrder ==
    \A s \in Shards : \A i, j \in DOMAIN delivered[s] :
        i < j => delivered[s][i] < delivered[s][j]

\* A processor has passed over no record since it began: from its first iterator to
\* where it stands, the sink has acknowledged every record (runRecordsProcessor ends
\* at the first refused event).
NoGap ==
    \A g \in Goroutines : proc[g].pc \in {"poll", "send"} =>
        \A r \in (proc[g].first + 1)..proc[g].iter :
            \E i \in DOMAIN delivered[g[1]] : delivered[g[1]][i] = r

\* An open shard gets a processor, whatever happened to the one it had: an error of
\* one leaves room for the next (Delete, line 267), and a failing page or a failing
\* process is tried again.
ShardsServed ==
    \A s \in Shards :
        Open(s) ~> \/ ~Open(s) \/ cancelled
                   \/ \E g \in Goroutines : g[1] = s /\ proc[g].pc \in {"poll", "send"}

=============================================================================
