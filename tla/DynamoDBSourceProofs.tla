------------------------ MODULE DynamoDBSourceProofs -------------------------
(***************************************************************************)
(* Proofs about DynamoDBSource, for any number of shards and records: the  *)
(* sink gets the records of a shard in order and none twice, a processor   *)
(* skips none, a shard is marked as served exactly while it is, and a      *)
(* cancelled process winds down.                                           *)
(***************************************************************************)
EXTENDS DynamoDBSource, TLAPS

\* Positions are of any size here: the bound on records plays no part.
Procs == [pc : {"none", "start", "poll", "send", "done", "left"}, first : Nat, iter : Nat,
          batch : Nat, nil : BOOLEAN]

\* The part of TypeOK that the argument needs.
Shape ==
    /\ proc \in [Goroutines -> Procs]
    /\ written \in [Shards -> Nat] /\ delivered \in [Shards -> Seq(Nat)]
    /\ processors \subseteq Shards

\* Start is always at a shard that exists.
PageInv ==
    /\ stream \in Shards /\ created \in Shards
    /\ shard \in Nat /\ page \in 0..NumShards
    /\ loop = "ensure" => shard \in 1..page

\* Only the first goroutine of a shard is ever used, and while it runs its shard is in
\* the map.
Sole ==
    \A g \in Goroutines : proc[g].pc # "none" => g[2] = 1 /\ g[1] \in processors

\* The sink has no record from behind the position of a processor, and none that was
\* not written: an iterator that begins at the end of the shard begins after them.
Reading(g) == proc[g].pc \in {"poll", "send"}

PositionInv ==
    /\ \A s \in Shards : \A i \in DOMAIN delivered[s] : delivered[s][i] <= written[s]
    /\ \A g \in Goroutines : Reading(g) =>
         /\ proc[g].iter <= written[g[1]]
         /\ proc[g].pc = "send" => proc[g].iter < proc[g].batch /\ proc[g].batch <= written[g[1]]
         /\ \A i \in DOMAIN delivered[g[1]] : delivered[g[1]][i] <= proc[g].iter

Inv == Shape /\ PageInv /\ Sole /\ PositionInv /\ InOrder /\ NoGap

\* What Append does to a sequence of positions.
LEMMA AppendFacts ==
    ASSUME NEW d \in Seq(Nat), NEW r \in Nat
    PROVE  /\ Append(d, r) \in Seq(Nat)
           /\ Len(d) \in Nat /\ DOMAIN d = 1..Len(d)
           /\ DOMAIN Append(d, r) = 1..(Len(d) + 1)
           /\ \A i \in 1..Len(d) : Append(d, r)[i] = d[i]
           /\ Append(d, r)[Len(d) + 1] = r
OBVIOUS

\* A goroutine belongs to a shard.
LEMMA GoroutineFacts ==
    /\ \A g \in Goroutines : g[1] \in Shards /\ g[2] \in {1, 2} /\ g = <<g[1], g[2]>>
    /\ \A s \in Shards : <<s, 1>> \in Goroutines /\ <<s, 2>> \in Goroutines
BY DEF Goroutines

\* Two goroutines of one shard do not run at the same time.
LEMMA OnePerShard ==
    ASSUME Sole, NEW g \in Goroutines, NEW h \in Goroutines,
           proc[g].pc # "none", proc[h].pc # "none", g[1] = h[1]
    PROVE  g = h
BY GoroutineFacts DEF Sole

\* A goroutine that does not run, or has not begun to read.
LEMMA IdleFacts ==
    /\ Idle \in Procs /\ Idle.pc = "none"
    /\ \A p \in {"start", "done", "left"} :
         [Idle EXCEPT !.pc = p] \in Procs /\ [Idle EXCEPT !.pc = p].pc = p
    /\ \A n \in Nat :
         LET p == [Idle EXCEPT !.pc = "poll", !.first = n, !.iter = n]
         IN  p \in Procs /\ p.pc = "poll" /\ p.first = n /\ p.iter = n
BY DEF Idle, Procs

\* The invariant holds when the process starts on a table without records.
LEMMA InitInv == Init => Inv
<1> SUFFICES ASSUME Init PROVE Inv
    OBVIOUS
<1>1. Shape
  <2>1. proc \in [Goroutines -> Procs]
    BY IdleFacts, Zenon DEF Init
  <2>2. written \in [Shards -> Nat] /\ processors \subseteq Shards
    BY DEF Init
  <2>3. delivered \in [Shards -> Seq(Nat)]
    <3>1. << >> \in Seq(Nat)
      OBVIOUS
    <3> QED
      BY <3>1, Zenon DEF Init
  <2> QED
    BY <2>1, <2>2, <2>3 DEF Shape
<1>2. PageInv
    BY DynamoDBSourceAssumption DEF Init, PageInv, Shards
<1>3. Sole /\ NoGap
    BY IdleFacts DEF Init, Sole, NoGap
<1>4. \A s \in Shards : DOMAIN delivered[s] = {}
  <2>1. DOMAIN << >> = {}
    OBVIOUS
  <2> QED
    BY <2>1, Zenon DEF Init
<1>5. \A g \in Goroutines : ~Reading(g)
    BY IdleFacts DEF Init, Reading
<1>6. InOrder /\ PositionInv
    BY <1>4, <1>5, Zenon DEF InOrder, PositionInv
<1> QED
    BY <1>1, <1>2, <1>3, <1>6 DEF Inv

\* What does not touch the processors, and only adds records, keeps the invariant.
LEMMA Untouched ==
    ASSUME Inv, UNCHANGED <<processors, proc, delivered>>, PageInv',
           written' \in [Shards -> Nat], \A s \in Shards : written[s] <= written'[s]
    PROVE  Inv'
<1>1. Shape' /\ Sole' /\ InOrder' /\ NoGap'
    BY DEF Inv, Shape, Sole, InOrder, NoGap
<1>2. PositionInv'
  <2>1. ASSUME NEW s \in Shards, NEW i \in DOMAIN delivered[s]
        PROVE  delivered[s][i] <= written'[s]
    <3>1. delivered[s][i] <= written[s] /\ delivered[s][i] \in Nat /\ written[s] \in Nat
      BY AppendFacts DEF Inv, Shape, PositionInv
    <3> QED
      BY <3>1
  <2>2. ASSUME NEW g \in Goroutines, Reading(g)
        PROVE  /\ proc[g].iter <= written'[g[1]]
               /\ proc[g].pc = "send" => proc[g].batch <= written'[g[1]]
    <3>1. /\ written[g[1]] \in Nat /\ written'[g[1]] \in Nat /\ written[g[1]] <= written'[g[1]]
          /\ proc[g].iter \in Nat /\ proc[g].batch \in Nat
      BY GoroutineFacts DEF Inv, Shape, Procs
    <3> QED
      BY <2>2, <3>1 DEF Inv, PositionInv
  <2> QED
    BY <2>1, <2>2 DEF Inv, PositionInv, Reading
<1> QED
    BY <1>1, <1>2 DEF Inv

\* When one goroutine moves, and the sink gets nothing, only the new state of that
\* goroutine is to be looked at.
LEMMA OneMoves ==
    ASSUME Inv, NEW g \in Goroutines, NEW p \in Procs,
           proc' = [proc EXCEPT ![g] = p], UNCHANGED <<delivered, written>>,
           PageInv', Sole', processors' \subseteq Shards,
           p.pc \in {"poll", "send"} =>
             /\ p.iter <= written[g[1]]
             /\ p.pc = "send" => p.iter < p.batch /\ p.batch <= written[g[1]]
             /\ \A i \in DOMAIN delivered[g[1]] : delivered[g[1]][i] <= p.iter
             /\ \A r \in (p.first + 1)..p.iter :
                  \E i \in DOMAIN delivered[g[1]] : delivered[g[1]][i] = r
    PROVE  Inv'
<1>1. proc'[g] = p /\ \A h \in Goroutines \ {g} : proc'[h] = proc[h]
    BY DEF Inv, Shape
<1>2. Shape'
    BY DEF Inv, Shape
<1>3. InOrder'
    BY DEF Inv, InOrder
<1>4. PositionInv'
    BY <1>1 DEF Inv, PositionInv, Reading
<1>5. NoGap'
  <2> SUFFICES ASSUME NEW h \in Goroutines, proc'[h].pc \in {"poll", "send"},
                      NEW r \in (proc'[h].first + 1)..proc'[h].iter
               PROVE  \E i \in DOMAIN delivered[h[1]] : delivered[h[1]][i] = r
    BY DEF NoGap
  <2>1. CASE h = g
    BY <1>1, <2>1
  <2>2. CASE h # g
    BY <1>1, <2>2 DEF Inv, NoGap
  <2> QED
    BY <2>1, <2>2
<1> QED
    BY <1>2, <1>3, <1>4, <1>5 DEF Inv

\* The table gets records, shards and streams.
LEMMA TableNext ==
    ASSUME Inv, (\E s \in Shards : Write(s) \/ Roll(s)) \/ Disable \/ Enable
    PROVE  Inv'
<1> USE DEF startVars, procVars
<1>1. UNCHANGED <<processors, proc, delivered, loop, shard, page>>
    BY DEF Write, Roll, Disable, Enable
<1>2. /\ written' \in [Shards -> Nat] /\ \A s \in Shards : written[s] <= written'[s]
      /\ stream' \in Shards /\ created' \in Shards
  <2>0. written \in [Shards -> Nat] /\ stream \in Shards /\ created \in Shards
    BY DEF Inv, Shape, PageInv
  <2>1. CASE \E s \in Shards : Write(s)
    BY <2>0, <2>1 DEF Write
  <2>2. CASE \E s \in Shards : Roll(s)
    BY <2>0, <2>2, DynamoDBSourceAssumption DEF Roll, Shards
  <2>3. CASE Disable \/ Enable
    BY <2>0, <2>3, DynamoDBSourceAssumption DEF Disable, Enable, Shards
  <2> QED
    BY <2>1, <2>2, <2>3
<1> QED
    BY <1>1, <1>2, Untouched DEF Inv, PageInv

\* Start goes through the pages of the stream.
LEMMA LoopNext ==
    ASSUME Inv, Verify \/ Tick \/ DescribeStream \/ Break \/ ReturnStart \/ Cancel
    PROVE  Inv'
<1> USE DEF tableVars, startVars, procVars
<1>1. UNCHANGED <<processors, proc, delivered, written, stream, created>>
    BY DEF Verify, Tick, DescribeStream, Break, ReturnStart, Cancel
<1>2. shard' \in Nat /\ page' \in 0..NumShards /\ (loop' = "ensure" => shard' \in 1..page')
  <2>0. PageInv
    BY DEF Inv
  <2>1. CASE Verify \/ Break \/ ReturnStart \/ Cancel
    BY <2>0, <2>1 DEF Verify, Break, ReturnStart, Cancel, PageInv
  <2>2. CASE Tick
    BY <2>0, <2>2, DynamoDBSourceAssumption DEF Tick, PageInv, Shards
  <2>3. CASE DescribeStream
    <3>1. CASE Select
      BY <3>1, DynamoDBSourceAssumption DEF Select
    <3>2. CASE /\ shard' = page + 1
               /\ \E last \in (page + 1)..created : page' = last
      BY <2>0, <3>2, DynamoDBSourceAssumption DEF PageInv, Shards
    <3> QED
      BY <2>3, <3>1, <3>2 DEF DescribeStream
  <2> QED
    BY <2>1, <2>2, <2>3
<1>3. PageInv'
    BY <1>1, <1>2 DEF Inv, PageInv
<1>4. written' \in [Shards -> Nat] /\ \A s \in Shards : written[s] <= written'[s]
    BY <1>1 DEF Inv, Shape
<1> QED
    BY <1>1, <1>3, <1>4, Untouched

\* A processor is started only for a shard that is not in the map, and so has none.
LEMMA EnsureNext == ASSUME Inv, ensureRecordsProcessor PROVE Inv'
<1> USE DEF tableVars
<1>1. shard \in Shards
    BY DynamoDBSourceAssumption DEF ensureRecordsProcessor, Inv, PageInv, Shards
<1>2. PageInv'
  <2>1. CASE Select
    BY <2>1, DynamoDBSourceAssumption DEF Select, ensureRecordsProcessor, Inv, PageInv
  <2>2. CASE UNCHANGED <<shard, page>> /\ loop' = "describe"
    BY <2>2 DEF ensureRecordsProcessor, Inv, PageInv
  <2>3. CASE shard < page /\ shard' = shard + 1 /\ UNCHANGED <<loop, page>>
    BY <2>3, DynamoDBSourceAssumption DEF ensureRecordsProcessor, Inv, PageInv
  <2> QED
    BY <2>1, <2>2, <2>3 DEF ensureRecordsProcessor
<1>3. UNCHANGED <<delivered, written>> /\ processors' = processors \cup {shard}
    BY DEF ensureRecordsProcessor
<1>4. CASE shard \in processors
  <2>1. processors' = processors /\ proc' = proc
    BY <1>3, <1>4 DEF ensureRecordsProcessor, LoadOrStore
  <2>2. written' \in [Shards -> Nat] /\ \A s \in Shards : written[s] <= written'[s]
    BY <1>3 DEF Inv, Shape
  <2> QED
    BY <1>2, <1>3, <2>1, <2>2, Untouched
<1>5. CASE shard \notin processors
  <2> DEFINE g == <<shard, 1>>
             p == [Idle EXCEPT !.pc = "start"]
  <2>1. g \in Goroutines /\ g[1] = shard /\ g[2] = 1 /\ proc[g].pc = "none"
    BY <1>1, <1>5, GoroutineFacts DEF Inv, Sole
  <2>2. p \in Procs /\ p.pc = "start"
    BY IdleFacts
  <2>3. proc' = [proc EXCEPT ![g] = p]
    BY <1>5, <2>1 DEF ensureRecordsProcessor, LoadOrStore, FreeGoroutine
  <2> HIDE DEF g, p
  <2>4. Sole'
    BY <1>3, <2>1, <2>3 DEF Inv, Shape, Sole
  <2>5. processors' \subseteq Shards
    BY <1>1, <1>3 DEF Inv, Shape
  <2> QED
    BY <1>2, <1>3, <2>1, <2>2, <2>3, <2>4, <2>5, OneMoves
<1> QED
    BY <1>4, <1>5

\* The processor begins at the end of its shard, where the sink has nothing from
\* behind it.
LEMMA IteratorNext == ASSUME Inv, NEW g \in Goroutines, GetShardIterator(g) PROVE Inv'
<1> USE DEF tableVars, startVars, Set
<1> DEFINE n == written[g[1]]
           p == [Idle EXCEPT !.pc = "poll", !.first = n, !.iter = n]
<1>1. g[1] \in Shards /\ n \in Nat
    BY GoroutineFacts DEF Inv, Shape
<1>2. p \in Procs /\ p.pc = "poll" /\ p.first = n /\ p.iter = n
    BY <1>1, IdleFacts
<1>3. proc' = [proc EXCEPT ![g] = p] /\ proc[g].pc = "start"
    BY DEF GetShardIterator
<1>4. UNCHANGED <<delivered, written, processors, stream, created, shard, page, loop>>
    BY DEF GetShardIterator
<1>5. \A i \in DOMAIN delivered[g[1]] : delivered[g[1]][i] <= n
    BY <1>1 DEF Inv, PositionInv
<1> HIDE DEF n, p
<1>6. PageInv' /\ Sole' /\ processors' \subseteq Shards
    BY <1>2, <1>3, <1>4 DEF Inv, Shape, PageInv, Sole
<1>7. (p.first + 1)..p.iter = {} /\ p.iter <= n
    BY <1>1, <1>2
<1> QED
    BY <1>2, <1>3, <1>4, <1>5, <1>6, <1>7, OneMoves DEF n

\* A batch moves its end, and not the position of the processor.
LEMMA RecordsNext == ASSUME Inv, NEW g \in Goroutines, GetRecords(g) PROVE Inv'
<1> USE DEF tableVars, startVars, Set
<1> DEFINE nil(last) == g[1] \in sealed /\ last = written[g[1]]
           next(last) == [proc[g] EXCEPT !.batch = last, !.nil = nil(last),
                                         !.pc = IF last > proc[g].iter THEN "send"
                                                ELSE IF nil(last) THEN "done" ELSE "poll"]
<1>1. PICK last \in proc[g].iter..written[g[1]] : proc' = [proc EXCEPT ![g] = next(last)]
    BY DEF GetRecords
<1> DEFINE p == next(last)
<1>2. /\ proc[g] \in Procs /\ proc[g].pc = "poll" /\ g[1] \in Shards
      /\ written[g[1]] \in Nat /\ proc[g].iter \in Nat
    BY GoroutineFacts DEF GetRecords, Inv, Shape, Procs
<1>3. last \in Nat /\ last <= written[g[1]]
    BY <1>1, <1>2
<1>4. nil(last) \in BOOLEAN
    BY Zenon
<1>5. /\ p \in Procs /\ p.first = proc[g].first /\ p.iter = proc[g].iter /\ p.batch = last
      /\ p.pc \in {"poll", "send", "done"} /\ (p.pc = "send" => last > proc[g].iter)
    BY <1>1, <1>2, <1>3, <1>4 DEF Procs
<1> HIDE DEF p
<1>6. UNCHANGED <<delivered, written, processors, stream, created, shard, page, loop>>
    BY DEF GetRecords
<1>7. proc' = [proc EXCEPT ![g] = p]
    BY <1>1 DEF p
<1>8. PageInv' /\ Sole' /\ processors' \subseteq Shards
    BY <1>2, <1>5, <1>6, <1>7 DEF Inv, Shape, PageInv, Sole
<1>9. /\ p.iter <= written[g[1]]
      /\ p.pc = "send" => p.iter < p.batch /\ p.batch <= written[g[1]]
    BY <1>2, <1>3, <1>5 DEF Inv, PositionInv, Reading
<1>10. /\ \A i \in DOMAIN delivered[g[1]] : delivered[g[1]][i] <= p.iter
       /\ \A r \in (p.first + 1)..p.iter :
            \E i \in DOMAIN delivered[g[1]] : delivered[g[1]][i] = r
    BY <1>2, <1>5 DEF Inv, PositionInv, Reading, NoGap
<1> QED
    BY <1>5, <1>6, <1>7, <1>8, <1>9, <1>10, OneMoves

\* A processor that ends, with an error or without, forgets its position.
LEMMA EndNext ==
    ASSUME Inv, NEW g \in Goroutines, Abort(g) \/ Done(g) \/ Delete(g) PROVE Inv'
<1> USE DEF tableVars, startVars, Set
<1>1. PICK p \in {[Idle EXCEPT !.pc = "done"], [Idle EXCEPT !.pc = "left"], Idle} :
        /\ proc' = [proc EXCEPT ![g] = p]
        /\ p.pc # "none" => proc[g].pc # "none" /\ processors' = processors
        /\ p.pc = "none" => proc[g].pc # "none" /\ processors' = processors \ {g[1]}
    BY IdleFacts DEF Abort, Done, Delete
<1>2. p \in Procs /\ p.pc \in {"none", "done", "left"}
    BY <1>1, IdleFacts
<1>3. UNCHANGED <<delivered, written, stream, created, shard, page, loop>>
    BY DEF Abort, Done, Delete
<1>4. PageInv' /\ processors' \subseteq Shards
    BY <1>1, <1>2, <1>3 DEF Inv, Shape, PageInv
<1>5. Sole'
  <2> SUFFICES ASSUME NEW h \in Goroutines, proc'[h].pc # "none"
               PROVE  h[2] = 1 /\ h[1] \in processors'
    BY DEF Sole
  <2>1. CASE h = g
    BY <1>1, <1>2, <2>1 DEF Inv, Shape, Sole
  <2>2. CASE h # g
    <3>1. proc'[h] = proc[h]
      BY <1>1, <2>2 DEF Inv, Shape
    <3>2. proc[g].pc # "none"
      BY <1>1, <1>2
    <3>3. h[1] # g[1]
      BY <2>2, <3>1, <3>2, OnePerShard DEF Inv
    <3> QED
      BY <1>1, <1>2, <3>1, <3>3 DEF Inv, Sole
  <2> QED
    BY <2>1, <2>2
<1> QED
    BY <1>1, <1>2, <1>3, <1>4, <1>5, OneMoves

\* The sink gets the record after the position of the only processor of the shard.
LEMMA SendNext == ASSUME Inv, NEW g \in Goroutines, sendDynamoDBEvent(g) PROVE Inv'
<1> USE DEF tableVars, startVars, Set
<1> DEFINE s == g[1]
           d == delivered[s]
           r == proc[g].iter + 1
           p == Advance(proc[g])
<1>1. /\ proc[g] \in Procs /\ proc[g].pc = "send" /\ s \in Shards
      /\ d \in Seq(Nat) /\ r \in Nat /\ proc[g].iter \in Nat /\ proc[g].first \in Nat
      /\ proc[g].batch \in Nat /\ written[s] \in Nat
    BY GoroutineFacts DEF sendDynamoDBEvent, Inv, Shape, Procs
<1>2. /\ proc[g].iter < proc[g].batch /\ proc[g].batch <= written[s]
      /\ \A i \in DOMAIN d : d[i] <= proc[g].iter
    BY <1>1 DEF Inv, PositionInv, Reading
<1>3. /\ p \in Procs /\ p.iter = r /\ p.first = proc[g].first /\ p.batch = proc[g].batch
      /\ p.pc # "none" /\ (p.pc = "send" => r < p.batch)
    BY <1>1 DEF Advance, Procs
<1>4. /\ proc' = [proc EXCEPT ![g] = p]
      /\ delivered' = [delivered EXCEPT ![s] = Append(d, r)]
      /\ UNCHANGED <<written, processors, stream, created, shard, page, loop>>
    BY DEF sendDynamoDBEvent
<1>5. proc'[g] = p /\ \A h \in Goroutines \ {g} : proc'[h] = proc[h]
    BY <1>4 DEF Inv, Shape
<1>6. delivered'[s] = Append(d, r) /\ \A t \in Shards \ {s} : delivered'[t] = delivered[t]
    BY <1>1, <1>4 DEF Inv, Shape
<1>7. /\ Append(d, r) \in Seq(Nat)
      /\ Len(d) \in Nat /\ DOMAIN d = 1..Len(d) /\ DOMAIN Append(d, r) = 1..(Len(d) + 1)
      /\ \A i \in 1..Len(d) : Append(d, r)[i] = d[i]
      /\ Append(d, r)[Len(d) + 1] = r
    BY <1>1, AppendFacts
<1>8. \A i \in DOMAIN d : d[i] \in Nat /\ d[i] < r
    BY <1>1, <1>2
<1> HIDE DEF s, d, r, p
<1>9. Shape' /\ PageInv' /\ Sole'
  <2>1. Shape'
    BY <1>1, <1>3, <1>4, <1>7 DEF Inv, Shape
  <2>2. PageInv'
    BY <1>4 DEF Inv, PageInv
  <2>3. Sole'
    BY <1>1, <1>4, <1>5 DEF Inv, Sole
  <2> QED
    BY <2>1, <2>2, <2>3
<1>10. \A i \in DOMAIN Append(d, r) : i \in DOMAIN d \/ i = Len(d) + 1
    BY <1>7
<1>11. \A i \in DOMAIN Append(d, r) : Append(d, r)[i] <= r
    BY <1>1, <1>7, <1>8, <1>10
<1>12. r <= written[s]
    BY <1>1, <1>2 DEF r
<1>13. InOrder'
  <2> SUFFICES ASSUME NEW t \in Shards,
                      NEW i \in DOMAIN delivered'[t], NEW j \in DOMAIN delivered'[t], i < j
               PROVE  delivered'[t][i] < delivered'[t][j]
    BY DEF InOrder
  <2>1. CASE t # s
    BY <1>6, <2>1 DEF Inv, InOrder
  <2>2. CASE t = s
    <3>1. i \in 1..(Len(d) + 1) /\ j \in 1..(Len(d) + 1)
      BY <1>6, <1>7, <2>2
    <3>2. i \in DOMAIN d /\ delivered'[t][i] = d[i]
      BY <1>6, <1>7, <2>2, <3>1
    <3>3. CASE j = Len(d) + 1
      BY <1>6, <1>7, <1>8, <2>2, <3>2, <3>3
    <3>4. CASE j \in DOMAIN d
      <4>1. delivered'[t][j] = d[j]
        BY <1>6, <1>7, <2>2, <3>4
      <4> QED
        BY <1>1, <3>2, <3>4, <4>1 DEF Inv, InOrder, d
    <3> QED
      BY <1>7, <3>1, <3>3, <3>4
  <2> QED
    BY <2>1, <2>2
<1>14. PositionInv'
  <2>1. ASSUME NEW t \in Shards, NEW i \in DOMAIN delivered'[t]
        PROVE  delivered'[t][i] <= written'[t]
    <3>1. CASE t # s
      BY <1>4, <1>6, <2>1, <3>1 DEF Inv, PositionInv
    <3>2. CASE t = s
      <4>1. i \in DOMAIN Append(d, r) /\ delivered'[t][i] = Append(d, r)[i]
        BY <1>6, <2>1, <3>2
      <4>2. delivered'[t][i] <= r /\ delivered'[t][i] \in Nat
        BY <1>7, <1>11, <4>1
      <4> QED
        BY <1>1, <1>4, <1>12, <3>2, <4>2
    <3> QED
      BY <3>1, <3>2
  <2>2. ASSUME NEW h \in Goroutines, proc'[h].pc \in {"poll", "send"}
        PROVE  /\ proc'[h].iter <= written'[h[1]]
               /\ proc'[h].pc = "send" =>
                    proc'[h].iter < proc'[h].batch /\ proc'[h].batch <= written'[h[1]]
               /\ \A i \in DOMAIN delivered'[h[1]] : delivered'[h[1]][i] <= proc'[h].iter
    <3>1. CASE h = g
      BY <1>2, <1>3, <1>4, <1>5, <1>6, <1>11, <1>12, <3>1 DEF s
    <3>2. CASE h # g
      <4>1. proc'[h] = proc[h] /\ h[1] \in Shards
        BY <1>5, <3>2, GoroutineFacts
      <4>2. h[1] # s
        BY <1>1, <2>2, <3>2, <4>1, OnePerShard DEF Inv, s
      <4> QED
        BY <1>4, <1>6, <2>2, <4>1, <4>2 DEF Inv, PositionInv, Reading
    <3> QED
      BY <3>1, <3>2
  <2> QED
    BY <2>1, <2>2 DEF PositionInv, Reading
<1>15. NoGap'
  <2> SUFFICES ASSUME NEW h \in Goroutines, proc'[h].pc \in {"poll", "send"},
                      NEW q \in (proc'[h].first + 1)..proc'[h].iter
               PROVE  \E i \in DOMAIN delivered'[h[1]] : delivered'[h[1]][i] = q
    BY DEF NoGap
  <2>1. CASE h = g
    <3>1. CASE q = r
      BY <1>6, <1>7, <2>1, <3>1 DEF s
    <3>2. CASE q # r
      <4>1. q \in (proc[g].first + 1)..proc[g].iter
        BY <1>1, <1>3, <1>5, <2>1, <3>2 DEF r
      <4>2. PICK i \in DOMAIN d : d[i] = q
        <5>1. NoGap /\ proc[g].pc \in {"poll", "send"}
          BY <1>1 DEF Inv
        <5> QED
          BY <4>1, <5>1, Zenon DEF NoGap, d, s
      <4>3. i \in DOMAIN Append(d, r) /\ Append(d, r)[i] = q
        BY <1>7, <4>2
      <4>4. delivered'[h[1]] = Append(d, r)
        BY <1>6, <2>1 DEF s
      <4> QED
        BY <4>3, <4>4, Zenon
    <3> QED
      BY <3>1, <3>2
  <2>2. CASE h # g
    <3>1. proc'[h] = proc[h] /\ h[1] \in Shards
      BY <1>5, <2>2, GoroutineFacts
    <3>2. h[1] # s
      BY <1>1, <2>2, <3>1, OnePerShard DEF Inv, s
    <3> QED
      BY <1>6, <3>1, <3>2 DEF Inv, NoGap
  <2> QED
    BY <2>1, <2>2
<1> QED
    BY <1>9, <1>13, <1>14, <1>15 DEF Inv

\* A process that is started again has no processors; the sink keeps what it has.
LEMMA RestartNext == ASSUME Inv, Restart PROVE Inv'
<1> USE DEF tableVars
<1>1. /\ UNCHANGED <<written, delivered, stream, created>>
      /\ proc' = [g \in Goroutines |-> Idle] /\ processors' = {}
      /\ loop' = "verify" /\ shard' = 0 /\ page' = 0
    BY DEF Restart
<1>2. \A g \in Goroutines : proc'[g].pc = "none"
    BY <1>1, IdleFacts
<1>3. Shape'
  <2>1. proc' \in [Goroutines -> Procs]
    BY <1>1, IdleFacts, Zenon
  <2> QED
    BY <1>1, <2>1 DEF Inv, Shape
<1>4. PageInv'
    BY <1>1, DynamoDBSourceAssumption DEF Inv, PageInv
<1>5. Sole' /\ NoGap'
    BY <1>2 DEF Sole, NoGap
<1>6. InOrder' /\ PositionInv'
    BY <1>1, <1>2 DEF Inv, InOrder, PositionInv, Reading
<1> QED
    BY <1>3, <1>4, <1>5, <1>6 DEF Inv

\* The invariant is inductive.
LEMMA InvNext == Inv /\ [Next]_vars => Inv'
<1> SUFFICES ASSUME Inv, [Next]_vars PROVE Inv'
    OBVIOUS
<1>1. CASE Next
    BY <1>1, TableNext, LoopNext, EnsureNext, IteratorNext, RecordsNext, SendNext, EndNext,
       RestartNext DEF Next, Start, Processor
<1>2. CASE UNCHANGED vars
  <2>1. UNCHANGED <<processors, proc, delivered, written>> /\ PageInv'
    BY <1>2 DEF vars, tableVars, startVars, procVars, Inv, PageInv
  <2>2. written' \in [Shards -> Nat] /\ \A s \in Shards : written[s] <= written'[s]
    BY <2>1 DEF Inv, Shape
  <2> QED
    BY <2>1, <2>2, Untouched
<1> QED
    BY <1>1, <1>2

\* The invariant holds throughout.
THEOREM Invariance == Spec => []Inv
<1> QED
    BY InitInv, InvNext, PTL DEF Spec

\* The sink gets the records of each shard in the shard's order, and none twice.
THEOREM RecordsInOrder == Spec => []InOrder
<1>1. Inv => InOrder
    BY DEF Inv
<1> QED
    BY <1>1, Invariance, PTL

\* No processor passes over a record.
THEOREM RecordsWithoutGap == Spec => []NoGap
<1>1. Inv => NoGap
    BY DEF Inv
<1> QED
    BY <1>1, Invariance, PTL

----------------------------------------------------------------------------
(* The map of processors. *)

\* A shard is in the map exactly while a goroutine reads it, and then it is the first
\* one: an error of a processor never leaves its shard marked as served, so that the
\* next listing starts another (LoadOrStore, Delete), and no shard has two.
OneProcessor ==
    \A s \in Shards :
        /\ s \in processors <=> proc[<<s, 1>>].pc # "none"
        /\ proc[<<s, 2>>].pc = "none"

\* A shard in the map has a goroutine: the half of OneProcessor that Sole does not say.
MapInv == \A s \in processors : proc[<<s, 1>>].pc # "none"

\* When one goroutine moves and remains what it is, running or not.
LEMMA RunsOn ==
    ASSUME Inv, MapInv, NEW g \in Goroutines, NEW p,
           proc' = [proc EXCEPT ![g] = p], p.pc # "none", proc[g].pc # "none",
           UNCHANGED processors
    PROVE  MapInv'
<1>1. \A h \in Goroutines : proc'[h] = IF h = g THEN p ELSE proc[h]
    BY DEF Inv, Shape
<1> QED
    BY <1>1, GoroutineFacts DEF MapInv, Inv, Shape

\* A goroutine that goes on has begun, and does not stop before Delete.
LEMMA ProcessorRunsOn ==
    ASSUME Inv, MapInv, NEW g \in Goroutines,
           GetShardIterator(g) \/ GetRecords(g) \/ sendDynamoDBEvent(g) \/ Abort(g)
           \/ Done(g)
    PROVE  MapInv'
<1> USE DEF Set
<1>1. proc[g] \in Procs
    BY DEF Inv, Shape
<1>2. /\ proc[g].pc # "none"
      /\ UNCHANGED processors
    BY DEF GetShardIterator, GetRecords, sendDynamoDBEvent, Abort, Done
<1>3. \E p : proc' = [proc EXCEPT ![g] = p] /\ p.pc # "none"
  <2>1. CASE GetShardIterator(g)
    <3>1. [Idle EXCEPT !.pc = "poll", !.first = written[g[1]], !.iter = written[g[1]]].pc = "poll"
      BY DEF Idle
    <3> QED
      BY <2>1, <3>1, Zenon DEF GetShardIterator
  <2>2. CASE GetRecords(g)
    <3> DEFINE next(last, nil) == [proc[g] EXCEPT !.batch = last, !.nil = nil,
                                       !.pc = IF last > proc[g].iter THEN "send"
                                              ELSE IF nil THEN "done" ELSE "poll"]
    <3>1. \A last : \A nil : next(last, nil).pc # "none"
      BY <1>1 DEF Procs
    <3>2. PICK last, nil : proc' = [proc EXCEPT ![g] = next(last, nil)]
      BY <2>2, Zenon DEF GetRecords
    <3>3. next(last, nil).pc # "none"
      BY <3>1
    <3> DEFINE p == next(last, nil)
    <3> HIDE DEF next
    <3> WITNESS p
    <3> QED
      BY <3>2, <3>3
  <2>3. CASE sendDynamoDBEvent(g)
    <3>1. Advance(proc[g]).pc # "none"
      BY <1>1 DEF Advance, Procs
    <3> QED
      BY <2>3, <3>1, Zenon DEF sendDynamoDBEvent
  <2>4. CASE Abort(g) \/ Done(g)
    BY <2>4, IdleFacts, Zenon DEF Abort, Done
  <2> QED
    BY <2>1, <2>2, <2>3, <2>4
<1> QED
    BY <1>2, <1>3, RunsOn

\* A goroutine that ends takes its shard out of the map, which no other goroutine has.
LEMMA DeleteMap == ASSUME Inv, MapInv, NEW g \in Goroutines, Delete(g) PROVE MapInv'
<1>1. proc' = [proc EXCEPT ![g] = Idle] /\ processors' = processors \ {g[1]}
    BY DEF Delete, Set
<1>2. \A h \in Goroutines : proc'[h] = IF h = g THEN Idle ELSE proc[h]
    BY <1>1 DEF Inv, Shape
<1> SUFFICES ASSUME NEW s \in processors, s # g[1] PROVE proc'[<<s, 1>>].pc # "none"
    BY <1>1 DEF MapInv
<1>3. s \in Shards /\ <<s, 1>> \in Goroutines /\ <<s, 1>> # g
    BY GoroutineFacts DEF Inv, Shape
<1> QED
    BY <1>2, <1>3 DEF MapInv

\* A shard is put in the map together with its goroutine.
LEMMA EnsureMap ==
    ASSUME Inv, MapInv, ensureRecordsProcessor
    PROVE  MapInv'
<1>1. shard \in Shards
    BY DynamoDBSourceAssumption DEF ensureRecordsProcessor, Inv, PageInv, Shards
<1>2. processors' = processors \cup {shard}
    BY DEF ensureRecordsProcessor
<1>3. MapInv'
  <2>1. CASE shard \in processors
    BY <1>2, <2>1 DEF ensureRecordsProcessor, LoadOrStore, MapInv
  <2>2. CASE shard \notin processors
    <3>1. <<shard, 1>> \in Goroutines /\ proc[<<shard, 1>>].pc = "none"
      BY <1>1, <2>2, GoroutineFacts DEF Inv, Sole
    <3>2. proc' = [proc EXCEPT ![<<shard, 1>>] = [Idle EXCEPT !.pc = "start"]]
      BY <2>2, <3>1 DEF ensureRecordsProcessor, LoadOrStore, FreeGoroutine
    <3>3. proc'[<<shard, 1>>].pc = "start"
      BY <3>1, <3>2, IdleFacts DEF Inv, Shape
    <3>4. \A s \in processors : proc'[<<s, 1>>] = proc[<<s, 1>>]
      <4>1. \A s \in processors : <<s, 1>> \in Goroutines /\ <<s, 1>> # <<shard, 1>>
        BY <2>2, GoroutineFacts DEF Inv, Shape
      <4> QED
        BY <3>2, <4>1 DEF Inv, Shape
    <3> QED
      BY <1>2, <3>3, <3>4 DEF MapInv
  <2> QED
    BY <2>1, <2>2
<1> QED
    BY <1>3

\* Start and the process: Start leaves its goroutines alone, and a new process has none.
LEMMA LoopMap ==
    ASSUME Inv, MapInv,
           Verify \/ Tick \/ DescribeStream \/ Break \/ ReturnStart \/ Cancel \/ Restart
    PROVE  MapInv'
<1>1. CASE Restart
  <2>1. processors' = {}
    BY <1>1 DEF Restart
  <2> QED
    BY <2>1 DEF MapInv
<1>2. CASE ~Restart
  <2>1. UNCHANGED <<processors, proc>>
    BY <1>2 DEF Verify, Tick, DescribeStream, Break, ReturnStart, Cancel, procVars
  <2> QED
    BY <2>1 DEF MapInv
<1> QED
    BY <1>1, <1>2

\* Every step keeps the map.
LEMMA MapNext == Inv /\ MapInv /\ [Next]_vars => MapInv'
<1> SUFFICES ASSUME Inv, MapInv, [Next]_vars PROVE MapInv'
    OBVIOUS
<1>1. CASE UNCHANGED <<processors, proc>>
    BY <1>1 DEF MapInv
<1>2. CASE Next
  <2>1. CASE (\E s \in Shards : Write(s) \/ Roll(s)) \/ Disable \/ Enable
    BY <1>1, <2>1 DEF Write, Roll, Disable, Enable, procVars
  <2>2. CASE \E g \in Goroutines : Processor(g)
    BY <2>2, ProcessorRunsOn, DeleteMap DEF Processor
  <2>3. CASE Start \/ Cancel \/ Restart
    BY <2>3, EnsureMap, LoopMap DEF Start
  <2> QED
    BY <1>2, <2>1, <2>2, <2>3 DEF Next
<1> QED
    BY <1>1, <1>2 DEF vars, procVars

\* The map and its goroutines agree from the start.
LEMMA MapInit == Init => MapInv
BY DEF Init, MapInv

\* The map of processors and the goroutines never disagree, and no shard has two.
THEOREM OneProcessorPerShard == Spec => []OneProcessor
<1>1. ASSUME Inv, MapInv PROVE OneProcessor
  <2> SUFFICES ASSUME NEW s \in Shards
               PROVE  /\ s \in processors <=> proc[<<s, 1>>].pc # "none"
                      /\ proc[<<s, 2>>].pc = "none"
    BY DEF OneProcessor
  <2>1. <<s, 1>> \in Goroutines /\ <<s, 2>> \in Goroutines
    BY DEF Goroutines
  <2>2. proc[<<s, 2>>].pc = "none" /\ (proc[<<s, 1>>].pc # "none" => s \in processors)
    BY <1>1, <2>1 DEF Inv, Sole
  <2> QED
    BY <1>1, <2>2 DEF MapInv
<1> QED
    BY <1>1, Invariance, MapInit, MapNext, PTL DEF Spec

----------------------------------------------------------------------------
(* Types. *)

\* The table's part of TypeOK, and the loop's.
TableType ==
    /\ enabled \in BOOLEAN /\ sealed \subseteq Shards /\ written \in [Shards -> Records]

LoopType ==
    /\ loop \in {"verify", "select", "describe", "ensure", "wait", "returned", "failed"}
    /\ streamARN \in Shards /\ shard \in 0..NumShards
    /\ more \in BOOLEAN /\ cancelled \in BOOLEAN

FaultType == faults \in 0..MaxFaults

\* The goroutines' part: positions lie within the records of a shard.
ProcType ==
    proc \in [Goroutines -> [pc : {"none", "start", "poll", "send", "done", "left"},
                             first : Records, iter : Records, batch : Records, nil : BOOLEAN]]

DeliveredType == delivered \in [Shards -> Seq(Records)]

TypeInv == TableType /\ LoopType /\ FaultType /\ ProcType /\ DeliveredType

\* The invariant has the rest of TypeOK.
LEMMA TypeParts == Inv /\ TypeInv => TypeOK
BY DEF Inv, Shape, PageInv, TypeInv, TableType, LoopType, FaultType, ProcType, DeliveredType, TypeOK

\* Everything is at its beginning.
LEMMA TypeInit == Init => TypeInv
<1> SUFFICES ASSUME Init PROVE TypeInv
    OBVIOUS
<1>0. 0 \in Records /\ 1 \in Shards /\ 0 \in 0..NumShards /\ 0 \in 0..MaxFaults
    BY DynamoDBSourceAssumption DEF Records, Shards
<1>1. TableType
    BY <1>0 DEF Init, TableType
<1>2. LoopType /\ FaultType
    BY <1>0 DEF Init, LoopType, FaultType
<1>3. ProcType
    BY <1>0 DEF Init, ProcType, Idle
<1>4. DeliveredType
  <2>1. << >> \in Seq(Records)
    OBVIOUS
  <2> QED
    BY <2>1, Zenon DEF Init, DeliveredType
<1> QED
    BY <1>1, <1>2, <1>3, <1>4 DEF TypeInv

\* Shards are written up to their bound.
LEMMA TableTypeNext ==
    ASSUME TypeInv, Inv, Next
    PROVE  TableType'
<1> USE DEF tableVars
<1>1. CASE \E s \in Shards : Write(s)
  <2>1. PICK s \in Shards : Write(s)
    BY <1>1
  <2>2. written[s] + 1 \in Records
    BY <2>1, DynamoDBSourceAssumption DEF Write, TypeInv, TableType, Records
  <2>3. written' \in [Shards -> Records]
    BY <2>1, <2>2 DEF Write, TypeInv, TableType
  <2> QED
    BY <2>1, <2>3 DEF Write, TypeInv, TableType
<1>2. CASE \E s \in Shards : Roll(s)
    BY <1>2 DEF Roll, TypeInv, TableType
<1>3. CASE Disable
  <2>1. stream..created \subseteq Shards
    BY DynamoDBSourceAssumption DEF Inv, PageInv, Shards
  <2> QED
    BY <1>3, <2>1 DEF Disable, TypeInv, TableType
<1>4. CASE Enable
    BY <1>4 DEF Enable, TypeInv, TableType
<1>5. CASE UNCHANGED tableVars
    BY <1>5 DEF TypeInv, TableType
<1>6. ASSUME Start \/ Cancel \/ Restart \/ \E g \in Goroutines : Processor(g)
      PROVE  UNCHANGED tableVars
    BY <1>6 DEF Start, Verify, Tick, DescribeStream, ensureRecordsProcessor, Break, ReturnStart,
       Cancel, Restart, Processor, GetShardIterator, GetRecords, sendDynamoDBEvent, Abort, Done, Delete
<1> QED
    BY <1>1, <1>2, <1>3, <1>4, <1>5, <1>6 DEF Next

\* Start is at a shard that has been made, of a stream that has been.
LEMMA LoopTypeNext ==
    ASSUME TypeInv, Inv, Next
    PROVE  LoopType'
<1> USE DEF startVars
<1>0. 1 \in Shards /\ 0 \in 0..NumShards
    BY DynamoDBSourceAssumption DEF Shards
<1>1. CASE Verify \/ Break \/ ReturnStart \/ Cancel
    BY <1>1 DEF Verify, Break, ReturnStart, Cancel, TypeInv, LoopType
<1>2. CASE Tick
    BY <1>2 DEF Tick, TypeInv, LoopType, Inv, PageInv
<1>3. CASE Restart
    BY <1>0, <1>3 DEF Restart, TypeInv, LoopType
<1>4. CASE DescribeStream
  <2>1. CASE Select
    BY <1>0, <1>4, <2>1 DEF DescribeStream, Select, TypeInv, LoopType
  <2>2. CASE /\ shard' = page + 1
             /\ \E last \in (page + 1)..created : page' = last /\ more' = (last < created)
             /\ loop' = "ensure" /\ UNCHANGED <<streamARN, faults>>
    <3>1. shard' \in 0..NumShards
      BY <2>2, DynamoDBSourceAssumption DEF Inv, PageInv, Shards
    <3>2. more' \in BOOLEAN
      <4>1. PICK last : more' = (last < created)
        BY <2>2
      <4>2. CASE last < created
        BY <4>1, <4>2
      <4>3. CASE ~(last < created)
        BY <4>1, <4>3
      <4> QED
        BY <4>2, <4>3
    <3> QED
      BY <1>4, <2>2, <3>1, <3>2 DEF DescribeStream, TypeInv, LoopType
  <2> QED
    BY <1>4, <2>1, <2>2 DEF DescribeStream
<1>5. CASE ensureRecordsProcessor
  <2>1. CASE Select
    BY <1>0, <1>5, <2>1 DEF ensureRecordsProcessor, Select, TypeInv, LoopType
  <2>2. CASE shard < page /\ shard' = shard + 1 /\ UNCHANGED <<loop, streamARN, page, more>>
    <3>1. shard' \in 0..NumShards
      BY <2>2, DynamoDBSourceAssumption DEF Inv, PageInv
    <3> QED
      BY <1>5, <2>2, <3>1 DEF ensureRecordsProcessor, TypeInv, LoopType
  <2>3. CASE loop' = "describe" /\ UNCHANGED <<streamARN, shard, page, more>>
    BY <1>5, <2>3 DEF ensureRecordsProcessor, TypeInv, LoopType
  <2> QED
    BY <1>5, <2>1, <2>2, <2>3 DEF ensureRecordsProcessor
<1>6. CASE UNCHANGED <<startVars, cancelled>>
    BY <1>6 DEF TypeInv, LoopType
<1>7. ASSUME \/ \E s \in Shards : Write(s) \/ Roll(s)
             \/ Disable \/ Enable \/ \E g \in Goroutines : Processor(g)
      PROVE  UNCHANGED <<startVars, cancelled>>
    BY <1>7 DEF Write, Roll, Disable, Enable, Processor, GetShardIterator, GetRecords,
       sendDynamoDBEvent, Abort, Done, Delete
<1> QED
    BY <1>1, <1>2, <1>3, <1>4, <1>5, <1>6, <1>7 DEF Next, Start

\* A fault is counted within its bound; the failing calls of a cancelled process are not.
LEMMA FaultTypeNext ==
    ASSUME TypeInv, Next
    PROVE  FaultType'
<1>1. UNCHANGED faults \/ (faults < MaxFaults /\ faults' = faults + 1)
  <2>1. Fault => UNCHANGED faults \/ (faults < MaxFaults /\ faults' = faults + 1)
    BY DEF Fault
  <2> QED
    BY <2>1 DEF Next, Start, Verify, Tick, DescribeStream, ensureRecordsProcessor, Break,
       ReturnStart, Cancel, Restart, Write, Roll, Disable, Enable, Processor, GetShardIterator,
       GetRecords, sendDynamoDBEvent, Abort, Done, Delete
<1> QED
    BY <1>1, DynamoDBSourceAssumption DEF TypeInv, FaultType

\* A processor reads and sends records that were written, so none beyond the bound.
LEMMA ProcTypeNext ==
    ASSUME TypeInv, Inv, Next
    PROVE  ProcType' /\ DeliveredType'
<1> DEFINE Bounded == [pc : {"none", "start", "poll", "send", "done", "left"},
                       first : Records, iter : Records, batch : Records, nil : BOOLEAN]
<1>0. /\ Idle \in Bounded /\ \A p \in {"start", "done", "left"} : [Idle EXCEPT !.pc = p] \in Bounded
      /\ \A n \in Records :
            [Idle EXCEPT !.pc = "poll", !.first = n, !.iter = n] \in Bounded
  <2>1. 0 \in Records
    BY DynamoDBSourceAssumption DEF Records
  <2>2. Idle \in Bounded
    BY <2>1 DEF Idle
  <2> HIDE DEF Bounded
  <2>3. \A p \in {"start", "done", "left"} : [Idle EXCEPT !.pc = p] \in Bounded
    BY <2>2 DEF Bounded
  <2>4. \A n \in Records : [Idle EXCEPT !.pc = "poll", !.first = n, !.iter = n] \in Bounded
    BY <2>2 DEF Bounded
  <2> QED
    BY <2>2, <2>3, <2>4
<1>1. proc \in [Goroutines -> Bounded] /\ delivered \in [Shards -> Seq(Records)]
      /\ written \in [Shards -> Records]
    BY DEF TypeInv, ProcType, DeliveredType, TableType
<1>2. ASSUME NEW g \in Goroutines, NEW p \in Bounded, proc' = [proc EXCEPT ![g] = p]
      PROVE  ProcType'
    BY <1>1, <1>2 DEF ProcType
<1>3. CASE UNCHANGED <<proc, delivered>>
    BY <1>3 DEF TypeInv, ProcType, DeliveredType
<1>4. CASE Restart
    BY <1>0, <1>4 DEF Restart, TypeInv, ProcType, DeliveredType
<1>5. CASE ensureRecordsProcessor
  <2>1. shard \in Shards
    BY <1>5, DynamoDBSourceAssumption DEF ensureRecordsProcessor, Inv, PageInv, Shards
  <2>2. FreeGoroutine(shard) \in Goroutines
    BY <2>1, GoroutineFacts DEF FreeGoroutine
  <2>3. delivered' = delivered
    BY <1>5 DEF ensureRecordsProcessor
  <2>4. proc' = proc \/ proc' = [proc EXCEPT ![FreeGoroutine(shard)] = [Idle EXCEPT !.pc = "start"]]
    BY <1>5 DEF ensureRecordsProcessor
  <2>5. [Idle EXCEPT !.pc = "start"] \in Bounded
    BY <1>0
  <2>6. ProcType'
    <3>1. CASE proc' = proc
      BY <3>1 DEF TypeInv, ProcType
    <3>2. CASE proc' # proc
      <4> HIDE DEF Bounded
      <4> QED
        BY <1>2, <2>2, <2>4, <2>5, <3>2
    <3> QED
      BY <3>1, <3>2
  <2> QED
    BY <1>1, <2>3, <2>6 DEF DeliveredType
<1>6. ASSUME NEW g \in Goroutines, GetShardIterator(g) \/ Abort(g) \/ Done(g) \/ Delete(g)
      PROVE  ProcType' /\ DeliveredType'
  <2>1. written[g[1]] \in Records
    BY <1>1, GoroutineFacts
  <2>2. delivered' = delivered
    BY <1>6 DEF GetShardIterator, Abort, Done, Delete
  <2>3. \E p \in Bounded : proc' = [proc EXCEPT ![g] = p]
    BY <1>0, <1>6, <2>1 DEF GetShardIterator, Abort, Done, Delete, Set
  <2> QED
    BY <1>1, <1>2, <2>2, <2>3 DEF DeliveredType
<1>7. ASSUME NEW g \in Goroutines, GetRecords(g) PROVE ProcType' /\ DeliveredType'
  <2>1. /\ proc[g] \in Bounded /\ written[g[1]] \in Records
    BY <1>1, GoroutineFacts
  <2>2. PICK last \in proc[g].iter..written[g[1]] : \E b \in BOOLEAN :
            proc' = [proc EXCEPT ![g] = [proc[g] EXCEPT !.batch = last, !.nil = b,
                                            !.pc = IF last > proc[g].iter THEN "send"
                                                   ELSE IF b THEN "done" ELSE "poll"]]
    <3>1. \A last : (g[1] \in sealed /\ last = written[g[1]]) \in BOOLEAN
      BY Zenon
    <3> QED
      BY <1>7, <3>1, Zenon DEF GetRecords, Set
  <2>3. last \in Records
    BY <2>1, <2>2, DynamoDBSourceAssumption DEF Records
  <2>4. PICK b \in BOOLEAN :
            proc' = [proc EXCEPT ![g] = [proc[g] EXCEPT !.batch = last, !.nil = b,
                                            !.pc = IF last > proc[g].iter THEN "send"
                                                   ELSE IF b THEN "done" ELSE "poll"]]
    BY <2>2
  <2>5. [proc[g] EXCEPT !.batch = last, !.nil = b,
                        !.pc = IF last > proc[g].iter THEN "send"
                               ELSE IF b THEN "done" ELSE "poll"] \in Bounded
    BY <2>1, <2>3
  <2>6. delivered' = delivered
    BY <1>7 DEF GetRecords
  <2> HIDE DEF Bounded
  <2> QED
    BY <1>1, <1>2, <2>4, <2>5, <2>6 DEF DeliveredType
<1>8. ASSUME NEW g \in Goroutines, sendDynamoDBEvent(g) PROVE ProcType' /\ DeliveredType'
  <2> DEFINE s == g[1]
             r == proc[g].iter + 1
  <2>1. /\ proc[g] \in Bounded /\ proc[g].pc = "send" /\ s \in Shards
        /\ written[s] \in Records
    BY <1>1, <1>8, GoroutineFacts DEF sendDynamoDBEvent
  <2>2. proc[g].iter < proc[g].batch /\ proc[g].batch <= written[s]
    BY <2>1 DEF Inv, PositionInv, Reading
  <2>3. r \in Records
    BY <2>1, <2>2, DynamoDBSourceAssumption DEF Records
  <2>4. Advance(proc[g]) \in Bounded
    BY <2>1, <2>3 DEF Advance
  <2>5. proc' = [proc EXCEPT ![g] = Advance(proc[g])]
        /\ delivered' = [delivered EXCEPT ![s] = Append(delivered[s], r)]
    BY <1>8 DEF sendDynamoDBEvent, Set
  <2>6. Append(delivered[s], r) \in Seq(Records)
    BY <1>1, <2>1, <2>3
  <2> HIDE DEF Bounded, s, r
  <2> QED
    BY <1>1, <1>2, <2>4, <2>5, <2>6 DEF DeliveredType
<1>9. ASSUME \/ \E s \in Shards : Write(s) \/ Roll(s)
             \/ Disable \/ Enable \/ Cancel
             \/ Verify \/ Tick \/ DescribeStream \/ Break \/ ReturnStart
      PROVE  UNCHANGED <<proc, delivered>>
    BY <1>9 DEF Write, Roll, Disable, Enable, Cancel, Verify, Tick, DescribeStream, Break,
       ReturnStart, procVars
<1> QED
    BY <1>3, <1>4, <1>5, <1>6, <1>7, <1>8, <1>9 DEF Next, Start, Processor

\* Every step keeps the types.
LEMMA TypeNext == Inv /\ TypeInv /\ [Next]_vars => TypeInv'
<1>1. ASSUME Inv, TypeInv, Next PROVE TypeInv'
    BY <1>1, TableTypeNext, LoopTypeNext, FaultTypeNext, ProcTypeNext DEF TypeInv
<1>2. ASSUME TypeInv, UNCHANGED vars PROVE TypeInv'
    BY <1>2 DEF vars, tableVars, startVars, procVars, TypeInv, TableType, LoopType, FaultType,
       ProcType, DeliveredType
<1> QED
    BY <1>1, <1>2

\* The state has its types: Start is never at a shard that DynamoDB has not made, no
\* goroutine beyond a record that was written, and the sink has records of the shard only.
THEOREM TypeCorrect == Spec => []TypeOK
<1> QED
    BY Invariance, TypeInit, TypeNext, TypeParts, PTL DEF Spec

----------------------------------------------------------------------------
(* The end of a cancelled process. *)

\* A bound on the steps that a processor has left once its calls fail: the rest of
\* its batch, which a willing sink still takes, the call that fails and the two
\* deferred calls.
Rest(p) ==
    CASE p.pc = "send" -> 3 + p.batch - p.iter
      [] p.pc \in {"start", "poll"} -> 3
      [] p.pc = "done" -> 2
      [] p.pc = "left" -> 1
      [] OTHER -> 0

\* The same for Start: the rest of its page, the next page, which fails, and the end
\* of the loop.
LoopRest ==
    CASE loop = "ensure" -> 4 + page - shard
      [] loop = "describe" -> 3
      [] loop = "select" -> 2
      [] loop \in {"verify", "wait"} -> 1
      [] OTHER -> 0

\* Once the context is cancelled, every step of Start and of a processor brings it
\* nearer to its end.  The table may go on and the sink answer as it likes: only the
\* page that Start was at when it was cancelled can still start processors.
WindsDown ==
    [][cancelled =>
          /\ LoopRest \in Nat /\ LoopRest' <= LoopRest
          /\ Start => LoopRest' < LoopRest
          /\ \A g \in Goroutines :
                /\ Rest(proc[g]) \in Nat
                /\ Processor(g) => Rest(proc'[g]) < Rest(proc[g])
                /\ loop = "ensure" \/ Rest(proc'[g]) <= Rest(proc[g])]_vars

\* The bounds are numbers.
LEMMA RestTypes ==
    ASSUME Inv
    PROVE  LoopRest \in Nat /\ \A g \in Goroutines : Rest(proc[g]) \in Nat
<1>1. LoopRest \in Nat
    BY DynamoDBSourceAssumption DEF LoopRest, Inv, PageInv
<1>2. ASSUME NEW g \in Goroutines PROVE Rest(proc[g]) \in Nat
  <2>1. proc[g] \in Procs /\ (proc[g].pc = "send" => proc[g].iter < proc[g].batch)
    BY DEF Inv, Shape, PositionInv, Reading
  <2> QED
    BY <2>1 DEF Rest, Procs
<1> QED
    BY <1>1, <1>2

\* A processor sends a record of its batch, fails, or makes a deferred call.
LEMMA ProcessorWinds ==
    ASSUME Inv, cancelled, NEW g \in Goroutines, Processor(g)
    PROVE  /\ Rest(proc'[g]) \in Nat /\ Rest(proc'[g]) < Rest(proc[g])
           /\ \A h \in Goroutines \ {g} : proc'[h] = proc[h]
           /\ UNCHANGED startVars
<1> USE DEF Set
<1>1. /\ proc \in [Goroutines -> Procs] /\ proc[g] \in Procs
      /\ proc[g].pc = "send" => proc[g].iter < proc[g].batch
    BY DEF Inv, Shape, PositionInv, Reading
<1>2. ~GetShardIterator(g) /\ ~GetRecords(g)
    BY DEF GetShardIterator, GetRecords
<1>3. ASSUME NEW p, proc' = [proc EXCEPT ![g] = p],
             Rest(p) \in Nat, Rest(p) < Rest(proc[g]), UNCHANGED startVars
      PROVE  /\ Rest(proc'[g]) \in Nat /\ Rest(proc'[g]) < Rest(proc[g])
             /\ \A h \in Goroutines \ {g} : proc'[h] = proc[h]
             /\ UNCHANGED startVars
    BY <1>1, <1>3
<1>4. CASE sendDynamoDBEvent(g)
  <2>1. proc' = [proc EXCEPT ![g] = Advance(proc[g])] /\ UNCHANGED startVars
        /\ proc[g].pc = "send"
    BY <1>4 DEF sendDynamoDBEvent
  <2>2. Rest(Advance(proc[g])) \in Nat /\ Rest(Advance(proc[g])) < Rest(proc[g])
    BY <1>1, <2>1 DEF Advance, Rest, Procs
  <2> QED
    BY <1>3, <2>1, <2>2
<1>5. CASE Abort(g)
  <2>1. proc' = [proc EXCEPT ![g] = [Idle EXCEPT !.pc = "done"]] /\ UNCHANGED startVars
        /\ proc[g].pc \in {"start", "poll", "send"}
    BY <1>5 DEF Abort
  <2>2. Rest([Idle EXCEPT !.pc = "done"]) \in Nat /\ Rest([Idle EXCEPT !.pc = "done"]) < Rest(proc[g])
    BY <1>1, <2>1 DEF Idle, Rest, Procs
  <2> QED
    BY <1>3, <2>1, <2>2
<1>6. CASE Done(g)
  <2>1. proc' = [proc EXCEPT ![g] = [Idle EXCEPT !.pc = "left"]] /\ UNCHANGED startVars
        /\ proc[g].pc = "done"
    BY <1>6 DEF Done
  <2>2. Rest([Idle EXCEPT !.pc = "left"]) \in Nat /\ Rest([Idle EXCEPT !.pc = "left"]) < Rest(proc[g])
    BY <2>1 DEF Idle, Rest
  <2> QED
    BY <1>3, <2>1, <2>2
<1>7. CASE Delete(g)
  <2>1. proc' = [proc EXCEPT ![g] = Idle] /\ UNCHANGED startVars /\ proc[g].pc = "left"
    BY <1>7 DEF Delete
  <2>2. Rest(Idle) \in Nat /\ Rest(Idle) < Rest(proc[g])
    BY <2>1 DEF Idle, Rest
  <2> QED
    BY <1>3, <2>1, <2>2
<1> QED
    BY <1>2, <1>4, <1>5, <1>6, <1>7 DEF Processor

\* Start finishes its page, fails, or leaves the loop; only in a page does it touch
\* the processors.
LEMMA StartWinds ==
    ASSUME Inv, cancelled, Start
    PROVE  LoopRest' < LoopRest /\ (loop = "ensure" \/ proc' = proc)
<1>1. loop = "ensure" => page \in Nat /\ shard \in 1..page
    BY DynamoDBSourceAssumption DEF Inv, PageInv
<1>2. CASE Verify \/ Tick \/ DescribeStream
  <2>1. /\ loop = "verify" \/ loop = "select" \/ loop = "describe"
        /\ loop' = "failed" \/ (loop = "describe" /\ loop' = "select")
        /\ proc' = proc
    BY <1>2 DEF Verify, Tick, DescribeStream, Select, procVars
  <2>2. LoopRest \in {1, 2, 3} /\ (loop = "describe" => LoopRest = 3)
    BY <2>1 DEF LoopRest
  <2>3. LoopRest' = 0 \/ (loop = "describe" /\ LoopRest' = 2)
    BY <2>1 DEF LoopRest
  <2> QED
    BY <2>1, <2>2, <2>3
<1>3. CASE ensureRecordsProcessor
  <2>1. loop = "ensure"
    BY <1>3 DEF ensureRecordsProcessor
  <2>2. LoopRest = 4 + page - shard
    BY <2>1 DEF LoopRest
  <2>3. LoopRest' < LoopRest
    <3>1. CASE shard < page /\ shard' = shard + 1 /\ UNCHANGED <<loop, streamARN, page, more>>
      BY <1>1, <2>1, <2>2, <3>1 DEF LoopRest
    <3>2. CASE loop' \in {"describe", "select"}
      BY <1>1, <2>1, <2>2, <3>2 DEF LoopRest
    <3> QED
      BY <1>3, <3>1, <3>2 DEF ensureRecordsProcessor, Select
  <2> QED
    BY <2>1, <2>3
<1>4. CASE Break \/ ReturnStart
  <2>1. /\ proc' = proc
        /\ \/ loop = "select" /\ loop' = "wait"
           \/ loop = "wait" /\ loop' = "returned"
    BY <1>4 DEF Break, ReturnStart, procVars
  <2>2. CASE loop = "select" /\ loop' = "wait"
    BY <2>1, <2>2 DEF LoopRest
  <2>3. CASE loop = "wait" /\ loop' = "returned"
    BY <2>1, <2>3 DEF LoopRest
  <2> QED
    BY <2>1, <2>2, <2>3
<1> QED
    BY <1>2, <1>3, <1>4 DEF Start

\* A cancelled process winds down.
THEOREM ShutdownTerminates == Spec => WindsDown
<1> DEFINE A == cancelled =>
                  /\ LoopRest \in Nat /\ LoopRest' <= LoopRest
                  /\ Start => LoopRest' < LoopRest
                  /\ \A g \in Goroutines :
                        /\ Rest(proc[g]) \in Nat
                        /\ Processor(g) => Rest(proc'[g]) < Rest(proc[g])
                        /\ loop = "ensure" \/ Rest(proc'[g]) <= Rest(proc[g])
<1>1. ASSUME Inv, Next PROVE A
  <2> SUFFICES ASSUME cancelled
               PROVE  /\ LoopRest' <= LoopRest
                      /\ Start => LoopRest' < LoopRest
                      /\ \A g \in Goroutines :
                            /\ Processor(g) => Rest(proc'[g]) < Rest(proc[g])
                            /\ loop = "ensure" \/ Rest(proc'[g]) <= Rest(proc[g])
    BY <1>1, RestTypes
  <2>1. LoopRest \in Nat /\ \A g \in Goroutines : Rest(proc[g]) \in Nat
    BY <1>1, RestTypes
  <2>2. Start => LoopRest' < LoopRest /\ (loop = "ensure" \/ proc' = proc)
    BY <1>1, StartWinds
  <2>3. \A g \in Goroutines : Processor(g) =>
            /\ Rest(proc'[g]) \in Nat /\ Rest(proc'[g]) < Rest(proc[g])
            /\ \A h \in Goroutines \ {g} : proc'[h] = proc[h]
            /\ UNCHANGED startVars
    BY <1>1, ProcessorWinds
  <2>4. UNCHANGED startVars => LoopRest' = LoopRest
    BY DEF startVars, LoopRest
  <2>5. CASE Start
    <3>1. Inv'
      BY <1>1, InvNext
    <3>2. LoopRest' \in Nat
      BY <3>1, DynamoDBSourceAssumption DEF LoopRest, Inv, PageInv
    <3>3. \A g \in Goroutines : loop = "ensure" \/ Rest(proc'[g]) <= Rest(proc[g])
      BY <2>1, <2>2, <2>5
    <3> QED
      BY <2>1, <2>2, <2>3, <2>5, <3>2, <3>3
  <2>6. CASE \E g \in Goroutines : Processor(g)
    <3>1. PICK g \in Goroutines : Processor(g)
      BY <2>6
    <3>2. LoopRest' = LoopRest
      BY <2>3, <2>4, <3>1
    <3>3. ASSUME NEW h \in Goroutines PROVE Rest(proc'[h]) <= Rest(proc[h])
      <4>1. CASE h = g
        BY <2>1, <2>3, <3>1, <4>1
      <4>2. CASE h # g
        <5>1. proc'[h] = proc[h]
          BY <2>3, <3>1, <4>2
        <5> QED
          BY <2>1, <5>1
      <4> QED
        BY <4>1, <4>2
    <3> QED
      BY <2>1, <2>2, <2>3, <3>2, <3>3
  <2>7. CASE (\E s \in Shards : Write(s) \/ Roll(s)) \/ Disable \/ Enable
    <3>1. UNCHANGED startVars /\ proc' = proc
      BY <2>7 DEF Write, Roll, Disable, Enable, procVars
    <3> QED
      BY <2>1, <2>2, <2>3, <2>4, <3>1
  <2> QED
    BY <1>1, <2>5, <2>6, <2>7 DEF Next, Cancel, Restart
<1>2. Inv /\ [Next]_vars => [A]_vars
    BY <1>1
<1> HIDE DEF A
<1>3. Spec => [][A]_vars
    BY <1>2, Invariance, PTL DEF Spec
<1> QED
    BY <1>3 DEF WindsDown, A

=============================================================================
