------------------------ MODULE TransformationProofs ------------------------
(***************************************************************************)
(* The transformation adapter for any number of handlers, any events and   *)
(* any configuration: the storage is flushed, the variables keep their     *)
(* types, requests do not disturb each other, and each comes to an end     *)
(* with one answer.                                                        *)
(***************************************************************************)
EXTENDS Transformation, FiniteSetTheorems, TLAPS

----------------------------------------------------------------------------
(* Recursive functions. *)

\* Induction over the numbers, from the well-foundedness of inclusion on finite sets.
LEMMA Induction ==
    ASSUME NEW T, 0 \in T, \A n \in Nat : n \in T => n + 1 \in T
    PROVE  \A m \in Nat : m \in T
<1> SUFFICES ASSUME NEW m \in Nat, m \notin T PROVE FALSE
    OBVIOUS
<1> DEFINE Rel == StrictSubsetOrdering(0..m)
           W   == {0..k : k \in {k \in 0..m : k \notin T}}
<1>1. IsWellFoundedOn(Rel, FiniteSubsetsOf(0..m))
    BY FS_Interval, FS_StrictSubsetOrderingWellFounded
<1>2. W \subseteq FiniteSubsetsOf(0..m) /\ W # {}
  <2>1. \A k \in 0..m : 0..k \subseteq 0..m /\ IsFiniteSet(0..k)
    BY FS_Interval
  <2> QED
    BY <2>1 DEF FiniteSubsetsOf
<1>3. PICK x \in W : \A y \in W : ~(<<y, x>> \in Rel)
  <2> HIDE DEF Rel, W
  <2> QED
    BY <1>1, <1>2, WFMin
<1>4. PICK k \in 0..m : k \notin T /\ x = 0..k
    OBVIOUS
<1>5. k # 0 /\ k - 1 \in 0..m
    BY <1>4
<1>6. k - 1 \notin T
  <2>1. (k - 1) + 1 = k /\ k - 1 \in Nat
    BY <1>5
  <2> QED
    BY <1>4, <2>1
<1>7. 0..(k - 1) \in W
    BY <1>5, <1>6
<1>8. 0..(k - 1) \subseteq 0..k /\ k \in 0..k /\ k \notin 0..(k - 1) /\ 0..k \subseteq 0..m
    BY <1>5
<1>9. <<0..(k - 1), x>> \in Rel
    BY <1>4, <1>8 DEF StrictSubsetOrdering
<1> QED
    BY <1>3, <1>7, <1>9

\* What apply chooses among the first i transformers.
Chosen(c, part, init, i, before) ==
    IF InitStep(c[part][i]) = init THEN Append(before, <<part, i>>) ELSE before

\* apply runs transformers of its own pipeline.
LEMMA ApplyFacts ==
    ASSUME NEW c, NEW part, NEW init, Len(c[part]) \in Nat, DOMAIN c[part] = 1..Len(c[part])
    PROVE  apply(c, part, init) \in Seq({part} \X DOMAIN c[part])
<1> DEFINE N == Len(c[part])
           S == {part} \X DOMAIN c[part]
           upTo(g, m) == g = [i \in 0..m |-> IF i = 0 THEN <<>>
                                             ELSE Chosen(c, part, init, i, g[i - 1])]
           T == {m \in Nat : m <= N => \E g : upTo(g, m)}
<1>1. 0 \in T
  <2>1. upTo([i \in 0..0 |-> <<>>], 0)
    OBVIOUS
  <2> QED
    BY <2>1
<1>2. ASSUME NEW n \in Nat, n \in T PROVE n + 1 \in T
  <2> SUFFICES ASSUME n + 1 <= N PROVE \E g : upTo(g, n + 1)
    OBVIOUS
  <2>1. PICK g : upTo(g, n)
    BY <1>2
  <2> DEFINE k == [i \in 0..(n + 1) |-> IF i <= n THEN g[i] ELSE Chosen(c, part, init, n + 1, g[n])]
  <2>2. \A i \in 0..(n + 1) : i # 0 => k[i - 1] = g[i - 1]
    BY <2>1
  <2>3. \A i \in 0..(n + 1) :
           k[i] = IF i = 0 THEN <<>> ELSE Chosen(c, part, init, i, k[i - 1])
    <3> SUFFICES ASSUME NEW i \in 0..(n + 1)
                 PROVE k[i] = IF i = 0 THEN <<>> ELSE Chosen(c, part, init, i, k[i - 1])
      OBVIOUS
    <3>1. CASE i <= n
      BY <2>1, <2>2, <3>1
    <3>2. CASE i = n + 1
      BY <2>2, <3>2
    <3> QED
      BY <3>1, <3>2
  <2>4. upTo(k, n + 1)
    <3>1. DOMAIN k = 0..(n + 1) /\ k = [i \in 0..(n + 1) |-> k[i]]
      OBVIOUS
    <3> HIDE DEF k
    <3> QED
      BY <2>3, <3>1
  <2> QED
    BY <2>4
<1>3. \A m \in Nat : m \in T
  <2> HIDE DEF T
  <2> QED
    BY <1>1, <1>2, Induction
<1>4. \E g : g = [i \in 0..N |-> IF i = 0 THEN <<>> ELSE IF InitStep(c[part][i]) = init
                                   THEN Append(g[i - 1], <<part, i>>) ELSE g[i - 1]]
  <2>1. N \in T
    BY <1>3
  <2> QED
    BY <2>1 DEF Chosen
<1>5. PICK g : upTo(g, N) /\ apply(c, part, init) = g[N]
  <2> HIDE DEF T
  <2> QED
  BY <1>4 DEF apply, Chosen
<1> DEFINE U == {m \in Nat : m <= N => g[m] \in Seq(S)}
<1>6. 0 \in U
  BY <1>5
<1>7. ASSUME NEW n \in Nat, n \in U PROVE n + 1 \in U
  <2> SUFFICES ASSUME n + 1 <= N PROVE g[n + 1] \in Seq(S)
    OBVIOUS
  <2>1. g[n] \in Seq(S)
    BY <1>7
  <2>2. g[n + 1] = Chosen(c, part, init, n + 1, g[n])
    BY <1>5
  <2>3. <<part, n + 1>> \in S
    OBVIOUS
  <2> HIDE DEF S
  <2> QED
    BY <2>1, <2>2, <2>3 DEF Chosen
<1>8. N \in U
  <2> HIDE DEF U
  <2> QED
    BY <1>6, <1>7, Induction
<1>9. g[N] \in Seq(S)
  BY <1>8
<1> HIDE DEF upTo
<1> QED
  BY <1>5, <1>9

\* What the positions of a program are: the decoding of the context, or a transformer.
Steps(c) == {<<"decode", 0>>} \cup UNION {{p} \X DOMAIN c[p] : p \in Parts}

LEMMA ProgramFacts ==
    ASSUME NEW c \in Pipelines
    PROVE  applyTransformations[c] \in Seq(Steps(c))
<1>1. \A p \in Parts : Len(c[p]) \in Nat /\ DOMAIN c[p] = 1..Len(c[p])
  <2>1. \A S : \A s \in Seq(S) : Len(s) \in Nat /\ DOMAIN s = 1..Len(s)
    OBVIOUS
  <2>2. \A p \in Parts : c[p] \in Seq({c[p][i] : i \in DOMAIN c[p]})
    BY ConfigurationAssumption
  <2> QED
    BY <2>1, <2>2
<1>2. \A p \in Parts : {p} \X DOMAIN c[p] \subseteq Steps(c)
    BY DEF Steps
<1>3. \A p \in Parts : apply(c, p, TRUE) \in Seq(Steps(c)) /\ apply(c, p, FALSE) \in Seq(Steps(c))
  <2> SUFFICES ASSUME NEW p \in Parts
               PROVE  apply(c, p, TRUE) \in Seq(Steps(c)) /\ apply(c, p, FALSE) \in Seq(Steps(c))
    OBVIOUS
  <2>1. \A s \in Seq({p} \X DOMAIN c[p]) : s \in Seq(Steps(c))
    <3> HIDE DEF Steps
    <3> QED
    BY <1>2
  <2>2. apply(c, p, TRUE) \in Seq({p} \X DOMAIN c[p])
    BY <1>1, ApplyFacts
  <2>3. apply(c, p, FALSE) \in Seq({p} \X DOMAIN c[p])
    BY <1>1, ApplyFacts
  <2> QED
    BY <2>1, <2>2, <2>3
<1>4. <<<<"decode", 0>>>> \in Seq(Steps(c))
    BY DEF Steps
<1>5. applyTransformations[c] =
        apply(c, "context", TRUE) \o apply(c, "data", TRUE) \o apply(c, "context", FALSE)
        \o <<<<"decode", 0>>>> \o apply(c, "data", FALSE)
    BY DEF applyTransformations
<1>6. "context" \in Parts /\ "data" \in Parts
    BY DEF Parts
<1>7. ASSUME NEW S, NEW s1 \in Seq(S), NEW s2 \in Seq(S), NEW s3 \in Seq(S), NEW s4 \in Seq(S),
             NEW s5 \in Seq(S)
      PROVE  s1 \o s2 \o s3 \o s4 \o s5 \in Seq(S)
  <2>1. s1 \o s2 \in Seq(S)
    OBVIOUS
  <2>2. s1 \o s2 \o s3 \in Seq(S)
    BY <2>1
  <2>3. s1 \o s2 \o s3 \o s4 \in Seq(S)
    BY <2>2
  <2> QED
    BY <2>3
<1>8. apply(c, "context", TRUE) \in Seq(Steps(c)) /\ apply(c, "data", TRUE) \in Seq(Steps(c))
      /\ apply(c, "context", FALSE) \in Seq(Steps(c)) /\ apply(c, "data", FALSE) \in Seq(Steps(c))
    BY <1>3, <1>6
<1>9. apply(c, "context", TRUE) \o apply(c, "data", TRUE) \o apply(c, "context", FALSE)
        \o <<<<"decode", 0>>>> \o apply(c, "data", FALSE) \in Seq(Steps(c))
    BY <1>4, <1>7, <1>8, Zenon
<1> QED
    BY <1>5, <1>9, Zenon

\* The recursion that defines AloneAfter has a solution, so AloneAfter is one.
LEMMA AloneFacts ==
    ASSUME NEW c, NEW e, Len(applyTransformations[c]) \in Nat
    PROVE  /\ AloneAfter(c, e)[0] = [doc |-> [context |-> e.context, data |-> e.data],
                                    variables |-> [v \in Variables |-> Unset],
                                    result |-> "none"]
           /\ \A k \in 1..Len(applyTransformations[c]) :
                 AloneAfter(c, e)[k] =
                     Transform(c, AloneAfter(c, e)[k - 1], applyTransformations[c][k])
<1> DEFINE P == applyTransformations[c]
           N == Len(P)
           start == [doc |-> [context |-> e.context, data |-> e.data],
                     variables |-> [v \in Variables |-> Unset],
                     result |-> "none"]
           after(g, m) == g = [k \in 0..m |-> IF k = 0 THEN start ELSE Transform(c, g[k - 1], P[k])]
           T == {m \in Nat : m <= N => \E g : after(g, m)}
<1>0. AloneAfter(c, e) = CHOOSE g : after(g, N)
    BY DEF AloneAfter
<1> HIDE DEF start, P
<1>1. 0 \in T
  <2>1. after([k \in 0..0 |-> start], 0)
    OBVIOUS
  <2> QED
    BY <2>1
<1>2. ASSUME NEW n \in Nat, n \in T PROVE n + 1 \in T
  <2> SUFFICES ASSUME n + 1 <= N PROVE \E g : after(g, n + 1)
    OBVIOUS
  <2>1. PICK g : after(g, n)
    BY <1>2
  <2> DEFINE f == [i \in 0..(n + 1) |-> IF i <= n THEN g[i] ELSE Transform(c, g[n], P[n + 1])]
  <2>2. \A i \in 0..(n + 1) : i # 0 => f[i - 1] = g[i - 1]
    BY <2>1
  <2>3. \A i \in 0..(n + 1) :
           f[i] = IF i = 0 THEN start ELSE Transform(c, f[i - 1], P[i])
    <3> SUFFICES ASSUME NEW i \in 0..(n + 1)
                 PROVE f[i] = IF i = 0 THEN start ELSE Transform(c, f[i - 1], P[i])
      OBVIOUS
    <3>1. CASE i <= n
      BY <2>1, <2>2, <3>1
    <3>2. CASE i = n + 1
      BY <2>2, <3>2
    <3> QED
      BY <3>1, <3>2
  <2>4. after(f, n + 1)
    <3>1. DOMAIN f = 0..(n + 1) /\ f = [i \in 0..(n + 1) |-> f[i]]
      OBVIOUS
    <3> HIDE DEF f
    <3> QED
      BY <2>3, <3>1
  <2> QED
    BY <2>4
<1>3. N \in T
  <2> HIDE DEF T
  <2> QED
    BY <1>1, <1>2, Induction DEF P
<1>4. \E g : after(g, N)
  BY <1>3 DEF P
<1>5. after(AloneAfter(c, e), N)
  <2> HIDE DEF after
  <2> QED
    BY <1>0, <1>4
<1>6. AloneAfter(c, e)[0] = start
  BY <1>5 DEF P
<1>7. \A k \in 1..N : AloneAfter(c, e)[k] = Transform(c, AloneAfter(c, e)[k - 1], P[k])
  BY <1>5 DEF P
<1> QED
  BY <1>6, <1>7 DEF start, P

\* An event that is refused stays refused.
LEMMA RefusedStays ==
    ASSUME NEW c, NEW e, Len(applyTransformations[c]) \in Nat,
           NEW k \in 0..Len(applyTransformations[c]), AloneAfter(c, e)[k].result = "error"
    PROVE  AloneAfter(c, e)[Len(applyTransformations[c])].result = "error"
<1> DEFINE N == Len(applyTransformations[c])
           T == {m \in Nat : k + m <= N => AloneAfter(c, e)[k + m].result = "error"}
<1>1. 0 \in T
    OBVIOUS
<1>2. ASSUME NEW n \in Nat, n \in T PROVE n + 1 \in T
  <2> SUFFICES ASSUME k + (n + 1) <= N PROVE AloneAfter(c, e)[k + (n + 1)].result = "error"
    OBVIOUS
  <2> DEFINE i == k + (n + 1)
  <2>1. i \in 1..N /\ i - 1 = k + n /\ k + n <= N
    OBVIOUS
  <2>2. AloneAfter(c, e)[i - 1].result = "error"
    BY <1>2, <2>1
  <2>3. AloneAfter(c, e)[i] = Transform(c, AloneAfter(c, e)[i - 1], applyTransformations[c][i])
    BY <2>1, AloneFacts
  <2>4. AloneAfter(c, e)[i] = AloneAfter(c, e)[i - 1]
    BY <2>2, <2>3 DEF Transform
  <2> QED
    BY <2>2, <2>4
<1>3. N - k \in Nat /\ k + (N - k) = N
    OBVIOUS
<1>4. N - k \in T
  <2> HIDE DEF T
  <2> QED
    BY <1>1, <1>2, <1>3, Induction
<1> QED
    BY <1>3, <1>4

----------------------------------------------------------------------------
(* The storage. *)

\* A handler transforms the event it received.
EventInv ==
    /\ pc \in [Handlers -> Busy \cup {"idle", "answer", "done"}]
    /\ event \in [Handlers -> Events \cup {Nil}]
    /\ \A h \in Handlers : pc[h] \in Busy => event[h] \in Events

\* Every event has its variables.
StorageInv ==
    /\ DOMAIN storage = UniqueIDs
    /\ \A u \in UniqueIDs : DOMAIN storage[u] = Variables

\* The inductive invariant.
Inv == EventInv /\ StorageInv /\ NoVariableLeak

\* A busy handler's variables are kept under one of the identifiers.
LEMMA IDType == ASSUME EventInv, NEW h \in Handlers, pc[h] \in Busy PROVE ID(h) \in UniqueIDs
BY DEF EventInv, ID, UniqueIDs

\* Nothing is stored when the adapter starts.
LEMMA InvInit == Init => Inv
BY DEF Init, Inv, EventInv, StorageInv, NoVariableLeak, Busy

\* A step of a handler that stays busy and leaves the storage alone.
LEMMA KeepNext ==
    ASSUME Inv, NEW h \in Handlers, UNCHANGED <<storage, event>>,
           NEW s, pc' = [pc EXCEPT ![h] = s], pc[h] \in Busy => s \in Busy,
           s \in Busy \cup {"answer", "done"}, s \in Busy => pc[h] \in Busy
    PROVE  Inv'
<1>1. EventInv'
    BY DEF Inv, EventInv
<1>2. StorageInv'
    BY DEF Inv, StorageInv
<1>3. NoVariableLeak'
    BY DEF Inv, EventInv, NoVariableLeak, ID
<1> QED
    BY <1>1, <1>2, <1>3 DEF Inv

\* A handler that stops being busy has flushed the variables of its event.
LEMMA FlushNext ==
    ASSUME Inv, NEW h \in Handlers, pc[h] \in Busy, Flush(ID(h)), UNCHANGED event,
           NEW s \in {"answer", "done"}, pc' = [pc EXCEPT ![h] = s]
    PROVE  Inv'
<1>1. EventInv'
    BY DEF Inv, EventInv, Busy
<1>2. StorageInv'
    BY IDType DEF Inv, StorageInv, Flush
<1>3. NoVariableLeak'
  <2> SUFFICES ASSUME NEW u \in UniqueIDs, NEW v \in Variables, storage'[u][v] # Unset
               PROVE  \E x \in Handlers : pc'[x] \in Busy /\ ID(x)' = u
      BY DEF NoVariableLeak
  <2>1. u # ID(h) /\ storage'[u] = storage[u]
      BY IDType DEF Inv, StorageInv, Flush
  <2>2. PICK x \in Handlers : pc[x] \in Busy /\ ID(x) = u
      BY <2>1 DEF Inv, NoVariableLeak
  <2>3. x # h
      BY <2>1, <2>2
  <2> QED
      BY <2>2, <2>3 DEF Inv, EventInv, ID
<1> QED
    BY <1>1, <1>2, <1>3 DEF Inv

\* A request is received by a handler that has none.
LEMMA ReceiveNext == ASSUME Inv, NEW h \in Handlers, Receive(h) PROVE Inv'
<1>1. EventInv'
    BY DEF Inv, EventInv, Receive, Busy
<1>2. StorageInv'
    BY DEF Inv, StorageInv, Receive
<1>3. NoVariableLeak'
  <2>1. pc[h] \notin Busy
      BY DEF Receive, Busy
  <2>2. \A x \in Handlers : pc[x] \in Busy => pc'[x] \in Busy /\ ID(x)' = ID(x)
      BY <2>1 DEF Inv, EventInv, Receive, ID
  <2> QED
      BY <2>2 DEF Inv, NoVariableLeak, Receive
<1> QED
    BY <1>1, <1>2, <1>3 DEF Inv

\* Store writes under the event's own identifier.
LEMMA StoreNext == ASSUME Inv, NEW h \in Handlers, Store(h) PROVE Inv'
<1> DEFINE id == ID(h)
           new == Set(storage, id, op(h).key, Document(h)[op(h).value])
<1>1. pc[h] \in Busy /\ id \in UniqueIDs /\ pc' = [pc EXCEPT ![h] = "apply"] /\ UNCHANGED event
    BY IDType DEF Store, Returns, Busy, Inv
<1>2. storage' = storage \/ storage' = new
    BY DEF Store
<1>3. DOMAIN new = UniqueIDs /\ \A u \in UniqueIDs : DOMAIN new[u] = Variables
    BY <1>1 DEF Inv, StorageInv, Set
<1>4. \A u \in UniqueIDs \ {id} : new[u] = storage[u]
    BY <1>1 DEF Inv, StorageInv, Set
<1> HIDE DEF new
<1>5. EventInv'
    BY <1>1 DEF Inv, EventInv, Busy
<1>6. StorageInv'
    BY <1>2, <1>3 DEF Inv, StorageInv
<1>7. NoVariableLeak'
  <2>1. \A x \in Handlers : pc[x] \in Busy => pc'[x] \in Busy /\ ID(x)' = ID(x)
      BY <1>1 DEF Inv, EventInv, ID, Busy
  <2>2. ASSUME NEW u \in UniqueIDs, NEW v \in Variables, storage'[u][v] # Unset
        PROVE  \E x \in Handlers : pc'[x] \in Busy /\ ID(x)' = u
    <3>1. CASE u = id
        BY <1>1, <2>1, <3>1
    <3>2. CASE u # id
        BY <1>2, <1>4, <2>1, <2>2, <3>2 DEF Inv, NoVariableLeak
    <3> QED
        BY <3>1, <3>2
  <2> QED
      BY <2>2 DEF NoVariableLeak
<1> QED
    BY <1>5, <1>6, <1>7 DEF Inv

\* Every step keeps the invariant.
LEMMA InvNext == Inv /\ [Next]_vars => Inv'
<1> SUFFICES ASSUME Inv, [Next]_vars PROVE Inv'
    OBVIOUS
<1>1. CASE UNCHANGED vars
  <2>1. UNCHANGED <<pc, event, storage>>
    BY <1>1 DEF vars, handlerVars
  <2>2. EventInv' /\ StorageInv'
    BY <2>1 DEF Inv, EventInv, StorageInv
  <2>3. NoVariableLeak'
    BY <2>1 DEF Inv, NoVariableLeak, ID
  <2> QED
    BY <2>2, <2>3 DEF Inv
<1>2. ASSUME NEW h \in Handlers, Receive(h) PROVE Inv'
    BY <1>2, ReceiveNext
<1>3. ASSUME NEW h \in Handlers, Handle(h) PROVE Inv'
  <2>1. CASE Store(h)
    BY <2>1, StoreNext
  <2>2. CASE Parse(h) \/ Shift(h) \/ AddText(h) \/ AddVariable(h) \/ DeleteFilter(h)
    <3>1. /\ UNCHANGED <<storage, event>> /\ pc' = [pc EXCEPT ![h] = "apply"]
          /\ pc[h] \in Busy
      BY <2>2 DEF Parse, Shift, AddText, AddVariable, DeleteFilter, Returns, Busy
    <3> QED
      BY <3>1, KeepNext DEF Busy
  <2>3. CASE AddFindVariable(h)
    BY <2>3, KeepNext DEF AddFindVariable, Busy
  <2>4. CASE DeleteRetrieve(h)
    BY <2>4, KeepNext DEF DeleteRetrieve, Busy
  <2>5. CASE DeleteAssign(h)
    BY <2>5, KeepNext DEF DeleteAssign, Busy
  <2>6. CASE DecodeContext(h)
    <3>1. pc[h] = "apply" /\ UNCHANGED event
      BY <2>6 DEF DecodeContext
    <3>2. CASE doc[h].context \in Undecodable
      BY <2>6, <3>1, <3>2, FlushNext DEF DecodeContext, Busy
    <3>3. CASE doc[h].context \notin Undecodable
      <4>1. UNCHANGED storage /\ pc' = [pc EXCEPT ![h] = "apply"]
        BY <2>6, <3>1, <3>3 DEF DecodeContext, Inv, EventInv
      <4> QED
        BY <3>1, <4>1, KeepNext DEF Busy
    <3> QED
      BY <3>2, <3>3
  <2>7. CASE Finish(h)
    BY <2>7, FlushNext DEF Finish, Busy
  <2>8. CASE Answer(h)
    BY <2>8, KeepNext DEF Answer, Busy
  <2> QED
    BY <1>3, <2>1, <2>2, <2>3, <2>4, <2>5, <2>6, <2>7, <2>8 DEF Handle
<1> QED
    BY <1>1, <1>2, <1>3 DEF Next

\* The inductive invariant holds in every reachable state of the adapter.
THEOREM Invariance == Spec => []Inv
BY InvInit, InvNext, PTL DEF Spec

\* The storage does not grow: it holds variables of events in progress only,
\* whatever requests overlap and however they end.
THEOREM StorageIsFlushed == Spec => []NoVariableLeak
<1>1. Inv => NoVariableLeak
    BY DEF Inv
<1> QED
    BY <1>1, Invariance, PTL

----------------------------------------------------------------------------
(* Types. *)

\* The variables of every event.
StoreType == storage \in [UniqueIDs -> [Variables -> Texts \cup {Nil, Unset}]]

\* The transformers keep their places in the configuration.
FilterType ==
    /\ pipelines \in Pipelines
    /\ DOMAIN filters = Parts
    /\ \A p \in Parts :
          /\ DOMAIN filters[p] = DOMAIN pipelines[p]
          /\ \A i \in DOMAIN filters[p] :
                pipelines[p][i].op = "delete" => filters[p][i] \in Texts \cup {Torn}

\* The documents of a handler and its place in the program.
HandlerType ==
    /\ pc \in [Handlers -> Busy \cup {"idle", "answer", "done"}]
    /\ DOMAIN event = Handlers /\ DOMAIN doc = Handlers
    /\ at \in [Handlers -> Nat]
    /\ \A h \in Handlers : pc[h] # "idle" =>
          /\ event[h] \in Events
          /\ doc[h] \in [Parts -> Documents \cup {Malformed}] /\ doc[h]["context"] \in Documents
          /\ at[h] \in 1..(Len(Program) + 1)

\* What else a handler keeps.
AnswerType ==
    /\ found \in [Handlers -> Texts \cup {Nil, Torn}]
    /\ result \in [Handlers -> {"none", "transformed", "refused", "error"}]
    /\ overlapped \in [Handlers -> BOOLEAN]

\* A handler amid an operation is at a transformer of that operation.
PositionInv ==
    \A h \in Handlers :
        /\ pc[h] = "compose" => Runs(h, "add")
        /\ pc[h] \in {"write", "filter"} => Runs(h, "delete")
        /\ pc[h] = "write" => found[h] \in Texts \cup {Torn}

\* The inductive invariant for the types.
TypeInv == StoreType /\ FilterType /\ HandlerType /\ AnswerType /\ PositionInv

\* A position of the program.
LEMMA PositionFacts ==
    ASSUME FilterType, NEW h \in Handlers, at[h] \in 1..Len(Program)
    PROVE  /\ Len(Program) \in Nat
           /\ \/ Position(h)[1] = "decode"
              \/ /\ Position(h)[1] \in Parts
                 /\ Position(h)[2] \in DOMAIN pipelines[Position(h)[1]]
                 /\ Operation(op(h))
<1>1. Program \in Seq(Steps(pipelines))
    BY ProgramFacts DEF FilterType, Program
<1>2. Position(h) \in Steps(pipelines) /\ Len(Program) \in Nat
    BY <1>1 DEF Position
<1>3. CASE Position(h) = <<"decode", 0>>
    BY <1>2, <1>3
<1>4. CASE Position(h) # <<"decode", 0>>
  <2>1. PICK p \in Parts : Position(h) \in {p} \X DOMAIN pipelines[p]
    BY <1>2, <1>4 DEF Steps
  <2>2. Position(h)[1] = p /\ Position(h)[2] \in DOMAIN pipelines[p]
    BY <2>1
  <2>3. Operation(op(h))
    BY <2>2, ConfigurationAssumption DEF op, FilterType
  <2> QED
    BY <1>2, <2>2, <2>3
<1> QED
    BY <1>3, <1>4

\* The length of the program.
LEMMA ProgramLength == ASSUME FilterType PROVE Len(Program) \in Nat
<1>1. Program \in Seq(Steps(pipelines))
    BY ProgramFacts DEF FilterType, Program
<1> QED
    BY <1>1

\* The operation a handler runs, and its document.
LEMMA RunsFacts ==
    ASSUME TypeInv, NEW h \in Handlers, pc[h] \in Busy, NEW name, Runs(h, name)
    PROVE  /\ Position(h)[1] \in Parts /\ Position(h)[2] \in DOMAIN pipelines[Position(h)[1]]
           /\ Operation(op(h)) /\ op(h).op = name
           /\ at[h] \in 1..Len(Program)
           /\ Document(h) \in Documents \cup {Malformed}
<1>1. at[h] \in 1..Len(Program)
    BY ProgramLength DEF TypeInv, HandlerType, Runs, Busy
<1>2. Position(h)[1] \in Parts /\ op(h).op = name
    BY DEF Runs, op
<1>3. Position(h)[1] # "decode"
    BY <1>2 DEF Parts
<1>4. Document(h) \in Documents \cup {Malformed}
    BY <1>2 DEF TypeInv, HandlerType, Document, Busy
<1> QED
    BY <1>1, <1>2, <1>3, <1>4, PositionFacts DEF TypeInv

\* A transformer makes a document of a document, or leaves what it was given.
Keeps(document, new) == new \in Documents \/ new = document

LEMMA ShiftType ==
    ASSUME NEW d, d \in Documents \cup {Malformed}, NEW o, Operation(o), o.op = "shift",
           NEW x
    PROVE  Keeps(d, shift(d, o, x))
<1>1. CASE shift(d, o, x) = d
    BY <1>1 DEF Keeps
<1>2. CASE d # Malformed /\ shift(d, o, x) = [d EXCEPT ![o.key] = Nil, ![o.to] = d[o.key]]
    BY <1>2 DEF Keeps, Operation, Documents
<1> QED
    BY <1>1, <1>2 DEF shift

LEMMA ParseType ==
    ASSUME NEW d, d \in Documents \cup {Malformed}, NEW o
    PROVE  Keeps(d, parse(d, o))
BY TransformationAssumption DEF Keeps, parse, Documents

LEMMA MergeType ==
    ASSUME NEW d, d \in Documents \cup {Malformed}, NEW path, NEW value \in Texts
    PROVE  Keeps(d, MergeJSONWithMap(d, path, value))
BY DEF Keeps, MergeJSONWithMap, Documents

LEMMA DeleteType ==
    ASSUME NEW d, d \in Documents \cup {Malformed}, NEW o, NEW expected
    PROVE  Keeps(d, deleteParse(d, o, expected))
BY DEF Keeps, deleteParse, Documents

\* A transformer returns.
LEMMA ReturnsType ==
    ASSUME TypeInv, NEW h \in Handlers, pc[h] \in Busy, NEW name, Runs(h, name),
           NEW document, Keeps(Document(h), document), Returns(h, document),
           found' = found \/ found' = [found EXCEPT ![h] = Nil], UNCHANGED filters, StoreType'
    PROVE  TypeInv'
<1> DEFINE p == Position(h)[1]
<1>1. p \in Parts /\ at[h] \in 1..Len(Program) /\ Len(Program) \in Nat
    BY RunsFacts, ProgramLength DEF TypeInv
<1>2. UNCHANGED <<pipelines, event, result, overlapped>> /\ pc' = [pc EXCEPT ![h] = "apply"]
      /\ at' = [at EXCEPT ![h] = @ + 1] /\ doc' = [doc EXCEPT ![h][p] = document]
    BY DEF Returns
<1>3. Program' = Program
    BY <1>2 DEF Program
<1>4. FilterType'
    BY <1>2 DEF TypeInv, FilterType
<1>5. AnswerType'
    BY <1>2 DEF TypeInv, AnswerType
<1>6. PositionInv'
  <2> SUFFICES ASSUME NEW x \in Handlers, x # h
      PROVE  /\ pc'[x] = "compose" => Runs(x, "add")'
             /\ pc'[x] \in {"write", "filter"} => Runs(x, "delete")'
             /\ pc'[x] = "write" => found'[x] \in Texts \cup {Torn}
    BY <1>2 DEF TypeInv, HandlerType, PositionInv
  <2>1. pc'[x] = pc[x] /\ at'[x] = at[x] /\ found'[x] = found[x]
    BY <1>2 DEF TypeInv, HandlerType, AnswerType
  <2> QED
    BY <1>2, <1>3, <2>1 DEF TypeInv, PositionInv, Runs, Position
<1>7. HandlerType'
  <2>1. /\ pc' \in [Handlers -> Busy \cup {"idle", "answer", "done"}]
        /\ DOMAIN event' = Handlers /\ DOMAIN doc' = Handlers
        /\ at' \in [Handlers -> Nat]
    BY <1>1, <1>2 DEF TypeInv, HandlerType, Busy
  <2>2. ASSUME NEW x \in Handlers, pc'[x] # "idle", x # h
        PROVE  /\ event'[x] \in Events
               /\ doc'[x] \in [Parts -> Documents \cup {Malformed}] /\ doc'[x]["context"] \in Documents
               /\ at'[x] \in 1..(Len(Program) + 1)
    BY <1>2, <2>2 DEF TypeInv, HandlerType
  <2>3. doc[h] \in [Parts -> Documents \cup {Malformed}] /\ doc[h]["context"] \in Documents
        /\ event[h] \in Events
    BY DEF TypeInv, HandlerType, Busy
  <2>4. doc'[h] = [doc[h] EXCEPT ![p] = document]
    BY <1>2 DEF TypeInv, HandlerType
  <2>5. document \in Documents \cup {Malformed} /\ (p = "context" => document \in Documents)
    BY <1>1, <2>3 DEF Keeps, Document
  <2>6. doc'[h] \in [Parts -> Documents \cup {Malformed}] /\ doc'[h]["context"] \in Documents
    BY <1>1, <2>3, <2>4, <2>5
  <2>7. event'[h] \in Events /\ at'[h] \in 1..(Len(Program) + 1)
    BY <1>1, <1>2, <2>3 DEF TypeInv, HandlerType
  <2> QED
    BY <1>3, <2>1, <2>2, <2>6, <2>7 DEF HandlerType
<1> QED
    BY <1>4, <1>5, <1>6, <1>7 DEF TypeInv

\* The adapter starts with its configuration.
LEMMA TypeInit == Init => TypeInv
<1> SUFFICES ASSUME Init PROVE TypeInv
    OBVIOUS
<1>1. StoreType
    BY DEF Init, StoreType
<1>2. FilterType
  <2>1. pipelines \in Pipelines
    BY DEF Init
  <2>2. \A p \in Parts : \A i \in DOMAIN pipelines[p] : Operation(pipelines[p][i])
    BY <2>1, ConfigurationAssumption
  <2> QED
    BY <2>1, <2>2 DEF Init, FilterType, Operation
<1>3. HandlerType
    BY DEF Init, HandlerType
<1>4. AnswerType
    BY DEF Init, AnswerType
<1>5. PositionInv
    BY DEF Init, PositionInv
<1> QED
    BY <1>1, <1>2, <1>3, <1>4, <1>5 DEF TypeInv

\* A step that leaves documents and positions alone.
LEMMA StayType ==
    ASSUME TypeInv, NEW h \in Handlers, pc[h] \in Busy,
           UNCHANGED <<pipelines, event, doc, at>>,
           NEW s \in Busy \cup {"answer", "done"}, pc' = [pc EXCEPT ![h] = s],
           StoreType', FilterType', AnswerType',
           s = "compose" => Runs(h, "add"), s \in {"write", "filter"} => Runs(h, "delete"),
           s = "write" => found'[h] \in Texts \cup {Torn},
           \A x \in Handlers \ {h} : found'[x] = found[x]
    PROVE  TypeInv'
<1>1. Program' = Program
    BY DEF Program
<1>2. HandlerType'
    BY <1>1 DEF TypeInv, HandlerType, Busy
<1>3. \A x \in Handlers : \A name : Runs(x, name)' <=> Runs(x, name)
    BY <1>1 DEF Runs, Position
<1>4. PositionInv'
  <2> SUFFICES ASSUME NEW x \in Handlers
      PROVE  /\ pc'[x] = "compose" => Runs(x, "add")'
             /\ pc'[x] \in {"write", "filter"} => Runs(x, "delete")'
             /\ pc'[x] = "write" => found'[x] \in Texts \cup {Torn}
    BY DEF PositionInv
  <2>1. CASE x = h
    BY <1>3, <2>1 DEF TypeInv, HandlerType
  <2>2. CASE x # h
    <3>1. pc'[x] = pc[x] /\ found'[x] = found[x]
      BY <2>2 DEF TypeInv, HandlerType
    <3> QED
      BY <1>3, <3>1 DEF TypeInv, PositionInv
  <2> QED
    BY <2>1, <2>2
<1> QED
    BY <1>2, <1>4 DEF TypeInv

\* A request is received.
LEMMA ReceiveType == ASSUME TypeInv, NEW h \in Handlers, Receive(h) PROVE TypeInv'
<1> DEFINE same(e) == {x \in Handlers : pc[x] \in Busy /\ ID(x) = eventUniqueID(e)}
<1>1. PICK e \in Events :
        /\ event' = [event EXCEPT ![h] = e]
        /\ doc' = [doc EXCEPT ![h] = [context |-> e.context, data |-> e.data]]
        /\ pc' = [pc EXCEPT ![h] = IF e.json THEN "apply" ELSE "done"]
        /\ result' = [result EXCEPT ![h] = IF e.json THEN "none" ELSE "error"]
        /\ overlapped' = [x \in Handlers |->
               IF x = h THEN same(e) # {} ELSE overlapped[x] \/ (e.json /\ x \in same(e))]
    BY DEF Receive
<1>2. at' = [at EXCEPT ![h] = 1] /\ UNCHANGED <<pipelines, storage, filters, found>>
    BY DEF Receive
<1>3. Program' = Program /\ Len(Program) \in Nat
    BY <1>2, ProgramLength DEF Program, TypeInv
<1>4. StoreType' /\ FilterType'
    BY <1>2 DEF TypeInv, StoreType, FilterType
<1>5. AnswerType'
  <2>1. overlapped' \in [Handlers -> BOOLEAN]
    BY <1>1
  <2>2. result' \in [Handlers -> {"none", "transformed", "refused", "error"}]
    BY <1>1 DEF TypeInv, AnswerType
  <2> QED
    BY <1>2, <2>1, <2>2 DEF TypeInv, AnswerType
<1>6. HandlerType'
  <2> DEFINE new == [context |-> e.context, data |-> e.data]
  <2>1. new \in [Parts -> Documents \cup {Malformed}] /\ new["context"] \in Documents
    <3>1. e.context \in Documents /\ e.data \in Documents \cup {Malformed}
      BY ConfigurationAssumption
    <3> QED
      BY <3>1 DEF Parts
  <2> HIDE DEF new
  <2>2. doc' = [doc EXCEPT ![h] = new]
    BY <1>1 DEF new
  <2>3. /\ pc' \in [Handlers -> Busy \cup {"idle", "answer", "done"}]
        /\ DOMAIN event' = Handlers /\ DOMAIN doc' = Handlers
        /\ at' \in [Handlers -> Nat]
    BY <1>1, <1>2, <2>2 DEF TypeInv, HandlerType, Busy
  <2>4. ASSUME NEW x \in Handlers, pc'[x] # "idle", x # h
        PROVE  /\ event'[x] \in Events
               /\ doc'[x] \in [Parts -> Documents \cup {Malformed}] /\ doc'[x]["context"] \in Documents
               /\ at'[x] \in 1..(Len(Program) + 1)
    BY <1>1, <1>2, <2>2, <2>4 DEF TypeInv, HandlerType
  <2>5. event'[h] = e /\ doc'[h] = new /\ at'[h] \in 1..(Len(Program) + 1)
    BY <1>1, <1>2, <1>3, <2>2 DEF TypeInv, HandlerType
  <2> QED
    BY <1>3, <2>1, <2>3, <2>4, <2>5 DEF HandlerType
<1>7. PositionInv'
  <2> SUFFICES ASSUME NEW x \in Handlers
      PROVE  /\ pc'[x] = "compose" => Runs(x, "add")'
             /\ pc'[x] \in {"write", "filter"} => Runs(x, "delete")'
             /\ pc'[x] = "write" => found'[x] \in Texts \cup {Torn}
    BY DEF PositionInv
  <2>1. CASE x = h
    BY <1>1, <2>1 DEF TypeInv, HandlerType
  <2>2. CASE x # h
    <3>1. pc'[x] = pc[x] /\ at'[x] = at[x] /\ found'[x] = found[x]
      BY <1>1, <1>2, <2>2 DEF TypeInv, HandlerType
    <3> QED
      BY <1>2, <1>3, <3>1 DEF TypeInv, PositionInv, Runs, Position
  <2> QED
    BY <2>1, <2>2
<1> QED
    BY <1>4, <1>5, <1>6, <1>7 DEF TypeInv

\* What the storage of a busy handler returns.
LEMMA GetType ==
    ASSUME TypeInv, EventInv, NEW h \in Handlers, pc[h] \in Busy
    PROVE  /\ storage[ID(h)] \in [Variables -> Texts \cup {Nil, Unset}]
           /\ \A key : Get(storage[ID(h)], key) \in Texts \cup {Nil}
           /\ \A key : retrieve(storage[ID(h)], key) \in Texts \cup {key}
<1>1. storage[ID(h)] \in [Variables -> Texts \cup {Nil, Unset}]
    BY IDType DEF TypeInv, StoreType
<1>2. \A key : Get(storage[ID(h)], key) \in Texts \cup {Nil}
    BY <1>1 DEF Get
<1> QED
    BY <1>1, <1>2 DEF retrieve

\* What a filter may be while others assign it.
LEMMA ReadsType ==
    ASSUME TypeInv, NEW h \in Handlers, pc[h] \in Busy, Runs(h, "delete")
    PROVE  Reads(Position(h)[1], Position(h)[2]) \subseteq Texts \cup {Torn}
<1> DEFINE part == Position(h)[1]
           i == Position(h)[2]
<1>1. filters[part][i] \in Texts \cup {Torn}
    BY RunsFacts DEF TypeInv, FilterType, op
<1>2. \A x \in Handlers : pc[x] = "write" => found[x] \in Texts \cup {Torn}
    BY DEF TypeInv, PositionInv
<1> QED
    BY <1>1, <1>2 DEF Reads

\* Store writes a value of the document to a variable.
LEMMA StoreStepType ==
    ASSUME TypeInv, EventInv, NEW h \in Handlers, Store(h) PROVE TypeInv'
<1>1. pc[h] \in Busy /\ Runs(h, "store") /\ Returns(h, Document(h)) /\ UNCHANGED <<filters, found>>
    BY DEF Store, Busy
<1>2. StoreType'
  <2>1. CASE storage' = storage
    BY <2>1 DEF TypeInv, StoreType
  <2>2. CASE Document(h) # Malformed
    <3>1. storage' = [storage EXCEPT ![ID(h)][op(h).key] = Document(h)[op(h).value]]
      BY <2>2 DEF Store, Set
    <3>2. Document(h) \in Documents /\ op(h).key \in Variables /\ op(h).value \in Paths
      BY <1>1, <2>2, RunsFacts DEF Operation
    <3>3. Document(h)[op(h).value] \in Texts \cup {Nil}
      BY <3>2 DEF Documents
    <3> QED
      BY <3>1, <3>3 DEF TypeInv, StoreType
  <2> QED
    BY <2>1, <2>2 DEF Store
<1> QED
    BY <1>1, <1>2, ReturnsType DEF Keeps

\* Parse, shift and add transform the document.
LEMMA TransformStepType ==
    ASSUME TypeInv, EventInv, NEW h \in Handlers, Parse(h) \/ Shift(h) \/ AddText(h) \/ AddVariable(h)
    PROVE  TypeInv'
<1>1. UNCHANGED <<storage, filters, found>> /\ pc[h] \in Busy
    BY DEF Parse, Shift, AddText, AddVariable, Busy
<1>2. StoreType'
    BY <1>1 DEF TypeInv, StoreType
<1>3. CASE Parse(h)
  <2>1. Runs(h, "parse") /\ Returns(h, parse(Document(h), op(h)))
    BY <1>3 DEF Parse
  <2>2. Keeps(Document(h), parse(Document(h), op(h)))
    BY <1>1, <2>1, RunsFacts, ParseType
  <2> QED
    BY <1>1, <1>2, <2>1, <2>2, ReturnsType
<1>4. CASE Shift(h)
  <2> DEFINE new == shift(Document(h), op(h), retrieve(storage[ID(h)], op(h).value))
  <2>1. Runs(h, "shift") /\ Returns(h, new)
    BY <1>4 DEF Shift
  <2>2. Keeps(Document(h), new)
    BY <1>1, <2>1, RunsFacts, ShiftType
  <2> QED
    BY <1>1, <1>2, <2>1, <2>2, ReturnsType
<1>5. CASE AddText(h)
  <2> DEFINE new == MergeJSONWithMap(Document(h), op(h).key, op(h).value)
  <2>1. Runs(h, "add") /\ Returns(h, new)
    BY <1>5 DEF AddText
  <2>2. op(h).value \in Texts
    BY <1>1, <2>1, RunsFacts DEF Operation
  <2>3. Keeps(Document(h), new)
    BY <1>1, <2>1, <2>2, RunsFacts, MergeType
  <2> QED
    BY <1>1, <1>2, <2>1, <2>3, ReturnsType
<1>6. CASE AddVariable(h)
  <2> DEFINE value == composeValue(op(h), Get(storage[ID(h)], op(h).var))
             new == MergeJSONWithMap(Document(h), op(h).key, value)
  <2>1. Runs(h, "add") /\ Returns(h, new)
    BY <1>6 DEF AddVariable, TypeInv, PositionInv
  <2>2. op(h).value \in Texts
    BY <1>1, <2>1, RunsFacts DEF Operation
  <2>3. Get(storage[ID(h)], op(h).var) \in Texts \cup {Nil}
    BY <1>1, GetType
  <2>4. value \in Texts
    BY <2>2, <2>3, ConfigurationAssumption DEF composeValue
  <2>5. Keeps(Document(h), new)
    BY <1>1, <2>1, <2>4, RunsFacts, MergeType
  <2> QED
    BY <1>1, <1>2, <2>1, <2>5, ReturnsType
<1> QED
    BY <1>3, <1>4, <1>5, <1>6

\* Add finds that its value has a variable.
LEMMA AddFindStepType == ASSUME TypeInv, NEW h \in Handlers, AddFindVariable(h) PROVE TypeInv'
<1>1. /\ pc[h] \in Busy /\ Runs(h, "add") /\ pc' = [pc EXCEPT ![h] = "compose"]
      /\ UNCHANGED <<pipelines, storage, filters, event, doc, at, found, result, overlapped>>
    BY DEF AddFindVariable, Busy
<1>2. StoreType' /\ FilterType' /\ AnswerType'
    BY <1>1 DEF TypeInv, StoreType, FilterType, AnswerType
<1> QED
    BY <1>1, <1>2, StayType DEF Busy

\* Delete reads its value, assigns it and filters with it.
LEMMA DeleteStepType ==
    ASSUME TypeInv, EventInv, NEW h \in Handlers,
           DeleteRetrieve(h) \/ DeleteAssign(h) \/ DeleteFilter(h)
    PROVE  TypeInv'
<1>1. CASE DeleteRetrieve(h)
  <2>1. /\ pc[h] \in Busy /\ Runs(h, "delete") /\ pc' = [pc EXCEPT ![h] = "write"]
        /\ UNCHANGED <<pipelines, storage, filters, event, doc, at, result, overlapped>>
    BY <1>1 DEF DeleteRetrieve, Busy
  <2>2. PICK value \in Reads(Position(h)[1], Position(h)[2]) :
          found' = [found EXCEPT ![h] = retrieve(storage[ID(h)], value)]
    BY <1>1 DEF DeleteRetrieve
  <2>3. retrieve(storage[ID(h)], value) \in Texts \cup {Torn}
    BY <2>1, ReadsType, GetType
  <2>4. StoreType' /\ FilterType'
    BY <2>1 DEF TypeInv, StoreType, FilterType
  <2>5. AnswerType' /\ found'[h] \in Texts \cup {Torn} /\ \A x \in Handlers \ {h} : found'[x] = found[x]
    BY <2>1, <2>2, <2>3 DEF TypeInv, AnswerType
  <2> QED
    BY <2>1, <2>4, <2>5, StayType DEF Busy
<1>2. CASE DeleteAssign(h)
  <2>1. /\ pc[h] \in Busy /\ pc[h] = "write" /\ pc' = [pc EXCEPT ![h] = "filter"]
        /\ UNCHANGED <<pipelines, storage, event, doc, at, found, result, overlapped>>
    BY <1>2 DEF DeleteAssign, Busy
  <2>2. Runs(h, "delete") /\ found[h] \in Texts \cup {Torn}
    BY <2>1 DEF TypeInv, PositionInv
  <2>3. PICK value \in {found[h], Torn} :
          filters' = [filters EXCEPT ![Position(h)[1]][Position(h)[2]] = value]
    BY <1>2 DEF DeleteAssign
  <2>4. FilterType'
    BY <2>1, <2>2, <2>3 DEF TypeInv, FilterType
  <2>5. StoreType' /\ AnswerType'
    BY <2>1 DEF TypeInv, StoreType, AnswerType
  <2> QED
    BY <2>1, <2>2, <2>4, <2>5, StayType DEF Busy
<1>3. CASE DeleteFilter(h)
  <2>1. pc[h] \in Busy /\ Runs(h, "delete") /\ UNCHANGED <<storage, filters>>
        /\ found' = [found EXCEPT ![h] = Nil]
    BY <1>3 DEF DeleteFilter, Busy, TypeInv, PositionInv
  <2>2. PICK expected : Returns(h, deleteParse(Document(h), op(h), expected))
    BY <1>3 DEF DeleteFilter
  <2>3. Keeps(Document(h), deleteParse(Document(h), op(h), expected))
    BY <2>1, RunsFacts, DeleteType
  <2>4. StoreType'
    BY <2>1 DEF TypeInv, StoreType
  <2> QED
    BY <2>1, <2>2, <2>3, <2>4, ReturnsType
<1> QED
    BY <1>1, <1>2, <1>3

\* A handler flushes the variables of its event.
LEMMA FlushType ==
    ASSUME TypeInv, EventInv, NEW h \in Handlers, pc[h] \in Busy, Flush(ID(h)) PROVE StoreType'
BY IDType DEF TypeInv, StoreType, Flush

\* The context is decoded, or the event is refused.
LEMMA DecodeStepType ==
    ASSUME TypeInv, EventInv, NEW h \in Handlers, DecodeContext(h) PROVE TypeInv'
<1>1. pc[h] \in Busy /\ pc[h] = "apply" /\ at[h] <= Len(Program)
      /\ UNCHANGED <<pipelines, filters, event, doc, found, overlapped>>
    BY DEF DecodeContext, Busy
<1>2. FilterType'
    BY <1>1 DEF TypeInv, FilterType
<1>3. CASE doc[h].context \in Undecodable
  <2>1. Flush(ID(h)) /\ pc' = [pc EXCEPT ![h] = "done"]
        /\ result' = [result EXCEPT ![h] = "error"] /\ UNCHANGED at
    BY <1>3 DEF DecodeContext
  <2>2. AnswerType'
    BY <1>1, <2>1 DEF TypeInv, AnswerType
  <2> QED
    BY <1>1, <1>2, <2>1, <2>2, FlushType, StayType DEF Busy
<1>4. CASE doc[h].context \notin Undecodable
  <2>1. at' = [at EXCEPT ![h] = @ + 1] /\ UNCHANGED <<storage, pc, result>>
    BY <1>4 DEF DecodeContext
  <2>2. StoreType' /\ AnswerType'
    BY <1>1, <2>1 DEF TypeInv, StoreType, AnswerType
  <2>3. Program' = Program /\ Len(Program) \in Nat
    BY <1>1, ProgramLength DEF Program, TypeInv
  <2>4. HandlerType'
    BY <1>1, <2>1, <2>3 DEF TypeInv, HandlerType
  <2>5. PositionInv'
    <3> SUFFICES ASSUME NEW x \in Handlers, pc'[x] \in {"compose", "write", "filter"}
        PROVE  /\ pc'[x] = "compose" => Runs(x, "add")'
               /\ pc'[x] \in {"write", "filter"} => Runs(x, "delete")'
               /\ pc'[x] = "write" => found'[x] \in Texts \cup {Torn}
      BY DEF PositionInv
    <3>1. x # h /\ pc'[x] = pc[x] /\ at'[x] = at[x] /\ found'[x] = found[x]
      BY <1>1, <2>1 DEF TypeInv, HandlerType
    <3> QED
      BY <1>1, <2>3, <3>1 DEF TypeInv, PositionInv, Runs, Position
  <2> QED
    BY <1>2, <2>2, <2>4, <2>5 DEF TypeInv
<1> QED
    BY <1>3, <1>4

\* Every step keeps the types.
LEMMA TypeNext == TypeInv /\ EventInv /\ [Next]_vars => TypeInv'
<1> SUFFICES ASSUME TypeInv, EventInv, [Next]_vars PROVE TypeInv'
    OBVIOUS
<1>1. CASE UNCHANGED vars
  <2>1. UNCHANGED <<pipelines, storage, filters, pc, event, doc, at, found, result, overlapped>>
    BY <1>1 DEF vars, handlerVars
  <2>2. Program' = Program
    BY <2>1 DEF Program
  <2>3. PositionInv'
    BY <2>1, <2>2 DEF TypeInv, PositionInv, Runs, Position
  <2> QED
    BY <2>1, <2>2, <2>3 DEF TypeInv, StoreType, FilterType, HandlerType, AnswerType
<1>2. ASSUME NEW h \in Handlers, Receive(h) PROVE TypeInv'
    BY <1>2, ReceiveType
<1>3. ASSUME NEW h \in Handlers, Handle(h) PROVE TypeInv'
  <2>1. CASE Finish(h)
    <3>1. pc[h] \in Busy /\ Flush(ID(h)) /\ pc' = [pc EXCEPT ![h] = "answer"]
          /\ UNCHANGED <<pipelines, filters, event, doc, at, found, result, overlapped>>
      BY <2>1 DEF Finish, Busy
    <3>2. FilterType' /\ AnswerType'
      BY <3>1 DEF TypeInv, FilterType, AnswerType
    <3> QED
      BY <3>1, <3>2, FlushType, StayType DEF Busy
  <2>2. CASE Answer(h)
    <3>1. pc[h] = "answer" /\ pc' = [pc EXCEPT ![h] = "done"]
          /\ UNCHANGED <<pipelines, storage, filters, event, doc, at, found, overlapped>>
      BY <2>2 DEF Answer
    <3>2. StoreType' /\ FilterType' /\ AnswerType'
      <4>1. PICK r \in {"transformed", "refused"} : result' = [result EXCEPT ![h] = r]
        BY <2>2 DEF Answer
      <4> QED
        BY <3>1, <4>1 DEF TypeInv, StoreType, FilterType, AnswerType
    <3>3. Program' = Program
      BY <3>1 DEF Program
    <3>4. HandlerType'
      BY <3>1, <3>3 DEF TypeInv, HandlerType, Busy
    <3>5. PositionInv'
      BY <3>1, <3>3 DEF TypeInv, HandlerType, PositionInv, Runs, Position
    <3> QED
      BY <3>2, <3>4, <3>5 DEF TypeInv
  <2> QED
    BY <1>3, <2>1, <2>2, StoreStepType, TransformStepType, AddFindStepType, DeleteStepType,
       DecodeStepType DEF Handle
<1> QED
    BY <1>1, <1>2, <1>3 DEF Next

\* The types hold in every reachable state.
THEOREM TypeInvariance == Spec => []TypeInv
<1>1. Inv => EventInv
    BY DEF Inv
<1> QED
    BY <1>1, TypeInit, TypeNext, Invariance, PTL DEF Spec

\* Every variable keeps its type: a configured operation finds its document and its
\* position, and a value it stores or assigns is a text or a torn one.
THEOREM TypeCorrect == Spec => []TypeOK
<1>1. ASSUME TypeInv PROVE TypeOK
  <2>1. pipelines \in Pipelines /\ storage \in [UniqueIDs -> [Variables -> Texts \cup {Nil, Unset}]]
    BY <1>1 DEF TypeInv, StoreType, FilterType
  <2>2. \A p \in Parts :
          /\ DOMAIN filters[p] = DOMAIN pipelines[p]
          /\ \A i \in DOMAIN filters[p] :
                pipelines[p][i].op = "delete" => filters[p][i] \in Texts \cup {Torn}
    BY <1>1 DEF TypeInv, FilterType
  <2>3. ASSUME NEW h \in Handlers, pc[h] # "idle"
        PROVE  /\ event[h] \in Events /\ at[h] \in 1..(Len(Program) + 1)
               /\ doc[h].context \in Documents /\ doc[h].data \in Documents \cup {Malformed}
    <3>1. doc[h] \in [Parts -> Documents \cup {Malformed}] /\ doc[h]["context"] \in Documents
          /\ event[h] \in Events /\ at[h] \in 1..(Len(Program) + 1)
      BY <1>1, <2>3 DEF TypeInv, HandlerType
    <3>2. doc[h].context = doc[h]["context"] /\ doc[h].data = doc[h]["data"] /\ "data" \in Parts
      BY DEF Parts
    <3> QED
      BY <3>1, <3>2
  <2>4. pc \in [Handlers -> Busy \cup {"idle", "answer", "done"}]
    BY <1>1 DEF TypeInv, HandlerType
  <2>5. AnswerType
    BY <1>1 DEF TypeInv
  <2> QED
    BY <2>1, <2>2, <2>3, <2>4, <2>5 DEF TypeOK, AnswerType
<1> QED
    BY <1>1, TypeInvariance, PTL

----------------------------------------------------------------------------
(* Requests do not disturb each other. *)

\* No delete operation compares with a variable: one that does assigns what it finds
\* to the transformer that all requests share.
OwnFilters ==
    \A c \in Pipelines : \A p \in Parts : \A i \in DOMAIN c[p] :
        c[p][i].op = "delete" => c[p][i].value \notin Variables

\* The transformers keep the values they were configured with.
FilterInv ==
    /\ \A p \in Parts : \A i \in DOMAIN pipelines[p] :
          pipelines[p][i].op = "delete" => filters[p][i] = pipelines[p][i].value
    /\ \A h \in Handlers : pc[h] = "write" => found[h] = op(h).value

\* A request that met none with its eventUniqueID has its variables for itself.
ApartInv ==
    \A h, x \in Handlers :
        pc[h] \in Busy /\ pc[x] \in Busy /\ h # x /\ ~overlapped[h] => ID(x) # ID(h)

\* What a handler has made of its event so far.
Mine(h) == [doc |-> doc[h], variables |-> storage[ID(h)], result |-> result[h]]

\* It is what the pipelines have made of the event alone by then.
RunInv ==
    \A h \in Handlers : pc[h] \in Busy =>
        /\ result[h] = "none"
        /\ ~overlapped[h] => Mine(h) = AloneAfter(pipelines, event[h])[at[h] - 1]
        /\ pc[h] = "compose" /\ ~overlapped[h] =>
              op(h).var \in Variables /\ storage[ID(h)][op(h).var] # Unset

\* And it is the answer, unless the event was refused.
AnswerInv == \A h \in Handlers : pc[h] = "answer" => result[h] = "none"

\* The inductive invariant for Isolated.
IsolationInv == FilterInv /\ ApartInv /\ RunInv /\ AnswerInv /\ Isolated

\* No request is in progress when the adapter starts.
LEMMA IsolationInit == Init => IsolationInv
BY DEF Init, IsolationInv, FilterInv, ApartInv, RunInv, AnswerInv, Isolated, Busy

\* Transform on a request that is not refused, one operation after another.
TransformIs(c, d, v, t) ==
    LET o == c[t[1]][t[2]]
        s == [doc |-> d, variables |-> v, result |-> "none"]
        With(r) == [doc |-> [d EXCEPT ![t[1]] = r], variables |-> v, result |-> "none"]
    IN /\ o.op = "store" =>
             Transform(c, s, t) = IF d[t[1]] = Malformed THEN s
                 ELSE [doc |-> d, variables |-> [v EXCEPT ![o.key] = d[t[1]][o.value]],
                       result |-> "none"]
       /\ o.op = "parse" => Transform(c, s, t) = With(parse(d[t[1]], o))
       /\ o.op = "shift" => Transform(c, s, t) = With(shift(d[t[1]], o, retrieve(v, o.value)))
       /\ o.op = "add" =>
             Transform(c, s, t) =
                 With(MergeJSONWithMap(d[t[1]], o.key,
                          IF o.var \in Variables /\ v[o.var] # Unset
                          THEN composeValue(o, v[o.var]) ELSE o.value))
       /\ o.op = "delete" =>
             Transform(c, s, t) =
                 With(deleteParse(d[t[1]], o, [p \in Paths |-> retrieve(v, o.value)]))

LEMMA TransformFacts ==
    ASSUME NEW c, NEW d, NEW v, NEW t, t[1] \in Parts PROVE TransformIs(c, d, v, t)
<1> DEFINE o == c[t[1]][t[2]]
           s == [doc |-> d, variables |-> v, result |-> "none"]
<1>1. s.result # "error" /\ t[1] # "decode" /\ s.doc = d /\ s.variables = v
    BY DEF Parts
<1>2. \A r : [s EXCEPT !.doc[t[1]] = r] =
                [doc |-> [d EXCEPT ![t[1]] = r], variables |-> v, result |-> "none"]
    OBVIOUS
<1>3. \A k, x : [s EXCEPT !.variables[k] = x] =
                [doc |-> d, variables |-> [v EXCEPT ![k] = x], result |-> "none"]
    OBVIOUS
<1>4. CASE o.op = "store"
  <2>1. Transform(c, s, t) = IF d[t[1]] = Malformed THEN s
            ELSE [s EXCEPT !.variables[o.key] = d[t[1]][o.value]]
    BY <1>1, <1>4 DEF Transform
  <2> QED
    BY <1>3, <1>4, <2>1 DEF TransformIs
<1>5. CASE o.op = "parse"
    BY <1>1, <1>2, <1>5 DEF Transform, TransformIs
<1>6. CASE o.op = "shift"
    BY <1>1, <1>2, <1>6 DEF Transform, TransformIs
<1>7. CASE o.op = "add"
    BY <1>1, <1>2, <1>7 DEF Transform, TransformIs
<1>8. CASE o.op = "delete"
    BY <1>1, <1>2, <1>8 DEF Transform, TransformIs
<1>9. CASE o.op \notin {"store", "parse", "shift", "add", "delete"}
    BY <1>9 DEF TransformIs
<1> QED
    BY <1>4, <1>5, <1>6, <1>7, <1>8, <1>9

\* A step takes a handler to s: it touches nothing of the others', and what it leaves
\* is right for s.
Proceeds(h, s) ==
    /\ UNCHANGED <<pipelines, event, overlapped>>
    /\ pc[h] \in Busy \cup {"answer"} /\ pc' = [pc EXCEPT ![h] = s]
    /\ \A u \in UniqueIDs : storage'[u] = storage[u] \/ (pc[h] \in Busy /\ u = ID(h))
    /\ \A x \in Handlers \ {h} :
          doc'[x] = doc[x] /\ at'[x] = at[x] /\ found'[x] = found[x] /\ result'[x] = result[x]
    /\ \A p \in Parts : \A i \in DOMAIN pipelines[p] :
          pipelines[p][i].op = "delete" => filters'[p][i] = pipelines[p][i].value
    /\ s = "write" => found'[h] = op(h)'.value
    /\ s \in Busy =>
          /\ pc[h] \in Busy /\ result'[h] = "none"
          /\ ~overlapped[h] => Mine(h)' = AloneAfter(pipelines, event[h])[at'[h] - 1]
          /\ s = "compose" /\ ~overlapped[h] =>
                op(h)'.var \in Variables /\ storage'[ID(h)][op(h)'.var] # Unset
    /\ s = "answer" => result'[h] = "none"
    /\ s \in {"answer", "done"} /\ event[h].json /\ ~overlapped[h] =>
          IF Alone(event[h]).result = "error" THEN result'[h] = "error"
          ELSE result'[h] # "error" /\ doc'[h] = Alone(event[h]).doc

LEMMA OthersKeep ==
    ASSUME TypeInv, EventInv, IsolationInv, NEW h \in Handlers,
           NEW s \in Busy \cup {"answer", "done"}, Proceeds(h, s)
    PROVE  IsolationInv'
<1> USE DEF Proceeds
<1>1. Program' = Program /\ pc'[h] = s /\ \A x \in Handlers \ {h} : pc'[x] = pc[x]
    BY DEF Program, TypeInv, HandlerType
<1>2. \A x \in Handlers : ID(x)' = ID(x) /\ Alone(event[x])' = Alone(event[x])
    BY <1>1 DEF ID, Alone
<1>3. \A x \in Handlers \ {h} : op(x)' = op(x)
    BY <1>1 DEF op, Position
<1>4. FilterInv'
  <2>1. \A x \in Handlers : pc'[x] = "write" => found'[x] = op(x)'.value
    BY <1>1, <1>3 DEF IsolationInv, FilterInv
  <2> QED
    BY <2>1 DEF FilterInv
<1>5. ApartInv'
  <2>1. \A x \in Handlers : pc'[x] \in Busy => pc[x] \in Busy
    BY <1>1
  <2> QED
    BY <1>2, <2>1 DEF IsolationInv, ApartInv
<1>6. AnswerInv'
    BY <1>1 DEF IsolationInv, AnswerInv
<1>7. RunInv'
  <2>1. ASSUME NEW x \in Handlers \ {h}, pc[x] \in Busy, ~overlapped[x]
        PROVE  storage'[ID(x)] = storage[ID(x)]
    <3>1. ID(x) \in UniqueIDs /\ (pc[h] \in Busy => ID(x) # ID(h))
      BY <2>1, IDType DEF IsolationInv, ApartInv
    <3> QED
      BY <3>1
  <2>2. ASSUME NEW x \in Handlers \ {h}, pc'[x] \in Busy
        PROVE  /\ result'[x] = "none"
               /\ ~overlapped'[x] => Mine(x)' = AloneAfter(pipelines', event'[x])[at'[x] - 1]
               /\ pc'[x] = "compose" /\ ~overlapped'[x] =>
                     op(x)'.var \in Variables /\ storage'[ID(x)'][op(x)'.var] # Unset
    <3>1. pc[x] \in Busy /\ result'[x] = "none"
      BY <1>1, <2>2 DEF IsolationInv, RunInv
    <3>2. ASSUME ~overlapped[x] PROVE Mine(x)' = Mine(x)
      BY <1>2, <2>1, <3>1, <3>2 DEF Mine
    <3>3. ~overlapped[x] => Mine(x) = AloneAfter(pipelines, event[x])[at[x] - 1]
      BY <3>1 DEF IsolationInv, RunInv
    <3>4. ~overlapped[x] => Mine(x)' = AloneAfter(pipelines', event'[x])[at'[x] - 1]
      BY <3>2, <3>3
    <3>5. pc[x] = "compose" /\ ~overlapped[x] =>
             op(x)'.var \in Variables /\ storage'[ID(x)][op(x)'.var] # Unset
      BY <1>3, <2>1, <3>1 DEF IsolationInv, RunInv
    <3> QED
      BY <1>1, <1>2, <3>1, <3>4, <3>5
  <2>3. pc'[h] \in Busy =>
               /\ result'[h] = "none"
               /\ ~overlapped'[h] => Mine(h)' = AloneAfter(pipelines', event'[h])[at'[h] - 1]
               /\ pc'[h] = "compose" /\ ~overlapped'[h] =>
                     op(h)'.var \in Variables /\ storage'[ID(h)'][op(h)'.var] # Unset
    BY <1>1, <1>2
  <2> QED
    BY <2>2, <2>3 DEF RunInv
<1>8. Isolated'
  <2> SUFFICES ASSUME NEW x \in Handlers, pc'[x] \in {"answer", "done"}, event[x].json, ~overlapped[x]
               PROVE  IF Alone(event[x])'.result = "error" THEN result'[x] = "error"
                      ELSE result'[x] # "error" /\ doc'[x] = Alone(event[x])'.doc
    BY DEF Isolated
  <2>1. CASE x = h
    BY <1>1, <1>2, <2>1
  <2>2. CASE x # h
    BY <1>1, <1>2, <2>2 DEF IsolationInv, Isolated
  <2> QED
    BY <2>1, <2>2
<1> QED
    BY <1>4, <1>5, <1>6, <1>7, <1>8 DEF IsolationInv

\* A transformer returns what Transform makes of the request.
LEMMA ReturnsIsolated ==
    ASSUME TypeInv, EventInv, IsolationInv, NEW h \in Handlers, pc[h] \in Busy,
           NEW name, Runs(h, name), NEW new, Returns(h, new),
           \A u \in UniqueIDs \ {ID(h)} : storage'[u] = storage[u], UNCHANGED filters,
           found' = found \/ found' = [found EXCEPT ![h] = Nil],
           ~overlapped[h] =>
               Transform(pipelines, Mine(h), Position(h)) =
                   [doc |-> [doc[h] EXCEPT ![Position(h)[1]] = new],
                    variables |-> storage'[ID(h)], result |-> "none"]
    PROVE  IsolationInv'
<1>1. UNCHANGED <<pipelines, event, result, overlapped>> /\ pc' = [pc EXCEPT ![h] = "apply"]
      /\ at' = [at EXCEPT ![h] = @ + 1] /\ doc' = [doc EXCEPT ![h][Position(h)[1]] = new]
    BY DEF Returns
<1>2. at[h] \in 1..Len(Program) /\ Len(Program) \in Nat
    BY RunsFacts, ProgramLength DEF TypeInv
<1>3. at'[h] - 1 = at[h] /\ result'[h] = "none"
    BY <1>1, <1>2 DEF TypeInv, HandlerType, IsolationInv, RunInv
<1>4. ASSUME ~overlapped[h] PROVE Mine(h)' = AloneAfter(pipelines, event[h])[at'[h] - 1]
  <2>1. AloneAfter(pipelines, event[h])[at[h]] =
            Transform(pipelines, AloneAfter(pipelines, event[h])[at[h] - 1], Position(h))
  <3>1. Len(applyTransformations[pipelines]) \in Nat
    BY <1>2 DEF Program
  <3>2. \A k \in 1..Len(applyTransformations[pipelines]) :
           AloneAfter(pipelines, event[h])[k] =
               Transform(pipelines, AloneAfter(pipelines, event[h])[k - 1],
                         applyTransformations[pipelines][k])
    BY <3>1, AloneFacts
  <3> QED
    BY <1>2, <3>2 DEF Program, Position
  <2>2. Mine(h) = AloneAfter(pipelines, event[h])[at[h] - 1]
    BY <1>4 DEF IsolationInv, RunInv
  <2>3. doc'[h] = [doc[h] EXCEPT ![Position(h)[1]] = new]
    BY <1>1 DEF TypeInv, HandlerType
  <2>4. Mine(h)' = [doc |-> [doc[h] EXCEPT ![Position(h)[1]] = new],
                    variables |-> storage'[ID(h)], result |-> "none"]
    BY <1>1, <1>3, <2>3 DEF Mine, ID
  <2> QED
    BY <1>3, <1>4, <2>1, <2>2, <2>4
<1>5. \A x \in Handlers \ {h} : /\ doc'[x] = doc[x] /\ at'[x] = at[x] /\ found'[x] = found[x]
                                /\ result'[x] = result[x]
    BY <1>1 DEF TypeInv, HandlerType, AnswerType
<1>6. \A p \in Parts : \A i \in DOMAIN pipelines[p] :
          pipelines[p][i].op = "delete" => filters'[p][i] = pipelines[p][i].value
    BY DEF IsolationInv, FilterInv
<1>7. Proceeds(h, "apply")
    BY <1>1, <1>3, <1>4, <1>5, <1>6 DEF Proceeds, Busy
<1> QED
    BY <1>7, OthersKeep DEF Busy

\* The request of a busy handler, as Transform takes it.
LEMMA MineFacts ==
    ASSUME TypeInv, IsolationInv, NEW h \in Handlers, pc[h] \in Busy
    PROVE  /\ Mine(h) = [doc |-> doc[h], variables |-> storage[ID(h)], result |-> "none"]
           /\ Document(h) = doc[h][Position(h)[1]]
           /\ op(h) = pipelines[Position(h)[1]][Position(h)[2]]
           /\ Position(h)[1] \in Parts =>
                 TransformIs(pipelines, doc[h], storage[ID(h)], Position(h))
BY TransformFacts DEF IsolationInv, RunInv, Mine, Document, op

\* Store.
LEMMA StoreIsolated ==
    ASSUME TypeInv, EventInv, IsolationInv, NEW h \in Handlers, Store(h) PROVE IsolationInv'
<1> DEFINE p == Position(h)[1]
<1>1. pc[h] \in Busy /\ Runs(h, "store") /\ Returns(h, Document(h)) /\ UNCHANGED <<filters, found>>
    BY DEF Store, Busy
<1>2. p \in Parts /\ op(h).op = "store" /\ doc[h] \in [Parts -> Documents \cup {Malformed}]
    BY <1>1, RunsFacts DEF TypeInv, HandlerType, Busy
<1>3. [doc[h] EXCEPT ![p] = Document(h)] = doc[h]
    BY <1>2 DEF Document
<1>4. ID(h) \in UniqueIDs
    BY <1>1, IDType
<1>5. CASE Document(h) = Malformed
  <2>1. storage' = storage
    BY <1>5 DEF Store
  <2>2. Transform(pipelines, Mine(h), Position(h)) = Mine(h)
    BY <1>1, <1>2, <1>5, MineFacts DEF TransformIs
  <2> QED
    BY <1>1, <1>3, <2>1, <2>2, MineFacts, ReturnsIsolated
<1>6. CASE Document(h) # Malformed
  <2>1. storage' = [storage EXCEPT ![ID(h)][op(h).key] = Document(h)[op(h).value]]
    BY <1>6 DEF Store, Set
  <2>2. storage'[ID(h)] = [storage[ID(h)] EXCEPT ![op(h).key] = Document(h)[op(h).value]]
        /\ \A u \in UniqueIDs \ {ID(h)} : storage'[u] = storage[u]
    BY <1>4, <2>1 DEF TypeInv, StoreType
  <2>3. Transform(pipelines, Mine(h), Position(h)) =
            [doc |-> doc[h],
             variables |-> [storage[ID(h)] EXCEPT ![op(h).key] = Document(h)[op(h).value]],
             result |-> "none"]
    BY <1>1, <1>2, <1>6, MineFacts DEF TransformIs
  <2> QED
    BY <1>1, <1>3, <2>2, <2>3, ReturnsIsolated
<1> QED
    BY <1>5, <1>6

\* Parse and Shift.
LEMMA ParseIsolated ==
    ASSUME TypeInv, EventInv, IsolationInv, NEW h \in Handlers, Parse(h) PROVE IsolationInv'
<1>1. pc[h] \in Busy /\ Runs(h, "parse") /\ Returns(h, parse(Document(h), op(h)))
      /\ UNCHANGED <<storage, filters, found>>
    BY DEF Parse, Busy
<1>2. Position(h)[1] \in Parts /\ op(h).op = "parse"
    BY <1>1, RunsFacts
<1>3. Transform(pipelines, Mine(h), Position(h)) =
          [doc |-> [doc[h] EXCEPT ![Position(h)[1]] = parse(Document(h), op(h))],
           variables |-> storage[ID(h)], result |-> "none"]
    BY <1>1, <1>2, MineFacts DEF TransformIs
<1> QED
    BY <1>1, <1>3, ReturnsIsolated

LEMMA ShiftIsolated ==
    ASSUME TypeInv, EventInv, IsolationInv, NEW h \in Handlers, Shift(h) PROVE IsolationInv'
<1> DEFINE new == shift(Document(h), op(h), retrieve(storage[ID(h)], op(h).value))
<1>1. pc[h] \in Busy /\ Runs(h, "shift") /\ Returns(h, new) /\ UNCHANGED <<storage, filters, found>>
    BY DEF Shift, Busy
<1>2. Position(h)[1] \in Parts /\ op(h).op = "shift"
    BY <1>1, RunsFacts
<1>3. Transform(pipelines, Mine(h), Position(h)) =
          [doc |-> [doc[h] EXCEPT ![Position(h)[1]] = new],
           variables |-> storage[ID(h)], result |-> "none"]
    BY <1>1, <1>2, MineFacts DEF TransformIs
<1> QED
    BY <1>1, <1>3, ReturnsIsolated

\* Add, without a variable and with one: it finds its variable in one step and reads it
\* in another, and nobody takes it away in between.
LEMMA AddIsolated ==
    ASSUME TypeInv, EventInv, IsolationInv, NEW h \in Handlers, AddText(h) \/ AddVariable(h)
    PROVE  IsolationInv'
<1> DEFINE v == storage[ID(h)]
           Value(x) == MergeJSONWithMap(Document(h), op(h).key, x)
           alone == IF op(h).var \in Variables /\ v[op(h).var] # Unset
                    THEN composeValue(op(h), v[op(h).var]) ELSE op(h).value
<1>1. pc[h] \in Busy /\ Runs(h, "add") /\ UNCHANGED <<storage, filters, found>>
    BY DEF AddText, AddVariable, Busy, TypeInv, PositionInv
<1>2. Position(h)[1] \in Parts /\ op(h).op = "add"
    BY <1>1, RunsFacts
<1>3. Transform(pipelines, Mine(h), Position(h)) =
          [doc |-> [doc[h] EXCEPT ![Position(h)[1]] = Value(alone)],
           variables |-> storage[ID(h)], result |-> "none"]
    BY <1>1, <1>2, MineFacts DEF TransformIs
<1>4. CASE AddText(h)
  <2>1. Returns(h, Value(op(h).value)) /\ alone = op(h).value
    BY <1>4 DEF AddText
  <2> QED
    BY <1>1, <1>3, <2>1, ReturnsIsolated
<1>5. CASE AddVariable(h)
  <2> DEFINE found1 == composeValue(op(h), Get(v, op(h).var))
  <2>1. Returns(h, Value(found1))
    BY <1>5 DEF AddVariable
  <2>2. ~overlapped[h] => found1 = alone
    BY <1>5 DEF AddVariable, IsolationInv, RunInv, Busy, Get
  <2>3. ~overlapped[h] =>
            Transform(pipelines, Mine(h), Position(h)) =
                [doc |-> [doc[h] EXCEPT ![Position(h)[1]] = Value(found1)],
                 variables |-> storage[ID(h)], result |-> "none"]
    BY <1>3, <2>2
  <2> QED
    BY <1>1, <2>1, <2>3, ReturnsIsolated
<1> QED
    BY <1>4, <1>5

\* A handler that goes on with its operation.
LEMMA ContinueIsolated ==
    ASSUME TypeInv, EventInv, IsolationInv, NEW h \in Handlers, pc[h] \in Busy, NEW s \in Busy,
           pc' = [pc EXCEPT ![h] = s],
           UNCHANGED <<pipelines, storage, event, doc, at, result, overlapped>>,
           \A x \in Handlers \ {h} : found'[x] = found[x],
           \A p \in Parts : \A i \in DOMAIN pipelines[p] :
               pipelines[p][i].op = "delete" => filters'[p][i] = pipelines[p][i].value,
           s = "write" => found'[h] = op(h).value,
           s = "compose" => op(h).var \in Variables /\ storage[ID(h)][op(h).var] # Unset
    PROVE  IsolationInv'
<1>1. op(h)' = op(h) /\ Mine(h)' = Mine(h)
    BY DEF op, Position, Program, Mine, ID
<1>2. /\ result'[h] = "none"
      /\ ~overlapped[h] => Mine(h)' = AloneAfter(pipelines, event[h])[at'[h] - 1]
    BY <1>1 DEF IsolationInv, RunInv
<1>3. s # "answer" /\ s # "done"
    BY DEF Busy
<1>4. Proceeds(h, s)
    BY <1>1, <1>2, <1>3 DEF Proceeds
<1> QED
    BY <1>4, OthersKeep

LEMMA AddFindIsolated ==
    ASSUME TypeInv, EventInv, IsolationInv, NEW h \in Handlers, AddFindVariable(h)
    PROVE  IsolationInv'
<1>1. /\ pc[h] \in Busy /\ pc' = [pc EXCEPT ![h] = "compose"]
      /\ UNCHANGED <<pipelines, storage, filters, event, doc, at, found, result, overlapped>>
      /\ op(h).var \in Variables /\ storage[ID(h)][op(h).var] # Unset
    BY DEF AddFindVariable, Busy
<1>2. \A p \in Parts : \A i \in DOMAIN pipelines[p] :
          pipelines[p][i].op = "delete" => filters'[p][i] = pipelines[p][i].value
    BY <1>1 DEF IsolationInv, FilterInv
<1> QED
    BY <1>1, <1>2, ContinueIsolated DEF Busy

\* A transformer that deletes is read as it was configured.
LEMMA ReadsOwn ==
    ASSUME OwnFilters, TypeInv, IsolationInv, NEW h \in Handlers, pc[h] \in Busy, Runs(h, "delete")
    PROVE  /\ Reads(Position(h)[1], Position(h)[2]) = {op(h).value}
           /\ \A v : retrieve(v, op(h).value) = op(h).value
<1> DEFINE part == Position(h)[1]
           i == Position(h)[2]
<1>1. part \in Parts /\ i \in DOMAIN pipelines[part] /\ op(h).op = "delete"
      /\ op(h) = pipelines[part][i]
    BY RunsFacts DEF op
<1>2. filters[part][i] = op(h).value
    BY <1>1 DEF IsolationInv, FilterInv
<1>3. ASSUME NEW x \in Handlers, pc[x] = "write", Position(x) = <<part, i>>
      PROVE  found[x] = op(h).value
  <2>1. op(x) = op(h)
    BY <1>1, <1>3 DEF op
  <2> QED
    BY <1>3, <2>1 DEF IsolationInv, FilterInv
<1>4. op(h).value \notin Variables
    BY <1>1 DEF OwnFilters, TypeInv, FilterType
<1> QED
    BY <1>2, <1>3, <1>4 DEF Reads, retrieve, Get

\* Delete, whose transformer all requests share.
LEMMA DeleteIsolated ==
    ASSUME OwnFilters, TypeInv, EventInv, IsolationInv, NEW h \in Handlers,
           DeleteRetrieve(h) \/ DeleteAssign(h) \/ DeleteFilter(h)
    PROVE  IsolationInv'
<1>1. pc[h] \in Busy /\ Runs(h, "delete")
    BY DEF DeleteRetrieve, DeleteAssign, DeleteFilter, Busy, TypeInv, PositionInv
<1>2. /\ Position(h)[1] \in Parts /\ Position(h)[2] \in DOMAIN pipelines[Position(h)[1]]
      /\ op(h).op = "delete" /\ op(h) = pipelines[Position(h)[1]][Position(h)[2]]
    BY <1>1, RunsFacts DEF op
<1>3. \A p \in Parts : \A i \in DOMAIN pipelines[p] :
          pipelines[p][i].op = "delete" => filters[p][i] = pipelines[p][i].value
    BY DEF IsolationInv, FilterInv
<1>4. CASE DeleteRetrieve(h)
  <2>1. /\ pc' = [pc EXCEPT ![h] = "write"]
        /\ UNCHANGED <<pipelines, storage, filters, event, doc, at, result, overlapped>>
        /\ \E value \in Reads(Position(h)[1], Position(h)[2]) :
              found' = [found EXCEPT ![h] = retrieve(storage[ID(h)], value)]
    BY <1>4 DEF DeleteRetrieve
  <2>2. found' = [found EXCEPT ![h] = op(h).value]
    BY <1>1, <2>1, ReadsOwn
  <2>3. found'[h] = op(h).value /\ \A x \in Handlers \ {h} : found'[x] = found[x]
    BY <2>2 DEF TypeInv, AnswerType
  <2> QED
    BY <1>1, <1>3, <2>1, <2>3, ContinueIsolated DEF Busy
<1>5. CASE DeleteAssign(h)
  <2>1. /\ pc[h] = "write" /\ pc' = [pc EXCEPT ![h] = "filter"]
        /\ UNCHANGED <<pipelines, storage, event, doc, at, found, result, overlapped>>
    BY <1>5 DEF DeleteAssign
  <2>2. found[h] = op(h).value
    BY <2>1 DEF IsolationInv, FilterInv
  <2>3. ASSUME NEW x \in Handlers, pc[x] = "write", Position(x) = Position(h)
        PROVE  found[x] = found[h]
    <3>1. op(x) = op(h)
      BY <2>3 DEF op
    <3> QED
      BY <2>2, <2>3, <3>1 DEF IsolationInv, FilterInv
  <2>4. filters' = [filters EXCEPT ![Position(h)[1]][Position(h)[2]] = op(h).value]
    BY <1>5, <2>2, <2>3 DEF DeleteAssign
  <2>5. \A p \in Parts : \A i \in DOMAIN pipelines[p] :
            pipelines[p][i].op = "delete" => filters'[p][i] = pipelines[p][i].value
    BY <1>2, <1>3, <2>4 DEF TypeInv, FilterType
  <2> QED
    BY <1>1, <2>1, <2>5, ContinueIsolated DEF Busy
<1>6. CASE DeleteFilter(h)
  <2> DEFINE own == [p \in Paths |-> op(h).value]
             new == deleteParse(Document(h), op(h), own)
  <2>1. UNCHANGED <<storage, filters>> /\ found' = [found EXCEPT ![h] = Nil]
        /\ \E expected \in [Paths -> Reads(Position(h)[1], Position(h)[2])] :
              Returns(h, deleteParse(Document(h), op(h), expected))
    BY <1>6 DEF DeleteFilter
  <2>2. \A expected \in [Paths -> {op(h).value}] : expected = own
    OBVIOUS
  <2>3. Returns(h, new)
    BY <1>1, <2>1, <2>2, ReadsOwn
  <2>4. [p \in Paths |-> retrieve(storage[ID(h)], op(h).value)] = own
    BY <1>1, ReadsOwn
  <2>5. Transform(pipelines, Mine(h), Position(h)) =
            [doc |-> [doc[h] EXCEPT ![Position(h)[1]] = new],
             variables |-> storage[ID(h)], result |-> "none"]
    <3>1. TransformIs(pipelines, doc[h], storage[ID(h)], Position(h))
      BY <1>1, <1>2, MineFacts
    <3>2. Transform(pipelines, Mine(h), Position(h)) =
              [doc |-> [doc[h] EXCEPT ![Position(h)[1]] = deleteParse(Document(h), op(h),
                            [p \in Paths |-> retrieve(storage[ID(h)], op(h).value)])],
               variables |-> storage[ID(h)], result |-> "none"]
      BY <1>1, <1>2, <3>1, MineFacts DEF TransformIs
    <3> QED
      BY <2>4, <3>2
  <2> QED
    BY <1>1, <2>1, <2>3, <2>5, ReturnsIsolated
<1> QED
    BY <1>4, <1>5, <1>6

\* A request is received: the storage holds nothing of its eventUniqueID unless another
\* request has it.
LEMMA ReceiveIsolated ==
    ASSUME TypeInv, Inv, IsolationInv, NEW h \in Handlers, Receive(h) PROVE IsolationInv'
<1> DEFINE same(e) == {x \in Handlers : pc[x] \in Busy /\ ID(x) = eventUniqueID(e)}
<1>1. PICK e \in Events :
        /\ event' = [event EXCEPT ![h] = e]
        /\ doc' = [doc EXCEPT ![h] = [context |-> e.context, data |-> e.data]]
        /\ pc' = [pc EXCEPT ![h] = IF e.json THEN "apply" ELSE "done"]
        /\ result' = [result EXCEPT ![h] = IF e.json THEN "none" ELSE "error"]
        /\ overlapped' = [x \in Handlers |->
               IF x = h THEN same(e) # {} ELSE overlapped[x] \/ (e.json /\ x \in same(e))]
    BY DEF Receive
<1>2. at' = [at EXCEPT ![h] = 1] /\ UNCHANGED <<pipelines, storage, filters, found>>
      /\ pc[h] \notin Busy
    BY DEF Receive, Busy
<1>3. /\ event'[h] = e /\ doc'[h] = [context |-> e.context, data |-> e.data] /\ at'[h] = 1
      /\ pc'[h] = IF e.json THEN "apply" ELSE "done"
      /\ result'[h] = IF e.json THEN "none" ELSE "error"
    BY <1>1, <1>2 DEF TypeInv, HandlerType, AnswerType
<1>4. \A x \in Handlers \ {h} :
          /\ event'[x] = event[x] /\ doc'[x] = doc[x] /\ at'[x] = at[x] /\ pc'[x] = pc[x]
          /\ result'[x] = result[x]
    BY <1>1, <1>2 DEF TypeInv, HandlerType, AnswerType
<1>5. Program' = Program /\ ID(h)' = eventUniqueID(e)
      /\ \A x \in Handlers \ {h} : /\ ID(x)' = ID(x) /\ op(x)' = op(x)
                                   /\ Alone(event[x])' = Alone(event[x])
  <2>1. Program' = Program
    BY <1>2 DEF Program
  <2>2. \A x \in Handlers \ {h} : Alone(event[x])' = Alone(event[x])
    BY <1>2, <1>4, <2>1 DEF Alone
  <2> QED
    BY <1>2, <1>3, <1>4, <2>1, <2>2 DEF ID, op, Position
<1>6. /\ ~overlapped'[h] => same(e) = {}
      /\ \A x \in Handlers \ {h} : ~overlapped'[x] => ~overlapped[x] /\ ~(e.json /\ x \in same(e))
  <2>1. overlapped'[h] <=> same(e) # {}
    BY <1>1
  <2>2. \A x \in Handlers \ {h} : overlapped'[x] <=> overlapped[x] \/ (e.json /\ x \in same(e))
    BY <1>1
  <2> QED
    BY <2>1, <2>2
<1>7. FilterInv'
  <2>1. \A x \in Handlers : pc'[x] = "write" => found'[x] = op(x)'.value
    BY <1>2, <1>3, <1>4, <1>5 DEF IsolationInv, FilterInv
  <2> QED
    BY <1>2, <2>1 DEF IsolationInv, FilterInv
<1>8. ApartInv'
  <2> SUFFICES ASSUME NEW x \in Handlers, NEW y \in Handlers, pc'[x] \in Busy, pc'[y] \in Busy,
                      x # y, ~overlapped'[x]
               PROVE  ID(y)' # ID(x)'
    BY DEF ApartInv
  <2>1. CASE x = h
    <3>1. same(e) = {} /\ pc[y] \in Busy
      BY <1>4, <1>6, <2>1
    <3> QED
      BY <1>5, <2>1, <3>1
  <2>2. CASE y = h
    <3>1. e.json
      BY <1>3, <2>2 DEF Busy
    <3>2. pc[x] \in Busy /\ x \notin same(e)
      BY <1>4, <1>6, <2>2, <3>1
    <3> QED
      BY <1>5, <2>2, <3>2
  <2>3. CASE x # h /\ y # h
    <3>1. pc[x] \in Busy /\ pc[y] \in Busy /\ ~overlapped[x]
      BY <1>4, <1>6, <2>3
    <3>2. ID(y) # ID(x)
      BY <3>1 DEF IsolationInv, ApartInv
    <3> QED
      BY <1>5, <2>3, <3>2
  <2> QED
    BY <2>1, <2>2, <2>3
<1>9. AnswerInv'
    BY <1>3, <1>4 DEF IsolationInv, AnswerInv
<1>10. ASSUME pc'[h] \in Busy
       PROVE  /\ result'[h] = "none"
              /\ ~overlapped'[h] => Mine(h)' = AloneAfter(pipelines', event'[h])[at'[h] - 1]
              /\ pc'[h] # "compose"
  <2>1. e.json /\ result'[h] = "none" /\ pc'[h] = "apply"
    BY <1>3, <1>10 DEF Busy
  <2>2. ASSUME ~overlapped'[h] PROVE Mine(h)' = AloneAfter(pipelines', event'[h])[at'[h] - 1]
    <3> DEFINE u == eventUniqueID(e)
               none == [v \in Variables |-> Unset]
    <3>1. same(e) = {} /\ u \in UniqueIDs
      BY <1>6, <2>2 DEF UniqueIDs
    <3>2. \A v \in Variables : storage[u][v] = Unset
      BY <3>1 DEF Inv, NoVariableLeak
    <3>3. storage[u] = none
      BY <3>1, <3>2 DEF TypeInv, StoreType
    <3>4. Mine(h)' = [doc |-> [context |-> e.context, data |-> e.data], variables |-> none,
                      result |-> "none"]
      BY <1>2, <1>3, <1>5, <2>1, <3>3 DEF Mine
    <3>5. AloneAfter(pipelines, e)[0] =
              [doc |-> [context |-> e.context, data |-> e.data], variables |-> none,
               result |-> "none"]
      BY AloneFacts, ProgramLength DEF Program, TypeInv
    <3>6. at'[h] - 1 = 0
      BY <1>3
    <3> QED
      BY <1>2, <1>3, <3>4, <3>5, <3>6
  <2> QED
    BY <2>1, <2>2
<1>11. RunInv'
  <2>1. ASSUME NEW x \in Handlers \ {h}, pc'[x] \in Busy
        PROVE  /\ result'[x] = "none"
               /\ ~overlapped'[x] => Mine(x)' = AloneAfter(pipelines', event'[x])[at'[x] - 1]
               /\ pc'[x] = "compose" /\ ~overlapped'[x] =>
                     op(x)'.var \in Variables /\ storage'[ID(x)'][op(x)'.var] # Unset
    <3>1. Mine(x)' = Mine(x)
      BY <1>2, <1>4, <1>5 DEF Mine
    <3>2. pc[x] \in Busy /\ (~overlapped'[x] => ~overlapped[x])
      BY <1>4, <1>6, <2>1
    <3> QED
      BY <1>2, <1>4, <1>5, <3>1, <3>2 DEF IsolationInv, RunInv
  <2> QED
    BY <1>10, <2>1 DEF RunInv
<1>12. Isolated'
  <2> SUFFICES ASSUME NEW x \in Handlers, pc'[x] \in {"answer", "done"}, event'[x].json, ~overlapped'[x]
               PROVE  IF Alone(event[x])'.result = "error" THEN result'[x] = "error"
                      ELSE result'[x] # "error" /\ doc'[x] = Alone(event[x])'.doc
    BY DEF Isolated
  <2>1. x # h
    BY <1>3
  <2> QED
    BY <1>4, <1>5, <1>6, <2>1 DEF IsolationInv, Isolated
<1> QED
    BY <1>7, <1>8, <1>9, <1>11, <1>12 DEF IsolationInv

\* Decoding the context refuses the event exactly when it does so alone.
LEMMA DecodeIsolated ==
    ASSUME TypeInv, EventInv, IsolationInv, NEW h \in Handlers, DecodeContext(h) PROVE IsolationInv'
<1> DEFINE so(k) == AloneAfter(pipelines, event[h])[k]
<1>1. pc[h] \in Busy /\ pc[h] = "apply" /\ at[h] <= Len(Program) /\ Position(h)[1] = "decode"
      /\ UNCHANGED <<pipelines, filters, event, doc, found, overlapped>>
    BY DEF DecodeContext, Busy
<1>2. at[h] \in 1..Len(Program) /\ Len(Program) \in Nat
    BY <1>1, ProgramLength DEF TypeInv, HandlerType
<1>3. so(at[h]) = Transform(pipelines, so(at[h] - 1), Position(h))
    BY <1>2, AloneFacts DEF Program, Position
<1>4. ~overlapped[h] => so(at[h] - 1) = Mine(h)
    BY <1>1 DEF IsolationInv, RunInv
<1>5. Mine(h).result = "none" /\ Mine(h).doc = doc[h]
    BY <1>1, MineFacts
<1>6. \A p \in Parts : \A i \in DOMAIN pipelines[p] :
          pipelines[p][i].op = "delete" => filters'[p][i] = pipelines[p][i].value
    BY <1>1 DEF IsolationInv, FilterInv
<1>7. CASE doc[h].context \in Undecodable
  <2>1. Flush(ID(h)) /\ pc' = [pc EXCEPT ![h] = "done"]
        /\ result' = [result EXCEPT ![h] = "error"] /\ UNCHANGED at
    BY <1>7 DEF DecodeContext
  <2>2. result'[h] = "error" /\ \A x \in Handlers \ {h} : result'[x] = result[x]
    BY <2>1 DEF TypeInv, AnswerType
  <2>3. \A u \in UniqueIDs \ {ID(h)} : storage'[u] = storage[u]
    BY <2>1 DEF Flush, TypeInv, StoreType
  <2>4. ASSUME ~overlapped[h] PROVE Alone(event[h]).result = "error"
    <3>1. so(at[h]) = [Mine(h) EXCEPT !.result = "error"]
      BY <1>1, <1>3, <1>4, <1>5, <1>7, <2>4 DEF Transform
    <3>2. so(at[h]).result = "error"
      BY <3>1 DEF Mine
    <3> QED
      BY <1>2, <3>2, RefusedStays DEF Alone, Program
  <2>5. Proceeds(h, "done")
    BY <1>1, <1>6, <2>1, <2>2, <2>3, <2>4 DEF Proceeds, Busy
  <2> QED
    BY <2>5, OthersKeep
<1>8. CASE doc[h].context \notin Undecodable
  <2>1. at' = [at EXCEPT ![h] = @ + 1] /\ UNCHANGED <<storage, pc, result>>
    BY <1>8 DEF DecodeContext
  <2>2. pc' = [pc EXCEPT ![h] = "apply"]
    BY <1>1, <2>1 DEF TypeInv, HandlerType
  <2>3. at'[h] - 1 = at[h] /\ \A x \in Handlers \ {h} : at'[x] = at[x]
    BY <1>2, <2>1 DEF TypeInv, HandlerType
  <2>4. ~overlapped[h] => so(at[h]) = Mine(h)
    BY <1>1, <1>3, <1>4, <1>5, <1>8 DEF Transform
  <2>5. Mine(h)' = Mine(h) /\ result'[h] = "none"
    BY <1>1, <2>1 DEF Mine, ID, IsolationInv, RunInv
  <2>6. ~overlapped[h] => Mine(h)' = AloneAfter(pipelines, event[h])[at'[h] - 1]
    BY <2>3, <2>4, <2>5
  <2>7. Proceeds(h, "apply")
    BY <1>1, <1>6, <2>1, <2>2, <2>3, <2>5, <2>6 DEF Proceeds, Busy
  <2> QED
    BY <2>7, OthersKeep DEF Busy
<1> QED
    BY <1>7, <1>8

\* At the end of the program the documents are the answer.
LEMMA FinishIsolated ==
    ASSUME TypeInv, EventInv, IsolationInv, NEW h \in Handlers, Finish(h) PROVE IsolationInv'
<1>1. /\ pc[h] \in Busy /\ at[h] > Len(Program) /\ Flush(ID(h)) /\ pc' = [pc EXCEPT ![h] = "answer"]
      /\ UNCHANGED <<pipelines, filters, event, doc, at, found, result, overlapped>>
    BY DEF Finish, Busy
<1>2. at[h] - 1 = Len(Program)
    BY <1>1, ProgramLength DEF TypeInv, HandlerType, Busy
<1>3. result'[h] = "none" /\ Mine(h).result = "none" /\ Mine(h).doc = doc[h]
    BY <1>1, MineFacts DEF IsolationInv, RunInv
<1>4. ~overlapped[h] => Alone(event[h]) = Mine(h)
    BY <1>1, <1>2 DEF IsolationInv, RunInv, Alone
<1>5. \A p \in Parts : \A i \in DOMAIN pipelines[p] :
          pipelines[p][i].op = "delete" => filters'[p][i] = pipelines[p][i].value
    BY <1>1 DEF IsolationInv, FilterInv
<1>6. \A u \in UniqueIDs \ {ID(h)} : storage'[u] = storage[u]
    BY <1>1 DEF Flush, TypeInv, StoreType
<1>7. Proceeds(h, "answer")
    BY <1>1, <1>3, <1>4, <1>5, <1>6 DEF Proceeds, Busy
<1> QED
    BY <1>7, OthersKeep

\* The event is answered.
LEMMA AnswerIsolated ==
    ASSUME TypeInv, EventInv, IsolationInv, NEW h \in Handlers, Answer(h) PROVE IsolationInv'
<1>1. /\ pc[h] = "answer" /\ pc' = [pc EXCEPT ![h] = "done"]
      /\ UNCHANGED <<pipelines, storage, filters, event, doc, at, found, overlapped>>
    BY DEF Answer
<1>2. result'[h] \in {"transformed", "refused"} /\ \A x \in Handlers \ {h} : result'[x] = result[x]
  <2>1. PICK r \in {"transformed", "refused"} : result' = [result EXCEPT ![h] = r]
    BY DEF Answer
  <2> QED
    BY <2>1 DEF TypeInv, AnswerType
<1>3. result[h] = "none" /\ (event[h].json /\ ~overlapped[h] =>
          Alone(event[h]).result # "error" /\ doc[h] = Alone(event[h]).doc)
    BY <1>1 DEF IsolationInv, AnswerInv, Isolated
<1>4. \A p \in Parts : \A i \in DOMAIN pipelines[p] :
          pipelines[p][i].op = "delete" => filters'[p][i] = pipelines[p][i].value
    BY <1>1 DEF IsolationInv, FilterInv
<1>5. Proceeds(h, "done")
    BY <1>1, <1>2, <1>3, <1>4 DEF Proceeds, Busy
<1> QED
    BY <1>5, OthersKeep

\* Every step keeps requests apart.
LEMMA IsolationNext == OwnFilters /\ TypeInv /\ Inv /\ IsolationInv /\ [Next]_vars => IsolationInv'
<1> SUFFICES ASSUME OwnFilters, TypeInv, Inv, EventInv, IsolationInv, [Next]_vars PROVE IsolationInv'
    BY DEF Inv
<1>1. CASE UNCHANGED vars
  <2>1. UNCHANGED <<pipelines, storage, filters, pc, event, doc, at, found, result, overlapped>>
    BY <1>1 DEF vars, handlerVars
  <2>2. \A x \in Handlers : /\ ID(x)' = ID(x) /\ op(x)' = op(x) /\ Alone(event[x])' = Alone(event[x])
                            /\ Mine(x)' = Mine(x)
    BY <2>1 DEF ID, op, Position, Program, Alone, Mine
  <2>3. FilterInv' /\ ApartInv' /\ AnswerInv'
    BY <2>1, <2>2 DEF IsolationInv, FilterInv, ApartInv, AnswerInv
  <2>4. RunInv'
    BY <2>1, <2>2 DEF IsolationInv, RunInv
  <2>5. Isolated'
    BY <2>1, <2>2 DEF IsolationInv, Isolated
  <2> QED
    BY <2>3, <2>4, <2>5 DEF IsolationInv
<1>2. ASSUME NEW h \in Handlers, Receive(h) PROVE IsolationInv'
    BY <1>2, ReceiveIsolated
<1>3. ASSUME NEW h \in Handlers, Handle(h) PROVE IsolationInv'
    BY <1>3, StoreIsolated, ParseIsolated, ShiftIsolated, AddIsolated, AddFindIsolated,
       DeleteIsolated, DecodeIsolated, FinishIsolated, AnswerIsolated DEF Handle
<1> QED
    BY <1>1, <1>2, <1>3 DEF Next

\* While no delete operation compares with a variable, a request gets what the
\* pipelines make of its event alone (applyTransformations), however requests of other
\* events interleave with it, operation by operation.
THEOREM IsolatedRequests == ASSUME OwnFilters PROVE Spec => []Isolated
<1>1. TypeInv /\ Inv /\ IsolationInv /\ [Next]_vars => IsolationInv'
    BY IsolationNext
<1>2. IsolationInv => Isolated
    BY DEF IsolationInv
<1> QED
    BY <1>1, <1>2, IsolationInit, Invariance, TypeInvariance, PTL DEF Spec

----------------------------------------------------------------------------
(* Every request is answered: what AllAnswered has besides fairness. *)

\* A handler has given its answer exactly when it is done with the request, and of
\* the answers there is one (receiveAndReply and receiveAndSend return once).
Answered == \A h \in Handlers : result[h] # "none" <=> pc[h] = "done"

\* The steps that are left of the operation at hand.
Step == [apply |-> 3, compose |-> 2, write |-> 2, filter |-> 1]

\* A bound on the steps that are left of a request.
Rest(h) ==
    IF pc[h] \in Busy THEN 4 * (Len(Program) + 1 - at[h]) + Step[pc[h]] + 2
    ELSE IF pc[h] = "answer" THEN 1 ELSE 0

\* Each step of a handler brings its request nearer to the answer, and no other
\* request sets it back, failing operations included (adapter.go:249: "Failed
\* transformation operations should not stop event flow").
Finishes ==
    [][\A h \in Handlers : /\ Rest(h)' \in Nat
                           /\ Handle(h) => Rest(h)' < Rest(h)
                           /\ Receive(h) \/ Rest(h)' <= Rest(h)]_vars

\* How a handler moves in its program.
Moves(h) ==
    /\ UNCHANGED pipelines
    /\ \/ /\ pc[h] \in {"apply", "compose", "filter"} /\ at[h] <= Len(Program)
          /\ pc'[h] = "apply" /\ at'[h] = at[h] + 1
       \/ /\ pc[h] = "apply" /\ at[h] <= Len(Program)
          /\ pc'[h] \in {"compose", "write"} /\ at'[h] = at[h]
       \/ /\ pc[h] = "write" /\ at[h] <= Len(Program)
          /\ pc'[h] = "filter" /\ at'[h] = at[h]
       \/ pc[h] = "apply" /\ pc'[h] \in {"answer", "done"}
       \/ pc[h] = "answer" /\ pc'[h] = "done"

\* Only the handler itself moves, and it answers with its last step.
Alters(h) ==
    /\ \A x \in Handlers \ {h} : pc'[x] = pc[x] /\ at'[x] = at[x] /\ result'[x] = result[x]
    /\ IF pc'[h] = "done" THEN result'[h] # "none" ELSE result'[h] = result[h]

\* A transformer that returns moves its handler by one position.
LEMMA ReturnsMoves ==
    ASSUME TypeInv, NEW h \in Handlers, pc[h] \in {"apply", "compose", "filter"},
           at[h] <= Len(Program), NEW document, Returns(h, document)
    PROVE  Moves(h) /\ Alters(h)
<1>1. /\ at' = [at EXCEPT ![h] = @ + 1] /\ pc' = [pc EXCEPT ![h] = "apply"]
      /\ UNCHANGED <<pipelines, result>>
    BY DEF Returns
<1> QED
    BY <1>1 DEF TypeInv, HandlerType, AnswerType, Moves, Alters

\* Every step of a handler is one of its moves.
LEMMA HandleMoves ==
    ASSUME TypeInv, NEW h \in Handlers, Handle(h)
    PROVE  Moves(h) /\ Alters(h)
<1> USE DEF Runs
<1>1. CASE Store(h) \/ Parse(h) \/ Shift(h) \/ AddText(h)
  <2>1. pc[h] = "apply" /\ at[h] <= Len(Program) /\ \E document : Returns(h, document)
    BY <1>1 DEF Store, Parse, Shift, AddText
  <2> QED
    BY <2>1, ReturnsMoves
<1>2. CASE AddVariable(h) \/ DeleteFilter(h)
  <2>1. pc[h] \in {"compose", "filter"} /\ \E document : Returns(h, document)
    BY <1>2 DEF AddVariable, DeleteFilter
  <2>2. at[h] <= Len(Program)
    BY <2>1 DEF TypeInv, PositionInv
  <2> QED
    BY <2>1, <2>2, ReturnsMoves
<1>3. CASE AddFindVariable(h) \/ DeleteRetrieve(h)
  <2>1. /\ pc[h] = "apply" /\ at[h] <= Len(Program) /\ UNCHANGED <<pipelines, at, result>>
        /\ \E s \in {"compose", "write"} : pc' = [pc EXCEPT ![h] = s]
    BY <1>3 DEF AddFindVariable, DeleteRetrieve
  <2> QED
    BY <2>1 DEF TypeInv, HandlerType, Moves, Alters
<1>4. CASE DeleteAssign(h)
  <2>1. /\ pc[h] = "write" /\ pc' = [pc EXCEPT ![h] = "filter"]
        /\ UNCHANGED <<pipelines, at, result>>
    BY <1>4 DEF DeleteAssign
  <2>2. at[h] <= Len(Program)
    BY <2>1 DEF TypeInv, PositionInv
  <2> QED
    BY <2>1, <2>2 DEF TypeInv, HandlerType, Moves, Alters
<1>5. CASE DecodeContext(h)
  <2>1. pc[h] = "apply" /\ at[h] <= Len(Program) /\ UNCHANGED pipelines
    BY <1>5 DEF DecodeContext
  <2>2. CASE doc[h].context \in Undecodable
    <3>1. /\ pc' = [pc EXCEPT ![h] = "done"] /\ result' = [result EXCEPT ![h] = "error"]
          /\ UNCHANGED at
      BY <1>5, <2>2 DEF DecodeContext
    <3> QED
      BY <2>1, <3>1 DEF TypeInv, HandlerType, AnswerType, Moves, Alters
  <2>3. CASE doc[h].context \notin Undecodable
    <3>1. at' = [at EXCEPT ![h] = @ + 1] /\ UNCHANGED <<pc, result>>
      BY <1>5, <2>3 DEF DecodeContext
    <3> QED
      BY <2>1, <3>1 DEF TypeInv, HandlerType, Moves, Alters
  <2> QED
    BY <2>2, <2>3
<1>6. CASE Finish(h)
  <2>1. /\ pc[h] = "apply" /\ pc' = [pc EXCEPT ![h] = "answer"]
        /\ UNCHANGED <<pipelines, at, result>>
    BY <1>6 DEF Finish
  <2> QED
    BY <2>1 DEF TypeInv, HandlerType, Moves, Alters
<1>7. CASE Answer(h)
  <2>1. /\ pc[h] = "answer" /\ pc' = [pc EXCEPT ![h] = "done"] /\ UNCHANGED <<pipelines, at>>
        /\ \E r \in {"transformed", "refused"} : result' = [result EXCEPT ![h] = r]
    BY <1>7 DEF Answer
  <2> QED
    BY <2>1 DEF TypeInv, HandlerType, AnswerType, Moves, Alters
<1> QED
    BY <1>1, <1>2, <1>3, <1>4, <1>5, <1>6, <1>7 DEF Handle

\* A request is received by a handler, and disturbs no other.
LEMMA ReceiveMoves ==
    ASSUME TypeInv, NEW h \in Handlers, Receive(h)
    PROVE  /\ UNCHANGED pipelines /\ at'[h] = 1
           /\ \/ pc'[h] = "apply" /\ result'[h] = "none"
              \/ pc'[h] = "done" /\ result'[h] = "error"
           /\ \A x \in Handlers \ {h} :
                 pc'[x] = pc[x] /\ at'[x] = at[x] /\ result'[x] = result[x]
<1>1. PICK e \in Events :
        /\ pc' = [pc EXCEPT ![h] = IF e.json THEN "apply" ELSE "done"]
        /\ result' = [result EXCEPT ![h] = IF e.json THEN "none" ELSE "error"]
    BY DEF Receive
<1>2. at' = [at EXCEPT ![h] = 1] /\ UNCHANGED pipelines
    BY DEF Receive
<1> QED
    BY <1>1, <1>2 DEF TypeInv, HandlerType, AnswerType

\* Each position of the program that is left counts for four steps.
Left(h) == 4 * (Len(Program) + 1 - at[h])

LEMMA LeftFacts ==
    ASSUME TypeInv, NEW h \in Handlers, pc[h] \in Busy
    PROVE  /\ Left(h) \in Nat /\ Step[pc[h]] \in 1..3 /\ Rest(h) = Left(h) + Step[pc[h]] + 2
           /\ pc'[h] \in Busy /\ UNCHANGED pipelines =>
                /\ Rest(h)' = Left(h)' + Step[pc'[h]] + 2
                /\ at'[h] = at[h] => Left(h)' = Left(h)
                /\ at'[h] = at[h] + 1 => Left(h)' = Left(h) - 4
<1>1. at[h] \in 1..(Len(Program) + 1) /\ Len(Program) \in Nat
    BY ProgramLength DEF TypeInv, HandlerType, Busy
<1>2. \A n \in Nat : \A a \in 1..(n + 1) :
          4 * (n + 1 - a) \in Nat /\ 4 * (n + 1 - (a + 1)) = 4 * (n + 1 - a) - 4
    OBVIOUS
<1>3. Left(h) \in Nat
    BY <1>1, <1>2 DEF Left
<1>4. Step[pc[h]] \in 1..3
    BY DEF Busy, Step
<1>5. Rest(h) = Left(h) + Step[pc[h]] + 2
    BY DEF Rest, Left
<1>6. ASSUME pc'[h] \in Busy, UNCHANGED pipelines
      PROVE  /\ Rest(h)' = Left(h)' + Step[pc'[h]] + 2
             /\ at'[h] = at[h] => Left(h)' = Left(h)
             /\ at'[h] = at[h] + 1 => Left(h)' = Left(h) - 4
  <2>1. Program' = Program
    BY <1>6 DEF Program
  <2>2. Rest(h)' = Left(h)' + Step[pc'[h]] + 2
    BY <1>6 DEF Rest, Left
  <2>3. at'[h] = at[h] => Left(h)' = Left(h)
    BY <2>1 DEF Left
  <2>4. at'[h] = at[h] + 1 => Left(h)' = Left(h) - 4
    BY <1>1, <1>2, <2>1 DEF Left
  <2> QED
    BY <2>2, <2>3, <2>4
<1> QED
    BY <1>3, <1>4, <1>5, <1>6

\* What is left of a request is a number.
RestCounts == \A h \in Handlers : Rest(h) \in Nat

LEMMA RestType == TypeInv => RestCounts
<1> SUFFICES ASSUME TypeInv, NEW h \in Handlers PROVE Rest(h) \in Nat
    BY DEF RestCounts
<1>1. CASE pc[h] \in Busy
  <2>1. Left(h) \in Nat /\ Step[pc[h]] \in 1..3 /\ Rest(h) = Left(h) + Step[pc[h]] + 2
    BY <1>1, LeftFacts
  <2> QED
    BY <2>1
<1>2. CASE pc[h] \notin Busy
    BY <1>2 DEF Rest
<1> QED
    BY <1>1, <1>2

\* A move leaves less to do.
LEMMA MovesNearer ==
    ASSUME TypeInv, NEW h \in Handlers, Moves(h)
    PROVE  Rest(h)' < Rest(h)
<1> DEFINE n == Left(h)
<1>0. Step["apply"] = 3 /\ Step["compose"] = 2 /\ Step["write"] = 2 /\ Step["filter"] = 1
    BY DEF Step
<1>1. UNCHANGED pipelines
    BY DEF Moves
<1>2. ASSUME pc[h] \in Busy
      PROVE  n \in Nat /\ Step[pc[h]] \in 1..3 /\ Rest(h) = n + Step[pc[h]] + 2
    BY <1>2, LeftFacts
<1>3. ASSUME pc[h] \in Busy, pc'[h] \in Busy
      PROVE  /\ at'[h] = at[h] => Rest(h)' = n + Step[pc'[h]] + 2
             /\ at'[h] = at[h] + 1 => Rest(h)' = (n - 4) + Step[pc'[h]] + 2
    BY <1>1, <1>3, LeftFacts
<1> HIDE DEF n
<1>4. CASE pc[h] \in {"apply", "compose", "filter"} /\ pc'[h] = "apply" /\ at'[h] = at[h] + 1
  <2>1. pc[h] \in Busy /\ pc'[h] \in Busy
    BY <1>4 DEF Busy
  <2>2. Rest(h)' = (n - 4) + 3 + 2
    BY <1>0, <1>3, <1>4, <2>1
  <2> QED
    BY <1>2, <2>1, <2>2
<1>5. CASE pc[h] = "apply" /\ pc'[h] \in {"compose", "write"} /\ at'[h] = at[h]
  <2>1. pc[h] \in Busy /\ pc'[h] \in Busy
    BY <1>5 DEF Busy
  <2>2. Rest(h)' = n + 2 + 2
    BY <1>0, <1>3, <1>5, <2>1
  <2> QED
    BY <1>0, <1>2, <1>5, <2>1, <2>2
<1>6. CASE pc[h] = "write" /\ pc'[h] = "filter" /\ at'[h] = at[h]
  <2>1. pc[h] \in Busy /\ pc'[h] \in Busy
    BY <1>6 DEF Busy
  <2>2. Rest(h)' = n + 1 + 2
    BY <1>0, <1>3, <1>6, <2>1
  <2> QED
    BY <1>0, <1>2, <1>6, <2>1, <2>2
<1>7. CASE pc[h] = "apply" /\ pc'[h] \in {"answer", "done"}
  <2>1. pc[h] \in Busy /\ pc'[h] \notin Busy
    BY <1>7 DEF Busy
  <2>2. Rest(h)' \in {0, 1}
    BY <2>1 DEF Rest
  <2> QED
    BY <1>2, <2>1, <2>2
<1>8. CASE pc[h] = "answer" /\ pc'[h] = "done"
    BY <1>8 DEF Rest, Busy
<1> QED
    BY <1>4, <1>5, <1>6, <1>7, <1>8 DEF Moves

\* A handler that does not move has as much to do as before.
LEMMA StaysNear ==
    ASSUME UNCHANGED pipelines, NEW h \in Handlers, pc'[h] = pc[h], at'[h] = at[h]
    PROVE  Rest(h)' = Rest(h)
BY DEF Rest, Program

\* Every request gets one answer, with the step that ends it.
THEOREM OneAnswer == Spec => []Answered
<1>1. ASSUME Init PROVE Answered
  <2>1. \A h \in Handlers : result[h] = "none" /\ pc[h] = "idle"
    BY <1>1 DEF Init
  <2> QED
    BY <2>1 DEF Answered
<1>2. TypeInv /\ Answered /\ [Next]_vars => Answered'
  <2> SUFFICES ASSUME TypeInv, Answered, [Next]_vars PROVE Answered'
    OBVIOUS
  <2>1. CASE UNCHANGED vars
    BY <2>1 DEF vars, handlerVars, Answered
  <2>2. ASSUME NEW h \in Handlers, Receive(h) PROVE Answered'
    BY <2>2, ReceiveMoves DEF Answered
  <2>3. ASSUME NEW h \in Handlers, Handle(h) PROVE Answered'
    <3>1. Moves(h) /\ Alters(h)
      BY <2>3, HandleMoves
    <3>2. pc[h] # "done"
      BY <3>1 DEF Moves
    <3> QED
      BY <3>1, <3>2 DEF Alters, Answered
  <2> QED
    BY <2>1, <2>2, <2>3 DEF Next
<1> QED
    BY <1>1, <1>2, TypeInvariance, PTL DEF Spec

\* Every step of a handler counts down to its answer, and nothing but the next request
\* counts up: with the handlers' fairness no request is handled for ever.
THEOREM RequestsFinish == Spec => Finishes
<1>1. ASSUME TypeInv, RestCounts', Next, NEW h \in Handlers
      PROVE  /\ Rest(h)' \in Nat
             /\ Handle(h) => Rest(h)' < Rest(h)
             /\ Receive(h) \/ Rest(h)' <= Rest(h)
  <2>1. Rest(h) \in Nat
    BY <1>1, RestType DEF RestCounts
  <2>2. Rest(h)' \in Nat
    BY <1>1 DEF RestCounts
  <2>3. ASSUME Handle(h) PROVE Rest(h)' < Rest(h)
    BY <1>1, <2>3, HandleMoves, MovesNearer
  <2>4. ASSUME NEW x \in Handlers \ {h}, Receive(x) \/ Handle(x) PROVE Rest(h)' <= Rest(h)
    <3>1. UNCHANGED pipelines /\ pc'[h] = pc[h] /\ at'[h] = at[h]
      BY <1>1, <2>4, ReceiveMoves, HandleMoves DEF Moves, Alters
    <3> QED
      BY <2>1, <3>1, StaysNear
  <2> QED
    BY <1>1, <2>1, <2>2, <2>3, <2>4 DEF Next
<1>2. TypeInv' => RestCounts'
    BY RestType, PTL
<1>3. TypeInv /\ TypeInv' /\ Next =>
          \A h \in Handlers : /\ Rest(h)' \in Nat
                              /\ Handle(h) => Rest(h)' < Rest(h)
                              /\ Receive(h) \/ Rest(h)' <= Rest(h)
    BY <1>1, <1>2
<1> QED
    BY <1>3, TypeInvariance, PTL DEF Spec, Finishes

=============================================================================
