--------------------- MODULE SharedServiceAccountProofs ---------------------
(***************************************************************************)
(* Proofs about the shared ServiceAccount, for any number of instances and *)
(* of changes: its list of owners has no name twice and is never empty, no *)
(* write drops a live owner from it, and a user's one is left alone.       *)
(***************************************************************************)
EXTENDS SharedServiceAccount, FiniteSetTheorems, TLAPS

USE SharedServiceAccountAssumption

\* No name is in the list twice.
DistinctNames(s) == \A i, j \in DOMAIN s : s[i][1] = s[j][1] => i = j

\* Every name in the first list is in the second.
NamesKept(s, t) == \A ref \in Refset(s) : \E new \in Refset(t) : new[1] = ref[1]

----------------------------------------------------------------------------
(* Lists of owners. *)

\* What a list holds is finite.
LEMMA RefsetFinite ==
    ASSUME NEW S, NEW s \in Seq(S)
    PROVE  IsFiniteSet(Refset(s)) /\ Refset(s) \subseteq S
<1>1. s \in Surjection(1..Len(s), Refset(s))
    BY DEF Surjection, Refset
<1>2. IsFiniteSet(1..Len(s))
    BY FS_Interval
<1>3. IsFiniteSet(Refset(s))
    BY <1>1, <1>2, FS_Surjection
<1> QED
    BY <1>3 DEF Refset

\* A function on 1..n is a sequence.
LEMMA FunctionIsSeq ==
    ASSUME NEW S, NEW n \in Nat, NEW s \in [1..n -> S]
    PROVE  s \in Seq(S) /\ DOMAIN s = 1..n /\ Len(s) = n
OBVIOUS

\* A list as long as the set of what it holds has nothing twice.
LEMMA NoRepetition ==
    ASSUME NEW S, IsFiniteSet(S), NEW s \in [1..Cardinality(S) -> S], Refset(s) = S,
           NEW i \in DOMAIN s, NEW j \in DOMAIN s, s[i] = s[j]
    PROVE  i = j
<1> DEFINE D == 1..Cardinality(S)
<1>1. Cardinality(S) \in Nat
    BY FS_CardinalityType
<1>2. IsFiniteSet(D) /\ Cardinality(D) = Cardinality(S)
    BY <1>1, FS_Interval
<1>3. s \in [D -> S]
    OBVIOUS
<1> HIDE DEF D
<1>4. s \in Surjection(D, S)
    BY <1>3 DEF Surjection, Refset
<1>5. s \in Injection(D, S)
    BY <1>2, <1>4, FS_SurjSameCardinalityImpliesInj
<1> QED
    BY <1>3, <1>5 DEF Injection, IsInjective

\* A finite set of integers in ascending order: a sequence with nothing twice that
\* misses nothing.
LEMMA AscendingFacts ==
    ASSUME NEW I, I \subseteq Int, IsFiniteSet(I), NEW s \in Ascending(I)
    PROVE  /\ s \in Seq(I) /\ DOMAIN s \subseteq Nat
           /\ \A j, k \in DOMAIN s : s[j] = s[k] => j = k
           /\ \A x \in I : \E j \in DOMAIN s : s[j] = x
<1> DEFINE D == 1..Cardinality(I)
<1>1. Cardinality(I) \in Nat
    BY FS_CardinalityType
<1>2. IsFiniteSet(D) /\ Cardinality(D) = Cardinality(I)
    BY <1>1, FS_Interval
<1>3. s \in [D -> I] /\ \A j, k \in D : j < k => s[j] < s[k]
    BY DEF Ascending
<1>4. \A j, k \in D : s[j] = s[k] => j = k
  <2> SUFFICES ASSUME NEW j \in D, NEW k \in D, j # k PROVE s[j] # s[k]
    OBVIOUS
  <2>0. s[j] \in I /\ s[k] \in I
    BY <1>3
  <2>1. s[j] \in Int /\ s[k] \in Int
    BY <2>0
  <2>3. j \in Int /\ k \in Int
    BY <1>1
  <2>2. j < k \/ k < j
    BY <2>3
  <2> QED
    BY <1>3, <2>1, <2>2
<1>5. s \in Seq(I) /\ DOMAIN s = D /\ D \subseteq Nat
    BY <1>1, <1>3, FunctionIsSeq
<1> HIDE DEF D
<1>6. s \in Injection(D, I)
    BY <1>3, <1>4 DEF Injection, IsInjective
<1>7. s \in Surjection(D, I)
    BY <1>2, <1>6, FS_Injection
<1> QED
    BY <1>4, <1>5, <1>7 DEF Surjection

\* serviceAccountOwners lists cached instances, by names that differ.
LEMMA OwnersFacts ==
    ASSUME cachedInst \in [Names -> 0..MaxChanges], NEW s \in serviceAccountOwners
    PROVE  s \in Seq(Refs) /\ DistinctNames(s)
<1> DEFINE I == {n \in Names : cachedInst[n] # 0}
<1>1. I \subseteq Int /\ I \subseteq Names
    BY DEF Names
<1>2. IsFiniteSet(I)
  <2>1. IsFiniteSet(Names)
    BY FS_Interval DEF Names
  <2> QED
    BY <1>1, <2>1, FS_Subset
<1>3. \A n \in I : cachedInst[n] \in 1..MaxChanges
    OBVIOUS
<1>4. PICK at \in Ascending(I) : s = [i \in DOMAIN at |-> <<at[i], cachedInst[at[i]]>>]
    BY DEF serviceAccountOwners
<1> HIDE DEF I
<1>5. /\ at \in Seq(I)
      /\ \A j, k \in DOMAIN at : at[j] = at[k] => j = k
    BY <1>1, <1>2, <1>4, AscendingFacts
<1>6. \A i \in DOMAIN at : <<at[i], cachedInst[at[i]]>> \in Refs
  <2>1. \A i \in DOMAIN at : at[i] \in I
    BY <1>5
  <2>2. \A n \in I : <<n, cachedInst[n]>> \in Refs
    BY <1>1, <1>3 DEF Refs
  <2> QED
    BY <2>1, <2>2
<1>7. s \in [1..Len(at) -> Refs]
    BY <1>4, <1>5, <1>6
<1>8. s \in Seq(Refs)
    BY <1>5, <1>7, FunctionIsSeq
<1>9. DistinctNames(s)
    BY <1>4, <1>5 DEF DistinctNames
<1> QED
    BY <1>8, <1>9

\* mergeOwners keeps the names of both lists, each once.
LEMMA MergeFacts ==
    ASSUME NEW cur \in Seq(Refs), NEW desired \in Seq(Refs),
           DistinctNames(cur), DistinctNames(desired),
           NEW s \in mergeOwners(cur, desired)
    PROVE  s \in Seq(Refs) /\ DistinctNames(s) /\ NamesKept(cur, s)
<1> DEFINE kept == {ref \in Refset(cur) : \A d \in Refset(desired) : d[1] # ref[1]}
           all  == kept \cup Refset(desired)
<1>1. /\ IsFiniteSet(Refset(cur)) /\ Refset(cur) \subseteq Refs
      /\ IsFiniteSet(Refset(desired)) /\ Refset(desired) \subseteq Refs
    BY RefsetFinite
<1>2. IsFiniteSet(kept)
    BY <1>1, FS_Subset
<1>3. IsFiniteSet(all) /\ all \subseteq Refs
  <2>1. all \subseteq Refs
    BY <1>1
  <2> HIDE DEF kept
  <2> QED
    BY <1>1, <1>2, <2>1, FS_Union
<1>4. s \in [1..Cardinality(all) -> all] /\ Refset(s) = all
    BY DEF mergeOwners
<1>5. \A a, b \in all : a[1] = b[1] => a = b
  <2>1. \A a, b \in Refset(cur) : a[1] = b[1] => a = b
    BY DEF Refset, DistinctNames
  <2>2. \A a, b \in Refset(desired) : a[1] = b[1] => a = b
    BY DEF Refset, DistinctNames
  <2> QED
    BY <2>1, <2>2
<1>6. \A ref \in Refset(cur) : \E new \in all : new[1] = ref[1]
    OBVIOUS
<1> HIDE DEF all
<1>7. Cardinality(all) \in Nat
    BY <1>3, FS_CardinalityType
<1>8. s \in Seq(Refs) /\ DOMAIN s = 1..Cardinality(all)
    BY <1>3, <1>4, <1>7, FunctionIsSeq
<1>9. DistinctNames(s)
    BY <1>3, <1>4, <1>5, NoRepetition DEF DistinctNames
<1>10. NamesKept(cur, s)
    BY <1>4, <1>6 DEF NamesKept
<1> QED
    BY <1>8, <1>9, <1>10

\* The garbage collector takes the references to what is gone out of the list, and
\* leaves those to live objects.
LEMMA CollectFacts ==
    ASSUME NEW list \in Seq(Refs), DistinctNames(list),
           NEW at \in Ascending({i \in DOMAIN list : Live(list[i])})
    PROVE  LET alive == [k \in DOMAIN at |-> list[at[k]]]
           IN  /\ alive \in Seq(Refs) /\ DistinctNames(alive)
               /\ \A ref \in Refset(list) : Live(ref) => ref \in Refset(alive)
<1> DEFINE I     == {i \in DOMAIN list : Live(list[i])}
           alive == [k \in DOMAIN at |-> list[at[k]]]
<1>1. I \subseteq Int /\ I \subseteq 1..Len(list)
    OBVIOUS
<1>2. IsFiniteSet(I)
    BY <1>1, FS_Interval, FS_Subset
<1>3. at \in Ascending(I)
    OBVIOUS
<1>a. \A i \in I : list[i] \in Refs /\ i \in DOMAIN list
    OBVIOUS
<1>b. \A i \in DOMAIN list : Live(list[i]) => i \in I
    OBVIOUS
<1> HIDE DEF I
<1>4. /\ at \in Seq(I)
      /\ \A j, k \in DOMAIN at : at[j] = at[k] => j = k
      /\ \A x \in I : \E j \in DOMAIN at : at[j] = x
    BY <1>1, <1>2, <1>3, AscendingFacts
<1>5. \A k \in DOMAIN at : at[k] \in I
    BY <1>4
<1>6. alive \in [1..Len(at) -> Refs]
    BY <1>4, <1>5, <1>a
<1>7. alive \in Seq(Refs)
    BY <1>4, <1>6, FunctionIsSeq
<1>8. DistinctNames(alive)
    BY <1>4, <1>5, <1>a DEF DistinctNames
<1>9. \A ref \in Refset(list) : Live(ref) => ref \in Refset(alive)
  <2> SUFFICES ASSUME NEW i \in DOMAIN list, Live(list[i]) PROVE list[i] \in Refset(alive)
    BY DEF Refset
  <2>1. PICK j \in DOMAIN at : at[j] = i
    BY <1>4, <1>b
  <2>2. alive[j] = list[i] /\ j \in DOMAIN alive
    BY <2>1
  <2> QED
    BY <2>2 DEF Refset
<1> QED
    BY <1>7, <1>8, <1>9

----------------------------------------------------------------------------
(* The inductive invariant. *)

\* Lists that were read, cached or made for writing have no name twice.
OwnersInv == /\ DistinctNames(sa.owners) /\ DistinctNames(cachedSA.owners)
             /\ \A n \in Names : DistinctNames(owners[n])

\* Only a ServiceAccount of the controller has owners.
ManagerInv == /\ sa.manager # "triggermesh" => DOMAIN sa.owners = {}
              /\ cachedSA.manager # "triggermesh" => DOMAIN cachedSA.owners = {}

\* A copy with the latest resourceVersion is what the API server has, and a list
\* made from such a copy, about to be written, has all the names of the current one.
CacheInv  == cacheCurrent => cachedSA = sa
UpdateInv == \A n \in Names : pc[n] = "update" /\ current[n] =>
                /\ sa.manager = "triggermesh"
                /\ NamesKept(sa.owners, owners[n])

Inv == /\ TypeOK
       /\ OwnersInv
       /\ ManagerInv
       /\ CacheInv
       /\ UpdateInv

\* The empty list.
LEMMA EmptyList ==
    /\ <<>> \in Seq(Refs) /\ DOMAIN <<>> = {} /\ DistinctNames(<<>>)
    /\ NoSA \in [manager : Managers, owners : Seq(Refs)]
    /\ NoSA.owners = <<>> /\ NoSA.manager = "absent"
<1>1. <<>> \in Seq(Refs) /\ DOMAIN <<>> = {}
    OBVIOUS
<1>2. DistinctNames(<<>>)
    BY DEF DistinctNames
<1> QED
    BY <1>1, <1>2 DEF NoSA, Managers

\* The invariant holds before any instance was made.
LEMMA InitInv == Init => Inv
<1> SUFFICES ASSUME Init PROVE Inv
    OBVIOUS
<1>1. sa = NoSA /\ cachedSA = NoSA /\ \A n \in Names : owners[n] = <<>> /\ pc[n] = "idle"
    BY DEF Init
<1>2. TypeOK
    BY <1>1, EmptyList DEF Init, TypeOK
<1>3. OwnersInv /\ ManagerInv /\ CacheInv
    BY <1>1, EmptyList DEF OwnersInv, ManagerInv, CacheInv
<1>4. UpdateInv
    BY <1>1 DEF UpdateInv
<1> QED
    BY <1>2, <1>3, <1>4 DEF Inv

\* A write outdates every copy: only what was written matters.
LEMMA WriteKeepsInv ==
    ASSUME Inv, TypeOK', NEW new, Write(new),
           DistinctNames(new.owners),
           new.manager # "triggermesh" => DOMAIN new.owners = {},
           UNCHANGED cachedSA,
           \A n \in Names : owners'[n] \in {owners[n], <<>>}
    PROVE  Inv'
<1>1. sa' = new /\ cacheCurrent' = FALSE /\ \A n \in Names : current'[n] = FALSE
    BY DEF Write
<1>2. OwnersInv'
  <2>1. \A n \in Names : DistinctNames(owners'[n])
    BY EmptyList DEF Inv, OwnersInv
  <2> QED
    BY <1>1, <2>1 DEF Inv, OwnersInv
<1>3. ManagerInv'
    BY <1>1 DEF Inv, ManagerInv
<1>4. CacheInv' /\ UpdateInv'
    BY <1>1 DEF CacheInv, UpdateInv
<1> QED
    BY <1>2, <1>3, <1>4 DEF Inv

\* Workers that go somewhere else than to a write, or stay where they are, with lists
\* that have no name twice.
LEMMA WorkersKeepInv ==
    ASSUME Inv, TypeOK', UNCHANGED <<sa, cachedSA, cacheCurrent>>,
           \A n \in Names :
              \/ pc'[n] = pc[n] /\ owners'[n] = owners[n] /\ current'[n] = current[n]
              \/ pc'[n] # "update" /\ DistinctNames(owners'[n])
    PROVE  Inv'
<1>1. OwnersInv'
    BY DEF Inv, OwnersInv
<1>2. ManagerInv' /\ CacheInv'
    BY DEF Inv, ManagerInv, CacheInv
<1>3. UpdateInv'
    BY DEF Inv, UpdateInv
<1> QED
    BY <1>1, <1>2, <1>3 DEF Inv

\* Instances come and go, and the informer follows.
LEMMA InstanceSteps ==
    ASSUME Inv, NEW n \in Names, CreateInstance(n) \/ DeleteInstance(n) \/ SyncInstance(n)
    PROVE  Inv'
<1>1. UNCHANGED <<sa, cachedSA, cacheCurrent, pc, owners, current, errors>>
    BY DEF CreateInstance, DeleteInstance, SyncInstance, workerVars
<1>2. /\ uid' \in [Names -> 0..MaxChanges] /\ uids' \in 0..MaxChanges
      /\ cachedInst' \in [Names -> 0..MaxChanges]
  <2>0. /\ uid \in [Names -> 0..MaxChanges] /\ uids \in 0..MaxChanges
        /\ cachedInst \in [Names -> 0..MaxChanges] /\ errors \in 0..MaxChanges
    BY DEF Inv, TypeOK
  <2>1. CASE CreateInstance(n)
    BY <2>0, <2>1 DEF CreateInstance
  <2>2. CASE DeleteInstance(n)
    BY <2>0, <2>2 DEF DeleteInstance
  <2>3. CASE SyncInstance(n)
    BY <2>0, <2>3 DEF SyncInstance
  <2> QED
    BY <2>1, <2>2, <2>3
<1>3. TypeOK'
    BY <1>1, <1>2 DEF Inv, TypeOK
<1> QED
    BY <1>1, <1>3, WorkersKeepInv

\* The informer catches up with the API server: workers' copies are not concerned.
LEMMA SyncSAStep == ASSUME Inv, SyncSA PROVE Inv'
<1>1. /\ cacheCurrent' = TRUE /\ cachedSA' = sa
      /\ UNCHANGED <<uid, uids, cachedInst, sa, pc, owners, current, errors>>
    BY DEF SyncSA, instVars, workerVars
<1>2. TypeOK'
    BY <1>1 DEF Inv, TypeOK
<1>3. OwnersInv' /\ ManagerInv' /\ CacheInv'
    BY <1>1 DEF Inv, OwnersInv, ManagerInv, CacheInv
<1>4. UpdateInv'
    BY <1>1 DEF Inv, UpdateInv
<1> QED
    BY <1>2, <1>3, <1>4 DEF Inv

\* What a write does to the types.
LEMMA WriteType ==
    ASSUME TypeOK, NEW new \in [manager : Managers, owners : Seq(Refs)], Write(new),
           UNCHANGED <<uid, uids, cachedInst, cachedSA>>,
           pc' \in [Names -> {"idle", "list", "get", "create", "update", "nil"}],
           owners' \in [Names -> Seq(Refs)], errors' \in 0..MaxChanges
    PROVE  TypeOK'
<1>1. /\ sa' \in [manager : Managers, owners : Seq(Refs)]
      /\ cacheCurrent' \in BOOLEAN /\ current' \in [Names -> BOOLEAN]
    BY DEF Write
<1> QED
    BY <1>1 DEF TypeOK

\* A user makes the ServiceAccount, without owners.
LEMMA CreateUserSAStep == ASSUME Inv, CreateUserSA PROVE Inv'
<1> DEFINE new == [manager |-> "user", owners |-> <<>>]
<1>1. /\ Write(new) /\ errors' = errors + 1 /\ uids + errors < MaxChanges
      /\ UNCHANGED <<uid, uids, cachedInst, cachedSA, pc, owners>>
    BY DEF CreateUserSA, instVars
<1>2. /\ new \in [manager : Managers, owners : Seq(Refs)]
      /\ new.owners = <<>>
    BY EmptyList DEF Managers
<1>3. errors' \in 0..MaxChanges
    BY <1>1 DEF Inv, TypeOK
<1> HIDE DEF new
<1>4. TypeOK'
  <2>1. /\ TypeOK
        /\ pc' \in [Names -> {"idle", "list", "get", "create", "update", "nil"}]
        /\ owners' \in [Names -> Seq(Refs)]
    BY <1>1 DEF Inv, TypeOK
  <2> QED
    BY <1>1, <1>2, <1>3, <2>1, WriteType
<1> QED
    BY <1>1, <1>2, <1>4, EmptyList, WriteKeepsInv

\* The garbage collector writes the references that are left, or removes the object.
LEMMA CollectStep == ASSUME Inv, Collect PROVE Inv'
<1> DEFINE Alive(at) == [k \in DOMAIN at |-> sa.owners[at[k]]]
           After(at) == IF at = <<>> THEN NoSA ELSE [sa EXCEPT !.owners = Alive(at)]
<1>0. /\ sa \in [manager : Managers, owners : Seq(Refs)]
      /\ sa.owners \in Seq(Refs) /\ DistinctNames(sa.owners)
    BY DEF Inv, TypeOK, OwnersInv
<1>1. PICK at \in Ascending({i \in DOMAIN sa.owners : Live(sa.owners[i])}) : Write(After(at))
    BY DEF Collect
<1>2. /\ UNCHANGED <<uid, uids, cachedInst, cachedSA, pc, owners, errors>>
      /\ \E i \in DOMAIN sa.owners : TRUE
    BY DEF Collect, instVars
<1>3. Alive(at) \in Seq(Refs) /\ DistinctNames(Alive(at))
    BY <1>0, CollectFacts
<1>4. sa.manager = "triggermesh"
    BY <1>2 DEF Inv, ManagerInv
<1> HIDE DEF Alive
<1>5. /\ After(at) \in [manager : Managers, owners : Seq(Refs)]
      /\ DistinctNames(After(at).owners)
      /\ After(at).manager # "triggermesh" => DOMAIN After(at).owners = {}
  <2>1. CASE at = <<>>
    BY <2>1, EmptyList
  <2>2. CASE at # <<>>
    BY <1>0, <1>3, <1>4, <2>2
  <2> QED
    BY <2>1, <2>2
<1> HIDE DEF After
<1>6. TypeOK'
  <2>1. /\ TypeOK
        /\ pc' \in [Names -> {"idle", "list", "get", "create", "update", "nil"}]
        /\ owners' \in [Names -> Seq(Refs)] /\ errors' \in 0..MaxChanges
    BY <1>2 DEF Inv, TypeOK
  <2> QED
    BY <1>1, <1>2, <1>5, <2>1, WriteType
<1> QED
    BY <1>1, <1>2, <1>5, <1>6, WriteKeepsInv

\* A worker is given its instance.
LEMMA GetInstanceStep == ASSUME Inv, NEW n \in Names, GetInstance(n) PROVE Inv'
<1>1. /\ UNCHANGED <<uid, uids, cachedInst, sa, cachedSA, cacheCurrent, owners, current, errors>>
      /\ pc' = [pc EXCEPT ![n] = "list"]
    BY DEF GetInstance, Goto, instVars
<1>2. TypeOK'
    BY <1>1 DEF Inv, TypeOK
<1>3. \A m \in Names :
         \/ pc'[m] = pc[m] /\ owners'[m] = owners[m] /\ current'[m] = current[m]
         \/ pc'[m] # "update" /\ DistinctNames(owners'[m])
    BY <1>1 DEF Inv, TypeOK, OwnersInv
<1> QED
    BY <1>1, <1>2, <1>3, WorkersKeepInv

\* A worker lists the cached instances.
LEMMA ListOwnersStep == ASSUME Inv, NEW n \in Names, ListOwners(n) PROVE Inv'
<1>1. PICK s \in serviceAccountOwners :
         /\ owners' = [owners EXCEPT ![n] = s]
         /\ Goto(n, IF s = <<>> THEN "nil" ELSE "get")
    BY DEF ListOwners
<1>2. UNCHANGED <<uid, uids, cachedInst, sa, cachedSA, cacheCurrent, current, errors>>
    BY DEF ListOwners, instVars
<1>3. s \in Seq(Refs) /\ DistinctNames(s)
    BY OwnersFacts DEF Inv, TypeOK
<1>4. PICK step \in {"nil", "get"} : pc' = [pc EXCEPT ![n] = step]
    BY <1>1 DEF Goto
<1>5. TypeOK'
    BY <1>1, <1>2, <1>3, <1>4 DEF Inv, TypeOK
<1>6. \A m \in Names :
         \/ pc'[m] = pc[m] /\ owners'[m] = owners[m] /\ current'[m] = current[m]
         \/ pc'[m] # "update" /\ DistinctNames(owners'[m])
    BY <1>1, <1>2, <1>3, <1>4 DEF Inv, TypeOK
<1> QED
    BY <1>2, <1>5, <1>6, WorkersKeepInv

\* A worker gives up or is done, wherever it was.
LEMMA ReturnStep ==
    ASSUME Inv, NEW n \in Names, Return(n),
           UNCHANGED <<uid, uids, cachedInst, sa, cachedSA, cacheCurrent>>,
           errors' \in 0..MaxChanges,
           current' = current \/ current' = [current EXCEPT ![n] = FALSE]
    PROVE  Inv'
<1>1. /\ pc' = [pc EXCEPT ![n] = "idle"]
      /\ owners' = [owners EXCEPT ![n] = <<>>]
    BY DEF Return, Goto
<1>2. /\ pc' \in [Names -> {"idle", "list", "get", "create", "update", "nil"}]
      /\ owners' \in [Names -> Seq(Refs)]
    BY <1>1, EmptyList DEF Inv, TypeOK
<1>3. current' \in [Names -> BOOLEAN]
    BY DEF Inv, TypeOK
<1>4. TypeOK'
    BY <1>2, <1>3 DEF Inv, TypeOK
<1>5. \A m \in Names :
         \/ pc'[m] = pc[m] /\ owners'[m] = owners[m] /\ current'[m] = current[m]
         \/ pc'[m] # "update" /\ DistinctNames(owners'[m])
  <2> SUFFICES ASSUME NEW m \in Names
               PROVE  \/ pc'[m] = pc[m] /\ owners'[m] = owners[m] /\ current'[m] = current[m]
                      \/ pc'[m] # "update" /\ DistinctNames(owners'[m])
    OBVIOUS
  <2>1. CASE m = n
    BY <1>1, <2>1, EmptyList DEF Inv, TypeOK
  <2>2. CASE m # n
    BY <1>1, <2>2 DEF Inv, TypeOK
  <2> QED
    BY <2>1, <2>2
<1> QED
    BY <1>4, <1>5, WorkersKeepInv

\* A worker reads the ServiceAccount from the informer and decides what to do with it.
\* When its copy is current, what it is about to write keeps every name.
LEMMA GetSAStep == ASSUME Inv, NEW n \in Names, GetSA(n) PROVE Inv'
<1>1. UNCHANGED <<uid, uids, cachedInst, sa, cachedSA, cacheCurrent, errors>>
    BY DEF GetSA, instVars
<1>2. CASE cachedSA.manager = "absent"
  <2>1. pc' = [pc EXCEPT ![n] = "create"] /\ UNCHANGED <<owners, current>>
    BY <1>2 DEF GetSA, Goto
  <2>2. TypeOK'
    BY <1>1, <2>1 DEF Inv, TypeOK
  <2>3. \A m \in Names :
           \/ pc'[m] = pc[m] /\ owners'[m] = owners[m] /\ current'[m] = current[m]
           \/ pc'[m] # "update" /\ DistinctNames(owners'[m])
    BY <2>1 DEF Inv, TypeOK, OwnersInv
  <2> QED
    BY <1>1, <2>2, <2>3, WorkersKeepInv
<1>3. CASE Return(n) /\ UNCHANGED current
  <2>1. errors' \in 0..MaxChanges
    BY <1>1 DEF Inv, TypeOK
  <2> QED
    BY <1>1, <1>3, <2>1, ReturnStep
<1>4. CASE /\ cachedSA.manager = "triggermesh"
           /\ pc' = [pc EXCEPT ![n] = "update"]
           /\ \E s \in mergeOwners(cachedSA.owners, owners[n]) :
                 owners' = [owners EXCEPT ![n] = s]
           /\ current' = [current EXCEPT ![n] = cacheCurrent]
  <2>1. PICK s \in mergeOwners(cachedSA.owners, owners[n]) :
           owners' = [owners EXCEPT ![n] = s]
    BY <1>4
  <2>2. /\ cachedSA.owners \in Seq(Refs) /\ DistinctNames(cachedSA.owners)
        /\ owners[n] \in Seq(Refs) /\ DistinctNames(owners[n])
        /\ cachedSA.manager = "triggermesh"
    BY <1>4 DEF Inv, TypeOK, OwnersInv, Managers
  <2>3. s \in Seq(Refs) /\ DistinctNames(s) /\ NamesKept(cachedSA.owners, s)
    BY <2>2, MergeFacts
  <2>4. /\ pc' \in [Names -> {"idle", "list", "get", "create", "update", "nil"}]
        /\ owners' \in [Names -> Seq(Refs)]
    BY <1>4, <2>1, <2>3 DEF Inv, TypeOK
  <2>5. current' \in [Names -> BOOLEAN]
    BY <1>4 DEF Inv, TypeOK
  <2>6. TypeOK'
    BY <1>1, <2>4, <2>5 DEF Inv, TypeOK
  <2>7. \A m \in Names :
           IF m = n THEN owners'[m] = s /\ (current'[m] <=> cacheCurrent)
                    ELSE owners'[m] = owners[m] /\ pc'[m] = pc[m] /\ current'[m] = current[m]
    BY <1>4, <2>1 DEF Inv, TypeOK
  <2>8. OwnersInv' /\ ManagerInv' /\ CacheInv'
    BY <1>1, <2>3, <2>7 DEF Inv, OwnersInv, ManagerInv, CacheInv
  <2>9. UpdateInv'
    <3> SUFFICES ASSUME NEW m \in Names, pc'[m] = "update", current'[m]
                 PROVE  sa'.manager = "triggermesh" /\ NamesKept(sa'.owners, owners'[m])
      BY DEF UpdateInv, NamesKept, Refset
    <3>1. CASE m = n
      BY <1>1, <2>2, <2>3, <2>7, <3>1 DEF Inv, CacheInv
    <3>2. CASE m # n
      BY <1>1, <2>7, <3>2 DEF Inv, UpdateInv
    <3> QED
      BY <3>1, <3>2
  <2> QED
    BY <2>6, <2>8, <2>9 DEF Inv
<1> QED
    BY <1>2, <1>3, <1>4 DEF GetSA, Goto

\* The API server accepts a write.
LEMMA PutSAStep == ASSUME Inv, NEW n \in Names, PutSA(n) PROVE Inv'
<1> DEFINE new == [manager |-> "triggermesh", owners |-> owners[n]]
<1>1. /\ Write(new) /\ UNCHANGED <<uid, uids, cachedInst, cachedSA, errors>>
      /\ pc' = [pc EXCEPT ![n] = "idle"]
      /\ owners' = [owners EXCEPT ![n] = <<>>]
    BY DEF PutSA, Return, Goto, instVars
<1>2. /\ new \in [manager : Managers, owners : Seq(Refs)]
      /\ DistinctNames(new.owners) /\ new.manager = "triggermesh"
    BY DEF Inv, TypeOK, OwnersInv, Managers
<1> HIDE DEF new
<1>3. TypeOK'
  <2>1. /\ TypeOK
        /\ pc' \in [Names -> {"idle", "list", "get", "create", "update", "nil"}]
        /\ owners' \in [Names -> Seq(Refs)] /\ errors' \in 0..MaxChanges
    BY <1>1, EmptyList DEF Inv, TypeOK
  <2> QED
    BY <1>1, <1>2, <2>1, WriteType
<1>4. \A m \in Names : owners'[m] \in {owners[m], <<>>}
    BY <1>1 DEF Inv, TypeOK
<1> QED
    BY <1>1, <1>2, <1>3, <1>4, WriteKeepsInv

\* A write is refused, or something else goes wrong.
LEMMA FailureSteps == ASSUME Inv, NEW n \in Names, Refused(n) \/ Error(n) PROVE Inv'
<1>1. /\ Return(n) /\ current' = [current EXCEPT ![n] = FALSE]
      /\ UNCHANGED <<uid, uids, cachedInst, sa, cachedSA, cacheCurrent>>
    BY DEF Refused, Error, instVars
<1>2. errors' \in 0..MaxChanges
    BY DEF Refused, Error, Inv, TypeOK
<1> QED
    BY <1>1, <1>2, ReturnStep

\* After a restart the caches are current and no worker is busy.
LEMMA RestartStep == ASSUME Inv, Restart, errors' \in 0..MaxChanges PROVE Inv'
<1>1. /\ UNCHANGED <<uid, uids, sa>>
      /\ cachedInst' = uid /\ cachedSA' = sa /\ cacheCurrent' = TRUE
      /\ current' = [n \in Names |-> FALSE]
      /\ pc' = [n \in Names |-> "idle"] /\ owners' = [n \in Names |-> <<>>]
    BY DEF Restart
<1>2. TypeOK'
  <2>1. /\ pc' \in [Names -> {"idle", "list", "get", "create", "update", "nil"}]
        /\ owners' \in [Names -> Seq(Refs)]
    BY <1>1, EmptyList
  <2>2. current' \in [Names -> BOOLEAN]
    BY <1>1
  <2> QED
    BY <1>1, <2>1, <2>2 DEF Inv, TypeOK
<1>3. OwnersInv'
    BY <1>1, EmptyList DEF Inv, OwnersInv
<1>4. ManagerInv' /\ CacheInv'
    BY <1>1 DEF Inv, ManagerInv, CacheInv
<1>5. UpdateInv'
    BY <1>1 DEF UpdateInv
<1> QED
    BY <1>2, <1>3, <1>4, <1>5 DEF Inv

\* The invariant is inductive.
LEMMA InvNext == Inv /\ [Next]_vars => Inv'
<1> SUFFICES ASSUME Inv, [Next]_vars PROVE Inv'
    OBVIOUS
<1>1. ASSUME NEW n \in Names, Work(n) PROVE Inv'
  <2>1. CASE Panic(n)
    <3>1. Restart /\ errors' \in 0..MaxChanges
      BY <2>1 DEF Panic, Inv, TypeOK
    <3> QED
      BY <3>1, RestartStep
  <2> QED
    BY <1>1, <2>1, GetInstanceStep, ListOwnersStep, GetSAStep, PutSAStep, FailureSteps DEF Work
<1>2. CASE Crash
  <2>1. Restart /\ errors' \in 0..MaxChanges
    BY <1>2 DEF Crash, Inv, TypeOK
  <2> QED
    BY <2>1, RestartStep
<1>3. CASE UNCHANGED vars
  <2>1. UNCHANGED <<uid, uids, cachedInst, sa, cachedSA, cacheCurrent, pc, owners, current, errors>>
    BY <1>3 DEF vars, instVars, workerVars
  <2>2. TypeOK'
    BY <2>1 DEF Inv, TypeOK
  <2> QED
    BY <2>1, <2>2, WorkersKeepInv
<1> QED
    BY <1>1, <1>2, <1>3, InstanceSteps, FailureSteps, SyncSAStep, CreateUserSAStep, CollectStep
    DEF Next

\* The inductive invariant holds in every reachable state.
THEOREM Invariance == Spec => []Inv
BY InitInv, InvNext, PTL DEF Spec

----------------------------------------------------------------------------
(* Results. *)

\* Every variable keeps its type, the lists of owners among them.
THEOREM TypeCorrect == Spec => []TypeOK
<1>1. Inv => TypeOK
    BY DEF Inv
<1> QED
    BY <1>1, Invariance, PTL

\* The ServiceAccount never lists an instance name twice, for any number of instances
\* and workers, whatever copies were merged (mergeOwners).
THEOREM OwnersDistinct == Spec => []NoDuplicateOwner
<1>1. Inv => NoDuplicateOwner
    BY DEF Inv, OwnersInv, DistinctNames, NoDuplicateOwner
<1> QED
    BY <1>1, Invariance, PTL

\* A step that writes the ServiceAccount is one of these.
LEMMA Writers ==
    ASSUME [Next]_vars
    PROVE  sa' = sa \/ CreateUserSA \/ Collect \/ \E n \in Names : PutSA(n)
BY DEF Next, Work, CreateInstance, DeleteInstance, SyncInstance, SyncSA, GetInstance, ListOwners,
       GetSA, Refused, Error, Panic, Crash, Restart, vars, instVars

\* No worker takes a live instance out of the list when it writes the whole list from
\* its own caches, and the garbage collector does not either.
THEOREM OwnersKept == Spec => NoOwnerLost
<1> DEFINE Kept == \A ref \in Refset(sa.owners) :
                      Live(ref) /\ sa'.owners # <<>> =>
                         \E new \in Refset(sa'.owners) : new[1] = ref[1]
<1>1. Inv /\ [Next]_vars => Kept
  <2> SUFFICES ASSUME Inv, [Next]_vars PROVE Kept
    OBVIOUS
  <2>1. CASE sa' = sa
    BY <2>1
  <2>2. CASE CreateUserSA
    BY <2>2 DEF CreateUserSA, NoSA, Refset
  <2>3. CASE Collect
    <3> DEFINE Alive(at) == [k \in DOMAIN at |-> sa.owners[at[k]]]
    <3>1. PICK at \in Ascending({i \in DOMAIN sa.owners : Live(sa.owners[i])}) :
             Write(IF at = <<>> THEN NoSA ELSE [sa EXCEPT !.owners = Alive(at)])
      BY <2>3 DEF Collect
    <3>2. \A ref \in Refset(sa.owners) : Live(ref) => ref \in Refset(Alive(at))
      BY CollectFacts DEF Inv, TypeOK, OwnersInv
    <3> HIDE DEF Alive
    <3>3. sa'.owners # <<>> => sa'.owners = Alive(at)
      BY <3>1, EmptyList DEF Write, Inv, TypeOK
    <3> QED
      BY <3>2, <3>3
  <2>4. ASSUME NEW n \in Names, PutSA(n) PROVE Kept
    <3>1. sa'.owners = owners[n] /\ Accepted(n)
      BY <2>4 DEF PutSA, Write
    <3>2. sa = NoSA \/ NamesKept(sa.owners, owners[n])
      BY <3>1 DEF Accepted, Inv, UpdateInv
    <3> QED
      BY <3>1, <3>2 DEF NamesKept, NoSA, Refset
  <2> QED
    BY <2>1, <2>2, <2>3, <2>4, Writers
<1> QED
    BY <1>1, Invariance, PTL DEF Spec, NoOwnerLost

\* Neither a worker, with whatever copy, nor the garbage collector touches a
\* ServiceAccount that a user made.
THEOREM UsersAccountIsKept == Spec => UserAccountKept
<1>1. Inv /\ [Next]_vars => (sa.manager = "user" => sa' = sa)
  <2> SUFFICES ASSUME Inv, [Next]_vars, sa.manager = "user" PROVE sa' = sa
    OBVIOUS
  <2>1. sa # NoSA /\ DOMAIN sa.owners = {}
    BY EmptyList DEF Inv, ManagerInv
  <2>2. ~CreateUserSA /\ ~Collect
    BY <2>1 DEF CreateUserSA, Collect
  <2>3. \A n \in Names : ~PutSA(n)
    BY <2>1 DEF PutSA, Accepted, Inv, UpdateInv
  <2> QED
    BY <2>2, <2>3, Writers
<1> QED
    BY <1>1, Invariance, PTL DEF Spec, UserAccountKept

----------------------------------------------------------------------------
(* The controller's ServiceAccount is always owned. *)

\* A ServiceAccount that the controller made lists an owner: Kubernetes would never
\* collect one without.
NeverUnowned == sa.manager = "triggermesh" => sa.owners # <<>>

\* What makes it inductive: the informer's copies and the lists that are to be
\* written are not empty either.
OwnedInv ==
    /\ NeverUnowned
    /\ cachedSA.manager = "triggermesh" => cachedSA.owners # <<>>
    /\ \A n \in Names : pc[n] \in {"get", "create", "update"} => owners[n] # <<>>

\* When the last instance is gone, the garbage collector finds the ServiceAccount that
\* was shared: "we don't need to clean things up explicitly" (reconcile.go:291-292).
Collectable ==
    sa.manager = "triggermesh" /\ (\A n \in Names : uid[n] = 0)
        => \E i \in DOMAIN sa.owners : ~Live(sa.owners[i])

\* An existing instance that the ServiceAccount lists stays listed under its name, and
\* the ServiceAccount is not collected: NoOwnerLost with nothing left out.
OwnerStays ==
    [][\A ref \in Refset(sa.owners) :
          Live(ref) => \E new \in Refset(sa'.owners) : new[1] = ref[1]]_vars

\* A list of owners is empty when its domain is.
LEMMA EmptyDomain ==
    ASSUME NEW s \in Seq(Refs)
    PROVE  /\ s = <<>> <=> DOMAIN s = {}
           /\ s = <<>> <=> Refset(s) = {}
BY DEF Refset

\* Every step of a worker keeps its list from being empty until it is written.
LEMMA OwnedNext == Inv /\ OwnedInv /\ [Next]_vars => OwnedInv'
<1> SUFFICES ASSUME Inv, OwnedInv, [Next]_vars PROVE OwnedInv'
    OBVIOUS
<1>0. /\ pc \in [Names -> {"idle", "list", "get", "create", "update", "nil"}]
      /\ owners \in [Names -> Seq(Refs)]
      /\ sa \in [manager : Managers, owners : Seq(Refs)]
      /\ cachedSA \in [manager : Managers, owners : Seq(Refs)]
    BY DEF Inv, TypeOK
\* A worker that stops writes nothing.
<1>1. ASSUME NEW n \in Names, Return(n), sa' = sa \/ NeverUnowned', UNCHANGED cachedSA
      PROVE  OwnedInv'
    BY <1>0, <1>1 DEF Return, Goto, OwnedInv, NeverUnowned
<1>2. ASSUME NEW n \in Names, CreateInstance(n) \/ DeleteInstance(n) \/ SyncInstance(n)
      PROVE  OwnedInv'
    BY <1>2 DEF CreateInstance, DeleteInstance, SyncInstance, workerVars, OwnedInv, NeverUnowned
<1>3. CASE SyncSA
    BY <1>3 DEF SyncSA, workerVars, OwnedInv, NeverUnowned
<1>4. CASE CreateUserSA
  <2>1. sa'.manager = "user" /\ UNCHANGED <<cachedSA, pc, owners>>
      BY <1>4 DEF CreateUserSA, Write
  <2> QED
      BY <2>1 DEF OwnedInv, NeverUnowned
<1>5. CASE Collect
  <2> DEFINE Alive(at) == [k \in DOMAIN at |-> sa.owners[at[k]]]
             I         == {i \in DOMAIN sa.owners : Live(sa.owners[i])}
  <2>1. PICK at \in Ascending(I) :
           sa' = IF at = <<>> THEN NoSA ELSE [sa EXCEPT !.owners = Alive(at)]
      BY <1>5 DEF Collect, Write
  <2>2. at \in Seq(I)
    <3>1. I \subseteq 1..Len(sa.owners) /\ I \subseteq Int
        BY <1>0
    <3>2. IsFiniteSet(1..Len(sa.owners))
        BY <1>0, FS_Interval
    <3> HIDE DEF I
    <3>3. IsFiniteSet(I)
        BY <3>1, <3>2, FS_Subset
    <3> QED
        BY <3>1, <3>3, AscendingFacts
  <2>3. at # <<>> => Alive(at) # <<>>
    <3>1. at # <<>> => 1 \in DOMAIN at
        BY <2>2
    <3> QED
        BY <3>1
  <2> HIDE DEF Alive
  <2>4. NeverUnowned'
    <3>1. CASE at = <<>>
        BY <2>1, <3>1 DEF NeverUnowned, NoSA
    <3>2. CASE at # <<>>
        BY <1>0, <2>1, <2>3, <3>2 DEF NeverUnowned
    <3> QED
        BY <3>1, <3>2
  <2>5. UNCHANGED <<cachedSA, pc, owners>>
      BY <1>5 DEF Collect
  <2> QED
      BY <2>4, <2>5 DEF OwnedInv
<1>6. ASSUME NEW n \in Names, GetInstance(n) PROVE OwnedInv'
    BY <1>0, <1>6 DEF GetInstance, Goto, OwnedInv, NeverUnowned
<1>7. ASSUME NEW n \in Names, ListOwners(n) PROVE OwnedInv'
  <2>1. PICK s \in serviceAccountOwners :
           /\ owners' = [owners EXCEPT ![n] = s]
           /\ pc' = [pc EXCEPT ![n] = IF s = <<>> THEN "nil" ELSE "get"]
      BY <1>7 DEF ListOwners, Goto
  <2>2. UNCHANGED <<sa, cachedSA>>
      BY <1>7 DEF ListOwners
  <2> QED
      BY <1>0, <2>1, <2>2 DEF OwnedInv, NeverUnowned
<1>8. ASSUME NEW n \in Names, GetSA(n) PROVE OwnedInv'
  <2>1. UNCHANGED <<sa, cachedSA>> /\ pc[n] = "get"
      BY <1>8 DEF GetSA
  <2>2. CASE Return(n)
      BY <1>1, <2>1, <2>2
  <2>3. CASE pc' = [pc EXCEPT ![n] = "create"] /\ UNCHANGED owners
      BY <1>0, <2>1, <2>3 DEF OwnedInv, NeverUnowned
  <2>4. CASE /\ pc' = [pc EXCEPT ![n] = "update"]
             /\ \E s \in mergeOwners(cachedSA.owners, owners[n]) :
                   owners' = [owners EXCEPT ![n] = s]
    <3>1. PICK s \in mergeOwners(cachedSA.owners, owners[n]) :
             owners' = [owners EXCEPT ![n] = s]
        BY <2>4
    <3>2. owners[n] # <<>> /\ owners[n] \in Seq(Refs)
        BY <1>0, <2>1 DEF OwnedInv
    <3>3. Refset(owners[n]) \subseteq Refset(s)
        BY DEF mergeOwners
    <3>4. s # <<>>
        BY <3>2, <3>3, EmptyDomain DEF Refset
    <3> QED
        BY <1>0, <2>1, <2>4, <3>1, <3>4 DEF OwnedInv, NeverUnowned
  <2> QED
      BY <1>8, <2>2, <2>3, <2>4 DEF GetSA, Goto
<1>9. ASSUME NEW n \in Names, PutSA(n) PROVE OwnedInv'
  <2>1. Return(n) /\ UNCHANGED cachedSA /\ sa'.owners = owners[n] /\ pc[n] \in {"create", "update"}
      BY <1>9 DEF PutSA, Write, Accepted
  <2>2. NeverUnowned'
      BY <2>1 DEF OwnedInv, NeverUnowned
  <2> QED
      BY <1>1, <2>1, <2>2
<1>10. ASSUME NEW n \in Names, Refused(n) \/ Error(n) PROVE OwnedInv'
    BY <1>1, <1>10 DEF Refused, Error
<1>11. CASE Restart
    BY <1>11 DEF Restart, OwnedInv, NeverUnowned
<1>12. CASE UNCHANGED vars
    BY <1>12 DEF vars, workerVars, OwnedInv, NeverUnowned
<1> QED
    BY <1>2, <1>3, <1>4, <1>5, <1>6, <1>7, <1>8, <1>9, <1>10, <1>11, <1>12
    DEF Next, Work, Panic, Crash

LEMMA OwnedInvariance == Spec => []OwnedInv
<1>1. Init => OwnedInv
    BY EmptyList DEF Init, OwnedInv, NeverUnowned
<1> QED
    BY <1>1, OwnedNext, Invariance, PTL DEF Spec

\* No worker ever leaves a ServiceAccount of the controller without owners.
THEOREM AlwaysOwned == Spec => []NeverUnowned
<1>1. OwnedInv => NeverUnowned
    BY DEF OwnedInv
<1> QED
    BY <1>1, OwnedInvariance, PTL

\* The garbage collector always finds what the last instance left.
THEOREM OrphanIsCollectable == Spec => []Collectable
<1>1. Inv /\ OwnedInv => Collectable
  <2> SUFFICES ASSUME Inv, OwnedInv, sa.manager = "triggermesh", \A n \in Names : uid[n] = 0
               PROVE  \E i \in DOMAIN sa.owners : ~Live(sa.owners[i])
      BY DEF Collectable
  <2>1. sa.owners \in Seq(Refs) /\ sa.owners # <<>>
      BY DEF Inv, TypeOK, OwnedInv, NeverUnowned
  <2>2. 1 \in DOMAIN sa.owners /\ sa.owners[1] \in Refs
      BY <2>1
  <2>3. sa.owners[1][1] \in Names /\ sa.owners[1][2] \in 1..MaxChanges
      BY <2>2 DEF Refs
  <2>4. ~Live(sa.owners[1])
      BY <2>3 DEF Live
  <2> QED
      BY <2>2, <2>4
<1> QED
    BY <1>1, OwnedInvariance, Invariance, PTL

\* A listed instance that exists is neither dropped from the list nor loses the
\* ServiceAccount, whichever worker or collector writes it.
THEOREM ListedInstanceStays == Spec => OwnerStays
<1> DEFINE Kept  == \A ref \in Refset(sa.owners) :
                       Live(ref) /\ sa'.owners # <<>> =>
                          \E new \in Refset(sa'.owners) : new[1] = ref[1]
           Stays == \A ref \in Refset(sa.owners) :
                       Live(ref) => \E new \in Refset(sa'.owners) : new[1] = ref[1]
<1>1. Inv /\ OwnedInv /\ Next => (Kept => Stays)
  <2> SUFFICES ASSUME Inv, OwnedInv, Next, NEW ref \in Refset(sa.owners), Live(ref)
               PROVE  sa'.owners # <<>>
      OBVIOUS
  <2>0. sa.owners \in Seq(Refs)
      BY DEF Inv, TypeOK
  <2>1. sa.owners # <<>> /\ \E i \in DOMAIN sa.owners : Live(sa.owners[i])
      BY <2>0, EmptyDomain DEF Refset
  <2>2. CASE sa' = sa
      BY <2>1, <2>2
  <2>3. CASE CreateUserSA
      BY <2>1, <2>3 DEF CreateUserSA, NoSA
  <2>4. CASE Collect
    <3> DEFINE Alive(at) == [k \in DOMAIN at |-> sa.owners[at[k]]]
               I         == {i \in DOMAIN sa.owners : Live(sa.owners[i])}
    <3>1. PICK at \in Ascending(I) :
             sa' = IF at = <<>> THEN NoSA ELSE [sa EXCEPT !.owners = Alive(at)]
        BY <2>4 DEF Collect, Write
    <3>2. \A r \in Refset(sa.owners) : Live(r) => r \in Refset(Alive(at))
        BY <2>0, CollectFacts DEF Inv, OwnersInv
    <3>3. Refset(Alive(at)) # {}
        BY <3>2
    <3>4. DOMAIN Alive(at) # {} /\ DOMAIN Alive(at) = DOMAIN at
        BY <3>3 DEF Refset
    <3>5. at # <<>> /\ Alive(at) # <<>>
        BY <3>4
    <3> HIDE DEF Alive
    <3> QED
        BY <3>1, <3>5 DEF Inv, TypeOK
  <2>5. ASSUME NEW n \in Names, PutSA(n) PROVE sa'.owners # <<>>
      BY <2>5 DEF PutSA, Write, Accepted, OwnedInv
  <2> QED
      BY <2>2, <2>3, <2>4, <2>5, Writers
<1>2. Inv /\ OwnedInv /\ [Next]_vars => ([Kept]_vars => [Stays]_vars)
    BY <1>1
<1>3. NoOwnerLost <=> [][Kept]_vars
    BY PTL DEF NoOwnerLost
<1> QED
    BY <1>2, <1>3, OwnersKept, OwnedInvariance, Invariance, PTL DEF Spec, OwnerStays
=============================================================================
