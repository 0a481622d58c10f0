------------------------ MODULE SharedServiceAccount ------------------------
(***************************************************************************)
(* The ServiceAccount that all instances of a multi-tenant component type  *)
(* share in a namespace (pkg/reconciler/reconcile.go).  Every instance is  *)
(* an owner of it, and Kubernetes collects it, and with it the bindings    *)
(* and the adapter it owns, when the last owner is gone.  Instances are    *)
(* reconciled concurrently, one worker per instance, from informer caches  *)
(* that lag behind the API server.                                         *)
(*                                                                         *)
(* A resourceVersion only matters as "unchanged since it was read": the    *)
(* cache and the workers carry a flag that every write of the              *)
(* ServiceAccount clears.                                                  *)
(***************************************************************************)
EXTENDS Integers, Sequences, FiniteSets

CONSTANTS
    NumInstances,  \* the names of instances are 1..NumInstances, in that order
    MaxChanges     \* bound: creations by users, failing calls and restarts

ASSUME SharedServiceAccountAssumption ==
    NumInstances \in Nat \ {0} /\ MaxChanges \in Nat \ {0}

Names == 1..NumInstances
Refs  == Names \X (1..MaxChanges)      \* OwnerReferences: name and UID

\* Lists as sequences: what they hold, and a set of integers in ascending order (a
\* set with one list in it, as mergeOwners is a set with every list it can return).
Refset(s)    == {s[i] : i \in DOMAIN s}
Ascending(I) == {s \in [1..Cardinality(I) -> I] :
                    \A j, k \in DOMAIN s : j < k => s[j] < s[k]}

\* The ServiceAccount is absent, made by the controller, or made by a user under
\* the name the controller expects.
Managers == {"absent", "triggermesh", "user"}
NoSA     == [manager |-> "absent", owners |-> <<>>]

VARIABLES
    uid,             \* API server: the UID of instance n, or 0
    uids,            \* API server: the UIDs given out
    cachedInst,      \* informer: the UID of instance n, or 0
    sa,              \* API server: the ServiceAccount
    cachedSA,        \* informer: the ServiceAccount
    cacheCurrent,    \* the informer's copy has the latest resourceVersion
    pc,              \* where the worker of an instance is
    owners,          \* the OwnerReferences it wants to write
    current,         \* its copy of the ServiceAccount has the latest resourceVersion
    errors           \* failing calls, restarts, creations of a ServiceAccount

instVars   == <<uid, uids, cachedInst>>
workerVars == <<pc, owners, current>>
vars       == <<instVars, sa, cachedSA, cacheCurrent, workerVars, errors>>

TypeOK ==
    /\ uid \in [Names -> 0..MaxChanges] /\ uids \in 0..MaxChanges
    /\ cachedInst \in [Names -> 0..MaxChanges]
    /\ sa \in [manager : Managers, owners : Seq(Refs)]
    /\ cachedSA \in [manager : Managers, owners : Seq(Refs)]
    /\ cacheCurrent \in BOOLEAN
    /\ pc \in [Names -> {"idle", "list", "get", "create", "update", "nil"}]
    /\ owners \in [Names -> Seq(Refs)]
    /\ current \in [Names -> BOOLEAN]
    /\ errors \in 0..MaxChanges

Init ==
    /\ uid = [n \in Names |-> 0] /\ uids = 0
    /\ cachedInst = [n \in Names |-> 0]
    /\ sa = NoSA /\ cachedSA = NoSA /\ cacheCurrent = TRUE
    /\ pc = [n \in Names |-> "idle"] /\ owners = [n \in Names |-> <<>>]
    /\ current = [n \in Names |-> FALSE]
    /\ errors = 0

----------------------------------------------------------------------------
(* The API server's side: users, informers and the garbage collector. *)

Live(ref) == uid[ref[1]] = ref[2]

CreateInstance(n) ==
    /\ uid[n] = 0 /\ uids + errors < MaxChanges
    /\ uids' = uids + 1
    /\ uid' = [uid EXCEPT ![n] = uids + 1]
    /\ UNCHANGED <<cachedInst, sa, cachedSA, cacheCurrent, workerVars, errors>>

DeleteInstance(n) ==
    /\ uid[n] # 0
    /\ uid' = [uid EXCEPT ![n] = 0]
    /\ UNCHANGED <<uids, cachedInst, sa, cachedSA, cacheCurrent, workerVars, errors>>

SyncInstance(n) ==
    /\ cachedInst[n] # uid[n]
    /\ cachedInst' = [cachedInst EXCEPT ![n] = uid[n]]
    /\ UNCHANGED <<uid, uids, sa, cachedSA, cacheCurrent, workerVars, errors>>

SyncSA ==
    /\ ~cacheCurrent
    /\ cacheCurrent' = TRUE /\ cachedSA' = sa
    /\ UNCHANGED <<instVars, sa, workerVars, errors>>

\* A write of the ServiceAccount outdates every copy of it.
Write(new) == /\ sa' = new
              /\ cacheCurrent' = FALSE
              /\ current' = [n \in Names |-> FALSE]

\* A user makes the ServiceAccount before the controller does.
CreateUserSA ==
    /\ sa = NoSA /\ uids + errors < MaxChanges
    /\ Write([manager |-> "user", owners |-> <<>>])
    /\ errors' = errors + 1
    /\ UNCHANGED <<instVars, cachedSA, pc, owners>>

\* An object is collected when all its owners are gone; while it keeps one, the
\* references to the others are removed.
Collect ==
    /\ \E i \in DOMAIN sa.owners : ~Live(sa.owners[i])
    /\ \E at \in Ascending({i \in DOMAIN sa.owners : Live(sa.owners[i])}) :
          Write(IF at = <<>> THEN NoSA
                ELSE [sa EXCEPT !.owners = [k \in DOMAIN at |-> sa.owners[at[k]]]])
    /\ UNCHANGED <<instVars, cachedSA, pc, owners, errors>>

----------------------------------------------------------------------------
(* The worker that reconciles instance n.  A step ends where the code calls  *)
(* the API server, or between two reads of the informers.                    *)

Goto(n, step) == pc' = [pc EXCEPT ![n] = step]

Return(n) == Goto(n, "idle") /\ owners' = [owners EXCEPT ![n] = <<>>]

\* The workqueue hands out the key of an instance and its object is read.
GetInstance(n) ==
    /\ pc[n] = "idle" /\ cachedInst[n] # 0
    /\ Goto(n, "list")
    /\ UNCHANGED <<instVars, sa, cachedSA, cacheCurrent, owners, current, errors>>

\* Mutant of serviceAccountOwners: names without an instance are listed too.
serviceAccountOwnersAll == {[n \in Names |-> <<n, cachedInst[n]>>]}

\* All cached instances, sorted by name.
serviceAccountOwners ==
    {[i \in DOMAIN s |-> <<s[i], cachedInst[s[i]]>>] :
        s \in Ascending({n \in Names : cachedInst[n] # 0})}

\* The owners are listed; without any, reconcileRBAC returns no ServiceAccount.
ListOwners(n) ==
    /\ pc[n] = "list"
    /\ \E s \in serviceAccountOwners :
          /\ owners' = [owners EXCEPT ![n] = s]
          /\ Goto(n, IF s = <<>> THEN "nil" ELSE "get")
    /\ UNCHANGED <<instVars, sa, cachedSA, cacheCurrent, current, errors>>

\* Mutant of mergeOwners: the desired owners are appended to the current ones.
mergeOwnersAppends(cur, desired) == {cur \o desired}

\* Mutant of mergeOwners: the desired owners replace the current ones.
mergeOwnersReplaces(cur, desired) == {desired}

\* Owners are keyed by Kind/Name, and a desired one replaces a current one; the
\* result has the order in which Go iterates over the map: any.
mergeOwners(cur, desired) ==
    LET kept == {ref \in Refset(cur) : \A d \in Refset(desired) : d[1] # ref[1]}
        all  == kept \cup Refset(desired)
    IN  {s \in [1..Cardinality(all) -> all] : Refset(s) = all}

\* Mutant of DeepEqual: OwnerReferences are not compared.
DeepEqualNoOwners(desired, cur) == TRUE

\* semantic.DeepEqual of the OwnerReferences: element by element, further
\* elements of the current list do not matter.
DeepEqual(desired, cur) ==
    Len(desired) <= Len(cur) /\ SubSeq(cur, 1, Len(desired)) = desired

\* Mutant of GetSA: the managed-by label is not checked.
GetSAUnchecked(n) ==
    /\ pc[n] = "get"
    /\ Goto(n, IF cachedSA = NoSA THEN "create" ELSE "update")
    /\ current' = [current EXCEPT ![n] = cacheCurrent]
    /\ UNCHANGED <<instVars, sa, cachedSA, cacheCurrent, owners, errors>>

\* getOrCreateAdapterServiceAccount and syncAdapterServiceAccount up to their
\* API calls.
GetSA(n) ==
    /\ pc[n] = "get"
    /\ \/ /\ cachedSA.manager = "absent"
          /\ Goto(n, "create") /\ UNCHANGED <<owners, current>>
       \/ /\ \/ cachedSA.manager = "user"
             \/ cachedSA.manager = "triggermesh" /\ DeepEqual(owners[n], cachedSA.owners)
          /\ Return(n) /\ UNCHANGED current
       \/ /\ cachedSA.manager = "triggermesh" /\ ~DeepEqual(owners[n], cachedSA.owners)
          /\ Goto(n, "update")
          /\ \E s \in mergeOwners(cachedSA.owners, owners[n]) :
                owners' = [owners EXCEPT ![n] = s]
          /\ current' = [current EXCEPT ![n] = cacheCurrent]
    /\ UNCHANGED <<instVars, sa, cachedSA, cacheCurrent, errors>>

\* The API server refuses to create what exists and to update an object with an
\* outdated resourceVersion.
Accepted(n) ==
    \/ pc[n] = "create" /\ sa = NoSA
    \/ pc[n] = "update" /\ current[n]

\* Mutant of PutSA: the written object has no owners.
PutSAUnowned(n) ==
    /\ Accepted(n)
    /\ Write([manager |-> "triggermesh", owners |-> <<>>])
    /\ Return(n)
    /\ UNCHANGED <<instVars, cachedSA, errors>>

PutSA(n) ==
    /\ Accepted(n)
    /\ Write([manager |-> "triggermesh", owners |-> owners[n]])
    /\ Return(n)
    /\ UNCHANGED <<instVars, cachedSA, errors>>

Refused(n) ==
    /\ pc[n] \in {"create", "update"} /\ ~Accepted(n)
    /\ Return(n) /\ current' = [current EXCEPT ![n] = FALSE]
    /\ UNCHANGED <<instVars, sa, cachedSA, cacheCurrent, errors>>

\* A sink that cannot be resolved, an API call that fails.
Error(n) ==
    /\ uids + errors < MaxChanges /\ errors' = errors + 1
    /\ pc[n] \in {"list", "create", "update"}
    /\ Return(n) /\ current' = [current EXCEPT ![n] = FALSE]
    /\ UNCHANGED <<instVars, sa, cachedSA, cacheCurrent>>

\* The controller is restarted: its workers are gone, its caches are read anew.
Restart ==
    /\ pc' = [n \in Names |-> "idle"] /\ owners' = [n \in Names |-> <<>>]
    /\ current' = [n \in Names |-> FALSE]
    /\ cachedInst' = uid
    /\ cachedSA' = sa /\ cacheCurrent' = TRUE
    /\ UNCHANGED <<uid, uids, sa>>

Crash == uids + errors < MaxChanges /\ errors' = errors + 1 /\ Restart

\* OwnByServiceAccount dereferences the ServiceAccount that reconcileRBAC did not
\* return.
Panic(n) == pc[n] = "nil" /\ Restart /\ UNCHANGED errors

Work(n) == GetInstance(n) \/ ListOwners(n) \/ GetSA(n) \/ PutSA(n) \/ Refused(n) \/ Panic(n)

Next ==
    \/ \E n \in Names : \/ CreateInstance(n) \/ DeleteInstance(n) \/ SyncInstance(n)
                        \/ Work(n) \/ Error(n)
    \/ SyncSA \/ CreateUserSA \/ Collect \/ Crash

Spec == Init /\ [][Next]_vars

\* Workers run and, with the requeueing of failed keys and the informers' resync,
\* come back to every instance; informers catch up; garbage is collected.
FairSpec == /\ Spec
            /\ \A n \in Names : WF_vars(Work(n)) /\ WF_vars(SyncInstance(n))
            /\ WF_vars(SyncSA) /\ WF_vars(Collect)

----------------------------------------------------------------------------
(* Properties. *)

\* mergeOwners and the resourceVersion keep what other workers wrote: while the
\* ServiceAccount exists, an existing instance that it lists stays listed under
\* its name, although every worker writes the whole list from caches of its own.
NoOwnerLost ==
    [][\A ref \in Refset(sa.owners) :
          Live(ref) /\ sa'.owners # <<>> => \E new \in Refset(sa'.owners) : new[1] = ref[1]]_vars

\* A ServiceAccount that a user made is never touched, not even by a worker that
\* still has a copy of one that the controller made.
UserAccountKept == [][sa.manager = "user" => sa' = sa]_vars

\* The owners never list the same instance name twice, whatever copies of lists
\* with recreated instances were merged.
NoDuplicateOwner ==
    \A i, j \in DOMAIN sa.owners : sa.owners[i][1] = sa.owners[j][1] => i = j

\* While instances exist they come to share a ServiceAccount that all of them own
\* (or one that a user made), and it is never collected again.
SharedByAll ==
    /\ sa # NoSA
    /\ sa.manager = "triggermesh" => \A n \in Names : uid[n] # 0 => <<n, uid[n]>> \in Refset(sa.owners)

Converges == <>[](\E n \in Names : uid[n] # 0) => <>[]SharedByAll

\* The ServiceAccount is collected after the last instance was deleted, although
\* a worker may create it once more for instances it still finds in its cache.
CleanedUp ==
    <>[](\A n \in Names : uid[n] = 0) => <>[](sa.manager # "triggermesh")

\* reconcile.go:289-293: once the last instance is deleted "we don't need to clean
\* things up explicitly": a reconciliation that finds no instance is harmless.
NoInstanceIsHarmless == \A n \in Names : pc[n] # "nil"
=============================================================================
