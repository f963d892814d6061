----------------------------- MODULE Repo_proofs -----------------------------
(***************************************************************************)
(* What the tables and the cache of class Repo keep true for any number of *)
(* requests, endpoints, devices and routing keys: cached rows are genuine, *)
(* and only overlapping transactions give two endpoints one verkey.        *)
(***************************************************************************)
EXTENDS Repo, TLAPS

\* What a task knows where it is.
TaskOK(t) ==
    /\ pc[t] = "idle" => goal[t] = None /\ alias[t] = None
    /\ pc[t] \notin {"idle", "steal", "lookup", "write"} => want[t] # None
    /\ pc[t] \in {"query", "look"} => found[t] = None
    /\ pc[t] \in {"look", "alias"} => alias[t] # None /\ goal[t] = None
    /\ pc[t] \in {"fill", "alias", "add", "remove", "list"} => found[t] # None
    /\ pc[t] \in {"steal", "lookup", "write"} => change[t] \in Rows
    /\ pc[t] \in {"add", "remove"} => change[t] \in Keys
    /\ pc[t] = "registered" => goal[t] # None
    /\ goal[t] # None => want[t] \in Uids /\ alias[t] = None
    /\ alias[t] # None => want[t] \in Uids

\* A row on its way to the cache is as genuine as those that arrived.
GenuineTask(t) ==
    /\ alias[t] # None => <<alias[t], want[t]>> \in bound
    /\ found[t] # None => Genuine(want[t], found[t])

GenuineInv ==
    /\ CachedIsGenuine
    /\ \A u \in Uids : endpoints[u] # None => endpoints[u] \in stored /\ endpoints[u].uid = u
    /\ routes \subseteq bound
    /\ \A t \in Tasks : GenuineTask(t)

\* While a transaction for a verkey runs, an endpoint that has the verkey and
\* survives the transaction was written by a rival.
RivalInv ==
    /\ UniqueUnlessRivals
    /\ \A t \in Tasks : InTransaction(t) =>
         \A x \in Uids \ {change[t].uid} :
            /\ endpoints[x] # None /\ endpoints[x].verkey = change[t].verkey
            /\ change[t].verkey \notin rivals
            => x \in victims[t]
    /\ \A t, s \in Tasks :
         /\ t # s /\ InTransaction(t) /\ InTransaction(s)
         /\ change[t].verkey = change[s].verkey
         => change[t].verkey \in rivals

IInv ==
    /\ TypeOK
    /\ \A t \in Tasks : TaskOK(t)
    /\ GenuineInv
    /\ RivalInv

LEMMA InitIInv == Init => IInv
<1> SUFFICES ASSUME Init PROVE IInv
  OBVIOUS
<1> USE RepoAssumption DEF Init
<1>1. TypeOK
  BY DEF TypeOK, Steps
<1>2. \A t \in Tasks : TaskOK(t)
  BY DEF TaskOK
<1>3. GenuineInv
  BY DEF GenuineInv, GenuineTask, CachedIsGenuine
<1>4. RivalInv
  BY DEF RivalInv, UniqueUnlessRivals, InTransaction
<1> QED
  BY <1>1, <1>2, <1>3, <1>4 DEF IInv

-----------------------------------------------------------------------------
\* A step of one task leaves the others where they are.
OthersWait(t) ==
    \A s \in Tasks \ {t} :
        /\ pc'[s] = pc[s] /\ goal'[s] = goal[s] /\ want'[s] = want[s]
        /\ alias'[s] = alias[s] /\ found'[s] = found[s] /\ change'[s] = change[s]
        /\ victims'[s] = victims[s]

\* A step adds to the cache nothing but genuine rows.
AddsGenuine ==
    \A k \in CacheKeys : cache'[k] \in {cache[k], None} \/ Genuine(k, cache[k])'

\* Everything but the rivalry of transactions, for a step of one task that
\* keeps the tables and the cache genuine.
LEMMA GenuineStep ==
    ASSUME IInv, NEW t \in Tasks, OthersWait(t), AddsGenuine,
           stored \subseteq stored', bound \subseteq bound', routes' \subseteq bound',
           \A u \in Uids : endpoints'[u] # None =>
                              endpoints'[u] \in stored' /\ endpoints'[u].uid = u,
           TaskOK(t)', GenuineTask(t)'
    PROVE  (\A s \in Tasks : TaskOK(s))' /\ GenuineInv'
<1>1. \A s \in Tasks \ {t} : TaskOK(s)'
  BY DEF IInv, OthersWait, TaskOK
<1>2. \A s \in Tasks \ {t} : GenuineTask(s)'
  BY DEF IInv, OthersWait, GenuineInv, GenuineTask, Genuine
<1>3. CachedIsGenuine'
  BY DEF IInv, GenuineInv, CachedIsGenuine, AddsGenuine, Genuine
<1> QED
  BY <1>1, <1>2, <1>3 DEF GenuineInv

\* A step of one task that does not change the endpoints and enters no
\* transaction.
LEMMA StepIInv ==
    ASSUME IInv, TypeOK', NEW t \in Tasks, OthersWait(t), AddsGenuine,
           UNCHANGED <<endpoints, stored, rivals>>,
           bound \subseteq bound', routes' \subseteq bound',
           TaskOK(t)', GenuineTask(t)',
           InTransaction(t)' => /\ InTransaction(t) /\ change'[t] = change[t]
                                /\ victims'[t] = victims[t]
    PROVE  IInv'
<1>1. (\A s \in Tasks : TaskOK(s))' /\ GenuineInv'
  BY GenuineStep DEF IInv, GenuineInv
<1>2. \A s \in Tasks : InTransaction(s)' => /\ InTransaction(s) /\ change'[s] = change[s]
                                             /\ victims'[s] = victims[s]
  BY DEF OthersWait, InTransaction
<1>3. RivalInv'
  BY <1>2 DEF IInv, RivalInv, UniqueUnlessRivals
<1> QED
  BY <1>1, <1>3 DEF IInv

\* A task that ends.
LEMMA ReturnIInv ==
    ASSUME IInv, NEW t \in Tasks, Return(t), UNCHANGED <<tables, cache, updates, history>>,
           lists' \in [Uids -> SUBSET Keys]
    PROVE  IInv'
<1> USE DEF Return, tables, history
<1>1. TypeOK'
  BY DEF IInv, TypeOK, Steps
<1>2. OthersWait(t) /\ AddsGenuine
  BY DEF IInv, TypeOK, OthersWait, AddsGenuine
<1>3. /\ pc'[t] = "idle" /\ goal'[t] = None /\ want'[t] = None /\ alias'[t] = None
      /\ found'[t] = None
  BY DEF IInv, TypeOK
<1>4. TaskOK(t)' /\ GenuineTask(t)' /\ ~InTransaction(t)'
  BY <1>3 DEF TaskOK, GenuineTask, InTransaction
<1> QED
  BY <1>1, <1>2, <1>4, StepIInv DEF IInv, GenuineInv

-----------------------------------------------------------------------------
(* Loading *)

\* A task that starts, with a look into the cache.
LEMMA AskIInv ==
    ASSUME IInv, NEW t \in Tasks, NEW k \in CacheKeys, pc[t] = "idle", Ask(t, k),
           \/ goal' = goal /\ updates' = updates
           \/ /\ \E v \in Verkeys : goal' = [goal EXCEPT ![t] = v]
              /\ k \in Uids /\ Counted
    PROVE  IInv'
<1> USE DEF Ask, tables, caches, history
<1>1. TypeOK'
  BY RepoAssumption DEF IInv, TypeOK, Steps, Counted
<1>2. OthersWait(t) /\ AddsGenuine
  BY DEF IInv, TypeOK, OthersWait, AddsGenuine
<1>3. /\ pc'[t] \in {"loaded", "query"} /\ (pc'[t] = "query" => cache[k] = None)
      /\ want'[t] = k /\ alias'[t] = None /\ found'[t] = cache[k]
      /\ goal'[t] # None => k \in Uids
  BY DEF IInv, TypeOK, TaskOK
<1>4. TaskOK(t)' /\ ~InTransaction(t)'
  BY <1>3, RepoAssumption DEF TaskOK, InTransaction
<1>5. GenuineTask(t)'
  BY <1>3 DEF IInv, GenuineInv, GenuineTask, CachedIsGenuine, Genuine
<1> QED
  BY <1>1, <1>2, <1>4, <1>5, StepIInv DEF IInv, GenuineInv

\* A select answers, or finds nothing.
LEMMA QueryIInv ==
    ASSUME IInv, NEW t \in Tasks, Query(t)
    PROVE  IInv'
<1> USE DEF tables, caches, history
<1>1. /\ pc[t] = "query" /\ want[t] \in Uids \cup Verkeys
      /\ UNCHANGED <<tables, caches, goal, want, alias, change, victims, seen,
                     listed, updates, history>>
  BY DEF Query
<1>2. \A row \in Selected(want[t]) : row \in Rows /\ row # None /\ Genuine(want[t], row)
  <2> TAKE row \in Selected(want[t])
  <2>1. PICK u \in Uids : /\ endpoints[u] # None /\ row = endpoints[u]
                          /\ want[t] \in {u, endpoints[u].verkey}
    BY DEF Selected
  <2>2. row \in Rows /\ row \in stored /\ row.uid = u
    BY <2>1 DEF IInv, TypeOK, GenuineInv
  <2> QED
    BY <1>1, <2>1, <2>2, RepoAssumption DEF Rows, Genuine
<1>3. \/ pc' = [pc EXCEPT ![t] = "loaded"] /\ found' = found
      \/ \E row \in Selected(want[t]) : /\ found' = [found EXCEPT ![t] = row]
                                        /\ pc' = [pc EXCEPT ![t] = "fill"]
  BY DEF Query
<1>4. TypeOK'
  BY <1>1, <1>2, <1>3 DEF IInv, TypeOK, Steps
<1>5. OthersWait(t) /\ AddsGenuine
  BY <1>1, <1>3 DEF IInv, TypeOK, OthersWait, AddsGenuine
<1>6. \/ pc'[t] = "loaded" /\ found'[t] = found[t]
      \/ pc'[t] = "fill" /\ found'[t] # None /\ Genuine(want[t], found'[t])
  BY <1>2, <1>3 DEF IInv, TypeOK
<1>7. TaskOK(t)' /\ ~InTransaction(t)'
  BY <1>1, <1>6, RepoAssumption DEF IInv, TaskOK, InTransaction
<1>8. GenuineTask(t)'
  BY <1>1, <1>6 DEF IInv, GenuineInv, GenuineTask, Genuine
<1> QED
  BY <1>1, <1>4, <1>5, <1>7, <1>8, StepIInv DEF IInv, GenuineInv

LEMMA QueryRouteIInv ==
    ASSUME IInv, NEW t \in Tasks, QueryRoute(t)
    PROVE  IInv'
<1> USE DEF tables, caches, history
<1>1. /\ pc[t] = "query" /\ want[t] \in Keys
      /\ UNCHANGED <<tables, caches, goal, found, change, victims, seen, listed,
                     updates, history>>
  BY DEF QueryRoute
<1>2. goal[t] = None /\ found[t] = None
  BY <1>1, RepoAssumption DEF IInv, TaskOK
<1>3. CASE pc' = [pc EXCEPT ![t] = "loaded"] /\ want' = want /\ alias' = alias
  <2>1. TypeOK'
    BY <1>1, <1>3 DEF IInv, TypeOK, Steps
  <2>2. OthersWait(t) /\ AddsGenuine
    BY <1>1, <1>3 DEF IInv, TypeOK, OthersWait, AddsGenuine
  <2>3. pc'[t] = "loaded"
    BY <1>3 DEF IInv, TypeOK
  <2>4. TaskOK(t)' /\ GenuineTask(t)' /\ ~InTransaction(t)'
    BY <1>1, <1>2, <1>3, <2>3
    DEF IInv, TaskOK, GenuineInv, GenuineTask, InTransaction
  <2> QED
    BY <1>1, <2>1, <2>2, <2>4, StepIInv DEF IInv, GenuineInv
<1>4. ASSUME NEW u \in Routed(want[t]), alias' = [alias EXCEPT ![t] = want[t]],
             want' = [want EXCEPT ![t] = u], pc' = [pc EXCEPT ![t] = "look"]
      PROVE  IInv'
  <2>1. u \in Uids /\ <<want[t], u>> \in bound
    BY DEF IInv, TypeOK, GenuineInv, Routed
  <2>2. TypeOK'
    <3>1. want' \in [Tasks -> CacheKeys \cup {None}] /\ alias' \in [Tasks -> Keys \cup {None}]
      BY <1>1, <1>4, <2>1 DEF IInv, TypeOK, CacheKeys
    <3>2. pc' \in [Tasks -> Steps]
      BY <1>4 DEF IInv, TypeOK, Steps
    <3> QED
      BY <1>1, <3>1, <3>2 DEF IInv, TypeOK
  <2>3. OthersWait(t) /\ AddsGenuine
    BY <1>1, <1>4 DEF IInv, TypeOK, OthersWait, AddsGenuine
  <2>4. pc'[t] = "look" /\ want'[t] = u /\ alias'[t] = want[t]
    BY <1>4 DEF IInv, TypeOK
  <2>5. TaskOK(t)' /\ ~InTransaction(t)'
    BY <1>1, <1>2, <2>1, <2>4, RepoAssumption DEF TaskOK, InTransaction, CacheKeys
  <2>6. GenuineTask(t)'
    BY <1>1, <1>2, <2>1, <2>4 DEF GenuineTask
  <2> QED
    BY <1>1, <2>2, <2>3, <2>5, <2>6, StepIInv DEF IInv, GenuineInv
<1> QED
  BY <1>3, <1>4 DEF QueryRoute

LEMMA LookIInv ==
    ASSUME IInv, NEW t \in Tasks, Look(t)
    PROVE  IInv'
<1> USE DEF Look, tables, caches, history
<1>1. want[t] \in Uids /\ alias[t] # None /\ goal[t] = None /\ found[t] = None
  BY DEF IInv, TaskOK
<1>2. cache[want[t]] \in Rows \cup {None}
  BY <1>1 DEF IInv, TypeOK, CacheKeys
<1>3. TypeOK'
  BY <1>2 DEF IInv, TypeOK, Steps
<1>4. OthersWait(t) /\ AddsGenuine
  BY DEF IInv, TypeOK, OthersWait, AddsGenuine
<1>5. /\ found'[t] = cache[want[t]]
      /\ \/ pc'[t] = "alias" /\ cache[want[t]] # None
         \/ pc'[t] = "query" /\ cache[want[t]] = None
      /\ goal'[t] = goal[t] /\ want'[t] = want[t] /\ alias'[t] = alias[t]
  BY DEF IInv, TypeOK
<1>6. TaskOK(t)' /\ ~InTransaction(t)'
  BY <1>1, <1>5, RepoAssumption DEF TaskOK, InTransaction, CacheKeys
<1>7. cache[want[t]] # None => Genuine(want[t], cache[want[t]])
  BY <1>1 DEF IInv, GenuineInv, CachedIsGenuine, CacheKeys
<1>8. GenuineTask(t)'
  <2>1. alias[t] # None => <<alias[t], want[t]>> \in bound
    BY DEF IInv, GenuineInv, GenuineTask
  <2> QED
    BY <1>5, <1>7, <2>1 DEF GenuineTask, Genuine
<1> QED
  BY <1>3, <1>4, <1>6, <1>8, StepIInv DEF IInv, GenuineInv

LEMMA FillIInv ==
    ASSUME IInv, NEW t \in Tasks, Fill(t)
    PROVE  IInv'
<1> USE DEF Fill, tables, caches, history
<1>1. found[t] # None /\ Genuine(want[t], found[t]) /\ want[t] # None
  BY DEF IInv, TaskOK, GenuineInv, GenuineTask
<1>2. TypeOK'
  BY DEF IInv, TypeOK, Steps
<1>3. OthersWait(t)
  BY DEF IInv, TypeOK, OthersWait
<1>4. AddsGenuine
  BY <1>1 DEF IInv, TypeOK, AddsGenuine, Genuine
<1>5. pc'[t] = IF alias[t] = None THEN "loaded" ELSE "alias"
  BY DEF IInv, TypeOK
<1>6. goal[t] = None \/ alias[t] = None
  BY DEF IInv, TaskOK
<1>7. TaskOK(t)' /\ ~InTransaction(t)'
  BY <1>1, <1>5, <1>6 DEF IInv, TaskOK, InTransaction
<1>8. GenuineTask(t)'
  BY DEF IInv, GenuineInv, GenuineTask, Genuine
<1> QED
  BY <1>2, <1>3, <1>4, <1>7, <1>8, StepIInv DEF IInv, GenuineInv

LEMMA AliasIInv ==
    ASSUME IInv, NEW t \in Tasks, Alias(t)
    PROVE  IInv'
<1> USE DEF Alias, tables, caches, history
<1>1. /\ found[t] # None /\ alias[t] # None /\ goal[t] = None /\ want[t] \in Uids
      /\ Genuine(want[t], found[t]) /\ <<alias[t], want[t]>> \in bound
  BY DEF IInv, TaskOK, GenuineInv, GenuineTask
<1>2. Genuine(alias[t], found[t])
  BY <1>1, RepoAssumption DEF IInv, TypeOK, Genuine
<1>3. TypeOK'
  BY DEF IInv, TypeOK, Steps
<1>4. OthersWait(t)
  BY DEF IInv, TypeOK, OthersWait
<1>5. AddsGenuine
  BY <1>2 DEF IInv, TypeOK, AddsGenuine, Genuine
<1>6. pc'[t] = "loaded"
  BY DEF IInv, TypeOK
<1>7. TaskOK(t)' /\ ~InTransaction(t)'
  BY <1>1, <1>6, RepoAssumption DEF IInv, TaskOK, InTransaction
<1>8. GenuineTask(t)'
  BY DEF IInv, GenuineInv, GenuineTask, Genuine
<1> QED
  BY <1>3, <1>4, <1>5, <1>7, <1>8, StepIInv DEF IInv, GenuineInv

-----------------------------------------------------------------------------
(* Changing an endpoint *)

\* A task is about to store a row under its uid.
LEMMA EnsureIInv ==
    ASSUME IInv, NEW t \in Tasks, NEW row \in Rows, Ensure(t, row),
           \/ goal' = goal
           \/ goal' = [goal EXCEPT ![t] = None],
           updates' = updates \/ Counted,
           goal[t] # None => want[t] \in Uids
    PROVE  IInv'
<1> USE DEF Ensure, tables, caches, history
<1>1. TypeOK'
  <2>1. pc' \in [Tasks -> Steps]
    BY DEF IInv, TypeOK, Steps
  <2>2. cache' \in [CacheKeys -> Rows \cup {None}] /\ change' \in [Tasks -> Rows \cup Keys \cup {None}]
    BY DEF IInv, TypeOK
  <2>3. goal' \in [Tasks -> Verkeys \cup {None}] /\ updates' \in 0 .. MaxUpdates
    BY RepoAssumption DEF IInv, TypeOK, Counted
  <2> QED
    BY <2>1, <2>2, <2>3 DEF IInv, TypeOK
<1>2. OthersWait(t)
  BY DEF IInv, TypeOK, OthersWait
<1>3. AddsGenuine
  BY DEF IInv, TypeOK, AddsGenuine
<1>4. pc'[t] = "steal" /\ change'[t] = row /\ (goal'[t] # None => goal[t] # None)
  BY DEF IInv, TypeOK
<1>5. TaskOK(t)' /\ ~InTransaction(t)'
  BY <1>4 DEF IInv, TaskOK, InTransaction
<1>6. GenuineTask(t)'
  BY DEF IInv, GenuineInv, GenuineTask, Genuine
<1> QED
  BY <1>1, <1>2, <1>3, <1>5, <1>6, StepIInv DEF IInv, GenuineInv

LEMMA RegisterIInv ==
    ASSUME IInv, NEW t \in Tasks, Register(t)
    PROVE  IInv'
<1>1. /\ pc[t] = "loaded" /\ goal[t] \in Verkeys /\ goal[t] # None /\ want[t] \in Uids
      /\ goal' = goal /\ updates' = updates
  BY DEF IInv, TypeOK, TaskOK, Register
<1>2. CASE /\ pc' = [pc EXCEPT ![t] = "registered"]
           /\ UNCHANGED <<tables, caches, want, alias, found, change, victims,
                          seen, listed, history>>
  <2> USE DEF tables, caches, history
  <2>1. TypeOK'
    BY <1>1, <1>2 DEF IInv, TypeOK, Steps
  <2>2. OthersWait(t) /\ AddsGenuine
    BY <1>1, <1>2 DEF IInv, TypeOK, OthersWait, AddsGenuine
  <2>3. pc'[t] = "registered"
    BY <1>2 DEF IInv, TypeOK
  <2>4. TaskOK(t)' /\ GenuineTask(t)' /\ ~InTransaction(t)'
    BY <1>1, <1>2, <2>3 DEF IInv, TaskOK, GenuineInv, GenuineTask, Genuine, InTransaction
  <2> QED
    BY <1>2, <2>1, <2>2, <2>4, StepIInv DEF IInv, GenuineInv
<1>3. ASSUME NEW a \in Addrs \cup {None},
             Ensure(t, [uid |-> want[t], verkey |-> goal[t], addr |-> a])
      PROVE  IInv'
  <2>1. [uid |-> want[t], verkey |-> goal[t], addr |-> a] \in Rows
    BY <1>1 DEF Rows
  <2> QED
    BY <1>1, <1>3, <2>1, EnsureIInv
<1> QED
  BY <1>2, <1>3 DEF Register

LEMMA CompleteIInv ==
    ASSUME IInv, NEW t \in Tasks, Complete(t)
    PROVE  IInv'
<1>1. goal[t] \in Verkeys /\ want[t] \in Uids
  BY DEF IInv, TypeOK, TaskOK, Complete
<1>2. [uid |-> want[t], verkey |-> goal[t], addr |-> None] \in Rows
  BY <1>1 DEF Rows
<1> QED
  BY <1>1, <1>2, EnsureIInv DEF Complete

LEMMA FailoverIInv ==
    ASSUME IInv, NEW t \in Tasks, Failover(t)
    PROVE  IInv'
<1>1. PICK a \in Addrs : Ensure(t, [found[t] EXCEPT !.addr = a])
  BY DEF Failover
<1>2. [found[t] EXCEPT !.addr = a] \in Rows
  BY DEF Failover, IInv, TypeOK, Rows
<1> QED
  BY <1>1, <1>2, EnsureIInv DEF Failover

LEMMA LookupIInv ==
    ASSUME IInv, NEW t \in Tasks, Lookup(t)
    PROVE  IInv'
<1> USE DEF Lookup, tables, caches, history
<1>1. change[t] \in Rows /\ InTransaction(t)
  BY DEF IInv, TaskOK, InTransaction
<1>2. endpoints[change[t].uid] \in Rows \cup {None}
  BY <1>1 DEF IInv, TypeOK, Rows
<1>3. TypeOK'
  BY <1>2 DEF IInv, TypeOK, Steps
<1>4. OthersWait(t) /\ AddsGenuine
  BY DEF IInv, TypeOK, OthersWait, AddsGenuine
<1>5. pc'[t] = "write"
  BY DEF IInv, TypeOK
<1>6. TaskOK(t)'
  BY <1>1, <1>5 DEF IInv, TaskOK
<1>7. GenuineTask(t)'
  BY DEF IInv, GenuineInv, GenuineTask, Genuine
<1> QED
  BY <1>1, <1>3, <1>4, <1>6, <1>7, StepIInv DEF IInv, GenuineInv

\* The transaction deletes the other holders of the verkey: none is left, and
\* whoever is about to write another one is a rival.
LEMMA StealIInv ==
    ASSUME IInv, NEW t \in Tasks, Steal(t)
    PROVE  IInv'
<1> USE DEF tables, caches, history
<1>1. PICK u \in Uids, v \in Verkeys : change[t].uid = u /\ change[t].verkey = v
  BY DEF Steal, IInv, TaskOK, Rows
<1>2. /\ pc[t] = "steal" /\ change[t] \in Rows
      /\ victims' = [victims EXCEPT ![t] = Holders(u, v)]
      /\ pc' = [pc EXCEPT ![t] = "lookup"]
      /\ rivals' = IF \E s \in Tasks \ {t} : InTransaction(s) /\ change[s].verkey = v
                     THEN rivals \cup {v} ELSE rivals
      /\ UNCHANGED <<tables, caches, goal, want, alias, found, change, seen, listed,
                     updates, stored, bound>>
  BY <1>1 DEF Steal, IInv, TaskOK
<1>3. TypeOK'
  <2>1. victims' \in [Tasks -> SUBSET Uids] /\ pc' \in [Tasks -> Steps]
    BY <1>2 DEF IInv, TypeOK, Holders, Steps
  <2>2. rivals' \subseteq Verkeys
    BY <1>2 DEF IInv, TypeOK
  <2> QED
    BY <1>2, <2>1, <2>2 DEF IInv, TypeOK
<1>4. OthersWait(t) /\ AddsGenuine
  BY <1>2 DEF IInv, TypeOK, OthersWait, AddsGenuine
<1>5. pc'[t] = "lookup" /\ victims'[t] = Holders(u, v)
  BY <1>2 DEF IInv, TypeOK
<1>6. TaskOK(t)'
  BY <1>2, <1>5 DEF IInv, TaskOK
<1>7. GenuineTask(t)'
  BY <1>2 DEF IInv, GenuineInv, GenuineTask, Genuine
<1>8. (\A s \in Tasks : TaskOK(s))' /\ GenuineInv'
  BY <1>2, <1>4, <1>6, <1>7, GenuineStep DEF IInv, GenuineInv
<1>9. RivalInv'
  <2>1. UniqueUnlessRivals'
    BY <1>2 DEF IInv, RivalInv, UniqueUnlessRivals
  <2>2. ASSUME NEW s \in Tasks, InTransaction(s)',
               NEW x \in Uids \ {change'[s].uid},
               endpoints'[x] # None, endpoints'[x].verkey = change'[s].verkey,
               change'[s].verkey \notin rivals'
        PROVE  x \in victims'[s]
    <3>1. CASE s = t
      BY <1>1, <1>2, <1>5, <2>2, <3>1 DEF Holders
    <3>2. CASE s # t
      BY <1>2, <1>4, <2>2, <3>2 DEF IInv, RivalInv, OthersWait, InTransaction
    <3> QED
      BY <3>1, <3>2
  <2>3. ASSUME NEW r \in Tasks, NEW s \in Tasks, r # s, InTransaction(r)', InTransaction(s)',
               change'[r].verkey = change'[s].verkey
        PROVE  change'[r].verkey \in rivals'
    <3>1. CASE r = t \/ s = t
      BY <1>1, <1>2, <1>4, <2>3, <3>1 DEF OthersWait, InTransaction
    <3>2. CASE r # t /\ s # t
      BY <1>2, <1>4, <2>3, <3>2 DEF IInv, RivalInv, OthersWait, InTransaction
    <3> QED
      BY <3>1, <3>2
  <2> QED
    BY <2>1, <2>2, <2>3 DEF RivalInv
<1> QED
  BY <1>3, <1>8, <1>9 DEF IInv

\* What a transaction writes to its row has the verkey of the transaction or
\* the verkey that the row already had.
LEMMA WrittenFacts ==
    ASSUME IInv, NEW t \in Tasks, pc[t] = "write"
    PROVE  Written(t) # None =>
             /\ Written(t) \in Rows
             /\ Written(t).uid = change[t].uid
             /\ \/ Written(t).verkey = change[t].verkey
                \/ /\ endpoints[change[t].uid] # None
                   /\ Written(t).verkey = endpoints[change[t].uid].verkey
<1>1. change[t] \in Rows /\ change[t].uid \in Uids
  BY DEF IInv, TaskOK, Rows
<1>2. CASE seen[t] = None
  BY <1>1, <1>2 DEF Written
<1>3. CASE seen[t] # None /\ endpoints[change[t].uid] # None
  <2>1. /\ endpoints[change[t].uid] \in Rows /\ seen[t] \in Rows
        /\ endpoints[change[t].uid].uid = change[t].uid
    BY <1>1, <1>3 DEF IInv, TypeOK, GenuineInv
  <2>2. Written(t) = Updated(endpoints[change[t].uid], seen[t], change[t])
    BY <1>3 DEF Written
  <2> QED
    BY <1>1, <1>3, <2>1, <2>2 DEF Updated, Rows
<1>4. CASE seen[t] # None /\ endpoints[change[t].uid] = None
  BY <1>4 DEF Written
<1> QED
  BY <1>2, <1>3, <1>4

\* The transaction commits.
LEMMA WriteIInv ==
    ASSUME IInv, NEW t \in Tasks, Write(t)
    PROVE  IInv'
<1> USE DEF tables, caches, history
<1>1. PICK u \in Uids, v \in Verkeys : change[t].uid = u /\ change[t].verkey = v
  BY DEF Write, IInv, TaskOK, Rows
<1>2. PICK w : w = Written(t)
  OBVIOUS
<1>3. /\ pc[t] = "write"
      /\ endpoints' = [x \in Uids |-> IF x = u THEN w
                                      ELSE IF x \in victims[t] THEN None ELSE endpoints[x]]
      /\ stored' = stored \cup ({w} \ {None})
      /\ UNCHANGED <<routes, caches, updates, bound, rivals>>
  BY <1>1, <1>2 DEF Write
<1>4. w # None => /\ w \in Rows /\ w.uid = u
                  /\ w.verkey = v \/ (endpoints[u] # None /\ w.verkey = endpoints[u].verkey)
  BY <1>1, <1>2, <1>3, WrittenFacts
<1>5. /\ \A x \in Uids \ {u} : endpoints'[x] # None => /\ endpoints'[x] = endpoints[x]
                                                        /\ x \notin victims[t]
      /\ endpoints'[u] = w
  BY <1>3
<1>6. \/ /\ goal[t] # None
         /\ pc' = [pc EXCEPT ![t] = "registered"]
         /\ victims' = [victims EXCEPT ![t] = {}]
         /\ seen' = [seen EXCEPT ![t] = None]
         /\ change' = [change EXCEPT ![t] = None]
         /\ UNCHANGED <<goal, want, alias, found, listed>>
      \/ Return(t)
  BY DEF Write
<1>7. TypeOK'
  <2>1. endpoints' \in [Uids -> Rows \cup {None}] /\ stored' \subseteq Rows
    BY <1>3, <1>4 DEF IInv, TypeOK
  <2>2. /\ routes' \subseteq Keys \X Uids /\ cache' \in [CacheKeys -> Rows \cup {None}]
        /\ lists' \in [Uids -> SUBSET Keys] /\ updates' \in 0 .. MaxUpdates
        /\ bound' \subseteq Keys \X Uids /\ rivals' \subseteq Verkeys
    BY <1>3 DEF IInv, TypeOK
  <2>3. /\ pc' \in [Tasks -> Steps] /\ goal' \in [Tasks -> Verkeys \cup {None}]
        /\ want' \in [Tasks -> CacheKeys \cup {None}]
        /\ alias' \in [Tasks -> Keys \cup {None}]
        /\ found' \in [Tasks -> Rows \cup {None}]
    BY <1>6 DEF IInv, TypeOK, Return, Steps
  <2>4. /\ change' \in [Tasks -> Rows \cup Keys \cup {None}]
        /\ victims' \in [Tasks -> SUBSET Uids]
        /\ seen' \in [Tasks -> Rows \cup {None}]
        /\ listed' \in [Tasks -> SUBSET Keys]
    BY <1>6 DEF IInv, TypeOK, Return
  <2> QED
    BY <2>1, <2>2, <2>3, <2>4 DEF TypeOK
<1>8. OthersWait(t)
  BY <1>6 DEF IInv, TypeOK, OthersWait, Return
<1>9. AddsGenuine
  BY <1>3 DEF AddsGenuine
<1>10. \/ /\ pc'[t] = "registered" /\ goal[t] # None /\ goal'[t] = goal[t]
          /\ want'[t] = want[t] /\ alias'[t] = alias[t] /\ found'[t] = found[t]
       \/ pc'[t] = "idle" /\ goal'[t] = None /\ alias'[t] = None /\ found'[t] = None
  BY <1>6 DEF IInv, TypeOK, Return
<1>11. TaskOK(t)' /\ ~InTransaction(t)'
  BY <1>10, RepoAssumption DEF IInv, TaskOK, InTransaction, CacheKeys
<1>12. GenuineTask(t)'
  BY <1>3, <1>10 DEF IInv, GenuineInv, GenuineTask, Genuine
<1>13. (\A s \in Tasks : TaskOK(s))' /\ GenuineInv'
  <2>1. \A x \in Uids : endpoints'[x] # None =>
                           endpoints'[x] \in stored' /\ endpoints'[x].uid = x
    BY <1>3, <1>4, <1>5 DEF IInv, GenuineInv
  <2> QED
    BY <1>3, <1>8, <1>9, <1>11, <1>12, <2>1, GenuineStep DEF IInv, GenuineInv
<1>14. \A x \in Uids \ {u} :
          endpoints'[x] # None /\ endpoints'[x].verkey = v => v \in rivals
  BY <1>1, <1>3, <1>5 DEF IInv, RivalInv, InTransaction
<1>15. RivalInv'
  <2>1. ASSUME NEW x \in Uids \ {u}, w # None, endpoints'[x] # None,
               endpoints'[x].verkey = w.verkey
        PROVE  w.verkey \in rivals
    <3>1. CASE w.verkey = v
      BY <1>14, <2>1, <3>1
    <3>2. CASE endpoints[u] # None /\ w.verkey = endpoints[u].verkey
      BY <1>5, <2>1, <3>2 DEF IInv, RivalInv, UniqueUnlessRivals
    <3> QED
      BY <1>4, <2>1, <3>1, <3>2
  <2>2. UniqueUnlessRivals'
    <3> SUFFICES ASSUME NEW x \in Uids, NEW y \in Uids, x # y,
                        endpoints'[x] # None, endpoints'[y] # None,
                        endpoints'[x].verkey = endpoints'[y].verkey
                 PROVE  endpoints'[x].verkey \in rivals
      BY <1>3 DEF UniqueUnlessRivals
    <3>1. CASE x = u \/ y = u
      BY <1>5, <2>1, <3>1
    <3>2. CASE x # u /\ y # u
      BY <1>5, <3>2 DEF IInv, RivalInv, UniqueUnlessRivals
    <3> QED
      BY <3>1, <3>2
  <2>3. ASSUME NEW s \in Tasks, InTransaction(s)'
        PROVE  s # t /\ InTransaction(s) /\ change'[s] = change[s] /\ victims'[s] = victims[s]
    BY <1>8, <1>11, <2>3 DEF OthersWait, InTransaction
  <2>4. ASSUME NEW s \in Tasks, InTransaction(s)',
               NEW x \in Uids \ {change'[s].uid},
               endpoints'[x] # None, endpoints'[x].verkey = change'[s].verkey,
               change'[s].verkey \notin rivals'
        PROVE  x \in victims'[s]
    <3>1. s # t /\ InTransaction(s) /\ change'[s] = change[s] /\ victims'[s] = victims[s]
      BY <2>3, <2>4
    <3>2. change[s].verkey \notin rivals /\ InTransaction(t)
      BY <1>3, <2>4, <3>1 DEF InTransaction
    <3>3. change[s].verkey # v
      BY <1>1, <3>1, <3>2 DEF IInv, RivalInv
    <3>4. endpoints[x] # None /\ endpoints[x].verkey = change[s].verkey
      BY <1>4, <1>5, <2>4, <3>1, <3>3
    <3> QED
      BY <2>4, <3>1, <3>2, <3>4 DEF IInv, RivalInv
  <2>5. ASSUME NEW r \in Tasks, NEW s \in Tasks, r # s, InTransaction(r)', InTransaction(s)',
               change'[r].verkey = change'[s].verkey
        PROVE  change'[r].verkey \in rivals'
    <3>1. /\ InTransaction(r) /\ change'[r] = change[r]
          /\ InTransaction(s) /\ change'[s] = change[s]
      BY <2>3, <2>5
    <3> QED
      BY <1>3, <2>5, <3>1 DEF IInv, RivalInv
  <2> QED
    BY <2>2, <2>4, <2>5 DEF RivalInv
<1> QED
  BY <1>7, <1>13, <1>15 DEF IInv

-----------------------------------------------------------------------------
(* Routing keys *)

LEMMA ChangeKeyIInv ==
    ASSUME IInv, NEW t \in Tasks, NEW k \in Keys, NEW step \in {"add", "remove"},
           ChangeKey(t, k, step)
    PROVE  IInv'
<1> USE DEF ChangeKey, Mediating, tables, caches, history
<1>1. TypeOK'
  <2>1. pc' \in [Tasks -> Steps] /\ change' \in [Tasks -> Rows \cup Keys \cup {None}]
    BY DEF IInv, TypeOK, Steps
  <2>2. lists' \in [Uids -> SUBSET Keys]
    BY DEF IInv, TypeOK
  <2>3. updates' \in 0 .. MaxUpdates
    BY RepoAssumption DEF IInv, TypeOK, Counted
  <2> QED
    BY <2>1, <2>2, <2>3 DEF IInv, TypeOK
<1>2. OthersWait(t) /\ AddsGenuine
  BY DEF IInv, TypeOK, OthersWait, AddsGenuine
<1>3. pc'[t] = step /\ change'[t] = k
  BY DEF IInv, TypeOK
<1>4. TaskOK(t)' /\ ~InTransaction(t)'
  BY <1>3 DEF IInv, TaskOK, InTransaction
<1>5. GenuineTask(t)'
  BY DEF IInv, GenuineInv, GenuineTask, Genuine
<1> QED
  BY <1>1, <1>2, <1>4, <1>5, StepIInv DEF IInv, GenuineInv

\* A routing key has been added or removed.
LEMMA KeyChangedIInv ==
    ASSUME IInv, NEW t \in Tasks, AddKey(t) \/ RemoveKey(t)
    PROVE  IInv'
<1> USE DEF AddKey, RemoveKey, caches
<1>1. change[t] \in Keys /\ found[t] \in Rows /\ found[t].uid \in Uids
  BY RepoAssumption DEF IInv, TypeOK, TaskOK, Rows
<1>2. /\ routes' \subseteq routes \cup {<<change[t], found[t].uid>>} /\ routes' \subseteq bound'
      /\ bound \subseteq bound' /\ bound' \subseteq bound \cup {<<change[t], found[t].uid>>}
  BY DEF IInv, GenuineInv, history
<1>3. /\ pc' = [pc EXCEPT ![t] = "loaded"] /\ change' = [change EXCEPT ![t] = None]
      /\ UNCHANGED <<endpoints, cache, lists, goal, want, alias, found, victims, seen,
                     listed, updates, stored, rivals>>
  BY DEF history
<1>4. TypeOK'
  <2>1. routes' \subseteq Keys \X Uids /\ bound' \subseteq Keys \X Uids
    BY <1>1, <1>2 DEF IInv, TypeOK
  <2> QED
    BY <1>3, <2>1 DEF IInv, TypeOK, Steps
<1>5. OthersWait(t) /\ AddsGenuine
  BY <1>3 DEF IInv, TypeOK, OthersWait, AddsGenuine
<1>6. pc[t] \in {"add", "remove"} /\ pc'[t] = "loaded"
  BY <1>3 DEF IInv, TypeOK
<1>7. want[t] # None
  BY <1>1, <1>6 DEF IInv, TaskOK
<1>8. TaskOK(t)' /\ ~InTransaction(t)'
  BY <1>3, <1>6, <1>7 DEF IInv, TaskOK, InTransaction
<1>9. GenuineTask(t)'
  BY <1>2, <1>3 DEF IInv, GenuineInv, GenuineTask, Genuine
<1> QED
  BY <1>2, <1>3, <1>4, <1>5, <1>8, <1>9, StepIInv

LEMMA SelectKeysIInv ==
    ASSUME IInv, NEW t \in Tasks, SelectKeys(t)
    PROVE  IInv'
<1> USE DEF SelectKeys, Mediating, tables, caches, history
<1>1. TypeOK'
  BY DEF IInv, TypeOK, Steps
<1>2. OthersWait(t) /\ AddsGenuine
  BY DEF IInv, TypeOK, OthersWait, AddsGenuine
<1>3. pc'[t] = "list"
  BY DEF IInv, TypeOK
<1>4. TaskOK(t)' /\ ~InTransaction(t)'
  BY <1>3 DEF IInv, TaskOK, InTransaction
<1>5. GenuineTask(t)'
  BY DEF IInv, GenuineInv, GenuineTask, Genuine
<1> QED
  BY <1>1, <1>2, <1>4, <1>5, StepIInv DEF IInv, GenuineInv

LEMMA StoreKeysIInv ==
    ASSUME IInv, NEW t \in Tasks, StoreKeys(t)
    PROVE  IInv'
<1>1. lists' \in [Uids -> SUBSET Keys]
  BY DEF IInv, TypeOK, StoreKeys
<1> QED
  BY <1>1, ReturnIInv DEF StoreKeys

-----------------------------------------------------------------------------
(* The cache *)

\* A cached row or list goes.
LEMMA ExpiredIInv ==
    ASSUME IInv, UNCHANGED <<tables, locals, updates, history>>,
           cache' \in [CacheKeys -> Rows \cup {None}], lists' \in [Uids -> SUBSET Keys],
           \A k \in CacheKeys : cache'[k] \in {cache[k], None}
    PROVE  IInv'
<1> USE DEF tables, locals, history
<1>1. TypeOK'
  BY DEF IInv, TypeOK
<1>2. \A t \in Tasks : TaskOK(t)' /\ GenuineTask(t)'
  BY DEF IInv, GenuineInv, TaskOK, GenuineTask, Genuine
<1>3. CachedIsGenuine'
  BY DEF IInv, GenuineInv, CachedIsGenuine, Genuine
<1>4. GenuineInv'
  BY <1>2, <1>3 DEF IInv, GenuineInv
<1>5. RivalInv'
  BY DEF IInv, RivalInv, UniqueUnlessRivals, InTransaction
<1> QED
  BY <1>1, <1>2, <1>4, <1>5 DEF IInv

LEMMA NextIInv ==
    ASSUME IInv, [Next]_vars
    PROVE  IInv'
<1>1. ASSUME NEW t \in Tasks, Loading(t)
      PROVE  IInv'
  BY <1>1, QueryIInv, QueryRouteIInv, LookIInv, FillIInv, AliasIInv DEF Loading
<1>2. ASSUME NEW t \in Tasks, Changing(t)
      PROVE  IInv'
  BY <1>2, RegisterIInv, StealIInv, LookupIInv, WriteIInv, KeyChangedIInv, StoreKeysIInv
  DEF Changing
<1>3. ASSUME NEW t \in Tasks, Ending(t)
      PROVE  IInv'
  <2>1. Return(t) /\ UNCHANGED <<tables, cache, updates, history>> /\ lists' = lists
    BY <1>3 DEF Ending, Answer, Registered, Rollback, caches
  <2>2. lists' \in [Uids -> SUBSET Keys]
    BY <2>1 DEF IInv, TypeOK
  <2> QED
    BY <2>1, <2>2, ReturnIInv
<1>4. ASSUME NEW t \in Tasks, Starting(t)
      PROVE  IInv'
  <2>1. ASSUME NEW k \in CacheKeys, Load(t, k)
        PROVE  IInv'
    BY <2>1, AskIInv DEF Load
  <2>2. ASSUME NEW u \in Uids, NEW v \in Verkeys, Onboard(t, u, v)
        PROVE  IInv'
    BY <2>2, AskIInv DEF Onboard, CacheKeys
  <2> QED
    BY <1>4, <2>1, <2>2 DEF Starting
<1>5. ASSUME NEW t \in Tasks, Continuing(t)
      PROVE  IInv'
  BY <1>5, CompleteIInv, FailoverIInv, SelectKeysIInv, ChangeKeyIInv DEF Continuing
<1>6. ASSUME NEW k \in CacheKeys, Expire(k)
      PROVE  IInv'
  BY <1>6, ExpiredIInv DEF Expire, IInv, TypeOK
<1>7. ASSUME NEW u \in Uids, ExpireList(u)
      PROVE  IInv'
  BY <1>7, ExpiredIInv DEF ExpireList, IInv, TypeOK
<1>8. CASE UNCHANGED vars
  BY <1>8, ExpiredIInv DEF vars, caches, IInv, TypeOK
<1> QED
  BY <1>1, <1>2, <1>3, <1>4, <1>5, <1>6, <1>7, <1>8 DEF Next

-----------------------------------------------------------------------------
\* The inductive invariant holds in every state of every behaviour.
THEOREM Invariance == Spec => []IInv
<1>1. Init => IInv
  BY InitIInv
<1>2. IInv /\ [Next]_vars => IInv'
  BY NextIInv
<1> QED
  BY <1>1, <1>2, PTL DEF Spec

\* The tables, the cache and the requests have their types.
THEOREM Typing == Spec => []TypeOK
<1>1. IInv => TypeOK
  BY DEF IInv
<1> QED
  BY <1>1, Invariance, PTL

\* A request never gets a row from the cache that was not true of the key it
\* asked for, whatever the requests that filled the cache were racing with.
THEOREM CacheIsGenuine == Spec => []CachedIsGenuine
<1>1. IInv => CachedIsGenuine
  BY DEF IInv, GenuineInv
<1> QED
  BY <1>1, Invariance, PTL

\* Two endpoints have the same verkey only if two transactions for that verkey
\* overlapped: nothing else lets a duplicate into the table.
THEOREM DuplicatesNeedRivals == Spec => []UniqueUnlessRivals
<1>1. IInv => UniqueUnlessRivals
  BY DEF IInv, RivalInv
<1> QED
  BY <1>1, Invariance, PTL

-----------------------------------------------------------------------------
(* Copies and the tables *)

KeysOf(u) == {k \in Keys : <<k, u>> \in routes}

\* A copy of a row under a key is what the tables say now.
CopyAgrees(k, row) == row = endpoints[row.uid] /\ (k \in Keys => <<k, row.uid>> \in routes)

\* So are the rows and lists that a task is about to store in the cache.
TaskAgrees(t) ==
    /\ pc[t] = "fill" => CopyAgrees(want[t], found[t])
    /\ pc[t] = "alias" => found[t] = endpoints[found[t].uid]
    /\ pc[t] \in {"look", "query", "fill", "alias"} /\ alias[t] # None
         => <<alias[t], want[t]>> \in routes
    /\ pc[t] = "list" => listed[t] = KeysOf(found[t].uid)

\* No copy is stale, in the cache or on its way to it.
Agreed ==
    /\ \A k \in CacheKeys : cache[k] # None => CopyAgrees(k, cache[k])
    /\ \A u \in Uids : lists[u] # {} => lists[u] = KeysOf(u)
    /\ \A t \in Tasks : TaskAgrees(t)

\* Only a commit makes a copy stale: whatever requests load, copy from copies
\* or drop, in whatever order, the cache agrees with the tables until a
\* transaction changes them.  It is the safe half of CacheConverges.
OnlyCommitsMakeStale == [][Agreed /\ UNCHANGED tables => Agreed']_vars

\* A step of one task that leaves the tables alone.
LEMMA AgreedStep ==
    ASSUME Agreed, UNCHANGED tables, NEW t \in Tasks,
           \A s \in Tasks \ {t} :
              /\ pc'[s] = pc[s] /\ want'[s] = want[s] /\ alias'[s] = alias[s]
              /\ found'[s] = found[s] /\ listed'[s] = listed[s],
           \A k \in CacheKeys : \/ cache'[k] \in {cache[k], None}
                                \/ CopyAgrees(k, cache'[k]),
           \A u \in Uids : lists'[u] \in {lists[u], {}, KeysOf(u)},
           TaskAgrees(t)'
    PROVE  Agreed'
<1> USE DEF tables
<1>1. \A k, row : CopyAgrees(k, row) <=> row = endpoints'[row.uid] /\ (k \in Keys => <<k, row.uid>> \in routes')
  BY DEF CopyAgrees
<1>2. \A k \in CacheKeys : cache'[k] # None => CopyAgrees(k, cache'[k])
  BY DEF Agreed
<1>3. \A u \in Uids : lists'[u] # {} => lists'[u] = KeysOf(u)
  BY DEF Agreed
<1>4. \A s \in Tasks \ {t} : TaskAgrees(s)'
  BY DEF Agreed, TaskAgrees, CopyAgrees, KeysOf
<1>5. \A u : KeysOf(u)' = KeysOf(u)
  BY DEF KeysOf
<1> QED
  BY <1>1, <1>2, <1>3, <1>4, <1>5 DEF Agreed, CopyAgrees, KeysOf

LEMMA AgreedLoading ==
    ASSUME IInv, Agreed, UNCHANGED tables, NEW t \in Tasks, Loading(t)
    PROVE  Agreed'
<1> USE DEF tables, caches
<1>0. TypeOK /\ TaskOK(t) /\ GenuineTask(t) /\ TaskAgrees(t)
  BY DEF IInv, GenuineInv, Agreed
<1>1. CASE Query(t)
  <2>1. want[t] \notin Keys
    BY <1>1, RepoAssumption DEF Query
  <2>2. ASSUME NEW row \in Selected(want[t]) PROVE row = endpoints[row.uid]
    BY <2>2 DEF Selected, IInv, GenuineInv
  <2>3. TaskAgrees(t)'
    BY <1>0, <1>1, <2>1, <2>2 DEF Query, TypeOK, TaskAgrees, CopyAgrees
  <2> QED
    BY <1>0, <1>1, <2>3, AgreedStep DEF Query, TypeOK
<1>2. CASE QueryRoute(t)
  <2>1. ASSUME NEW u \in Routed(want[t]) PROVE <<want[t], u>> \in routes
    <3>1. PICK p \in routes : p[1] = want[t] /\ p[2] = u
      BY <2>1 DEF Routed
    <3>2. p = <<p[1], p[2]>>
      BY <1>0, <3>1 DEF TypeOK
    <3> QED
      BY <3>1, <3>2
  <2>2. TaskAgrees(t)'
    BY <1>0, <1>2, <2>1 DEF QueryRoute, TypeOK, TaskAgrees
  <2> QED
    BY <1>0, <1>2, <2>2, AgreedStep DEF QueryRoute, TypeOK
<1>3. CASE Look(t)
  <2>1. want[t] \in CacheKeys
    BY <1>0, <1>3 DEF Look, TaskOK, TypeOK
  <2>2. cache[want[t]] # None => cache[want[t]] = endpoints[cache[want[t]].uid]
    BY <2>1 DEF Agreed, CopyAgrees
  <2>3. TaskAgrees(t)'
    BY <1>0, <1>3, <2>2 DEF Look, TypeOK, TaskAgrees
  <2> QED
    BY <1>0, <1>3, <2>3, AgreedStep DEF Look, TypeOK
<1>4. CASE Fill(t)
  <2>1. TaskAgrees(t)'
    BY <1>0, <1>4 DEF Fill, TypeOK, TaskAgrees, CopyAgrees
  <2>2. \A k \in CacheKeys : cache'[k] = cache[k] \/ (k = want[t] /\ cache'[k] = found[t])
    BY <1>0, <1>4 DEF Fill, TypeOK
  <2>3. CopyAgrees(want[t], found[t])
    BY <1>0, <1>4 DEF Fill, TaskAgrees
  <2> QED
    BY <1>0, <1>4, <2>1, <2>2, <2>3, AgreedStep DEF Fill, TypeOK
<1>5. CASE Alias(t)
  <2>1. TaskAgrees(t)'
    BY <1>0, <1>5 DEF Alias, TypeOK, TaskAgrees
  <2>2. \A k \in CacheKeys : cache'[k] = cache[k] \/ (k = alias[t] /\ cache'[k] = found[t])
    BY <1>0, <1>5 DEF Alias, TypeOK
  <2>3. found[t].uid = want[t] /\ alias[t] # None
    BY <1>0, <1>5 DEF Alias, TaskOK, GenuineTask, Genuine
  <2>4. CopyAgrees(alias[t], found[t])
    BY <1>0, <1>5, <2>3 DEF Alias, TaskAgrees, CopyAgrees
  <2> QED
    BY <1>0, <1>5, <2>1, <2>2, <2>4, AgreedStep DEF Alias, TypeOK
<1> QED
  BY <1>1, <1>2, <1>3, <1>4, <1>5 DEF Loading

\* A task that is not on the way to the cache has nothing to agree.
LEMMA AgreedElsewhere ==
    ASSUME IInv, Agreed, UNCHANGED tables, NEW t \in Tasks,
           Changing(t) \/ Ending(t) \/ Starting(t) \/ Continuing(t)
    PROVE  Agreed'
<1> USE DEF tables, caches
<1>0. TypeOK /\ TaskOK(t) /\ TaskAgrees(t)
  BY DEF IInv, Agreed
<1>1. ASSUME Return(t), caches' = caches PROVE Agreed'
  <2>1. TaskAgrees(t)'
    BY <1>0, <1>1 DEF Return, TypeOK, TaskAgrees
  <2> QED
    BY <1>0, <1>1, <2>1, AgreedStep DEF Return, TypeOK
<1>2. ASSUME NEW row, Ensure(t, row) PROVE Agreed'
  <2>1. TaskAgrees(t)'
    BY <1>0, <1>2 DEF Ensure, TypeOK, TaskAgrees
  <2> QED
    BY <1>0, <1>2, <2>1, AgreedStep DEF Ensure, TypeOK
<1>3. ASSUME pc'[t] \notin {"look", "query", "fill", "alias", "list"},
             \A s \in Tasks \ {t} : pc'[s] = pc[s],
             UNCHANGED <<caches, want, alias, found, listed>>
      PROVE  Agreed'
  <2>1. TaskAgrees(t)'
    BY <1>3 DEF TaskAgrees
  <2> QED
    BY <1>3, <2>1, AgreedStep
<1>4. CASE Ending(t)
  BY <1>1, <1>4 DEF Ending, Answer, Registered, Rollback
<1>5. CASE Starting(t)
  <2>1. PICK k \in CacheKeys : Ask(t, k) /\ pc[t] = "idle"
    BY <1>5 DEF Starting, Load, Onboard, CacheKeys
  <2>2. alias[t] = None
    BY <1>0, <2>1 DEF TaskOK
  <2>3. TaskAgrees(t)'
    BY <1>0, <2>1, <2>2 DEF Ask, TypeOK, TaskAgrees
  <2> QED
    BY <1>0, <2>1, <2>3, AgreedStep DEF Ask, TypeOK
<1>6. CASE Continuing(t)
  <2>1. CASE SelectKeys(t)
    <3>1. TaskAgrees(t)'
      BY <1>0, <2>1 DEF SelectKeys, TypeOK, TaskAgrees, KeysOf
    <3> QED
      BY <1>0, <2>1, <3>1, AgreedStep DEF SelectKeys, TypeOK
  <2>2. ASSUME NEW k, NEW step \in {"add", "remove"}, ChangeKey(t, k, step) PROVE Agreed'
    <3>1. TaskAgrees(t)'
      BY <1>0, <2>2 DEF ChangeKey, TypeOK, TaskAgrees
    <3> QED
      BY <1>0, <2>2, <3>1, AgreedStep DEF ChangeKey, TypeOK
  <2> QED
    BY <1>2, <1>6, <2>1, <2>2 DEF Continuing, Complete, Failover
<1>7. CASE Changing(t)
  <2>1. CASE Register(t)
    BY <1>0, <1>2, <1>3, <2>1 DEF Register, TypeOK
  <2>2. CASE Steal(t)
    BY <1>0, <1>3, <2>2 DEF Steal, TypeOK
  <2>3. CASE Lookup(t)
    BY <1>0, <1>3, <2>3 DEF Lookup, TypeOK
  <2>4. CASE Write(t)
    BY <1>0, <1>1, <1>3, <2>4 DEF Write, TypeOK
  <2>5. CASE AddKey(t) \/ RemoveKey(t)
    BY <1>0, <1>3, <2>5 DEF AddKey, RemoveKey, TypeOK
  <2>6. CASE StoreKeys(t)
    <3>1. TaskAgrees(t)'
      BY <1>0, <2>6 DEF StoreKeys, Return, TypeOK, TaskAgrees
    <3>2. listed[t] = KeysOf(found[t].uid)
      BY <1>0, <2>6 DEF StoreKeys, TaskAgrees
    <3> QED
      BY <1>0, <2>6, <3>1, <3>2, AgreedStep DEF StoreKeys, Return, TypeOK
  <2> QED
    BY <1>7, <2>1, <2>2, <2>3, <2>4, <2>5, <2>6 DEF Changing
<1> QED
  BY <1>4, <1>5, <1>6, <1>7

\* Every step that changes no table keeps the agreement.
THEOREM StaleOnlyByCommit == Spec => OnlyCommitsMakeStale
<1>1. IInv /\ [Next]_vars => [Agreed /\ UNCHANGED tables => Agreed']_vars
  <2> SUFFICES ASSUME IInv, Next, Agreed, UNCHANGED tables PROVE Agreed'
    OBVIOUS
  <2>1. ASSUME NEW t \in Tasks,
               Loading(t) \/ Changing(t) \/ Ending(t) \/ Starting(t) \/ Continuing(t)
        PROVE  Agreed'
    BY <2>1, AgreedLoading, AgreedElsewhere
  <2>2. ASSUME UNCHANGED locals,
               \A k \in CacheKeys : cache'[k] \in {cache[k], None},
               \A u \in Uids : lists'[u] \in {lists[u], {}}
        PROVE  Agreed'
    BY <2>2 DEF locals, tables, Agreed, TaskAgrees, CopyAgrees, KeysOf
  <2>3. ASSUME NEW k \in CacheKeys, Expire(k) PROVE Agreed'
    BY <2>2, <2>3 DEF Expire, IInv, TypeOK
  <2>4. ASSUME NEW u \in Uids, ExpireList(u) PROVE Agreed'
    BY <2>2, <2>4 DEF ExpireList, IInv, TypeOK
  <2> QED
    BY <2>1, <2>3, <2>4 DEF Next
<1> QED
  BY <1>1, Invariance, PTL DEF Spec, OnlyCommitsMakeStale

\* A cache that agrees stays so for as long as the tables do.
THEOREM AgreementLasts == Spec => [](Agreed /\ [][UNCHANGED tables]_vars => []Agreed)
<1>1. Agreed /\ UNCHANGED vars => Agreed'
  BY DEF vars, tables, caches, locals, Agreed, TaskAgrees, CopyAgrees, KeysOf
<1>2. Agreed /\ [Agreed /\ UNCHANGED tables => Agreed']_vars /\ [UNCHANGED tables]_vars => Agreed'
  BY <1>1
<1> QED
  BY <1>2, StaleOnlyByCommit, PTL DEF OnlyCommitsMakeStale

-----------------------------------------------------------------------------
(* Transactions *)

\* The row locks of the database, as far as they go: what a transaction deletes is
\* there, with the verkey that it is deleted for, until it ends.
LockInv ==
    \A t \in Tasks :
        /\ victims[t] # {} => InTransaction(t)
        /\ \A x \in victims[t] :
             /\ endpoints[x] # None /\ endpoints[x].verkey = change[t].verkey
             /\ x # change[t].uid
        /\ \A s \in Tasks \ {t} : victims[s] \cap victims[t] = {}

\* A step that writes no row, for a task that keeps what it has deleted or
\* deletes nothing.
LEMMA LockStep ==
    ASSUME LockInv, endpoints' = endpoints, NEW t \in Tasks,
           \A s \in Tasks \ {t} : pc'[s] = pc[s] /\ change'[s] = change[s] /\ victims'[s] = victims[s],
           \/ victims'[t] = {}
           \/ InTransaction(t)' /\ change'[t] = change[t] /\ victims'[t] = victims[t]
    PROVE  LockInv'
<1>1. \A s \in Tasks \ {t} : InTransaction(s)' = InTransaction(s)
  BY DEF InTransaction
<1> QED
  BY <1>1 DEF LockInv

LEMMA LockSteal ==
    ASSUME IInv, LockInv, NEW t \in Tasks, Steal(t)
    PROVE  LockInv'
<1>1. PICK u \in Uids, v \in Verkeys : change[t].uid = u /\ change[t].verkey = v
  BY DEF Steal, IInv, TaskOK, Rows
<1>2. /\ Holders(u, v) \cap DeletedByOthers(t) = {}
      /\ victims' = [victims EXCEPT ![t] = Holders(u, v)]
      /\ pc' = [pc EXCEPT ![t] = "lookup"]
      /\ UNCHANGED <<endpoints, change>>
  BY <1>1 DEF Steal, tables
<1>3. TypeOK
  BY DEF IInv
<1>4. InTransaction(t)' /\ \A s \in Tasks \ {t} : InTransaction(s)' = InTransaction(s)
  BY <1>2, <1>3 DEF TypeOK, InTransaction
<1>5. \A x \in Holders(u, v) : x \in Uids \ {u} /\ endpoints[x] # None /\ endpoints[x].verkey = v
  BY DEF Holders
<1>6. \A s \in Tasks \ {t} : victims[s] \cap Holders(u, v) = {}
  BY <1>2 DEF DeletedByOthers
<1>7. victims'[t] = Holders(u, v) /\ \A s \in Tasks \ {t} : victims'[s] = victims[s]
  BY <1>2, <1>3 DEF TypeOK
<1> QED
  BY <1>1, <1>2, <1>4, <1>5, <1>6, <1>7 DEF LockInv

\* A transaction writes no row that another has deleted.
LEMMA LockWrite ==
    ASSUME IInv, LockInv, NEW t \in Tasks, Write(t)
    PROVE  LockInv'
<1>1. TypeOK
  BY DEF IInv
<1>2. /\ change[t].uid \notin DeletedByOthers(t)
      /\ endpoints' = [x \in Uids |->
                         IF x = change[t].uid THEN Written(t)
                         ELSE IF x \in victims[t] THEN None ELSE endpoints[x]]
  BY DEF Write
<1>3. /\ victims'[t] = {}
      /\ \A s \in Tasks \ {t} : pc'[s] = pc[s] /\ change'[s] = change[s] /\ victims'[s] = victims[s]
  BY <1>1 DEF Write, Return, TypeOK
<1>4. ASSUME NEW s \in Tasks \ {t}, NEW x \in victims[s] PROVE endpoints'[x] = endpoints[x]
  BY <1>1, <1>2, <1>4 DEF DeletedByOthers, LockInv, TypeOK
<1>5. \A s \in Tasks \ {t} : InTransaction(s)' = InTransaction(s)
  BY <1>3 DEF InTransaction
<1> QED
  BY <1>3, <1>4, <1>5 DEF LockInv

LEMMA LockNext == IInv /\ LockInv /\ [Next]_vars => LockInv'
<1> SUFFICES ASSUME IInv, LockInv, [Next]_vars PROVE LockInv'
  OBVIOUS
<1> USE DEF tables, caches
<1>0. TypeOK
  BY DEF IInv
<1>1. ASSUME NEW t \in Tasks, pc[t] \notin {"lookup", "write"},
             \A s \in Tasks \ {t} : pc'[s] = pc[s] /\ change'[s] = change[s],
             UNCHANGED <<endpoints, victims>>
      PROVE  LockInv'
  <2>1. victims[t] = {}
    BY <1>1 DEF LockInv, InTransaction
  <2> QED
    BY <1>1, <2>1, LockStep
<1>2. ASSUME NEW t \in Tasks, Return(t), endpoints' = endpoints PROVE LockInv'
  BY <1>0, <1>2, LockStep DEF Return, TypeOK
<1>3. ASSUME NEW t \in Tasks, Loading(t) \/ Starting(t) PROVE LockInv'
  BY <1>0, <1>1, <1>3 DEF Loading, Query, QueryRoute, Look, Fill, Alias, Starting, Load, Onboard, Ask,
                          TypeOK
<1>4. ASSUME NEW t \in Tasks, Ending(t) PROVE LockInv'
  BY <1>2, <1>4 DEF Ending, Answer, Registered, Rollback
<1>5. ASSUME NEW t \in Tasks, Continuing(t) PROVE LockInv'
  BY <1>0, <1>1, <1>5 DEF Continuing, Complete, Failover, Ensure, SelectKeys, ChangeKey, Mediating,
                          TypeOK
<1>6. ASSUME NEW t \in Tasks, Changing(t) PROVE LockInv'
  <2>1. CASE Register(t)
    BY <1>0, <1>1, <2>1 DEF Register, Ensure, TypeOK
  <2>2. CASE Steal(t) \/ Write(t)
    BY <2>2, LockSteal, LockWrite
  <2>3. CASE Lookup(t)
    <3>1. InTransaction(t)'
      BY <1>0, <2>3 DEF Lookup, InTransaction, TypeOK
    <3> QED
      BY <1>0, <2>3, <3>1, LockStep DEF Lookup, TypeOK
  <2>4. CASE AddKey(t) \/ RemoveKey(t)
    BY <1>0, <1>1, <2>4 DEF AddKey, RemoveKey, TypeOK
  <2>5. CASE StoreKeys(t)
    BY <1>2, <2>5 DEF StoreKeys
  <2> QED
    BY <1>6, <2>1, <2>2, <2>3, <2>4, <2>5 DEF Changing
<1>7. ASSUME UNCHANGED <<endpoints, locals>> PROVE LockInv'
  BY <1>7 DEF locals, LockInv, InTransaction
<1>8. ASSUME NEW k, Expire(k) \/ ExpireList(k) PROVE LockInv'
  BY <1>7, <1>8 DEF Expire, ExpireList
<1>9. CASE UNCHANGED vars
  BY <1>7, <1>9 DEF vars
<1> QED
  BY <1>3, <1>4, <1>5, <1>6, <1>8, <1>9 DEF Next

\* What a transaction deletes is locked for it.
THEOREM DeletedIsLocked == Spec => []LockInv
<1>1. Init => LockInv
  BY DEF Init, LockInv
<1> QED
  BY <1>1, LockNext, Invariance, PTL DEF Spec

\* An endpoint goes only for another one that registers its verkey: the verkey
\* the endpoint has when it goes is the one that was looked for some steps
\* earlier, whatever other requests did in between.
GoesForItsVerkey ==
    [][\A u \in Uids : endpoints[u] # None /\ endpoints'[u] = None =>
         \E t \in Tasks : /\ pc[t] = "write" /\ change[t].uid # u
                          /\ change[t].verkey = endpoints[u].verkey]_vars

\* No request deletes an endpoint that has got another verkey meanwhile.
THEOREM DeletedForItsVerkey == Spec => GoesForItsVerkey
<1>1. IInv /\ LockInv /\ [Next]_vars =>
        [\A u \in Uids : endpoints[u] # None /\ endpoints'[u] = None =>
           \E t \in Tasks : /\ pc[t] = "write" /\ change[t].uid # u
                            /\ change[t].verkey = endpoints[u].verkey]_vars
  <2> SUFFICES ASSUME IInv, LockInv, Next, NEW u \in Uids, endpoints[u] # None, endpoints'[u] = None
               PROVE  \E t \in Tasks : /\ pc[t] = "write" /\ change[t].uid # u
                                       /\ change[t].verkey = endpoints[u].verkey
    OBVIOUS
  <2> USE DEF tables, caches
  <2>1. ASSUME NEW t \in Tasks,
               Loading(t) \/ Changing(t) \/ Ending(t) \/ Starting(t) \/ Continuing(t)
        PROVE  Write(t)
    <3>1. CASE Loading(t) \/ Starting(t)
      BY <3>1 DEF Loading, Query, QueryRoute, Look, Fill, Alias, Starting, Load, Onboard, Ask
    <3>2. CASE Ending(t) \/ Continuing(t)
      BY <3>2 DEF Ending, Answer, Registered, Rollback, Continuing, Complete, Failover, Ensure,
                  SelectKeys, ChangeKey
    <3>3. CASE Changing(t)
      BY <3>3 DEF Changing, Register, Ensure, Steal, Lookup, AddKey, RemoveKey, StoreKeys
    <3> QED
      BY <2>1, <3>1, <3>2, <3>3
  <2>2. PICK t \in Tasks : Write(t)
    BY <2>1 DEF Next, Expire, ExpireList
  <2>3. u # change[t].uid
    <3> SUFFICES ASSUME u = change[t].uid PROVE FALSE
      OBVIOUS
    <3>1. seen[t] # None /\ Written(t) = None
      BY <2>2 DEF Write
    <3>2. Updated(endpoints[u], seen[t], change[t]) = None
      BY <3>1 DEF Written
    <3>3. Updated(endpoints[u], seen[t], change[t]) \in Rows
      BY <2>2, <3>1 DEF Write, Updated, IInv, TypeOK, TaskOK, Rows
    <3> QED
      BY <3>2, <3>3, RepoAssumption
  <2>4. u \in victims[t]
    BY <2>2, <2>3 DEF Write
  <2> QED
    BY <2>2, <2>3, <2>4 DEF Write, LockInv
<1> QED
  BY <1>1, Invariance, DeletedIsLocked, PTL DEF Spec, GoesForItsVerkey

\* No two transactions for one verkey at a time.
OneAtATime ==
    \A s, t \in Tasks : s # t /\ InTransaction(s) /\ InTransaction(t)
                          => change[s].verkey # change[t].verkey

\* What the comment says, outright.
VerkeysUnique ==
    \A u, x \in Uids : u # x /\ endpoints[u] # None /\ endpoints[x] # None
                         => endpoints[u].verkey # endpoints[x].verkey

\* Were the transactions for a verkey run one after the other, no two endpoints
\* would share it: the exception of UniqueUnlessRivals is all there is.
THEOREM UniqueOneAtATime == Spec /\ []OneAtATime => []VerkeysUnique
<1> DEFINE NoRivals == rivals = {}
<1>1. Init => NoRivals
  BY DEF Init
<1>2. IInv /\ NoRivals /\ OneAtATime' /\ [Next]_vars => NoRivals'
  <2> SUFFICES ASSUME IInv, rivals = {}, OneAtATime', Next, rivals' # {} PROVE FALSE
    BY DEF vars, history
  <2> USE DEF tables, caches, history
  <2>1. ASSUME NEW t \in Tasks,
               Loading(t) \/ Changing(t) \/ Ending(t) \/ Starting(t) \/ Continuing(t)
        PROVE  Steal(t)
    <3>1. CASE Loading(t) \/ Starting(t)
      BY <3>1 DEF Loading, Query, QueryRoute, Look, Fill, Alias, Starting, Load, Onboard, Ask
    <3>2. CASE Ending(t) \/ Continuing(t)
      BY <3>2 DEF Ending, Answer, Registered, Rollback, Continuing, Complete, Failover, Ensure,
                  SelectKeys, ChangeKey
    <3>3. CASE Changing(t)
      BY <3>3 DEF Changing, Register, Ensure, Lookup, Write, AddKey, RemoveKey, StoreKeys
    <3> QED
      BY <2>1, <3>1, <3>2, <3>3
  <2>2. PICK t \in Tasks : Steal(t)
    BY <2>1 DEF Next, Expire, ExpireList
  <2>3. PICK s \in Tasks \ {t} : InTransaction(s) /\ change[s].verkey = change[t].verkey
    BY <2>2 DEF Steal
  <2>4. InTransaction(s)' /\ InTransaction(t)' /\ change' = change
    BY <2>2, <2>3 DEF Steal, InTransaction, IInv, TypeOK
  <2> QED
    BY <2>3, <2>4 DEF OneAtATime
<1>3. IInv /\ NoRivals => VerkeysUnique
  BY DEF IInv, RivalInv, UniqueUnlessRivals, VerkeysUnique
<1> HIDE DEF NoRivals
<1> QED
  BY <1>1, <1>2, <1>3, Invariance, PTL DEF Spec
=============================================================================
