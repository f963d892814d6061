-------------------------------- MODULE Repo --------------------------------
(***************************************************************************)
(* The endpoints of the mediator: two tables of the database (endpoints,   *)
(* routing_keys) behind the cache that class Repo keeps in memcached, and  *)
(* the requests that load and change them from several worker processes.   *)
(*                                                                         *)
(* A request is a task.  Every call of memcached and every statement of    *)
(* the database is a step of its own; the tasks interleave between them.   *)
(* The database runs at READ COMMITTED: a statement sees what is committed *)
(* when it starts and waits for the rows that another transaction deletes. *)
(* Of an endpoint the verkey and the Redis address are told apart.  The    *)
(* same row may be in the cache three times: under its uid, under its      *)
(* verkey and under a routing key.                                         *)
(***************************************************************************)
EXTENDS Naturals, FiniteSets

CONSTANTS
    Tasks,       \* concurrent requests
    Uids,        \* endpoints, one for a DID
    Verkeys,     \* verkeys of the devices
    Addrs,       \* Redis servers
    Keys,        \* routing keys
    None,        \* absent value
    MaxUpdates   \* bound: how many changes start

CacheKeys == Uids \cup Verkeys \cup Keys
Rows == [uid : Uids, verkey : Verkeys, addr : Addrs \cup {None}]

ASSUME RepoAssumption ==
    /\ Uids \cap Verkeys = {} /\ Uids \cap Keys = {} /\ Verkeys \cap Keys = {}
    /\ None \notin CacheKeys \cup Addrs \cup Rows
    /\ MaxUpdates \in Nat

VARIABLES
    endpoints,  \* table endpoints: uid -> row, None when absent
    routes,     \* table routing_keys: pairs of a routing key and a uid
    cache,      \* cached endpoints: uid, verkey or routing key -> row
    lists,      \* cached lists of routing keys; an empty list is not a hit
    pc,         \* where a task is
    goal,       \* the verkey a task registers, None when it only loads
    want,       \* the cache key a task loads
    alias,      \* the routing key a task loads the endpoint for
    found,      \* the row a task has loaded
    change,     \* the row or the routing key that a task is about to write
    victims,    \* rows that the transaction of a task has deleted
    seen,       \* the row that the transaction of a task has selected
    listed,     \* the routing keys that a task has selected
    updates,    \* how many changes have started
    stored,     \* history: rows that were in the table
    bound,      \* history: pairs that were in routing_keys
    rivals      \* history: verkeys for which two transactions overlapped

tables  == <<endpoints, routes>>
caches  == <<cache, lists>>
locals  == <<pc, goal, want, alias, found, change, victims, seen,
             listed>>
history == <<stored, bound, rivals>>
vars == <<tables, caches, locals, updates, history>>

Init ==
    /\ endpoints = [u \in Uids |-> None]
    /\ routes = {}
    /\ cache = [k \in CacheKeys |-> None]
    /\ lists = [u \in Uids |-> {}]
    /\ pc = [t \in Tasks |-> "idle"]
    /\ goal = [t \in Tasks |-> None]
    /\ want = [t \in Tasks |-> None]
    /\ alias = [t \in Tasks |-> None]
    /\ found = [t \in Tasks |-> None]
    /\ change = [t \in Tasks |-> None]
    /\ victims = [t \in Tasks |-> {}]
    /\ seen = [t \in Tasks |-> None]
    /\ listed = [t \in Tasks |-> {}]
    /\ updates = 0
    /\ stored = {} /\ bound = {} /\ rivals = {}

\* A task ends, with or without an answer.
Return(t) ==
    /\ pc' = [pc EXCEPT ![t] = "idle"]
    /\ goal' = [goal EXCEPT ![t] = None]
    /\ want' = [want EXCEPT ![t] = None]
    /\ alias' = [alias EXCEPT ![t] = None]
    /\ found' = [found EXCEPT ![t] = None]
    /\ change' = [change EXCEPT ![t] = None]
    /\ victims' = [victims EXCEPT ![t] = {}]
    /\ seen' = [seen EXCEPT ![t] = None]
    /\ listed' = [listed EXCEPT ![t] = {}]

\* A change starts.
Counted == updates < MaxUpdates /\ updates' = updates + 1

-----------------------------------------------------------------------------
(* Loading an endpoint: load_endpoint and its two variants *)

\* The cache is asked for k: a hit is the answer, a miss goes to the database.
Ask(t, k) ==
    /\ want' = [want EXCEPT ![t] = k]
    /\ found' = [found EXCEPT ![t] = cache[k]]
    /\ pc' = [pc EXCEPT ![t] = IF cache[k] # None THEN "loaded" ELSE "query"]
    /\ UNCHANGED <<tables, caches, alias, change, victims, seen, listed,
                   history>>

\* A post to an endpoint, a post to the router or a mediation request loads.
Load(t, k) ==
    /\ pc[t] = "idle"
    /\ Ask(t, k)
    /\ UNCHANGED <<goal, updates>>

\* A connection request of the DID of u, with verkey v: build_did_doc_extra.
Onboard(t, u, v) ==
    /\ pc[t] = "idle"
    /\ goal' = [goal EXCEPT ![t] = v]
    /\ Ask(t, u)
    /\ Counted

\* The rows that a select gives for a uid or a verkey.
Selected(k) == {endpoints[u] : u \in {x \in Uids : endpoints[x] # None
                                        /\ k \in {x, endpoints[x].verkey}}}

Query(t) ==
    /\ pc[t] = "query"
    /\ want[t] \in Uids \cup Verkeys
    /\ \/ /\ Selected(want[t]) = {}
          /\ pc' = [pc EXCEPT ![t] = "loaded"]
          /\ UNCHANGED found
       \/ \E row \in Selected(want[t]) :
            /\ found' = [found EXCEPT ![t] = row]
            /\ pc' = [pc EXCEPT ![t] = "fill"]
    /\ UNCHANGED <<tables, caches, goal, want, alias, change, victims, seen,
                   listed, updates, history>>

Routed(k) == {pair[2] : pair \in {p \in routes : p[1] = k}}

\* The routing key gives a uid, and that endpoint is loaded in turn.
QueryRoute(t) ==
    /\ pc[t] = "query"
    /\ want[t] \in Keys
    /\ \/ /\ Routed(want[t]) = {}
          /\ pc' = [pc EXCEPT ![t] = "loaded"]
          /\ UNCHANGED <<want, alias>>
       \/ \E u \in Routed(want[t]) :
            /\ alias' = [alias EXCEPT ![t] = want[t]]
            /\ want' = [want EXCEPT ![t] = u]
            /\ pc' = [pc EXCEPT ![t] = "look"]
    /\ UNCHANGED <<tables, caches, goal, found, change, victims, seen, listed,
                   updates, history>>

Look(t) ==
    /\ pc[t] = "look"
    /\ found' = [found EXCEPT ![t] = cache[want[t]]]
    /\ pc' = [pc EXCEPT ![t] = IF cache[want[t]] # None THEN "alias" ELSE "query"]
    /\ UNCHANGED <<tables, caches, goal, want, alias, change, victims, seen,
                   listed, updates, history>>

\* The row goes into the cache under the key that was asked for ...
Fill(t) ==
    /\ pc[t] = "fill"
    /\ cache' = [cache EXCEPT ![want[t]] = found[t]]
    /\ pc' = [pc EXCEPT ![t] = IF alias[t] = None THEN "loaded" ELSE "alias"]
    /\ UNCHANGED <<tables, lists, goal, want, alias, found, change, victims, seen,
                   listed, updates, history>>

\* ... and under the routing key that led to it.
Alias(t) ==
    /\ pc[t] = "alias"
    /\ cache' = [cache EXCEPT ![alias[t]] = found[t]]
    /\ pc' = [pc EXCEPT ![t] = "loaded"]
    /\ UNCHANGED <<tables, lists, goal, want, alias, found, change, victims, seen,
                   listed, updates, history>>

\* The loaded endpoint is the answer, or there is none.
Answer(t) ==
    /\ pc[t] = "loaded"
    /\ goal[t] = None
    /\ Return(t)
    /\ UNCHANGED <<tables, caches, updates, history>>

-----------------------------------------------------------------------------
(* Changing an endpoint: ensure_endpoint_exists *)

\* Mutant of Ensure: the new row goes into the cache before the transaction.
Ensure_WriteThrough(t, row) ==
    /\ change' = [change EXCEPT ![t] = row]
    /\ cache' = [cache EXCEPT ![row.uid] = row]
    /\ pc' = [pc EXCEPT ![t] = "steal"]
    /\ UNCHANGED <<tables, lists, want, alias, found, victims, seen, listed, history>>

\* Repo.ensure_endpoint_exists: the row under the uid leaves the cache before
\* the transaction.  The verkey that is looked up to remove the other copies is
\* stored in another namespace of the cache and is never found.
Ensure(t, row) ==
    /\ change' = [change EXCEPT ![t] = row]
    /\ cache' = [cache EXCEPT ![row.uid] = None]
    /\ pc' = [pc EXCEPT ![t] = "steal"]
    /\ UNCHANGED <<tables, lists, want, alias, found, victims, seen, listed, history>>

\* build_did_doc_extra: a new endpoint gets an address, a changed verkey is
\* stored, an endpoint that is as it should be stays.
Register(t) ==
    LET row == found[t]
    IN  /\ pc[t] = "loaded"
        /\ goal[t] # None
        /\ \/ /\ row # None
              /\ row.verkey = goal[t]
              /\ pc' = [pc EXCEPT ![t] = "registered"]
              /\ UNCHANGED <<tables, caches, want, alias, found, change, victims,
                             seen, listed, history>>
           \/ /\ row = None
              /\ \E a \in Addrs :
                   Ensure(t, [uid |-> want[t], verkey |-> goal[t], addr |-> a])
           \/ /\ row # None
              /\ row.verkey # goal[t]
              /\ \E a \in IF row.addr = None THEN Addrs ELSE {None} :
                   Ensure(t, [uid |-> want[t], verkey |-> goal[t], addr |-> a])
        /\ UNCHANGED <<goal, updates>>

\* post_create_pairwise after the connection protocol: the endpoint is stored
\* again with the data of the agent, unless the agent is known as it is.
Complete(t) ==
    /\ pc[t] = "registered"
    /\ goal' = [goal EXCEPT ![t] = None]
    /\ Ensure(t, [uid |-> want[t], verkey |-> goal[t], addr |-> None])
    /\ UNCHANGED updates

Registered(t) ==
    /\ pc[t] = "registered"
    /\ Return(t)
    /\ UNCHANGED <<tables, caches, updates, history>>

\* post_to_device when Redis is unreachable: the endpoint, as it was loaded,
\* is stored with the address of another server.
Failover(t) ==
    /\ pc[t] = "loaded"
    /\ goal[t] = None
    /\ found[t] # None
    /\ want[t] \notin Verkeys
    /\ Counted
    /\ \E a \in Addrs : Ensure(t, [found[t] EXCEPT !.addr = a])
    /\ UNCHANGED goal

InTransaction(t) == pc[t] \in {"lookup", "write"}

\* The rows deleted by transactions that are not committed.
DeletedByOthers(t) == UNION {victims[s] : s \in Tasks \ {t}}

\* Mutant of Holders: the condition of the delete has lost the verkey.
Holders_None(u, v) == {}

\* The other endpoints that have the verkey.
Holders(u, v) == {x \in Uids \ {u} : endpoints[x] # None /\ endpoints[x].verkey = v}

\* The transaction deletes the other endpoints with this verkey.
Steal(t) ==
    LET u == change[t].uid
        v == change[t].verkey
    IN  /\ pc[t] = "steal"
        /\ Holders(u, v) \cap DeletedByOthers(t) = {}
        /\ victims' = [victims EXCEPT ![t] = Holders(u, v)]
        /\ pc' = [pc EXCEPT ![t] = "lookup"]
        /\ rivals' = IF \E s \in Tasks \ {t} : InTransaction(s) /\ change[s].verkey = v
                       THEN rivals \cup {v} ELSE rivals
        /\ UNCHANGED <<tables, caches, goal, want, alias, found, change, seen, listed,
                       updates, stored, bound>>

Lookup(t) ==
    /\ pc[t] = "lookup"
    /\ seen' = [seen EXCEPT ![t] = endpoints[change[t].uid]]
    /\ pc' = [pc EXCEPT ![t] = "write"]
    /\ UNCHANGED <<tables, caches, goal, want, alias, found, change, victims, listed,
                   updates, history>>

\* The row after an update: the fields that differ from the selected row.
Updated(old, sel, new) ==
    [uid    |-> old.uid,
     verkey |-> IF new.verkey # sel.verkey THEN new.verkey ELSE old.verkey,
     addr   |-> IF new.addr \notin {None, sel.addr} THEN new.addr ELSE old.addr]

\* What the transaction of a task writes to the row it is about: an update of
\* a row that is gone changes nothing.
Written(t) ==
    LET old == endpoints[change[t].uid]
    IN  IF seen[t] = None THEN change[t]
        ELSE IF old = None THEN None
        ELSE Updated(old, seen[t], change[t])

\* The transaction writes its row and commits.
Write(t) ==
    LET u == change[t].uid
    IN  /\ pc[t] = "write"
        /\ u \notin DeletedByOthers(t)
        /\ seen[t] = None => endpoints[u] = None
        /\ endpoints' = [x \in Uids |->
                           IF x = u THEN Written(t)
                           ELSE IF x \in victims[t] THEN None ELSE endpoints[x]]
        /\ stored' = stored \cup ({Written(t)} \ {None})
        /\ \/ /\ goal[t] # None
              /\ pc' = [pc EXCEPT ![t] = "registered"]
              /\ victims' = [victims EXCEPT ![t] = {}]
              /\ seen' = [seen EXCEPT ![t] = None]
              /\ change' = [change EXCEPT ![t] = None]
              /\ UNCHANGED <<goal, want, alias, found, listed>>
           \/ /\ goal[t] = None
              /\ Return(t)
        /\ UNCHANGED <<routes, caches, updates, bound, rivals>>

\* The transaction fails and is rolled back: the row was inserted meanwhile,
\* the connection broke, or the database resolves a deadlock.
Rollback(t) ==
    /\ pc[t] \in {"steal", "lookup", "write"}
    /\ Return(t)
    /\ UNCHANGED <<tables, caches, updates, history>>

-----------------------------------------------------------------------------
(* Routing keys, on behalf of the device whose endpoint was loaded *)

Mediating(t) ==
    pc[t] = "loaded" /\ goal[t] = None /\ found[t] # None /\ want[t] \in Verkeys

\* add_routing_key and remove_routing_key: the list leaves the cache first.
ChangeKey(t, k, step) ==
    /\ Mediating(t)
    /\ Counted
    /\ change' = [change EXCEPT ![t] = k]
    /\ lists' = [lists EXCEPT ![found[t].uid] = {}]
    /\ pc' = [pc EXCEPT ![t] = step]
    /\ UNCHANGED <<tables, cache, goal, want, alias, found, victims, seen, listed,
                   history>>

\* Mutant of AddKey: the two columns of the new row are swapped.
AddKey_Swapped(t) ==
    /\ pc[t] = "add"
    /\ routes' = routes \cup {<<found[t].uid, change[t]>>}
    /\ bound' = bound \cup {<<found[t].uid, change[t]>>}
    /\ pc' = [pc EXCEPT ![t] = "loaded"]
    /\ change' = [change EXCEPT ![t] = None]
    /\ UNCHANGED <<endpoints, caches, goal, want, alias, found, victims, seen, listed,
                   updates, stored, rivals>>

AddKey(t) ==
    /\ pc[t] = "add"
    /\ routes' = routes \cup {<<change[t], found[t].uid>>}
    /\ bound' = bound \cup {<<change[t], found[t].uid>>}
    /\ pc' = [pc EXCEPT ![t] = "loaded"]
    /\ change' = [change EXCEPT ![t] = None]
    /\ UNCHANGED <<endpoints, caches, goal, want, alias, found, victims, seen, listed,
                   updates, stored, rivals>>

RemoveKey(t) ==
    /\ pc[t] = "remove"
    /\ routes' = routes \ {<<change[t], found[t].uid>>}
    /\ pc' = [pc EXCEPT ![t] = "loaded"]
    /\ change' = [change EXCEPT ![t] = None]
    /\ UNCHANGED <<endpoints, caches, goal, want, alias, found, victims, seen, listed,
                   updates, history>>

\* list_routing_key, when the list is not in the cache.
SelectKeys(t) ==
    /\ Mediating(t)
    /\ lists[found[t].uid] = {}
    /\ listed' = [listed EXCEPT ![t] = {k \in Keys : <<k, found[t].uid>> \in routes}]
    /\ pc' = [pc EXCEPT ![t] = "list"]
    /\ UNCHANGED <<tables, caches, goal, want, alias, found, change, victims, seen,
                   updates, history>>

StoreKeys(t) ==
    /\ pc[t] = "list"
    /\ lists' = [lists EXCEPT ![found[t].uid] = listed[t]]
    /\ Return(t)
    /\ UNCHANGED <<tables, cache, updates, history>>

-----------------------------------------------------------------------------
\* Mutant of Expire: what is stored under a verkey never expires.
Expire_NoVerkeys(k) ==
    /\ k \notin Verkeys
    /\ cache[k] # None
    /\ cache' = [cache EXCEPT ![k] = None]
    /\ UNCHANGED <<tables, lists, locals, updates, history>>

\* memcached drops what is older than MEMCACHED_TIMEOUT, or when it is full.
Expire(k) ==
    /\ cache[k] # None
    /\ cache' = [cache EXCEPT ![k] = None]
    /\ UNCHANGED <<tables, lists, locals, updates, history>>

ExpireList(u) ==
    /\ lists[u] # {}
    /\ lists' = [lists EXCEPT ![u] = {}]
    /\ UNCHANGED <<tables, cache, locals, updates, history>>

Loading(t) == Query(t) \/ QueryRoute(t) \/ Look(t) \/ Fill(t) \/ Alias(t)
Changing(t) == Register(t) \/ Steal(t) \/ Lookup(t) \/ Write(t) \/ AddKey(t)
                 \/ RemoveKey(t) \/ StoreKeys(t)
Ending(t) == Answer(t) \/ Registered(t) \/ Rollback(t)

Starting(t) ==
    \/ \E k \in CacheKeys : Load(t, k)
    \/ \E u \in Uids, v \in Verkeys : Onboard(t, u, v)

Continuing(t) ==
    \/ Complete(t)
    \/ Failover(t)
    \/ SelectKeys(t)
    \/ \E k \in Keys, step \in {"add", "remove"} : ChangeKey(t, k, step)

Next ==
    \/ \E t \in Tasks : Loading(t) \/ Changing(t) \/ Ending(t) \/ Starting(t) \/ Continuing(t)
    \/ \E k \in CacheKeys : Expire(k)
    \/ \E u \in Uids : ExpireList(u)

Spec == Init /\ [][Next]_vars

\* A request that runs comes to its end and cached entries expire.
Fairness ==
    /\ \A t \in Tasks : WF_vars(Loading(t) \/ Changing(t) \/ Ending(t))
    /\ \A k \in CacheKeys : WF_vars(Expire(k))
    /\ \A u \in Uids : WF_vars(ExpireList(u))

FairSpec == Spec /\ Fairness

-----------------------------------------------------------------------------
Steps == {"idle", "query", "look", "fill", "alias", "loaded", "registered",
          "steal", "lookup", "write", "add", "remove", "list"}

TypeOK ==
    /\ endpoints \in [Uids -> Rows \cup {None}]
    /\ routes \subseteq Keys \X Uids
    /\ cache \in [CacheKeys -> Rows \cup {None}]
    /\ lists \in [Uids -> SUBSET Keys]
    /\ pc \in [Tasks -> Steps]
    /\ goal \in [Tasks -> Verkeys \cup {None}]
    /\ want \in [Tasks -> CacheKeys \cup {None}]
    /\ alias \in [Tasks -> Keys \cup {None}]
    /\ found \in [Tasks -> Rows \cup {None}]
    /\ change \in [Tasks -> Rows \cup Keys \cup {None}]
    /\ victims \in [Tasks -> SUBSET Uids]
    /\ seen \in [Tasks -> Rows \cup {None}]
    /\ listed \in [Tasks -> SUBSET Keys]
    /\ updates \in 0 .. MaxUpdates
    /\ stored \subseteq Rows
    /\ bound \subseteq Keys \X Uids
    /\ rivals \subseteq Verkeys

\* A row that was true of a key once: it was in the table, with that uid, with
\* that verkey, or with a uid that the routing key was bound to.
Genuine(k, row) ==
    /\ row \in stored
    /\ k \in Uids => row.uid = k
    /\ k \in Verkeys => row.verkey = k
    /\ k \in Keys => <<k, row.uid>> \in bound

\* What the cache gives for a key was true of that key once, whatever changed
\* while the row was on its way from the database, or from another copy.
CachedIsGenuine == \A k \in CacheKeys : cache[k] # None => Genuine(k, cache[k])

\* "Check there no two ore more endpoints with same verkey": two endpoints
\* share a verkey only when two transactions for that verkey overlapped.
UniqueUnlessRivals ==
    \A u, x \in Uids :
        /\ u # x /\ endpoints[u] # None /\ endpoints[x] # None
        /\ endpoints[u].verkey = endpoints[x].verkey
        => endpoints[u].verkey \in rivals

\* Once nobody changes the tables any more, the cache comes to agree with them
\* and stays so, although nothing removes the copies under a verkey or a
\* routing key and although a copy may be made of a copy.
CacheConverges ==
    <>[](/\ \A k \in CacheKeys : cache[k] # None =>
              /\ cache[k] = endpoints[cache[k].uid]
              /\ k \in Keys => <<k, cache[k].uid>> \in routes
         /\ \A u \in Uids : lists[u] # {} => lists[u] = {k \in Keys : <<k, u>> \in routes})

\* "configure redis pubsub infrastructure for endpoint": the registration of a
\* device leaves an endpoint with a Redis address.
RegistrationConfiguresRedis ==
    [][\A t \in Tasks : pc[t] = "write" /\ pc'[t] = "registered" =>
         LET u == change[t].uid
         IN  endpoints'[u] # None /\ endpoints'[u].addr # None]_vars

=============================================================================
