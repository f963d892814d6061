---------------------------- MODULE Registration ----------------------------
(***************************************************************************)
(* What the mediator stores of a device that connects: an endpoint, an     *)
(* agent and a pairwise connection, written one after the other by         *)
(* build_did_doc_extra(), MediatorPairwiseList.ensure_exists() and         *)
(* post_create_pairwise(), and partly by the static connections of an      *)
(* administrator.  Agents are loaded through memcached, and every worker   *)
(* remembers the metadata of the pairwises that it stored.                 *)
(*                                                                         *)
(* Requests of several workers interleave between their queries.  The      *)
(* endpoint is written in one step first: Failover and Repo have its steps.*)
(* A post whose Redis server is unreachable writes endpoints, too: it puts *)
(* back the row that it has loaded, with another server.                   *)
(***************************************************************************)
EXTENDS Naturals, FiniteSets

CONSTANTS
    Workers,
    Sessions,   \* requests in progress, at most so many at a time
    Posts,      \* posts that find their Redis server unreachable, as many at a time
    Dids, Verkeys,
    Devices,    \* Firebase device ids
    None,
    Offers,     \* what devices, and the administrator for them, send
    MaxOffers,  \* bound: how many requests
    MaxFaults   \* bound: how often a worker dies, a query fails or a Redis server does

\* A DID document names the verkey and perhaps the device id (fcm).  static: the
\* administrator enters it.
Offer == [did : Dids, verkey : Verkeys, fcm : Devices \cup {None}, static : BOOLEAN]

Ids == Nat \ {0}
Agents == [id : Ids, verkey : Verkeys, fcm : Devices \cup {None}]
Endpoints == [verkey : Verkeys, agent : Ids \cup {None}, fcm : Devices \cup {None}]

\* What a post has loaded: the endpoint row of a DID.
Loads == [did : Dids, row : Endpoints]

\* The metadata of a pairwise tells the DID documents of both sides.
Metadata(o) == [verkey |-> o.verkey, fcm |-> o.fcm]
Metadatas == [verkey : Verkeys, fcm : Devices \cup {None}]

ASSUME RegistrationAssumption ==
    /\ Offers \subseteq Offer
    /\ None \notin Workers \cup Verkeys \cup Devices \cup Offer \cup Agents \cup Endpoints
                        \cup Metadatas \cup Loads
    /\ None \notin Nat
    /\ MaxOffers \in Nat /\ MaxFaults \in Nat

VARIABLES
    agents, endpoints, pairwises,   \* tables, by DID
    copy,       \* copies of agents in memcached
    known,      \* _cached_metadata of each worker
    pc,         \* where a request is
    worker,     \* the worker it runs in
    offer,      \* what it registers
    got,        \* the agent it has loaded
    post,       \* what a post has loaded
    nextId,     \* the next id of an agent
    offers, posts, faults,
    cached,     \* verkeys of endpoints that memcached may tell
    done,       \* history: what the last registration of a DID offered
    raced,      \* history: DIDs of which two requests overlapped
    torn,       \* history: DIDs whose agent got a device id and the endpoint not
    restored,   \* history: DIDs whose endpoint a post has put back as it had been
    hidden,     \* history: DIDs whose agent memcached may hide: they lost a row to
                \* another DID, or their copy was not deleted, and no registration
                \* of a device id that knew the stored agent has written their
                \* endpoint since
    outdated    \* history: a worker's metadata that another worker has changed

tables  == <<agents, endpoints, pairwises>>
locals  == <<pc, worker, offer, got>>
posting == <<post, posts>>
bounds  == <<nextId, offers, faults, cached>>
history == <<done, raced, torn, restored, hidden, outdated>>
vars == <<tables, copy, known, locals, posting, bounds, history>>

Init ==
    /\ agents = [d \in Dids |-> None] /\ endpoints = [d \in Dids |-> None]
    /\ pairwises = [d \in Dids |-> None] /\ copy = [d \in Dids |-> None]
    /\ known = [w \in Workers |-> [d \in Dids |-> None]]
    /\ pc = [c \in Sessions |-> "idle"]
    /\ worker = [c \in Sessions |-> None]
    /\ offer = [c \in Sessions |-> None] /\ got = [c \in Sessions |-> None]
    /\ post = [p \in Posts |-> None]
    /\ nextId = 1 /\ offers = 0 /\ posts = 0 /\ faults = 0 /\ cached = {}
    /\ done = [d \in Dids |-> None]
    /\ raced = {} /\ torn = {} /\ restored = {} /\ hidden = {} /\ outdated = {}

Goto(c, l) == pc' = [pc EXCEPT ![c] = l]

\* Requests cs end, answered or cut off.
Return(cs) ==
    /\ pc' = [c \in Sessions |-> IF c \in cs THEN "idle" ELSE pc[c]]
    /\ worker' = [c \in Sessions |-> IF c \in cs THEN None ELSE worker[c]]
    /\ offer' = [c \in Sessions |-> IF c \in cs THEN None ELSE offer[c]]
    /\ got' = [c \in Sessions |-> IF c \in cs THEN None ELSE got[c]]

-----------------------------------------------------------------------------
(* The tables *)

\* The DIDs that lose their row of table t to DID d with verkey v.
Losers(t, d, v) == {x \in Dids \ {d} : t[x] # None /\ t[x].verkey = v}

\* ensure_endpoint_exists: others lose the verkey; what is None stays as it is.
EndpointsAfter(d, v, agent, fcm) ==
    [x \in Dids |->
        IF x \in Losers(endpoints, d, v) THEN None
        ELSE IF x # d THEN endpoints[x]
        ELSE IF endpoints[d] = None THEN [verkey |-> v, agent |-> agent, fcm |-> fcm]
        ELSE [verkey |-> v,
              agent |-> IF agent = None THEN endpoints[d].agent ELSE agent,
              fcm |-> IF fcm = None THEN endpoints[d].fcm ELSE fcm]]

\* Mutant of AgentsAfter: a new agent gets no id.
AgentsAfter_NoId(d, v, fcm) ==
    [x \in Dids |->
        IF x \in Losers(agents, d, v) THEN None
        ELSE IF x # d THEN agents[x]
        ELSE IF agents[d] = None THEN [id |-> None, verkey |-> v, fcm |-> None]
        ELSE [agents[d] EXCEPT !.verkey = v]]

\* ensure_agent_exists: others lose the verkey.  A new agent gets an id and no
\* device id, even if one is given.
AgentsAfter(d, v, fcm) ==
    [x \in Dids |->
        IF x \in Losers(agents, d, v) THEN None
        ELSE IF x # d THEN agents[x]
        ELSE IF agents[d] = None THEN [id |-> nextId, verkey |-> v, fcm |-> None]
        ELSE [agents[d] EXCEPT !.verkey = v, !.fcm = IF fcm = None THEN @ ELSE fcm]]

WriteAgents(d, v, fcm) ==
    /\ agents' = AgentsAfter(d, v, fcm)
    /\ nextId' = IF agents[d] = None THEN nextId + 1 ELSE nextId
    /\ hidden' = hidden \cup Losers(agents, d, v)

\* Another DID has their verkey: what was registered for them is gone.
Forget(ds) == [d \in Dids |-> IF d \in ds THEN None ELSE done[d]]

-----------------------------------------------------------------------------
(* A request begins *)

Overlaps(o) == {offer[c] : c \in {x \in Sessions :
    offer[x] # None /\ (offer[x].did = o.did \/ offer[x].verkey = o.verkey)}}

\* A connection request, or a static connection: the endpoint is there and has
\* the verkey, or memcached tells so.
Begin(c, w, o) ==
    /\ pc[c] = "idle"
    /\ offers < MaxOffers /\ offers' = offers + 1
    /\ cached' = cached \cup {<<o.did, o.verkey>>}
    /\ \/ /\ endpoints' = EndpointsAfter(o.did, o.verkey, None, None)
          /\ hidden' = hidden \cup Losers(endpoints, o.did, o.verkey)
       \/ /\ <<o.did, o.verkey>> \in cached
          /\ UNCHANGED <<endpoints, hidden>>
    /\ Goto(c, IF o.static THEN "store" ELSE "exists")
    /\ worker' = [worker EXCEPT ![c] = w] /\ offer' = [offer EXCEPT ![c] = o]
    /\ done' = Forget(Losers(endpoints, o.did, o.verkey) \cup {o.did})
    /\ raced' = IF Overlaps(o) = {} THEN raced
                ELSE raced \cup {o.did} \cup {p.did : p \in Overlaps(o)}
    /\ UNCHANGED <<agents, pairwises, copy, known, got, posting, nextId, faults, torn, restored,
                   outdated>>

-----------------------------------------------------------------------------
(* The pairwise: MediatorPairwiseList *)

\* store_their_did: the agent is written past Repo, its copy stays.
StoreDid(c) ==
    /\ pc[c] \in {"store", "create"}
    /\ WriteAgents(offer[c].did, offer[c].verkey, None)
    /\ done' = Forget(Losers(agents, offer[c].did, offer[c].verkey))
    /\ Goto(c, IF pc[c] = "store" THEN "exists" ELSE "insert")
    /\ UNCHANGED <<endpoints, pairwises, copy, known, worker, offer, got, posting, offers,
                   faults, cached, raced, torn, restored, outdated>>

IsExists(c) ==
    /\ pc[c] = "exists"
    /\ Goto(c, IF pairwises[offer[c].did] = None THEN "create" ELSE "update")
    /\ UNCHANGED <<tables, copy, known, worker, offer, got, posting, bounds, history>>

\* The pairwise is written: other workers may remember something else.
WritePairwise(c) ==
    LET d == offer[c].did  m == Metadata(offer[c])
    IN  /\ pairwises' = [pairwises EXCEPT ![d] = m]
        /\ outdated' = outdated \cup {<<w, d>> : w \in
                {x \in Workers \ {worker[c]} : known[x][d] \notin {None, m}}}
        /\ Goto(c, "remember")
        /\ UNCHANGED <<worker, offer, got>>

\* A new pairwise is inserted, unless another request was faster: that ends
\* this one with an error.
Insert(c) ==
    /\ pc[c] = "insert"
    /\ IF pairwises[offer[c].did] = None THEN WritePairwise(c)
       ELSE Return({c}) /\ UNCHANGED <<pairwises, outdated>>
    /\ UNCHANGED <<agents, endpoints, copy, known, posting, bounds, done, raced, torn, restored,
                   hidden>>

\* After the pairwise, a device gets its agent and the administrator an answer.
Stored(c) == IF offer[c].static THEN Return({c})
             ELSE Goto(c, "load") /\ UNCHANGED <<worker, offer, got>>

\* Mutant of Update: the verkeys are compared only.
Update_VerkeyOnly(c) ==
    LET m == known[worker[c]][offer[c].did]
    IN  /\ pc[c] = "update"
        /\ IF m # None /\ m.verkey = offer[c].verkey
           THEN Stored(c) /\ UNCHANGED <<pairwises, outdated>>
           ELSE WritePairwise(c)
        /\ UNCHANGED <<agents, endpoints, copy, known, posting, bounds, done, raced, torn,
                       restored, hidden>>

\* A pairwise is updated, unless the worker remembers the same metadata.
Update(c) ==
    /\ pc[c] = "update"
    /\ IF known[worker[c]][offer[c].did] = Metadata(offer[c])
       THEN Stored(c) /\ UNCHANGED <<pairwises, outdated>>
       ELSE WritePairwise(c)
    /\ UNCHANGED <<agents, endpoints, copy, known, posting, bounds, done, raced, torn, restored,
                   hidden>>

\* The query has returned.  Requests of one worker may come here in another
\* order than their queries ran.
Remember(c) ==
    LET d == offer[c].did
    IN  /\ pc[c] = "remember"
        /\ known' = [known EXCEPT ![worker[c]][d] = Metadata(offer[c])]
        /\ outdated' = IF pairwises[d] = Metadata(offer[c])
                       THEN outdated \ {<<worker[c], d>>} ELSE outdated
        /\ Stored(c)
        /\ UNCHANGED <<tables, copy, posting, bounds, done, raced, torn, restored, hidden>>

-----------------------------------------------------------------------------
(* The agent: post_create_pairwise *)

Loaded(c) == Goto(c, IF pc[c] \in {"load", "fill"} THEN "compare" ELSE "endpoint")

\* Repo.load_agent: the copy, or else the row, which becomes the copy.
LoadHit(c) ==
    /\ pc[c] \in {"load", "reload"}
    /\ copy[offer[c].did] # None
    /\ got' = [got EXCEPT ![c] = copy[offer[c].did]]
    /\ Loaded(c)
    /\ UNCHANGED <<tables, copy, known, worker, offer, posting, bounds, history>>

LoadRead(c) ==
    /\ pc[c] \in {"load", "reload"}
    /\ got' = [got EXCEPT ![c] = agents[offer[c].did]]
    /\ IF agents[offer[c].did] = None THEN Loaded(c)
       ELSE Goto(c, IF pc[c] = "load" THEN "fill" ELSE "refill")
    /\ UNCHANGED <<tables, copy, known, worker, offer, posting, bounds, history>>

Fill(c) ==
    /\ pc[c] \in {"fill", "refill"}
    /\ copy' = [copy EXCEPT ![offer[c].did] = got[c]]
    /\ Loaded(c)
    /\ UNCHANGED <<tables, known, worker, offer, got, posting, bounds, history>>

\* A registration has run to its end.
Completed(c) == done' = [done EXCEPT ![offer[c].did] = offer[c]]

\* Nothing is to do when the agent has the verkey and the device id.  Else its
\* copy leaves memcached, if that works.
Compare(c) ==
    LET o == offer[c]
        same == got[c] # None /\ got[c].verkey = o.verkey /\ got[c].fcm = o.fcm
    IN  /\ pc[c] = "compare"
        /\ IF same THEN Return({c}) /\ Completed(c) /\ UNCHANGED copy
                /\ UNCHANGED hidden
           ELSE /\ \/ copy' = [copy EXCEPT ![o.did] = None] /\ UNCHANGED hidden
                   \/ UNCHANGED copy /\ hidden' = hidden \cup {o.did}
                /\ Goto(c, "agent")
                /\ UNCHANGED <<worker, offer, got, done>>
        /\ UNCHANGED <<tables, known, posting, bounds, raced, torn, restored, outdated>>

WriteAgent(c) ==
    LET o == offer[c]
    IN  /\ pc[c] = "agent"
        /\ WriteAgents(o.did, o.verkey, o.fcm)
        /\ done' = Forget(Losers(agents, o.did, o.verkey))
        /\ torn' = IF o.fcm = None THEN torn ELSE torn \cup {o.did}
        /\ Goto(c, "reload")
        /\ UNCHANGED <<endpoints, pairwises, copy, known, worker, offer, got, posting,
                       offers, faults, cached, raced, restored, outdated>>

\* The endpoint gets this agent and device id, and others lose the verkey.  With
\* a device id, agent and endpoint agree again.
StoreEndpoint(o, agent, fcm) ==
    /\ endpoints' = EndpointsAfter(o.did, o.verkey, agent.id, fcm)
    /\ done' = [Forget(Losers(endpoints, o.did, o.verkey)) EXCEPT ![o.did] = o]
    /\ torn' = IF o.fcm = None THEN torn ELSE torn \ {o.did}
    /\ restored' = IF o.fcm = None THEN restored ELSE restored \ {o.did}
    /\ hidden' = (hidden \cup Losers(endpoints, o.did, o.verkey))
                     \ (IF o.fcm # None /\ agent = agents[o.did] THEN {o.did} ELSE {})

\* Mutant of WriteEndpoint: the endpoint gets the agent and not the device id.
WriteEndpoint_NoFcm(c) ==
    /\ pc[c] = "endpoint"
    /\ Return({c})
    /\ IF got[c] = None THEN UNCHANGED <<endpoints, done, torn, restored, hidden>>
       ELSE StoreEndpoint(offer[c], got[c], None)
    /\ UNCHANGED <<agents, pairwises, copy, known, posting, bounds, raced, outdated>>

\* The endpoint gets the agent and the device id.  Without an agent the request
\* ends with an error.
WriteEndpoint(c) ==
    /\ pc[c] = "endpoint"
    /\ Return({c})
    /\ IF got[c] = None THEN UNCHANGED <<endpoints, done, torn, restored, hidden>>
       ELSE StoreEndpoint(offer[c], got[c], offer[c].fcm)
    /\ UNCHANGED <<agents, pairwises, copy, known, posting, bounds, raced, outdated>>

-----------------------------------------------------------------------------
(* A post whose Redis server is unreachable: post_to_device *)

\* It has loaded the endpoint.  From memcached it has an older row: that is a
\* post that loaded it then.
Load(p, d) ==
    /\ post[p] = None /\ endpoints[d] # None
    /\ faults + posts < MaxFaults /\ posts' = posts + 1
    /\ post' = [post EXCEPT ![p] = [did |-> d, row |-> endpoints[d]]]
    /\ UNCHANGED <<tables, copy, known, locals, bounds, history>>

\* With another server it puts back all of the row, and others lose the verkey.
\* Without one, or when it ends before, it writes nothing.
PutBack(p) ==
    LET d == post[p].did  row == post[p].row
    IN  /\ post[p] # None /\ post' = [post EXCEPT ![p] = None]
        /\ \/ /\ endpoints' = EndpointsAfter(d, row.verkey, row.agent, row.fcm)
              /\ done' = Forget(Losers(endpoints, d, row.verkey))
              /\ hidden' = hidden \cup Losers(endpoints, d, row.verkey)
              /\ restored' = IF endpoints[d] = row THEN restored ELSE restored \cup {d}
           \/ UNCHANGED <<endpoints, done, hidden, restored>>
        /\ UNCHANGED <<agents, pairwises, copy, known, locals, posts, bounds, raced, torn,
                       outdated>>

-----------------------------------------------------------------------------
(* The environment *)

\* A query of a request fails, which ends it.  What failed is not committed.
Fail(c) ==
    /\ pc[c] \notin {"idle", "remember"}
    /\ faults + posts < MaxFaults /\ faults' = faults + 1
    /\ Return({c})
    /\ UNCHANGED <<tables, copy, known, posting, nextId, offers, cached, history>>

\* A copy in memcached expires.
Expire(d) ==
    /\ copy[d] # None
    /\ copy' = [copy EXCEPT ![d] = None]
    /\ UNCHANGED <<tables, known, locals, posting, bounds, history>>

\* A worker dies with its requests, and another one takes its place.
Crash(w) ==
    /\ faults + posts < MaxFaults /\ faults' = faults + 1
    /\ known' = [known EXCEPT ![w] = [d \in Dids |-> None]]
    /\ Return({c \in Sessions : worker[c] = w})
    /\ UNCHANGED <<tables, copy, posting, nextId, offers, cached, history>>

Next ==
    \/ \E c \in Sessions, w \in Workers, o \in Offers : Begin(c, w, o)
    \/ \E c \in Sessions :
         \/ IsExists(c) \/ StoreDid(c) \/ Insert(c) \/ Update(c) \/ Remember(c)
         \/ LoadHit(c) \/ LoadRead(c) \/ Fill(c)
         \/ Compare(c) \/ WriteAgent(c) \/ WriteEndpoint(c) \/ Fail(c)
    \/ \E p \in Posts, d \in Dids : Load(p, d)
    \/ \E p \in Posts : PutBack(p)
    \/ \E d \in Dids : Expire(d)
    \/ \E w \in Workers : Crash(w)

Spec == Init /\ [][Next]_vars

-----------------------------------------------------------------------------
Places == {"idle", "store", "exists", "create", "insert", "update", "remember", "load",
           "fill", "compare", "agent", "reload", "refill", "endpoint"}

TypeOK ==
    /\ agents \in [Dids -> Agents \cup {None}]
    /\ endpoints \in [Dids -> Endpoints \cup {None}]
    /\ pairwises \in [Dids -> Metadatas \cup {None}]
    /\ copy \in [Dids -> Agents \cup {None}]
    /\ known \in [Workers -> [Dids -> Metadatas \cup {None}]]
    /\ pc \in [Sessions -> Places]
    /\ worker \in [Sessions -> Workers \cup {None}]
    /\ offer \in [Sessions -> Offers \cup {None}]
    /\ got \in [Sessions -> Agents \cup {None}]
    /\ post \in [Posts -> Loads \cup {None}] /\ posts \in 0..MaxFaults
    /\ nextId \in Ids /\ offers \in 0..MaxOffers /\ faults \in 0..MaxFaults
    /\ cached \subseteq Dids \X Verkeys
    /\ done \in [Dids -> Offers \cup {None}]
    /\ raced \subseteq Dids /\ torn \subseteq Dids /\ restored \subseteq Dids
    /\ hidden \subseteq Dids
    /\ outdated \subseteq Workers \X Dids
    /\ \A c \in Sessions : (pc[c] = "idle" <=> offer[c] = None) /\ (offer[c] = None <=> worker[c] = None)

\* A device that has registered a device id can be reached with Firebase: its
\* endpoint has that device id, and the agent's.  Unless requests for it
\* overlapped, one ended between the two writes, a post put back an older row, or
\* memcached hid what is stored: the registration then finds nothing to do.
ReachableAsRegistered ==
    \A d \in Dids \ (raced \cup torn \cup restored \cup hidden) :
        done[d] # None /\ done[d].fcm # None
          => /\ endpoints[d] # None /\ agents[d] # None
             /\ endpoints[d].fcm = done[d].fcm
             /\ endpoints[d].agent = agents[d].id

\* The pairwise of a device is what it registered last, though updates are
\* skipped: unless requests for it overlapped, or another worker has stored
\* something else than the worker remembers.
PairwiseAsRegistered ==
    \A d \in Dids \ raced :
        done[d] # None /\ (\A w \in Workers : <<w, d>> \notin outdated)
          => pairwises[d] = Metadata(done[d])

=============================================================================
