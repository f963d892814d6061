------------------------------ MODULE Failover ------------------------------
(***************************************************************************)
(* Which Redis server an endpoint has.  A device that connects for the     *)
(* first time gets one; the sessions of the device listen there, and posts *)
(* go there.  When the server of an endpoint cannot be reached, a post     *)
(* writes the endpoint back with another server: post_to_device().         *)
(*                                                                         *)
(* Posts and device sessions are requests of several workers.  They share  *)
(* the table of endpoints, its copies in memcached and the Redis servers.  *)
(* A transaction is one step here; module Repo has its statements.  What a *)
(* post does with a server that answers is module Delivery.                *)
(***************************************************************************)
EXTENDS Naturals, FiniteSets

CONSTANTS
    Servers,    \* Redis servers
    Uids,       \* endpoints, one for a DID
    Verkeys,    \* verkeys of the devices
    Clients,    \* posts and sessions of devices, at most so many at a time
    None,
    Enrolments, \* who connects: pairs of an endpoint and a verkey, or None for
                \* a session that only listens
    Posted,     \* the endpoints that get posts
    MaxBreaks,  \* bound: how often servers break
    MaxConnects \* bound: how often sessions start

Rows == [verkey : Verkeys, server : Servers \cup {None}]

\* A copy of a row: history tells whether an endpoint was registered since it
\* was read (aged) and whether its own server has changed since (moved).
Copies == [verkey : Verkeys, server : Servers \cup {None}, aged : BOOLEAN, moved : BOOLEAN]

ASSUME FailoverAssumption ==
    /\ None \notin Servers \cup Uids \cup Verkeys \cup Rows \cup Copies
    /\ Enrolments \subseteq Uids \X (Verkeys \cup {None}) /\ Posted \subseteq Uids
    /\ MaxBreaks \in Nat /\ MaxConnects \in Nat

VARIABLES
    up,         \* the servers that can be reached
    row,        \* table endpoints, None when absent
    copy,       \* copies of its rows in memcached
    pc,         \* where a client is
    uid,        \* its endpoint
    key,        \* the verkey that it registers, None unless it does
    got,        \* the endpoint as the client has loaded it
    chosen,     \* the server it has chosen
    breaks, connects,
    registered, \* history: the verkey that the last registration stored
    undone,     \* history: endpoints overwritten by one from before that
    contested   \* history: endpoints given a server by two registrations, or stored
                \* without one

locals  == <<pc, uid, key, got, chosen>>
bounds  == <<breaks, connects>>
history == <<registered, undone, contested>>
vars == <<up, row, copy, locals, bounds, history>>

Init ==
    /\ up \in SUBSET Servers
    /\ row = [u \in Uids |-> None] /\ copy = [u \in Uids |-> None]
    /\ pc = [c \in Clients |-> "idle"]
    /\ uid = [c \in Clients |-> None] /\ key = [c \in Clients |-> None]
    /\ got = [c \in Clients |-> None] /\ chosen = [c \in Clients |-> None]
    /\ breaks = 0 /\ connects = 0
    /\ registered = [u \in Uids |-> None]
    /\ undone = {} /\ contested = {}

Goto(c, l) == pc' = [pc EXCEPT ![c] = l]

\* A request ends.
Return(c) ==
    /\ Goto(c, "idle")
    /\ uid' = [uid EXCEPT ![c] = None] /\ key' = [key EXCEPT ![c] = None]
    /\ got' = [got EXCEPT ![c] = None] /\ chosen' = [chosen EXCEPT ![c] = None]

-----------------------------------------------------------------------------
(* Requests *)

Start(c, u, l) ==
    /\ pc[c] = "idle"
    /\ Goto(c, l)
    /\ uid' = [uid EXCEPT ![c] = u]
    /\ UNCHANGED <<up, row, copy, got, chosen, breaks, history>>

\* Somebody posts to endpoint u.
Post(c, u) == Start(c, u, "load") /\ UNCHANGED <<key, connects>>

\* A device of endpoint u asks for a connection with verkey v.
Connect(c, u, v) ==
    /\ connects < MaxConnects /\ connects' = connects + 1
    /\ Start(c, u, "load")
    /\ key' = [key EXCEPT ![c] = v]

\* It listens to its endpoint only: a websocket that names it, or long polling.
Attach(c, u) ==
    /\ connects < MaxConnects /\ connects' = connects + 1
    /\ Start(c, u, "reload")
    /\ UNCHANGED key

-----------------------------------------------------------------------------
(* Loading an endpoint *)

Loading(c) == pc[c] \in {"load", "reload"}

Loaded(c) ==
    Goto(c, IF pc[c] \in {"reload", "refill"} THEN "listen"
            ELSE IF key[c] = None THEN "push" ELSE "register")

\* A copy of the row r.
Fresh(r) == IF r = None THEN None
            ELSE [verkey |-> r.verkey, server |-> r.server, aged |-> FALSE, moved |-> FALSE]

\* A copy is in memcached.
LoadHit(c) ==
    /\ Loading(c)
    /\ copy[uid[c]] # None
    /\ got' = [got EXCEPT ![c] = copy[uid[c]]]
    /\ Loaded(c)
    /\ UNCHANGED <<up, row, copy, uid, key, chosen, bounds, history>>

\* None is, or memcached fails: the row is selected ...
LoadRead(c) ==
    /\ Loading(c)
    /\ got' = [got EXCEPT ![c] = Fresh(row[uid[c]])]
    /\ IF row[uid[c]] = None THEN Loaded(c)
       ELSE Goto(c, IF pc[c] = "load" THEN "fill" ELSE "refill")
    /\ UNCHANGED <<up, row, copy, uid, key, chosen, bounds, history>>

\* ... and stored in memcached.
Fill(c) ==
    /\ pc[c] \in {"fill", "refill"}
    /\ copy' = [copy EXCEPT ![uid[c]] = got[c]]
    /\ Loaded(c)
    /\ UNCHANGED <<up, row, uid, key, got, chosen, bounds, history>>

-----------------------------------------------------------------------------
(* Writing an endpoint *)

\* Mutant of Ensured: other endpoints keep the verkey.
Ensured_NoTakeover(u, v, s) ==
    [w \in Uids |->
        IF w # u THEN row[w]
        ELSE IF row[u] # None /\ s = None THEN [verkey |-> v, server |-> row[u].server]
        ELSE [verkey |-> v, server |-> s]]

\* The table after ensure_endpoint_exists(u, verkey = v, redis_pub_sub = s):
\* another endpoint with the verkey is deleted, and without an s the server
\* stays.
Ensured(u, v, s) ==
    [w \in Uids |->
        IF w # u THEN IF row[w] # None /\ row[w].verkey = v THEN None ELSE row[w]
        ELSE IF row[u] # None /\ s = None THEN [verkey |-> v, server |-> row[u].server]
        ELSE [verkey |-> v, server |-> s]]

\* The server of u in table t.
ServerIn(t, u) == IF t[u] = None THEN None ELSE t[u].server

\* The copy leaves memcached, if that works, before a transaction starts.
Evict(c) == copy' \in {copy, [copy EXCEPT ![uid[c]] = None]}

\* Endpoints whose server is another one in table t.  A registration by c that
\* gives its endpoint a server does not count: it should have found none.
Changed(c, t) ==
    {w \in Uids : /\ ServerIn(row, w) # None /\ ServerIn(t, w) # ServerIn(row, w)
                  /\ key[c] # None => w # uid[c]}

\* What copy x of endpoint u is after a write that changed the servers of ws.
After(x, u, ws, registering) ==
    IF x = None THEN None
    ELSE [x EXCEPT !.aged = @ \/ registering, !.moved = @ \/ u \in ws]

\* The server of an endpoint without one is set while another registration is
\* about to do that, or a row is stored without a server.
Contested(c, t) ==
    LET u == uid[c]
        rivals == {d \in Clients \ {c} :
                     /\ uid[d] = u /\ pc[d] \in {"register", "write"}
                     /\ got[d] = None \/ got[d].server = None}
    IN  contested' = IF ServerIn(t, u) = None \/ (ServerIn(row, u) = None /\ rivals # {})
                     THEN contested \cup {u} ELSE contested

\* Client c writes the table t; it is done with the row that it has loaded.
WriteRows(c, t) ==
    LET ws == Changed(c, t)
        registering == key[c] # None
    IN  /\ row' = t
        /\ copy' = [u \in Uids |-> After(copy[u], u, ws, registering)]
        /\ got' = [d \in Clients |-> IF d = c THEN None
                                     ELSE After(got[d], uid[d], ws, registering)]
        /\ chosen' = [chosen EXCEPT ![c] = None]
        /\ Contested(c, t)

-----------------------------------------------------------------------------
(* A post *)

\* The message is pushed to the server that the row has now: RedisPush never
\* uses its own copy of the address.  Without an endpoint, or when the server
\* answers, the post ends here.  It also does when what it loaded has no address,
\* which change_redis_server() cannot change.
Push(c) ==
    LET s == IF got[c] = None THEN None ELSE ServerIn(row, uid[c])
    IN  /\ pc[c] = "push"
        /\ IF s # None /\ s \notin up /\ got[c].server # None
           THEN Goto(c, "choose") /\ UNCHANGED <<uid, key, got, chosen>>
           ELSE Return(c)
        /\ UNCHANGED <<up, row, copy, bounds, history>>

\* Any server that answers a ping is chosen; without one the request gives up.
Choose(c) ==
    \/ \E s \in up :
         /\ chosen' = [chosen EXCEPT ![c] = s]
         /\ Evict(c)
         /\ Goto(c, "write")
         /\ UNCHANGED <<uid, key, got>>
    \/ up = {} /\ Return(c) /\ UNCHANGED copy

Reselect(c) ==
    /\ pc[c] = "choose"
    /\ Choose(c)
    /\ UNCHANGED <<up, row, bounds, history>>

\* Mutant of WriteBack: the old server is written.
WriteBack_OldServer(c) ==
    /\ pc[c] = "write" /\ key[c] = None
    /\ WriteRows(c, Ensured(uid[c], got[c].verkey, got[c].server))
    /\ Goto(c, "idle") /\ uid' = [uid EXCEPT ![c] = None]
    /\ UNCHANGED <<up, key, bounds, registered, undone>>

\* The endpoint is written back as it was loaded, with the new server.
WriteBack(c) ==
    LET u == uid[c]
        v == got[c].verkey
    IN  /\ pc[c] = "write" /\ key[c] = None
        /\ WriteRows(c, Ensured(u, v, chosen[c]))
        /\ undone' = IF ~got[c].aged THEN undone
                     ELSE undone \cup {u} \cup {w \in Uids : row[w] # None /\ row[w].verkey = v}
        /\ Goto(c, "idle") /\ uid' = [uid EXCEPT ![c] = None]
        /\ UNCHANGED <<up, key, bounds, registered>>

-----------------------------------------------------------------------------
(* A connection request: build_did_doc_extra and post_create_pairwise *)

\* Mutant of Register: every registration chooses a server.
Register_Anew(c) ==
    /\ pc[c] = "register"
    /\ Choose(c)
    /\ UNCHANGED <<up, row, bounds, history>>

\* An endpoint with the verkey stays; a new verkey is stored; an endpoint
\* without a server gets one that answers, or the request fails.
Register(c) ==
    LET same   == got[c] # None /\ got[c].verkey = key[c]
        served == got[c] # None /\ got[c].server # None
    IN  /\ pc[c] = "register"
        /\ \/ same /\ Goto(c, "confirm") /\ UNCHANGED <<copy, uid, key, got, chosen>>
           \/ ~same /\ served
              /\ Evict(c) /\ Goto(c, "write") /\ UNCHANGED <<uid, key, got, chosen>>
           \/ ~same /\ ~served /\ Choose(c)
        /\ UNCHANGED <<up, row, bounds, history>>

\* The transaction of a registration: with the chosen server (s), or without.
Store(c, s) ==
    LET u == uid[c]
        v == key[c]
    IN  /\ WriteRows(c, Ensured(u, v, s))
        /\ registered' = [w \in Uids |-> IF w = u THEN v
                                         ELSE IF registered[w] = v THEN None
                                         ELSE registered[w]]
        /\ undone' = undone \ {u}
        /\ UNCHANGED <<up, bounds>>

Write(c) ==
    /\ pc[c] = "write" /\ key[c] # None
    /\ Store(c, chosen[c])
    /\ Goto(c, "confirm")
    /\ UNCHANGED <<uid, key>>

\* The connection protocol fails, or the endpoint gets its agent when that has
\* changed, or nothing is left to write; the session listens or it does not.
Confirm(c) ==
    /\ pc[c] = "confirm"
    /\ \/ Return(c) /\ UNCHANGED copy
       \/ Evict(c) /\ Goto(c, "rewrite") /\ UNCHANGED <<uid, key, got, chosen>>
       \/ Goto(c, "reload") /\ UNCHANGED <<copy, uid, key, got, chosen>>
    /\ UNCHANGED <<up, row, bounds, history>>

\* The agent is written together with the verkey.
Rewrite(c) ==
    /\ pc[c] = "rewrite"
    /\ Store(c, None)
    /\ \/ Goto(c, "reload") /\ UNCHANGED <<uid, key>>
       \/ /\ Goto(c, "idle")
          /\ uid' = [uid EXCEPT ![c] = None] /\ key' = [key EXCEPT ![c] = None]

-----------------------------------------------------------------------------
(* Listening *)

\* Mutant of Listen: an endpoint without a server is listened to.
Listen_NoCheck(c) ==
    /\ pc[c] = "listen"
    /\ IF got[c] = None \/ got[c].server \notin up \cup {None} THEN Return(c)
       ELSE Goto(c, "live") /\ UNCHANGED <<uid, key, got, chosen>>
    /\ UNCHANGED <<up, row, copy, bounds, history>>

\* Without an endpoint or a server the websocket is closed; when the server does
\* not answer, the listener ends, though the websocket stays open.
Listen(c) ==
    /\ pc[c] = "listen"
    /\ IF got[c] = None \/ got[c].server \notin up THEN Return(c)
       ELSE Goto(c, "live") /\ UNCHANGED <<uid, key, got, chosen>>
    /\ UNCHANGED <<up, row, copy, bounds, history>>

\* The device goes away.
Close(c) ==
    /\ pc[c] = "live"
    /\ Return(c)
    /\ UNCHANGED <<up, row, copy, bounds, history>>

-----------------------------------------------------------------------------
(* The environment *)

\* A server breaks: the listeners there end.
Break(s) ==
    LET Cut(f) == [c \in Clients |-> IF pc[c] = "live" /\ got[c].server = s
                                    THEN None ELSE f[c]]
    IN  /\ breaks < MaxBreaks /\ breaks' = breaks + 1
        /\ s \in up /\ up' = up \ {s}
        /\ pc' = [c \in Clients |-> IF pc[c] = "live" /\ got[c].server = s
                                    THEN "idle" ELSE pc[c]]
        /\ uid' = Cut(uid) /\ key' = Cut(key) /\ got' = Cut(got)
        /\ UNCHANGED <<row, copy, chosen, connects, history>>

Repair(s) ==
    /\ s \notin up /\ up' = up \cup {s}
    /\ UNCHANGED <<row, copy, locals, bounds, history>>

\* A copy in memcached expires.
Expire(u) ==
    /\ copy[u] # None
    /\ copy' = [copy EXCEPT ![u] = None]
    /\ UNCHANGED <<up, row, locals, bounds, history>>

\* What a request goes on with by itself.
Work(c) ==
    \/ LoadHit(c) \/ LoadRead(c) \/ Fill(c)
    \/ Push(c) \/ Reselect(c) \/ WriteBack(c)
    \/ Register(c) \/ Write(c) \/ Confirm(c) \/ Rewrite(c) \/ Listen(c)

Next ==
    \/ \E c \in Clients : Work(c)
    \/ \E c \in Clients, u \in Posted : Post(c, u)
    \/ \E c \in Clients, e \in Enrolments :
         IF e[2] = None THEN Attach(c, e[1]) ELSE Connect(c, e[1], e[2])
    \/ \E c \in Clients : Close(c)
    \/ \E s \in Servers : Break(s) \/ Repair(s)
    \/ \E u \in Uids : Expire(u)

Spec == Init /\ [][Next]_vars

\* Requests that have begun go on, sessions end one day (so that Clients does
\* not run out), and there is always another post to an endpoint.
Fairness ==
    /\ \A c \in Clients : WF_vars(Work(c)) /\ WF_vars(Close(c))
    /\ \A u \in Posted : SF_vars(\E c \in Clients : Post(c, u))

FairSpec == Spec /\ Fairness

-----------------------------------------------------------------------------
Places == {"idle", "load", "fill", "push", "register", "choose", "write",
           "confirm", "rewrite", "reload", "refill", "listen", "live"}

TypeOK ==
    /\ up \subseteq Servers
    /\ row \in [Uids -> Rows \cup {None}] /\ copy \in [Uids -> Copies \cup {None}]
    /\ pc \in [Clients -> Places]
    /\ uid \in [Clients -> Uids \cup {None}]
    /\ key \in [Clients -> Verkeys \cup {None}]
    /\ got \in [Clients -> Copies \cup {None}]
    /\ chosen \in [Clients -> Servers \cup {None}]
    /\ breaks \in 0..MaxBreaks /\ connects \in 0..MaxConnects
    /\ registered \in [Uids -> Verkeys \cup {None}]
    /\ undone \subseteq Uids /\ contested \subseteq Uids
    /\ \A c \in Clients :
         /\ pc[c] # "idle" <=> uid[c] # None
         /\ pc[c] \in {"fill", "refill"} => got[c] # None
         /\ pc[c] = "live" => got[c] # None /\ got[c].server # None
         /\ key[c] = None /\ pc[c] \in {"choose", "write"} => got[c] # None
         /\ key[c] = None /\ pc[c] = "write" => chosen[c] # None
         /\ pc[c] \in {"register", "confirm", "rewrite"} => key[c] # None

\* Registrations stand: an endpoint has the verkey that was registered last,
\* unless a post that loaded an endpoint before the last registration has
\* written it back.  A post that loaded it since may change the server only.
RegistrationsStand ==
    \A u \in Uids \ undone :
        IF registered[u] = None THEN row[u] = None
        ELSE row[u] # None /\ row[u].verkey = registered[u]

\* A session listens where the posts to its endpoint go, unless a post has moved
\* the endpoint or another DID has taken its verkey since the row was read that
\* the session goes by, or two registrations of a new endpoint overlapped.  Nor
\* does it hold of an endpoint that was stored without a server, which happens
\* when its row was deleted and a copy of it was not.
ListensWherePostsGo ==
    \A c \in Clients :
        pc[c] = "live" /\ ~got[c].moved /\ uid[c] \notin contested
          => ServerIn(row, uid[c]) = got[c].server

\* "Check Push service will reconfigure endpoint to new redis instance if old
\* address is unreachable": as long as there are posts.
Stranded(u) == ServerIn(row, u) # None /\ ServerIn(row, u) \notin up
FailoverMovesAddress == \A u \in Posted : Stranded(u) ~> (~Stranded(u) \/ up = {})

=============================================================================
