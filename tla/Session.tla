------------------------------ MODULE Session -------------------------------
(***************************************************************************)
(* One onboarding session of a device: onboard() of mediator_scenarios.py. *)
(* Its main loop handles one request of the device at a time.  Beside it   *)
(* run the listener of the inbound queue (endpoint_processor), a listener  *)
(* for each bus thread the device subscribed to (protocol_listener), and   *)
(* the pickup requests that found the queue empty.  They all share the     *)
(* PickUpStateMachine of module Pickup, whose variables are declared here. *)
(*                                                                         *)
(* All are coroutines of one event loop; a step is what one of them does   *)
(* between two suspension points.  A suspension that nobody else can use   *)
(* to change the session (a query, an answer on the websocket) is no step. *)
(***************************************************************************)
EXTENDS Integers, FiniteSets

CONSTANTS
    Threads,    \* bus threads the device may subscribe to
    Parents,    \* parent thread ids
    Inbound,    \* the putter that listens to the inbound queue
    Main,       \* the putter that is the main loop
    Groups,     \* what the service of a device may name as group_id
    Subscriptions,      \* the subscriptions devices send
    Unsubscriptions,    \* and their unsubscriptions
    Takers, Ids, None, MaxQueueSize, Requests, MaxPuts     \* of the queue

\* direct: return route 'all', the answer is asked for on the websocket.
Subscription ==
    [threads : SUBSET Threads \ {{}}, parent : Parents \cup {None}, direct : BOOLEAN]
Unsubscription ==
    [threads : SUBSET Threads, parent : Parents \cup {None},
     aborted : BOOLEAN, direct : BOOLEAN]

VARIABLES
    queued, count, puts, filled, ready, wants, putWait, putWoken, request,
    takeWait, takeWoken, hung, delivered, overwritten,      \* the queue
    main,       \* where the main loop is
    connected,  \* the websocket of the device is open
    queueMode,  \* use_queue_transport
    group,      \* group_id
    inbound,    \* the task inbound_listener
    listener,   \* the task of each thread in protocols_listeners
    parent,     \* the attribute thread_id of such a task
    viaQueue,   \* such a task was given the queue
    asked,      \* the threads a subscription names
    terms,      \* parent id and use of the queue in that subscription
    todo,       \* its threads that the loop has not reached
    spawned,    \* pickup requests in a task of their own that has not run yet
    latest,     \* the pickup request that the main loop has read last
    serving,    \* the pickup request that the main loop is processing
    answered,   \* history: threads whose subscription was answered
    rejoined    \* history: connected anew since the last subscription

queueVars == <<queued, count, puts, filled, ready, wants, putWait, putWoken,
               request, takeWait, takeWoken, hung, delivered, overwritten>>
deviceVars == <<connected, queueMode, group>>
busVars   == <<listener, parent, viaQueue, asked, terms, todo, answered>>
pickVars  == <<spawned, latest, serving>>
vars == <<queueVars, main, deviceVars, inbound, busVars, pickVars, rejoined>>

Queue == INSTANCE Pickup
           WITH Putters <- Threads \cup {Inbound, Main}, UniqueIds <- TRUE

ASSUME SessionAssumption ==
    /\ Queue!PickupAssumption
    /\ Inbound \notin Threads /\ Main \notin Threads /\ Inbound # Main
    /\ None \notin Parents \cup Takers \cup Groups
    /\ Subscriptions \subseteq Subscription
    /\ Unsubscriptions \subseteq Unsubscription

NoTerms == [parent |-> None, viaQueue |-> FALSE]

Running == {t \in Threads : listener[t] \in {"starting", "live", "deaf"}}

Init ==
    /\ Queue!Init
    /\ main = "idle" /\ connected = TRUE
    /\ queueMode = FALSE /\ group = None /\ inbound = "none"
    /\ listener = [t \in Threads |-> "none"]
    /\ parent = [t \in Threads |-> None]
    /\ viaQueue = [t \in Threads |-> FALSE]
    /\ asked = {} /\ terms = NoTerms /\ todo = {}
    /\ spawned = {} /\ latest = None /\ serving = None
    /\ answered = {} /\ rejoined = FALSE

\* A coroutine gets the event loop: it is not captured, nor is the main loop
\* between the two halves of an unsubscription, where it does not suspend.
Turn == ~hung /\ main # "aborting"

\* The main loop waits for the next message of the device.
Listening == Turn /\ main = "idle" /\ connected

-----------------------------------------------------------------------------
(* Connection requests *)

\* A connection request naming group g, from a device with (q) or without the
\* queue transport; the connection protocol may fail.  The group is kept when
\* the request names none, and remembered although the protocol failed.
ConnRequest(g, q) ==
    /\ Listening
    /\ group' = IF g = None THEN group ELSE g
    /\ \/ UNCHANGED <<queueMode, inbound, rejoined, queueVars>>
       \/ /\ queueMode' = (queueMode \/ q)
          /\ inbound' = IF q /\ group' # "off" THEN "running"
                        ELSE IF inbound = "running" THEN "none" ELSE inbound
          /\ rejoined' = TRUE
          /\ Queue!PutCancel({Inbound})
    /\ UNCHANGED <<main, connected, busVars, pickVars>>

\* Mutant of Fetched: the listener does not wait for room.
Fetched_NoWait(id) ==
    /\ Turn /\ inbound = "running"
    /\ wants[Inbound] = None /\ queued[id] = 0 /\ Queue!PutsLeft
    /\ Queue!Store(Inbound, id)
    /\ UNCHANGED <<main, wants, deviceVars, inbound, busVars, pickVars, rejoined>>

\* The inbound listener has fetched a message and puts it into the queue.
Fetched(id) ==
    /\ Turn /\ inbound = "running"
    /\ Queue!PutCall(Inbound, id)
    /\ UNCHANGED <<main, deviceVars, inbound, busVars, pickVars, rejoined>>

\* Redis is lost while the inbound listener reads: the task ends.
InboundEnds ==
    /\ Turn /\ inbound = "running"
    /\ wants[Inbound] = None
    /\ inbound' = "ended"
    /\ UNCHANGED <<queueVars, main, deviceVars, busVars, pickVars, rejoined>>

-----------------------------------------------------------------------------
(* The bus *)

\* Mutant of Subscribe: the threads of the answer are not noted.
Subscribe_NotNoted(op) ==
    /\ Listening
    /\ main' = "binding"
    /\ todo' = op.threads
    /\ terms' = [parent |-> op.parent, viaQueue |-> queueMode /\ ~op.direct]
    /\ UNCHANGED <<queueVars, deviceVars, inbound, listener, parent, viaQueue, asked,
                   answered, pickVars, rejoined>>

\* A subscription.  The events go to the queue when the device uses it and
\* does not ask for return route 'all'.
Subscribe(op) ==
    /\ Listening
    /\ main' = "binding"
    /\ asked' = op.threads
    /\ todo' = op.threads
    /\ terms' = [parent |-> op.parent, viaQueue |-> queueMode /\ ~op.direct]
    /\ UNCHANGED <<queueVars, deviceVars, inbound, listener, parent, viaQueue,
                   answered, pickVars, rejoined>>

\* Mutant of Bind: the loop goes on before the topic is subscribed.
Bind_NoWait(t) ==
    /\ Turn /\ main = "binding"
    /\ t \in todo
    /\ todo' = todo \ {t}
    /\ IF t \in Running
       THEN UNCHANGED <<listener, parent, viaQueue>>
       ELSE /\ listener' = [listener EXCEPT ![t] = "starting"]
            /\ parent' = [parent EXCEPT ![t] = terms.parent]
            /\ viaQueue' = [viaQueue EXCEPT ![t] = terms.viaQueue]
    /\ answered' = IF t \in Running THEN answered ELSE answered \ {t}
    /\ UNCHANGED <<queueVars, main, deviceVars, inbound, asked, terms, pickVars,
                   rejoined>>

\* The next thread: a running listener is kept with its old terms, else a new
\* one starts and the main loop waits until it has subscribed to its topic.
Bind(t) ==
    /\ Turn /\ main = "binding"
    /\ t \in todo
    /\ todo' = todo \ {t}
    /\ IF t \in Running
       THEN UNCHANGED <<main, listener, parent, viaQueue>>
       ELSE /\ main' = "awaiting"
            /\ listener' = [listener EXCEPT ![t] = "starting"]
            /\ parent' = [parent EXCEPT ![t] = terms.parent]
            /\ viaQueue' = [viaQueue EXCEPT ![t] = terms.viaQueue]
    /\ answered' = IF t \in Running THEN answered ELSE answered \ {t}
    /\ UNCHANGED <<queueVars, deviceVars, inbound, asked, terms, pickVars, rejoined>>

\* Mutant of BusUp: the listener does not tell that it has subscribed.
BusUp_NoSet(t) ==
    /\ Turn /\ listener[t] = "starting"
    /\ listener' = [listener EXCEPT ![t] = "live"]
    /\ UNCHANGED <<queueVars, main, deviceVars, inbound, parent, viaQueue, asked,
                   terms, todo, answered, pickVars, rejoined>>

\* Bus.listen() has subscribed and lets the main loop go on.
BusUp(t) ==
    /\ Turn /\ listener[t] = "starting"
    /\ listener' = [listener EXCEPT ![t] = "live"]
    /\ main' = "binding"
    /\ UNCHANGED <<queueVars, deviceVars, inbound, parent, viaQueue, asked,
                   terms, todo, answered, pickVars, rejoined>>

\* Bus.listen() cannot reach the Redis server of the topic: the task ends with
\* an exception, and nobody releases the main loop.
BusRefused(t) ==
    /\ Turn /\ listener[t] = "starting"
    /\ listener' = [listener EXCEPT ![t] = "refused"]
    /\ UNCHANGED <<queueVars, main, deviceVars, inbound, parent, viaQueue, asked,
                   terms, todo, answered, pickVars, rejoined>>

\* The connection of the topic breaks: the reader of Bus.listen() ends, the
\* listener waits on for what it will never get.
BusLost(t) ==
    /\ Turn /\ listener[t] = "live"
    /\ listener' = [listener EXCEPT ![t] = "deaf"]
    /\ UNCHANGED <<queueVars, main, deviceVars, inbound, parent, viaQueue, asked,
                   terms, todo, answered, pickVars, rejoined>>

\* Mutant of Subscribed: the inbound listener stays.
Subscribed_KeepsInbound ==
    /\ Turn /\ main = "binding"
    /\ todo = {}
    /\ main' = "idle"
    /\ answered' = answered \cup asked
    /\ asked' = {} /\ terms' = NoTerms
    /\ rejoined' = FALSE
    /\ UNCHANGED <<queueVars, inbound, deviceVars, listener, parent, viaQueue, todo,
                   pickVars>>

\* All threads are bound and the device is told so.  Without a group id its
\* inbound messages stop.
Subscribed ==
    /\ Turn /\ main = "binding"
    /\ todo = {}
    /\ main' = "idle"
    /\ IF group = None /\ inbound = "running"
       THEN inbound' = "none" /\ Queue!PutCancel({Inbound})
       ELSE UNCHANGED <<inbound, queueVars>>
    /\ answered' = answered \cup asked
    /\ asked' = {} /\ terms' = NoTerms
    /\ rejoined' = FALSE
    /\ UNCHANGED <<deviceVars, listener, parent, viaQueue, todo, pickVars>>

\* Something was published to the topic of t: the listener puts an event into
\* the queue, or sends it on the websocket and ends if that is closed.
BusEvent(t, id) ==
    /\ Turn /\ listener[t] = "live"
    /\ \/ /\ viaQueue[t]
          /\ Queue!PutCall(t, id)
          /\ UNCHANGED listener
       \/ /\ ~viaQueue[t] /\ ~connected
          /\ listener' = [listener EXCEPT ![t] = "failed"]
          /\ UNCHANGED queueVars
    /\ UNCHANGED <<main, deviceVars, inbound, parent, viaQueue, asked, terms, todo,
                   answered, pickVars, rejoined>>

\* The threads that an unsubscription ends: those it names or whose parent it
\* names, and all when there are none in either way.
Unbound(ts, pa) ==
    LET bound  == {t \in Threads : listener[t] # "none"}
        chosen == ts \cup {t \in bound : pa # None /\ parent[t] = pa}
    IN  IF chosen = {} THEN bound ELSE chosen \cap bound

\* Mutant of Unsubscribe: the listeners are forgotten and not cancelled.
Unsubscribe_NoCancel(op) ==
    LET ended  == Unbound(op.threads, op.parent)
        answer == op.aborted /\ queueMode /\ ~op.direct
    IN  /\ Listening
        /\ answer => Queue!PutsLeft
        /\ listener' = [t \in Threads |-> IF t \in ended THEN "none" ELSE listener[t]]
        /\ parent' = [t \in Threads |-> IF t \in ended THEN None ELSE parent[t]]
        /\ viaQueue' = [t \in Threads |-> viaQueue[t] /\ t \notin ended]
        /\ answered' = answered \ ended
        /\ main' = IF answer THEN "aborting" ELSE "idle"
        /\ UNCHANGED <<queueVars, deviceVars, inbound, asked, terms, todo, pickVars,
                       rejoined>>

\* An unsubscription cancels its listeners.  The answer to an aborted one goes
\* to the queue, as the events did.
Unsubscribe(op) ==
    LET ended  == Unbound(op.threads, op.parent)
        answer == op.aborted /\ queueMode /\ ~op.direct
    IN  /\ Listening
        /\ answer => Queue!PutsLeft
        /\ Queue!PutCancel(ended)
        /\ listener' = [t \in Threads |-> IF t \in ended THEN "none" ELSE listener[t]]
        /\ parent' = [t \in Threads |-> IF t \in ended THEN None ELSE parent[t]]
        /\ viaQueue' = [t \in Threads |-> viaQueue[t] /\ t \notin ended]
        /\ answered' = answered \ ended
        /\ main' = IF answer THEN "aborting" ELSE "idle"
        /\ UNCHANGED <<deviceVars, inbound, asked, terms, todo, pickVars, rejoined>>

\* The main loop itself puts that answer: it goes on, or waits for room.
AbortAnswer(id) ==
    /\ main = "aborting"
    /\ Queue!PutCall(Main, id)
    /\ main' = IF ready THEN "idle" ELSE "blocked"
    /\ UNCHANGED <<deviceVars, inbound, busVars, pickVars, rejoined>>

-----------------------------------------------------------------------------
(* Pickup requests *)

Free(k) == request[k] = None /\ k \notin spawned

\* Request r of the device is processed; None stands for one that takes nothing.
Process(k, r) == IF r = None THEN Queue!Peek ELSE Queue!TakeCall(k, r)

\* The variable `request` of the main loop, as long as a task is to read it.
Bound(r) == IF spawned' = {} THEN None ELSE r

\* Mutant of Pickup: every request is processed in the main loop.
Pickup_InMain(k, r) ==
    /\ Listening /\ Free(k)
    /\ Process(k, r)
    /\ main' = IF request'[k] = None THEN "idle" ELSE "taking"
    /\ serving' = IF request'[k] = None THEN None ELSE k
    /\ UNCHANGED <<deviceVars, inbound, busVars, spawned, latest, rejoined>>

\* A request is processed in the main loop when the queue counts a message,
\* and in a task of its own when it is empty.
Pickup(k, r) ==
    /\ Listening
    /\ \/ /\ count > 0 /\ (r = None \/ Free(k))
          /\ Process(k, r)
          /\ main' = IF r = None \/ request'[k] = None THEN "idle" ELSE "taking"
          /\ serving' = IF main' = "idle" THEN None ELSE k
          /\ UNCHANGED spawned
       \/ /\ count = 0 /\ Free(k)
          /\ spawned' = spawned \cup {k}
          /\ UNCHANGED <<queueVars, main, serving>>
    /\ latest' = Bound(r)
    /\ UNCHANGED <<deviceVars, inbound, busVars, rejoined>>

\* __process_delayed__ gets its turn.  It processes what `request` is by then:
\* the request that the main loop has read last.
Delayed(k) ==
    /\ Turn /\ k \in spawned
    /\ Process(k, latest)
    /\ spawned' = spawned \ {k}
    /\ latest' = Bound(latest)
    /\ UNCHANGED <<main, deviceVars, inbound, busVars, serving, rejoined>>

\* The main loop goes on when the request that it processes is answered.
Served(k) ==
    /\ IF serving = k /\ request'[k] = None
       THEN main' = "idle" /\ serving' = None
       ELSE UNCHANGED <<main, serving>>
    /\ UNCHANGED <<deviceVars, inbound, busVars, spawned, latest, rejoined>>

\* A pending request is woken by a put, or its delay ends.
Woken(k)   == Turn /\ Queue!TakeResume(k) /\ Served(k)
Expired(k) == Turn /\ Queue!TakeExpire(k) /\ Served(k)

\* A task that waited for room puts its message.
Resumed(p) ==
    /\ Turn /\ Queue!PutResume(p)
    /\ main' = IF p = Main THEN "idle" ELSE main
    /\ UNCHANGED <<deviceVars, inbound, busVars, pickVars, rejoined>>

-----------------------------------------------------------------------------
\* The device goes away.
Disconnect ==
    /\ connected
    /\ connected' = FALSE
    /\ UNCHANGED <<queueVars, main, queueMode, group, inbound, busVars, pickVars,
                   rejoined>>

\* Mutant of End: only the bus listeners are cancelled.
End_InboundStays ==
    /\ Turn /\ main = "idle"
    /\ ~connected
    /\ main' = "ended"
    /\ listener' = [t \in Threads |-> IF t \in Running THEN "none" ELSE listener[t]]
    /\ Queue!PutCancel(Running)
    /\ UNCHANGED <<deviceVars, inbound, parent, viaQueue, asked, terms, todo, answered,
                   pickVars, rejoined>>

\* The main loop reads that the websocket is closed and cancels the listeners,
\* not the delayed pickup requests.
End ==
    /\ Turn /\ main = "idle"
    /\ ~connected
    /\ main' = "ended"
    /\ inbound' = IF inbound = "running" THEN "none" ELSE inbound
    /\ listener' = [t \in Threads |-> IF t \in Running THEN "none" ELSE listener[t]]
    /\ Queue!PutCancel(Running \cup {Inbound})
    /\ UNCHANGED <<deviceVars, parent, viaQueue, asked, terms, todo, answered, pickVars,
                   rejoined>>

FromDevice ==
    \/ \E g \in Groups \cup {None}, q \in BOOLEAN : ConnRequest(g, q)
    \/ \E op \in Subscriptions : Subscribe(op)
    \/ \E op \in Unsubscriptions : Unsubscribe(op)
    \/ \E k \in Takers, r \in Requests \cup {None} : Pickup(k, r)
    \/ Disconnect

FromRedis ==
    \/ InboundEnds
    \/ \E id \in Ids : Fetched(id)
    \/ \E t \in Threads : BusLost(t) \/ \E id \in Ids : BusEvent(t, id)

\* What the event loop runs on without the device or Redis.
Binding == Subscribed \/ \E t \in Threads : Bind(t)
Connecting(t) == BusUp(t) \/ BusRefused(t)
Aborting == \E id \in Ids : AbortAnswer(id)

Next ==
    \/ FromDevice \/ FromRedis
    \/ Binding \/ Aborting \/ End
    \/ \E t \in Threads : Connecting(t)
    \/ \E k \in Takers : Delayed(k) \/ Woken(k) \/ Expired(k)
    \/ \E p \in Threads \cup {Inbound, Main} : Resumed(p)

Spec == Init /\ [][Next]_vars

\* The event loop runs what is ready, timers expire, and an attempt to connect
\* to Redis ends.
Fairness ==
    /\ WF_vars(Binding) /\ WF_vars(Aborting) /\ WF_vars(End)
    /\ \A t \in Threads : WF_vars(Connecting(t))
    /\ \A k \in Takers : WF_vars(Delayed(k)) /\ WF_vars(Woken(k)) /\ WF_vars(Expired(k))
    /\ \A p \in Threads \cup {Inbound, Main} : WF_vars(Resumed(p))

FairSpec == Spec /\ Fairness

-----------------------------------------------------------------------------
MainStates == {"idle", "binding", "awaiting", "aborting", "blocked", "taking",
               "ended"}
TaskStates == {"none", "starting", "live", "deaf", "refused", "failed"}

TypeOK ==
    /\ main \in MainStates /\ connected \in BOOLEAN
    /\ queueMode \in BOOLEAN /\ group \in Groups \cup {None}
    /\ inbound \in {"none", "running", "ended"}
    /\ listener \in [Threads -> TaskStates]
    /\ parent \in [Threads -> Parents \cup {None}]
    /\ viaQueue \in [Threads -> BOOLEAN]
    /\ asked \subseteq Threads /\ todo \subseteq asked
    /\ terms \in [parent : Parents \cup {None}, viaQueue : BOOLEAN]
    /\ spawned \subseteq Takers /\ latest \in Requests \cup {None}
    /\ serving \in Takers \cup {None}
    /\ answered \subseteq Threads /\ rejoined \in BOOLEAN

\* A task that waits to put its message belongs to a stream that is on: no
\* event of a thread reaches the queue after its unsubscription, none of the
\* inbound stream after it was stopped, and the main loop waits in one place.
NoStrayPut ==
    /\ \A t \in Threads : wants[t] # None => listener[t] \in {"live", "deaf"} /\ viaQueue[t]
    /\ wants[Inbound] # None => inbound = "running"
    /\ wants[Main] # None => main = "blocked"

\* "active": a thread whose subscription was answered was subscribed at its
\* Redis server before the answer, whatever failed since.
AnsweredIsSubscribed ==
    main # "ended" => \A t \in answered : listener[t] \in {"live", "deaf", "failed"}

\* "Queue-Route DIDComm extension will not intersect with streams of bus
\* messages": a device without a group id gets no inbound messages beside its
\* subscriptions, unless it connected again.
StreamsApart ==
    answered # {} /\ group = None /\ ~rejoined => inbound # "running"

\* Nothing enters the queue of a session that has ended, although its delayed
\* pickup requests live on.
EndedIsQuiet == [][main = "ended" => puts' = puts]_vars

\* Every step of the session is a step of the queue or leaves it alone.
ImplementsQueue == Queue!Spec

\* A pickup request that the main loop processes is answered without help of
\* the device or of Redis, or captures the event loop.
MainServes == main = "taking" ~> (main # "taking" \/ hung)

\* The main loop, when it waits for room to answer an unsubscription, is
\* released by a pickup request that was pending already.  (No other can come:
\* nobody reads them.)
AbortReleasedByPending ==
    (main = "blocked" /\ \E k \in Takers : request[k] # None)
      ~> (main # "blocked" \/ hung)

\* The session of a device that has gone ends, unless its event loop was
\* captured, its queue is full of what nobody will take, or a Redis server
\* refused a subscription.
SessionEnds ==
    ~connected ~> \/ main = "ended" \/ hung
                  \/ main = "blocked" /\ count >= MaxQueueSize
                  \/ main = "awaiting" /\ \E t \in Threads : listener[t] = "refused"

=============================================================================
