--------------------------- MODULE Session_proofs ---------------------------
(***************************************************************************)
(* Safety of an onboarding session for any threads, parents, requests and  *)
(* any limit of its queue, and the proof that the session implements the   *)
(* queue of module Pickup.                                                 *)
(***************************************************************************)
EXTENDS Session, TLAPS

Putters == Threads \cup {Inbound, Main}

\* Subscribed, or not so any more through no fault of the main loop.
Up == {"live", "deaf", "failed"}

\* A task that waits to put is suspended in one place, with what it puts.
WaitInv ==
    /\ wants \in [Putters -> Ids \cup {None}]
    /\ putWait \subseteq Putters /\ putWoken \subseteq Putters
    /\ putWait \cap putWoken = {}
    /\ \A p \in Putters : wants[p] # None <=> p \in putWait \cup putWoken

\* Where the main loop is tells which request it serves, and that one listener
\* at most is starting: the one that it waits for.
MainInv ==
    /\ serving # None => main = "taking"
    /\ main \notin {"binding", "awaiting"} => asked = {}
    /\ \A t \in Threads : listener[t] = "starting" => main = "awaiting"
    /\ \A s, t \in Threads : listener[s] = "starting" /\ listener[t] = "starting" => s = t

\* The threads that the loop of a subscription has passed are subscribed, or
\* the last of them is not and the loop waits for it.
BoundInv ==
    /\ \A t \in asked \ todo :
         listener[t] \in Up \/ (main = "awaiting" /\ listener[t] \in {"starting", "refused"})
    /\ \A t \in Threads : listener[t] = "starting" =>
         \A s \in asked \ (todo \cup {t}) : listener[s] \in Up

\* A session that has ended listens to nothing.
EndInv ==
    main = "ended" =>
        inbound # "running" /\ \A t \in Threads : listener[t] \notin {"starting", "live", "deaf"}

IInv ==
    /\ TypeOK /\ WaitInv /\ MainInv /\ BoundInv /\ EndInv
    /\ NoStrayPut /\ AnsweredIsSubscribed /\ StreamsApart

-----------------------------------------------------------------------------
(* What the operations of the queue do to the tasks that wait to put *)

LEMMA Names ==
    /\ Inbound \in Putters /\ Main \in Putters /\ Threads \subseteq Putters
    /\ Inbound \notin Threads /\ Main \notin Threads /\ Inbound # Main
    /\ None \notin Ids
BY SessionAssumption DEF Putters, Queue!PickupAssumption

LEMMA StoreWaits ==
    ASSUME NEW p \in Putters, NEW id, Queue!Store(p, id)
    PROVE  /\ putWait' \subseteq putWait
           /\ putWoken' = (putWoken \cup (putWait \ putWait')) \ {p}
           /\ request' = request
BY DEF Queue!Store, Queue!SetReady

\* put() is called: only its own task may wait afterwards.
LEMMA PutCallWaits ==
    ASSUME WaitInv, NEW p \in Putters, NEW id \in Ids, Queue!PutCall(p, id)
    PROVE  /\ WaitInv' /\ request' = request
           /\ wants[p] = None /\ \A q \in Putters \ {p} : wants'[q] = wants[q]
           /\ ready => wants'[p] = None
<1>1. wants[p] = None /\ p \notin putWait \cup putWoken
  BY DEF Queue!PutCall, WaitInv
<1>2. CASE ready /\ Queue!Store(p, id) /\ wants' = wants
  BY <1>1, <1>2, StoreWaits DEF WaitInv
<1>3. CASE ~ready /\ wants' = [wants EXCEPT ![p] = id] /\ putWait' = putWait \cup {p}
           /\ UNCHANGED <<Queue!queueVars, Queue!takeVars, putWoken, hung>>
  BY <1>1, <1>3, Names DEF WaitInv, Queue!takeVars
<1> QED
  BY <1>2, <1>3 DEF Queue!PutCall

\* A task that was woken puts, and waits no longer.
LEMMA PutResumeWaits ==
    ASSUME WaitInv, NEW p \in Putters, Queue!PutResume(p)
    PROVE  /\ WaitInv' /\ request' = request
           /\ wants[p] # None /\ wants'[p] = None
           /\ \A q \in Putters \ {p} : wants'[q] = wants[q]
<1>1. /\ p \in putWoken /\ p \notin putWait
      /\ Queue!Store(p, wants[p])
      /\ wants' = [wants EXCEPT ![p] = None]
  BY DEF Queue!PutResume, WaitInv
<1> QED
  BY <1>1, StoreWaits DEF WaitInv

\* Cancelled tasks wait no longer, and nothing is stored.
LEMMA PutCancelWaits ==
    ASSUME WaitInv, NEW ps, Queue!PutCancel(ps)
    PROVE  /\ WaitInv' /\ request' = request /\ puts' = puts
           /\ \A q \in Putters : wants'[q] = IF q \in ps THEN None ELSE wants[q]
<1>1. /\ wants' = [q \in Putters |-> IF q \in ps THEN None ELSE wants[q]]
      /\ putWait' = putWait \ ps /\ putWoken' = putWoken \ ps
      /\ UNCHANGED <<Queue!queueVars, Queue!takeVars, hung>>
  BY DEF Queue!PutCancel, Putters
<1> QED
  BY <1>1 DEF WaitInv, Queue!queueVars, Queue!takeVars

LEMMA ResponseWaits ==
    ASSUME WaitInv, NEW n, Queue!PrepareResponse(n), wants' = wants
    PROVE  WaitInv'
<1>1. putWait' \subseteq putWait /\ putWoken' = putWoken \cup (putWait \ putWait')
  BY DEF Queue!PrepareResponse, Queue!SetReady
<1> QED
  BY <1>1 DEF WaitInv

LEMMA BatchWaits ==
    ASSUME WaitInv, NEW k, NEW r, Queue!BatchLoop(k, r)
    PROVE  WaitInv' /\ wants' = wants /\ puts' = puts
<1>1. CASE Queue!Remove(k, r)
  BY <1>1, ResponseWaits DEF Queue!Remove
<1>2. CASE Queue!KeepWaiting(k, r)
  BY <1>2 DEF Queue!KeepWaiting, Queue!queueVars, Queue!putVars, WaitInv
<1> QED
  BY <1>1, <1>2 DEF Queue!BatchLoop

\* Pickup and status requests wake waiting tasks, and do nothing else to them.
LEMMA TakeWaits ==
    ASSUME WaitInv,
           \/ \E k, r : Queue!TakeCall(k, r)
           \/ \E k : Queue!TakeResume(k)
           \/ \E k : Queue!TakeExpire(k)
           \/ Queue!Peek
    PROVE  WaitInv' /\ wants' = wants /\ puts' = puts
<1>1. ASSUME NEW k, NEW r, Queue!TakeCall(k, r)
      PROVE  WaitInv' /\ wants' = wants /\ puts' = puts
  BY <1>1, BatchWaits, ResponseWaits DEF Queue!TakeCall
<1>2. ASSUME NEW k, Queue!TakeResume(k)
      PROVE  WaitInv' /\ wants' = wants /\ puts' = puts
  BY <1>2, BatchWaits DEF Queue!TakeResume
<1>3. ASSUME NEW k, Queue!TakeExpire(k)
      PROVE  WaitInv' /\ wants' = wants /\ puts' = puts
  BY <1>3, ResponseWaits DEF Queue!TakeExpire, Queue!Remove
<1>4. CASE Queue!Peek
  BY <1>4, ResponseWaits DEF Queue!Peek
<1> QED
  BY <1>1, <1>2, <1>3, <1>4

\* So does a request of the device, whatever it asks for.
LEMMA ProcessWaits ==
    ASSUME WaitInv, NEW k, NEW r, Process(k, r)
    PROVE  WaitInv' /\ wants' = wants /\ puts' = puts
BY TakeWaits DEF Process

-----------------------------------------------------------------------------
LEMMA InitIInv == Init => IInv
<1> SUFFICES ASSUME Init PROVE IInv
  OBVIOUS
<1> USE SessionAssumption, Names DEF Init
<1>1. TypeOK
  BY DEF TypeOK, MainStates, TaskStates, NoTerms
<1>2. WaitInv /\ NoStrayPut
  BY DEF WaitInv, NoStrayPut, Queue!Init, Putters
<1>3. MainInv /\ BoundInv /\ EndInv /\ AnsweredIsSubscribed /\ StreamsApart
  BY DEF MainInv, BoundInv, EndInv, AnsweredIsSubscribed, StreamsApart
<1> QED
  BY <1>1, <1>2, <1>3 DEF IInv

\* The main loop at its request: nobody starts and no request is bound.
LEMMA AtRequest ==
    ASSUME IInv, Listening
    PROVE  /\ main = "idle" /\ connected /\ asked = {} /\ serving = None
           /\ \A t \in Threads : listener[t] # "starting"
           /\ wants[Main] = None
BY DEF IInv, Listening, MainInv, NoStrayPut

LEMMA ConnRequestIInv ==
    ASSUME IInv, NEW g \in Groups \cup {None}, NEW q \in BOOLEAN, ConnRequest(g, q)
    PROVE  IInv'
<1> USE DEF busVars, pickVars
<1>1. /\ main = "idle" /\ UNCHANGED <<main, connected, busVars, pickVars>>
      /\ group' = IF g = None THEN group ELSE g
  BY AtRequest DEF ConnRequest
<1>2. \/ UNCHANGED <<queueMode, inbound, rejoined, queueVars>>
      \/ /\ queueMode' = (queueMode \/ q)
         /\ inbound' = IF q /\ group' # "off" THEN "running"
                       ELSE IF inbound = "running" THEN "none" ELSE inbound
         /\ rejoined' = TRUE
         /\ Queue!PutCancel({Inbound})
  BY DEF ConnRequest
<1>3. WaitInv' /\ NoStrayPut'
  <2>1. CASE UNCHANGED <<inbound, queueVars>>
    BY <1>1, <2>1 DEF IInv, WaitInv, NoStrayPut, queueVars
  <2>2. CASE Queue!PutCancel({Inbound})
    BY <1>1, <2>2, PutCancelWaits, Names DEF IInv, NoStrayPut
  <2> QED
    BY <1>2, <2>1, <2>2
<1>4. TypeOK'
  BY <1>1, <1>2 DEF IInv, TypeOK
<1>5. MainInv' /\ BoundInv' /\ EndInv' /\ AnsweredIsSubscribed' /\ StreamsApart'
  BY <1>1, <1>2 DEF IInv, MainInv, BoundInv, EndInv, AnsweredIsSubscribed, StreamsApart
<1> QED
  BY <1>3, <1>4, <1>5 DEF IInv

\* The inbound listener puts what it has fetched, or ends.
LEMMA InboundIInv ==
    ASSUME IInv, InboundEnds \/ \E id \in Ids : Fetched(id)
    PROVE  IInv'
<1> USE DEF deviceVars, busVars, pickVars
<1>1. /\ UNCHANGED <<main, deviceVars, busVars, pickVars, rejoined>>
      /\ inbound = "running" /\ inbound' \in {"running", "ended"}
  BY DEF InboundEnds, Fetched
<1>2. WaitInv' /\ NoStrayPut'
  <2>1. CASE InboundEnds
    BY <1>1, <2>1 DEF IInv, InboundEnds, WaitInv, NoStrayPut, queueVars
  <2>2. ASSUME NEW id \in Ids, Fetched(id) PROVE WaitInv' /\ NoStrayPut'
    BY <1>1, <2>2, PutCallWaits, Names DEF IInv, Fetched, NoStrayPut
  <2> QED
    BY <2>1, <2>2
<1>3. TypeOK' /\ MainInv' /\ BoundInv' /\ EndInv' /\ AnsweredIsSubscribed' /\ StreamsApart'
  BY <1>1 DEF IInv, TypeOK, MainInv, BoundInv, EndInv, AnsweredIsSubscribed, StreamsApart
<1> QED
  BY <1>2, <1>3 DEF IInv

LEMMA SubscribeIInv ==
    ASSUME IInv, NEW op \in Subscriptions, Subscribe(op)
    PROVE  IInv'
<1>1. op \in Subscription
  BY SessionAssumption
<1>2. /\ Listening /\ main' = "binding" /\ asked' = op.threads /\ todo' = op.threads
      /\ terms' = [parent |-> op.parent, viaQueue |-> queueMode /\ ~op.direct]
      /\ UNCHANGED <<queueVars, deviceVars, inbound, listener, parent, viaQueue,
                     answered, pickVars, rejoined>>
  BY DEF Subscribe
<1>3. TypeOK'
  BY <1>1, <1>2, AtRequest
  DEF IInv, TypeOK, Subscription, deviceVars, pickVars, MainStates
<1>4. WaitInv' /\ NoStrayPut'
  BY <1>2, AtRequest DEF IInv, WaitInv, NoStrayPut, queueVars
<1>5. MainInv' /\ BoundInv' /\ EndInv' /\ AnsweredIsSubscribed' /\ StreamsApart'
  BY <1>2, AtRequest
  DEF IInv, MainInv, BoundInv, EndInv, AnsweredIsSubscribed, StreamsApart, deviceVars, pickVars
<1> QED
  BY <1>3, <1>4, <1>5 DEF IInv

LEMMA BindIInv ==
    ASSUME IInv, NEW t \in Threads, Bind(t)
    PROVE  IInv'
<1>1. /\ main = "binding" /\ t \in todo /\ todo' = todo \ {t}
      /\ UNCHANGED <<queueVars, deviceVars, inbound, asked, terms, pickVars, rejoined>>
      /\ answered' = IF t \in Running THEN answered ELSE answered \ {t}
  BY DEF Bind
<1>2. \/ /\ listener[t] \in {"live", "deaf"} /\ t \in Running
         /\ UNCHANGED <<main, listener, parent, viaQueue>>
      \/ /\ listener[t] \notin {"starting", "live", "deaf"} /\ t \notin Running
         /\ main' = "awaiting"
         /\ listener' = [listener EXCEPT ![t] = "starting"]
         /\ parent' = [parent EXCEPT ![t] = terms.parent]
         /\ viaQueue' = [viaQueue EXCEPT ![t] = terms.viaQueue]
  BY <1>1 DEF Bind, Running, IInv, MainInv
<1>3. \A s \in Threads : listener[s] # "starting"
  BY <1>1 DEF IInv, MainInv
<1>4. TypeOK'
  BY <1>1, <1>2 DEF IInv, TypeOK, deviceVars, pickVars, MainStates, TaskStates
<1>5. WaitInv'
  BY <1>1 DEF IInv, WaitInv, queueVars
<1>6. NoStrayPut'
  BY <1>1, <1>2 DEF IInv, TypeOK, NoStrayPut, queueVars
<1>7. MainInv' /\ EndInv'
  BY <1>1, <1>2, <1>3 DEF IInv, TypeOK, MainInv, EndInv, pickVars
<1>8. BoundInv'
  BY <1>1, <1>2, <1>3 DEF IInv, TypeOK, BoundInv, Up
<1>9. AnsweredIsSubscribed' /\ StreamsApart'
  BY <1>1, <1>2 DEF IInv, TypeOK, AnsweredIsSubscribed, StreamsApart, deviceVars
<1> QED
  BY <1>4, <1>5, <1>6, <1>7, <1>8, <1>9 DEF IInv

\* A listener has subscribed, was refused, or lost its connection.
LEMMA ListenerIInv ==
    ASSUME IInv, NEW t \in Threads, BusUp(t) \/ BusRefused(t) \/ BusLost(t)
    PROVE  IInv'
<1>1. UNCHANGED <<queueVars, deviceVars, inbound, parent, viaQueue, asked, terms, todo,
                  answered, pickVars, rejoined>>
  BY DEF BusUp, BusRefused, BusLost
<1>2. \/ /\ listener[t] = "starting" /\ main' = "binding"
         /\ listener' = [listener EXCEPT ![t] = "live"]
      \/ /\ listener[t] = "starting" /\ main' = main
         /\ listener' = [listener EXCEPT ![t] = "refused"]
      \/ /\ listener[t] = "live" /\ main' = main
         /\ listener' = [listener EXCEPT ![t] = "deaf"]
  BY DEF BusUp, BusRefused, BusLost
<1>3. listener[t] = "starting" => main = "awaiting"
  BY DEF IInv, MainInv
<1>4. TypeOK'
  BY <1>1, <1>2 DEF IInv, TypeOK, deviceVars, pickVars, MainStates, TaskStates
<1>5. WaitInv'
  BY <1>1 DEF IInv, WaitInv, queueVars
<1>6. NoStrayPut'
  BY <1>1, <1>2, <1>3 DEF IInv, TypeOK, NoStrayPut, queueVars
<1>7. MainInv' /\ EndInv'
  BY <1>1, <1>2, <1>3 DEF IInv, TypeOK, MainInv, EndInv, pickVars
<1>8. BoundInv'
  BY <1>1, <1>2, <1>3 DEF IInv, TypeOK, MainInv, BoundInv, Up
<1>9. AnsweredIsSubscribed' /\ StreamsApart'
  BY <1>1, <1>2, <1>3 DEF IInv, TypeOK, AnsweredIsSubscribed, StreamsApart, deviceVars
<1> QED
  BY <1>4, <1>5, <1>6, <1>7, <1>8, <1>9 DEF IInv

LEMMA SubscribedIInv ==
    ASSUME IInv, Subscribed
    PROVE  IInv'
<1>1. /\ main = "binding" /\ main' = "idle" /\ todo = {}
      /\ answered' = answered \cup asked
      /\ asked' = {} /\ terms' = NoTerms /\ rejoined' = FALSE
      /\ UNCHANGED <<deviceVars, listener, parent, viaQueue, todo, pickVars>>
  BY DEF Subscribed
<1>2. \/ group = None /\ inbound = "running" /\ inbound' = "none" /\ Queue!PutCancel({Inbound})
      \/ ~(group = None /\ inbound = "running") /\ UNCHANGED <<inbound, queueVars>>
  BY DEF Subscribed
<1>3. TypeOK'
  BY <1>1, <1>2 DEF IInv, TypeOK, deviceVars, pickVars, MainStates, NoTerms
<1>4. WaitInv' /\ NoStrayPut'
  <2>1. CASE UNCHANGED <<inbound, queueVars>>
    BY <1>1, <2>1 DEF IInv, WaitInv, NoStrayPut, queueVars
  <2>2. CASE Queue!PutCancel({Inbound})
    BY <1>1, <2>2, PutCancelWaits, Names DEF IInv, NoStrayPut
  <2> QED
    BY <1>2, <2>1, <2>2
<1>5. MainInv' /\ BoundInv' /\ EndInv'
  BY <1>1 DEF IInv, MainInv, BoundInv, EndInv, pickVars
<1>6. AnsweredIsSubscribed'
  BY <1>1 DEF IInv, TypeOK, BoundInv, AnsweredIsSubscribed, Up
<1>7. StreamsApart'
  BY <1>1, <1>2 DEF StreamsApart, deviceVars
<1> QED
  BY <1>3, <1>4, <1>5, <1>6, <1>7 DEF IInv

LEMMA BusEventIInv ==
    ASSUME IInv, NEW t \in Threads, NEW id \in Ids, BusEvent(t, id)
    PROVE  IInv'
<1>1. /\ listener[t] = "live"
      /\ UNCHANGED <<main, deviceVars, inbound, parent, viaQueue, asked, terms, todo,
                     answered, pickVars, rejoined>>
  BY DEF BusEvent
<1>2. \/ viaQueue[t] /\ Queue!PutCall(t, id) /\ listener' = listener
      \/ ~viaQueue[t] /\ listener' = [listener EXCEPT ![t] = "failed"] /\ UNCHANGED queueVars
  BY DEF BusEvent
<1>3. TypeOK'
  BY <1>1, <1>2 DEF IInv, TypeOK, deviceVars, pickVars, TaskStates
<1>4. WaitInv' /\ NoStrayPut'
  <2>1. CASE viaQueue[t] /\ Queue!PutCall(t, id) /\ listener' = listener
    BY <1>1, <2>1, PutCallWaits, Names DEF IInv, NoStrayPut
  <2>2. CASE ~viaQueue[t] /\ listener' = [listener EXCEPT ![t] = "failed"] /\ UNCHANGED queueVars
    BY <1>1, <2>2 DEF IInv, TypeOK, WaitInv, NoStrayPut, queueVars
  <2> QED
    BY <1>2, <2>1, <2>2
<1>5. MainInv' /\ BoundInv' /\ EndInv'
  BY <1>1, <1>2 DEF IInv, TypeOK, MainInv, BoundInv, EndInv, pickVars, Up
<1>6. AnsweredIsSubscribed' /\ StreamsApart'
  BY <1>1, <1>2 DEF IInv, TypeOK, AnsweredIsSubscribed, StreamsApart, deviceVars
<1> QED
  BY <1>3, <1>4, <1>5, <1>6 DEF IInv

LEMMA UnsubscribeIInv ==
    ASSUME IInv, NEW op \in Unsubscriptions, Unsubscribe(op)
    PROVE  IInv'
<1> DEFINE ended == Unbound(op.threads, op.parent)
           answer == op.aborted /\ queueMode /\ ~op.direct
<1>1. /\ Listening /\ Queue!PutCancel(ended)
      /\ listener' = [t \in Threads |-> IF t \in ended THEN "none" ELSE listener[t]]
      /\ parent' = [t \in Threads |-> IF t \in ended THEN None ELSE parent[t]]
      /\ viaQueue' = [t \in Threads |-> viaQueue[t] /\ t \notin ended]
      /\ answered' = answered \ ended
      /\ main' \in {"aborting", "idle"}
      /\ UNCHANGED <<deviceVars, inbound, asked, terms, todo, pickVars, rejoined>>
  BY DEF Unsubscribe
<1>2. ended \subseteq Threads
  BY DEF Unbound
<1> HIDE DEF ended, answer
<1>3. TypeOK'
  BY <1>1, <1>2 DEF IInv, TypeOK, deviceVars, pickVars, MainStates, TaskStates
<1>4. WaitInv' /\ NoStrayPut'
  BY <1>1, <1>2, PutCancelWaits, AtRequest, Names DEF IInv, NoStrayPut
<1>5. MainInv' /\ BoundInv' /\ EndInv'
  BY <1>1, AtRequest DEF IInv, TypeOK, MainInv, BoundInv, EndInv, pickVars
<1>6. AnsweredIsSubscribed' /\ StreamsApart'
  BY <1>1, AtRequest DEF IInv, TypeOK, AnsweredIsSubscribed, StreamsApart, deviceVars
<1> QED
  BY <1>3, <1>4, <1>5, <1>6 DEF IInv

LEMMA AbortAnswerIInv ==
    ASSUME IInv, NEW id \in Ids, AbortAnswer(id)
    PROVE  IInv'
<1>1. /\ main = "aborting" /\ Queue!PutCall(Main, id)
      /\ main' = IF ready THEN "idle" ELSE "blocked"
      /\ UNCHANGED <<deviceVars, inbound, busVars, pickVars, rejoined>>
  BY DEF AbortAnswer
<1>2. TypeOK' /\ MainInv' /\ BoundInv' /\ EndInv' /\ AnsweredIsSubscribed' /\ StreamsApart'
  BY <1>1 DEF IInv, TypeOK, MainInv, BoundInv, EndInv, AnsweredIsSubscribed, StreamsApart,
              deviceVars, busVars, pickVars, MainStates
<1>3. WaitInv' /\ NoStrayPut'
  BY <1>1, PutCallWaits, Names DEF IInv, NoStrayPut, busVars
<1> QED
  BY <1>2, <1>3 DEF IInv

\* A step of a pickup or status request leaves the waiting tasks and the
\* listeners alone; the main loop serves a request or goes on.
LEMMA RequestIInv ==
    ASSUME IInv, WaitInv', wants' = wants,
           UNCHANGED <<deviceVars, inbound, busVars, rejoined>>,
           spawned' \subseteq Takers, latest' \in Requests \cup {None},
           \/ main' = main /\ serving' = serving
           \/ main \in {"idle", "taking"} /\ main' = "idle" /\ serving' = None
           \/ main = "idle" /\ main' = "taking" /\ serving' \in Takers
    PROVE  IInv'
<1> USE DEF deviceVars, busVars
<1>1. TypeOK'
  BY DEF IInv, TypeOK, MainStates
<1>2. NoStrayPut'
  BY DEF IInv, NoStrayPut
<1>3. MainInv' /\ BoundInv' /\ EndInv'
  BY DEF IInv, MainInv, BoundInv, EndInv
<1>4. AnsweredIsSubscribed' /\ StreamsApart'
  BY DEF IInv, AnsweredIsSubscribed, StreamsApart
<1> QED
  BY <1>1, <1>2, <1>3, <1>4 DEF IInv

LEMMA PickupIInv ==
    ASSUME IInv, NEW k \in Takers, NEW r \in Requests \cup {None}, Pickup(k, r)
    PROVE  IInv'
<1>1. main = "idle" /\ UNCHANGED <<deviceVars, inbound, busVars, rejoined>>
  BY AtRequest DEF Pickup
<1>2. spawned \subseteq Takers /\ latest' \in Requests \cup {None}
  BY DEF IInv, TypeOK, Pickup, Bound
<1>3. CASE /\ Process(k, r)
           /\ main' = IF r = None \/ request'[k] = None THEN "idle" ELSE "taking"
           /\ serving' = IF main' = "idle" THEN None ELSE k
           /\ spawned' = spawned
  <2>1. WaitInv' /\ wants' = wants
    BY <1>3, ProcessWaits DEF IInv
  <2> QED
    BY <1>1, <1>2, <1>3, <2>1, RequestIInv
<1>4. CASE spawned' = spawned \cup {k} /\ UNCHANGED <<queueVars, main, serving>>
  BY <1>1, <1>2, <1>4, RequestIInv DEF IInv, WaitInv, queueVars
<1> QED
  BY <1>3, <1>4 DEF Pickup

LEMMA DelayedIInv ==
    ASSUME IInv, NEW k \in Takers, Delayed(k)
    PROVE  IInv'
<1>1. WaitInv' /\ wants' = wants
  BY ProcessWaits DEF IInv, Delayed
<1>2. spawned' \subseteq Takers /\ latest' \in Requests \cup {None}
  BY DEF IInv, TypeOK, Delayed, Bound
<1> QED
  BY <1>1, <1>2, RequestIInv DEF Delayed

\* A pending request is woken, or its delay is over.
LEMMA ServedIInv ==
    ASSUME IInv, NEW k \in Takers, Woken(k) \/ Expired(k)
    PROVE  IInv'
<1>1. WaitInv' /\ wants' = wants
  BY TakeWaits DEF IInv, Woken, Expired
<1>2. Served(k)
  BY DEF Woken, Expired
<1>3. serving = k => main = "taking"
  BY SessionAssumption DEF IInv, MainInv
<1> QED
  BY <1>1, <1>2, <1>3, RequestIInv DEF Served, IInv, TypeOK

LEMMA ResumedIInv ==
    ASSUME IInv, NEW p \in Putters, Resumed(p)
    PROVE  IInv'
<1>1. /\ Queue!PutResume(p) /\ main' = IF p = Main THEN "idle" ELSE main
      /\ UNCHANGED <<deviceVars, inbound, busVars, pickVars, rejoined>>
  BY DEF Resumed
<1>2. p = Main => main = "blocked"
  BY <1>1, PutResumeWaits, Names DEF IInv, NoStrayPut
<1>3. TypeOK' /\ MainInv' /\ BoundInv' /\ EndInv' /\ AnsweredIsSubscribed' /\ StreamsApart'
  BY <1>1, <1>2
  DEF IInv, TypeOK, MainInv, BoundInv, EndInv, AnsweredIsSubscribed, StreamsApart,
      deviceVars, busVars, pickVars, MainStates
<1>4. WaitInv' /\ NoStrayPut'
  BY <1>1, <1>2, PutResumeWaits, Names DEF IInv, NoStrayPut, busVars
<1> QED
  BY <1>3, <1>4 DEF IInv

LEMMA DisconnectIInv ==
    ASSUME IInv, Disconnect \/ UNCHANGED vars
    PROVE  IInv'
<1>1. /\ connected' \in BOOLEAN
      /\ UNCHANGED <<queueVars, main, queueMode, group, inbound, busVars, pickVars, rejoined>>
  BY DEF Disconnect, vars, deviceVars, IInv, TypeOK
<1> USE DEF queueVars, busVars, pickVars
<1>2. TypeOK' /\ WaitInv' /\ MainInv'
  BY <1>1 DEF IInv, TypeOK, WaitInv, MainInv
<1>3. BoundInv' /\ EndInv' /\ NoStrayPut' /\ AnsweredIsSubscribed' /\ StreamsApart'
  BY <1>1 DEF IInv, BoundInv, EndInv, NoStrayPut, AnsweredIsSubscribed, StreamsApart
<1> QED
  BY <1>2, <1>3 DEF IInv

LEMMA EndIInv ==
    ASSUME IInv, End
    PROVE  IInv'
<1>1. /\ main = "idle" /\ main' = "ended"
      /\ inbound' = IF inbound = "running" THEN "none" ELSE inbound
      /\ listener' = [t \in Threads |-> IF t \in Running THEN "none" ELSE listener[t]]
      /\ Queue!PutCancel(Running \cup {Inbound})
      /\ UNCHANGED <<deviceVars, parent, viaQueue, asked, terms, todo, answered, pickVars, rejoined>>
  BY DEF End
<1>2. \A t \in Threads : t \in Running <=> listener[t] \in {"starting", "live", "deaf"}
  BY DEF Running
<1>3. TypeOK'
  BY <1>1 DEF IInv, TypeOK, deviceVars, pickVars, MainStates, TaskStates
<1>4. WaitInv' /\ NoStrayPut'
  BY <1>1, <1>2, PutCancelWaits, Names DEF IInv, NoStrayPut
<1>5. MainInv' /\ BoundInv' /\ EndInv' /\ AnsweredIsSubscribed' /\ StreamsApart'
  BY <1>1, <1>2 DEF IInv, MainInv, BoundInv, EndInv, AnsweredIsSubscribed, StreamsApart,
                    deviceVars, pickVars
<1> QED
  BY <1>3, <1>4, <1>5 DEF IInv

LEMMA NextIInv == IInv /\ [Next]_vars => IInv'
<1> SUFFICES ASSUME IInv, [Next]_vars PROVE IInv'
  OBVIOUS
<1>1. CASE FromDevice
  BY <1>1, ConnRequestIInv, SubscribeIInv, UnsubscribeIInv, PickupIInv,
     DisconnectIInv DEF FromDevice
<1>2. CASE FromRedis
  BY <1>2, InboundIInv, ListenerIInv, BusEventIInv DEF FromRedis
<1>3. CASE Binding \/ Aborting \/ End
  BY <1>3, SubscribedIInv, BindIInv, AbortAnswerIInv, EndIInv DEF Binding, Aborting
<1>4. ASSUME NEW t \in Threads, Connecting(t) PROVE IInv'
  BY <1>4, ListenerIInv DEF Connecting
<1>5. ASSUME NEW k \in Takers, Delayed(k) \/ Woken(k) \/ Expired(k) PROVE IInv'
  BY <1>5, DelayedIInv, ServedIInv
<1>6. ASSUME NEW p \in Threads \cup {Inbound, Main}, Resumed(p) PROVE IInv'
  BY <1>6, ResumedIInv DEF Putters
<1>7. CASE UNCHANGED vars
  BY <1>7, DisconnectIInv
<1> QED
  BY <1>1, <1>2, <1>3, <1>4, <1>5, <1>6, <1>7 DEF Next

\* The invariant of the session.
THEOREM Invariance == Spec => []IInv
<1> QED
  BY InitIInv, NextIInv, PTL DEF Spec

-----------------------------------------------------------------------------
(* Safety *)

\* The session keeps its types.
THEOREM Typing == Spec => []TypeOK
<1>1. IInv => TypeOK
  BY DEF IInv
<1> QED
  BY <1>1, Invariance, PTL

\* No event of a thread reaches the queue after its unsubscription, nothing of
\* the inbound stream after it was stopped.
THEOREM NoStrayPuts == Spec => []NoStrayPut
<1>1. IInv => NoStrayPut
  BY DEF IInv
<1> QED
  BY <1>1, Invariance, PTL

\* A device that was told "active" was subscribed before.
THEOREM AnsweredAreSubscribed == Spec => []AnsweredIsSubscribed
<1>1. IInv => AnsweredIsSubscribed
  BY DEF IInv
<1> QED
  BY <1>1, Invariance, PTL

\* Inbound messages and subscriptions do not mix without a group id.
THEOREM StreamsStayApart == Spec => []StreamsApart
<1>1. IInv => StreamsApart
  BY DEF IInv
<1> QED
  BY <1>1, Invariance, PTL

\* When a session has ended, nobody waits to put.
LEMMA EndedWaits ==
    ASSUME IInv, main = "ended", NEW p \in Putters
    PROVE  wants[p] = None
BY DEF IInv, EndInv, NoStrayPut, Putters

\* Nothing enters the queue of a session that has ended.
THEOREM EndedStaysQuiet == Spec => EndedIsQuiet
<1>1. IInv /\ [Next]_vars => [main = "ended" => puts' = puts]_vars
  <2> SUFFICES ASSUME IInv, Next, main = "ended" PROVE puts' = puts
    OBVIOUS
  <2>1. ~Listening
    BY DEF Listening
  <2>2. CASE FromDevice
    BY <2>1, <2>2 DEF FromDevice, ConnRequest, Subscribe, Unsubscribe, Pickup,
                      Disconnect, queueVars
  <2>3. CASE FromRedis
    BY <2>3 DEF FromRedis, InboundEnds, Fetched, BusLost, BusEvent, IInv, EndInv
  <2>4. ~(Binding \/ Aborting \/ End)
    BY DEF Binding, Subscribed, Bind, Aborting, AbortAnswer, End
  <2>5. ASSUME NEW t \in Threads, Connecting(t) PROVE puts' = puts
    BY <2>5 DEF Connecting, BusUp, BusRefused, queueVars
  <2>6. ASSUME NEW k \in Takers, Delayed(k) \/ Woken(k) \/ Expired(k) PROVE puts' = puts
    BY <2>6, TakeWaits, ProcessWaits DEF Delayed, Woken, Expired, IInv
  <2>7. ASSUME NEW p \in Threads \cup {Inbound, Main}, Resumed(p) PROVE puts' = puts
    BY <2>7, PutResumeWaits, EndedWaits DEF Resumed, Putters, IInv
  <2> QED
    BY <2>2, <2>3, <2>4, <2>5, <2>6, <2>7 DEF Next
<1> QED
  BY <1>1, Invariance, PTL DEF Spec, EndedIsQuiet

-----------------------------------------------------------------------------
(* Refinement *)

LEMMA QueueInit == Init => Queue!Init
BY DEF Init

LEMMA QueueProcess ==
    ASSUME NEW k \in Takers, NEW r \in Requests \cup {None}, Process(k, r)
    PROVE  Queue!Next
BY DEF Process, Queue!Next, Queue!Taking

\* What the device sends does to the queue what a cancelling, a put or a pickup
\* request does, or nothing.
LEMMA QueueFromDevice ==
    ASSUME IInv, FromDevice
    PROVE  Queue!Next \/ UNCHANGED Queue!vars
<1>1. ASSUME NEW g, NEW q, ConnRequest(g, q) PROVE Queue!Next \/ UNCHANGED Queue!vars
  BY <1>1, Names DEF ConnRequest, Queue!Next, Putters, queueVars, Queue!vars,
     Queue!queueVars, Queue!putVars, Queue!takeVars
<1>2. ASSUME NEW op, Subscribe(op) PROVE UNCHANGED Queue!vars
  BY <1>2 DEF Subscribe, queueVars, Queue!vars, Queue!queueVars, Queue!putVars, Queue!takeVars
<1>3. ASSUME NEW op \in Unsubscriptions, Unsubscribe(op) PROVE Queue!Next
  <2>1. Unbound(op.threads, op.parent) \in SUBSET (Threads \cup {Inbound, Main})
    BY DEF Unbound
  <2> QED
    BY <1>3, <2>1 DEF Unsubscribe, Queue!Next
<1>4. ASSUME NEW k \in Takers, NEW r \in Requests \cup {None}, Pickup(k, r)
      PROVE  Queue!Next \/ UNCHANGED Queue!vars
  <2>1. CASE Process(k, r)
    BY <2>1, QueueProcess
  <2>2. CASE UNCHANGED queueVars
    BY <2>2 DEF queueVars, Queue!vars, Queue!queueVars, Queue!putVars, Queue!takeVars
  <2> QED
    BY <1>4, <2>1, <2>2 DEF Pickup
<1>5. CASE Disconnect
  BY <1>5 DEF Disconnect, queueVars, Queue!vars, Queue!queueVars, Queue!putVars, Queue!takeVars
<1> QED
  BY <1>1, <1>2, <1>3, <1>4, <1>5 DEF FromDevice

LEMMA QueueFromRedis ==
    ASSUME IInv, FromRedis
    PROVE  Queue!Next \/ UNCHANGED Queue!vars
<1> USE DEF queueVars, Queue!vars, Queue!queueVars, Queue!putVars, Queue!takeVars
<1>1. CASE InboundEnds
  BY <1>1 DEF InboundEnds
<1>2. ASSUME NEW id \in Ids, Fetched(id) PROVE Queue!Next
  BY <1>2 DEF Fetched, Queue!Next, Queue!Putting
<1>3. ASSUME NEW t \in Threads, BusLost(t) PROVE UNCHANGED Queue!vars
  BY <1>3 DEF BusLost
<1>4. ASSUME NEW t \in Threads, NEW id \in Ids, BusEvent(t, id)
      PROVE  Queue!Next \/ UNCHANGED Queue!vars
  BY <1>4 DEF BusEvent, Queue!Next, Queue!Putting
<1> QED
  BY <1>1, <1>2, <1>3, <1>4 DEF FromRedis

LEMMA QueueStep == IInv /\ [Next]_vars => [Queue!Next]_(Queue!vars)
<1> SUFFICES ASSUME IInv, [Next]_vars PROVE Queue!Next \/ UNCHANGED Queue!vars
  OBVIOUS
<1> DEFINE Stays == UNCHANGED Queue!vars
<1>1. CASE FromDevice
  BY <1>1, QueueFromDevice
<1>2. CASE FromRedis
  BY <1>2, QueueFromRedis
<1>3. ASSUME queueVars' = queueVars PROVE Stays
  BY <1>3 DEF queueVars, Queue!vars, Queue!queueVars, Queue!putVars, Queue!takeVars
<1>4. CASE Binding
  <2>1. CASE Subscribed
    BY <1>3, <2>1, Names DEF Subscribed, Queue!Next, Putters
  <2>2. ASSUME NEW t \in Threads, Bind(t) PROVE Stays
    BY <1>3, <2>2 DEF Bind
  <2> QED
    BY <1>4, <2>1, <2>2 DEF Binding
<1>5. CASE Aborting
  BY <1>5 DEF Aborting, AbortAnswer, Queue!Next, Queue!Putting
<1>6. CASE End
  <2>1. Running \cup {Inbound} \in SUBSET (Threads \cup {Inbound, Main})
    BY DEF Running
  <2> QED
    BY <1>6, <2>1 DEF End, Queue!Next
<1>7. ASSUME NEW t \in Threads, Connecting(t) PROVE Stays
  BY <1>3, <1>7 DEF Connecting, BusUp, BusRefused
<1>8. ASSUME NEW k \in Takers, Delayed(k) \/ Woken(k) \/ Expired(k) PROVE Queue!Next
  <2>1. latest \in Requests \cup {None}
    BY DEF IInv, TypeOK
  <2> QED
    BY <1>8, <2>1, QueueProcess DEF Delayed, Woken, Expired, Queue!Next, Queue!Taking
<1>9. ASSUME NEW p \in Threads \cup {Inbound, Main}, Resumed(p) PROVE Queue!Next
  BY <1>9 DEF Resumed, Queue!Next, Queue!Putting
<1>10. CASE UNCHANGED vars
  BY <1>3, <1>10 DEF vars
<1> QED
  BY <1>1, <1>2, <1>4, <1>5, <1>6, <1>7, <1>8, <1>9, <1>10 DEF Next

\* The session implements the queue of module Pickup: all that is proved of the
\* queue holds in a session, with the main loop and the inbound listener among
\* the tasks that put.
THEOREM Refinement == Spec => ImplementsQueue
<1> QED
  BY Invariance, QueueInit, QueueStep, PTL DEF Spec, ImplementsQueue, Queue!Spec

-----------------------------------------------------------------------------
(* What the queue promises, in a session *)

\* The proofs of module Pickup_proofs, read for the queue of a session.
Proved == INSTANCE Pickup_proofs
            WITH Putters <- Threads \cup {Inbound, Main}, UniqueIds <- TRUE

LEMMA ProvedAssumption == Proved!PickupAssumption
BY SessionAssumption
DEF Proved!PickupAssumption, Proved!IsFiniteSet, Proved!Request,
    Queue!PickupAssumption, Queue!IsFiniteSet, Queue!Request

\* Both instances are of one specification: their operators agree, from the
\* helpers up to the next-state relation.
LEMMA SameHelpers ==
    /\ \A S : Proved!Cardinality(S) = Queue!Cardinality(S)
    /\ Proved!PutsLeft <=> Queue!PutsLeft
    /\ \A k : Proved!Oldest(k) = Queue!Oldest(k)
<1>1. \A S : Proved!Cardinality(S) = Queue!Cardinality(S)
  BY DEF Proved!Cardinality, Queue!Cardinality
<1>2. Proved!PutsLeft <=> Queue!PutsLeft
  BY <1>1 DEF Proved!PutsLeft, Queue!PutsLeft
<1>3. \A k : Proved!Oldest(k) = Queue!Oldest(k)
  BY <1>1 DEF Proved!Oldest, Queue!Oldest, Proved!Queued, Queue!Queued
<1> QED
  BY <1>1, <1>2, <1>3

LEMMA SamePuts ==
    /\ \A p, id : Queue!PutCall(p, id) => Proved!PutCall(p, id)
    /\ \A p : Queue!PutResume(p) => Proved!PutResume(p)
    /\ \A ps : Queue!PutCancel(ps) => Proved!PutCancel(ps)
<1>1. \A p, id : Queue!Store(p, id) => Proved!Store(p, id)
  BY DEF Queue!Store, Proved!Store, Queue!SetReady, Proved!SetReady, Queue!HasRoom, Proved!HasRoom
<1>2. \A p, id : Queue!PutCall(p, id) => Proved!PutCall(p, id)
  BY <1>1, SameHelpers
  DEF Queue!PutCall, Proved!PutCall, Queue!queueVars, Proved!queueVars, Queue!takeVars, Proved!takeVars
<1>3. \A p : Queue!PutResume(p) => Proved!PutResume(p)
  BY <1>1 DEF Queue!PutResume, Proved!PutResume
<1>4. \A ps : Queue!PutCancel(ps) => Proved!PutCancel(ps)
  BY DEF Queue!PutCancel, Proved!PutCancel, Queue!queueVars, Proved!queueVars,
         Queue!takeVars, Proved!takeVars
<1> QED
  BY <1>2, <1>3, <1>4

LEMMA SameTakes ==
    /\ \A k, r : Queue!TakeCall(k, r) => Proved!TakeCall(k, r)
    /\ \A k : Queue!TakeResume(k) => Proved!TakeResume(k)
    /\ \A k : Queue!TakeExpire(k) => Proved!TakeExpire(k)
    /\ Queue!Peek => Proved!Peek
<1>1. \A n : Queue!PrepareResponse(n) => Proved!PrepareResponse(n)
  BY DEF Queue!PrepareResponse, Proved!PrepareResponse, Queue!SetReady, Proved!SetReady,
         Queue!HasRoom, Proved!HasRoom
<1>2. \A k, r : Queue!Remove(k, r) => Proved!Remove(k, r)
  BY <1>1, SameHelpers DEF Queue!Remove, Proved!Remove
<1>3. \A k, r : Queue!BatchLoop(k, r) => Proved!BatchLoop(k, r)
  BY <1>2 DEF Queue!BatchLoop, Proved!BatchLoop, Queue!KeepWaiting, Proved!KeepWaiting,
              Queue!queueVars, Proved!queueVars, Queue!putVars, Proved!putVars
<1>4. \A k, r : Queue!TakeCall(k, r) => Proved!TakeCall(k, r)
  BY <1>1, <1>3 DEF Queue!TakeCall, Proved!TakeCall, Queue!takeVars, Proved!takeVars
<1>5. \A k : Queue!TakeResume(k) => Proved!TakeResume(k)
  BY <1>3 DEF Queue!TakeResume, Proved!TakeResume
<1>6. \A k : Queue!TakeExpire(k) => Proved!TakeExpire(k)
  BY <1>2 DEF Queue!TakeExpire, Proved!TakeExpire
<1>7. Queue!Peek => Proved!Peek
  BY <1>1 DEF Queue!Peek, Proved!Peek, Queue!takeVars, Proved!takeVars
<1> QED
  BY <1>4, <1>5, <1>6, <1>7

LEMMA SameStep == [Queue!Next]_(Queue!vars) => [Proved!Next]_Proved!vars
<1>1. Queue!Next => Proved!Next
  BY SamePuts, SameTakes
  DEF Queue!Next, Proved!Next, Queue!Putting, Proved!Putting, Queue!Taking, Proved!Taking
<1>2. UNCHANGED Queue!vars => UNCHANGED Proved!vars
  BY DEF Queue!vars, Proved!vars, Queue!queueVars, Proved!queueVars,
         Queue!putVars, Proved!putVars, Queue!takeVars, Proved!takeVars
<1> QED
  BY <1>1, <1>2

LEMMA ProvedInit == Init => Proved!IInv
<1>1. Queue!Init => Proved!Init
  BY DEF Queue!Init, Proved!Init
<1> QED
  BY <1>1, QueueInit, ProvedAssumption, Proved!InitIInv

LEMMA ProvedStep == IInv /\ Proved!IInv /\ [Next]_vars => Proved!IInv'
BY QueueStep, SameStep, ProvedAssumption, Proved!NextIInv

\* The inductive invariant of the queue holds in every session.
THEOREM QueueInvariance == Spec => []Proved!IInv
<1> QED
  BY Invariance, ProvedInit, ProvedStep, PTL DEF Spec

\* The promises of the queue, kept in a session whose listeners come, are
\* cancelled and go, and whose main loop puts and takes itself: messages go out
\* in the order of their puts, none is lost, no task waits for what is there,
\* only a batch without a delay captures the event loop, and the queue outgrows
\* its limit by less than the threads and two.
QueuePromises ==
    /\ Queue!FifoOrder /\ Queue!NothingLost /\ Queue!NoLostWakeup
    /\ Queue!LoopCapturedByBatch
    /\ MaxQueueSize # None =>
         count + Queue!Cardinality(putWoken)
           < MaxQueueSize + Queue!Cardinality(Threads \cup {Inbound, Main})

\* Every session keeps them.
THEOREM SessionKeepsQueuePromises == Spec => []QueuePromises
<1>1. Init => Proved!LoopCapturedByBatch
  BY DEF Init, Queue!Init, Proved!LoopCapturedByBatch
<1>2. IInv /\ Proved!IInv /\ Proved!LoopCapturedByBatch /\ [Next]_vars
        => Proved!LoopCapturedByBatch'
  BY QueueStep, SameStep, ProvedAssumption, Proved!CaptureStep
<1>3. Proved!IInv /\ Proved!LoopCapturedByBatch => QueuePromises
  BY SameHelpers
  DEF QueuePromises, Proved!IInv, Proved!HistoryInv, Proved!DistinctInv, Proved!FifoOrder,
      Proved!NoLostWakeup, Proved!BoundedOvershoot, Proved!Queued, Proved!HasRoom,
      Queue!FifoOrder, Queue!NothingLost, Queue!NoLostWakeup, Queue!Queued, Queue!HasRoom,
      Proved!LoopCapturedByBatch, Queue!LoopCapturedByBatch
<1> QED
  BY <1>1, <1>2, <1>3, Invariance, QueueInvariance, PTL DEF Spec

\* In a session, too, a request without a delay that had to wait is answered
\* with all the messages it asked for.
THEOREM SessionAnswersInFull == Spec => Queue!UntimedBatchIsFull
<1>1. Proved!IInv /\ [Queue!Next]_(Queue!vars) =>
        [\A t \in Takers :
           request[t] # None /\ ~request[t].timed /\ request'[t] = None
             => Queue!Cardinality(delivered' \ delivered) = request[t].size]_(Queue!vars)
  <2> SUFFICES ASSUME Proved!IInv, [Queue!Next]_(Queue!vars), ~(UNCHANGED Queue!vars),
                      NEW k \in Takers,
                      request[k] # None, ~request[k].timed, request'[k] = None
               PROVE  Queue!Cardinality(delivered' \ delivered) = request[k].size
    OBVIOUS
  <2>1. UNCHANGED Proved!vars => UNCHANGED Queue!vars
    BY DEF Queue!vars, Proved!vars, Queue!queueVars, Proved!queueVars,
           Queue!putVars, Proved!putVars, Queue!takeVars, Proved!takeVars
  <2>2. Proved!Cardinality(delivered' \ delivered) = request[k].size
    BY <2>1, SameStep, ProvedAssumption, Proved!AnswerStep
  <2> QED
    BY <2>2, SameHelpers
<1>2. Spec => [][Queue!Next]_(Queue!vars)
  BY Refinement, PTL DEF ImplementsQueue, Queue!Spec
<1>3. []Proved!IInv /\ [][Queue!Next]_(Queue!vars) => Queue!UntimedBatchIsFull
  BY <1>1, PTL DEF Queue!UntimedBatchIsFull
<1> QED
  BY <1>2, <1>3, QueueInvariance, PTL

-----------------------------------------------------------------------------
(* Who releases the main loop *)

\* The main loop, when it does not read the device, waits for what can come:
\* a pickup request with a delay (one without a delay that it began on a filled
\* queue has captured the event loop), room in a queue that is full, or an
\* attempt to subscribe, unless that was refused.  It is the safe half of
\* MainServes and SessionEnds: no wakeup of the main loop is lost.
MainIsReleased ==
    /\ main = "taking" =>
         serving \in Takers /\ request[serving] # None /\ (request[serving].timed \/ hung)
    /\ main = "blocked" => Main \in putWoken \/ (Main \in putWait /\ ~Queue!HasRoom(count))
    /\ main = "awaiting" => \E t \in Threads : listener[t] \in {"starting", "refused"}

\* The same without the queue, and inductive.
ReleaseInv ==
    /\ main = "taking" =>
         serving \in Takers /\ request[serving] # None /\ (request[serving].timed \/ hung)
    /\ main = "blocked" => wants[Main] # None
    /\ main = "awaiting" => \E t \in Threads : listener[t] \in {"starting", "refused"}

\* A step of another pickup request leaves the one that is served alone; its own
\* step answers it or leaves it the request it was.
LEMMA TakeServes ==
    ASSUME request \in [Takers -> Requests \cup {None}], NEW k \in Takers,
           \/ \E r \in Requests : Queue!TakeCall(k, r)
           \/ Queue!TakeResume(k)
           \/ Queue!TakeExpire(k)
    PROVE  /\ \A j \in Takers \ {k} : request'[j] = request[j]
           /\ request[k] # None => request'[k] \in {request[k], None}
<1>1. ASSUME NEW r, Queue!BatchLoop(k, r) \/ Queue!Remove(k, r)
      PROVE  /\ \A j \in Takers \ {k} : request'[j] = request[j]
             /\ request'[k] \in {r, None}
  BY <1>1 DEF Queue!BatchLoop, Queue!Remove, Queue!KeepWaiting
<1>2. ASSUME NEW r \in Requests, Queue!TakeCall(k, r)
      PROVE  request[k] = None /\ \A j \in Takers \ {k} : request'[j] = request[j]
  BY <1>1, <1>2 DEF Queue!TakeCall, Queue!takeVars
<1> QED
  BY <1>1, <1>2 DEF Queue!TakeResume, Queue!TakeExpire

LEMMA ReleaseFromDevice ==
    ASSUME IInv, Proved!IInv, ReleaseInv, FromDevice
    PROVE  ReleaseInv'
<1>1. CASE Disconnect
  BY <1>1 DEF Disconnect, ReleaseInv, queueVars, busVars, pickVars
<1>2. ASSUME Listening, main' \in {"idle", "binding", "aborting"} PROVE ReleaseInv'
  BY <1>2 DEF ReleaseInv
<1>3. ASSUME NEW k \in Takers, NEW r \in Requests \cup {None}, Pickup(k, r) PROVE ReleaseInv'
  <2>1. Listening /\ main = "idle"
    BY <1>3 DEF Pickup, Listening
  <2>2. CASE /\ r # None /\ request'[k] # None /\ main' = "taking" /\ serving' = k
             /\ count > 0 /\ Queue!TakeCall(k, r)
    <3>1. filled /\ request \in [Takers -> Requests \cup {None}]
      BY <2>2 DEF Proved!IInv, Proved!FlagsInv, Proved!TypeOK
    <3>2. r \in Requests /\ None \notin Requests
      BY <2>2, SessionAssumption DEF Queue!PickupAssumption
    <3>3. CASE Queue!Remove(k, r) \/ UNCHANGED Queue!takeVars
      BY <2>2, <3>1, <3>3 DEF Queue!Remove, Queue!takeVars, Queue!TakeCall
    <3>4. CASE Queue!KeepWaiting(k, r)
      BY <2>2, <3>1, <3>4 DEF Queue!KeepWaiting, ReleaseInv
    <3> QED
      BY <2>2, <3>3, <3>4 DEF Queue!TakeCall, Queue!BatchLoop
  <2>3. CASE main' = "idle"
    BY <1>2, <2>1, <2>3
  <2> QED
    BY <1>3, <2>1, <2>2, <2>3 DEF Pickup, Process
<1>4. ASSUME NEW g, NEW q, ConnRequest(g, q) PROVE ReleaseInv'
  BY <1>2, <1>4 DEF ConnRequest, Listening
<1>5. ASSUME NEW op, Subscribe(op) \/ Unsubscribe(op) PROVE ReleaseInv'
  BY <1>2, <1>5 DEF Subscribe, Unsubscribe
<1> QED
  BY <1>1, <1>3, <1>4, <1>5 DEF FromDevice

\* A task puts or stops: the requests and the main loop stay.
LEMMA ReleaseFromRedis ==
    ASSUME IInv, Proved!IInv, ReleaseInv, FromRedis
    PROVE  ReleaseInv'
<1>1. ASSUME NEW p \in Threads \cup {Inbound}, NEW id \in Ids, Queue!PutCall(p, id)
      PROVE  request' = request /\ wants'[Main] = wants[Main]
  BY <1>1, PutCallWaits, Names DEF IInv, Putters
<1>2. ~hung /\ UNCHANGED <<main, serving>>
  BY DEF FromRedis, InboundEnds, Fetched, BusLost, BusEvent, Turn, pickVars
<1>3. request' = request /\ wants'[Main] = wants[Main]
  BY <1>1 DEF FromRedis, InboundEnds, Fetched, BusLost, BusEvent, queueVars
<1>4. \A t \in Threads : listener[t] \in {"starting", "refused"} => listener'[t] = listener[t]
  BY DEF FromRedis, InboundEnds, Fetched, BusLost, BusEvent, busVars, IInv, TypeOK
<1> QED
  BY <1>2, <1>3, <1>4 DEF ReleaseInv

LEMMA ReleaseTake ==
    ASSUME IInv, Proved!IInv, ReleaseInv, NEW k \in Takers, Delayed(k) \/ Woken(k) \/ Expired(k)
    PROVE  ReleaseInv'
<1>1. request \in [Takers -> Requests \cup {None}] /\ None \notin Takers
  BY SessionAssumption DEF Proved!IInv, Proved!TypeOK
<1>2. latest \in Requests \cup {None}
  BY DEF IInv, TypeOK
<1>3. /\ \A j \in Takers \ {k} : request'[j] = request[j]
      /\ request[k] # None => request'[k] \in {request[k], None}
  <2>1. CASE Delayed(k) /\ latest = None
    BY <2>1 DEF Delayed, Process, Queue!Peek, Queue!takeVars
  <2>2. CASE ~(Delayed(k) /\ latest = None)
    BY <1>1, <1>2, <2>2, TakeServes DEF Delayed, Woken, Expired, Process
  <2> QED
    BY <2>1, <2>2
<1>4. wants' = wants /\ ~hung /\ listener' = listener
  <2>1. WaitInv /\ UNCHANGED busVars /\ Turn
    BY DEF Delayed, Woken, Expired, Served, IInv
  <2>2. \/ \E j, r : Queue!TakeCall(j, r)
        \/ \E j : Queue!TakeResume(j)
        \/ \E j : Queue!TakeExpire(j)
        \/ Queue!Peek
    BY DEF Delayed, Woken, Expired, Process
  <2> QED
    BY <2>1, <2>2, TakeWaits DEF Turn, busVars
<1>5. CASE Delayed(k)
  BY <1>3, <1>4, <1>5 DEF Delayed, ReleaseInv, Process, Queue!TakeCall, Queue!Peek, Queue!takeVars
<1>6. CASE Served(k)
  <2>1. CASE serving = k /\ request'[k] = None
    BY <1>6, <2>1 DEF Served, ReleaseInv
  <2>2. CASE ~(serving = k /\ request'[k] = None)
    BY <1>3, <1>4, <1>6, <2>2 DEF Served, ReleaseInv
  <2> QED
    BY <2>1, <2>2
<1> QED
  BY <1>5, <1>6 DEF Woken, Expired

LEMMA ReleaseStep == IInv /\ Proved!IInv /\ ReleaseInv /\ [Next]_vars => ReleaseInv'
<1> SUFFICES ASSUME IInv, Proved!IInv, ReleaseInv, [Next]_vars PROVE ReleaseInv'
  OBVIOUS
<1>1. CASE FromDevice \/ FromRedis
  BY <1>1, ReleaseFromDevice, ReleaseFromRedis
<1>2. CASE Binding
  <2>1. CASE Subscribed
    BY <2>1 DEF Subscribed, ReleaseInv
  <2>2. ASSUME NEW t \in Threads, Bind(t) PROVE ReleaseInv'
    BY <2>2 DEF Bind, ReleaseInv, IInv, TypeOK
  <2> QED
    BY <1>2, <2>1, <2>2 DEF Binding
<1>3. ASSUME NEW id \in Ids, AbortAnswer(id) PROVE ReleaseInv'
  <2>1. Queue!PutCall(Main, id) /\ main' = IF ready THEN "idle" ELSE "blocked"
    BY <1>3 DEF AbortAnswer
  <2>2. ~ready => wants'[Main] = id
    BY <2>1, Names DEF Queue!PutCall, IInv, WaitInv
  <2> QED
    BY <2>1, <2>2, Names DEF ReleaseInv
<1>4. CASE End
  BY <1>4 DEF End, ReleaseInv
<1>5. ASSUME NEW t \in Threads, Connecting(t) PROVE ReleaseInv'
  BY <1>5 DEF Connecting, BusUp, BusRefused, ReleaseInv, IInv, TypeOK, MainInv, queueVars, pickVars
<1>6. ASSUME NEW k \in Takers, Delayed(k) \/ Woken(k) \/ Expired(k) PROVE ReleaseInv'
  BY <1>6, ReleaseTake
<1>7. ASSUME NEW p \in Threads \cup {Inbound, Main}, Resumed(p) PROVE ReleaseInv'
  <2>1. /\ request' = request /\ wants[p] # None
        /\ \A q \in Putters \ {p} : wants'[q] = wants[q]
    BY <1>7, PutResumeWaits DEF Resumed, IInv, Putters
  <2> QED
    BY <1>7, <2>1, Names DEF Resumed, Turn, ReleaseInv, busVars, pickVars
<1>8. CASE UNCHANGED vars
  BY <1>8 DEF vars, ReleaseInv, queueVars, busVars, pickVars
<1> QED
  BY <1>1, <1>2, <1>3, <1>4, <1>5, <1>6, <1>7, <1>8 DEF Next, Aborting

\* Whenever the main loop waits, what releases it can still come.
THEOREM MainIsNotForgotten == Spec => []MainIsReleased
<1>1. Init => ReleaseInv
  BY DEF Init, ReleaseInv
<1>2. IInv /\ Proved!IInv /\ ReleaseInv => MainIsReleased
  <2>1. IInv /\ Proved!IInv /\ main = "blocked" /\ wants[Main] # None
          => Main \in putWoken \/ (Main \in putWait /\ ~Queue!HasRoom(count))
    BY Names DEF IInv, WaitInv, Proved!IInv, Proved!NoLostWakeup, Proved!HasRoom, Queue!HasRoom
  <2> QED
    BY <2>1 DEF ReleaseInv, MainIsReleased
<1> QED
  BY <1>1, <1>2, ReleaseStep, Invariance, QueueInvariance, PTL DEF Spec
=============================================================================
