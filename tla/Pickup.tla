------------------------------- MODULE Pickup -------------------------------
(***************************************************************************)
(* The message queue of one mediator session: PickUpStateMachine of        *)
(* app/rfc/pickup.py.  Listener tasks put the messages that arrive for an  *)
(* edge agent, pickup requests of the agent take them out.  All of them    *)
(* are coroutines of one asyncio event loop, so a step of this             *)
(* specification is what one coroutine does between two suspension points. *)
(*                                                                         *)
(* The queue is an OrderedDict from message id to message.  Here a message *)
(* is the ordinal of the put that stored it, and queued[id] is that        *)
(* ordinal (0 when the id is absent): the ordinals order the dictionary,   *)
(* because put moves the id it stores to the end.                          *)
(***************************************************************************)
EXTENDS Integers, FiniteSets

CONSTANTS
    Putters,        \* tasks that call put(): inbound and bus listeners
    Takers,         \* calls of process() that may be pending at a time
    Ids,            \* message ids
    None,           \* absent value: no limit, no id, no request
    MaxQueueSize,   \* max_queue_size of the constructor, or None
    Requests,       \* the removing requests (batch and noop) agents send
    UniqueIds,      \* TRUE when no two undelivered messages share an id
    MaxPuts         \* bound: how many puts a behaviour may start

\* A batch request names a size; a noop is served as a batch of one.  A
\* request is timed when it carries a delay (the ~timing decorator).
Request == [noop : BOOLEAN, size : Nat, timed : BOOLEAN]

ASSUME PickupAssumption ==
    /\ IsFiniteSet(Putters)
    /\ None \notin Ids /\ None \notin Requests
    /\ MaxQueueSize = None \/ MaxQueueSize \in Nat \ {0}
    /\ Requests \subseteq Request
    /\ \A r \in Requests : r.noop => r.size = 1
    /\ UniqueIds \in BOOLEAN
    /\ MaxPuts \in Nat

VARIABLES
    queued,       \* __messages: the put that stored each id, 0 if absent
    count,        \* __message_count
    puts,         \* how many puts have stored a message (__last_added_time)
    filled,       \* the flag of the event __filled
    ready,        \* the flag of the event __ready_to_put
    wants,        \* the id of the message a pending put() carries
    putWait,      \* putters waiting on __ready_to_put
    putWoken,     \* putters the event has released and that have not run yet
    request,      \* the request a pending process() serves
    takeWait,     \* takers waiting on __filled
    takeWoken,    \* takers about to evaluate the loop of the batch again
    hung,         \* a coroutine loops without suspending: the event loop is lost
    delivered,    \* history: the puts whose message was handed to the agent
    overwritten   \* history: the puts whose message a later put replaced

queueVars == <<queued, count, puts, filled, ready, delivered, overwritten>>
putVars   == <<wants, putWait, putWoken>>
takeVars  == <<request, takeWait, takeWoken>>
vars == <<queueVars, putVars, takeVars, hung>>

Queued == {id \in Ids : queued[id] # 0}
HasRoom(n) == MaxQueueSize = None \/ n < MaxQueueSize

\* The bound on the puts a behaviour starts.
PutsLeft == puts + Cardinality(putWait) + Cardinality(putWoken) < MaxPuts

\* Mutant of Oldest: the end of the dictionary.
Oldest_Newest(k) ==
    {id \in Queued : Cardinality({j \in Queued : queued[j] > queued[id]}) < k}

\* The first k ids of the dictionary.
Oldest(k) ==
    {id \in Queued : Cardinality({j \in Queued : queued[j] < queued[id]}) < k}

Init ==
    /\ queued = [id \in Ids |-> 0]
    /\ count = 0
    /\ puts = 0
    /\ filled = FALSE
    /\ ready = TRUE
    /\ wants = [p \in Putters |-> None]
    /\ putWait = {}
    /\ putWoken = {}
    /\ request = [t \in Takers |-> None]
    /\ takeWait = {}
    /\ takeWoken = {}
    /\ hung = FALSE
    /\ delivered = {}
    /\ overwritten = {}

\* Event.set() on __ready_to_put releases every waiter, once, when the flag
\* goes up; Event.clear() touches no waiter.  `released` is the putter that
\* is leaving the event in the same step, if any.
SetReady(b, released) ==
    LET woken == IF b /\ ~ready THEN putWait ELSE {}
    IN  /\ ready' = b
        /\ putWait' = putWait \ woken
        /\ putWoken' = (putWoken \cup woken) \ released

\* The part of put() after its await.
Store(p, id) ==
    /\ queued' = [queued EXCEPT ![id] = puts + 1]
    /\ puts' = puts + 1
    /\ overwritten' =
         IF queued[id] = 0 THEN overwritten ELSE overwritten \cup {queued[id]}
    /\ count' = count + 1
    /\ filled' = TRUE
    /\ takeWait' = IF filled THEN takeWait ELSE {}
    /\ takeWoken' = IF filled THEN takeWoken ELSE takeWoken \cup takeWait
    /\ SetReady(HasRoom(count + 1), {p})
    /\ UNCHANGED <<delivered, request, hung>>

\* Mutant of PutCall: put() does not await __ready_to_put.
PutCall_NoWait(p, id) ==
    /\ ~hung
    /\ wants[p] = None
    /\ PutsLeft
    /\ UniqueIds => queued[id] = 0 /\ \A q \in Putters : wants[q] # id
    /\ Store(p, id)
    /\ UNCHANGED wants

\* put() is called: it goes straight through a set event and joins the
\* waiters of a clear one.
PutCall(p, id) ==
    /\ ~hung
    /\ wants[p] = None
    /\ PutsLeft
    /\ UniqueIds => queued[id] = 0 /\ \A q \in Putters : wants[q] # id
    /\ \/ /\ ready
          /\ Store(p, id)
          /\ UNCHANGED wants
       \/ /\ ~ready
          /\ wants' = [wants EXCEPT ![p] = id]
          /\ putWait' = putWait \cup {p}
          /\ UNCHANGED <<queueVars, takeVars, putWoken, hung>>

\* A released put() runs on.  It does not look at the event again.
PutResume(p) ==
    /\ ~hung
    /\ p \in putWoken
    /\ Store(p, wants[p])
    /\ wants' = [wants EXCEPT ![p] = None]

\* Tasks that may be suspended in put() are cancelled: their messages are
\* dropped.
PutCancel(ps) ==
    /\ ~hung
    /\ wants' = [p \in Putters |-> IF p \in ps THEN None ELSE wants[p]]
    /\ putWait' = putWait \ ps
    /\ putWoken' = putWoken \ ps
    /\ UNCHANGED <<queueVars, takeVars, hung>>

\* Mutants of PrepareResponse: one of the events is not refreshed.
PrepareResponse_KeepsReady(n) ==
    filled' = (filled /\ n # 0) /\ SetReady(ready, {})
PrepareResponse_KeepsFilled(n) ==
    /\ filled' = filled
    /\ SetReady(IF MaxQueueSize = None THEN ready ELSE HasRoom(n), {})

\* __prepare_response, with n messages counted.
PrepareResponse(n) ==
    /\ filled' = (filled /\ n # 0)
    /\ SetReady(IF MaxQueueSize = None THEN ready ELSE HasRoom(n), {})

\* Mutants of Remove: the counter goes down by the size asked for, and a batch
\* cut short by its delay is deleted and not handed out.
Remove_CountsRequested(t, r) ==
    LET taken == Oldest(r.size)
        left  == count - r.size
    IN  /\ queued' = [id \in Ids |-> IF id \in taken THEN 0 ELSE queued[id]]
        /\ delivered' = delivered \cup {queued[id] : id \in taken}
        /\ count' = left
        /\ PrepareResponse(left)
        /\ request' = [request EXCEPT ![t] = None]
        /\ takeWait' = takeWait \ {t}
        /\ takeWoken' = takeWoken \ {t}
        /\ UNCHANGED <<puts, overwritten, wants, hung>>
Remove_DropsPartial(t, r) ==
    LET taken == Oldest(IF r.size < count THEN r.size ELSE count)
        left  == count - Cardinality(taken)
    IN  /\ queued' = [id \in Ids |-> IF id \in taken THEN 0 ELSE queued[id]]
        /\ delivered' = IF Cardinality(taken) < r.size THEN delivered
                          ELSE delivered \cup {queued[id] : id \in taken}
        /\ count' = left
        /\ PrepareResponse(left)
        /\ request' = [request EXCEPT ![t] = None]
        /\ takeWait' = takeWait \ {t}
        /\ takeWoken' = takeWoken \ {t}
        /\ UNCHANGED <<puts, overwritten, wants, hung>>

\* The end of a batch: the first min(size, count) ids leave the queue.
Remove(t, r) ==
    LET taken == Oldest(IF r.size < count THEN r.size ELSE count)
        left  == count - Cardinality(taken)
    IN  /\ queued' = [id \in Ids |-> IF id \in taken THEN 0 ELSE queued[id]]
        /\ delivered' = delivered \cup {queued[id] : id \in taken}
        /\ count' = left
        /\ PrepareResponse(left)
        /\ request' = [request EXCEPT ![t] = None]
        /\ takeWait' = takeWait \ {t}
        /\ takeWoken' = takeWoken \ {t}
        /\ UNCHANGED <<puts, overwritten, wants, hung>>

\* The batch asks for more than is counted.  With the event clear it waits.
\* With the event set a timed request polls (wait_for returns and suspends),
\* an untimed one awaits a set event over and over and never suspends.
KeepWaiting(t, r) ==
    /\ request' = [request EXCEPT ![t] = r]
    /\ \/ /\ ~filled
          /\ takeWait' = takeWait \cup {t}
          /\ takeWoken' = takeWoken \ {t}
          /\ UNCHANGED hung
       \/ /\ filled /\ r.timed
          /\ takeWait' = takeWait \ {t}
          /\ takeWoken' = takeWoken \cup {t}
          /\ UNCHANGED hung
       \/ /\ filled /\ ~r.timed
          /\ hung' = TRUE
          /\ UNCHANGED <<takeWait, takeWoken>>
    /\ UNCHANGED <<queueVars, putVars>>

\* The loop of the batch: leave it when enough is counted, else go on waiting.
BatchLoop(t, r) ==
    \/ r.size <= count /\ Remove(t, r)
    \/ r.size > count /\ KeepWaiting(t, r)

\* process() is called with a batch or a noop.  An untimed noop is refused
\* at once on an empty queue.
TakeCall(t, r) ==
    /\ ~hung
    /\ request[t] = None
    /\ \/ /\ r.noop /\ ~r.timed /\ count = 0
          /\ PrepareResponse(count)
          /\ UNCHANGED <<queued, count, puts, delivered, overwritten, wants, takeVars, hung>>
       \/ /\ ~(r.noop /\ ~r.timed /\ count = 0)
          /\ BatchLoop(t, r)

\* Mutant of TakeResume: the batch does not look at the counter again.
TakeResume_NoRecheck(t) ==
    /\ ~hung
    /\ t \in takeWoken
    /\ Remove(t, request[t])

TakeResume(t) ==
    /\ ~hung
    /\ t \in takeWoken
    /\ BatchLoop(t, request[t])

\* Mutant of TakeExpire: an empty queue keeps the request waiting.
TakeExpire_OnlyFilled(t) ==
    /\ ~hung
    /\ request[t] # None
    /\ request[t].timed
    /\ count > 0
    /\ Remove(t, request[t])

\* The delay of a timed request is over: it takes what there is.
TakeExpire(t) ==
    /\ ~hung
    /\ request[t] # None
    /\ request[t].timed
    /\ Remove(t, request[t])

\* process() of a status, list or unknown request: it removes nothing, and
\* refreshes both events like every response.
Peek ==
    /\ ~hung
    /\ PrepareResponse(count)
    /\ UNCHANGED <<queued, count, puts, delivered, overwritten, wants, takeVars, hung>>

Putting(p) == (\E id \in Ids : PutCall(p, id)) \/ PutResume(p)
Taking(t)  == (\E r \in Requests : TakeCall(t, r)) \/ TakeResume(t) \/ TakeExpire(t)

Next ==
    \/ \E ps \in SUBSET Putters : PutCancel(ps)
    \/ \E p \in Putters : Putting(p)
    \/ \E t \in Takers : Taking(t)
    \/ Peek

Spec == Init /\ [][Next]_vars

-----------------------------------------------------------------------------
(* The event loop runs every coroutine that is ready, and timers expire.  *)
LoopFairness ==
    /\ \A p \in Putters : WF_vars(PutResume(p))
    /\ \A t \in Takers : WF_vars(TakeResume(t)) /\ WF_vars(TakeExpire(t))

FairSpec == Spec /\ LoopFairness

\* The agent keeps asking for its messages.
PollingSpec ==
    FairSpec /\ \A t \in Takers : WF_vars(\E r \in Requests : TakeCall(t, r))

-----------------------------------------------------------------------------
TypeOK ==
    /\ queued \in [Ids -> Nat]
    /\ count \in Nat /\ puts \in Nat
    /\ filled \in BOOLEAN /\ ready \in BOOLEAN /\ hung \in BOOLEAN
    /\ wants \in [Putters -> Ids \cup {None}]
    /\ putWait \subseteq Putters /\ putWoken \subseteq Putters
    /\ request \in [Takers -> Requests \cup {None}]
    /\ takeWait \subseteq Takers /\ takeWoken \subseteq Takers
    /\ delivered \subseteq Nat /\ overwritten \subseteq Nat

\* A coroutine is suspended on an event only while what it waits for is
\* absent from the queue: no set() of an event is ever missed, whatever the
\* order in which puts and requests run.
NoLostWakeup ==
    /\ putWait # {} => ~HasRoom(count)
    /\ takeWait # {} => count = 0

\* Messages are handed out in the order in which they were stored, batches
\* and noops of concurrent requests included: what is still queued was stored
\* after everything already handed out.
FifoOrder ==
    \A d \in delivered : \A id \in Queued : d < queued[id]

\* With distinct ids every stored message is in the queue or was handed out:
\* two requests woken by one put do not lose a message between them.
NothingLost ==
    UniqueIds => 1 .. puts = delivered \cup {queued[id] : id \in Queued}

\* put() does not look at __ready_to_put again after its wait, so a room that
\* opens lets every waiting task in.  The queue outgrows max_queue_size, but
\* by less than the number of tasks that put.
BoundedOvershoot ==
    MaxQueueSize # None =>
        count + Cardinality(putWoken) < MaxQueueSize + Cardinality(Putters)

\* Only a request without a delay for more than one message captures the event
\* loop: for every other request the loop of process() finds __filled set only
\* when a message is there to leave it, or suspends.
LoopCapturedByBatch ==
    hung => \E t \in Takers :
              request[t] # None /\ ~request[t].timed /\ request[t].size > count /\ count > 0

\* The counter never misses a message: a queue that holds one is counted as
\* filled, and with distinct ids the count is exact.
CountCoversQueue ==
    /\ count >= Cardinality(Queued)
    /\ UniqueIds => count = Cardinality(Queued)

\* A request without a delay that had to wait is answered with all the
\* messages it asked for, even when another request was woken by the same put
\* and emptied the queue first.
UntimedBatchIsFull ==
    [][\A t \in Takers :
         request[t] # None /\ ~request[t].timed /\ request'[t] = None
           => Cardinality(delivered' \ delivered) = request[t].size]_vars

\* A request with a delay is answered, unless the event loop was captured.
TimedRequestAnswered ==
    \A t \in Takers :
        (request[t] # None /\ request[t].timed) ~> (request[t] = None \/ hung)

\* As long as the agent asks for its messages, every task that waits to put
\* its message is let in, whatever the other tasks do, unless the event loop
\* was captured.
PutterServed ==
    \A p \in Putters : p \in putWait ~> (p \notin putWait \/ hung)

=============================================================================
