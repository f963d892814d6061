------------------------------ MODULE Delivery ------------------------------
(***************************************************************************)
(* Delivery of the messages that are posted to one endpoint: the handlers  *)
(* of POST /e/<endpoint> (post_to_device, RedisPush.push) append them to a *)
(* Redis stream, the listening sessions of the edge agent (RedisPull,      *)
(* endpoint_processor, endpoint_long_polling) read the stream through      *)
(* consumer groups, hand each message to the agent and publish an ACK on a *)
(* Redis pub/sub channel, on which the handler waits before it answers.    *)
(*                                                                         *)
(* Every push makes its own reverse channel: an empty ExpiringDict is      *)
(* false, so RedisPush drops the channels cache that it is given.  All     *)
(* channels of an endpoint subscribe one name, so each gets a copy of      *)
(* every ACK that is published while it is subscribed.                     *)
(*                                                                         *)
(* Messages are named by their post.  Redis is reachable throughout: the   *)
(* change of the server address after a connection error is in Failover.   *)
(***************************************************************************)
EXTENDS Integers, Sequences, FiniteSets

CONSTANTS
    Msgs,         \* posted messages, one handler each
    Groups,       \* consumer groups of the endpoint
    Sessions,     \* devices that may listen, again after a disconnect
    GroupOf,      \* the group a device declares (group_id)
    QueueMode,    \* the sessions with queue transport: pickup, not the socket
    QueueSize,    \* max_queue_size of the pickup queue of a session
    Fcm,          \* Firebase, any of "none": no device id; "off": not configured; "on"
    None,         \* absent value
    MaxConnects   \* bound: how many times a device connects

ASSUME DeliveryAssumption ==
    /\ GroupOf \in [Sessions -> Groups]
    /\ QueueMode \subseteq Sessions
    /\ QueueSize \in Nat \ {0}
    /\ Fcm # {} /\ Fcm \subseteq {"none", "off", "on"}
    /\ None \notin Msgs \cup Nat
    /\ MaxConnects \in Nat

VARIABLES
    phase,      \* where the handler of a message is
    acks,       \* the ACKs buffered in the reverse channel of a handler
    index,      \* position of a message in the stream, 0 when absent
    length,     \* length of the stream
    cursor,     \* last position handed to a consumer of a group, None before it exists
    session,    \* "off", "reading", "fetched" or "sent"
    holding,    \* the message a session has fetched and not yet acknowledged
    pickup,     \* messages in the pickup queue of a session
    connects,   \* how many times a device has connected
    handedBy,   \* history: the messages a device's listener has handed over
    acked,      \* history: the messages whose ACK was published
    received,   \* history: the messages that reached a device by its session
    pushed      \* history: the messages Firebase took

streamVars  == <<index, length>>
sessionVars == <<session, holding, pickup, connects>>
historyVars == <<handedBy, acked, received, pushed>>
vars == <<phase, acks, streamVars, cursor, sessionVars, historyVars>>

Phases == {"new", "bound", "written", "waiting", "fallback",
           "accepted", "notified", "gone", "misconfigured"}

\* The HTTP answers: 202 after an ACK, 202 after Firebase, 410 and 421.
Answered == {"accepted", "notified", "gone", "misconfigured"}

Init ==
    /\ phase = [m \in Msgs |-> "new"]
    /\ acks = [m \in Msgs |-> <<>>]
    /\ index = [m \in Msgs |-> 0]
    /\ length = 0
    /\ cursor = [g \in Groups |-> None]
    /\ session = [s \in Sessions |-> "off"]
    /\ holding = [s \in Sessions |-> None]
    /\ pickup = [s \in Sessions |-> <<>>]
    /\ connects = [s \in Sessions |-> 0]
    /\ handedBy = [s \in Sessions |-> {}]
    /\ acked = {}
    /\ received = [s \in Sessions |-> {}]
    /\ pushed = {}

-----------------------------------------------------------------------------
(* The handler of a post *)

\* The endpoint has a Redis address: the handler makes the channel pair and
\* subscribes the reverse channel.
Bind(m) ==
    /\ phase[m] = "new"
    /\ phase' = [phase EXCEPT ![m] = "bound"]
    /\ UNCHANGED <<acks, streamVars, cursor, sessionVars, historyVars>>

\* The endpoint has no Redis address: push() returns False.
NoAddress(m) ==
    /\ phase[m] = "new"
    /\ phase' = [phase EXCEPT ![m] = "fallback"]
    /\ UNCHANGED <<acks, streamVars, cursor, sessionVars, historyVars>>

\* AsyncRedisGroup.write: XADD, which succeeds whoever listens.
Write(m) ==
    /\ phase[m] = "bound"
    /\ phase' = [phase EXCEPT ![m] = "written"]
    /\ length' = length + 1
    /\ index' = [index EXCEPT ![m] = length + 1]
    /\ UNCHANGED <<acks, cursor, sessionVars, historyVars>>

\* The answer of XADD is there, and the handler begins to wait for its ACK.
Await(m) ==
    /\ phase[m] = "written"
    /\ phase' = [phase EXCEPT ![m] = "waiting"]
    /\ UNCHANGED <<acks, streamVars, cursor, sessionVars, historyVars>>

\* Mutant of ReadAck: the id of the ACK is not compared.
ReadAck_AnyAck(m) ==
    /\ phase[m] = "waiting"
    /\ acks[m] # <<>>
    /\ acks' = [acks EXCEPT ![m] = Tail(@)]
    /\ phase' = [phase EXCEPT ![m] = "accepted"]
    /\ UNCHANGED <<streamVars, cursor, sessionVars, historyVars>>

\* The handler reads the next ACK of its reverse channel; the ACK of another
\* message is logged and dropped.
ReadAck(m) ==
    /\ phase[m] = "waiting"
    /\ acks[m] # <<>>
    /\ acks' = [acks EXCEPT ![m] = Tail(@)]
    /\ phase' = IF Head(acks[m]) = m
                  THEN [phase EXCEPT ![m] = "accepted"] ELSE phase
    /\ UNCHANGED <<streamVars, cursor, sessionVars, historyVars>>

\* Mutant of AckTimeout: the time is looked at only after an ACK was read.
AckTimeout_AfterRead(m) ==
    /\ phase[m] = "waiting"
    /\ acks[m] # <<>>
    /\ phase' = [phase EXCEPT ![m] = "fallback"]
    /\ UNCHANGED <<acks, streamVars, cursor, sessionVars, historyVars>>

\* No ACK within DEVICE_ACK_TIMEOUT: push() returns False.
AckTimeout(m) ==
    /\ phase[m] = "waiting"
    /\ phase' = [phase EXCEPT ![m] = "fallback"]
    /\ UNCHANGED <<acks, streamVars, cursor, sessionVars, historyVars>>

\* The rest of post_to_device: Firebase, when the endpoint has a device id
\* and the server a configuration, which may change from post to post.  A send
\* may fail after Firebase took the message.
Fallback(m) ==
    /\ phase[m] = "fallback"
    /\ \/ /\ "none" \in Fcm
          /\ phase' = [phase EXCEPT ![m] = "gone"]
          /\ UNCHANGED pushed
       \/ /\ "off" \in Fcm
          /\ phase' = [phase EXCEPT ![m] = "misconfigured"]
          /\ UNCHANGED pushed
       \/ /\ "on" \in Fcm
          /\ phase' = [phase EXCEPT ![m] = "notified"]
          /\ pushed' = pushed \cup {m}
       \/ /\ "on" \in Fcm
          /\ phase' = [phase EXCEPT ![m] = "gone"]
          /\ pushed' \in {pushed, pushed \cup {m}}
    /\ UNCHANGED <<acks, streamVars, cursor, sessionVars, handedBy, acked, received>>

-----------------------------------------------------------------------------
(* The listening sessions *)

\* Mutants of Connect: every connection starts the group again, from the start
\* or from the end of the stream.
Connect_From(s, position) ==
    /\ session[s] = "off"
    /\ connects[s] < MaxConnects
    /\ connects' = [connects EXCEPT ![s] = @ + 1]
    /\ session' = [session EXCEPT ![s] = "reading"]
    /\ cursor' = [cursor EXCEPT ![GroupOf[s]] = position]
    /\ UNCHANGED <<phase, acks, streamVars, holding, pickup, historyVars>>
Connect_FromStart(s) == Connect_From(s, 0)
Connect_FromEnd(s)   == Connect_From(s, length)

\* A device connects, and the first read creates its group when there is none:
\* the group starts at the end of the stream.
Connect(s) ==
    /\ session[s] = "off"
    /\ connects[s] < MaxConnects
    /\ connects' = [connects EXCEPT ![s] = @ + 1]
    /\ session' = [session EXCEPT ![s] = "reading"]
    /\ cursor' = IF cursor[GroupOf[s]] = None
                   THEN [cursor EXCEPT ![GroupOf[s]] = length] ELSE cursor
    /\ UNCHANGED <<phase, acks, streamVars, holding, pickup, historyVars>>

\* XREADGROUP >: the next message of the stream goes to one consumer.
Fetch(s) ==
    LET g == GroupOf[s]
    IN  /\ session[s] = "reading"
        /\ cursor[g] < length
        /\ \E m \in Msgs :
             /\ index[m] = cursor[g] + 1
             /\ holding' = [holding EXCEPT ![s] = m]
        /\ cursor' = [cursor EXCEPT ![g] = @ + 1]
        /\ session' = [session EXCEPT ![s] = "fetched"]
        /\ UNCHANGED <<phase, acks, streamVars, pickup, connects, historyVars>>

\* The listener hands the message over: it writes the socket, or puts the
\* message into the pickup queue as soon as that has room.
HandOver(s) ==
    LET m == holding[s]
    IN  /\ session[s] = "fetched"
        /\ session' = [session EXCEPT ![s] = "sent"]
        /\ handedBy' = [handedBy EXCEPT ![s] = @ \cup {m}]
        /\ \/ /\ s \notin QueueMode
              /\ received' = [received EXCEPT ![s] = @ \cup {m}]
              /\ UNCHANGED pickup
           \/ /\ s \in QueueMode
              /\ Len(pickup[s]) < QueueSize
              /\ pickup' = [pickup EXCEPT ![s] = Append(@, m)]
              /\ UNCHANGED received
        /\ UNCHANGED <<phase, acks, streamVars, cursor, holding, connects, acked,
                       pushed>>

\* Mutant of Subscribed: a channel is subscribed by the first read.
Subscribed_ByRead == {m \in Msgs : phase[m] = "waiting"}

\* The handlers whose reverse channel is subscribed: from before the write to
\* the end of the wait.
Subscribed == {m \in Msgs : phase[m] \in {"bound", "written", "waiting"}}

\* Mutant of Ack: the session acknowledges before it holds a message.
Ack_Unguarded(s) ==
    /\ session[s] # "off"
    /\ acks' = [m \in Msgs |->
                  IF m \in Subscribed THEN Append(acks[m], holding[s]) ELSE acks[m]]
    /\ session' = [session EXCEPT ![s] = "reading"]
    /\ holding' = [holding EXCEPT ![s] = None]
    /\ acked' = acked \cup {holding[s]}
    /\ UNCHANGED <<phase, streamVars, cursor, pickup, connects, handedBy,
                   received, pushed>>

\* Request.ack(): every subscribed reverse channel gets a copy.
Ack(s) ==
    /\ session[s] = "sent"
    /\ acks' = [m \in Msgs |->
                  IF m \in Subscribed THEN Append(acks[m], holding[s]) ELSE acks[m]]
    /\ session' = [session EXCEPT ![s] = "reading"]
    /\ holding' = [holding EXCEPT ![s] = None]
    /\ acked' = acked \cup {holding[s]}
    /\ UNCHANGED <<phase, streamVars, cursor, pickup, connects, handedBy,
                   received, pushed>>

\* The agent takes a message out of its pickup queue.
Poll(s) ==
    /\ session[s] # "off"
    /\ pickup[s] # <<>>
    /\ received' = [received EXCEPT ![s] = @ \cup {Head(pickup[s])}]
    /\ pickup' = [pickup EXCEPT ![s] = Tail(@)]
    /\ UNCHANGED <<phase, acks, streamVars, cursor, session, holding, connects,
                   handedBy, acked, pushed>>

\* The connection of the device breaks, at any point of the listener.  Its
\* consumer is deleted with what was fetched and not handed over, the pickup
\* queue goes with the session, the group and its cursor stay.
Disconnect(s) ==
    /\ session[s] # "off"
    /\ session' = [session EXCEPT ![s] = "off"]
    /\ holding' = [holding EXCEPT ![s] = None]
    /\ pickup' = [pickup EXCEPT ![s] = <<>>]
    /\ UNCHANGED <<phase, acks, streamVars, cursor, connects, historyVars>>

-----------------------------------------------------------------------------
Handling(m) ==
    \/ Bind(m) \/ NoAddress(m) \/ Write(m) \/ Await(m)
    \/ ReadAck(m) \/ AckTimeout(m) \/ Fallback(m)
Listening(s) == Fetch(s) \/ HandOver(s) \/ Ack(s)

Next ==
    \/ \E m \in Msgs : Handling(m)
    \/ \E s \in Sessions : Listening(s) \/ Connect(s) \/ Poll(s) \/ Disconnect(s)

Spec == Init /\ [][Next]_vars

\* The event loops run what is ready and timers expire; an agent with queue
\* transport polls while it is connected.  Nobody has to post or to connect.
Fairness ==
    /\ \A m \in Msgs :
         WF_vars(Write(m) \/ Await(m) \/ ReadAck(m) \/ AckTimeout(m) \/ Fallback(m))
    /\ \A s \in Sessions : WF_vars(Listening(s)) /\ WF_vars(Poll(s))

FairSpec == Spec /\ Fairness

\* DEVICE_ACK_TIMEOUT is long beside the steps of handlers and listeners: it
\* ends a wait only when there is no ACK to read and no listener can go on,
\* whatever the agents do.
CanGoOn(s) ==
    \/ session[s] = "reading" /\ cursor[GroupOf[s]] < length
    \/ session[s] = "fetched" /\ (s \in QueueMode => Len(pickup[s]) < QueueSize)
    \/ session[s] = "sent"

GivesUp(m) == phase[m] = "waiting" /\ phase'[m] = "fallback"

PatientNext ==
    /\ Next
    /\ \A m \in Msgs : GivesUp(m) => acks[m] = <<>> /\ \A s \in Sessions : ~CanGoOn(s)

PatientSpec == Init /\ [][PatientNext]_vars

-----------------------------------------------------------------------------
TypeOK ==
    /\ phase \in [Msgs -> Phases]
    /\ acks \in [Msgs -> Seq(Msgs)]
    /\ index \in [Msgs -> Nat] /\ length \in Nat
    /\ cursor \in [Groups -> Nat \cup {None}]
    /\ session \in [Sessions -> {"off", "reading", "fetched", "sent"}]
    /\ holding \in [Sessions -> Msgs \cup {None}]
    /\ pickup \in [Sessions -> Seq(Msgs)]
    /\ connects \in [Sessions -> Nat]
    /\ handedBy \in [Sessions -> SUBSET Msgs]
    /\ acked \subseteq Msgs
    /\ received \in [Sessions -> SUBSET Msgs]
    /\ pushed \subseteq Msgs

Elements(seq) == {seq[i] : i \in 1 .. Len(seq)}
HandedOver(m) == \E s \in Sessions : m \in handedBy[s]

\* The sender is told 202 on an ACK only when a listener had handed its own
\* message over, whatever ACKs travel on the name their channels share.
AcceptedWasHandedOver ==
    \A m \in Msgs : phase[m] = "accepted" => HandedOver(m)

\* A group gets a message once: no two of its sessions, and no session after
\* a reconnect, hand over the same message, even when the first was cut off
\* before it could acknowledge.
HandedOverOnce ==
    \A s, t \in Sessions : GroupOf[s] = GroupOf[t] =>
        /\ s # t => handedBy[s] \cap handedBy[t] = {}
        /\ session[s] = "fetched" =>
             /\ holding[s] \notin handedBy[t]
             /\ s # t => holding[s] # holding[t]

\* A device hands over messages in the order of the stream, over all its
\* connections.
HandedOverInOrder ==
    \A s \in Sessions : session[s] = "fetched" =>
        \A m \in handedBy[s] : index[m] < index[holding[s]]

\* An ACK is published once and Redis keeps none of it.  The handler that it is
\* for has it all the same, also when a listener is faster than the handler
\* gets to wait and when ACKs of other messages are read before it.
AckKept ==
    \A m \in Msgs : phase[m] \in {"written", "waiting"} /\ m \in acked
                      => m \in Elements(acks[m])

\* The handlers, the stream and the listeners do what MessageFate promises.
Outcome(p) ==
    CASE p \in {"accepted", "notified"} -> p
      [] p \in {"gone", "misconfigured"} -> "refused"
      [] OTHER -> "pending"

Fate == INSTANCE MessageFate WITH
    outcome <- [m \in Msgs |-> Outcome(phase[m])],
    handed  <- [m \in Msgs |-> {GroupOf[s] : s \in {t \in Sessions : m \in handedBy[t]}}]

ImplementsFate == Fate!Spec

\* Every post that reached the stream is answered, by whichever path.
EveryPostIsAnswered ==
    \A m \in Msgs : index[m] > 0 ~> phase[m] \in Answered

\* A message that is in the stream of a group with a connected session is
\* handed over, unless a session of the group disconnects: sessions that come
\* later do not make the group skip it.
ConnectedGroupIsServed ==
    \A m \in Msgs, s \in Sessions :
        (/\ session[s] # "off"
         /\ index[m] > 0 /\ cursor[GroupOf[s]] < index[m])
        ~> \E t \in Sessions : /\ GroupOf[t] = GroupOf[s]
                               /\ \/ m \in handedBy[t]
                                  \/ session[t] = "off" /\ connects[t] > 0

\* "Mediator detect all Client Agent tcp connections are unreachable" before
\* it turns to Firebase: no handler gives up while the listener of a connected
\* device holds its message.
FirebaseOnlyIfUnreachable ==
    [][\A m \in Msgs : GivesUp(m) => \A s \in Sessions : holding[s] # m]_vars

\* "Mediator will queue all incoming forwarded messages to make available to
\* poll messages by recipient": a message accepted from its sender is with the
\* agent or in a queue that the agent can poll.
AcceptedStaysAvailable ==
    \A m \in Msgs : phase[m] = "accepted" =>
        \E s \in Sessions : m \in received[s] \cup Elements(pickup[s])

=============================================================================
