--------------------------- MODULE Delivery_proofs ---------------------------
(***************************************************************************)
(* Delivery keeps its promise for any number of posts, groups and devices: *)
(* an inductive invariant, the safety properties that follow from it, and  *)
(* the proof that Delivery implements MessageFate.                         *)
(***************************************************************************)
EXTENDS Delivery, TLAPS

\* A message has a place in the stream once its handler wrote it, and no two
\* messages share a place.
StreamInv ==
    /\ \A m \in Msgs : /\ phase[m] \in {"new", "bound"} => index[m] = 0
                       /\ phase[m] \in {"written", "waiting"} => index[m] # 0
    /\ \A m \in Msgs : index[m] <= length
    /\ \A m, k \in Msgs : index[m] = index[k] /\ index[m] # 0 => m = k
    /\ \A g \in Groups : cursor[g] # None => cursor[g] <= length

\* What a group handed over or holds lies at or before its cursor.
CursorInv ==
    \A s \in Sessions :
        /\ session[s] # "off" => cursor[GroupOf[s]] # None
        /\ session[s] \in {"fetched", "sent"} =>
             holding[s] # None /\ 0 < index[holding[s]]
             /\ index[holding[s]] <= cursor[GroupOf[s]]
        /\ session[s] \in {"off", "reading"} => holding[s] = None
        /\ session[s] = "sent" => holding[s] \in handedBy[s]
        /\ \A m \in handedBy[s] :
             cursor[GroupOf[s]] # None /\ 0 < index[m] /\ index[m] <= cursor[GroupOf[s]]

\* ACKs speak of messages that were handed over.
AckInv ==
    /\ \A m \in acked : HandedOver(m)
    /\ \A c \in Msgs : Elements(acks[c]) \subseteq acked
    /\ AcceptedWasHandedOver

IInv ==
    /\ TypeOK /\ StreamInv /\ CursorInv /\ AckInv
    /\ HandedOverOnce /\ HandedOverInOrder /\ AckKept

-----------------------------------------------------------------------------
\* What an ACK buffer contains after an append and after a read.
LEMMA AppendElements ==
    ASSUME NEW S, NEW q \in Seq(S), NEW e \in S
    PROVE  Append(q, e) \in Seq(S) /\ Elements(Append(q, e)) = Elements(q) \cup {e}
<1>1. /\ Len(Append(q, e)) = Len(q) + 1 /\ Len(q) \in Nat
      /\ \A i \in 1 .. Len(q) : Append(q, e)[i] = q[i]
      /\ Append(q, e)[Len(q) + 1] = e
  OBVIOUS
<1>2. 1 .. Len(q) + 1 = (1 .. Len(q)) \cup {Len(q) + 1}
  BY <1>1
<1> QED
  BY <1>1, <1>2 DEF Elements

LEMMA TailElements ==
    ASSUME NEW S, NEW q \in Seq(S), q # <<>>
    PROVE  /\ Tail(q) \in Seq(S) /\ Head(q) \in Elements(q)
           /\ Elements(q) = Elements(Tail(q)) \cup {Head(q)}
<1>1. /\ Len(q) \in Nat \ {0} /\ Len(Tail(q)) = Len(q) - 1
      /\ Head(q) = q[1]
      /\ \A i \in 1 .. Len(q) - 1 : Tail(q)[i] = q[i + 1]
  OBVIOUS
<1>2. \A i \in 1 .. Len(q) : i = 1 \/ (i - 1 \in 1 .. Len(q) - 1 /\ q[i] = Tail(q)[i - 1])
  BY <1>1
<1> QED
  BY <1>1, <1>2 DEF Elements

LEMMA InitIInv == Init => IInv
<1> SUFFICES ASSUME Init PROVE IInv
  OBVIOUS
<1> USE DeliveryAssumption DEF Init
<1>1. TypeOK
  BY DEF TypeOK, Phases
<1>2. StreamInv /\ CursorInv
  BY DEF StreamInv, CursorInv
<1>3. AckInv /\ HandedOverOnce /\ HandedOverInOrder /\ AckKept
  BY DEF AckInv, AcceptedWasHandedOver, HandedOverOnce, HandedOverInOrder, AckKept,
         Elements
<1> QED
  BY <1>1, <1>2, <1>3 DEF IInv

\* A message that was acknowledged is in the stream.
LEMMA AckedIsWritten ==
    ASSUME IInv, NEW m \in acked
    PROVE  m \in Msgs /\ index[m] # 0 /\ phase[m] \notin {"new", "bound"}
<1>1. PICK s \in Sessions : m \in handedBy[s]
  BY DEF IInv, AckInv, HandedOver
<1> QED
  BY <1>1 DEF IInv, TypeOK, CursorInv, StreamInv

\* The handler of a message subscribes its channel, or has none to subscribe.
LEMMA BindIInv ==
    ASSUME IInv, NEW m \in Msgs, Bind(m) \/ NoAddress(m)
    PROVE  IInv'
<1>1. /\ phase[m] = "new"
      /\ \E p \in {"bound", "fallback"} : phase' = [phase EXCEPT ![m] = p]
      /\ UNCHANGED <<acks, streamVars, cursor, sessionVars, historyVars>>
  BY DEF Bind, NoAddress
<1>2. TypeOK
  BY DEF IInv
<1>3. TypeOK'
  BY <1>1, <1>2 DEF TypeOK, Phases, streamVars, sessionVars, historyVars
<1>4. StreamInv' /\ CursorInv' /\ HandedOverOnce' /\ HandedOverInOrder'
  BY <1>1, <1>2 DEF IInv, TypeOK, StreamInv, CursorInv, HandedOverOnce, HandedOverInOrder,
                    streamVars, sessionVars, historyVars
<1>5. AckInv'
  <2>1. \A k \in Msgs : phase'[k] = "accepted" => phase[k] = "accepted"
    BY <1>1, <1>2 DEF TypeOK
  <2>2. acks' = acks /\ acked' = acked /\ \A k : HandedOver(k)' <=> HandedOver(k)
    BY <1>1 DEF HandedOver, historyVars
  <2> QED
    BY <2>1, <2>2 DEF IInv, AckInv, AcceptedWasHandedOver
<1>6. AckKept'
  <2>1. \A k \in Msgs : phase'[k] \in {"written", "waiting"} =>
           phase[k] \in {"written", "waiting"}
    BY <1>1, <1>2 DEF TypeOK
  <2>2. acks' = acks /\ acked' = acked
    BY <1>1 DEF historyVars
  <2> QED
    BY <2>1, <2>2 DEF IInv, AckKept
<1> QED
  BY <1>3, <1>4, <1>5, <1>6 DEF IInv

\* The handler writes its message to the stream.
LEMMA WriteIInv ==
    ASSUME IInv, NEW m \in Msgs, Write(m)
    PROVE  IInv'
<1>1. /\ phase[m] = "bound"
      /\ phase' = [phase EXCEPT ![m] = "written"]
      /\ length' = length + 1
      /\ index' = [index EXCEPT ![m] = length + 1]
      /\ UNCHANGED <<acks, cursor, sessionVars, historyVars>>
  BY DEF Write
<1>2. TypeOK /\ index[m] = 0
  BY <1>1 DEF IInv, StreamInv
<1>3. TypeOK'
  BY <1>1, <1>2 DEF TypeOK, Phases, sessionVars, historyVars
<1>4. StreamInv'
  BY <1>1, <1>2, DeliveryAssumption DEF IInv, TypeOK, StreamInv
<1>5. CursorInv'
  <2>1. \A s \in Sessions : holding[s] = m => session[s] \notin {"fetched", "sent"}
    BY <1>2 DEF IInv, CursorInv
  <2>2. \A s \in Sessions : m \notin handedBy[s]
    BY <1>2 DEF IInv, CursorInv
  <2> QED
    BY <1>1, <1>2, <2>1, <2>2, DeliveryAssumption
    DEF IInv, TypeOK, CursorInv, sessionVars, historyVars
<1>6. AckInv'
  BY <1>1, <1>2 DEF IInv, TypeOK, AckInv, AcceptedWasHandedOver, HandedOver, Elements,
                    sessionVars, historyVars
<1>7. HandedOverOnce'
  BY <1>1, <1>2 DEF IInv, TypeOK, HandedOverOnce, sessionVars, historyVars
<1>8. HandedOverInOrder'
  BY <1>1, <1>2, DeliveryAssumption
  DEF IInv, TypeOK, HandedOverInOrder, CursorInv, sessionVars, historyVars
<1>9. AckKept'
  <2>1. m \notin acked
    BY <1>1, AckedIsWritten
  <2>2. \A k \in Msgs \ {m} : phase'[k] = phase[k]
    BY <1>1, <1>2 DEF TypeOK
  <2>3. acks' = acks /\ acked' = acked
    BY <1>1 DEF historyVars
  <2> QED
    BY <2>1, <2>2, <2>3 DEF IInv, AckKept
<1> QED
  BY <1>3, <1>4, <1>5, <1>6, <1>7, <1>8, <1>9 DEF IInv

\* The handler reads an ACK: its own, or one it drops.
LEMMA ReadAckIInv ==
    ASSUME IInv, NEW m \in Msgs, ReadAck(m)
    PROVE  IInv'
<1>1. /\ phase[m] = "waiting"
      /\ acks[m] # <<>>
      /\ acks' = [acks EXCEPT ![m] = Tail(acks[m])]
      /\ phase' = IF Head(acks[m]) = m
                    THEN [phase EXCEPT ![m] = "accepted"] ELSE phase
      /\ UNCHANGED <<streamVars, cursor, sessionVars, historyVars>>
  BY DEF ReadAck
<1>2. TypeOK
  BY DEF IInv
<1>3. /\ Tail(acks[m]) \in Seq(Msgs)
      /\ Head(acks[m]) \in Elements(acks[m])
      /\ Elements(acks[m]) = Elements(Tail(acks[m])) \cup {Head(acks[m])}
  <2>1. acks[m] \in Seq(Msgs)
    BY <1>2 DEF TypeOK
  <2> QED
    BY <1>1, <2>1, TailElements
<1>4. Head(acks[m]) \in acked
  BY <1>2, <1>3 DEF IInv, AckInv
<1>5. TypeOK'
  BY <1>1, <1>2, <1>3 DEF TypeOK, Phases, streamVars, sessionVars, historyVars
<1>6. StreamInv' /\ CursorInv' /\ HandedOverOnce' /\ HandedOverInOrder'
  BY <1>1, <1>2 DEF IInv, TypeOK, StreamInv, CursorInv, HandedOverOnce, HandedOverInOrder,
                    streamVars, sessionVars, historyVars
<1>7. AckInv'
  <2>1. \A k \in Msgs : Elements(acks'[k]) \subseteq Elements(acks[k])
    BY <1>1, <1>2, <1>3 DEF TypeOK
  <2>2. HandedOver(m) \/ phase' = phase
    BY <1>1, <1>4 DEF IInv, AckInv
  <2> QED
    BY <1>1, <1>2, <2>1, <2>2
    DEF IInv, TypeOK, AckInv, AcceptedWasHandedOver, HandedOver, sessionVars, historyVars
<1>8. AckKept'
  <2> SUFFICES ASSUME NEW k \in Msgs, phase'[k] \in {"written", "waiting"}, k \in acked'
               PROVE  k \in Elements(acks'[k])
    BY DEF AckKept
  <2>1. phase[k] \in {"written", "waiting"} /\ k \in acked
    BY <1>1, <1>2 DEF TypeOK, historyVars
  <2>2. k \in Elements(acks[k])
    BY <2>1 DEF IInv, AckKept
  <2>3. CASE k # m
    BY <1>1, <1>2, <2>2, <2>3 DEF TypeOK
  <2>4. CASE k = m
    <3>1. Head(acks[m]) # k
      BY <1>1, <1>2, <2>4 DEF TypeOK
    <3>2. acks'[k] = Tail(acks[m])
      BY <1>1, <1>2, <2>4 DEF TypeOK
    <3> QED
      BY <1>3, <2>2, <2>4, <3>1, <3>2
  <2> QED
    BY <2>3, <2>4
<1> QED
  BY <1>5, <1>6, <1>7, <1>8 DEF IInv

\* The handler begins to wait, gives up, or is answered.
LEMMA HandlerEndsIInv ==
    ASSUME IInv, NEW m \in Msgs, Await(m) \/ AckTimeout(m) \/ Fallback(m)
    PROVE  IInv'
<1>1. /\ \/ phase[m] = "written" /\ phase' = [phase EXCEPT ![m] = "waiting"]
         \/ /\ phase[m] \in {"waiting", "fallback"}
            /\ \E p \in {"fallback", "gone", "misconfigured", "notified"} :
                 phase' = [phase EXCEPT ![m] = p]
      /\ pushed' \in {pushed, pushed \cup {m}}
      /\ UNCHANGED <<acks, streamVars, cursor, sessionVars, handedBy, acked, received>>
  BY DEF Await, AckTimeout, Fallback, historyVars
<1>2. TypeOK
  BY DEF IInv
<1>3. TypeOK'
  BY <1>1, <1>2 DEF TypeOK, Phases, streamVars, sessionVars
<1>4. StreamInv' /\ CursorInv' /\ HandedOverOnce' /\ HandedOverInOrder'
  BY <1>1, <1>2 DEF IInv, TypeOK, StreamInv, CursorInv, HandedOverOnce, HandedOverInOrder,
                    streamVars, sessionVars
<1>5. AckInv'
  <2>1. \A k \in Msgs : phase'[k] = "accepted" => phase[k] = "accepted"
    BY <1>1, <1>2 DEF TypeOK
  <2>2. acks' = acks /\ acked' = acked /\ \A k : HandedOver(k)' <=> HandedOver(k)
    BY <1>1 DEF HandedOver
  <2> QED
    BY <2>1, <2>2 DEF IInv, AckInv, AcceptedWasHandedOver
<1>6. AckKept'
  <2>1. \A k \in Msgs : phase'[k] \in {"written", "waiting"} =>
           phase[k] \in {"written", "waiting"}
    BY <1>1, <1>2 DEF TypeOK
  <2>2. acks' = acks /\ acked' = acked
    BY <1>1
  <2> QED
    BY <2>1, <2>2 DEF IInv, AckKept
<1> QED
  BY <1>3, <1>4, <1>5, <1>6 DEF IInv

\* A device connects; a new group starts behind every message of the stream.
LEMMA ConnectIInv ==
    ASSUME IInv, NEW s \in Sessions, Connect(s)
    PROVE  IInv'
<1> DEFINE g == GroupOf[s]
<1>1. /\ session[s] = "off"
      /\ connects' = [connects EXCEPT ![s] = connects[s] + 1]
      /\ session' = [session EXCEPT ![s] = "reading"]
      /\ cursor' = IF cursor[g] = None THEN [cursor EXCEPT ![g] = length] ELSE cursor
      /\ UNCHANGED <<phase, acks, streamVars, holding, pickup, historyVars>>
  BY DEF Connect
<1>2. TypeOK /\ g \in Groups /\ GroupOf \in [Sessions -> Groups]
  BY DeliveryAssumption DEF IInv
<1> HIDE DEF g
<1>3. TypeOK'
  BY <1>1, <1>2 DEF TypeOK, streamVars, historyVars
<1>4. StreamInv'
  BY <1>1, <1>2 DEF IInv, TypeOK, StreamInv, streamVars
<1>5. \A r \in Sessions : /\ cursor[GroupOf[r]] # None =>
                               cursor'[GroupOf[r]] = cursor[GroupOf[r]]
                          /\ session'[r] = IF r = s THEN "reading" ELSE session[r]
  BY <1>1, <1>2 DEF TypeOK
<1>6. cursor'[g] \in Nat
  <2>1. CASE cursor[g] = None
    BY <1>1, <1>2, <2>1 DEF TypeOK
  <2>2. CASE cursor[g] # None
    BY <1>1, <1>2, <2>2 DEF TypeOK
  <2> QED
    BY <2>1, <2>2
<1>7. cursor'[g] # None
  <2>1. CASE cursor[g] # None
    BY <1>1, <2>1
  <2>2. CASE cursor[g] = None
    BY <1>6, DeliveryAssumption
  <2> QED
    BY <2>1, <2>2
<1>8. CursorInv'
  BY <1>1, <1>2, <1>5, <1>7 DEF IInv, TypeOK, CursorInv, streamVars, historyVars, g
<1>9. AckInv' /\ AckKept'
  BY <1>1 DEF IInv, AckInv, AcceptedWasHandedOver, HandedOver, Elements,
              AckKept, historyVars
<1>10. HandedOverOnce' /\ HandedOverInOrder'
  BY <1>1, <1>5 DEF IInv, HandedOverOnce, HandedOverInOrder, streamVars, historyVars
<1> QED
  BY <1>3, <1>4, <1>8, <1>9, <1>10 DEF IInv

\* A listener fetches the next message of its group.
LEMMA FetchIInv ==
    ASSUME IInv, NEW s \in Sessions, Fetch(s)
    PROVE  IInv'
<1> DEFINE g == GroupOf[s]
<1>1. PICK m \in Msgs : /\ index[m] = cursor[g] + 1
                        /\ holding' = [holding EXCEPT ![s] = m]
  BY DEF Fetch
<1>2. /\ session[s] = "reading" /\ cursor[g] < length
      /\ cursor' = [cursor EXCEPT ![g] = cursor[g] + 1]
      /\ session' = [session EXCEPT ![s] = "fetched"]
      /\ UNCHANGED <<phase, acks, streamVars, pickup, connects, historyVars>>
  BY DEF Fetch
<1>3. TypeOK /\ g \in Groups /\ GroupOf \in [Sessions -> Groups]
  BY DeliveryAssumption DEF IInv
<1>4. cursor[g] \in Nat /\ cursor[g] # None
  BY <1>2, <1>3 DEF IInv, TypeOK, CursorInv
<1>5. /\ cursor'[g] = cursor[g] + 1 /\ cursor'[g] # None
      /\ \A r \in Sessions : GroupOf[r] # g => cursor'[GroupOf[r]] = cursor[GroupOf[r]]
  BY <1>2, <1>3, <1>4, DeliveryAssumption DEF TypeOK
<1>6. \A r \in Sessions : GroupOf[r] = g =>
         /\ \A k \in handedBy[r] : k \in Msgs /\ index[k] < index[m]
         /\ session[r] \in {"fetched", "sent"} => index[holding[r]] < index[m]
  BY <1>1, <1>3, <1>4 DEF IInv, TypeOK, CursorInv
<1>7. \A r \in Sessions : /\ session'[r] = IF r = s THEN "fetched" ELSE session[r]
                          /\ holding'[r] = IF r = s THEN m ELSE holding[r]
  BY <1>1, <1>2, <1>3 DEF TypeOK
<1>8. /\ index' = index /\ handedBy' = handedBy /\ length' = length /\ phase' = phase
      /\ acks' = acks /\ acked' = acked
  BY <1>2 DEF streamVars, historyVars
<1>9. TypeOK'
  BY <1>1, <1>2, <1>3, <1>4 DEF TypeOK, streamVars, historyVars
<1> HIDE DEF g
<1>10. StreamInv'
  BY <1>2, <1>3, <1>4, <1>8 DEF IInv, TypeOK, StreamInv
<1>11. CursorInv'
  <2> SUFFICES ASSUME NEW r \in Sessions
               PROVE  /\ session'[r] # "off" => cursor'[GroupOf[r]] # None
                      /\ session'[r] \in {"fetched", "sent"} =>
                           holding'[r] # None /\ 0 < index[holding'[r]]
                           /\ index[holding'[r]] <= cursor'[GroupOf[r]]
                      /\ session'[r] \in {"off", "reading"} => holding'[r] = None
                      /\ session'[r] = "sent" => holding'[r] \in handedBy[r]
                      /\ \A k \in handedBy[r] :
                           cursor'[GroupOf[r]] # None /\ 0 < index[k]
                           /\ index[k] <= cursor'[GroupOf[r]]
    BY <1>8 DEF CursorInv
  <2>1. CASE r = s
    BY <1>1, <1>3, <1>4, <1>5, <1>6, <1>7, <2>1, DeliveryAssumption
    DEF IInv, TypeOK, CursorInv, g
  <2>2. CASE r # s /\ GroupOf[r] = g
    BY <1>1, <1>3, <1>4, <1>5, <1>6, <1>7, <2>2 DEF IInv, TypeOK, CursorInv
  <2>3. CASE GroupOf[r] # g
    BY <1>5, <1>7, <2>3 DEF IInv, CursorInv, g
  <2> QED
    BY <2>1, <2>2, <2>3
<1>12. AckInv' /\ AckKept'
  BY <1>8 DEF IInv, AckInv, AcceptedWasHandedOver, HandedOver, Elements,
              AckKept
<1>13. HandedOverOnce'
  <2> SUFFICES ASSUME NEW r \in Sessions, NEW t \in Sessions, GroupOf[r] = GroupOf[t]
               PROVE  /\ r # t => handedBy[r] \cap handedBy[t] = {}
                      /\ session'[r] = "fetched" =>
                           /\ holding'[r] \notin handedBy[t]
                           /\ r # t => holding'[r] # holding'[t]
    BY <1>8 DEF HandedOverOnce
  <2>1. r # t => handedBy[r] \cap handedBy[t] = {}
    BY DEF IInv, HandedOverOnce
  <2>2. CASE r = s
    <3>1. \A k \in handedBy[t] : k # m
      BY <1>3, <1>6, <2>2 DEF g, IInv, TypeOK
    <3>2. session[t] \in {"fetched", "sent"} => holding[t] # m
      BY <1>3, <1>6, <2>2 DEF g, IInv, TypeOK
    <3>3. session[t] \notin {"fetched", "sent"} => holding[t] # m
      BY <1>3, DeliveryAssumption DEF IInv, TypeOK, CursorInv
    <3> QED
      BY <1>7, <2>1, <2>2, <3>1, <3>2, <3>3
  <2>3. CASE r # s /\ t # s
    BY <1>7, <2>3 DEF IInv, HandedOverOnce
  <2>4. CASE r # s /\ t = s
    <3>1. session[r] = "fetched" => holding[r] # m /\ holding[r] \notin handedBy[t]
      BY <1>3, <1>6, <2>4 DEF g, IInv, TypeOK, HandedOverOnce
    <3> QED
      BY <1>7, <2>1, <2>4, <3>1
  <2> QED
    BY <2>2, <2>3, <2>4
<1>14. HandedOverInOrder'
  <2>1. \A k \in handedBy[s] : index[k] < index[m]
    BY <1>6 DEF g
  <2> QED
    BY <1>7, <1>8, <2>1 DEF IInv, HandedOverInOrder
<1> QED
  BY <1>9, <1>10, <1>11, <1>12, <1>13, <1>14 DEF IInv

\* A listener hands its message over.
LEMMA HandOverIInv ==
    ASSUME IInv, NEW s \in Sessions, HandOver(s)
    PROVE  IInv'
<1> DEFINE m == holding[s]
<1>1. /\ session[s] = "fetched"
      /\ session' = [session EXCEPT ![s] = "sent"]
      /\ handedBy' = [handedBy EXCEPT ![s] = handedBy[s] \cup {m}]
      /\ received' = [received EXCEPT ![s] = received[s] \cup {m}] \/ received' = received
      /\ pickup' = [pickup EXCEPT ![s] = Append(pickup[s], m)] \/ pickup' = pickup
      /\ UNCHANGED <<phase, acks, streamVars, cursor, holding, connects, acked, pushed>>
  BY DEF HandOver
<1>2. TypeOK /\ m \in Msgs
  BY <1>1 DEF IInv, TypeOK, CursorInv
<1>3. /\ 0 < index[m] /\ index[m] <= cursor[GroupOf[s]] /\ cursor[GroupOf[s]] # None
  BY <1>1 DEF IInv, CursorInv
<1> HIDE DEF m
<1>4. \A r \in Sessions :
         /\ session'[r] = IF r = s THEN "sent" ELSE session[r]
         /\ handedBy'[r] = IF r = s THEN handedBy[s] \cup {m} ELSE handedBy[r]
  BY <1>1, <1>2 DEF TypeOK
<1>5. /\ index' = index /\ length' = length /\ phase' = phase /\ holding' = holding
      /\ acks' = acks /\ acked' = acked /\ cursor' = cursor
  BY <1>1 DEF streamVars
<1>6. TypeOK'
  <2>1. pickup' \in [Sessions -> Seq(Msgs)]
    <3>1. pickup \in [Sessions -> Seq(Msgs)]
      BY <1>2 DEF TypeOK
    <3>2. Append(pickup[s], m) \in Seq(Msgs)
      BY <1>2, <3>1
    <3> QED
      BY <1>1, <3>1, <3>2
  <2>2. received' \in [Sessions -> SUBSET Msgs] /\ handedBy' \in [Sessions -> SUBSET Msgs]
    <3>1. /\ handedBy \in [Sessions -> SUBSET Msgs] /\ received \in [Sessions -> SUBSET Msgs]
          /\ handedBy[s] \cup {m} \in SUBSET Msgs /\ received[s] \cup {m} \in SUBSET Msgs
      BY <1>2 DEF TypeOK
    <3>2. handedBy' \in [Sessions -> SUBSET Msgs]
      BY <1>1, <3>1
    <3>3. received' \in [Sessions -> SUBSET Msgs]
      BY <1>1, <3>1
    <3> QED
      BY <3>2, <3>3
  <2>3. session' \in [Sessions -> {"off", "reading", "fetched", "sent"}]
    BY <1>1, <1>2 DEF TypeOK
  <2> QED
    BY <1>1, <1>2, <2>1, <2>2, <2>3 DEF TypeOK, streamVars
<1>7. StreamInv'
  BY <1>5 DEF IInv, StreamInv
<1>8. CursorInv'
  BY <1>1, <1>3, <1>4, <1>5 DEF IInv, CursorInv, m
<1>9. AckInv'
  <2>1. \A k \in Msgs : HandedOver(k) => HandedOver(k)'
    BY <1>4 DEF HandedOver
  <2>2. acked \subseteq Msgs
    BY <1>2 DEF TypeOK
  <2> QED
    BY <1>5, <2>1, <2>2 DEF IInv, AckInv, AcceptedWasHandedOver, Elements
<1>10. AckKept'
  BY <1>5 DEF IInv, AckKept, Elements
<1>11. HandedOverOnce'
  <2> SUFFICES ASSUME NEW r \in Sessions, NEW t \in Sessions, GroupOf[r] = GroupOf[t]
               PROVE  /\ r # t => handedBy'[r] \cap handedBy'[t] = {}
                      /\ session'[r] = "fetched" =>
                           /\ holding[r] \notin handedBy'[t]
                           /\ r # t => holding[r] # holding[t]
    BY <1>5 DEF HandedOverOnce
  <2>1. /\ r # t => handedBy[r] \cap handedBy[t] = {}
        /\ session[r] = "fetched" => /\ holding[r] \notin handedBy[t]
                                     /\ r # t => holding[r] # holding[t]
        /\ session[t] = "fetched" => /\ holding[t] \notin handedBy[r]
                                     /\ r # t => holding[t] # holding[r]
    BY DEF IInv, HandedOverOnce
  <2>2. r # t => handedBy'[r] \cap handedBy'[t] = {}
    BY <1>1, <1>4, <2>1 DEF m
  <2>3. session'[r] = "fetched" => /\ holding[r] \notin handedBy'[t]
                                   /\ r # t => holding[r] # holding[t]
    BY <1>1, <1>4, <2>1 DEF m
  <2> QED
    BY <2>2, <2>3
<1>12. HandedOverInOrder'
  BY <1>4, <1>5 DEF IInv, HandedOverInOrder
<1> QED
  BY <1>6, <1>7, <1>8, <1>9, <1>10, <1>11, <1>12 DEF IInv

\* A listener publishes the ACK: every subscribed channel gets a copy.
LEMMA AckIInv ==
    ASSUME IInv, NEW s \in Sessions, Ack(s)
    PROVE  IInv'
<1> DEFINE m == holding[s]
<1>1. /\ session[s] = "sent"
      /\ acks' = [c \in Msgs |-> IF c \in Subscribed THEN Append(acks[c], m) ELSE acks[c]]
      /\ session' = [session EXCEPT ![s] = "reading"]
      /\ holding' = [holding EXCEPT ![s] = None]
      /\ acked' = acked \cup {m}
      /\ UNCHANGED <<phase, streamVars, cursor, pickup, connects, handedBy,
                     received, pushed>>
  BY DEF Ack
<1>2. TypeOK /\ m \in Msgs
  BY <1>1 DEF IInv, TypeOK, CursorInv
<1>3. HandedOver(m)
  BY <1>1 DEF IInv, CursorInv, HandedOver
<1> HIDE DEF m
<1>4. \A c \in Msgs : /\ Append(acks[c], m) \in Seq(Msgs)
                      /\ Elements(Append(acks[c], m)) = Elements(acks[c]) \cup {m}
  <2> TAKE c \in Msgs
  <2>1. acks[c] \in Seq(Msgs)
    BY <1>2 DEF TypeOK
  <2> QED
    BY <1>2, <2>1, AppendElements
<1>5. \A r \in Sessions : /\ session'[r] = IF r = s THEN "reading" ELSE session[r]
                          /\ holding'[r] = IF r = s THEN None ELSE holding[r]
  BY <1>1, <1>2 DEF TypeOK
<1>6. /\ index' = index /\ handedBy' = handedBy /\ length' = length /\ phase' = phase
      /\ cursor' = cursor
  BY <1>1 DEF streamVars
<1>7. TypeOK'
  <2>1. acks' \in [Msgs -> Seq(Msgs)]
    BY <1>1, <1>2, <1>4 DEF TypeOK
  <2> QED
    BY <1>1, <1>2, <2>1 DEF TypeOK, streamVars
<1>8. StreamInv'
  BY <1>6 DEF IInv, StreamInv
<1>9. CursorInv'
  BY <1>1, <1>5, <1>6 DEF IInv, CursorInv
<1>10. AckInv'
  <2>1. \A c \in Msgs : Elements(acks'[c]) \subseteq Elements(acks[c]) \cup {m}
    BY <1>1, <1>4
  <2>2. \A k : HandedOver(k)' <=> HandedOver(k)
    BY <1>6 DEF HandedOver
  <2> QED
    BY <1>1, <1>3, <1>6, <2>1, <2>2 DEF IInv, AckInv, AcceptedWasHandedOver
<1>11. HandedOverOnce' /\ HandedOverInOrder'
  <2>1. \A r \in Sessions : session'[r] = "fetched" =>
           r # s /\ session[r] = "fetched" /\ holding'[r] = holding[r]
    BY <1>5
  <2>2. HandedOverInOrder'
    BY <1>6, <2>1 DEF IInv, HandedOverInOrder
  <2>3. HandedOverOnce'
    <3> SUFFICES ASSUME NEW r \in Sessions, NEW t \in Sessions, GroupOf[r] = GroupOf[t]
                 PROVE  /\ r # t => handedBy[r] \cap handedBy[t] = {}
                        /\ session'[r] = "fetched" =>
                             /\ holding'[r] \notin handedBy[t]
                             /\ r # t => holding'[r] # holding'[t]
      BY <1>6 DEF HandedOverOnce
    <3>1. /\ r # t => handedBy[r] \cap handedBy[t] = {}
          /\ session[r] = "fetched" => /\ holding[r] \notin handedBy[t]
                                       /\ r # t => holding[r] # holding[t]
      BY DEF IInv, HandedOverOnce
    <3>2. session[r] = "fetched" => holding[r] # None
      BY DEF IInv, CursorInv
    <3> QED
      BY <1>5, <2>1, <3>1, <3>2
  <2> QED
    BY <2>2, <2>3
<1>12. AckKept'
  <2> SUFFICES ASSUME NEW k \in Msgs, phase[k] \in {"written", "waiting"}, k \in acked'
               PROVE  k \in Elements(acks'[k])
    BY <1>6 DEF AckKept
  <2>1. k \in Subscribed
    BY DEF Subscribed
  <2>2. Elements(acks'[k]) = Elements(acks[k]) \cup {m}
    BY <1>1, <1>4, <2>1
  <2>3. k = m \/ k \in acked
    BY <1>1
  <2> QED
    BY <2>2, <2>3 DEF IInv, AckKept
<1> QED
  BY <1>7, <1>8, <1>9, <1>10, <1>11, <1>12 DEF IInv

\* The agent polls.
LEMMA PollIInv ==
    ASSUME IInv, NEW s \in Sessions, Poll(s)
    PROVE  IInv'
<1>1. /\ pickup[s] # <<>>
      /\ received' = [received EXCEPT ![s] = received[s] \cup {Head(pickup[s])}]
      /\ pickup' = [pickup EXCEPT ![s] = Tail(pickup[s])]
      /\ UNCHANGED <<phase, acks, streamVars, cursor, session, holding, connects,
                     handedBy, acked, pushed>>
  BY DEF Poll
<1>2. TypeOK
  BY DEF IInv
<1>3. Tail(pickup[s]) \in Seq(Msgs) /\ Head(pickup[s]) \in Msgs
  <2>1. pickup[s] \in Seq(Msgs)
    BY <1>2 DEF TypeOK
  <2> QED
    BY <1>1, <2>1
<1>4. TypeOK'
  BY <1>1, <1>2, <1>3 DEF TypeOK, streamVars
<1>5. StreamInv' /\ CursorInv' /\ HandedOverOnce' /\ HandedOverInOrder'
  BY <1>1 DEF IInv, StreamInv, CursorInv, HandedOverOnce, HandedOverInOrder,
              streamVars
<1>6. AckInv' /\ AckKept'
  BY <1>1 DEF IInv, AckInv, AcceptedWasHandedOver, HandedOver, Elements,
              AckKept
<1> QED
  BY <1>4, <1>5, <1>6 DEF IInv

\* A connection breaks.
LEMMA DisconnectIInv ==
    ASSUME IInv, NEW s \in Sessions, Disconnect(s)
    PROVE  IInv'
<1>1. /\ session' = [session EXCEPT ![s] = "off"]
      /\ holding' = [holding EXCEPT ![s] = None]
      /\ pickup' = [pickup EXCEPT ![s] = <<>>]
      /\ UNCHANGED <<phase, acks, streamVars, cursor, connects, historyVars>>
  BY DEF Disconnect
<1>2. TypeOK
  BY DEF IInv
<1>3. \A r \in Sessions : /\ session'[r] = IF r = s THEN "off" ELSE session[r]
                          /\ holding'[r] = IF r = s THEN None ELSE holding[r]
  BY <1>1, <1>2 DEF TypeOK
<1>4. TypeOK'
  BY <1>1, <1>2 DEF TypeOK, streamVars, historyVars
<1>5. StreamInv'
  BY <1>1 DEF IInv, StreamInv, streamVars
<1>6. AckInv' /\ AckKept'
  BY <1>1 DEF IInv, AckInv, AcceptedWasHandedOver, HandedOver, Elements,
              AckKept, historyVars
<1>7. CursorInv'
  BY <1>1, <1>3 DEF IInv, CursorInv, streamVars, historyVars
<1>8. HandedOverInOrder'
  BY <1>1, <1>3 DEF IInv, HandedOverInOrder, streamVars, historyVars
<1>9. HandedOverOnce'
  <2> SUFFICES ASSUME NEW r \in Sessions, NEW t \in Sessions, GroupOf[r] = GroupOf[t]
               PROVE  /\ r # t => handedBy[r] \cap handedBy[t] = {}
                      /\ session'[r] = "fetched" =>
                           /\ holding'[r] \notin handedBy[t]
                           /\ r # t => holding'[r] # holding'[t]
    BY <1>1 DEF HandedOverOnce, historyVars
  <2>1. /\ r # t => handedBy[r] \cap handedBy[t] = {}
        /\ session[r] = "fetched" => /\ holding[r] \notin handedBy[t]
                                     /\ r # t => holding[r] # holding[t]
    BY DEF IInv, HandedOverOnce
  <2>2. session[r] = "fetched" => holding[r] # None
    BY DEF IInv, CursorInv
  <2> QED
    BY <1>3, <2>1, <2>2
<1> QED
  BY <1>4, <1>5, <1>6, <1>7, <1>8, <1>9 DEF IInv

-----------------------------------------------------------------------------
LEMMA NextIInv == IInv /\ [Next]_vars => IInv'
<1> SUFFICES ASSUME IInv, [Next]_vars PROVE IInv'
  OBVIOUS
<1>1. ASSUME NEW m \in Msgs, Handling(m) PROVE IInv'
  BY <1>1, BindIInv, WriteIInv, ReadAckIInv, HandlerEndsIInv DEF Handling
<1>2. ASSUME NEW s \in Sessions, Listening(s) \/ Connect(s) \/ Poll(s) \/ Disconnect(s)
      PROVE  IInv'
  BY <1>2, FetchIInv, HandOverIInv, AckIInv, ConnectIInv, PollIInv, DisconnectIInv
  DEF Listening
<1>3. CASE UNCHANGED vars
  <2> USE <1>3 DEF vars, streamVars, sessionVars, historyVars
  <2>1. TypeOK' /\ StreamInv' /\ CursorInv' /\ HandedOverOnce' /\ HandedOverInOrder'
    BY DEF IInv, TypeOK, StreamInv, CursorInv, HandedOverOnce, HandedOverInOrder
  <2>2. AckInv' /\ AckKept'
    BY DEF IInv, AckInv, AcceptedWasHandedOver, HandedOver, Elements,
           AckKept
  <2> QED
    BY <2>1, <2>2 DEF IInv
<1> QED
  BY <1>1, <1>2, <1>3 DEF Next

\* The inductive invariant holds for any posts, groups and devices.
THEOREM Invariance == Spec => []IInv
<1> QED
  BY InitIInv, NextIInv, PTL DEF Spec

\* The state of handlers, stream and listeners stays well formed.
THEOREM Typing == Spec => []TypeOK
<1>1. IInv => TypeOK
  BY DEF IInv
<1> QED
  BY <1>1, Invariance, PTL

\* A sender is told that its message was accepted only when a listener had
\* handed that message over, whatever ACKs of other pushes its channel gets.
THEOREM NoFalseAcceptance == Spec => []AcceptedWasHandedOver
<1>1. IInv => AcceptedWasHandedOver
  BY DEF IInv, AckInv
<1> QED
  BY <1>1, Invariance, PTL

\* A consumer group hands a message over at most once, over all its sessions
\* and all their reconnections.
THEOREM OncePerGroup == Spec => []HandedOverOnce
<1>1. IInv => HandedOverOnce
  BY DEF IInv
<1> QED
  BY <1>1, Invariance, PTL

\* A device hands messages over in the order of the stream.
THEOREM InStreamOrder == Spec => []HandedOverInOrder
<1>1. IInv => HandedOverInOrder
  BY DEF IInv
<1> QED
  BY <1>1, Invariance, PTL

\* An ACK that was published is there to read for the handler that it is for:
\* its channel was subscribed before the message could be fetched.
THEOREM AckIsKept == Spec => []AckKept
<1>1. IInv => AckKept
  BY DEF IInv
<1> QED
  BY <1>1, Invariance, PTL

-----------------------------------------------------------------------------
(* Delivery implements MessageFate *)

\* The groups that were handed a message.
HandedTo(m) == {GroupOf[s] : s \in {t \in Sessions : m \in handedBy[t]}}

\* A step that leaves the history of a message alone maps to a stutter.
LEMMA FateStutter ==
    ASSUME TypeOK, handedBy' = handedBy,
           \A m \in Msgs : Outcome(phase'[m]) = Outcome(phase[m])
    PROVE  UNCHANGED Fate!vars
<1>1. \A m \in Msgs : Outcome(phase[m])' = Outcome(phase[m])
  BY DEF Outcome
<1> QED
  BY <1>1 DEF Fate!vars

\* A step that answers one post maps to Tell.
LEMMA FateTell ==
    ASSUME TypeOK, NEW m \in Msgs, handedBy' = handedBy,
           NEW p \in Answered, phase[m] \notin Answered,
           phase' = [phase EXCEPT ![m] = p],
           p = "accepted" => HandedOver(m)
    PROVE  Fate!Next
<1>1. Outcome(phase[m]) = "pending"
  BY DEF TypeOK, Phases, Answered, Outcome
<1>2. Outcome(p) \in {"accepted", "notified", "refused"}
  BY DEF Answered, Outcome
<1>3. Outcome(p) = "accepted" => HandedTo(m) # {}
  BY DEF Answered, Outcome, HandedOver, HandedTo
<1>4. [k \in Msgs |-> Outcome(phase[k])]' =
        [[k \in Msgs |-> Outcome(phase[k])] EXCEPT ![m] = Outcome(p)]
  BY DEF TypeOK, Outcome
<1>5. Fate!Tell(m, Outcome(p))
  BY <1>1, <1>2, <1>3, <1>4 DEF Fate!Tell, HandedTo
<1> QED
  BY <1>2, <1>5 DEF Fate!Next, Fate!Outcomes

\* Handing over maps to Hand: no session of the group had the message before.
LEMMA FateHand ==
    ASSUME IInv, NEW s \in Sessions, HandOver(s)
    PROVE  Fate!Next
<1> DEFINE g == GroupOf[s]
<1>1. PICK m \in Msgs : m = holding[s]
  BY DEF HandOver, IInv, TypeOK, CursorInv
<1>2. /\ session[s] = "fetched"
      /\ handedBy' = [handedBy EXCEPT ![s] = handedBy[s] \cup {m}]
      /\ phase' = phase
  BY <1>1 DEF HandOver
<1>3. g \in Groups /\ TypeOK
  BY DeliveryAssumption DEF IInv
<1>4. g \notin HandedTo(m)
  BY <1>1, <1>2 DEF IInv, HandedOverOnce, HandedTo
<1>5. \A r \in Sessions : handedBy'[r] = IF r = s THEN handedBy[s] \cup {m} ELSE handedBy[r]
  BY <1>2, <1>3 DEF TypeOK
<1>6. HandedTo(m)' = HandedTo(m) \cup {g}
  BY <1>5 DEF HandedTo
<1>7. \A k \in Msgs \ {m} : HandedTo(k)' = HandedTo(k)
  BY <1>5 DEF HandedTo
<1>8. [k \in Msgs |-> HandedTo(k)'] =
        [[k \in Msgs |-> HandedTo(k)] EXCEPT ![m] = HandedTo(m) \cup {g}]
  BY <1>6, <1>7
<1>9. Fate!Hand(m, g)
  BY <1>2, <1>4, <1>8 DEF Fate!Hand, HandedTo
<1> QED
  BY <1>3, <1>9 DEF Fate!Next

\* Every step of Delivery is a step of MessageFate or a stutter.
LEMMA FateStep == IInv /\ [Next]_vars => [Fate!Next]_(Fate!vars)
<1> SUFFICES ASSUME IInv, [Next]_vars PROVE Fate!Next \/ UNCHANGED Fate!vars
  OBVIOUS
<1> USE DEF streamVars, sessionVars, historyVars
<1>0. TypeOK
  BY DEF IInv
<1>1. ASSUME NEW m \in Msgs, Bind(m) \/ NoAddress(m) \/ Write(m) \/ Await(m)
      PROVE  UNCHANGED Fate!vars
  <2>1. handedBy' = handedBy /\ \A k \in Msgs : Outcome(phase'[k]) = Outcome(phase[k])
    BY <1>0, <1>1 DEF Bind, NoAddress, Write, Await, TypeOK, Outcome
  <2> QED
    BY <1>0, <2>1, FateStutter
<1>2. ASSUME NEW m \in Msgs, ReadAck(m) PROVE Fate!Next \/ UNCHANGED Fate!vars
  <2>1. CASE Head(acks[m]) = m
    <3>1. phase[m] = "waiting" /\ phase' = [phase EXCEPT ![m] = "accepted"]
          /\ handedBy' = handedBy
      BY <1>2, <2>1 DEF ReadAck
    <3>2. AcceptedWasHandedOver'
      BY <1>2, ReadAckIInv DEF IInv, AckInv
    <3>3. HandedOver(m)
      BY <1>0, <3>1, <3>2 DEF AcceptedWasHandedOver, HandedOver, TypeOK
    <3> QED
      BY <1>0, <3>1, <3>3, FateTell DEF Answered
  <2>2. CASE Head(acks[m]) # m
    <3>1. phase' = phase /\ handedBy' = handedBy
      BY <1>2, <2>2 DEF ReadAck
    <3> QED
      BY <1>0, <3>1, FateStutter
  <2> QED
    BY <2>1, <2>2
<1>3. ASSUME NEW m \in Msgs, AckTimeout(m) PROVE UNCHANGED Fate!vars
  <2>1. handedBy' = handedBy /\ \A k \in Msgs : Outcome(phase'[k]) = Outcome(phase[k])
    BY <1>0, <1>3 DEF AckTimeout, TypeOK, Outcome
  <2> QED
    BY <1>0, <2>1, FateStutter
<1>4. ASSUME NEW m \in Msgs, Fallback(m) PROVE Fate!Next
  <2>1. PICK p \in {"gone", "misconfigured", "notified"} : phase' = [phase EXCEPT ![m] = p]
    BY <1>4 DEF Fallback
  <2>2. phase[m] = "fallback" /\ handedBy' = handedBy
    BY <1>4 DEF Fallback
  <2> QED
    BY <1>0, <2>1, <2>2, FateTell DEF Answered
<1>5. ASSUME NEW s \in Sessions, Fetch(s) \/ Ack(s) \/ Connect(s) \/ Poll(s) \/ Disconnect(s)
      PROVE  UNCHANGED Fate!vars
  <2>1. handedBy' = handedBy /\ phase' = phase
    BY <1>5 DEF Fetch, Ack, Connect, Poll, Disconnect
  <2> QED
    BY <1>0, <2>1, FateStutter
<1>6. CASE UNCHANGED vars
  BY <1>0, <1>6, FateStutter DEF vars
<1> QED
  BY <1>1, <1>2, <1>3, <1>4, <1>5, <1>6, FateHand DEF Next, Handling, Listening

\* The initial states map to the initial state of MessageFate.
LEMMA FateInit == Init => Fate!Init
<1> SUFFICES ASSUME Init PROVE Fate!Init
  OBVIOUS
<1>1. [m \in Msgs |-> Outcome(phase[m])] = [m \in Msgs |-> "pending"]
  BY DEF Init, Outcome
<1>2. [m \in Msgs |-> HandedTo(m)] = [m \in Msgs |-> {}]
  BY DEF Init, HandedTo
<1> QED
  BY <1>1, <1>2 DEF Fate!Init, HandedTo

\* Handlers, stream and listeners implement what MessageFate promises: one
\* outcome per message, at most one hand-over per group, and no acceptance
\* without a hand-over.
THEOREM Refinement == Spec => ImplementsFate
<1> QED
  BY Invariance, FateInit, FateStep, PTL DEF Spec, ImplementsFate, Fate!Spec

-----------------------------------------------------------------------------
(* Nothing slips by a group *)

\* A message in the stream is in the care of a group: it lies ahead of the
\* cursor, or a session of the group holds it, or has handed it over.
InCare(m, g) ==
    /\ cursor[g] # None /\ index[m] # 0
    /\ \/ cursor[g] < index[m]
       \/ \E s \in Sessions : GroupOf[s] = g /\ session[s] = "fetched" /\ holding[s] = m
       \/ \E s \in Sessions : GroupOf[s] = g /\ m \in handedBy[s]

\* A session of the group goes away with the message.
CutOff(m, g) ==
    \E s \in Sessions : /\ GroupOf[s] = g /\ holding[s] = m
                        /\ session[s] # "off" /\ session'[s] = "off"

\* A group loses a message only with a session that had fetched it: no cursor
\* jumps over a message, whichever sessions of the group connect, read and
\* leave.  It is the safe half of ConnectedGroupIsServed.
NothingSlipsBy ==
    [][\A m \in Msgs, g \in Groups : InCare(m, g) => InCare(m, g)' \/ CutOff(m, g)]_vars

\* Steps that touch neither the listeners nor a message that is in the stream.
LEMMA CareStep ==
    ASSUME NEW m \in Msgs, NEW g \in Groups, InCare(m, g),
           cursor'[g] = cursor[g], index'[m] = index[m],
           UNCHANGED <<session, holding, handedBy>>
    PROVE  InCare(m, g)'
BY DEF InCare

LEMMA CareSession ==
    ASSUME IInv, NEW m \in Msgs, NEW g \in Groups, InCare(m, g), NEW s \in Sessions,
           Listening(s) \/ Connect(s) \/ Poll(s) \/ Disconnect(s)
    PROVE  InCare(m, g)' \/ CutOff(m, g)
<1> USE DEF streamVars, sessionVars, historyVars
<1>1. TypeOK /\ cursor[g] \in Nat /\ index[m] \in Nat
  BY DEF IInv, TypeOK, InCare
<1>2. CASE Fetch(s)
  <2>1. PICK k \in Msgs : /\ index[k] = cursor[GroupOf[s]] + 1
                          /\ holding' = [holding EXCEPT ![s] = k]
    BY <1>2 DEF Fetch
  <2>2. /\ session[s] = "reading" /\ session' = [session EXCEPT ![s] = "fetched"]
        /\ cursor' = [cursor EXCEPT ![GroupOf[s]] = @ + 1]
        /\ UNCHANGED <<index, handedBy>>
    BY <1>2 DEF Fetch
  <2>3. CASE cursor[g] < index[m] /\ cursor'[g] >= index[m]
    <3>1. GroupOf[s] = g /\ index[m] = cursor[g] + 1
      BY <1>1, <2>2, <2>3 DEF TypeOK
    <3>2. k = m
      BY <1>1, <2>1, <3>1 DEF IInv, StreamInv
    <3>3. session'[s] = "fetched" /\ holding'[s] = m /\ cursor'[g] # None
      BY <1>1, <2>1, <2>2, <3>1, <3>2, DeliveryAssumption DEF TypeOK
    <3> QED
      BY <2>2, <3>1, <3>3 DEF InCare
  <2>4. cursor'[g] \in Nat /\ cursor'[g] # None
    BY <1>1, <2>2, DeliveryAssumption DEF TypeOK
  <2>5. CASE cursor[g] < index[m] /\ cursor'[g] < index[m]
    BY <2>2, <2>4, <2>5 DEF InCare
  <2>6. ASSUME NEW r \in Sessions, GroupOf[r] = g, session[r] = "fetched", holding[r] = m
        PROVE  session'[r] = "fetched" /\ holding'[r] = m
    BY <1>1, <2>1, <2>2, <2>6 DEF TypeOK
  <2> QED
    BY <1>1, <2>2, <2>3, <2>4, <2>5, <2>6 DEF InCare
<1>3. CASE HandOver(s)
  <2>1. /\ UNCHANGED <<index, cursor, holding>>
        /\ session[s] = "fetched"
        /\ session' = [session EXCEPT ![s] = "sent"]
        /\ handedBy' = [handedBy EXCEPT ![s] = @ \cup {holding[s]}]
    BY <1>3 DEF HandOver
  <2>2. \A r \in Sessions : handedBy[r] \subseteq handedBy'[r]
    BY <1>1, <2>1 DEF TypeOK
  <2>3. ASSUME NEW r \in Sessions, session[r] = "fetched", holding[r] = m
        PROVE  m \in handedBy'[r] \/ (session'[r] = "fetched" /\ holding'[r] = m)
    BY <1>1, <2>1, <2>3 DEF TypeOK
  <2> QED
    BY <2>1, <2>2, <2>3 DEF InCare
<1>4. CASE Ack(s)
  BY <1>1, <1>4 DEF Ack, InCare, TypeOK
<1>5. CASE Connect(s)
  <2>1. cursor'[g] = cursor[g]
    BY <1>1, <1>5 DEF Connect, InCare, TypeOK
  <2> QED
    BY <1>1, <1>5, <2>1 DEF Connect, InCare, TypeOK
<1>6. CASE Poll(s)
  BY <1>6, CareStep DEF Poll
<1>7. CASE Disconnect(s)
  <2>1. /\ UNCHANGED <<index, cursor, handedBy>>
        /\ session[s] # "off" /\ session'[s] = "off"
        /\ \A r \in Sessions \ {s} : session'[r] = session[r] /\ holding'[r] = holding[r]
    BY <1>1, <1>7 DEF Disconnect, TypeOK
  <2>2. CASE GroupOf[s] = g /\ holding[s] = m
    BY <2>1, <2>2 DEF CutOff
  <2>3. CASE ~(GroupOf[s] = g /\ holding[s] = m)
    BY <2>1, <2>3 DEF InCare
  <2> QED
    BY <2>2, <2>3
<1> QED
  BY <1>2, <1>3, <1>4, <1>5, <1>6, <1>7 DEF Listening

\* Every step keeps a message in the care of a group, but for a disconnect.
THEOREM NothingSlips == Spec => NothingSlipsBy
<1>1. IInv /\ [Next]_vars =>
        [\A m \in Msgs, g \in Groups : InCare(m, g) => InCare(m, g)' \/ CutOff(m, g)]_vars
  <2> SUFFICES ASSUME IInv, Next, NEW m \in Msgs, NEW g \in Groups, InCare(m, g)
               PROVE  InCare(m, g)' \/ CutOff(m, g)
    OBVIOUS
  <2> USE DEF streamVars, sessionVars, historyVars
  <2>1. ASSUME NEW n \in Msgs, Handling(n) PROVE InCare(m, g)'
    <3>1. CASE Write(n)
      <4>1. n # m
        BY <3>1 DEF Write, InCare, IInv, StreamInv
      <4>2. index'[m] = index[m]
        BY <3>1, <4>1 DEF Write, IInv, TypeOK
      <4> QED
        BY <3>1, <4>2, CareStep DEF Write
    <3>2. CASE ~Write(n)
      BY <2>1, <3>2, CareStep DEF Handling, Bind, NoAddress, Await, ReadAck, AckTimeout, Fallback
    <3> QED
      BY <2>1, <3>1, <3>2 DEF Handling
  <2> QED
    BY <2>1, CareSession DEF Next
<1> QED
  BY <1>1, Invariance, PTL DEF Spec, NothingSlipsBy

\* The stream has no gaps.
Gapless == \A i \in 1 .. length : \E m \in Msgs : index[m] = i

\* Where there is something to read, a session can read it: between the cursor
\* of its group and the end of the stream there is a message at every place, so
\* that no session waits in front of a hole.
ReadersFindNext ==
    \A s \in Sessions :
        session[s] = "reading" /\ cursor[GroupOf[s]] < length
          => \E m \in Msgs : index[m] = cursor[GroupOf[s]] + 1

\* No reader is stuck.
THEOREM NoReaderIsStuck == Spec => []ReadersFindNext
<1>1. Init => Gapless
  BY DEF Init, Gapless
<1>2. IInv /\ Gapless /\ [Next]_vars => Gapless'
  <2> SUFFICES ASSUME IInv, Gapless, [Next]_vars PROVE Gapless'
    OBVIOUS
  <2> USE DEF streamVars, sessionVars, historyVars
  <2>1. ASSUME NEW n \in Msgs, Write(n) PROVE Gapless'
    <3>1. /\ length' = length + 1 /\ index' = [index EXCEPT ![n] = length + 1]
          /\ index[n] = 0 /\ length \in Nat /\ index \in [Msgs -> Nat]
      BY <2>1 DEF Write, IInv, StreamInv, TypeOK
    <3>2. ASSUME NEW i \in 1 .. length PROVE \E m \in Msgs : index'[m] = i
      <4>1. PICK m \in Msgs : index[m] = i
        BY <3>2 DEF Gapless
      <4> QED
        BY <3>1, <4>1
    <3>3. index'[n] = length + 1
      BY <3>1
    <3>4. \A i \in 1 .. length + 1 : i \in 1 .. length \/ i = length + 1
      BY <3>1
    <3> QED
      BY <3>1, <3>2, <3>3, <3>4 DEF Gapless
  <2>2. ASSUME UNCHANGED streamVars PROVE Gapless'
    BY <2>2 DEF Gapless
  <2>3. ASSUME NEW n \in Msgs, Handling(n) PROVE Gapless'
    BY <2>1, <2>2, <2>3 DEF Handling, Bind, NoAddress, Await, ReadAck, AckTimeout, Fallback
  <2>4. ASSUME NEW s \in Sessions, Listening(s) \/ Connect(s) \/ Poll(s) \/ Disconnect(s)
        PROVE  Gapless'
    BY <2>2, <2>4 DEF Listening, Fetch, HandOver, Ack, Connect, Poll, Disconnect
  <2>5. CASE UNCHANGED vars
    BY <2>2, <2>5 DEF vars
  <2> QED
    BY <2>3, <2>4, <2>5 DEF Next
<1>3. IInv /\ Gapless => ReadersFindNext
  <2> SUFFICES ASSUME IInv, Gapless, NEW s \in Sessions, session[s] = "reading",
                      cursor[GroupOf[s]] < length
               PROVE  \E m \in Msgs : index[m] = cursor[GroupOf[s]] + 1
    BY DEF ReadersFindNext
  <2>1. cursor[GroupOf[s]] \in Nat /\ length \in Nat
    BY DeliveryAssumption DEF IInv, TypeOK, CursorInv
  <2>2. cursor[GroupOf[s]] + 1 \in 1 .. length
    BY <2>1
  <2> QED
    BY <2>2 DEF Gapless
<1> QED
  BY <1>1, <1>2, <1>3, Invariance, PTL DEF Spec

-----------------------------------------------------------------------------
(* What the documentation says, and when it is so *)

\* What holds of a message whose handler gives up.
GivesUpOnUnhanded ==
    \A m \in Msgs : GivesUp(m) =>
        /\ m \notin acked
        /\ \A s \in Sessions : holding[s] = m => s \in QueueMode /\ Len(pickup[s]) >= QueueSize

\* When timers are slower than whatever can go on, a handler gives up on a
\* message only if nobody has acknowledged it, and it is at most with sessions
\* whose pickup queue is full: what the documentation says of Firebase fails
\* for queue transport only, and no ACK is ever missed.
THEOREM FirebaseByFullQueue == PatientSpec => [][GivesUpOnUnhanded]_vars
<1>1. PatientNext => Next
  BY DEF PatientNext
<1>2. IInv /\ PatientNext => GivesUpOnUnhanded
  <2> SUFFICES ASSUME IInv, PatientNext, NEW m \in Msgs, GivesUp(m)
               PROVE  /\ m \notin acked
                      /\ \A s \in Sessions : holding[s] = m =>
                           s \in QueueMode /\ Len(pickup[s]) >= QueueSize
    BY DEF GivesUpOnUnhanded
  <2>1. acks[m] = <<>> /\ \A s \in Sessions : ~CanGoOn(s)
    BY DEF PatientNext
  <2>2. m \notin acked
    BY <2>1 DEF IInv, AckKept, GivesUp, Elements
  <2>3. ASSUME NEW s \in Sessions, holding[s] = m
        PROVE  s \in QueueMode /\ Len(pickup[s]) >= QueueSize
    <3>1. m # None /\ session[s] \in {"off", "reading", "fetched", "sent"}
      BY DeliveryAssumption DEF IInv, TypeOK
    <3>2. session[s] = "fetched"
      BY <2>1, <2>3, <3>1 DEF IInv, CursorInv, CanGoOn
    <3>3. pickup[s] \in Seq(Msgs) /\ QueueSize \in Nat
      BY DeliveryAssumption DEF IInv, TypeOK
    <3> QED
      BY <2>1, <3>2, <3>3 DEF CanGoOn
  <2> QED
    BY <2>2, <2>3
<1> QED
  BY <1>1, <1>2, InitIInv, NextIInv, PTL DEF PatientSpec

\* No session goes away with messages in its pickup queue.
LeavesNothing == \A s \in Sessions : session[s] # "off" /\ session'[s] = "off" => pickup[s] = <<>>

\* What a listener has handed over is with the agent or in its pickup queue.
HandedIsAvailable == \A s \in Sessions : handedBy[s] \subseteq received[s] \cup Elements(pickup[s])

LEMMA AvailableStep == IInv /\ HandedIsAvailable /\ [Next]_vars /\ [LeavesNothing]_vars
                         => HandedIsAvailable'
<1> SUFFICES ASSUME IInv, HandedIsAvailable, [Next]_vars, [LeavesNothing]_vars
             PROVE  HandedIsAvailable'
  OBVIOUS
<1> USE DEF streamVars, sessionVars, historyVars
<1>1. TypeOK
  BY DEF IInv
<1>2. ASSUME UNCHANGED <<handedBy, received, pickup>> PROVE HandedIsAvailable'
  BY <1>2 DEF HandedIsAvailable
<1>3. ASSUME NEW n \in Msgs, Handling(n) PROVE HandedIsAvailable'
  BY <1>2, <1>3 DEF Handling, Bind, NoAddress, Write, Await, ReadAck, AckTimeout, Fallback
<1>4. ASSUME NEW s \in Sessions, HandOver(s) PROVE HandedIsAvailable'
  <2>1. handedBy' = [handedBy EXCEPT ![s] = @ \cup {holding[s]}] /\ holding[s] \in Msgs
    BY <1>1, <1>4 DEF HandOver, IInv, CursorInv, TypeOK
  <2>2. CASE received' = [received EXCEPT ![s] = @ \cup {holding[s]}] /\ pickup' = pickup
    BY <1>1, <2>1, <2>2 DEF HandedIsAvailable, TypeOK
  <2>3. CASE received' = received /\ pickup' = [pickup EXCEPT ![s] = Append(@, holding[s])]
    <3>1. pickup[s] \in Seq(Msgs)
      BY <1>1 DEF TypeOK
    <3>2. Elements(Append(pickup[s], holding[s])) = Elements(pickup[s]) \cup {holding[s]}
      BY <2>1, <3>1, AppendElements
    <3> QED
      BY <1>1, <2>1, <2>3, <3>2 DEF HandedIsAvailable, TypeOK
  <2> QED
    BY <1>4, <2>2, <2>3 DEF HandOver
<1>5. ASSUME NEW s \in Sessions, Poll(s) PROVE HandedIsAvailable'
  <2>1. /\ received' = [received EXCEPT ![s] = @ \cup {Head(pickup[s])}]
        /\ pickup' = [pickup EXCEPT ![s] = Tail(@)]
        /\ handedBy' = handedBy /\ pickup[s] # <<>> /\ pickup[s] \in Seq(Msgs)
    BY <1>1, <1>5 DEF Poll, TypeOK
  <2>2. Elements(pickup[s]) = Elements(Tail(pickup[s])) \cup {Head(pickup[s])}
    BY <2>1, TailElements
  <2> QED
    BY <1>1, <2>1, <2>2 DEF HandedIsAvailable, TypeOK
<1>6. ASSUME NEW s \in Sessions, Disconnect(s) PROVE HandedIsAvailable'
  <2>1. /\ session[s] # "off" /\ session'[s] = "off" /\ session' # session
        /\ pickup' = [pickup EXCEPT ![s] = <<>>]
        /\ UNCHANGED <<handedBy, received>>
    BY <1>1, <1>6 DEF Disconnect, TypeOK
  <2>2. pickup[s] = <<>>
    BY <2>1 DEF LeavesNothing, vars
  <2> QED
    BY <1>1, <2>1, <2>2 DEF HandedIsAvailable, TypeOK
<1>7. ASSUME NEW s \in Sessions, Fetch(s) \/ Ack(s) \/ Connect(s) PROVE HandedIsAvailable'
  BY <1>2, <1>7 DEF Fetch, Ack, Connect
<1>8. CASE UNCHANGED vars
  BY <1>2, <1>8 DEF vars
<1> QED
  BY <1>3, <1>4, <1>5, <1>6, <1>7, <1>8 DEF Next, Listening

\* A message accepted from its sender is lost only with a session that goes away
\* before its agent has taken everything from its pickup queue.
THEOREM LossNeedsDisconnect == Spec /\ [][LeavesNothing]_vars => []AcceptedStaysAvailable
<1>1. Init => HandedIsAvailable
  BY DEF Init, HandedIsAvailable
<1>2. IInv /\ HandedIsAvailable => AcceptedStaysAvailable
  BY DEF IInv, AckInv, AcceptedWasHandedOver, HandedOver, HandedIsAvailable, AcceptedStaysAvailable
<1> QED
  BY <1>1, <1>2, AvailableStep, Invariance, PTL DEF Spec
=============================================================================
