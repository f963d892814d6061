--------------------------- MODULE Pickup_proofs ---------------------------
(***************************************************************************)
(* Safety of the pickup queue for any set of tasks, ids and requests and   *)
(* any limit of the queue.                                                 *)
(***************************************************************************)
EXTENDS Pickup, FiniteSetTheorems, TLAPS

\* At every suspension point the flag of each event tells what the counter
\* tells.
FlagsInv ==
    /\ filled <=> count > 0
    /\ ready <=> HasRoom(count)

\* A task is suspended in at most one place, and carries its argument there.
TasksInv ==
    /\ putWait \cap putWoken = {}
    /\ \A p \in Putters : wants[p] # None <=> p \in putWait \cup putWoken
    /\ \A t \in takeWait \cup takeWoken : request[t] # None

\* Every put whose message was stored is accounted for, in order, once.
HistoryInv ==
    /\ \A id \in Ids : queued[id] <= puts
    /\ \A i, j \in Queued : queued[i] = queued[j] => i = j
    /\ \A id \in Queued : queued[id] \notin overwritten
    /\ FifoOrder
    /\ 1 .. puts = delivered \cup overwritten \cup {queued[id] : id \in Queued}

\* The counter exceeds the queue by the messages that were overwritten.
CountInv ==
    /\ IsFiniteSet(Queued) /\ IsFiniteSet(overwritten)
    /\ count = Cardinality(Queued) + Cardinality(overwritten)

\* Distinct ids stay distinct between the call of put and the storing.
DistinctInv ==
    UniqueIds =>
        /\ overwritten = {}
        /\ \A p \in Putters : wants[p] # None => queued[wants[p]] = 0
        /\ \A p, q \in Putters : wants[p] # None /\ wants[p] = wants[q] => p = q

IInv ==
    /\ TypeOK /\ FlagsInv /\ TasksInv /\ NoLostWakeup
    /\ HistoryInv /\ CountInv /\ DistinctInv
    /\ BoundedOvershoot
-----------------------------------------------------------------------------
\* What leaves the queue first was stored first.
LEMMA OldestIsPrefix ==
    ASSUME queued \in [Ids -> Nat], IsFiniteSet(Queued), NEW k,
           k \in Nat, NEW i \in Oldest(k), NEW j \in Queued \ Oldest(k)
    PROVE  queued[i] < queued[j]
<1> DEFINE Before(id) == {x \in Queued : queued[x] < queued[id]}
<1>1. i \in Ids /\ j \in Ids /\ i \in Queued
  BY DEF Oldest, Queued
<1>2. SUFFICES ASSUME queued[j] <= queued[i] PROVE FALSE
  BY <1>1
<1>3. Before(j) \subseteq Before(i)
  BY <1>1, <1>2 DEF Queued
<1>4. IsFiniteSet(Before(i)) /\ IsFiniteSet(Before(j))
  BY FS_Subset
<1>5. Cardinality(Before(j)) <= Cardinality(Before(i))
  BY <1>3, <1>4, FS_Subset
<1>6. Cardinality(Before(i)) \in Nat /\ Cardinality(Before(j)) \in Nat
  BY <1>4, FS_CardinalityType
<1>7. Cardinality(Before(i)) < k /\ ~(Cardinality(Before(j)) < k)
  BY DEF Oldest
<1> QED
  BY <1>5, <1>6, <1>7

\* Initially nothing is stored, counted or awaited.
LEMMA InitIInv == Init => IInv
<1> SUFFICES ASSUME Init PROVE IInv
  OBVIOUS
<1> USE PickupAssumption DEF Init
<1>1. TypeOK
  BY DEF TypeOK
<1>2. Queued = {}
  BY DEF Queued
<1>3. FlagsInv /\ TasksInv /\ NoLostWakeup
  BY DEF FlagsInv, TasksInv, NoLostWakeup, HasRoom
<1>4. HistoryInv
  BY <1>2 DEF HistoryInv, FifoOrder
<1>5. CountInv
  BY <1>2, FS_EmptySet DEF CountInv
<1>6. DistinctInv
  BY DEF DistinctInv
<1>7. BoundedOvershoot
  BY FS_EmptySet, FS_CardinalityType DEF BoundedOvershoot
<1> QED
  BY <1>1, <1>3, <1>4, <1>5, <1>6, <1>7 DEF IInv

-----------------------------------------------------------------------------
\* Storing a message, by a put that found the event set or by a released one.
LEMMA StoreHistory ==
    ASSUME IInv, NEW p \in Putters, NEW id \in Ids, Store(p, id),
           UniqueIds => queued[id] = 0
    PROVE  /\ Queued' = Queued \cup {id}
           /\ HistoryInv' /\ CountInv'
           /\ UniqueIds => overwritten' = {}
<1> USE DEF IInv, Store
<1>0. queued \in [Ids -> Nat] /\ puts \in Nat /\ queued' \in [Ids -> Nat] /\ count \in Nat
  BY DEF TypeOK
<1>1. Queued' = Queued \cup {id}
  BY <1>0 DEF Queued
<1>2. queued'[id] = puts + 1 /\ \A i \in Ids \ {id} : queued'[i] = queued[i]
  BY <1>0
<1>3. \A i \in Ids : queued[i] \in Nat /\ queued[i] <= puts
  BY <1>0 DEF HistoryInv
<1>4. HistoryInv'
  <2>1. \A i \in Ids : queued'[i] <= puts'
    BY <1>0, <1>2, <1>3
  <2>2. \A i, j \in Queued' : queued'[i] = queued'[j] => i = j
    <3> SUFFICES ASSUME NEW i \in Queued', NEW j \in Queued', queued'[i] = queued'[j]
                 PROVE  i = j
      OBVIOUS
    <3>1. i \in Ids /\ j \in Ids
      BY DEF Queued
    <3>2. CASE i = id \/ j = id
      BY <1>0, <1>2, <1>3, <3>1, <3>2
    <3>3. CASE i # id /\ j # id
      <4>1. i \in Queued /\ j \in Queued
        BY <1>1, <3>3
      <4> QED
        BY <1>2, <3>1, <3>3, <4>1 DEF HistoryInv
    <3> QED
      BY <3>2, <3>3
  <2>3. \A i \in Queued' : queued'[i] \notin overwritten'
    <3> SUFFICES ASSUME NEW i \in Queued' PROVE queued'[i] \notin overwritten'
      OBVIOUS
    <3>0. 1 .. puts = delivered \cup overwritten \cup {queued[j] : j \in Queued}
      BY DEF HistoryInv
    <3>1. puts + 1 \notin overwritten
      BY <1>0, <3>0
    <3>2. CASE i = id
      BY <1>0, <1>2, <1>3, <3>1, <3>2
    <3>3. CASE i # id
      <4>1. i \in Queued /\ i \in Ids
        BY <1>1, <3>3 DEF Queued
      <4>2. queued'[i] = queued[i] /\ queued[i] \notin overwritten
        BY <1>2, <3>3, <4>1 DEF HistoryInv
      <4>3. queued[id] # 0 => queued[i] # queued[id]
        BY <3>3, <4>1 DEF HistoryInv, Queued
      <4> QED
        BY <4>2, <4>3
    <3> QED
      BY <3>2, <3>3
  <2>4. FifoOrder'
    <3> SUFFICES ASSUME NEW d \in delivered, NEW i \in Queued' PROVE d < queued'[i]
      BY DEF FifoOrder
    <3>1. d \in 1 .. puts
      BY DEF HistoryInv
    <3>2. CASE i = id
      BY <1>0, <1>2, <3>1, <3>2
    <3>3. CASE i # id
      BY <1>1, <1>2, <3>3 DEF HistoryInv, FifoOrder, Queued
    <3> QED
      BY <3>2, <3>3
  <2>5. 1 .. puts' = delivered' \cup overwritten' \cup {queued'[i] : i \in Queued'}
    <3>0. 1 .. puts = delivered \cup overwritten \cup {queued[i] : i \in Queued}
      BY DEF HistoryInv
    <3>1. 1 .. puts' = (1 .. puts) \cup {puts + 1}
      BY <1>0
    <3>2. {queued'[i] : i \in Queued'} = {queued[i] : i \in Queued \ {id}} \cup {puts + 1}
      BY <1>1, <1>2 DEF Queued
    <3>3. overwritten' \cup {queued[i] : i \in Queued \ {id}}
            = overwritten \cup {queued[i] : i \in Queued}
      BY DEF Queued
    <3> QED
      BY <3>0, <3>1, <3>2, <3>3
  <2> QED
    BY <2>1, <2>2, <2>3, <2>4, <2>5 DEF HistoryInv
<1>5. CountInv'
  <2>1. IsFiniteSet(Queued) /\ IsFiniteSet(overwritten)
        /\ count = Cardinality(Queued) + Cardinality(overwritten)
    BY DEF CountInv
  <2>2. Cardinality(Queued) \in Nat /\ Cardinality(overwritten) \in Nat
    BY <2>1, FS_CardinalityType
  <2>3. CASE queued[id] = 0
    <3>1. id \notin Queued
      BY <2>3 DEF Queued
    <3>2. IsFiniteSet(Queued') /\ Cardinality(Queued') = Cardinality(Queued) + 1
      BY <1>1, <2>1, <3>1, FS_AddElement
    <3> QED
      BY <2>1, <2>2, <2>3, <3>2 DEF CountInv
  <2>4. CASE queued[id] # 0
    <3>1. id \in Queued /\ Queued' = Queued
      BY <1>1, <2>4 DEF Queued
    <3>2. queued[id] \notin overwritten
      BY <3>1 DEF HistoryInv
    <3>3. IsFiniteSet(overwritten') /\ Cardinality(overwritten') = Cardinality(overwritten) + 1
      BY <2>1, <2>4, <3>2, FS_AddElement
    <3> QED
      BY <2>1, <2>2, <3>1, <3>3 DEF CountInv
  <2> QED
    BY <2>3, <2>4
<1>6. UniqueIds => overwritten' = {}
  BY DEF DistinctInv
<1> QED
  BY <1>1, <1>4, <1>5, <1>6

\* Storing releases nobody from __ready_to_put and everybody from __filled.
LEMMA StoreControl ==
    ASSUME IInv, NEW p \in Putters, NEW id \in Ids, Store(p, id)
    PROVE  /\ FlagsInv' /\ NoLostWakeup'
           /\ putWait' = putWait /\ putWoken' = putWoken \ {p}
           /\ takeWait' = {} /\ takeWoken' = takeWait \cup takeWoken
           /\ queued' \in [Ids -> Nat] /\ count' = count + 1 /\ puts' \in Nat
           /\ ready' \in BOOLEAN /\ filled' \in BOOLEAN
           /\ overwritten' \subseteq Nat
<1> USE PickupAssumption DEF IInv, Store
<1>1. count \in Nat /\ puts \in Nat /\ queued \in [Ids -> Nat] /\ overwritten \subseteq Nat
      /\ ready \in BOOLEAN /\ filled \in BOOLEAN
  BY DEF TypeOK
<1>2. count' = count + 1 /\ filled' = TRUE /\ ready' = HasRoom(count + 1)
  BY DEF SetReady
<1>3. HasRoom(count + 1) => ready
  BY <1>1 DEF FlagsInv, HasRoom
<1>4. putWait' = putWait /\ putWoken' = putWoken \ {p}
  BY <1>3 DEF SetReady
<1>5. takeWait' = {} /\ takeWoken' = takeWait \cup takeWoken
  <2>1. filled => takeWait = {}
    BY <1>1 DEF FlagsInv, NoLostWakeup
  <2> QED
    BY <2>1
<1>6. FlagsInv'
  <2>1. filled' /\ count' > 0
    BY <1>1, <1>2
  <2>2. ready' = HasRoom(count')
    BY <1>2
  <2>3. ready' <=> (MaxQueueSize = None \/ count' < MaxQueueSize)
    BY <2>2, Zenon DEF HasRoom
  <2> QED
    BY <2>1, <2>3 DEF FlagsInv, HasRoom
<1>7. NoLostWakeup'
  BY <1>1, <1>2, <1>4, <1>5 DEF NoLostWakeup, HasRoom
<1>9. queued' \in [Ids -> Nat] /\ puts' \in Nat
  BY <1>1
<1>10. ready' \in BOOLEAN /\ filled' \in BOOLEAN
  BY <1>2 DEF HasRoom
<1>11. overwritten' \subseteq Nat
  BY <1>1
<1> QED
  BY <1>2, <1>4, <1>5, <1>6, <1>7, <1>9, <1>10, <1>11

\* put() finds the event set, or joins its waiters.
LEMMA PutCallStep ==
    ASSUME IInv, NEW p \in Putters, NEW id \in Ids, PutCall(p, id)
    PROVE  IInv'
<1> USE PickupAssumption
<1>0. TypeOK /\ FlagsInv /\ TasksInv /\ DistinctInv /\ wants[p] = None
  BY DEF IInv, PutCall
<1>1. p \notin putWait /\ p \notin putWoken
  BY <1>0 DEF TasksInv
<1>2. UniqueIds => queued[id] = 0 /\ \A q \in Putters : wants[q] # id
  BY DEF PutCall
<1>3. CASE ready /\ Store(p, id) /\ UNCHANGED wants
  <2>1. HistoryInv' /\ CountInv' /\ (UniqueIds => overwritten' = {})
    BY <1>2, <1>3, StoreHistory
  <2>0. putWoken \ {p} = putWoken
    BY <1>1
  <2>2. /\ FlagsInv' /\ NoLostWakeup'
        /\ putWait' = putWait /\ putWoken' = putWoken
        /\ takeWait' = {} /\ takeWoken' = takeWait \cup takeWoken
    BY <1>3, <2>0, StoreControl, Zenon
  <2>3. TypeOK'
    <3>1. /\ queued' \in [Ids -> Nat] /\ count' = count + 1 /\ puts' \in Nat
          /\ ready' \in BOOLEAN /\ filled' \in BOOLEAN /\ overwritten' \subseteq Nat
      BY <1>3, StoreControl
    <3>2. UNCHANGED <<wants, request, hung, delivered>>
      BY <1>3 DEF Store
    <3> QED
      BY <1>0, <2>2, <3>1, <3>2 DEF TypeOK
  <2>4. TasksInv'
    BY <1>0, <1>3, <2>2 DEF TasksInv, Store
  <2>5. DistinctInv'
    BY <1>0, <1>2, <1>3, <2>1 DEF DistinctInv, Store, TypeOK
  <2>6. BoundedOvershoot'
    <3> SUFFICES ASSUME MaxQueueSize # None
                 PROVE  count' + Cardinality(putWoken') < MaxQueueSize + Cardinality(Putters)
      BY DEF BoundedOvershoot
    <3>1. count < MaxQueueSize /\ count' = count + 1 /\ count \in Nat
      BY <1>0, <1>3 DEF FlagsInv, HasRoom, Store, TypeOK
    <3>2. putWoken \subseteq Putters \ {p}
      BY <1>0, <1>1 DEF TypeOK
    <3>3. IsFiniteSet(Putters \ {p}) /\ Cardinality(Putters \ {p}) = Cardinality(Putters) - 1
      BY FS_RemoveElement
    <3>4. IsFiniteSet(putWoken) /\ Cardinality(putWoken) <= Cardinality(Putters) - 1
      BY <3>2, <3>3, FS_Subset
    <3>5. Cardinality(putWoken) \in Nat /\ Cardinality(Putters) \in Nat
      BY <3>4, FS_CardinalityType
    <3> QED
      BY <2>2, <3>1, <3>4, <3>5
  <2> QED
    BY <2>1, <2>2, <2>3, <2>4, <2>5, <2>6 DEF IInv
<1>4. CASE /\ ~ready
           /\ wants' = [wants EXCEPT ![p] = id]
           /\ putWait' = putWait \cup {p}
           /\ UNCHANGED <<queueVars, takeVars, putWoken, hung>>
  <2> USE <1>4 DEF queueVars, takeVars
  <2>1. TypeOK'
    BY <1>0 DEF TypeOK
  <2>2. TasksInv'
    BY <1>0, <1>1 DEF TasksInv, TypeOK
  <2>3. NoLostWakeup'
    BY <1>0 DEF IInv, NoLostWakeup, FlagsInv, HasRoom
  <2>4. DistinctInv'
    BY <1>0, <1>2 DEF DistinctInv, TypeOK
  <2>5. FlagsInv' /\ HistoryInv' /\ CountInv' /\ BoundedOvershoot'
    BY DEF IInv, FlagsInv, HasRoom, HistoryInv, FifoOrder, CountInv, Queued,
           BoundedOvershoot
  <2> QED
    BY <2>1, <2>2, <2>3, <2>4, <2>5 DEF IInv
<1> QED
  BY <1>3, <1>4 DEF PutCall

\* A released put() stores its message without looking at the event again.
LEMMA PutResumeStep ==
    ASSUME IInv, NEW p \in Putters, PutResume(p)
    PROVE  IInv'
<1> USE PickupAssumption
<1>0. TypeOK /\ TasksInv /\ DistinctInv /\ BoundedOvershoot
  BY DEF IInv
<1>1. p \in putWoken /\ Store(p, wants[p]) /\ wants' = [wants EXCEPT ![p] = None]
  BY DEF PutResume
<1>2. wants[p] \in Ids /\ wants[p] # None
  BY <1>0, <1>1 DEF TypeOK, TasksInv
<1>3. UniqueIds => queued[wants[p]] = 0
  BY <1>0, <1>2 DEF DistinctInv
<1>4. HistoryInv' /\ CountInv' /\ (UniqueIds => overwritten' = {})
  BY <1>1, <1>2, <1>3, StoreHistory
<1>5. /\ FlagsInv' /\ NoLostWakeup'
      /\ putWait' = putWait /\ putWoken' = putWoken \ {p}
      /\ takeWait' = {} /\ takeWoken' = takeWait \cup takeWoken
      /\ queued' \in [Ids -> Nat] /\ count' = count + 1 /\ puts' \in Nat
      /\ ready' \in BOOLEAN /\ filled' \in BOOLEAN /\ overwritten' \subseteq Nat
  BY <1>1, <1>2, StoreControl
<1>6. UNCHANGED <<request, hung, delivered>>
  BY <1>1 DEF Store
<1>7. TypeOK'
  BY <1>0, <1>1, <1>5, <1>6 DEF TypeOK
<1>8. TasksInv'
  BY <1>0, <1>1, <1>5, <1>6 DEF TasksInv, TypeOK
<1>9. DistinctInv'
  <2>1. queued' = [queued EXCEPT ![wants[p]] = puts + 1]
    BY <1>1 DEF Store
  <2> QED
    BY <1>0, <1>1, <1>4, <2>1 DEF DistinctInv, TypeOK
<1>10. BoundedOvershoot'
  <2>1. IsFiniteSet(putWoken)
    BY <1>0, FS_Subset DEF TypeOK
  <2>2. Cardinality(putWoken') = Cardinality(putWoken) - 1
    BY <1>1, <1>5, <2>1, FS_RemoveElement
  <2>3. Cardinality(putWoken) \in Nat /\ count \in Nat
    BY <1>0, <2>1, FS_CardinalityType DEF TypeOK
  <2> QED
    BY <1>0, <1>5, <2>2, <2>3 DEF BoundedOvershoot
<1> QED
  BY <1>4, <1>5, <1>7, <1>8, <1>9, <1>10 DEF IInv

\* Dropping the messages of cancelled puts disturbs only who is waiting.
LEMMA PutCancelStep ==
    ASSUME IInv, NEW ps \in SUBSET Putters, PutCancel(ps)
    PROVE  IInv'
<1> USE PickupAssumption DEF PutCancel, queueVars, takeVars
<1>0. TypeOK /\ TasksInv /\ DistinctInv /\ BoundedOvershoot /\ NoLostWakeup
  BY DEF IInv
<1>1. TypeOK'
  BY <1>0 DEF TypeOK
<1>2. TasksInv'
  BY <1>0 DEF TasksInv, TypeOK
<1>3. NoLostWakeup'
  BY <1>0 DEF NoLostWakeup, HasRoom
<1>4. DistinctInv'
  BY <1>0 DEF DistinctInv, TypeOK
<1>5. BoundedOvershoot'
  <2>1. IsFiniteSet(putWoken)
    BY <1>0, FS_Subset DEF TypeOK
  <2>2. Cardinality(putWoken') <= Cardinality(putWoken) /\ IsFiniteSet(putWoken')
    BY <2>1, FS_Subset
  <2>3. Cardinality(putWoken) \in Nat /\ Cardinality(putWoken') \in Nat /\ count \in Nat
    BY <1>0, <2>1, <2>2, FS_CardinalityType DEF TypeOK
  <2>4. Cardinality(Putters) \in Nat
    BY FS_CardinalityType
  <2> QED
    BY <1>0, <2>2, <2>3, <2>4 DEF BoundedOvershoot
<1>6. FlagsInv' /\ HistoryInv' /\ CountInv'
  BY DEF IInv, FlagsInv, HasRoom, HistoryInv, FifoOrder, CountInv, Queued
<1> QED
  BY <1>1, <1>2, <1>3, <1>4, <1>5, <1>6 DEF IInv

-----------------------------------------------------------------------------
\* Refreshing both events after the counter went down to n: whoever may run
\* again is released, and nobody is let in above the bound.
LEMMA PrepareControl ==
    ASSUME IInv, NEW n \in Nat, n <= count, count' = n, PrepareResponse(n)
    PROVE  /\ FlagsInv' /\ BoundedOvershoot'
           /\ putWait' # {} => ~HasRoom(n)
           /\ putWait' \cap putWoken' = {}
           /\ putWait' \cup putWoken' = putWait \cup putWoken
           /\ filled' \in BOOLEAN /\ ready' \in BOOLEAN
<1> USE PickupAssumption
<1>0. TypeOK /\ FlagsInv /\ TasksInv /\ NoLostWakeup /\ BoundedOvershoot
  BY DEF IInv
<1>1. count \in Nat /\ ready \in BOOLEAN /\ filled \in BOOLEAN
  BY <1>0 DEF TypeOK
<1>2. filled' <=> n > 0
  <2>1. filled' <=> (filled /\ n # 0)
    BY Zenon DEF PrepareResponse
  <2> QED
    BY <1>0, <1>1, <2>1 DEF FlagsInv
<1>3. ready' = IF MaxQueueSize = None THEN ready ELSE HasRoom(n)
  BY DEF PrepareResponse, SetReady
<1>4. ready' <=> (MaxQueueSize = None \/ n < MaxQueueSize)
  BY <1>0, <1>3 DEF FlagsInv, HasRoom
<1>5. FlagsInv'
  BY <1>2, <1>4 DEF FlagsInv, HasRoom
<1>6. \/ ready' /\ ~ready /\ putWait' = {} /\ putWoken' = putWoken \cup putWait
      \/ ~(ready' /\ ~ready) /\ putWait' = putWait /\ putWoken' = putWoken
  BY <1>3 DEF PrepareResponse, SetReady
<1>7. putWait' # {} => ~HasRoom(n)
  <2>1. CASE ready' /\ ~ready /\ putWait' = {}
    BY <2>1
  <2>2. CASE ~(ready' /\ ~ready) /\ putWait' = putWait
    BY <1>0, <1>4, <2>2 DEF FlagsInv, NoLostWakeup, HasRoom
  <2> QED
    BY <1>6, <2>1, <2>2
<1>8. /\ putWait' \cap putWoken' = {}
      /\ putWait' \cup putWoken' = putWait \cup putWoken
  BY <1>0, <1>6 DEF TasksInv
<1>9. BoundedOvershoot'
  <2> SUFFICES ASSUME MaxQueueSize # None
               PROVE  n + Cardinality(putWoken') < MaxQueueSize + Cardinality(Putters)
    BY DEF BoundedOvershoot
  <2>0. MaxQueueSize \in Nat /\ Cardinality(Putters) \in Nat
    BY FS_CardinalityType
  <2>1. CASE ready' /\ ~ready /\ putWoken' = putWoken \cup putWait
    <3>1. n < MaxQueueSize
      BY <1>4, <2>1
    <3>2. putWoken' \subseteq Putters
      BY <1>0, <2>1 DEF TypeOK
    <3>3. IsFiniteSet(putWoken') /\ Cardinality(putWoken') <= Cardinality(Putters)
      BY <3>2, FS_Subset
    <3>4. Cardinality(putWoken') \in Nat
      BY <3>3, FS_CardinalityType
    <3> QED
      BY <2>0, <3>1, <3>3, <3>4
  <2>2. CASE putWoken' = putWoken
    <3>1. Cardinality(putWoken) \in Nat
      BY <1>0, FS_Subset, FS_CardinalityType DEF TypeOK
    <3> QED
      BY <1>0, <1>1, <2>0, <2>2, <3>1 DEF BoundedOvershoot
  <2> QED
    BY <1>6, <2>1, <2>2
<1>10. filled' \in BOOLEAN
  BY Zenon DEF PrepareResponse
<1>11. ready' \in BOOLEAN
  BY <1>1, <1>3 DEF HasRoom
<1> QED
  BY <1>5, <1>7, <1>8, <1>9, <1>10, <1>11

\* A request that takes messages out.
LEMMA RemoveStep ==
    ASSUME IInv, NEW t \in Takers, NEW r \in Requests, Remove(t, r)
    PROVE  IInv'
<1> USE PickupAssumption
<1> DEFINE k     == IF r.size < count THEN r.size ELSE count
           taken == Oldest(k)
           left  == count - Cardinality(taken)
<1>0. TypeOK /\ HistoryInv /\ CountInv /\ TasksInv /\ NoLostWakeup /\ DistinctInv
  BY DEF IInv
<1>1. /\ queued' = [id \in Ids |-> IF id \in taken THEN 0 ELSE queued[id]]
      /\ delivered' = delivered \cup {queued[id] : id \in taken}
      /\ count' = left
      /\ PrepareResponse(left)
      /\ request' = [request EXCEPT ![t] = None]
      /\ takeWait' = takeWait \ {t}
      /\ takeWoken' = takeWoken \ {t}
      /\ UNCHANGED <<puts, overwritten, wants, hung>>
  BY DEF Remove
<1>2. queued \in [Ids -> Nat] /\ count \in Nat /\ k \in Nat
  BY <1>0 DEF TypeOK, Request
<1>3. taken \subseteq Queued /\ Queued \subseteq Ids
  BY DEF Oldest, Queued
<1>4. Queued' = Queued \ taken
  BY <1>1, <1>3 DEF Queued
<1>5. \A id \in Queued' : queued'[id] = queued[id]
  BY <1>1, <1>3, <1>4
<1>6. IsFiniteSet(taken) /\ IsFiniteSet(Queued') /\ IsFiniteSet(Queued)
      /\ Cardinality(Queued') = Cardinality(Queued) - Cardinality(taken)
      /\ Cardinality(taken) <= Cardinality(Queued)
      /\ Cardinality(taken) \in Nat /\ Cardinality(Queued) \in Nat
  <2>1. IsFiniteSet(Queued)
    BY <1>0 DEF CountInv
  <2>2. IsFiniteSet(taken) /\ Cardinality(taken) <= Cardinality(Queued)
    BY <1>3, <2>1, FS_Subset
  <2>3. IsFiniteSet(Queued \ taken)
        /\ Cardinality(Queued \ taken)
             = Cardinality(Queued) - Cardinality(Queued \cap taken)
    BY <2>1, FS_Difference
  <2>4. Queued \cap taken = taken
    BY <1>3
  <2>5. Cardinality(taken) \in Nat /\ Cardinality(Queued) \in Nat
    BY <2>1, <2>2, FS_CardinalityType
  <2> QED
    BY <1>4, <2>1, <2>2, <2>3, <2>4, <2>5
<1>7. CountInv' /\ left \in Nat /\ left <= count
  <2>1. IsFiniteSet(overwritten) /\ count = Cardinality(Queued) + Cardinality(overwritten)
    BY <1>0 DEF CountInv
  <2>2. Cardinality(overwritten) \in Nat
    BY <2>1, FS_CardinalityType
  <2>3. left = Cardinality(Queued') + Cardinality(overwritten)
    BY <1>6, <2>1, <2>2
  <2>4. CountInv'
    BY <1>1, <1>6, <2>1, <2>3 DEF CountInv
  <2> QED
    BY <1>2, <1>6, <2>1, <2>2, <2>4
<1>8. HistoryInv'
  <2>1. \A id \in Ids : queued'[id] <= puts'
    BY <1>0, <1>1 DEF HistoryInv, TypeOK
  <2>2. \A i, j \in Queued' : queued'[i] = queued'[j] => i = j
    BY <1>0, <1>4, <1>5 DEF HistoryInv
  <2>3. \A id \in Queued' : queued'[id] \notin overwritten'
    BY <1>0, <1>1, <1>4, <1>5 DEF HistoryInv
  <2>4. FifoOrder'
    <3> SUFFICES ASSUME NEW d \in delivered', NEW j \in Queued' PROVE d < queued'[j]
      BY DEF FifoOrder
    <3>0. queued'[j] = queued[j] /\ j \in Queued /\ j \notin taken
      BY <1>4, <1>5
    <3>1. CASE d \in delivered
      BY <1>0, <3>0, <3>1 DEF HistoryInv, FifoOrder
    <3>2. CASE d \in {queued[id] : id \in taken}
      <4>1. PICK i \in taken : d = queued[i]
        BY <3>2
      <4>2. queued[i] < queued[j]
        BY <1>2, <1>6, <3>0, OldestIsPrefix
      <4> QED
        BY <3>0, <4>1, <4>2
    <3> QED
      BY <1>1, <3>1, <3>2
  <2>5. 1 .. puts' = delivered' \cup overwritten' \cup {queued'[id] : id \in Queued'}
    <3>1. {queued'[id] : id \in Queued'} = {queued[id] : id \in Queued \ taken}
      BY <1>4, <1>5
    <3>2. {queued[id] : id \in taken} \cup {queued[id] : id \in Queued \ taken}
            = {queued[id] : id \in Queued}
      BY <1>3
    <3> QED
      BY <1>0, <1>1, <3>1, <3>2 DEF HistoryInv
  <2> QED
    BY <2>1, <2>2, <2>3, <2>4, <2>5 DEF HistoryInv
<1>9. /\ FlagsInv' /\ BoundedOvershoot'
      /\ putWait' # {} => ~HasRoom(left)
      /\ putWait' \cap putWoken' = {}
      /\ putWait' \cup putWoken' = putWait \cup putWoken
      /\ filled' \in BOOLEAN /\ ready' \in BOOLEAN
  BY <1>1, <1>7, PrepareControl
<1>10. TypeOK'
  <2>1. queued' \in [Ids -> Nat]
    BY <1>1, <1>2
  <2>2. delivered' \subseteq Nat
    BY <1>0, <1>1, <1>2, <1>3 DEF TypeOK
  <2> QED
    BY <1>0, <1>1, <1>7, <1>9, <2>1, <2>2 DEF TypeOK
<1>11. TasksInv'
  BY <1>0, <1>1, <1>9 DEF TasksInv, TypeOK
<1>12. NoLostWakeup'
  <2>1. takeWait # {} => left = 0
    BY <1>0, <1>2, <1>7 DEF NoLostWakeup
  <2>2. takeWait' # {} => count' = 0
    BY <1>1, <2>1
  <2> QED
    BY <1>1, <1>9, <2>2 DEF NoLostWakeup, HasRoom
<1>13. DistinctInv'
  BY <1>0, <1>1, <1>2 DEF DistinctInv, TypeOK
<1> QED
  BY <1>7, <1>8, <1>9, <1>10, <1>11, <1>12, <1>13 DEF IInv

\* A request that finds too little and waits, polls, or captures the loop.
LEMMA KeepWaitingStep ==
    ASSUME IInv, NEW t \in Takers, NEW r \in Requests, r.size > count, KeepWaiting(t, r)
    PROVE  IInv'
<1> USE PickupAssumption
<1>0. TypeOK /\ FlagsInv /\ TasksInv /\ NoLostWakeup
  BY DEF IInv
<1>1. request' = [request EXCEPT ![t] = r] /\ UNCHANGED <<queueVars, putVars>>
  BY DEF KeepWaiting
<1>2. r \in Request /\ r # None
  OBVIOUS
<1>3. TypeOK'
  BY <1>0, <1>1 DEF TypeOK, KeepWaiting, queueVars, putVars
<1>4. TasksInv'
  BY <1>0, <1>1, <1>2 DEF TasksInv, TypeOK, KeepWaiting, putVars
<1>5. NoLostWakeup'
  BY <1>0, <1>1 DEF NoLostWakeup, FlagsInv, TypeOK, KeepWaiting, queueVars, putVars, HasRoom
<1>7. FlagsInv' /\ HistoryInv' /\ CountInv' /\ DistinctInv' /\ BoundedOvershoot'
  BY <1>1 DEF IInv, FlagsInv, HasRoom, HistoryInv, FifoOrder, CountInv, Queued, DistinctInv,
              BoundedOvershoot, queueVars, putVars
<1> QED
  BY <1>3, <1>4, <1>5, <1>7 DEF IInv

LEMMA BatchLoopStep ==
    ASSUME IInv, NEW t \in Takers, NEW r \in Requests, BatchLoop(t, r)
    PROVE  IInv'
BY RemoveStep, KeepWaitingStep DEF BatchLoop

\* A response that removes nothing.
LEMMA PeekStep ==
    ASSUME IInv, PrepareResponse(count),
           UNCHANGED <<queued, count, puts, delivered, overwritten, wants, takeVars, hung>>
    PROVE  IInv'
<1> USE PickupAssumption DEF takeVars
<1>0. TypeOK /\ TasksInv /\ NoLostWakeup
  BY DEF IInv
<1>1. count \in Nat /\ count <= count
  BY <1>0 DEF TypeOK
<1>2. /\ FlagsInv' /\ BoundedOvershoot'
      /\ putWait' # {} => ~HasRoom(count)
      /\ putWait' \cap putWoken' = {}
      /\ putWait' \cup putWoken' = putWait \cup putWoken
      /\ filled' \in BOOLEAN /\ ready' \in BOOLEAN
  BY <1>1, PrepareControl
<1>3. TypeOK' /\ TasksInv'
  BY <1>0, <1>2 DEF TypeOK, TasksInv
<1>4. NoLostWakeup'
  BY <1>0, <1>2 DEF NoLostWakeup, HasRoom
<1>5. HistoryInv' /\ CountInv' /\ DistinctInv'
  BY DEF IInv, HistoryInv, FifoOrder, CountInv, Queued, DistinctInv
<1> QED
  BY <1>2, <1>3, <1>4, <1>5 DEF IInv

-----------------------------------------------------------------------------
\* Every step of every task keeps the invariant.
LEMMA NextIInv == IInv /\ [Next]_vars => IInv'
<1> SUFFICES ASSUME IInv, [Next]_vars PROVE IInv'
  OBVIOUS
<1>1. ASSUME NEW p \in Putters, Putting(p) PROVE IInv'
  BY <1>1, PutCallStep, PutResumeStep DEF Putting
<1>2. ASSUME NEW t \in Takers, Taking(t) PROVE IInv'
  <2>1. ASSUME NEW r \in Requests, TakeCall(t, r) PROVE IInv'
    BY <2>1, BatchLoopStep, PeekStep DEF TakeCall
  <2>2. request \in [Takers -> Requests \cup {None}]
    BY DEF IInv, TypeOK
  <2>3. CASE TakeResume(t)
    <3>1. request[t] \in Requests
      BY <2>2, <2>3 DEF IInv, TasksInv, TakeResume
    <3> QED
      BY <2>3, <3>1, BatchLoopStep DEF TakeResume
  <2>4. CASE TakeExpire(t)
    BY <2>2, <2>4, RemoveStep DEF TakeExpire
  <2> QED
    BY <1>2, <2>1, <2>3, <2>4 DEF Taking
<1>3. CASE Peek
  BY <1>3, PeekStep DEF Peek
<1>5. ASSUME NEW ps \in SUBSET Putters, PutCancel(ps) PROVE IInv'
  BY <1>5, PutCancelStep
<1>4. CASE UNCHANGED vars
  BY <1>4 DEF IInv, TypeOK, FlagsInv, HasRoom, TasksInv, NoLostWakeup, HistoryInv, FifoOrder,
              CountInv, Queued, DistinctInv, BoundedOvershoot,
              vars, queueVars, putVars, takeVars
<1> QED
  BY <1>1, <1>2, <1>3, <1>4, <1>5 DEF Next

\* The queue, its counter, its events and its tasks stay in the states that
\* the invariant describes, whatever the number of tasks and the limit.
THEOREM Invariance == Spec => []IInv
BY InitIInv, NextIInv, PTL DEF Spec

\* Every variable keeps its type.
THEOREM Typing == Spec => []TypeOK
<1>1. IInv => TypeOK
  BY DEF IInv
<1> QED
  BY <1>1, Invariance, PTL

\* No coroutine of PickUpStateMachine is left waiting for what is there.
THEOREM NoWakeupIsLost == Spec => []NoLostWakeup
<1>1. IInv => NoLostWakeup
  BY DEF IInv
<1> QED
  BY <1>1, Invariance, PTL

\* Messages leave the queue in the order in which put() stored them.
THEOREM HandedOutInOrder == Spec => []FifoOrder
<1>1. IInv => FifoOrder
  BY DEF IInv, HistoryInv
<1> QED
  BY <1>1, Invariance, PTL

\* With distinct ids no stored message disappears.
THEOREM NoMessageLost == Spec => []NothingLost
<1>1. IInv => NothingLost
  BY DEF IInv, HistoryInv, DistinctInv, NothingLost
<1> QED
  BY <1>1, Invariance, PTL

\* The queue may outgrow max_queue_size by less than the number of putters.
THEOREM OvershootIsBounded == Spec => []BoundedOvershoot
<1>1. IInv => BoundedOvershoot
  BY DEF IInv
<1> QED
  BY <1>1, Invariance, PTL

\* The event loop is captured by one kind of request and stays so: nothing
\* runs any more.
LEMMA CaptureStep ==
    ASSUME IInv, LoopCapturedByBatch, [Next]_vars
    PROVE  LoopCapturedByBatch'
<1>1. TypeOK /\ FlagsInv
  BY DEF IInv
<1>2. CASE UNCHANGED vars
  BY <1>2 DEF LoopCapturedByBatch, vars, queueVars, takeVars
<1>3. ASSUME NEW p \in Putters, Putting(p) PROVE ~hung'
  BY <1>3 DEF Putting, PutCall, PutResume, Store
<1>4. ASSUME NEW ps \in SUBSET Putters, PutCancel(ps) PROVE ~hung'
  BY <1>4 DEF PutCancel
<1>5. CASE Peek
  BY <1>5 DEF Peek, LoopCapturedByBatch
<1>6. ASSUME NEW t \in Takers, NEW r \in Requests, ~hung, r.size > count, KeepWaiting(t, r)
      PROVE  LoopCapturedByBatch'
  <2> SUFFICES ASSUME hung' PROVE LoopCapturedByBatch'
    BY DEF LoopCapturedByBatch
  <2>1. filled /\ ~r.timed /\ request' = [request EXCEPT ![t] = r] /\ count' = count
    BY <1>6 DEF KeepWaiting, queueVars
  <2>2. count > 0 /\ request'[t] = r /\ r # None
    BY <1>1, <2>1, PickupAssumption DEF FlagsInv, TypeOK
  <2> QED
    BY <1>6, <2>1, <2>2 DEF LoopCapturedByBatch
<1>7. ASSUME NEW t \in Takers, NEW r \in Requests, ~hung, BatchLoop(t, r)
      PROVE  LoopCapturedByBatch'
  BY <1>6, <1>7 DEF BatchLoop, Remove, LoopCapturedByBatch
<1>8. ASSUME NEW t \in Takers, Taking(t) PROVE LoopCapturedByBatch'
  <2>1. ASSUME NEW r \in Requests, TakeCall(t, r) PROVE LoopCapturedByBatch'
    BY <1>7, <2>1 DEF TakeCall, LoopCapturedByBatch
  <2>2. CASE TakeResume(t)
    <3>1. request[t] \in Requests
      BY <1>1, <2>2 DEF IInv, TypeOK, TasksInv, TakeResume
    <3> QED
      BY <1>7, <2>2, <3>1 DEF TakeResume
  <2>3. CASE TakeExpire(t)
    BY <2>3 DEF TakeExpire, Remove, LoopCapturedByBatch
  <2> QED
    BY <1>8, <2>1, <2>2, <2>3 DEF Taking
<1> QED
  BY <1>2, <1>3, <1>4, <1>5, <1>8 DEF Next, LoopCapturedByBatch

\* Noops, batches of one and timed batches never capture the event loop.
THEOREM LoopIsCapturedByBatch == Spec => []LoopCapturedByBatch
<1>1. Init => LoopCapturedByBatch
  BY DEF Init, LoopCapturedByBatch
<1>2. IInv /\ LoopCapturedByBatch /\ [Next]_vars => LoopCapturedByBatch'
  BY CaptureStep
<1> QED
  BY <1>1, <1>2, Invariance, PTL DEF Spec

\* The counter covers the queue, and is exact when ids are distinct.
THEOREM CounterCoversQueue == Spec => []CountCoversQueue
<1>1. IInv => CountCoversQueue
  <2> SUFFICES ASSUME IInv PROVE CountCoversQueue
    OBVIOUS
  <2>1. IsFiniteSet(Queued) /\ IsFiniteSet(overwritten)
        /\ count = Cardinality(Queued) + Cardinality(overwritten)
    BY DEF IInv, CountInv
  <2>2. Cardinality(Queued) \in Nat /\ Cardinality(overwritten) \in Nat
    BY <2>1, FS_CardinalityType
  <2>3. UniqueIds => Cardinality(overwritten) = 0
    BY FS_EmptySet DEF IInv, DistinctInv
  <2> QED
    BY <2>1, <2>2, <2>3 DEF CountCoversQueue
<1> QED
  BY <1>1, Invariance, PTL

-----------------------------------------------------------------------------
(* Batches *)

\* The first k ids of the dictionary are k, if there are as many: their ranks
\* are the numbers below k.
LEMMA OldestCount ==
    ASSUME queued \in [Ids -> Nat], IsFiniteSet(Queued),
           \A i, j \in Queued : queued[i] = queued[j] => i = j,
           NEW k \in Nat, k <= Cardinality(Queued)
    PROVE  IsFiniteSet(Oldest(k)) /\ Cardinality(Oldest(k)) = k
<1> DEFINE n == Cardinality(Queued)
           Before(id) == {x \in Queued : queued[x] < queued[id]}
           rank == [id \in Queued |-> Cardinality(Before(id))]
<1>1. n \in Nat /\ IsFiniteSet(0..n-1) /\ Cardinality(0..n-1) = n
      /\ IsFiniteSet(0..k-1) /\ Cardinality(0..k-1) = k
  <2>1. n \in Nat
    BY FS_CardinalityType
  <2>2. \A m \in Nat : IsFiniteSet(0..m-1) /\ Cardinality(0..m-1) = m
    <3> TAKE m \in Nat
    <3>1. 0 \in Int /\ m - 1 \in Int
      OBVIOUS
    <3>2. IsFiniteSet(0..m-1) /\ Cardinality(0..m-1) = IF 0 > m - 1 THEN 0 ELSE (m - 1) - 0 + 1
      BY <3>1, FS_Interval
    <3> QED
      BY <3>2
  <2> HIDE DEF n
  <2> QED
    BY <2>1, <2>2
<1>2. \A id \in Queued : queued[id] \in Nat
  BY DEF Queued
<1>3. \A id \in Queued : IsFiniteSet(Before(id)) /\ Cardinality(Before(id)) \in Nat
  BY FS_Subset, FS_CardinalityType
<1>4. ASSUME NEW i \in Queued, NEW S \in SUBSET Queued, i \in S, Before(i) \subseteq S
      PROVE  Cardinality(Before(i)) < Cardinality(S)
  <2>1. i \notin Before(i)
    BY <1>2
  <2>2. IsFiniteSet(S) /\ Cardinality(S) \in Nat
    BY FS_Subset, FS_CardinalityType
  <2>3. IsFiniteSet(S \ {i}) /\ Cardinality(S \ {i}) = Cardinality(S) - 1
    BY <1>4, <2>2, FS_RemoveElement
  <2>4. Before(i) \in SUBSET (S \ {i})
    BY <1>4, <2>1
  <2>5. Cardinality(Before(i)) <= Cardinality(S \ {i})
    BY <2>3, <2>4, FS_Subset
  <2> QED
    BY <1>3, <2>2, <2>3, <2>5
<1>5. rank \in [Queued -> 0..n-1]
  <2> SUFFICES ASSUME NEW i \in Queued PROVE Cardinality(Before(i)) \in 0..n-1
    OBVIOUS
  <2>1. Cardinality(Before(i)) < n
    BY <1>4
  <2> QED
    BY <1>1, <1>3, <2>1
<1>6. \A i, j \in Queued : queued[i] < queued[j] => rank[i] < rank[j]
  <2> SUFFICES ASSUME NEW i \in Queued, NEW j \in Queued, queued[i] < queued[j]
               PROVE  Cardinality(Before(i)) < Cardinality(Before(j))
    OBVIOUS
  <2>1. i \in Before(j) /\ Before(i) \subseteq Before(j)
    BY <1>2
  <2> QED
    BY <1>4, <2>1
<1> HIDE DEF rank
<1>7. \A i, j \in Queued : rank[i] = rank[j] => i = j
  BY <1>1, <1>2, <1>5, <1>6
<1>8. rank \in Injection(Queued, 0..n-1)
  BY <1>5, <1>7 DEF Injection, IsInjective
<1>9. rank \in Surjection(Queued, 0..n-1)
  <2> HIDE DEF n
  <2>1. Cardinality(Queued) = Cardinality(0..n-1)
    BY <1>1 DEF n
  <2> QED
    BY <1>1, <1>8, <2>1, FS_Injection
<1>10. Oldest(k) = {id \in Queued : rank[id] < k}
  BY DEF Oldest, rank
<1> DEFINE f == [id \in Oldest(k) |-> rank[id]]
<1>11. f \in Injection(Oldest(k), 0..k-1)
  BY <1>1, <1>5, <1>7, <1>10 DEF Injection, IsInjective
<1>12. f \in Surjection(Oldest(k), 0..k-1)
  <2>1. ASSUME NEW x \in 0..k-1 PROVE \E id \in Oldest(k) : f[id] = x
    <3>1. x \in 0..n-1
      BY <1>1
    <3>2. PICK id \in Queued : rank[id] = x
      BY <1>9, <3>1 DEF Surjection
    <3> QED
      BY <1>10, <3>2
  <2> QED
    BY <1>11, <2>1 DEF Surjection, Injection
<1> HIDE DEF f
<1> QED
  BY <1>1, <1>11, <1>12, FS_Injection

\* A batch that is large enough hands over as many messages as it asks for.
LEMMA BatchIsFull ==
    ASSUME IInv, UniqueIds, NEW t \in Takers, NEW r \in Requests, r.size <= count, Remove(t, r)
    PROVE  Cardinality(delivered' \ delivered) = r.size
<1> DEFINE taken == Oldest(r.size)
           out == {queued[id] : id \in taken}
           g == [id \in taken |-> queued[id]]
<1>1. TypeOK /\ HistoryInv /\ CountInv /\ DistinctInv
  BY DEF IInv
<1>2. queued \in [Ids -> Nat] /\ count \in Nat /\ r.size \in Nat /\ delivered \subseteq Nat
  BY <1>1, PickupAssumption DEF TypeOK, Request
<1>3. Cardinality(Queued) = count
  <2>1. overwritten = {} /\ Cardinality(overwritten) = 0
    BY <1>1, FS_EmptySet DEF DistinctInv
  <2>2. Cardinality(Queued) \in Nat
    BY <1>1, FS_CardinalityType DEF CountInv
  <2> QED
    BY <1>1, <2>1, <2>2 DEF CountInv
<1>4. (IF r.size < count THEN r.size ELSE count) = r.size
  BY <1>2
<1>5. delivered' = delivered \cup out
  BY <1>4 DEF Remove
<1>6. \A i, j \in Queued : queued[i] = queued[j] => i = j
  BY <1>1 DEF HistoryInv
<1>7. IsFiniteSet(taken) /\ Cardinality(taken) = r.size
  BY <1>1, <1>2, <1>3, <1>6, OldestCount DEF CountInv
<1>8. taken \subseteq Queued /\ Queued \subseteq Ids
  BY DEF Oldest, Queued
<1>9. out \cap delivered = {}
  <2> SUFFICES ASSUME NEW id \in Queued, queued[id] \in delivered PROVE FALSE
    BY <1>8
  <2>1. queued[id] < queued[id]
    BY <1>1 DEF HistoryInv, FifoOrder
  <2> QED
    BY <1>2, <1>8, <2>1
<1>10. g \in Bijection(taken, out)
  BY <1>6, <1>8 DEF Bijection, Injection, Surjection, IsInjective
<1> HIDE DEF taken, out, g
<1>11. Cardinality(out) = Cardinality(taken)
  BY <1>7, <1>10, FS_Bijection DEF ExistsBijection
<1>12. delivered' \ delivered = out
  BY <1>5, <1>9
<1> QED
  BY <1>7, <1>11, <1>12

\* A step that answers a request without a delay hands out all it asked for.
LEMMA AnswerStep ==
    ASSUME UniqueIds, IInv, [Next]_vars
    PROVE  [\A t \in Takers :
              request[t] # None /\ ~request[t].timed /\ request'[t] = None
                => Cardinality(delivered' \ delivered) = request[t].size]_vars
<1> SUFFICES ASSUME Next, NEW t \in Takers, request[t] # None, ~request[t].timed,
                    request'[t] = None
             PROVE  Cardinality(delivered' \ delivered) = request[t].size
  OBVIOUS
<1>1. request \in [Takers -> Requests \cup {None}] /\ request[t] \in Requests /\ None \notin Requests
  BY PickupAssumption DEF IInv, TypeOK
<1>2. ~(request' = request)
  OBVIOUS
<1>3. ASSUME NEW ps \in SUBSET Putters, PutCancel(ps) PROVE FALSE
  BY <1>2, <1>3 DEF PutCancel, takeVars
<1>4. ASSUME NEW p \in Putters, Putting(p) PROVE FALSE
  BY <1>2, <1>4 DEF Putting, PutCall, PutResume, Store, takeVars
<1>5. ASSUME Peek PROVE FALSE
  BY <1>2, <1>5 DEF Peek, takeVars
<1>6. PICK u \in Takers : Taking(u)
  BY <1>3, <1>4, <1>5 DEF Next
<1>7. ASSUME NEW r \in Requests, BatchLoop(u, r) \/ Remove(u, r) PROVE u = t
  BY <1>1, <1>7 DEF BatchLoop, KeepWaiting, Remove
<1>8. ASSUME NEW r \in Requests, TakeCall(u, r) PROVE FALSE
  <2>1. CASE BatchLoop(u, r)
    BY <1>7, <1>8, <2>1 DEF TakeCall
  <2>2. CASE UNCHANGED takeVars
    BY <1>2, <2>2 DEF takeVars
  <2> QED
    BY <1>8, <2>1, <2>2 DEF TakeCall
<1>9. u = t /\ TakeResume(t)
  <2>1. CASE TakeResume(u)
    <3>1. request[u] \in Requests
      BY <1>1, <2>1 DEF IInv, TasksInv, TakeResume
    <3> QED
      BY <1>7, <2>1, <3>1 DEF TakeResume
  <2>2. CASE TakeExpire(u)
    <3>1. request[u] \in Requests
      BY <1>1, <2>2 DEF TakeExpire
    <3> QED
      BY <1>7, <2>2, <3>1 DEF TakeExpire
  <2> QED
    BY <1>6, <1>8, <2>1, <2>2 DEF Taking
<1>10. request[t].size <= count /\ Remove(t, request[t])
  BY <1>1, <1>9 DEF TakeResume, BatchLoop, KeepWaiting
<1> QED
  BY <1>1, <1>10, BatchIsFull

\* With distinct ids, a request without a delay that had to wait is answered in
\* full: process() looks at the counter again when it is woken.
THEOREM BatchesAreFull == ASSUME UniqueIds PROVE Spec => UntimedBatchIsFull
<1> QED
  BY Invariance, AnswerStep, PTL DEF Spec, UntimedBatchIsFull

=============================================================================
