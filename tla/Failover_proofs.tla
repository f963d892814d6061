-------------------------- MODULE Failover_proofs ---------------------------
(***************************************************************************)
(* Safety of the choice of Redis servers for any servers, endpoints,       *)
(* verkeys and number of requests.                                         *)
(***************************************************************************)
EXTENDS Failover, TLAPS

\* A request that has ended carries nothing; posts alone push; what was chosen
\* is written next.
PlaceInv ==
    \A c \in Clients :
        /\ pc[c] = "idle" => got[c] = None
        /\ pc[c] \in {"push", "choose"} => key[c] = None
        /\ chosen[c] # None => pc[c] = "write"

\* What a copy x of endpoint u tells when no endpoint was registered since it
\* was read: the verkey is the registered one and nobody else's.
CopyStands(x, u) ==
    x # None /\ ~x.aged =>
        /\ u \notin undone => registered[u] = x.verkey
        /\ \A w \in Uids \ (undone \cup {u}) : registered[w] # x.verkey

\* And when its server has not changed: the server of the row.
CopyServes(x, u) ==
    x # None /\ u \notin contested =>
        /\ x.server # None
        /\ ~x.moved => ServerIn(row, u) = x.server

CopiesInv ==
    /\ \A u \in Uids : CopyStands(copy[u], u) /\ CopyServes(copy[u], u)
    /\ \A c \in Clients : got[c] # None => CopyStands(got[c], uid[c]) /\ CopyServes(got[c], uid[c])

\* No two endpoints have a verkey, and an endpoint has a server.
RowsInv ==
    /\ \A u, w \in Uids : row[u] # None /\ row[w] # None /\ row[u].verkey = row[w].verkey => u = w
    /\ \A u \in Uids \ contested : row[u] # None => row[u].server # None

\* A registration that is about to give a server has found no endpoint.
ChoiceInv ==
    \A c \in Clients :
        /\ pc[c] = "register" /\ got[c] = None /\ uid[c] \notin contested => row[uid[c]] = None
        /\ pc[c] = "write" /\ key[c] # None /\ chosen[c] # None /\ uid[c] \notin contested
             => got[c] = None /\ row[uid[c]] = None

IInv ==
    /\ TypeOK /\ PlaceInv /\ CopiesInv /\ RowsInv /\ ChoiceInv
    /\ RegistrationsStand

-----------------------------------------------------------------------------
LEMMA Absent ==
    /\ None \notin Servers /\ None \notin Uids /\ None \notin Verkeys
    /\ None \notin Rows /\ None \notin Copies
BY FailoverAssumption

LEMMA InitIInv == Init => IInv
<1> SUFFICES ASSUME Init PROVE IInv
  OBVIOUS
<1> USE FailoverAssumption DEF Init
<1>1. TypeOK
  BY DEF TypeOK, Places
<1>2. PlaceInv /\ CopiesInv /\ RowsInv /\ ChoiceInv /\ RegistrationsStand
  BY DEF PlaceInv, CopiesInv, CopyStands, CopyServes, RowsInv, ChoiceInv, RegistrationsStand
<1> QED
  BY <1>1, <1>2 DEF IInv

-----------------------------------------------------------------------------
(* Steps that write no row *)

\* Client c goes on without writing: it keeps its copy, drops it, or has taken
\* one that tells the truth; its copy in memcached stays or goes.
LEMMA LocalIInv ==
    ASSUME IInv, TypeOK', NEW c \in Clients,
           row' = row, UNCHANGED history,
           \A d \in Clients \ {c} :
             pc'[d] = pc[d] /\ uid'[d] = uid[d] /\ key'[d] = key[d]
             /\ got'[d] = got[d] /\ chosen'[d] = chosen[d],
           pc'[c] = "idle" => got'[c] = None,
           pc'[c] \in {"push", "choose"} => key'[c] = None,
           chosen'[c] # None => pc'[c] = "write",
           got'[c] # None => CopyStands(got'[c], uid'[c]) /\ CopyServes(got'[c], uid'[c]),
           \A u \in Uids : copy'[u] # None =>
             copy'[u] = copy[u] \/ (CopyStands(copy'[u], u) /\ CopyServes(copy'[u], u)),
           pc'[c] = "register" /\ got'[c] = None /\ uid'[c] \notin contested => row[uid'[c]] = None,
           pc'[c] = "write" /\ key'[c] # None /\ chosen'[c] # None /\ uid'[c] \notin contested
             => got'[c] = None /\ row[uid'[c]] = None
    PROVE  IInv'
<1> USE DEF history
<1>1. PlaceInv' /\ ChoiceInv'
  BY DEF IInv, PlaceInv, ChoiceInv
<1>2. CopiesInv'
  BY DEF IInv, CopiesInv, CopyStands, CopyServes, ServerIn
<1>3. RowsInv' /\ RegistrationsStand'
  BY DEF IInv, RowsInv, RegistrationsStand
<1> QED
  BY <1>1, <1>2, <1>3 DEF IInv

\* What Return leaves of a client.
LEMMA Returned ==
    ASSUME TypeOK, NEW c \in Clients, Return(c)
    PROVE  /\ pc'[c] = "idle" /\ uid'[c] = None /\ key'[c] = None
           /\ got'[c] = None /\ chosen'[c] = None
           /\ \A d \in Clients \ {c} :
                pc'[d] = pc[d] /\ uid'[d] = uid[d] /\ key'[d] = key[d]
                /\ got'[d] = got[d] /\ chosen'[d] = chosen[d]
           /\ pc' \in [Clients -> Places] /\ uid' \in [Clients -> Uids \cup {None}]
           /\ key' \in [Clients -> Verkeys \cup {None}]
           /\ got' \in [Clients -> Copies \cup {None}]
           /\ chosen' \in [Clients -> Servers \cup {None}]
BY DEF TypeOK, Return, Goto, Places

\* What is kept of client c when it goes elsewhere.
LEMMA Kept ==
    ASSUME IInv, NEW c \in Clients, NEW x \in {copy[uid[c]], got[c]}, pc[c] # "idle", x # None
    PROVE  /\ uid[c] \in Uids /\ x \in Copies
           /\ CopyStands(x, uid[c]) /\ CopyServes(x, uid[c])
<1>1. uid[c] \in Uids
  BY DEF IInv, TypeOK
<1> QED
  BY <1>1 DEF IInv, TypeOK, CopiesInv

\* A row that is read now tells the truth.
LEMMA FreshTells ==
    ASSUME IInv, NEW u \in Uids, row[u] # None
    PROVE  /\ Fresh(row[u]) \in Copies /\ Fresh(row[u]) # None
           /\ CopyStands(Fresh(row[u]), u) /\ CopyServes(Fresh(row[u]), u)
<1> DEFINE x == [verkey |-> row[u].verkey, server |-> row[u].server,
                 aged |-> FALSE, moved |-> FALSE]
<1>1. row[u] \in Rows /\ Fresh(row[u]) = x
  BY DEF IInv, TypeOK, Fresh
<1>2. x \in Copies /\ x # None
  <2>1. row[u].verkey \in Verkeys /\ row[u].server \in Servers \cup {None}
    BY <1>1 DEF Rows
  <2>2. x \in Copies
    BY <2>1 DEF Copies
  <2> QED
    BY <2>2, Absent
<1>3. CopyStands(x, u)
  <2>1. u \notin undone => registered[u] = row[u].verkey
    BY DEF IInv, RegistrationsStand
  <2>2. ASSUME NEW w \in Uids \ (undone \cup {u}) PROVE registered[w] # row[u].verkey
    <3>1. registered[w] # None => row[w] # None /\ row[w].verkey = registered[w]
      BY DEF IInv, RegistrationsStand
    <3>2. row[u].verkey # None
      BY <1>1, Absent DEF Rows
    <3> QED
      BY <3>1, <3>2 DEF IInv, RowsInv
  <2> QED
    BY <2>1, <2>2 DEF CopyStands
<1>4. CopyServes(x, u)
  BY DEF IInv, RowsInv, CopyServes, ServerIn
<1> QED
  BY <1>1, <1>2, <1>3, <1>4

LEMMA StartIInv ==
    ASSUME IInv, NEW c \in Clients,
           \/ \E u \in Posted : Post(c, u)
           \/ \E e \in Enrolments : IF e[2] = None THEN Attach(c, e[1]) ELSE Connect(c, e[1], e[2])
    PROVE  IInv'
<1>1. PICK u \in Uids, l \in {"load", "reload"} : Start(c, u, l)
  BY FailoverAssumption DEF Post, Attach, Connect
<1>2. /\ key' \in [Clients -> Verkeys \cup {None}] /\ connects' \in 0..MaxConnects
      /\ \A d \in Clients \ {c} : key'[d] = key[d]
  <2>1. CASE \E v \in Posted : Post(c, v)
    BY <2>1 DEF Post, IInv, TypeOK
  <2>2. ASSUME NEW e \in Enrolments, e[2] = None, Attach(c, e[1])
        PROVE  key' = key /\ connects' \in 0..MaxConnects
    BY <2>2, FailoverAssumption DEF Attach, IInv, TypeOK
  <2>3. ASSUME NEW e \in Enrolments, e[2] # None, Connect(c, e[1], e[2])
        PROVE  key' = [key EXCEPT ![c] = e[2]] /\ e[2] \in Verkeys /\ connects' \in 0..MaxConnects
    BY <2>3, FailoverAssumption DEF Connect, IInv, TypeOK
  <2> QED
    BY <2>1, <2>2, <2>3 DEF IInv, TypeOK
<1>3. /\ pc[c] = "idle" /\ pc' = [pc EXCEPT ![c] = l] /\ uid' = [uid EXCEPT ![c] = u]
      /\ UNCHANGED <<up, row, copy, got, chosen, breaks, history>>
  BY <1>1 DEF Start, Goto
<1>4. TypeOK'
  BY <1>2, <1>3, Absent DEF IInv, TypeOK, Places, history
<1>5. got'[c] = None /\ chosen'[c] = None
  BY <1>3 DEF IInv, PlaceInv
<1> QED
  BY <1>2, <1>3, <1>4, <1>5, LocalIInv DEF IInv, TypeOK

LEMMA LoadHitIInv ==
    ASSUME IInv, NEW c \in Clients, LoadHit(c)
    PROVE  IInv'
<1>1. /\ pc[c] \in {"load", "reload"} /\ copy[uid[c]] # None
      /\ got' = [got EXCEPT ![c] = copy[uid[c]]]
      /\ UNCHANGED <<up, row, copy, uid, key, chosen, bounds, history>>
  BY DEF LoadHit, Loading
<1>2. PICK l \in {"listen", "push", "register"} :
        /\ pc' = [pc EXCEPT ![c] = l]
        /\ l = "push" => key[c] = None
        /\ l = "register" => key[c] # None
  BY DEF LoadHit, Loaded, Goto
<1>3. TypeOK'
  BY <1>1, <1>2, Kept DEF IInv, TypeOK, Places, bounds, history
<1>4. CopyStands(got'[c], uid[c]) /\ CopyServes(got'[c], uid[c]) /\ got'[c] # None
  BY <1>1, Kept DEF IInv, TypeOK
<1>5. chosen[c] = None
  BY <1>1 DEF IInv, PlaceInv
<1> QED
  BY <1>1, <1>2, <1>3, <1>4, <1>5, LocalIInv DEF IInv, TypeOK

LEMMA LoadReadIInv ==
    ASSUME IInv, NEW c \in Clients, LoadRead(c)
    PROVE  IInv'
<1>1. /\ pc[c] \in {"load", "reload"} /\ uid[c] \in Uids
      /\ got' = [got EXCEPT ![c] = Fresh(row[uid[c]])]
      /\ UNCHANGED <<up, row, copy, uid, key, chosen, bounds, history>>
  BY DEF LoadRead, Loading, IInv, TypeOK
<1>2. PICK l \in {"listen", "push", "register", "fill", "refill"} :
        /\ pc' = [pc EXCEPT ![c] = l]
        /\ l \in {"fill", "refill"} => row[uid[c]] # None
        /\ l = "push" => key[c] = None
        /\ l = "register" => key[c] # None /\ row[uid[c]] = None
  BY DEF LoadRead, Loaded, Goto
<1>3. /\ got'[c] # None => CopyStands(got'[c], uid[c]) /\ CopyServes(got'[c], uid[c])
      /\ got'[c] \in Copies \cup {None}
      /\ got'[c] = None <=> row[uid[c]] = None
  <2>1. got'[c] = Fresh(row[uid[c]])
    BY <1>1 DEF IInv, TypeOK
  <2>2. CASE row[uid[c]] = None
    BY <2>1, <2>2 DEF Fresh
  <2>3. CASE row[uid[c]] # None
    BY <1>1, <2>1, <2>3, FreshTells
  <2> QED
    BY <2>2, <2>3
<1>4. TypeOK'
  BY <1>1, <1>2, <1>3 DEF IInv, TypeOK, Places, bounds, history
<1>5. chosen[c] = None
  BY <1>1 DEF IInv, PlaceInv
<1> QED
  BY <1>1, <1>2, <1>3, <1>4, <1>5, LocalIInv DEF IInv, TypeOK

LEMMA FillIInv ==
    ASSUME IInv, NEW c \in Clients, Fill(c)
    PROVE  IInv'
<1>1. /\ pc[c] \in {"fill", "refill"} /\ got[c] # None
      /\ copy' = [copy EXCEPT ![uid[c]] = got[c]]
      /\ UNCHANGED <<up, row, uid, key, got, chosen, bounds, history>>
  BY DEF Fill, IInv, TypeOK
<1>2. PICK l \in {"listen", "push", "register"} :
        /\ pc' = [pc EXCEPT ![c] = l]
        /\ l = "push" => key[c] = None
        /\ l = "register" => key[c] # None
  BY DEF Fill, Loaded, Goto
<1>3. TypeOK'
  BY <1>1, <1>2, Kept DEF IInv, TypeOK, Places, bounds, history
<1>4. CopyStands(got[c], uid[c]) /\ CopyServes(got[c], uid[c])
  BY <1>1, Kept
<1>5. chosen[c] = None
  BY <1>1 DEF IInv, PlaceInv
<1> QED
  BY <1>1, <1>2, <1>3, <1>4, <1>5, LocalIInv DEF IInv, TypeOK

\* A server is chosen, or the request ends.
LEMMA Chosen ==
    ASSUME IInv, NEW c \in Clients, Choose(c), pc[c] # "idle"
    PROVE  \/ \E s \in up : /\ chosen' = [chosen EXCEPT ![c] = s]
                            /\ pc' = [pc EXCEPT ![c] = "write"]
                            /\ UNCHANGED <<uid, key, got>>
                            /\ \A u \in Uids : copy'[u] \in {copy[u], None}
                            /\ copy' \in [Uids -> Copies \cup {None}]
           \/ Return(c) /\ copy' = copy
<1>1. ASSUME Evict(c)
      PROVE  /\ \A u \in Uids : copy'[u] \in {copy[u], None}
             /\ copy' \in [Uids -> Copies \cup {None}]
  BY <1>1 DEF Evict, IInv, TypeOK
<1> QED
  BY <1>1 DEF Choose, Goto

\* A request ends without writing.
LEMMA ReturnIInv ==
    ASSUME IInv, NEW c \in Clients, Return(c), UNCHANGED <<up, row, copy, bounds, history>>
    PROVE  IInv'
<1>1. TypeOK'
  BY Returned, Absent DEF IInv, TypeOK, Places, bounds, history
<1> QED
  BY <1>1, Returned, LocalIInv DEF IInv, TypeOK, history

LEMMA PushIInv ==
    ASSUME IInv, NEW c \in Clients, Push(c)
    PROVE  IInv'
<1>1. pc[c] = "push" /\ UNCHANGED <<up, row, copy, bounds, history>>
  BY DEF Push
<1>2. CASE /\ got[c] # None /\ pc' = [pc EXCEPT ![c] = "choose"]
           /\ UNCHANGED <<uid, key, got, chosen>>
  <2>1. key[c] = None /\ chosen[c] = None
    BY <1>1 DEF IInv, PlaceInv
  <2>2. TypeOK'
    BY <1>1, <1>2, <2>1 DEF IInv, TypeOK, Places, bounds, history
  <2>3. CopyStands(got[c], uid[c]) /\ CopyServes(got[c], uid[c])
    BY <1>1, <1>2, Kept
  <2> QED
    BY <1>1, <1>2, <2>1, <2>2, <2>3, LocalIInv DEF IInv, TypeOK
<1>3. CASE Return(c)
  BY <1>1, <1>3, ReturnIInv
<1> QED
  BY <1>2, <1>3 DEF Push, Goto

LEMMA ReselectIInv ==
    ASSUME IInv, NEW c \in Clients, Reselect(c)
    PROVE  IInv'
<1>1. pc[c] = "choose" /\ Choose(c) /\ UNCHANGED <<up, row, bounds, history>>
  BY DEF Reselect
<1>2. ASSUME NEW s \in up, chosen' = [chosen EXCEPT ![c] = s],
             pc' = [pc EXCEPT ![c] = "write"], UNCHANGED <<uid, key, got>>,
             \A u \in Uids : copy'[u] \in {copy[u], None},
             copy' \in [Uids -> Copies \cup {None}]
      PROVE  IInv'
  <2>1. key[c] = None /\ got[c] # None
    BY <1>1 DEF IInv, PlaceInv, TypeOK
  <2>2. TypeOK'
    BY <1>1, <1>2, <2>1, Absent DEF IInv, TypeOK, Places, bounds, history
  <2>3. CopyStands(got[c], uid[c]) /\ CopyServes(got[c], uid[c])
    BY <1>1, <2>1, Kept
  <2> QED
    BY <1>1, <1>2, <2>1, <2>2, <2>3, LocalIInv DEF IInv, TypeOK
<1> QED
  BY <1>1, <1>2, Chosen, ReturnIInv

LEMMA RegisterIInv ==
    ASSUME IInv, NEW c \in Clients, Register(c)
    PROVE  IInv'
<1>1. pc[c] = "register" /\ key[c] # None /\ UNCHANGED <<up, row, bounds, history>>
  BY DEF Register, IInv, TypeOK
<1>2. chosen[c] = None /\ (got[c] # None => CopyStands(got[c], uid[c]) /\ CopyServes(got[c], uid[c]))
  BY <1>1, Kept DEF IInv, PlaceInv
<1>3. CASE pc' = [pc EXCEPT ![c] = "confirm"] /\ UNCHANGED <<copy, uid, key, got, chosen>>
  <2>1. TypeOK'
    BY <1>1, <1>3 DEF IInv, TypeOK, Places, bounds, history
  <2> QED
    BY <1>1, <1>2, <1>3, <2>1, LocalIInv DEF IInv, TypeOK
<1>4. CASE Evict(c) /\ pc' = [pc EXCEPT ![c] = "write"] /\ UNCHANGED <<uid, key, got, chosen>>
  <2>1. TypeOK' /\ \A u \in Uids : copy'[u] \in {copy[u], None}
    BY <1>1, <1>4 DEF IInv, TypeOK, Places, Evict, bounds, history
  <2> QED
    BY <1>1, <1>2, <1>4, <2>1, LocalIInv DEF IInv, TypeOK
<1>5. CASE Choose(c) /\ (got[c] = None \/ got[c].server = None)
  <2>1. CASE Return(c) /\ copy' = copy
    BY <1>1, <2>1, ReturnIInv
  <2>2. ASSUME NEW s \in up, chosen' = [chosen EXCEPT ![c] = s],
               pc' = [pc EXCEPT ![c] = "write"], UNCHANGED <<uid, key, got>>,
               \A u \in Uids : copy'[u] \in {copy[u], None},
               copy' \in [Uids -> Copies \cup {None}]
        PROVE  IInv'
    <3>1. TypeOK'
      BY <1>1, <2>2, Absent DEF IInv, TypeOK, Places, bounds, history
    <3>2. uid[c] \notin contested => got[c] = None
      BY <1>2, <1>5 DEF CopyServes
    <3>3. uid[c] \notin contested => row[uid[c]] = None
      BY <1>1, <3>2 DEF IInv, ChoiceInv
    <3> QED
      BY <1>1, <1>2, <2>2, <3>1, <3>2, <3>3, LocalIInv DEF IInv, TypeOK
  <2> QED
    BY <1>1, <1>5, <2>1, <2>2, Chosen
<1> QED
  BY <1>3, <1>4, <1>5 DEF Register, Goto

LEMMA ConfirmIInv ==
    ASSUME IInv, NEW c \in Clients, Confirm(c)
    PROVE  IInv'
<1>1. pc[c] = "confirm" /\ key[c] # None /\ UNCHANGED <<up, row, bounds, history>>
  BY DEF Confirm, IInv, TypeOK
<1>2. chosen[c] = None /\ (got[c] # None => CopyStands(got[c], uid[c]) /\ CopyServes(got[c], uid[c]))
  BY <1>1, Kept DEF IInv, PlaceInv
<1>3. CASE Return(c) /\ copy' = copy
  BY <1>1, <1>3, ReturnIInv
<1>4. ASSUME NEW l \in {"rewrite", "reload"}, pc' = [pc EXCEPT ![c] = l],
             UNCHANGED <<uid, key, got, chosen>>, Evict(c) \/ copy' = copy
      PROVE  IInv'
  <2>1. TypeOK' /\ \A u \in Uids : copy'[u] \in {copy[u], None}
    BY <1>1, <1>4 DEF IInv, TypeOK, Places, Evict, bounds, history
  <2> QED
    BY <1>1, <1>2, <1>4, <2>1, LocalIInv DEF IInv, TypeOK
<1> QED
  BY <1>3, <1>4 DEF Confirm, Goto

LEMMA ListenIInv ==
    ASSUME IInv, NEW c \in Clients, Listen(c) \/ Close(c)
    PROVE  IInv'
<1>1. pc[c] # "idle" /\ UNCHANGED <<up, row, copy, bounds, history>>
  BY DEF Listen, Close
<1>2. CASE Return(c)
  BY <1>1, <1>2, ReturnIInv
<1>3. CASE /\ pc[c] = "listen" /\ got[c] # None /\ got[c].server \in up
           /\ pc' = [pc EXCEPT ![c] = "live"] /\ UNCHANGED <<uid, key, got, chosen>>
  <2>1. TypeOK' /\ chosen[c] = None
    BY <1>1, <1>3, Absent DEF IInv, PlaceInv, TypeOK, Places, bounds, history
  <2> QED
    BY <1>1, <1>3, <2>1, Kept, LocalIInv DEF IInv, TypeOK
<1> QED
  BY <1>1, <1>2, <1>3 DEF Listen, Close, Goto

\* The listeners cs end.
Ended(cs) ==
    /\ pc' = [c \in Clients |-> IF c \in cs THEN "idle" ELSE pc[c]]
    /\ uid' = [c \in Clients |-> IF c \in cs THEN None ELSE uid[c]]
    /\ key' = [c \in Clients |-> IF c \in cs THEN None ELSE key[c]]
    /\ got' = [c \in Clients |-> IF c \in cs THEN None ELSE got[c]]

\* A server breaks or comes back, or a copy expires.
LEMMA EnvironmentIInv ==
    ASSUME IInv,
           \/ \E s \in Servers : Break(s) \/ Repair(s)
           \/ \E u \in Uids : Expire(u)
    PROVE  IInv'
<1>1. /\ UNCHANGED <<row, chosen, connects, history>>
      /\ up' \subseteq Servers /\ breaks' \in 0..MaxBreaks
      /\ copy' \in [Uids -> Copies \cup {None}] /\ \A u \in Uids : copy'[u] \in {copy[u], None}
  <2>1. ASSUME NEW s \in Servers, Break(s) PROVE breaks' \in 0..MaxBreaks /\ copy' = copy
    BY <2>1, FailoverAssumption DEF Break, IInv, TypeOK
  <2> QED
    BY <2>1 DEF Break, Repair, Expire, IInv, TypeOK, locals, bounds
<1>2. PICK cs \in SUBSET {c \in Clients : pc[c] = "live"} : Ended(cs)
  <2>1. ASSUME NEW s \in Servers, Break(s)
        PROVE  Ended({c \in Clients : pc[c] = "live" /\ got[c].server = s})
    BY <2>1 DEF Break, Ended
  <2>2. ASSUME UNCHANGED <<pc, uid, key, got>> PROVE Ended({})
    BY <2>2 DEF IInv, TypeOK, Ended
  <2> QED
    BY <2>1, <2>2 DEF Repair, Expire, locals
<1>3. TypeOK'
  BY <1>1, <1>2, Absent DEF IInv, TypeOK, Places, history, Ended
<1>4. PlaceInv' /\ ChoiceInv'
  BY <1>1, <1>2 DEF Ended, IInv, TypeOK, PlaceInv, ChoiceInv, history
<1>5. CopiesInv'
  BY <1>1, <1>2 DEF IInv, CopiesInv, CopyStands, CopyServes, ServerIn, history, Ended
<1>6. RowsInv' /\ RegistrationsStand'
  BY <1>1 DEF IInv, RowsInv, RegistrationsStand, history
<1> QED
  BY <1>3, <1>4, <1>5, <1>6 DEF IInv

-----------------------------------------------------------------------------
(* Steps that write rows *)

\* What a write leaves of a copy.
LEMMA AfterCopy ==
    ASSUME NEW x \in Copies \cup {None}, NEW u, NEW ws, NEW r \in BOOLEAN
    PROVE  /\ After(x, u, ws, r) \in Copies \cup {None}
           /\ After(x, u, ws, r) = None <=> x = None
           /\ x # None => /\ After(x, u, ws, r).verkey = x.verkey
                          /\ After(x, u, ws, r).server = x.server
                          /\ After(x, u, ws, r).aged <=> x.aged \/ r
                          /\ After(x, u, ws, r).moved <=> x.moved \/ u \in ws
<1>1. CASE x = None
  BY <1>1 DEF After
<1>2. CASE x # None
  <2>1. x \in Copies
    BY <1>2
  <2>2. After(x, u, ws, r) = [x EXCEPT !.aged = @ \/ r, !.moved = @ \/ u \in ws]
    BY <1>2 DEF After
  <2> QED
    BY <2>1, <2>2, <1>2, Absent DEF Copies
<1> QED
  BY <1>1, <1>2

\* The table after a write: the endpoint has the verkey, and nobody else.
LEMMA EnsuredTable ==
    ASSUME IInv, NEW u \in Uids, NEW v \in Verkeys, NEW s \in Servers \cup {None}
    PROVE  LET t == Ensured(u, v, s) IN
           /\ t \in [Uids -> Rows \cup {None}]
           /\ t[u] # None /\ t[u].verkey = v
           /\ t[u].server = IF row[u] # None /\ s = None THEN row[u].server ELSE s
           /\ \A w \in Uids \ {u} :
                t[w] = IF row[w] # None /\ row[w].verkey = v THEN None ELSE row[w]
<1> DEFINE t == Ensured(u, v, s)
           x == [verkey |-> v, server |-> IF row[u] # None /\ s = None THEN row[u].server ELSE s]
<1>1. x \in Rows
  BY DEF IInv, TypeOK, Rows
<1>2. t = [w \in Uids |-> IF w # u THEN IF row[w] # None /\ row[w].verkey = v THEN None ELSE row[w]
                          ELSE x]
  BY DEF Ensured
<1> HIDE DEF t
<1>3. t[u] = x /\ x # None
  BY <1>1, <1>2, Absent
<1>4. t \in [Uids -> Rows \cup {None}]
  BY <1>1, <1>2 DEF IInv, TypeOK
<1> QED
  BY <1>2, <1>3, <1>4 DEF t

\* Copy y of a row is copy x after a write that is a registration or not.
SameCopy(x, y, r) ==
    x # None /\ y.verkey = x.verkey /\ y.server = x.server /\ (y.aged <=> x.aged \/ r)

\* A write keeps what a copy x of endpoint w says of its server: the server of
\* an endpoint is replaced with the copy told so, or when it is contested.
LEMMA StillServes ==
    ASSUME IInv, NEW c \in Clients, uid[c] \in Uids,
           NEW v \in Verkeys, NEW s \in Servers \cup {None},
           WriteRows(c, Ensured(uid[c], v, s)),
           key[c] # None /\ s # None /\ uid[c] \notin contested => row[uid[c]] = None,
           NEW w \in Uids, NEW x \in Copies \cup {None}, CopyServes(x, w),
           NEW r \in BOOLEAN, NEW y,
           y = After(x, w, Changed(c, Ensured(uid[c], v, s)), r)
    PROVE  y # None /\ w \notin contested' =>
             /\ y.server # None
             /\ ~y.moved => ServerIn(row', w) = y.server
<1> DEFINE u == uid[c]
           t == Ensured(u, v, s)
<1>1. row' = t /\ contested \subseteq contested'
  BY DEF WriteRows, Contested
<1> SUFFICES ASSUME y # None, w \notin contested'
             PROVE  y.server # None /\ (~y.moved => ServerIn(t, w) = y.server)
  BY <1>1
<1>2. x # None /\ y.server = x.server /\ (y.moved <=> x.moved \/ w \in Changed(c, t))
  BY AfterCopy
<1>3. x.server # None /\ (~x.moved => ServerIn(row, w) = x.server)
  BY <1>1, <1>2 DEF CopyServes
<1>4. ASSUME ~y.moved PROVE ServerIn(t, w) = ServerIn(row, w)
  <2>1. ServerIn(row, w) # None /\ row[w] # None /\ w \notin Changed(c, t)
    BY <1>2, <1>3, <1>4 DEF ServerIn
  <2>2. CASE key[c] # None => w # u
    BY <2>1, <2>2 DEF Changed
  <2>3. CASE key[c] # None /\ w = u
    <3>1. s = None
      BY <1>1, <2>1, <2>3
    <3> QED
      BY <2>1, <2>3, <3>1, EnsuredTable DEF ServerIn
  <2> QED
    BY <2>2, <2>3
<1> QED
  BY <1>2, <1>3, <1>4

\* A write by client c, which goes on to listen or ends: rows, choices, places.
LEMMA WriteKeeps ==
    ASSUME IInv, NEW c \in Clients, uid[c] \in Uids,
           NEW r \in BOOLEAN, r <=> key[c] # None,
           NEW v \in Verkeys, NEW s \in Servers \cup {None},
           WriteRows(c, Ensured(uid[c], v, s)),
           key[c] # None /\ s # None /\ uid[c] \notin contested => row[uid[c]] = None,
           \A d \in Clients \ {c} :
             pc'[d] = pc[d] /\ uid'[d] = uid[d] /\ key'[d] = key[d],
           pc'[c] \in {"idle", "confirm", "reload"}
    PROVE  /\ RowsInv' /\ ChoiceInv' /\ PlaceInv'
           /\ row' \in [Uids -> Rows \cup {None}] /\ copy' \in [Uids -> Copies \cup {None}]
           /\ got' \in [Clients -> Copies \cup {None}]
           /\ chosen' \in [Clients -> Servers \cup {None}] /\ contested' \subseteq Uids
           /\ \A w \in Uids : CopyServes(copy[w], w)'
           /\ \A d \in Clients : got'[d] # None => CopyServes(got[d], uid[d])'
           /\ \A w \in Uids : copy'[w] # None => SameCopy(copy[w], copy'[w], r)
           /\ \A d \in Clients \ {c} : (got'[d] = None <=> got[d] = None) /\ chosen'[d] = chosen[d]
           /\ \A d \in Clients : got'[d] # None => d # c /\ SameCopy(got[d], got'[d], r)
<1> DEFINE u == uid[c]
           t == Ensured(u, v, s)
           ws == Changed(c, t)
<1>0. ASSUME NEW x \in Copies \cup {None}, NEW w
      PROVE  /\ After(x, w, ws, r) \in Copies \cup {None} /\ (After(x, w, ws, r) = None <=> x = None)
             /\ x # None => SameCopy(x, After(x, w, ws, r), r)
  <2> HIDE DEF ws
  <2> QED
    BY AfterCopy DEF SameCopy
<1>1. row' = t /\ contested \subseteq contested' /\ contested' \subseteq Uids
  BY DEF WriteRows, Contested, IInv, TypeOK
<1>2. /\ t \in [Uids -> Rows \cup {None}]
      /\ t[u] # None /\ t[u].verkey = v
      /\ \A w \in Uids \ {u} :
           t[w] = IF row[w] # None /\ row[w].verkey = v THEN None ELSE row[w]
  BY EnsuredTable
<1>3. ASSUME NEW d \in Clients \ {c}
      PROVE  /\ got'[d] = After(got[d], uid[d], ws, r)
             /\ got'[d] \in Copies \cup {None} /\ (got'[d] = None <=> got[d] = None)
             /\ chosen'[d] = chosen[d] /\ (got[d] # None => SameCopy(got[d], got'[d], r))
  <2>1. got[d] \in Copies \cup {None} /\ chosen'[d] = chosen[d]
    BY DEF WriteRows, IInv, TypeOK
  <2>2. got'[d] = After(got[d], uid[d], ws, r)
    BY DEF WriteRows
  <2> QED
    BY <1>0, <2>1, <2>2
<1>4. got'[c] = None /\ chosen'[c] = None
  BY DEF WriteRows, IInv, TypeOK
<1>5. got' \in [Clients -> Copies \cup {None}] /\ chosen' \in [Clients -> Servers \cup {None}]
  BY <1>3, <1>4 DEF WriteRows, IInv, TypeOK
<1>6. /\ copy' = [w \in Uids |-> After(copy[w], w, ws, r)]
      /\ \A w \in Uids : copy'[w] # None => SameCopy(copy[w], copy'[w], r)
      /\ copy' \in [Uids -> Copies \cup {None}]
  BY <1>0 DEF WriteRows, IInv, TypeOK
<1>7. RowsInv'
  <2>1. u \notin contested' => t[u].server # None
    BY <1>2 DEF WriteRows, Contested, ServerIn
  <2> QED
    BY <1>1, <1>2, <2>1 DEF IInv, RowsInv
<1>8. PlaceInv'
  BY <1>3, <1>4 DEF IInv, PlaceInv
<1>9. ChoiceInv'
  <2>1. ASSUME NEW d \in Clients, pc'[d] \in {"register", "write"}, got'[d] = None,
               uid'[d] \notin contested', row[uid[d]] = None
        PROVE  row'[uid'[d]] = None
    <3>1. d # c /\ uid'[d] = uid[d] /\ got[d] = None /\ uid[d] \in Uids
      BY <1>3, <2>1 DEF IInv, TypeOK
    <3>2. uid[d] # u
      BY <2>1, <3>1 DEF WriteRows, Contested, ServerIn
    <3> QED
      BY <1>1, <1>2, <2>1, <3>1, <3>2
  <2> QED
    BY <1>1, <1>3, <1>4, <2>1 DEF IInv, ChoiceInv
<1>10. ASSUME NEW w \in Uids PROVE CopyServes(copy[w], w)'
  <2>1. CopyServes(copy[w], w) /\ copy[w] \in Copies \cup {None}
    BY DEF IInv, CopiesInv, TypeOK
  <2>2. copy'[w] = After(copy[w], w, ws, r)
    BY <1>6
  <2>3. copy'[w] # None /\ w \notin contested' =>
          /\ copy'[w].server # None
          /\ ~copy'[w].moved => ServerIn(row', w) = copy'[w].server
    BY <2>1, <2>2, StillServes
  <2> QED
    BY <2>1, <2>3 DEF CopyServes, ServerIn
<1>11. ASSUME NEW d \in Clients, got'[d] # None PROVE CopyServes(got[d], uid[d])'
  <2>1. d # c /\ got[d] # None /\ uid'[d] = uid[d]
    BY <1>3, <1>4, <1>11
  <2>2. uid[d] \in Uids /\ got[d] \in Copies /\ CopyServes(got[d], uid[d])
    BY <2>1 DEF IInv, TypeOK, PlaceInv, CopiesInv
  <2>3. got'[d] = After(got[d], uid[d], ws, r)
    BY <1>3, <2>1
  <2>4. got'[d] # None /\ uid[d] \notin contested' =>
          /\ got'[d].server # None
          /\ ~got'[d].moved => ServerIn(row', uid[d]) = got'[d].server
    BY <2>1, <2>2, <2>3, StillServes
  <2> QED
    BY <2>1, <2>4 DEF CopyServes, ServerIn
<1> QED
  BY <1>1, <1>2, <1>3, <1>4, <1>5, <1>6, <1>7, <1>8, <1>9, <1>10, <1>11

\* The transaction of a registration.
LEMMA StoreKeeps ==
    ASSUME IInv, NEW c \in Clients, NEW s \in Servers \cup {None}, Store(c, s),
           pc[c] # "idle", key[c] # None,
           s # None /\ uid[c] \notin contested => row[uid[c]] = None,
           \A d \in Clients \ {c} :
             pc'[d] = pc[d] /\ uid'[d] = uid[d] /\ key'[d] = key[d],
           pc'[c] \in {"idle", "confirm", "reload"}
    PROVE  /\ RowsInv' /\ ChoiceInv' /\ PlaceInv' /\ CopiesInv' /\ RegistrationsStand'
           /\ row' \in [Uids -> Rows \cup {None}] /\ copy' \in [Uids -> Copies \cup {None}]
           /\ got' \in [Clients -> Copies \cup {None}]
           /\ chosen' \in [Clients -> Servers \cup {None}] /\ contested' \subseteq Uids
           /\ \A d \in Clients \ {c} :
                /\ got'[d] # None <=> got[d] # None
                /\ got[d] # None => got'[d].server = got[d].server
                /\ chosen'[d] = chosen[d]
           /\ registered' \in [Uids -> Verkeys \cup {None}] /\ undone' \subseteq Uids
           /\ UNCHANGED <<up, bounds>>
<1> DEFINE u == uid[c]
           v == key[c]
           t == Ensured(u, v, s)
<1>1. u \in Uids /\ v \in Verkeys
  BY DEF IInv, TypeOK
<1>2. /\ WriteRows(c, t)
      /\ registered' = [w \in Uids |-> IF w = u THEN v
                                       ELSE IF registered[w] = v THEN None
                                       ELSE registered[w]]
      /\ undone' = undone \ {u}
      /\ UNCHANGED <<up, bounds>>
  BY DEF Store
<1>3. /\ RowsInv' /\ ChoiceInv' /\ PlaceInv'
      /\ row' \in [Uids -> Rows \cup {None}] /\ copy' \in [Uids -> Copies \cup {None}]
      /\ got' \in [Clients -> Copies \cup {None}]
      /\ chosen' \in [Clients -> Servers \cup {None}] /\ contested' \subseteq Uids
      /\ \A w \in Uids : CopyServes(copy[w], w)'
      /\ \A d \in Clients : got'[d] # None => CopyServes(got[d], uid[d])'
      /\ \A w \in Uids : copy'[w] # None => SameCopy(copy[w], copy'[w], TRUE)
      /\ \A d \in Clients \ {c} : (got'[d] = None <=> got[d] = None) /\ chosen'[d] = chosen[d]
      /\ \A d \in Clients : got'[d] # None => d # c /\ SameCopy(got[d], got'[d], TRUE)
  BY <1>1, <1>2, WriteKeeps
<1>4. registered' \in [Uids -> Verkeys \cup {None}] /\ undone' \subseteq Uids
  BY <1>1, <1>2 DEF IInv, TypeOK
<1>5. CopiesInv'
  BY <1>3 DEF CopiesInv, CopyStands, SameCopy
<1>6. \A d \in Clients \ {c} : got[d] # None => got'[d].server = got[d].server
  BY <1>3 DEF SameCopy
<1>7. RegistrationsStand'
  <2>1. /\ row'[u] # None /\ row'[u].verkey = v
        /\ \A w \in Uids \ {u} :
             row'[w] = IF row[w] # None /\ row[w].verkey = v THEN None ELSE row[w]
    BY <1>1, <1>2, EnsuredTable DEF WriteRows
  <2>2. v # None
    OBVIOUS
  <2> QED
    BY <1>1, <1>2, <2>1, <2>2 DEF IInv, RegistrationsStand
<1> QED
  BY <1>2, <1>3, <1>4, <1>5, <1>6, <1>7

LEMMA WriteIInv ==
    ASSUME IInv, NEW c \in Clients, Write(c)
    PROVE  IInv'
<1>1. /\ pc[c] = "write" /\ key[c] # None /\ Store(c, chosen[c])
      /\ pc' = [pc EXCEPT ![c] = "confirm"] /\ UNCHANGED <<uid, key>>
  BY DEF Write, Goto
<1>2. chosen[c] # None /\ uid[c] \notin contested => row[uid[c]] = None
  BY <1>1 DEF IInv, ChoiceInv
<1>3. chosen[c] \in Servers \cup {None} /\ pc' \in [Clients -> Places]
  BY <1>1 DEF IInv, TypeOK, Places
<1>4. /\ RowsInv' /\ ChoiceInv' /\ PlaceInv' /\ CopiesInv' /\ RegistrationsStand'
      /\ row' \in [Uids -> Rows \cup {None}] /\ copy' \in [Uids -> Copies \cup {None}]
      /\ got' \in [Clients -> Copies \cup {None}]
      /\ chosen' \in [Clients -> Servers \cup {None}] /\ contested' \subseteq Uids
      /\ \A d \in Clients \ {c} :
           /\ got'[d] # None <=> got[d] # None
           /\ got[d] # None => got'[d].server = got[d].server
           /\ chosen'[d] = chosen[d]
      /\ registered' \in [Uids -> Verkeys \cup {None}] /\ undone' \subseteq Uids
      /\ UNCHANGED <<up, bounds>>
  BY <1>1, <1>2, <1>3, StoreKeeps DEF IInv, TypeOK
<1>5. TypeOK'
  BY <1>1, <1>3, <1>4 DEF IInv, TypeOK, bounds
<1> QED
  BY <1>4, <1>5 DEF IInv

LEMMA RewriteIInv ==
    ASSUME IInv, NEW c \in Clients, Rewrite(c)
    PROVE  IInv'
<1>1. pc[c] = "rewrite" /\ key[c] # None /\ Store(c, None)
  BY DEF Rewrite, IInv, TypeOK
<1>2. /\ pc' \in [Clients -> Places] /\ pc'[c] \in {"idle", "reload"}
      /\ uid' \in [Clients -> Uids \cup {None}] /\ key' \in [Clients -> Verkeys \cup {None}]
      /\ pc'[c] # "idle" <=> uid'[c] # None
      /\ \A d \in Clients \ {c} : pc'[d] = pc[d] /\ uid'[d] = uid[d] /\ key'[d] = key[d]
  BY <1>1, Absent DEF Rewrite, Goto, IInv, TypeOK, Places
<1>3. /\ RowsInv' /\ ChoiceInv' /\ PlaceInv' /\ CopiesInv' /\ RegistrationsStand'
      /\ row' \in [Uids -> Rows \cup {None}] /\ copy' \in [Uids -> Copies \cup {None}]
      /\ got' \in [Clients -> Copies \cup {None}]
      /\ chosen' \in [Clients -> Servers \cup {None}] /\ contested' \subseteq Uids
      /\ \A d \in Clients \ {c} :
           /\ got'[d] # None <=> got[d] # None
           /\ got[d] # None => got'[d].server = got[d].server
           /\ chosen'[d] = chosen[d]
      /\ registered' \in [Uids -> Verkeys \cup {None}] /\ undone' \subseteq Uids
      /\ UNCHANGED <<up, bounds>>
  BY <1>1, <1>2, StoreKeeps
<1>4. TypeOK'
  BY <1>1, <1>2, <1>3 DEF IInv, TypeOK, bounds
<1> QED
  BY <1>3, <1>4 DEF IInv

LEMMA WriteBackIInv ==
    ASSUME IInv, NEW c \in Clients, WriteBack(c)
    PROVE  IInv'
<1> DEFINE u == uid[c]
           v == got[c].verkey
           t == Ensured(u, v, chosen[c])
<1>1. /\ pc[c] = "write" /\ key[c] = None
      /\ WriteRows(c, t)
      /\ undone' = IF ~got[c].aged THEN undone
                   ELSE undone \cup {u} \cup {w \in Uids : row[w] # None /\ row[w].verkey = v}
      /\ pc' = [pc EXCEPT ![c] = "idle"]
      /\ uid' = [uid EXCEPT ![c] = None]
      /\ UNCHANGED <<up, key, bounds, registered>>
  BY DEF WriteBack, Goto
<1>2. u \in Uids /\ got[c] \in Copies /\ v \in Verkeys /\ chosen[c] \in Servers \cup {None}
  BY <1>1 DEF IInv, TypeOK, Copies
<1>3. /\ RowsInv' /\ ChoiceInv' /\ PlaceInv'
      /\ row' \in [Uids -> Rows \cup {None}] /\ copy' \in [Uids -> Copies \cup {None}]
      /\ got' \in [Clients -> Copies \cup {None}]
      /\ chosen' \in [Clients -> Servers \cup {None}] /\ contested' \subseteq Uids
      /\ \A w \in Uids : CopyServes(copy[w], w)'
      /\ \A d \in Clients : got'[d] # None => CopyServes(got[d], uid[d])'
      /\ \A w \in Uids : copy'[w] # None => SameCopy(copy[w], copy'[w], FALSE)
      /\ \A d \in Clients \ {c} : (got'[d] = None <=> got[d] = None) /\ chosen'[d] = chosen[d]
      /\ \A d \in Clients : got'[d] # None => d # c /\ SameCopy(got[d], got'[d], FALSE)
  <2>1. pc'[c] = "idle" /\ \A d \in Clients \ {c} : pc'[d] = pc[d] /\ uid'[d] = uid[d] /\ key'[d] = key[d]
    BY <1>1 DEF IInv, TypeOK
  <2> QED
    BY <1>1, <1>2, <2>1, WriteKeeps
<1>4. undone \subseteq undone' /\ undone' \subseteq Uids /\ registered' = registered
  BY <1>1, <1>2 DEF IInv, TypeOK
<1>5. CopiesInv'
  <2>1. \A d \in Clients : got'[d] # None => uid'[d] = uid[d]
    BY <1>1, <1>3 DEF IInv, TypeOK
  <2>2. ASSUME NEW w \in Uids PROVE CopyStands(copy[w], w)'
    BY <1>3, <1>4 DEF IInv, CopiesInv, CopyStands, SameCopy
  <2>3. ASSUME NEW d \in Clients, got'[d] # None PROVE CopyStands(got[d], uid[d])'
    BY <1>3, <1>4, <2>1, <2>3 DEF IInv, CopiesInv, CopyStands, SameCopy
  <2> QED
    BY <1>3, <2>2, <2>3 DEF CopiesInv
<1>6. \A d \in Clients \ {c} : got[d] # None => got'[d].server = got[d].server
  BY <1>3 DEF SameCopy
<1>7. RegistrationsStand'
  <2>1. /\ row'[u] # None /\ row'[u].verkey = v
        /\ \A w \in Uids \ {u} :
             row'[w] = IF row[w] # None /\ row[w].verkey = v THEN None ELSE row[w]
    BY <1>1, <1>2, EnsuredTable DEF WriteRows
  <2>2. CASE got[c].aged
    BY <1>1, <1>2, <1>4, <2>1, <2>2 DEF IInv, RegistrationsStand
  <2>3. CASE ~got[c].aged
    <3>1. /\ u \notin undone => registered[u] = v
          /\ \A w \in Uids \ (undone \cup {u}) : registered[w] # v
      BY <1>1, <1>2, <2>3, Absent DEF IInv, CopiesInv, CopyStands
    <3>2. v # None /\ undone' = undone
      BY <1>1, <1>2, <2>3, Absent
    <3> QED
      BY <1>2, <1>4, <2>1, <3>1, <3>2 DEF IInv, RegistrationsStand
  <2> QED
    BY <2>2, <2>3
<1>8. TypeOK'
  <2>1. /\ pc'[c] = "idle" /\ pc' \in [Clients -> Places]
        /\ uid'[c] = None /\ uid' \in [Clients -> Uids \cup {None}]
        /\ key' = key /\ UNCHANGED <<up, breaks, connects>>
        /\ \A d \in Clients \ {c} : pc'[d] = pc[d] /\ uid'[d] = uid[d]
    BY <1>1, Absent DEF IInv, TypeOK, Places, bounds
  <2>2. ASSUME NEW d \in Clients
        PROVE  /\ pc'[d] # "idle" <=> uid'[d] # None
               /\ pc'[d] \in {"fill", "refill"} => got'[d] # None
               /\ pc'[d] = "live" => got'[d] # None /\ got'[d].server # None
               /\ key'[d] = None /\ pc'[d] \in {"choose", "write"} => got'[d] # None
               /\ key'[d] = None /\ pc'[d] = "write" => chosen'[d] # None
               /\ pc'[d] \in {"register", "confirm", "rewrite"} => key'[d] # None
    BY <1>3, <1>6, <2>1 DEF IInv, TypeOK
  <2> QED
    BY <1>3, <1>4, <2>1, <2>2 DEF IInv, TypeOK
<1> QED
  BY <1>3, <1>5, <1>7, <1>8 DEF IInv

-----------------------------------------------------------------------------
LEMMA NextIInv == IInv /\ [Next]_vars => IInv'
<1> SUFFICES ASSUME IInv, [Next]_vars PROVE IInv'
  OBVIOUS
<1>1. CASE \E c \in Clients : Work(c)
  BY <1>1, LoadHitIInv, LoadReadIInv, FillIInv, PushIInv, ReselectIInv, WriteBackIInv,
     RegisterIInv, WriteIInv, ConfirmIInv, RewriteIInv, ListenIInv DEF Work
<1>2. CASE \/ \E c \in Clients, u \in Posted : Post(c, u)
           \/ \E c \in Clients, e \in Enrolments :
                IF e[2] = None THEN Attach(c, e[1]) ELSE Connect(c, e[1], e[2])
  BY <1>2, StartIInv
<1>3. CASE \E c \in Clients : Close(c)
  BY <1>3, ListenIInv
<1>4. CASE \/ \E s \in Servers : Break(s) \/ Repair(s)
           \/ \E u \in Uids : Expire(u)
  BY <1>4, EnvironmentIInv
<1>5. CASE UNCHANGED vars
  <2>1. TypeOK' /\ PlaceInv' /\ ChoiceInv'
    BY <1>5 DEF IInv, TypeOK, PlaceInv, ChoiceInv, vars, locals, bounds, history
  <2>2. CopiesInv' /\ RowsInv' /\ RegistrationsStand'
    BY <1>5 DEF IInv, CopiesInv, CopyStands, CopyServes, ServerIn, RowsInv, RegistrationsStand,
                vars, locals, bounds, history
  <2> QED
    BY <2>1, <2>2 DEF IInv
<1> QED
  BY <1>1, <1>2, <1>3, <1>4, <1>5 DEF Next

\* The inductive invariant holds: what the copies of an endpoint tell is true
\* up to the writes they have missed, whoever wrote.
THEOREM Invariance == Spec => []IInv
<1>1. Init => IInv
  BY InitIInv
<1>2. IInv /\ [Next]_vars => IInv'
  BY NextIInv
<1> QED
  BY <1>1, <1>2, PTL DEF Spec

\* Types, and which request carries what where.
THEOREM Typing == Spec => []TypeOK
<1>1. IInv => TypeOK
  BY DEF IInv
<1> QED
  BY <1>1, Invariance, PTL

\* Registrations stand: a post that moves an endpoint keeps the verkey that was
\* registered last, unless it loaded the endpoint before.
THEOREM Standing == Spec => []RegistrationsStand
<1>1. IInv => RegistrationsStand
  BY DEF IInv
<1> QED
  BY <1>1, Invariance, PTL

\* A session listens at the server where the posts to its endpoint go, as long
\* as that was not moved since its row was read, or contested.
THEOREM Listening == Spec => []ListensWherePostsGo
<1>1. IInv => ListensWherePostsGo
  BY DEF IInv, TypeOK, CopiesInv, CopyServes, ListensWherePostsGo
<1> QED
  BY <1>1, Invariance, PTL

-----------------------------------------------------------------------------
(* What the exceptions of RegistrationsStand come down to *)

\* A verkey finds one endpoint, though the column of the table is not unique:
\* whatever posts and registrations of several workers store, in any order, as
\* long as their transactions do not overlap (module Repo: UniqueOneAtATime).
OneEndpointPerVerkey ==
    \A u, w \in Uids : row[u] # None /\ row[w] # None /\ row[u].verkey = row[w].verkey => u = w

\* Whoever stores an endpoint deletes the others that have its verkey: the
\* delete of ensure_endpoint_exists() stands in for a unique index.
THEOREM VerkeyHasOneEndpoint == Spec => []OneEndpointPerVerkey
<1>1. IInv => OneEndpointPerVerkey
  BY DEF IInv, RowsInv, OneEndpointPerVerkey
<1> QED
  BY <1>1, Invariance, PTL

\* No post writes an endpoint back from a copy that is older than the last
\* registration.
WritesBackFresh == \A c \in Clients : WriteBack(c) => ~got[c].aged

\* The endpoints are as registered, all of them.
AllStand ==
    \A u \in Uids :
        IF registered[u] = None THEN row[u] = None
        ELSE row[u] # None /\ row[u].verkey = registered[u]

\* Registrations are undone by one step only: post_to_device() that writes back
\* a copy from before the registration.  As long as none does, every
\* endpoint has the verkey that was registered last, whatever else overlaps.
THEOREM UndoneByAgedWriteBack == Spec /\ [][WritesBackFresh]_vars => []AllStand
<1> DEFINE Fine == undone = {}
<1>1. Init => Fine
  BY DEF Init
<1>2. Fine /\ IInv /\ [Next]_vars /\ [WritesBackFresh]_vars => Fine'
  <2> SUFFICES ASSUME undone = {}, IInv, [Next]_vars, [WritesBackFresh]_vars PROVE undone' = {}
    OBVIOUS
  <2>1. CASE UNCHANGED vars
    BY <2>1 DEF vars, history
  <2>2. CASE ~UNCHANGED vars
    <3>1. WritesBackFresh
      BY <2>2
    <3>2. ASSUME NEW c \in Clients, WriteBack(c) PROVE undone' = {}
      BY <3>1, <3>2 DEF WritesBackFresh, WriteBack
    <3>3. ASSUME NEW c \in Clients, Write(c) \/ Rewrite(c) PROVE undone' = {}
      BY <3>3 DEF Write, Rewrite, Store
    <3>4. ASSUME NEW c \in Clients,
                 \/ LoadHit(c) \/ LoadRead(c) \/ Fill(c) \/ Push(c) \/ Reselect(c)
                 \/ Register(c) \/ Confirm(c) \/ Listen(c) \/ Close(c)
          PROVE  undone' = {}
      BY <3>4 DEF LoadHit, LoadRead, Fill, Push, Reselect, Register, Confirm, Listen, Close, history
    <3>5. ASSUME NEW c \in Clients, NEW u \in Uids, NEW v,
                 Post(c, u) \/ Attach(c, u) \/ Connect(c, u, v)
          PROVE  undone' = {}
      BY <3>5 DEF Post, Attach, Connect, Start, history
    <3>6. ASSUME NEW s \in Servers, Break(s) \/ Repair(s) PROVE undone' = {}
      BY <3>6 DEF Break, Repair, history
    <3>7. ASSUME NEW u \in Uids, Expire(u) PROVE undone' = {}
      BY <3>7 DEF Expire, history
    <3>8. \A e \in Enrolments : e[1] \in Uids
      BY FailoverAssumption
    <3>9. Posted \subseteq Uids
      BY FailoverAssumption
    <3> QED
      BY <2>2, <3>2, <3>3, <3>4, <3>5, <3>6, <3>7, <3>8, <3>9 DEF Next, Work
  <2> QED
    BY <2>1, <2>2
<1>3. IInv /\ Fine => AllStand
  BY DEF IInv, RegistrationsStand, AllStand
<1> HIDE DEF Fine
<1>4. Spec /\ [][WritesBackFresh]_vars => []Fine
  BY <1>1, <1>2, Invariance, PTL DEF Spec
<1> QED
  BY <1>3, <1>4, Invariance, PTL
=============================================================================
