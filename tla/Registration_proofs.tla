------------------------ MODULE Registration_proofs -------------------------
(***************************************************************************)
(* What the mediator stores of a device, for any workers, devices, DIDs    *)
(* and number of requests.                                                 *)
(***************************************************************************)
EXTENDS Registration, TLAPS

Busy(c) == offer[c] # None
Late == {"load", "fill", "compare", "agent", "reload", "refill", "endpoint"}

\* Requests with a DID or a verkey in common race.
Unique ==
    \A c, e \in Sessions :
        c # e /\ Busy(c) /\ Busy(e) /\ (offer[c].did = offer[e].did \/ offer[c].verkey = offer[e].verkey)
          => offer[c].did \in raced

\* A worker remembers what is stored, unless that is outdated or about to be
\* remembered.
KnownInv ==
    \A w \in Workers, d \in Dids \ raced :
        known[w][d] # None /\ <<w, d>> \notin outdated
          => \/ known[w][d] = pairwises[d]
             \/ \E c \in Sessions : pc[c] = "remember" /\ worker[c] = w /\ offer[c].did = d

Agreed(d) == \A w \in Workers : <<w, d>> \notin outdated

\* The pairwise is what a request that has stored it, or found it, registers.
PairwiseInv ==
    \A c \in Sessions :
        Busy(c) /\ offer[c].did \notin raced =>
          /\ pc[c] = "remember" => pairwises[offer[c].did] = Metadata(offer[c])
          /\ pc[c] \in Late /\ Agreed(offer[c].did) => pairwises[offer[c].did] = Metadata(offer[c])

\* And what the last registration stored.
DoneInv ==
    \A d \in Dids \ raced :
        done[d] # None =>
          /\ \A c \in Sessions : Busy(c) => offer[c].did # d
          /\ Agreed(d) => pairwises[d] = Metadata(done[d])

\* What x tells of the agent of d, but for the verkey, is stored.
Tells(x, d) == agents[d] # None /\ x.id = agents[d].id /\ x.fcm = agents[d].fcm

CopyInv == \A d \in Dids \ (raced \cup hidden) : copy[d] # None => Tells(copy[d], d)

\* What request c for d knows of the agent.
GotOk(c, d) ==
    /\ pc[c] \in {"fill", "compare", "refill", "endpoint"} /\ got[c] # None /\ d \notin hidden
         => Tells(got[c], d)
    /\ pc[c] = "agent" /\ d \notin hidden => copy[d] = None
    /\ pc[c] = "endpoint" /\ got[c] # None => copy[d] \in {None, got[c]}
    /\ pc[c] \in {"reload", "refill", "endpoint"} /\ offer[c].fcm # None =>
         /\ d \in torn
         /\ agents[d] # None => agents[d].fcm \in {None, offer[c].fcm}

GotInv ==
    \A c \in Sessions : Busy(c) /\ offer[c].did \notin raced => GotOk(c, offer[c].did)

\* The endpoint has the agent's device id, once there is one.
SyncInv ==
    \A d \in Dids \ (raced \cup hidden \cup torn \cup restored) :
        agents[d] # None /\ agents[d].fcm # None =>
          /\ endpoints[d] # None
          /\ endpoints[d].fcm = agents[d].fcm
          /\ endpoints[d].agent = agents[d].id

\* pc "fill" and "refill" have an agent to fill.
FillInv == \A c \in Sessions : pc[c] \in {"fill", "refill"} => got[c] # None

PairwisesInv == Unique /\ KnownInv /\ PairwiseInv /\ DoneInv
AgentsInv == CopyInv /\ GotInv /\ SyncInv /\ ReachableAsRegistered
IInv == TypeOK /\ FillInv /\ PairwisesInv /\ AgentsInv

-----------------------------------------------------------------------------
LEMMA Absent ==
    /\ None \notin Workers /\ None \notin Verkeys /\ None \notin Devices /\ None \notin Offers
    /\ None \notin Agents /\ None \notin Endpoints /\ None \notin Ids /\ None \notin Metadatas
    /\ \A o \in Offers : o.did \in Dids /\ o.verkey \in Verkeys /\ o.fcm \in Devices \cup {None}
                         /\ Metadata(o) \in Metadatas
BY RegistrationAssumption DEF Offer, Ids, Metadata, Metadatas

LEMMA InitIInv == Init => IInv
<1> SUFFICES ASSUME Init PROVE IInv
  OBVIOUS
<1> USE RegistrationAssumption DEF Init
<1>1. TypeOK /\ FillInv
  BY DEF TypeOK, FillInv, Places, Ids
<1>2. PairwisesInv
  BY DEF PairwisesInv, Unique, KnownInv, PairwiseInv, DoneInv, Busy
<1>3. AgentsInv
  BY DEF AgentsInv, CopyInv, GotInv, SyncInv, ReachableAsRegistered, Busy
<1> QED
  BY <1>1, <1>2, <1>3 DEF IInv

\* The offer of a request.
LEMMA Offered ==
    ASSUME TypeOK, NEW c \in Sessions, pc[c] # "idle"
    PROVE  /\ offer[c] \in Offers /\ Busy(c) /\ worker[c] \in Workers
           /\ offer[c].did \in Dids /\ offer[c].verkey \in Verkeys
           /\ offer[c].fcm \in Devices \cup {None}
BY Absent DEF TypeOK, Busy

\* A request whose DID is not raced is alone with it, and with its verkey.
LEMMA Alone ==
    ASSUME IInv, NEW c \in Sessions, NEW e \in Sessions, c # e, Busy(c), Busy(e),
           offer[c].did \notin raced \/ offer[e].did \notin raced
    PROVE  offer[c].did # offer[e].did /\ offer[c].verkey # offer[e].verkey
BY DEF IInv, PairwisesInv, Unique

-----------------------------------------------------------------------------
(* Pairwises *)

\* Steps that write no pairwise and complete no registration.
LEMMA PairwisesKept ==
    ASSUME IInv, UNCHANGED <<pairwises, known, raced, outdated>>,
           \A e \in Sessions :
             /\ offer'[e] \in {offer[e], None}
             /\ offer'[e] # None => worker'[e] = worker[e]
             /\ pc'[e] = "remember" <=> pc[e] = "remember"
             /\ pc[e] = "remember" => offer'[e] = offer[e] /\ worker'[e] = worker[e]
             /\ offer'[e] # None /\ pc'[e] \in Late =>
                  pc[e] \in Late \/ (Agreed(offer[e].did) /\ offer[e].did \notin raced =>
                                       pairwises[offer[e].did] = Metadata(offer[e])),
           \A d \in Dids : done'[d] \in {done[d], None}
    PROVE  PairwisesInv'
<1>1. Unique'
  BY DEF IInv, PairwisesInv, Unique, Busy
<1>2. KnownInv'
  BY DEF IInv, PairwisesInv, KnownInv
<1>3. PairwiseInv'
  BY DEF IInv, PairwisesInv, PairwiseInv, Busy, Agreed
<1>4. DoneInv'
  BY DEF IInv, PairwisesInv, DoneInv, Busy, Agreed
<1> QED
  BY <1>1, <1>2, <1>3, <1>4 DEF PairwisesInv

\* A registration is completed: nothing of its DID is in progress.
LEMMA PairwisesCompleted ==
    ASSUME IInv, NEW c \in Sessions, pc[c] \in Late, Return({c}),
           UNCHANGED <<pairwises, known, raced, outdated>>,
           done'[offer[c].did] = offer[c],
           \A d \in Dids \ {offer[c].did} : done'[d] \in {done[d], None}
    PROVE  PairwisesInv'
<1>1. /\ offer' = [e \in Sessions |-> IF e = c THEN None ELSE offer[e]]
      /\ pc' = [e \in Sessions |-> IF e = c THEN "idle" ELSE pc[e]]
      /\ worker' = [e \in Sessions |-> IF e = c THEN None ELSE worker[e]]
  BY DEF Return
<1>2. Busy(c) /\ offer[c].did \in Dids
  BY Offered DEF IInv, Late
<1>3. Unique' /\ PairwiseInv'
  BY <1>1 DEF IInv, PairwisesInv, Unique, PairwiseInv, Busy, Agreed
<1>4. KnownInv'
  BY <1>1 DEF IInv, PairwisesInv, KnownInv, Late
<1>5. DoneInv'
  <2>1. ASSUME NEW d \in Dids \ raced, done'[d] # None, d # offer[c].did
        PROVE  /\ \A e \in Sessions : offer'[e] # None => offer'[e].did # d
               /\ Agreed(d) => pairwises[d] = Metadata(done'[d])
    BY <1>1, <2>1 DEF IInv, PairwisesInv, DoneInv, Busy
  <2>2. ASSUME offer[c].did \notin raced
        PROVE  /\ \A e \in Sessions : offer'[e] # None => offer'[e].did # offer[c].did
               /\ Agreed(offer[c].did) => pairwises[offer[c].did] = Metadata(offer[c])
    BY <1>1, <1>2, <2>2, Alone DEF IInv, PairwisesInv, PairwiseInv, Busy
  <2> QED
    BY <2>1, <2>2 DEF DoneInv, Busy, Agreed
<1> QED
  BY <1>3, <1>4, <1>5 DEF PairwisesInv

\* A pairwise is written.
LEMMA PairwisesWritten ==
    ASSUME IInv, NEW c \in Sessions, pc[c] \in {"insert", "update"}, WritePairwise(c),
           UNCHANGED <<known, raced, done>>
    PROVE  PairwisesInv'
<1> DEFINE d == offer[c].did
           m == Metadata(offer[c])
<1>1. Busy(c) /\ d \in Dids /\ worker[c] \in Workers
  BY Offered DEF IInv
<1>2. /\ pairwises' = [pairwises EXCEPT ![d] = m]
      /\ outdated' = outdated \cup {<<w, d>> : w \in
              {x \in Workers \ {worker[c]} : known[x][d] \notin {None, m}}}
      /\ pc' = [pc EXCEPT ![c] = "remember"]
      /\ UNCHANGED <<worker, offer>>
  BY DEF WritePairwise, Goto
<1>3. pairwises'[d] = m /\ \A e \in Dids \ {d} : pairwises'[e] = pairwises[e]
  BY <1>1, <1>2 DEF IInv, TypeOK
<1>4. pc'[c] = "remember" /\ \A e \in Sessions \ {c} : pc'[e] = pc[e]
  BY <1>2 DEF IInv, TypeOK
<1>5. outdated \subseteq outdated'
  BY <1>2
<1>6. \A e \in Sessions \ {c} : Busy(e) /\ offer[e].did \notin raced => offer[e].did # d
  BY <1>1, Alone
<1>7. Unique'
  BY <1>2 DEF IInv, PairwisesInv, Unique, Busy
<1>8. KnownInv'
  <2> SUFFICES ASSUME NEW w \in Workers, NEW x \in Dids \ raced, known[w][x] # None,
                      <<w, x>> \notin outdated', known[w][x] # pairwises'[x]
               PROVE  \E e \in Sessions : pc'[e] = "remember" /\ worker[e] = w /\ offer[e].did = x
    BY <1>2 DEF KnownInv
  <2>1. CASE x = d
    <3>1. w = worker[c]
      BY <1>2, <1>3, <2>1
    <3> QED
      BY <1>4, <2>1, <3>1
  <2>2. CASE x # d
    BY <1>3, <1>4, <1>5, <2>2 DEF IInv, PairwisesInv, KnownInv
  <2> QED
    BY <2>1, <2>2
<1>9. PairwiseInv'
  <2>1. ASSUME NEW e \in Sessions \ {c}, Busy(e), offer[e].did \notin raced
        PROVE  /\ pc'[e] = "remember" => pairwises'[offer[e].did] = Metadata(offer[e])
               /\ pc'[e] \in Late /\ Agreed(offer[e].did)' => pairwises'[offer[e].did] = Metadata(offer[e])
    <3>1. offer[e].did \in Dids \ {d}
      BY <1>6, <2>1, Absent DEF IInv, TypeOK, Busy
    <3> QED
      BY <1>2, <1>3, <1>4, <1>5, <2>1, <3>1 DEF IInv, PairwisesInv, PairwiseInv, Agreed
  <2> QED
    BY <1>2, <1>3, <1>4, <2>1 DEF PairwiseInv, Busy, Agreed, Late
<1>10. DoneInv'
  <2>1. done[d] # None => d \in raced
    BY <1>1 DEF IInv, PairwisesInv, DoneInv
  <2> QED
    BY <1>2, <1>3, <1>5, <2>1 DEF IInv, PairwisesInv, DoneInv, Busy, Agreed
<1> QED
  BY <1>7, <1>8, <1>9, <1>10 DEF PairwisesInv

\* The worker remembers what it has stored.
LEMMA PairwisesRemembered ==
    ASSUME IInv, NEW c \in Sessions, Remember(c)
    PROVE  PairwisesInv'
<1> DEFINE d == offer[c].did
           m == Metadata(offer[c])
           w == worker[c]
<1>1. Busy(c) /\ d \in Dids /\ w \in Workers /\ pc[c] = "remember"
  BY Offered DEF Remember, IInv
<1>2. /\ known' = [known EXCEPT ![w][d] = m]
      /\ outdated' = IF pairwises[d] = m THEN outdated \ {<<w, d>>} ELSE outdated
      /\ UNCHANGED <<pairwises, raced, done>>
  BY DEF Remember, tables
<1>3. /\ known'[w][d] = m
      /\ \A x \in Workers, e \in Dids : <<x, e>> # <<w, d>> => known'[x][e] = known[x][e]
  BY <1>1, <1>2 DEF IInv, TypeOK
<1>4. /\ pc'[c] \in {"idle", "load"} /\ \A e \in Sessions \ {c} : pc'[e] = pc[e]
      /\ offer'[c] \in {offer[c], None} /\ \A e \in Sessions \ {c} : offer'[e] = offer[e]
      /\ \A e \in Sessions \ {c} : worker'[e] = worker[e]
  BY DEF Remember, Stored, Return, Goto, IInv, TypeOK
<1>5. \A e \in Dids \ {d} : Agreed(e)' <=> Agreed(e)
  BY <1>2 DEF Agreed
<1>6. d \notin raced => pairwises[d] = m
  BY <1>1 DEF IInv, PairwisesInv, PairwiseInv
<1>7. \A e \in Sessions \ {c} : Busy(e) /\ offer[e].did \notin raced => offer[e].did # d
  BY <1>1, Alone
<1>8. Unique'
  BY <1>2, <1>4 DEF IInv, PairwisesInv, Unique, Busy
<1>9. KnownInv'
  <2> SUFFICES ASSUME NEW x \in Workers, NEW e \in Dids \ raced, known'[x][e] # None,
                      <<x, e>> \notin outdated', known'[x][e] # pairwises[e]
               PROVE  \E b \in Sessions : pc'[b] = "remember" /\ worker'[b] = x /\ offer'[b].did = e
    BY <1>2 DEF KnownInv
  <2>1. <<x, e>> # <<w, d>>
    BY <1>3, <1>6
  <2>2. known[x][e] # None /\ <<x, e>> \notin outdated /\ known[x][e] # pairwises[e]
    BY <1>2, <1>3, <2>1
  <2>3. PICK b \in Sessions : pc[b] = "remember" /\ worker[b] = x /\ offer[b].did = e
    BY <2>2 DEF IInv, PairwisesInv, KnownInv
  <2>4. b # c
    BY <2>1, <2>3
  <2> QED
    BY <1>4, <2>3, <2>4
<1>10. PairwiseInv'
  <2>1. ASSUME NEW e \in Sessions \ {c}, Busy(e), offer[e].did \notin raced
        PROVE  /\ pc'[e] = "remember" => pairwises[offer[e].did] = Metadata(offer[e])
               /\ pc'[e] \in Late /\ Agreed(offer[e].did)' => pairwises[offer[e].did] = Metadata(offer[e])
    <3>1. offer[e].did \in Dids \ {d}
      BY <1>7, <2>1, Absent DEF IInv, TypeOK, Busy
    <3> QED
      BY <1>4, <1>5, <2>1, <3>1 DEF IInv, PairwisesInv, PairwiseInv
  <2> QED
    BY <1>2, <1>4, <1>6, <2>1 DEF PairwiseInv, Busy, Agreed
<1>11. DoneInv'
  <2>1. done[d] # None => d \in raced
    BY <1>1 DEF IInv, PairwisesInv, DoneInv
  <2> QED
    BY <1>2, <1>4, <1>5, <2>1 DEF IInv, PairwisesInv, DoneInv, Busy, Agreed
<1> QED
  BY <1>8, <1>9, <1>10, <1>11 DEF PairwisesInv

LEMMA PairwisesCrash ==
    ASSUME IInv, NEW w \in Workers, Crash(w)
    PROVE  PairwisesInv'
<1> DEFINE cs == {c \in Sessions : worker[c] = w}
<1>1. /\ known' = [known EXCEPT ![w] = [d \in Dids |-> None]]
      /\ pc' = [c \in Sessions |-> IF c \in cs THEN "idle" ELSE pc[c]]
      /\ worker' = [c \in Sessions |-> IF c \in cs THEN None ELSE worker[c]]
      /\ offer' = [c \in Sessions |-> IF c \in cs THEN None ELSE offer[c]]
      /\ UNCHANGED <<pairwises, raced, done, outdated>>
  BY DEF Crash, Return, tables, history
<1>2. \A x \in Workers, d \in Dids : known'[x][d] = IF x = w THEN None ELSE known[x][d]
  BY <1>1 DEF IInv, TypeOK
<1>3. Unique' /\ PairwiseInv' /\ DoneInv'
  BY <1>1 DEF IInv, PairwisesInv, Unique, PairwiseInv, DoneInv, Busy, Agreed
<1>4. KnownInv'
  BY <1>1, <1>2 DEF IInv, PairwisesInv, KnownInv
<1> QED
  BY <1>3, <1>4 DEF PairwisesInv

LEMMA PairwisesBegin ==
    ASSUME IInv, NEW c \in Sessions, NEW w \in Workers, NEW o \in Offers, Begin(c, w, o)
    PROVE  PairwisesInv'
<1>1. /\ pc[c] = "idle" /\ \E l \in {"store", "exists"} : pc' = [pc EXCEPT ![c] = l]
      /\ worker' = [worker EXCEPT ![c] = w] /\ offer' = [offer EXCEPT ![c] = o]
      /\ done' = Forget(Losers(endpoints, o.did, o.verkey) \cup {o.did})
      /\ raced' = IF Overlaps(o) = {} THEN raced
                  ELSE raced \cup {o.did} \cup {p.did : p \in Overlaps(o)}
      /\ UNCHANGED <<pairwises, known, outdated>>
  BY DEF Begin, Goto
<1>2. /\ offer[c] = None /\ offer'[c] = o /\ o # None
      /\ pc'[c] \in {"store", "exists"}
      /\ \A e \in Sessions \ {c} : offer'[e] = offer[e] /\ pc'[e] = pc[e] /\ worker'[e] = worker[e]
  BY <1>1, Absent DEF IInv, TypeOK
<1>3. raced \subseteq raced'
  BY <1>1
<1>4. ASSUME NEW e \in Sessions \ {c}, Busy(e), offer[e].did = o.did \/ offer[e].verkey = o.verkey
      PROVE  o.did \in raced' /\ offer[e].did \in raced'
  <2>1. offer[e] \in Overlaps(o)
    BY <1>4 DEF Overlaps, Busy
  <2> QED
    BY <1>1, <2>1
<1>5. Unique'
  BY <1>2, <1>3, <1>4 DEF IInv, PairwisesInv, Unique, Busy
<1>6. KnownInv'
  BY <1>1, <1>2, <1>3 DEF IInv, PairwisesInv, KnownInv
<1>7. PairwiseInv'
  BY <1>1, <1>2, <1>3 DEF IInv, PairwisesInv, PairwiseInv, Busy, Agreed, Late
<1>8. DoneInv'
  BY <1>1, <1>2, <1>3, Absent DEF IInv, PairwisesInv, DoneInv, Busy, Agreed, Forget
<1> QED
  BY <1>5, <1>6, <1>7, <1>8 DEF PairwisesInv

-----------------------------------------------------------------------------
(* Agents and endpoints *)

\* Steps that leave the tables alone.
LEMMA AgentsKept ==
    ASSUME IInv, UNCHANGED <<agents, endpoints, torn, restored, raced>>, hidden \subseteq hidden',
           \A d \in Dids : copy'[d] \in {copy[d], None},
           \A d \in Dids : done'[d] \in {done[d], None},
           \A e \in Sessions : offer'[e] # None =>
             /\ offer'[e] = offer[e]
             /\ \/ pc'[e] = pc[e] /\ got'[e] = got[e]
                \/ pc'[e] \in {"exists", "create", "insert", "update", "remember", "load"}
                \/ pc'[e] = "agent" /\ (copy'[offer[e].did] = None \/ offer[e].did \in hidden')
    PROVE  AgentsInv'
<1>1. CopyInv' /\ SyncInv' /\ ReachableAsRegistered'
  BY DEF IInv, AgentsInv, CopyInv, SyncInv, ReachableAsRegistered, Tells
<1>2. GotInv'
  <2> SUFFICES ASSUME NEW e \in Sessions, offer'[e] # None, offer[e].did \notin raced
               PROVE  GotOk(e, offer[e].did)'
    BY DEF GotInv, Busy
  <2>0. offer'[e] = offer[e] /\ offer[e].did \in Dids
    BY Absent DEF IInv, TypeOK
  <2>1. GotOk(e, offer[e].did)
    BY <2>0 DEF IInv, AgentsInv, GotInv, Busy
  <2> QED
    BY <2>0, <2>1 DEF GotOk, Tells
<1> QED
  BY <1>1, <1>2 DEF AgentsInv

\* Request c loads an agent, and may fill the copy of its DID.
LEMMA AgentsLoaded ==
    ASSUME IInv, NEW c \in Sessions, Busy(c),
           UNCHANGED <<agents, endpoints, torn, restored, raced, hidden, done, offer>>,
           \A e \in Sessions \ {c} : pc'[e] = pc[e] /\ got'[e] = got[e],
           \A d \in Dids \ {offer[c].did} : copy'[d] = copy[d],
           offer[c].did \notin raced \cup hidden /\ copy'[offer[c].did] # None
             => Tells(copy'[offer[c].did], offer[c].did),
           offer[c].did \notin raced => GotOk(c, offer[c].did)'
    PROVE  AgentsInv'
<1> DEFINE d == offer[c].did
<1>1. SyncInv' /\ ReachableAsRegistered'
  BY DEF IInv, AgentsInv, SyncInv, ReachableAsRegistered
<1>2. CopyInv'
  BY DEF IInv, AgentsInv, CopyInv, Tells
<1>3. GotInv'
  <2> SUFFICES ASSUME NEW e \in Sessions \ {c}, Busy(e), offer[e].did \notin raced
               PROVE  GotOk(e, offer[e].did)'
    BY DEF GotInv, Busy
  <2>1. offer[e].did \in Dids \ {d}
    BY Alone, Absent DEF IInv, TypeOK, Busy
  <2>2. GotOk(e, offer[e].did)
    BY DEF IInv, AgentsInv, GotInv
  <2> QED
    BY <2>1, <2>2 DEF GotOk, Tells
<1> QED
  BY <1>1, <1>2, <1>3 DEF AgentsInv

LEMMA LoadHitAgents ==
    ASSUME IInv, NEW c \in Sessions, LoadHit(c)
    PROVE  AgentsInv'
<1> DEFINE d == offer[c].did
<1>1. /\ pc[c] \in {"load", "reload"} /\ Busy(c) /\ d \in Dids
      /\ copy[d] # None /\ got' = [got EXCEPT ![c] = copy[d]]
      /\ pc' = [pc EXCEPT ![c] = IF pc[c] = "load" THEN "compare" ELSE "endpoint"]
      /\ UNCHANGED <<agents, endpoints, copy, torn, restored, raced, hidden, done, offer>>
  BY Offered DEF LoadHit, Loaded, Goto, tables, history, IInv
<1>2. got'[c] = copy[d] /\ pc'[c] = IF pc[c] = "load" THEN "compare" ELSE "endpoint"
  BY <1>1 DEF IInv, TypeOK
<1>3. ASSUME d \notin raced PROVE GotOk(c, d)'
  <2>1. GotOk(c, d) /\ (d \notin hidden => Tells(copy[d], d))
    BY <1>1, <1>3 DEF IInv, AgentsInv, GotInv, CopyInv
  <2> QED
    BY <1>1, <1>2, <2>1 DEF GotOk, Tells
<1>4. d \notin raced \cup hidden => Tells(copy'[d], d)
  BY <1>1 DEF IInv, AgentsInv, CopyInv
<1> QED
  BY <1>1, <1>3, <1>4, AgentsLoaded DEF IInv, TypeOK

LEMMA LoadReadAgents ==
    ASSUME IInv, NEW c \in Sessions, LoadRead(c)
    PROVE  AgentsInv'
<1> DEFINE d == offer[c].did
<1>1. /\ pc[c] \in {"load", "reload"} /\ Busy(c) /\ d \in Dids
      /\ got' = [got EXCEPT ![c] = agents[d]]
      /\ UNCHANGED <<agents, endpoints, copy, torn, restored, raced, hidden, done, offer>>
  BY Offered DEF LoadRead, tables, history, IInv
<1>2. PICK l : /\ pc' = [pc EXCEPT ![c] = l]
               /\ l = IF agents[d] = None THEN IF pc[c] = "load" THEN "compare" ELSE "endpoint"
                      ELSE IF pc[c] = "load" THEN "fill" ELSE "refill"
  BY <1>1 DEF LoadRead, Loaded, Goto
<1>3. got'[c] = agents[d] /\ pc'[c] = l
  BY <1>1, <1>2 DEF IInv, TypeOK
<1>4. ASSUME d \notin raced PROVE GotOk(c, d)'
  <2>1. GotOk(c, d)
    BY <1>1, <1>4 DEF IInv, AgentsInv, GotInv
  <2> QED
    BY <1>1, <1>2, <1>3, <2>1 DEF GotOk, Tells
<1>5. d \notin raced \cup hidden /\ copy'[d] # None => Tells(copy'[d], d)
  BY <1>1 DEF IInv, AgentsInv, CopyInv
<1> QED
  BY <1>1, <1>2, <1>4, <1>5, AgentsLoaded DEF IInv, TypeOK

LEMMA FillAgents ==
    ASSUME IInv, NEW c \in Sessions, Fill(c)
    PROVE  AgentsInv'
<1> DEFINE d == offer[c].did
<1>1. /\ pc[c] \in {"fill", "refill"} /\ Busy(c) /\ d \in Dids
      /\ copy' = [copy EXCEPT ![d] = got[c]] /\ got[c] # None
      /\ pc' = [pc EXCEPT ![c] = IF pc[c] = "fill" THEN "compare" ELSE "endpoint"]
      /\ UNCHANGED <<agents, endpoints, got, torn, restored, raced, hidden, done, offer>>
  BY Offered DEF Fill, Loaded, Goto, tables, history, IInv, FillInv
<1>2. copy'[d] = got[c] /\ pc'[c] = IF pc[c] = "fill" THEN "compare" ELSE "endpoint"
  BY <1>1 DEF IInv, TypeOK
<1>3. ASSUME d \notin raced PROVE GotOk(c, d) /\ GotOk(c, d)'
  <2>1. GotOk(c, d)
    BY <1>1, <1>3 DEF IInv, AgentsInv, GotInv
  <2> QED
    BY <1>1, <1>2, <2>1 DEF GotOk, Tells
<1>4. d \notin raced \cup hidden => Tells(copy'[d], d)
  BY <1>1, <1>2, <1>3 DEF GotOk
<1> QED
  BY <1>1, <1>3, <1>4, AgentsLoaded DEF IInv, TypeOK

\* The agents after a write: those who lose the verkey lose the row, the agent
\* of d keeps its id and its device id or gets a new id.
LEMMA AgentTable ==
    ASSUME IInv, NEW d \in Dids, NEW v \in Verkeys, NEW f \in Devices \cup {None},
           WriteAgents(d, v, f)
    PROVE  /\ agents' \in [Dids -> Agents \cup {None}] /\ nextId' \in Ids
           /\ hidden' \subseteq Dids /\ hidden \subseteq hidden'
           /\ agents'[d] # None
           /\ agents[d] = None => agents'[d].fcm = None
           /\ agents[d] # None => /\ agents'[d].id = agents[d].id
                                  /\ agents'[d].fcm = IF f = None THEN agents[d].fcm ELSE f
           /\ \A x \in Dids \ {d} : agents'[x] = agents[x] \/ (x \in hidden' /\ agents'[x] = None)
           /\ \A x \in Losers(agents, d, v) : x \in Dids \ {d} /\ x \in hidden'
           /\ \A x \in Dids \ {d} : agents'[x] # agents[x] => x \in Losers(agents, d, v)
<1>1. /\ agents' = AgentsAfter(d, v, f) /\ hidden' = hidden \cup Losers(agents, d, v)
      /\ nextId' = IF agents[d] = None THEN nextId + 1 ELSE nextId
  BY DEF WriteAgents
<1>2. Losers(agents, d, v) \subseteq Dids \ {d}
  BY DEF Losers
<1>3. nextId' \in Ids
  BY <1>1 DEF IInv, TypeOK, Ids
<1>4. \A x \in Dids \ {d} : agents'[x] = IF x \in Losers(agents, d, v) THEN None ELSE agents[x]
  BY <1>1 DEF AgentsAfter
<1>5. /\ agents'[d] \in Agents
      /\ agents[d] = None => agents'[d].fcm = None
      /\ agents[d] # None => /\ agents'[d].id = agents[d].id
                             /\ agents'[d].fcm = IF f = None THEN agents[d].fcm ELSE f
  <2>1. agents'[d] = IF agents[d] = None THEN [id |-> nextId, verkey |-> v, fcm |-> None]
                     ELSE [agents[d] EXCEPT !.verkey = v, !.fcm = IF f = None THEN @ ELSE f]
    BY <1>1, <1>2 DEF AgentsAfter
  <2>2. CASE agents[d] = None
    BY <2>1, <2>2 DEF Agents, IInv, TypeOK
  <2>3. CASE agents[d] # None
    <3>1. agents[d] \in Agents
      BY <2>3 DEF IInv, TypeOK
    <3> QED
      BY <2>1, <2>3, <3>1 DEF Agents
  <2> QED
    BY <2>2, <2>3
<1>6. agents' \in [Dids -> Agents \cup {None}]
  <2>1. DOMAIN agents' = Dids /\ agents' = [x \in Dids |-> agents'[x]]
    BY <1>1 DEF AgentsAfter
  <2>2. \A x \in Dids : agents'[x] \in Agents \cup {None}
    BY <1>4, <1>5 DEF IInv, TypeOK
  <2> QED
    BY <2>1, <2>2
<1> QED
  BY <1>1, <1>2, <1>3, <1>4, <1>5, <1>6, Absent DEF IInv, TypeOK

\* Request c writes the agent.
LEMMA AgentsWritten ==
    ASSUME IInv, NEW c \in Sessions, Busy(c), NEW f \in {None, offer[c].fcm},
           WriteAgents(offer[c].did, offer[c].verkey, f),
           done' = Forget(Losers(agents, offer[c].did, offer[c].verkey)),
           UNCHANGED <<endpoints, copy, raced, restored, offer, got>>, torn \subseteq torn',
           torn' \subseteq torn \cup {offer[c].did},
           \A e \in Sessions \ {c} : pc'[e] = pc[e],
           \/ f = None /\ pc'[c] \in {"exists", "insert"}
           \/ /\ f = offer[c].fcm /\ pc[c] = "agent" /\ pc'[c] = "reload"
              /\ f # None => offer[c].did \in torn'
    PROVE  AgentsInv'
<1> DEFINE d == offer[c].did
           v == offer[c].verkey
<1>1. d \in Dids /\ v \in Verkeys /\ f \in Devices \cup {None}
  BY Absent DEF IInv, TypeOK, Busy
<1>2. /\ hidden \subseteq hidden'
      /\ agents'[d] # None
      /\ agents[d] = None => agents'[d].fcm = None
      /\ agents[d] # None => /\ agents'[d].id = agents[d].id
                             /\ agents'[d].fcm = IF f = None THEN agents[d].fcm ELSE f
      /\ \A x \in Dids \ {d} : agents'[x] = agents[x] \/ (x \in hidden' /\ agents'[x] = None)
      /\ \A x \in Dids \ {d} : agents'[x] # agents[x] => x \in Losers(agents, d, v)
  BY <1>1, AgentTable
<1>3. /\ \A x \in Losers(agents, d, v) : done'[x] = None
      /\ \A x \in Dids : done'[x] \in {done[x], None}
      /\ Losers(agents, d, v) \subseteq Dids
  BY DEF Forget, Losers
<1>4. d \notin raced => GotOk(c, d) /\ done[d] = None
  BY <1>1 DEF IInv, AgentsInv, PairwisesInv, GotInv, DoneInv
<1>5. CopyInv'
  <2> SUFFICES ASSUME NEW x \in Dids \ (raced \cup hidden'), copy[x] # None
               PROVE  Tells(copy[x], x)'
    BY DEF CopyInv, Tells
  <2>1. Tells(copy[x], x)
    BY <1>2 DEF IInv, AgentsInv, CopyInv
  <2>2. CASE x # d
    BY <1>2, <2>1, <2>2 DEF Tells
  <2>3. CASE x = d
    <3>1. f = None
      BY <1>2, <1>4, <2>3 DEF GotOk
    <3> QED
      BY <1>2, <2>1, <2>3, <3>1 DEF Tells
  <2> QED
    BY <2>2, <2>3
<1>6. SyncInv'
  <2> SUFFICES ASSUME NEW x \in Dids \ (raced \cup hidden' \cup torn' \cup restored'),
                      agents'[x] # None, agents'[x].fcm # None
               PROVE  /\ endpoints[x] # None
                      /\ endpoints[x].fcm = agents'[x].fcm
                      /\ endpoints[x].agent = agents'[x].id
    BY DEF SyncInv
  <2>1. CASE x # d
    BY <1>2, <2>1 DEF IInv, AgentsInv, SyncInv
  <2>2. CASE x = d
    BY <1>2, <2>2 DEF IInv, AgentsInv, SyncInv
  <2> QED
    BY <2>1, <2>2
<1>7. ReachableAsRegistered'
  <2> SUFFICES ASSUME NEW x \in Dids \ (raced \cup torn' \cup restored' \cup hidden'),
                      done'[x] # None, done'[x].fcm # None
               PROVE  /\ endpoints[x] # None /\ agents'[x] # None
                      /\ endpoints[x].fcm = done'[x].fcm
                      /\ endpoints[x].agent = agents'[x].id
    BY DEF ReachableAsRegistered
  <2>1. x # d /\ x \notin Losers(agents, d, v) /\ done'[x] = done[x]
    BY <1>3, <1>4
  <2>2. agents'[x] = agents[x] /\ x \notin raced \cup torn \cup restored \cup hidden
    BY <1>2, <2>1
  <2> QED
    BY <2>1, <2>2 DEF IInv, AgentsInv, ReachableAsRegistered
<1>8. GotInv'
  <2>1. ASSUME d \notin raced PROVE GotOk(c, d)'
    BY <1>2 DEF GotOk
  <2>2. ASSUME NEW e \in Sessions \ {c}, Busy(e), offer[e].did \notin raced
        PROVE  GotOk(e, offer[e].did)'
    <3>1. offer[e].did \in Dids \ {d}
      BY <2>2, Alone, Absent DEF IInv, TypeOK, Busy
    <3>2. GotOk(e, offer[e].did)
      BY <2>2 DEF IInv, AgentsInv, GotInv
    <3> QED
      BY <1>2, <3>1, <3>2 DEF GotOk, Tells
  <2> QED
    BY <2>1, <2>2 DEF GotInv, Busy
<1> QED
  BY <1>5, <1>6, <1>7, <1>8 DEF AgentsInv

\* Nothing is to do: what is stored agrees with what was loaded.
LEMMA SameAgents ==
    ASSUME IInv, NEW c \in Sessions, pc[c] = "compare", Return({c}), Completed(c),
           got[c] # None, got[c].fcm = offer[c].fcm,
           UNCHANGED <<agents, endpoints, copy, torn, restored, raced, hidden>>
    PROVE  AgentsInv'
<1> DEFINE d == offer[c].did
<1>1. Busy(c) /\ d \in Dids
  BY Offered DEF IInv
<1>2. /\ offer' = [e \in Sessions |-> IF e = c THEN None ELSE offer[e]]
      /\ pc' = [e \in Sessions |-> IF e = c THEN "idle" ELSE pc[e]]
      /\ got' = [e \in Sessions |-> IF e = c THEN None ELSE got[e]]
      /\ done' = [done EXCEPT ![d] = offer[c]]
  BY DEF Return, Completed
<1>3. CopyInv' /\ SyncInv'
  BY DEF IInv, AgentsInv, CopyInv, SyncInv, Tells
<1>4. GotInv'
  BY <1>2 DEF IInv, AgentsInv, GotInv, GotOk, Tells, Busy
<1>5. ReachableAsRegistered'
  <2>1. ASSUME d \notin raced \cup torn \cup restored \cup hidden, offer[c].fcm # None
        PROVE  /\ endpoints[d] # None /\ agents[d] # None
               /\ endpoints[d].fcm = offer[c].fcm
               /\ endpoints[d].agent = agents[d].id
    <3>1. Tells(got[c], d)
      BY <1>1, <2>1 DEF IInv, AgentsInv, GotInv, GotOk
    <3> QED
      BY <1>1, <2>1, <3>1 DEF IInv, AgentsInv, SyncInv, Tells
  <2>2. done'[d] = offer[c] /\ \A x \in Dids \ {d} : done'[x] = done[x]
    BY <1>1, <1>2 DEF IInv, TypeOK
  <2> QED
    BY <2>1, <2>2 DEF IInv, AgentsInv, ReachableAsRegistered
<1> QED
  BY <1>3, <1>4, <1>5 DEF AgentsInv

\* The endpoints after a write: those who lose the verkey lose the row.
LEMMA EndpointTable ==
    ASSUME IInv, NEW d \in Dids, NEW v \in Verkeys, NEW a \in Ids \cup {None},
           NEW f \in Devices \cup {None}
    PROVE  LET t == EndpointsAfter(d, v, a, f) IN
           /\ t \in [Dids -> Endpoints \cup {None}]
           /\ t[d] # None
           /\ f # None => t[d].fcm = f
           /\ a # None => t[d].agent = a
           /\ endpoints[d] # None => /\ f = None => t[d].fcm = endpoints[d].fcm
                                     /\ a = None => t[d].agent = endpoints[d].agent
           /\ \A x \in Dids \ {d} : t[x] = IF x \in Losers(endpoints, d, v) THEN None ELSE endpoints[x]
           /\ Losers(endpoints, d, v) \subseteq Dids \ {d}
<1> DEFINE t == EndpointsAfter(d, v, a, f)
           y == IF endpoints[d] = None THEN [verkey |-> v, agent |-> a, fcm |-> f]
                ELSE [verkey |-> v,
                      agent |-> IF a = None THEN endpoints[d].agent ELSE a,
                      fcm |-> IF f = None THEN endpoints[d].fcm ELSE f]
<1>1. Losers(endpoints, d, v) \subseteq Dids \ {d}
  BY DEF Losers
<1>2. t = [x \in Dids |-> IF x \in Losers(endpoints, d, v) THEN None
                          ELSE IF x # d THEN endpoints[x] ELSE y]
  BY DEF EndpointsAfter
<1>3. y \in Endpoints
  <2>1. CASE endpoints[d] = None
    BY <2>1 DEF Endpoints
  <2>2. CASE endpoints[d] # None
    <3>1. endpoints[d] \in Endpoints
      BY <2>2 DEF IInv, TypeOK
    <3> QED
      BY <2>2, <3>1 DEF Endpoints
  <2> QED
    BY <2>1, <2>2
<1>4. /\ f # None => y.fcm = f
      /\ a # None => y.agent = a
      /\ endpoints[d] # None => /\ f = None => y.fcm = endpoints[d].fcm
                                /\ a = None => y.agent = endpoints[d].agent
  OBVIOUS
<1> HIDE DEF t, y
<1>5. t[d] = y
  BY <1>1, <1>2
<1>6. t \in [Dids -> Endpoints \cup {None}]
  BY <1>2, <1>3 DEF IInv, TypeOK
<1> QED
  BY <1>1, <1>2, <1>3, <1>4, <1>5, <1>6, Absent DEF t

LEMMA WriteEndpointAgents ==
    ASSUME IInv, NEW c \in Sessions, pc[c] = "endpoint", got[c] # None,
           Return({c}), StoreEndpoint(offer[c], got[c], offer[c].fcm),
           UNCHANGED <<agents, copy, raced>>
    PROVE  AgentsInv'
<1> DEFINE o == offer[c]
           d == o.did
           ls == Losers(endpoints, d, o.verkey)
<1>1. Busy(c) /\ o \in Offers /\ d \in Dids /\ o.verkey \in Verkeys /\ o.fcm \in Devices \cup {None}
  BY Offered DEF IInv
<1>2. got[c] \in Agents /\ got[c].id \in Ids
  BY DEF IInv, TypeOK, Agents
<1>3. /\ endpoints' = EndpointsAfter(d, o.verkey, got[c].id, o.fcm)
      /\ done' = [Forget(ls) EXCEPT ![d] = o]
      /\ torn' = IF o.fcm = None THEN torn ELSE torn \ {d}
      /\ restored' = IF o.fcm = None THEN restored ELSE restored \ {d}
      /\ hidden' = (hidden \cup ls) \ (IF o.fcm # None /\ got[c] = agents[d] THEN {d} ELSE {})
  BY DEF StoreEndpoint
<1>4. /\ endpoints'[d] # None /\ endpoints'[d].agent = got[c].id
      /\ o.fcm # None => endpoints'[d].fcm = o.fcm
      /\ endpoints[d] # None /\ o.fcm = None => endpoints'[d].fcm = endpoints[d].fcm
      /\ \A x \in Dids \ {d} : endpoints'[x] = IF x \in ls THEN None ELSE endpoints[x]
      /\ ls \subseteq Dids \ {d}
  <2> HIDE DEF ls
  <2> QED
    BY <1>1, <1>2, <1>3, EndpointTable, Absent DEF ls
<1>5. /\ done'[d] = o /\ \A x \in Dids \ {d} : done'[x] = IF x \in ls THEN None ELSE done[x]
      /\ \A x \in Dids \ {d} : x \in hidden' <=> x \in hidden \/ x \in ls
      /\ \A x \in Dids \ {d} : x \in torn' <=> x \in torn
      /\ \A x \in Dids \ {d} : x \in restored' <=> x \in restored
      /\ ~(o.fcm # None /\ got[c] = agents[d]) => (d \in hidden' <=> d \in hidden)
  <2> HIDE DEF ls
  <2> QED
    BY <1>1, <1>3, <1>4 DEF Forget
<1>6. /\ offer' = [e \in Sessions |-> IF e = c THEN None ELSE offer[e]]
      /\ pc' = [e \in Sessions |-> IF e = c THEN "idle" ELSE pc[e]]
      /\ got' = [e \in Sessions |-> IF e = c THEN None ELSE got[e]]
  BY DEF Return
<1>7. d \notin raced => GotOk(c, d)
  BY <1>1 DEF IInv, AgentsInv, GotInv
<1>8. d \notin raced \cup hidden' => Tells(got[c], d)
  <2>1. CASE o.fcm # None /\ got[c] = agents[d]
    BY <2>1 DEF Tells
  <2>2. CASE ~(o.fcm # None /\ got[c] = agents[d])
    BY <1>5, <1>7, <2>2 DEF GotOk
  <2> QED
    BY <2>1, <2>2
<1> HIDE DEF ls
<1>9. CopyInv'
  <2>1. ASSUME d \notin raced \cup hidden', copy[d] # None PROVE Tells(copy[d], d)
    BY <1>7, <1>8, <2>1 DEF GotOk
  <2>2. ASSUME NEW x \in Dids \ (raced \cup hidden'), copy[x] # None, x # d PROVE Tells(copy[x], x)
    BY <1>5, <2>2 DEF IInv, AgentsInv, CopyInv
  <2> QED
    BY <2>1, <2>2 DEF CopyInv, Tells
<1>10. SyncInv'
  <2>1. ASSUME d \notin raced \cup hidden' \cup torn' \cup restored', agents[d].fcm # None
        PROVE  endpoints'[d].fcm = agents[d].fcm /\ endpoints'[d].agent = agents[d].id
    <3>1. Tells(got[c], d)
      BY <1>8, <2>1
    <3>2. CASE o.fcm # None
      BY <1>4, <1>7, <2>1, <3>1, <3>2 DEF GotOk, Tells
    <3>3. CASE o.fcm = None
      <4>1. d \notin hidden \cup torn \cup restored
        BY <1>3, <1>5, <2>1, <3>3
      <4> QED
        BY <1>1, <1>4, <2>1, <3>1, <3>3, <4>1 DEF IInv, AgentsInv, SyncInv, Tells
    <3> QED
      BY <3>2, <3>3
  <2>2. ASSUME NEW x \in Dids \ (raced \cup hidden' \cup torn' \cup restored'), x # d, agents[x] # None,
               agents[x].fcm # None
        PROVE  endpoints'[x] # None /\ endpoints'[x].fcm = agents[x].fcm
               /\ endpoints'[x].agent = agents[x].id
    BY <1>4, <1>5, <2>2 DEF IInv, AgentsInv, SyncInv
  <2> QED
    BY <1>4, <2>1, <2>2 DEF SyncInv
<1>11. ReachableAsRegistered'
  <2>1. ASSUME d \notin raced \cup hidden' \cup torn' \cup restored', o.fcm # None
        PROVE  agents[d] # None /\ endpoints'[d].fcm = o.fcm /\ endpoints'[d].agent = agents[d].id
    BY <1>4, <1>8, <2>1 DEF Tells
  <2>2. ASSUME NEW x \in Dids \ (raced \cup hidden' \cup torn' \cup restored'), x # d, done'[x] # None, done'[x].fcm # None
        PROVE  /\ endpoints'[x] # None /\ agents[x] # None
               /\ endpoints'[x].fcm = done'[x].fcm /\ endpoints'[x].agent = agents[x].id
    BY <1>4, <1>5, <2>2 DEF IInv, AgentsInv, ReachableAsRegistered
  <2> QED
    BY <1>4, <1>5, <2>1, <2>2 DEF ReachableAsRegistered
<1>12. GotInv'
  <2>1. ASSUME NEW e \in Sessions \ {c}, Busy(e), offer[e].did \notin raced
        PROVE  GotOk(e, offer[e].did)'
    <3>1. offer[e].did \in Dids \ {d}
      BY <1>1, <2>1, Alone, Absent DEF IInv, TypeOK, Busy
    <3>2. GotOk(e, offer[e].did)
      BY <2>1 DEF IInv, AgentsInv, GotInv
    <3> QED
      BY <1>5, <1>6, <3>1, <3>2 DEF GotOk, Tells
  <2> QED
    BY <1>6, <2>1 DEF GotInv, Busy
<1> QED
  BY <1>9, <1>10, <1>11, <1>12 DEF AgentsInv

LEMMA BeginAgents ==
    ASSUME IInv, NEW c \in Sessions, NEW w \in Workers, NEW o \in Offers, Begin(c, w, o)
    PROVE  AgentsInv'
<1> DEFINE d == o.did
           ls == Losers(endpoints, d, o.verkey)
<1>1. /\ pc[c] = "idle" /\ \E l \in {"store", "exists"} : pc' = [pc EXCEPT ![c] = l]
      /\ offer' = [offer EXCEPT ![c] = o]
      /\ done' = Forget(ls \cup {d})
      /\ UNCHANGED <<agents, copy, got, torn, restored>>
  BY DEF Begin, Goto
<1>2. d \in Dids /\ o.verkey \in Verkeys /\ raced \subseteq raced' /\ hidden \subseteq hidden'
  BY Absent DEF Begin
<1>3. \A x \in Dids \ {d} : endpoints'[x] = endpoints[x] \/ (endpoints'[x] = None /\ x \in hidden' /\ x \in ls)
  <2>1. CASE UNCHANGED endpoints
    BY <2>1
  <2>2. CASE endpoints' = EndpointsAfter(d, o.verkey, None, None) /\ hidden' = hidden \cup ls
    <3>1. \A x \in Dids \ {d} : EndpointsAfter(d, o.verkey, None, None)[x] =
                                 IF x \in Losers(endpoints, d, o.verkey) THEN None ELSE endpoints[x]
      BY <1>2, EndpointTable
    <3> QED
      BY <2>2, <3>1
  <2> QED
    BY <2>1, <2>2 DEF Begin
<1>4. endpoints[d] # None => /\ endpoints'[d] # None
                             /\ endpoints'[d].fcm = endpoints[d].fcm
                             /\ endpoints'[d].agent = endpoints[d].agent
  <2>1. CASE UNCHANGED endpoints
    BY <2>1
  <2>2. CASE endpoints' = EndpointsAfter(d, o.verkey, None, None)
    BY <1>2, <2>2, EndpointTable
  <2> QED
    BY <2>1, <2>2 DEF Begin
<1>5. done'[d] = None /\ \A x \in Dids : done'[x] = None \/ (done'[x] = done[x] /\ x \notin ls)
  BY <1>1, <1>2 DEF Forget
<1>6. /\ pc'[c] \in {"store", "exists"}
      /\ \A e \in Sessions \ {c} : offer'[e] = offer[e] /\ pc'[e] = pc[e]
  BY <1>1 DEF IInv, TypeOK
<1> HIDE DEF ls
<1>7. CopyInv' /\ SyncInv'
  BY <1>1, <1>2, <1>3, <1>4 DEF IInv, AgentsInv, CopyInv, SyncInv, Tells
<1>8. ReachableAsRegistered'
  <2> SUFFICES ASSUME NEW x \in Dids \ (raced' \cup torn' \cup restored' \cup hidden'),
                      done'[x] # None, done'[x].fcm # None
               PROVE  /\ endpoints'[x] # None /\ agents'[x] # None
                      /\ endpoints'[x].fcm = done'[x].fcm
                      /\ endpoints'[x].agent = agents'[x].id
    BY DEF ReachableAsRegistered
  <2>1. x # d /\ done'[x] = done[x] /\ endpoints'[x] = endpoints[x]
    BY <1>3, <1>5
  <2>2. x \notin raced \cup torn \cup restored \cup hidden
    BY <1>1, <1>2
  <2> QED
    BY <1>1, <2>1, <2>2 DEF IInv, AgentsInv, ReachableAsRegistered
<1>9. GotInv'
  <2>1. ASSUME NEW e \in Sessions \ {c}, Busy(e), offer[e].did \notin raced'
        PROVE  GotOk(e, offer[e].did)'
    BY <1>1, <1>2, <1>6, <2>1 DEF IInv, AgentsInv, GotInv, GotOk, Tells
  <2>2. GotOk(c, d)'
    BY <1>6 DEF GotOk
  <2> QED
    BY <1>1, <1>6, <2>1, <2>2 DEF GotInv, Busy, IInv, TypeOK
<1> QED
  BY <1>7, <1>8, <1>9 DEF AgentsInv

-----------------------------------------------------------------------------
(* The steps *)

\* Requests as they are typed.
LocalsOK ==
    /\ pc \in [Sessions -> Places]
    /\ worker \in [Sessions -> Workers \cup {None}]
    /\ offer \in [Sessions -> Offers \cup {None}]
    /\ got \in [Sessions -> Agents \cup {None}]
    /\ \A c \in Sessions : (pc[c] = "idle" <=> offer[c] = None) /\ (offer[c] = None <=> worker[c] = None)
    /\ FillInv

\* What requests cs leave when they end.
LEMMA Returned ==
    ASSUME IInv, NEW cs \in SUBSET Sessions, Return(cs)
    PROVE  /\ LocalsOK'
           /\ \A c \in Sessions : offer'[c] = IF c \in cs THEN None ELSE offer[c]
           /\ \A c \in Sessions : pc'[c] = IF c \in cs THEN "idle" ELSE pc[c]
           /\ \A c \in Sessions : got'[c] = IF c \in cs THEN None ELSE got[c]
           /\ \A c \in Sessions : worker'[c] = IF c \in cs THEN None ELSE worker[c]
BY Absent DEF Return, IInv, TypeOK, LocalsOK, FillInv, Places

\* And a request that goes on elsewhere, or has loaded an agent.
LEMMA Gone ==
    ASSUME IInv, NEW c \in Sessions, pc[c] # "idle", NEW l \in Places \ {"idle", "fill", "refill"},
           Goto(c, l), UNCHANGED <<worker, offer, got>>
    PROVE  /\ LocalsOK' /\ pc'[c] = l
           /\ \A e \in Sessions \ {c} : pc'[e] = pc[e] /\ got'[e] = got[e]
BY DEF Goto, IInv, TypeOK, LocalsOK, FillInv, Places

LEMMA Loading ==
    ASSUME IInv, NEW c \in Sessions, pc[c] # "idle", NEW l \in Places \ {"idle"}, Goto(c, l),
           UNCHANGED <<worker, offer>>, NEW x \in Agents \cup {None},
           got' = [got EXCEPT ![c] = x], l \in {"fill", "refill"} => x # None
    PROVE  LocalsOK'
<1>1. /\ got' \in [Sessions -> Agents \cup {None}] /\ got'[c] = x
      /\ \A e \in Sessions \ {c} : got'[e] = got[e]
  BY DEF IInv, TypeOK
<1>2. /\ pc' \in [Sessions -> Places] /\ pc'[c] = l
      /\ \A e \in Sessions \ {c} : pc'[e] = pc[e]
  BY DEF Goto, IInv, TypeOK
<1> QED
  BY <1>1, <1>2 DEF IInv, TypeOK, LocalsOK, FillInv

LEMMA StepIInv ==
    ASSUME IInv, LocalsOK', PairwisesInv', AgentsInv',
           agents' \in [Dids -> Agents \cup {None}],
           endpoints' \in [Dids -> Endpoints \cup {None}],
           pairwises' \in [Dids -> Metadatas \cup {None}],
           copy' \in [Dids -> Agents \cup {None}],
           known' \in [Workers -> [Dids -> Metadatas \cup {None}]],
           post' \in [Posts -> Loads \cup {None}], posts' \in 0..MaxFaults,
           nextId' \in Ids, offers' \in 0..MaxOffers, faults' \in 0..MaxFaults,
           cached' \subseteq Dids \X Verkeys,
           done' \in [Dids -> Offers \cup {None}],
           raced' \subseteq Dids, torn' \subseteq Dids, restored' \subseteq Dids,
           hidden' \subseteq Dids, outdated' \subseteq Workers \X Dids
    PROVE  IInv'
BY DEF IInv, TypeOK, LocalsOK

LEMMA BeginIInv ==
    ASSUME IInv, NEW c \in Sessions, NEW w \in Workers, NEW o \in Offers, Begin(c, w, o)
    PROVE  IInv'
<1>1. o.did \in Dids /\ o.verkey \in Verkeys /\ o # None /\ w # None
  BY Absent
<1>2. LocalsOK'
  BY <1>1 DEF Begin, Goto, IInv, TypeOK, LocalsOK, FillInv, Places
<1>3. endpoints' \in [Dids -> Endpoints \cup {None}] /\ hidden' \subseteq Dids
  <2>1. /\ EndpointsAfter(o.did, o.verkey, None, None) \in [Dids -> Endpoints \cup {None}]
        /\ Losers(endpoints, o.did, o.verkey) \subseteq Dids
    BY <1>1, EndpointTable
  <2> QED
    BY <2>1 DEF Begin, IInv, TypeOK
<1>4. raced' \subseteq Dids
  <2>1. \A p \in Overlaps(o) : p.did \in Dids
    BY Absent DEF Overlaps, IInv, TypeOK
  <2> QED
    BY <1>1, <2>1 DEF Begin, IInv, TypeOK
<1>5. done' \in [Dids -> Offers \cup {None}]
  BY DEF Begin, Forget, IInv, TypeOK
<1>6. offers' \in 0..MaxOffers /\ cached' \subseteq Dids \X Verkeys
  BY <1>1, RegistrationAssumption DEF Begin, IInv, TypeOK
<1>7. UNCHANGED <<agents, pairwises, copy, known, posting, nextId, faults, torn, restored, outdated>>
  BY DEF Begin
<1> QED
  BY <1>2, <1>3, <1>4, <1>5, <1>6, <1>7, PairwisesBegin, BeginAgents, StepIInv DEF IInv, TypeOK, posting

LEMMA IsExistsIInv ==
    ASSUME IInv, NEW c \in Sessions, IsExists(c)
    PROVE  IInv'
<1>1. PICK l \in {"create", "update"} : Goto(c, l)
  BY DEF IsExists
<1>2. pc[c] = "exists" /\ UNCHANGED <<tables, copy, known, worker, offer, got, posting, bounds, history>>
  BY DEF IsExists
<1>3. LocalsOK' /\ pc'[c] = l /\ \A e \in Sessions \ {c} : pc'[e] = pc[e] /\ got'[e] = got[e]
  BY <1>1, <1>2, Gone DEF Places
<1>4. PairwisesInv'
  BY <1>2, <1>3, PairwisesKept DEF Late, tables, history
<1>5. AgentsInv'
  BY <1>2, <1>3, AgentsKept DEF tables, history
<1> QED
  BY <1>2, <1>3, <1>4, <1>5, StepIInv DEF IInv, TypeOK, tables, bounds, history, posting

LEMMA StoreDidIInv ==
    ASSUME IInv, NEW c \in Sessions, StoreDid(c)
    PROVE  IInv'
<1>1. PICK l \in {"exists", "insert"} : Goto(c, l)
  BY DEF StoreDid
<1>2. /\ pc[c] \in {"store", "create"}
      /\ WriteAgents(offer[c].did, offer[c].verkey, None)
      /\ done' = Forget(Losers(agents, offer[c].did, offer[c].verkey))
      /\ UNCHANGED <<endpoints, pairwises, copy, known, worker, offer, got, posting, offers, faults,
                     cached, raced, torn, restored, outdated>>
  BY DEF StoreDid
<1>3. LocalsOK' /\ pc'[c] = l /\ \A e \in Sessions \ {c} : pc'[e] = pc[e]
  BY <1>1, <1>2, Gone DEF Places
<1>4. Busy(c) /\ offer[c].did \in Dids /\ offer[c].verkey \in Verkeys
  BY <1>2, Offered DEF IInv
<1>5. agents' \in [Dids -> Agents \cup {None}] /\ nextId' \in Ids /\ hidden' \subseteq Dids
  BY <1>2, <1>4, AgentTable
<1>6. done' \in [Dids -> Offers \cup {None}] /\ \A d \in Dids : done'[d] \in {done[d], None}
  BY <1>2 DEF Forget, IInv, TypeOK
<1>7. PairwisesInv'
  BY <1>2, <1>3, <1>6, PairwisesKept DEF Late
<1>8. AgentsInv'
  BY <1>2, <1>3, <1>4, AgentsWritten
<1> QED
  BY <1>2, <1>3, <1>5, <1>6, <1>7, <1>8, StepIInv DEF IInv, TypeOK, posting

\* What a pairwise that is written leaves.
LEMMA WrittenIInv ==
    ASSUME IInv, NEW c \in Sessions, pc[c] \in {"insert", "update"}, WritePairwise(c),
           UNCHANGED <<agents, endpoints, copy, known, posting, bounds, done, raced, torn, restored,
                           hidden>>
    PROVE  IInv'
<1>1. /\ Goto(c, "remember") /\ UNCHANGED <<worker, offer, got>>
      /\ pairwises' = [pairwises EXCEPT ![offer[c].did] = Metadata(offer[c])]
      /\ outdated' = outdated \cup {<<w, offer[c].did>> : w \in
              {x \in Workers \ {worker[c]} : known[x][offer[c].did] \notin {None, Metadata(offer[c])}}}
  BY DEF WritePairwise
<1>2. LocalsOK' /\ pc'[c] = "remember" /\ \A e \in Sessions \ {c} : pc'[e] = pc[e] /\ got'[e] = got[e]
  BY <1>1, Gone DEF Places
<1>3. offer[c].did \in Dids /\ Metadata(offer[c]) \in Metadatas
  BY Offered, Absent DEF IInv
<1>4. pairwises' \in [Dids -> Metadatas \cup {None}] /\ outdated' \subseteq Workers \X Dids
  BY <1>1, <1>3 DEF IInv, TypeOK
<1>5. AgentsInv'
  BY <1>1, <1>2, AgentsKept
<1> QED
  BY <1>2, <1>4, <1>5, PairwisesWritten, StepIInv DEF IInv, TypeOK, bounds, posting

\* A request ends, or goes on to the agent, having found or failed.
LEMMA InsertIInv ==
    ASSUME IInv, NEW c \in Sessions, Insert(c)
    PROVE  IInv'
<1>1. pc[c] = "insert" /\ UNCHANGED <<agents, endpoints, copy, known, posting, bounds, done, raced, torn, restored,
                           hidden>>
  BY DEF Insert
<1>2. CASE WritePairwise(c)
  BY <1>1, <1>2, WrittenIInv
<1>3. CASE Return({c}) /\ UNCHANGED <<pairwises, outdated>>
  <2>1. /\ LocalsOK'
        /\ \A e \in Sessions : offer'[e] = IF e \in {c} THEN None ELSE offer[e]
        /\ \A e \in Sessions : pc'[e] = IF e \in {c} THEN "idle" ELSE pc[e]
        /\ \A e \in Sessions : got'[e] = IF e \in {c} THEN None ELSE got[e]
        /\ \A e \in Sessions : worker'[e] = IF e \in {c} THEN None ELSE worker[e]
    BY <1>3, Returned
  <2>2. PairwisesInv'
    BY <1>1, <1>3, <2>1, PairwisesKept
  <2>3. AgentsInv'
    BY <1>1, <1>3, <2>1, AgentsKept
  <2> QED
    BY <1>1, <1>3, <2>1, <2>2, <2>3, StepIInv DEF IInv, TypeOK, bounds, posting
<1> QED
  BY <1>2, <1>3 DEF Insert

LEMMA UpdateIInv ==
    ASSUME IInv, NEW c \in Sessions, Update(c)
    PROVE  IInv'
<1>1. pc[c] = "update" /\ UNCHANGED <<agents, endpoints, copy, known, posting, bounds, done, raced, torn, restored,
                           hidden>>
  BY DEF Update
<1>2. CASE WritePairwise(c)
  BY <1>1, <1>2, WrittenIInv
<1>3. ASSUME Return({c}), UNCHANGED <<pairwises, outdated>> PROVE IInv'
  <2>1. /\ LocalsOK'
        /\ \A e \in Sessions : offer'[e] = IF e \in {c} THEN None ELSE offer[e]
        /\ \A e \in Sessions : pc'[e] = IF e \in {c} THEN "idle" ELSE pc[e]
        /\ \A e \in Sessions : got'[e] = IF e \in {c} THEN None ELSE got[e]
        /\ \A e \in Sessions : worker'[e] = IF e \in {c} THEN None ELSE worker[e]
    BY <1>3, Returned
  <2>2. PairwisesInv'
    BY <1>1, <1>3, <2>1, PairwisesKept
  <2>3. AgentsInv'
    BY <1>1, <1>3, <2>1, AgentsKept
  <2> QED
    BY <1>1, <1>3, <2>1, <2>2, <2>3, StepIInv DEF IInv, TypeOK, bounds, posting
<1>4. ASSUME Goto(c, "load"), known[worker[c]][offer[c].did] = Metadata(offer[c]),
             UNCHANGED <<worker, offer, got, pairwises, outdated>>
      PROVE  IInv'
  <2>1. LocalsOK' /\ pc'[c] = "load" /\ \A e \in Sessions \ {c} : pc'[e] = pc[e] /\ got'[e] = got[e]
    BY <1>1, <1>4, Gone DEF Places
  <2>2. Busy(c) /\ offer[c].did \in Dids /\ worker[c] \in Workers /\ Metadata(offer[c]) # None
    BY <1>1, Offered, Absent DEF IInv, Metadatas, Metadata
  <2>3. Agreed(offer[c].did) /\ offer[c].did \notin raced => pairwises[offer[c].did] = Metadata(offer[c])
    <3> SUFFICES ASSUME Agreed(offer[c].did), offer[c].did \notin raced
                 PROVE  pairwises[offer[c].did] = Metadata(offer[c])
      OBVIOUS
    <3>1. ~\E e \in Sessions : pc[e] = "remember" /\ offer[e].did = offer[c].did
      BY <1>1, <2>2, Alone, Offered DEF IInv
    <3> DEFINE w == worker[c]
               d == offer[c].did
    <3>2. w \in Workers /\ d \in Dids \ raced /\ known[w][d] # None /\ <<w, d>> \notin outdated
      BY <1>4, <2>2 DEF Agreed
    <3>3. known[w][d] = pairwises[d]
      BY <3>1, <3>2 DEF IInv, PairwisesInv, KnownInv
    <3> QED
      BY <1>4, <3>3
  <2>4. PairwisesInv'
    BY <1>1, <1>4, <2>1, <2>3, PairwisesKept
  <2>5. AgentsInv'
    BY <1>1, <1>4, <2>1, AgentsKept
  <2> QED
    BY <1>1, <1>4, <2>1, <2>4, <2>5, StepIInv DEF IInv, TypeOK, bounds, posting
<1> QED
  BY <1>2, <1>3, <1>4 DEF Update, Stored

LEMMA RememberIInv ==
    ASSUME IInv, NEW c \in Sessions, Remember(c)
    PROVE  IInv'
<1>1. /\ pc[c] = "remember" /\ UNCHANGED <<tables, copy, posting, bounds, done, raced, torn, restored, hidden>>
      /\ known' = [known EXCEPT ![worker[c]][offer[c].did] = Metadata(offer[c])]
      /\ outdated' \subseteq outdated
  BY DEF Remember
<1>2. /\ worker[c] \in Workers /\ offer[c].did \in Dids /\ Metadata(offer[c]) \in Metadatas
  BY <1>1, Offered, Absent DEF IInv
<1>3. known' \in [Workers -> [Dids -> Metadatas \cup {None}]] /\ outdated' \subseteq Workers \X Dids
  BY <1>1, <1>2 DEF IInv, TypeOK
<1>4. CASE Return({c})
  <2>1. /\ LocalsOK'
        /\ \A e \in Sessions : offer'[e] = IF e \in {c} THEN None ELSE offer[e]
        /\ \A e \in Sessions : pc'[e] = IF e \in {c} THEN "idle" ELSE pc[e]
        /\ \A e \in Sessions : got'[e] = IF e \in {c} THEN None ELSE got[e]
        /\ \A e \in Sessions : worker'[e] = IF e \in {c} THEN None ELSE worker[e]
    BY <1>4, Returned
  <2>2. AgentsInv'
    BY <1>1, <2>1, AgentsKept DEF tables
  <2> QED
    BY <1>1, <1>3, <2>1, <2>2, PairwisesRemembered, StepIInv DEF IInv, TypeOK, bounds, tables, posting
<1>5. CASE Goto(c, "load") /\ UNCHANGED <<worker, offer, got>>
  <2>1. LocalsOK' /\ pc'[c] = "load" /\ \A e \in Sessions \ {c} : pc'[e] = pc[e] /\ got'[e] = got[e]
    BY <1>1, <1>5, Gone DEF Places
  <2>2. AgentsInv'
    BY <1>1, <1>5, <2>1, AgentsKept DEF tables
  <2> QED
    BY <1>1, <1>3, <2>1, <2>2, PairwisesRemembered, StepIInv DEF IInv, TypeOK, bounds, tables, posting
<1> QED
  BY <1>4, <1>5 DEF Remember, Stored

\* An agent is loaded.
LEMMA LoadedIInv ==
    ASSUME IInv, NEW c \in Sessions, pc[c] \in {"load", "reload", "fill", "refill"},
           NEW l \in {"fill", "compare", "refill", "endpoint"}, Goto(c, l),
           UNCHANGED <<tables, known, worker, offer, posting, bounds, history>>,
           LocalsOK', AgentsInv', copy' \in [Dids -> Agents \cup {None}]
    PROVE  IInv'
<1>1. pc'[c] = l /\ \A e \in Sessions \ {c} : pc'[e] = pc[e]
  BY DEF Goto, IInv, TypeOK
<1>2. PairwisesInv'
  BY <1>1, PairwisesKept DEF Late, tables, history
<1> QED
  BY <1>2, StepIInv DEF IInv, TypeOK, tables, bounds, history, posting

LEMMA LoadHitIInv ==
    ASSUME IInv, NEW c \in Sessions, LoadHit(c)
    PROVE  IInv'
<1>1. PICK l \in {"compare", "endpoint"} : Goto(c, l)
  BY DEF LoadHit, Loaded
<1>2. /\ pc[c] \in {"load", "reload"} /\ got' = [got EXCEPT ![c] = copy[offer[c].did]]
      /\ UNCHANGED <<tables, copy, known, worker, offer, posting, bounds, history>>
  BY DEF LoadHit
<1>3. copy[offer[c].did] \in Agents \cup {None}
  BY <1>2, Offered DEF IInv, TypeOK
<1>4. LocalsOK'
  BY <1>1, <1>2, <1>3, Loading DEF Places
<1> QED
  BY <1>1, <1>2, <1>4, LoadHitAgents, LoadedIInv DEF IInv, TypeOK

LEMMA LoadReadIInv ==
    ASSUME IInv, NEW c \in Sessions, LoadRead(c)
    PROVE  IInv'
<1>1. PICK l \in {"compare", "endpoint", "fill", "refill"} :
        Goto(c, l) /\ (l \in {"fill", "refill"} => agents[offer[c].did] # None)
  BY DEF LoadRead, Loaded
<1>2. /\ pc[c] \in {"load", "reload"} /\ got' = [got EXCEPT ![c] = agents[offer[c].did]]
      /\ UNCHANGED <<tables, copy, known, worker, offer, posting, bounds, history>>
  BY DEF LoadRead
<1>3. agents[offer[c].did] \in Agents \cup {None}
  BY <1>2, Offered DEF IInv, TypeOK
<1>4. LocalsOK'
  BY <1>1, <1>2, <1>3, Loading DEF Places
<1> QED
  BY <1>1, <1>2, <1>4, LoadReadAgents, LoadedIInv DEF IInv, TypeOK

LEMMA FillIInv ==
    ASSUME IInv, NEW c \in Sessions, Fill(c)
    PROVE  IInv'
<1>1. PICK l \in {"compare", "endpoint"} : Goto(c, l)
  BY DEF Fill, Loaded
<1>2. /\ pc[c] \in {"fill", "refill"} /\ copy' = [copy EXCEPT ![offer[c].did] = got[c]]
      /\ UNCHANGED <<tables, known, worker, offer, got, posting, bounds, history>>
  BY DEF Fill
<1>3. copy' \in [Dids -> Agents \cup {None}]
  BY <1>2 DEF IInv, TypeOK
<1>4. LocalsOK'
  BY <1>1, <1>2, Gone DEF Places
<1> QED
  BY <1>1, <1>2, <1>3, <1>4, FillAgents, LoadedIInv

LEMMA CompareIInv ==
    ASSUME IInv, NEW c \in Sessions, Compare(c)
    PROVE  IInv'
<1>1. pc[c] = "compare" /\ UNCHANGED <<tables, known, posting, bounds, raced, torn, restored, outdated>>
  BY DEF Compare
<1>2. offer[c] \in Offers /\ offer[c].did \in Dids
  BY <1>1, Offered DEF IInv
<1>3. CASE /\ got[c] # None /\ got[c].fcm = offer[c].fcm /\ Return({c}) /\ Completed(c)
           /\ UNCHANGED <<copy, hidden>>
  <2>1. LocalsOK'
    BY <1>3, Returned
  <2>2. /\ done' \in [Dids -> Offers \cup {None}] /\ done'[offer[c].did] = offer[c]
        /\ \A d \in Dids \ {offer[c].did} : done'[d] = done[d]
    BY <1>2, <1>3 DEF Completed, IInv, TypeOK
  <2>3. PairwisesInv'
    BY <1>1, <1>3, <2>2, PairwisesCompleted DEF Late, tables
  <2>4. AgentsInv'
    BY <1>1, <1>3, SameAgents DEF tables
  <2> QED
    BY <1>1, <1>3, <2>1, <2>2, <2>3, <2>4, StepIInv DEF IInv, TypeOK, bounds, tables, posting
<1>4. CASE /\ \/ copy' = [copy EXCEPT ![offer[c].did] = None] /\ UNCHANGED hidden
              \/ UNCHANGED copy /\ hidden' = hidden \cup {offer[c].did}
           /\ Goto(c, "agent")
           /\ UNCHANGED <<worker, offer, got, done>>
  <2>1. LocalsOK' /\ pc'[c] = "agent" /\ \A e \in Sessions \ {c} : pc'[e] = pc[e] /\ got'[e] = got[e]
    BY <1>1, <1>4, Gone DEF Places
  <2>2. /\ copy' \in [Dids -> Agents \cup {None}] /\ \A d \in Dids : copy'[d] \in {copy[d], None}
        /\ copy'[offer[c].did] = None \/ offer[c].did \in hidden'
        /\ hidden \subseteq hidden' /\ hidden' \subseteq Dids
    BY <1>2, <1>4 DEF IInv, TypeOK
  <2>3. PairwisesInv'
    BY <1>1, <1>4, <2>1, PairwisesKept DEF Late, tables
  <2>4. AgentsInv'
    BY <1>1, <1>4, <2>1, <2>2, AgentsKept DEF tables
  <2> QED
    BY <1>1, <1>4, <2>1, <2>2, <2>3, <2>4, StepIInv DEF IInv, TypeOK, bounds, tables, posting
<1> QED
  BY <1>3, <1>4 DEF Compare

LEMMA WriteAgentIInv ==
    ASSUME IInv, NEW c \in Sessions, WriteAgent(c)
    PROVE  IInv'
<1>1. /\ pc[c] = "agent" /\ Goto(c, "reload")
      /\ WriteAgents(offer[c].did, offer[c].verkey, offer[c].fcm)
      /\ done' = Forget(Losers(agents, offer[c].did, offer[c].verkey))
      /\ torn' = IF offer[c].fcm = None THEN torn ELSE torn \cup {offer[c].did}
      /\ UNCHANGED <<endpoints, pairwises, copy, known, worker, offer, got, posting, offers, faults,
                     cached, raced, restored, outdated>>
  BY DEF WriteAgent
<1>2. LocalsOK' /\ pc'[c] = "reload" /\ \A e \in Sessions \ {c} : pc'[e] = pc[e]
  BY <1>1, Gone DEF Places
<1>3. /\ Busy(c) /\ offer[c].did \in Dids /\ offer[c].verkey \in Verkeys
      /\ offer[c].fcm \in Devices \cup {None}
  BY <1>1, Offered DEF IInv
<1>4. agents' \in [Dids -> Agents \cup {None}] /\ nextId' \in Ids /\ hidden' \subseteq Dids
  BY <1>1, <1>3, AgentTable
<1>5. done' \in [Dids -> Offers \cup {None}] /\ \A d \in Dids : done'[d] \in {done[d], None}
  BY <1>1 DEF Forget, IInv, TypeOK
<1>6. PairwisesInv'
  BY <1>1, <1>2, <1>5, PairwisesKept DEF Late
<1>7. AgentsInv'
  BY <1>1, <1>2, <1>3, AgentsWritten
<1>8. torn' \subseteq Dids
  BY <1>1, <1>3 DEF IInv, TypeOK
<1> QED
  BY <1>1, <1>2, <1>4, <1>5, <1>6, <1>7, <1>8, StepIInv DEF IInv, TypeOK, posting

LEMMA WriteEndpointIInv ==
    ASSUME IInv, NEW c \in Sessions, WriteEndpoint(c)
    PROVE  IInv'
<1>1. /\ pc[c] = "endpoint" /\ Return({c})
      /\ UNCHANGED <<agents, pairwises, copy, known, posting, bounds, raced, outdated>>
  BY DEF WriteEndpoint
<1>2. CASE got[c] = None
  <2>1. /\ LocalsOK'
        /\ \A e \in Sessions : offer'[e] = IF e \in {c} THEN None ELSE offer[e]
        /\ \A e \in Sessions : pc'[e] = IF e \in {c} THEN "idle" ELSE pc[e]
        /\ \A e \in Sessions : got'[e] = IF e \in {c} THEN None ELSE got[e]
        /\ \A e \in Sessions : worker'[e] = IF e \in {c} THEN None ELSE worker[e]
    BY <1>1, Returned
  <2>2. UNCHANGED <<endpoints, done, torn, restored, hidden>>
    BY <1>2 DEF WriteEndpoint
  <2>3. PairwisesInv'
    BY <1>1, <2>1, <2>2, PairwisesKept
  <2>4. AgentsInv'
    BY <1>1, <2>1, <2>2, AgentsKept
  <2> QED
    BY <1>1, <2>1, <2>2, <2>3, <2>4, StepIInv DEF IInv, TypeOK, bounds, posting
<1>3. CASE got[c] # None
  <2> DEFINE o == offer[c]
             ls == Losers(endpoints, o.did, o.verkey)
  <2>1. StoreEndpoint(o, got[c], o.fcm)
    BY <1>3 DEF WriteEndpoint
  <2>2. o \in Offers /\ o.did \in Dids /\ o.verkey \in Verkeys /\ o.fcm \in Devices \cup {None}
    BY <1>1, Offered DEF IInv
  <2>3. got[c].id \in Ids
    BY <1>3 DEF IInv, TypeOK, Agents
  <2>4. endpoints' \in [Dids -> Endpoints \cup {None}] /\ ls \subseteq Dids
    BY <2>1, <2>2, <2>3, EndpointTable DEF StoreEndpoint
  <2>5. hidden' \subseteq Dids /\ torn' \subseteq Dids /\ restored' \subseteq Dids
    BY <2>1, <2>4 DEF StoreEndpoint, IInv, TypeOK
  <2>6. /\ done' \in [Dids -> Offers \cup {None}] /\ done'[o.did] = o
        /\ \A d \in Dids \ {o.did} : done'[d] \in {done[d], None}
    BY <2>1, <2>2 DEF StoreEndpoint, Forget, IInv, TypeOK
  <2>7. LocalsOK'
    BY <1>1, Returned
  <2>8. PairwisesInv'
    BY <1>1, <2>6, PairwisesCompleted DEF Late
  <2>9. AgentsInv'
    BY <1>1, <1>3, <2>1, WriteEndpointAgents
  <2> QED
    BY <1>1, <2>4, <2>5, <2>6, <2>7, <2>8, <2>9, StepIInv DEF IInv, TypeOK, bounds, posting
<1> QED
  BY <1>2, <1>3

LEMMA ExpireIInv ==
    ASSUME IInv, NEW d \in Dids, Expire(d)
    PROVE  IInv'
<1>1. copy' = [copy EXCEPT ![d] = None] /\ UNCHANGED <<tables, known, locals, posting, bounds, history>>
  BY DEF Expire
<1>2. copy' \in [Dids -> Agents \cup {None}] /\ \A x \in Dids : copy'[x] \in {copy[x], None}
  BY <1>1 DEF IInv, TypeOK
<1>3. LocalsOK'
  BY <1>1 DEF IInv, TypeOK, LocalsOK, FillInv, locals
<1>4. PairwisesInv'
  BY <1>1, PairwisesKept DEF tables, locals, history
<1>5. AgentsInv'
  BY <1>1, <1>2, AgentsKept DEF tables, locals, history
<1> QED
  BY <1>1, <1>2, <1>3, <1>4, <1>5, StepIInv DEF IInv, TypeOK, tables, bounds, history, posting

LEMMA CrashIInv ==
    ASSUME IInv, NEW w \in Workers, Crash(w)
    PROVE  IInv'
<1>1. /\ faults + posts < MaxFaults /\ faults' = faults + 1
      /\ known' = [known EXCEPT ![w] = [d \in Dids |-> None]]
      /\ Return({c \in Sessions : worker[c] = w})
      /\ UNCHANGED <<tables, copy, posting, nextId, offers, cached, history>>
  BY DEF Crash
<1>2. /\ LocalsOK'
      /\ \A e \in Sessions : offer'[e] # None => offer'[e] = offer[e] /\ pc'[e] = pc[e] /\ got'[e] = got[e]
  BY <1>1, Returned
<1>3. faults' \in 0..MaxFaults /\ known' \in [Workers -> [Dids -> Metadatas \cup {None}]]
  BY <1>1, RegistrationAssumption DEF IInv, TypeOK
<1>4. AgentsInv'
  BY <1>1, <1>2, AgentsKept DEF tables, history
<1> QED
  BY <1>1, <1>2, <1>3, <1>4, PairwisesCrash, StepIInv DEF IInv, TypeOK, tables, history, posting

LEMMA FailIInv ==
    ASSUME IInv, NEW c \in Sessions, Fail(c)
    PROVE  IInv'
<1>1. /\ pc[c] # "remember" /\ Return({c})
      /\ faults + posts < MaxFaults /\ faults' = faults + 1
      /\ UNCHANGED <<tables, copy, known, posting, nextId, offers, cached, history>>
  BY DEF Fail
<1>2. /\ LocalsOK'
      /\ \A e \in Sessions : offer'[e] = IF e \in {c} THEN None ELSE offer[e]
      /\ \A e \in Sessions : pc'[e] = IF e \in {c} THEN "idle" ELSE pc[e]
      /\ \A e \in Sessions : got'[e] = IF e \in {c} THEN None ELSE got[e]
      /\ \A e \in Sessions : worker'[e] = IF e \in {c} THEN None ELSE worker[e]
  BY <1>1, Returned
<1>3. PairwisesInv'
  BY <1>1, <1>2, PairwisesKept DEF tables, history
<1>4. AgentsInv'
  BY <1>1, <1>2, AgentsKept DEF tables, history
<1>5. faults' \in 0..MaxFaults
  BY <1>1, RegistrationAssumption DEF IInv, TypeOK
<1> QED
  BY <1>1, <1>2, <1>3, <1>4, <1>5, StepIInv DEF IInv, TypeOK, tables, history, posting

LEMMA LoadIInv ==
    ASSUME IInv, NEW p \in Posts, NEW d \in Dids, Load(p, d)
    PROVE  IInv'
<1>1. /\ endpoints[d] # None /\ faults + posts < MaxFaults /\ posts' = posts + 1
      /\ post' = [post EXCEPT ![p] = [did |-> d, row |-> endpoints[d]]]
      /\ UNCHANGED <<tables, copy, known, locals, bounds, history>>
  BY DEF Load
<1>2. post' \in [Posts -> Loads \cup {None}]
  <2>1. [did |-> d, row |-> endpoints[d]] \in Loads
    BY <1>1 DEF IInv, TypeOK, Loads
  <2> QED
    BY <1>1, <2>1 DEF IInv, TypeOK
<1>3. posts' \in 0..MaxFaults
  BY <1>1, RegistrationAssumption DEF IInv, TypeOK
<1>4. LocalsOK'
  BY <1>1 DEF IInv, TypeOK, LocalsOK, FillInv, locals
<1>5. PairwisesInv'
  BY <1>1, PairwisesKept DEF tables, locals, history
<1>6. AgentsInv'
  BY <1>1, AgentsKept DEF tables, locals, history
<1> QED
  BY <1>1, <1>2, <1>3, <1>4, <1>5, <1>6, StepIInv DEF IInv, TypeOK, tables, bounds, history

\* What the post has loaded.
LEMMA Posted ==
    ASSUME TypeOK, NEW p \in Posts, post[p] # None
    PROVE  LET row == post[p].row IN
           /\ post[p].did \in Dids /\ row.verkey \in Verkeys
           /\ row.agent \in Ids \cup {None} /\ row.fcm \in Devices \cup {None}
           /\ row = [verkey |-> row.verkey, agent |-> row.agent, fcm |-> row.fcm]
BY DEF TypeOK, Loads, Endpoints

\* The row is put back: as it is stored, or else its DID is known for it.
LEMMA PutBackIInv ==
    ASSUME IInv, NEW p \in Posts, PutBack(p)
    PROVE  IInv'
<1> DEFINE d == post[p].did
           row == post[p].row
           ls == Losers(endpoints, d, row.verkey)
<1>1. /\ post[p] # None /\ post' = [post EXCEPT ![p] = None]
      /\ UNCHANGED <<agents, pairwises, copy, known, locals, posts, bounds, raced, torn, outdated>>
  BY DEF PutBack
<1>2. post' \in [Posts -> Loads \cup {None}] /\ LocalsOK'
  BY <1>1 DEF IInv, TypeOK, LocalsOK, FillInv, locals
<1>3. CASE UNCHANGED <<endpoints, done, hidden, restored>>
  <2>1. PairwisesInv'
    BY <1>1, <1>3, PairwisesKept DEF locals
  <2>2. AgentsInv'
    BY <1>1, <1>3, AgentsKept DEF locals
  <2> QED
    BY <1>1, <1>2, <1>3, <2>1, <2>2, StepIInv DEF IInv, TypeOK, bounds
<1>4. CASE /\ endpoints' = EndpointsAfter(d, row.verkey, row.agent, row.fcm)
           /\ done' = Forget(ls) /\ hidden' = hidden \cup ls
           /\ restored' = IF endpoints[d] = row THEN restored ELSE restored \cup {d}
  <2>1. /\ d \in Dids /\ row.verkey \in Verkeys /\ row.agent \in Ids \cup {None}
        /\ row.fcm \in Devices \cup {None}
    BY <1>1, Posted DEF IInv
  <2>2. /\ endpoints' \in [Dids -> Endpoints \cup {None}]
        /\ endpoints'[d] # None
        /\ endpoints[d] = row => endpoints'[d].fcm = row.fcm /\ endpoints'[d].agent = row.agent
        /\ endpoints[d] = row => endpoints[d] # None
        /\ \A x \in Dids \ {d} : endpoints'[x] = IF x \in ls THEN None ELSE endpoints[x]
        /\ ls \subseteq Dids \ {d}
    <3>1. row # None
      BY <1>1, Absent DEF IInv, TypeOK, Loads
    <3> HIDE DEF d, row
    <3> QED
      BY <1>4, <2>1, <3>1, EndpointTable
  <2>3. /\ \A x \in Dids : done'[x] \in {done[x], None} /\ (x \in ls => done'[x] = None)
        /\ done' \in [Dids -> Offers \cup {None}]
        /\ hidden \subseteq hidden' /\ ls \subseteq hidden' /\ hidden' \subseteq Dids
        /\ restored \subseteq restored' /\ restored' \subseteq Dids
        /\ d \notin restored' => endpoints[d] = row
    BY <1>4, <2>1, <2>2 DEF Forget, IInv, TypeOK
  <2> HIDE DEF d, row, ls
  <2>4. PairwisesInv'
    BY <1>1, <2>3, PairwisesKept DEF locals
  <2>5. \A x \in Dids \ (hidden' \cup restored') :
          endpoints[x] # None => /\ endpoints'[x] # None
                                 /\ endpoints'[x].fcm = endpoints[x].fcm
                                 /\ endpoints'[x].agent = endpoints[x].agent
    BY <2>2, <2>3
  <2>6. SyncInv'
    BY <1>1, <2>3, <2>5 DEF IInv, AgentsInv, SyncInv
  <2>7. ReachableAsRegistered'
    BY <1>1, <2>3, <2>5 DEF IInv, AgentsInv, ReachableAsRegistered
  <2>8. CopyInv'
    BY <1>1, <2>3 DEF IInv, AgentsInv, CopyInv, Tells
  <2>9. GotInv'
    BY <1>1, <2>3 DEF IInv, AgentsInv, GotInv, GotOk, Tells, Busy, locals
  <2>10. AgentsInv'
    BY <2>6, <2>7, <2>8, <2>9 DEF AgentsInv
  <2> QED
    BY <1>1, <1>2, <2>2, <2>3, <2>4, <2>10, StepIInv DEF IInv, TypeOK, bounds
<1> QED
  BY <1>3, <1>4 DEF PutBack

LEMMA NextIInv == IInv /\ [Next]_vars => IInv'
<1> SUFFICES ASSUME IInv, [Next]_vars PROVE IInv'
  OBVIOUS
<1>1. ASSUME NEW c \in Sessions, NEW w \in Workers, NEW o \in Offers, Begin(c, w, o) PROVE IInv'
  BY <1>1, BeginIInv
<1>2. ASSUME NEW c \in Sessions,
             \/ IsExists(c) \/ StoreDid(c) \/ Insert(c) \/ Update(c) \/ Remember(c)
             \/ LoadHit(c) \/ LoadRead(c) \/ Fill(c)
             \/ Compare(c) \/ WriteAgent(c) \/ WriteEndpoint(c) \/ Fail(c)
      PROVE  IInv'
  BY <1>2, IsExistsIInv, StoreDidIInv, InsertIInv, UpdateIInv, RememberIInv, LoadHitIInv,
     LoadReadIInv, FillIInv, CompareIInv, WriteAgentIInv, WriteEndpointIInv, FailIInv
<1>3. ASSUME NEW d \in Dids, Expire(d) PROVE IInv'
  BY <1>3, ExpireIInv
<1>4. ASSUME NEW w \in Workers, Crash(w) PROVE IInv'
  BY <1>4, CrashIInv
<1>5. ASSUME NEW p \in Posts, NEW d \in Dids, Load(p, d) PROVE IInv'
  BY <1>5, LoadIInv
<1>6. ASSUME NEW p \in Posts, PutBack(p) PROVE IInv'
  BY <1>6, PutBackIInv
<1>7. CASE UNCHANGED vars
  <2>1. LocalsOK' /\ UNCHANGED <<tables, copy, known, locals, posting, bounds, history>>
    BY <1>7 DEF IInv, TypeOK, LocalsOK, FillInv, vars, locals
  <2>2. PairwisesInv'
    BY <2>1, PairwisesKept DEF tables, locals, history
  <2>3. AgentsInv'
    BY <2>1, AgentsKept DEF tables, locals, history
  <2> QED
    BY <2>1, <2>2, <2>3, StepIInv DEF IInv, TypeOK, tables, bounds, history, posting
<1> QED
  BY <1>1, <1>2, <1>3, <1>4, <1>5, <1>6, <1>7 DEF Next

\* The inductive invariant holds: what requests know of a DID that is not raced
\* is what is stored, up to what memcached hides and workers remember.
THEOREM Invariance == Spec => []IInv
<1>1. Init => IInv
  BY InitIInv
<1>2. IInv /\ [Next]_vars => IInv'
  BY NextIInv
<1> QED
  BY <1>1, <1>2, PTL DEF Spec

\* Types, and which request carries what.
THEOREM Typing == Spec => []TypeOK
<1>1. IInv => TypeOK
  BY DEF IInv
<1> QED
  BY <1>1, Invariance, PTL

\* A device whose registrations were not disturbed can be reached with the
\* device id that it registered last.
THEOREM Reachable == Spec => []ReachableAsRegistered
<1>1. IInv => ReachableAsRegistered
  BY DEF IInv, AgentsInv
<1> QED
  BY <1>1, Invariance, PTL

\* The pairwise is what was registered last, though workers skip updates that
\* they remember.
THEOREM PairwiseStored == Spec => []PairwiseAsRegistered
<1>1. IInv => PairwiseAsRegistered
  BY DEF IInv, PairwisesInv, DoneInv, Agreed, PairwiseAsRegistered
<1> QED
  BY <1>1, Invariance, PTL

-----------------------------------------------------------------------------
(* What these exceptions come down to *)

\* No two requests in progress have a DID or a verkey in common.
Apart ==
    \A c, e \in Sessions :
        c # e /\ Busy(c) /\ Busy(e) => offer[c].did # offer[e].did /\ offer[c].verkey # offer[e].verkey

\* A DID is raced by the arrival of a second request only.
LEMMA ApartStep == raced = {} /\ TypeOK /\ TypeOK' /\ Apart' /\ [Next]_vars => raced' = {}
<1> SUFFICES ASSUME raced = {}, TypeOK, TypeOK', Apart', [Next]_vars PROVE raced' = {}
  OBVIOUS
<1>1. ASSUME NEW c \in Sessions, NEW w \in Workers, NEW o \in Offers, Begin(c, w, o)
      PROVE  raced' = {}
  <2>1. offer[c] = None /\ offer' = [offer EXCEPT ![c] = o] /\ offer \in [Sessions -> Offers \cup {None}]
    BY <1>1 DEF Begin, TypeOK
  <2>2. o # None
    BY Absent
  <2>3. ASSUME NEW x \in Sessions, offer[x] # None, offer[x].did = o.did \/ offer[x].verkey = o.verkey
        PROVE  FALSE
    <3>1. x # c /\ offer'[x] = offer[x] /\ offer'[c] = o
      BY <2>1, <2>3
    <3> QED
      BY <2>2, <2>3, <3>1 DEF Apart, Busy
  <2>4. Overlaps(o) = {}
    BY <2>3 DEF Overlaps
  <2> QED
    BY <1>1, <2>4 DEF Begin
<1>2. ASSUME NEW c \in Sessions,
             \/ IsExists(c) \/ StoreDid(c) \/ Insert(c) \/ Update(c) \/ Remember(c)
             \/ LoadHit(c) \/ LoadRead(c) \/ Fill(c)
             \/ Compare(c) \/ WriteAgent(c) \/ WriteEndpoint(c) \/ Fail(c)
      PROVE  raced' = {}
  BY <1>2 DEF IsExists, StoreDid, Insert, Update, Remember, LoadHit, LoadRead, Fill,
              Compare, WriteAgent, WriteEndpoint, Fail, history
<1>3. ASSUME NEW d \in Dids, Expire(d) PROVE raced' = {}
  BY <1>3 DEF Expire, history
<1>4. ASSUME NEW w \in Workers, Crash(w) PROVE raced' = {}
  BY <1>4 DEF Crash, history
<1>5. ASSUME NEW p \in Posts, PutBack(p) \/ \E d \in Dids : Load(p, d) PROVE raced' = {}
  BY <1>5 DEF PutBack, Load, history
<1>6. CASE UNCHANGED vars
  BY <1>6 DEF vars, history
<1> QED
  BY <1>1, <1>2, <1>3, <1>4, <1>5, <1>6 DEF Next

\* The pairwise is what a device registered last.
EveryPairwise == \A d \in Dids : done[d] # None => pairwises[d] = Metadata(done[d])

\* One worker cannot be wrong about what it stored: as long as requests with a
\* DID or a verkey in common do not overlap, its pairwises are what was registered
\* last, though it skips updates, and dies, and is started again, and queries fail.
THEOREM OneWorkerStoresPairwises ==
    ASSUME \A v, w \in Workers : v = w
    PROVE  Spec /\ []Apart => []EveryPairwise
<1> DEFINE Fine == raced = {} /\ outdated = {}
<1>1. Init => Fine
  BY DEF Init
<1>2. Fine /\ TypeOK /\ TypeOK' /\ Apart' /\ [Next]_vars => Fine'
  <2> SUFFICES ASSUME Fine, TypeOK, TypeOK', Apart', [Next]_vars PROVE Fine'
    OBVIOUS
  <2>1. raced' = {}
    BY ApartStep
  <2>2. ASSUME NEW c \in Sessions, Insert(c) \/ Update(c) PROVE outdated' = {}
    <3>1. CASE WritePairwise(c)
      <4>1. worker[c] \in Workers
        BY <2>2, Offered DEF Insert, Update
      <4>2. Workers \ {worker[c]} = {}
        BY <4>1
      <4> QED
        BY <3>1, <4>2 DEF WritePairwise
    <3>2. CASE UNCHANGED outdated
      BY <3>2
    <3> QED
      BY <2>2, <3>1, <3>2 DEF Insert, Update
  <2>3. ASSUME NEW c \in Sessions, Remember(c) PROVE outdated' = {}
    BY <2>3 DEF Remember
  <2>4. ASSUME \/ \E c \in Sessions, w \in Workers, o \in Offers : Begin(c, w, o)
               \/ \E c \in Sessions :
                     \/ IsExists(c) \/ StoreDid(c) \/ LoadHit(c) \/ LoadRead(c) \/ Fill(c)
                     \/ Compare(c) \/ WriteAgent(c) \/ WriteEndpoint(c) \/ Fail(c)
               \/ \E p \in Posts, d \in Dids : Load(p, d)
               \/ \E p \in Posts : PutBack(p)
               \/ \E d \in Dids : Expire(d)
               \/ \E w \in Workers : Crash(w)
               \/ UNCHANGED vars
        PROVE  outdated' = {}
    BY <2>4 DEF Begin, IsExists, StoreDid, LoadHit, LoadRead, Fill, Compare, WriteAgent,
                WriteEndpoint, Fail, Load, PutBack, Expire, Crash, vars, history
  <2> QED
    BY <2>1, <2>2, <2>3, <2>4 DEF Next
<1>3. IInv /\ Fine => EveryPairwise
  BY DEF IInv, PairwisesInv, DoneInv, Agreed, EveryPairwise
<1> HIDE DEF Fine
<1>4. Spec /\ []Apart => []Fine
  BY <1>1, <1>2, Typing, PTL DEF Spec
<1> QED
  BY <1>3, <1>4, Invariance, PTL

\* A request that has written the agent, and the endpoint not yet.
Ending == {"reload", "refill", "endpoint"}
Ends(c, d) == pc[c] \in Ending /\ offer[c].did = d /\ offer[c].fcm # None

\* Such a request finds the agent that it has written, and while an agent and its
\* endpoint disagree there is one.
EndingInv ==
    \A c \in Sessions :
        pc[c] \in Ending /\ offer[c].did \notin hidden =>
          /\ agents[offer[c].did] # None
          /\ pc[c] = "endpoint" => got[c] # None
TornInv == \A d \in torn : d \in hidden \/ \E c \in Sessions : Ends(c, d)

\* Steps before the agent is written, of any request.
LEMMA EndingKept ==
    ASSUME EndingInv, TornInv, agents' = agents, torn' = torn, hidden \subseteq hidden',
           \A e \in Sessions :
             pc[e] \in Ending \/ pc'[e] \in Ending =>
               pc'[e] = pc[e] /\ offer'[e] = offer[e] /\ got'[e] = got[e]
    PROVE  EndingInv' /\ TornInv'
BY DEF EndingInv, TornInv, Ends

\* Request c gets an agent, or fails to, once it has written it.
LEMMA EndingLoaded ==
    ASSUME IInv, EndingInv, TornInv, NEW c \in Sessions, LoadHit(c) \/ LoadRead(c) \/ Fill(c)
    PROVE  EndingInv' /\ TornInv'
<1>1. /\ agents' = agents /\ torn' = torn /\ hidden' = hidden /\ offer' = offer
      /\ pc' \in [Sessions -> Places] /\ pc[c] \in {"load", "reload", "fill", "refill"}
      /\ pc'[c] \in Ending <=> pc[c] \in Ending
      /\ \A e \in Sessions \ {c} : pc'[e] = pc[e] /\ got'[e] = got[e]
  <2>1. /\ agents' = agents /\ torn' = torn /\ hidden' = hidden /\ offer' = offer
        /\ pc[c] \in {"load", "reload", "fill", "refill"}
    BY DEF LoadHit, LoadRead, Fill, tables, history
  <2>2. pc \in [Sessions -> Places] /\ got \in [Sessions -> Agents \cup {None}]
    BY DEF IInv, TypeOK
  <2>3. PICK place \in {"refill", "fill", "compare", "endpoint"} :
          /\ Goto(c, place)
          /\ place \in Ending <=> pc[c] \in Ending
    <3>1. CASE LoadHit(c)
      BY <3>1 DEF LoadHit, Loaded, Ending
    <3>2. CASE LoadRead(c)
      BY <3>2 DEF LoadRead, Loaded, Ending
    <3>3. CASE Fill(c)
      BY <3>3 DEF Fill, Loaded, Ending
    <3> QED
      BY <3>1, <3>2, <3>3
  <2>4. /\ pc' \in [Sessions -> Places] /\ pc'[c] = place
        /\ \A e \in Sessions \ {c} : pc'[e] = pc[e]
    BY <2>2, <2>3 DEF Goto, Places
  <2>5. \A e \in Sessions \ {c} : got'[e] = got[e]
    BY <2>2 DEF LoadHit, LoadRead, Fill
  <2> QED
    BY <2>1, <2>3, <2>4, <2>5
<1>2. TornInv'
  BY <1>1 DEF TornInv, Ends
<1>3. ASSUME pc'[c] = "endpoint", offer[c].did \notin hidden PROVE got'[c] # None
  <2>1. pc[c] \in {"reload", "refill"}
    BY <1>1, <1>3 DEF Ending
  <2>2. agents[offer[c].did] # None
    BY <1>3, <2>1 DEF EndingInv, Ending
  <2>3. CASE LoadHit(c)
    BY <2>3 DEF LoadHit, IInv, TypeOK
  <2>4. CASE LoadRead(c)
    BY <2>2, <2>4 DEF LoadRead, IInv, TypeOK
  <2>5. CASE Fill(c)
    BY <2>5 DEF Fill, IInv, FillInv
  <2> QED
    BY <2>3, <2>4, <2>5
<1>4. EndingInv'
  BY <1>1, <1>3 DEF EndingInv
<1> QED
  BY <1>2, <1>4

\* The agent is written: who loses it is hidden.
LEMMA EndingWritten ==
    ASSUME IInv, EndingInv, TornInv, NEW c \in Sessions, StoreDid(c) \/ WriteAgent(c)
    PROVE  EndingInv' /\ TornInv'
<1> DEFINE d == offer[c].did  v == offer[c].verkey
<1>1. d \in Dids /\ c \in Sessions /\ pc[c] \notin Ending
  BY Offered DEF IInv, StoreDid, WriteAgent, Ending
<1>2. PICK fcm \in Devices \cup {None} : WriteAgents(d, v, fcm)
  BY Offered DEF IInv, StoreDid, WriteAgent
<1>3. /\ hidden \subseteq hidden' /\ agents'[d] # None
      /\ \A x \in Dids \ hidden' : agents[x] # None => agents'[x] # None
  <2>1. d \in Dids /\ v \in Verkeys
    BY Offered DEF IInv, StoreDid, WriteAgent
  <2> HIDE DEF d, v
  <2> QED
    BY <1>2, <2>1, AgentTable
<1>4. /\ offer' = offer /\ got' = got /\ pc' \in [Sessions -> Places]
      /\ \A e \in Sessions \ {c} : pc'[e] = pc[e]
      /\ pc'[c] # "endpoint"
  BY DEF IInv, TypeOK, StoreDid, WriteAgent, Goto, Places
<1>5. EndingInv'
  <2>1. ASSUME NEW e \in Sessions, pc'[e] \in Ending, offer[e].did \notin hidden'
        PROVE  agents'[offer[e].did] # None /\ (pc'[e] = "endpoint" => got[e] # None)
    <3>1. CASE e = c
      BY <1>3, <1>4, <3>1
    <3>2. CASE e # c
      <4>1. pc[e] \in Ending /\ offer[e].did \notin hidden
        BY <1>3, <1>4, <2>1, <3>2
      <4>2. offer[e].did \in Dids
        BY <4>1, Offered DEF IInv, Ending
      <4> QED
        BY <1>3, <1>4, <2>1, <3>2, <4>1, <4>2 DEF EndingInv
    <3> QED
      BY <3>1, <3>2
  <2> QED
    BY <1>4, <2>1 DEF EndingInv
<1>6. TornInv'
  <2>1. \A x \in torn : x \in hidden' \/ \E e \in Sessions : Ends(e, x)'
    BY <1>1, <1>3, <1>4 DEF TornInv, Ends
  <2>2. CASE StoreDid(c)
    BY <2>1, <2>2 DEF StoreDid, TornInv
  <2>3. CASE WriteAgent(c)
    <3>1. pc'[c] = "reload" /\ torn' = IF offer[c].fcm = None THEN torn ELSE torn \cup {d}
      BY <2>3 DEF WriteAgent, Goto, IInv, TypeOK
    <3>2. ASSUME NEW x \in torn' PROVE x \in hidden' \/ \E e \in Sessions : Ends(e, x)'
      <4>1. CASE x \in torn
        BY <2>1, <4>1
      <4>2. CASE x \notin torn
        <5>1. x = d /\ offer[c].fcm # None
          BY <3>1, <3>2, <4>2
        <5>2. Ends(c, x)'
          BY <1>4, <3>1, <5>1 DEF Ends, Ending
        <5> QED
          BY <5>2
      <4> QED
        BY <4>1, <4>2
    <3> QED
      BY <3>2 DEF TornInv
  <2> QED
    BY <2>2, <2>3
<1> QED
  BY <1>5, <1>6

\* The endpoint is written too.
LEMMA EndingStored ==
    ASSUME IInv, Apart, EndingInv, TornInv, NEW c \in Sessions, WriteEndpoint(c)
    PROVE  EndingInv' /\ TornInv'
<1> DEFINE d == offer[c].did
<1>1. /\ pc[c] = "endpoint" /\ d \in Dids /\ agents' = agents /\ pc'[c] = "idle"
      /\ \A e \in Sessions \ {c} : pc'[e] = pc[e] /\ offer'[e] = offer[e] /\ got'[e] = got[e]
  BY Offered DEF IInv, WriteEndpoint, Return
<1>2. ASSUME NEW e \in Sessions \ {c}, pc[e] \in Ending PROVE offer[e].did # d
  BY <1>1, <1>2, Offered DEF IInv, Apart, Ending
<1>3. \A x \in hidden \ hidden' : x = d
  BY DEF WriteEndpoint, StoreEndpoint
<1>4. EndingInv'
  <2>1. ASSUME NEW e \in Sessions, pc'[e] \in Ending, offer'[e].did \notin hidden'
        PROVE  agents[offer'[e].did] # None /\ (pc'[e] = "endpoint" => got'[e] # None)
    <3>1. e # c
      BY <1>1, <2>1 DEF Ending
    <3>2. pc[e] \in Ending /\ offer[e].did \notin hidden
      BY <1>1, <1>2, <1>3, <2>1, <3>1
    <3> QED
      BY <1>1, <3>1, <3>2 DEF EndingInv
  <2> QED
    BY <1>1, <2>1 DEF EndingInv
<1>5. TornInv'
  <2>1. torn' \subseteq torn
    BY DEF WriteEndpoint, StoreEndpoint
  <2>2. ASSUME NEW x \in torn' PROVE x \in hidden' \/ \E e \in Sessions : Ends(e, x)'
    <3>1. x \in hidden \/ \E e \in Sessions : Ends(e, x)
      BY <2>1, <2>2 DEF TornInv
    <3>2. CASE \E e \in Sessions \ {c} : Ends(e, x)
      BY <1>1, <3>2 DEF Ends
    <3>3. CASE x \in hidden
      <4>1. CASE x = d
        BY <2>2, <3>3, <4>1 DEF WriteEndpoint, StoreEndpoint
      <4> QED
        BY <1>3, <3>3, <4>1
    <3>4. CASE Ends(c, x) /\ x \notin hidden
      <4>1. got[c] # None /\ x = d /\ offer[c].fcm # None
        BY <1>1, <3>4 DEF Ends, EndingInv, Ending
      <4>2. torn' = torn \ {d}
        BY <4>1 DEF WriteEndpoint, StoreEndpoint
      <4> QED
        BY <2>2, <4>1, <4>2
    <3> QED
      BY <3>1, <3>2, <3>3, <3>4
  <2> QED
    BY <2>2 DEF TornInv
<1> QED
  BY <1>4, <1>5

LEMMA EndingStep ==
    ASSUME faults' = 0, IInv, Apart, EndingInv, TornInv, [Next]_vars
    PROVE  EndingInv' /\ TornInv'
<1>1. ASSUME NEW c \in Sessions, NEW w \in Workers, NEW o \in Offers, Begin(c, w, o)
      PROVE  EndingInv' /\ TornInv'
  <2>1. pc[c] = "idle" /\ pc'[c] \in {"store", "exists"}
    BY <1>1 DEF Begin, Goto, IInv, TypeOK
  <2>2. \A e \in Sessions \ {c} : pc'[e] = pc[e] /\ offer'[e] = offer[e] /\ got'[e] = got[e]
    BY <1>1 DEF Begin, Goto, IInv, TypeOK
  <2>3. agents' = agents /\ torn' = torn /\ hidden \subseteq hidden'
    BY <1>1 DEF Begin
  <2> QED
    BY <2>1, <2>2, <2>3, EndingKept DEF Ending
<1>2. ASSUME NEW c \in Sessions, IsExists(c) \/ Insert(c) \/ Update(c) \/ Remember(c) \/ Compare(c)
      PROVE  EndingInv' /\ TornInv'
  <2>1. /\ pc[c] \in {"exists", "insert", "update", "remember", "compare"}
        /\ agents' = agents /\ torn' = torn /\ hidden \subseteq hidden'
    BY <1>2 DEF IsExists, Insert, Update, Remember, Compare, tables, history
  <2>2. pc'[c] \in {"create", "update", "remember", "idle", "load", "agent"}
    BY <1>2 DEF IsExists, Insert, Update, Remember, Compare, WritePairwise, Stored, Return, Goto,
                IInv, TypeOK
  <2>3. \A e \in Sessions \ {c} : pc'[e] = pc[e] /\ offer'[e] = offer[e] /\ got'[e] = got[e]
    BY <1>2 DEF IsExists, Insert, Update, Remember, Compare, WritePairwise, Stored, Return, Goto,
                IInv, TypeOK
  <2> QED
    BY <2>1, <2>2, <2>3, EndingKept DEF Ending
<1>3. ASSUME NEW d \in Dids, Expire(d) PROVE EndingInv' /\ TornInv'
  BY <1>3, EndingKept DEF Expire, tables, locals, history
<1>4. ASSUME (\E w \in Workers : Crash(w)) \/ (\E c \in Sessions : Fail(c)) PROVE FALSE
  <2>1. faults' = faults + 1
    BY <1>4 DEF Crash, Fail
  <2>2. faults \in Nat
    BY RegistrationAssumption DEF IInv, TypeOK
  <2> QED
    BY <2>1, <2>2
<1>5. ASSUME NEW p \in Posts, PutBack(p) \/ \E d \in Dids : Load(p, d)
      PROVE  EndingInv' /\ TornInv'
  <2>1. agents' = agents /\ torn' = torn /\ hidden \subseteq hidden' /\ UNCHANGED locals
    BY <1>5 DEF PutBack, Load, tables, history
  <2> QED
    BY <2>1, EndingKept DEF locals
<1>6. CASE UNCHANGED vars
  BY <1>6, EndingKept DEF vars, tables, locals, history
<1> QED
  BY <1>1, <1>2, <1>3, <1>4, <1>5, <1>6, EndingLoaded, EndingWritten, EndingStored DEF Next

\* A post has loaded what is stored, and puts nothing else back, unless the agent
\* of its DID is hidden.
PostInv ==
    \A p \in Posts :
        post[p] # None => endpoints[post[p].did] = post[p].row \/ post[p].did \in hidden
RestoredInv == restored \subseteq hidden

\* No post is under way with a row that it has loaded, while a request for its DID
\* is in progress.
PostsApart ==
    \A p \in Posts, c \in Sessions : post[p] # None /\ Busy(c) => post[p].did # offer[c].did

\* Steps that write no endpoint.
LEMMA PostsKept ==
    ASSUME PostInv, RestoredInv, UNCHANGED <<endpoints, post, restored>>, hidden \subseteq hidden'
    PROVE  PostInv' /\ RestoredInv'
BY DEF PostInv, RestoredInv

\* Steps that write the endpoint of d, for which there is no post.
LEMMA PostsWritten ==
    ASSUME TypeOK, PostInv, RestoredInv, post' = post, NEW d \in Dids,
           \A p \in Posts : post[p] # None => post[p].did # d,
           \A x \in Dids \ {d} : endpoints'[x] = endpoints[x] \/ x \in hidden',
           \A x \in hidden : x \in hidden' \/ (x = d /\ d \notin restored'),
           restored' \subseteq restored
    PROVE  PostInv' /\ RestoredInv'
<1>1. \A p \in Posts : post[p] # None => post[p].did \in Dids
  BY Posted
<1> QED
  BY <1>1 DEF PostInv, RestoredInv

LEMMA PostsStep ==
    ASSUME IInv, PostsApart, PostsApart', PostInv, RestoredInv, [Next]_vars
    PROVE  PostInv' /\ RestoredInv'
<1>1. ASSUME NEW c \in Sessions, NEW w \in Workers, NEW o \in Offers, Begin(c, w, o)
      PROVE  PostInv' /\ RestoredInv'
  <2>1. /\ post' = post /\ restored' = restored /\ hidden \subseteq hidden'
        /\ offer' = [offer EXCEPT ![c] = o]
    BY <1>1 DEF Begin, posting
  <2>2. offer'[c] = o /\ o # None /\ o.did \in Dids /\ o.verkey \in Verkeys
    BY <2>1, Absent DEF IInv, TypeOK
  <2>3. \A p \in Posts : post[p] # None => post[p].did # o.did
    BY <2>1, <2>2 DEF PostsApart, Busy
  <2>4. \A x \in Dids \ {o.did} : endpoints'[x] = endpoints[x] \/ x \in hidden'
    <3>1. CASE UNCHANGED endpoints
      BY <3>1
    <3>2. CASE /\ endpoints' = EndpointsAfter(o.did, o.verkey, None, None)
               /\ hidden' = hidden \cup Losers(endpoints, o.did, o.verkey)
      <4>1. \A x \in Dids \ {o.did} :
              EndpointsAfter(o.did, o.verkey, None, None)[x] =
                IF x \in Losers(endpoints, o.did, o.verkey) THEN None ELSE endpoints[x]
        <5>1. o.did \in Dids /\ o.verkey \in Verkeys
          BY <2>2
        <5> QED
          BY <5>1, EndpointTable
      <4> QED
        BY <3>2, <4>1
    <3> QED
      BY <1>1, <3>1, <3>2 DEF Begin
  <2> QED
    BY <2>1, <2>2, <2>3, <2>4, PostsWritten DEF IInv
<1>2. ASSUME NEW c \in Sessions, WriteEndpoint(c)
      PROVE  PostInv' /\ RestoredInv'
  <2>1. CASE got[c] = None
    BY <1>2, <2>1, PostsKept DEF WriteEndpoint, posting
  <2>2. CASE got[c] # None
    <3> DEFINE o == offer[c]
               ls == Losers(endpoints, o.did, o.verkey)
    <3>1. Busy(c) /\ o.did \in Dids /\ o.verkey \in Verkeys /\ o.fcm \in Devices \cup {None}
          /\ got[c].id \in Ids
      BY <1>2, <2>2, Offered DEF WriteEndpoint, IInv, TypeOK, Agents
    <3>2. /\ post' = post /\ endpoints' = EndpointsAfter(o.did, o.verkey, got[c].id, o.fcm)
          /\ restored' = IF o.fcm = None THEN restored ELSE restored \ {o.did}
          /\ hidden' = (hidden \cup ls)
                           \ (IF o.fcm # None /\ got[c] = agents[o.did] THEN {o.did} ELSE {})
      BY <1>2, <2>2 DEF WriteEndpoint, StoreEndpoint, posting
    <3>3. \A x \in Dids \ {o.did} : endpoints'[x] = endpoints[x] \/ x \in hidden'
      BY <3>1, <3>2, EndpointTable
    <3>4. \A p \in Posts : post[p] # None => post[p].did # o.did
      BY <3>1 DEF PostsApart
    <3>5. /\ \A x \in hidden : x \in hidden' \/ (x = o.did /\ o.did \notin restored')
          /\ restored' \subseteq restored
      <4> HIDE DEF ls
      <4> QED
        BY <3>2
    <3> QED
      BY <3>1, <3>2, <3>3, <3>4, <3>5, PostsWritten DEF IInv
  <2> QED
    BY <2>1, <2>2
<1>3. ASSUME NEW p \in Posts, NEW d \in Dids, Load(p, d) PROVE PostInv' /\ RestoredInv'
  <2>1. /\ post' = [post EXCEPT ![p] = [did |-> d, row |-> endpoints[d]]]
        /\ UNCHANGED <<endpoints, hidden, restored>>
    BY <1>3 DEF Load, tables, history
  <2>2. /\ post'[p].did = d /\ post'[p].row = endpoints[d]
        /\ \A q \in Posts \ {p} : post'[q] = post[q]
    BY <2>1 DEF IInv, TypeOK
  <2> QED
    BY <2>1, <2>2 DEF PostInv, RestoredInv
<1>4. ASSUME NEW p \in Posts, PutBack(p) PROVE PostInv' /\ RestoredInv'
  <2> DEFINE d == post[p].did
             row == post[p].row
             ls == Losers(endpoints, d, row.verkey)
  <2>1. /\ post[p] # None /\ post'[p] = None
        /\ \A q \in Posts \ {p} : post'[q] = post[q]
    BY <1>4 DEF PutBack, IInv, TypeOK
  <2>2. CASE UNCHANGED <<endpoints, hidden, restored>>
    BY <2>1, <2>2 DEF PostInv, RestoredInv
  <2>3. CASE /\ endpoints' = EndpointsAfter(d, row.verkey, row.agent, row.fcm)
             /\ hidden' = hidden \cup ls
             /\ restored' = IF endpoints[d] = row THEN restored ELSE restored \cup {d}
    <3>1. /\ d \in Dids /\ row.verkey \in Verkeys /\ row.agent \in Ids \cup {None}
          /\ row.fcm \in Devices \cup {None}
          /\ row = [verkey |-> row.verkey, agent |-> row.agent, fcm |-> row.fcm]
      BY <2>1, Posted DEF IInv
    <3>2. \A x \in Dids \ {d} : endpoints'[x] = endpoints[x] \/ x \in hidden'
      <4> HIDE DEF d, row
      <4> QED
        BY <2>3, <3>1, EndpointTable
    <3>3. endpoints[d] = row => endpoints'[d] = row
      <4>1. d \notin ls
        BY DEF Losers
      <4>2. row # None
        BY <2>1, Absent DEF IInv, TypeOK, Loads
      <4> HIDE DEF d, row, ls
      <4>3. ASSUME endpoints[d] = row PROVE endpoints'[d] = row
        <5>1. endpoints'[d] = [verkey |-> row.verkey,
                               agent |-> IF row.agent = None THEN row.agent ELSE row.agent,
                               fcm |-> IF row.fcm = None THEN row.fcm ELSE row.fcm]
          BY <2>3, <3>1, <4>1, <4>2, <4>3 DEF EndpointsAfter, ls
        <5> QED
          BY <3>1, <5>1
      <4> QED
        BY <4>3
    <3>4. endpoints[d] = row \/ d \in hidden
      BY <2>1 DEF PostInv
    <3>5. \A q \in Posts : post[q] # None => post[q].did \in Dids
      BY Posted DEF IInv
    <3> HIDE DEF d, row, ls
    <3>6. hidden \subseteq hidden' /\ RestoredInv'
      BY <2>3, <3>4 DEF RestoredInv
    <3>7. ASSUME NEW q \in Posts \ {p}, post[q] # None
          PROVE  endpoints'[post[q].did] = post[q].row \/ post[q].did \in hidden'
      <4>1. endpoints[post[q].did] = post[q].row \/ post[q].did \in hidden
        BY <3>7 DEF PostInv
      <4> QED
        BY <3>2, <3>3, <3>4, <3>5, <3>6, <3>7, <4>1
    <3> QED
      BY <2>1, <3>6, <3>7 DEF PostInv
  <2> QED
    BY <1>4, <2>2, <2>3 DEF PutBack
<1>5. ASSUME \/ \E c \in Sessions :
                  \/ IsExists(c) \/ StoreDid(c) \/ Insert(c) \/ Update(c) \/ Remember(c)
                  \/ LoadHit(c) \/ LoadRead(c) \/ Fill(c)
                  \/ Compare(c) \/ WriteAgent(c) \/ Fail(c)
             \/ \E d \in Dids : Expire(d)
             \/ \E w \in Workers : Crash(w)
             \/ UNCHANGED vars
      PROVE  PostInv' /\ RestoredInv'
  <2>1. UNCHANGED <<endpoints, post, restored>> /\ hidden \subseteq hidden'
    BY <1>5 DEF IsExists, StoreDid, Insert, Update, Remember, LoadHit, LoadRead, Fill, Compare,
                WriteAgent, WriteAgents, Fail, Expire, Crash, vars, tables, history, posting
  <2> QED
    BY <2>1, PostsKept
<1> QED
  BY <1>1, <1>2, <1>3, <1>4, <1>5 DEF Next

\* A device that has registered a device id can be reached with it, unless its
\* agent is hidden.
ReachableUnlessHidden ==
    \A d \in Dids \ hidden :
        done[d] # None /\ done[d].fcm # None
          => /\ endpoints[d] # None /\ agents[d] # None
             /\ endpoints[d].fcm = done[d].fcm
             /\ endpoints[d].agent = agents[d].id

\* What leaves an agent and its endpoint apart, which are written one after the
\* other: as long as no worker dies and no query fails, requests with a DID or a
\* verkey in common do not overlap, and no registration begins or runs while a post
\* holds a row of its DID, what is left of the exceptions is that memcached, or
\* another DID with the verkey, hides the agent.
THEOREM WholeIfUndisturbed ==
    Spec /\ [](faults = 0) /\ []Apart /\ []PostsApart => []ReachableUnlessHidden
<1> DEFINE Fine == raced = {}
           Whole == EndingInv /\ TornInv
           Held == PostInv /\ RestoredInv
           Sound == faults = 0
<1>1. Init => Fine /\ Whole /\ Held
  BY DEF Init, EndingInv, TornInv, Ending, PostInv, RestoredInv
<1>2. Fine /\ TypeOK /\ TypeOK' /\ Apart' /\ [Next]_vars => Fine'
  BY ApartStep
<1>3. Whole /\ IInv /\ Apart /\ Sound' /\ [Next]_vars => Whole'
  BY EndingStep
<1>4. Held /\ IInv /\ PostsApart /\ PostsApart' /\ [Next]_vars => Held'
  BY PostsStep
<1>5. IInv /\ Fine /\ Whole /\ Held => ReachableUnlessHidden
  <2> SUFFICES ASSUME IInv, Fine, Whole, Held,
                      NEW d \in Dids \ hidden, done[d] # None, done[d].fcm # None
               PROVE  /\ endpoints[d] # None /\ agents[d] # None
                      /\ endpoints[d].fcm = done[d].fcm
                      /\ endpoints[d].agent = agents[d].id
    BY DEF ReachableUnlessHidden
  <2>1. \A c \in Sessions : Busy(c) => offer[c].did # d
    BY DEF IInv, PairwisesInv, DoneInv
  <2>2. d \notin torn /\ d \notin restored
    BY <2>1, Offered DEF IInv, TornInv, Ends, Ending, RestoredInv
  <2> QED
    BY <2>2 DEF IInv, AgentsInv, ReachableAsRegistered
<1>6. (faults = 0) <=> Sound
  OBVIOUS
<1> HIDE DEF Fine, Whole, Held, Sound
<1>7. Spec /\ []Apart => []Fine
  BY <1>1, <1>2, Typing, PTL DEF Spec
<1>8. Spec /\ [](faults = 0) /\ []Apart => []Whole
  BY <1>1, <1>3, <1>6, Invariance, PTL DEF Spec
<1>9. Spec /\ []PostsApart => []Held
  BY <1>1, <1>4, Invariance, PTL DEF Spec
<1> QED
  BY <1>5, <1>7, <1>8, <1>9, Invariance, PTL
=============================================================================
