---------------------------- MODULE Reload_proofs ---------------------------
(***************************************************************************)
(* A container that a broadcast has reached serves what the settings say,  *)
(* for any containers, Redis servers, plans and failures.                  *)
(***************************************************************************)
EXTENDS Management_proofs, SequenceTheorems

-----------------------------------------------------------------------------
(* Programs *)

Elems(sq) == {sq[k] : k \in DOMAIN sq}

\* A message for the first server: with it a broadcast begins.
First(x) == x.op = "publish" /\ x.server = Redis[1]

\* Nothing but messages and what is to be remembered comes after a reload, and
\* the first server gets its message before the others.
Shaped(sq) ==
    \A j, k \in DOMAIN sq : j < k /\ sq[j].op \in {"apply", "publish", "remember"} =>
        sq[k].op \in {"publish", "remember"} /\ (sq[j].op = "publish" => ~First(sq[k]))

LEMMA Tails ==
    ASSUME NEW S, NEW sq \in Seq(S), sq # <<>>
    PROVE  /\ Tail(sq) \in Seq(S) /\ Head(sq) = sq[1] /\ 1 \in DOMAIN sq
           /\ \A k \in DOMAIN sq : k \in Nat /\ 1 <= k
           /\ \A k \in DOMAIN Tail(sq) : k \in Nat /\ 1 <= k /\ k + 1 \in DOMAIN sq /\ Tail(sq)[k] = sq[k + 1]
           /\ \A k \in DOMAIN sq : k # 1 => k - 1 \in DOMAIN Tail(sq) /\ Tail(sq)[k - 1] = sq[k]
OBVIOUS

LEMMA TailOfOne ==
    ASSUME NEW S, NEW sq \in Seq(S), Len(sq) = 1
    PROVE  Tail(sq) = <<>>
<1>1. sq # <<>>
  OBVIOUS
<1>2. Tail(sq) \in Seq(S) /\ Len(Tail(sq)) = 0
  BY <1>1, HeadTailProperties
<1> QED
  BY <1>2, EmptySeq

LEMMA ShapedTail ==
    ASSUME NEW sq \in Seq(Steps), sq # <<>>, Shaped(sq)
    PROVE  /\ Shaped(Tail(sq))
           /\ Head(sq).op \in {"apply", "publish", "remember"} =>
                \A x \in Elems(Tail(sq)) :
                    x.op \in {"publish", "remember"} /\ (Head(sq).op = "publish" => ~First(x))
<1>1. Shaped(Tail(sq))
  BY Tails DEF Shaped
<1>2. ASSUME Head(sq).op \in {"apply", "publish", "remember"}, NEW k \in DOMAIN Tail(sq)
      PROVE  Tail(sq)[k].op \in {"publish", "remember"} /\ (Head(sq).op = "publish" => ~First(Tail(sq)[k]))
  <2>1. 1 \in DOMAIN sq /\ k + 1 \in DOMAIN sq /\ 1 < k + 1 /\ Tail(sq)[k] = sq[k + 1] /\ Head(sq) = sq[1]
    BY Tails
  <2> QED
    BY <1>2, <2>1 DEF Shaped
<1> QED
  BY <1>1, <1>2 DEF Elems

LEMMA ElemsTail ==
    ASSUME NEW S, NEW sq \in Seq(S), sq # <<>>
    PROVE  Elems(sq) = {Head(sq)} \cup Elems(Tail(sq))
<1>1. ASSUME NEW k \in DOMAIN sq PROVE sq[k] \in {Head(sq)} \cup Elems(Tail(sq))
  BY Tails DEF Elems
<1>2. ASSUME NEW k \in DOMAIN Tail(sq) PROVE Tail(sq)[k] \in Elems(sq)
  BY Tails DEF Elems
<1>3. Head(sq) \in Elems(sq)
  BY Tails DEF Elems
<1> QED
  BY <1>1, <1>2, <1>3 DEF Elems

\* A program without the next two steps.
LEMMA TwoLess ==
    ASSUME NEW sq \in Seq(Steps), Shaped(sq)
    PROVE  LET less == SubSeq(sq, 3, Len(sq))
           IN  Elems(less) \subseteq Elems(sq) /\ Shaped(less)
<1> DEFINE less == SubSeq(sq, 3, Len(sq))
<1>1. \A k \in DOMAIN less : k \in Nat /\ k + 2 \in DOMAIN sq /\ less[k] = sq[k + 2]
  OBVIOUS
<1> HIDE DEF less
<1>2. Elems(less) \subseteq Elems(sq)
  BY <1>1 DEF Elems
<1>3. Shaped(less)
  <2> SUFFICES ASSUME NEW j \in DOMAIN less, NEW k \in DOMAIN less, j < k,
                      less[j].op \in {"apply", "publish", "remember"}
               PROVE  /\ less[k].op \in {"publish", "remember"}
                      /\ less[j].op = "publish" => ~First(less[k])
    BY DEF Shaped
  <2>1. j + 2 \in DOMAIN sq /\ k + 2 \in DOMAIN sq /\ j + 2 < k + 2
    BY <1>1
  <2> QED
    BY <1>1, <2>1 DEF Shaped
<1> QED
  BY <1>2, <1>3 DEF less

LEMMA ReloadSteps ==
    /\ Reload \in Seq(Steps) /\ Len(Reload) = 3
    /\ Reload[1] = Get("webroot") /\ Reload[2] = Get("ssl") /\ Reload[3] = [op |-> "apply"]
<1>1. Get("webroot") \in Steps /\ Get("ssl") \in Steps /\ [op |-> "apply"] \in Steps
  BY DEF Get, Steps, Names
<1> QED
  BY <1>1 DEF Reload

LEMMA Concatenated ==
    ASSUME NEW s \in Seq(Steps), NEW t \in Seq(Steps)
    PROVE  /\ s \o t \in Seq(Steps) /\ Len(s) \in Nat /\ Len(t) \in Nat
           /\ DOMAIN s = 1..Len(s) /\ DOMAIN t = 1..Len(t)
           /\ Len(s \o t) = Len(s) + Len(t) /\ DOMAIN (s \o t) = 1..(Len(s) + Len(t))
           /\ \A k \in 1..Len(s) : (s \o t)[k] = s[k]
           /\ \A k \in 1..(Len(s) + Len(t)) : k > Len(s) => (s \o t)[k] = t[k - Len(s)]
OBVIOUS

\* A reload followed by messages.
LEMMA ReloadThen ==
    ASSUME NEW ps \in Seq(Steps), \A x \in Elems(ps) : x.op \in {"publish", "remember"},
           \A j, k \in DOMAIN ps : j < k => ~First(ps[k])
    PROVE  LET sq == Reload \o ps
           IN  /\ Shaped(sq)
               /\ Elems(sq) = {Get("webroot"), Get("ssl"), [op |-> "apply"]} \cup Elems(ps)
<1> DEFINE sq == Reload \o ps
<1>10. /\ DOMAIN sq = 1..(3 + Len(ps)) /\ Len(ps) \in Nat /\ DOMAIN ps = 1..Len(ps)
       /\ \A k \in 1..3 : sq[k] = Reload[k]
       /\ \A k \in 1..(3 + Len(ps)) : k > 3 => sq[k] = ps[k - 3]
  <2>1. Reload \in Seq(Steps) /\ Len(Reload) = 3
    BY ReloadSteps
  <2>2. /\ DOMAIN sq = 1..(Len(Reload) + Len(ps)) /\ Len(ps) \in Nat /\ DOMAIN ps = 1..Len(ps)
        /\ \A k \in 1..Len(Reload) : sq[k] = Reload[k]
        /\ \A k \in 1..(Len(Reload) + Len(ps)) : k > Len(Reload) => sq[k] = ps[k - Len(Reload)]
    BY <2>1, Concatenated
  <2> HIDE DEF sq
  <2> QED
    BY <2>1, <2>2
<1> HIDE DEF sq
<1>1. /\ DOMAIN sq = 1..(3 + Len(ps)) /\ Len(ps) \in Nat /\ DOMAIN ps = 1..Len(ps)
      /\ sq[1] = Get("webroot") /\ sq[2] = Get("ssl") /\ sq[3] = [op |-> "apply"]
      /\ \A k \in DOMAIN sq : k > 3 => k - 3 \in DOMAIN ps /\ sq[k] = ps[k - 3]
  BY <1>10, ReloadSteps
<1>8. \A k \in DOMAIN ps : k \in Nat /\ k + 3 \in DOMAIN sq /\ k + 3 > 3 /\ (k + 3) - 3 = k
  BY <1>1
<1>9. \A k \in DOMAIN ps : sq[k + 3] = ps[k]
  BY <1>1, <1>8
<1>2. /\ 1 \in DOMAIN sq /\ 2 \in DOMAIN sq /\ 3 \in DOMAIN sq
      /\ sq[1].op = "get" /\ sq[2].op = "get" /\ sq[3].op = "apply"
  BY <1>1 DEF Get
<1>3. \A k \in DOMAIN sq : k \in Nat /\ (k = 1 \/ k = 2 \/ k = 3 \/ k > 3)
  BY <1>1
<1>4. Shaped(sq)
  <2> SUFFICES ASSUME NEW j \in DOMAIN sq, NEW k \in DOMAIN sq, j < k,
                      sq[j].op \in {"apply", "publish", "remember"}
               PROVE  sq[k].op \in {"publish", "remember"} /\ (sq[j].op = "publish" => ~First(sq[k]))
    BY DEF Shaped
  <2>1. j \in Nat /\ k \in Nat /\ j >= 3 /\ k > 3
    BY <1>2, <1>3
  <2>2. k - 3 \in DOMAIN ps /\ sq[k] = ps[k - 3] /\ ps[k - 3] \in Elems(ps)
    BY <1>1, <2>1 DEF Elems
  <2>3. sq[j].op = "publish" => j - 3 \in DOMAIN ps /\ j - 3 < k - 3
    BY <1>1, <1>2, <2>1
  <2> QED
    BY <2>2, <2>3
<1>5. ASSUME NEW k \in DOMAIN sq
      PROVE  sq[k] \in {Get("webroot"), Get("ssl"), [op |-> "apply"]} \cup Elems(ps)
  BY <1>1, <1>3 DEF Elems
<1>6. ASSUME NEW x \in {Get("webroot"), Get("ssl"), [op |-> "apply"]} \cup Elems(ps)
      PROVE  \E k \in DOMAIN sq : sq[k] = x
  <2>1. CASE x \in Elems(ps)
    BY <1>8, <1>9, <2>1 DEF Elems
  <2>2. CASE x \in {Get("webroot"), Get("ssl"), [op |-> "apply"]}
    BY <1>1, <1>2, <2>2
  <2> QED
    BY <1>6, <2>1, <2>2
<1>7. Elems(sq) = {Get("webroot"), Get("ssl"), [op |-> "apply"]} \cup Elems(ps)
  BY <1>5, <1>6 DEF Elems
<1> QED
  BY <1>4, <1>7 DEF sq

\* What a request publishes is its own marker, and a reload reads both settings.
LEMMA ProgramShaped ==
    ASSUME NEW r \in Request, NEW m \in Markers
    PROVE  LET sq == Program(r, m)
           IN  /\ Shaped(sq)
               /\ \A x \in Elems(sq) : x.op # "remember" /\ (x.op = "publish" => x.marker = m)
               /\ (\E x \in Elems(sq) : x.op = "apply") =>
                    /\ r.kind \in {"ssl", "reload", "broadcast"}
                    /\ Get("webroot") \in Elems(sq) /\ Get("ssl") \in Elems(sq)
               /\ \A x, y \in Elems(sq) : x.op = "look" => y.op # "apply"
<1> DEFINE sq == Program(r, m)
<1>1. CASE r.kind = "reload"
  <2>1. sq = Reload \o <<>>
    BY <1>1, ReloadSteps DEF Program
  <2>2. <<>> \in Seq(Steps) /\ Elems(<<>>) = {} /\ \A j \in DOMAIN <<>> : FALSE
    BY DEF Elems
  <2> HIDE DEF sq
  <2>3. Shaped(sq) /\ Elems(sq) = {Get("webroot"), Get("ssl"), [op |-> "apply"]}
    BY <2>1, <2>2, ReloadThen
  <2> QED
    BY <1>1, <2>3 DEF Get, sq
<1>2. CASE r.kind = "ssl"
  <2>1. sq = <<Set("ssl", r.value)>> \o Reload
    BY <1>2 DEF Program
  <2>2. Set("ssl", r.value) \in Steps
    BY <1>2 DEF Request, Set, Steps, Names, Settings
  <2> DEFINE one == <<Set("ssl", r.value)>>
  <2>6. one \in Seq(Steps) /\ Len(one) = 1 /\ one[1] = Set("ssl", r.value)
    BY <2>2
  <2>7. sq = one \o Reload
    BY <2>1
  <2> HIDE DEF sq, one
  <2>8. /\ DOMAIN sq = 1..4 /\ \A k \in 1..1 : sq[k] = one[k]
        /\ \A k \in 1..4 : k > 1 => sq[k] = Reload[k - 1]
    <3>1. Reload \in Seq(Steps) /\ Len(Reload) = 3
      BY ReloadSteps
    <3>2. /\ DOMAIN sq = 1..(Len(one) + Len(Reload)) /\ \A k \in 1..Len(one) : sq[k] = one[k]
          /\ \A k \in 1..(Len(one) + Len(Reload)) : k > Len(one) => sq[k] = Reload[k - Len(one)]
      BY <2>6, <2>7, <3>1, Concatenated
    <3> QED
      BY <2>6, <3>1, <3>2
  <2>3. /\ DOMAIN sq = 1..4
        /\ sq[1] = Set("ssl", r.value) /\ sq[2] = Get("webroot") /\ sq[3] = Get("ssl")
        /\ sq[4] = [op |-> "apply"]
    BY <2>6, <2>8, ReloadSteps
  <2>4. Elems(sq) = {Set("ssl", r.value), Get("webroot"), Get("ssl"), [op |-> "apply"]}
    <3>1. 1..4 = {1, 2, 3, 4}
      OBVIOUS
    <3> QED
      BY <2>3, <3>1 DEF Elems
  <2>5. Shaped(sq)
    BY <2>3 DEF Shaped, Get, Set
  <2> QED
    BY <1>2, <2>4, <2>5 DEF Get, Set, sq
<1>3. CASE r.kind = "broadcast"
  <2> DEFINE ps == [k \in DOMAIN Redis |-> Publish(Redis[k], m)]
  <2>1. \A k \in DOMAIN Redis : Publish(Redis[k], m) \in Steps
    BY DEF Publish, Steps, Servers
  <2>2. ps \in Seq(Steps) /\ DOMAIN ps = DOMAIN Redis
    BY <2>1, ManagementAssumption
  <2>3. \A k \in DOMAIN ps : ps[k].op = "publish" /\ ps[k].server = Redis[k] /\ ps[k].marker = m
    BY DEF Publish
  <2>4. \A j, k \in DOMAIN ps : j < k => ~First(ps[k])
    <3> SUFFICES ASSUME NEW j \in DOMAIN Redis, NEW k \in DOMAIN Redis, j < k, First(ps[k]) PROVE FALSE
      OBVIOUS
    <3>1. j \in Nat /\ k \in Nat /\ 1 <= j /\ 1 \in DOMAIN Redis
      BY ManagementAssumption
    <3>2. Redis[k] = Redis[1]
      BY <2>3 DEF First
    <3> QED
      BY <3>1, <3>2, ManagementAssumption
  <2>5. sq = Reload \o ps
    BY <1>3 DEF Program
  <2> HIDE DEF ps, sq
  <2>6. \A x \in Elems(ps) : x.op = "publish" /\ x.marker = m
    BY <2>3 DEF Elems
  <2>7. Shaped(sq) /\ Elems(sq) = {Get("webroot"), Get("ssl"), [op |-> "apply"]} \cup Elems(ps)
    BY <2>2, <2>4, <2>5, <2>6, ReloadThen
  <2> QED
    BY <1>3, <2>6, <2>7 DEF sq, Get
<1>4. CASE r.kind \notin {"ssl", "reload", "broadcast"}
  <2>1. \/ sq = <<Set(r.name, r.value)>>
        \/ sq = <<Set("acme", r.value), Look(r.value), Store(Account, r.value), Get("webroot")>>
        \/ sq = <<Set("email", r.value), [op |-> "check"], Set("configured", "on")>>
        \/ sq = <<[op |-> "clear"]>> \/ sq = <<Store(r.key, r.value)>>
        \/ sq = <<[op |-> "remove", key |-> r.key]>>
    BY <1>4 DEF Program, Request
  <2>2. \A k \in DOMAIN sq : sq[k].op \in {"set", "look", "store", "get", "check", "clear", "remove"}
    <3> HIDE DEF sq
    <3> QED
      BY <2>1 DEF Set, Look, Store, Get
  <2> HIDE DEF sq
  <2>3. Shaped(sq)
    BY <2>2 DEF Shaped
  <2> QED
    BY <2>2, <2>3 DEF sq, Elems
<1> QED
  BY <1>1, <1>2, <1>3, <1>4

-----------------------------------------------------------------------------
(* Steps of one process *)

\* The steps that a process has left, and the messages that wait for a listener.
Left(p) == Elems(todo[p])
Sent(l) == Elems(inbox[l])

\* What a process with a program may do.
Acts(p) ==
    \/ Delete(p) \/ Write(p) \/ GetHit(p) \/ GetRead(p) \/ Fill(p) \/ Check(p) \/ Clear(p)
    \/ Apply(p) \/ ApplyFails(p) \/ Announce(p)
    \/ LoadAccount(p) \/ Select(p) \/ StoreRow(p) \/ Remove(p)
    \/ p \in Listeners /\ Remember(p)

\* Only p moves, and its program only gets shorter.
Alone(p) ==
    /\ todo[p] # <<>> /\ todo'[p] \in {todo[p], Tail(todo[p]), SubSeq(todo[p], 3, Len(todo[p])), <<>>}
    /\ Instance(p)' = Instance(p) \/ todo'[p] = <<>>
    /\ \A q \in Procs \ {p} :
         /\ todo'[q] = todo[q] /\ (q \in half' <=> q \in half) /\ got'[q] = got[q]
         /\ Instance(q)' = Instance(q)

LEMMA RunAlone ==
    ASSUME TypeOK, NEW p \in Procs, todo[p] # <<>>, Advance(p) \/ Abort(p),
           \A q \in Procs \ {p} : got'[q] = got[q]
    PROVE  Alone(p)
<1>1. \A q \in Procs \ {p} : todo'[q] = todo[q] /\ (q \in half' <=> q \in half)
  BY Advanced, Aborted
<1>2. todo'[p] \in {todo[p], Tail(todo[p]), <<>>}
  BY Advanced, Aborted
<1>3. \A q \in Procs \ {p} : Instance(q)' = Instance(q)
  BY DEF Advance, Abort, Run, Instance, TypeOK, Procs
<1>4. Instance(p)' = Instance(p) \/ todo'[p] = <<>>
  <2>1. CASE Advance(p)
    BY <2>1, Advanced DEF Advance, Run, Instance, TypeOK
  <2>2. CASE Abort(p)
    BY <2>2, Aborted
  <2> QED
    BY <2>1, <2>2
<1> QED
  BY <1>1, <1>2, <1>3, <1>4 DEF Alone

LEMMA SkipAlone ==
    ASSUME TypeOK, NEW p \in Procs, todo[p] # <<>>, Run(p, SubSeq(todo[p], 3, Len(todo[p]))),
           \A q \in Procs \ {p} : got'[q] = got[q]
    PROVE  Alone(p)
<1>1. /\ \A q \in Procs \ {p} : todo'[q] = todo[q] /\ (q \in half' <=> q \in half)
      /\ todo'[p] = SubSeq(todo[p], 3, Len(todo[p]))
  BY Skipped
<1>2. Instance(p)' = Instance(p) \/ todo'[p] = <<>>
  BY <1>1 DEF Run, Instance, TypeOK
<1>3. \A q \in Procs \ {p} : Instance(q)' = Instance(q)
  BY DEF Run, Instance, TypeOK, Procs
<1> QED
  BY <1>1, <1>2, <1>3 DEF Alone

LEMMA HalfAlone ==
    ASSUME TypeOK, NEW p \in Procs, todo[p] # <<>>, half' = half \cup {p}, UNCHANGED <<todo, home>>,
           \A q \in Procs \ {p} : got'[q] = got[q]
    PROVE  Alone(p)
BY DEF Alone, Instance

LEMMA ActsAlone ==
    ASSUME TypeOK, NEW p \in Procs, Acts(p)
    PROVE  Alone(p)
<1>1. CASE Delete(p)
  BY <1>1, Busy, HalfAlone DEF Delete
<1>2. CASE GetRead(p)
  BY <1>2, Busy, HalfAlone DEF GetRead, TypeOK
<1>3. CASE Write(p) \/ Fill(p) \/ Clear(p) \/ Remove(p)
  BY <1>3, Busy, Forgotten, RunAlone DEF Write, Fill, Clear, Remove
<1>4. CASE GetHit(p)
  <2>1. \A q \in Procs \ {p} : got'[q] = got[q]
    BY <1>4 DEF GetHit, Read, TypeOK
  <2> QED
    BY <1>4, <2>1, Busy, RunAlone DEF GetHit
<1>5. CASE Check(p) \/ Announce(p)
  <2>1. \A q \in Procs \ {p} : got'[q] = got[q]
    BY <1>5, Forgotten DEF Check, Announce, Abort, TypeOK
  <2> QED
    BY <1>5, <2>1, Busy, RunAlone DEF Check, Announce
<1>6. CASE Apply(p) \/ ApplyFails(p)
  <2>1. \A q \in Procs \ {p} : got'[q] = got[q]
    BY <1>6 DEF Apply, ApplyFails, Abort, TypeOK
  <2> QED
    BY <1>6, <2>1, Busy, RunAlone DEF Apply, ApplyFails
<1>7. CASE Select(p)
  <2>1. \A q \in Procs \ {p} : got'[q] = got[q]
    BY <1>7 DEF Select, TypeOK
  <2> QED
    BY <1>7, <2>1, Busy, RunAlone, HalfAlone DEF Select
<1>8. CASE StoreRow(p)
  <2>1. \A q \in Procs \ {p} : got'[q] = got[q]
    BY <1>8 DEF StoreRow, TypeOK
  <2> QED
    BY <1>8, <2>1, Busy, RunAlone DEF StoreRow
<1>9. CASE Remember(p)
  BY <1>9, Busy, RunAlone DEF Remember
<1>10. CASE LoadAccount(p)
  <2>1. \A q \in Procs \ {p} : got'[q] = got[q]
    BY <1>10 DEF LoadAccount, Abort, TypeOK
  <2> QED
    BY <1>10, <2>1, Busy, RunAlone, SkipAlone DEF LoadAccount
<1> QED
  BY <1>1, <1>2, <1>3, <1>4, <1>5, <1>6, <1>7, <1>8, <1>9, <1>10 DEF Acts

-----------------------------------------------------------------------------
(* Programs and markers *)

\* A listener only reloads and remembers, and who looks for an account does not
\* reload.
ShapeInv ==
    /\ \A p \in Procs : Shaped(todo[p])
    /\ \A l \in Listeners : \A x \in Left(l) : x.op \in {"get", "apply", "remember"}
    /\ \A p \in Procs : \A x, y \in Left(p) : x.op = "look" => y.op # "apply"

\* A listener has received a message with marker m, or will.
Heard(m) ==
    \/ \E i \in Instances : markers[i] = m
    \/ \E l \in Listeners : m \in Sent(l)
    \/ \E q \in Procs : \E x \in Left(q) : x.op = "remember" /\ x.marker = m

\* Markers are not used before their request, which no other request publishes;
\* nobody knows one before it is published the first time.
MarkerInv ==
    /\ \A m \in Markers : Heard(m) => m <= requests
    /\ \A p \in Procs : \A x \in Left(p) : x.op = "publish" => x.marker <= requests
    /\ \A p \in Procs : \A x \in Left(p) : First(x) =>
         /\ ~Heard(x.marker)
         /\ \A q \in Procs \ {p} : \A y \in Left(q) : y.op = "publish" => y.marker # x.marker

LEMMA LeftTyped ==
    ASSUME TypeOK, NEW p \in Procs, NEW x \in Left(p)
    PROVE  /\ x \in Steps
           /\ x.op \in {"publish", "remember"} => x.marker \in Markers
<1>1. todo[p] \in Seq(Steps)
  BY DEF TypeOK
<1>2. x \in Steps
  BY <1>1 DEF Left, Elems
<1> QED
  BY <1>2 DEF Steps

LEMMA AloneShape ==
    ASSUME TypeOK, ShapeInv, NEW p \in Procs, Alone(p)
    PROVE  ShapeInv' /\ \A q \in Procs : Left(q)' \subseteq Left(q)
<1>1. \A q \in Procs \ {p} : Left(q)' = Left(q) /\ Shaped(todo'[q])
  BY DEF Alone, Left, ShapeInv
<1>2. todo[p] \in Seq(Steps) /\ todo[p] # <<>> /\ Shaped(todo[p])
  BY DEF TypeOK, Alone, ShapeInv
<1>3. Elems(Tail(todo[p])) \subseteq Elems(todo[p]) /\ Shaped(Tail(todo[p]))
  BY <1>2, ElemsTail, ShapedTail
<1>4. Elems(<<>>) = {} /\ Shaped(<<>>)
  BY DEF Elems, Shaped
<1>8. /\ Elems(SubSeq(todo[p], 3, Len(todo[p]))) \subseteq Elems(todo[p])
      /\ Shaped(SubSeq(todo[p], 3, Len(todo[p])))
  BY <1>2, TwoLess
<1>5. Left(p)' \subseteq Left(p) /\ Shaped(todo'[p])
  BY <1>2, <1>3, <1>4, <1>8 DEF Alone, Left
<1>6. \A q \in Procs : Left(q)' \subseteq Left(q) /\ Shaped(todo'[q])
  BY <1>1, <1>5, <1>2 DEF ShapeInv
<1>7. \A l \in Listeners : \A x \in Left(l)' : x.op \in {"get", "apply", "remember"}
  BY <1>6 DEF ShapeInv, Procs
<1>9. \A q \in Procs : \A x, y \in Left(q)' : x.op = "look" => y.op # "apply"
  BY <1>6 DEF ShapeInv
<1> QED
  BY <1>6, <1>7, <1>9 DEF ShapeInv

\* Programs get shorter and nothing new is heard.
LEMMA MarkersKept ==
    ASSUME TypeOK, MarkerInv, \A q \in Procs : Left(q)' \subseteq Left(q), requests' = requests,
           \A m \in Markers : Heard(m)' => Heard(m)
    PROVE  MarkerInv'
<1>1. \A p \in Procs : \A x \in Left(p)' : First(x) => x.marker \in Markers
  BY LeftTyped DEF First
<1> QED
  BY <1>1 DEF MarkerInv

LEMMA HeardLess ==
    ASSUME \A q \in Procs : Left(q)' \subseteq Left(q), \A l \in Listeners : Sent(l)' \subseteq Sent(l),
           NEW m \in Markers,
           \A i \in Instances : markers'[i] = m => Heard(m)
    PROVE  Heard(m)' => Heard(m)
BY DEF Heard

LEMMA ActsMarkers ==
    ASSUME TypeOK, ShapeInv, MarkerInv, NEW p \in Procs, Acts(p)
    PROVE  MarkerInv'
<1>1. Alone(p) /\ \A q \in Procs : Left(q)' \subseteq Left(q)
  BY ActsAlone, AloneShape
<1>2. requests' = requests
  BY DEF Acts, Delete, Write, GetHit, GetRead, Fill, Check, Clear, Apply, ApplyFails, Announce,
         LoadAccount, Select, StoreRow, Remove, Remember, bounds
<1>3. todo[p] # <<>> /\ todo[p] \in Seq(Steps)
  BY <1>1 DEF Alone, TypeOK
<1>4. Step(p) \in Left(p) /\ Left(p) = {Step(p)} \cup Elems(Tail(todo[p]))
  BY <1>3, ElemsTail DEF Left, Step
<1>5. ASSUME UNCHANGED markers, \A l \in Listeners : Sent(l)' \subseteq Sent(l) PROVE MarkerInv'
  <2>1. \A m \in Markers : \A i \in Instances : markers'[i] = m => Heard(m)
    BY <1>5 DEF Heard
  <2>2. \A m \in Markers : Heard(m)' => Heard(m)
    BY <1>1, <1>5, <2>1, HeardLess
  <2> QED
    BY <1>1, <1>2, <2>2, MarkersKept
<1>6. ASSUME UNCHANGED <<markers, inbox>> PROVE MarkerInv'
  BY <1>5, <1>6 DEF Sent
<1>7. CASE \/ Delete(p) \/ Write(p) \/ GetHit(p) \/ GetRead(p) \/ Fill(p) \/ Check(p) \/ Clear(p)
           \/ Apply(p) \/ LoadAccount(p) \/ Select(p) \/ StoreRow(p) \/ Remove(p)
  BY <1>6, <1>7 DEF Delete, Write, GetHit, GetRead, Fill, Check, Clear, Apply, LoadAccount, Select,
     StoreRow, Remove, nginx, redis
<1>8. CASE ApplyFails(p)
  <2>1. \A l \in Listeners : inbox'[l] \in {inbox[l], <<>>}
    BY <1>8 DEF ApplyFails, Deaf
  <2>2. \A l \in Listeners : Sent(l)' \subseteq Sent(l)
    BY <2>1 DEF Sent, Elems
  <2> QED
    BY <1>5, <1>8, <2>2 DEF ApplyFails, nginx
<1>9. CASE p \in Listeners /\ Remember(p)
  <2>1. /\ p[1] \in Instances /\ Step(p).op = "remember" /\ UNCHANGED inbox
        /\ markers' = [markers EXCEPT ![p[1]] = Step(p).marker]
    BY <1>9, Busy DEF Remember, Listeners
  <2>2. \A m \in Markers : \A i \in Instances : markers'[i] = m => Heard(m)
    BY <1>4, <2>1 DEF Heard, TypeOK
  <2>3. \A m \in Markers : Heard(m)' => Heard(m)
    BY <1>1, <2>1, <2>2, HeardLess DEF Sent
  <2> QED
    BY <1>1, <1>2, <2>3, MarkersKept
<1>10. CASE Announce(p)
  <2> DEFINE s == Step(p).server
             m == Step(p).marker
             hear == {q \in listening : q[2] = s}
  <2>1. Step(p).op = "publish" /\ UNCHANGED markers /\ m \in Markers
    BY <1>3, <1>10, Busy, Stepped DEF Announce, nginx
  <2>2. CASE s \notin up
    BY <1>6, <1>10, <2>1, <2>2 DEF Announce
  <2>3. CASE s \in up
    <3>1. inbox' = [q \in Listeners |-> IF q \in hear THEN Append(inbox[q], m) ELSE inbox[q]]
      BY <1>10, <2>3 DEF Announce
    <3>2. todo'[p] = Tail(todo[p])
      BY <1>3, <1>10, <2>3, Advanced DEF Announce
    <3>3. \A l \in Listeners : Sent(l)' \subseteq Sent(l) \cup {m}
      <4> SUFFICES ASSUME NEW l \in Listeners PROVE Elems(inbox'[l]) \subseteq Elems(inbox[l]) \cup {m}
        BY DEF Sent
      <4>1. inbox[l] \in Seq(Markers)
        BY DEF TypeOK
      <4>2. Elems(Append(inbox[l], m)) \subseteq Elems(inbox[l]) \cup {m}
        BY <4>1 DEF Elems
      <4> QED
        BY <3>1, <4>2
    <3>4. \A n \in Markers : Heard(n)' => Heard(n) \/ n = m
      BY <1>1, <2>1, <3>3 DEF Heard
    <3>5. m <= requests
      BY <1>4, <2>1 DEF MarkerInv
    <3>6. \A x \in Left(p)' : ~First(x)
      <4>1. Left(p)' = Elems(Tail(todo[p]))
        BY <3>2 DEF Left
      <4> QED
        BY <1>3, <2>1, <4>1, ShapedTail DEF ShapeInv, Step
    <3>7. \A q \in Procs : \A x \in Left(q)' : First(x) => x.marker # m /\ x.marker \in Markers
      <4> SUFFICES ASSUME NEW q \in Procs, NEW x \in Left(q)', First(x) PROVE x.marker # m /\ x.marker \in Markers
        OBVIOUS
      <4>1. q # p /\ x \in Left(q)
        BY <1>1, <3>6
      <4>2. x.marker # m
        BY <1>4, <2>1, <4>1 DEF MarkerInv
      <4> QED
        BY <4>1, <4>2, LeftTyped DEF First
    <3> HIDE DEF m
    <3>8. \A n \in Markers : Heard(n)' => n <= requests'
      BY <1>2, <3>4, <3>5 DEF MarkerInv
    <3>9. \A q \in Procs : \A x \in Left(q)' : First(x) => ~Heard(x.marker)'
      BY <1>1, <3>4, <3>7 DEF MarkerInv
    <3> QED
      BY <1>1, <1>2, <3>8, <3>9 DEF MarkerInv
  <2> QED
    BY <2>2, <2>3
<1> QED
  BY <1>7, <1>8, <1>9, <1>10 DEF Acts

\* A request arrives with a program that publishes its own marker only.
LEMMA Arrived ==
    ASSUME TypeOK, NEW t \in Tasks, NEW i \in Instances, Arrive(t, i)
    PROVE  LET r == plan[requests + 1]  sq == Program(r, requests + 1)
           IN  /\ t \in Procs /\ t \notin Listeners /\ t \notin half /\ Left(t) = {}
               /\ requests \in Nat /\ requests' = requests + 1 /\ requests + 1 \in Markers
               /\ todo'[t] = sq /\ \A q \in Procs \ {t} : todo'[q] = todo[q] /\ Instance(q)' = Instance(q)
               /\ Shaped(sq)
               /\ \A x \in Elems(sq) : x.op # "remember" /\ (x.op = "publish" => x.marker = requests + 1)
               /\ (\E x \in Elems(sq) : x.op = "apply") =>
                    Get("webroot") \in Elems(sq) /\ Get("ssl") \in Elems(sq)
               /\ \A x, y \in Elems(sq) : x.op = "look" => y.op # "apply"
               /\ \A q \in Procs \ {t} : q \in unclean => q \in unclean'
<1> DEFINE r == plan[requests + 1]
           sq == Program(r, requests + 1)
<1>1. /\ todo[t] = <<>> /\ requests < Len(plan) /\ requests' = requests + 1
      /\ todo' = [todo EXCEPT ![t] = sq] /\ home' = [home EXCEPT ![t] = i]
  BY DEF Arrive
<1>2. plan \in Seq(Request) /\ Len(plan) <= MaxRequests /\ MaxRequests \in Nat
  BY ManagementAssumption DEF TypeOK
<1>3. requests \in Nat /\ requests + 1 \in Markers /\ r \in Request
  BY <1>1, <1>2 DEF TypeOK, Markers
<1>4. t \in Procs /\ t \notin Listeners /\ t \notin half /\ Left(t) = {}
  BY <1>1, ManagementAssumption DEF Procs, TypeOK, Left, Elems
<1>5. \A q \in Procs \ {t} : q \in unclean => q \in unclean'
  BY DEF Arrive, Begins
<1>6. \A q \in Procs \ {t} : Instance(q)' = Instance(q)
  BY <1>1 DEF Instance, TypeOK
<1>7. todo'[t] = sq /\ \A q \in Procs \ {t} : todo'[q] = todo[q]
  BY <1>1, <1>4 DEF TypeOK
<1>8. /\ Shaped(sq)
      /\ \A x \in Elems(sq) : x.op # "remember" /\ (x.op = "publish" => x.marker = requests + 1)
      /\ (\E x \in Elems(sq) : x.op = "apply") => Get("webroot") \in Elems(sq) /\ Get("ssl") \in Elems(sq)
      /\ \A x, y \in Elems(sq) : x.op = "look" => y.op # "apply"
  BY <1>3, ProgramShaped
<1> HIDE DEF sq
<1> QED
  BY <1>1, <1>3, <1>4, <1>5, <1>6, <1>7, <1>8 DEF sq

\* A message is received: its marker is the remembered one, or its reload begins.
LEMMA Received ==
    ASSUME TypeOK, NEW p \in Listeners, Receive(p)
    PROVE  \E m \in Markers :
              /\ p \in Procs /\ p[1] \in Instances /\ Left(p) = {} /\ p \notin half
              /\ Sent(p) = {m} \cup Sent(p)' /\ \A l \in Listeners \ {p} : Sent(l)' = Sent(l)
              /\ \/ markers[p[1]] = m /\ UNCHANGED <<todo, unclean>>
                 \/ /\ Begins(p, p[1])
                    /\ Shaped(todo'[p])
                    /\ Left(p)' = {Get("webroot"), Get("ssl"), [op |-> "apply"],
                                   [op |-> "remember", marker |-> m]}
                    /\ \A q \in Procs \ {p} : todo'[q] = todo[q]
<1> DEFINE m == Head(inbox[p])
           rest == <<[op |-> "remember", marker |-> m]>>
<1>1. /\ todo[p] = <<>> /\ inbox[p] # <<>> /\ inbox' = [inbox EXCEPT ![p] = Tail(inbox[p])]
      /\ IF markers[p[1]] = m THEN UNCHANGED <<todo, unclean>> ELSE Receives(p, m)
  BY DEF Receive
<1>2. p \in Procs /\ p[1] \in Instances /\ Left(p) = {} /\ p \notin half
  BY <1>1 DEF Procs, Listeners, Left, Elems, TypeOK
<1>3. inbox[p] \in Seq(Markers) /\ m \in Markers
  BY <1>1 DEF TypeOK
<1>4. Sent(p)' = Elems(Tail(inbox[p])) /\ \A l \in Listeners \ {p} : Sent(l)' = Sent(l)
  BY <1>1 DEF Sent, TypeOK
<1>5. Sent(p) = {m} \cup Sent(p)'
  BY <1>1, <1>3, <1>4, ElemsTail DEF Sent
<1>6. ASSUME Receives(p, m)
      PROVE  /\ Begins(p, p[1]) /\ Shaped(todo'[p])
             /\ Left(p)' = {Get("webroot"), Get("ssl"), [op |-> "apply"], [op |-> "remember", marker |-> m]}
             /\ \A q \in Procs \ {p} : todo'[q] = todo[q]
  <2>1. [op |-> "remember", marker |-> m] \in Steps
    BY <1>3 DEF Steps
  <2>2. /\ rest \in Seq(Steps) /\ DOMAIN rest = {1} /\ rest[1] = [op |-> "remember", marker |-> m]
    BY <2>1
  <2>3. Begins(p, p[1]) /\ todo' = [todo EXCEPT ![p] = Reload \o rest]
    BY <1>6 DEF Receives
  <2> HIDE DEF rest
  <2>4. Elems(rest) = {[op |-> "remember", marker |-> m]} /\ \A j, k \in DOMAIN rest : ~(j < k)
    BY <2>2 DEF Elems
  <2>5. /\ Shaped(Reload \o rest)
        /\ Elems(Reload \o rest) = {Get("webroot"), Get("ssl"), [op |-> "apply"]} \cup Elems(rest)
    BY <2>2, <2>4, ReloadThen
  <2>6. todo'[p] = Reload \o rest /\ \A q \in Procs \ {p} : todo'[q] = todo[q]
    BY <1>2, <2>3 DEF TypeOK
  <2> QED
    BY <2>3, <2>4, <2>5, <2>6 DEF Left
<1> QED
  BY <1>1, <1>2, <1>3, <1>4, <1>5, <1>6

LEMMA NextMarkers ==
    ASSUME TypeOK, ShapeInv, MarkerInv, [Next]_vars
    PROVE  ShapeInv' /\ MarkerInv'
<1>1. ASSUME UNCHANGED <<todo, requests>>, \A l \in Listeners : Sent(l)' \subseteq Sent(l),
             \A i \in Instances : markers'[i] \in {markers[i], None}
      PROVE  ShapeInv' /\ MarkerInv'
  <2>1. \A q \in Procs : Left(q)' = Left(q)
    BY <1>1 DEF Left
  <2>2. ShapeInv'
    BY <1>1, <2>1 DEF ShapeInv, Procs
  <2>3. \A m \in Markers : \A i \in Instances : markers'[i] = m => Heard(m)
    BY <1>1, Absent DEF Heard
  <2>4. \A m \in Markers : Heard(m)' => Heard(m)
    BY <1>1, <2>1, <2>3, HeardLess
  <2> QED
    BY <1>1, <2>1, <2>2, <2>4, MarkersKept
<1>2. ASSUME UNCHANGED <<todo, requests, inbox, markers>> PROVE ShapeInv' /\ MarkerInv'
  BY <1>1, <1>2 DEF Sent
<1>3. CASE UNCHANGED vars \/ Flush
  BY <1>2, <1>3 DEF vars, Flush, locals, bounds, nginx, redis
<1>4. ASSUME NEW p \in Procs, Acts(p) PROVE ShapeInv' /\ MarkerInv'
  BY <1>4, ActsAlone, AloneShape, ActsMarkers
<1>5. ASSUME NEW s \in Servers, Break(s) \/ Repair(s) PROVE ShapeInv' /\ MarkerInv'
  <2>1. UNCHANGED <<todo, requests, markers>>
    BY <1>5 DEF Break, Repair, locals, bounds, nginx
  <2>2. \A l \in Listeners : inbox'[l] \in {inbox[l], <<>>}
    BY <1>5 DEF Break, Repair, Deaf
  <2>3. \A l \in Listeners : Sent(l)' \subseteq Sent(l)
    BY <2>2 DEF Sent, Elems
  <2> QED
    BY <1>1, <2>1, <2>3
<1>6. ASSUME NEW i \in Instances, Relisten(i) PROVE ShapeInv' /\ MarkerInv'
  <2>1. UNCHANGED <<todo, requests, inbox>> /\ markers' = [markers EXCEPT ![i] = None]
    BY <1>6 DEF Relisten, locals, bounds
  <2>2. \A j \in Instances : markers'[j] \in {markers[j], None}
    BY <2>1 DEF TypeOK
  <2> QED
    BY <1>1, <2>1, <2>2 DEF Sent
<1>7. ASSUME NEW t \in Tasks, NEW i \in Instances, Arrive(t, i) PROVE ShapeInv' /\ MarkerInv'
  <2> DEFINE sq == Program(plan[requests + 1], requests + 1)
  <2>12. PICK m \in Markers : m = requests + 1
    BY <1>7, Arrived
  <2>1. /\ t \in Procs /\ t \notin Listeners /\ Left(t) = {} /\ requests \in Nat
        /\ requests' = m /\ m = requests + 1 /\ Shaped(sq)
        /\ todo'[t] = sq /\ \A q \in Procs \ {t} : todo'[q] = todo[q]
        /\ \A x \in Elems(sq) : x.op # "remember" /\ (x.op = "publish" => x.marker = m)
        /\ \A x, y \in Elems(sq) : x.op = "look" => y.op # "apply"
    BY <1>7, <2>12, Arrived
  <2>2. UNCHANGED <<inbox, markers>>
    BY <1>7 DEF Arrive, redis, nginx
  <2> HIDE DEF sq
  <2>3. Left(t)' = Elems(sq) /\ \A q \in Procs \ {t} : Left(q)' = Left(q) /\ Shaped(todo'[q])
    BY <2>1 DEF Left, ShapeInv
  <2>4. ShapeInv'
    BY <2>1, <2>3 DEF ShapeInv, Procs
  <2>5. \A n \in Markers : Heard(n)' => Heard(n)
    BY <2>1, <2>2, <2>3 DEF Heard, Sent
  <2>6. \A n \in Markers : n = m => ~Heard(n)'
    BY <2>1, <2>5 DEF MarkerInv
  <2>7. \A q \in Procs \ {t} : \A x \in Left(q) :
            x.op = "publish" => x.marker <= requests /\ x.marker # m /\ x.marker \in Markers
    BY <2>1, LeftTyped DEF MarkerInv, Markers
  <2>8. \A n \in Markers : Heard(n)' => n <= requests'
    BY <2>1, <2>5 DEF MarkerInv, Markers
  <2>9. \A q \in Procs : \A x \in Left(q)' : x.op = "publish" => x.marker <= requests'
    BY <2>1, <2>3, <2>7 DEF Markers
  <2>10. \A q \in Procs : \A x \in Left(q)' : First(x) => ~Heard(x.marker)'
    <3> SUFFICES ASSUME NEW q \in Procs, NEW x \in Left(q)', First(x) PROVE ~Heard(x.marker)'
      OBVIOUS
    <3>1. CASE q = t
      BY <2>1, <2>3, <2>6, <3>1 DEF First
    <3>2. CASE q # t
      <4>1. x \in Left(q) /\ x.marker \in Markers
        BY <2>3, <2>7, <3>2 DEF First
      <4> QED
        BY <2>5, <4>1 DEF MarkerInv
    <3> QED
      BY <3>1, <3>2
  <2>11. \A q \in Procs : \A x \in Left(q)' : First(x) =>
           \A r \in Procs \ {q} : \A y \in Left(r)' : y.op = "publish" => y.marker # x.marker
    BY <2>1, <2>3, <2>7 DEF MarkerInv, First
  <2> QED
    BY <2>4, <2>8, <2>9, <2>10, <2>11 DEF MarkerInv
<1>8. ASSUME NEW p \in Listeners, Receive(p) PROVE ShapeInv' /\ MarkerInv'
  <2>1. PICK m \in Markers :
              /\ p \in Procs /\ p[1] \in Instances /\ Left(p) = {} /\ p \notin half
              /\ Sent(p) = {m} \cup Sent(p)' /\ \A l \in Listeners \ {p} : Sent(l)' = Sent(l)
              /\ \/ markers[p[1]] = m /\ UNCHANGED <<todo, unclean>>
                 \/ /\ Begins(p, p[1])
                    /\ Shaped(todo'[p])
                    /\ Left(p)' = {Get("webroot"), Get("ssl"), [op |-> "apply"],
                                   [op |-> "remember", marker |-> m]}
                    /\ \A q \in Procs \ {p} : todo'[q] = todo[q]
    BY <1>8, Received
  <2>2. UNCHANGED <<requests, markers>> /\ \A l \in Listeners : Sent(l)' \subseteq Sent(l)
    BY <1>8, <2>1 DEF Receive, bounds, nginx
  <2>3. CASE UNCHANGED todo
    BY <1>1, <2>2, <2>3
  <2>4. CASE /\ Shaped(todo'[p])
             /\ Left(p)' = {Get("webroot"), Get("ssl"), [op |-> "apply"],
                            [op |-> "remember", marker |-> m]}
             /\ \A q \in Procs \ {p} : todo'[q] = todo[q]
    <3>1. \A x \in Left(p)' : \/ x.op \in {"get", "apply"}
                              \/ x.op = "remember" /\ x.marker = m
      BY <2>4 DEF Get
    <3>2. \A q \in Procs \ {p} : Left(q)' = Left(q) /\ Shaped(todo'[q])
      BY <2>4 DEF Left, ShapeInv
    <3>3. ShapeInv'
      BY <2>4, <3>1, <3>2 DEF ShapeInv, Procs
    <3>4. Heard(m)
      BY <2>1 DEF Heard
    <3>5. \A n \in Markers : Heard(n)' => Heard(n)
      BY <2>2, <3>1, <3>2, <3>4 DEF Heard
    <3>6. \A q \in Procs : \A x \in Left(q)' : x.op = "publish" => x \in Left(q)
      BY <3>1, <3>2
    <3>7. \A q \in Procs : \A x \in Left(q)' : First(x) => x.marker \in Markers
      BY <3>6, LeftTyped DEF First
    <3> QED
      BY <2>2, <3>3, <3>5, <3>6, <3>7 DEF MarkerInv, First
  <2> QED
    BY <2>1, <2>3, <2>4
<1> QED
  BY <1>3, <1>4, <1>5, <1>6, <1>7, <1>8 DEF Next, Acts, Procs

-----------------------------------------------------------------------------
(* The settings in memcached *)

\* A copy that is not outdated tells the row, and there is none while the row is
\* about to be written.
CacheInv ==
    /\ \A n \in Names \ raced : cache[n] \subseteq {content[n]}
    /\ \A p \in Procs : Amid(p, "set") /\ Step(p).name \notin raced => cache[Step(p).name] = {}

LEMMA NotSetting ==
    ASSUME NEW p \in Procs, Alone(p), \/ p \notin half'
                                      \/ todo'[p] = todo[p] /\ Step(p).op # "set"
    PROVE  \A q \in Procs : Amid(q, "set")' => q # p /\ Amid(q, "set") /\ Step(q)' = Step(q)
BY DEF Alone, Amid, Step

LEMMA CacheKept ==
    ASSUME CacheInv, UNCHANGED <<cache, content, raced>>,
           \A q \in Procs : Amid(q, "set")' => Amid(q, "set") /\ Step(q)' = Step(q)
    PROVE  CacheInv'
BY DEF CacheInv

LEMMA ActsCache ==
    ASSUME TypeOK, CacheInv, NEW p \in Procs, Acts(p)
    PROVE  CacheInv'
<1>1. Alone(p) /\ todo[p] # <<>>
  BY ActsAlone DEF Alone
<1>2. ASSUME UNCHANGED <<cache, content, raced>>,
             \/ Advance(p) \/ Abort(p)
             \/ UNCHANGED todo /\ Step(p).op # "set"
      PROVE  CacheInv'
  <2>1. \/ p \notin half'
        \/ todo'[p] = todo[p] /\ Step(p).op # "set"
    BY <1>1, <1>2, Advanced, Aborted
  <2> QED
    BY <1>1, <1>2, <2>1, NotSetting, CacheKept
<1>3. CASE GetHit(p) \/ Check(p) \/ Apply(p) \/ ApplyFails(p) \/ Announce(p)
  <2>1. UNCHANGED <<cache, content, raced>>
    BY <1>3 DEF GetHit, Check, Apply, ApplyFails, Announce, database, memcached, reloads
  <2>2. Advance(p) \/ Abort(p)
    BY <1>3 DEF GetHit, Check, Apply, ApplyFails, Announce
  <2> QED
    BY <1>2, <2>1, <2>2
<1>4. CASE StoreRow(p) \/ Remove(p) \/ Remember(p)
  BY <1>2, <1>4 DEF StoreRow, Remove, Remember, database, memcached, reloads
<1>10. CASE LoadAccount(p)
  <2>1. UNCHANGED <<cache, content, raced>> /\ p \notin half'
    BY <1>1, <1>10, Advanced, Aborted, Skipped DEF LoadAccount, database, memcached, reloads
  <2> QED
    BY <1>1, <2>1, NotSetting, CacheKept
<1>5. CASE Select(p) \/ GetRead(p)
  <2>1. Step(p).op # "set"
    BY <1>5, Busy DEF Select, GetRead
  <2>2. UNCHANGED <<cache, content, raced>> /\ UNCHANGED todo
    BY <1>5 DEF Select, GetRead, database, memcached, reloads
  <2> QED
    BY <1>2, <2>1, <2>2
<1>6. CASE Delete(p)
  <2> DEFINE n == Step(p).name
  <2>1. n \in Names /\ UNCHANGED <<content, todo>> /\ half' = half \cup {p}
    BY <1>6, Busy, Stepped DEF Delete, database
  <2>2. \/ cache' = [cache EXCEPT ![n] = {}] /\ raced' = raced \ {n}
        \/ UNCHANGED cache /\ raced' = raced \cup {n}
    BY <1>6 DEF Delete
  <2>4. n \in raced' \/ (cache'[n] = {} /\ n \notin raced')
    BY <2>1, <2>2 DEF TypeOK
  <2>5. \A k \in Names : k # n => cache'[k] = cache[k] /\ (k \in raced' <=> k \in raced)
    BY <2>1, <2>2 DEF TypeOK
  <2>6. \A q \in Procs : Step(q)' = Step(q) /\ (Amid(q, "set")' => q = p \/ Amid(q, "set"))
    BY <2>1 DEF Step, Amid
  <2>7. \A q \in Procs : Amid(q, "set") => Step(q).name \in Names
    BY Busy, Stepped
  <2>8. \A k \in Names \ raced' : cache'[k] \subseteq {content'[k]}
    BY <2>1, <2>4, <2>5 DEF CacheInv
  <2>9. \A q \in Procs : Amid(q, "set")' /\ Step(q)'.name \notin raced' => cache'[Step(q)'.name] = {}
    BY <2>4, <2>5, <2>6, <2>7 DEF CacheInv
  <2> QED
    BY <2>8, <2>9 DEF CacheInv
<1>7. CASE Write(p)
  <2> DEFINE n == Step(p).name
  <2>1. n \in Names /\ Amid(p, "set")
    BY <1>1, <1>7, Busy, Stepped DEF Write
  <2>2. UNCHANGED <<cache, raced>> /\ \A k \in Names \ {n} : content'[k] = content[k]
    BY <1>7, <2>1 DEF Write, memcached, TypeOK
  <2>3. \A q \in Procs : Amid(q, "set")' => Amid(q, "set") /\ Step(q)' = Step(q)
    BY <1>1, <1>7, Advanced, NotSetting DEF Write
  <2>4. n \notin raced => cache[n] = {}
    BY <2>1 DEF CacheInv
  <2>5. \A k \in Names \ raced' : cache'[k] \subseteq {content'[k]}
    BY <2>2, <2>4 DEF CacheInv
  <2>6. \A q \in Procs : Amid(q, "set")' /\ Step(q)'.name \notin raced' => cache'[Step(q)'.name] = {}
    BY <2>2, <2>3 DEF CacheInv
  <2> QED
    BY <2>5, <2>6 DEF CacheInv
<1>8. CASE Fill(p)
  <2> DEFINE n == Step(p).name
             overlaps == got[p][n] # content[n] \/ \E q \in Procs : Amid(q, "set") /\ Step(q).name = n
  <2>1. n \in Names
    BY <1>1, <1>8, Busy, Stepped DEF Fill, Names
  <2>2. /\ cache' = [cache EXCEPT ![n] = {got[p][n]}] /\ UNCHANGED content
        /\ raced' = IF overlaps THEN raced \cup {n} ELSE raced \ {n}
    BY <1>8 DEF Fill, database
  <2>3. \A q \in Procs : Amid(q, "set")' => Amid(q, "set") /\ Step(q)' = Step(q)
    BY <1>1, <1>8, Advanced, NotSetting DEF Fill
  <2>4. cache'[n] = {got[p][n]}
    BY <2>1, <2>2 DEF TypeOK
  <2>5. \A k \in Names : k # n => cache'[k] = cache[k] /\ (k \in raced' <=> k \in raced)
    BY <2>2 DEF TypeOK
  <2>6. n \notin raced' => got[p][n] = content[n] /\ \A q \in Procs : ~(Amid(q, "set") /\ Step(q).name = n)
    BY <2>2
  <2>7. \A q \in Procs : Amid(q, "set") => Step(q).name \in Names
    BY Busy, Stepped
  <2> HIDE DEF n, overlaps
  <2>8. \A k \in Names \ raced' : cache'[k] \subseteq {content'[k]}
    BY <2>2, <2>4, <2>5, <2>6 DEF CacheInv
  <2>9. \A q \in Procs : Amid(q, "set")' /\ Step(q)'.name \notin raced' => cache'[Step(q)'.name] = {}
    BY <2>3, <2>5, <2>6, <2>7 DEF CacheInv
  <2> QED
    BY <2>8, <2>9 DEF CacheInv
<1>9. CASE Clear(p)
  <2>1. UNCHANGED cache /\ raced' = raced \cup {n \in Names : cache[n] # {}}
    BY <1>9 DEF Clear, memcached
  <2>2. \A q \in Procs : Amid(q, "set")' => Amid(q, "set") /\ Step(q)' = Step(q)
    BY <1>1, <1>9, Advanced, NotSetting DEF Clear
  <2> QED
    BY <2>1, <2>2 DEF CacheInv
<1> QED
  BY <1>3, <1>4, <1>5, <1>6, <1>7, <1>8, <1>9, <1>10 DEF Acts

LEMMA NextCache ==
    ASSUME TypeOK, CacheInv, [Next]_vars
    PROVE  CacheInv'
<1>1. ASSUME UNCHANGED <<cache, content, raced, todo, half>> PROVE CacheInv'
  BY <1>1, CacheKept DEF Amid, Step
<1>2. CASE UNCHANGED vars
  BY <1>1, <1>2 DEF vars, database, memcached, locals, reloads
<1>3. CASE Flush
  <2>1. \A n \in Names : cache'[n] = {}
    BY <1>3 DEF Flush
  <2>2. \A q \in Procs : Amid(q, "set")' => Step(q)'.name \in Names
    <3>1. \A q \in Procs : Amid(q, "set")' => Amid(q, "set") /\ Step(q)' = Step(q)
      BY <1>3 DEF Flush, locals, Amid, Step
    <3> QED
      BY <3>1, Busy, Stepped
  <2> QED
    BY <2>1, <2>2 DEF CacheInv
<1>4. ASSUME NEW p \in Procs, todo[p] = <<>>, UNCHANGED <<cache, content, raced, half>>,
             \A q \in Procs \ {p} : todo'[q] = todo[q]
      PROVE  CacheInv'
  <2>1. \A q \in Procs : Amid(q, "set")' => Amid(q, "set") /\ Step(q)' = Step(q)
    BY <1>4 DEF Amid, Step, TypeOK
  <2> QED
    BY <1>4, <2>1, CacheKept
<1>5. ASSUME NEW t \in Tasks, NEW i \in Instances, Arrive(t, i) PROVE CacheInv'
  BY <1>4, <1>5, Arrived DEF Arrive, database
<1>6. ASSUME NEW p \in Listeners, Receive(p) PROVE CacheInv'
  <2>1. p \in Procs /\ todo[p] = <<>> /\ \A q \in Procs \ {p} : todo'[q] = todo[q]
    BY <1>6 DEF Receive, Receives, Procs, TypeOK
  <2> QED
    BY <1>4, <1>6, <2>1 DEF Receive, database, memcached
<1>7. ASSUME NEW p \in Procs, Acts(p) PROVE CacheInv'
  BY <1>7, ActsCache
<1>8. ASSUME NEW s \in Servers, Break(s) \/ Repair(s) PROVE CacheInv'
  BY <1>1, <1>8 DEF Break, Repair, database, memcached, locals, reloads
<1>9. ASSUME NEW i \in Instances, Relisten(i) PROVE CacheInv'
  BY <1>1, <1>9 DEF Relisten, database, memcached, locals, reloads
<1> QED
  BY <1>2, <1>3, <1>5, <1>6, <1>7, <1>8, <1>9 DEF Next, Acts, Procs

-----------------------------------------------------------------------------
(* What reloads are told *)

Watched == {"webroot", "ssl"}

\* The steps that p has not begun.
Rest(p) == IF p \in half THEN Tail(todo[p]) ELSE todo[p]

\* What p reloads with is what the settings say, or still to be read.
Fresh(p) == \A n \in Watched : Get(n) \in Elems(Rest(p)) \/ got[p][n] = content[n]

Trusted(p) == Reloads(p) /\ p \notin unclean => Fresh(p)

\* All reloads of an instance that are clean end with the present settings.
Told(i) == \A p \in Procs : Instance(p) = i => Trusted(p)

\* A step makes no process of an instance less trusted.
Keeps(p) == Trusted(p)' \/ (Instance(p)' = Instance(p) /\ ~Trusted(p))

LEMMA ReloadsLeft ==
    ASSUME NEW p
    PROVE  /\ Reloads(p) <=> \E x \in Left(p) : x.op = "apply"
           /\ Reloads(p)' <=> \E x \in Left(p)' : x.op = "apply"
BY DEF Reloads, Left, Elems

LEMMA ToldKept ==
    ASSUME \A p \in Procs : Keeps(p)
    PROVE  \A i : Told(i) => Told(i)'
BY DEF Told, Keeps

LEMMA OtherKeeps ==
    ASSUME NEW q \in Procs, todo'[q] = todo[q], q \in half' <=> q \in half, got'[q] = got[q],
           Instance(q)' = Instance(q), \A n \in Watched : content'[n] = content[n],
           q \in unclean => q \in unclean'
    PROVE  Keeps(q)
<1>1. (Reloads(q)' <=> Reloads(q)) /\ Rest(q)' = Rest(q)
  BY DEF Reloads, Rest
<1>2. Fresh(q)' <=> Fresh(q)
  BY <1>1 DEF Fresh
<1> QED
  BY <1>1, <1>2 DEF Keeps, Trusted

\* A process that will not reload any more can be trusted.
LEMMA EndKeeps ==
    ASSUME NEW p, ~Reloads(p)'
    PROVE  Keeps(p)
BY DEF Keeps, Trusted

LEMMA EmptyKeeps ==
    ASSUME NEW p, todo'[p] = <<>>
    PROVE  Keeps(p)
<1>1. ~Reloads(p)'
  BY DEF Reloads
<1> QED
  BY <1>1, EndKeeps

\* A step that is no reading of a setting.
LEMMA StepKeeps ==
    ASSUME TypeOK, NEW p \in Procs, Alone(p), p \in half \/ Step(p).op # "get",
           \/ todo'[p] = <<>>
           \/ todo'[p] = Tail(todo[p]) /\ p \notin half'
           \/ todo'[p] = todo[p] /\ p \notin half /\ p \in half',
           todo'[p] = <<>> \/ \A n \in Watched : got'[p][n] = got[p][n],
           \A n \in Watched : content'[n] = content[n], p \in unclean => p \in unclean'
    PROVE  Keeps(p)
<1>1. CASE todo'[p] = <<>>
  BY <1>1, EmptyKeeps
<1>2. CASE todo'[p] # <<>>
  <2>1. todo[p] \in Seq(Steps) /\ todo[p] # <<>> /\ Instance(p)' = Instance(p)
    BY <1>2 DEF TypeOK, Alone
  <2>2. Elems(todo[p]) = {Step(p)} \cup Elems(Tail(todo[p]))
    BY <2>1, ElemsTail DEF Step
  <2>3. Rest(p)' = Tail(todo[p])
    BY <1>2 DEF Rest
  <2>4. \A n \in Watched : Get(n) \in Elems(Rest(p)) => Get(n) \in Elems(Rest(p)')
    BY <2>2, <2>3 DEF Rest, Get
  <2>5. Reloads(p)' => Reloads(p)
    BY <1>2, <2>2, ReloadsLeft DEF Left
  <2>6. Fresh(p) => Fresh(p)'
    <3> SUFFICES ASSUME Fresh(p), NEW n \in Watched
                 PROVE  Get(n) \in Elems(Rest(p)') \/ got'[p][n] = content'[n]
      BY DEF Fresh
    <3> QED
      BY <1>2, <2>4 DEF Fresh
  <2> QED
    BY <2>1, <2>5, <2>6 DEF Keeps, Trusted
<1> QED
  BY <1>1, <1>2

\* What is read of a setting is what it is, or the reload is unclean.
LEMMA ReadKeeps ==
    ASSUME TypeOK, NEW p \in Procs, Alone(p), Step(p).op = "get", Step(p).name \in Watched,
           \/ todo'[p] = Tail(todo[p]) /\ p \notin half'
           \/ todo'[p] = todo[p] /\ p \in half',
           p \notin half, p \in unclean => p \in unclean',
           \/ p \in unclean'
           \/ got'[p] = [got[p] EXCEPT ![Step(p).name] = content[Step(p).name]],
           \A n \in Watched : content'[n] = content[n]
    PROVE  Keeps(p)
<1>1. CASE todo'[p] = <<>> \/ p \in unclean'
  BY <1>1, EmptyKeeps DEF Keeps, Trusted
<1>2. CASE todo'[p] # <<>> /\ p \notin unclean'
  <2>1. todo[p] \in Seq(Steps) /\ todo[p] # <<>> /\ Instance(p)' = Instance(p) /\ got[p] \in Gots
    BY <1>2 DEF TypeOK, Alone, Gots
  <2>2. Elems(todo[p]) = {Step(p)} \cup Elems(Tail(todo[p]))
    BY <2>1, ElemsTail DEF Step
  <2>3. Rest(p)' = Tail(todo[p]) /\ Rest(p) = todo[p]
    BY <1>2 DEF Rest
  <2>4. \A n \in Watched : n # Step(p).name => Get(n) # Step(p)
    BY DEF Get
  <2>5. got'[p][Step(p).name] = content[Step(p).name]
    BY <1>2, <2>1 DEF Gots, Watched
  <2>6. \A n \in Watched : n # Step(p).name => got'[p][n] = got[p][n]
    BY <1>2, <2>1 DEF Gots, Watched
  <2>7. Reloads(p)' => Reloads(p)
    BY <1>2, <2>2, ReloadsLeft DEF Left
  <2>8. Fresh(p) => Fresh(p)'
    <3> SUFFICES ASSUME Fresh(p), NEW n \in Watched
                 PROVE  Get(n) \in Elems(Rest(p)') \/ got'[p][n] = content'[n]
      BY DEF Fresh
    <3>1. CASE n = Step(p).name
      BY <2>5, <3>1
    <3>2. CASE n # Step(p).name
      BY <2>2, <2>3, <2>4, <2>6, <3>2 DEF Fresh
    <3> QED
      BY <3>1, <3>2
  <2> QED
    BY <2>1, <2>7, <2>8 DEF Keeps, Trusted
<1> QED
  BY <1>1, <1>2

LEMMA AdvanceKeeps ==
    ASSUME TypeOK, NEW p \in Procs, Alone(p), p \in half \/ Step(p).op # "get",
           \/ Advance(p) /\ (Forget(p) \/ \A n \in Watched : got'[p][n] = got[p][n])
           \/ Abort(p),
           \A n \in Watched : content'[n] = content[n], UNCHANGED unclean
    PROVE  Keeps(p)
<1>1. todo[p] # <<>> /\ todo[p] \in Seq(Steps)
  BY DEF Alone, TypeOK
<1>2. CASE Abort(p)
  BY <1>1, <1>2, Aborted, EmptyKeeps
<1>3. CASE Advance(p) /\ Forget(p)
  <2>1. todo'[p] = Tail(todo[p]) /\ p \notin half'
    BY <1>1, <1>3, Advanced
  <2>2. Len(todo[p]) = 1 => Tail(todo[p]) = <<>>
    BY <1>1, TailOfOne
  <2>3. got'[p] = got[p] \/ todo'[p] = <<>>
    BY <1>3, <2>1, <2>2 DEF Forget, TypeOK
  <2> QED
    BY <2>1, <2>3, StepKeeps
<1>4. CASE Advance(p) /\ \A n \in Watched : got'[p][n] = got[p][n]
  BY <1>1, <1>4, Advanced, StepKeeps
<1> QED
  BY <1>2, <1>3, <1>4

\* A reload that is over.
LEMMA AppliedKeeps ==
    ASSUME TypeOK, ShapeInv, NEW p \in Procs, Apply(p) \/ ApplyFails(p)
    PROVE  Keeps(p)
<1>1. todo[p] # <<>> /\ Step(p).op = "apply" /\ todo[p] \in Seq(Steps)
  BY Busy DEF Apply, ApplyFails, TypeOK
<1>2. CASE todo'[p] = <<>>
  BY <1>2, EmptyKeeps
<1>3. CASE todo'[p] = Tail(todo[p])
  <2>1. \A x \in Elems(Tail(todo[p])) : x.op \in {"publish", "remember"}
    BY <1>1, ShapedTail DEF ShapeInv, Step
  <2>2. ~Reloads(p)'
    BY <1>3, <2>1, ReloadsLeft DEF Left
  <2> QED
    BY <2>2, EndKeeps
<1> QED
  BY <1>1, <1>2, <1>3, Advanced, Aborted DEF Apply, ApplyFails

LEMMA ActsKeep ==
    ASSUME TypeOK, ShapeInv, CacheInv, NEW p \in Procs, Acts(p),
           \A n \in Watched : content'[n] = content[n]
    PROVE  \A q \in Procs : Keeps(q)
<1>1. Alone(p) /\ todo[p] # <<>>
  BY ActsAlone DEF Alone
<1>2. \A q \in Procs \ {p} : q \in unclean => q \in unclean'
  BY DEF Acts, Delete, Write, GetHit, GetRead, Fill, Check, Clear, Apply, ApplyFails, Announce,
         LoadAccount, Select, StoreRow, Remove, Remember, reloads
<1>3. \A q \in Procs \ {p} : Keeps(q)
  BY <1>1, <1>2, OtherKeeps DEF Alone
<1>4. CASE Apply(p) \/ ApplyFails(p)
  BY <1>3, <1>4, AppliedKeeps
<1>5. CASE Delete(p)
  <2>1. /\ Step(p).op # "get" /\ p \notin half /\ p \in half' /\ UNCHANGED <<todo, got, unclean>>
    BY <1>5, Busy DEF Delete, At
  <2>2. Keeps(p)
    BY <1>1, <2>1, StepKeeps
  <2> QED
    BY <1>3, <2>2
<1>6. CASE Write(p) \/ Fill(p) \/ Check(p) \/ Clear(p) \/ Announce(p) \/ Remove(p)
  <2>1. p \in half \/ Step(p).op # "get"
    BY <1>6, Busy DEF Write, Fill, Check, Clear, Announce, Remove, Amid
  <2>2. UNCHANGED unclean
    BY <1>6 DEF Write, Fill, Check, Clear, Announce, Remove, reloads
  <2>3. \/ Advance(p) /\ Forget(p)
        \/ Abort(p)
    BY <1>6 DEF Write, Fill, Check, Clear, Announce, Remove
  <2>4. Keeps(p)
    BY <1>1, <2>1, <2>2, <2>3, AdvanceKeeps
  <2> QED
    BY <1>3, <2>4
<1>7. CASE Select(p) \/ StoreRow(p) \/ Remember(p)
  <2>1. Step(p).op # "get" /\ UNCHANGED unclean
    BY <1>7, Busy DEF Select, StoreRow, Remember, reloads
  <2>2. \A n \in Watched : got'[p][n] = got[p][n]
    BY <1>7 DEF Select, StoreRow, Remember, TypeOK, Watched
  <2>3. \/ Advance(p)
        \/ UNCHANGED todo /\ p \notin half /\ p \in half'
    BY <1>7 DEF Select, StoreRow, Remember, At
  <2>4. Keeps(p)
    BY <1>1, <2>1, <2>2, <2>3, AdvanceKeeps, StepKeeps
  <2> QED
    BY <1>3, <2>4
<1>10. CASE LoadAccount(p)
  <2>1. Step(p).op = "look" /\ UNCHANGED unclean
    BY <1>10, Busy DEF LoadAccount, reloads
  <2>2. ~Reloads(p)'
    <3>1. Step(p) \in Left(p)
      BY <1>1, ElemsTail DEF Left, Step, TypeOK
    <3>2. Left(p)' \subseteq Left(p)
      BY <1>1, AloneShape
    <3> QED
      BY <2>1, <3>1, <3>2, ReloadsLeft DEF ShapeInv
  <2> QED
    BY <1>3, <2>2, EndKeeps
<1>8. CASE GetRead(p)
  <2>1. /\ Step(p).op = "get" /\ Step(p).name \in Watched /\ p \notin half /\ p \in half'
        /\ UNCHANGED <<todo, unclean>>
    BY <1>1, <1>8, Busy, Stepped DEF GetRead, At, Watched, reloads
  <2>2. got'[p] = [got[p] EXCEPT ![Step(p).name] = content[Step(p).name]]
    BY <1>8 DEF GetRead, TypeOK
  <2>3. Keeps(p)
    BY <1>1, <2>1, <2>2, ReadKeeps
  <2> QED
    BY <1>3, <2>3
<1>9. CASE GetHit(p)
  <2>1. /\ Step(p).op = "get" /\ Step(p).name \in Watched /\ p \notin half /\ Advance(p)
        /\ todo[p] \in Seq(Steps)
    BY <1>1, <1>9, Busy, Stepped DEF GetHit, At, Watched, TypeOK
  <2>2. todo'[p] = Tail(todo[p]) /\ p \notin half'
    BY <1>1, <2>1, Advanced
  <2>3. PICK v \in cache[Step(p).name] : Read(p, v)
    BY <1>9 DEF GetHit
  <2>4. unclean' = IF Step(p).name \in raced THEN unclean \cup {p} ELSE unclean
    BY <1>9 DEF GetHit
  <2>5. p \in unclean' \/ v = content[Step(p).name]
    BY <2>1, <2>3, <2>4 DEF CacheInv, Names, Watched
  <2>6. CASE Len(todo[p]) = 1
    <3>1. todo'[p] = <<>>
      BY <2>1, <2>2, <2>6, TailOfOne
    <3> QED
      BY <1>3, <3>1, EmptyKeeps
  <2>7. CASE Len(todo[p]) # 1
    <3>1. got'[p] = [got[p] EXCEPT ![Step(p).name] = v]
      BY <2>3, <2>7 DEF Read, TypeOK
    <3>2. Keeps(p)
      BY <1>1, <2>1, <2>2, <2>4, <2>5, <3>1, ReadKeeps
    <3> QED
      BY <1>3, <3>2
  <2> QED
    BY <2>6, <2>7
<1> QED
  BY <1>4, <1>5, <1>6, <1>7, <1>8, <1>9, <1>10 DEF Acts

-----------------------------------------------------------------------------
(* What instances serve *)

Mine(i) == {l \in Listeners : l[1] = i}

\* l is to remember a broadcast that began after the last change.
Remembers(l) == \E x \in Left(l) : x.op = "remember" /\ x.marker \in recent

\* Such a broadcast has yet to be received; its reload is in progress; is over.
Awaits(i) == \E l \in Mine(i) : Sent(l) \cap recent # {}
Pending(i) == \E l \in Mine(i) : Reloads(l) /\ Remembers(l)
Done(i) == markers[i] \in recent \/ \E l \in Mine(i) : ~Reloads(l) /\ Remembers(l)

\* Instance i serves what the settings say, or its last reload was unclean.
Served(i) == i \in spoiled \/ applied[i] = Config(content["webroot"], content["ssl"], applied[i])

Settled(i) ==
    /\ i \in informed => Awaits(i) \/ (Told(i) /\ (Pending(i) \/ Served(i)))
    /\ Done(i) => Told(i) /\ Served(i)
    /\ Pending(i) => Told(i)

ReloadInv == \A i \in Instances : Settled(i)

\* After a change all begins anew.
LEMMA ChangedSettles ==
    ASSUME recent' = {}, informed' = {}
    PROVE  ReloadInv'
BY DEF ReloadInv, Settled, Awaits, Pending, Done, Remembers

\* Nothing happens to what an instance serves.
LEMMA ServedKept ==
    ASSUME NEW i, applied'[i] = applied[i], i \in spoiled => i \in spoiled',
           \A n \in Watched : content'[n] = content[n]
    PROVE  Served(i) => Served(i)'
BY DEF Served, Watched

LEMMA SettledKept ==
    ASSUME NEW i, Settled(i), Told(i) => Told(i)', Served(i) => Served(i)',
           i \in informed' => i \in informed \/ Awaits(i)',
           Awaits(i) /\ i \in informed' => Awaits(i)',
           Pending(i)' <=> Pending(i), Done(i)' => Done(i)
    PROVE  Settled(i)'
BY DEF Settled

\* The listeners of i go on with the same.
LEMMA ListenersKept ==
    ASSUME NEW i, \A l \in Mine(i) : (Reloads(l)' <=> Reloads(l)) /\ (Remembers(l)' <=> Remembers(l)),
           markers'[i] \in recent' => markers[i] \in recent
    PROVE  (Pending(i)' <=> Pending(i)) /\ (Done(i)' => Done(i))
BY DEF Pending, Done

\* A listener that reads a setting goes on with its reload.
LEMMA ReaderKept ==
    ASSUME TypeOK, ShapeInv, NEW p \in Procs, Alone(p), UNCHANGED recent,
           Step(p).op \notin {"apply", "remember"},
           todo'[p] \in {todo[p], Tail(todo[p])} \/ Step(p).op # "get"
    PROVE  \A l \in Listeners : (Reloads(l)' <=> Reloads(l)) /\ (Remembers(l)' <=> Remembers(l))
<1> SUFFICES ASSUME NEW l \in Listeners
             PROVE  (Reloads(l)' <=> Reloads(l)) /\ (Remembers(l)' <=> Remembers(l))
  OBVIOUS
<1>1. l \in Procs
  BY DEF Procs
<1>2. CASE todo'[l] = todo[l]
  <2>1. Left(l)' = Left(l)
    BY <1>2 DEF Left
  <2> QED
    BY <2>1, ReloadsLeft DEF Remembers
<1>3. CASE l = p /\ todo'[p] # todo[p]
  <2>1. todo[p] \in Seq(Steps) /\ todo[p] # <<>>
    BY DEF TypeOK, Alone
  <2>2. Left(p) = {Step(p)} \cup Elems(Tail(todo[p]))
    BY <2>1, ElemsTail DEF Left, Step
  <2>3. Step(p).op = "get"
    BY <1>3, <2>2 DEF ShapeInv
  <2>4. Left(p)' = Elems(Tail(todo[p]))
    BY <1>3, <2>3 DEF Left
  <2> QED
    BY <1>3, <2>2, <2>3, <2>4, ReloadsLeft DEF Remembers
<1> QED
  BY <1>1, <1>2, <1>3 DEF Alone

\* Steps that neither reload nor publish.
LEMMA QuietSettled ==
    ASSUME TypeOK, ShapeInv, ReloadInv, NEW p \in Procs, Alone(p), \A q \in Procs : Keeps(q),
           UNCHANGED <<applied, spoiled, inbox, markers, recent, informed>>,
           Step(p).op \notin {"apply", "remember"},
           todo'[p] \in {todo[p], Tail(todo[p])} \/ Step(p).op # "get",
           \A n \in Watched : content'[n] = content[n]
    PROVE  ReloadInv'
<1> SUFFICES ASSUME NEW i \in Instances PROVE Settled(i)'
  BY DEF ReloadInv
<1>1. Told(i) => Told(i)'
  BY ToldKept
<1>2. Served(i) => Served(i)'
  BY ServedKept
<1>3. Awaits(i)' <=> Awaits(i)
  BY DEF Awaits, Sent
<1>4. (Pending(i)' <=> Pending(i)) /\ (Done(i)' => Done(i))
  BY ReaderKept, ListenersKept DEF Mine
<1> QED
  BY <1>1, <1>2, <1>3, <1>4, SettledKept DEF ReloadInv

\* nginx is configured with what the settings say, if the reload was clean.
LEMMA ApplySettled ==
    ASSUME TypeOK, ShapeInv, ReloadInv, NEW p \in Procs, Alone(p), \A q \in Procs : Keeps(q),
           Apply(p) \/ ApplyFails(p)
    PROVE  ReloadInv'
<1>17. todo[p] # <<>> /\ todo[p] \in Seq(Steps) /\ Step(p).op = "apply" /\ p \notin half
  BY Busy DEF Apply, ApplyFails, TypeOK, At
<1>18. PICK i \in Instances : i = Instance(p)
  BY <1>17, Located
<1>1. /\ todo[p] # <<>> /\ todo[p] \in Seq(Steps) /\ Step(p).op = "apply" /\ p \notin half
      /\ i \in Instances /\ Instance(p) = i
  BY <1>17, <1>18
<1>2. Left(p) = {Step(p)} \cup Elems(Tail(todo[p])) /\ \A x \in Elems(Tail(todo[p])) : x.op \in {"publish", "remember"}
  BY <1>1, ElemsTail, ShapedTail DEF ShapeInv, Left, Step
<1>3. Reloads(p) /\ ~Reloads(p)' /\ Left(p)' \subseteq Left(p)
  <2>1. Left(p)' \in {Elems(Tail(todo[p])), Elems(<<>>)}
    BY <1>1, Advanced, Aborted DEF Apply, ApplyFails, Left
  <2>2. Elems(<<>>) = {}
    BY DEF Elems
  <2> QED
    BY <1>1, <1>2, <2>1, <2>2, ReloadsLeft
<1>5. UNCHANGED <<content, markers, recent>>
  BY DEF Apply, ApplyFails, database, nginx
<1>6. \A l \in Listeners \ {p} : (Reloads(l)' <=> Reloads(l)) /\ (Remembers(l)' <=> Remembers(l))
  BY <1>5 DEF Alone, Reloads, Remembers, Left, Procs
<1>7. p \in Listeners => p \in Mine(i) /\ (Remembers(p)' => Remembers(p)) /\ i = p[1]
  BY <1>1, <1>3, <1>5 DEF Mine, Remembers, Instance
<1>8. \A j \in Instances : Told(j) => Told(j)'
  BY ToldKept
<1>9. Pending(i)' => Pending(i)
  BY <1>3, <1>6 DEF Pending, Mine
<1>10. Done(i)' => Done(i) \/ Pending(i)
  BY <1>3, <1>5, <1>6, <1>7 DEF Done, Pending, Mine
<1>11. Told(i) => Served(i)'
  <2>1. CASE ApplyFails(p)
    BY <1>1, <2>1 DEF ApplyFails, Served
  <2>2. CASE Apply(p)
    <3>1. /\ applied'[i] = Config(got[p].webroot, got[p].ssl, applied[i])
          /\ p \in unclean => i \in spoiled'
      BY <1>1, <2>2 DEF Apply, TypeOK
    <3>2. ASSUME Told(i), p \notin unclean
          PROVE  got[p].webroot = content["webroot"] /\ got[p].ssl = content["ssl"]
      <4>1. Fresh(p)
        BY <1>1, <1>3, <3>2 DEF Told, Trusted
      <4>2. Get("webroot") \notin Left(p) /\ Get("ssl") \notin Left(p)
        BY <1>1, <1>2 DEF Get
      <4> QED
        BY <1>1, <4>1, <4>2 DEF Fresh, Rest, Left, Watched, TypeOK
    <3>3. \A a, b, c : Config(a, b, Config(a, b, c)) = Config(a, b, c)
      BY DEF Config
    <3> QED
      BY <1>5, <3>1, <3>2, <3>3 DEF Served
  <2> QED
    BY <2>1, <2>2
<1>12. \A l \in Listeners \ {p} : inbox'[l] = inbox[l]
  BY DEF Apply, ApplyFails, Deaf, redis
<1>13. \A j \in Instances : j \in informed' => j \in informed
  BY DEF Apply, ApplyFails, Deaf
<1>14. \/ UNCHANGED inbox
       \/ p \in Listeners => i \notin informed'
  BY <1>7 DEF Apply, ApplyFails, Deaf, redis
<1>15. Settled(i)'
  <2>1. i \in informed' /\ Awaits(i) => Awaits(i)'
    BY <1>5, <1>12, <1>14 DEF Awaits, Sent, Mine
  <2> QED
    BY <1>1, <1>8, <1>9, <1>10, <1>11, <1>13, <2>1 DEF Settled, ReloadInv
<1>16. ASSUME NEW j \in Instances, j # i PROVE Settled(j)'
  <2>1. \A l \in Mine(j) : l # p /\ l \in Listeners
    BY <1>7, <1>16 DEF Mine
  <2>2. (Pending(j)' <=> Pending(j)) /\ (Done(j)' => Done(j))
    BY <1>5, <1>6, <2>1, ListenersKept
  <2>3. Awaits(j)' <=> Awaits(j)
    BY <1>5, <1>12, <2>1 DEF Awaits, Sent
  <2>4. applied'[j] = applied[j] /\ (j \in spoiled <=> j \in spoiled')
    BY <1>1, <1>16 DEF Apply, ApplyFails, TypeOK, nginx
  <2>5. Served(j) => Served(j)'
    BY <1>5, <2>4, ServedKept
  <2> QED
    BY <1>8, <1>13, <2>2, <2>3, <2>5, SettledKept DEF ReloadInv
<1> QED
  BY <1>15, <1>16 DEF ReloadInv

\* A broadcast that begins is awaited wherever its message has come.
LEMMA AnnounceSettled ==
    ASSUME TypeOK, ShapeInv, MarkerInv, ReloadInv, NEW p \in Procs, Alone(p), \A q \in Procs : Keeps(q),
           Announce(p)
    PROVE  ReloadInv'
<1>1. /\ todo[p] # <<>> /\ todo[p] \in Seq(Steps) /\ Step(p).op = "publish" /\ Step(p).marker \in Markers
  BY Busy, Stepped DEF Announce, TypeOK
<1>2. Step(p) \in Left(p)
  BY <1>1, ElemsTail DEF Left, Step
<1>3. p \notin Listeners
  BY <1>1, <1>2 DEF ShapeInv
<1>4. PICK m \in Markers : m = Step(p).marker
  BY <1>1
<1>5. UNCHANGED <<content, applied, spoiled, markers>>
  BY DEF Announce, database, nginx
<1>6. recent \subseteq recent' /\ recent' \subseteq recent \cup {m}
  BY <1>4 DEF Announce
<1>7. m \in recent' \ recent => ~Heard(m)
  <2> SUFFICES ASSUME m \in recent', m \notin recent PROVE ~Heard(m)
    OBVIOUS
  <2>1. Step(p).server = Redis[1]
    BY <1>4 DEF Announce
  <2> QED
    BY <1>1, <1>2, <1>4, <2>1 DEF MarkerInv, First
<1> SUFFICES ASSUME NEW i \in Instances PROVE Settled(i)'
  BY DEF ReloadInv
<1>8. \A l \in Mine(i) : (Reloads(l)' <=> Reloads(l)) /\ (Remembers(l)' <=> Remembers(l))
  <2> SUFFICES ASSUME NEW l \in Mine(i)
               PROVE  (Reloads(l)' <=> Reloads(l)) /\ (Remembers(l)' <=> Remembers(l))
    OBVIOUS
  <2>1. l \in Procs /\ l # p
    BY <1>3 DEF Mine, Procs
  <2>2. Left(l)' = Left(l)
    BY <2>1 DEF Alone, Left
  <2>3. ASSUME NEW x \in Left(l), x.op = "remember", x.marker \in recent'
        PROVE  x.marker \in recent
    BY <1>6, <1>7, <2>1, <2>3 DEF Heard
  <2> QED
    BY <1>6, <2>2, <2>3, ReloadsLeft DEF Remembers
<1>9. markers'[i] \in recent' => markers[i] \in recent
  BY <1>5, <1>6, <1>7 DEF Heard
<1>10. (Pending(i)' <=> Pending(i)) /\ (Done(i)' => Done(i))
  BY <1>8, <1>9, ListenersKept
<1>11. Told(i) => Told(i)'
  BY ToldKept
<1>12. Served(i) => Served(i)'
  BY <1>5, ServedKept
<1>13. ASSUME NEW l \in Listeners PROVE Sent(l) \subseteq Sent(l)'
  <2>1. inbox[l] \in Seq(Markers)
    BY DEF TypeOK
  <2>2. inbox'[l] \in {inbox[l], Append(inbox[l], m)}
    BY <1>4 DEF Announce
  <2>3. Elems(inbox[l]) \subseteq Elems(Append(inbox[l], m))
    BY <2>1 DEF Elems
  <2> QED
    BY <2>2, <2>3 DEF Sent
<1>14. Awaits(i) => Awaits(i)'
  BY <1>6, <1>13 DEF Awaits, Mine
<1>15. i \in informed' => i \in informed \/ Awaits(i)'
  <2> SUFFICES ASSUME i \in informed', i \notin informed PROVE Awaits(i)'
    OBVIOUS
  <2> DEFINE hear == {q \in listening : q[2] = Step(p).server}
  <2>1. /\ m \in recent' /\ informed' = informed \cup {q[1] : q \in hear}
        /\ inbox' = [q \in Listeners |-> IF q \in hear THEN Append(inbox[q], m) ELSE inbox[q]]
    BY <1>4 DEF Announce
  <2>2. PICK l \in hear : l[1] = i
    BY <2>1
  <2>3. l \in Listeners /\ inbox[l] \in Seq(Markers) /\ inbox'[l] = Append(inbox[l], m)
    BY <2>1, <2>2 DEF TypeOK
  <2>4. m \in Elems(Append(inbox[l], m))
    <3>1. Len(inbox[l]) + 1 \in DOMAIN Append(inbox[l], m) /\ Append(inbox[l], m)[Len(inbox[l]) + 1] = m
      BY <2>3
    <3> QED
      BY <3>1 DEF Elems
  <2> QED
    BY <2>1, <2>2, <2>3, <2>4 DEF Awaits, Sent, Mine
<1> QED
  BY <1>10, <1>11, <1>12, <1>14, <1>15, SettledKept DEF ReloadInv

\* The marker of a reload is remembered when the reload is over.
LEMMA RememberSettled ==
    ASSUME TypeOK, ShapeInv, ReloadInv, NEW p \in Listeners, p \in Procs, Alone(p),
           \A q \in Procs : Keeps(q), Remember(p)
    PROVE  ReloadInv'
<1>1. /\ todo[p] # <<>> /\ todo[p] \in Seq(Steps) /\ Step(p).op = "remember" /\ p[1] \in Instances
  BY Busy DEF Remember, TypeOK, Listeners
<1>2. Left(p) = {Step(p)} \cup Elems(Tail(todo[p])) /\ \A x \in Elems(Tail(todo[p])) : x.op \in {"publish", "remember"}
  BY <1>1, ElemsTail, ShapedTail DEF ShapeInv, Left, Step
<1>3. Left(p)' = Elems(Tail(todo[p]))
  BY <1>1, Advanced DEF Remember, Left
<1>4. ~Reloads(p) /\ ~Reloads(p)'
  BY <1>1, <1>2, <1>3, ReloadsLeft
<1>5. /\ UNCHANGED <<content, applied, spoiled, inbox, recent, informed>>
      /\ markers' = [markers EXCEPT ![p[1]] = Step(p).marker]
  BY DEF Remember, database, reloads
<1>6. \A l \in Listeners \ {p} : (Reloads(l)' <=> Reloads(l)) /\ (Remembers(l)' <=> Remembers(l))
  BY <1>5 DEF Alone, Reloads, Remembers, Left, Procs
<1>7. Remembers(p)' => Remembers(p)
  BY <1>2, <1>3, <1>5 DEF Remembers
<1> SUFFICES ASSUME NEW i \in Instances PROVE Settled(i)'
  BY DEF ReloadInv
<1>8. Pending(i)' <=> Pending(i)
  BY <1>4, <1>6 DEF Pending, Mine
<1>9. Done(i)' => Done(i)
  <2>1. ASSUME markers'[i] \in recent', markers'[i] # markers[i] PROVE Done(i)
    <3>1. p[1] = i /\ Step(p).marker \in recent
      BY <1>1, <1>5, <2>1 DEF TypeOK
    <3> QED
      BY <1>1, <1>2, <1>4, <3>1 DEF Done, Mine, Remembers
  <2>2. ASSUME markers'[i] \in recent', markers'[i] = markers[i] PROVE Done(i)
    BY <1>5, <2>2 DEF Done
  <2>3. ASSUME NEW l \in Mine(i), ~Reloads(l)', Remembers(l)' PROVE Done(i)
    BY <1>4, <1>6, <1>7, <2>3 DEF Done, Mine
  <2> QED
    BY <2>1, <2>2, <2>3 DEF Done
<1>10. Awaits(i)' <=> Awaits(i)
  BY <1>5 DEF Awaits, Sent
<1>11. Told(i) => Told(i)'
  BY ToldKept
<1>12. Served(i) => Served(i)'
  BY <1>5, ServedKept
<1> QED
  BY <1>5, <1>8, <1>9, <1>10, <1>11, <1>12, SettledKept DEF ReloadInv

LEMMA ActsSettled ==
    ASSUME TypeOK, ShapeInv, MarkerInv, CacheInv, ReloadInv, NEW p \in Procs, Acts(p)
    PROVE  ReloadInv'
<1>1. Alone(p) /\ todo[p] # <<>> /\ todo[p] \in Seq(Steps)
  BY ActsAlone DEF Alone, TypeOK
<1>2. CASE Clear(p)
  BY <1>2, ChangedSettles DEF Clear, Changed
<1>3. CASE Write(p) /\ Step(p).name \in Watched
  BY <1>3, ChangedSettles DEF Write, Changed, Watched
<1>4. CASE ~Clear(p) /\ ~(Write(p) /\ Step(p).name \in Watched)
  <2>1. \A n \in Watched : content'[n] = content[n]
    <3>1. CASE Write(p)
      BY <1>4, <3>1 DEF Write, TypeOK, Watched, Names
    <3>2. CASE ~Write(p)
      BY <1>4, <3>2 DEF Acts, Delete, GetHit, GetRead, Fill, Check, Apply, ApplyFails, Announce,
         LoadAccount, Select, StoreRow, Remove, Remember, database
    <3> QED
      BY <3>1, <3>2
  <2>2. \A q \in Procs : Keeps(q)
    BY <2>1, ActsKeep
  <2>3. CASE Apply(p) \/ ApplyFails(p)
    BY <1>1, <2>2, <2>3, ApplySettled
  <2>4. CASE Announce(p)
    BY <1>1, <2>2, <2>4, AnnounceSettled
  <2>5. CASE p \in Listeners /\ Remember(p)
    BY <1>1, <2>2, <2>5, RememberSettled
  <2>6. ASSUME UNCHANGED <<applied, spoiled, inbox, markers, recent, informed>>,
               Step(p).op \notin {"apply", "remember"},
               todo'[p] \in {todo[p], Tail(todo[p])} \/ Step(p).op # "get"
        PROVE  ReloadInv'
    BY <1>1, <2>1, <2>2, <2>6, QuietSettled
  <2>7. CASE Delete(p) \/ GetRead(p)
    BY <2>6, <2>7, Busy DEF Delete, GetRead, nginx, redis, reloads
  <2>8. CASE GetHit(p) \/ Fill(p)
    <3>1. todo'[p] = Tail(todo[p]) /\ Step(p).op = "get"
      BY <1>1, <2>8, Busy, Advanced DEF GetHit, Fill
    <3> QED
      BY <2>6, <2>8, <3>1 DEF GetHit, Fill, nginx, redis
  <2>9. CASE Write(p) \/ Check(p)
    BY <1>4, <2>6, <2>9, Busy DEF Write, Check, nginx, redis, reloads, Watched
  <2>10. CASE LoadAccount(p) \/ Select(p) \/ StoreRow(p) \/ Remove(p)
    BY <2>6, <2>10, Busy DEF LoadAccount, Select, StoreRow, Remove, nginx, redis, reloads
  <2> QED
    BY <1>4, <2>3, <2>4, <2>5, <2>7, <2>8, <2>9, <2>10 DEF Acts
<1> QED
  BY <1>2, <1>3, <1>4

\* Steps of Redis and memcached.
LEMMA StillSettled ==
    ASSUME TypeOK, ReloadInv, UNCHANGED <<content, applied, todo, half, home, got, recent, unclean, spoiled>>,
           \A i \in Instances : markers'[i] \in {markers[i], None},
           informed' = {} \/ UNCHANGED <<inbox, informed>>
    PROVE  ReloadInv'
<1> SUFFICES ASSUME NEW i \in Instances PROVE Settled(i)'
  BY DEF ReloadInv
<1>1. \A q \in Procs : Keeps(q)
  BY OtherKeeps DEF Instance
<1>2. Told(i) => Told(i)'
  BY <1>1, ToldKept
<1>3. Served(i) => Served(i)'
  BY ServedKept
<1>4. \A l \in Mine(i) : (Reloads(l)' <=> Reloads(l)) /\ (Remembers(l)' <=> Remembers(l))
  BY DEF Reloads, Remembers, Left
<1>5. markers'[i] \in recent' => markers[i] \in recent
  BY Absent DEF TypeOK
<1>6. (Pending(i)' <=> Pending(i)) /\ (Done(i)' => Done(i))
  BY <1>4, <1>5, ListenersKept
<1>7. Awaits(i) /\ i \in informed' => Awaits(i)'
  BY DEF Awaits, Sent
<1> QED
  BY <1>2, <1>3, <1>6, <1>7, SettledKept DEF ReloadInv

\* A process whose program begins with the reading of both settings.
LEMMA BeginKeeps ==
    ASSUME NEW p, p \notin half',
           Reloads(p)' => Get("webroot") \in Left(p)' /\ Get("ssl") \in Left(p)'
    PROVE  Trusted(p)'
BY DEF Trusted, Fresh, Rest, Left, Watched

LEMMA ArriveSettled ==
    ASSUME TypeOK, ReloadInv, NEW t \in Tasks, NEW j \in Instances, Arrive(t, j)
    PROVE  ReloadInv'
<1> DEFINE sq == Program(plan[requests + 1], requests + 1)
<1>1. /\ t \in Procs /\ t \notin Listeners /\ t \notin half
      /\ todo'[t] = sq /\ \A q \in Procs \ {t} : todo'[q] = todo[q] /\ Instance(q)' = Instance(q)
      /\ (\E x \in Elems(sq) : x.op = "apply") => Get("webroot") \in Elems(sq) /\ Get("ssl") \in Elems(sq)
      /\ \A q \in Procs \ {t} : q \in unclean => q \in unclean'
  BY Arrived
<1>2. UNCHANGED <<content, applied, markers, inbox, half, got, recent, informed, spoiled>>
  BY DEF Arrive, database, nginx, redis
<1> HIDE DEF sq
<1>3. Trusted(t)'
  BY <1>1, <1>2, BeginKeeps, ReloadsLeft DEF Left
<1>4. \A q \in Procs : Keeps(q)
  BY <1>1, <1>2, <1>3, OtherKeeps DEF Keeps
<1> SUFFICES ASSUME NEW i \in Instances PROVE Settled(i)'
  BY DEF ReloadInv
<1>5. \A l \in Mine(i) : (Reloads(l)' <=> Reloads(l)) /\ (Remembers(l)' <=> Remembers(l))
  BY <1>1, <1>2 DEF Mine, Procs, Reloads, Remembers, Left
<1>6. (Pending(i)' <=> Pending(i)) /\ (Done(i)' => Done(i))
  BY <1>2, <1>5, ListenersKept
<1>7. Awaits(i)' <=> Awaits(i)
  BY <1>2 DEF Awaits, Sent
<1>8. Told(i) => Told(i)'
  BY <1>4, ToldKept
<1>9. Served(i) => Served(i)'
  BY <1>2, ServedKept
<1> QED
  BY <1>2, <1>6, <1>7, <1>8, <1>9, SettledKept DEF ReloadInv

\* A message that is received begins a reload, during which all others of the
\* instance are unclean, or is a copy of one whose reload is over.
LEMMA ReceiveSettled ==
    ASSUME TypeOK, ReloadInv, NEW p \in Listeners, Receive(p)
    PROVE  ReloadInv'
<1>1. PICK m \in Markers :
              /\ p \in Procs /\ p[1] \in Instances /\ Left(p) = {} /\ p \notin half
              /\ Sent(p) = {m} \cup Sent(p)' /\ \A l \in Listeners \ {p} : Sent(l)' = Sent(l)
              /\ \/ markers[p[1]] = m /\ UNCHANGED <<todo, unclean>>
                 \/ /\ Begins(p, p[1])
                    /\ Shaped(todo'[p])
                    /\ Left(p)' = {Get("webroot"), Get("ssl"), [op |-> "apply"],
                                   [op |-> "remember", marker |-> m]}
                    /\ \A q \in Procs \ {p} : todo'[q] = todo[q]
  BY Received
<1>2. UNCHANGED <<content, applied, markers, half, home, got, recent, informed, spoiled>>
  BY DEF Receive, database, nginx
<1>3. \A q \in Procs : Instance(q)' = Instance(q)
  BY <1>2 DEF Instance
<1> SUFFICES ASSUME NEW i \in Instances PROVE Settled(i)'
  BY DEF ReloadInv
<1>4. Served(i) => Served(i)'
  BY <1>2, ServedKept
<1>5. Awaits(i) => Awaits(i)' \/ (m \in recent /\ p \in Mine(i))
  BY <1>1, <1>2 DEF Awaits, Mine
<1>6. CASE markers[p[1]] = m /\ UNCHANGED <<todo, unclean>>
  <2>1. \A q \in Procs : Keeps(q)
    BY <1>2, <1>3, <1>6, OtherKeeps
  <2>2. Told(i) => Told(i)'
    BY <2>1, ToldKept
  <2>3. \A l \in Mine(i) : (Reloads(l)' <=> Reloads(l)) /\ (Remembers(l)' <=> Remembers(l))
    BY <1>2, <1>6 DEF Reloads, Remembers, Left
  <2>4. (Pending(i)' <=> Pending(i)) /\ (Done(i)' => Done(i))
    BY <1>2, <2>3, ListenersKept
  <2>5. m \in recent /\ p \in Mine(i) => Done(i)
    BY <1>6 DEF Done, Mine
  <2> QED
    BY <1>2, <1>4, <1>5, <2>2, <2>4, <2>5 DEF Settled, ReloadInv
<1>7. CASE /\ Begins(p, p[1])
           /\ Left(p)' = {Get("webroot"), Get("ssl"), [op |-> "apply"],
                          [op |-> "remember", marker |-> m]}
           /\ \A q \in Procs \ {p} : todo'[q] = todo[q]
  <2>1. Trusted(p)'
    BY <1>1, <1>2, <1>7, BeginKeeps
  <2>2. \A q \in Procs \ {p} : q \in unclean => q \in unclean'
    BY <1>7 DEF Begins
  <2>3. \A q \in Procs : Keeps(q)
    BY <1>2, <1>3, <1>7, <2>1, <2>2, OtherKeeps DEF Keeps
  <2>4. Told(i) => Told(i)'
    BY <2>3, ToldKept
  <2>5. \A l \in Listeners \ {p} : (Reloads(l)' <=> Reloads(l)) /\ (Remembers(l)' <=> Remembers(l))
    BY <1>2, <1>7 DEF Reloads, Remembers, Left, Procs
  <2>6. CASE p \notin Mine(i)
    <3>1. \A l \in Mine(i) : (Reloads(l)' <=> Reloads(l)) /\ (Remembers(l)' <=> Remembers(l))
      BY <2>5, <2>6 DEF Mine
    <3>2. (Pending(i)' <=> Pending(i)) /\ (Done(i)' => Done(i))
      BY <1>2, <3>1, ListenersKept
    <3> QED
      BY <1>2, <1>4, <1>5, <2>4, <2>6, <3>2, SettledKept DEF ReloadInv
  <2>7. CASE p \in Mine(i)
    <3>1. ASSUME NEW q \in Procs, Instance(q)' = i PROVE Trusted(q)'
      <4>1. CASE q # p /\ Reloads(q)
        <5>1. Instance(q) = p[1]
          BY <1>3, <2>7, <3>1 DEF Mine
        <5>2. q \in unclean'
          BY <1>7, <4>1, <5>1 DEF Begins
        <5> QED
          BY <5>2 DEF Trusted
      <4>2. CASE q # p /\ ~Reloads(q)
        <5>1. ~Reloads(q)'
          BY <1>7, <4>2 DEF Reloads
        <5> QED
          BY <5>1 DEF Trusted
      <4> QED
        BY <2>1, <4>1, <4>2
    <3>2. Told(i)'
      BY <3>1 DEF Told
    <3>3. ~Reloads(p) /\ Reloads(p)' /\ (m \in recent => Remembers(p)')
      <4>1. ~Reloads(p)
        BY <1>1, ReloadsLeft
      <4>2. PICK x \in Left(p)' : x.op = "apply"
        BY <1>7
      <4>3. Reloads(p)'
        BY <4>2, ReloadsLeft
      <4>4. PICK y \in Left(p)' : y.op = "remember" /\ y.marker = m
        BY <1>7
      <4>5. m \in recent => Remembers(p)'
        BY <1>2, <4>4 DEF Remembers
      <4> QED
        BY <4>1, <4>3, <4>5
    <3>4. Pending(i) => Pending(i)'
      BY <2>5, <3>3 DEF Pending, Mine
    <3>5. m \in recent => Pending(i)'
      BY <2>7, <3>3 DEF Pending
    <3>6. Done(i)' => Done(i)
      BY <1>2, <2>5, <3>3 DEF Done, Mine
    <3> QED
      BY <1>2, <1>4, <1>5, <3>2, <3>4, <3>5, <3>6 DEF Settled, ReloadInv
  <2> QED
    BY <2>6, <2>7
<1> QED
  BY <1>1, <1>6, <1>7

LEMMA NextSettled ==
    ASSUME TypeOK, ShapeInv, MarkerInv, CacheInv, ReloadInv, [Next]_vars
    PROVE  ReloadInv'
<1>1. CASE UNCHANGED vars \/ Flush
  BY <1>1, StillSettled DEF vars, Flush, database, nginx, redis, locals, reloads
<1>2. ASSUME NEW p \in Procs, Acts(p) PROVE ReloadInv'
  BY <1>2, ActsSettled
<1>3. ASSUME NEW t \in Tasks, NEW i \in Instances, Arrive(t, i) PROVE ReloadInv'
  BY <1>3, ArriveSettled
<1>4. ASSUME NEW p \in Listeners, Receive(p) PROVE ReloadInv'
  BY <1>4, ReceiveSettled
<1>5. ASSUME NEW s \in Servers, Break(s) PROVE ReloadInv'
  <2>1. UNCHANGED <<content, applied, markers, todo, half, home, got, recent, unclean, spoiled>>
    BY <1>5 DEF Break, database, nginx, locals
  <2>2. informed' = informed \ {p[1] : p \in {q \in Listeners : q[2] = s}}
    BY <1>5 DEF Break, Deaf
  <2>3. \A i \in Instances : <<i, s>> \in {q \in Listeners : q[2] = s} /\ <<i, s>>[1] = i
    BY DEF Listeners
  <2>4. informed' = {}
    BY <2>2, <2>3 DEF TypeOK
  <2> QED
    BY <2>1, <2>4, StillSettled
<1>6. ASSUME NEW s \in Servers, Repair(s) PROVE ReloadInv'
  BY <1>6, StillSettled DEF Repair, database, nginx, locals, reloads
<1>7. ASSUME NEW i \in Instances, Relisten(i) PROVE ReloadInv'
  <2>1. \A j \in Instances : markers'[j] \in {markers[j], None}
    BY <1>7 DEF Relisten, TypeOK
  <2> QED
    BY <1>7, <2>1, StillSettled DEF Relisten, database, locals, reloads
<1> QED
  BY <1>1, <1>2, <1>3, <1>4, <1>5, <1>6, <1>7 DEF Next, Acts, Procs

-----------------------------------------------------------------------------
ServeInv == TypeOK /\ ShapeInv /\ MarkerInv /\ CacheInv /\ ReloadInv

LEMMA InitServes ==
    ASSUME Init
    PROVE  ServeInv
<1>1. /\ todo = [p \in Procs |-> <<>>] /\ inbox = [p \in Listeners |-> <<>>]
      /\ markers = [i \in Instances |-> None] /\ cache = [n \in Names |-> {}]
      /\ recent = {} /\ informed = {} /\ half = {}
  BY DEF Init
<1>2. Elems(<<>>) = {} /\ Shaped(<<>>)
  BY DEF Elems, Shaped
<1>3. (\A p \in Procs : Left(p) = {}) /\ \A l \in Listeners : Sent(l) = {}
  BY <1>1, <1>2 DEF Left, Sent
<1>4. ShapeInv
  BY <1>1, <1>2, <1>3 DEF ShapeInv, Procs
<1>5. MarkerInv
  BY <1>1, <1>3, Absent DEF MarkerInv, Heard
<1>6. CacheInv
  BY <1>1 DEF CacheInv, Amid
<1>7. ReloadInv
  <2>1. \A i \in Instances : ~Done(i) /\ ~Pending(i)
    BY <1>1 DEF Done, Pending, Remembers
  <2> QED
    BY <1>1, <2>1 DEF ReloadInv, Settled
<1> QED
  BY <1>4, <1>5, <1>6, <1>7, InitTypeOK DEF ServeInv

\* The invariant that is inductive: a broadcast that began after the last change
\* is on its way to an instance, or its reload is in progress and the reloads of
\* the instance will end with the present settings, or it is over.
THEOREM Settling == Spec => []ServeInv
<1>1. Init => ServeInv
  BY InitServes
<1>2. ServeInv /\ [Next]_vars => ServeInv'
  BY NextTypeOK, NextMarkers, NextCache, NextSettled DEF ServeInv
<1> QED
  BY <1>1, <1>2, PTL DEF Spec

\* `manage reload --broadcast': an instance that it has reached serves what the
\* settings say once it is quiet, although markers are remembered late, messages
\* come once per Redis server, and copies and Redis servers fail.
THEOREM ServesAsSet == Spec => []AppliedAsSet
<1>1. ServeInv => AppliedAsSet
  <2> SUFFICES ASSUME ServeInv, NEW i \in informed \ spoiled, Quiet(i)
               PROVE  applied[i] = Config(content["webroot"], content["ssl"], applied[i])
    BY DEF AppliedAsSet
  <2>1. i \in Instances
    BY DEF ServeInv, TypeOK
  <2>2. \A l \in Mine(i) : inbox[l] = <<>> /\ todo[l] = <<>>
    <3>1. \A l \in Mine(i) : l \in {i} \X Servers
      BY DEF Mine, Listeners
    <3> QED
      BY <3>1 DEF Quiet
  <2>3. ~Awaits(i)
    BY <2>2 DEF Awaits, Sent, Elems
  <2>4. ~Pending(i)
    BY <2>2 DEF Pending, Reloads
  <2> QED
    BY <2>1, <2>3, <2>4 DEF ServeInv, ReloadInv, Settled, Served
<1> QED
  BY <1>1, Settling, PTL
=============================================================================
