------------------------- MODULE Management_proofs --------------------------
(***************************************************************************)
(* Backups and key-value items keep what was stored last, for any          *)
(* containers, plans and number of requests at a time.                     *)
(***************************************************************************)
EXTENDS Management, TLAPS

-----------------------------------------------------------------------------
(* Programs *)

LEMMA Absent ==
    /\ None \notin Values /\ None \notin Instances /\ None \notin Options /\ None \notin Markers
    /\ None \notin Ids /\ None # "https"
BY ManagementAssumption DEF Markers, Ids

\* The program of a request has steps.
LEMMA ProgramTyped ==
    ASSUME NEW r \in Request, NEW m \in Markers
    PROVE  Program(r, m) \in Seq(Steps) /\ Program(r, m) # <<>>
<1>1. Reload \in Seq(Steps) /\ Reload # <<>>
  <2>1. Get("webroot") \in Steps /\ Get("ssl") \in Steps /\ [op |-> "apply"] \in Steps
    BY DEF Get, Steps, Names
  <2> QED
    BY <2>1 DEF Reload
<1>2. CASE r.kind = "set"
  <2>1. r.name \in Names /\ r.value \in Settings
    BY <1>2 DEF Request
  <2>2. Set(r.name, r.value) \in Steps
    BY <2>1 DEF Set, Steps
  <2> QED
    BY <1>2, <2>2 DEF Program
<1>3. CASE r.kind = "ssl"
  <2>1. r.value \in Settings
    BY <1>3 DEF Request, Settings
  <2>2. Set("ssl", r.value) \in Steps
    BY <2>1 DEF Set, Steps, Names
  <2>3. Program(r, m) = <<Set("ssl", r.value)>> \o Reload
    BY <1>3 DEF Program
  <2> QED
    BY <1>1, <2>2, <2>3
<1>4. CASE r.kind = "acme"
  <2>1. r.value \in Values
    BY <1>4 DEF Request
  <2>2. /\ Set("acme", r.value) \in Steps /\ Look(r.value) \in Steps
        /\ Store(Account, r.value) \in Steps /\ Get("webroot") \in Steps
    BY <2>1 DEF Set, Look, Store, Get, Steps, Names, Settings, Keys
  <2> QED
    BY <1>4, <2>2 DEF Program
<1>5. CASE r.kind = "email"
  <2>1. r.value \in Values
    BY <1>5 DEF Request
  <2>2. Set("email", r.value) \in Steps /\ [op |-> "check"] \in Steps /\ Set("configured", "on") \in Steps
    BY <2>1 DEF Set, Steps, Names, Settings
  <2> QED
    BY <1>5, <2>2 DEF Program
<1>6. CASE r.kind = "reload"
  BY <1>1, <1>6 DEF Program
<1>7. CASE r.kind = "broadcast"
  <2> DEFINE ps == [k \in DOMAIN Redis |-> Publish(Redis[k], m)]
  <2>1. \A k \in DOMAIN Redis : Publish(Redis[k], m) \in Steps
    BY DEF Publish, Steps, Servers
  <2>2. ps \in Seq(Steps)
    BY <2>1, ManagementAssumption
  <2>3. Program(r, m) = Reload \o ps
    BY <1>7 DEF Program
  <2> HIDE DEF ps
  <2> QED
    BY <1>1, <2>2, <2>3
<1>8. CASE r.kind = "reset"
  <2>1. [op |-> "clear"] \in Steps
    BY DEF Steps
  <2> QED
    BY <1>8, <2>1 DEF Program
<1>9. CASE r.kind = "store"
  <2>1. Store(r.key, r.value) \in Steps
    BY <1>9 DEF Request, Store, Steps, Keys
  <2> QED
    BY <1>9, <2>1 DEF Program
<1>10. CASE r.kind = "remove"
  <2>1. [op |-> "remove", key |-> r.key] \in Steps
    BY <1>10 DEF Request, Steps, Keys
  <2> QED
    BY <1>10, <2>1 DEF Program
<1>11. r.kind \in {"set", "ssl", "acme", "email", "reload", "broadcast", "reset", "store", "remove"}
  BY DEF Request
<1> QED
  BY <1>2, <1>3, <1>4, <1>5, <1>6, <1>7, <1>8, <1>9, <1>10, <1>11

-----------------------------------------------------------------------------
(* Types *)

\* What a process has left to do, and where.
TasksOK ==
    /\ todo \in [Procs -> Seq(Steps)]
    /\ home \in [Tasks -> Instances \cup {None}]
    /\ \A p \in Procs : todo[p] = <<>> => p \notin half
    /\ \A t \in Tasks : todo[t] = <<>> <=> home[t] = None

\* A process goes on with another program.
LEMMA Ran ==
    ASSUME TypeOK, NEW p \in Procs, NEW program \in Seq(Steps), todo[p] # <<>>, Run(p, program)
    PROVE  /\ TasksOK' /\ todo'[p] = program /\ p \notin half'
           /\ \A q \in Procs \ {p} : todo'[q] = todo[q] /\ (q \in half' <=> q \in half)
<1>1. /\ todo' \in [Procs -> Seq(Steps)] /\ todo'[p] = program
      /\ \A q \in Procs \ {p} : todo'[q] = todo[q]
  BY DEF TypeOK, Run
<1>2. p \notin half' /\ \A q \in Procs \ {p} : (q \in half' <=> q \in half)
  BY DEF Run
<1>3. home' \in [Tasks -> Instances \cup {None}] /\ \A t \in Tasks : todo'[t] = <<>> <=> home'[t] = None
  BY <1>1 DEF Run, TypeOK, Procs
<1>4. \A q \in Procs : todo'[q] = <<>> => q \notin half'
  BY <1>1, <1>2 DEF TypeOK
<1> QED
  BY <1>1, <1>2, <1>3, <1>4 DEF TasksOK

LEMMA Advanced ==
    ASSUME TypeOK, NEW p \in Procs, todo[p] # <<>>, Advance(p)
    PROVE  /\ TasksOK' /\ todo'[p] = Tail(todo[p]) /\ p \notin half'
           /\ \A q \in Procs \ {p} : todo'[q] = todo[q] /\ (q \in half' <=> q \in half)
<1>1. Tail(todo[p]) \in Seq(Steps)
  BY DEF TypeOK
<1> QED
  BY <1>1, Ran DEF Advance

LEMMA Aborted ==
    ASSUME TypeOK, NEW p \in Procs, todo[p] # <<>>, Abort(p)
    PROVE  /\ TasksOK' /\ todo'[p] = <<>> /\ p \notin half'
           /\ \A q \in Procs \ {p} : todo'[q] = todo[q] /\ (q \in half' <=> q \in half)
<1>1. <<>> \in Seq(Steps)
  OBVIOUS
<1> QED
  BY <1>1, Ran DEF Abort

\* A process leaves out the step after its next one.
LEMMA Skipped ==
    ASSUME TypeOK, NEW p \in Procs, todo[p] # <<>>, Run(p, SubSeq(todo[p], 3, Len(todo[p])))
    PROVE  /\ TasksOK' /\ todo'[p] = SubSeq(todo[p], 3, Len(todo[p])) /\ p \notin half'
           /\ \A q \in Procs \ {p} : todo'[q] = todo[q] /\ (q \in half' <=> q \in half)
<1>1. SubSeq(todo[p], 3, Len(todo[p])) \in Seq(Steps)
  <2>1. todo[p] \in Seq(Steps)
    BY DEF TypeOK
  <2> QED
    BY <2>1
<1> QED
  BY <1>1, Ran

\* A process between the two queries of a step.
LEMMA Halved ==
    ASSUME TypeOK, NEW p \in Procs, todo[p] # <<>>, half' = half \cup {p}, UNCHANGED <<todo, home>>
    PROVE  TasksOK'
BY DEF TypeOK, TasksOK

\* The instance of a process that has something to do.
LEMMA Located ==
    ASSUME TypeOK, NEW p \in Procs, todo[p] # <<>>
    PROVE  Instance(p) \in Instances
<1>1. CASE p \in Listeners
  BY <1>1 DEF Instance, Listeners
<1>2. CASE p \notin Listeners
  BY <1>2 DEF Instance, TypeOK, Procs
<1> QED
  BY <1>1, <1>2

\* The step of a process.
LEMMA Stepped ==
    ASSUME TypeOK, NEW p \in Procs, todo[p] # <<>>
    PROVE  /\ Step(p) \in Steps
           /\ Step(p).op = "set" => Step(p).name \in Names /\ Step(p).value \in Settings
           /\ Step(p).op = "get" => Step(p).name \in {"webroot", "ssl"}
           /\ Step(p).op = "publish" => Step(p).server \in Servers /\ Step(p).marker \in Markers
           /\ Step(p).op = "remember" => Step(p).marker \in Markers
           /\ Step(p).op = "store" => Step(p).key \in Keys /\ Step(p).value \in Values
           /\ Step(p).op = "remove" => Step(p).key \in Keys
<1>1. Step(p) \in Steps
  BY DEF TypeOK, Step
<1> QED
  BY <1>1 DEF Steps

\* What processes have read; what they have read of settings and of rows.
Gots == [webroot : Settings, ssl : Settings, row : Ids \cup {None}]

LEMMA Forgotten ==
    ASSUME TypeOK, NEW p \in Procs, Forget(p)
    PROVE  got' \in [Procs -> Gots] /\ \A q \in Procs \ {p} : got'[q] = got[q]
<1>1. Nothing \in Gots
  BY DEF Nothing, Gots, Settings
<1>2. got \in [Procs -> Gots]
  BY DEF TypeOK, Gots
<1> QED
  BY <1>1, <1>2 DEF Forget

\* The configuration that nginx gets.
LEMMA Configured ==
    ASSUME NEW a \in Settings, NEW b \in Settings, NEW x \in Configs \cup {None}
    PROVE  Config(a, b, x) \in Configs \cup {None}
BY ManagementAssumption DEF Config, Configs, Settings, Options

\* A setting is read into what p has.
LEMMA ReadTyped ==
    ASSUME NEW x \in Gots, NEW n \in {"webroot", "ssl"}, NEW v \in Settings
    PROVE  [x EXCEPT ![n] = v] \in Gots /\ x[n] \in Settings
<1>1. CASE n = "webroot"
  BY <1>1 DEF Gots
<1>2. CASE n = "ssl"
  BY <1>2 DEF Gots
<1> QED
  BY <1>1, <1>2

LEMMA StepTypeOK ==
    ASSUME TypeOK, TasksOK',
           content' \in [Names -> Settings],
           cache' \in [Names -> {{}} \cup {{v} : v \in Settings}], flushing' \in BOOLEAN,
           rows' \in [Keys -> SUBSET Rows],
           applied' \in [Instances -> Configs \cup {None}],
           markers' \in [Instances -> Markers \cup {None}],
           listening' \subseteq Listeners, up' \subseteq Servers,
           inbox' \in [Listeners -> Seq(Markers)],
           \A p \in Listeners : inbox'[p] # <<>> => p \in listening',
           got' \in [Procs -> Gots],
           plan' \in Plans, requests' \in 0..MaxRequests, breaks' \in 0..MaxBreaks, nextId' \in Ids,
           raced' \subseteq Names, recent' \subseteq Markers,
           informed' \subseteq Instances, spoiled' \subseteq Instances,
           unclean' \subseteq Procs, crossed' \subseteq Procs,
           mixed' \subseteq Keys, last' \in [Keys -> Values \cup {None}]
    PROVE  TypeOK'
BY DEF TypeOK, TasksOK, Gots

\* A process that takes a step is not at the end.
LEMMA Busy ==
    ASSUME NEW p, NEW op, At(p, op) \/ Amid(p, op)
    PROVE  todo[p] # <<>> /\ Step(p).op = op
BY DEF At, Amid, Step

\* Requests arrive.
LEMMA ArriveTyped ==
    ASSUME TypeOK, NEW t \in Tasks, NEW i \in Instances, Arrive(t, i)
    PROVE  TypeOK'
<1> DEFINE r == plan[requests + 1]
<1>1. /\ todo[t] = <<>> /\ requests < Len(plan) /\ requests' = requests + 1
      /\ todo' = [todo EXCEPT ![t] = Program(r, requests + 1)]
      /\ home' = [home EXCEPT ![t] = i]
      /\ flushing' = (flushing \/ r.kind = "reset")
      /\ UNCHANGED <<database, cache, nginx, redis, half, got, plan, breaks, nextId,
                     raced, recent, informed, spoiled, stores>>
  BY DEF Arrive
<1>2. plan \in Seq(Request) /\ Len(plan) <= MaxRequests /\ MaxRequests \in Nat
  BY ManagementAssumption DEF TypeOK
<1>3. requests + 1 \in Markers /\ requests' \in 0..MaxRequests /\ r \in Request
  BY <1>1, <1>2 DEF TypeOK, Markers
<1>4. Program(r, requests + 1) \in Seq(Steps) /\ Program(r, requests + 1) # <<>>
  BY <1>3, ProgramTyped
<1>5. t \in Procs /\ i # None
  BY Absent DEF Procs
<1>6. TasksOK'
  BY <1>1, <1>4, <1>5 DEF TypeOK, TasksOK
<1>7. unclean' \subseteq Procs
  BY <1>5 DEF Arrive, Begins, TypeOK
<1> QED
  BY <1>1, <1>3, <1>6, <1>7, StepTypeOK
     DEF TypeOK, Gots, database, nginx, redis, stores

LEMMA DeleteTyped ==
    ASSUME TypeOK, NEW p \in Procs, Delete(p)
    PROVE  TypeOK'
<1>1. todo[p] # <<>> /\ Step(p).name \in Names
  BY Busy, Stepped DEF Delete
<1>2. TasksOK'
  BY <1>1, Halved DEF Delete
<1>3. cache' \in [Names -> {{}} \cup {{v} : v \in Settings}] /\ raced' \subseteq Names
  BY <1>1 DEF Delete, TypeOK
<1> QED
  BY <1>2, <1>3, StepTypeOK DEF Delete, TypeOK, Gots, database, nginx, redis, bounds, stores

LEMMA WriteTyped ==
    ASSUME TypeOK, NEW p \in Procs, Write(p)
    PROVE  TypeOK'
<1>1. todo[p] # <<>> /\ Step(p).name \in Names /\ Step(p).value \in Settings
  BY Busy, Stepped DEF Write
<1>2. TasksOK'
  BY <1>1, Advanced DEF Write
<1>3. got' \in [Procs -> Gots]
  BY Forgotten DEF Write
<1>4. content' \in [Names -> Settings] /\ recent' \subseteq Markers /\ informed' \subseteq Instances
  BY <1>1 DEF Write, TypeOK, Changed
<1> QED
  BY <1>2, <1>3, <1>4, StepTypeOK DEF Write, TypeOK, memcached, nginx, redis, bounds, stores

LEMMA GetHitTyped ==
    ASSUME TypeOK, NEW p \in Procs, GetHit(p)
    PROVE  TypeOK'
<1>1. todo[p] # <<>> /\ Step(p).name \in {"webroot", "ssl"} /\ Step(p).name \in Names
  BY Busy, Stepped DEF GetHit, Names
<1>2. TasksOK'
  BY <1>1, Advanced DEF GetHit
<1>3. PICK v \in cache[Step(p).name] : Read(p, v)
  BY DEF GetHit
<1>4. v \in Settings
  <2>1. cache[Step(p).name] \in {{}} \cup {{w} : w \in Settings}
    BY <1>1 DEF TypeOK
  <2>2. PICK w \in Settings : cache[Step(p).name] = {w}
    BY <1>3, <2>1
  <2> QED
    BY <1>3, <2>2
<1>5. got' \in [Procs -> Gots]
  <2>1. got \in [Procs -> Gots] /\ Nothing \in Gots
    BY DEF TypeOK, Gots, Nothing, Settings
  <2>2. [got[p] EXCEPT ![Step(p).name] = v] \in Gots
    BY <1>1, <1>4, <2>1, ReadTyped
  <2>3. got' = [got EXCEPT ![p] = IF Len(todo[p]) = 1 THEN Nothing
                                 ELSE [got[p] EXCEPT ![Step(p).name] = v]]
    BY <1>3, <2>1 DEF Read
  <2> QED
    BY <2>1, <2>2, <2>3
<1>6. unclean' \subseteq Procs
  BY DEF GetHit, TypeOK
<1> QED
  BY <1>2, <1>5, <1>6, StepTypeOK DEF GetHit, TypeOK, database, memcached, nginx, redis, bounds, stores

LEMMA GetReadTyped ==
    ASSUME TypeOK, NEW p \in Procs, GetRead(p)
    PROVE  TypeOK'
<1>1. todo[p] # <<>> /\ Step(p).name \in {"webroot", "ssl"} /\ Step(p).name \in Names
  BY Busy, Stepped DEF GetRead, Names
<1>2. TasksOK'
  BY <1>1, Halved DEF GetRead
<1>3. got' \in [Procs -> Gots]
  <2>1. got \in [Procs -> Gots] /\ content[Step(p).name] \in Settings
    BY <1>1 DEF TypeOK, Gots
  <2>2. [got[p] EXCEPT ![Step(p).name] = content[Step(p).name]] \in Gots
    BY <1>1, <2>1, ReadTyped
  <2>3. got' = [got EXCEPT ![p] = [got[p] EXCEPT ![Step(p).name] = content[Step(p).name]]]
    BY DEF GetRead
  <2> QED
    BY <2>1, <2>2, <2>3
<1> QED
  BY <1>2, <1>3, StepTypeOK
     DEF GetRead, TypeOK, database, memcached, nginx, redis, bounds, reloads, stores

LEMMA FillTyped ==
    ASSUME TypeOK, NEW p \in Procs, Fill(p)
    PROVE  TypeOK'
<1>1. todo[p] # <<>> /\ Step(p).name \in {"webroot", "ssl"} /\ Step(p).name \in Names
  BY Busy, Stepped DEF Fill, Names
<1>2. TasksOK'
  BY <1>1, Advanced DEF Fill
<1>3. got' \in [Procs -> Gots]
  BY Forgotten DEF Fill
<1>4. got[p][Step(p).name] \in Settings
  <2>1. got[p] \in Gots
    BY DEF TypeOK, Gots
  <2> QED
    BY <1>1, <2>1, ReadTyped DEF TypeOK
<1>5. cache' \in [Names -> {{}} \cup {{v} : v \in Settings}] /\ raced' \subseteq Names
  BY <1>1, <1>4 DEF Fill, TypeOK
<1> QED
  BY <1>2, <1>3, <1>5, StepTypeOK DEF Fill, TypeOK, database, nginx, redis, bounds, stores

LEMMA CheckTyped ==
    ASSUME TypeOK, NEW p \in Procs, Check(p)
    PROVE  TypeOK'
<1>1. todo[p] # <<>>
  BY Busy DEF Check
<1>2. Nothing \in Gots
  BY DEF Nothing, Gots, Settings
<1>3. CASE Advance(p) /\ Forget(p)
  <2>1. TasksOK' /\ got' \in [Procs -> Gots]
    BY <1>1, <1>3, Advanced, Forgotten
  <2> QED
    BY <2>1, StepTypeOK
       DEF Check, TypeOK, database, memcached, nginx, redis, bounds, reloads, stores
<1>4. CASE Abort(p)
  <2>1. TasksOK'
    BY <1>1, <1>4, Aborted
  <2>2. got' \in [Procs -> Gots]
    BY <1>2, <1>4 DEF Abort, TypeOK, Gots
  <2> QED
    BY <2>1, <2>2, StepTypeOK
       DEF Check, TypeOK, database, memcached, nginx, redis, bounds, reloads, stores
<1> QED
  BY <1>3, <1>4 DEF Check

LEMMA ClearTyped ==
    ASSUME TypeOK, NEW p \in Procs, Clear(p)
    PROVE  TypeOK'
<1>1. todo[p] # <<>>
  BY Busy DEF Clear
<1>2. TasksOK' /\ got' \in [Procs -> Gots]
  BY <1>1, Advanced, Forgotten DEF Clear
<1>3. content' \in [Names -> Settings] /\ raced' \subseteq Names
      /\ recent' \subseteq Markers /\ informed' \subseteq Instances
  BY DEF Clear, TypeOK, Changed, Settings
<1> QED
  BY <1>2, <1>3, StepTypeOK DEF Clear, TypeOK, memcached, nginx, redis, bounds, stores

LEMMA FlushTyped ==
    ASSUME TypeOK, Flush
    PROVE  TypeOK'
<1>1. TasksOK' /\ got' \in [Procs -> Gots]
  BY DEF Flush, TypeOK, TasksOK, Gots, locals
<1>2. cache' \in [Names -> {{}} \cup {{v} : v \in Settings}] /\ raced' \subseteq Names
  BY DEF Flush
<1> QED
  BY <1>1, <1>2, StepTypeOK DEF Flush, TypeOK, database, nginx, redis, bounds, stores

LEMMA ApplyTyped ==
    ASSUME TypeOK, NEW p \in Procs, Apply(p)
    PROVE  TypeOK'
<1> DEFINE i == Instance(p)
<1>1. todo[p] # <<>> /\ i \in Instances
  BY Busy, Located DEF Apply
<1>2. TasksOK'
  BY <1>1, Advanced DEF Apply
<1>3. got \in [Procs -> Gots] /\ Nothing \in Gots
  BY DEF TypeOK, Gots, Nothing, Settings
<1>4. got' \in [Procs -> Gots]
  BY <1>3 DEF Apply
<1>5. applied' \in [Instances -> Configs \cup {None}]
  <2>1. got[p].webroot \in Settings /\ got[p].ssl \in Settings
    BY <1>3 DEF Gots
  <2>2. Config(got[p].webroot, got[p].ssl, applied[i]) \in Configs \cup {None}
    BY <1>1, <2>1, Configured DEF TypeOK
  <2>3. applied' = [applied EXCEPT ![i] = Config(got[p].webroot, got[p].ssl, applied[i])]
    BY DEF Apply
  <2> QED
    BY <2>2, <2>3 DEF TypeOK
<1>6. spoiled' \subseteq Instances /\ unclean' \subseteq Procs
  BY <1>1 DEF Apply, TypeOK
<1> QED
  BY <1>2, <1>4, <1>5, <1>6, StepTypeOK DEF Apply, TypeOK, database, memcached, redis, bounds, stores

\* Listeners end.
LEMMA Deafened ==
    ASSUME TypeOK, NEW ps, Deaf(ps)
    PROVE  /\ listening' \subseteq Listeners /\ informed' \subseteq Instances
           /\ inbox' \in [Listeners -> Seq(Markers)]
           /\ \A p \in Listeners : inbox'[p] # <<>> => p \in listening'
<1>1. <<>> \in Seq(Markers)
  OBVIOUS
<1> QED
  BY <1>1 DEF Deaf, TypeOK

LEMMA ApplyFailsTyped ==
    ASSUME TypeOK, NEW p \in Procs, ApplyFails(p)
    PROVE  TypeOK'
<1>1. todo[p] # <<>> /\ Instance(p) \in Instances
  BY Busy, Located DEF ApplyFails
<1>2. TasksOK'
  BY <1>1, Aborted DEF ApplyFails
<1>3. got' \in [Procs -> Gots]
  <2>1. Nothing \in Gots
    BY DEF Nothing, Gots, Settings
  <2> QED
    BY <2>1 DEF ApplyFails, Abort, TypeOK, Gots
<1>4. /\ listening' \subseteq Listeners /\ informed' \subseteq Instances
      /\ inbox' \in [Listeners -> Seq(Markers)]
      /\ \A q \in Listeners : inbox'[q] # <<>> => q \in listening'
  BY Deafened DEF ApplyFails
<1>5. breaks' \in 0..MaxBreaks /\ spoiled' \subseteq Instances /\ unclean' \subseteq Procs
  BY <1>1, ManagementAssumption DEF ApplyFails, TypeOK
<1> QED
  BY <1>2, <1>3, <1>4, <1>5, StepTypeOK DEF ApplyFails, TypeOK, database, memcached, nginx, stores

LEMMA AnnounceTyped ==
    ASSUME TypeOK, NEW p \in Procs, Announce(p)
    PROVE  TypeOK'
<1> DEFINE s == Step(p).server
           m == Step(p).marker
           hear == {q \in listening : q[2] = s}
<1>1. todo[p] # <<>> /\ s \in Servers /\ m \in Markers
  BY Busy, Stepped DEF Announce
<1>2. recent' \subseteq Markers
  BY <1>1 DEF Announce, TypeOK
<1>3. CASE s \in up
  <2>1. /\ inbox' = [q \in Listeners |-> IF q \in hear THEN Append(inbox[q], m) ELSE inbox[q]]
        /\ informed' = IF m \in recent' THEN informed \cup {q[1] : q \in hear} ELSE informed
        /\ Advance(p) /\ Forget(p) /\ UNCHANGED listening
    BY <1>3 DEF Announce
  <2>2. TasksOK' /\ got' \in [Procs -> Gots]
    BY <1>1, <2>1, Advanced, Forgotten
  <2>3. inbox' \in [Listeners -> Seq(Markers)]
    BY <1>1, <2>1 DEF TypeOK
  <2>4. \A q \in Listeners : inbox'[q] # <<>> => q \in listening'
    BY <2>1 DEF TypeOK
  <2>5. informed' \subseteq Instances
    BY <2>1 DEF TypeOK, Listeners
  <2> QED
    BY <1>2, <2>2, <2>3, <2>4, <2>5, StepTypeOK
       DEF Announce, TypeOK, database, memcached, nginx, bounds, stores
<1>4. CASE s \notin up
  <2>1. Abort(p) /\ UNCHANGED <<inbox, informed>>
    BY <1>4 DEF Announce
  <2>2. TasksOK'
    BY <1>1, <2>1, Aborted
  <2>3. got' \in [Procs -> Gots]
    <3>1. Nothing \in Gots
      BY DEF Nothing, Gots, Settings
    <3> QED
      BY <2>1, <3>1 DEF Abort, TypeOK, Gots
  <2> QED
    BY <1>2, <2>1, <2>2, <2>3, StepTypeOK
       DEF Announce, TypeOK, database, memcached, nginx, bounds, stores
<1> QED
  BY <1>3, <1>4

LEMMA ReceiveTyped ==
    ASSUME TypeOK, NEW p \in Listeners, Receive(p)
    PROVE  TypeOK'
<1> DEFINE m == Head(inbox[p])
<1>1. /\ todo[p] = <<>> /\ inbox[p] # <<>> /\ p \in Procs /\ p \notin Tasks
      /\ inbox' = [inbox EXCEPT ![p] = Tail(inbox[p])]
      /\ UNCHANGED <<listening, half, home>>
  BY ManagementAssumption DEF Receive, Procs
<1>2. m \in Markers /\ Tail(inbox[p]) \in Seq(Markers)
  BY <1>1 DEF TypeOK
<1>3. /\ inbox' \in [Listeners -> Seq(Markers)]
      /\ \A q \in Listeners : inbox'[q] # <<>> => q \in listening'
  BY <1>1, <1>2 DEF TypeOK
<1>4. TasksOK' /\ unclean' \subseteq Procs
  <2>1. CASE UNCHANGED <<todo, unclean>>
    BY <1>1, <2>1 DEF TypeOK, TasksOK
  <2>2. CASE Receives(p, m)
    <3> DEFINE program == Reload \o <<[op |-> "remember", marker |-> m]>>
    <3>1. program \in Seq(Steps) /\ program # <<>>
      <4>1. Get("webroot") \in Steps /\ Get("ssl") \in Steps /\ [op |-> "apply"] \in Steps
            /\ [op |-> "remember", marker |-> m] \in Steps
        BY <1>2 DEF Get, Steps
      <4> QED
        BY <4>1 DEF Reload
    <3>2. todo' = [todo EXCEPT ![p] = program]
      BY <2>2 DEF Receives
    <3> HIDE DEF program
    <3>3. TasksOK'
      BY <1>1, <3>1, <3>2 DEF TypeOK, TasksOK
    <3>4. unclean' \subseteq Procs
      BY <1>1, <2>2 DEF Receives, Begins, TypeOK
    <3> QED
      BY <3>3, <3>4
  <2> QED
    BY <2>1, <2>2 DEF Receive
<1> QED
  BY <1>3, <1>4, StepTypeOK DEF Receive, TypeOK, Gots, database, memcached, nginx, bounds, stores

LEMMA RememberTyped ==
    ASSUME TypeOK, NEW p \in Listeners, Remember(p)
    PROVE  TypeOK'
<1>1. p \in Procs /\ p[1] \in Instances
  BY DEF Procs, Listeners
<1>2. todo[p] # <<>> /\ Step(p).marker \in Markers
  BY <1>1, Busy, Stepped DEF Remember
<1>3. TasksOK'
  BY <1>1, <1>2, Advanced DEF Remember
<1>4. markers' \in [Instances -> Markers \cup {None}]
  BY <1>1, <1>2 DEF Remember, TypeOK
<1>5. listening' \subseteq Listeners /\ \A q \in Listeners : inbox'[q] # <<>> => q \in listening'
  BY DEF Remember, TypeOK
<1> QED
  BY <1>3, <1>4, <1>5, StepTypeOK
     DEF Remember, TypeOK, Gots, database, memcached, bounds, reloads, stores

LEMMA BreakTyped ==
    ASSUME TypeOK, NEW s \in Servers, Break(s)
    PROVE  TypeOK'
<1>1. TasksOK' /\ got' \in [Procs -> Gots]
  BY DEF Break, TypeOK, TasksOK, Gots, locals
<1>2. /\ listening' \subseteq Listeners /\ informed' \subseteq Instances
      /\ inbox' \in [Listeners -> Seq(Markers)]
      /\ \A q \in Listeners : inbox'[q] # <<>> => q \in listening'
  BY Deafened DEF Break
<1>3. breaks' \in 0..MaxBreaks /\ up' \subseteq Servers
  BY ManagementAssumption DEF Break, TypeOK
<1> QED
  BY <1>1, <1>2, <1>3, StepTypeOK DEF Break, TypeOK, database, memcached, nginx, stores

LEMMA RepairTyped ==
    ASSUME TypeOK, NEW s \in Servers, Repair(s)
    PROVE  TypeOK'
<1>1. TasksOK' /\ got' \in [Procs -> Gots]
  BY DEF Repair, TypeOK, TasksOK, Gots, locals
<1>2. up' \subseteq Servers
  BY DEF Repair, TypeOK
<1> QED
  BY <1>1, <1>2, StepTypeOK DEF Repair, TypeOK, database, memcached, nginx, bounds, reloads, stores

LEMMA RelistenTyped ==
    ASSUME TypeOK, NEW i \in Instances, Relisten(i)
    PROVE  TypeOK'
<1>1. TasksOK' /\ got' \in [Procs -> Gots]
  BY DEF Relisten, TypeOK, TasksOK, Gots, locals
<1>2. listening' \subseteq Listeners /\ \A p \in Listeners : inbox'[p] # <<>> => p \in listening'
  BY DEF Relisten, TypeOK, Listeners
<1>3. markers' \in [Instances -> Markers \cup {None}]
  BY DEF Relisten, TypeOK
<1> QED
  BY <1>1, <1>2, <1>3, StepTypeOK
     DEF Relisten, TypeOK, database, memcached, bounds, reloads, stores

LEMMA SelectTyped ==
    ASSUME TypeOK, NEW p \in Procs, Select(p)
    PROVE  TypeOK'
<1> DEFINE k == Step(p).key
<1>1. todo[p] # <<>> /\ k \in Keys
  BY Busy, Stepped DEF Select
<1>2. UNCHANGED <<database, memcached, nginx, redis, bounds, reloads, mixed, last>>
  BY DEF Select
<1>3. TasksOK'
  BY <1>1, Halved DEF Select
<1>4. PICK id \in IF rows[k] = {} THEN {None} ELSE {r.id : r \in rows[k]} :
          got' = [got EXCEPT ![p].row = id]
  BY DEF Select
<1>5. id \in Ids \cup {None}
  BY <1>1, <1>4 DEF TypeOK, Rows
<1>6. got' \in [Procs -> Gots]
  BY <1>4, <1>5 DEF TypeOK, Gots
<1>7. crossed' \subseteq Procs
  BY DEF Select, TypeOK, Selected
<1> QED
  BY <1>2, <1>3, <1>6, <1>7, StepTypeOK
     DEF TypeOK, database, memcached, nginx, redis, bounds, reloads

LEMMA LoadAccountTyped ==
    ASSUME TypeOK, NEW p \in Procs, LoadAccount(p)
    PROVE  TypeOK'
<1>1. todo[p] # <<>>
  BY Busy DEF LoadAccount
<1>2. TasksOK'
  BY <1>1, Skipped, Advanced, Aborted DEF LoadAccount
<1>3. Nothing \in Gots
  BY DEF Nothing, Gots, Settings
<1>4. got' \in [Procs -> Gots]
  BY <1>3 DEF LoadAccount, Abort, TypeOK, Gots
<1> QED
  BY <1>2, <1>4, StepTypeOK
     DEF LoadAccount, TypeOK, database, memcached, nginx, redis, bounds, reloads, stores

LEMMA StoreRowTyped ==
    ASSUME TypeOK, NEW p \in Procs, StoreRow(p)
    PROVE  TypeOK'
<1> DEFINE k == Step(p).key
           v == Step(p).value
           id == got[p].row
<1>1. todo[p] # <<>> /\ k \in Keys /\ v \in Values
  BY Busy, Stepped DEF StoreRow
<1>2. TasksOK'
  BY <1>1, Advanced DEF StoreRow
<1>3. got' \in [Procs -> Gots] /\ id \in Ids \cup {None}
  BY DEF StoreRow, TypeOK, Gots
<1>4. nextId' \in Ids
  BY DEF StoreRow, TypeOK, Ids
<1>5. rows' \in [Keys -> SUBSET Rows]
  <2>1. [id |-> nextId, value |-> v] \in Rows
    BY <1>1 DEF Rows, TypeOK
  <2>2. rows[k] \subseteq Rows
    BY <1>1 DEF TypeOK
  <2>3. Updated(k, id, v) \subseteq Rows
    BY <1>1, <2>2 DEF Updated, Rows
  <2> QED
    BY <2>1, <2>2, <2>3 DEF StoreRow, TypeOK
<1>6. last' \in [Keys -> Values \cup {None}] /\ mixed' \subseteq Keys /\ crossed' \subseteq Procs
  BY <1>1 DEF StoreRow, TypeOK
<1> QED
  BY <1>2, <1>3, <1>4, <1>5, <1>6, StepTypeOK DEF StoreRow, TypeOK, memcached, nginx, redis, reloads

LEMMA RemoveTyped ==
    ASSUME TypeOK, NEW p \in Procs, Remove(p)
    PROVE  TypeOK'
<1>1. todo[p] # <<>> /\ Step(p).key \in Keys
  BY Busy, Stepped DEF Remove
<1>2. TasksOK' /\ got' \in [Procs -> Gots]
  BY <1>1, Advanced, Forgotten DEF Remove
<1>3. rows' \in [Keys -> SUBSET Rows] /\ last' \in [Keys -> Values \cup {None}]
      /\ crossed' \subseteq Procs /\ mixed' \subseteq Keys
  BY <1>1 DEF Remove, TypeOK, Selected
<1> QED
  BY <1>2, <1>3, StepTypeOK DEF Remove, TypeOK, memcached, nginx, redis, bounds, reloads

LEMMA NextTypeOK ==
    ASSUME TypeOK, [Next]_vars
    PROVE  TypeOK'
<1>1. CASE UNCHANGED vars
  BY <1>1 DEF TypeOK, vars, database, memcached, nginx, redis, locals, bounds, reloads, stores
<1>2. ASSUME NEW t \in Tasks, NEW i \in Instances, Arrive(t, i) PROVE TypeOK'
  BY <1>2, ArriveTyped
<1>3. ASSUME NEW p \in Procs,
             \/ Delete(p) \/ Write(p) \/ GetHit(p) \/ GetRead(p) \/ Fill(p) \/ Check(p) \/ Clear(p)
             \/ Apply(p) \/ ApplyFails(p) \/ Announce(p)
             \/ LoadAccount(p) \/ Select(p) \/ StoreRow(p) \/ Remove(p)
      PROVE  TypeOK'
  BY <1>3, DeleteTyped, WriteTyped, GetHitTyped, GetReadTyped, FillTyped, CheckTyped, ClearTyped,
     ApplyTyped, ApplyFailsTyped, AnnounceTyped, LoadAccountTyped, SelectTyped, StoreRowTyped, RemoveTyped
<1>4. ASSUME NEW p \in Listeners, Receive(p) \/ Remember(p) PROVE TypeOK'
  BY <1>4, ReceiveTyped, RememberTyped
<1>5. ASSUME NEW s \in Servers, Break(s) \/ Repair(s) PROVE TypeOK'
  BY <1>5, BreakTyped, RepairTyped
<1>6. ASSUME NEW i \in Instances, Relisten(i) PROVE TypeOK'
  BY <1>6, RelistenTyped
<1> QED
  BY <1>1, <1>2, <1>3, <1>4, <1>5, <1>6, FlushTyped DEF Next

LEMMA InitTypeOK ==
    ASSUME Init
    PROVE  TypeOK
<1>1. Nothing \in Gots
  BY DEF Nothing, Gots, Settings
<1>2. applied \in [Instances -> Configs \cup {None}]
  <2>1. Stored.webroot \in Settings /\ Stored.ssl \in Settings
    BY ManagementAssumption DEF Names
  <2>2. Config(Stored.webroot, Stored.ssl, None) \in Configs \cup {None}
    BY <2>1, Configured
  <2> QED
    BY <2>2 DEF Init
<1>3. /\ content \in [Names -> Settings] /\ MaxRequests \in Nat /\ MaxBreaks \in Nat
      /\ <<>> \in Seq(Steps) /\ <<>> \in Seq(Markers) /\ 1 \in Ids
  BY ManagementAssumption DEF Init, Ids
<1>4. cache \in [Names -> {{}} \cup {{v} : v \in Settings}]
  BY DEF Init
<1>5. /\ todo \in [Procs -> Seq(Steps)] /\ inbox \in [Listeners -> Seq(Markers)]
      /\ home \in [Tasks -> Instances \cup {None}] /\ half = {}
      /\ \A t \in Tasks : todo[t] = <<>> /\ home[t] = None
      /\ \A p \in Listeners : inbox[p] = <<>>
  BY <1>3 DEF Init, Procs
<1>6. got \in [Procs -> [webroot : Settings, ssl : Settings, row : Ids \cup {None}]]
  BY <1>1 DEF Init, Gots
<1>7. rows \in [Keys -> SUBSET Rows] /\ last \in [Keys -> Values \cup {None}]
      /\ markers \in [Instances -> Markers \cup {None}]
  BY DEF Init
<1>8. flushing \in BOOLEAN /\ listening \subseteq Listeners /\ up \subseteq Servers
  BY DEF Init
<1>9. /\ plan \in Plans /\ requests \in 0..MaxRequests /\ breaks \in 0..MaxBreaks /\ nextId \in Ids
      /\ raced \subseteq Names /\ recent \subseteq Markers
      /\ informed \subseteq Instances /\ spoiled \subseteq Instances
      /\ unclean \subseteq Procs /\ crossed \subseteq Procs /\ mixed \subseteq Keys
  BY <1>3 DEF Init
<1>10. /\ \A p \in Listeners : inbox[p] # <<>> => p \in listening
      /\ \A p \in Procs : todo[p] = <<>> => p \notin half
      /\ \A t \in Tasks : todo[t] = <<>> <=> home[t] = None
  BY <1>5
<1> QED
  BY <1>2, <1>3, <1>4, <1>5, <1>6, <1>7, <1>8, <1>9, <1>10 DEF TypeOK

-----------------------------------------------------------------------------
(* Stores *)

\* A process that has selected the rows of a key alone knows what is there.
SelectedAlone ==
    \A p \in Procs : Amid(p, "store") /\ p \notin crossed =>
        /\ got[p].row = None <=> rows[Step(p).key] = {}
        /\ got[p].row # None => \E r \in rows[Step(p).key] : r.id = got[p].row

\* Two that have selected the same key know of each other.
OverlapsSeen ==
    \A p, q \in Procs :
        p # q /\ Amid(p, "store") /\ Amid(q, "store") /\ Step(p).key = Step(q).key
            => p \in crossed /\ q \in crossed

\* An item has one row.
OneRow == \A k \in Keys \ mixed : k # Account => \A r, s \in rows[k] : r = s

StoresInv == LoadsLastStored /\ SelectedAlone /\ OverlapsSeen /\ OneRow

\* A step of p that stores nothing.
LEMMA StoredElsewhere ==
    ASSUME StoresInv, UNCHANGED <<rows, stores>>, NEW p, ~Amid(p, "store")',
           \A q \in Procs \ {p} : todo'[q] = todo[q] /\ (q \in half' <=> q \in half) /\ got'[q] = got[q]
    PROVE  StoresInv'
<1>1. \A q \in Procs : Amid(q, "store")' =>
          Amid(q, "store") /\ Step(q)' = Step(q) /\ got'[q] = got[q]
  BY DEF Amid, Step
<1>2. UNCHANGED <<rows, crossed, mixed, last>>
  BY DEF stores
<1>3. LoadsLastStored' /\ OneRow'
  BY <1>2 DEF StoresInv, LoadsLastStored, OneRow
<1>4. SelectedAlone'
  BY <1>1, <1>2 DEF StoresInv, SelectedAlone
<1>5. OverlapsSeen'
  BY <1>1, <1>2 DEF StoresInv, OverlapsSeen
<1> QED
  BY <1>3, <1>4, <1>5 DEF StoresInv

\* What p has to do next is not to store a row that it has selected.
LEMMA NotAmid ==
    ASSUME NEW p, \/ p \notin half'
                  \/ todo'[p] = todo[p] /\ Step(p).op # "store"
    PROVE  ~Amid(p, "store")'
BY DEF Amid, Step

\* A process that goes on stores nothing.
LEMMA AdvanceStores ==
    ASSUME TypeOK, StoresInv, NEW p \in Procs, todo[p] # <<>>, Advance(p) \/ Abort(p),
           UNCHANGED <<rows, stores>>, \A q \in Procs \ {p} : got'[q] = got[q]
    PROVE  StoresInv'
<1>1. p \notin half' /\ \A q \in Procs \ {p} : todo'[q] = todo[q] /\ (q \in half' <=> q \in half)
  BY Advanced, Aborted
<1>2. ~Amid(p, "store")'
  BY <1>1 DEF Amid
<1> QED
  BY <1>1, <1>2, StoredElsewhere

\* Neither does one that leaves the account as it is.
LEMMA LoadAccountStores ==
    ASSUME TypeOK, StoresInv, NEW p \in Procs, LoadAccount(p)
    PROVE  StoresInv'
<1>1. todo[p] # <<>> /\ UNCHANGED <<rows, stores>>
  BY Busy DEF LoadAccount, database
<1>2. \A q \in Procs \ {p} : got'[q] = got[q]
  BY DEF LoadAccount, Abort, TypeOK
<1>3. p \notin half' /\ \A q \in Procs \ {p} : todo'[q] = todo[q] /\ (q \in half' <=> q \in half)
  BY <1>1, Advanced, Aborted, Skipped DEF LoadAccount
<1>4. ~Amid(p, "store")'
  BY <1>3 DEF Amid
<1> QED
  BY <1>1, <1>2, <1>3, <1>4, StoredElsewhere

\* Settings and reloads leave what is stored alone.
LEMMA ElsewhereStores ==
    ASSUME TypeOK, StoresInv, NEW p \in Procs,
           \/ Delete(p) \/ Write(p) \/ GetHit(p) \/ GetRead(p) \/ Fill(p) \/ Check(p) \/ Clear(p)
           \/ Apply(p) \/ ApplyFails(p) \/ Announce(p)
    PROVE  StoresInv'
<1>1. CASE Delete(p)
  <2>1. Step(p).op = "set" /\ half' = half \cup {p} /\ UNCHANGED <<rows, stores, todo, got>>
    BY <1>1, Busy DEF Delete, database
  <2>2. ~Amid(p, "store")'
    BY <2>1, NotAmid
  <2> QED
    BY <2>1, <2>2, StoredElsewhere
<1>2. CASE GetRead(p)
  <2>1. /\ Step(p).op = "get" /\ half' = half \cup {p} /\ UNCHANGED <<rows, stores, todo>>
        /\ \A q \in Procs \ {p} : got'[q] = got[q]
    BY <1>2, Busy DEF GetRead, database, TypeOK
  <2>2. ~Amid(p, "store")'
    BY <2>1, NotAmid
  <2> QED
    BY <2>1, <2>2, StoredElsewhere
<1>3. ASSUME todo[p] # <<>>, Advance(p) \/ Abort(p), UNCHANGED <<rows, stores>>,
             \A q \in Procs \ {p} : got'[q] = got[q]
      PROVE  StoresInv'
  BY <1>3, AdvanceStores
<1>4. CASE Write(p)
  BY <1>3, <1>4, Busy, Forgotten DEF Write
<1>5. CASE GetHit(p)
  <2>1. \A q \in Procs \ {p} : got'[q] = got[q]
    BY <1>5 DEF GetHit, Read, TypeOK
  <2> QED
    BY <1>3, <1>5, <2>1, Busy DEF GetHit, database
<1>6. CASE Fill(p)
  BY <1>3, <1>6, Busy, Forgotten DEF Fill, database
<1>7. CASE Check(p)
  <2>1. \A q \in Procs \ {p} : got'[q] = got[q]
    BY <1>7, Forgotten DEF Check, Abort, TypeOK
  <2> QED
    BY <1>3, <1>7, <2>1, Busy DEF Check, database
<1>8. CASE Clear(p)
  BY <1>3, <1>8, Busy, Forgotten DEF Clear
<1>9. CASE Apply(p)
  <2>1. \A q \in Procs \ {p} : got'[q] = got[q]
    BY <1>9 DEF Apply, TypeOK
  <2> QED
    BY <1>3, <1>9, <2>1, Busy DEF Apply, database
<1>10. CASE ApplyFails(p)
  <2>1. \A q \in Procs \ {p} : got'[q] = got[q]
    BY <1>10 DEF ApplyFails, Abort, TypeOK
  <2> QED
    BY <1>3, <1>10, <2>1, Busy DEF ApplyFails, database
<1>11. CASE Announce(p)
  <2>1. (Advance(p) \/ Abort(p)) /\ \A q \in Procs \ {p} : got'[q] = got[q]
    BY <1>11, Forgotten DEF Announce, Abort, TypeOK
  <2> QED
    BY <1>3, <1>11, <2>1, Busy DEF Announce, database
<1> QED
  BY <1>1, <1>2, <1>4, <1>5, <1>6, <1>7, <1>8, <1>9, <1>10, <1>11

\* So do a request that arrives and a message that is received.
LEMMA BeginStores ==
    ASSUME TypeOK, StoresInv, NEW p \in Procs, todo[p] = <<>>, NEW program,
           todo' \in {todo, [todo EXCEPT ![p] = program]},
           UNCHANGED <<half, got, rows, stores>>
    PROVE  StoresInv'
<1>1. p \notin half' /\ \A q \in Procs \ {p} : todo'[q] = todo[q]
  BY DEF TypeOK
<1>2. ~Amid(p, "store")'
  BY <1>1 DEF Amid
<1> QED
  BY <1>1, <1>2, StoredElsewhere

LEMMA OtherStores ==
    ASSUME StoresInv, UNCHANGED <<rows, stores, todo, half, got>>
    PROVE  StoresInv'
BY DEF StoresInv, LoadsLastStored, SelectedAlone, OverlapsSeen, OneRow, Amid, Step, stores

\* A row is selected by one more process.
LEMMA SelectStores ==
    ASSUME TypeOK, StoresInv, NEW p \in Procs, Select(p)
    PROVE  StoresInv'
<1> DEFINE k == Step(p).key
           others == Selected(p, k)
<1>1. todo[p] # <<>> /\ k \in Keys /\ Step(p).op = "store" /\ p \notin half
  BY Busy, Stepped DEF Select, At
<1>2. UNCHANGED <<rows, mixed, last>>
  BY DEF Select, database
<1>3. /\ \E id \in IF rows[k] = {} THEN {None} ELSE {r.id : r \in rows[k]} :
               got' = [got EXCEPT ![p].row = id]
      /\ half' = half \cup {p}
      /\ crossed' = (crossed \ {p}) \cup (IF others = {} THEN {} ELSE others \cup {p})
      /\ UNCHANGED <<todo, home>>
  BY DEF Select
<1>5. PICK id \in IF rows[k] = {} THEN {None} ELSE {r.id : r \in rows[k]} :
          got' = [got EXCEPT ![p].row = id]
  BY <1>3
<1>6. \A q \in Procs : q # p /\ Amid(q, "store")' => Amid(q, "store")
  BY <1>3 DEF Amid
<1>7. \A q \in Procs : Step(q)' = Step(q)
  BY <1>3 DEF Step
<1>8. got'[p].row = id /\ \A q \in Procs \ {p} : got'[q] = got[q]
  BY <1>5 DEF TypeOK
<1>9. LoadsLastStored' /\ OneRow'
  BY <1>2 DEF StoresInv, LoadsLastStored, OneRow
<1>10. \A q \in Procs \ {p} : Amid(q, "store") /\ Step(q).key = k => q \in crossed' /\ p \in crossed'
  BY <1>3 DEF Selected
<1>11. \A q \in Procs \ {p} : q \in crossed => q \in crossed'
  BY <1>3
<1>12. SelectedAlone'
  <2> SUFFICES ASSUME NEW q \in Procs, Amid(q, "store")', q \notin crossed'
               PROVE  /\ got'[q].row = None <=> rows[Step(q).key] = {}
                      /\ got'[q].row # None => \E r \in rows[Step(q).key] : r.id = got'[q].row
    BY <1>2, <1>7 DEF SelectedAlone
  <2>1. CASE q = p
    <3>1. \A r \in rows[k] : r.id # None
      BY <1>1, Absent DEF TypeOK, Rows
    <3> QED
      BY <1>5, <1>8, <2>1, <3>1
  <2>2. CASE q # p
    BY <1>6, <1>8, <1>11, <2>2 DEF StoresInv, SelectedAlone
  <2> QED
    BY <2>1, <2>2
<1>13. OverlapsSeen'
  <2> SUFFICES ASSUME NEW q \in Procs, NEW r \in Procs, q # r, Amid(q, "store")', Amid(r, "store")',
                      Step(q).key = Step(r).key
               PROVE  q \in crossed' /\ r \in crossed'
    BY <1>7 DEF OverlapsSeen
  <2>1. CASE q = p
    BY <1>6, <1>10, <2>1
  <2>2. CASE r = p
    BY <1>6, <1>10, <2>2
  <2>3. CASE q # p /\ r # p
    BY <1>6, <1>11, <2>3 DEF StoresInv, OverlapsSeen
  <2> QED
    BY <2>1, <2>2, <2>3
<1> QED
  BY <1>9, <1>12, <1>13 DEF StoresInv

\* A row is updated or inserted.
LEMMA StoreRowStores ==
    ASSUME TypeOK, StoresInv, NEW p \in Procs, StoreRow(p)
    PROVE  StoresInv'
<1> DEFINE k == Step(p).key
           v == Step(p).value
           id == got[p].row
           new == IF id = None THEN rows[k] \cup {[id |-> nextId, value |-> v]} ELSE Updated(k, id, v)
<1>1. /\ todo[p] # <<>> /\ k \in Keys /\ v \in Values /\ v # None
      /\ Step(p).op = "store" /\ Amid(p, "store")
  BY Busy, Stepped, Absent DEF StoreRow
<1>2. /\ rows' = [rows EXCEPT ![k] = new] /\ last' = [last EXCEPT ![k] = v]
      /\ mixed' = IF p \in crossed THEN mixed \cup {k}
                  ELSE IF k = Account THEN mixed \ {k} ELSE mixed
      /\ crossed' = crossed \ {p}
  BY DEF StoreRow
<1>3. /\ p \notin half'
      /\ \A q \in Procs \ {p} : todo'[q] = todo[q] /\ (q \in half' <=> q \in half) /\ got'[q] = got[q]
  BY <1>1, Advanced DEF StoreRow, TypeOK
<1>4. \A q \in Procs : Amid(q, "store")' =>
          q # p /\ Amid(q, "store") /\ Step(q)' = Step(q) /\ got'[q] = got[q]
  BY <1>3 DEF Amid, Step
<1>5. /\ rows'[k] = new /\ last'[k] = v
      /\ \A j \in Keys \ {k} : rows'[j] = rows[j] /\ last'[j] = last[j] /\ (j \in mixed' <=> j \in mixed)
  BY <1>1, <1>2 DEF TypeOK
<1>6. ASSUME k \notin mixed'
      PROVE  {r.value : r \in new} = {v} /\ (k # Account => \A r, s \in new : r = s)
  <2>1. p \notin crossed /\ (k # Account => k \notin mixed)
    BY <1>2, <1>6
  <2>2. /\ id = None <=> rows[k] = {}
        /\ id # None => \E r \in rows[k] : r.id = id
    BY <1>1, <2>1 DEF StoresInv, SelectedAlone
  <2>3. CASE id = None
    <3>1. new = {[id |-> nextId, value |-> v]}
      BY <2>2, <2>3
    <3> HIDE DEF new
    <3> QED
      BY <3>1
  <2>4. CASE id # None
    <3>1. new = Updated(k, id, v)
      BY <2>4
    <3>2. PICK s \in rows[k] : s.id = id
      BY <2>2, <2>4
    <3>3. \A r \in rows[k] : [r EXCEPT !.value = v].value = v
      BY <1>1 DEF TypeOK, Rows
    <3>4. CASE k = Account
      <4>1. new = {[r EXCEPT !.value = v] : r \in rows[k]}
        BY <3>1, <3>4 DEF Updated
      <4> HIDE DEF new, k, v
      <4> QED
        BY <3>2, <3>3, <3>4, <4>1
    <3>5. CASE k # Account
      <4>1. rows[k] = {s}
        BY <1>1, <2>1, <3>2, <3>5 DEF StoresInv, OneRow
      <4>2. new = {[s EXCEPT !.value = v]}
        BY <3>1, <3>2, <4>1 DEF Updated
      <4> HIDE DEF new, v
      <4> QED
        BY <3>2, <3>3, <4>2
    <3> QED
      BY <3>4, <3>5
  <2> QED
    BY <2>3, <2>4
<1> HIDE DEF new, id
<1>7. LoadsLastStored'
  <2> SUFFICES ASSUME NEW j \in Keys, j \notin mixed'
               PROVE  {r.value : r \in rows'[j]} = {last'[j]} \ {None}
    BY DEF LoadsLastStored
  <2>1. CASE j = k
    BY <1>1, <1>5, <1>6, <2>1
  <2>2. CASE j # k
    BY <1>5, <2>2 DEF StoresInv, LoadsLastStored
  <2> QED
    BY <2>1, <2>2
<1>8. OneRow'
  <2> SUFFICES ASSUME NEW j \in Keys, j \notin mixed', j # Account
               PROVE  \A r, s \in rows'[j] : r = s
    BY DEF OneRow
  <2>1. CASE j = k
    BY <1>5, <1>6, <2>1
  <2>2. CASE j # k
    BY <1>5, <2>2 DEF StoresInv, OneRow
  <2> QED
    BY <2>1, <2>2
<1>9. SelectedAlone'
  <2> SUFFICES ASSUME NEW q \in Procs, Amid(q, "store")', q \notin crossed'
               PROVE  /\ got[q].row = None <=> rows'[Step(q).key] = {}
                      /\ got[q].row # None => \E r \in rows'[Step(q).key] : r.id = got[q].row
    BY <1>4 DEF SelectedAlone
  <2>1. q # p /\ Amid(q, "store") /\ q \notin crossed
    BY <1>2, <1>4
  <2>2. Step(q).key \in Keys \ {k}
    BY <1>1, <2>1, Busy, Stepped DEF StoresInv, OverlapsSeen
  <2> QED
    BY <1>5, <2>1, <2>2 DEF StoresInv, SelectedAlone
<1>10. OverlapsSeen'
  BY <1>2, <1>4 DEF StoresInv, OverlapsSeen
<1> QED
  BY <1>7, <1>8, <1>9, <1>10 DEF StoresInv

\* All rows of an item are deleted.
LEMMA RemoveStores ==
    ASSUME TypeOK, StoresInv, NEW p \in Procs, Remove(p)
    PROVE  StoresInv'
<1> DEFINE k == Step(p).key
           others == Selected(p, k)
<1>1. todo[p] # <<>> /\ k \in Keys
  BY Busy, Stepped DEF Remove
<1>2. /\ rows' = [rows EXCEPT ![k] = {}] /\ last' = [last EXCEPT ![k] = None]
      /\ crossed' = crossed \cup others
      /\ mixed' = IF others = {} THEN mixed \ {k} ELSE mixed
  BY DEF Remove
<1>3. /\ p \notin half'
      /\ \A q \in Procs \ {p} : todo'[q] = todo[q] /\ (q \in half' <=> q \in half) /\ got'[q] = got[q]
  BY <1>1, Advanced, Forgotten DEF Remove
<1>4. \A q \in Procs : Amid(q, "store")' =>
          q # p /\ Amid(q, "store") /\ Step(q)' = Step(q) /\ got'[q] = got[q]
  BY <1>3 DEF Amid, Step
<1>5. /\ rows'[k] = {} /\ last'[k] = None
      /\ \A j \in Keys \ {k} : rows'[j] = rows[j] /\ last'[j] = last[j] /\ (j \in mixed' <=> j \in mixed)
  BY <1>1, <1>2 DEF TypeOK
<1>6. LoadsLastStored' /\ OneRow'
  <2> SUFFICES ASSUME NEW j \in Keys, j \notin mixed'
               PROVE  /\ {r.value : r \in rows'[j]} = {last'[j]} \ {None}
                      /\ j # Account => \A r, s \in rows'[j] : r = s
    BY DEF LoadsLastStored, OneRow
  <2>1. CASE j = k
    BY <1>5, <2>1
  <2>2. CASE j # k
    BY <1>5, <2>2 DEF StoresInv, LoadsLastStored, OneRow
  <2> QED
    BY <2>1, <2>2
<1>7. SelectedAlone'
  <2> SUFFICES ASSUME NEW q \in Procs, Amid(q, "store")', q \notin crossed'
               PROVE  /\ got[q].row = None <=> rows'[Step(q).key] = {}
                      /\ got[q].row # None => \E r \in rows'[Step(q).key] : r.id = got[q].row
    BY <1>4 DEF SelectedAlone
  <2>1. q # p /\ Amid(q, "store") /\ q \notin crossed /\ q \notin others
    BY <1>2, <1>4
  <2>2. Step(q).key \in Keys \ {k}
    BY <2>1, Busy, Stepped DEF Selected
  <2> QED
    BY <1>5, <2>1, <2>2 DEF StoresInv, SelectedAlone
<1>8. OverlapsSeen'
  BY <1>2, <1>4 DEF StoresInv, OverlapsSeen
<1> QED
  BY <1>6, <1>7, <1>8 DEF StoresInv

-----------------------------------------------------------------------------
IInv == TypeOK /\ StoresInv

LEMMA InitIInv ==
    ASSUME Init
    PROVE  IInv
<1>1. TypeOK
  BY InitTypeOK
<1>2. /\ \A k \in Keys : rows[k] = {} /\ last[k] = None
      /\ \A p \in Procs : todo[p] = <<>>
  BY DEF Init
<1>3. StoresInv
  BY <1>2 DEF StoresInv, LoadsLastStored, SelectedAlone, OverlapsSeen, OneRow, Amid
<1> QED
  BY <1>1, <1>3 DEF IInv

LEMMA NextStores ==
    ASSUME TypeOK, StoresInv, [Next]_vars
    PROVE  StoresInv'
<1>1. CASE UNCHANGED vars
  BY <1>1, OtherStores DEF vars, database, locals
<1>2. ASSUME NEW t \in Tasks, NEW i \in Instances, Arrive(t, i) PROVE StoresInv'
  <2>1. t \in Procs /\ todo[t] = <<>> /\ UNCHANGED <<half, got, rows, stores>>
    BY <1>2 DEF Arrive, Procs, database
  <2>2. \E program : todo' \in {todo, [todo EXCEPT ![t] = program]}
    BY <1>2 DEF Arrive
  <2> QED
    BY <2>1, <2>2, BeginStores
<1>3. ASSUME NEW p \in Procs,
             \/ Delete(p) \/ Write(p) \/ GetHit(p) \/ GetRead(p) \/ Fill(p) \/ Check(p) \/ Clear(p)
             \/ Apply(p) \/ ApplyFails(p) \/ Announce(p)
             \/ LoadAccount(p) \/ Select(p) \/ StoreRow(p) \/ Remove(p)
      PROVE  StoresInv'
  BY <1>3, ElsewhereStores, LoadAccountStores, SelectStores, StoreRowStores, RemoveStores
<1>4. ASSUME NEW p \in Listeners, Receive(p) PROVE StoresInv'
  <2>1. p \in Procs /\ todo[p] = <<>> /\ UNCHANGED <<half, got, rows, stores>>
    BY <1>4 DEF Receive, Procs, database
  <2>2. \E program : todo' \in {todo, [todo EXCEPT ![p] = program]}
    BY <1>4 DEF Receive, Receives
  <2> QED
    BY <2>1, <2>2, BeginStores
<1>5. ASSUME NEW p \in Listeners, Remember(p) PROVE StoresInv'
  <2>1. /\ p \in Procs /\ todo[p] # <<>> /\ Advance(p) /\ UNCHANGED <<rows, stores>>
        /\ \A q \in Procs \ {p} : got'[q] = got[q]
    BY <1>5, Busy DEF Remember, Procs, database
  <2> QED
    BY <2>1, AdvanceStores
<1>6. ASSUME UNCHANGED <<database, locals, stores>> PROVE StoresInv'
  BY <1>6, OtherStores DEF database, locals
<1>7. ASSUME NEW s \in Servers, Break(s) \/ Repair(s) PROVE StoresInv'
  BY <1>6, <1>7 DEF Break, Repair
<1>8. ASSUME NEW i \in Instances, Relisten(i) PROVE StoresInv'
  BY <1>6, <1>8 DEF Relisten
<1>9. CASE Flush
  BY <1>6, <1>9 DEF Flush
<1> QED
  BY <1>1, <1>2, <1>3, <1>4, <1>5, <1>7, <1>8, <1>9 DEF Next

\* The inductive invariant: types, what is stored and, for the processes between
\* the two queries of a store, that they know of each other or of the row.
THEOREM Invariance == Spec => []IInv
<1>1. Init => IInv
  BY InitIInv
<1>2. IInv /\ [Next]_vars => IInv'
  BY NextTypeOK, NextStores DEF IInv
<1> QED
  BY <1>1, <1>2, PTL DEF Spec

\* Programs consist of steps that there are; processes, listeners and rows are
\* where they belong; nobody who has ended is amid a step.
THEOREM Typing == Spec => []TypeOK
<1>1. IInv => TypeOK
  BY DEF IInv
<1> QED
  BY <1>1, Invariance, PTL

\* PickleStorage and the backups load what was stored last, from any row of the
\* key, unless stores of it overlapped.
THEOREM LastStored == Spec => []LoadsLastStored
<1>1. IInv => LoadsLastStored
  BY DEF IInv, StoresInv
<1> QED
  BY <1>1, Invariance, PTL

-----------------------------------------------------------------------------
(* What the exception of LoadsLastStored comes down to *)

\* While a key is stored, between its select and its insert or update, nobody
\* else has selected it, or is about to remove it.
StoresApart ==
    \A p, q \in Procs :
        p # q /\ Amid(p, "store") =>
          /\ Amid(q, "store") => Step(p).key # Step(q).key
          /\ At(q, "remove") => Step(p).key # Step(q).key

\* A key has no row, or the one that was stored last.
OneRowEach ==
    \A k \in Keys :
        /\ {r.value : r \in rows[k]} = {last[k]} \ {None}
        /\ \A r, s \in rows[k] : r = s

\* Nothing has overlapped, and a key has a row at most.
Single == crossed = {} /\ mixed = {} /\ \A k \in Keys : \A r, s \in rows[k] : r = s

LEMMA SelectSingle ==
    ASSUME Single, StoresApart', TypeOK, NEW p \in Procs, Select(p)
    PROVE  Single'
<1> DEFINE k == Step(p).key
<1>1. UNCHANGED <<rows, mixed, todo>> /\ half' = half \cup {p}
  BY DEF Select, database
<1>2. Amid(p, "store")' /\ Step(p)' = Step(p)
  BY <1>1 DEF Select, At, Amid, Step
<1>3. ASSUME NEW q \in Selected(p, k) PROVE FALSE
  <2>1. q \in Procs /\ q # p /\ Amid(q, "store") /\ Step(q).key = k
    BY <1>3 DEF Selected
  <2>2. Amid(q, "store")' /\ Step(q)' = Step(q)
    BY <1>1, <2>1 DEF Amid, Step
  <2> QED
    BY <1>2, <2>1, <2>2 DEF StoresApart
<1>4. crossed' = {}
  BY <1>3 DEF Select, Single
<1> QED
  BY <1>1, <1>4 DEF Single

LEMMA StoreRowSingle ==
    ASSUME Single, StoresInv, TypeOK, NEW p \in Procs, StoreRow(p)
    PROVE  Single'
<1> DEFINE k == Step(p).key
           v == Step(p).value
           id == got[p].row
<1>1. k \in Keys /\ Amid(p, "store") /\ p \notin crossed
  BY Busy, Stepped DEF StoreRow, Amid, Single
<1>2. crossed' = {} /\ mixed' = {}
  BY <1>1 DEF StoreRow, Single
<1>3. ASSUME NEW j \in Keys \ {k} PROVE rows'[j] = rows[j]
  BY DEF StoreRow, TypeOK
<1>4. CASE id = None
  <2>1. rows[k] = {}
    BY <1>1, <1>4 DEF StoresInv, SelectedAlone
  <2>2. rows'[k] = {[id |-> nextId, value |-> v]}
    BY <1>1, <1>4, <2>1 DEF StoreRow, TypeOK
  <2> QED
    BY <1>2, <1>3, <2>2 DEF Single
<1>5. CASE id # None
  <2>1. rows'[k] = Updated(k, id, v)
    BY <1>1, <1>5 DEF StoreRow, TypeOK
  <2>2. \A r, s \in rows[k] : r = s
    BY <1>1 DEF Single
  <2>3. \A r, s \in rows'[k] : r = s
    BY <2>1, <2>2 DEF Updated
  <2> QED
    BY <1>2, <1>3, <2>3 DEF Single
<1> QED
  BY <1>4, <1>5

LEMMA RemoveSingle ==
    ASSUME Single, StoresApart, TypeOK, NEW p \in Procs, Remove(p)
    PROVE  Single'
<1> DEFINE k == Step(p).key
<1>1. Selected(p, k) = {}
  BY DEF Selected, StoresApart, Remove
<1>2. crossed' = {} /\ mixed' = {}
  BY <1>1 DEF Remove, Single
<1>3. rows' = [rows EXCEPT ![k] = {}] /\ rows \in [Keys -> SUBSET Rows]
  BY DEF Remove, TypeOK
<1> QED
  BY <1>2, <1>3 DEF Single

LEMMA NextSingle ==
    ASSUME Single, StoresInv, TypeOK, StoresApart, StoresApart', [Next]_vars
    PROVE  Single'
<1>1. ASSUME UNCHANGED <<rows, stores>> PROVE Single'
  BY <1>1 DEF Single, stores
<1>2. CASE UNCHANGED vars
  BY <1>1, <1>2 DEF vars, database
<1>3. ASSUME NEW p \in Procs,
             \/ Delete(p) \/ Write(p) \/ GetHit(p) \/ GetRead(p) \/ Fill(p) \/ Check(p) \/ Clear(p)
             \/ Apply(p) \/ ApplyFails(p) \/ Announce(p)
      PROVE  Single'
  BY <1>1, <1>3 DEF Delete, Write, GetHit, GetRead, Fill, Check, Clear, Apply, ApplyFails, Announce,
                    database
<1>4. ASSUME NEW p \in Procs, LoadAccount(p) \/ Select(p) \/ StoreRow(p) \/ Remove(p) PROVE Single'
  <2>1. CASE LoadAccount(p)
    BY <1>1, <2>1 DEF LoadAccount, database
  <2> QED
    BY <1>4, <2>1, SelectSingle, StoreRowSingle, RemoveSingle
<1>5. ASSUME NEW p, NEW i, Arrive(p, i) \/ Receive(p) \/ Remember(p) \/ Relisten(i) PROVE Single'
  BY <1>1, <1>5 DEF Arrive, Receive, Remember, Relisten, database
<1>6. ASSUME NEW s, Break(s) \/ Repair(s) \/ Flush PROVE Single'
  BY <1>1, <1>6 DEF Break, Repair, Flush, database
<1> QED
  BY <1>2, <1>3, <1>4, <1>5, <1>6 DEF Next

\* The select and the write of a store are two queries, which no transaction
\* holds together for an item.  As long as those of a key do not overlap, there
\* is at most one row of it, and that is what was stored last: two rows come
\* from overlaps only.
THEOREM TwoRowsByOverlapOnly == Spec /\ []StoresApart => []OneRowEach
<1>1. Init => Single
  BY DEF Init, Single
<1>2. Single /\ IInv /\ StoresApart /\ StoresApart' /\ [Next]_vars => Single'
  BY NextSingle DEF IInv
<1>3. IInv /\ Single => OneRowEach
  BY DEF IInv, StoresInv, LoadsLastStored, Single, OneRowEach
<1>4. Spec /\ []StoresApart => []Single
  BY <1>1, <1>2, Invariance, PTL DEF Spec
<1> QED
  BY <1>3, <1>4, Invariance, PTL
=============================================================================
