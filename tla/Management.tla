----------------------------- MODULE Management -----------------------------
(***************************************************************************)
(* The management of a mediator that runs in several containers: the       *)
(* settings that an administrator enters, which are read through           *)
(* memcached, the nginx of every container, which `manage reload'          *)
(* configures from them and `--broadcast' in every container, and the      *)
(* backups and key-value items, which are selected and then inserted or    *)
(* updated.                                                                *)
(*                                                                         *)
(* A request or a listener is a process with a program: the steps that it  *)
(* still has to take, of which those with two queries are two actions.     *)
(***************************************************************************)
EXTENDS Naturals, Sequences

CONSTANTS
    Instances,  \* containers
    Redis,      \* settings.REDIS: a sequence of servers
    Tasks,      \* requests in progress, at most so many at a time
    Values, None,
    Items,      \* keys of the key-value storage
    Plans,      \* what administrators, hooks and the agent ask for, in order
    Stored,     \* the settings of before
    WEBROOT,    \* the environment variable, or None
    HasCert,    \* CERT_FILE and CERT_KEY_FILE are set
    MaxRequests,    \* bound: requests of a plan
    MaxBreaks       \* bound: failures of Redis and of nginx -t

Servers == {Redis[k] : k \in DOMAIN Redis}
Listeners == Instances \X Servers
Procs == Tasks \cup Listeners
Names == {"webroot", "ssl", "acme", "email", "configured", "firebase"}
Options == {"manual", "external"}
Settings == Values \cup Options \cup {"on", "off", None}

Account == "acme.registration"      \* the description of a backup
Keys == Items \cup {Account}
Ids == Nat \ {0}
Markers == 1 .. MaxRequests

Request ==
    [kind : {"set"}, name : Names, value : Settings]
    \cup [kind : {"ssl"}, value : Options] \cup [kind : {"acme", "email"}, value : Values]
    \cup [kind : {"reload", "broadcast", "reset"}]
    \cup [kind : {"store"}, key : Items, value : Values] \cup [kind : {"remove"}, key : Items]

ASSUME ManagementAssumption ==
    /\ Redis \in Seq(Servers) /\ Redis # <<>>
    /\ \A j, k \in DOMAIN Redis : Redis[j] = Redis[k] => j = k
    /\ Tasks \cap Listeners = {}
    /\ \A plan \in Plans : plan \in Seq(Request) /\ Len(plan) <= MaxRequests
    /\ Stored \in [Names -> Settings]
    /\ MaxRequests \in Nat /\ MaxBreaks \in Nat
    /\ HasCert \in BOOLEAN /\ WEBROOT \in Values \cup {None}
    /\ None \notin Values \cup Instances \cup Options \cup {"on", "off", "https"}
    /\ None \notin Nat

VARIABLES
    content,    \* the settings: the one row of global_settings
    cache,      \* their copies in memcached: {} or {value}
    flushing,   \* `flush_all' runs in the background
    rows,       \* backups and key_value_storage, by description or key
    applied,    \* what nginx of an instance serves
    markers,    \* the last marker that the listeners of an instance remember
    listening,  \* listeners that are subscribed
    inbox,      \* messages published to a listener and not received
    up,         \* Redis servers that answer
    todo,       \* program of a process
    half,       \* processes between the two queries of a step
    home,       \* the instance that a request runs in
    got,        \* what a process has read
    plan, requests, breaks,
    nextId,     \* ids of rows are never used again
    raced,      \* history: settings whose copy was read before a change and
                \* stored after it, or which memcached did not delete
    recent,     \* history: the broadcasts that began after the last change
    informed,   \* history: instances that a message of these has reached
    unclean,    \* history: reloads that overlap another one of their instance,
                \* or have read an outdated copy
    spoiled,    \* history: instances whose last reload was unclean or failed
    crossed,    \* history: selects that overlap another operation on the key
    mixed,      \* history: keys with an overlap since they were last unique
    last        \* history: the value stored last under a key

database == <<content, rows>>
memcached == <<cache, flushing>>
nginx == <<applied, markers>>
redis == <<listening, inbox, up>>
locals == <<todo, half, home, got>>
bounds == <<plan, requests, breaks, nextId>>
reloads == <<raced, recent, informed, unclean, spoiled>>
stores == <<crossed, mixed, last>>
vars == <<database, memcached, nginx, redis, locals, bounds, reloads, stores>>

-----------------------------------------------------------------------------
(* Programs *)

Set(n, v) == [op |-> "set", name |-> n, value |-> v]
Get(n) == [op |-> "get", name |-> n]
Reload == <<Get("webroot"), Get("ssl"), [op |-> "apply"]>>
Publish(s, m) == [op |-> "publish", server |-> s, marker |-> m]
Store(k, v) == [op |-> "store", key |-> k, value |-> v]
Look(v) == [op |-> "look", value |-> v]

\* The steps that request r takes, the m-th one.  Settings are stored before
\* they are tried: the e-mail server is asked later, and a certificate is never
\* issued, since its backup would hold a time that JSON has no form for.
Program(r, m) ==
    CASE r.kind = "set" -> <<Set(r.name, r.value)>>
      [] r.kind = "ssl" -> <<Set("ssl", r.value)>> \o Reload
      [] r.kind = "acme" -> <<Set("acme", r.value), Look(r.value), Store(Account, r.value), Get("webroot")>>
      [] r.kind = "email" -> <<Set("email", r.value), [op |-> "check"], Set("configured", "on")>>
      [] r.kind = "reload" -> Reload
      [] r.kind = "broadcast" -> Reload \o [k \in DOMAIN Redis |-> Publish(Redis[k], m)]
      [] r.kind = "reset" -> <<[op |-> "clear"]>>
      [] r.kind = "store" -> <<Store(r.key, r.value)>>
      [] r.kind = "remove" -> <<[op |-> "remove", key |-> r.key]>>

\* The configuration for these settings.  Without an option it stays as it is.
Config(webroot, ssl, old) ==
    LET root == IF WEBROOT # None THEN WEBROOT ELSE IF webroot # None THEN webroot ELSE "https"
    IN  IF ssl = "external" \/ (ssl = "manual" /\ HasCert) THEN [root |-> root, ssl |-> ssl]
        ELSE old

Nothing == [webroot |-> None, ssl |-> None, row |-> None]

Init ==
    /\ content = Stored
    /\ cache = [n \in Names |-> {}] /\ flushing = FALSE
    /\ rows = [k \in Keys |-> {}]
    /\ applied = [i \in Instances |-> Config(Stored.webroot, Stored.ssl, None)]
    /\ markers = [i \in Instances |-> None]
    /\ listening = Listeners /\ inbox = [p \in Listeners |-> <<>>] /\ up = Servers
    /\ todo = [p \in Procs |-> <<>>] /\ half = {}
    /\ home = [t \in Tasks |-> None] /\ got = [p \in Procs |-> Nothing]
    /\ plan \in Plans /\ requests = 0 /\ breaks = 0 /\ nextId = 1
    /\ raced = {} /\ recent = {} /\ informed = {} /\ unclean = {} /\ spoiled = {}
    /\ crossed = {} /\ mixed = {} /\ last = [k \in Keys |-> None]

Instance(p) == IF p \in Listeners THEN p[1] ELSE home[p]

\* The next step of p is op; its first or its second half.
At(p, op) == todo[p] # <<>> /\ Head(todo[p]).op = op /\ p \notin half
Amid(p, op) == todo[p] # <<>> /\ Head(todo[p]).op = op /\ p \in half
Step(p) == Head(todo[p])

\* p goes on with its next step, with nothing to remember at the end.
Run(p, program) ==
    /\ todo' = [todo EXCEPT ![p] = program]
    /\ half' = half \ {p}
    /\ home' = IF p \in Tasks /\ program = <<>> THEN [home EXCEPT ![p] = None] ELSE home

Advance(p) == Run(p, Tail(todo[p]))
Forget(p) == got' = [got EXCEPT ![p] = IF Len(todo[p]) = 1 THEN Nothing ELSE @]

\* A step ends the program: the request is answered with an error.
Abort(p) == Run(p, <<>>) /\ got' = [got EXCEPT ![p] = Nothing]

\* p reloads, or will.
Reloads(p) == \E k \in DOMAIN todo[p] : todo[p][k].op = "apply"

\* A reload of instance i begins in p.
Begins(p, i) ==
    LET others == {q \in Procs \ {p} : Instance(q) = i /\ Reloads(q)}
    IN  unclean' = (unclean \ {p}) \cup (IF others = {} THEN {} ELSE others \cup {p})

\* The next request arrives at instance i.
Arrive(t, i) ==
    LET r == plan[requests + 1]
    IN  /\ todo[t] = <<>>
        /\ requests < Len(plan) /\ requests' = requests + 1
        /\ todo' = [todo EXCEPT ![t] = Program(r, requests + 1)]
        /\ home' = [home EXCEPT ![t] = i]
        /\ flushing' = (flushing \/ r.kind = "reset")
        /\ IF r.kind \in {"ssl", "reload", "broadcast"} THEN Begins(t, i) ELSE UNCHANGED unclean
        /\ UNCHANGED <<database, cache, nginx, redis, half, got, plan, breaks, nextId,
                       raced, recent, informed, spoiled, stores>>

-----------------------------------------------------------------------------
(* Settings: Repo.get_global_setting, set_global_setting *)

\* Mutant of Delete: the copy stays in memcached.
Delete_Keeps(p) ==
    /\ At(p, "set")
    /\ half' = half \cup {p}
    /\ UNCHANGED <<database, memcached, nginx, redis, todo, home, got, bounds, reloads, stores>>

\* The copy is deleted, if that works.
Delete(p) ==
    LET n == Step(p).name
    IN  /\ At(p, "set")
        /\ half' = half \cup {p}
        /\ \/ cache' = [cache EXCEPT ![n] = {}] /\ raced' = raced \ {n}
           \/ cache[n] # {} /\ UNCHANGED cache /\ raced' = raced \cup {n}
        /\ UNCHANGED <<database, flushing, nginx, redis, todo, home, got, bounds,
                       recent, informed, unclean, spoiled, stores>>

\* No broadcast since this change.
Changed == recent' = {} /\ informed' = {}

\* The row is locked, and one setting in it is changed.
Write(p) ==
    /\ Amid(p, "set")
    /\ content' = [content EXCEPT ![Step(p).name] = Step(p).value]
    /\ Advance(p) /\ Forget(p)
    /\ IF Step(p).name \in {"webroot", "ssl"} THEN Changed ELSE UNCHANGED <<recent, informed>>
    /\ UNCHANGED <<rows, memcached, nginx, redis, bounds, raced, unclean, spoiled, stores>>

Read(p, v) == got' = [got EXCEPT ![p] = IF Len(todo[p]) = 1 THEN Nothing ELSE [@ EXCEPT ![Step(p).name] = v]]

GetHit(p) ==
    /\ At(p, "get")
    /\ \E v \in cache[Step(p).name] : Read(p, v)
    /\ Advance(p)
    /\ unclean' = IF Step(p).name \in raced THEN unclean \cup {p} ELSE unclean
    /\ UNCHANGED <<database, memcached, nginx, redis, bounds,
                   raced, recent, informed, spoiled, stores>>

\* The copy is not there, has expired, or memcached fails: the row is read.
GetRead(p) ==
    /\ At(p, "get")
    /\ got' = [got EXCEPT ![p][Step(p).name] = content[Step(p).name]]
    /\ half' = half \cup {p}
    /\ UNCHANGED <<database, memcached, nginx, redis, todo, home, bounds, reloads, stores>>

\* What was read becomes the copy, even None.
Fill(p) ==
    LET n == Step(p).name
        overlaps == got[p][n] # content[n] \/ \E q \in Procs : Amid(q, "set") /\ Step(q).name = n
    IN  /\ Amid(p, "get")
        /\ cache' = [cache EXCEPT ![n] = {got[p][n]}]
        /\ raced' = IF overlaps THEN raced \cup {n} ELSE raced \ {n}
        /\ Advance(p) /\ Forget(p)
        /\ UNCHANGED <<database, flushing, nginx, redis, bounds,
                       recent, informed, unclean, spoiled, stores>>

\* The e-mail server accepts the credentials, or a field is missing, or it
\* refuses them or does not answer in time.
Check(p) ==
    /\ At(p, "check")
    /\ \/ Advance(p) /\ Forget(p)
       \/ Abort(p)
    /\ UNCHANGED <<database, memcached, nginx, redis, bounds, reloads, stores>>

\* reset: the settings are deleted.
Clear(p) ==
    /\ At(p, "clear")
    /\ content' = [n \in Names |-> None]
    /\ raced' = raced \cup {n \in Names : cache[n] # {}}
    /\ Changed
    /\ Advance(p) /\ Forget(p)
    /\ UNCHANGED <<rows, memcached, nginx, redis, bounds, unclean, spoiled, stores>>

\* clear_memcached, in the background.
Flush ==
    /\ flushing /\ flushing' = FALSE
    /\ cache' = [n \in Names |-> {}] /\ raced' = {}
    /\ UNCHANGED <<database, nginx, redis, locals, bounds,
                   recent, informed, unclean, spoiled, stores>>

-----------------------------------------------------------------------------
(* nginx: reload, broadcast, listen_broadcast *)

Apply(p) ==
    LET i == Instance(p)
    IN  /\ At(p, "apply")
        /\ applied' = [applied EXCEPT ![i] = Config(got[p].webroot, got[p].ssl, @)]
        /\ spoiled' = IF p \in unclean THEN spoiled \cup {i} ELSE spoiled \ {i}
        /\ unclean' = unclean \ {p}
        /\ Advance(p) /\ got' = [got EXCEPT ![p] = Nothing]
        /\ UNCHANGED <<database, memcached, markers, redis, bounds,
                       raced, recent, informed, stores>>

\* Mutant of Deaf: what was published before is received later.
Deaf_KeepsInbox(ps) ==
    /\ listening' = listening \ ps
    /\ informed' = informed \ {p[1] : p \in ps}
    /\ UNCHANGED inbox

\* A listener ends: what was published to it is lost.
Deaf(ps) ==
    /\ listening' = listening \ ps
    /\ inbox' = [p \in Listeners |-> IF p \in ps THEN <<>> ELSE inbox[p]]
    /\ informed' = informed \ {p[1] : p \in ps}

\* nginx -t fails, and with it the request or the listener.
ApplyFails(p) ==
    /\ At(p, "apply")
    /\ Config(got[p].webroot, got[p].ssl, None) # None
    /\ breaks < MaxBreaks /\ breaks' = breaks + 1
    /\ spoiled' = spoiled \cup {Instance(p)} /\ unclean' = unclean \ {p}
    /\ Abort(p)
    /\ Deaf({p} \cap Listeners)
    /\ UNCHANGED <<database, memcached, nginx, up, plan, requests, nextId, raced, recent, stores>>

\* Servers get the message one after the other, until one does not answer.
Announce(p) ==
    LET s == Step(p).server  m == Step(p).marker
        hear == {q \in listening : q[2] = s}
    IN  /\ At(p, "publish")
        /\ recent' = IF s = Redis[1] /\ s \in up THEN recent \cup {m} ELSE recent
        /\ IF s \in up
           THEN /\ inbox' = [q \in Listeners |-> IF q \in hear THEN Append(inbox[q], m) ELSE inbox[q]]
                /\ informed' = IF m \in recent' THEN informed \cup {q[1] : q \in hear} ELSE informed
                /\ Advance(p) /\ Forget(p)
           ELSE Abort(p) /\ UNCHANGED <<inbox, informed>>
        /\ UNCHANGED <<database, memcached, nginx, listening, up, bounds,
                       raced, unclean, spoiled, stores>>

Receives(p, m) ==
    /\ todo' = [todo EXCEPT ![p] = Reload \o <<[op |-> "remember", marker |-> m]>>]
    /\ Begins(p, p[1])

\* Mutant of Receive: one reload is enough.
Receive_Once(p) ==
    /\ p \in listening /\ todo[p] = <<>> /\ inbox[p] # <<>>
    /\ inbox' = [inbox EXCEPT ![p] = Tail(@)]
    /\ IF markers[p[1]] # None THEN UNCHANGED <<todo, unclean>>
       ELSE Receives(p, Head(inbox[p]))
    /\ UNCHANGED <<database, memcached, nginx, listening, up, half, home, got, bounds,
                   raced, recent, informed, spoiled, stores>>

\* A message asks for a reload, unless it is a copy of the remembered one.
Receive(p) ==
    /\ p \in listening /\ todo[p] = <<>> /\ inbox[p] # <<>>
    /\ inbox' = [inbox EXCEPT ![p] = Tail(@)]
    /\ IF markers[p[1]] = Head(inbox[p]) THEN UNCHANGED <<todo, unclean>>
       ELSE Receives(p, Head(inbox[p]))
    /\ UNCHANGED <<database, memcached, nginx, listening, up, half, home, got, bounds,
                   raced, recent, informed, spoiled, stores>>

\* After its reload a listener goes on reading.  One that has lost its connection
\* meanwhile connects again, or ends when its server does not answer.
Remember(p) ==
    /\ At(p, "remember")
    /\ markers' = [markers EXCEPT ![p[1]] = Step(p).marker]
    /\ listening' = IF p[2] \in up THEN listening \cup {p} ELSE listening
    /\ Advance(p)
    /\ UNCHANGED <<database, memcached, applied, inbox, up, got, bounds, reloads, stores>>

\* A Redis server fails: its listeners lose what was published to them and end,
\* unless they are in a reload.
Break(s) ==
    /\ s \in up /\ breaks < MaxBreaks
    /\ up' = up \ {s} /\ breaks' = breaks + 1
    /\ Deaf({p \in Listeners : p[2] = s})
    /\ UNCHANGED <<database, memcached, nginx, locals, plan, requests, nextId,
                   raced, recent, unclean, spoiled, stores>>

Repair(s) ==
    /\ s \notin up /\ up' = up \cup {s}
    /\ UNCHANGED <<database, memcached, nginx, listening, inbox, locals, bounds, reloads, stores>>

\* When all its listeners have ended, their process is started again.
Relisten(i) ==
    LET mine == {i} \X Servers
    IN  /\ mine \cap listening = {} /\ up # {}
        /\ \A p \in mine : todo[p] = <<>>
        /\ listening' = listening \cup ({i} \X up)
        /\ markers' = [markers EXCEPT ![i] = None]
        /\ UNCHANGED <<database, memcached, applied, inbox, up, locals, bounds, reloads, stores>>

-----------------------------------------------------------------------------
(* Backups and key-value items *)

\* Others that have selected key k and not stored yet.
Selected(p, k) == {q \in Procs \ {p} : Amid(q, "store") /\ Step(q).key = k}

\* register_acme: an account of which a backup is there, in the row that is read,
\* is left as it is.  Another one is registered by certbot, which may refuse it.
LoadAccount(p) ==
    LET v == Step(p).value
    IN  /\ At(p, "look")
        /\ \/ /\ \E r \in rows[Account] : r.value = v
              /\ Run(p, SubSeq(todo[p], 3, Len(todo[p]))) /\ UNCHANGED got
           \/ /\ rows[Account] = {} \/ \E r \in rows[Account] : r.value # v
              /\ \/ Advance(p) /\ UNCHANGED got
                 \/ Abort(p)
        /\ UNCHANGED <<database, memcached, nginx, redis, bounds, reloads, stores>>

\* A row is selected; a backup is locked by that.
Select(p) ==
    LET k == Step(p).key  others == Selected(p, Step(p).key)
    IN  /\ At(p, "store")
        /\ k = Account /\ rows[k] # {} => \A q \in others : got[q].row = None
        /\ \E id \in IF rows[k] = {} THEN {None} ELSE {r.id : r \in rows[k]} :
              got' = [got EXCEPT ![p].row = id]
        /\ half' = half \cup {p}
        /\ crossed' = (crossed \ {p}) \cup (IF others = {} THEN {} ELSE others \cup {p})
        /\ UNCHANGED <<database, memcached, nginx, redis, todo, home, bounds, reloads, mixed,
                       last>>

\* Mutant of Updated: a backup is updated like an item, by its id.
Updated_ById(k, id, v) ==
    {IF r.id = id THEN [r EXCEPT !.value = v] ELSE r : r \in rows[k]}

\* The rows of key k after an update: a backup is found by its description, an
\* item by its id.
Updated(k, id, v) ==
    {IF k = Account \/ r.id = id THEN [r EXCEPT !.value = v] ELSE r : r \in rows[k]}

\* It is updated, or inserted when there was none.
StoreRow(p) ==
    LET k == Step(p).key  v == Step(p).value  id == got[p].row
    IN  /\ Amid(p, "store")
        /\ rows' = [rows EXCEPT ![k] =
               IF id = None THEN @ \cup {[id |-> nextId, value |-> v]} ELSE Updated(k, id, v)]
        /\ nextId' = IF id = None THEN nextId + 1 ELSE nextId
        /\ last' = [last EXCEPT ![k] = v]
        /\ mixed' = IF p \in crossed THEN mixed \cup {k}
                    ELSE IF k = Account THEN mixed \ {k} ELSE mixed
        /\ crossed' = crossed \ {p}
        /\ Advance(p) /\ got' = [got EXCEPT ![p].row = None]
        /\ UNCHANGED <<content, memcached, nginx, redis, plan, requests, breaks, reloads>>

\* All rows of an item are deleted.
Remove(p) ==
    LET k == Step(p).key  others == Selected(p, Step(p).key)
    IN  /\ At(p, "remove")
        /\ rows' = [rows EXCEPT ![k] = {}] /\ last' = [last EXCEPT ![k] = None]
        /\ crossed' = crossed \cup others
        /\ mixed' = IF others = {} THEN mixed \ {k} ELSE mixed
        /\ Advance(p) /\ Forget(p)
        /\ UNCHANGED <<content, memcached, nginx, redis, bounds, reloads>>

Next ==
    \/ \E t \in Tasks, i \in Instances : Arrive(t, i)
    \/ \E p \in Procs :
         \/ Delete(p) \/ Write(p) \/ GetHit(p) \/ GetRead(p) \/ Fill(p) \/ Check(p) \/ Clear(p)
         \/ Apply(p) \/ ApplyFails(p) \/ Announce(p)
         \/ LoadAccount(p) \/ Select(p) \/ StoreRow(p) \/ Remove(p)
    \/ \E p \in Listeners : Receive(p) \/ Remember(p)
    \/ \E s \in Servers : Break(s) \/ Repair(s)
    \/ \E i \in Instances : Relisten(i)
    \/ Flush

Spec == Init /\ [][Next]_vars

-----------------------------------------------------------------------------
Rows == [id : Ids, value : Values]
Configs == [root : Settings \cup {"https"}, ssl : Options]
Steps == UNION {
    [op : {"set"}, name : Names, value : Settings], [op : {"get"}, name : {"webroot", "ssl"}],
    [op : {"apply", "check", "clear"}], [op : {"remove"}, key : Keys],
    [op : {"publish"}, server : Servers, marker : Markers], [op : {"remember"}, marker : Markers],
    [op : {"store"}, key : Keys, value : Values], [op : {"look"}, value : Values]}

TypeOK ==
    /\ content \in [Names -> Settings]
    /\ cache \in [Names -> {{}} \cup {{v} : v \in Settings}]
    /\ flushing \in BOOLEAN
    /\ rows \in [Keys -> SUBSET Rows]
    /\ applied \in [Instances -> Configs \cup {None}]
    /\ markers \in [Instances -> Markers \cup {None}]
    /\ listening \subseteq Listeners /\ up \subseteq Servers
    /\ inbox \in [Listeners -> Seq(Markers)] /\ todo \in [Procs -> Seq(Steps)]
    /\ home \in [Tasks -> Instances \cup {None}]
    /\ \A p \in Listeners : inbox[p] # <<>> => p \in listening
    /\ \A p \in Procs : todo[p] = <<>> => p \notin half
    /\ \A t \in Tasks : todo[t] = <<>> <=> home[t] = None
    /\ got \in [Procs -> [webroot : Settings, ssl : Settings, row : Ids \cup {None}]]
    /\ plan \in Plans /\ requests \in 0..MaxRequests /\ breaks \in 0..MaxBreaks /\ nextId \in Ids
    /\ raced \subseteq Names /\ recent \subseteq Markers
    /\ informed \subseteq Instances /\ spoiled \subseteq Instances
    /\ unclean \subseteq Procs /\ crossed \subseteq Procs
    /\ mixed \subseteq Keys /\ last \in [Keys -> Values \cup {None}]

\* Nothing is on its way to the nginx of instance i.
Quiet(i) ==
    /\ \A p \in {i} \X Servers : inbox[p] = <<>> /\ todo[p] = <<>>
    /\ \A t \in Tasks : home[t] = i => ~Reloads(t)

\* An instance that a broadcast has reached after the last change serves what
\* the settings say: another reload would change nothing.  Unless its last
\* reload overlapped another one of the instance, failed, or was told a copy
\* that a reader had refilled while the setting changed.
AppliedAsSet ==
    \A i \in informed \ spoiled :
        Quiet(i) => applied[i] = Config(content["webroot"], content["ssl"], applied[i])

\* What is loaded of a backup or an item, from any of its rows, is what was
\* stored last, even if the backup once was inserted twice.  Unless stores of
\* the key overlapped, since the last one of the backup or the last removal of
\* the item.
LoadsLastStored ==
    \A k \in Keys \ mixed : {r.value : r \in rows[k]} = {last[k]} \ {None}

=============================================================================
