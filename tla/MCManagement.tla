---------------------------- MODULE MCManagement ----------------------------
(* Plans for the model checking of Management.                             *)
EXTENDS Management, TLC

CONSTANTS x, y

Ask(kind) == [kind |-> kind]
Value(kind, v) == [kind |-> kind, value |-> v]
Webroot(v) == [kind |-> "set", name |-> "webroot", value |-> v]
Item(kind, v) == [kind |-> kind, key |-> "item", value |-> v]
NoItem == [kind |-> "remove", key |-> "item"]

\* A change between two broadcasts, before a broadcast together with another one,
\* and after a reset; an account that is registered twice, and an item stored
\* twice and removed; a setting that fails halfway.
ManagementPlans ==
    {<<Ask("broadcast"), Webroot(x), Ask("broadcast")>>,
     <<Webroot(x), Value("ssl", "external"), Ask("broadcast")>>,
     <<Ask("reset"), Value("ssl", "external"), Ask("broadcast")>>,
     <<Value("acme", x), Value("acme", y), Value("acme", x), Value("acme", y)>>,
     <<Item("store", x), Item("store", y), NoItem, Item("store", x)>>,
     <<Value("email", x), Value("ssl", "manual"), Ask("reload"), Webroot(x)>>}

StoredSettings == [n \in Names |-> IF n = "ssl" THEN "external" ELSE IF n = "webroot" THEN y ELSE None]

\* A server after the other.
TwoServers == <<"r1", "r2">>

Alike == Permutations(Tasks)

=============================================================================
