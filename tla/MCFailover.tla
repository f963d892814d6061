----------------------------- MODULE MCFailover -----------------------------
(* An instance of Failover for TLC: one device with two verkeys, and a     *)
(* second DID that takes over the first of them.                           *)
EXTENDS Failover

CONSTANTS u1, u2, v1, v2

DeviceEnrolments == {<<u1, v1>>, <<u1, v2>>, <<u2, v1>>, <<u1, None>>}

=============================================================================
