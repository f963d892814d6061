------------------------------ MODULE MCPickup ------------------------------
(* Requests, queue sizes and tasks for the model checking of Pickup.       *)
EXTENDS Pickup

Noop(timed)     == [noop |-> TRUE, size |-> 1, timed |-> timed]
Batch(n, timed) == [noop |-> FALSE, size |-> n, timed |-> timed]

\* What an agent sends to the session of onboard(): one message at a time.
SingleRequests == {Noop(TRUE), Noop(FALSE)}
\* And batches larger than the queue of a session should hold, with a delay.
SessionRequests == SingleRequests \cup {Batch(1, FALSE), Batch(2, TRUE)}
\* Everything the protocol allows, an untimed batch of two included.
AllRequests == SessionRequests \cup {Batch(2, FALSE)}

=============================================================================
