----------------------------- MODULE MCSession ------------------------------
(* Requests of a device for the model checking of Session.                 *)
EXTENDS Session

CONSTANTS th1, th2, pt

\* A batch with a delay, and one without that asks for two messages.
SessionRequests ==
    {[noop |-> FALSE, size |-> 1, timed |-> TRUE],
     [noop |-> FALSE, size |-> 2, timed |-> FALSE]}

\* Both threads under a parent.
SessionSubscriptions ==
    {[threads |-> {th1, th2}, parent |-> pt, direct |-> FALSE]}

\* The threads of a parent, aborted, and whatever there is, without an answer.
SessionUnsubscriptions ==
    {[threads |-> {}, parent |-> pt, aborted |-> TRUE, direct |-> FALSE],
     [threads |-> {}, parent |-> None, aborted |-> FALSE, direct |-> TRUE]}

=============================================================================
