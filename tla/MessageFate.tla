----------------------------- MODULE MessageFate -----------------------------
(***************************************************************************)
(* What a mediator endpoint promises for every message posted to it, with  *)
(* no word on how: the message is handed over to each group of listening   *)
(* devices at most once, the sender is told one outcome, once, and is told *)
(* that its message was accepted only when a listener had it.              *)
(* A message may still be handed over after its sender was told otherwise. *)
(***************************************************************************)
CONSTANTS Msgs, Groups

VARIABLES
    outcome,   \* what the sender of a message has been told
    handed     \* the groups to which a message has been handed over

vars == <<outcome, handed>>

Outcomes == {"pending", "accepted", "notified", "refused"}

Init ==
    /\ outcome = [m \in Msgs |-> "pending"]
    /\ handed = [m \in Msgs |-> {}]

\* A listener of the group gets the message.
Hand(m, g) ==
    /\ g \notin handed[m]
    /\ handed' = [handed EXCEPT ![m] = @ \cup {g}]
    /\ UNCHANGED outcome

\* The sender is answered: accepted by a listener, notified by Firebase, or
\* refused.
Tell(m, o) ==
    /\ outcome[m] = "pending"
    /\ o \in {"accepted", "notified", "refused"}
    /\ o = "accepted" => handed[m] # {}
    /\ outcome' = [outcome EXCEPT ![m] = o]
    /\ UNCHANGED handed

Next ==
    \E m \in Msgs : (\E g \in Groups : Hand(m, g)) \/ (\E o \in Outcomes : Tell(m, o))

Spec == Init /\ [][Next]_vars

=============================================================================
