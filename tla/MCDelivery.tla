----------------------------- MODULE MCDelivery -----------------------------
(* Groups for the model checking of Delivery.                              *)
EXTENDS Delivery

\* All devices share the messages of one group.
OneGroup == [s \in Sessions |-> CHOOSE g \in Groups : TRUE]

=============================================================================
