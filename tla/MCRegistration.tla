--------------------------- MODULE MCRegistration ---------------------------
(* Offers for the model checking of Registration.                          *)
EXTENDS Registration, TLC

CONSTANTS d1, d2, v1, f1, f2

O(d, v, f, s) == [did |-> d, verkey |-> v, fcm |-> f, static |-> s]

\* A device that changes its device id, and a static connection of a DID without
\* one that takes over its verkey.
RegistrationOffers ==
    {O(d1, v1, f1, FALSE), O(d1, v1, f2, FALSE), O(d2, v1, None, TRUE)}

Alike == Permutations(Sessions) \cup Permutations(Workers)

=============================================================================
