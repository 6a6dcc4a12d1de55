----------------------------- MODULE NonceFilter -----------------------------
(***************************************************************************)
(* What Session.Decrypt promises about nonces, without the bitmap: the     *)
(* filter remembers every nonce it ever accepted, accepts a nonce exactly  *)
(* when it is new and less than WindowBits behind every accepted one, and  *)
(* never accepts anything twice.                                           *)
(***************************************************************************)
EXTENDS Integers

CONSTANTS WindowBits, Nonce

VARIABLES
    returned,   \* the nonces accepted so far
    verdict     \* the last nonce checked and the answer

Acceptable(n) ==
    /\ n \notin returned
    /\ \A a \in returned : a - n < WindowBits

Init ==
    /\ returned = {}
    /\ verdict = [nonce |-> 0, ok |-> FALSE]

Check(n) ==
    /\ verdict' = [nonce |-> n, ok |-> Acceptable(n)]
    /\ returned' = IF Acceptable(n) THEN returned \cup {n} ELSE returned

Next == \E n \in Nonce : Check(n)

vars == <<returned, verdict>>

Spec == Init /\ [][Next]_vars
=============================================================================
