------------------------------ MODULE PeerTable ------------------------------
(***************************************************************************)
(* What a RemoteMap promises its users, without the heap: it remembers for *)
(* each live peer when it was last looked up, and now and then forgets     *)
(* exactly the peers that were last looked up at least Timeout before some *)
(* instant that has already passed.                                        *)
(***************************************************************************)
EXTENDS Naturals

CONSTANTS Addr, Timeout

VARIABLES
    clock,      \* the time
    lastSeen    \* live peers and the time of their last lookup

Init ==
    /\ clock = 0
    /\ lastSeen = [a \in {} |-> 0]

Tick ==
    /\ clock' = clock + 1
    /\ UNCHANGED lastSeen

Lookup(a) ==
    /\ lastSeen' = [b \in DOMAIN lastSeen \cup {a} |-> IF b = a THEN clock ELSE lastSeen[b]]
    /\ UNCHANGED clock

Expired(now) == {a \in DOMAIN lastSeen : lastSeen[a] + Timeout <= now}

Forget(now) ==
    /\ lastSeen' = [a \in DOMAIN lastSeen \ Expired(now) |-> lastSeen[a]]
    /\ UNCHANGED clock

Next == \/ Tick
        \/ \E a \in Addr : Lookup(a)
        \/ Timeout > 0 /\ \E now \in 0 .. clock : Forget(now)

vars == <<clock, lastSeen>>

Spec == Init /\ [][Next]_vars
=============================================================================
