---------------------------- MODULE Turbotunnel -----------------------------
(***************************************************************************)
(* What RemoteMap and QueuePacketConn of the package turbotunnel have in   *)
(* common: the peers, the time after which they expire, and the clock.     *)
(***************************************************************************)
EXTENDS Naturals

CONSTANTS
    Addr,       \* addresses of peers
    Timeout,    \* the timeout NewRemoteMap is called with
    MaxTime     \* bound on the clock

ASSUME TimeAssumption == Timeout \in Nat /\ MaxTime \in Nat

VARIABLE clock  \* time.Now()
=============================================================================
