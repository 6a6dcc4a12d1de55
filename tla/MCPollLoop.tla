------------------------------ MODULE MCPollLoop ------------------------------
(* A small instance of PollLoop. *)
EXTENDS PollLoop

\* With MaxPayload = 5 the third packet fits behind one of the others, the second does not.
MCSize == [n \in 1 .. MaxPackets |-> IF n % 3 = 0 THEN 1 ELSE 2]
=============================================================================
