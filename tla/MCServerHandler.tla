--------------------------- MODULE MCServerHandler ---------------------------
(* Small instances of ServerHandler: packets of three sizes, one of them
   larger than a whole response may be. *)
EXTENDS ServerHandler

MCSize == [n \in 1 .. MaxPackets |-> CASE n % 3 = 1 -> 1 [] n % 3 = 2 -> 2 [] OTHER -> 4]
=============================================================================
