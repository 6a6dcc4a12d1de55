--------------------------- MODULE MCRemoteMap ---------------------------
(* Small instances of RemoteMap. *)
EXTENDS RemoteMap, TLC

Symmetry == Permutations(Addr)
==========================================================================
