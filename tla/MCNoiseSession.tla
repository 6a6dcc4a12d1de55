--------------------------- MODULE MCNoiseSession ---------------------------
(* Small instances of NoiseSession. *)
EXTENDS NoiseSession, TLC

Symmetry == Permutations(Sender) \cup Permutations(Receiver)
=============================================================================
