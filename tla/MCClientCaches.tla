--------------------------- MODULE MCClientCaches ---------------------------
(* Instances of ClientCaches for TLC. *)
EXTENDS ClientCaches

Symmetry == Permutations(Conns) \cup Permutations(Servers)
=============================================================================
