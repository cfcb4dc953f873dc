--------------------------- MODULE MCLoadGenOdin ---------------------------
(* LoadGenOdin on small instances. *)
EXTENDS LoadGenOdin, TLC

Symmetry == Permutations(Conn)

============================================================================
