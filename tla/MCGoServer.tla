---------------------------- MODULE MCGoServer ----------------------------
(* GoServer on small instances. *)
EXTENDS GoServer, TLC

Symmetry == Permutations(Conn) \cup Permutations(RoomId)

===========================================================================
