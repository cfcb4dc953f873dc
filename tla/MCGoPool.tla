----------------------------- MODULE MCGoPool -----------------------------
(* GoPool on small instances. *)
EXTENDS GoPool, TLC

Symmetry == Permutations(Conn) \cup Permutations(RoomId) \cup Permutations(Buf)

===========================================================================
