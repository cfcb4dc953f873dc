---------------------------- MODULE MCGoEpoll ----------------------------
(* GoEpoll on small instances. *)
EXTENDS GoEpoll, TLC

Symmetry == Permutations(Conn) \cup Permutations(RoomId)

===========================================================================
