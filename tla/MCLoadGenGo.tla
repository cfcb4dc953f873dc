---------------------------- MODULE MCLoadGenGo ----------------------------
(* LoadGenGo on small instances. *)
EXTENDS LoadGenGo, TLC

Symmetry == Permutations(Conn)

\* Every bucket is twice as wide as the one before.
Doubling == [i \in 0 .. NBuckets - 1 |-> 2 ^ i]

MedianMax  == <<<<1, 2>>, <<1, 1>>>>
Median     == <<<<1, 2>>>>

============================================================================
