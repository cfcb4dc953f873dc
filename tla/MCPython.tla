------------------------------ MODULE MCPython ------------------------------
(* Two clients of one process; one of them sends more. *)
EXTENDS PythonServer

CONSTANTS c1, c2

Quota == [c \in Clients |-> IF c = c1 THEN 2 ELSE 1]
=============================================================================
