------------------------------ MODULE MCRunner ------------------------------
(* Command lines for small runs of the runner. *)
EXTENDS Runner

CONSTANTS go, python, nosuch

Cmd(list, conns, n, cpus) ==
    [servers |-> list, conns |-> conns, trials |-> n, ncpu |-> cpus,
     server_cores |-> <<>>]

\* One server per process model; "--server-cores 0,0" makes two processes of python.
Both == [Cmd(<<go, nosuch, python>>, <<500>>, 1, 4) EXCEPT !.server_cores = <<<<0, 0>>, <<0, 0>>>>]

\* The two inner loops; the server cores are given as "0,2-3".
Trials == Cmd(<<go>>, <<500>>, 2, 4)
Loads == [Cmd(<<go>>, <<500, 1000>>, 1, 4) EXCEPT !.server_cores = <<<<0, 0>>, <<2, 3>>>>]

\* A machine with one core: there is no core for the server, the plan is empty.
NoCore == Cmd(<<python>>, <<500>>, 1, 1)

Matrix == {Both, Trials, Loads, NoCore}
Shared == {Cmd(<<python>>, <<500>>, 1, 4)}

\* Nothing, or the row or window of an earlier run, of a cell in the matrix or not.
OldCells == {<<go, 500, 1>>, <<go, 900, 1>>}
OldFiles == {<<>>} \cup {<<c>> : c \in OldCells}

ASSUME \A c \in Matrix \cup Shared : Sized(c) /\ Proper(c)
=============================================================================
