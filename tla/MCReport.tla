------------------------------ MODULE MCReport ------------------------------
(* Files with repeated trials, missing values, round and just-above-round    *)
(* values, negative ones, servers with and without a fixed place, and lines  *)
(* cut short.                                                                *)
EXTENDS Report, SequencesExt

F == {"p99_ms", "cpu_cores"}
TF == {"p50_ms", "max_ms"}
Tens == {1, 10, 100, 1000, 10000, 100000}
Order == <<"go", "rust">>
Sorted_names == <<"go", "lua", "rust", "zig">>

RowOf(s, c, p, u) == [server |-> s, conns |-> c,
                      val |-> [f \in F |-> IF f = "p99_ms" THEN p ELSE u]]
Rows ==
    {RowOf("go", 500, 100, 0), RowOf("go", 500, 510, -20), RowOf("go", 1000, 10000, Bad),
     RowOf("zig", 500, 1000, 110), RowOf("zig", 1000, 210, 0), RowOf("lua", 1000, Bad, Bad), Cut}

WindowOf(s, c, tr, t, p, m) == [server |-> s, conns |-> c, trial |-> tr, t_s |-> t,
                              val |-> [f \in TF |-> IF f = "p50_ms" THEN p ELSE m]]

\* Merged by hand: trials 2 and 1, windows not in time order, a gap, a value missing.
TL1 == <<WindowOf("lua", 1000, 2, 0, 100, 200), WindowOf("rust", 500, 2, 0, 10, 10000),
         WindowOf("rust", 500, 1, 13, 110, 200), WindowOf("rust", 500, 1, 0, 100, Bad),
         WindowOf("rust", 500, 1, 7, 200, 510), WindowOf("go", 1000, 1, 0, Bad, 0),
         WindowOf("go", 500, 1, 0, 0, 0), WindowOf("go", 500, 1, 6, 200, 500)>>
TL2 == <<WindowOf("go", 500, 1, 0, 100, 100), Cut>>

\* A line that ends among the percentiles, of a trial that is not shown and of one that is.
TL3 == <<WindowOf("go", 500, 1, 0, 100, 100), WindowOf("go", 500, 2, 0, 100, Gone)>>
TL4 == <<WindowOf("go", 500, 1, 0, 100, Gone), WindowOf("go", 500, 2, 0, 100, 100)>>

Five == <<RowOf("go", 500, 500, 10), RowOf("go", 500, 100, 200), RowOf("go", 500, 510, -40),
          RowOf("zig", 500, 1010, 10), RowOf("go", 500, 100, Bad), RowOf("go", 500, 200, 110)>>

Files ==
    {[csv |-> r, tl |-> None] : r \in BoundedSeq(Rows, 4)}
    \cup {[csv |-> r, tl |-> t] : r \in BoundedSeq(Rows, 1), t \in {TL1, TL2, TL3, TL4, <<>>}}
    \cup {[csv |-> Five, tl |-> TL1],
          [csv |-> <<RowOf("zig", 2000, 200, 0)>> \o Five \o <<RowOf("rust", 1000, 10, 10)>>, tl |-> TL1]}

ASSUME \A file \in Files : Plottable(file) /\ Timed(file)
=============================================================================
