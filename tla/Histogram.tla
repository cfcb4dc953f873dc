----------------------------- MODULE Histogram -----------------------------
(***************************************************************************)
(* The load generators' log-linear latency histogram (loadgen/main.go;     *)
(* loadgen-odin/main.odin has the same code).  The code's buckets grow by  *)
(* the factor 10^(1/1000); here their lower bounds are any increasing      *)
(* numbers, in a unit in which they are whole.  A fraction such as 0.99 is *)
(* a pair <<99, 100>>: for the five fractions the program asks for,        *)
(* uint64(p * float64(total)) and the division below agree.                *)
(***************************************************************************)
EXTENDS Integers, FiniteSets, FiniteSetsExt

CONSTANTS NBuckets,  \* nbuckets (8000)
          Low        \* the lower bounds of the buckets

Bucket == 0 .. NBuckets - 1

ASSUME HistogramConstants ==
    /\ NBuckets \in Nat \ {0}
    /\ Low \in [Bucket -> Nat \ {0}] /\ Low[0] = 1
    /\ \A i, j \in Bucket : i < j => Low[i] < Low[j]

Hist0 == [i \in Bucket |-> 0]

(* The lower bound of bucket i stands for its samples.                     *)
ValFor(i) == Low[i]

(* A sample under 1 is counted as 1, one beyond the last bound in the last *)
(* bucket.                                                                 *)
IdxFor(us) == Max({0} \cup {i \in Bucket : ValFor(i) <= us})

Record(h, us) == [h EXCEPT ![IdxFor(us)] = @ + 1]

(* The number of things counted by the counters f[x] of S: <<x, n>> is the *)
(* n-th of those that f[x] counts.                                         *)
Counted(f, S) == UNION {{x} \X (1 .. f[x]) : x \in S}
Sum(f, S) == Cardinality(Counted(f, S))

Total(h) == Sum(h, Bucket)

UpTo(h, i) == Sum(h, 0 .. i)

(* The share p of total, rounded down.                                     *)
Target(p, total) == (p[1] * total) \div p[2]

(* The first bucket at which the running sum reaches the target.           *)
Percentile(h, p) ==
    IF Total(h) = 0 THEN 0
    ELSE ValFor(Min({i \in Bucket : UpTo(h, i) >= Target(p, Total(h))}))

============================================================================
