-------------------------- MODULE LoadGenGoProofs --------------------------
(***************************************************************************)
(* The Go load generator for any number of connections, buckets, windows   *)
(* and fractions: types, what the windows count, what main may miss, and   *)
(* the percentiles it reports.                                             *)
(***************************************************************************)
EXTENDS LoadGenGo, FiniteSetTheorems, SequenceTheorems, TLAPS

USE DEF clock

-----------------------------------------------------------------------------
(* The parts of the inductive invariants.                                  *)

(* Where main is, and how much of its report it has.                       *)
AtMain ==
    /\ mpc = "wait" => stage = 0 /\ call = 1 /\ idx = 0 /\ acc = 0
    /\ mpc # "done" => stage \in Stage /\ call \in First(stage) .. Len(Asked(stage))
    /\ mpc = "scan" => idx < NBuckets /\ call # 0

Filled ==
    \A s \in Stage :
        /\ s > stage => Len(report[s]) = 0
        /\ s = stage => Len(report[s]) = IF call = 0 THEN 0 ELSE call - 1

TypeInv == TypeOK /\ AtMain /\ Filled

(* A reader with a sample in hand: recorded and not yet counted, or on its *)
(* way to be recorded.                                                     *)
Recorded == {c \in Conn : rpc[c] \in {"window", "count"}}
Coming   == {c \in Conn : rpc[c] \in {"lookup", "gate"}}

Unread == \A c \in Conn : pc[c] \in {"dial", "join", "await"} => rpc[c] = "off"
Closed == \A c \in Conn : pc[c] = "done" => sock[c] = "closed"
Tally  == Total(hist) = measured + Cardinality(Recorded)
Late   == mpc # "wait" => /\ \A c \in Conn : pc[c] = "done"
                          /\ Total(hist) + Cardinality(Coming) <= me + Cardinality(Conn)

LateInv == Unread /\ Closed /\ Tally /\ Late

(* The samples of bucket b that are in a window, and the readers that have *)
(* recorded one and have still to add it to a window.                      *)
InWindows(b) == Sum([w \in 1 .. NWin |-> windows[w][b]], 1 .. NWin)
ToWindow(b)  == {c \in Conn : rpc[c] = "window" /\ IdxFor(us[c]) = b}
Early        == now - Start < Warm + NWin * Window

Since == \A c \in Conn : rpc[c] = "window" => since[c] > Warm /\ since[c] <= now - Start
Split == \A b \in Bucket :
            /\ InWindows(b) + Cardinality(ToWindow(b)) <= hist[b]
            /\ Early => InWindows(b) + Cardinality(ToWindow(b)) = hist[b]

WindowInv == Since /\ Split

(* The histogram of a stage is still as it was when main woke up.          *)
Quiet(s) == Reported[HistNo(s)] = atWait[HistNo(s)]

Grown == mpc # "wait" => /\ Len(atWait) = NWin + 1
                         /\ \A j \in 1 .. NWin + 1 : \A b \in Bucket : atWait[j][b] <= Reported[j][b]
Summing ==
    mpc = "total" /\ Quiet(stage) => acc = Sum(Reported[HistNo(stage)], 0 .. idx - 1)
Scanning ==
    mpc = "scan" /\ Quiet(stage) =>
      LET h == Reported[HistNo(stage)]
      IN  /\ Total(h) # 0
          /\ target = Target(Asked(stage)[call], Total(h))
          /\ acc = Sum(h, 0 .. idx - 1)
          /\ \A i \in 0 .. idx - 1 : UpTo(h, i) < target
Exact ==
    \A s \in Stage : mpc # "wait" /\ Quiet(s) =>
        /\ \A i \in 1 .. Len(report[s]) :
              report[s][i] = Percentile(Reported[HistNo(s)], Asked(s)[i])
        /\ s < stage /\ Len(report[s]) = 0 => Total(Reported[HistNo(s)]) = 0

ReportInv == Grown /\ Summing /\ Scanning /\ Exact

-----------------------------------------------------------------------------
(* Least and greatest elements.                                            *)

(* A set of naturals that has an element has a least one.                  *)
LEMMA LeastNat ==
    ASSUME NEW S \in SUBSET Nat, S # {}
    PROVE  \E m \in S : \A n \in S : m <= n
<1> DEFINE R == OpToRel(<, Nat)
<1>1. IsWellFoundedOn(R, Nat)
  BY NatLessThanWellFounded
<1>2. \A m, n \in Nat : m < n => <<m, n>> \in R
  BY DEF OpToRel
<1> HIDE DEF R
<1>3. PICK m \in S : \A n \in S : ~ (<<n, m>> \in R)
  BY <1>1, WFMin
<1>4. ASSUME NEW n \in S PROVE m <= n
  <2>1. m \in Nat /\ n \in Nat /\ ~ (<<n, m>> \in R)
    BY <1>3
  <2>2. ~ (n < m)
    BY <1>2, <2>1
  <2> QED BY <2>1, <2>2
<1> QED BY <1>4

LEMMA MinFacts ==
    ASSUME NEW S \in SUBSET Nat, S # {}
    PROVE  Min(S) \in S /\ \A n \in S : Min(S) <= n
<1>1. PICK m \in S : \A n \in S : m <= n
  BY LeastNat
<1> QED BY <1>1 DEF Min

LEMMA MaxFacts ==
    ASSUME NEW b \in Nat, NEW S \in SUBSET (0 .. b), S # {}
    PROVE  Max(S) \in S /\ \A n \in S : Max(S) >= n
<1> DEFINE T == {k \in Nat : b - k \in S}
<1>1. T # {}
  <2>1. PICK s \in S : TRUE
    OBVIOUS
  <2>2. b - s \in Nat /\ b - (b - s) = s
    BY <2>1
  <2> QED BY <2>1, <2>2
<1>2. PICK m \in T : \A n \in T : m <= n
  BY <1>1, LeastNat
<1>3. ASSUME NEW n \in S PROVE b - m >= n
  <2>1. b - n \in Nat /\ b - (b - n) = n
    OBVIOUS
  <2>2. b - n \in T
    BY <2>1
  <2> QED BY <1>2, <2>1, <2>2
<1>4. b - m \in S
  BY <1>2
<1> QED BY <1>3, <1>4 DEF Max

-----------------------------------------------------------------------------
(* Sums.                                                                   *)

LEMMA InCounted ==
    ASSUME NEW f, NEW S
    PROVE  \A y : y \in Counted(f, S) <=> \E x \in S : \E n \in 1 .. f[x] : y = <<x, n>>
BY DEF Counted

LEMMA Block ==
    ASSUME NEW x, NEW n \in Nat
    PROVE  IsFiniteSet({x} \X (1 .. n)) /\ Cardinality({x} \X (1 .. n)) = n
<1>1. IsFiniteSet({x}) /\ Cardinality({x}) = 1
  BY FS_Singleton
<1>2. IsFiniteSet(1 .. n) /\ Cardinality(1 .. n) = n
  BY FS_Interval
<1>3. /\ IsFiniteSet({x} \X (1 .. n))
      /\ Cardinality({x} \X (1 .. n)) = Cardinality({x}) * Cardinality(1 .. n)
  BY <1>1, <1>2, FS_Product
<1> QED BY <1>1, <1>2, <1>3

LEMMA SumType ==
    ASSUME NEW S, IsFiniteSet(S), NEW f, \A x \in S : f[x] \in Nat
    PROVE  IsFiniteSet(Counted(f, S)) /\ Sum(f, S) \in Nat
<1> DEFINE T == {{x} \X (1 .. f[x]) : x \in S}
           g == [x \in S |-> {x} \X (1 .. f[x])]
<1>1. g \in Surjection(S, T)
  BY DEF Surjection
<1>2. IsFiniteSet(T)
  BY <1>1, FS_Surjection
<1>3. ASSUME NEW x \in S PROVE IsFiniteSet({x} \X (1 .. f[x]))
  BY Block
<1>4. IsFiniteSet(UNION T)
  <2>1. \A t \in T : IsFiniteSet(t)
    BY <1>3
  <2> QED BY <1>2, <2>1, FS_UNION
<1> QED BY <1>4, FS_CardinalityType DEF Counted, Sum

LEMMA SumEmpty ==
    ASSUME NEW f
    PROVE  Sum(f, {}) = 0
<1>1. Counted(f, {}) = {}
  BY DEF Counted
<1> QED BY <1>1, FS_EmptySet DEF Sum

(* One more counter.                                                       *)
LEMMA SumAdd ==
    ASSUME NEW S, IsFiniteSet(S), NEW x, x \notin S, NEW f,
           \A y \in S \cup {x} : f[y] \in Nat
    PROVE  Sum(f, S \cup {x}) = Sum(f, S) + f[x]
<1> DEFINE A == Counted(f, S)
           B == {x} \X (1 .. f[x])
<1>1. IsFiniteSet(A) /\ IsFiniteSet(B) /\ Cardinality(B) = f[x] /\ f[x] \in Nat
  BY SumType, Block
<1>2. Counted(f, S \cup {x}) = A \cup B
  BY DEF Counted
<1>3. A \cap B = {}
  BY DEF Counted
<1>4. Cardinality(A \cup B) = Cardinality(A) + Cardinality(B) - Cardinality(A \cap B)
  BY <1>1, FS_Union
<1>5. Cardinality(A \cap B) = 0 /\ Cardinality(A) \in Nat
  BY <1>1, <1>3, FS_EmptySet, FS_CardinalityType
<1> HIDE DEF A, B
<1>6. Cardinality(A \cup B) = Cardinality(A) + f[x]
  BY <1>1, <1>4, <1>5
<1> QED BY <1>2, <1>6 DEF Sum, A

(* One more of the things a counter counts.                                *)
LEMMA SumIncrement ==
    ASSUME NEW S, IsFiniteSet(S), NEW f, \A y \in S : f[y] \in Nat,
           NEW x \in S, NEW g, g[x] = f[x] + 1, \A y \in S : y # x => g[y] = f[y]
    PROVE  Sum(g, S) = Sum(f, S) + 1
<1> DEFINE A == Counted(f, S)
           e == <<x, f[x] + 1>>
<1>1. IsFiniteSet(A)
  BY SumType
<1>2. e \notin A
  <2>1. f[x] \in Nat
    OBVIOUS
  <2> QED BY <2>1, InCounted
<1>3. Counted(g, S) = A \cup {e}
  <2>1. ASSUME NEW y \in Counted(g, S) PROVE y \in A \cup {e}
    <3>1. PICK z \in S : \E n \in 1 .. g[z] : y = <<z, n>>
      BY <2>1, InCounted
    <3>2. PICK n \in 1 .. g[z] : y = <<z, n>>
      BY <3>1
    <3>3. f[z] \in Nat
      OBVIOUS
    <3>4. n \in 1 .. f[z] \/ (z = x /\ n = f[x] + 1)
      BY <3>2, <3>3
    <3> QED BY <3>2, <3>4, InCounted
  <2>2. ASSUME NEW y \in A PROVE y \in Counted(g, S)
    <3>1. PICK z \in S : \E n \in 1 .. f[z] : y = <<z, n>>
      BY <2>2, InCounted
    <3>2. PICK n \in 1 .. f[z] : y = <<z, n>>
      BY <3>1
    <3>3. f[z] \in Nat
      OBVIOUS
    <3>4. n \in 1 .. g[z]
      BY <3>2, <3>3
    <3> QED BY <3>2, <3>4, InCounted
  <2>3. e \in Counted(g, S)
    <3>1. f[x] \in Nat
      OBVIOUS
    <3>2. f[x] + 1 \in 1 .. g[x]
      BY <3>1
    <3> QED BY <3>2, InCounted
  <2> QED BY <2>1, <2>2, <2>3
<1>4. Cardinality(A \cup {e}) = Cardinality(A) + 1
  BY <1>1, <1>2, FS_AddElement
<1> QED BY <1>3, <1>4 DEF Sum

(* More counters count no less.                                            *)
LEMMA SumSubset ==
    ASSUME NEW S, IsFiniteSet(S), NEW f, \A y \in S : f[y] \in Nat, NEW T \in SUBSET S
    PROVE  Sum(f, T) <= Sum(f, S)
<1>1. IsFiniteSet(Counted(f, S))
  BY SumType
<1>2. Counted(f, T) \subseteq Counted(f, S)
  BY DEF Counted
<1> QED BY <1>1, <1>2, FS_Subset DEF Sum

LEMMA SumSame ==
    ASSUME NEW S, NEW f, NEW g, \A y \in S : g[y] = f[y]
    PROVE  Sum(g, S) = Sum(f, S)
<1>1. Counted(g, S) = Counted(f, S)
  <2>1. \A y : y \in Counted(g, S) <=> y \in Counted(f, S)
    BY InCounted
  <2> QED BY <2>1
<1> QED BY <1>1 DEF Sum

-----------------------------------------------------------------------------
(* Constants and operators.                                                *)

LEMMA Quotient ==
    ASSUME NEW a \in Nat, NEW b \in Nat \ {0}
    PROVE  a \div b \in Nat /\ a % b \in 0 .. b - 1 /\ a = b * (a \div b) + (a % b)
OBVIOUS

(* A quotient is below n if the dividend is below n times the divisor.     *)
LEMMA QuotientBelow ==
    ASSUME NEW a \in Nat, NEW b \in Nat \ {0}, NEW n \in Nat, a < b * n
    PROVE  a \div b < n
<1> DEFINE q == a \div b
<1>1. q \in Nat /\ b * q <= a
  BY Quotient
<1> HIDE DEF q
<1>2. SUFFICES ASSUME q >= n PROVE FALSE
  BY <1>1 DEF q
<1>3. b * q >= b * n
  BY <1>1, <1>2
<1> QED BY <1>1, <1>3

LEMMA NWinType == NWin \in Nat \ {0}
<1> DEFINE q == Dur \div Window
<1>1. q \in Nat
  BY LoadGenGoConstants, Dur \in Nat, Window \in Nat \ {0}, Quotient
<1> HIDE DEF q
<1>2. Max({1, q}) \in {1, q} /\ Max({1, q}) >= 1
  BY <1>1, MaxFacts, q + 1 \in Nat, {1, q} \in SUBSET (0 .. q + 1)
<1> QED BY <1>1, <1>2 DEF NWin, q

LEMMA StageFacts ==
    ASSUME NEW s \in Stage
    PROVE  /\ HistNo(s) \in 1 .. NWin + 1
           /\ Asked(s) \in Seq(Fraction) /\ Len(Asked(s)) \in Nat \ {0}
           /\ First(s) \in {0, 1}
           /\ \A i \in 1 .. Len(Asked(s)) :
                /\ Asked(s)[i] \in Nat \X (Nat \ {0})
                /\ Asked(s)[i][1] <= Asked(s)[i][2]
<1>1. NWin \in Nat \ {0}
  BY NWinType
<1>2. HistNo(s) \in 1 .. NWin + 1 /\ First(s) \in {0, 1}
  BY <1>1 DEF Stage, Windowed, HistNo, First
<1>3. Asked(s) \in Seq(Fraction) /\ Asked(s) # <<>>
  BY LoadGenGoConstants DEF Asked
<1>4. Len(Asked(s)) \in Nat \ {0} /\ \A i \in 1 .. Len(Asked(s)) : Asked(s)[i] \in Fraction
  BY <1>3, LenProperties, EmptySeq, ElementOfSeq
<1> QED BY <1>2, <1>3, <1>4 DEF Fraction

LEMMA TargetFacts ==
    ASSUME NEW p \in Nat \X (Nat \ {0}), NEW t \in Nat
    PROVE  Target(p, t) \in Nat /\ (p[1] <= p[2] => Target(p, t) <= t)
<1> DEFINE a == p[1] * t
           b == p[2]
<1>1. a \in Nat /\ b \in Nat \ {0}
  OBVIOUS
<1>2. Target(p, t) = a \div b
  BY DEF Target
<1>3. ASSUME p[1] <= p[2] PROVE a \div b <= t
  <2>1. a < b * (t + 1)
    <3>1. p[1] * t <= p[2] * t
      BY <1>3
    <3>2. p[2] * (t + 1) = p[2] * t + p[2]
      OBVIOUS
    <3> QED BY <3>1, <3>2
  <2>2. a \div b < t + 1
    BY <1>1, <2>1, QuotientBelow
  <2>3. a \div b \in Nat
    BY <1>1, Quotient
  <2> QED BY <2>2, <2>3
<1> QED BY <1>1, <1>2, <1>3, Quotient

LEMMA BucketFacts ==
    /\ IsFiniteSet(Bucket) /\ 0 \in Bucket /\ Bucket \subseteq Nat
    /\ \A i \in Bucket : ValFor(i) \in Nat
<1>1. IsFiniteSet(0 .. NBuckets - 1)
  BY HistogramConstants, FS_Interval
<1> QED BY <1>1, HistogramConstants DEF Bucket, ValFor

LEMMA IdxType ==
    ASSUME NEW us0
    PROVE  IdxFor(us0) \in Bucket
<1> DEFINE S == {0} \cup {i \in Bucket : ValFor(i) <= us0}
<1>1. S \in SUBSET (0 .. NBuckets - 1) /\ S # {} /\ NBuckets - 1 \in Nat
  BY HistogramConstants, BucketFacts DEF Bucket
<1> HIDE DEF S
<1>2. Max(S) \in S
  BY <1>1, MaxFacts
<1> QED BY <1>1, <1>2 DEF IdxFor, S, Bucket

LEMMA RecordFacts ==
    ASSUME NEW h \in [Bucket -> Nat], NEW us0
    PROVE  /\ Record(h, us0) \in [Bucket -> Nat]
           /\ Record(h, us0)[IdxFor(us0)] = h[IdxFor(us0)] + 1
           /\ \A b \in Bucket : b # IdxFor(us0) => Record(h, us0)[b] = h[b]
           /\ Total(Record(h, us0)) = Total(h) + 1
<1> DEFINE x == IdxFor(us0)
           g == Record(h, us0)
<1>1. x \in Bucket
  BY IdxType
<1>2. g = [h EXCEPT ![x] = @ + 1]
  BY DEF Record
<1> HIDE DEF x, g
<1>3. g \in [Bucket -> Nat] /\ g[x] = h[x] + 1 /\ \A b \in Bucket : b # x => g[b] = h[b]
  BY <1>1, <1>2
<1>4. Sum(g, Bucket) = Sum(h, Bucket) + 1
  BY <1>1, <1>3, BucketFacts, SumIncrement
<1> QED BY <1>3, <1>4 DEF Total, x, g

LEMMA ReportedFacts ==
    ASSUME hist \in [Bucket -> Nat], windows \in [1 .. NWin -> [Bucket -> Nat]]
    PROVE  /\ Reported \in Seq([Bucket -> Nat]) /\ Len(Reported) = NWin + 1
           /\ Reported[1] = hist
           /\ \A j \in 2 .. NWin + 1 : Reported[j] = windows[j - 1]
           /\ \A s \in Stage : HistOf(s) = Reported[HistNo(s)] /\ HistOf(s) \in [Bucket -> Nat]
<1> DEFINE H == [Bucket -> Nat]
<1>1. NWin \in Nat \ {0}
  BY NWinType
<1>2. <<hist>> \in Seq(H) /\ Len(<<hist>>) = 1 /\ <<hist>>[1] = hist
  OBVIOUS
<1>3. windows \in Seq(H) /\ Len(windows) = NWin
  BY <1>1, SeqDef, IsASeq, LenProperties
<1> HIDE DEF H
<1>4. Reported \in Seq(H) /\ Len(Reported) = NWin + 1
  BY <1>1, <1>2, <1>3, ConcatProperties DEF Reported
<1>5. \A i \in 1 .. Len(Reported) : Reported[i] = IF i <= 1 THEN <<hist>>[i] ELSE windows[i - 1]
  BY <1>2, <1>3, <1>4, ConcatProperties DEF Reported
<1>6. Reported[1] = hist /\ \A j \in 2 .. NWin + 1 : Reported[j] = windows[j - 1]
  BY <1>1, <1>2, <1>4, <1>5
<1>7. ASSUME NEW s \in Stage
      PROVE  HistOf(s) = Reported[HistNo(s)] /\ HistOf(s) \in H
  <2>1. HistOf(s) = Reported[HistNo(s)]
    BY DEF HistOf
  <2> QED BY <1>4, <2>1, StageFacts, ElementOfSeq
<1> QED BY <1>4, <1>6, <1>7 DEF H

-----------------------------------------------------------------------------
(* Types.                                                                  *)

LEMMA TypeInit == Init => TypeInv
<1> SUFFICES ASSUME Init PROVE TypeInv
  OBVIOUS
<1>1. /\ NBuckets \in Nat \ {0} /\ NWin \in Nat \ {0}
      /\ Ring \in Nat \ {0} /\ Start \in Start .. MaxClock
  BY HistogramConstants, LoadGenGoConstants, NWinType DEF Start, Deadline
<1>2. Hist0 \in [Bucket -> Nat]
  BY DEF Hist0
<1>3. <<>> \in Seq(Frame) /\ <<>> \in Seq(Nat) /\ <<>> \in Seq([Bucket -> Nat]) /\ Len(<<>>) = 0
  OBVIOUS
<1>4. 0 \in Stage /\ First(0) = 1
  BY <1>1 DEF Stage, First, Windowed
<1>5. TypeOK
  BY <1>1, <1>2, <1>3, <1>4 DEF Init, TypeOK, Stage
<1>6. Len(Asked(0)) \in Nat \ {0}
  BY <1>4, StageFacts
<1>7. AtMain
  BY <1>1, <1>3, <1>4, <1>6 DEF Init, AtMain
<1>8. Filled
  BY <1>1, <1>3, <1>4 DEF Init, Filled, Stage
<1> QED BY <1>5, <1>7, <1>8 DEF TypeInv

(* The slot of a number is one of the ring.                                *)
LEMMA SlotType ==
    ASSUME NEW n \in Nat
    PROVE  Slot(n) \in 0 .. Ring - 1
<1>1. Ring \in Nat \ {0}
  BY LoadGenGoConstants
<1> QED BY <1>1, Quotient DEF Slot

LEMMA ClockType ==
    ASSUME TypeInv
    PROVE  /\ now \in Nat /\ now - Start \in Nat /\ Period \in Nat /\ TypeOK
           /\ UnixNano \in Nat
<1>1. MaxClock \in Nat /\ Period \in Nat /\ Offsets \in SUBSET Nat
  BY LoadGenGoConstants
<1>2. now \in Nat /\ ahead \in Nat
  BY <1>1 DEF TypeInv, TypeOK, Start
<1> QED BY <1>1, <1>2 DEF TypeInv, TypeOK, Start, UnixNano

LEMMA TypeSender ==
    ASSUME TypeInv, NEW c \in Conn, Sender(c)
    PROVE  TypeInv'
<1> USE DEF TypeInv, AtMain, Filled
<1>0. now \in Nat /\ Period \in Nat /\ UnixNano \in Nat /\ TypeOK
  BY ClockType
<1>1. CASE Dial(c)
  BY <1>0, <1>1 DEF Dial, TypeOK, ticker, reader, results, main
<1>2. CASE DialError(c)
  BY <1>0, <1>2 DEF DialError, Return, TypeOK, reader, results, main
<1>3. CASE SendJoin(c)
  BY <1>0, <1>3 DEF SendJoin, TypeOK, ticker, reader, net, results, main
<1>4. CASE Await(c)
  <2>1. wire' \in [Conn -> Seq(Frame)]
    <3>1. Tail(wire[c]) \in Seq(Frame)
      BY <1>4, HeadTailProperties DEF Await, TypeOK
    <3> QED BY <1>4, <3>1 DEF Await, TypeOK
  <2>2. pc' \in [Conn -> {"dial", "join", "await", "loop", "write", "done"}]
        /\ rpc' \in [Conn -> {"off", "read", "lookup", "gate", "window", "count", "end"}]
        /\ due' \in [Conn -> Nat]
    <3>1. now + Period \in Nat
      BY <1>0
    <3>2. CASE Head(wire[c]).type = "JOINED"
      <4>1. /\ pc' = [pc EXCEPT ![c] = "loop"] /\ rpc' = [rpc EXCEPT ![c] = "read"]
            /\ due' = [due EXCEPT ![c] = now + Period]
        BY <1>4, <3>2 DEF Await
      <4> QED BY <1>0, <3>1, <4>1 DEF TypeOK
    <3>3. CASE Head(wire[c]).type # "JOINED"
      BY <1>0, <1>4, <3>3 DEF Await, TypeOK
    <3> QED BY <3>2, <3>3
  <2> QED BY <1>4, <2>1, <2>2 DEF Await, TypeOK, results, main
<1>5. CASE SocketError(c)
  BY <1>0, <1>5 DEF SocketError, Return, TypeOK, reader, results, main
<1>6. CASE Tick(c)
  <2>0. seq[c] + 1 \in Nat
    BY <1>0 DEF TypeOK
  <2>1. seq[c] + 1 \in Nat /\ Slot(seq[c] + 1) \in 0 .. Ring - 1
    BY <2>0, SlotType
  <2> DEFINE n == Slot(seq[c] + 1)
  <2>2. sendAt' = [sendAt EXCEPT ![c][n] = UnixNano] /\ n \in 0 .. Ring - 1
    BY <1>6, <2>1 DEF Tick, NextMove
  <2> HIDE DEF n
  <2>3. sendAt' \in [Conn -> [0 .. Ring - 1 -> Nat]]
    BY <1>0, <2>2 DEF TypeOK
  <2>5. seq' \in [Conn -> Nat] /\ tick' \in [Conn -> Nat] /\ ch' \in [Conn -> Nat]
        /\ pc' \in [Conn -> {"dial", "join", "await", "loop", "write", "done"}]
    BY <1>0, <1>6, <2>1 DEF Tick, NextMove, TypeOK
  <2> QED BY <1>6, <2>3, <2>5 DEF Tick, TypeOK, reader, net, results, main
<1>7. CASE Finish(c)
  BY <1>0, <1>7 DEF Finish, Return, TypeOK, reader, results, main
<1>8. CASE Write(c)
  <2>1. got' \in [Conn -> Nat] /\ movesSent' \in Nat /\ movesMeasured' \in Nat
        /\ pc' \in [Conn -> {"dial", "join", "await", "loop", "write", "done"}]
    <3>1. /\ got \in [Conn -> Nat] /\ seq \in [Conn -> Nat]
          /\ movesSent \in Nat /\ movesMeasured \in Nat
          /\ pc \in [Conn -> {"dial", "join", "await", "loop", "write", "done"}]
      BY DEF TypeOK
    <3> HIDE DEF TypeInv, AtMain, Filled
    <3> QED BY <1>8, <3>1 DEF Write
  <2> QED BY <1>8, <2>1 DEF Write, TypeOK, ticker, reader, results, main
<1> QED BY <1>1, <1>2, <1>3, <1>4, <1>5, <1>6, <1>7, <1>8 DEF Sender

LEMMA TypeReader ==
    ASSUME TypeInv, NEW c \in Conn, Reader(c)
    PROVE  TypeInv'
<1> USE DEF TypeInv, AtMain, Filled
<1>0. now \in Nat /\ now - Start \in Nat /\ UnixNano \in Nat /\ TypeOK
  BY ClockType
<1>1. CASE ReadFrame(c)
  <2>1. Tail(wire[c]) \in Seq(Frame) /\ Head(wire[c]) \in Frame
    BY <1>1, HeadTailProperties DEF ReadFrame, TypeOK
  <2>2. Head(wire[c]).seq \in Nat
    BY <2>1 DEF Frame
  <2>3. wire' \in [Conn -> Seq(Frame)] /\ lastSeq' \in [Conn -> Nat]
        /\ rpc' \in [Conn -> {"off", "read", "lookup", "gate", "window", "count", "end"}]
    BY <1>1, <2>1, <2>2 DEF ReadFrame, TypeOK
  <2> QED BY <1>1, <2>3 DEF ReadFrame, TypeOK, sender, ticker, results, main
<1>2. CASE ReadError(c)
  BY <1>0, <1>2 DEF ReadError, TypeOK, sender, ticker, net, results, main
<1>3. CASE Lookup(c)
  <2> DEFINE st == sendAt[c][Slot(lastSeq[c])]
  <2>1. Slot(lastSeq[c]) \in 0 .. Ring - 1
    BY SlotType DEF TypeOK
  <2>2. st \in Nat
    <3>1. sendAt[c] \in [0 .. Ring - 1 -> Nat]
      BY <1>0 DEF TypeOK
    <3> HIDE DEF TypeInv, AtMain, Filled
    <3> QED BY <2>1, <3>1
  <2>3. /\ us' = [us EXCEPT ![c] = UnixNano - st]
        /\ rpc' = [rpc EXCEPT ![c] = IF st # 0 THEN "gate" ELSE "read"]
    BY <1>3 DEF Lookup
  <2> HIDE DEF st
  <2>4. /\ us' \in [Conn -> Int]
        /\ \A d \in Conn : rpc'[d] \in {"window", "count"} => us'[d] > 0
    <3>1. UnixNano - st \in Int
      BY <1>0, <2>2
    <3> QED BY <2>3, <3>1 DEF TypeOK
  <2>5. rpc' \in [Conn -> {"off", "read", "lookup", "gate", "window", "count", "end"}]
    BY <2>3 DEF TypeOK
  <2> QED BY <1>3, <2>4, <2>5 DEF Lookup, TypeOK, sender, ticker, net, results, main
<1>4. CASE Gate(c)
  <2>1. hist' \in [Bucket -> Nat]
    BY <1>4, RecordFacts DEF Gate, TypeOK
  <2>2. since' \in [Conn -> Nat]
        /\ rpc' \in [Conn -> {"off", "read", "lookup", "gate", "window", "count", "end"}]
    BY <1>0, <1>4 DEF Gate, TypeOK
  <2>3. \A d \in Conn : rpc'[d] \in {"window", "count"} => us'[d] > 0
    BY <1>0, <1>4 DEF Gate, TypeOK
  <2> QED BY <1>4, <2>1, <2>2, <2>3 DEF Gate, TypeOK, sender, ticker, net, main
<1>5. CASE Skip(c)
  BY <1>0, <1>5 DEF Skip, TypeOK, sender, ticker, net, results, main
<1>6. CASE RecordWindow(c)
  <2> DEFINE w == WindowOf(since[c]) + 1
  <2>1. windows' \in [1 .. NWin -> [Bucket -> Nat]]
    <3>1. CASE w \in 1 .. NWin
      <4>1. windows' = [windows EXCEPT ![w] = Record(windows[w], us[c])]
        BY <1>6, <3>1 DEF RecordWindow
      <4>2. Record(windows[w], us[c]) \in [Bucket -> Nat]
        BY <3>1, RecordFacts DEF TypeOK
      <4> HIDE DEF w
      <4> QED BY <3>1, <4>1, <4>2 DEF TypeOK
    <3>2. CASE w \notin 1 .. NWin
      BY <1>6, <3>2 DEF RecordWindow, TypeOK
    <3> QED BY <3>1, <3>2
  <2>2. rpc' \in [Conn -> {"off", "read", "lookup", "gate", "window", "count", "end"}]
    BY <1>6 DEF RecordWindow, TypeOK
  <2> QED BY <1>6, <2>1, <2>2 DEF RecordWindow, TypeOK, sender, ticker, net, main
<1>7. CASE CountMeasured(c)
  <2>1. measured' \in Nat
        /\ rpc' \in [Conn -> {"off", "read", "lookup", "gate", "window", "count", "end"}]
    BY <1>7 DEF CountMeasured, TypeOK
  <2> QED BY <1>7, <2>1 DEF CountMeasured, TypeOK, sender, ticker, net, main
<1> QED BY <1>1, <1>2, <1>3, <1>4, <1>5, <1>6, <1>7 DEF Reader

LEMMA TypeServer ==
    ASSUME TypeInv, NEW c \in Conn, Server(c)
    PROVE  TypeInv'
<1> USE DEF TypeInv, AtMain, Filled
<1>1. CASE Answer(c)
  <2>1. [type |-> "JOINED", seq |-> 0] \in Frame
    BY DEF Frame
  <2>2. wire' \in [Conn -> Seq(Frame)]
    BY <1>1, <2>1 DEF Answer, TypeOK
  <2> QED BY <1>1, <2>2 DEF Answer, TypeOK, sender, ticker, reader, results, main
<1>2. CASE Push(c)
  <2>1. PICK n \in echoed[c] .. got[c] :
            /\ echoed' = [echoed EXCEPT ![c] = n]
            /\ wire' = [wire EXCEPT ![c] = Append(@, [type |-> "SNAPSHOT", seq |-> n])]
    BY <1>2 DEF Push
  <2>2. n \in Nat
    BY <2>1 DEF TypeOK
  <2>3. [type |-> "SNAPSHOT", seq |-> n] \in Frame
    BY <2>2 DEF Frame
  <2>4. echoed' \in [Conn -> Nat] /\ wire' \in [Conn -> Seq(Frame)] /\ snaps' \in [Conn -> Nat]
    <3>1. Append(wire[c], [type |-> "SNAPSHOT", seq |-> n]) \in Seq(Frame)
      BY <2>3, AppendProperties DEF TypeOK
    <3>2. wire' = [wire EXCEPT ![c] = Append(wire[c], [type |-> "SNAPSHOT", seq |-> n])]
      BY <2>1
    <3>3. wire' \in [Conn -> Seq(Frame)]
      BY <3>1, <3>2 DEF TypeOK
    <3>4. snaps' \in [Conn -> Nat]
      <4>1. snaps' = [snaps EXCEPT ![c] = snaps[c] + 1]
        BY <1>2 DEF Push
      <4>2. snaps \in [Conn -> Nat]
        BY DEF TypeOK
      <4>3. snaps[c] + 1 \in Nat
        BY <4>2
      <4> QED BY <4>1, <4>2, <4>3
    <3> QED BY <2>1, <2>2, <3>3, <3>4 DEF TypeOK
  <2> QED BY <1>2, <2>4 DEF Push, TypeOK, sender, ticker, reader, results, main
<1>3. CASE HangUp(c)
  BY <1>3 DEF HangUp, TypeOK, sender, ticker, reader, results, main
<1> QED BY <1>1, <1>2, <1>3 DEF Server

(* main turns to its next call.                                            *)
LEMMA NextCallFacts ==
    ASSUME TypeInv, mpc \in {"total", "scan"},
           NextStage \/ NextCall
    PROVE  /\ mpc' \in {"total", "done"} /\ stage' \in 0 .. NWin + 2 /\ call' \in Nat
           /\ idx' = 0 /\ acc' = 0 /\ AtMain'
           /\ \/ NextStage /\ stage' = stage + 1 /\ call' \in {0, 1}
              \/ stage' = stage /\ call' = call + 1
<1>1. NWin \in Nat \ {0} /\ NBuckets \in Nat \ {0}
  BY NWinType, HistogramConstants
<1>2. stage \in Stage /\ call \in Nat
  BY DEF TypeInv, TypeOK, AtMain
<1>3. stage \in Nat /\ stage <= NWin + 1 /\ Len(Asked(stage)) \in Nat
      /\ call >= First(stage) /\ First(stage) \in {0, 1}
  BY <1>1, <1>2, StageFacts DEF Stage, TypeInv, AtMain
<1>4. CASE NextStage
  <2>1. /\ stage' = stage + 1 /\ call' = First(stage + 1) /\ idx' = 0 /\ acc' = 0
        /\ mpc' = IF stage = NWin + 1 THEN "done" ELSE "total"
    BY <1>4 DEF NextStage
  <2>2. call' \in {0, 1}
    BY <2>1 DEF First
  <2>3. ASSUME mpc' # "done"
        PROVE  stage' \in Stage /\ call' \in First(stage') .. Len(Asked(stage'))
    <3>1. stage' \in Stage
      BY <1>1, <1>3, <2>1, <2>3 DEF Stage
    <3>2. Len(Asked(stage')) \in Nat \ {0} /\ First(stage') \in {0, 1} /\ call' = First(stage')
      BY <2>1, <3>1, StageFacts
    <3> QED BY <3>1, <3>2
  <2>4. mpc' \in {"total", "done"} /\ stage' \in 0 .. NWin + 2 /\ call' \in Nat
    BY <1>1, <1>3, <2>1, <2>2
  <2>5. AtMain'
    BY <2>3, <2>4 DEF AtMain
  <2> QED BY <1>4, <2>1, <2>2, <2>4, <2>5
<1>5. CASE ~ NextStage
  <2>1. /\ call < Len(Asked(stage)) /\ call' = call + 1 /\ mpc' = "total" /\ idx' = 0
        /\ acc' = 0 /\ stage' = stage
    BY <1>5 DEF NextCall
  <2>2. call' \in First(stage) .. Len(Asked(stage))
    BY <1>2, <1>3, <2>1
  <2>3. AtMain'
    BY <1>2, <2>1, <2>2 DEF AtMain
  <2> QED BY <1>1, <1>2, <1>3, <2>1, <2>3
<1> QED BY <1>4, <1>5

(* A call without a result, and one with: what the report holds.           *)
LEMMA TypeSilent ==
    ASSUME TypeInv, mpc = "total", call = 0, report' = report, NextStage \/ NextCall
    PROVE  report' \in [Stage -> Seq(Nat)] /\ Filled'
<1>1. NWin \in Nat \ {0} /\ stage \in Stage /\ stage \in Nat
  BY NWinType DEF TypeInv, AtMain, TypeOK
<1>2. \/ stage' = stage + 1 /\ call' \in {0, 1}
      \/ stage' = stage /\ call' = 1
  BY NextCallFacts
<1>3. \A s \in Stage : s >= stage => Len(report[s]) = 0
  BY <1>1 DEF TypeInv, Filled, Stage
<1>4. Filled'
  BY <1>1, <1>2, <1>3 DEF Filled, Stage
<1> QED BY <1>4 DEF TypeInv, TypeOK

LEMMA TypeResult ==
    ASSUME TypeInv, NEW val \in Nat, Result(val), mpc \in {"total", "scan"}, call # 0
    PROVE  /\ report' \in [Stage -> Seq(Nat)] /\ Filled'
           /\ stage \in Stage /\ Len(report'[stage]) = call /\ report'[stage][call] = val
           /\ \A i \in 1 .. call - 1 : report'[stage][i] = report[stage][i]
           /\ \A s \in Stage : s # stage => report'[s] = report[s]
<1>1. /\ NWin \in Nat \ {0} /\ stage \in Stage /\ stage \in Nat /\ call \in Nat \ {0}
      /\ report \in [Stage -> Seq(Nat)]
  BY NWinType DEF TypeInv, AtMain, TypeOK
<1>2. report[stage] \in Seq(Nat) /\ Len(report[stage]) = call - 1
  BY <1>1 DEF TypeInv, Filled
<1> DEFINE q == Append(report[stage], val)
<1>3. /\ q \in Seq(Nat) /\ Len(q) = call /\ q[call] = val
      /\ \A i \in 1 .. call - 1 : q[i] = report[stage][i]
  BY <1>1, <1>2, AppendProperties
<1>4. report' = [report EXCEPT ![stage] = q]
  BY DEF Result
<1> HIDE DEF q
<1>5. report' \in [Stage -> Seq(Nat)] /\ report'[stage] = q
      /\ \A s \in Stage : s # stage => report'[s] = report[s]
  BY <1>1, <1>3, <1>4
<1>6. \/ stage' = stage + 1 /\ call' \in {0, 1}
      \/ stage' = stage /\ call' = call + 1
  BY NextCallFacts DEF Result
<1>7. Filled'
  <2> SUFFICES ASSUME NEW s \in Stage
               PROVE  /\ s > stage' => Len(report'[s]) = 0
                      /\ s = stage' => Len(report'[s]) = IF call' = 0 THEN 0 ELSE call' - 1
    BY DEF Filled
  <2>1. s \in Nat /\ (s > stage => Len(report[s]) = 0)
    BY <1>1 DEF Stage, TypeInv, Filled
  <2>2. CASE s = stage
    BY <1>1, <1>3, <1>5, <1>6, <2>2
  <2>3. CASE s # stage
    BY <1>1, <1>5, <1>6, <2>1, <2>3
  <2> QED BY <2>2, <2>3
<1> QED BY <1>1, <1>3, <1>5, <1>7

LEMMA TypeMain ==
    ASSUME TypeInv, Main
    PROVE  TypeInv'
<1>0. /\ NBuckets \in Nat \ {0} /\ NWin \in Nat \ {0} /\ TypeOK /\ AtMain /\ Filled
      /\ Reported \in Seq([Bucket -> Nat]) /\ Bucket = 0 .. NBuckets - 1
  BY HistogramConstants, NWinType, ReportedFacts DEF TypeInv, TypeOK, Bucket
<1>1. /\ UNCHANGED clock
      /\ UNCHANGED <<sender, ticker, reader, net, results>>
  BY DEF Main, Wake, AddBucket, LeaveOut, TakeIn, Empty, SetTarget, Scan
<1>2. ASSUME mpc \in {"total", "scan"}
      PROVE  /\ stage \in Stage /\ HistOf(stage) \in [Bucket -> Nat]
             /\ call # 0 => Asked(stage)[call] \in Nat \X (Nat \ {0})
  <2>1. stage \in Stage /\ call \in First(stage) .. Len(Asked(stage))
    BY <1>0, <1>2 DEF AtMain
  <2>2. First(stage) \in {0, 1} /\ Len(Asked(stage)) \in Nat
    BY <2>1, StageFacts
  <2>3. call # 0 => call \in 1 .. Len(Asked(stage))
    BY <2>1, <2>2
  <2> QED BY <1>0, <2>1, <2>3, ReportedFacts, StageFacts DEF TypeOK
<1>3. /\ mpc' \in {"wait", "total", "scan", "done"}
      /\ stage' \in 0 .. NWin + 2 /\ call' \in Nat /\ idx' \in 0 .. NBuckets
      /\ acc' \in Nat /\ target' \in Nat /\ me' \in Nat
      /\ report' \in [Stage -> Seq(Nat)]
      /\ atWait' \in Seq([Bucket -> Nat])
      /\ AtMain' /\ Filled'
  <2>1. CASE Wake
    BY <1>0, <2>1 DEF Wake, TypeOK, AtMain, Filled
  <2>3. CASE AddBucket
    <3>1. HistOf(stage) \in [Bucket -> Nat] /\ idx \in Bucket /\ idx + 1 \in 0 .. NBuckets
      <4>1. mpc = "total" /\ idx < NBuckets /\ idx \in 0 .. NBuckets
        BY <1>0, <2>3 DEF AddBucket, TypeOK
      <4>2. HistOf(stage) \in [Bucket -> Nat]
        BY <1>2, <4>1
      <4>3. idx \in Bucket /\ idx + 1 \in 0 .. NBuckets
        BY <1>0, <4>1
      <4> QED BY <4>2, <4>3
    <3>2. HistOf(stage)[idx] \in Nat
      BY <3>1
    <3>3. acc + HistOf(stage)[idx] \in Nat
      BY <1>0, <3>2 DEF TypeOK
    <3>4. /\ acc' = acc + HistOf(stage)[idx] /\ idx' = idx + 1 /\ mpc = "total"
          /\ UNCHANGED <<mpc, stage, call, target, report, me, atWait>>
      BY <2>3 DEF AddBucket
    <3>5. AtMain' /\ Filled'
      BY <1>0, <3>4 DEF AtMain, Filled
    <3> QED BY <1>0, <3>1, <3>3, <3>4, <3>5 DEF TypeOK
  <2>4. CASE Empty
    <3>1. /\ Result(0) /\ target' = target /\ mpc = "total" /\ call # 0 /\ me' = me
          /\ atWait' = atWait
      BY <2>4 DEF Empty
    <3>2. report' \in [Stage -> Seq(Nat)] /\ Filled'
      BY <3>1, TypeResult
    <3> QED BY <1>0, <3>1, <3>2, NextCallFacts DEF TypeOK, Result
  <2>5. CASE LeaveOut \/ TakeIn
    <3>1. /\ NextStage \/ NextCall
          /\ target' = target /\ mpc = "total" /\ call = 0 /\ me' = me
          /\ atWait' = atWait /\ report' = report
      BY <2>5 DEF LeaveOut, TakeIn
    <3>2. report' \in [Stage -> Seq(Nat)] /\ Filled'
      BY <3>1, TypeSilent
    <3> QED BY <1>0, <3>1, <3>2, NextCallFacts DEF TypeOK
  <2>6. CASE SetTarget
    <3>1. Asked(stage)[call] \in Nat \X (Nat \ {0})
      BY <1>2, <2>6 DEF SetTarget
    <3>2. Target(Asked(stage)[call], acc) \in Nat
      BY <1>0, <3>1, TargetFacts DEF TypeOK
    <3> QED BY <1>0, <2>6, <3>2 DEF SetTarget, TypeOK, AtMain, Filled
  <2>7. CASE Scan
    <3> DEFINE c == acc + HistOf(stage)[idx]
    <3>0. idx \in Bucket /\ call # 0 /\ mpc = "scan"
      BY <1>0, <2>7 DEF Scan, TypeOK, AtMain
    <3>1. c \in Nat /\ ValFor(idx) \in Nat
      <4>1. HistOf(stage) \in [Bucket -> Nat] /\ acc \in Nat
        BY <1>0, <1>2, <3>0 DEF TypeOK
      <4>2. HistOf(stage)[idx] \in Nat
        BY <3>0, <4>1
      <4> QED BY <3>0, <4>1, <4>2, BucketFacts
    <3>2. CASE c >= target \/ idx = NBuckets - 1
      <4>1. Result(ValFor(idx)) /\ target' = target /\ me' = me /\ atWait' = atWait
        BY <2>7, <3>2 DEF Scan
      <4>2. report' \in [Stage -> Seq(Nat)] /\ Filled'
        BY <3>0, <3>1, <4>1, TypeResult
      <4>3. /\ mpc' \in {"total", "done"} /\ stage' \in 0 .. NWin + 2 /\ call' \in Nat
            /\ idx' = 0 /\ acc' = 0 /\ AtMain'
        BY <3>0, <4>1, NextCallFacts DEF Result
      <4> HIDE DEF c
      <4> QED BY <1>0, <4>1, <4>2, <4>3 DEF TypeOK
    <3>3. CASE ~ (c >= target \/ idx = NBuckets - 1)
      <4>1. /\ acc' = c /\ idx' = idx + 1 /\ report' = report /\ stage' = stage /\ call' = call
            /\ mpc' = mpc /\ target' = target /\ me' = me /\ atWait' = atWait
        BY <2>7, <3>3 DEF Scan
      <4> HIDE DEF c
      <4> QED BY <1>0, <3>0, <3>1, <3>3, <4>1 DEF TypeOK, AtMain, Filled
    <3> QED BY <3>2, <3>3
  <2> QED BY <2>1, <2>3, <2>4, <2>5, <2>6, <2>7 DEF Main
<1> QED BY <1>0, <1>1, <1>3 DEF TypeInv, TypeOK, sender, ticker, reader, net, results

LEMMA AdvanceFacts ==
    ASSUME TypeInv, Advance
    PROVE  now' \in Start .. MaxClock /\ now <= now'
<1>1. MaxClock \in Nat /\ now \in Nat /\ now <= MaxClock /\ now >= Start
  BY LoadGenGoConstants DEF TypeInv, TypeOK, Start
<1> DEFINE S == {now + 1, MaxClock}
<1>2. S \in SUBSET Nat /\ S # {}
  BY <1>1
<1>3. Min(S) \in S /\ Min(S) <= MaxClock
  BY <1>2, MinFacts
<1> QED BY <1>1, <1>3 DEF Advance, Start

LEMMA TypeAdvance ==
    ASSUME TypeInv, Advance
    PROVE  TypeInv'
<1>1. now' \in Start .. MaxClock /\ now <= now'
  BY AdvanceFacts
<1>2. now \in Nat /\ now' \in Nat /\ Period \in Nat /\ TypeOK
  BY <1>1, ClockType, LoadGenGoConstants DEF Start
<1> DEFINE fired == {c \in Conn : due[c] # 0 /\ (now' = due[c] \/ now' = MaxClock)}
<1>2a. /\ ch' = [c \in Conn |-> IF c \in fired /\ ch[c] = 0 THEN now' ELSE ch[c]]
      /\ due' = [c \in Conn |-> IF c \in fired /\ now' < MaxClock THEN now' + Period ELSE due[c]]
  BY DEF Advance
<1>2b. ch \in [Conn -> Nat] /\ due \in [Conn -> Nat]
  BY <1>2 DEF TypeOK
<1> HIDE DEF fired
<1>3. ch' \in [Conn -> Nat]
  BY <1>2, <1>2a, <1>2b
<1>4. due' \in [Conn -> Nat]
  <2>0. \A t, d \in Nat : t + d \in Nat
    OBVIOUS
  <2>1. now' + Period \in Nat
    BY <1>2, <2>0
  <2>2. \A c \in Conn : (IF c \in fired /\ now' < MaxClock THEN now' + Period ELSE due[c]) \in Nat
    BY <2>1, <1>2b
  <2> QED BY <2>2, <1>2a
<1>5. TypeOK'
  BY <1>1, <1>2, <1>3, <1>4 DEF Advance, TypeOK, sender, reader, net, results, main
<1>6. AtMain' /\ Filled'
  BY DEF Advance, TypeInv, AtMain, Filled, main
<1> QED BY <1>5, <1>6 DEF TypeInv

LEMMA TypeSetClock == ASSUME TypeInv, SetClock PROVE TypeInv'
BY DEF SetClock, TypeInv, TypeOK, AtMain, Filled, sender, ticker, reader, net, results, main

LEMMA TypeStep == TypeInv /\ [Next]_vars => TypeInv'
<1>1. ASSUME TypeInv, UNCHANGED vars PROVE TypeInv'
  BY <1>1 DEF TypeInv, TypeOK, AtMain, Filled, vars, sender, ticker, reader, net, results, main
<1> QED BY <1>1, TypeSender, TypeReader, TypeServer, TypeMain, TypeAdvance, TypeSetClock DEF Next

(* The program's variables keep their types: only latencies above 0 are    *)
(* recorded, however the wall clock is set, and main's scans stay inside   *)
(* the histograms.                                                         *)
THEOREM LoadGoTypes == Spec => []TypeOK
<1>1. TypeInv => TypeOK
  BY DEF TypeInv
<1> QED BY <1>1, TypeInit, TypeStep, PTL DEF Spec

-----------------------------------------------------------------------------
(* What main may miss.                                                     *)

(* Two sets of connections that differ in c at most.                       *)
LEMMA Differ ==
    ASSUME NEW A \in SUBSET Conn, NEW B \in SUBSET Conn, NEW c \in Conn,
           \A d \in Conn : d # c => (d \in A <=> d \in B)
    PROVE  /\ Cardinality(A) \in Nat /\ Cardinality(B) \in Nat
           /\ (c \in A <=> c \in B) => Cardinality(A) = Cardinality(B)
           /\ c \in A /\ c \notin B => Cardinality(A) = Cardinality(B) + 1
           /\ c \notin A /\ c \in B => Cardinality(B) = Cardinality(A) + 1
<1>1. IsFiniteSet(Conn)
  BY LoadGenGoConstants
<1>2. IsFiniteSet(A) /\ IsFiniteSet(B)
  BY <1>1, FS_Subset
<1>3. Cardinality(A) \in Nat /\ Cardinality(B) \in Nat
  BY <1>2, FS_CardinalityType
<1>4. (c \in A <=> c \in B) => A = B
  OBVIOUS
<1>5. ASSUME c \in A, c \notin B PROVE Cardinality(A) = Cardinality(B) + 1
  <2>1. A = B \cup {c}
    BY <1>5
  <2> QED BY <1>2, <1>5, <2>1, FS_AddElement
<1>6. ASSUME c \notin A, c \in B PROVE Cardinality(B) = Cardinality(A) + 1
  <2>1. B = A \cup {c}
    BY <1>6
  <2> QED BY <1>2, <1>6, <2>1, FS_AddElement
<1> QED BY <1>3, <1>4, <1>5, <1>6

LEMMA TotalType ==
    ASSUME NEW h \in [Bucket -> Nat]
    PROVE  Total(h) \in Nat
BY SumType, BucketFacts DEF Total

LEMMA ReadersType ==
    /\ Recorded \in SUBSET Conn /\ Coming \in SUBSET Conn /\ Recorded \cap Coming = {}
    /\ Cardinality(Recorded) \in Nat /\ Cardinality(Coming) \in Nat /\ Cardinality(Conn) \in Nat
    /\ Cardinality(Recorded) + Cardinality(Coming) <= Cardinality(Conn)
<1>1. Recorded \in SUBSET Conn /\ Coming \in SUBSET Conn /\ Recorded \cap Coming = {}
  BY DEF Recorded, Coming
<1>2. IsFiniteSet(Conn)
  BY LoadGenGoConstants
<1>3. IsFiniteSet(Recorded) /\ IsFiniteSet(Coming)
  BY <1>1, <1>2, FS_Subset
<1>4. /\ Cardinality(Recorded) \in Nat /\ Cardinality(Coming) \in Nat
      /\ Cardinality(Conn) \in Nat /\ Cardinality({}) = 0
  BY <1>2, <1>3, FS_CardinalityType, FS_EmptySet
<1>5. Cardinality(Recorded \cup Coming) = Cardinality(Recorded) + Cardinality(Coming) - Cardinality(Recorded \cap Coming)
  BY <1>3, FS_Union
<1>6. Cardinality(Recorded \cup Coming) <= Cardinality(Conn)
  BY <1>1, <1>2, FS_Subset
<1>7. Cardinality(Recorded \cap Coming) = 0
  BY <1>1, <1>4
<1> QED BY <1>1, <1>4, <1>5, <1>6, <1>7

LEMMA LateInit == Init => LateInv
<1> SUFFICES ASSUME Init PROVE LateInv
  OBVIOUS
<1>1. Recorded = {}
  BY DEF Init, Recorded
<1>2. Total(hist) = 0
  <2>1. \A b \in Bucket : hist[b] = 0
    BY DEF Init, Hist0
  <2>2. Counted(hist, Bucket) = {}
    BY <2>1, InCounted
  <2> QED BY <2>2, FS_EmptySet DEF Total, Sum
<1>3. Unread /\ Closed /\ Late
  BY DEF Init, Unread, Closed, Late
<1> QED BY <1>1, <1>2, <1>3, FS_EmptySet DEF LateInv, Tally, Init

LEMMA LateSender ==
    ASSUME TypeInv, LateInv, NEW c \in Conn, Sender(c)
    PROVE  LateInv'
<1>1. pc[c] # "done" /\ mpc = "wait" /\ UNCHANGED <<hist, measured, mpc>>
  <2>1. pc[c] # "done"
    BY DEF Sender, Dial, DialError, SendJoin, Await, SocketError, Tick, Finish, Write
  <2>2. UNCHANGED <<hist, measured, mpc>>
    BY DEF Sender, Dial, DialError, SendJoin, Await, SocketError, Tick, Finish, Write, results, main
  <2> QED BY <2>1, <2>2 DEF LateInv, Late
<1>2. Late'
  BY <1>1 DEF Late
<1>3. Closed'
  BY DEF LateInv, Closed, TypeInv, TypeOK, Sender, Dial, DialError, SendJoin, Await, SocketError,
         Tick, Finish, Write, Return, net
<1>4. rpc' = rpc \/ (Await(c) /\ rpc' = [rpc EXCEPT ![c] = "read"] /\ pc' = [pc EXCEPT ![c] = "loop"])
  BY DEF Sender, Dial, DialError, SendJoin, Await, SocketError, Tick, Finish, Write, reader
<1>5. Recorded' = Recorded
  <2>1. CASE rpc' = rpc
    BY <2>1 DEF Recorded
  <2>2. CASE Await(c) /\ rpc' = [rpc EXCEPT ![c] = "read"]
    BY <2>2 DEF Recorded, LateInv, Unread, Await, TypeInv, TypeOK
  <2> QED BY <1>4, <2>1, <2>2
<1>6. Unread'
  <2>1. CASE rpc' = rpc
    <3>1. \A d \in Conn : pc'[d] \in {"dial", "join", "await"} => pc[d] \in {"dial", "join", "await"}
      BY DEF TypeInv, TypeOK, Sender, Dial, DialError, SendJoin, Await, SocketError, Tick, Finish, Write, Return
    <3> QED BY <2>1, <3>1 DEF LateInv, Unread
  <2>2. CASE rpc' = [rpc EXCEPT ![c] = "read"] /\ pc' = [pc EXCEPT ![c] = "loop"]
    BY <2>2 DEF LateInv, Unread, TypeInv, TypeOK
  <2> QED BY <1>4, <2>1, <2>2
<1> QED BY <1>1, <1>2, <1>3, <1>5, <1>6 DEF LateInv, Tally

(* A step of a reader: its place changes, and what it records and counts.  *)
LEMMA ReaderMoves ==
    ASSUME TypeInv, NEW c \in Conn, Reader(c)
    PROVE  /\ rpc[c] # "off" /\ \A d \in Conn : d # c => rpc'[d] = rpc[d]
           /\ UNCHANGED <<pc, sock, main>>
           /\ \/ /\ rpc[c] = "read" /\ rpc'[c] \in {"read", "end"} /\ UNCHANGED results
              \/ /\ rpc[c] = "read" /\ rpc'[c] = "lookup" /\ UNCHANGED results /\ sock[c] # "closed"
              \/ /\ rpc[c] = "lookup" /\ rpc'[c] \in {"gate", "read"} /\ UNCHANGED results
              \/ /\ rpc[c] = "gate" /\ rpc'[c] = "read" /\ UNCHANGED results
              \/ /\ rpc[c] = "gate" /\ rpc'[c] = "window"
                 /\ hist' = Record(hist, us[c]) /\ UNCHANGED <<windows, measured>>
              \/ /\ rpc[c] = "window" /\ rpc'[c] = "count" /\ UNCHANGED <<hist, measured>>
              \/ /\ rpc[c] = "count" /\ rpc'[c] = "read"
                 /\ measured' = measured + 1 /\ UNCHANGED <<hist, windows>>
<1> USE DEF TypeInv, TypeOK
<1>1. CASE ReadFrame(c)
  BY <1>1 DEF ReadFrame, sender, results
<1>2. CASE ReadError(c)
  BY <1>2 DEF ReadError, sender, net
<1>3. CASE Lookup(c)
  BY <1>3 DEF Lookup, sender, net
<1>4. CASE Gate(c)
  BY <1>4 DEF Gate, sender, net
<1>5. CASE Skip(c)
  BY <1>5 DEF Skip, sender, net
<1>6. CASE RecordWindow(c)
  BY <1>6 DEF RecordWindow, sender, net
<1>7. CASE CountMeasured(c)
  BY <1>7 DEF CountMeasured, sender, net
<1> QED BY <1>1, <1>2, <1>3, <1>4, <1>5, <1>6, <1>7 DEF Reader

LEMMA LateReader ==
    ASSUME TypeInv, LateInv, NEW c \in Conn, Reader(c)
    PROVE  LateInv'
<1>1. hist \in [Bucket -> Nat] /\ hist' \in [Bucket -> Nat] /\ measured \in Nat /\ me \in Nat
  BY TypeReader DEF TypeInv, TypeOK
<1>2. /\ Total(hist) \in Nat /\ Total(hist') \in Nat
      /\ Total(Record(hist, us[c])) = Total(hist) + 1
  BY <1>1, TotalType, RecordFacts
<1>3. Unread' /\ Closed'
  BY ReaderMoves DEF LateInv, Unread, Closed
<1>4. /\ Recorded' \in SUBSET Conn /\ Coming' \in SUBSET Conn
      /\ \A d \in Conn : d # c => (d \in Recorded' <=> d \in Recorded) /\ (d \in Coming' <=> d \in Coming)
      /\ c \in Recorded' <=> rpc'[c] \in {"window", "count"}
      /\ c \in Coming' <=> rpc'[c] \in {"lookup", "gate"}
      /\ c \in Recorded <=> rpc[c] \in {"window", "count"}
      /\ c \in Coming <=> rpc[c] \in {"lookup", "gate"}
  BY ReaderMoves DEF Recorded, Coming
<1>5. /\ Cardinality(Recorded') \in Nat /\ Cardinality(Recorded) \in Nat
      /\ (c \in Recorded' <=> c \in Recorded) => Cardinality(Recorded') = Cardinality(Recorded)
      /\ c \in Recorded' /\ c \notin Recorded => Cardinality(Recorded') = Cardinality(Recorded) + 1
      /\ c \notin Recorded' /\ c \in Recorded => Cardinality(Recorded) = Cardinality(Recorded') + 1
  BY <1>4, Differ, ReadersType
<1>6. /\ Cardinality(Coming') \in Nat /\ Cardinality(Coming) \in Nat
      /\ (c \in Coming' <=> c \in Coming) => Cardinality(Coming') = Cardinality(Coming)
      /\ c \in Coming' /\ c \notin Coming => Cardinality(Coming') = Cardinality(Coming) + 1
      /\ c \notin Coming' /\ c \in Coming => Cardinality(Coming) = Cardinality(Coming') + 1
  BY <1>4, Differ, ReadersType
<1>7. Tally'
  BY <1>1, <1>2, <1>4, <1>5, ReaderMoves DEF LateInv, Tally, results
<1>8. Late'
  <2> SUFFICES ASSUME mpc # "wait"
               PROVE  /\ \A d \in Conn : pc'[d] = "done"
                      /\ Total(hist') + Cardinality(Coming') <= me + Cardinality(Conn)
    BY ReaderMoves DEF Late, main
  <2>1. /\ \A d \in Conn : pc[d] = "done" /\ sock[d] = "closed"
        /\ Total(hist) + Cardinality(Coming) <= me + Cardinality(Conn) /\ Cardinality(Conn) \in Nat
    BY ReadersType DEF LateInv, Late, Closed
  <2>2. Total(hist') + Cardinality(Coming') <= Total(hist) + Cardinality(Coming)
    BY <1>1, <1>2, <1>4, <1>6, <2>1, ReaderMoves DEF results
  <2>3. \A d \in Conn : pc'[d] = "done"
    BY <2>1, ReaderMoves
  <2> QED BY <1>1, <1>2, <1>6, <2>1, <2>2, <2>3
<1> QED BY <1>3, <1>7, <1>8 DEF LateInv

LEMMA LateMain ==
    ASSUME TypeInv, LateInv, Main
    PROVE  LateInv'
<1>1. UNCHANGED <<pc, sock, rpc, hist, measured>>
  BY DEF Main, Wake, AddBucket, LeaveOut, TakeIn, Empty, SetTarget, Scan, sender, net, reader, results
<1>2. Unread' /\ Closed' /\ Recorded' = Recorded /\ Coming' = Coming /\ Tally'
  BY <1>1 DEF LateInv, Unread, Closed, Recorded, Coming, Tally
<1>3. CASE Wake
  <2>1. /\ Total(hist) = measured + Cardinality(Recorded) /\ measured \in Nat
        /\ me' = measured /\ \A c \in Conn : pc[c] = "done"
    BY <1>3 DEF Wake, LateInv, Tally, TypeInv, TypeOK
  <2>2. Total(hist) + Cardinality(Coming) <= me' + Cardinality(Conn)
    BY <2>1, ReadersType
  <2> QED BY <1>1, <1>2, <2>1, <2>2 DEF LateInv, Late
<1>4. CASE ~ Wake
  <2>1. mpc # "wait" /\ me' = me
    BY <1>4 DEF Main, AddBucket, LeaveOut, TakeIn, Empty, SetTarget, Scan
  <2> QED BY <1>1, <1>2, <2>1 DEF LateInv, Late
<1> QED BY <1>3, <1>4

LEMMA LateStep == TypeInv /\ LateInv /\ [Next]_vars => LateInv'
<1> SUFFICES ASSUME TypeInv, LateInv, [Next]_vars PROVE LateInv'
  OBVIOUS
<1>1. ASSUME NEW c \in Conn, Server(c) PROVE LateInv'
  <2>1. UNCHANGED <<pc, rpc, hist, measured, mpc, me>>
    BY <1>1 DEF Server, Answer, Push, HangUp, sender, reader, results, main
  <2>2. Closed'
    BY <1>1, <2>1 DEF LateInv, Closed, Server, Answer, Push, HangUp, TypeInv, TypeOK
  <2> QED BY <2>1, <2>2 DEF LateInv, Unread, Tally, Late, Recorded, Coming
<1>2. CASE Advance \/ SetClock \/ UNCHANGED vars
  <2>1. UNCHANGED <<pc, sock, rpc, hist, measured, mpc, me>>
    BY <1>2 DEF Advance, SetClock, vars, sender, reader, net, results, main
  <2> QED BY <2>1 DEF LateInv, Unread, Closed, Tally, Late, Recorded, Coming
<1> QED BY <1>1, <1>2, LateSender, LateReader, LateMain DEF Next

(* main reads the number of samples while readers may still have one in    *)
(* hand, and the percentiles it then computes are of that many samples and *)
(* at most one more a connection.                                          *)
THEOREM FewLate == Spec => []LateBounded
<1>1. TypeInv /\ LateInv => LateBounded
  <2> SUFFICES ASSUME TypeInv, LateInv, mpc # "wait" PROVE Total(hist) <= me + Cardinality(Conn)
    BY DEF LateBounded
  <2>1. Total(hist) \in Nat /\ me \in Nat
    BY TotalType DEF TypeInv, TypeOK
  <2> QED BY <2>1, ReadersType DEF LateInv, Late
<1> QED BY <1>1, TypeInit, TypeStep, LateInit, LateStep, PTL DEF Spec

-----------------------------------------------------------------------------
(* What the windows count.                                                 *)

LEMMA WindowsType ==
    ASSUME windows \in [1 .. NWin -> [Bucket -> Nat]], NEW b \in Bucket
    PROVE  /\ IsFiniteSet(1 .. NWin)
           /\ \A w \in 1 .. NWin : [v \in 1 .. NWin |-> windows[v][b]][w] \in Nat
           /\ InWindows(b) \in Nat
<1>1. IsFiniteSet(1 .. NWin)
  BY NWinType, FS_Interval
<1>2. \A w \in 1 .. NWin : [v \in 1 .. NWin |-> windows[v][b]][w] \in Nat
  OBVIOUS
<1> QED BY <1>1, <1>2, SumType DEF InWindows

LEMMA WindowInit == Init => WindowInv
<1> SUFFICES ASSUME Init PROVE WindowInv
  OBVIOUS
<1>1. Since
  BY DEF Init, Since
<1>2. ASSUME NEW b \in Bucket
      PROVE  InWindows(b) = 0 /\ Cardinality(ToWindow(b)) = 0 /\ hist[b] = 0
  <2> DEFINE f == [w \in 1 .. NWin |-> windows[w][b]]
  <2>1. \A w \in 1 .. NWin : f[w] = 0
    BY DEF Init, Hist0
  <2> HIDE DEF f
  <2>2. Counted(f, 1 .. NWin) = {}
    <3> SUFFICES ASSUME NEW y \in Counted(f, 1 .. NWin) PROVE FALSE
      OBVIOUS
    <3>0. \E w \in 1 .. NWin : \E n \in 1 .. f[w] : y = <<w, n>>
      BY DEF Counted
    <3>1. PICK w \in 1 .. NWin : \E n \in 1 .. f[w] : y = <<w, n>>
      BY <3>0
    <3> QED BY <2>1, <3>1
  <2>3. ToWindow(b) = {}
    BY DEF Init, ToWindow
  <2>4. hist[b] = 0
    BY DEF Init, Hist0
  <2> QED BY <2>2, <2>3, <2>4, FS_EmptySet DEF InWindows, Sum, f
<1> QED BY <1>1, <1>2 DEF WindowInv, Split

LEMMA EarlyLess ==
    ASSUME now \in Nat, now' \in Nat, now <= now'
    PROVE  Early' => Early
<1>1. Warm \in Nat /\ NWin \in Nat /\ Window \in Nat
  BY LoadGenGoConstants, NWinType
<1> DEFINE limit == Warm + NWin * Window
<1>2. limit \in Nat
  BY <1>1
<1>3. (Early' <=> now' - 1 < limit) /\ (Early <=> now - 1 < limit)
  BY DEF Early, Start
<1> HIDE DEF limit
<1>4. ASSUME NEW a \in Nat, NEW b \in Nat, a <= b
      PROVE  b - 1 < limit => a - 1 < limit
  BY <1>2, <1>4
<1> QED BY <1>3, <1>4

(* A step in which no sample is recorded and no reader comes to a window.  *)
LEMMA WindowSame ==
    ASSUME TypeInv, WindowInv, now' \in Nat, now <= now', UNCHANGED <<hist, windows>>,
           \A c \in Conn : rpc'[c] = "window" <=> rpc[c] = "window",
           \A c \in Conn : rpc[c] = "window" => us'[c] = us[c] /\ since'[c] = since[c]
    PROVE  WindowInv'
<1>0. now \in Nat /\ Start \in Nat /\ since \in [Conn -> Nat]
  BY ClockType DEF Start, TypeInv, TypeOK
<1>1. Since'
  <2> SUFFICES ASSUME NEW c \in Conn, rpc'[c] = "window"
               PROVE  since'[c] > Warm /\ since'[c] <= now' - Start
    BY DEF Since
  <2>1. since'[c] = since[c] /\ since[c] > Warm /\ since[c] <= now - Start /\ since[c] \in Nat
    BY <1>0 DEF WindowInv, Since
  <2> QED BY <1>0, <2>1
<1>2. Early' => Early
  BY <1>0, EarlyLess
<1>3. ASSUME NEW b \in Bucket
      PROVE  InWindows(b)' = InWindows(b) /\ ToWindow(b)' = ToWindow(b) /\ hist'[b] = hist[b]
  BY DEF InWindows, ToWindow
<1> QED BY <1>1, <1>2, <1>3 DEF WindowInv, Split

LEMMA WindowGate ==
    ASSUME TypeInv, WindowInv, NEW c \in Conn, Gate(c)
    PROVE  WindowInv'
<1>0. /\ now \in Nat /\ now - Start \in Nat /\ since \in [Conn -> Nat] /\ rpc = [d \in Conn |-> rpc[d]]
      /\ hist \in [Bucket -> Nat] /\ windows \in [1 .. NWin -> [Bucket -> Nat]]
  BY ClockType DEF TypeInv, TypeOK
<1>1. /\ rpc[c] = "gate" /\ now - Start > Warm /\ since' = [since EXCEPT ![c] = now - Start]
      /\ hist' = Record(hist, us[c]) /\ rpc' = [rpc EXCEPT ![c] = "window"]
      /\ UNCHANGED <<now, us, windows>>
  BY DEF Gate, InWindow
<1>2. Since'
  BY <1>0, <1>1 DEF WindowInv, Since
<1> DEFINE x == IdxFor(us[c])
<1>3. /\ hist'[x] = hist[x] + 1 /\ x \in Bucket
      /\ \A b \in Bucket : b # x => hist'[b] = hist[b]
  BY <1>0, <1>1, RecordFacts, IdxType
<1>4. ASSUME NEW b \in Bucket
      PROVE  /\ InWindows(b)' = InWindows(b) /\ InWindows(b) \in Nat /\ hist[b] \in Nat
             /\ Cardinality(ToWindow(b)) \in Nat
             /\ b # x => ToWindow(b)' = ToWindow(b)
             /\ b = x => Cardinality(ToWindow(b)') = Cardinality(ToWindow(b)) + 1
  <2>1. InWindows(b)' = InWindows(b) /\ InWindows(b) \in Nat
    BY <1>0, <1>1, WindowsType DEF InWindows
  <2>2. ToWindow(b) \in SUBSET Conn /\ ToWindow(b)' \in SUBSET Conn /\ c \notin ToWindow(b)
    BY <1>1 DEF ToWindow
  <2>3. \A d \in Conn : d # c => (d \in ToWindow(b)' <=> d \in ToWindow(b))
    BY <1>0, <1>1 DEF ToWindow
  <2>4. c \in ToWindow(b)' <=> b = x
    BY <1>0, <1>1 DEF ToWindow
  <2> HIDE DEF x
  <2>5. /\ Cardinality(ToWindow(b)) \in Nat
        /\ c \in ToWindow(b)' => Cardinality(ToWindow(b)') = Cardinality(ToWindow(b)) + 1
    BY <2>2, <2>3, Differ
  <2>6. c \notin ToWindow(b)' => ToWindow(b)' = ToWindow(b)
    BY <2>2, <2>3
  <2> QED BY <1>0, <2>1, <2>4, <2>5, <2>6
<1> HIDE DEF x
<1>5. Early' = Early
  BY <1>1 DEF Early
<1>6. Split'
  <2> SUFFICES ASSUME NEW b \in Bucket
               PROVE  /\ InWindows(b)' + Cardinality(ToWindow(b)') <= hist'[b]
                      /\ Early' => InWindows(b)' + Cardinality(ToWindow(b)') = hist'[b]
    BY DEF Split
  <2>1. /\ InWindows(b) + Cardinality(ToWindow(b)) <= hist[b]
        /\ Early => InWindows(b) + Cardinality(ToWindow(b)) = hist[b]
    BY DEF WindowInv, Split
  <2> QED BY <1>3, <1>4, <1>5, <2>1
<1> QED BY <1>2, <1>6 DEF WindowInv

(* A sample taken while it is early is in one of the windows.              *)
LEMMA SinceInside ==
    ASSUME TypeInv, WindowInv, NEW c \in Conn, rpc[c] = "window", Early
    PROVE  WindowOf(since[c]) + 1 \in 1 .. NWin
<1>1. /\ Warm \in Nat /\ Window \in Nat \ {0} /\ NWin \in Nat \ {0} /\ now \in Nat /\ Start \in Nat
      /\ since[c] \in Nat
  BY LoadGenGoConstants, NWinType, ClockType DEF TypeInv, TypeOK, Start
<1>2. since[c] > Warm /\ since[c] <= now - Start /\ now - Start < Warm + NWin * Window
  BY DEF WindowInv, Since, Early
<1> DEFINE a == since[c] - Warm
<1>3. NWin * Window \in Nat /\ NWin * Window = Window * NWin
  BY <1>1
<1>4. a \in Nat /\ a < Window * NWin
  BY <1>1, <1>2, <1>3
<1>5. WindowOf(since[c]) = a \div Window
  BY DEF WindowOf
<1> HIDE DEF a
<1>6. a \div Window \in Nat /\ a \div Window < NWin
  BY <1>1, <1>4, Quotient, QuotientBelow
<1> QED BY <1>1, <1>5, <1>6

LEMMA WindowRecord ==
    ASSUME TypeInv, WindowInv, NEW c \in Conn, RecordWindow(c)
    PROVE  WindowInv'
<1>0. /\ rpc = [d \in Conn |-> rpc[d]] /\ hist \in [Bucket -> Nat]
      /\ windows \in [1 .. NWin -> [Bucket -> Nat]]
  BY DEF TypeInv, TypeOK
<1> DEFINE w == WindowOf(since[c]) + 1
           x == IdxFor(us[c])
<1>1. /\ rpc[c] = "window" /\ rpc' = [rpc EXCEPT ![c] = "count"]
      /\ windows' = IF w \in 1 .. NWin THEN [windows EXCEPT ![w] = Record(windows[w], us[c])] ELSE windows
      /\ UNCHANGED <<now, us, since, hist>>
  BY DEF RecordWindow
<1>2. Since'
  BY <1>0, <1>1 DEF WindowInv, Since
<1>3. Early' = Early /\ (Early => w \in 1 .. NWin)
  BY <1>1, SinceInside DEF Early
<1>4. x \in Bucket
  BY IdxType
<1>5. ASSUME NEW b \in Bucket
      PROVE  /\ InWindows(b) \in Nat /\ InWindows(b)' \in Nat
             /\ b = x /\ w \in 1 .. NWin => InWindows(b)' = InWindows(b) + 1
             /\ ~ (b = x /\ w \in 1 .. NWin) => InWindows(b)' = InWindows(b)
  <2> DEFINE f == [v \in 1 .. NWin |-> windows[v][b]]
             g == [v \in 1 .. NWin |-> windows'[v][b]]
  <2>1. IsFiniteSet(1 .. NWin) /\ (\A v \in 1 .. NWin : f[v] \in Nat) /\ InWindows(b) \in Nat
    BY <1>0, WindowsType
  <2>2. InWindows(b) = Sum(f, 1 .. NWin) /\ InWindows(b)' = Sum(g, 1 .. NWin)
    BY DEF InWindows
  <2>3. CASE w \in 1 .. NWin
    <3> DEFINE r == Record(windows[w], us[c])
    <3>1. windows' = [windows EXCEPT ![w] = r]
      BY <1>1, <2>3
    <3>2. windows[w] \in [Bucket -> Nat]
      BY <1>0, <2>3
    <3>3. r[x] = windows[w][x] + 1 /\ (b # x => r[b] = windows[w][b])
      BY <3>2, RecordFacts
    <3> HIDE DEF w, x, r
    <3>4. \A v \in 1 .. NWin : g[v] = IF v = w THEN r[b] ELSE f[v]
      BY <1>0, <3>1
    <3>5. f[w] = windows[w][b]
      BY <2>3
    <3>6. CASE b = x
      <4>1. g[w] = f[w] + 1 /\ \A v \in 1 .. NWin : v # w => g[v] = f[v]
        BY <2>3, <3>3, <3>4, <3>5, <3>6
      <4> HIDE DEF f, g
      <4>2. Sum(g, 1 .. NWin) = Sum(f, 1 .. NWin) + 1
        BY <2>1, <2>3, <4>1, SumIncrement
      <4> QED BY <2>1, <2>2, <2>3, <3>6, <4>2
    <3>7. CASE b # x
      <4>1. \A v \in 1 .. NWin : g[v] = f[v]
        BY <2>3, <3>3, <3>4, <3>5, <3>7
      <4> HIDE DEF f, g
      <4>2. Sum(g, 1 .. NWin) = Sum(f, 1 .. NWin)
        BY <4>1, SumSame
      <4> QED BY <2>1, <2>2, <2>3, <3>7, <4>2
    <3> QED BY <3>6, <3>7
  <2>4. CASE w \notin 1 .. NWin
    <3>1. windows' = windows
      BY <1>1, <2>4
    <3> QED BY <2>1, <2>4, <3>1 DEF InWindows
  <2> QED BY <2>3, <2>4
<1>6. ASSUME NEW b \in Bucket
      PROVE  /\ Cardinality(ToWindow(b)) \in Nat /\ Cardinality(ToWindow(b)') \in Nat
             /\ b # x => Cardinality(ToWindow(b)') = Cardinality(ToWindow(b))
             /\ b = x => Cardinality(ToWindow(b)) = Cardinality(ToWindow(b)') + 1
  <2>2. ToWindow(b) \in SUBSET Conn /\ ToWindow(b)' \in SUBSET Conn /\ c \notin ToWindow(b)'
    BY <1>0, <1>1 DEF ToWindow
  <2>3. \A d \in Conn : d # c => (d \in ToWindow(b)' <=> d \in ToWindow(b))
    BY <1>0, <1>1 DEF ToWindow
  <2>4. c \in ToWindow(b) <=> b = x
    BY <1>0, <1>1 DEF ToWindow
  <2> HIDE DEF x
  <2> QED BY <2>2, <2>3, <2>4, Differ
<1> HIDE DEF w, x
<1>7. Split'
  <2> SUFFICES ASSUME NEW b \in Bucket
               PROVE  /\ InWindows(b)' + Cardinality(ToWindow(b)') <= hist'[b]
                      /\ Early' => InWindows(b)' + Cardinality(ToWindow(b)') = hist'[b]
    BY DEF Split
  <2>1. /\ InWindows(b) + Cardinality(ToWindow(b)) <= hist[b]
        /\ Early => InWindows(b) + Cardinality(ToWindow(b)) = hist[b]
    BY DEF WindowInv, Split
  <2>2. hist'[b] = hist[b] /\ hist[b] \in Nat
    BY <1>0, <1>1
  <2> QED BY <1>3, <1>5, <1>6, <2>1, <2>2
<1> QED BY <1>2, <1>7 DEF WindowInv

LEMMA WindowStep == TypeInv /\ LateInv /\ WindowInv /\ [Next]_vars => WindowInv'
<1> SUFFICES ASSUME TypeInv, LateInv, WindowInv, [Next]_vars PROVE WindowInv'
  OBVIOUS
<1>0. now \in Nat /\ rpc = [d \in Conn |-> rpc[d]]
  BY ClockType DEF TypeInv, TypeOK
<1>1. ASSUME NEW c \in Conn, Sender(c) PROVE WindowInv'
  <2>1. UNCHANGED <<now, hist, windows, us, since>>
    BY <1>1 DEF Sender, Dial, DialError, SendJoin, Await, SocketError, Tick, Finish, Write, results, reader
  <2>2. rpc' = rpc \/ (rpc[c] = "off" /\ rpc' = [rpc EXCEPT ![c] = "read"])
    BY <1>1 DEF Sender, Dial, DialError, SendJoin, Await, SocketError, Tick, Finish, Write, reader,
                LateInv, Unread
  <2>3. \A d \in Conn : rpc'[d] = "window" <=> rpc[d] = "window"
    BY <1>0, <2>2
  <2> QED BY <1>0, <2>1, <2>3, WindowSame
<1>2. ASSUME NEW c \in Conn, Reader(c), ~ Gate(c), ~ RecordWindow(c) PROVE WindowInv'
  <2>1. UNCHANGED <<now, hist, windows, since>>
    BY <1>2 DEF Reader, ReadFrame, ReadError, Lookup, Skip, CountMeasured, results
  <2>2. \A d \in Conn : rpc'[d] = "window" <=> rpc[d] = "window"
    BY <1>0, <1>2 DEF Reader, ReadFrame, ReadError, Lookup, Skip, CountMeasured
  <2>3. \A d \in Conn : rpc[d] = "window" => us'[d] = us[d]
    BY <1>2 DEF Reader, ReadFrame, ReadError, Lookup, Skip, CountMeasured, TypeInv, TypeOK
  <2> QED BY <1>0, <2>1, <2>2, <2>3, WindowSame
<1>3. ASSUME NEW c \in Conn, Server(c) PROVE WindowInv'
  <2>1. UNCHANGED <<now, hist, windows, us, since, rpc>>
    BY <1>3 DEF Server, Answer, Push, HangUp, results, reader
  <2> QED BY <1>0, <2>1, WindowSame
<1>4. CASE Main \/ SetClock \/ UNCHANGED vars
  <2>1. UNCHANGED <<now, hist, windows, us, since, rpc>>
    BY <1>4 DEF Main, Wake, AddBucket, LeaveOut, TakeIn, Empty, SetTarget, Scan, SetClock, results, reader, vars
  <2> QED BY <1>0, <2>1, WindowSame
<1>5. CASE Advance
  <2>1. UNCHANGED <<hist, windows, us, since, rpc>>
    BY <1>5 DEF Advance, results, reader
  <2>2. now' \in Nat /\ now <= now'
    BY <1>5, AdvanceFacts, LoadGenGoConstants DEF Start
  <2> QED BY <2>1, <2>2, WindowSame
<1> QED BY <1>1, <1>2, <1>3, <1>4, <1>5, WindowGate, WindowRecord DEF Next

(* The windows count nothing that the whole histogram does not, and until  *)
(* the last window ends they count all of it.                              *)
THEOREM WindowsAccount == Spec => []WindowsInside
<1>1. TypeInv /\ WindowInv => WindowsInside
  <2> SUFFICES ASSUME TypeInv, WindowInv, NEW b \in Bucket
               PROVE  /\ InWindows(b) <= hist[b]
                      /\ Early /\ (\A c \in Conn : rpc[c] # "window") => InWindows(b) = hist[b]
    BY DEF WindowsInside, InWindows, Early
  <2>1. InWindows(b) \in Nat /\ hist[b] \in Nat
    BY WindowsType DEF TypeInv, TypeOK
  <2>2. ToWindow(b) \in SUBSET Conn /\ IsFiniteSet(Conn)
    BY LoadGenGoConstants DEF ToWindow
  <2>3. Cardinality(ToWindow(b)) \in Nat
    BY <2>2, FS_Subset, FS_CardinalityType
  <2>4. (\A c \in Conn : rpc[c] # "window") => Cardinality(ToWindow(b)) = 0
    BY FS_EmptySet DEF ToWindow
  <2>5. /\ InWindows(b) + Cardinality(ToWindow(b)) <= hist[b]
        /\ Early => InWindows(b) + Cardinality(ToWindow(b)) = hist[b]
    BY DEF WindowInv, Split
  <2> QED BY <2>1, <2>3, <2>4, <2>5
<1> QED BY <1>1, TypeInit, TypeStep, LateInit, LateStep, WindowInit, WindowStep, PTL DEF Spec

-----------------------------------------------------------------------------
(* The percentiles.                                                        *)

(* The running sum takes in bucket i.                                      *)
LEMMA SumNext ==
    ASSUME NEW h \in [Bucket -> Nat], NEW i \in Bucket
    PROVE  /\ Sum(h, 0 .. i) = Sum(h, 0 .. i - 1) + h[i]
           /\ Sum(h, 0 .. i - 1) \in Nat /\ h[i] \in Nat
<1>1. NBuckets \in Nat \ {0} /\ i \in Nat /\ i < NBuckets
  BY HistogramConstants DEF Bucket
<1>2. IsFiniteSet(0 .. i - 1)
  BY <1>1, FS_Interval
<1>3. i \notin 0 .. i - 1 /\ (0 .. i - 1) \cup {i} = 0 .. i /\ 0 .. i \subseteq Bucket
  BY <1>1 DEF Bucket
<1>4. (\A y \in (0 .. i - 1) \cup {i} : h[y] \in Nat) /\ (\A y \in 0 .. i - 1 : h[y] \in Nat)
  BY <1>3
<1>5. Sum(h, (0 .. i - 1) \cup {i}) = Sum(h, 0 .. i - 1) + h[i]
  BY <1>2, <1>3, <1>4, SumAdd
<1>6. Sum(h, 0 .. i - 1) \in Nat
  BY <1>2, <1>4, SumType
<1> QED BY <1>3, <1>5, <1>6

(* percentile's scan stops at the bucket of the reference definition.      *)
LEMMA ScanStops ==
    ASSUME NEW h \in [Bucket -> Nat], NEW p \in Nat \X (Nat \ {0}), p[1] <= p[2],
           Total(h) # 0, NEW i \in Bucket,
           \A j \in 0 .. i - 1 : UpTo(h, j) < Target(p, Total(h)),
           UpTo(h, i) >= Target(p, Total(h)) \/ i = NBuckets - 1
    PROVE  Percentile(h, p) = ValFor(i)
<1> DEFINE t == Target(p, Total(h))
           S == {j \in Bucket : UpTo(h, j) >= t}
<1>1. Total(h) \in Nat /\ t \in Nat /\ t <= Total(h)
  BY TotalType, TargetFacts
<1>2. NBuckets \in Nat \ {0} /\ Bucket = 0 .. NBuckets - 1
  BY HistogramConstants DEF Bucket
<1>3. UpTo(h, NBuckets - 1) = Total(h)
  BY <1>2 DEF UpTo, Total
<1>4. \A j \in Bucket : UpTo(h, j) \in Nat
  <2> SUFFICES ASSUME NEW j \in Bucket PROVE UpTo(h, j) \in Nat
    OBVIOUS
  <2> QED BY SumNext DEF UpTo
<1>5. UpTo(h, i) >= t
  BY <1>1, <1>3, <1>4
<1>6. \A j \in 0 .. i - 1 : UpTo(h, j) < t
  OBVIOUS
<1>7. Percentile(h, p) = ValFor(Min(S))
  BY DEF Percentile
<1> HIDE DEF t
<1>8. i \in S /\ S \in SUBSET Nat
  BY <1>2, <1>5
<1>9. \A j \in S : i <= j
  <2> SUFFICES ASSUME NEW j \in S, j < i PROVE FALSE
    BY <1>2, <1>8
  <2>1. j \in 0 .. i - 1 /\ UpTo(h, j) >= t /\ UpTo(h, j) \in Nat
    BY <1>2, <1>4
  <2> QED BY <1>1, <1>6, <2>1
<1> HIDE DEF S
<1>10. Min(S) \in S /\ Min(S) <= i /\ i <= Min(S)
  BY <1>8, <1>9, MinFacts
<1>11. Min(S) \in Nat /\ i \in Nat
  BY <1>8, <1>10
<1>12. Min(S) = i
  BY <1>10, <1>11
<1> QED BY <1>7, <1>12

(* Where main's histograms are.                                            *)
LEMMA HistFacts ==
    ASSUME TypeInv
    PROVE  /\ Reported \in Seq([Bucket -> Nat]) /\ Len(Reported) = NWin + 1
           /\ \A j \in 1 .. NWin + 1 : Reported[j] \in [Bucket -> Nat]
           /\ \A s \in Stage : HistNo(s) \in 1 .. NWin + 1 /\ HistOf(s) = Reported[HistNo(s)]
           /\ mpc # "done" => stage \in Stage
<1>1. Reported \in Seq([Bucket -> Nat]) /\ Len(Reported) = NWin + 1
  BY ReportedFacts DEF TypeInv, TypeOK
<1>2. \A j \in 1 .. NWin + 1 : Reported[j] \in [Bucket -> Nat]
  BY <1>1, ElementOfSeq
<1>3. \A s \in Stage : HistNo(s) \in 1 .. NWin + 1
  BY StageFacts
<1>4. \A s \in Stage : HistOf(s) = Reported[HistNo(s)]
  BY DEF HistOf
<1> QED BY <1>1, <1>2, <1>3, <1>4 DEF TypeInv, AtMain

LEMMA HistTypes == TypeInv => \A n \in 1 .. NWin + 1 : Reported[n] \in [Bucket -> Nat]
BY HistFacts

LEMMA ReportInit == Init => ReportInv
<1> SUFFICES ASSUME Init PROVE ReportInv
  OBVIOUS
<1>1. mpc = "wait"
  BY DEF Init
<1> QED BY <1>1 DEF ReportInv, Grown, Summing, Scanning, Exact

(* What main reports on.                                                   *)
Parts == Reported[1] = hist /\ \A i \in 2 .. NWin + 1 : Reported[i] = windows[i - 1]

LEMMA PartsFacts == TypeInv => Parts
BY ReportedFacts DEF TypeInv, TypeOK, Parts

(* Histograms only grow.                                                   *)
LEMMA Grows ==
    ASSUME TypeInv, TypeInv', [Next]_vars, NEW j \in 1 .. NWin + 1, NEW b \in Bucket
    PROVE  Reported[j][b] <= Reported'[j][b]
<1>0. /\ hist \in [Bucket -> Nat] /\ hist' \in [Bucket -> Nat]
      /\ windows \in [1 .. NWin -> [Bucket -> Nat]] /\ windows' \in [1 .. NWin -> [Bucket -> Nat]]
  BY DEF TypeInv, TypeOK
<1>1. hist[b] <= hist'[b]
  <2>1. hist' = hist \/ \E c \in Conn : hist' = Record(hist, us[c])
    BY DEF Next, Sender, Dial, DialError, SendJoin, Await, SocketError, Tick, Finish, Write,
           Reader, ReadFrame, ReadError, Lookup, Gate, Skip, RecordWindow, CountMeasured,
           Main, Wake, AddBucket, LeaveOut, TakeIn, Empty, SetTarget, Scan, Server, Answer, Push, HangUp, Advance, SetClock, vars, results
  <2>2. ASSUME NEW c \in Conn, hist' = Record(hist, us[c]) PROVE hist[b] <= hist'[b]
    <3>1. Record(hist, us[c])[b] = hist[b] \/ Record(hist, us[c])[b] = hist[b] + 1
      BY <1>0, RecordFacts
    <3> QED BY <1>0, <2>2, <3>1
  <2> QED BY <1>0, <2>1, <2>2
<1>2. ASSUME NEW w \in 1 .. NWin PROVE windows[w][b] <= windows'[w][b]
  <2>1. windows' = windows \/ \E c \in Conn : RecordWindow(c)
    BY DEF Next, Sender, Dial, DialError, SendJoin, Await, SocketError, Tick, Finish, Write,
           Reader, ReadFrame, ReadError, Lookup, Gate, Skip, CountMeasured,
           Main, Wake, AddBucket, LeaveOut, TakeIn, Empty, SetTarget, Scan, Server, Answer, Push, HangUp, Advance, SetClock, vars, results
  <2>2. CASE windows' = windows
    BY <1>0, <2>2
  <2>3. ASSUME NEW c \in Conn, RecordWindow(c) PROVE windows[w][b] <= windows'[w][b]
    <3> DEFINE v == WindowOf(since[c]) + 1
    <3>1. CASE v \in 1 .. NWin
      <4>1. windows' = [windows EXCEPT ![v] = Record(windows[v], us[c])]
        BY <2>3, <3>1 DEF RecordWindow
      <4> HIDE DEF v
      <4>2. windows[v] \in [Bucket -> Nat] /\ windows[w] \in [Bucket -> Nat]
        BY <1>0, <3>1
      <4>3. windows'[w] = IF w = v THEN Record(windows[v], us[c]) ELSE windows[w]
        BY <1>0, <4>1
      <4> QED BY <4>2, <4>3, RecordFacts
    <3>2. CASE v \notin 1 .. NWin
      <4>1. windows' = windows
        BY <2>3, <3>2 DEF RecordWindow
      <4> QED BY <1>0, <4>1
    <3> QED BY <3>1, <3>2
  <2> QED BY <2>1, <2>2, <2>3
<1>3. Parts /\ Parts'
  BY PartsFacts, PTL
<1> QED BY <1>1, <1>2, <1>3, NWinType DEF Parts

(* A histogram that is as it was when main woke up was so before.          *)
LEMMA QuietBefore ==
    ASSUME TypeInv, TypeInv', Grown, [Next]_vars, mpc # "wait", atWait' = atWait,
           NEW j \in 1 .. NWin + 1, Reported'[j] = atWait[j]
    PROVE  Reported'[j] = Reported[j]
<1>1. Reported[j] \in [Bucket -> Nat]
  BY HistFacts
<1>2. Len(atWait) = NWin + 1 /\ atWait \in Seq([Bucket -> Nat])
  BY DEF Grown, TypeInv, TypeOK
<1>3. atWait[j] \in [Bucket -> Nat]
  BY <1>2, ElementOfSeq
<1>4. \A b \in Bucket : atWait[j][b] = Reported[j][b]
  <2> SUFFICES ASSUME NEW b \in Bucket PROVE atWait[j][b] = Reported[j][b]
    OBVIOUS
  <2>1. atWait[j][b] <= Reported[j][b]
    BY DEF Grown
  <2>2. Reported[j][b] <= Reported'[j][b]
    BY Grows
  <2>3. Reported[j][b] \in Nat /\ atWait[j][b] \in Nat
    BY <1>1, <1>3
  <2> QED BY <2>1, <2>2, <2>3
<1> QED BY <1>1, <1>3, <1>4

(* A step of another goroutine, of the server or of the clock.             *)
LEMMA ReportIdle ==
    ASSUME TypeInv, TypeInv', ReportInv, [Next]_vars, UNCHANGED main
    PROVE  ReportInv'
<1>1. /\ mpc' = mpc /\ stage' = stage /\ call' = call /\ idx' = idx /\ acc' = acc /\ target' = target
      /\ report' = report /\ atWait' = atWait
  BY DEF main
<1>2. CASE mpc = "wait"
  BY <1>1, <1>2 DEF ReportInv, Grown, Summing, Scanning, Exact
<1>3. CASE mpc # "wait"
  <2>1. Grown'
    <3> SUFFICES ASSUME NEW j \in 1 .. NWin + 1, NEW b \in Bucket
                 PROVE  atWait[j][b] <= Reported'[j][b]
      BY <1>1, <1>3 DEF ReportInv, Grown
    <3>1. atWait[j][b] <= Reported[j][b] /\ Len(atWait) = NWin + 1
      BY <1>3 DEF ReportInv, Grown
    <3>2. Reported[j][b] <= Reported'[j][b]
      BY Grows
    <3>3. atWait[j] \in [Bucket -> Nat]
      BY <3>1, ElementOfSeq DEF TypeInv, TypeOK
    <3>4. Reported[j] \in [Bucket -> Nat]
      BY HistFacts
    <3>5. Reported'[j] \in [Bucket -> Nat]
      <4>1. (TypeInv => \A n \in 1 .. NWin + 1 : Reported[n] \in [Bucket -> Nat])'
        BY HistTypes, PTL
      <4> QED BY <4>1
    <3> QED BY <3>1, <3>2, <3>3, <3>4, <3>5
  <2>2. ASSUME NEW j \in 1 .. NWin + 1, Reported'[j] = atWait'[j]
        PROVE  Reported'[j] = Reported[j] /\ Reported[j] = atWait[j]
    BY <1>1, <1>3, <2>2, QuietBefore DEF ReportInv
  <2>3. Summing'
    <3> SUFFICES ASSUME mpc = "total", Reported'[HistNo(stage)] = atWait'[HistNo(stage)]
                 PROVE  acc = Sum(Reported'[HistNo(stage)], 0 .. idx - 1)
      BY <1>1 DEF Summing, Quiet
    <3>1. stage \in Stage /\ HistNo(stage) \in 1 .. NWin + 1
      BY HistFacts
    <3> QED BY <2>2, <3>1 DEF ReportInv, Summing, Quiet
  <2>4. Scanning'
    <3> SUFFICES ASSUME mpc = "scan", Reported'[HistNo(stage)] = atWait'[HistNo(stage)]
                 PROVE  /\ Total(Reported'[HistNo(stage)]) # 0
                        /\ target = Target(Asked(stage)[call], Total(Reported'[HistNo(stage)]))
                        /\ acc = Sum(Reported'[HistNo(stage)], 0 .. idx - 1)
                        /\ \A i \in 0 .. idx - 1 : UpTo(Reported'[HistNo(stage)], i) < target
      BY <1>1 DEF Scanning, Quiet
    <3>1. stage \in Stage /\ HistNo(stage) \in 1 .. NWin + 1
      BY HistFacts
    <3> QED BY <2>2, <3>1 DEF ReportInv, Scanning, Quiet
  <2>5. Exact'
    <3> SUFFICES ASSUME NEW s \in Stage, Reported'[HistNo(s)] = atWait'[HistNo(s)]
                 PROVE  /\ \A i \in 1 .. Len(report[s]) :
                              report[s][i] = Percentile(Reported'[HistNo(s)], Asked(s)[i])
                        /\ s < stage /\ Len(report[s]) = 0 => Total(Reported'[HistNo(s)]) = 0
      BY <1>1 DEF Exact, Quiet
    <3>1. HistNo(s) \in 1 .. NWin + 1
      BY HistFacts
    <3> QED BY <1>3, <2>2, <3>1 DEF ReportInv, Exact, Quiet
  <2> QED BY <2>1, <2>3, <2>4, <2>5 DEF ReportInv
<1> QED BY <1>2, <1>3

(* main has turned to its next call, and the report is as it should be.    *)
LEMMA ReportTurn ==
    ASSUME TypeInv, ReportInv, mpc \in {"total", "scan"}, NextStage \/ NextCall,
           Reported' = Reported, atWait' = atWait, Exact'
    PROVE  ReportInv'
<1>1. idx' = 0 /\ acc' = 0 /\ mpc' \in {"total", "done"}
  BY NextCallFacts
<1>2. Grown'
  BY <1>1 DEF ReportInv, Grown
<1>3. Summing'
  <2>1. 0 .. idx' - 1 = {} /\ acc' = 0
    BY <1>1
  <2>2. Sum(Reported'[HistNo(stage)'], 0 .. idx' - 1) = 0
    BY <2>1, SumEmpty
  <2> QED BY <2>1, <2>2 DEF Summing
<1>4. Scanning'
  BY <1>1 DEF Scanning
<1> QED BY <1>2, <1>3, <1>4 DEF ReportInv

(* A call ends with the percentile of its histogram, if that is quiet.     *)
LEMMA ReportResult ==
    ASSUME TypeInv, ReportInv, NEW val \in Nat, Result(val), mpc \in {"total", "scan"}, call # 0,
           Reported' = Reported, atWait' = atWait,
           Quiet(stage) => val = Percentile(Reported[HistNo(stage)], Asked(stage)[call])
    PROVE  ReportInv'
<1>1. /\ stage \in Stage /\ stage \in Nat /\ call \in Nat \ {0} /\ Len(report'[stage]) = call
      /\ report'[stage][call] = val
      /\ \A i \in 1 .. call - 1 : report'[stage][i] = report[stage][i]
      /\ \A s \in Stage : s # stage => report'[s] = report[s]
      /\ Len(report[stage]) = call - 1
  <2>1. stage \in Stage /\ stage \in Nat /\ call \in Nat \ {0} /\ Len(report[stage]) = call - 1
    BY DEF TypeInv, TypeOK, AtMain, Filled
  <2> QED BY <2>1, TypeResult
<1>2. NextCall /\ stage' \in {stage, stage + 1}
  BY NextCallFacts DEF Result
<1>3. Exact'
  <2> SUFFICES ASSUME NEW s \in Stage, Quiet(s)
               PROVE  /\ \A i \in 1 .. Len(report'[s]) :
                            report'[s][i] = Percentile(Reported[HistNo(s)], Asked(s)[i])
                      /\ s < stage' /\ Len(report'[s]) = 0 => Total(Reported[HistNo(s)]) = 0
    BY DEF Exact, Quiet
  <2>1. CASE s = stage
    <3>1. \A i \in 1 .. call - 1 : report[s][i] = Percentile(Reported[HistNo(s)], Asked(s)[i])
      BY <1>1, <2>1 DEF ReportInv, Exact
    <3>2. \A i \in 1 .. call : i = call \/ i \in 1 .. call - 1
      BY <1>1
    <3> QED BY <1>1, <2>1, <3>1, <3>2
  <2>2. CASE s # stage
    <3>1. s < stage' => s < stage
      BY <1>1, <1>2, <2>2 DEF Stage
    <3> QED BY <1>1, <2>2, <3>1 DEF ReportInv, Exact
  <2> QED BY <2>1, <2>2
<1> QED BY <1>2, <1>3, ReportTurn

LEMMA ReportMain ==
    ASSUME TypeInv, ReportInv, Main
    PROVE  ReportInv'
<1>1. Reported' = Reported
  BY DEF Main, Wake, AddBucket, LeaveOut, TakeIn, Empty, SetTarget, Scan, results, Reported
<1>2. NBuckets \in Nat \ {0} /\ Bucket = 0 .. NBuckets - 1 /\ idx \in 0 .. NBuckets /\ acc \in Nat
  BY HistogramConstants DEF Bucket, TypeInv, TypeOK
<1> DEFINE h == Reported[HistNo(stage)]
           p == Asked(stage)[call]
<1>3. ASSUME mpc \in {"total", "scan"}
      PROVE  /\ stage \in Stage /\ h \in [Bucket -> Nat] /\ HistOf(stage) = h
             /\ call # 0 => p \in Nat \X (Nat \ {0}) /\ p[1] <= p[2]
  <2>1. stage \in Stage /\ call \in First(stage) .. Len(Asked(stage))
    BY <1>3 DEF TypeInv, AtMain
  <2>2. h \in [Bucket -> Nat] /\ HistOf(stage) = h
    BY <2>1, HistFacts
  <2>3. call # 0 => call \in 1 .. Len(Asked(stage))
    BY <2>1, StageFacts
  <2> QED BY <2>1, <2>2, <2>3, StageFacts
<1>4. CASE Wake
  <2>1. /\ mpc = "wait" /\ atWait' = Reported /\ mpc' = "total"
        /\ stage' = stage /\ idx' = idx /\ acc' = acc /\ report' = report
        /\ stage = 0 /\ idx = 0 /\ acc = 0
    BY <1>4 DEF Wake, TypeInv, AtMain
  <2>2. Grown'
    <3>1. Len(Reported) = NWin + 1 /\ \A j \in 1 .. NWin + 1 : Reported[j] \in [Bucket -> Nat]
      BY HistFacts
    <3>2. \A j \in 1 .. NWin + 1 : \A b \in Bucket : Reported[j][b] \in Nat
      BY <3>1
    <3>3. \A j \in 1 .. NWin + 1 : \A b \in Bucket : Reported[j][b] <= Reported[j][b]
      BY <3>2
    <3> QED BY <1>1, <2>1, <3>1, <3>3 DEF Grown
  <2>3. Summing'
    <3>1. 0 .. idx' - 1 = {} /\ acc' = 0
      BY <2>1
    <3>2. Sum(Reported'[HistNo(stage)'], 0 .. idx' - 1) = 0
      BY <3>1, SumEmpty
    <3> QED BY <3>1, <3>2 DEF Summing
  <2>4. Exact'
    <3>1. \A s \in Stage : Len(report[s]) = 0 /\ ~ (s < 0)
      <4>1. call = 1 /\ NWin \in Nat
        BY <1>4, NWinType DEF Wake, TypeInv, AtMain
      <4> QED BY <2>1, <4>1 DEF TypeInv, Filled, Stage
    <3> QED BY <2>1, <3>1 DEF Exact
  <2> QED BY <2>1, <2>2, <2>3, <2>4 DEF ReportInv, Scanning
<1>5. CASE AddBucket
  <2>1. /\ mpc = "total" /\ idx < NBuckets /\ acc' = acc + h[idx] /\ idx' = idx + 1
        /\ mpc' = mpc /\ stage' = stage /\ call' = call /\ report' = report /\ atWait' = atWait
    BY <1>3, <1>5 DEF AddBucket
  <2>2. idx \in Bucket /\ h \in [Bucket -> Nat] /\ idx + 1 - 1 = idx
    BY <1>2, <1>3, <2>1
  <2>3. Summing'
    <3> SUFFICES ASSUME Quiet(stage) PROVE acc + h[idx] = Sum(h, 0 .. idx)
      <4>1. idx' - 1 = idx
        BY <1>2, <2>1
      <4>2. Summing' <=> (mpc = "total" /\ Quiet(stage) => acc' = Sum(h, 0 .. idx' - 1))
        BY <1>1, <2>1 DEF Summing, Quiet
      <4> QED BY <2>1, <4>1, <4>2
    <3>1. acc = Sum(h, 0 .. idx - 1)
      BY <2>1 DEF ReportInv, Summing
    <3> HIDE DEF h
    <3> QED BY <2>2, <3>1, SumNext
  <2> QED BY <1>1, <2>1, <2>3 DEF ReportInv, Grown, Scanning, Exact, Quiet
<1>6. ASSUME mpc = "total", idx = NBuckets, Quiet(stage) PROVE acc = Total(h)
  <2>1. acc = Sum(h, 0 .. idx - 1)
    BY <1>6 DEF ReportInv, Summing
  <2> QED BY <1>2, <1>6, <2>1 DEF Total
<1>7. CASE Empty
  <2>1. mpc = "total" /\ idx = NBuckets /\ acc = 0 /\ call # 0 /\ Result(0) /\ atWait' = atWait
    BY <1>7 DEF Empty
  <2>2. Quiet(stage) => Percentile(h, p) = 0
    BY <1>6, <2>1 DEF Percentile
  <2> QED BY <1>1, <2>1, <2>2, ReportResult
<1>7a. CASE LeaveOut \/ TakeIn
  <2>1. /\ mpc = "total" /\ idx = NBuckets /\ call = 0 /\ report' = report /\ atWait' = atWait
        /\ NextStage \/ NextCall
        /\ acc = 0 \/ ~ LeaveOut
    BY <1>7a DEF LeaveOut, TakeIn
  <2>2. /\ stage \in Stage /\ stage \in Nat /\ NWin \in Nat
        /\ stage' = stage \/ (stage' = stage + 1 /\ acc = 0)
    <3>1. stage \in Stage /\ stage \in Nat /\ NWin \in Nat
      BY <1>3, <2>1, NWinType DEF TypeInv, TypeOK
    <3>2. CASE LeaveOut
      BY <2>1, <3>1, <3>2 DEF LeaveOut, NextStage
    <3>3. CASE TakeIn
      <4>1. 0 # Len(Asked(stage)) /\ call = 0 /\ NextCall
        BY <2>1, <3>1, <3>3, StageFacts DEF TakeIn
      <4> QED BY <3>1, <4>1 DEF NextCall
    <3> QED BY <1>7a, <3>1, <3>2, <3>3
  <2>3. Exact'
    <3> SUFFICES ASSUME NEW s \in Stage, Quiet(s)
                 PROVE  /\ \A i \in 1 .. Len(report[s]) :
                              report[s][i] = Percentile(Reported[HistNo(s)], Asked(s)[i])
                        /\ s < stage' /\ Len(report[s]) = 0 => Total(Reported[HistNo(s)]) = 0
      BY <1>1, <2>1 DEF Exact, Quiet
    <3>1. CASE s = stage /\ stage' = stage + 1
      <4>1. Total(h) = 0
        BY <1>6, <2>1, <2>2, <3>1
      <4> QED BY <2>1, <3>1, <4>1 DEF ReportInv, Exact
    <3>2. CASE ~ (s = stage /\ stage' = stage + 1)
      <4>1. s < stage' => s < stage
        BY <2>2, <3>2 DEF Stage
      <4> QED BY <2>1, <4>1 DEF ReportInv, Exact
    <3> QED BY <3>1, <3>2
  <2> QED BY <1>1, <2>1, <2>3, ReportTurn
<1>8. CASE SetTarget
  <2>1. /\ mpc = "total" /\ idx = NBuckets /\ acc > 0 /\ target' = Target(p, acc)
        /\ acc' = 0 /\ idx' = 0 /\ mpc' = "scan" /\ stage' = stage /\ call' = call /\ call # 0 /\ report' = report /\ atWait' = atWait
    BY <1>8 DEF SetTarget
  <2>2. Scanning'
    <3> SUFFICES ASSUME Quiet(stage)
                 PROVE  /\ Total(h) # 0 /\ target' = Target(p, Total(h))
                        /\ acc' = Sum(h, 0 .. idx' - 1)
                        /\ \A i \in 0 .. idx' - 1 : UpTo(h, i) < target'
      BY <1>1, <2>1 DEF Scanning, Quiet
    <3>1. acc = Total(h)
      BY <1>6, <2>1
    <3>2. 0 .. idx' - 1 = {}
      BY <2>1
    <3>3. Sum(h, 0 .. idx' - 1) = 0
      BY <3>2, SumEmpty
    <3> QED BY <1>2, <2>1, <3>1, <3>2, <3>3
  <2> QED BY <1>1, <2>1, <2>2 DEF ReportInv, Grown, Summing, Exact, Quiet
<1>9. CASE Scan
  <2>0. mpc = "scan" /\ call # 0 /\ idx \in Bucket /\ h \in [Bucket -> Nat] /\ HistOf(stage) = h /\ ValFor(idx) \in Nat
    BY <1>2, <1>3, <1>9, BucketFacts DEF Scan, TypeInv, AtMain
  <2>1. ASSUME Quiet(stage)
        PROVE  /\ Total(h) # 0 /\ target = Target(p, Total(h))
               /\ acc = Sum(h, 0 .. idx - 1) /\ \A i \in 0 .. idx - 1 : UpTo(h, i) < target
               /\ acc + h[idx] = UpTo(h, idx)
    <3>1. /\ Total(h) # 0 /\ target = Target(p, Total(h))
          /\ acc = Sum(h, 0 .. idx - 1) /\ \A i \in 0 .. idx - 1 : UpTo(h, i) < target
      BY <2>0, <2>1 DEF ReportInv, Scanning
    <3> HIDE DEF h
    <3> QED BY <2>0, <3>1, SumNext DEF UpTo
  <2>2. CASE acc + h[idx] >= target \/ idx = NBuckets - 1
    <3>1. Result(ValFor(idx)) /\ atWait' = atWait
      BY <1>9, <2>0, <2>2 DEF Scan
    <3>2. Quiet(stage) => ValFor(idx) = Percentile(h, p)
      <4> SUFFICES ASSUME Quiet(stage) PROVE Percentile(h, p) = ValFor(idx)
        OBVIOUS
      <4>1. p \in Nat \X (Nat \ {0}) /\ p[1] <= p[2]
        BY <1>3, <2>0
      <4> HIDE DEF h
      <4> QED BY <2>0, <2>1, <2>2, <4>1, ScanStops
    <3> QED BY <1>1, <2>0, <3>1, <3>2, ReportResult
  <2>3. CASE ~ (acc + h[idx] >= target \/ idx = NBuckets - 1)
    <3>1. /\ acc' = acc + h[idx] /\ idx' = idx + 1 /\ report' = report /\ stage' = stage /\ call' = call /\ mpc' = mpc
          /\ target' = target /\ atWait' = atWait
      BY <1>9, <2>0, <2>3 DEF Scan
    <3>2. Scanning'
      <4> SUFFICES ASSUME Quiet(stage)
                   PROVE  /\ Total(h) # 0 /\ target = Target(p, Total(h))
                          /\ acc' = Sum(h, 0 .. idx' - 1)
                          /\ \A i \in 0 .. idx' - 1 : UpTo(h, i) < target
        BY <1>1, <2>0, <3>1 DEF Scanning, Quiet
      <4>1. idx \in Nat /\ idx' - 1 = idx /\ 0 .. idx' - 1 = (0 .. idx - 1) \cup {idx}
        BY <1>2, <2>0, <3>1
      <4>2. acc' = Sum(h, 0 .. idx' - 1)
        BY <2>1, <3>1, <4>1 DEF UpTo
      <4>3. UpTo(h, idx) < target
        <5>1. acc + h[idx] \in Nat /\ target \in Nat
          <6>1. acc \in Nat /\ target \in Nat
            BY DEF TypeInv, TypeOK
          <6>2. h[idx] \in Nat
            BY <2>0
          <6> HIDE DEF h
          <6> QED BY <6>1, <6>2
        <5> QED BY <2>1, <2>3, <5>1
      <4> QED BY <2>1, <4>1, <4>2, <4>3
    <3> QED BY <1>1, <2>0, <3>1, <3>2 DEF ReportInv, Grown, Summing, Exact, Quiet
  <2> QED BY <2>2, <2>3
<1> QED BY <1>4, <1>5, <1>7, <1>7a, <1>8, <1>9 DEF Main

LEMMA ReportStep == TypeInv /\ TypeInv' /\ ReportInv /\ [Next]_vars => ReportInv'
<1> SUFFICES ASSUME TypeInv, TypeInv', ReportInv, [Next]_vars PROVE ReportInv'
  OBVIOUS
<1>1. Main \/ UNCHANGED main
  BY DEF Next, Sender, Dial, DialError, SendJoin, Await, SocketError, Tick, Finish, Write,
         Reader, ReadFrame, ReadError, Lookup, Gate, Skip, RecordWindow, CountMeasured,
         Server, Answer, Push, HangUp, Advance, SetClock, vars
<1> QED BY <1>1, ReportMain, ReportIdle

(* A percentile of a histogram to which nobody adds after main woke up is  *)
(* the first bucket at which the running sum reaches the fraction's share, *)
(* whichever of main's rounds asks, and no window with samples is left out.*)
THEOREM PercentilesExact == Spec => []ReportExact
<1>1. TypeInv /\ ReportInv => ReportExact
  <2> SUFFICES ASSUME TypeInv, ReportInv, NEW s \in Stage, mpc # "wait", HistOf(s) = atWait[HistNo(s)]
               PROVE  /\ \A i \in DOMAIN report[s] : report[s][i] = Percentile(HistOf(s), Asked(s)[i])
                      /\ s < stage /\ report[s] = <<>> => Total(HistOf(s)) = 0
    BY DEF ReportExact
  <2>1. HistOf(s) = Reported[HistNo(s)] /\ Quiet(s)
    BY HistFacts DEF Quiet
  <2>2. report[s] \in Seq(Nat)
    BY DEF TypeInv, TypeOK
  <2>3. DOMAIN report[s] = 1 .. Len(report[s]) /\ (report[s] = <<>> => Len(report[s]) = 0)
    BY <2>2, LenProperties, EmptySeq
  <2> QED BY <2>1, <2>3 DEF ReportInv, Exact
<1> QED BY <1>1, TypeInit, TypeStep, ReportInit, ReportStep, PTL DEF Spec

============================================================================
