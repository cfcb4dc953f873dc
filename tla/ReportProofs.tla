---------------------------- MODULE ReportProofs ----------------------------
(***************************************************************************)
(* The report's page under any sequence of clicks, for any pair of files,  *)
(* any servers and any fields: its parts follow one set, hidden.           *)
(***************************************************************************)
EXTENDS Report, FiniteSetTheorems, SequenceTheorems, TLAPS

-----------------------------------------------------------------------------
(* Sorting.                                                                *)

\* R orders S: no two members are before each other, and any two are ordered.
Orders(R, S) ==
    /\ \A x \in S : <<x, x>> \notin R
    /\ \A x, y, z \in S : <<x, y>> \in R /\ <<y, z>> \in R => <<x, z>> \in R
    /\ \A x, y \in S : x = y \/ <<x, y>> \in R \/ <<y, x>> \in R

\* e lists the members of S once each.
Lists(e, S) ==
    /\ e \in [1 .. Cardinality(S) -> S]
    /\ \A i, j \in 1 .. Cardinality(S) : e[i] = e[j] => i = j
    /\ \A x \in S : \E i \in 1 .. Cardinality(S) : e[i] = x

Below(x, R, S) == {y \in S : <<y, x>> \in R}

\* How many are before a member tells the members apart and leaves no gap.
LEMMA RankFacts ==
    ASSUME NEW S, IsFiniteSet(S), NEW R, Orders(R, S)
    PROVE  /\ \A x \in S : Cardinality(Below(x, R, S)) \in 0 .. Cardinality(S) - 1
           /\ \A x, y \in S : <<x, y>> \in R =>
                Cardinality(Below(x, R, S)) < Cardinality(Below(y, R, S))
           /\ \A i \in 1 .. Cardinality(S) : \E x \in S : Cardinality(Below(x, R, S)) = i - 1
<1> DEFINE n == Cardinality(S)
           rank == [x \in S |-> Cardinality(Below(x, R, S)) + 1]
<1>0. n \in Nat
  BY FS_CardinalityType
<1>1. ASSUME NEW x \in S
      PROVE  /\ IsFiniteSet(Below(x, R, S)) /\ Cardinality(Below(x, R, S)) \in Nat
             /\ Cardinality(Below(x, R, S)) < n
  <2>1. Below(x, R, S) \in SUBSET S /\ x \notin Below(x, R, S)
    BY DEF Below, Orders
  <2>2. IsFiniteSet(Below(x, R, S)) /\ Cardinality(Below(x, R, S)) <= n
    BY <2>1, FS_Subset
  <2>3. Cardinality(Below(x, R, S)) # n
    BY <2>1, FS_Subset
  <2>4. Cardinality(Below(x, R, S)) \in Nat
    BY <2>2, FS_CardinalityType
  <2> QED BY <1>0, <2>2, <2>3, <2>4
<1>2. ASSUME NEW x \in S, NEW y \in S, <<x, y>> \in R
      PROVE  Cardinality(Below(x, R, S)) < Cardinality(Below(y, R, S))
  <2>1. Below(x, R, S) \in SUBSET Below(y, R, S)
    BY <1>2 DEF Below, Orders
  <2>2. x \in Below(y, R, S) /\ x \notin Below(x, R, S)
    BY <1>2 DEF Below, Orders
  <2>3. /\ Cardinality(Below(x, R, S)) <= Cardinality(Below(y, R, S))
        /\ Cardinality(Below(x, R, S)) # Cardinality(Below(y, R, S))
    BY <1>1, <2>1, <2>2, FS_Subset
  <2> QED BY <1>1, <2>3
<1>3. rank \in Injection(S, 1 .. n)
  <2>1. \A x \in S : rank[x] \in 1 .. n
    BY <1>0, <1>1
  <2>2. ASSUME NEW x \in S, NEW y \in S, rank[x] = rank[y]
        PROVE  x = y
    <3>1. Cardinality(Below(x, R, S)) = Cardinality(Below(y, R, S))
      BY <1>1, <2>2
    <3>2. ~ (<<x, y>> \in R) /\ ~ (<<y, x>> \in R)
      BY <1>1, <1>2, <3>1
    <3> QED BY <3>2 DEF Orders
  <2>3. rank \in [S -> 1 .. n]
    BY <2>1
  <2> QED BY <2>2, <2>3 DEF Injection, IsInjective
<1>4. IsFiniteSet(1 .. n) /\ Cardinality(1 .. n) = n
  BY <1>0, FS_Interval
<1>5. rank \in Surjection(S, 1 .. n)
  BY <1>3, <1>4, FS_Injection
<1>6. ASSUME NEW i \in 1 .. n
      PROVE  \E x \in S : Cardinality(Below(x, R, S)) = i - 1
  <2>1. PICK x \in S : rank[x] = i
    BY <1>5 DEF Surjection
  <2>2. Cardinality(Below(x, R, S)) + 1 = i
    BY <2>1
  <2> QED BY <1>1, <2>2
<1> QED BY <1>0, <1>1, <1>2, <1>6

\* sorted(): every finite set that is ordered has a listing in order.
LEMMA InOrderFacts ==
    ASSUME NEW S, IsFiniteSet(S), NEW R, Orders(R, S)
    PROVE  /\ Lists(InOrder(S, R), S)
           /\ \A i, j \in 1 .. Cardinality(S) :
                i < j => <<InOrder(S, R)[i], InOrder(S, R)[j]>> \in R
<1> DEFINE n == Cardinality(S)
           c(x) == Cardinality(Below(x, R, S))
           e == [i \in 1 .. n |-> CHOOSE x \in S : c(x) = i - 1]
           f == InOrder(S, R)
<1>0. n \in Nat
  BY FS_CardinalityType
<1>1. \A i \in 1 .. n : e[i] \in S /\ c(e[i]) = i - 1
  BY RankFacts
<1>2. \A x, y \in S : <<x, y>> \in R => c(x) < c(y)
  BY RankFacts
<1>a. \A x \in S : c(x) \in Nat
  BY RankFacts
<1>3. e \in [1 .. n -> S]
  BY <1>1
<1> HIDE DEF e, c
<1>4. ASSUME NEW i \in 1 .. n, NEW j \in 1 .. n, i < j
      PROVE  <<e[i], e[j]>> \in R
  <2>1. e[i] \in S /\ e[j] \in S /\ c(e[i]) = i - 1 /\ c(e[j]) = j - 1
    BY <1>1
  <2>2. e[i] # e[j]
    BY <2>1, <1>0, <1>4
  <2>3. ~ (<<e[j], e[i]>> \in R)
    BY <2>1, <1>0, <1>2, <1>4
  <2> QED BY <2>1, <2>2, <2>3 DEF Orders
<1>5. \E g \in [1 .. n -> S] : \A i, j \in 1 .. n : i < j => <<g[i], g[j]>> \in R
  BY <1>3, <1>4
<1>6. /\ f \in [1 .. n -> S]
      /\ \A i, j \in 1 .. n : i < j => <<f[i], f[j]>> \in R
  BY <1>5 DEF InOrder
<1> HIDE DEF f
<1>7. ASSUME NEW i \in 1 .. n, NEW j \in 1 .. n, f[i] = f[j]
      PROVE  i = j
  <2>1. f[i] \in S /\ <<f[i], f[j]>> \notin R /\ <<f[j], f[i]>> \notin R
    BY <1>6, <1>7 DEF Orders
  <2>2. ~ (i < j) /\ ~ (j < i)
    BY <1>6, <2>1
  <2> QED BY <1>0, <2>2
<1>8. \A x \in S : \E i \in 1 .. n : f[i] = x
  <2>1. f \in Injection(1 .. n, S)
    BY <1>6, <1>7 DEF Injection, IsInjective
  <2>2. Cardinality(1 .. n) = n
    BY <1>0, FS_Interval
  <2>3. f \in Surjection(1 .. n, S)
    BY <2>1, <2>2, FS_Injection
  <2> QED BY <2>3 DEF Surjection
<1>9. Lists(f, S)
  BY <1>6, <1>7, <1>8 DEF Lists
<1> QED BY <1>6, <1>9 DEF f

\* list.sort(key): by key, and those with one key in the order they came in.
LEMMA SortByFacts ==
    ASSUME NEW K \in SUBSET Int, IsFiniteSet(K), NEW seq, NEW key, \A i \in K : key[i] \in Int
    PROVE  \E e : /\ Lists(e, K)
                  /\ SortBy(seq, K, key) = [i \in 1 .. Cardinality(K) |-> seq[e[i]]]
                  /\ \A i, j \in 1 .. Cardinality(K) : i < j =>
                       \/ key[e[i]] < key[e[j]]
                       \/ (key[e[i]] = key[e[j]] /\ e[i] < e[j])
<1> DEFINE R == {p \in K \X K : \/ key[p[1]] < key[p[2]]
                                \/ (key[p[1]] = key[p[2]] /\ p[1] < p[2])}
           n == Cardinality(K)
           e == InOrder(K, R)
<1>1. \A x, y \in K : <<x, y>> \in R <=> \/ key[x] < key[y]
                                         \/ (key[x] = key[y] /\ x < y)
  OBVIOUS
<1>2. SortBy(seq, K, key) = [i \in 1 .. n |-> seq[e[i]]]
  BY DEF SortBy
<1> HIDE DEF R
<1>3. Orders(R, K)
  <2>1. \A x \in K : ~ (<<x, x>> \in R)
    BY <1>1
  <2>2. ASSUME NEW x \in K, NEW y \in K, NEW z \in K, <<x, y>> \in R, <<y, z>> \in R
        PROVE  <<x, z>> \in R
    <3>1. x \in Int /\ y \in Int /\ z \in Int /\ key[x] \in Int /\ key[y] \in Int /\ key[z] \in Int
      OBVIOUS
    <3>2. \/ key[x] < key[y]
          \/ (key[x] = key[y] /\ x < y)
      BY <1>1, <2>2
    <3>3. \/ key[y] < key[z]
          \/ (key[y] = key[z] /\ y < z)
      BY <1>1, <2>2
    <3>4. \/ key[x] < key[z]
          \/ (key[x] = key[z] /\ x < z)
      BY <3>1, <3>2, <3>3
    <3> QED BY <1>1, <3>4
  <2>3. ASSUME NEW x \in K, NEW y \in K
        PROVE  x = y \/ <<x, y>> \in R \/ <<y, x>> \in R
    <3>1. x \in Int /\ y \in Int /\ key[x] \in Int /\ key[y] \in Int
      OBVIOUS
    <3>2. \/ x = y
          \/ key[x] < key[y] \/ (key[x] = key[y] /\ x < y)
          \/ key[y] < key[x] \/ (key[y] = key[x] /\ y < x)
      BY <3>1
    <3> QED BY <1>1, <3>2
  <2> QED BY <2>1, <2>2, <2>3 DEF Orders
<1>4. /\ Lists(e, K)
      /\ \A i, j \in 1 .. n : i < j => <<e[i], e[j]>> \in R
  BY <1>3, InOrderFacts
<1> HIDE DEF e
<1>5. \A i \in 1 .. n : e[i] \in K
  BY <1>4 DEF Lists
<1>6. \A i, j \in 1 .. n : i < j => \/ key[e[i]] < key[e[j]]
                                    \/ (key[e[i]] = key[e[j]] /\ e[i] < e[j])
  BY <1>1, <1>4, <1>5
<1> QED BY <1>2, <1>4, <1>6

\* A list comprehension with a condition.
LEMMA PickFacts ==
    ASSUME NEW K \in SUBSET Int, IsFiniteSet(K), NEW seq
    PROVE  \E e : /\ Lists(e, K)
                  /\ Pick(seq, K) = [i \in 1 .. Cardinality(K) |-> seq[e[i]]]
                  /\ \A i, j \in 1 .. Cardinality(K) : i < j => e[i] < e[j]
<1> DEFINE key == [i \in K |-> i]
<1>1. \A i \in K : key[i] = i /\ key[i] \in Int
  OBVIOUS
<1>2. Pick(seq, K) = SortBy(seq, K, key)
  BY DEF Pick
<1> HIDE DEF key
<1>3. PICK e : /\ Lists(e, K)
               /\ SortBy(seq, K, key) = [i \in 1 .. Cardinality(K) |-> seq[e[i]]]
               /\ \A i, j \in 1 .. Cardinality(K) : i < j =>
                    \/ key[e[i]] < key[e[j]]
                    \/ (key[e[i]] = key[e[j]] /\ e[i] < e[j])
  BY <1>1, SortByFacts
<1>4. \A i \in 1 .. Cardinality(K) : e[i] \in K
  BY <1>3 DEF Lists
<1>5. \A i, j \in 1 .. Cardinality(K) : i < j => e[i] < e[j]
  BY <1>1, <1>3, <1>4
<1> QED BY <1>2, <1>3, <1>5

\* Its elements are those at the positions that were picked.
LEMMA PickRange ==
    ASSUME NEW K \in SUBSET Int, IsFiniteSet(K), NEW seq
    PROVE  /\ Pick(seq, K) \in Seq({seq[i] : i \in K}) /\ Len(Pick(seq, K)) = Cardinality(K)
           /\ Range(Pick(seq, K)) = {seq[i] : i \in K}
<1> DEFINE n == Cardinality(K)
<1>0. n \in Nat
  BY FS_CardinalityType
<1>1. PICK e : Lists(e, K) /\ Pick(seq, K) = [i \in 1 .. n |-> seq[e[i]]]
  BY PickFacts
<1>2. \A i \in 1 .. n : e[i] \in K
  BY <1>1 DEF Lists
<1>3. \A x \in K : \E i \in 1 .. n : e[i] = x
  BY <1>1 DEF Lists
<1>4. DOMAIN Pick(seq, K) = 1 .. n /\ \A i \in 1 .. n : Pick(seq, K)[i] = seq[e[i]]
  BY <1>1
<1>5. Range(Pick(seq, K)) = {seq[i] : i \in K}
  <2>1. \A y : y \in Range(Pick(seq, K)) <=> \E i \in 1 .. n : y = seq[e[i]]
    BY <1>4 DEF Range
  <2>2. \A y : (\E i \in 1 .. n : y = seq[e[i]]) <=> y \in {seq[i] : i \in K}
    BY ZenonT(60), <1>2, <1>3
  <2> QED BY <2>1, <2>2
<1>6. Pick(seq, K) \in [1 .. n -> {seq[i] : i \in K}]
  BY <1>1, <1>2
<1> HIDE DEF n
<1>7. Pick(seq, K) \in Seq({seq[i] : i \in K}) /\ Len(Pick(seq, K)) = n
  BY <1>0, <1>6
<1> QED BY <1>5, <1>7 DEF n

-----------------------------------------------------------------------------
(* What load() has read.                                                   *)

\* The first n lines that have a value of field k[1] for server k[2] under load k[3].
CellsTo(n, k) == {i \in 1 .. n : /\ in.csv[i].server = k[2] /\ in.csv[i].conns = k[3]
                                 /\ in.csv[i].val[k[1]] # Bad}

\* How many of the values in a list are at most v, and how many of those lines.
ListUpTo(vals, v) == {j \in 1 .. Len(vals) : vals[j] <= v}
CellsUpTo(n, k, v) == {i \in CellsTo(n, k) : in.csv[i].val[k[1]] <= v}

Places == Fields \X Names \X Levels

ReadTypes ==
    /\ in \in Inputs /\ line \in 0 .. Len(in.csv)
    /\ status \in {"load", "shown", "empty", "TypeError"}
    /\ data = [k \in Places |-> data[k]]
    /\ \A k \in Places : data[k] \in Seq(Int)
    /\ servers \subseteq Names /\ conns \subseteq Levels

ReadAll ==
    status # "TypeError" =>
      /\ \A i \in 1 .. line : in.csv[i] # Cut
      /\ servers = {in.csv[i].server : i \in 1 .. line}
      /\ conns = {in.csv[i].conns : i \in 1 .. line}

\* Each list holds the values of its lines, each as often as they do.
ReadCounts ==
    status # "TypeError" =>
      \A k \in Places :
        /\ Len(data[k]) = Cardinality(CellsTo(line, k))
        /\ \A v \in Int : Cardinality(ListUpTo(data[k], v)) = Cardinality(CellsUpTo(line, k, v))

ReadInv == ReadTypes /\ ReadAll /\ ReadCounts

LEMMA FileFacts ==
    ASSUME in \in Inputs
    PROVE  /\ in.csv \in Seq(Range(in.csv)) /\ Len(in.csv) \in Nat
           /\ DOMAIN in.csv = 1 .. Len(in.csv)
           /\ \A i \in 1 .. Len(in.csv) : in.csv[i] # Cut =>
                /\ in.csv[i].server \in Names /\ in.csv[i].conns \in Nat
                /\ in.csv[i].conns \in Levels
                /\ \A f \in Fields : in.csv[i].val[f] \in Int \cup {Bad}
<1>1. in.csv \in Seq(Range(in.csv)) /\ \A r \in Range(in.csv) \ {Cut} : Row(r)
  BY ReportConstants DEF Lines
<1>2. Len(in.csv) \in Nat /\ DOMAIN in.csv = 1 .. Len(in.csv)
  BY <1>1
<1>3. \A i \in 1 .. Len(in.csv) : in.csv[i] \in Range(in.csv)
  BY <1>2 DEF Range
<1>4. ASSUME NEW i \in 1 .. Len(in.csv), in.csv[i] # Cut
      PROVE  /\ in.csv[i].server \in Names /\ in.csv[i].conns \in Nat
             /\ in.csv[i].conns \in Levels
             /\ \A f \in Fields : in.csv[i].val[f] \in Int \cup {Bad}
  <2>1. Row(in.csv[i])
    BY <1>1, <1>3, <1>4
  <2>2. in.csv[i].conns \in Levels
    BY <1>2, <1>4 DEF Levels
  <2> QED BY <2>1, <2>2 DEF Row
<1> QED BY <1>1, <1>2, <1>4

LEMMA CellsFinite ==
    ASSUME NEW n \in Nat, NEW k, NEW v
    PROVE  /\ IsFiniteSet(CellsTo(n, k)) /\ IsFiniteSet(CellsUpTo(n, k, v))
           /\ Cardinality(CellsTo(n, k)) \in Nat /\ Cardinality(CellsUpTo(n, k, v)) \in Nat
<1>1. IsFiniteSet(1 .. n)
  BY FS_Interval
<1>2. CellsTo(n, k) \in SUBSET (1 .. n) /\ CellsUpTo(n, k, v) \in SUBSET (1 .. n)
  BY DEF CellsTo, CellsUpTo
<1>3. IsFiniteSet(CellsTo(n, k)) /\ IsFiniteSet(CellsUpTo(n, k, v))
  BY <1>1, <1>2, FS_Subset
<1> QED BY <1>3, FS_CardinalityType

LEMMA ListFinite ==
    ASSUME NEW vals \in Seq(Int), NEW v
    PROVE  /\ IsFiniteSet(ListUpTo(vals, v)) /\ Cardinality(ListUpTo(vals, v)) \in Nat
<1>1. IsFiniteSet(1 .. Len(vals))
  BY FS_Interval
<1>2. ListUpTo(vals, v) \in SUBSET (1 .. Len(vals))
  BY DEF ListUpTo
<1>3. IsFiniteSet(ListUpTo(vals, v))
  BY <1>1, <1>2, FS_Subset
<1> QED BY <1>3, FS_CardinalityType

LEMMA ReadInit == Init => ReadInv
<1> SUFFICES ASSUME Init PROVE ReadInv
  OBVIOUS
<1>1. in \in Inputs /\ line = 0 /\ status = "load" /\ servers = {} /\ conns = {}
  BY DEF Init
<1>2. data = [k \in Places |-> <<>>]
  BY DEF Init, Places
<1>3. Len(in.csv) \in Nat
  BY <1>1, FileFacts
<1>4. ReadTypes
  BY <1>1, <1>2, <1>3 DEF ReadTypes
<1>5. ReadAll
  BY <1>1 DEF ReadAll
<1>6. ASSUME NEW k \in Places
      PROVE  /\ Len(data[k]) = Cardinality(CellsTo(line, k))
             /\ \A v \in Int : Cardinality(ListUpTo(data[k], v)) = Cardinality(CellsUpTo(line, k, v))
  <2>1. data[k] = <<>>
    BY <1>2
  <2>2. CellsTo(line, k) = {}
    BY <1>1 DEF CellsTo
  <2>3. \A v : CellsUpTo(line, k, v) = {}
    BY <2>2 DEF CellsUpTo
  <2>4. \A v : ListUpTo(data[k], v) = {}
    BY <2>1 DEF ListUpTo
  <2>5. Len(data[k]) = 0
    BY <2>1
  <2> QED BY <2>2, <2>3, <2>4, <2>5, FS_EmptySet
<1> QED BY <1>4, <1>5, <1>6 DEF ReadInv, ReadCounts

\* One more line of the file.
LEMMA CellsNext ==
    ASSUME in \in Inputs, NEW n \in Nat, n < Len(in.csv), in.csv[n + 1] # Cut, NEW k, NEW v \in Int
    PROVE  LET row == in.csv[n + 1]
               hit == row.server = k[2] /\ row.conns = k[3] /\ row.val[k[1]] # Bad
           IN  /\ CellsTo(n + 1, k) = IF hit THEN CellsTo(n, k) \cup {n + 1} ELSE CellsTo(n, k)
               /\ CellsUpTo(n + 1, k, v) = IF hit /\ row.val[k[1]] <= v
                                           THEN CellsUpTo(n, k, v) \cup {n + 1}
                                           ELSE CellsUpTo(n, k, v)
               /\ n + 1 \notin CellsTo(n, k) /\ n + 1 \notin CellsUpTo(n, k, v)
<1>1. 1 .. n + 1 = (1 .. n) \cup {n + 1} /\ n + 1 \notin 1 .. n
  OBVIOUS
<1> DEFINE row == in.csv[n + 1]
           hit == row.server = k[2] /\ row.conns = k[3] /\ row.val[k[1]] # Bad
<1>2. CellsTo(n + 1, k) = IF hit THEN CellsTo(n, k) \cup {n + 1} ELSE CellsTo(n, k)
  BY <1>1 DEF CellsTo
<1>3. n + 1 \notin CellsTo(n, k)
  BY <1>1 DEF CellsTo
<1>4. CellsUpTo(n + 1, k, v) = {i \in CellsTo(n + 1, k) : in.csv[i].val[k[1]] <= v}
  BY DEF CellsUpTo
<1>5. CellsUpTo(n, k, v) = {i \in CellsTo(n, k) : in.csv[i].val[k[1]] <= v}
  BY DEF CellsUpTo
<1> HIDE DEF hit
<1>6. CellsUpTo(n + 1, k, v) = IF hit /\ row.val[k[1]] <= v
                               THEN CellsUpTo(n, k, v) \cup {n + 1} ELSE CellsUpTo(n, k, v)
  BY <1>2, <1>4, <1>5
<1> QED BY <1>2, <1>3, <1>5, <1>6 DEF hit

\* One more value in a list.
LEMMA ListNext ==
    ASSUME NEW vals \in Seq(Int), NEW x \in Int, NEW v \in Int
    PROVE  /\ Append(vals, x) \in Seq(Int) /\ Len(Append(vals, x)) = Len(vals) + 1
           /\ ListUpTo(Append(vals, x), v) = IF x <= v THEN ListUpTo(vals, v) \cup {Len(vals) + 1}
                                                       ELSE ListUpTo(vals, v)
           /\ Len(vals) + 1 \notin ListUpTo(vals, v)
<1> DEFINE w == Append(vals, x)
           n == Len(vals)
<1>1. w \in Seq(Int) /\ Len(w) = n + 1 /\ n \in Nat
  OBVIOUS
<1>2. (\A j \in 1 .. n : w[j] = vals[j]) /\ w[n + 1] = x
  OBVIOUS
<1> HIDE DEF w, n
<1>3. 1 .. n + 1 = (1 .. n) \cup {n + 1} /\ n + 1 \notin 1 .. n
  BY <1>1
<1>4. ListUpTo(w, v) = {j \in 1 .. n + 1 : w[j] <= v} /\ ListUpTo(vals, v) = {j \in 1 .. n : vals[j] <= v}
  BY <1>1 DEF ListUpTo, n
<1>5. ListUpTo(w, v) = IF x <= v THEN ListUpTo(vals, v) \cup {n + 1} ELSE ListUpTo(vals, v)
  BY <1>2, <1>3, <1>4
<1> QED BY <1>1, <1>3, <1>4, <1>5 DEF w, n

LEMMA ReadRow ==
    ASSUME ReadInv, LoadRow
    PROVE  ReadInv'
<1> DEFINE n == line
           row == in.csv[n + 1]
<1>0. /\ in \in Inputs /\ n \in 0 .. Len(in.csv) /\ status = "load" /\ n < Len(in.csv)
      /\ line' = n + 1 /\ in' = in /\ n \in Nat
  BY FileFacts DEF ReadInv, ReadTypes, LoadRow
<1>1. Levels' = Levels /\ Places' = Places
  BY <1>0 DEF Levels, Places
<1>2. /\ Len(in.csv) \in Nat /\ n + 1 \in 1 .. Len(in.csv)
  BY <1>0, FileFacts
<1>3. CASE row = Cut
  <2>1. status' = "TypeError" /\ UNCHANGED <<data, servers, conns>>
    BY <1>0, <1>3 DEF LoadRow
  <2>2. ReadTypes'
    BY <1>0, <1>1, <1>2, <2>1 DEF ReadInv, ReadTypes
  <2> QED BY <2>1, <2>2 DEF ReadInv, ReadAll, ReadCounts
<1>4. CASE row # Cut
  <2>0. /\ row.server \in Names /\ row.conns \in Levels
        /\ \A f \in Fields : row.val[f] \in Int \cup {Bad}
    BY <1>0, <1>2, <1>4, FileFacts
  <2>1. /\ servers' = servers \cup {row.server} /\ conns' = conns \cup {row.conns}
        /\ status' = "load"
        /\ data' = [k \in DOMAIN data |->
                      IF k[2] = row.server /\ k[3] = row.conns /\ row.val[k[1]] # Bad
                      THEN Append(data[k], row.val[k[1]]) ELSE data[k]]
    BY <1>0, <1>4 DEF LoadRow
  <2>2. DOMAIN data = Places
    BY DEF ReadInv, ReadTypes
  <2>3. data' = [k \in Places |->
                   IF k[2] = row.server /\ k[3] = row.conns /\ row.val[k[1]] # Bad
                   THEN Append(data[k], row.val[k[1]]) ELSE data[k]]
    BY <2>1, <2>2
  <2> HIDE DEF row
  <2>4. ASSUME NEW k \in Places
        PROVE  /\ data'[k] \in Seq(Int)
               /\ Len(data'[k]) = Cardinality(CellsTo(n + 1, k))
               /\ \A v \in Int : Cardinality(ListUpTo(data'[k], v)) = Cardinality(CellsUpTo(n + 1, k, v))
    <3>1. /\ data[k] \in Seq(Int) /\ Len(data[k]) = Cardinality(CellsTo(n, k))
          /\ \A v \in Int : Cardinality(ListUpTo(data[k], v)) = Cardinality(CellsUpTo(n, k, v))
      BY <1>0 DEF ReadInv, ReadTypes, ReadCounts
    <3>2. k[1] \in Fields
      BY DEF Places
    <3> DEFINE hit == row.server = k[2] /\ row.conns = k[3] /\ row.val[k[1]] # Bad
    <3>3. ASSUME NEW v \in Int
          PROVE  /\ CellsTo(n + 1, k) = IF hit THEN CellsTo(n, k) \cup {n + 1} ELSE CellsTo(n, k)
                 /\ CellsUpTo(n + 1, k, v) = IF hit /\ row.val[k[1]] <= v
                                             THEN CellsUpTo(n, k, v) \cup {n + 1}
                                             ELSE CellsUpTo(n, k, v)
                 /\ n + 1 \notin CellsTo(n, k) /\ n + 1 \notin CellsUpTo(n, k, v)
      BY <1>0, <1>4, CellsNext DEF row
    <3>4. CASE ~ hit
      <4>1. data'[k] = data[k]
        BY <2>3, <3>4
      <4>2. CellsTo(n + 1, k) = CellsTo(n, k)
        BY <3>3, <3>4, 0 \in Int
      <4>3. \A v \in Int : CellsUpTo(n + 1, k, v) = CellsUpTo(n, k, v)
        BY <3>3, <3>4
      <4> QED BY <3>1, <4>1, <4>2, <4>3
    <3>5. CASE hit
      <4> DEFINE x == row.val[k[1]]
      <4>1. data'[k] = Append(data[k], x)
        BY <2>3, <3>5
      <4>2. x \in Int
        BY <2>0, <3>2, <3>5
      <4>3. CellsTo(n + 1, k) = CellsTo(n, k) \cup {n + 1} /\ n + 1 \notin CellsTo(n, k)
        BY <3>3, <3>5, 0 \in Int
      <4>4. Cardinality(CellsTo(n + 1, k)) = Cardinality(CellsTo(n, k)) + 1
        BY <1>0, <4>3, CellsFinite, FS_AddElement
      <4> HIDE DEF x, hit
      <4>5. data'[k] \in Seq(Int) /\ Len(data'[k]) = Len(data[k]) + 1
        BY <3>1, <4>1, <4>2, 0 \in Int, ListNext
      <4>6. ASSUME NEW v \in Int
            PROVE  Cardinality(ListUpTo(data'[k], v)) = Cardinality(CellsUpTo(n + 1, k, v))
        <5>1. /\ ListUpTo(data'[k], v) = IF x <= v THEN ListUpTo(data[k], v) \cup {Len(data[k]) + 1}
                                                   ELSE ListUpTo(data[k], v)
              /\ Len(data[k]) + 1 \notin ListUpTo(data[k], v)
          <6>1. PICK vals \in Seq(Int) : vals = data[k]
            BY <3>1
          <6>2. /\ ListUpTo(Append(vals, x), v) = IF x <= v THEN ListUpTo(vals, v) \cup {Len(vals) + 1}
                                                            ELSE ListUpTo(vals, v)
                /\ Len(vals) + 1 \notin ListUpTo(vals, v)
            BY <4>2, ListNext
          <6> QED BY <4>1, <6>1, <6>2
        <5>2. CellsUpTo(n + 1, k, v) = IF x <= v THEN CellsUpTo(n, k, v) \cup {n + 1}
                                                 ELSE CellsUpTo(n, k, v)
          BY <3>3, <3>5 DEF x
        <5>3. n + 1 \notin CellsUpTo(n, k, v)
          BY <3>3
        <5>4. Cardinality(ListUpTo(data[k], v)) = Cardinality(CellsUpTo(n, k, v))
          BY <3>1
        <5>5. IsFiniteSet(ListUpTo(data[k], v)) /\ IsFiniteSet(CellsUpTo(n, k, v))
          BY <1>0, <3>1, ListFinite, CellsFinite
        <5>6. CASE x <= v
          <6>1. Cardinality(ListUpTo(data'[k], v)) = Cardinality(ListUpTo(data[k], v)) + 1
            BY <5>1, <5>5, <5>6, FS_AddElement
          <6>2. Cardinality(CellsUpTo(n + 1, k, v)) = Cardinality(CellsUpTo(n, k, v)) + 1
            BY <5>2, <5>3, <5>5, <5>6, FS_AddElement
          <6> QED BY <5>4, <6>1, <6>2
        <5>7. CASE ~ (x <= v)
          BY <5>1, <5>2, <5>4, <5>7
        <5> QED BY <5>6, <5>7
      <4> QED BY <3>1, <4>4, <4>5, <4>6
    <3> QED BY <3>4, <3>5
  <2>5. ReadTypes'
    <3>1. data' = [k \in Places |-> data'[k]]
      BY <2>3
    <3>2. \A k \in Places : data'[k] \in Seq(Int)
      BY <2>4
    <3>3. servers' \subseteq Names /\ conns' \subseteq Levels
      BY <2>0, <2>1 DEF ReadInv, ReadTypes
    <3> QED BY <1>0, <1>1, <1>2, <2>1, <3>1, <3>2, <3>3 DEF ReadTypes
  <2>6. ReadAll'
    <3>1. 1 .. n + 1 = (1 .. n) \cup {n + 1}
      BY <1>0
    <3>2. /\ \A i \in 1 .. n : in.csv[i] # Cut
          /\ servers = {in.csv[i].server : i \in 1 .. n}
          /\ conns = {in.csv[i].conns : i \in 1 .. n}
      BY <1>0 DEF ReadInv, ReadAll
    <3>3. \A i \in 1 .. n + 1 : in.csv[i] # Cut
      BY <1>4, <3>1, <3>2 DEF row
    <3>4. servers' = {in.csv[i].server : i \in 1 .. n + 1}
      BY <2>1, <3>1, <3>2 DEF row
    <3>5. conns' = {in.csv[i].conns : i \in 1 .. n + 1}
      BY <2>1, <3>1, <3>2 DEF row
    <3> QED BY <1>0, <3>3, <3>4, <3>5 DEF ReadAll
  <2>7. \A m, k : CellsTo(m, k)' = CellsTo(m, k)
    BY <1>0 DEF CellsTo
  <2>8. \A m, k, v : CellsUpTo(m, k, v)' = CellsUpTo(m, k, v)
    BY <1>0, <2>7 DEF CellsUpTo
  <2>9. ReadCounts'
    <3> SUFFICES ASSUME NEW k \in Places
                 PROVE  /\ Len(data'[k]) = Cardinality(CellsTo(line, k)')
                        /\ \A v \in Int : Cardinality(ListUpTo(data'[k], v))
                                            = Cardinality(CellsUpTo(line, k, v)')
      BY <1>1 DEF ReadCounts, ListUpTo
    <3> QED BY <1>0, <2>4, <2>7, <2>8
  <2> QED BY <2>5, <2>6, <2>9 DEF ReadInv
<1> QED BY <1>3, <1>4

LEMMA ReadSame ==
    ASSUME ReadInv, UNCHANGED <<in, line, data, servers, conns>>,
           status' \in {"load", "shown", "empty", "TypeError"}, status = "TypeError" => status' = "TypeError"
    PROVE  ReadInv'
<1>1. Levels' = Levels /\ Places' = Places
  BY DEF Levels, Places
<1>2. \A m, k : CellsTo(m, k)' = CellsTo(m, k)
  BY DEF CellsTo
<1>3. \A m, k, v : CellsUpTo(m, k, v)' = CellsUpTo(m, k, v)
  BY <1>2 DEF CellsUpTo
<1>4. ReadTypes'
  BY <1>1 DEF ReadInv, ReadTypes
<1>5. ReadAll'
  BY DEF ReadInv, ReadAll
<1>6. ReadCounts'
  <2> SUFFICES ASSUME status' # "TypeError", NEW k \in Places
               PROVE  /\ Len(data[k]) = Cardinality(CellsTo(line, k))
                      /\ \A v \in Int : Cardinality(ListUpTo(data[k], v))
                                          = Cardinality(CellsUpTo(line, k, v))
    BY <1>1, <1>2, <1>3 DEF ReadCounts, ListUpTo
  <2> QED BY DEF ReadInv, ReadCounts
<1> QED BY <1>4, <1>5, <1>6 DEF ReadInv

LEMMA ReadStep == ReadInv /\ [Next]_vars => ReadInv'
<1> SUFFICES ASSUME ReadInv, [Next]_vars PROVE ReadInv'
  OBVIOUS
<1>1. CASE LoadRow
  BY <1>1, ReadRow
<1>2. CASE BuildHtml
  BY <1>2, ReadSame DEF BuildHtml
<1>3. ASSUME UNCHANGED <<in, line, data, servers, conns, status>> PROVE ReadInv'
  BY <1>3, ReadSame DEF ReadInv, ReadTypes
<1> QED BY <1>1, <1>2, <1>3 DEF Next, ShowAll, Click, SelectTab, vars

-----------------------------------------------------------------------------
(* The parts of the page agree.                                            *)

\* The parts of the page.
Shape(pg) ==
    pg = [legend |-> pg.legend, table |-> pg.table, charts |-> pg.charts, pressed |-> pg.pressed,
          dim |-> pg.dim, tab |-> pg.tab, panels |-> pg.panels]

\* Each part as a function of the servers that were clicked away.
Follows(pg, hid) ==
    /\ Shape(pg)
    /\ \A f \in Fields : DOMAIN pg.charts[f].line \subseteq servers \ hid
    /\ pg.pressed = servers \ hid
    /\ pg.dim = {r \in DOMAIN pg.table : r[1] \in hid}
    /\ pg.panels = {pg.tab}
    /\ \A r \in DOMAIN pg.table : r[1] \in servers

PageInv ==
    /\ hidden \subseteq servers
    /\ status # "shown" => hidden = {}
    /\ status = "shown" => Follows(page, hidden)

\* render draws no line of a hidden server.
LEMMA ChartLines ==
    ASSUME NEW hid
    PROVE  \A f \in Fields : DOMAIN Charts(hid)[f].line \subseteq servers \ hid
<1> SUFFICES ASSUME NEW f \in Fields PROVE DOMAIN render(f, hid).line \subseteq servers \ hid
  BY DEF Charts
<1>1. DOMAIN render(f, hid).line = {s \in servers \ hid : Points(f, s) # {}}
  BY DEF render
<1> QED BY <1>1

LEMMA PageInit == Init => PageInv
BY DEF Init, PageInv

\* The page as it is written: nothing is hidden.
LEMMA BuildPage ==
    ASSUME PageInv, BuildHtml
    PROVE  PageInv'
<1>1. status = "load" /\ hidden = {} /\ UNCHANGED <<servers, hidden>>
  BY DEF PageInv, BuildHtml
<1>2. CASE status' # "shown"
  BY <1>1, <1>2 DEF PageInv
<1>3. CASE status' = "shown"
  <2> DEFINE pg == [legend |-> present, table |-> table_html, charts |-> Charts({}),
                    pressed |-> servers, dim |-> {},
                    tab |-> "sat", panels |-> {"sat"}]
  <2>1. page' = pg
    BY <1>3 DEF BuildHtml
  <2>2. \A f \in Fields : DOMAIN Charts({})[f].line \subseteq servers \ {}
    BY ChartLines
  <2>3. \A r \in DOMAIN table_html : r[1] \in servers
    BY DEF table_html
  <2>4. Shape(pg)
    BY DEF Shape
  <2>5. /\ pg.charts = Charts({}) /\ pg.table = table_html /\ pg.pressed = servers
        /\ pg.dim = {} /\ pg.panels = {pg.tab}
    OBVIOUS
  <2> HIDE DEF pg
  <2>6. Follows(pg, {})
    BY <2>2, <2>3, <2>4, <2>5 DEF Follows
  <2>7. Follows(page, hidden)'
    BY <1>1, <2>1, <2>6 DEF Follows
  <2> QED BY <1>1, <1>3, <2>7 DEF PageInv
<1> QED BY <1>2, <1>3

\* What Click and ShowAll do to the page.
LEMMA RefreshPage ==
    ASSUME PageInv, status = "shown", UNCHANGED <<status, servers>>,
           NEW hid, hid \subseteq servers, hidden' = hid, refresh(hid)
    PROVE  PageInv'
<1>1. Follows(page, hidden)
  BY DEF PageInv
<1>2. /\ page'.pressed = servers \ hid
      /\ page'.charts = Charts(hid)
      /\ page'.dim = {r \in DOMAIN page.table : r[1] \in hid}
      /\ page'.table = page.table /\ page'.tab = page.tab /\ page'.panels = page.panels
      /\ Shape(page')
  <2>1. PICK ch, pr, di : /\ ch = Charts(hid) /\ pr = servers \ hid
                          /\ di = {r \in DOMAIN page.table : r[1] \in hid}
    OBVIOUS
  <2>2. page' = [page EXCEPT !.pressed = pr, !.charts = ch, !.dim = di]
    BY <2>1 DEF refresh
  <2>3. Shape(page)
    BY <1>1 DEF Follows
  <2>4. page' = [legend |-> page.legend, table |-> page.table, charts |-> ch, pressed |-> pr,
                 dim |-> di, tab |-> page.tab, panels |-> page.panels]
    BY <2>2, <2>3 DEF Shape
  <2>5. /\ page'.pressed = pr /\ page'.charts = ch /\ page'.dim = di
        /\ page'.table = page.table /\ page'.tab = page.tab /\ page'.panels = page.panels
        /\ page'.legend = page.legend
    BY <2>4
  <2>6. Shape(page')
    BY <2>4, <2>5 DEF Shape
  <2> QED BY <2>1, <2>5, <2>6
<1>3. \A f \in Fields : DOMAIN Charts(hid)[f].line \subseteq servers \ hid
  BY ChartLines
<1>4. Follows(page, hidden)'
  BY <1>1, <1>2, <1>3 DEF Follows
<1> QED BY <1>4 DEF PageInv

LEMMA PageStep == PageInv /\ [Next]_vars => PageInv'
<1> SUFFICES ASSUME PageInv, [Next]_vars PROVE PageInv'
  OBVIOUS
<1>1. CASE LoadRow
  <2>1. status = "load" /\ hidden' = {} /\ status' # "shown"
    BY <1>1 DEF LoadRow, PageInv
  <2> QED BY <2>1 DEF PageInv
<1>2. CASE BuildHtml
  BY <1>2, BuildPage
<1>3. CASE ShowAll
  BY <1>3, RefreshPage DEF ShowAll
<1>4. ASSUME NEW s \in servers, Click(s)
      PROVE  PageInv'
  <2>1. PICK hid : hid = IF s \in hidden THEN hidden \ {s} ELSE hidden \cup {s}
    OBVIOUS
  <2>2. hid \subseteq servers
    BY <2>1 DEF PageInv
  <2>3. hidden' = hid /\ refresh(hid) /\ status = "shown" /\ UNCHANGED <<status, servers>>
    BY <1>4, <2>1 DEF Click, refresh
  <2> QED BY <2>2, <2>3, RefreshPage
<1>5. ASSUME NEW id, SelectTab(id)
      PROVE  PageInv'
  <2>1. Follows(page, hidden) /\ UNCHANGED <<servers, status, hidden>> /\ status = "shown"
    BY <1>5 DEF SelectTab, PageInv
  <2>2. /\ page'.pressed = page.pressed
        /\ page'.charts = page.charts /\ page'.dim = page.dim /\ page'.table = page.table
        /\ page'.tab = id /\ page'.panels = {id} /\ Shape(page')
    BY <1>5, <2>1 DEF SelectTab, Follows, Shape
  <2>3. Follows(page, hidden)'
    BY <2>1, <2>2 DEF Follows
  <2> QED BY <2>1, <2>3 DEF PageInv
<1>6. CASE UNCHANGED vars
  BY <1>6 DEF vars, PageInv, Follows
<1> QED BY <1>1, <1>2, <1>3, <1>4, <1>5, <1>6 DEF Next

-----------------------------------------------------------------------------
(* What the page is made of.                                               *)

Shown(pg, hid) ==
    /\ line = Len(in.csv) /\ servers # {} /\ Range(pg.legend) = servers
    /\ pg.table = table_html /\ pg.charts = Charts(hid)
    /\ IF in.tl = None THEN cards = <<>> ELSE ~ Unreadable(in.tl) /\ cards = Cards(in.tl)

ShownInv ==
    /\ status = "shown" => Shown(page, hidden)
    /\ status # "shown" => page = <<>>

\* The positions of a list that hold one of these names.
LEMMA NamesPicked ==
    ASSUME NEW seq, Lines(seq), NEW T
    PROVE  LET K == {i \in DOMAIN seq : seq[i] \in T}
           IN  Pick(seq, K) \in Seq(T) /\ Range(Pick(seq, K)) = Range(seq) \cap T
<1> DEFINE K == {i \in DOMAIN seq : seq[i] \in T}
<1>1. DOMAIN seq = 1 .. Len(seq) /\ Len(seq) \in Nat
  BY DEF Lines
<1>2. IsFiniteSet(DOMAIN seq)
  BY <1>1, FS_Interval
<1>3. K \in SUBSET Int /\ IsFiniteSet(K)
  BY <1>1, <1>2, FS_Subset
<1>4. {seq[i] : i \in K} = Range(seq) \cap T
  BY DEF Range
<1> HIDE DEF K
<1>5. Pick(seq, K) \in Seq(Range(seq) \cap T) /\ Range(Pick(seq, K)) = Range(seq) \cap T
  BY <1>3, <1>4, PickRange
<1>6. Pick(seq, K) \in Seq(T)
  <2>1. Seq(Range(seq) \cap T) \subseteq Seq(T)
    OBVIOUS
  <2> QED BY <1>5, <2>1
<1> QED BY <1>5, <1>6 DEF K

LEMMA SortedFacts ==
    ASSUME NEW T, T \subseteq Names
    PROVE  Sorted(T) \in Seq(T) /\ Range(Sorted(T)) = T
<1>1. Lines(Alphabet)
  BY ReportConstants
<1>2. Names \cap T = T
  OBVIOUS
<1>3. Sorted(T) \in Seq(T) /\ Range(Sorted(T)) = Range(Alphabet) \cap T
  BY <1>1, NamesPicked DEF Sorted
<1> QED BY <1>2, <1>3 DEF Names

LEMMA RangeConcat ==
    ASSUME NEW A, NEW B, NEW s \in Seq(A), NEW t \in Seq(B)
    PROVE  Range(s \o t) = Range(s) \cup Range(t)
<1> DEFINE m == Len(s)
           n == Len(t)
           C == A \cup B
<1>1. s \in Seq(C) /\ t \in Seq(C)
  <2>1. Seq(A) \subseteq Seq(C) /\ Seq(B) \subseteq Seq(C)
    OBVIOUS
  <2> QED BY <2>1
<1>2. /\ m \in Nat /\ n \in Nat /\ DOMAIN s = 1 .. m /\ DOMAIN t = 1 .. n
      /\ DOMAIN (s \o t) = 1 .. m + n
  BY <1>1
<1>3. /\ \A i \in 1 .. m : (s \o t)[i] = s[i]
      /\ \A i \in 1 .. n : (s \o t)[m + i] = t[i]
  BY <1>1
<1> HIDE DEF m, n
<1>4. ASSUME NEW i \in 1 .. m + n PROVE (s \o t)[i] \in Range(s) \cup Range(t)
  <2>1. CASE i <= m
    <3>1. i \in 1 .. m
      BY <1>2, <2>1
    <3> QED BY <1>2, <1>3, <3>1 DEF Range
  <2>2. CASE i > m
    <3>1. i - m \in 1 .. n /\ m + (i - m) = i
      BY <1>2, <2>2
    <3>2. (s \o t)[i] = t[i - m]
      BY <1>3, <3>1
    <3> QED BY <1>2, <3>1, <3>2 DEF Range
  <2> QED BY <1>2, <2>1, <2>2
<1>5. ASSUME NEW i \in 1 .. m PROVE s[i] \in Range(s \o t)
  <2>1. i \in 1 .. m + n
    BY <1>2
  <2> QED BY <1>2, <1>3, <2>1 DEF Range
<1>6. ASSUME NEW i \in 1 .. n PROVE t[i] \in Range(s \o t)
  <2>1. m + i \in 1 .. m + n
    BY <1>2
  <2> QED BY <1>2, <1>3, <2>1 DEF Range
<1>7. Range(s \o t) \subseteq Range(s) \cup Range(t)
  BY <1>2, <1>4 DEF Range
<1>8. Range(s) \subseteq Range(s \o t) /\ Range(t) \subseteq Range(s \o t)
  BY <1>2, <1>5, <1>6 DEF Range
<1> QED BY <1>7, <1>8

\* The legend has a button for every server of the file.
LEMMA PresentRange ==
    ASSUME servers \subseteq Names
    PROVE  Range(present) = servers
<1> DEFINE a == Pick(ORDER, {i \in DOMAIN ORDER : ORDER[i] \in servers})
           b == Sorted(servers \ Range(ORDER))
<1>1. a \in Seq(servers) /\ Range(a) = Range(ORDER) \cap servers
  <2>1. Lines(ORDER)
    BY ReportConstants
  <2> QED BY <2>1, NamesPicked
<1>2. b \in Seq(servers \ Range(ORDER)) /\ Range(b) = servers \ Range(ORDER)
  BY SortedFacts
<1>3. present = a \o b
  BY DEF present
<1> HIDE DEF a, b
<1>4. Range(a \o b) = Range(a) \cup Range(b)
  BY <1>1, <1>2, RangeConcat
<1> QED BY <1>1, <1>2, <1>3, <1>4

LEMMA ShownInit == Init => ShownInv
BY DEF Init, ShownInv

LEMMA ChartsSame ==
    ASSUME NEW hid, UNCHANGED <<servers, conns, data>>
    PROVE  Charts(hid)' = Charts(hid)
<1>0. servers' = servers /\ conns' = conns /\ data' = data
  OBVIOUS
<1>1. \A f, s : Points(f, s)' = Points(f, s)
  BY <1>0 DEF Points
<1>2. \A f, s : Series(f, s)' = Series(f, s)
  BY <1>0, <1>1 DEF Series, median
<1>3. \A c : xi(c)' = xi(c)
  BY <1>0 DEF xi
<1>4. ASSUME NEW f PROVE render(f, hid)' = render(f, hid)
  BY <1>0, <1>1, <1>2, <1>3 DEF render
<1> QED BY <1>4 DEF Charts

\* What is read is not touched any more once the page is there.
LEMMA ShownSame ==
    ASSUME ShownInv, status = "shown", UNCHANGED <<in, line, data, servers, conns, status, cards>>,
           page'.legend = page.legend, page'.table = page.table, page'.charts = Charts(hidden')
    PROVE  ShownInv'
<1>1. Shown(page, hidden)
  BY DEF ShownInv
<1>2. table_html' = table_html
  BY DEF table_html, median
<1>3. Charts(hidden)' = Charts(hidden')
  <2>1. PICK hid : hid = hidden'
    OBVIOUS
  <2>3. Charts(hid)' = Charts(hid)
    BY ChartsSame
  <2>4. Charts(hidden)' = Charts(hid)
    BY <2>1, <2>3
  <2> QED BY <2>1, <2>4
<1>4. Cards(in.tl)' = Cards(in.tl) /\ Unreadable(in.tl)' = Unreadable(in.tl)
  BY DEF Cards, Unreadable
<1>5. Shown(page, hidden)'
  BY <1>1, <1>2, <1>3, <1>4 DEF Shown
<1> QED BY <1>5 DEF ShownInv

LEMMA ShownStep == ReadInv /\ PageInv /\ ShownInv /\ [Next]_vars => ShownInv'
<1> SUFFICES ASSUME ReadInv, PageInv, ShownInv, [Next]_vars PROVE ShownInv'
  OBVIOUS
<1>1. CASE LoadRow
  BY <1>1 DEF LoadRow, ShownInv
<1>2. CASE BuildHtml
  <2>1. CASE status' # "shown"
    BY <1>2, <2>1 DEF BuildHtml, ShownInv
  <2>2. CASE status' = "shown"
    <3>1. /\ line = Len(in.csv) /\ UNCHANGED <<in, line, data, servers, conns, hidden>>
          /\ servers # {} /\ ~ (in.tl # None /\ Unreadable(in.tl))
          /\ cards' = IF in.tl = None THEN <<>> ELSE Cards(in.tl)
          /\ page' = [legend |-> present, table |-> table_html, charts |-> Charts({}),
                      pressed |-> servers, dim |-> {},
                      tab |-> "sat", panels |-> {"sat"}]
      BY <1>2, <2>2 DEF BuildHtml
    <3>2. hidden = {}
      BY <1>2 DEF PageInv, BuildHtml
    <3>3. Range(present) = servers
      BY PresentRange DEF ReadInv, ReadTypes
    <3>4. table_html' = table_html
      BY <3>1 DEF table_html, median
    <3>5. Charts(hidden)' = Charts({})
      <4>1. PICK hid : hid = hidden'
        OBVIOUS
      <4>2. Charts(hid)' = Charts(hid)
        BY <3>1, ChartsSame
      <4>3. Charts(hidden)' = Charts(hid)
        BY <4>1, <4>2
      <4>4. hid = {}
        BY <3>1, <3>2, <4>1
      <4> QED BY <4>3, <4>4
    <3>6. page'.legend = present /\ page'.table = table_html /\ page'.charts = Charts({})
      BY <3>1
    <3>7. Shown(page, hidden)'
      BY <3>1, <3>3, <3>4, <3>5, <3>6 DEF Shown, Unreadable
    <3> QED BY <2>2, <3>7 DEF ShownInv
  <2> QED BY <2>1, <2>2
<1>3. ASSUME NEW hid, status = "shown", hidden' = hid, refresh(hid),
             UNCHANGED <<in, line, data, servers, conns, status, cards>>
      PROVE  ShownInv'
  <2>1. Shape(page)
    BY <1>3 DEF PageInv, Follows
  <2>2. PICK ch, pr, di : /\ ch = Charts(hid) /\ pr = servers \ hid
                          /\ di = {r \in DOMAIN page.table : r[1] \in hid}
    OBVIOUS
  <2>3. page' = [page EXCEPT !.pressed = pr, !.charts = ch, !.dim = di]
    BY <1>3, <2>2 DEF refresh
  <2>4. page'.legend = page.legend /\ page'.table = page.table /\ page'.charts = ch
    BY <2>1, <2>3 DEF Shape
  <2> QED BY <1>3, <2>2, <2>4, ShownSame
<1>4. CASE ShowAll
  BY <1>3, <1>4 DEF ShowAll
<1>5. ASSUME NEW s \in servers, Click(s)
      PROVE  ShownInv'
  <2>1. PICK hid : hid = IF s \in hidden THEN hidden \ {s} ELSE hidden \cup {s}
    OBVIOUS
  <2>2. hidden' = hid /\ refresh(hid) /\ status = "shown"
    BY <1>5, <2>1 DEF Click, refresh
  <2> QED BY <1>3, <1>5, <2>2 DEF Click
<1>6. ASSUME NEW id, SelectTab(id)
      PROVE  ShownInv'
  <2>1. Shape(page) /\ page.charts = Charts(hidden)
    BY <1>6 DEF SelectTab, PageInv, Follows, ShownInv, Shown
  <2>2. page'.legend = page.legend /\ page'.table = page.table /\ page'.charts = page.charts
    BY <1>6, <2>1 DEF SelectTab, Shape
  <2> QED BY <1>6, <2>1, <2>2, ShownSame DEF SelectTab
<1>7. CASE UNCHANGED vars
  <2>1. CASE status = "shown"
    BY <1>7, <2>1, ShownSame DEF vars, ShownInv, Shown
  <2>2. CASE status # "shown"
    BY <1>7, <2>2 DEF vars, ShownInv
  <2> QED BY <2>1, <2>2
<1> QED BY <1>1, <1>2, <1>4, <1>5, <1>6, <1>7 DEF Next

ReportInv == ReadInv /\ PageInv /\ ShownInv

LEMMA ReportAlways == Spec => []ReportInv
<1>1. Init => ReportInv
  BY ReadInit, PageInit, ShownInit DEF ReportInv
<1>2. ReportInv /\ [Next]_vars => ReportInv'
  BY ReadStep, PageStep, ShownStep DEF ReportInv
<1> QED BY <1>1, <1>2, PTL DEF Spec

\* load() keeps only numbers, and a page is written exactly when the CSV held a server,
\* with a button in its legend for every server of the file and for no other
\* (load, main and legend_html of plot.py).
THEOREM ReportTypes == Spec => []TypeOK
<1>1. ReportInv => TypeOK
  <2> SUFFICES ASSUME ReportInv PROVE TypeOK
    OBVIOUS
  <2>1. ASSUME NEW k \in DOMAIN data PROVE Bad \notin Range(data[k])
    <3>1. data[k] \in Seq(Int)
      BY <2>1 DEF ReportInv, ReadInv, ReadTypes
    <3>2. \A i \in DOMAIN data[k] : data[k][i] \in Int
      BY <3>1
    <3> QED BY <3>2, ReportConstants DEF Range
  <2>2. (status = "shown") <=> (DOMAIN page # {})
    <3>1. ASSUME status = "shown" PROVE DOMAIN page # {}
      <4>1. Shape(page)
        BY <3>1 DEF ReportInv, PageInv, Follows
      <4>2. "tab" \in DOMAIN page
        BY <4>1 DEF Shape
      <4> QED BY <4>2
    <3>2. ASSUME status # "shown" PROVE DOMAIN page = {}
      <4>1. page = <<>>
        BY <3>2 DEF ReportInv, ShownInv
      <4> QED BY <4>1
    <3> QED BY <3>1, <3>2
  <2>3. status = "shown" => servers # {} /\ Range(page.legend) = servers
    BY DEF ReportInv, ShownInv, Shown
  <2> QED BY <2>1, <2>2, <2>3 DEF TypeOK, ReportInv, ReadInv, ReadTypes, PageInv
<1> QED BY <1>1, ReportAlways, PTL

-----------------------------------------------------------------------------
(* Medians.                                                                *)

LEMMA ListMonotone ==
    ASSUME NEW vals \in Seq(Int), NEW v \in Int, NEW w \in Int, v <= w
    PROVE  Cardinality(ListUpTo(vals, v)) <= Cardinality(ListUpTo(vals, w))
<1>1. \A j \in 1 .. Len(vals) : vals[j] \in Int
  OBVIOUS
<1>2. ListUpTo(vals, v) \in SUBSET ListUpTo(vals, w)
  BY <1>1 DEF ListUpTo
<1> QED BY <1>2, ListFinite, FS_Subset

LEMMA SortPositions ==
    ASSUME NEW n \in Nat, NEW vals, \A i \in 1 .. n : vals[i] \in Int
    PROVE  \E e : /\ e \in [1 .. n -> 1 .. n]
                  /\ \A i, j \in 1 .. n : e[i] = e[j] => i = j
                  /\ \A j \in 1 .. n : \E i \in 1 .. n : e[i] = j
                  /\ SortBy(vals, 1 .. n, vals) = [i \in 1 .. n |-> vals[e[i]]]
                  /\ \A i, j \in 1 .. n : i <= j => vals[e[i]] <= vals[e[j]]
<1>0. PICK K : K = 1 .. n
  OBVIOUS
<1>1. IsFiniteSet(K) /\ Cardinality(K) = n
  BY <1>0, FS_Interval
<1>2. K \in SUBSET Int /\ \A i \in K : vals[i] \in Int
  BY <1>0
<1>3. PICK e : /\ Lists(e, K)
               /\ SortBy(vals, K, vals) = [i \in 1 .. Cardinality(K) |-> vals[e[i]]]
               /\ \A i, j \in 1 .. Cardinality(K) : i < j =>
                    \/ vals[e[i]] < vals[e[j]]
                    \/ (vals[e[i]] = vals[e[j]] /\ e[i] < e[j])
  BY <1>1, <1>2, SortByFacts
<1>4. /\ e \in [1 .. n -> 1 .. n]
      /\ \A i, j \in 1 .. n : e[i] = e[j] => i = j
      /\ \A j \in 1 .. n : \E i \in 1 .. n : e[i] = j
  BY <1>0, <1>1, <1>3 DEF Lists
<1>5. ASSUME NEW i \in 1 .. n, NEW j \in 1 .. n, i <= j
      PROVE  vals[e[i]] <= vals[e[j]]
  <2>0. e[i] \in 1 .. n /\ e[j] \in 1 .. n
    BY <1>4
  <2>1. vals[e[i]] \in Int /\ vals[e[j]] \in Int /\ i \in Nat /\ j \in Nat
    BY <2>0
  <2>2. i < j => vals[e[i]] < vals[e[j]] \/ vals[e[i]] = vals[e[j]]
    BY <1>1, <1>3
  <2>3. CASE i < j
    BY <2>1, <2>2, <2>3
  <2>4. CASE i = j
    BY <2>1, <2>4
  <2> QED BY <1>5, <2>1, <2>3, <2>4
<1> QED BY <1>0, <1>1, <1>3, <1>4, <1>5

\* The m-th value of a sorted list: m values are at most that, fewer are less.
LEMMA SortedRank ==
    ASSUME NEW vals \in Seq(Int), NEW m \in 1 .. Len(vals)
    PROVE  LET s == SortBy(vals, DOMAIN vals, vals)
           IN  /\ s[m] \in Int
               /\ m <= Cardinality(ListUpTo(vals, s[m]))
               /\ Cardinality(ListUpTo(vals, s[m] - 1)) < m
<1> DEFINE n == Len(vals)
           K == DOMAIN vals
           s == SortBy(vals, K, vals)
<1>1. n \in Nat /\ K = 1 .. n /\ \A i \in 1 .. n : vals[i] \in Int
  OBVIOUS
<1>a. m \in 1 .. n /\ m \in Nat
  OBVIOUS
<1> HIDE DEF n, K
<1>4. PICK e : /\ e \in [1 .. n -> 1 .. n]
               /\ \A i, j \in 1 .. n : e[i] = e[j] => i = j
               /\ \A j \in 1 .. n : \E i \in 1 .. n : e[i] = j
               /\ SortBy(vals, 1 .. n, vals) = [i \in 1 .. n |-> vals[e[i]]]
               /\ \A i, j \in 1 .. n : i <= j => vals[e[i]] <= vals[e[j]]
  BY <1>1, SortPositions
<1>5. /\ e \in [1 .. n -> 1 .. n]
      /\ \A i, j \in 1 .. n : e[i] = e[j] => i = j
      /\ \A j \in 1 .. n : \E i \in 1 .. n : e[i] = j
  BY <1>4
<1>b. s = [i \in 1 .. n |-> vals[e[i]]]
  BY <1>1, <1>4
<1> HIDE DEF s
<1>6. s[m] = vals[e[m]] /\ e[m] \in 1 .. n /\ s[m] \in Int
  BY <1>1, <1>a, <1>b, <1>5
<1> DEFINE x == s[m]
<1>7. \A i, j \in 1 .. n : i <= j => vals[e[i]] <= vals[e[j]]
  BY <1>4
<1>8. m <= Cardinality(ListUpTo(vals, x))
  <2> DEFINE g == [i \in 1 .. m |-> e[i]]
             T == ListUpTo(vals, x)
  <2>1. ASSUME NEW i \in 1 .. m PROVE e[i] \in T
    <3>1. i \in 1 .. n /\ i <= m
      BY <1>1, <1>a
    <3>2. vals[e[i]] <= vals[e[m]]
      BY <1>7, <1>a, <3>1
    <3> QED BY <1>5, <1>6, <3>1, <3>2 DEF ListUpTo, n
  <2>2. g \in [1 .. m -> T]
    BY <2>1
  <2>a. \A i \in 1 .. m : g[i] = e[i] /\ i \in 1 .. n
    BY <1>1, <1>a
  <2>3. \A i, j \in 1 .. m : g[i] = g[j] => i = j
    BY <1>5, <2>a
  <2>4. g \in Injection(1 .. m, T)
    BY <2>2, <2>3 DEF Injection, IsInjective
  <2>5. IsFiniteSet(T)
    BY ListFinite
  <2>6. Cardinality(1 .. m) <= Cardinality(T)
    BY <2>4, <2>5, FS_Injection
  <2>7. Cardinality(1 .. m) = m
    BY <1>a, FS_Interval
  <2> QED BY <2>6, <2>7
<1>9. Cardinality(ListUpTo(vals, x - 1)) < m
  <2> DEFINE T == ListUpTo(vals, x - 1)
             g == [j \in T |-> CHOOSE i \in 1 .. m - 1 : e[i] = j]
  <2>1. ASSUME NEW j \in T PROVE \E i \in 1 .. m - 1 : e[i] = j
    <3>1. j \in 1 .. n /\ vals[j] <= x - 1
      BY DEF ListUpTo, n
    <3>2. PICK i \in 1 .. n : e[i] = j
      BY <1>5, <3>1
    <3>3. vals[e[i]] < vals[e[m]] /\ vals[j] \in Int
      BY <1>1, <1>6, <3>1, <3>2
    <3>4. i < m
      <4>1. SUFFICES ASSUME m <= i PROVE FALSE
        BY <1>a, <3>2
      <4>2. vals[e[m]] <= vals[e[i]]
        BY <1>a, <1>7, <3>2, <4>1
      <4> QED BY <1>1, <1>6, <3>1, <3>2, <3>3, <4>2
    <3>5. i \in 1 .. m - 1
      BY <1>a, <3>2, <3>4
    <3> QED BY <3>2, <3>5
  <2>2. \A j \in T : g[j] \in 1 .. m - 1 /\ e[g[j]] = j
    BY <2>1
  <2>3. g \in Injection(T, 1 .. m - 1)
    <3>1. g \in [T -> 1 .. m - 1]
      BY <2>2
    <3> QED BY <2>2, <3>1 DEF Injection, IsInjective
  <2>4. IsFiniteSet(1 .. m - 1) /\ Cardinality(1 .. m - 1) = m - 1
    BY <1>a, FS_Interval
  <2>5. Cardinality(T) <= m - 1
    BY <2>3, <2>4, FS_Injection
  <2>6. Cardinality(T) \in Nat
    BY ListFinite
  <2> QED BY <1>a, <2>5, <2>6
<1> QED BY <1>6, <1>8, <1>9 DEF s, K

\* All the lines were read: the lists are those of the file.
LEMMA AllRead ==
    ASSUME ReportInv, status = "shown"
    PROVE  /\ in \in Inputs /\ Len(in.csv) \in Nat /\ line = Len(in.csv)
           /\ \A i \in 1 .. Len(in.csv) :
                /\ in.csv[i] # Cut /\ in.csv[i].server \in servers /\ in.csv[i].conns \in conns
                /\ \A f \in Fields : in.csv[i].val[f] \in Int \cup {Bad}
           /\ conns = Levels /\ servers \subseteq Names /\ conns \subseteq Nat
           /\ data = [k \in Places |-> data[k]]
           /\ \A k \in Places :
                /\ data[k] \in Seq(Int) /\ Len(data[k]) = Cardinality(CellsTo(Len(in.csv), k))
                /\ \A v \in Int : Cardinality(ListUpTo(data[k], v))
                                    = Cardinality(CellsUpTo(Len(in.csv), k, v))
<1>1. in \in Inputs /\ line = Len(in.csv) /\ status # "TypeError"
  BY DEF ReportInv, ReadInv, ReadTypes, ShownInv, Shown
<1>2. /\ Len(in.csv) \in Nat /\ DOMAIN in.csv = 1 .. Len(in.csv)
      /\ \A i \in 1 .. Len(in.csv) : in.csv[i] # Cut =>
           /\ in.csv[i].conns \in Nat
           /\ \A f \in Fields : in.csv[i].val[f] \in Int \cup {Bad}
  BY <1>1, FileFacts
<1>3. /\ \A i \in 1 .. Len(in.csv) : in.csv[i] # Cut
      /\ servers = {in.csv[i].server : i \in 1 .. Len(in.csv)}
      /\ conns = {in.csv[i].conns : i \in 1 .. Len(in.csv)}
  BY <1>1 DEF ReportInv, ReadInv, ReadAll
<1>4. \A i \in 1 .. Len(in.csv) : in.csv[i].server \in servers /\ in.csv[i].conns \in conns
  BY <1>3
<1>5. conns = Levels /\ conns \subseteq Nat
  BY <1>2, <1>3 DEF Levels
<1>6. /\ data = [k \in Places |-> data[k]] /\ servers \subseteq Names
      /\ \A k \in Places : data[k] \in Seq(Int)
  BY DEF ReportInv, ReadInv, ReadTypes
<1>7. \A k \in Places : /\ Len(data[k]) = Cardinality(CellsTo(Len(in.csv), k))
                        /\ \A v \in Int : Cardinality(ListUpTo(data[k], v))
                                            = Cardinality(CellsUpTo(Len(in.csv), k, v))
  BY <1>1 DEF ReportInv, ReadInv, ReadCounts
<1> QED BY <1>1, <1>2, <1>3, <1>4, <1>5, <1>6, <1>7

LEMMA CellsAre ==
    ASSUME ReportInv, status = "shown", NEW f \in Fields, NEW s \in Names, NEW c \in Levels
    PROVE  /\ <<f, s, c>> \in Places /\ Cells(f, s, c) = CellsTo(Len(in.csv), <<f, s, c>>)
           /\ data[<<f, s, c>>] = <<>> <=> Cells(f, s, c) = {}
           /\ Cells(f, s, c) # {} => s \in servers
<1>1. in \in Inputs
  BY AllRead
<1>2. DOMAIN in.csv = 1 .. Len(in.csv)
  BY <1>1, FileFacts
<1>3. <<f, s, c>> \in Places
  BY DEF Places
<1>4. Cells(f, s, c) = CellsTo(Len(in.csv), <<f, s, c>>)
  BY <1>2 DEF Cells, CellsTo
<1>5. data[<<f, s, c>>] \in Seq(Int) /\ Len(data[<<f, s, c>>]) = Cardinality(Cells(f, s, c))
  BY <1>3, <1>4, AllRead
<1>6. IsFiniteSet(Cells(f, s, c))
  <2>1. Len(in.csv) \in Nat
    BY AllRead
  <2> QED BY <1>4, <2>1, CellsFinite
<1>7. Cardinality(Cells(f, s, c)) = 0 <=> Cells(f, s, c) = {}
  BY <1>6, FS_EmptySet
<1>8. data[<<f, s, c>>] = <<>> <=> Len(data[<<f, s, c>>]) = 0
  BY <1>5
<1>9. Cells(f, s, c) # {} => s \in servers
  BY <1>2, AllRead DEF Cells
<1> QED BY <1>3, <1>4, <1>5, <1>7, <1>8, <1>9

\* The m-th of the sorted list is the m-th smallest value of the lines.
LEMMA KthIs ==
    ASSUME ReportInv, status = "shown", NEW f \in Fields, NEW s \in Names, NEW c \in Levels,
           NEW m \in 1 .. Len(data[<<f, s, c>>])
    PROVE  /\ Kth(m, f, s, c) = SortBy(data[<<f, s, c>>], DOMAIN data[<<f, s, c>>], data[<<f, s, c>>])[m]
           /\ \E i \in 1 .. Len(in.csv) : in.csv[i].val[f] # Bad /\ Kth(m, f, s, c) = in.csv[i].val[f]
<1> DEFINE k == <<f, s, c>>
           vals == data[k]
           x == SortBy(vals, DOMAIN vals, vals)[m]
           n == Len(in.csv)
           V == CellsTo(n, k)
           v(i) == in.csv[i].val[f]
           U(w) == CellsUpTo(n, k, w)
           P(i) == /\ Cardinality({j \in V : v(j) < v(i)}) < m
                   /\ m <= Cardinality({j \in V : v(j) <= v(i)})
<1>1. vals \in Seq(Int) /\ k \in Places /\ k[1] = f /\ n \in Nat /\ m \in Nat
  BY AllRead, CellsAre
<1>2. \A w \in Int : Cardinality(ListUpTo(vals, w)) = Cardinality(U(w))
  BY <1>1, AllRead
<1>3. x \in Int /\ m <= Cardinality(ListUpTo(vals, x)) /\ Cardinality(ListUpTo(vals, x - 1)) < m
  BY <1>1, SortedRank
<1>4. V \subseteq 1 .. n /\ \A i \in V : v(i) \in Int
  <2>1. \A i \in V : i \in 1 .. n /\ v(i) # Bad
    BY <1>1 DEF CellsTo
  <2> QED BY <2>1, AllRead
<1>5. \A w : U(w) = {j \in V : v(j) <= w}
  BY <1>1 DEF CellsUpTo
<1>6. Kth(m, f, s, c) = v(CHOOSE i \in V : P(i))
  BY CellsAre DEF Kth
<1>a. \A w \in Int : IsFiniteSet(U(w)) /\ Cardinality(U(w)) \in Nat
  BY <1>1, CellsFinite
<1> HIDE DEF x, vals, V, U
<1>7. ASSUME NEW w \in Int PROVE {j \in V : v(j) < w} = U(w - 1) /\ {j \in V : v(j) <= w} = U(w)
  <2>1. \A j \in V : v(j) < w <=> v(j) <= w - 1
    BY <1>4
  <2> QED BY <1>5, <2>1
<1>8. \A i \in V : P(i) <=> Cardinality(U(v(i) - 1)) < m /\ m <= Cardinality(U(v(i)))
  BY <1>4, <1>7
<1> HIDE DEF v, P
<1>9. PICK i \in V : v(i) = x
  <2>1. x \in Int /\ x - 1 \in Int
    BY <1>3
  <2>2. m <= Cardinality(U(x)) /\ Cardinality(U(x - 1)) < m
    BY <1>2, <1>3, <2>1
  <2>3. U(x) # U(x - 1)
    BY <1>1, <1>a, <2>1, <2>2
  <2>4. U(x - 1) \subseteq U(x)
    <3>1. \A h \in V : v(h) <= x - 1 => v(h) <= x
      BY <1>3, <1>4
    <3> QED BY <1>5, <3>1
  <2>5. PICK i \in U(x) : i \notin U(x - 1)
    BY <2>3, <2>4
  <2>6. i \in V /\ v(i) <= x /\ ~ (v(i) <= x - 1)
    BY <1>5, <2>5
  <2> QED BY <1>3, <1>4, <2>6
<1>10. P(i)
  <2>1. x \in Int /\ x - 1 \in Int
    BY <1>3
  <2> QED BY <1>2, <1>3, <1>8, <1>9, <2>1
<1>11. PICK j \in V : j = (CHOOSE h \in V : P(h)) /\ P(j)
  BY <1>10
<1>12. ASSUME NEW a \in Int, NEW b \in Int, a < b, m <= Cardinality(U(a)), Cardinality(U(b - 1)) < m
       PROVE  FALSE
  <2>1. a \in Int /\ b - 1 \in Int /\ a <= b - 1
    BY <1>12
  <2>2. U(a) \in SUBSET U(b - 1)
    <3>1. \A h \in V : v(h) <= a => v(h) <= b - 1
      BY <1>4, <2>1
    <3> QED BY <1>5, <3>1
  <2>3. Cardinality(U(a)) <= Cardinality(U(b - 1))
    BY <1>a, <2>1, <2>2, FS_Subset
  <2> QED BY <1>1, <1>a, <1>12, <2>1, <2>3
<1>13. v(j) = x
  <2>1. v(j) \in Int /\ Cardinality(U(v(j) - 1)) < m /\ m <= Cardinality(U(v(j)))
    BY <1>4, <1>8, <1>11
  <2>2. Cardinality(U(x - 1)) < m /\ m <= Cardinality(U(x))
    BY <1>8, <1>9, <1>10
  <2>3. ~ (v(j) < x) /\ ~ (x < v(j))
    BY <1>3, <1>12, <2>1, <2>2
  <2> QED BY <1>3, <2>1, <2>3
<1>14. j \in 1 .. n /\ in.csv[j].val[f] # Bad
  BY <1>4, ReportConstants DEF v
<1> QED BY <1>6, <1>11, <1>13, <1>14 DEF x, vals, v

LEMMA Halves ==
    ASSUME NEW n \in Nat \ {0}
    PROVE  /\ (n + 1) \div 2 \in 1 .. n /\ n \div 2 + 1 \in 1 .. n
           /\ n % 2 = 1 => (n + 1) \div 2 = n \div 2 + 1
           /\ n % 2 # 1 => (n + 1) \div 2 = n \div 2
OBVIOUS

LEMMA HalfTwice ==
    ASSUME NEW x \in Int
    PROVE  (x + x) \div 2 = x
OBVIOUS

\* statistics.median of a list is the median of the lines it was read from.
LEMMA MedianIs ==
    ASSUME ReportInv, status = "shown", NEW f \in Fields, NEW s \in Names, NEW c \in Levels,
           data[<<f, s, c>>] # <<>>
    PROVE  median(data[<<f, s, c>>]) = MedianRef(f, s, c) /\ MedianRef(f, s, c) \in Int
<1> DEFINE vals == data[<<f, s, c>>]
           n == Len(vals)
           t == SortBy(vals, DOMAIN vals, vals)
<1>1. vals \in Seq(Int) /\ n = Cardinality(Cells(f, s, c))
  BY AllRead, CellsAre
<1>2. n \in Nat \ {0}
  BY <1>1
<1>3. \A m \in 1 .. n : Kth(m, f, s, c) = t[m] /\ t[m] \in Int
  BY <1>1, KthIs, SortedRank
<1>4. median(vals) = IF n % 2 = 1 THEN t[(n + 1) \div 2] ELSE (t[n \div 2] + t[n \div 2 + 1]) \div 2
  BY DEF median
<1>5. MedianRef(f, s, c) = (Kth((n + 1) \div 2, f, s, c) + Kth(n \div 2 + 1, f, s, c)) \div 2
  BY <1>1 DEF MedianRef
<1> HIDE DEF vals, n, t
<1>6. MedianRef(f, s, c) = (t[(n + 1) \div 2] + t[n \div 2 + 1]) \div 2
  BY <1>2, <1>3, <1>5, Halves
<1>a. MedianRef(f, s, c) \in Int
  <2>1. t[(n + 1) \div 2] \in Int /\ t[n \div 2 + 1] \in Int
    BY <1>2, <1>3, Halves
  <2> QED BY <1>6, <2>1
<1>7. CASE n % 2 = 1
  <2>1. (n + 1) \div 2 = n \div 2 + 1 /\ (n + 1) \div 2 \in 1 .. n
    BY <1>2, <1>7, Halves
  <2>2. MedianRef(f, s, c) = (t[(n + 1) \div 2] + t[(n + 1) \div 2]) \div 2
    BY <1>6, <2>1
  <2>3. t[(n + 1) \div 2] \in Int
    BY <1>3, <2>1
  <2> QED BY <1>4, <1>7, <1>a, <2>2, <2>3, HalfTwice DEF vals
<1>8. CASE n % 2 # 1
  <2>1. (n + 1) \div 2 = n \div 2
    BY <1>2, <1>8, Halves
  <2> QED BY <1>4, <1>6, <1>8, <1>a, <2>1 DEF vals
<1> QED BY <1>7, <1>8

\* Which loads a server has values for.
Has(f, s) == {c \in Levels : Cells(f, s, c) # {}}

LEMMA PointsAre ==
    ASSUME ReportInv, status = "shown", NEW f \in Fields, NEW s \in Names
    PROVE  /\ Points(f, s) = Has(f, s)
           /\ Series(f, s) = [c \in Has(f, s) |-> MedianRef(f, s, c)]
           /\ Has(f, s) # {} => s \in servers
<1>1. conns = Levels
  BY AllRead
<1>2. Points(f, s) = Has(f, s)
  BY <1>1, CellsAre DEF Points, Has
<1>3. \A c \in Has(f, s) : median(data[<<f, s, c>>]) = MedianRef(f, s, c)
  BY CellsAre, MedianIs DEF Has
<1>4. Series(f, s) = [c \in Has(f, s) |-> MedianRef(f, s, c)]
  BY <1>2, <1>3 DEF Series
<1>5. Has(f, s) # {} => s \in servers
  BY CellsAre DEF Has
<1> QED BY <1>2, <1>4, <1>5

\* What render draws: for the servers that are visible, a point for every load.
LEMMA ChartIs ==
    ASSUME ReportInv, status = "shown", NEW f \in Fields
    PROVE  LET drawn == page.charts[f].line
               top == page.charts[f].top
           IN  /\ \A s \in Names : s \in DOMAIN drawn <=> (Has(f, s) # {} /\ s \in page.pressed)
               /\ DOMAIN drawn \subseteq servers
               /\ \A s \in DOMAIN drawn :
                    drawn[s] = {[c |-> c, v |-> MedianRef(f, s, c), x |-> xpos(xi(c), Cardinality(conns)),
                                 y |-> Y(MedianRef(f, s, c), top)] : c \in Has(f, s)}
               /\ top = ymax(UNION {{MedianRef(f, s, c) : c \in Has(f, s)} : s \in DOMAIN drawn})
<1> DEFINE drawn == page.charts[f].line
           visible == {s \in servers \ hidden : Points(f, s) # {}}
           top == ymax(UNION {Range(Series(f, s)) : s \in visible})
<1>1. page.charts = Charts(hidden) /\ page.pressed = servers \ hidden
  BY DEF ReportInv, ShownInv, Shown, PageInv, Follows
<1>2. page.charts[f] = render(f, hidden)
  BY <1>1 DEF Charts
<1>3. /\ page.charts[f].top = top
      /\ drawn = [s \in visible |->
                    {[c |-> c, v |-> Series(f, s)[c], x |-> xpos(xi(c), Cardinality(conns)),
                      y |-> Y(Series(f, s)[c], top)] : c \in Points(f, s)}]
  BY <1>2 DEF render
<1> HIDE DEF drawn
<1>4. servers \subseteq Names
  BY AllRead
<1>5. DOMAIN drawn = visible
  BY <1>3
<1>6. \A s \in Names : s \in visible <=> (Has(f, s) # {} /\ s \in page.pressed)
  BY <1>1, <1>4, PointsAre
<1> HIDE DEF top
<1>7. ASSUME NEW s \in visible
      PROVE  /\ drawn[s] = {[c |-> c, v |-> MedianRef(f, s, c), x |-> xpos(xi(c), Cardinality(conns)),
                             y |-> Y(MedianRef(f, s, c), top)] : c \in Has(f, s)}
             /\ Range(Series(f, s)) = {MedianRef(f, s, c) : c \in Has(f, s)}
  <2>1. s \in Names
    BY <1>4
  <2>2. Points(f, s) = Has(f, s) /\ Series(f, s) = [c \in Has(f, s) |-> MedianRef(f, s, c)]
    BY <2>1, PointsAre
  <2>3. \A c \in Has(f, s) : Series(f, s)[c] = MedianRef(f, s, c)
    BY <2>2
  <2>4. drawn[s] = {[c |-> c, v |-> Series(f, s)[c], x |-> xpos(xi(c), Cardinality(conns)),
                     y |-> Y(Series(f, s)[c], top)] : c \in Points(f, s)}
    BY <1>3
  <2>5. Range(Series(f, s)) = {MedianRef(f, s, c) : c \in Has(f, s)}
    BY <2>2 DEF Range
  <2> QED BY <2>2, <2>3, <2>4, <2>5
<1>8. top = ymax(UNION {{MedianRef(f, s, c) : c \in Has(f, s)} : s \in visible})
  <2> DEFINE read(s) == Range(Series(f, s))
             meds(s) == {MedianRef(f, s, c) : c \in Has(f, s)}
  <2>1. \A s \in visible : read(s) = meds(s)
    BY <1>7
  <2>2. top = ymax(UNION {read(s) : s \in visible})
    BY DEF top
  <2> HIDE DEF read, meds, visible
  <2>3. {read(s) : s \in visible} = {meds(s) : s \in visible}
    BY <2>1
  <2>4. top = ymax(UNION {meds(s) : s \in visible})
    BY <2>2, <2>3
  <2> QED BY <2>4 DEF meds
<1>9. page.charts[f].top = top
  BY <1>3
<1>10. DOMAIN drawn \subseteq servers
  BY <1>5
<1>11. \A s \in Names : s \in DOMAIN drawn <=> (Has(f, s) # {} /\ s \in page.pressed)
  BY <1>5, <1>6
<1>12. \A s \in DOMAIN drawn :
         drawn[s] = {[c |-> c, v |-> MedianRef(f, s, c), x |-> xpos(xi(c), Cardinality(conns)),
                      y |-> Y(MedianRef(f, s, c), page.charts[f].top)] : c \in Has(f, s)}
  BY <1>5, <1>7, <1>9
<1>13. page.charts[f].top = ymax(UNION {{MedianRef(f, s, c) : c \in Has(f, s)} : s \in DOMAIN drawn})
  BY <1>5, <1>8, <1>9
<1> QED BY <1>10, <1>11, <1>12, <1>13 DEF drawn

LEMMA MediansShown == ReportInv => MedianOfTrials
<1> SUFFICES ASSUME ReportInv, status = "shown", NEW f \in Fields, NEW s \in Names
             PROVE  LET drawn == page.charts[f].line
                    IN  /\ s \in DOMAIN drawn <=> (Has(f, s) # {} /\ s \in page.pressed)
                        /\ s \in DOMAIN drawn =>
                             /\ {p.c : p \in drawn[s]} = Has(f, s)
                             /\ \A p \in drawn[s] : p.v = MedianRef(f, s, p.c)
                        /\ \A c \in Has(f, s) : /\ <<s, c>> \in DOMAIN page.table
                                                /\ page.table[<<s, c>>][f] = MedianRef(f, s, c)
                        /\ \A r \in DOMAIN page.table :
                             r[1] = s /\ r[2] \notin Has(f, s) => page.table[r][f] = Bad
  BY DEF MedianOfTrials, Has
<1> DEFINE drawn == page.charts[f].line
           top == page.charts[f].top
<1>1. s \in DOMAIN drawn <=> (Has(f, s) # {} /\ s \in page.pressed)
  BY ChartIs
<1>2. ASSUME s \in DOMAIN drawn
      PROVE  /\ {p.c : p \in drawn[s]} = Has(f, s)
             /\ \A p \in drawn[s] : p.v = MedianRef(f, s, p.c)
  <2>1. drawn[s] = {[c |-> c, v |-> MedianRef(f, s, c), x |-> xpos(xi(c), Cardinality(conns)),
                     y |-> Y(MedianRef(f, s, c), top)] : c \in Has(f, s)}
    BY <1>2, ChartIs
  <2> HIDE DEF drawn, top
  <2>2. ASSUME NEW c \in Has(f, s) PROVE \E p \in drawn[s] : p.c = c
    <3> DEFINE p == [c |-> c, v |-> MedianRef(f, s, c), x |-> xpos(xi(c), Cardinality(conns)),
                     y |-> Y(MedianRef(f, s, c), top)]
    <3>1. p \in drawn[s] /\ p.c = c
      BY <2>1
    <3> QED BY <3>1
  <2>3. \A p \in drawn[s] : p.c \in Has(f, s) /\ p.v = MedianRef(f, s, p.c)
    BY <2>1
  <2> QED BY <2>2, <2>3
<1>3. /\ page.table = table_html /\ conns = Levels /\ servers \subseteq Names
  BY AllRead DEF ReportInv, ShownInv, Shown
<1> DEFINE rows == {r \in servers \X conns : \E g \in Fields : data[<<g, r[1], r[2]>>] # <<>>}
<1>4. DOMAIN page.table = rows
  BY <1>3 DEF table_html
<1>5. \A r \in rows : page.table[r][f] = IF data[<<f, r[1], r[2]>>] = <<>> THEN Bad
                                         ELSE median(data[<<f, r[1], r[2]>>])
  BY <1>3 DEF table_html
<1>6. ASSUME NEW c \in Has(f, s)
      PROVE  <<s, c>> \in DOMAIN page.table /\ page.table[<<s, c>>][f] = MedianRef(f, s, c)
  <2>1. c \in Levels /\ Cells(f, s, c) # {} /\ s \in servers
    BY PointsAre DEF Has
  <2>2. data[<<f, s, c>>] # <<>>
    BY <2>1, CellsAre
  <2>3. <<s, c>> \in rows
    BY <1>3, <2>1, <2>2
  <2>4. page.table[<<s, c>>][f] = median(data[<<f, s, c>>])
    BY <1>5, <2>2, <2>3
  <2> QED BY <1>4, <2>1, <2>2, <2>3, <2>4, MedianIs
<1>7. ASSUME NEW r \in DOMAIN page.table, r[1] = s, r[2] \notin Has(f, s)
      PROVE  page.table[r][f] = Bad
  <2>1. r \in rows /\ r[2] \in Levels
    BY <1>3, <1>4
  <2>2. data[<<f, s, r[2]>>] = <<>>
    BY <1>7, <2>1, CellsAre DEF Has
  <2> QED BY <1>5, <1>7, <2>1, <2>2
<1> QED BY <1>1, <1>2, <1>6, <1>7

\* For any file: every tooltip and every cell of the table is the median of the lines of
\* the CSV that have the value, a server that is shown has a point for exactly the loads
\* it has values for, and the table misses no such load, whatever is clicked away
\* (load, series_json, table_html and render of plot.py).
THEOREM MediansAreOfTrials == Spec => []MedianOfTrials
BY MediansShown, ReportAlways, PTL

LEMMA SyncShown == ReportInv => PageInSync
<1> SUFFICES ASSUME ReportInv, status = "shown" PROVE PageInSync
  BY DEF PageInSync
<1>1. /\ page.pressed = servers \ hidden /\ page.panels = {page.tab} /\ hidden \subseteq servers
      /\ page.dim = {r \in DOMAIN page.table : r[1] \in hidden}
      /\ \A r \in DOMAIN page.table : r[1] \in servers
  BY DEF ReportInv, PageInv, Follows
<1>2. page.dim = {r \in DOMAIN page.table : r[1] \notin page.pressed}
  BY <1>1
<1>3. \A r \in DOMAIN page.table : r = <<r[1], r[2]>>
  BY DEF ReportInv, ShownInv, Shown, table_html
<1>4. servers \subseteq Names
  BY AllRead
<1>5. ASSUME NEW f \in Fields, NEW s \in servers
      PROVE  Drawn(f, s) = Tabled(f, s)
  <2> DEFINE ln == page.charts[f].line
             rows == {q \in DOMAIN page.table \ page.dim : q[1] = s /\ page.table[q][f] # Bad}
  <2>1. /\ s \in DOMAIN ln <=> (Has(f, s) # {} /\ s \in page.pressed)
        /\ s \in DOMAIN ln =>
             /\ {p.c : p \in ln[s]} = Has(f, s)
             /\ \A p \in ln[s] : p.v = MedianRef(f, s, p.c)
        /\ \A c \in Has(f, s) : /\ <<s, c>> \in DOMAIN page.table
                                /\ page.table[<<s, c>>][f] = MedianRef(f, s, c)
        /\ \A r \in DOMAIN page.table :
             r[1] = s /\ r[2] \notin Has(f, s) => page.table[r][f] = Bad
    BY <1>4, MediansShown DEF MedianOfTrials, Has
  <2>2. \A c \in Has(f, s) : MedianRef(f, s, c) # Bad
    BY <1>4, CellsAre, MedianIs, ReportConstants DEF Has
  <2>3. \A r \in DOMAIN page.table :
          r[1] = s /\ r[2] \in Has(f, s) => page.table[r][f] = MedianRef(f, s, r[2])
    BY <1>3, <2>1
  <2>4. /\ Drawn(f, s) = IF s \in DOMAIN ln THEN {<<p.c, p.v>> : p \in ln[s]} ELSE {}
        /\ Tabled(f, s) = {<<r[2], page.table[r][f]>> : r \in rows}
    BY DEF Drawn, Tabled
  <2> HIDE DEF ln
  <2>5. CASE s \in DOMAIN ln
    <3>1. {<<p.c, p.v>> : p \in ln[s]} = {<<c, MedianRef(f, s, c)>> : c \in Has(f, s)}
      <4>1. \A p \in ln[s] : p.c \in Has(f, s) /\ p.v = MedianRef(f, s, p.c)
        BY <2>1, <2>5
      <4>2. \A c \in Has(f, s) : \E p \in ln[s] : p.c = c
        BY <2>1, <2>5
      <4> QED BY <4>1, <4>2
    <3>2. \A r \in rows : r[2] \in Has(f, s) /\ page.table[r][f] = MedianRef(f, s, r[2])
      BY <2>1, <2>3
    <3>3. \A c \in Has(f, s) : <<s, c>> \in rows
      BY <1>2, <2>1, <2>2, <2>5
    <3> HIDE DEF rows
    <3>4. {<<r[2], page.table[r][f]>> : r \in rows} = {<<c, MedianRef(f, s, c)>> : c \in Has(f, s)}
      <4>1. ASSUME NEW r \in rows
            PROVE  <<r[2], page.table[r][f]>> \in {<<c, MedianRef(f, s, c)>> : c \in Has(f, s)}
        BY <3>2
      <4>2. ASSUME NEW c \in Has(f, s)
            PROVE  \E r \in rows : <<c, MedianRef(f, s, c)>> = <<r[2], page.table[r][f]>>
        <5>1. <<s, c>>[2] = c /\ page.table[<<s, c>>][f] = MedianRef(f, s, c)
          BY <2>1
        <5> QED BY <3>3, <5>1
      <4> QED BY <4>1, <4>2
    <3> QED BY <2>4, <2>5, <3>1, <3>4
  <2>6. CASE s \notin DOMAIN ln
    <3>1. rows = {}
      <4>1. CASE Has(f, s) = {}
        BY <2>1, <4>1
      <4>2. CASE s \notin page.pressed
        BY <1>2, <4>2
      <4> QED BY <2>1, <2>6, <4>1, <4>2
    <3> QED BY <2>4, <2>6, <3>1
  <2> QED BY <2>5, <2>6
<1> QED BY <1>1, <1>2, <1>5 DEF PageInSync

\* After any sequence of clicks on the legend, "show all" and the tabs, whatever the
\* files hold: the charts draw for every server the loads and medians of its rows of the
\* data table that are not dimmed, and nothing else; the dimmed rows are those of
\* released buttons; and the visible panel is the selected tab's (table_html and the
\* two scripts of plot.py).
THEOREM PageAlwaysInSync == Spec => []PageInSync
BY SyncShown, ReportAlways, PTL

-----------------------------------------------------------------------------
(* Axes.                                                                   *)

LEMMA LessOrders ==
    ASSUME NEW S \in SUBSET Int
    PROVE  Orders({p \in S \X S : p[1] < p[2]}, S)
<1> DEFINE R == {p \in S \X S : p[1] < p[2]}
<1>1. \A x, y \in S : <<x, y>> \in R <=> x < y
  OBVIOUS
<1> HIDE DEF R
<1>2. \A x \in S : ~ (<<x, x>> \in R)
  BY <1>1
<1>3. \A x, y, z \in S : <<x, y>> \in R /\ <<y, z>> \in R => <<x, z>> \in R
  BY <1>1
<1>4. ASSUME NEW x \in S, NEW y \in S
      PROVE  x = y \/ <<x, y>> \in R \/ <<y, x>> \in R
  <2>1. x = y \/ x < y \/ y < x
    OBVIOUS
  <2> QED BY <1>1, <2>1
<1> QED BY <1>2, <1>3, <1>4 DEF Orders, R

\* A finite set of numbers that has an element has a least and a greatest one.
LEMMA MinMax ==
    ASSUME NEW S \in SUBSET Int, IsFiniteSet(S), S # {}
    PROVE  /\ Max(S) \in S /\ \A x \in S : x <= Max(S)
           /\ Min(S) \in S /\ \A x \in S : Min(S) <= x
<1> DEFINE n == Cardinality(S)
           R == {p \in S \X S : p[1] < p[2]}
           e == InOrder(S, R)
<1>1. n \in Nat /\ n # 0
  BY FS_CardinalityType, FS_EmptySet
<1>2. Orders(R, S)
  BY LessOrders
<1>3. Lists(e, S) /\ \A i, j \in 1 .. n : i < j => <<e[i], e[j]>> \in R
  BY <1>2, InOrderFacts
<1> HIDE DEF e
<1>4. \A i \in 1 .. n : e[i] \in S /\ e[i] \in Int
  BY <1>3 DEF Lists
<1>5. \A i, j \in 1 .. n : i < j => e[i] < e[j]
  BY <1>3
<1>6. \A x \in S : \E i \in 1 .. n : e[i] = x
  BY <1>3 DEF Lists
<1> HIDE DEF n, R
<1>7. 1 \in 1 .. n /\ n \in 1 .. n
  BY <1>1
<1>8. ASSUME NEW x \in S PROVE e[1] <= x /\ x <= e[n]
  <2>1. PICK i \in 1 .. n : e[i] = x
    BY <1>6
  <2>2. i = 1 \/ 1 < i
    BY <1>1
  <2>3. i = n \/ i < n
    BY <1>1
  <2> QED BY <1>4, <1>5, <1>7, <2>1, <2>2, <2>3
<1>9. e[1] \in S /\ e[n] \in S
  BY <1>4, <1>7
<1>10. Max(S) \in S /\ \A x \in S : Max(S) >= x
  BY <1>8, <1>9 DEF Max
<1>11. Min(S) \in S /\ \A x \in S : Min(S) <= x
  BY <1>8, <1>9 DEF Min
<1> QED BY <1>10, <1>11

LEMMA Quotient ==
    ASSUME NEW a \in Nat, NEW d \in Nat \ {0}
    PROVE  a \div d \in Nat /\ a % d \in 0 .. d - 1 /\ a = d * (a \div d) + (a % d)
OBVIOUS

\* A quotient is at most n if the dividend is at most n times the divisor.
LEMMA QuotientUpTo ==
    ASSUME NEW a \in Nat, NEW d \in Nat \ {0}, NEW n \in Nat, a <= d * n
    PROVE  a \div d \in 0 .. n
<1> DEFINE q == a \div d
<1>1. q \in Nat /\ d * q <= a
  BY Quotient
<1> HIDE DEF q
<1>2. q <= n
  <2>1. SUFFICES ASSUME q >= n + 1 PROVE FALSE
    BY <1>1
  <2>2. d * q >= d * (n + 1)
    BY <1>1, <2>1
  <2>3. d * (n + 1) = d * n + d
    OBVIOUS
  <2>4. d * q \in Nat /\ d * n \in Nat
    BY <1>1
  <2> QED BY <1>1, <2>2, <2>3, <2>4
<1> QED BY <1>1, <1>2 DEF q

\* Dividends a divisor apart have different quotients.
LEMMA QuotientApart ==
    ASSUME NEW a \in Nat, NEW b \in Nat, NEW d \in Nat \ {0}, a + d <= b
    PROVE  a \div d < b \div d
<1> DEFINE q == a \div d
           r == b \div d
<1>1. /\ q \in Nat /\ r \in Nat /\ d * q <= a
      /\ b < d * r + d
  BY Quotient
<1> HIDE DEF q, r
<1>2. d * q \in Nat /\ d * r \in Nat
  BY <1>1
<1>3. d * q < d * r
  BY <1>1, <1>2
<1>4. q < r
  <2>1. SUFFICES ASSUME r <= q PROVE FALSE
    BY <1>1
  <2>2. d * r <= d * q
    BY <1>1, <2>1
  <2> QED BY <1>2, <1>3, <2>2
<1> QED BY <1>4 DEF q, r

LEMMA Geometry == X0 = 72 /\ X1 = 772 /\ Y0 = 308 /\ Y1 = 40
BY DEF X0, X1, Y0, Y1, G

\* A value up to the end of the axis is inside the plot.
LEMMA YInside ==
    ASSUME NEW top \in Nat \ {0}, NEW v \in 0 .. top
    PROVE  Y(v, top) \in Y1 .. Y0
<1>1. Y0 - Y1 = 268 /\ Y0 = 308 /\ Y1 = 40
  BY Geometry
<1>2. 268 * v \in Nat /\ 268 * v <= top * 268
  OBVIOUS
<1> DEFINE q == (268 * v) \div top
<1>3. q \in 0 .. 268
  BY <1>2, QuotientUpTo
<1>4. Y(v, top) = 308 - q
  BY <1>1 DEF Y
<1> HIDE DEF q
<1> QED BY <1>1, <1>3, <1>4

\* A negative one is below the axis.
LEMMA YBelow ==
    ASSUME NEW top \in Nat \ {0}, NEW v \in Int, v < 0
    PROVE  Y(v, top) > Y0
<1>1. Y0 - Y1 = 268 /\ Y0 = 308
  BY Geometry
<1>2. 268 * v \in Int /\ 268 * v < 0
  OBVIOUS
<1> DEFINE q == (268 * v) \div top
<1>3. q \in Int /\ top * q <= 268 * v
  BY <1>2
<1>4. Y(v, top) = 308 - q
  BY <1>1 DEF Y
<1> HIDE DEF q
<1>5. q < 0
  <2>1. SUFFICES ASSUME q >= 0 PROVE FALSE
    BY <1>3
  <2>2. top * q >= 0 /\ top * q \in Int
    BY <1>3, <2>1
  <2> QED BY <1>2, <1>3, <2>2
<1> QED BY <1>1, <1>3, <1>4, <1>5

\* So is the place of a load level, and a higher load is further right.
LEMMA XInside ==
    ASSUME NEW n \in Nat, NEW i \in 0 .. n - 1
    PROVE  xpos(i, n) \in X0 .. X1
<1>1. X1 - X0 = 700 /\ X0 = 72 /\ X1 = 772
  BY Geometry
<1>2. CASE n <= 1
  BY <1>1, <1>2 DEF xpos
<1>3. CASE n > 1
  <2>1. n - 1 \in Nat \ {0} /\ 700 * i \in Nat /\ 700 * i <= (n - 1) * 700
    BY <1>3
  <2> DEFINE q == (700 * i) \div (n - 1)
  <2>2. q \in 0 .. 700
    BY <2>1, QuotientUpTo
  <2>3. xpos(i, n) = 72 + q
    BY <1>1, <1>3 DEF xpos
  <2> HIDE DEF q
  <2> QED BY <1>1, <2>2, <2>3
<1> QED BY <1>2, <1>3

LEMMA XApart ==
    ASSUME NEW n \in Nat, NEW i \in 0 .. n - 1, NEW j \in 0 .. n - 1, i < j, n <= 701
    PROVE  xpos(i, n) < xpos(j, n)
<1>1. X1 - X0 = 700 /\ X0 = 72
  BY Geometry
<1>2. n > 1 /\ n - 1 \in Nat \ {0}
  OBVIOUS
<1>3. 700 * i \in Nat /\ 700 * j \in Nat /\ 700 * i + (n - 1) <= 700 * j
  OBVIOUS
<1> DEFINE q == (700 * i) \div (n - 1)
           r == (700 * j) \div (n - 1)
<1>4. q < r
  BY <1>2, <1>3, QuotientApart
<1>5. q \in Nat /\ r \in Nat
  BY <1>2, <1>3, Quotient
<1>6. xpos(i, n) = 72 + q /\ xpos(j, n) = 72 + r
  BY <1>1, <1>2 DEF xpos
<1> HIDE DEF q, r
<1> QED BY <1>4, <1>5, <1>6

\* The values an axis of the model can hold.
Scaled(v) == \E p \in Powers : v <= 5 * p

LEMMA PowersFacts ==
    /\ IsFiniteSet(Powers) /\ Powers \subseteq Nat \ {0} /\ One \in Powers /\ 1 \in Powers
    /\ \A p, q \in Powers : p < q => 10 * p \in Powers /\ 10 * p <= q
BY ReportConstants

\* nice_max: the least round number that is no less.
LEMMA NiceMax ==
    ASSUME NEW v \in Nat \ {0}, Scaled(v)
    PROVE  /\ nice_max(v) \in Nice /\ nice_max(v) \in Nat \ {0} /\ v <= nice_max(v)
           /\ \A t \in Nice : t >= v => nice_max(v) <= t
<1> DEFINE Q == {q \in Powers : q <= v}
           p == Max(Q)
           nf == CASE v <= p -> 1 [] v > p /\ v <= 2 * p -> 2
                   [] v > 2 * p /\ v <= 5 * p -> 5 [] OTHER -> 10
<1>1. nice_max(v) = nf * p
  BY DEF nice_max
<1>2. Q \in SUBSET Int /\ Q # {} /\ IsFiniteSet(Q)
  <2>1. Q \in SUBSET Powers
    OBVIOUS
  <2>2. Q \in SUBSET Int
    <3>1. \A q \in Powers : q \in Int
      BY PowersFacts
    <3> HIDE DEF Q
    <3> QED BY <2>1, <3>1
  <2>3. IsFiniteSet(Q)
    <3> HIDE DEF Q
    <3> QED BY <2>1, PowersFacts, FS_Subset
  <2>4. 1 \in Q
    BY PowersFacts
  <2> QED BY <2>2, <2>3, <2>4
<1>3. p \in Q /\ \A q \in Q : q <= p
  BY <1>2, MinMax
<1> HIDE DEF p
<1>4. p \in Powers /\ p \in Nat \ {0} /\ p <= v
  BY <1>3, PowersFacts
<1>5. \A q \in Powers : q \in Nat \ {0} /\ (q <= v => q <= p)
  BY <1>3, PowersFacts
<1>6. v > 5 * p => 10 * p \in Powers /\ v < 10 * p
  <2> SUFFICES ASSUME v > 5 * p PROVE 10 * p \in Powers /\ v < 10 * p
    OBVIOUS
  <2>1. PICK q \in Powers : v <= 5 * q
    BY DEF Scaled
  <2>2. q \in Nat /\ p < q
    BY <1>4, <1>5, <2>1
  <2>3. 10 * p \in Powers
    BY <1>4, <2>2, PowersFacts
  <2>4. ~ (10 * p <= v)
    BY <1>4, <1>5, <2>3
  <2> QED BY <1>4, <2>3, <2>4
<1> HIDE DEF Q
<1>7. \A q \in Powers : q \in Nat \ {0} /\ (q < p => 10 * q <= p) /\ (p < q => 10 * p <= q)
  BY <1>4, PowersFacts
<1>8. ASSUME NEW t \in Nice, t >= v
      PROVE  nf * p <= t
  <2>1. PICK k \in {1, 2, 5}, q \in Powers : t = k * q
    BY DEF Nice
  <2>2. q \in Nat \ {0} /\ (q < p => 10 * q <= p) /\ (p < q => 10 * p <= q)
    BY <1>7
  <2>3. CASE q < p
    BY <1>4, <1>8, <2>1, <2>2, <2>3
  <2>4. CASE q = p
    BY <1>4, <1>6, <1>8, <2>1, <2>4
  <2>5. CASE q > p
    <3>1. 10 * p <= q /\ q <= t
      BY <1>4, <2>1, <2>2, <2>5
    <3>2. nf * p <= 10 * p
      BY <1>4
    <3> HIDE DEF nf
    <3>3. nf * p \in Int
      BY <1>4 DEF nf
    <3> QED BY <1>4, <2>1, <2>2, <3>1, <3>2, <3>3
  <2> QED BY <1>4, <2>2, <2>3, <2>4, <2>5
<1>9. v <= nf * p /\ nf * p \in Nat \ {0}
  BY <1>4, <1>6
<1>10. nf * p \in Nice
  <2>1. CASE v <= 5 * p
    <3>1. nf \in {1, 2, 5}
      BY <1>4, <2>1
    <3> HIDE DEF nf
    <3> QED BY <1>4, <3>1 DEF Nice
  <2>2. CASE v > 5 * p
    <3>1. nf = 10
      BY <1>4, <2>2
    <3> HIDE DEF nf
    <3>2. nf * p = 1 * (10 * p)
      BY <1>4, <3>1
    <3>3. 10 * p \in Powers
      BY <1>6, <2>2
    <3> QED BY <3>2, <3>3 DEF Nice
  <2> QED BY <1>4, <2>1, <2>2
<1> HIDE DEF nf
<1> QED BY <1>1, <1>8, <1>9, <1>10

\* The end of an axis over the values S.
LEMMA AxisEnd ==
    ASSUME NEW S \in SUBSET Int, IsFiniteSet(S), \A v \in S : Scaled(v)
    PROVE  /\ ymax(S) \in Nat \ {0} /\ \A v \in S : v <= ymax(S)
           /\ ymax(S) = IF Max(S \cup {0}) = 0 THEN One ELSE Min({t \in Nice : t >= Max(S \cup {0})})
<1> DEFINE vmax == Max(S \cup {0})
<1>1. IsFiniteSet(S \cup {0})
  BY FS_AddElement
<1>2. vmax \in S \cup {0} /\ \A v \in S \cup {0} : v <= vmax
  BY <1>1, MinMax
<1>3. ymax(S) = IF vmax > 0 THEN nice_max(vmax) ELSE One
  BY DEF ymax
<1> HIDE DEF vmax
<1>4. vmax \in Nat /\ Scaled(vmax)
  <2>1. vmax \in Int /\ 0 <= vmax
    BY <1>2
  <2>2. Scaled(0)
    BY PowersFacts DEF Scaled
  <2> QED BY <1>2, <2>1, <2>2
<1>5. One \in Nat \ {0}
  BY PowersFacts
<1>6. CASE vmax = 0
  <2>1. \A v \in S : v <= One
    BY <1>2, <1>4, <1>5, <1>6
  <2> QED BY <1>3, <1>5, <1>6, <2>1 DEF vmax
<1>7. CASE vmax # 0
  <2> DEFINE top == nice_max(vmax)
             T == {t \in Nice : t >= vmax}
  <2>1. ymax(S) = top
    BY <1>3, <1>4, <1>7
  <2>2. top \in Nice /\ top \in Nat \ {0} /\ vmax <= top /\ \A t \in Nice : t >= vmax => top <= t
    BY <1>4, <1>7, NiceMax
  <2> HIDE DEF top
  <2>3. Nice \subseteq Nat
    BY PowersFacts DEF Nice
  <2>4. top \in T /\ \A t \in T : top <= t
    BY <1>4, <2>2
  <2>5. Min(T) = top
    <3>1. T \subseteq Nat
      BY <2>3
    <3> HIDE DEF T
    <3>2. \A x \in T : (\A t \in T : x <= t) => x = top
      BY <2>4, <3>1
    <3> QED BY <2>4, <3>2 DEF Min
  <2>6. \A v \in S : v <= top
    BY <1>2, <1>4, <2>2
  <2> QED BY <1>7, <2>1, <2>2, <2>5, <2>6 DEF vmax
<1> QED BY <1>6, <1>7

LEMMA MeanScaled ==
    ASSUME NEW a \in Int, NEW b \in Int, OnAxis(a), OnAxis(b)
    PROVE  (a + b) \div 2 \in Int /\ Scaled((a + b) \div 2)
<1> DEFINE m == (a + b) \div 2
<1>1. m \in Int /\ 2 * m <= a + b
  OBVIOUS
<1> HIDE DEF m
<1>2. Bad \notin {a, b} /\ Gone \notin {a, b}
  BY ReportConstants
<1>3. Scaled(a) /\ Scaled(b)
  BY <1>2 DEF OnAxis, Scaled
<1>4. m <= a \/ m <= b
  BY <1>1
<1>5. \A p \in Powers : 5 * p \in Int
  BY PowersFacts
<1>6. Scaled(m)
  BY <1>1, <1>3, <1>4, <1>5 DEF Scaled
<1> QED BY <1>1, <1>6 DEF m

LEMMA CsvOnAxis ==
    ASSUME in \in Inputs, Plottable(in), NEW i \in 1 .. Len(in.csv), in.csv[i] # Cut, NEW f \in Fields
    PROVE  OnAxis(in.csv[i].val[f])
<1>1. DOMAIN in.csv = 1 .. Len(in.csv)
  BY FileFacts
<1>2. in.csv[i] \in Range(in.csv) \ {Cut}
  BY <1>1 DEF Range
<1> QED BY <1>2 DEF Plottable

LEMMA MedianScaled ==
    ASSUME ReportInv, status = "shown", Plottable(in),
           NEW f \in Fields, NEW s \in Names, NEW c \in Levels, Cells(f, s, c) # {}
    PROVE  MedianRef(f, s, c) \in Int /\ Scaled(MedianRef(f, s, c))
<1> DEFINE n == Len(data[<<f, s, c>>])
<1>1. n = Cardinality(Cells(f, s, c)) /\ data[<<f, s, c>>] \in Seq(Int) /\ data[<<f, s, c>>] # <<>>
  BY AllRead, CellsAre
<1>2. n \in Nat \ {0}
  BY <1>1
<1>3. ASSUME NEW m \in 1 .. n
      PROVE  Kth(m, f, s, c) \in Int /\ OnAxis(Kth(m, f, s, c))
  <2>1. PICK i \in 1 .. Len(in.csv) : in.csv[i].val[f] # Bad /\ Kth(m, f, s, c) = in.csv[i].val[f]
    BY KthIs
  <2>2. in \in Inputs /\ in.csv[i] # Cut /\ in.csv[i].val[f] \in Int \cup {Bad}
    BY AllRead
  <2>3. OnAxis(in.csv[i].val[f])
    BY <2>2, CsvOnAxis
  <2> QED BY <2>1, <2>2, <2>3
<1>4. MedianRef(f, s, c) = (Kth((n + 1) \div 2, f, s, c) + Kth(n \div 2 + 1, f, s, c)) \div 2
  BY <1>1 DEF MedianRef
<1> HIDE DEF n
<1>5. (n + 1) \div 2 \in 1 .. n /\ n \div 2 + 1 \in 1 .. n
  BY <1>2, Halves
<1> QED BY <1>3, <1>4, <1>5, MeanScaled

LEMMA ImageFinite ==
    ASSUME NEW S, IsFiniteSet(S), NEW g
    PROVE  IsFiniteSet({g[x] : x \in S})
<1> DEFINE T == {g[x] : x \in S}
           h == [x \in S |-> g[x]]
<1>1. h \in Surjection(S, T)
  BY DEF Surjection
<1> QED BY <1>1, FS_Surjection

LEMMA NamesFinite == IsFiniteSet(Names)
<1>1. DOMAIN Alphabet = 1 .. Len(Alphabet) /\ Len(Alphabet) \in Nat
  BY ReportConstants DEF Lines
<1>2. IsFiniteSet(DOMAIN Alphabet)
  BY <1>1, FS_Interval
<1>3. Names = {Alphabet[x] : x \in DOMAIN Alphabet}
  BY DEF Names, Range
<1> QED BY <1>2, <1>3, ImageFinite

LEMMA LevelsFinite ==
    ASSUME in \in Inputs
    PROVE  IsFiniteSet(Levels)
<1> DEFINE g == [i \in DOMAIN in.csv |-> in.csv[i].conns]
           D == {j \in DOMAIN in.csv : in.csv[j] # Cut}
<1>1. DOMAIN in.csv = 1 .. Len(in.csv) /\ Len(in.csv) \in Nat
  BY FileFacts
<1>2. IsFiniteSet(DOMAIN in.csv)
  BY <1>1, FS_Interval
<1>3. IsFiniteSet(D)
  BY <1>2, FS_Subset
<1>4. Levels = {g[i] : i \in D}
  BY DEF Levels
<1> HIDE DEF D, g
<1> QED BY <1>3, <1>4, ImageFinite

\* The load levels are numbered from 0 in ascending order.
LEMMA LevelPlaces ==
    ASSUME ReportInv, status = "shown"
    PROVE  /\ Cardinality(conns) \in Nat
           /\ \A c \in conns : xi(c) \in 0 .. Cardinality(conns) - 1
           /\ \A c, d \in conns : c < d => xi(c) < xi(d)
<1> DEFINE R == {p \in conns \X conns : p[1] < p[2]}
<1>1. conns = Levels /\ conns \in SUBSET Int /\ in \in Inputs
  BY AllRead
<1>2. IsFiniteSet(conns)
  BY <1>1, LevelsFinite
<1>3. Orders(R, conns)
  BY <1>1, LessOrders
<1>4. \A c \in conns : Below(c, R, conns) = {d \in conns : d < c}
  BY DEF Below
<1>5. \A c, d \in conns : c < d => <<c, d>> \in R
  OBVIOUS
<1> HIDE DEF R
<1>6. \A c \in conns : xi(c) = Cardinality(Below(c, R, conns))
  BY <1>4 DEF xi
<1>7. /\ \A c \in conns : Cardinality(Below(c, R, conns)) \in 0 .. Cardinality(conns) - 1
      /\ \A c, d \in conns : <<c, d>> \in R =>
           Cardinality(Below(c, R, conns)) < Cardinality(Below(d, R, conns))
  BY <1>2, <1>3, RankFacts
<1>8. Cardinality(conns) \in Nat
  BY <1>2, FS_CardinalityType
<1> QED BY <1>5, <1>6, <1>7, <1>8

LEMMA FewLevels ==
    ASSUME ReportInv, status = "shown", Plottable(in)
    PROVE  Cardinality(conns) <= 701
<1>1. in \in Inputs /\ conns = Levels
  BY AllRead
<1>2. Levels = {r.conns : r \in Range(in.csv) \ {Cut}}
  <2>1. \A c : c \in Levels <=> \E i \in DOMAIN in.csv : in.csv[i] # Cut /\ c = in.csv[i].conns
    BY DEF Levels
  <2>2. \A c : (\E i \in DOMAIN in.csv : in.csv[i] # Cut /\ c = in.csv[i].conns)
                 <=> c \in {r.conns : r \in Range(in.csv) \ {Cut}}
    BY DEF Range
  <2> QED BY <2>1, <2>2
<1>3. X1 - X0 + 1 = 701
  BY Geometry
<1> QED BY <1>1, <1>2, <1>3 DEF Plottable

\* The charts' half of AxisFits.
ChartFits(f) ==
    LET ch == page.charts[f]
        pts == UNION Range(ch.line)
        vmax == Max({p.v : p \in pts} \cup {0})
    IN  /\ \A p \in pts : IF p.v >= 0 THEN Inside(p) ELSE p.y > Y0
        /\ \A p, q \in pts : p.c < q.c => p.x < q.x
        /\ ch.top = IF vmax = 0 THEN One ELSE Min({t \in Nice : t >= vmax})

LEMMA ChartsFit ==
    ASSUME ReportInv, status = "shown", Plottable(in), NEW f \in Fields
    PROVE  ChartFits(f)
<1> DEFINE drawn == page.charts[f].line
           top == page.charts[f].top
           D == DOMAIN drawn
           W == UNION {{MedianRef(f, s, c) : c \in Has(f, s)} : s \in D}
           pts == UNION Range(drawn)
           pt(s, c) == [c |-> c, v |-> MedianRef(f, s, c), x |-> xpos(xi(c), Cardinality(conns)),
                        y |-> Y(MedianRef(f, s, c), top)]
<1>1. /\ D \subseteq servers /\ top = ymax(W)
      /\ \A s \in D : drawn[s] = {pt(s, c) : c \in Has(f, s)}
  BY ChartIs
<1>2. conns = Levels /\ servers \subseteq Names /\ in \in Inputs /\ conns \subseteq Nat
  BY AllRead
<1>3. pts = UNION {drawn[s] : s \in D}
  BY DEF Range
<1> HIDE DEF drawn, top
<1>4. \A s \in D : \A c \in Has(f, s) : /\ MedianRef(f, s, c) \in Int /\ Scaled(MedianRef(f, s, c))
                                        /\ c \in conns /\ c \in Nat
  BY <1>1, <1>2, MedianScaled DEF Has
<1>5. W \in SUBSET Int /\ \A v \in W : Scaled(v)
  BY <1>4
<1>6. IsFiniteSet(W)
  <2> DEFINE Q == {q \in Names \X Levels : q[1] \in D /\ q[2] \in Has(f, q[1])}
             g == [q \in Names \X Levels |-> MedianRef(f, q[1], q[2])]
  <2>1. IsFiniteSet(Names \X Levels)
    BY <1>2, NamesFinite, LevelsFinite, FS_Product
  <2>2. IsFiniteSet(Q)
    BY <2>1, FS_Subset
  <2>3. IsFiniteSet({g[q] : q \in Q})
    <3> HIDE DEF Q, g
    <3> QED BY <2>2, ImageFinite
  <2>4. W \subseteq {g[q] : q \in Q}
    <3> SUFFICES ASSUME NEW s \in D, NEW c \in Has(f, s) PROVE \E q \in Q : MedianRef(f, s, c) = g[q]
      OBVIOUS
    <3>1. <<s, c>> \in Q
      BY <1>1, <1>2 DEF Has
    <3>2. g[<<s, c>>] = MedianRef(f, s, c)
      BY <3>1
    <3> QED BY <3>1, <3>2
  <2> HIDE DEF Q, g, W
  <2> QED BY <2>3, <2>4, FS_Subset
<1>7. /\ top \in Nat \ {0} /\ \A v \in W : v <= top
      /\ top = IF Max(W \cup {0}) = 0 THEN One ELSE Min({t \in Nice : t >= Max(W \cup {0})})
  <2> HIDE DEF W
  <2> QED BY <1>1, <1>5, <1>6, AxisEnd
<1>8. ASSUME NEW s \in D, NEW c \in Has(f, s)
      PROVE  MedianRef(f, s, c) \in W
  OBVIOUS
<1>9. ASSUME NEW p \in pts
      PROVE  \E s \in D : \E c \in Has(f, s) : p = pt(s, c)
  <2>1. PICK s \in D : p \in drawn[s]
    BY <1>3
  <2>2. p \in {pt(s, c) : c \in Has(f, s)}
    BY <1>1, <2>1
  <2> QED BY <2>2
<1>10. ASSUME NEW s \in D, NEW c \in Has(f, s)
       PROVE  pt(s, c) \in pts
  BY <1>1, <1>3
<1> HIDE DEF W, pts
<1>11. {p.v : p \in pts} = W
  <2>1. ASSUME NEW p \in pts PROVE p.v \in W
    BY <1>8, <1>9
  <2>2. ASSUME NEW v \in W PROVE \E p \in pts : p.v = v
    <3>1. PICK s \in D : \E c \in Has(f, s) : v = MedianRef(f, s, c)
      BY DEF W
    <3>2. PICK c \in Has(f, s) : v = MedianRef(f, s, c)
      BY <3>1
    <3>3. pt(s, c) \in pts /\ pt(s, c).v = v
      BY <1>10, <3>2
    <3> QED BY <3>3
  <2> QED BY <2>1, <2>2
<1> DEFINE n == Cardinality(conns)
<1>12. /\ n \in Nat /\ n <= 701 /\ \A c \in conns : xi(c) \in 0 .. n - 1
       /\ \A c, d \in conns : c < d => xi(c) < xi(d)
  BY LevelPlaces, FewLevels
<1>13. ASSUME NEW p \in pts PROVE IF p.v >= 0 THEN Inside(p) ELSE p.y > Y0
  <2>1. PICK s \in D : \E c \in Has(f, s) : p = pt(s, c)
    BY <1>9
  <2>2. PICK c \in Has(f, s) : p = pt(s, c)
    BY <2>1
  <2> DEFINE v == MedianRef(f, s, c)
  <2>3. p.x = xpos(xi(c), n) /\ p.y = Y(v, top) /\ p.v = v
    BY <2>2
  <2>4. c \in conns /\ v \in Int /\ v <= top
    BY <1>4, <1>7, <1>8
  <2> HIDE DEF n, v
  <2>5. xpos(xi(c), n) \in X0 .. X1
    BY <1>12, <2>4, XInside
  <2>6. CASE v >= 0
    <3>1. v \in 0 .. top
      BY <1>7, <2>4, <2>6
    <3>2. Y(v, top) \in Y1 .. Y0
      BY <1>7, <3>1, YInside
    <3> QED BY <2>3, <2>5, <2>6, <3>2 DEF Inside
  <2>7. CASE v < 0
    <3>1. Y(v, top) > Y0
      BY <1>7, <2>4, <2>7, YBelow
    <3>2. ~ (v >= 0)
      BY <2>4, <2>7
    <3> QED BY <2>3, <3>1, <3>2
  <2> QED BY <2>4, <2>6, <2>7
<1>14. ASSUME NEW p \in pts, NEW q \in pts, p.c < q.c PROVE p.x < q.x
  <2>1. PICK s \in D : \E c \in Has(f, s) : p = pt(s, c)
    BY <1>9
  <2>2. PICK c \in Has(f, s) : p = pt(s, c)
    BY <2>1
  <2>3. PICK t \in D : \E d \in Has(f, t) : q = pt(t, d)
    BY <1>9
  <2>4. PICK d \in Has(f, t) : q = pt(t, d)
    BY <2>3
  <2>5. p.c = c /\ p.x = xpos(xi(c), n) /\ q.c = d /\ q.x = xpos(xi(d), n)
    BY <2>2, <2>4
  <2>6. c \in conns /\ d \in conns /\ c < d
    BY <1>4, <1>14, <2>5
  <2> HIDE DEF n
  <2>7. xpos(xi(c), n) < xpos(xi(d), n)
    BY <1>12, <2>6, XApart
  <2> QED BY <2>5, <2>7
<1>15. LET vmax == Max({p.v : p \in pts} \cup {0})
       IN  top = IF vmax = 0 THEN One ELSE Min({t \in Nice : t >= vmax})
  BY <1>7, <1>11
<1> QED BY <1>13, <1>14, <1>15 DEF ChartFits, drawn, top, pts

-----------------------------------------------------------------------------
(* A card of the timeline.                                                 *)

\* A timeline file without a line cut short where it is read.
Whole(tl) == Lines(tl) /\ (\A i \in DOMAIN tl : Window(tl[i])) /\ ~ Unreadable(tl)

\* The rows of the lowest trial.
Low(tl, key) == {i \in RowsAt(tl, key) : tl[i].trial = Trial(tl, key)}

LEMMA LowFacts ==
    ASSUME NEW tl, Whole(tl), NEW key \in Keys(tl)
    PROVE  /\ Low(tl, key) \in SUBSET Int /\ Low(tl, key) \subseteq DOMAIN tl
           /\ IsFiniteSet(Low(tl, key)) /\ Low(tl, key) # {}
           /\ Low(tl, key) = {j \in RowsAt(tl, key) : \A h \in RowsAt(tl, key) : tl[j].trial <= tl[h].trial}
<1> DEFINE K == RowsAt(tl, key)
           S == {tl[i].trial : i \in K}
           g == [i \in DOMAIN tl |-> tl[i].trial]
<1>1. DOMAIN tl = 1 .. Len(tl) /\ Len(tl) \in Nat
  BY DEF Whole, Lines
<1>2. IsFiniteSet(DOMAIN tl)
  BY <1>1, FS_Interval
<1>3. K \in SUBSET DOMAIN tl /\ K # {}
  BY DEF RowsAt, Keys
<1>4. IsFiniteSet(K)
  BY <1>2, <1>3, FS_Subset
<1>5. \A i \in DOMAIN tl : tl[i].trial \in Nat
  BY DEF Whole, Window
<1>6. S = {g[i] : i \in K}
  BY <1>3
<1>7. IsFiniteSet(S)
  <2> HIDE DEF S, K, g
  <2> QED BY <1>4, <1>6, ImageFinite
<1>8. S \in SUBSET Int /\ S # {}
  BY <1>3, <1>5
<1>9. Min(S) \in S /\ \A x \in S : Min(S) <= x
  <2> HIDE DEF S
  <2> QED BY <1>7, <1>8, MinMax
<1>10. Trial(tl, key) = Min(S)
  BY DEF Trial
<1>11. Low(tl, key) = {i \in K : tl[i].trial = Min(S)}
  BY <1>10 DEF Low
<1> DEFINE m == Min(S)
<1>12. PICK j \in K : tl[j].trial = m
  BY <1>9
<1>13. \A h \in K : m <= tl[h].trial /\ tl[h].trial \in Nat
  BY <1>3, <1>5, <1>9
<1> HIDE DEF K, S, m
<1>14. Low(tl, key) = {i \in K : tl[i].trial = m}
  BY <1>11 DEF m
<1>15. m \in Nat
  BY <1>12, <1>13
<1>16. \A i \in K : (tl[i].trial = m) <=> (\A h \in K : tl[i].trial <= tl[h].trial)
  BY <1>12, <1>13, <1>15
<1>17. Low(tl, key) = {i \in K : \A h \in K : tl[i].trial <= tl[h].trial}
  BY <1>14, <1>16
<1>18. Low(tl, key) \in SUBSET K /\ Low(tl, key) # {}
  BY <1>12, <1>14
<1>19. IsFiniteSet(Low(tl, key))
  BY <1>4, <1>18, FS_Subset
<1>20. Low(tl, key) \subseteq DOMAIN tl /\ Low(tl, key) \in SUBSET Int
  BY <1>1, <1>3, <1>18
<1> QED BY <1>17, <1>18, <1>19, <1>20 DEF K

\* load_timeline: the rows of a card are those of the lowest trial, by time.
LEMMA RowsFacts ==
    ASSUME NEW tl, Whole(tl), NEW key \in Keys(tl)
    PROVE  LET L == Low(tl, key)
               n == Cardinality(L)
           IN  /\ n \in Nat \ {0}
               /\ \E e : /\ Lists(e, L)
                         /\ RowsOf(tl, key) = [i \in 1 .. n |-> tl[e[i]]]
                         /\ \A i, j \in 1 .. n : i < j =>
                              \/ tl[e[i]].t_s < tl[e[j]].t_s
                              \/ (tl[e[i]].t_s = tl[e[j]].t_s /\ e[i] < e[j])
<1>0. PICK L, time : L = Low(tl, key) /\ time = Times(tl)
  OBVIOUS
<1> DEFINE n == Cardinality(L)
<1>1. L \in SUBSET Int /\ L \subseteq DOMAIN tl /\ IsFiniteSet(L) /\ L # {}
  BY <1>0, LowFacts
<1>2. n \in Nat \ {0}
  BY <1>1, FS_CardinalityType, FS_EmptySet
<1>3. \A i \in L : time[i] = tl[i].t_s /\ time[i] \in Int
  BY <1>0, <1>1 DEF Times, Whole, Window
<1>4. RowsOf(tl, key) = SortBy(tl, L, time)
  BY <1>0 DEF RowsOf, Low
<1>5. PICK e : /\ Lists(e, L)
               /\ SortBy(tl, L, time) = [i \in 1 .. n |-> tl[e[i]]]
               /\ \A i, j \in 1 .. n : i < j =>
                    \/ time[e[i]] < time[e[j]]
                    \/ (time[e[i]] = time[e[j]] /\ e[i] < e[j])
  BY <1>1, <1>3, SortByFacts
<1>6. \A i \in 1 .. n : e[i] \in L
  BY <1>5 DEF Lists
<1>7. \A i, j \in 1 .. n : i < j =>
        \/ tl[e[i]].t_s < tl[e[j]].t_s
        \/ (tl[e[i]].t_s = tl[e[j]].t_s /\ e[i] < e[j])
  BY <1>3, <1>5, <1>6
<1> QED BY <1>0, <1>2, <1>4, <1>5, <1>7

\* Rows that a card can be drawn from.
RowsOK(rows, n) ==
    /\ DOMAIN rows = 1 .. n
    /\ \A i \in 1 .. n : /\ rows[i].t_s \in Nat
                         /\ \A f \in TLFields : rows[i].val[f] \in Nat \cup {Bad}

With(rows, n, f) == {i \in 1 .. n : rows[i].val[f] # Bad}

\* A line of the card goes through the rows that have the value, in their order.
LEMMA PathFacts ==
    ASSUME NEW n \in Nat, NEW rows, DOMAIN rows = 1 .. n, NEW f, NEW maxT, NEW top
    PROVE  LET H == With(rows, n, f)
           IN  /\ H \in SUBSET Int /\ IsFiniteSet(H) /\ Cardinality(H) \in Nat
               /\ \E d : /\ Lists(d, H)
                         /\ \A i, j \in 1 .. Cardinality(H) : i < j => d[i] < d[j]
                         /\ Path(rows, f, maxT, top) =
                              [i \in 1 .. Cardinality(H) |->
                                 [v |-> rows[d[i]].val[f], x |-> X(rows[d[i]].t_s, maxT),
                                  y |-> Y(rows[d[i]].val[f], top)]]
<1> DEFINE H == With(rows, n, f)
           m == Cardinality(H)
           ok == Pick(rows, H)
<1>1. H \in SUBSET (1 .. n) /\ IsFiniteSet(1 .. n)
  BY FS_Interval DEF With
<1>2. IsFiniteSet(H)
  <2> HIDE DEF H
  <2> QED BY <1>1, FS_Subset
<1>3. H \in SUBSET Int
  BY DEF With
<1>4. H = {i \in DOMAIN rows : rows[i].val[f] # Bad}
  BY DEF With
<1>5. Path(rows, f, maxT, top) =
        [i \in DOMAIN ok |-> [v |-> ok[i].val[f], x |-> X(ok[i].t_s, maxT), y |-> Y(ok[i].val[f], top)]]
  BY <1>4 DEF Path
<1> HIDE DEF H
<1>6. m \in Nat
  BY <1>2, FS_CardinalityType
<1>7. PICK d : /\ Lists(d, H) /\ ok = [i \in 1 .. m |-> rows[d[i]]]
               /\ \A i, j \in 1 .. m : i < j => d[i] < d[j]
  BY <1>2, <1>3, PickFacts
<1> HIDE DEF ok
<1>8. DOMAIN ok = 1 .. m /\ \A i \in 1 .. m : ok[i] = rows[d[i]]
  BY <1>7
<1>9. Path(rows, f, maxT, top) =
        [i \in 1 .. m |-> [v |-> rows[d[i]].val[f], x |-> X(rows[d[i]].t_s, maxT),
                           y |-> Y(rows[d[i]].val[f], top)]]
  BY <1>5, <1>8
<1> QED BY <1>2, <1>3, <1>6, <1>7, <1>9 DEF H

\* Its points, as a set.
LEMMA PathRange ==
    ASSUME NEW n \in Nat, NEW rows, DOMAIN rows = 1 .. n, NEW f, NEW maxT, NEW top
    PROVE  Range(Path(rows, f, maxT, top)) =
             {[v |-> rows[i].val[f], x |-> X(rows[i].t_s, maxT), y |-> Y(rows[i].val[f], top)] :
                i \in With(rows, n, f)}
<1> DEFINE H == With(rows, n, f)
           m == Cardinality(H)
           pt(i) == [v |-> rows[i].val[f], x |-> X(rows[i].t_s, maxT), y |-> Y(rows[i].val[f], top)]
           path == Path(rows, f, maxT, top)
<1>1. PICK d : Lists(d, H) /\ path = [i \in 1 .. m |-> pt(d[i])]
  BY PathFacts
<1>2. /\ \A i \in 1 .. m : d[i] \in H
      /\ \A h \in H : \E i \in 1 .. m : d[i] = h
  BY <1>1 DEF Lists
<1> HIDE DEF H, path
<1>3. DOMAIN path = 1 .. m /\ \A i \in 1 .. m : path[i] = pt(d[i])
  BY <1>1
<1> HIDE DEF pt, m
<1>4. \A y : y \in Range(path) <=> \E i \in 1 .. m : y = pt(d[i])
  BY <1>3 DEF Range
<1>5. \A y : (\E i \in 1 .. m : y = pt(d[i])) <=> \E h \in H : y = pt(h)
  BY <1>2
<1>6. Range(path) = {pt(h) : h \in H}
  BY <1>4, <1>5
<1> QED BY <1>6 DEF pt, H, path

LEMMA LastTime ==
    ASSUME NEW n \in Nat \ {0}, NEW rows, RowsOK(rows, n)
    PROVE  LET maxT == Max({rows[i].t_s : i \in DOMAIN rows})
           IN  /\ maxT \in Nat /\ \A i \in 1 .. n : rows[i].t_s \in 0 .. maxT
               /\ \E i \in 1 .. n : maxT = rows[i].t_s
<1> DEFINE g == [i \in 1 .. n |-> rows[i].t_s]
           S == {rows[i].t_s : i \in DOMAIN rows}
<1>1. S = {g[i] : i \in 1 .. n} /\ S # {} /\ S \in SUBSET Int /\ \A i \in 1 .. n : rows[i].t_s \in S /\ rows[i].t_s \in Nat
  BY DEF RowsOK
<1>2. IsFiniteSet(1 .. n)
  BY FS_Interval
<1>3. \A t \in S : \E i \in 1 .. n : t = rows[i].t_s
  BY DEF RowsOK
<1> HIDE DEF g, S
<1>4. IsFiniteSet(S)
  BY <1>1, <1>2, ImageFinite
<1>5. Max(S) \in S /\ \A t \in S : t <= Max(S)
  BY <1>1, <1>4, MinMax
<1>6. PICK i \in 1 .. n : Max(S) = rows[i].t_s
  BY <1>3, <1>5
<1>7. Max(S) \in Nat
  BY <1>1, <1>6
<1>8. \A j \in 1 .. n : rows[j].t_s \in 0 .. Max(S)
  BY <1>1, <1>5, <1>7
<1> QED BY <1>6, <1>7, <1>8 DEF S

LEMMA TimeInside ==
    ASSUME NEW maxT \in Nat, NEW t \in 0 .. maxT
    PROVE  X(t, maxT) \in X0 .. X1
<1>1. X1 - X0 = 700 /\ X0 = 72 /\ X1 = 772
  BY Geometry
<1>2. CASE maxT <= 0
  BY <1>1, <1>2 DEF X
<1>3. CASE maxT > 0
  <2>1. maxT \in Nat \ {0} /\ 700 * t \in Nat /\ 700 * t <= maxT * 700
    BY <1>3
  <2> DEFINE q == (700 * t) \div maxT
  <2>2. q \in 0 .. 700
    BY <2>1, QuotientUpTo
  <2>3. X(t, maxT) = 72 + q
    BY <1>1, <1>3 DEF X
  <2> HIDE DEF q
  <2> QED BY <1>1, <2>2, <2>3
<1> QED BY <1>2, <1>3

LEMMA TimeApart ==
    ASSUME NEW maxT \in Nat, NEW t \in 0 .. maxT, NEW u \in 0 .. maxT, t < u, maxT <= 700
    PROVE  X(t, maxT) < X(u, maxT)
<1>1. X1 - X0 = 700 /\ X0 = 72
  BY Geometry
<1>2. maxT \in Nat \ {0} /\ ~ (maxT <= 0)
  OBVIOUS
<1>3. 700 * t \in Nat /\ 700 * u \in Nat /\ 700 * t + maxT <= 700 * u
  OBVIOUS
<1> DEFINE q == (700 * t) \div maxT
           r == (700 * u) \div maxT
<1>4. q < r /\ q \in Nat /\ r \in Nat
  BY <1>2, <1>3, QuotientApart, Quotient
<1>5. X(t, maxT) = 72 + q /\ X(u, maxT) = 72 + r
  BY <1>1, <1>2 DEF X
<1> HIDE DEF q, r
<1> QED BY <1>4, <1>5

\* The y axis of a card, and what lies inside it.
SvgFits(svg) ==
    LET pts == UNION {Range(svg.path[f]) : f \in TLFields}
        vmax == Max({p.v : p \in pts} \cup {0})
    IN  /\ \A p \in pts : Inside(p)
        /\ svg.top = IF vmax = 0 THEN One ELSE Min({t \in Nice : t >= vmax})

LEMMA SvgFit ==
    ASSUME NEW n \in Nat \ {0}, NEW rows, RowsOK(rows, n),
           \A i \in 1 .. n : \A f \in TLFields : OnAxis(rows[i].val[f])
    PROVE  SvgFits(timeline_svg(rows))
<1> DEFINE maxT == Max({rows[i].t_s : i \in DOMAIN rows})
           W == {rows[i].val[f] : i \in DOMAIN rows, f \in TLFields} \ {Bad}
           top == ymax(W)
           svg == timeline_svg(rows)
           pts == UNION {Range(svg.path[f]) : f \in TLFields}
           pt(i, f) == [v |-> rows[i].val[f], x |-> X(rows[i].t_s, maxT), y |-> Y(rows[i].val[f], top)]
<1>1. svg.top = top /\ svg.path = [f \in TLFields |-> Path(rows, f, maxT, top)]
  BY DEF timeline_svg
<1>2. maxT \in Nat /\ \A i \in 1 .. n : rows[i].t_s \in 0 .. maxT
  BY LastTime
<1>3. DOMAIN rows = 1 .. n
  BY DEF RowsOK
<1>4. \A v : v \in W <=> \E i \in 1 .. n : \E f \in TLFields : v = rows[i].val[f] /\ v # Bad
  BY <1>3
<1> HIDE DEF W
<1>5. W \in SUBSET Nat /\ W \in SUBSET Int
  BY <1>4 DEF RowsOK
<1>6. \A v \in W : Scaled(v)
  <2>1. \A v \in W : v \in Nat /\ OnAxis(v) /\ v \notin {Bad, Gone}
    BY <1>4, <1>5, ReportConstants
  <2> QED BY <2>1 DEF OnAxis, Scaled
<1>7. IsFiniteSet(W)
  <2> DEFINE g == [q \in (1 .. n) \X TLFields |-> rows[q[1]].val[q[2]]]
  <2>1. IsFiniteSet(1 .. n) /\ IsFiniteSet(TLFields)
    BY FS_Interval, ReportConstants
  <2>2. IsFiniteSet((1 .. n) \X TLFields)
    BY <2>1, FS_Product
  <2>3. \A i \in 1 .. n : \A f \in TLFields : <<i, f>> \in (1 .. n) \X TLFields /\ g[<<i, f>>] = rows[i].val[f]
    OBVIOUS
  <2> HIDE DEF g
  <2>4. IsFiniteSet({g[q] : q \in (1 .. n) \X TLFields})
    <3>1. PICK Q : Q = (1 .. n) \X TLFields
      OBVIOUS
    <3>2. IsFiniteSet({g[q] : q \in Q})
      BY <2>2, <3>1, ImageFinite
    <3> QED BY <3>1, <3>2
  <2>5. W \in SUBSET {g[q] : q \in (1 .. n) \X TLFields}
    <3> SUFFICES ASSUME NEW v \in W PROVE \E q \in (1 .. n) \X TLFields : v = g[q]
      OBVIOUS
    <3>1. PICK i \in 1 .. n, f \in TLFields : v = rows[i].val[f]
      BY <1>4
    <3> QED BY <2>3, <3>1
  <2> QED BY <2>4, <2>5, FS_Subset
<1>8. /\ top \in Nat \ {0} /\ \A v \in W : v <= top
      /\ top = IF Max(W \cup {0}) = 0 THEN One ELSE Min({t \in Nice : t >= Max(W \cup {0})})
  BY <1>5, <1>6, <1>7, AxisEnd
<1> HIDE DEF svg, maxT, top
<1>9. \A f \in TLFields : Range(svg.path[f]) = {pt(i, f) : i \in With(rows, n, f)}
  BY <1>1, <1>3, PathRange
<1>10. ASSUME NEW p \in pts
       PROVE  \E f \in TLFields : \E i \in With(rows, n, f) : p = pt(i, f)
  <2>1. PICK f \in TLFields : p \in Range(svg.path[f])
    OBVIOUS
  <2>2. p \in {pt(i, f) : i \in With(rows, n, f)}
    BY <1>9, <2>1
  <2> QED BY <2>2
<1>11. ASSUME NEW f \in TLFields, NEW i \in With(rows, n, f)
       PROVE  pt(i, f) \in pts
  BY <1>9
<1> HIDE DEF pts
<1>12. ASSUME NEW f \in TLFields, NEW i \in With(rows, n, f)
       PROVE  rows[i].val[f] \in W /\ i \in 1 .. n
  BY <1>4 DEF With
<1>13. {p.v : p \in pts} = W
  <2>1. ASSUME NEW p \in pts PROVE p.v \in W
    BY <1>10, <1>12
  <2>2. ASSUME NEW v \in W PROVE \E p \in pts : p.v = v
    <3>1. PICK i \in 1 .. n, f \in TLFields : v = rows[i].val[f] /\ v # Bad
      BY <1>4
    <3>2. i \in With(rows, n, f)
      BY <3>1 DEF With
    <3>3. pt(i, f) \in pts /\ pt(i, f).v = v
      BY <1>11, <3>1, <3>2
    <3> QED BY <3>3
  <2> QED BY <2>1, <2>2
<1>14. ASSUME NEW p \in pts PROVE Inside(p)
  <2>1. PICK f \in TLFields : \E i \in With(rows, n, f) : p = pt(i, f)
    BY <1>10
  <2>2. PICK i \in With(rows, n, f) : p = pt(i, f)
    BY <2>1
  <2>3. p.x = X(rows[i].t_s, maxT) /\ p.y = Y(rows[i].val[f], top)
    BY <2>2
  <2>4. X(rows[i].t_s, maxT) \in X0 .. X1
    BY <1>2, <1>12, TimeInside
  <2>a. rows[i].val[f] \in 0 .. top
    <3>1. rows[i].val[f] \in W /\ W \subseteq Nat
      BY <1>5, <1>12
    <3>2. rows[i].val[f] \in Nat /\ rows[i].val[f] <= top
      BY <1>8, <3>1
    <3> QED BY <1>8, <3>2
  <2>5. Y(rows[i].val[f], top) \in Y1 .. Y0
    BY <1>8, <2>a, YInside
  <2> QED BY <2>3, <2>4, <2>5 DEF Inside
<1>15. LET vmax == Max({p.v : p \in pts} \cup {0})
       IN  svg.top = IF vmax = 0 THEN One ELSE Min({t \in Nice : t >= vmax})
  BY <1>1, <1>8, <1>13
<1> QED BY <1>14, <1>15 DEF SvgFits, svg, pts

-----------------------------------------------------------------------------
(* The cards.                                                              *)

LEMMA KeysFacts ==
    ASSUME NEW tl, Whole(tl)
    PROVE  /\ IsFiniteSet(Keys(tl)) /\ Keys(tl) \subseteq Names \X Nat
           /\ \A k, m \in Keys(tl) : k[1] = m[1] /\ k[2] = m[2] => k = m
<1> DEFINE g == [i \in DOMAIN tl |-> <<tl[i].server, tl[i].conns>>]
<1>1. DOMAIN tl = 1 .. Len(tl) /\ Len(tl) \in Nat
  BY DEF Whole, Lines
<1>2. IsFiniteSet(DOMAIN tl)
  BY <1>1, FS_Interval
<1>3. Keys(tl) = {g[i] : i \in DOMAIN tl}
  BY DEF Keys
<1>4. \A i \in DOMAIN tl : tl[i].server \in Names /\ tl[i].conns \in Nat
  BY DEF Whole, Window
<1>5. Keys(tl) \subseteq Names \X Nat
  BY <1>4 DEF Keys
<1> HIDE DEF g
<1>6. IsFiniteSet(Keys(tl))
  BY <1>2, <1>3, ImageFinite
<1>7. \A k, m \in Keys(tl) : k[1] = m[1] /\ k[2] = m[2] => k = m
  BY <1>5
<1> QED BY <1>5, <1>6, <1>7

\* order.index: the fixed servers come first, and no two share a place.
LEMMA PlaceFacts ==
    ASSUME NEW tl, Whole(tl)
    PROVE  /\ \A k \in Keys(tl) : Place(tl, k[1]) \in Nat
           /\ \A k, m \in Keys(tl) : Place(tl, k[1]) = Place(tl, m[1]) => k[1] = m[1]
           /\ \A k \in Keys(tl) : k[1] \in Range(ORDER) <=> Place(tl, k[1]) <= Len(ORDER)
<1> DEFINE N == {k[1] : k \in Keys(tl)}
           rest == Sorted(N \ Range(ORDER))
           order == ORDER \o rest
           m == Len(ORDER)
<1>1. N \subseteq Names
  BY KeysFacts
<1>2. rest \in Seq(N \ Range(ORDER)) /\ Range(rest) = N \ Range(ORDER)
  <2> HIDE DEF N
  <2> QED BY <1>1, SortedFacts
<1>3. ORDER \in Seq(Range(ORDER))
  BY ReportConstants DEF Lines
<1>4. \A s : Place(tl, s) = CHOOSE i \in DOMAIN order : order[i] = s
  BY DEF Place
<1>5. \A k \in Keys(tl) : k[1] \in N
  OBVIOUS
<1> HIDE DEF N, rest
<1>6. Range(order) = Range(ORDER) \cup (N \ Range(ORDER))
  BY <1>2, <1>3, RangeConcat
<1> DEFINE C == Range(ORDER) \cup N
<1>a. ORDER \in Seq(C) /\ rest \in Seq(C)
  <2>1. Seq(Range(ORDER)) \subseteq Seq(C) /\ Seq(N \ Range(ORDER)) \subseteq Seq(C)
    OBVIOUS
  <2> QED BY <1>2, <1>3, <2>1
<1>b. /\ m \in Nat /\ Len(rest) \in Nat /\ DOMAIN order = 1 .. m + Len(rest)
      /\ \A i \in 1 .. m : order[i] = ORDER[i]
      /\ \A i \in 1 .. Len(rest) : order[m + i] = rest[i]
      /\ DOMAIN ORDER = 1 .. m /\ DOMAIN rest = 1 .. Len(rest)
  BY <1>a
<1> HIDE DEF order, m
<1>7. ASSUME NEW s \in N PROVE Place(tl, s) \in DOMAIN order /\ order[Place(tl, s)] = s
  <2>1. \E i \in DOMAIN order : order[i] = s
    BY <1>6 DEF Range
  <2> QED BY <1>4, <2>1
<1>8. ASSUME NEW s \in N PROVE s \in Range(ORDER) <=> Place(tl, s) <= m
  <2> DEFINE i == Place(tl, s)
  <2>1. i \in 1 .. m + Len(rest) /\ order[i] = s
    BY <1>7, <1>b
  <2> HIDE DEF i
  <2>2. CASE i <= m
    <3>1. i \in 1 .. m
      BY <1>b, <2>1, <2>2
    <3>2. s = ORDER[i] /\ i \in DOMAIN ORDER
      BY <1>b, <2>1, <3>1
    <3>3. s \in Range(ORDER)
      BY <3>2 DEF Range
    <3> QED BY <2>2, <3>3 DEF i
  <2>3. CASE i > m
    <3>1. i - m \in 1 .. Len(rest) /\ m + (i - m) = i
      BY <1>b, <2>1, <2>3
    <3>2. s = rest[i - m] /\ i - m \in DOMAIN rest
      BY <1>b, <2>1, <3>1
    <3>3. s \in Range(rest)
      BY <3>2 DEF Range
    <3>4. s \notin Range(ORDER) /\ ~ (i <= m)
      BY <1>2, <1>b, <2>1, <2>3, <3>3
    <3> QED BY <3>4 DEF i
  <2> QED BY <1>b, <2>1, <2>2, <2>3
<1>9. \A s \in N : Place(tl, s) \in Nat
  BY <1>7, <1>b
<1>10. \A s, t \in N : Place(tl, s) = Place(tl, t) => s = t
  BY <1>7
<1> QED BY <1>5, <1>8, <1>9, <1>10 DEF m

\* timeline_body: one card per key, by the place of its server and then by load.
LEMMA CardsFacts ==
    ASSUME NEW tl, Whole(tl)
    PROVE  LET n == Cardinality(Keys(tl))
           IN  /\ n \in Nat
               /\ \E keys :
                    /\ Lists(keys, Keys(tl))
                    /\ \A i, j \in 1 .. n : i < j =>
                         \/ Place(tl, keys[i][1]) < Place(tl, keys[j][1])
                         \/ (keys[i][1] = keys[j][1] /\ keys[i][2] < keys[j][2])
                    /\ Cards(tl) = [i \in 1 .. n |->
                                      [key |-> keys[i], trial |-> Trial(tl, keys[i]),
                                       svg |-> timeline_svg(RowsOf(tl, keys[i]))]]
<1> DEFINE S == Keys(tl)
           n == Cardinality(S)
           R == {p \in S \X S : \/ Place(tl, p[1][1]) < Place(tl, p[2][1])
                                \/ (p[1][1] = p[2][1] /\ p[1][2] < p[2][2])}
           keys == InOrder(S, R)
<1>1. IsFiniteSet(S)
  BY KeysFacts
<1>2. n \in Nat
  BY <1>1, FS_CardinalityType
<1>3. Cards(tl) = [i \in 1 .. n |-> [key |-> keys[i], trial |-> Trial(tl, keys[i]),
                                     svg |-> timeline_svg(RowsOf(tl, keys[i]))]]
  BY DEF Cards
<1>4. \A x, y \in S : <<x, y>> \in R <=> \/ Place(tl, x[1]) < Place(tl, y[1])
                                         \/ (x[1] = y[1] /\ x[2] < y[2])
  OBVIOUS
<1>5. \A x \in S : Place(tl, x[1]) \in Nat /\ x[2] \in Nat
  BY KeysFacts, PlaceFacts
<1>6. \A x, y \in S : /\ Place(tl, x[1]) = Place(tl, y[1]) => x[1] = y[1]
                      /\ x[1] = y[1] /\ x[2] = y[2] => x = y
  BY KeysFacts, PlaceFacts
<1> HIDE DEF R, S
<1>7. Orders(R, S)
  <2>1. \A x \in S : ~ (<<x, x>> \in R)
    BY <1>4, <1>5
  <2>2. ASSUME NEW x \in S, NEW y \in S, NEW z \in S, <<x, y>> \in R, <<y, z>> \in R
        PROVE  <<x, z>> \in R
    <3>1. \/ Place(tl, x[1]) < Place(tl, y[1])
          \/ (x[1] = y[1] /\ x[2] < y[2])
      BY <1>4, <2>2
    <3>2. \/ Place(tl, y[1]) < Place(tl, z[1])
          \/ (y[1] = z[1] /\ y[2] < z[2])
      BY <1>4, <2>2
    <3>3. \/ Place(tl, x[1]) < Place(tl, z[1])
          \/ (x[1] = z[1] /\ x[2] < z[2])
      BY <1>5, <3>1, <3>2
    <3> QED BY <1>4, <3>3
  <2>3. ASSUME NEW x \in S, NEW y \in S
        PROVE  x = y \/ <<x, y>> \in R \/ <<y, x>> \in R
    <3>1. \/ Place(tl, x[1]) < Place(tl, y[1])
          \/ Place(tl, y[1]) < Place(tl, x[1])
          \/ x[1] = y[1]
      BY <1>5, <1>6
    <3>2. x[2] < y[2] \/ y[2] < x[2] \/ x[2] = y[2]
      BY <1>5
    <3> QED BY <1>4, <1>6, <3>1, <3>2
  <2> QED BY <2>1, <2>2, <2>3 DEF Orders
<1>8. /\ Lists(keys, S)
      /\ \A i, j \in 1 .. n : i < j => <<keys[i], keys[j]>> \in R
  BY <1>1, <1>7, InOrderFacts
<1> HIDE DEF keys
<1>9. \A i \in 1 .. n : keys[i] \in S
  BY <1>8 DEF Lists
<1>10. \A i, j \in 1 .. n : i < j => \/ Place(tl, keys[i][1]) < Place(tl, keys[j][1])
                                     \/ (keys[i][1] = keys[j][1] /\ keys[i][2] < keys[j][2])
  BY <1>4, <1>8, <1>9
<1> QED BY <1>2, <1>3, <1>8, <1>10 DEF S

LEMMA WholeFile ==
    ASSUME ReportInv, status = "shown", in.tl # None
    PROVE  in \in Inputs /\ Whole(in.tl) /\ cards = Cards(in.tl) /\ Cut \notin Range(in.tl)
<1>0. in \in Inputs /\ ~ Unreadable(in.tl) /\ cards = Cards(in.tl)
  BY DEF ReportInv, ReadInv, ReadTypes, ShownInv, Shown
<1>1. in \in Inputs /\ Cut \notin Range(in.tl) /\ cards = Cards(in.tl)
  BY <1>0 DEF Unreadable
<1>2. Lines(in.tl) /\ \A r \in Range(in.tl) \ {Cut} : Window(r)
  BY <1>1, ReportConstants
<1>3. \A i \in DOMAIN in.tl : in.tl[i] \in Range(in.tl)
  BY DEF Range
<1> QED BY <1>0, <1>1, <1>2, <1>3 DEF Whole

LEMMA RowsAreOK ==
    ASSUME NEW tl, Whole(tl), NEW key \in Keys(tl)
    PROVE  LET n == Cardinality(Low(tl, key))
               rows == RowsOf(tl, key)
           IN  /\ n \in Nat \ {0} /\ RowsOK(rows, n)
               /\ \A i \in 1 .. n : \E j \in DOMAIN tl : rows[i] = tl[j]
<1> DEFINE L == Low(tl, key)
           n == Cardinality(L)
           rows == RowsOf(tl, key)
<1>1. n \in Nat \ {0} /\ \E e : Lists(e, L) /\ rows = [i \in 1 .. n |-> tl[e[i]]]
  BY RowsFacts
<1>2. PICK e : Lists(e, L) /\ rows = [i \in 1 .. n |-> tl[e[i]]]
  BY <1>1
<1>3. L \subseteq DOMAIN tl
  BY LowFacts
<1>4. \A i \in 1 .. n : e[i] \in L
  BY <1>2 DEF Lists
<1>6. ASSUME NEW i \in L
      PROVE  tl[i].t_s \in Nat /\ \A f \in TLFields : tl[i].val[f] \in Nat \cup {Bad}
  <2>1. i \in DOMAIN tl /\ tl[i].trial = Trial(tl, <<tl[i].server, tl[i].conns>>)
    BY DEF Low, RowsAt
  <2>2. \A f \in TLFields : tl[i].val[f] # Gone
    BY <2>1 DEF Whole, Unreadable
  <2>3. Window(tl[i])
    BY <2>1 DEF Whole
  <2> QED BY <2>2, <2>3 DEF Window
<1> HIDE DEF L, n, rows
<1>5. DOMAIN rows = 1 .. n /\ \A i \in 1 .. n : rows[i] = tl[e[i]] /\ e[i] \in DOMAIN tl /\ e[i] \in L
  BY <1>2, <1>3, <1>4
<1>7. RowsOK(rows, n)
  BY <1>5, <1>6 DEF RowsOK
<1> QED BY <1>1, <1>5, <1>7 DEF L, n, rows

LEMMA CardsFit ==
    ASSUME ReportInv, status = "shown", Plottable(in), NEW i \in DOMAIN cards
    PROVE  SvgFits(cards[i].svg)
<1>1. in.tl # None
  <2>1. DOMAIN << >> = {}
    OBVIOUS
  <2> QED BY <2>1 DEF ReportInv, ShownInv, Shown
<1> DEFINE tl == in.tl
           n == Cardinality(Keys(tl))
<1>2. in \in Inputs /\ Whole(tl) /\ cards = Cards(tl) /\ Cut \notin Range(tl)
  BY <1>1, WholeFile
<1> HIDE DEF tl
<1>3. PICK keys : /\ Lists(keys, Keys(tl))
                  /\ Cards(tl) = [j \in 1 .. n |->
                                    [key |-> keys[j], trial |-> Trial(tl, keys[j]),
                                     svg |-> timeline_svg(RowsOf(tl, keys[j]))]]
  BY <1>2, CardsFacts
<1>4. i \in 1 .. n /\ cards[i].svg = timeline_svg(RowsOf(tl, keys[i]))
  BY <1>2, <1>3
<1>5. keys[i] \in Keys(tl)
  BY <1>3, <1>4 DEF Lists
<1> DEFINE rows == RowsOf(tl, keys[i])
           m == Cardinality(Low(tl, keys[i]))
<1>6. m \in Nat \ {0} /\ RowsOK(rows, m) /\ \A h \in 1 .. m : \E j \in DOMAIN tl : rows[h] = tl[j]
  BY <1>2, <1>5, RowsAreOK
<1>7. \A j \in DOMAIN tl : \A f \in TLFields : OnAxis(tl[j].val[f])
  <2>1. \A r \in Range(tl) \ {Cut} : \A f \in TLFields : OnAxis(r.val[f])
    BY <1>1 DEF Plottable, tl
  <2>2. \A j \in DOMAIN tl : tl[j] \in Range(tl) \ {Cut}
    BY <1>2 DEF Range
  <2> QED BY <2>1, <2>2
<1> HIDE DEF rows, m
<1>8. \A h \in 1 .. m : \A f \in TLFields : OnAxis(rows[h].val[f])
  BY <1>6, <1>7
<1>9. SvgFits(timeline_svg(rows))
  BY <1>6, <1>8, SvgFit
<1> QED BY <1>4, <1>9 DEF rows

\* For any files with no value above the powers of ten of the axes and no more load
\* levels than columns: no point of a chart or of a timeline card falls outside its plot
\* unless its value is negative, and then it is drawn below the axis; loads stand in
\* order, and each y axis ends at the least round number that holds what is visible
\* (niceMax, render, nice_max and timeline_svg of plot.py).
THEOREM AxesAlwaysFit ==
    ASSUME \A file \in Inputs : Plottable(file)
    PROVE  Spec => []AxisFits
<1>1. ReportInv => AxisFits
  <2> SUFFICES ASSUME ReportInv, status = "shown" PROVE AxisFits
    BY DEF AxisFits
  <2>1. Plottable(in)
    BY AllRead
  <2>2. \A f \in Fields : ChartFits(f)
    BY <2>1, ChartsFit
  <2>3. \A i \in DOMAIN cards : SvgFits(cards[i].svg)
    BY <2>1, CardsFit
  <2> QED BY <2>2, <2>3 DEF AxisFits, ChartFits, SvgFits
<1> QED BY <1>1, ReportAlways, PTL

\* The labels of the time axis: at least the one at 0, and at most seven.
LEMMA LabelsFacts ==
    ASSUME NEW maxT \in Nat
    PROVE  Cardinality(Labels(maxT)) \in 1 .. 7 /\ 0 \in Labels(maxT)
<1> DEFINE z == -((-maxT) \div 6)
           step == Max({1, z})
           T == {t \in 0 .. maxT : t % step = 0}
           g == [t \in T |-> t \div step]
<1>1. Labels(maxT) = T
  BY DEF Labels
<1>2. z \in Int /\ maxT <= 6 * z
  OBVIOUS
<1> HIDE DEF z
<1>3. step \in {1, z} /\ 1 <= step /\ z <= step
  <2>1. {1, z} \in SUBSET Int /\ {1, z} # {}
    BY <1>2
  <2>2. IsFiniteSet({1} \cup {z})
    BY FS_Singleton, FS_AddElement
  <2>3. {1} \cup {z} = {1, z}
    OBVIOUS
  <2>4. IsFiniteSet({1, z})
    BY <2>2, <2>3
  <2> QED BY <2>1, <2>4, MinMax
<1> HIDE DEF step
<1>4. step \in Nat \ {0} /\ maxT <= step * 6
  BY <1>2, <1>3
<1>5. ASSUME NEW t \in T PROVE t \div step \in 0 .. 6 /\ t = step * (t \div step)
  <2>1. t \in Nat /\ t <= maxT /\ t % step = 0
    OBVIOUS
  <2>2. t <= step * 6
    BY <1>4, <2>1
  <2>3. t \div step \in 0 .. 6
    BY <1>4, <2>1, <2>2, QuotientUpTo
  <2>4. t = step * (t \div step) + (t % step)
    BY <1>4, <2>1, Quotient
  <2> DEFINE q == t \div step
  <2>5. q \in Nat
    BY <2>3
  <2> HIDE DEF q
  <2>6. step * q \in Int
    BY <1>4, <2>5
  <2>7. t = step * q
    BY <2>1, <2>4, <2>6 DEF q
  <2> QED BY <2>3, <2>7 DEF q
<1>6. g \in Injection(T, 0 .. 6)
  <2>1. g \in [T -> 0 .. 6]
    BY <1>5
  <2>2. \A t, u \in T : g[t] = g[u] => t = u
    <3> SUFFICES ASSUME NEW t \in T, NEW u \in T, g[t] = g[u] PROVE t = u
      OBVIOUS
    <3>1. t \div step = u \div step
      OBVIOUS
    <3>2. t = step * (t \div step) /\ u = step * (u \div step)
      BY <1>5
    <3> HIDE DEF T
    <3> QED BY <3>1, <3>2
  <2> QED BY <2>1, <2>2 DEF Injection, IsInjective
<1>7. IsFiniteSet(0 .. 6) /\ Cardinality(0 .. 6) = 7
  <2>1. IsFiniteSet(0 .. 6) /\ Cardinality(0 .. 6) = IF 0 > 6 THEN 0 ELSE 6 - 0 + 1
    BY 0 \in Int, 6 \in Int, FS_Interval
  <2> QED BY <2>1
<1>8. 0 \in T
  <2>1. 0 % step = 0
    BY <1>4
  <2> QED BY <2>1
<1> HIDE DEF T, g
<1>9. IsFiniteSet(T) /\ Cardinality(T) <= 7
  BY <1>6, <1>7, FS_Injection
<1>10. Cardinality(T) \in Nat /\ Cardinality(T) # 0
  BY <1>8, <1>9, FS_CardinalityType, FS_EmptySet
<1> QED BY <1>1, <1>8, <1>9, <1>10

\* What a card shows of the rows of its trial: every row with the value, in time order.
PathShows(path, f, tl, low) ==
    /\ Len(path) = Cardinality({j \in low : tl[j].val[f] # Bad})
    /\ \A a, b \in DOMAIN path : a < b => path[a].x < path[b].x
    /\ {p.v : p \in Range(path)} = {tl[j].val[f] : j \in low} \ {Bad}

LEMMA CardPath ==
    ASSUME NEW tl, Whole(tl), NEW key \in Keys(tl), NEW f \in TLFields,
           \A i \in DOMAIN tl : tl[i].t_s <= 700,
           \A i, j \in Low(tl, key) : tl[i].t_s = tl[j].t_s => i = j
    PROVE  PathShows(timeline_svg(RowsOf(tl, key)).path[f], f, tl, Low(tl, key))
<1>0. PICK L, n, rows : L = Low(tl, key) /\ n = Cardinality(L) /\ rows = RowsOf(tl, key)
  OBVIOUS
<1> DEFINE maxT == Max({rows[i].t_s : i \in DOMAIN rows})
           top == ymax({rows[i].val[g] : i \in DOMAIN rows, g \in TLFields} \ {Bad})
           path == timeline_svg(rows).path[f]
           H == With(rows, n, f)
           m == Cardinality(H)
           J == {j \in L : tl[j].val[f] # Bad}
<1>1. path = Path(rows, f, maxT, top)
  BY DEF timeline_svg
<1>2. n \in Nat \ {0} /\ RowsOK(rows, n) /\ \A i \in 1 .. n : \E j \in DOMAIN tl : rows[i] = tl[j]
  BY <1>0, RowsAreOK
<1>3. PICK e : /\ Lists(e, L) /\ rows = [i \in 1 .. n |-> tl[e[i]]]
               /\ \A i, j \in 1 .. n : i < j =>
                    \/ tl[e[i]].t_s < tl[e[j]].t_s
                    \/ (tl[e[i]].t_s = tl[e[j]].t_s /\ e[i] < e[j])
  BY <1>0, RowsFacts
<1>4. /\ \A i \in 1 .. n : e[i] \in L
      /\ \A i, j \in 1 .. n : e[i] = e[j] => i = j
      /\ \A j \in L : \E i \in 1 .. n : e[i] = j
  BY <1>0, <1>3 DEF Lists
<1>5. L \subseteq DOMAIN tl /\ IsFiniteSet(L) /\ L \subseteq Int
  BY <1>0, LowFacts
<1>6. /\ maxT \in Nat /\ \A i \in 1 .. n : rows[i].t_s \in 0 .. maxT
      /\ \E i \in 1 .. n : maxT = rows[i].t_s
  <2>1. RowsOK(rows, n) /\ n \in Nat \ {0}
    BY <1>2
  <2>2. maxT \in Nat /\ \A i \in 1 .. n : rows[i].t_s \in 0 .. maxT
    BY <2>1, LastTime
  <2>3. \E i \in 1 .. n : maxT = rows[i].t_s
    BY <2>1, LastTime
  <2> QED BY <2>2, <2>3
<1> HIDE DEF maxT, top
<1>7. DOMAIN rows = 1 .. n /\ \A i \in 1 .. n : rows[i] = tl[e[i]]
  BY <1>3
<1>8. maxT <= 700
  <2>1. PICK i \in 1 .. n : maxT = rows[i].t_s
    BY <1>6
  <2>2. PICK j \in DOMAIN tl : rows[i] = tl[j]
    BY <1>2, <2>1
  <2> QED BY <2>1, <2>2
<1>9. PICK d : /\ Lists(d, H)
               /\ \A i, j \in 1 .. m : i < j => d[i] < d[j]
               /\ path = [i \in 1 .. m |-> [v |-> rows[d[i]].val[f], x |-> X(rows[d[i]].t_s, maxT),
                                            y |-> Y(rows[d[i]].val[f], top)]]
  BY <1>1, <1>2, <1>7, PathFacts
<1>a. IsFiniteSet(H) /\ m \in Nat
  BY <1>2, <1>7, PathFacts
<1>10. \A i \in 1 .. m : d[i] \in H /\ d[i] \in 1 .. n
  BY <1>9 DEF Lists, With
<1> HIDE DEF path, m
<1>11. DOMAIN path = 1 .. m /\ \A i \in 1 .. m : path[i].x = X(rows[d[i]].t_s, maxT)
  BY <1>9
<1>12. Len(path) = m
  <2>1. path \in [1 .. m -> Range(path)]
    <3>1. path = [i \in 1 .. m |-> path[i]]
      BY <1>9
    <3>2. \A i \in 1 .. m : path[i] \in Range(path)
      BY <1>11 DEF Range
    <3> QED BY <3>1, <3>2
  <2> QED BY <1>a, <2>1
<1>13. ASSUME NEW i \in 1 .. n, NEW j \in 1 .. n, i < j
       PROVE  rows[i].t_s < rows[j].t_s
  <2>1. \/ tl[e[i]].t_s < tl[e[j]].t_s
        \/ (tl[e[i]].t_s = tl[e[j]].t_s /\ e[i] < e[j])
    BY <1>3, <1>13
  <2>2. e[i] \in L /\ e[j] \in L /\ e[i] # e[j]
    BY <1>2, <1>4, <1>13
  <2>3. tl[e[i]].t_s # tl[e[j]].t_s
    BY <1>0, <2>2
  <2> QED BY <1>7, <2>1, <2>3
<1>14. ASSUME NEW a \in DOMAIN path, NEW b \in DOMAIN path, a < b
       PROVE  path[a].x < path[b].x
  <2>1. a \in 1 .. m /\ b \in 1 .. m /\ d[a] \in 1 .. n /\ d[b] \in 1 .. n /\ d[a] < d[b]
    BY <1>9, <1>10, <1>11, <1>14 DEF m
  <2>2. rows[d[a]].t_s < rows[d[b]].t_s
    BY <1>13, <2>1
  <2>3. rows[d[a]].t_s \in 0 .. maxT /\ rows[d[b]].t_s \in 0 .. maxT
    BY <1>6, <2>1
  <2>4. X(rows[d[a]].t_s, maxT) < X(rows[d[b]].t_s, maxT)
    BY <1>6, <1>8, <2>2, <2>3, TimeApart
  <2> QED BY <1>11, <2>1, <2>4
<1>15. \A i \in 1 .. n : i \in H <=> e[i] \in J
  BY <1>4, <1>7 DEF With
<1>16. m = Cardinality(J)
  <2> DEFINE g == [i \in H |-> e[i]]
  <2>0. \A i \in H : i \in 1 .. n
    BY DEF With
  <2>1. \A i \in H : g[i] = e[i] /\ e[i] \in J
    BY <1>15, <2>0
  <2>2. g \in [H -> J]
    BY <2>1
  <2>3. \A i, j \in H : g[i] = g[j] => i = j
    BY <1>4, <2>0, <2>1
  <2>4. \A j \in J : \E i \in H : g[i] = j
    <3> SUFFICES ASSUME NEW j \in J PROVE \E i \in H : g[i] = j
      OBVIOUS
    <3>1. PICK i \in 1 .. n : e[i] = j
      BY <1>4
    <3>2. i \in H
      BY <1>15, <3>1
    <3> QED BY <2>1, <3>1, <3>2
  <2> HIDE DEF g, H, J
  <2>5. g \in Bijection(H, J)
    BY <2>2, <2>3, <2>4 DEF Bijection, Injection, IsInjective, Surjection
  <2>6. ExistsBijection(H, J)
    BY <2>5 DEF ExistsBijection
  <2> QED BY <1>a, <2>6, FS_Bijection DEF m
<1>17. {p.v : p \in Range(path)} = {tl[j].val[f] : j \in L} \ {Bad}
  <2>1. Range(path) = {[v |-> rows[i].val[f], x |-> X(rows[i].t_s, maxT), y |-> Y(rows[i].val[f], top)] :
                         i \in H}
    BY <1>1, <1>2, <1>7, PathRange
  <2>2. ASSUME NEW p \in Range(path) PROVE \E j \in J : p.v = tl[j].val[f]
    <3>1. PICK i \in H : p.v = rows[i].val[f]
      BY <2>1
    <3>2. i \in 1 .. n
      BY DEF With
    <3>3. e[i] \in J /\ rows[i] = tl[e[i]]
      BY <1>7, <1>15, <3>1, <3>2
    <3> QED BY <3>1, <3>3
  <2>3. ASSUME NEW j \in J PROVE \E p \in Range(path) : p.v = tl[j].val[f]
    <3>1. PICK i \in 1 .. n : e[i] = j
      BY <1>4
    <3>2. i \in H /\ rows[i] = tl[j]
      BY <1>7, <1>15, <3>1
    <3> DEFINE p == [v |-> rows[i].val[f], x |-> X(rows[i].t_s, maxT), y |-> Y(rows[i].val[f], top)]
    <3>3. p \in Range(path) /\ p.v = tl[j].val[f]
      BY <2>1, <3>2
    <3> QED BY <3>3
  <2>4. \A v : v \in {tl[j].val[f] : j \in L} \ {Bad} <=> \E j \in J : v = tl[j].val[f]
    OBVIOUS
  <2> HIDE DEF J
  <2>6. ASSUME NEW v, v \in {p.v : p \in Range(path)} PROVE v \in {tl[j].val[f] : j \in L} \ {Bad}
    <3>1. PICK p \in Range(path) : v = p.v
      BY <2>6
    <3> QED BY <2>2, <2>4, <3>1
  <2>7. ASSUME NEW v, v \in {tl[j].val[f] : j \in L} \ {Bad} PROVE v \in {p.v : p \in Range(path)}
    <3>1. PICK j \in J : v = tl[j].val[f]
      BY <2>4, <2>7
    <3>2. PICK p \in Range(path) : p.v = v
      BY <2>3, <3>1
    <3> QED BY <3>2
  <2> QED BY <2>6, <2>7
<1>18. PathShows(path, f, tl, L)
  BY <1>12, <1>14, <1>16, <1>17 DEF PathShows, J
<1> QED BY <1>0, <1>18 DEF path

LEMMA CardLabels ==
    ASSUME NEW tl, Whole(tl), NEW key \in Keys(tl)
    PROVE  LET labels == timeline_svg(RowsOf(tl, key)).labels
           IN  Cardinality(labels) \in 1 .. 7 /\ 0 \in labels
<1> DEFINE rows == RowsOf(tl, key)
           maxT == Max({rows[i].t_s : i \in DOMAIN rows})
<1>1. timeline_svg(rows).labels = Labels(maxT)
  BY DEF timeline_svg
<1>2. maxT \in Nat
  BY RowsAreOK, LastTime
<1> HIDE DEF maxT
<1> QED BY <1>1, <1>2, LabelsFacts

\* TimelineCards, of the cards cs for the file tl.
Complete(cs, tl) ==
    /\ {cs[i].key : i \in DOMAIN cs} = Keys(tl) /\ Len(cs) = Cardinality(Keys(tl))
    /\ \A i, j \in DOMAIN cs :
         /\ i < j /\ cs[i].key[1] = cs[j].key[1] => cs[i].key[2] < cs[j].key[2]
         /\ cs[i].key[1] \in Range(ORDER) /\ cs[j].key[1] \notin Range(ORDER) => i < j
    /\ \A i \in DOMAIN cs :
         LET all == {j \in DOMAIN tl : <<tl[j].server, tl[j].conns>> = cs[i].key}
             low == {j \in all : \A h \in all : tl[j].trial <= tl[h].trial}
         IN  /\ \A j \in low : tl[j].trial = cs[i].trial
             /\ \A f \in TLFields : PathShows(cs[i].svg.path[f], f, tl, low)
             /\ Cardinality(cs[i].svg.labels) \in 1 .. 7 /\ 0 \in cs[i].svg.labels

\* For any timeline file with one window per second of a trial and no more seconds than
\* columns: one card for each server and load, in order, with every window of the
\* lowest trial that has the value, in time order, and one to seven labels
\* (load_timeline, timeline_body and timeline_svg of plot.py).
THEOREM CardsAreComplete ==
    ASSUME \A file \in Inputs : Timed(file)
    PROVE  Spec => []TimelineCards
<1>1. ReportInv => TimelineCards
  <2> SUFFICES ASSUME ReportInv, status = "shown", in.tl # None PROVE TimelineCards
    BY DEF TimelineCards
  <2>0. PICK tl : tl = in.tl
    OBVIOUS
  <2> DEFINE n == Cardinality(Keys(tl))
  <2>1. in \in Inputs /\ Whole(tl) /\ cards = Cards(tl) /\ Cut \notin Range(tl)
    BY <2>0, WholeFile
  <2>2. Timed(in)
    BY <2>1
  <2>3. /\ \A i \in DOMAIN tl : tl[i].t_s <= 700
        /\ \A i, j \in DOMAIN tl :
             (/\ tl[i].server = tl[j].server /\ tl[i].conns = tl[j].conns
              /\ tl[i].trial = tl[j].trial /\ tl[i].t_s = tl[j].t_s) => i = j
    <3>1. \A i \in DOMAIN tl : tl[i] \in Range(tl) /\ tl[i] # Cut
      BY <2>1 DEF Range
    <3>2. X1 - X0 = 700
      BY Geometry
    <3> QED BY <2>0, <2>2, <3>1, <3>2 DEF Timed
  <2>4. n \in Nat
    BY <2>1, CardsFacts
  <2>5. PICK keys : /\ Lists(keys, Keys(tl))
                    /\ \A i, j \in 1 .. n : i < j =>
                         \/ Place(tl, keys[i][1]) < Place(tl, keys[j][1])
                         \/ (keys[i][1] = keys[j][1] /\ keys[i][2] < keys[j][2])
                    /\ Cards(tl) = [i \in 1 .. n |->
                                      [key |-> keys[i], trial |-> Trial(tl, keys[i]),
                                       svg |-> timeline_svg(RowsOf(tl, keys[i]))]]
    BY <2>1, CardsFacts
  <2>6. /\ DOMAIN cards = 1 .. n
        /\ \A i \in 1 .. n : /\ cards[i].key = keys[i] /\ cards[i].trial = Trial(tl, keys[i])
                             /\ cards[i].svg = timeline_svg(RowsOf(tl, keys[i]))
        /\ cards = [i \in 1 .. n |-> cards[i]]
    BY <2>1, <2>5
  <2>7. /\ \A i \in 1 .. n : keys[i] \in Keys(tl)
        /\ \A k \in Keys(tl) : \E i \in 1 .. n : keys[i] = k
    BY <2>5 DEF Lists
  <2> HIDE DEF n
  <2>8. {cards[i].key : i \in DOMAIN cards} = Keys(tl) /\ Len(cards) = n
    <3>1. {cards[i].key : i \in DOMAIN cards} = {keys[i] : i \in 1 .. n}
      BY <2>6
    <3>2. {keys[i] : i \in 1 .. n} = Keys(tl)
      BY <2>7
    <3>3. cards \in [1 .. n -> Range(cards)]
      <4>1. \A i \in 1 .. n : cards[i] \in Range(cards)
        BY <2>6 DEF Range
      <4> QED BY <2>6, <4>1
    <3>4. Len(cards) = n
      BY <2>4, <3>3
    <3> QED BY <3>1, <3>2, <3>4
  <2>9. ASSUME NEW i \in DOMAIN cards, NEW j \in DOMAIN cards
        PROVE  /\ i < j /\ cards[i].key[1] = cards[j].key[1] => cards[i].key[2] < cards[j].key[2]
               /\ cards[i].key[1] \in Range(ORDER) /\ cards[j].key[1] \notin Range(ORDER) => i < j
    <3>1. i \in 1 .. n /\ j \in 1 .. n /\ cards[i].key = keys[i] /\ cards[j].key = keys[j]
      BY <2>6
    <3>2. keys[i] \in Keys(tl) /\ keys[j] \in Keys(tl)
      BY <2>7, <3>1
    <3> DEFINE p == Place(tl, keys[i][1])
               q == Place(tl, keys[j][1])
    <3>3. /\ p \in Nat /\ q \in Nat
          /\ keys[i][1] \in Range(ORDER) <=> p <= Len(ORDER)
          /\ keys[j][1] \in Range(ORDER) <=> q <= Len(ORDER)
          /\ keys[i][1] = keys[j][1] => p = q
      BY <2>1, <3>2, PlaceFacts
    <3>4. /\ i < j => p < q \/ (keys[i][1] = keys[j][1] /\ keys[i][2] < keys[j][2])
          /\ j < i => q < p \/ keys[j][1] = keys[i][1]
      BY <2>5, <3>1 DEF n
    <3>a. Len(ORDER) \in Nat
      BY ReportConstants DEF Lines
    <3> HIDE DEF p, q
    <3>5. i < j /\ keys[i][1] = keys[j][1] => keys[i][2] < keys[j][2]
      BY <3>3, <3>4
    <3>6. ASSUME keys[i][1] \in Range(ORDER), keys[j][1] \notin Range(ORDER)
          PROVE  i < j
      <4>1. p <= Len(ORDER) /\ ~ (q <= Len(ORDER)) /\ p < q
        BY <3>3, <3>6, <3>a
      <4>2. i # j
        BY <3>6
      <4>3. ~ (j < i)
        BY <3>3, <3>4, <3>6, <4>1
      <4> QED BY <2>4, <3>1, <4>2, <4>3
    <3> QED BY <3>1, <3>5, <3>6
  <2>10. ASSUME NEW i \in DOMAIN cards
         PROVE  LET all == {j \in DOMAIN tl : <<tl[j].server, tl[j].conns>> = cards[i].key}
                    low == {j \in all : \A h \in all : tl[j].trial <= tl[h].trial}
                IN  /\ \A j \in low : tl[j].trial = cards[i].trial
                    /\ \A f \in TLFields : PathShows(cards[i].svg.path[f], f, tl, low)
                    /\ Cardinality(cards[i].svg.labels) \in 1 .. 7 /\ 0 \in cards[i].svg.labels
    <3>0. PICK key : key = keys[i]
      OBVIOUS
    <3> DEFINE all == {j \in DOMAIN tl : <<tl[j].server, tl[j].conns>> = cards[i].key}
               low == {j \in all : \A h \in all : tl[j].trial <= tl[h].trial}
    <3>1. i \in 1 .. n /\ cards[i].key = key /\ cards[i].trial = Trial(tl, key)
      BY <2>6, <3>0
    <3>2. key \in Keys(tl) /\ cards[i].svg = timeline_svg(RowsOf(tl, key))
      BY <2>6, <2>7, <3>0, <3>1
    <3>3. all = RowsAt(tl, key)
      BY <3>1 DEF RowsAt
    <3>4. low = Low(tl, key)
      <4>1. Low(tl, key) = {j \in RowsAt(tl, key) : \A h \in RowsAt(tl, key) : tl[j].trial <= tl[h].trial}
        BY <2>1, <3>2, LowFacts
      <4> HIDE DEF all
      <4> QED BY <3>3, <4>1
    <3>5. \A j \in Low(tl, key) : /\ tl[j].trial = Trial(tl, key) /\ j \in DOMAIN tl
                                  /\ <<tl[j].server, tl[j].conns>> = key
      BY DEF Low, RowsAt
    <3> HIDE DEF low
    <3>6. \A g, h \in Low(tl, key) : tl[g].t_s = tl[h].t_s => g = h
      BY <2>3, <3>5
    <3>7. \A j \in low : tl[j].trial = cards[i].trial
      BY <3>1, <3>4, <3>5
    <3>8. ASSUME NEW f \in TLFields PROVE PathShows(cards[i].svg.path[f], f, tl, low)
      <4>1. \A j \in DOMAIN tl : tl[j].t_s <= 700
        BY <2>3
      <4>2. PathShows(timeline_svg(RowsOf(tl, key)).path[f], f, tl, Low(tl, key))
        BY <2>1, <3>2, <3>6, <4>1, CardPath
      <4> QED BY <3>2, <3>4, <4>2
    <3>9. Cardinality(cards[i].svg.labels) \in 1 .. 7 /\ 0 \in cards[i].svg.labels
      BY <2>1, <3>2, CardLabels
    <3> QED BY <3>7, <3>8, <3>9 DEF low
  <2>11. Complete(cards, tl)
    BY <2>8, <2>9, <2>10 DEF Complete, n
  <2>12. Complete(cards, in.tl)
    BY <2>0, <2>11
  <2> QED BY <2>12 DEF TimelineCards, Complete, PathShows
<1> QED BY <1>1, ReportAlways, PTL

=============================================================================
