------------------------------- MODULE Report -------------------------------
(***************************************************************************)
(* runner/plot.py: from results.csv and timeline.csv to the report, and    *)
(* the report's two scripts in the browser.  A value is a whole number of  *)
(* 1/One, so that medians and the powers of ten of an axis are integers.   *)
(* Text, colours and markup are left out; of the style sheet, what decides *)
(* which buttons and panels can be seen is kept.                           *)
(***************************************************************************)
EXTENDS Integers, Sequences, FiniteSets, FiniteSetsExt, Functions

CONSTANTS
    Inputs,     \* pairs of files: [csv |-> rows, tl |-> rows or None]
    Fields,     \* the fields of CHARTS
    TLFields,   \* the fields of TL_SERIES
    ORDER,      \* the servers with a fixed place
    Alphabet,   \* all server names, sorted
    One,        \* the value 1
    Powers,     \* the powers of ten an axis may need
    Bad,        \* a field that is missing or is not a number
    Cut,        \* a line that ends before a field that must be there
    Gone,       \* the percentiles that a line of timeline.csv ends before
    None

VARIABLES
    in,         \* the two files
    line,       \* load(): lines of the CSV read so far
    data,       \* load(): the values of each (field, server, conns)
    servers,    \* load()
    conns,      \* load()
    status,     \* "load", "shown", "empty" or "TypeError"
    cards,      \* the cards of the second tab
    hidden,     \* the first script: servers that were clicked away
    page        \* what the browser shows, without parts before it does

vars == <<in, line, data, servers, conns, status, cards, hidden, page>>

G == [W |-> 900, H |-> 360, ML |-> 72, MR |-> 128, MT |-> 40, MB |-> 52]
X0 == G.ML
X1 == G.W - G.MR
Y0 == G.H - G.MB
Y1 == G.MT

-----------------------------------------------------------------------------
(* Axes. *)

\* Mutant: the power of ten is rounded down to itself.
nice_floor(v) ==
    IF v <= 0 THEN One
    ELSE LET p == Max({q \in Powers : q <= v})
             nf == CASE v < 2 * p -> 1 [] v >= 2 * p /\ v < 5 * p -> 2 [] OTHER -> 5
         IN  nf * p

nice_max(v) ==
    IF v <= 0 THEN One
    ELSE LET p == Max({q \in Powers : q <= v})
             nf == CASE v <= p -> 1 [] v > p /\ v <= 2 * p -> 2
                     [] v > 2 * p /\ v <= 5 * p -> 5 [] OTHER -> 10
         IN  nf * p

ymax(values) == LET vmax == Max(values \cup {0}) IN IF vmax > 0 THEN nice_max(vmax) ELSE One

Y(v, top) == Y0 - ((Y0 - Y1) * v) \div top
xpos(i, n) == IF n <= 1 THEN X0 ELSE X0 + ((X1 - X0) * i) \div (n - 1)

-----------------------------------------------------------------------------
(* Python's sorted and its list comprehensions. *)

\* The members of S in the order of `before', a set of pairs.
InOrder(S, before) ==
    CHOOSE e \in [1 .. Cardinality(S) -> S] :
        \A i, j \in 1 .. Cardinality(S) : i < j => <<e[i], e[j]>> \in before

\* The elements of seq at the positions K, by key; those with one key stay in order.
SortBy(seq, K, key) ==
    LET before == {p \in K \X K : \/ key[p[1]] < key[p[2]]
                                  \/ key[p[1]] = key[p[2]] /\ p[1] < p[2]}
        e == InOrder(K, before)
    IN  [i \in 1 .. Cardinality(K) |-> seq[e[i]]]

\* The elements at the positions K, in the order of seq.
Pick(seq, K) == SortBy(seq, K, [i \in K |-> i])

-----------------------------------------------------------------------------
(* The summary: load, series_json, table_html. *)

Sorted(names) == Pick(Alphabet, {i \in DOMAIN Alphabet : Alphabet[i] \in names})
present == Pick(ORDER, {i \in DOMAIN ORDER : ORDER[i] \in servers}) \o Sorted(servers \ Range(ORDER))

\* Mutant: the middle element, whatever the number of trials.
median_high(vals) == SortBy(vals, DOMAIN vals, vals)[Len(vals) \div 2 + 1]

median(vals) ==
    LET s == SortBy(vals, DOMAIN vals, vals)
        n == Len(vals)
    IN  IF n % 2 = 1 THEN s[(n + 1) \div 2] ELSE (s[n \div 2] + s[n \div 2 + 1]) \div 2

Points(f, s) == {c \in conns : data[<<f, s, c>>] # <<>>}
Series(f, s) == [c \in Points(f, s) |-> median(data[<<f, s, c>>])]
table_html ==
    LET rows == {r \in servers \X conns : \E f \in Fields : data[<<f, r[1], r[2]>>] # <<>>}
    IN  [r \in rows |-> [f \in Fields |-> IF data[<<f, r[1], r[2]>>] = <<>> THEN Bad
                                         ELSE median(data[<<f, r[1], r[2]>>])]]

\* xi: the place of a load level on the x axis.
xi(c) == Cardinality({d \in conns : d < c})

\* render of the first script: the lines of the servers that are not hidden; a
\* point is its load, the value in its tooltip, and its place.
render(f, hid) ==
    LET visible == {s \in servers \ hid : Points(f, s) # {}}
        top == ymax(UNION {Range(Series(f, s)) : s \in visible})
    IN  [top |-> top,
         line |-> [s \in visible |->
                     {[c |-> c, v |-> Series(f, s)[c], x |-> xpos(xi(c), Cardinality(conns)),
                       y |-> Y(Series(f, s)[c], top)] : c \in Points(f, s)}]]

Charts(hid) == [f \in Fields |-> render(f, hid)]

-----------------------------------------------------------------------------
(* The timelines: load_timeline, timeline_svg, timeline_body. *)

Keys(tl) == {<<tl[i].server, tl[i].conns>> : i \in DOMAIN tl}
RowsAt(tl, key) == {i \in DOMAIN tl : <<tl[i].server, tl[i].conns>> = key}
Trial(tl, key) == Min({tl[i].trial : i \in RowsAt(tl, key)})
Times(tl) == [i \in DOMAIN tl |-> tl[i].t_s]

\* Mutant: the rows as they stand in the file.
RowsOfUnsorted(tl, key) == Pick(tl, {i \in RowsAt(tl, key) : tl[i].trial = Trial(tl, key)})

RowsOf(tl, key) ==
    SortBy(tl, {i \in RowsAt(tl, key) : tl[i].trial = Trial(tl, key)}, Times(tl))

\* timeline_svg: one path per percentile, and the labels of the time axis.
X(t, maxT) == IF maxT <= 0 THEN X0 ELSE X0 + ((X1 - X0) * t) \div maxT
Path(rows, f, maxT, top) ==
    LET ok == Pick(rows, {i \in DOMAIN rows : rows[i].val[f] # Bad})
    IN  [i \in DOMAIN ok |-> [v |-> ok[i].val[f], x |-> X(ok[i].t_s, maxT), y |-> Y(ok[i].val[f], top)]]
Labels(maxT) ==
    LET step == Max({1, -((-maxT) \div 6)})
    IN  {t \in 0 .. maxT : t % step = 0}
timeline_svg(rows) ==
    LET maxT == Max({rows[i].t_s : i \in DOMAIN rows})
        top == ymax({rows[i].val[f] : i \in DOMAIN rows, f \in TLFields} \ {Bad})
    IN  [top |-> top, path |-> [f \in TLFields |-> Path(rows, f, maxT, top)], labels |-> Labels(maxT)]

\* timeline_body: by the place of the server in ORDER, then by load.
Place(tl, s) ==
    LET order == ORDER \o Sorted({k[1] : k \in Keys(tl)} \ Range(ORDER))
    IN  CHOOSE i \in DOMAIN order : order[i] = s
Cards(tl) ==
    LET before == {p \in Keys(tl) \X Keys(tl) :
                     \/ Place(tl, p[1][1]) < Place(tl, p[2][1])
                     \/ p[1][1] = p[2][1] /\ p[1][2] < p[2][2]}
        keys == InOrder(Keys(tl), before)
    IN  [i \in 1 .. Cardinality(Keys(tl)) |->
           [key |-> keys[i], trial |-> Trial(tl, keys[i]), svg |-> timeline_svg(RowsOf(tl, keys[i]))]]

-----------------------------------------------------------------------------
(* main() of plot.py. *)

Names == Range(Alphabet)
Levels == {in.csv[i].conns : i \in {j \in DOMAIN in.csv : in.csv[j] # Cut}}

\* A line with all its fields, and what runner/run.py puts there: cpu_cores may be
\* negative.  A window may have lost its last fields.
Row(r) ==
    /\ r.server \in Names /\ r.conns \in Nat
    /\ \A f \in Fields : r.val[f] \in Int \cup {Bad}
Window(r) ==
    /\ r.server \in Names /\ r.conns \in Nat /\ r.trial \in Nat /\ r.t_s \in Nat
    /\ \A f \in TLFields : r.val[f] \in Nat \cup {Bad, Gone}
Lines(file) == file \in Seq(Range(file))

ASSUME ReportConstants ==
    /\ Bad \notin Int /\ Gone \notin Int \cup {Bad} /\ {1, One} \subseteq Powers /\ IsFiniteSet(TLFields)
    /\ Lines(Alphabet) /\ Lines(ORDER)
    /\ IsFiniteSet(Powers) /\ Powers \subseteq Nat \ {0}
    /\ \A p, q \in Powers : p < q => 10 * p \in Powers /\ 10 * p <= q
    /\ \A file \in Inputs :
         /\ Lines(file.csv) /\ \A r \in Range(file.csv) \ {Cut} : Row(r)
         /\ file.tl # None => Lines(file.tl) /\ \A r \in Range(file.tl) \ {Cut} : Window(r)

Init ==
    /\ in \in Inputs /\ line = 0
    /\ data = [k \in Fields \X Names \X Levels |-> <<>>]
    /\ servers = {} /\ conns = {} /\ status = "load"
    /\ cards = <<>> /\ hidden = {} /\ page = <<>>

\* A field that is missing or no number is skipped; in a line that was cut short
\* DictReader leaves None, and int and float raise TypeError.
LoadRow ==
    /\ status = "load" /\ line < Len(in.csv)
    /\ line' = line + 1
    /\ LET row == in.csv[line']
       IN  IF row = Cut THEN status' = "TypeError" /\ UNCHANGED <<data, servers, conns>>
           ELSE /\ servers' = servers \cup {row.server} /\ conns' = conns \cup {row.conns}
                /\ data' = [k \in DOMAIN data |->
                              IF k[2] = row.server /\ k[3] = row.conns /\ row.val[k[1]] # Bad
                              THEN Append(data[k], row.val[k[1]]) ELSE data[k]]
                /\ UNCHANGED status
    /\ UNCHANGED <<in, cards, hidden, page>>

\* Mutant: the "no data" exit is left out.
BuildHtmlEmpty ==
    /\ status = "load" /\ line = Len(in.csv)
    /\ status' = "shown"
    /\ cards' = <<>>
    /\ page' = [legend |-> present, table |-> table_html, charts |-> Charts({}),
                pressed |-> servers, dim |-> {},
                tab |-> "sat", panels |-> {"sat"}]
    /\ UNCHANGED <<in, line, data, servers, conns, hidden>>

\* Where reading the timelines raises TypeError: a line that ends before its time, and
\* a line of a trial that is shown that ends before its last percentile.
Unreadable(tl) ==
    \/ Cut \in Range(tl)
    \/ \E i \in DOMAIN tl : /\ tl[i].trial = Trial(tl, <<tl[i].server, tl[i].conns>>)
                            /\ \E f \in TLFields : tl[i].val[f] = Gone

\* The page as written, after the first script's renderAll().
BuildHtml ==
    /\ status = "load" /\ line = Len(in.csv)
    /\ IF servers = {} THEN status' = "empty" /\ UNCHANGED <<cards, page>>
       ELSE IF in.tl # None /\ Unreadable(in.tl)
       THEN status' = "TypeError" /\ UNCHANGED <<cards, page>>
       ELSE /\ status' = "shown"
            /\ cards' = IF in.tl = None THEN <<>> ELSE Cards(in.tl)
            /\ page' = [legend |-> present, table |-> table_html, charts |-> Charts({}),
                        pressed |-> servers, dim |-> {},
                        tab |-> "sat", panels |-> {"sat"}]
    /\ UNCHANGED <<in, line, data, servers, conns, hidden>>

-----------------------------------------------------------------------------
(* The scripts of the report. *)

\* Mutant: syncTable is left out.
refresh_charts(hid) ==
    page' = [page EXCEPT !.pressed = servers \ hid, !.charts = Charts(hid)]

refresh(hid) ==
    page' = [page EXCEPT !.pressed = servers \ hid, !.charts = Charts(hid),
                         !.dim = {r \in DOMAIN page.table : r[1] \in hid}]

Click(s) ==
    /\ status = "shown"
    /\ hidden' = IF s \in hidden THEN hidden \ {s} ELSE hidden \cup {s}
    /\ refresh(hidden')
    /\ UNCHANGED <<in, line, data, servers, conns, status, cards>>

\* The button is there at any time: .leg gives it a display of its own, which the
\* attribute `hidden' that refresh sets and clears does not change.
ShowAll ==
    /\ status = "shown"
    /\ hidden' = {} /\ refresh({})
    /\ UNCHANGED <<in, line, data, servers, conns, status, cards>>

\* TAB_JS: sel(id) goes through both tabs.
SelectTab(id) ==
    /\ status = "shown"
    /\ page' = [page EXCEPT !.tab = id, !.panels = {id}]
    /\ UNCHANGED <<in, line, data, servers, conns, status, cards, hidden>>

Next ==
    \/ LoadRow \/ BuildHtml \/ ShowAll
    \/ \E s \in servers : Click(s)
    \/ \E id \in {"sat", "tl"} : SelectTab(id)

Spec == Init /\ [][Next]_vars

-----------------------------------------------------------------------------
(* What the report must show. *)

\* Types; a page exists only when the CSV held a server (main's SystemExit).
TypeOK ==
    /\ in \in Inputs /\ line \in 0 .. Len(in.csv)
    /\ servers \subseteq Names /\ conns \subseteq Levels /\ hidden \subseteq servers
    /\ \A k \in DOMAIN data : Bad \notin Range(data[k])
    /\ status \in {"load", "shown", "empty", "TypeError"}
    /\ (status = "shown") <=> (DOMAIN page # {})
    /\ status = "shown" => servers # {} /\ Range(page.legend) = servers

\* The lines of the CSV with a value of field f for server s under load c.
Cells(f, s, c) == {i \in DOMAIN in.csv : /\ in.csv[i].server = s /\ in.csv[i].conns = c
                                         /\ in.csv[i].val[f] # Bad}

\* The k-th smallest of those values, by counting.
Kth(k, f, s, c) ==
    LET V == Cells(f, s, c)
        v(i) == in.csv[i].val[f]
    IN  v(CHOOSE i \in V : /\ Cardinality({j \in V : v(j) < v(i)}) < k
                           /\ k <= Cardinality({j \in V : v(j) <= v(i)}))

\* What "median over trials" means for any number of trials, straight from the file.
MedianRef(f, s, c) ==
    LET n == Cardinality(Cells(f, s, c))
    IN  (Kth((n + 1) \div 2, f, s, c) + Kth(n \div 2 + 1, f, s, c)) \div 2

\* Whatever is clicked away: every tooltip and every cell of the data table is the
\* median over the trials that have a value, a server that is shown has a point
\* for exactly the loads it has values for, and the table misses no such load.
MedianOfTrials ==
    status = "shown" =>
        \A f \in Fields, s \in Names :
            LET has == {c \in Levels : Cells(f, s, c) # {}}
                drawn == page.charts[f].line
            IN  /\ s \in DOMAIN drawn <=> (has # {} /\ s \in page.pressed)
                /\ s \in DOMAIN drawn =>
                     /\ {p.c : p \in drawn[s]} = has
                     /\ \A p \in drawn[s] : p.v = MedianRef(f, s, p.c)
                /\ \A c \in has : /\ <<s, c>> \in DOMAIN page.table
                                  /\ page.table[<<s, c>>][f] = MedianRef(f, s, c)
                /\ \A r \in DOMAIN page.table :
                     r[1] = s /\ r[2] \notin has => page.table[r][f] = Bad

\* The numbers an axis may end at.
Nice == {k * p : k \in {1, 2, 5}, p \in Powers}

\* The files AxisFits is about: no value above the powers of ten, and no more load
\* levels than the plot has columns.
OnAxis(v) == v \in {Bad, Gone} \/ \E p \in Powers : v <= 5 * p
Plottable(file) ==
    /\ Cardinality({r.conns : r \in Range(file.csv) \ {Cut}}) <= X1 - X0 + 1
    /\ \A r \in Range(file.csv) \ {Cut} : \A f \in Fields : OnAxis(r.val[f])
    /\ file.tl # None => \A r \in Range(file.tl) \ {Cut} : \A f \in TLFields : OnAxis(r.val[f])

Inside(p) == p.x \in X0 .. X1 /\ p.y \in Y1 .. Y0

\* No point of a value that is not negative falls outside its plot (0, a power of ten,
\* just above one), however many load levels and whatever else is drawn; a negative
\* one, which the runner may write for cpu_cores, is drawn below the axis; loads stand
\* in order along the x axis; and the y axis ends at the least round number that holds
\* what is visible, so hiding a server rescales it.
AxisFits ==
    status = "shown" =>
        /\ \A f \in Fields :
             LET ch == page.charts[f]
                 pts == UNION Range(ch.line)
                 vmax == Max({p.v : p \in pts} \cup {0})
             IN  /\ \A p \in pts : IF p.v >= 0 THEN Inside(p) ELSE p.y > Y0
                 /\ \A p, q \in pts : p.c < q.c => p.x < q.x
                 /\ ch.top = IF vmax = 0 THEN One ELSE Min({t \in Nice : t >= vmax})
        /\ \A i \in DOMAIN cards :
             LET pts == UNION {Range(cards[i].svg.path[f]) : f \in TLFields}
                 vmax == Max({p.v : p \in pts} \cup {0})
             IN  /\ \A p \in pts : Inside(p)
                 /\ cards[i].svg.top = IF vmax = 0 THEN One ELSE Min({t \in Nice : t >= vmax})

\* What a chart and the rows of the data table that are not dimmed say of a server:
\* loads and values.
Drawn(f, s) == LET ln == page.charts[f].line
               IN  IF s \in DOMAIN ln THEN {<<p.c, p.v>> : p \in ln[s]} ELSE {}
Tabled(f, s) == {<<r[2], page.table[r][f]>> :
                   r \in {q \in DOMAIN page.table \ page.dim : q[1] = s /\ page.table[q][f] # Bad}}

\* After any sequence of clicks the parts of the page tell one story: the charts draw
\* for a server the very loads and medians that the rows of the table which are not
\* dimmed give for it, the rows dimmed are those of released buttons, and the one
\* panel that is visible is the selected tab's.
PageInSync ==
    status = "shown" =>
        /\ \A f \in Fields, s \in servers : Drawn(f, s) = Tabled(f, s)
        /\ page.dim = {r \in DOMAIN page.table : r[1] \notin page.pressed}
        /\ page.panels = {page.tab}

\* The files TimelineCards is about: no more seconds than the plot has columns, and
\* one window per second of a trial, as the load generators report them.
Timed(file) ==
    file.tl # None =>
        /\ \A r \in Range(file.tl) \ {Cut} : r.t_s <= X1 - X0
        /\ \A i, j \in {h \in DOMAIN file.tl : file.tl[h] # Cut} :
             LET r == file.tl[i]
                 q == file.tl[j]
             IN  (r.server = q.server /\ r.conns = q.conns /\ r.trial = q.trial /\ r.t_s = q.t_s)
                   => i = j

\* One card for each server and load of the timeline file, fixed servers first
\* and loads ascending; it shows the lowest trial only, every window of it that
\* has the value, in time order; the time axis has one to seven labels, the first at 0.
TimelineCards ==
    (status = "shown" /\ in.tl # None) =>
        /\ {cards[i].key : i \in DOMAIN cards} = Keys(in.tl) /\ Len(cards) = Cardinality(Keys(in.tl))
        /\ \A i, j \in DOMAIN cards :
             /\ i < j /\ cards[i].key[1] = cards[j].key[1] => cards[i].key[2] < cards[j].key[2]
             /\ cards[i].key[1] \in Range(ORDER) /\ cards[j].key[1] \notin Range(ORDER) => i < j
        /\ \A i \in DOMAIN cards :
             LET all == {j \in DOMAIN in.tl : <<in.tl[j].server, in.tl[j].conns>> = cards[i].key}
                 low == {j \in all : \A h \in all : in.tl[j].trial <= in.tl[h].trial}
             IN  /\ \A j \in low : in.tl[j].trial = cards[i].trial
                 /\ \A f \in TLFields :
                      LET path == cards[i].svg.path[f]
                      IN  /\ Len(path) = Cardinality({j \in low : in.tl[j].val[f] # Bad})
                          /\ \A a, b \in DOMAIN path : a < b => path[a].x < path[b].x
                          /\ {p.v : p \in Range(path)} = {in.tl[j].val[f] : j \in low} \ {Bad}
                 /\ Cardinality(cards[i].svg.labels) \in 1 .. 7 /\ 0 \in cards[i].svg.labels
=============================================================================
