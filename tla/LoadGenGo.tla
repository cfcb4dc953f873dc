----------------------------- MODULE LoadGenGo -----------------------------
(***************************************************************************)
(* The Go load generator (loadgen/main.go).  Every connection has two      *)
(* goroutines: runConn itself, which joins a room and then sends a MOVE at *)
(* every tick of its ticker, and the reader it starts, which records the   *)
(* latency of the MOVE that a SNAPSHOT echoes.  main waits for the         *)
(* runConns, not for the readers, and then reads the counters and the      *)
(* histograms that all of them share.                                      *)
(*                                                                         *)
(* Goroutines interleave at every access to shared memory, to the clock    *)
(* and to a socket.  The server is external: it answers the JOIN, sends    *)
(* snapshots that echo a MOVE it has got, and may hang up at any time.     *)
(* A send to it may take arbitrarily long.  An access to the ring of send  *)
(* times and the clock reading next to it are one step.                    *)
(*                                                                         *)
(* Tickers, the deadline and the time since the start go by the monotonic  *)
(* clock.  Latencies are differences of UnixNano, the wall clock, which    *)
(* may be set forward or back in the middle of a run.                      *)
(***************************************************************************)
EXTENDS Histogram, Sequences

CONSTANTS Conn,
          Warm, Dur,   \* -warmup, -dur
          Window,      \* windowMS
          Period,      \* time.Second / rate
          Ring,        \* slots of sendAt (256)
          P,           \* the fractions reported of all samples, in order
          PW,          \* those of a window, in the order main asks for them
          Offsets,     \* by how much the wall clock may be off
          NetCap,      \* bound: frames on their way to a connection
          MaxSnaps,    \* bound: snapshots the server sends on a connection
          MaxClock     \* bound: the clock stops here, the tickers do not

Start    == 1                     \* start; a time is never 0
Deadline == Start + Warm + Dur    \* deadline
NWin     == Max({1, Dur \div Window})

Fraction == {p \in Nat \X (Nat \ {0}) : p[1] <= p[2]}

ASSUME LoadGenGoConstants ==
    /\ IsFiniteSet(Conn)
    /\ {Warm, Dur, MaxSnaps, MaxClock} \subseteq Nat
    /\ {Window, Period, Ring, NetCap} \subseteq Nat \ {0}
    /\ P \in Seq(Fraction) /\ P # <<>>
    /\ PW \in Seq(Fraction) /\ PW # <<>>
    /\ Offsets \in SUBSET Nat /\ Offsets # {}
    /\ MaxClock > Deadline

VARIABLES now, ahead,                  \* the clock; the wall clock is ahead of it
          pc, seq, sendAt, tick,       \* runConn: its variables, the tick in hand
          ch, due,                     \* its ticker: channel (0: empty), next firing
          rpc, lastSeq, us, since,     \* the reader and its variables
          sock, wire, got,             \* the socket: frames inbound, last MOVE out
          echoed, snaps,               \* the server: last MOVE echoed, snapshots sent
          hist, windows, measured, movesSent, movesMeasured,   \* shared
          mpc, stage, call, idx, acc, target,    \* main: where its scans are
          report,                      \* what it has got, stage by stage
          me,                          \* what it has read of measured
          atWait                       \* history: the histograms when main woke up

clock   == <<now, ahead>>
sender  == <<pc, seq, sendAt, tick, movesSent, movesMeasured>>
ticker  == <<ch, due>>
reader  == <<rpc, lastSeq, us, since>>
net     == <<sock, wire, got, echoed, snaps>>
results == <<hist, windows, measured>>
main    == <<mpc, stage, call, idx, acc, target, report, me, atWait>>
vars    == <<clock, sender, ticker, reader, net, results, main>>

(* What goes over the wire to the client.                                  *)
Frame == [type : {"JOINED", "SNAPSHOT"}, seq : Nat]

(* The histograms: all samples, then those of each window.                 *)
Reported == <<hist>> \o windows

(* main goes through all samples for the log, then through the windows in  *)
(* order, then through all samples again for the JSON object.  Call 0 of a *)
(* window asks whether it has samples at all; call i asks for fraction i.  *)
Stage       == 0 .. NWin + 1
Windowed(s) == s \in 1 .. NWin
HistNo(s)   == IF Windowed(s) THEN s + 1 ELSE 1
HistOf(s)   == Reported[HistNo(s)]
Asked(s)    == IF Windowed(s) THEN PW ELSE P
First(s)    == IF Windowed(s) THEN 0 ELSE 1

(* time.Now().UnixNano(). *)
UnixNano == now + ahead

Init ==
    /\ now = Start /\ ahead \in Offsets
    /\ pc = [c \in Conn |-> "dial"]
    /\ seq = [c \in Conn |-> 0]
    /\ sendAt = [c \in Conn |-> [i \in 0 .. Ring - 1 |-> 0]]
    /\ tick = [c \in Conn |-> 0]
    /\ ch = [c \in Conn |-> 0]
    /\ due = [c \in Conn |-> 0]
    /\ rpc = [c \in Conn |-> "off"]
    /\ lastSeq = [c \in Conn |-> 0]
    /\ us = [c \in Conn |-> 0]
    /\ since = [c \in Conn |-> 0]
    /\ sock = [c \in Conn |-> "none"]
    /\ wire = [c \in Conn |-> <<>>]
    /\ got = [c \in Conn |-> 0]
    /\ echoed = [c \in Conn |-> 0] /\ snaps = [c \in Conn |-> 0]
    /\ hist = Hist0
    /\ windows = [w \in 1 .. NWin |-> Hist0]
    /\ measured = 0 /\ movesSent = 0 /\ movesMeasured = 0
    /\ mpc = "wait" /\ stage = 0 /\ call = First(0) /\ idx = 0 /\ acc = 0 /\ target = 0
    /\ report = [s \in Stage |-> <<>>] /\ me = 0
    /\ atWait = <<>>

Slot(n) == n % Ring
-----------------------------------------------------------------------------
(* runConn *)

(* net.Dial.                                                               *)
Dial(c) ==
    /\ pc[c] = "dial"
    /\ pc' = [pc EXCEPT ![c] = "join"]
    /\ sock' = [sock EXCEPT ![c] = "open"]
    /\ UNCHANGED <<clock, seq, sendAt, tick, movesSent, movesMeasured, ticker, reader, wire, got, echoed, snaps, results, main>>

(* As Return, telling the WaitGroup before the socket is closed.           *)
ReturnEarly(c) ==
    /\ pc' = [pc EXCEPT ![c] = "done"]
    /\ due' = [due EXCEPT ![c] = 0]
    /\ ch' = [ch EXCEPT ![c] = 0]
    /\ UNCHANGED sock

(* A failed Dial, or any error later on: runConn returns, and its deferred *)
(* calls stop the ticker, close the socket and tell the WaitGroup.         *)
Return(c) ==
    /\ pc' = [pc EXCEPT ![c] = "done"]
    /\ sock' = [sock EXCEPT ![c] = "closed"]
    /\ due' = [due EXCEPT ![c] = 0]
    /\ ch' = [ch EXCEPT ![c] = 0]

DialError(c) ==
    /\ pc[c] = "dial"
    /\ Return(c)
    /\ UNCHANGED <<clock, seq, sendAt, tick, movesSent, movesMeasured, reader, wire, got, echoed, snaps, results, main>>

(* The JOIN is written.                                                    *)
SendJoin(c) ==
    /\ pc[c] = "join"
    /\ pc' = [pc EXCEPT ![c] = "await"]
    /\ UNCHANGED <<clock, seq, sendAt, tick, movesSent, movesMeasured, ticker, reader, net, results, main>>

(* A frame before the reader runs: anything but JOINED is skipped.  With   *)
(* JOINED the reader and the ticker start.                                 *)
Await(c) ==
    /\ pc[c] = "await" /\ wire[c] # <<>>
    /\ wire' = [wire EXCEPT ![c] = Tail(@)]
    /\ IF Head(wire[c]).type = "JOINED"
       THEN /\ pc' = [pc EXCEPT ![c] = "loop"]
            /\ rpc' = [rpc EXCEPT ![c] = "read"]
            /\ due' = [due EXCEPT ![c] = now + Period]
       ELSE UNCHANGED <<pc, rpc, due>>
    /\ UNCHANGED <<clock, seq, sendAt, tick, movesSent, movesMeasured, ch, lastSeq, us, since, sock, got, echoed, snaps, results, main>>

(* A read or a write on a socket the server has closed.                    *)
SocketError(c) ==
    /\ pc[c] \in {"join", "await", "write"} /\ sock[c] # "open"
    /\ Return(c)
    /\ UNCHANGED <<clock, seq, sendAt, tick, movesSent, movesMeasured, reader, wire, got, echoed, snaps, results, main>>

(* The next MOVE gets its number, and its time into the ring.              *)
NextMove(c) ==
    /\ seq' = [seq EXCEPT ![c] = @ + 1]
    /\ sendAt' = [sendAt EXCEPT ![c][Slot(seq[c] + 1)] = UnixNano]

(* A tick up to the deadline starts a MOVE.                                *)
Tick(c) ==
    /\ pc[c] = "loop" /\ ch[c] # 0 /\ ch[c] <= Deadline
    /\ tick' = [tick EXCEPT ![c] = ch[c]]
    /\ ch' = [ch EXCEPT ![c] = 0]
    /\ NextMove(c)
    /\ pc' = [pc EXCEPT ![c] = "write"]
    /\ UNCHANGED <<clock, movesSent, movesMeasured, due, reader, net, results, main>>

(* The first tick past the deadline ends runConn.                          *)
Finish(c) ==
    /\ pc[c] = "loop" /\ ch[c] # 0 /\ ch[c] > Deadline
    /\ Return(c)
    /\ UNCHANGED <<clock, seq, sendAt, tick, movesSent, movesMeasured, reader, wire, got, echoed, snaps, results, main>>

(* Past the warm-up.                                                       *)
InWindow(t) == t - Start > Warm

(* The MOVE is written and counted; the tick decides whether it counts as  *)
(* one of the measured phase.  A write to a server that has gone may still *)
(* succeed.                                                                *)
Write(c) ==
    /\ pc[c] = "write"
    /\ got' = [got EXCEPT ![c] = IF sock[c] = "open" THEN seq[c] ELSE @]
    /\ movesSent' = movesSent + 1
    /\ movesMeasured' = movesMeasured + (IF InWindow(tick[c]) THEN 1 ELSE 0)
    /\ pc' = [pc EXCEPT ![c] = "loop"]
    /\ UNCHANGED <<clock, seq, sendAt, tick, ticker, reader, sock, wire, echoed, snaps, results, main>>
-----------------------------------------------------------------------------
(* The reader *)

(* A frame; only a SNAPSHOT with an echo is looked into.                   *)
ReadFrame(c) ==
    /\ rpc[c] = "read" /\ wire[c] # <<>> /\ sock[c] # "closed"
    /\ wire' = [wire EXCEPT ![c] = Tail(@)]
    /\ lastSeq' = [lastSeq EXCEPT ![c] = Head(wire[c]).seq]
    /\ rpc' = [rpc EXCEPT ![c] = IF Head(wire[c]).type = "SNAPSHOT" /\ Head(wire[c]).seq # 0
                                 THEN "lookup" ELSE "read"]
    /\ UNCHANGED <<clock, sender, ticker, us, since, sock, got, echoed, snaps, results, main>>

(* The socket is closed, here or by the server.                            *)
ReadError(c) ==
    /\ rpc[c] = "read" /\ sock[c] # "open"
    /\ rpc' = [rpc EXCEPT ![c] = "end"]
    /\ UNCHANGED <<clock, sender, ticker, lastSeq, us, since, net, results, main>>

(* The age of the MOVE echoed, by the ring and the wall clock: it is       *)
(* negative if the clock was set back in between.                          *)
Lookup(c) ==
    LET st == sendAt[c][Slot(lastSeq[c])]
    IN  /\ rpc[c] = "lookup"
        /\ us' = [us EXCEPT ![c] = UnixNano - st]
        /\ rpc' = [rpc EXCEPT ![c] = IF st # 0 THEN "gate" ELSE "read"]
        /\ UNCHANGED <<clock, sender, ticker, lastSeq, since, net, results, main>>

(* As Gate, without a look at the sign.                                    *)
GateAnySign(c) ==
    /\ rpc[c] = "gate" /\ InWindow(now)
    /\ since' = [since EXCEPT ![c] = now - Start]
    /\ hist' = Record(hist, us[c])
    /\ rpc' = [rpc EXCEPT ![c] = "window"]
    /\ UNCHANGED <<clock, sender, ticker, lastSeq, us, net, windows, measured, main>>

(* The clock is read again; past the warm-up a sample above 0 is recorded. *)
Gate(c) ==
    /\ rpc[c] = "gate" /\ us[c] > 0 /\ InWindow(now)
    /\ since' = [since EXCEPT ![c] = now - Start]
    /\ hist' = Record(hist, us[c])
    /\ rpc' = [rpc EXCEPT ![c] = "window"]
    /\ UNCHANGED <<clock, sender, ticker, lastSeq, us, net, windows, measured, main>>

Skip(c) ==
    /\ rpc[c] = "gate" /\ ~ (us[c] > 0 /\ InWindow(now))
    /\ rpc' = [rpc EXCEPT ![c] = "read"]
    /\ UNCHANGED <<clock, sender, ticker, lastSeq, us, since, net, results, main>>

(* As WindowOf, counting from the start instead of from the warm-up.       *)
WindowOfAll(t) == t \div Window

(* The window of a time since the start, counted from 0.                   *)
WindowOf(t) == (t - Warm) \div Window

(* A sample past the last window is in none.                               *)
RecordWindow(c) ==
    /\ rpc[c] = "window"
    /\ LET w == WindowOf(since[c]) + 1
       IN  windows' = IF w \in 1 .. NWin THEN [windows EXCEPT ![w] = Record(@, us[c])] ELSE windows
    /\ rpc' = [rpc EXCEPT ![c] = "count"]
    /\ UNCHANGED <<clock, sender, ticker, lastSeq, us, since, net, hist, measured, main>>

CountMeasured(c) ==
    /\ rpc[c] = "count"
    /\ measured' = measured + 1
    /\ rpc' = [rpc EXCEPT ![c] = "read"]
    /\ UNCHANGED <<clock, sender, ticker, lastSeq, us, since, net, hist, windows, main>>
-----------------------------------------------------------------------------
(* main *)

(* wg.Wait, and the counters.                                              *)
Wake ==
    /\ mpc = "wait" /\ \A c \in Conn : pc[c] = "done"
    /\ me' = measured
    /\ atWait' = Reported
    /\ mpc' = "total"
    /\ UNCHANGED <<clock, sender, ticker, reader, net, results, stage, call, idx, acc, target, report>>

(* Hist.total, bucket by bucket.                                           *)
AddBucket ==
    /\ mpc = "total" /\ idx < NBuckets
    /\ acc' = acc + HistOf(stage)[idx]
    /\ idx' = idx + 1
    /\ UNCHANGED <<clock, sender, ticker, reader, net, results, mpc, stage, call, target, report, me, atWait>>

(* The first call of the next stage, or the next call of this one.         *)
NextStage ==
    /\ stage' = stage + 1
    /\ call' = First(stage + 1)
    /\ mpc' = IF stage = NWin + 1 THEN "done" ELSE "total"
    /\ idx' = 0 /\ acc' = 0

NextCall ==
    \/ call = Len(Asked(stage)) /\ NextStage
    \/ /\ call < Len(Asked(stage))
       /\ call' = call + 1
       /\ mpc' = "total"
       /\ idx' = 0 /\ acc' = 0
       /\ UNCHANGED stage

(* A call of percentile has its result.                                    *)
Result(val) ==
    /\ report' = [report EXCEPT ![stage] = Append(@, val)]
    /\ NextCall

(* A window without samples is left out; one with samples is gone through. *)
LeaveOut ==
    /\ mpc = "total" /\ idx = NBuckets /\ call = 0 /\ acc = 0
    /\ NextStage
    /\ UNCHANGED <<clock, sender, ticker, reader, net, results, target, report, me, atWait>>

TakeIn ==
    /\ mpc = "total" /\ idx = NBuckets /\ call = 0 /\ acc > 0
    /\ NextCall
    /\ UNCHANGED <<clock, sender, ticker, reader, net, results, target, report, me, atWait>>

(* Nothing recorded: percentile returns 0.                                 *)
Empty ==
    /\ mpc = "total" /\ idx = NBuckets /\ call # 0 /\ acc = 0
    /\ Result(0)
    /\ UNCHANGED <<clock, sender, ticker, reader, net, results, target, me, atWait>>

SetTarget ==
    /\ mpc = "total" /\ idx = NBuckets /\ call # 0 /\ acc > 0
    /\ target' = Target(Asked(stage)[call], acc)
    /\ acc' = 0 /\ idx' = 0
    /\ mpc' = "scan"
    /\ UNCHANGED <<clock, sender, ticker, reader, net, results, stage, call, report, me, atWait>>

(* As Scan, stopping only past the target.                                 *)
ScanPast ==
    /\ mpc = "scan"
    /\ LET c == acc + HistOf(stage)[idx]
       IN  IF c > target \/ idx = NBuckets - 1
           THEN Result(ValFor(idx))
           ELSE acc' = c /\ idx' = idx + 1 /\ UNCHANGED <<report, stage, call, mpc>>
    /\ UNCHANGED <<clock, sender, ticker, reader, net, results, target, me, atWait>>

(* One turn of percentile's loop: a bucket is added, and if that is enough *)
(* its value is the result.  Past the last bucket the result is the last   *)
(* bucket's value.                                                         *)
Scan ==
    /\ mpc = "scan"
    /\ LET c == acc + HistOf(stage)[idx]
       IN  IF c >= target \/ idx = NBuckets - 1
           THEN Result(ValFor(idx))
           ELSE acc' = c /\ idx' = idx + 1 /\ UNCHANGED <<report, stage, call, mpc>>
    /\ UNCHANGED <<clock, sender, ticker, reader, net, results, target, me, atWait>>
-----------------------------------------------------------------------------
(* The clock and the server *)

(* Time passes, and tickers fire; a tick that finds the last one still in  *)
(* the channel is dropped.                                                 *)
Advance ==
    LET t     == Min({now + 1, MaxClock})
        fired == {c \in Conn : due[c] # 0 /\ (t = due[c] \/ t = MaxClock)}
    IN  /\ now' = t
        /\ ch' = [c \in Conn |-> IF c \in fired /\ ch[c] = 0 THEN t ELSE ch[c]]
        /\ due' = [c \in Conn |-> IF c \in fired /\ t < MaxClock THEN t + Period ELSE due[c]]
        /\ UNCHANGED <<ahead, sender, reader, net, results, main>>

(* The wall clock is set.                                                  *)
SetClock ==
    /\ ahead' \in Offsets \ {ahead}
    /\ UNCHANGED <<now, sender, ticker, reader, net, results, main>>

(* The server answers the JOIN, once.                                      *)
Answer(c) ==
    /\ pc[c] = "await" /\ sock[c] = "open" /\ Len(wire[c]) < NetCap
    /\ \A i \in DOMAIN wire[c] : wire[c][i].type # "JOINED"
    /\ wire' = [wire EXCEPT ![c] = Append(@, [type |-> "JOINED", seq |-> 0])]
    /\ UNCHANGED <<clock, sender, ticker, reader, sock, got, echoed, snaps, results, main>>

(* It sends a snapshot, echoing a MOVE it has got (0: none yet), never an  *)
(* older one than before.                                                  *)
Push(c) ==
    /\ pc[c] \in {"await", "loop", "write"} /\ sock[c] = "open"
    /\ Len(wire[c]) < NetCap /\ snaps[c] < MaxSnaps
    /\ snaps' = [snaps EXCEPT ![c] = @ + 1]
    /\ \E n \in echoed[c] .. got[c] :
          /\ echoed' = [echoed EXCEPT ![c] = n]
          /\ wire' = [wire EXCEPT ![c] = Append(@, [type |-> "SNAPSHOT", seq |-> n])]
    /\ UNCHANGED <<clock, sender, ticker, reader, sock, got, results, main>>

(* It hangs up.                                                            *)
HangUp(c) ==
    /\ sock[c] = "open"
    /\ sock' = [sock EXCEPT ![c] = "gone"]
    /\ UNCHANGED <<clock, sender, ticker, reader, wire, got, echoed, snaps, results, main>>

Sender(c) == Dial(c) \/ DialError(c) \/ SendJoin(c) \/ Await(c) \/ SocketError(c) \/ Tick(c) \/ Finish(c) \/ Write(c)
Reader(c) == ReadFrame(c) \/ ReadError(c) \/ Lookup(c) \/ Gate(c) \/ Skip(c) \/ RecordWindow(c) \/ CountMeasured(c)
Main == Wake \/ AddBucket \/ LeaveOut \/ TakeIn \/ Empty \/ SetTarget \/ Scan
Server(c) == Answer(c) \/ Push(c) \/ HangUp(c)

Next ==
    \/ \E c \in Conn : Sender(c) \/ Reader(c) \/ Server(c)
    \/ Main
    \/ Advance
    \/ SetClock

Spec == Init /\ [][Next]_vars

-----------------------------------------------------------------------------
(* Type correctness.  A latency that is recorded is positive, although the *)
(* wall clock may have been set back between a MOVE and its echo.          *)
TypeOK ==
    /\ now \in Start .. MaxClock /\ ahead \in Offsets
    /\ pc \in [Conn -> {"dial", "join", "await", "loop", "write", "done"}]
    /\ seq \in [Conn -> Nat]
    /\ sendAt \in [Conn -> [0 .. Ring - 1 -> Nat]]
    /\ tick \in [Conn -> Nat] /\ ch \in [Conn -> Nat] /\ due \in [Conn -> Nat]
    /\ rpc \in [Conn -> {"off", "read", "lookup", "gate", "window", "count", "end"}]
    /\ lastSeq \in [Conn -> Nat] /\ us \in [Conn -> Int] /\ since \in [Conn -> Nat]
    /\ \A c \in Conn : rpc[c] \in {"window", "count"} => us[c] > 0
    /\ sock \in [Conn -> {"none", "open", "gone", "closed"}]
    /\ wire \in [Conn -> Seq(Frame)]
    /\ got \in [Conn -> Nat] /\ echoed \in [Conn -> Nat] /\ snaps \in [Conn -> Nat]
    /\ hist \in [Bucket -> Nat]
    /\ windows \in [1 .. NWin -> [Bucket -> Nat]]
    /\ measured \in Nat /\ movesSent \in Nat /\ movesMeasured \in Nat
    /\ mpc \in {"wait", "total", "scan", "done"}
    /\ stage \in 0 .. NWin + 2 /\ call \in Nat /\ idx \in 0 .. NBuckets
    /\ acc \in Nat /\ target \in Nat /\ me \in Nat
    /\ report \in [Stage -> Seq(Nat)]
    /\ atWait \in Seq([Bucket -> Nat])

(* No window counts a sample that the whole histogram does not, and what   *)
(* the windows leave out came after the last of them.                      *)
WindowsInside ==
    \A b \in Bucket :
        LET inWindows == Sum([w \in 1 .. NWin |-> windows[w][b]], 1 .. NWin)
        IN  /\ inWindows <= hist[b]
            /\ now - Start < Warm + NWin * Window /\ (\A c \in Conn : rpc[c] # "window")
                  => inWindows = hist[b]

(* After main has read the number of samples, every reader can add at most *)
(* the one it has in hand: runConn closes the socket before it tells the   *)
(* WaitGroup, so the percentiles are of those samples and at most one more *)
(* a connection.                                                           *)
LateBounded == mpc # "wait" => Total(hist) <= me + Cardinality(Conn)

(* If a histogram is as it was when main woke up, no reader in the way,    *)
(* main's two scans give its percentiles, for the log, the timeline and    *)
(* the JSON object alike, and a window is left out only if it is empty.    *)
ReportExact ==
    \A s \in Stage : mpc # "wait" /\ HistOf(s) = atWait[HistNo(s)] =>
        /\ \A i \in DOMAIN report[s] : report[s][i] = Percentile(HistOf(s), Asked(s)[i])
        /\ s < stage /\ report[s] = <<>> => Total(HistOf(s)) = 0

============================================================================
