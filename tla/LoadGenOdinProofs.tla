------------------------- MODULE LoadGenOdinProofs -------------------------
(***************************************************************************)
(* The worker of the Odin load generator for any number of connections,    *)
(* any interval, ring and stall: the schedule holds every live connection  *)
(* once and is sorted up to two intervals, and a sample is the latency of  *)
(* the MOVE it is taken for.                                               *)
(***************************************************************************)
EXTENDS LoadGenOdin, SequenceTheorems, TLAPS

\* Only joined connections are in the schedule, so that a JOINED adds a new one.
SchedJoined == \A i \in 1 .. Len(sched) : joined[sched[i]]

\* Nobody's deadline is further ahead than one interval.
Ahead == \A c \in Conn : next_send[c] <= now + Interval

\* The ring remembers the last RING send times.
Remembers(c) ==
    /\ Len(sent_at[c]) = seq[c]
    /\ \A n \in 1 .. seq[c] : seq[c] - n < RING => send_at[c][n % RING] = sent_at[c][n]
RingExact == \A c \in Conn : Remembers(c)

LoadInv == TypeOK /\ Scheduled /\ SchedJoined /\ Ahead /\ NearlySorted /\ RingExact

(* Two numbers less than RING apart have different slots.                  *)
LEMMA SlotsDiffer ==
    ASSUME NEW R \in Nat \ {0}, NEW m \in Nat, NEW n \in Nat, m < n, n - m < R
    PROVE  m % R # n % R
<1> SUFFICES ASSUME m % R = n % R PROVE FALSE
  OBVIOUS
<1> DEFINE a == m \div R
           b == n \div R
<1>1. m = (R * a) + (m % R) /\ n = (R * b) + (n % R) /\ a \in Int /\ b \in Int
  OBVIOUS
<1>2. n - m = R * (b - a)
  BY <1>1
<1> HIDE DEF a, b
<1>3. b - a \in Int
  BY <1>1
<1> DEFINE k == b - a
<1>4. k \in Int /\ R * k > 0 /\ R * k < R
  BY <1>2, <1>3
<1> HIDE DEF k
<1>5. CASE k <= 0
  BY <1>4, <1>5
<1>6. CASE k >= 1
  BY <1>4, <1>6
<1> QED BY <1>4, <1>5, <1>6

LEMMA SlotInRing ==
    ASSUME NEW R \in Nat \ {0}, NEW n \in Nat
    PROVE  n % R \in 0 .. R - 1
OBVIOUS

LEMMA BeforeLast == \A L \in Nat \ {0} : \A i \in 1 .. L : i # L => i \in 1 .. L - 1
OBVIOUS

(* The head of a schedule goes to its end.                                 *)
LEMMA Rotated ==
    ASSUME NEW S, NEW s \in Seq(S), s # <<>>, NEW t, t = Append(Tail(s), Head(s))
    PROVE  /\ t \in Seq(S) /\ Len(t) = Len(s) /\ Len(s) \in Nat \ {0} /\ Head(s) = s[1]
           /\ \A i \in 1 .. Len(s) : t[i] = IF i = Len(s) THEN s[1] ELSE s[i + 1]
<1>1. Tail(s) \in Seq(S) /\ Len(Tail(s)) = Len(s) - 1 /\ Head(s) \in S /\ Head(s) = s[1]
      /\ Len(s) \in Nat \ {0}
  BY HeadTailProperties, LenProperties
<1>2. \A i \in 1 .. Len(s) - 1 : Tail(s)[i] = s[i + 1]
  BY HeadTailProperties
<1> DEFINE u == Tail(s)
           h == Head(s)
<1>3. /\ Append(u, h) \in Seq(S) /\ Len(Append(u, h)) = Len(u) + 1
      /\ \A i \in 1 .. Len(u) : Append(u, h)[i] = u[i]
      /\ Append(u, h)[Len(u) + 1] = h
  BY <1>1, AppendProperties
<1>4. Len(u) + 1 = Len(s) /\ Len(u) = Len(s) - 1
  BY <1>1
<1>5. \A i \in 1 .. Len(u) : u[i] = s[i + 1]
  BY <1>2, <1>4
<1>6. t = Append(u, h) /\ h = s[1] /\ Len(u) \in Nat
  BY <1>1, <1>4
<1> HIDE DEF u, h
<1>7. ASSUME NEW i \in 1 .. Len(s) PROVE t[i] = IF i = Len(s) THEN s[1] ELSE s[i + 1]
  <2>1. CASE i = Len(s)
    BY <2>1, <1>3, <1>4, <1>6
  <2>2. CASE i # Len(s)
    <3>1. i \in 1 .. Len(s) - 1
      BY <2>2, <1>1, BeforeLast, Zenon
    <3> QED BY <3>1, <2>2, <1>3, <1>4, <1>5, <1>6
  <2> QED BY <2>1, <2>2
<1> QED BY <1>1, <1>3, <1>4, <1>6, <1>7

(* A step that leaves the schedule and the deadlines alone.                *)
LEMMA SchedKept ==
    ASSUME LoadInv, TypeOK', UNCHANGED <<sched, next_send>>, now' >= now,
           \A c \in Conn : joined[c] => joined'[c],
           \A c \in Conn : joined'[c] /\ ~dead'[c] => joined[c] /\ ~dead[c]
    PROVE  (Scheduled /\ SchedJoined /\ Ahead /\ NearlySorted)'
<1>1. Scheduled'
  BY DEF LoadInv, Scheduled
<1>2. SchedJoined'
  <2>1. \A i \in 1 .. Len(sched) : sched[i] \in Conn
    BY DEF LoadInv, TypeOK
  <2> QED BY <2>1 DEF LoadInv, SchedJoined
<1>3. Ahead'
  <2> SUFFICES ASSUME NEW c \in Conn PROVE next_send[c] <= now' + Interval
    BY DEF Ahead
  <2>1. next_send[c] \in Nat /\ now \in Nat /\ now' \in Nat /\ Interval \in Nat
    BY LoadGenConstants DEF LoadInv, TypeOK
  <2>2. next_send[c] <= now + Interval
    BY DEF LoadInv, Ahead
  <2> QED BY <2>1, <2>2
<1>4. NearlySorted'
  BY DEF LoadInv, NearlySorted
<1> QED BY <1>1, <1>2, <1>3, <1>4

LEMMA RingKept ==
    ASSUME RingExact, UNCHANGED <<seq, send_at, sent_at>>
    PROVE  RingExact'
BY DEF RingExact, Remembers

LEMMA LoadInit == Init => LoadInv
<1> SUFFICES ASSUME Init PROVE LoadInv
  OBVIOUS
<1> USE LoadGenConstants
<1>1. <<>> \in Seq(Conn) /\ <<>> \in Seq(Nat) /\ Len(<<>>) = 0
  OBVIOUS
<1>2. NoSample \in [us : Nat, seq : Nat, conn : Conn \cup {None}]
  BY DEF NoSample
<1>3. TypeOK
  BY <1>1, <1>2 DEF Init, TypeOK
<1>4. Scheduled /\ SchedJoined /\ NearlySorted
  BY <1>1 DEF Init, Scheduled, SchedJoined, NearlySorted
<1>5. Ahead
  BY DEF Init, Ahead
<1>6. RingExact
  BY <1>1 DEF Init, RingExact, Remembers
<1> QED BY <1>3, <1>4, <1>5, <1>6 DEF LoadInv

(* The loop around the handlers: clock, batches, program counter.          *)
LEMMA LoopStep ==
    ASSUME LoadInv, Poll \/ Finish \/ StartFire \/ EndFire
    PROVE  LoadInv'
<1>1. UNCHANGED <<sched, connVars, echoed, history, moves_sent, moves_measured>>
  BY DEF Poll, Finish, StartFire, EndFire, history
<1>2. now' \in Nat /\ now' >= now
  BY LoadGenConstants DEF LoadInv, TypeOK, Poll, Finish, StartFire, EndFire, ReadClock
<1>3. pc' \in {"poll", "event", "fire", "done"} /\ batch' \in SUBSET Conn
  BY DEF LoadInv, TypeOK, Poll, Finish, StartFire, EndFire
<1>4. TypeOK'
  BY <1>1, <1>2, <1>3 DEF LoadInv, TypeOK, connVars, history
<1>5. (Scheduled /\ SchedJoined /\ Ahead /\ NearlySorted)'
  BY <1>1, <1>2, <1>4, SchedKept DEF connVars
<1>6. RingExact'
  BY <1>1, RingKept DEF LoadInv, connVars, history
<1> QED BY <1>4, <1>5, <1>6 DEF LoadInv

(* Events that do not touch the schedule.                                  *)
LEMMA EventStep ==
    ASSUME LoadInv, NEW c \in Conn, Kill(c) \/ Connected(c) \/ Nothing(c)
    PROVE  LoadInv'
<1>1. UNCHANGED <<now, pc, sched, joined, seq, send_at, next_send, echoed, history,
                  moves_sent, moves_measured>>
  BY DEF Kill, Connected, Nothing, connVars, history
<1>2. batch' \in SUBSET Conn
  BY DEF LoadInv, TypeOK, Kill, Connected, Nothing, Handled, Event
<1>3. connected' \in [Conn -> BOOLEAN]
  BY DEF LoadInv, TypeOK, Kill, Connected, Nothing, connVars
<1>4. dead' \in [Conn -> BOOLEAN] /\ \A d \in Conn : dead[d] => dead'[d]
  BY DEF LoadInv, TypeOK, Kill, Connected, Nothing, connVars
<1>5. TypeOK'
  BY <1>1, <1>2, <1>3, <1>4 DEF LoadInv, TypeOK, history
<1>6. now' >= now
  BY <1>1 DEF LoadInv, TypeOK
<1>7. (Scheduled /\ SchedJoined /\ Ahead /\ NearlySorted)'
  BY <1>1, <1>4, <1>5, <1>6, SchedKept
<1>8. RingExact'
  BY <1>1, RingKept DEF LoadInv, history
<1> QED BY <1>5, <1>7, <1>8 DEF LoadInv

(* A sample is recorded: its latency is positive.                          *)
LEMMA SnapshotStep ==
    ASSUME LoadInv, NEW c \in Conn, Snapshot(c)
    PROVE  LoadInv'
<1>1. UNCHANGED <<now, pc, sched, connVars, sent_at, moves_sent, moves_measured>>
  BY DEF Snapshot
<1>2. PICK n \in echoed[c] .. seq[c] : echoed' = [echoed EXCEPT ![c] = n] /\ Measured(c, n)
  BY DEF Snapshot
<1>3. echoed[c] \in Nat /\ seq[c] \in Nat /\ echoed \in [Conn -> Nat] /\ now \in Nat
  BY DEF LoadInv, TypeOK
<1>4. n \in Nat /\ echoed' \in [Conn -> Nat]
  BY <1>2, <1>3
<1>5. send_at[c][n % RING] \in Nat
  <2>1. n % RING \in 0 .. RING - 1
    BY <1>4, SlotInRing, LoadGenConstants
  <2>2. send_at[c] \in [0 .. RING - 1 -> Nat]
    BY DEF LoadInv, TypeOK
  <2> QED BY <2>1, <2>2
<1>6. sample' \in [us : Nat, seq : Nat, conn : Conn \cup {None}]
  <2> DEFINE st == send_at[c][n % RING]
  <2>1. CASE n # 0 /\ st # 0 /\ now > st /\ now > Warm
    <3>1. sample' = [us |-> now - st, seq |-> n, conn |-> c]
      BY <1>2, <2>1 DEF Measured, Slot
    <3>2. now - st \in Nat
      BY <1>3, <1>5, <2>1
    <3> QED BY <3>1, <3>2, <1>4
  <2>2. CASE ~(n # 0 /\ st # 0 /\ now > st /\ now > Warm)
    <3>1. sample' = sample
      BY <1>2, <2>2 DEF Measured, Slot
    <3> QED BY <3>1 DEF LoadInv, TypeOK
  <2> QED BY <2>1, <2>2
<1>7. batch' \in SUBSET Conn
  BY DEF LoadInv, TypeOK, Snapshot, ReadFrame, Event
<1>8. TypeOK'
  BY <1>1, <1>4, <1>6, <1>7 DEF LoadInv, TypeOK, connVars
<1>9. (Scheduled /\ SchedJoined /\ Ahead /\ NearlySorted)'
  BY <1>1, <1>3, <1>8, SchedKept DEF connVars
<1>10. RingExact'
  BY <1>1, RingKept DEF LoadInv, connVars
<1> QED BY <1>8, <1>9, <1>10 DEF LoadInv

(* JOINED: a connection that is not in the schedule yet goes to its end.   *)
LEMMA JoinedStep ==
    ASSUME LoadInv, NEW c \in Conn, Joined(c)
    PROVE  LoadInv'
<1>1. UNCHANGED <<now, pc, connected, dead, seq, send_at, echoed, sent_at, sample,
                  moves_sent, moves_measured>>
  BY DEF Joined
<1>2. /\ sched \in Seq(Conn) /\ joined \in [Conn -> BOOLEAN] /\ next_send \in [Conn -> Nat]
      /\ now \in Nat /\ Interval \in Nat
  BY LoadGenConstants DEF LoadInv, TypeOK
<1>3. /\ ~joined[c] /\ joined' = [joined EXCEPT ![c] = TRUE]
      /\ next_send' = [next_send EXCEPT ![c] = now + Interval]
      /\ sched' = Append(sched, c)
  BY DEF Joined
<1>4. /\ sched' \in Seq(Conn) /\ Len(sched') = Len(sched) + 1 /\ Len(sched) \in Nat
      /\ sched'[Len(sched) + 1] = c
      /\ \A i \in 1 .. Len(sched) : sched'[i] = sched[i] /\ sched[i] \in Conn
  BY <1>2, <1>3, AppendProperties, LenProperties, ElementOfSeq
<1>5. \A i \in 1 .. Len(sched) : sched[i] # c
  BY <1>3 DEF LoadInv, SchedJoined
<1>6. /\ joined' \in [Conn -> BOOLEAN] /\ next_send' \in [Conn -> Nat]
      /\ joined'[c] /\ next_send'[c] = now + Interval
      /\ \A d \in Conn : d # c => joined'[d] = joined[d] /\ next_send'[d] = next_send[d]
  BY <1>2, <1>3
<1>7. batch' \in SUBSET Conn
  BY DEF LoadInv, TypeOK, Joined, ReadFrame, Event
<1>8. TypeOK'
  BY <1>1, <1>4, <1>6, <1>7 DEF LoadInv, TypeOK
<1>9. \A i \in 1 .. Len(sched') : i \in 1 .. Len(sched) \/ i = Len(sched) + 1
  BY <1>4
<1>10. 1 .. Len(sched) \subseteq 1 .. Len(sched') /\ Len(sched) + 1 \in 1 .. Len(sched')
  BY <1>4
<1>11. Scheduled'
  <2>1. \A i, j \in 1 .. Len(sched') : sched'[i] = sched'[j] => i = j
    BY <1>4, <1>5, <1>9 DEF LoadInv, Scheduled
  <2>2. ASSUME NEW d \in Conn, joined'[d], ~dead'[d]
        PROVE  \E i \in 1 .. Len(sched') : sched'[i] = d
    <3>1. CASE d = c
      BY <3>1, <1>4, <1>10
    <3>2. CASE d # c
      <4>1. PICK i \in 1 .. Len(sched) : sched[i] = d
        BY <2>2, <3>2, <1>1, <1>6 DEF LoadInv, Scheduled
      <4> QED BY <4>1, <1>4, <1>10
    <3> QED BY <3>1, <3>2
  <2> QED BY <2>1, <2>2 DEF Scheduled
<1>12. SchedJoined'
  BY <1>4, <1>5, <1>6, <1>9 DEF LoadInv, SchedJoined
<1>13. Ahead'
  <2> SUFFICES ASSUME NEW d \in Conn PROVE next_send'[d] <= now' + Interval
    BY DEF Ahead
  <2>1. CASE d = c
    BY <2>1, <1>1, <1>2, <1>6
  <2>2. CASE d # c
    BY <2>2, <1>1, <1>6 DEF LoadInv, Ahead
  <2> QED BY <2>1, <2>2
<1>14. NearlySorted'
  <2> SUFFICES ASSUME NEW i \in 1 .. Len(sched'), NEW j \in 1 .. Len(sched'), i < j
               PROVE  next_send'[sched'[i]] <= next_send'[sched'[j]] + 2 * Interval
    BY DEF NearlySorted
  <2>1. i \in 1 .. Len(sched)
    BY <1>4
  <2>2. next_send'[sched'[i]] = next_send[sched[i]] /\ sched[i] \in Conn
    BY <2>1, <1>4, <1>5, <1>6
  <2>3. CASE j \in 1 .. Len(sched)
    <3>1. next_send'[sched'[j]] = next_send[sched[j]]
      BY <2>3, <1>4, <1>5, <1>6
    <3> QED BY <2>1, <2>2, <2>3, <3>1 DEF LoadInv, NearlySorted
  <2>4. CASE j = Len(sched) + 1
    <3>1. next_send'[sched'[j]] = now + Interval
      BY <2>4, <1>4, <1>6
    <3>2. next_send[sched[i]] <= now + Interval /\ next_send[sched[i]] \in Nat
      BY <2>2, <1>2 DEF LoadInv, Ahead
    <3> QED BY <2>2, <3>1, <3>2, <1>2
  <2> QED BY <2>3, <2>4, <1>9
<1>15. RingExact'
  BY <1>1, RingKept DEF LoadInv
<1> QED BY <1>8, <1>11, <1>12, <1>13, <1>14, <1>15 DEF LoadInv

(* A dead connection leaves the head of the schedule.                      *)
LEMMA DropDeadStep ==
    ASSUME LoadInv, DropDead
    PROVE  LoadInv'
<1>1. UNCHANGED <<now, pc, batch, connVars, echoed, history, moves_sent, moves_measured>>
  BY DEF DropDead
<1>2. sched \in Seq(Conn) /\ sched # <<>> /\ sched' = Tail(sched) /\ dead[Head(sched)]
  BY DEF LoadInv, TypeOK, DropDead, Due
<1>3. /\ sched' \in Seq(Conn) /\ Len(sched') = Len(sched) - 1 /\ Head(sched) = sched[1]
      /\ \A i \in 1 .. Len(sched') : sched'[i] = sched[i + 1]
      /\ Len(sched) \in Nat \ {0}
  BY <1>2, HeadTailProperties, LenProperties
<1>4. \A i \in 1 .. Len(sched') : i + 1 \in 1 .. Len(sched)
  BY <1>3
<1>5. TypeOK'
  BY <1>1, <1>3 DEF LoadInv, TypeOK, connVars, history
<1>6. Scheduled'
  <2>1. ASSUME NEW i \in 1 .. Len(sched'), NEW j \in 1 .. Len(sched'), sched'[i] = sched'[j]
        PROVE  i = j
    <3>1. i + 1 = j + 1
      BY <2>1, <1>3, <1>4 DEF LoadInv, Scheduled
    <3> QED BY <3>1
  <2>2. ASSUME NEW d \in Conn, joined[d], ~dead[d]
        PROVE  \E i \in 1 .. Len(sched') : sched'[i] = d
    <3>1. PICK i \in 1 .. Len(sched) : sched[i] = d
      BY <2>2 DEF LoadInv, Scheduled
    <3>2. i # 1
      BY <2>2, <3>1, <1>2, <1>3
    <3>3. i - 1 \in 1 .. Len(sched') /\ (i - 1) + 1 = i
      BY <3>2, <1>3
    <3> QED BY <3>1, <3>3, <1>3
  <2> QED BY <2>1, <2>2, <1>1 DEF Scheduled, connVars
<1>7. SchedJoined'
  BY <1>1, <1>3, <1>4 DEF LoadInv, SchedJoined, connVars
<1>8. Ahead'
  BY <1>1 DEF LoadInv, Ahead, connVars
<1>9. NearlySorted'
  <2> SUFFICES ASSUME NEW i \in 1 .. Len(sched'), NEW j \in 1 .. Len(sched'), i < j
               PROVE  next_send[sched'[i]] <= next_send[sched'[j]] + 2 * Interval
    BY <1>1 DEF NearlySorted, connVars
  <2>1. i + 1 < j + 1
    OBVIOUS
  <2> QED BY <2>1, <1>3, <1>4 DEF LoadInv, NearlySorted
<1>10. RingExact'
  BY <1>1, RingKept DEF LoadInv, connVars, history
<1> QED BY <1>5, <1>6, <1>7, <1>8, <1>9, <1>10 DEF LoadInv

(* The deadline after d, for d that is due: at most one interval ahead,    *)
(* and at most one interval behind now.                                    *)
LEMMA NextSendRange ==
    ASSUME NEW d \in Nat, now \in Nat, d <= now
    PROVE  /\ NextSend(d) \in Nat
           /\ NextSend(d) <= now + Interval
           /\ now + Interval <= NextSend(d) + 2 * Interval
<1>1. Interval \in Nat \ {0}
  BY LoadGenConstants
<1> QED BY <1>1 DEF NextSend

(* The ring takes a new send time, over the one sent RING MOVEs before.    *)
LEMMA SentRing ==
    ASSUME LoadInv, NEW c \in Conn, SendMove(c)
    PROVE  /\ seq' \in [Conn -> Nat] /\ send_at' \in [Conn -> [0 .. RING - 1 -> Nat]]
           /\ sent_at' \in [Conn -> Seq(Nat)] /\ moves_sent' \in Nat
           /\ moves_measured' \in Nat /\ RingExact'
<1> DEFINE n == seq[c] + 1
           m == n % RING
<1>1. /\ seq \in [Conn -> Nat] /\ send_at \in [Conn -> [0 .. RING - 1 -> Nat]]
      /\ sent_at \in [Conn -> Seq(Nat)] /\ now \in Nat /\ moves_sent \in Nat
      /\ moves_measured \in Nat
  BY DEF LoadInv, TypeOK
<1>2. /\ seq' = [seq EXCEPT ![c] = n] /\ send_at' = [send_at EXCEPT ![c][m] = now]
      /\ sent_at' = [sent_at EXCEPT ![c] = Append(sent_at[c], now)]
  BY DEF SendMove
<1>3. moves_sent' \in Nat /\ moves_measured' \in Nat
  BY <1>1 DEF SendMove
<1>4. n \in Nat /\ seq[c] \in Nat
  BY <1>1
<1>5. m \in 0 .. RING - 1
  BY <1>4, SlotInRing, LoadGenConstants
<1>6. \A k \in 1 .. seq[c] : n - k < RING => k % RING # m
  BY <1>4, SlotsDiffer, LoadGenConstants
<1> DEFINE s == sent_at[c]
           t == Append(s, now)
           f == send_at[c]
           g == [f EXCEPT ![m] = now]
<1>7. s \in Seq(Nat) /\ f \in [0 .. RING - 1 -> Nat]
  BY <1>1
<1>8. /\ t \in Seq(Nat) /\ Len(t) = Len(s) + 1 /\ t[Len(s) + 1] = now
      /\ \A k \in 1 .. Len(s) : t[k] = s[k]
  BY <1>1, <1>7, AppendProperties
<1>9. g \in [0 .. RING - 1 -> Nat] /\ g[m] = now /\ \A k \in 0 .. RING - 1 : k # m => g[k] = f[k]
  BY <1>1, <1>5, <1>7
<1>10. send_at' = [send_at EXCEPT ![c] = g]
  BY <1>2
<1>11. /\ Len(s) = seq[c]
       /\ \A k \in 1 .. seq[c] : seq[c] - k < RING => f[k % RING] = s[k]
  BY DEF LoadInv, RingExact, Remembers
<1>12. \A k \in 1 .. seq[c] : k % RING \in 0 .. RING - 1
  BY <1>4, SlotInRing, LoadGenConstants
<1> HIDE DEF t, g, m
<1>13. seq'[c] = n /\ send_at'[c] = g /\ sent_at'[c] = t
  BY <1>1, <1>2, <1>10 DEF t
<1>14. \A d \in Conn : d # c => seq'[d] = seq[d] /\ send_at'[d] = send_at[d] /\ sent_at'[d] = sent_at[d]
  BY <1>1, <1>2, <1>10
<1>15. \A k \in 1 .. n : n - k < RING => g[k % RING] = t[k]
  <2> SUFFICES ASSUME NEW k \in 1 .. n, n - k < RING PROVE g[k % RING] = t[k]
    OBVIOUS
  <2>1. CASE k = n
    BY <2>1, <1>8, <1>9, <1>11 DEF m
  <2>2. CASE k # n
    <3>1. k \in 1 .. seq[c] /\ seq[c] - k < RING
      BY <2>2, <1>4, LoadGenConstants
    <3>2. g[k % RING] = f[k % RING]
      BY <3>1, <1>6, <1>9, <1>12
    <3> QED BY <3>1, <3>2, <1>8, <1>11
  <2> QED BY <2>1, <2>2
<1>16. ASSUME NEW d \in Conn PROVE Remembers(d)'
  <2>1. CASE d = c
    BY <2>1, <1>4, <1>8, <1>11, <1>13, <1>15 DEF Remembers
  <2>2. CASE d # c
    BY <2>2, <1>14 DEF LoadInv, RingExact, Remembers
  <2> QED BY <2>1, <2>2
<1>17. seq' \in [Conn -> Nat] /\ send_at' \in [Conn -> [0 .. RING - 1 -> Nat]]
  BY <1>1, <1>2, <1>4, <1>9, <1>10
<1>18. sent_at' \in [Conn -> Seq(Nat)]
  BY <1>1, <1>2, <1>8 DEF t
<1> QED BY <1>3, <1>16, <1>17, <1>18 DEF RingExact

(* The head sends and goes to the end with its next deadline.              *)
LEMMA FireStep ==
    ASSUME LoadInv, Fire
    PROVE  LoadInv'
<1> DEFINE c == Head(sched)
           L == Len(sched)
           e == NextSend(next_send[c])
<1>1. UNCHANGED <<now, pc, batch, connected, joined, dead, echoed, sample>>
  BY DEF Fire
<1>2. sched \in Seq(Conn) /\ sched # <<>> /\ sched' = Append(Tail(sched), Head(sched))
  BY DEF LoadInv, TypeOK, Fire, Due
<1>3. /\ sched' \in Seq(Conn) /\ Len(sched') = L /\ L \in Nat \ {0} /\ c = sched[1]
      /\ \A i \in 1 .. L : sched'[i] = IF i = L THEN sched[1] ELSE sched[i + 1]
  BY <1>2, Rotated
<1>4. \A i \in 1 .. L : sched[i] \in Conn
  BY <1>2, ElementOfSeq
<1>5. c \in Conn
  BY <1>3, <1>4
<1>6. /\ seq' \in [Conn -> Nat] /\ send_at' \in [Conn -> [0 .. RING - 1 -> Nat]]
      /\ sent_at' \in [Conn -> Seq(Nat)] /\ moves_sent' \in Nat
      /\ moves_measured' \in Nat /\ RingExact'
  BY <1>5, SentRing DEF Fire
<1>7. next_send \in [Conn -> Nat] /\ next_send[c] \in Nat /\ now \in Nat /\ Interval \in Nat
  BY <1>5, LoadGenConstants DEF LoadInv, TypeOK
<1>8. next_send[c] <= now /\ next_send' = [next_send EXCEPT ![c] = e]
  BY DEF Fire, Due
<1>9. e \in Nat /\ e <= now + Interval /\ now + Interval <= e + 2 * Interval
  BY <1>7, <1>8, NextSendRange
<1> HIDE DEF c, e, L
<1>10. /\ next_send' \in [Conn -> Nat] /\ next_send'[c] = e
       /\ \A d \in Conn : d # c => next_send'[d] = next_send[d]
  BY <1>5, <1>7, <1>8, <1>9
<1>11. TypeOK'
  BY <1>1, <1>3, <1>6, <1>10 DEF LoadInv, TypeOK
<1>12. \A i \in 1 .. L : i # 1 => sched[i] # c
  BY <1>3 DEF LoadInv, Scheduled, L
<1>13. \A i \in 1 .. L : i = L \/ (i + 1 \in 1 .. L /\ sched'[i] = sched[i + 1] /\ i + 1 # 1)
  BY <1>3
<1>14. sched'[L] = c /\ L \in 1 .. L
  BY <1>3
<1>15. Scheduled'
  <2>1. ASSUME NEW i \in 1 .. L, NEW j \in 1 .. L, sched'[i] = sched'[j]
        PROVE  i = j
    <3>1. CASE i = L /\ j = L
      BY <3>1
    <3>2. CASE i # L /\ j # L
      <4>1. i + 1 = j + 1
        BY <2>1, <3>2, <1>13 DEF LoadInv, Scheduled, L
      <4> QED BY <4>1
    <3>3. CASE i = L /\ j # L
      BY <2>1, <3>3, <1>12, <1>13, <1>14
    <3>4. CASE i # L /\ j = L
      BY <2>1, <3>4, <1>12, <1>13, <1>14
    <3> QED BY <3>1, <3>2, <3>3, <3>4
  <2>2. ASSUME NEW d \in Conn, joined[d], ~dead[d]
        PROVE  \E i \in 1 .. L : sched'[i] = d
    <3>1. PICK i \in 1 .. L : sched[i] = d
      BY <2>2 DEF LoadInv, Scheduled, L
    <3>2. CASE i = 1
      BY <3>1, <3>2, <1>3, <1>14
    <3>3. CASE i # 1
      <4>1. i - 1 \in 1 .. L /\ i - 1 # L /\ (i - 1) + 1 = i
        BY <3>3, <1>3
      <4> QED BY <4>1, <3>1, <1>13
    <3> QED BY <3>2, <3>3
  <2> QED BY <2>1, <2>2, <1>1, <1>3 DEF Scheduled
<1>16. SchedJoined'
  <2>1. 1 \in 1 .. L
    BY <1>3
  <2> QED BY <2>1, <1>1, <1>3, <1>13 DEF LoadInv, SchedJoined, L
<1>17. Ahead'
  BY <1>1, <1>9, <1>10 DEF LoadInv, Ahead
<1>18. NearlySorted'
  <2> SUFFICES ASSUME NEW i \in 1 .. L, NEW j \in 1 .. L, i < j
               PROVE  next_send'[sched'[i]] <= next_send'[sched'[j]] + 2 * Interval
    BY <1>3 DEF NearlySorted
  <2>1. i # L
    BY <1>3
  <2>2. i + 1 \in 1 .. L /\ sched'[i] = sched[i + 1] /\ sched[i + 1] \in Conn
    BY <2>1, <1>4, <1>13
  <2>3. next_send'[sched'[i]] = next_send[sched[i + 1]]
    BY <2>1, <2>2, <1>10, <1>12, <1>13
  <2>4. CASE j = L
    <3>1. next_send'[sched'[j]] = e
      BY <2>4, <1>10, <1>14
    <3>2. next_send[sched[i + 1]] <= now + Interval /\ next_send[sched[i + 1]] \in Nat
      BY <2>2, <1>7 DEF LoadInv, Ahead
    <3> QED BY <2>3, <3>1, <3>2, <1>7, <1>9
  <2>5. CASE j # L
    <3>1. next_send'[sched'[j]] = next_send[sched[j + 1]] /\ j + 1 \in 1 .. L
      BY <2>5, <1>4, <1>10, <1>12, <1>13
    <3>2. i + 1 < j + 1
      OBVIOUS
    <3> QED BY <2>2, <2>3, <3>1, <3>2 DEF LoadInv, NearlySorted, L
  <2> QED BY <2>4, <2>5
<1> QED BY <1>6, <1>11, <1>15, <1>16, <1>17, <1>18 DEF LoadInv

LEMMA LoadStep == LoadInv /\ [Next]_vars => LoadInv'
<1> SUFFICES ASSUME LoadInv, [Next]_vars PROVE LoadInv'
  OBVIOUS
<1>1. CASE Poll \/ Finish \/ StartFire \/ EndFire
  BY <1>1, LoopStep
<1>2. CASE Fire
  BY <1>2, FireStep
<1>3. CASE DropDead
  BY <1>3, DropDeadStep
<1>4. CASE \E c \in Conn : Kill(c) \/ Connected(c) \/ Joined(c) \/ Snapshot(c) \/ Nothing(c)
  <2>1. PICK c \in Conn : Kill(c) \/ Connected(c) \/ Joined(c) \/ Snapshot(c) \/ Nothing(c)
    BY <1>4
  <2> QED BY <2>1, EventStep, JoinedStep, SnapshotStep
<1>5. CASE UNCHANGED vars
  <2>1. TypeOK'
    BY <1>5 DEF LoadInv, TypeOK, vars, connVars, history
  <2>2. now' >= now /\ UNCHANGED <<sched, next_send, joined, dead, seq, send_at, sent_at>>
    BY <1>5 DEF LoadInv, TypeOK, vars, connVars, history
  <2>3. (Scheduled /\ SchedJoined /\ Ahead /\ NearlySorted)'
    BY <2>1, <2>2, SchedKept
  <2>4. RingExact'
    BY <2>2, RingKept DEF LoadInv
  <2> QED BY <2>1, <2>3, <2>4 DEF LoadInv
<1> QED BY <1>1, <1>2, <1>3, <1>4, <1>5 DEF Next

(* The inductive invariant holds in every state of the worker's loop.      *)
LEMMA LoadSafe == Spec => []LoadInv
BY LoadInit, LoadStep, PTL DEF Spec

-----------------------------------------------------------------------------
(* No send time and no recorded latency is ever negative.                  *)
THEOREM LoadTypes == Spec => []TypeOK
<1>1. LoadInv => TypeOK
  BY DEF LoadInv
<1> QED BY <1>1, LoadSafe, PTL

(* Every live connection that has joined is in Sched exactly once, however *)
(* sends, joins and deaths interleave: none falls silent, and the ring     *)
(* Sched uses has room for every connection.                               *)
THEOREM ScheduledOnce == Spec => []Scheduled
<1>1. LoadInv => Scheduled
  BY DEF LoadInv
<1> QED BY <1>1, LoadSafe, PTL

(* Sched is sorted by the next deadline up to two intervals, whatever the  *)
(* clock does between two readings: the snap forward of the firing loop    *)
(* keeps a late head from pushing the others back any further.             *)
THEOREM SchedNearlySorted == Spec => []NearlySorted
<1>1. LoadInv => NearlySorted
  BY DEF LoadInv
<1> QED BY <1>1, LoadSafe, PTL

(* A latency recorded for a MOVE fewer than RING MOVEs back is the time    *)
(* since that very MOVE was sent.                                          *)
THEOREM SamplesExact == Spec => SampleExact
<1> DEFINE Exact == \A c \in Conn : sample'.conn = c /\ sample' # sample /\ seq[c] - sample'.seq < RING
                      => sample'.us = now - sent_at[c][sample'.seq]
<1>1. LoadInv /\ [Next]_vars => [Exact]_vars
  <2> SUFFICES ASSUME LoadInv, Next PROVE Exact
    OBVIOUS
  <2>1. SUFFICES ASSUME sample' # sample PROVE Exact
    OBVIOUS
  <2>2. PICK c \in Conn : Snapshot(c)
    BY <2>1 DEF Next, Poll, Finish, StartFire, Fire, DropDead, EndFire, Kill, Connected,
                Joined, Nothing, history
  <2>3. PICK n \in echoed[c] .. seq[c] : Measured(c, n)
    BY <2>2 DEF Snapshot
  <2>4. echoed[c] \in Nat /\ seq[c] \in Nat
    BY DEF LoadInv, TypeOK
  <2>5. sample' = [us |-> now - send_at[c][n % RING], seq |-> n, conn |-> c] /\ n # 0
    BY <2>1, <2>3 DEF Measured, Slot
  <2>6. n \in 1 .. seq[c]
    BY <2>3, <2>4, <2>5
  <2>7. seq[c] - n < RING => send_at[c][n % RING] = sent_at[c][n]
    BY <2>6 DEF LoadInv, RingExact, Remembers
  <2> QED BY <2>5, <2>7
<1> QED BY <1>1, LoadSafe, PTL DEF Spec, SampleExact

=============================================================================
