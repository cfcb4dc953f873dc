---------------------------- MODULE LoadGenOdin ----------------------------
(***************************************************************************)
(* One worker of the Odin load generator (loadgen-odin/main.odin): an      *)
(* epoll loop over its connections with a FIFO of the joined ones, which   *)
(* is to be ordered by the time of the next MOVE.  Sends are open-loop: a  *)
(* MOVE goes out when it is due, whatever the server answers; latency is   *)
(* the time since the MOVE whose number a SNAPSHOT echoes.                 *)
(*                                                                         *)
(* Time is a number the worker reads; it may advance by any amount between *)
(* two readings.  The socket takes what it is given: the partial writes of *)
(* flush are left out.                                                     *)
(***************************************************************************)
EXTENDS Integers, Sequences, FiniteSets

CONSTANTS Conn, None,
          Interval,  \* interval_ns
          Warm,      \* warm_ns
          Deadline,  \* deadline_ns, counted from start_ns = 0
          RING,      \* slots of send_at (256)
          MaxDelay   \* bound: what the clock advances between two readings

ASSUME LoadGenConstants ==
    /\ None \notin Conn
    /\ Interval \in Nat \ {0} /\ RING \in Nat \ {0}
    /\ Warm \in Nat /\ Deadline \in Nat /\ MaxDelay \in Nat

VARIABLES now,         \* the clock as last read
          pc,          \* where the loop is: polling, handling events, firing, done
          batch,       \* the connections with an event not yet handled
          sched,       \* Sched, from head to tail
          connected, joined, dead, seq, send_at, next_send,  \* CConn's fields
          echoed,      \* the highest number the server has echoed
          sent_at,     \* history: when MOVE n was sent, for every n
          sample,      \* history: the latency recorded last, and of which MOVE
          moves_sent, moves_measured

connVars == <<connected, joined, dead, seq, send_at, next_send>>
history  == <<sent_at, sample>>
vars == <<now, pc, batch, sched, connVars, echoed, history, moves_sent, moves_measured>>

NoSample == [us |-> 0, seq |-> 0, conn |-> None]

(* Type correctness; no latency and no send time is ever negative.         *)
TypeOK ==
    /\ now \in Nat
    /\ pc \in {"poll", "event", "fire", "done"}
    /\ batch \in SUBSET Conn
    /\ sched \in Seq(Conn)
    /\ connected \in [Conn -> BOOLEAN]
    /\ joined \in [Conn -> BOOLEAN]
    /\ dead \in [Conn -> BOOLEAN]
    /\ seq \in [Conn -> Nat]
    /\ send_at \in [Conn -> [0 .. RING - 1 -> Nat]]
    /\ next_send \in [Conn -> Nat]
    /\ echoed \in [Conn -> Nat]
    /\ sent_at \in [Conn -> Seq(Nat)]
    /\ sample \in [us : Nat, seq : Nat, conn : Conn \cup {None}]
    /\ moves_sent \in Nat /\ moves_measured \in Nat

Init ==
    /\ now = 0
    /\ pc = "poll"
    /\ batch = {}
    /\ sched = <<>>
    /\ connected = [c \in Conn |-> FALSE]
    /\ joined = [c \in Conn |-> FALSE]
    /\ dead = [c \in Conn |-> FALSE]
    /\ seq = [c \in Conn |-> 0]
    /\ send_at = [c \in Conn |-> [i \in 0 .. RING - 1 |-> 0]]
    /\ next_send = [c \in Conn |-> 0]
    /\ echoed = [c \in Conn |-> 0]
    /\ sent_at = [c \in Conn |-> <<>>]
    /\ sample = NoSample
    /\ moves_sent = 0 /\ moves_measured = 0

-----------------------------------------------------------------------------
(* now_ns(): the clock is monotonic. *)
ReadWallClock == \E t \in now - MaxDelay .. now + MaxDelay : now' = t   \* mutant
ReadClock == \E t \in now .. now + MaxDelay : now' = t

(* epoll_wait, which returns with some descriptors ready, or none. *)
Poll ==
    /\ pc = "poll"
    /\ now < Deadline
    /\ ReadClock
    /\ \E B \in SUBSET {c \in Conn : ~dead[c]} : batch' = B
    /\ pc' = "event"
    /\ UNCHANGED <<sched, connVars, echoed, history, moves_sent, moves_measured>>

(* The deadline has passed: close what is open. *)
Finish ==
    /\ pc = "poll"
    /\ now >= Deadline
    /\ pc' = "done"
    /\ UNCHANGED <<now, batch, sched, connVars, echoed, history, moves_sent, moves_measured>>

(* An event of the batch, and its end. *)
Event(c) == pc = "event" /\ c \in batch /\ ~dead[c]
Handled(c) == Event(c) /\ batch' = batch \ {c}

(* client_read: a frame.  It may be the last that the read has brought, or *)
(* more follow, which are handled at the same now.                         *)
ReadFrame(c) == Event(c) /\ batch' \in {batch, batch \ {c}}

(* A hang-up, end of file, a bad length, a failed flush. *)
Kill(c) ==
    /\ Handled(c)
    /\ dead' = [dead EXCEPT ![c] = TRUE]
    /\ UNCHANGED <<now, pc, sched, connected, joined, seq, send_at, next_send,
                   echoed, history, moves_sent, moves_measured>>

(* The connect has completed: send JOIN. *)
Connected(c) ==
    /\ Handled(c)
    /\ ~connected[c]
    /\ connected' = [connected EXCEPT ![c] = TRUE]
    /\ UNCHANGED <<now, pc, sched, joined, dead, seq, send_at, next_send,
                   echoed, history, moves_sent, moves_measured>>

(* JOINED: the connection enters the schedule, once. *)
JoinedTwice(c) ==                                \* mutant: every JOINED enters it
    /\ ReadFrame(c)
    /\ connected[c]
    /\ joined' = [joined EXCEPT ![c] = TRUE]
    /\ next_send' = [next_send EXCEPT ![c] = now + Interval]
    /\ sched' = Append(sched, c)
    /\ UNCHANGED <<now, pc, connected, dead, seq, send_at, echoed, sent_at,
                   sample, moves_sent, moves_measured>>

Joined(c) ==
    /\ ReadFrame(c)
    /\ connected[c] /\ ~joined[c]
    /\ joined' = [joined EXCEPT ![c] = TRUE]
    /\ next_send' = [next_send EXCEPT ![c] = now + Interval]
    /\ sched' = Append(sched, c)
    /\ UNCHANGED <<now, pc, connected, dead, seq, send_at, echoed, sent_at,
                   sample, moves_sent, moves_measured>>

(* A SNAPSHOT that lists the connection's player with its last_seq.  The   *)
(* server echoes numbers it was sent, none smaller than the one before; a  *)
(* repeated number is measured again.                                      *)
SlotAfter(n) == (n + 1) % RING                   \* mutant: off by one
Slot(n) == n % RING

Measured(c, n) ==
    LET st == send_at[c][Slot(n)]
    IN  sample' = IF n # 0 /\ st # 0 /\ now > st /\ now > Warm
                  THEN [us |-> now - st, seq |-> n, conn |-> c] ELSE sample

Snapshot(c) ==
    /\ ReadFrame(c)
    /\ joined[c]
    /\ \E n \in echoed[c] .. seq[c] :
         /\ echoed' = [echoed EXCEPT ![c] = n]
         /\ Measured(c, n)
    /\ UNCHANGED <<now, pc, sched, connVars, sent_at,
                   moves_sent, moves_measured>>

(* An event that changes nothing: a SNAPSHOT before JOINED, output room.   *)
Nothing(c) ==
    /\ Handled(c)
    /\ connected[c]
    /\ UNCHANGED <<now, pc, sched, connVars, echoed, history, moves_sent, moves_measured>>

StartFire ==
    /\ pc = "event"
    /\ batch = {}
    /\ ReadClock
    /\ pc' = "fire"
    /\ UNCHANGED <<batch, sched, connVars, echoed, sent_at, sample,
                   moves_sent, moves_measured>>

(* The deadline after d: one interval on, or from now if that is more than *)
(* an interval ago.                                                        *)
NextSendFixed(d) == d + Interval                 \* mutant: never snaps forward
NextSend(d) == IF now - (d + Interval) > Interval THEN now + Interval ELSE d + Interval

Due == sched # <<>> /\ next_send[Head(sched)] <= now

(* send_move *)
SendMove(c) ==
    LET n == seq[c] + 1
    IN  /\ seq' = [seq EXCEPT ![c] = n]
        /\ send_at' = [send_at EXCEPT ![c][n % RING] = now]
        /\ sent_at' = [sent_at EXCEPT ![c] = Append(@, now)]
        /\ moves_sent' = moves_sent + 1
        /\ moves_measured' = moves_measured + (IF now > Warm THEN 1 ELSE 0)

Fire ==
    LET c == Head(sched)
    IN  /\ pc = "fire"
        /\ Due
        /\ ~dead[c]
        /\ SendMove(c)
        /\ next_send' = [next_send EXCEPT ![c] = NextSend(@)]
        /\ sched' = Append(Tail(sched), c)
        /\ UNCHANGED <<now, pc, batch, connected, joined, dead, echoed, sample>>

(* A dead connection leaves the schedule when it comes to the head. *)
DropDead ==
    /\ pc = "fire"
    /\ Due
    /\ dead[Head(sched)]
    /\ sched' = Tail(sched)
    /\ UNCHANGED <<now, pc, batch, connVars, echoed, history, moves_sent, moves_measured>>

EndFire ==
    /\ pc = "fire"
    /\ ~Due
    /\ pc' = "poll"
    /\ UNCHANGED <<now, batch, sched, connVars, echoed, history, moves_sent, moves_measured>>

Next ==
    \/ Poll \/ Finish \/ StartFire \/ Fire \/ DropDead \/ EndFire
    \/ \E c \in Conn : Kill(c) \/ Connected(c) \/ Joined(c) \/ Snapshot(c) \/ Nothing(c)

Spec == Init /\ [][Next]_vars

-----------------------------------------------------------------------------
(* Properties.                                                             *)

(* Every live connection that has joined is in the schedule exactly once,  *)
(* so that none falls silent and the ring never overflows.                 *)
Scheduled ==
    /\ \A i, j \in 1 .. Len(sched) : sched[i] = sched[j] => i = j
    /\ \A c \in Conn : joined[c] /\ ~dead[c] => \E i \in 1 .. Len(sched) : sched[i] = c

(* The schedule is called sorted (main.odin:16-19, 134-135), and after a   *)
(* stall it is not.  What holds instead bounds how late a MOVE can be for  *)
(* that: a connection waits behind one whose deadline is at most two       *)
(* intervals after its own.                                                *)
NearlySorted ==
    \A i, j \in 1 .. Len(sched) :
      i < j => next_send[sched[i]] <= next_send[sched[j]] + 2 * Interval

(* A sample is the latency of the MOVE it is taken for, as long as fewer   *)
(* than RING MOVEs have been sent since that one.                          *)
SampleExact ==
    [][\A c \in Conn : sample'.conn = c /\ sample' # sample /\ seq[c] - sample'.seq < RING
         => sample'.us = now - sent_at[c][sample'.seq]]_vars

=============================================================================
