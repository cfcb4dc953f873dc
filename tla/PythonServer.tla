---------------------------- MODULE PythonServer ----------------------------
(***************************************************************************)
(* servers/python/server.py: N processes that share the port, each with    *)
(* one asyncio loop on which the connection handlers and the room tasks    *)
(* run one at a time.  A handler may give the loop back between two frames *)
(* (it does when the next one is not there yet), a room task only where    *)
(* Room.run sleeps: held[p] is the task in between.  Time is relative: due *)
(* is nxt - loop.time() of a room, and owed (history) the time since its   *)
(* task began less a tick for every snapshot.                              *)
(***************************************************************************)
EXTENDS Integers, Sequences, FiniteSets

CONSTANTS
    Procs,      \* the processes the runner started
    Clients,
    Rooms,      \* room ids
    Tick,       \* 1 / tick_hz
    StepCost,   \* the longest time one round of Room.run takes
    MaxLate,    \* bound: how late the loop may be
    PidMod,     \* player ids: 2^32
    PosMax,     \* the largest coordinate that struct packs as "i": 2^31 - 1
    MaxFrames,  \* bound: frames each client sends
    None

\* The frames that may be sent: their number bounds the player ids in use.
Sendable == UNION {{c} \X (1 .. MaxFrames[c]) : c \in Clients}

ASSUME PythonAssumption ==
    /\ Tick \in Nat \ {0} /\ StepCost \in Nat /\ MaxLate \in Nat /\ StepCost < Tick
    /\ PosMax \in Nat /\ MaxFrames \in [Clients -> Nat]
    /\ PidMod \in Nat \ {0} /\ IsFiniteSet(Sendable) /\ PidMod > Cardinality(Sendable)
    /\ None \notin Procs \cup Clients \cup Rooms \cup Nat \cup (Rooms \X {"step", "pace"})

VARIABLES
    conn,      \* handle() of each client: its locals and where it is
    stream,    \* frames that have arrived and are not read
    sent,      \* frames each client has sent
    next_pid,  \* _next_pid of each process
    room,      \* rooms of each process
    held,      \* the room task that has not given the loop back, None if there is none
    spent,     \* the time its round has taken so far
    got        \* the rooms each client has got a JOINED and a SNAPSHOT of

vars == <<conn, stream, sent, next_pid, room, held, spent, got>>

Frames == {[t |-> "JOIN", room |-> r] : r \in Rooms} \cup
          {[t |-> "MOVE", dx |-> 1]} \cup
          {[t |-> "other"], [t |-> "bad"]}

NoRoom == [st |-> "none", players |-> <<>>, conns |-> <<>>,
           due |-> 0, owed |-> 0]

Init ==
    /\ conn = [c \in Clients |-> [pc |-> "new", proc |-> None, room |-> None,
                                  pid |-> 0, eof |-> FALSE, joins |-> 0]]
    /\ stream = [c \in Clients |-> <<>>] /\ sent = [c \in Clients |-> 0]
    /\ next_pid = [p \in Procs |-> 0]
    /\ room = [p \in Procs |-> [r \in Rooms |-> NoRoom]]
    /\ held = [p \in Procs |-> None] /\ spent = [p \in Procs |-> 0]
    /\ got = [c \in Clients |-> [joined |-> {}, snaps |-> {}]]

-----------------------------------------------------------------------------
(* Clients and the kernel. *)

\* SO_REUSEPORT: the kernel picks the process, which accepts when its loop is free.
Accept(c, p) ==
    /\ conn[c].pc = "new" /\ held[p] = None
    /\ conn' = [conn EXCEPT ![c].pc = "open", ![c].proc = p]
    /\ UNCHANGED <<stream, sent, next_pid, room, held, spent, got>>

Send(c) ==
    /\ conn[c].pc = "open" /\ ~conn[c].eof /\ sent[c] < MaxFrames[c]
    /\ \E f \in Frames : stream' = [stream EXCEPT ![c] = Append(@, f)]
    /\ sent' = [sent EXCEPT ![c] = @ + 1]
    /\ UNCHANGED <<conn, next_pid, room, held, spent, got>>

\* The client closes its side, perhaps inside a frame, or resets the connection:
\* then what has arrived is lost.
Leave(c) ==
    /\ conn[c].pc = "open" /\ ~conn[c].eof
    /\ conn' = [conn EXCEPT ![c].eof = TRUE]
    /\ stream' \in {stream, [stream EXCEPT ![c] = <<>>]}
    /\ UNCHANGED <<sent, next_pid, room, held, spent, got>>

\* Time passes, for a round in progress at most StepCost.
Elapse ==
    /\ \A p \in Procs : held[p] # None => spent[p] < StepCost
    /\ \A p \in Procs, r \in Rooms : room[p][r].st = "up" => room[p][r].due > -MaxLate
    /\ \E p \in Procs, r \in Rooms : room[p][r].st = "up"
    /\ room' = [p \in Procs |-> [r \in Rooms |->
                  IF room[p][r].st = "up"
                  THEN [room[p][r] EXCEPT !.due = @ - 1, !.owed = @ + 1] ELSE room[p][r]]]
    /\ spent' = [p \in Procs |-> IF held[p] = None THEN 0 ELSE spent[p] + 1]
    /\ UNCHANGED <<conn, stream, sent, next_pid, held, got>>

-----------------------------------------------------------------------------
(* Room: join, move and leave. *)

Without(f, x) == [y \in DOMAIN f \ {x} |-> f[y]]

With(f, x, v) == [y \in DOMAIN f \cup {x} |-> IF y = x THEN v ELSE f[y]]

join(rm, pid, c) == [rm EXCEPT !.players = With(@, pid, [x |-> 0, vx |-> 0]),
                               !.conns = With(@, pid, c)]

move(rm, pid, dx) ==
    IF pid \in DOMAIN rm.players
    THEN [rm EXCEPT !.players = With(@, pid, [x |-> rm.players[pid].x, vx |-> dx])] ELSE rm

\* Mutant: only the connection is forgotten.
leave_half(rm, pid) == [rm EXCEPT !.conns = Without(@, pid)]

leave(rm, pid) == [rm EXCEPT !.players = Without(@, pid), !.conns = Without(@, pid)]

-----------------------------------------------------------------------------
(* handle(): one frame, from readexactly to readexactly. *)

Arrived(c, t) ==
    /\ conn[c].pc = "open" /\ held[conn[c].proc] = None
    /\ stream[c] # <<>> /\ Head(stream[c]).t = t
    /\ stream' = [stream EXCEPT ![c] = Tail(@)]

\* get_room: the room, created if need be; its task runs later.
get_room(p, r) == [room[p][r] EXCEPT !.st = IF @ = "none" THEN "fresh" ELSE @]

new_pid(p) == (next_pid[p] + 1) % PidMod

\* Mutant: the JOINED frame is left out.
JoinUnanswered(c) ==
    /\ Arrived(c, "JOIN")
    /\ LET p == conn[c].proc
           r == Head(stream[c]).room
           pid == new_pid(p)
       IN  /\ next_pid' = [next_pid EXCEPT ![p] = pid]
           /\ room' = [room EXCEPT ![p][r] = join(get_room(p, r), pid, c)]
           /\ conn' = [conn EXCEPT ![c].room = r, ![c].pid = pid, ![c].joins = @ + 1]
    /\ UNCHANGED <<sent, held, spent, got>>

\* JOIN: get_room, Room.join and the JOINED frame without giving the loop back.
\* The membership of an earlier JOIN is not touched.
Join(c) ==
    /\ Arrived(c, "JOIN")
    /\ LET p == conn[c].proc
           r == Head(stream[c]).room
           pid == new_pid(p)
       IN  /\ next_pid' = [next_pid EXCEPT ![p] = pid]
           /\ room' = [room EXCEPT ![p][r] = join(get_room(p, r), pid, c)]
           /\ conn' = [conn EXCEPT ![c].room = r, ![c].pid = pid, ![c].joins = @ + 1]
           /\ got' = [got EXCEPT ![c].joined = @ \cup {r}]
    /\ UNCHANGED <<sent, held, spent>>

\* MOVE: ignored before a JOIN.
Move(c) ==
    /\ Arrived(c, "MOVE")
    /\ LET p == conn[c].proc
           r == conn[c].room
       IN  room' = IF r = None THEN room
                   ELSE [room EXCEPT ![p][r] = move(@, conn[c].pid, Head(stream[c]).dx)]
    /\ UNCHANGED <<conn, sent, next_pid, held, spent, got>>

\* A frame of another type, or too short for its type.
Ignore(c) ==
    /\ Arrived(c, "other")
    /\ UNCHANGED <<conn, sent, next_pid, room, held, spent, got>>

\* The finally clause: Room.leave of the last JOIN, writer.close().
Finish(c) ==
    LET p == conn[c].proc
        r == conn[c].room
    IN  /\ conn' = [conn EXCEPT ![c].pc = "closed"]
        /\ room' = IF r # None /\ conn[c].pid # 0
                   THEN [room EXCEPT ![p][r] = leave(@, conn[c].pid)] ELSE room
        /\ UNCHANGED <<sent, next_pid, held, spent, got>>

\* A length of 0 or above 1 MiB breaks the loop.
BadLength(c) == Arrived(c, "bad") /\ Finish(c)

\* IncompleteReadError or ConnectionError.
Eof(c) ==
    /\ conn[c].pc = "open" /\ held[conn[c].proc] = None
    /\ conn[c].eof /\ stream[c] = <<>>
    /\ UNCHANGED stream /\ Finish(c)

Handle(c) == Join(c) \/ Move(c) \/ Ignore(c) \/ BadLength(c) \/ Eof(c)

-----------------------------------------------------------------------------
(* Room.run. *)

\* Mutant: nxt is set one tick ahead and then moved on.
BeginTwice(p, r) ==
    /\ held[p] = None /\ room[p][r].st = "fresh"
    /\ room' = [room EXCEPT ![p][r].st = "up", ![p][r].due = 2 * Tick]
    /\ UNCHANGED <<conn, stream, sent, next_pid, held, spent, got>>

\* The task of a new room runs for the first time: nxt is now, and one tick on.
Begin(p, r) ==
    /\ held[p] = None /\ room[p][r].st = "fresh"
    /\ room' = [room EXCEPT ![p][r].st = "up", ![p][r].due = Tick]
    /\ UNCHANGED <<conn, stream, sent, next_pid, held, spent, got>>

\* Room.step raises struct.error for a coordinate that does not fit, after it has
\* moved the players; nobody catches it and the task of the room ends.
Moved(players) == [pid \in DOMAIN players |-> [players[pid] EXCEPT !.x = @ + players[pid].vx]]
Overflows(players) == \E pid \in DOMAIN players : players[pid].x > PosMax

\* Writing to a closed transport has no effect.
Written(p, r) ==
    [c \in Clients |->
        IF conn[c].pc = "open" /\ c \in {room[p][r].conns[i] : i \in DOMAIN room[p][r].conns}
        THEN [got[c] EXCEPT !.snaps = @ \cup {r}] ELSE got[c]]

\* Mutant: a step that raises is tried again at once.
StepRetried(p, r) ==
    /\ room[p][r].st = "up"
    /\ \/ held[p] = None /\ room[p][r].due <= 0
       \/ held[p] = <<r, "step">>
    /\ LET players == Moved(room[p][r].players)
           up == ~Overflows(players)
       IN  /\ room' = IF up THEN [room EXCEPT ![p][r].players = players, ![p][r].owed = @ - Tick]
                      ELSE room
           /\ got' = IF up THEN Written(p, r) ELSE got
           /\ held' = [held EXCEPT ![p] = <<r, IF up THEN "pace" ELSE "step">>]
    /\ spent' = [spent EXCEPT ![p] = IF held'[p] = <<r, "pace">> THEN 0 ELSE @]
    /\ UNCHANGED <<conn, stream, sent, next_pid>>

\* A room that is due, or that is still behind after its last step.
Step(p, r) ==
    /\ room[p][r].st = "up"
    /\ \/ held[p] = None /\ room[p][r].due <= 0
       \/ held[p] = <<r, "step">>
    /\ LET players == Moved(room[p][r].players)
           up == ~Overflows(players)
       IN  /\ room' = [room EXCEPT ![p][r].players = players,
                                   ![p][r].st = IF up THEN "up" ELSE "dead",
                                   ![p][r].owed = IF up THEN @ - Tick ELSE 0,
                                   ![p][r].due = IF up THEN @ ELSE 0]
           /\ got' = IF up THEN Written(p, r) ELSE got
           /\ held' = [held EXCEPT ![p] = IF up THEN <<r, "pace">> ELSE None]
    /\ spent' = [spent EXCEPT ![p] = 0]
    /\ UNCHANGED <<conn, stream, sent, next_pid>>

\* Mutant: the next tick is counted from now.
PaceFromNow(p, r) ==
    /\ held[p] = <<r, "pace">>
    /\ room' = [room EXCEPT ![p][r].due = Tick]
    /\ held' = [held EXCEPT ![p] = None]
    /\ spent' = [spent EXCEPT ![p] = 0]
    /\ UNCHANGED <<conn, stream, sent, next_pid, got>>

\* The head of the loop: nxt += tick, and sleep only when that is in the future.
Pace(p, r) ==
    /\ held[p] = <<r, "pace">>
    /\ room' = [room EXCEPT ![p][r].due = @ + Tick]
    /\ held' = [held EXCEPT ![p] = IF room[p][r].due + Tick > 0 THEN None ELSE <<r, "step">>]
    /\ spent' = [spent EXCEPT ![p] = IF held'[p] = None THEN 0 ELSE @]
    /\ UNCHANGED <<conn, stream, sent, next_pid, got>>

Task(p, r) == Begin(p, r) \/ Step(p, r) \/ Pace(p, r)

Next ==
    \/ Elapse
    \/ \E c \in Clients : Send(c) \/ Leave(c) \/ Handle(c) \/ \E p \in Procs : Accept(c, p)
    \/ \E p \in Procs, r \in Rooms : Task(p, r)

\* The loop runs every callback that is ready, in the order they became ready: a
\* handler that is ready runs as soon as the tasks before it give the loop back.
Fairness ==
    /\ \A c \in Clients : SF_vars(Handle(c))
    /\ \A p \in Procs : WF_vars(\E r \in Rooms : Task(p, r))

Spec == Init /\ [][Next]_vars /\ Fairness

-----------------------------------------------------------------------------
(* Properties. *)

Pids == 0 .. PidMod - 1

\* The tables of the rooms, the locals of the handlers and the loops have their types.
TypeOK ==
    /\ conn \in [Clients -> [pc : {"new", "open", "closed"}, proc : Procs \cup {None},
                             room : Rooms \cup {None}, pid : Pids, eof : BOOLEAN,
                             joins : Nat]]
    /\ \A c \in Clients : stream[c] \in Seq(Frames) /\ sent[c] \in 0 .. MaxFrames[c]
    /\ next_pid \in [Procs -> Pids]
    /\ \A p \in Procs, r \in Rooms :
          /\ room[p][r].st \in {"none", "fresh", "up", "dead"}
          /\ DOMAIN room[p][r].players \subseteq Pids
          /\ room[p][r].due \in -MaxLate .. Tick
    /\ held \in [Procs -> {None} \cup (Rooms \X {"step", "pace"})]
    /\ spent \in [Procs -> 0 .. StepCost]

Memberships(c) ==
    UNION {{<<p, r, i>> : i \in {j \in DOMAIN room[p][r].conns : room[p][r].conns[j] = c}} :
             p \in Procs, r \in Rooms}

\* As long as a connection is open, its last JOIN holds, and it is in the rooms at
\* most once for every JOIN; the end of one that joined once takes it out of them
\* all.  Nothing is asked for what an earlier JOIN of the same connection left.
\* players and conns list the same ids.
MembersExact ==
    /\ \A p \in Procs, r \in Rooms : DOMAIN room[p][r].players = DOMAIN room[p][r].conns
    /\ \A c \in Clients :
          /\ conn[c].pc = "open" /\ conn[c].joins > 0
                => <<conn[c].proc, conn[c].room, conn[c].pid>> \in Memberships(c)
          /\ Cardinality(Memberships(c)) <= conn[c].joins
          /\ conn[c].pc = "closed" /\ conn[c].joins = 1 => Memberships(c) = {}

\* A client never gets a snapshot of a room before the JOINED that tells it its id.
JoinedFirst == \A c \in Clients : got[c].snaps \subseteq got[c].joined

\* A late room makes up for every tick it missed and never drifts: the snapshots
\* it has sent cover exactly the time since its task began, whenever it sleeps.
PaceExact ==
    \A p \in Procs, r \in Rooms : room[p][r].st = "up" =>
       room[p][r].due + room[p][r].owed = IF held[p] = <<r, "pace">> THEN 0 ELSE Tick

\* Rooms cannot starve the connections of their process: a frame that has arrived
\* is read, although a late room does not give the loop back until it has caught
\* up.  It rests on StepCost < Tick.
Handled == \A c \in Clients : stream[c] # <<>> ~> stream[c] = <<>> \/ conn[c].pc = "closed"
=============================================================================
