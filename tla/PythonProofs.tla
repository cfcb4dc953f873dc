---------------------------- MODULE PythonProofs ----------------------------
(***************************************************************************)
(* The Python server for any number of processes, clients, rooms and       *)
(* frames: types, the pacing of the rooms, and JOINED before snapshots.    *)
(***************************************************************************)
EXTENDS PythonServer, SequenceTheorems, FiniteSetTheorems, TLAPS

Player == [x : Int, vx : Int]
PidMap(S) == UNION {[D -> S] : D \in SUBSET Pids}
RoomRec == [st : {"none", "fresh", "up", "dead"}, players : PidMap(Player),
            conns : PidMap(Clients), due : Int, owed : Int]
Handler == [pc : {"new", "open", "closed"}, proc : Procs \cup {None},
            room : Rooms \cup {None}, pid : Pids, eof : BOOLEAN, joins : Nat]
Heard == [joined : SUBSET Rooms, snaps : SUBSET Rooms]

\* The types, in full.
Types ==
    /\ conn \in [Clients -> Handler]
    /\ \A c \in Clients : conn[c].pc = "open" => conn[c].proc \in Procs
    /\ stream \in [Clients -> Seq(Frames)]
    /\ sent \in [Clients -> Nat] /\ \A c \in Clients : sent[c] <= MaxFrames[c]
    /\ next_pid \in [Procs -> Pids]
    /\ room \in [Procs -> [Rooms -> RoomRec]]
    /\ held \in [Procs -> {None} \cup (Rooms \X {"step", "pace"})]
    /\ spent \in [Procs -> 0 .. StepCost]
    /\ got \in [Clients -> Heard]

\* The clock of a room, when h has the loop: PaceExact, and what it needs: a room that
\* is not up owes nothing, and one that has not given the loop back is up and was due.
Paced(rm, h, r) ==
    /\ -MaxLate <= rm.due /\ rm.due <= Tick
    /\ rm.st = "up" => rm.due + rm.owed = IF h = <<r, "pace">> THEN 0 ELSE Tick
    /\ rm.st # "up" => rm.due = 0 /\ rm.owed = 0
    /\ h = <<r, "step">> \/ h = <<r, "pace">> => rm.st = "up" /\ rm.due <= 0

Pacing == \A p \in Procs, r \in Rooms : Paced(room[p][r], held[p], r)

\* Whoever is in a room has been told so.
Told == \A p \in Procs, r \in Rooms : \A i \in DOMAIN room[p][r].conns :
            r \in got[room[p][r].conns[i]].joined

PyInv == Types /\ Pacing /\ Told /\ JoinedFirst

LEMMA Constants ==
    /\ Tick \in Nat /\ Tick > 0 /\ StepCost \in Nat /\ MaxLate \in Nat
    /\ MaxFrames \in [Clients -> Nat] /\ PidMod \in Nat /\ PidMod > 0
    /\ None \notin Procs /\ None \notin Rooms
    /\ \A r \in Rooms : None # <<r, "step">> /\ None # <<r, "pace">>
BY PythonAssumption

(* Maps from player ids: what With and Without make of them.               *)
LEMMA WithMap ==
    ASSUME NEW S, NEW f \in PidMap(S), NEW i \in Pids, NEW v \in S
    PROVE  /\ With(f, i, v) \in PidMap(S)
           /\ \A j \in DOMAIN With(f, i, v) :
                With(f, i, v)[j] = v \/ (j \in DOMAIN f /\ With(f, i, v)[j] = f[j])
<1>1. PICK D \in SUBSET Pids : f \in [D -> S]
  BY DEF PidMap
<1>2. With(f, i, v) \in [D \cup {i} -> S]
  BY <1>1 DEF With
<1>3. D \cup {i} \in SUBSET Pids
  BY <1>1
<1>4. With(f, i, v) \in PidMap(S)
  BY <1>2, <1>3 DEF PidMap
<1> QED BY <1>1, <1>4 DEF With

LEMMA WithoutMap ==
    ASSUME NEW S, NEW f \in PidMap(S), NEW i
    PROVE  /\ Without(f, i) \in PidMap(S)
           /\ \A j \in DOMAIN Without(f, i) : j \in DOMAIN f /\ Without(f, i)[j] = f[j]
<1>1. PICK D \in SUBSET Pids : f \in [D -> S]
  BY DEF PidMap
<1>2. Without(f, i) \in [D \ {i} -> S]
  BY <1>1 DEF Without
<1>3. D \ {i} \in SUBSET Pids
  BY <1>1
<1>4. Without(f, i) \in PidMap(S)
  BY <1>2, <1>3 DEF PidMap
<1> QED BY <1>1, <1>4 DEF Without

LEMMA EmptyMap == ASSUME NEW S PROVE <<>> \in PidMap(S) /\ DOMAIN <<>> = {}
<1>1. <<>> \in [{} -> S]
  OBVIOUS
<1> QED BY <1>1 DEF PidMap

(* Room's methods touch the two tables only.                               *)
SameClock(a, b) == a.due = b.due /\ a.owed = b.owed

LEMMA JoinRoom ==
    ASSUME NEW rm \in RoomRec, NEW i \in Pids, NEW c \in Clients
    PROVE  /\ join(rm, i, c) \in RoomRec
           /\ SameClock(join(rm, i, c), rm) /\ join(rm, i, c).st = rm.st
           /\ \A j \in DOMAIN join(rm, i, c).conns :
                \/ join(rm, i, c).conns[j] = c
                \/ j \in DOMAIN rm.conns /\ join(rm, i, c).conns[j] = rm.conns[j]
<1>1. [x |-> 0, vx |-> 0] \in Player
  BY DEF Player
<1>2. With(rm.players, i, [x |-> 0, vx |-> 0]) \in PidMap(Player)
  BY <1>1, WithMap DEF RoomRec
<1>3. /\ With(rm.conns, i, c) \in PidMap(Clients)
      /\ \A j \in DOMAIN With(rm.conns, i, c) :
           \/ With(rm.conns, i, c)[j] = c
           \/ j \in DOMAIN rm.conns /\ With(rm.conns, i, c)[j] = rm.conns[j]
  BY WithMap DEF RoomRec
<1> QED BY <1>2, <1>3 DEF join, RoomRec, SameClock

LEMMA MoveRoom ==
    ASSUME NEW rm \in RoomRec, NEW i \in Pids, NEW dx \in Int
    PROVE  /\ move(rm, i, dx) \in RoomRec
           /\ SameClock(move(rm, i, dx), rm) /\ move(rm, i, dx).st = rm.st
           /\ move(rm, i, dx).conns = rm.conns
<1>1. CASE i \in DOMAIN rm.players
  <2>1. rm.players \in PidMap(Player)
    BY DEF RoomRec
  <2>2. rm.players[i] \in Player
    BY <1>1, <2>1 DEF PidMap
  <2>3. [x |-> rm.players[i].x, vx |-> dx] \in Player
    BY <2>2 DEF Player
  <2>4. With(rm.players, i, [x |-> rm.players[i].x, vx |-> dx]) \in PidMap(Player)
    BY <2>1, <2>3, WithMap
  <2> QED BY <1>1, <2>4 DEF move, RoomRec, SameClock
<1>2. CASE i \notin DOMAIN rm.players
  BY <1>2 DEF move, SameClock
<1> QED BY <1>1, <1>2

LEMMA LeaveRoom ==
    ASSUME NEW rm \in RoomRec, NEW i
    PROVE  /\ leave(rm, i) \in RoomRec
           /\ SameClock(leave(rm, i), rm) /\ leave(rm, i).st = rm.st
           /\ \A j \in DOMAIN leave(rm, i).conns :
                j \in DOMAIN rm.conns /\ leave(rm, i).conns[j] = rm.conns[j]
<1>1. Without(rm.players, i) \in PidMap(Player)
  BY WithoutMap DEF RoomRec
<1>2. /\ Without(rm.conns, i) \in PidMap(Clients)
      /\ \A j \in DOMAIN Without(rm.conns, i) :
           j \in DOMAIN rm.conns /\ Without(rm.conns, i)[j] = rm.conns[j]
  BY WithoutMap DEF RoomRec
<1> QED BY <1>1, <1>2 DEF leave, RoomRec, SameClock

LEMMA PyInit == Init => PyInv
<1> SUFFICES ASSUME Init PROVE PyInv
  OBVIOUS
<1> USE Constants
<1>1. NoRoom \in RoomRec /\ DOMAIN NoRoom.conns = {}
  BY EmptyMap DEF NoRoom, RoomRec
<1>2. 0 \in Pids
  BY DEF Pids
<1>3. Types
  BY <1>1, <1>2 DEF Init, Types, Handler, Heard
<1>4. Pacing
  BY DEF Init, Pacing, Paced, NoRoom
<1>5. Told
  BY <1>1 DEF Init, Told
<1>6. JoinedFirst
  BY DEF Init, JoinedFirst
<1> QED BY <1>3, <1>4, <1>5, <1>6 DEF PyInv

(* Pacing does not depend on what a handler does to the tables of a room.  *)
LEMMA PacingKept ==
    ASSUME Pacing, UNCHANGED held,
           \A p \in Procs, r \in Rooms :
              /\ SameClock(room'[p][r], room[p][r])
              /\ \/ room'[p][r].st = room[p][r].st
                 \/ room[p][r].st = "none" /\ room'[p][r].st = "fresh"
    PROVE  Pacing'
BY DEF Pacing, Paced, SameClock

(* A frame that is read is a frame, on a connection some process has.      *)
LEMMA ArrivedFacts ==
    ASSUME Types, NEW c \in Clients, NEW t, Arrived(c, t)
    PROVE  /\ conn[c].proc \in Procs /\ conn[c] \in Handler
           /\ Head(stream[c]) \in Frames /\ Head(stream[c]).t = t
           /\ stream' \in [Clients -> Seq(Frames)]
<1>1. conn[c].proc \in Procs /\ conn[c] \in Handler
  BY DEF Types, Arrived
<1>2. stream[c] \in Seq(Frames) /\ stream[c] # <<>>
  BY DEF Types, Arrived
<1>3. Head(stream[c]) \in Frames /\ Tail(stream[c]) \in Seq(Frames)
  BY <1>2
<1>4. stream' \in [Clients -> Seq(Frames)]
  BY <1>3 DEF Types, Arrived
<1> QED BY <1>1, <1>3, <1>4 DEF Arrived

LEMMA JoinStep ==
    ASSUME PyInv, NEW c \in Clients, Join(c)
    PROVE  PyInv'
<1> DEFINE p == conn[c].proc
           r == Head(stream[c]).room
           i == new_pid(p)
<1>1. /\ p \in Procs /\ Head(stream[c]) \in Frames /\ Head(stream[c]).t = "JOIN"
      /\ stream' \in [Clients -> Seq(Frames)]
  BY ArrivedFacts DEF PyInv, Join
<1>2. r \in Rooms
  BY <1>1 DEF Frames
<1>3. i \in Pids
  BY SMTT(30), <1>1, Constants DEF PyInv, Types, new_pid, Pids
<1>4. /\ next_pid' = [next_pid EXCEPT ![p] = i]
      /\ room' = [room EXCEPT ![p][r] = join(get_room(p, r), i, c)]
      /\ conn' = [conn EXCEPT ![c].room = r, ![c].pid = i, ![c].joins = @ + 1]
      /\ got' = [got EXCEPT ![c].joined = @ \cup {r}]
      /\ UNCHANGED <<sent, held, spent>>
  BY DEF Join
<1> HIDE DEF p, r, i
<1>5. room \in [Procs -> [Rooms -> RoomRec]] /\ got \in [Clients -> Heard] /\ conn \in [Clients -> Handler]
  BY DEF PyInv, Types
<1> DEFINE g == get_room(p, r)
<1>6. /\ g \in RoomRec /\ SameClock(g, room[p][r]) /\ g.conns = room[p][r].conns
      /\ g.st = room[p][r].st \/ (room[p][r].st = "none" /\ g.st = "fresh")
  <2>1. room[p][r] \in RoomRec
    BY <1>1, <1>2, <1>5
  <2> QED BY <2>1 DEF get_room, RoomRec, SameClock
<1> HIDE DEF g
<1> DEFINE x == join(g, i, c)
<1>7. /\ x \in RoomRec /\ SameClock(x, g) /\ x.st = g.st
      /\ \A j \in DOMAIN x.conns : x.conns[j] = c \/ (j \in DOMAIN g.conns /\ x.conns[j] = g.conns[j])
  BY <1>3, <1>6, JoinRoom
<1>8. room' = [room EXCEPT ![p][r] = x]
  BY <1>4 DEF g
<1> HIDE DEF x
<1>9. /\ room' \in [Procs -> [Rooms -> RoomRec]]
      /\ \A q \in Procs, s \in Rooms :
           room'[q][s] = IF q = p /\ s = r THEN x ELSE room[q][s]
  BY <1>1, <1>2, <1>5, <1>7, <1>8
<1>10. /\ got' \in [Clients -> Heard]
       /\ \A d \in Clients : /\ got'[d].snaps = got[d].snaps
                             /\ got[d].joined \subseteq got'[d].joined
       /\ r \in got'[c].joined
  BY <1>2, <1>4, <1>5 DEF Heard
<1>11. conn' \in [Clients -> Handler] /\ \A d \in Clients : conn'[d].pc = conn[d].pc /\ conn'[d].proc = conn[d].proc
  BY <1>2, <1>3, <1>4, <1>5 DEF Handler
<1>12. Types'
  BY <1>1, <1>3, <1>4, <1>9, <1>10, <1>11 DEF PyInv, Types
<1>13. Pacing'
  <2>1. \A q \in Procs, s \in Rooms :
              /\ SameClock(room'[q][s], room[q][s])
              /\ \/ room'[q][s].st = room[q][s].st
                 \/ room[q][s].st = "none" /\ room'[q][s].st = "fresh"
    BY <1>6, <1>7, <1>9 DEF SameClock
  <2> QED BY <2>1, <1>4, PacingKept DEF PyInv
<1>14. Told'
  <2> SUFFICES ASSUME NEW q \in Procs, NEW s \in Rooms, NEW j \in DOMAIN room'[q][s].conns
               PROVE  s \in got'[room'[q][s].conns[j]].joined
    BY DEF Told
  <2>1. room[q][s] \in RoomRec /\ \A h \in DOMAIN room[q][s].conns : room[q][s].conns[h] \in Clients
    BY <1>5 DEF RoomRec, PidMap
  <2>2. \A h \in DOMAIN room[q][s].conns : s \in got'[room[q][s].conns[h]].joined
    BY <2>1, <1>10 DEF PyInv, Told
  <2>3. CASE q = p /\ s = r
    BY <2>2, <2>3, <1>6, <1>7, <1>9, <1>10
  <2>4. CASE ~(q = p /\ s = r)
    BY <2>2, <2>4, <1>9
  <2> QED BY <2>3, <2>4
<1>15. JoinedFirst'
  BY <1>5, <1>10 DEF PyInv, JoinedFirst, Heard
<1> QED BY <1>12, <1>13, <1>14, <1>15 DEF PyInv

(* Handlers that change the tables of at most one room and take nobody in. *)
LEMMA HandlerKept ==
    ASSUME PyInv, UNCHANGED <<held, got>>, Types',
           \A q \in Procs, s \in Rooms :
              /\ SameClock(room'[q][s], room[q][s]) /\ room'[q][s].st = room[q][s].st
              /\ \A j \in DOMAIN room'[q][s].conns :
                    j \in DOMAIN room[q][s].conns /\ room'[q][s].conns[j] = room[q][s].conns[j]
    PROVE  PyInv'
<1>1. Pacing'
  BY PacingKept DEF PyInv
<1>2. Told'
  BY DEF PyInv, Told
<1>3. JoinedFirst'
  BY DEF PyInv, JoinedFirst
<1> QED BY <1>1, <1>2, <1>3 DEF PyInv

LEMMA MoveStep ==
    ASSUME PyInv, NEW c \in Clients, Move(c)
    PROVE  PyInv'
<1> DEFINE p == conn[c].proc
           r == conn[c].room
           dx == Head(stream[c]).dx
<1>1. /\ p \in Procs /\ conn[c] \in Handler /\ Head(stream[c]) \in Frames
      /\ Head(stream[c]).t = "MOVE" /\ stream' \in [Clients -> Seq(Frames)]
  BY ArrivedFacts DEF PyInv, Move
<1>2. dx \in Int
  BY <1>1 DEF Frames
<1>3. /\ room' = IF r = None THEN room ELSE [room EXCEPT ![p][r] = move(@, conn[c].pid, dx)]
      /\ UNCHANGED <<conn, sent, next_pid, held, spent, got>>
  BY DEF Move
<1>4. room \in [Procs -> [Rooms -> RoomRec]] /\ r \in Rooms \cup {None} /\ conn[c].pid \in Pids
  BY <1>1 DEF PyInv, Types, Handler
<1> HIDE DEF p, r, dx
<1>5. /\ room' \in [Procs -> [Rooms -> RoomRec]]
      /\ \A q \in Procs, s \in Rooms :
           /\ SameClock(room'[q][s], room[q][s]) /\ room'[q][s].st = room[q][s].st
           /\ room'[q][s].conns = room[q][s].conns
  <2>1. CASE r = None
    BY <2>1, <1>3, <1>4 DEF SameClock
  <2>2. CASE r # None
    <3> DEFINE x == move(room[p][r], conn[c].pid, dx)
    <3>1. room[p][r] \in RoomRec
      BY <1>1, <1>4, <2>2
    <3>2. /\ x \in RoomRec /\ SameClock(x, room[p][r]) /\ x.st = room[p][r].st
          /\ x.conns = room[p][r].conns
      BY <3>1, <1>2, <1>4, MoveRoom
    <3>3. room' = [room EXCEPT ![p][r] = x]
      BY <2>2, <1>3
    <3> HIDE DEF x
    <3> QED BY <3>2, <3>3, <2>2, <1>1, <1>4 DEF SameClock
  <2> QED BY <2>1, <2>2
<1>6. Types'
  BY <1>1, <1>3, <1>5 DEF PyInv, Types
<1> QED BY <1>3, <1>5, <1>6, HandlerKept

(* The finally clause.                                                     *)
LEMMA FinishStep ==
    ASSUME PyInv, NEW c \in Clients, conn[c].pc = "open", Finish(c),
           stream' \in [Clients -> Seq(Frames)]
    PROVE  PyInv'
<1> DEFINE p == conn[c].proc
           r == conn[c].room
<1>1. p \in Procs /\ conn[c] \in Handler /\ room \in [Procs -> [Rooms -> RoomRec]] /\ r \in Rooms \cup {None}
  BY DEF PyInv, Types, Handler
<1>2. /\ conn' = [conn EXCEPT ![c].pc = "closed"]
      /\ room' = IF r # None /\ conn[c].pid # 0
                 THEN [room EXCEPT ![p][r] = leave(@, conn[c].pid)] ELSE room
      /\ UNCHANGED <<sent, next_pid, held, spent, got>>
  BY DEF Finish
<1> HIDE DEF p, r
<1>3. /\ room' \in [Procs -> [Rooms -> RoomRec]]
      /\ \A q \in Procs, s \in Rooms :
           /\ SameClock(room'[q][s], room[q][s]) /\ room'[q][s].st = room[q][s].st
           /\ \A j \in DOMAIN room'[q][s].conns :
                j \in DOMAIN room[q][s].conns /\ room'[q][s].conns[j] = room[q][s].conns[j]
  <2>1. CASE room' = room
    BY <2>1, <1>1 DEF SameClock
  <2>2. CASE r # None /\ room' = [room EXCEPT ![p][r] = leave(@, conn[c].pid)]
    <3> DEFINE x == leave(room[p][r], conn[c].pid)
    <3>1. room[p][r] \in RoomRec
      BY <1>1, <2>2
    <3>2. /\ x \in RoomRec /\ SameClock(x, room[p][r]) /\ x.st = room[p][r].st
          /\ \A j \in DOMAIN x.conns : j \in DOMAIN room[p][r].conns /\ x.conns[j] = room[p][r].conns[j]
      BY <3>1, LeaveRoom
    <3>3. room' = [room EXCEPT ![p][r] = x]
      BY <2>2
    <3> HIDE DEF x
    <3>4. /\ room' \in [Procs -> [Rooms -> RoomRec]]
          /\ \A q \in Procs, s \in Rooms : room'[q][s] = IF q = p /\ s = r THEN x ELSE room[q][s]
      BY <3>2, <3>3, <2>2, <1>1
    <3> QED BY <3>2, <3>4 DEF SameClock
  <2> QED BY <1>2, <2>1, <2>2
<1>4. conn' \in [Clients -> Handler] /\ \A d \in Clients : conn'[d].pc = "open" => conn'[d].proc \in Procs
  BY ZenonT(60), <1>2 DEF PyInv, Types, Handler
<1>5. Types'
  BY <1>2, <1>3, <1>4 DEF PyInv, Types
<1> QED BY <1>2, <1>3, <1>5, HandlerKept

LEMMA HandleStep ==
    ASSUME PyInv, NEW c \in Clients, Handle(c)
    PROVE  PyInv'
<1>1. CASE Join(c)
  BY <1>1, JoinStep
<1>2. CASE Move(c)
  BY <1>2, MoveStep
<1>3. CASE Ignore(c)
  <2>1. stream' \in [Clients -> Seq(Frames)] /\ UNCHANGED <<conn, sent, next_pid, room, held, spent, got>>
    BY <1>3, ArrivedFacts DEF PyInv, Ignore
  <2>2. Types'
    BY <2>1 DEF PyInv, Types
  <2> QED BY <2>1, <2>2, HandlerKept DEF SameClock
<1>4. CASE BadLength(c)
  <2>1. stream' \in [Clients -> Seq(Frames)] /\ conn[c].pc = "open" /\ Finish(c)
    BY <1>4, ArrivedFacts DEF PyInv, BadLength, Arrived
  <2> QED BY <2>1, FinishStep
<1>5. CASE Eof(c)
  <2>1. stream' \in [Clients -> Seq(Frames)] /\ conn[c].pc = "open" /\ Finish(c)
    BY <1>5 DEF PyInv, Types, Eof
  <2> QED BY <2>1, FinishStep
<1> QED BY <1>1, <1>2, <1>3, <1>4, <1>5 DEF Handle

(* What clients do leaves the rooms alone.                                 *)
LEMMA ClientStep ==
    ASSUME PyInv, NEW c \in Clients, Send(c) \/ Leave(c) \/ \E p \in Procs : Accept(c, p)
    PROVE  PyInv'
<1>1. UNCHANGED <<next_pid, room, held, spent, got>>
  BY DEF Send, Leave, Accept
<1>2. /\ stream \in [Clients -> Seq(Frames)] /\ conn \in [Clients -> Handler]
      /\ \A d \in Clients : conn[d].pc = "open" => conn[d].proc \in Procs
      /\ sent \in [Clients -> Nat] /\ \A d \in Clients : sent[d] <= MaxFrames[d]
  BY DEF PyInv, Types
<1>3. Types'
  <2>1. CASE Send(c)
    <3>1. PICK f \in Frames : stream' = [stream EXCEPT ![c] = Append(@, f)]
      BY <2>1 DEF Send
    <3>2. stream' \in [Clients -> Seq(Frames)]
      BY <1>2, <3>1
    <3>3. sent' = [sent EXCEPT ![c] = sent[c] + 1] /\ sent[c] < MaxFrames[c] /\ UNCHANGED conn
      BY <2>1 DEF Send
    <3>4. MaxFrames[c] \in Nat /\ sent[c] \in Nat
      BY <1>2, Constants
    <3>5. sent[c] + 1 \in Nat /\ sent[c] + 1 <= MaxFrames[c]
      BY <3>3, <3>4
    <3>6. sent' \in [Clients -> Nat] /\ \A d \in Clients : sent'[d] <= MaxFrames[d]
      BY <1>2, <3>3, <3>5
    <3> QED BY <3>2, <3>3, <3>6, <1>1 DEF PyInv, Types
  <2>2. CASE Leave(c)
    <3>1. stream' = stream \/ stream' = [stream EXCEPT ![c] = <<>>]
      BY <2>2 DEF Leave
    <3>2. stream' \in [Clients -> Seq(Frames)]
      <4>1. <<>> \in Seq(Frames)
        OBVIOUS
      <4> QED BY <1>2, <3>1, <4>1
    <3>3. conn' = [conn EXCEPT ![c].eof = TRUE] /\ UNCHANGED sent
      BY <2>2 DEF Leave
    <3>4. [conn[c] EXCEPT !.eof = TRUE] \in Handler
      BY <1>2 DEF Handler
    <3>5. conn' \in [Clients -> Handler]
      BY <1>2, <3>3, <3>4
    <3>6. \A d \in Clients : conn'[d].pc = conn[d].pc /\ conn'[d].proc = conn[d].proc
      BY <1>2, <3>3 DEF Handler
    <3> QED BY <3>2, <3>3, <3>5, <3>6, <1>1 DEF PyInv, Types
  <2>3. CASE \E p \in Procs : Accept(c, p)
    <3>1. PICK p \in Procs : Accept(c, p)
      BY <2>3
    <3>2. conn' = [conn EXCEPT ![c].pc = "open", ![c].proc = p] /\ UNCHANGED <<sent, stream>>
      BY <3>1 DEF Accept
    <3> DEFINE y == [conn[c] EXCEPT !.pc = "open", !.proc = p]
    <3>3. y \in Handler /\ y.proc = p
      BY <1>2 DEF Handler
    <3>4. conn' = [conn EXCEPT ![c] = y]
      BY <1>2, <3>2
    <3> HIDE DEF y
    <3>5. conn' \in [Clients -> Handler]
      BY <1>2, <3>3, <3>4
    <3>6. \A d \in Clients : conn'[d].pc = "open" => conn'[d].proc \in Procs
      BY <1>2, <3>3, <3>4
    <3> QED BY <3>2, <3>5, <3>6, <1>1 DEF PyInv, Types
  <2> QED BY <2>1, <2>2, <2>3
<1> QED BY <1>1, <1>3, HandlerKept DEF SameClock

(* A room whose clock is set.                                              *)
Clock(rm, st, pl, o, d) == [rm EXCEPT !.players = pl, !.st = st, !.owed = o, !.due = d]

LEMMA Clocked ==
    ASSUME NEW rm \in RoomRec, NEW st \in {"none", "fresh", "up", "dead"},
           NEW pl \in PidMap(Player), NEW o \in Int, NEW d \in Int
    PROVE  /\ Clock(rm, st, pl, o, d) \in RoomRec
           /\ Clock(rm, st, pl, o, d).st = st /\ Clock(rm, st, pl, o, d).due = d
           /\ Clock(rm, st, pl, o, d).owed = o /\ Clock(rm, st, pl, o, d).conns = rm.conns
BY DEF RoomRec, Clock

(* Only room r of process p and its hold on the loop change.               *)
OneRoom(p, r) ==
    /\ \A q \in Procs, s \in Rooms : q # p \/ s # r => room'[q][s] = room[q][s]
    /\ \A q \in Procs : q # p => held'[q] = held[q]
    /\ \A s \in Rooms : s # r => /\ held[p] # <<s, "pace">> /\ held'[p] # <<s, "pace">>
                                 /\ held'[p] # <<s, "step">>

LEMMA PacingOne ==
    ASSUME PyInv, NEW p \in Procs, NEW r \in Rooms, OneRoom(p, r), Paced(room'[p][r], held'[p], r)
    PROVE  Pacing'
<1> SUFFICES ASSUME NEW q \in Procs, NEW s \in Rooms PROVE Paced(room'[q][s], held'[q], s)
  BY DEF Pacing
<1>1. Paced(room[q][s], held[q], s)
  BY DEF PyInv, Pacing
<1>2. CASE q # p
  BY <1>1, <1>2 DEF OneRoom
<1>3. CASE q = p /\ s # r
  BY <1>1, <1>3 DEF OneRoom, Paced
<1>4. CASE q = p /\ s = r
  BY <1>4
<1> QED BY <1>2, <1>3, <1>4

(* Time takes from due what it adds to owed.                               *)
LEMMA ElapseStep ==
    ASSUME PyInv, Elapse
    PROVE  PyInv'
<1>1. room \in [Procs -> [Rooms -> RoomRec]] /\ spent \in [Procs -> 0 .. StepCost]
  BY DEF PyInv, Types
<1>2. UNCHANGED <<conn, stream, sent, next_pid, held, got>>
  BY DEF Elapse
<1>3. ASSUME NEW p \in Procs, NEW r \in Rooms
      PROVE  /\ room'[p][r] \in RoomRec /\ Paced(room'[p][r], held'[p], r)
             /\ room'[p][r].conns = room[p][r].conns
  <2>1. /\ room'[p][r] = IF room[p][r].st = "up"
                         THEN [room[p][r] EXCEPT !.due = @ - 1, !.owed = @ + 1] ELSE room[p][r]
        /\ room[p][r].st = "up" => room[p][r].due > -MaxLate
    BY DEF Elapse
  <2>2. room[p][r] \in RoomRec /\ Paced(room[p][r], held[p], r)
    BY <1>1 DEF PyInv, Pacing
  <2>3. CASE room[p][r].st # "up"
    BY <2>1, <2>2, <2>3, <1>2
  <2>4. CASE room[p][r].st = "up"
    <3> DEFINE rm == room[p][r]
               x == room'[p][r]
    <3>1. rm.due \in Int /\ rm.owed \in Int /\ rm.players \in PidMap(Player)
      BY <2>2 DEF RoomRec
    <3>2. x = Clock(rm, "up", rm.players, rm.owed + 1, rm.due - 1)
      BY <2>1, <2>2, <2>4 DEF RoomRec, Clock
    <3>3. rm.owed + 1 \in Int /\ rm.due - 1 \in Int
      BY <3>1
    <3>4. x \in RoomRec /\ x.st = "up" /\ x.due = rm.due - 1 /\ x.owed = rm.owed + 1 /\ x.conns = rm.conns
      BY <2>2, <3>1, <3>2, <3>3, Clocked
    <3>5. rm.st = "up" /\ Paced(rm, held[p], r) /\ rm.due > -MaxLate /\ held'[p] = held[p]
      BY <2>1, <2>2, <2>4, <1>2
    <3> HIDE DEF x, rm
    <3>6. Tick \in Nat /\ MaxLate \in Nat
      BY Constants
    <3>7. Paced(x, held'[p], r)
      BY <3>1, <3>4, <3>5, <3>6 DEF Paced
    <3> QED BY <3>4, <3>7 DEF x, rm
  <2> QED BY <2>3, <2>4
<1>4. room' \in [Procs -> [Rooms -> RoomRec]]
  <2>1. room' = [p \in Procs |-> [r \in Rooms |-> room'[p][r]]]
    BY DEF Elapse
  <2> QED BY <2>1, <1>3
<1>5. spent' \in [Procs -> 0 .. StepCost]
  <2>1. ASSUME NEW p \in Procs PROVE (IF held[p] = None THEN 0 ELSE spent[p] + 1) \in 0 .. StepCost
    <3>1. StepCost \in Nat /\ spent[p] \in 0 .. StepCost /\ (held[p] # None => spent[p] < StepCost)
      BY <1>1, Constants DEF Elapse
    <3> QED BY <3>1
  <2> QED BY <2>1 DEF Elapse
<1>6. Types'
  BY <1>2, <1>4, <1>5 DEF PyInv, Types
<1>7. Pacing'
  BY <1>3 DEF Pacing
<1>8. Told' /\ JoinedFirst'
  BY <1>2, <1>3 DEF PyInv, Told, JoinedFirst
<1> QED BY <1>6, <1>7, <1>8 DEF PyInv

(* One room and the loop change, nobody is taken in and nothing is sent.   *)
LEMMA TaskKept ==
    ASSUME PyInv, NEW p \in Procs, NEW r \in Rooms, NEW x \in RoomRec,
           x.conns = room[p][r].conns, room' = [room EXCEPT ![p][r] = x]
    PROVE  /\ room' \in [Procs -> [Rooms -> RoomRec]]
           /\ \A q \in Procs, s \in Rooms : room'[q][s] = IF q = p /\ s = r THEN x ELSE room[q][s]
           /\ \A q \in Procs, s \in Rooms : room'[q][s].conns = room[q][s].conns
<1>1. room \in [Procs -> [Rooms -> RoomRec]]
  BY DEF PyInv, Types
<1>2. /\ room' \in [Procs -> [Rooms -> RoomRec]]
      /\ \A q \in Procs, s \in Rooms : room'[q][s] = IF q = p /\ s = r THEN x ELSE room[q][s]
  BY <1>1
<1> QED BY <1>2

LEMMA BeginStep ==
    ASSUME PyInv, NEW p \in Procs, NEW r \in Rooms, Begin(p, r)
    PROVE  PyInv'
<1> DEFINE rm == room[p][r]
           x == [rm EXCEPT !.st = "up", !.due = Tick]
<1>1. room \in [Procs -> [Rooms -> RoomRec]] /\ rm \in RoomRec /\ Paced(rm, held[p], r)
  BY DEF PyInv, Types, Pacing
<1>2. /\ UNCHANGED <<conn, stream, sent, next_pid, held, spent, got>>
      /\ held[p] = None /\ rm.st = "fresh" /\ room' = [room EXCEPT ![p][r] = x]
  BY <1>1 DEF Begin
<1>3. rm.owed = 0 /\ rm.players \in PidMap(Player)
  BY <1>1, <1>2 DEF Paced, RoomRec
<1>4. Tick \in Nat /\ MaxLate \in Nat /\ None # <<r, "pace">> /\ None # <<r, "step">>
  BY Constants
<1>5. x = Clock(rm, "up", rm.players, 0, Tick)
  BY <1>1, <1>3 DEF RoomRec, Clock
<1> HIDE DEF x
<1>6. x \in RoomRec /\ x.st = "up" /\ x.due = Tick /\ x.owed = 0 /\ x.conns = rm.conns
  BY <1>1, <1>3, <1>4, <1>5, Clocked
<1>7. Paced(x, held'[p], r)
  BY <1>2, <1>4, <1>6 DEF Paced
<1>8. /\ room' \in [Procs -> [Rooms -> RoomRec]]
      /\ \A q \in Procs, s \in Rooms : room'[q][s] = IF q = p /\ s = r THEN x ELSE room[q][s]
      /\ \A q \in Procs, s \in Rooms : room'[q][s].conns = room[q][s].conns
  BY <1>2, <1>6, TaskKept
<1>9. Types'
  BY <1>2, <1>8 DEF PyInv, Types
<1>10. Pacing'
  <2>1. OneRoom(p, r)
    BY <1>2, <1>8, Constants DEF OneRoom
  <2>2. Paced(room'[p][r], held'[p], r)
    BY <1>7, <1>8
  <2> QED BY <2>1, <2>2, PacingOne
<1>11. Told' /\ JoinedFirst'
  BY <1>2, <1>8 DEF PyInv, Told, JoinedFirst
<1> QED BY <1>9, <1>10, <1>11 DEF PyInv

LEMMA PaceStep ==
    ASSUME PyInv, NEW p \in Procs, NEW r \in Rooms, Pace(p, r)
    PROVE  PyInv'
<1> DEFINE rm == room[p][r]
           x == [rm EXCEPT !.due = @ + Tick]
           h == IF rm.due + Tick > 0 THEN None ELSE <<r, "step">>
<1>1. /\ room \in [Procs -> [Rooms -> RoomRec]] /\ rm \in RoomRec /\ Paced(rm, held[p], r)
      /\ held \in [Procs -> {None} \cup (Rooms \X {"step", "pace"})]
      /\ spent \in [Procs -> 0 .. StepCost]
  BY DEF PyInv, Types, Pacing
<1>2. /\ UNCHANGED <<conn, stream, sent, next_pid, got>> /\ room' = [room EXCEPT ![p][r] = x]
      /\ held[p] = <<r, "pace">> /\ held' = [held EXCEPT ![p] = h]
      /\ spent' = [spent EXCEPT ![p] = IF held'[p] = None THEN 0 ELSE spent[p]]
  BY <1>1 DEF Pace
<1>3. rm.due \in Int /\ rm.owed \in Int /\ rm.players \in PidMap(Player) /\ rm.st = "up" /\ rm.due <= 0
  BY <1>1, <1>2 DEF Paced, RoomRec
<1>4. Tick \in Nat /\ MaxLate \in Nat /\ StepCost \in Nat /\ None # <<r, "pace">> /\ None # <<r, "step">>
  BY Constants
<1>5. x = Clock(rm, "up", rm.players, rm.owed, rm.due + Tick)
  BY <1>1, <1>3 DEF RoomRec, Clock
<1> HIDE DEF x, rm
<1>6. x \in RoomRec /\ x.st = "up" /\ x.due = rm.due + Tick /\ x.owed = rm.owed /\ x.conns = rm.conns
  <2>1. rm.due + Tick \in Int
    BY <1>3, <1>4
  <2> QED BY <1>1, <1>3, <1>5, <2>1, Clocked
<1>7. /\ held' \in [Procs -> {None} \cup (Rooms \X {"step", "pace"})] /\ held'[p] = h
      /\ \A q \in Procs : q # p => held'[q] = held[q]
  BY <1>1, <1>2
<1>8. Paced(x, held'[p], r)
  <2>1. rm.due + rm.owed = 0 /\ -MaxLate <= rm.due
    BY <1>1, <1>2, <1>3 DEF Paced
  <2>2. /\ -MaxLate <= x.due /\ x.due <= Tick /\ x.due + x.owed = Tick
        /\ rm.due + Tick <= 0 => x.due <= 0
    BY <2>1, <1>3, <1>4, <1>6
  <2>3. held'[p] # <<r, "pace">> /\ (held'[p] = <<r, "step">> => rm.due + Tick <= 0)
    BY <1>3, <1>4, <1>7
  <2> QED BY <2>2, <2>3, <1>6 DEF Paced
<1>9. /\ room' \in [Procs -> [Rooms -> RoomRec]]
      /\ \A q \in Procs, s \in Rooms : room'[q][s] = IF q = p /\ s = r THEN x ELSE room[q][s]
      /\ \A q \in Procs, s \in Rooms : room'[q][s].conns = room[q][s].conns
  BY <1>2, <1>6, TaskKept DEF rm
<1>10. spent' \in [Procs -> 0 .. StepCost]
  <2>1. spent[p] \in 0 .. StepCost /\ 0 \in 0 .. StepCost
    BY <1>1, <1>4
  <2> QED BY <1>1, <1>2, <2>1
<1>11. Types'
  BY <1>2, <1>7, <1>9, <1>10 DEF PyInv, Types
<1>12. Pacing'
  <2>1. \A s \in Rooms : s # r => /\ held[p] # <<s, "pace">> /\ held'[p] # <<s, "pace">>
                                  /\ held'[p] # <<s, "step">>
    BY <1>2, <1>7, Constants
  <2>2. OneRoom(p, r)
    BY <2>1, <1>7, <1>9 DEF OneRoom
  <2>3. Paced(room'[p][r], held'[p], r)
    BY <1>8, <1>9
  <2> QED BY <2>2, <2>3, PacingOne
<1>13. Told' /\ JoinedFirst'
  BY <1>2, <1>9 DEF PyInv, Told, JoinedFirst
<1> QED BY <1>11, <1>12, <1>13 DEF PyInv

(* A snapshot goes only to those who are in the room, and counts as a tick.*)
LEMMA SnapshotStep ==
    ASSUME PyInv, NEW p \in Procs, NEW r \in Rooms, Step(p, r)
    PROVE  PyInv'
<1> DEFINE rm == room[p][r]
           pl == Moved(rm.players)
           up == ~Overflows(pl)
           st == IF up THEN "up" ELSE "dead"
           o == IF up THEN rm.owed - Tick ELSE 0
           d == IF up THEN rm.due ELSE 0
           x == Clock(rm, st, pl, o, d)
           h == IF up THEN <<r, "pace">> ELSE None
<1>1. /\ room \in [Procs -> [Rooms -> RoomRec]] /\ rm \in RoomRec /\ Paced(rm, held[p], r)
      /\ held \in [Procs -> {None} \cup (Rooms \X {"step", "pace"})]
      /\ spent \in [Procs -> 0 .. StepCost]
  BY DEF PyInv, Types, Pacing
<1>2. pl \in PidMap(Player)
  <2>1. PICK D \in SUBSET Pids : rm.players \in [D -> Player]
    BY <1>1 DEF RoomRec, PidMap
  <2>2. pl \in [D -> Player]
    BY <2>1 DEF Moved, Player
  <2> QED BY <2>2 DEF PidMap
<1>3. /\ rm.st = "up"
      /\ (held[p] = None /\ rm.due <= 0) \/ held[p] = <<r, "step">>
      /\ room' = [room EXCEPT ![p][r].players = pl,
                              ![p][r].st = st,
                              ![p][r].owed = IF up THEN @ - Tick ELSE 0,
                              ![p][r].due = IF up THEN @ ELSE 0]
      /\ got' = IF up THEN Written(p, r) ELSE got
      /\ held' = [held EXCEPT ![p] = h]
      /\ spent' = [spent EXCEPT ![p] = 0]
      /\ UNCHANGED <<conn, stream, sent, next_pid>>
  BY DEF Step
<1> HIDE DEF pl, up
<1>4. room' = [room EXCEPT ![p][r] = x]
  BY ZenonT(60), <1>1, <1>3 DEF Clock
<1>5. Tick \in Nat /\ MaxLate \in Nat /\ StepCost \in Nat /\ None # <<r, "pace">> /\ None # <<r, "step">>
  BY Constants
<1>6. rm.due \in Int /\ rm.owed \in Int
  BY <1>1 DEF RoomRec
<1> HIDE DEF rm
<1>7. st \in {"none", "fresh", "up", "dead"} /\ o \in Int /\ d \in Int
  BY <1>5, <1>6
<1> HIDE DEF st, o, d
<1>8. x \in RoomRec /\ x.conns = rm.conns /\ x.st = st /\ x.due = d /\ x.owed = o
  BY <1>1, <1>2, <1>7, Clocked
<1> HIDE DEF x
<1>9. /\ room' \in [Procs -> [Rooms -> RoomRec]]
      /\ \A q \in Procs, s \in Rooms : room'[q][s] = IF q = p /\ s = r THEN x ELSE room[q][s]
      /\ \A q \in Procs, s \in Rooms : room'[q][s].conns = room[q][s].conns
  BY <1>4, <1>8, TaskKept DEF rm
<1>10. /\ held' \in [Procs -> {None} \cup (Rooms \X {"step", "pace"})] /\ held'[p] = h
       /\ \A q \in Procs : q # p => held'[q] = held[q]
  BY <1>1, <1>3
<1>11. /\ got' \in [Clients -> Heard]
       /\ \A c \in Clients :
            /\ got'[c].joined = got[c].joined
            /\ \/ got'[c].snaps = got[c].snaps
               \/ /\ got'[c].snaps = got[c].snaps \cup {r}
                  /\ \E i \in DOMAIN room[p][r].conns : room[p][r].conns[i] = c
  BY <1>3 DEF PyInv, Types, Written, Heard
<1>12. Types'
  <2>1. spent' \in [Procs -> 0 .. StepCost]
    BY <1>1, <1>3, <1>5
  <2> QED BY <2>1, <1>3, <1>9, <1>10, <1>11 DEF PyInv, Types
<1>13. Pacing'
  <2>1. rm.due <= 0 /\ rm.due + rm.owed = Tick /\ -MaxLate <= rm.due
    <3>1. held[p] # <<r, "pace">>
      <4>1. held[p] = None \/ held[p] = <<r, "step">>
        BY <1>3
      <4>2. <<r, "step">> # <<r, "pace">>
        OBVIOUS
      <4> QED BY <4>1, <4>2, <1>5
    <3> QED BY <3>1, <1>1, <1>3 DEF Paced
  <2>2. ASSUME up PROVE Paced(x, held'[p], r)
    <3>1. x.st = "up" /\ x.due = rm.due /\ x.owed = rm.owed - Tick /\ held'[p] = <<r, "pace">>
      BY <2>2, <1>8, <1>10 DEF st, o, d
    <3>2. -MaxLate <= x.due /\ x.due <= Tick /\ x.due + x.owed = 0 /\ x.due <= 0
      BY <2>1, <3>1, <1>5, <1>6
    <3> QED BY <3>1, <3>2 DEF Paced
  <2>3. ASSUME ~up PROVE Paced(x, held'[p], r)
    <3>1. x.st = "dead" /\ x.due = 0 /\ x.owed = 0 /\ held'[p] = None
      BY <2>3, <1>8, <1>10 DEF st, o, d
    <3> QED BY <3>1, <1>5 DEF Paced
  <2>4. \A s \in Rooms : s # r => /\ held[p] # <<s, "pace">> /\ held'[p] # <<s, "pace">>
                                  /\ held'[p] # <<s, "step">>
    BY <1>3, <1>10, Constants
  <2>5. OneRoom(p, r)
    BY <2>4, <1>9, <1>10 DEF OneRoom
  <2>6. Paced(room'[p][r], held'[p], r)
    BY <2>2, <2>3, <1>9
  <2> QED BY <2>5, <2>6, PacingOne
<1>14. \A q \in Procs, s \in Rooms : \A i \in DOMAIN room[q][s].conns : room[q][s].conns[i] \in Clients
  BY <1>1 DEF RoomRec, PidMap
<1>15. Told'
  <2> SUFFICES ASSUME NEW q \in Procs, NEW s \in Rooms, NEW i \in DOMAIN room'[q][s].conns
               PROVE  s \in got'[room'[q][s].conns[i]].joined
    BY DEF Told
  <2>1. i \in DOMAIN room[q][s].conns /\ room'[q][s].conns[i] = room[q][s].conns[i]
    BY <1>9
  <2>2. room[q][s].conns[i] \in Clients /\ s \in got[room[q][s].conns[i]].joined
    BY <2>1, <1>14 DEF PyInv, Told
  <2> QED BY <2>1, <2>2, <1>11
<1>16. JoinedFirst'
  BY <1>11 DEF PyInv, Told, JoinedFirst
<1> QED BY <1>12, <1>13, <1>15, <1>16 DEF PyInv

LEMMA PyStep == PyInv /\ [Next]_vars => PyInv'
<1> SUFFICES ASSUME PyInv, [Next]_vars PROVE PyInv'
  OBVIOUS
<1>1. CASE Elapse
  BY <1>1, ElapseStep
<1>2. CASE \E c \in Clients : Send(c) \/ Leave(c) \/ Handle(c) \/ \E p \in Procs : Accept(c, p)
  BY <1>2, ClientStep, HandleStep
<1>3. CASE \E p \in Procs, r \in Rooms : Task(p, r)
  BY <1>3, BeginStep, PaceStep, SnapshotStep DEF Task
<1>4. CASE UNCHANGED vars
  BY <1>4 DEF vars, PyInv, Types, Pacing, Told, JoinedFirst
<1> QED BY <1>1, <1>2, <1>3, <1>4 DEF Next

LEMMA PyAlways == Spec => []PyInv
<1>1. Init => PyInv
  BY PyInit
<1>2. PyInv /\ [Next]_vars => PyInv'
  BY PyStep
<1> QED BY <1>1, <1>2, PTL DEF Spec

\* Handlers, rooms and loops keep their types for any number of processes, clients,
\* rooms and frames (server.py:43-58, 118-150).
THEOREM PythonTypes == Spec => []TypeOK
<1>1. PyInv => TypeOK
  <2> SUFFICES ASSUME PyInv PROVE TypeOK
    OBVIOUS
  <2>1. \A p \in Procs, r \in Rooms :
          /\ room[p][r].st \in {"none", "fresh", "up", "dead"}
          /\ DOMAIN room[p][r].players \subseteq Pids
    BY DEF PyInv, Types, RoomRec, PidMap
  <2>2. \A c \in Clients : sent[c] \in 0 .. MaxFrames[c]
    BY Constants DEF PyInv, Types
  <2>3. \A p \in Procs, r \in Rooms : room[p][r].due \in -MaxLate .. Tick
    <3> SUFFICES ASSUME NEW p \in Procs, NEW r \in Rooms PROVE room[p][r].due \in -MaxLate .. Tick
      OBVIOUS
    <3>1. room[p][r] \in RoomRec /\ Paced(room[p][r], held[p], r)
      BY DEF PyInv, Types, Pacing
    <3>2. room[p][r].due \in Int /\ -MaxLate <= room[p][r].due /\ room[p][r].due <= Tick
      BY <3>1 DEF RoomRec, Paced
    <3> QED BY <3>2, Constants
  <2> QED BY <2>1, <2>2, <2>3 DEF PyInv, Types, TypeOK, Handler
<1> QED BY <1>1, PyAlways, PTL

\* Room.run (server.py:75-83) neither drifts nor skips: whatever the delays of the loop,
\* the snapshots of a room cover exactly the time since its task began.
THEOREM NoDrift == Spec => []PaceExact
<1>1. PyInv => PaceExact
  BY DEF PyInv, Pacing, Paced, PaceExact
<1> QED BY <1>1, PyAlways, PTL

\* No client gets a snapshot of a room before the JOINED for it (server.py:132-137),
\* however handlers and room tasks interleave on the loop.
THEOREM JoinedBeforeSnapshots == Spec => []JoinedFirst
<1>1. PyInv => JoinedFirst
  BY DEF PyInv
<1> QED BY <1>1, PyAlways, PTL

-----------------------------------------------------------------------------

\* The JOINs that have been handled.  Every one has taken a player id, and every one
\* was a frame, so that no id is given twice before they are all used.
Joins == {f \in Sendable : f[2] <= conn[f[1]].joins}

Budget == \A c \in Clients : conn[c].joins + Len(stream[c]) <= sent[c]
Issued == \A p \in Procs : next_pid[p] <= Cardinality(Joins)

\* The ids in the tables are among those that have been given.
Given == \A p \in Procs, r \in Rooms :
            /\ DOMAIN room[p][r].players = DOMAIN room[p][r].conns
            /\ \A i \in DOMAIN room[p][r].conns : 1 <= i /\ i <= next_pid[p]

\* room and my_pid of a handler: what the last JOIN entered is there until the end.
Own(c) ==
    /\ conn[c].pc = "new" => conn[c].joins = 0
    /\ conn[c].joins = 0 => conn[c].room = None
    /\ conn[c].joins > 0 => conn[c].room \in Rooms /\ conn[c].pid # 0
    /\ conn[c].joins > 0 /\ conn[c].pc = "open" =>
         /\ conn[c].pid \in DOMAIN room[conn[c].proc][conn[c].room].conns
         /\ room[conn[c].proc][conn[c].room].conns[conn[c].pid] = c

Owns == \A c \in Clients : Own(c)

Count(c) == conn[c].joins - (IF conn[c].pc = "closed" /\ conn[c].joins > 0 THEN 1 ELSE 0)
Counted == \A c \in Clients : IsFiniteSet(Memberships(c)) /\ Cardinality(Memberships(c)) = Count(c)

MemberInv == Budget /\ Issued /\ Given /\ Owns /\ Counted

LEMMA MemberInit == Init => MemberInv
<1> SUFFICES ASSUME Init PROVE MemberInv
  OBVIOUS
<1>1. \A c \in Clients : /\ conn[c].pc = "new" /\ conn[c].room = None /\ conn[c].joins = 0
                         /\ stream[c] = <<>> /\ sent[c] = 0
  BY DEF Init
<1>2. \A p \in Procs, r \in Rooms : room[p][r] = NoRoom /\ next_pid[p] = 0
  BY DEF Init
<1>3. DOMAIN NoRoom.players = {} /\ DOMAIN NoRoom.conns = {}
  BY EmptyMap DEF NoRoom
<1>4. Budget
  BY <1>1 DEF Budget
<1>5. Issued
  <2>1. Joins = {}
    <3>1. \A f \in Sendable : f[1] \in Clients /\ f[2] \in 1 .. MaxFrames[f[1]]
      BY DEF Sendable
    <3> QED BY <1>1, <3>1, Constants DEF Joins
  <2>2. Cardinality(Joins) = 0
    BY <2>1, FS_EmptySet
  <2>3. \A p \in Procs : next_pid[p] = 0
    BY DEF Init
  <2> QED BY <2>2, <2>3 DEF Issued
<1>6. Given /\ Owns
  <2>1. Given
    BY <1>2, <1>3 DEF Given
  <2>2. Owns
    BY <1>1 DEF Owns, Own
  <2> QED BY <2>1, <2>2
<1>7. \A c \in Clients : Memberships(c) = {}
  BY <1>2, <1>3 DEF Memberships
<1>8. Counted
  <2>1. \A c \in Clients : Count(c) = 0
    BY <1>1 DEF Count
  <2>2. \A c \in Clients : IsFiniteSet(Memberships(c)) /\ Cardinality(Memberships(c)) = 0
    BY <1>7, FS_EmptySet
  <2> QED BY <2>1, <2>2 DEF Counted
<1> QED BY <1>4, <1>5, <1>6, <1>8 DEF MemberInv

\* A handler goes on with the membership it has, if any.
SameMember(c) ==
    /\ conn'[c].joins = conn[c].joins /\ conn'[c].room = conn[c].room /\ conn'[c].pid = conn[c].pid
    /\ conn'[c].pc = "closed" <=> conn[c].pc = "closed"
    /\ conn'[c].pc = "new" => conn[c].pc = "new"
    /\ conn'[c].pc = "open" => \/ conn[c].pc = "new"
                               \/ conn[c].pc = "open" /\ conn'[c].proc = conn[c].proc

\* The same ids and the same connections in every room.
SameTables ==
    \A p \in Procs, r \in Rooms : /\ room'[p][r].conns = room[p][r].conns
                                  /\ DOMAIN room'[p][r].players = DOMAIN room[p][r].players

(* Steps that neither take anybody in nor let anybody out.                 *)
LEMMA MembersKept ==
    ASSUME Types, MemberInv, SameTables, UNCHANGED next_pid, Budget',
           \A c \in Clients : SameMember(c)
    PROVE  MemberInv'
<1>1. Joins' = Joins
  BY DEF Joins, Sendable, SameMember
<1>2. Issued' /\ Given'
  BY <1>1 DEF MemberInv, Issued, Given, SameTables
<1>3. Owns'
  <2> SUFFICES ASSUME NEW c \in Clients PROVE Own(c)'
    BY DEF Owns
  <2>1. Own(c) /\ SameMember(c) /\ (conn[c].pc = "open" => conn[c].proc \in Procs)
    BY DEF MemberInv, Owns, Types
  <2> QED BY <2>1 DEF Own, SameMember, SameTables
<1>4. \A c \in Clients : Memberships(c)' = Memberships(c) /\ Count(c)' = Count(c)
  BY DEF Memberships, SameTables, Count, SameMember
<1>5. Counted'
  BY <1>4 DEF MemberInv, Counted
<1> QED BY <1>2, <1>3, <1>5 DEF MemberInv

(* The tables after Room.join, Room.move, Room.leave and a step.           *)
LEMMA JoinTables ==
    ASSUME NEW rm \in RoomRec, NEW i, NEW c
    PROVE  /\ DOMAIN join(rm, i, c).players = DOMAIN rm.players \cup {i}
           /\ DOMAIN join(rm, i, c).conns = DOMAIN rm.conns \cup {i}
           /\ join(rm, i, c).conns[i] = c
           /\ \A j \in DOMAIN rm.conns : j # i => join(rm, i, c).conns[j] = rm.conns[j]
<1>1. /\ join(rm, i, c).players = With(rm.players, i, [x |-> 0, vx |-> 0])
      /\ join(rm, i, c).conns = With(rm.conns, i, c)
  BY DEF join, RoomRec
<1> QED BY <1>1 DEF With

LEMMA LeaveTables ==
    ASSUME NEW rm \in RoomRec, NEW i
    PROVE  /\ DOMAIN leave(rm, i).players = DOMAIN rm.players \ {i}
           /\ DOMAIN leave(rm, i).conns = DOMAIN rm.conns \ {i}
           /\ \A j \in DOMAIN rm.conns : j # i => leave(rm, i).conns[j] = rm.conns[j]
<1>1. leave(rm, i).players = Without(rm.players, i) /\ leave(rm, i).conns = Without(rm.conns, i)
  BY DEF leave, RoomRec
<1> QED BY <1>1 DEF Without

LEMMA MoveTables ==
    ASSUME NEW rm \in RoomRec, NEW i, NEW dx
    PROVE  DOMAIN move(rm, i, dx).players = DOMAIN rm.players /\ move(rm, i, dx).conns = rm.conns
<1>1. CASE i \in DOMAIN rm.players
  <2>1. /\ move(rm, i, dx).players = With(rm.players, i, [x |-> rm.players[i].x, vx |-> dx])
        /\ move(rm, i, dx).conns = rm.conns
    BY <1>1 DEF move, RoomRec
  <2> QED BY <1>1, <2>1 DEF With
<1>2. CASE i \notin DOMAIN rm.players
  BY <1>2 DEF move
<1> QED BY <1>1, <1>2

(* A frame that is read leaves the stream.                                 *)
LEMMA ReadBudget ==
    ASSUME Types, Budget, NEW c \in Clients, NEW t, Arrived(c, t)
    PROVE  /\ \A d \in Clients : stream'[d] = IF d = c THEN Tail(stream[c]) ELSE stream[d]
           /\ Len(stream[c]) \in Nat /\ Len(stream[c]) >= 1 /\ Len(stream'[c]) = Len(stream[c]) - 1
           /\ \A d \in Clients : Len(stream'[d]) <= Len(stream[d])
           /\ \A d \in Clients : Len(stream'[d]) \in Nat
<1>1. \A d \in Clients : stream'[d] = IF d = c THEN Tail(stream[c]) ELSE stream[d]
  BY DEF Types, Arrived
<1>2. stream[c] \in Seq(Frames) /\ stream[c] # <<>>
  BY DEF Types, Arrived
<1>3. Len(stream[c]) \in Nat /\ Len(stream[c]) >= 1 /\ Len(Tail(stream[c])) = Len(stream[c]) - 1
  BY <1>2, HeadTailProperties, LenProperties
<1>4. \A d \in Clients : Len(stream[d]) \in Nat
  BY LenProperties DEF Types
<1>5. ASSUME NEW d \in Clients
      PROVE  Len(stream'[d]) \in Nat /\ Len(stream'[d]) <= Len(stream[d])
  <2>1. CASE d = c
    <3>1. stream'[d] = Tail(stream[c]) /\ stream[d] = stream[c]
      BY <1>1, <2>1
    <3> QED BY <1>3, <3>1
  <2>2. CASE d # c
    <3>1. stream'[d] = stream[d]
      BY <1>1, <2>2
    <3> QED BY <1>4, <3>1
  <2> QED BY <2>1, <2>2
<1>6. Len(stream'[c]) = Len(stream[c]) - 1
  BY <1>1, <1>3
<1> QED BY <1>1, <1>3, <1>5, <1>6

(* A step of a handler that reads a frame and is no JOIN stays in budget.  *)
LEMMA BudgetKept ==
    ASSUME Types, Budget, UNCHANGED sent, \A c \in Clients : conn'[c].joins = conn[c].joins,
           \A c \in Clients : Len(stream'[c]) \in Nat /\ Len(stream'[c]) <= Len(stream[c])
    PROVE  Budget'
<1> SUFFICES ASSUME NEW c \in Clients PROVE conn'[c].joins + Len(stream'[c]) <= sent'[c]
  BY DEF Budget
<1>1. conn[c].joins \in Nat /\ sent[c] \in Nat /\ Len(stream[c]) \in Nat
  BY LenProperties DEF Types, Handler
<1>2. conn[c].joins + Len(stream[c]) <= sent[c]
  BY DEF Budget
<1> QED BY <1>1, <1>2

(* The number of JOINs handled is the number of ids given, and there are   *)
(* more ids than frames.                                                   *)
LEMMA JoinsBound ==
    /\ \A D \in SUBSET Sendable : IsFiniteSet(D) /\ Cardinality(D) \in Nat /\ Cardinality(D) < PidMod
<1>1. IsFiniteSet(Sendable) /\ Cardinality(Sendable) \in Nat /\ Cardinality(Sendable) < PidMod /\ PidMod \in Nat
  BY PythonAssumption, FS_CardinalityType
<1> SUFFICES ASSUME NEW D \in SUBSET Sendable
             PROVE  IsFiniteSet(D) /\ Cardinality(D) \in Nat /\ Cardinality(D) < PidMod
  OBVIOUS
<1>2. IsFiniteSet(D) /\ Cardinality(D) <= Cardinality(Sendable)
  BY <1>1, FS_Subset
<1>3. Cardinality(D) \in Nat
  BY <1>2, FS_CardinalityType
<1> QED BY <1>1, <1>2, <1>3

LEMMA IdsNat == ASSUME NEW rm \in RoomRec PROVE \A j \in DOMAIN rm.conns : j \in Nat
<1>1. PICK D \in SUBSET Pids : rm.conns \in [D -> Clients]
  BY DEF RoomRec, PidMap
<1> QED BY <1>1, Constants DEF Pids

\* Memberships in the rooms R.
MemberSet(R, c) ==
    UNION {{<<p, r, i>> : i \in {j \in DOMAIN R[p][r].conns : R[p][r].conns[j] = c}} :
             p \in Procs, r \in Rooms}

LEMMA MemberSetIs ==
    ASSUME NEW R, NEW c
    PROVE  /\ \A m \in MemberSet(R, c) : m = <<m[1], m[2], m[3]>>
           /\ \A q, s, j : <<q, s, j>> \in MemberSet(R, c) <=>
                /\ q \in Procs /\ s \in Rooms
                /\ j \in DOMAIN R[q][s].conns /\ R[q][s].conns[j] = c
<1>1. ASSUME NEW m \in MemberSet(R, c)
      PROVE  \E q \in Procs, s \in Rooms : \E j \in DOMAIN R[q][s].conns :
                m = <<q, s, j>> /\ R[q][s].conns[j] = c
  BY DEF MemberSet
<1>2. \A m \in MemberSet(R, c) : m = <<m[1], m[2], m[3]>>
  BY <1>1
<1>3. ASSUME NEW q \in Procs, NEW s \in Rooms, NEW j \in DOMAIN R[q][s].conns, R[q][s].conns[j] = c
      PROVE  <<q, s, j>> \in MemberSet(R, c)
  <2> DEFINE G(p, r) == {<<p, r, i>> : i \in {h \in DOMAIN R[p][r].conns : R[p][r].conns[h] = c}}
  <2>1. <<q, s, j>> \in G(q, s)
    BY <1>3
  <2>2. MemberSet(R, c) = UNION {G(p, r) : p \in Procs, r \in Rooms}
    BY DEF MemberSet
  <2> HIDE DEF G
  <2> QED BY <2>1, <2>2
<1>4. ASSUME NEW q, NEW s, NEW j, <<q, s, j>> \in MemberSet(R, c)
      PROVE  q \in Procs /\ s \in Rooms /\ j \in DOMAIN R[q][s].conns /\ R[q][s].conns[j] = c
  BY <1>1, <1>4
<1> QED BY <1>2, <1>3, <1>4

\* Two sets of triples are equal when they hold the same triples.
LEMMA SameTriples ==
    ASSUME NEW A, NEW B, \A m \in A : m = <<m[1], m[2], m[3]>>, \A m \in B : m = <<m[1], m[2], m[3]>>,
           \A q, s, j : <<q, s, j>> \in A <=> <<q, s, j>> \in B
    PROVE  A = B
OBVIOUS

LEMMA JoinMembers ==
    ASSUME Types, MemberInv, NEW c \in Clients, Join(c)
    PROVE  MemberInv'
<1> DEFINE p == conn[c].proc
           r == Head(stream[c]).room
           i == new_pid(p)
<1>1. /\ p \in Procs /\ Head(stream[c]) \in Frames /\ Head(stream[c]).t = "JOIN"
      /\ conn[c].pc = "open" /\ Arrived(c, "JOIN")
  BY ArrivedFacts DEF Join, Arrived
<1>2. r \in Rooms
  BY <1>1 DEF Frames
<1>3. /\ next_pid' = [next_pid EXCEPT ![p] = i]
      /\ room' = [room EXCEPT ![p][r] = join(get_room(p, r), i, c)]
      /\ conn' = [conn EXCEPT ![c].room = r, ![c].pid = i, ![c].joins = @ + 1]
      /\ UNCHANGED <<sent, held, spent>> /\ i = (next_pid[p] + 1) % PidMod
  BY DEF Join, new_pid
<1> HIDE DEF p, r, i
<1>4. /\ room \in [Procs -> [Rooms -> RoomRec]] /\ conn \in [Clients -> Handler]
      /\ next_pid \in [Procs -> Pids] /\ sent \in [Clients -> Nat]
      /\ \A d \in Clients : sent[d] <= MaxFrames[d]
      /\ \A d \in Clients : conn[d].pc = "open" => conn[d].proc \in Procs
  BY DEF Types
<1>5. /\ \A d \in Clients : conn'[d].pc = conn[d].pc /\ conn'[d].proc = conn[d].proc
      /\ \A d \in Clients : d # c => conn'[d] = conn[d]
      /\ conn'[c].room = r /\ conn'[c].pid = i /\ conn'[c].joins = conn[c].joins + 1
      /\ \A d \in Clients : conn[d].joins \in Nat
  BY <1>3, <1>4 DEF Handler
\* The frame that is handled pays for the id.
<1>6. Budget' /\ conn[c].joins + 1 \in 1 .. MaxFrames[c]
  <2>1. /\ Len(stream[c]) \in Nat /\ Len(stream[c]) >= 1 /\ Len(stream'[c]) = Len(stream[c]) - 1
        /\ \A d \in Clients : d # c => stream'[d] = stream[d]
    BY <1>1, ReadBudget DEF MemberInv
  <2>2. conn[c].joins + Len(stream[c]) <= sent[c] /\ sent[c] \in Nat /\ conn[c].joins \in Nat
    BY <1>4, <1>5 DEF MemberInv, Budget
  <2>3. conn'[c].joins + Len(stream'[c]) <= sent'[c]
    BY <1>3, <1>5, <2>1, <2>2
  <2>4. \A d \in Clients : conn'[d].joins + Len(stream'[d]) <= sent'[d]
    BY <1>3, <1>5, <2>1, <2>3 DEF MemberInv, Budget
  <2>5. sent[c] <= MaxFrames[c] /\ MaxFrames[c] \in Nat
    BY <1>4, Constants
  <2> QED BY <2>1, <2>2, <2>4, <2>5 DEF Budget
<1> DEFINE f == <<c, conn[c].joins + 1>>
<1>7. Joins' = Joins \cup {f} /\ f \notin Joins /\ f \in Sendable
  <2>1. f \in Sendable
    BY <1>6 DEF Sendable
  <2>2. \A g \in Sendable : g[1] \in Clients /\ g[2] \in Nat /\ g = <<g[1], g[2]>>
    BY Constants DEF Sendable
  <2>3. \A g \in Sendable : g[2] <= conn'[g[1]].joins <=> g[2] <= conn[g[1]].joins \/ g = f
    BY <1>5, <2>2
  <2>4. f \notin Joins
    BY <1>5 DEF Joins
  <2> QED BY <2>1, <2>3, <2>4 DEF Joins
<1>8. Cardinality(Joins') = Cardinality(Joins) + 1 /\ Cardinality(Joins) \in Nat /\ Cardinality(Joins') < PidMod
  <2>1. Joins \in SUBSET Sendable /\ Joins' \in SUBSET Sendable
    BY <1>7 DEF Joins
  <2>2. IsFiniteSet(Joins) /\ Cardinality(Joins) \in Nat /\ Cardinality(Joins') < PidMod
    BY <2>1, JoinsBound
  <2> QED BY <1>7, <2>2, FS_AddElement
<1>9. /\ i = next_pid[p] + 1 /\ i \in Nat /\ i >= 1 /\ i <= Cardinality(Joins)'
      /\ next_pid[p] \in Nat
  <2>1. next_pid[p] \in Nat /\ next_pid[p] <= Cardinality(Joins) /\ PidMod \in Nat
    BY <1>1, <1>4, Constants DEF MemberInv, Issued, Pids
  <2>2. next_pid[p] + 1 <= Cardinality(Joins') /\ next_pid[p] + 1 < PidMod
    BY <1>8, <2>1
  <2> QED BY <1>3, <1>8, <2>1, <2>2
<1>10. \A q \in Procs : next_pid'[q] = IF q = p THEN i ELSE next_pid[q]
  BY <1>1, <1>3, <1>4
<1>11. Issued'
  <2>1. \A q \in Procs : next_pid[q] \in Nat /\ next_pid[q] <= Cardinality(Joins)
    BY <1>4, Constants DEF MemberInv, Issued, Pids
  <2>2. \A q \in Procs : next_pid[q] <= Cardinality(Joins')
    BY <1>8, <2>1
  <2> QED BY <1>9, <1>10, <2>2 DEF Issued
\* The tables.
<1> DEFINE rm == room[p][r]
           x == join(get_room(p, r), i, c)
<1>12. /\ rm \in RoomRec
       /\ DOMAIN x.players = DOMAIN rm.players \cup {i} /\ DOMAIN x.conns = DOMAIN rm.conns \cup {i}
       /\ x.conns[i] = c /\ \A j \in DOMAIN rm.conns : j # i => x.conns[j] = rm.conns[j]
  <2>1. rm \in RoomRec
    BY <1>1, <1>2, <1>4
  <2>2. /\ get_room(p, r) \in RoomRec /\ get_room(p, r).players = rm.players
        /\ get_room(p, r).conns = rm.conns
    BY <2>1 DEF get_room, RoomRec
  <2> HIDE DEF rm
  <2> QED BY <2>1, <2>2, JoinTables
<1>13. room' = [room EXCEPT ![p][r] = x]
  BY <1>3
<1> HIDE DEF x
<1>14. \A q \in Procs, s \in Rooms : room'[q][s] = IF q = p /\ s = r THEN x ELSE room[q][s]
  BY <1>1, <1>2, <1>4, <1>13
<1>15. \A j \in DOMAIN rm.conns : 1 <= j /\ j <= next_pid[p] /\ j # i /\ j \in Nat
  <2>1. \A j \in DOMAIN rm.conns : j \in Nat
    BY <1>12, IdsNat
  <2>2. \A j \in DOMAIN rm.conns : 1 <= j /\ j <= next_pid[p]
    BY <1>1, <1>2 DEF MemberInv, Given
  <2> QED BY <1>9, <2>1, <2>2
<1>16. Given'
  <2> SUFFICES ASSUME NEW q \in Procs, NEW s \in Rooms
               PROVE  /\ DOMAIN room'[q][s].players = DOMAIN room'[q][s].conns
                      /\ \A j \in DOMAIN room'[q][s].conns : 1 <= j /\ j <= next_pid'[q]
    BY DEF Given
  <2>1. /\ DOMAIN room[q][s].players = DOMAIN room[q][s].conns
        /\ \A j \in DOMAIN room[q][s].conns : 1 <= j /\ j <= next_pid[q]
    BY DEF MemberInv, Given
  <2>2. CASE q = p /\ s = r
    <3>1. room'[q][s] = x /\ next_pid'[q] = i
      BY <1>10, <1>14, <2>2
    <3>2. \A j \in DOMAIN rm.conns \cup {i} : 1 <= j /\ j <= i
      BY <1>9, <1>15
    <3> QED BY <1>12, <2>1, <2>2, <3>1, <3>2
  <2>3. CASE q = p /\ s # r
    <3>1. room'[q][s] = room[q][s] /\ next_pid'[q] = i /\ room[q][s] \in RoomRec
      BY <1>4, <1>10, <1>14, <2>3
    <3>2. \A j \in DOMAIN room[q][s].conns : j \in Nat
      BY <3>1, IdsNat
    <3> QED BY <1>9, <2>1, <2>3, <3>1, <3>2
  <2>4. CASE q # p
    BY <1>10, <1>14, <2>1, <2>4
  <2> QED BY <2>2, <2>3, <2>4
<1>17. Owns'
  <2> SUFFICES ASSUME NEW d \in Clients PROVE Own(d)'
    BY DEF Owns
  <2>1. CASE d = c
    <3>1. conn'[c].pc = "open" /\ conn'[c].proc = p /\ conn'[c].room = r /\ conn'[c].pid = i
      BY <1>1, <1>5 DEF p
    <3>2. conn'[c].joins \in Nat /\ conn'[c].joins > 0 /\ i # 0 /\ r \in Rooms
      BY <1>2, <1>5, <1>9
    <3>3. room'[p][r] = x /\ i \in DOMAIN x.conns /\ x.conns[i] = c
      BY <1>1, <1>2, <1>12, <1>14
    <3> QED BY <2>1, <3>1, <3>2, <3>3 DEF Own
  <2>2. CASE d # c
    <3>1. Own(d) /\ conn'[d] = conn[d] /\ (conn[d].pc = "open" => conn[d].proc \in Procs)
      BY <1>4, <1>5, <2>2 DEF MemberInv, Owns
    <3>2. \A q \in Procs, s \in Rooms : \A j \in DOMAIN room[q][s].conns :
            j \in DOMAIN room'[q][s].conns /\ room'[q][s].conns[j] = room[q][s].conns[j]
      BY <1>12, <1>14, <1>15
    <3> QED BY <3>1, <3>2 DEF Own
  <2> QED BY <2>1, <2>2
<1>18. Memberships(c)' = Memberships(c) \cup {<<p, r, i>>} /\ <<p, r, i>> \notin Memberships(c)
  <2>1. \A q, s, j : <<q, s, j>> \in MemberSet(room', c) <=>
                   (<<q, s, j>> \in MemberSet(room, c) \/ (q = p /\ s = r /\ j = i))
    <3> SUFFICES ASSUME NEW q, NEW s, NEW j
                 PROVE  <<q, s, j>> \in MemberSet(room', c) <=>
                   (<<q, s, j>> \in MemberSet(room, c) \/ (q = p /\ s = r /\ j = i))
      OBVIOUS
    <3>1. <<q, s, j>> \in MemberSet(room', c) <=>
            /\ q \in Procs /\ s \in Rooms
            /\ j \in DOMAIN room'[q][s].conns /\ room'[q][s].conns[j] = c
      BY MemberSetIs
    <3>2. <<q, s, j>> \in MemberSet(room, c) <=>
            /\ q \in Procs /\ s \in Rooms
            /\ j \in DOMAIN room[q][s].conns /\ room[q][s].conns[j] = c
      BY MemberSetIs
    <3>3. CASE q = p /\ s = r
      <4>1. room'[q][s] = x /\ room[q][s] = rm
        BY <1>1, <1>2, <1>14, <3>3
      <4> QED BY <1>1, <1>2, <1>12, <1>15, <3>1, <3>2, <3>3, <4>1
    <3>4. CASE ~(q = p /\ s = r)
      BY <1>14, <3>1, <3>2, <3>4
    <3> QED BY <3>3, <3>4
  <2>2. <<p, r, i>> \notin MemberSet(room, c)
    BY <1>15, MemberSetIs
  <2>3. MemberSet(room', c) = MemberSet(room, c) \cup {<<p, r, i>>}
    <3> DEFINE B == MemberSet(room, c) \cup {<<p, r, i>>}
    <3>1. \A m \in MemberSet(room', c) : m = <<m[1], m[2], m[3]>>
      BY MemberSetIs
    <3>2. \A m \in MemberSet(room, c) : m = <<m[1], m[2], m[3]>>
      BY MemberSetIs
    <3>3. \A m \in B : m = <<m[1], m[2], m[3]>>
      BY <3>2
    <3>4. ASSUME NEW q, NEW s, NEW j
          PROVE  <<q, s, j>> \in MemberSet(room', c) <=> <<q, s, j>> \in B
      <4>1. <<q, s, j>> = <<p, r, i>> <=> q = p /\ s = r /\ j = i
        OBVIOUS
      <4>2. <<q, s, j>> \in B <=> <<q, s, j>> \in MemberSet(room, c) \/ <<q, s, j>> = <<p, r, i>>
        OBVIOUS
      <4> QED BY <2>1, <4>1, <4>2
    <3> HIDE DEF B
    <3>5. MemberSet(room', c) = B
      BY <3>1, <3>3, <3>4, SameTriples
    <3> QED BY <3>5 DEF B
  <2> QED BY <2>2, <2>3 DEF MemberSet, Memberships
<1>19. \A d \in Clients : d # c => Memberships(d)' = Memberships(d)
  BY <1>12, <1>14, <1>15 DEF Memberships
<1>20. Counted'
  <2> SUFFICES ASSUME NEW d \in Clients
               PROVE  IsFiniteSet(Memberships(d)') /\ Cardinality(Memberships(d)') = Count(d)'
    BY DEF Counted
  <2>1. IsFiniteSet(Memberships(d)) /\ Cardinality(Memberships(d)) = Count(d)
    BY DEF MemberInv, Counted
  <2>2. CASE d = c
    <3>1. Count(c) = conn[c].joins /\ Count(c)' = conn[c].joins + 1
      BY <1>1, <1>5 DEF Count
    <3>2. /\ IsFiniteSet(Memberships(c) \cup {<<p, r, i>>})
          /\ Cardinality(Memberships(c) \cup {<<p, r, i>>}) = Cardinality(Memberships(c)) + 1
      BY <1>18, <2>1, <2>2, FS_AddElement
    <3> QED BY <1>18, <2>1, <2>2, <3>1, <3>2
  <2>3. CASE d # c
    BY <1>5, <1>19, <2>1, <2>3 DEF Count
  <2> QED BY <2>2, <2>3
<1> QED BY <1>6, <1>11, <1>16, <1>17, <1>20 DEF MemberInv

(* The finally clause takes back the last JOIN, and nothing else.          *)
LEMMA FinishMembers ==
    ASSUME Types, MemberInv, NEW c \in Clients, conn[c].pc = "open", Finish(c), Budget'
    PROVE  MemberInv'
<1> DEFINE p == conn[c].proc
           r == conn[c].room
           i == conn[c].pid
<1>1. /\ room \in [Procs -> [Rooms -> RoomRec]] /\ conn \in [Clients -> Handler]
      /\ next_pid \in [Procs -> Pids] /\ p \in Procs /\ conn[c].joins \in Nat
      /\ \A d \in Clients : conn[d].pc = "open" => conn[d].proc \in Procs
  BY DEF Types, Handler
<1>2. /\ conn' = [conn EXCEPT ![c].pc = "closed"]
      /\ room' = IF r # None /\ i # 0 THEN [room EXCEPT ![p][r] = leave(@, i)] ELSE room
      /\ UNCHANGED <<sent, next_pid, held, spent, got>>
  BY DEF Finish
<1>3. /\ conn'[c].pc = "closed" /\ conn'[c].joins = conn[c].joins
      /\ conn'[c].room = conn[c].room /\ conn'[c].pid = conn[c].pid
      /\ \A d \in Clients : d # c => conn'[d] = conn[d]
      /\ \A d \in Clients : conn'[d].joins = conn[d].joins
  BY <1>1, <1>2 DEF Handler
<1>4. Own(c)
  BY DEF MemberInv, Owns
<1>5. Joins' = Joins
  BY <1>3 DEF Joins, Sendable
<1>6. Issued'
  BY <1>2, <1>5 DEF MemberInv, Issued
\* Without a JOIN there is nothing to take back.
<1>7. CASE conn[c].joins = 0
  <2>1. room' = room
    BY <1>2, <1>4, <1>7 DEF Own
  <2>2. Given'
    BY <1>2, <2>1 DEF MemberInv, Given
  <2>3. Owns'
    <3> SUFFICES ASSUME NEW d \in Clients PROVE Own(d)'
      BY DEF Owns
    <3>1. Own(d)
      BY DEF MemberInv, Owns
    <3>2. CASE d = c
      BY <1>3, <1>4, <1>7, <3>2 DEF Own
    <3>3. CASE d # c
      BY <1>3, <2>1, <3>1, <3>3 DEF Own
    <3> QED BY <3>2, <3>3
  <2>4. \A d \in Clients : Memberships(d)' = Memberships(d) /\ Count(d)' = Count(d)
    BY <1>3, <1>7, <2>1 DEF Memberships, Count
  <2>5. Counted'
    BY <2>4 DEF MemberInv, Counted
  <2> QED BY <1>6, <2>2, <2>3, <2>5 DEF MemberInv
<1>8. CASE conn[c].joins # 0
  <2> HIDE DEF p, r, i
  <2>1. r \in Rooms /\ r # None /\ i # 0 /\ i \in DOMAIN room[p][r].conns /\ room[p][r].conns[i] = c
    BY <1>1, <1>4, <1>8, Constants DEF Own, p, r, i
  <2> DEFINE rm == room[p][r]
             x == leave(rm, i)
  <2>2. /\ rm \in RoomRec
        /\ DOMAIN x.players = DOMAIN rm.players \ {i} /\ DOMAIN x.conns = DOMAIN rm.conns \ {i}
        /\ \A j \in DOMAIN rm.conns : j # i => x.conns[j] = rm.conns[j]
    <3>1. rm \in RoomRec
      BY <1>1, <2>1
    <3> HIDE DEF rm
    <3> QED BY <3>1, LeaveTables
  <2>3. room' = [room EXCEPT ![p][r] = x]
    BY <1>2, <2>1
  <2> HIDE DEF x
  <2>4. \A q \in Procs, s \in Rooms : room'[q][s] = IF q = p /\ s = r THEN x ELSE room[q][s]
    BY <1>1, <2>1, <2>3
  <2>5. Given'
    <3> SUFFICES ASSUME NEW q \in Procs, NEW s \in Rooms
                 PROVE  /\ DOMAIN room'[q][s].players = DOMAIN room'[q][s].conns
                        /\ \A j \in DOMAIN room'[q][s].conns : 1 <= j /\ j <= next_pid[q]
      BY <1>2 DEF Given
    <3>1. /\ DOMAIN room[q][s].players = DOMAIN room[q][s].conns
          /\ \A j \in DOMAIN room[q][s].conns : 1 <= j /\ j <= next_pid[q]
      BY DEF MemberInv, Given
    <3>2. CASE q = p /\ s = r
      <4>1. room'[q][s] = x /\ room[q][s] = rm
        BY <2>4, <3>2
      <4> QED BY <2>2, <3>1, <4>1
    <3>3. CASE ~(q = p /\ s = r)
      BY <2>4, <3>1, <3>3
    <3> QED BY <3>2, <3>3
  <2>6. Owns'
    <3> SUFFICES ASSUME NEW d \in Clients PROVE Own(d)'
      BY DEF Owns
    <3>1. CASE d = c
      BY <1>3, <1>4, <3>1 DEF Own
    <3>2. CASE d # c
      <4>1. Own(d) /\ conn'[d] = conn[d] /\ (conn[d].pc = "open" => conn[d].proc \in Procs)
        BY <1>1, <1>3, <3>2 DEF MemberInv, Owns
      <4>2. \A q \in Procs, s \in Rooms : \A j \in DOMAIN room[q][s].conns :
              room[q][s].conns[j] # c =>
                j \in DOMAIN room'[q][s].conns /\ room'[q][s].conns[j] = room[q][s].conns[j]
        BY <2>1, <2>2, <2>4
      <4> QED BY <3>2, <4>1, <4>2 DEF Own
    <3> QED BY <3>1, <3>2
  <2>7. Memberships(c)' = Memberships(c) \ {<<p, r, i>>} /\ <<p, r, i>> \in Memberships(c)
    <3>1. <<p, r, i>> \in MemberSet(room, c)
      BY <1>1, <2>1, MemberSetIs DEF p
    <3>2. ASSUME NEW q, NEW s, NEW j
          PROVE  <<q, s, j>> \in MemberSet(room', c) <=>
                   (<<q, s, j>> \in MemberSet(room, c) /\ ~(q = p /\ s = r /\ j = i))
      <4>1. <<q, s, j>> \in MemberSet(room', c) <=>
              /\ q \in Procs /\ s \in Rooms
              /\ j \in DOMAIN room'[q][s].conns /\ room'[q][s].conns[j] = c
        BY MemberSetIs
      <4>2. <<q, s, j>> \in MemberSet(room, c) <=>
              /\ q \in Procs /\ s \in Rooms
              /\ j \in DOMAIN room[q][s].conns /\ room[q][s].conns[j] = c
        BY MemberSetIs
      <4>3. CASE q = p /\ s = r
        <5>1. room'[q][s] = x /\ room[q][s] = rm
          BY <1>1, <2>1, <2>4, <4>3 DEF p
        <5> QED BY <2>2, <4>1, <4>2, <4>3, <5>1
      <4>4. CASE ~(q = p /\ s = r)
        BY <2>4, <4>1, <4>2, <4>4
      <4> QED BY <4>3, <4>4
    <3> DEFINE B == MemberSet(room, c) \ {<<p, r, i>>}
    <3>3. \A m \in MemberSet(room', c) : m = <<m[1], m[2], m[3]>>
      BY MemberSetIs
    <3>4. \A m \in MemberSet(room, c) : m = <<m[1], m[2], m[3]>>
      BY MemberSetIs
    <3>5. \A m \in B : m = <<m[1], m[2], m[3]>>
      BY <3>4
    <3>6. ASSUME NEW q, NEW s, NEW j
          PROVE  <<q, s, j>> \in MemberSet(room', c) <=> <<q, s, j>> \in B
      <4>1. <<q, s, j>> = <<p, r, i>> <=> q = p /\ s = r /\ j = i
        OBVIOUS
      <4>2. <<q, s, j>> \in B <=> <<q, s, j>> \in MemberSet(room, c) /\ <<q, s, j>> # <<p, r, i>>
        OBVIOUS
      <4> QED BY <3>2, <4>1, <4>2
    <3> HIDE DEF B
    <3>7. MemberSet(room', c) = B
      BY <3>3, <3>5, <3>6, SameTriples
    <3> QED BY <3>1, <3>7 DEF B, MemberSet, Memberships
  <2>8. \A d \in Clients : d # c => Memberships(d)' = Memberships(d)
    BY <2>1, <2>2, <2>4 DEF Memberships
  <2>9. Counted'
    <3> SUFFICES ASSUME NEW d \in Clients
                 PROVE  IsFiniteSet(Memberships(d)') /\ Cardinality(Memberships(d)') = Count(d)'
      BY DEF Counted
    <3>1. IsFiniteSet(Memberships(d)) /\ Cardinality(Memberships(d)) = Count(d)
      BY DEF MemberInv, Counted
    <3>2. CASE d = c
      <4>1. Count(c) = conn[c].joins /\ Count(c)' = conn[c].joins - 1
        BY <1>1, <1>3, <1>8 DEF Count
      <4>2. /\ IsFiniteSet(Memberships(c) \ {<<p, r, i>>})
            /\ Cardinality(Memberships(c) \ {<<p, r, i>>}) = Cardinality(Memberships(c)) - 1
        BY <2>7, <3>1, <3>2, FS_RemoveElement
      <4> QED BY <2>7, <3>1, <3>2, <4>1, <4>2
    <3>3. CASE d # c
      BY <1>3, <2>8, <3>1, <3>3 DEF Count
    <3> QED BY <3>2, <3>3
  <2> QED BY <1>6, <2>5, <2>6, <2>9 DEF MemberInv
<1> QED BY <1>7, <1>8

LEMMA HandleMembers ==
    ASSUME Types, MemberInv, NEW c \in Clients, Handle(c)
    PROVE  MemberInv'
<1>1. CASE Join(c)
  BY <1>1, JoinMembers
<1>2. ASSUME NEW t, Arrived(c, t), UNCHANGED sent,
             \A d \in Clients : conn'[d].joins = conn[d].joins
      PROVE  Budget'
  BY <1>2, ReadBudget, BudgetKept DEF MemberInv
<1>3. CASE Move(c)
  <2>1. UNCHANGED <<conn, sent, next_pid>> /\ Arrived(c, "MOVE")
    BY <1>3 DEF Move
  <2>2. Budget'
    BY <1>2, <2>1
  <2>3. \A d \in Clients : SameMember(d)
    BY <2>1 DEF SameMember, Types, Handler
  <2>4. SameTables
    <3>1. CASE room' = room
      BY <3>1 DEF SameTables
    <3>2. CASE conn[c].room # None
      <4>1. /\ room \in [Procs -> [Rooms -> RoomRec]] /\ conn[c].room \in Rooms
            /\ conn[c].proc \in Procs
        BY <2>1, <3>2 DEF Types, Handler, Arrived
      <4> DEFINE p == conn[c].proc
                 r == conn[c].room
                 x == move(room[p][r], conn[c].pid, Head(stream[c]).dx)
      <4>2. room' = [room EXCEPT ![p][r] = x]
        BY <1>3, <3>2 DEF Move
      <4>3. DOMAIN x.players = DOMAIN room[p][r].players /\ x.conns = room[p][r].conns
        <5>1. room[p][r] \in RoomRec
          BY <4>1
        <5> QED BY <5>1, MoveTables
      <4> HIDE DEF x
      <4>4. \A q \in Procs, s \in Rooms : room'[q][s] = IF q = p /\ s = r THEN x ELSE room[q][s]
        BY <4>1, <4>2
      <4> QED BY <4>3, <4>4 DEF SameTables
    <3>3. room' = room \/ conn[c].room # None
      BY <1>3 DEF Move
    <3> QED BY <3>1, <3>2, <3>3
  <2> QED BY <2>1, <2>2, <2>3, <2>4, MembersKept
<1>4. CASE Ignore(c)
  <2>1. UNCHANGED <<conn, sent, next_pid, room>> /\ Arrived(c, "other")
    BY <1>4 DEF Ignore
  <2>2. Budget'
    BY <1>2, <2>1
  <2>3. (\A d \in Clients : SameMember(d)) /\ SameTables
    BY <2>1 DEF SameMember, SameTables, Types, Handler
  <2> QED BY <2>1, <2>2, <2>3, MembersKept
<1>5. ASSUME Finish(c)
      PROVE  UNCHANGED sent /\ \A d \in Clients : conn'[d].joins = conn[d].joins
  BY <1>5 DEF Finish, Types, Handler
<1>6. CASE BadLength(c)
  <2>1. Arrived(c, "bad") /\ Finish(c) /\ conn[c].pc = "open"
    BY <1>6 DEF BadLength, Arrived
  <2>2. Budget'
    BY <1>2, <1>5, <2>1
  <2> QED BY <2>1, <2>2, FinishMembers
<1>7. CASE Eof(c)
  <2>1. UNCHANGED stream /\ Finish(c) /\ conn[c].pc = "open"
    BY <1>7 DEF Eof
  <2>2. \A d \in Clients : Len(stream'[d]) \in Nat /\ Len(stream'[d]) <= Len(stream[d])
    BY <2>1, LenProperties DEF Types
  <2>3. Budget'
    BY <1>5, <2>1, <2>2, BudgetKept DEF MemberInv
  <2> QED BY <2>1, <2>3, FinishMembers
<1> QED BY <1>1, <1>3, <1>4, <1>6, <1>7 DEF Handle

LEMMA ClientMembers ==
    ASSUME Types, MemberInv, NEW c \in Clients, Send(c) \/ Leave(c) \/ \E p \in Procs : Accept(c, p)
    PROVE  MemberInv'
<1>1. UNCHANGED <<next_pid, room>> /\ SameTables
  BY DEF Send, Leave, Accept, SameTables
<1>2. \A d \in Clients : SameMember(d)
  <2>1. CASE Send(c)
    BY <2>1 DEF Send, SameMember
  <2>2. CASE Leave(c)
    BY <2>2 DEF Leave, SameMember, Types, Handler
  <2>3. CASE \E p \in Procs : Accept(c, p)
    <3>1. PICK p \in Procs : Accept(c, p)
      BY <2>3
    <3>2. conn[c].pc = "new" /\ conn' = [conn EXCEPT ![c].pc = "open", ![c].proc = p]
      BY <3>1 DEF Accept
    <3>3. /\ conn'[c].joins = conn[c].joins /\ conn'[c].room = conn[c].room
          /\ conn'[c].pid = conn[c].pid /\ conn'[c].pc = "open"
          /\ \A d \in Clients : d # c => conn'[d] = conn[d]
      BY <3>2 DEF Types, Handler
    <3> QED BY <3>2, <3>3 DEF SameMember
  <2> QED BY <2>1, <2>2, <2>3
<1>3. Budget'
  <2>1. CASE Send(c)
    <3>1. PICK f \in Frames : stream' = [stream EXCEPT ![c] = Append(@, f)]
      BY <2>1 DEF Send
    <3>2. sent' = [sent EXCEPT ![c] = @ + 1] /\ UNCHANGED conn
      BY <2>1 DEF Send
    <3>3. ASSUME NEW d \in Clients PROVE conn'[d].joins + Len(stream'[d]) <= sent'[d]
      <4>1. /\ conn[d].joins \in Nat /\ stream[d] \in Seq(Frames) /\ Len(stream[d]) \in Nat /\ sent[d] \in Nat
            /\ conn[d].joins + Len(stream[d]) <= sent[d]
        BY LenProperties DEF Types, Handler, MemberInv, Budget
      <4>2. CASE d = c
        <5>1. stream'[d] = Append(stream[d], f) /\ sent'[d] = sent[d] + 1 /\ conn'[d] = conn[d]
          BY <3>1, <3>2, <4>2 DEF Types
        <5>2. Len(stream'[d]) = Len(stream[d]) + 1
          BY <4>1, <5>1, AppendProperties
        <5> QED BY <4>1, <5>1, <5>2
      <4>3. CASE d # c
        <5>1. stream'[d] = stream[d] /\ sent'[d] = sent[d] /\ conn'[d] = conn[d]
          BY <3>1, <3>2, <4>3 DEF Types
        <5> QED BY <4>1, <5>1
      <4> QED BY <4>2, <4>3
    <3> QED BY <3>3 DEF Budget
  <2>2. CASE ~Send(c)
    <3>1. UNCHANGED sent /\ (stream' = stream \/ stream' = [stream EXCEPT ![c] = <<>>])
      BY <2>2 DEF Leave, Accept
    <3>2. \A d \in Clients : stream'[d] = stream[d] \/ stream'[d] = <<>>
      BY <3>1 DEF Types
    <3>3. \A d \in Clients : stream[d] \in Seq(Frames) /\ Len(stream[d]) \in Nat
      BY LenProperties DEF Types
    <3>4. \A d \in Clients : Len(stream'[d]) \in Nat /\ Len(stream'[d]) <= Len(stream[d])
      BY <3>2, <3>3, EmptySeq
    <3>5. \A d \in Clients : conn'[d].joins = conn[d].joins
      BY <1>2 DEF SameMember
    <3> QED BY <3>1, <3>4, <3>5, BudgetKept DEF MemberInv
  <2> QED BY <2>1, <2>2
<1> QED BY <1>1, <1>2, <1>3, MembersKept

(* Time and the tasks of the rooms change neither.                         *)
LEMMA TaskMembers ==
    ASSUME Types, MemberInv, Elapse \/ \E p \in Procs, r \in Rooms : Task(p, r)
    PROVE  MemberInv'
<1>1. UNCHANGED <<conn, stream, sent, next_pid>>
  <2>1. CASE Elapse
    BY <2>1 DEF Elapse
  <2>2. CASE \E p \in Procs, r \in Rooms : Task(p, r)
    <3>1. PICK p \in Procs, r \in Rooms : Begin(p, r) \/ Step(p, r) \/ Pace(p, r)
      BY <2>2 DEF Task
    <3> QED BY <3>1 DEF Begin, Step, Pace
  <2> QED BY <2>1, <2>2
<1>2. Budget' /\ \A d \in Clients : SameMember(d)
  BY <1>1 DEF MemberInv, Budget, SameMember
<1>3. room \in [Procs -> [Rooms -> RoomRec]]
  BY DEF Types
<1>4. SameTables
  <2>1. CASE Elapse
    <3> SUFFICES ASSUME NEW p \in Procs, NEW r \in Rooms
                 PROVE  /\ room'[p][r].conns = room[p][r].conns
                        /\ room'[p][r].players = room[p][r].players
      BY DEF SameTables
    <3>1. room'[p][r] = IF room[p][r].st = "up"
                        THEN [room[p][r] EXCEPT !.due = @ - 1, !.owed = @ + 1] ELSE room[p][r]
      BY <2>1 DEF Elapse
    <3>2. room[p][r] \in RoomRec
      BY <1>3
    <3> QED BY <3>1, <3>2 DEF RoomRec
  <2>2. CASE \E p \in Procs, r \in Rooms : Task(p, r)
    <3>1. PICK p \in Procs, r \in Rooms : Task(p, r)
      BY <2>2
    <3>2. PICK rm : rm = room[p][r] /\ rm \in RoomRec
      BY <1>3
    <3>3. DOMAIN Moved(rm.players) = DOMAIN rm.players
      BY DEF Moved
    <3>4. PICK x : /\ room' = [room EXCEPT ![p][r] = x]
                   /\ x.conns = rm.conns /\ DOMAIN x.players = DOMAIN rm.players
      <4>1. CASE Begin(p, r)
        <5> DEFINE y == [rm EXCEPT !.st = "up", !.due = Tick]
        <5>1. room' = [room EXCEPT ![p][r] = y]
          BY <1>3, <3>2, <4>1 DEF Begin
        <5>2. y.conns = rm.conns /\ y.players = rm.players
          BY <3>2 DEF RoomRec
        <5> QED BY <5>1, <5>2
      <4>2. CASE Pace(p, r)
        <5> DEFINE y == [rm EXCEPT !.due = @ + Tick]
        <5>1. room' = [room EXCEPT ![p][r] = y]
          BY <1>3, <3>2, <4>2 DEF Pace
        <5>2. y.conns = rm.conns /\ y.players = rm.players
          BY <3>2 DEF RoomRec
        <5> QED BY <5>1, <5>2
      <4>3. CASE Step(p, r)
        <5> DEFINE pl == Moved(rm.players)
                   up == ~Overflows(pl)
                   y == Clock(rm, IF up THEN "up" ELSE "dead", pl,
                              IF up THEN rm.owed - Tick ELSE 0, IF up THEN rm.due ELSE 0)
        <5>1. room' = [room EXCEPT ![p][r].players = pl,
                              ![p][r].st = IF up THEN "up" ELSE "dead",
                              ![p][r].owed = IF up THEN @ - Tick ELSE 0,
                              ![p][r].due = IF up THEN @ ELSE 0]
          BY <3>2, <4>3 DEF Step
        <5> HIDE DEF pl, up
        <5>2. room' = [room EXCEPT ![p][r] = y]
          BY <1>3, <3>2, <5>1 DEF Clock
        <5>3. y.conns = rm.conns /\ y.players = pl
          BY <3>2 DEF Clock, RoomRec
        <5> QED BY <3>3, <5>2, <5>3 DEF pl
      <4> QED BY <3>1, <4>1, <4>2, <4>3 DEF Task
    <3>5. \A q \in Procs, s \in Rooms : room'[q][s] = IF q = p /\ s = r THEN x ELSE room[q][s]
      BY <1>3, <3>4
    <3> QED BY <3>2, <3>4, <3>5 DEF SameTables
  <2> QED BY <2>1, <2>2
<1> QED BY <1>1, <1>2, <1>4, MembersKept

LEMMA MemberStep == PyInv /\ MemberInv /\ [Next]_vars => MemberInv'
<1> SUFFICES ASSUME Types, MemberInv, [Next]_vars PROVE MemberInv'
  BY DEF PyInv
<1>1. CASE UNCHANGED vars
  <2>1. UNCHANGED <<conn, stream, sent, next_pid, room>>
    BY <1>1 DEF vars
  <2>2. Budget' /\ SameTables /\ \A d \in Clients : SameMember(d)
    BY <2>1 DEF MemberInv, Budget, SameMember, SameTables
  <2> QED BY <2>1, <2>2, MembersKept
<1>2. CASE \E c \in Clients : Handle(c)
  BY <1>2, HandleMembers
<1>3. CASE \E c \in Clients : Send(c) \/ Leave(c) \/ \E p \in Procs : Accept(c, p)
  BY <1>3, ClientMembers
<1>4. CASE Elapse \/ \E p \in Procs, r \in Rooms : Task(p, r)
  BY <1>4, TaskMembers
<1> QED BY <1>1, <1>2, <1>3, <1>4 DEF Next

\* For any number of processes, clients, rooms and frames, as long as the player ids
\* do not wrap: the last JOIN of an open connection holds, and the finally clause of
\* handle() leaves nothing of a connection that joined once (server.py:158, 176).
THEOREM PyMembersExact == Spec => []MembersExact
<1>1. Init => PyInv /\ MemberInv
  BY PyInit, MemberInit
<1>2. PyInv /\ MemberInv /\ [Next]_vars => (PyInv /\ MemberInv)'
  BY PyStep, MemberStep
<1>3. PyInv /\ MemberInv => MembersExact
  <2> SUFFICES ASSUME Types, MemberInv, NEW c \in Clients
               PROVE  /\ conn[c].pc = "open" /\ conn[c].joins > 0
                            => <<conn[c].proc, conn[c].room, conn[c].pid>> \in Memberships(c)
                      /\ Cardinality(Memberships(c)) <= conn[c].joins
                      /\ conn[c].pc = "closed" /\ conn[c].joins = 1 => Memberships(c) = {}
    BY DEF PyInv, MemberInv, Given, MembersExact
  <2>1. conn[c].joins \in Nat /\ (conn[c].pc = "open" => conn[c].proc \in Procs)
    BY DEF Types, Handler
  <2>2. IsFiniteSet(Memberships(c)) /\ Cardinality(Memberships(c)) = Count(c)
    BY DEF MemberInv, Counted
  <2>3. ASSUME conn[c].pc = "open", conn[c].joins > 0
        PROVE  <<conn[c].proc, conn[c].room, conn[c].pid>> \in Memberships(c)
    <3>1. Own(c)
      BY DEF MemberInv, Owns
    <3>2. /\ conn[c].proc \in Procs /\ conn[c].room \in Rooms
          /\ conn[c].pid \in DOMAIN room[conn[c].proc][conn[c].room].conns
          /\ room[conn[c].proc][conn[c].room].conns[conn[c].pid] = c
      BY <2>1, <2>3, <3>1 DEF Own
    <3>3. <<conn[c].proc, conn[c].room, conn[c].pid>> \in MemberSet(room, c)
      BY <3>2, MemberSetIs
    <3> QED BY <3>3 DEF MemberSet, Memberships
  <2>4. Cardinality(Memberships(c)) <= conn[c].joins
    BY <2>1, <2>2 DEF Count
  <2>5. ASSUME conn[c].pc = "closed", conn[c].joins = 1 PROVE Memberships(c) = {}
    <3>1. Cardinality(Memberships(c)) = 0
      BY <2>2, <2>5 DEF Count
    <3> QED BY <2>2, <3>1, FS_EmptySet
  <2> QED BY <2>3, <2>4, <2>5
<1> QED BY <1>1, <1>2, <1>3, PTL DEF Spec

=============================================================================
