------------------------------- MODULE GoRoom -------------------------------
(***************************************************************************)
(* What the two Go actor servers (servers/go and servers/go-pool) have in  *)
(* common: the registry of rooms, one goroutine per room that owns the     *)
(* room's maps and is reached only through its inbox channel, and one      *)
(* reader goroutine per connection.                                        *)
(*                                                                         *)
(* The outgoing side (frames, send channels, writer goroutines, the        *)
(* broadcast of a tick) differs between the two programs and is modelled   *)
(* in GoServer and GoPool, which extend this module.                       *)
(*                                                                         *)
(* Positions and velocities are left out: no decision depends on them.     *)
(* A player is the sequence number of the MOVE applied last.               *)
(***************************************************************************)
EXTENDS Integers, Sequences, FiniteSets

CONSTANTS Conn,      \* connections
          RoomId,    \* room ids a client may ask for
          None,      \* "nil"
          InboxCap,  \* capacity of a room's inbox channel (1024 in the code)
          MaxPid,    \* bound: player ids handed out (2^32 - 1 in the code)
          MaxJoin,   \* bound: JOIN frames read per connection
          MaxMove,   \* bound: MOVE frames read per connection
          MaxTick    \* bound: tick numbers from MaxTick on are not told apart

ASSUME RoomConstants ==
    /\ None \notin RoomId
    /\ InboxCap \in Nat \ {0}
    /\ MaxPid \in Nat /\ MaxJoin \in Nat /\ MaxMove \in Nat /\ MaxTick \in Nat

VARIABLES nextPlayerID, \* the atomic counter: the id handed out last
          rooms,        \* Registry.rooms: the rooms whose goroutine runs
          inbox,        \* Room.inbox
          players,      \* Room.players: pid -> lastSeq
          conns,        \* Room.conns: pid -> connection
          tick,         \* Room.tick
          rd,           \* where the reader goroutine of a connection is
          room,         \* handle's local variable room
          id,           \* Conn.id, 0 before the first JOINED
          reply,        \* the reply channel of the JOIN under way (0: empty)
          done,         \* Conn.done closed, and the socket with it
          gone,         \* the client has dropped the TCP connection
          joins,        \* JOIN frames read so far
          seq,          \* sequence number of the last MOVE frame read
          up            \* the process runs: no goroutine has panicked

roomVars   == <<nextPlayerID, rooms, inbox, players, conns, tick>>
readerVars == <<rd, room, id, reply, done, gone, joins, seq>>
actorVars  == <<roomVars, readerVars>>

Pid   == 1 .. MaxPid
SeqNo == 0 .. MaxMove

Cmd == [op : {"join"}, conn : Conn]
         \cup [op : {"move"}, pid : 0 .. MaxPid, seq : SeqNo]
         \cup [op : {"leave"}, pid : 0 .. MaxPid]

(* The channel operations a reader may be blocked in, by their place. *)
ReaderPc == {"read", "join", "await", "joined", "move", "leave", "close", "exit"}

(* A map with key k added or overwritten; a map with key k deleted. *)
Put(f, k, v) == [x \in DOMAIN f \cup {k} |-> IF x = k THEN v ELSE f[x]]
Del(f, k)    == [x \in DOMAIN f \ {k} |-> f[x]]
Empty        == [x \in {} |-> None]

PidMap(S) == UNION {[D -> S] : D \in SUBSET Pid}

(* r.tick++, which keeps ticking at the bound. *)
NextTick(t) == IF t < MaxTick THEN t + 1 ELSE t
Snapshot(r) == [type |-> "SNAPSHOT", room |-> r, tick |-> NextTick(tick[r]),
                last |-> players[r]]
Joined(c)   == [type |-> "JOINED", pid |-> id[c], room |-> room[c]]

Frame == [type : {"SNAPSHOT"}, room : RoomId, tick : Nat, last : PidMap(SeqNo)]
           \cup [type : {"JOINED"}, pid : 0 .. MaxPid, room : RoomId \cup {None}]

RoomTypeOK ==
    /\ nextPlayerID \in 0 .. MaxPid
    /\ rooms \in SUBSET RoomId
    /\ inbox \in [RoomId -> Seq(Cmd)]
    /\ players \in [RoomId -> PidMap(SeqNo)]
    /\ conns \in [RoomId -> PidMap(Conn)]
    /\ tick \in [RoomId -> Nat]
    /\ rd \in [Conn -> ReaderPc]
    /\ room \in [Conn -> RoomId \cup {None}]
    /\ id \in [Conn -> 0 .. MaxPid]
    /\ reply \in [Conn -> 0 .. MaxPid]
    /\ done \in [Conn -> BOOLEAN]
    /\ gone \in [Conn -> BOOLEAN]
    /\ joins \in [Conn -> Nat]
    /\ seq \in [Conn -> SeqNo]

RoomInit ==
    /\ nextPlayerID = 0
    /\ rooms = {}
    /\ inbox = [r \in RoomId |-> <<>>]
    /\ players = [r \in RoomId |-> Empty]
    /\ conns = [r \in RoomId |-> Empty]
    /\ tick = [r \in RoomId |-> 0]
    /\ rd = [c \in Conn |-> "read"]
    /\ room = [c \in Conn |-> None]
    /\ id = [c \in Conn |-> 0]
    /\ reply = [c \in Conn |-> 0]
    /\ done = [c \in Conn |-> FALSE]
    /\ gone = [c \in Conn |-> FALSE]
    /\ joins = [c \in Conn |-> 0]
    /\ seq = [c \in Conn |-> 0]

-----------------------------------------------------------------------------
(* The reader goroutine: the loop of handle.                               *)

(* A JOIN frame with room for its room id: the registry creates the room   *)
(* on first use, under its mutex, and the reader turns to the room's inbox *)
(* with a fresh reply channel of capacity one.                             *)
ReadJoin(c, r) ==
    /\ rd[c] = "read"
    /\ joins[c] < MaxJoin
    /\ joins' = [joins EXCEPT ![c] = @ + 1]
    /\ rooms' = rooms \cup {r}
    /\ room' = [room EXCEPT ![c] = r]
    /\ reply' = [reply EXCEPT ![c] = 0]
    /\ rd' = [rd EXCEPT ![c] = "join"]
    /\ UNCHANGED <<nextPlayerID, inbox, players, conns, tick, id, done, gone, seq>>

(* A JOIN frame whose payload is shorter than five bytes: the room id is   *)
(* read past the end of the slice, and a panic that nothing recovers ends  *)
(* the whole process, in whatever every other goroutine was doing.  The    *)
(* client may be one that never sends anything else, so this is possible   *)
(* at any moment, whatever the readers of Conn are doing.                  *)
Panic ==
    /\ up
    /\ up' = FALSE
    /\ UNCHANGED actorVars

(* A step of some goroutine, or of a client, while the process runs. *)
Alive(A) == up /\ A /\ UNCHANGED up

(* A MOVE frame, which is ignored before the first JOIN.  The client       *)
(* stamps its frames with a counter of its own.                            *)
ReadMove(c) ==
    /\ rd[c] = "read"
    /\ seq[c] < MaxMove
    /\ seq' = [seq EXCEPT ![c] = @ + 1]
    /\ rd' = [rd EXCEPT ![c] = IF room[c] = None THEN "read" ELSE "move"]
    /\ UNCHANGED <<roomVars, room, id, reply, done, gone, joins>>

(* A read error, or a length prefix of zero or above 1 MiB: out of the loop *)
ReadErrorNoLeave(c) ==                           \* mutant: exit without Leave
    /\ rd[c] = "read"
    /\ rd' = [rd EXCEPT ![c] = "close"]
    /\ UNCHANGED <<roomVars, room, id, reply, done, gone, joins, seq>>

ReadError(c) ==
    /\ rd[c] = "read"
    /\ rd' = [rd EXCEPT ![c] = IF room[c] # None /\ id[c] # 0
                               THEN "leave" ELSE "close"]
    /\ UNCHANGED <<roomVars, room, id, reply, done, gone, joins, seq>>

(* A send on the inbox, which blocks the reader while the inbox is full.   *)
PostAtHead(c, m, next) ==                        \* mutant: newest first
    /\ Len(inbox[room[c]]) < InboxCap
    /\ inbox' = [inbox EXCEPT ![room[c]] = <<m>> \o @]
    /\ rd' = [rd EXCEPT ![c] = next]
    /\ UNCHANGED <<nextPlayerID, rooms, players, conns, tick, room, id, reply,
                   done, gone, joins, seq>>

Post(c, m, next) ==
    /\ Len(inbox[room[c]]) < InboxCap
    /\ inbox' = [inbox EXCEPT ![room[c]] = Append(@, m)]
    /\ rd' = [rd EXCEPT ![c] = next]
    /\ UNCHANGED <<nextPlayerID, rooms, players, conns, tick, room, id, reply,
                   done, gone, joins, seq>>

SendJoin(c) ==
    /\ rd[c] = "join"
    /\ Post(c, [op |-> "join", conn |-> c], "await")

SendMove(c) ==
    /\ rd[c] = "move"
    /\ Post(c, [op |-> "move", pid |-> id[c], seq |-> seq[c]], "read")

SendLeave(c) ==
    /\ rd[c] = "leave"
    /\ Post(c, [op |-> "leave", pid |-> id[c]], "close")

(* c.id = <-reply *)
TakeReply(c) ==
    /\ rd[c] = "await"
    /\ reply[c] # 0
    /\ id' = [id EXCEPT ![c] = reply[c]]
    /\ reply' = [reply EXCEPT ![c] = 0]
    /\ rd' = [rd EXCEPT ![c] = "joined"]
    /\ UNCHANGED <<roomVars, room, done, gone, joins, seq>>

(* close(c.done), nc.Close() *)
Close(c) ==
    /\ rd[c] = "close"
    /\ rd' = [rd EXCEPT ![c] = "exit"]
    /\ done' = [done EXCEPT ![c] = TRUE]
    /\ UNCHANGED <<roomVars, room, id, reply, gone, joins, seq>>

(* The client goes away, at any moment. *)
Disconnect(c) ==
    /\ ~gone[c]
    /\ gone' = [gone EXCEPT ![c] = TRUE]
    /\ UNCHANGED <<roomVars, rd, room, id, reply, done, joins, seq>>

-----------------------------------------------------------------------------
(* The room goroutine: the commands of run.                                *)

Received(r, op) ==
    /\ r \in rooms
    /\ inbox[r] # <<>>
    /\ Head(inbox[r]).op = op
    /\ inbox' = [inbox EXCEPT ![r] = Tail(@)]

ApplyJoinNoReply(r) ==                           \* mutant: a client that left gets no reply
    LET pid == nextPlayerID + 1
        c   == Head(inbox[r]).conn
    IN  /\ Received(r, "join")
        /\ pid \in Pid
        /\ nextPlayerID' = pid
        /\ players' = [players EXCEPT ![r] = Put(@, pid, 0)]
        /\ conns' = [conns EXCEPT ![r] = Put(@, pid, c)]
        /\ reply' = [reply EXCEPT ![c] = IF gone[c] THEN @ ELSE pid]
        /\ UNCHANGED <<rooms, tick, rd, room, id, done, gone, joins, seq>>

(* The reply goes into a channel of capacity one: the room would block     *)
(* there if the channel were full.                                         *)
ApplyJoin(r) ==
    LET pid == nextPlayerID + 1
        c   == Head(inbox[r]).conn
    IN  /\ Received(r, "join")
        /\ pid \in Pid
        /\ reply[c] = 0
        /\ nextPlayerID' = pid
        /\ players' = [players EXCEPT ![r] = Put(@, pid, 0)]
        /\ conns' = [conns EXCEPT ![r] = Put(@, pid, c)]
        /\ reply' = [reply EXCEPT ![c] = pid]
        /\ UNCHANGED <<rooms, tick, rd, room, id, done, gone, joins, seq>>

ApplyMove(r) ==
    LET m == Head(inbox[r])
    IN  /\ Received(r, "move")
        /\ players' = IF m.pid \in DOMAIN players[r]
                      THEN [players EXCEPT ![r] = Put(@, m.pid, m.seq)]
                      ELSE players
        /\ UNCHANGED <<nextPlayerID, rooms, conns, tick, readerVars>>

ApplyLeave(r) ==
    LET p == Head(inbox[r]).pid
    IN  /\ Received(r, "leave")
        /\ players' = [players EXCEPT ![r] = Del(@, p)]
        /\ conns' = [conns EXCEPT ![r] = Del(@, p)]
        /\ UNCHANGED <<nextPlayerID, rooms, tick, readerVars>>

=============================================================================
