------------------------------ MODULE GoEpoll ------------------------------
(***************************************************************************)
(* servers/go-epoll/main.go: one worker of the epoll reactor.  Of the      *)
(* other workers it sees the atomic counter of player ids, whose values    *)
(* decide nothing, and the process's table of descriptors, in which they   *)
(* take and free numbers as well; so one worker is enough.                 *)
(*                                                                         *)
(* Unlike servers/odin, whose design it ports, an event carries the number *)
(* of a file descriptor, which the worker looks up in a map; the tick is   *)
(* one of the events of a batch (a timerfd); and a second JOIN does not    *)
(* take the connection out of its old room.  Descriptors are reused: the   *)
(* kernel hands out the lowest free number of the process, which may be    *)
(* any that this worker does not have.                                     *)
(*                                                                         *)
(* A step is one accepted connection, one read, one parsed frame or one    *)
(* recipient of a snapshot.                                                *)
(***************************************************************************)
EXTENDS Integers, Sequences, FiniteSets

CONSTANTS Conn, RoomId, None,
          FdCount,   \* descriptors for connections that are told apart
          MaxEvents, \* maxEvents: events of one batch
          WbufCap,   \* frames in a write buffer at which frames are shed
          MaxJoin,   \* bound: JOIN frames a client sends
          MaxFrame   \* bound: frames the clients send, all together

ASSUME EpollConstants ==
    /\ None \notin RoomId \cup Conn
    /\ MaxEvents \in Nat \ {0}
    /\ FdCount \in Nat \ {0} /\ WbufCap \in Nat \ {0}
    /\ MaxJoin \in Nat /\ MaxFrame \in Nat
    /\ IsFiniteSet(Conn)

VARIABLES conns,     \* w.conns, and with it the kernel's table of descriptors
          armed,     \* epoll's interest: EPOLLOUT for this descriptor
          members,   \* w.rooms[r].members
          batch,     \* the events of the last EpollWait not yet handled
          pc,        \* where the worker is
          due,       \* the rooms onTick has not come to yet
          cur,       \* the room that step is at
          slots,     \* the array that step's second loop ranges over
          pos,       \* the position of that loop
          taken,     \* history: what slots held when the loop began
          nextPID,
          fd, rbuf, wbuf, room, midx, pid, lastSeq, wantOut, closed,  \* Conn
          sock,      \* what the client sent and the worker has not read
          link,      \* the client: "none", "backlog", "up", then how it left
          sent,      \* frames the clients have sent
          joins,     \* the rooms it has asked for
          got        \* history: the rooms a client has had snapshots of

workerVars == <<conns, armed, members, batch, pc, due, cur, slots, pos, taken, nextPID>>
connVars   == <<fd, rbuf, wbuf, room, midx, pid, lastSeq, wantOut, closed>>
clientVars == <<sock, link, sent, joins, got>>
vars == <<workerVars, connVars, clientVars>>

lnfd == 1
tfd  == 2
Fd   == 3 .. FdCount + 2
Pid  == 1 .. Cardinality(Conn) * MaxJoin

In    == [type : {"JOIN"}, room : RoomId] \cup [type : {"MOVE"}, seq : 1 .. MaxFrame]
           \cup [type : {"SHORT", "BAD"}]
Out   == [type : {"JOINED"}, pid : Pid] \cup [type : {"SNAPSHOT"}, room : RoomId]
Event == [fd : Fd \cup {lnfd, tfd}, on : SUBSET {"IN", "OUT", "HUP"}]

(* Type correctness: rooms and the loop of step hold connections, no nil.  *)
TypeOK ==
    /\ conns \in [Fd -> Conn \cup {None}]
    /\ armed \in [Fd -> BOOLEAN]
    /\ members \in [RoomId -> Seq(Conn)]
    /\ batch \in Seq(Event)
    /\ pc \in {"wait", "event", "parse", "out", "tick", "send"}
    /\ due \subseteq RoomId
    /\ cur \in RoomId \cup {None}
    /\ slots \in Seq(Conn) /\ taken \in Seq(Conn)
    /\ pos \in Nat
    /\ nextPID \in 0 .. Cardinality(Conn) * MaxJoin
    /\ fd \in [Conn -> Fd \cup {0}]
    /\ rbuf \in [Conn -> Seq(In)]
    /\ wbuf \in [Conn -> Seq(Out)]
    /\ room \in [Conn -> RoomId \cup {None}]
    /\ midx \in [Conn -> Nat]
    /\ pid \in [Conn -> Pid \cup {0}]
    /\ lastSeq \in [Conn -> 0 .. MaxFrame]
    /\ wantOut \in [Conn -> BOOLEAN]
    /\ closed \in [Conn -> BOOLEAN]
    /\ sock \in [Conn -> Seq(In)]
    /\ link \in [Conn -> {"none", "backlog", "up", "fin", "rst"}]
    /\ sent \in 0 .. MaxFrame
    /\ joins \in [Conn -> Seq(RoomId)]
    /\ got \in [Conn -> SUBSET RoomId]

(* Sequences start at 1 where the code's slices start at 0. *)
Init ==
    /\ conns = [f \in Fd |-> None]
    /\ armed = [f \in Fd |-> FALSE]
    /\ members = [r \in RoomId |-> <<>>]
    /\ batch = <<>>
    /\ pc = "wait"
    /\ due = {}
    /\ cur = None
    /\ slots = <<>> /\ taken = <<>>
    /\ pos = 1
    /\ nextPID = 0
    /\ fd = [c \in Conn |-> 0]
    /\ rbuf = [c \in Conn |-> <<>>]
    /\ wbuf = [c \in Conn |-> <<>>]
    /\ room = [c \in Conn |-> None]
    /\ midx = [c \in Conn |-> 0]
    /\ pid = [c \in Conn |-> 0]
    /\ lastSeq = [c \in Conn |-> 0]
    /\ wantOut = [c \in Conn |-> FALSE]
    /\ closed = [c \in Conn |-> FALSE]
    /\ sock = [c \in Conn |-> <<>>]
    /\ link = [c \in Conn |-> "none"]
    /\ sent = 0
    /\ joins = [c \in Conn |-> <<>>]
    /\ got = [c \in Conn |-> {}]

Left(c) == link[c] \in {"fin", "rst"}

-----------------------------------------------------------------------------
(* closeConn.                                                              *)

(* The last member takes the place of c, in the array that a running loop  *)
(* of step shares with the room; the slot at the end keeps what it held.   *)
(* An index that does not lead to c removes nothing.                       *)
Found(c) ==
    /\ room[c] # None
    /\ midx[c] \in 1 .. Len(members[room[c]])
    /\ members[room[c]][midx[c]] = c

Last(c) == members[room[c]][Len(members[room[c]])]

ClearedSlots(c) ==                               \* mutant: the slot at the end is cleared
    IF pc = "send" /\ room[c] = cur /\ Found(c)
    THEN [slots EXCEPT ![midx[c]] = Last(c), ![Len(members[room[c]])] = None]
    ELSE slots

Overwritten(c) ==
    IF pc = "send" /\ room[c] = cur /\ Found(c) THEN [slots EXCEPT ![midx[c]] = Last(c)] ELSE slots

RemovedHole(c) ==                                \* mutant: leaves nil behind
    IF Found(c) THEN [members EXCEPT ![room[c]][midx[c]] = None] ELSE members

Removed(c) ==
    IF Found(c)
    THEN [members EXCEPT ![room[c]] =
            SubSeq([@ EXCEPT ![midx[c]] = Last(c)], 1, Len(@) - 1)]
    ELSE members

NotReindexed(c) == midx                          \* mutant: the moved member keeps its index

Reindexed(c) == IF Found(c) THEN [midx EXCEPT ![Last(c)] = midx[c]] ELSE midx

CloseConn(c) ==
    /\ ~closed[c]
    /\ closed' = [closed EXCEPT ![c] = TRUE]
    /\ conns' = [conns EXCEPT ![fd[c]] = None]
    /\ armed' = [armed EXCEPT ![fd[c]] = FALSE]
    /\ members' = Removed(c)
    /\ midx' = Reindexed(c)
    /\ slots' = Overwritten(c)
    /\ room' = [room EXCEPT ![c] = None]

(* A connection that is closed already is left alone. *)
Close(c) ==
    \/ CloseConn(c)
    \/ closed[c] /\ UNCHANGED <<closed, conns, armed, members, midx, slots, room>>

KeepOpen == UNCHANGED <<closed, conns, members, midx, slots, room>>

-----------------------------------------------------------------------------
(* Output.                                                                 *)

(* The client at the other end of c's descriptor: c's own, unless c has    *)
(* been closed and the number is in use again.                             *)
Peer(c) == conns[fd[c]]

Receive(d, f) ==
    got' = IF f.type = "SNAPSHOT" THEN [got EXCEPT ![d] = @ \cup {f.room}] ELSE got

Arm(c) ==
    IF wantOut[c] THEN UNCHANGED <<wantOut, armed>>
    ELSE /\ wantOut' = [wantOut EXCEPT ![c] = TRUE]
         /\ armed' = IF Peer(c) = None THEN armed ELSE [armed EXCEPT ![fd[c]] = TRUE]

NotArmed(c) == UNCHANGED <<wantOut, armed>>      \* mutant: EPOLLOUT is forgotten

ArmOut(c) == Arm(c)

(* enqueue, with an empty buffer: a write, which fails on a closed number  *)
(* (EBADF) and may fail when the peer is gone.                             *)
EnqueueWrite(c, f) ==
    /\ wbuf[c] = <<>>
    /\ \/ /\ Peer(c) # None => Left(Peer(c))
          /\ Close(c)
          /\ UNCHANGED <<wbuf, wantOut, got>>
       \/ /\ Peer(c) # None
          /\ Receive(Peer(c), f)
          /\ KeepOpen
          /\ UNCHANGED <<wbuf, wantOut, armed>>
       \/ /\ Peer(c) # None
          /\ wbuf' = [wbuf EXCEPT ![c] = <<f>>]
          /\ ArmOut(c)
          /\ KeepOpen
          /\ UNCHANGED got

(* ... with a buffer that is not empty: the frame is shed when the buffer  *)
(* is at its limit.                                                        *)
EnqueueBehind(c, f) ==
    /\ wbuf[c] # <<>>
    /\ IF Len(wbuf[c]) >= WbufCap THEN UNCHANGED <<wbuf, wantOut, armed>>
       ELSE wbuf' = [wbuf EXCEPT ![c] = Append(@, f)] /\ ArmOut(c)
    /\ KeepOpen
    /\ UNCHANGED got

Enqueue(c, f) == EnqueueWrite(c, f) \/ EnqueueBehind(c, f)

-----------------------------------------------------------------------------
(* The worker's loop.                                                      *)

Current == conns[Head(batch).fd]

Handled ==
    /\ batch' = Tail(batch)
    /\ pc' = "event"

(* What epoll may report of a descriptor. *)
Ready(f) ==
    LET c == conns[f]
    IN  {on \in SUBSET {"IN", "OUT", "HUP"} :
           /\ on # {}
           /\ "IN" \in on <=> (sock[c] # <<>> \/ Left(c))
           /\ "OUT" \in on => armed[f]
           /\ "HUP" \in on <=> link[c] = "rst"}

(* One event per ready descriptor, in any order.  The timer is ready when  *)
(* the clock says so.                                                      *)
Batches ==
    LET es == {e \in Event : e.fd \in Fd /\ conns[e.fd] # None /\ e.on \in Ready(e.fd)}
               \cup {[fd |-> tfd, on |-> {"IN"}]}
               \cup {e \in {[fd |-> lnfd, on |-> {"IN"}]} :
                       \E c \in Conn : link[c] = "backlog"}
        Once(S) == \A e, f \in S : e.fd = f.fd => e = f
    IN  UNION {{q \in [1 .. Cardinality(S) -> S] : {q[i] : i \in DOMAIN q} = S} :
                 S \in {S \in SUBSET es : Cardinality(S) \in 1 .. MaxEvents /\ Once(S)}}

EpollWait ==
    /\ pc = "wait"
    /\ batch' \in Batches
    /\ pc' = "event"
    /\ UNCHANGED <<conns, armed, members, due, cur, slots, pos, taken, nextPID,
                   connVars, clientVars>>

EndBatch ==
    /\ pc = "event" /\ batch = <<>>
    /\ pc' = "wait"
    /\ UNCHANGED <<conns, armed, members, batch, due, cur, slots, pos, taken, nextPID,
                   connVars, clientVars>>

Event1(f) == pc = "event" /\ batch # <<>> /\ Head(batch).fd = f

(* accept: one connection of the backlog.  Which descriptor is free depends *)
(* on the connections of the other workers.                                *)
Accept(c) ==
    /\ Event1(lnfd)
    /\ link[c] = "backlog"
    /\ link' = [link EXCEPT ![c] = "up"]
    /\ \E f \in {f \in Fd : conns[f] = None} :
         /\ fd' = [fd EXCEPT ![c] = f]
         /\ conns' = [conns EXCEPT ![f] = c]
         /\ armed' = [armed EXCEPT ![f] = FALSE]
    /\ UNCHANGED <<members, batch, pc, due, cur, slots, pos, taken, nextPID,
                   rbuf, wbuf, room, midx, pid, lastSeq, wantOut, closed,
                   sock, sent, joins, got>>

(* accept fails: the backlog is drained, or the process, all its workers   *)
(* together, is out of descriptors.                                        *)
AcceptDone ==
    /\ Event1(lnfd)
    /\ Handled
    /\ UNCHANGED <<conns, armed, members, due, cur, slots, pos, taken, nextPID,
                   connVars, clientVars>>

(* An event of a descriptor that has been closed since EpollWait. *)
Stale ==
    /\ pc = "event" /\ batch # <<>> /\ Head(batch).fd \in Fd
    /\ Current = None
    /\ Handled
    /\ UNCHANGED <<conns, armed, members, due, cur, slots, pos, taken, nextPID,
                   connVars, clientVars>>

CurrentHas(S) ==
    /\ pc = "event" /\ batch # <<>> /\ Head(batch).fd \in Fd
    /\ Current # None
    /\ S \subseteq Head(batch).on

HangUp ==
    /\ CurrentHas({"HUP"})
    /\ CloseConn(Current)
    /\ Handled
    /\ UNCHANGED <<due, cur, pos, taken, nextPID, fd, rbuf, wbuf, pid, lastSeq, wantOut,
                   clientVars>>

(* onReadable: an error, or end of file, seen at once when nothing is left *)
(* to read, or in the same call behind a full chunk, closes the connection *)
(* without a look at what has been read.                                   *)
ReadEndEmpty ==                                  \* mutant: EAGAIN is taken for the end
    /\ CurrentHas({"IN"}) /\ "HUP" \notin Head(batch).on
    /\ Left(Current) \/ sock[Current] = <<>>
    /\ CloseConn(Current)
    /\ Handled
    /\ UNCHANGED <<due, cur, pos, taken, nextPID, fd, rbuf, wbuf, pid, lastSeq, wantOut,
                   clientVars>>

ReadEnd ==
    /\ CurrentHas({"IN"}) /\ "HUP" \notin Head(batch).on
    /\ Left(Current)
    /\ CloseConn(Current)
    /\ Handled
    /\ UNCHANGED <<due, cur, pos, taken, nextPID, fd, rbuf, wbuf, pid, lastSeq, wantOut,
                   clientVars>>

(* ... or the socket is drained, of nothing at all if the event is stale.  *)
ReadSome ==
    /\ CurrentHas({"IN"}) /\ "HUP" \notin Head(batch).on
    /\ link[Current] # "rst"
    /\ Left(Current) => sock[Current] # <<>>
    /\ rbuf' = [rbuf EXCEPT ![Current] = @ \o sock[Current]]
    /\ sock' = [sock EXCEPT ![Current] = <<>>]
    /\ pc' = "parse"
    /\ UNCHANGED <<conns, armed, members, batch, due, cur, slots, pos, taken, nextPID,
                   fd, wbuf, room, midx, pid, lastSeq, wantOut, closed,
                   link, sent, joins, got>>

Parsing(type) ==
    /\ pc = "parse"
    /\ rbuf[Current] # <<>>
    /\ Head(rbuf[Current]).type = type

(* The frame is done; a connection that closed over it is not parsed on.   *)
NextFrame(c) ==
    IF closed'[c] THEN Handled /\ UNCHANGED rbuf
    ELSE rbuf' = [rbuf EXCEPT ![c] = Tail(@)] /\ UNCHANGED <<batch, pc>>

(* handle, JOIN.  Whether the reply finds the peer gone is settled in the  *)
(* same step, on the room that now has the connection.                     *)
Joined(c, r) ==
    /\ nextPID' = nextPID + 1
    /\ pid' = [pid EXCEPT ![c] = nextPID + 1]
    /\ \/ /\ members' = [members EXCEPT ![r] = Append(@, c)]
          /\ midx' = [midx EXCEPT ![c] = Len(members[r]) + 1]
          /\ room' = [room EXCEPT ![c] = r]
          /\ \/ /\ wbuf[c] = <<>> /\ UNCHANGED <<wbuf, wantOut, armed>>
             \/ /\ Len(wbuf[c]) < WbufCap
                /\ wbuf' = [wbuf EXCEPT ![c] =
                              Append(@, [type |-> "JOINED", pid |-> nextPID + 1])]
                /\ ArmOut(c)
             \/ Len(wbuf[c]) >= WbufCap /\ UNCHANGED <<wbuf, wantOut, armed>>
          /\ UNCHANGED <<closed, conns>>
       \/ /\ wbuf[c] = <<>> /\ Left(c)
          /\ closed' = [closed EXCEPT ![c] = TRUE]
          /\ conns' = [conns EXCEPT ![fd[c]] = None]
          /\ armed' = [armed EXCEPT ![fd[c]] = FALSE]
          /\ midx' = [midx EXCEPT ![c] = Len(members[r]) + 1]
          /\ room' = [room EXCEPT ![c] = None]
          /\ UNCHANGED <<members, wbuf, wantOut>>
    /\ UNCHANGED slots

ParseJoin ==
    LET c == Current
    IN  /\ Parsing("JOIN")
        /\ Joined(c, Head(rbuf[c]).room)
        /\ NextFrame(c)
        /\ UNCHANGED <<due, cur, pos, taken, fd, lastSeq, clientVars>>

(* MOVE, also before the first JOIN. *)
ParseMove ==
    LET c == Current
    IN  /\ Parsing("MOVE")
        /\ lastSeq' = [lastSeq EXCEPT ![c] = Head(rbuf[c]).seq]
        /\ rbuf' = [rbuf EXCEPT ![c] = Tail(@)]
        /\ UNCHANGED <<workerVars, fd, wbuf, room, midx, pid, wantOut, closed, clientVars>>

(* A JOIN or MOVE that is too short, or an unknown type. *)
ParseShort ==
    /\ Parsing("SHORT")
    /\ rbuf' = [rbuf EXCEPT ![Current] = Tail(@)]
    /\ UNCHANGED <<workerVars, fd, wbuf, room, midx, pid, lastSeq, wantOut, closed,
                   clientVars>>

(* A length of zero, or beyond maxFrame. *)
ParseBad ==
    /\ Parsing("BAD")
    /\ CloseConn(Current)
    /\ Handled
    /\ UNCHANGED <<due, cur, pos, taken, nextPID, fd, rbuf, wbuf, pid, lastSeq, wantOut,
                   clientVars>>

ParseDone ==
    /\ pc = "parse"
    /\ rbuf[Current] = <<>>
    /\ IF "OUT" \in Head(batch).on THEN pc' = "out" /\ UNCHANGED batch ELSE Handled
    /\ UNCHANGED <<conns, armed, members, due, cur, slots, pos, taken, nextPID,
                   connVars, clientVars>>

(* flush: some of the buffer goes out, or the write fails. *)
Flush ==
    LET c == Current
    IN  /\ pc = "out" \/ (CurrentHas({"OUT"}) /\ Head(batch).on = {"OUT"})
        /\ \/ \E k \in 0 .. Len(wbuf[c]) :
                LET rest == SubSeq(wbuf[c], k + 1, Len(wbuf[c]))
                    out  == {wbuf[c][i].room : i \in {i \in 1 .. k : wbuf[c][i].type = "SNAPSHOT"}}
                IN  /\ wbuf' = [wbuf EXCEPT ![c] = rest]
                    /\ got' = [got EXCEPT ![c] = @ \cup out]
                    /\ wantOut' = [wantOut EXCEPT ![c] = @ /\ rest # <<>>]
                    /\ armed' = [armed EXCEPT ![fd[c]] =
                                   @ /\ (rest # <<>> \/ ~wantOut[c])]
                    /\ KeepOpen
           \/ /\ wbuf[c] # <<>> /\ Left(c)
              /\ CloseConn(c)
              /\ UNCHANGED <<wbuf, wantOut, got>>
        /\ Handled
        /\ UNCHANGED <<due, cur, pos, taken, nextPID, fd, rbuf, pid, lastSeq,
                       sock, link, sent, joins>>

(* onTick goes through the rooms in the order of a Go map: any order. *)
OnTick ==
    /\ Event1(tfd)
    /\ pc' = "tick"
    /\ due' = RoomId
    /\ UNCHANGED <<conns, armed, members, batch, cur, slots, pos, taken, nextPID,
                   connVars, clientVars>>

(* step builds the frame; its second loop ranges over the members of now.  *)
Step(r) ==
    /\ pc = "tick"
    /\ r \in due
    /\ due' = due \ {r}
    /\ IF members[r] = <<>> THEN UNCHANGED <<pc, cur, slots, pos, taken>>
       ELSE /\ pc' = "send"
            /\ cur' = r
            /\ slots' = members[r] /\ taken' = members[r]
            /\ pos' = 1
    /\ UNCHANGED <<conns, armed, members, batch, nextPID, connVars, clientVars>>

(* One turn of that loop. *)
Send ==
    /\ pc = "send"
    /\ pos <= Len(slots)
    /\ Enqueue(slots[pos], [type |-> "SNAPSHOT", room |-> cur])
    /\ pos' = pos + 1
    /\ UNCHANGED <<batch, pc, due, cur, taken, nextPID, fd, rbuf, pid, lastSeq,
                   sock, link, sent, joins>>

StepEnd ==
    /\ pc = "send"
    /\ pos > Len(slots)
    /\ pc' = "tick"
    /\ cur' = None
    /\ slots' = <<>> /\ taken' = <<>>
    /\ pos' = 1
    /\ UNCHANGED <<conns, armed, members, batch, due, nextPID, connVars, clientVars>>

TickEnd ==
    /\ pc = "tick"
    /\ due = {}
    /\ Handled
    /\ UNCHANGED <<conns, armed, members, due, cur, slots, pos, taken, nextPID,
                   connVars, clientVars>>

-----------------------------------------------------------------------------
(* The clients.                                                            *)

Connect(c) ==
    /\ link[c] = "none"
    /\ link' = [link EXCEPT ![c] = "backlog"]
    /\ UNCHANGED <<workerVars, connVars, sock, sent, joins, got>>

SendFrame(c, f) ==
    /\ link[c] = "up" /\ ~closed[c]
    /\ sent < MaxFrame
    /\ sent' = sent + 1
    /\ sock' = [sock EXCEPT ![c] = Append(@, f)]
    /\ UNCHANGED <<workerVars, connVars, link, got>>

SendJoin(c, r) ==
    /\ Len(joins[c]) < MaxJoin
    /\ joins' = [joins EXCEPT ![c] = Append(@, r)]
    /\ SendFrame(c, [type |-> "JOIN", room |-> r])

SendOther(c) ==
    /\ \E f \in {[type |-> "MOVE", seq |-> sent + 1], [type |-> "SHORT"], [type |-> "BAD"]} :
         SendFrame(c, f)
    /\ UNCHANGED joins

Leave(c) ==
    /\ link[c] \in {"up", "fin"} /\ ~closed[c]
    /\ \E how \in {"fin", "rst"} \ {link[c]} : link' = [link EXCEPT ![c] = how]
    /\ UNCHANGED <<workerVars, connVars, sock, sent, joins, got>>

Loop ==
    \/ EpollWait \/ EndBatch \/ AcceptDone \/ Stale \/ HangUp \/ ReadEnd \/ ReadSome
    \/ ParseJoin \/ ParseMove \/ ParseShort \/ ParseBad \/ ParseDone \/ Flush
    \/ OnTick \/ Send \/ StepEnd \/ TickEnd
    \/ \E c \in Conn : Accept(c)
    \/ \E r \in RoomId : Step(r)

Next ==
    \/ Loop
    \/ \E c \in Conn :
         \/ Connect(c) \/ SendOther(c) \/ Leave(c)
         \/ \E r \in RoomId : SendJoin(c, r)

Spec == Init /\ [][Next]_vars

-----------------------------------------------------------------------------
(* Properties.                                                             *)

(* As long as nobody joins twice: rooms hold open connections only, each   *)
(* at the index it remembers, whichever handler closed the others.         *)
MembersIndexed ==
    /\ \A r \in RoomId : \A i \in 1 .. Len(members[r]) :
         LET c == members[r][i]
         IN  ~closed[c] /\ room[c] = r /\ midx[c] = i
    /\ \A c \in Conn : room[c] # None => Found(c)

(* As long as nobody joins twice: a broadcast reaches every member of the  *)
(* room once, although closing a member whose write fails rearranges the   *)
(* very array that the broadcast goes through.                             *)
EachOnce == \A i \in pos .. Len(slots) : slots[i] = taken[i]

(* A snapshot goes only to clients that have asked to join its room.       *)
OnlyMembers ==
    \A c \in Conn : got[c] \subseteq {joins[c][i] : i \in DOMAIN joins[c]}

(* Output that waits is waited for: a connection with something in its     *)
(* buffer has EPOLLOUT armed for its descriptor, and no other has.         *)
OutArmed ==
    \A f \in Fd : armed[f] <=> (conns[f] # None /\ wbuf[conns[f]] # <<>>)

(* A stale event may reach the next connection with the same number.  What *)
(* it can do there is limited to a hang-up: the worker closes a healthy    *)
(* connection only on a HUP that was reported for its predecessor, never   *)
(* for want of data or for lack of room in the socket.                     *)
ClosedForCause ==
    [][\A c \in Conn : closed'[c] /\ ~closed[c] =>
         \/ Left(c)
         \/ pc = "parse" /\ Head(rbuf[c]).type = "BAD"
         \/ pc = "event" /\ "HUP" \in Head(batch).on]_vars

============================================================================
