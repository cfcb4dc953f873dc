--------------------------- MODULE GoServerProofs ---------------------------
(***************************************************************************)
(* The reference Go server for any number of clients, rooms, MOVEs and     *)
(* ticks and any capacity of its channels: types, the order in which a     *)
(* player's MOVEs are applied, the cleanup after a connection, and the     *)
(* order of the snapshots a client is sent.                                *)
(***************************************************************************)
EXTENDS GoServer, SequenceTheorems, TLAPS

-----------------------------------------------------------------------------
(* The maps of a room, and the types under each step of a reader or room.  *)

(* Adding a player to a room's map keeps it a map from player ids.         *)
LEMMA PutPidMap ==
    ASSUME NEW S, NEW f \in PidMap(S), NEW k \in Pid, NEW v \in S
    PROVE  Put(f, k, v) \in PidMap(S)
<1>1. PICK D \in SUBSET Pid : f \in [D -> S]
  BY DEF PidMap
<1>2. Put(f, k, v) \in [D \cup {k} -> S]
  BY <1>1 DEF Put
<1>3. D \cup {k} \in SUBSET Pid
  BY <1>1
<1> QED BY <1>2, <1>3 DEF PidMap

(* So does deleting one.                                                   *)
LEMMA DelPidMap ==
    ASSUME NEW S, NEW f \in PidMap(S), NEW k
    PROVE  Del(f, k) \in PidMap(S)
<1>1. PICK D \in SUBSET Pid : f \in [D -> S]
  BY DEF PidMap
<1>2. Del(f, k) \in [D \ {k} -> S]
  BY <1>1 DEF Del
<1>3. D \ {k} \in SUBSET Pid
  BY <1>1
<1> QED BY <1>2, <1>3 DEF PidMap

(* A room starts with empty maps.                                          *)
LEMMA EmptyPidMap == ASSUME NEW S PROVE Empty \in PidMap(S)
<1>1. Empty \in [{} -> S]
  BY DEF Empty
<1> QED BY <1>1 DEF PidMap

(* The ids in a map are player ids, its values what the map is for.        *)
LEMMA PidMapFacts ==
    ASSUME NEW S, NEW f \in PidMap(S)
    PROVE  /\ DOMAIN f \in SUBSET Pid
           /\ \A p \in DOMAIN f : f[p] \in S
BY DEF PidMap

LEMMA RoomTypeInit == RoomInit => RoomTypeOK
<1> SUFFICES ASSUME RoomInit PROVE RoomTypeOK
  OBVIOUS
<1>1. Empty \in PidMap(SeqNo) /\ Empty \in PidMap(Conn)
  BY EmptyPidMap
<1>2. 0 \in 0 .. MaxPid /\ 0 \in SeqNo
  BY RoomConstants DEF SeqNo
<1>3. \A r \in RoomId : <<>> \in Seq(Cmd)
  OBVIOUS
<1> QED BY <1>1, <1>2, <1>3 DEF RoomInit, RoomTypeOK, ReaderPc

(* The steps of a reader keep the types: its reads, ...                    *)
LEMMA ReadsType ==
    ASSUME RoomTypeOK, NEW c \in Conn,
           \/ \E r \in RoomId : ReadJoin(c, r)
           \/ ReadMove(c) \/ ReadError(c)
    PROVE  RoomTypeOK'
<1> USE RoomConstants DEF RoomTypeOK, ReaderPc, roomVars
<1>1. CASE \E r \in RoomId : ReadJoin(c, r)
  <2>1. PICK r \in RoomId : ReadJoin(c, r)
    BY <1>1
  <2>2. 0 \in 0 .. MaxPid
    OBVIOUS
  <2> QED BY <2>1, <2>2 DEF ReadJoin
<1>2. CASE ReadMove(c)
  <2>1. seq[c] + 1 \in SeqNo
    BY <1>2 DEF ReadMove, SeqNo
  <2> QED BY <1>2, <2>1 DEF ReadMove
<1>3. CASE ReadError(c)
  BY <1>3 DEF ReadError
<1> QED BY <1>1, <1>2, <1>3

(* ... its channel operations, ...                                         *)
LEMMA StepsType ==
    ASSUME RoomTypeOK, NEW c \in Conn,
           SendJoin(c) \/ SendMove(c) \/ SendLeave(c) \/ TakeReply(c) \/ Close(c)
    PROVE  RoomTypeOK'
<1>1. ASSUME NEW m \in Cmd, NEW next \in ReaderPc, Post(c, m, next)
      PROVE  RoomTypeOK'
  <2>1. inbox' \in [RoomId -> Seq(Cmd)]
    <3>1. ASSUME NEW r \in RoomId
          PROVE  Append(inbox[r], m) \in Seq(Cmd)
      BY DEF RoomTypeOK
    <3> QED BY <1>1, <3>1 DEF RoomTypeOK, Post
  <2>2. rd' \in [Conn -> ReaderPc]
    BY <1>1 DEF RoomTypeOK, Post
  <2> QED BY <1>1, <2>1, <2>2 DEF RoomTypeOK, Post
<1>2. CASE SendJoin(c)
  BY <1>1, <1>2 DEF SendJoin, Cmd, ReaderPc
<1>3. CASE SendMove(c)
  BY <1>1, <1>3 DEF SendMove, Cmd, ReaderPc, RoomTypeOK
<1>4. CASE SendLeave(c)
  BY <1>1, <1>4 DEF SendLeave, Cmd, ReaderPc, RoomTypeOK
<1>5. CASE TakeReply(c)
  <2>1. 0 \in 0 .. MaxPid
    BY RoomConstants
  <2> QED BY <1>5, <2>1 DEF TakeReply, RoomTypeOK, ReaderPc, roomVars
<1>6. CASE Close(c)
  BY <1>6 DEF Close, RoomTypeOK, ReaderPc, roomVars
<1> QED BY <1>2, <1>3, <1>4, <1>5, <1>6

(* ... and so do the commands a room applies.                              *)
LEMMA CommandsType ==
    ASSUME RoomTypeOK, NEW r \in RoomId,
           ApplyJoin(r) \/ ApplyMove(r) \/ ApplyLeave(r)
    PROVE  RoomTypeOK'
<1> DEFINE m == Head(inbox[r])
<1>1. inbox[r] \in Seq(Cmd) /\ inbox[r] # <<>> /\ inbox' = [inbox EXCEPT ![r] = Tail(@)]
  BY DEF RoomTypeOK, ApplyJoin, ApplyMove, ApplyLeave, Received
<1>2. m \in Cmd /\ inbox' \in [RoomId -> Seq(Cmd)]
  BY <1>1 DEF RoomTypeOK
<1> HIDE DEF m
<1>3. CASE ApplyJoin(r)
  <2>1. m.conn \in Conn
    BY <1>2, <1>3 DEF ApplyJoin, Received, Cmd, m
  <2>2. nextPlayerID + 1 \in Pid /\ 0 \in SeqNo
    BY <1>3, RoomConstants DEF ApplyJoin, SeqNo
  <2>3. nextPlayerID + 1 \in 0 .. MaxPid
    BY <2>2 DEF Pid
  <2>4. /\ Put(players[r], nextPlayerID + 1, 0) \in PidMap(SeqNo)
        /\ Put(conns[r], nextPlayerID + 1, m.conn) \in PidMap(Conn)
    BY <2>1, <2>2, PutPidMap DEF RoomTypeOK
  <2>5. /\ players' \in [RoomId -> PidMap(SeqNo)]
        /\ conns' \in [RoomId -> PidMap(Conn)]
    BY <1>3, <2>4 DEF ApplyJoin, RoomTypeOK, m
  <2> QED BY <1>2, <1>3, <2>1, <2>3, <2>5 DEF ApplyJoin, RoomTypeOK, m
<1>4. CASE ApplyMove(r)
  <2>1. m.seq \in SeqNo
    BY <1>2, <1>4 DEF ApplyMove, Received, Cmd, m
  <2>2. m.pid \in DOMAIN players[r] =>
          Put(players[r], m.pid, m.seq) \in PidMap(SeqNo)
    BY <2>1, PutPidMap, PidMapFacts DEF RoomTypeOK
  <2>3. players' \in [RoomId -> PidMap(SeqNo)]
    BY <1>4, <2>2 DEF ApplyMove, RoomTypeOK, m
  <2> QED BY <1>2, <1>4, <2>3 DEF ApplyMove, RoomTypeOK, readerVars, m
<1>5. CASE ApplyLeave(r)
  <2>1. /\ Del(players[r], m.pid) \in PidMap(SeqNo)
        /\ Del(conns[r], m.pid) \in PidMap(Conn)
    BY DelPidMap DEF RoomTypeOK
  <2>2. /\ players' \in [RoomId -> PidMap(SeqNo)]
        /\ conns' \in [RoomId -> PidMap(Conn)]
    BY <1>5, <2>1 DEF ApplyLeave, RoomTypeOK, m
  <2> QED BY <1>2, <1>5, <2>2 DEF ApplyLeave, RoomTypeOK, readerVars, m
<1> QED BY <1>3, <1>4, <1>5

-----------------------------------------------------------------------------
(* Types.                                                                  *)

\* A broadcast under way, a writer with a frame.
Bcast  == [frame : Frame, todo : SUBSET Pid]
Writer == [pc : {"write"}, frame : Frame]

LEMMA SnapshotFrame ==
    ASSUME RoomTypeOK, NEW r \in RoomId
    PROVE  Snapshot(r) \in Frame /\ NextTick(tick[r]) \in Nat
<1>1. NextTick(tick[r]) \in Nat
  BY DEF RoomTypeOK, NextTick
<1>2. players[r] \in PidMap(SeqNo)
  BY DEF RoomTypeOK
<1> QED BY <1>1, <1>2 DEF Snapshot, Frame

LEMMA JoinedFrame ==
    ASSUME RoomTypeOK, NEW c \in Conn
    PROVE  Joined(c) \in Frame
BY DEF RoomTypeOK, Joined, Frame

LEMMA TypeInit == Init => StateTypeOK
<1> SUFFICES ASSUME Init PROVE StateTypeOK
  OBVIOUS
<1>1. RoomTypeOK
  BY RoomTypeInit DEF Init
<1>2. <<>> \in Seq(Frame)
  OBVIOUS
<1> QED BY <1>1, <1>2 DEF Init, StateTypeOK

LEMMA StartStepType ==
    ASSUME StateTypeOK, NEW r \in RoomId, StartStep(r)
    PROVE  StateTypeOK'
<1>1. RoomTypeOK
  BY DEF StateTypeOK
<1>2. Snapshot(r) \in Frame /\ NextTick(tick[r]) \in Nat /\ DOMAIN conns[r] \in SUBSET Pid
  BY <1>1, SnapshotFrame, PidMapFacts DEF RoomTypeOK
<1>3. [frame |-> Snapshot(r), todo |-> DOMAIN conns[r]] \in Bcast
  BY <1>2 DEF Bcast
<1>4. bcast' \in [RoomId -> {None} \cup Bcast]
  BY <1>3 DEF StateTypeOK, StartStep, Bcast
<1>5. tick' \in [RoomId -> Nat]
  BY <1>1, <1>2 DEF StartStep, RoomTypeOK
<1>6. RoomTypeOK'
  BY <1>1, <1>5 DEF StartStep, RoomTypeOK, readerVars
<1> QED BY <1>4, <1>6 DEF StateTypeOK, StartStep, Bcast

LEMMA OfferType ==
    ASSUME StateTypeOK, NEW r \in RoomId, NEW p \in DOMAIN conns[r], Offer(r, p)
    PROVE  StateTypeOK'
<1> DEFINE c == conns[r][p]
           todo == bcast[r].todo \ {p}
<1>1. c \in Conn
  BY PidMapFacts DEF StateTypeOK, RoomTypeOK
<1>2. bcast[r] \in Bcast
  BY DEF StateTypeOK, Offer, Bcast
<1>3. bcast[r].frame \in Frame /\ [bcast[r] EXCEPT !.todo = todo] \in Bcast
  BY <1>2 DEF Bcast
<1>4. bcast' \in [RoomId -> {None} \cup Bcast]
  BY <1>3 DEF StateTypeOK, Offer, Bcast
<1>5. Append(send[c], bcast[r].frame) \in Seq(Frame)
  BY <1>1, <1>3 DEF StateTypeOK
<1>6. send' \in [Conn -> Seq(Frame)]
  BY <1>1, <1>5 DEF StateTypeOK, Offer
<1>7. RoomTypeOK'
  BY DEF StateTypeOK, Offer, RoomTypeOK, actorVars, roomVars, readerVars
<1> QED BY <1>4, <1>6, <1>7 DEF StateTypeOK, Offer, Bcast

LEMMA SendJoinedType ==
    ASSUME StateTypeOK, NEW c \in Conn, SendJoined(c)
    PROVE  StateTypeOK'
<1>1. RoomTypeOK'
  BY DEF StateTypeOK, SendJoined, RoomTypeOK, roomVars, ReaderPc
<1>2. Joined(c) \in Frame
  BY JoinedFrame DEF StateTypeOK
<1>3. Append(send[c], Joined(c)) \in Seq(Frame)
  BY <1>2 DEF StateTypeOK
<1>4. send' \in [Conn -> Seq(Frame)]
  BY <1>3 DEF StateTypeOK, SendJoined
<1> QED BY <1>1, <1>4 DEF StateTypeOK, SendJoined

LEMMA WriterType ==
    ASSUME StateTypeOK, NEW c \in Conn,
           WriterTake(c) \/ WriteOk(c) \/ WriteError(c) \/ WriterDone(c)
    PROVE  StateTypeOK'
<1>1. RoomTypeOK'
  BY DEF StateTypeOK, WriterTake, WriteOk, WriteError, WriterDone, RoomTypeOK,
         actorVars, roomVars, readerVars
<1>2. send[c] \in Seq(Frame) /\ wr \in [Conn -> {Idle, Exited} \cup Writer]
      /\ send \in [Conn -> Seq(Frame)]
  BY DEF StateTypeOK, Writer
<1>3. CASE WriterTake(c)
  <2>1. Head(send[c]) \in Frame /\ Tail(send[c]) \in Seq(Frame)
    BY <1>2, <1>3, HeadTailProperties DEF WriterTake
  <2>2. Writing(Head(send[c])) \in Writer
    BY <2>1 DEF Writing, Writer
  <2>3. wr' \in [Conn -> {Idle, Exited} \cup Writer] /\ send' \in [Conn -> Seq(Frame)]
    BY <1>2, <1>3, <2>1, <2>2 DEF WriterTake
  <2> QED BY <1>1, <1>3, <2>3 DEF StateTypeOK, WriterTake, Writer
<1>4. CASE WriteOk(c) \/ WriteError(c) \/ WriterDone(c)
  <2>1. wr' \in [Conn -> {Idle, Exited} \cup Writer]
    BY <1>2, <1>4 DEF WriteOk, WriteError, WriterDone
  <2> QED BY <1>1, <1>4, <2>1 DEF StateTypeOK, WriteOk, WriteError, WriterDone, Writer
<1> QED BY <1>3, <1>4

LEMMA DropType == ASSUME StateTypeOK, NEW c \in Conn, Drop(c) PROVE StateTypeOK'
BY DEF StateTypeOK, RoomTypeOK, Drop, Disconnect, frameVars, roomVars

LEMMA TypeStep == StateTypeOK /\ [Work]_workVars => StateTypeOK'
<1> SUFFICES ASSUME StateTypeOK, [Work]_workVars PROVE StateTypeOK'
  OBVIOUS
<1>1. ASSUME RoomTypeOK', UNCHANGED frameVars PROVE StateTypeOK'
  BY <1>1 DEF StateTypeOK, frameVars
<1>2. RoomTypeOK
  BY DEF StateTypeOK
<1>3. CASE \E r \in RoomId : RunCmd(r)
  BY <1>1, <1>2, <1>3, CommandsType DEF RunCmd
<1>4. CASE \E r \in RoomId : StartStep(r)
  BY <1>4, StartStepType
<1>5. CASE \E r \in RoomId : \E p \in DOMAIN conns[r] : Offer(r, p)
  BY <1>5, OfferType
<1>6. CASE \E c \in Conn : Read(c) \/ Fail(c)
  BY <1>1, <1>2, <1>6, ReadsType DEF Read, Fail
<1>7. CASE \E c \in Conn : Step(c)
  BY <1>1, <1>2, <1>7, StepsType DEF Step
<1>8. CASE \E c \in Conn : SendJoined(c)
  BY <1>8, SendJoinedType
<1>9. CASE \E c \in Conn : Drop(c)
  BY <1>9, DropType
<1>10. CASE \E c \in Conn : WriterTake(c) \/ WriteOk(c) \/ WriteError(c) \/ WriterDone(c)
  BY <1>10, WriterType
<1>11. CASE UNCHANGED workVars
  BY <1>11 DEF StateTypeOK, RoomTypeOK, workVars, actorVars, frameVars, roomVars, readerVars
<1> QED BY <1>3, <1>4, <1>5, <1>6, <1>7, <1>8, <1>9, <1>10, <1>11 DEF Work

(* The end of the process leaves everything else as it is. *)
LEMMA StepIsWork == [Next]_vars => [Work]_workVars
BY DEF Next, Alive, Panic, vars, workVars

(* Types: the channels of the server carry whole frames and commands,      *)
(* never nil, and a writer that exits holds none.                          *)
THEOREM ServerTypes == SafeSpec => []TypeOK
<1>1. Init => TypeOK
  BY TypeInit DEF Init, TypeOK
<1>2. TypeOK /\ [Next]_vars => TypeOK'
  <2>1. TypeOK /\ [Next]_vars => up' \in BOOLEAN
    BY DEF Next, Alive, Panic, vars, TypeOK
  <2> QED BY <2>1, TypeStep, StepIsWork DEF TypeOK
<1> QED BY <1>1, <1>2, PTL DEF SafeSpec

-----------------------------------------------------------------------------
(* The order of the MOVEs.                                                 *)

\* Connection c is the one that was given id p, or is about to learn it.
Holds(c, p) == p # 0 /\ (id[c] = p \/ reply[c] = p)

\* A MOVE for player p.
IsMove(m, p) == m.op = "move" /\ m.pid = p

\* An inbox q and a map f know no player with an id above n.
Known(q, f, n) ==
    /\ \A i \in 1 .. Len(q) : \A p \in Pid : IsMove(q[i], p) => p <= n
    /\ \A p \in DOMAIN f : p <= n

\* No MOVE of p in inbox q, and no MOVE of p applied to f, is later than n.
UpTo(q, f, p, n) ==
    /\ \A i \in 1 .. Len(q) : IsMove(q[i], p) => q[i].seq <= n
    /\ p \in DOMAIN f => f[p] <= n

\* The MOVEs of each player wait in their order, after the one applied last.
InOrder(q, f) ==
    \A p \in Pid :
      /\ \A i, j \in 1 .. Len(q) :
           i < j /\ IsMove(q[i], p) /\ IsMove(q[j], p) => q[i].seq <= q[j].seq
      /\ p \in DOMAIN f => \A i \in 1 .. Len(q) : IsMove(q[i], p) => f[p] <= q[i].seq

HoldInv ==
    /\ \A c \in Conn : id[c] <= nextPlayerID /\ reply[c] <= nextPlayerID
    /\ \A c, d \in Conn : \A p \in Pid : Holds(c, p) /\ Holds(d, p) => c = d
SeqInv ==
    /\ \A r \in RoomId : Known(inbox[r], players[r], nextPlayerID)
    /\ \A r \in RoomId : InOrder(inbox[r], players[r])
    /\ \A r \in RoomId : \A c \in Conn : \A p \in Pid :
         Holds(c, p) => UpTo(inbox[r], players[r], p, seq[c])
MoveInv == HoldInv /\ SeqInv

LEMMA MoveSeq ==
    ASSUME NEW m \in Cmd, NEW p, IsMove(m, p)
    PROVE  m.seq \in SeqNo
BY DEF Cmd, IsMove

(* A command that is not a MOVE goes to the end of an inbox.               *)
LEMMA PostOther ==
    ASSUME NEW q \in Seq(Cmd), NEW f, NEW m \in Cmd, m.op # "move"
    PROVE  /\ \A n : Known(q, f, n) => Known(Append(q, m), f, n)
           /\ InOrder(q, f) => InOrder(Append(q, m), f)
           /\ \A p, n : UpTo(q, f, p, n) => UpTo(Append(q, m), f, p, n)
<1> DEFINE t == Append(q, m)
<1>1. /\ t \in Seq(Cmd) /\ Len(t) = Len(q) + 1 /\ Len(q) \in Nat /\ t[Len(q) + 1] = m
      /\ \A i \in 1 .. Len(q) : t[i] = q[i]
  BY AppendProperties, LenProperties
<1> HIDE DEF t
<1>2. \A i \in 1 .. Len(t) : i \in 1 .. Len(q) \/ t[i] = m
  BY <1>1
<1>3. \A i \in 1 .. Len(t) : \A p : IsMove(t[i], p) => i \in 1 .. Len(q) /\ t[i] = q[i]
  BY <1>1, <1>2 DEF IsMove
<1>4. \A n : Known(q, f, n) => Known(t, f, n)
  BY <1>3 DEF Known
<1>5. InOrder(q, f) => InOrder(t, f)
  BY <1>3 DEF InOrder
<1>6. \A p, n : UpTo(q, f, p, n) => UpTo(t, f, p, n)
  BY <1>3 DEF UpTo
<1> QED BY <1>4, <1>5, <1>6 DEF t

(* A MOVE goes to the end of an inbox where its player has no later one.   *)
LEMMA PostMove ==
    ASSUME NEW q \in Seq(Cmd), NEW f \in PidMap(SeqNo), NEW m \in Cmd, m.op = "move",
           InOrder(q, f), m.pid \in Pid => UpTo(q, f, m.pid, m.seq)
    PROVE  /\ \A n : Known(q, f, n) /\ m.pid <= n => Known(Append(q, m), f, n)
           /\ InOrder(Append(q, m), f)
           /\ \A p \in Pid : \A n : UpTo(q, f, p, n) /\ (m.pid = p => m.seq <= n)
                => UpTo(Append(q, m), f, p, n)
<1> DEFINE t == Append(q, m)
<1>1. /\ t \in Seq(Cmd) /\ Len(t) = Len(q) + 1 /\ Len(q) \in Nat /\ t[Len(q) + 1] = m
      /\ \A i \in 1 .. Len(q) : t[i] = q[i]
  BY AppendProperties, LenProperties
<1> HIDE DEF t
<1>2. \A i \in 1 .. Len(t) : (i \in 1 .. Len(q) /\ t[i] = q[i]) \/ (i = Len(t) /\ t[i] = m)
  BY <1>1
<1>3. \A n : Known(q, f, n) /\ m.pid <= n => Known(t, f, n)
  BY <1>2 DEF Known, IsMove
<1>4. InOrder(t, f)
  <2> SUFFICES ASSUME NEW p \in Pid
               PROVE  /\ \A i, j \in 1 .. Len(t) :
                          i < j /\ IsMove(t[i], p) /\ IsMove(t[j], p) => t[i].seq <= t[j].seq
                      /\ p \in DOMAIN f => \A i \in 1 .. Len(t) : IsMove(t[i], p) => f[p] <= t[i].seq
    BY DEF InOrder
  <2>1. IsMove(m, p) => UpTo(q, f, p, m.seq)
    BY DEF IsMove
  <2>2. ASSUME NEW i \in 1 .. Len(t), NEW j \in 1 .. Len(t), i < j,
               IsMove(t[i], p), IsMove(t[j], p)
        PROVE  t[i].seq <= t[j].seq
    <3>1. i \in 1 .. Len(q) /\ t[i] = q[i]
      BY <2>2, <1>1, <1>2
    <3>2. CASE j \in 1 .. Len(q) /\ t[j] = q[j]
      BY <2>2, <3>1, <3>2 DEF InOrder
    <3>3. CASE t[j] = m
      BY <2>1, <2>2, <3>1, <3>3 DEF UpTo
    <3> QED BY <3>2, <3>3, <1>2
  <2>3. p \in DOMAIN f => \A i \in 1 .. Len(t) : IsMove(t[i], p) => f[p] <= t[i].seq
    BY <1>2, <2>1 DEF InOrder, UpTo
  <2> QED BY <2>2, <2>3
<1>5. \A p \in Pid : \A n : UpTo(q, f, p, n) /\ (m.pid = p => m.seq <= n) => UpTo(t, f, p, n)
  BY <1>2 DEF UpTo, IsMove
<1> QED BY <1>3, <1>4, <1>5 DEF t

(* The head of an inbox is taken; the map loses entries, or keeps them.    *)
LEMMA TakeHead ==
    ASSUME NEW q \in Seq(Cmd), q # <<>>, NEW f, NEW g, DOMAIN g \subseteq DOMAIN f,
           \A p \in DOMAIN g : g[p] = f[p]
    PROVE  /\ \A n : Known(q, f, n) => Known(Tail(q), g, n)
           /\ InOrder(q, f) => InOrder(Tail(q), g)
           /\ \A p, n : UpTo(q, f, p, n) => UpTo(Tail(q), g, p, n)
<1> DEFINE t == Tail(q)
<1>1. Len(t) = Len(q) - 1 /\ Len(q) \in Nat \ {0} /\ \A i \in 1 .. Len(t) : t[i] = q[i + 1]
  BY HeadTailProperties, LenProperties
<1> HIDE DEF t
<1>2. \A i \in 1 .. Len(t) : i + 1 \in 1 .. Len(q) /\ t[i] = q[i + 1]
  BY <1>1
<1>3. \A i, j \in 1 .. Len(t) : i < j => i + 1 < j + 1
  OBVIOUS
<1>4. \A n : Known(q, f, n) => Known(t, g, n)
  BY <1>2 DEF Known
<1>5. InOrder(q, f) => InOrder(t, g)
  BY <1>2, <1>3 DEF InOrder
<1>6. \A p, n : UpTo(q, f, p, n) => UpTo(t, g, p, n)
  BY <1>2 DEF UpTo
<1> QED BY <1>4, <1>5, <1>6 DEF t

(* A MOVE at the head of an inbox is applied: it is no earlier than the    *)
(* one before it.                                                          *)
LEMMA TakeMove ==
    ASSUME NEW q \in Seq(Cmd), q # <<>>, NEW f \in PidMap(SeqNo), NEW k \in DOMAIN f,
           IsMove(Head(q), k), NEW g, g = Put(f, k, Head(q).seq), InOrder(q, f)
    PROVE  /\ \A n : Known(q, f, n) => Known(Tail(q), g, n)
           /\ InOrder(Tail(q), g)
           /\ \A p, n : UpTo(q, f, p, n) => UpTo(Tail(q), g, p, n)
           /\ g[k] >= f[k]
<1> DEFINE t == Tail(q)
           m == Head(q)
<1>1. /\ Len(t) = Len(q) - 1 /\ Len(q) \in Nat \ {0} /\ m = q[1] /\ m \in Cmd
      /\ \A i \in 1 .. Len(t) : t[i] = q[i + 1]
  BY HeadTailProperties, LenProperties
<1>2. DOMAIN g = DOMAIN f /\ g[k] = m.seq /\ \A p \in DOMAIN f : p # k => g[p] = f[p]
  BY DEF Put
<1>3. k \in Pid /\ m.seq \in Nat /\ f[k] \in Nat
  <2>1. k \in Pid /\ f[k] \in SeqNo
    BY PidMapFacts
  <2>2. m.seq \in SeqNo
    BY <1>1, MoveSeq
  <2>3. \A n \in SeqNo : n \in Nat
    BY RoomConstants DEF SeqNo
  <2> QED BY <2>1, <2>2, <2>3
<1> HIDE DEF t, m
<1>4. \A i \in 1 .. Len(t) : i + 1 \in 1 .. Len(q) /\ t[i] = q[i + 1] /\ 1 < i + 1
  BY <1>1
<1>5. 1 \in 1 .. Len(q) /\ IsMove(q[1], k)
  BY <1>1 DEF m
<1>6. \A i, j \in 1 .. Len(t) : i < j => i + 1 < j + 1
  OBVIOUS
<1>7. \A n : Known(q, f, n) => Known(t, g, n)
  BY <1>2, <1>4 DEF Known
<1>8. InOrder(t, g)
  <2> SUFFICES ASSUME NEW p \in Pid
               PROVE  /\ \A i, j \in 1 .. Len(t) :
                          i < j /\ IsMove(t[i], p) /\ IsMove(t[j], p) => t[i].seq <= t[j].seq
                      /\ p \in DOMAIN g => \A i \in 1 .. Len(t) : IsMove(t[i], p) => g[p] <= t[i].seq
    BY DEF InOrder
  <2>1. \A i, j \in 1 .. Len(t) :
          i < j /\ IsMove(t[i], p) /\ IsMove(t[j], p) => t[i].seq <= t[j].seq
    BY <1>4, <1>6 DEF InOrder
  <2>2. ASSUME p \in DOMAIN g, NEW i \in 1 .. Len(t), IsMove(t[i], p) PROVE g[p] <= t[i].seq
    <3>1. CASE p = k
      BY <2>2, <3>1, <1>1, <1>2, <1>3, <1>4, <1>5 DEF InOrder
    <3>2. CASE p # k
      BY <2>2, <3>2, <1>2, <1>4 DEF InOrder
    <3> QED BY <3>1, <3>2
  <2> QED BY <2>1, <2>2
<1>9. \A p, n : UpTo(q, f, p, n) => UpTo(t, g, p, n)
  <2> SUFFICES ASSUME NEW p, NEW n, UpTo(q, f, p, n) PROVE UpTo(t, g, p, n)
    OBVIOUS
  <2>1. \A i \in 1 .. Len(t) : IsMove(t[i], p) => t[i].seq <= n
    BY <1>4 DEF UpTo
  <2>2. p \in DOMAIN g => g[p] <= n
    BY <1>1, <1>2, <1>5 DEF UpTo
  <2> QED BY <2>1, <2>2 DEF UpTo
<1>10. g[k] >= f[k]
  BY <1>1, <1>2, <1>3, <1>5 DEF InOrder
<1> QED BY <1>7, <1>8, <1>9, <1>10 DEF t

(* A player joins with an id nobody knows yet.                             *)
LEMMA TakeJoin ==
    ASSUME NEW q \in Seq(Cmd), q # <<>>, NEW f, NEW n \in Nat, n + 1 \in Pid,
           NEW g, g = Put(f, n + 1, 0), Known(q, f, n), InOrder(q, f), DOMAIN f \subseteq Pid
    PROVE  /\ Known(Tail(q), g, n + 1)
           /\ InOrder(Tail(q), g)
           /\ \A p \in Pid : \A k : p <= n /\ UpTo(q, f, p, k) => UpTo(Tail(q), g, p, k)
           /\ \A k \in Nat : UpTo(Tail(q), g, n + 1, k)
           /\ n + 1 \notin DOMAIN f
<1> DEFINE t == Tail(q)
           b == n + 1
<1>1. Len(t) = Len(q) - 1 /\ Len(q) \in Nat \ {0} /\ \A i \in 1 .. Len(t) : t[i] = q[i + 1]
  BY HeadTailProperties, LenProperties
<1>2. DOMAIN g = DOMAIN f \cup {b} /\ g[b] = 0 /\ \A p \in DOMAIN f : p # b => g[p] = f[p]
  BY DEF Put
<1>3. \A p \in Pid : p \in Nat
  BY DEF Pid
<1> HIDE DEF t
<1>4. \A i \in 1 .. Len(t) : i + 1 \in 1 .. Len(q) /\ t[i] = q[i + 1]
  BY <1>1
<1>5. \A i, j \in 1 .. Len(t) : i < j => i + 1 < j + 1
  OBVIOUS
<1>6. b \notin DOMAIN f /\ \A i \in 1 .. Len(t) : ~IsMove(t[i], b)
  BY <1>4 DEF Known
<1>7. Known(t, g, b)
  <2>1. \A p \in Pid : p <= n => p <= b
    BY <1>3
  <2>2. b <= b /\ DOMAIN f \subseteq Pid
    OBVIOUS
  <2> HIDE DEF b
  <2> QED BY <1>2, <1>4, <2>1, <2>2 DEF Known
<1> HIDE DEF b
<1>8. InOrder(t, g)
  <2> SUFFICES ASSUME NEW p \in Pid
               PROVE  /\ \A i, j \in 1 .. Len(t) :
                          i < j /\ IsMove(t[i], p) /\ IsMove(t[j], p) => t[i].seq <= t[j].seq
                      /\ p \in DOMAIN g => \A i \in 1 .. Len(t) : IsMove(t[i], p) => g[p] <= t[i].seq
    BY DEF InOrder
  <2>1. \A i, j \in 1 .. Len(t) :
          i < j /\ IsMove(t[i], p) /\ IsMove(t[j], p) => t[i].seq <= t[j].seq
    BY <1>4, <1>5 DEF InOrder
  <2>2. p \in DOMAIN g => \A i \in 1 .. Len(t) : IsMove(t[i], p) => g[p] <= t[i].seq
    BY <1>2, <1>4, <1>6 DEF InOrder
  <2> QED BY <2>1, <2>2
<1>9. \A p \in Pid : \A k : p <= n /\ UpTo(q, f, p, k) => UpTo(t, g, p, k)
  <2>1. \A p \in Pid : p <= n => p # b
    BY <1>3 DEF b
  <2> QED BY <1>2, <1>4, <2>1 DEF UpTo
<1>10. \A k \in Nat : UpTo(t, g, b, k)
  BY <1>2, <1>6 DEF UpTo
<1> QED BY <1>6, <1>7, <1>8, <1>9, <1>10 DEF t, b

LEMMA MoveInit == Init => MoveInv
<1> SUFFICES ASSUME Init PROVE MoveInv
  OBVIOUS
<1>1. \A c \in Conn : id[c] = 0 /\ reply[c] = 0
  BY DEF Init, RoomInit
<1>2. \A c \in Conn : \A p : ~Holds(c, p)
  BY <1>1 DEF Holds
<1>3. \A r \in RoomId : inbox[r] = <<>> /\ DOMAIN players[r] = {}
  BY DEF Init, RoomInit, Empty
<1>4. nextPlayerID = 0 /\ Len(<<>>) = 0
  BY DEF Init, RoomInit
<1>5. HoldInv
  BY <1>1, <1>2, <1>4 DEF HoldInv
<1>6. SeqInv
  BY <1>2, <1>3, <1>4 DEF SeqInv, Known, InOrder
<1> QED BY <1>5, <1>6 DEF MoveInv

(* Steps that leave the rooms alone: at most an id is given up, or handed  *)
(* from the reply channel to the connection, or a later MOVE is read.      *)
LEMMA MoveKept ==
    ASSUME RoomTypeOK, RoomTypeOK', MoveInv, UNCHANGED <<nextPlayerID, inbox, players>>,
           \A c \in Conn : seq'[c] >= seq[c],
           \A c \in Conn : id'[c] \in {id[c], reply[c]} /\ reply'[c] \in {reply[c], 0}
    PROVE  MoveInv'
<1>1. \A c \in Conn : \A p \in Pid : Holds(c, p)' => Holds(c, p)
  BY DEF Holds
<1>2. nextPlayerID \in Nat /\ 0 <= nextPlayerID
  BY RoomConstants DEF RoomTypeOK
<1>3. HoldInv'
  <2>1. \A c \in Conn : id'[c] <= nextPlayerID /\ reply'[c] <= nextPlayerID
    BY <1>2 DEF MoveInv, HoldInv
  <2> QED BY <1>1, <2>1 DEF MoveInv, HoldInv
<1>4. \A n \in SeqNo : n \in Nat
  BY RoomConstants DEF SeqNo
<1>5. ASSUME NEW r \in RoomId, NEW c \in Conn, NEW p \in Pid, Holds(c, p)'
      PROVE  UpTo(inbox[r], players[r], p, seq'[c])
  <2>1. UpTo(inbox[r], players[r], p, seq[c])
    BY <1>1, <1>5 DEF MoveInv, SeqInv
  <2>2. seq[c] \in Nat /\ seq'[c] \in Nat
    BY <1>4 DEF RoomTypeOK
  <2>3. ASSUME NEW i \in 1 .. Len(inbox[r]), IsMove(inbox[r][i], p)
        PROVE  inbox[r][i].seq <= seq'[c]
    <3>1. inbox[r][i] \in Cmd
      BY ElementOfSeq DEF RoomTypeOK
    <3>2. inbox[r][i].seq \in Nat
      BY <2>3, <3>1, MoveSeq, <1>4
    <3>3. inbox[r][i].seq <= seq[c]
      BY <2>1, <2>3 DEF UpTo
    <3> QED BY <2>2, <3>2, <3>3
  <2>4. ASSUME p \in DOMAIN players[r] PROVE players[r][p] <= seq'[c]
    <3>1. players[r][p] \in Nat
      BY <2>4, <1>4, PidMapFacts DEF RoomTypeOK
    <3>2. players[r][p] <= seq[c]
      BY <2>1, <2>4 DEF UpTo
    <3> QED BY <2>2, <3>1, <3>2
  <2> QED BY <2>3, <2>4 DEF UpTo
<1>6. SeqInv'
  BY <1>5 DEF MoveInv, SeqInv
<1> QED BY <1>3, <1>6 DEF MoveInv

(* A reader posts to the inbox of its room.                                *)
LEMMA MovePost ==
    ASSUME RoomTypeOK, MoveInv, NEW c \in Conn, SendJoin(c) \/ SendMove(c) \/ SendLeave(c)
    PROVE  MoveInv'
<1>1. UNCHANGED <<nextPlayerID, players, id, reply, seq>>
  BY DEF SendJoin, SendMove, SendLeave, Post
<1>2. HoldInv'
  BY <1>1 DEF MoveInv, HoldInv, Holds
<1>3. \A d \in Conn : \A p : Holds(d, p)' = Holds(d, p)
  BY <1>1 DEF Holds
<1>4. inbox \in [RoomId -> Seq(Cmd)] /\ players \in [RoomId -> PidMap(SeqNo)]
  BY DEF RoomTypeOK
<1>5. CASE SendJoin(c) \/ SendLeave(c)
  <2>1. PICK m \in Cmd : m.op # "move" /\ inbox' = [inbox EXCEPT ![room[c]] = Append(@, m)]
    <3>1. [op |-> "join", conn |-> c] \in Cmd /\ [op |-> "leave", pid |-> id[c]] \in Cmd
      BY DEF Cmd, RoomTypeOK
    <3> QED BY <1>5, <3>1 DEF SendJoin, SendLeave, Post
  <2>2. \A r \in RoomId : inbox'[r] = inbox[r] \/ inbox'[r] = Append(inbox[r], m)
    BY <2>1, <1>4
  <2>3. ASSUME NEW r \in RoomId
        PROVE  /\ Known(inbox'[r], players[r], nextPlayerID)
               /\ InOrder(inbox'[r], players[r])
               /\ \A d \in Conn : \A p \in Pid :
                    Holds(d, p) => UpTo(inbox'[r], players[r], p, seq[d])
    <3>1. inbox[r] \in Seq(Cmd)
      BY <1>4
    <3>2. /\ Known(inbox[r], players[r], nextPlayerID)
          /\ InOrder(inbox[r], players[r])
          /\ \A d \in Conn : \A p \in Pid : Holds(d, p) => UpTo(inbox[r], players[r], p, seq[d])
      BY DEF MoveInv, SeqInv
    <3>3. CASE inbox'[r] = inbox[r]
      BY <3>2, <3>3
    <3>4. CASE inbox'[r] = Append(inbox[r], m)
      BY <2>1, <3>1, <3>2, <3>4, PostOther
    <3> QED BY <2>2, <3>3, <3>4
  <2>4. SeqInv'
    BY <1>1, <1>3, <2>3 DEF SeqInv
  <2> QED BY <1>2, <2>4 DEF MoveInv
<1>6. CASE SendMove(c)
  <2> DEFINE m == [op |-> "move", pid |-> id[c], seq |-> seq[c]]
  <2>1. m \in Cmd /\ m.op = "move" /\ m.pid = id[c] /\ m.seq = seq[c]
    BY DEF Cmd, RoomTypeOK
  <2>2. inbox' = [inbox EXCEPT ![room[c]] = Append(@, m)]
    BY <1>6 DEF SendMove, Post
  <2> HIDE DEF m
  <2>3. \A r \in RoomId : inbox'[r] = inbox[r] \/ inbox'[r] = Append(inbox[r], m)
    BY <2>2, <1>4
  <2>4. id[c] \in Pid => Holds(c, id[c])
    BY DEF Holds, Pid
  <2>5. \A d \in Conn : \A p \in Pid : Holds(d, p) /\ p = id[c] => d = c
    BY <2>4 DEF MoveInv, HoldInv
  <2>6. id[c] <= nextPlayerID /\ seq[c] <= seq[c]
    <3>1. seq[c] \in Nat
      BY RoomConstants DEF RoomTypeOK, SeqNo
    <3> QED BY <3>1 DEF MoveInv, HoldInv
  <2>7. ASSUME NEW r \in RoomId
        PROVE  /\ Known(inbox'[r], players[r], nextPlayerID)
               /\ InOrder(inbox'[r], players[r])
               /\ \A d \in Conn : \A p \in Pid :
                    Holds(d, p) => UpTo(inbox'[r], players[r], p, seq[d])
    <3>1. inbox[r] \in Seq(Cmd) /\ players[r] \in PidMap(SeqNo)
      BY <1>4
    <3>2. /\ Known(inbox[r], players[r], nextPlayerID)
          /\ InOrder(inbox[r], players[r])
          /\ \A d \in Conn : \A p \in Pid : Holds(d, p) => UpTo(inbox[r], players[r], p, seq[d])
      BY DEF MoveInv, SeqInv
    <3>3. CASE inbox'[r] = inbox[r]
      BY <3>2, <3>3
    <3>4. CASE inbox'[r] = Append(inbox[r], m)
      <4>1. m.pid \in Pid => UpTo(inbox[r], players[r], m.pid, m.seq)
        BY <2>1, <2>4, <3>2
      <4>2. /\ \A n : Known(inbox[r], players[r], n) /\ m.pid <= n => Known(inbox'[r], players[r], n)
            /\ InOrder(inbox'[r], players[r])
            /\ \A p \in Pid : \A n : UpTo(inbox[r], players[r], p, n) /\ (m.pid = p => m.seq <= n)
                 => UpTo(inbox'[r], players[r], p, n)
        BY <2>1, <3>1, <3>2, <3>4, <4>1, PostMove
      <4>3. \A d \in Conn : \A p \in Pid : Holds(d, p) => (m.pid = p => m.seq <= seq[d])
        BY <2>1, <2>5, <2>6
      <4> QED BY <2>1, <2>6, <3>2, <4>2, <4>3
    <3> QED BY <2>3, <3>3, <3>4
  <2>8. SeqInv'
    BY <1>1, <1>3, <2>7 DEF SeqInv
  <2> QED BY <1>2, <2>8 DEF MoveInv
<1> QED BY <1>5, <1>6

(* What a room step may not do to the numbers it echoes.                   *)
NotBack(f, g) == \A p \in DOMAIN f \cap DOMAIN g : g[p] >= f[p]

LEMMA SameNotBack == ASSUME NEW f \in PidMap(SeqNo) PROVE NotBack(f, f)
<1>1. \A p \in DOMAIN f : f[p] \in Nat
  BY PidMapFacts, RoomConstants DEF SeqNo
<1> QED BY <1>1 DEF NotBack

(* A room applies a command.                                               *)
LEMMA MoveApply ==
    ASSUME RoomTypeOK, MoveInv, NEW r \in RoomId,
           ApplyJoin(r) \/ ApplyMove(r) \/ ApplyLeave(r)
    PROVE  MoveInv' /\ \A s \in RoomId : NotBack(players[s], players'[s])
<1> DEFINE q == inbox[r]
           f == players[r]
           g == players'[r]
           m == Head(q)
<1>1. /\ q \in Seq(Cmd) /\ q # <<>> /\ inbox' = [inbox EXCEPT ![r] = Tail(q)]
      /\ inbox \in [RoomId -> Seq(Cmd)] /\ players \in [RoomId -> PidMap(SeqNo)]
  BY DEF RoomTypeOK, ApplyJoin, ApplyMove, ApplyLeave, Received
<1>2. inbox'[r] = Tail(q) /\ \A s \in RoomId : s # r => inbox'[s] = inbox[s]
  BY <1>1
<1>3. \A s \in RoomId : s # r => players'[s] = players[s]
  BY <1>1 DEF ApplyJoin, ApplyMove, ApplyLeave
<1>4. f \in PidMap(SeqNo) /\ DOMAIN f \subseteq Pid
  BY <1>1, PidMapFacts
<1>5. Known(q, f, nextPlayerID) /\ InOrder(q, f)
  BY DEF MoveInv, SeqInv
<1>6. \A p \in DOMAIN f : f[p] \in Nat
  BY <1>4, PidMapFacts, RoomConstants DEF SeqNo
<1>7. seq' = seq
  BY DEF ApplyJoin, ApplyMove, ApplyLeave, readerVars
<1>8. ASSUME NotBack(f, g) PROVE \A s \in RoomId : NotBack(players[s], players'[s])
  BY <1>1, <1>3, <1>8, SameNotBack
<1> HIDE DEF q, f, g, m
<1>9. CASE ApplyMove(r) \/ ApplyLeave(r)
  <2>1. UNCHANGED <<nextPlayerID, id, reply>>
    BY <1>9 DEF ApplyMove, ApplyLeave, readerVars
  <2>2. HoldInv' /\ \A d \in Conn : \A p : Holds(d, p)' = Holds(d, p)
    BY <2>1 DEF MoveInv, HoldInv, Holds
  <2>3. /\ \A n : Known(q, f, n) => Known(Tail(q), g, n)
        /\ InOrder(Tail(q), g)
        /\ \A p, n : UpTo(q, f, p, n) => UpTo(Tail(q), g, p, n)
        /\ NotBack(f, g)
    <3>1. CASE ApplyMove(r) /\ m.pid \in DOMAIN f
      <4>1. g = Put(f, m.pid, m.seq)
        BY <1>1, <3>1 DEF ApplyMove, f, g, m, q
      <4>2. IsMove(m, m.pid)
        BY <3>1 DEF IsMove, ApplyMove, Received, m, q
      <4>3. DOMAIN g = DOMAIN f /\ \A p \in DOMAIN f : p # m.pid => g[p] = f[p]
        BY <3>1, <4>1 DEF Put
      <4>4. /\ \A n : Known(q, f, n) => Known(Tail(q), g, n)
            /\ InOrder(Tail(q), g)
            /\ \A p, n : UpTo(q, f, p, n) => UpTo(Tail(q), g, p, n)
            /\ g[m.pid] >= f[m.pid]
        BY <1>1, <1>4, <1>5, <3>1, <4>1, <4>2, TakeMove DEF m
      <4>5. NotBack(f, g)
        BY <1>6, <4>3, <4>4 DEF NotBack
      <4> QED BY <4>4, <4>5
    <3>2. CASE (ApplyMove(r) /\ m.pid \notin DOMAIN f) \/ ApplyLeave(r)
      <4>1. DOMAIN g \subseteq DOMAIN f /\ \A p \in DOMAIN g : g[p] = f[p]
        BY <1>1, <3>2 DEF ApplyMove, ApplyLeave, Del, f, g, m, q
      <4>2. NotBack(f, g)
        BY <1>6, <4>1 DEF NotBack
      <4> QED BY <1>1, <1>5, <4>1, <4>2, TakeHead
    <3> QED BY <1>9, <3>1, <3>2
  <2>4. SeqInv'
    <3> SUFFICES ASSUME NEW s \in RoomId
                 PROVE  /\ Known(inbox'[s], players'[s], nextPlayerID)
                        /\ InOrder(inbox'[s], players'[s])
                        /\ \A d \in Conn : \A p \in Pid :
                             Holds(d, p) => UpTo(inbox'[s], players'[s], p, seq[d])
      BY <1>7, <2>1, <2>2 DEF SeqInv
    <3>1. CASE s = r
      BY <1>2, <1>5, <2>3, <3>1 DEF MoveInv, SeqInv, q, f, g
    <3>2. CASE s # r
      BY <1>2, <1>3, <3>2 DEF MoveInv, SeqInv
    <3> QED BY <3>1, <3>2
  <2> QED BY <1>8, <2>2, <2>3, <2>4 DEF MoveInv
<1>10. CASE ApplyJoin(r)
  <2> DEFINE n == nextPlayerID
             c == m.conn
  <2>1. n \in Nat /\ n + 1 \in Pid /\ nextPlayerID' = n + 1
    BY <1>10, RoomConstants DEF ApplyJoin, RoomTypeOK
  <2>2. id' = id /\ \A d \in Conn : reply'[d] = reply[d] \/ (d = c /\ reply'[d] = n + 1)
    BY <1>10 DEF ApplyJoin, RoomTypeOK, m, q
  <2>3. g = Put(f, n + 1, 0)
    BY <1>1, <1>10 DEF ApplyJoin, f, g
  <2>4. /\ Known(Tail(q), g, n + 1)
        /\ InOrder(Tail(q), g)
        /\ \A p \in Pid : \A k : p <= n /\ UpTo(q, f, p, k) => UpTo(Tail(q), g, p, k)
        /\ \A k \in Nat : UpTo(Tail(q), g, n + 1, k)
        /\ n + 1 \notin DOMAIN f
    BY <1>1, <1>4, <1>5, <2>1, <2>3, TakeJoin
  <2>5. \A d \in Conn : id[d] \in Nat /\ reply[d] \in Nat /\ id[d] <= n /\ reply[d] <= n
    BY RoomConstants DEF RoomTypeOK, MoveInv, HoldInv
  <2>6. \A d \in Conn : \A p \in Pid : Holds(d, p) => p <= n
    BY <2>5 DEF Holds
  <2>7. \A d \in Conn : \A p \in Pid : Holds(d, p)' => Holds(d, p) \/ (d = c /\ p = n + 1)
    BY <2>2 DEF Holds
  <2>8. \A p \in Pid : p <= n => p # n + 1 /\ p <= n + 1
    BY <2>1 DEF Pid
  <2>9. HoldInv'
    <3>1. \A d \in Conn : id'[d] <= n + 1 /\ reply'[d] <= n + 1
      BY <2>1, <2>2, <2>5
    <3>2. \A d, e \in Conn : \A p \in Pid : Holds(d, p)' /\ Holds(e, p)' => d = e
      BY <2>6, <2>7, <2>8 DEF MoveInv, HoldInv
    <3> QED BY <2>1, <3>1, <3>2 DEF HoldInv
  <2>10. \A d \in Conn : seq[d] \in Nat
    BY RoomConstants DEF RoomTypeOK, SeqNo
  <2>11. \A s \in RoomId : s # r => Known(inbox[s], players[s], n + 1)
    <3> SUFFICES ASSUME NEW s \in RoomId PROVE Known(inbox[s], players[s], n + 1)
      OBVIOUS
    <3>1. Known(inbox[s], players[s], n)
      BY DEF MoveInv, SeqInv
    <3>2. DOMAIN players[s] \subseteq Pid
      BY <1>1, PidMapFacts
    <3> QED BY <2>8, <3>1, <3>2 DEF Known
  <2>12. \A s \in RoomId : s # r => \A k \in Nat : UpTo(inbox[s], players[s], n + 1, k)
    <3> SUFFICES ASSUME NEW s \in RoomId, NEW k \in Nat
                 PROVE  UpTo(inbox[s], players[s], n + 1, k)
      OBVIOUS
    <3>1. Known(inbox[s], players[s], n)
      BY DEF MoveInv, SeqInv
    <3>2. n + 1 \notin DOMAIN players[s] /\ \A i \in 1 .. Len(inbox[s]) : ~IsMove(inbox[s][i], n + 1)
      BY <2>1, <3>1 DEF Known
    <3> QED BY <3>2 DEF UpTo
  <2>13. SeqInv'
    <3> SUFFICES ASSUME NEW s \in RoomId
                 PROVE  /\ Known(inbox'[s], players'[s], n + 1)
                        /\ InOrder(inbox'[s], players'[s])
                        /\ \A d \in Conn : \A p \in Pid :
                             Holds(d, p)' => UpTo(inbox'[s], players'[s], p, seq[d])
      BY <1>7, <2>1 DEF SeqInv
    <3>1. CASE s = r
      <4>1. ASSUME NEW d \in Conn, NEW p \in Pid, Holds(d, p)' PROVE UpTo(Tail(q), g, p, seq[d])
        <5>1. CASE Holds(d, p)
          BY <5>1, <2>4, <2>6 DEF MoveInv, SeqInv, q, f
        <5>2. CASE p = n + 1
          BY <5>2, <2>4, <2>10
        <5> QED BY <4>1, <5>1, <5>2, <2>7
      <4> QED BY <1>2, <2>4, <3>1, <4>1 DEF g
    <3>2. CASE s # r
      <4>1. ASSUME NEW d \in Conn, NEW p \in Pid, Holds(d, p)'
            PROVE  UpTo(inbox[s], players[s], p, seq[d])
        <5>1. CASE Holds(d, p)
          BY <5>1 DEF MoveInv, SeqInv
        <5>2. CASE p = n + 1
          BY <5>2, <3>2, <2>10, <2>12
        <5> QED BY <4>1, <5>1, <5>2, <2>7
      <4> QED BY <1>2, <1>3, <2>11, <3>2, <4>1 DEF MoveInv, SeqInv
    <3> QED BY <3>1, <3>2
  <2>14. NotBack(f, g)
    <3>1. \A p \in DOMAIN f : p # n + 1 => g[p] = f[p]
      BY <2>3 DEF Put
    <3> QED BY <1>6, <2>4, <3>1 DEF NotBack
  <2> QED BY <1>8, <2>9, <2>13, <2>14 DEF MoveInv
<1> QED BY <1>9, <1>10

(* Every step keeps the MOVEs in order, and none takes a number back.      *)
LEMMA MoveStep ==
    ASSUME StateTypeOK, StateTypeOK', MoveInv, [Work]_workVars
    PROVE  MoveInv' /\ \A r \in RoomId : NotBack(players[r], players'[r])
<1>1. RoomTypeOK /\ RoomTypeOK'
  BY DEF StateTypeOK
<1>2. \A c \in Conn : seq[c] >= seq[c]
  BY <1>1, RoomConstants DEF RoomTypeOK, SeqNo
<1>3. ASSUME players' = players PROVE \A r \in RoomId : NotBack(players[r], players'[r])
  BY <1>1, <1>3, SameNotBack DEF RoomTypeOK
<1>4. CASE \E r \in RoomId : RunCmd(r)
  BY <1>1, <1>4, MoveApply DEF RunCmd
<1>5. CASE UNCHANGED <<nextPlayerID, inbox, players, seq, id, reply>>
  BY <1>1, <1>2, <1>3, <1>5, MoveKept
<1>6. CASE \E r \in RoomId : StartStep(r) \/ \E p \in DOMAIN conns[r] : Offer(r, p)
  BY <1>5, <1>6 DEF StartStep, Offer, actorVars, roomVars, readerVars
<1>7. CASE \E c \in Conn : Read(c)
  <2>1. PICK c \in Conn : (\E r \in RoomId : ReadJoin(c, r)) \/ ReadMove(c)
    BY <1>7 DEF Read
  <2>2. UNCHANGED <<nextPlayerID, inbox, players, id>>
    BY <2>1 DEF ReadJoin, ReadMove, roomVars
  <2>3. \A d \in Conn : reply'[d] \in {reply[d], 0}
    BY <1>1, <2>1 DEF ReadJoin, ReadMove, RoomTypeOK
  <2>4. \A d \in Conn : seq'[d] >= seq[d]
    <3>1. seq \in [Conn -> Nat]
      BY <1>1, RoomConstants DEF RoomTypeOK, SeqNo
    <3> QED BY <2>1, <3>1 DEF ReadJoin, ReadMove
  <2> QED BY <1>1, <1>3, <2>2, <2>3, <2>4, MoveKept
<1>8. CASE \E c \in Conn : Fail(c) \/ Drop(c) \/ SendJoined(c) \/ WriterTake(c) \/ WriteOk(c)
                           \/ WriteError(c) \/ WriterDone(c)
  BY <1>5, <1>8 DEF Fail, ReadError, Drop, Disconnect, SendJoined, WriterTake, WriteOk,
                    WriteError, WriterDone, actorVars, roomVars, readerVars
<1>9. CASE \E c \in Conn : Step(c)
  <2>1. PICK c \in Conn : SendJoin(c) \/ SendMove(c) \/ SendLeave(c) \/ TakeReply(c) \/ Close(c)
    BY <1>9 DEF Step
  <2>2. CASE SendJoin(c) \/ SendMove(c) \/ SendLeave(c)
    <3>1. players' = players
      BY <2>2 DEF SendJoin, SendMove, SendLeave, Post
    <3> QED BY <1>1, <1>3, <2>2, <3>1, MovePost
  <2>3. CASE TakeReply(c)
    <3>1. UNCHANGED <<nextPlayerID, inbox, players, seq>>
      BY <2>3 DEF TakeReply, roomVars
    <3>2. \A d \in Conn : id'[d] \in {id[d], reply[d]} /\ reply'[d] \in {reply[d], 0}
      BY <1>1, <2>3 DEF TakeReply, RoomTypeOK
    <3> QED BY <1>1, <1>2, <1>3, <3>1, <3>2, MoveKept
  <2>4. CASE Close(c)
    BY <1>5, <2>4 DEF Close, roomVars
  <2> QED BY <2>1, <2>2, <2>3, <2>4
<1>10. CASE UNCHANGED workVars
  BY <1>5, <1>10 DEF workVars, actorVars, roomVars, readerVars
<1> QED BY <1>4, <1>6, <1>7, <1>8, <1>9, <1>10 DEF Work

(* The number a room echoes for a player never goes back: ids are handed   *)
(* out once, so that only one reader posts MOVEs for a player, in the      *)
(* order in which it reads them, and the inbox keeps that order, however   *)
(* often a client joins.                                                   *)
THEOREM EchoNeverBack == SafeSpec => SeqNeverBack
<1> DEFINE Inv == StateTypeOK /\ MoveInv
           Keeps == \A r \in RoomId : \A p \in DOMAIN players[r] \cap DOMAIN players'[r] :
                      players'[r][p] >= players[r][p]
<1>1. Init => Inv
  BY TypeInit, MoveInit
<1>2. Inv /\ [Next]_vars => Inv'
  BY TypeStep, MoveStep, StepIsWork
<1>3. Inv /\ [Next]_vars => [Keeps]_vars
  BY TypeStep, MoveStep, StepIsWork DEF NotBack
<1> QED BY <1>1, <1>2, <1>3, PTL DEF SafeSpec, SeqNeverBack

-----------------------------------------------------------------------------
(* The cleanup after a connection, for clients that send one JOIN.         *)

LeaveCmd(p)    == [op |-> "leave", pid |-> p]
HasLeave(q, p) == \E i \in 1 .. Len(q) : q[i] = LeaveCmd(p)
JoinBy(m, c)   == m.op = "join" /\ m.conn = c
HasJoin(q, c)  == \E i \in 1 .. Len(q) : JoinBy(q[i], c)
OneJoin(q)     == \A c \in Conn : \A i, j \in 1 .. Len(q) : JoinBy(q[i], c) /\ JoinBy(q[j], c) => i = j

\* The reader has learnt its id.
Knows(c) == rd[c] \in {"joined", "read", "move", "leave", "close", "exit"}

\* Player p of room r is the one connection c has, or is being given.
MayOwn(c, r, p) ==
    /\ r = room[c]
    /\ \/ rd[c] = "await" /\ p = reply[c]
       \/ Knows(c) /\ p = id[c]

OwnInv ==
    \A c \in Conn : \A r \in RoomId : \A p \in DOMAIN conns[r] : conns[r][p] = c => MayOwn(c, r, p)
JoinInv ==
    /\ \A r \in RoomId : OneJoin(inbox[r])
    /\ \A r \in RoomId, c \in Conn : HasJoin(inbox[r], c) =>
         rd[c] = "await" /\ room[c] = r /\ reply[c] = 0
    /\ \A c \in Conn : rd[c] = "join" => reply[c] = 0
    /\ \A c \in Conn : joins[c] = 0 => room[c] = None
LeaveInv ==
    \A c \in Conn : rd[c] \in {"close", "exit"} =>
      \A r \in RoomId : \A p \in DOMAIN conns[r] : conns[r][p] = c => HasLeave(inbox[r], p)
GhostInv == OwnInv /\ JoinInv /\ LeaveInv

LEMMA LeaveIsNoGhost == LeaveInv => NoGhost
BY DEF LeaveInv, NoGhost, HasLeave, LeaveCmd

(* What posting a command changes in an inbox.                             *)
LEMMA PostQueue ==
    ASSUME NEW q \in Seq(Cmd), NEW m \in Cmd, NEW t, t = Append(q, m)
    PROVE  /\ \A p : HasLeave(q, p) => HasLeave(t, p)
           /\ \A p : m = LeaveCmd(p) => HasLeave(t, p)
           /\ \A c : HasJoin(t, c) => HasJoin(q, c) \/ JoinBy(m, c)
           /\ OneJoin(q) /\ (\A c : JoinBy(m, c) => ~HasJoin(q, c)) => OneJoin(t)
<1>1. /\ Len(t) = Len(q) + 1 /\ Len(q) \in Nat /\ t[Len(q) + 1] = m
      /\ \A i \in 1 .. Len(q) : t[i] = q[i]
  BY AppendProperties, LenProperties
<1>2. \A i \in 1 .. Len(t) : (i \in 1 .. Len(q) /\ t[i] = q[i]) \/ (i = Len(t) /\ t[i] = m)
  BY <1>1
<1>3. \A i \in 1 .. Len(q) : i \in 1 .. Len(t)
  BY <1>1
<1>4. Len(t) \in 1 .. Len(t) /\ t[Len(t)] = m
  BY <1>1
<1>5. \A p : HasLeave(q, p) => HasLeave(t, p)
  BY <1>1, <1>3 DEF HasLeave
<1>6. \A p : m = LeaveCmd(p) => HasLeave(t, p)
  BY <1>4 DEF HasLeave
<1>7. \A c : HasJoin(t, c) => HasJoin(q, c) \/ JoinBy(m, c)
  BY <1>2 DEF HasJoin
<1>8. OneJoin(q) /\ (\A c : JoinBy(m, c) => ~HasJoin(q, c)) => OneJoin(t)
  BY <1>2 DEF OneJoin, HasJoin
<1> QED BY <1>5, <1>6, <1>7, <1>8

(* What taking the head of an inbox changes in it.                         *)
LEMMA TakeQueue ==
    ASSUME NEW q \in Seq(Cmd), q # <<>>
    PROVE  /\ \A p : HasLeave(q, p) /\ Head(q) # LeaveCmd(p) => HasLeave(Tail(q), p)
           /\ \A c : HasJoin(Tail(q), c) => HasJoin(q, c)
           /\ OneJoin(q) => OneJoin(Tail(q))
           /\ \A c \in Conn : OneJoin(q) /\ JoinBy(Head(q), c) => HasJoin(q, c) /\ ~HasJoin(Tail(q), c)
<1> DEFINE t == Tail(q)
           h == Head(q)
<1>1. /\ Len(t) = Len(q) - 1 /\ Len(q) \in Nat \ {0} /\ h = q[1]
      /\ \A i \in 1 .. Len(t) : t[i] = q[i + 1]
  BY HeadTailProperties, LenProperties
<1> HIDE DEF t, h
<1>2. \A i \in 1 .. Len(t) : i + 1 \in 1 .. Len(q) /\ t[i] = q[i + 1] /\ i + 1 # 1
  BY <1>1
<1>3. \A i \in 1 .. Len(q) : i # 1 => i - 1 \in 1 .. Len(t) /\ t[i - 1] = q[i]
  <2> SUFFICES ASSUME NEW i \in 1 .. Len(q), i # 1 PROVE i - 1 \in 1 .. Len(t) /\ t[i - 1] = q[i]
    OBVIOUS
  <2>1. i - 1 \in 1 .. Len(t) /\ (i - 1) + 1 = i
    BY <1>1
  <2> QED BY <1>1, <2>1
<1>4. 1 \in 1 .. Len(q)
  BY <1>1
<1>5. \A p : HasLeave(q, p) /\ h # LeaveCmd(p) => HasLeave(t, p)
  BY <1>1, <1>3 DEF HasLeave
<1>6. \A c : HasJoin(t, c) => HasJoin(q, c)
  BY <1>2 DEF HasJoin
<1>7. OneJoin(q) => OneJoin(t)
  <2> SUFFICES ASSUME OneJoin(q), NEW c \in Conn, NEW i \in 1 .. Len(t), NEW j \in 1 .. Len(t),
                      JoinBy(t[i], c), JoinBy(t[j], c)
               PROVE  i = j
    BY DEF OneJoin
  <2>1. i + 1 = j + 1
    BY <1>2 DEF OneJoin
  <2> QED BY <2>1
<1>8. \A c \in Conn : OneJoin(q) /\ JoinBy(h, c) => HasJoin(q, c) /\ ~HasJoin(t, c)
  BY <1>1, <1>2, <1>4 DEF OneJoin, HasJoin
<1> QED BY <1>5, <1>6, <1>7, <1>8 DEF t, h

LEMMA GhostInit == Init => GhostInv
<1> SUFFICES ASSUME Init PROVE GhostInv
  OBVIOUS
<1>1. \A r \in RoomId : inbox[r] = <<>> /\ DOMAIN conns[r] = {}
  BY DEF Init, RoomInit, Empty
<1>2. \A c \in Conn : reply[c] = 0 /\ room[c] = None
  BY DEF Init, RoomInit
<1>3. OneJoin(<<>>) /\ \A c : ~HasJoin(<<>>, c)
  BY DEF OneJoin, HasJoin
<1>4. OwnInv /\ LeaveInv
  BY <1>1 DEF OwnInv, LeaveInv
<1>5. JoinInv
  BY <1>1, <1>2, <1>3 DEF JoinInv
<1> QED BY <1>4, <1>5 DEF GhostInv

(* No room entry of a connection that has not joined.                      *)
LEMMA NothingOwned ==
    ASSUME RoomTypeOK, OwnInv, NEW c \in Conn, NEW r \in RoomId, NEW p \in DOMAIN conns[r],
           room[c] = None \/ rd[c] = "join" \/ (rd[c] = "await" /\ reply[c] = 0)
             \/ (rd[c] # "await" /\ id[c] = 0)
    PROVE  conns[r][p] # c
<1>1. p \in Pid /\ p # 0
  <2>1. p \in Pid
    BY PidMapFacts DEF RoomTypeOK
  <2> QED BY <2>1 DEF Pid
<1>2. conns[r][p] = c => MayOwn(c, r, p)
  BY DEF OwnInv
<1> QED BY <1>1, <1>2, RoomConstants DEF MayOwn, Knows

(* Steps of one connection that leave the rooms and the inboxes alone.     *)
LEMMA GhostKept ==
    ASSUME GhostInv, UNCHANGED <<inbox, conns>>, NEW c \in Conn,
           \A d \in Conn : d # c => /\ rd'[d] = rd[d] /\ room'[d] = room[d] /\ id'[d] = id[d]
                                    /\ reply'[d] = reply[d] /\ joins'[d] = joins[d],
           \A r \in RoomId : \A p \in DOMAIN conns[r] : conns[r][p] = c => MayOwn(c, r, p)',
           \A r \in RoomId : ~HasJoin(inbox[r], c),
           rd'[c] = "join" => reply'[c] = 0,
           joins'[c] = 0 => room'[c] = None,
           rd'[c] \in {"close", "exit"} =>
             \/ rd[c] \in {"close", "exit"}
             \/ \A r \in RoomId : \A p \in DOMAIN conns[r] : conns[r][p] # c
    PROVE  GhostInv'
<1>1. \A d \in Conn : d # c => \A r, p : MayOwn(d, r, p) => MayOwn(d, r, p)'
  BY DEF MayOwn, Knows
<1>2. OwnInv'
  BY <1>1 DEF GhostInv, OwnInv
<1>3. JoinInv'
  BY DEF GhostInv, JoinInv
<1>4. LeaveInv'
  BY DEF GhostInv, LeaveInv
<1> QED BY <1>2, <1>3, <1>4 DEF GhostInv

(* A JOIN under way, as the inboxes show it.                               *)
LEMMA NoJoinWaiting ==
    ASSUME JoinInv, NEW c \in Conn, rd[c] # "await" \/ reply[c] # 0
    PROVE  \A r \in RoomId : ~HasJoin(inbox[r], c)
BY DEF JoinInv

LEMMA GhostReader ==
    ASSUME RoomTypeOK, GhostInv, MaxJoin = 1, NEW c \in Conn,
           \/ \E r \in RoomId : ReadJoin(c, r)
           \/ ReadMove(c) \/ ReadError(c) \/ TakeReply(c) \/ Close(c) \/ SendJoined(c)
    PROVE  GhostInv'
<1>1. UNCHANGED <<inbox, conns>>
  BY DEF ReadJoin, ReadMove, ReadError, TakeReply, Close, SendJoined, roomVars
<1>2. /\ rd \in [Conn -> ReaderPc] /\ room \in [Conn -> RoomId \cup {None}]
      /\ id \in [Conn -> 0 .. MaxPid] /\ reply \in [Conn -> 0 .. MaxPid] /\ joins \in [Conn -> Nat]
  BY DEF RoomTypeOK
<1>3. \A d \in Conn : d # c => /\ rd'[d] = rd[d] /\ room'[d] = room[d] /\ id'[d] = id[d]
                               /\ reply'[d] = reply[d] /\ joins'[d] = joins[d]
  BY <1>2 DEF ReadJoin, ReadMove, ReadError, TakeReply, Close, SendJoined
<1>4. \A r \in RoomId : ~HasJoin(inbox[r], c)
  BY NoJoinWaiting DEF GhostInv, ReadJoin, ReadMove, ReadError, TakeReply, Close, SendJoined
<1>5. OwnInv /\ JoinInv
  BY DEF GhostInv
<1>6. CASE \E r \in RoomId : ReadJoin(c, r)
  <2>1. joins[c] = 0
    BY <1>2, <1>6 DEF ReadJoin
  <2>2. room[c] = None
    BY <1>5, <2>1 DEF JoinInv
  <2>3. \A r \in RoomId : \A p \in DOMAIN conns[r] : conns[r][p] # c
    BY <1>5, <2>2, NothingOwned
  <2>4. rd'[c] = "join" /\ reply'[c] = 0 /\ joins'[c] # 0
    BY <1>2, <1>6, <2>1 DEF ReadJoin
  <2> QED BY <1>1, <1>3, <1>4, <2>3, <2>4, GhostKept
<1>7. CASE ReadMove(c) \/ Close(c) \/ SendJoined(c)
  <2>1. room'[c] = room[c] /\ id'[c] = id[c] /\ joins'[c] = joins[c]
    BY <1>7 DEF ReadMove, Close, SendJoined
  <2>2. /\ Knows(c) /\ Knows(c)' /\ rd[c] # "await" /\ rd'[c] # "join"
        /\ rd'[c] \in {"close", "exit"} => rd[c] \in {"close", "exit"}
    BY <1>2, <1>7 DEF ReadMove, Close, SendJoined, Knows
  <2>3. \A r \in RoomId : \A p \in DOMAIN conns[r] : conns[r][p] = c => MayOwn(c, r, p)'
    BY <1>5, <2>1, <2>2 DEF OwnInv, MayOwn
  <2>4. joins'[c] = 0 => room'[c] = None
    BY <1>5, <2>1 DEF JoinInv
  <2> QED BY <1>1, <1>3, <1>4, <2>2, <2>3, <2>4, GhostKept
<1>8. CASE ReadError(c)
  <2>1. room'[c] = room[c] /\ id'[c] = id[c] /\ joins'[c] = joins[c]
    BY <1>8 DEF ReadError
  <2>2. /\ Knows(c) /\ Knows(c)' /\ rd[c] = "read" /\ rd[c] # "await" /\ rd'[c] # "join"
        /\ rd'[c] \in {"close", "exit"} => room[c] = None \/ id[c] = 0
    BY <1>2, <1>8 DEF ReadError, Knows
  <2>3. \A r \in RoomId : \A p \in DOMAIN conns[r] : conns[r][p] = c => MayOwn(c, r, p)'
    BY <1>5, <2>1, <2>2 DEF OwnInv, MayOwn
  <2>4. joins'[c] = 0 => room'[c] = None
    BY <1>5, <2>1 DEF JoinInv
  <2>5. rd'[c] \in {"close", "exit"} =>
          \A r \in RoomId : \A p \in DOMAIN conns[r] : conns[r][p] # c
    BY <1>5, <2>2, NothingOwned
  <2> QED BY <1>1, <1>3, <1>4, <2>2, <2>3, <2>4, <2>5, GhostKept
<1>9. CASE TakeReply(c)
  <2>1. room'[c] = room[c] /\ id'[c] = reply[c] /\ joins'[c] = joins[c]
    BY <1>2, <1>9 DEF TakeReply
  <2>2. rd[c] = "await" /\ rd'[c] = "joined"
    BY <1>2, <1>9 DEF TakeReply
  <2>3. ~Knows(c) /\ Knows(c)'
    BY <2>2 DEF Knows
  <2>4. \A r \in RoomId : \A p \in DOMAIN conns[r] : conns[r][p] = c => MayOwn(c, r, p)'
    BY <1>5, <2>1, <2>3 DEF OwnInv, MayOwn
  <2>5. joins'[c] = 0 => room'[c] = None
    BY <1>5, <2>1 DEF JoinInv
  <2> QED BY <1>1, <1>3, <1>4, <2>2, <2>4, <2>5, GhostKept
<1> QED BY <1>6, <1>7, <1>8, <1>9

LEMMA GhostPost ==
    ASSUME RoomTypeOK, GhostInv, NEW c \in Conn, SendJoin(c) \/ SendMove(c) \/ SendLeave(c)
    PROVE  GhostInv'
<1>1. UNCHANGED <<conns, room, id, reply, joins>>
  BY DEF SendJoin, SendMove, SendLeave, Post
<1>2. PICK m \in Cmd : /\ inbox' = [inbox EXCEPT ![room[c]] = Append(@, m)]
                       /\ \A d : JoinBy(m, d) => d = c /\ rd[c] = "join"
                       /\ rd[c] = "leave" => m = LeaveCmd(id[c])
  <2>1. CASE SendJoin(c)
    <3> DEFINE m == [op |-> "join", conn |-> c]
    <3>1. m \in Cmd /\ rd[c] = "join" /\ \A d : JoinBy(m, d) => d = c
      BY <2>1 DEF SendJoin, Cmd, JoinBy
    <3>2. inbox' = [inbox EXCEPT ![room[c]] = Append(@, m)]
      BY <2>1 DEF SendJoin, Post
    <3> QED BY <3>1, <3>2
  <2>2. CASE SendMove(c)
    <3> DEFINE m == [op |-> "move", pid |-> id[c], seq |-> seq[c]]
    <3>1. m \in Cmd /\ rd[c] = "move" /\ \A d : ~JoinBy(m, d)
      BY <2>2 DEF SendMove, Cmd, JoinBy, RoomTypeOK
    <3>2. inbox' = [inbox EXCEPT ![room[c]] = Append(@, m)]
      BY <2>2 DEF SendMove, Post
    <3> QED BY <3>1, <3>2
  <2>3. CASE SendLeave(c)
    <3> DEFINE m == LeaveCmd(id[c])
    <3>1. m \in Cmd /\ \A d : ~JoinBy(m, d)
      BY DEF LeaveCmd, Cmd, JoinBy, RoomTypeOK
    <3>2. inbox' = [inbox EXCEPT ![room[c]] = Append(@, m)]
      BY <2>3 DEF SendLeave, Post, LeaveCmd
    <3> QED BY <3>1, <3>2
  <2> QED BY <2>1, <2>2, <2>3
<1>3. inbox \in [RoomId -> Seq(Cmd)] /\ rd \in [Conn -> ReaderPc]
  BY DEF RoomTypeOK
<1>4. \A r \in RoomId : /\ r # room[c] => inbox'[r] = inbox[r]
                        /\ r = room[c] => inbox'[r] = Append(inbox[r], m)
  BY <1>2, <1>3
<1>5. /\ \A d \in Conn : d # c => rd'[d] = rd[d]
      /\ rd[c] = "join" => rd'[c] = "await"
      /\ rd[c] = "move" => rd'[c] = "read"
      /\ rd[c] = "leave" => rd'[c] = "close"
      /\ rd[c] \in {"join", "move", "leave"}
  BY <1>3 DEF SendJoin, SendMove, SendLeave, Post
<1>6. ASSUME NEW r \in RoomId
      PROVE  /\ \A p : HasLeave(inbox[r], p) => HasLeave(inbox'[r], p)
             /\ \A p : r = room[c] /\ m = LeaveCmd(p) => HasLeave(inbox'[r], p)
             /\ \A d : HasJoin(inbox'[r], d) =>
                  HasJoin(inbox[r], d) \/ (r = room[c] /\ JoinBy(m, d))
             /\ OneJoin(inbox[r]) /\ (\A d : JoinBy(m, d) => ~HasJoin(inbox[r], d))
                  => OneJoin(inbox'[r])
  <2>1. inbox[r] \in Seq(Cmd)
    BY <1>3
  <2>2. CASE r # room[c]
    BY <1>4, <2>2
  <2>3. CASE r = room[c]
    BY <1>4, <2>1, <2>3, PostQueue
  <2> QED BY <2>2, <2>3
<1>7. OwnInv /\ JoinInv /\ LeaveInv
  BY DEF GhostInv
<1>8. \A r \in RoomId : ~HasJoin(inbox[r], c)
  BY <1>5, <1>7, NoJoinWaiting
<1>9. OwnInv'
  <2>1. \A d \in Conn : \A r, p : rd[d] # "join" /\ MayOwn(d, r, p) => MayOwn(d, r, p)'
    BY <1>1, <1>5 DEF MayOwn, Knows
  <2>2. \A d \in Conn : \A r, p : MayOwn(d, r, p) => rd[d] # "join"
    BY DEF MayOwn, Knows
  <2> QED BY <1>1, <1>7, <2>1, <2>2 DEF OwnInv
<1>10. JoinInv'
  <2>1. \A r \in RoomId : OneJoin(inbox'[r])
    BY <1>2, <1>6, <1>7, <1>8 DEF JoinInv
  <2>2. ASSUME NEW r \in RoomId, NEW d \in Conn, HasJoin(inbox'[r], d)
        PROVE  rd'[d] = "await" /\ room[d] = r /\ reply[d] = 0
    <3>1. CASE HasJoin(inbox[r], d)
      <4>1. d # c
        BY <1>8, <3>1
      <4> QED BY <1>5, <1>7, <3>1, <4>1 DEF JoinInv
    <3>2. CASE r = room[c] /\ JoinBy(m, d)
      BY <1>2, <1>5, <1>7, <3>2 DEF JoinInv
    <3> QED BY <1>6, <2>2, <3>1, <3>2
  <2>3. \A d \in Conn : rd'[d] = "join" => reply[d] = 0
    BY <1>5, <1>7 DEF JoinInv
  <2> QED BY <1>1, <1>7, <2>1, <2>2, <2>3 DEF JoinInv
<1>11. LeaveInv'
  <2> SUFFICES ASSUME NEW d \in Conn, rd'[d] \in {"close", "exit"}, NEW r \in RoomId,
                      NEW p \in DOMAIN conns[r], conns[r][p] = d
               PROVE  HasLeave(inbox'[r], p)
    BY <1>1 DEF LeaveInv
  <2>1. CASE d = c
    <3>1. rd[c] = "leave"
      BY <1>5, <2>1
    <3>2. r = room[c] /\ p = id[c]
      BY <1>7, <2>1, <3>1 DEF OwnInv, MayOwn
    <3> QED BY <1>2, <1>6, <3>1, <3>2
  <2>2. CASE d # c
    BY <1>5, <1>6, <1>7, <2>2 DEF LeaveInv
  <2> QED BY <2>1, <2>2
<1> QED BY <1>9, <1>10, <1>11 DEF GhostInv

LEMMA GhostApply ==
    ASSUME RoomTypeOK, GhostInv, NEW r \in RoomId,
           ApplyJoin(r) \/ ApplyMove(r) \/ ApplyLeave(r)
    PROVE  GhostInv'
<1> DEFINE q == inbox[r]
           h == Head(q)
<1>1. /\ q \in Seq(Cmd) /\ q # <<>> /\ inbox' = [inbox EXCEPT ![r] = Tail(q)]
      /\ inbox \in [RoomId -> Seq(Cmd)] /\ conns \in [RoomId -> PidMap(Conn)] /\ h \in Cmd
      /\ reply \in [Conn -> 0 .. MaxPid]
  BY DEF RoomTypeOK, ApplyJoin, ApplyMove, ApplyLeave, Received
<1>2. inbox'[r] = Tail(q) /\ \A s \in RoomId : s # r => inbox'[s] = inbox[s]
  BY <1>1
<1>3. UNCHANGED <<rd, room, id, joins>>
  BY DEF ApplyJoin, ApplyMove, ApplyLeave, readerVars
<1>4. OwnInv /\ JoinInv /\ LeaveInv /\ OneJoin(q)
  BY DEF GhostInv, JoinInv
<1>5. /\ \A p : HasLeave(q, p) /\ h # LeaveCmd(p) => HasLeave(Tail(q), p)
      /\ \A c : HasJoin(Tail(q), c) => HasJoin(q, c)
      /\ OneJoin(Tail(q))
      /\ \A c \in Conn : JoinBy(h, c) => HasJoin(q, c) /\ ~HasJoin(Tail(q), c)
  BY <1>1, <1>4, TakeQueue
<1>6. /\ \A s \in RoomId : OneJoin(inbox'[s])
      /\ \A s \in RoomId : \A c : HasJoin(inbox'[s], c) => HasJoin(inbox[s], c)
      /\ \A s \in RoomId : \A p : HasLeave(inbox[s], p) =>
           HasLeave(inbox'[s], p) \/ (s = r /\ h = LeaveCmd(p))
  BY <1>2, <1>4, <1>5 DEF JoinInv
<1> HIDE DEF q, h
<1>7. CASE ApplyMove(r) \/ ApplyLeave(r)
  <2>1. reply' = reply
    BY <1>7 DEF ApplyMove, ApplyLeave, readerVars
  <2>2. \A s \in RoomId : \A p \in DOMAIN conns'[s] :
          /\ p \in DOMAIN conns[s] /\ conns'[s][p] = conns[s][p]
          /\ s = r => h # LeaveCmd(p)
    <3>1. CASE ApplyMove(r)
      <4>1. conns' = conns /\ h.op = "move"
        BY <3>1 DEF ApplyMove, Received, h, q
      <4>2. \A p : h # LeaveCmd(p)
        BY <4>1 DEF LeaveCmd
      <4> QED BY <4>1, <4>2
    <3>2. CASE ApplyLeave(r)
      <4>1. conns' = [conns EXCEPT ![r] = Del(conns[r], h.pid)]
        BY <3>2 DEF ApplyLeave, h, q
      <4>2. conns'[r] = Del(conns[r], h.pid) /\ \A s \in RoomId : s # r => conns'[s] = conns[s]
        BY <1>1, <4>1
      <4>3. \A p : h = LeaveCmd(p) => h.pid = p
        BY DEF LeaveCmd
      <4> QED BY <4>2, <4>3 DEF Del
    <3> QED BY <1>7, <3>1, <3>2
  <2>3. OwnInv'
    BY <1>3, <1>4, <2>1, <2>2 DEF OwnInv, MayOwn, Knows
  <2>4. JoinInv'
    BY <1>3, <1>4, <1>6, <2>1 DEF JoinInv
  <2>5. LeaveInv'
    BY <1>3, <1>4, <1>6, <2>2 DEF LeaveInv
  <2> QED BY <2>3, <2>4, <2>5 DEF GhostInv
<1>8. CASE ApplyJoin(r)
  <2> DEFINE c == h.conn
             b == nextPlayerID + 1
  <2>1. JoinBy(h, c) /\ c \in Conn
    BY <1>1, <1>8 DEF ApplyJoin, Received, Cmd, JoinBy, h, q
  <2>2. conns' = [conns EXCEPT ![r] = Put(conns[r], b, c)] /\ reply' = [reply EXCEPT ![c] = b]
    BY <1>8 DEF ApplyJoin, h, q
  <2>3. rd[c] = "await" /\ room[c] = r /\ reply[c] = 0
    BY <1>4, <1>5, <2>1 DEF JoinInv, q
  <2> HIDE DEF c, b
  <2>4. reply'[c] = b /\ \A d \in Conn : d # c => reply'[d] = reply[d]
    BY <1>1, <2>1, <2>2
  <2>5. conns'[r] = Put(conns[r], b, c) /\ \A s \in RoomId : s # r => conns'[s] = conns[s]
    BY <1>1, <2>2
  <2>6. \A s \in RoomId : \A p \in DOMAIN conns'[s] :
          \/ p \in DOMAIN conns[s] /\ conns'[s][p] = conns[s][p]
          \/ s = r /\ p = b /\ conns'[s][p] = c
    BY <2>5 DEF Put
  <2>7. \A s \in RoomId : \A p \in DOMAIN conns[s] : conns[s][p] # c
    BY <1>4, <2>1, <2>3, NothingOwned
  <2>8. OwnInv'
    <3> SUFFICES ASSUME NEW d \in Conn, NEW s \in RoomId, NEW p \in DOMAIN conns'[s],
                        conns'[s][p] = d
                 PROVE  MayOwn(d, s, p)'
      BY DEF OwnInv
    <3>1. CASE p \in DOMAIN conns[s] /\ conns'[s][p] = conns[s][p]
      <4>1. d # c /\ MayOwn(d, s, p)
        BY <1>4, <2>7, <3>1 DEF OwnInv
      <4> QED BY <1>3, <2>4, <4>1 DEF MayOwn, Knows
    <3>2. CASE s = r /\ p = b /\ conns'[s][p] = c
      BY <1>3, <2>3, <2>4, <3>2 DEF MayOwn
    <3> QED BY <2>6, <3>1, <3>2
  <2>9. JoinInv'
    <3>1. \A s \in RoomId : ~HasJoin(inbox'[s], c)
      <4>1. \A s \in RoomId : HasJoin(inbox[s], c) => s = r
        BY <1>4, <2>1, <2>3 DEF JoinInv
      <4> QED BY <1>2, <1>5, <1>6, <2>1, <4>1
    <3>2. \A s \in RoomId, d \in Conn : HasJoin(inbox'[s], d) =>
            rd'[d] = "await" /\ room'[d] = s /\ reply'[d] = 0
      BY <1>3, <1>4, <1>6, <2>4, <3>1 DEF JoinInv
    <3>3. \A d \in Conn : rd'[d] = "join" => reply'[d] = 0
      BY <1>3, <1>4, <2>3, <2>4 DEF JoinInv
    <3> QED BY <1>3, <1>4, <1>6, <3>2, <3>3 DEF JoinInv
  <2>10. LeaveInv'
    <3>1. \A p : h # LeaveCmd(p)
      BY <2>1 DEF JoinBy, LeaveCmd
    <3> QED BY <1>3, <1>4, <1>6, <2>3, <2>6, <3>1 DEF LeaveInv
  <2> QED BY <2>8, <2>9, <2>10 DEF GhostInv
<1> QED BY <1>7, <1>8

LEMMA GhostStep ==
    ASSUME StateTypeOK, GhostInv, MaxJoin = 1, [Work]_workVars
    PROVE  GhostInv'
<1>1. RoomTypeOK
  BY DEF StateTypeOK
<1>2. CASE UNCHANGED <<inbox, conns, rd, room, id, reply, joins>>
  BY <1>2 DEF GhostInv, OwnInv, JoinInv, LeaveInv, MayOwn, Knows
<1>3. CASE \E r \in RoomId : RunCmd(r)
  BY <1>1, <1>3, GhostApply DEF RunCmd
<1>4. CASE \E r \in RoomId : StartStep(r) \/ \E p \in DOMAIN conns[r] : Offer(r, p)
  BY <1>2, <1>4 DEF StartStep, Offer, actorVars, roomVars, readerVars
<1>5. CASE \E c \in Conn : Read(c) \/ Fail(c) \/ SendJoined(c)
  BY <1>1, <1>5, GhostReader DEF Read, Fail
<1>6. CASE \E c \in Conn : Step(c)
  BY <1>1, <1>6, GhostReader, GhostPost DEF Step
<1>7. CASE \E c \in Conn : Drop(c) \/ WriterTake(c) \/ WriteOk(c) \/ WriteError(c) \/ WriterDone(c)
  BY <1>2, <1>7 DEF Drop, Disconnect, WriterTake, WriteOk, WriteError, WriterDone,
                    actorVars, roomVars, readerVars
<1>8. CASE UNCHANGED workVars
  BY <1>2, <1>8 DEF workVars, actorVars, roomVars, readerVars
<1> QED BY <1>3, <1>4, <1>5, <1>6, <1>7, <1>8 DEF Work

(* For clients that send one JOIN, a connection that is past its cleanup   *)
(* leaves no player behind: whatever it still has in a room is about to be *)
(* deleted by a leave command already in that room's inbox, whenever the   *)
(* client went away.                                                       *)
THEOREM NoGhosts == ASSUME MaxJoin = 1 PROVE SafeSpec => []NoGhost
<1>1. Init => StateTypeOK /\ GhostInv
  BY TypeInit, GhostInit
<1>2. StateTypeOK /\ GhostInv /\ [Next]_vars => (StateTypeOK /\ GhostInv)'
  BY TypeStep, GhostStep, StepIsWork
<1>3. GhostInv => NoGhost
  BY LeaveIsNoGhost DEF GhostInv
<1> QED BY <1>1, <1>2, <1>3, PTL DEF SafeSpec

-----------------------------------------------------------------------------
(* The snapshots a client is sent, for clients that send one JOIN.         *)

OutOf(w, s) == (IF w.pc = "write" THEN <<w.frame>> ELSE <<>>) \o s

IsSnap(f, r) == f.type = "SNAPSHOT" /\ f.room = r

\* The snapshots in s are in the order of their ticks, each tick once.
Ordered(s) ==
    \A i, j \in 1 .. Len(s) :
      (/\ i < j
       /\ s[i].type = "SNAPSHOT" /\ s[j].type = "SNAPSHOT"
       /\ s[i].room = s[j].room
       /\ s[i].tick < MaxTick)
      => s[i].tick < s[j].tick

\* No snapshot of r in s is later than tick t; all are before it.
Until(s, r, t)  == \A i \in 1 .. Len(s) : IsSnap(s[i], r) => s[i].tick <= t
Before(s, r, t) == \A i \in 1 .. Len(s) : IsSnap(s[i], r) /\ s[i].tick < MaxTick => s[i].tick < t

TickInv ==
    /\ \A r \in RoomId : tick[r] <= MaxTick
    /\ \A c \in Conn : Ordered(Out(c))
    /\ \A c \in Conn, r \in RoomId : Until(Out(c), r, tick[r])
BcastInv ==
    \A r \in RoomId : bcast[r] # None =>
      /\ IsSnap(bcast[r].frame, r) /\ bcast[r].frame.tick = tick[r]
      /\ bcast[r].todo \subseteq DOMAIN conns[r]
      /\ \A p \in bcast[r].todo : \A c \in Conn : conns[r][p] = c => Before(Out(c), r, tick[r])
OnceInv == TickInv /\ BcastInv

LEMMA OrderedIsOnce == OncePerTick <=> \A c \in Conn : Ordered(Out(c))
BY DEF OncePerTick, Ordered

LEMMA OutIsOutOf == \A c \in Conn : Out(c) = OutOf(wr[c], send[c])
BY DEF Out, OutOf

(* What a client is still to be sent, frame by frame.                      *)
LEMMA OutFrames ==
    ASSUME NEW s \in Seq(Frame), NEW w, w.pc = "write" => w.frame \in Frame
    PROVE  /\ OutOf(w, s) \in Seq(Frame)
           /\ w.pc = "write" => /\ Len(OutOf(w, s)) = Len(s) + 1 /\ OutOf(w, s)[1] = w.frame
                                /\ \A i \in 1 .. Len(s) : OutOf(w, s)[i + 1] = s[i]
           /\ w.pc # "write" => /\ Len(OutOf(w, s)) = Len(s)
                                /\ \A i \in 1 .. Len(s) : OutOf(w, s)[i] = s[i]
<1>1. CASE w.pc = "write"
  <2> DEFINE a == <<w.frame>>
  <2>1. a \in Seq(Frame) /\ Len(a) = 1 /\ a[1] = w.frame
    BY <1>1
  <2>2. OutOf(w, s) = a \o s
    BY <1>1 DEF OutOf
  <2> HIDE DEF a
  <2>3. /\ a \o s \in Seq(Frame) /\ Len(a \o s) = Len(a) + Len(s)
        /\ \A i \in 1 .. Len(a) + Len(s) :
             (a \o s)[i] = IF i <= Len(a) THEN a[i] ELSE s[i - Len(a)]
    BY <2>1, ConcatProperties
  <2>4. Len(s) \in Nat
    BY LenProperties
  <2> DEFINE t == a \o s
  <2>5. t \in Seq(Frame) /\ Len(t) = Len(s) + 1
        /\ \A i \in 1 .. Len(s) + 1 : t[i] = IF i <= 1 THEN a[i] ELSE s[i - 1]
    BY <2>1, <2>3, <2>4
  <2> HIDE DEF t
  <2>6. t[1] = w.frame
    BY <2>1, <2>4, <2>5
  <2>7. ASSUME NEW i \in 1 .. Len(s) PROVE t[i + 1] = s[i]
    <3>1. i + 1 \in 1 .. Len(s) + 1 /\ ~(i + 1 <= 1) /\ (i + 1) - 1 = i
      BY <2>4
    <3> QED BY <2>5, <3>1
  <2> QED BY <1>1, <2>2, <2>5, <2>6, <2>7 DEF t
<1>2. CASE w.pc # "write"
  <2>1. OutOf(w, s) = <<>> \o s
    BY <1>2 DEF OutOf
  <2>2. <<>> \o s = s
    BY ConcatEmptySeq
  <2> QED BY <1>2, <2>1, <2>2
<1> QED BY <1>1, <1>2

(* One more frame at the end.                                              *)
LEMMA OutAppend ==
    ASSUME NEW s \in Seq(Frame), NEW w, w.pc = "write" => w.frame \in Frame, NEW f \in Frame,
           NEW o, o = OutOf(w, s), NEW t, t = OutOf(w, Append(s, f))
    PROVE  /\ Len(o) \in Nat /\ Len(t) = Len(o) + 1 /\ t[Len(o) + 1] = f
           /\ \A i \in 1 .. Len(o) : t[i] = o[i]
<1> DEFINE u == Append(s, f)
<1>1. u \in Seq(Frame) /\ Len(u) = Len(s) + 1 /\ Len(s) \in Nat /\ u[Len(s) + 1] = f
      /\ \A i \in 1 .. Len(s) : u[i] = s[i]
  BY AppendProperties, LenProperties
<1>2. t = OutOf(w, u)
  OBVIOUS
<1> HIDE DEF u
<1>3. CASE w.pc # "write"
  <2>1. Len(o) = Len(s) /\ \A i \in 1 .. Len(s) : o[i] = s[i]
    BY <1>3, OutFrames
  <2>2. Len(t) = Len(u) /\ \A i \in 1 .. Len(u) : t[i] = u[i]
    BY <1>1, <1>2, <1>3, OutFrames
  <2>3. Len(s) + 1 \in 1 .. Len(u) /\ \A i \in 1 .. Len(s) : i \in 1 .. Len(u)
    BY <1>1
  <2> QED BY <1>1, <2>1, <2>2, <2>3
<1>4. CASE w.pc = "write"
  <2>1. Len(o) = Len(s) + 1 /\ o[1] = w.frame /\ \A i \in 1 .. Len(s) : o[i + 1] = s[i]
    BY <1>4, OutFrames
  <2>2. Len(t) = Len(u) + 1 /\ t[1] = w.frame /\ \A i \in 1 .. Len(u) : t[i + 1] = u[i]
    BY <1>1, <1>2, <1>4, OutFrames
  <2>3. t[Len(o) + 1] = f
    <3>1. Len(s) + 1 \in 1 .. Len(u)
      BY <1>1
    <3> QED BY <1>1, <2>1, <2>2, <3>1
  <2>4. ASSUME NEW i \in 1 .. Len(o) PROVE t[i] = o[i]
    <3>1. CASE i = 1
      BY <2>1, <2>2, <3>1
    <3>2. CASE i # 1
      <4>1. i - 1 \in 1 .. Len(s) /\ i - 1 \in 1 .. Len(u) /\ (i - 1) + 1 = i
        BY <1>1, <2>1, <3>2
      <4> QED BY <1>1, <2>1, <2>2, <4>1
    <3> QED BY <3>1, <3>2
  <2> QED BY <1>1, <2>1, <2>2, <2>3, <2>4
<1> QED BY <1>3, <1>4

(* A later snapshot keeps the order; so does any other frame.              *)
LEMMA AppendOrdered ==
    ASSUME NEW o, NEW t, NEW f, Len(o) \in Nat, Len(t) = Len(o) + 1, t[Len(o) + 1] = f,
           \A i \in 1 .. Len(o) : t[i] = o[i], Ordered(o),
           \A r : IsSnap(f, r) => Before(o, r, f.tick)
    PROVE  Ordered(t)
<1> SUFFICES ASSUME NEW i \in 1 .. Len(t), NEW j \in 1 .. Len(t), i < j,
                    t[i].type = "SNAPSHOT", t[j].type = "SNAPSHOT", t[i].room = t[j].room,
                    t[i].tick < MaxTick
             PROVE  t[i].tick < t[j].tick
  BY DEF Ordered
<1>1. i \in 1 .. Len(o) /\ (j \in 1 .. Len(o) \/ j = Len(o) + 1)
  OBVIOUS
<1>2. CASE j \in 1 .. Len(o)
  BY <1>1, <1>2 DEF Ordered
<1>3. CASE j = Len(o) + 1
  <2>1. IsSnap(f, f.room) /\ IsSnap(o[i], f.room) /\ o[i].tick < MaxTick /\ t[i] = o[i]
    BY <1>1, <1>3 DEF IsSnap
  <2>2. o[i].tick < f.tick
    BY <1>1, <2>1 DEF Before
  <2> QED BY <1>3, <2>1, <2>2
<1> QED BY <1>1, <1>2, <1>3

LEMMA AppendBounds ==
    ASSUME NEW o, NEW t, NEW f, Len(o) \in Nat, Len(t) = Len(o) + 1, t[Len(o) + 1] = f,
           \A i \in 1 .. Len(o) : t[i] = o[i], NEW r, NEW n
    PROVE  /\ Until(o, r, n) /\ (IsSnap(f, r) => f.tick <= n) => Until(t, r, n)
           /\ Before(o, r, n) /\ ~IsSnap(f, r) => Before(t, r, n)
<1>1. \A i \in 1 .. Len(t) : i \in 1 .. Len(o) \/ i = Len(o) + 1
  OBVIOUS
<1> QED BY <1>1 DEF Until, Before

(* The writer takes the first frame, or is done with one: what is left is  *)
(* a suffix of what was.                                                   *)
Suffix(o, t) ==
    /\ Len(o) \in Nat /\ Len(t) \in Nat
    /\ \E d \in {0, 1} : Len(o) = Len(t) + d /\ \A i \in 1 .. Len(t) : t[i] = o[i + d]

LEMMA SuffixKeeps ==
    ASSUME NEW o, NEW t, Suffix(o, t)
    PROVE  /\ Ordered(o) => Ordered(t)
           /\ \A r, n : Until(o, r, n) => Until(t, r, n)
           /\ \A r, n : Before(o, r, n) => Before(t, r, n)
<1>1. PICK d \in {0, 1} : Len(o) = Len(t) + d /\ \A i \in 1 .. Len(t) : t[i] = o[i + d]
  BY DEF Suffix
<1>2. Len(t) \in Nat /\ d \in Nat
  BY DEF Suffix
<1>3. \A i \in 1 .. Len(t) : i + d \in 1 .. Len(o) /\ t[i] = o[i + d]
  BY <1>1, <1>2
<1>4. \A i, j \in 1 .. Len(t) : i < j => i + d < j + d
  BY <1>2
<1>5. Ordered(o) => Ordered(t)
  BY <1>3, <1>4 DEF Ordered
<1>6. \A r, n : Until(o, r, n) => Until(t, r, n)
  BY <1>3 DEF Until
<1>7. \A r, n : Before(o, r, n) => Before(t, r, n)
  BY <1>3 DEF Before
<1> QED BY <1>5, <1>6, <1>7

LEMMA OutSuffix ==
    ASSUME NEW s \in Seq(Frame), NEW w, w.pc = "write" => w.frame \in Frame,
           NEW v, v.pc # "write", NEW o, o = OutOf(w, s), NEW t, t = OutOf(v, s)
    PROVE  Suffix(o, t)
<1>1. Len(t) = Len(s) /\ Len(s) \in Nat /\ \A i \in 1 .. Len(s) : t[i] = s[i]
  BY OutFrames, LenProperties
<1>2. CASE w.pc # "write"
  <2>1. Len(o) = Len(s) /\ \A i \in 1 .. Len(s) : o[i] = s[i]
    BY <1>2, OutFrames
  <2>2. Len(o) = Len(t) + 0 /\ \A i \in 1 .. Len(t) : t[i] = o[i + 0]
    BY <1>1, <2>1
  <2> QED BY <1>1, <2>1, <2>2 DEF Suffix
<1>3. CASE w.pc = "write"
  <2>1. Len(o) = Len(s) + 1 /\ \A i \in 1 .. Len(s) : o[i + 1] = s[i]
    BY <1>3, OutFrames
  <2>2. Len(o) = Len(t) + 1 /\ \A i \in 1 .. Len(t) : t[i] = o[i + 1]
    BY <1>1, <2>1
  <2> QED BY <1>1, <2>1, <2>2 DEF Suffix
<1> QED BY <1>2, <1>3

LEMMA OutTaken ==
    ASSUME NEW s \in Seq(Frame), s # <<>>, NEW w, w.pc # "write",
           NEW v, v.pc = "write", v.frame = Head(s),
           NEW o, o = OutOf(w, s), NEW t, t = OutOf(v, Tail(s))
    PROVE  Suffix(o, t)
<1> DEFINE u == Tail(s)
<1>1. /\ u \in Seq(Frame) /\ Len(u) = Len(s) - 1 /\ Len(s) \in Nat \ {0}
      /\ Head(s) \in Frame /\ Head(s) = s[1] /\ \A i \in 1 .. Len(u) : u[i] = s[i + 1]
  BY HeadTailProperties, LenProperties
<1>2. t = OutOf(v, u)
  OBVIOUS
<1> HIDE DEF u
<1>3. Len(o) = Len(s) /\ \A i \in 1 .. Len(s) : o[i] = s[i]
  BY OutFrames
<1>4. Len(t) = Len(u) + 1 /\ t[1] = s[1] /\ \A i \in 1 .. Len(u) : t[i + 1] = u[i]
  <2>1. v.frame \in Frame /\ v.frame = s[1]
    BY <1>1
  <2>2. /\ Len(OutOf(v, u)) = Len(u) + 1 /\ OutOf(v, u)[1] = v.frame
        /\ \A i \in 1 .. Len(u) : OutOf(v, u)[i + 1] = u[i]
    BY <1>1, <2>1, OutFrames
  <2> QED BY <1>2, <2>1, <2>2
<1>5. ASSUME NEW i \in 1 .. Len(t) PROVE t[i] = o[i + 0]
  <2>1. CASE i = 1
    BY <1>1, <1>3, <1>4, <2>1
  <2>2. CASE i # 1
    <3>1. i - 1 \in 1 .. Len(u) /\ (i - 1) + 1 = i /\ i \in 1 .. Len(s) /\ i + 0 = i
      BY <1>1, <1>4, <2>2
    <3>2. t[(i - 1) + 1] = u[i - 1] /\ u[i - 1] = s[(i - 1) + 1]
      BY <1>1, <1>4, <3>1
    <3> QED BY <1>3, <3>1, <3>2
  <2> QED BY <2>1, <2>2
<1>6. Len(o) = Len(t) + 0 /\ Len(o) \in Nat /\ Len(t) \in Nat
  BY <1>1, <1>3, <1>4
<1> QED BY <1>5, <1>6 DEF Suffix

LEMMA OnceInit == Init => OnceInv
<1> SUFFICES ASSUME Init PROVE OnceInv
  OBVIOUS
<1>1. \A c \in Conn : send[c] = <<>> /\ wr[c] = Idle
  BY DEF Init
<1>2. <<>> \in Seq(Frame) /\ Idle.pc # "write" /\ Len(<<>>) = 0
  BY DEF Idle
<1>3. \A c \in Conn : Len(Out(c)) = 0
  <2>1. Len(OutOf(Idle, <<>>)) = 0
    BY <1>2, OutFrames
  <2> QED BY <1>1, <2>1, OutIsOutOf
<1>4. \A r \in RoomId : tick[r] = 0 /\ bcast[r] = None
  BY DEF Init, RoomInit
<1>5. TickInv
  BY <1>3, <1>4, RoomConstants DEF TickInv, Ordered, Until
<1>6. BcastInv
  BY <1>4 DEF BcastInv
<1> QED BY <1>5, <1>6 DEF OnceInv

(* The writer's frame, and the frames in a send channel, are frames.       *)
LEMMA OutTypes ==
    ASSUME StateTypeOK, NEW c \in Conn
    PROVE  send[c] \in Seq(Frame) /\ (wr[c].pc = "write" => wr[c].frame \in Frame)
<1>1. wr[c] \in {Idle, Exited} \cup [pc : {"write"}, frame : Frame]
  BY DEF StateTypeOK
<1>2. Idle.pc # "write" /\ Exited.pc # "write"
  BY DEF Idle, Exited
<1>3. wr[c].pc = "write" => wr[c].frame \in Frame
  BY <1>1, <1>2
<1> QED BY <1>3 DEF StateTypeOK

(* A step of a writer.                                                     *)
LEMMA OnceWriter ==
    ASSUME StateTypeOK, OnceInv, NEW c \in Conn,
           WriterTake(c) \/ WriteOk(c) \/ WriteError(c) \/ WriterDone(c)
    PROVE  OnceInv'
<1>1. UNCHANGED <<tick, conns, bcast>>
  BY DEF WriterTake, WriteOk, WriteError, WriterDone, actorVars, roomVars
<1>2. wr \in [Conn -> {Idle, Exited} \cup [pc : {"write"}, frame : Frame]]
      /\ send \in [Conn -> Seq(Frame)]
  BY DEF StateTypeOK
<1>3. Idle.pc # "write" /\ Exited.pc # "write" /\ \A f : Writing(f).pc = "write" /\ Writing(f).frame = f
  BY DEF Idle, Exited, Writing
<1>4. \A d \in Conn : d # c => wr'[d] = wr[d] /\ send'[d] = send[d]
  BY <1>2 DEF WriterTake, WriteOk, WriteError, WriterDone
<1>5. \A d \in Conn : Out(d)' = OutOf(wr'[d], send'[d])
  BY DEF Out, OutOf
<1>6. \A d \in Conn : d # c => Out(d)' = Out(d)
  BY <1>4, <1>5, OutIsOutOf
<1>7. Suffix(Out(c), Out(c)')
  <2>1. send[c] \in Seq(Frame) /\ (wr[c].pc = "write" => wr[c].frame \in Frame)
    BY OutTypes
  <2>2. CASE WriterTake(c)
    <3>1. /\ send[c] # <<>> /\ wr[c].pc # "write"
          /\ wr'[c] = Writing(Head(send[c])) /\ send'[c] = Tail(send[c])
      BY <1>2, <1>3, <2>2 DEF WriterTake
    <3> QED BY <1>3, <1>5, <2>1, <3>1, OutIsOutOf, OutTaken
  <2>3. CASE WriteOk(c) \/ WriteError(c) \/ WriterDone(c)
    <3>1. send'[c] = send[c] /\ wr'[c].pc # "write"
      BY <1>2, <1>3, <2>3 DEF WriteOk, WriteError, WriterDone
    <3> QED BY <1>5, <2>1, <3>1, OutIsOutOf, OutSuffix
  <2> QED BY <2>2, <2>3
<1>8. /\ Ordered(Out(c)) => Ordered(Out(c)')
      /\ \A r, n : Until(Out(c), r, n) => Until(Out(c)', r, n)
      /\ \A r, n : Before(Out(c), r, n) => Before(Out(c)', r, n)
  BY <1>7, SuffixKeeps
<1>9. TickInv'
  <2>1. \A d \in Conn : Ordered(Out(d)')
    BY <1>6, <1>8 DEF OnceInv, TickInv
  <2>2. \A d \in Conn, r \in RoomId : Until(Out(d)', r, tick[r])
    BY <1>6, <1>8 DEF OnceInv, TickInv
  <2> QED BY <1>1, <2>1, <2>2 DEF OnceInv, TickInv, Ordered, Until
<1>10. BcastInv'
  <2>1. \A r \in RoomId : bcast[r] # None => \A p \in bcast[r].todo : \A d \in Conn :
          conns[r][p] = d => Before(Out(d)', r, tick[r])
    BY <1>6, <1>8 DEF OnceInv, BcastInv
  <2> QED BY <1>1, <2>1 DEF OnceInv, BcastInv, Before
<1> QED BY <1>9, <1>10 DEF OnceInv

(* JOINED goes into the send channel.                                      *)
LEMMA OnceJoined ==
    ASSUME StateTypeOK, OnceInv, NEW c \in Conn, SendJoined(c)
    PROVE  OnceInv'
<1> DEFINE f == Joined(c)
<1>1. UNCHANGED <<tick, conns, bcast, wr>>
  BY DEF SendJoined, roomVars
<1>2. f \in Frame /\ \A r : ~IsSnap(f, r)
  <2>1. f \in Frame
    BY JoinedFrame DEF StateTypeOK
  <2> QED BY <2>1 DEF Joined, IsSnap
<1>3. send'[c] = Append(send[c], f) /\ \A d \in Conn : d # c => send'[d] = send[d]
  BY DEF SendJoined, StateTypeOK
<1> HIDE DEF f
<1>4. \A d \in Conn : Out(d)' = OutOf(wr[d], send'[d])
  BY <1>1 DEF Out, OutOf
<1>5. \A d \in Conn : d # c => Out(d)' = Out(d)
  BY <1>3, <1>4, OutIsOutOf
<1>6. send[c] \in Seq(Frame) /\ (wr[c].pc = "write" => wr[c].frame \in Frame)
  BY OutTypes
<1> DEFINE o == Out(c)
           t == OutOf(wr[c], send'[c])
<1>7. /\ Len(o) \in Nat /\ Len(t) = Len(o) + 1 /\ t[Len(o) + 1] = f
      /\ \A i \in 1 .. Len(o) : t[i] = o[i]
  BY <1>2, <1>3, <1>6, OutIsOutOf, OutAppend
<1>8. Ordered(o)
  BY DEF OnceInv, TickInv
<1> HIDE DEF o, t
<1>9. Ordered(t)
  BY <1>2, <1>7, <1>8, AppendOrdered
<1>10. \A r, n : (Until(o, r, n) => Until(t, r, n)) /\ (Before(o, r, n) => Before(t, r, n))
  BY <1>2, <1>7, AppendBounds
<1>11. Out(c)' = t /\ Out(c) = o
  BY <1>4 DEF t, o
<1>12. TickInv'
  <2>1. \A d \in Conn : Ordered(Out(d)')
    BY <1>5, <1>9, <1>11 DEF OnceInv, TickInv
  <2>2. \A d \in Conn, r \in RoomId : Until(Out(d)', r, tick[r])
    BY <1>5, <1>10, <1>11 DEF OnceInv, TickInv
  <2> QED BY <1>1, <2>1, <2>2 DEF OnceInv, TickInv, Ordered, Until
<1>13. BcastInv'
  <2>1. \A r \in RoomId : bcast[r] # None => \A p \in bcast[r].todo : \A d \in Conn :
          conns[r][p] = d => Before(Out(d)', r, tick[r])
    BY <1>5, <1>10, <1>11 DEF OnceInv, BcastInv
  <2> QED BY <1>1, <2>1 DEF OnceInv, BcastInv, Before
<1> QED BY <1>12, <1>13 DEF OnceInv

(* A room starts to broadcast the next tick.                               *)
LEMMA OnceStart ==
    ASSUME StateTypeOK, OnceInv, NEW r \in RoomId, StartStep(r)
    PROVE  OnceInv'
<1>1. UNCHANGED <<conns, send, wr>>
  BY DEF StartStep
<1>2. \A d \in Conn : Out(d)' = Out(d)
  BY <1>1 DEF Out
<1>3. tick \in [RoomId -> Nat] /\ MaxTick \in Nat /\ tick[r] \in Nat
  BY RoomConstants DEF StateTypeOK, RoomTypeOK
<1>4. tick'[r] = NextTick(tick[r]) /\ \A s \in RoomId : s # r => tick'[s] = tick[s]
  BY <1>3 DEF StartStep
<1>5. tick[r] <= MaxTick
  BY DEF OnceInv, TickInv
<1>6. /\ tick'[r] \in Nat /\ tick'[r] <= MaxTick /\ tick[r] <= tick'[r]
      /\ tick[r] < MaxTick => tick[r] < tick'[r]
      /\ tick[r] >= MaxTick => tick'[r] = MaxTick
  BY <1>3, <1>4, <1>5 DEF NextTick
<1>7. ASSUME NEW c \in Conn PROVE Until(Out(c), r, tick'[r]) /\ Before(Out(c), r, tick'[r])
  <2>1. Out(c) \in Seq(Frame)
    BY OutTypes, OutFrames, OutIsOutOf
  <2>2. ASSUME NEW i \in 1 .. Len(Out(c)), IsSnap(Out(c)[i], r)
        PROVE  /\ Out(c)[i].tick <= tick'[r]
               /\ Out(c)[i].tick < MaxTick => Out(c)[i].tick < tick'[r]
    <3>1. Out(c)[i] \in Frame
      BY <2>1, ElementOfSeq
    <3>2. Out(c)[i].tick \in Nat
      BY <2>2, <3>1 DEF Frame, IsSnap
    <3>3. Out(c)[i].tick <= tick[r]
      BY <2>2 DEF OnceInv, TickInv, Until
    <3> QED BY <1>3, <1>6, <3>2, <3>3
  <2> QED BY <2>2 DEF Until, Before
<1>8. TickInv'
  <2>1. \A s \in RoomId : tick'[s] <= MaxTick
    BY <1>4, <1>6 DEF OnceInv, TickInv
  <2>2. \A d \in Conn, s \in RoomId : Until(Out(d), s, tick'[s])
    BY <1>4, <1>7 DEF OnceInv, TickInv
  <2>3. \A d \in Conn : Ordered(Out(d))
    BY DEF OnceInv, TickInv
  <2> QED BY <1>2, <2>1, <2>2, <2>3 DEF TickInv, Ordered, Until
<1>9. bcast'[r] = None \/ bcast'[r] = [frame |-> Snapshot(r), todo |-> DOMAIN conns[r]]
  BY DEF StartStep, StateTypeOK
<1>10. \A s \in RoomId : s # r => bcast'[s] = bcast[s]
  BY DEF StartStep, StateTypeOK
<1>11. BcastInv'
  <2> SUFFICES ASSUME NEW s \in RoomId, bcast'[s] # None
               PROVE  /\ IsSnap(bcast'[s].frame, s) /\ bcast'[s].frame.tick = tick'[s]
                      /\ bcast'[s].todo \subseteq DOMAIN conns[s]
                      /\ \A p \in bcast'[s].todo : \A c \in Conn :
                           conns[s][p] = c => Before(Out(c), s, tick'[s])
    BY <1>1, <1>2 DEF BcastInv, Before
  <2>1. CASE s = r
    <3>1. bcast'[r].frame = Snapshot(r) /\ bcast'[r].todo = DOMAIN conns[r]
      BY <1>9, <2>1
    <3>2. IsSnap(Snapshot(r), r) /\ Snapshot(r).tick = tick'[r]
      BY <1>4 DEF Snapshot, IsSnap
    <3> QED BY <1>7, <2>1, <3>1, <3>2
  <2>2. CASE s # r
    BY <1>4, <1>10, <2>2 DEF OnceInv, BcastInv
  <2> QED BY <2>1, <2>2
<1> QED BY <1>8, <1>11 DEF OnceInv

(* The frame is offered to one connection, which has no other player in    *)
(* the room.                                                               *)
LEMMA OnceOffer ==
    ASSUME StateTypeOK, OnceInv, OwnInv, NEW r \in RoomId, NEW p \in DOMAIN conns[r], Offer(r, p)
    PROVE  OnceInv'
<1> DEFINE f == bcast[r].frame
           todo == bcast[r].todo \ {p}
<1>1. UNCHANGED <<tick, conns, wr>>
  BY DEF Offer, actorVars, roomVars
<1>2. PICK c \in Conn : c = conns[r][p]
  BY PidMapFacts DEF StateTypeOK, RoomTypeOK
<1>3. bcast[r] # None /\ p \in bcast[r].todo /\ bcast[r] \in [frame : Frame, todo : SUBSET Pid]
  BY DEF Offer, StateTypeOK
<1>4. f \in Frame
  BY <1>3
<1>5. IsSnap(f, r) /\ f.tick = tick[r] /\ Before(Out(c), r, tick[r])
  BY <1>2, <1>3 DEF OnceInv, BcastInv
<1>6. /\ bcast'[r] # None => bcast'[r].frame = f /\ bcast'[r].todo = todo
      /\ \A s \in RoomId : s # r => bcast'[s] = bcast[s]
  <2>1. bcast'[r] = IF todo = {} THEN None ELSE [bcast[r] EXCEPT !.todo = todo]
    BY DEF Offer, StateTypeOK
  <2>2. [bcast[r] EXCEPT !.todo = todo].frame = f /\ [bcast[r] EXCEPT !.todo = todo].todo = todo
    BY <1>3
  <2>3. \A s \in RoomId : s # r => bcast'[s] = bcast[s]
    BY DEF Offer, StateTypeOK
  <2> QED BY <2>1, <2>2, <2>3
<1>7. \A d \in Conn : d # c => send'[d] = send[d]
  BY <1>2 DEF Offer, StateTypeOK
<1>8. send'[c] = send[c] \/ send'[c] = Append(send[c], f)
  BY <1>2 DEF Offer, StateTypeOK
<1>9. \A d \in Conn : Out(d)' = OutOf(wr[d], send'[d])
  BY <1>1 DEF Out, OutOf
<1>10. \A d \in Conn : d # c => Out(d)' = Out(d)
  BY <1>7, <1>9, OutIsOutOf
<1>11. \A e \in todo : conns[r][e] # c
  <2> SUFFICES ASSUME NEW e \in todo, conns[r][e] = c PROVE FALSE
    OBVIOUS
  <2>1. e \in DOMAIN conns[r] /\ e # p
    BY <1>3 DEF OnceInv, BcastInv
  <2>2. MayOwn(c, r, e) /\ MayOwn(c, r, p)
    BY <1>2, <2>1 DEF OwnInv
  <2> QED BY <2>1, <2>2 DEF MayOwn, Knows
<1> DEFINE o == Out(c)
           t == OutOf(wr[c], send'[c])
<1>12. Out(c)' = t
  BY <1>2, <1>9
<1>13. Ordered(t) /\ \A s \in RoomId : Until(t, s, tick[s])
                   /\ \A n : s # r /\ Before(o, s, n) => Before(t, s, n)
  <2>1. Ordered(o) /\ \A s \in RoomId : Until(o, s, tick[s])
    BY <1>2 DEF OnceInv, TickInv
  <2>2. o = OutOf(wr[c], send[c])
    BY <1>2, OutIsOutOf
  <2>3. CASE send'[c] = send[c]
    BY <2>1, <2>2, <2>3
  <2>4. CASE send'[c] = Append(send[c], f)
    <3>1. send[c] \in Seq(Frame) /\ (wr[c].pc = "write" => wr[c].frame \in Frame)
      BY <1>2, OutTypes
    <3>2. /\ Len(o) \in Nat /\ Len(t) = Len(o) + 1 /\ t[Len(o) + 1] = f
          /\ \A i \in 1 .. Len(o) : t[i] = o[i]
      BY <1>4, <2>2, <2>4, <3>1, OutAppend
    <3>3. \A s : IsSnap(f, s) => s = r
      BY <1>5 DEF IsSnap
    <3>4. tick[r] <= tick[r]
      BY DEF StateTypeOK, RoomTypeOK
    <3>5. Before(o, r, f.tick)
      BY <1>5
    <3> HIDE DEF o, t, f
    <3>6. Ordered(t)
      BY <2>1, <3>2, <3>3, <3>5, AppendOrdered
    <3>7. ASSUME NEW s \in RoomId
          PROVE  Until(t, s, tick[s]) /\ \A n : s # r /\ Before(o, s, n) => Before(t, s, n)
      <4>1. IsSnap(f, s) => f.tick <= tick[s]
        BY <1>5, <3>3, <3>4
      <4>2. s # r => ~IsSnap(f, s)
        BY <3>3
      <4> QED BY <2>1, <3>2, <4>1, <4>2, AppendBounds
    <3> QED BY <3>6, <3>7
  <2> QED BY <1>8, <2>3, <2>4
<1> HIDE DEF t, o, f, todo
<1>14. TickInv'
  <2>1. \A d \in Conn : Ordered(Out(d)')
    BY <1>10, <1>12, <1>13 DEF OnceInv, TickInv
  <2>2. \A d \in Conn, s \in RoomId : Until(Out(d)', s, tick[s])
    BY <1>10, <1>12, <1>13 DEF OnceInv, TickInv
  <2> QED BY <1>1, <2>1, <2>2 DEF OnceInv, TickInv, Ordered, Until
<1>15. BcastInv'
  <2> SUFFICES ASSUME NEW s \in RoomId, bcast'[s] # None
               PROVE  /\ IsSnap(bcast'[s].frame, s) /\ bcast'[s].frame.tick = tick[s]
                      /\ bcast'[s].todo \subseteq DOMAIN conns[s]
                      /\ \A e \in bcast'[s].todo : \A d \in Conn :
                           conns[s][e] = d => Before(Out(d)', s, tick[s])
    BY <1>1 DEF BcastInv, Before
  <2>1. CASE s = r
    <3>1. /\ bcast'[s].frame = f /\ bcast'[s].todo = todo /\ todo \subseteq bcast[r].todo
          /\ todo \subseteq DOMAIN conns[r]
      BY <1>3, <1>6, <2>1 DEF todo, OnceInv, BcastInv
    <3>2. ASSUME NEW e \in todo, NEW d \in Conn, conns[r][e] = d PROVE Before(Out(d)', r, tick[r])
      <4>1. d # c
        BY <1>11, <3>2
      <4>2. Before(Out(d), r, tick[r])
        BY <1>3, <3>1, <3>2 DEF OnceInv, BcastInv
      <4> QED BY <1>10, <4>1, <4>2
    <3> QED BY <1>5, <2>1, <3>1, <3>2
  <2>2. CASE s # r
    <3>1. /\ bcast'[s] = bcast[s] /\ bcast[s] # None
          /\ IsSnap(bcast[s].frame, s) /\ bcast[s].frame.tick = tick[s]
          /\ bcast[s].todo \subseteq DOMAIN conns[s]
          /\ \A e \in bcast[s].todo : \A d \in Conn :
               conns[s][e] = d => Before(Out(d), s, tick[s])
      BY <1>6, <2>2 DEF OnceInv, BcastInv
    <3>2. \A d \in Conn : Before(Out(d), s, tick[s]) => Before(Out(d)', s, tick[s])
      BY <1>10, <1>12, <1>13, <2>2 DEF o
    <3> QED BY <3>1, <3>2
  <2> QED BY <2>1, <2>2
<1> QED BY <1>14, <1>15 DEF OnceInv

LEMMA OnceStep ==
    ASSUME StateTypeOK, GhostInv, OnceInv, [Work]_workVars
    PROVE  OnceInv'
<1>1. ASSUME UNCHANGED <<tick, frameVars>>,
             \A r \in RoomId : bcast[r] # None => conns'[r] = conns[r]
      PROVE  OnceInv'
  <2>1. \A c \in Conn : Out(c)' = Out(c)
    BY <1>1 DEF Out, frameVars
  <2>2. TickInv'
    BY <1>1, <2>1 DEF OnceInv, TickInv, Ordered, Until
  <2>3. BcastInv'
    BY <1>1, <2>1 DEF OnceInv, BcastInv, Before, frameVars
  <2> QED BY <2>2, <2>3 DEF OnceInv
<1>2. CASE \E r \in RoomId : RunCmd(r)
  <2>1. PICK r \in RoomId : RunCmd(r)
    BY <1>2
  <2>2. \A s \in RoomId : s # r => conns'[s] = conns[s]
    BY <2>1 DEF RunCmd, ApplyJoin, ApplyMove, ApplyLeave, StateTypeOK, RoomTypeOK
  <2>3. bcast[r] = None /\ UNCHANGED <<tick, frameVars>>
    BY <2>1 DEF RunCmd, ApplyJoin, ApplyMove, ApplyLeave
  <2> QED BY <1>1, <2>2, <2>3
<1>3. CASE \E r \in RoomId : StartStep(r)
  BY <1>3, OnceStart
<1>4. CASE \E r \in RoomId : \E p \in DOMAIN conns[r] : Offer(r, p)
  BY <1>4, OnceOffer DEF GhostInv
<1>5. CASE \E c \in Conn : Read(c) \/ Fail(c) \/ Step(c) \/ Drop(c)
  BY <1>1, <1>5 DEF Read, ReadJoin, ReadMove, Fail, ReadError, Step, SendJoin, SendMove,
                    SendLeave, Post, TakeReply, Close, Drop, Disconnect, roomVars
<1>6. CASE \E c \in Conn : SendJoined(c)
  BY <1>6, OnceJoined
<1>7. CASE \E c \in Conn : WriterTake(c) \/ WriteOk(c) \/ WriteError(c) \/ WriterDone(c)
  BY <1>7, OnceWriter
<1>8. CASE UNCHANGED workVars
  BY <1>1, <1>8 DEF workVars, actorVars, roomVars
<1> QED BY <1>2, <1>3, <1>4, <1>5, <1>6, <1>7, <1>8 DEF Work

(* For clients that send one JOIN, a client is sent at most one snapshot   *)
(* per tick of its room, in the order of the ticks, whatever is dropped    *)
(* because a channel is full and whatever the writer has written already.  *)
THEOREM SnapshotsOnce == ASSUME MaxJoin = 1 PROVE SafeSpec => []OncePerTick
<1>1. Init => StateTypeOK /\ GhostInv /\ OnceInv
  BY TypeInit, GhostInit, OnceInit
<1>2. StateTypeOK /\ GhostInv /\ OnceInv /\ [Next]_vars
        => (StateTypeOK /\ GhostInv /\ OnceInv)'
  BY TypeStep, GhostStep, OnceStep, StepIsWork
<1>3. OnceInv => OncePerTick
  BY OrderedIsOnce DEF OnceInv, TickInv
<1> QED BY <1>1, <1>2, <1>3, PTL DEF SafeSpec

=============================================================================
