--------------------------- MODULE GoEpollProofs ---------------------------
(***************************************************************************)
(* One worker of the epoll server, for any number of clients, rooms,       *)
(* descriptors, events in a batch and frames: types, who is closed and     *)
(* why, and, as long as nobody joins twice, the indices of the members,    *)
(* the loop that sends a snapshot, and the interest in EPOLLOUT.           *)
(***************************************************************************)
EXTENDS GoEpoll, SequenceTheorems, FiniteSetTheorems, TLAPS

-----------------------------------------------------------------------------
(* The parts of the inductive invariants.                                  *)

(* The descriptor of an open connection leads to it, and no other does.    *)
Links ==
    /\ \A f \in Fd : conns[f] # None => fd[conns[f]] = f /\ ~closed[conns[f]]
    /\ \A c \in Conn : fd[c] # 0 /\ ~closed[c] => conns[fd[c]] = c

(* What is known of a connection that has not been accepted. *)
Fresh ==
    \A c \in Conn :
      /\ link[c] \in {"none", "backlog"} <=> fd[c] = 0
      /\ fd[c] = 0 => /\ ~closed[c] /\ room[c] = None
                      /\ rbuf[c] = <<>> /\ sock[c] = <<>>
                      /\ wbuf[c] = <<>> /\ ~wantOut[c]

(* Rooms and the loop of step hold accepted connections only. *)
Served ==
    /\ \A r \in RoomId : \A i \in 1 .. Len(members[r]) : fd[members[r][i]] # 0
    /\ \A i \in 1 .. Len(slots) : fd[slots[i]] # 0

(* Where the worker is: at an event of an open connection, or in a tick. *)
AtEvent ==
    /\ pc \in {"parse", "out", "tick", "send"} => batch # <<>>
    /\ pc \in {"parse", "out"} => Head(batch).fd \in Fd /\ Current # None
    /\ pc = "send" => cur \in RoomId
    /\ pc # "send" => slots = <<>> /\ pos = 1
    /\ pos >= 1

(* The JOINs a client has sent and the worker has not handled. *)
JoinIdx(q)   == {i \in 1 .. Len(q) : q[i].type = "JOIN"}
JoinCount(q) == Cardinality(JoinIdx(q))
Flight(c)    == rbuf[c] \o sock[c]
Pending(c)   == IF closed[c] THEN 0 ELSE JoinCount(Flight(c))

(* The JOINs of a client that have been handled: a member has at least     *)
(* one, and every player id stands for one.                                *)
Spent(c) == Len(joins[c]) - Pending(c)
Done     == {x \in Conn \X (1 .. MaxJoin) : x[2] <= Spent(x[1])}

Counted ==
    /\ \A c \in Conn :
         /\ Len(joins[c]) <= MaxJoin
         /\ Spent(c) >= 0
         /\ room[c] # None => Spent(c) >= 1
    /\ nextPID <= Cardinality(Done)

EpollInv == TypeOK /\ Links /\ Fresh /\ Served /\ AtEvent /\ Counted

(* What the loop of step has still to do: members of its room, each one    *)
(* once, and at an index of the room that the loop has not passed.         *)
ToSend ==
    pc = "send" =>
      \A i \in pos .. Len(slots) :
        /\ room[slots[i]] = cur /\ midx[slots[i]] <= i
        /\ \A j \in pos .. Len(slots) : slots[i] = slots[j] => i = j

(* wantOut tells whether an open connection has something to write. *)
Wanted == \A c \in Conn : ~closed[c] => (wantOut[c] <=> wbuf[c] # <<>>)

OnceInv == MembersIndexed /\ ToSend /\ EachOnce
OutInv  == Wanted /\ OutArmed

-----------------------------------------------------------------------------
(* Types.                                                                  *)

\* What a frame from the network carries.
LEMMA FrameFacts ==
    ASSUME NEW f \in In
    PROVE  /\ f.type \in {"JOIN", "MOVE", "SHORT", "BAD"}
           /\ f.type = "JOIN" => f.room \in RoomId
           /\ f.type = "MOVE" => f.seq \in 1 .. MaxFrame
BY DEF In

\* What a frame in a write buffer carries.
LEMMA OutFacts ==
    ASSUME NEW f \in Out
    PROVE  f.type = "SNAPSHOT" => f.room \in RoomId
BY DEF Out

\* A write to one place of a sequence.
LEMMA ExceptAt ==
    ASSUME NEW S, NEW q \in Seq(S), NEW i \in Int, NEW x \in S,
           NEW e, e = [q EXCEPT ![i] = x]
    PROVE  /\ e \in Seq(S) /\ Len(e) = Len(q)
           /\ \A j \in 1 .. Len(q) : e[j] = IF j = i THEN x ELSE q[j]
<1>1. q \in [1 .. Len(q) -> S] /\ Len(q) \in Nat
  OBVIOUS
<1>2. e \in [1 .. Len(q) -> S]
  BY <1>1
<1>3. \A j \in 1 .. Len(q) : e[j] = IF j = i THEN x ELSE q[j]
  BY <1>1
<1>4. e \in Seq(S) /\ Len(e) = Len(q)
  BY <1>1, <1>2
<1> QED BY <1>3, <1>4

\* closeConn's removal from an array: the last one takes the place.
LEMMA SwapOut ==
    ASSUME NEW S, NEW q \in Seq(S), NEW i \in 1 .. Len(q)
    PROVE  LET p == SubSeq([q EXCEPT ![i] = q[Len(q)]], 1, Len(q) - 1)
           IN  /\ p \in Seq(S)
               /\ Len(p) = Len(q) - 1
               /\ \A j \in 1 .. Len(p) : p[j] = IF j = i THEN q[Len(q)] ELSE q[j]
<1> DEFINE e == [q EXCEPT ![i] = q[Len(q)]]
           p == SubSeq(e, 1, Len(q) - 1)
<1>1. q[Len(q)] \in S
  OBVIOUS
<1>2. /\ e \in Seq(S) /\ Len(e) = Len(q)
      /\ \A j \in 1 .. Len(q) : e[j] = IF j = i THEN q[Len(q)] ELSE q[j]
  BY <1>1, ExceptAt
<1>3. Len(q) - 1 \in 0 .. Len(e)
  BY <1>2
<1> HIDE DEF e
<1>4. p \in Seq(S) /\ Len(p) = Len(q) - 1 /\ \A j \in 1 .. Len(p) : p[j] = e[j]
  BY <1>2, <1>3
<1> QED BY <1>2, <1>4 DEF e

\* The state that closeConn changes.
CloseTypes ==
    /\ conns \in [Fd -> Conn \cup {None}]
    /\ armed \in [Fd -> BOOLEAN]
    /\ members \in [RoomId -> Seq(Conn)]
    /\ slots \in Seq(Conn)
    /\ room \in [Conn -> RoomId \cup {None}]
    /\ midx \in [Conn -> Nat]
    /\ closed \in [Conn -> BOOLEAN]

\* The state of output.
OutTypes ==
    /\ wbuf \in [Conn -> Seq(Out)]
    /\ wantOut \in [Conn -> BOOLEAN]
    /\ got \in [Conn -> SUBSET RoomId]

LEMMA FoundFacts ==
    ASSUME TypeOK, NEW c \in Conn, Found(c)
    PROVE  /\ room[c] \in RoomId /\ members[room[c]] \in Seq(Conn)
           /\ midx[c] \in 1 .. Len(members[room[c]])
           /\ Last(c) \in Conn
<1>1. room[c] \in RoomId /\ members[room[c]] \in Seq(Conn)
  BY DEF TypeOK, Found
<1>2. midx[c] \in 1 .. Len(members[room[c]])
  BY DEF Found
<1>3. members[room[c]][Len(members[room[c]])] \in Conn
  BY <1>1, <1>2
<1> QED BY <1>1, <1>2, <1>3 DEF Last

LEMMA RemovedType ==
    ASSUME TypeOK, NEW c \in Conn
    PROVE  Removed(c) \in [RoomId -> Seq(Conn)]
<1>1. CASE ~Found(c)
  BY <1>1 DEF Removed, TypeOK
<1>2. CASE Found(c)
  <2> DEFINE r == room[c]
             q == members[r]
  <2>1. r \in RoomId /\ q \in Seq(Conn) /\ midx[c] \in 1 .. Len(q)
    BY <1>2, FoundFacts
  <2>2. SubSeq([q EXCEPT ![midx[c]] = q[Len(q)]], 1, Len(q) - 1) \in Seq(Conn)
    BY <2>1, SwapOut
  <2>3. Removed(c) = [members EXCEPT ![r] =
                        SubSeq([q EXCEPT ![midx[c]] = q[Len(q)]], 1, Len(q) - 1)]
    BY <1>2, <2>1 DEF Removed, TypeOK, Last
  <2> QED BY <2>1, <2>2, <2>3 DEF TypeOK
<1> QED BY <1>1, <1>2

LEMMA CloseConnType ==
    ASSUME TypeOK, NEW c \in Conn, CloseConn(c)
    PROVE  CloseTypes'
<1>1. members' \in [RoomId -> Seq(Conn)]
  BY RemovedType DEF CloseConn
<1>2. midx' \in [Conn -> Nat]
  <2>1. CASE ~Found(c)
    BY <2>1 DEF CloseConn, Reindexed, TypeOK
  <2>2. CASE Found(c)
    BY <2>2, FoundFacts DEF CloseConn, Reindexed, TypeOK
  <2> QED BY <2>1, <2>2
<1>3. slots' \in Seq(Conn)
  <2>1. CASE slots' = slots
    BY <2>1 DEF TypeOK
  <2>2. CASE Found(c) /\ slots' = [slots EXCEPT ![midx[c]] = Last(c)]
    <3>1. Last(c) \in Conn /\ midx[c] \in Int /\ slots \in Seq(Conn)
      BY <2>2, FoundFacts DEF TypeOK
    <3> QED BY <2>2, <3>1, ExceptAt
  <2> QED BY <2>1, <2>2 DEF CloseConn, Overwritten
<1>4. /\ conns' \in [Fd -> Conn \cup {None}] /\ armed' \in [Fd -> BOOLEAN]
      /\ room' \in [Conn -> RoomId \cup {None}] /\ closed' \in [Conn -> BOOLEAN]
  BY DEF CloseConn, TypeOK
<1> QED BY <1>1, <1>2, <1>3, <1>4 DEF CloseTypes

LEMMA CloseType ==
    ASSUME TypeOK, NEW c \in Conn, Close(c)
    PROVE  CloseTypes'
<1>1. CASE CloseConn(c)
  BY <1>1, CloseConnType
<1>2. CASE UNCHANGED <<closed, conns, armed, members, midx, slots, room>>
  BY <1>2 DEF TypeOK, CloseTypes
<1> QED BY <1>1, <1>2 DEF Close

LEMMA ArmType ==
    ASSUME TypeOK, NEW c \in Conn, ArmOut(c)
    PROVE  wantOut' \in [Conn -> BOOLEAN] /\ armed' \in [Fd -> BOOLEAN]
BY DEF ArmOut, Arm, TypeOK

LEMMA EnqueueType ==
    ASSUME TypeOK, NEW c \in Conn, NEW f \in Out, Enqueue(c, f)
    PROVE  CloseTypes' /\ OutTypes'
<1>1. CASE Close(c) /\ UNCHANGED <<wbuf, wantOut, got>>
  BY <1>1, CloseType DEF TypeOK, OutTypes
<1>2. CASE Receive(Peer(c), f) /\ KeepOpen /\ UNCHANGED <<wbuf, wantOut, armed>>
  <2>1. got' \in [Conn -> SUBSET RoomId]
    BY <1>2, OutFacts DEF Receive, TypeOK
  <2> QED BY <1>2, <2>1 DEF TypeOK, CloseTypes, OutTypes, KeepOpen
<1>3. CASE wbuf' = [wbuf EXCEPT ![c] = <<f>>] /\ ArmOut(c) /\ KeepOpen /\ UNCHANGED got
  <2>1. wbuf' \in [Conn -> Seq(Out)]
    BY <1>3 DEF TypeOK
  <2> QED BY <1>3, <2>1, ArmType DEF TypeOK, CloseTypes, OutTypes, KeepOpen
<1>4. CASE EnqueueBehind(c, f)
  <2>1. CASE UNCHANGED <<wbuf, wantOut, armed>>
    BY <1>4, <2>1 DEF TypeOK, CloseTypes, OutTypes, KeepOpen, EnqueueBehind
  <2>2. CASE wbuf' = [wbuf EXCEPT ![c] = Append(@, f)] /\ ArmOut(c)
    <3>1. wbuf' \in [Conn -> Seq(Out)]
      BY <2>2 DEF TypeOK
    <3> QED BY <1>4, <2>2, <3>1, ArmType
            DEF TypeOK, CloseTypes, OutTypes, KeepOpen, EnqueueBehind
  <2> QED BY <1>4, <2>1, <2>2 DEF EnqueueBehind
<1> QED BY <1>1, <1>2, <1>3, <1>4 DEF Enqueue, EnqueueWrite

-----------------------------------------------------------------------------
(* How many player ids there are.                                          *)

LEMMA JoinCountType ==
    ASSUME NEW q \in Seq(In)
    PROVE  IsFiniteSet(JoinIdx(q)) /\ JoinCount(q) \in Nat
<1>1. IsFiniteSet(1 .. Len(q))
  BY FS_Interval
<1>2. IsFiniteSet(JoinIdx(q))
  BY <1>1, FS_Subset DEF JoinIdx
<1> QED BY <1>2, FS_CardinalityType DEF JoinCount

LEMMA JoinCountAppend ==
    ASSUME NEW q \in Seq(In), NEW f \in In
    PROVE  JoinCount(Append(q, f)) <= JoinCount(q) + 1
           /\ (f.type # "JOIN" => JoinCount(Append(q, f)) = JoinCount(q))
<1>1. IsFiniteSet(JoinIdx(q)) /\ JoinCount(q) \in Nat
  BY JoinCountType
<1>2. /\ Len(Append(q, f)) = Len(q) + 1 /\ Append(q, f)[Len(q) + 1] = f
      /\ \A i \in 1 .. Len(q) : Append(q, f)[i] = q[i]
  BY AppendProperties
<1>3. CASE f.type = "JOIN"
  <2>1. JoinIdx(Append(q, f)) = JoinIdx(q) \cup {Len(q) + 1}
    BY <1>2, <1>3 DEF JoinIdx
  <2>2. Len(q) + 1 \notin JoinIdx(q)
    BY DEF JoinIdx
  <2>3. JoinCount(Append(q, f)) = JoinCount(q) + 1
    BY <1>1, <2>1, <2>2, FS_AddElement DEF JoinCount
  <2> QED BY <1>1, <1>3, <2>3
<1>4. CASE f.type # "JOIN"
  <2>1. JoinIdx(Append(q, f)) = JoinIdx(q)
    BY <1>2, <1>4 DEF JoinIdx
  <2> QED BY <1>1, <2>1 DEF JoinCount
<1> QED BY <1>3, <1>4

LEMMA JoinCountTail ==
    ASSUME NEW q \in Seq(In), q # <<>>
    PROVE  /\ Head(q).type = "JOIN" => JoinCount(Tail(q)) = JoinCount(q) - 1
           /\ Head(q).type # "JOIN" => JoinCount(Tail(q)) = JoinCount(q)
<1> DEFINE t == Tail(q)
           S == JoinIdx(q) \ {1}
           g == [i \in S |-> i - 1]
<1>1. /\ t \in Seq(In) /\ Len(t) = Len(q) - 1 /\ Len(q) \in Nat /\ Len(q) >= 1
      /\ Head(q) = q[1] /\ \A i \in 1 .. Len(t) : t[i] = q[i + 1]
  BY HeadTailProperties, EmptySeq
<1>2. IsFiniteSet(JoinIdx(q)) /\ JoinCount(q) \in Nat
  BY JoinCountType
<1> HIDE DEF t
<1>3. \A i \in S : i \in 2 .. Len(q) /\ q[i].type = "JOIN"
  BY <1>1 DEF JoinIdx
<1>4. \A i \in JoinIdx(t) : i \in 1 .. Len(q) - 1 /\ q[i + 1].type = "JOIN"
  BY <1>1 DEF JoinIdx
<1>5. g \in Bijection(S, JoinIdx(t))
  <2>1. g \in [S -> JoinIdx(t)]
    <3> SUFFICES ASSUME NEW i \in S PROVE i - 1 \in JoinIdx(t)
      OBVIOUS
    <3>1. i - 1 \in 1 .. Len(t) /\ t[i - 1] = q[(i - 1) + 1] /\ (i - 1) + 1 = i
      BY <1>1, <1>3
    <3> QED BY <1>3, <3>1 DEF JoinIdx
  <2>2. \A i, j \in S : g[i] = g[j] => i = j
    BY <1>3
  <2>3. \A j \in JoinIdx(t) : \E i \in S : g[i] = j
    <3> SUFFICES ASSUME NEW j \in JoinIdx(t) PROVE \E i \in S : g[i] = j
      OBVIOUS
    <3>1. j + 1 \in S /\ (j + 1) - 1 = j
      BY <1>1, <1>4 DEF JoinIdx
    <3> QED BY <3>1
  <2> QED BY <2>1, <2>2, <2>3 DEF Bijection, Injection, Surjection, IsInjective
<1>6. IsFiniteSet(S) /\ Cardinality(S) = IF 1 \in JoinIdx(q) THEN JoinCount(q) - 1 ELSE JoinCount(q)
  BY <1>2, FS_RemoveElement DEF JoinCount
<1>7. ExistsBijection(S, JoinIdx(t))
  BY <1>5 DEF ExistsBijection
<1>8. JoinCount(t) = Cardinality(S)
  BY <1>6, <1>7, FS_Bijection DEF JoinCount
<1>9. 1 \in JoinIdx(q) <=> Head(q).type = "JOIN"
  BY <1>1 DEF JoinIdx
<1> QED BY <1>6, <1>8, <1>9 DEF t

\* A read moves frames from the socket to the buffer; a frame is added at
\* the end and taken from the front.
LEMMA FlightMoves ==
    ASSUME NEW p \in Seq(In), NEW q \in Seq(In)
    PROVE  /\ p \o q \in Seq(In)
           /\ (p \o q) \o <<>> = p \o q
           /\ \A f \in In : p \o Append(q, f) = Append(p \o q, f)
           /\ p # <<>> => /\ p \o q # <<>> /\ Head(p \o q) = Head(p)
                          /\ Tail(p \o q) = Tail(p) \o q
<1>1. p \o q \in Seq(In) /\ (p \o q) \o <<>> = p \o q
  BY ConcatProperties, ConcatEmptySeq
<1>2. \A f \in In : p \o Append(q, f) = Append(p \o q, f)
  OBVIOUS
<1>3. p # <<>> => /\ p \o q # <<>> /\ Head(p \o q) = Head(p)
                  /\ Tail(p \o q) = Tail(p) \o q
  OBVIOUS
<1> QED BY <1>1, <1>2, <1>3

LEMMA PendingType ==
    ASSUME TypeOK, NEW c \in Conn
    PROVE  /\ Flight(c) \in Seq(In) /\ JoinCount(Flight(c)) \in Nat
           /\ Pending(c) \in Nat /\ Spent(c) \in Int
<1>1. Flight(c) \in Seq(In)
  BY DEF TypeOK, Flight
<1>2. JoinCount(Flight(c)) \in Nat
  BY <1>1, JoinCountType
<1> QED BY <1>1, <1>2 DEF TypeOK, Pending, Spent

\* There are no more ids than JOINs.
LEMMA DoneBound ==
    ASSUME NEW D \in SUBSET (Conn \X (1 .. MaxJoin))
    PROVE  /\ IsFiniteSet(D) /\ Cardinality(D) \in Nat
           /\ Cardinality(D) <= Cardinality(Conn) * MaxJoin
<1>1. IsFiniteSet(Conn) /\ MaxJoin \in Nat
  BY EpollConstants
<1>2. IsFiniteSet(1 .. MaxJoin) /\ Cardinality(1 .. MaxJoin) = MaxJoin
  BY <1>1, FS_Interval
<1>3. /\ IsFiniteSet(Conn \X (1 .. MaxJoin))
      /\ Cardinality(Conn \X (1 .. MaxJoin)) = Cardinality(Conn) * MaxJoin
  BY <1>1, <1>2, FS_Product
<1> QED BY <1>3, FS_Subset, FS_CardinalityType

LEMMA DoneGrows ==
    ASSUME NEW D \in SUBSET (Conn \X (1 .. MaxJoin)), NEW E \in SUBSET (Conn \X (1 .. MaxJoin)),
           D \subseteq E
    PROVE  /\ Cardinality(D) <= Cardinality(E)
           /\ D # E => Cardinality(D) + 1 <= Cardinality(E)
<1>1. /\ IsFiniteSet(D) /\ Cardinality(D) \in Nat
      /\ IsFiniteSet(E) /\ Cardinality(E) \in Nat
  BY DoneBound
<1>2. Cardinality(D) <= Cardinality(E) /\ (Cardinality(E) = Cardinality(D) => E = D)
  BY <1>1, FS_Subset
<1> QED BY <1>1, <1>2

\* A step that handles no JOIN.
LEMMA CountKeep ==
    ASSUME EpollInv, nextPID' = nextPID,
           \A c \in Conn : /\ Spent(c)' \in Int /\ Spent(c)' >= Spent(c)
                           /\ Len(joins'[c]) <= MaxJoin
                           /\ room'[c] \in {room[c], None}
    PROVE  Counted'
<1>1. \A c \in Conn : Spent(c) \in Int
  BY PendingType DEF EpollInv
<1>2. Done \subseteq Done'
  BY <1>1, EpollConstants DEF Done
<1>3. Cardinality(Done) <= Cardinality(Done)'
  BY <1>2, DoneGrows DEF Done
<1>4. Cardinality(Done) \in Nat /\ Cardinality(Done)' \in Nat
  BY DoneBound DEF Done
<1>5. nextPID' <= Cardinality(Done)'
  <2>1. nextPID \in Int /\ nextPID <= Cardinality(Done)
    BY DEF EpollInv, TypeOK, Counted
  <2> QED BY <1>3, <1>4, <2>1
<1>6. \A c \in Conn : Spent(c)' >= 0 /\ (room'[c] # None => Spent(c)' >= 1)
  BY <1>1 DEF EpollInv, Counted
<1> QED BY <1>5, <1>6 DEF Counted

\* A step that handles a JOIN of c.
LEMMA CountMore ==
    ASSUME EpollInv, NEW c \in Conn, nextPID' = nextPID + 1, joins' = joins,
           Spent(c)' \in Int, Spent(c)' >= Spent(c) + 1, Spent(c)' <= MaxJoin,
           \A d \in Conn : d # c => Spent(d)' = Spent(d) /\ room'[d] = room[d]
    PROVE  Counted'
<1>1. \A d \in Conn : Spent(d) \in Int
  BY PendingType DEF EpollInv
<1>2. \A d \in Conn : Spent(d)' \in Int /\ Spent(d)' >= Spent(d)
  BY <1>1
<1>3. Done \subseteq Done'
  BY <1>1, <1>2, EpollConstants DEF Done
<1>4. Done # Done'
  <2> DEFINE x == <<c, Spent(c)'>>
  <2>1. Spent(c) >= 0
    BY DEF EpollInv, Counted
  <2>2. Spent(c)' \in 1 .. MaxJoin
    BY <1>1, <2>1, EpollConstants
  <2>3. x \in Done' /\ x \notin Done
    BY <1>1, <2>2 DEF Done
  <2> QED BY <2>3
<1>5. Cardinality(Done) + 1 <= Cardinality(Done)'
  BY <1>3, <1>4, DoneGrows DEF Done
<1>6. Cardinality(Done) \in Nat /\ Cardinality(Done)' \in Nat
  BY DoneBound DEF Done
<1>7. nextPID' <= Cardinality(Done)'
  <2>1. nextPID \in Int /\ nextPID <= Cardinality(Done)
    BY DEF EpollInv, TypeOK, Counted
  <2> QED BY <1>5, <1>6, <2>1
<1>8. \A d \in Conn : Spent(d)' >= 0 /\ (room'[d] # None => Spent(d)' >= 1)
  BY <1>1, <1>2 DEF EpollInv, Counted
<1> QED BY <1>7, <1>8 DEF EpollInv, Counted

\* A step that leaves the frames alone; it may close connections.
LEMMA CountQuiet ==
    ASSUME EpollInv, UNCHANGED <<rbuf, sock, joins, nextPID>>,
           \A c \in Conn : /\ closed[c] => closed'[c]
                           /\ room'[c] \in {room[c], None}
    PROVE  Counted'
<1>1. \A c \in Conn : /\ Pending(c)' \in Nat /\ Pending(c)' <= Pending(c)
                      /\ joins'[c] = joins[c] /\ Pending(c) \in Nat /\ Len(joins[c]) \in Nat
  <2> SUFFICES ASSUME NEW c \in Conn
               PROVE  /\ Pending(c)' \in Nat /\ Pending(c)' <= Pending(c)
                      /\ joins'[c] = joins[c] /\ Pending(c) \in Nat /\ Len(joins[c]) \in Nat
    OBVIOUS
  <2>1. JoinCount(Flight(c)) \in Nat
    BY PendingType DEF EpollInv
  <2>2. Flight(c)' = Flight(c)
    BY DEF Flight
  <2>3. JoinCount(Flight(c))' = JoinCount(Flight(c))
    BY <2>2 DEF JoinCount, JoinIdx
  <2>4. Pending(c)' = IF closed'[c] THEN 0 ELSE JoinCount(Flight(c))
    BY <2>3 DEF Pending
  <2> QED BY <2>1, <2>4 DEF Pending, EpollInv, TypeOK
<1>2. \A c \in Conn : Spent(c)' \in Int /\ Spent(c)' >= Spent(c)
  BY <1>1 DEF Spent
<1>3. \A c \in Conn : Len(joins'[c]) <= MaxJoin
  BY DEF EpollInv, Counted
<1> QED BY <1>2, <1>3, CountKeep

-----------------------------------------------------------------------------
(* Each action keeps EpollInv.                                             *)

\* The rest of the batch, once an event is handled.
LEMMA HandledType ==
    ASSUME TypeOK, batch # <<>>, Handled
    PROVE  batch' \in Seq(Event) /\ pc' = "event"
BY HeadTailProperties DEF TypeOK, Handled

\* What closeConn leaves in the room and in the loop of step.
LEMMA RemovedFrom ==
    ASSUME TypeOK, NEW c \in Conn, Found(c), CloseConn(c)
    PROVE  /\ Len(members'[room[c]]) = Len(members[room[c]]) - 1
           /\ \A j \in 1 .. Len(members'[room[c]]) :
                members'[room[c]][j] = IF j = midx[c] THEN Last(c) ELSE members[room[c]][j]
           /\ \A r \in RoomId : r # room[c] => members'[r] = members[r]
<1> DEFINE r == room[c]
           q == members[r]
<1>1. r \in RoomId /\ q \in Seq(Conn) /\ midx[c] \in 1 .. Len(q)
  BY FoundFacts
<1>2. members' = [members EXCEPT ![r] =
                   SubSeq([q EXCEPT ![midx[c]] = q[Len(q)]], 1, Len(q) - 1)]
  BY <1>1 DEF CloseConn, Removed, TypeOK, Last
<1>3. members'[r] = SubSeq([q EXCEPT ![midx[c]] = q[Len(q)]], 1, Len(q) - 1)
      /\ \A x \in RoomId : x # r => members'[x] = members[x]
  BY <1>1, <1>2 DEF TypeOK
<1>4. /\ Len(members'[r]) = Len(q) - 1
      /\ \A j \in 1 .. Len(members'[r]) :
            members'[r][j] = IF j = midx[c] THEN q[Len(q)] ELSE q[j]
  BY <1>1, <1>3, SwapOut
<1> QED BY <1>3, <1>4 DEF Last

LEMMA SlotsAfter ==
    ASSUME TypeOK, NEW c \in Conn, CloseConn(c)
    PROVE  /\ Len(slots') = Len(slots)
           /\ \A j \in 1 .. Len(slots) :
                slots'[j] = IF pc = "send" /\ room[c] = cur /\ Found(c) /\ j = midx[c]
                            THEN Last(c) ELSE slots[j]
<1>1. CASE ~(pc = "send" /\ room[c] = cur /\ Found(c))
  BY <1>1 DEF CloseConn, Overwritten
<1>2. CASE pc = "send" /\ room[c] = cur /\ Found(c)
  <2>1. Last(c) \in Conn /\ midx[c] \in Int /\ slots \in Seq(Conn)
    BY <1>2, FoundFacts DEF TypeOK
  <2>2. slots' = [slots EXCEPT ![midx[c]] = Last(c)]
    BY <1>2 DEF CloseConn, Overwritten
  <2> QED BY <1>2, <2>1, <2>2, ExceptAt
<1> QED BY <1>1, <1>2

LEMMA CloseKeeps ==
    ASSUME EpollInv, NEW c \in Conn, fd[c] # 0, CloseConn(c),
           UNCHANGED <<fd, link, rbuf, wbuf, wantOut, sock, joins, nextPID>>
    PROVE  CloseTypes' /\ Links' /\ Fresh' /\ Served' /\ Counted'
<1>1. CloseTypes'
  BY CloseConnType DEF EpollInv
<1>2. /\ fd[c] \in Fd /\ conns[fd[c]] = c
      /\ closed' = [closed EXCEPT ![c] = TRUE] /\ conns' = [conns EXCEPT ![fd[c]] = None]
      /\ room' = [room EXCEPT ![c] = None]
  BY DEF EpollInv, TypeOK, Links, CloseConn
<1>3. Links'
  <2>1. \A f \in Fd : f # fd[c] => conns'[f] = conns[f] /\ conns[f] # c
    BY <1>2, EpollConstants DEF EpollInv, TypeOK, Links
  <2>2. \A f \in Fd : conns'[f] # None => fd[conns'[f]] = f /\ ~closed'[conns'[f]]
    BY <1>2, <2>1 DEF EpollInv, TypeOK, Links
  <2>3. \A d \in Conn : fd[d] # 0 /\ ~closed'[d] => conns'[fd[d]] = d
    BY <1>2, <2>1 DEF EpollInv, TypeOK, Links
  <2> QED BY <2>2, <2>3 DEF Links
<1>4. Fresh'
  BY <1>2 DEF EpollInv, TypeOK, Fresh
<1>5. Found(c) => fd[Last(c)] # 0
  BY FoundFacts DEF Last, EpollInv, Served
<1>6. \A r \in RoomId : \A i \in 1 .. Len(members'[r]) : fd[members'[r][i]] # 0
  <2>1. CASE ~Found(c)
    BY <2>1 DEF CloseConn, Removed, EpollInv, Served
  <2>2. CASE Found(c)
    <3>1. Len(members[room[c]]) \in Nat /\ room[c] \in RoomId
      BY <2>2, FoundFacts DEF EpollInv
    <3>2. /\ Len(members'[room[c]]) = Len(members[room[c]]) - 1
          /\ \A j \in 1 .. Len(members'[room[c]]) :
               members'[room[c]][j] = IF j = midx[c] THEN Last(c) ELSE members[room[c]][j]
          /\ \A r \in RoomId : r # room[c] => members'[r] = members[r]
      BY <2>2, RemovedFrom DEF EpollInv
    <3> QED BY <1>5, <2>2, <3>1, <3>2 DEF EpollInv, Served
  <2> QED BY <2>1, <2>2
<1>7. \A i \in 1 .. Len(slots') : fd[slots'[i]] # 0
  BY <1>5, SlotsAfter DEF EpollInv, Served
<1>8. Counted'
  BY <1>2, CountQuiet DEF EpollInv, TypeOK
<1> QED BY <1>1, <1>3, <1>4, <1>6, <1>7, <1>8 DEF Served

\* The connection of the event at hand.
LEMMA CurrentFacts ==
    ASSUME EpollInv, batch # <<>>, Head(batch).fd \in Fd, Current # None
    PROVE  /\ Current \in Conn /\ fd[Current] = Head(batch).fd /\ fd[Current] # 0
           /\ fd[Current] \in Fd /\ ~closed[Current] /\ conns[fd[Current]] = Current
<1>1. Current \in Conn /\ fd[Current] = Head(batch).fd /\ ~closed[Current]
  BY DEF Current, EpollInv, TypeOK, Links
<1>2. 0 \notin Fd
  BY EpollConstants DEF Fd
<1> QED BY <1>1, <1>2 DEF Current

\* The handlers that close the connection of the event: HUP, the end of the
\* input, a malformed frame.
LEMMA CloseCurrent ==
    ASSUME EpollInv, pc # "send", batch # <<>>, Head(batch).fd \in Fd, Current # None,
           CloseConn(Current), Handled,
           UNCHANGED <<due, cur, pos, taken, nextPID, fd, rbuf, wbuf, pid, lastSeq, wantOut,
                       clientVars>>
    PROVE  EpollInv'
<1>1. Current \in Conn /\ fd[Current] # 0
  BY CurrentFacts
<1>2. CloseTypes' /\ Links' /\ Fresh' /\ Served' /\ Counted'
  BY <1>1, CloseKeeps DEF clientVars
<1>3. batch' \in Seq(Event) /\ pc' = "event"
  BY HandledType DEF EpollInv
<1>4. AtEvent'
  <2>1. slots' = slots /\ pos' = pos
    BY DEF CloseConn, Overwritten
  <2> QED BY <1>3, <2>1 DEF EpollInv, AtEvent
<1>5. TypeOK'
  BY <1>2, <1>3 DEF CloseTypes, EpollInv, TypeOK, clientVars
<1> QED BY <1>2, <1>4, <1>5 DEF EpollInv

\* A step that neither opens nor closes a connection and moves no frame.
LEMMA QuietKeeps ==
    ASSUME EpollInv,
           UNCHANGED <<conns, members, nextPID, fd, rbuf, wbuf, room, wantOut, closed, sock, joins>>,
           \A c \in Conn : link[c] \in {"none", "backlog"} <=> link'[c] \in {"none", "backlog"}
    PROVE  Links' /\ Fresh' /\ Counted'
<1>1. Links'
  BY DEF EpollInv, Links
<1>2. Fresh'
  BY DEF EpollInv, Fresh
<1>3. Counted'
  BY CountQuiet
<1> QED BY <1>1, <1>2, <1>3

LEMMA BatchType ==
    ASSUME NEW q \in Batches
    PROVE  q \in Seq(Event)
<1> DEFINE es == {e \in Event : e.fd \in Fd /\ conns[e.fd] # None /\ e.on \in Ready(e.fd)}
                   \cup {[fd |-> tfd, on |-> {"IN"}]}
                   \cup {e \in {[fd |-> lnfd, on |-> {"IN"}]} :
                           \E c \in Conn : link[c] = "backlog"}
<1>1. es \subseteq Event
  BY DEF Event
<1> HIDE DEF es
<1>2. PICK S \in SUBSET es : Cardinality(S) \in 1 .. MaxEvents /\ q \in [1 .. Cardinality(S) -> S]
  BY DEF Batches, es
<1>3. Cardinality(S) \in Nat
  BY <1>2, EpollConstants
<1> QED BY <1>1, <1>2, <1>3

LEMMA EpollWaitKeeps == EpollInv /\ EpollWait => EpollInv'
<1> SUFFICES ASSUME EpollInv, EpollWait PROVE EpollInv'
  OBVIOUS
<1>1. Links' /\ Fresh' /\ Counted'
  BY QuietKeeps DEF EpollWait, connVars, clientVars
<1>2. batch' \in Seq(Event)
  BY BatchType DEF EpollWait
<1>3. TypeOK'
  BY <1>2 DEF EpollInv, TypeOK, EpollWait, connVars, clientVars
<1>4. Served' /\ AtEvent'
  BY DEF EpollInv, Served, AtEvent, EpollWait, connVars, clientVars
<1> QED BY <1>1, <1>3, <1>4 DEF EpollInv

LEMMA EndBatchKeeps == EpollInv /\ EndBatch => EpollInv'
<1> SUFFICES ASSUME EpollInv, EndBatch PROVE EpollInv'
  OBVIOUS
<1>1. Links' /\ Fresh' /\ Counted'
  BY QuietKeeps DEF EndBatch, connVars, clientVars
<1>2. TypeOK'
  BY DEF EpollInv, TypeOK, EndBatch, connVars, clientVars
<1>3. Served' /\ AtEvent'
  BY DEF EpollInv, Served, AtEvent, EndBatch, connVars, clientVars
<1> QED BY <1>1, <1>2, <1>3 DEF EpollInv

\* An event that is done with, and nothing else.
LEMMA SkipKeeps ==
    ASSUME EpollInv, pc # "send", batch # <<>>, Handled,
           UNCHANGED <<conns, armed, members, due, cur, slots, pos, taken, nextPID,
                       connVars, clientVars>>
    PROVE  EpollInv'
<1>1. Links' /\ Fresh' /\ Counted'
  BY QuietKeeps DEF connVars, clientVars
<1>2. batch' \in Seq(Event) /\ pc' = "event"
  BY HandledType DEF EpollInv
<1>3. TypeOK'
  BY <1>2 DEF EpollInv, TypeOK, connVars, clientVars
<1>4. Served' /\ AtEvent'
  BY <1>2 DEF EpollInv, Served, AtEvent, connVars, clientVars
<1> QED BY <1>1, <1>3, <1>4 DEF EpollInv

LEMMA AcceptDoneKeeps == EpollInv /\ AcceptDone => EpollInv'
BY SkipKeeps DEF AcceptDone, Event1

LEMMA StaleKeeps == EpollInv /\ Stale => EpollInv'
BY SkipKeeps DEF Stale

LEMMA TickEndKeeps == EpollInv /\ TickEnd => EpollInv'
BY SkipKeeps DEF TickEnd, EpollInv, AtEvent

LEMMA ParseDoneKeeps == EpollInv /\ ParseDone => EpollInv'
<1> SUFFICES ASSUME EpollInv, ParseDone PROVE EpollInv'
  OBVIOUS
<1>1. CASE Handled
  BY <1>1, SkipKeeps DEF ParseDone, EpollInv, AtEvent
<1>2. CASE pc' = "out" /\ UNCHANGED batch
  <2>1. Links' /\ Fresh' /\ Counted'
    BY QuietKeeps DEF ParseDone, connVars, clientVars
  <2>2. TypeOK'
    BY <1>2 DEF EpollInv, TypeOK, ParseDone, connVars, clientVars
  <2>3. Served' /\ AtEvent'
    BY <1>2 DEF EpollInv, Served, AtEvent, ParseDone, Current, connVars, clientVars
  <2> QED BY <2>1, <2>2, <2>3 DEF EpollInv
<1> QED BY <1>1, <1>2 DEF ParseDone

LEMMA OnTickKeeps == EpollInv /\ OnTick => EpollInv'
<1> SUFFICES ASSUME EpollInv, OnTick PROVE EpollInv'
  OBVIOUS
<1>1. Links' /\ Fresh' /\ Counted'
  BY QuietKeeps DEF OnTick, connVars, clientVars
<1>2. TypeOK'
  BY DEF EpollInv, TypeOK, OnTick, connVars, clientVars
<1>3. Served' /\ AtEvent'
  BY DEF EpollInv, Served, AtEvent, OnTick, Event1, connVars, clientVars
<1> QED BY <1>1, <1>2, <1>3 DEF EpollInv

LEMMA StepKeeps == ASSUME EpollInv, NEW r \in RoomId, Step(r) PROVE EpollInv'
<1>1. Links' /\ Fresh' /\ Counted'
  BY QuietKeeps DEF Step, connVars, clientVars
<1>2. TypeOK'
  <2>1. members[r] \in Seq(Conn)
    BY DEF EpollInv, TypeOK
  <2>2. CASE members[r] = <<>>
    BY <2>2 DEF EpollInv, TypeOK, Step, connVars, clientVars
  <2>3. CASE members[r] # <<>>
    <3>1. slots' \in Seq(Conn) /\ taken' \in Seq(Conn) /\ pos' \in Nat /\ cur' \in RoomId
      BY <2>1, <2>3 DEF Step
    <3>2. due' \subseteq RoomId /\ pc' = "send"
      BY <2>3 DEF Step, EpollInv, TypeOK
    <3> QED BY <3>1, <3>2 DEF EpollInv, TypeOK, Step, connVars, clientVars
  <2> QED BY <2>2, <2>3
<1>3. Served'
  BY DEF EpollInv, Served, Step, connVars, clientVars
<1>4. AtEvent'
  BY DEF EpollInv, AtEvent, Step, connVars, clientVars
<1> QED BY <1>1, <1>2, <1>3, <1>4 DEF EpollInv

LEMMA StepEndKeeps == EpollInv /\ StepEnd => EpollInv'
<1> SUFFICES ASSUME EpollInv, StepEnd PROVE EpollInv'
  OBVIOUS
<1>1. Links' /\ Fresh' /\ Counted'
  BY QuietKeeps DEF StepEnd, connVars, clientVars
<1>2. TypeOK'
  BY DEF EpollInv, TypeOK, StepEnd, connVars, clientVars
<1>3. Served' /\ AtEvent'
  BY DEF EpollInv, Served, AtEvent, StepEnd, connVars, clientVars
<1> QED BY <1>1, <1>2, <1>3 DEF EpollInv

LEMMA LinkKeeps ==
    ASSUME EpollInv, NEW c \in Conn, Connect(c) \/ Leave(c)
    PROVE  EpollInv'
<1>1. PICK how \in {"backlog", "fin", "rst"} : link' = [link EXCEPT ![c] = how]
  BY DEF Connect, Leave
<1>2. \A d \in Conn : link[d] \in {"none", "backlog"} <=> link'[d] \in {"none", "backlog"}
  <2>1. link[c] \in {"none", "backlog"} <=> how \in {"none", "backlog"}
    BY <1>1 DEF Connect, Leave, EpollInv, TypeOK
  <2> QED BY <1>1, <2>1 DEF EpollInv, TypeOK
<1>3. UNCHANGED <<workerVars, connVars, sock, sent, joins, got>>
  BY DEF Connect, Leave
<1>4. Links' /\ Fresh' /\ Counted'
  BY <1>2, <1>3, QuietKeeps DEF workerVars, connVars
<1>5. TypeOK'
  BY <1>1, <1>3 DEF EpollInv, TypeOK, workerVars, connVars
<1>6. Served' /\ AtEvent'
  BY <1>3 DEF EpollInv, Served, AtEvent, Current, workerVars, connVars
<1> QED BY <1>4, <1>5, <1>6 DEF EpollInv

LEMMA ClosingKeeps == EpollInv /\ (HangUp \/ ReadEnd \/ ParseBad) => EpollInv'
<1>1. EpollInv /\ HangUp => EpollInv'
  BY CloseCurrent DEF HangUp, CurrentHas
<1>2. EpollInv /\ ReadEnd => EpollInv'
  BY CloseCurrent DEF ReadEnd, CurrentHas
<1>3. EpollInv /\ ParseBad => EpollInv'
  BY CloseCurrent DEF ParseBad, Parsing, EpollInv, AtEvent
<1> QED BY <1>1, <1>2, <1>3

LEMMA AcceptKeeps == ASSUME EpollInv, NEW c \in Conn, Accept(c) PROVE EpollInv'
<1> DEFINE free == {f \in Fd : conns[f] = None}
<1>1. PICK f \in free : /\ fd' = [fd EXCEPT ![c] = f]
                        /\ conns' = [conns EXCEPT ![f] = c]
                        /\ armed' = [armed EXCEPT ![f] = FALSE]
  BY DEF Accept
<1>2. f \in Fd /\ conns[f] = None /\ f # 0
  BY EpollConstants DEF Fd
<1>3. fd[c] = 0
  BY DEF EpollInv, Fresh, Accept
<1>4. link' = [link EXCEPT ![c] = "up"]
      /\ UNCHANGED <<members, batch, pc, due, cur, slots, pos, taken, nextPID, rbuf, wbuf, room,
                     midx, pid, lastSeq, wantOut, closed, sock, sent, joins, got>>
  BY DEF Accept
<1>5. Links'
  <2>1. ~closed[c]
    BY <1>3 DEF EpollInv, Fresh
  <2>2. \A g \in Fd : conns'[g] # None => fd'[conns'[g]] = g /\ ~closed'[conns'[g]]
    <3> SUFFICES ASSUME NEW g \in Fd, conns'[g] # None
                 PROVE  fd'[conns'[g]] = g /\ ~closed'[conns'[g]]
      OBVIOUS
    <3>1. CASE g = f
      BY <1>1, <1>2, <1>4, <2>1, <3>1 DEF EpollInv, TypeOK
    <3>2. CASE g # f
      <4>1. conns'[g] = conns[g] /\ conns[g] \in Conn /\ fd[conns[g]] = g /\ ~closed[conns[g]]
        BY <1>1, <1>2, <3>2 DEF EpollInv, TypeOK, Links
      <4>2. conns[g] # c
        BY <1>3, <4>1, EpollConstants DEF Fd
      <4> QED BY <1>1, <1>4, <4>1, <4>2 DEF EpollInv, TypeOK
    <3> QED BY <3>1, <3>2
  <2>3. \A d \in Conn : fd'[d] # 0 /\ ~closed'[d] => conns'[fd'[d]] = d
    <3> SUFFICES ASSUME NEW d \in Conn, fd'[d] # 0, ~closed'[d]
                 PROVE  conns'[fd'[d]] = d
      OBVIOUS
    <3>1. CASE d = c
      BY <1>1, <1>2, <3>1 DEF EpollInv, TypeOK
    <3>2. CASE d # c
      <4>1. fd'[d] = fd[d] /\ conns[fd[d]] = d /\ fd[d] \in Fd
        BY <1>1, <1>4, <3>2 DEF EpollInv, TypeOK, Links
      <4>2. fd[d] # f
        BY <1>2, <4>1, EpollConstants
      <4> QED BY <1>1, <1>2, <4>1, <4>2 DEF EpollInv, TypeOK
    <3> QED BY <3>1, <3>2
  <2> QED BY <2>2, <2>3 DEF Links
<1>6. \A d \in Conn : fd[d] # 0 => fd'[d] # 0
  BY <1>1, <1>2 DEF EpollInv, TypeOK
<1>7. Fresh'
  BY <1>1, <1>2, <1>4 DEF EpollInv, TypeOK, Fresh
<1>8. Served'
  <2>1. \A r \in RoomId : \A i \in 1 .. Len(members[r]) : members[r][i] \in Conn
    BY ElementOfSeq DEF EpollInv, TypeOK
  <2>2. \A i \in 1 .. Len(slots) : slots[i] \in Conn
    BY ElementOfSeq DEF EpollInv, TypeOK
  <2> QED BY <1>4, <1>6, <2>1, <2>2 DEF EpollInv, Served
<1>9. AtEvent'
  BY <1>4 DEF EpollInv, AtEvent, Accept, Event1
<1>10. Counted'
  BY <1>4, CountQuiet
<1>11. TypeOK'
  BY <1>1, <1>2, <1>4 DEF EpollInv, TypeOK
<1> QED BY <1>5, <1>7, <1>8, <1>9, <1>10, <1>11 DEF EpollInv

\* A client's frame that takes its place at the end of the socket.
LEMMA FrameSent ==
    ASSUME EpollInv, NEW c \in Conn, NEW f \in In, SendFrame(c, f)
    PROVE  /\ sock' \in [Conn -> Seq(In)] /\ sent' \in 0 .. MaxFrame /\ fd[c] # 0
           /\ Flight(c)' = Append(Flight(c), f)
           /\ JoinCount(Flight(c))' \in Nat
           /\ JoinCount(Flight(c))' <= JoinCount(Flight(c)) + 1
           /\ f.type # "JOIN" => JoinCount(Flight(c))' = JoinCount(Flight(c))
           /\ \A d \in Conn : d # c => Flight(d)' = Flight(d)
           /\ Links' /\ Fresh' /\ Served' /\ AtEvent'
<1>1. UNCHANGED <<workerVars, connVars, link, got>> /\ sock' = [sock EXCEPT ![c] = Append(@, f)]
  BY DEF SendFrame
<1>2. sock[c] \in Seq(In) /\ rbuf[c] \in Seq(In) /\ rbuf' = rbuf
      /\ sock'[c] = Append(sock[c], f) /\ \A d \in Conn : d # c => sock'[d] = sock[d]
  BY <1>1 DEF EpollInv, TypeOK, connVars
<1>3. sock' \in [Conn -> Seq(In)]
  BY <1>1, <1>2 DEF EpollInv, TypeOK
<1>4. sent' \in 0 .. MaxFrame
  BY EpollConstants DEF SendFrame, EpollInv, TypeOK
<1>5. fd[c] # 0
  BY DEF SendFrame, EpollInv, Fresh
<1>6. Flight(c)' = Append(Flight(c), f)
  <2>1. Flight(c)' = rbuf[c] \o Append(sock[c], f)
    BY <1>2 DEF Flight
  <2>2. rbuf[c] \o Append(sock[c], f) = Append(rbuf[c] \o sock[c], f)
    BY <1>2, FlightMoves
  <2> QED BY <2>1, <2>2 DEF Flight
<1>7. \A d \in Conn : d # c => Flight(d)' = Flight(d)
  BY <1>2 DEF Flight
<1>8. Flight(c) \in Seq(In)
  BY PendingType DEF EpollInv
<1>9. JoinCount(Flight(c))' = JoinCount(Append(Flight(c), f))
  BY <1>6 DEF JoinCount, JoinIdx
<1>10. Append(Flight(c), f) \in Seq(In)
  BY <1>8
<1>11. /\ JoinCount(Flight(c))' \in Nat
       /\ JoinCount(Flight(c))' <= JoinCount(Flight(c)) + 1
       /\ f.type # "JOIN" => JoinCount(Flight(c))' = JoinCount(Flight(c))
  BY <1>8, <1>9, <1>10, JoinCountType, JoinCountAppend
<1>12. Links' /\ Served'
  BY <1>1 DEF EpollInv, Links, Served, workerVars, connVars
<1>13. Fresh'
  BY <1>1, <1>2, <1>5 DEF EpollInv, Fresh, workerVars, connVars
<1>14. AtEvent'
  BY <1>1 DEF EpollInv, AtEvent, Current, workerVars
<1> QED BY <1>3, <1>4, <1>5, <1>6, <1>7, <1>11, <1>12, <1>13, <1>14

LEMMA SendJoinKeeps ==
    ASSUME EpollInv, NEW c \in Conn, NEW r \in RoomId, SendJoin(c, r)
    PROVE  EpollInv'
<1> DEFINE f == [type |-> "JOIN", room |-> r]
<1>1. f \in In /\ SendFrame(c, f)
  BY DEF In, SendJoin
<1> HIDE DEF f
<1>2. /\ sock' \in [Conn -> Seq(In)] /\ sent' \in 0 .. MaxFrame
      /\ JoinCount(Flight(c))' \in Nat
      /\ JoinCount(Flight(c))' <= JoinCount(Flight(c)) + 1
      /\ \A d \in Conn : d # c => Flight(d)' = Flight(d)
      /\ Links' /\ Fresh' /\ Served' /\ AtEvent'
  BY <1>1, FrameSent
<1>3. UNCHANGED <<workerVars, connVars, link, got>> /\ joins' = [joins EXCEPT ![c] = Append(@, r)]
      /\ ~closed[c]
  BY <1>1 DEF SendFrame, SendJoin
<1>4. joins' \in [Conn -> Seq(RoomId)] /\ Len(joins[c]) \in Nat /\ Len(joins'[c]) = Len(joins[c]) + 1
      /\ \A d \in Conn : d # c => joins'[d] = joins[d]
  BY <1>3 DEF EpollInv, TypeOK
<1>5. TypeOK'
  BY <1>2, <1>3, <1>4 DEF EpollInv, TypeOK, workerVars, connVars
<1>6. Counted'
  <2>1. Spent(c)' \in Int /\ Spent(c)' >= Spent(c) /\ Len(joins'[c]) <= MaxJoin
    <3>1. Pending(c)' = JoinCount(Flight(c))' /\ Pending(c) = JoinCount(Flight(c))
      BY <1>3 DEF Pending, connVars
    <3>2. JoinCount(Flight(c)) \in Nat
      BY PendingType DEF EpollInv
    <3>3. Len(joins[c]) < MaxJoin
      BY DEF SendJoin
    <3> QED BY <1>2, <1>4, <3>1, <3>2, <3>3, EpollConstants DEF Spent
  <2>2. \A d \in Conn : d # c => Spent(d)' = Spent(d) /\ Len(joins'[d]) <= MaxJoin
    <3>1. \A d \in Conn : d # c => Pending(d)' = Pending(d)
      BY <1>2, <1>3 DEF Pending, connVars, JoinCount, JoinIdx
    <3> QED BY <1>4, <3>1 DEF Spent, EpollInv, Counted
  <2>3. \A d \in Conn : Spent(d) \in Int
    BY PendingType DEF EpollInv
  <2>4. \A d \in Conn : /\ Spent(d)' \in Int /\ Spent(d)' >= Spent(d)
                        /\ Len(joins'[d]) <= MaxJoin /\ room'[d] \in {room[d], None}
    BY <1>3, <2>1, <2>2, <2>3 DEF connVars
  <2> QED BY <1>3, <2>4, CountKeep DEF workerVars
<1> QED BY <1>2, <1>5, <1>6 DEF EpollInv

LEMMA SendOtherKeeps ==
    ASSUME EpollInv, NEW c \in Conn, SendOther(c)
    PROVE  EpollInv'
<1>1. PICK f \in {[type |-> "MOVE", seq |-> sent + 1], [type |-> "SHORT"], [type |-> "BAD"]} :
         SendFrame(c, f)
  BY DEF SendOther
<1>2. sent + 1 \in 1 .. MaxFrame
  BY <1>1, EpollConstants DEF SendFrame, EpollInv, TypeOK
<1>3. f \in In /\ f.type # "JOIN"
  BY <1>2 DEF In
<1>4. /\ sock' \in [Conn -> Seq(In)] /\ sent' \in 0 .. MaxFrame
      /\ JoinCount(Flight(c))' = JoinCount(Flight(c))
      /\ \A d \in Conn : d # c => Flight(d)' = Flight(d)
      /\ Links' /\ Fresh' /\ Served' /\ AtEvent'
  BY <1>1, <1>3, FrameSent
<1>5. UNCHANGED <<workerVars, connVars, link, got, joins>>
  BY <1>1 DEF SendFrame, SendOther
<1>6. TypeOK'
  BY <1>4, <1>5 DEF EpollInv, TypeOK, workerVars, connVars
<1>7. Counted'
  <2>1. \A d \in Conn : Pending(d)' = Pending(d)
    BY <1>4, <1>5 DEF Pending, connVars, JoinCount, JoinIdx
  <2>2. \A d \in Conn : Spent(d)' = Spent(d) /\ Spent(d) \in Int /\ Len(joins'[d]) <= MaxJoin
                        /\ room'[d] = room[d]
    BY <1>5, <2>1, PendingType DEF Spent, EpollInv, Counted, connVars
  <2> QED BY <1>5, <2>2, CountKeep DEF workerVars
<1> QED BY <1>4, <1>6, <1>7 DEF EpollInv

\* A handler that changes the frames of the current connection only.
LEMMA FrameKeeps ==
    ASSUME EpollInv, NEW c \in Conn, fd[c] # 0,
           rbuf' \in [Conn -> Seq(In)], sock' \in [Conn -> Seq(In)],
           \A d \in Conn : d # c => rbuf'[d] = rbuf[d] /\ sock'[d] = sock[d],
           UNCHANGED <<conns, members, slots, nextPID, fd, wbuf, room, wantOut, closed, link, joins>>,
           JoinCount(Flight(c))' = JoinCount(Flight(c))
    PROVE  Links' /\ Fresh' /\ Served' /\ Counted'
<1>1. Links' /\ Served'
  BY DEF EpollInv, Links, Served
<1>2. Fresh'
  BY DEF EpollInv, Fresh
<1>3. \A d \in Conn : d # c => Flight(d)' = Flight(d)
  BY DEF Flight
<1>4. \A d \in Conn : Pending(d)' = Pending(d)
  BY <1>3 DEF Pending, JoinCount, JoinIdx
<1>5. \A d \in Conn : Spent(d)' = Spent(d) /\ Spent(d) \in Int /\ Len(joins'[d]) <= MaxJoin
                      /\ room'[d] = room[d]
  BY <1>4, PendingType DEF Spent, EpollInv, Counted
<1>6. Counted'
  BY <1>5, CountKeep
<1> QED BY <1>1, <1>2, <1>6

LEMMA ReadSomeKeeps == EpollInv /\ ReadSome => EpollInv'
<1> SUFFICES ASSUME EpollInv, ReadSome PROVE EpollInv'
  OBVIOUS
<1>1. PICK c \in Conn : c = Current /\ fd[c] # 0
  BY CurrentFacts DEF ReadSome, CurrentHas
<1>2. /\ rbuf' = [rbuf EXCEPT ![c] = @ \o sock[c]] /\ sock' = [sock EXCEPT ![c] = <<>>]
      /\ pc' = "parse" /\ pc = "event"
      /\ UNCHANGED <<conns, armed, members, batch, due, cur, slots, pos, taken, nextPID,
                     fd, wbuf, room, midx, pid, lastSeq, wantOut, closed, link, sent, joins, got>>
  BY <1>1 DEF ReadSome, CurrentHas
<1>3. rbuf[c] \in Seq(In) /\ sock[c] \in Seq(In) /\ rbuf[c] \o sock[c] \in Seq(In)
  BY FlightMoves DEF EpollInv, TypeOK
<1>4. /\ rbuf' \in [Conn -> Seq(In)] /\ sock' \in [Conn -> Seq(In)]
      /\ rbuf'[c] = rbuf[c] \o sock[c] /\ sock'[c] = <<>>
      /\ \A d \in Conn : d # c => rbuf'[d] = rbuf[d] /\ sock'[d] = sock[d]
  BY <1>2, <1>3 DEF EpollInv, TypeOK
<1>5. JoinCount(Flight(c))' = JoinCount(Flight(c))
  <2>1. Flight(c)' = (rbuf[c] \o sock[c]) \o <<>>
    BY <1>4 DEF Flight
  <2>2. Flight(c)' = Flight(c)
    BY <1>3, <2>1, FlightMoves DEF Flight
  <2> QED BY <2>2 DEF JoinCount, JoinIdx
<1>6. Links' /\ Fresh' /\ Served' /\ Counted'
  BY <1>1, <1>2, <1>4, <1>5, FrameKeeps
<1>7. TypeOK'
  BY <1>2, <1>4 DEF EpollInv, TypeOK
<1>8. AtEvent'
  BY <1>2 DEF EpollInv, AtEvent, Current, ReadSome, CurrentHas
<1> QED BY <1>6, <1>7, <1>8 DEF EpollInv

\* The frame at the front of the buffer is taken from it.
LEMMA FrontFacts ==
    ASSUME EpollInv, NEW c \in Conn, rbuf[c] # <<>>
    PROVE  /\ Head(rbuf[c]) \in In /\ Tail(rbuf[c]) \in Seq(In)
           /\ Flight(c) # <<>> /\ Flight(c) \in Seq(In)
           /\ Head(Flight(c)) = Head(rbuf[c]) /\ Tail(Flight(c)) = Tail(rbuf[c]) \o sock[c]
<1>1. rbuf[c] \in Seq(In) /\ sock[c] \in Seq(In)
  BY DEF EpollInv, TypeOK
<1>2. Head(rbuf[c]) \in In /\ Tail(rbuf[c]) \in Seq(In)
  BY <1>1, HeadTailProperties
<1> QED BY <1>1, <1>2, FlightMoves DEF Flight

\* A frame that is parsed and changes at most lastSeq.
LEMMA ParseKeeps ==
    ASSUME EpollInv, NEW c \in Conn, c = Current, pc = "parse", rbuf[c] # <<>>,
           Head(rbuf[c]).type # "JOIN",
           rbuf' = [rbuf EXCEPT ![c] = Tail(@)],
           lastSeq' \in [Conn -> 0 .. MaxFrame],
           UNCHANGED <<workerVars, fd, wbuf, room, midx, pid, wantOut, closed, clientVars>>
    PROVE  EpollInv'
<1>1. fd[c] # 0
  BY CurrentFacts DEF EpollInv, AtEvent
<1>2. /\ Tail(rbuf[c]) \in Seq(In) /\ Flight(c) # <<>> /\ Flight(c) \in Seq(In)
      /\ Head(Flight(c)) = Head(rbuf[c]) /\ Tail(Flight(c)) = Tail(rbuf[c]) \o sock[c]
  BY FrontFacts
<1>3. /\ rbuf' \in [Conn -> Seq(In)] /\ rbuf'[c] = Tail(rbuf[c])
      /\ \A d \in Conn : d # c => rbuf'[d] = rbuf[d]
  BY <1>2 DEF EpollInv, TypeOK
<1>4. sock' = sock /\ sock' \in [Conn -> Seq(In)]
  BY DEF clientVars, EpollInv, TypeOK
<1>5. JoinCount(Flight(c))' = JoinCount(Flight(c))
  <2>1. Flight(c)' = Tail(Flight(c))
    BY <1>2, <1>3, <1>4 DEF Flight
  <2>2. JoinCount(Flight(c))' = JoinCount(Tail(Flight(c)))
    BY <2>1 DEF JoinCount, JoinIdx
  <2> QED BY <1>2, <2>2, JoinCountTail
<1>6. Links' /\ Fresh' /\ Served' /\ Counted'
  BY <1>1, <1>3, <1>4, <1>5, FrameKeeps DEF workerVars, clientVars
<1>7. TypeOK'
  BY <1>3 DEF EpollInv, TypeOK, workerVars, clientVars
<1>8. AtEvent'
  BY DEF EpollInv, AtEvent, Current, workerVars
<1> QED BY <1>6, <1>7, <1>8 DEF EpollInv

LEMMA ParseMoveKeeps == EpollInv /\ (ParseMove \/ ParseShort) => EpollInv'
<1> SUFFICES ASSUME EpollInv, ParseMove \/ ParseShort PROVE EpollInv'
  OBVIOUS
<1>1. PICK c \in Conn : c = Current
  BY CurrentFacts DEF EpollInv, AtEvent, ParseMove, ParseShort, Parsing
<1>2. /\ pc = "parse" /\ rbuf[c] # <<>> /\ Head(rbuf[c]).type # "JOIN"
      /\ rbuf' = [rbuf EXCEPT ![c] = Tail(@)]
      /\ UNCHANGED <<workerVars, fd, wbuf, room, midx, pid, wantOut, closed, clientVars>>
  BY <1>1 DEF ParseMove, ParseShort, Parsing
<1>3. lastSeq' \in [Conn -> 0 .. MaxFrame]
  <2>1. CASE ParseShort
    BY <2>1 DEF ParseShort, EpollInv, TypeOK
  <2>2. CASE ParseMove
    <3>1. Head(rbuf[c]) \in In /\ Head(rbuf[c]).type = "MOVE"
      BY <1>1, <1>2, <2>2, FrontFacts DEF ParseMove, Parsing
    <3>2. Head(rbuf[c]).seq \in 0 .. MaxFrame
      BY <3>1, FrameFacts, EpollConstants
    <3> QED BY <1>1, <2>2, <3>2 DEF ParseMove, EpollInv, TypeOK
  <2> QED BY <2>1, <2>2
<1> QED BY <1>1, <1>2, <1>3, ParseKeeps

\* The JOIN of c for room r: the connection stays open, or the reply finds
\* the peer gone.
JoinedOpen(c, r) ==
    /\ members' = [members EXCEPT ![r] = Append(@, c)]
    /\ midx' = [midx EXCEPT ![c] = Len(members[r]) + 1]
    /\ room' = [room EXCEPT ![c] = r]
    /\ \/ wbuf[c] = <<>> /\ UNCHANGED <<wbuf, wantOut, armed>>
       \/ /\ Len(wbuf[c]) < WbufCap
          /\ wbuf' = [wbuf EXCEPT ![c] = Append(@, [type |-> "JOINED", pid |-> nextPID + 1])]
          /\ ArmOut(c)
       \/ Len(wbuf[c]) >= WbufCap /\ UNCHANGED <<wbuf, wantOut, armed>>
    /\ UNCHANGED <<closed, conns>>
    /\ rbuf' = [rbuf EXCEPT ![c] = Tail(@)] /\ UNCHANGED <<batch, pc>>

JoinedGone(c, r) ==
    /\ wbuf[c] = <<>> /\ Left(c)
    /\ closed' = [closed EXCEPT ![c] = TRUE]
    /\ conns' = [conns EXCEPT ![fd[c]] = None]
    /\ armed' = [armed EXCEPT ![fd[c]] = FALSE]
    /\ midx' = [midx EXCEPT ![c] = Len(members[r]) + 1]
    /\ room' = [room EXCEPT ![c] = None]
    /\ UNCHANGED <<members, wbuf, wantOut>>
    /\ Handled /\ UNCHANGED rbuf

LEMMA JoinFacts ==
    ASSUME EpollInv, ParseJoin
    PROVE  \E c \in Conn : \E r \in RoomId :
             /\ c = Current /\ fd[c] \in Fd /\ fd[c] # 0 /\ conns[fd[c]] = c /\ ~closed[c]
             /\ pc = "parse" /\ batch # <<>>
             /\ rbuf[c] # <<>> /\ Head(rbuf[c]).type = "JOIN" /\ r = Head(rbuf[c]).room
             /\ nextPID' = nextPID + 1 /\ pid' = [pid EXCEPT ![c] = nextPID + 1]
             /\ JoinedOpen(c, r) \/ JoinedGone(c, r)
             /\ UNCHANGED <<slots, due, cur, pos, taken, fd, lastSeq, clientVars>>
<1>1. PICK c \in Conn : /\ c = Current /\ fd[c] \in Fd /\ fd[c] # 0
                        /\ conns[fd[c]] = c /\ ~closed[c]
  BY CurrentFacts DEF EpollInv, AtEvent, ParseJoin, Parsing
<1>2. pc = "parse" /\ batch # <<>> /\ rbuf[c] # <<>> /\ Head(rbuf[c]).type = "JOIN"
  BY <1>1 DEF ParseJoin, Parsing, EpollInv, AtEvent
<1>3. PICK r \in RoomId : r = Head(rbuf[c]).room
  BY <1>2, FrontFacts, FrameFacts
<1>4. Joined(c, r) /\ NextFrame(c) /\ UNCHANGED <<due, cur, pos, taken, fd, lastSeq, clientVars>>
  BY <1>1, <1>3 DEF ParseJoin
<1>5. JoinedOpen(c, r) \/ JoinedGone(c, r)
  <2>1. closed' = closed => ~closed'[c]
    BY <1>1
  <2>2. closed' = [closed EXCEPT ![c] = TRUE] => closed'[c]
    BY DEF EpollInv, TypeOK
  <2> QED BY <1>4, <2>1, <2>2 DEF Joined, NextFrame, JoinedOpen, JoinedGone
<1>6. nextPID' = nextPID + 1 /\ pid' = [pid EXCEPT ![c] = nextPID + 1] /\ UNCHANGED slots
  BY <1>4 DEF Joined
<1> QED BY <1>1, <1>2, <1>3, <1>4, <1>5, <1>6

LEMMA JoinCounted ==
    ASSUME EpollInv, NEW c \in Conn, NEW r \in RoomId,
           ~closed[c], rbuf[c] # <<>>, Head(rbuf[c]).type = "JOIN",
           nextPID' = nextPID + 1, UNCHANGED clientVars,
           JoinedOpen(c, r) \/ JoinedGone(c, r)
    PROVE  Counted'
<1>1. /\ Tail(rbuf[c]) \in Seq(In) /\ Flight(c) # <<>> /\ Flight(c) \in Seq(In)
      /\ Head(Flight(c)) = Head(rbuf[c]) /\ Tail(Flight(c)) = Tail(rbuf[c]) \o sock[c]
  BY FrontFacts
<1>2. Tail(Flight(c)) \in Seq(In) /\ JoinCount(Tail(Flight(c))) \in Nat
  BY <1>1, HeadTailProperties, JoinCountType
<1>3. JoinCount(Flight(c)) \in Nat /\ JoinCount(Tail(Flight(c))) = JoinCount(Flight(c)) - 1
  BY <1>1, JoinCountTail, JoinCountType
<1>4. Pending(c) = JoinCount(Flight(c)) /\ Pending(c) \in Nat /\ Pending(c) >= 1
  BY <1>2, <1>3 DEF Pending
<1>5. sock' = sock /\ joins' = joins
  BY DEF clientVars
<1>6. Pending(c)' \in Nat /\ Pending(c)' <= Pending(c) - 1
  <2>1. CASE JoinedOpen(c, r)
    <3>1. closed' = closed /\ rbuf'[c] = Tail(rbuf[c])
      BY <2>1 DEF JoinedOpen, EpollInv, TypeOK
    <3>2. Flight(c)' = Tail(Flight(c))
      BY <1>1, <1>5, <3>1 DEF Flight
    <3>3. JoinCount(Flight(c))' = JoinCount(Tail(Flight(c)))
      BY <3>2 DEF JoinCount, JoinIdx
    <3>4. Pending(c)' = JoinCount(Tail(Flight(c)))
      BY <3>1, <3>3 DEF Pending
    <3> QED BY <1>2, <1>3, <1>4, <3>4
  <2>2. CASE JoinedGone(c, r)
    <3>1. closed'[c]
      BY <2>2 DEF JoinedGone, EpollInv, TypeOK
    <3>2. Pending(c)' = 0
      BY <3>1 DEF Pending
    <3> QED BY <1>4, <3>2
  <2> QED BY <2>1, <2>2
<1>7. Len(joins[c]) \in Nat /\ Len(joins[c]) <= MaxJoin
  BY DEF EpollInv, TypeOK, Counted
<1>8. Spent(c)' \in Int /\ Spent(c)' >= Spent(c) + 1 /\ Spent(c)' <= MaxJoin
  BY <1>4, <1>5, <1>6, <1>7, EpollConstants DEF Spent
<1>9. \A d \in Conn : d # c => Spent(d)' = Spent(d) /\ room'[d] = room[d]
  <2> SUFFICES ASSUME NEW d \in Conn, d # c
               PROVE  Spent(d)' = Spent(d) /\ room'[d] = room[d]
    OBVIOUS
  <2>1. rbuf'[d] = rbuf[d] /\ closed'[d] = closed[d] /\ room'[d] = room[d]
    BY DEF JoinedOpen, JoinedGone, EpollInv, TypeOK
  <2>2. Pending(d)' = Pending(d)
    BY <1>5, <2>1 DEF Pending, Flight, JoinCount, JoinIdx
  <2> QED BY <1>5, <2>1, <2>2 DEF Spent
<1> QED BY <1>5, <1>8, <1>9, CountMore

LEMMA ParseJoinKeeps == EpollInv /\ ParseJoin => EpollInv'
<1> SUFFICES ASSUME EpollInv, ParseJoin PROVE EpollInv'
  OBVIOUS
<1>1. PICK c \in Conn : \E r \in RoomId :
             /\ c = Current /\ fd[c] \in Fd /\ fd[c] # 0 /\ conns[fd[c]] = c /\ ~closed[c]
             /\ pc = "parse" /\ batch # <<>>
             /\ rbuf[c] # <<>> /\ Head(rbuf[c]).type = "JOIN" /\ r = Head(rbuf[c]).room
             /\ nextPID' = nextPID + 1 /\ pid' = [pid EXCEPT ![c] = nextPID + 1]
             /\ JoinedOpen(c, r) \/ JoinedGone(c, r)
             /\ UNCHANGED <<slots, due, cur, pos, taken, fd, lastSeq, clientVars>>
  BY JoinFacts
<1>2. PICK r \in RoomId :
             /\ c = Current /\ fd[c] \in Fd /\ fd[c] # 0 /\ conns[fd[c]] = c /\ ~closed[c]
             /\ pc = "parse" /\ batch # <<>>
             /\ rbuf[c] # <<>> /\ Head(rbuf[c]).type = "JOIN" /\ r = Head(rbuf[c]).room
             /\ nextPID' = nextPID + 1 /\ pid' = [pid EXCEPT ![c] = nextPID + 1]
             /\ JoinedOpen(c, r) \/ JoinedGone(c, r)
             /\ UNCHANGED <<slots, due, cur, pos, taken, fd, lastSeq, clientVars>>
  BY <1>1
<1>3. Counted'
  BY <1>2, JoinCounted
<1>4. nextPID' \in 0 .. Cardinality(Conn) * MaxJoin /\ nextPID + 1 \in Pid
  <2>1. Cardinality(Done)' \in Nat /\ Cardinality(Done)' <= Cardinality(Conn) * MaxJoin
    BY DoneBound DEF Done
  <2>2. Cardinality(Conn) \in Nat /\ MaxJoin \in Nat
    BY EpollConstants, FS_CardinalityType
  <2>3. nextPID \in Nat /\ nextPID' = nextPID + 1 /\ nextPID' <= Cardinality(Done)'
    BY <1>2, <1>3, <2>2 DEF EpollInv, TypeOK, Counted
  <2>4. Cardinality(Conn) * MaxJoin \in Nat
    BY <2>2
  <2> QED BY <2>1, <2>3, <2>4 DEF Pid
<1>5. pid' \in [Conn -> Pid \cup {0}]
  BY <1>2, <1>4 DEF EpollInv, TypeOK
<1>6. UNCHANGED <<sock, link, sent, joins, got>>
  BY <1>2 DEF clientVars
<1>7. CASE JoinedOpen(c, r)
  <2>1. [type |-> "JOINED", pid |-> nextPID + 1] \in Out
    BY <1>4 DEF Out
  <2>2. wbuf' \in [Conn -> Seq(Out)]
    <3>1. CASE wbuf' = wbuf
      BY <3>1 DEF EpollInv, TypeOK
    <3>2. CASE wbuf' = [wbuf EXCEPT ![c] = Append(@, [type |-> "JOINED", pid |-> nextPID + 1])]
      BY <2>1, <3>2 DEF EpollInv, TypeOK
    <3> QED BY <1>7, <3>1, <3>2 DEF JoinedOpen
  <2>3. wantOut' \in [Conn -> BOOLEAN] /\ armed' \in [Fd -> BOOLEAN]
    BY <1>7, ArmType DEF JoinedOpen, EpollInv, TypeOK
  <2>4. members' \in [RoomId -> Seq(Conn)] /\ midx' \in [Conn -> Nat]
        /\ room' \in [Conn -> RoomId \cup {None}]
    <3>1. members[r] \in Seq(Conn)
      BY DEF EpollInv, TypeOK
    <3>2. Append(members[r], c) \in Seq(Conn) /\ Len(members[r]) + 1 \in Nat
      BY <3>1
    <3>3. members' \in [RoomId -> Seq(Conn)]
      BY <1>7, <3>2 DEF JoinedOpen, EpollInv, TypeOK
    <3>4. midx' \in [Conn -> Nat]
      BY <1>7, <3>2 DEF JoinedOpen, EpollInv, TypeOK
    <3> QED BY <1>7, <3>3, <3>4 DEF JoinedOpen, EpollInv, TypeOK
  <2>5. /\ rbuf' \in [Conn -> Seq(In)] /\ UNCHANGED <<closed, conns, batch, pc>>
        /\ \A d \in Conn : d # c => rbuf'[d] = rbuf[d] /\ room'[d] = room[d]
        /\ \A d \in Conn : d # c => wbuf'[d] = wbuf[d] /\ wantOut'[d] = wantOut[d]
    BY <1>2, <1>7, FrontFacts DEF JoinedOpen, ArmOut, Arm, EpollInv, TypeOK
  <2>6. TypeOK'
    BY <1>2, <1>4, <1>5, <1>6, <2>2, <2>3, <2>4, <2>5 DEF EpollInv, TypeOK
  <2>7. Links' /\ AtEvent'
    BY <1>2, <2>5 DEF EpollInv, Links, AtEvent, Current
  <2>8. Fresh'
    BY <1>2, <1>6, <2>5 DEF EpollInv, Fresh
  <2>9. Served'
    <3>1. members[r] \in Seq(Conn)
      BY DEF EpollInv, TypeOK
    <3>2. members'[r] = Append(members[r], c) /\ \A x \in RoomId : x # r => members'[x] = members[x]
      BY <1>7 DEF JoinedOpen, EpollInv, TypeOK
    <3>3. \A i \in 1 .. Len(members'[r]) :
             members'[r][i] = c \/ (i \in 1 .. Len(members[r]) /\ members'[r][i] = members[r][i])
      BY <3>1, <3>2
    <3>4. \A i \in 1 .. Len(members'[r]) : fd[members'[r][i]] # 0
      BY <1>2, <3>3 DEF EpollInv, Served
    <3>5. \A x \in RoomId : \A i \in 1 .. Len(members'[x]) : fd[members'[x][i]] # 0
      BY <3>2, <3>4 DEF EpollInv, Served
    <3> QED BY <1>2, <3>5 DEF EpollInv, Served
  <2> QED BY <1>3, <2>6, <2>7, <2>8, <2>9 DEF EpollInv
<1>8. CASE JoinedGone(c, r)
  <2>1. batch' \in Seq(Event) /\ pc' = "event"
    BY <1>2, <1>8, HandledType DEF JoinedGone, EpollInv
  <2>2. /\ closed' = [closed EXCEPT ![c] = TRUE] /\ conns' = [conns EXCEPT ![fd[c]] = None]
        /\ armed' = [armed EXCEPT ![fd[c]] = FALSE] /\ room' = [room EXCEPT ![c] = None]
        /\ UNCHANGED <<members, wbuf, wantOut, rbuf>>
    BY <1>8 DEF JoinedGone
  <2>3. midx' \in [Conn -> Nat]
    BY <1>8 DEF JoinedGone, EpollInv, TypeOK
  <2>4. TypeOK'
    BY <1>2, <1>4, <1>5, <1>6, <2>1, <2>2, <2>3 DEF EpollInv, TypeOK
  <2>5. Links'
    <3>1. \A f \in Fd : f # fd[c] => conns'[f] = conns[f] /\ conns[f] # c
      BY <1>2, <2>2, EpollConstants DEF EpollInv, TypeOK, Links
    <3>2. \A f \in Fd : conns'[f] # None => fd[conns'[f]] = f /\ ~closed'[conns'[f]]
      BY <1>2, <2>2, <3>1 DEF EpollInv, TypeOK, Links
    <3>3. \A d \in Conn : fd[d] # 0 /\ ~closed'[d] => conns'[fd[d]] = d
      BY <1>2, <2>2, <3>1 DEF EpollInv, TypeOK, Links
    <3> QED BY <1>2, <3>2, <3>3 DEF Links
  <2>6. Fresh'
    BY <1>2, <1>6, <2>2 DEF EpollInv, TypeOK, Fresh
  <2>7. Served' /\ AtEvent'
    BY <1>2, <2>1, <2>2 DEF EpollInv, Served, AtEvent
  <2> QED BY <1>3, <2>4, <2>5, <2>6, <2>7 DEF EpollInv
<1> QED BY <1>2, <1>7, <1>8

\* A handler that changes the output of an accepted connection only.
LEMMA OutputKeeps ==
    ASSUME EpollInv, NEW c \in Conn, fd[c] # 0,
           \A d \in Conn : d # c => wbuf'[d] = wbuf[d] /\ wantOut'[d] = wantOut[d],
           UNCHANGED <<conns, members, slots, nextPID, fd, rbuf, room, closed, sock, link, joins>>
    PROVE  Links' /\ Fresh' /\ Served' /\ Counted'
<1>1. Links' /\ Served'
  BY DEF EpollInv, Links, Served
<1>2. Fresh'
  BY DEF EpollInv, Fresh
<1>3. Counted'
  BY CountQuiet
<1> QED BY <1>1, <1>2, <1>3

LEMMA FlushKeeps == EpollInv /\ Flush => EpollInv'
<1> SUFFICES ASSUME EpollInv, Flush PROVE EpollInv'
  OBVIOUS
<1>1. batch # <<>> /\ Head(batch).fd \in Fd /\ Current # None /\ pc # "send"
  BY DEF Flush, CurrentHas, EpollInv, AtEvent
<1>2. PICK c \in Conn : c = Current /\ fd[c] # 0
  BY <1>1, CurrentFacts
<1>3. Handled /\ UNCHANGED <<due, cur, pos, taken, nextPID, fd, rbuf, pid, lastSeq,
                             sock, link, sent, joins>>
  BY DEF Flush
<1>4. CASE CloseConn(c) /\ UNCHANGED <<wbuf, wantOut, got>>
  BY <1>1, <1>2, <1>3, <1>4, CloseCurrent DEF clientVars
<1>5. ASSUME NEW k \in 0 .. Len(wbuf[c]),
             LET rest == SubSeq(wbuf[c], k + 1, Len(wbuf[c]))
                 out  == {wbuf[c][i].room : i \in {i \in 1 .. k : wbuf[c][i].type = "SNAPSHOT"}}
             IN  /\ wbuf' = [wbuf EXCEPT ![c] = rest]
                 /\ got' = [got EXCEPT ![c] = @ \cup out]
                 /\ wantOut' = [wantOut EXCEPT ![c] = @ /\ rest # <<>>]
                 /\ armed' = [armed EXCEPT ![fd[c]] = @ /\ (rest # <<>> \/ ~wantOut[c])]
                 /\ KeepOpen
      PROVE  EpollInv'
  <2> DEFINE rest == SubSeq(wbuf[c], k + 1, Len(wbuf[c]))
             out  == {wbuf[c][i].room : i \in {i \in 1 .. k : wbuf[c][i].type = "SNAPSHOT"}}
  <2>1. wbuf[c] \in Seq(Out)
    BY DEF EpollInv, TypeOK
  <2>2. rest \in Seq(Out)
    BY <2>1
  <2>3. out \subseteq RoomId
    <3> SUFFICES ASSUME NEW i \in 1 .. k, wbuf[c][i].type = "SNAPSHOT"
                 PROVE  wbuf[c][i].room \in RoomId
      OBVIOUS
    <3>1. wbuf[c][i] \in Out
      BY <2>1
    <3> QED BY <3>1, OutFacts
  <2> HIDE DEF rest, out
  <2>4. /\ wbuf' = [wbuf EXCEPT ![c] = rest]
        /\ got' = [got EXCEPT ![c] = @ \cup out]
        /\ wantOut' = [wantOut EXCEPT ![c] = @ /\ rest # <<>>]
        /\ armed' = [armed EXCEPT ![fd[c]] = @ /\ (rest # <<>> \/ ~wantOut[c])]
        /\ KeepOpen
    BY <1>5 DEF rest, out
  <2>5. wbuf' \in [Conn -> Seq(Out)] /\ got' \in [Conn -> SUBSET RoomId]
    BY <2>2, <2>3, <2>4 DEF EpollInv, TypeOK
  <2>6. wantOut' \in [Conn -> BOOLEAN] /\ armed' \in [Fd -> BOOLEAN]
    BY <2>4 DEF EpollInv, TypeOK
  <2>7. batch' \in Seq(Event) /\ pc' = "event"
    BY <1>1, <1>3, HandledType DEF EpollInv
  <2>8. TypeOK'
    BY <1>3, <2>4, <2>5, <2>6, <2>7 DEF EpollInv, TypeOK, KeepOpen
  <2>9. \A d \in Conn : d # c => wbuf'[d] = wbuf[d] /\ wantOut'[d] = wantOut[d]
    BY <2>4 DEF EpollInv, TypeOK
  <2>10. Links' /\ Fresh' /\ Served' /\ Counted'
    BY <1>2, <1>3, <2>4, <2>9, OutputKeeps DEF KeepOpen
  <2>11. AtEvent'
    BY <1>1, <1>3, <2>4, <2>7 DEF EpollInv, AtEvent, KeepOpen
  <2> QED BY <2>8, <2>10, <2>11 DEF EpollInv
<1> QED BY <1>2, <1>4, <1>5 DEF Flush

LEMMA SendKeeps == EpollInv /\ Send => EpollInv'
<1> SUFFICES ASSUME EpollInv, Send PROVE EpollInv'
  OBVIOUS
<1>1. pc = "send" /\ pos \in 1 .. Len(slots) /\ pos \in Nat /\ slots \in Seq(Conn)
  BY DEF Send, EpollInv, TypeOK, AtEvent
<1>2. PICK c \in Conn : c = slots[pos] /\ fd[c] # 0
  BY <1>1, ElementOfSeq DEF EpollInv, Served
<1>3. PICK f \in Out : f = [type |-> "SNAPSHOT", room |-> cur]
  BY <1>1 DEF Out, EpollInv, AtEvent
<1>4. Enqueue(c, f) /\ pos' = pos + 1
      /\ UNCHANGED <<batch, pc, due, cur, taken, nextPID, fd, rbuf, pid, lastSeq,
                     sock, link, sent, joins>>
  BY <1>2, <1>3 DEF Send
<1>5. CloseTypes' /\ OutTypes'
  BY <1>4, EnqueueType DEF EpollInv
<1>6. TypeOK'
  <2>1. pos' \in Nat
    BY <1>1, <1>4
  <2>2. UNCHANGED <<batch, pc, due, cur, taken, nextPID, fd, rbuf, pid, lastSeq,
                    sock, link, sent, joins>>
    BY <1>4
  <2> QED BY <1>5, <2>1, <2>2 DEF EpollInv, TypeOK, CloseTypes, OutTypes
<1>7. AtEvent'
  BY <1>1, <1>4 DEF EpollInv, AtEvent
<1>8. CASE CloseConn(c) /\ UNCHANGED <<wbuf, wantOut, got>>
  <2>1. Links' /\ Fresh' /\ Served' /\ Counted'
    BY <1>2, <1>4, <1>8, CloseKeeps
  <2> QED BY <1>6, <1>7, <2>1 DEF EpollInv
<1>9. CASE KeepOpen /\ \A d \in Conn : d # c => wbuf'[d] = wbuf[d] /\ wantOut'[d] = wantOut[d]
  <2>1. Links' /\ Fresh' /\ Served' /\ Counted'
    BY <1>2, <1>4, <1>9, OutputKeeps DEF KeepOpen
  <2> QED BY <1>6, <1>7, <2>1 DEF EpollInv
<1>10. \/ CloseConn(c) /\ UNCHANGED <<wbuf, wantOut, got>>
       \/ KeepOpen /\ \A d \in Conn : d # c => wbuf'[d] = wbuf[d] /\ wantOut'[d] = wantOut[d]
  BY <1>4 DEF Enqueue, EnqueueWrite, EnqueueBehind, Close, KeepOpen, ArmOut, Arm, EpollInv, TypeOK
<1> QED BY <1>8, <1>9, <1>10

LEMMA EpollInit == Init => EpollInv
<1> SUFFICES ASSUME Init PROVE EpollInv
  OBVIOUS
<1>1. TypeOK
  <2>1. Cardinality(Conn) * MaxJoin \in Nat
    BY EpollConstants, FS_CardinalityType
  <2> QED BY <2>1, EpollConstants DEF Init, TypeOK
<1>2. Links /\ Fresh /\ Served /\ AtEvent
  BY EpollConstants DEF Init, Links, Fresh, Served, AtEvent
<1>3. Counted
  <2>1. \A c \in Conn : Pending(c) = 0
    <3> SUFFICES ASSUME NEW c \in Conn PROVE Pending(c) = 0
      OBVIOUS
    <3>1. Flight(c) = <<>>
      BY DEF Init, Flight
    <3>2. JoinIdx(Flight(c)) = {}
      BY <3>1 DEF JoinIdx
    <3> QED BY <3>2, FS_EmptySet DEF Pending, JoinCount
  <2>2. \A c \in Conn : Spent(c) = 0 /\ Len(joins[c]) = 0 /\ room[c] = None
    BY <2>1 DEF Init, Spent
  <2>3. Cardinality(Done) \in Nat
    BY DoneBound DEF Done
  <2> QED BY <2>2, <2>3, EpollConstants DEF Init, Counted
<1> QED BY <1>1, <1>2, <1>3 DEF EpollInv

LEMMA EpollNext == EpollInv /\ [Next]_vars => EpollInv'
<1> SUFFICES ASSUME EpollInv, [Next]_vars PROVE EpollInv'
  OBVIOUS
<1>1. CASE Loop
  BY <1>1, EpollWaitKeeps, EndBatchKeeps, AcceptDoneKeeps, StaleKeeps, ClosingKeeps, ReadSomeKeeps,
     ParseJoinKeeps, ParseMoveKeeps, ParseDoneKeeps, FlushKeeps, OnTickKeeps, SendKeeps,
     StepEndKeeps, TickEndKeeps, AcceptKeeps, StepKeeps DEF Loop
<1>2. ASSUME NEW c \in Conn,
             \/ Connect(c) \/ SendOther(c) \/ Leave(c)
             \/ \E r \in RoomId : SendJoin(c, r)
      PROVE  EpollInv'
  BY <1>2, LinkKeeps, SendOtherKeeps, SendJoinKeeps
<1>3. CASE UNCHANGED vars
  <2>1. Links' /\ Fresh' /\ Counted'
    BY <1>3, QuietKeeps DEF vars, workerVars, connVars, clientVars
  <2>2. TypeOK'
    BY <1>3 DEF EpollInv, TypeOK, vars, workerVars, connVars, clientVars
  <2>3. Served' /\ AtEvent'
    BY <1>3 DEF EpollInv, Served, AtEvent, Current, vars, workerVars, connVars, clientVars
  <2> QED BY <2>1, <2>2, <2>3 DEF EpollInv
<1> QED BY <1>1, <1>2, <1>3 DEF Next

LEMMA EpollInvariant == Spec => []EpollInv
BY EpollInit, EpollNext, PTL DEF Spec

(* The worker's state keeps its types whatever the clients send and in     *)
(* whatever order they leave: rooms and the loop of step hold connections, *)
(* and there are no more player ids than JOINs.                            *)
THEOREM EpollTypes == Spec => []TypeOK
<1>1. EpollInv => TypeOK
  BY DEF EpollInv
<1> QED BY <1>1, EpollInvariant, PTL

-----------------------------------------------------------------------------
(* Who is closed, and why.                                                 *)

\* closeConn closes one connection.
LEMMA OnlyClosed ==
    ASSUME TypeOK, NEW c \in Conn, NEW d \in Conn, CloseConn(c), closed'[d], ~closed[d]
    PROVE  d = c
BY DEF TypeOK, CloseConn

\* The reason for which the worker may close c.
Cause(c) ==
    \/ Left(c)
    \/ pc = "parse" /\ Head(rbuf[c]).type = "BAD"
    \/ pc = "event" /\ "HUP" \in Head(batch).on

LEMMA CauseStep ==
    ASSUME EpollInv, [Next]_vars, NEW c \in Conn, closed'[c], ~closed[c]
    PROVE  Cause(c)
<1>1. closed' # closed
  OBVIOUS
<1>2. CASE HangUp
  BY <1>2 DEF HangUp, CurrentHas, Cause
<1>3. CASE ReadEnd
  <2>1. Current \in Conn /\ CloseConn(Current) /\ Left(Current)
    BY <1>3, CurrentFacts DEF ReadEnd, CurrentHas
  <2>2. c = Current
    BY <2>1, OnlyClosed DEF EpollInv
  <2> QED BY <2>1, <2>2 DEF Cause
<1>4. CASE ParseBad
  <2>1. Current \in Conn /\ CloseConn(Current) /\ pc = "parse" /\ Head(rbuf[Current]).type = "BAD"
    BY <1>4, CurrentFacts DEF ParseBad, Parsing, EpollInv, AtEvent
  <2>2. c = Current
    BY <2>1, OnlyClosed DEF EpollInv
  <2> QED BY <2>1, <2>2 DEF Cause
<1>5. CASE ParseJoin
  <2>1. PICK d \in Conn, r \in RoomId : JoinedOpen(d, r) \/ JoinedGone(d, r)
    BY <1>5, JoinFacts
  <2>2. JoinedGone(d, r) /\ c = d
    BY <1>1, <2>1 DEF JoinedOpen, JoinedGone, EpollInv, TypeOK
  <2> QED BY <2>2 DEF JoinedGone, Cause
<1>6. CASE Flush
  <2>1. Current \in Conn
    BY <1>6, CurrentFacts DEF Flush, CurrentHas, EpollInv, AtEvent
  <2>2. CloseConn(Current) /\ Left(Current)
    BY <1>1, <1>6 DEF Flush, KeepOpen
  <2>3. c = Current
    BY <2>1, <2>2, OnlyClosed DEF EpollInv
  <2> QED BY <2>2, <2>3 DEF Cause
<1>7. CASE Send
  <2>1. slots[pos] \in Conn /\ fd[slots[pos]] # 0
    <3>1. pos \in 1 .. Len(slots) /\ slots \in Seq(Conn)
      BY <1>7 DEF Send, EpollInv, TypeOK, AtEvent
    <3> QED BY <3>1, ElementOfSeq DEF EpollInv, Served
  <2>2. PICK d \in Conn : d = slots[pos] /\ fd[d] # 0
    BY <2>1
  <2>3. CloseConn(d) /\ (Peer(d) # None => Left(Peer(d)))
    BY <1>1, <1>7, <2>2 DEF Send, Enqueue, EnqueueWrite, EnqueueBehind, Close, KeepOpen
  <2>4. c = d
    BY <2>3, OnlyClosed DEF EpollInv
  <2>5. Peer(d) = d /\ d # None
    BY <2>2, <2>4, EpollConstants DEF Peer, EpollInv, Links
  <2> QED BY <2>3, <2>4, <2>5 DEF Cause
<1>8. CASE /\ Loop
           /\ ~(HangUp \/ ReadEnd \/ ParseBad \/ ParseJoin \/ Flush \/ Send)
  BY <1>1, <1>8 DEF Loop, EpollWait, EndBatch, AcceptDone, Stale, ReadSome, ParseMove, ParseShort,
     ParseDone, OnTick, StepEnd, TickEnd, Accept, Step, connVars
<1>9. ASSUME NEW d \in Conn,
             \/ Connect(d) \/ SendOther(d) \/ Leave(d)
             \/ \E r \in RoomId : SendJoin(d, r)
      PROVE  FALSE
  BY <1>1, <1>9 DEF Connect, SendOther, SendJoin, SendFrame, Leave, connVars
<1>10. CASE UNCHANGED vars
  BY <1>1, <1>10 DEF vars, connVars
<1> QED BY <1>2, <1>3, <1>4, <1>5, <1>6, <1>7, <1>8, <1>9, <1>10 DEF Next, Loop

(* Whatever event arrives for whatever number, stale or not, and however   *)
(* often clients join: the worker closes a connection only when its client *)
(* has left, when the frame it is parsing is malformed, or on a HUP.       *)
THEOREM EpollClosesForCause == Spec => ClosedForCause
<1>1. EpollInv /\ [Next]_vars =>
        [\A c \in Conn : closed'[c] /\ ~closed[c] =>
           \/ Left(c)
           \/ pc = "parse" /\ Head(rbuf[c]).type = "BAD"
           \/ pc = "event" /\ "HUP" \in Head(batch).on]_vars
  BY CauseStep DEF Cause
<1> QED BY <1>1, EpollInvariant, PTL DEF Spec, ClosedForCause

-----------------------------------------------------------------------------
(* The indices of the members, and the loop of step.                       *)

\* Members are where they remember, so that none is there twice.
LEMMA MemberFacts ==
    ASSUME EpollInv, MembersIndexed, NEW r \in RoomId, NEW i \in 1 .. Len(members[r])
    PROVE  /\ members[r][i] \in Conn /\ ~closed[members[r][i]]
           /\ room[members[r][i]] = r /\ midx[members[r][i]] = i
<1>1. members[r] \in Seq(Conn)
  BY DEF EpollInv, TypeOK
<1> QED BY <1>1, ElementOfSeq DEF MembersIndexed

\* A connection that stands at its index in its room.
At(d) ==
    /\ room[d] \in RoomId
    /\ midx[d] \in 1 .. Len(members[room[d]])
    /\ members[room[d]][midx[d]] = d

LEMMA IndexedClose ==
    ASSUME EpollInv, MembersIndexed, NEW c \in Conn, CloseConn(c)
    PROVE  MembersIndexed'
<1>1. /\ \A d \in Conn : closed'[d] = IF d = c THEN TRUE ELSE closed[d]
      /\ \A d \in Conn : room'[d] = IF d = c THEN None ELSE room[d]
  BY DEF CloseConn, EpollInv, TypeOK
<1>2. \A d \in Conn : room[d] # None => At(d)
  BY DEF MembersIndexed, Found, At, EpollInv, TypeOK
<1>3. CASE ~Found(c)
  <2>1. room[c] = None /\ members' = members /\ midx' = midx
    BY <1>3 DEF MembersIndexed, CloseConn, Removed, Reindexed
  <2>2. ASSUME NEW r \in RoomId, NEW i \in 1 .. Len(members'[r])
        PROVE  LET d == members'[r][i]
               IN  ~closed'[d] /\ room'[d] = r /\ midx'[d] = i
    <3>1. PICK d \in Conn : d = members[r][i] /\ ~closed[d] /\ room[d] = r /\ midx[d] = i
      BY <2>1, <2>2, MemberFacts
    <3>2. d # c
      BY <2>1, <3>1, EpollConstants
    <3> QED BY <1>1, <2>1, <3>1, <3>2
  <2>3. ASSUME NEW d \in Conn, room'[d] # None
        PROVE  Found(d)'
    BY <1>1, <1>2, <2>1, <2>3 DEF MembersIndexed, Found
  <2> QED BY <2>2, <2>3 DEF MembersIndexed
<1>4. CASE Found(c)
  <2>1. PICK r \in RoomId, i \in Nat, n \in Nat :
          /\ r = room[c] /\ i = midx[c] /\ n = Len(members[r]) /\ i \in 1 .. n
    BY <1>4, FoundFacts DEF EpollInv
  <2>2. PICK l \in Conn : l = Last(c) /\ l = members[r][n] /\ ~closed[l] /\ room[l] = r /\ midx[l] = n
    <3>1. n \in 1 .. Len(members[r])
      BY <2>1
    <3> QED BY <2>1, <3>1, MemberFacts DEF Last
  <2>3. members[r][i] = c
    BY <1>4, <2>1 DEF Found
  <2>4. /\ Len(members'[r]) = n - 1
        /\ \A j \in 1 .. n - 1 : members'[r][j] = IF j = i THEN l ELSE members[r][j]
        /\ \A x \in RoomId : x # r => members'[x] = members[x]
    <3>1. /\ Len(members'[r]) = n - 1
          /\ \A j \in 1 .. Len(members'[r]) : members'[r][j] = IF j = i THEN l ELSE members[r][j]
      <4>1. /\ Len(members'[room[c]]) = Len(members[room[c]]) - 1
            /\ \A j \in 1 .. Len(members'[room[c]]) :
                 members'[room[c]][j] = IF j = midx[c] THEN Last(c) ELSE members[room[c]][j]
        BY <1>4, RemovedFrom DEF EpollInv
      <4>2. Last(c) = l /\ room[c] = r /\ midx[c] = i /\ Len(members[room[c]]) = n
        BY <2>1, <2>2
      <4> HIDE DEF Last
      <4> QED BY <4>1, <4>2
    <3>2. \A x \in RoomId : x # r => members'[x] = members[x]
      BY <1>4, <2>1, RemovedFrom DEF EpollInv
    <3> QED BY <3>1, <3>2
  <2>5. \A d \in Conn : midx'[d] = IF d = l THEN i ELSE midx[d]
    BY <1>4, <2>1, <2>2 DEF CloseConn, Reindexed, EpollInv, TypeOK
  <2>6. i # n => l # c
    BY <2>1, <2>2
  <2>7. ASSUME NEW x \in RoomId, NEW j \in 1 .. Len(members'[x])
        PROVE  LET d == members'[x][j]
               IN  ~closed'[d] /\ room'[d] = x /\ midx'[d] = j
    <3>1. CASE x # r
      <4>1. members'[x] = members[x]
        BY <2>4, <3>1
      <4>2. PICK d \in Conn : d = members[x][j] /\ ~closed[d] /\ room[d] = x /\ midx[d] = j
        BY <2>7, <4>1, MemberFacts
      <4>3. d # c /\ d # l
        BY <2>1, <2>2, <3>1, <4>2
      <4> QED BY <1>1, <2>5, <4>1, <4>2, <4>3
    <3>2. CASE x = r /\ j = i
      <4>1. j \in 1 .. n - 1 /\ members'[x][j] = l /\ i # n
        BY <2>1, <2>4, <2>7, <3>2
      <4> QED BY <1>1, <2>2, <2>5, <2>6, <3>2, <4>1
    <3>3. CASE x = r /\ j # i
      <4>1. j \in 1 .. n - 1 /\ j \in 1 .. n /\ j # n /\ members'[x][j] = members[r][j]
        BY <2>1, <2>4, <2>7, <3>3
      <4>2. PICK d \in Conn : d = members[r][j] /\ ~closed[d] /\ room[d] = r /\ midx[d] = j
        BY <2>1, <4>1, MemberFacts
      <4>3. d # c /\ d # l
        BY <2>1, <2>2, <3>3, <4>1, <4>2
      <4> QED BY <1>1, <2>5, <3>3, <4>1, <4>2, <4>3
    <3> QED BY <3>1, <3>2, <3>3
  <2>8. ASSUME NEW d \in Conn, room'[d] # None
        PROVE  Found(d)'
    <3>1. d # c /\ room'[d] = room[d] /\ At(d)
      BY <1>1, <1>2, <2>8
    <3>2. CASE room[d] # r
      <4>1. members'[room[d]] = members[room[d]] /\ midx'[d] = midx[d]
        BY <2>2, <2>4, <2>5, <3>1, <3>2 DEF At
      <4> QED BY <2>8, <3>1, <4>1 DEF Found, At
    <3>3. CASE room[d] = r /\ d = l
      <4>1. i # n
        BY <2>1, <2>2, <2>3, <3>1, <3>3
      <4>2. i \in 1 .. n - 1 /\ members'[r][i] = l /\ midx'[d] = i
        BY <2>1, <2>4, <2>5, <3>3, <4>1
      <4> QED BY <2>4, <2>8, <3>1, <3>3, <4>2 DEF Found
    <3>4. CASE room[d] = r /\ d # l
      <4>1. midx'[d] = midx[d] /\ midx[d] \in 1 .. n /\ members[r][midx[d]] = d
        BY <2>1, <2>5, <3>1, <3>4 DEF At
      <4>2. midx[d] # n /\ midx[d] # i
        BY <2>2, <2>3, <3>1, <3>4, <4>1
      <4>3. midx[d] \in 1 .. n - 1 /\ members'[r][midx[d]] = d
        BY <2>1, <2>4, <4>1, <4>2
      <4> QED BY <2>4, <2>8, <3>1, <3>4, <4>1, <4>3 DEF Found
    <3> QED BY <3>2, <3>3, <3>4
  <2> QED BY <2>7, <2>8 DEF MembersIndexed
<1> QED BY <1>3, <1>4

LEMMA IndexedQuiet ==
    ASSUME MembersIndexed, UNCHANGED <<members, midx, room, closed>>
    PROVE  MembersIndexed'
BY DEF MembersIndexed, Found

\* With one JOIN per client, a client that joins is in no room.
LEMMA IndexedJoin ==
    ASSUME MaxJoin = 1, EpollInv, MembersIndexed, ParseJoin
    PROVE  MembersIndexed'
<1>1. PICK c \in Conn, r \in RoomId :
        /\ ~closed[c] /\ rbuf[c] # <<>> /\ Head(rbuf[c]).type = "JOIN"
        /\ JoinedOpen(c, r) \/ JoinedGone(c, r)
  BY JoinFacts
<1>2. room[c] = None
  <2>1. /\ Flight(c) # <<>> /\ Flight(c) \in Seq(In) /\ Head(Flight(c)).type = "JOIN"
    BY <1>1, FrontFacts
  <2>2. Tail(Flight(c)) \in Seq(In)
    BY <2>1, HeadTailProperties
  <2>3. /\ JoinCount(Flight(c)) \in Nat /\ JoinCount(Tail(Flight(c))) \in Nat
        /\ JoinCount(Tail(Flight(c))) = JoinCount(Flight(c)) - 1
    BY <2>1, <2>2, JoinCountType, JoinCountTail
  <2>4. Pending(c) \in Nat /\ Pending(c) >= 1
    BY <1>1, <2>3 DEF Pending
  <2>5. Len(joins[c]) \in Nat /\ Len(joins[c]) <= 1 /\ (room[c] # None => Spent(c) >= 1)
    BY DEF EpollInv, TypeOK, Counted
  <2> QED BY <2>4, <2>5 DEF Spent
<1>3. \A x \in RoomId : \A i \in 1 .. Len(members[x]) :
         /\ members[x][i] \in Conn /\ members[x][i] # c /\ ~closed[members[x][i]]
         /\ room[members[x][i]] = x /\ midx[members[x][i]] = i
  BY <1>2, MemberFacts, EpollConstants
<1>4. /\ \A d \in Conn : d # c => room'[d] = room[d] /\ midx'[d] = midx[d] /\ closed'[d] = closed[d]
  BY <1>1 DEF JoinedOpen, JoinedGone, EpollInv, TypeOK
<1>5. \A d \in Conn : room[d] # None => At(d)
  BY DEF MembersIndexed, Found, At, EpollInv, TypeOK
<1>6. CASE JoinedGone(c, r)
  <2>1. members' = members /\ room'[c] = None
    BY <1>6 DEF JoinedGone, EpollInv, TypeOK
  <2>2. \A x \in RoomId : \A i \in 1 .. Len(members'[x]) :
          LET d == members'[x][i]
          IN  ~closed'[d] /\ room'[d] = x /\ midx'[d] = i
    BY <1>3, <1>4, <2>1
  <2>3. \A d \in Conn : room'[d] # None => Found(d)'
    BY <1>4, <1>5, <2>1 DEF Found, At
  <2> QED BY <2>2, <2>3 DEF MembersIndexed
<1>7. CASE JoinedOpen(c, r)
  <2>1. PICK n \in Nat : n = Len(members[r]) /\ members[r] \in Seq(Conn)
    BY DEF EpollInv, TypeOK
  <2>2. /\ members'[r] = Append(members[r], c)
        /\ \A x \in RoomId : x # r => members'[x] = members[x]
        /\ room'[c] = r /\ midx'[c] = n + 1 /\ closed' = closed
    BY <1>7, <2>1 DEF JoinedOpen, EpollInv, TypeOK
  <2>3. /\ Len(members'[r]) = n + 1 /\ members'[r][n + 1] = c
        /\ \A i \in 1 .. n : members'[r][i] = members[r][i]
    BY <2>1, <2>2
  <2>4. ASSUME NEW x \in RoomId, NEW i \in 1 .. Len(members'[x])
        PROVE  LET d == members'[x][i]
               IN  ~closed'[d] /\ room'[d] = x /\ midx'[d] = i
    <3>1. CASE x # r
      BY <1>3, <1>4, <2>2, <2>4, <3>1
    <3>2. CASE x = r /\ i = n + 1
      BY <1>1, <2>2, <2>3, <3>2
    <3>3. CASE x = r /\ i \in 1 .. n
      BY <1>3, <1>4, <2>1, <2>3, <3>3
    <3>4. x = r => i = n + 1 \/ i \in 1 .. n
      BY <2>1, <2>3, <2>4
    <3> QED BY <3>1, <3>2, <3>3, <3>4
  <2>5. ASSUME NEW d \in Conn, room'[d] # None
        PROVE  Found(d)'
    <3>1. CASE d = c
      BY <2>1, <2>2, <2>3, <2>5, <3>1 DEF Found
    <3>2. CASE d # c /\ room[d] # r
      <4>1. At(d) /\ room'[d] = room[d] /\ midx'[d] = midx[d]
        BY <1>4, <1>5, <2>5, <3>2
      <4>2. members'[room[d]] = members[room[d]]
        BY <2>2, <3>2, <4>1 DEF At
      <4> QED BY <2>5, <4>1, <4>2 DEF Found, At
    <3>3. CASE d # c /\ room[d] = r
      <4>1. At(d) /\ room'[d] = r /\ midx'[d] = midx[d]
        BY <1>4, <1>5, <2>5, <3>3
      <4>2. midx[d] \in 1 .. n /\ midx[d] \in 1 .. n + 1 /\ members[r][midx[d]] = d
        BY <2>1, <3>3, <4>1 DEF At
      <4> QED BY <2>3, <2>5, <4>1, <4>2 DEF Found
    <3> QED BY <3>1, <3>2, <3>3
  <2> QED BY <2>4, <2>5 DEF MembersIndexed
<1> QED BY <1>1, <1>6, <1>7

\* Outside the loop of step there is nothing to send.
LEMMA NotSending ==
    ASSUME AtEvent', pc' # "send"
    PROVE  ToSend' /\ EachOnce'
<1>1. slots' = <<>> /\ pos' = 1
  BY DEF AtEvent
<1>2. Len(slots') = 0
  BY <1>1
<1> QED BY <1>1, <1>2 DEF ToSend, EachOnce

LEMMA OnceStepRoom ==
    ASSUME EpollInv, OnceInv, NEW r \in RoomId, Step(r)
    PROVE  OnceInv'
<1>1. AtEvent'
  BY StepKeeps DEF EpollInv
<1>2. MembersIndexed /\ MembersIndexed' /\ pc = "tick"
  BY IndexedQuiet DEF Step, OnceInv, connVars
<1>3. CASE members[r] = <<>>
  BY <1>1, <1>2, <1>3, NotSending DEF Step, OnceInv
<1>4. CASE members[r] # <<>>
  <2>1. slots' = members[r] /\ taken' = members[r] /\ cur' = r /\ pos' = 1 /\ room' = room /\ midx' = midx
    BY <1>4 DEF Step, connVars
  <2>2. members[r] \in Seq(Conn) /\ Len(members[r]) \in Nat
    BY DEF EpollInv, TypeOK
  <2>3. \A i \in 1 .. Len(members[r]) : room[members[r][i]] = r /\ midx[members[r][i]] = i
    BY <1>2 DEF MembersIndexed
  <2>4. ToSend'
    BY <2>1, <2>2, <2>3 DEF ToSend
  <2>5. EachOnce'
    BY <2>1 DEF EachOnce
  <2> QED BY <1>2, <2>4, <2>5 DEF OnceInv
<1> QED BY <1>3, <1>4

\* The member that the loop has come to is open.
LEMMA AtSlot ==
    ASSUME EpollInv, OnceInv, Send
    PROVE  /\ pos \in 1 .. Len(slots) /\ pos' = pos + 1
           /\ slots[pos] \in Conn /\ ~closed[slots[pos]] /\ fd[slots[pos]] # 0
           /\ room[slots[pos]] = cur /\ midx[slots[pos]] <= pos
           /\ Found(slots[pos])
<1>1. pos \in 1 .. Len(slots) /\ slots \in Seq(Conn) /\ pc = "send" /\ cur \in RoomId /\ pos' = pos + 1
  BY DEF Send, EpollInv, TypeOK, AtEvent
<1>2. slots[pos] \in Conn /\ fd[slots[pos]] # 0
  BY <1>1, ElementOfSeq DEF EpollInv, Served
<1>3. pos \in pos .. Len(slots)
  BY <1>1
<1>4. room[slots[pos]] = cur /\ midx[slots[pos]] <= pos
  BY <1>1, <1>3 DEF OnceInv, ToSend
<1>5. Found(slots[pos])
  BY <1>1, <1>2, <1>4, EpollConstants DEF OnceInv, MembersIndexed
<1>6. ~closed[slots[pos]]
  BY <1>2, <1>5, FoundFacts, MemberFacts DEF Found, EpollInv, OnceInv
<1> QED BY <1>1, <1>2, <1>4, <1>5, <1>6

LEMMA OnceSend ==
    ASSUME EpollInv, OnceInv, Send
    PROVE  OnceInv'
<1>1. PICK c \in Conn : c = slots[pos] /\ ~closed[c] /\ room[c] = cur /\ midx[c] <= pos /\ Found(c)
  BY AtSlot
<1>2. /\ pos \in 1 .. Len(slots) /\ pos' = pos + 1 /\ pc = "send" /\ Len(slots) \in Nat
      /\ UNCHANGED <<pc, cur, taken>>
  <2>1. pos \in 1 .. Len(slots) /\ pos' = pos + 1
    BY AtSlot
  <2>2. slots \in Seq(Conn)
    BY DEF EpollInv, TypeOK
  <2>3. pc = "send" /\ UNCHANGED <<pc, cur, taken>>
    BY DEF Send
  <2> QED BY <2>1, <2>2, <2>3
<1>3. \A i \in pos + 1 .. Len(slots) : i \in pos .. Len(slots) /\ i # pos
  BY <1>2
<1>4. \A i \in pos + 1 .. Len(slots) :
        /\ room[slots[i]] = cur /\ midx[slots[i]] <= i /\ slots[i] # c /\ slots[i] = taken[i]
        /\ \A j \in pos + 1 .. Len(slots) : slots[i] = slots[j] => i = j
  <2>1. pos \in pos .. Len(slots)
    BY <1>2
  <2> QED BY <1>1, <1>2, <1>3, <2>1 DEF OnceInv, ToSend, EachOnce
<1>5. CASE KeepOpen
  <2>1. MembersIndexed'
    BY <1>5, IndexedQuiet DEF KeepOpen, OnceInv
  <2>2. slots' = slots /\ room' = room /\ midx' = midx
    BY <1>5 DEF KeepOpen
  <2>3. ToSend' /\ EachOnce'
    BY <1>2, <1>4, <2>2 DEF ToSend, EachOnce
  <2> QED BY <2>1, <2>3 DEF OnceInv
<1>6. CASE CloseConn(c)
  <2>1. MembersIndexed'
    BY <1>6, IndexedClose DEF OnceInv
  <2>2. PICK l \in Conn : l = Last(c)
    BY <1>1, FoundFacts DEF EpollInv
  <2>3. \A d \in Conn : /\ midx'[d] = IF d = l THEN midx[c] ELSE midx[d]
                        /\ d # c => room'[d] = room[d]
    BY <1>1, <1>6, <2>2 DEF CloseConn, Reindexed, EpollInv, TypeOK
  <2>4. midx[c] \in Nat /\ pos \in Nat
    BY DEF EpollInv, TypeOK
  <2>5. Len(slots') = Len(slots) /\ \A i \in pos + 1 .. Len(slots) : slots'[i] = slots[i]
    <3>1. \A i \in pos + 1 .. Len(slots) : i \in 1 .. Len(slots) /\ i # midx[c]
      BY <1>1, <1>2, <2>4
    <3> QED BY <1>6, <3>1, SlotsAfter DEF EpollInv
  <2>6. \A i \in pos + 1 .. Len(slots) : slots[i] \in Conn /\ midx[slots[i]] \in Nat
    <3>1. slots \in Seq(Conn) /\ \A i \in pos + 1 .. Len(slots) : i \in 1 .. Len(slots)
      BY <1>2 DEF EpollInv, TypeOK
    <3> QED BY <3>1, ElementOfSeq DEF EpollInv, TypeOK
  <2>7. \A i \in pos + 1 .. Len(slots) :
          room'[slots[i]] = cur /\ midx'[slots[i]] <= i
    BY <1>1, <1>2, <1>4, <2>3, <2>4, <2>6
  <2>8. ToSend'
    BY <1>2, <1>4, <2>5, <2>7 DEF ToSend
  <2>9. EachOnce'
    BY <1>2, <1>4, <2>5 DEF EachOnce
  <2> QED BY <2>1, <2>8, <2>9 DEF OnceInv
<1>7. KeepOpen \/ CloseConn(c)
  BY <1>1 DEF Send, Enqueue, EnqueueWrite, EnqueueBehind, Close
<1> QED BY <1>5, <1>6, <1>7

\* The steps of the clients.
LEMMA OnceClients ==
    ASSUME OnceInv, UNCHANGED <<workerVars, connVars>>
    PROVE  OnceInv'
<1>1. MembersIndexed'
  BY IndexedQuiet DEF OnceInv, workerVars, connVars
<1>2. ToSend' /\ EachOnce'
  BY DEF OnceInv, ToSend, EachOnce, workerVars, connVars
<1> QED BY <1>1, <1>2 DEF OnceInv

LEMMA OnceStep ==
    ASSUME MaxJoin = 1, EpollInv, OnceInv, [Next]_vars
    PROVE  OnceInv'
<1>1. AtEvent' /\ MembersIndexed
  BY EpollNext DEF EpollInv, OnceInv
<1>2. CASE HangUp \/ ReadEnd \/ ParseBad
  <2>1. Current \in Conn
    BY <1>2, CurrentFacts DEF HangUp, ReadEnd, ParseBad, CurrentHas, Parsing, EpollInv, AtEvent
  <2>2. MembersIndexed' /\ pc' # "send"
    BY <1>1, <1>2, <2>1, IndexedClose DEF HangUp, ReadEnd, ParseBad, Handled
  <2> QED BY <1>1, <2>2, NotSending DEF OnceInv
<1>3. CASE ParseJoin
  <2>1. MembersIndexed'
    BY <1>1, <1>3, IndexedJoin
  <2>2. pc' # "send"
    BY <1>3, JoinFacts DEF JoinedOpen, JoinedGone, Handled
  <2> QED BY <1>1, <2>1, <2>2, NotSending DEF OnceInv
<1>4. CASE Flush
  <2>1. Current \in Conn /\ pc' # "send"
    BY <1>4, CurrentFacts DEF Flush, CurrentHas, Handled, EpollInv, AtEvent
  <2>2. KeepOpen \/ CloseConn(Current)
    BY <1>4 DEF Flush
  <2>3. MembersIndexed'
    BY <1>1, <2>1, <2>2, IndexedClose, IndexedQuiet DEF KeepOpen
  <2> QED BY <1>1, <2>1, <2>3, NotSending DEF OnceInv
<1>5. CASE Send
  BY <1>5, OnceSend
<1>6. ASSUME NEW r \in RoomId, Step(r)
      PROVE  OnceInv'
  BY <1>6, OnceStepRoom
<1>7. CASE \/ EpollWait \/ EndBatch \/ AcceptDone \/ Stale \/ ReadSome \/ ParseMove \/ ParseShort
           \/ ParseDone \/ OnTick \/ StepEnd \/ TickEnd
           \/ \E c \in Conn : Accept(c)
  <2>1. UNCHANGED <<members, midx, room, closed>> /\ pc' # "send"
    BY <1>7 DEF EpollWait, EndBatch, AcceptDone, Stale, ReadSome, ParseMove, ParseShort, ParseDone,
       OnTick, StepEnd, TickEnd, Accept, Event1, Parsing, Handled, workerVars, connVars
  <2> QED BY <1>1, <2>1, IndexedQuiet, NotSending DEF OnceInv
<1>8. ASSUME NEW d \in Conn,
             \/ Connect(d) \/ SendOther(d) \/ Leave(d)
             \/ \E r \in RoomId : SendJoin(d, r)
      PROVE  OnceInv'
  <2>1. UNCHANGED <<workerVars, connVars>>
    BY <1>8 DEF Connect, SendOther, SendJoin, SendFrame, Leave
  <2> QED BY <2>1, OnceClients
<1>9. CASE UNCHANGED vars
  BY <1>9, OnceClients DEF vars
<1> QED BY <1>2, <1>3, <1>4, <1>5, <1>6, <1>7, <1>8, <1>9 DEF Next, Loop

LEMMA OnceInit == Init => OnceInv
BY DEF Init, OnceInv, MembersIndexed, ToSend, EachOnce

LEMMA OnceInvariant == ASSUME MaxJoin = 1 PROVE Spec => []OnceInv
<1>1. EpollInv /\ OnceInv /\ [Next]_vars => OnceInv'
  BY OnceStep
<1> QED BY <1>1, OnceInit, EpollInvariant, PTL DEF Spec

(* As long as nobody joins twice, a room holds open connections only, each *)
(* at the index it remembers: swapping the last member into the place of   *)
(* one that is closed never loses or misplaces another.                    *)
THEOREM EpollMembersIndexed == ASSUME MaxJoin = 1 PROVE Spec => []MembersIndexed
<1>1. OnceInv => MembersIndexed
  BY DEF OnceInv
<1> QED BY <1>1, OnceInvariant, PTL

(* As long as nobody joins twice, the loop of step finds every member at   *)
(* the place where it was when the loop began, although closing a member   *)
(* writes to the array the loop goes through.                              *)
THEOREM EpollEachOnce == ASSUME MaxJoin = 1 PROVE Spec => []EachOnce
<1>1. OnceInv => EachOnce
  BY DEF OnceInv
<1> QED BY <1>1, OnceInvariant, PTL

-----------------------------------------------------------------------------
(* EPOLLOUT.                                                               *)

\* A step that closes c, whatever else it does to the rooms.
LEMMA OutClosed ==
    ASSUME EpollInv, OutInv, NEW c \in Conn, fd[c] # 0, ~closed[c],
           closed' = [closed EXCEPT ![c] = TRUE],
           conns' = [conns EXCEPT ![fd[c]] = None],
           armed' = [armed EXCEPT ![fd[c]] = FALSE],
           UNCHANGED <<wbuf, wantOut>>
    PROVE  OutInv'
<1>1. fd[c] \in Fd
  BY DEF EpollInv, TypeOK
<1>2. Wanted'
  BY DEF OutInv, Wanted, EpollInv, TypeOK
<1>3. ASSUME NEW f \in Fd
      PROVE  armed'[f] <=> (conns'[f] # None /\ wbuf'[conns'[f]] # <<>>)
  <2>1. CASE f = fd[c]
    BY <1>1, <2>1 DEF EpollInv, TypeOK
  <2>2. CASE f # fd[c]
    <3>1. armed'[f] = armed[f] /\ conns'[f] = conns[f]
      BY <1>1, <2>2 DEF EpollInv, TypeOK
    <3> QED BY <3>1 DEF OutInv, OutArmed
  <2> QED BY <2>1, <2>2
<1> QED BY <1>2, <1>3 DEF OutInv, OutArmed

\* A step that changes the output of c, which is open, and arms as it does.
LEMMA OutChanged ==
    ASSUME EpollInv, OutInv, NEW c \in Conn, fd[c] # 0, ~closed[c],
           UNCHANGED <<closed, conns>>,
           \A d \in Conn : d # c => wbuf'[d] = wbuf[d] /\ wantOut'[d] = wantOut[d],
           \A f \in Fd : f # fd[c] => armed'[f] = armed[f],
           wantOut'[c] <=> wbuf'[c] # <<>>,
           armed'[fd[c]] <=> wbuf'[c] # <<>>
    PROVE  OutInv'
<1>1. fd[c] \in Fd /\ conns[fd[c]] = c /\ c # None
  BY EpollConstants DEF EpollInv, TypeOK, Links
<1>2. Wanted'
  BY DEF OutInv, Wanted
<1>3. ASSUME NEW f \in Fd
      PROVE  armed'[f] <=> (conns'[f] # None /\ wbuf'[conns'[f]] # <<>>)
  <2>1. CASE f = fd[c]
    BY <1>1, <2>1
  <2>2. CASE f # fd[c]
    <3>1. armed'[f] = armed[f] /\ conns'[f] = conns[f]
      BY <2>2
    <3>2. CASE conns[f] = None
      BY <3>1, <3>2 DEF OutInv, OutArmed
    <3>3. CASE conns[f] # None
      <4>1. conns[f] \in Conn /\ conns[f] # c
        BY <2>2, <3>3 DEF EpollInv, TypeOK, Links
      <4>2. wbuf'[conns[f]] = wbuf[conns[f]]
        BY <4>1
      <4> QED BY <3>1, <4>2 DEF OutInv, OutArmed
    <3> QED BY <3>2, <3>3
  <2> QED BY <2>1, <2>2
<1> QED BY <1>2, <1>3 DEF OutInv, OutArmed

\* What the invariant says of an open connection.
LEMMA OutFactsOf ==
    ASSUME EpollInv, OutInv, NEW c \in Conn, fd[c] # 0, ~closed[c]
    PROVE  /\ fd[c] \in Fd /\ Peer(c) = c /\ c # None
           /\ wantOut[c] <=> wbuf[c] # <<>>
           /\ armed[fd[c]] <=> wbuf[c] # <<>>
<1>1. fd[c] \in Fd /\ conns[fd[c]] = c /\ c # None
  BY EpollConstants DEF EpollInv, TypeOK, Links
<1> QED BY <1>1 DEF Peer, OutInv, Wanted, OutArmed

\* A frame is put into the buffer, and armOut called.
LEMMA OutQueued ==
    ASSUME EpollInv, OutInv, NEW c \in Conn, fd[c] # 0, ~closed[c], ArmOut(c), NEW q,
           q # <<>>, wbuf' = [wbuf EXCEPT ![c] = q], UNCHANGED <<closed, conns>>
    PROVE  OutInv'
<1>1. /\ fd[c] \in Fd /\ Peer(c) = c /\ c # None
      /\ wantOut[c] <=> wbuf[c] # <<>>
      /\ armed[fd[c]] <=> wbuf[c] # <<>>
  BY OutFactsOf
<1>2. wbuf'[c] = q /\ \A d \in Conn : d # c => wbuf'[d] = wbuf[d]
  BY DEF EpollInv, TypeOK
<1>3. /\ \A d \in Conn : d # c => wantOut'[d] = wantOut[d]
      /\ \A f \in Fd : f # fd[c] => armed'[f] = armed[f]
      /\ wantOut'[c] = TRUE
  BY <1>1 DEF ArmOut, Arm, EpollInv, TypeOK
<1>4. armed'[fd[c]] = TRUE
  <2>1. CASE wantOut[c]
    BY <1>1, <2>1 DEF ArmOut, Arm, EpollInv, TypeOK
  <2>2. CASE ~wantOut[c]
    BY <1>1, <2>2 DEF ArmOut, Arm, EpollInv, TypeOK
  <2> QED BY <2>1, <2>2
<1> QED BY <1>2, <1>3, <1>4, OutChanged

LEMMA OutQuiet ==
    ASSUME OutInv, UNCHANGED <<conns, armed, wbuf, wantOut, closed>>
    PROVE  OutInv'
BY DEF OutInv, Wanted, OutArmed

LEMMA OutAccept ==
    ASSUME EpollInv, OutInv, NEW c \in Conn, Accept(c)
    PROVE  OutInv'
<1> DEFINE free == {f \in Fd : conns[f] = None}
<1>1. PICK f \in free : /\ conns' = [conns EXCEPT ![f] = c]
                        /\ armed' = [armed EXCEPT ![f] = FALSE]
  BY DEF Accept
<1>2. wbuf[c] = <<>> /\ UNCHANGED <<wbuf, wantOut, closed>>
  BY DEF Accept, EpollInv, Fresh
<1>3. Wanted'
  BY <1>2 DEF OutInv, Wanted
<1>4. ASSUME NEW g \in Fd
      PROVE  armed'[g] <=> (conns'[g] # None /\ wbuf'[conns'[g]] # <<>>)
  <2>1. CASE g = f
    <3>1. armed'[g] = FALSE /\ conns'[g] = c
      BY <1>1, <2>1 DEF EpollInv, TypeOK
    <3> QED BY <1>2, <3>1
  <2>2. CASE g # f
    <3>1. armed'[g] = armed[g] /\ conns'[g] = conns[g]
      BY <1>1, <2>2 DEF EpollInv, TypeOK
    <3> QED BY <1>2, <3>1 DEF OutInv, OutArmed
  <2> QED BY <2>1, <2>2
<1> QED BY <1>3, <1>4 DEF OutInv, OutArmed

LEMMA OutJoin ==
    ASSUME EpollInv, OutInv, ParseJoin
    PROVE  OutInv'
<1>1. PICK c \in Conn, r \in RoomId :
        fd[c] # 0 /\ ~closed[c] /\ (JoinedOpen(c, r) \/ JoinedGone(c, r))
  BY JoinFacts
<1>2. CASE JoinedGone(c, r)
  BY <1>1, <1>2, OutClosed DEF JoinedGone
<1>3. CASE JoinedOpen(c, r)
  <2>1. CASE UNCHANGED <<wbuf, wantOut, armed>>
    BY <1>3, <2>1, OutQuiet DEF JoinedOpen
  <2>2. CASE /\ wbuf' = [wbuf EXCEPT ![c] = Append(@, [type |-> "JOINED", pid |-> nextPID + 1])]
             /\ ArmOut(c)
    <3>1. PICK q : q = Append(wbuf[c], [type |-> "JOINED", pid |-> nextPID + 1])
      OBVIOUS
    <3>2. wbuf[c] \in Seq(Out)
      BY DEF EpollInv, TypeOK
    <3>3. q # <<>> /\ wbuf' = [wbuf EXCEPT ![c] = q]
      BY <2>2, <3>1, <3>2
    <3> QED BY <1>1, <1>3, <2>2, <3>3, OutQueued DEF JoinedOpen
  <2> QED BY <1>3, <2>1, <2>2 DEF JoinedOpen
<1> QED BY <1>1, <1>2, <1>3

LEMMA OutFlush ==
    ASSUME EpollInv, OutInv, Flush
    PROVE  OutInv'
<1>1. PICK c \in Conn : c = Current /\ fd[c] # 0 /\ ~closed[c]
  BY CurrentFacts DEF Flush, CurrentHas, EpollInv, AtEvent
<1>2. CASE CloseConn(c) /\ UNCHANGED <<wbuf, wantOut, got>>
  BY <1>1, <1>2, OutClosed DEF CloseConn
<1>3. ASSUME NEW k \in 0 .. Len(wbuf[c]), NEW rest,
             rest = SubSeq(wbuf[c], k + 1, Len(wbuf[c])),
             wbuf' = [wbuf EXCEPT ![c] = rest],
             wantOut' = [wantOut EXCEPT ![c] = @ /\ rest # <<>>],
             armed' = [armed EXCEPT ![fd[c]] = @ /\ (rest # <<>> \/ ~wantOut[c])],
             KeepOpen
      PROVE  OutInv'
  <2>1. /\ fd[c] \in Fd
        /\ wantOut[c] <=> wbuf[c] # <<>>
        /\ armed[fd[c]] <=> wbuf[c] # <<>>
    BY <1>1, OutFactsOf
  <2>2. wbuf[c] = <<>> => rest = <<>>
    BY <1>3
  <2>3. wbuf'[c] = rest /\ \A d \in Conn : d # c => wbuf'[d] = wbuf[d] /\ wantOut'[d] = wantOut[d]
    BY <1>3 DEF EpollInv, TypeOK
  <2>4. /\ wantOut'[c] <=> wantOut[c] /\ rest # <<>>
        /\ armed'[fd[c]] <=> armed[fd[c]] /\ (rest # <<>> \/ ~wantOut[c])
        /\ \A f \in Fd : f # fd[c] => armed'[f] = armed[f]
    BY <1>3, <2>1 DEF EpollInv, TypeOK
  <2>5. /\ wantOut'[c] <=> wbuf'[c] # <<>>
        /\ armed'[fd[c]] <=> wbuf'[c] # <<>>
    BY <2>1, <2>2, <2>3, <2>4
  <2> QED BY <1>1, <1>3, <2>3, <2>4, <2>5, OutChanged DEF KeepOpen
<1> QED BY <1>1, <1>2, <1>3 DEF Flush

\* Here the loop of step must come to open connections only.
LEMMA OutSend ==
    ASSUME EpollInv, OnceInv, OutInv, Send
    PROVE  OutInv'
<1>1. PICK c \in Conn : c = slots[pos] /\ ~closed[c] /\ fd[c] # 0
  BY AtSlot
<1>2. PICK f : f = [type |-> "SNAPSHOT", room |-> cur]
  OBVIOUS
<1>3. Enqueue(c, f)
  BY <1>1, <1>2 DEF Send
<1>4. CASE CloseConn(c) /\ UNCHANGED <<wbuf, wantOut, got>>
  BY <1>1, <1>4, OutClosed DEF CloseConn
<1>5. CASE KeepOpen /\ UNCHANGED <<wbuf, wantOut, armed>>
  BY <1>5, OutQuiet DEF KeepOpen
<1>6. CASE wbuf' = [wbuf EXCEPT ![c] = <<f>>] /\ ArmOut(c) /\ KeepOpen
  <2>1. <<f>> # <<>>
    OBVIOUS
  <2> QED BY <1>1, <1>6, <2>1, OutQueued DEF KeepOpen
<1>7. CASE wbuf' = [wbuf EXCEPT ![c] = Append(@, f)] /\ ArmOut(c) /\ KeepOpen
  <2>1. PICK q : q = Append(wbuf[c], f)
    OBVIOUS
  <2>2. wbuf[c] \in Seq(Out)
    BY DEF EpollInv, TypeOK
  <2>3. q # <<>> /\ wbuf' = [wbuf EXCEPT ![c] = q]
    BY <1>7, <2>1, <2>2
  <2> QED BY <1>1, <1>7, <2>3, OutQueued DEF KeepOpen
<1> QED BY <1>1, <1>3, <1>4, <1>5, <1>6, <1>7 DEF Enqueue, EnqueueWrite, EnqueueBehind, Close

LEMMA OutStep ==
    ASSUME EpollInv, OnceInv, OutInv, [Next]_vars
    PROVE  OutInv'
<1>1. CASE HangUp \/ ReadEnd \/ ParseBad
  <2>1. PICK c \in Conn : c = Current /\ fd[c] # 0 /\ ~closed[c]
    BY <1>1, CurrentFacts DEF HangUp, ReadEnd, ParseBad, CurrentHas, Parsing, EpollInv, AtEvent
  <2>2. CloseConn(c) /\ UNCHANGED <<wbuf, wantOut>>
    BY <1>1, <2>1 DEF HangUp, ReadEnd, ParseBad
  <2> QED BY <2>1, <2>2, OutClosed DEF CloseConn
<1>2. CASE ParseJoin
  BY <1>2, OutJoin
<1>3. CASE Flush
  BY <1>3, OutFlush
<1>4. CASE Send
  BY <1>4, OutSend
<1>5. ASSUME NEW c \in Conn, Accept(c)
      PROVE  OutInv'
  BY <1>5, OutAccept
<1>6. CASE \/ EpollWait \/ EndBatch \/ AcceptDone \/ Stale \/ ReadSome \/ ParseMove \/ ParseShort
           \/ ParseDone \/ OnTick \/ StepEnd \/ TickEnd
           \/ \E r \in RoomId : Step(r)
  <2>1. UNCHANGED <<conns, armed, wbuf, wantOut, closed>>
    BY <1>6 DEF EpollWait, EndBatch, AcceptDone, Stale, ReadSome, ParseMove, ParseShort, ParseDone,
       OnTick, StepEnd, TickEnd, Step, workerVars, connVars
  <2> QED BY <2>1, OutQuiet
<1>7. ASSUME NEW d \in Conn,
             \/ Connect(d) \/ SendOther(d) \/ Leave(d)
             \/ \E r \in RoomId : SendJoin(d, r)
      PROVE  OutInv'
  <2>1. UNCHANGED <<conns, armed, wbuf, wantOut, closed>>
    BY <1>7 DEF Connect, SendOther, SendJoin, SendFrame, Leave, workerVars, connVars
  <2> QED BY <2>1, OutQuiet
<1>8. CASE UNCHANGED vars
  BY <1>8, OutQuiet DEF vars, workerVars, connVars
<1> QED BY <1>1, <1>2, <1>3, <1>4, <1>5, <1>6, <1>7, <1>8 DEF Next, Loop

LEMMA OutInit == Init => OutInv
BY DEF Init, OutInv, Wanted, OutArmed

(* As long as nobody joins twice, output that waits is waited for: EPOLLOUT *)
(* is armed for exactly the descriptors whose connection has something in  *)
(* its buffer.  A ghost that a second JOIN leaves behind would arm the     *)
(* descriptor of a stranger.                                               *)
THEOREM EpollOutArmed == ASSUME MaxJoin = 1 PROVE Spec => []OutArmed
<1>1. EpollInv /\ OnceInv /\ OutInv /\ [Next]_vars => OutInv'
  BY OutStep
<1>2. OutInv => OutArmed
  BY DEF OutInv
<1> QED BY <1>1, <1>2, OutInit, EpollInvariant, OnceInvariant, PTL DEF Spec

============================================================================
