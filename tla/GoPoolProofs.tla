---------------------------- MODULE GoPoolProofs ----------------------------
(***************************************************************************)
(* The pooled Go server never recycles a buffer that somebody still has,   *)
(* loses none, and implements the reference server.                        *)
(***************************************************************************)
EXTENDS GoPool, FiniteSetTheorems, TLAPS

-----------------------------------------------------------------------------
(* The maps of a room, and the types under each step of a reader or room.  *)

(* Adding a player to a room's map keeps it a map from player ids.         *)
LEMMA PutPidMap ==
    ASSUME NEW S, NEW f \in PidMap(S), NEW k \in Pid, NEW v \in S
    PROVE  Put(f, k, v) \in PidMap(S)
<1>1. PICK D \in SUBSET Pid : f \in [D -> S]
  BY DEF PidMap
<1>2. Put(f, k, v) \in [D \cup {k} -> S]
  BY <1>1 DEF Put
<1>3. D \cup {k} \in SUBSET Pid
  BY <1>1
<1> QED BY <1>2, <1>3 DEF PidMap

(* So does deleting one.                                                   *)
LEMMA DelPidMap ==
    ASSUME NEW S, NEW f \in PidMap(S), NEW k
    PROVE  Del(f, k) \in PidMap(S)
<1>1. PICK D \in SUBSET Pid : f \in [D -> S]
  BY DEF PidMap
<1>2. Del(f, k) \in [D \ {k} -> S]
  BY <1>1 DEF Del
<1>3. D \ {k} \in SUBSET Pid
  BY <1>1
<1> QED BY <1>2, <1>3 DEF PidMap

(* A room starts with empty maps.                                          *)
LEMMA EmptyPidMap == ASSUME NEW S PROVE Empty \in PidMap(S)
<1>1. Empty \in [{} -> S]
  BY DEF Empty
<1> QED BY <1>1 DEF PidMap

(* The ids in a map are player ids, its values what the map is for.        *)
LEMMA PidMapFacts ==
    ASSUME NEW S, NEW f \in PidMap(S)
    PROVE  /\ DOMAIN f \in SUBSET Pid
           /\ \A p \in DOMAIN f : f[p] \in S
BY DEF PidMap

LEMMA RoomTypeInit == RoomInit => RoomTypeOK
<1> SUFFICES ASSUME RoomInit PROVE RoomTypeOK
  OBVIOUS
<1>1. Empty \in PidMap(SeqNo) /\ Empty \in PidMap(Conn)
  BY EmptyPidMap
<1>2. 0 \in 0 .. MaxPid /\ 0 \in SeqNo
  BY RoomConstants DEF SeqNo
<1>3. \A r \in RoomId : <<>> \in Seq(Cmd)
  OBVIOUS
<1> QED BY <1>1, <1>2, <1>3 DEF RoomInit, RoomTypeOK, ReaderPc

(* The steps of a reader keep the types: its reads, ...                    *)
LEMMA ReadsType ==
    ASSUME RoomTypeOK, NEW c \in Conn,
           \/ \E r \in RoomId : ReadJoin(c, r)
           \/ ReadMove(c) \/ ReadError(c)
    PROVE  RoomTypeOK'
<1> USE RoomConstants DEF RoomTypeOK, ReaderPc, roomVars
<1>1. CASE \E r \in RoomId : ReadJoin(c, r)
  <2>1. PICK r \in RoomId : ReadJoin(c, r)
    BY <1>1
  <2>2. 0 \in 0 .. MaxPid
    OBVIOUS
  <2> QED BY <2>1, <2>2 DEF ReadJoin
<1>2. CASE ReadMove(c)
  <2>1. seq[c] + 1 \in SeqNo
    BY <1>2 DEF ReadMove, SeqNo
  <2> QED BY <1>2, <2>1 DEF ReadMove
<1>3. CASE ReadError(c)
  BY <1>3 DEF ReadError
<1> QED BY <1>1, <1>2, <1>3

(* ... its channel operations, ...                                         *)
LEMMA StepsType ==
    ASSUME RoomTypeOK, NEW c \in Conn,
           SendJoin(c) \/ SendMove(c) \/ SendLeave(c) \/ TakeReply(c) \/ Close(c)
    PROVE  RoomTypeOK'
<1>1. ASSUME NEW m \in Cmd, NEW next \in ReaderPc, Post(c, m, next)
      PROVE  RoomTypeOK'
  <2>1. inbox' \in [RoomId -> Seq(Cmd)]
    <3>1. ASSUME NEW r \in RoomId
          PROVE  Append(inbox[r], m) \in Seq(Cmd)
      BY DEF RoomTypeOK
    <3> QED BY <1>1, <3>1 DEF RoomTypeOK, Post
  <2>2. rd' \in [Conn -> ReaderPc]
    BY <1>1 DEF RoomTypeOK, Post
  <2> QED BY <1>1, <2>1, <2>2 DEF RoomTypeOK, Post
<1>2. CASE SendJoin(c)
  BY <1>1, <1>2 DEF SendJoin, Cmd, ReaderPc
<1>3. CASE SendMove(c)
  BY <1>1, <1>3 DEF SendMove, Cmd, ReaderPc, RoomTypeOK
<1>4. CASE SendLeave(c)
  BY <1>1, <1>4 DEF SendLeave, Cmd, ReaderPc, RoomTypeOK
<1>5. CASE TakeReply(c)
  <2>1. 0 \in 0 .. MaxPid
    BY RoomConstants
  <2> QED BY <1>5, <2>1 DEF TakeReply, RoomTypeOK, ReaderPc, roomVars
<1>6. CASE Close(c)
  BY <1>6 DEF Close, RoomTypeOK, ReaderPc, roomVars
<1> QED BY <1>2, <1>3, <1>4, <1>5, <1>6

(* ... and so do the commands a room applies.                              *)
LEMMA CommandsType ==
    ASSUME RoomTypeOK, NEW r \in RoomId,
           ApplyJoin(r) \/ ApplyMove(r) \/ ApplyLeave(r)
    PROVE  RoomTypeOK'
<1> DEFINE m == Head(inbox[r])
<1>1. inbox[r] \in Seq(Cmd) /\ inbox[r] # <<>> /\ inbox' = [inbox EXCEPT ![r] = Tail(@)]
  BY DEF RoomTypeOK, ApplyJoin, ApplyMove, ApplyLeave, Received
<1>2. m \in Cmd /\ inbox' \in [RoomId -> Seq(Cmd)]
  BY <1>1 DEF RoomTypeOK
<1> HIDE DEF m
<1>3. CASE ApplyJoin(r)
  <2>1. m.conn \in Conn
    BY <1>2, <1>3 DEF ApplyJoin, Received, Cmd, m
  <2>2. nextPlayerID + 1 \in Pid /\ 0 \in SeqNo
    BY <1>3, RoomConstants DEF ApplyJoin, SeqNo
  <2>3. nextPlayerID + 1 \in 0 .. MaxPid
    BY <2>2 DEF Pid
  <2>4. /\ Put(players[r], nextPlayerID + 1, 0) \in PidMap(SeqNo)
        /\ Put(conns[r], nextPlayerID + 1, m.conn) \in PidMap(Conn)
    BY <2>1, <2>2, PutPidMap DEF RoomTypeOK
  <2>5. /\ players' \in [RoomId -> PidMap(SeqNo)]
        /\ conns' \in [RoomId -> PidMap(Conn)]
    BY <1>3, <2>4 DEF ApplyJoin, RoomTypeOK, m
  <2> QED BY <1>2, <1>3, <2>1, <2>3, <2>5 DEF ApplyJoin, RoomTypeOK, m
<1>4. CASE ApplyMove(r)
  <2>1. m.seq \in SeqNo
    BY <1>2, <1>4 DEF ApplyMove, Received, Cmd, m
  <2>2. m.pid \in DOMAIN players[r] =>
          Put(players[r], m.pid, m.seq) \in PidMap(SeqNo)
    BY <2>1, PutPidMap, PidMapFacts DEF RoomTypeOK
  <2>3. players' \in [RoomId -> PidMap(SeqNo)]
    BY <1>4, <2>2 DEF ApplyMove, RoomTypeOK, m
  <2> QED BY <1>2, <1>4, <2>3 DEF ApplyMove, RoomTypeOK, readerVars, m
<1>5. CASE ApplyLeave(r)
  <2>1. /\ Del(players[r], m.pid) \in PidMap(SeqNo)
        /\ Del(conns[r], m.pid) \in PidMap(Conn)
    BY DelPidMap DEF RoomTypeOK
  <2>2. /\ players' \in [RoomId -> PidMap(SeqNo)]
        /\ conns' \in [RoomId -> PidMap(Conn)]
    BY <1>5, <2>1 DEF ApplyLeave, RoomTypeOK, m
  <2> QED BY <1>2, <1>5, <2>2 DEF ApplyLeave, RoomTypeOK, readerVars, m
<1> QED BY <1>3, <1>4, <1>5

-----------------------------------------------------------------------------

(* The channel operations on sequences.                                    *)
LEMMA AppendFacts ==
    ASSUME NEW S, NEW s \in Seq(S), NEW e \in S
    PROVE  /\ Append(s, e) \in Seq(S)
           /\ Len(Append(s, e)) = Len(s) + 1
           /\ \A i \in 1 .. Len(s) : Append(s, e)[i] = s[i]
           /\ Append(s, e)[Len(s) + 1] = e
OBVIOUS

LEMMA TailFacts ==
    ASSUME NEW S, NEW s \in Seq(S), s # <<>>
    PROVE  /\ Tail(s) \in Seq(S)
           /\ Len(Tail(s)) = Len(s) - 1
           /\ Len(s) \in Nat \ {0}
           /\ \A i \in 1 .. Len(s) - 1 : Tail(s)[i] = s[i + 1]
           /\ Head(s) \in S /\ Head(s) = s[1]
OBVIOUS

(* None of the records or buffers of the model is "nil".                   *)
LEMMA WriterFacts ==
    ASSUME TypeOK, NEW c \in Conn
    PROVE  /\ wr[c].pc \in {"idle", "exit", "write"}
           /\ wr[c].pc = "write" => wr[c].entry \in Entry
           /\ wr[c].pc = "write" => wr[c].entry.buf \in Buf /\ wr[c].entry.tok \in Token
BY DEF TypeOK, Idle, Exited, Entry

(* What the connections have is buffers. *)
LEMMA HandsFacts ==
    ASSUME TypeOK, NEW c \in Conn
    PROVE  /\ \A i \in Queue(c) : /\ send[c][i] \in Entry
                                  /\ send[c][i].buf \in Buf
                                  /\ send[c][i].tok \in Token
           /\ InHand(c) => wr[c].entry.buf \in Buf /\ wr[c].entry.tok \in Token
           /\ jbuf[c] # None => jbuf[c] \in Buf
<1>1. send[c] \in Seq(Entry)
  BY DEF TypeOK
<1>2. \A i \in Queue(c) : send[c][i] \in Entry
  BY <1>1 DEF Queue
<1>3. \A e \in Entry : e.buf \in Buf /\ e.tok \in Token
  BY DEF Entry
<1> QED BY <1>2, <1>3, WriterFacts DEF TypeOK, InHand

LEMMA BcastFacts ==
    ASSUME TypeOK, NEW r \in RoomId, bcast[r] # None
    PROVE  /\ bcast[r].buf \in Buf
           /\ bcast[r].todo \in SUBSET Pid
           /\ bcast[r].armed \in BOOLEAN
           /\ bcast[r] \in [buf : Buf, todo : SUBSET Pid, armed : BOOLEAN]
BY DEF TypeOK

LEMMA ConnsFacts ==
    ASSUME RoomTypeOK, NEW r \in RoomId
    PROVE  /\ DOMAIN conns[r] \in SUBSET Pid
           /\ \A p \in DOMAIN conns[r] : conns[r][p] \in Conn
BY PidMapFacts DEF RoomTypeOK

LEMMA PidFacts ==
    /\ Pid \subseteq Token
    /\ 0 \in Token
    /\ 0 \notin Pid
BY RoomConstants DEF Pid, Token

(* A snapshot and a JOINED reply are frames.                               *)
LEMMA FrameFacts ==
    ASSUME RoomTypeOK
    PROVE  /\ \A r \in RoomId : NextTick(tick[r]) \in Nat /\ Snapshot(r) \in Frame
           /\ \A c \in Conn : Joined(c) \in Frame
<1>1. \A r \in RoomId : NextTick(tick[r]) \in Nat
  BY DEF RoomTypeOK, NextTick
<1>2. \A r \in RoomId : Snapshot(r) \in Frame
  BY <1>1 DEF RoomTypeOK, Snapshot, Frame
<1>3. \A c \in Conn : Joined(c) \in Frame
  BY DEF RoomTypeOK, Joined, Frame
<1> QED BY <1>1, <1>2, <1>3

(* The actors' types do not depend on the buffers.                         *)
LEMMA ActorsUnchanged == RoomTypeOK /\ UNCHANGED actorVars => RoomTypeOK'
BY DEF RoomTypeOK, actorVars, roomVars, readerVars

LEMMA TypeInit == Init => TypeOK
<1> SUFFICES ASSUME Init PROVE TypeOK
  OBVIOUS
<1>1. RoomTypeOK
  BY RoomTypeInit DEF Init
<1> QED BY <1>1 DEF Init, TypeOK

(* Release keeps the types of what it changes.                             *)
LEMMA ReleaseType ==
    ASSUME TypeOK, NEW b \in Buf, NEW t \in Token, Release(b, t),
           b \in made
    PROVE  /\ ref' \in [Buf -> Int]
           /\ pool' \in SUBSET made
           /\ holders' \in [Buf -> SUBSET Token]
BY DEF TypeOK, Release

(* Buffers in somebody's hands have been allocated.                        *)
LEMMA HeldMade ==
    ASSUME TypeOK, FreeUnheld, NEW b \in Buf, holders[b] # {}
    PROVE  b \in made /\ b \notin pool
BY DEF TypeOK, FreeUnheld

LEMMA TypeStep == IndInv /\ [Work]_workVars => TypeOK'
<1> SUFFICES ASSUME IndInv, [Work]_workVars PROVE TypeOK'
  OBVIOUS
<1> USE DEF IndInv
<1>1. CASE UNCHANGED workVars
  BY <1>1, ActorsUnchanged DEF workVars, poolVars, TypeOK
<1>2. ASSUME NEW r \in RoomId, RunCmd(r) PROVE TypeOK'
  BY <1>2, CommandsType DEF RunCmd, poolVars, TypeOK
<1>3. ASSUME NEW r \in RoomId, EmptyStep(r) PROVE TypeOK'
  <2>1. RoomTypeOK'
    BY <1>3, FrameFacts DEF EmptyStep, TypeOK, RoomTypeOK, readerVars
  <2> QED BY <1>3, <2>1 DEF EmptyStep, poolVars, TypeOK
<1>4. ASSUME NEW r \in RoomId, StartStep(r) PROVE TypeOK'
  <2>1. RoomTypeOK'
    BY <1>4, FrameFacts DEF StartStep, TypeOK, RoomTypeOK, readerVars
  <2>2. PICK b \in Buf : /\ GetBuf(b, Snapshot(r))
                         /\ bcast' = [bcast EXCEPT ![r] =
                              [buf |-> b, todo |-> DOMAIN conns[r], armed |-> FALSE]]
    BY <1>4 DEF StartStep
  <2>3. Snapshot(r) \in Frame /\ DOMAIN conns[r] \in SUBSET Pid
    BY FrameFacts, ConnsFacts DEF TypeOK
  <2>4. bytes' \in [Buf -> Frame \cup {None}]
    BY <2>2, <2>3 DEF GetBuf, TypeOK
  <2>5. pool' \in SUBSET made' /\ made' \in SUBSET Buf
    BY <2>2 DEF GetBuf, TypeOK
  <2>6. bcast' \in [RoomId -> {None} \cup [buf : Buf, todo : SUBSET Pid, armed : BOOLEAN]]
    BY <2>2, <2>3 DEF TypeOK
  <2> QED BY <1>4, <2>1, <2>4, <2>5, <2>6 DEF StartStep, TypeOK
<1>5. ASSUME NEW r \in RoomId, SetRef(r) PROVE TypeOK'
  <2>1. RoomTypeOK'
    BY <1>5, ActorsUnchanged DEF SetRef, TypeOK
  <2>2. bcast[r].buf \in Buf /\ bcast[r] # None
    BY <1>5, BcastFacts DEF SetRef
  <2>3. DOMAIN conns[r] \in SUBSET Pid /\ DOMAIN conns[r] \in SUBSET Token
    BY ConnsFacts, PidFacts DEF TypeOK
  <2>4. Cardinality(DOMAIN conns[r]) \in Nat
    <3>1. IsFiniteSet(Pid)
      BY RoomConstants, FS_Interval DEF Pid
    <3> QED BY <2>3, <3>1, FS_Subset, FS_CardinalityType
  <2>5. ref' \in [Buf -> Int] /\ holders' \in [Buf -> SUBSET Token]
    BY <1>5, <2>2, <2>3, <2>4 DEF SetRef, TypeOK
  <2>6. bcast' \in [RoomId -> {None} \cup [buf : Buf, todo : SUBSET Pid, armed : BOOLEAN]]
    BY <1>5, <2>2, BcastFacts DEF SetRef, TypeOK
  <2> QED BY <1>5, <2>1, <2>5, <2>6 DEF SetRef, TypeOK
<1>6. ASSUME NEW r \in RoomId, NEW p \in DOMAIN conns[r], Offer(r, p) PROVE TypeOK'
  <2> DEFINE c == conns[r][p]
             b == bcast[r].buf
             todo == bcast[r].todo \ {p}
  <2>1. RoomTypeOK'
    BY <1>6, ActorsUnchanged DEF Offer, TypeOK
  <2>2. c \in Conn /\ p \in Pid /\ p \in Token
    BY ConnsFacts, PidFacts DEF TypeOK
  <2>3. /\ b \in Buf /\ bcast[r] # None /\ todo \in SUBSET Pid
        /\ bcast[r] \in [buf : Buf, todo : SUBSET Pid, armed : BOOLEAN]
    BY <1>6, BcastFacts DEF Offer
  <2>4. b \in made
    BY <1>6, <2>3, HeldMade DEF Offer, PlacesHold, Armed
  <2>5. bcast' \in [RoomId -> {None} \cup [buf : Buf, todo : SUBSET Pid, armed : BOOLEAN]]
    <3>1. bcast' = [bcast EXCEPT ![r] = IF todo = {} THEN None
                                         ELSE [bcast[r] EXCEPT !.todo = todo]]
      BY <1>6 DEF Offer
    <3>2. [bcast[r] EXCEPT !.todo = todo] \in [buf : Buf, todo : SUBSET Pid, armed : BOOLEAN]
      BY <2>3
    <3> HIDE DEF todo
    <3> QED BY <3>1, <3>2 DEF TypeOK
  <2>6. CASE Len(send[c]) < SendCap
    <3>0. Len(send[c]) \in Nat /\ SendCap \in Nat
      BY <2>2, PoolConstants DEF TypeOK
    <3>1. /\ send' = [send EXCEPT ![c] = Append(@, [buf |-> b, tok |-> p])]
          /\ UNCHANGED <<ref, pool, holders>>
      BY <1>6, <2>6, <3>0 DEF Offer
    <3>2. Append(send[c], [buf |-> b, tok |-> p]) \in Seq(Entry)
      BY <2>2, <2>3, AppendFacts DEF Entry, TypeOK
    <3>3. send' \in [Conn -> Seq(Entry)]
      BY <2>2, <3>1, <3>2 DEF TypeOK
    <3> QED BY <1>6, <2>1, <2>5, <3>1, <3>3 DEF Offer, TypeOK
  <2>7. CASE ~(Len(send[c]) < SendCap)
    <3>1. Release(b, p) /\ UNCHANGED send
      BY <1>6, <2>7, <2>2 DEF Offer, TypeOK
    <3>2. /\ ref' \in [Buf -> Int]
          /\ pool' \in SUBSET made
          /\ holders' \in [Buf -> SUBSET Token]
      BY <2>2, <2>3, <2>4, <3>1, ReleaseType
    <3> QED BY <1>6, <2>1, <2>5, <3>1, <3>2 DEF Offer, TypeOK
  <2> QED BY <2>6, <2>7
<1>7. ASSUME NEW c \in Conn, Read(c) PROVE TypeOK'
  <2>1. RoomTypeOK'
    BY <1>7, ReadsType DEF Read, TypeOK
  <2> QED BY <1>7, <2>1 DEF Read, poolVars, TypeOK
<1>8. ASSUME NEW c \in Conn, Step(c) PROVE TypeOK'
  <2>1. RoomTypeOK'
    BY <1>8, StepsType DEF Step, TypeOK
  <2> QED BY <1>8, <2>1 DEF Step, poolVars, TypeOK
<1>9. ASSUME NEW c \in Conn, MakeJoined(c) PROVE TypeOK'
  <2>1. RoomTypeOK'
    BY <1>9, ActorsUnchanged DEF MakeJoined, TypeOK
  <2>2. PICK b \in Buf : /\ GetBuf(b, Joined(c))
                         /\ ref' = [ref EXCEPT ![b] = 1]
                         /\ holders' = [holders EXCEPT ![b] = {0}]
                         /\ jbuf' = [jbuf EXCEPT ![c] = b]
    BY <1>9 DEF MakeJoined
  <2>3. Joined(c) \in Frame /\ {0} \in SUBSET Token
    BY FrameFacts, PidFacts DEF TypeOK
  <2>4. bytes' \in [Buf -> Frame \cup {None}]
    BY <2>2, <2>3 DEF GetBuf, TypeOK
  <2>5. pool' \in SUBSET made' /\ made' \in SUBSET Buf
    BY <2>2 DEF GetBuf, TypeOK
  <2>6. /\ ref' \in [Buf -> Int]
        /\ holders' \in [Buf -> SUBSET Token]
        /\ jbuf' \in [Conn -> Buf \cup {None}]
    BY <2>2, <2>3 DEF TypeOK
  <2> QED BY <1>9, <2>1, <2>4, <2>5, <2>6 DEF MakeJoined, TypeOK
<1>10. ASSUME NEW c \in Conn, SendJoined(c) PROVE TypeOK'
  <2>1. RoomTypeOK'
    BY <1>10 DEF SendJoined, TypeOK, RoomTypeOK, roomVars, ReaderPc
  <2>2. [buf |-> jbuf[c], tok |-> 0] \in Entry
    BY <1>10, PidFacts DEF SendJoined, TypeOK, Entry
  <2>3. send' \in [Conn -> Seq(Entry)]
    BY <1>10, <2>2, AppendFacts DEF SendJoined, TypeOK
  <2> QED BY <1>10, <2>1, <2>3 DEF SendJoined, TypeOK
<1>11. ASSUME NEW c \in Conn, Drop(c) PROVE TypeOK'
  <2>1. RoomTypeOK'
    BY <1>11 DEF Drop, Disconnect, TypeOK, RoomTypeOK, roomVars
  <2> QED BY <1>11, <2>1 DEF Drop, poolVars, TypeOK
<1>12. ASSUME NEW c \in Conn, WriterTake(c) PROVE TypeOK'
  <2>1. RoomTypeOK'
    BY <1>12, ActorsUnchanged DEF WriterTake, TypeOK
  <2>2. Head(send[c]) \in Entry /\ Tail(send[c]) \in Seq(Entry)
    BY <1>12, TailFacts DEF WriterTake, TypeOK
  <2> QED BY <1>12, <2>1, <2>2 DEF WriterTake, TypeOK, Writing
<1>13. ASSUME NEW c \in Conn, WriteRelease(c) PROVE TypeOK'
  <2>1. RoomTypeOK'
    BY <1>13, ActorsUnchanged DEF WriteRelease, TypeOK
  <2>2. wr[c].entry.buf \in Buf /\ wr[c].entry.tok \in Token
    BY <1>13, WriterFacts DEF WriteRelease
  <2>3. wr[c].entry.buf \in made
    BY <1>13, <2>2, HeldMade DEF WriteRelease, PlacesHold, InHand
  <2>4. /\ ref' \in [Buf -> Int]
        /\ pool' \in SUBSET made
        /\ holders' \in [Buf -> SUBSET Token]
    BY <1>13, <2>2, <2>3, ReleaseType DEF WriteRelease
  <2>5. wr' \in [Conn -> {Idle, Exited} \cup [pc : {"write"}, entry : Entry]]
    BY <1>13 DEF WriteRelease, TypeOK
  <2> QED BY <1>13, <2>1, <2>4, <2>5 DEF WriteRelease, TypeOK
<1>14. ASSUME NEW c \in Conn, WriterDone(c) PROVE TypeOK'
  <2>1. RoomTypeOK'
    BY <1>14, ActorsUnchanged DEF WriterDone, TypeOK
  <2> QED BY <1>14, <2>1 DEF WriterDone, TypeOK
<1> QED
  BY <1>1, <1>2, <1>3, <1>4, <1>5, <1>6, <1>7, <1>8, <1>9, <1>10, <1>11, <1>12,
     <1>13, <1>14 DEF Work

-----------------------------------------------------------------------------
(* The parts of the invariant that are about buffers.                      *)
PoolParts ==
    /\ CountExact
    /\ FreeUnheld
    /\ PlacesHold
    /\ BcastShape
    /\ QueueOnce
    /\ BcastOnce
    /\ ReaderOnce

LEMMA PartsOfIndInv == IndInv <=> TypeOK /\ PoolParts /\ up \in BOOLEAN
BY DEF IndInv, PoolParts

LEMMA PoolInit == Init => PoolParts
<1> SUFFICES ASSUME Init PROVE PoolParts
  OBVIOUS
<1>1. \A b \in Buf : ref[b] = 0 /\ holders[b] = {}
  BY DEF Init
<1>2. CountExact
  BY <1>1, FS_EmptySet DEF CountExact
<1>3. FreeUnheld
  BY <1>1 DEF FreeUnheld
<1>4. \A c \in Conn : Queue(c) = {} /\ ~InHand(c) /\ jbuf[c] = None
  BY DEF Init, Queue, InHand, Idle
<1>5. \A r \in RoomId : bcast[r] = None
  BY DEF Init
<1>6. PlacesHold
  BY <1>4, <1>5 DEF PlacesHold, Armed
<1>7. BcastShape
  BY <1>5 DEF BcastShape
<1>8. QueueOnce
  BY <1>4 DEF QueueOnce
<1>9. BcastOnce
  BY <1>5 DEF BcastOnce, Armed
<1>10. ReaderOnce
  BY <1>4 DEF ReaderOnce
<1> QED BY <1>2, <1>3, <1>6, <1>7, <1>8, <1>9, <1>10 DEF PoolParts

(* A buffer without references is in nobody's hands, save for a broadcast  *)
(* that has not set its count yet.                                         *)
LEMMA UnheldIsUnused ==
    ASSUME IndInv, NEW b \in Buf, holders[b] = {}
    PROVE  /\ \A c \in Conn : \A i \in Queue(c) : send[c][i].buf # b
           /\ \A c \in Conn : InHand(c) => wr[c].entry.buf # b
           /\ \A c \in Conn : jbuf[c] # b
           /\ \A r \in RoomId : Armed(r) => bcast[r].buf # b
<1>1. \A r \in RoomId : Armed(r) => bcast[r].buf # b
  BY DEF IndInv, PlacesHold, BcastShape, Armed
<1>2. \A c \in Conn : jbuf[c] # b
  BY PoolConstants DEF IndInv, PlacesHold
<1> QED BY <1>1, <1>2 DEF IndInv, PlacesHold

(* The references to a buffer are finitely many.                           *)
LEMMA HoldersFinite ==
    ASSUME TypeOK, NEW b \in Buf
    PROVE  IsFiniteSet(holders[b]) /\ Cardinality(holders[b]) \in Nat
<1>1. IsFiniteSet(Token)
  BY RoomConstants, FS_Interval DEF Token
<1> QED BY <1>1, FS_Subset, FS_CardinalityType DEF TypeOK

(* Releasing a reference that is held keeps the counts exact, and returns  *)
(* the buffer to the pool only with the last reference.                    *)
LEMMA ReleaseCounts ==
    ASSUME IndInv, NEW b \in Buf, NEW t \in holders[b], Release(b, t), made' = made
    PROVE  CountExact' /\ FreeUnheld'
<1>1. /\ IsFiniteSet(holders[b]) /\ Cardinality(holders[b]) \in Nat
      /\ Cardinality(holders[b] \ {t}) = Cardinality(holders[b]) - 1
      /\ IsFiniteSet(holders[b] \ {t})
  BY HoldersFinite, FS_RemoveElement DEF IndInv
<1>2. holders' = [holders EXCEPT ![b] = holders[b] \ {t}] /\ ref' = [ref EXCEPT ![b] = ref[b] - 1]
  BY DEF Release
<1>3. CountExact'
  BY <1>1, <1>2 DEF IndInv, TypeOK, CountExact
<1>4. pool' = pool \/ (pool' = pool \cup {b} /\ holders'[b] = {})
  <2>1. ref[b] = Cardinality(holders[b])
    BY DEF IndInv, CountExact
  <2>2. ref[b] - 1 = 0 => holders[b] \ {t} = {}
    BY <1>1, <2>1, FS_EmptySet
  <2> QED BY <2>2, <1>2 DEF Release, IndInv, TypeOK
<1>5. \A x \in Buf : holders[x] = {} => holders'[x] = {}
  BY <1>2 DEF IndInv, TypeOK
<1>6. FreeUnheld'
  BY <1>4, <1>5 DEF IndInv, FreeUnheld
<1> QED BY <1>3, <1>6

(* Steps that touch neither buffers nor the connections of a room in the   *)
(* middle of its broadcast.                                                *)
LEMMA OtherSteps ==
    ASSUME IndInv, UNCHANGED poolVars,
           \A r \in RoomId : bcast[r] # None => conns'[r] = conns[r]
    PROVE  PoolParts'
<1> USE DEF IndInv, poolVars
<1>1. CountExact' /\ FreeUnheld'
  BY DEF CountExact, FreeUnheld
<1>2. PlacesHold'
  BY DEF PlacesHold, Queue, InHand, Armed
<1>3. BcastShape'
  BY DEF BcastShape
<1>4. QueueOnce'
  BY DEF QueueOnce, Queue, InHand
<1>5. BcastOnce'
  BY DEF BcastOnce, Queue, InHand, Armed
<1>6. ReaderOnce'
  BY DEF ReaderOnce, Queue, InHand
<1> QED BY <1>1, <1>2, <1>3, <1>4, <1>5, <1>6 DEF PoolParts

-----------------------------------------------------------------------------
(* Taking a buffer for a snapshot.                                         *)
LEMMA StartStepInv ==
    ASSUME IndInv, TypeOK', NEW r \in RoomId, StartStep(r)
    PROVE  PoolParts'
<1>1. PICK b \in Buf : /\ GetBuf(b, Snapshot(r))
                       /\ bcast' = [bcast EXCEPT ![r] =
                            [buf |-> b, todo |-> DOMAIN conns[r], armed |-> FALSE]]
  BY DEF StartStep
<1>2. /\ bcast[r] = None /\ conns[r] # Empty /\ conns' = conns
      /\ UNCHANGED <<ref, send, wr, jbuf, holders>>
  BY DEF StartStep
<1>3. /\ b \in pool \/ b \notin made
      /\ pool' = pool \ {b} /\ made' = made \cup {b}
      /\ holders[b] = {}
  BY <1>1 DEF GetBuf, IndInv, FreeUnheld
<1>4. /\ bcast'[r] = [buf |-> b, todo |-> DOMAIN conns[r], armed |-> FALSE]
      /\ \A s \in RoomId : s # r => bcast'[s] = bcast[s]
  BY <1>1 DEF IndInv, TypeOK
<1>5. /\ bcast'[r].buf = b /\ bcast'[r].todo = DOMAIN conns[r] /\ ~bcast'[r].armed
      /\ ~Armed(r)'
  BY <1>4 DEF Armed
<1>6. DOMAIN conns[r] # {}
  <2>1. PICK D \in SUBSET Pid : conns[r] \in [D -> Conn]
    BY DEF IndInv, TypeOK, RoomTypeOK, PidMap
  <2>2. D = {} => conns[r] = Empty
    BY <2>1 DEF Empty
  <2> QED BY <1>2, <2>1, <2>2
<1>7. \A s \in RoomId : Armed(s)' => Armed(s) /\ bcast'[s] = bcast[s]
  BY <1>4, <1>5 DEF Armed
<1>8. CountExact'
  BY <1>2 DEF IndInv, CountExact
<1>9. FreeUnheld'
  BY <1>2, <1>3 DEF IndInv, FreeUnheld
<1>10. PlacesHold'
  BY <1>2, <1>7 DEF IndInv, PlacesHold, Queue, InHand
<1>11. BcastShape'
  BY <1>2, <1>3, <1>4, <1>5, <1>6 DEF IndInv, BcastShape
<1>12. QueueOnce'
  BY <1>2 DEF IndInv, QueueOnce, Queue, InHand
<1>13. \A s \in RoomId : s # r /\ bcast[s] # None => bcast[s].buf # b
  BY <1>3, UnheldIsUnused DEF IndInv, BcastShape, Armed
<1>14. BcastOnce'
  BY <1>2, <1>4, <1>5, <1>7, <1>13 DEF IndInv, BcastOnce, Queue, InHand
<1>15. ReaderOnce'
  BY <1>2 DEF IndInv, ReaderOnce, Queue, InHand
<1> QED BY <1>8, <1>9, <1>10, <1>11, <1>12, <1>14, <1>15 DEF PoolParts

(* Setting the count before the first enqueue.                             *)
LEMMA SetRefInv ==
    ASSUME IndInv, TypeOK', NEW r \in RoomId, SetRef(r)
    PROVE  PoolParts'
<1> DEFINE b == bcast[r].buf
<1>1. /\ bcast[r] # None /\ ~bcast[r].armed /\ conns' = conns
      /\ UNCHANGED <<pool, made, send, wr, jbuf>>
  BY DEF SetRef, actorVars, roomVars
<1>2. /\ b \in Buf /\ holders[b] = {} /\ b \in made \ pool
      /\ bcast[r].todo = DOMAIN conns[r] /\ bcast[r].todo # {}
  BY <1>1, BcastFacts DEF IndInv, BcastShape
<1>3. /\ ref' = [ref EXCEPT ![b] = Cardinality(DOMAIN conns[r])]
      /\ holders' = [holders EXCEPT ![b] = DOMAIN conns[r]]
  BY DEF SetRef
<1>4. /\ bcast'[r].buf = b /\ bcast'[r].todo = bcast[r].todo /\ bcast'[r].armed
      /\ bcast'[r] # None
      /\ \A s \in RoomId : s # r => bcast'[s] = bcast[s]
  <2>1. bcast' = [bcast EXCEPT ![r] = [bcast[r] EXCEPT !.armed = TRUE]]
    BY DEF SetRef
  <2>2. bcast'[r] = [bcast[r] EXCEPT !.armed = TRUE]
    BY <2>1 DEF IndInv, TypeOK
  <2>3. bcast'[r].buf = b /\ bcast'[r].todo = bcast[r].todo /\ bcast'[r].armed
    BY <1>1, <2>2, BcastFacts DEF IndInv
  <2>4. \A s \in RoomId : s # r => bcast'[s] = bcast[s]
    BY <2>1 DEF IndInv, TypeOK
  <2>5. bcast'[r] # None
    <3>1. bcast'[r] \in [buf : Buf, todo : SUBSET Pid, armed : BOOLEAN]
      BY <1>1, <2>2, BcastFacts DEF IndInv
    <3> QED BY <3>1, PoolConstants
  <2> QED BY <2>3, <2>4, <2>5
<1>5. /\ holders'[b] = bcast[r].todo
      /\ \A x \in Buf : x # b => holders'[x] = holders[x] /\ ref'[x] = ref[x]
      /\ ref'[b] = Cardinality(holders'[b])
  BY <1>2, <1>3 DEF IndInv, TypeOK
<1>6. /\ \A c \in Conn : \A i \in Queue(c) : send[c][i].buf # b
      /\ \A c \in Conn : InHand(c) => wr[c].entry.buf # b
      /\ \A c \in Conn : jbuf[c] # b
      /\ \A s \in RoomId : Armed(s) => bcast[s].buf # b
  BY <1>2, UnheldIsUnused
<1>7. \A s \in RoomId : s # r /\ bcast[s] # None => bcast[s].buf # b /\ bcast[s].buf \in Buf
  BY <1>1, BcastFacts DEF IndInv, BcastOnce
<1>8. \A c \in Conn : /\ \A i \in Queue(c) : send[c][i].buf \in Buf
                      /\ InHand(c) => wr[c].entry.buf \in Buf
                      /\ jbuf[c] # None => jbuf[c] \in Buf
  BY HandsFacts DEF IndInv
<1> HIDE DEF b
<1>9. CountExact'
  BY <1>5 DEF IndInv, CountExact
<1>10. FreeUnheld'
  BY <1>1, <1>2, <1>5 DEF IndInv, FreeUnheld
<1>11. PlacesHold'
  <2>1. \A c \in Conn : \A i \in Queue(c) : send[c][i].tok \in holders'[send[c][i].buf]
    BY <1>5, <1>6, <1>8 DEF IndInv, PlacesHold
  <2>2. \A c \in Conn : InHand(c) => wr[c].entry.tok \in holders'[wr[c].entry.buf]
    BY <1>5, <1>6, <1>8 DEF IndInv, PlacesHold
  <2>3. \A c \in Conn : jbuf[c] # None => 0 \in holders'[jbuf[c]]
    BY <1>5, <1>6, <1>8 DEF IndInv, PlacesHold
  <2>4. \A s \in RoomId : Armed(s)' => bcast'[s].todo \subseteq holders'[bcast'[s].buf]
    BY <1>4, <1>5, <1>7 DEF IndInv, PlacesHold, Armed
  <2> QED BY <1>1, <2>1, <2>2, <2>3, <2>4 DEF PlacesHold, Queue, InHand
<1>12. BcastShape'
  BY <1>1, <1>2, <1>4, <1>5, <1>7 DEF IndInv, BcastShape
<1>13. QueueOnce'
  BY <1>1 DEF IndInv, QueueOnce, Queue, InHand
<1>14. BcastOnce'
  BY <1>1, <1>4, <1>6, <1>7 DEF IndInv, BcastOnce, Queue, InHand, Armed
<1>15. ReaderOnce'
  BY <1>1 DEF IndInv, ReaderOnce, Queue, InHand
<1> QED BY <1>9, <1>10, <1>11, <1>12, <1>13, <1>14, <1>15 DEF PoolParts

(* One turn of the broadcast loop.  The reference named p moves from the   *)
(* broadcast into the channel, or is released.                             *)
LEMMA OfferInv ==
    ASSUME IndInv, TypeOK', NEW r \in RoomId, NEW p \in DOMAIN conns[r], Offer(r, p)
    PROVE  PoolParts'
<1> DEFINE k == conns[r][p]
           b == bcast[r].buf
           todo == bcast[r].todo \ {p}
           e == [buf |-> b, tok |-> p]
<1>1. /\ Armed(r) /\ bcast[r] # None /\ p \in bcast[r].todo /\ conns' = conns
      /\ UNCHANGED <<made, wr, jbuf>>
  BY DEF Offer, Armed, actorVars, roomVars
<1>2. /\ k \in Conn /\ p \in Pid /\ p \in Token /\ p # 0
      /\ b \in Buf /\ p \in holders[b] /\ e \in Entry
      /\ e.buf = b /\ e.tok = p
  <2>1. k \in Conn /\ p \in Pid /\ p \in Token /\ p # 0
    BY ConnsFacts, PidFacts DEF IndInv, TypeOK
  <2>2. b \in Buf /\ p \in holders[b]
    BY <1>1, BcastFacts DEF IndInv, PlacesHold
  <2> QED BY <2>1, <2>2 DEF Entry
<1>3. /\ bcast'[r] = None \/ (/\ bcast'[r].buf = b /\ bcast'[r].todo = todo
                             /\ todo # {} /\ bcast'[r].armed)
      /\ \A s \in RoomId : s # r => bcast'[s] = bcast[s]
  <2>1. bcast' = [bcast EXCEPT ![r] = IF todo = {} THEN None
                                      ELSE [bcast[r] EXCEPT !.todo = todo]]
    BY DEF Offer
  <2>2. \A s \in RoomId : s # r => bcast'[s] = bcast[s]
    BY <2>1 DEF IndInv, TypeOK
  <2>3. bcast'[r] = IF todo = {} THEN None ELSE [bcast[r] EXCEPT !.todo = todo]
    BY <2>1 DEF IndInv, TypeOK
  <2>4. todo # {} => bcast'[r].buf = b /\ bcast'[r].todo = todo /\ bcast'[r].armed
    BY <2>3, <1>1, BcastFacts DEF IndInv, Armed
  <2> HIDE DEF todo
  <2> QED BY <2>2, <2>3, <2>4
<1>4. \A s \in RoomId : s # r /\ bcast[s] # None => bcast[s].buf # b /\ bcast[s].buf \in Buf
  BY <1>1, BcastFacts DEF IndInv, BcastOnce
<1>5. /\ \A c \in Conn : \A i \in Queue(c) : send[c][i].buf = b => send[c][i].tok # p
      /\ \A c \in Conn : InHand(c) /\ wr[c].entry.buf = b => wr[c].entry.tok # p
  BY <1>1 DEF IndInv, BcastOnce
<1>6. \A c \in Conn : /\ \A i \in Queue(c) : send[c][i].buf \in Buf
                      /\ InHand(c) => wr[c].entry.buf \in Buf
                      /\ jbuf[c] # None => jbuf[c] \in Buf
  BY HandsFacts DEF IndInv
<1>7. /\ todo \subseteq holders[b] /\ p \notin todo /\ todo \subseteq bcast[r].todo
      /\ bcast[r].buf = b
  BY <1>1 DEF IndInv, PlacesHold
<1>8. /\ \A c \in Conn : InHand(c)' <=> InHand(c)
      /\ \A s \in RoomId : s # r => (Armed(s)' <=> Armed(s))
  BY <1>1, <1>3 DEF InHand, Armed
<1>9. bcast[r].todo \subseteq DOMAIN conns[r]
  BY <1>1 DEF IndInv, BcastShape
<1> HIDE DEF k, b, todo, e
<1>10. CASE Len(send[k]) < SendCap
  <2>0. Len(send[k]) \in Nat /\ SendCap \in Nat
    BY <1>2, PoolConstants DEF IndInv, TypeOK
  <2>1. /\ send' = [send EXCEPT ![k] = Append(send[k], e)]
        /\ UNCHANGED <<ref, pool, holders>>
    BY <1>10, <2>0 DEF Offer, k, b, e
  <2>2. send[k] \in Seq(Entry)
    BY <1>2 DEF IndInv, TypeOK
  <2>3. /\ \A c \in Conn : c # k => send'[c] = send[c]
        /\ send'[k] = Append(send[k], e)
    BY <1>2, <2>1 DEF IndInv, TypeOK
  <2>4. \A c \in Conn : \A i \in Queue(c)' :
          \/ i \in Queue(c) /\ send'[c][i] = send[c][i]
          \/ c = k /\ i = Len(send[k]) + 1 /\ send'[c][i] = e
    BY <1>2, <2>0, <2>2, <2>3, AppendFacts DEF Queue
  <2>5. CountExact' /\ FreeUnheld'
    BY <1>1, <2>1 DEF IndInv, CountExact, FreeUnheld
  <2>6. PlacesHold'
    <3>1. \A c \in Conn : \A i \in Queue(c)' : send'[c][i].tok \in holders[send'[c][i].buf]
      BY <1>2, <2>4 DEF IndInv, PlacesHold
    <3>2. \A s \in RoomId : Armed(s)' => bcast'[s].todo \subseteq holders[bcast'[s].buf]
      BY <1>3, <1>7, <1>8 DEF IndInv, PlacesHold, Armed
    <3> QED BY <1>1, <1>8, <2>1, <3>1, <3>2 DEF IndInv, PlacesHold
  <2>7. BcastShape'
    BY <1>1, <1>3, <1>7, <1>9, <2>1 DEF IndInv, BcastShape
  <2>8. QueueOnce'
    <3>1. ASSUME NEW c \in Conn, NEW d \in Conn, NEW i \in Queue(c)', NEW j \in Queue(d)',
                 send'[c][i].buf = send'[d][j].buf, send'[c][i].tok = send'[d][j].tok
          PROVE  c = d /\ i = j
      BY <3>1, <1>2, <1>5, <2>4 DEF IndInv, QueueOnce
    <3>2. ASSUME NEW c \in Conn, NEW d \in Conn, NEW i \in Queue(c)', InHand(d),
                 send'[c][i].buf = wr[d].entry.buf
          PROVE  send'[c][i].tok # wr[d].entry.tok
      BY <3>2, <1>2, <1>5, <2>4 DEF IndInv, QueueOnce
    <3> QED BY <1>1, <1>8, <3>1, <3>2 DEF IndInv, QueueOnce
  <2>9. BcastOnce'
    <3>1. \A s, t \in RoomId :
            s # t /\ bcast'[s] # None /\ bcast'[t] # None => bcast'[s].buf # bcast'[t].buf
      BY <1>3, <1>4 DEF IndInv, BcastOnce
    <3>2. ASSUME NEW s \in RoomId, NEW c \in Conn, NEW i \in Queue(c)',
                 Armed(s)', send'[c][i].buf = bcast'[s].buf
          PROVE  send'[c][i].tok \notin bcast'[s].todo
      <4>1. CASE s = r
        BY <4>1, <3>2, <1>1, <1>2, <1>3, <1>7, <2>4 DEF IndInv, BcastOnce, Armed
      <4>2. CASE s # r
        BY <4>2, <3>2, <1>2, <1>3, <1>4, <1>8, <2>4 DEF IndInv, BcastOnce, Armed
      <4> QED BY <4>1, <4>2
    <3>3. ASSUME NEW s \in RoomId, NEW c \in Conn,
                 Armed(s)', InHand(c), wr[c].entry.buf = bcast'[s].buf
          PROVE  wr[c].entry.tok \notin bcast'[s].todo
      BY <3>3, <1>1, <1>3, <1>7, <1>8 DEF IndInv, BcastOnce, Armed
    <3> QED BY <1>1, <1>8, <3>1, <3>2, <3>3 DEF BcastOnce
  <2>10. ReaderOnce'
    <3>1. ASSUME NEW c \in Conn, NEW d \in Conn, NEW i \in Queue(d)',
                 jbuf[c] # None, send'[d][i].buf = jbuf[c]
          PROVE  send'[d][i].tok # 0
      BY <3>1, <1>2, <2>4 DEF IndInv, ReaderOnce
    <3> QED BY <1>1, <1>8, <3>1 DEF IndInv, ReaderOnce
  <2> QED BY <2>5, <2>6, <2>7, <2>8, <2>9, <2>10 DEF PoolParts
<1>11. CASE ~(Len(send[k]) < SendCap)
  <2>1. Release(b, p) /\ send' = send
    BY <1>11 DEF Offer, k, b
  <2>2. CountExact' /\ FreeUnheld'
    BY <1>1, <1>2, <2>1, ReleaseCounts
  <2>3. /\ holders'[b] = holders[b] \ {p}
        /\ \A x \in Buf : x # b => holders'[x] = holders[x]
    BY <1>2, <2>1 DEF Release, IndInv, TypeOK
  <2>4. \A c \in Conn : Queue(c)' = Queue(c)
    BY <2>1 DEF Queue
  <2>5. PlacesHold'
    <3>1. \A c \in Conn : \A i \in Queue(c) : send[c][i].tok \in holders'[send[c][i].buf]
      BY <1>5, <1>6, <2>3 DEF IndInv, PlacesHold
    <3>2. \A c \in Conn : InHand(c) => wr[c].entry.tok \in holders'[wr[c].entry.buf]
      BY <1>5, <1>6, <2>3 DEF IndInv, PlacesHold
    <3>3. \A c \in Conn : jbuf[c] # None => 0 \in holders'[jbuf[c]]
      BY <1>2, <1>6, <2>3 DEF IndInv, PlacesHold
    <3>4. \A s \in RoomId : Armed(s)' => bcast'[s].todo \subseteq holders'[bcast'[s].buf]
      BY <1>3, <1>4, <1>7, <1>8, <2>3 DEF IndInv, PlacesHold, Armed
    <3> QED BY <1>1, <1>8, <2>1, <2>4, <3>1, <3>2, <3>3, <3>4 DEF PlacesHold
  <2>6. BcastShape'
    <3>1. \A s \in RoomId : bcast'[s] # None /\ ~bcast'[s].armed =>
            /\ s # r /\ holders'[bcast'[s].buf] = {} /\ bcast'[s].buf \in made \ pool'
            /\ bcast'[s].todo = DOMAIN conns[s]
      BY <1>3, <1>4, <2>1, <2>3 DEF IndInv, BcastShape, Release
    <3> QED BY <1>1, <1>3, <1>7, <1>9, <3>1 DEF IndInv, BcastShape
  <2>7. QueueOnce'
    BY <1>1, <1>8, <2>1, <2>4 DEF IndInv, QueueOnce
  <2>8. BcastOnce'
    <3>1. \A s, t \in RoomId :
            s # t /\ bcast'[s] # None /\ bcast'[t] # None => bcast'[s].buf # bcast'[t].buf
      BY <1>3, <1>4 DEF IndInv, BcastOnce
    <3>2. \A s \in RoomId, c \in Conn : \A i \in Queue(c) :
            Armed(s)' /\ send[c][i].buf = bcast'[s].buf => send[c][i].tok \notin bcast'[s].todo
      BY <1>1, <1>3, <1>7, <1>8 DEF IndInv, BcastOnce, Armed
    <3>3. \A s \in RoomId, c \in Conn :
            Armed(s)' /\ InHand(c) /\ wr[c].entry.buf = bcast'[s].buf
              => wr[c].entry.tok \notin bcast'[s].todo
      BY <1>1, <1>3, <1>7, <1>8 DEF IndInv, BcastOnce, Armed
    <3> QED BY <1>1, <1>8, <2>1, <2>4, <3>1, <3>2, <3>3 DEF BcastOnce
  <2>9. ReaderOnce'
    BY <1>1, <1>8, <2>1, <2>4 DEF IndInv, ReaderOnce
  <2> QED BY <2>2, <2>5, <2>6, <2>7, <2>8, <2>9 DEF PoolParts
<1> QED BY <1>10, <1>11

(* The reader's buffer for JOINED: taken from the pool with a count of one. *)
LEMMA MakeJoinedInv ==
    ASSUME IndInv, TypeOK', NEW k \in Conn, MakeJoined(k)
    PROVE  PoolParts'
<1>1. PICK b \in Buf : /\ GetBuf(b, Joined(k))
                       /\ ref' = [ref EXCEPT ![b] = 1]
                       /\ holders' = [holders EXCEPT ![b] = {0}]
                       /\ jbuf' = [jbuf EXCEPT ![k] = b]
  BY DEF MakeJoined
<1>2. jbuf[k] = None /\ conns' = conns /\ UNCHANGED <<send, wr, bcast>>
  BY DEF MakeJoined, actorVars, roomVars
<1>3. /\ b \in pool \/ b \notin made
      /\ pool' = pool \ {b} /\ made' = made \cup {b}
      /\ holders[b] = {}
  BY <1>1 DEF GetBuf, IndInv, FreeUnheld
<1>4. /\ holders'[b] = {0} /\ ref'[b] = 1 /\ jbuf'[k] = b
      /\ \A x \in Buf : x # b => holders'[x] = holders[x] /\ ref'[x] = ref[x]
      /\ \A c \in Conn : c # k => jbuf'[c] = jbuf[c]
  BY <1>1 DEF IndInv, TypeOK
<1>5. /\ \A c \in Conn : \A i \in Queue(c) : send[c][i].buf # b
      /\ \A c \in Conn : InHand(c) => wr[c].entry.buf # b
      /\ \A c \in Conn : jbuf[c] # b
      /\ \A s \in RoomId : Armed(s) => bcast[s].buf # b
  BY <1>3, UnheldIsUnused
<1>6. \A s \in RoomId : bcast[s] # None => bcast[s].buf # b /\ bcast[s].buf \in Buf
  BY <1>3, <1>5, BcastFacts DEF IndInv, BcastShape, Armed
<1>7. \A c \in Conn : /\ \A i \in Queue(c) : send[c][i].buf \in Buf
                      /\ InHand(c) => wr[c].entry.buf \in Buf
                      /\ jbuf[c] # None => jbuf[c] \in Buf
  BY HandsFacts DEF IndInv
<1>8. /\ \A c \in Conn : Queue(c)' = Queue(c) /\ (InHand(c)' <=> InHand(c))
      /\ \A s \in RoomId : Armed(s)' <=> Armed(s)
  BY <1>2 DEF Queue, InHand, Armed
<1>9. CountExact'
  <2>1. Cardinality({0}) = 1
    BY FS_Singleton
  <2> QED BY <1>4, <2>1 DEF IndInv, CountExact
<1>10. FreeUnheld'
  BY <1>3, <1>4 DEF IndInv, FreeUnheld
<1>11. PlacesHold'
  <2>1. \A c \in Conn : \A i \in Queue(c) : send[c][i].tok \in holders'[send[c][i].buf]
    BY <1>4, <1>5, <1>7 DEF IndInv, PlacesHold
  <2>2. \A c \in Conn : InHand(c) => wr[c].entry.tok \in holders'[wr[c].entry.buf]
    BY <1>4, <1>5, <1>7 DEF IndInv, PlacesHold
  <2>3. \A c \in Conn : jbuf'[c] # None => 0 \in holders'[jbuf'[c]]
    BY <1>4, <1>5, <1>7 DEF IndInv, PlacesHold
  <2>4. \A s \in RoomId : Armed(s) => bcast[s].todo \subseteq holders'[bcast[s].buf]
    BY <1>4, <1>6 DEF IndInv, PlacesHold, Armed
  <2> QED BY <1>2, <1>8, <2>1, <2>2, <2>3, <2>4 DEF PlacesHold
<1>12. BcastShape'
  BY <1>2, <1>3, <1>4, <1>6 DEF IndInv, BcastShape
<1>13. QueueOnce'
  BY <1>2, <1>8 DEF IndInv, QueueOnce
<1>14. BcastOnce'
  BY <1>2, <1>8 DEF IndInv, BcastOnce
<1>15. ReaderOnce'
  BY <1>2, <1>4, <1>5, <1>8 DEF IndInv, ReaderOnce
<1> QED BY <1>9, <1>10, <1>11, <1>12, <1>13, <1>14, <1>15 DEF PoolParts

(* The reader hands its buffer over to the writer.                         *)
LEMMA SendJoinedInv ==
    ASSUME IndInv, TypeOK', NEW k \in Conn, SendJoined(k)
    PROVE  PoolParts'
<1> DEFINE b == jbuf[k]
           e == [buf |-> b, tok |-> 0]
<1>1. /\ b # None /\ conns' = conns
      /\ UNCHANGED <<pool, made, ref, wr, bcast, holders>>
  BY DEF SendJoined, roomVars
<1>2. /\ b \in Buf /\ 0 \in holders[b] /\ e \in Entry /\ e.buf = b /\ e.tok = 0
  BY <1>1, HandsFacts, PidFacts DEF IndInv, PlacesHold, Entry
<1>3. /\ jbuf'[k] = None
      /\ \A c \in Conn : c # k => jbuf'[c] = jbuf[c]
      /\ send'[k] = Append(send[k], e)
      /\ \A c \in Conn : c # k => send'[c] = send[c]
  BY DEF SendJoined, IndInv, TypeOK
<1>4. \A c \in Conn : \A i \in Queue(c)' :
        \/ i \in Queue(c) /\ send'[c][i] = send[c][i]
        \/ c = k /\ i = Len(send[k]) + 1 /\ send'[c][i] = e
  <2>1. send[k] \in Seq(Entry) /\ Len(send[k]) \in Nat
    BY DEF IndInv, TypeOK
  <2> HIDE DEF e
  <2> QED BY <1>2, <1>3, <2>1, AppendFacts DEF Queue
<1>5. /\ \A c \in Conn : \A i \in Queue(c) : send[c][i].buf = b => send[c][i].tok # 0
      /\ \A c \in Conn : InHand(c) /\ wr[c].entry.buf = b => wr[c].entry.tok # 0
      /\ \A c \in Conn : c # k => jbuf[c] # b
  BY <1>1 DEF IndInv, ReaderOnce
<1>6. /\ \A c \in Conn : InHand(c)' <=> InHand(c)
      /\ \A s \in RoomId : Armed(s)' <=> Armed(s)
  BY <1>1 DEF InHand, Armed
<1>7. \A s \in RoomId : bcast[s] # None => 0 \notin bcast[s].todo
  BY BcastFacts, PidFacts DEF IndInv
<1> HIDE DEF b, e
<1>8. CountExact' /\ FreeUnheld'
  BY <1>1 DEF IndInv, CountExact, FreeUnheld
<1>9. PlacesHold'
  <2>1. \A c \in Conn : \A i \in Queue(c)' : send'[c][i].tok \in holders[send'[c][i].buf]
    BY <1>2, <1>4 DEF IndInv, PlacesHold
  <2>2. \A c \in Conn : jbuf'[c] # None => 0 \in holders[jbuf'[c]]
    BY <1>3 DEF IndInv, PlacesHold
  <2> QED BY <1>1, <1>6, <2>1, <2>2 DEF IndInv, PlacesHold
<1>10. BcastShape'
  BY <1>1 DEF IndInv, BcastShape
<1>11. QueueOnce'
  <2>1. ASSUME NEW c \in Conn, NEW d \in Conn, NEW i \in Queue(c)', NEW j \in Queue(d)',
               send'[c][i].buf = send'[d][j].buf, send'[c][i].tok = send'[d][j].tok
        PROVE  c = d /\ i = j
    BY <2>1, <1>2, <1>4, <1>5 DEF IndInv, QueueOnce
  <2>2. ASSUME NEW c \in Conn, NEW d \in Conn, NEW i \in Queue(c)', InHand(d),
               send'[c][i].buf = wr[d].entry.buf
        PROVE  send'[c][i].tok # wr[d].entry.tok
    BY <2>2, <1>2, <1>4, <1>5 DEF IndInv, QueueOnce
  <2> QED BY <1>1, <1>6, <2>1, <2>2 DEF IndInv, QueueOnce
<1>12. BcastOnce'
  <2>1. ASSUME NEW s \in RoomId, NEW c \in Conn, NEW i \in Queue(c)',
               Armed(s), send'[c][i].buf = bcast[s].buf
        PROVE  send'[c][i].tok \notin bcast[s].todo
    BY <2>1, <1>2, <1>4, <1>7 DEF IndInv, BcastOnce, Armed
  <2> QED BY <1>1, <1>6, <2>1 DEF IndInv, BcastOnce
<1>13. ReaderOnce'
  <2>1. ASSUME NEW c \in Conn, NEW d \in Conn, NEW i \in Queue(d)',
               jbuf'[c] # None, send'[d][i].buf = jbuf'[c]
        PROVE  send'[d][i].tok # 0
    BY <2>1, <1>2, <1>3, <1>4, <1>5 DEF IndInv, ReaderOnce
  <2>2. \A c, d \in Conn : c # d /\ jbuf'[c] # None => jbuf'[c] # jbuf'[d]
    BY <1>3 DEF IndInv, ReaderOnce
  <2>3. \A c, d \in Conn :
          jbuf'[c] # None /\ InHand(d) /\ wr[d].entry.buf = jbuf'[c] => wr[d].entry.tok # 0
    BY <1>3 DEF IndInv, ReaderOnce
  <2> QED BY <1>1, <1>6, <2>1, <2>2, <2>3 DEF ReaderOnce
<1> QED BY <1>8, <1>9, <1>10, <1>11, <1>12, <1>13 DEF PoolParts

(* The writer takes a buffer out of its channel.                           *)
LEMMA WriterTakeInv ==
    ASSUME IndInv, TypeOK', NEW k \in Conn, WriterTake(k)
    PROVE  PoolParts'
<1> DEFINE e == Head(send[k])
<1>1. /\ ~InHand(k) /\ send[k] # <<>> /\ conns' = conns
      /\ UNCHANGED <<pool, made, ref, bcast, jbuf, holders>>
  BY DEF WriterTake, Idle, InHand, actorVars, roomVars
<1>2. send[k] \in Seq(Entry)
  BY DEF IndInv, TypeOK
<1>3. /\ InHand(k)' /\ wr'[k].entry = e
      /\ \A c \in Conn : c # k => wr'[c] = wr[c] /\ send'[c] = send[c]
      /\ send'[k] = Tail(send[k])
  BY DEF WriterTake, Writing, IndInv, TypeOK, InHand
<1>4. 1 \in Queue(k) /\ e = send[k][1] /\ e \in Entry
  BY <1>1, <1>2, TailFacts DEF Queue
<1>5. \A i \in Queue(k)' : /\ i + 1 \in Queue(k)
                           /\ i + 1 # 1
                           /\ send'[k][i] = send[k][i + 1]
  BY <1>1, <1>2, <1>3, TailFacts DEF Queue
<1>6. /\ \A c \in Conn : c # k => Queue(c)' = Queue(c) /\ (InHand(c)' <=> InHand(c))
      /\ \A s \in RoomId : Armed(s)' <=> Armed(s)
  BY <1>1, <1>3 DEF Queue, InHand, Armed
<1> DEFINE src(c, i) == IF c = k THEN i + 1 ELSE i
<1>12. \A c \in Conn : \A i \in Queue(c)' :
         /\ src(c, i) \in Queue(c)
         /\ send'[c][i] = send[c][src(c, i)]
         /\ c = k => src(c, i) # 1
  BY <1>3, <1>5, <1>6
<1>13. \A c \in Conn : \A i, j \in Queue(c)' : src(c, i) = src(c, j) => i = j
  BY DEF Queue
<1> HIDE DEF e, src
<1>7. CountExact' /\ FreeUnheld' /\ BcastShape'
  BY <1>1 DEF IndInv, CountExact, FreeUnheld, BcastShape
<1>8. PlacesHold'
  <2>1. \A c \in Conn : \A i \in Queue(c)' : send'[c][i].tok \in holders[send'[c][i].buf]
    BY <1>12 DEF IndInv, PlacesHold
  <2>2. \A c \in Conn : InHand(c)' => wr'[c].entry.tok \in holders[wr'[c].entry.buf]
    BY <1>3, <1>4, <1>6 DEF IndInv, PlacesHold
  <2> QED BY <1>1, <1>6, <2>1, <2>2 DEF IndInv, PlacesHold
<1>9. QueueOnce'
  <2>1. ASSUME NEW c \in Conn, NEW d \in Conn, NEW i \in Queue(c)', NEW j \in Queue(d)',
               send'[c][i].buf = send'[d][j].buf, send'[c][i].tok = send'[d][j].tok
        PROVE  c = d /\ i = j
    <3>1. c = d /\ src(c, i) = src(d, j)
      BY <2>1, <1>12 DEF IndInv, QueueOnce
    <3> QED BY <3>1, <1>13
  <2>2. ASSUME NEW c \in Conn, NEW d \in Conn, NEW i \in Queue(c)', InHand(d)',
               send'[c][i].buf = wr'[d].entry.buf
        PROVE  send'[c][i].tok # wr'[d].entry.tok
    <3>1. CASE d = k
      BY <2>2, <3>1, <1>3, <1>4, <1>12 DEF IndInv, QueueOnce
    <3>2. CASE d # k
      BY <2>2, <3>2, <1>3, <1>6, <1>12 DEF IndInv, QueueOnce
    <3> QED BY <3>1, <3>2
  <2>3. ASSUME NEW c \in Conn, NEW d \in Conn, c # d, InHand(c)', InHand(d)',
               wr'[c].entry.buf = wr'[d].entry.buf
        PROVE  wr'[c].entry.tok # wr'[d].entry.tok
    BY <2>3, <1>3, <1>4, <1>6 DEF IndInv, QueueOnce
  <2> QED BY <2>1, <2>2, <2>3 DEF QueueOnce
<1>10. BcastOnce'
  <2>1. ASSUME NEW s \in RoomId, NEW c \in Conn, NEW i \in Queue(c)',
               Armed(s), send'[c][i].buf = bcast[s].buf
        PROVE  send'[c][i].tok \notin bcast[s].todo
    BY <2>1, <1>12 DEF IndInv, BcastOnce
  <2>2. ASSUME NEW s \in RoomId, NEW c \in Conn,
               Armed(s), InHand(c)', wr'[c].entry.buf = bcast[s].buf
        PROVE  wr'[c].entry.tok \notin bcast[s].todo
    BY <2>2, <1>3, <1>4, <1>6 DEF IndInv, BcastOnce
  <2> QED BY <1>1, <1>6, <2>1, <2>2 DEF IndInv, BcastOnce
<1>11. ReaderOnce'
  <2>1. ASSUME NEW c \in Conn, NEW d \in Conn, NEW i \in Queue(d)',
               jbuf[c] # None, send'[d][i].buf = jbuf[c]
        PROVE  send'[d][i].tok # 0
    BY <2>1, <1>12 DEF IndInv, ReaderOnce
  <2>2. ASSUME NEW c \in Conn, NEW d \in Conn,
               jbuf[c] # None, InHand(d)', wr'[d].entry.buf = jbuf[c]
        PROVE  wr'[d].entry.tok # 0
    BY <2>2, <1>3, <1>4, <1>6 DEF IndInv, ReaderOnce
  <2> QED BY <1>1, <2>1, <2>2 DEF IndInv, ReaderOnce
<1> QED BY <1>7, <1>8, <1>9, <1>10, <1>11 DEF PoolParts

(* The writer is done with its buffer.                                     *)
LEMMA WriteReleaseInv ==
    ASSUME IndInv, TypeOK', NEW k \in Conn, WriteRelease(k)
    PROVE  PoolParts'
<1> DEFINE b == wr[k].entry.buf
           t == wr[k].entry.tok
<1>1. /\ InHand(k) /\ conns' = conns /\ Release(b, t)
      /\ UNCHANGED <<made, send, bcast, jbuf>>
  BY DEF WriteRelease, InHand, actorVars, roomVars
<1>2. b \in Buf /\ t \in holders[b]
  BY <1>1, HandsFacts DEF IndInv, PlacesHold
<1>3. CountExact' /\ FreeUnheld'
  BY <1>1, <1>2, ReleaseCounts
<1>4. /\ ~InHand(k)'
      /\ \A c \in Conn : c # k => wr'[c] = wr[c] /\ (InHand(c)' <=> InHand(c))
  BY DEF WriteRelease, Idle, Exited, IndInv, TypeOK, InHand
<1>5. /\ holders'[b] = holders[b] \ {t}
      /\ \A x \in Buf : x # b => holders'[x] = holders[x]
  BY <1>1, <1>2 DEF Release, IndInv, TypeOK
<1>6. /\ \A c \in Conn : Queue(c)' = Queue(c)
      /\ \A s \in RoomId : Armed(s)' <=> Armed(s)
  BY <1>1 DEF Queue, Armed
<1>7. \A c \in Conn : /\ \A i \in Queue(c) : send[c][i].buf \in Buf
                      /\ InHand(c) => wr[c].entry.buf \in Buf
                      /\ jbuf[c] # None => jbuf[c] \in Buf
  BY HandsFacts DEF IndInv
<1>8. /\ \A c \in Conn : \A i \in Queue(c) : send[c][i].buf = b => send[c][i].tok # t
      /\ \A c \in Conn : c # k /\ InHand(c) /\ wr[c].entry.buf = b => wr[c].entry.tok # t
      /\ \A c \in Conn : jbuf[c] # None /\ jbuf[c] = b => t # 0
      /\ \A s \in RoomId : Armed(s) /\ bcast[s].buf = b => t \notin bcast[s].todo
  BY <1>1 DEF IndInv, QueueOnce, ReaderOnce, BcastOnce
<1>9. \A s \in RoomId : bcast[s] # None => bcast[s].buf \in Buf
  BY BcastFacts DEF IndInv
<1>10. pool' \subseteq pool \cup {b}
  BY <1>1 DEF Release
<1> HIDE DEF b, t
<1>11. PlacesHold'
  <2>1. \A c \in Conn : \A i \in Queue(c) : send[c][i].tok \in holders'[send[c][i].buf]
    BY <1>5, <1>7, <1>8 DEF IndInv, PlacesHold
  <2>2. \A c \in Conn : InHand(c)' => wr'[c].entry.tok \in holders'[wr'[c].entry.buf]
    BY <1>4, <1>5, <1>7, <1>8 DEF IndInv, PlacesHold
  <2>3. \A c \in Conn : jbuf[c] # None => 0 \in holders'[jbuf[c]]
    BY <1>5, <1>7, <1>8 DEF IndInv, PlacesHold
  <2>4. \A s \in RoomId : Armed(s) => bcast[s].todo \subseteq holders'[bcast[s].buf]
    BY <1>5, <1>8, <1>9 DEF IndInv, PlacesHold, Armed
  <2> QED BY <1>1, <1>6, <2>1, <2>2, <2>3, <2>4 DEF PlacesHold
<1>12. BcastShape'
  BY <1>1, <1>2, <1>5, <1>9, <1>10 DEF IndInv, BcastShape
<1>13. QueueOnce'
  BY <1>1, <1>4, <1>6 DEF IndInv, QueueOnce
<1>14. BcastOnce'
  BY <1>1, <1>4, <1>6 DEF IndInv, BcastOnce
<1>15. ReaderOnce'
  BY <1>1, <1>4, <1>6 DEF IndInv, ReaderOnce
<1> QED BY <1>3, <1>11, <1>12, <1>13, <1>14, <1>15 DEF PoolParts

(* The writer leaves; what is still in its channel stays there.            *)
LEMMA WriterDoneInv ==
    ASSUME IndInv, TypeOK', NEW k \in Conn, WriterDone(k)
    PROVE  PoolParts'
<1>1. /\ conns' = conns
      /\ UNCHANGED <<pool, made, ref, send, bcast, jbuf, holders>>
  BY DEF WriterDone, actorVars, roomVars
<1>2. /\ ~InHand(k)'
      /\ \A c \in Conn : c # k => wr'[c] = wr[c] /\ (InHand(c)' <=> InHand(c))
  BY DEF WriterDone, Exited, IndInv, TypeOK, InHand
<1>3. /\ \A c \in Conn : Queue(c)' = Queue(c)
      /\ \A s \in RoomId : Armed(s)' <=> Armed(s)
  BY <1>1 DEF Queue, Armed
<1>4. CountExact' /\ FreeUnheld' /\ BcastShape'
  BY <1>1 DEF IndInv, CountExact, FreeUnheld, BcastShape
<1>5. PlacesHold'
  BY <1>1, <1>2, <1>3 DEF IndInv, PlacesHold
<1>6. QueueOnce'
  BY <1>1, <1>2, <1>3 DEF IndInv, QueueOnce
<1>7. BcastOnce'
  BY <1>1, <1>2, <1>3 DEF IndInv, BcastOnce
<1>8. ReaderOnce'
  BY <1>1, <1>2, <1>3 DEF IndInv, ReaderOnce
<1> QED BY <1>4, <1>5, <1>6, <1>7, <1>8 DEF PoolParts

LEMMA PoolStep == IndInv /\ [Work]_workVars => PoolParts'
<1> SUFFICES ASSUME IndInv, [Work]_workVars PROVE PoolParts'
  OBVIOUS
<1>0. TypeOK'
  BY TypeStep
<1>1. CASE UNCHANGED workVars
  BY <1>1, OtherSteps DEF workVars, actorVars, roomVars
<1>2. ASSUME NEW r \in RoomId, RunCmd(r) PROVE PoolParts'
  <2>1. \A s \in RoomId : bcast[s] # None => conns'[s] = conns[s]
    BY <1>2 DEF RunCmd, ApplyJoin, ApplyMove, ApplyLeave, IndInv, TypeOK, RoomTypeOK
  <2> QED BY <1>2, <2>1, OtherSteps DEF RunCmd
<1>3. ASSUME NEW r \in RoomId, EmptyStep(r) PROVE PoolParts'
  BY <1>3, OtherSteps DEF EmptyStep
<1>4. ASSUME NEW c \in Conn, Read(c) \/ Step(c) \/ Drop(c) PROVE PoolParts'
  <2>1. UNCHANGED poolVars
    BY <1>4 DEF Read, Step, Drop
  <2>2. conns' = conns
    BY <1>4 DEF Read, ReadJoin, ReadMove, ReadError, Step, SendJoin, SendMove,
       SendLeave, TakeReply, Close, Post, Drop, Disconnect, roomVars
  <2> QED BY <2>1, <2>2, OtherSteps
<1> QED
  BY <1>0, <1>1, <1>2, <1>3, <1>4, StartStepInv, SetRefInv, OfferInv, MakeJoinedInv,
     SendJoinedInv, WriterTakeInv, WriteReleaseInv, WriterDoneInv DEF Work

-----------------------------------------------------------------------------
(* The end of the process leaves everything else as it is. *)
LEMMA StepIsWork == [Next]_vars => [Work]_workVars
BY DEF Next, Alive, Panic, vars, workVars

(* IndInv holds in every state of every instance.                          *)
THEOREM PoolInvariant == Spec => []IndInv
<1>1. Init => IndInv
  BY TypeInit, PoolInit, PartsOfIndInv DEF Init
<1>2. IndInv /\ [Work]_workVars /\ up' \in BOOLEAN => IndInv'
  BY TypeStep, PoolStep DEF IndInv, PoolParts
<1>3. IndInv /\ [Next]_vars => IndInv'
  <2>1. IndInv /\ [Next]_vars => up' \in BOOLEAN
    BY DEF Next, Alive, Panic, vars, IndInv
  <2> QED BY <1>2, <2>1, StepIsWork
<1> QED BY <1>1, <1>3, PTL DEF Spec

(* No buffer is in the pool while a channel, a writer, a broadcast or a    *)
(* reader still has it, for any number of connections, rooms and buffers   *)
(* and any capacity of the channels.                                       *)
THEOREM PoolSafety == Spec => []PoolSafe
<1>1. IndInv => PoolSafe
  <2> SUFFICES ASSUME IndInv, NEW b \in pool PROVE ~InUse(b)
    BY DEF PoolSafe
  <2>1. b \in Buf /\ holders[b] = {}
    BY DEF IndInv, TypeOK, FreeUnheld
  <2>2. \A r \in RoomId : bcast[r] # None => bcast[r].buf # b
    BY <2>1, UnheldIsUnused DEF IndInv, BcastShape, Armed
  <2> QED BY <2>1, <2>2, UnheldIsUnused DEF InUse, Queue, InHand
<1> QED BY <1>1, PoolInvariant, PTL

-----------------------------------------------------------------------------
(* Nothing is lost: the converse of PlacesHold.  Every reference is in one *)
(* of the places that will release it or hand it on, and a buffer without  *)
(* references that is not in the pool belongs to a broadcast that has not  *)
(* set its count yet.                                                      *)

Queued(b, t) == \E c \in Conn : \E i \in Queue(c) : send[c][i].buf = b /\ send[c][i].tok = t
Handed(b, t) == \E c \in Conn : InHand(c) /\ wr[c].entry.buf = b /\ wr[c].entry.tok = t
Replied(b, t) == t = 0 /\ \E c \in Conn : jbuf[c] = b
Owed(b, t) == \E r \in RoomId : Armed(r) /\ bcast[r].buf = b /\ t \in bcast[r].todo
Somewhere(b, t) == Queued(b, t) \/ Handed(b, t) \/ Replied(b, t) \/ Owed(b, t)
Unarmed(b) == \E r \in RoomId : bcast[r] # None /\ ~bcast[r].armed /\ bcast[r].buf = b

Accounted == \A b \in Buf : \A t \in holders[b] : Somewhere(b, t)
NotLost   == \A b \in made : b \in pool \/ holders[b] # {} \/ Unarmed(b)
LeakInv   == Accounted /\ NotLost

LEMMA LeakInit == Init => LeakInv
BY DEF Init, LeakInv, Accounted, NotLost

LEMMA LeakInvNoLeak == IndInv /\ LeakInv => NoLeak
<1> SUFFICES ASSUME IndInv, LeakInv, NEW b \in made, b \notin pool PROVE InUse(b)
  BY DEF NoLeak
<1>1. b \in Buf
  BY DEF IndInv, TypeOK
<1>2. CASE Unarmed(b)
  BY <1>2 DEF Unarmed, InUse
<1>3. CASE holders[b] # {}
  <2>1. PICK t \in holders[b] : Somewhere(b, t)
    BY <1>1, <1>3 DEF LeakInv, Accounted
  <2> QED BY <2>1 DEF Somewhere, Queued, Handed, Replied, Owed, InUse, Queue, InHand, Armed
<1> QED BY <1>2, <1>3 DEF LeakInv, NotLost

(* Steps that move no buffer.                                              *)
LEMMA LeakKept ==
    ASSUME LeakInv, UNCHANGED <<pool, made, send, bcast, jbuf, holders>>,
           \A c \in Conn : InHand(c) => InHand(c)' /\ wr'[c] = wr[c]
    PROVE  LeakInv'
<1>1. \A b, t : Queued(b, t) => Queued(b, t)'
  BY DEF Queued, Queue
<1>2. \A b, t : Handed(b, t) => Handed(b, t)'
  BY DEF Handed
<1>3. \A b, t : (Replied(b, t) => Replied(b, t)') /\ (Owed(b, t) => Owed(b, t)')
  BY DEF Replied, Owed, Armed
<1>4. \A b : Unarmed(b) => Unarmed(b)'
  BY DEF Unarmed
<1>5. Accounted'
  BY <1>1, <1>2, <1>3 DEF LeakInv, Accounted, Somewhere
<1>6. NotLost'
  BY <1>4 DEF LeakInv, NotLost
<1> QED BY <1>5, <1>6 DEF LeakInv

(* A release that is not the last leaves the other references; the last    *)
(* one returns the buffer.                                                 *)
LEMMA ReleaseNotLost ==
    ASSUME IndInv, NEW b \in Buf, NEW t \in holders[b], Release(b, t)
    PROVE  /\ holders'[b] = holders[b] \ {t}
           /\ \A d \in Buf : d # b => holders'[d] = holders[d]
           /\ pool \subseteq pool'
           /\ b \in pool' \/ holders'[b] # {}
<1>1. /\ IsFiniteSet(holders[b]) /\ Cardinality(holders[b]) \in Nat
      /\ Cardinality(holders[b] \ {t}) = Cardinality(holders[b]) - 1
  BY HoldersFinite, FS_RemoveElement DEF IndInv
<1>2. holders'[b] = holders[b] \ {t} /\ \A d \in Buf : d # b => holders'[d] = holders[d]
  BY DEF Release, IndInv, TypeOK
<1>3. pool \subseteq pool' /\ (ref[b] - 1 = 0 => b \in pool')
  BY DEF Release
<1>4. ref[b] = Cardinality(holders[b])
  BY DEF IndInv, CountExact
<1>5. holders[b] \ {t} = {} => ref[b] - 1 = 0
  BY <1>1, <1>4, FS_EmptySet
<1> QED BY <1>2, <1>3, <1>5

LEMMA StartStepLeak ==
    ASSUME IndInv, LeakInv, NEW r \in RoomId, StartStep(r)
    PROVE  LeakInv'
<1>1. PICK b \in Buf : /\ GetBuf(b, Snapshot(r))
                       /\ bcast' = [bcast EXCEPT ![r] =
                            [buf |-> b, todo |-> DOMAIN conns[r], armed |-> FALSE]]
  BY DEF StartStep
<1>2. UNCHANGED <<send, wr, jbuf, holders>> /\ bcast[r] = None
  BY DEF StartStep
<1>3. /\ bcast'[r] = [buf |-> b, todo |-> DOMAIN conns[r], armed |-> FALSE]
      /\ \A s \in RoomId : s # r => bcast'[s] = bcast[s]
  BY <1>1 DEF IndInv, TypeOK
<1>4. bcast'[r] # None /\ ~bcast'[r].armed /\ bcast'[r].buf = b
  <2>1. DOMAIN conns[r] \in SUBSET Pid
    BY ConnsFacts DEF IndInv, TypeOK
  <2>2. bcast'[r] \in [buf : Buf, todo : SUBSET Pid, armed : BOOLEAN]
    BY <1>3, <2>1
  <2>3. bcast'[r] # None
    BY <2>2, PoolConstants
  <2>4. bcast'[r].armed = FALSE /\ bcast'[r].buf = b
    BY <1>3
  <2> QED BY <2>3, <2>4
<1>5. Unarmed(b)' /\ \A d : Unarmed(d) => Unarmed(d)'
  BY <1>2, <1>3, <1>4 DEF Unarmed
<1>6. \A d, t : Somewhere(d, t) => Somewhere(d, t)'
  <2>1. \A d, t : (Queued(d, t) => Queued(d, t)') /\ (Handed(d, t) => Handed(d, t)')
                  /\ (Replied(d, t) => Replied(d, t)')
    BY <1>2 DEF Queued, Queue, Handed, InHand, Replied
  <2>2. \A d, t : Owed(d, t) => Owed(d, t)'
    BY <1>2, <1>3 DEF Owed, Armed
  <2> QED BY <2>1, <2>2 DEF Somewhere
<1>7. pool' = pool \ {b} /\ made' = made \cup {b}
  BY <1>1 DEF GetBuf
<1>8. NotLost'
  BY <1>2, <1>5, <1>7 DEF LeakInv, NotLost
<1>9. Accounted'
  BY <1>2, <1>6 DEF LeakInv, Accounted
<1> QED BY <1>8, <1>9 DEF LeakInv

LEMMA SetRefLeak ==
    ASSUME IndInv, LeakInv, NEW r \in RoomId, SetRef(r)
    PROVE  LeakInv'
<1>1. PICK b \in Buf : b = bcast[r].buf
  BY BcastFacts DEF IndInv, SetRef
<1>2. bcast[r] # None /\ ~bcast[r].armed /\ UNCHANGED <<pool, made, send, wr, jbuf>>
  BY DEF SetRef
<1>3. bcast[r].todo = DOMAIN conns[r] /\ bcast[r].todo # {} /\ holders[b] = {}
  BY <1>1, <1>2 DEF IndInv, BcastShape
<1>4. holders'[b] = DOMAIN conns[r] /\ \A d \in Buf : d # b => holders'[d] = holders[d]
  BY <1>1 DEF SetRef, IndInv, TypeOK
<1>5. bcast[r] \in [buf : Buf, todo : SUBSET Pid, armed : BOOLEAN]
  BY <1>2, BcastFacts DEF IndInv
<1>6. /\ bcast'[r] = [bcast[r] EXCEPT !.armed = TRUE]
      /\ \A s \in RoomId : s # r => bcast'[s] = bcast[s]
  BY DEF SetRef, IndInv, TypeOK
<1>7. bcast'[r].armed /\ bcast'[r].buf = b /\ bcast'[r].todo = bcast[r].todo /\ bcast'[r] # None
  <2>1. bcast'[r] \in [buf : Buf, todo : SUBSET Pid, armed : BOOLEAN]
    BY <1>5, <1>6
  <2> QED BY <1>1, <1>5, <1>6, <2>1, PoolConstants
<1>8. \A t \in bcast[r].todo : Somewhere(b, t)'
  BY <1>7 DEF Somewhere, Owed, Armed
<1>9. \A d, t : Somewhere(d, t) => Somewhere(d, t)'
  <2>1. \A d, t : (Queued(d, t) => Queued(d, t)') /\ (Handed(d, t) => Handed(d, t)')
                  /\ (Replied(d, t) => Replied(d, t)')
    BY <1>2 DEF Queued, Queue, Handed, InHand, Replied
  <2>2. \A d, t : Owed(d, t) => Owed(d, t)'
    BY <1>2, <1>6 DEF Owed, Armed
  <2> QED BY <2>1, <2>2 DEF Somewhere
<1>10. \A d : d # b /\ Unarmed(d) => Unarmed(d)'
  BY <1>1, <1>6 DEF Unarmed
<1>11. Accounted'
  BY <1>3, <1>4, <1>8, <1>9 DEF LeakInv, Accounted
<1>12. NotLost'
  <2>1. made \subseteq Buf
    BY DEF IndInv, TypeOK
  <2> QED BY <1>2, <1>3, <1>4, <1>10, <2>1 DEF LeakInv, NotLost
<1> QED BY <1>11, <1>12 DEF LeakInv

LEMMA OfferLeak ==
    ASSUME IndInv, LeakInv, NEW r \in RoomId, NEW p \in DOMAIN conns[r], Offer(r, p)
    PROVE  LeakInv'
<1>1. PICK b \in Buf : b = bcast[r].buf
  BY BcastFacts DEF IndInv, Offer
<1>2. PICK c \in Conn : c = conns[r][p]
  BY ConnsFacts DEF IndInv, TypeOK
<1>3. /\ bcast[r] # None /\ bcast[r].armed /\ p \in bcast[r].todo
      /\ UNCHANGED <<made, wr, jbuf>>
  BY DEF Offer
<1> DEFINE todo == bcast[r].todo \ {p}
<1>4. bcast[r] \in [buf : Buf, todo : SUBSET Pid, armed : BOOLEAN] /\ todo \in SUBSET Pid
  BY <1>3, BcastFacts DEF IndInv
<1>5. /\ bcast'[r] = IF todo = {} THEN None ELSE [bcast[r] EXCEPT !.todo = todo]
      /\ \A s \in RoomId : s # r => bcast'[s] = bcast[s]
  BY DEF Offer, IndInv, TypeOK
<1>6. todo # {} => bcast'[r].armed /\ bcast'[r].buf = b /\ bcast'[r].todo = todo /\ bcast'[r] # None
  <2> DEFINE e == [bcast[r] EXCEPT !.todo = todo]
  <2>1. /\ e \in [buf : Buf, todo : SUBSET Pid, armed : BOOLEAN]
        /\ e.armed = bcast[r].armed /\ e.buf = b /\ e.todo = todo
    BY <1>1, <1>4
  <2> HIDE DEF e, todo
  <2> QED BY <1>3, <1>5, <2>1, PoolConstants DEF e
<1>7. p \in holders[b]
  BY <1>1, <1>3 DEF IndInv, PlacesHold, Armed
<1>8. \A d, t : Owed(d, t) /\ ~(d = b /\ t = p) => Owed(d, t)'
  <2> SUFFICES ASSUME NEW d, NEW t, NEW s \in RoomId, Armed(s), bcast[s].buf = d,
                      t \in bcast[s].todo, ~(d = b /\ t = p)
               PROVE  Owed(d, t)'
    BY DEF Owed
  <2>1. CASE s # r
    BY <1>5, <2>1 DEF Owed, Armed
  <2>2. CASE s = r
    <3>1. t \in todo /\ d = b
      BY <1>1, <2>2
    <3> QED BY <1>6, <3>1 DEF Owed, Armed
  <2> QED BY <2>1, <2>2
<1>9. \A d : Unarmed(d) => Unarmed(d)'
  BY <1>3, <1>5 DEF Unarmed
<1>10. \A d, t : (Handed(d, t) => Handed(d, t)') /\ (Replied(d, t) => Replied(d, t)')
  BY <1>3 DEF Handed, InHand, Replied
<1>11. made \subseteq Buf
  BY DEF IndInv, TypeOK
<1> HIDE DEF todo
<1>12. CASE Len(send[c]) < SendCap /\ send' = [send EXCEPT ![c] = Append(@, [buf |-> b, tok |-> p])]
            /\ UNCHANGED <<pool, holders>>
  <2> DEFINE e == [buf |-> b, tok |-> p]
  <2>1. send[c] \in Seq(Entry) /\ e \in Entry /\ e.buf = b /\ e.tok = p
    BY <1>7, PidFacts DEF IndInv, TypeOK, Entry
  <2> HIDE DEF e
  <2>2. send'[c] = Append(send[c], e) /\ \A d \in Conn : d # c => send'[d] = send[d]
    BY <1>12 DEF IndInv, TypeOK, e
  <2>3. /\ Len(send'[c]) = Len(send[c]) + 1 /\ Len(send[c]) \in Nat
        /\ \A i \in 1 .. Len(send[c]) : send'[c][i] = send[c][i]
        /\ send'[c][Len(send[c]) + 1] = e
    BY <2>1, <2>2, AppendFacts
  <2>4. /\ \A i \in Queue(c) : i \in 1 .. Len(send'[c])
        /\ Len(send[c]) + 1 \in 1 .. Len(send'[c])
    BY <2>3 DEF Queue
  <2>5. Queued(b, p)'
    BY <2>1, <2>3, <2>4 DEF Queued, Queue
  <2>6. \A d, t : Queued(d, t) => Queued(d, t)'
    BY <2>2, <2>3, <2>4 DEF Queued, Queue
  <2>7. Accounted'
    BY <1>8, <1>10, <1>12, <2>5, <2>6 DEF LeakInv, Accounted, Somewhere
  <2>8. NotLost'
    BY <1>3, <1>9, <1>12 DEF LeakInv, NotLost
  <2> QED BY <2>7, <2>8 DEF LeakInv
<1>13. CASE Release(b, p) /\ UNCHANGED send
  <2>1. /\ holders'[b] = holders[b] \ {p}
        /\ \A d \in Buf : d # b => holders'[d] = holders[d]
        /\ pool \subseteq pool'
        /\ b \in pool' \/ holders'[b] # {}
    BY <1>7, <1>13, ReleaseNotLost
  <2>2. \A d, t : Queued(d, t) => Queued(d, t)'
    BY <1>13 DEF Queued, Queue
  <2>3. Accounted'
    BY <1>8, <1>10, <2>1, <2>2 DEF LeakInv, Accounted, Somewhere
  <2>4. NotLost'
    BY <1>3, <1>9, <1>11, <2>1 DEF LeakInv, NotLost
  <2> QED BY <2>3, <2>4 DEF LeakInv
<1> QED BY <1>1, <1>2, <1>12, <1>13 DEF Offer

LEMMA MakeJoinedLeak ==
    ASSUME IndInv, LeakInv, NEW c \in Conn, MakeJoined(c)
    PROVE  LeakInv'
<1>1. PICK b \in Buf : /\ GetBuf(b, Joined(c))
                       /\ holders' = [holders EXCEPT ![b] = {0}]
                       /\ jbuf' = [jbuf EXCEPT ![c] = b]
  BY DEF MakeJoined
<1>2. UNCHANGED <<send, wr, bcast>> /\ jbuf[c] = None
  BY DEF MakeJoined
<1>3. /\ holders'[b] = {0} /\ \A d \in Buf : d # b => holders'[d] = holders[d]
      /\ jbuf'[c] = b /\ \A k \in Conn : k # c => jbuf'[k] = jbuf[k]
  BY <1>1 DEF IndInv, TypeOK
<1>4. pool' = pool \ {b} /\ made' = made \cup {b} /\ made \subseteq Buf
  BY <1>1 DEF GetBuf, IndInv, TypeOK
<1>5. Somewhere(b, 0)'
  BY <1>3 DEF Somewhere, Replied
<1>6. \A d \in Buf : \A t : Somewhere(d, t) => Somewhere(d, t)'
  <2>1. \A d, t : (Queued(d, t) => Queued(d, t)') /\ (Handed(d, t) => Handed(d, t)')
                  /\ (Owed(d, t) => Owed(d, t)')
    BY <1>2 DEF Queued, Queue, Handed, InHand, Owed, Armed
  <2>2. \A d \in Buf : \A t : Replied(d, t) => Replied(d, t)'
    BY <1>2, <1>3, PoolConstants DEF Replied
  <2> QED BY <2>1, <2>2 DEF Somewhere
<1>7. \A d : Unarmed(d) => Unarmed(d)'
  BY <1>2 DEF Unarmed
<1>8. Accounted'
  BY <1>3, <1>5, <1>6 DEF LeakInv, Accounted
<1>9. NotLost'
  BY <1>3, <1>4, <1>7 DEF LeakInv, NotLost
<1> QED BY <1>8, <1>9 DEF LeakInv

LEMMA SendJoinedLeak ==
    ASSUME IndInv, LeakInv, NEW c \in Conn, SendJoined(c)
    PROVE  LeakInv'
<1> DEFINE e == [buf |-> jbuf[c], tok |-> 0]
<1>1. /\ jbuf[c] # None /\ UNCHANGED <<pool, made, wr, bcast, holders>>
      /\ send' = [send EXCEPT ![c] = Append(@, e)]
      /\ jbuf' = [jbuf EXCEPT ![c] = None]
  BY DEF SendJoined
<1>2. e \in Entry /\ e.buf = jbuf[c] /\ e.tok = 0 /\ send[c] \in Seq(Entry)
  BY <1>1, PidFacts DEF IndInv, TypeOK, Entry
<1> HIDE DEF e
<1>3. send'[c] = Append(send[c], e) /\ \A d \in Conn : d # c => send'[d] = send[d]
  BY <1>1 DEF IndInv, TypeOK
<1>4. \A d \in Conn : d # c => jbuf'[d] = jbuf[d]
  BY <1>1 DEF IndInv, TypeOK
<1>5. /\ Len(send'[c]) = Len(send[c]) + 1 /\ Len(send[c]) \in Nat
      /\ \A i \in 1 .. Len(send[c]) : send'[c][i] = send[c][i]
      /\ send'[c][Len(send[c]) + 1] = e
  BY <1>2, <1>3, AppendFacts
<1>6. /\ \A i \in Queue(c) : i \in 1 .. Len(send'[c])
      /\ Len(send[c]) + 1 \in 1 .. Len(send'[c])
  BY <1>5 DEF Queue
<1>7. Queued(jbuf[c], 0)' <=> \E d \in Conn : \E i \in 1 .. Len(send'[d]) :
                                 send'[d][i].buf = jbuf'[c] /\ send'[d][i].tok = 0
  BY DEF Queued, Queue
<1>8. ASSUME NEW d \in Buf, NEW t, Somewhere(d, t) PROVE Somewhere(d, t)'
  <2>1. Queued(d, t) => Queued(d, t)'
    BY <1>3, <1>5, <1>6 DEF Queued, Queue
  <2>2. (Handed(d, t) => Handed(d, t)') /\ (Owed(d, t) => Owed(d, t)')
    BY <1>1 DEF Handed, InHand, Owed, Armed
  <2>3. Replied(d, t) => Replied(d, t)' \/ Queued(d, t)'
    <3> SUFFICES ASSUME t = 0, NEW k \in Conn, jbuf[k] = d PROVE Replied(d, t)' \/ Queued(d, t)'
      BY DEF Replied
    <3>1. CASE k = c
      BY <1>2, <1>5, <1>6, <3>1 DEF Queued, Queue
    <3>2. CASE k # c
      BY <1>4, <3>2 DEF Replied
    <3> QED BY <3>1, <3>2
  <2> QED BY <1>8, <2>1, <2>2, <2>3 DEF Somewhere
<1>9. Accounted'
  BY <1>1, <1>8 DEF LeakInv, Accounted
<1>10. NotLost'
  BY <1>1 DEF LeakInv, NotLost, Unarmed
<1> QED BY <1>9, <1>10 DEF LeakInv

LEMMA WriterTakeLeak ==
    ASSUME IndInv, LeakInv, NEW c \in Conn, WriterTake(c)
    PROVE  LeakInv'
<1>1. /\ UNCHANGED <<pool, made, bcast, jbuf, holders>> /\ send[c] # <<>> /\ wr[c] = Idle
      /\ send' = [send EXCEPT ![c] = Tail(@)]
      /\ wr' = [wr EXCEPT ![c] = Writing(Head(send[c]))]
  BY DEF WriterTake
<1>2. /\ send'[c] = Tail(send[c]) /\ \A d \in Conn : d # c => send'[d] = send[d]
      /\ wr'[c] = Writing(Head(send[c])) /\ \A d \in Conn : d # c => wr'[d] = wr[d]
  BY <1>1 DEF IndInv, TypeOK
<1>3. /\ Len(send'[c]) = Len(send[c]) - 1 /\ Len(send[c]) \in Nat \ {0}
      /\ \A i \in 1 .. Len(send[c]) - 1 : send'[c][i] = send[c][i + 1]
      /\ Head(send[c]) = send[c][1]
  BY <1>1, <1>2, TailFacts DEF IndInv, TypeOK
<1>4. wr'[c].pc = "write" /\ wr'[c].entry = send[c][1] /\ wr[c].pc # "write"
  BY <1>1, <1>2, <1>3 DEF Writing, Idle
<1>5. ASSUME NEW b, NEW t, Queued(b, t) PROVE Queued(b, t)' \/ Handed(b, t)'
  <2>1. PICK d \in Conn : \E i \in Queue(d) : send[d][i].buf = b /\ send[d][i].tok = t
    BY <1>5 DEF Queued
  <2>2. PICK i \in 1 .. Len(send[d]) : send[d][i].buf = b /\ send[d][i].tok = t
    BY <2>1 DEF Queue
  <2>3. CASE d # c
    BY <1>2, <2>2, <2>3 DEF Queued, Queue
  <2>4. CASE d = c /\ i = 1
    BY <1>4, <2>2, <2>4 DEF Handed, InHand
  <2>5. CASE d = c /\ i # 1
    <3>1. /\ i - 1 \in 1 .. Len(send'[c]) /\ i - 1 \in 1 .. Len(send[c]) - 1
          /\ (i - 1) + 1 = i
      BY <1>3, <2>5
    <3>2. send'[c][i - 1] = send[c][i]
      BY <1>3, <3>1
    <3> QED BY <2>2, <2>5, <3>1, <3>2 DEF Queued, Queue
  <2> QED BY <2>3, <2>4, <2>5
<1>6. \A b, t : (Handed(b, t) => Handed(b, t)') /\ (Replied(b, t) => Replied(b, t)')
                /\ (Owed(b, t) => Owed(b, t)')
  BY <1>1, <1>2, <1>4 DEF Handed, InHand, Replied, Owed, Armed
<1>7. Accounted'
  BY <1>1, <1>5, <1>6 DEF LeakInv, Accounted, Somewhere
<1>8. NotLost'
  BY <1>1 DEF LeakInv, NotLost, Unarmed
<1> QED BY <1>7, <1>8 DEF LeakInv

LEMMA WriteReleaseLeak ==
    ASSUME IndInv, LeakInv, NEW c \in Conn, WriteRelease(c)
    PROVE  LeakInv'
<1>1. PICK b \in Buf, p \in Token : b = wr[c].entry.buf /\ p = wr[c].entry.tok
  BY WriterFacts DEF IndInv, WriteRelease
<1>2. UNCHANGED <<made, send, bcast, jbuf>> /\ Release(b, p) /\ InHand(c)
  BY <1>1 DEF WriteRelease, InHand
<1>3. \A d \in Conn : d # c => wr'[d] = wr[d]
  BY DEF WriteRelease, IndInv, TypeOK
<1>4. p \in holders[b]
  BY <1>1, <1>2 DEF IndInv, PlacesHold
<1>5. /\ holders'[b] = holders[b] \ {p}
      /\ \A d \in Buf : d # b => holders'[d] = holders[d]
      /\ pool \subseteq pool'
      /\ b \in pool' \/ holders'[b] # {}
  BY <1>2, <1>4, ReleaseNotLost
<1>6. \A d, t : Handed(d, t) /\ ~(d = b /\ t = p) => Handed(d, t)'
  BY <1>1, <1>3 DEF Handed, InHand
<1>7. \A d, t : (Queued(d, t) => Queued(d, t)') /\ (Replied(d, t) => Replied(d, t)')
                /\ (Owed(d, t) => Owed(d, t)')
  BY <1>2 DEF Queued, Queue, Replied, Owed, Armed
<1>8. Accounted'
  BY <1>5, <1>6, <1>7 DEF LeakInv, Accounted, Somewhere
<1>9. NotLost'
  <2>1. made \subseteq Buf
    BY DEF IndInv, TypeOK
  <2>2. \A d : Unarmed(d) => Unarmed(d)'
    BY <1>2 DEF Unarmed
  <2> QED BY <1>2, <1>5, <2>1, <2>2 DEF LeakInv, NotLost
<1> QED BY <1>8, <1>9 DEF LeakInv

LEMMA LeakStep == IndInv /\ LeakInv /\ [Work]_workVars => LeakInv'
<1> SUFFICES ASSUME IndInv, LeakInv, [Work]_workVars PROVE LeakInv'
  OBVIOUS
<1>1. ASSUME UNCHANGED poolVars PROVE LeakInv'
  BY <1>1, LeakKept DEF poolVars, InHand
<1>2. CASE UNCHANGED workVars
  BY <1>1, <1>2 DEF workVars
<1>3. CASE \E r \in RoomId : RunCmd(r) \/ EmptyStep(r)
  BY <1>1, <1>3 DEF RunCmd, EmptyStep
<1>4. CASE \E c \in Conn : Read(c) \/ Step(c) \/ Drop(c)
  BY <1>1, <1>4 DEF Read, Step, Drop
<1>5. ASSUME NEW c \in Conn, WriterDone(c) PROVE LeakInv'
  <2>1. \A d \in Conn : InHand(d) => InHand(d)' /\ wr'[d] = wr[d]
    BY <1>5 DEF WriterDone, InHand, Idle, IndInv, TypeOK
  <2> QED BY <1>5, <2>1, LeakKept DEF WriterDone
<1> QED BY <1>2, <1>3, <1>4, <1>5, StartStepLeak, SetRefLeak, OfferLeak, MakeJoinedLeak,
           SendJoinedLeak, WriterTakeLeak, WriteReleaseLeak DEF Work

(* Reuse, not free: a buffer that no channel, writer, broadcast or reader  *)
(* has is back in the pool, so every release is made exactly when the last *)
(* holder is done, the releases of dropped snapshots included.             *)
THEOREM NothingLeaks == Spec => []NoLeak
<1>1. LeakInv /\ IndInv /\ [Next]_vars => LeakInv'
  BY LeakStep, StepIsWork
<1> QED BY <1>1, LeakInit, LeakInvNoLeak, PoolInvariant, PTL DEF Spec

-----------------------------------------------------------------------------
(***************************************************************************)
(* The pooled Go server implements the reference Go server: whatever the   *)
(* capacities and the numbers of rooms, connections and buffers, clients   *)
(* are sent the frames the reference server could have sent them.          *)
(***************************************************************************)


(* The reference server's variables, as GoPool's Go sees them.             *)
sendG == [c \in Conn |-> [i \in 1 .. Len(send[c]) |-> bytes[send[c][i].buf]]]
wrG   == [c \in Conn |->
            [pc |-> wr[c].pc,
             frame |-> IF wr[c].pc = "write" THEN bytes[wr[c].entry.buf] ELSE None]]
bcastG == [r \in RoomId |->
            IF bcast[r] = None THEN None
            ELSE [frame |-> bytes[bcast[r].buf], todo |-> bcast[r].todo]]

(* Overwriting a buffer without references changes no frame that is still  *)
(* to be written.                                                          *)
LEMMA OverwriteUnseen ==
    ASSUME IndInv, NEW b \in Buf, b \in pool \/ b \notin made, NEW f,
           bytes' = [bytes EXCEPT ![b] = f]
    PROVE  /\ \A c \in Conn : \A i \in 1 .. Len(send[c]) :
                bytes'[send[c][i].buf] = bytes[send[c][i].buf]
           /\ \A c \in Conn : wr[c].pc = "write" =>
                bytes'[wr[c].entry.buf] = bytes[wr[c].entry.buf]
           /\ \A r \in RoomId : bcast[r] # None =>
                bytes'[bcast[r].buf] = bytes[bcast[r].buf]
<1>1. holders[b] = {}
  BY DEF IndInv, FreeUnheld
<1>2. /\ \A c \in Conn : \A i \in Queue(c) : send[c][i].buf # b
      /\ \A c \in Conn : InHand(c) => wr[c].entry.buf # b
      /\ \A r \in RoomId : bcast[r] # None => bcast[r].buf # b
  BY <1>1, UnheldIsUnused DEF IndInv, BcastShape, Armed
<1>3. \A x : x # b => bytes'[x] = bytes[x]
  BY DEF IndInv, TypeOK
<1> QED BY <1>2, <1>3 DEF Queue, InHand

LEMMA RefineInit == Init => Go!Init
<1> SUFFICES ASSUME Init PROVE Go!Init
  OBVIOUS
<1>1. RoomInit /\ up = TRUE
  BY DEF Init
<1>2. sendG = [c \in Conn |-> <<>>]
  BY DEF Init, sendG
<1>3. wrG = [c \in Conn |-> [pc |-> "idle", frame |-> None]]
  BY DEF Init, wrG, Idle
<1>4. bcastG = [r \in RoomId |-> None]
  BY DEF Init, bcastG
<1> QED BY <1>1, <1>2, <1>3, <1>4
     DEF Go!Init, Go!RoomInit, RoomInit, Go!Idle, Go!Empty, Empty, sendG, wrG, bcastG

(* The outgoing side as a whole is untouched when the buffers are.         *)
LEMMA SameOut ==
    UNCHANGED <<bytes, send, wr, bcast>> => UNCHANGED <<sendG, wrG, bcastG>>
BY DEF sendG, wrG, bcastG

(* Reader and room steps that only use the inbox are the same steps of the *)
(* reference server.                                                       *)
LEMMA RefineActors ==
    ASSUME IndInv, UNCHANGED poolVars,
           \/ \E r \in RoomId : RunCmd(r) \/ EmptyStep(r)
           \/ \E c \in Conn : Read(c) \/ Step(c) \/ Drop(c)
    PROVE  Go!Work
<1>1. UNCHANGED <<sendG, wrG, bcastG>>
  BY SameOut DEF poolVars
<1> USE DEF Go!Work, Go!frameVars
<1>2. ASSUME NEW r \in RoomId, RunCmd(r) PROVE Go!RunCmd(r)
  <2>1. bcastG[r] = None
    BY <1>2 DEF RunCmd, bcastG
  <2>2. CASE ApplyJoin(r)
    BY <1>1, <2>1, <2>2 DEF Go!RunCmd, Go!ApplyJoin, ApplyJoin, Go!Received, Received,
       Go!Put, Put, Go!Pid, Pid, sendG, wrG, bcastG
  <2>3. CASE ApplyMove(r)
    BY <1>1, <2>1, <2>3 DEF Go!RunCmd, Go!ApplyMove, ApplyMove, Go!Received, Received,
       Go!Put, Put, Go!readerVars, readerVars, sendG, wrG, bcastG
  <2>4. CASE ApplyLeave(r)
    BY <1>1, <2>1, <2>4 DEF Go!RunCmd, Go!ApplyLeave, ApplyLeave, Go!Received, Received,
       Go!Del, Del, Go!readerVars, readerVars, sendG, wrG, bcastG
  <2> QED BY <1>2, <2>2, <2>3, <2>4 DEF RunCmd
<1>3. ASSUME NEW r \in RoomId, EmptyStep(r) PROVE Go!StartStep(r)
  <2>1. bcastG[r] = None /\ bcastG \in [RoomId -> {None} \cup {bcastG[s] : s \in RoomId}]
    BY <1>3 DEF EmptyStep, bcastG
  <2>2. bcastG' = [bcastG EXCEPT ![r] = None]
    BY <1>1, <2>1
  <2> QED BY <1>1, <1>3, <2>1, <2>2 DEF EmptyStep, Go!StartStep, Go!NextTick, NextTick,
          Go!Empty, Empty, Go!readerVars, readerVars, sendG, wrG, bcastG
<1>4. ASSUME NEW c \in Conn, Read(c) PROVE Go!Read(c) \/ Go!Fail(c)
  <2>1. CASE \E r \in RoomId : ReadJoin(c, r)
    BY <1>1, <2>1 DEF Go!Read, Go!ReadJoin, ReadJoin, sendG, wrG, bcastG
  <2>2. CASE ReadMove(c)
    BY <1>1, <2>2 DEF Go!Read, Go!ReadMove, ReadMove, Go!roomVars, roomVars, sendG, wrG, bcastG
  <2>3. CASE ReadError(c)
    BY <1>1, <2>3 DEF Go!Fail, Go!ReadError, ReadError, Go!roomVars, roomVars, sendG, wrG, bcastG
  <2> QED BY <1>4, <2>1, <2>2, <2>3 DEF Read
<1>5. ASSUME NEW c \in Conn, Step(c) PROVE Go!Step(c)
  <2>1. CASE SendJoin(c) \/ SendMove(c) \/ SendLeave(c)
    BY <1>1, <2>1 DEF Go!Step, SendJoin, Go!SendJoin, SendMove, Go!SendMove, SendLeave,
       Go!SendLeave, Post, Go!Post, sendG, wrG, bcastG
  <2>2. CASE TakeReply(c) \/ Close(c)
    BY <1>1, <2>2 DEF Go!Step, TakeReply, Go!TakeReply, Close, Go!Close, roomVars,
       Go!roomVars, sendG, wrG, bcastG
  <2> QED BY <1>5, <2>1, <2>2 DEF Step
<1>6. ASSUME NEW c \in Conn, Drop(c) PROVE Go!Drop(c)
  BY <1>1, <1>6 DEF Drop, Go!Drop, Disconnect, Go!Disconnect, roomVars, Go!roomVars,
     sendG, wrG, bcastG
<1> QED BY <1>2, <1>3, <1>4, <1>5, <1>6

(* Taking and filling a buffer is the reference server's StartStep.        *)
LEMMA RefineStartStep ==
    ASSUME IndInv, NEW r \in RoomId, StartStep(r)
    PROVE  Go!StartStep(r)
<1>1. PICK b \in Buf : /\ GetBuf(b, Snapshot(r))
                       /\ bcast' = [bcast EXCEPT ![r] =
                            [buf |-> b, todo |-> DOMAIN conns[r], armed |-> FALSE]]
  BY DEF StartStep
<1>2. UNCHANGED <<send, wr>> /\ bcast[r] = None
  BY DEF StartStep
<1>3. (b \in pool \/ b \notin made) /\ bytes' = [bytes EXCEPT ![b] = Snapshot(r)]
  BY <1>1 DEF GetBuf
<1>4. /\ \A c \in Conn : \A i \in 1 .. Len(send[c]) :
           bytes'[send[c][i].buf] = bytes[send[c][i].buf]
      /\ \A c \in Conn : wr[c].pc = "write" =>
           bytes'[wr[c].entry.buf] = bytes[wr[c].entry.buf]
      /\ \A s \in RoomId : bcast[s] # None =>
           bytes'[bcast[s].buf] = bytes[bcast[s].buf]
  BY <1>3, OverwriteUnseen
<1>5. UNCHANGED <<sendG, wrG>>
  BY <1>2, <1>4 DEF sendG, wrG
<1>6. bytes'[b] = Snapshot(r)
  BY <1>3 DEF IndInv, TypeOK
<1>7. /\ bcast'[r] = [buf |-> b, todo |-> DOMAIN conns[r], armed |-> FALSE]
      /\ bcast'[r] # None
      /\ \A s \in RoomId : s # r => bcast'[s] = bcast[s]
  <2>1. DOMAIN conns[r] \in SUBSET Pid
    BY ConnsFacts DEF IndInv, TypeOK
  <2>2. bcast'[r] = [buf |-> b, todo |-> DOMAIN conns[r], armed |-> FALSE]
    BY <1>1 DEF IndInv, TypeOK
  <2>3. bcast'[r] \in [buf : Buf, todo : SUBSET Pid, armed : BOOLEAN]
    BY <2>1, <2>2
  <2> QED BY <1>1, <2>2, <2>3, PoolConstants DEF IndInv, TypeOK
<1>8. bcastG' = [bcastG EXCEPT ![r] = [frame |-> Snapshot(r), todo |-> DOMAIN conns[r]]]
  <2>1. \A s \in RoomId : bcastG'[s] =
          IF s = r THEN [frame |-> Snapshot(r), todo |-> DOMAIN conns[r]] ELSE bcastG[s]
    BY <1>4, <1>6, <1>7 DEF bcastG
  <2> QED BY <2>1 DEF bcastG
<1>9. bcastG[r] = None
  BY <1>2 DEF bcastG
<1> QED BY <1>5, <1>8, <1>9 DEF StartStep, Go!StartStep, NextTick, Go!NextTick, Empty,
     Go!Empty, Snapshot, Go!Snapshot, readerVars, Go!readerVars, sendG, wrG, bcastG

(* Setting the count and preparing the JOINED buffer cannot be seen.       *)
LEMMA RefineHidden ==
    ASSUME IndInv,
           (\E r \in RoomId : SetRef(r)) \/ (\E c \in Conn : MakeJoined(c))
    PROVE  UNCHANGED Go!workVars
<1> USE DEF Go!workVars, Go!actorVars, Go!roomVars, Go!readerVars, Go!frameVars,
            actorVars, roomVars, readerVars
<1>1. ASSUME NEW r \in RoomId, SetRef(r) PROVE UNCHANGED Go!workVars
  <2>1. /\ UNCHANGED <<actorVars, bytes, send, wr>> /\ bcast[r] # None
        /\ bcast' = [bcast EXCEPT ![r] = [bcast[r] EXCEPT !.armed = TRUE]]
    BY <1>1 DEF SetRef
  <2>2. bcast'[r] = [bcast[r] EXCEPT !.armed = TRUE]
    BY <2>1 DEF IndInv, TypeOK
  <2>3. bcast[r] \in [buf : Buf, todo : SUBSET Pid, armed : BOOLEAN]
    BY <2>1, BcastFacts DEF IndInv
  <2>4. /\ bcast'[r].buf = bcast[r].buf /\ bcast'[r].todo = bcast[r].todo
        /\ bcast'[r] # None
        /\ \A s \in RoomId : s # r => bcast'[s] = bcast[s]
    <3>1. bcast'[r] \in [buf : Buf, todo : SUBSET Pid, armed : BOOLEAN]
      BY <2>2, <2>3
    <3> QED BY <2>1, <2>2, <2>3, <3>1, PoolConstants DEF IndInv, TypeOK
  <2>5. UNCHANGED <<sendG, wrG, bcastG>>
    BY <2>1, <2>4 DEF sendG, wrG, bcastG
  <2> QED BY <2>1, <2>5 DEF sendG, wrG, bcastG
<1>2. ASSUME NEW c \in Conn, MakeJoined(c) PROVE UNCHANGED Go!workVars
  <2>1. UNCHANGED <<actorVars, send, wr, bcast>>
    BY <1>2 DEF MakeJoined
  <2>2. PICK b \in Buf : GetBuf(b, Joined(c))
    BY <1>2 DEF MakeJoined
  <2>3. (b \in pool \/ b \notin made) /\ bytes' = [bytes EXCEPT ![b] = Joined(c)]
    BY <2>2 DEF GetBuf
  <2>4. /\ \A x \in Conn : \A i \in 1 .. Len(send[x]) :
             bytes'[send[x][i].buf] = bytes[send[x][i].buf]
        /\ \A x \in Conn : wr[x].pc = "write" =>
             bytes'[wr[x].entry.buf] = bytes[wr[x].entry.buf]
        /\ \A s \in RoomId : bcast[s] # None =>
             bytes'[bcast[s].buf] = bytes[bcast[s].buf]
    BY <2>3, OverwriteUnseen
  <2>5. UNCHANGED <<sendG, wrG, bcastG>>
    BY <2>1, <2>4 DEF sendG, wrG, bcastG
  <2> QED BY <2>1, <2>5 DEF sendG, wrG, bcastG
<1> QED BY <1>1, <1>2

(* Where a channel grows by one buffer, the reference server's channel     *)
(* grows by the frame in it.                                               *)
LEMMA AppendSeen ==
    ASSUME TypeOK, NEW k \in Conn, NEW e \in Entry,
           send' = [send EXCEPT ![k] = Append(send[k], e)], bytes' = bytes
    PROVE  /\ Len(sendG[k]) = Len(send[k])
           /\ sendG' = [sendG EXCEPT ![k] = Append(sendG[k], bytes[e.buf])]
<1>1. send[k] \in Seq(Entry) /\ Len(send[k]) \in Nat
  BY DEF TypeOK
<1>2. /\ send'[k] = Append(send[k], e)
      /\ \A c \in Conn : c # k => send'[c] = send[c]
  BY DEF TypeOK
<1>3. sendG[k] = [i \in 1 .. Len(send[k]) |-> bytes[send[k][i].buf]]
  BY DEF sendG
<1>4. sendG[k] \in Seq({bytes[send[k][i].buf] : i \in 1 .. Len(send[k])} \cup {bytes[e.buf]})
      /\ Len(sendG[k]) = Len(send[k])
  BY <1>1, <1>3
<1>5. sendG'[k] = [i \in 1 .. Len(send[k]) + 1 |-> bytes[Append(send[k], e)[i].buf]]
  BY <1>1, <1>2, AppendFacts DEF sendG
<1>6. Append(sendG[k], bytes[e.buf]) =
        [i \in 1 .. Len(send[k]) + 1 |->
           IF i = Len(send[k]) + 1 THEN bytes[e.buf] ELSE bytes[send[k][i].buf]]
  BY <1>1, <1>3, <1>4
<1>7. \A i \in 1 .. Len(send[k]) + 1 :
        Append(send[k], e)[i] = IF i = Len(send[k]) + 1 THEN e ELSE send[k][i]
  BY <1>1, AppendFacts
<1>8. sendG'[k] = Append(sendG[k], bytes[e.buf])
  BY <1>5, <1>6, <1>7
<1>9. \A c \in Conn : c # k => sendG'[c] = sendG[c]
  BY <1>2 DEF sendG
<1>10. sendG' = [sendG EXCEPT ![k] = Append(sendG[k], bytes[e.buf])]
  BY <1>8, <1>9 DEF sendG
<1> QED BY <1>4, <1>10

(* The same when the writer takes the oldest buffer.                       *)
LEMMA TailSeen ==
    ASSUME TypeOK, NEW k \in Conn, send[k] # <<>>,
           send' = [send EXCEPT ![k] = Tail(send[k])], bytes' = bytes
    PROVE  /\ sendG[k] # <<>> /\ Head(sendG[k]) = bytes[Head(send[k]).buf]
           /\ sendG' = [sendG EXCEPT ![k] = Tail(sendG[k])]
<1> DEFINE F == {bytes[send[k][i].buf] : i \in 1 .. Len(send[k])}
<1>1. send[k] \in Seq(Entry) /\ Len(send[k]) \in Nat \ {0}
  BY TailFacts DEF TypeOK
<1>2. /\ send'[k] = Tail(send[k])
      /\ \A c \in Conn : c # k => send'[c] = send[c]
  BY DEF TypeOK
<1>3. sendG[k] = [i \in 1 .. Len(send[k]) |-> bytes[send[k][i].buf]]
  BY DEF sendG
<1>4. sendG[k] \in Seq(F) /\ Len(sendG[k]) = Len(send[k]) /\ sendG[k] # <<>>
  BY <1>1, <1>3
<1> HIDE DEF F
<1>5. Head(sendG[k]) = bytes[Head(send[k]).buf]
  BY <1>1, <1>3, <1>4, TailFacts
<1>6. sendG'[k] = [i \in 1 .. Len(send[k]) - 1 |-> bytes[send[k][i + 1].buf]]
  <2>1. Len(Tail(send[k])) = Len(send[k]) - 1
    BY <1>1, TailFacts
  <2>2. \A i \in 1 .. Len(send[k]) - 1 : Tail(send[k])[i] = send[k][i + 1]
    BY <1>1, TailFacts
  <2>3. sendG'[k] = [i \in 1 .. Len(send'[k]) |-> bytes'[send'[k][i].buf]]
    BY DEF sendG
  <2>4. Len(send'[k]) = Len(send[k]) - 1
    BY <1>2, <2>1
  <2>5. \A i \in 1 .. Len(send[k]) - 1 : bytes'[send'[k][i].buf] = bytes[send[k][i + 1].buf]
    BY <1>2, <2>2
  <2> QED BY <2>3, <2>4, <2>5
<1>7. Tail(sendG[k]) = [i \in 1 .. Len(send[k]) - 1 |-> bytes[send[k][i + 1].buf]]
  BY <1>1, <1>3, <1>4
<1>8. \A c \in Conn : c # k => sendG'[c] = sendG[c]
  BY <1>2 DEF sendG
<1>9. sendG' = [sendG EXCEPT ![k] = Tail(sendG[k])]
  BY <1>6, <1>7, <1>8 DEF sendG
<1> QED BY <1>4, <1>5, <1>9

(* One turn of the loop, with the frame of the buffer.                     *)
LEMMA RefineOffer ==
    ASSUME IndInv, NEW r \in RoomId, NEW p \in DOMAIN conns[r], Offer(r, p)
    PROVE  Go!Offer(r, p)
<1> DEFINE k == conns[r][p]
           b == bcast[r].buf
           todo == bcast[r].todo \ {p}
           e == [buf |-> b, tok |-> p]
<1>1. /\ bcast[r] # None /\ p \in bcast[r].todo
      /\ UNCHANGED <<actorVars, bytes, wr>>
  BY DEF Offer
<1>2. k \in Conn /\ b \in Buf /\ e \in Entry /\ e.buf = b /\ todo \in SUBSET Pid
      /\ bcast[r] \in [buf : Buf, todo : SUBSET Pid, armed : BOOLEAN]
  BY <1>1, ConnsFacts, BcastFacts, PidFacts DEF IndInv, TypeOK, Entry
<1>3. bcastG[r] = [frame |-> bytes[b], todo |-> bcast[r].todo]
  BY <1>1 DEF bcastG
<1>4. bcastG[r] # None
  <2>1. bytes[b] \in Frame \cup {None}
    BY <1>1, <1>2 DEF IndInv, TypeOK
  <2>2. bcastG[r] \in [frame : Frame \cup {None}, todo : SUBSET Pid]
    BY <1>2, <1>3, <2>1
  <2> QED BY <2>2, PoolConstants
<1>5. wrG' = wrG
  BY <1>1 DEF wrG
<1>6. bcastG' = [bcastG EXCEPT ![r] = IF todo = {} THEN None
                                      ELSE [bcastG[r] EXCEPT !.todo = todo]]
  <2>1. bcast' = [bcast EXCEPT ![r] = IF todo = {} THEN None
                                      ELSE [bcast[r] EXCEPT !.todo = todo]]
    BY DEF Offer
  <2>2. \A s \in RoomId : s # r => bcastG'[s] = bcastG[s]
    BY <1>1, <2>1 DEF bcastG, IndInv, TypeOK
  <2>3. todo = {} => bcastG'[r] = None
    BY <2>1 DEF bcastG, IndInv, TypeOK
  <2>4. todo # {} => bcastG'[r] = [bcastG[r] EXCEPT !.todo = todo]
    <3> SUFFICES ASSUME todo # {} PROVE bcastG'[r] = [bcastG[r] EXCEPT !.todo = todo]
      OBVIOUS
    <3>1. bcast'[r] = [bcast[r] EXCEPT !.todo = todo]
      BY <2>1 DEF IndInv, TypeOK
    <3> HIDE DEF todo
    <3>2. /\ bcast'[r].buf = b /\ bcast'[r].todo = todo
          /\ bcast'[r] \in [buf : Buf, todo : SUBSET Pid, armed : BOOLEAN]
      BY <1>2, <3>1
    <3>3. bcast'[r] # None
      BY <3>2, PoolConstants
    <3>4. bcastG'[r] = [frame |-> bytes[b], todo |-> todo]
      BY <1>1, <3>2, <3>3 DEF bcastG
    <3> QED BY <1>3, <3>4
  <2> HIDE DEF todo
  <2> QED BY <2>2, <2>3, <2>4 DEF bcastG
<1>7. Len(sendG[k]) = Len(send[k]) /\ Len(send[k]) \in Nat /\ SendCap \in Nat
  <2>1. send[k] \in Seq(Entry)
    BY <1>2 DEF IndInv, TypeOK
  <2> QED BY <1>2, <2>1, PoolConstants DEF sendG
<1>8. sendG' = IF Len(sendG[k]) < SendCap
               THEN [sendG EXCEPT ![k] = Append(sendG[k], bcastG[r].frame)]
               ELSE sendG
  <2>1. CASE Len(send[k]) < SendCap
    <3>1. send' = [send EXCEPT ![k] = Append(send[k], e)]
      BY <1>7, <2>1 DEF Offer
    <3>2. sendG' = [sendG EXCEPT ![k] = Append(sendG[k], bytes[b])]
      BY <1>1, <1>2, <3>1, AppendSeen DEF IndInv
    <3> QED BY <1>3, <1>7, <2>1, <3>2
  <2>2. CASE ~(Len(send[k]) < SendCap)
    <3>1. send' = send
      BY <2>2 DEF Offer
    <3> QED BY <1>1, <1>7, <2>2, <3>1 DEF sendG
  <2> QED BY <2>1, <2>2
<1>9. bcastG[r].todo = bcast[r].todo
  BY <1>3
<1> QED BY <1>1, <1>4, <1>5, <1>6, <1>8, <1>9 DEF Go!Offer, Go!actorVars, Go!roomVars,
     Go!readerVars, actorVars, roomVars, readerVars, sendG, wrG, bcastG

(* The JOINED buffer enters the channel with the JOINED frame in it.       *)
LEMMA RefineSendJoined ==
    ASSUME IndInv, JoinedFilled, NEW k \in Conn, SendJoined(k)
    PROVE  Go!SendJoined(k)
<1> DEFINE e == [buf |-> jbuf[k], tok |-> 0]
<1>1. /\ jbuf[k] # None /\ rd[k] = "joined" /\ Len(send[k]) < SendCap
      /\ send' = [send EXCEPT ![k] = Append(send[k], e)]
      /\ UNCHANGED <<bytes, wr, bcast>>
  BY DEF SendJoined
<1>2. e \in Entry /\ e.buf = jbuf[k]
  BY <1>1, PidFacts DEF IndInv, TypeOK, Entry
<1>3. /\ Len(sendG[k]) = Len(send[k])
      /\ sendG' = [sendG EXCEPT ![k] = Append(sendG[k], bytes[e.buf])]
  <2> HIDE DEF e
  <2> QED BY <1>1, <1>2, AppendSeen DEF IndInv
<1>4. bytes[e.buf] = Joined(k)
  BY <1>1, <1>2 DEF JoinedFilled
<1>5. UNCHANGED <<wrG, bcastG>>
  BY <1>1 DEF wrG, bcastG
<1> QED BY <1>1, <1>3, <1>4, <1>5 DEF SendJoined, Go!SendJoined, Go!Joined, Joined,
     Go!roomVars, roomVars, sendG, wrG, bcastG

(* The writer's steps.                                                     *)
LEMMA RefineWriter ==
    ASSUME IndInv, NEW k \in Conn,
           WriterTake(k) \/ WriteRelease(k) \/ WriterDone(k)
    PROVE  Go!WriterTake(k) \/ Go!WriteOk(k) \/ Go!WriteError(k) \/ Go!WriterDone(k)
<1> USE DEF Go!actorVars, Go!roomVars, Go!readerVars, actorVars, roomVars, readerVars
<1>1. CASE WriterTake(k)
  <2>1. /\ send[k] # <<>> /\ wr[k] = Idle
        /\ send' = [send EXCEPT ![k] = Tail(send[k])]
        /\ wr' = [wr EXCEPT ![k] = Writing(Head(send[k]))]
        /\ UNCHANGED <<bytes, bcast>>
    BY <1>1 DEF WriterTake
  <2>2. /\ sendG[k] # <<>> /\ Head(sendG[k]) = bytes[Head(send[k]).buf]
        /\ sendG' = [sendG EXCEPT ![k] = Tail(sendG[k])]
    BY <2>1, TailSeen DEF IndInv
  <2>3. wrG' = [wrG EXCEPT ![k] = [pc |-> "write", frame |-> bytes[Head(send[k]).buf]]]
    <3>1. /\ wr'[k].pc = "write" /\ wr'[k].entry = Head(send[k])
          /\ \A c \in Conn : c # k => wr'[c] = wr[c]
      BY <2>1 DEF IndInv, TypeOK, Writing
    <3>2. wrG'[k] = [pc |-> "write", frame |-> bytes[Head(send[k]).buf]]
      BY <2>1, <3>1 DEF wrG
    <3>3. \A c \in Conn : c # k => wrG'[c] = wrG[c]
      BY <2>1, <3>1 DEF wrG
    <3> QED BY <3>2, <3>3 DEF wrG
  <2>4. wrG[k] = [pc |-> "idle", frame |-> None] /\ bcastG' = bcastG
    BY <2>1 DEF wrG, bcastG, Idle
  <2>5. Go!WriterTake(k)
    BY <1>1, <2>2, <2>3, <2>4 DEF WriterTake, Go!WriterTake, Go!Idle, Go!Writing,
       sendG, wrG, bcastG
  <2> QED BY <2>5
<1>2. CASE WriteRelease(k)
  <2>1. wr[k].pc = "write" /\ UNCHANGED <<actorVars, bytes, send, bcast>>
    BY <1>2 DEF WriteRelease
  <2>2. UNCHANGED <<sendG, bcastG>> /\ wrG[k].pc = "write"
    BY <2>1 DEF sendG, bcastG, wrG
  <2>3. ASSUME NEW w, w = Idle \/ w = Exited, wr' = [wr EXCEPT ![k] = w]
        PROVE  wrG' = [wrG EXCEPT ![k] = [pc |-> w.pc, frame |-> None]]
    <3>1. wr'[k] = w /\ w.pc # "write" /\ \A c \in Conn : c # k => wr'[c] = wr[c]
      BY <2>3 DEF IndInv, TypeOK, Idle, Exited
    <3>2. wrG'[k] = [pc |-> w.pc, frame |-> None]
      BY <3>1 DEF wrG
    <3>3. \A c \in Conn : c # k => wrG'[c] = wrG[c]
      BY <2>1, <3>1 DEF wrG
    <3> QED BY <3>2, <3>3 DEF wrG
  <2>4. CASE ~done[k] /\ wr' = [wr EXCEPT ![k] = Idle]
    <3>0. wrG' = [wrG EXCEPT ![k] = [pc |-> Idle.pc, frame |-> None]]
      BY <2>3, <2>4
    <3>1. wrG' = [wrG EXCEPT ![k] = [pc |-> "idle", frame |-> None]]
      BY <3>0 DEF Idle
    <3>2. Go!WriteOk(k)
      BY <2>1, <2>2, <2>4, <3>1 DEF Go!WriteOk, Go!Idle, sendG, wrG, bcastG
    <3> QED BY <3>2
  <2>5. CASE (gone[k] \/ done[k]) /\ wr' = [wr EXCEPT ![k] = Exited]
    <3>0. wrG' = [wrG EXCEPT ![k] = [pc |-> Exited.pc, frame |-> None]]
      BY <2>3, <2>5
    <3>1. wrG' = [wrG EXCEPT ![k] = [pc |-> "exit", frame |-> None]]
      BY <3>0 DEF Exited
    <3>2. Go!WriteError(k)
      BY <2>1, <2>2, <2>5, <3>1 DEF Go!WriteError, Go!Exited, sendG, wrG, bcastG
    <3> QED BY <3>2
  <2> QED BY <1>2, <2>4, <2>5 DEF WriteRelease
<1>3. CASE WriterDone(k)
  <2>1. /\ wr[k] = Idle /\ done[k] /\ wr' = [wr EXCEPT ![k] = Exited]
        /\ UNCHANGED <<actorVars, bytes, send, bcast>>
    BY <1>3 DEF WriterDone
  <2>2. UNCHANGED <<sendG, bcastG>> /\ wrG[k] = [pc |-> "idle", frame |-> None]
    BY <2>1 DEF sendG, bcastG, wrG, Idle
  <2>3. wrG' = [wrG EXCEPT ![k] = [pc |-> "exit", frame |-> None]]
    <3>1. /\ wr'[k].pc = "exit" /\ \A c \in Conn : c # k => wr'[c] = wr[c]
      BY <2>1 DEF IndInv, TypeOK, Exited
    <3>2. wrG'[k] = [pc |-> "exit", frame |-> None]
      BY <3>1 DEF wrG
    <3>3. \A c \in Conn : c # k => wrG'[c] = wrG[c]
      BY <2>1, <3>1 DEF wrG
    <3> QED BY <3>2, <3>3 DEF wrG
  <2>4. Go!WriterDone(k)
    BY <2>1, <2>2, <2>3 DEF Go!WriterDone, Go!Idle, Go!Exited, sendG, wrG, bcastG
  <2> QED BY <2>4
<1> QED BY <1>1, <1>2, <1>3

-----------------------------------------------------------------------------
(* What a reader's buffer contains stays there until it is sent.           *)
LEMMA JoinedInit == Init => JoinedFilled
BY DEF Init, JoinedFilled

LEMMA JoinedStep == IndInv /\ JoinedFilled /\ [Work]_workVars => JoinedFilled'
<1> SUFFICES ASSUME IndInv, JoinedFilled, [Work]_workVars PROVE JoinedFilled'
  OBVIOUS
<1>1. ASSUME UNCHANGED <<rd, id, room, jbuf, bytes>> PROVE JoinedFilled'
  BY <1>1 DEF JoinedFilled, Joined
<1>2. CASE UNCHANGED workVars
  BY <1>1, <1>2 DEF workVars, actorVars, readerVars, poolVars
<1>3. \A b \in Buf : b \in pool \/ b \notin made => \A c \in Conn : jbuf[c] # b
  <2>1. \A b \in Buf : b \in pool \/ b \notin made => holders[b] = {}
    BY DEF IndInv, FreeUnheld
  <2> QED BY <2>1, UnheldIsUnused
<1>0. \A c \in Conn : jbuf[c] # None => jbuf[c] \in Buf
  BY DEF IndInv, TypeOK
<1>4. ASSUME NEW r \in RoomId, RunCmd(r) \/ EmptyStep(r) \/ SetRef(r) PROVE JoinedFilled'
  BY <1>1, <1>4 DEF RunCmd, ApplyJoin, ApplyMove, ApplyLeave, EmptyStep, SetRef, poolVars,
     actorVars, readerVars
<1>5. ASSUME NEW r \in RoomId, StartStep(r) PROVE JoinedFilled'
  <2>1. UNCHANGED <<rd, id, room, jbuf>>
    BY <1>5 DEF StartStep, readerVars
  <2>2. PICK b \in Buf : GetBuf(b, Snapshot(r))
    BY <1>5 DEF StartStep
  <2>3. (b \in pool \/ b \notin made) /\ \A x \in Buf : x # b => bytes'[x] = bytes[x]
    BY <2>2 DEF GetBuf, IndInv, TypeOK
  <2>4. \A c \in Conn : jbuf[c] # None => bytes'[jbuf[c]] = bytes[jbuf[c]]
    BY <2>3, <1>0, <1>3
  <2> QED BY <2>1, <2>4 DEF JoinedFilled, Joined
<1>6. ASSUME NEW r \in RoomId, NEW p \in DOMAIN conns[r], Offer(r, p) PROVE JoinedFilled'
  BY <1>1, <1>6 DEF Offer, actorVars, readerVars
<1>7. ASSUME NEW c \in Conn, Read(c) \/ Step(c) \/ Drop(c) PROVE JoinedFilled'
  <2>1. UNCHANGED <<jbuf, bytes>>
    BY <1>7 DEF Read, Step, Drop, poolVars
  <2>2. /\ \A d \in Conn : d # c => rd'[d] = rd[d] /\ id'[d] = id[d] /\ room'[d] = room[d]
        /\ rd[c] = "joined" => rd'[c] = rd[c] /\ id'[c] = id[c] /\ room'[c] = room[c]
    BY <1>7 DEF Read, ReadJoin, ReadMove, ReadError, Step, SendJoin, SendMove,
       SendLeave, TakeReply, Close, Post, Drop, Disconnect, IndInv, TypeOK, RoomTypeOK
  <2> QED BY <2>1, <2>2 DEF JoinedFilled, Joined
<1>8. ASSUME NEW c \in Conn, MakeJoined(c) PROVE JoinedFilled'
  <2>1. UNCHANGED <<rd, id, room>> /\ rd[c] = "joined"
    BY <1>8 DEF MakeJoined, actorVars, readerVars
  <2>2. PICK b \in Buf : GetBuf(b, Joined(c)) /\ jbuf' = [jbuf EXCEPT ![c] = b]
    BY <1>8 DEF MakeJoined
  <2>3. (b \in pool \/ b \notin made) /\ bytes' = [bytes EXCEPT ![b] = Joined(c)]
    BY <2>2 DEF GetBuf
  <2>4. /\ jbuf'[c] = b /\ bytes'[b] = Joined(c)
        /\ \A d \in Conn : d # c => jbuf'[d] = jbuf[d]
    BY <2>2, <2>3 DEF IndInv, TypeOK
  <2>5. \A x \in Buf : x # b => bytes'[x] = bytes[x]
    BY <2>3 DEF IndInv, TypeOK
  <2>6. \A d \in Conn : jbuf[d] # None => bytes'[jbuf[d]] = bytes[jbuf[d]]
    BY <2>3, <2>5, <1>0, <1>3
  <2> QED BY <2>1, <2>4, <2>6 DEF JoinedFilled, Joined
<1>9. ASSUME NEW c \in Conn, SendJoined(c) PROVE JoinedFilled'
  <2>1. UNCHANGED <<id, room, bytes>>
    BY <1>9 DEF SendJoined
  <2>2. jbuf'[c] = None /\ \A d \in Conn : d # c => jbuf'[d] = jbuf[d] /\ rd'[d] = rd[d]
    BY <1>9 DEF SendJoined, IndInv, TypeOK, RoomTypeOK
  <2> QED BY <2>1, <2>2 DEF JoinedFilled, Joined
<1>10. ASSUME NEW c \in Conn, WriterTake(c) \/ WriteRelease(c) \/ WriterDone(c)
       PROVE JoinedFilled'
  BY <1>1, <1>10 DEF WriterTake, WriteRelease, WriterDone, actorVars, readerVars
<1> QED
  BY <1>2, <1>4, <1>5, <1>6, <1>7, <1>8, <1>9, <1>10 DEF Work

LEMMA SameWork == UNCHANGED workVars => UNCHANGED Go!workVars
<1> SUFFICES ASSUME UNCHANGED workVars PROVE UNCHANGED Go!workVars
  OBVIOUS
<1>1. UNCHANGED <<sendG, wrG, bcastG>>
  BY SameOut DEF workVars, poolVars
<1> QED BY <1>1 DEF Go!workVars, Go!actorVars, Go!roomVars, Go!readerVars,
     Go!frameVars, workVars, actorVars, roomVars, readerVars, sendG, wrG, bcastG

(* Every step of the pooled server is a step of the reference server or    *)
(* leaves what the reference server knows as it is.                        *)
LEMMA RefineWork == IndInv /\ JoinedFilled /\ [Work]_workVars => [Go!Work]_Go!workVars
<1> SUFFICES ASSUME IndInv, JoinedFilled, [Work]_workVars PROVE Go!Work \/ UNCHANGED Go!workVars
  OBVIOUS
<1>1. CASE UNCHANGED workVars
  BY <1>1, SameWork
<1>2. ASSUME NEW r \in RoomId, RunCmd(r) \/ EmptyStep(r) PROVE Go!Work
  BY <1>2, RefineActors DEF RunCmd, EmptyStep
<1>3. ASSUME NEW c \in Conn, Read(c) \/ Step(c) \/ Drop(c) PROVE Go!Work
  BY <1>3, RefineActors DEF Read, Step, Drop
<1>4. ASSUME NEW r \in RoomId, StartStep(r) PROVE Go!Work
  BY <1>4, RefineStartStep DEF Go!Work
<1>5. ASSUME NEW r \in RoomId, NEW p \in DOMAIN conns[r], Offer(r, p) PROVE Go!Work
  BY <1>5, RefineOffer DEF Go!Work
<1>6. ASSUME NEW c \in Conn, SendJoined(c) PROVE Go!Work
  BY <1>6, RefineSendJoined DEF Go!Work
<1>7. ASSUME NEW c \in Conn, WriterTake(c) \/ WriteRelease(c) \/ WriterDone(c)
      PROVE  Go!Work
  BY <1>7, RefineWriter DEF Go!Work
<1>8. ASSUME (\E r \in RoomId : SetRef(r)) \/ (\E c \in Conn : MakeJoined(c))
      PROVE  UNCHANGED Go!workVars
  BY <1>8, RefineHidden
<1> QED
  BY <1>1, <1>2, <1>3, <1>4, <1>5, <1>6, <1>7, <1>8 DEF Work

(* The process of the reference server ends when this one does.            *)
LEMMA RefineStep == IndInv /\ JoinedFilled /\ [Next]_vars => [Go!Next]_Go!vars
<1> SUFFICES ASSUME IndInv, JoinedFilled, [Next]_vars PROVE Go!Next \/ UNCHANGED Go!vars
  OBVIOUS
<1>1. CASE Alive(Work)
  <2>1. Work /\ up /\ up' = up
    BY <1>1 DEF Alive
  <2>2. Go!Work \/ UNCHANGED Go!workVars
    BY <2>1, RefineWork
  <2> QED BY <2>1, <2>2 DEF Go!Next, Go!Alive, Go!vars
<1>2. CASE UNCHANGED vars
  <2>1. UNCHANGED workVars /\ up' = up
    BY <1>2 DEF vars
  <2>2. UNCHANGED Go!workVars
    BY <2>1, SameWork
  <2> QED BY <2>1, <2>2 DEF Go!vars
<1>3. CASE Panic /\ UNCHANGED poolVars
  <2>1. UNCHANGED workVars /\ up /\ up' = FALSE
    BY <1>3 DEF Panic, workVars
  <2>2. UNCHANGED Go!workVars
    BY <2>1, SameWork
  <2>3. UNCHANGED Go!actorVars /\ UNCHANGED Go!frameVars
    BY <2>2 DEF Go!workVars
  <2> QED BY <2>1, <2>3 DEF Go!Next, Go!Panic
<1> QED BY <1>1, <1>2, <1>3 DEF Next

(* The pooled server implements the reference server.                      *)
THEOREM Implementation == Spec => ImplementsGo
<1>1. Init => JoinedFilled
  BY JoinedInit
<1>2. IndInv /\ JoinedFilled /\ [Next]_vars => JoinedFilled'
  BY JoinedStep, StepIsWork
<1>3. IndInv /\ JoinedFilled /\ [Next]_vars => [Go!Next]_Go!vars
  BY RefineStep
<1>4. Init => Go!Init
  BY RefineInit
<1> QED BY <1>1, <1>2, <1>3, <1>4, PoolInvariant, PTL DEF Spec, ImplementsGo, Go!SafeSpec

=============================================================================
