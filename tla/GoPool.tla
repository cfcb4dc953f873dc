------------------------------- MODULE GoPool -------------------------------
(***************************************************************************)
(* servers/go-pool/main.go: the reference server with pooled frames.  A    *)
(* frame lives in a reference-counted buffer taken from a global           *)
(* sync.Pool.  A broadcast puts the same buffer into many send channels;   *)
(* whoever releases it last returns it to the pool, from where any room or *)
(* reader may take it and overwrite it.                                    *)
(*                                                                         *)
(* The module shows that nobody can tell: with the content of the buffers  *)
(* read through the channels, GoPool implements GoServer.                  *)
(***************************************************************************)
EXTENDS GoRoom

CONSTANTS SendCap,   \* capacity of a connection's send channel (64)
          Buf        \* buffer objects the process ever allocates

ASSUME PoolConstants ==
    /\ SendCap \in Nat \ {0}
    /\ None \notin Buf
    /\ None \notin [buf : Buf, todo : SUBSET Pid, armed : BOOLEAN]
    /\ None \notin [frame : Frame \cup {None}, todo : SUBSET Pid]

VARIABLES pool,      \* the buffers lying in bufPool
          made,      \* the buffers allocated so far
          ref,       \* buf.ref
          bytes,     \* buf.b: the frame last written into the buffer
          send,      \* Conn.send: buffers, each with the reference it stands for
          wr,        \* the writer goroutine: idle, holding a buffer, exited
          bcast,     \* the broadcast a room is in the middle of, or None
          jbuf,      \* the reader's local variable jf, or None
          holders    \* history: the references to a buffer not yet released

poolVars == <<pool, made, ref, bytes, send, wr, bcast, jbuf, holders>>
workVars == <<actorVars, poolVars>>
vars     == <<workVars, up>>

(* One reference to a buffer: the room hands out one per member, named by  *)
(* the member's pid; the reader's JOINED has a single one, named 0.        *)
Token == 0 .. MaxPid
Entry == [buf : Buf, tok : Token]

Idle    == [pc |-> "idle",  entry |-> None]
Exited  == [pc |-> "exit",  entry |-> None]
Writing(e) == [pc |-> "write", entry |-> e]

(* Type correctness: channels and goroutines hold counted buffers only.    *)
TypeOK ==
    /\ RoomTypeOK
    /\ pool \in SUBSET made
    /\ made \in SUBSET Buf
    /\ ref \in [Buf -> Int]
    /\ bytes \in [Buf -> Frame \cup {None}]
    /\ send \in [Conn -> Seq(Entry)]
    /\ wr \in [Conn -> {Idle, Exited} \cup [pc : {"write"}, entry : Entry]]
    /\ bcast \in [RoomId -> {None} \cup [buf : Buf, todo : SUBSET Pid, armed : BOOLEAN]]
    /\ jbuf \in [Conn -> Buf \cup {None}]
    /\ holders \in [Buf -> SUBSET Token]

Init ==
    /\ RoomInit
    /\ up = TRUE
    /\ pool = {}
    /\ made = {}
    /\ ref = [b \in Buf |-> 0]
    /\ bytes = [b \in Buf |-> None]
    /\ send = [c \in Conn |-> <<>>]
    /\ wr = [c \in Conn |-> Idle]
    /\ bcast = [r \in RoomId |-> None]
    /\ jbuf = [c \in Conn |-> None]
    /\ holders = [b \in Buf |-> {}]

-----------------------------------------------------------------------------
(* getBuf: sync.Pool returns any buffer it has, or lets New make one (its  *)
(* caches are per processor, so it may do so although it is not empty).    *)
(* The caller then writes its frame into the buffer.                       *)
GetBuf(b, f) ==
    /\ b \in pool \cup (Buf \ made)
    /\ pool' = pool \ {b}
    /\ made' = made \cup {b}
    /\ bytes' = [bytes EXCEPT ![b] = f]

(* release: the holder that brings the count to zero returns the buffer.   *)
(* Between the decrement and the Put nobody else has the buffer.           *)
ReleaseAtOne(b, t) ==                            \* mutant: compares the old count
    /\ ref' = [ref EXCEPT ![b] = @ - 1]
    /\ pool' = IF ref[b] - 1 <= 1 THEN pool \cup {b} ELSE pool
    /\ holders' = [holders EXCEPT ![b] = @ \ {t}]

Release(b, t) ==
    /\ ref' = [ref EXCEPT ![b] = @ - 1]
    /\ pool' = IF ref[b] - 1 = 0 THEN pool \cup {b} ELSE pool
    /\ holders' = [holders EXCEPT ![b] = @ \ {t}]

-----------------------------------------------------------------------------
(* The room goroutine.                                                     *)

RunCmd(r) ==
    /\ bcast[r] = None
    /\ ApplyJoin(r) \/ ApplyMove(r) \/ ApplyLeave(r)
    /\ UNCHANGED poolVars

(* step with nobody to send to. *)
EmptyStep(r) ==
    /\ r \in rooms
    /\ bcast[r] = None
    /\ conns[r] = Empty
    /\ tick' = [tick EXCEPT ![r] = NextTick(@)]
    /\ UNCHANGED <<nextPlayerID, rooms, inbox, players, conns, readerVars, poolVars>>

(* step up to the count: take a buffer and fill it with the snapshot.      *)
StartStep(r) ==
    /\ r \in rooms
    /\ bcast[r] = None
    /\ conns[r] # Empty
    /\ tick' = [tick EXCEPT ![r] = NextTick(@)]
    /\ \E b \in Buf :
         /\ GetBuf(b, Snapshot(r))
         /\ bcast' = [bcast EXCEPT ![r] = [buf |-> b, todo |-> DOMAIN conns[r],
                                           armed |-> FALSE]]
    /\ UNCHANGED <<nextPlayerID, rooms, inbox, players, conns, readerVars,
                   ref, send, wr, jbuf, holders>>

(* atomic.StoreInt32(&fb.ref, nconns), before any enqueue. *)
SetRefShort(r) ==                                \* mutant: one reference too few
    /\ bcast[r] # None
    /\ ~bcast[r].armed
    /\ LET b == bcast[r].buf
       IN  /\ ref' = [ref EXCEPT ![b] = Cardinality(DOMAIN conns[r]) - 1]
           /\ holders' = [holders EXCEPT ![b] = DOMAIN conns[r]]
    /\ bcast' = [bcast EXCEPT ![r] = [@ EXCEPT !.armed = TRUE]]
    /\ UNCHANGED <<actorVars, pool, made, bytes, send, wr, jbuf>>

SetRef(r) ==
    /\ bcast[r] # None
    /\ ~bcast[r].armed
    /\ LET b == bcast[r].buf
       IN  /\ ref' = [ref EXCEPT ![b] = Cardinality(DOMAIN conns[r])]
           /\ holders' = [holders EXCEPT ![b] = DOMAIN conns[r]]
    /\ bcast' = [bcast EXCEPT ![r] = [@ EXCEPT !.armed = TRUE]]
    /\ UNCHANGED <<actorVars, pool, made, bytes, send, wr, jbuf>>

(* One turn of the loop: enqueue, or drop and release.                     *)
OfferNoRelease(r, p) ==                          \* mutant: a dropped frame is not released
    LET c == conns[r][p]
        todo == bcast[r].todo \ {p}
    IN  /\ bcast[r] # None
        /\ bcast[r].armed
        /\ p \in bcast[r].todo
        /\ send' = IF Len(send[c]) < SendCap
                   THEN [send EXCEPT ![c] = Append(@, [buf |-> bcast[r].buf, tok |-> p])]
                   ELSE send
        /\ bcast' = [bcast EXCEPT ![r] = IF todo = {} THEN None
                                         ELSE [@ EXCEPT !.todo = todo]]
        /\ UNCHANGED <<actorVars, pool, made, ref, bytes, wr, jbuf, holders>>

Offer(r, p) ==
    LET c == conns[r][p]
        b == bcast[r].buf
        todo == bcast[r].todo \ {p}
    IN  /\ bcast[r] # None
        /\ bcast[r].armed
        /\ p \in bcast[r].todo
        /\ \/ /\ Len(send[c]) < SendCap
              /\ send' = [send EXCEPT ![c] = Append(@, [buf |-> b, tok |-> p])]
              /\ UNCHANGED <<ref, pool, holders>>
           \/ /\ Len(send[c]) >= SendCap
              /\ Release(b, p)
              /\ UNCHANGED send
        /\ bcast' = [bcast EXCEPT ![r] = IF todo = {} THEN None
                                         ELSE [@ EXCEPT !.todo = todo]]
        /\ UNCHANGED <<actorVars, made, bytes, wr, jbuf>>

-----------------------------------------------------------------------------
(* The reader goroutine.                                                   *)

Read(c) ==
    /\ \/ \E r \in RoomId : ReadJoin(c, r)
       \/ ReadMove(c)
       \/ ReadError(c)
    /\ UNCHANGED poolVars

Step(c) ==
    /\ SendJoin(c) \/ SendMove(c) \/ SendLeave(c) \/ TakeReply(c) \/ Close(c)
    /\ UNCHANGED poolVars

(* The JOINED frame: take a buffer, fill it, set its count to one. *)
MakeJoined(c) ==
    /\ rd[c] = "joined"
    /\ jbuf[c] = None
    /\ \E b \in Buf :
         /\ GetBuf(b, Joined(c))
         /\ ref' = [ref EXCEPT ![b] = 1]
         /\ holders' = [holders EXCEPT ![b] = {0}]
         /\ jbuf' = [jbuf EXCEPT ![c] = b]
    /\ UNCHANGED <<actorVars, send, wr, bcast>>

SendJoined(c) ==
    /\ rd[c] = "joined"
    /\ jbuf[c] # None
    /\ Len(send[c]) < SendCap
    /\ send' = [send EXCEPT ![c] = Append(@, [buf |-> jbuf[c], tok |-> 0])]
    /\ jbuf' = [jbuf EXCEPT ![c] = None]
    /\ rd' = [rd EXCEPT ![c] = "read"]
    /\ UNCHANGED <<roomVars, room, id, reply, done, gone, joins, seq,
                   pool, made, ref, bytes, wr, bcast, holders>>

Drop(c) == Disconnect(c) /\ UNCHANGED poolVars

-----------------------------------------------------------------------------
(* The writer goroutine.  It releases the buffer after the write whether   *)
(* the write worked or not; what is in the channel when it exits is never  *)
(* released.                                                               *)

WriterTake(c) ==
    /\ wr[c] = Idle
    /\ send[c] # <<>>
    /\ wr' = [wr EXCEPT ![c] = Writing(Head(send[c]))]
    /\ send' = [send EXCEPT ![c] = Tail(@)]
    /\ UNCHANGED <<actorVars, pool, made, ref, bytes, bcast, jbuf, holders>>

WriteRelease(c) ==
    /\ wr[c].pc = "write"
    /\ Release(wr[c].entry.buf, wr[c].entry.tok)
    /\ \/ ~done[c] /\ wr' = [wr EXCEPT ![c] = Idle]
       \/ (gone[c] \/ done[c]) /\ wr' = [wr EXCEPT ![c] = Exited]
    /\ UNCHANGED <<actorVars, made, bytes, send, bcast, jbuf>>

WriterDone(c) ==
    /\ wr[c] = Idle
    /\ done[c]
    /\ wr' = [wr EXCEPT ![c] = Exited]
    /\ UNCHANGED <<actorVars, pool, made, ref, bytes, send, bcast, jbuf, holders>>

-----------------------------------------------------------------------------
Work ==
    \/ \E r \in RoomId :
         \/ RunCmd(r)
         \/ EmptyStep(r)
         \/ StartStep(r)
         \/ SetRef(r)
         \/ \E p \in DOMAIN conns[r] : Offer(r, p)
    \/ \E c \in Conn :
         \/ Read(c)
         \/ Step(c)
         \/ MakeJoined(c)
         \/ SendJoined(c)
         \/ Drop(c)
         \/ WriterTake(c)
         \/ WriteRelease(c)
         \/ WriterDone(c)

Next ==
    \/ Alive(Work)
    \/ Panic /\ UNCHANGED poolVars

Spec == Init /\ [][Next]_vars

-----------------------------------------------------------------------------
(* Properties.                                                             *)

(* Somebody may still read buffer b, or is about to hand it out. *)
InUse(b) ==
    \/ \E c \in Conn : \E i \in 1 .. Len(send[c]) : send[c][i].buf = b
    \/ \E c \in Conn : wr[c].pc = "write" /\ wr[c].entry.buf = b
    \/ \E r \in RoomId : bcast[r] # None /\ bcast[r].buf = b
    \/ \E c \in Conn : jbuf[c] = b

(* No buffer is in the pool, where the next tick may overwrite it, while a *)
(* channel, a writer, a broadcast or a reader still has it.                *)
PoolSafe == \A b \in pool : ~InUse(b)

(* Reuse, not free: a buffer that nobody has is back in the pool, so every *)
(* release is made, the ones for dropped snapshots included.               *)
NoLeak == \A b \in made : b \in pool \/ InUse(b)

-----------------------------------------------------------------------------
(* The inductive invariant behind PoolSafe: the count of a buffer is the   *)
(* number of its references, every place that has a buffer has a reference *)
(* of its own, and no reference is in two places.                          *)

CountExact == \A b \in Buf : ref[b] = Cardinality(holders[b])

FreeUnheld == \A b \in Buf : b \in pool \/ b \notin made => holders[b] = {}

Queue(c)  == 1 .. Len(send[c])
InHand(c) == wr[c].pc = "write"
Armed(r)  == bcast[r] # None /\ bcast[r].armed

PlacesHold ==
    /\ \A c \in Conn : \A i \in Queue(c) :
         send[c][i].tok \in holders[send[c][i].buf]
    /\ \A c \in Conn : InHand(c) => wr[c].entry.tok \in holders[wr[c].entry.buf]
    /\ \A c \in Conn : jbuf[c] # None => 0 \in holders[jbuf[c]]
    /\ \A r \in RoomId : Armed(r) => bcast[r].todo \subseteq holders[bcast[r].buf]

BcastShape ==
    \A r \in RoomId : bcast[r] # None =>
      /\ bcast[r].todo # {}
      /\ bcast[r].todo \subseteq DOMAIN conns[r]
      /\ ~bcast[r].armed => /\ holders[bcast[r].buf] = {}
                            /\ bcast[r].buf \in made \ pool
                            /\ bcast[r].todo = DOMAIN conns[r]

QueueOnce ==
    /\ \A c, d \in Conn : \A i \in Queue(c), j \in Queue(d) :
         /\ send[c][i].buf = send[d][j].buf /\ send[c][i].tok = send[d][j].tok
         => c = d /\ i = j
    /\ \A c, d \in Conn : \A i \in Queue(c) :
         /\ InHand(d)
         /\ send[c][i].buf = wr[d].entry.buf
         => send[c][i].tok # wr[d].entry.tok
    /\ \A c, d \in Conn :
         /\ c # d /\ InHand(c) /\ InHand(d)
         /\ wr[c].entry.buf = wr[d].entry.buf
         => wr[c].entry.tok # wr[d].entry.tok

BcastOnce ==
    /\ \A r, s \in RoomId :
         r # s /\ bcast[r] # None /\ bcast[s] # None => bcast[r].buf # bcast[s].buf
    /\ \A r \in RoomId, c \in Conn : \A i \in Queue(c) :
         /\ Armed(r) /\ send[c][i].buf = bcast[r].buf
         => send[c][i].tok \notin bcast[r].todo
    /\ \A r \in RoomId, c \in Conn :
         /\ Armed(r) /\ InHand(c) /\ wr[c].entry.buf = bcast[r].buf
         => wr[c].entry.tok \notin bcast[r].todo

ReaderOnce ==
    /\ \A c, d \in Conn : c # d /\ jbuf[c] # None => jbuf[c] # jbuf[d]
    /\ \A c, d \in Conn : \A i \in Queue(d) :
         jbuf[c] # None /\ send[d][i].buf = jbuf[c] => send[d][i].tok # 0
    /\ \A c, d \in Conn :
         jbuf[c] # None /\ InHand(d) /\ wr[d].entry.buf = jbuf[c] => wr[d].entry.tok # 0

(* Together: counts are exact, places hold references, none is held twice. *)
IndInv ==
    /\ TypeOK
    /\ CountExact
    /\ FreeUnheld
    /\ PlacesHold
    /\ BcastShape
    /\ QueueOnce
    /\ BcastOnce
    /\ ReaderOnce
    /\ up \in BOOLEAN

(* A reader with a buffer in its hands is about to send its JOINED frame.  *)
JoinedFilled ==
    \A c \in Conn : jbuf[c] # None => rd[c] = "joined" /\ bytes[jbuf[c]] = Joined(c)

-----------------------------------------------------------------------------
(* The reference server seen through the buffers.                          *)

Go == INSTANCE GoServer WITH
        send  <- [c \in Conn |-> [i \in 1 .. Len(send[c]) |-> bytes[send[c][i].buf]]],
        wr    <- [c \in Conn |->
                    [pc |-> wr[c].pc,
                     frame |-> IF wr[c].pc = "write" THEN bytes[wr[c].entry.buf]
                                                     ELSE None]],
        bcast <- [r \in RoomId |->
                    IF bcast[r] = None THEN None
                    ELSE [frame |-> bytes[bcast[r].buf], todo |-> bcast[r].todo]]

(* The pooled server does what the reference server does: buffers are      *)
(* recycled only when no frame that is still to be written can change.     *)
ImplementsGo == Go!SafeSpec

=============================================================================
