------------------------------ MODULE GoServer ------------------------------
(***************************************************************************)
(* The reference server, servers/go/main.go: the actors of GoRoom plus the *)
(* outgoing side.  A tick builds one SNAPSHOT frame and offers it, without *)
(* blocking, to the send channel of every connection of the room, one      *)
(* connection at a time; a writer goroutine per connection takes frames    *)
(* from the channel and writes them to the socket.                         *)
(***************************************************************************)
EXTENDS GoRoom

CONSTANT SendCap     \* capacity of a connection's send channel (64)

ASSUME SendCapAssumption == SendCap \in Nat \ {0}

VARIABLES send,      \* Conn.send: the frames waiting for the writer
          wr,        \* the writer goroutine: idle, writing a frame, exited
          bcast      \* the broadcast a room is in the middle of, or None

frameVars == <<send, wr, bcast>>
workVars  == <<actorVars, frameVars>>
vars      == <<workVars, up>>

Idle   == [pc |-> "idle",    frame |-> None]
Exited == [pc |-> "exit",    frame |-> None]
Writing(f) == [pc |-> "write", frame |-> f]

StateTypeOK ==
    /\ RoomTypeOK
    /\ send \in [Conn -> Seq(Frame)]
    /\ wr \in [Conn -> {Idle, Exited} \cup [pc : {"write"}, frame : Frame]]
    /\ bcast \in [RoomId -> {None} \cup [frame : Frame, todo : SUBSET Pid]]

(* Type correctness: channels carry whole frames and commands, never nil.  *)
TypeOK == StateTypeOK /\ up \in BOOLEAN

Init ==
    /\ RoomInit
    /\ up = TRUE
    /\ send = [c \in Conn |-> <<>>]
    /\ wr = [c \in Conn |-> Idle]
    /\ bcast = [r \in RoomId |-> None]

-----------------------------------------------------------------------------
(* The room goroutine.  It serves its inbox and its ticker only between    *)
(* two broadcasts.                                                         *)

RunCmd(r) ==
    /\ bcast[r] = None
    /\ ApplyJoin(r) \/ ApplyMove(r) \/ ApplyLeave(r)
    /\ UNCHANGED frameVars

(* step up to the loop over the connections: count the tick, build the     *)
(* frame from the players as they are now.                                 *)
StartStepNoTick(r) ==                            \* mutant: the tick is not counted
    /\ r \in rooms
    /\ bcast[r] = None
    /\ bcast' = [bcast EXCEPT ![r] =
                   IF conns[r] = Empty THEN None
                   ELSE [frame |-> Snapshot(r), todo |-> DOMAIN conns[r]]]
    /\ UNCHANGED <<actorVars, send, wr>>

StartStep(r) ==
    /\ r \in rooms
    /\ bcast[r] = None
    /\ tick' = [tick EXCEPT ![r] = NextTick(@)]
    /\ bcast' = [bcast EXCEPT ![r] =
                   IF conns[r] = Empty THEN None
                   ELSE [frame |-> Snapshot(r), todo |-> DOMAIN conns[r]]]
    /\ UNCHANGED <<nextPlayerID, rooms, inbox, players, conns, readerVars, send, wr>>

(* One turn of that loop: the frame goes into the channel, or is dropped   *)
(* for this connection when the channel is full.                           *)
OfferBlocking(r, p) ==                           \* mutant: a send without default
    LET c == conns[r][p]
        todo == bcast[r].todo \ {p}
    IN  /\ bcast[r] # None
        /\ p \in bcast[r].todo
        /\ Len(send[c]) < SendCap
        /\ send' = [send EXCEPT ![c] = Append(@, bcast[r].frame)]
        /\ bcast' = [bcast EXCEPT ![r] = IF todo = {} THEN None
                                         ELSE [@ EXCEPT !.todo = todo]]
        /\ UNCHANGED <<actorVars, wr>>

Offer(r, p) ==
    LET c == conns[r][p]
        todo == bcast[r].todo \ {p}
    IN  /\ bcast[r] # None
        /\ p \in bcast[r].todo
        /\ send' = IF Len(send[c]) < SendCap
                   THEN [send EXCEPT ![c] = Append(@, bcast[r].frame)]
                   ELSE send
        /\ bcast' = [bcast EXCEPT ![r] = IF todo = {} THEN None
                                         ELSE [@ EXCEPT !.todo = todo]]
        /\ UNCHANGED <<actorVars, wr>>

-----------------------------------------------------------------------------
(* The reader goroutine.                                                   *)

Read(c) ==
    /\ \/ \E r \in RoomId : ReadJoin(c, r)
       \/ ReadMove(c)
    /\ UNCHANGED frameVars

Fail(c) == ReadError(c) /\ UNCHANGED frameVars

Step(c) ==
    /\ SendJoin(c) \/ SendMove(c) \/ SendLeave(c) \/ TakeReply(c) \/ Close(c)
    /\ UNCHANGED frameVars

(* c.send <- JOINED: the reader blocks while the channel is full.          *)
SendJoined(c) ==
    /\ rd[c] = "joined"
    /\ Len(send[c]) < SendCap
    /\ send' = [send EXCEPT ![c] = Append(@, Joined(c))]
    /\ rd' = [rd EXCEPT ![c] = "read"]
    /\ UNCHANGED <<roomVars, room, id, reply, done, gone, joins, seq, wr, bcast>>

Drop(c) == Disconnect(c) /\ UNCHANGED frameVars

-----------------------------------------------------------------------------
(* The writer goroutine.  Its select may pick either ready case.           *)

WriterTake(c) ==
    /\ wr[c] = Idle
    /\ send[c] # <<>>
    /\ wr' = [wr EXCEPT ![c] = Writing(Head(send[c]))]
    /\ send' = [send EXCEPT ![c] = Tail(@)]
    /\ UNCHANGED <<actorVars, bcast>>

(* The socket took the frame. *)
WriteOk(c) ==
    /\ wr[c].pc = "write"
    /\ ~done[c]
    /\ wr' = [wr EXCEPT ![c] = Idle]
    /\ UNCHANGED <<actorVars, send, bcast>>

(* A failed write, once the client or the reader has closed the socket.    *)
WriteError(c) ==
    /\ wr[c].pc = "write"
    /\ gone[c] \/ done[c]
    /\ wr' = [wr EXCEPT ![c] = Exited]
    /\ UNCHANGED <<actorVars, send, bcast>>

WriterDoneNil(c) ==                              \* mutant: send is closed, not done:
    /\ wr[c] = Idle                              \* the writer is handed a nil frame
    /\ done[c]
    /\ wr' = [wr EXCEPT ![c] = Writing(None)]
    /\ UNCHANGED <<actorVars, send, bcast>>

WriterDone(c) ==
    /\ wr[c] = Idle
    /\ done[c]
    /\ wr' = [wr EXCEPT ![c] = Exited]
    /\ UNCHANGED <<actorVars, send, bcast>>

-----------------------------------------------------------------------------
Work ==
    \/ \E r \in RoomId :
         \/ RunCmd(r)
         \/ StartStep(r)
         \/ \E p \in DOMAIN conns[r] : Offer(r, p)
    \/ \E c \in Conn :
         \/ Read(c)
         \/ Fail(c)
         \/ Step(c)
         \/ SendJoined(c)
         \/ Drop(c)
         \/ WriterTake(c)
         \/ WriteOk(c)
         \/ WriteError(c)
         \/ WriterDone(c)

Next ==
    \/ Alive(Work)
    \/ Panic /\ UNCHANGED frameVars

SafeSpec == Init /\ [][Next]_vars

(* What the runtime gives: a goroutine that can go on does; a select with  *)
(* several ready cases picks one at random, and blocked senders of a       *)
(* channel are served in order, so a case that is ready again and again is *)
(* taken.  A write on a socket the client has dropped fails in the end;    *)
(* nothing makes a live client read, and nothing makes it send.            *)
Fairness ==
    /\ \A r \in RoomId :
         /\ SF_vars(Alive(RunCmd(r)))
         /\ WF_vars(Alive(\E p \in DOMAIN conns[r] : Offer(r, p)))
    /\ \A c \in Conn :
         /\ SF_vars(Alive(Step(c)))
         /\ SF_vars(Alive(SendJoined(c)))
         /\ WF_vars(Alive(WriterTake(c)))
         /\ SF_vars(Alive(WriteError(c)))
         /\ SF_vars(Alive(WriterDone(c)))
         /\ WF_vars(Alive(gone[c] /\ Fail(c)))

Spec == SafeSpec /\ Fairness

-----------------------------------------------------------------------------
(* Properties.                                                             *)

(* What connection c is still to be sent, oldest first. *)
Out(c) == (IF wr[c].pc = "write" THEN <<wr[c].frame>> ELSE <<>>) \o send[c]

(* For clients that send one JOIN: when the reader of a connection is past *)
(* its cleanup, every player the connection still has in a room is about   *)
(* to be deleted by a leave command already in that room's inbox.          *)
NoGhost ==
    \A c \in Conn : rd[c] \in {"close", "exit"} =>
      \A r \in RoomId : \A p \in DOMAIN conns[r] : conns[r][p] = c =>
        \E i \in 1 .. Len(inbox[r]) : inbox[r][i] = [op |-> "leave", pid |-> p]

(* For clients that send one JOIN: a client is sent at most one SNAPSHOT   *)
(* per tick of its room, in the order of the ticks, whatever is dropped on *)
(* the way.                                                                *)
OncePerTick ==
    \A c \in Conn : \A i, j \in 1 .. Len(Out(c)) :
      (/\ i < j
       /\ Out(c)[i].type = "SNAPSHOT" /\ Out(c)[j].type = "SNAPSHOT"
       /\ Out(c)[i].room = Out(c)[j].room
       /\ Out(c)[i].tick < MaxTick)
      => Out(c)[i].tick < Out(c)[j].tick

(* The echoed sequence number of a player never goes back: MOVEs are       *)
(* applied in the order their connection sent them.                        *)
SeqNeverBack ==
    [][\A r \in RoomId : \A p \in DOMAIN players[r] \cap DOMAIN players'[r] :
         players'[r][p] >= players[r][p]]_vars

(* A slow client must not stall a room: a broadcast always ends and a      *)
(* command at the head of the inbox is always served, although no client   *)
(* is assumed to read, unless a short JOIN of some client ends the process.*)
RoomNotStalled ==
    \A r \in RoomId :
      /\ (bcast[r] # None) ~> (bcast[r] = None \/ ~up)
      /\ (Len(inbox[r]) = InboxCap) ~> (Len(inbox[r]) < InboxCap \/ ~up)

(* The reader and the room meet: a reader that asks for a player id gets   *)
(* one, and a room never blocks in its reply, unless the process is ended  *)
(* by the short JOIN of another client.                                    *)
JoinAnswered == \A c \in Conn : (rd[c] = "join") ~> (rd[c] = "joined" \/ ~up)

(* For clients that send one JOIN: after the client has dropped the        *)
(* connection its player is removed from the room, unless the reader is    *)
(* stuck for ever with the JOINED frame: the writer has exited on a failed *)
(* write and left the send channel full, or the process has ended.         *)
Departure ==
    \A c \in Conn :
      gone[c] ~> \/ ~up
                \/ \A r \in RoomId : \A p \in DOMAIN conns[r] : conns[r][p] # c
                \/ /\ rd[c] = "joined" /\ wr[c] = Exited
                   /\ Len(send[c]) = SendCap

=============================================================================
