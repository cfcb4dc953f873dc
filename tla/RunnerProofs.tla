---------------------------- MODULE RunnerProofs ----------------------------
(***************************************************************************)
(* run.py runs one server at a time, for every matrix, every number of     *)
(* processes and every failure of Faults: stop_server is followed through  *)
(* its two loops.                                                          *)
(***************************************************************************)
EXTENDS Runner, SequenceTheorems, FiniteSetTheorems, TLAPS

\* The table of processes.
Proc(N) == [name : N, st : {"starting", "listening", "zombie"}, sig : {"none", "term", "kill"},
            cpu : Nat]
Table(D, N) == [D -> Proc(N)]
ProcOK == \E D, N : os \in Table(D, N)

Killed(g) == g \in Live => os[g].sig = "kill"

\* How far stop_server has got: every process its second loop has passed is dead or
\* has been sent SIGKILL, and so has every process there is once it returns.
StopProgress ==
    /\ entry \in Nat /\ stopped \in 0 .. entry
    /\ pc \in {"popen", "wait", "load", "join", "term"} => stopped = 0
    /\ pc \in {"kill", "reap"} => \A i \in 1 .. stopped : Killed(<<k, i>>)
    /\ pc = "reap" => stopped < entry /\ Killed(Victim)
    /\ pc \in {"build", "results", "timeline", "row", "windows", "cool"} => \A g \in DOMAIN os : Killed(g)

StopInv == ProcOK /\ StopProgress /\ OneServer

LEMMA StopInit == Init => StopInv
<1> SUFFICES ASSUME Init PROVE StopInv
  OBVIOUS
<1>1. DOMAIN os = {}
  BY DEF Init
<1>2. ProcOK
  <2>1. os \in Table({}, {})
    BY DEF Table, Init
  <2> QED BY <2>1 DEF ProcOK
<1>3. StopProgress
  BY <1>1 DEF StopProgress, Init, Killed, Live
<1>4. OneServer
  BY <1>1 DEF OneServer, Live
<1> QED BY <1>2, <1>3, <1>4 DEF StopInv

(* What a process does by itself: none comes to life, none loses or gets a *)
(* signal while it lives, the table keeps its shape.                       *)
LEMMA ProcessSig ==
    ASSUME ProcOK, Process
    PROVE  /\ ProcOK'
           /\ \A g \in Live' : g \in Live /\ os'[g].sig = os[g].sig
<1>1. PICK g \in DOMAIN os : Bind(g) \/ BindFail(g) \/ Exit(g) \/ Work(g) \/ Die(g)
  BY DEF Process
<1>2. PICK D, N : os \in Table(D, N)
  BY DEF ProcOK
<1>3. SUFFICES (\E E : os' \in Table(E, N)) /\ \A h \in Live' : h \in Live /\ os'[h].sig = os[h].sig
  BY DEF ProcOK, Table
<1> USE <1>2 DEF Table, Proc, Live
<1>4. CASE os' = Exited(g)
  <2>1. CASE g \in Group
    <3>1. os' = [os EXCEPT ![g].st = "zombie", ![g].sig = "none"]
      BY <1>4, <2>1 DEF Exited
    <3>2. os' \in Table(D, N)
      BY <3>1
    <3> QED BY <3>1, <3>2
  <2>2. CASE g \notin Group
    <3>1. os' = [h \in DOMAIN os \ {g} |-> os[h]]
      BY <1>4, <2>2 DEF Exited
    <3>2. os' \in Table(D \ {g}, N)
      BY <3>1
    <3> QED BY <3>1, <3>2
  <2> QED BY <2>1, <2>2
<1>5. CASE Bind(g)
  BY <1>5 DEF Bind
<1>6. CASE Work(g)
  BY <1>6 DEF Work
<1> QED BY <1>1, <1>4, <1>5, <1>6 DEF BindFail, Exit, Die

LEMMA ProcessStop ==
    ASSUME StopInv, Process
    PROVE  StopInv'
<1>1. UNCHANGED mainVars
  BY DEF Process, Bind, BindFail, Exit, Work, Die
<1>2. /\ ProcOK'
      /\ \A g \in Live' : g \in Live /\ os'[g].sig = os[g].sig
  BY ProcessSig DEF StopInv
<1>3. \A g : Killed(g) => Killed(g)'
  BY <1>2 DEF Killed
<1>4. StopProgress'
  <2>1. \A g \in DOMAIN os' : Killed(g)' \/ g \in DOMAIN os
    BY <1>2 DEF Killed, Live
  <2> QED BY <1>1, <1>3, <2>1 DEF StopInv, StopProgress, mainVars, Victim
<1>5. OneServer'
  BY <1>1, <1>2 DEF StopInv, OneServer, mainVars, Group
<1> QED BY <1>2, <1>4, <1>5 DEF StopInv

(* Steps that leave the processes alone, up to the first loop.             *)
LEMMA QuietStop ==
    ASSUME StopInv, UNCHANGED os,
           BuildLoadgen \/ OpenResults \/ OpenTimeline \/ PickServer \/ EnterStart \/ Started
                     \/ Ready \/ NotReady
             \/ LoadgenEnds \/ Join \/ Stopped \/ WriteRow \/ WriteTimeline \/ Cooldown
    PROVE  StopInv'
<1>1. ProcOK' /\ Live' = Live /\ \A g : Killed(g)' <=> Killed(g)
  BY DEF StopInv, ProcOK, Table, Live, Killed
<1> USE <1>1 DEF StopInv, StopProgress, OneServer, Group, Victim
<1>2. CASE BuildLoadgen \/ OpenResults \/ OpenTimeline
  BY <1>2 DEF BuildLoadgen, OpenResults, OpenTimeline, Killed, Live
<1>3. CASE PickServer
  BY <1>3 DEF PickServer
<1>4. CASE EnterStart
  BY <1>4 DEF EnterStart
<1>5. CASE Started
  BY <1>5 DEF Started
<1>6. CASE Ready
  BY <1>6 DEF Ready
<1>7. CASE NotReady
  BY <1>7 DEF NotReady
<1>8. CASE LoadgenEnds
  BY <1>8 DEF LoadgenEnds
<1>9. CASE Join
  BY <1>9 DEF Join
<1>10. CASE Stopped
  <2>1. \A g \in DOMAIN os : Killed(g)
    BY <1>10 DEF Stopped, Killed, Live
  <2> QED BY <1>10, <2>1 DEF Stopped
<1>11. CASE WriteRow
  BY <1>11 DEF WriteRow
<1>12. CASE WriteTimeline
  BY <1>12 DEF WriteTimeline
<1>13. CASE Cooldown
  BY <1>13 DEF Cooldown, Killed, Live
<1> QED BY <1>2, <1>3, <1>4, <1>5, <1>6, <1>7, <1>8, <1>9, <1>10, <1>11, <1>12, <1>13

(* start_server: a new process belongs to the current group.               *)
LEMMA PopenStop ==
    ASSUME StopInv, Popen
    PROVE  StopInv'
<1>1. PICK D, N : os \in Table(D, N)
  BY DEF StopInv, ProcOK
<1> DEFINE new == <<k, entry + 1>>
           r == [name |-> Name, st |-> "starting", sig |-> "none", cpu |-> 0]
<1>2. os' = [g \in DOMAIN os \cup {new} |-> IF g \in DOMAIN os THEN os[g] ELSE r]
  BY DEF Popen
<1>3. ProcOK'
  <2>1. os' \in [DOMAIN os \cup {new} ->
                  Proc(N \cup {Name})]
    BY <1>1, <1>2 DEF Table, Proc
  <2> QED BY <2>1 DEF ProcOK, Table
<1>4. entry \in Nat /\ entry' = entry + 1 /\ k' = k /\ pc = "popen" /\ pc' = pc /\ stopped' = stopped
  BY DEF Popen, StopInv, StopProgress
<1>5. Group' = Group \cup {new}
  BY <1>4 DEF Group
<1>6. OneServer'
  <2> SUFFICES ASSUME NEW g \in Live', os'[g].sig # "kill" PROVE g \in Group'
    BY <1>4 DEF OneServer
  <2>1. CASE g = new
    BY <2>1, <1>5
  <2>2. CASE g # new
    <3>1. g \in Live /\ os[g].sig # "kill"
      BY <2>2, <1>2 DEF Live
    <3> QED BY <3>1, <1>5 DEF StopInv, OneServer
  <2> QED BY <2>1, <2>2
<1>7. StopProgress'
  BY <1>4 DEF StopInv, StopProgress
<1> QED BY <1>3, <1>6, <1>7 DEF StopInv

(* The first loop of stop_server.                                          *)
LEMMA TerminateStop ==
    ASSUME StopInv, Terminate
    PROVE  StopInv'
<1>1. PICK D, N : os \in Table(D, N)
  BY DEF StopInv, ProcOK
<1>2. /\ os' \in Table(D, N)
      /\ Live' = Live
      /\ \A g \in Live : g \notin Group => os'[g].sig = os[g].sig
  BY <1>1 DEF Terminate, Table, Proc, Live
<1>3. UNCHANGED <<k, entry, stopped>> /\ pc = "term" /\ pc' = "kill"
  BY DEF Terminate
<1>4. OneServer'
  BY <1>2, <1>3 DEF StopInv, OneServer, Group
<1>5. StopProgress'
  BY <1>3 DEF StopInv, StopProgress
<1> QED BY <1>2, <1>4, <1>5 DEF StopInv, ProcOK

(* One round of its second loop: SIGKILL whatever the SIGTERM did, ...     *)
LEMMA KillStop ==
    ASSUME StopInv, Kill
    PROVE  StopInv'
<1>1. PICK D, N : os \in Table(D, N)
  BY DEF StopInv, ProcOK
<1>2. /\ os' \in Table(D, N)
      /\ Live' = Live
      /\ \A g \in Live : os'[g].sig = IF g = Victim THEN "kill" ELSE os[g].sig
  <2>1. CASE Victim \in Live
    BY <1>1, <2>1 DEF Kill, Table, Proc, Live
  <2>2. CASE Victim \notin Live
    BY <1>1, <2>2 DEF Kill, Table, Proc, Live
  <2> QED BY <2>1, <2>2
<1>3. UNCHANGED <<k, entry, stopped>> /\ pc = "kill" /\ pc' = "reap" /\ stopped < entry
  BY DEF Kill
<1>4. \A g : Killed(g) => Killed(g)'
  BY <1>2 DEF Killed
<1>5. Killed(Victim)'
  BY <1>2, <1>3 DEF Killed, Victim
<1>6. OneServer'
  BY <1>2, <1>3 DEF StopInv, OneServer, Group
<1>7. StopProgress'
  BY <1>3, <1>4, <1>5 DEF StopInv, StopProgress
<1> QED BY <1>2, <1>6, <1>7 DEF StopInv, ProcOK

(* ... then wait, which takes the process out of the table or gives up.    *)
LEMMA ReapStop ==
    ASSUME StopInv, Reap
    PROVE  StopInv'
<1>1. PICK D, N : os \in Table(D, N)
  BY DEF StopInv, ProcOK
<1>2. /\ ProcOK'
      /\ \A g \in Live' : g \in Live /\ os'[g].sig = os[g].sig
  <2>1. CASE UNCHANGED os
    BY <2>1 DEF StopInv, ProcOK, Table, Live
  <2>2. CASE os' = [g \in DOMAIN os \ {Victim} |-> os[g]]
    BY <1>1, <2>2 DEF ProcOK, Table, Live
  <2> QED BY <2>1, <2>2 DEF Reap
<1>3. UNCHANGED <<k, entry>> /\ pc = "reap" /\ pc' = "kill" /\ stopped' = stopped + 1
  BY DEF Reap
<1>4. \A g : Killed(g) => Killed(g)'
  BY <1>2 DEF Killed
<1>5. StopProgress'
  <2>1. entry \in Nat /\ stopped \in 0 .. entry /\ stopped < entry
    BY <1>3 DEF StopInv, StopProgress
  <2>2. \A i \in 1 .. stopped + 1 : Killed(<<k, i>>)
    BY <1>3, <2>1 DEF StopInv, StopProgress, Victim
  <2> QED BY <1>3, <1>4, <2>1, <2>2 DEF StopProgress
<1>6. OneServer'
  BY <1>2, <1>3 DEF StopInv, OneServer, Group
<1> QED BY <1>2, <1>5, <1>6 DEF StopInv

LEMMA StopStep == StopInv /\ [Next]_vars => StopInv'
<1> SUFFICES ASSUME StopInv, [Next]_vars PROVE StopInv'
  OBVIOUS
<1>1. CASE Main
  <2>1. CASE Popen
    BY <2>1, PopenStop
  <2>2. CASE Terminate
    BY <2>2, TerminateStop
  <2>3. CASE Kill
    BY <2>3, KillStop
  <2>4. CASE Reap
    BY <2>4, ReapStop
  <2>5. CASE BuildLoadgen \/ OpenResults \/ OpenTimeline \/ PickServer \/ EnterStart \/ Started
            \/ Ready \/ NotReady
               \/ LoadgenEnds \/ Join \/ Stopped \/ WriteRow \/ WriteTimeline \/ Cooldown
    <3>1. UNCHANGED os
      BY <2>5 DEF BuildLoadgen, OpenResults, OpenTimeline, PickServer, EnterStart, Started, Ready,
         NotReady, LoadgenEnds,
                  Join, Stopped, WriteRow, WriteTimeline, Cooldown
    <3> QED BY <2>5, <3>1, QuietStop
  <2> QED BY <1>1, <2>1, <2>2, <2>3, <2>4, <2>5 DEF Main
<1>2. CASE Process
  BY <1>2, ProcessStop
<1>3. CASE Sampler \/ UNCHANGED vars
  <2>1. UNCHANGED <<mainVars, os>>
    BY <1>3 DEF Sampler, SampleFirst, SampleRss, SampleCpu, SampleEnd, vars, mainVars
  <2> QED BY <2>1 DEF StopInv, ProcOK, Table, StopProgress, OneServer, Killed, Live, Group,
                      Victim, mainVars
<1> QED BY <1>1, <1>2, <1>3 DEF Next

\* "Only ONE server runs at a time" (run.py:16), as far as stop_server can see to
\* it: for every matrix, plan and sequence of failures a live process that is not
\* of the current trial has been sent SIGKILL before the next server starts.
THEOREM OneServerAtATime == Spec => []OneServer
<1>1. Init => StopInv
  BY StopInit
<1>2. StopInv /\ [Next]_vars => StopInv'
  BY StopStep
<1>3. StopInv => OneServer
  BY DEF StopInv
<1> QED BY <1>1, <1>2, <1>3, PTL DEF Spec

-----------------------------------------------------------------------------

\* The two files are sequences, and while the windows of a cell are being written
\* its row is already there.
Files == (\E S : rows \in Seq(S)) /\ (\E S : timeline \in Seq(S)) /\ res \in Nat \cup {None}

Listed(c) == \E r \in DOMAIN rows : rows[r] = c

FilesInv ==
    /\ Files /\ TimelineFollows
    /\ pc \in {"row", "windows"} => res # None
    /\ pc = "windows" => Listed(Cell)

LEMMA FilesInit == Init => FilesInv
<1> SUFFICES ASSUME Init PROVE FilesInv
  OBVIOUS
<1>1. res = None /\ pc = "build" /\ ~Opened
  BY DEF Init, Opened
<1>2. rows \in Seq(Earlier) /\ timeline \in Seq(Earlier)
  BY RunnerAssumption DEF Init
<1> QED BY <1>1, <1>2 DEF FilesInv, Files, TimelineFollows

(* A new row goes to the end of the file, the earlier ones stay.           *)
LEMMA RowFiles ==
    ASSUME FilesInv, WriteRow
    PROVE  FilesInv'
<1>1. PICK S : rows \in Seq(S)
  BY DEF FilesInv, Files
<1>2. rows \in Seq(S \cup {Cell}) /\ rows' = Append(rows, Cell) /\ Cell' = Cell
  BY <1>1 DEF WriteRow, Cell, Name, servers, conns_list
<1>3. /\ rows' \in Seq(S \cup {Cell})
      /\ Len(rows') = Len(rows) + 1 /\ rows'[Len(rows) + 1] = Cell
      /\ \A r \in DOMAIN rows : r \in DOMAIN rows' /\ rows'[r] = rows[r]
  BY <1>2
<1>4. Listed(Cell)'
  <2>1. Len(rows) + 1 \in DOMAIN rows'
    BY <1>2, <1>3
  <2> QED BY <1>2, <1>3, <2>1 DEF Listed
<1>5. TimelineFollows'
  BY <1>3 DEF FilesInv, TimelineFollows, WriteRow, Opened
<1> QED BY <1>3, <1>4, <1>5 DEF FilesInv, Files, WriteRow

(* The windows of the current cell follow those of earlier cells.          *)
LEMMA WindowFiles ==
    ASSUME FilesInv, WriteTimeline
    PROVE  FilesInv'
<1>1. PICK S : timeline \in Seq(S)
  BY DEF FilesInv, Files
<1>2. res \in Nat /\ pc = "windows" /\ UNCHANGED <<rows, res>> /\ pc' = "cool"
  BY DEF FilesInv, Files, WriteTimeline
<1> DEFINE T == S \cup {Cell}
           w == [i \in 1 .. res |-> Cell]
<1>3. w \in Seq(T) /\ Len(w) = res /\ timeline \in Seq(T)
  BY <1>1, <1>2
<1>4. timeline' = timeline \o w
  BY DEF WriteTimeline
<1> HIDE DEF w, T
<1>5. /\ timeline' \in Seq(T) /\ Len(timeline') = Len(timeline) + res
      /\ \A i \in 1 .. Len(timeline) + res :
           timeline'[i] = IF i <= Len(timeline) THEN timeline[i] ELSE w[i - Len(timeline)]
  BY <1>3, <1>4, ConcatProperties
<1>6. \A i \in DOMAIN timeline' : timeline'[i] = Cell \/ \E j \in DOMAIN timeline : timeline'[i] = timeline[j]
  <2> SUFFICES ASSUME NEW i \in DOMAIN timeline'
               PROVE  timeline'[i] = Cell \/ \E j \in DOMAIN timeline : timeline'[i] = timeline[j]
    OBVIOUS
  <2>1. i \in 1 .. Len(timeline) + res /\ Len(timeline) \in Nat
    BY <1>3, <1>5
  <2>2. CASE i <= Len(timeline)
    <3>1. i \in DOMAIN timeline /\ timeline'[i] = timeline[i]
      BY <2>1, <2>2, <1>3, <1>5
    <3> QED BY <3>1
  <2>3. CASE ~(i <= Len(timeline))
    <3>1. timeline'[i] = w[i - Len(timeline)] /\ i - Len(timeline) \in 1 .. res
      BY <2>1, <2>3, <1>2, <1>5
    <3> QED BY <3>1 DEF w
  <2> QED BY <2>2, <2>3
<1>7. TimelineFollows'
  BY <1>2, <1>6 DEF FilesInv, TimelineFollows, Listed, Opened
<1> QED BY <1>2, <1>5, <1>7 DEF FilesInv, Files

LEMMA FilesStep == FilesInv /\ [Next]_vars => FilesInv'
<1> SUFFICES ASSUME FilesInv, [Next]_vars PROVE FilesInv'
  OBVIOUS
<1>1. CASE WriteRow
  BY <1>1, RowFiles
<1>2. CASE WriteTimeline
  BY <1>2, WindowFiles
<1>3. CASE BuildLoadgen \/ OpenResults
  <2>1. res' = res /\ timeline' = timeline /\ (rows' = rows \/ rows' = <<>>)
    BY <1>3 DEF BuildLoadgen, OpenResults, outVars
  <2>2. ~Opened' /\ pc' \notin {"row", "windows"}
    BY <1>3 DEF BuildLoadgen, OpenResults, Opened
  <2>3. \E S : rows' \in Seq(S)
    <3>1. <<>> \in Seq({})
      OBVIOUS
    <3> QED BY <2>1, <3>1 DEF FilesInv, Files
  <2> QED BY <2>1, <2>2, <2>3 DEF FilesInv, Files, TimelineFollows
<1>4. CASE OpenTimeline
  <2>1. res' = res /\ rows' = rows /\ timeline' = <<>> /\ pc' = "server"
    BY <1>4 DEF OpenTimeline
  <2>2. timeline' \in Seq({})
    BY <2>1
  <2> QED BY <2>1, <2>2 DEF FilesInv, Files, TimelineFollows
<1> USE DEF FilesInv, Files, TimelineFollows, Listed, outVars, Opened
<1>5. CASE LoadgenEnds
  <2>1. res' \in Nat \cup {None}
    BY <1>5, RunnerAssumption DEF LoadgenEnds
  <2>2. UNCHANGED <<rows, timeline>> /\ pc = "load" /\ pc' = "join"
    BY <1>5 DEF LoadgenEnds
  <2> QED BY <2>1, <2>2
<1>6. CASE \/ PickServer \/ EnterStart \/ Popen \/ Started \/ Ready \/ NotReady \/ Join
           \/ Terminate \/ Kill \/ Reap \/ Cooldown
  BY <1>6 DEF PickServer, EnterStart, Popen, Started, Ready, NotReady, Join, Terminate, Kill,
              Reap, Cooldown
<1>7. CASE Stopped
  BY <1>7 DEF Stopped
<1>8. CASE Process \/ Sampler \/ UNCHANGED vars
  <2>1. UNCHANGED <<mainVars, res, rows, timeline>>
    BY <1>8 DEF Process, Bind, BindFail, Exit, Work, Die, Sampler, SampleFirst, SampleRss,
                SampleCpu, SampleEnd, vars, mainVars
  <2> QED BY <2>1 DEF mainVars, Cell, Name, servers, conns_list
<1> QED BY <1>1, <1>2, <1>3, <1>4, <1>5, <1>6, <1>7, <1>8 DEF Next, Main

\* From the moment timeline.csv has been opened (run.py:441) it never holds windows of a
\* run that results.csv does not list, whatever the matrix, whatever an earlier invocation
\* left in the two files and wherever the runner is when they are read (run.py:497, 524).
\* Between the two openings (434 to 441) it may: earlier windows are still there and the
\* rows are not.
THEOREM TimelineAfterRow == Spec => []TimelineFollows
<1>1. Init => FilesInv
  BY FilesInit
<1>2. FilesInv /\ [Next]_vars => FilesInv'
  BY FilesStep
<1>3. FilesInv => TimelineFollows
  BY DEF FilesInv
<1> QED BY <1>1, <1>2, <1>3, PTL DEF Spec

-----------------------------------------------------------------------------

CellAt(i) == <<servers[i[1]], conns_list[i[2]], i[3]>>
Places == (1 .. Len(servers) + 1) \X (1 .. Len(conns_list)) \X (1 .. trials)

\* The cells main() has passed, the one it is at, and the ones to come.
Past ==
    \A i \in Indices : Precedes(i, at) => (RowsOf(i) = {} <=> Reported(i))

Future ==
    \A i \in Indices : ~Precedes(i, at) /\ i # at => RowsOf(i) = {} /\ ~Reported(i)

Present ==
    /\ pc = "server" => at[2] = 1 /\ at[3] = 1
    /\ pc \notin {"server", "done"} => at \in Indices
    /\ pc = "done" => at \notin Indices
    /\ pc \in {"popen", "wait", "load"} => res = None
    /\ pc = "row" => res # None
    /\ at \in Indices =>
         /\ pc \in {"server", "raised", "start", "popen", "wait", "load", "row", "windows"} => ~Reported(at)
         /\ pc \in {"join", "term", "kill", "reap"} => (Reported(at) <=> res = None)
         /\ pc \notin {"windows", "cool"} => RowsOf(at) = {}
         /\ pc = "windows" => RowsOf(at) # {}
         /\ pc = "cool" => (RowsOf(at) = {} <=> Reported(at))

RowsOnce == \A i \in Indices : \A r, q \in RowsOf(i) : r = q

RowsOrdered ==
    \A i, j \in Indices : Precedes(i, j) => \A r \in RowsOf(i), q \in RowsOf(j) : r < q

Book ==
    /\ args \in Commands
    /\ pc \in {"build", "results", "timeline"} => at = <<1, 1, 1>> /\ told = {}
    /\ pc = "timeline" => rows = <<>>
    /\ Opened =>
         at \in Places /\ Past /\ Present /\ Future /\ RowsOnce /\ RowsOrdered


LEMMA ProperFacts ==
    ASSUME \A c \in Commands : Proper(c), args \in Commands
    PROVE  /\ DOMAIN servers = 1 .. Len(servers) /\ Len(servers) \in Nat
           /\ DOMAIN conns_list = 1 .. Len(conns_list) /\ Len(conns_list) \in Nat
           /\ Len(conns_list) >= 1 /\ trials \in Nat /\ trials >= 1
           /\ \A s, t \in DOMAIN servers : servers[s] = servers[t] => s = t
           /\ \A m, n \in DOMAIN conns_list : conns_list[m] = conns_list[n] => m = n
           /\ \A s \in DOMAIN servers, i \in Indices : servers[s] # CellAt(i)
<1>1. Proper(args) /\ args.trials \in Nat \ {0} /\ Len(args.conns) > 0
  BY RunnerAssumption
<1>2. \A s, t \in DOMAIN servers, n \in DOMAIN conns_list, u \in 1 .. trials :
         servers[s] # <<servers[t], conns_list[n], u>>
  BY <1>1 DEF Proper, servers, conns_list, trials
<1>3. \A s \in DOMAIN servers, i \in Indices : servers[s] # CellAt(i)
  BY <1>2 DEF CellAt, Indices
<1> QED BY <1>1, <1>3 DEF Proper, servers, conns_list, trials

\* Different places of the matrix are different cells.
LEMMA CellsDiffer ==
    ASSUME \A c \in Commands : Proper(c), args \in Commands,
           NEW i \in Indices, NEW j \in Indices, CellAt(i) = CellAt(j)
    PROVE  i = j
<1>1. servers[i[1]] = servers[j[1]] /\ conns_list[i[2]] = conns_list[j[2]] /\ i[3] = j[3]
  BY DEF CellAt
<1>2. /\ i[1] \in DOMAIN servers /\ j[1] \in DOMAIN servers
      /\ i[2] \in DOMAIN conns_list /\ j[2] \in DOMAIN conns_list
      /\ i = <<i[1], i[2], i[3]>> /\ j = <<j[1], j[2], j[3]>>
  BY DEF Indices
<1>3. i[1] = j[1] /\ i[2] = j[2]
  BY <1>1, <1>2, ProperFacts
<1> QED BY <1>1, <1>2, <1>3

\* The place after <<s, c, t>> in the order of the matrix.
After(C, T, s, c, t) ==
    IF t < T THEN <<s, c, t + 1>> ELSE IF c < C THEN <<s, c + 1, 1>> ELSE <<s + 1, 1, 1>>

LEMMA NextPlace ==
    ASSUME NEW C \in Nat, NEW T \in Nat, C >= 1, T >= 1,
           NEW s \in Nat, NEW c \in 1 .. C, NEW t \in 1 .. T,
           NEW n, n = After(C, T, s, c, t)
    PROVE  /\ n[1] \in {s, s + 1} /\ n[2] \in 1 .. C /\ n[3] \in 1 .. T
           /\ n[1] # s => n[2] = 1 /\ n[3] = 1
           /\ n = <<n[1], n[2], n[3]>>
<1>1. CASE t < T
  BY <1>1 DEF After
<1>2. CASE ~(t < T) /\ c < C
  BY <1>2 DEF After
<1>3. CASE ~(t < T) /\ ~(c < C)
  BY <1>3 DEF After
<1> QED BY <1>1, <1>2, <1>3

LEMMA NextOrder ==
    ASSUME NEW C \in Nat, NEW T \in Nat, C >= 1, T >= 1,
           NEW s \in Nat, NEW c \in 1 .. C, NEW t \in 1 .. T,
           NEW i, i \in Nat \X (1 .. C) \X (1 .. T)
    PROVE  Precedes(i, After(C, T, s, c, t)) <=> Precedes(i, <<s, c, t>>) \/ i = <<s, c, t>>
<1>1. CASE t < T
  BY <1>1 DEF Precedes, After
<1>2. CASE ~(t < T) /\ c < C
  BY <1>2 DEF Precedes, After
<1>3. CASE ~(t < T) /\ ~(c < C)
  BY <1>3 DEF Precedes, After
<1> QED BY <1>1, <1>2, <1>3

LEMMA AdvanceFacts ==
    ASSUME DOMAIN servers = 1 .. Len(servers), Len(servers) \in Nat,
           DOMAIN conns_list = 1 .. Len(conns_list), Len(conns_list) \in Nat,
           Len(conns_list) >= 1, trials \in Nat, trials >= 1, at \in Indices
    PROVE  /\ Advance \in Places
           /\ Advance[1] = at[1] => Advance \in Indices
           /\ Advance[1] # at[1] => Advance[2] = 1 /\ Advance[3] = 1
           /\ \A i \in Indices : Precedes(i, Advance) <=> Precedes(i, at) \/ i = at
<1>1. /\ DOMAIN servers = 1 .. Len(servers) /\ Len(servers) \in Nat
      /\ DOMAIN conns_list = 1 .. Len(conns_list) /\ Len(conns_list) \in Nat
      /\ Len(conns_list) >= 1 /\ trials \in Nat /\ trials >= 1
  OBVIOUS
<1>2. PICK s \in 1 .. Len(servers), c \in 1 .. Len(conns_list), t \in 1 .. trials : at = <<s, c, t>>
  BY <1>1 DEF Indices
<1>3. Advance = After(Len(conns_list), trials, s, c, t)
  <2>1. [at EXCEPT ![3] = @ + 1] = <<s, c, t + 1>>
    BY <1>2
  <2>2. at[1] = s /\ at[2] = c /\ at[3] = t
    BY <1>2
  <2> QED BY <2>1, <2>2 DEF Advance, After
<1>4. s \in Nat
  BY <1>1
<1>5. /\ Advance[1] \in {s, s + 1} /\ Advance[2] \in 1 .. Len(conns_list) /\ Advance[3] \in 1 .. trials
      /\ Advance[1] # s => Advance[2] = 1 /\ Advance[3] = 1
      /\ Advance = <<Advance[1], Advance[2], Advance[3]>>
  BY <1>1, <1>2, <1>3, <1>4, NextPlace
<1>6. Advance \in Places
  BY <1>1, <1>5 DEF Places
<1>7. Advance[1] = at[1] => Advance \in Indices
  BY <1>1, <1>2, <1>5 DEF Indices
<1>8. ASSUME NEW i \in Indices
      PROVE  Precedes(i, Advance) <=> Precedes(i, at) \/ i = at
  <2>1. i \in Nat \X (1 .. Len(conns_list)) \X (1 .. trials)
    BY <1>1, <1>8 DEF Indices
  <2> QED BY <1>1, <1>2, <1>3, <1>4, <2>1, NextOrder
<1> QED BY <1>2, <1>5, <1>6, <1>7, <1>8

\* Steps that do not touch the books.
LEMMA BookQuiet ==
    ASSUME Book, UNCHANGED <<args, at, rows, told>>, Opened, Opened', Present'
    PROVE  Book'
<1>1. at \in Places /\ Past /\ Future /\ RowsOnce /\ RowsOrdered
  BY DEF Book
<1>2. /\ Places' = Places /\ Indices' = Indices
      /\ \A i : RowsOf(i)' = RowsOf(i) /\ (Reported(i)' <=> Reported(i))
  BY DEF Places, Indices, RowsOf, Reported, servers, conns_list, trials
<1>3. (at \in Places)' /\ Past' /\ Future' /\ RowsOnce' /\ RowsOrdered'
  BY <1>1, <1>2 DEF Past, Future, RowsOnce, RowsOrdered
<1> QED BY <1>1, <1>3 DEF Book, Opened

(* A report on the current cell.                                           *)
LEMMA BookTold ==
    ASSUME \A c \in Commands : Proper(c), Book, UNCHANGED <<args, at, rows>>,
           Opened, at \in Indices, told' = told \cup {Cell},
           Opened', RowsOf(at) = {},
           (RowsOf(at)' = {} /\ Reported(at)') => Present'
    PROVE  Book'
<1>1. args \in Commands /\ at \in Places /\ Past /\ Future /\ RowsOnce /\ RowsOrdered
  BY DEF Book
<1>2. /\ Places' = Places /\ Indices' = Indices
      /\ \A i : RowsOf(i)' = RowsOf(i)
  BY DEF Places, Indices, RowsOf, servers, conns_list, trials
<1>3. Cell = CellAt(at) /\ Reported(at)'
  BY DEF Cell, CellAt, Name, Reported, servers, conns_list
<1>4. ASSUME NEW i \in Indices, i # at
      PROVE  Reported(i)' <=> Reported(i)
  <2>1. CellAt(i) # Cell
    BY <1>1, <1>3, <1>4, CellsDiffer
  <2>2. i[1] \in DOMAIN servers
    BY <1>4 DEF Indices
  <2>3. servers[i[1]] # Cell
    BY <1>1, <1>3, <2>2, ProperFacts
  <2> QED BY <2>1, <2>3 DEF Reported, CellAt, servers, conns_list
<1>5. ~Precedes(at, at)
  BY <1>1, ProperFacts DEF Precedes, Places
<1>6. Past' /\ Future' /\ RowsOnce' /\ RowsOrdered' /\ (at \in Places)'
  BY <1>1, <1>2, <1>4, <1>5 DEF Past, Future, RowsOnce, RowsOrdered
<1> QED BY <1>1, <1>2, <1>3, <1>6 DEF Book, Opened

(* Both files are empty and the matrix begins.                             *)
LEMMA OpenBook ==
    ASSUME \A c \in Commands : Proper(c), Book, OpenTimeline
    PROVE  Book'
<1>1. /\ args' = args /\ args \in Commands /\ at' = at /\ at = <<1, 1, 1>>
      /\ rows' = <<>> /\ told' = {} /\ pc' = "server"
  BY DEF Book, OpenTimeline
<1>2. /\ Places' = Places /\ Indices' = Indices
      /\ \A i : RowsOf(i)' = {} /\ ~Reported(i)'
  BY <1>1 DEF Places, Indices, RowsOf, Reported, servers, conns_list, trials
<1>3. at \in Places /\ \A i \in Indices : ~Precedes(i, at)
  BY <1>1, ProperFacts DEF Places, Indices, Precedes
<1>4. Past' /\ Future' /\ RowsOnce' /\ RowsOrdered' /\ (at \in Places)'
  BY <1>1, <1>2, <1>3 DEF Past, Future, RowsOnce, RowsOrdered
<1>5. Present'
  BY <1>1, <1>2 DEF Present
<1> QED BY <1>1, <1>4, <1>5 DEF Book

(* A server that is skipped: all its cells are reported by its name.       *)
LEMMA SkipBook ==
    ASSUME \A c \in Commands : Proper(c), Book, UNCHANGED <<args, rows>>,
           pc = "server", pc' = "server", at[1] <= Len(servers),
           told' = told \cup {Name}, at' = <<at[1] + 1, 1, 1>>
    PROVE  Book'
<1>1. /\ args \in Commands /\ at \in Places /\ Past /\ Future /\ RowsOnce /\ RowsOrdered
      /\ Present /\ at[2] = 1 /\ at[3] = 1
  BY DEF Book, Opened, Present
<1>2. /\ DOMAIN servers = 1 .. Len(servers) /\ Len(servers) \in Nat
      /\ DOMAIN conns_list = 1 .. Len(conns_list) /\ Len(conns_list) \in Nat
      /\ Len(conns_list) >= 1 /\ trials \in Nat /\ trials >= 1
      /\ \A s, t \in DOMAIN servers : servers[s] = servers[t] => s = t
      /\ \A s \in DOMAIN servers, i \in Indices : servers[s] # CellAt(i)
  BY <1>1, ProperFacts
<1>3. at \in Indices /\ at[1] \in DOMAIN servers
  BY <1>1, <1>2 DEF Indices, Places
<1>4. /\ Places' = Places /\ Indices' = Indices
      /\ \A i : RowsOf(i)' = RowsOf(i)
  BY DEF Places, Indices, RowsOf, servers, conns_list, trials
<1>5. ASSUME NEW i \in Indices
      PROVE  Reported(i)' <=> Reported(i) \/ i[1] = at[1]
  <2>1. i[1] \in DOMAIN servers /\ Name = servers[at[1]]
    BY <1>5 DEF Indices, Name
  <2>2. CellAt(i) # Name /\ (servers[i[1]] = Name <=> i[1] = at[1])
    BY <1>2, <1>3, <1>5, <2>1
  <2> QED BY <2>2 DEF Reported, CellAt, servers, conns_list
<1>6. ASSUME NEW i \in Indices
      PROVE  /\ Precedes(i, at') <=> Precedes(i, at) \/ i[1] = at[1]
             /\ i[1] = at[1] => ~Precedes(i, at)
  <2>1. i[1] \in Nat /\ i[2] \in Nat /\ i[3] \in Nat /\ i[2] >= 1 /\ i[3] >= 1 /\ at[1] \in Nat
    BY <1>2, <1>3, <1>6 DEF Indices
  <2>2. at'[1] = at[1] + 1 /\ at'[2] = 1 /\ at'[3] = 1
    OBVIOUS
  <2> QED BY <1>1, <2>1, <2>2 DEF Precedes
<1>7. at' \in Places /\ at'[1] # at[1] /\ at' # at /\ ~Precedes(at', at)
  BY <1>1, <1>2, <1>3 DEF Places, Precedes
<1>8. \A i \in Indices : i[1] = at[1] => RowsOf(i) = {}
  <2>1. RowsOf(at) = {}
    BY <1>1, <1>3 DEF Present
  <2> QED BY <1>1, <1>6, <2>1 DEF Future
<1>9. Past'
  BY <1>1, <1>4, <1>5, <1>6, <1>8 DEF Past
<1>10. Future'
  <2> SUFFICES ASSUME NEW i \in Indices, ~Precedes(i, at'), i # at'
               PROVE  RowsOf(i) = {} /\ ~Reported(i)'
    BY <1>4 DEF Future
  <2>1. ~Precedes(i, at) /\ i[1] # at[1]
    BY <1>6
  <2> QED BY <1>1, <1>5, <2>1 DEF Future
<1>11. Present'
  <2>1. PICK n : n = at'
    OBVIOUS
  <2>2. n \in Indices => RowsOf(n) = {} /\ ~Reported(n)'
    BY <1>1, <1>5, <1>7, <2>1 DEF Future
  <2>3. (at \in Indices)' => RowsOf(at)' = {} /\ ~Reported(at)'
    BY <1>4, <2>1, <2>2 DEF RowsOf, Reported
  <2> QED BY <2>3 DEF Present
<1>12. RowsOnce' /\ RowsOrdered'
  BY <1>1, <1>4 DEF RowsOnce, RowsOrdered
<1> QED BY <1>1, <1>4, <1>7, <1>9, <1>10, <1>11, <1>12 DEF Book, Opened

(* The row of the current cell is the last of the file and its only one.   *)
LEMMA RowBook ==
    ASSUME \A c \in Commands : Proper(c), Book, FilesInv, WriteRow
    PROVE  Book'
<1>1. /\ args \in Commands /\ at \in Places /\ Past /\ Future /\ RowsOnce /\ RowsOrdered
      /\ Present /\ at \in Indices /\ RowsOf(at) = {} /\ ~Reported(at)
      /\ UNCHANGED <<args, at, told, res>> /\ pc' = "windows"
  BY DEF Book, Opened, Present, WriteRow
<1>2. PICK S : rows \in Seq(S)
  BY DEF FilesInv, Files
<1>3. rows \in Seq(S \cup {Cell}) /\ rows' = Append(rows, Cell) /\ Cell = CellAt(at)
  BY <1>2 DEF WriteRow, Cell, CellAt, Name
<1>4. PICK L \in Nat : L = Len(rows)
  BY <1>2
<1>5. /\ DOMAIN rows = 1 .. L /\ DOMAIN rows' = 1 .. L + 1
      /\ rows'[L + 1] = Cell /\ \A r \in 1 .. L : rows'[r] = rows[r]
  BY <1>3, <1>4
<1>6. /\ Places' = Places /\ Indices' = Indices
      /\ \A i : Reported(i)' <=> Reported(i)
      /\ \A i : RowsOf(i) = {r \in DOMAIN rows : rows[r] = CellAt(i)}
      /\ \A i : RowsOf(i)' = {r \in DOMAIN rows' : rows'[r] = CellAt(i)}
  BY <1>1 DEF Places, Indices, RowsOf, Reported, CellAt, servers, conns_list, trials
<1>7. ASSUME NEW i \in Indices, i # at
      PROVE  RowsOf(i)' = RowsOf(i)
  <2>1. CellAt(i) # Cell
    BY <1>1, <1>3, <1>7, CellsDiffer
  <2>2. \A r : r \in 1 .. L + 1 <=> r \in 1 .. L \/ r = L + 1
    OBVIOUS
  <2>3. \A r : r \in DOMAIN rows' /\ rows'[r] = CellAt(i) <=> r \in DOMAIN rows /\ rows[r] = CellAt(i)
    BY <1>5, <2>1, <2>2
  <2>4. {r \in DOMAIN rows' : rows'[r] = CellAt(i)} = {r \in DOMAIN rows : rows[r] = CellAt(i)}
    BY <2>3
  <2> QED BY <1>6, <2>4
<1>8. RowsOf(at)' = {L + 1}
  <2>1. PICK n : n = at /\ n = at'
    BY <1>1
  <2>2. {r \in DOMAIN rows : rows[r] = CellAt(n)} = {}
    BY <1>1, <1>6, <2>1
  <2>3. RowsOf(n)' = {L + 1}
    BY <1>3, <1>5, <1>6, <2>1, <2>2
  <2> QED BY <2>1, <2>3 DEF RowsOf
<1>9. \A i \in Indices : RowsOf(i) \subseteq 1 .. L
  BY <1>5, <1>6
<1>10. PICK n : n = at /\ n = at' /\ RowsOf(n)' = {L + 1} /\ n \in Indices
  BY <1>1, <1>8 DEF RowsOf
<1>11. ~Precedes(n, n)
  BY <1>1, <1>10, ProperFacts DEF Precedes, Places
<1>12. Past' /\ Future'
  BY <1>1, <1>6, <1>7, <1>10, <1>11 DEF Past, Future
<1>13. Present'
  <2>1. RowsOf(at)' # {} /\ ~Reported(at)' /\ (at \in Indices)' /\ res' # None
    BY <1>1, <1>6, <1>8, <1>10 DEF FilesInv, WriteRow, Reported
  <2> QED BY <1>1, <2>1 DEF Present
<1>14. RowsOnce'
  BY <1>1, <1>6, <1>7, <1>10 DEF RowsOnce
<1>15. RowsOrdered'
  <2> SUFFICES ASSUME NEW i \in Indices, NEW j \in Indices, Precedes(i, j),
                      NEW r \in RowsOf(i)', NEW q \in RowsOf(j)'
               PROVE  r < q
    BY <1>6 DEF RowsOrdered
  <2>1. CASE i # n /\ j # n
    BY <1>1, <1>7, <1>10, <2>1 DEF RowsOrdered
  <2>2. CASE i # n /\ j = n
    <3>1. r \in 1 .. L /\ q = L + 1
      BY <1>7, <1>9, <1>10, <2>2
    <3> QED BY <3>1
  <2>3. CASE i = n /\ j # n
    <3>1. ~Precedes(j, at)
      <4>1. /\ i[1] \in Nat /\ i[2] \in Nat /\ i[3] \in Nat
            /\ j[1] \in Nat /\ j[2] \in Nat /\ j[3] \in Nat
        BY <1>1, ProperFacts DEF Indices
      <4> QED BY <1>10, <2>3, <4>1 DEF Precedes
    <3>2. RowsOf(j) = {}
      BY <1>1, <1>10, <2>3, <3>1 DEF Future
    <3> QED BY <1>7, <1>10, <2>3, <3>2
  <2>4. CASE i = n /\ j = n
    BY <1>11, <2>4
  <2> QED BY <2>1, <2>2, <2>3, <2>4
<1> QED BY <1>1, <1>6, <1>12, <1>13, <1>14, <1>15 DEF Book, Opened

(* The innermost loop moves on.                                            *)
LEMMA CoolBook ==
    ASSUME \A c \in Commands : Proper(c), Book, Cooldown
    PROVE  Book'
<1>1. /\ args \in Commands /\ at \in Places /\ Past /\ Future /\ RowsOnce /\ RowsOrdered
      /\ Present /\ at \in Indices /\ (RowsOf(at) = {} <=> Reported(at))
      /\ UNCHANGED <<args, rows, told, res>> /\ at' = Advance
      /\ pc' = IF Advance[1] = at[1] THEN "start" ELSE "server"
  BY DEF Book, Opened, Present, Cooldown, outVars
<1>2. /\ Places' = Places /\ Indices' = Indices
      /\ \A i : RowsOf(i)' = RowsOf(i) /\ (Reported(i)' <=> Reported(i))
  BY <1>1 DEF Places, Indices, RowsOf, Reported, servers, conns_list, trials
<1>3. PICK n : n = at' /\ n = Advance
  BY <1>1
<1>4. /\ n \in Places
      /\ n[1] = at[1] => n \in Indices
      /\ n[1] # at[1] => n[2] = 1 /\ n[3] = 1
      /\ \A i \in Indices : Precedes(i, n) <=> Precedes(i, at) \/ i = at
  BY <1>1, <1>3, ProperFacts, AdvanceFacts
<1>5. Past' /\ Future'
  BY <1>1, <1>2, <1>3, <1>4 DEF Past, Future
<1>6. Present'
  <2>1. ~Precedes(n, n)
    BY <1>1, <1>4, ProperFacts DEF Precedes, Places
  <2>2. n \in Indices => RowsOf(n) = {} /\ ~Reported(n)
    BY <1>1, <1>4, <2>1 DEF Future
  <2>3. (at \in Indices)' => RowsOf(at)' = {} /\ ~Reported(at)'
    BY <1>2, <1>3, <2>2 DEF RowsOf, Reported
  <2> QED BY <1>1, <1>2, <1>3, <1>4, <2>3 DEF Present
<1>7. RowsOnce' /\ RowsOrdered'
  BY <1>1, <1>2 DEF RowsOnce, RowsOrdered
<1> QED BY <1>1, <1>2, <1>3, <1>4, <1>5, <1>6, <1>7 DEF Book, Opened

LEMMA BookInit == Init => Book
  BY DEF Init, Book, Opened

LEMMA BookStep ==
    ASSUME \A c \in Commands : Proper(c), Book, FilesInv, [Next]_vars
    PROVE  Book'
<1>1. CASE BuildLoadgen \/ OpenResults
  BY <1>1 DEF BuildLoadgen, OpenResults, Book, Opened, outVars
<1>2. CASE OpenTimeline
  BY <1>2, OpenBook
<1>3. CASE PickServer
  <2>1. CASE at[1] > Len(servers) /\ pc' = "done" /\ UNCHANGED <<at, told>>
    <3>1. UNCHANGED <<args, at, rows, told>> /\ pc = "server"
      BY <1>3, <2>1 DEF PickServer
    <3>2. at \notin Indices
      BY <2>1, ProperFacts DEF Book, Indices
    <3>3. (at \notin Indices)'
      BY <3>1, <3>2 DEF Indices, servers, conns_list, trials
    <3>4. Present'
      BY <2>1, <3>3 DEF Present
    <3> QED BY <2>1, <3>1, <3>4, BookQuiet DEF Opened
  <2>2. CASE at[1] <= Len(servers) /\ told' = told \cup {Name} /\ at' = <<at[1] + 1, 1, 1>> /\ UNCHANGED pc
    BY <1>3, <2>2, SkipBook DEF PickServer
  <2>3. CASE at[1] <= Len(servers) /\ pc' \in {"start", "raised"} /\ UNCHANGED <<at, told>>
    <3>1. UNCHANGED <<args, at, rows, told>> /\ pc = "server"
      BY <1>3, <2>3 DEF PickServer
    <3>2. at \in Indices
      BY <2>3, <3>1, ProperFacts DEF Book, Opened, Indices, Places
    <3>3. Present'
      BY <2>3, <3>1, <3>2 DEF Book, Opened, Present, Indices, RowsOf, Reported, servers, conns_list, trials
    <3> QED BY <2>3, <3>1, <3>3, BookQuiet DEF Opened
  <2> QED BY <1>3, <2>1, <2>2, <2>3 DEF PickServer
<1>4. CASE EnterStart \/ Popen \/ Started \/ Ready
  <2>1. UNCHANGED <<args, at, rows, told>>
    BY <1>4 DEF EnterStart, Popen, Started, Ready, outVars
  <2>2. pc \in {"start", "popen", "wait"} /\ pc' \in {"popen", "wait", "load"}
    BY <1>4 DEF EnterStart, Popen, Started, Ready
  <2>3. res' = None \/ (pc \in {"popen", "wait"} /\ res' = res)
    BY <1>4 DEF EnterStart, Popen, Started, Ready
  <2>4. Present'
    BY <2>1, <2>2, <2>3 DEF Book, Opened, Present, Indices, RowsOf, Reported, servers, conns_list, trials
  <2> QED BY <2>1, <2>2, <2>4, BookQuiet DEF Opened
<1>5. CASE NotReady
  <2>1. /\ UNCHANGED <<args, at, rows, res>> /\ pc = "wait" /\ pc' = "term"
        /\ told' = told \cup {Cell}
    BY <1>5 DEF NotReady
  <2>2. at \in Indices /\ (at \in Indices)' /\ RowsOf(at) = {} /\ res' = None
    BY <2>1 DEF Book, Opened, Present, Indices, servers, conns_list, trials
  <2>3. (RowsOf(at)' = {} /\ Reported(at)') => Present'
    BY <2>1, <2>2 DEF Present
  <2> QED BY <2>1, <2>2, <2>3, BookTold DEF Opened
<1>6. CASE LoadgenEnds
  <2>1. UNCHANGED <<args, at, rows>> /\ pc = "load" /\ pc' = "join"
    BY <1>6 DEF LoadgenEnds
  <2>2. at \in Indices /\ (at \in Indices)' /\ RowsOf(at) = {} /\ ~Reported(at)
    BY <2>1 DEF Book, Opened, Present, Indices, servers, conns_list, trials
  <2>3. CASE res' \in 0 .. MaxWindows /\ UNCHANGED told
    <3>1. res' # None
      BY <2>3, RunnerAssumption
    <3>2. Present'
      BY <2>1, <2>2, <2>3, <3>1 DEF Present, RowsOf, Reported, servers, conns_list
    <3> QED BY <2>1, <2>3, <3>2, BookQuiet DEF Opened
  <2>4. CASE res' = None /\ told' = told \cup {Cell}
    <3>1. (RowsOf(at)' = {} /\ Reported(at)') => Present'
      BY <2>1, <2>2, <2>4 DEF Present
    <3> QED BY <2>1, <2>2, <2>4, <3>1, BookTold DEF Opened
  <2> QED BY <1>6, <2>3, <2>4 DEF LoadgenEnds
<1>7. CASE Join \/ Terminate \/ Kill \/ Reap
  <2>1. /\ UNCHANGED <<args, at, rows, told, res>> /\ pc \in {"join", "term", "kill", "reap"}
        /\ pc' \in {"term", "kill", "reap"}
    BY <1>7 DEF Join, Terminate, Kill, Reap, outVars
  <2>2. Present'
    BY <2>1 DEF Book, Opened, Present, Indices, RowsOf, Reported, servers, conns_list, trials
  <2> QED BY <2>1, <2>2, BookQuiet DEF Opened
<1>8. CASE Stopped
  <2>1. /\ UNCHANGED <<args, at, rows, told, res>> /\ pc = "kill"
        /\ pc' = IF res = None THEN "cool" ELSE "row"
    BY <1>8 DEF Stopped, outVars
  <2>2. Present'
    BY <2>1 DEF Book, Opened, Present, Indices, RowsOf, Reported, servers, conns_list, trials
  <2> QED BY <2>1, <2>2, BookQuiet DEF Opened
<1>9. CASE WriteRow
  BY <1>9, RowBook
<1>10. CASE WriteTimeline
  <2>1. UNCHANGED <<args, at, rows, told, res>> /\ pc = "windows" /\ pc' = "cool"
    BY <1>10 DEF WriteTimeline
  <2>2. Present'
    BY <2>1 DEF Book, Opened, Present, Indices, RowsOf, Reported, servers, conns_list, trials
  <2> QED BY <2>1, <2>2, BookQuiet DEF Opened
<1>11. CASE Cooldown
  BY <1>11, CoolBook
<1>12. CASE Process \/ Sampler \/ UNCHANGED vars
  <2>1. UNCHANGED <<args, at, rows, told, res, pc>>
    BY <1>12 DEF Process, Bind, BindFail, Exit, Work, Die, Sampler, SampleFirst, SampleRss,
                 SampleCpu, SampleEnd, vars, mainVars, outVars
  <2>2. CASE ~Opened
    BY <2>1, <2>2 DEF Book, Opened
  <2>3. CASE Opened
    <3>1. Present'
      BY <2>1, <2>3 DEF Book, Opened, Present, Indices, RowsOf, Reported, servers, conns_list, trials
    <3> QED BY <2>1, <2>3, <3>1, BookQuiet DEF Opened
  <2> QED BY <2>2, <2>3
<1> QED BY <1>1, <1>2, <1>3, <1>4, <1>5, <1>6, <1>7, <1>8, <1>9, <1>10, <1>11, <1>12 DEF Next, Main

LEMMA BookLedger == Book => Ledger
<1> SUFFICES ASSUME Book, Opened, Past, RowsOnce, RowsOrdered
             PROVE  \A i \in Indices : Precedes(i, at) =>
                      Cardinality(RowsOf(i)) = IF Reported(i) THEN 0 ELSE 1
  BY DEF Book, Ledger, RowsOrdered
<1> SUFFICES ASSUME NEW i \in Indices, Precedes(i, at)
             PROVE  Cardinality(RowsOf(i)) = IF Reported(i) THEN 0 ELSE 1
  OBVIOUS
<1>1. RowsOf(i) = {} <=> Reported(i)
  BY DEF Past
<1>2. CASE RowsOf(i) = {}
  BY <1>1, <1>2, FS_EmptySet
<1>3. CASE RowsOf(i) # {}
  <2>1. PICK r : r \in RowsOf(i)
    BY <1>3
  <2>2. \A q \in RowsOf(i) : q = r
    BY <2>1 DEF RowsOnce
  <2>3. RowsOf(i) = {r}
    BY <2>1, <2>2
  <2>4. Cardinality({r}) = 1
    BY FS_Singleton
  <2> QED BY <1>1, <1>3, <2>3, <2>4
<1> QED BY <1>2, <1>3

\* Nothing is lost silently, for every matrix that names no server and no number of
\* connections twice and for every failure: each cell main() has passed has exactly
\* one row or was reported on stderr and has none, and the rows are in the order of
\* the matrix (run.py:456-539).
THEOREM NothingLost ==
    ASSUME \A c \in Commands : Proper(c)
    PROVE  Spec => []Ledger
<1>1. Init => Book /\ FilesInv
  BY BookInit, FilesInit
<1>2. Book /\ FilesInv /\ [Next]_vars => (Book /\ FilesInv)'
  BY BookStep, FilesStep
<1>3. Book => Ledger
  BY BookLedger
<1> QED BY <1>1, <1>2, <1>3, PTL DEF Spec

-----------------------------------------------------------------------------

\* Where main() has a server in hand, and where it may have a sampler.
Working == {"start", "popen", "wait", "load", "join", "term", "kill", "reap", "row", "windows", "cool"}
Sampled == {"load", "join", "term", "kill", "reap", "row"}

ProcRec == [name : KnownServers, st : {"starting", "listening", "zombie"},
            sig : {"none", "term", "kill"}, cpu : 0 .. MaxCpu]
SmpRec(G, n) == [pc : {"off", "first", "loop", "cpu", "ended"}, pgids : SUBSET G,
                 pids : SUBSET G, stop : BOOLEAN, joined : BOOLEAN,
                 cpu_start : Nat \cup {None}, cpu_end : Nat \cup {None}, rss_peak : 0 .. n]

\* The parts of TypeOK, with what their induction needs.
AtOK == /\ args \in Commands /\ at \in Places
        /\ pc \in Working => at \in Indices /\ Name \in KnownServers
CountOK == k \in Nat /\ entry \in 0 .. Width /\ stopped \in 0 .. entry /\ (pc = "popen" => k >= 1)
OsOK == os \in [DOMAIN os -> ProcRec] /\ DOMAIN os \subseteq (1 .. k) \X (1 .. Width)
SmpOK == smp \in SmpRec(Group, Width) /\ (pc \notin Sampled => smp = NoSampler)
FileOK == /\ rows \in Seq(Cells \cup Earlier) /\ timeline \in Seq(Cells \cup Earlier)
          /\ Opened => rows \in Seq(Cells) /\ timeline \in Seq(Cells)
          /\ pc = "timeline" => rows = <<>>
RestOK == /\ pc \in Pcs /\ load \in {"off", "on"} /\ res \in (0 .. MaxWindows) \cup {None}
          /\ starts \in 1 .. MaxStarts

RunTypes == AtOK /\ CountOK /\ OsOK /\ SmpOK /\ FileOK /\ RestOK

LEMMA SizedFacts ==
    ASSUME \A c \in Commands : Sized(c), args \in Commands
    PROVE  /\ DOMAIN servers = 1 .. Len(servers) /\ Len(servers) \in Nat
           /\ DOMAIN conns_list = 1 .. Len(conns_list) /\ Len(conns_list) \in Nat
           /\ Len(conns_list) >= 1 /\ trials \in Nat /\ trials >= 1
           /\ Width \in Nat \ {0} /\ Cardinality(server_cores) \in Nat
<1>1. Sized(args) /\ args.trials \in Nat \ {0} /\ Len(args.conns) > 0
  BY RunnerAssumption
<1>2. Cardinality(server_cores) \in Nat
  BY <1>1, FS_CardinalityType DEF Sized, server_cores, half
<1>3. Width \in Nat \ {0}
  BY <1>2 DEF Width
<1> QED BY <1>1, <1>2, <1>3 DEF Sized, servers, conns_list, trials

\* A server gets no more processes than there are cores in the list.
LEMMA PlanSize ==
    ASSUME \A c \in Commands : Sized(c), args \in Commands, NEW n
    PROVE  Plan(n) \in 0 .. Width
BY SizedFacts DEF Plan, Width

LEMMA SameWidth == args' = args => Width' = Width
BY DEF Width, server_cores, half, parse_cores

LEMMA RunTypesInit ==
    ASSUME \A c \in Commands : Sized(c), Init
    PROVE  RunTypes
<1>1. args \in Commands /\ pc = "build" /\ at = <<1, 1, 1>>
  BY DEF Init
<1>2. AtOK
  BY <1>1, SizedFacts DEF AtOK, Places, Working
<1>3. CountOK
  BY <1>1, SizedFacts DEF CountOK, Init
<1>4. OsOK
  BY DEF OsOK, Init
<1>5. SmpOK
  BY <1>1, SizedFacts DEF SmpOK, SmpRec, NoSampler, Init
<1>6. rows \in Seq(Earlier) /\ timeline \in Seq(Earlier)
  BY RunnerAssumption DEF Init
<1>7. FileOK
  BY <1>1, <1>6 DEF FileOK, Opened
<1>8. RestOK
  BY <1>1, RunnerAssumption DEF RestOK, Pcs, Init
<1> QED BY <1>2, <1>3, <1>4, <1>5, <1>7, <1>8 DEF RunTypes

LEMMA AtStep ==
    ASSUME \A c \in Commands : Sized(c), RunTypes, [Next]_vars
    PROVE  AtOK'
<1>1. AtOK
  BY DEF RunTypes
<1>2. /\ DOMAIN servers = 1 .. Len(servers) /\ Len(servers) \in Nat
      /\ DOMAIN conns_list = 1 .. Len(conns_list) /\ Len(conns_list) \in Nat
      /\ Len(conns_list) >= 1 /\ trials \in Nat /\ trials >= 1
  BY <1>1, SizedFacts DEF AtOK
<1>3. args' = args
  BY DEF Next, Main, BuildLoadgen, OpenResults, OpenTimeline, PickServer, EnterStart, Popen, Started,
         Ready, NotReady, LoadgenEnds,
         Join, Terminate, Kill, Reap, Stopped, WriteRow, WriteTimeline, Cooldown, Sampler, SampleFirst,
         SampleRss, SampleCpu, SampleEnd, Process, Bind, BindFail, Exit, Work, Die, mainVars, vars
<1>4. Places' = Places /\ Indices' = Indices /\ servers' = servers
  BY <1>3 DEF Places, Indices, servers, conns_list, trials
<1>5. CASE PickServer
  <2>1. CASE UNCHANGED at /\ pc' \notin Working
    BY <1>1, <1>3, <1>4, <2>1 DEF AtOK
  <2>2. CASE UNCHANGED at /\ at[1] <= Len(servers) /\ Name \in KnownServers
    <3>1. at \in Indices
      BY <1>1, <1>2, <2>2 DEF AtOK, Places, Indices
    <3> QED BY <1>1, <1>3, <1>4, <2>2, <3>1 DEF AtOK, Name
  <2>3. CASE at' = <<at[1] + 1, 1, 1>> /\ at[1] <= Len(servers) /\ pc' = "server"
    <3>1. at' \in Places
      BY <1>1, <1>2, <2>3 DEF AtOK, Places
    <3> QED BY <1>1, <1>3, <1>4, <2>3, <3>1 DEF AtOK, Working
  <2> QED BY <1>5, <2>1, <2>2, <2>3 DEF PickServer, Working
<1>6. CASE Cooldown
  <2>1. at \in Indices /\ Name \in KnownServers
    BY <1>1, <1>6 DEF Cooldown, AtOK, Working
  <2>2. PICK n : n = Advance /\ n = at'
    BY <1>6 DEF Cooldown
  <2>3. n \in Places /\ (n[1] = at[1] => n \in Indices)
    BY <1>2, <2>1, <2>2, AdvanceFacts
  <2>4. n[1] # at[1] => pc' = "server"
    BY <1>6, <2>2 DEF Cooldown
  <2>5. n[1] = at[1] => servers'[at'[1]] = servers[at[1]]
    BY <1>4, <2>2
  <2> QED BY <1>1, <1>3, <1>4, <2>1, <2>2, <2>3, <2>4, <2>5 DEF AtOK, Name, Working
<1>7. CASE ~ PickServer /\ ~ Cooldown
  <2>1. at' = at /\ (pc' \in Working => pc \in Working)
    BY <1>7 DEF Next, Main, BuildLoadgen, OpenResults, OpenTimeline, EnterStart, Popen, Started, Ready,
         NotReady, LoadgenEnds,
         Join, Terminate, Kill, Reap, Stopped, WriteRow, WriteTimeline, Sampler, SampleFirst,
         SampleRss, SampleCpu, SampleEnd, Process, Bind, BindFail, Exit, Work, Die, mainVars, vars, Working
  <2> QED BY <1>1, <1>3, <1>4, <2>1 DEF AtOK, Name
<1> QED BY <1>5, <1>6, <1>7

LEMMA CountStep ==
    ASSUME \A c \in Commands : Sized(c), RunTypes, StopInv, [Next]_vars
    PROVE  CountOK'
<1>1. CountOK /\ args \in Commands
  BY DEF RunTypes, AtOK
<1>2. Width \in Nat
  BY <1>1, SizedFacts
<1>3. CASE Popen
  <2>1. Plan(Name) \in 0 .. Width
    BY <1>1, PlanSize
  <2> QED BY <1>1, <1>2, <1>3, <2>1, SameWidth DEF Popen, CountOK
<1>4. CASE EnterStart
  BY <1>1, <1>2, <1>4, SameWidth DEF EnterStart, CountOK
<1>5. CASE Reap
  <2>1. stopped < entry
    BY <1>5 DEF Reap, StopInv, StopProgress
  <2> QED BY <1>1, <1>2, <1>5, <2>1, SameWidth DEF Reap, CountOK
<1>6. CASE ~ Popen /\ ~ EnterStart /\ ~ Reap
  <2>1. UNCHANGED <<args, k, entry, stopped>> /\ (pc' = "popen" => pc = "popen")
    BY <1>6 DEF Next, Main, BuildLoadgen, OpenResults, OpenTimeline, PickServer, Started, Ready,
         NotReady, LoadgenEnds,
         Join, Terminate, Kill, Stopped, WriteRow, WriteTimeline, Cooldown, Sampler, SampleFirst,
         SampleRss, SampleCpu, SampleEnd, Process, Bind, BindFail, Exit, Work, Die, mainVars, vars
  <2> QED BY <1>1, <2>1, SameWidth DEF CountOK
<1> QED BY <1>3, <1>4, <1>5, <1>6

LEMMA OsStep ==
    ASSUME \A c \in Commands : Sized(c), RunTypes, StopInv, [Next]_vars
    PROVE  OsOK'
<1>0. OsOK /\ CountOK /\ args \in Commands /\ MaxCpu \in Nat
  BY RunnerAssumption DEF RunTypes, AtOK
<1>1. CASE os' = os
  <2>1. args' = args /\ (k' = k \/ k' = k + 1)
    BY DEF Next, Main, BuildLoadgen, OpenResults, OpenTimeline, PickServer, EnterStart, Popen, Started,
         Ready, NotReady, LoadgenEnds,
         Join, Terminate, Kill, Reap, Stopped, WriteRow, WriteTimeline, Cooldown, Sampler, SampleFirst,
         SampleRss, SampleCpu, SampleEnd, Process, Bind, BindFail, Exit, Work, Die, mainVars, vars
  <2>2. 1 .. k \subseteq 1 .. k'
    BY <1>0, <2>1 DEF CountOK
  <2> QED BY <1>0, <1>1, <2>1, <2>2, SameWidth DEF OsOK
<1>2. CASE Process
  <2>1. PICK g \in DOMAIN os : Bind(g) \/ BindFail(g) \/ Exit(g) \/ Work(g) \/ Die(g)
    BY <1>2 DEF Process
  <2>2. UNCHANGED <<args, k>>
    BY <1>2 DEF Process, Bind, BindFail, Exit, Work, Die, mainVars
  <2>3. os' \in [DOMAIN os' -> ProcRec] /\ DOMAIN os' \subseteq DOMAIN os
    <3> USE <1>0 DEF OsOK, ProcRec
    <3>1. CASE os' = Exited(g)
      <4>1. CASE g \in Group
        BY <3>1, <4>1 DEF Exited
      <4>2. CASE g \notin Group
        BY <3>1, <4>2 DEF Exited
      <4> QED BY <4>1, <4>2
    <3>2. CASE Bind(g)
      BY <3>2 DEF Bind
    <3>3. CASE Work(g)
      <4>1. os[g].cpu \in 0 .. MaxCpu /\ os[g].cpu < MaxCpu
        BY <2>1, <3>3 DEF Work
      <4>2. os[g].cpu + 1 \in 0 .. MaxCpu
        BY <4>1
      <4> QED BY <3>3, <4>2 DEF Work
    <3> QED BY <2>1, <3>1, <3>2, <3>3 DEF BindFail, Exit, Die
  <2> QED BY <1>0, <2>2, <2>3, SameWidth DEF OsOK
<1>3. CASE Popen
  <2> DEFINE new == <<k, entry + 1>>
             r == [name |-> Name, st |-> "starting", sig |-> "none", cpu |-> 0]
  <2>1. /\ os' = [g \in DOMAIN os \cup {new} |-> IF g \in DOMAIN os THEN os[g] ELSE r]
        /\ UNCHANGED <<args, k>> /\ pc = "popen" /\ entry < Plan(Name)
    BY <1>3 DEF Popen
  <2>2. r \in ProcRec
    <3>1. Name \in KnownServers
      BY <2>1 DEF RunTypes, AtOK, Working
    <3> QED BY <1>0, <3>1 DEF ProcRec
  <2>3. new \in (1 .. k) \X (1 .. Width)
    <3>1. Plan(Name) \in 0 .. Width /\ Width \in Nat
      BY <1>0, PlanSize, SizedFacts
    <3> QED BY <1>0, <2>1, <3>1 DEF CountOK
  <2> HIDE DEF new, r
  <2> QED BY <1>0, <2>1, <2>2, <2>3, SameWidth DEF OsOK
<1>4. CASE Terminate
  BY <1>0, <1>4, SameWidth DEF Terminate, OsOK, ProcRec
<1>5. CASE Kill
  <2>1. CASE Victim \in Live
    BY <1>0, <1>5, <2>1, SameWidth DEF Kill, OsOK, ProcRec
  <2>2. CASE Victim \notin Live
    BY <1>1, <1>5, <2>2 DEF Kill
  <2> QED BY <2>1, <2>2
<1>6. CASE Reap
  <2>1. CASE os' = [g \in DOMAIN os \ {Victim} |-> os[g]]
    BY <1>0, <1>6, <2>1, SameWidth DEF Reap, OsOK
  <2> QED BY <1>1, <1>6, <2>1 DEF Reap
<1> QED BY <1>1, <1>2, <1>3, <1>4, <1>5, <1>6 DEF Next, Main, BuildLoadgen, OpenResults, OpenTimeline,
         PickServer, EnterStart,
         Started, Ready, NotReady, LoadgenEnds, Join, Stopped, WriteRow, WriteTimeline, Cooldown,
         Sampler, SampleFirst, SampleRss, SampleCpu, SampleEnd, vars

\* The processes of a trial are finitely many, and so are their ticks.
LEMMA GroupSize ==
    ASSUME entry \in Nat
    PROVE  IsFiniteSet(Group) /\ Cardinality(Group) \in Nat /\ Cardinality(Group) <= entry
<1> DEFINE f == [i \in 1 .. entry |-> <<k, i>>]
<1>1. f \in Surjection(1 .. entry, Group)
  BY DEF Surjection, Group
<1>2. IsFiniteSet(1 .. entry) /\ Cardinality(1 .. entry) = entry
  BY FS_Interval
<1>3. IsFiniteSet(Group) /\ Cardinality(Group) <= Cardinality(1 .. entry)
  BY <1>1, <1>2, FS_Surjection
<1> QED BY <1>2, <1>3, FS_CardinalityType

LEMMA TicksFinite ==
    ASSUME OsOK, MaxCpu \in Nat, NEW S, IsFiniteSet(S)
    PROVE  IsFiniteSet(Ticks(S)) /\ sample_cpu_ticks(S) \in Nat
<1> DEFINE D == S \cap DOMAIN os
           T == {{g} \X (1 .. os[g].cpu) : g \in D}
           f == [g \in D |-> {g} \X (1 .. os[g].cpu)]
<1>1. IsFiniteSet(D)
  BY FS_Subset
<1>2. f \in Surjection(D, T)
  BY DEF Surjection
<1>3. IsFiniteSet(T)
  BY <1>1, <1>2, FS_Surjection
<1>4. ASSUME NEW g \in D PROVE IsFiniteSet({g} \X (1 .. os[g].cpu))
  <2>1. os[g].cpu \in Nat
    BY DEF OsOK, ProcRec
  <2>2. IsFiniteSet({g}) /\ IsFiniteSet(1 .. os[g].cpu)
    <3>1. IsFiniteSet({g})
      BY FS_Singleton
    <3>2. IsFiniteSet(1 .. os[g].cpu)
      BY <2>1, FS_Interval, 1 \in Int, os[g].cpu \in Int
    <3> QED BY <3>1, <3>2
  <2> QED BY <2>2, FS_Product
<1>5. IsFiniteSet(UNION T)
  <2>1. \A t \in T : IsFiniteSet(t)
    BY <1>4
  <2> QED BY <1>3, <2>1, FS_UNION
<1> QED BY <1>5, FS_CardinalityType DEF Ticks, sample_cpu_ticks

LEMMA RssSize ==
    ASSUME CountOK, Width \in Nat, NEW S \in SUBSET Group
    PROVE  IsFiniteSet(S) /\ sample_rss_kb(S) \in 0 .. Width
<1>1. entry \in Nat /\ entry <= Width
  BY DEF CountOK
<1>2. IsFiniteSet(Group) /\ Cardinality(Group) \in Nat /\ Cardinality(Group) <= entry
  BY <1>1, GroupSize
<1>3. IsFiniteSet(S) /\ IsFiniteSet(S \cap Live) /\ Cardinality(S \cap Live) <= Cardinality(Group)
  BY <1>2, FS_Subset
<1>4. Cardinality(S \cap Live) \in Nat
  BY <1>3, FS_CardinalityType
<1> QED BY <1>1, <1>2, <1>3, <1>4 DEF sample_rss_kb

LEMMA NoSamplerType ==
    ASSUME NEW G, NEW n \in Nat
    PROVE  NoSampler \in SmpRec(G, n) /\ NoSampler.pc = "off"
BY DEF NoSampler, SmpRec

LEMMA SmpStep ==
    ASSUME \A c \in Commands : Sized(c), RunTypes, [Next]_vars
    PROVE  SmpOK'
<1>0. SmpOK /\ CountOK /\ OsOK /\ args \in Commands /\ MaxCpu \in Nat
  BY RunnerAssumption DEF RunTypes, AtOK
<1>1. Width \in Nat /\ args' = args /\ Width' = Width
  <2>1. args' = args
    BY DEF Next, Main, BuildLoadgen, OpenResults, OpenTimeline, PickServer, EnterStart, Popen, Started,
         Ready, NotReady, LoadgenEnds,
         Join, Terminate, Kill, Reap, Stopped, WriteRow, WriteTimeline, Cooldown, Sampler, SampleFirst,
         SampleRss, SampleCpu, SampleEnd, Process, Bind, BindFail, Exit, Work, Die, mainVars, vars
  <2> QED BY <1>0, <2>1, SizedFacts, SameWidth
<1>2. CASE smp' = NoSampler
  BY <1>1, <1>2, NoSamplerType DEF SmpOK
<1>3. CASE Sampler
  <2>1. pc' = pc /\ Group' = Group /\ smp.pc # "off"
    BY <1>3 DEF Sampler, SampleFirst, SampleRss, SampleCpu, SampleEnd, mainVars, Group
  <2>2. pc \in Sampled
    BY <1>0, <2>1 DEF SmpOK, NoSampler
  <2>3. smp \in SmpRec(Group, Width)
    BY <1>0 DEF SmpOK
  <2>4. smp.pgids \in SUBSET Group /\ smp.pids \in SUBSET Group
        /\ pids_in_groups(smp.pgids) \in SUBSET Group
    BY <2>3 DEF SmpRec, pids_in_groups
  <2>5. smp' \in SmpRec(Group, Width)
    <3>1. CASE SampleFirst
      <4> DEFINE v == sample_cpu_ticks(pids_in_groups(smp.pgids))
      <4>1. v \in Nat
        <5>1. IsFiniteSet(pids_in_groups(smp.pgids))
          BY <1>0, <1>1, <2>4, RssSize
        <5> QED BY <1>0, <5>1, TicksFinite
      <4>2. smp' = [smp EXCEPT !.pc = "loop", !.cpu_start = v]
        BY <3>1 DEF SampleFirst
      <4> HIDE DEF v
      <4> QED BY <2>3, <4>1, <4>2 DEF SmpRec
    <3>2. CASE SampleRss
      <4> DEFINE q == pids_in_groups(smp.pgids)
                 rss == sample_rss_kb(q)
      <4>1. rss \in 0 .. Width /\ q \in SUBSET Group
        BY <1>0, <1>1, <2>4, RssSize
      <4>2. smp' = [smp EXCEPT !.pc = "cpu", !.pids = q,
                               !.rss_peak = IF rss > smp.rss_peak THEN rss ELSE smp.rss_peak]
        BY <3>2 DEF SampleRss
      <4> HIDE DEF q, rss
      <4> QED BY <2>3, <4>1, <4>2 DEF SmpRec
    <3>3. CASE SampleCpu
      <4> DEFINE v == sample_cpu_ticks(smp.pids)
      <4>1. v \in Nat
        <5>1. IsFiniteSet(smp.pids)
          BY <1>0, <1>1, <2>4, RssSize
        <5> QED BY <1>0, <5>1, TicksFinite
      <4>2. smp' = [smp EXCEPT !.pc = "loop", !.pids = {}, !.cpu_end = v]
        BY <3>3 DEF SampleCpu
      <4> HIDE DEF v
      <4> QED BY <2>3, <4>1, <4>2 DEF SmpRec
    <3>4. CASE SampleEnd
      BY <2>3, <3>4 DEF SampleEnd, SmpRec
    <3> QED BY <1>3, <3>1, <3>2, <3>3, <3>4 DEF Sampler
  <2> QED BY <1>1, <2>1, <2>2, <2>5 DEF SmpOK
<1>4. CASE Ready
  <2>1. smp' = NewSampler /\ pc' = "load" /\ Group' = Group
    BY <1>4 DEF Ready, Group
  <2>2. NewSampler \in SmpRec(Group, Width)
    <3>1. NoSampler \in SmpRec(Group, Width)
      BY <1>1, NoSamplerType
    <3> QED BY <3>1 DEF NewSampler, SmpRec
  <2> QED BY <1>1, <2>1, <2>2 DEF SmpOK, Sampled
<1>5. CASE LoadgenEnds
  <2>1. smp' = [smp EXCEPT !.stop = TRUE] /\ pc' = "join" /\ Group' = Group
    BY <1>5 DEF LoadgenEnds, Group
  <2> QED BY <1>0, <1>1, <2>1 DEF SmpOK, SmpRec, Sampled
<1>6. CASE Join
  <2>1. smp' = [smp EXCEPT !.joined = smp.pc = "ended"] /\ pc' = "term" /\ Group' = Group
    BY <1>6 DEF Join, Group
  <2> QED BY <1>0, <1>1, <2>1 DEF SmpOK, SmpRec, Sampled
<1>7. CASE EnterStart \/ Popen
  <2>1. smp = NoSampler /\ smp' = smp
    BY <1>0, <1>7 DEF EnterStart, Popen, SmpOK, Sampled
  <2> QED BY <1>2, <2>1
<1>8. CASE ~ Sampler /\ ~ Ready /\ ~ LoadgenEnds /\ ~ Join /\ ~ EnterStart /\ ~ Popen
  <2>1. smp' = NoSampler \/ (smp' = smp /\ UNCHANGED <<k, entry>> /\ (pc' \notin Sampled => pc \notin Sampled))
    BY <1>8 DEF Next, Main, BuildLoadgen, OpenResults, OpenTimeline, PickServer, Started, NotReady,
         Terminate, Kill, Reap, Stopped,
         WriteRow, WriteTimeline, Cooldown, Process, Bind, BindFail, Exit, Work, Die, mainVars, vars, Sampled
  <2>2. CASE smp' = smp /\ UNCHANGED <<k, entry>> /\ (pc' \notin Sampled => pc \notin Sampled)
    BY <1>0, <1>1, <2>2 DEF SmpOK, Group
  <2> QED BY <1>2, <2>1, <2>2
<1> QED BY <1>3, <1>4, <1>5, <1>6, <1>7, <1>8

LEMMA FileStep ==
    ASSUME \A c \in Commands : Sized(c), RunTypes, FilesInv, [Next]_vars
    PROVE  FileOK' /\ RestOK'
<1>0. FileOK /\ RestOK /\ AtOK
  BY DEF RunTypes
<1>1. args' = args
  BY DEF Next, Main, BuildLoadgen, OpenResults, OpenTimeline, PickServer, EnterStart, Popen, Started,
         Ready, NotReady, LoadgenEnds,
         Join, Terminate, Kill, Reap, Stopped, WriteRow, WriteTimeline, Cooldown, Sampler, SampleFirst,
         SampleRss, SampleCpu, SampleEnd, Process, Bind, BindFail, Exit, Work, Die, mainVars, vars
<1>2. Cells' = Cells
  BY <1>1 DEF Cells, servers, conns_list, trials
<1>3. RestOK'
  BY <1>0, RunnerAssumption DEF RestOK, Pcs, Next, Main, BuildLoadgen, OpenResults, OpenTimeline,
         PickServer, EnterStart, Popen,
         Started, Ready, NotReady, LoadgenEnds, Join, Terminate, Kill, Reap, Stopped, WriteRow,
         WriteTimeline, Cooldown, Sampler, SampleFirst, SampleRss, SampleCpu, SampleEnd, Process, Bind,
         BindFail, Exit, Work, Die, mainVars, vars
<1>4. pc \in Working => Cell \in Cells
  BY <1>0, SizedFacts DEF AtOK, Indices, Cell, Name, Cells
<1>5. CASE WriteRow
  <2>1. /\ Cell \in Cells /\ rows' = Append(rows, Cell) /\ timeline' = timeline
        /\ Opened /\ pc' = "windows"
    BY <1>4, <1>5 DEF WriteRow, Working, Opened
  <2>2. rows' \in Seq(Cells) /\ timeline' \in Seq(Cells)
    BY <1>0, <2>1, AppendProperties DEF FileOK
  <2> QED BY <1>2, <1>3, <2>1, <2>2 DEF FileOK
<1>6. CASE WriteTimeline
  <2> DEFINE w == [i \in 1 .. res |-> Cell]
  <2>1. /\ Cell \in Cells /\ timeline' = timeline \o w /\ rows' = rows /\ res \in Nat
        /\ Opened /\ pc' = "cool"
    BY <1>4, <1>6 DEF WriteTimeline, Working, FilesInv, Files, Opened
  <2>2. w \in Seq(Cells)
    BY <2>1
  <2> HIDE DEF w
  <2>3. rows' \in Seq(Cells) /\ timeline' \in Seq(Cells)
    BY <1>0, <2>1, <2>2, ConcatProperties DEF FileOK
  <2> QED BY <1>2, <1>3, <2>1, <2>3 DEF FileOK
<1>7. CASE BuildLoadgen \/ OpenResults \/ OpenTimeline
  <2>1. <<>> \in Seq(Cells) /\ <<>> \in Seq(Cells \cup Earlier)
    OBVIOUS
  <2> QED BY <1>0, <1>2, <1>3, <1>7, <2>1 DEF FileOK, BuildLoadgen, OpenResults, OpenTimeline, Opened,
         outVars
<1>8. CASE ~ (WriteRow \/ WriteTimeline \/ BuildLoadgen \/ OpenResults \/ OpenTimeline)
  <2>1. UNCHANGED <<rows, timeline>> /\ (Opened' => Opened) /\ (pc' = "timeline" => pc = "timeline")
    BY <1>8 DEF Next, Main, PickServer, EnterStart, Popen, Started, Ready, NotReady,
         LoadgenEnds, Join, Terminate, Kill, Reap, Stopped, Cooldown, Sampler, SampleFirst, SampleRss,
         SampleCpu, SampleEnd, Process, Bind, BindFail, Exit, Work, Die, outVars, mainVars, vars, Opened
  <2> QED BY <1>0, <1>2, <1>3, <2>1 DEF FileOK
<1> QED BY <1>5, <1>6, <1>7, <1>8

LEMMA RunTypesStep ==
    ASSUME \A c \in Commands : Sized(c), RunTypes, StopInv, FilesInv, [Next]_vars
    PROVE  RunTypes'
BY AtStep, CountStep, OsStep, SmpStep, FileStep DEF RunTypes

LEMMA RunTypesOK == RunTypes => TypeOK
<1> SUFFICES ASSUME RunTypes PROVE TypeOK
  OBVIOUS
<1>1. \A g \in DOMAIN os : g \in (1 .. k) \X (1 .. Width) /\ os[g] \in ProcRec
  BY DEF RunTypes, OsOK
<1> QED BY <1>1 DEF RunTypes, AtOK, CountOK, SmpOK, FileOK, RestOK, Places, ProcRec, SmpRec, TypeOK

\* The variables of the runner keep their types on every command line and whatever an
\* earlier invocation left in the files: no more processes than the list of server cores
\* has entries, from the opening of the files on rows and windows of cells of this matrix
\* only, and a sampler that looks at no process of another trial.
THEOREM RunnerTypes ==
    ASSUME \A c \in Commands : Sized(c)
    PROVE  Spec => []TypeOK
<1>1. Init => RunTypes /\ StopInv /\ FilesInv
  BY RunTypesInit, StopInit, FilesInit
<1>2. RunTypes /\ StopInv /\ FilesInv /\ [Next]_vars => (RunTypes /\ StopInv /\ FilesInv)'
  BY RunTypesStep, StopStep, FilesStep
<1>3. RunTypes => TypeOK
  BY RunTypesOK
<1> QED BY <1>1, <1>2, <1>3, PTL DEF Spec

-----------------------------------------------------------------------------

\* While the load runs and until stop_server begins, the processes of the trial are
\* in the table, dead or alive.
There == pc \in {"popen", "wait", "load", "join", "term"} => Group \subseteq DOMAIN os

\* How far the sampler has got with each of its numbers.
Begun ==
    /\ smp.pc \in {"off", "first"} => smp.cpu_start = None /\ smp.cpu_end = None /\ ~smp.joined
    /\ smp.pc \in {"loop", "cpu", "ended"} => smp.cpu_start # None
    /\ smp.pc # "off" => smp.pgids = Group

\* Its readings, from the start of the load to the end of the join, and once joined.
Readings ==
    pc \in {"load", "join", "term"} =>
      /\ smp.cpu_start # None => smp.cpu_start <= sample_cpu_ticks(Group)
      /\ smp.pc = "cpu" => smp.pids = Group
      /\ smp.cpu_end # None => smp.cpu_start <= smp.cpu_end /\ smp.cpu_end <= sample_cpu_ticks(Group)
      /\ smp.pc = "cpu" \/ smp.cpu_end # None => smp.rss_peak >= sample_rss_kb(Group)
Kept == smp.joined => smp.pc = "ended" /\ (smp.cpu_end # None => smp.cpu_start <= smp.cpu_end)

SampleInv == There /\ Begun /\ Readings /\ Kept

LEMMA SizedEntry == RunTypes => entry \in Nat
BY DEF RunTypes, CountOK

LEMMA GroupTicks ==
    OsOK /\ MaxCpu \in Nat /\ IsFiniteSet(Group)
      => IsFiniteSet(Ticks(Group)) /\ sample_cpu_ticks(Group) \in Nat
BY TicksFinite

LEMMA ThereStep ==
    ASSUME RunTypes, There, [Next]_vars
    PROVE  There'
<1>0. os = [g \in DOMAIN os |-> os[g]] /\ entry \in Nat
  BY SizedEntry DEF RunTypes, OsOK
<1>1. CASE Process
  <2>1. UNCHANGED <<pc, k, entry>>
    BY <1>1 DEF Process, Bind, BindFail, Exit, Work, Die, mainVars
  <2>2. \A g \in Group : g \in DOMAIN os => g \in DOMAIN os'
    BY <1>0, <1>1 DEF Process, Bind, BindFail, Exit, Work, Die, Exited
  <2> QED BY <2>1, <2>2 DEF There, Group
<1>2. CASE EnterStart
  BY <1>2 DEF EnterStart, There, Group
<1>3. CASE Popen
  <2>1. /\ pc = "popen" /\ pc' = pc /\ k' = k /\ entry' = entry + 1
        /\ DOMAIN os' = DOMAIN os \cup {<<k, entry + 1>>}
    BY <1>3 DEF Popen
  <2>2. Group' = Group \cup {<<k, entry + 1>>}
    BY <1>0, <2>1 DEF Group
  <2> QED BY <2>1, <2>2 DEF There
<1>4. CASE ~ Process /\ ~ EnterStart /\ ~ Popen
  <2>1. /\ UNCHANGED <<k, entry>>
        /\ pc' \in {"popen", "wait", "load", "join", "term"} =>
             pc \in {"popen", "wait", "load", "join", "term"} /\ os' = os
    BY <1>4 DEF Next, Main, BuildLoadgen, OpenResults, OpenTimeline, PickServer, Started, Ready,
         NotReady, LoadgenEnds,
         Join, Terminate, Kill, Reap, Stopped, WriteRow, WriteTimeline, Cooldown, Sampler, SampleFirst,
         SampleRss, SampleCpu, SampleEnd, mainVars, vars
  <2> QED BY <2>1 DEF There, Group
<1> QED BY <1>1, <1>2, <1>3, <1>4

\* While no process is started or reaped, the ticks of a trial only grow, and no
\* process of it comes back to life.
LEMMA GroupReadings ==
    ASSUME RunTypes, RunTypes', There, [Next]_vars, UNCHANGED <<k, entry>>,
           pc \in {"load", "join", "term"}, pc' \in {"load", "join", "term"}
    PROVE  /\ sample_cpu_ticks(Group) \in Nat /\ sample_cpu_ticks(Group)' \in Nat
           /\ sample_cpu_ticks(Group) <= sample_cpu_ticks(Group)'
           /\ sample_rss_kb(Group) \in Nat /\ sample_rss_kb(Group)' \in Nat
           /\ sample_rss_kb(Group)' <= sample_rss_kb(Group)
<1>0. /\ OsOK /\ OsOK' /\ MaxCpu \in Nat /\ entry \in Nat /\ Group' = Group
      /\ Group \subseteq DOMAIN os
  BY RunnerAssumption, SizedEntry DEF RunTypes, Group, There
<1>1. IsFiniteSet(Group)
  BY <1>0, GroupSize
<1>2. ASSUME NEW g \in Group
      PROVE  /\ g \in DOMAIN os' /\ os[g].cpu \in Nat /\ os'[g].cpu \in Nat
             /\ os[g].cpu <= os'[g].cpu /\ (g \in Live' => g \in Live)
  <2>1. g \in DOMAIN os
    BY <1>0
  <2>2. os[g].cpu \in Nat
    BY <1>0, <2>1 DEF OsOK, ProcRec
  <2>3. CASE os' = os
    BY <2>1, <2>2, <2>3 DEF Live
  <2>4. CASE Process
    <3>1. PICK h \in DOMAIN os : Bind(h) \/ BindFail(h) \/ Exit(h) \/ Work(h) \/ Die(h)
      BY <2>4 DEF Process
    <3> USE <1>0, <2>1, <2>2 DEF OsOK, ProcRec
    <3>2. CASE os' = Exited(h)
      BY <3>2 DEF Exited, Live
    <3>3. CASE Bind(h)
      BY <3>3 DEF Bind, Live
    <3>4. CASE Work(h)
      <4>1. os' = [os EXCEPT ![h].cpu = os[h].cpu + 1]
        BY <3>4 DEF Work
      <4>2. os'[g].st = os[g].st /\ (os'[g].cpu = os[g].cpu \/ os'[g].cpu = os[g].cpu + 1) /\ g \in DOMAIN os'
        BY <4>1
      <4> QED BY <4>2 DEF Live
    <3> QED BY <3>1, <3>2, <3>3, <3>4 DEF BindFail, Exit, Die
  <2> QED BY <2>3, <2>4 DEF Next, Main, BuildLoadgen, OpenResults, OpenTimeline, PickServer,
         EnterStart, Popen, Started, Ready,
         NotReady, LoadgenEnds, Join, Terminate, Kill, Reap, Stopped, WriteRow, WriteTimeline, Cooldown,
         Sampler, SampleFirst, SampleRss, SampleCpu, SampleEnd, vars
<1>3. Ticks(Group) \subseteq Ticks(Group)'
  <2> SUFFICES ASSUME NEW g \in Group, NEW n \in 1 .. os[g].cpu
               PROVE  <<g, n>> \in Ticks(Group)'
    BY DEF Ticks
  <2>1. g \in DOMAIN os' /\ n \in 1 .. os'[g].cpu
    BY <1>2
  <2> QED BY <1>0, <2>1 DEF Ticks
<1>4. IsFiniteSet(Ticks(Group)) /\ sample_cpu_ticks(Group) \in Nat
  BY <1>0, <1>1, TicksFinite
<1>5. IsFiniteSet(Ticks(Group)') /\ sample_cpu_ticks(Group)' \in Nat
  <2>1. (OsOK /\ MaxCpu \in Nat /\ IsFiniteSet(Group)
           => IsFiniteSet(Ticks(Group)) /\ sample_cpu_ticks(Group) \in Nat)'
    BY GroupTicks, PTL
  <2> QED BY <1>0, <1>1, <2>1
<1>6. sample_cpu_ticks(Group) <= sample_cpu_ticks(Group)'
  BY <1>3, <1>5, FS_Subset DEF sample_cpu_ticks
<1>7. Group \cap Live' \subseteq Group \cap Live /\ IsFiniteSet(Group \cap Live) /\ IsFiniteSet(Group \cap Live')
  BY <1>1, <1>2, FS_Subset
<1>8. /\ Cardinality(Group \cap Live') <= Cardinality(Group \cap Live)
      /\ Cardinality(Group \cap Live') \in Nat /\ Cardinality(Group \cap Live) \in Nat
  BY <1>7, FS_Subset, FS_CardinalityType
<1> QED BY <1>0, <1>4, <1>5, <1>6, <1>8 DEF sample_rss_kb

LEMMA NoSamplerInv ==
    ASSUME There', smp' = NoSampler
    PROVE  SampleInv'
<1>1. smp'.pc = "off" /\ smp'.cpu_start = None /\ smp'.cpu_end = None /\ smp'.joined = FALSE
  BY DEF NoSampler
<1> QED BY <1>1 DEF SampleInv, Begun, Readings, Kept

\* A step of the sampler thread.
LEMMA SamplerReads ==
    ASSUME \A c \in Commands : Sized(c), RunTypes, SampleInv, Sampler
    PROVE  SampleInv'
<1>0. /\ UNCHANGED <<args, pc, k, entry, os>> /\ Group' = Group /\ Live' = Live
      /\ smp \in SmpRec(Group, Width) /\ smp.pc # "off" /\ smp.pgids = Group
      /\ OsOK /\ CountOK /\ MaxCpu \in Nat /\ Width \in Nat
  <2>1. UNCHANGED <<args, pc, k, entry, os>> /\ smp.pc # "off"
    BY DEF Sampler, SampleFirst, SampleRss, SampleCpu, SampleEnd, mainVars
  <2> QED BY <2>1, RunnerAssumption, SizedFacts
          DEF Group, Live, RunTypes, AtOK, SmpOK, SampleInv, Begun
<1>1. /\ sample_cpu_ticks(Group)' = sample_cpu_ticks(Group) /\ sample_rss_kb(Group)' = sample_rss_kb(Group)
      /\ There'
  BY <1>0 DEF sample_cpu_ticks, sample_rss_kb, Ticks, SampleInv, There
<1> DEFINE q == pids_in_groups(smp.pgids)
           ticks == sample_cpu_ticks(Group)
           rss == sample_rss_kb(Group)
<1>2. sample_cpu_ticks(q) = ticks /\ sample_rss_kb(q) = rss /\ q \subseteq Group
  <2>1. Ticks(q) = Ticks(Group)
    BY <1>0 DEF Ticks, pids_in_groups
  <2>2. q \cap Live = Group \cap Live
    BY <1>0 DEF Live, pids_in_groups
  <2> QED BY <1>0, <2>1, <2>2 DEF sample_cpu_ticks, sample_rss_kb, pids_in_groups
<1>3. ticks \in Nat /\ rss \in Nat
  <2>1. IsFiniteSet(Group) /\ rss \in 0 .. Width
    BY <1>0, RssSize
  <2> QED BY <1>0, <2>1, TicksFinite
<1>4. pc \in {"load", "join", "term"} => q = Group
  BY <1>0 DEF SampleInv, There, pids_in_groups
<1>5. /\ smp.rss_peak \in Nat /\ smp.cpu_start \in Nat \cup {None} /\ smp.cpu_end \in Nat \cup {None}
      /\ None \notin Nat
  BY <1>0, RunnerAssumption DEF SmpRec
<1> USE DEF SampleInv, Begun, Readings, Kept
<1>6. CASE SampleFirst
  <2>1. smp.pc = "first" /\ smp' = [smp EXCEPT !.pc = "loop", !.cpu_start = ticks]
    BY <1>2, <1>6 DEF SampleFirst
  <2>2. /\ smp'.pc = "loop" /\ smp'.cpu_start = ticks /\ smp'.cpu_end = None /\ smp'.joined = smp.joined
        /\ smp'.pgids = Group /\ ~ smp.joined
    BY <1>0, <2>1 DEF SmpRec
  <2> HIDE DEF ticks, rss, q
  <2>3. ticks <= ticks /\ ticks # None
    BY <1>3, <1>5
  <2>4. sample_cpu_ticks(Group)' = ticks
    BY <1>1 DEF ticks
  <2> QED BY <1>0, <1>1, <2>2, <2>3, <2>4
<1>7. CASE SampleRss
  <2>1. smp.pc = "loop" /\ smp' = [smp EXCEPT !.pc = "cpu", !.pids = q,
                                   !.rss_peak = IF rss > smp.rss_peak THEN rss ELSE smp.rss_peak]
    BY <1>2, <1>7 DEF SampleRss
  <2>2. /\ smp'.pc = "cpu" /\ smp'.pids = q /\ smp'.cpu_start = smp.cpu_start
        /\ smp'.cpu_end = smp.cpu_end /\ smp'.joined = smp.joined /\ smp'.pgids = Group
        /\ smp'.rss_peak = IF rss > smp.rss_peak THEN rss ELSE smp.rss_peak
        /\ ~ smp.joined
    BY <1>0, <2>1 DEF SmpRec
  <2>3. sample_cpu_ticks(Group)' = sample_cpu_ticks(Group) /\ sample_rss_kb(Group)' = rss
    BY <1>1
  <2> HIDE DEF ticks, rss, q
  <2>4. smp'.rss_peak >= rss
    BY <1>3, <1>5, <2>2
  <2> QED BY <1>0, <1>1, <1>4, <2>1, <2>2, <2>3, <2>4
<1>8. CASE SampleCpu
  <2> DEFINE v == sample_cpu_ticks(smp.pids)
  <2>1. smp.pc = "cpu" /\ smp' = [smp EXCEPT !.pc = "loop", !.pids = {}, !.cpu_end = v]
    BY <1>8 DEF SampleCpu
  <2>2. /\ smp'.pc = "loop" /\ smp'.cpu_start = smp.cpu_start /\ smp'.cpu_end = v
        /\ smp'.joined = smp.joined /\ smp'.pgids = Group /\ smp'.rss_peak = smp.rss_peak
        /\ ~ smp.joined /\ smp.cpu_start # None
    BY <1>0, <2>1 DEF SmpRec
  <2>3. pc \in {"load", "join", "term"} => v = ticks
    BY <2>1
  <2>4. sample_cpu_ticks(Group)' = ticks /\ sample_rss_kb(Group)' = sample_rss_kb(Group)
    BY <1>1
  <2>5. pc \in {"load", "join", "term"} =>
           smp.cpu_start <= ticks /\ smp.rss_peak >= sample_rss_kb(Group)
    BY <2>1, <2>2
  <2> HIDE DEF ticks, rss, q, v
  <2>6. ticks <= ticks
    BY <1>3
  <2> QED BY <1>0, <1>1, <2>2, <2>3, <2>4, <2>5, <2>6
<1>9. CASE SampleEnd
  <2>1. smp.pc = "loop" /\ smp' = [smp EXCEPT !.pc = "ended"]
    BY <1>9 DEF SampleEnd
  <2>2. /\ smp'.pc = "ended" /\ smp'.cpu_start = smp.cpu_start /\ smp'.cpu_end = smp.cpu_end
        /\ smp'.joined = smp.joined /\ smp'.pgids = Group /\ smp'.rss_peak = smp.rss_peak
        /\ ~ smp.joined
    BY <1>0, <2>1 DEF SmpRec
  <2> QED BY <1>0, <1>1, <2>1, <2>2
<1> QED BY <1>6, <1>7, <1>8, <1>9 DEF Sampler

\* A step of main() or of a process while there is a sampler.
LEMMA SamplerWaits ==
    ASSUME RunTypes, RunTypes', SampleInv, There', [Next]_vars, ~ Sampler, ~ Ready, smp' # NoSampler
    PROVE  SampleInv'
<1>1. pc \in Sampled /\ pc' \in Sampled
  <2>1. pc' \in Sampled
    BY DEF RunTypes, SmpOK
  <2>2. smp = NoSampler => smp' = smp \/ pc \in Sampled
    BY DEF Next, Main, BuildLoadgen, OpenResults, OpenTimeline, PickServer, EnterStart, Popen, Started,
         NotReady, LoadgenEnds,
         Join, Terminate, Kill, Reap, Stopped, WriteRow, WriteTimeline, Cooldown, Process, Bind,
         BindFail, Exit, Work, Die, vars, Sampled
  <2> QED BY <2>1, <2>2 DEF RunTypes, SmpOK
<1>2. UNCHANGED <<k, entry>> /\ Group' = Group
  BY <1>1 DEF Next, Main, BuildLoadgen, OpenResults, OpenTimeline, PickServer, EnterStart, Popen,
         Started, NotReady, LoadgenEnds,
         Join, Terminate, Kill, Reap, Stopped, WriteRow, WriteTimeline, Cooldown, Process, Bind,
         BindFail, Exit, Work, Die, vars, mainVars, Sampled, Group
<1>3. /\ smp \in SmpRec(Group, Width) /\ None \notin Nat
  BY RunnerAssumption DEF RunTypes, SmpOK
<1>4. /\ pc' \in {"load", "join", "term"} => pc \in {"load", "join", "term"}
      /\ \/ smp' = smp
         \/ smp' = [smp EXCEPT !.stop = TRUE]
         \/ pc = "join" /\ smp' = [smp EXCEPT !.joined = smp.pc = "ended"]
  BY <1>1 DEF Next, Main, BuildLoadgen, OpenResults, OpenTimeline, PickServer, EnterStart, Popen,
         Started, NotReady, LoadgenEnds,
         Join, Terminate, Kill, Reap, Stopped, WriteRow, WriteTimeline, Cooldown, Process, Bind,
         BindFail, Exit, Work, Die, vars, mainVars, Sampled
<1>5. /\ smp'.pc = smp.pc /\ smp'.cpu_start = smp.cpu_start /\ smp'.cpu_end = smp.cpu_end
      /\ smp'.pgids = smp.pgids /\ smp'.pids = smp.pids /\ smp'.rss_peak = smp.rss_peak
      /\ smp'.joined = smp.joined \/ (pc = "join" /\ (smp'.joined <=> smp.pc = "ended"))
  BY <1>3, <1>4 DEF SmpRec
<1>6. Begun'
  BY <1>2, <1>5 DEF SampleInv, Begun
<1>7. Kept'
  BY <1>5 DEF SampleInv, Kept, Readings
<1>8. Readings'
  <2> SUFFICES ASSUME pc' \in {"load", "join", "term"}
               PROVE  /\ smp.cpu_start # None => smp.cpu_start <= sample_cpu_ticks(Group)'
                      /\ smp.pc = "cpu" => smp.pids = Group
                      /\ smp.cpu_end # None => smp.cpu_start <= smp.cpu_end /\ smp.cpu_end <= sample_cpu_ticks(Group)'
                      /\ smp.pc = "cpu" \/ smp.cpu_end # None => smp.rss_peak >= sample_rss_kb(Group)'
    BY <1>2, <1>5 DEF Readings
  <2>1. pc \in {"load", "join", "term"}
    BY <1>4
  <2>2. /\ sample_cpu_ticks(Group) \in Nat /\ sample_cpu_ticks(Group)' \in Nat
        /\ sample_cpu_ticks(Group) <= sample_cpu_ticks(Group)'
        /\ sample_rss_kb(Group) \in Nat /\ sample_rss_kb(Group)' \in Nat
        /\ sample_rss_kb(Group)' <= sample_rss_kb(Group)
    BY <1>2, <2>1, GroupReadings DEF SampleInv
  <2>3. /\ smp.cpu_start # None => smp.cpu_start <= sample_cpu_ticks(Group)
        /\ smp.pc = "cpu" => smp.pids = Group
        /\ smp.cpu_end # None => smp.cpu_start <= smp.cpu_end /\ smp.cpu_end <= sample_cpu_ticks(Group)
        /\ smp.pc = "cpu" \/ smp.cpu_end # None => smp.rss_peak >= sample_rss_kb(Group)
    BY <2>1 DEF SampleInv, Readings
  <2>4. /\ smp.rss_peak \in Nat /\ smp.cpu_start \in Nat \cup {None} /\ smp.cpu_end \in Nat \cup {None}
    BY <1>3 DEF SmpRec
  <2> QED BY <2>2, <2>3, <2>4
<1> QED BY <1>6, <1>7, <1>8 DEF SampleInv

LEMMA SampleStep ==
    ASSUME \A c \in Commands : Sized(c), RunTypes, RunTypes', SampleInv, [Next]_vars
    PROVE  SampleInv'
<1>1. There'
  BY ThereStep DEF SampleInv
<1>2. CASE Ready
  <2>1. /\ smp' = NewSampler /\ Group' = Group
    BY <1>2 DEF Ready, Group
  <2>2. /\ smp'.pc = "first" /\ smp'.cpu_start = None /\ smp'.cpu_end = None /\ smp'.joined = FALSE
        /\ smp'.pgids = Group
    BY <2>1 DEF NewSampler, NoSampler
  <2> QED BY <1>1, <2>1, <2>2 DEF SampleInv, Begun, Readings, Kept
<1>3. CASE smp' = NoSampler
  BY <1>1, <1>3, NoSamplerInv
<1>4. CASE ~ Sampler /\ ~ Ready /\ smp' # NoSampler
  BY <1>1, <1>4, SamplerWaits
<1> QED BY <1>2, <1>3, <1>4, SamplerReads

LEMMA SampleInit == Init => SampleInv
<1> SUFFICES ASSUME Init PROVE SampleInv
  OBVIOUS
<1>1. smp.pc = "off" /\ smp.cpu_start = None /\ smp.cpu_end = None /\ smp.joined = FALSE
  BY DEF Init, NoSampler
<1> QED BY <1>1 DEF Init, SampleInv, There, Begun, Readings, Kept

LEMMA SamplesOK ==
    ASSUME \A c \in Commands : Sized(c), RunTypes, SampleInv
    PROVE  SamplesSound
<1>1. /\ smp \in SmpRec(Group, Width) /\ None \notin Nat
  BY RunnerAssumption DEF RunTypes, SmpOK
<1>2. smp.cpu_start \in Nat \cup {None} /\ smp.cpu_end \in Nat \cup {None}
      /\ smp.pc \in {"off", "first", "loop", "cpu", "ended"}
  BY <1>1 DEF SmpRec
<1>3. smp.cpu_end # None => smp.cpu_start # None
  BY <1>2 DEF SampleInv, Begun
<1>4. ASSUME smp.joined, smp.cpu_end # None
      PROVE  /\ cpu_ticks >= 0
             /\ pc = "term" => /\ cpu_ticks <= sample_cpu_ticks(Group)
                               /\ smp.rss_peak >= sample_rss_kb(Group)
  <2>1. /\ smp.cpu_start \in Nat /\ smp.cpu_end \in Nat /\ smp.cpu_start <= smp.cpu_end
        /\ cpu_ticks = smp.cpu_end - smp.cpu_start
    BY <1>2, <1>3, <1>4 DEF SampleInv, Kept, cpu_ticks
  <2>2. pc = "term" => smp.cpu_end <= sample_cpu_ticks(Group) /\ smp.rss_peak >= sample_rss_kb(Group)
    BY <1>4 DEF SampleInv, Readings
  <2>3. sample_cpu_ticks(Group) \in Nat
    BY GroupSize, SizedEntry, TicksFinite, RunnerAssumption DEF RunTypes
  <2> QED BY <2>1, <2>2, <2>3
<1> QED BY <1>3, <1>4 DEF SamplesSound

\* What main() reads from the Sampler after a join that did not time out (run.py:262-275):
\* the CPU difference is defined, not negative and no more than the trial's processes
\* have used, and the peak counts every process that lived through the load, for every
\* number of processes and every interleaving of the thread with their deaths.
THEOREM SamplesAreSound ==
    ASSUME \A c \in Commands : Sized(c)
    PROVE  Spec => []SamplesSound
<1>1. Init => RunTypes /\ StopInv /\ FilesInv /\ SampleInv
  BY RunTypesInit, StopInit, FilesInit, SampleInit
<1>2. RunTypes /\ StopInv /\ FilesInv /\ SampleInv /\ [Next]_vars
        => (RunTypes /\ StopInv /\ FilesInv /\ SampleInv)'
  BY RunTypesStep, StopStep, FilesStep, SampleStep
<1>3. RunTypes /\ SampleInv => SamplesSound
  BY SamplesOK
<1> QED BY <1>1, <1>2, <1>3, PTL DEF Spec

=============================================================================
