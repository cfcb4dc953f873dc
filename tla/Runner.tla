------------------------------- MODULE Runner -------------------------------
(***************************************************************************)
(* runner/run.py: the benchmark matrix, the life of the server processes,  *)
(* the load generator and the sampler thread.  The actors are the main     *)
(* thread (pc), the Sampler thread (smp.pc), the server processes (os) and *)
(* the load generator (load).  A process group is modelled as one process: *)
(* killpg reaches the leader and its children alike, and their CPU time is *)
(* counted as the leader's.  taskset is there to start them.               *)
(***************************************************************************)
EXTENDS Integers, Sequences, FiniteSets

CONSTANTS
    Commands,       \* the command lines: what parse_args returns, and os.cpu_count()
    KnownServers,   \* the keys of SERVERS
    Compiled,       \* those of them that have a build command
    PerCore,        \* servers that run one process per core: python, lua
    ReusePort,      \* servers that bind with SO_REUSEPORT
    Faults,         \* the failures that may happen, a subset of AllFaults
    MaxCpu,         \* bound: CPU ticks counted per process
    MaxWindows,     \* bound: timeline windows in one result
    MaxSlow,        \* bound: killed processes that have not died yet
    MaxStarts,      \* bound: invocations of the runner
    Earlier,        \* the cells of matrices that were run before
    Leftovers,      \* what may be left of them in either file
    None

AllFaults == {"build", "notool", "exit", "nojson", "slowjoin", "slowkill"}

ASSUME RunnerAssumption ==
    /\ \A c \in Commands : /\ c.ncpu \in Nat \ {0} /\ c.trials \in Nat \ {0}
                          /\ Len(c.conns) > 0
    /\ MaxCpu \in Nat /\ MaxWindows \in Nat /\ MaxSlow \in Nat /\ MaxStarts \in Nat \ {0}
    /\ Faults \subseteq AllFaults /\ Leftovers \subseteq Seq(Earlier)
    /\ None \notin Nat

VARIABLES
    args,     \* the command line
    pc,       \* where main() is
    at,       \* the loop variables of main(): server, conns, trial (indices)
    k,        \* calls of start_server so far, over all invocations
    entry,    \* start_server: the processes started of this plan
    stopped,  \* stop_server: the processes its second loop is done with
    os,       \* the processes that exist: identity -> state
    smp,      \* the Sampler object and its thread
    load,     \* the load generator: "off" or "on"
    res,      \* what run_loadgen returned: None or the number of windows
    rows,     \* results.csv: the cells with a row, in file order
    timeline, \* timeline.csv: the cell of each of its rows
    told,     \* what has been reported on stderr
    starts    \* invocations of the runner

vars == <<args, pc, at, k, entry, stopped, os, smp, load, res, rows, timeline, told, starts>>
mainVars == <<args, pc, at, k, entry, stopped>>
outVars == <<rows, timeline, told>>

-----------------------------------------------------------------------------
(* The command line: loops, cores and launch plans. *)

\* A list of cores, part by part: a core may be named twice.
parse_cores(arg, default) ==
    IF arg = <<>> THEN {0} \X default
    ELSE UNION {{i} \X (arg[i][1] .. arg[i][2]) : i \in DOMAIN arg}

servers == args.servers
conns_list == args.conns
trials == args.trials
half == args.ncpu \div 2
server_cores == parse_cores(args.server_cores, 0 .. half - 1)

\* One process pinned to all server cores, or one process for each of them.
Plan(name) == IF name \in PerCore THEN Cardinality(server_cores) ELSE 1

-----------------------------------------------------------------------------
(* Processes.  <<n, i>> is entry i of the n-th start_server. *)

Group == {<<k, i>> : i \in 1 .. entry}           \* procs and pgids of this trial
Live == {g \in DOMAIN os : os[g].st # "zombie"}
Listeners == {g \in DOMAIN os : os[g].st = "listening"}
CanBind(g) == \A l \in Listeners : {os[g].name, os[l].name} \subseteq ReusePort

\* A process of an earlier trial has no Popen object any more, subprocess reaps it.
Exited(g) == IF g \in Group
             THEN [os EXCEPT ![g].st = "zombie", ![g].sig = "none"]
             ELSE [h \in DOMAIN os \ {g} |-> os[h]]

Bind(g) ==
    /\ os[g].st = "starting" /\ CanBind(g)
    /\ os' = [os EXCEPT ![g].st = "listening"]
    /\ UNCHANGED <<mainVars, smp, load, res, outVars, starts>>

\* The port is taken: the server reports it (to /dev/null) and exits.
BindFail(g) ==
    /\ os[g].st = "starting" /\ ~CanBind(g)
    /\ os' = Exited(g)
    /\ UNCHANGED <<mainVars, smp, load, res, outVars, starts>>

\* A server that dies by itself: no binary behind taskset, or a crash.
Exit(g) ==
    /\ "exit" \in Faults
    /\ g \in Live
    /\ os' = Exited(g)
    /\ UNCHANGED <<mainVars, smp, load, res, outVars, starts>>

\* CPU time, counted for the processes that can be sampled.
Work(g) ==
    /\ g \in Live \cap Group /\ os[g].cpu < MaxCpu
    /\ os' = [os EXCEPT ![g].cpu = @ + 1]
    /\ UNCHANGED <<mainVars, smp, load, res, outVars, starts>>

\* The effect of a signal; SIGTERM may also be ignored.
Die(g) ==
    /\ g \in Live /\ os[g].sig # "none"
    /\ os' = Exited(g)
    /\ UNCHANGED <<mainVars, smp, load, res, outVars, starts>>

Process == \E g \in DOMAIN os : Bind(g) \/ BindFail(g) \/ Exit(g) \/ Work(g) \/ Die(g)

-----------------------------------------------------------------------------
(* /proc and the Sampler thread.  A zombie is still listed with the CPU it *)
(* used, but has no VmRSS; a reaped process is not found and is skipped.   *)
(* RSS is counted in live processes; the first reading of it is left out.  *)
(* A process group is its leader alone: a server whose children exit while *)
(* it runs loses the CPU they used, and SamplesSound is not about it.      *)

pids_in_groups(pgids) == pgids \cap DOMAIN os

\* The ticks that pids have used: <<g, n>> is the n-th of process g.
Ticks(pids) == UNION {{g} \X (1 .. os[g].cpu) : g \in pids \cap DOMAIN os}

\* Mutant: processes that have died are skipped, with the CPU they used.
LiveTicks(pids) == Cardinality(Ticks(pids \cap Live))

sample_cpu_ticks(pids) == Cardinality(Ticks(pids))
sample_rss_kb(pids) == Cardinality(pids \cap Live)

NoSampler == [pc |-> "off", pgids |-> {}, pids |-> {}, stop |-> FALSE, joined |-> FALSE,
              cpu_start |-> None, cpu_end |-> None, rss_peak |-> 0]
NewSampler == [NoSampler EXCEPT !.pc = "first", !.pgids = Group]

SampleFirst ==
    /\ smp.pc = "first"
    /\ LET pids == pids_in_groups(smp.pgids)
       IN  smp' = [smp EXCEPT !.pc = "loop", !.cpu_start = sample_cpu_ticks(pids)]
    /\ UNCHANGED <<mainVars, os, load, res, outVars, starts>>

SampleRss ==
    /\ smp.pc = "loop" /\ ~smp.stop
    /\ LET pids == pids_in_groups(smp.pgids)
           rss == sample_rss_kb(pids)
       IN  smp' = [smp EXCEPT !.pc = "cpu", !.pids = pids,
                              !.rss_peak = IF rss > @ THEN rss ELSE @]
    /\ UNCHANGED <<mainVars, os, load, res, outVars, starts>>

SampleCpu ==
    /\ smp.pc = "cpu"
    /\ smp' = [smp EXCEPT !.pc = "loop", !.pids = {},
                          !.cpu_end = sample_cpu_ticks(smp.pids)]
    /\ UNCHANGED <<mainVars, os, load, res, outVars, starts>>

SampleEnd ==
    /\ smp.pc = "loop" /\ smp.stop
    /\ smp' = [smp EXCEPT !.pc = "ended"]
    /\ UNCHANGED <<mainVars, os, load, res, outVars, starts>>

Sampler == SampleFirst \/ SampleRss \/ SampleCpu \/ SampleEnd

-----------------------------------------------------------------------------
(* main(). *)

Name == servers[at[1]]
Cell == <<Name, conns_list[at[2]], at[3]>>
cpu_ticks == IF smp.cpu_end = None THEN 0 ELSE smp.cpu_end - smp.cpu_start

Init ==
    /\ args \in Commands
    /\ pc = "build" /\ at = <<1, 1, 1>> /\ k = 0 /\ entry = 0 /\ stopped = 0
    /\ os = <<>> /\ smp = NoSampler /\ load = "off" /\ res = None
    /\ rows \in Leftovers /\ timeline \in Leftovers /\ told = {} /\ starts = 1

\* How a build may go: without a command there is nothing to do; a command may fail
\* ("build"), or not be found, an exception that nobody catches ("notool").
build(compiled) == {"ok"} \cup (IF compiled THEN Faults \cap {"build", "notool"} ELSE {})

\* The load generator is built before either file is touched.
BuildLoadgen ==
    /\ pc = "build"
    /\ \E how \in build(TRUE) : pc' = IF how = "ok" THEN "results" ELSE "exit"
    /\ UNCHANGED <<args, at, k, entry, stopped, os, smp, load, res, outVars, starts>>

\* results.csv is opened, which empties it; timeline.csv next.
OpenResults ==
    /\ pc = "results"
    /\ pc' = "timeline" /\ rows' = <<>>
    /\ UNCHANGED <<args, at, k, entry, stopped, os, smp, load, res, timeline, told, starts>>

OpenTimeline ==
    /\ pc = "timeline"
    /\ pc' = "server" /\ timeline' = <<>>
    /\ UNCHANGED <<args, at, k, entry, stopped, os, smp, load, res, rows, told, starts>>

\* An unknown server and a failed build are reported and skipped.  A tool that is
\* not found is the end of main().
PickServer ==
    /\ pc = "server"
    /\ \/ /\ at[1] > Len(servers)
          /\ pc' = "done" /\ UNCHANGED <<at, told>>
       \/ /\ at[1] <= Len(servers)
          /\ Name \notin KnownServers \/ "build" \in build(Name \in Compiled)
          /\ told' = told \cup {Name} /\ at' = <<at[1] + 1, 1, 1>> /\ UNCHANGED pc
       \/ /\ at[1] <= Len(servers) /\ Name \in KnownServers
          /\ \E how \in build(Name \in Compiled) \ {"build"} :
                pc' = IF how = "ok" THEN "start" ELSE "raised"
          /\ UNCHANGED <<at, told>>
    /\ UNCHANGED <<args, k, entry, stopped, os, smp, load, res, rows, timeline, starts>>

EnterStart ==
    /\ pc = "start"
    /\ pc' = "popen" /\ k' = k + 1 /\ entry' = 0 /\ stopped' = 0
    /\ res' = None
    /\ UNCHANGED <<args, at, os, smp, load, outVars, starts>>

\* start_server: one Popen per entry of the plan.
Popen ==
    /\ pc = "popen" /\ entry < Plan(Name)
    /\ entry' = entry + 1
    /\ os' = [g \in DOMAIN os \cup {<<k, entry'>>} |->
                IF g \in DOMAIN os THEN os[g]
                ELSE [name |-> Name, st |-> "starting", sig |-> "none", cpu |-> 0]]
    /\ UNCHANGED <<args, pc, at, k, stopped, smp, load, res, outVars, starts>>

Started ==
    /\ pc = "popen" /\ entry = Plan(Name)
    /\ pc' = "wait"
    /\ UNCHANGED <<args, at, k, entry, stopped, os, smp, load, res, outVars, starts>>

\* wait_ready: whoever accepts on PORT.  The sampler and the load generator start.
Ready ==
    /\ pc = "wait" /\ Listeners # {}
    /\ pc' = "load" /\ load' = "on" /\ smp' = NewSampler
    /\ UNCHANGED <<args, at, k, entry, stopped, os, res, outVars, starts>>

\* Mutant: a server that is not ready is left as it is.
NotReadyLeft ==
    /\ pc = "wait"
    /\ pc' = "cool" /\ told' = told \cup {Cell}
    /\ UNCHANGED <<args, at, k, entry, stopped, os, smp, load, res, rows, timeline, starts>>

\* Mutant: no deadline; only a server that has exited is given up.
NotReadyExited ==
    /\ pc = "wait" /\ Group = {}
    /\ pc' = "term" /\ told' = told \cup {Cell}
    /\ UNCHANGED <<args, at, k, entry, stopped, os, smp, load, res, rows, timeline, starts>>

\* The deadline of 15 s, after a probe that failed.
NotReady ==
    /\ pc = "wait"
    /\ pc' = "term" /\ told' = told \cup {Cell}
    /\ UNCHANGED <<args, at, k, entry, stopped, os, smp, load, res, rows, timeline, starts>>

\* Mutant: output without a JSON line is not reported.
LoadgenEndsSilent ==
    /\ pc = "load"
    /\ load' = "off" /\ pc' = "join" /\ smp' = [smp EXCEPT !.stop = TRUE]
    /\ \E n \in (0 .. MaxWindows) \cup {None} : res' = n
    /\ UNCHANGED <<args, at, k, entry, stopped, os, outVars, starts>>

\* The load generator ends, with a JSON line or without; Sampler.stop sets the flag.
LoadgenEnds ==
    /\ pc = "load"
    /\ load' = "off" /\ pc' = "join" /\ smp' = [smp EXCEPT !.stop = TRUE]
    /\ \/ \E n \in 0 .. MaxWindows : res' = n /\ UNCHANGED told
       \/ "nojson" \in Faults /\ res' = None /\ told' = told \cup {Cell}
    /\ UNCHANGED <<args, at, k, entry, stopped, os, rows, timeline, starts>>

\* Sampler.stop: join(timeout=2) returns when the thread has ended, or anyway.
Join ==
    /\ pc = "join"
    /\ smp.pc = "ended" \/ "slowjoin" \in Faults
    /\ pc' = "term" /\ smp' = [smp EXCEPT !.joined = smp.pc = "ended"]
    /\ UNCHANGED <<args, at, k, entry, stopped, os, load, res, outVars, starts>>

\* stop_server, first loop: SIGTERM to every group that still exists.
Terminate ==
    /\ pc = "term"
    /\ pc' = "kill"
    /\ os' = [g \in DOMAIN os |-> IF g \in Group \cap Live
                                  THEN [os[g] EXCEPT !.sig = "term"] ELSE os[g]]
    /\ UNCHANGED <<args, at, k, entry, stopped, smp, load, res, outVars, starts>>

\* Second loop, 0.4 s later: SIGKILL to the group of one process...
Victim == <<k, stopped + 1>>

Kill ==
    /\ pc = "kill" /\ stopped < entry
    /\ pc' = "reap"
    /\ os' = IF Victim \in Live THEN [os EXCEPT ![Victim].sig = "kill"] ELSE os
    /\ UNCHANGED <<args, at, k, entry, stopped, smp, load, res, outVars, starts>>

\* ... and wait(timeout=2), which reaps it or gives up.
Reap ==
    /\ pc = "reap"
    /\ pc' = "kill" /\ stopped' = stopped + 1
    /\ \/ Victim \notin Live /\ os' = [g \in DOMAIN os \ {Victim} |-> os[g]]
       \/ /\ Victim \in Live /\ "slowkill" \in Faults /\ UNCHANGED os
          /\ Cardinality({g \in Live : os[g].sig = "kill"}) <= MaxSlow
    /\ UNCHANGED <<args, at, k, entry, smp, load, res, outVars, starts>>

\* Mutant: the timeline is written where the row should be.
StoppedWindows ==
    /\ pc = "kill" /\ stopped = entry
    /\ pc' = IF res = None THEN "cool" ELSE "windows"
    /\ smp' = IF res = None THEN NoSampler ELSE smp
    /\ UNCHANGED <<args, at, k, entry, stopped, os, load, res, outVars, starts>>

Stopped ==
    /\ pc = "kill" /\ stopped = entry
    /\ pc' = IF res = None THEN "cool" ELSE "row"
    /\ smp' = IF res = None THEN NoSampler ELSE smp
    /\ UNCHANGED <<args, at, k, entry, stopped, os, load, res, outVars, starts>>

\* The row of this cell is written and flushed, then its timeline windows.  The
\* row is the last use of the sampler.
WriteRow ==
    /\ pc = "row"
    /\ pc' = "windows" /\ rows' = Append(rows, Cell) /\ smp' = NoSampler
    /\ UNCHANGED <<args, at, k, entry, stopped, os, load, res, timeline, told, starts>>

WriteTimeline ==
    /\ pc = "windows"
    /\ pc' = "cool" /\ timeline' = timeline \o [w \in 1 .. res |-> Cell]
    /\ UNCHANGED <<args, at, k, entry, stopped, os, smp, load, res, rows, told, starts>>

\* Mutant: one trial too many.
AdvancePast ==
    IF at[3] <= trials THEN [at EXCEPT ![3] = @ + 1]
    ELSE IF at[2] < Len(conns_list) THEN <<at[1], at[2] + 1, 1>>
    ELSE <<at[1] + 1, 1, 1>>

\* The innermost loop that is not exhausted moves on.
Advance ==
    IF at[3] < trials THEN [at EXCEPT ![3] = @ + 1]
    ELSE IF at[2] < Len(conns_list) THEN <<at[1], at[2] + 1, 1>>
    ELSE <<at[1] + 1, 1, 1>>

Cooldown ==
    /\ pc = "cool"
    /\ at' = Advance
    /\ pc' = IF Advance[1] = at[1] THEN "start" ELSE "server"
    /\ UNCHANGED <<args, k, entry, stopped, os, smp, load, res, outVars, starts>>

\* Ctrl-C: main() has no handler and the Sampler is a daemon thread.  The load
\* generator is in the terminal's process group, the servers are not.
Interrupt ==
    /\ pc \notin {"done", "raised", "exit"}
    /\ pc' = "exit" /\ smp' = NoSampler /\ load' = "off"
    /\ UNCHANGED <<args, at, k, entry, stopped, os, res, outVars, starts>>

\* The runner is started again.
Rerun ==
    /\ pc = "exit" /\ starts < MaxStarts
    /\ starts' = starts + 1 /\ pc' = "build" /\ at' = <<1, 1, 1>> /\ told' = {}
    /\ UNCHANGED <<args, k, entry, stopped, os, smp, load, res, rows, timeline>>

Main == \/ BuildLoadgen \/ OpenResults \/ OpenTimeline \/ PickServer \/ EnterStart \/ Popen \/ Started
        \/ Ready \/ NotReady \/ LoadgenEnds \/ Join
        \/ Terminate \/ Kill \/ Reap \/ Stopped
        \/ WriteRow \/ WriteTimeline \/ Cooldown

Next == Main \/ Sampler \/ Process

\* Every thread is scheduled, the load generator ends (part of Main), and a
\* SIGKILL takes effect.
Fairness ==
    /\ WF_vars(Main) /\ WF_vars(Sampler)
    /\ WF_vars(\E g \in DOMAIN os : os[g].sig = "kill" /\ Die(g))

Spec == Init /\ [][Next]_vars /\ Fairness

\* The runner when it may be interrupted and started again.
SpecInterrupted == Init /\ [][Next \/ Interrupt \/ Rerun]_vars

-----------------------------------------------------------------------------
(* Properties. *)

Pcs == {"build", "results", "timeline", "server", "start", "popen", "wait", "load", "join", "term", "kill",
        "reap", "row", "windows", "cool", "done", "raised", "exit"}
Cells == {<<servers[s], conns_list[c], t>> :
             s \in DOMAIN servers, c \in DOMAIN conns_list, t \in 1 .. trials}

\* A command line as parse_args leaves it: three lists.
Sized(c) ==
    /\ DOMAIN c.servers = 1 .. Len(c.servers) /\ Len(c.servers) \in Nat
    /\ DOMAIN c.conns = 1 .. Len(c.conns) /\ Len(c.conns) \in Nat
    /\ IsFiniteSet(parse_cores(c.server_cores, 0 .. (c.ncpu \div 2) - 1))

\* A command line that names no server and no number of connections twice; a server
\* is not called like a cell.
Proper(c) ==
    /\ DOMAIN c.servers = 1 .. Len(c.servers) /\ Len(c.servers) \in Nat
    /\ DOMAIN c.conns = 1 .. Len(c.conns) /\ Len(c.conns) \in Nat
    /\ \A s, t \in DOMAIN c.servers : c.servers[s] = c.servers[t] => s = t
    /\ \A m, n \in DOMAIN c.conns : c.conns[m] = c.conns[n] => m = n
    /\ \A s, t \in DOMAIN c.servers, n \in DOMAIN c.conns, u \in 1 .. c.trials :
         c.servers[s] # <<c.servers[t], c.conns[n], u>>

\* main() has opened both files.
Opened == pc \notin {"build", "results", "timeline", "exit"}

\* The processes of the largest plan.
Width == IF Cardinality(server_cores) > 1 THEN Cardinality(server_cores) ELSE 1

\* The variables of main(), the sampler and the processes have their types; once the
\* files are open they list cells of this matrix only.
TypeOK ==
    /\ pc \in Pcs
    /\ at \in (1 .. Len(servers) + 1) \X (1 .. Len(conns_list)) \X (1 .. trials)
    /\ k \in Nat /\ entry \in 0 .. Width /\ stopped \in 0 .. entry
    /\ \A g \in DOMAIN os :
          /\ g \in (1 .. k) \X (1 .. Width)
          /\ os[g] \in [name : KnownServers, st : {"starting", "listening", "zombie"},
                        sig : {"none", "term", "kill"}, cpu : 0 .. MaxCpu]
    /\ smp \in [pc : {"off", "first", "loop", "cpu", "ended"}, pgids : SUBSET Group,
                pids : SUBSET Group, stop : BOOLEAN, joined : BOOLEAN,
                cpu_start : Nat \cup {None}, cpu_end : Nat \cup {None},
                rss_peak : 0 .. Width]
    /\ load \in {"off", "on"}
    /\ res \in (0 .. MaxWindows) \cup {None}
    /\ rows \in Seq(Cells \cup Earlier) /\ timeline \in Seq(Cells \cup Earlier)
    /\ Opened => rows \in Seq(Cells) /\ timeline \in Seq(Cells)
    /\ starts \in 1 .. MaxStarts

\* "Only ONE server runs at a time" (run.py:16), as far as stop_server can see to
\* it: a process alive that the current start_server did not start has been sent
\* SIGKILL, and so has every process alive when main() is about to start the next
\* server or is done.  It rests on stop_server after every way a trial can end and
\* on a SIGKILL that does not depend on how the SIGTERM went.
OneServer ==
    \A g \in Live : os[g].sig # "kill" => g \in Group /\ pc \notin {"server", "start", "done", "raised"}

\* A row says what it measured: while the load runs, whoever accepts on PORT was
\* started for this very trial.  wait_ready is content with any listener.
RowHonest == load = "on" => Listeners \subseteq Group

\* What main() reads from the Sampler after a join that did not time out: the
\* CPU difference is defined and not negative, no more than the processes of
\* this trial have used, and the peak counts every process that lived through
\* the load, whenever processes die and however the thread is interleaved.
SamplesSound ==
    /\ smp.cpu_end # None => smp.cpu_start # None
    /\ smp.joined /\ smp.cpu_end # None =>
          /\ cpu_ticks >= 0
          /\ pc = "term" => /\ cpu_ticks <= sample_cpu_ticks(Group)
                            /\ smp.rss_peak >= sample_rss_kb(Group)

Precedes(i, j) ==
    \/ i[1] < j[1]
    \/ i[1] = j[1] /\ i[2] < j[2]
    \/ i[1] = j[1] /\ i[2] = j[2] /\ i[3] < j[3]
Reported(i) == {servers[i[1]], <<servers[i[1]], conns_list[i[2]], i[3]>>} \cap told # {}
RowsOf(i) == {r \in DOMAIN rows : rows[r] = <<servers[i[1]], conns_list[i[2]], i[3]>>}
Indices == (DOMAIN servers) \X (DOMAIN conns_list) \X (1 .. trials)

\* Nothing is lost silently: each cell of the matrix that main() has passed has
\* exactly one row or was reported on stderr and has none, and the rows are in
\* the order of the matrix.
Ledger ==
    Opened =>
      /\ \A i \in Indices : Precedes(i, at) => Cardinality(RowsOf(i)) = IF Reported(i) THEN 0 ELSE 1
      /\ \A i, j \in Indices : Precedes(i, j) =>
             \A r \in RowsOf(i), q \in RowsOf(j) : r < q

\* From the moment timeline.csv has been opened, it never holds windows of a run that
\* results.csv does not list, whenever the two files are read and whatever an earlier
\* invocation left in them.
TimelineFollows == Opened => \A w \in DOMAIN timeline : \E r \in DOMAIN rows : rows[r] = timeline[w]

\* The matrix comes to an end, whatever dies: wait_ready, join and the second
\* loop of stop_server cannot hold main() for ever.
Finishes == <>(pc \in {"done", "raised", "exit"})

\* The load meets all the processes of the plan: none of them is still starting
\* while the load generator connects.
AllReady == load = "on" => \A g \in Group : os[g].st # "starting"
=============================================================================
