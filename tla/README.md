# Verification of game-bench

The repository benchmarks one small multiplayer game server in fourteen
implementations. Clients JOIN a room, send MOVEs and get a SNAPSHOT of the room
at every tick (`PROTOCOL.md`). The benchmark only says something if the servers
do the same thing, if the load generators measure what they say, if the runner
measures the server it names, and if the report shows what was measured. This
directory has TLA+ modules for the whole chain: four servers, both load
generators, `run.py` and `plot.py`. TLC checks them on small instances; TLAPS
proves every invariant of these runs for all instances.

Contents: [inventory](#inventory), [modules](#modules-and-the-code),
[runs](#runs), [bounds](#bounds), [fairness](#fairness), [proofs](#proofs),
[findings](#findings-and-observations), [not modelled](#not-modelled),
[plan](#plan).

## Inventory

| Part | State it keeps | Operations | What is hard |
|---|---|---|---|
| `runner/run.py` | loop variables, server processes, sampler thread, two CSV files | build, start, wait until ready, sample, load, stop with escalation, write | servers that die, hang or start late; a sampler thread beside `main`; Ctrl-C in the middle |
| `runner/plot.py` | values per field, server and load; in the page the hidden servers | load, medians, axes, tables, timeline cards, clicks, tabs | even, missing and equal values; axis limits; parts of a page that must agree |
| `servers/python` | per process rooms with two dicts, an asyncio loop, a task per room | JOIN, MOVE, end of a connection, tick with catch-up | handlers and tasks interleave at every `await`; a late room holds the loop |
| `servers/go` (reference) | registry; per room an inbox channel and two maps; per connection a send channel and two goroutines | JOIN, MOVE, leave, tick with a non-blocking broadcast, write, drop | room, readers and writers interleave; bounded channels fill; reader and writer can die in either order |
| `servers/go-pool` | as above, plus a pool of reference-counted frame buffers | as above, plus get, set count, release | the count is set by one goroutine and dropped by many; a buffer must not be refilled while a writer reads it |
| `servers/go-epoll` | one epoll loop per worker, map of descriptors, room arrays with swap-remove | accept, read, parse, flush, timerfd tick, close | events name descriptors that are reused inside a batch; a broadcast closes members of the array it ranges over |
| `loadgen` (Go) | sender and reader goroutine per connection, shared histograms | dial, join, tick, read, report | main reports while readers still record |
| `loadgen-odin` | an epoll loop per worker with a FIFO of deadlines, a ring of send times | poll, handle, fire | the FIFO is taken to be sorted; a stall makes it less so |
| `servers/odin`, `zig`, `rust`, `ocaml`, `elixir`, `dart`, `dart-pool`, `swift`, `clojure`, `lua` | the same game in other runtimes | | see [not modelled](#not-modelled) |

Parts interact in three ways. Inside a server: commands through a room's inbox
(actor servers), or direct calls inside a single-threaded loop (reactor servers
and `asyncio`). Between programs: TCP and the protocol; so the models of the
servers have clients that may do anything a TCP client may do (send whatever
frame a handler tells apart, stop reading, close, reset, at any moment), and the
models of the load generators have a server that may. A JOIN too short for its
room number is such a frame: it panics in `go` and `go-pool` and so ends the
process, is ignored by `go-epoll`, and is not told apart from other ignored frames
in `python`. Around them: `run.py` knows a server only as processes,
signals, `/proc` and a port that accepts, and `plot.py` knows `run.py` only
through two CSV files. `Runner` and `Report` have exactly these as their
environment.

`PROJECT.json` lists the hazards found while reading, each at its line; the
properties are there because of them.

## Modules and the code

| Module | Models | Notes |
|---|---|---|
| `Runner` | `runner/run.py` | `pc` is where `main` is, `at` its three loop variables; `os` is the table of processes, `<<n, i>>` being process `i` of the `n`-th `start_server`. A zombie stays in the table until it is reaped, as in `/proc`. `Faults` names what may fail; `Leftovers` is what earlier runs may have left in the two files, which are opened one after the other. A process group is its leader alone, and `taskset` is taken to be installed |
| `Report` | `runner/plot.py` | `load` reads a line per step; `BuildHtml` is everything from medians to cards; then the browser: clicks of the legend, show-all, tabs. `Cut` is a line that ends before a field it must have, `Gone` a percentile that a line of the timeline ends before. Show-all can always be clicked: `.leg` (`plot.py:155`) overrides its `hidden`. Coordinates are computed with the geometry of the code. `sorted` and the sort by time are `InOrder` and `SortBy`, a listing of the positions in their order |
| `PythonServer` | `servers/python/server.py` | a handler's step goes from `readexactly` to `readexactly`; a room's task keeps the loop (`held`) until it sleeps. Time is relative: `due` is `nxt - loop.time()` |
| `GoRoom` | what `go` and `go-pool` share: registry, room goroutine, reader goroutine | one action per channel operation; a player is its `lastSeq`, as no decision depends on positions. `up` is whether the process runs: `Panic` is the short JOIN, of a client of `Conn` or any other, and nothing happens after it |
| `GoServer` | `servers/go/main.go` | adds send channels, writers, and the broadcast, one step per recipient |
| `GoPool` | `servers/go-pool/main.go` | adds buffers: `bytes` is what a buffer holds now, `ref` its counter, `pool` the free ones; `holders` is a history variable that names the references `ref` counts |
| `GoEpoll` | `servers/go-epoll/main.go`, one worker | `slots` is the backing array that the broadcast shares with the room; `accept` may return any free number, for all workers take theirs from one table |
| `LoadGenOdin` | one worker of `loadgen-odin/main.odin` | the clock may stall for several intervals between two readings; the frames of one read are handled one by one at one reading |
| `Histogram`, `LoadGenGo` | `loadgen/main.go` | `Low` gives the lower ends of the buckets, whole numbers so that the arithmetic is exact; `main`'s scans take one step per bucket, in three rounds: all samples for the log, each window (left out if its total is 0), all samples again for the JSON object. `now` is the monotonic clock, `ahead` how far the wall clock, by which latencies go, is ahead of it |
| `RunnerProofs`, `PythonProofs`, `GoServerProofs`, `GoPoolProofs`, `GoEpollProofs`, `LoadGenOdinProofs`, `LoadGenGoProofs`, `ReportProofs` | | the proofs |
| `MC*` | | command lines, files, quotas and symmetry sets for TLC |

Definitions keep the names of the source where TLA+ allows it; `map` in
`PROJECT.json` gives the lines of each. Operators marked `Mutant` are plausible
bugs: each property has one, and TLC reports the property violated when the
mutant takes the place of the original, so every property depends on the code it
is about.

Steps are as fine as other actors can see: a channel operation, a shared memory
access, an `await`, a signal, a reading of `/proc`, one event of a batch, one
recipient of a broadcast. Frame encoding is left out; frame types, rooms, ids,
ticks and sequence numbers are kept where a decision depends on them, and the
Python server keeps one coordinate because `struct` refuses a large one.

## Runs

| Run | Instance | Shows |
|---|---|---|
| `runner` | four command lines (two process models and an unknown name; two trials; two loads with given cores; a machine with one core), empty files or those of an earlier run, every fault | `OneServer`; `SamplesSound`; `Ledger` (every cell has one row or a message); `TimelineFollows`; `Finishes` |
| `runner_leftover` | the same, interrupted and started again | violated: `RowHonest` |
| `runner_ready` | a server with two processes | violated: `AllReady` |
| `report` | every CSV of at most four of seven kinds of lines, longer ones with timelines, all clicks | `MedianOfTrials`, `AxisFits`, `PageInSync`, `TimelineCards` |
| `python` | 2 clients, 2 rooms, 3 frames, a loop up to a tick late | `MembersExact`, `JoinedFirst`, `PaceExact`, `Handled` |
| `go` | 2 clients, 2 rooms, all channels of capacity 1 | `NoGhost`: past its cleanup a reader leaves no player behind; `OncePerTick`: at most one snapshot per tick, in order |
| `go_live` | 1 client that need not read, fair goroutines | `SeqNeverBack`, `RoomNotStalled` ("a slow client must not stall a room"), `JoinAnswered`, `Departure`, the last three unless the process has ended |
| `go_pool` | 2 clients, 1 room, 3 buffers | `IndInv`, `PoolSafe` (no buffer is recycled under a reader), `NoLeak`, `ImplementsGo` |
| `go_epoll` | 3 clients on 2 descriptors, batches of 3 | `MembersIndexed`, `EachOnce`, `OutArmed`, `ClosedForCause` |
| `go_epoll_ghost` | clients that join two rooms | violated: `OnlyMembers` |
| `loadgen` | 2 connections, stalls of up to 3 intervals | `Scheduled`, `NearlySorted`, `SampleExact` |
| `loadgen_go` | 1 connection, 2 windows, 2 percentiles of a window, a wall clock that is set by 2 | `WindowsInside`, `ReportExact`, `LateBounded` |

Each passing run except `go_live` also checks a type invariant (`IndInv` contains
that of `GoPool`). Run one with, for example, `tlc -config Runner.cfg MCRunner`;
all take from seconds to about two minutes.

`OneServer` is what `stop_server` can guarantee: a process that outlives its trial
has been sent SIGKILL. Whether the kernel has carried it out within the two
seconds of the last `wait` is not in `run.py`'s hands (fault `slowkill`).
`SamplesSound` is about samplers whose `join` did not time out; see findings.

`TimelineFollows` starts with the opening of `timeline.csv`: between `run.py:434`
and 441, on a run over old files, the rows are gone and the windows still there.

`MembersExact` says of the Python server that the last JOIN of an open connection
holds, that a connection is in the rooms at most once per JOIN, and that the end of
one that joined once, as the protocol foresees, takes it out of them all. It asks
for nothing that a second JOIN leaves behind; see findings.
`NoGhost`, `OncePerTick` and `Departure` of the Go server, and `MembersIndexed`,
`EachOnce` and `OutArmed` of `go_epoll`, are for clients that send one JOIN (`MaxJoin = 1`).

`Departure` has an exception that is in the code: when a write fails, the writer
goroutine exits without telling anybody; if the reader then has to send JOINED to
a channel that is full, it blocks for ever and its player never leaves.

`PageInSync` compares what two parts of the page compute in different ways: what a
chart draws, from the data the script has, and what the table says, from the
server-side medians, each with what is hidden.

## Bounds

Every bound is a named constant. Capacities (`InboxCap`, `SendCap`, `WbufCap`,
`RING`, `MaxEvents`) are code constants made small so that full, wrapped and
overflowing are reached; what the code does depends only on full or not full.
`Max...` constants end what would go on for ever:

- `Runner`: `MaxCpu` and `MaxWindows` of 1 tell something from nothing; `MaxSlow`
  of 1 lets a killed process overlap with the next server, which already decides
  who gets the port; `MaxStarts` of 2 is an interrupted invocation and the next.
  `Leftovers` is an empty file or one entry, of a cell the matrix has again or of one it
  has not.
  The four command lines exercise each of the three loops of `main` more than
  once, both launch plans, an unknown server and an empty set of server cores.
- `PythonServer`: `Tick` 2, `StepCost` 1 and `MaxLate` 2 make a room miss a tick
  and catch up without a sleep; `PosMax` of 1 makes two moved ticks overflow;
  three frames reach every order of JOIN, MOVE, bad frame and close of two
  clients, including a second JOIN to another room. `PidMod` is larger than the
  number of frames, and so of JOINs: the wrap of the 32-bit id is described under findings. One
  process, as processes share only the port.
- `Report`: values are multiples of 1/200, among them a negative one, 0, powers of
  ten, just above powers of ten, and fields that are not numbers; `Powers` are the powers of
  ten in that unit, as many as an axis can need; four lines give four
  trials of one cell or two cells of two. Longer files add a fifth trial and the
  timelines. Coordinates are rounded down to pixels, the code keeps a decimal.
- ticks of `go`: a number from `MaxTick` on is not told apart, the room goes on.
  Two ticks are enough to see one snapshot overtake or repeat another.
- clients: two members show what one does to the other. `GoEpoll` has a third
  client so that a descriptor can be reused while another member stays; its
  `MaxFrame` is a total over all clients. One worker, as workers share only the
  id counter and the descriptor table; that others take numbers from it is in
  `accept`, which may get any free one.
- the clock of `LoadGenGo` stops at `MaxClock`, past the deadline. `Offsets` of 0
  and 2 make a wall clock that is set back by more than a latency, and forward.

Symmetry over clients and rooms is used where no temporal property with fairness
is checked. Deadlock checking is off where the system may stop: all clients gone
and all bounds used up (`go`, `python`), or the program at its end (`runner`,
`loadgen`), or nothing left to click (`report`).

## Fairness

Only `go_live`, `runner` and `python` have liveness properties.

- Go: goroutines that can run do run (weak fairness). Where several parties
  compete (a `select` with several ready cases, senders on a full channel),
  strong fairness: `select` picks a ready case at random and channels serve
  blocked senders in order. A write to a socket whose client has gone fails in
  the end (TCP reset or time-out), and a read reports it.
- `Runner`: both threads are scheduled, the load generator ends (it has a
  duration; `run.py:338` has no time-out of its own), and SIGKILL takes effect.
  No server has to listen, to exit, or to honour SIGTERM.
- `PythonServer`: `asyncio` runs all callbacks that are ready, in the order in
  which they became ready. A handler may be disabled by a room that holds the
  loop, hence strong fairness for handlers and weak fairness for each process'
  tasks. `Handled` rests on `StepCost < Tick`: when a round of a room takes a tick
  or more it never sleeps again, and nobody else on its loop runs.
- Nowhere does a client have to read, send or leave.

## Proofs

Eight theorem modules; `PROJECT.json` lists 35 theorems, one for each invariant and
action property that a run checks and one for the refinement. Hypotheses beyond the `ASSUME`s on the constants are part of the
theorems that need them:

- `MaxJoin = 1`: clients join once, which is what the code is written for; what a
  second JOIN does is under Findings;
- `Proper` and `Sized` command lines: nothing is named twice; the lists are lists
  and the server cores exist;
- `Plottable` and `Timed` files: they fit the integer scale of `Report`.

TLC evaluates the last two kinds on every command line and file of its runs, so
they are about instances that are there.

Nothing here rests on induction over data. A sum, a count or a sorted list is
characterised instead through the cardinality of a set, for which the library has
laws: a histogram counts its samples as pairs, a sorted list gives each element
the number of those before it. Where a least element is needed it is the minimum
of a set of naturals under the well-founded `<` (`LeastNat`).

**`RunnerProofs`**, for any command lines, servers, loads, trials and process
counts, with all faults (from `RunnerAssumption`: bounds are natural numbers).

- `OneServerAtATime`: `Spec => []OneServer`. Not inductive: it has to be known how
  far `stop_server` has got. `StopInv` adds `StopProgress`: the processes its
  second loop has passed are dead or have been sent SIGKILL; when it returns, so
  has every process there is; and `stopped` is 0 until it starts. Processes may
  die in between but nothing comes to life and no live process loses its signal
  (`ProcessSig`), so the facts survive every interleaving.
- `TimelineAfterRow`: `Spec => []TimelineFollows`, from `FilesInv`: once both files
  are open they hold nothing of an earlier run, and between the row and its windows
  the row is in the file. Nothing is assumed of what the files held before.
- `NothingLost`: `Spec => []Ledger`, for command lines that name no server and no
  number of connections twice (`Proper`; with a repeated one, cells share a row
  and `Ledger` cannot count them). `Book` splits the matrix at the cell `main` is
  at. `Past`: a cell has no row exactly if it was reported; `Future`: a later cell
  has neither; `Present` ties the current one to `pc` and `res`, for example that
  it is not reported before its row is written. `RowsOnce` and `RowsOrdered` say
  where its rows are. The order of the loops decides which cells move from
  `Future` to `Past`; a server that does not build or start moves all of its own.
- `RunnerTypes` (`TypeOK`), for `Sized` command lines, from `RunTypes`. A plan has no
  more processes than there are cores, so the counters of `start_server` and
  `stop_server` stay in range whichever of them dies on the way.
- `SamplesAreSound` (`SamplesSound`), for `Sized` command lines, from `SampleInv`.
  `There`: until `stop_server` reaps, the processes of the trial stay in the table,
  alive or zombie. So what the sampler has read is never more than a later reading
  of the same processes would give (`Readings`), and the end is not below the
  start. `Begun` says how far the thread has got, and `Kept` that a sampler that
  was joined reads no more. The processes' CPU grows between any two steps of it.

**`PythonProofs`**, for any number of processes, clients, rooms and frames and any
`Tick`, `StepCost < Tick` and `MaxLate` (from `PythonAssumption`).

- `PythonTypes`, `NoDrift` (`PaceExact`) and `JoinedBeforeSnapshots`
  (`JoinedFirst`), from `PyInv`. `Paced` says of a room that is up that `due` and
  `owed` add up to one tick, or to nothing between a step and the pacing after
  it; that a room that is not up owes nothing; and that a room that holds the loop
  was due. Every action changes one clock, or moves all of them by the same
  amount (`ElapseStep`). `Told` says that whoever is in a room has had its JOINED,
  which is what makes `JoinedFirst` inductive.
- `PyMembersExact` (`MembersExact`), from `MemberInv`, which knows exactly how many
  memberships a connection has, those of earlier JOINs included. The count changes by one
  with a JOIN only if the id is new, so `Budget` and `Issued` bound the ids given
  by the JOINs handled and these by the frames sent, `Given` says that the tables
  hold given ids only, and `PidMod` exceeds the number of frames: no id is given
  again. `Owns` says that what a handler's `my_pid` and `room` name is in the
  tables until the end, so that leaving takes one membership away.

**`GoPoolProofs`**, for every number of connections, rooms,
buffers and ids and all channel capacities (from `RoomConstants` and
`PoolConstants`).

- `PoolInvariant`: `Spec => []IndInv`.
- `PoolSafety`: `Spec => []PoolSafe`. No buffer is in the pool while a channel, a
  writer, a broadcast or a reader still has it.
- `NothingLeaks`: `Spec => []NoLeak`. Every buffer that was made is in the pool or
  somebody still has it.
- `Implementation`: `Spec => ImplementsGo`. Read through the buffers, the pooled
  server is the reference server: recycling does not change its outputs.

`PoolSafe` is not inductive. A release returns a buffer to the pool when its
counter reaches zero, so one has to know that the counter is right, and that no
release happens twice for one reference. `IndInv` says this with references that
have names, one token for each recipient of a broadcast and token 0 for a JOINED
frame:

- `CountExact`: the counter is the number of references in `holders`;
- `FreeUnheld`: a buffer in the pool has none;
- `PlacesHold`: every place that has a buffer (queue entry, frame in a writer's
  hand, reader, unfinished broadcast) holds a reference of its own;
- `QueueOnce`, `BcastOnce`, `ReaderOnce`: no reference is in two places, so a
  release of one leaves those of the others;
- `BcastShape`: before the count is set nobody else has seen the buffer, and the
  recipients of a broadcast are still in the room's map.

A buffer in the pool has no references, and whoever can read it would have one.
`NoLeak` needs the converse, `LeakInv`: every reference is at some place
(`Accounted`), and a buffer without references is in the pool or in a broadcast
whose count is not set yet (`NotLost`).
The proof of `PoolStep` has one lemma per action. For the
refinement, `bytes` read through the channels gives the abstract frames; the one
step that overwrites a buffer takes it from the pool, and by `IndInv` no abstract
frame comes from there (`OverwriteUnseen`). Building the JOINED frame and setting
the count are stuttering steps; `JoinedFilled` says the former is still intact
when it is sent.

**`GoServerProofs`**, for any number of clients, rooms, MOVEs, ticks and ids and any
capacity of the channels (from `RoomConstants` and `SendCapAssumption`). The
theorems are about `SafeSpec`, which is `Spec` without its fairness. The end of the
process changes nothing but `up`, so that each proof is about `Work`, a step while it
runs (`StepIsWork`); the same holds for `GoPoolProofs`.

- `ServerTypes`.
- `EchoNeverBack`: `SafeSpec => SeqNeverBack`, for any `MaxJoin`. `MoveInv` says
  that at most one connection holds an id and that an inbox has the MOVEs of a
  player in order, none before what the room has and none after what the
  reader has read.
- `NoGhosts` (`MaxJoin = 1`). `GhostInv` follows a membership through the
  interleavings of reader and room: `OwnInv`, a player a connection has in a room
  is the one its reader knows or waits for; `JoinInv`, there is at most one join
  of it in the inboxes, and only while its reader waits; `LeaveInv`, past its
  cleanup what is left is covered by a leave. The case that a test hardly reaches
  is a reader that gives up while its join is in the inbox.
- `SnapshotsOnce` (`MaxJoin = 1`): `OncePerTick` is not inductive, for it says
  nothing of snapshots yet to be offered. `TickInv` adds that no queued snapshot
  is later than its room's tick, `BcastInv` that for a member still to be served
  all are earlier; `OwnInv` is needed as well, for two players of one connection
  would get two copies.

**`GoEpollProofs`**, for any number of clients, rooms, descriptors, events in a batch
and frames (from `EpollConstants`).

- `EpollTypes` and `EpollClosesForCause` (`ClosedForCause`), for any `MaxJoin`, from
  `EpollInv`. `Links`: descriptor table and open connections agree, although
  numbers are reused within a batch; `Fresh`: what is not accepted has no state;
  `Served`: rooms and the send loop hold accepted connections; `AtEvent`: where
  the worker is; `Counted`: ids are bounded by the JOINs handled, which `TypeOK`
  needs. That the event is stale does not matter to the proof: it covers whatever
  a batch says about a descriptor.
- `EpollMembersIndexed`, `EpollEachOnce` (`MaxJoin = 1`), from `OnceInv`. A
  swap-remove during the send loop moves the last member to the place of the
  closed one, which the loop has reached. `ToSend` says why that is harmless: who is still to be served is
  in the room, is listed once, and sits at an index no larger than its place in
  the loop.
- `EpollOutArmed` (`MaxJoin = 1`), from `OutInv`: `wantOut` mirrors the buffer of an
  open connection. With `MaxJoin = 2` TLC finds a counterexample: the first room
  still writes to a connection that is closed, and so arms the next owner's descriptor.

**`LoadGenOdinProofs`**, for any number of connections, any interval, ring, warm-up
and stall (from `LoadGenConstants`): `LoadTypes`, `ScheduledOnce` (`Scheduled`),
`SchedNearlySorted` (`NearlySorted`) and `SamplesExact` (`SampleExact`), from
`LoadInv`. `SchedJoined`: only joined connections are scheduled, so that JOINED
adds a new one. `Ahead`: no deadline is more than one interval after the clock,
which with the guard of firing gives the two intervals. `RingExact`: the ring
holds the last `RING` send times; two sequence numbers less than `RING` apart
have different slots (`SlotsDiffer`).

**`LoadGenGoProofs`**, for any number of connections, windows, buckets and
percentiles, any ring, period and network (from `LoadGenGoConstants` and
`HistogramConstants`).

- `LoadGoTypes` (`TypeOK`), from `TypeInv`. A latency may be negative, for the wall
  clock may be set back; a reader that has recorded one had a positive one, which
  is due to the test at `main.go:228` alone. `AtMain` and `Filled`: where the scans
  of `main` are, and which results it has.
- `FewLate` (`LateBounded`), from `LateInv`. `Tally`: the histogram has what
  `measured` counts and one sample for each reader between its two additions.
  `Closed`: a `runConn` that is done has closed its socket, so no reader gets a
  new frame, and `Late` counts the samples on their way (`Coming`) into the bound.
- `WindowsAccount` (`WindowsInside`), from `WindowInv`. `Split`: in each bucket the
  windows and the readers that have still to add to one make up the histogram
  until the last window ends, and never more than it. `Since`: the time a reader
  took its window from has passed the warm-up and is not after now.
- `PercentilesExact` (`ReportExact`), from `ReportInv`. A histogram only grows after
  `main` woke up (`Grown`); so one that is now as it was then never changed, and
  both scans saw the same (`Summing`, `Scanning`: the running sum so far, and no
  earlier bucket reached the rank). `Exact` keeps that for the calls that are over, in all three rounds; a window is
  left out only if a scan of all its buckets found nothing.

**`ReportProofs`**, for any files, servers and fields (from `ReportConstants`: lines
have their fields, values are whole multiples of the unit, those of the timeline not
negative, and `Powers` are the powers of ten from the unit on, without a gap).

- `PageAlwaysInSync` (`PageInSync`), from `ReportInv`. `PageInv` gives each part of the
  page as a function of the set of hidden servers; that charts and table agree about
  the others follows from `MedianOfTrials`, for both show the median of the file
  (`MediansShown`, `SyncShown`).
- `ReportTypes` (`TypeOK`) and `MediansAreOfTrials` (`MedianOfTrials`), from
  `ReportInv`. `load` appends values one line at a time, and the median of what it
  has collected is the median of the file only if the multisets agree: `ReadCounts`
  says that each list has, for every `v`, as many values up to `v` as the lines
  read so far. `SortedRank` ties a sorted list to such counts: at most `m - 1`
  values are below its `m`-th, and at least `m` are not above it. That is what
  `Kth` says of the file, so the two meet (`KthIs`, `MedianIs`).
- `AxesAlwaysFit` (`AxisFits`), for `Plottable` files: no value is above the
  `Powers`, and there are no more loads than columns of pixels. A negative value is
  drawn below its axis (`YBelow`). `NiceMax`: the code's
  rounding is the least round number not below its argument. That loads stand in
  order on the x axis needs `QuotientApart`, for rounding down could put two
  neighbours on one pixel.
- `CardsAreComplete` (`TimelineCards`), for `Timed` files: one window per second of a
  trial, as the load generators report them, and no more seconds than columns.
  `CardsFacts` has the order of the cards, `CardPath` the windows of one,
  `LabelsFacts` the one to seven labels.
- `RankFacts` is behind all of them: the number of members that come before one is
  an injection of a finite set with a total order into `0 .. n - 1`, hence onto it;
  so the listing that `InOrder` chooses exists.

Only model-checked:

- the liveness properties (`RoomNotStalled`, `JoinAnswered`, `Departure`,
  `Finishes`, `Handled`): fairness and `ENABLED` are outside the prover's reach;
- the three violations, which are counterexamples.

## Findings and observations

Three disagreements are shown by a run:

- `runner_leftover`: servers live in a session of their own and `main` has no
  `finally` around a trial. After Ctrl-C the server stays; the next invocation
  finds the port open and may write rows that measure the leftover.
- `runner_ready`: `wait_ready` is content with one listener, so the load may start
  while other processes of a one-per-core server are still starting; connections
  never move, so these stay without load.
- `go_epoll_ghost`: a second JOIN does not take the connection out of its first
  room, and closing removes it only from the last. The first room keeps writing
  to a descriptor that may have become another client's.

Others were met while modelling; no run is listed for them:

- `runner/run.py:272`: when `join(timeout=2)` gives up, the sampler may read
  `/proc` while `stop_server` reaps; the CPU of the row is then too small and can
  be negative. `SamplesSound` excludes this case.
- `servers/go/main.go:188` and `servers/go-pool/main.go:239`: a JOIN with fewer than
  5 bytes is read past its end, and the panic ends the process with all its rooms.
  The Python server and `go-epoll` look at the length first.
- `runner/run.py:434,441`: between the two `open` calls a run over old files has
  windows without rows; a report made then shows cards of runs it does not list.
- `runner/run.py:358`: a build tool that is not installed raises `FileNotFoundError`,
  which nothing catches, and ends the matrix; a build that fails only skips the
  server.
- `runner/run.py:219`: `utime` and `stime` of the members of the group are summed, and
  those of a child that was reaped by its parent are not among them: the CPU of a
  server whose children end during the load is too small.
- `runner/run.py:338`: nothing limits the load generator, and no read of it has a
  time-out either (`loadgen/main.go:193`).
- A server that crashes during the load still gets a row if the load generator
  prints its JSON; `Ledger` counts it as measured.
- `runner/run.py:440`: the timeline file has a fixed name beside the results, so
  that two runs with different `--out` in one directory overwrite it, and
  `plot.py:504` picks up whichever is there.
- `runner/plot.py:67`: a line cut short (the file is read while it is written)
  ends the report with a `TypeError`; only `KeyError` and `ValueError` are caught. In
  the timeline (346, 349, 360) so does one that is cut before its time, or, in the
  trial that is shown, before its last percentile.
- `runner/plot.py:155`: `.leg` has a `display` of its own, which overrides the `hidden`
  of the show-all button (125, 292); only panels have a rule for `[hidden]` (179). The
  button is always there, and clicking it with nothing hidden changes nothing.
- A negative CPU is drawn below the axis of its chart.
- `servers/python/server.py:39,145`: ids wrap at 2^32 and 0 means "not joined", so
  the player with id 0 would never leave.
- `servers/python/server.py:34`: ids are unique per process and rooms are too, so
  N processes split one room; `PROTOCOL.md:38` says "server-unique".
- `servers/python/server.py:97`: a coordinate beyond 32 bits raises in the room's
  task, which ends unseen; the room takes players and stays silent.
- `servers/python/server.py:102`: the write buffer of a client that does not read
  has no limit.
- `servers/go/main.go:187`: after a second JOIN for the same room the connection
  is in the room's map twice and gets every snapshot twice. The Python server
  (`server.py:135`) keeps the first membership for ever, which is the behaviour of
  `go_epoll_ghost` (`PROTOCOL.md:43`) without the reuse of a descriptor.
- `loadgen-odin/main.odin:134-135` calls the schedule sorted. After a stall it is
  not: the snap-forward counts from now, others from their old deadline. What
  holds is `NearlySorted`, two intervals.
- `loadgen/main.go:227,252`: latencies are differences of `UnixNano`, the wall clock.
  When it is set back, samples are lost (228); when it is set forward, they are too
  large. The Odin load generator uses the monotonic clock.
- `loadgen/main.go:253`: a write that blocks makes the ticker drop ticks, so the
  load is not open-loop during a stall of the server (`METHODOLOGY.md:22`).
- `loadgen/main.go:70` and `loadgen-odin/main.odin:74`: the rank of a percentile
  is rounded down, so that with a single sample every percentile below 1 is the
  first bucket.

## Not modelled

- Servers: `odin` and `zig` are reactors of the design that `GoEpoll` models;
  `rust` and `clojure` have the actors of `GoServer`; `lua`, `dart` and
  `dart-pool` are single-threaded loops as in `PythonServer`; `ocaml`, `swift` and
  `elixir` have designs of their own (a mutex per room, rooms pinned to loops,
  supervised processes). Where they differ from their relatives the results here
  say nothing about them.
- `run.py`: the client's cores and warnings, the values in a row beyond CPU and
  RSS, the idle RSS, lines of progress, process groups of several processes, and a
  machine without `taskset`. `plot.py`: the style sheet beyond what is visible,
  colours, markup, number formats, and floating point.
- Python server: y, sequence numbers, encoding, signals, the write buffer.
- Encoding and coordinates of the Go servers; flag parsing, listener set-up and
  logging everywhere; the spread statistics and JSON of the load generators;
  partial writes in `LoadGenOdin`.
- Kernels, runtimes and libraries (epoll, sockets, asyncio, `/proc`) beyond what
  the sources rely on, marked external in the map. Weak memory is not modelled:
  shared counters and histograms are atomic in the code.

## Plan

In order:

1. `servers/odin` and `servers/zig` beside `GoEpoll`: pointers in the events and
   connections that are freed.
2. `servers/ocaml`: domains, a mutex per room, a mailbox with a drop threshold
   below its capacity, a central tick thread; may rooms and mailboxes deadlock?
3. `servers/swift` (joins across loops) and `servers/rust` (a Leave that may be
   lost).
4. An abstract specification of a room, membership and ticks only, that the
   reactor, the actor and the `asyncio` servers implement; the refinement proved as
   that of `GoPool` is.
