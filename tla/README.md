# Formal model of signal-call-tunnel

TLA+ specifications of the call tunnel in this repository, the TLC runs that
check them on small instances, and theorems about them that TLAPS checks for
every value of the constants. Paths below are relative to the repository's root
(`src/` in `PROJECT.json`).

## 1. Inventory

The tunnel is a process a parent (signal-cli) starts for one call. It speaks
JSON lines with the parent over stdin and stdout, runs RingRTC, and exchanges
audio with WebRTC either through virtual audio devices or through a Unix socket
(the *pipe* backend). Around it are build scripts that patch RingRTC and an
end-to-end test harness that drives signal-cli and an Android emulator.

| Component | Source | State | Operations | Hard parts | What makes it correct |
|---|---|---|---|---|---|
| Pipe audio device | `signal-call-tunnel/src/pipe_audio.rs` | four atomic flags, connected peer, two byte buffers | accept, pull, write, read, push, once per 10 ms tick | clock and control thread share flags without a lock; reads and writes stop anywhere; bytes are dropped when a side falls behind; peers come and go | buffers bounded; samples never split; a peer hears and is heard as itself only; at most one window follows when live recording is withdrawn |
| Clock of the pipe device | `pipe_audio.rs` | `next_tick`, the monotonic clock | begin a tick, exchange a window, sleep or start over | sleeps that last too long, ticks that outlast their window, stalls | never ahead of real time, no burst after a stall, no drift |
| Custom ADM worker | `patches/ringrtc-custom-audio-backend.patch` | event queue, control queue, callback, driver thread | translate ADM events, terminate, join | three threads that wait for each other to end | shutdown completes; no thread survives the worker |
| Control channel | `control.rs` | message queue, line queue | read and parse lines, write lines | refused and torn lines, end of file, a parent that stops reading | every command arrives once, in order; every line is written in order |
| Event loop | `main.rs` | active peer, terminate flag | seven commands, SIGTERM, end of file, hangup | commands queued behind a hangup or before end of file; identity of peer and call | nothing that can be read is lost, nothing runs after a hangup, RingRTC hears one peer and one call |
| Platform callbacks, forwarder | `platform.rs`, `main.rs` | event queue | signaling messages and call states to lines | two queues and two threads beside error lines | events reach stdout in order |
| Startup | `main.rs`, `config.rs` | audio mode, socket file, virtual devices, channels | read configuration, bind audio, ready line, wait for devices, create the call manager | a failure at every step, SIGTERM before its handler, an earlier tunnel with the same socket path, a wait without a limit | the socket named in the ready line is there; no virtual device outlives its tunnel |
| RPC client | `voice-test/lib/signal_rpc.py` | receive buffer, kept notifications, request ids | call, wait for a response, read an event, wait for a state | notifications inside a response's wait, late responses, closed socket | no event lost or reordered, a response answers its own request |
| Scenarios and runner | `voice-test/e2e_test.py` | call id, results | scenarios A to E, retry, clean state, exit code | events of other calls, cleanup after a failure | pass means the states were reached; no call is left up |
| Test driver | `voice-test/run_e2e.sh` | process ids, cleanup flag | start and stop processes, traps | a signal at any line | nothing left running |
| Build scripts | `build.sh`, `signal-call-tunnel/build.rs` | ringrtc's tree, what cargo compiled | apply patches once | a patch that fails, a build from stale sources | a successful build links patched sources |
| Emulator control, gRPC audio, audio analysis | `voice-test/lib/*.py` | - | - | outside systems, numerics | not modelled |
| RingRTC, WebRTC, signal-cli, kernel | external | - | - | - | modelled only as their user sees them |

Interactions: parent -> stdin -> reader thread -> message queue -> event loop ->
RingRTC; RingRTC -> callbacks -> event queue -> forwarder -> line queue -> writer
thread -> stdout -> parent; WebRTC -> ADM event queue -> worker -> control queue
-> control thread -> flags -> clock thread <-> Unix socket <-> peer.

The hazards of this code, each at its line and with the properties that watch
it, are listed in `PROJECT.json` under `hazards`.

## 2. Modules

| Module | Stands for |
|---|---|
| `PipeBuffers` | `cap_buffer`, `take_window` and the sample to byte conversion as operators on sequences |
| `PipeAudio` | the pipe device, the worker and their peers, without time |
| `TickPacing` | how `clock_loop` spaces its ticks, without what they do |
| `PipeTimed` | both together: the clock thread of `PipeAudio` paced by `TickPacing` |
| `PipeAudioProofs`, `PipeStreamProofs`, `TickPacingProofs` | theorems about them: types, bounds, modes and shutdown; the bytes on their way between peer and WebRTC; the pacing |
| `MCPipeAudio` | the sets of engine events of the TLC runs |
| `Relay` | abstract specification: what comes out is a prefix of what went in |
| `Sublists`, `SublistsProofs` | the elements of one kind in a sequence of several, for the properties of mixed queues, and lemmas about them and about queues in a row |
| `AudioBinding` | audio mode, socket file and virtual devices of a tunnel, and what an earlier tunnel left |
| `CallTunnel` | startup, control channel, event loop, forwarder and writer, with RingRTC and the parent around them; extends `AudioBinding`, implements `Relay` twice |
| `CallTunnelProofs` | theorems about `CallTunnel` |
| `MCCallTunnel` | the lines and callbacks of the TLC runs |
| `SignalRpc` | the tests' RPC client against a daemon; implements `Relay` for notifications |
| `SignalRpcProofs` | theorems about `SignalRpc` |
| `E2eTest` | `main()` of the test runner and its five scenarios, over what `SignalRpc` promises |
| `E2eTestProofs` | theorems about `E2eTest` |
| `MCE2eTest` | the selections of scenarios of the TLC run |
| `PatchBuild` | `build.sh`, `build.rs` and what cargo does around them |
| `RunE2e` | the test driver script and its processes; extends `PatchBuild`, whose specification it implements |
| `RunE2eProofs` | theorems about both |

### PipeAudio

One action is one step another thread or a peer can see. The worker's loop is
`WorkerForward`, `WorkerSetCallback`, `WorkerAnswer`, `WorkerTerminate`,
`WorkerClosed`, and what follows the loop is `WorkerFinish` and `WorkerJoin`.
The control thread takes an event and stores flags; StartRecording stores two,
in two steps (`ControlStartRecording`). The clock thread's program counter
`clock` walks through a tick: `check` (terminate), `accept`, `pull`, `drain`
(one `ClockWrite` per `write(2)`), `fill` (one `ClockRead` per `read(2)`),
`load` (`recording`), `load_send` (`send_to_webrtc`), `push` (`take_window`).
The two loads and the push are three steps, and the control thread may store
either flag between any two: a window may still be pushed after a stop or a
warm-up was taken, one and no more (`OneTrailingWindow`).

Choices:

- A byte is a record: whose it is, at which position of the stream, and whether
  it was read during warm-up. Positions wrap at `LAST_BYTE`, which is odd, so
  that even positions are low bytes. The values of samples are left out.
- `write(2)` on the non-blocking socket takes any number of bytes between one
  and the free space, as POSIX allows; `read(2)` returns what is there, at most
  `TMP_LEN`. The kernel's buffers hold `RX_CAP` and `TX_CAP` bytes.
- Peers write one byte at a time, so a read finds any number of them, odd ones
  included. Each peer connects once; a second connection is a second peer.
- A peer that closes with unread data resets the connection: the next read
  fails. With everything read it is end of file.
- `accept()` may fail or find nobody at any tick (`ClockNoPeer`).
- Without a callback `pull_playout` returns nothing. The pull is one step: it
  holds the transport's lock.
- Time is left to `TickPacing`: one tick follows another. `RealtimePeers` is the assumption
  that no peer writes between two reads of one tick; only the liveness run makes
  it. Without it `fill_capture` (`pipe_audio.rs:260`) may read for ever, and
  neither shutdown nor anything else of the tick would follow.
- `recv()` never returns None before Terminate: the worker always sends
  Terminate before it drops its sender, so that path is not a separate action.
- `request` (what was last asked of recording), `trailing` (windows pushed since
  a live request was withdrawn) and `lastWritten` are history variables the
  properties need.

### TickPacing, PipeTimed

Time is a number in units of which a window has `TICK`. `BeginTick` is
`next_tick += tick`, `EndTick` the comparison with `now()` after the work of a
tick, `WakeUp` the end of a sleep, which may come late but never early.
`ExchangeWindow` notes when WebRTC got its window. `PipeTimed` binds them to the
program counter of `PipeAudio`: `TimedCheck` begins a tick, `TimedPush` exchanges
a window when one is pushed, `TimedEnd` ends the tick; every other step is
PipeAudio's own (`Untimed`), and time passes between any two. `windows`, `ticks`
and `late` are history variables.

### CallTunnel, AudioBinding

`main` is the program counter of `main()`: six steps of startup, each of which
can fail, then the loop. A failed step returns from `main()` and runs Drop
(`DropBinding`); a SIGTERM before its handler is registered kills the process
without. The ready line is queued by `StartChannel`, three steps before there is
a call manager. The wait for the two virtual devices has no limit, so that
`DevicesListed` has no fairness.

The audio mode is resolved from the configuration and the environment
(`resolve_audio_mode`, with one spelling for every string that is not "pipe").
The socket's path depends on the call id only: `Predecessors` says whether an
earlier tunnel with the same path left its file, or lives and removes the file
when it ends (`PredecessorEnds`).

The four queues are the two channels of `control.rs`, the event channel of
`main.rs` and stdin; stdout is a pipe that holds `PIPE_CAP` unread lines, after
which a write blocks. A line is a record of its command type, peer and call id,
or *config*, or *junk* (blank, or refused by `parse_message`), or *torn* (not
UTF-8, on which the read fails). The parent may go on writing behind a torn
line, but the reader has given up (`control.rs:393`): the loop handles what is in
the channel and leaves as on end of file, and the rest is lost. Every command is an action; an error answered
by a line, an error that is only logged and a failed track creation are its
disjuncts. The process exits by a failed startup, end of file, SIGTERM or a
hangup, and takes the threads it did not join along. RingRTC may call back at
any time once it was handed a call. `issued`, `handled`, `emitted`, `calls`,
`torn` (a torn line was written) and `readable` (the commands in front of it) are
history variables. A peer id the parent leaves out is the empty string in
the code and `"empty"` in the model.

### SignalRpc

The client is one thread; its state is the receive buffer (`buf`, complete lines
only: what is left of a cut line is still in `wire`), the kept notifications, the
request counter, and what it waits for. `Send`, `WaitResponse`, `ReadKept`,
`ReadWaits`, `ReadLine` and `Close` are the methods; `Receive` is one `recv()`,
which brings any number of the waiting lines. The timeout fires only when nothing
is there to be read (`NothingCame`): it is the timeout of one `recv()`. A closed
connection ends a request with None, not with an error, and makes the next
`sendall()` raise. The nine request methods differ in their parameters and
timeouts only and are one action. The daemon (external) answers requests in any
order or never. `answered`, `said`, `given` and `ended` are history variables.

### E2eTest

Each scenario is a sequence of steps, `main()` a program counter. A request ends
with its answer, with None when the daemon is gone, or with an exception; an
exception in a step leads to the scenario's `finally`, which hangs up the call
whose id it still knows. Of the RPC client the module uses what `SignalRpc`
shows: notifications in order (`events`), a request's own answer. A wait drops
every event it does not look for; its deadline may pass at any moment. Calls move
on their own, may end at any time and may outlive their scenario. Checks of a
reason, a device name or a tone are choices. Scenario D does not check that the
answer to `startCall` has an id and goes on without one (`StartCall`); the others
raise. In E the audio channel is closed in the `finally` and may raise, after the
hangup and before `rpc.close()`; `main()` makes a failure of it. `said`, `own` (the
scenario's call), `known` (whether it learned the id), `asked` and `leftover` are
history variables.

### PatchBuild

`tree` is the set of patches whose marker is in the submodule's working tree,
which is what both scripts look for; `rlib` and `binary` are the sets compiled
into RingRTC and linked. cargo (external) settles when it starts what it has to
redo, from what changed since it was built (`fresh`, `scriptFresh`), and then
runs `build.rs` and the compilation of RingRTC in either order: the comments
that count on RingRTC first (`build.rs:55`, `build.sh:19`) are true of some
builds only, and the properties hold either way. A build can be killed at any
point; inside `git apply` that leaves files unwritten (`damage`), of the library
or others, with or without the marker. `result` says how the last build ended. There is one cargo
profile: `build.sh` and `cargo build` share their output directory.

### RunE2e

`pc` is the script's next command. A signal sets `pending`; its trap runs between
two commands, or at once inside `wait` (`TrapRuns`), and does not exit: the
script goes on at `resume`. `cleanup()` is six steps, entered once
(`CLEANUP_DONE`), from a signal or from EXIT (`Exit`, also for a command that
fails under `set -e`). The daemon and the test runner of this run, the daemon,
tunnels and collectors that a killed run left, and the socket's path are state of
their own and move by themselves; the old daemon may bind the path after the
pre-run cleanup. `pkill -f signal-call-tunnel` matches the script itself when
the checkout's path says so (`MayMatchItself`). The preparation between the
build and the logcat collector is one step. `early` and `oldLate` are history
variables.

## 3. Runs

| Run | Shows | Bounds | Distinct states |
|---|---|---|---|
| `MCPipeCapture` | types, bounded buffers, alignment, completeness and ownership of what is captured | two peers, window of one sample, two windows kept, reads of three bytes (odd), socket of three: drops, split samples and reads that overlap two windows all occur | 4.4 million |
| `MCPipePlayout` | what a peer gets | two peers, window of one sample, one window kept, socket of two bytes: short writes, drops after short writes, write errors and a second peer all occur | 2.7 million |
| `MCPipeTimed` | how ticks are spaced, how many windows follow a withdrawn request, how the threads end | no peer, all ten ADM events, a window of two units, five units of time: an exact tick, a late one and a stall of two windows | 6.5 million |
| `MCPipeLive` | shutdown, release of closed peers, acceptance of waiting ones | two peers that write in real time; Terminate or a closed channel, with a callback set, cleared or asked for its delay | 183 thousand |
| `MCPipeTornDoc` | violated: a dropped stretch may start inside a sample that is half written | one peer | |
| `MCPipeWarmupDoc` | violated: warm-up audio is pushed later | one peer | |
| `MCTunnelSafety` | relays, end of file, hangup, identity | every sequence of two lines out of twelve behind the configuration line, two RingRTC events of two kinds, stdout of one line; lines behind one that cannot be read are among them | 785 thousand |
| `MCTunnelLive` | both audio backends, startup and its failures, the end of the tunnel, events shown | the mode spelt two ways or left out, in configuration and environment, an earlier tunnel gone, dead or alive, two lines, one event besides the Hangup RingRTC owes, stdout of one line | 121 thousand |
| `MCSignalRpc` | notifications, answers, timeouts | three requests, three notifications: two late answers before an own one, chunks that end anywhere between them | 804 thousand |
| `MCE2eTest` | what a pass and exit code 0 mean, calls hung up, the runner's end | seven selections of two scenarios, two calls: every scenario, a retried one first and last, one selected twice, a call left over from the one before | 649 thousand |
| `MCRunE2e` | what is linked, what the script leaves behind, what exit code 0 means, its end | any history of builds before it, every kind of leftover, two turns of the wait for the socket, two signals: one in the run and one in the cleanup of the first | 537 thousand |
| `MCRunTrapDoc` | violated: a signal during the preparation leaves the daemon and the collector started after it | one signal | |

The windows of 480 samples and eight windows kept are scaled down; what matters
is that reads, writes, drops and windows can start and end at every offset
against each other, and that a buffer can be over, at and under its bound by one
byte. Longer position ranges than the sum of a buffer and a socket add nothing,
since no two live bytes share a position. Two queued events or lines are enough
for a step to overtake or to be lost; two peers for one to follow another. The
histories of builds in `MCRunE2e` are not bounded: the state of the tree, of
cargo's output and of the build at hand is finite. Startup with both backends is
in `MCTunnelLive` only, and the larger set of lines in `MCTunnelSafety` only,
since no handler looks at the backend.

Disagreements between the source and its comments (`findings`):

- `pipe_audio.rs:227` says whole samples are dropped. After a write that took an
  odd number of bytes the front of the playout buffer is the second half of a
  sample, and the drop cuts that sample and the next. The peer reads one sample
  put together from two; alignment recovers. It needs a socket that takes an odd
  number of bytes.
- The patch (line 78) says warm-up audio should be discarded. It is kept, up to
  80 ms of it, and pushed when recording goes live.

- `docs/TEST_HARNESS.md:55` says the trap on EXIT, INT and TERM cleans up on any
  exit path. It cleans up once and does not exit: after a signal during the
  preparation the script goes on to start the collector and the daemon, and the
  trap on EXIT returns at `run_e2e.sh:104`.

Met while modelling, without a run of their own: an odd number of buffered bytes
leaves `max + 1` in a buffer that "never exceeds `max`" (`pipe_audio.rs:227`);
`main.rs:230` says the first create or offer sets the peer, but every one does;
`main.rs:162` says no thread runs yet, but `start_control_channel` has started
two; `run must return promptly` (patch, line 84) needs `RealtimePeers`;
`read_event` (`signal_rpc.py:115`) returns a late response as if it were a
notification; the timeout of a request (`signal_rpc.py:61`) is put off by every
notification that comes; a tunnel that starts while an earlier one of its call
is alive loses its socket file when that one ends (`pipe_audio.rs:67`, the
premise `~overtook` of `SocketReachable`); a socket whose `set_nonblocking`
fails is left behind (`pipe_audio.rs:69`); `wait_for_clean_state` (`e2e_test.py:433`) raises more
than `RuntimeError`, and then the runner ends without a summary.
`PassMeansReached` has the premise that no earlier call was left up: without it
a scenario passes on another call's `ENDED` (`signal_rpc.py:151`). A window is
pushed after a warm-up or a stop was taken when both flags had been loaded
(`pipe_audio.rs:206`). A line that is not UTF-8 ends the tunnel, with the commands
behind it unread (`control.rs:393`); nothing tells the parent. Scenario D hangs up
nothing when `startCall` is answered without an id (`e2e_test.py:644`).

Four properties have a premise that leaves out a hazard, which then has no
property in `PROJECT.json` but a note: `ConsistentPeer` (a parent that keeps to one
peer and one call), `SocketReachable` (`~overtook`), `PassMeansReached`
(`~leftover`) and `ShutdownCompletes` (`RealtimePeers`). `TunnelEnds` has the end of
the wait for the virtual devices as its premise.

## 4. Fairness

`PipeAudio!FairSpec`: the three threads run (weak fairness on the worker, the
control thread and the clock thread, each of which is scheduled by the operating
system and blocks only where its guard says), and `accept()` does not fail for
ever on a waiting connection (strong fairness on `ClockAccept`, since the thread
is at the accept only once a tick). Nothing is assumed of the engine or the
peers: they may stop for ever.

`CallTunnel!FairSpec`: weak fairness on the reader, forwarder, writer, the
startup and the loop. Nothing is assumed of the parent, of RingRTC or of the
virtual devices; `EventsShown` has a parent that never stops reading as its
premise, `TunnelEnds` (stdin closed, or a torn
line, or SIGTERM) that the wait for the devices ends.

`RunE2e!FairSpec`: weak fairness on the script's own commands, on cargo, on a
daemon that was told to end and on the test runner, which ends by
`E2eTest!RunnerEnds`. The preparation has none, since `adb wait-for-device` has
no limit; `ScriptEnds` has its end as premise. The daemon may never listen, and
may crash.

`E2eTest!FairSpec`: weak fairness of the runner, a program of one thread whose
waits all have a deadline. The daemon, the calls and the emulator may stop.
`SignalRpc` states no liveness: whether a request returns depends on the pauses
between notifications.

## 5. Theorems

`PipeAudioProofs`, from the named assumptions of `PipeBuffers` and `PipeAudio`
only (a positive window and number of windows, positive buffer sizes, `NoPeer`
not a peer, positions that hold a window and end on a high byte):

- `TypeInvariant`, `TypeCorrect`: `TypeOK` is not inductive by itself, since
  `ClockRead` looks into `rx[stream]`; `TypeInv` adds that the clock thread is in
  `drain` or `fill` only with a peer. One lemma per thread, one step per action.
- `BuffersStayBounded`: the lemmas `OverflowRange` and `CapBuffer` say what
  `cap_buffer` keeps for a buffer of any length; `BufferSteps` says which
  actions touch the buffers at all.
- `OneWindowTrails`: `ModeInv` says that once a window was pushed too late the
  clock thread is not about to push another, and will not load both flags set
  before the next live request, at every moment between the two stores of the
  control thread and the two loads and the push of the clock thread; it would
  not be inductive with the stores swapped.
- `StopsAreTold`: `StopInv` follows Terminate from the worker through the
  control queue and the flag to the clock thread.

`PipeStreamProofs`, from the same assumptions: the bytes of the peers, in both
directions, at every stop of the clock thread, for every window, read size and
socket.

- `CaptureInvariant`: what is buffered is right only if what the socket still
  holds fits behind it, and what a peer wrote before it was accepted was a
  stream from its first byte on. `Captured` says both: buffer and socket
  together are one stretch of the peer's bytes up to the last it wrote
  (`Stretch`), low and high bytes alternate in it beginning with a low one
  (`LowFirst`), and the socket of a peer nobody has read from (`Fresh`) holds
  such a stretch by itself. `Lined` says that a peer waits for accept once and
  not while it is connected. Positions wrap, so that a buffer may hold one
  position twice: the invariant speaks of parities, which survive the wrap since
  `LAST_BYTE` is odd, and which a drop or a window keeps because it takes an
  even number of bytes away.
- `CaptureStaysAligned`, `CaptureStaysStream`, `WindowsAreWhole` follow from it,
  with lemmas on what `cap_buffer` and `take_window` leave of a stretch.
- `PlayoutIsForPeer`: `Played` adds that the playout buffer ends with a high byte
  (`HighLast`), and that the byte written last has the parity of one in front of
  it, also when a whole stretch was dropped between the two or nothing is left.

`SublistsProofs`, from nothing: what `Only` (a recursive function in a LET) takes
of an empty sequence, of one that is appended to, cut or put together. The
recursion is not induced over; a function that builds the value exists for every
number of elements, and two of them agree, since the least number for which
either fails would contradict itself (`Least`, `BuildsExists`, `BuildsUnique`,
`OnlyIs`). `RowGrows`, `RowPasses`, `RowNext` say what three queues in a row do
when an element enters, moves on or comes out.

`SignalRpcProofs`, from `BoundsAssumption` only (both bounds are numbers):

- `TypeCorrect`.
- `AnswersAreOwn`, `TimeoutsAreSilent`: `AnswerInv` says that responses in
  flight (in the buffer or the socket) were sent, that ids are not used twice,
  and that the answer to the awaited request is still in flight. `ElementsOf`
  says what `Append`, `Tail` and a cut do to the elements of a sequence,
  `InFlightSteps` which steps change what is in flight; the rest follows from
  set algebra.
- `EventsAreKept`, `NotificationsInOrder`: `EventsKept` is not inductive, since a
  notification that `read_event` takes from the socket would overtake one that
  is kept. `NoneKept` adds that while `read_event` waits none is kept: it looked
  first, and a request that would keep one does not run meanwhile. `EventsSteps`
  says that every step moves one notification to the neighbouring place, or
  a chunk from the socket into an empty buffer, and the client implements
  `Relay`.

`TickPacingProofs`, from `TickAssumption` (a window is a positive number of
units):

- `PacingInvariant`: the inductive invariant. `Schedule` relates `next_tick` to
  the number of ticks and to the present; `Spaced` says how far behind the
  schedule every window exchanged so far is, which is what `NeverAhead` and
  `NoBurst` lack to be inductive.
- `StaysBehindRealTime`, `NothingCaughtUp`, `SleepsDoNotDrift` follow from it.
- `PacedDevice`: `PipeTimed` implements both `PipeAudio` and `TickPacing`, so that
  the theorems of both hold of the device in time.

`CallTunnelProofs`, from `LinesAssumption` (lines are known kinds),
`CallbacksAssumption` and `PredecessorsAssumption`:

- `TypeCorrect`: the invariant is `TypeOK` in six groups, a lemma each, with one
  step per action. The seven handlers are summed up once (`Handlers`): what
  every one has in common is all the other proofs use.
- `CommandsReachLoop`: the tunnel implements `Relay` for commands.
  `InOrder` is its invariant: what was read is handled or waits in the channel,
  and is the first part of what was issued (`Passed`); the rest is in the pipe
  among lines that are no commands (`InPipe`: there is a function from the lines
  of the pipe to the number of commands up to each). It needs that the first
  line, which startup takes out of the reader's buffer, is none (`FirstLine`).
  `InputSteps` says that four steps move a command and the others none.
- `EventsReachParent`: the tunnel implements `Relay` for RingRTC's events. As
  long as the writer lives, what is shown, the event lines in the writer's queue
  and the events the forwarder has not taken are, one behind the other, what was
  reported (`EventsPassed`); when it is gone nothing more is shown. It needs that
  no event is reported before the writer runs, when `send_line` would drop it
  (`NotStarted`: the call manager comes three steps after the channel).
- `AllReadableHandledAtEof`: `InputEnds` adds that the reader stops only at the
  end of the input or behind a torn line, up to which `readable` counts, and the
  loop on eof only behind the reader and an empty channel.
- `OnePeerThroughout`: `PeerKept` adds the stored peer id to `ConsistentPeer`.
- `HangupIsLast`, `DevicesLetGo`, `SocketStays`: `HangupLast` and `Resources`
  relate the last call, and who holds what, to the place of `main()`;
  `ShownLate` says nothing is shown before the socket is bound.

`RunE2eProofs`, from no assumption on the constants:

- `BuildsAsPatched`: `BuildInv` says what an up-to-date `rlib` holds
  (`UpToDate`), what a cargo that applied nothing will link (`LinksTree`), and
  what `build.sh` has seen of the tree so far (`ShellApplied`).
- `ScriptBuilds`: every step of the script is a step of `PatchBuild` or leaves
  it alone; `LinkedForTests` and `ShellBuildComplete` follow.
- `ZeroMeansTested`: `ScriptInv` locates the script also while its cleanup runs
  (`Position`), and says from which command on the build stands, whose exit code
  the script has, and to which daemon the test runner can be connected.
- `CleanedUp`: `CleanupInv` says which of the six things are done at each step of
  the cleanup, and that nothing is started again afterwards.

- `TypeCorrect`: the types of the driver's own state in two groups, flags
  (`ScriptFlags`) and ranges (`ScriptRanges`), beside those of the build.

`E2eTestProofs`, from `SelectionsAssumption` (selections of the five scenarios,
none empty, and a number of calls):

- `TypeInvariant`, `TypeCorrect`: `OnScript` says that what a scenario has left to
  do is the end of its script, `Owning` from which step to which it has a call
  of its own and, but for D, its id, `Between` that `main()` waits for a clean state between
  two scenarios only.
- `ExitZeroIsAllPassed`: `Counted` says at each place of `main()` how many results
  there are, and that the last one is what the last attempt came to.
- `CallsAreLetGo`: `Scoped` says that, when nothing of an earlier call was left,
  the last call is the scenario's own, everything reported is about it, and what
  is unread is the end of what was reported; `Released` that a call known by its
  id has ended, or was asked to, or is the one the `finally` will hang up.
- `PassIsReached`: `PassInv` counts the states of the flow the steps so far have
  waited for (`Reached`), and says that they were reported in order and of this
  call among what was read (`Achieved`).

Every invariant, action property and refinement the passing runs check is stated
by a theorem. Only model-checked are the liveness properties:
`ShutdownCompletes`, `ClosedPeerReleased`, `WaitingPeerAccepted`, `TunnelEnds`,
`EventsShown`, `RunnerEnds` and `ScriptEnds`. They hold under fairness of steps,
which needs ENABLED, and the prover has no rule for it.

## 6. Plan

1. Done: `PipeBuffers`, `PipeAudio`, `Relay`, `CallTunnel`, `SignalRpc`,
   `E2eTest`, their runs; `PipeAudioProofs`, `SignalRpcProofs`.
2. Done: startup and audio resources in `CallTunnel` and `AudioBinding`, pacing
   in `TickPacing` and `PipeTimed`, `PatchBuild`, `RunE2e`; `TickPacingProofs`,
   `CallTunnelProofs`, `RunE2eProofs`.
3. Done: `PipeStreamProofs`, `E2eTestProofs`, `SublistsProofs`; in
   `SignalRpcProofs` and `CallTunnelProofs` the relays of notifications and
   events; in `RunE2eProofs` type correctness.
4. Left: what an expected violation becomes under the premise that avoids it
   (playout samples whole while every `write(2)` takes whole samples; no warm-up
   audio after the first live window), as properties of their own.
5. Out of reach of the prover: liveness.

## 7. Not modelled

- The text of JSON lines, of the configuration and of log output: a line is what
  parsing makes of it, or fails. Formatting has no property here.
- The backend switch the patch adds to RingRTC's audio device module, group calls
  and data channels, which the platform callbacks refuse.
- Sample values and the analysis of audio in the tests: numeric code without
  state.
- Control of the emulator and audio over gRPC: outside systems, whose answers are
  choices of `E2eTest`.
- Log collection, screen recording, command line options and log excerpts of the
  test scripts.
- The insides of RingRTC, WebRTC, cargo, signal-cli and the kernel: modelled
  as far as their user sees them, and marked external.
