# ConduitMCP in TLA+

ConduitMCP lets an agent drive the Godot engine. A **broker** (TypeScript, `broker/`) speaks MCP to
the agent and length-prefixed JSON frames to one or more **bridges**. A bridge is a Rust library
(`bridge/`) loaded into the engine: one in the editor process, one in every running game. A bridge
serves one broker at a time.

    agent <-MCP-> broker ----- editor link -----> bridge in the editor --signals-- debugged games
                    |                                                                  |
                    +--------- game links (one per pid) -------> bridge in a game <----+

This directory models that system, checks it with TLC and proves part of it with TLAPS: the links
and the threads at their ends, the broker's view of editors, games and debug sessions, and the
tools that keep state or wait, in the editor (scene, settings, files, checks) and in the game
(objects, suspended calls, sockets, logs). The first half of this file says what is modelled,
checked and proved; the second half is the inventory of the whole system and the plan for the rest.

## 1. What is here

| module | models | source |
|---|---|---|
| `BridgeLink` | one bridge process: IO thread, channels, dispatcher, history, status, stop | `bridge/src/transport/{ipc,channels,status}.rs`, `dispatcher.rs`, `history.rs`, `bridge_core.rs` |
| `PipeLink` | one connection over a Windows named pipe: three threads and their deadlines | `serve_split`, `pipe_writer` in `ipc.rs` |
| `LinkLiveness` | the two silence detectors of a link | `ipc.rs` (`Liveness`), `broker/src/ipc-client.ts` (`startLiveness`) |
| `Values` | the wire form of engine values, there and back | `bridge/src/variant_json.rs` |
| `ProjectTools` | the tools a project defines: watcher, list, registration, call | `bridge/src/handlers/runtime/project_tools.rs`, `broker/src/tools/project-tools.ts` |
| `DebugMirror` | debug sessions in the editor bridge, and the broker's flag over them | `bridge/src/debugger.rs`, `handlers/editor/debug.rs`, `broker/src/bridge-manager.ts` |
| `EditorLink` | brokers that compete for the editor's bridge: loop, waiting calls, attempts, backoff | `broker/src/bridge-manager.ts`, `broker/src/ipc-client.ts`, the accept loop of `ipc.rs` |
| `EditorSession` | the tools that launch and quit editors, and the editors themselves | `broker/src/tools/session.ts`, `editor-presence.ts`, `bridge-manager.ts`, `bridge/src/handlers/editor/session.rs` |
| `GameLinks` | the games of a project as a broker finds, adopts and loses them; `gd_play` | `broker/src/bridge-manager.ts`, `broker/src/index.ts` |
| `EditedScene` | the scene open in the editor and the undo history | `bridge/src/handlers/editor/{scene,properties,wiring,script,editor_state}.rs` |
| `ProjectSettings` | the project settings in memory and on disk | `handlers/editor/{autoload,input_map,plugins,translations,project}.rs` |
| `ProjectFiles` | files, the editor's index of them, the wait for a scan | `handlers/editor/{files,assets,resource,scene,script,support}.rs` |
| `ProjectChecks` | checks and exports in a child process | `handlers/editor/{script,shader,import_export}.rs` |
| `Installs` | installing the addon into a project, and an engine, over brokers that die | `broker/src/{addon,godot-install}.ts` |
| `HandleRegistry` | abstract: what a table of handles promises | |
| `GameObjects` | objects, handles and the tree of a running game; implements `HandleRegistry` | `bridge/src/{handles,objects,target}.rs`, `handlers/call.rs`, `handlers/runtime/mutate.rs` |
| `GameFrames` | suspended calls of a game, polled once a frame | `handlers/runtime/{lifecycle,observe,eval,signals,net}.rs` |
| `GameSockets` | the WebSocket client of a game | `handlers/runtime/net.rs` |
| `LogTail` | reading a growing log from two cursors | `bridge/src/log_tail.rs`, `observe.rs`, `editor/logs.rs` |

Proofs are in `BridgeLink_proofs`, `Links_proofs` (`LinkLiveness`, `PipeLink` and `ProjectTools`),
`BridgeManager_proofs` (`EditorLink` and `GameLinks`), `DebugMirror_proofs`, `EditorSession_proofs`,
`Game_proofs` (the four modules of a running game), `EditedScene_proofs` and `Project_proofs` (`ProjectSettings`, `ProjectFiles`,
`ProjectChecks` and `Installs`). The `MC` modules hold the small instances of the
runs. `MCProject`, `MCGame`, `MCLinks` and `MCProgress` each check several modules in one run: the
code of those modules shares no state, so a behaviour is of one of them (`group`, `part`), chosen in
the initial state; their interleavings would add states and no behaviour of either. `MCDebugMirror`
uses `part` for a choice of bounds: much debugging and no broker, or less debugging and a broker
that connects twice.

### 1.1 BridgeLink

A bridge has two threads. The **IO thread** (`accept_loop_local`, `accept_loop_tcp`,
`serve_nonblocking`) owns the socket. The **main thread** calls `BridgeCore::run_frame` once per
engine frame and, at the end, `BridgeCore::stop`. They share three channels (a bounded one for
commands, unbounded ones for responses and events), the packed link status and the stop flag.

- *The IO thread's program counter* is `iopc`. `accept` is the accept loop; `hello`,
  `dropResponses` and `dropEvents` are the lines before the serve loop; `read`, `decode`,
  `responses`, `events` and `idle` are the stages of one pass; `ended` is the return to the accept
  loop; `exited` the end of the thread. One action is one step that the other thread can observe:
  one channel operation, one write, one load of the flag.
- *The main thread's* is `mainpc`. `StartFrame` takes the pending set out (`mem::take`),
  `PollPending` polls one entry, `PollDone` puts the survivors back, `Execute` executes one command
  (answered at once, or suspended for at most `MaxWait` polls), `EndFrame` ends the drain when it
  is empty or out of budget. `RaiseEvent` is an `EventSender::send`. `StopListener` and
  `MarkInactive` are the two halves of `stop`, with the join between them.
- *The brokers* are the environment: `MaxConns` connections, each with its own `nextId` (a
  `BridgeClient` is created per connection and numbers from 1). A broker may stop reading (wedge)
  or close at any time. Request frames are well formed, malformed with a readable id, or
  unreadable.
- A request is `[conn, id]`; the bridge reads `id` only. `conn`, the `epoch` of a response or
  event, and `reused` (the suspended calls whose id a later connection's call took) are history
  variables no guard reads.

Left out of it: partial frames inside a read (the decoder), a failed `set_nonblocking`, a
disconnected channel (its ends live as long as the process), the metrics and `suspended_ids`, the
eviction of old history records, pings and pongs (in `LinkLiveness`), the Windows pipe path
`serve_split` (in `PipeLink`), the socket file.

### 1.2 LinkLiveness

Both ends run the same rule. An end that has heard nothing for `PingAfter` pings; one that has
heard nothing for `Timeout` drops the link, but only if it is armed, which is to say has seen a
pong. Time is discrete. `Tick` is disabled while an acting end has work due: the serve loop passes
every 200 us and the broker's interval is a fraction of `PingAfter`, so both are fast against the
second-sized constants. A frame takes any time up to `Delay`. Either end may be suspended and
resumed at any moment, and either may be of the older protocol, which ignores the liveness frames.
Frames of one kind in flight are merged into the oldest, since each is idempotent for its reader.
The broker's clock is `Date.now()`: a step of the wall clock is not modelled.

### 1.3 DebugMirror

The editor bridge mirrors the engine's debug sessions from four signals. `SessionStarted`,
`SessionStopped`, `SessionBreaked` and `SessionContinued` are those handlers whole: state, break
generation, low-processor override, re-applied breakpoints, event. `SetBreakpoint` and
`ClearBreakpoints` are the list operations of `gd_debug` (one line, one file, all); `BreakOp`,
`ContinueOp` and `StepOp` suspend an execution-control operation which `PollTransition` settles.
The broker's half is the flag `debug`: `ReadChunk` handles the frames of one socket chunk in
order, its events as they are decoded and the answer to the resync after all of them, because that
answer resolves a promise. `Connect` and the two drains, `WriteSnapshot`, `WriteEvent` and `TurnIo`
are the part of `BridgeLink` that orders what is written.

`crossed` (a snapshot was applied, or will be, after a newer event on this connection) and `debugged`
are history. `MirrorIsRight` excepts a connection with such a snapshot, and with several sessions it claims
only that a raised flag is true: one flag cannot say that a second game is still halted.
One operation is suspended at a time. Overlapping ones add no state: what another operation makes
of the game reaches the mirror as a signal, and signals are free here. `Uninstall` is final: a
plugin that is torn down and set up again in one editor process is not modelled. The sleep interval
that is re-asserted every frame, and the reads of the debugger dock (`stack`, `vars`), are left out.

### 1.4 EditorLink

Several brokers (one per agent) are configured for one project, and its editor serves one. Each
broker has a background loop (`LoopTick`, the timer of `startEditorReconnect`) and may have a tool
call that waits in `ensureEditorConnected` (`CallStart`, `CallAgain`, `CallTimesOut`). Both make
connection attempts, one at a time: `attempt` is the `connecting` flag with the stage the attempt
has reached and its caller. `ConnectAccepted` and `ConnectRefused` are the answer of the kernel,
`HelloArrives` and `HelloTimeout` the two ends of `waitForHello`, and `Over` what the caller does
with the outcome. `EditorCloses` is the close event of an attached client, `EditorSilent` its
liveness and the close event that follows, `Leave` is `shutdown` followed by the exit of the process.

A socket is a small number, free again when both ends are closed. The bridge is that of
`BridgeLink` seen from outside: it takes one waiting connection (`Serve`, which writes the hello),
returns to accept at the end of the stream (`ReadEof`), or gives up by itself (`DropClient`). The
order of the backlog is left open in the steps and is in the fairness instead. A hello timeout is
five seconds and a pass of the bridge 200 microseconds, so the timeout expires only where no hello
can come: behind another connection that is being served, or on a connection the bridge has
closed, of which the waiter is not told. `busy` and the delay it stands for stop at `MaxBusy`.

Left out: the requests on the link, the texts of the hints, and the game half of the manager.

### 1.5 EditorSession

One broker, one project, any number of editor processes and of calls of `gd_editor_launch` and
`gd_editor_quit`. The broker's event loop runs one handler at a time, so a call is a chain of steps
with an `await` between any two, and the calls interleave there: a launch awaits the process list
(`Probe`) and then the bridge (`LaunchEnds`), a quit the answer of the bridge (`AckArrives`,
`AskTimesOut`) and then the end of the process (`QuitConfirmed`, `QuitForced`) or of the connection
(`QuitCloses`). `call[c]` is what such a call keeps in its local variables. The two fields they
share are `link` (`BridgeManager.editor`) and `handle` (`editorProcess`), which a launch sets, the
exit event of that process clears (`Reap`), and a quit clears whatever it holds by then.

An editor is `unborn`, `running`, or ended by itself (`closed`) or by a signal (`killed`): only the
first sets the `exitCode` a quit looks at. It binds the socket path when its addon loads, taking the
path from any other, and unlinks it when it closes, whoever has it by then (`Listener::spawn` and
`stop` on Unix). A person may open, close or hang an editor at any time. The deferred quit is
`armed`: flush, then `SceneTree::quit` and grace, then the editor kills itself. Whether the quit of
the tree succeeds is open, as `Close` is never forced.

The probe reads a list of names and command lines (`editor-presence.ts:59-104`, `:207-216`) and misses some
editors of the project while it answers that it looked: one whose `--path` or executable has a space in it,
whose binary has another name, whose `--path` is relative to another directory than the broker's, or whose
command line Windows does not give. Which editors those are is open: any editor may be `hidden` when it
starts (`Starts`), and a probe that finds nothing says so of the others only. It may also take a game or
an editor of another project for one of this project. `SparesTheRunning` is therefore about the editors the
probe can tell.

Time is left out: a deadline may expire whenever its call waits. So the flush of an acknowledgement
is not claimed, only what follows if it arrives or not. `there` is history: the editors that ran, or
that an unfinished call was about, when the call came; no guard reads it.

Left out: the lookup of the engine binary and the missing project (refusals with no state behind
them), a failed spawn, named pipes, which do not change owner like a path, games, other brokers
(`EditorLink` has those), and the rest of the tools of `session.ts`.

### 1.6 GameLinks

A broker has a discovery timer (`DiscoveryTick`) and any number of waiting `gd_play` calls
(`PlayScans`). All scan through `scanOnce`, one at a time (`scanning`); a scan tries the endpoints
listed when it began and not connected by then, one after the other (`TryConnect`, `GameHello`,
`GameHelloTimeout`, `ScanEnds`). A failed attempt backs off per endpoint (`BackOff`, `RetryDue`). The
close event of an adopted game (`HandleGameClose`) removes it and leaves no default instance if it
was the default. A game is started by a play (`PlayAnswered`; the editor may refuse) or by a person
(`HumanRuns`), and `GameBinds` an endpoint, is suspended, quits (and unlinks its socket) or is
killed (and does not). Its bridge serves one connection of its backlog at a time (`GameServes`,
`GameReadsEof`). `kind` is of the project, of another, or of another protocol version. The hello
timeout of three seconds does not expire on a game that is free to answer.

Left out: a second broker on the same game (what two brokers do to one slot is in `EditorLink`),
requests to a game, the deadline of silence on a game link (`LinkLiveness`; here `GameSilent`),
`shutdown`, `CONDUIT_TCP`.

### 1.7 PipeLink

On a Windows pipe reads and writes block, so each half has its own thread and the accept thread
supervises. `Drain`, `StopSeen`, `Check` and `EndPass` are one pass of the supervisor: what it moves
into the write queue, the end of the loop on a finished reader, a broken writer, a stalled write or
silence, and the ping. `TakeFrame`, `WriteChunk` and `FrameOut` are the writer, which stamps its
progress on every chunk; `FrameRead` and `ReaderEnds` the reader. A frame is its number of chunks.
`PipeTick` passes a unit of time once both threads are parked and the supervisor has made a pass:
its pass is milliseconds, the deadlines are seconds. `Grace` is at least two units: what is in flight
when the connection ends is counted by the pass that follows it, so a grace of one unit would be over
before the stall could be seen twice. The code's is 250 ms, many passes.

The reader thread of a dropped pipe stays blocked in its read until the peer closes, and may hand
a command over after another broker has attached; the model ends with the connection.

### 1.8 Values

`ToJson` is what an agent reads, `ThroughBroker` what JavaScript makes of it, `FromJson` and
`FromJsonTyped` what the bridge makes of what comes back, `Assigned` what the engine leaves in a
property of that type. A value is read (`ReadValue`), written back tagged or bare (`WriteBack`,
`WriteBare`) or passed to a call (`PassOn`). Numbers are halves or small integers with the widths of
the code scaled down: `Width` for 32 bits, `ByteWidth` for 8, `Exact` for 2^53. Left out: base64,
the text of resource ids and node paths, depth beyond two.

`WhatIsReadGoesBack` excepts what does not come back. `Plain` says what the wire form keeps for a
call, where nothing tells the type meant: no whole float, no string name, path or packed array, no
object but a saved resource, no dictionary with keys other than strings or with a `__type`. For a
property, `Restorable` adds what its type restores; what is left out are integers JavaScript rounds,
elements that are no number, and colours with such an alpha.
Integers outside an `i32` or `u8` wrap silently (`variant_json.rs:62`), and a colour whose alpha is
no number gets 1.0.

### 1.9 ProjectTools

A game's nodes come and go, change their script or their declared subset (`ProjectChanges`), and change
places in the tree (`Reorder`). `order` has the position of each, `told` that of the last list made. The
bridge's watcher compares the exposed set with its baseline (`Watch`) and sends an event; the broker
asks for the list when a game starts and when the event comes, and applies the answer (`Sync`); a
call is planned from the live signature (`Plan`, `ProjectCall`). `BrokerReads` handles what has
arrived in one read: events as decoded, answers after them.

`QuietMeansCurrent` excepts four ways to miss a list: the request failed (`index.ts:728`, never
repeated); an event in the same read as the older answer was applied before it
(`project-tools.ts:94`); the set changed between the list and the baseline; it was asked for between a
change and its reversal. `missed` stays until a read in which everything that waited was events: an
answer that is still behind them may undo the news. A move in the tree is not among the exceptions but
part of what is claimed: of two nodes with the same method the broker keeps the first in the list
(`project-tools.ts:105`), and a later move changes nothing the watcher looks at, since `fingerprint` sorts
its keys (`project_tools.rs:186`); so the tool stays with the node that was first when the last list was
made, which is not the node a new list would give it. With several games, which are not modelled, any game's exit clears the
tools of all (`index.ts:733`).

### 1.10 EditedScene

A tool queues engine calls in two halves and commits; the engine runs the first (`Run`, `Apply`) and
keeps both. Each action of the module is one tool with the halves it queues: `NodeAdd`,
`SceneInstantiate`, `NodeDuplicate`, `NodeRemove`, `NodeReparent`, `SetProperty`, `ScriptAttach`,
`ConnectPersisted`, `Disconnect`, `GroupAdd`, `GroupRemove`; `CallMethod` changes the scene outside the
history, as does a person (`Outside`). `Undo` and `Redo` are `step` of `editor_state.rs`. A node has a
parent, an owner, values, groups and connections.

`HistoryRestores` excepts what the code does not restore (`Exempt`): owners of the nodes below a
removed one and that of a removed inner node of an instance (`misowned`), a group membership that was
live and comes back as saved, what a direct call set behind the history (`strays`), and everything
after a node was moved below itself (`cutLoose`, see `scene_undo`). `SaveIsComplete` ends there too: once a
branch hangs in the air, undoing and redoing pass over set_owners that the engine refuses in it, and what
comes back into the scene is not saved. The comment at `scene.rs:244` says the
inner nodes of a duplicated instance stay unowned; they do not. Left out: order of siblings, names made
unique, duplicating the root, methods that free nodes, an action left open by a failing call, more than
one scene, and the connections a duplicate copies. `gd_redo` answers with the name of the action below
the one it redid (`editor_state.rs:42`).

### 1.11 ProjectSettings, ProjectFiles, ProjectChecks

`ProjectSettings`: every tool that changes a setting is one action that rewrites its list or table
in memory and then saves (`SaveSettings`), which may fail and leave memory changed. `told` is what
answers have promised.

`ProjectFiles`: tools write, move or delete a file with its sidecar, ask for a scan and wait
(`TriggerRescan`, `Polled`, `Frame`). The engine reads one path at a time (`ScanReads`), scans also on its own, and
ignores a request while it scans: a call made then settles with the scan under way, which may be past
its file, and is excepted in `AnsweredIsKnown`. `SceneOpen` settles with whatever scene is edited
(`scene.rs:83`). A `.import` file stays behind after a move. Moves that change the kind of a file and
the resource cache are left out.

`ProjectChecks`: a child process, its output in a scratch file, polled without a deadline. The child ends
by itself (`ChildExits`) or dies with any part of its output written (`ChildDies`), and a file that
cannot be read back counts as empty (`ReadBack`). The verdict is made of the tail of the output
(`Interpret`, `HasErrors`). Two broken inputs are called valid, and `ChecksAreSound` excepts just them: a
script whose check exits zero and whose output was not read whole (`unread`), and a shader whose child
died inside the compile (`cut`), for `shader.rs:219-242` asks neither for the exit status nor for
`CONDUIT_SHADER_END`. A valid script is called invalid if another script prints `SCRIPT ERROR`. An export counts an artifact that was there before as its own, and checks pending
when the editor quits leave their scratch files and their child.

### 1.12 Installs

`installAddon` and `installEngine` are one sequence of steps (`install[b].step`): detect, download
(`fetching`, the only `await` that matters), clear and fill the staging directory (`Fetched`,
`WriteStaged`, file by file), remove the old copy (`RemoveOld`, file by file), rename (`SwapIn`), write
the marker, and for the addon enter the autoload in `project.godot` (`ReadProject`, `WriteBackup`,
`WithAutoload`). Any step may fail (`StepFails`), which before the rename ends in `CleanUp`; a broker may
die at any (`BrokerDies`). A directory is the set of its files, each with the release it is of.

`InstallsAreWhole` excepts: two brokers past their downloads at once (`overlapped`; they share the staging
directory, and can mark an incomplete copy as current); a swap that failed or died (`damaged`; a removal
that stops part way may leave the old marker over what is left, which then reads back as current); and
a second install over a `project.godot` torn by the first (`relapsed`; the torn text is backed up over
the user's). That no editor is connected is checked before the download only, and is not modelled, nor
are downloads, checksums and unpacking.

### 1.13 HandleRegistry and GameObjects

`HandleRegistry` is what the holder of a handle relies on: an identifier names one object while it is
held, is never given out again, and is never evicted. `GameObjects` is the table (`Mint`,
`ObjectRelease`, `ObjectReleaseAll`) with everything that creates, captures or frees an object: nodes,
which are freed at the end of the frame (`doomed`, `FrameEnds`), and RefCounted objects, which live
while a handle or a node's property (`slot`) refers to them (`Settle`). Targets are resolved by
path, handle or class (`Targets`). A called method's effect is the engine's or the game's: it reads
(`CallReads`), makes an object or a node (`CallMakes`), sets a property (`CallWrites`), takes a node out, adds
one or queues one for freeing (`CallRemoves`, `CallAdds`, `CallQueues`), or frees one at once (`CallFrees`);
a method that does several of these in one call is left out. Its result may be captured, and at capacity
the call is answered by an error although the method ran (`mutate.rs:81`): `answer` is then `uncaptured`, and
all that is claimed is that no handle was taken. A call that is `refused` changed nothing that was there.
`strays` are the nodes the game's own methods took out or made, and what two refusals leave alive and
outside the tree, to nobody: the instance of `gd_tree_instantiate` whose properties were refused
(`mutate.rs:122`), and the node of an `add_node` whose `properties` are no object, for which the handler
returns before the `queue_free` it has for other refusals (`mutate.rs:162`). The broker's schema lets
such a value through.

### 1.14 GameFrames, GameSockets, LogTail

The bridge's node is processed every frame before the game's, paused or not. `GameFrames` alternates
`BridgePolls` (which polls the suspended calls) with the rest of the frame (`GameRuns` and what happens
in it); a new call is suspended in between. Each kind of call has its poll in `Polled`. A wait for game
time never ends while the time scale is zero, which `OpsEnd` excepts; two overlapping
`step_frames` may each run the game longer than asked (`lifecycle.rs:51`), which `LoneStepIsPrecise`
excepts by `alone`. The panic of a poll, which drops an operation with its traces, and inputs held
when the broker goes are not modelled.

`GameSockets` has the table with its capacity, inboxes that drop the oldest message when full
(`ServiceFrame`), and the calls that wait for a connection or a message. A socket closed by its
server keeps its place until `ws_close`.

`LogTail` reads the length first and then to the end (`LogOpened`, `LogRead`), with appends and a
replacement in between: bytes appended in between are handed out twice, and of a log replaced by a
longer one the beginning is skipped silently, which the property excepts (`mistaken`).

## 2. What the runs check

| run | instance | shows |
|---|---|---|
| `link_reconnect` | 2 connections, 1 request each, an event, frames of every form | `NothingStaleIsDelivered`, `AnsweredAtMostOnce`, `AnsweredCallsAreRecorded`, `InactiveAfterStop` |
| `link_progress` | 1 connection, 2 requests, unreadable frames; 2 games, 1 play; fairness | `NoRequestLost`, `EveryRequestEnds`, `StopTerminates`; `GamesAreTracked`, `GamesAreAdopted` |
| `link_stale_answer` | 2 connections, no event | **violated**: `AnswersAreOwn` |
| `links` | liveness; a pipe; values; project tools | `HealthyLinkStays`, `SilentPeerIsDropped`; `ServingEndsWell`; `WhatIsReadGoesBack`; `ToolsAreTheGames` |
| `tools_subset` | 2 nodes, 2 links, no changes | **violated**: `DeclaredIsRespected` |
| `debug` | 2 games, 2 lines, 7 signals, 2 operations; or 4 signals, 2 connections | `OverrideFollowsBreaks`, `BreakpointsApplied`, `SingleStepReportsItsOwnBreak`; `MirrorIsRight` |
| `debug_resync` | 1 game, 2 signals, 1 connection | **violated**: `SingleGameIsKnownHalted` |
| `editor_link` | 2 brokers, 4 sockets, 1 call, 1 start, 1 drop, fairness | `OneClient`, `NoSlotIsLeaked`, `CallsEnd`, `SlotIsUsed` |
| `editor_session` | 2 calls, 2 editors, 1 hang, 1 drop, fairness | `QuitIsConfirmed`, `SparesTheRunning`, `CallsEnd`, `AcknowledgedQuitEnds` |
| `editor_project` | scene of 4 nodes, 3 calls; 4 settings calls; 2 files, 2 calls; 2 checks; 2 brokers, 2 installs, 1 death | `HistoryRestores`, `SaveIsComplete`; `AnswersAreKept`; `MovedIsKnown`, `FileCallsEnd`; `ChecksAreSound`; `InstallsAreWhole` |
| `scene_undo` | scene of 2 nodes, 3 calls | **violated**: `UndoIsExact` |
| `game` | 3 nodes, 2 RefCounted objects, 2 handles; 2 suspended calls; a socket; a log | `HeldIsAlive`, `HandlesAreHonest`, `RefusedChangesNothing`; `WaitsAreExact`, `OpsEnd`; `NothingIsLeftBehind`, `NothingIsLost` |

Some names stand for several facts about one group, each defined with its comment in the module:
`ServingEndsWell` (an ending connection delivers, a stall is just, a deaf peer is dropped, the slot is
freed in time), `ToolsAreTheGames` (what is offered, what is called), `MirrorIsRight` (never up over
running games, never down over a halted one), `MovedIsKnown`, `ChecksAreSound`, `NothingIsLeftBehind`,
`NothingIsLost`, `WaitsAreExact`, `SlotIsUsed`.

**Why the bounds are enough.** Every hazard of the link needs at most two connections: what one
leaves behind and what the next finds; and one request per connection is enough for ids to be
reused. `MaxWait = 2` makes an operation survive one poll, so that it is put back, and be
suspended across a reconnection. `InboundCap = 1` with two requests fills the command channel;
`WireCap = 1` fills the socket buffer with the hello alone. In `DebugMirror` two games are what
overlapping breaks need, and seven signals let both start, both halt, one end and the other resume;
four signals and two connections put every transition before, during and after a resync, with a
state request of the first connection still in the inbound channel of the second. The liveness
instance is the smallest that satisfies `PingAfter + 2 * Delay < Timeout`, and the proof covers the
others. In `EditorLink` two brokers are one that holds the slot and one that wants it; four sockets are
one that is open for each and one of each whose other end is not closed yet; one drop, one start
and the choice of the first state let the editor be absent, come, drop its client and leave. The
length of the delay matters to no property of `editor_link`, so `MaxBusy` is 0 there.
In `EditorSession` two calls and two editors give every pair of calls in every overlap, over one
editor of the broker and one opened by hand, or two of the broker. The exceptions of
`QuitIsConfirmed` need four calls (two launches and two quits), more than TLC can enumerate here;
the theorem covers them.

In `GameLinks` two games are one that is adopted and one that is in its way (dead, suspended,
foreign); one play beside the loop is two scanners; `MaxTries = 1` is the first delay, which is also
the longest, since nothing depends on its length. `PipeLink`: a frame larger than the pipe's buffer
(`BigFrame = 2`, `BufferRoom = 1`) makes a write that progresses without ending; two of everything
queued fill the writer while the supervisor goes on; `Stall` and `Grace` are two units, so that a deadline can be met late; `MaxTime` leaves room for both.
`EditedScene`: four nodes and three calls are a node that is made, moved below another and removed, or an
instance with an inner node that is copied, with undo and redo anywhere. `ProjectSettings`: four calls
are a failed save, two later ones about other settings and one about the same. `ProjectFiles`: two files
are the two ends of a move; one scan of the editor's own is enough to be running when a call comes.
`ProjectChecks`: a tail of three lines, which is BEGIN, a diagnostic and END, cuts an output that has two
lines of noise around them.
`Installs`: an install that dies or fails and another after it, of a newer or an older release, over nothing
or a copy put there by hand, in a staging directory that may hold what an earlier one left.
`ProjectTools`: two places are two nodes with the same method, and two changes are a change of the set or
of the order on either side of a list, or a change and its reversal. `GameObjects`: two handles at a capacity of two reach the refusal; three nodes are the window, a
parent and a child. `GameFrames`: two suspended calls interfere; waits and deadlines of two frames
survive a poll. `GameSockets`: an inbox of two and three messages overflow once. `LogTail`: a log of
four with reads of two is clipped, and a second file may be shorter or longer than the cursor.
`Values`: every type alone, in an array and under a key, keys that look like tags among them.

`debug` uses symmetry of the two sessions and checks an action property, which is symmetric too; no
run with a liveness property uses it.
Deadlock is not checked: every behaviour ends when its bounds are used up or the bridge has stopped.

**Fairness** of `BridgeLink` (in `MCProgress`, `ListenerIsFair`). Weak fairness of the IO
thread and of each step of a frame: both are loops that the operating system and the engine keep
scheduling. Strong fairness of `Execute`: the drain loop checks its time budget before every
command, so one frame may execute none, but not every frame for ever (the budget is a positive
number of milliseconds and is measured from the start of the frame). Weak fairness of
`ReadFrame(c)`: a broker that is not wedged reads. Nothing forces a broker to send, close or wedge,
nor the main thread to stop or raise events. The safety runs use the specification without
fairness.

Fairness of `EditorLink` (`FairSpec`): weak for timers that are set, for the answers of the kernel,
for the arrival of a hello that was sent, for close events and for the bridge's read of an end of
stream. Strong for `Serve(s)`: a listener's backlog is first in, first out, so a connection that
waits is not passed over for ever. Strong for `CallTimesOut`: a call checks its deadline after every
attempt, however many it makes. No editor start, stop or drop, no call and no departure is ever forced.

Fairness of `EditorSession` (`FairSpec`): weak for the next step of a call, since every place a call
waits at has a timer of its own (`Proceed` lists them; it may always be the deadline), weak for the
exit event of a process, and weak for the deferred quit, which is polled on every frame of an editor
whose main thread runs. No call, no start, bind, hang, close or signal of an editor, and no taking
of a request is ever forced.

Fairness of `GameLinks` (`GamesFairness`): weak for the discovery interval, the steps of a scan under
way, the end of a delay, a running game's bridge, close events and the steps of a play; strong for
the deadline of a play, which is looked at between scans. No start, suspension, resumption or end
of a game is forced.

`MCProject` and `MCGame`: weak for the engine's frames only. No tool call, scan, signal or exit is
forced, so that a wait ends by its deadline or not at all. `LinkLiveness` and `PipeLink` state their
deadlines as safety and need none; `DebugMirror`, `Values` and `ProjectTools` have none.

**What the violations show.** Each is a sentence of the repository that the code does not keep, and
the run's trace is the shortest way there.

1. `link_stale_answer`: `ipc.rs:542` says stale ids cannot reach a freshly connected broker. The
   channel is drained on connect, but an operation still suspended in the dispatcher settles after
   the drain, with an id the new broker has reused.
2. `debug_resync`: `docs/api-gaps.md:438` calls the broker's flag adequate for a single debugged
   game. A `debug_breaked` read in the same chunk as the older snapshot of the resync is handled
   before it and overwritten by it.
3. `scene_undo`: `editor-state.ts:13` says `gd_undo` reverts the most recent undo-wrapped action. A
   reparent of a node below itself takes its branch out of the tree, is answered as a success, and its
   undo does nothing (`scene.rs:358`; the game's reparent has the guard, `mutate.rs:199`).
4. `tools_subset`: the comment at `project_tools.rs:217` says a subset may be declared in a typed
   array. The conversion refuses one (`:227`), and every public method of the script is offered.

**Seen on the way**, each where the properties except it or a smaller model showed it:

- `ipc.rs:605` says an event never jumps ahead of the response to the command that induced it; both
  can be queued between the two drains of one pass.
- `debug.rs:131` and `:174` say a step settles on its own fresh break; the break generation is shared
  by all sessions. `SingleStepReportsItsOwnBreak` is the part that holds.
- `session.ts:534` says a hung process the broker launched is killed as a fallback; with the bridge
  connected the request times out first and the call returns that error (`:552`, `:582`).
- `docs/conduit-whitepaper.md:317` says an instance defaults to the most recently launched; after the
  current game closes no other connected game becomes current (`bridge-manager.ts:525`), and calls
  without an instance are refused.
- Overlapping `gd_play` calls may report the same instance; a game adopted in the last sleep of a
  play is missed; an endpoint of another project is tried by every scan without a delay, and each
  suspended game costs a scan its hello timeout.
- The comment at `addon.ts:316` says that deleting the staged copy after a failed rename would leave the
  project with no addon at all, and the line below it deletes it: `swapped` is still false. `:301` says
  an interrupted install leaves the previous addon intact; the removal comes before the rename.
- `shader.rs:226` takes an output with BEGIN and without a diagnostic for a compile that succeeded,
  although the driver prints `CONDUIT_SHADER_END` after it (`:68`) and the exit status is at hand.
- `editor-presence.ts` answers `probed` of a list it may have misread, and `gd_editor_launch` then starts a
  second editor on the project (1.5).
- `mutate.rs:162`: the leak of a node by a refused `add_node` (1.13); `project_tools.rs:186`: a change of
  order that changes the winner of a name and is not reported (1.9).
- `ui.rs` lists dialogs by an index that counts hidden ones (`:39`) and chooses among the visible
  (`:91`).

## 3. What is proved

All theorems hold for every value of the constants that satisfies the named assumptions
(positive capacities and counts; disjoint kinds of objects; `PingAfter + 2 * Delay < Timeout`). They use nothing else.

- `BridgeLink_proofs!TypeInvariant`: `TypeOK`. It is inductive as it stands; the proof follows the
  frame lemmas (which thread touches what) and has one step per action.
- `BridgeLink_proofs!ConnectionsAreIsolated`: `NothingStaleIsDelivered`. Not inductive alone, since
  it speaks of what was written and not of what is about to be. The strengthening is
  `ChannelsAreFresh`: past each drain, all that waits in that channel was produced under the
  current connection. Types, freshness and the property together are inductive.
- `BridgeLink_proofs!InactiveIsFinal`: `InactiveAfterStop`, from `StopOrder`: the IO thread exits
  only under the flag, and the main thread writes the status only after it has exited.
- `BridgeLink_proofs!AccountKept`, and from it `!NoSecondAnswer` and `!RequestsSurvive`:
  `AnsweredAtMostOnce` and `NoRequestLost`. A request has copies in six places: the backlog of its
  connection, the command channel, the frame that runs, the pending operations, the response channel and
  the wire. `Accounted` says for each how many copies there are in each place and that they add up to at
  most one, and to one exactly while its connection is the one served and it has no answer; every action
  moves a copy from one place to another, and only the drains and the end of a connection lose one.
- `BridgeLink_proofs!HistoryIsComplete`: `AnsweredCallsAreRecorded`. The history keys what is under way by
  bare id, so a suspended call loses its place when a later connection's call of the same id begins
  (`reused`). `SuspendedAreInFlight` says where the record of a suspended call is: in flight under its id, or
  in the history, or lost to a call of a later connection, which is in one of the two. That no earlier
  connection's call ever takes a place is the order in which requests arrive (`InArrivalOrder`).
- `Links_proofs!HealthyLinksStay`: from `NoneOverdue`. For each end either it was heard
  within `PingAfter`, or its ping is on the way, or the answer is; in each case its silence is
  bounded by `PingAfter` plus the transit so far, hence below `Timeout`.
- `Links_proofs!OldPeersAreKept`: an end arms on a pong only, and only a modern peer sends one.
- `Links_proofs!SilentPeersAreDropped`: while the link is up, an armed end that never stopped
  has a peer frozen for at most `Timeout + Delay`: the freeze is bounded by the silence plus what
  was still in flight, and time cannot pass an end that is due to give up.
- `DebugMirror_proofs!OverrideIsGivenBack` and `!GamesHaveTheListedBreakpoints`:
  `OverrideFollowsBreaks` and `BreakpointsApplied`, from `MirrorInv`, which adds that only active
  sessions are halted (without it, a session that starts could hide a halted one).
- `DebugMirror_proofs!FlagIsRight`: `MirrorIsRight`. `NewsInv` follows every message that tells of the
  halt, wherever it is (`StaleLink`: what is on the link is not of an earlier connection): either the
  broker's flag agrees with the mirror, or an event or snapshot that will set it right is behind it in the
  same order (`FlagIsRightOrNewsComes`), and the same of a snapshot already taken
  (`SnapshotsAreRightOrNewsComes`). It excepts what the property does: a snapshot applied after a newer
  event, and a lowered flag over several sessions.
- `DebugMirror_proofs!StepsLandOnce`: `SingleStepReportsItsOwnBreak`. `StepInv` adds that the operation under
  way is about a session debugged so far, as every active or halted one is: if there is only one, the break
  that made the generation newer was in the game that was stepped.
- `Links_proofs!PipesEndWell`: `PipeSpec => []ServingEndsWell`, for every timeout, size of frame, room
  in the pipe and load. `StampIsStuck` says what the progress stamp is worth while the writer is blocked,
  `WasChecked` that no unit of time passes between a stall and the pass that sees it, and `LagIsBounded`
  how far time can go beyond the end of the loop before the slot is free.
- `Links_proofs!ToolsAreKeptRight`: `ToolsSpec => []ToolsAreTheGames`. The last list on its way is the
  game's, or the watcher has not looked since the change, or an answer is still to be made
  (`LatestIsRight`); one list at most is asked for at a time (`AskedOnce`); what the broker was told is
  what the watcher last saw (`ToldIsSeen`); and the order it was told is that of the last list under way
  (`OrderIsTold`), wherever the nodes have moved since.
- `BridgeManager_proofs!GamesStayTracked`: `GamesAreTracked`, for any games, plays and scans. There is one
  scan (`OneScan`), what it has still to try was not connected when it began and nobody else connects
  (`TriedAreNew`), a game in the map has the connection or its close is on the way (`MapIsRight`), and every
  open connection belongs to an attempt or to an adopted game (`ClientsAreOwned`).
- `BridgeManager_proofs!SlotsAreNotLeaked` and `!ClientsAreSingle`: `NoSlotIsLeaked` and `OneClient`,
  from `SlotInv`. It adds `Knowledge`: an attempt has a socket exactly while it waits for its hello,
  and no attempt runs while an editor is attached. So a broker knows of at most one connection, and
  what is open is what it knows of.
- `EditorSession_proofs!ConfirmedQuitsAreRight`: `QuitIsConfirmed`, for any number of calls and
  editors. A quit is confirmed by the process it remembers or by an empty handle, and the handle is
  one field for all calls. `SessionInv` says what a quit under way may rely on: the handle still is
  its process, or that process is lost (ended, or sent a signal), or the call shares the handle with
  another editor of the broker (`HandleIsKept`); and of two quits about different processes each has
  lost its own or knows of the other (`OthersAreSeen`), so that clearing the handle wrongs neither.
  Editors are numbered as they start (`InOrder`), which is how a launch since then is recognised.
- `EditorSession_proofs!LaunchSparesTheRunning`: `SparesTheRunning`, from `ProbeIsRight`: an editor
  that ran when a launch came and is not in a process list taken later has ended and does not come
  back, or is one the probe cannot tell; which those are is any set. The proof shows too that nothing but the two spawns makes a launch wait for its editor.
- `EditorSession_proofs!TypeInvariant`: `TypeOK`, which includes that signals go to editors of this
  broker only.
- `Game_proofs!HeldObjectsLive`: `HeldIsAlive`, for any objects, handles and calls. The
  invariant `HeldInv` adds what it rests on: every entry holds its object exactly if that is RefCounted
  (`TableTyped`), properties refer to RefCounted objects only, and those are alive (`SlotsAlive`); a
  release then frees only what neither an entry nor a property refers to.
- `Game_proofs!HandlesRefine`: `ObjectsSpec => HandlesAreHonest`, the refinement of
  `HandleRegistry` under the mapping `used <- 1..(nextId - 1)`, `owner <- ` the objects of the table.
  `TableInv` (every entry's id is below the next one) makes a mint a `Take`; releases are `Release`; every
  other tool is a stutter.
- `Game_proofs!RefusalsChangeNothing`: `ObjectsSpec => RefusedChangesNothing`. It needs that a RefCounted
  object lives only while something refers to it (`CountedAreReferenced`), so that a refused call, which
  leaves the table and the properties alone, drops none, and that what lives was not referred to before it was
  made (`HeldInv`), so that what a refused `create` made is gone. A node that a refusal made is queued for
  freeing or one of the two strays of 1.13. Of a call whose result was not captured, only the table is claimed.
- `Game_proofs!NothingStays`: `NothingIsLeftBehind`. Its part about nodes, `NoOrphans`, rests on
  `UnbornAreApart` only. A node is `Under` others when it is in every set that has them and is closed under
  children, so that each step is proved by giving such a set: for a `free`, the closed set to come together
  with the freed branch; for a `reparent`, the same set with the branch that moves, which has the new
  parent only if that is below the moved node, which the handler refuses (`MayMove`). A node that a method
  made or took out, or that one of the two refusals left, is a stray: the theorem says there is no other. The parts about
  connected signals and sockets are `TracesHaveACall` and `SocketsHaveOwners` of the invariants below.
- `Game_proofs!WaitsEndRight`: `WaitsAreExact`, from `LoneStepsRun`: a step that nothing interferes with is
  the only one, the game is not paused under it, and the frames run and those left add up to those asked
  for, with one more between the game's part of a frame and the bridge's.
- `Game_proofs!AllIsAccounted`: `NothingIsLost`. For sockets, `Account`: an inbox has the last messages heard,
  everything handed out is older, and what is missing is counted. A frame polls the suspended calls one
  after the other, and that is a recursive function: that there is one (`RunsExist`) and that it keeps the
  invariant (`PollsKeep`) is proved at the least call where it would fail. For the log, `NothingIsSkipped` is
  inductive with `LogBounds`.
- `Game_proofs!ObjectsRunAlone`: `Spec => ObjectsSpec`, so that the theorems on objects hold in the game as
  a whole.
- `EditedScene_proofs!StepsRestore`: `SceneSpec => HistoryRestores`, for any nodes, values, properties,
  connections and calls. An action is two lists of engine calls, and an undo runs one of them on whatever
  the scene has become. The history is therefore kept as a chain (`InStep`): action `j` starts from the tree
  that action `j - 1` left, on the nodes made by then, and the nodes made later are in no tree with those
  (`Parted`), so that they may stand anywhere and the chain still holds. Of each half the chain says what it
  does to any scene that is the same on those nodes (`Follows`): each of the six shapes of action the tools
  queue (`Shaped`) is followed call by call through `Run`. An undo or a redo moves the scene by one along the
  chain (`UndoStep`, `RedoStep`), a new action cuts the chain and adds to it (`CommitStep`), and what the
  property asks is read off the two neighbours (`InStepRestores`). Where a node hangs is reasoned
  about through `Above`, the least set that holds it and is shut under parents: scenes with the same parents
  on such a set have the same nodes above and below there.
- `EditedScene_proofs!SavesAreWhole`: `SceneSpec => []SaveIsComplete`, from the same invariant with
  `Owned`: in every scene of the chain a node in the tree has an owner, or is inside an instance, or
  is one of those whose owner no undo puts back. Both theorems speak of sessions up to the move of a node
  below itself, as the properties do.
- `Project_proofs!SceneRunsAlone`: `Spec => SceneSpec`, so that the two theorems hold in a session with the
  other tools.
- `Project_proofs!AnswersSurvive`: `AnswersAreKept`, for any names, paths, locales and calls. With the types of
  memory it is inductive once it is known that a tool leaves in memory every setting it does not answer
  about (`Saved`). For the shared lists that needs what a list has after one element is filtered out
  (`ToSetOfWithout`), which is proved at the least prefix where it would fail.
- `Project_proofs!AnswersAreSeen`: `MovedIsKnown`, for any paths, calls and scans. The change of a call that
  started its scan is in the index, or the scan runs and has the path before it (`OwnScanSees`); the index is
  never ahead of the disk (`IndexIsBehind`); and a path nothing changed since a file was moved there has the
  file and its uid (`MovedIsThere`), so that what a scan reads there is that uid.
- `Project_proofs!VerdictsHold`: `ChecksAreSound`, for any calls, tails and amounts of noise. `BrokenIsSaid` says
  what a child has printed of broken code; of a shader, that a diagnostic follows every BEGIN unless the
  child died before it (`StartIs`, `Dies`). The tail that is read ends where the output ends (`KeptIs`), so a
  tail with a BEGIN has the diagnostic too.
- `Project_proofs!InstallsSurvive`: `InstallsAreWhole`, for any number of brokers, installs and deaths.
  Until two brokers overlap, at most one writes (`Alone`), so what a step left is what the next one
  finds: what is staged and what is still to be staged make one release (`StagedIsWhole`), the place is
  empty before the rename and that release after it (`PlaceIsReady`), and the text about to be written to
  `project.godot` is the user's (`TextIsRead`). `HandPlacedIsKnown` adds that no file of a copy put there by
  hand is ever mixed with others, so that an install which finds one whole was asked for with force.

These proofs corrected the models in six places. `SlotIsFreed` could not be proved without a bound on
`Grace`, and TLC found it false for `Grace = 1` (see 1.7). `LatestIsRight` was not inductive with the first
form of `missed`, which any event cleared; with three changes TLC showed an answer behind that event undoing
it (see 1.9). `Settle`, `FrameEnds`, `GameRuns` and `Polled` had a `CASE` whose branches overlap: TLC takes
the first, the logic any of them, so that a theorem would have had to allow the wrong one; the branches now
exclude each other. `Under` was a recursion over levels, as deep as there are nodes, which said nothing for
infinitely many nodes; it is now the least closed set. And `SaveIsComplete`, looked at for a proof, is false
once a node was moved below itself: TLC shows it with four calls, where the run makes three, and it is now
stated up to that move (it holds with 3 nodes and 5 calls, and with 4 nodes and 4). Last, `Run` is now a
recursive function instead of a fold with an operator, and the copies of a branch and the nodes to be owned
are taken in any order instead of a sorted one, which no theorem of the library says exists; a node's number
means nothing to the code.

**Only model-checked**: `WhatIsReadGoesBack` of `Values`, and the liveness properties
(`EveryRequestEnds`, `StopTerminates`, `GamesAreAdopted`, `CallsEnd` of both editor runs, `SlotIsUsed`,
`AcknowledgedQuitEnds`, `FileCallsEnd`, `OpsEnd`), which the prover does not reach. What `ToJson` and its inverse
compute for every value would need induction over values nested in values, with a predicate as the parameter of the
induction theorem, which the installed provers cannot instantiate. Elsewhere such an induction is replaced by
the least element at which the claim would fail (`LeastOf`), which works where the data is numbered: the
calls of a half, the frames of a game, the nodes of a path to the root.

## 4. Inventory

| component | state it keeps | operations | what is hard | what makes it correct | status |
|---|---|---|---|---|---|
| IPC listener and serve loops (`transport/ipc.rs`) | accept slot, decoder, stop flag | accept, hello, drains, read, decode, refuse, write, stop | two threads and a peer, full buffers, a stop inside a write | isolation of connections, at most one answer, stop returns | `BridgeLink`, `PipeLink`; socket file open |
| Channels (`channels.rs`) | three queues | send, receive | full inbound queue | nothing lost or doubled | `BridgeLink` |
| Link status (`status.rs`) | packed state and generation | mark, read | load and store of two threads | inactive is final | `BridgeLink` |
| Dispatcher (`dispatcher.rs`) | pending operations | run_frame, advance_pending, drain | the pending set is taken out while polled | each command answered once | `BridgeLink` |
| History (`history.rs`) | in flight by id, completed ring | begin, finish, snapshot | reused ids | answered calls are recorded, or the call that took their id is | `BridgeLink` |
| Liveness (`ipc.rs`, `ipc-client.ts`) | clocks, armed | ping, pong, give up | deadline against late answer, suspended ends, old peers | healthy kept, dead dropped, old kept | `LinkLiveness` |
| Debugger mirror (`debugger.rs`, `debug.rs`, `bridge-manager.ts`) | sessions, list, generation, override; flag | four signals, nine ops, resync | several sessions, snapshot against events, lost events | flag and override agree with the games | `DebugMirror`; dock reads open |
| Broker client (`ipc-client.ts`) | pending requests, hello waiters | connect, hello, request, timeout, close | late answers, close before hello | every promise settles once | partly, in the modules that need it; requests: plan 1 |
| Editor link (`bridge-manager.ts`) | client, connecting, backoff | ensure, attempt, reconnect loop, shutdown | three callers race for one slot | one client at a time, retry goes on, right diagnosis | `EditorLink`; diagnosis: plan 1 |
| Editor session (`session.ts`, `editor-presence.ts`, `editor/session.rs`) | process handle; calls under way; quit phase | launch, probe, quit, deferred quit | checks before awaits, a handle shared by all calls, hung, foreign and unrecognised editors | no editor beside one that runs and can be told, a confirmed quit is right, calls end, an acknowledged quit happens | `EditorSession`; other tools open |
| Game links (`bridge-manager.ts`, `index.ts`) | games, current pid, sockets, retries | discover, adopt, close, gd_play | restarts, several games, overlapping scans | one connection to a game, each game adopted, plays end | `GameLinks`; a second broker: plan 2 |
| Project tools (`project_tools.rs`, `project-tools.ts`) | baseline; registered tools | watch, refresh, sync, call | late lists, stale signatures, moves in the tree | tools are those of the game; arguments keep their names | `ProjectTools`; several games: plan 2 |
| Edited scene (`editor/scene.rs`, ...) | tree, owners, history | add, move, remove, set, connect, undo | both halves of an action right in any later state | undo restores, a save is complete | `EditedScene` |
| Project settings (`editor/autoload.rs`, ...) | memory and file | read, change, save | a failed save | what was answered is on disk | `ProjectSettings` |
| Files and scans (`editor/files.rs`, ...) | files, index, waits | write, move, delete, wait | a scan that runs already | what was answered is known | `ProjectFiles` |
| Checks and exports (`script.rs`, `shader.rs`, `import_export.rs`) | child, scratch file | spawn, poll, interpret | cut output, failing steps, a child that dies | valid means it compiles, but for two cases, nothing left | `ProjectChecks` |
| Handles and objects (`handles.rs`, `mutate.rs`, ...) | table, next id; the tree | mint, resolve, release, call, change | capacity, identity, lifetimes, refusals half way | an id names one object for ever; no orphan but two | `GameObjects` |
| Frame operations (`lifecycle.rs`, `observe.rs`, ...) | counters, connections, nodes | pause, step, wait, await | overlapping operations, an event against a deadline | exact waits, nothing left in the game | `GameFrames` |
| WebSockets (`net.rs`) | table, inboxes | connect, recv, close, service | overflow, a peer that closes | order, accounted losses, no leaked place | `GameSockets` |
| Log tail (`log_tail.rs`) | two cursors | read | growth and rotation in a read | nothing skipped unsaid | `LogTail` |
| Variant conversion (`variant_json.rs`) | none | encode, decode | types that share a wire form | what is read can be written back | `Values` |
| Socket file and endpoints (`ipc.rs`, `endpoint.ts`) | file, registry | bind, unlink | two owners of one path (`ipc.rs:333`) | a live listener stays reachable | path ownership in `EditorSession`; plan 3 |
| Framing (`protocol.rs`, `framing.ts`) | partial frame | push, next | any split of the bytes | same frames as the whole | not modelled: frames are whole; unit tests |
| Event ring and audit (`events.ts`, `audit.ts`) | ring and seq; file size | record, since, rotate | eviction, failed rotation | a reader knows what it missed | plan 4 |
| Installers (`addon.ts`, `godot-install.ts`) | files on disk | unpack, swap | crash between two renames; cleanup that deletes the only copy (`addon.ts:319`) | an installation is whole or absent | `Installs` |
| Tool registry, CLI, discovery of binaries | tables, flags | none that change state later | | | not modelled: static, or I/O at startup |
| Tool schemas and other handlers (`tools/`, `handlers/`) | none of their own | one engine call each | | | not modelled: the engine is outside; each is one `Execute` |
| Panel, plugin glue | labels | per frame refresh | | | not modelled: presentation |
| Evaluation, coverage, demo | | | | | not modelled: development tooling |

The components interact in five ways: frames on a link (in order, lost with the connection);
channels between the two threads of a bridge; engine signals on the main thread; promises and
callbacks on the broker's event loop, which runs one task at a time but may interleave any two
handlers at an `await`; and files (endpoints, logs, installations, the project) shared between processes.

**Not modelled**, and why: what the engine does with one call (it is outside the repository), data
formats that only convert (framing, base64, schemas), startup I/O, and the rows marked with a plan
number, which can be modelled and are not yet.

## 5. Plan

1. `BridgeClient` as a module: requests, timeouts, late answers, close with requests pending, on top
   of `EditorLink`; an abstract `Link` (a request settles exactly once) that it implements; a
   diagnosis of `editor_busy` only for a bridge that serves someone else.
2. Several brokers on one game, and several games' project tools, by composing `GameLinks` with
   `ProjectTools`: the tools registered are those of a connected game.
3. Socket files and endpoint names: two processes on one path, stale files, `spawn` and `stop`.
4. Event ring and audit rotation; the connected editor and the loaded library during an installation.
5. Proofs: an abstract history (a cursor over whole scenes) that `EditedScene` implements under the
   chain of scenes `InStep` asserts, which would say the same as `HistoryRestores` in one refinement.
