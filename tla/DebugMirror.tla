---------------------------- MODULE DebugMirror ----------------------------
(***************************************************************************)
(* What is known of the debugger, and where.  The editor bridge mirrors    *)
(* the engine's debug sessions (DEBUG_STATE in bridge/src/debugger.rs),    *)
(* takes the editor out of low-processor mode while one is halted, re-     *)
(* applies its breakpoint list to every session, and settles gd_debug      *)
(* operations on what it has mirrored (handlers/editor/debug.rs).  Every   *)
(* transition is told to the broker as an event; the broker keeps one flag *)
(* (BridgeManager.debug) from those events and from the state it asks for  *)
(* once on every connect (resyncDebugState), and refuses game calls while  *)
(* the flag is up.  One execution-control operation is suspended at a      *)
(* time; what a second one makes of the game is any other signal of it.    *)
(*                                                                         *)
(* The link is BridgeLink's, reduced to its order of writing: the two      *)
(* drains of a connect, then all queued responses and all queued events,   *)
(* in turn.                                                                *)
(***************************************************************************)
EXTENDS Integers, Sequences, FiniteSets

CONSTANTS
  Sessions,     \* debug sessions of the engine
  NoSession,    \* no session: null
  Breakpoints,  \* (path, line) pairs
  Files,        \* the sets of breakpoints one path covers
  LowMode,      \* the editor's low-processor setting
  MaxSignals,   \* session signals the engine sends in a behaviour
  MaxOps,       \* execution-control operations in a behaviour
  MaxConns      \* connections in a behaviour

ASSUME NoSessionAssumption  == NoSession \notin Sessions
ASSUME FilesAssumption      == Files \subseteq SUBSET Breakpoints
ASSUME LowModeAssumption    == LowMode \in BOOLEAN
ASSUME MaxSignalsAssumption == MaxSignals \in Nat
ASSUME MaxOpsAssumption     == MaxOps \in Nat
ASSUME MaxConnsAssumption   == MaxConns \in Nat

None == {}         \* the override is an Option<bool>: no setting saved,
Some(mode) == {mode} \* or one
NoOp == [kind |-> "none", session |-> NoSession, start |-> 0, fresh |-> FALSE]

VARIABLES
  installed,   \* the debugger plugin is registered
  sessions,    \* DebugState.sessions
  list,        \* DebugState.breakpoints
  applied,     \* the breakpoints set in each session's game
  generation,  \* DebugState.break_generation
  override,    \* DebugState.low_processor_override
  lowMode,     \* the engine's low-processor mode
  op,          \* the suspended execution-control operation
  reported,    \* how the last one settled
  signals, ops, conns,  \* bounds
  asked,       \* gd_editor_get_state commands in the inbound channel
  snapshots,   \* answers to them in the response channel
  made,        \* snapshots taken so far
  events,      \* event channel
  io,          \* the channel the IO thread is draining, stale or served
  bridgeUp,    \* the bridge serves a connection
  client,      \* the broker's end of it
  request,     \* the broker's state request is on the wire
  wire,        \* frames on the way to the broker
  resync,      \* the state request of this connection
  debug,       \* BridgeManager.debug
  crossed,     \* an older snapshot than an event came after it, on this connection
  debugged     \* the sessions started so far

stateVars == <<installed, sessions, list, applied, generation, override, lowMode>>
opVars    == <<op, reported, ops>>
linkVars  == <<asked, snapshots, made, io, bridgeUp, client, request, wire, resync, debug, crossed, conns>>
engineVars == <<stateVars, opVars, signals, debugged>>
vars == <<engineVars, events, linkVars>>

Init ==
  /\ installed = TRUE
  /\ sessions = [s \in Sessions |-> [active |-> FALSE, breaked |-> FALSE]]
  /\ list = {}
  /\ applied = [s \in Sessions |-> {}]
  /\ generation = 0
  /\ override = None
  /\ lowMode = LowMode
  /\ op = NoOp
  /\ reported = "none"
  /\ signals = 0 /\ ops = 0 /\ conns = 0
  /\ asked = 0
  /\ snapshots = <<>>
  /\ made = 0
  /\ events = <<>>
  /\ io = "responses"
  /\ bridgeUp = FALSE
  /\ client = "none"
  /\ request = FALSE
  /\ wire = <<>>
  /\ resync = "none"
  /\ debug = [breaked |-> FALSE, session |-> NoSession]
  /\ crossed = FALSE
  /\ debugged = {}

----------------------------------------------------------------------------
(* The engine's session signals, handled on the editor's main thread. *)

AnyBreaked(S) == \E s \in Sessions : S[s].breaked

Signal == installed /\ signals < MaxSignals /\ signals' = signals + 1

Emit(kind, s) == events' = Append(events, [kind |-> kind, session |-> s, made |-> made])

\* Slip: the saved mode is overwritten by a second break.
EnableAgain ==
  /\ override' = Some(lowMode)
  /\ lowMode' = FALSE

\* enable_responsiveness: the prior mode is saved by the first break only.
Enable ==
  /\ override' = IF override = None THEN Some(lowMode) ELSE override
  /\ lowMode' = FALSE

Restore ==
  /\ override' = None
  /\ lowMode' = IF override = None THEN lowMode ELSE TRUE \in override

\* The override is given back when no session is left halted.
RestoreUnless(halted) == IF halted THEN UNCHANGED <<override, lowMode>> ELSE Restore

\* Slip: the stored breakpoints are not re-applied.
Reapplied == {}

\* A fresh game starts without breakpoints; every stored one is re-applied.
StoredBreakpoints == list

SessionStarted(s) ==
  /\ Signal /\ ~sessions[s].active
  /\ applied' = [applied EXCEPT ![s] = StoredBreakpoints]
  /\ sessions' = [sessions EXCEPT ![s] = [active |-> TRUE, breaked |-> FALSE]]
  /\ Emit("debug_session_started", s)
  /\ debugged' = debugged \cup {s}
  /\ UNCHANGED <<installed, list, generation, override, lowMode, opVars, linkVars>>

Ended(s) == [active |-> FALSE, breaked |-> FALSE]

SessionStopped(s) ==
  /\ Signal /\ sessions[s].active
  /\ sessions' = [sessions EXCEPT ![s] = Ended(s)]
  /\ applied' = [applied EXCEPT ![s] = {}]
  /\ RestoreUnless(AnyBreaked(sessions'))
  /\ Emit("debug_session_stopped", s)
  /\ UNCHANGED <<installed, list, generation, opVars, linkVars, debugged>>

SessionBreaked(s) ==
  /\ Signal /\ sessions[s].active /\ ~sessions[s].breaked
  /\ sessions' = [sessions EXCEPT ![s].breaked = TRUE]
  /\ generation' = generation + 1
  /\ Enable
  /\ op' = IF op.session = s THEN [op EXCEPT !.fresh = TRUE] ELSE op
  /\ Emit("debug_breaked", s)
  /\ UNCHANGED <<installed, list, applied, reported, ops, linkVars, debugged>>

SessionContinued(s) ==
  /\ Signal /\ sessions[s].breaked
  /\ sessions' = [sessions EXCEPT ![s].breaked = FALSE]
  /\ RestoreUnless(AnyBreaked(sessions'))
  /\ Emit("debug_continued", s)
  /\ UNCHANGED <<installed, list, applied, generation, opVars, linkVars, debugged>>

\* exit_tree: the editor bridge leaves, with sessions possibly still halted.
Uninstall ==
  /\ installed
  /\ installed' = FALSE
  /\ Restore
  /\ sessions' = [s \in Sessions |-> [active |-> FALSE, breaked |-> FALSE]]
  /\ list' = {}
  /\ applied' = [s \in Sessions |-> {}]
  /\ op' = NoOp
  /\ UNCHANGED <<generation, reported, ops, signals, events, linkVars, debugged>>

----------------------------------------------------------------------------
(* The gd_debug tool. *)

ApplyToActive(lines, enabled) ==
  applied' = [s \in Sessions |-> IF ~sessions[s].active THEN applied[s]
                                 ELSE IF enabled THEN applied[s] \cup lines ELSE applied[s] \ lines]

SetBreakpoint(b) ==
  /\ installed
  /\ list' = list \cup {b}
  /\ ApplyToActive({b}, TRUE)
  /\ UNCHANGED <<installed, sessions, generation, override, lowMode, opVars, signals, events, linkVars, debugged>>

\* One line, a whole file or everything.  Only listed lines are disabled.
ClearBreakpoints(B) ==
  /\ installed /\ B \cap list # {}
  /\ list' = list \ B
  /\ ApplyToActive(B \cap list, FALSE)
  /\ UNCHANGED <<installed, sessions, generation, override, lowMode, opVars, signals, events, linkVars, debugged>>

Suspend(kind, s) ==
  /\ installed /\ op = NoOp /\ ops < MaxOps
  /\ ops' = ops + 1
  /\ op' = [kind |-> kind, session |-> s, start |-> generation, fresh |-> FALSE]
  /\ UNCHANGED <<stateVars, reported, signals, events, linkVars, debugged>>

\* transition: break picks a halted session if there is one, and is then done.
BreakOp(s) == sessions[s].active /\ ~AnyBreaked(sessions) /\ Suspend("break", s)

ContinueOp(s) == sessions[s].breaked /\ Suspend("continue", s)

StepOp(s) == sessions[s].breaked /\ Suspend("step", s)

\* Slip: the break the step started from settles it.
SettledAnyhow ==
  CASE op.kind = "step" -> sessions[op.session].breaked
    [] op.kind = "break" -> sessions[op.session].breaked
    [] op.kind = "continue" -> ~sessions[op.session].breaked

\* TransitionPending::poll.
Settled ==
  CASE op.kind = "step" -> sessions[op.session].breaked /\ generation > op.start
    [] op.kind = "break" -> sessions[op.session].breaked
    [] op.kind = "continue" -> ~sessions[op.session].breaked

PollTransition ==
  /\ op # NoOp
  /\ reported' = CASE ~sessions[op.session].active -> "ended"
                   [] sessions[op.session].active /\ Settled -> "done"
                   [] OTHER -> "deadline"
  /\ op' = NoOp
  /\ UNCHANGED <<stateVars, ops, signals, events, linkVars, debugged>>

----------------------------------------------------------------------------
(* The link. *)

Hello == [kind |-> "hello"]


\* An event leaves the bridge while an older snapshot is still to come.
Overtakes(e) == \E i \in DOMAIN snapshots : snapshots[i].n <= e.made

\* Accept and hello.  Commands of an earlier connection stay in the inbound
\* channel.
Connect ==
  /\ ~bridgeUp /\ client = "none" /\ installed /\ conns < MaxConns
  /\ conns' = conns + 1
  /\ bridgeUp' = TRUE
  /\ client' = "connecting"
  /\ io' = "stale responses"
  /\ request' = FALSE
  /\ wire' = <<Hello>>
  /\ resync' = "none"
  /\ crossed' = FALSE
  /\ UNCHANGED <<engineVars, events, asked, snapshots, made, debug>>

\* The two drains that precede the first read.
DropStaleSnapshots ==
  /\ bridgeUp /\ io = "stale responses"
  /\ io' = "stale events"
  /\ snapshots' = <<>>
  /\ UNCHANGED <<engineVars, events, asked, made, bridgeUp, client, request, wire, resync, debug, crossed, conns>>

DropStaleEvents ==
  /\ bridgeUp /\ io = "stale events"
  /\ io' = "responses"
  /\ events' = <<>>
  /\ crossed' = (crossed \/ \E i \in DOMAIN events : Overtakes(events[i]))
  /\ UNCHANGED <<engineVars, asked, snapshots, made, bridgeUp, client, request, wire, resync, debug, conns>>

\* attemptEditorConnect: frames that came in one chunk with the hello are read
\* before the handlers are in place, and dropped.
Attach ==
  /\ client = "connecting" /\ wire # <<>>
  /\ \E n \in 1..Len(wire) : wire' = SubSeq(wire, n + 1, Len(wire))
  /\ client' = "attached"
  /\ request' = TRUE
  /\ resync' = "awaiting"
  /\ UNCHANGED <<engineVars, events, asked, snapshots, made, io, bridgeUp, debug, crossed, conns>>

ReadRequest ==
  /\ bridgeUp /\ request /\ io = "responses"
  /\ request' = FALSE
  /\ asked' = asked + 1
  /\ UNCHANGED <<engineVars, events, snapshots, made, io, bridgeUp, client, wire, resync, debug, crossed, conns>>

\* gd_editor_get_state, executed on the main thread.
AnswerState ==
  /\ asked > 0 /\ installed
  /\ asked' = asked - 1
  /\ made' = made + 1
  /\ snapshots' = Append(snapshots, [kind |-> "snapshot", n |-> made + 1,
                                     breaked |-> {s \in Sessions : sessions[s].breaked}])
  /\ UNCHANGED <<engineVars, events, io, bridgeUp, client, request, wire, resync, debug, crossed, conns>>

WriteSnapshot ==
  /\ bridgeUp /\ client # "none" /\ io = "responses" /\ snapshots # <<>>
  /\ wire' = Append(wire, Head(snapshots))
  /\ snapshots' = Tail(snapshots)
  /\ UNCHANGED <<engineVars, events, asked, made, io, bridgeUp, client, request, resync, debug, crossed, conns>>

WriteEvent ==
  /\ bridgeUp /\ client # "none" /\ io = "events" /\ events # <<>>
  /\ wire' = Append(wire, Head(events))
  /\ events' = Tail(events)
  /\ crossed' = (crossed \/ Overtakes(Head(events)))
  /\ UNCHANGED <<engineVars, asked, snapshots, made, io, bridgeUp, client, request, resync, debug, conns>>

TurnIo ==
  /\ bridgeUp
  /\ \/ io = "responses" /\ snapshots = <<>> /\ io' = "events"
     \/ io = "events" /\ events = <<>> /\ io' = "responses"
  /\ UNCHANGED <<engineVars, events, asked, snapshots, made, bridgeUp, client, request, wire, resync, debug, crossed, conns>>

\* The bridge's end goes: a failed write, silence, or the stop of the listener.
DropLink ==
  /\ bridgeUp
  /\ bridgeUp' = FALSE
  /\ io' = "responses"
  /\ request' = FALSE
  /\ UNCHANGED <<engineVars, events, asked, snapshots, made, client, wire, resync, debug, crossed, conns>>

\* The broker's end goes; what it has not read is lost.  The flag stays.
LoseLink ==
  /\ client # "none"
  /\ client' = "none"
  /\ wire' = <<>>
  /\ resync' = IF resync = "awaiting" THEN "failed" ELSE resync
  /\ UNCHANGED <<engineVars, events, asked, snapshots, made, io, bridgeUp, request, debug, crossed, conns>>

----------------------------------------------------------------------------
(* The broker. *)

Cleared == [breaked |-> FALSE, session |-> NoSession]

\* Slip: the end of a halted session is not told apart from other news.
OnEventForgetful(flag, e) ==
  CASE e.kind = "debug_breaked" -> [breaked |-> TRUE, session |-> e.session]
    [] e.kind = "debug_continued" -> Cleared
    [] OTHER -> flag

\* handleEditorEvent.
OnEvent(flag, e) ==
  CASE e.kind = "debug_breaked" -> [breaked |-> TRUE, session |-> e.session]
    [] e.kind \in {"debug_continued", "debug_session_stopped"} -> Cleared
    [] OTHER -> flag

\* The handler is called for each event of a chunk in turn; it forgets what the
\* flag was whenever it sets it, so the last event that sets it decides.
Telling(e) == e.kind \in {"debug_breaked", "debug_continued", "debug_session_stopped"}

OnEvents(flag, chunk) ==
  LET told == {i \in DOMAIN chunk : Telling(chunk[i])}
      last == CHOOSE i \in told : \A j \in told : j <= i
  IN  IF told = {} THEN flag ELSE OnEvent(flag, chunk[last])

\* resyncDebugState: any halted session of the snapshot (the order of the
\* sessions is a hash map's).
OnSnapshot(m) ==
  IF m.breaked = {} THEN {Cleared}
  ELSE {[breaked |-> TRUE, session |-> s] : s \in m.breaked}

\* One chunk of the socket: its events are handled as they are decoded, and the
\* answer to the resync, which resolves a promise, after all of them.  The
\* resync is the first request of every connection, so an answer to the resync
\* of an earlier connection carries its id and is taken for its answer.
ReadChunk ==
  /\ client = "attached"
  /\ \E n \in 1..Len(wire) :
       LET chunk     == SubSeq(wire, 1, n)
           snapshotAt == {i \in 1..n : chunk[i].kind = "snapshot"}
           answered  == resync = "awaiting" /\ snapshotAt # {}
           first     == CHOOSE i \in snapshotAt : \A j \in snapshotAt : i <= j
       IN /\ wire' = SubSeq(wire, n + 1, Len(wire))
          /\ \/ /\ ~answered
                /\ debug' = OnEvents(debug, chunk)
                /\ UNCHANGED <<resync, crossed>>
             \/ /\ answered
                /\ debug' \in OnSnapshot(chunk[first])
                /\ resync' = "done"
                /\ crossed' = (crossed \/ \E i \in first..n : /\ chunk[i].kind # "snapshot"
                                                              /\ chunk[i].made >= chunk[first].n)
  /\ UNCHANGED <<engineVars, events, asked, snapshots, made, io, bridgeUp, client, request, conns>>

\* The request timeout: a failed resync leaves the last known state.
ResyncTimeout ==
  /\ resync = "awaiting"
  /\ resync' = "failed"
  /\ UNCHANGED <<engineVars, events, asked, snapshots, made, io, bridgeUp, client, request, wire, debug, crossed, conns>>

Next ==
  \/ \E s \in Sessions : \/ SessionStarted(s) \/ SessionStopped(s) \/ SessionBreaked(s) \/ SessionContinued(s)
                         \/ BreakOp(s) \/ ContinueOp(s) \/ StepOp(s)
  \/ \E b \in Breakpoints : SetBreakpoint(b) \/ ClearBreakpoints({b})
  \/ \E B \in Files \cup {Breakpoints} : ClearBreakpoints(B)
  \/ PollTransition \/ Uninstall
  \/ Connect \/ DropStaleSnapshots \/ DropStaleEvents \/ Attach \/ ReadRequest \/ AnswerState \/ WriteSnapshot \/ WriteEvent \/ TurnIo
  \/ DropLink \/ LoseLink \/ ReadChunk \/ ResyncTimeout

Spec == Init /\ [][Next]_vars

----------------------------------------------------------------------------
(* Properties. *)

Kinds == {"debug_session_started", "debug_session_stopped", "debug_breaked", "debug_continued"}

Operations == {NoOp} \cup [kind : {"break", "continue", "step"}, session : Sessions, start : 0..MaxSignals, fresh : BOOLEAN]

\* Types; a session is halted only while it is active, and the break generation
\* a suspended operation started from is never ahead of the current one.
TypeOK ==
  /\ installed \in BOOLEAN
  /\ sessions \in [Sessions -> [active : BOOLEAN, breaked : BOOLEAN]]
  /\ \A s \in Sessions : sessions[s].breaked => sessions[s].active
  /\ list \subseteq Breakpoints
  /\ applied \in [Sessions -> SUBSET Breakpoints]
  /\ generation \in 0..signals
  /\ override \in {None} \cup {Some(mode) : mode \in BOOLEAN}
  /\ lowMode \in BOOLEAN
  /\ op \in Operations
  /\ op.start <= generation
  /\ reported \in {"none", "ended", "done", "deadline"}
  /\ signals \in 0..MaxSignals
  /\ ops \in 0..MaxOps
  /\ conns \in 0..MaxConns
  /\ debug \in [breaked : BOOLEAN, session : Sessions \cup {NoSession}]
  /\ debugged \subseteq Sessions

\* The editor runs at full speed exactly while some session is halted, whichever
\* halts first and whichever resumes, stops or is torn down last, and its own
\* setting is back when none is (enable_responsiveness, restore_responsiveness).
OverrideFollowsBreaks ==
  IF AnyBreaked(sessions) THEN override = Some(LowMode) /\ ~lowMode
                          ELSE override = None /\ lowMode = LowMode

\* The breakpoints set in every running game are the listed ones, whether a line
\* was set before or after the game started, or cleared alone, with its file or
\* with all (add_breakpoint, remove_breakpoint, clear_breakpoints, on_session_started).
BreakpointsApplied == \A s \in Sessions : applied[s] = IF sessions[s].active THEN list ELSE {}

\* Everything the bridge has said on this connection has been read, the resync
\* included.
Quiet ==
  /\ installed /\ bridgeUp /\ client = "attached" /\ resync = "done"
  /\ wire = <<>> /\ events = <<>>

\* Once all is read, a raised flag names a session that is halted, with any
\* number of sessions, unless a snapshot was applied after a newer event
\* (handleEditorEvent, resyncDebugState).
MirrorIsTruthful == Quiet /\ ~crossed /\ debug.breaked => sessions[debug.session].breaked

\* Once all is read, the flag is up while the only session ever debugged is
\* halted, whatever was lost with earlier connections, unless a snapshot was
\* applied after a newer event.
MirrorIsComplete ==
  Quiet /\ ~crossed /\ Cardinality(debugged) <= 1 /\ AnyBreaked(sessions) => debug.breaked

\* A single debugged game that is halted is known to be halted once all is read:
\* "Adequate for a single debugged game" (docs/api-gaps.md), with no exception.
SingleGameIsKnownHalted == Quiet /\ AnyBreaked(sessions) => debug.breaked

\* When everything has been read, the broker's flag is not up over games that all
\* run and, while a single session was ever debugged, not down over one that is
\* halted.  Two things are excepted.  Once a snapshot was applied after a newer
\* event, which overtook it or came in the same read (bridge-manager.ts:386), the
\* flag of that connection may be wrong; DebugResync.cfg shows it.  And with
\* several sessions the flag may be down while one is halted, which is all the
\* code means to keep (docs/api-gaps.md).
MirrorIsRight == MirrorIsTruthful /\ MirrorIsComplete

StepReported == op.kind = "step" /\ op' = NoOp /\ installed' /\ reported' = "done"

\* With one game debugged so far, a step is reported as landed only after the
\* game has broken again since the step was sent.
SingleStepReportsItsOwnBreak == [][StepReported /\ Cardinality(debugged) <= 1 => op.fresh]_vars

=============================================================================
