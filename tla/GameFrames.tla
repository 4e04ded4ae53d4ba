----------------------------- MODULE GameFrames -----------------------------
(***************************************************************************)
(* Suspended calls of a running game: waiting, stepping, screenshots,      *)
(* evaluation, signals and HTTP (runtime/lifecycle.rs, observe.rs,         *)
(* eval.rs, signals.rs, net.rs and handlers/signals.rs).                   *)
(*                                                                         *)
(* The bridge node is processed on every frame, also when the game is      *)
(* paused, and before the game's own nodes: it polls the suspended calls,  *)
(* then runs the new ones (dispatcher.rs: run_frame).  What a call waits   *)
(* for happens in the rest of the frame, or while it is started.           *)
(***************************************************************************)
EXTENDS Integers, FiniteSets

CONSTANTS
  MaxOps,        \* suspended calls
  MaxFrames,     \* frames or ticks a wait asks for
  OpDeadline,    \* EVAL_, AWAIT_, HTTP_, SCREENSHOT_DEADLINE_FRAMES
  MaxSwitches    \* pauses, changes of the time scale

ASSUME FramesAssumption == /\ MaxOps \in Nat /\ MaxSwitches \in Nat
                           /\ MaxFrames \in Nat \ {0} /\ OpDeadline \in Nat \ {0}

VARIABLES
  phase,      \* what is next in the frame: the bridge, or the game
  paused,     \* SceneTree.paused
  stopped,    \* a time scale of zero
  switches,
  ops,        \* the suspended calls
  connected,  \* calls with a connection to the signal they wait for
  inTree,     \* calls with a node of theirs below the root
  emitter     \* the object whose signal is awaited is alive

frameVars == <<phase, paused, stopped, switches, ops, connected, inTree, emitter>>

Ops == 1..MaxOps

\* left: frames to count or to the deadline.  event: what it waits for has happened,
\* bad: and says that it failed.  ran: frames the game ran since.  alone: no other
\* call touched the pause since.
NewOp == [st |-> "new", kind |-> "none", left |-> 0, was |-> FALSE, event |-> FALSE, bad |-> FALSE,
          total |-> 0, ran |-> 0, alone |-> TRUE]

FramesInit ==
  /\ phase = "game" /\ paused \in BOOLEAN /\ stopped = FALSE /\ switches = 0
  /\ ops = [c \in Ops |-> NewOp]
  /\ connected = {} /\ inTree = {} /\ emitter = TRUE

Pending == {c \in Ops : ops[c].st = "pending"}
FirstNew(c) == ops[c].st = "new" /\ \A d \in 1..(c - 1) : ops[d].st # "new"

Suspend(c, kind, n, event) ==
  ops' = [ops EXCEPT ![c] = [NewOp EXCEPT !.st = "pending", !.kind = kind, !.left = n, !.total = n, !.event = event]]

\* A change of the pause is told to every step under way.
Touched(os) == [c \in Ops |-> IF os[c].st = "pending" /\ os[c].kind = "step" THEN [os[c] EXCEPT !.alone = FALSE] ELSE os[c]]

------------------------------------------------------------------------------
(* Calls.                                                                   *)

Pause ==
  /\ phase = "calls" /\ switches < MaxSwitches /\ switches' = switches + 1
  /\ \E p \in BOOLEAN : paused' = p
  /\ ops' = Touched(ops)
  /\ UNCHANGED <<phase, stopped, connected, inTree, emitter>>

SetTimeScale ==
  /\ phase = "calls" /\ switches < MaxSwitches /\ switches' = switches + 1
  /\ \E z \in BOOLEAN : stopped' = z
  /\ UNCHANGED <<phase, paused, ops, connected, inTree, emitter>>

WaitFrames ==
  \E c \in Ops, n \in 1..MaxFrames :
    /\ phase = "calls" /\ FirstNew(c) /\ Suspend(c, "frames", n, FALSE)
    /\ UNCHANGED <<phase, paused, stopped, switches, connected, inTree, emitter>>

WaitTime ==
  \E c \in Ops, n \in 1..MaxFrames :
    /\ phase = "calls" /\ FirstNew(c) /\ Suspend(c, "time", n, FALSE)
    /\ UNCHANGED <<phase, paused, stopped, switches, connected, inTree, emitter>>

\* Remember the pause, and end it.
StepFrames ==
  \E c \in Ops, n \in 1..MaxFrames :
    /\ phase = "calls" /\ FirstNew(c)
    /\ LET steps == \E d \in Pending : ops[d].kind = "step"
           was   == paused IN
       ops' = [Touched(ops) EXCEPT ![c] = [NewOp EXCEPT !.st = "pending", !.kind = "step", !.left = n, !.total = n,
                                                        !.was = was, !.alone = ~steps]]
    /\ paused' = FALSE
    /\ UNCHANGED <<phase, stopped, switches, connected, inTree, emitter>>

\* Connected to frame_post_draw; nothing is taken under a headless display.
Screenshot ==
  \E c \in Ops :
    /\ phase = "calls" /\ FirstNew(c) /\ Suspend(c, "shot", OpDeadline, FALSE)
    /\ connected' = connected \cup {c}
    /\ UNCHANGED <<phase, paused, stopped, switches, inTree, emitter>>

\* gd_editor_screenshot, in the editor's bridge.
EditorScreenshot == Screenshot

\* The snippet runs to its end or to its first await; one that stops with an error
\* never reports.
GameEval ==
  \E c \in Ops, finished \in BOOLEAN :
    /\ phase = "calls" /\ FirstNew(c) /\ Suspend(c, "eval", OpDeadline, finished)
    /\ inTree' = inTree \cup {c}
    /\ UNCHANGED <<phase, paused, stopped, switches, connected, emitter>>

\* The node of a request that cannot start is freed.
HttpRequest ==
  \E c \in Ops :
    /\ phase = "calls" /\ FirstNew(c) /\ Suspend(c, "http", OpDeadline, FALSE)
    /\ inTree' = inTree \cup {c}
    /\ UNCHANGED <<phase, paused, stopped, switches, connected, emitter>>

AwaitSignal ==
  \E c \in Ops :
    /\ phase = "calls" /\ emitter /\ FirstNew(c) /\ Suspend(c, "await", OpDeadline, FALSE)
    /\ connected' = connected \cup {c}
    /\ UNCHANGED <<phase, paused, stopped, switches, inTree, emitter>>

------------------------------------------------------------------------------
(* What the calls wait for.                                                 *)

\* The signal fires, by gd_signal emit or by the game: every call that awaits it is
\* told and, ONE_SHOT, disconnected.
SignalFires ==
  LET told == {c \in connected : ops[c].kind = "await"} IN
  /\ emitter /\ told # {}
  /\ ops' = [c \in Ops |-> IF c \in told THEN [ops[c] EXCEPT !.event = TRUE] ELSE ops[c]]
  /\ connected' = connected \ told
  /\ UNCHANGED <<phase, paused, stopped, switches, inTree, emitter>>

EmitterFreed ==
  /\ emitter /\ emitter' = FALSE
  /\ connected' = {c \in connected : ops[c].kind # "await"}
  /\ UNCHANGED <<phase, paused, stopped, switches, ops, inTree>>

\* An awaited snippet goes on, a request completes, maybe with a failure: both need
\* their node.
NodeReports ==
  \E c \in inTree, bad \in BOOLEAN :
    /\ ~ops[c].event /\ (bad => ops[c].kind = "http")
    /\ ops' = [ops EXCEPT ![c].event = TRUE, ![c].bad = bad]
    /\ UNCHANGED <<phase, paused, stopped, switches, connected, inTree, emitter>>

\* The node of a call is freed by the game, or by gd_tree_mutate.
NodeFreed ==
  \E c \in inTree :
    /\ inTree' = inTree \ {c}
    /\ UNCHANGED <<phase, paused, stopped, switches, ops, connected, emitter>>

\* The rest of the frame: the game's nodes run unless paused; a frame is drawn, or
\* the window is hidden and none is.
GameRuns ==
  /\ phase = "calls" /\ phase' = "game"
  /\ \E drawn \in BOOLEAN :
       ops' = [c \in Ops |->
                 CASE c \in Pending /\ drawn /\ ops[c].kind = "shot" -> [ops[c] EXCEPT !.event = TRUE]
                   [] c \in Pending /\ ~paused /\ ops[c].kind = "step" -> [ops[c] EXCEPT !.ran = @ + 1]
                   [] OTHER -> ops[c]]
  /\ UNCHANGED <<paused, stopped, switches, connected, inTree, emitter>>

------------------------------------------------------------------------------
(* poll                                                                     *)

Answer(op, how) == [op EXCEPT !.st = how]

StepCountedTooLong(op) == IF op.left > 0 THEN [op EXCEPT !.left = @ - 1] ELSE Answer(op, "ok")   \* slip: one frame more
StepCounted(op) == IF op.left > 1 THEN [op EXCEPT !.left = @ - 1] ELSE Answer(op, "ok")

Ticked(op) == IF stopped THEN op ELSE StepCounted(op)

Late(op) == IF op.left > 1 THEN [op EXCEPT !.left = @ - 1] ELSE Answer(op, "error")

Awaited(op) ==
  CASE op.event -> Answer(op, "ok")
    [] ~op.event /\ ~emitter -> Answer(op, "error")
    [] OTHER -> Late(op)

\* Slip: no deadline.
ReportedForEver(op) == IF op.event THEN Answer(op, "ok") ELSE op

\* Screenshot, evaluation: what arrived counts before the deadline does.
Reported(op) == IF op.event THEN Answer(op, "ok") ELSE Late(op)

Completed(op) ==
  CASE op.event /\ ~op.bad -> Answer(op, "ok")
    [] op.event /\ op.bad  -> Answer(op, "failed")   \* network_error, with the result code
    [] OTHER               -> Late(op)

Polled(op) ==
  IF op.st # "pending" THEN op
  ELSE CASE op.kind \in {"frames", "step"} -> StepCounted(op)
         [] op.kind = "time"               -> Ticked(op)
         [] op.kind = "await"              -> Awaited(op)
         [] op.kind = "http"               -> Completed(op)
         [] OTHER                          -> Reported(op)

\* Slip: ONE_SHOT is trusted with every path.
DropConnectionsFired(ended) == {c \in ended : ops'[c].st = "error" => ops[c].kind # "await"}
DropConnections(ended) == ended

\* Every call that ends disconnects and frees what it made.  A step that found the
\* game paused pauses it.
BridgePolls ==
  /\ phase = "game" /\ phase' = "calls"
  /\ ops' = [c \in Ops |-> Polled(ops[c])]
  /\ LET ended == {c \in Pending : ops'[c].st # "pending"} IN
     /\ connected' = connected \ DropConnections(ended)
     /\ inTree' = inTree \ ended
     /\ paused' = (paused \/ \E c \in ended : ops[c].kind = "step" /\ ops[c].was)
  /\ UNCHANGED <<stopped, switches, emitter>>

FramesNext ==
  \/ Pause \/ SetTimeScale \/ WaitFrames \/ WaitTime \/ StepFrames
  \/ Screenshot \/ EditorScreenshot \/ GameEval \/ HttpRequest \/ AwaitSignal
  \/ SignalFires \/ EmitterFreed \/ NodeReports \/ NodeFreed
  \/ GameRuns \/ BridgePolls

\* The engine goes on with its frames.
FramesSpec == FramesInit /\ [][FramesNext]_frameVars /\ WF_frameVars(GameRuns \/ BridgePolls)

------------------------------------------------------------------------------

\* Connections and nodes belong to calls still suspended: a call that ended, however
\* it ended, left nothing behind in the game.
TracesHaveACall == connected \cup inTree \subseteq Pending

\* What arrived before the poll is the answer: no call fails whose signal fired, whose
\* frame was drawn or whose node reported, whatever else went wrong since.  (An
\* image that could not be taken of a drawn frame is not told apart from one.)
EventsAreAnswered == \A c \in Ops : ops[c].st = "error" => ~ops[c].event

\* A step no other call interferes with runs the game for exactly the frames asked
\* for, whatever else is suspended.
LoneStepIsPrecise == \A c \in Ops : ops[c].st = "ok" /\ ops[c].kind = "step" /\ ops[c].alone => ops[c].ran = ops[c].total

\* Every suspended call ends; a wait for game time does when time passes.
OpsEnd == \A c \in Ops : c \in Pending ~> c \notin Pending \/ (ops[c].kind = "time" /\ stopped)
=============================================================================
