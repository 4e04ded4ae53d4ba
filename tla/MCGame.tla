------------------------------ MODULE MCGame ------------------------------
(* The tools of a running game.  The four groups share no state, so a         *)
(* behaviour calls the tools of one of them.                                  *)
EXTENDS GameObjects, GameFrames, GameSockets, LogTail

VARIABLE group

vars == <<group, objectVars, frameVars, socketVars, logVars>>

CONSTANTS n1, n2, r1, r2

ThreeNodes == {Window, n1, n2}
TwoCounted == {r1, r2}

Init ==
  /\ group \in {"objects", "frames", "sockets", "logs"}
  /\ ObjectsInit /\ FramesInit /\ SocketsInit /\ LogInit
  /\ group # "frames" => ~paused

Next ==
  \/ group = "objects" /\ ObjectsNext /\ UNCHANGED <<group, frameVars, socketVars, logVars>>
  \/ group = "frames" /\ FramesNext /\ UNCHANGED <<group, objectVars, socketVars, logVars>>
  \/ group = "sockets" /\ SocketsNext /\ UNCHANGED <<group, objectVars, frameVars, logVars>>
  \/ group = "logs" /\ LogNext /\ UNCHANGED <<group, objectVars, frameVars, socketVars>>

\* The engine goes on with its frames.
Spec ==
  /\ Init /\ [][Next]_vars
  /\ WF_vars((GameRuns \/ BridgePolls) /\ UNCHANGED <<group, objectVars, socketVars, logVars>>)

----------------------------------------------------------------------------
(* Properties of the groups, put together. *)

\* No object, socket or trace is left behind that no call and no handle
\* reaches.
NothingIsLeftBehind == NoOrphans /\ TracesHaveACall /\ SocketsHaveOwners

\* What a server sent and what the engine logged reaches whoever asked for it,
\* in order, or is accounted for.
NothingIsLost == MessagesAccounted /\ NothingIsSkipped

\* A call that waits answers for what it waited for: an event that happened
\* before its deadline, and exactly the frames it asked for.
WaitsAreExact == EventsAreAnswered /\ LoneStepIsPrecise

=============================================================================
