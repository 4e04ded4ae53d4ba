--------------------------- MODULE EditorSession ---------------------------
(***************************************************************************)
(* The life of the editors of one project as one broker sees it: the tools *)
(* gd_editor_launch and gd_editor_quit (session.ts), whose calls interleave*)
(* at every await, the process handle and the connection they look at, the *)
(* probe for editors somebody else opened (editor-presence.ts), and the    *)
(* deferred quit of the bridge (editor/session.rs).                        *)
(*                                                                         *)
(* An editor process is a number; editors are numbered as they start.      *)
(* Connecting (EditorLink) is one step here, to whoever owns the socket    *)
(* file: a bridge that starts takes the path over, and one that stops      *)
(* unlinks it, whoever has it by then (the local socket of Unix).          *)
(* Deadlines may expire at any time, and an editor that was asked to quit  *)
(* may stall on its way out.                                               *)
(***************************************************************************)
EXTENDS Integers, FiniteSets

CONSTANTS
  MaxCalls,   \* launches and quits, together
  MaxEditors, \* editors, launched here or opened by somebody else
  MaxHangs,   \* editors whose main thread stops for good
  MaxDrops    \* connections lost though the editor runs

ASSUME MaxCallsAssumption  == MaxCalls \in Nat
ASSUME MaxEditorsAssumption == MaxEditors \in Nat
ASSUME MaxHangsAssumption  == MaxHangs \in Nat
ASSUME MaxDropsAssumption  == MaxDrops \in Nat

Calls == 1..MaxCalls
Editors == 1..MaxEditors
None == 0

VARIABLES
  life,     \* of each editor: unborn, running, closed (exit code) or killed (signal)
  ours,     \* editors this broker spawned
  hidden,   \* running editors the probe does not recognise as this project's
  bridge,   \* running editors whose bridge listens
  armed,    \* PENDING_QUIT of each editor's bridge
  requests, \* quit requests each bridge has not executed
  hung,     \* running editors whose main thread has stopped
  term,     \* running editors sent a kill signal by this broker
  reaped,   \* editors whose exit event the broker has handled
  path,     \* the editor whose listener has the socket file
  link,     \* BridgeManager.editor: the editor at the other end
  handle,   \* BridgeManager.editorProcess
  call,     \* the tool calls: their tool, where they are, what they know
  hangs, drops   \* bounds

editorVars == <<life, ours, hidden, bridge, armed, requests, hung, term>>
brokerVars == <<reaped, link, handle, call>>
bounds     == <<hangs, drops>>
vars       == <<editorVars, brokerVars, path, bounds>>

NoCall == [tool |-> "none", at |-> "idle", editor |-> None, sees |-> "nothing", there |-> {}, out |-> "none"]

Init ==
  /\ life = [e \in Editors |-> "unborn"]
  /\ ours = {} /\ hidden = {} /\ bridge = {} /\ hung = {} /\ term = {} /\ reaped = {}
  /\ armed = [e \in Editors |-> "no"]
  /\ requests = [e \in Editors |-> {}]
  /\ path = None /\ link = None /\ handle = None
  /\ call = [c \in Calls |-> NoCall]
  /\ hangs = 0 /\ drops = 0

Running == {e \in Editors : life[e] = "running"}
Gone    == {e \in Editors : life[e] \in {"closed", "killed"}}

\* Editors that run or that an unfinished call is about.
InPlay == Running \cup {call[c].editor : c \in {d \in Calls : call[d].at # "done"}}

\* The editor that starts next.
IsNext(e) == life[e] = "unborn" /\ \A f \in Editors : f < e => life[f] # "unborn"

\* An editor process starts.  Its executable's name and its command line settle
\* whether the probe will know it: a --path or an executable's path with a space
\* in it is cut short, another name is not looked at, a relative --path is taken
\* from the broker's directory, and a command line may not be readable at all.
Starts(e) ==
  /\ IsNext(e)
  /\ life' = [life EXCEPT ![e] = "running"]
  /\ hidden' \in {hidden, hidden \cup {e}}

\* A bound: every launch on its way may still start an editor.
Room ==
  LET launching == {c \in Calls : call[c].at \in {"probing", "probed"}}
  IN Cardinality({e \in Editors : life[e] = "unborn"}) > Cardinality(launching)

\* Calls start in the order of their numbers.
MayStart(c) == call[c].at = "idle" /\ \A d \in Calls : d < c => call[d].at # "idle"

At(c, tool, place) == call[c].tool = tool /\ call[c].at = place

Goes(c, place) == call' = [call EXCEPT ![c].at = place]
Ends(c, out)   == call' = [call EXCEPT ![c].at = "done", ![c].out = out]

----------------------------------------------------------------------------
(* gd_editor_launch. *)

\* spawn, and the handle: the call now waits for the bridge.
Spawn(c, known) ==
  \E e \in Editors :
    /\ Starts(e)
    /\ ours' = ours \cup {e}
    /\ handle' = e
    /\ call' = [call EXCEPT ![c] = [known EXCEPT !.at = "waiting", !.editor = e, !.there = {}]]
    /\ UNCHANGED <<bridge, armed, requests, hung, term, reaped, link, path, bounds>>

\* The guards, up to the probe.  `there` is history: what was in play when it came.
LaunchStart(c) ==
  /\ MayStart(c) /\ Room
  /\ \E force \in BOOLEAN :
       LET begun == [NoCall EXCEPT !.tool = "launch", !.there = InPlay, !.sees = IF force THEN "forced" ELSE "nothing"]
       IN IF link # None \/ handle # None
            THEN /\ call' = [call EXCEPT ![c] = [begun EXCEPT !.at = "done", !.out = "refused"]]
                 /\ UNCHANGED <<editorVars, reaped, link, handle, path, bounds>>
            ELSE IF force
            THEN Spawn(c, begun)
            ELSE /\ call' = [call EXCEPT ![c] = [begun EXCEPT !.at = "probing"]]
                 /\ UNCHANGED <<editorVars, reaped, link, handle, path, bounds>>

\* The process list is taken.  No editor is known to be ours: a call that comes
\* here has found no handle.  One of another project, or a game, may be taken for
\* an editor of this one.  A probe that cannot run, or whose answer cannot be
\* parsed, finds nothing: blind.
Probe(c) ==
  /\ At(c, "launch", "probing")
  /\ \E sees \in {"foreign", "blind"} \cup {x \in {"clear"} : Running \subseteq hidden} :
       call' = [call EXCEPT ![c].at = "probed", ![c].sees = sees]
  /\ UNCHANGED <<editorVars, reaped, link, handle, path, bounds>>

\* Slip: the advice is given but not acted on.
AdviceIgnored(c) == FALSE

AdvisedAgainst(c) == call[c].sees = "foreign"

\* The answer of the probe is read; link and handle are not looked at again.
LaunchDecides(c) ==
  /\ At(c, "launch", "probed")
  /\ IF AdvisedAgainst(c)
       THEN Ends(c, "refused") /\ UNCHANGED <<editorVars, reaped, link, handle, path, bounds>>
       ELSE Spawn(c, call[c])

\* Slip: the wait has no limit.
LaunchWaits(c) ==
  /\ At(c, "launch", "waiting")
  /\ \/ call[c].editor \in reaped /\ Ends(c, "failed")
     \/ link # None /\ Ends(c, "launched")
  /\ UNCHANGED <<editorVars, reaped, link, handle, path, bounds>>

\* The wait ends: the process has exited, or an editor is attached, whichever.
LaunchEnds(c) ==
  /\ At(c, "launch", "waiting")
  /\ \/ call[c].editor \in reaped /\ Ends(c, "failed")
     \/ link # None /\ Ends(c, "launched")
     \/ Ends(c, "late")
  /\ UNCHANGED <<editorVars, reaped, link, handle, path, bounds>>

----------------------------------------------------------------------------
(* gd_editor_quit. *)

QuitStart(c) ==
  /\ MayStart(c)
  /\ LET begun == [NoCall EXCEPT !.tool = "quit", !.there = InPlay, !.editor = handle]
         goes(place) == call' = [call EXCEPT ![c] = [begun EXCEPT !.at = place]]
     IN IF link # None
          THEN goes("asking") /\ requests' = [requests EXCEPT ![link] = @ \cup {c}]
          ELSE IF handle # None
          THEN goes("confirming") /\ UNCHANGED requests
          ELSE call' = [call EXCEPT ![c] = [begun EXCEPT !.at = "done", !.out = "refused"]] /\ UNCHANGED requests
  /\ UNCHANGED <<life, ours, hidden, bridge, armed, hung, term, reaped, link, handle, path, bounds>>

\* How the end is confirmed: by the process, or else by the connection.
Confirms(c) == IF call[c].editor # None THEN "confirming" ELSE "closing"

AckArrives(c) ==
  /\ At(c, "quit", "acked")
  /\ Goes(c, Confirms(c))
  /\ UNCHANGED <<editorVars, reaped, link, handle, path, bounds>>

\* The request times out: the error ends the call.
AskTimesOut(c) ==
  /\ At(c, "quit", "asking")
  /\ Ends(c, "error")
  /\ UNCHANGED <<editorVars, reaped, link, handle, path, bounds>>

\* Slip: the end of the connection is taken for the end of the process.
ConnectionEnds(e) == link = None \/ handle = None

\* exitCode is set by an exit of its own, not by a signal.
SeesTheEnd(e) == (e \in reaped /\ life[e] = "closed") \/ handle = None

QuitConfirmed(c) ==
  /\ At(c, "quit", "confirming") /\ SeesTheEnd(call[c].editor)
  /\ handle' = None
  /\ Ends(c, "quit")
  /\ UNCHANGED <<editorVars, reaped, link, path, bounds>>

\* The deadline: the process is killed, if it is still there.
QuitForced(c) ==
  /\ At(c, "quit", "confirming")
  /\ term' = term \cup ({call[c].editor} \cap Running)
  /\ handle' = None
  /\ Ends(c, "forced")
  /\ UNCHANGED <<life, ours, hidden, bridge, armed, requests, hung, reaped, link, path, bounds>>

\* An editor of somebody else: the connection closes, or does not in time.
QuitCloses(c) ==
  /\ At(c, "quit", "closing")
  /\ \/ link = None /\ Ends(c, "closed")
     \/ Ends(c, "error")
  /\ UNCHANGED <<editorVars, reaped, link, handle, path, bounds>>

----------------------------------------------------------------------------
(* The broker's events. *)

HandleAfter(e) == IF handle = e THEN None ELSE handle

\* The exit event of a spawned process.
Reap(e) ==
  /\ e \in ours \cap Gone /\ e \notin reaped
  /\ reaped' = reaped \cup {e}
  /\ handle' = HandleAfter(e)
  /\ UNCHANGED <<editorVars, link, call, path, bounds>>

\* A connection is made to the listener that has the path.  The IO thread accepts
\* and says hello whatever the main thread does.
Attach ==
  /\ link = None /\ path # None
  /\ link' = path
  /\ UNCHANGED <<editorVars, reaped, handle, call, path, bounds>>

\* The calls that wait on the connection fail with it.
Unanswered == {c \in Calls : call[c].tool = "quit" /\ call[c].at \in {"asking", "acked"}}

Disconnect ==
  /\ link' = None
  /\ call' = [c \in Calls |-> IF c \in Unanswered THEN [call[c] EXCEPT !.at = "done", !.out = "error"] ELSE call[c]]
  /\ UNCHANGED <<editorVars, reaped, handle, path>>

\* The editor is gone; what it had written is read first.
LinkEnds ==
  /\ link \in Gone /\ \A c \in Calls : call[c].at # "acked"
  /\ Disconnect
  /\ UNCHANGED bounds

\* Either end gives up on the other.
LinkDrops ==
  /\ link \in Running /\ drops < MaxDrops
  /\ drops' = drops + 1
  /\ Disconnect
  /\ UNCHANGED hangs

----------------------------------------------------------------------------
(* The editors. *)

HumanStarts ==
  /\ Room
  /\ \E e \in Editors : Starts(e)
  /\ UNCHANGED <<ours, bridge, armed, requests, hung, term, brokerVars, path, bounds>>

Acts(e) == e \in Running \ hung

\* The process ends, and what it held with it.  The socket file of one that was
\* killed stays, and refuses as if it were not there.
Die(e, how) ==
  /\ life' = [life EXCEPT ![e] = how]
  /\ armed' = [armed EXCEPT ![e] = "no"]
  /\ requests' = [requests EXCEPT ![e] = {}]
  /\ hidden' = hidden \ {e} /\ bridge' = bridge \ {e} /\ hung' = hung \ {e} /\ term' = term \ {e}
  /\ path' = IF path = e \/ (how = "closed" /\ e \in bridge) THEN None ELSE path
  /\ UNCHANGED <<ours, brokerVars, bounds>>

\* The addon is loaded and its listener spawned.
Bind(e) ==
  /\ Acts(e) /\ e \notin bridge
  /\ bridge' = bridge \cup {e}
  /\ path' = e
  /\ UNCHANGED <<life, ours, hidden, armed, requests, hung, term, brokerVars, bounds>>

Hang(e) ==
  /\ Acts(e) /\ hangs < MaxHangs
  /\ hangs' = hangs + 1
  /\ hung' = hung \cup {e}
  /\ UNCHANGED <<life, ours, hidden, bridge, armed, requests, term, brokerVars, path, drops>>

\* editor_quit: the quit is armed, afresh if it was before, and answered at once,
\* if the connection and the call are still there.
TakeQuit(e, c) ==
  /\ Acts(e) /\ c \in requests[e]
  /\ requests' = [requests EXCEPT ![e] = @ \ {c}]
  /\ armed' = [armed EXCEPT ![e] = "flush"]
  /\ IF call[c].at = "asking" THEN Goes(c, "acked") ELSE UNCHANGED call
  /\ UNCHANGED <<life, ours, hidden, bridge, hung, term, reaped, link, handle, path, bounds>>

\* Slip: the schedule is dropped once the quit was asked of the tree.
NoGrace == "no"

AfterFlush == "grace"

\* poll_deferred_quit: the tree is told to quit.
FlushFires(e) ==
  /\ Acts(e) /\ armed[e] = "flush"
  /\ armed' = [armed EXCEPT ![e] = AfterFlush]
  /\ UNCHANGED <<life, ours, hidden, bridge, requests, hung, term, brokerVars, path, bounds>>

\* poll_deferred_quit: still here, so the editor kills itself.
GraceFires(e) == Acts(e) /\ armed[e] = "grace" /\ Die(e, "killed")

\* The editor exits, as it was asked to or because it was closed by hand: the
\* listener stops and unlinks its path.
Close(e) == Acts(e) /\ Die(e, "closed")

DieOfSignal(e) == e \in term \cap Running /\ Die(e, "killed")

----------------------------------------------------------------------------

Call(c) ==
  \/ LaunchStart(c) \/ Probe(c) \/ LaunchDecides(c) \/ LaunchEnds(c)
  \/ QuitStart(c) \/ AckArrives(c) \/ AskTimesOut(c) \/ QuitConfirmed(c) \/ QuitForced(c) \/ QuitCloses(c)

Editor(e) ==
  \/ Reap(e) \/ Bind(e) \/ Hang(e) \/ FlushFires(e) \/ GraceFires(e) \/ Close(e) \/ DieOfSignal(e)
  \/ \E c \in Calls : TakeQuit(e, c)

Next ==
  \/ \E c \in Calls : Call(c)
  \/ \E e \in Editors : Editor(e)
  \/ Attach \/ LinkEnds \/ LinkDrops \/ HumanStarts

Spec == Init /\ [][Next]_vars

\* The deadlines and answers a call waits for, one at each of its places.
Proceed(c) ==
  \/ Probe(c) \/ LaunchDecides(c) \/ LaunchEnds(c)
  \/ AckArrives(c) \/ AskTimesOut(c) \/ QuitForced(c) \/ QuitCloses(c)

\* Timers fire, events are delivered, and frames run in an editor that acts.
\* Nothing makes a call start, an editor bind, hang, take a request, close, or die
\* of a signal.
Fairness ==
  /\ \A c \in Calls : WF_vars(Proceed(c))
  /\ \A e \in Editors : WF_vars(Reap(e)) /\ WF_vars(FlushFires(e) \/ GraceFires(e))

FairSpec == Spec /\ Fairness

----------------------------------------------------------------------------
(* Properties. *)

CallRecords ==
  [tool   : {"none", "launch", "quit"},
   at     : {"idle", "probing", "probed", "waiting", "asking", "acked", "confirming", "closing", "done"},
   editor : Editors \cup {None},
   sees   : {"nothing", "forced", "clear", "foreign", "blind"},
   there  : SUBSET (Editors \cup {None}),
   out    : {"none", "refused", "failed", "launched", "late", "quit", "forced", "closed", "error"}]

\* Types; a handle is of a process that was spawned here, a connection of a bridge
\* that listens, and a quit confirms the end of a process only if it has one.
TypeOK ==
  /\ life \in [Editors -> {"unborn", "running", "closed", "killed"}]
  /\ armed \in [Editors -> {"no", "flush", "grace"}]
  /\ requests \in [Editors -> SUBSET Calls]
  /\ ours \subseteq Running \cup Gone /\ hidden \subseteq Running /\ bridge \subseteq Running /\ hung \subseteq Running
  /\ term \subseteq ours \cap Running /\ reaped \subseteq ours \cap Gone
  /\ handle \in ours \cup {None}
  /\ link \in Running \cup Gone \cup {None} /\ path \in bridge \cup {None}
  /\ call \in [Calls -> CallRecords]
  /\ \A c \in Calls : call[c].at \in {"waiting", "confirming"} => call[c].editor \in ours
  /\ hangs \in 0..MaxHangs /\ drops \in 0..MaxDrops

\* "a second editor on one project is worse than not launching at all": a launch
\* that was not forced and could look never starts an editor beside one that ran
\* when it was called, still runs and can be told for an editor of the project
\* (gd_editor_launch).
SparesTheRunning ==
  [][\A c \in Calls :
       (call[c].at # "waiting" /\ call'[c].at = "waiting" /\ call'[c].sees \in {"clear", "foreign"}) =>
          call[c].there \cap Running \subseteq hidden]_vars

\* A quit that says the process it owns has exited is right, or another quit has
\* killed that process, as long as no other editor of the broker was in play when
\* it was called or was launched since: they share the handle (gd_editor_quit).
QuitIsConfirmed ==
  \A c \in Calls :
    call[c].out = "quit" =>
      \/ call[c].editor \in Gone \cup term
      \/ \E e \in ours \ {call[c].editor} : e \in call[c].there \/ e > call[c].editor

\* Every call of either tool ends: no wait in it is without a limit.
CallsEnd == \A c \in Calls : call[c].at # "idle" ~> call[c].at = "done"

\* An editor that acknowledged a quit is gone in the end, though it stalls on its
\* way out and is asked again, as long as it does not hang (poll_deferred_quit).
AcknowledgedQuitEnds == \A e \in Editors : armed[e] # "no" ~> e \notin Running \/ e \in hung

=============================================================================
