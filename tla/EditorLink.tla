----------------------------- MODULE EditorLink -----------------------------
(***************************************************************************)
(* Brokers that want the one editor bridge of a project.  Each runs a      *)
(* background loop (startEditorReconnect) and may have a tool call waiting *)
(* for the editor (ensureEditorConnected, from gd_editor_launch); both     *)
(* start connection attempts (attemptEditorConnect), one at a time.  The   *)
(* bridge serves one connection and leaves the others in the backlog of    *)
(* its listener, where a broker waits for a hello that does not come.      *)
(*                                                                         *)
(* A socket is named by a number that is free again when both its ends     *)
(* are closed.  The bridge is BridgeLink's, reduced to the slot: it takes  *)
(* any waiting connection, and one given up while it waits is forgotten at *)
(* once, since serving it would only write a hello and read the end of the *)
(* stream.                                                                 *)
(* Time is left out but for one thing: the hello timeout (5 s) does not    *)
(* expire on a bridge that is free to serve (200 us a pass).               *)
(***************************************************************************)
EXTENDS Integers, FiniteSets

CONSTANTS
  Brokers,     \* broker processes configured for the project
  MaxSockets,  \* sockets that may exist at a time
  MaxBusy,     \* busy attempts at which the delay has reached its maximum
  MaxCalls,    \* tool calls, of all brokers, that wait for the editor
  MaxStarts,   \* starts of the editor
  MaxDrops     \* connections the bridge gives up on its own

ASSUME BrokersAssumption    == "nobody" \notin Brokers
ASSUME MaxSocketsAssumption == MaxSockets \in Nat /\ MaxSockets > 0
ASSUME MaxBusyAssumption    == MaxBusy \in Nat
ASSUME MaxCallsAssumption   == MaxCalls \in Nat
ASSUME MaxStartsAssumption  == MaxStarts \in Nat
ASSUME MaxDropsAssumption   == MaxDrops \in Nat

Sockets == 1..MaxSockets
NoSocket == 0
Free == [owner |-> "nobody", at |-> "free", hello |-> FALSE]
NoAttempt == [phase |-> "none", socket |-> NoSocket, by |-> "nobody"]

VARIABLES
  bridge,      \* is the editor's listener there
  compatible,  \* the two ends speak the same protocol version; fixed
  socket,      \* whose socket, where the bridge has it, is a hello in flight
  serving,     \* the connection the IO thread serves
  attempt,     \* attemptEditorConnect in progress; its phase is "connecting"
  editor,      \* BridgeManager.editor: the socket of the client
  call,        \* the tool call waiting in ensureEditorConnected
  backoff,     \* now < editorBackoffUntil
  busy,        \* editorAttempts
  left,        \* the broker has left
  calls, starts, drops   \* bounds

brokerVars == <<attempt, editor, call, backoff, busy>>
slotVars   == <<socket, serving>>
envVars    == <<bridge, compatible, left, calls, starts, drops>>
vars == <<brokerVars, slotVars, envVars>>

Init ==
  /\ bridge \in {"down", "up"}
  /\ compatible \in BOOLEAN
  /\ socket = [s \in Sockets |-> Free]
  /\ serving = NoSocket
  /\ attempt = [b \in Brokers |-> NoAttempt]
  /\ editor = [b \in Brokers |-> NoSocket]
  /\ call = [b \in Brokers |-> "idle"]
  /\ backoff = [b \in Brokers |-> FALSE]
  /\ busy = [b \in Brokers |-> 0]
  /\ left = [b \in Brokers |-> FALSE]
  /\ calls = 0
  /\ starts = 0
  /\ drops = 0

----------------------------------------------------------------------------
(* Sockets. *)

\* The broker closes its end: a served connection is noticed by its reader, a
\* waiting one is forgotten, and one the bridge has closed is gone.
AfterClose(s) == IF socket[s].at = "served" THEN [socket[s] EXCEPT !.at = "left"] ELSE Free

CloseSocket(s) ==
  /\ socket' = [socket EXCEPT ![s] = AfterClose(s)]
  /\ UNCHANGED serving

----------------------------------------------------------------------------
(* Attempts. *)

\* Slip: the flag that says an attempt is in progress is not looked at.
MayAttemptUnguarded(b) == ~left[b] /\ editor[b] = NoSocket /\ attempt[b].phase # "connect"

MayAttempt(b) == ~left[b] /\ editor[b] = NoSocket /\ attempt[b].phase = "none"

Begin(b, who) == attempt' = [attempt EXCEPT ![b] = [phase |-> "connect", socket |-> NoSocket, by |-> who]]

\* The background loop, on its timer and once at the start.
LoopTick(b) ==
  /\ MayAttempt(b) /\ ~backoff[b]
  /\ Begin(b, "loop")
  /\ UNCHANGED <<editor, call, backoff, busy, slotVars, envVars>>

\* One iteration of ensureEditorConnected: the editor is there, or an attempt is
\* made, or another one is waited for.
Iterate(b) ==
  \/ /\ editor[b] # NoSocket
     /\ call' = [call EXCEPT ![b] = "idle"]
     /\ UNCHANGED attempt
  \/ /\ MayAttempt(b)
     /\ call' = [call EXCEPT ![b] = "trying"]
     /\ Begin(b, "call")
  \/ /\ editor[b] = NoSocket /\ ~MayAttempt(b)
     /\ call' = [call EXCEPT ![b] = "waiting"]
     /\ UNCHANGED attempt

CallStart(b) ==
  /\ ~left[b] /\ call[b] = "idle" /\ calls < MaxCalls
  /\ calls' = calls + 1
  /\ Iterate(b)
  /\ UNCHANGED <<editor, backoff, busy, slotVars, bridge, compatible, left, starts, drops>>

CallAgain(b) ==
  /\ call[b] = "waiting"
  /\ Iterate(b)
  /\ UNCHANGED <<editor, backoff, busy, slotVars, envVars>>

CallTimesOut(b) ==
  /\ call[b] = "waiting"
  /\ call' = [call EXCEPT ![b] = "idle"]
  /\ UNCHANGED <<attempt, editor, backoff, busy, slotVars, envVars>>

ConnectAccepted(b) ==
  /\ attempt[b].phase = "connect" /\ bridge = "up"
  /\ \E s \in Sockets :
       /\ socket[s] = Free /\ \A t \in Sockets : t < s => socket[t] # Free
       /\ socket' = [socket EXCEPT ![s] = [owner |-> b, at |-> "queued", hello |-> FALSE]]
       /\ attempt' = [attempt EXCEPT ![b].phase = "hello", ![b].socket = s]
  /\ UNCHANGED <<serving, editor, call, backoff, busy, envVars>>

AtMost(n, bound) == IF n < bound THEN n ELSE bound

\* The attempt is over and its caller knows how it ended.  A tool call does not
\* touch the delay of the loop (noteEditorFailure and the loop's then do).
Over(b, how) ==
  /\ attempt' = [attempt EXCEPT ![b] = NoAttempt]
  /\ IF attempt[b].by = "call"
       THEN /\ call' = [call EXCEPT ![b] = IF how = "ok" THEN "idle" ELSE "waiting"]
            /\ UNCHANGED <<backoff, busy>>
       ELSE /\ backoff' = [backoff EXCEPT ![b] = IF how = "ok" THEN FALSE ELSE @ \/ how = "busy"]
            /\ busy' = [busy EXCEPT ![b] = CASE how = "ok" -> 0 [] how = "busy" -> AtMost(@ + 1, MaxBusy) [] OTHER -> @]
            /\ UNCHANGED call

ConnectRefused(b) ==
  /\ attempt[b].phase = "connect" /\ bridge = "down"
  /\ Over(b, "absent")
  /\ UNCHANGED <<editor, slotVars, envVars>>

\* Slip: the client of a failed attempt is not closed.
LeakSocket(s) == UNCHANGED slotVars

\* client.close() in the catch of the attempt.
DiscardSocket(s) == CloseSocket(s)

HelloArrives(b) ==
  LET s == attempt[b].socket
  IN /\ attempt[b].phase = "hello" /\ socket[s].hello
     /\ IF compatible
          THEN /\ editor' = [editor EXCEPT ![b] = s]
               /\ socket' = [socket EXCEPT ![s].hello = FALSE]
               /\ UNCHANGED serving
               /\ Over(b, "ok")
          ELSE /\ DiscardSocket(s)
               /\ Over(b, "incompatible")
               /\ UNCHANGED editor
     /\ UNCHANGED envVars

\* Slip: a hello that cannot come any more is waited for without a limit.
HopelessForAWhile(s) == socket[s].at = "queued" /\ serving # NoSocket /\ socket[serving].at = "served"

\* No hello for as long as the timeout: the connection waits behind another, or
\* the bridge has closed it, of which the waiter is not told.
Hopeless(s) ==
  \/ socket[s].at = "queued" /\ serving # NoSocket /\ socket[serving].at = "served"
  \/ socket[s].at = "cut" /\ ~socket[s].hello

HelloTimeout(b) ==
  LET s == attempt[b].socket
  IN /\ attempt[b].phase = "hello" /\ Hopeless(s)
     /\ DiscardSocket(s)
     /\ Over(b, "busy")
     /\ UNCHANGED <<editor, envVars>>

BackoffOver(b) ==
  /\ backoff[b]
  /\ backoff' = [backoff EXCEPT ![b] = FALSE]
  /\ UNCHANGED <<attempt, editor, call, busy, slotVars, envVars>>

----------------------------------------------------------------------------
(* The end of a connection. *)

\* The close event of the client: the loop takes over from here.
EditorCloses(b) ==
  /\ editor[b] # NoSocket /\ socket[editor[b]].at = "cut"
  /\ CloseSocket(editor[b])
  /\ editor' = [editor EXCEPT ![b] = NoSocket]
  /\ UNCHANGED <<attempt, call, backoff, busy, envVars>>

\* The client's liveness drops a bridge that fell silent.
EditorSilent(b) ==
  /\ editor[b] # NoSocket /\ socket[editor[b]].at = "served" /\ drops < MaxDrops
  /\ drops' = drops + 1
  /\ CloseSocket(editor[b])
  /\ editor' = [editor EXCEPT ![b] = NoSocket]
  /\ UNCHANGED <<attempt, call, backoff, busy, bridge, compatible, left, calls, starts>>

\* Slip: the broker stops without releasing its connections.
LeaveHolding(b) ==
  /\ ~left[b]
  /\ left' = [left EXCEPT ![b] = TRUE]
  /\ attempt' = [attempt EXCEPT ![b] = NoAttempt]
  /\ editor' = [editor EXCEPT ![b] = NoSocket]
  /\ call' = [call EXCEPT ![b] = "idle"]
  /\ UNCHANGED <<slotVars, backoff, busy, bridge, compatible, calls, starts, drops>>

\* shutdown and exit: the process closes what it holds.
Leave(b) ==
  /\ ~left[b]
  /\ left' = [left EXCEPT ![b] = TRUE]
  /\ LET mine == {s \in Sockets : socket[s].owner = b /\ socket[s].at # "left"}
     IN socket' = [s \in Sockets |-> IF s \in mine THEN AfterClose(s) ELSE socket[s]]
  /\ attempt' = [attempt EXCEPT ![b] = NoAttempt]
  /\ editor' = [editor EXCEPT ![b] = NoSocket]
  /\ call' = [call EXCEPT ![b] = "idle"]
  /\ UNCHANGED <<serving, backoff, busy, bridge, compatible, calls, starts, drops>>

----------------------------------------------------------------------------
(* The bridge. *)

Serve(s) ==
  /\ bridge = "up" /\ serving = NoSocket /\ socket[s].at = "queued"
  /\ serving' = s
  /\ socket' = [socket EXCEPT ![s].at = "served", ![s].hello = TRUE]
  /\ UNCHANGED <<brokerVars, envVars>>

\* The end of the stream: back to the accept loop.
ReadEof ==
  /\ serving # NoSocket /\ socket[serving].at = "left"
  /\ serving' = NoSocket
  /\ socket' = [socket EXCEPT ![serving] = Free]
  /\ UNCHANGED <<brokerVars, envVars>>

\* A failed write, or a broker that fell silent.
DropClient ==
  /\ serving # NoSocket /\ socket[serving].at = "served" /\ drops < MaxDrops
  /\ drops' = drops + 1
  /\ serving' = NoSocket
  /\ socket' = [socket EXCEPT ![serving].at = "cut"]
  /\ UNCHANGED <<brokerVars, bridge, compatible, left, calls, starts>>

\* The editor exits: what it served and what waited is closed.
BridgeStops ==
  /\ bridge = "up"
  /\ bridge' = "down"
  /\ serving' = NoSocket
  /\ socket' = [s \in Sockets |-> CASE socket[s].at \in {"queued", "served"} -> [socket[s] EXCEPT !.at = "cut"]
                                    [] socket[s].at = "left" -> Free
                                    [] OTHER -> socket[s]]
  /\ UNCHANGED <<brokerVars, compatible, left, calls, starts, drops>>

BridgeStarts ==
  /\ bridge = "down" /\ starts < MaxStarts
  /\ starts' = starts + 1
  /\ bridge' = "up"
  /\ UNCHANGED <<brokerVars, slotVars, compatible, left, calls, drops>>

Broker(b) ==
  \/ LoopTick(b) \/ CallStart(b) \/ CallAgain(b) \/ CallTimesOut(b)
  \/ ConnectAccepted(b) \/ ConnectRefused(b) \/ HelloArrives(b) \/ HelloTimeout(b) \/ BackoffOver(b)
  \/ EditorCloses(b) \/ EditorSilent(b) \/ Leave(b)

Bridge == (\E s \in Sockets : Serve(s)) \/ ReadEof \/ DropClient \/ BridgeStops \/ BridgeStarts

Next == (\E b \in Brokers : Broker(b)) \/ Bridge

Spec == Init /\ [][Next]_vars

\* Timers fire, the kernel and the bridge answer, closes are reported.  Nothing
\* makes a call start, a broker leave, or the bridge stop, start or drop.  The
\* backlog is first in, first out: no connection is passed over for ever, which
\* is the strong fairness of Serve.
Fairness ==
  /\ WF_vars(ReadEof)
  /\ \A s \in Sockets : SF_vars(Serve(s))
  /\ \A b \in Brokers :
       /\ WF_vars(LoopTick(b)) /\ WF_vars(CallAgain(b)) /\ WF_vars(BackoffOver(b))
       /\ WF_vars(ConnectAccepted(b)) /\ WF_vars(ConnectRefused(b))
       /\ WF_vars(HelloArrives(b)) /\ WF_vars(HelloTimeout(b)) /\ WF_vars(EditorCloses(b))
       /\ SF_vars(CallTimesOut(b))

FairSpec == Spec /\ Fairness

----------------------------------------------------------------------------
(* Properties. *)

SocketRecords == [owner : Brokers \cup {"nobody"}, at : {"free", "queued", "served", "cut", "left"}, hello : BOOLEAN]
Attempts == [phase : {"none", "connect", "hello"}, socket : Sockets \cup {NoSocket}, by : {"nobody", "loop", "call"}]

\* Types, and the agreement of the slot with the sockets on which one is served.
TypeOK ==
  /\ bridge \in {"down", "up"}
  /\ compatible \in BOOLEAN
  /\ socket \in [Sockets -> SocketRecords]
  /\ {s \in Sockets : socket[s].at \in {"served", "left"}} = {serving} \ {NoSocket}
  /\ attempt \in [Brokers -> Attempts]
  /\ editor \in [Brokers -> Sockets \cup {NoSocket}]
  /\ call \in [Brokers -> {"idle", "waiting", "trying"}]
  /\ backoff \in [Brokers -> BOOLEAN]
  /\ busy \in [Brokers -> 0..MaxBusy]
  /\ left \in [Brokers -> BOOLEAN]
  /\ calls \in 0..MaxCalls
  /\ starts \in 0..MaxStarts
  /\ drops \in 0..MaxDrops

\* The sockets whose broker end is open.
Open(b) == {s \in Sockets : socket[s].owner = b /\ socket[s].at \in {"queued", "served", "cut"}}

Held(b) == {attempt[b].socket, editor[b]} \ {NoSocket}

\* A broker never has two clients on the endpoint, whoever starts the attempts:
\* "Two BridgeClients racing one endpoint is fatal on Windows" (connecting,
\* attemptEditorConnect).
OneClient == \A b \in Brokers : Cardinality(Open(b)) <= 1

\* A broker holds no connection it does not know of: every attempt that fails
\* gives back the place it took among the waiting or in the bridge's only slot, and
\* a broker that leaves gives back all.
NoSlotIsLeaked == \A b \in Brokers : Open(b) = Held(b)

\* A tool call that waits for the editor ends, whatever the bridge does, one
\* that closes the connection before its hello included.
CallsEnd == \A b \in Brokers : call[b] # "idle" ~> call[b] = "idle"

\* A broker that is alone on an editor that stays up is attached to it, again
\* and again if the connection is dropped: the slot of one that left or fell
\* silent is handed over, and no backoff, refusal or failed attempt ends the
\* background loop.
SlotIsHandedOver ==
  \A b \in Brokers :
    (/\ compatible
     /\ <>[](bridge = "up")
     /\ <>[](\A c \in Brokers \ {b} : left[c])) => []<>(editor[b] # NoSocket \/ left[b])

\* The slot never lies idle for ever between brokers that compete for it.
SlotIsTaken ==
  (compatible /\ <>[](bridge = "up")) =>
    []<>(\E b \in Brokers : editor[b] # NoSocket) \/ <>(\A b \in Brokers : left[b])

\* Both: the one place the editor offers is always used again.
SlotIsUsed == SlotIsHandedOver /\ SlotIsTaken

=============================================================================
