----------------------------- MODULE BridgeLink -----------------------------
(***************************************************************************)
(* One bridge process of ConduitMCP: the IO thread that owns the socket    *)
(* (serve_nonblocking and its accept loop, bridge/src/transport/ipc.rs),   *)
(* the channels between the two threads (transport/channels.rs), the main  *)
(* thread's Dispatcher (dispatcher.rs) with its ToolHistory (history.rs),  *)
(* the link status the panel polls (transport/status.rs) and the           *)
(* start/stop protocol of BridgeCore (bridge_core.rs).                     *)
(*                                                                         *)
(* The environment is a sequence of brokers.  Each opens one connection,   *)
(* numbers its requests from 1 (a BridgeClient is created per connection), *)
(* may stop acting (wedged) or close at any moment.  A request is named by *)
(* [conn, id]; the bridge sees the id only.  The conn field, the epoch     *)
(* field of responses and events, and reused are history: no guard of the  *)
(* bridge reads them.                                                      *)
(***************************************************************************)
EXTENDS Integers, Sequences, FiniteSets

CONSTANTS
  MaxConns,     \* connections opened over the life of the bridge
  MaxIds,       \* requests one broker sends
  InboundCap,   \* DEFAULT_INBOUND_CAPACITY
  WireCap,      \* frames the socket buffer towards a broker holds
  MaxCommands,  \* DrainBudget::max_commands
  MaxWait,      \* polls a suspended operation needs at most
  MaxEvents,    \* unsolicited events raised in a behaviour
  Forms         \* shapes of request frame the brokers send

ASSUME MaxConnsAssumption    == MaxConns \in Nat \ {0}
ASSUME MaxIdsAssumption      == MaxIds \in Nat \ {0}
ASSUME InboundCapAssumption  == InboundCap \in Nat \ {0}
ASSUME WireCapAssumption     == WireCap \in Nat \ {0}
ASSUME MaxCommandsAssumption == MaxCommands \in Nat \ {0}
ASSUME MaxWaitAssumption     == MaxWait \in Nat \ {0}
ASSUME MaxEventsAssumption   == MaxEvents \in Nat
ASSUME FormsAssumption       == Forms \subseteq {"command", "malformed", "unreadable"}

Conns == 1..MaxConns
Ids   == 1..MaxIds
Cmd   == [conn : Conns, id : Ids]
NoCmd == [conn |-> 0, id |-> 0]

Frame    == [cmd : Cmd, form : {"command", "malformed"}] \cup [cmd : {NoCmd}, form : {"unreadable"}]
Op       == [cmd : Cmd, left : 1..MaxWait]
Response == [kind : {"response"}, cmd : Cmd, epoch : 0..MaxConns]
Event    == [kind : {"event"}, cmd : Cmd \cup {NoCmd}, epoch : 0..MaxConns]
HelloMsg == [kind |-> "hello"]
Refusal  == [kind : {"refusal"}, cmd : Cmd]   \* busy or invalid_args, written by the IO thread
Msg      == {HelloMsg} \cup Response \cup Event \cup Refusal

VARIABLES
  peer,      \* what the broker of each connection is doing
  nextId,    \* BridgeClient.nextId
  toBridge,  \* bytes in flight to the bridge, as frames
  toPeer,    \* bytes in flight to the broker, as frames
  got,       \* requests whose answer each broker has read
  iopc,      \* where the IO thread is
  acc,       \* connections accepted so far: the current one, while serving
  decoder,   \* frames read from the socket and not yet handled
  didWork,   \* did_work of the serve loop
  status,    \* LinkStatus
  stop,      \* the stop flag shared by Listener and its IO thread
  inbound,   \* bounded command channel
  outbound,  \* unbounded response channel
  events,    \* unbounded event channel
  mainpc,    \* where the main thread is
  polling,   \* suspended operations this frame has yet to poll
  pending,   \* Dispatcher.pending
  executed,  \* commands executed by this frame's drain
  inFlight,  \* ToolHistory.in_flight, by bare id
  recorded,  \* ToolHistory.completed: the calls it names
  emitted,   \* requests the dispatcher has answered
  reused,    \* calls under way when a later connection's call took their id (history)
  raised     \* events raised so far

peerVars == <<peer, nextId, got>>
wireVars == <<toBridge, toPeer>>
ioVars   == <<iopc, acc, decoder, didWork>>
mainVars == <<mainpc, polling, pending, executed, inFlight, recorded, emitted, reused, raised>>
vars == <<peerVars, wireVars, ioVars, status, stop, inbound, outbound, events, mainVars>>

Serving == {"hello", "dropResponses", "dropEvents", "read", "decode",
            "responses", "events", "idle", "ended"}

Init ==
  /\ peer = [c \in Conns |-> "absent"]
  /\ nextId = [c \in Conns |-> 1]
  /\ toBridge = [c \in Conns |-> <<>>]
  /\ toPeer = [c \in Conns |-> <<>>]
  /\ got = [c \in Conns |-> {}]
  /\ iopc = "accept"
  /\ acc = 0
  /\ decoder = <<>>
  /\ didWork = FALSE
  /\ status = [state |-> "listening", generation |-> 0]
  /\ stop = FALSE
  /\ inbound = <<>>
  /\ outbound = <<>>
  /\ events = <<>>
  /\ mainpc = "idle"
  /\ polling = <<>>
  /\ pending = <<>>
  /\ executed = 0
  /\ inFlight = [i \in Ids |-> NoCmd]
  /\ recorded = {}
  /\ emitted = {}
  /\ reused = {}
  /\ raised = 0

----------------------------------------------------------------------------
(* The brokers, as the bridge meets them. *)

ConnectBroker(c) ==
  /\ peer[c] = "absent"
  /\ \A d \in 1..(c - 1) : peer[d] # "absent"
  /\ peer' = [peer EXCEPT ![c] = "open"]
  /\ UNCHANGED <<nextId, got, wireVars, ioVars, status, stop, inbound, outbound, events, mainVars>>

\* The bridge has dropped the stream of connection c.
Over(c) == acc > c \/ (acc = c /\ iopc \notin Serving)

SendRequest(c) ==
  /\ peer[c] = "ready" /\ ~Over(c)
  /\ nextId[c] <= MaxIds
  /\ \E f \in Forms \ {"unreadable"} :
       toBridge' = [toBridge EXCEPT ![c] = Append(@, [cmd |-> [conn |-> c, id |-> nextId[c]], form |-> f])]
  /\ nextId' = [nextId EXCEPT ![c] = @ + 1]
  /\ UNCHANGED <<peer, got, toPeer, ioVars, status, stop, inbound, outbound, events, mainVars>>

\* A frame no id can be recovered from.  One at a time, to bound the wire.
SendUnreadable(c) ==
  /\ peer[c] = "ready" /\ ~Over(c)
  /\ "unreadable" \in Forms /\ toBridge[c] = <<>>
  /\ toBridge' = [toBridge EXCEPT ![c] = <<[cmd |-> NoCmd, form |-> "unreadable"]>>]
  /\ UNCHANGED <<peerVars, toPeer, ioVars, status, stop, inbound, outbound, events, mainVars>>

ReadFrame(c) ==
  /\ peer[c] \in {"open", "ready"}
  /\ toPeer[c] # <<>>
  /\ toPeer' = [toPeer EXCEPT ![c] = Tail(@)]
  /\ LET m == Head(toPeer[c])
     IN /\ peer' = IF m.kind = "hello" THEN [peer EXCEPT ![c] = "ready"] ELSE peer
        /\ got' = IF m.kind \in {"response", "refusal"}
                    THEN [got EXCEPT ![c] = @ \cup {m.cmd}] ELSE got
  /\ UNCHANGED <<nextId, toBridge, ioVars, status, stop, inbound, outbound, events, mainVars>>

\* The broker stops reading and writing but its socket stays open.
WedgeBroker(c) ==
  /\ peer[c] \in {"open", "ready"}
  /\ peer' = [peer EXCEPT ![c] = "wedged"]
  /\ UNCHANGED <<nextId, got, wireVars, ioVars, status, stop, inbound, outbound, events, mainVars>>

\* Unread frames are lost with the socket; frames already sent stay readable.
CloseBroker(c) ==
  /\ peer[c] \in {"open", "ready", "wedged"}
  /\ peer' = [peer EXCEPT ![c] = "closed"]
  /\ toPeer' = [toPeer EXCEPT ![c] = <<>>]
  /\ UNCHANGED <<nextId, got, toBridge, ioVars, status, stop, inbound, outbound, events, mainVars>>

Broker(c) ==
  \/ ConnectBroker(c) \/ SendRequest(c) \/ SendUnreadable(c) \/ ReadFrame(c)
  \/ WedgeBroker(c) \/ CloseBroker(c)

----------------------------------------------------------------------------
(* Writing to the current connection: write_framed_bytes. *)

\* The frame goes out whole.  The stop flag is read before every write.
CanWrite == ~stop /\ peer[acc] # "closed" /\ Len(toPeer[acc]) < WireCap

\* The write is abandoned: the broker closed, its buffer stayed full for
\* WRITE_STALL_TIMEOUT, or the listener is stopping.
CannotWrite == stop \/ peer[acc] = "closed" \/ Len(toPeer[acc]) = WireCap

Deliver(m) == toPeer' = [toPeer EXCEPT ![acc] = Append(@, m)]

GoTo(pc) == iopc' = pc

----------------------------------------------------------------------------
(* The IO thread: accept_loop and serve_nonblocking. *)

\* The accept loop takes the oldest connection in the backlog.
Accept ==
  /\ iopc = "accept" /\ ~stop
  /\ acc < MaxConns /\ peer[acc + 1] # "absent"
  /\ acc' = acc + 1
  /\ GoTo("hello")
  /\ decoder' = <<>>
  /\ didWork' = FALSE
  /\ UNCHANGED <<peerVars, wireVars, status, stop, inbound, outbound, events, mainVars>>

WriteHello ==
  /\ iopc = "hello" /\ CanWrite
  /\ Deliver(HelloMsg)
  /\ status' = [state |-> "connected", generation |-> status.generation + 1]
  /\ GoTo("dropResponses")
  /\ UNCHANGED <<peerVars, toBridge, acc, decoder, didWork, stop, inbound, outbound, events, mainVars>>

\* Slip: the leftover responses are not drained.
StaleResponsesKept ==
  /\ iopc = "dropResponses"
  /\ GoTo("dropEvents")
  /\ UNCHANGED <<peerVars, wireVars, acc, decoder, didWork, status, stop, inbound, outbound, events, mainVars>>

\* Responses and events left over from a prior connection are discarded.
DropStaleResponses ==
  /\ iopc = "dropResponses"
  /\ outbound' = <<>>
  /\ GoTo("dropEvents")
  /\ UNCHANGED <<peerVars, wireVars, acc, decoder, didWork, status, stop, inbound, events, mainVars>>

DropStaleEvents ==
  /\ iopc = "dropEvents"
  /\ events' = <<>>
  /\ GoTo("read")
  /\ UNCHANGED <<peerVars, wireVars, acc, decoder, didWork, status, stop, inbound, outbound, mainVars>>

\* One socket read: any non-empty prefix of what is in flight.
ReadChunk ==
  /\ iopc = "read" /\ ~stop
  /\ \E n \in 1..Len(toBridge[acc]) :
       /\ decoder' = SubSeq(toBridge[acc], 1, n)
       /\ toBridge' = [toBridge EXCEPT ![acc] = SubSeq(@, n + 1, Len(@))]
  /\ didWork' = TRUE
  /\ GoTo("decode")
  /\ UNCHANGED <<peerVars, toPeer, acc, status, stop, inbound, outbound, events, mainVars>>

ReadNothing ==
  /\ iopc = "read" /\ ~stop
  /\ toBridge[acc] = <<>> /\ peer[acc] # "closed"
  /\ didWork' = FALSE
  /\ GoTo("decode")
  /\ UNCHANGED <<peerVars, wireVars, acc, decoder, status, stop, inbound, outbound, events, mainVars>>

ReadEof ==
  /\ iopc = "read" /\ ~stop
  /\ toBridge[acc] = <<>> /\ peer[acc] = "closed"
  /\ GoTo("ended")
  /\ UNCHANGED <<peerVars, wireVars, acc, decoder, didWork, status, stop, inbound, outbound, events, mainVars>>

ServeStop ==
  /\ iopc = "read" /\ stop
  /\ GoTo("ended")
  /\ UNCHANGED <<peerVars, wireVars, acc, decoder, didWork, status, stop, inbound, outbound, events, mainVars>>

Room == Len(inbound) < InboundCap

\* handle_inbound_frame_nb: a command enters the bounded channel...
QueueCommand ==
  /\ iopc = "decode" /\ decoder # <<>>
  /\ Head(decoder).form = "command"
  /\ Room
  /\ inbound' = Append(inbound, Head(decoder).cmd)
  /\ decoder' = Tail(decoder)
  /\ UNCHANGED <<peerVars, wireVars, iopc, acc, didWork, status, stop, outbound, events, mainVars>>

\* ... or is refused on the spot: busy when the channel is full, invalid_args
\* when the frame is malformed but carries an id.
Refused(f) == f.form = "malformed" \/ (f.form = "command" /\ ~Room)

RefuseCommand ==
  /\ iopc = "decode" /\ decoder # <<>> /\ Refused(Head(decoder))
  /\ \/ /\ CanWrite
        /\ Deliver([kind |-> "refusal", cmd |-> Head(decoder).cmd])
        /\ UNCHANGED iopc
     \/ /\ CannotWrite
        /\ GoTo("ended")
        /\ UNCHANGED toPeer
  /\ decoder' = Tail(decoder)
  /\ UNCHANGED <<peerVars, toBridge, acc, didWork, status, stop, inbound, outbound, events, mainVars>>

\* A frame without a usable id cannot be answered and is ignored.
IgnoreFrame ==
  /\ iopc = "decode" /\ decoder # <<>>
  /\ Head(decoder).form = "unreadable"
  /\ decoder' = Tail(decoder)
  /\ UNCHANGED <<peerVars, wireVars, iopc, acc, didWork, status, stop, inbound, outbound, events, mainVars>>

DecodeDone ==
  /\ iopc = "decode" /\ decoder = <<>>
  /\ GoTo("responses")
  /\ UNCHANGED <<peerVars, wireVars, acc, decoder, didWork, status, stop, inbound, outbound, events, mainVars>>

\* A popped response whose write fails is gone.
WriteResponse ==
  /\ iopc = "responses" /\ outbound # <<>>
  /\ outbound' = Tail(outbound)
  /\ \/ /\ CanWrite
        /\ Deliver(Head(outbound))
        /\ didWork' = TRUE
        /\ UNCHANGED iopc
     \/ /\ CannotWrite
        /\ GoTo("ended")
        /\ UNCHANGED <<toPeer, didWork>>
  /\ UNCHANGED <<peerVars, toBridge, acc, decoder, status, stop, inbound, events, mainVars>>

ResponsesDone ==
  /\ iopc = "responses" /\ outbound = <<>>
  /\ GoTo("events")
  /\ UNCHANGED <<peerVars, wireVars, acc, decoder, didWork, status, stop, inbound, outbound, events, mainVars>>

WriteEvent ==
  /\ iopc = "events" /\ events # <<>>
  /\ events' = Tail(events)
  /\ \/ /\ CanWrite
        /\ Deliver(Head(events))
        /\ didWork' = TRUE
        /\ UNCHANGED iopc
     \/ /\ CannotWrite
        /\ GoTo("ended")
        /\ UNCHANGED <<toPeer, didWork>>
  /\ UNCHANGED <<peerVars, toBridge, acc, decoder, status, stop, inbound, outbound, mainVars>>

EventsDone ==
  /\ iopc = "events" /\ events = <<>>
  /\ GoTo(IF didWork THEN "read" ELSE "idle")
  /\ UNCHANGED <<peerVars, wireVars, acc, decoder, didWork, status, stop, inbound, outbound, events, mainVars>>

\* Nothing to do: sleep and go round, or give a silent broker up for dead.
\* When liveness.due() says Dead is the subject of LinkLiveness.
IdlePass ==
  /\ iopc = "idle"
  /\ \/ GoTo("read")
     \/ peer[acc] = "wedged" /\ GoTo("ended")
  /\ UNCHANGED <<peerVars, wireVars, acc, decoder, didWork, status, stop, inbound, outbound, events, mainVars>>

HelloFails ==
  /\ iopc = "hello" /\ CannotWrite
  /\ GoTo("ended")
  /\ UNCHANGED <<peerVars, wireVars, acc, decoder, didWork, status, stop, inbound, outbound, events, mainVars>>

\* Every exit of the serve function: the stream is dropped with whatever was
\* still unread in it.  What was written to the broker can still be read.
EndServe ==
  /\ iopc = "ended"
  /\ toBridge' = [toBridge EXCEPT ![acc] = <<>>]
  /\ decoder' = <<>>
  /\ status' = [status EXCEPT !.state = "listening"]
  /\ GoTo("accept")
  /\ UNCHANGED <<peerVars, toPeer, acc, didWork, stop, inbound, outbound, events, mainVars>>

\* Slip: stop() does not wake the accept loop, which leaves with the next client.
LeaveUnwoken ==
  /\ iopc = "accept" /\ stop
  /\ acc < MaxConns /\ peer[acc + 1] # "absent"
  /\ GoTo("exited")
  /\ UNCHANGED <<peerVars, wireVars, acc, decoder, didWork, status, stop, inbound, outbound, events, mainVars>>

LeaveAcceptLoop ==
  /\ iopc = "accept" /\ stop
  /\ GoTo("exited")
  /\ UNCHANGED <<peerVars, wireVars, acc, decoder, didWork, status, stop, inbound, outbound, events, mainVars>>

IoThread ==
  \/ Accept \/ WriteHello \/ HelloFails \/ DropStaleResponses \/ DropStaleEvents
  \/ ReadChunk \/ ReadNothing \/ ReadEof \/ ServeStop
  \/ QueueCommand \/ RefuseCommand \/ IgnoreFrame \/ DecodeDone
  \/ WriteResponse \/ ResponsesDone \/ WriteEvent \/ EventsDone
  \/ IdlePass \/ EndServe \/ LeaveAcceptLoop

----------------------------------------------------------------------------
(* The main thread: Dispatcher::run_frame, once per engine frame. *)

\* Slip: a finished call leaves in_flight without entering the history.
SettleUnrecorded(cmd, open) ==
  /\ recorded' = recorded
  /\ inFlight' = [open EXCEPT ![cmd.id] = NoCmd]
  /\ emitted' = emitted \cup {cmd}
  /\ outbound' = Append(outbound, [kind |-> "response", cmd |-> cmd, epoch |-> acc])

\* emit: the history entry is settled first, then the response is queued.
\* open is the history as execute left it.
Settle(cmd, open) ==
  /\ recorded' = IF open[cmd.id] = NoCmd THEN recorded ELSE recorded \cup {open[cmd.id]}
  /\ inFlight' = [open EXCEPT ![cmd.id] = NoCmd]
  /\ emitted' = emitted \cup {cmd}
  /\ outbound' = Append(outbound, [kind |-> "response", cmd |-> cmd, epoch |-> acc])

\* The calls whose operation is still to finish.
Suspended == {polling[i].cmd : i \in DOMAIN polling} \cup {pending[i].cmd : i \in DOMAIN pending}

\* Slip: the pending set is copied, not taken.
StartFrameCopying ==
  /\ mainpc = "idle"
  /\ mainpc' = "poll"
  /\ polling' = pending
  /\ executed' = 0
  /\ UNCHANGED <<peerVars, wireVars, ioVars, status, stop, inbound, outbound, events, pending, inFlight, recorded, emitted, reused, raised>>

\* advance_pending takes the whole pending set out before polling it.
StartFrame ==
  /\ mainpc = "idle"
  /\ mainpc' = "poll"
  /\ polling' = pending
  /\ pending' = <<>>
  /\ executed' = 0
  /\ UNCHANGED <<peerVars, wireVars, ioVars, status, stop, inbound, outbound, events, inFlight, recorded, emitted, reused, raised>>

\* Slip: a poll makes no progress.
PolledInVain(op) == op

Polled(op) == [op EXCEPT !.left = @ - 1]

PollPending ==
  /\ mainpc = "poll" /\ polling # <<>>
  /\ polling' = Tail(polling)
  /\ LET op == Head(polling)
     IN \/ /\ op.left = 1
           /\ Settle(op.cmd, inFlight)
           /\ UNCHANGED pending
        \/ /\ op.left > 1
           /\ pending' = Append(pending, Polled(op))
           /\ UNCHANGED <<inFlight, recorded, emitted, outbound>>
  /\ UNCHANGED <<peerVars, wireVars, ioVars, status, stop, inbound, events, mainpc, executed, reused, raised>>

\* Slip: the operations that are still pending are not put back.
PollDoneForgetting ==
  /\ mainpc = "poll" /\ polling = <<>>
  /\ mainpc' = "drain"
  /\ pending' = <<>>
  /\ UNCHANGED <<peerVars, wireVars, ioVars, status, stop, inbound, outbound, events, polling, executed, inFlight, recorded, emitted, reused, raised>>

PollDone ==
  /\ mainpc = "poll" /\ polling = <<>>
  /\ mainpc' = "drain"
  /\ UNCHANGED <<peerVars, wireVars, ioVars, status, stop, inbound, outbound, events, polling, pending, executed, inFlight, recorded, emitted, reused, raised>>

\* execute: a handler that settles at once (with a result, an error or a
\* contained panic) is answered now; one that suspends joins the pending set.
Execute ==
  /\ mainpc = "drain" /\ executed < MaxCommands /\ inbound # <<>>
  /\ inbound' = Tail(inbound)
  /\ executed' = executed + 1
  /\ LET cmd   == Head(inbound)
         begun == [inFlight EXCEPT ![cmd.id] = cmd]
     IN /\ reused' = reused \cup {k \in Suspended : k.id = cmd.id /\ k.conn < cmd.conn}
        /\ \/ /\ Settle(cmd, begun)
              /\ UNCHANGED pending
           \/ \E n \in 1..MaxWait :
                /\ pending' = Append(pending, [cmd |-> cmd, left |-> n])
                /\ inFlight' = begun
                /\ UNCHANGED <<recorded, emitted, outbound>>
  /\ UNCHANGED <<peerVars, wireVars, ioVars, status, stop, events, mainpc, polling, raised>>

\* The frame's drain ends when the channel is empty, the command budget is
\* spent, or the time budget is: any moment.
EndFrame ==
  /\ mainpc = "drain"
  /\ mainpc' = "idle"
  /\ UNCHANGED <<peerVars, wireVars, ioVars, status, stop, inbound, outbound, events, polling, pending, executed, inFlight, recorded, emitted, reused, raised>>

\* EventSender::emit from an engine callback.  The event may be of the
\* engine's own making (NoCmd) or induced by a request already answered.
RaiseEvent ==
  /\ mainpc \in {"idle", "poll", "drain"}
  /\ raised < MaxEvents
  /\ raised' = raised + 1
  /\ \E cmd \in emitted \cup {NoCmd} :
       events' = Append(events, [kind |-> "event", cmd |-> cmd, epoch |-> acc])
  /\ UNCHANGED <<peerVars, wireVars, ioVars, status, stop, inbound, outbound, mainpc, polling, pending, executed, inFlight, recorded, emitted, reused>>

\* exit_tree: BridgeCore::stop raises the flag and joins the IO thread ...
StopListener ==
  /\ mainpc = "idle"
  /\ mainpc' = "joining"
  /\ stop' = TRUE
  /\ UNCHANGED <<peerVars, wireVars, ioVars, status, inbound, outbound, events, polling, pending, executed, inFlight, recorded, emitted, reused, raised>>

\* Slip: the IO thread is signalled but not joined.
NotJoined == TRUE

Joined == iopc = "exited"

\* ... and only then marks the link inactive.
MarkInactive ==
  /\ mainpc = "joining" /\ Joined
  /\ mainpc' = "stopped"
  /\ status' = [status EXCEPT !.state = "inactive"]
  /\ UNCHANGED <<peerVars, wireVars, ioVars, stop, inbound, outbound, events, polling, pending, executed, inFlight, recorded, emitted, reused, raised>>

MainThread ==
  \/ StartFrame \/ PollPending \/ PollDone \/ Execute \/ EndFrame
  \/ RaiseEvent \/ StopListener \/ MarkInactive

Next == (\E c \in Conns : Broker(c)) \/ IoThread \/ MainThread

Spec == Init /\ [][Next]_vars

\* Both threads keep running; a broker that acts keeps reading.  The time
\* budget cannot expire before the first command of every single frame, which
\* is the strong fairness of Execute.
Fairness ==
  /\ WF_vars(IoThread)
  /\ WF_vars(StartFrame) /\ WF_vars(PollPending) /\ WF_vars(PollDone)
  /\ WF_vars(EndFrame) /\ WF_vars(MarkInactive)
  /\ SF_vars(Execute)
  /\ \A c \in Conns : WF_vars(ReadFrame(c))

FairSpec == Spec /\ Fairness

----------------------------------------------------------------------------
(* Properties. *)

BrokersOK ==
  /\ peer \in [Conns -> {"absent", "open", "ready", "wedged", "closed"}]
  /\ nextId \in [Conns -> 1..(MaxIds + 1)]
  /\ got \in [Conns -> SUBSET Cmd]

WiresOK ==
  /\ toBridge \in [Conns -> Seq(Frame)]
  /\ toPeer \in [Conns -> Seq(Msg)]

IoThreadOK ==
  /\ iopc \in Serving \cup {"accept", "exited"}
  /\ acc \in 0..MaxConns
  /\ iopc \in Serving => acc \in Conns
  /\ decoder \in Seq(Frame)
  /\ didWork \in BOOLEAN
  /\ stop \in BOOLEAN

StatusOK == status \in [state : {"inactive", "listening", "connected"}, generation : Nat]

ChannelsOK ==
  /\ inbound \in Seq(Cmd) /\ Len(inbound) <= InboundCap
  /\ outbound \in Seq(Response)
  /\ events \in Seq(Event)

DispatcherOK ==
  /\ mainpc \in {"idle", "poll", "drain", "joining", "stopped"}
  /\ polling \in Seq(Op)
  /\ pending \in Seq(Op)
  /\ executed \in 0..MaxCommands
  /\ inFlight \in [Ids -> Cmd \cup {NoCmd}]
  /\ recorded \subseteq Cmd
  /\ emitted \subseteq Cmd
  /\ reused \subseteq Cmd
  /\ raised \in 0..MaxEvents

\* The type invariant: every variable holds a value of the type its field has
\* in the code, and the inbound channel never exceeds its capacity.
TypeOK ==
  BrokersOK /\ WiresOK /\ IoThreadOK /\ StatusOK /\ ChannelsOK /\ DispatcherOK

\* What a broker reads as a response or an event was produced by the main
\* thread while that broker's own connection was the current one: anything
\* left in the channels by an earlier connection is discarded before the
\* first write (ipc.rs, the two drains of serve_nonblocking).
NothingStaleIsDelivered ==
  \A c \in Conns : \A i \in 1..Len(toPeer[c]) :
    toPeer[c][i].kind \in {"response", "event"} => toPeer[c][i].epoch = c

\* Why: past the drains, all that waits in a channel was put there during the
\* current connection.  With NothingStaleIsDelivered it is inductive.
ChannelsAreFresh ==
  /\ iopc \in {"dropEvents", "read", "decode", "responses", "events", "idle"} =>
       \A i \in 1..Len(outbound) : outbound[i].epoch = acc
  /\ iopc \in {"read", "decode", "responses", "events", "idle"} =>
       \A i \in 1..Len(events) : events[i].epoch = acc

\* The places a request, or the answer to it, can be in.
In(seq, k) == {i \in DOMAIN seq : seq[i].cmd = k}
Answers(seq, k) == {i \in DOMAIN seq : seq[i].kind \in {"response", "refusal"} /\ seq[i].cmd = k}

Copies(k) ==
  LET c == k.conn
  IN Cardinality(In(toBridge[c], k)) + Cardinality(In(decoder, k))
     + Cardinality({i \in DOMAIN inbound : inbound[i] = k})
     + Cardinality(In(polling, k)) + Cardinality(In(pending, k))
     + Cardinality(In(outbound, k)) + Cardinality(Answers(toPeer[c], k))
     + (IF k \in got[c] THEN 1 ELSE 0)

\* A request never exists twice: it is not executed after it was refused, nor
\* answered twice, whatever the interleaving of the two threads.
AnsweredAtMostOnce == \A k \in Cmd : Copies(k) <= 1

\* While a connection lives, every request sent on it is still on its way, in
\* the bridge's hands or answered: neither the drains on connect nor a full
\* channel loses a request of the current broker.
NoRequestLost ==
  \A k \in Cmd :
    (peer[k.conn] \in {"open", "ready", "wedged"} /\ ~Over(k.conn) /\ k.id < nextId[k.conn])
      => (iopc = "ended" /\ acc = k.conn) \/ Copies(k) = 1

\* After BridgeCore::stop the panel shows an inactive link for good: no store
\* of the IO thread can overwrite the one made after the join.
InactiveAfterStop == mainpc = "stopped" => status.state = "inactive"

\* Why: the main thread writes the status only after the IO thread is gone.
StopOrder ==
  /\ iopc = "exited" => stop
  /\ mainpc \in {"joining", "stopped"} <=> stop
  /\ mainpc = "stopped" => iopc = "exited"

\* Every answered call is in the panel's history, except one under way when a
\* later connection's call of the same id began (history.rs keys in_flight by
\* bare id).  The later call is then in the history in its place, and only
\* such a call gets in before its own answer.
AnsweredCallsAreRecorded ==
  /\ \A k \in emitted \ recorded :
       k \in reused /\ \E j \in recorded : j.id = k.id /\ j.conn > k.conn
  /\ \A j \in recorded \ emitted :
       \E k \in emitted \cap reused : k.id = j.id /\ k.conn < j.conn

\* Every request of a broker that keeps its connection open and keeps reading
\* is answered, or the bridge stops or drops the connection.
EveryRequestEnds ==
  \A k \in Cmd :
    (k.id < nextId[k.conn])
      ~> (k \in got[k.conn] \/ peer[k.conn] \in {"wedged", "closed"} \/ Over(k.conn) \/ stop)

\* Listener::stop joins the IO thread, so it must end wherever the flag finds
\* it, a stalled write towards a broker that stopped reading included.
StopTerminates == stop ~> mainpc = "stopped"

----------------------------------------------------------------------------
(* What the comments say, and the code does not keep. *)

\* "so stale ids cannot leak onto a freshly connected broker": an answer a
\* broker reads answers a request of its own connection.
AnswersAreOwn == \A c \in Conns : \A k \in got[c] : k.conn = c

=============================================================================
