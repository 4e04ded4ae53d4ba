-------------------------- MODULE BridgeLink_proofs --------------------------
(***************************************************************************)
(* Proofs about BridgeLink, for every value of its constants: the type     *)
(* invariant, the isolation of a connection from what an earlier one left  *)
(* in the channels, the finality of the inactive link, the account of      *)
(* every request (no second copy, none lost while its connection lives)    *)
(* and the completeness of the history.                                    *)
(***************************************************************************)
EXTENDS BridgeLink, FiniteSetTheorems, SequenceTheorems, TLAPS

USE MaxConnsAssumption, MaxIdsAssumption, InboundCapAssumption, WireCapAssumption,
    MaxCommandsAssumption, MaxWaitAssumption, MaxEventsAssumption, FormsAssumption

----------------------------------------------------------------------------
(* What the threads leave alone. *)

\* Only the brokers change the brokers.
LEMMA BrokersFrame == IoThread \/ MainThread => UNCHANGED peerVars
  BY DEF IoThread, MainThread, Accept, WriteHello, HelloFails, DropStaleResponses,
         DropStaleEvents, ReadChunk, ReadNothing, ReadEof, ServeStop, QueueCommand,
         RefuseCommand, IgnoreFrame, DecodeDone, WriteResponse, ResponsesDone, WriteEvent,
         EventsDone, IdlePass, EndServe, LeaveAcceptLoop, StartFrame, PollPending, PollDone,
         Execute, EndFrame, RaiseEvent, StopListener, MarkInactive

\* The dispatcher's state is the main thread's alone.
LEMMA DispatcherFrame ==
  ASSUME NEW c \in Conns, Broker(c) \/ IoThread
  PROVE  UNCHANGED mainVars
  BY DEF Broker, ConnectBroker, SendRequest, SendUnreadable, ReadFrame, WedgeBroker, CloseBroker,
         IoThread, Accept, WriteHello, HelloFails, DropStaleResponses,
         DropStaleEvents, ReadChunk, ReadNothing, ReadEof, ServeStop, QueueCommand,
         RefuseCommand, IgnoreFrame, DecodeDone, WriteResponse, ResponsesDone, WriteEvent,
         EventsDone, IdlePass, EndServe, LeaveAcceptLoop

\* A broker touches its own state and the wires, nothing of the bridge.
LEMMA BridgeFrame ==
  ASSUME NEW c \in Conns, Broker(c)
  PROVE  UNCHANGED <<ioVars, status, stop, inbound, outbound, events, mainVars>>
  BY DEF Broker, ConnectBroker, SendRequest, SendUnreadable, ReadFrame, WedgeBroker, CloseBroker

\* The main thread reaches the socket only through the channels.
LEMMA WiresFrame == MainThread => UNCHANGED <<wireVars, ioVars>>
  BY DEF MainThread, StartFrame, PollPending, PollDone, Execute, EndFrame, RaiseEvent,
         StopListener, MarkInactive

----------------------------------------------------------------------------
(* The type invariant. *)

\* The initial state is well typed.
LEMMA InitType == Init => TypeOK
<1> SUFFICES ASSUME Init PROVE TypeOK
  OBVIOUS
<1> USE DEF Init
<1>1. BrokersOK
  BY DEF BrokersOK, Conns
<1>2. WiresOK
  BY DEF WiresOK
<1>3. IoThreadOK
  <2>1. didWork \in BOOLEAN /\ stop \in BOOLEAN
    BY Zenon
  <2>2. iopc \in Serving \cup {"accept", "exited"} /\ iopc \notin Serving
    BY DEF Serving
  <2>3. acc \in 0..MaxConns /\ decoder \in Seq(Frame)
    OBVIOUS
  <2> QED
    BY <2>1, <2>2, <2>3 DEF IoThreadOK
<1>4. StatusOK
  BY DEF StatusOK
<1>5. ChannelsOK
  BY DEF ChannelsOK
<1>6. DispatcherOK
  BY DEF DispatcherOK
<1> QED
  BY <1>1, <1>2, <1>3, <1>4, <1>5, <1>6 DEF TypeOK

\* A response or a refusal names a request; a command frame does too.
LEMMA MessageFields ==
  /\ HelloMsg \in Msg
  /\ \A m \in Msg : m.kind \in {"response", "refusal"} => m.cmd \in Cmd
  /\ \A f \in Frame : f.form # "unreadable" => f.cmd \in Cmd
  /\ \A k \in Cmd : [kind |-> "refusal", cmd |-> k] \in Msg
  /\ Response \subseteq Msg /\ Event \subseteq Msg
  BY DEF Msg, HelloMsg, Response, Event, Refusal, Frame, NoCmd, Cmd

\* A step of anyone keeps the brokers' own state well typed.
LEMMA BrokersType ==
  ASSUME BrokersOK, WiresOK, [Next]_vars
  PROVE  BrokersOK'
<1>1. ASSUME NEW c \in Conns, Broker(c) PROVE BrokersOK'
  <2>1. CASE ConnectBroker(c)
    BY <2>1 DEF BrokersOK, ConnectBroker
  <2>2. CASE SendRequest(c)
    BY <2>2 DEF BrokersOK, SendRequest
  <2>3. CASE SendUnreadable(c)
    BY <2>3 DEF BrokersOK, SendUnreadable, peerVars
  <2>4. CASE ReadFrame(c)
    <3>1. Head(toPeer[c]) \in Msg
      BY <2>4 DEF ReadFrame, WiresOK
    <3> QED
      BY <2>4, <3>1, MessageFields DEF BrokersOK, ReadFrame
  <2>5. CASE WedgeBroker(c)
    BY <2>5 DEF BrokersOK, WedgeBroker
  <2>6. CASE CloseBroker(c)
    BY <2>6 DEF BrokersOK, CloseBroker
  <2> QED
    BY <1>1, <2>1, <2>2, <2>3, <2>4, <2>5, <2>6 DEF Broker
<1>2. CASE UNCHANGED peerVars
  BY <1>2 DEF BrokersOK, peerVars
<1> QED
  BY <1>1, <1>2, BrokersFrame DEF Next, vars

\* Writing a frame to the current connection keeps the wires well typed.
LEMMA DeliverType ==
  ASSUME NEW m \in Msg, toPeer \in [Conns -> Seq(Msg)], acc \in Conns, Deliver(m)
  PROVE  toPeer' \in [Conns -> Seq(Msg)]
<1>1. Append(toPeer[acc], m) \in Seq(Msg)
  OBVIOUS
<1> QED
  BY <1>1 DEF Deliver

\* Only well-formed frames enter the two wires.
LEMMA WiresType ==
  ASSUME BrokersOK, WiresOK, IoThreadOK, ChannelsOK, [Next]_vars
  PROVE  WiresOK'
<1>1. ASSUME NEW c \in Conns, Broker(c) PROVE WiresOK'
  <2>1. CASE ConnectBroker(c)
    BY <2>1 DEF WiresOK, ConnectBroker, wireVars
  <2>2. CASE SendRequest(c)
    <3>1. [conn |-> c, id |-> nextId[c]] \in Cmd
      BY <2>2 DEF SendRequest, BrokersOK, Cmd, Ids
    <3>2. \A f \in Forms \ {"unreadable"} :
            [cmd |-> [conn |-> c, id |-> nextId[c]], form |-> f] \in Frame
      BY <3>1 DEF Frame
    <3> QED
      BY <2>2, <3>2 DEF WiresOK, SendRequest
  <2>3. CASE SendUnreadable(c)
    <3>1. [cmd |-> NoCmd, form |-> "unreadable"] \in Frame
      BY DEF Frame
    <3> QED
      BY <2>3, <3>1 DEF WiresOK, SendUnreadable
  <2>4. CASE ReadFrame(c)
    BY <2>4 DEF WiresOK, ReadFrame
  <2>5. CASE WedgeBroker(c)
    BY <2>5 DEF WiresOK, WedgeBroker, wireVars
  <2>6. CASE CloseBroker(c)
    BY <2>6 DEF WiresOK, CloseBroker
  <2> QED
    BY <1>1, <2>1, <2>2, <2>3, <2>4, <2>5, <2>6 DEF Broker
<1>2. CASE IoThread
  <2> USE DEF WiresOK
  <2>0. iopc \in Serving => acc \in Conns
    BY DEF IoThreadOK
  <2>1. CASE WriteHello
    BY <2>0, <2>1, MessageFields DEF WriteHello, Deliver, Serving
  <2>2. CASE ReadChunk
    BY <2>0, <2>2 DEF ReadChunk, Serving
  <2>3. CASE RefuseCommand
    <3>1. Head(decoder) \in Frame
      BY <2>3 DEF RefuseCommand, IoThreadOK
    <3>2. [kind |-> "refusal", cmd |-> Head(decoder).cmd] \in Msg
      BY <2>3, <3>1, MessageFields DEF RefuseCommand, Refused
    <3> QED
      BY <2>0, <2>3, <3>2, DeliverType DEF RefuseCommand, Serving
  <2>4. CASE WriteResponse
    <3>1. Head(outbound) \in Msg
      BY <2>4, MessageFields DEF WriteResponse, ChannelsOK
    <3> QED
      BY <2>0, <2>4, <3>1, DeliverType DEF WriteResponse, Serving
  <2>5. CASE WriteEvent
    <3>1. Head(events) \in Msg
      BY <2>5, MessageFields DEF WriteEvent, ChannelsOK
    <3> QED
      BY <2>0, <2>5, <3>1, DeliverType DEF WriteEvent, Serving
  <2>6. CASE EndServe
    BY <2>0, <2>6 DEF EndServe, Serving
  <2>7. CASE UNCHANGED wireVars
    BY <2>7 DEF wireVars
  <2>8. CASE QueueCommand
    BY <2>8 DEF QueueCommand, wireVars
  <2> QED
    BY <1>2, <2>1, <2>2, <2>3, <2>4, <2>5, <2>6, <2>7 DEF IoThread, Accept, HelloFails,
       DropStaleResponses, DropStaleEvents, ReadNothing, ReadEof, ServeStop, QueueCommand,
       IgnoreFrame, DecodeDone, ResponsesDone, EventsDone, IdlePass, LeaveAcceptLoop
<1>3. CASE MainThread \/ UNCHANGED vars
  BY <1>3, WiresFrame DEF WiresOK, wireVars, vars
<1> QED
  BY <1>1, <1>2, <1>3 DEF Next

\* The IO thread is at a known place, and serves a real connection.
LEMMA IoThreadType ==
  ASSUME WiresOK, IoThreadOK, [Next]_vars
  PROVE  IoThreadOK'
<1>1. ASSUME NEW c \in Conns, Broker(c) PROVE IoThreadOK'
  BY <1>1, BridgeFrame DEF IoThreadOK, ioVars, Serving
<1>2. CASE IoThread
  <2> USE DEF IoThreadOK, Serving, GoTo
  <2>1. CASE Accept
    <3>1. UNCHANGED stop /\ didWork' = FALSE /\ decoder' = <<>>
      BY <2>1 DEF Accept
    <3>2. acc' \in Conns /\ iopc' = "hello"
      BY <2>1 DEF Accept, Conns
    <3>3. decoder' \in Seq(Frame) /\ acc' \in 0..MaxConns
      BY <3>1, <3>2 DEF Conns
    <3>4. didWork' \in BOOLEAN /\ stop' \in BOOLEAN
      BY <3>1, Zenon
    <3> QED
      BY <3>2, <3>3, <3>4
  <2>2. CASE ReadChunk
    <3>1. toBridge[acc] \in Seq(Frame)
      BY <2>2 DEF ReadChunk, WiresOK
    <3>2. \A n \in 1..Len(toBridge[acc]) : SubSeq(toBridge[acc], 1, n) \in Seq(Frame)
      BY <3>1
    <3> QED
      BY <2>2, <3>2 DEF ReadChunk
  <2>3. CASE QueueCommand \/ RefuseCommand \/ IgnoreFrame
    BY <2>3 DEF QueueCommand, RefuseCommand, IgnoreFrame
  <2>4. CASE EndServe
    BY <2>4 DEF EndServe
  <2>5. CASE WriteHello \/ HelloFails \/ DropStaleResponses \/ DropStaleEvents \/ ReadNothing
             \/ ReadEof \/ ServeStop \/ DecodeDone
    BY <2>5 DEF WriteHello, HelloFails, DropStaleResponses, DropStaleEvents, ReadNothing,
                ReadEof, ServeStop, DecodeDone
  <2>6. CASE WriteResponse \/ ResponsesDone \/ WriteEvent \/ EventsDone \/ IdlePass
             \/ LeaveAcceptLoop
    BY <2>6 DEF WriteResponse, ResponsesDone, WriteEvent, EventsDone, IdlePass, LeaveAcceptLoop
  <2> QED
    BY <1>2, <2>1, <2>2, <2>3, <2>4, <2>5, <2>6 DEF IoThread
<1>3. CASE MainThread
  <2>1. UNCHANGED ioVars /\ (UNCHANGED stop \/ stop' = TRUE)
    BY <1>3, WiresFrame DEF MainThread, StartFrame, PollPending, PollDone, Execute, EndFrame,
       RaiseEvent, StopListener, MarkInactive
  <2> QED
    BY <2>1 DEF IoThreadOK, ioVars, Serving
<1>4. CASE UNCHANGED vars
  BY <1>4 DEF IoThreadOK, vars, ioVars, Serving
<1> QED
  BY <1>1, <1>2, <1>3, <1>4 DEF Next

\* Every store to the link status is one of its three states.
LEMMA StatusType ==
  ASSUME StatusOK, [Next]_vars
  PROVE  StatusOK'
<1>1. CASE WriteHello \/ EndServe \/ MarkInactive
  BY <1>1 DEF StatusOK, WriteHello, EndServe, MarkInactive
<1>2. CASE UNCHANGED status
  BY <1>2 DEF StatusOK
<1>3. ASSUME NEW c \in Conns, Broker(c) PROVE UNCHANGED status
  BY <1>3, BridgeFrame
<1> QED
  BY <1>1, <1>2, <1>3 DEF Next, IoThread, MainThread, vars, Accept, HelloFails,
     DropStaleResponses, DropStaleEvents, ReadChunk, ReadNothing, ReadEof, ServeStop,
     QueueCommand, RefuseCommand, IgnoreFrame, DecodeDone, WriteResponse, ResponsesDone,
     WriteEvent, EventsDone, IdlePass, LeaveAcceptLoop, StartFrame, PollPending, PollDone,
     Execute, EndFrame, RaiseEvent, StopListener

\* What emit puts on the outbound channel, and what it does to the history.
LEMMA SettleType ==
  ASSUME NEW k \in Cmd, NEW open \in [Ids -> Cmd \cup {NoCmd}], Settle(k, open),
         outbound \in Seq(Response), acc \in 0..MaxConns,
         recorded \subseteq Cmd, emitted \subseteq Cmd
  PROVE  /\ outbound' \in Seq(Response)
         /\ inFlight' \in [Ids -> Cmd \cup {NoCmd}]
         /\ recorded' \subseteq Cmd /\ emitted' \subseteq Cmd
<1>1. [kind |-> "response", cmd |-> k, epoch |-> acc] \in Response
  BY DEF Response
<1>2. k.id \in Ids
  BY DEF Cmd
<1> QED
  BY <1>1, <1>2 DEF Settle

\* The three channels stay well typed; the bounded one stays bounded.
LEMMA ChannelsType ==
  ASSUME IoThreadOK, ChannelsOK, DispatcherOK, [Next]_vars
  PROVE  ChannelsOK'
<1> USE DEF ChannelsOK
<1>1. ASSUME NEW c \in Conns, Broker(c) PROVE ChannelsOK'
  BY <1>1, BridgeFrame
<1>2. CASE IoThread
  <2>1. CASE DropStaleResponses
    BY <2>1 DEF DropStaleResponses
  <2>5. CASE DropStaleEvents
    BY <2>5 DEF DropStaleEvents
  <2>2. CASE QueueCommand
    <3>1. Head(decoder) \in Frame
      BY <2>2 DEF QueueCommand, IoThreadOK
    <3>2. Head(decoder).cmd \in Cmd
      BY <2>2, <3>1, MessageFields DEF QueueCommand
    <3> QED
      BY <2>2, <3>2 DEF QueueCommand, Room
  <2>3. CASE WriteResponse
    <3>1. Tail(outbound) \in Seq(Response)
      BY <2>3 DEF WriteResponse
    <3> QED
      BY <2>3, <3>1 DEF WriteResponse
  <2>6. CASE WriteEvent
    <3>1. Tail(events) \in Seq(Event)
      BY <2>6 DEF WriteEvent
    <3> QED
      BY <2>6, <3>1 DEF WriteEvent
  <2>4. CASE UNCHANGED <<inbound, outbound, events>>
    BY <2>4
  <2> QED
    BY <1>2, <2>1, <2>2, <2>3, <2>4, <2>5, <2>6 DEF IoThread, Accept, WriteHello, HelloFails, ReadChunk,
       ReadNothing, ReadEof, ServeStop, RefuseCommand, IgnoreFrame, DecodeDone, ResponsesDone,
       EventsDone, IdlePass, EndServe, LeaveAcceptLoop
<1>3. CASE MainThread
  <2>1. CASE PollPending
    <3>0. Head(polling) \in Op
      BY <2>1 DEF PollPending, DispatcherOK
    <3>1. Head(polling).cmd \in Cmd
      BY <3>0 DEF Op
    <3>2. UNCHANGED <<inbound, events>> /\ (Settle(Head(polling).cmd, inFlight) \/ UNCHANGED outbound)
      BY <2>1 DEF PollPending
    <3> QED
      BY <3>1, <3>2, SettleType DEF DispatcherOK, IoThreadOK
  <2>2. CASE Execute
    <3> DEFINE cmd == Head(inbound)
               begun == [inFlight EXCEPT ![cmd.id] = cmd]
    <3>1. cmd \in Cmd /\ inbound' \in Seq(Cmd) /\ Len(inbound') <= InboundCap
      BY <2>2 DEF Execute
    <3>2. begun \in [Ids -> Cmd \cup {NoCmd}]
      BY <3>1 DEF DispatcherOK
    <3>3. UNCHANGED events /\ (Settle(cmd, begun) \/ UNCHANGED outbound)
      BY <2>2 DEF Execute
    <3> QED
      BY <3>1, <3>2, <3>3, SettleType DEF DispatcherOK, IoThreadOK
  <2>3. CASE RaiseEvent
    <3>1. \A k \in emitted \cup {NoCmd} : [kind |-> "event", cmd |-> k, epoch |-> acc] \in Event
      BY DEF Event, DispatcherOK, IoThreadOK
    <3> QED
      BY <2>3, <3>1 DEF RaiseEvent
  <2>4. CASE UNCHANGED <<inbound, outbound, events>>
    BY <2>4
  <2> QED
    BY <1>3, <2>1, <2>2, <2>3, <2>4 DEF MainThread, StartFrame, PollDone, EndFrame,
       StopListener, MarkInactive
<1>4. CASE UNCHANGED vars
  BY <1>4 DEF vars
<1> QED
  BY <1>1, <1>2, <1>3, <1>4 DEF Next

\* Suspended calls are calls.
LEMMA SuspendedType == DispatcherOK => Suspended \subseteq Cmd
<1> SUFFICES ASSUME DispatcherOK PROVE Suspended \subseteq Cmd
  OBVIOUS
<1>1. \A i \in DOMAIN polling : polling[i] \in Op
  BY DEF DispatcherOK
<1>2. \A i \in DOMAIN pending : pending[i] \in Op
  BY DEF DispatcherOK
<1> QED
  BY <1>1, <1>2 DEF Suspended, Op

\* The dispatcher's frame state and its history stay well typed.
LEMMA DispatcherType ==
  ASSUME IoThreadOK, ChannelsOK, DispatcherOK, [Next]_vars
  PROVE  DispatcherOK'
<1> USE DEF DispatcherOK
<1>1. CASE UNCHANGED mainVars
  BY <1>1 DEF mainVars
<1>2. CASE MainThread
  <2>1. CASE StartFrame
    BY <2>1 DEF StartFrame
  <2>6. CASE PollDone \/ EndFrame
    BY <2>6 DEF PollDone, EndFrame
  <2>2. CASE PollPending
    <3> DEFINE op == Head(polling)
    <3>1. op \in Op /\ polling' \in Seq(Op)
      BY <2>2 DEF PollPending
    <3>2. op.cmd \in Cmd
      BY <3>1 DEF Op
    <3>3. UNCHANGED <<mainpc, executed, reused, raised>>
      BY <2>2 DEF PollPending
    <3>4. CASE Settle(op.cmd, inFlight) /\ UNCHANGED pending
      BY <3>1, <3>2, <3>3, <3>4, SettleType DEF ChannelsOK, IoThreadOK
    <3>5. CASE op.left > 1 /\ pending' = Append(pending, Polled(op))
               /\ UNCHANGED <<inFlight, recorded, emitted, outbound>>
      <4>1. Polled(op) \in Op
        <5>1. op.left \in 1..MaxWait /\ op.left - 1 \in 1..MaxWait
          BY <3>1, <3>5 DEF Op
        <5>2. [op EXCEPT !.left = @ - 1] \in Op
          BY <3>1, <5>1 DEF Op
        <5> QED
          BY <5>2 DEF Polled
      <4> QED
        BY <3>1, <3>3, <3>5, <4>1
    <3> QED
      BY <2>2, <3>4, <3>5 DEF PollPending
  <2>3. CASE Execute
    <3> DEFINE cmd == Head(inbound)
               begun == [inFlight EXCEPT ![cmd.id] = cmd]
    <3>1. cmd \in Cmd
      BY <2>3 DEF Execute, ChannelsOK
    <3>2. begun \in [Ids -> Cmd \cup {NoCmd}]
      BY <3>1
    <3>3. executed' \in 0..MaxCommands /\ UNCHANGED <<mainpc, polling, raised>>
      BY <2>3 DEF Execute
    <3>6. reused' \subseteq Cmd
      BY <2>3, SuspendedType DEF Execute
    <3>4. CASE Settle(cmd, begun) /\ UNCHANGED pending
      BY <3>1, <3>2, <3>3, <3>4, <3>6, SettleType DEF ChannelsOK, IoThreadOK
    <3>5. CASE /\ \E n \in 1..MaxWait : pending' = Append(pending, [cmd |-> cmd, left |-> n])
               /\ inFlight' = begun
               /\ UNCHANGED <<recorded, emitted, outbound>>
      <4>1. \A n \in 1..MaxWait : [cmd |-> cmd, left |-> n] \in Op
        BY <3>1 DEF Op
      <4>2. pending' \in Seq(Op)
        BY <3>5, <4>1
      <4> QED
        BY <3>2, <3>3, <3>5, <3>6, <4>2
    <3> QED
      BY <2>3, <3>4, <3>5 DEF Execute
  <2>4. CASE RaiseEvent
    BY <2>4 DEF RaiseEvent
  <2>5. CASE StopListener \/ MarkInactive
    BY <2>5 DEF StopListener, MarkInactive
  <2> QED
    BY <1>2, <2>1, <2>2, <2>3, <2>4, <2>5, <2>6 DEF MainThread
<1>3. ASSUME NEW c \in Conns, Broker(c) PROVE UNCHANGED mainVars
  BY <1>3, DispatcherFrame
<1>4. CASE IoThread
  <2>1. 1 \in Conns
    BY DEF Conns
  <2> QED
    BY <1>1, <1>4, <2>1, DispatcherFrame
<1> QED
  BY <1>1, <1>2, <1>3, <1>4 DEF Next, vars

\* Every variable keeps its type, and the inbound channel its bound, in every
\* reachable state, whatever the constants.
THEOREM TypeInvariant == Spec => []TypeOK
<1>1. Init => TypeOK
  BY InitType
<1>2. TypeOK /\ [Next]_vars => TypeOK'
  BY BrokersType, WiresType, IoThreadType, StatusType, ChannelsType, DispatcherType DEF TypeOK
<1> QED
  BY <1>1, <1>2, PTL DEF Spec

----------------------------------------------------------------------------
(* No connection sees what an earlier one left behind. *)

Isolated == ChannelsAreFresh /\ NothingStaleIsDelivered

\* Putting a message that is fresh, or is neither response nor event, on the
\* current connection delivers nothing stale.
LEMMA DeliverFresh ==
  ASSUME NEW m \in Msg, WiresOK, acc \in Conns, Deliver(m), NothingStaleIsDelivered,
         m.kind \in {"response", "event"} => m.epoch = acc
  PROVE  NothingStaleIsDelivered'
<1> SUFFICES ASSUME NEW c \in Conns, NEW i \in 1..Len(toPeer'[c]),
                    toPeer'[c][i].kind \in {"response", "event"}
             PROVE  toPeer'[c][i].epoch = c
  BY DEF NothingStaleIsDelivered
<1>1. CASE c # acc
  BY <1>1 DEF Deliver, WiresOK, NothingStaleIsDelivered
<1>2. CASE c = acc
  <2>1. toPeer'[c] = Append(toPeer[c], m) /\ toPeer[c] \in Seq(Msg)
    BY <1>2 DEF Deliver, WiresOK
  <2>2. CASE i = Len(toPeer[c]) + 1
    BY <1>2, <2>1, <2>2
  <2>3. CASE i \in 1..Len(toPeer[c])
    BY <2>1, <2>3 DEF NothingStaleIsDelivered
  <2> QED
    BY <2>1, <2>2, <2>3
<1> QED
  BY <1>1, <1>2

\* Nothing is on a wire or in a channel at the start.
LEMMA InitIsolated == Init => Isolated
  BY DEF Init, Isolated, ChannelsAreFresh, NothingStaleIsDelivered

\* A step puts nothing stale on a wire.
LEMMA NextDelivered ==
  ASSUME TypeOK, Isolated, [Next]_vars
  PROVE  NothingStaleIsDelivered'
<1> USE DEF TypeOK
<1>1. CASE UNCHANGED toPeer
  BY <1>1 DEF Isolated, NothingStaleIsDelivered
<1>2. ASSUME NEW c \in Conns, Broker(c) PROVE NothingStaleIsDelivered'
  <2>1. CASE ReadFrame(c)
    <3> SUFFICES ASSUME NEW d \in Conns, NEW i \in 1..Len(toPeer'[d]),
                        toPeer'[d][i].kind \in {"response", "event"}
                 PROVE  toPeer'[d][i].epoch = d
      BY DEF NothingStaleIsDelivered
    <3>1. CASE d # c
      BY <2>1, <3>1 DEF ReadFrame, WiresOK, Isolated, NothingStaleIsDelivered
    <3>2. CASE d = c
      <4>1. toPeer'[d] = Tail(toPeer[d]) /\ toPeer[d] \in Seq(Msg) /\ toPeer[d] # <<>>
        BY <2>1, <3>2 DEF ReadFrame, WiresOK
      <4>2. i + 1 \in 1..Len(toPeer[d]) /\ toPeer'[d][i] = toPeer[d][i + 1]
        BY <4>1
      <4> QED
        BY <4>2 DEF Isolated, NothingStaleIsDelivered
    <3> QED
      BY <3>1, <3>2
  <2>2. CASE CloseBroker(c)
    <3>1. toPeer' = [toPeer EXCEPT ![c] = <<>>]
      BY <2>2 DEF CloseBroker
    <3>2. \A d \in Conns : toPeer'[d] = IF d = c THEN <<>> ELSE toPeer[d]
      BY <3>1 DEF WiresOK
    <3> QED
      BY <3>2 DEF Isolated, NothingStaleIsDelivered
  <2>3. CASE UNCHANGED toPeer
    BY <1>1, <2>3
  <2> QED
    BY <1>2, <2>1, <2>2, <2>3 DEF Broker, ConnectBroker, SendRequest, SendUnreadable, WedgeBroker, wireVars
<1>3. CASE IoThread
  <2>0. iopc \in Serving => acc \in Conns
    BY DEF IoThreadOK
  <2>1. CASE WriteHello
    BY <2>0, <2>1, MessageFields, DeliverFresh DEF WriteHello, Isolated, HelloMsg, Serving
  <2>2. CASE RefuseCommand
    <3> DEFINE m == [kind |-> "refusal", cmd |-> Head(decoder).cmd]
    <3>1. Head(decoder) \in Frame
      BY <2>2 DEF RefuseCommand, IoThreadOK
    <3>2. m \in Msg
      BY <2>2, <3>1, MessageFields DEF RefuseCommand, Refused
    <3>3. Deliver(m) \/ UNCHANGED toPeer
      BY <2>2 DEF RefuseCommand
    <3>4. acc \in Conns
      BY <2>0, <2>2 DEF RefuseCommand, Serving
    <3> QED
      BY <1>1, <3>2, <3>3, <3>4, DeliverFresh DEF Isolated
  <2>3. CASE WriteResponse
    <3>1. Head(outbound) \in Msg /\ acc \in Conns
      BY <2>0, <2>3, MessageFields DEF WriteResponse, ChannelsOK, Serving
    <3>2. Head(outbound).epoch = acc
      BY <2>3 DEF WriteResponse, ChannelsOK, Isolated, ChannelsAreFresh
    <3>3. Deliver(Head(outbound)) \/ UNCHANGED toPeer
      BY <2>3 DEF WriteResponse
    <3> QED
      BY <1>1, <3>1, <3>2, <3>3, DeliverFresh DEF Isolated
  <2>4. CASE WriteEvent
    <3>1. Head(events) \in Msg /\ acc \in Conns
      BY <2>0, <2>4, MessageFields DEF WriteEvent, ChannelsOK, Serving
    <3>2. Head(events).epoch = acc
      BY <2>4 DEF WriteEvent, ChannelsOK, Isolated, ChannelsAreFresh
    <3>3. Deliver(Head(events)) \/ UNCHANGED toPeer
      BY <2>4 DEF WriteEvent
    <3> QED
      BY <1>1, <3>1, <3>2, <3>3, DeliverFresh DEF Isolated
  <2>5. CASE UNCHANGED toPeer
    BY <1>1, <2>5
  <2> QED
    BY <1>3, <2>1, <2>2, <2>3, <2>4, <2>5 DEF IoThread, Accept, HelloFails, DropStaleResponses,
       DropStaleEvents, ReadChunk, ReadNothing, ReadEof, ServeStop, QueueCommand, IgnoreFrame,
       DecodeDone, ResponsesDone, EventsDone, IdlePass, EndServe, LeaveAcceptLoop, wireVars
<1> QED
  BY <1>1, <1>2, <1>3, WiresFrame DEF Next, vars, wireVars

\* A step leaves nothing stale in a channel past its drain.
LEMMA NextFresh ==
  ASSUME TypeOK, Isolated, [Next]_vars
  PROVE  ChannelsAreFresh'
<1> USE DEF TypeOK, Isolated, ChannelsAreFresh
<1>1. CASE UNCHANGED <<iopc, acc, outbound, events>>
  BY <1>1
<1>2. CASE IoThread
  <2> USE DEF GoTo
  <2>1. CASE Accept \/ WriteHello \/ HelloFails \/ EndServe \/ LeaveAcceptLoop
    BY <2>1 DEF Accept, WriteHello, HelloFails, EndServe, LeaveAcceptLoop
  <2>2. CASE DropStaleResponses
    BY <2>2 DEF DropStaleResponses
  <2>3. CASE DropStaleEvents
    BY <2>3 DEF DropStaleEvents
  <2>4. CASE ReadChunk \/ ReadNothing \/ ReadEof \/ ServeStop
    BY <2>4 DEF ReadChunk, ReadNothing, ReadEof, ServeStop
  <2>5. CASE QueueCommand \/ RefuseCommand \/ IgnoreFrame \/ DecodeDone
    BY <2>5 DEF QueueCommand, RefuseCommand, IgnoreFrame, DecodeDone
  <2>6. CASE WriteResponse
    <3>1. outbound \in Seq(Response) /\ outbound # <<>> /\ outbound' = Tail(outbound)
      BY <2>6 DEF WriteResponse, ChannelsOK
    <3>2. Len(outbound') = Len(outbound) - 1
          /\ \A i \in 1..Len(outbound') : outbound'[i] = outbound[i + 1] /\ i + 1 \in 1..Len(outbound)
      BY <3>1
    <3>3. UNCHANGED <<acc, events>> /\ iopc = "responses" /\ iopc' \in {"responses", "ended"}
      BY <2>6 DEF WriteResponse
    <3> QED
      BY <3>2, <3>3
  <2>7. CASE WriteEvent
    <3>1. events \in Seq(Event) /\ events # <<>> /\ events' = Tail(events)
      BY <2>7 DEF WriteEvent, ChannelsOK
    <3>2. Len(events') = Len(events) - 1
          /\ \A i \in 1..Len(events') : events'[i] = events[i + 1] /\ i + 1 \in 1..Len(events)
      BY <3>1
    <3>3. UNCHANGED <<acc, outbound>> /\ iopc = "events" /\ iopc' \in {"events", "ended"}
      BY <2>7 DEF WriteEvent
    <3> QED
      BY <3>2, <3>3
  <2>8. CASE ResponsesDone \/ EventsDone \/ IdlePass
    BY <2>8 DEF ResponsesDone, EventsDone, IdlePass
  <2> QED
    BY <1>2, <2>1, <2>2, <2>3, <2>4, <2>5, <2>6, <2>7, <2>8 DEF IoThread
<1>3. CASE MainThread
  <2>1. UNCHANGED <<iopc, acc>>
    BY <1>3, WiresFrame DEF ioVars
  <2>2. ASSUME NEW k, outbound' = Append(outbound, [kind |-> "response", cmd |-> k, epoch |-> acc]),
               UNCHANGED events
        PROVE  ChannelsAreFresh'
    <3>1. outbound \in Seq(Response)
      BY DEF ChannelsOK
    <3>2. \A i \in 1..Len(outbound') : outbound'[i].epoch = IF i \in 1..Len(outbound) THEN outbound[i].epoch ELSE acc
      BY <2>2, <3>1
    <3> QED
      BY <2>1, <2>2, <3>2
  <2>3. CASE PollPending
    <3>1. UNCHANGED events /\ (Settle(Head(polling).cmd, inFlight) \/ UNCHANGED outbound)
      BY <2>3 DEF PollPending
    <3> QED
      BY <1>1, <2>1, <2>2, <3>1 DEF Settle
  <2>4. CASE Execute
    <3>1. UNCHANGED events /\ (Settle(Head(inbound), [inFlight EXCEPT ![Head(inbound).id] = Head(inbound)])
                              \/ UNCHANGED outbound)
      BY <2>4 DEF Execute
    <3> QED
      BY <1>1, <2>1, <2>2, <3>1 DEF Settle
  <2>5. CASE RaiseEvent
    <3>1. PICK k \in emitted \cup {NoCmd} :
            events' = Append(events, [kind |-> "event", cmd |-> k, epoch |-> acc])
      BY <2>5 DEF RaiseEvent
    <3>2. events \in Seq(Event) /\ UNCHANGED outbound
      BY <2>5 DEF ChannelsOK, RaiseEvent
    <3>3. \A i \in 1..Len(events') : events'[i].epoch = IF i \in 1..Len(events) THEN events[i].epoch ELSE acc
      BY <3>1, <3>2
    <3> QED
      BY <2>1, <3>2, <3>3
  <2>6. CASE UNCHANGED <<outbound, events>>
    BY <1>1, <2>1, <2>6
  <2> QED
    BY <1>3, <2>3, <2>4, <2>5, <2>6 DEF MainThread, StartFrame, PollDone, EndFrame,
       StopListener, MarkInactive
<1>4. ASSUME NEW c \in Conns, Broker(c) PROVE UNCHANGED <<iopc, acc, outbound, events>>
  BY <1>4, BridgeFrame DEF ioVars
<1> QED
  BY <1>1, <1>2, <1>3, <1>4 DEF Next, vars, ioVars

\* No broker ever reads a response or an event that was produced before its
\* own connection became the current one, however many brokers came before and
\* whatever they left in the channels.
THEOREM ConnectionsAreIsolated == Spec => []NothingStaleIsDelivered
<1>1. Init => Isolated
  BY InitIsolated
<1>2. TypeOK /\ Isolated /\ [Next]_vars => Isolated'
  BY NextDelivered, NextFresh DEF Isolated
<1>3. Isolated => NothingStaleIsDelivered
  BY DEF Isolated
<1> QED
  BY <1>1, <1>2, <1>3, TypeInvariant, PTL DEF Spec

----------------------------------------------------------------------------
(* The inactive link is final. *)

\* A step keeps the order flag, exit of the IO thread, inactive status.
LEMMA NextStopOrder ==
  ASSUME StatusOK, StopOrder, InactiveAfterStop, [Next]_vars
  PROVE  StopOrder' /\ InactiveAfterStop'
<1> USE DEF StopOrder, InactiveAfterStop
<1>1. CASE UNCHANGED <<iopc, stop, mainpc, status>>
  BY <1>1
<1>2. CASE IoThread
  <2>0. iopc # "exited" /\ mainpc # "stopped" /\ UNCHANGED <<mainpc, stop>>
    BY <1>2 DEF IoThread, mainVars, Accept, WriteHello, HelloFails, DropStaleResponses,
       DropStaleEvents, ReadChunk, ReadNothing, ReadEof, ServeStop, QueueCommand,
       RefuseCommand, IgnoreFrame, DecodeDone, WriteResponse, ResponsesDone, WriteEvent,
       EventsDone, IdlePass, EndServe, LeaveAcceptLoop
  <2>1. iopc' = "exited" => stop
    BY <1>2, <2>0 DEF IoThread, GoTo, Accept, WriteHello, HelloFails, DropStaleResponses,
       DropStaleEvents, ReadChunk, ReadNothing, ReadEof, ServeStop, QueueCommand,
       RefuseCommand, IgnoreFrame, DecodeDone, WriteResponse, ResponsesDone, WriteEvent,
       EventsDone, IdlePass, EndServe, LeaveAcceptLoop
  <2> QED
    BY <2>0, <2>1
<1>3. CASE MainThread
  <2>1. CASE StopListener
    BY <2>1 DEF StopListener, ioVars
  <2>2. CASE MarkInactive
    <3>1. mainpc = "joining" /\ iopc = "exited" /\ mainpc' = "stopped" /\ UNCHANGED <<iopc, stop>>
      BY <2>2 DEF MarkInactive, Joined, ioVars
    <3>2. mainpc' = "stopped" => status'.state = "inactive"
      BY <2>2 DEF MarkInactive, StatusOK
    <3> QED
      BY <3>1, <3>2
  <2>3. CASE StartFrame \/ PollPending \/ PollDone \/ Execute \/ EndFrame \/ RaiseEvent
    BY <2>3 DEF StartFrame, PollPending, PollDone, Execute, EndFrame, RaiseEvent, ioVars
  <2> QED
    BY <1>3, <2>1, <2>2, <2>3 DEF MainThread
<1>4. ASSUME NEW c \in Conns, Broker(c) PROVE UNCHANGED <<iopc, stop, mainpc, status>>
  BY <1>4, BridgeFrame DEF ioVars, mainVars
<1> QED
  BY <1>1, <1>2, <1>3, <1>4 DEF Next, vars, ioVars, mainVars

\* Once BridgeCore::stop has returned the panel reads an inactive link for
\* ever: the join orders every store of the IO thread before the last one.
THEOREM InactiveIsFinal == Spec => []InactiveAfterStop
<1>1. Init => StopOrder /\ InactiveAfterStop
  BY DEF Init, StopOrder, InactiveAfterStop
<1>2. TypeOK /\ StopOrder /\ InactiveAfterStop /\ [Next]_vars => StopOrder' /\ InactiveAfterStop'
  BY NextStopOrder DEF TypeOK
<1> QED
  BY <1>1, <1>2, TypeInvariant, PTL DEF Spec


----------------------------------------------------------------------------
(* Counting positions of a sequence. *)

\* The positions of a sequence that hold a member of K, and how many.
At(s, K) == {i \in DOMAIN s : s[i] \in K}
Count(s, K) == Cardinality(At(s, K))

\* A sequence has finitely many positions.
LEMMA CountType ==
  ASSUME NEW S, NEW s \in Seq(S), NEW K
  PROVE  IsFiniteSet(At(s, K)) /\ Count(s, K) \in Nat
<1>1. IsFiniteSet(1..Len(s)) /\ At(s, K) \in SUBSET (1..Len(s))
  BY FS_Interval DEF At
<1> QED
  BY <1>1, FS_Subset, FS_CardinalityType DEF Count

\* An empty sequence has none.
LEMMA CountEmpty == ASSUME NEW K PROVE Count(<<>>, K) = 0
<1>1. At(<<>>, K) = {}
  BY DEF At
<1> QED
  BY <1>1, FS_EmptySet DEF Count

\* A sequence of one element.
LEMMA CountOne ==
  ASSUME NEW S, NEW e \in S, NEW K
  PROVE  Count(<<e>>, K) = IF e \in K THEN 1 ELSE 0
<1>1. At(<<e>>, K) = IF e \in K THEN {1} ELSE {}
  BY DEF At
<1> QED
  BY <1>1, FS_EmptySet, FS_Singleton DEF Count

\* The count of a concatenation is the sum of the counts.
LEMMA CountConcat ==
  ASSUME NEW S, NEW s \in Seq(S), NEW t \in Seq(S), NEW K
  PROVE  Count(s \o t, K) = Count(s, K) + Count(t, K)
<1> DEFINE n == Len(s)
           Shifted == {n + i : i \in At(t, K)}
           f == [i \in At(t, K) |-> n + i]
<1>1. IsFiniteSet(At(s, K)) /\ IsFiniteSet(At(t, K))
  BY CountType
<1>2. n \in Nat /\ At(s, K) \subseteq 1..n /\ At(t, K) \subseteq Nat \ {0}
  BY DEF At
<1>3. ExistsBijection(At(t, K), Shifted)
  <2>1. f \in [At(t, K) -> Shifted]
    OBVIOUS
  <2>2. f \in Injection(At(t, K), Shifted)
    BY <1>2, <2>1 DEF Injection, IsInjective
  <2>3. f \in Surjection(At(t, K), Shifted)
    BY <2>1 DEF Surjection
  <2> QED
    BY <2>2, <2>3 DEF ExistsBijection, Bijection
<1>4. IsFiniteSet(Shifted) /\ Cardinality(Shifted) = Cardinality(At(t, K))
  BY <1>1, <1>3, FS_Bijection
<1>5. At(s \o t, K) = At(s, K) \cup Shifted
  <2>1. \A i \in 1..n : (s \o t)[i] = s[i]
    OBVIOUS
  <2>2. \A i \in 1..Len(t) : (s \o t)[n + i] = t[i]
    OBVIOUS
  <2>3. DOMAIN (s \o t) = 1..(n + Len(t)) /\ DOMAIN s = 1..n /\ DOMAIN t = 1..Len(t)
    OBVIOUS
  <2>4. ASSUME NEW j \in At(s \o t, K) PROVE j \in At(s, K) \cup Shifted
    <3>1. CASE j \in 1..n
      BY <2>1, <2>3, <2>4, <3>1 DEF At
    <3>2. CASE j \notin 1..n
      <4>1. j - n \in 1..Len(t) /\ j = n + (j - n)
        BY <2>3, <2>4, <3>2 DEF At
      <4> QED
        BY <2>2, <2>3, <2>4, <4>1 DEF At
    <3> QED
      BY <3>1, <3>2
  <2>5. ASSUME NEW j \in At(s, K) \cup Shifted PROVE j \in At(s \o t, K)
    BY <2>1, <2>2, <2>3 DEF At
  <2> QED
    BY <2>4, <2>5
<1>6. At(s, K) \cap Shifted = {}
  BY <1>2
<1>7. Cardinality(At(s, K)) \in Nat /\ Cardinality(At(t, K)) \in Nat
  BY CountType DEF Count
<1>8. Cardinality(At(s, K) \cup Shifted)
        = Cardinality(At(s, K)) + Cardinality(Shifted) - Cardinality(At(s, K) \cap Shifted)
  BY <1>1, <1>4, FS_Union
<1>9. Cardinality(At(s, K) \cap Shifted) = 0
  BY <1>6, FS_EmptySet
<1> QED
  BY <1>4, <1>5, <1>7, <1>8, <1>9 DEF Count

\* Appending an element of K adds one.
LEMMA CountAppend ==
  ASSUME NEW S, NEW s \in Seq(S), NEW e \in S, NEW K
  PROVE  Count(Append(s, e), K) = Count(s, K) + (IF e \in K THEN 1 ELSE 0)
<1>1. Append(s, e) = s \o <<e>> /\ <<e>> \in Seq(S)
  OBVIOUS
<1>2. Count(s \o <<e>>, K) = Count(s, K) + Count(<<e>>, K)
  BY <1>1, CountConcat
<1>3. Count(<<e>>, K) = IF e \in K THEN 1 ELSE 0
  BY CountOne
<1> QED
  BY <1>1, <1>2, <1>3

\* Removing the head takes one away when the head was in K.
LEMMA CountTail ==
  ASSUME NEW S, NEW s \in Seq(S), s # <<>>, NEW K
  PROVE  Count(s, K) = Count(Tail(s), K) + (IF Head(s) \in K THEN 1 ELSE 0)
<1>1. Head(s) \in S /\ Tail(s) \in Seq(S) /\ s = <<Head(s)>> \o Tail(s) /\ <<Head(s)>> \in Seq(S)
  OBVIOUS
<1>2. Count(Tail(s), K) \in Nat
  BY <1>1, CountType
<1>3. Count(<<Head(s)>> \o Tail(s), K) = Count(<<Head(s)>>, K) + Count(Tail(s), K)
  BY <1>1, CountConcat
<1>4. Count(<<Head(s)>>, K) = IF Head(s) \in K THEN 1 ELSE 0
  BY <1>1, CountOne
<1>5. Count(s, K) = Count(<<Head(s)>> \o Tail(s), K)
  BY <1>1
<1> QED
  BY <1>2, <1>3, <1>4, <1>5

\* Cutting a sequence in two divides the count.
LEMMA CountSplit ==
  ASSUME NEW S, NEW s \in Seq(S), NEW n \in 0..Len(s), NEW K
  PROVE  Count(s, K) = Count(SubSeq(s, 1, n), K) + Count(SubSeq(s, n + 1, Len(s)), K)
<1>1. SubSeq(s, 1, n) \in Seq(S) /\ SubSeq(s, n + 1, Len(s)) \in Seq(S)
  OBVIOUS
<1> DEFINE u == SubSeq(s, 1, n)
           v == SubSeq(s, n + 1, Len(s))
<1>2. s = u \o v
  <2>0. 1 \in 1..(Len(s) + 1) /\ n \in (1 - 1)..Len(s) /\ Len(s) \in n..Len(s)
    OBVIOUS
  <2>1. SubSeq(s, 1, Len(s)) = SubSeq(s, 1, n) \o SubSeq(s, n + 1, Len(s))
    BY <2>0, ConcatAdjacentSubSeq
  <2>2. SubSeq(s, 1, Len(s)) = s
    BY SubSeqFull
  <2> QED
    BY <2>1, <2>2
<1>3. Count(u \o v, K) = Count(u, K) + Count(v, K)
  BY <1>1, CountConcat
<1> QED
  BY <1>2, <1>3

\* A sequence with no member of K.
LEMMA CountNone ==
  ASSUME NEW S, NEW s \in Seq(S), NEW K, \A i \in DOMAIN s : s[i] \notin K
  PROVE  Count(s, K) = 0
<1>1. At(s, K) = {}
  BY DEF At
<1> QED
  BY <1>1, FS_EmptySet DEF Count

\* A sequence with one.
LEMMA CountSome ==
  ASSUME NEW S, NEW s \in Seq(S), NEW K, NEW i \in DOMAIN s, s[i] \in K
  PROVE  Count(s, K) >= 1
<1>1. At(s, K) # {} /\ IsFiniteSet(At(s, K)) /\ Count(s, K) \in Nat
  BY CountType DEF At
<1> QED
  BY <1>1, FS_EmptySet DEF Count

----------------------------------------------------------------------------
(* Where the copies of a request are. *)

About(S, k) == {e \in S : e.cmd = k}
AnswerTo(k) == {m \in Msg : m.kind \in {"response", "refusal"} /\ m.cmd = k}

OnWire(k)  == Count(toBridge[k.conn], About(Frame, k))
Decoded(k) == Count(decoder, About(Frame, k))
Queued(k)  == Count(inbound, {k})
Taken(k)   == Count(polling, About(Op, k))
Waiting(k) == Count(pending, About(Op, k))
Settled(k) == Count(outbound, About(Response, k))
Written(k) == Count(toPeer[k.conn], AnswerTo(k))
Seen(k)    == IF k \in got[k.conn] THEN 1 ELSE 0

Everywhere(k) == OnWire(k) + Decoded(k) + Queued(k) + Taken(k) + Waiting(k) + Settled(k)
                 + Written(k) + Seen(k)
Numbers(k) == /\ OnWire(k) \in Nat /\ Decoded(k) \in Nat /\ Queued(k) \in Nat
              /\ Taken(k) \in Nat /\ Waiting(k) \in Nat /\ Settled(k) \in Nat
              /\ Written(k) \in Nat /\ Seen(k) \in {0, 1}

\* Copies adds the eight counts up.
LEMMA CopiesAreCounts == TypeOK => \A k \in Cmd : Copies(k) = Everywhere(k) /\ Numbers(k)
<1> SUFFICES ASSUME TypeOK, NEW k \in Cmd PROVE Copies(k) = Everywhere(k) /\ Numbers(k)
  OBVIOUS
<1> USE DEF TypeOK
<1>0. k.conn \in Conns
  BY DEF Cmd
<1>1. toBridge[k.conn] \in Seq(Frame) /\ toPeer[k.conn] \in Seq(Msg)
  BY <1>0 DEF WiresOK
<1>2. decoder \in Seq(Frame) /\ inbound \in Seq(Cmd) /\ outbound \in Seq(Response)
      /\ polling \in Seq(Op) /\ pending \in Seq(Op)
  BY DEF IoThreadOK, ChannelsOK, DispatcherOK
<1>3. ASSUME NEW S, NEW s \in Seq(S)
      PROVE  Cardinality(In(s, k)) = Count(s, About(S, k))
  <2>1. In(s, k) = At(s, About(S, k))
    BY <1>3 DEF In, At, About
  <2> QED
    BY <2>1 DEF Count
<1>4. Cardinality(Answers(toPeer[k.conn], k)) = Written(k)
  <2>1. Answers(toPeer[k.conn], k) = At(toPeer[k.conn], AnswerTo(k))
    BY <1>1 DEF Answers, At, AnswerTo
  <2> QED
    BY <2>1 DEF Count, Written
<1>5. Cardinality({i \in DOMAIN inbound : inbound[i] = k}) = Queued(k)
  <2>1. {i \in DOMAIN inbound : inbound[i] = k} = At(inbound, {k})
    BY DEF At
  <2> QED
    BY <2>1 DEF Count, Queued
<1>6. /\ Cardinality(In(toBridge[k.conn], k)) = OnWire(k)
      /\ Cardinality(In(decoder, k)) = Decoded(k)
      /\ Cardinality(In(polling, k)) = Taken(k)
      /\ Cardinality(In(pending, k)) = Waiting(k)
      /\ Cardinality(In(outbound, k)) = Settled(k)
  BY <1>1, <1>2, <1>3 DEF OnWire, Decoded, Taken, Waiting, Settled
<1>7. Copies(k) = Everywhere(k)
  BY <1>4, <1>5, <1>6, Zenon DEF Copies, Everywhere, Seen
<1>8. Numbers(k)
  BY <1>1, <1>2, CountType DEF Numbers, OnWire, Decoded, Queued, Taken, Waiting, Settled,
     Written, Seen
<1> QED
  BY <1>7, <1>8

\* The same of the next state.
LEMMA CopiesAreCountsNext == (TypeOK => \A k \in Cmd : Copies(k) = Everywhere(k) /\ Numbers(k))'
  BY CopiesAreCounts, PTL

----------------------------------------------------------------------------
(* The invariant that carries the counts from one step to the next. *)

\* The connection is the current one or still to come, and has not ended.
Live(k) == /\ peer[k.conn] \in {"open", "ready", "wedged"}
           /\ ~Over(k.conn)
           /\ ~(iopc = "ended" /\ acc = k.conn)

\* A broker writes requests of its own connection; so do the frames read.
OwnFrames ==
  /\ \A c \in Conns : \A i \in DOMAIN toBridge[c] :
       toBridge[c][i].form # "unreadable" => toBridge[c][i].cmd.conn = c
  /\ \A i \in DOMAIN decoder : decoder[i].form # "unreadable" => decoder[i].cmd.conn = acc

\* Nothing waits in the decoder while the socket is read, nor for a poll
\* outside the poll phase: what those two steps overwrite is empty.
Emptied ==
  /\ iopc \notin {"decode", "ended"} => decoder = <<>>
  /\ mainpc # "poll" => polling = <<>>

\* A broker that has not connected has sent nothing.
Unconnected == \A c \in Conns : peer[c] = "absent" => nextId[c] = 1

\* A request is nowhere before it is sent.
Unsent == \A k \in Cmd : k.id >= nextId[k.conn] => Copies(k) = 0

\* Nothing of a connection is inside the bridge before it is read from.
Inside(k) == Decoded(k) + Queued(k) + Taken(k) + Waiting(k) + Settled(k)
Unserved ==
  \A k \in Cmd :
    \/ k.conn > acc
    \/ k.conn = acc /\ iopc \in {"hello", "dropResponses", "dropEvents"}
    => Inside(k) = 0

Accounted == /\ OwnFrames /\ Emptied /\ Unconnected /\ Unsent /\ Unserved
             /\ AnsweredAtMostOnce /\ NoRequestLost

\* A step makes no copy of a request, loses none of a live connection's, and
\* brings in none but by reading its own connection.
Kept(k) == /\ Copies(k)' <= Copies(k)
           /\ Live(k) /\ Live(k)' => Copies(k)' = Copies(k)
           /\ iopc # "read" \/ acc # k.conn => Inside(k)' <= Inside(k)

\* A step that touches none of the places keeps the request.
LEMMA UntouchedKept ==
  ASSUME TypeOK, NEW k \in Cmd,
         UNCHANGED <<toBridge, toPeer, got, decoder, inbound, polling, pending, outbound>>
  PROVE  Kept(k)
<1>1. Copies(k)' = Copies(k)
  BY DEF Copies
<1>2. Copies(k) \in Nat /\ Inside(k) \in Nat
  BY CopiesAreCounts DEF Everywhere, Inside, Numbers
<1>3. Inside(k)' = Inside(k)
  BY DEF Inside, Decoded, Queued, Taken, Waiting, Settled
<1> QED
  BY <1>1, <1>2, <1>3 DEF Kept

\* What delivering a message adds to the answers of a request.
LEMMA DeliverCount ==
  ASSUME TypeOK, NEW k \in Cmd, NEW m \in Msg, acc \in Conns, Deliver(m)
  PROVE  Written(k)' = Written(k) + (IF acc = k.conn /\ m \in AnswerTo(k) THEN 1 ELSE 0)
<1>1. k.conn \in Conns
  BY DEF Cmd
<1>2. toPeer[k.conn] \in Seq(Msg) /\ toPeer[acc] \in Seq(Msg)
  BY <1>1 DEF TypeOK, WiresOK
<1>3. Written(k)' = Count(toPeer'[k.conn], AnswerTo(k))
  BY DEF Written, AnswerTo
<1>4. Written(k) \in Nat
  BY <1>2, CountType DEF Written
<1>5. CASE acc = k.conn
  <2>1. toPeer'[k.conn] = Append(toPeer[k.conn], m)
    BY <1>1, <1>5 DEF Deliver, TypeOK, WiresOK
  <2>2. Count(Append(toPeer[k.conn], m), AnswerTo(k))
          = Count(toPeer[k.conn], AnswerTo(k)) + (IF m \in AnswerTo(k) THEN 1 ELSE 0)
    BY <1>2, CountAppend
  <2> QED
    BY <1>3, <1>5, <2>1, <2>2 DEF Written
<1>6. CASE acc # k.conn
  <2>1. toPeer'[k.conn] = toPeer[k.conn]
    BY <1>1, <1>6 DEF Deliver, TypeOK, WiresOK
  <2> QED
    BY <1>3, <1>4, <1>6, <2>1 DEF Written
<1> QED
  BY <1>5, <1>6

\* The request's own connection exists.
LEMMA CmdFields == \A k \in Cmd : k.conn \in Conns /\ k.id \in Ids
  BY DEF Cmd

\* A broker that reads, or closes, keeps the requests.
LEMMA ReadFrameKept ==
  ASSUME TypeOK, TypeOK', Accounted, NEW k \in Cmd, NEW c \in Conns, ReadFrame(c)
  PROVE  Kept(k)
<1> DEFINE m == Head(toPeer[c])
<1>0. k.conn \in Conns /\ Copies(k) <= 1
  BY CmdFields DEF Accounted, AnsweredAtMostOnce
<1>1. UNCHANGED <<toBridge, decoder, inbound, polling, pending, outbound>>
  BY DEF ReadFrame, ioVars, mainVars
<1>2. /\ OnWire(k)' = OnWire(k) /\ Decoded(k)' = Decoded(k) /\ Queued(k)' = Queued(k)
      /\ Taken(k)' = Taken(k) /\ Waiting(k)' = Waiting(k) /\ Settled(k)' = Settled(k)
  BY <1>1 DEF OnWire, Decoded, Queued, Taken, Waiting, Settled
<1>3. Numbers(k) /\ Copies(k) = Everywhere(k) /\ Copies(k)' = Everywhere(k)' /\ Numbers(k)'
  BY CopiesAreCounts, CopiesAreCountsNext
<1>4. CASE c # k.conn
  <2>1. toPeer'[k.conn] = toPeer[k.conn] /\ got'[k.conn] = got[k.conn]
    BY <1>0, <1>4 DEF ReadFrame, TypeOK, WiresOK, BrokersOK
  <2>2. Written(k)' = Written(k) /\ Seen(k)' = Seen(k)
    BY <2>1 DEF Written, Seen, AnswerTo
  <2> QED
    BY <1>2, <1>3, <2>2 DEF Kept, Inside, Everywhere, Numbers
<1>5. CASE c = k.conn
  <2>1. toPeer[c] \in Seq(Msg) /\ toPeer[c] # <<>> /\ toPeer'[c] = Tail(toPeer[c])
    BY <1>0, <1>5 DEF ReadFrame, TypeOK, WiresOK
  <2>2. Count(toPeer[c], AnswerTo(k)) = Count(Tail(toPeer[c]), AnswerTo(k))
                                        + (IF m \in AnswerTo(k) THEN 1 ELSE 0)
    BY <2>1, CountTail
  <2>3. Written(k) = Written(k)' + (IF m \in AnswerTo(k) THEN 1 ELSE 0)
    BY <1>5, <2>1, <2>2 DEF Written, AnswerTo
  <2>4. m \in Msg
    BY <2>1
  <2>5. k \in got'[c] <=> k \in got[c] \/ m \in AnswerTo(k)
    BY <2>4 DEF ReadFrame, TypeOK, BrokersOK, AnswerTo
  <2>6. Seen(k)' = IF m \in AnswerTo(k) THEN 1 ELSE Seen(k)
    BY <1>5, <2>5 DEF Seen
  <2>7. m \in AnswerTo(k) => Seen(k) = 0
    BY <1>0, <1>3, <2>3 DEF Everywhere, Numbers
  <2> QED
    BY <1>2, <1>3, <2>3, <2>6, <2>7 DEF Kept, Inside, Everywhere, Numbers
<1> QED
  BY <1>4, <1>5

\* A broker that closes loses what it has not read, and is live no more.
LEMMA CloseBrokerKept ==
  ASSUME TypeOK, TypeOK', NEW k \in Cmd, NEW c \in Conns, CloseBroker(c)
  PROVE  Kept(k)
<1>0. k.conn \in Conns
  BY CmdFields
<1>1. UNCHANGED <<toBridge, got, decoder, inbound, polling, pending, outbound>>
  BY DEF CloseBroker, ioVars, mainVars
<1>2. /\ OnWire(k)' = OnWire(k) /\ Decoded(k)' = Decoded(k) /\ Queued(k)' = Queued(k)
      /\ Taken(k)' = Taken(k) /\ Waiting(k)' = Waiting(k) /\ Settled(k)' = Settled(k)
      /\ Seen(k)' = Seen(k)
  BY <1>1 DEF OnWire, Decoded, Queued, Taken, Waiting, Settled, Seen
<1>3. Numbers(k) /\ Copies(k) = Everywhere(k) /\ Copies(k)' = Everywhere(k)' /\ Numbers(k)'
  BY CopiesAreCounts, CopiesAreCountsNext
<1>4. CASE c # k.conn
  <2>1. toPeer'[k.conn] = toPeer[k.conn]
    BY <1>0, <1>4 DEF CloseBroker, TypeOK, WiresOK
  <2>2. Written(k)' = Written(k)
    BY <2>1 DEF Written, AnswerTo
  <2> QED
    BY <1>2, <1>3, <2>2 DEF Kept, Inside, Everywhere, Numbers
<1>5. CASE c = k.conn
  <2>1. toPeer'[k.conn] = <<>> /\ peer'[k.conn] = "closed"
    BY <1>0, <1>5 DEF CloseBroker, TypeOK, WiresOK, BrokersOK
  <2>2. Written(k)' = 0
    BY <2>1, CountEmpty DEF Written, AnswerTo
  <2>3. ~Live(k)'
    BY <2>1 DEF Live
  <2> QED
    BY <1>2, <1>3, <2>2, <2>3 DEF Kept, Inside, Everywhere, Numbers
<1> QED
  BY <1>4, <1>5

\* The request the broker of connection c would send next.
Fresh(k, c) == k.conn = c /\ k.id = nextId[c]

\* Sending a request makes its first copy and no other.
LEMMA SendRequestKept ==
  ASSUME TypeOK, TypeOK', Accounted, NEW k \in Cmd, NEW c \in Conns, SendRequest(c)
  PROVE  IF Fresh(k, c) THEN Copies(k) = 0 /\ Copies(k)' = 1 ELSE Kept(k)
<1>0. k.conn \in Conns /\ nextId[c] \in Int
  BY CmdFields DEF TypeOK, BrokersOK
<1>1. UNCHANGED <<toPeer, got, decoder, inbound, polling, pending, outbound>>
  BY DEF SendRequest, ioVars, mainVars
<1>2. /\ Written(k)' = Written(k) /\ Decoded(k)' = Decoded(k) /\ Queued(k)' = Queued(k)
      /\ Taken(k)' = Taken(k) /\ Waiting(k)' = Waiting(k) /\ Settled(k)' = Settled(k)
      /\ Seen(k)' = Seen(k)
  BY <1>1 DEF Written, AnswerTo, Decoded, Queued, Taken, Waiting, Settled, Seen
<1>3. Numbers(k) /\ Copies(k) = Everywhere(k) /\ Copies(k)' = Everywhere(k)' /\ Numbers(k)'
  BY CopiesAreCounts, CopiesAreCountsNext
<1>4. PICK f \in Forms \ {"unreadable"} :
        toBridge' = [toBridge EXCEPT ![c] = Append(@, [cmd |-> [conn |-> c, id |-> nextId[c]], form |-> f])]
  BY DEF SendRequest
<1> DEFINE e == [cmd |-> [conn |-> c, id |-> nextId[c]], form |-> f]
<1>5. toBridge \in [Conns -> Seq(Frame)]
  BY DEF TypeOK, WiresOK
<1>6. CASE c # k.conn
  <2>1. toBridge'[k.conn] = toBridge[k.conn]
    BY <1>0, <1>4, <1>5, <1>6
  <2>2. OnWire(k)' = OnWire(k)
    BY <2>1 DEF OnWire
  <2> QED
    BY <1>2, <1>3, <1>6, <2>2 DEF Kept, Inside, Everywhere, Numbers, Fresh
<1>7. CASE c = k.conn
  <2>1. [conn |-> c, id |-> nextId[c]] \in Cmd /\ f \in {"command", "malformed"}
    BY DEF SendRequest, TypeOK, BrokersOK, Cmd, Ids
  <2>2. e \in Frame /\ toBridge'[k.conn] = Append(toBridge[k.conn], e)
    BY <1>0, <1>4, <1>5, <1>7, <2>1 DEF Frame
  <2>3. Count(Append(toBridge[k.conn], e), About(Frame, k))
          = Count(toBridge[k.conn], About(Frame, k)) + (IF e \in About(Frame, k) THEN 1 ELSE 0)
    BY <1>0, <1>5, <2>2, CountAppend
  <2>4. e \in About(Frame, k) <=> Fresh(k, c)
    BY <1>7, <2>2 DEF About, Fresh, Cmd
  <2>5. OnWire(k)' = OnWire(k) + (IF Fresh(k, c) THEN 1 ELSE 0)
    BY <2>2, <2>3, <2>4 DEF OnWire
  <2>6. Fresh(k, c) => Copies(k) = 0
    BY <1>0 DEF Fresh, Accounted, Unsent
  <2> QED
    BY <1>2, <1>3, <2>5, <2>6 DEF Kept, Inside, Everywhere, Numbers
<1> QED
  BY <1>6, <1>7

\* A frame without an id is no request's.
LEMMA SendUnreadableKept ==
  ASSUME TypeOK, TypeOK', NEW k \in Cmd, NEW c \in Conns, SendUnreadable(c)
  PROVE  Kept(k)
<1>0. k.conn \in Conns
  BY CmdFields
<1>1. UNCHANGED <<toPeer, got, decoder, inbound, polling, pending, outbound>>
  BY DEF SendUnreadable, ioVars, mainVars, peerVars
<1>2. /\ Written(k)' = Written(k) /\ Decoded(k)' = Decoded(k) /\ Queued(k)' = Queued(k)
      /\ Taken(k)' = Taken(k) /\ Waiting(k)' = Waiting(k) /\ Settled(k)' = Settled(k)
      /\ Seen(k)' = Seen(k)
  BY <1>1 DEF Written, AnswerTo, Decoded, Queued, Taken, Waiting, Settled, Seen
<1>3. Numbers(k) /\ Copies(k) = Everywhere(k) /\ Copies(k)' = Everywhere(k)' /\ Numbers(k)'
  BY CopiesAreCounts, CopiesAreCountsNext
<1> DEFINE e == [cmd |-> NoCmd, form |-> "unreadable"]
<1>4. e \in Frame /\ e \notin About(Frame, k)
  BY DEF Frame, About, NoCmd, Cmd, Conns
<1>5. Count(<<>>, About(Frame, k)) = 0 /\ Count(<<e>>, About(Frame, k)) = 0
  BY <1>4, CountEmpty, CountOne
<1>6. toBridge'[k.conn] = toBridge[k.conn] \/ (toBridge[k.conn] = <<>> /\ toBridge'[k.conn] = <<e>>)
  BY <1>0 DEF SendUnreadable, TypeOK, WiresOK
<1>7. OnWire(k)' = OnWire(k)
  BY <1>5, <1>6 DEF OnWire
<1> QED
  BY <1>2, <1>3, <1>7 DEF Kept, Inside, Everywhere, Numbers

----------------------------------------------------------------------------
(* The IO thread. *)

\* The decoded frames are the only ones to leave the wire.
LEMMA ReadChunkKept ==
  ASSUME TypeOK, TypeOK', Accounted, NEW k \in Cmd, ReadChunk
  PROVE  Kept(k)
<1>0. k.conn \in Conns /\ acc \in Conns /\ decoder = <<>>
  BY CmdFields DEF ReadChunk, TypeOK, IoThreadOK, Serving, Accounted, Emptied
<1>1. UNCHANGED <<toPeer, got, inbound, polling, pending, outbound>>
  BY DEF ReadChunk, mainVars, peerVars
<1>2. /\ Written(k)' = Written(k) /\ Queued(k)' = Queued(k)
      /\ Taken(k)' = Taken(k) /\ Waiting(k)' = Waiting(k) /\ Settled(k)' = Settled(k)
      /\ Seen(k)' = Seen(k)
  BY <1>1 DEF Written, AnswerTo, Queued, Taken, Waiting, Settled, Seen
<1>3. Numbers(k) /\ Copies(k) = Everywhere(k) /\ Copies(k)' = Everywhere(k)' /\ Numbers(k)'
  BY CopiesAreCounts, CopiesAreCountsNext
<1>4. Decoded(k) = 0
  BY <1>0, CountEmpty DEF Decoded
<1>5. toBridge \in [Conns -> Seq(Frame)]
  BY DEF TypeOK, WiresOK
<1>6. PICK n \in 1..Len(toBridge[acc]) :
        /\ decoder' = SubSeq(toBridge[acc], 1, n)
        /\ toBridge' = [toBridge EXCEPT ![acc] = SubSeq(@, n + 1, Len(@))]
  BY DEF ReadChunk
<1>9. iopc = "read"
  BY DEF ReadChunk
<1>7. CASE acc = k.conn
  <2>1. n \in 0..Len(toBridge[acc]) /\ toBridge[acc] \in Seq(Frame)
    BY <1>0, <1>5
  <2>2. Count(toBridge[acc], About(Frame, k))
          = Count(SubSeq(toBridge[acc], 1, n), About(Frame, k))
            + Count(SubSeq(toBridge[acc], n + 1, Len(toBridge[acc])), About(Frame, k))
    BY <2>1, CountSplit
  <2>3. toBridge'[k.conn] = SubSeq(toBridge[acc], n + 1, Len(toBridge[acc]))
    BY <1>0, <1>5, <1>6, <1>7
  <2>4. OnWire(k) = Decoded(k)' + OnWire(k)'
    BY <1>6, <1>7, <2>2, <2>3 DEF OnWire, Decoded
  <2> QED
    BY <1>2, <1>3, <1>4, <1>7, <1>9, <2>4 DEF Kept, Inside, Everywhere, Numbers
<1>8. CASE acc # k.conn
  <2>1. toBridge'[k.conn] = toBridge[k.conn]
    BY <1>0, <1>5, <1>6, <1>8
  <2>2. decoder' \in Seq(Frame)
    BY DEF TypeOK, IoThreadOK
  <2>3. \A i \in DOMAIN decoder' : decoder'[i] \notin About(Frame, k)
    <3>1. toBridge[acc] \in Seq(Frame)
      BY <1>0, <1>5
    <3>2. \A i \in DOMAIN toBridge[acc] : toBridge[acc][i] \notin About(Frame, k)
      BY <1>0, <1>8, <3>1 DEF Accounted, OwnFrames, About, Frame, NoCmd, Cmd, Conns
    <3>3. \A i \in DOMAIN decoder' : i \in DOMAIN toBridge[acc] /\ decoder'[i] = toBridge[acc][i]
      BY <1>6, <3>1
    <3> QED
      BY <3>2, <3>3
  <2>4. Decoded(k)' = 0
    BY <2>2, <2>3, CountNone DEF Decoded
  <2>5. OnWire(k)' = OnWire(k)
    BY <2>1 DEF OnWire
  <2> QED
    BY <1>2, <1>3, <1>4, <2>4, <2>5 DEF Kept, Inside, Everywhere, Numbers
<1> QED
  BY <1>7, <1>8

\* What removing the first frame does.
LEMMA DecoderCount ==
  ASSUME TypeOK, NEW k \in Cmd, decoder # <<>>, decoder' = Tail(decoder)
  PROVE  /\ Decoded(k) = Decoded(k)' + (IF Head(decoder).cmd = k THEN 1 ELSE 0)
         /\ Head(decoder) \in Frame
<1>1. decoder \in Seq(Frame)
  BY DEF TypeOK, IoThreadOK
<1>2. Head(decoder) \in Frame
  BY <1>1
<1>3. Count(decoder, About(Frame, k)) = Count(Tail(decoder), About(Frame, k))
        + (IF Head(decoder) \in About(Frame, k) THEN 1 ELSE 0)
  BY <1>1, CountTail
<1> QED
  BY <1>2, <1>3 DEF Decoded, About

\* A queued command has left the decoder.
LEMMA QueueCommandKept ==
  ASSUME TypeOK, TypeOK', NEW k \in Cmd, QueueCommand
  PROVE  Kept(k)
<1>1. UNCHANGED <<toBridge, toPeer, got, polling, pending, outbound>>
  BY DEF QueueCommand, mainVars, peerVars, wireVars
<1>2. /\ OnWire(k)' = OnWire(k) /\ Written(k)' = Written(k)
      /\ Taken(k)' = Taken(k) /\ Waiting(k)' = Waiting(k) /\ Settled(k)' = Settled(k)
      /\ Seen(k)' = Seen(k)
  BY <1>1 DEF Written, AnswerTo, OnWire, Taken, Waiting, Settled, Seen
<1>3. Numbers(k) /\ Copies(k) = Everywhere(k) /\ Copies(k)' = Everywhere(k)' /\ Numbers(k)'
  BY CopiesAreCounts, CopiesAreCountsNext
<1>4. /\ Decoded(k) = Decoded(k)' + (IF Head(decoder).cmd = k THEN 1 ELSE 0)
      /\ Head(decoder).cmd \in Cmd
  BY DecoderCount, MessageFields DEF QueueCommand
<1>5. Count(Append(inbound, Head(decoder).cmd), {k})
        = Count(inbound, {k}) + (IF Head(decoder).cmd \in {k} THEN 1 ELSE 0)
  BY <1>4, CountAppend DEF TypeOK, ChannelsOK
<1>6. Queued(k)' = Queued(k) + (IF Head(decoder).cmd = k THEN 1 ELSE 0)
  BY <1>5 DEF Queued, QueueCommand
<1> QED
  BY <1>2, <1>3, <1>4, <1>6 DEF Kept, Inside, Everywhere, Numbers

\* A refused command has left the decoder; its refusal goes to its own broker.
LEMMA RefuseCommandKept ==
  ASSUME TypeOK, TypeOK', Accounted, NEW k \in Cmd, RefuseCommand
  PROVE  Kept(k)
<1> DEFINE f == Head(decoder)
           m == [kind |-> "refusal", cmd |-> f.cmd]
<1>0. acc \in Conns /\ decoder \in Seq(Frame) /\ decoder # <<>> /\ decoder' = Tail(decoder)
  BY DEF RefuseCommand, TypeOK, IoThreadOK, Serving
<1>1. UNCHANGED <<toBridge, got, inbound, polling, pending, outbound>>
  BY DEF RefuseCommand, mainVars, peerVars
<1>2. /\ OnWire(k)' = OnWire(k) /\ Queued(k)' = Queued(k)
      /\ Taken(k)' = Taken(k) /\ Waiting(k)' = Waiting(k) /\ Settled(k)' = Settled(k)
      /\ Seen(k)' = Seen(k)
  BY <1>1 DEF Queued, OnWire, Taken, Waiting, Settled, Seen
<1>3. Numbers(k) /\ Copies(k) = Everywhere(k) /\ Copies(k)' = Everywhere(k)' /\ Numbers(k)'
  BY CopiesAreCounts, CopiesAreCountsNext
<1>4. Decoded(k) = Decoded(k)' + (IF f.cmd = k THEN 1 ELSE 0) /\ f \in Frame
  BY <1>0, DecoderCount
<1>5. f.form # "unreadable" /\ f.cmd \in Cmd /\ m \in Msg
  BY <1>4, MessageFields DEF RefuseCommand, Refused
<1>6. f.cmd.conn = acc
  <2>1. 1 \in DOMAIN decoder /\ f = decoder[1]
    BY <1>0
  <2> QED
    BY <1>5, <2>1 DEF Accounted, OwnFrames
<1>7. m \in AnswerTo(k) <=> f.cmd = k
  BY <1>5 DEF AnswerTo
<1>8. CASE Deliver(m)
  <2>1. Written(k)' = Written(k) + (IF acc = k.conn /\ m \in AnswerTo(k) THEN 1 ELSE 0)
    BY <1>0, <1>5, <1>8, DeliverCount
  <2> QED
    BY <1>2, <1>3, <1>4, <1>6, <1>7, <2>1 DEF Kept, Inside, Everywhere, Numbers
<1>9. CASE GoTo("ended") /\ UNCHANGED toPeer
  <2>1. Written(k)' = Written(k) /\ UNCHANGED acc
    BY <1>9 DEF Written, AnswerTo, RefuseCommand
  <2>2. f.cmd = k => ~Live(k)'
    BY <1>6, <1>9, <2>1 DEF Live, GoTo
  <2> QED
    BY <1>2, <1>3, <1>4, <2>1, <2>2 DEF Kept, Inside, Everywhere, Numbers
<1> QED
  BY <1>8, <1>9 DEF RefuseCommand

\* A frame without an id is no request's.
LEMMA IgnoreFrameKept ==
  ASSUME TypeOK, TypeOK', NEW k \in Cmd, IgnoreFrame
  PROVE  Kept(k)
<1>1. UNCHANGED <<toBridge, toPeer, got, inbound, polling, pending, outbound>>
  BY DEF IgnoreFrame, mainVars, peerVars, wireVars
<1>2. /\ OnWire(k)' = OnWire(k) /\ Queued(k)' = Queued(k) /\ Written(k)' = Written(k)
      /\ Taken(k)' = Taken(k) /\ Waiting(k)' = Waiting(k) /\ Settled(k)' = Settled(k)
      /\ Seen(k)' = Seen(k)
  BY <1>1 DEF Queued, OnWire, Taken, Waiting, Settled, Seen, Written, AnswerTo
<1>3. Numbers(k) /\ Copies(k) = Everywhere(k) /\ Copies(k)' = Everywhere(k)' /\ Numbers(k)'
  BY CopiesAreCounts, CopiesAreCountsNext
<1>4. Decoded(k) = Decoded(k)' + (IF Head(decoder).cmd = k THEN 1 ELSE 0) /\ Head(decoder) \in Frame
  BY DecoderCount DEF IgnoreFrame
<1>5. Head(decoder).cmd # k
  BY <1>4 DEF IgnoreFrame, Frame, NoCmd, Cmd, Conns
<1> QED
  BY <1>2, <1>3, <1>4, <1>5 DEF Kept, Inside, Everywhere, Numbers

\* What is nowhere inside is not among the responses.
LEMMA NothingInside ==
  ASSUME TypeOK, NEW k \in Cmd, Inside(k) = 0
  PROVE  Settled(k) = 0
<1>1. /\ Decoded(k) \in Nat /\ Queued(k) \in Nat /\ Taken(k) \in Nat /\ Waiting(k) \in Nat
      /\ Settled(k) \in Nat
  BY CopiesAreCounts DEF Numbers
<1> QED
  BY <1>1 DEF Inside

\* What removing the first response does.
LEMMA WriteResponseKept ==
  ASSUME TypeOK, TypeOK', Accounted, NEW k \in Cmd, WriteResponse
  PROVE  Kept(k)
<1> DEFINE m == Head(outbound)
<1>0. acc \in Conns /\ outbound \in Seq(Response) /\ outbound # <<>> /\ outbound' = Tail(outbound)
  BY DEF WriteResponse, TypeOK, IoThreadOK, ChannelsOK, Serving
<1>1. UNCHANGED <<toBridge, got, decoder, inbound, polling, pending>>
  BY DEF WriteResponse, mainVars, peerVars
<1>2. /\ OnWire(k)' = OnWire(k) /\ Decoded(k)' = Decoded(k) /\ Queued(k)' = Queued(k)
      /\ Taken(k)' = Taken(k) /\ Waiting(k)' = Waiting(k) /\ Seen(k)' = Seen(k)
  BY <1>1 DEF OnWire, Decoded, Queued, Taken, Waiting, Seen
<1>3. Numbers(k) /\ Copies(k) = Everywhere(k) /\ Copies(k)' = Everywhere(k)' /\ Numbers(k)'
  BY CopiesAreCounts, CopiesAreCountsNext
<1>4. m \in Response /\ m \in Msg
  BY <1>0, MessageFields
<1>5. Count(outbound, About(Response, k)) = Count(Tail(outbound), About(Response, k))
        + (IF m \in About(Response, k) THEN 1 ELSE 0)
  BY <1>0, CountTail
<1>6. (m \in About(Response, k) <=> m.cmd = k) /\ (m \in AnswerTo(k) <=> m.cmd = k)
  BY <1>4 DEF About, AnswerTo, Response
<1>7. Settled(k) = Settled(k)' + (IF m.cmd = k THEN 1 ELSE 0)
  BY <1>0, <1>5, <1>6 DEF Settled
<1>8. CASE Deliver(m) /\ UNCHANGED iopc
  <2>1. Written(k)' = Written(k) + (IF acc = k.conn /\ m.cmd = k THEN 1 ELSE 0)
    BY <1>0, <1>4, <1>6, <1>8, DeliverCount
  <2>2. m.cmd = k /\ Live(k) => acc = k.conn
    <3>1. SUFFICES ASSUME m.cmd = k, Live(k), acc # k.conn PROVE FALSE
      OBVIOUS
    <3>2. k.conn > acc
      BY <1>0, <3>1, CmdFields DEF Live, Over, Conns
    <3>3. Inside(k) = 0
      BY <3>2 DEF Accounted, Unserved
    <3>4. Settled(k) = 0 /\ Settled(k)' \in Nat
      BY <1>3, <3>3, NothingInside DEF Numbers
    <3> QED
      BY <1>7, <3>1, <3>3, <3>4
  <2> QED
    BY <1>2, <1>3, <1>7, <2>1, <2>2 DEF Kept, Inside, Everywhere, Numbers
<1>9. CASE GoTo("ended") /\ UNCHANGED toPeer
  <2>1. Written(k)' = Written(k) /\ UNCHANGED acc /\ iopc = "responses"
    BY <1>9 DEF Written, AnswerTo, WriteResponse
  <2>2. m.cmd = k /\ Live(k) => acc = k.conn
    <3>1. SUFFICES ASSUME m.cmd = k, Live(k), acc # k.conn PROVE FALSE
      OBVIOUS
    <3>2. k.conn > acc
      BY <1>0, <3>1, CmdFields DEF Live, Over, Conns
    <3>3. Inside(k) = 0
      BY <3>2 DEF Accounted, Unserved
    <3>4. Settled(k) = 0 /\ Settled(k)' \in Nat
      BY <1>3, <3>3, NothingInside DEF Numbers
    <3> QED
      BY <1>7, <3>1, <3>3, <3>4
  <2>3. m.cmd = k /\ Live(k) => ~Live(k)'
    BY <1>9, <2>1, <2>2 DEF Live, GoTo
  <2> QED
    BY <1>2, <1>3, <1>7, <2>1, <2>3 DEF Kept, Inside, Everywhere, Numbers
<1> QED
  BY <1>8, <1>9 DEF WriteResponse

\* The drain on connect discards no answer of the connection it serves.
LEMMA DropStaleResponsesKept ==
  ASSUME TypeOK, TypeOK', Accounted, NEW k \in Cmd, DropStaleResponses
  PROVE  Kept(k)
<1>0. acc \in Conns /\ outbound' = <<>> /\ iopc = "dropResponses"
  BY DEF DropStaleResponses, TypeOK, IoThreadOK, Serving
<1>1. UNCHANGED <<toBridge, toPeer, got, decoder, inbound, polling, pending>>
  BY DEF DropStaleResponses, mainVars, peerVars, wireVars
<1>2. /\ OnWire(k)' = OnWire(k) /\ Decoded(k)' = Decoded(k) /\ Queued(k)' = Queued(k)
      /\ Taken(k)' = Taken(k) /\ Waiting(k)' = Waiting(k) /\ Seen(k)' = Seen(k)
      /\ Written(k)' = Written(k)
  BY <1>1 DEF OnWire, Decoded, Queued, Taken, Waiting, Seen, Written, AnswerTo
<1>3. Numbers(k) /\ Copies(k) = Everywhere(k) /\ Copies(k)' = Everywhere(k)' /\ Numbers(k)'
  BY CopiesAreCounts, CopiesAreCountsNext
<1>4. Settled(k)' = 0
  BY <1>0, CountEmpty DEF Settled
<1>5. ASSUME Live(k) PROVE Settled(k) = 0
  <2>1. k.conn >= acc
    BY <1>0, <1>5, CmdFields DEF Live, Over, Conns
  <2>2. Inside(k) = 0
    BY <1>0, <2>1, CmdFields DEF Accounted, Unserved, Conns
  <2> QED
    BY <2>2, NothingInside
<1> QED
  BY <1>2, <1>3, <1>4, <1>5 DEF Kept, Inside, Everywhere, Numbers

\* The end of a connection discards what only that connection holds.
LEMMA EndServeKept ==
  ASSUME TypeOK, TypeOK', Accounted, NEW k \in Cmd, EndServe
  PROVE  Kept(k)
<1>0. acc \in Conns /\ k.conn \in Conns /\ toBridge \in [Conns -> Seq(Frame)]
  BY CmdFields DEF EndServe, TypeOK, IoThreadOK, WiresOK, Serving
<1>1. UNCHANGED <<toPeer, got, inbound, polling, pending, outbound>>
  BY DEF EndServe, mainVars, peerVars
<1>2. /\ Settled(k)' = Settled(k) /\ Queued(k)' = Queued(k)
      /\ Taken(k)' = Taken(k) /\ Waiting(k)' = Waiting(k) /\ Seen(k)' = Seen(k)
      /\ Written(k)' = Written(k)
  BY <1>1 DEF Queued, Taken, Waiting, Seen, Written, AnswerTo, Settled
<1>3. Numbers(k) /\ Copies(k) = Everywhere(k) /\ Copies(k)' = Everywhere(k)' /\ Numbers(k)'
  BY CopiesAreCounts, CopiesAreCountsNext
<1>4. Decoded(k)' = 0
  BY CountEmpty DEF Decoded, EndServe
<1>5. CASE acc = k.conn
  <2>1. toBridge'[k.conn] = <<>>
    BY <1>0, <1>5 DEF EndServe
  <2>2. OnWire(k)' = 0
    BY <2>1, CountEmpty DEF OnWire
  <2>3. ~Live(k)
    BY <1>5 DEF EndServe, Live
  <2> QED
    BY <1>2, <1>3, <1>4, <2>2, <2>3 DEF Kept, Inside, Everywhere, Numbers
<1>6. CASE acc # k.conn
  <2>1. toBridge'[k.conn] = toBridge[k.conn]
    BY <1>0, <1>6 DEF EndServe
  <2>2. OnWire(k)' = OnWire(k)
    BY <2>1 DEF OnWire
  <2>3. Decoded(k) = 0
    <3>1. decoder \in Seq(Frame)
      BY DEF TypeOK, IoThreadOK
    <3>2. \A i \in DOMAIN decoder : decoder[i] \notin About(Frame, k)
      BY <1>6, <3>1 DEF Accounted, OwnFrames, About, Frame, NoCmd, Cmd, Conns
    <3> QED
      BY <3>1, <3>2, CountNone DEF Decoded
  <2> QED
    BY <1>2, <1>3, <1>4, <2>2, <2>3 DEF Kept, Inside, Everywhere, Numbers
<1> QED
  BY <1>5, <1>6

----------------------------------------------------------------------------
(* The main thread. *)

\* What queueing the response of a call adds.
LEMMA SettleCount ==
  ASSUME TypeOK, NEW k \in Cmd, NEW cmd \in Cmd, NEW open, Settle(cmd, open)
  PROVE  Settled(k)' = Settled(k) + (IF cmd = k THEN 1 ELSE 0)
<1> DEFINE m == [kind |-> "response", cmd |-> cmd, epoch |-> acc]
<1>1. m \in Response /\ outbound \in Seq(Response) /\ outbound' = Append(outbound, m)
  BY DEF Response, TypeOK, IoThreadOK, ChannelsOK, Settle
<1>2. m \in About(Response, k) <=> cmd = k
  BY <1>1 DEF About
<1>3. Count(Append(outbound, m), About(Response, k))
        = Count(outbound, About(Response, k)) + (IF m \in About(Response, k) THEN 1 ELSE 0)
  BY <1>1, CountAppend
<1> QED
  BY <1>1, <1>2, <1>3 DEF Settled

\* What suspending an operation adds.
LEMMA SuspendCount ==
  ASSUME TypeOK, NEW k \in Cmd, NEW op \in Op, pending' = Append(pending, op)
  PROVE  Waiting(k)' = Waiting(k) + (IF op.cmd = k THEN 1 ELSE 0)
<1>1. Count(Append(pending, op), About(Op, k))
        = Count(pending, About(Op, k)) + (IF op \in About(Op, k) THEN 1 ELSE 0)
  BY CountAppend DEF TypeOK, DispatcherOK
<1> QED
  BY <1>1 DEF Waiting, About

\* The pending set moves to the poll, which was over.
LEMMA StartFrameKept ==
  ASSUME TypeOK, TypeOK', Accounted, NEW k \in Cmd, StartFrame
  PROVE  Kept(k)
<1>1. UNCHANGED <<toBridge, toPeer, got, decoder, inbound, outbound>>
  BY DEF StartFrame, ioVars, peerVars, wireVars
<1>2. /\ Settled(k)' = Settled(k) /\ Queued(k)' = Queued(k)
      /\ OnWire(k)' = OnWire(k) /\ Decoded(k)' = Decoded(k) /\ Seen(k)' = Seen(k)
      /\ Written(k)' = Written(k)
  BY <1>1 DEF Queued, OnWire, Decoded, Seen, Written, AnswerTo, Settled
<1>3. Numbers(k) /\ Copies(k) = Everywhere(k) /\ Copies(k)' = Everywhere(k)' /\ Numbers(k)'
  BY CopiesAreCounts, CopiesAreCountsNext
<1>4. polling = <<>> /\ polling' = pending /\ pending' = <<>>
  BY DEF StartFrame, Accounted, Emptied
<1>5. Taken(k) = 0 /\ Taken(k)' = Waiting(k) /\ Waiting(k)' = 0
  BY <1>4, CountEmpty DEF Taken, Waiting
<1> QED
  BY <1>2, <1>3, <1>5 DEF Kept, Inside, Everywhere, Numbers

\* A polled operation is answered or suspended again.
LEMMA PollPendingKept ==
  ASSUME TypeOK, TypeOK', NEW k \in Cmd, PollPending
  PROVE  Kept(k)
<1> DEFINE op == Head(polling)
           one == IF op.cmd = k THEN 1 ELSE 0
<1>0. polling \in Seq(Op) /\ polling # <<>> /\ polling' = Tail(polling) /\ op \in Op /\ op.cmd \in Cmd
  <2>1. polling \in Seq(Op) /\ polling # <<>> /\ polling' = Tail(polling)
    BY DEF PollPending, TypeOK, DispatcherOK
  <2>2. op \in Op
    BY <2>1
  <2> QED
    BY <2>1, <2>2 DEF Op
<1>1. UNCHANGED <<toBridge, toPeer, got, decoder, inbound>>
  BY DEF PollPending, ioVars, peerVars, wireVars
<1>2. /\ Queued(k)' = Queued(k) /\ Written(k)' = Written(k)
      /\ OnWire(k)' = OnWire(k) /\ Decoded(k)' = Decoded(k) /\ Seen(k)' = Seen(k)
  BY <1>1 DEF Queued, OnWire, Decoded, Seen, Written, AnswerTo
<1>3. Numbers(k) /\ Copies(k) = Everywhere(k) /\ Copies(k)' = Everywhere(k)' /\ Numbers(k)'
  BY CopiesAreCounts, CopiesAreCountsNext
<1>4. Taken(k) = Taken(k)' + one
  <2>1. Count(polling, About(Op, k)) = Count(Tail(polling), About(Op, k))
          + (IF op \in About(Op, k) THEN 1 ELSE 0)
    BY <1>0, CountTail
  <2> QED
    BY <1>0, <2>1 DEF Taken, About
<1>5. CASE Settle(op.cmd, inFlight) /\ UNCHANGED pending
  <2>1. Settled(k)' = Settled(k) + one
    BY <1>0, <1>5, SettleCount
  <2>2. Waiting(k)' = Waiting(k)
    BY <1>5 DEF Waiting
  <2> QED
    BY <1>2, <1>3, <1>4, <2>1, <2>2 DEF Kept, Inside, Everywhere, Numbers
<1>6. CASE op.left > 1 /\ pending' = Append(pending, Polled(op)) /\ UNCHANGED outbound
  <2>1. op.left \in 1..MaxWait /\ op.left - 1 \in 1..MaxWait
    BY <1>0, <1>6 DEF Op
  <2>2. Polled(op) \in Op /\ Polled(op).cmd = op.cmd
    BY <1>0, <2>1 DEF Op, Polled
  <2>3. Waiting(k)' = Waiting(k) + one
    BY <1>6, <2>2, SuspendCount
  <2>4. Settled(k)' = Settled(k)
    BY <1>6 DEF Settled
  <2> QED
    BY <1>2, <1>3, <1>4, <2>3, <2>4 DEF Kept, Inside, Everywhere, Numbers
<1> QED
  BY <1>5, <1>6 DEF PollPending

\* An executed command has left the channel, and is answered or suspended.
LEMMA ExecuteKept ==
  ASSUME TypeOK, TypeOK', NEW k \in Cmd, Execute
  PROVE  Kept(k)
<1> DEFINE cmd == Head(inbound)
           one == IF cmd = k THEN 1 ELSE 0
<1>0. inbound \in Seq(Cmd) /\ inbound # <<>> /\ inbound' = Tail(inbound) /\ cmd \in Cmd
  BY DEF Execute, TypeOK, ChannelsOK
<1>1. UNCHANGED <<toBridge, toPeer, got, decoder, polling>>
  BY DEF Execute, ioVars, peerVars, wireVars
<1>2. /\ Taken(k)' = Taken(k) /\ Written(k)' = Written(k)
      /\ OnWire(k)' = OnWire(k) /\ Decoded(k)' = Decoded(k) /\ Seen(k)' = Seen(k)
  BY <1>1 DEF Taken, OnWire, Decoded, Seen, Written, AnswerTo
<1>3. Numbers(k) /\ Copies(k) = Everywhere(k) /\ Copies(k)' = Everywhere(k)' /\ Numbers(k)'
  BY CopiesAreCounts, CopiesAreCountsNext
<1>4. Queued(k) = Queued(k)' + one
  <2>1. Count(inbound, {k}) = Count(Tail(inbound), {k}) + (IF cmd \in {k} THEN 1 ELSE 0)
    BY <1>0, CountTail
  <2> QED
    BY <1>0, <2>1 DEF Queued
<1>5. CASE Settle(cmd, [inFlight EXCEPT ![cmd.id] = cmd]) /\ UNCHANGED pending
  <2>1. Settled(k)' = Settled(k) + one
    BY <1>0, <1>5, SettleCount
  <2>2. Waiting(k)' = Waiting(k)
    BY <1>5 DEF Waiting
  <2> QED
    BY <1>2, <1>3, <1>4, <2>1, <2>2 DEF Kept, Inside, Everywhere, Numbers
<1>6. ASSUME NEW n \in 1..MaxWait, pending' = Append(pending, [cmd |-> cmd, left |-> n]),
             UNCHANGED outbound
      PROVE  Kept(k)
  <2>1. [cmd |-> cmd, left |-> n] \in Op
    BY <1>0 DEF Op
  <2>2. Waiting(k)' = Waiting(k) + one
    BY <1>6, <2>1, SuspendCount
  <2>3. Settled(k)' = Settled(k)
    BY <1>6 DEF Settled
  <2> QED
    BY <1>2, <1>3, <1>4, <2>2, <2>3 DEF Kept, Inside, Everywhere, Numbers
<1> QED
  BY <1>5, <1>6 DEF Execute

\* A message that answers nothing adds no copy.
LEMMA WrittenOnlyKept ==
  ASSUME TypeOK, TypeOK', NEW k \in Cmd, Written(k)' = Written(k),
         UNCHANGED <<toBridge, got, decoder, inbound, polling, pending, outbound>>
  PROVE  Kept(k)
<1>1. /\ OnWire(k)' = OnWire(k) /\ Decoded(k)' = Decoded(k) /\ Queued(k)' = Queued(k)
      /\ Taken(k)' = Taken(k) /\ Waiting(k)' = Waiting(k) /\ Settled(k)' = Settled(k)
      /\ Seen(k)' = Seen(k)
  BY DEF OnWire, Decoded, Queued, Taken, Waiting, Settled, Seen
<1>2. Numbers(k) /\ Copies(k) = Everywhere(k) /\ Copies(k)' = Everywhere(k)' /\ Numbers(k)'
  BY CopiesAreCounts, CopiesAreCountsNext
<1> QED
  BY <1>1, <1>2 DEF Kept, Inside, Everywhere, Numbers

\* Every step but the one that sends a request keeps it.
LEMMA StepKept ==
  ASSUME TypeOK, TypeOK', Accounted, NEW k \in Cmd, [Next]_vars,
         \A c \in Conns : SendRequest(c) => ~Fresh(k, c)
  PROVE  Kept(k)
<1> DEFINE Places == <<toBridge, toPeer, got, decoder, inbound, polling, pending, outbound>>
<1>1. ASSUME NEW c \in Conns, Broker(c) PROVE Kept(k)
  <2>1. CASE ConnectBroker(c) \/ WedgeBroker(c)
    <3>1. UNCHANGED Places
      BY <2>1 DEF ConnectBroker, WedgeBroker, wireVars, ioVars, mainVars
    <3> QED
      BY <3>1, UntouchedKept
  <2> QED
    BY <1>1, <2>1, SendRequestKept, SendUnreadableKept, ReadFrameKept, CloseBrokerKept DEF Broker
<1>2. CASE IoThread
  <2>1. CASE UNCHANGED Places
    BY <2>1, UntouchedKept
  <2>2. CASE Accept
    <3>1. UNCHANGED Places
      BY <2>2 DEF Accept, peerVars, wireVars, mainVars, Accounted, Emptied
    <3> QED
      BY <3>1, UntouchedKept
  <2>3. CASE WriteHello
    <3>1. acc \in Conns /\ HelloMsg \notin AnswerTo(k) /\ Deliver(HelloMsg)
      BY <2>3 DEF WriteHello, TypeOK, IoThreadOK, Serving, AnswerTo, HelloMsg
    <3>2. Written(k)' = Written(k)
      BY <3>1, DeliverCount, MessageFields, CopiesAreCounts DEF Numbers
    <3>3. UNCHANGED <<toBridge, got, decoder, inbound, polling, pending, outbound>>
      BY <2>3 DEF WriteHello, peerVars, mainVars
    <3> QED
      BY <3>2, <3>3, WrittenOnlyKept
  <2>4. CASE WriteEvent
    <3>1. acc \in Conns /\ Head(events) \in Event
      BY <2>4 DEF WriteEvent, TypeOK, IoThreadOK, ChannelsOK, Serving
    <3>2. Head(events) \in Msg /\ Head(events) \notin AnswerTo(k)
      BY <3>1, MessageFields DEF Event, AnswerTo
    <3>3. Deliver(Head(events)) \/ UNCHANGED toPeer
      BY <2>4 DEF WriteEvent
    <3>4. Written(k)' = Written(k)
      <4>1. CASE Deliver(Head(events))
        BY <3>1, <3>2, <4>1, DeliverCount, CopiesAreCounts DEF Numbers
      <4>2. CASE UNCHANGED toPeer
        BY <4>2 DEF Written, AnswerTo
      <4> QED
        BY <3>3, <4>1, <4>2
    <3>5. UNCHANGED <<toBridge, got, decoder, inbound, polling, pending, outbound>>
      BY <2>4 DEF WriteEvent, peerVars, mainVars
    <3> QED
      BY <3>4, <3>5, WrittenOnlyKept
  <2>5. CASE DropStaleEvents \/ HelloFails \/ ReadNothing \/ ReadEof \/ ServeStop \/ DecodeDone
             \/ ResponsesDone \/ EventsDone \/ IdlePass \/ LeaveAcceptLoop
    <3>1. UNCHANGED Places
      BY <2>5 DEF DropStaleEvents, HelloFails, ReadNothing, ReadEof, ServeStop, DecodeDone,
         ResponsesDone, EventsDone, IdlePass, LeaveAcceptLoop, peerVars, wireVars, mainVars
    <3> QED
      BY <3>1, UntouchedKept
  <2> QED
    BY <1>2, <2>2, <2>3, <2>4, <2>5, ReadChunkKept, QueueCommandKept, RefuseCommandKept,
       IgnoreFrameKept, WriteResponseKept, DropStaleResponsesKept, EndServeKept DEF IoThread
<1>3. CASE MainThread
  <2>1. CASE PollDone \/ EndFrame \/ RaiseEvent \/ StopListener \/ MarkInactive
    <3>1. UNCHANGED Places
      BY <2>1 DEF PollDone, EndFrame, RaiseEvent, StopListener, MarkInactive, peerVars, wireVars, ioVars
    <3> QED
      BY <3>1, UntouchedKept
  <2> QED
    BY <1>3, <2>1, StartFrameKept, PollPendingKept, ExecuteKept DEF MainThread
<1>4. CASE UNCHANGED vars
  BY <1>4, UntouchedKept DEF vars, peerVars, wireVars, ioVars, mainVars
<1> QED
  BY <1>1, <1>2, <1>3, <1>4 DEF Next

\* No request exists at the start.
LEMMA InitAccounted == Init => Accounted
<1> SUFFICES ASSUME Init PROVE Accounted
  OBVIOUS
<1>1. OwnFrames /\ Emptied /\ Unconnected
  BY DEF Init, OwnFrames, Emptied, Unconnected
<1>2. ASSUME NEW k \in Cmd PROVE Copies(k) = 0 /\ Inside(k) = 0
  <2>1. k.conn \in Conns
    BY CmdFields
  <2>2. /\ OnWire(k) = 0 /\ Decoded(k) = 0 /\ Queued(k) = 0 /\ Taken(k) = 0 /\ Waiting(k) = 0
        /\ Settled(k) = 0 /\ Written(k) = 0 /\ Seen(k) = 0
    BY <2>1, CountEmpty DEF Init, OnWire, Decoded, Queued, Taken, Waiting, Settled, Written, Seen
  <2> QED
    BY <2>2, InitType, CopiesAreCounts DEF Everywhere, Inside
<1>3. Unsent /\ Unserved /\ AnsweredAtMostOnce
  BY <1>2 DEF Unsent, Unserved, AnsweredAtMostOnce
<1>4. NoRequestLost
  BY CmdFields DEF Init, NoRequestLost, Ids
<1> QED
  BY <1>1, <1>3, <1>4 DEF Accounted

\* What each connection may have sent, before and after a step.
LEMMA NextIdStep ==
  ASSUME TypeOK, [Next]_vars, NEW c \in Conns
  PROVE  nextId'[c] = IF SendRequest(c) THEN nextId[c] + 1 ELSE nextId[c]
<1>1. nextId \in [Conns -> 1..(MaxIds + 1)]
  BY DEF TypeOK, BrokersOK
<1>2. CASE UNCHANGED nextId
  <2>1. ~SendRequest(c)
    BY <1>1, <1>2 DEF SendRequest
  <2> QED
    BY <1>2, <2>1
<1>3. ASSUME NEW d \in Conns, SendRequest(d) PROVE nextId' = [nextId EXCEPT ![d] = @ + 1]
  BY <1>3 DEF SendRequest
<1>4. ASSUME NEW d \in Conns, Broker(d), ~SendRequest(d) PROVE UNCHANGED nextId
  BY <1>4 DEF Broker, ConnectBroker, SendUnreadable, ReadFrame, WedgeBroker, CloseBroker, peerVars
<1>5. CASE \E d \in Conns : SendRequest(d)
  <2>1. PICK d \in Conns : SendRequest(d)
    BY <1>5
  <2>2. nextId'[c] = IF c = d THEN nextId[c] + 1 ELSE nextId[c]
    BY <1>1, <1>3, <2>1
  <2>3. SendRequest(c) => c = d
    <3>1. SUFFICES ASSUME SendRequest(c), c # d PROVE FALSE
      OBVIOUS
    <3>2. nextId'[c] = nextId[c] + 1
      BY <1>1, <1>3, <3>1
    <3> QED
      BY <1>1, <2>2, <3>1, <3>2
  <2> QED
    BY <2>1, <2>2, <2>3
<1> QED
  BY <1>2, <1>4, <1>5, BrokersFrame DEF Next, vars, peerVars

\* The frames on a wire and in the decoder stay those of its connection.
LEMMA NextOwnFrames ==
  ASSUME TypeOK, OwnFrames, [Next]_vars
  PROVE  OwnFrames'
<1> DEFINE Own(s, c) == \A i \in DOMAIN s : s[i].form # "unreadable" => s[i].cmd.conn = c
<1>1. ASSUME NEW s \in Seq(Frame), NEW c, Own(s, c), s # <<>> PROVE Own(Tail(s), c)
  BY <1>1
<1>2. ASSUME NEW s \in Seq(Frame), NEW c, Own(s, c), NEW n \in 1..Len(s)
      PROVE  Own(SubSeq(s, 1, n), c) /\ Own(SubSeq(s, n + 1, Len(s)), c)
  BY <1>2
<1>3. ASSUME NEW s \in Seq(Frame), NEW c, Own(s, c), NEW e \in Frame,
             e.form # "unreadable" => e.cmd.conn = c
      PROVE  Own(Append(s, e), c)
  BY <1>3
<1>4. Own(<<>>, acc) /\ \A c \in Conns : Own(<<>>, c)
  OBVIOUS
<1>5. toBridge \in [Conns -> Seq(Frame)] /\ decoder \in Seq(Frame)
  BY DEF TypeOK, WiresOK, IoThreadOK
<1>6. (\A c \in Conns : Own(toBridge[c], c)) /\ Own(decoder, acc)
  BY DEF OwnFrames
<1>7. SUFFICES (\A c \in Conns : Own(toBridge'[c], c)) /\ Own(decoder', acc')
  BY DEF OwnFrames
<1>8. CASE UNCHANGED <<toBridge, decoder, acc>>
  BY <1>6, <1>8
<1>9. ASSUME NEW d \in Conns, Broker(d) PROVE (\A c \in Conns : Own(toBridge'[c], c)) /\ Own(decoder', acc')
  <2>1. UNCHANGED <<decoder, acc>>
    BY <1>9, BridgeFrame DEF ioVars
  <2>2. CASE SendRequest(d)
    <3>1. PICK f \in Forms \ {"unreadable"} :
            toBridge' = [toBridge EXCEPT ![d] = Append(@, [cmd |-> [conn |-> d, id |-> nextId[d]], form |-> f])]
      BY <2>2 DEF SendRequest
    <3> DEFINE e == [cmd |-> [conn |-> d, id |-> nextId[d]], form |-> f]
    <3>2. e \in Frame /\ e.cmd.conn = d
      BY <2>2, <3>1 DEF SendRequest, TypeOK, BrokersOK, Cmd, Ids, Frame
    <3>3. Own(Append(toBridge[d], e), d)
      BY <1>3, <1>5, <1>6, <3>2
    <3> QED
      BY <1>5, <1>6, <2>1, <3>1, <3>3
  <2>3. CASE SendUnreadable(d)
    <3>1. toBridge' = [toBridge EXCEPT ![d] = <<[cmd |-> NoCmd, form |-> "unreadable"]>>]
      BY <2>3 DEF SendUnreadable
    <3> QED
      BY <1>5, <1>6, <2>1, <3>1
  <2>4. CASE UNCHANGED toBridge
    BY <1>6, <2>1, <2>4
  <2> QED
    BY <1>9, <2>2, <2>3, <2>4 DEF Broker, ConnectBroker, ReadFrame, WedgeBroker, CloseBroker, wireVars
<1>10. CASE IoThread
  <2>0. iopc \in Serving => acc \in Conns
    BY DEF TypeOK, IoThreadOK
  <2>1. CASE Accept
    BY <1>6, <2>1 DEF Accept, wireVars
  <2>2. CASE ReadChunk
    <3>1. PICK n \in 1..Len(toBridge[acc]) :
            /\ decoder' = SubSeq(toBridge[acc], 1, n)
            /\ toBridge' = [toBridge EXCEPT ![acc] = SubSeq(@, n + 1, Len(@))]
      BY <2>2 DEF ReadChunk
    <3>2. acc \in Conns /\ UNCHANGED acc
      BY <2>0, <2>2 DEF ReadChunk, Serving
    <3>3. Own(SubSeq(toBridge[acc], 1, n), acc) /\ Own(SubSeq(toBridge[acc], n + 1, Len(toBridge[acc])), acc)
      BY <1>2, <1>5, <1>6, <3>2
    <3> QED
      BY <1>5, <1>6, <3>1, <3>2, <3>3
  <2>3. CASE QueueCommand \/ RefuseCommand \/ IgnoreFrame
    <3>1. decoder # <<>> /\ decoder' = Tail(decoder) /\ UNCHANGED <<toBridge, acc>>
      BY <2>3 DEF QueueCommand, RefuseCommand, IgnoreFrame, wireVars
    <3> QED
      BY <1>1, <1>5, <1>6, <3>1
  <2>4. CASE EndServe
    <3>1. toBridge' = [toBridge EXCEPT ![acc] = <<>>] /\ decoder' = <<>>
      BY <2>4 DEF EndServe
    <3> QED
      BY <1>5, <1>6, <3>1
  <2>5. CASE WriteHello \/ HelloFails \/ DropStaleResponses \/ DropStaleEvents \/ ReadNothing
             \/ ReadEof \/ ServeStop \/ DecodeDone
    BY <1>8, <2>5 DEF WriteHello, HelloFails, DropStaleResponses, DropStaleEvents, ReadNothing,
       ReadEof, ServeStop, DecodeDone, wireVars
  <2>6. CASE WriteResponse \/ ResponsesDone \/ WriteEvent \/ EventsDone \/ IdlePass \/ LeaveAcceptLoop
    BY <1>8, <2>6 DEF WriteResponse, ResponsesDone, WriteEvent, EventsDone, IdlePass, LeaveAcceptLoop, wireVars
  <2> QED
    BY <1>10, <2>1, <2>2, <2>3, <2>4, <2>5, <2>6 DEF IoThread
<1> QED
  BY <1>8, <1>9, <1>10, WiresFrame DEF Next, vars, wireVars, ioVars

\* What a pass of either loop overwrites is empty.
LEMMA NextEmptied ==
  ASSUME TypeOK, Emptied, [Next]_vars
  PROVE  Emptied'
<1> USE DEF Emptied
<1>1. CASE UNCHANGED <<iopc, decoder, mainpc, polling>>
  BY <1>1
<1>2. CASE IoThread
  <2>1. UNCHANGED <<mainpc, polling>>
    BY <1>2 DEF IoThread, mainVars, Accept, WriteHello, HelloFails, DropStaleResponses,
       DropStaleEvents, ReadChunk, ReadNothing, ReadEof, ServeStop, QueueCommand,
       RefuseCommand, IgnoreFrame, DecodeDone, WriteResponse, ResponsesDone, WriteEvent,
       EventsDone, IdlePass, EndServe, LeaveAcceptLoop
  <2>2. iopc' \notin {"decode", "ended"} => decoder' = <<>>
    BY <1>2 DEF IoThread, GoTo, Accept, WriteHello, HelloFails, DropStaleResponses,
       DropStaleEvents, ReadChunk, ReadNothing, ReadEof, ServeStop, QueueCommand,
       RefuseCommand, IgnoreFrame, DecodeDone, WriteResponse, ResponsesDone, WriteEvent,
       EventsDone, IdlePass, EndServe, LeaveAcceptLoop
  <2> QED
    BY <2>1, <2>2
<1>3. CASE MainThread
  <2>1. UNCHANGED <<iopc, decoder>>
    BY <1>3, WiresFrame DEF ioVars
  <2>2. mainpc' # "poll" => polling' = <<>>
    BY <1>3 DEF MainThread, StartFrame, PollPending, PollDone, Execute, EndFrame, RaiseEvent,
       StopListener, MarkInactive
  <2> QED
    BY <2>1, <2>2
<1>4. ASSUME NEW c \in Conns, Broker(c) PROVE UNCHANGED <<iopc, decoder, mainpc, polling>>
  BY <1>4, BridgeFrame DEF ioVars, mainVars
<1> QED
  BY <1>1, <1>2, <1>3, <1>4 DEF Next, vars, ioVars, mainVars

\* A connection is opened before anything is sent on it.
LEMMA NextUnconnected ==
  ASSUME TypeOK, Unconnected, [Next]_vars
  PROVE  Unconnected'
<1> SUFFICES ASSUME NEW c \in Conns, peer'[c] = "absent" PROVE nextId'[c] = 1
  BY DEF Unconnected
<1>1. peer[c] = "absent"
  <2>1. ASSUME NEW d \in Conns, Broker(d) PROVE peer[c] = "absent"
    BY <2>1 DEF Broker, ConnectBroker, SendRequest, SendUnreadable, ReadFrame, WedgeBroker,
       CloseBroker, peerVars, TypeOK, BrokersOK
  <2> QED
    BY <2>1, BrokersFrame DEF Next, vars, peerVars
<1>2. ~SendRequest(c) /\ nextId[c] = 1
  BY <1>1 DEF SendRequest, Unconnected
<1> QED
  BY <1>2, NextIdStep

\* A step cannot make a request live again, nor take the IO thread back before
\* the first read of a connection.
LEMMA LiveBefore ==
  ASSUME TypeOK, Unconnected, [Next]_vars, NEW k \in Cmd, k.id < nextId'[k.conn], Live(k)'
  PROVE  Live(k)
<1>1. k.conn \in Conns /\ k.conn \in Nat /\ k.id \in Nat /\ k.id >= 1
  BY CmdFields DEF Ids, Conns
<1>2. peer'[k.conn] \in {"open", "ready", "wedged"} /\ ~Over(k.conn)'
      /\ ~(iopc' = "ended" /\ acc' = k.conn)
  BY DEF Live
<1>3. ASSUME NEW d \in Conns, Broker(d) PROVE Live(k)
  <2>1. UNCHANGED <<iopc, acc>>
    BY <1>3, BridgeFrame DEF ioVars
  <2>2. peer[k.conn] \in {"open", "ready", "wedged"}
    <3>1. CASE ConnectBroker(d) /\ d = k.conn
      <4>1. peer[k.conn] = "absent" /\ UNCHANGED nextId
        BY <3>1 DEF ConnectBroker
      <4>2. FALSE
        BY <1>1, <4>1 DEF Unconnected
      <4> QED
        BY <4>2
    <3>2. CASE ~(ConnectBroker(d) /\ d = k.conn)
      BY <1>1, <1>2, <1>3, <3>2 DEF Broker, ConnectBroker, SendRequest, SendUnreadable, ReadFrame,
         WedgeBroker, CloseBroker, peerVars, TypeOK, BrokersOK
    <3> QED
      BY <3>1, <3>2
  <2> QED
    BY <1>2, <2>1, <2>2 DEF Live, Over
<1>4. CASE IoThread \/ MainThread \/ UNCHANGED vars
  <2>1. UNCHANGED peer
    BY <1>4, BrokersFrame DEF peerVars, vars
  <2>2. (acc' = acc + 1 /\ iopc = "accept") \/ acc' = acc
    BY <1>4, WiresFrame DEF vars, ioVars, IoThread, Accept, WriteHello, HelloFails,
       DropStaleResponses, DropStaleEvents, ReadChunk, ReadNothing, ReadEof, ServeStop,
       QueueCommand, RefuseCommand, IgnoreFrame, DecodeDone, WriteResponse, ResponsesDone,
       WriteEvent, EventsDone, IdlePass, EndServe, LeaveAcceptLoop, TypeOK, IoThreadOK
  <2>3. acc' = acc /\ iopc \in {"accept", "exited", "ended"} => iopc' \in {"accept", "exited", "ended"}
    BY <1>4, WiresFrame DEF vars, ioVars, GoTo, IoThread, Accept, WriteHello, HelloFails,
       DropStaleResponses, DropStaleEvents, ReadChunk, ReadNothing, ReadEof, ServeStop,
       QueueCommand, RefuseCommand, IgnoreFrame, DecodeDone, WriteResponse, ResponsesDone,
       WriteEvent, EventsDone, IdlePass, EndServe, LeaveAcceptLoop, TypeOK, IoThreadOK
  <2>4. acc \in Nat /\ acc' >= acc
    BY <2>2 DEF TypeOK, IoThreadOK
  <2>5. iopc \in Serving \cup {"accept", "exited"}
    BY DEF TypeOK, IoThreadOK
  <2>6. iopc' \in {"accept", "exited", "ended"} /\ acc' = k.conn => FALSE
    BY <1>2 DEF Over, Serving
  <2>7. acc <= k.conn
    BY <1>1, <1>2, <2>2, <2>4 DEF Over, Conns, TypeOK, IoThreadOK
  <2>8. acc = k.conn => acc' = acc
    BY <1>1, <1>2, <2>2, <2>4 DEF Over, Conns, TypeOK, IoThreadOK
  <2>9. acc = k.conn => iopc \notin {"accept", "exited", "ended"}
    BY <2>3, <2>6, <2>8
  <2>10. ~Over(k.conn) /\ ~(iopc = "ended" /\ acc = k.conn)
    BY <1>1, <2>4, <2>5, <2>7, <2>9 DEF Over, Conns
  <2> QED
    BY <1>2, <2>1, <2>10 DEF Live
<1> QED
  BY <1>3, <1>4 DEF Next

\* A request is kept by every step, unless the step sends it.
LEMMA NextCopies ==
  ASSUME TypeOK, TypeOK', Accounted, [Next]_vars, NEW k \in Cmd
  PROVE  \/ Kept(k) /\ (k.id < nextId'[k.conn] <=> k.id < nextId[k.conn])
         \/ Copies(k) = 0 /\ Copies(k)' = 1 /\ k.id < nextId'[k.conn]
<1>1. k.conn \in Conns /\ k.id \in Int /\ nextId[k.conn] \in Int
  BY CmdFields DEF TypeOK, BrokersOK, Ids
<1>2. nextId'[k.conn] = IF SendRequest(k.conn) THEN nextId[k.conn] + 1 ELSE nextId[k.conn]
  BY <1>1, NextIdStep
<1>3. CASE SendRequest(k.conn) /\ k.id = nextId[k.conn]
  <2>1. Fresh(k, k.conn)
    BY <1>3 DEF Fresh
  <2>2. Copies(k) = 0 /\ Copies(k)' = 1
    BY <1>1, <1>3, <2>1, SendRequestKept
  <2> QED
    BY <1>1, <1>2, <1>3, <2>2
<1>4. CASE ~(SendRequest(k.conn) /\ k.id = nextId[k.conn])
  <2>1. \A c \in Conns : SendRequest(c) => ~Fresh(k, c)
    BY <1>4 DEF Fresh
  <2>2. Kept(k)
    BY <2>1, StepKept
  <2>3. k.id < nextId'[k.conn] <=> k.id < nextId[k.conn]
    BY <1>1, <1>2, <1>4
  <2> QED
    BY <2>2, <2>3
<1> QED
  BY <1>3, <1>4

\* Nothing exists before it is sent, nothing exists twice, and nothing of a
\* live connection is lost.
LEMMA NextCounts ==
  ASSUME TypeOK, TypeOK', Accounted, [Next]_vars
  PROVE  Unsent' /\ AnsweredAtMostOnce' /\ NoRequestLost'
<1>1. ASSUME NEW k \in Cmd
      PROVE  Copies(k) \in Nat /\ Copies(k)' \in Nat /\ Copies(k) <= 1
             /\ k.id \in Int /\ nextId[k.conn] \in Int /\ nextId'[k.conn] \in Int
  BY <1>1, CopiesAreCounts, CopiesAreCountsNext, CmdFields
     DEF Everywhere, Numbers, Accounted, AnsweredAtMostOnce, TypeOK, BrokersOK, Ids
<1>2. ASSUME NEW k \in Cmd PROVE Copies(k)' <= 1
  BY <1>1, <1>2, NextCopies DEF Kept
<1>3. ASSUME NEW k \in Cmd, k.id >= nextId'[k.conn] PROVE Copies(k)' = 0
  <2>1. Kept(k) /\ k.id >= nextId[k.conn]
    BY <1>1, <1>3, NextCopies
  <2>2. Copies(k) = 0
    BY <2>1 DEF Accounted, Unsent
  <2> QED
    BY <1>1, <2>1, <2>2 DEF Kept
<1>4. ASSUME NEW k \in Cmd, Live(k)', k.id < nextId'[k.conn] PROVE Copies(k)' = 1
  <2>1. CASE Kept(k) /\ k.id < nextId[k.conn]
    <3>1. Live(k)
      BY <1>4, LiveBefore DEF Accounted
    <3>2. Copies(k) = 1
      BY <2>1, <3>1 DEF Accounted, NoRequestLost, Live
    <3> QED
      BY <1>4, <2>1, <3>1, <3>2 DEF Kept
  <2> QED
    BY <1>4, <2>1, NextCopies
<1>5. Unsent'
  BY <1>3 DEF Unsent
<1>6. AnsweredAtMostOnce'
  BY <1>2 DEF AnsweredAtMostOnce
<1>7. NoRequestLost'
  BY <1>4 DEF NoRequestLost, Live
<1> QED
  BY <1>5, <1>6, <1>7

\* Before its first read a connection has nothing inside the bridge.
LEMMA NextUnserved ==
  ASSUME TypeOK, TypeOK', Accounted, [Next]_vars
  PROVE  Unserved'
<1> SUFFICES ASSUME NEW k \in Cmd,
                    \/ k.conn > acc'
                    \/ k.conn = acc' /\ iopc' \in {"hello", "dropResponses", "dropEvents"}
             PROVE  Inside(k)' = 0
  BY DEF Unserved
<1>1. k.conn \in Nat /\ acc \in Nat
  BY CmdFields DEF Conns, TypeOK, IoThreadOK
<1>2. \/ acc' = acc + 1 /\ iopc = "accept"
      \/ acc' = acc /\ (iopc' \in {"hello", "dropResponses", "dropEvents"} =>
                          iopc \in {"hello", "dropResponses", "dropEvents"})
  <2>1. CASE UNCHANGED <<acc, iopc>>
    BY <2>1
  <2>2. CASE IoThread
    BY <2>2 DEF GoTo, IoThread, Accept, WriteHello, HelloFails,
       DropStaleResponses, DropStaleEvents, ReadChunk, ReadNothing, ReadEof, ServeStop,
       QueueCommand, RefuseCommand, IgnoreFrame, DecodeDone, WriteResponse, ResponsesDone,
       WriteEvent, EventsDone, IdlePass, EndServe, LeaveAcceptLoop
  <2> QED
    BY <2>1, <2>2, BridgeFrame, WiresFrame DEF Next, vars, ioVars
<1>3. k.conn > acc \/ (k.conn = acc /\ iopc \in {"hello", "dropResponses", "dropEvents"})
  BY <1>1, <1>2
<1>4. Inside(k) = 0
  BY <1>3 DEF Accounted, Unserved
<1>5. Inside(k) \in Nat /\ Inside(k)' \in Nat
  BY CopiesAreCounts, CopiesAreCountsNext DEF Numbers, Inside
<1>6. CASE Kept(k)
  <2>1. iopc # "read" \/ acc # k.conn
    BY <1>1, <1>3
  <2> QED
    BY <1>4, <1>5, <1>6, <2>1 DEF Kept
<1>7. CASE SendRequest(k.conn)
  <2>1. UNCHANGED <<decoder, inbound, polling, pending, outbound>>
    BY <1>7 DEF SendRequest, ioVars, mainVars
  <2>2. Inside(k)' = Inside(k)
    BY <2>1 DEF Inside, Decoded, Queued, Taken, Waiting, Settled
  <2> QED
    BY <1>4, <2>2
<1>8. Kept(k) \/ SendRequest(k.conn)
  <2>1. (\A c \in Conns : SendRequest(c) => ~Fresh(k, c)) => Kept(k)
    BY StepKept
  <2> QED
    BY <2>1 DEF Fresh
<1> QED
  BY <1>6, <1>7, <1>8

\* The account of every request is inductive.
LEMMA NextAccounted == TypeOK /\ TypeOK' /\ Accounted /\ [Next]_vars => Accounted'
<1> SUFFICES ASSUME TypeOK, TypeOK', Accounted, [Next]_vars PROVE Accounted'
  OBVIOUS
<1>1. OwnFrames' /\ Emptied' /\ Unconnected'
  BY NextOwnFrames, NextEmptied, NextUnconnected DEF Accounted
<1> QED
  BY <1>1, NextCounts, NextUnserved DEF Accounted

\* In every reachable state each request is accounted for: where its copies can
\* be, that there is at most one, and that a live connection's is not gone.
THEOREM AccountKept == Spec => []Accounted
<1>1. Init => Accounted
  BY InitAccounted
<1>2. TypeOK /\ TypeOK' /\ Accounted /\ [Next]_vars => Accounted'
  BY NextAccounted
<1> QED
  BY <1>1, <1>2, TypeInvariant, PTL DEF Spec

\* Whatever the interleaving, a request is never refused and executed, nor
\* answered twice.
THEOREM NoSecondAnswer == Spec => []AnsweredAtMostOnce
<1>1. Accounted => AnsweredAtMostOnce
  BY DEF Accounted
<1> QED
  BY <1>1, AccountKept, PTL

\* Neither the drains on connect nor a full channel loses a request of the
\* connection that is served, or of one still in the backlog.
THEOREM RequestsSurvive == Spec => []NoRequestLost
<1>1. Accounted => NoRequestLost
  BY DEF Accounted
<1> QED
  BY <1>1, AccountKept, PTL

----------------------------------------------------------------------------
(* The history names every answered call. *)

\* A later connection's call of the same id is in the history.
Replaced(k) == \E j \in recorded : j.id = k.id /\ j.conn > k.conn

\* A suspended call is the one in flight under its id, or is in the history
\* already, or lost its place to a call of a later connection, which is in
\* flight or in the history.
SuspendedAreInFlight ==
  \A k \in Suspended :
    \/ inFlight[k.id] = k
    \/ inFlight[k.id] = NoCmd /\ k \in recorded
    \/ k \in reused /\ inFlight[k.id] # NoCmd /\ inFlight[k.id].conn > k.conn
    \/ k \in reused /\ inFlight[k.id] = NoCmd /\ Replaced(k)

\* Requests reach the dispatcher in the order of their connections.
InArrivalOrder ==
  /\ \A i \in DOMAIN inbound : inbound[i].conn <= acc
  /\ \A i, j \in DOMAIN inbound : i < j => inbound[i].conn <= inbound[j].conn
  /\ \A k \in Suspended : k.conn <= acc /\ \A i \in DOMAIN inbound : k.conn <= inbound[i].conn

\* What is in flight under an id is a call of that id.
InFlightById == \A i \in Ids : inFlight[i] # NoCmd => inFlight[i].id = i

HistoryKept == InArrivalOrder /\ InFlightById /\ SuspendedAreInFlight /\ AnsweredCallsAreRecorded

\* The calls of a sequence of operations.
CallsOf(s) == {s[i].cmd : i \in DOMAIN s}

\* Appending an operation adds its call.
LEMMA CallsOfAppend ==
  ASSUME NEW S, NEW s \in Seq(S), NEW e \in S
  PROVE  CallsOf(Append(s, e)) = CallsOf(s) \cup {e.cmd}
<1>1. DOMAIN Append(s, e) = 1..(Len(s) + 1) /\ DOMAIN s = 1..Len(s) /\ Len(s) \in Nat
  OBVIOUS
<1>2. \A i \in 1..Len(s) : Append(s, e)[i] = s[i]
  OBVIOUS
<1>3. Append(s, e)[Len(s) + 1] = e
  OBVIOUS
<1>4. ASSUME NEW i \in DOMAIN Append(s, e) PROVE Append(s, e)[i].cmd \in CallsOf(s) \cup {e.cmd}
  BY <1>1, <1>2, <1>3 DEF CallsOf
<1>5. ASSUME NEW i \in DOMAIN s PROVE s[i].cmd \in CallsOf(Append(s, e))
  BY <1>1, <1>2 DEF CallsOf
<1>6. e.cmd \in CallsOf(Append(s, e))
  BY <1>1, <1>3 DEF CallsOf
<1> QED
  BY <1>4, <1>5, <1>6 DEF CallsOf

\* Removing the head removes at most its call.
LEMMA CallsOfTail ==
  ASSUME NEW S, NEW s \in Seq(S), s # <<>>
  PROVE  CallsOf(s) = CallsOf(Tail(s)) \cup {Head(s).cmd}
<1>1. DOMAIN Tail(s) = 1..(Len(s) - 1) /\ DOMAIN s = 1..Len(s) /\ Len(s) \in Nat \ {0}
  OBVIOUS
<1>2. \A i \in 1..(Len(s) - 1) : Tail(s)[i] = s[i + 1]
  OBVIOUS
<1>3. Head(s) = s[1]
  OBVIOUS
<1>4. ASSUME NEW i \in DOMAIN Tail(s) PROVE Tail(s)[i].cmd \in CallsOf(s)
  BY <1>1, <1>2 DEF CallsOf
<1>5. ASSUME NEW i \in DOMAIN s PROVE s[i].cmd \in CallsOf(Tail(s)) \cup {Head(s).cmd}
  <2>1. CASE i = 1
    BY <1>3, <2>1
  <2>2. CASE i # 1
    <3>1. i - 1 \in DOMAIN Tail(s) /\ Tail(s)[i - 1] = s[i]
      BY <1>1, <1>2, <2>2
    <3> QED
      BY <3>1 DEF CallsOf
  <2> QED
    BY <2>1, <2>2
<1>6. Head(s).cmd \in CallsOf(s)
  BY <1>1, <1>3 DEF CallsOf
<1> QED
  BY <1>4, <1>5, <1>6 DEF CallsOf

\* The suspended calls are those of the two sequences of operations.
LEMMA SuspendedCalls ==
  /\ Suspended = CallsOf(polling) \cup CallsOf(pending)
  /\ Suspended' = CallsOf(polling') \cup CallsOf(pending')
  BY DEF Suspended, CallsOf

\* emit keeps the history: the settled call, or the later one that took its
\* place, is recorded.
LEMMA SettleKeepsHistory ==
  ASSUME TypeOK, HistoryKept, NEW k \in Cmd, NEW open \in [Ids -> Cmd \cup {NoCmd}], Settle(k, open),
         reused \subseteq reused', Suspended' \subseteq Suspended,
         \A i \in Ids : open[i] # NoCmd => open[i].id = i,
         \/ open[k.id] = k
         \/ open[k.id] = NoCmd /\ k \in recorded
         \/ k \in reused' /\ open[k.id] # NoCmd /\ open[k.id].conn > k.conn
         \/ k \in reused' /\ open[k.id] = NoCmd /\ Replaced(k),
         \A j \in Suspended' :
           \/ open[j.id] = j
           \/ open[j.id] = NoCmd /\ j \in recorded
           \/ j \in reused' /\ open[j.id] # NoCmd /\ open[j.id].conn > j.conn
           \/ j \in reused' /\ open[j.id] = NoCmd /\ Replaced(j)
  PROVE  InFlightById' /\ SuspendedAreInFlight' /\ AnsweredCallsAreRecorded'
<1>0. k.id \in Ids /\ Suspended \subseteq Cmd /\ recorded \subseteq Cmd /\ emitted \subseteq Cmd
      /\ NoCmd \notin Cmd /\ \A j \in Cmd : j.id \in Ids /\ j.conn \in Int
  BY CmdFields, SuspendedType DEF TypeOK, DispatcherOK, NoCmd, Cmd, Conns
<1>1. emitted' = emitted \cup {k} /\ inFlight' = [open EXCEPT ![k.id] = NoCmd]
      /\ recorded' = IF open[k.id] = NoCmd THEN recorded ELSE recorded \cup {open[k.id]}
  BY DEF Settle
<1>2. \A i \in Ids : inFlight'[i] = IF i = k.id THEN NoCmd ELSE open[i]
  BY <1>0, <1>1
<1>3. \A j : Replaced(j) => Replaced(j)'
  BY <1>1 DEF Replaced
<1>4. open[k.id] # NoCmd => open[k.id] \in recorded' /\ open[k.id].id = k.id /\ open[k.id] \in Cmd
  BY <1>0, <1>1
<1>5. ASSUME NEW j \in Suspended'
      PROVE  \/ inFlight'[j.id] = j
             \/ inFlight'[j.id] = NoCmd /\ j \in recorded'
             \/ j \in reused' /\ inFlight'[j.id] # NoCmd /\ inFlight'[j.id].conn > j.conn
             \/ j \in reused' /\ inFlight'[j.id] = NoCmd /\ Replaced(j)'
  <2>1. j \in Cmd /\ j.id \in Ids
    BY <1>0, <1>5
  <2>2. \/ open[j.id] = j
        \/ open[j.id] = NoCmd /\ j \in recorded
        \/ j \in reused' /\ open[j.id] # NoCmd /\ open[j.id].conn > j.conn
        \/ j \in reused' /\ open[j.id] = NoCmd /\ Replaced(j)
    BY <1>5
  <2>3. recorded \subseteq recorded'
    BY <1>1
  <2>4. CASE j.id = k.id
    <3>1. inFlight'[j.id] = NoCmd
      BY <1>2, <2>1, <2>4
    <3>2. open[j.id] # NoCmd /\ open[j.id].conn > j.conn => Replaced(j)'
      BY <1>4, <2>4 DEF Replaced
    <3>3. open[j.id] = j => j \in recorded'
      BY <1>0, <1>4, <2>1, <2>4
    <3> QED
      BY <1>3, <2>2, <2>3, <3>1, <3>2, <3>3
  <2>5. CASE j.id # k.id
    <3>1. inFlight'[j.id] = open[j.id]
      BY <1>2, <2>1, <2>5
    <3> QED
      BY <1>3, <2>2, <2>3, <3>1
  <2> QED
    BY <2>4, <2>5
<1>6. ASSUME NEW j \in emitted' \ recorded' PROVE j \in reused' /\ Replaced(j)'
  <2>1. CASE j \in emitted
    <3>1. j \in emitted \ recorded
      BY <1>1, <1>6, <2>1
    <3>2. j \in reused /\ Replaced(j)
      BY <3>1 DEF HistoryKept, AnsweredCallsAreRecorded, Replaced
    <3> QED
      BY <1>3, <3>2
  <2>2. CASE j = k
    <3>1. open[k.id] # k
      BY <1>0, <1>4, <1>6, <2>2
    <3>2. ~(open[k.id] = NoCmd /\ k \in recorded)
      BY <1>1, <1>6, <2>2
    <3>3. CASE k \in reused' /\ open[k.id] # NoCmd /\ open[k.id].conn > k.conn
      BY <1>4, <2>2, <3>3 DEF Replaced
    <3>4. CASE k \in reused' /\ open[k.id] = NoCmd /\ Replaced(k)
      BY <1>3, <2>2, <3>4
    <3> QED
      BY <3>1, <3>2, <3>3, <3>4
  <2> QED
    BY <1>1, <1>6, <2>1, <2>2
<1>7. ASSUME NEW j \in recorded' \ emitted'
      PROVE  \E i \in emitted' \cap reused' : i.id = j.id /\ i.conn < j.conn
  <2>1. CASE j \in recorded
    <3>1. j \in recorded \ emitted
      BY <1>1, <1>7, <2>1
    <3>2. PICK i \in emitted \cap reused : i.id = j.id /\ i.conn < j.conn
      BY <3>1 DEF HistoryKept, AnsweredCallsAreRecorded
    <3> QED
      BY <1>1, <3>2
  <2>2. CASE j = open[k.id] /\ open[k.id] # NoCmd
    <3>1. j # k
      BY <1>1, <1>7
    <3>2. k \in reused' /\ k.conn < j.conn
      BY <1>0, <1>4, <2>2, <3>1
    <3> QED
      BY <1>1, <1>4, <2>2, <3>2
  <2> QED
    BY <1>1, <1>7, <2>1, <2>2
<1>8. InFlightById'
  <2> SUFFICES ASSUME NEW i \in Ids, inFlight'[i] # NoCmd PROVE inFlight'[i].id = i
    BY DEF InFlightById
  <2> QED
    BY <1>2
<1>9. SuspendedAreInFlight'
  BY <1>5 DEF SuspendedAreInFlight
<1>10. AnsweredCallsAreRecorded'
  BY <1>6, <1>7 DEF AnsweredCallsAreRecorded, Replaced
<1> QED
  BY <1>8, <1>9, <1>10

\* A command leaves the channel and its call is the latest under its id.
LEMMA ExecuteKeepsOrder ==
  ASSUME TypeOK, InArrivalOrder, Execute, Suspended' \subseteq Suspended \cup {Head(inbound)}
  PROVE  InArrivalOrder' /\ \A k \in Suspended : k.conn <= Head(inbound).conn
<1>1. inbound \in Seq(Cmd) /\ inbound # <<>> /\ inbound' = Tail(inbound) /\ acc' = acc
  BY DEF Execute, TypeOK, ChannelsOK, ioVars
<1>2. /\ Head(inbound) = inbound[1] /\ DOMAIN inbound' = 1..(Len(inbound) - 1)
      /\ DOMAIN inbound = 1..Len(inbound) /\ Len(inbound) \in Nat \ {0}
      /\ \A i \in DOMAIN inbound' : inbound'[i] = inbound[i + 1] /\ i + 1 \in DOMAIN inbound
  BY <1>1
<1>3. 1 \in DOMAIN inbound
  BY <1>2
<1>4. \A k \in Suspended : k.conn <= Head(inbound).conn
  BY <1>2, <1>3 DEF InArrivalOrder
<1>5. \A i \in DOMAIN inbound' : inbound'[i].conn <= acc
  BY <1>2 DEF InArrivalOrder
<1>6. ASSUME NEW i \in DOMAIN inbound', NEW j \in DOMAIN inbound', i < j
      PROVE  inbound'[i].conn <= inbound'[j].conn
  <2>1. i + 1 < j + 1
    BY <1>2, <1>6
  <2> QED
    BY <1>2, <2>1 DEF InArrivalOrder
<1>7. ASSUME NEW k \in Suspended'
      PROVE  k.conn <= acc /\ \A i \in DOMAIN inbound' : k.conn <= inbound'[i].conn
  <2>1. CASE k \in Suspended
    BY <1>2, <2>1 DEF InArrivalOrder
  <2>2. CASE k = Head(inbound)
    <3>1. k.conn <= acc
      BY <1>2, <1>3, <2>2 DEF InArrivalOrder
    <3>2. ASSUME NEW i \in DOMAIN inbound' PROVE k.conn <= inbound'[i].conn
      <4>1. 1 < i + 1
        BY <1>2
      <4> QED
        BY <1>2, <1>3, <2>2, <4>1 DEF InArrivalOrder
    <3> QED
      BY <3>1, <3>2
  <2> QED
    BY <1>7, <2>1, <2>2
<1> QED
  BY <1>1, <1>4, <1>5, <1>6, <1>7 DEF InArrivalOrder

\* A request enters the channel behind those of its own and of earlier connections.
LEMMA QueueKeepsOrder ==
  ASSUME TypeOK, InArrivalOrder, OwnFrames, QueueCommand, Suspended' = Suspended
  PROVE  InArrivalOrder'
<1> DEFINE k == Head(decoder).cmd
           n == Len(inbound)
<1>1. decoder \in Seq(Frame) /\ decoder # <<>> /\ Head(decoder).form = "command" /\ acc' = acc
      /\ inbound' = Append(inbound, k)
  BY DEF QueueCommand, TypeOK, IoThreadOK
<1>2. Head(decoder) = decoder[1] /\ 1 \in DOMAIN decoder /\ Head(decoder) \in Frame
  BY <1>1
<1>3. k.conn = acc /\ k \in Cmd
  BY <1>1, <1>2 DEF OwnFrames, Frame
<1>4. inbound \in Seq(Cmd) /\ n \in Nat /\ acc \in Int
  BY DEF TypeOK, ChannelsOK, IoThreadOK
<1>5. /\ DOMAIN inbound = 1..n /\ DOMAIN inbound' = 1..(n + 1)
      /\ inbound'[n + 1] = k /\ \A i \in 1..n : inbound'[i] = inbound[i] /\ inbound'[i] \in Cmd
  BY <1>1, <1>3, <1>4
<1>6. \A i \in 1..(n + 1) : inbound'[i].conn <= acc /\ (i <= n \/ i = n + 1)
  BY <1>3, <1>4, <1>5 DEF InArrivalOrder
<1>7. ASSUME NEW i \in DOMAIN inbound', NEW j \in DOMAIN inbound', i < j
      PROVE  inbound'[i].conn <= inbound'[j].conn
  <2>1. CASE j = n + 1
    BY <1>3, <1>5, <1>6, <2>1
  <2>2. CASE j # n + 1
    <3>1. i \in 1..n /\ j \in 1..n
      BY <1>4, <1>5, <1>7, <2>2
    <3> QED
      BY <1>5, <1>7, <3>1 DEF InArrivalOrder
  <2> QED
    BY <2>1, <2>2
<1>8. ASSUME NEW h \in Suspended', NEW i \in DOMAIN inbound' PROVE h.conn <= inbound'[i].conn
  <2>1. CASE i = n + 1
    BY <1>3, <1>5, <2>1 DEF InArrivalOrder
  <2>2. CASE i # n + 1
    BY <1>4, <1>5, <2>2 DEF InArrivalOrder
  <2> QED
    BY <2>1, <2>2
<1> QED
  BY <1>1, <1>5, <1>6, <1>7, <1>8 DEF InArrivalOrder

\* The channel keeps the order of the connections whatever else is done.
LEMMA NextArrivalOrder ==
  ASSUME TypeOK, InArrivalOrder, Suspended' \subseteq Suspended, inbound' = inbound, acc' >= acc, acc' \in Int
  PROVE  InArrivalOrder'
<1>1. Suspended \subseteq Cmd /\ inbound \in Seq(Cmd) /\ acc \in Int /\ \A k \in Cmd : k.conn \in Int
  BY SuspendedType DEF TypeOK, DispatcherOK, ChannelsOK, IoThreadOK, Cmd, Conns
<1>2. \A i \in DOMAIN inbound : inbound[i] \in Cmd
  BY <1>1
<1> QED
  BY <1>1, <1>2 DEF InArrivalOrder

\* The IO thread appends to the channel or leaves it, and moves on to later
\* connections only.
LEMMA InboundSteps ==
  ASSUME TypeOK, IoThread
  PROVE  QueueCommand \/ (inbound' = inbound /\ acc' >= acc /\ acc' \in Int)
<1>1. acc \in Int
  BY DEF TypeOK, IoThreadOK
<1>2. CASE Accept
  BY <1>1, <1>2 DEF Accept
<1>3. CASE WriteHello \/ HelloFails \/ DropStaleResponses \/ DropStaleEvents \/ ReadChunk
           \/ ReadNothing \/ ReadEof \/ ServeStop
  BY <1>1, <1>3 DEF WriteHello, HelloFails, DropStaleResponses, DropStaleEvents, ReadChunk,
     ReadNothing, ReadEof, ServeStop
<1>4. CASE RefuseCommand \/ IgnoreFrame \/ DecodeDone \/ WriteResponse \/ ResponsesDone
           \/ WriteEvent \/ EventsDone \/ IdlePass \/ EndServe \/ LeaveAcceptLoop
  BY <1>1, <1>4 DEF RefuseCommand, IgnoreFrame, DecodeDone, WriteResponse, ResponsesDone,
     WriteEvent, EventsDone, IdlePass, EndServe, LeaveAcceptLoop
<1> QED
  BY <1>2, <1>3, <1>4 DEF IoThread

\* What leaves the history and the suspended calls alone keeps them matched.
LEMMA UntouchedHistory ==
  ASSUME InFlightById, SuspendedAreInFlight, AnsweredCallsAreRecorded,
         UNCHANGED <<inFlight, recorded, emitted, reused>>, Suspended' = Suspended
  PROVE  InFlightById' /\ SuspendedAreInFlight' /\ AnsweredCallsAreRecorded'
  BY DEF InFlightById, SuspendedAreInFlight, AnsweredCallsAreRecorded, Replaced

\* The history stays complete.
LEMMA NextHistory ==
  ASSUME TypeOK, TypeOK', Accounted, HistoryKept, [Next]_vars
  PROVE  HistoryKept'
<1> DEFINE Matched == InFlightById /\ SuspendedAreInFlight /\ AnsweredCallsAreRecorded
<1>1. InArrivalOrder /\ Matched /\ acc \in Int
  BY DEF HistoryKept, TypeOK, IoThreadOK
<1>2. SUFFICES InArrivalOrder' /\ Matched'
  BY DEF HistoryKept
<1> HIDE DEF Matched
<1>3. ASSUME UNCHANGED <<inFlight, recorded, emitted, reused>>, Suspended' = Suspended PROVE Matched'
  BY <1>1, <1>3, UntouchedHistory DEF Matched
<1>4. ASSUME UNCHANGED mainVars PROVE Matched'
  BY <1>3, <1>4 DEF Suspended, mainVars
<1>5. polling \in Seq(Op) /\ pending \in Seq(Op) /\ Suspended \subseteq Cmd /\ reused \subseteq Cmd
      /\ inFlight \in [Ids -> Cmd \cup {NoCmd}] /\ \A k \in Cmd : k.id \in Ids /\ k.conn \in Int
  BY CmdFields, SuspendedType DEF TypeOK, DispatcherOK, Conns
<1>6. ASSUME NEW c \in Conns, Broker(c) PROVE InArrivalOrder' /\ Matched'
  <2>1. UNCHANGED mainVars /\ Suspended' = Suspended /\ UNCHANGED <<inbound, acc>>
    BY <1>6, BridgeFrame DEF Suspended, mainVars, ioVars
  <2> QED
    BY <1>1, <1>4, <2>1, NextArrivalOrder
<1>7. CASE IoThread
  <2>1. 1 \in Conns
    BY DEF Conns
  <2>2. UNCHANGED mainVars /\ Suspended' = Suspended
    BY <1>7, <2>1, DispatcherFrame DEF Suspended, mainVars
  <2>3. InArrivalOrder'
    BY <1>1, <1>7, <2>2, InboundSteps, QueueKeepsOrder, NextArrivalOrder DEF Accounted
  <2> QED
    BY <1>4, <2>2, <2>3
<1>8. CASE UNCHANGED vars
  BY <1>1, <1>4, <1>8, NextArrivalOrder DEF vars, ioVars, mainVars, Suspended
<1>10. CASE StartFrame
  <2>1. polling = <<>> /\ polling' = pending /\ pending' = <<>>
    BY <1>10 DEF StartFrame, Accounted, Emptied
  <2>2. CallsOf(<<>>) = {}
    BY DEF CallsOf
  <2>3. Suspended' = Suspended
    BY <2>1, <2>2, SuspendedCalls
  <2>4. UNCHANGED <<inFlight, recorded, emitted, reused, inbound, acc>>
    BY <1>10 DEF StartFrame, ioVars
  <2> QED
    BY <1>1, <1>3, <2>3, <2>4, NextArrivalOrder
<1>11. CASE PollPending
  <2> DEFINE op == Head(polling)
  <2>1. polling # <<>> /\ polling' = Tail(polling) /\ op \in Op /\ UNCHANGED <<inbound, acc, reused>>
    BY <1>5, <1>11 DEF PollPending, ioVars
  <2>2. op.cmd \in Cmd /\ CallsOf(polling) = CallsOf(polling') \cup {op.cmd}
    BY <1>5, <2>1, CallsOfTail DEF Op
  <2>3. CASE Settle(op.cmd, inFlight) /\ UNCHANGED pending
    <3>1. Suspended' \subseteq Suspended /\ op.cmd \in Suspended
      BY <2>2, <2>3, SuspendedCalls
    <3>2. Matched'
      BY <1>1, <1>5, <2>1, <2>2, <2>3, <3>1, SettleKeepsHistory
         DEF Matched, HistoryKept, SuspendedAreInFlight, InFlightById
    <3> QED
      BY <1>1, <2>1, <3>1, <3>2, NextArrivalOrder
  <2>4. CASE op.left > 1 /\ pending' = Append(pending, Polled(op)) /\ UNCHANGED <<inFlight, recorded, emitted>>
    <3>1. op.left \in 1..MaxWait /\ op.left - 1 \in 1..MaxWait
      BY <2>1, <2>4 DEF Op
    <3>2. Polled(op) \in Op /\ Polled(op).cmd = op.cmd
      BY <2>1, <3>1 DEF Op, Polled
    <3>3. CallsOf(pending') = CallsOf(pending) \cup {op.cmd}
      BY <1>5, <2>4, <3>2, CallsOfAppend
    <3>4. Suspended' = Suspended
      BY <2>2, <3>3, SuspendedCalls
    <3> QED
      BY <1>1, <1>3, <2>1, <2>4, <3>4, NextArrivalOrder
  <2> QED
    BY <1>11, <2>3, <2>4 DEF PollPending
<1>12. CASE Execute
  <2> DEFINE cmd == Head(inbound)
             begun == [inFlight EXCEPT ![cmd.id] = cmd]
  <2>1. cmd \in Cmd /\ UNCHANGED polling
        /\ reused' = reused \cup {k \in Suspended : k.id = cmd.id /\ k.conn < cmd.conn}
    BY <1>12 DEF Execute, TypeOK, ChannelsOK
  <2>2. /\ begun \in [Ids -> Cmd \cup {NoCmd}] /\ begun[cmd.id] = cmd
        /\ \A i \in Ids : i # cmd.id => begun[i] = inFlight[i]
    BY <1>5, <2>1
  <2>3. \A i \in Ids : begun[i] # NoCmd => begun[i].id = i
    BY <1>1, <2>2 DEF Matched, InFlightById
  <2>4. ASSUME \A k \in Suspended : k.conn <= cmd.conn,
               NEW j \in Suspended \cup {cmd}
        PROVE  \/ begun[j.id] = j
               \/ begun[j.id] = NoCmd /\ j \in recorded
               \/ j \in reused' /\ begun[j.id] # NoCmd /\ begun[j.id].conn > j.conn
               \/ j \in reused' /\ begun[j.id] = NoCmd /\ Replaced(j)
    <3>1. CASE j = cmd
      BY <2>2, <3>1
    <3>2. CASE j # cmd /\ j.id = cmd.id
      <4>1. j \in Suspended /\ j \in Cmd /\ j.conn # cmd.conn /\ j.conn <= cmd.conn
        BY <1>5, <2>1, <2>4, <3>2 DEF Cmd
      <4>2. j.conn < cmd.conn /\ j \in reused' /\ cmd # NoCmd
        BY <1>5, <2>1, <3>2, <4>1 DEF Cmd, NoCmd, Conns
      <4> QED
        BY <2>2, <3>2, <4>2
    <3>3. CASE j # cmd /\ j.id # cmd.id
      <4>1. j \in Suspended /\ begun[j.id] = inFlight[j.id]
        BY <1>5, <2>2, <2>4, <3>3
      <4> QED
        BY <1>1, <2>1, <4>1 DEF Matched, SuspendedAreInFlight
    <3> QED
      BY <3>1, <3>2, <3>3
  <2>5. CASE Settle(cmd, begun) /\ UNCHANGED pending
    <3>1. Suspended' = Suspended
      BY <2>1, <2>5, SuspendedCalls
    <3>2. InArrivalOrder' /\ \A k \in Suspended : k.conn <= cmd.conn
      BY <1>1, <1>12, <3>1, ExecuteKeepsOrder
    <3>3. reused \subseteq reused'
      BY <2>1
    <3>4. Matched'
      BY <2>1, <2>2, <2>3, <2>4, <2>5, <3>1, <3>2, <3>3, SettleKeepsHistory DEF Matched
    <3> QED
      BY <3>2, <3>4
  <2>6. ASSUME NEW n \in 1..MaxWait, pending' = Append(pending, [cmd |-> cmd, left |-> n]),
               inFlight' = begun, UNCHANGED <<recorded, emitted>>
        PROVE  InArrivalOrder' /\ Matched'
    <3>1. [cmd |-> cmd, left |-> n] \in Op
      BY <2>1 DEF Op
    <3>2. CallsOf(pending') = CallsOf(pending) \cup {cmd}
      BY <1>5, <2>6, <3>1, CallsOfAppend
    <3>3. Suspended' = Suspended \cup {cmd}
      BY <2>1, <3>2, SuspendedCalls
    <3>4. InArrivalOrder' /\ \A k \in Suspended : k.conn <= cmd.conn
      BY <1>1, <1>12, <3>3, ExecuteKeepsOrder
    <3>5. SuspendedAreInFlight'
      BY <2>4, <2>6, <3>3, <3>4 DEF SuspendedAreInFlight, Replaced
    <3>6. AnsweredCallsAreRecorded'
      BY <1>1, <2>1, <2>6 DEF Matched, AnsweredCallsAreRecorded
    <3> QED
      BY <2>3, <2>6, <3>4, <3>5, <3>6 DEF Matched, InFlightById
  <2> QED
    BY <1>12, <2>5, <2>6 DEF Execute
<1>13. CASE PollDone \/ EndFrame \/ RaiseEvent \/ StopListener \/ MarkInactive
  <2>1. UNCHANGED <<polling, pending, inFlight, recorded, emitted, reused, inbound, acc>>
    BY <1>13 DEF PollDone, EndFrame, RaiseEvent, StopListener, MarkInactive, ioVars
  <2> QED
    BY <1>1, <1>3, <2>1, NextArrivalOrder DEF Suspended
<1> QED
  BY <1>6, <1>7, <1>8, <1>10, <1>11, <1>12, <1>13 DEF Next, MainThread

\* Every call the dispatcher answers is in the panel's history.  A call that a
\* later connection's call of the same id overtook while it was suspended is
\* excepted, and then that later call is there.
THEOREM HistoryIsComplete == Spec => []AnsweredCallsAreRecorded
<1>1. Init => HistoryKept
  BY DEF Init, HistoryKept, InArrivalOrder, InFlightById, SuspendedAreInFlight,
     AnsweredCallsAreRecorded, Suspended
<1>2. TypeOK /\ TypeOK' /\ Accounted /\ HistoryKept /\ [Next]_vars => HistoryKept'
  BY NextHistory
<1>3. HistoryKept => AnsweredCallsAreRecorded
  BY DEF HistoryKept
<1> QED
  BY <1>1, <1>2, <1>3, TypeInvariant, AccountKept, PTL DEF Spec

============================================================================
