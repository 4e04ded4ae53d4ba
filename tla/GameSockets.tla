---------------------------- MODULE GameSockets ----------------------------
(***************************************************************************)
(* The WebSocket client of a running game (runtime/net.rs: websocket and   *)
(* service_frame): a table of connections with bounded inboxes, filled on  *)
(* every frame and emptied by calls that wait for a message.               *)
(*                                                                         *)
(* A server numbers its messages.  Frames poll the suspended calls first,  *)
(* then run new calls, then service the sockets.                           *)
(***************************************************************************)
EXTENDS Integers, Sequences, FiniteSets

CONSTANTS
  MaxSockets,     \* WS_MAX_CONNECTIONS
  InboxCap,       \* WS_INBOX_CAP
  RecvDeadline,   \* frames until a connect or recv times out, at most
  MaxIds, MaxCalls, MaxSent

ASSUME SocketsAssumption ==
  /\ MaxSockets \in Nat \ {0} /\ InboxCap \in Nat \ {0} /\ RecvDeadline \in Nat \ {0}
  /\ MaxIds \in Nat /\ MaxCalls \in Nat /\ MaxSent \in Nat

VARIABLES
  sockets,    \* WS_CONNS: state of the peer, inbox, messages dropped
  nextSocket, \* WS_NEXT_ID
  sent,       \* messages each server has sent
  heard,      \* messages each peer has taken off the wire
  scalls,     \* suspended and settled connects and recvs
  got         \* messages handed out per connection, in order

socketVars == <<sockets, nextSocket, sent, heard, scalls, got>>

Ids == 1..MaxIds
SCalls == 1..MaxCalls
NewCall == [st |-> "new", op |-> "none", id |-> 0, left |-> 0]

SocketsInit ==
  /\ sockets = <<>> /\ nextSocket = 1
  /\ sent = [i \in Ids |-> 0] /\ heard = [i \in Ids |-> 0]
  /\ scalls = [c \in SCalls |-> NewCall]
  /\ got = [i \in Ids |-> <<>>]

Next1(c) == scalls[c].st = "new" /\ \A d \in 1..(c - 1) : scalls[d].st # "new"
Held == DOMAIN sockets
Without(ids) == [i \in Held \ ids |-> sockets[i]]

------------------------------------------------------------------------------
(* Calls.  A recv may time out on its first poll; a connect is given time.  *)

WsConnect ==
  \E c \in SCalls :
    /\ Next1(c) /\ Cardinality(Held) < MaxSockets /\ nextSocket \in Ids
    /\ sockets' = [i \in Held \cup {nextSocket} |->
                     IF i = nextSocket THEN [state |-> "connecting", inbox |-> <<>>, dropped |-> 0] ELSE sockets[i]]
    /\ nextSocket' = nextSocket + 1
    /\ scalls' = [scalls EXCEPT ![c] = [st |-> "pending", op |-> "connect", id |-> nextSocket, left |-> RecvDeadline]]
    /\ UNCHANGED <<sent, heard, got>>

WsRecv ==
  \E c \in SCalls, i \in 1..(nextSocket - 1), n \in 1..RecvDeadline :
    /\ Next1(c)
    /\ scalls' = [scalls EXCEPT ![c] = [st |-> "pending", op |-> "recv", id |-> i, left |-> n]]
    /\ UNCHANGED <<sockets, nextSocket, sent, heard, got>>

WsClose ==
  \E i \in Held :
    /\ sockets' = Without({i})
    /\ UNCHANGED <<nextSocket, sent, heard, scalls, got>>

------------------------------------------------------------------------------
(* poll, of the suspended calls in the order they were made.                *)

Settled(S, c, st) == [S EXCEPT !.calls[c].st = st]
Later(S, c) == [S EXCEPT !.calls[c].left = @ - 1]
Forget(S, i) == [S EXCEPT !.sockets = [j \in DOMAIN S.sockets \ {i} |-> S.sockets[j]]]

ConnectFailed(S, c) == Settled(Forget(S, S.calls[c].id), c, "error")

\* Closed by gd_websocket while connecting; open; refused or timed out.
ConnectPolled(S, c) ==
  LET i == S.calls[c].id IN
  CASE i \notin DOMAIN S.sockets -> Settled(S, c, "error")
    [] i \in DOMAIN S.sockets /\ S.sockets[i].state = "open" -> Settled(S, c, "ok")
    [] i \in DOMAIN S.sockets /\ (S.sockets[i].state = "closed" \/ (S.sockets[i].state = "connecting" /\ S.calls[c].left = 1)) ->
         ConnectFailed(S, c)
    [] OTHER -> Later(S, c)

\* Slip: the newest message is handed out.
TakenLast(S, i) ==
  LET box == S.sockets[i].inbox IN
  [S EXCEPT !.sockets[i].inbox = SubSeq(box, 1, Len(box) - 1), !.got[i] = Append(@, box[Len(box)])]

Taken(S, i) == [S EXCEPT !.sockets[i].inbox = Tail(@), !.got[i] = Append(@, Head(S.sockets[i].inbox))]

\* A message first, then the close, then the deadline.
RecvPolled(S, c) ==
  LET i == S.calls[c].id IN
  CASE i \notin DOMAIN S.sockets -> Settled(S, c, "error")
    [] i \in DOMAIN S.sockets /\ S.sockets[i].inbox # <<>> -> Settled(Taken(S, i), c, "ok")
    [] i \in DOMAIN S.sockets /\ S.sockets[i].inbox = <<>> /\ S.sockets[i].state = "closed" -> Settled(S, c, "error")
    [] i \in DOMAIN S.sockets /\ S.sockets[i].inbox = <<>> /\ S.sockets[i].state # "closed" /\ S.calls[c].left = 1 ->
         Settled(S, c, "empty")
    [] OTHER -> Later(S, c)

\* The suspended call c, after the ones before it left S.
PollOf(S, c) ==
  CASE scalls[c].st = "pending" /\ scalls[c].op = "connect" -> ConnectPolled(S, c)
    [] scalls[c].st = "pending" /\ scalls[c].op = "recv"    -> RecvPolled(S, c)
    [] OTHER -> S

Waiting == [sockets |-> sockets, calls |-> scalls, got |-> got]

PolledCalls ==
  LET poll[c \in 0..MaxCalls] == IF c = 0 THEN Waiting ELSE PollOf(poll[c - 1], c)
  IN  poll[MaxCalls]

SocketPolls ==
  /\ \E c \in SCalls : scalls[c].st = "pending"
  /\ LET S == PolledCalls IN sockets' = S.sockets /\ scalls' = S.calls /\ got' = S.got
  /\ UNCHANGED <<nextSocket, sent, heard>>

------------------------------------------------------------------------------
(* service_frame: everything that arrived goes into the inbox; the oldest   *)
(* messages make room and are counted.                                      *)

Kept(box) == SubSeq(box, Len(box) - InboxCap + 1, Len(box))

ServiceFrame ==
  /\ \E i \in Held : heard[i] < sent[i]
  /\ sockets' = [i \in Held |->
       LET box  == sockets[i].inbox \o [k \in 1..(sent[i] - heard[i]) |-> heard[i] + k]
           over == Len(box) - InboxCap
       IN  IF over > 0 THEN [sockets[i] EXCEPT !.inbox = Kept(box), !.dropped = @ + over]
           ELSE [sockets[i] EXCEPT !.inbox = box]]
  /\ heard' = [i \in Ids |-> IF i \in Held THEN sent[i] ELSE heard[i]]
  /\ UNCHANGED <<nextSocket, sent, scalls, got>>

(* The server: it accepts, sends, and goes away; what it sent before is     *)
(* still read.                                                              *)

ServerAccepts ==
  \E i \in Held :
    /\ sockets[i].state = "connecting" /\ sockets' = [sockets EXCEPT ![i].state = "open"]
    /\ UNCHANGED <<nextSocket, sent, heard, scalls, got>>

ServerSends ==
  \E i \in Held :
    /\ sockets[i].state = "open" /\ sent[i] < MaxSent
    /\ sent' = [sent EXCEPT ![i] = @ + 1]
    /\ UNCHANGED <<sockets, nextSocket, heard, scalls, got>>

ServerCloses ==
  \E i \in Held :
    /\ sockets[i].state # "closed" /\ sent[i] = heard[i]
    /\ sockets' = [sockets EXCEPT ![i].state = "closed"]
    /\ UNCHANGED <<nextSocket, sent, heard, scalls, got>>

SocketsNext ==
  \/ WsConnect \/ WsRecv \/ WsClose
  \/ SocketPolls \/ ServiceFrame
  \/ ServerAccepts \/ ServerSends \/ ServerCloses

------------------------------------------------------------------------------

\* Messages come out in the order they were sent, none twice, and the only ones that
\* do not come out or wait in the inbox are those counted as dropped, which are
\* older than any that waits.
MessagesAccounted ==
  \A i \in Held :
    LET seen == got[i] \o sockets[i].inbox IN
    /\ \A k \in 1..(Len(seen) - 1) : seen[k] < seen[k + 1]
    /\ Len(seen) + sockets[i].dropped = heard[i]
    /\ \A k \in 2..Len(sockets[i].inbox) : sockets[i].inbox[k] = sockets[i].inbox[k - 1] + 1

\* Every place in the table belongs to a caller who knows of it: its connect was
\* answered with the id, or is still under way.
SocketsHaveOwners ==
  \A i \in Held : \E c \in SCalls :
    scalls[c].op = "connect" /\ scalls[c].id = i /\ scalls[c].st \in {"pending", "ok"}
=============================================================================
