---------------------------- MODULE LinkLiveness ----------------------------
(***************************************************************************)
(* The two liveness clocks on one connection: the bridge's (Liveness in    *)
(* bridge/src/transport/ipc.rs) and the broker's (startLiveness in         *)
(* broker/src/ipc-client.ts).  Each end pings a peer it has not heard from *)
(* for PingAfter, and gives up on one that has been silent for Timeout,    *)
(* but only once it has seen that peer answer a ping.                      *)
(*                                                                         *)
(* Time is discrete: Tick lets one unit pass, and only when neither acting *)
(* end has work that is due, since the serve loop passes every 200us and   *)
(* the broker's interval is a fraction of PingAfter.  A frame takes up to  *)
(* Delay to arrive.  Frames of one kind in flight are merged into the      *)
(* oldest: every kind is idempotent for its reader.                        *)
(***************************************************************************)
EXTENDS Integers

CONSTANTS
  PingAfter,     \* PING_AFTER, PING_AFTER_MS
  Timeout,       \* LIVENESS_TIMEOUT, LIVENESS_TIMEOUT_MS
  Delay          \* worst transit of a frame between two acting ends

ASSUME PingAfterAssumption == PingAfter \in Nat \ {0}
ASSUME DelayAssumption     == Delay \in Nat \ {0}
ASSUME TimeoutAssumption   == Timeout \in Nat /\ PingAfter + 2 * Delay < Timeout

Ends == {"bridge", "broker"}
Other(e) == IF e = "bridge" THEN "broker" ELSE "bridge"
Kinds == {"ping", "pong", "data"}

None == -1
Horizon == Timeout + Delay + 1     \* clocks stop counting here

VARIABLES
  modern,    \* does this end know the liveness frames; fixed
  link,      \* "up", or the end that dropped it for silence
  acting,    \* is the process of this end running
  silent,    \* units since this end last read a byte
  pinged,    \* units since its last unanswered ping, None after any input
  armed,     \* this end has seen a pong
  wire,      \* wire[e][k]: age of the frames of kind k in flight to e
  frozen,    \* units this end has been suspended, 0 while it acts
  froze      \* the ends that were ever suspended

vars == <<modern, link, acting, silent, pinged, armed, wire, frozen, froze>>

Init ==
  /\ modern \in [Ends -> BOOLEAN]
  /\ link = "up"
  /\ acting = [e \in Ends |-> TRUE]
  /\ silent = [e \in Ends |-> 0]
  /\ pinged = [e \in Ends |-> None]
  /\ armed = [e \in Ends |-> FALSE]
  /\ wire = [e \in Ends |-> [k \in Kinds |-> None]]
  /\ frozen = [e \in Ends |-> 0]
  /\ froze = {}

Acts(e) == link = "up" /\ acting[e]

\* A frame joins those of its kind already in flight.
Sent(w, e, k) == [w EXCEPT ![e][k] = IF @ = None THEN 0 ELSE @]

\* saw_input and saw_pong; onData.  Reading answers a ping and arms on a pong.
Receive(e, k) ==
  /\ Acts(e) /\ wire[e][k] # None
  /\ silent' = [silent EXCEPT ![e] = 0]
  /\ pinged' = [pinged EXCEPT ![e] = None]
  /\ armed' = [armed EXCEPT ![e] = @ \/ (k = "pong" /\ modern[e])]
  /\ LET w == [wire EXCEPT ![e][k] = None]
     IN wire' = IF k = "ping" /\ modern[e] THEN Sent(w, Other(e), "pong") ELSE w
  /\ UNCHANGED <<modern, link, acting, frozen, froze>>

\* Ordinary traffic: requests one way, responses and events the other.
SendData(e) ==
  /\ Acts(e)
  /\ wire' = Sent(wire, Other(e), "data")
  /\ UNCHANGED <<modern, link, acting, silent, pinged, armed, frozen, froze>>

\* The bridge reads the socket before it asks due(); the broker's interval
\* callback may run before the data event.
HasArrived(e) == \E k \in Kinds : wire[e][k] = Delay
MayAsk(e) == Acts(e) /\ modern[e] /\ (e = "bridge" => ~HasArrived(e))

Dead(e) == armed[e] /\ silent[e] >= Timeout

\* Slip: the first ping waits for the timeout.
PingLate(e) == ~Dead(e) /\ silent[e] >= Timeout /\ (pinged[e] = None \/ pinged[e] >= PingAfter)

PingDue(e) == ~Dead(e) /\ silent[e] >= PingAfter /\ (pinged[e] = None \/ pinged[e] >= PingAfter)

GiveUp(e) ==
  /\ MayAsk(e) /\ Dead(e)
  /\ link' = e
  /\ UNCHANGED <<modern, acting, silent, pinged, armed, wire, frozen, froze>>

\* Slip: asking counts as hearing.
PingAsInput(e) ==
  /\ MayAsk(e) /\ PingDue(e)
  /\ pinged' = [pinged EXCEPT ![e] = 0]
  /\ silent' = [silent EXCEPT ![e] = 0]
  /\ wire' = Sent(wire, Other(e), "ping")
  /\ UNCHANGED <<modern, link, acting, armed, frozen, froze>>

Ping(e) ==
  /\ MayAsk(e) /\ PingDue(e)
  /\ pinged' = [pinged EXCEPT ![e] = 0]
  /\ wire' = Sent(wire, Other(e), "ping")
  /\ UNCHANGED <<modern, link, acting, silent, armed, frozen, froze>>

\* The process is stopped, wedged in a blocking call, or its machine is.
Suspend(e) ==
  /\ Acts(e)
  /\ acting' = [acting EXCEPT ![e] = FALSE]
  /\ frozen' = [frozen EXCEPT ![e] = 0]
  /\ froze' = froze \cup {e}
  /\ UNCHANGED <<modern, link, silent, pinged, armed, wire>>

Resume(e) ==
  /\ link = "up" /\ ~acting[e]
  /\ acting' = [acting EXCEPT ![e] = TRUE]
  /\ frozen' = [frozen EXCEPT ![e] = 0]
  /\ UNCHANGED <<modern, link, silent, pinged, armed, wire, froze>>

\* What an acting end must do before time may pass.
Urgent(e) == Acts(e) /\ (HasArrived(e) \/ (modern[e] /\ (Dead(e) \/ PingDue(e))))

Older(n, most) == IF n = None \/ n >= most THEN n ELSE n + 1

Tick ==
  /\ link = "up"
  /\ \A e \in Ends : ~Urgent(e)
  /\ silent' = [e \in Ends |-> Older(silent[e], Horizon)]
  /\ pinged' = [e \in Ends |-> Older(pinged[e], PingAfter)]
  /\ wire' = [e \in Ends |-> [k \in Kinds |-> Older(wire[e][k], Delay)]]
  /\ frozen' = [e \in Ends |-> IF acting[e] THEN 0 ELSE Older(frozen[e], Horizon)]
  /\ UNCHANGED <<modern, link, acting, armed, froze>>

Next ==
  \/ \E e \in Ends, k \in Kinds : Receive(e, k)
  \/ \E e \in Ends : SendData(e) \/ GiveUp(e) \/ Ping(e) \/ Suspend(e) \/ Resume(e)
  \/ Tick

Spec == Init /\ [][Next]_vars

----------------------------------------------------------------------------
(* Properties. *)

TypeOK ==
  /\ modern \in [Ends -> BOOLEAN]
  /\ link \in Ends \cup {"up"}
  /\ acting \in [Ends -> BOOLEAN]
  /\ silent \in [Ends -> 0..Horizon]
  /\ pinged \in [Ends -> {None} \cup 0..PingAfter]
  /\ armed \in [Ends -> BOOLEAN]
  /\ wire \in [Ends -> [Kinds -> {None} \cup 0..Delay]]
  /\ frozen \in [Ends -> 0..Horizon]
  /\ froze \subseteq Ends

\* A link both of whose ends keep running is never dropped for silence, however
\* quiet the traffic and whatever the transit times up to Delay.
HealthyLinkStays == froze = {} => link = "up"

\* Why: an end that has asked is waiting for its ping or for the answer to it,
\* and no longer than PingAfter and the transit so far.
Waiting(e) ==
  \/ pinged[e] = None /\ silent[e] <= PingAfter
  \/ wire[Other(e)]["ping"] # None /\ silent[e] <= PingAfter + wire[Other(e)]["ping"]
  \/ wire[e]["pong"] # None /\ silent[e] <= PingAfter + Delay + wire[e]["pong"]

NoneOverdue ==
  /\ \A e \in Ends : (froze = {} /\ modern[e] /\ modern[Other(e)]) => Waiting(e)
  /\ \A e \in Ends : (armed[e] \/ wire[e]["pong"] # None) => modern[Other(e)]
  /\ \A e \in Ends : ~acting[e] => e \in froze

\* A peer that stops acting once it has answered a ping does not hold the
\* bridge's only accept slot for longer than the timeout and one transit.
SilentPeerIsDropped ==
  \A e \in Ends :
    (link = "up" /\ modern[e] /\ armed[e] /\ e \notin froze) => frozen[Other(e)] <= Timeout + Delay

\* A peer that never answered a ping is never dropped: speaking an older
\* protocol is not being dead.
OldPeerIsKept ==
  \A e \in Ends : ~modern[Other(e)] => link # e

=============================================================================
