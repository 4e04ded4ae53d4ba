---------------------------- MODULE Links_proofs ----------------------------
(***************************************************************************)
(* Proofs about a link and what it carries.                                *)
(*                                                                         *)
(* LinkLiveness, for every PingAfter, Timeout and Delay with               *)
(* PingAfter + 2 * Delay < Timeout: a link whose ends keep running is not  *)
(* dropped, and a peer that predates the liveness frames never is.         *)
(* PipeLink, for every timeout, frame size and load: a connection over a   *)
(* Windows pipe ends in time, not before, and complete.                    *)
(* ProjectTools, for every project: what the broker offers is what the     *)
(* game has, when nothing is under way.                                    *)
(***************************************************************************)
EXTENDS LinkLiveness, PipeLink, ProjectTools, SequenceTheorems, TLAPS

USE PingAfterAssumption, DelayAssumption, TimeoutAssumption

\* The three values that clocks and wires are built from.
LEMMA Constants ==
  /\ PingAfter \in Nat /\ Delay \in Nat /\ Timeout \in Nat /\ Horizon \in Nat
  /\ PingAfter >= 1 /\ Delay >= 1 /\ PingAfter + 2 * Delay < Timeout
  /\ Timeout < Horizon /\ None = -1
  BY DEF Horizon, None

\* A link has two ends.
LEMMA OtherEnd == \A e \in Ends : Other(e) \in Ends /\ Other(e) # e /\ Other(Other(e)) = e
  BY DEF Ends, Other

\* What Sent does to a wire.
LEMMA SentFacts ==
  ASSUME NEW w \in [Ends -> [Kinds -> {None} \cup 0..Delay]], NEW e \in Ends, NEW k \in Kinds
  PROVE  /\ Sent(w, e, k) \in [Ends -> [Kinds -> {None} \cup 0..Delay]]
         /\ Sent(w, e, k)[e][k] = IF w[e][k] = None THEN 0 ELSE w[e][k]
         /\ \A f \in Ends, j \in Kinds : f # e \/ j # k => Sent(w, e, k)[f][j] = w[f][j]
  BY Constants DEF Sent

\* A clock never runs past its bound, nor backwards, nor starts by itself.
LEMMA OlderFacts ==
  ASSUME NEW most \in Nat, NEW n \in {None} \cup 0..most
  PROVE  /\ Older(n, most) \in {None} \cup 0..most
         /\ n = None <=> Older(n, most) = None
         /\ n # None => Older(n, most) \in 0..most
         /\ n # None /\ n < most => Older(n, most) = n + 1
         /\ n # None => Older(n, most) <= n + 1
  BY Constants DEF Older

\* A clock that has not reached its bound advances by one.
LEMMA OlderAdvances ==
  ASSUME NEW most \in Nat, NEW n \in 0..most, n # most
  PROVE  Older(n, most) = n + 1
  BY Constants DEF Older

----------------------------------------------------------------------------
(* The type invariant. *)

\* A step keeps every clock within its bound.
LEMMA NextType ==
  ASSUME TypeOK, [Next]_vars
  PROVE  TypeOK'
<1> USE DEF TypeOK
<1>1. ASSUME NEW e \in Ends, NEW k \in Kinds, Receive(e, k) PROVE TypeOK'
  <2> DEFINE w == [wire EXCEPT ![e][k] = None]
  <2>1. w \in [Ends -> [Kinds -> {None} \cup 0..Delay]]
    BY Constants
  <2>2. wire' \in [Ends -> [Kinds -> {None} \cup 0..Delay]]
    <3>1. "pong" \in Kinds
      BY DEF Kinds
    <3>2. Sent(w, Other(e), "pong") \in [Ends -> [Kinds -> {None} \cup 0..Delay]]
      BY <2>1, <3>1, OtherEnd, SentFacts
    <3> QED
      BY <1>1, <2>1, <3>2 DEF Receive
  <2>3. armed' \in [Ends -> BOOLEAN]
    BY <1>1 DEF Receive
  <2>4. silent' \in [Ends -> 0..Horizon] /\ pinged' \in [Ends -> {None} \cup 0..PingAfter]
    BY <1>1, Constants DEF Receive
  <2> QED
    BY <1>1, <2>2, <2>3, <2>4 DEF Receive
<1>2. ASSUME NEW e \in Ends, SendData(e) PROVE TypeOK'
  <2>1. "data" \in Kinds
    BY DEF Kinds
  <2>2. Sent(wire, Other(e), "data") \in [Ends -> [Kinds -> {None} \cup 0..Delay]]
    BY <2>1, OtherEnd, SentFacts
  <2> QED
    BY <1>2, <2>2 DEF SendData
<1>3. ASSUME NEW e \in Ends, GiveUp(e) PROVE TypeOK'
  BY <1>3 DEF GiveUp
<1>4. ASSUME NEW e \in Ends, Ping(e) PROVE TypeOK'
  <2>1. "ping" \in Kinds
    BY DEF Kinds
  <2>2. Sent(wire, Other(e), "ping") \in [Ends -> [Kinds -> {None} \cup 0..Delay]]
    BY <2>1, OtherEnd, SentFacts
  <2>3. pinged' \in [Ends -> {None} \cup 0..PingAfter]
    BY <1>4, Constants DEF Ping
  <2> QED
    BY <1>4, <2>2, <2>3 DEF Ping
<1>5. ASSUME NEW e \in Ends, Suspend(e) PROVE TypeOK'
  <2>1. acting' \in [Ends -> BOOLEAN] /\ frozen' \in [Ends -> 0..Horizon]
    BY <1>5, Constants DEF Suspend
  <2> QED
    BY <1>5, <2>1 DEF Suspend
<1>6. ASSUME NEW e \in Ends, Resume(e) PROVE TypeOK'
  <2>1. acting' \in [Ends -> BOOLEAN] /\ frozen' \in [Ends -> 0..Horizon]
    BY <1>6, Constants DEF Resume
  <2> QED
    BY <1>6, <2>1 DEF Resume
<1>7. CASE Tick
  <2>1. \A e \in Ends : Older(silent[e], Horizon) \in 0..Horizon
    BY Constants, OlderFacts
  <2>2. ASSUME NEW e \in Ends PROVE Older(pinged[e], PingAfter) \in {None} \cup 0..PingAfter
    <3>1. pinged[e] \in {None} \cup 0..PingAfter
      BY <2>2
    <3>2. pinged[e] \in Int
      BY <3>1, Constants
    <3> QED
      BY <3>1, <3>2, Constants DEF Older
  <2>3. ASSUME NEW e \in Ends, NEW k \in Kinds PROVE Older(wire[e][k], Delay) \in {None} \cup 0..Delay
    <3>1. wire[e][k] \in {None} \cup 0..Delay
      OBVIOUS
    <3> HIDE DEF TypeOK
    <3> QED
      BY <3>1, Constants, OlderFacts
  <2>4. \A e \in Ends : Older(frozen[e], Horizon) \in 0..Horizon
    BY Constants, OlderFacts
  <2>5. \A e \in Ends : (IF acting[e] THEN 0 ELSE Older(frozen[e], Horizon)) \in 0..Horizon
    BY <2>4, Constants
  <2> QED
    BY <1>7, <2>1, <2>2, <2>3, <2>5 DEF Tick
<1>8. CASE UNCHANGED vars
  BY <1>8 DEF vars
<1> QED
  BY <1>1, <1>2, <1>3, <1>4, <1>5, <1>6, <1>7, <1>8 DEF Next

\* The initial state is well typed.
LEMMA InitType == Init => TypeOK
  BY Constants DEF Init, TypeOK

\* Every clock stays within its bound in every reachable state.
LEMMA ClocksAreTyped == Spec => []TypeOK
<1>1. TypeOK /\ [Next]_vars => TypeOK'
  BY NextType
<1> QED
  BY <1>1, InitType, PTL DEF Spec

----------------------------------------------------------------------------
(* No acting end is ever overdue while its peer acts too. *)

Overdue == NoneOverdue /\ HealthyLinkStays /\ OldPeerIsKept

\* No end is waiting for anything at the start.
LEMMA InitNoneOverdue == Init => Overdue
<1> SUFFICES ASSUME Init PROVE Overdue
  OBVIOUS
<1>1. \A e \in Ends : Waiting(e)
  BY Constants DEF Init, Waiting
<1>2. \A e \in Ends : ~armed[e] /\ wire[e]["pong"] = None /\ acting[e]
  BY DEF Init, Kinds
<1>3. link = "up" /\ link \notin Ends
  BY DEF Init, Ends
<1> QED
  BY <1>1, <1>2, <1>3 DEF Overdue, NoneOverdue, HealthyLinkStays, OldPeerIsKept

\* An end that is waiting in time is not near its deadline.
LEMMA WaitingIsAlive ==
  ASSUME TypeOK, NEW e \in Ends, Waiting(e)
  PROVE  silent[e] < Timeout
<1>1. wire[e]["pong"] \in {None} \cup 0..Delay /\ wire[Other(e)]["ping"] \in {None} \cup 0..Delay
  BY OtherEnd DEF TypeOK, Kinds
<1>2. silent[e] \in 0..Horizon
  BY DEF TypeOK
<1> QED
  BY <1>1, <1>2, Constants DEF Waiting

\* Reading a frame: the reader starts afresh, and if the frame was the ping its
\* peer is waiting on, the pong takes its place.
LEMMA ReceiveWaiting ==
  ASSUME TypeOK, NoneOverdue, NEW e \in Ends, NEW k \in Kinds, Receive(e, k)
  PROVE  NoneOverdue'
<1> DEFINE o == Other(e)
           w == [wire EXCEPT ![e][k] = None]
<1> USE DEF TypeOK
<1>0. o \in Ends /\ o # e /\ Other(o) = e /\ {"ping", "pong", "data"} = Kinds /\ Ends = {e, o}
  BY OtherEnd DEF Kinds, Ends, Other
<1>1. w \in [Ends -> [Kinds -> {None} \cup 0..Delay]]
  BY Constants
<1>2. wire' = IF k = "ping" /\ modern[e] THEN Sent(w, o, "pong") ELSE w
  BY DEF Receive
<1>3. UNCHANGED <<modern, froze, acting>>
  BY DEF Receive
<1>4. silent'[e] = 0 /\ silent'[o] = silent[o] /\ pinged'[e] = None /\ pinged'[o] = pinged[o]
  BY <1>0 DEF Receive
<1>5. Waiting(e)'
  BY <1>4, Constants DEF Waiting
<1>r. w[o] = wire[o] /\ w[e][k] = None /\ \A j \in Kinds : j # k => w[e][j] = wire[e][j]
  BY <1>0, <1>1
<1>s. "pong" \in Kinds /\ "ping" \in Kinds
  BY <1>0
<1>t. /\ Sent(w, o, "pong")[o]["pong"] = IF w[o]["pong"] = None THEN 0 ELSE w[o]["pong"]
      /\ \A f \in Ends, j \in Kinds : f # o \/ j # "pong" => Sent(w, o, "pong")[f][j] = w[f][j]
  BY <1>0, <1>1, <1>s, SentFacts
<1>6. \A j \in Kinds : wire'[e][j] = w[e][j]
  BY <1>0, <1>2, <1>t
<1>7. wire'[o]["pong"] = IF k = "ping" /\ modern[e] /\ wire[o]["pong"] = None THEN 0 ELSE wire[o]["pong"]
  BY <1>2, <1>r, <1>t
<1>8. wire'[e]["ping"] = IF k = "ping" THEN None ELSE wire[e]["ping"]
  BY <1>6, <1>r, <1>s
<1>9. wire'[e]["pong"] # None => wire[e]["pong"] # None
  BY <1>6, <1>r, <1>s
<1>10. ASSUME Waiting(o), modern[e] PROVE Waiting(o)'
  <2>1. wire[e]["ping"] \in {None} \cup 0..Delay /\ wire[o]["pong"] \in {None} \cup 0..Delay
        /\ silent[o] \in 0..Horizon
    BY <1>0
  <2>2. CASE pinged[o] = None /\ silent[o] <= PingAfter
    BY <1>4, <2>2 DEF Waiting
  <2>3. CASE wire[e]["ping"] # None /\ silent[o] <= PingAfter + wire[e]["ping"]
    <3>1. CASE k = "ping"
      <4>1. wire'[o]["pong"] # None /\ wire'[o]["pong"] >= 0
        BY <1>7, <1>10, <2>1, <3>1, Constants
      <4>2. silent'[o] <= PingAfter + Delay + wire'[o]["pong"]
        BY <1>4, <1>7, <2>1, <2>3, <4>1, Constants
      <4> QED
        BY <4>1, <4>2 DEF Waiting
    <3>2. CASE k # "ping"
      BY <1>0, <1>4, <1>8, <2>3, <3>2 DEF Waiting
    <3> QED
      BY <3>1, <3>2
  <2>4. CASE wire[o]["pong"] # None /\ silent[o] <= PingAfter + Delay + wire[o]["pong"]
    BY <1>4, <1>7, <2>4 DEF Waiting
  <2> QED
    BY <1>0, <1>10, <2>2, <2>3, <2>4 DEF Waiting
<1>11. \A d \in Ends : (armed'[d] \/ wire'[d]["pong"] # None) => modern[Other(d)]
  <2>1. armed'[o] = armed[o] /\ (armed'[e] => armed[e] \/ k = "pong")
    BY <1>0 DEF Receive
  <2>2. wire[e][k] # None
    BY DEF Receive
  <2>3. armed'[e] \/ wire'[e]["pong"] # None => modern[o]
    BY <1>9, <2>1, <2>2 DEF NoneOverdue
  <2>4. armed'[o] \/ wire'[o]["pong"] # None => modern[e]
    BY <1>0, <1>7, <2>1 DEF NoneOverdue
  <2> QED
    BY <1>0, <2>3, <2>4
<1> QED
  BY <1>0, <1>3, <1>5, <1>10, <1>11 DEF NoneOverdue

\* Sending data or a ping leaves both waits as they were, or makes one.
LEMMA SendWaiting ==
  ASSUME TypeOK, NoneOverdue, NEW e \in Ends, SendData(e) \/ Ping(e)
  PROVE  NoneOverdue'
<1> DEFINE o == Other(e)
<1> USE DEF TypeOK
<1>0. o \in Ends /\ o # e /\ Other(o) = e /\ {"ping", "pong", "data"} = Kinds /\ Ends = {e, o}
  BY OtherEnd DEF Kinds, Ends, Other
<1>1. UNCHANGED <<modern, froze, acting, silent, armed>>
  BY DEF SendData, Ping
<1>w. PICK k \in {"data", "ping"} : wire' = Sent(wire, o, k)
  BY DEF SendData, Ping
<1>k. k \in Kinds /\ k # "pong" /\ "pong" \in Kinds /\ "ping" \in Kinds
  BY <1>0
<1>s. /\ wire'[o][k] = IF wire[o][k] = None THEN 0 ELSE wire[o][k]
      /\ \A f \in Ends, j \in Kinds : f # o \/ j # k => wire'[f][j] = wire[f][j]
  <2>1. wire \in [Ends -> [Kinds -> {None} \cup 0..Delay]]
    OBVIOUS
  <2>2. /\ Sent(wire, o, k)[o][k] = IF wire[o][k] = None THEN 0 ELSE wire[o][k]
        /\ \A f \in Ends, j \in Kinds : f # o \/ j # k => Sent(wire, o, k)[f][j] = wire[f][j]
    <3>1. o \in Ends /\ k \in Kinds
      BY <1>0, <1>k
    <3> HIDE DEF TypeOK, o
    <3> QED
      BY <2>1, <3>1, SentFacts
  <2> QED
    BY <1>w, <2>2
<1>2. wire'[e]["pong"] = wire[e]["pong"] /\ wire'[e]["ping"] = wire[e]["ping"] /\ wire'[o]["pong"] = wire[o]["pong"]
  BY <1>0, <1>k, <1>s
<1>3. wire'[o]["ping"] = wire[o]["ping"] \/ (wire[o]["ping"] = None /\ wire'[o]["ping"] = 0)
  <2>1. CASE k = "ping"
    BY <1>s, <2>1
  <2>2. CASE k # "ping"
    BY <1>0, <1>k, <1>s, <2>2
  <2> QED
    BY <2>1, <2>2
<1>4. pinged'[o] = pinged[o]
  BY <1>0 DEF SendData, Ping
<1>5. Waiting(o) => Waiting(o)'
  BY <1>0, <1>1, <1>2, <1>4 DEF Waiting
<1>6. ASSUME Waiting(e) PROVE Waiting(e)'
  <2>1. CASE SendData(e)
    <3>1. pinged'[e] = pinged[e]
      BY <2>1 DEF SendData
    <3> QED
      BY <1>1, <1>2, <1>3, <1>6, <3>1, Constants DEF Waiting
  <2>2. CASE Ping(e)
    <3>1. wire'[o]["ping"] # None /\ wire'[o]["ping"] >= 0
      <4>1. wire[o]["ping"] \in {None} \cup 0..Delay
        BY <1>0
      <4>2. wire'[o]["ping"] = IF wire[o]["ping"] = None THEN 0 ELSE wire[o]["ping"]
        BY <1>0, <2>2, SentFacts DEF Ping
      <4> QED
        BY <4>1, <4>2, Constants
    <3>2. CASE pinged[e] = None /\ silent[e] <= PingAfter
      <4>1. silent'[e] <= PingAfter + wire'[o]["ping"]
        <5>1. wire'[o]["ping"] \in Nat /\ silent[e] \in Nat
          BY <1>0, <1>3, <3>1, Constants
        <5> QED
          BY <1>1, <3>2, <5>1, Constants
      <4> QED
        BY <1>0, <3>1, <4>1 DEF Waiting
    <3>3. CASE ~(pinged[e] = None /\ silent[e] <= PingAfter)
      BY <1>1, <1>2, <1>3, <1>6, <3>1, <3>3, Constants DEF Waiting
    <3> QED
      BY <3>2, <3>3
  <2> QED
    BY <2>1, <2>2
<1> QED
  BY <1>0, <1>1, <1>2, <1>5, <1>6 DEF NoneOverdue

\* Time passes only when every acting end has read what arrived and has asked
\* when it had to, so frames in flight age with the silence they explain.
LEMMA TickWaiting ==
  ASSUME TypeOK, NoneOverdue, HealthyLinkStays, Tick
  PROVE  NoneOverdue'
<1> USE DEF TypeOK
<1>1. UNCHANGED <<modern, froze, acting, armed>>
  BY DEF Tick
<1>2. ASSUME NEW e \in Ends, froze = {}, modern[e], modern[Other(e)] PROVE Waiting(e)'
  <2> DEFINE o == Other(e)
  <2>0. o \in Ends /\ {"ping", "pong", "data"} = Kinds
    BY OtherEnd DEF Kinds
  <2>1. Waiting(e) /\ Acts(e) /\ Acts(o)
    BY <1>2, <2>0 DEF NoneOverdue, HealthyLinkStays, Acts
  <2>2. ~PingDue(e) /\ ~Dead(e) /\ ~HasArrived(e) /\ ~HasArrived(o)
    BY <1>2, <2>0, <2>1 DEF Tick, Urgent
  <2>3. silent[e] \in 0..Horizon /\ silent[e] < Timeout
    BY <2>1, WaitingIsAlive
  <2>4. silent'[e] = silent[e] + 1
    <3>1. Horizon \in Nat /\ Timeout < Horizon /\ silent[e] # Horizon
      BY <2>3, Constants
    <3>2. silent'[e] = Older(silent[e], Horizon)
      BY DEF Tick
    <3> QED
      BY <2>3, <3>1, <3>2, OlderAdvances
  <2>5. pinged[e] = None => pinged'[e] = None
    BY DEF Tick, Older
  <2>6. CASE pinged[e] = None /\ silent[e] <= PingAfter
    <3>1. silent[e] < PingAfter
      BY <2>2, <2>3, <2>6, Constants DEF PingDue
    <3> QED
      BY <2>3, <2>4, <2>5, <2>6, <3>1, Constants DEF Waiting
  <2>7. CASE wire[o]["ping"] # None /\ silent[e] <= PingAfter + wire[o]["ping"]
    <3>1. wire[o]["ping"] \in 0..Delay /\ wire[o]["ping"] # Delay
      BY <2>0, <2>2, <2>7 DEF HasArrived
    <3>2. wire'[o]["ping"] = wire[o]["ping"] + 1
      <4>1. wire'[o]["ping"] = Older(wire[o]["ping"], Delay)
        BY <2>0 DEF Tick
      <4> QED
        BY <3>1, <4>1, Constants, OlderAdvances
    <3> QED
      BY <2>3, <2>4, <2>7, <3>1, <3>2, Constants DEF Waiting
  <2>8. CASE wire[e]["pong"] # None /\ silent[e] <= PingAfter + Delay + wire[e]["pong"]
    <3>1. wire[e]["pong"] \in 0..Delay /\ wire[e]["pong"] # Delay
      BY <2>0, <2>2, <2>8 DEF HasArrived
    <3>2. wire'[e]["pong"] = wire[e]["pong"] + 1
      <4>1. wire'[e]["pong"] = Older(wire[e]["pong"], Delay)
        BY <2>0 DEF Tick
      <4> QED
        BY <3>1, <4>1, Constants, OlderAdvances
    <3> QED
      BY <2>3, <2>4, <2>8, <3>1, <3>2, Constants DEF Waiting
  <2> QED
    BY <2>1, <2>6, <2>7, <2>8 DEF Waiting
<1>3. ASSUME NEW e \in Ends, wire'[e]["pong"] # None PROVE wire[e]["pong"] # None
  BY <1>3 DEF Tick, Older, Kinds
<1> QED
  BY <1>1, <1>2, <1>3 DEF NoneOverdue

\* A step keeps every waiting end within its wait.
LEMMA NextOverdue ==
  ASSUME TypeOK, Overdue, [Next]_vars
  PROVE  Overdue'
<1> USE DEF Overdue
<1>1. ASSUME NEW e \in Ends, NEW k \in Kinds, Receive(e, k) PROVE Overdue'
  <2>1. NoneOverdue'
    BY <1>1, ReceiveWaiting
  <2> QED
    BY <1>1, <2>1 DEF Receive, HealthyLinkStays, OldPeerIsKept
<1>2. ASSUME NEW e \in Ends, SendData(e) \/ Ping(e) PROVE Overdue'
  <2>1. NoneOverdue'
    BY <1>2, SendWaiting
  <2> QED
    BY <1>2, <2>1 DEF SendData, Ping, HealthyLinkStays, OldPeerIsKept
<1>3. ASSUME NEW e \in Ends, GiveUp(e) PROVE Overdue'
  <2>1. armed[e] /\ silent[e] >= Timeout /\ modern[e]
    BY <1>3 DEF GiveUp, Dead, MayAsk
  <2>2. modern[Other(e)]
    BY <2>1 DEF NoneOverdue
  <2>3. froze # {}
    <3>1. SUFFICES ASSUME froze = {} PROVE FALSE
      OBVIOUS
    <3>2. silent[e] < Timeout
      BY <2>1, <2>2, <3>1, WaitingIsAlive DEF NoneOverdue
    <3> QED
      BY <2>1, <3>2, Constants DEF TypeOK
  <2>4. link' = e /\ UNCHANGED <<modern, acting, silent, pinged, armed, wire, froze>>
    BY <1>3 DEF GiveUp
  <2>5. NoneOverdue'
    BY <2>4 DEF NoneOverdue, Waiting
  <2> QED
    BY <2>2, <2>3, <2>4, <2>5 DEF HealthyLinkStays, OldPeerIsKept
<1>4. ASSUME NEW e \in Ends, Suspend(e) PROVE Overdue'
  <2>1. froze' = froze \cup {e} /\ acting' = [acting EXCEPT ![e] = FALSE]
        /\ UNCHANGED <<modern, link, armed, wire>>
    BY <1>4 DEF Suspend
  <2>2. froze' # {}
    BY <2>1
  <2>3. \A d \in Ends : ~acting'[d] => d \in froze'
    BY <2>1 DEF NoneOverdue, TypeOK
  <2> QED
    BY <2>1, <2>2, <2>3 DEF NoneOverdue, HealthyLinkStays, OldPeerIsKept
<1>5. ASSUME NEW e \in Ends, Resume(e) PROVE Overdue'
  <2>1. acting' = [acting EXCEPT ![e] = TRUE] /\ UNCHANGED <<modern, link, armed, wire, silent, pinged, froze>>
    BY <1>5 DEF Resume
  <2>2. \A d \in Ends : ~acting'[d] => d \in froze'
    BY <2>1 DEF NoneOverdue, TypeOK
  <2> QED
    BY <2>1, <2>2 DEF NoneOverdue, HealthyLinkStays, OldPeerIsKept, Waiting
<1>6. CASE Tick
  <2>1. NoneOverdue'
    BY <1>6, TickWaiting
  <2> QED
    BY <1>6, <2>1 DEF Tick, HealthyLinkStays, OldPeerIsKept
<1>7. CASE UNCHANGED vars
  BY <1>7 DEF vars, NoneOverdue, HealthyLinkStays, OldPeerIsKept, Waiting
<1> QED
  BY <1>1, <1>2, <1>3, <1>4, <1>5, <1>6, <1>7 DEF Next

\* The strengthened invariant holds in every reachable state.
LEMMA OverdueInvariant == Spec => []Overdue
<1>1. TypeOK /\ Overdue /\ [Next]_vars => Overdue'
  BY NextOverdue
<1> QED
  BY <1>1, InitNoneOverdue, ClocksAreTyped, PTL DEF Spec

\* A link whose two ends keep running is never dropped for silence, for every
\* ping interval, timeout and transit time with a round trip to spare.
THEOREM HealthyLinksStay == Spec => []HealthyLinkStays
<1>1. Overdue => HealthyLinkStays
  BY DEF Overdue
<1> QED
  BY <1>1, OverdueInvariant, PTL

\* A peer that predates the liveness frames is never dropped for silence.
THEOREM OldPeersAreKept == Spec => []OldPeerIsKept
<1>1. Overdue => OldPeerIsKept
  BY DEF Overdue
<1> QED
  BY <1>1, OverdueInvariant, PTL

----------------------------------------------------------------------------
(* A suspended peer is found out: the last frames it sent are the last input. *)

LastInput ==
  \A e \in Ends :
    /\ acting[e] => frozen[e] = 0
    /\ e \notin froze =>
         /\ acting[e]
         /\ frozen[Other(e)] <= silent[e] + Delay
         /\ \A k \in Kinds : wire[e][k] # None => frozen[Other(e)] <= wire[e][k]

Found == LastInput /\ SilentPeerIsDropped

\* No end is suspended at the start.
LEMMA InitFound == Init => Found
<1> SUFFICES ASSUME Init PROVE Found
  OBVIOUS
<1>1. \A e \in Ends : frozen[e] = 0 /\ silent[e] = 0 /\ acting[e] /\ ~armed[e]
  BY DEF Init
<1>2. \A e \in Ends, k \in Kinds : wire[e][k] = None
  BY DEF Init
<1> QED
  BY <1>1, <1>2, OtherEnd, Constants DEF Found, LastInput, SilentPeerIsDropped

\* A frame leaves an end that is running, so it is no younger than its
\* sender's suspension.
LEMMA SendFound ==
  ASSUME TypeOK, Found, NEW e \in Ends, acting[e], NEW j \in Kinds, NEW w,
         w \in [Ends -> [Kinds -> {None} \cup 0..Delay]],
         \A d \in Ends, k \in Kinds : w[d][k] # None => w[d][k] = wire[d][k],
         wire' = Sent(w, Other(e), j)
  PROVE  \A d \in Ends, k \in Kinds : (d \notin froze /\ wire'[d][k] # None) => frozen[Other(d)] <= wire'[d][k]
<1>1. Other(e) \in Ends /\ frozen[e] = 0 /\ Other(Other(e)) = e
  BY OtherEnd DEF Found, LastInput
<1>2. /\ wire'[Other(e)][j] = IF w[Other(e)][j] = None THEN 0 ELSE w[Other(e)][j]
      /\ \A f \in Ends, k \in Kinds : f # Other(e) \/ k # j => wire'[f][k] = w[f][k]
  BY <1>1, SentFacts
<1>3. SUFFICES ASSUME NEW d \in Ends, NEW k \in Kinds, d \notin froze, wire'[d][k] # None
               PROVE  frozen[Other(d)] <= wire'[d][k]
  OBVIOUS
<1>4. CASE wire'[d][k] = w[d][k]
  BY <1>3, <1>4 DEF Found, LastInput
<1>5. CASE wire'[d][k] # w[d][k]
  <2>1. d = Other(e) /\ k = j
    BY <1>2, <1>5
  <2>2. wire'[d][k] = 0
    BY <1>2, <1>5, <2>1
  <2> QED
    BY <1>1, <2>1, <2>2
<1> QED
  BY <1>4, <1>5

\* What time does to the clocks: those of two running ends stay apart by no
\* more than they were, and the silence of a peer is bounded when it is armed.
LEMMA TickFound ==
  ASSUME TypeOK, Found, Tick
  PROVE  Found'
<1>1. UNCHANGED <<modern, link, acting, armed, froze>> /\ link = "up"
  BY DEF Tick
<1>2. ASSUME NEW e \in Ends PROVE
         /\ silent[e] \in 0..Horizon /\ frozen[e] \in 0..Horizon
         /\ silent'[e] = Older(silent[e], Horizon)
         /\ frozen'[e] = IF acting[e] THEN 0 ELSE Older(frozen[e], Horizon)
  BY DEF Tick, TypeOK
<1>3. ASSUME NEW e \in Ends, e \notin froze
      PROVE  /\ acting[e]
             /\ frozen'[Other(e)] <= silent'[e] + Delay
             /\ \A k \in Kinds : wire'[e][k] # None => frozen'[Other(e)] <= wire'[e][k]
             /\ modern[e] /\ armed[e] => frozen'[Other(e)] <= Timeout + Delay
  <2> DEFINE o == Other(e)
  <2>1. o \in Ends
    BY OtherEnd
  <2>2. acting[e] /\ frozen[o] <= silent[e] + Delay /\ \A k \in Kinds : wire[e][k] # None => frozen[o] <= wire[e][k]
    BY <1>3 DEF Found, LastInput
  <2>3. frozen[o] \in Nat /\ silent[e] \in Nat /\ frozen'[o] <= frozen[o] + 1 /\ frozen'[o] \in Nat /\ frozen[o] <= Horizon /\ frozen'[o] <= Horizon
    BY <1>2, <2>1, Constants DEF Older
  <2>4. silent'[e] = silent[e] + 1 \/ (silent[e] = Horizon /\ silent'[e] = Horizon)
    BY <1>2, Constants DEF Older
  <2>5. frozen'[o] <= silent'[e] + Delay
    BY <2>2, <2>3, <2>4, Constants
  <2>6. ~Urgent(e) /\ Acts(e)
    BY <1>1, <2>2 DEF Tick, Acts
  <2>7. ASSUME NEW k \in Kinds, wire'[e][k] # None PROVE frozen'[o] <= wire'[e][k]
    <3>1. wire[e][k] \in {None} \cup 0..Delay /\ wire'[e][k] = Older(wire[e][k], Delay)
      BY DEF TypeOK, Tick
    <3>2. wire[e][k] # None /\ wire[e][k] # Delay
      BY <2>6, <2>7, <3>1 DEF Urgent, HasArrived, Older
    <3>3. wire'[e][k] = wire[e][k] + 1
      BY <3>1, <3>2, Constants, OlderAdvances
    <3>4. wire[e][k] \in Nat /\ frozen[o] <= wire[e][k]
      BY <2>2, <3>1, <3>2, Constants
    <3> QED
      BY <2>3, <3>3, <3>4
  <2>8. ASSUME modern[e], armed[e] PROVE frozen'[o] <= Timeout + Delay
    <3>1. silent[e] < Timeout
      BY <2>3, <2>6, <2>8, Constants DEF Urgent, Dead
    <3> QED
      BY <2>2, <2>3, <3>1, Constants
  <2> QED
    BY <2>2, <2>5, <2>7, <2>8
<1>4. \A e \in Ends : acting[e] => frozen'[e] = 0
  BY <1>2
<1> QED
  BY <1>1, <1>3, <1>4 DEF Found, LastInput, SilentPeerIsDropped

\* A step keeps the bound that ties a peer's suspension to the silence seen.
LEMMA NextFound ==
  ASSUME TypeOK, Found, [Next]_vars
  PROVE  Found'
<1>1. ASSUME NEW e \in Ends, NEW k \in Kinds, Receive(e, k) PROVE Found'
  <2> DEFINE w == [wire EXCEPT ![e][k] = None]
  <2>1. /\ acting[e] /\ wire[e][k] # None
        /\ silent' = [silent EXCEPT ![e] = 0]
        /\ armed' = [armed EXCEPT ![e] = @ \/ (k = "pong" /\ modern[e])]
        /\ UNCHANGED <<modern, link, acting, frozen, froze>>
    BY <1>1 DEF Receive, Acts
  <2>2. w \in [Ends -> [Kinds -> {None} \cup 0..Delay]]
    BY Constants DEF TypeOK
  <2>3. \A d \in Ends, j \in Kinds : w[d][j] # None => w[d][j] = wire[d][j]
    BY DEF TypeOK
  <2>4. \A d \in Ends, j \in Kinds : (d \notin froze /\ wire'[d][j] # None) => frozen[Other(d)] <= wire'[d][j]
    <3>1. CASE k = "ping" /\ modern[e]
      <4>1. wire' = Sent(w, Other(e), "pong") /\ "pong" \in Kinds
        BY <1>1, <3>1 DEF Receive, Kinds
      <4> HIDE DEF w
      <4> QED
        BY <2>1, <2>2, <2>3, <4>1, SendFound
    <3>2. CASE ~(k = "ping" /\ modern[e])
      <4>1. wire' = w
        BY <1>1, <3>2 DEF Receive
      <4> HIDE DEF w
      <4> QED
        BY <2>3, <4>1 DEF Found, LastInput
    <3> QED
      BY <3>1, <3>2
  <2>5. ASSUME e \notin froze PROVE frozen[Other(e)] <= Delay
    <3>1. frozen[Other(e)] <= wire[e][k] /\ wire[e][k] \in 0..Delay /\ frozen[Other(e)] \in Nat
      BY <2>1, <2>5, OtherEnd, Constants DEF Found, LastInput, TypeOK
    <3> QED
      BY <3>1, Constants
  <2>6. \A d \in Ends : silent'[d] = (IF d = e THEN 0 ELSE silent[d]) /\ (d # e => armed'[d] = armed[d])
    BY <2>1 DEF TypeOK
  <2>7. \A d \in Ends : d \notin froze => frozen[Other(d)] <= silent'[d] + Delay
    BY <2>5, <2>6, Constants DEF Found, LastInput
  <2>8. ASSUME e \notin froze PROVE frozen[Other(e)] <= Timeout + Delay
    <3>1. frozen[Other(e)] \in Nat
      BY OtherEnd DEF TypeOK
    <3> QED
      BY <2>5, <2>8, <3>1, Constants
  <2>9. LastInput'
    BY <2>1, <2>4, <2>7 DEF Found, LastInput
  <2>10. SilentPeerIsDropped'
    BY <2>1, <2>6, <2>8 DEF Found, SilentPeerIsDropped
  <2> QED
    BY <2>9, <2>10 DEF Found
<1>2. ASSUME NEW e \in Ends, SendData(e) \/ Ping(e) PROVE Found'
  <2>1. acting[e] /\ UNCHANGED <<modern, link, acting, silent, armed, frozen, froze>>
    BY <1>2 DEF SendData, Ping, Acts, MayAsk
  <2>2. PICK j \in Kinds : wire' = Sent(wire, Other(e), j)
    BY <1>2 DEF SendData, Ping, Kinds
  <2>3. wire \in [Ends -> [Kinds -> {None} \cup 0..Delay]]
    BY DEF TypeOK
  <2>4. \A d \in Ends, k \in Kinds : (d \notin froze /\ wire'[d][k] # None) => frozen[Other(d)] <= wire'[d][k]
    BY <2>1, <2>2, <2>3, SendFound
  <2> QED
    BY <2>1, <2>4 DEF Found, LastInput, SilentPeerIsDropped
<1>3. ASSUME NEW e \in Ends, GiveUp(e) PROVE Found'
  <2>1. link' \in Ends /\ UNCHANGED <<modern, acting, silent, armed, wire, frozen, froze>>
    BY <1>3 DEF GiveUp
  <2>2. link' # "up"
    BY <2>1 DEF Ends
  <2> QED
    BY <2>1, <2>2 DEF Found, LastInput, SilentPeerIsDropped
<1>4. ASSUME NEW e \in Ends, Suspend(e) \/ Resume(e) PROVE Found'
  <2>1. UNCHANGED <<modern, link, silent, armed, wire>> /\ froze \subseteq froze'
    BY <1>4 DEF Suspend, Resume
  <2>2. frozen' = [frozen EXCEPT ![e] = 0]
    BY <1>4 DEF Suspend, Resume
  <2>3. \A d \in Ends : frozen'[d] <= frozen[d] /\ frozen'[d] \in Nat /\ frozen[d] \in Nat /\ frozen'[e] = 0
    BY <2>2 DEF TypeOK
  <2>4. \A d \in Ends : d \notin froze' => acting'[d]
    BY <1>4 DEF Suspend, Resume, TypeOK, Found, LastInput
  <2>5. \A d \in Ends : acting'[d] => frozen'[d] = 0
    BY <1>4, <2>2 DEF Suspend, Resume, TypeOK, Found, LastInput
  <2>6. ASSUME NEW d \in Ends, d \notin froze'
        PROVE  /\ frozen'[Other(d)] <= silent'[d] + Delay
               /\ \A k \in Kinds : wire'[d][k] # None => frozen'[Other(d)] <= wire'[d][k]
               /\ (link' = "up" /\ modern'[d] /\ armed'[d]) => frozen'[Other(d)] <= Timeout + Delay
    <3>1. frozen'[Other(d)] <= frozen[Other(d)] /\ frozen'[Other(d)] \in Nat /\ frozen[Other(d)] \in Nat
      BY <2>3, OtherEnd
    <3>2. silent[d] \in Nat /\ \A k \in Kinds : wire[d][k] \in Int
      BY Constants DEF TypeOK
    <3>3. /\ frozen[Other(d)] <= silent[d] + Delay
          /\ \A k \in Kinds : wire[d][k] # None => frozen[Other(d)] <= wire[d][k]
          /\ (link = "up" /\ modern[d] /\ armed[d]) => frozen[Other(d)] <= Timeout + Delay
      BY <2>1, <2>6 DEF Found, LastInput, SilentPeerIsDropped
    <3> QED
      BY <2>1, <3>1, <3>2, <3>3, Constants
  <2> QED
    BY <2>4, <2>5, <2>6 DEF Found, LastInput, SilentPeerIsDropped
<1>5. CASE Tick
  BY <1>5, TickFound
<1>6. CASE UNCHANGED vars
  BY <1>6 DEF vars, Found, LastInput, SilentPeerIsDropped
<1> QED
  BY <1>1, <1>2, <1>3, <1>4, <1>5, <1>6 DEF Next

\* A peer that stops acting after it has answered a ping is dropped within the
\* timeout and one transit, for every value of the intervals.
THEOREM SilentPeersAreDropped == Spec => []SilentPeerIsDropped
<1>1. TypeOK /\ Found /\ [Next]_vars => Found'
  BY NextFound
<1>2. Found => SilentPeerIsDropped
  BY DEF Found
<1> QED
  BY <1>1, <1>2, InitFound, ClocksAreTyped, PTL DEF Spec

----------------------------------------------------------------------------
(* One connection over a pipe. *)

\* The write queue's count is of the frames in it and of the writer's frame.
QueueIsCounted == inflight = Len(frames) + IF writer = Parked THEN 0 ELSE 1

PipeTyped ==
  /\ pipe \in {"serving", "draining", "ended"} /\ atStep \in {"drain", "check", "finish"}
  /\ worked \in BOOLEAN /\ sawDone \in BOOLEAN /\ passed \in BOOLEAN
  /\ broken \in BOOLEAN /\ readerDone \in BOOLEAN /\ stopping \in BOOLEAN
  /\ owed \in [Channels -> Nat]
  /\ frames \in Seq(Nat \ {0}) /\ writer \in {Parked} \cup Nat
  /\ inflight \in Nat /\ stamp \in 0..Stall
  /\ peer \in {"open", "closed"}
  /\ stuck \in Nat /\ leaving \in Nat

\* The loop is left once, for one reason; only a closed peer breaks the pipe.
LeftOnce == (why = "none" <=> pipe = "serving") /\ (broken => peer = "closed")

\* A loop left as finished left an empty queue, and nothing fills it any more.
NothingComesBack == why = "finished" => owed["raw"] = 0 /\ owed["local"] = 0 /\ inflight = 0

\* The stamp is the time the writer is stuck, as far as the supervisor needs:
\* it is no less, and no more while anything is outstanding.
StampIsStuck ==
  pipe = "serving" =>
    /\ stuck > 0 => writer > 0
    /\ stuck <= stamp
    /\ ~broken /\ inflight > 0 => stamp <= stuck

\* Since the last tick a pass has found the queue not stalled.
WasChecked == pipe = "serving" /\ (passed \/ atStep = "finish") /\ inflight > 0 => stamp < Stall

SomeOwed == \E c \in Channels : owed[c] > 0

\* The pass under way will leave the loop before another unit passes.
LeavesThisPass ==
  /\ ~passed
  /\ \/ broken /\ atStep \in {"drain", "check"}
     \/ stopping /\ atStep = "drain"

\* With the peer closed, the next write breaks the pipe.
Breaks == broken \/ frames # <<>> \/ writer > 0

\* How far the loop may be behind a peer that closed or a stop: one unit until
\* it is seen, one for an answer that came between the drain and the end of the
\* pass, one for the write that finds the pipe broken.
LagIsBounded ==
  pipe = "serving" /\ leaving > 0 =>
    \/ LeavesThisPass /\ leaving <= 3
    \/ /\ peer = "closed" /\ readerDone
       /\ \/ /\ leaving = 1
             /\ \/ Breaks
                \/ inflight = 0 /\ passed /\ atStep = "drain" /\ SomeOwed
                \/ inflight = 0 /\ ~passed /\ (atStep = "finish" => sawDone)
          \/ /\ leaving = 2
             /\ \/ Breaks
                \/ atStep = "drain" /\ ~passed /\ SomeOwed

PipeInv ==
  /\ PipeTyped /\ LeftOnce /\ QueueIsCounted /\ NothingComesBack
  /\ StampIsStuck /\ WasChecked /\ LagIsBounded
  /\ StallIsJust /\ SlotIsFreed

\* The constants the proofs compare with.
LEMMA PipeConstants ==
  /\ Stall \in Nat /\ Stall > 0 /\ Grace \in Nat /\ Grace >= 2
  /\ BigFrame \in Nat \ {0} /\ Parked = -1
  BY PipeAssumption, GraceAssumption DEF Parked

Pushed(a, b, c, size) == [i \in 1..a |-> 1] \o [i \in 1..b |-> size] \o [i \in 1..c |-> 1]

\* What is pushed for the three kinds of frames is as many frames.
LEMMA PushedFacts ==
  ASSUME NEW a \in Nat, NEW b \in Nat, NEW c \in Nat, NEW size \in Nat \ {0}
  PROVE  Pushed(a, b, c, size) \in Seq(Nat \ {0}) /\ Len(Pushed(a, b, c, size)) = a + b + c
<1> DEFINE x == [i \in 1..a |-> 1]
           y == [i \in 1..b |-> size]
           z == [i \in 1..c |-> 1]
<1>1. x \in Seq(Nat \ {0}) /\ Len(x) = a
  OBVIOUS
<1>2. y \in Seq(Nat \ {0}) /\ Len(y) = b
  OBVIOUS
<1>3. z \in Seq(Nat \ {0}) /\ Len(z) = c
  OBVIOUS
<1> HIDE DEF x, y, z
<1>4. x \o y \in Seq(Nat \ {0}) /\ Len(x \o y) = a + b
  BY <1>1, <1>2, ConcatProperties
<1>5. (x \o y) \o z \in Seq(Nat \ {0}) /\ Len((x \o y) \o z) = a + b + c
  BY <1>3, <1>4, ConcatProperties
<1> QED BY <1>5 DEF x, y, z, Pushed

\* Frames that are pushed are behind those that wait.
LEMMA PushFacts ==
  ASSUME PipeTyped, QueueIsCounted, NEW sizes \in Seq(Nat \ {0}), Push(sizes)
  PROVE  /\ frames' \in Seq(Nat \ {0}) /\ inflight' \in Nat /\ stamp' \in 0..Stall
         /\ Len(frames') = Len(frames) + Len(sizes)
         /\ inflight' = inflight + Len(sizes)
         /\ Len(sizes) > 0 => frames' # <<>>
         /\ stamp' = IF inflight = 0 THEN 0 ELSE stamp
         /\ writer' = writer /\ broken' = broken
<1>1. frames' = frames \o sizes
  BY DEF Push
<1>2. frames' \in Seq(Nat \ {0}) /\ Len(frames') = Len(frames) + Len(sizes)
  BY <1>1 DEF PipeTyped
<1>3. inflight' \in Nat /\ inflight' = inflight + Len(sizes) /\ Len(sizes) \in Nat /\ Len(frames) \in Nat
  BY DEF Push, PipeTyped
<1>4. stamp' \in 0..Stall
  BY PipeConstants DEF Push, PipeTyped
<1>5. Len(sizes) > 0 => frames' # <<>>
  BY <1>2, <1>3
<1> QED BY <1>2, <1>3, <1>4, <1>5 DEF Push

\* An empty queue is an empty queue.
LEMMA EmptyQueue ==
  ASSUME PipeTyped, QueueIsCounted
  PROVE  /\ inflight = 0 <=> frames = <<>> /\ writer = Parked
         /\ frames # <<>> => Len(frames) > 0
         /\ Len(frames) \in Nat
  BY PipeConstants DEF PipeTyped, QueueIsCounted

\* A connection starts with its hello queued and nothing late.
LEMMA InitPipe == PipeInit => PipeInv
<1> SUFFICES ASSUME PipeInit PROVE PipeInv
  OBVIOUS
<1>1. frames \in Seq(Nat \ {0}) /\ Len(frames) = 1
  BY DEF PipeInit
<1>2. PipeTyped
  <2>1. owed \in [Channels -> Nat]
    BY DEF PipeInit
  <2>2. writer \in {Parked} \cup Nat /\ stamp \in 0..Stall
    BY PipeConstants DEF PipeInit
  <2> QED BY <1>1, <2>1, <2>2 DEF PipeInit, PipeTyped
<1> QED BY <1>1, <1>2, PipeConstants
  DEF PipeInit, PipeInv, LeftOnce, QueueIsCounted, NothingComesBack, StampIsStuck, WasChecked,
      LagIsBounded, StallIsJust, SlotIsFreed

\* Leaving the loop keeps what is counted and starts the drain's own bound.
LEMMA LeaveKeepsPipe ==
  ASSUME PipeInv, NEW reason \in {"broken", "stopped", "stalled", "finished", "silent"},
         pipe = "serving", Leave(reason),
         reason = "stalled" => stuck >= Stall,
         reason = "finished" => (\A c \in Channels : owed[c] = 0) /\ inflight = 0,
         owed' = [c \in Channels |-> 0] \/ owed' = owed,
         UNCHANGED <<queue, readerDone, peer, stopping, stuck>>
  PROVE  PipeInv'
<1> USE DEF PipeInv, Leave, queue
<1>1. PipeTyped'
  <2>1. owed' \in [Channels -> Nat]
    BY DEF PipeTyped
  <2> QED BY <2>1 DEF PipeTyped
<1>2. LeftOnce' /\ QueueIsCounted'
  BY DEF LeftOnce, QueueIsCounted
<1>3. NothingComesBack'
  BY DEF NothingComesBack, Channels
<1>4. StampIsStuck' /\ WasChecked' /\ LagIsBounded' /\ StallIsJust'
  BY DEF StampIsStuck, WasChecked, LagIsBounded, StallIsJust
<1>5. leaving <= 3
  BY DEF LagIsBounded, PipeTyped
<1>6. SlotIsFreed'
  BY <1>5, PipeConstants DEF SlotIsFreed, PipeTyped
<1> QED BY <1>1, <1>2, <1>3, <1>4, <1>6

\* One pass of the supervisor moves what is owed into the queue.
LEMMA DrainKeepsPipe == ASSUME PipeInv, Drain PROVE PipeInv'
<1> DEFINE work == \E c \in Channels : owed[c] > 0
<1>0. PipeTyped /\ QueueIsCounted /\ PipeTyped
  BY DEF PipeInv
<1>1. CASE ~work /\ Goes("check") /\ UNCHANGED <<worked, sawDone, queue, leaving>>
  <2>1. PipeTyped'
    BY <1>1 DEF PipeInv, PipeTyped, Drain, Goes, queue
  <2>2. ~stopping /\ ~SomeOwed /\ (Breaks => Breaks')
    BY <1>1 DEF Drain, SomeOwed, Breaks, queue
  <2>3. (LeavesThisPass => LeavesThisPass') /\ atStep' = "check" /\ atStep = "drain"
    <3>1. UNCHANGED <<passed, broken>> /\ atStep = "drain" /\ atStep' = "check"
      BY <1>1 DEF Drain, Goes, queue
    <3> QED BY <2>2, <3>1 DEF LeavesThisPass
  <2>4. LagIsBounded'
    BY <1>1, <2>2, <2>3 DEF PipeInv, LagIsBounded, Drain, Goes, queue
  <2> QED BY <1>1, <2>1, <2>4
    DEF PipeInv, LeftOnce, QueueIsCounted, NothingComesBack, StampIsStuck, WasChecked, StallIsJust,
        SlotIsFreed, Drain, Goes, queue
<1>2. CASE work /\ broken /\ Leave("broken") /\ UNCHANGED queue
  BY <1>2, LeaveKeepsPipe DEF Drain
<1>3. CASE /\ work /\ ~broken /\ Goes("check") /\ worked' = TRUE /\ UNCHANGED <<sawDone, leaving>>
           /\ \E size \in IF owed["outbound"] > 0 THEN {1, BigFrame} ELSE {1} :
                Push([i \in 1..owed["raw"] + owed["local"] |-> 1]
                     \o [i \in 1..owed["outbound"] |-> size] \o [i \in 1..owed["events"] |-> 1])
  <2>1. PICK size \in Nat \ {0} :
          Push([i \in 1..owed["raw"] + owed["local"] |-> 1]
               \o [i \in 1..owed["outbound"] |-> size] \o [i \in 1..owed["events"] |-> 1])
    <3>1. \A size \in IF owed["outbound"] > 0 THEN {1, BigFrame} ELSE {1} : size \in Nat \ {0}
      BY PipeConstants
    <3> QED BY <1>3, <3>1
  <2>2. /\ owed["raw"] \in Nat /\ owed["local"] \in Nat /\ owed["outbound"] \in Nat /\ owed["events"] \in Nat
        /\ owed["raw"] + owed["local"] + owed["outbound"] + owed["events"] > 0
    BY <1>3, <1>0 DEF PipeTyped, Channels
  <2>3. PICK sizes \in Seq(Nat \ {0}) : Push(sizes) /\ Len(sizes) > 0
    <3>1. PICK a \in Nat, b \in Nat, c \in Nat :
            a = owed["raw"] + owed["local"] /\ b = owed["outbound"] /\ c = owed["events"]
      BY <2>2
    <3>2. Push(Pushed(a, b, c, size))
      BY <2>1, <3>1 DEF Pushed
    <3>3. Pushed(a, b, c, size) \in Seq(Nat \ {0}) /\ Len(Pushed(a, b, c, size)) = a + b + c
      BY PushedFacts
    <3>4. a + b + c > 0
      BY <2>2, <3>1
    <3> QED BY <3>2, <3>3, <3>4
  <2>4. /\ frames' \in Seq(Nat \ {0}) /\ inflight' \in Nat /\ stamp' \in 0..Stall
        /\ Len(frames') = Len(frames) + Len(sizes) /\ inflight' = inflight + Len(sizes)
        /\ frames' # <<>> /\ stamp' = (IF inflight = 0 THEN 0 ELSE stamp)
        /\ writer' = writer /\ broken' = broken
    BY <1>0, <2>3, PushFacts
  <2>5. Len(sizes) \in Nat /\ Len(frames) \in Nat
    BY <1>0 DEF PipeTyped
  <2>6. PipeTyped'
    BY <1>3, <2>4 DEF PipeInv, PipeTyped, Drain, Goes
  <2>7. QueueIsCounted' /\ LeftOnce' /\ NothingComesBack'
    <3>1. QueueIsCounted'
      BY <2>4, <2>5, <1>0, PipeConstants DEF QueueIsCounted, PipeTyped
    <3>2. LeftOnce' /\ NothingComesBack'
      BY <1>3, <2>4 DEF PipeInv, LeftOnce, NothingComesBack, Drain, Goes
    <3> QED BY <3>1, <3>2
  <2>8. StampIsStuck'
    <3>1. inflight = 0 => writer = Parked
      BY <1>0, EmptyQueue
    <3> QED BY <1>3, <2>4, <3>1, PipeConstants DEF PipeInv, PipeTyped, StampIsStuck, Drain, Goes
  <2>9. WasChecked' /\ StallIsJust' /\ SlotIsFreed'
    BY <1>3, <2>4, PipeConstants DEF PipeInv, PipeTyped, WasChecked, StallIsJust, SlotIsFreed, Drain, Goes
  <2>10. LagIsBounded'
    <3>1. Breaks' /\ ~stopping /\ ~broken
      BY <1>3, <2>4 DEF Breaks, Drain
    <3>2. ~LeavesThisPass
      BY <3>1 DEF LeavesThisPass
    <3>3. UNCHANGED <<pipe, leaving, peer, readerDone>>
      BY <1>3 DEF Drain, Goes
    <3> QED BY <3>1, <3>2, <3>3 DEF PipeInv, LagIsBounded
  <2> QED BY <2>6, <2>7, <2>8, <2>9, <2>10 DEF PipeInv
<1> QED BY <1>1, <1>2, <1>3 DEF Drain

\* A pass that finds the pipe broken or stalled leaves; any other goes on.
LEMMA CheckKeepsPipe == ASSUME PipeInv, Check PROVE PipeInv'
<1>1. CASE broken /\ Leave("broken")
  BY <1>1, LeaveKeepsPipe DEF Check
<1>2. CASE ~broken /\ Stalled /\ Leave("stalled")
  <2>1. stuck >= Stall
    BY <1>2, PipeConstants DEF Check, PipeInv, StampIsStuck, Stalled, Pending, PipeTyped
  <2> QED BY <1>2, <2>1, LeaveKeepsPipe DEF Check
<1>3. CASE ~broken /\ ~Stalled /\ Goes("finish") /\ sawDone' = readerDone /\ UNCHANGED <<worked, leaving>>
  <2>1. PipeTyped' /\ LeftOnce' /\ QueueIsCounted' /\ NothingComesBack' /\ StallIsJust' /\ SlotIsFreed' /\ StampIsStuck'
    BY <1>3 DEF PipeInv, PipeTyped, LeftOnce, QueueIsCounted, NothingComesBack, StallIsJust, SlotIsFreed,
                StampIsStuck, Check, Goes, queue
  <2>2. WasChecked'
    BY <1>3, PipeConstants DEF PipeInv, PipeTyped, WasChecked, Stalled, Pending, Check, Goes, queue
  <2>3. LagIsBounded'
    <3>1. ~LeavesThisPass /\ (Breaks' <=> Breaks) /\ inflight' = inflight
      BY <1>3 DEF LeavesThisPass, Breaks, Check, Goes, queue
    <3>2. atStep = "check" /\ UNCHANGED <<passed, leaving, pipe, peer, readerDone>> /\ (sawDone' <=> readerDone)
      BY <1>3 DEF Check, Goes
    <3> QED BY <3>1, <3>2 DEF PipeInv, LagIsBounded
  <2> QED BY <2>1, <2>2, <2>3 DEF PipeInv
<1> QED BY <1>1, <1>2, <1>3 DEF Check

\* The end of a pass: finish, give up, ask, or go on.
LEMMA EndPassKeepsPipe == ASSUME PipeInv, EndPass PROVE PipeInv'
<1> USE DEF EndPass
<1>0. PipeTyped /\ QueueIsCounted
  BY DEF PipeInv
<1>1. CASE Leave("finished") /\ Finished /\ UNCHANGED queue
  <2>1. inflight = 0
    BY <1>1, <1>0 DEF Finished, Pending, PipeTyped
  <2> QED BY <1>1, <2>1, LeaveKeepsPipe DEF Finished
<1>2. CASE (Leave("silent") \/ Leave("broken")) /\ UNCHANGED queue
  BY <1>2, LeaveKeepsPipe
<1>3. CASE NextPass /\ UNCHANGED queue /\ ~Finished
  <2>1. PipeTyped' /\ LeftOnce' /\ QueueIsCounted' /\ NothingComesBack' /\ StallIsJust' /\ SlotIsFreed' /\ StampIsStuck'
    BY <1>3 DEF PipeInv, PipeTyped, LeftOnce, QueueIsCounted, NothingComesBack, StallIsJust, SlotIsFreed,
                StampIsStuck, NextPass, queue
  <2>2. WasChecked'
    BY <1>3 DEF PipeInv, WasChecked, NextPass, queue
  <2>3. (sawDone /\ inflight = 0) => SomeOwed
    BY <1>3, <1>0 DEF Finished, Pending, SomeOwed, PipeTyped
  <2>4. LagIsBounded'
    <3>1. ~LeavesThisPass /\ (Breaks' <=> Breaks) /\ inflight' = inflight /\ (SomeOwed' <=> SomeOwed)
      BY <1>3 DEF LeavesThisPass, Breaks, SomeOwed, NextPass, queue
    <3>2. atStep = "finish" /\ passed' /\ atStep' = "drain"
          /\ UNCHANGED <<leaving, pipe, peer, readerDone>>
      BY <1>3 DEF NextPass
    <3> QED BY <2>3, <3>1, <3>2 DEF PipeInv, LagIsBounded
  <2> QED BY <2>1, <2>2, <2>4 DEF PipeInv
<1>4. CASE ~broken /\ Push(<<1>>) /\ NextPass
  <2>1. <<1>> \in Seq(Nat \ {0}) /\ Len(<<1>>) = 1
    OBVIOUS
  <2>2. /\ frames' \in Seq(Nat \ {0}) /\ inflight' \in Nat /\ stamp' \in 0..Stall
        /\ Len(frames') = Len(frames) + 1 /\ inflight' = inflight + 1
        /\ frames' # <<>> /\ stamp' = (IF inflight = 0 THEN 0 ELSE stamp)
        /\ writer' = writer /\ broken' = broken
    <3>1. Push(<<1>>)
      BY <1>4
    <3>2. \A sizes \in Seq(Nat \ {0}) : Push(sizes) =>
            /\ frames' \in Seq(Nat \ {0}) /\ inflight' \in Nat /\ stamp' \in 0..Stall
            /\ Len(frames') = Len(frames) + Len(sizes) /\ inflight' = inflight + Len(sizes)
            /\ Len(sizes) > 0 => frames' # <<>>
            /\ stamp' = (IF inflight = 0 THEN 0 ELSE stamp)
            /\ writer' = writer /\ broken' = broken
      BY <1>0, PushFacts
    <3> DEFINE one == <<1>>
    <3>3. one \in Seq(Nat \ {0}) /\ Len(one) = 1 /\ Push(one)
      BY <2>1, <3>1
    <3> HIDE DEF one
    <3>4. Len(one) > 0
      BY <3>3
    <3>5. frames' # <<>>
      BY <3>2, <3>3, <3>4, Zenon
    <3> QED BY <3>2, <3>3, <3>5
  <2>3. PipeTyped'
    BY <1>4, <2>2 DEF PipeInv, PipeTyped, NextPass
  <2>4. QueueIsCounted' /\ LeftOnce' /\ NothingComesBack'
    <3>1. Len(frames) \in Nat
      BY <1>0 DEF PipeTyped
    <3> QED BY <1>4, <2>2, <3>1 DEF PipeInv, QueueIsCounted, LeftOnce, NothingComesBack, NextPass, PipeTyped
  <2>5. StampIsStuck'
    <3>1. inflight = 0 => writer = Parked
      BY <1>0, EmptyQueue
    <3> QED BY <1>4, <2>2, <3>1, PipeConstants DEF PipeInv, PipeTyped, StampIsStuck, NextPass
  <2>6. WasChecked' /\ StallIsJust' /\ SlotIsFreed'
    BY <1>4, <2>2, PipeConstants DEF PipeInv, PipeTyped, WasChecked, StallIsJust, SlotIsFreed, NextPass
  <2>7. LagIsBounded'
    <3>1. Breaks' /\ ~LeavesThisPass
      BY <1>4, <2>2 DEF Breaks, LeavesThisPass
    <3>2. UNCHANGED <<leaving, pipe, peer, readerDone>>
      BY <1>4 DEF NextPass
    <3> QED BY <3>1, <3>2 DEF PipeInv, LagIsBounded
  <2> QED BY <2>3, <2>4, <2>5, <2>6, <2>7 DEF PipeInv
<1> QED BY <1>1, <1>2, <1>3, <1>4

\* The writer's own steps.
LEMMA WriterKeepsPipe == ASSUME PipeInv, TakeFrame \/ WriteChunk \/ FrameOut PROVE PipeInv'
<1>0. PipeTyped /\ QueueIsCounted
  BY DEF PipeInv
<1>1. CASE TakeFrame
  <2>1. /\ Head(frames) \in Nat \ {0} /\ Tail(frames) \in Seq(Nat \ {0})
        /\ Len(Tail(frames)) = Len(frames) - 1 /\ Len(frames) \in Nat
    BY <1>1, <1>0 DEF TakeFrame, PipeTyped
  <2>2. PipeTyped' /\ QueueIsCounted'
    BY <1>1, <1>0, <2>1, PipeConstants DEF TakeFrame, supervisor, PipeTyped, QueueIsCounted, clocks
  <2>3. inflight # 0
    BY <1>1, <1>0, EmptyQueue DEF TakeFrame
  <2>4. LagIsBounded'
    <3>1. Breaks' /\ (LeavesThisPass => LeavesThisPass')
      BY <1>1, <2>1, PipeConstants DEF Breaks, LeavesThisPass, TakeFrame, supervisor
    <3>2. UNCHANGED <<leaving, pipe, peer, readerDone>>
      BY <1>1 DEF TakeFrame, supervisor, clocks
    <3> QED BY <3>1, <3>2 DEF PipeInv, LagIsBounded
  <2> QED BY <1>1, <2>1, <2>2, <2>3, <2>4, PipeConstants
    DEF PipeInv, TakeFrame, supervisor, clocks, PipeTyped, LeftOnce, NothingComesBack, StallIsJust, SlotIsFreed,
        StampIsStuck, WasChecked
<1>2. CASE WriteChunk
  <2> USE <1>2 DEF WriteChunk, Progress, supervisor
  <2>1. PipeTyped' /\ QueueIsCounted'
    <3>1. writer' \in Nat /\ writer \in Nat
      BY <1>0, PipeConstants DEF PipeTyped
    <3>2. stamp' \in 0..Stall /\ stuck' \in Nat /\ broken' \in BOOLEAN
      <4>1. stamp' \in 0..Stall
        BY <1>0, PipeConstants DEF PipeTyped
      <4>2. (stuck' = 0 \/ stuck' = stuck) /\ (broken' = TRUE \/ broken' = broken)
        OBVIOUS
      <4>3. stuck \in Nat /\ broken \in BOOLEAN
        BY <1>0 DEF PipeTyped
      <4>4. broken' \in BOOLEAN
        BY <4>2, <4>3
      <4>5. stuck' \in Nat
        BY <4>2, <4>3
      <4> QED BY <4>1, <4>4, <4>5
    <3>3. writer' # Parked /\ writer # Parked
      BY <3>1, PipeConstants
    <3>4. PipeTyped'
      BY <1>0, <3>1, <3>2 DEF PipeTyped
    <3> QED BY <1>0, <3>3, <3>4 DEF QueueIsCounted
  <2>2. inflight # 0
    BY <1>0, EmptyQueue, PipeConstants
  <2>3. LagIsBounded'
    <3>1. LeavesThisPass => LeavesThisPass'
      BY DEF LeavesThisPass
    <3>2. peer = "closed" => Breaks'
      BY DEF Breaks
    <3>3. UNCHANGED <<leaving, pipe, peer, readerDone>>
      OBVIOUS
    <3> QED BY <3>1, <3>2, <3>3 DEF PipeInv, LagIsBounded
  <2>4. StampIsStuck' /\ WasChecked'
    BY <1>0, PipeConstants DEF PipeInv, PipeTyped, StampIsStuck, WasChecked, LeftOnce
  <2>5. LeftOnce' /\ NothingComesBack' /\ StallIsJust' /\ SlotIsFreed'
    BY <1>0, <2>2 DEF PipeInv, PipeTyped, LeftOnce, NothingComesBack, StallIsJust, SlotIsFreed
  <2> QED BY <2>1, <2>3, <2>4, <2>5 DEF PipeInv
<1>3. CASE FrameOut
  <2> USE <1>3 DEF FrameOut, supervisor, clocks
  <2>1. Len(frames) \in Nat /\ inflight = Len(frames) + 1
    BY <1>0, PipeConstants DEF PipeTyped, QueueIsCounted
  <2>2. PipeTyped' /\ QueueIsCounted'
    BY <1>0, <2>1, PipeConstants DEF PipeTyped, QueueIsCounted
  <2>3. LagIsBounded'
    <3>1. (LeavesThisPass => LeavesThisPass') /\ (Breaks => Breaks') /\ SomeOwed' = SomeOwed
      BY DEF LeavesThisPass, Breaks, SomeOwed
    <3>2. inflight # 0
      BY <2>1
    <3> QED BY <3>1, <3>2 DEF PipeInv, LagIsBounded
  <2>4. StampIsStuck' /\ WasChecked'
    BY <1>0, <2>1, PipeConstants DEF PipeInv, PipeTyped, StampIsStuck, WasChecked
  <2>5. LeftOnce' /\ NothingComesBack' /\ StallIsJust' /\ SlotIsFreed'
    BY <2>1 DEF PipeInv, LeftOnce, NothingComesBack, StallIsJust, SlotIsFreed
  <2> QED BY <2>2, <2>3, <2>4, <2>5 DEF PipeInv
<1> QED BY <1>1, <1>2, <1>3

\* What the reader, the dispatcher, the peer and the editor do.
LEMMA OthersKeepPipe ==
  ASSUME PipeInv,
         \/ \E kind \in {"ping", "pong", "refused", "command"} : FrameRead(kind)
         \/ ReaderEnds
         \/ \E c \in {"outbound", "events"} : DispatcherSends(c)
         \/ PeerReads \/ PeerCloses \/ StopListener
  PROVE  PipeInv'
<1> USE DEF supervisor, queue, clocks
<1>0. PipeTyped
  BY DEF PipeInv
<1>1. ASSUME NEW kind, FrameRead(kind) PROVE PipeInv'
  <2> USE <1>1 DEF FrameRead
  <2>1. PipeTyped'
    BY <1>0 DEF PipeTyped, Channels
  <2>2. LagIsBounded'
    BY DEF PipeInv, LagIsBounded, LeavesThisPass
  <2> QED BY <2>1, <2>2
    DEF PipeInv, LeftOnce, QueueIsCounted, NothingComesBack, StampIsStuck, WasChecked, StallIsJust, SlotIsFreed
<1>2. CASE ReaderEnds
  BY <1>2 DEF ReaderEnds, PipeInv, PipeTyped, LeftOnce, QueueIsCounted, NothingComesBack, StampIsStuck, WasChecked,
              LagIsBounded, LeavesThisPass, Breaks, SomeOwed, StallIsJust, SlotIsFreed
<1>3. ASSUME NEW c \in {"outbound", "events"}, DispatcherSends(c) PROVE PipeInv'
  <2> USE <1>3 DEF DispatcherSends
  <2>1. PipeTyped' /\ (SomeOwed => SomeOwed')
    BY <1>0 DEF PipeTyped, Channels, SomeOwed
  <2>2. LagIsBounded'
    BY <2>1 DEF PipeInv, LagIsBounded, LeavesThisPass, Breaks
  <2> QED BY <2>1, <2>2
    DEF PipeInv, LeftOnce, QueueIsCounted, NothingComesBack, StampIsStuck, WasChecked, StallIsJust, SlotIsFreed
<1>4. CASE PeerReads
  BY <1>4 DEF PeerReads, PipeInv, PipeTyped, LeftOnce, QueueIsCounted, NothingComesBack, StampIsStuck, WasChecked,
              LagIsBounded, LeavesThisPass, Breaks, SomeOwed, StallIsJust, SlotIsFreed
<1>5. CASE PeerCloses
  BY <1>5 DEF PeerCloses, PipeInv, PipeTyped, LeftOnce, QueueIsCounted, NothingComesBack, StampIsStuck, WasChecked,
              LagIsBounded, LeavesThisPass, Breaks, SomeOwed, StallIsJust, SlotIsFreed
<1>6. CASE StopListener
  BY <1>6 DEF StopListener, PipeInv, PipeTyped, LeftOnce, QueueIsCounted, NothingComesBack, StampIsStuck, WasChecked,
              LagIsBounded, LeavesThisPass, Breaks, SomeOwed, StallIsJust, SlotIsFreed
<1> QED BY <1>1, <1>2, <1>3, <1>4, <1>5, <1>6

\* A unit of time passes.
LEMMA TickKeepsPipe == ASSUME PipeInv, PipeTick PROVE PipeInv'
<1> USE DEF PipeTick
<1>0. PipeTyped /\ QueueIsCounted
  BY DEF PipeInv
<1>1. PipeTyped'
  <2>1. stamp' \in 0..Stall
    BY <1>0, PipeConstants DEF PipeTyped, Capped
  <2>2. stuck' \in Nat
    <3>1. stuck' = stuck + 1 \/ stuck' = stuck
      OBVIOUS
    <3> QED BY <1>0, <3>1 DEF PipeTyped
  <2>3. leaving' \in Nat /\ passed' \in BOOLEAN
    <3>1. leaving' = leaving + 1 \/ leaving' = 0
      OBVIOUS
    <3>2. leaving \in Nat
      BY <1>0 DEF PipeTyped
    <3>3. leaving + 1 \in Nat /\ 0 \in Nat
      BY <3>2
    <3>4. passed' \in BOOLEAN
      OBVIOUS
    <3>5. leaving' \in Nat
      BY <3>1, <3>3
    <3> QED BY <3>4, <3>5
  <2> QED BY <1>0, <2>1, <2>2, <2>3 DEF PipeTyped
<1>2. QueueIsCounted' /\ LeftOnce' /\ NothingComesBack' /\ WasChecked'
  BY DEF PipeInv, QueueIsCounted, LeftOnce, NothingComesBack, WasChecked
<1>3. StallIsJust'
  <2>1. stuck' >= stuck /\ stuck' \in Nat /\ stuck \in Nat /\ why' = why
    BY <1>0 DEF PipeTyped
  <2> QED BY <2>1, PipeConstants DEF PipeInv, StallIsJust
<1>4. pipe = "serving" /\ ~broken /\ inflight > 0 => writer > 0
  <2>1. ~broken /\ inflight > 0 => writer > 0
    BY <1>0, EmptyQueue DEF WriterWaits
  <2> QED BY <2>1
<1>5. StampIsStuck'
  <2>1. SUFFICES ASSUME pipe = "serving" PROVE StampIsStuck'
    BY DEF StampIsStuck
  <2>2. writer > 0 => inflight > 0
    BY <1>0, EmptyQueue, PipeConstants DEF PipeTyped
  <2>3. inflight > 0 => stamp < Stall
    BY <2>1 DEF PipeInv, WasChecked
  <2> QED BY <1>0, <1>4, <2>1, <2>2, <2>3, PipeConstants DEF PipeInv, PipeTyped, StampIsStuck, Capped
<1>6. LagIsBounded'
  <2>1. SUFFICES ASSUME pipe = "serving" PROVE LagIsBounded'
    BY DEF LagIsBounded
  <2>2. passed /\ atStep = "drain" /\ ~passed' /\ atStep' = "drain" /\ pipe' = "serving"
    BY <2>1, <1>0, <1>1 DEF PipeTyped
  <2>3. Breaks /\ peer = "closed" => broken
    BY <1>0, PipeConstants DEF Breaks, WriterWaits
  <2>4. SomeOwed' = SomeOwed
    BY DEF SomeOwed
  <2>5. CASE stopping \/ broken
    <3>1. LeavesThisPass'
      BY <2>5, <2>2 DEF LeavesThisPass
    <3>2. leaving' <= 3
      BY <1>0, <2>1, <2>2 DEF PipeInv, LagIsBounded, LeavesThisPass, PipeTyped
    <3> QED BY <3>1, <3>2 DEF LagIsBounded
  <2>6. CASE ~stopping /\ ~broken /\ leaving = 0
    <3>1. CASE peer = "open"
      BY <2>1, <2>6, <3>1 DEF LagIsBounded
    <3>2. CASE peer = "closed"
      <4>1. inflight = 0 /\ readerDone
        BY <3>2, <2>6, <1>0, EmptyQueue DEF WriterWaits, ReaderWaits
      <4> QED BY <4>1, <2>2, <2>6, <3>2 DEF LagIsBounded
    <3> QED BY <3>1, <3>2, <1>0 DEF PipeTyped
  <2>7. CASE ~stopping /\ ~broken /\ leaving > 0
    <3>1. peer = "closed" /\ readerDone /\ leaving = 1 /\ SomeOwed
      BY <2>1, <2>2, <2>3, <2>7 DEF PipeInv, LagIsBounded, LeavesThisPass
    <3>2. leaving' = 2
      BY <3>1
    <3> QED BY <3>1, <3>2, <2>2, <2>4 DEF LagIsBounded
  <2> QED BY <2>5, <2>6, <2>7, <1>0 DEF PipeTyped
<1>7. SlotIsFreed'
  <2>1. CASE pipe = "serving"
    <3>1. leaving' > 0 => leaving' <= 3
      BY <1>6, <2>1 DEF LagIsBounded
    <3> QED BY <3>1, <1>1, PipeConstants DEF SlotIsFreed, PipeTyped
  <2>2. CASE pipe = "draining" /\ ~Drained
    BY <2>2, <1>0, PipeConstants DEF SlotIsFreed, Drained, PipeTyped
  <2> QED BY <2>1, <2>2
<1> QED BY <1>1, <1>2, <1>3, <1>5, <1>6, <1>7 DEF PipeInv

\* Every step of a pipe keeps the invariant.
LEMMA NextKeepsPipe == PipeInv /\ [PipeNext]_pipeVars => PipeInv'
<1> SUFFICES ASSUME PipeInv, [PipeNext]_pipeVars PROVE PipeInv'
  OBVIOUS
<1>1. CASE StopSeen
  BY <1>1, LeaveKeepsPipe DEF StopSeen
<1>2. CASE ServeEnds
  BY <1>2 DEF ServeEnds, PipeInv, PipeTyped, LeftOnce, QueueIsCounted, NothingComesBack, StampIsStuck, WasChecked,
              LagIsBounded, StallIsJust, SlotIsFreed, queue, clocks
<1>3. CASE UNCHANGED pipeVars
  BY <1>3 DEF pipeVars, PipeInv, PipeTyped, LeftOnce, QueueIsCounted, NothingComesBack, StampIsStuck, WasChecked,
              LagIsBounded, LeavesThisPass, Breaks, SomeOwed, StallIsJust, SlotIsFreed, supervisor, queue, clocks
<1> QED BY <1>1, <1>2, <1>3, DrainKeepsPipe, CheckKeepsPipe, EndPassKeepsPipe, WriterKeepsPipe, OthersKeepPipe,
           TickKeepsPipe
  DEF PipeNext

\* A connection over a pipe ends neither early nor late, and what its peer asked
\* for is on the pipe when it ends because the peer finished (serve_split,
\* pipe_writer): for every timeout, frame size, room of the pipe and load.
THEOREM PipesEndWell == PipeSpec => []ServingEndsWell
<1>1. PipeInv => ServingEndsWell
  <2> SUFFICES ASSUME PipeInv PROVE ServingEndsWell
    OBVIOUS
  <2>1. PipeTyped /\ QueueIsCounted
    BY DEF PipeInv
  <2>2. FinishedIsDelivered
    BY <2>1, EmptyQueue DEF PipeInv, NothingComesBack, FinishedIsDelivered
  <2>3. DeafPeerIsDropped
    BY <2>1, PipeConstants DEF PipeInv, PipeTyped, StampIsStuck, DeafPeerIsDropped
  <2> QED BY <2>2, <2>3 DEF PipeInv, ServingEndsWell
<1> QED BY <1>1, InitPipe, NextKeepsPipe, PTL DEF PipeSpec

----------------------------------------------------------------------------
(* The tools of the project. *)

States == {Absent} \cup [form : Forms, sig : {1, 2}]
Entries == [method : {"tool", "helper"}, node : STRING, sig : {1, 2}]

\* The lists of a game: what is at a place has its path, a method is there once.
Listings ==
  {sigs \in [1..Len(Places) -> SUBSET Entries] :
     \A i \in 1..Len(Places) :
       /\ \A e \in sigs[i] : e.node = Places[i]
       /\ \A e, f \in sigs[i] : e.method = f.method => e = f}

Messages == [kind : {"list", "event"}, tools : Listings, order : Orders]
Words == {"x", "y", "z"}
Requests == [kind : {"list"}] \cup [kind : {"call"}, entry : Entries, given : SUBSET Words]

Calls == {call \in [sig : {1, 2}, given : SUBSET Words, args : {Plan(s, g) : s \in {1, 2}, g \in SUBSET Words}] :
            call.args = Plan(call.sig, call.given) /\ Accepts(call.sig, call.given)}

ToolsTyped ==
  /\ nodes \in [1..Len(Places) -> States]
  /\ order \in Orders /\ told \in Orders
  /\ linked \in BOOLEAN /\ missed \in BOOLEAN
  /\ requests \in Seq(Requests) /\ mail \in Seq(Messages)
  /\ registered \in SUBSET Entries
  /\ ~linked => mail = <<>> /\ requests = <<>>

HasList(q) == \E i \in DOMAIN q : q[i].kind = "list"
HasEvent(q) == \E i \in DOMAIN q : q[i].kind = "event"
OneList(q) == \A i, j \in DOMAIN q : q[i].kind = "list" /\ q[j].kind = "list" => i = j

\* The list is asked for once and answered once.
AskedOnce == OneList(requests) /\ OneList(mail) /\ (HasList(requests) => ~HasList(mail))

LastEvent(q, j) ==
  j \in DOMAIN q /\ q[j].kind = "event" /\ \A i \in DOMAIN q : i > j => q[i].kind # "event"

\* The last event under way is of what the watcher last saw.
ToldIsSeen ==
  /\ \A j \in DOMAIN mail : LastEvent(mail, j) => seen = {EntriesOf(mail[j].tools)}
  /\ HasEvent(mail) => seen # {}

\* The list the broker has, or the last one under way to it, is the game's,
\* unless one is yet to come.
LatestIsRight ==
  linked /\ ~ListComes /\ seen = {EntriesOf(Signatures)} /\ ~missed => Latest = Kept(Signatures, told)

\* What is told of the order is what the last list under way says.
OrderIsTold == mail # <<>> => told = mail[Len(mail)].order

ToolsInv ==
  ToolsTyped /\ AskedOnce /\ ToldIsSeen /\ LatestIsRight /\ OrderIsTold /\ ran \in SUBSET Calls

----------------------------------------------------------------------------
(* Lists. *)

\* What the game finds is a list.
LEMMA SignaturesAreAListing ==
  ASSUME nodes \in [1..Len(Places) -> States]
  PROVE  Signatures \in Listings
<1>1. \A i \in 1..Len(Places) : nodes[i].sig \in {1, 2} /\ Places[i] \in STRING
  <2>1. \A x \in States : x.sig \in {1, 2}
    BY DEF States, Absent
  <2>2. \A i \in 1..Len(Places) : Places[i] \in STRING
    BY PlacesAssumption, ElementOfSeq
  <2> QED BY <2>1, <2>2
<1>2. \A i \in 1..Len(Places), m \in {"tool", "helper"} : Entry(i, m) \in Entries
  BY <1>1 DEF Entry, Entries
<1>3. \A form : ExposedNames(form) \subseteq {"tool", "helper"}
  BY DEF ExposedNames
<1>4. \A i \in 1..Len(Places) : Signatures[i] \subseteq {Entry(i, m) : m \in {"tool", "helper"}}
  BY <1>3 DEF Signatures
<1>5. Signatures \in [1..Len(Places) -> SUBSET Entries]
  <2>1. \A i \in 1..Len(Places) : Signatures[i] \in SUBSET Entries
    BY <1>2, <1>4
  <2>2. Signatures = [i \in 1..Len(Places) |-> Signatures[i]]
    BY DEF Signatures
  <2> QED BY <2>1, <2>2
<1>6. \A i \in 1..Len(Places), m \in {"tool", "helper"} : Entry(i, m).node = Places[i] /\ Entry(i, m).method = m
  BY DEF Entry
<1>7. ASSUME NEW i \in 1..Len(Places)
      PROVE  /\ \A e \in Signatures[i] : e.node = Places[i]
             /\ \A e, f \in Signatures[i] : e.method = f.method => e = f
  <2>1. \A e \in Signatures[i] : \E m \in {"tool", "helper"} : e = Entry(i, m)
    BY <1>4
  <2>2. \A e \in Signatures[i] : e.node = Places[i] /\ e = Entry(i, e.method)
    BY <1>6, <2>1
  <2> QED BY <2>2
<1> QED BY <1>5, <1>7 DEF Listings

\* An entry of a list is at the place of its path.
LEMMA EntryHasAPlace ==
  ASSUME NEW s \in Listings, NEW e
  PROVE  /\ e \in EntriesOf(s) <=> \E i \in 1..Len(Places) : e \in s[i]
         /\ \A i \in 1..Len(Places) : e \in s[i] <=> e \in EntriesOf(s) /\ e.node = Places[i]
<1>1. DOMAIN s = 1..Len(Places)
  BY DEF Listings
<1>2. e \in EntriesOf(s) <=> \E i \in 1..Len(Places) : e \in s[i]
  BY <1>1 DEF EntriesOf
<1>3. \A i \in 1..Len(Places) : e \in s[i] => e.node = Places[i]
  BY DEF Listings
<1>4. \A i, j \in 1..Len(Places) : Places[i] = Places[j] => i = j
  BY PlacesAssumption
<1> QED BY <1>2, <1>3, <1>4

\* Lists with the same entries are the same.
LEMMA SameEntries ==
  ASSUME NEW s \in Listings, NEW t \in Listings, EntriesOf(s) = EntriesOf(t)
  PROVE  s = t
<1>1. \A i \in 1..Len(Places) : \A e : e \in s[i] <=> e \in t[i]
  BY EntryHasAPlace
<1>2. \A i \in 1..Len(Places) : s[i] = t[i]
  BY <1>1
<1>3. s \in [1..Len(Places) -> SUBSET Entries] /\ t \in [1..Len(Places) -> SUBSET Entries]
  BY DEF Listings
<1> QED BY <1>2, <1>3

\* What is kept of a list has one entry for a method.
LEMMA KeptFacts ==
  ASSUME NEW s \in Listings, NEW o \in Orders
  PROVE  /\ Kept(s, o) \subseteq Entries
         /\ \A e, f \in Kept(s, o) : e.method = f.method => e = f
<1> DEFINE At(e) == PlaceOf(s, e)
<1>1. DOMAIN s = 1..Len(Places)
  BY DEF Listings
<1>2. \A e \in EntriesOf(s) : At(e) \in 1..Len(Places) /\ e \in s[At(e)]
  BY <1>1 DEF EntriesOf, PlaceOf
<1>3. \A e, f \in EntriesOf(s) : Winner(s, o, e) /\ f.method = e.method => o[At(e)] <= o[At(f)]
  BY DEF Winner
<1> HIDE DEF At
<1>4. ASSUME NEW e \in Kept(s, o), NEW f \in Kept(s, o), e.method = f.method PROVE e = f
  <2>1. e \in EntriesOf(s) /\ f \in EntriesOf(s) /\ Winner(s, o, e) /\ Winner(s, o, f)
    BY DEF Kept
  <2>2. o[At(e)] <= o[At(f)] /\ o[At(f)] <= o[At(e)]
    BY <1>3, <1>4, <2>1
  <2>3. At(e) = At(f)
    <3>1. At(e) \in 1..Len(Places) /\ At(f) \in 1..Len(Places)
      BY <1>2, <2>1
    <3>2. o[At(e)] \in Int /\ o[At(f)] \in Int
      BY <3>1 DEF Orders
    <3>3. o[At(e)] = o[At(f)]
      BY <2>2, <3>2
    <3> QED BY <3>1, <3>3 DEF Orders
  <2>4. e \in s[At(e)] /\ f \in s[At(e)] /\ At(e) \in 1..Len(Places)
    BY <1>2, <2>1, <2>3
  <2> QED BY <1>4, <2>4 DEF Listings
<1>5. EntriesOf(s) \subseteq Entries
  <2>1. \A i \in 1..Len(Places) : s[i] \subseteq Entries
    BY DEF Listings
  <2> QED BY <1>2, <2>1
<1>6. Kept(s, o) \subseteq Entries
  BY <1>5 DEF Kept
<1> QED BY <1>4, <1>6

\* Applying a list leaves nothing of what was registered before.
LEMMA SyncIsKept ==
  ASSUME NEW s \in Listings, NEW o \in Orders, NEW had
  PROVE  Sync(had, s, o) = Kept(s, o)
<1> DEFINE stay == {e \in had : e \in Kept(s, o)}
<1>1. Sync(had, s, o) = stay \cup {n \in Kept(s, o) : \A e \in stay : e.method # n.method}
  BY DEF Sync
<1>2. \A n \in Kept(s, o) : n \in stay \/ \A e \in stay : e.method # n.method
  BY KeptFacts
<1>3. stay \subseteq Kept(s, o)
  OBVIOUS
<1> QED BY <1>1, <1>2, <1>3

\* After the events of a read the broker has the list of the last one.
LEMMA AfterEventsFacts ==
  ASSUME NEW read \in Seq(Messages), read # <<>>, \A i \in DOMAIN read : read[i].kind = "event", NEW had
  PROVE  AfterEvents(had, read) = Kept(read[Len(read)].tools, read[Len(read)].order)
<1> DEFINE Step(f) == [i \in 0..Len(read) |->
                         IF i = 0 THEN had
                         ELSE IF read[i].kind = "event" THEN Sync(f[i - 1], read[i].tools, read[i].order) ELSE f[i - 1]]
           g == [i \in 0..Len(read) |-> IF i = 0 THEN had ELSE Kept(read[i].tools, read[i].order)]
           after == CHOOSE f : f = Step(f)
<1>1. Len(read) \in Nat /\ Len(read) > 0 /\ \A i \in 1..Len(read) : read[i].tools \in Listings /\ read[i].order \in Orders /\ read[i].kind = "event"
  <2>1. DOMAIN read = 1..Len(read) /\ Len(read) \in Nat /\ Len(read) # 0
    BY EmptySeq
  <2>2. \A i \in 1..Len(read) : read[i] \in Messages
    BY <2>1
  <2> QED BY <2>1, <2>2 DEF Messages
<1>2. \A f : \A i \in 1..Len(read) : Sync(f[i - 1], read[i].tools, read[i].order) = Kept(read[i].tools, read[i].order)
  BY <1>1, SyncIsKept
<1>3. g = Step(g)
  BY <1>1, <1>2
<1>4. after = Step(after)
  <2> HIDE DEF g, Step
  <2> QED BY <1>3
<1>5. after[Len(read)] = Step(after)[Len(read)]
  BY <1>4
<1>6. Len(read) \in 0..Len(read) /\ Len(read) \in 1..Len(read) /\ Len(read) # 0
  BY <1>1
<1> HIDE DEF after
<1>7. Step(after)[Len(read)] = Sync(after[Len(read) - 1], read[Len(read)].tools, read[Len(read)].order)
  BY <1>1, <1>6
<1>8. after[Len(read)] = Kept(read[Len(read)].tools, read[Len(read)].order)
  BY <1>2, <1>5, <1>6, <1>7
<1> QED BY <1>8 DEF AfterEvents, after

OnlyEventsAfter(q, k) == \A i \in (k + 1)..Len(q) : q[i].kind = "event"
Left(q, n) == SubSeq(q, n + 1, Len(q))
Put(q, m, k) == SubSeq(q, 1, k) \o <<m>> \o SubSeq(q, k + 1, Len(q))

\* A message that is put into a sequence.
LEMMA PutFacts ==
  ASSUME NEW S, NEW q \in Seq(S), NEW m \in S, NEW k \in 0..Len(q)
  PROVE  /\ Put(q, m, k) \in Seq(S) /\ Len(Put(q, m, k)) = Len(q) + 1
         /\ \A i \in 1..Len(q) + 1 :
              Put(q, m, k)[i] = IF i <= k THEN q[i] ELSE IF i = k + 1 THEN m ELSE q[i - 1]
<1> DEFINE a == SubSeq(q, 1, k)
           b == <<m>>
           c == SubSeq(q, k + 1, Len(q))
<1>1. a \in Seq(S) /\ Len(a) = k /\ \A i \in 1..k : a[i] = q[i]
  OBVIOUS
<1>2. b \in Seq(S) /\ Len(b) = 1 /\ b[1] = m
  OBVIOUS
<1>3. c \in Seq(S) /\ Len(c) = Len(q) - k /\ \A i \in 1..Len(q) - k : c[i] = q[k + i]
  OBVIOUS
<1> HIDE DEF a, b, c
<1>4. /\ a \o b \in Seq(S) /\ Len(a \o b) = k + 1
      /\ \A i \in 1..k + 1 : (a \o b)[i] = IF i <= k THEN q[i] ELSE m
  <2>1. /\ a \o b \in Seq(S) /\ Len(a \o b) = Len(a) + Len(b)
        /\ \A i \in 1..Len(a) + Len(b) : (a \o b)[i] = IF i <= Len(a) THEN a[i] ELSE b[i - Len(a)]
    BY <1>1, <1>2, ConcatProperties
  <2> QED BY <1>1, <1>2, <2>1
<1>5. /\ (a \o b) \o c \in Seq(S) /\ Len((a \o b) \o c) = Len(q) + 1
      /\ \A i \in 1..Len(q) + 1 : ((a \o b) \o c)[i] = IF i <= k + 1 THEN (a \o b)[i] ELSE c[i - (k + 1)]
  <2> DEFINE d == a \o b
  <2>0. d \in Seq(S) /\ Len(d) = k + 1
    BY <1>4
  <2> HIDE DEF d
  <2>1. /\ d \o c \in Seq(S) /\ Len(d \o c) = Len(d) + Len(c)
        /\ \A i \in 1..Len(d) + Len(c) : (d \o c)[i] = IF i <= Len(d) THEN d[i] ELSE c[i - Len(d)]
    BY <1>3, <2>0, ConcatProperties
  <2> QED BY <1>3, <2>0, <2>1, SMTT(30) DEF d
<1>6. \A i \in 1..Len(q) + 1 : ((a \o b) \o c)[i] = IF i <= k THEN q[i] ELSE IF i = k + 1 THEN m ELSE q[i - 1]
  <2> SUFFICES ASSUME NEW i \in 1..Len(q) + 1
               PROVE  ((a \o b) \o c)[i] = IF i <= k THEN q[i] ELSE IF i = k + 1 THEN m ELSE q[i - 1]
    OBVIOUS
  <2>1. CASE i <= k + 1
    BY <1>4, <1>5, <2>1
  <2>2. CASE i > k + 1
    <3>1. i - (k + 1) \in 1..Len(q) - k /\ k + (i - (k + 1)) = i - 1
      BY <2>2
    <3>2. c[i - (k + 1)] = q[i - 1]
      BY <1>3, <3>1
    <3>3. ~(i <= k + 1) /\ ~(i <= k) /\ i # k + 1
      BY <2>2
    <3>4. ((a \o b) \o c)[i] = c[i - (k + 1)]
      BY <1>5, <3>3
    <3> QED BY <3>2, <3>3, <3>4
  <2>3. k \in Nat /\ i \in Nat
    OBVIOUS
  <2>4. i <= k + 1 \/ i > k + 1
    BY <2>3
  <2> QED BY <2>1, <2>2, <2>4
<1> QED BY <1>5, <1>6 DEF a, b, c, Put

\* The list the broker will have, when a message is on its way.
LEMMA LatestFacts ==
  /\ mail = <<>> => Latest = registered
  /\ mail # <<>> => Latest = Kept(mail[Len(mail)].tools, mail[Len(mail)].order)
  BY DEF Latest

----------------------------------------------------------------------------
(* The steps. *)

\* Without a link there is nothing under way.
LEMMA InitTools == ToolsInit => ToolsInv
<1> SUFFICES ASSUME ToolsInit PROVE ToolsInv
  OBVIOUS
<1>1. ToolsTyped
  <2>1. {Absent} \cup [form : Forms, sig : {1}] \subseteq States
    BY DEF States
  <2>2. nodes \in [1..Len(Places) -> States]
    BY <2>1 DEF ToolsInit
  <2>3. requests \in Seq(Requests) /\ mail \in Seq(Messages)
    BY DEF ToolsInit
  <2>4. order \in Orders /\ told \in Orders
    <3>1. Len(Places) \in Nat
      BY PlacesAssumption
    <3>2. [i \in 1..Len(Places) |-> i] \in Orders
      BY <3>1 DEF Orders
    <3> QED BY <3>2 DEF ToolsInit
  <2> QED BY <2>2, <2>3, <2>4 DEF ToolsInit, ToolsTyped
<1>2. DOMAIN mail = {} /\ DOMAIN requests = {}
  BY DEF ToolsInit
<1> QED BY <1>1, <1>2
  DEF ToolsInit, ToolsInv, AskedOnce, HasList, HasEvent, OneList, LastEvent, ToldIsSeen, LatestIsRight, OrderIsTold

\* A change of the project: what is registered is compared with what is there now.
LEMMA ChangesKeepTools == ASSUME ToolsInv, ProjectChanges PROVE ToolsInv'
<1> USE DEF ProjectChanges
<1>0. UNCHANGED <<order, told, mail>>
  OBVIOUS
<1>1. nodes' \in [1..Len(Places) -> States]
  <2>1. {Absent} \cup [form : Forms, sig : {1, 2}] = States
    BY DEF States
  <2> QED BY <2>1 DEF ToolsInv, ToolsTyped
<1>2. ToolsTyped'
  BY <1>1 DEF ToolsInv, ToolsTyped
<1>3. ListComes' = ListComes /\ Latest' = Latest
  BY DEF ListComes, Latest
<1>4. LatestIsRight'
  BY <1>3 DEF LatestIsRight
<1>5. AskedOnce' /\ ToldIsSeen'
  BY DEF ToolsInv, AskedOnce, HasList, HasEvent, OneList, LastEvent, ToldIsSeen
<1> QED BY <1>0, <1>2, <1>4, <1>5 DEF ToolsInv, OrderIsTold

\* A move in the tree: what is listed is the same, and nothing is told.
LEMMA MovesKeepTools == ASSUME ToolsInv, Reorder PROVE ToolsInv'
<1> USE DEF Reorder
<1>1. Signatures' = Signatures /\ Latest' = Latest /\ (ListComes' <=> ListComes)
  BY DEF Signatures, Entry, Latest, ListComes
<1>2. EntriesOf(Signatures)' = EntriesOf(Signatures) /\ Kept(Signatures, told)' = Kept(Signatures, told)
  BY <1>1 DEF EntriesOf, Kept, Winner, PlaceOf
<1>3. LatestIsRight' /\ OrderIsTold'
  BY <1>1, <1>2 DEF ToolsInv, LatestIsRight, OrderIsTold
<1>4. ToolsTyped' /\ AskedOnce' /\ ToldIsSeen'
  BY DEF ToolsInv, ToolsTyped, AskedOnce, HasList, HasEvent, OneList, LastEvent, ToldIsSeen
<1> QED BY <1>3, <1>4 DEF ToolsInv

\* A link that is made asks for the list; one that is lost leaves nothing under way.
LEMMA LinksKeepTools == ASSUME ToolsInv, GameStarted \/ GameExited PROVE ToolsInv'
<1> DEFINE ask == <<[kind |-> "list"]>>
<1>1. ask \in Seq(Requests) /\ DOMAIN ask = {1} /\ ask[1].kind = "list"
  BY DEF Requests
<1>2. CASE GameStarted
  <2>1. requests' = ask /\ mail' = <<>> /\ linked' = TRUE
    BY <1>2 DEF GameStarted
  <2> HIDE DEF ask
  <2>2. mail' \in Seq(Messages) /\ DOMAIN mail' = {}
    BY <2>1
  <2>3. ToolsTyped'
    BY <1>1, <1>2, <2>1, <2>2 DEF ToolsInv, ToolsTyped, GameStarted
  <2>4. AskedOnce' /\ ToldIsSeen'
    BY <1>1, <2>1, <2>2 DEF AskedOnce, HasList, HasEvent, OneList, LastEvent, ToldIsSeen
  <2>5. LatestIsRight' /\ OrderIsTold'
    BY <1>1, <2>1 DEF LatestIsRight, OrderIsTold, ListComes
  <2> QED BY <1>2, <2>3, <2>4, <2>5 DEF ToolsInv, GameStarted
<1>3. CASE GameExited
  <2>1. /\ mail' = <<>> /\ DOMAIN mail' = {} /\ mail' \in Seq(Messages)
        /\ requests' = <<>> /\ DOMAIN requests' = {} /\ requests' \in Seq(Requests)
    BY <1>3 DEF GameExited
  <2>2. ToolsTyped'
    BY <1>3, <2>1 DEF ToolsInv, ToolsTyped, GameExited
  <2> QED BY <1>3, <2>1, <2>2
    DEF GameExited, ToolsInv, AskedOnce, HasList, HasEvent, OneList, LastEvent, ToldIsSeen, LatestIsRight, OrderIsTold
<1> QED BY <1>2, <1>3

\* The first request is taken; the others stay.
LEMMA TakenFacts ==
  ASSUME NEW q \in Seq(Requests), q # <<>>
  PROVE  /\ Tail(q) \in Seq(Requests) /\ Head(q) = q[1]
         /\ OneList(q) => OneList(Tail(q))
         /\ HasList(Tail(q)) => HasList(q)
         /\ Head(q).kind = "list" /\ OneList(q) => ~HasList(Tail(q))
         /\ Head(q).kind # "list" => (HasList(Tail(q)) <=> HasList(q))
         /\ HasList(q) <=> Head(q).kind = "list" \/ HasList(Tail(q))
<1>1. /\ Tail(q) \in Seq(Requests) /\ Len(Tail(q)) = Len(q) - 1 /\ Len(q) \in Nat /\ Len(q) > 0
      /\ \A i \in 1..Len(Tail(q)) : Tail(q)[i] = q[i + 1]
      /\ Head(q) = q[1] /\ DOMAIN q = 1..Len(q) /\ DOMAIN Tail(q) = 1..Len(Tail(q))
  BY HeadTailProperties, LenProperties, EmptySeq
<1>2. \A i \in DOMAIN Tail(q) : i + 1 \in DOMAIN q /\ i + 1 # 1 /\ Tail(q)[i] = q[i + 1]
  BY <1>1
<1>3. \A i \in DOMAIN q : i # 1 => i - 1 \in DOMAIN Tail(q) /\ q[i] = Tail(q)[i - 1]
  BY <1>1
<1>4. 1 \in DOMAIN q
  BY <1>1
<1>5. \A i, j \in DOMAIN Tail(q) : i + 1 = j + 1 => i = j
  BY <1>1
<1>6. OneList(q) => OneList(Tail(q))
  BY <1>2, <1>5 DEF OneList
<1>7. HasList(q) <=> q[1].kind = "list" \/ HasList(Tail(q))
  BY <1>2, <1>3, <1>4 DEF HasList
<1>8. q[1].kind = "list" /\ OneList(q) => ~HasList(Tail(q))
  BY <1>2, <1>4 DEF OneList, HasList
<1> QED BY <1>1, <1>6, <1>7, <1>8

\* A message put among messages.
LEMMA PutMessage ==
  ASSUME NEW q \in Seq(Messages), NEW m \in Messages, NEW k \in 0..Len(q)
  PROVE  /\ Put(q, m, k) \in Seq(Messages) /\ Len(Put(q, m, k)) = Len(q) + 1
         /\ \A i \in 1..Len(q) + 1 :
              Put(q, m, k)[i] = IF i <= k THEN q[i] ELSE IF i = k + 1 THEN m ELSE q[i - 1]
  BY PutFacts

\* An answer that is put among the messages.
LEMMA AnswerFacts ==
  ASSUME NEW q \in Seq(Messages), NEW m \in Messages, m.kind = "list", NEW k \in 0..Len(q),
         OnlyEventsAfter(q, k), ~HasList(q),
         NEW r, r = Put(q, m, k)
  PROVE  /\ r \in Seq(Messages) /\ r # <<>> /\ OneList(r)
         /\ \A j : LastEvent(r, j) => \E i : LastEvent(q, i) /\ q[i] = r[j]
         /\ HasEvent(r) => HasEvent(q)
         /\ r[Len(r)] = m \/ \E i : LastEvent(q, i) /\ r[Len(r)] = q[i]
<1>1. /\ r \in Seq(Messages) /\ Len(r) = Len(q) + 1 /\ DOMAIN r = 1..Len(q) + 1
      /\ \A i \in 1..Len(r) : r[i] = IF i <= k THEN q[i] ELSE IF i = k + 1 THEN m ELSE q[i - 1]
  <2>1. /\ r \in Seq(Messages) /\ Len(r) = Len(q) + 1
        /\ \A i \in 1..Len(q) + 1 : r[i] = IF i <= k THEN q[i] ELSE IF i = k + 1 THEN m ELSE q[i - 1]
    <3>1. /\ Put(q, m, k) \in Seq(Messages) /\ Len(Put(q, m, k)) = Len(q) + 1
          /\ \A i \in 1..Len(q) + 1 :
               Put(q, m, k)[i] = IF i <= k THEN q[i] ELSE IF i = k + 1 THEN m ELSE q[i - 1]
      BY PutMessage, ZenonT(40)
    <3> QED BY <3>1, Zenon
  <2>2. DOMAIN r = 1..Len(r)
    BY <2>1
  <2> QED BY <2>1, <2>2
<1>2. Len(q) \in Nat /\ DOMAIN q = 1..Len(q)
  OBVIOUS
<1>0. k \in Nat /\ k <= Len(q) /\ \A j \in DOMAIN r : j \in Nat /\ j >= 1 /\ j <= Len(q) + 1
  BY <1>1, <1>2
<1> DEFINE From(j) == IF j <= k THEN j ELSE j - 1
<1>3. ASSUME NEW j \in DOMAIN r, j # k + 1 PROVE From(j) \in DOMAIN q /\ r[j] = q[From(j)]
  <2>1. j \in 1..Len(r) /\ j \in Nat /\ j >= 1 /\ j <= Len(q) + 1
    BY <1>0, <1>1
  <2>2. CASE j <= k
    BY <1>0, <1>1, <1>2, <2>1, <2>2
  <2>3. CASE ~(j <= k)
    <3>1. j - 1 \in 1..Len(q)
      BY <1>0, <1>2, <1>3, <2>1, <2>3
    <3>2. r[j] = q[j - 1]
      BY <1>1, <1>3, <2>1, <2>3
    <3> QED BY <1>2, <2>3, <3>1, <3>2
  <2> QED BY <2>2, <2>3
<1>4. r[k + 1] = m /\ k + 1 \in DOMAIN r
  <2>1. k + 1 \in 1..Len(r) /\ ~(k + 1 <= k)
    BY <1>0, <1>1, <1>2
  <2> QED BY <1>1, <2>1
<1>5. \A j \in DOMAIN r : r[j].kind = "list" => j = k + 1
  BY <1>3 DEF HasList
<1>6. OneList(r)
  BY <1>5 DEF OneList
<1>7. ASSUME NEW j, LastEvent(r, j) PROVE LastEvent(q, From(j)) /\ q[From(j)] = r[j]
  <2>1. j \in DOMAIN r /\ r[j].kind = "event" /\ j # k + 1
    BY <1>4, <1>7 DEF LastEvent
  <2>2. From(j) \in DOMAIN q /\ q[From(j)] = r[j]
    BY <1>3, <2>1
  <2>3. ASSUME NEW i \in DOMAIN q, i > From(j) PROVE q[i].kind # "event"
    <3>1. CASE i <= k
      <4>1. i \in DOMAIN r /\ r[i] = q[i] /\ i > j
        BY <1>1, <1>2, <2>1, <2>3, <3>1
      <4> QED BY <4>1, <1>7 DEF LastEvent
    <3>2. CASE i > k
      <4>1. i + 1 \in DOMAIN r /\ r[i + 1] = q[i] /\ i + 1 > j
        <5>1. i + 1 \in 1..Len(r) /\ ~(i + 1 <= k) /\ i + 1 # k + 1 /\ (i + 1) - 1 = i
          BY <1>0, <1>1, <1>2, <3>2
        <5>2. j \in Nat
          BY <1>1, <1>2, <2>1
        <5> QED BY <1>0, <1>1, <1>2, <2>1, <2>3, <3>2, <5>1, <5>2
      <4> QED BY <4>1, <1>7 DEF LastEvent
    <3> QED BY <1>2, <3>1, <3>2
  <2> QED BY <2>1, <2>2, <2>3 DEF LastEvent
<1>8. HasEvent(r) => HasEvent(q)
  BY <1>3, <1>4 DEF HasEvent
<1>9. r[Len(r)] = m \/ \E i : LastEvent(q, i) /\ r[Len(r)] = q[i]
  <2>1. CASE k = Len(q)
    BY <1>1, <1>4, <2>1
  <2>2. CASE k # Len(q)
    <3>1. r[Len(r)] = q[Len(q)] /\ Len(q) \in (k + 1)..Len(q) /\ Len(q) \in DOMAIN q
      <4>1. Len(q) \in (k + 1)..Len(q) /\ Len(q) \in DOMAIN q
        <5>1. k + 1 <= Len(q) /\ Len(q) >= 1
          <6>1. k \in Nat /\ k <= Len(q) /\ Len(q) \in Nat /\ k # Len(q)
            BY <1>0, <1>2, <2>2, Zenon
          <6> QED BY ONLY <6>1
        <5> QED BY <1>0, <1>2, <5>1
      <4>2. Len(q) + 1 \in 1..Len(q) + 1 /\ ~(Len(q) + 1 <= k) /\ Len(q) + 1 # k + 1 /\ (Len(q) + 1) - 1 = Len(q)
        <5>1. k \in Nat /\ k <= Len(q) /\ Len(q) \in Nat /\ k # Len(q)
          BY <1>0, <1>2, <2>2, Zenon
        <5> QED BY ONLY <5>1
      <4> QED BY <1>1, <4>1, <4>2
    <3>2. LastEvent(q, Len(q))
      BY <1>2, <3>1 DEF LastEvent, OnlyEventsAfter
    <3> QED BY <3>1, <3>2
  <2> QED BY <2>1, <2>2
<1>10. r # <<>>
  BY <1>1, <1>2
<1> QED BY <1>1, <1>6, <1>7, <1>8, <1>9, <1>10

\* The messages that are left by a read.
LEMMA LeftFacts ==
  ASSUME NEW q \in Seq(Messages), NEW n \in 1..Len(q), NEW r, r = Left(q, n)
  PROVE  /\ r \in Seq(Messages)
         /\ OneList(q) => OneList(r)
         /\ HasList(r) => HasList(q)
         /\ HasEvent(r) => HasEvent(q)
         /\ \A j : LastEvent(r, j) => \E i : LastEvent(q, i) /\ q[i] = r[j]
         /\ r # <<>> => r[Len(r)] = q[Len(q)]
         /\ r = <<>> => n = Len(q)
<1>1. /\ r \in Seq(Messages) /\ Len(r) = Len(q) - n /\ \A i \in 1..Len(q) - n : r[i] = q[n + i]
  <2> DEFINE p == SubSeq(q, n + 1, Len(q))
  <2>1. p \in Seq(Messages) /\ Len(p) = Len(q) - n /\ \A i \in 1..Len(q) - n : p[i] = q[n + i]
    OBVIOUS
  <2>2. r = p
    BY DEF Left
  <2> HIDE DEF p
  <2> QED BY <2>1, <2>2
<1>2. Len(q) \in Nat /\ DOMAIN q = 1..Len(q) /\ DOMAIN r = 1..Len(q) - n /\ n \in Nat /\ n >= 1 /\ n <= Len(q)
  BY <1>1
<1>3. \A j \in DOMAIN r : n + j \in DOMAIN q /\ r[j] = q[n + j] /\ j \in Nat
  BY <1>1, <1>2
<1>4. \A i, j \in DOMAIN r : n + i = n + j => i = j
  BY <1>2
<1>5. OneList(q) => OneList(r)
  BY <1>3, <1>4 DEF OneList
<1>6. (HasList(r) => HasList(q)) /\ (HasEvent(r) => HasEvent(q))
  BY <1>3 DEF HasList, HasEvent
<1>7. ASSUME NEW j, LastEvent(r, j) PROVE LastEvent(q, n + j) /\ q[n + j] = r[j]
  <2>1. j \in DOMAIN r /\ r[j].kind = "event" /\ n + j \in DOMAIN q /\ r[j] = q[n + j]
    BY <1>3, <1>7 DEF LastEvent
  <2>2. ASSUME NEW i \in DOMAIN q, i > n + j PROVE q[i].kind # "event"
    <3>1. i - n \in DOMAIN r /\ i - n > j /\ n + (i - n) = i
      BY <1>2, <1>3, <2>1, <2>2
    <3> QED BY <1>3, <1>7, <3>1 DEF LastEvent
  <2> QED BY <2>1, <2>2 DEF LastEvent
<1>8. r # <<>> => r[Len(r)] = q[Len(q)]
  <2>1. r # <<>> => Len(r) \in 1..Len(q) - n /\ n + Len(r) = Len(q)
    BY <1>1, <1>2, EmptySeq
  <2> QED BY <1>1, <2>1
<1>9. r = <<>> => n = Len(q)
  BY <1>1, <1>2
<1> QED BY <1>1, <1>5, <1>6, <1>7, <1>8, <1>9

\* The list is asked for when a request for it waits.
LEMMA AskedIsComing == ListComes <=> HasList(requests)
  BY DEF ListComes, HasList

\* What the game has now is as the watcher saw it: the last event told it.
LEMMA LastToldIsNow ==
  ASSUME ToolsTyped, seen = {EntriesOf(Signatures)}, NEW s \in Listings, seen = {EntriesOf(s)}, NEW o
  PROVE  Kept(s, o) = Kept(Signatures, o)
<1>1. Signatures \in Listings
  BY SignaturesAreAListing DEF ToolsTyped
<1>2. EntriesOf(s) = EntriesOf(Signatures)
  OBVIOUS
<1> QED BY <1>1, <1>2, SameEntries

\* A listing is answered, or its request fails.
LEMMA ListingKeepsTools == ASSUME ToolsInv, ToolsList \/ RefreshFails PROVE ToolsInv'
<1>0. /\ requests \in Seq(Requests) /\ requests # <<>> /\ Head(requests).kind = "list" /\ linked
      /\ requests' = Tail(requests) /\ UNCHANGED <<nodes, order, seen, linked, registered, ran>>
  BY DEF ToolsInv, ToolsTyped, ToolsList, RefreshFails
<1>1. /\ requests' \in Seq(Requests) /\ OneList(requests') /\ ~HasList(requests') /\ HasList(requests)
      /\ ~HasList(mail)
  BY <1>0, TakenFacts DEF ToolsInv, AskedOnce
<1>2. CASE RefreshFails
  <2>1. mail' = mail /\ missed' = TRUE /\ told' = told
    BY <1>2 DEF RefreshFails
  <2> QED BY <1>0, <1>1, <2>1
    DEF ToolsInv, ToolsTyped, AskedOnce, OneList, HasList, HasEvent, LastEvent, ToldIsSeen, LatestIsRight, OrderIsTold
<1>3. CASE ToolsList
  <2>1. Signatures \in Listings
    BY SignaturesAreAListing DEF ToolsInv, ToolsTyped
  <2> DEFINE m == [kind |-> "list", tools |-> Signatures, order |-> order]
  <2>2. m \in Messages /\ m.kind = "list" /\ m.tools = Signatures /\ m.order = order
    BY <2>1 DEF Messages, ToolsInv, ToolsTyped
  <2>3. PICK k \in 0..Len(mail) :
          /\ OnlyEventsAfter(mail, k) /\ mail' = Put(mail, m, k)
          /\ told' = IF k = Len(mail) THEN m.order ELSE told
    BY <1>3 DEF ToolsList, Answered, Put, OnlyEventsAfter
  <2>4. missed' = missed
    BY <1>3 DEF ToolsList
  <2>5. mail \in Seq(Messages)
    BY DEF ToolsInv, ToolsTyped
  <2> HIDE DEF m
  <2>11. \/ mail'[Len(mail')] = m /\ told' = order
         \/ /\ mail # <<>> /\ told' = told
            /\ LastEvent(mail, Len(mail)) /\ mail'[Len(mail')] = mail[Len(mail)]
    <3>1. /\ Len(mail') = Len(mail) + 1 /\ Len(mail) \in Nat /\ k \in Nat /\ k <= Len(mail)
          /\ \A i \in 1..Len(mail) + 1 :
               mail'[i] = IF i <= k THEN mail[i] ELSE IF i = k + 1 THEN m ELSE mail[i - 1]
      <4>1. /\ Len(Put(mail, m, k)) = Len(mail) + 1
            /\ \A i \in 1..Len(mail) + 1 :
                 Put(mail, m, k)[i] = IF i <= k THEN mail[i] ELSE IF i = k + 1 THEN m ELSE mail[i - 1]
        BY <2>2, <2>5, PutMessage, ZenonT(40)
      <4>2. Len(mail) \in Nat /\ k \in Nat /\ k <= Len(mail)
        BY <2>5
      <4> QED BY <2>3, <4>1, <4>2, Zenon
    <3>2. CASE k = Len(mail)
      <4>1. mail'[Len(mail')] = m
        BY <3>1, <3>2
      <4> QED BY <2>2, <2>3, <3>2, <4>1
    <3>3. CASE k # Len(mail)
      <4>1. Len(mail) + 1 \in 1..Len(mail) + 1 /\ Len(mail) > k /\ (Len(mail) + 1) - 1 = Len(mail)
        BY <3>1, <3>3
      <4>2. mail'[Len(mail')] = mail[Len(mail)]
        BY <3>1, <4>1
      <4>3. LastEvent(mail, Len(mail))
        <5>1. DOMAIN mail = 1..Len(mail) /\ Len(mail) \in (k + 1)..Len(mail) /\ Len(mail) \in 1..Len(mail)
          BY <2>5, <3>1, <4>1
        <5>2. \A i \in DOMAIN mail : ~(i > Len(mail))
          BY <3>1, <5>1
        <5>3. mail[Len(mail)].kind = "event"
          <6>1. OnlyEventsAfter(mail, k)
            BY <2>3, Zenon
          <6> QED BY ONLY <5>1, <6>1 DEF OnlyEventsAfter
        <5> QED BY <5>1, <5>2, <5>3 DEF LastEvent
      <4>4. mail # <<>>
        BY <3>1, <4>1
      <4> QED BY <2>3, <3>3, <4>2, <4>3, <4>4
    <3> QED BY <3>2, <3>3
  <2>12. told' \in Orders /\ told' = mail'[Len(mail')].order
    BY <2>2, <2>11 DEF ToolsInv, ToolsTyped, OrderIsTold
  <2>6. /\ mail' \in Seq(Messages) /\ mail' # <<>> /\ OneList(mail')
        /\ \A j : LastEvent(mail', j) => \E i : LastEvent(mail, i) /\ mail[i] = mail'[j]
        /\ HasEvent(mail') => HasEvent(mail)
    BY <1>1, <2>2, <2>3, <2>5, AnswerFacts
  <2>7. ToolsTyped'
    BY <1>0, <1>1, <2>4, <2>6, <2>12 DEF ToolsInv, ToolsTyped
  <2>8. AskedOnce'
    BY <1>1, <2>6 DEF AskedOnce, OneList, HasList
  <2>9. ToldIsSeen'
    <3>1. \A j : LastEvent(mail', j) => seen = {EntriesOf(mail'[j].tools)}
      BY <2>6 DEF ToolsInv, ToldIsSeen, LastEvent
    <3> QED BY <1>0, <2>6, <3>1 DEF ToolsInv, ToldIsSeen, LastEvent, HasEvent
  <2>10. LatestIsRight'
    <3>1. Signatures' = Signatures
      BY <1>0 DEF Signatures, Entry
    <3>2. Latest' = Kept(mail'[Len(mail')].tools, mail'[Len(mail')].order)
      BY <2>6 DEF Latest
    <3>3. ASSUME seen = {EntriesOf(Signatures)} PROVE Latest' = Kept(Signatures, told')
      <4>1. CASE mail'[Len(mail')] = m /\ told' = order
        BY <2>2, <3>2, <4>1
      <4>2. CASE LastEvent(mail, Len(mail)) /\ mail'[Len(mail')] = mail[Len(mail)]
        <5>1. mail[Len(mail)] \in Messages /\ seen = {EntriesOf(mail[Len(mail)].tools)}
          BY <2>5, <4>2 DEF ToolsInv, ToldIsSeen, LastEvent
        <5>2. mail[Len(mail)].tools \in Listings
          BY <5>1 DEF Messages
        <5>3. Kept(mail[Len(mail)].tools, told') = Kept(Signatures, told')
          BY <3>3, <5>1, <5>2, LastToldIsNow DEF ToolsInv
        <5> QED BY <2>12, <3>2, <4>2, <5>3
      <4> QED BY <2>11, <4>1, <4>2
    <3>4. EntriesOf(Signatures)' = EntriesOf(Signatures) /\ Kept(Signatures, told)' = Kept(Signatures, told')
      BY <3>1 DEF EntriesOf, Kept, Winner, PlaceOf
    <3> QED BY <1>0, <3>3, <3>4 DEF LatestIsRight
  <2> QED BY <1>0, <2>7, <2>8, <2>9, <2>10, <2>12 DEF ToolsInv, OrderIsTold
<1> QED BY <1>2, <1>3

\* Parameters have one of three names.
LEMMA ParameterNames == \A sig : Names(sig) \subseteq Words
<1> SUFFICES ASSUME NEW sig PROVE Names(sig) \subseteq Words
  OBVIOUS
<1>1. Params(sig) = <<"x", "y">> \/ Params(sig) = <<"y", "x", "z">>
  BY DEF Params
<1>2. \A i \in DOMAIN Params(sig) : Params(sig)[i] \in {"x", "y", "z"}
  <2>1. \A i \in DOMAIN <<"x", "y">> : <<"x", "y">>[i] \in {"x", "y", "z"}
    OBVIOUS
  <2>2. \A i \in DOMAIN <<"y", "x", "z">> : <<"y", "x", "z">>[i] \in {"x", "y", "z"}
    OBVIOUS
  <2> QED BY <1>1, <2>1, <2>2
<1> QED BY <1>2 DEF Names, Words

\* Calls: the arguments follow the live signature.
LEMMA CallsKeepTools == ASSUME ToolsInv, AgentCalls \/ ProjectCall PROVE ToolsInv'
<1>0. /\ linked /\ UNCHANGED <<nodes, order, told, seen, linked, registered, missed, mail>>
      /\ requests \in Seq(Requests)
  BY DEF AgentCalls, ProjectCall, ToolsInv, ToolsTyped
<1>1. Signatures' = Signatures /\ Latest' = Latest
  BY <1>0 DEF Signatures, Entry, Latest
<1>2. EntriesOf(Signatures)' = EntriesOf(Signatures) /\ Kept(Signatures, told)' = Kept(Signatures, told)
  BY <1>0, <1>1 DEF EntriesOf, Kept, Winner, PlaceOf
<1>3. ASSUME requests' \in Seq(Requests), OneList(requests'), HasList(requests') <=> HasList(requests), ran' \in SUBSET Calls
      PROVE  ToolsInv'
  <2>1. ToolsTyped'
    BY <1>0, <1>3 DEF ToolsInv, ToolsTyped
  <2>2. AskedOnce' /\ ToldIsSeen'
    BY <1>0, <1>3 DEF ToolsInv, AskedOnce, ToldIsSeen, HasList, HasEvent, OneList, LastEvent
  <2>3. LatestIsRight'
    <3>1. ListComes' <=> ListComes
      BY <1>3 DEF ListComes, HasList
    <3> QED BY <1>0, <1>1, <1>2, <3>1 DEF ToolsInv, LatestIsRight
  <2>4. OrderIsTold'
    BY <1>0 DEF ToolsInv, OrderIsTold
  <2> QED BY <1>3, <2>1, <2>2, <2>3, <2>4 DEF ToolsInv
<1>4. CASE AgentCalls
  <2>1. PICK entry \in registered : \E given \in SUBSET Names(entry.sig) :
               requests' = Append(requests, [kind |-> "call", entry |-> entry, given |-> given])
    BY <1>4 DEF AgentCalls
  <2>2. PICK given \in SUBSET Names(entry.sig) :
               requests' = Append(requests, [kind |-> "call", entry |-> entry, given |-> given])
    BY <2>1
  <2> DEFINE r == [kind |-> "call", entry |-> entry, given |-> given]
  <2>3. r \in Requests /\ r.kind # "list"
    <3>1. \A sig : Names(sig) \subseteq Words
      BY ParameterNames
    <3>2. given \in SUBSET Words
      BY <3>1
    <3> QED BY <3>2 DEF Requests, ToolsInv, ToolsTyped
  <2>4. requests' = Append(requests, r)
    BY <2>2
  <2> HIDE DEF r
  <2>5. /\ requests' \in Seq(Requests) /\ DOMAIN requests = 1..Len(requests) /\ DOMAIN requests' = 1..Len(requests) + 1
        /\ Len(requests) \in Nat
        /\ \A i \in 1..Len(requests) : requests'[i] = requests[i]
        /\ requests'[Len(requests) + 1] = r
    BY <1>0, <2>3, <2>4, AppendProperties
  <2>6. \A i \in DOMAIN requests' : requests'[i].kind = "list" => i \in DOMAIN requests /\ requests'[i] = requests[i]
    BY <2>3, <2>5
  <2>7. \A i \in DOMAIN requests : i \in DOMAIN requests' /\ requests'[i] = requests[i]
    BY <2>5
  <2>8. OneList(requests') /\ (HasList(requests') <=> HasList(requests))
    BY <2>6, <2>7 DEF ToolsInv, AskedOnce, OneList, HasList
  <2> QED BY <1>3, <1>4, <2>5, <2>8 DEF AgentCalls, ToolsInv
<1>5. CASE ProjectCall
  <2>1. requests # <<>> /\ requests' = Tail(requests) /\ Head(requests).kind = "call"
    BY <1>5 DEF ProjectCall
  <2>2. requests' \in Seq(Requests) /\ OneList(requests') /\ (HasList(requests') <=> HasList(requests))
    BY <1>0, <2>1, TakenFacts DEF ToolsInv, AskedOnce
  <2>3. ran' \in SUBSET Calls
    <3> DEFINE given == Head(requests).given
    <3>1. CASE ran' = ran
      BY <3>1 DEF ToolsInv
    <3>2. ASSUME NEW e \in EntriesOf(Signatures), Accepts(e.sig, given),
                 ran' = {[sig |-> e.sig, given |-> given, args |-> Plan(e.sig, given)]}
          PROVE  ran' \in SUBSET Calls
      <4>1. e.sig \in {1, 2}
        <5>1. Signatures \in Listings
          BY SignaturesAreAListing DEF ToolsInv, ToolsTyped
        <5>2. e \in Entries
          <6>1. PICK i \in 1..Len(Places) : e \in Signatures[i]
            BY <5>1, EntryHasAPlace
          <6> QED BY <5>1, <6>1 DEF Listings
        <5> QED BY <5>2 DEF Entries
      <4>2. given \in SUBSET Words
        <5>1. \A sig : Names(sig) \subseteq Words
          BY ParameterNames
        <5> QED BY <3>2, <5>1 DEF Accepts
      <4> HIDE DEF given
      <4>3. Plan(e.sig, given) \in {Plan(s, g) : s \in {1, 2}, g \in SUBSET Words}
        BY <4>1, <4>2
      <4> DEFINE call == [sig |-> e.sig, given |-> given, args |-> Plan(e.sig, given)]
      <4>4. call \in [sig : {1, 2}, given : SUBSET Words, args : {Plan(s, g) : s \in {1, 2}, g \in SUBSET Words}]
        BY <4>1, <4>2, <4>3
      <4>5. call \in Calls
        BY <3>2, <4>4 DEF Calls
      <4> QED BY <3>2, <4>5
    <3> QED BY <1>5, <3>1, <3>2 DEF ProjectCall
  <2> QED BY <1>3, <2>2, <2>3
<1> QED BY <1>4, <1>5

\* The watcher looks; what it tells is what is there.
LEMMA WatchKeepsTools == ASSUME ToolsInv, Watch PROVE ToolsInv'
<1>0. /\ UNCHANGED <<nodes, order, linked, requests, registered, ran>> /\ seen' = {EntriesOf(Signatures)}
      /\ mail \in Seq(Messages) /\ ToolsTyped
  BY DEF Watch, ToolsInv, ToolsTyped
<1>1. Signatures' = Signatures /\ Signatures \in Listings /\ (ListComes' <=> ListComes)
  BY <1>0, SignaturesAreAListing DEF Signatures, Entry, ListComes, ToolsTyped
<1>2. EntriesOf(Signatures)' = EntriesOf(Signatures) /\ Kept(Signatures, told)' = Kept(Signatures, told')
  BY <1>1 DEF EntriesOf, Kept, Winner, PlaceOf
<1>3. CASE seen = {} \/ ~linked
  <2>1. mail' = mail /\ told' = told /\ ~HasEvent(mail)
    <3>1. ~linked => DOMAIN mail = {}
      BY <1>0 DEF ToolsTyped
    <3> QED BY <1>3, <3>1 DEF Watch, ToolsInv, ToldIsSeen, HasEvent
  <2>2. ToolsTyped'
    <3>1. missed' \in BOOLEAN
      BY <1>0 DEF Watch, ToolsTyped
    <3> QED BY <1>0, <2>1, <3>1 DEF ToolsTyped
  <2>3. AskedOnce' /\ ToldIsSeen'
    BY <1>0, <2>1 DEF ToolsInv, AskedOnce, ToldIsSeen, HasList, HasEvent, OneList, LastEvent
  <2>4. LatestIsRight'
    <3>1. Latest' = Latest
      BY <1>0, <2>1 DEF Latest
    <3>2. linked /\ ~ListComes /\ ~missed' => Latest = Kept(Signatures, told)
      BY <1>3 DEF Watch
    <3> QED BY <1>0, <1>1, <1>2, <2>1, <3>1, <3>2 DEF LatestIsRight
  <2> QED BY <1>0, <2>1, <2>2, <2>3, <2>4 DEF ToolsInv, OrderIsTold
<1>4. CASE ~(seen = {} \/ ~linked)
  <2> DEFINE m == [kind |-> "event", tools |-> Signatures, order |-> order]
  <2>1. m \in Messages /\ m.kind = "event" /\ m.tools = Signatures /\ m.order = order
    BY <1>0, <1>1 DEF Messages, ToolsTyped
  <2>2. mail' = Append(mail, m) /\ told' = order
    BY <1>4 DEF Watch
  <2> HIDE DEF m
  <2>3. /\ mail' \in Seq(Messages) /\ Len(mail') = Len(mail) + 1 /\ Len(mail) \in Nat
        /\ DOMAIN mail = 1..Len(mail) /\ DOMAIN mail' = 1..Len(mail) + 1
        /\ \A i \in 1..Len(mail) : mail'[i] = mail[i]
        /\ mail'[Len(mail) + 1] = m
    BY <1>0, <2>1, <2>2, AppendProperties
  <2>4. \A i \in DOMAIN mail' : mail'[i].kind = "list" => i \in DOMAIN mail /\ mail'[i] = mail[i]
    BY <2>1, <2>3
  <2>5. ToolsTyped'
    <3>1. missed' \in BOOLEAN
      BY <1>0 DEF Watch, ToolsTyped
    <3> QED BY <1>0, <1>4, <2>2, <2>3, <3>1 DEF ToolsTyped
  <2>6. AskedOnce'
    BY <1>0, <2>4 DEF ToolsInv, AskedOnce, OneList, HasList
  <2>7. ASSUME NEW j, LastEvent(mail', j) PROVE j = Len(mail')
    <3>1. j \in 1..Len(mail) + 1 /\ Len(mail) + 1 \in DOMAIN mail' /\ mail'[Len(mail) + 1].kind = "event"
      BY <2>1, <2>3, <2>7 DEF LastEvent
    <3>2. ~(Len(mail) + 1 > j)
      BY <2>7, <3>1 DEF LastEvent
    <3> QED BY <2>3, <3>1, <3>2
  <2>8. ToldIsSeen'
    <3>1. \A j : LastEvent(mail', j) => mail'[j].tools = Signatures
      BY <2>1, <2>3, <2>7
    <3>2. \A j : LastEvent(mail', j) => seen' = {EntriesOf(mail'[j].tools)}
      BY <1>0, <3>1
    <3> QED BY <1>0, <3>2 DEF ToldIsSeen, LastEvent
  <2>9. Latest' = Kept(Signatures, told') /\ OrderIsTold'
    <3>1. mail' # <<>> /\ mail'[Len(mail')] = m
      BY <2>3
    <3> QED BY <2>1, <2>2, <3>1 DEF Latest, OrderIsTold
  <2> QED BY <1>0, <1>2, <2>5, <2>6, <2>8, <2>9 DEF ToolsInv, LatestIsRight
<1> QED BY <1>3, <1>4

\* A read of the broker: what it then has is what its last message said.
LEMMA ReadsKeepTools == ASSUME ToolsInv, BrokerReads PROVE ToolsInv'
<1>0. /\ linked /\ mail # <<>> /\ UNCHANGED <<nodes, order, told, seen, linked, requests, ran>>
      /\ mail \in Seq(Messages) /\ ToolsTyped
  BY DEF BrokerReads, ToolsInv, ToolsTyped
<1> DEFINE Answers(n) == {i \in 1..n : mail[i].kind = "list"}
           Told(n) == {i \in 1..n : mail[i].kind = "event"}
           After(n) == AfterEvents(registered, SubSeq(mail, 1, n))
<1>1. PICK n \in 1..Len(mail) :
        /\ mail' = Left(mail, n)
        /\ registered' = IF Answers(n) = {} THEN After(n)
                         ELSE Sync(After(n), mail[CHOOSE i \in Answers(n) : TRUE].tools,
                                             mail[CHOOSE i \in Answers(n) : TRUE].order)
        /\ missed' = IF \E a \in Answers(n), e \in Told(n) : a < e THEN TRUE
                     ELSE IF \A i \in DOMAIN mail : mail[i].kind = "event" THEN FALSE ELSE missed
  BY DEF BrokerReads, Left
<1>2. /\ Len(mail) \in Nat /\ DOMAIN mail = 1..Len(mail) /\ n \in Nat /\ n >= 1 /\ n <= Len(mail)
      /\ \A i \in 1..Len(mail) : mail[i] \in Messages
  BY <1>0, ElementOfSeq
<1>3. \A i \in 1..Len(mail) : mail[i].kind \in {"list", "event"} /\ mail[i].tools \in Listings /\ mail[i].order \in Orders
  BY <1>2 DEF Messages
<1>4. /\ mail' \in Seq(Messages)
      /\ OneList(mail) => OneList(mail')
      /\ HasList(mail') => HasList(mail)
      /\ HasEvent(mail') => HasEvent(mail)
      /\ \A j : LastEvent(mail', j) => \E i : LastEvent(mail, i) /\ mail[i] = mail'[j]
      /\ mail' # <<>> => mail'[Len(mail')] = mail[Len(mail)]
      /\ mail' = <<>> => n = Len(mail)
  <2>1. mail \in Seq(Messages) /\ n \in 1..Len(mail) /\ mail' = Left(mail, n)
    BY <1>0, <1>1, Zenon
  <2> QED BY ONLY <2>1, LeftFacts
<1>5. ASSUME Answers(n) = {} PROVE registered' = Kept(mail[n].tools, mail[n].order)
  <2> DEFINE read == SubSeq(mail, 1, n)
  <2>1. read \in Seq(Messages) /\ Len(read) = n /\ \A i \in 1..n : read[i] = mail[i]
    BY <1>0, <1>2
  <2>2. \A i \in 1..n : i \in 1..Len(mail) /\ mail[i].kind = "event"
    BY <1>2, <1>3, <1>5
  <2> HIDE DEF read
  <2>3. DOMAIN read = 1..n /\ read # <<>> /\ n \in 1..n
    BY <1>2, <2>1
  <2>4. \A i \in DOMAIN read : read[i].kind = "event"
    BY <2>1, <2>2, <2>3
  <2>5. AfterEvents(registered, read) = Kept(read[Len(read)].tools, read[Len(read)].order)
    BY <2>1, <2>3, <2>4, AfterEventsFacts
  <2> QED BY <1>1, <1>5, <2>1, <2>3, <2>5 DEF read
<1>6. ASSUME NEW a \in Answers(n) PROVE registered' = Kept(mail[a].tools, mail[a].order)
  <2>1. \A i \in Answers(n) : i = a
    BY <1>2, <1>6 DEF ToolsInv, AskedOnce, OneList
  <2>2. (CHOOSE i \in Answers(n) : TRUE) = a
    BY <1>6, <2>1
  <2>3. mail[a].tools \in Listings /\ mail[a].order \in Orders
    BY <1>2, <1>3
  <2> QED BY <1>1, <2>2, <2>3, SyncIsKept
<1> HIDE DEF Answers, Told, After
<1>7. registered' \in SUBSET Entries
  <2>1. \A i \in 1..Len(mail) : Kept(mail[i].tools, mail[i].order) \subseteq Entries
    BY <1>3, KeptFacts
  <2>2. \A i \in Answers(n) : i \in 1..Len(mail)
    BY <1>2 DEF Answers
  <2> QED BY <1>2, <1>5, <1>6, <2>1, <2>2
<1>8. ToolsTyped'
  <2>1. missed' \in BOOLEAN
    BY <1>0, <1>1 DEF ToolsTyped
  <2> QED BY <1>0, <1>4, <1>7, <2>1 DEF ToolsTyped
<1>9. AskedOnce'
  BY <1>0, <1>4 DEF ToolsInv, AskedOnce, OneList, HasList
<1>10. ToldIsSeen'
  BY <1>0, <1>4 DEF ToolsInv, ToldIsSeen, LastEvent, HasEvent
<1>11. LatestIsRight'
  <2>0. Signatures' = Signatures /\ (ListComes' <=> ListComes)
    BY <1>0 DEF Signatures, Entry, ListComes
  <2>00. EntriesOf(Signatures)' = EntriesOf(Signatures) /\ Kept(Signatures, told)' = Kept(Signatures, told)
    BY <1>0, <2>0 DEF EntriesOf, Kept, Winner, PlaceOf
  <2>1. SUFFICES ASSUME ~ListComes, seen = {EntriesOf(Signatures)}, ~missed' PROVE Latest' = Kept(Signatures, told)
    BY <1>0, <2>0, <2>00 DEF LatestIsRight
  <2>5. told = mail[Len(mail)].order
    BY <1>0 DEF ToolsInv, OrderIsTold
  <2>2. Kept(mail[Len(mail)].tools, mail[Len(mail)].order) = Kept(Signatures, told)
    <3>1. CASE missed
      <4>1. \A i \in DOMAIN mail : mail[i].kind = "event"
        BY <1>1, <2>1, <3>1
      <4>2. LastEvent(mail, Len(mail)) /\ Len(mail) \in 1..Len(mail)
        BY <1>2, <4>1 DEF LastEvent
      <4>3. seen = {EntriesOf(mail[Len(mail)].tools)} /\ mail[Len(mail)].tools \in Listings
        BY <1>3, <4>2 DEF ToolsInv, ToldIsSeen
      <4>4. Kept(mail[Len(mail)].tools, told) = Kept(Signatures, told)
        BY <1>0, <2>1, <4>3, LastToldIsNow
      <4> QED BY <2>5, <4>4
    <3>2. CASE ~missed
      <4>1. Latest = Kept(Signatures, told)
        BY <1>0, <2>1, <3>2 DEF ToolsInv, LatestIsRight
      <4> QED BY <1>0, <4>1 DEF Latest
    <3> QED BY <3>1, <3>2
  <2>3. CASE mail' # <<>>
    BY <1>4, <2>2, <2>3 DEF Latest
  <2>4. CASE mail' = <<>>
    <3>1. n = Len(mail) /\ Latest' = registered'
      BY <1>4, <2>4 DEF Latest
    <3>2. CASE Answers(n) = {}
      BY <1>5, <2>2, <3>1, <3>2
    <3>3. ASSUME NEW a \in Answers(n) PROVE registered' = Kept(Signatures, told)
      <4>1. a \in 1..Len(mail) /\ mail[a].kind = "list"
        BY <1>2, <3>3 DEF Answers
      <4>2. a = Len(mail)
        <5>1. SUFFICES ASSUME a < Len(mail) PROVE FALSE
          BY <1>2, <4>1
        <5>2. Len(mail) \in 1..Len(mail) /\ mail[Len(mail)].kind # "list"
          BY <1>2, <4>1, <5>1 DEF ToolsInv, AskedOnce, OneList
        <5>3. Len(mail) \in Told(n)
          BY <1>3, <3>1, <5>2 DEF Told
        <5> QED BY <1>1, <2>1, <3>3, <5>1, <5>3
      <4> QED BY <1>6, <2>2, <3>3, <4>2
    <3> QED BY <3>1, <3>2, <3>3
  <2> QED BY <2>3, <2>4
<1>12. ran' \in SUBSET Calls
  BY <1>0 DEF ToolsInv
<1>13. OrderIsTold'
  BY <1>0, <1>4 DEF ToolsInv, OrderIsTold
<1> QED BY <1>8, <1>9, <1>10, <1>11, <1>12, <1>13 DEF ToolsInv

\* Every step keeps the invariant.
LEMMA NextKeepsTools == ToolsInv /\ [ToolsNext]_toolVars => ToolsInv'
<1> SUFFICES ASSUME ToolsInv, [ToolsNext]_toolVars PROVE ToolsInv'
  OBVIOUS
<1>1. CASE UNCHANGED toolVars
  <2> USE <1>1 DEF toolVars
  <2>1. Signatures' = Signatures /\ Latest' = Latest /\ (ListComes' <=> ListComes)
    BY DEF Signatures, Entry, Latest, ListComes
  <2>2. EntriesOf(Signatures)' = EntriesOf(Signatures) /\ Kept(Signatures, told)' = Kept(Signatures, told)
    BY <2>1 DEF EntriesOf, Kept, Winner, PlaceOf
  <2>3. LatestIsRight'
    BY <2>1, <2>2 DEF ToolsInv, LatestIsRight
  <2>4. ToolsTyped'
    BY DEF ToolsInv, ToolsTyped
  <2>5. AskedOnce' /\ ToldIsSeen'
    BY DEF ToolsInv, AskedOnce, ToldIsSeen, HasList, HasEvent, OneList, LastEvent
  <2> QED BY <2>3, <2>4, <2>5 DEF ToolsInv, OrderIsTold
<1> QED BY <1>1, ChangesKeepTools, MovesKeepTools, LinksKeepTools, ListingKeepsTools, CallsKeepTools, WatchKeepsTools, ReadsKeepTools
  DEF ToolsNext

\* The arguments of a planned call are at the places of their names.
LEMMA PlannedArguments ==
  ASSUME NEW sig \in {1, 2}, NEW given, Accepts(sig, given), NEW i \in DOMAIN Params(sig)
  PROVE  Plan(sig, given)[i] = IF Params(sig)[i] \in given THEN Params(sig)[i] ELSE DefaultOf(Params(sig)[i])
<1>1. Plan(sig, given)[i] = IF Params(sig)[i] \in given THEN Params(sig)[i] ELSE Defaults(sig)[i - RequiredCount(sig)]
  BY DEF Plan
<1>2. CASE sig = 1
  <2>1. /\ Params(sig) = <<"x", "y">> /\ Defaults(sig) = <<"y0">> /\ RequiredCount(sig) = 1
        /\ Required(sig) = {Params(sig)[j] : j \in 1..1}
    BY <1>2 DEF Params, Defaults, RequiredCount, Required
  <2>2. i = 1 \/ i = 2
    BY <2>1
  <2>3. "x" \in given
    BY <2>1 DEF Accepts
  <2>4. DefaultOf("y") = "y0"
    BY DEF DefaultOf
  <2> QED BY <1>1, <2>1, <2>2, <2>3, <2>4
<1>3. CASE sig = 2
  <2>1. /\ Params(sig) = <<"y", "x", "z">> /\ Defaults(sig) = <<"x0", "z0">> /\ RequiredCount(sig) = 1
        /\ Required(sig) = {Params(sig)[j] : j \in 1..1}
    BY <1>3 DEF Params, Defaults, RequiredCount, Required
  <2>2. i = 1 \/ i = 2 \/ i = 3
    BY <2>1
  <2>3. "y" \in given
    BY <2>1 DEF Accepts
  <2>4. DefaultOf("x") = "x0" /\ DefaultOf("z") = "z0"
    BY DEF DefaultOf
  <2> QED BY <1>1, <2>1, <2>2, <2>3, <2>4
<1> QED BY <1>2, <1>3

\* When nothing is under way and nothing was missed, the broker's tools are the
\* game's, of two nodes with the same method that of the node which was first
\* when the last list was made, and a call gives each parameter the argument of
\* its name (ProjectToolsWatcher, sync, plan_call_args): for any nodes, changes,
\* moves in the tree, links and calls, whatever the order in which answers and
\* events are written and read.
THEOREM ToolsAreKeptRight == ToolsSpec => []ToolsAreTheGames
<1>1. ToolsInv => ToolsAreTheGames
  <2> SUFFICES ASSUME ToolsInv PROVE ToolsAreTheGames
    OBVIOUS
  <2>1. QuietMeansCurrent
    BY DEF ToolsInv, LatestIsRight, QuietMeansCurrent, Quiet, Latest
  <2>2. ArgumentsKeepTheirNames
    <3> SUFFICES ASSUME NEW call \in ran, NEW i \in DOMAIN Params(call.sig)
                 PROVE  call.args[i] = IF Params(call.sig)[i] \in call.given
                                       THEN Params(call.sig)[i] ELSE DefaultOf(Params(call.sig)[i])
      BY DEF ArgumentsKeepTheirNames
    <3>1. call.sig \in {1, 2} /\ call.args = Plan(call.sig, call.given) /\ Accepts(call.sig, call.given)
      BY DEF ToolsInv, Calls
    <3> QED BY <3>1, PlannedArguments
  <2> QED BY <2>1, <2>2 DEF ToolsAreTheGames
<1> QED BY <1>1, InitTools, NextKeepsTools, PTL DEF ToolsSpec

=============================================================================
