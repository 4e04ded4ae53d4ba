------------------------- MODULE DebugMirror_proofs -------------------------
(***************************************************************************)
(* The editor's own setting, the breakpoints of every game and the flag    *)
(* the broker keeps of them, for any number of sessions, breakpoints,      *)
(* signals and connections.                                                *)
(*                                                                         *)
(* The flag is right because whatever is wrong about it has news behind    *)
(* it: the last event under way that sets the flag would set it right, and *)
(* a flag or a snapshot that disagrees with the games as they are has such *)
(* an event after it.  That holds from the signals, which queue the event  *)
(* as they change the session, through the queues and the wire, to the     *)
(* chunk the broker reads.                                                 *)
(***************************************************************************)
EXTENDS DebugMirror, FiniteSetTheorems, WellFoundedInduction, TLAPS

\* The mirrored state is well formed: what the steps below rely on.
Mirrored ==
  /\ sessions \in [Sessions -> [active : BOOLEAN, breaked : BOOLEAN]]
  /\ \A s \in Sessions : sessions[s].breaked => sessions[s].active
  /\ applied \in [Sessions -> SUBSET Breakpoints]
  /\ list \subseteq Breakpoints
  /\ lowMode \in BOOLEAN

\* The inductive invariant.
MirrorInv == Mirrored /\ OverrideFollowsBreaks /\ BreakpointsApplied

\* A saved setting is not the absence of one, and comes back as it was: the
\* encoding of Option<bool> by a set.
LEMMA SomeIsNotNone == \A mode \in BOOLEAN : Some(mode) # None /\ (TRUE \in Some(mode)) = mode
<1>1. Some(TRUE) # None /\ TRUE \in Some(TRUE)
  BY DEF Some, None
<1>2. Some(FALSE) # None /\ (TRUE \in Some(FALSE)) = FALSE
  <2>1. TRUE \notin {FALSE}
    OBVIOUS
  <2> QED BY <2>1 DEF Some, None
<1>3. ASSUME NEW mode \in BOOLEAN
      PROVE  Some(mode) # None /\ (TRUE \in Some(mode)) = mode
  <2>1. CASE mode = TRUE
    BY <1>1, <2>1
  <2>2. CASE mode = FALSE
    BY <1>2, <2>2
  <2> QED BY <2>1, <2>2
<1> QED BY <1>3

\* At the start no session is known and nothing is overridden.
LEMMA InitMirror == Init => MirrorInv
  BY LowModeAssumption DEF Init, MirrorInv, Mirrored, OverrideFollowsBreaks, BreakpointsApplied, AnyBreaked

\* Restore gives the saved setting back, and nothing when none was saved.
LEMMA RestoreGivesBack ==
  ASSUME MirrorInv, Restore
  PROVE  override' = None /\ lowMode' = LowMode
<1>1. CASE AnyBreaked(sessions)
  BY <1>1, SomeIsNotNone, LowModeAssumption DEF MirrorInv, OverrideFollowsBreaks, Restore
<1>2. CASE ~AnyBreaked(sessions)
  BY <1>2 DEF MirrorInv, OverrideFollowsBreaks, Restore
<1> QED BY <1>1, <1>2

\* A game that starts: all listed breakpoints, and no change of the override.
LEMMA StartedKeepsMirror ==
  ASSUME MirrorInv, NEW s \in Sessions, SessionStarted(s)
  PROVE  MirrorInv'
<1> USE DEF MirrorInv
<1>1. Mirrored'
  BY DEF SessionStarted, Mirrored, StoredBreakpoints
<1>2. AnyBreaked(sessions') = AnyBreaked(sessions)
  BY DEF SessionStarted, Mirrored, AnyBreaked
<1>3. OverrideFollowsBreaks'
  BY <1>2 DEF SessionStarted, OverrideFollowsBreaks, AnyBreaked
<1>4. BreakpointsApplied'
  BY DEF SessionStarted, Mirrored, BreakpointsApplied, StoredBreakpoints
<1> QED BY <1>1, <1>3, <1>4

\* A game that stops: the override is given back with the last halted session.
LEMMA StoppedKeepsMirror ==
  ASSUME MirrorInv, NEW s \in Sessions, SessionStopped(s)
  PROVE  MirrorInv'
<1>1. AnyBreaked(sessions') \/ Restore
  BY DEF SessionStopped, RestoreUnless
<1>2. CASE AnyBreaked(sessions')
  <2>1. UNCHANGED <<override, lowMode>>
    BY <1>2 DEF SessionStopped, RestoreUnless
  <2>2. AnyBreaked(sessions)
    BY <1>2 DEF SessionStopped, Ended, MirrorInv, Mirrored, AnyBreaked
  <2>3. OverrideFollowsBreaks'
    BY <1>2, <2>1, <2>2 DEF MirrorInv, OverrideFollowsBreaks, AnyBreaked
  <2>4. lowMode' \in BOOLEAN
    BY <2>1 DEF MirrorInv, Mirrored
  <2> QED BY <2>3, <2>4 DEF SessionStopped, Ended, MirrorInv, Mirrored, BreakpointsApplied
<1>3. CASE ~AnyBreaked(sessions')
  <2>1. override' = None /\ lowMode' = LowMode
    BY <1>1, <1>3, RestoreGivesBack
  <2>2. OverrideFollowsBreaks'
    BY <1>3, <2>1 DEF OverrideFollowsBreaks, AnyBreaked
  <2> QED BY <2>1, <2>2, LowModeAssumption DEF SessionStopped, Ended, MirrorInv, Mirrored, BreakpointsApplied
<1> QED BY <1>2, <1>3

\* A session that breaks: the first one saves the setting, the others keep it.
LEMMA BreakedKeepsMirror ==
  ASSUME MirrorInv, NEW s \in Sessions, SessionBreaked(s)
  PROVE  MirrorInv'
<1>1. AnyBreaked(sessions')
  BY DEF SessionBreaked, MirrorInv, Mirrored, AnyBreaked
<1>2. override' = Some(LowMode) /\ lowMode' = FALSE
  BY SomeIsNotNone, LowModeAssumption DEF SessionBreaked, Enable, MirrorInv, OverrideFollowsBreaks
<1>3. OverrideFollowsBreaks'
  BY <1>1, <1>2 DEF OverrideFollowsBreaks, AnyBreaked
<1> QED BY <1>2, <1>3 DEF SessionBreaked, MirrorInv, Mirrored, BreakpointsApplied

\* A session that continues: as for one that stops, but it stays active.
LEMMA ContinuedKeepsMirror ==
  ASSUME MirrorInv, NEW s \in Sessions, SessionContinued(s)
  PROVE  MirrorInv'
<1>1. CASE AnyBreaked(sessions')
  <2>1. UNCHANGED <<override, lowMode>>
    BY <1>1 DEF SessionContinued, RestoreUnless
  <2>2. AnyBreaked(sessions)
    BY <1>1 DEF SessionContinued, MirrorInv, Mirrored, AnyBreaked
  <2>3. OverrideFollowsBreaks'
    BY <1>1, <2>1, <2>2 DEF MirrorInv, OverrideFollowsBreaks, AnyBreaked
  <2>4. lowMode' \in BOOLEAN
    BY <2>1 DEF MirrorInv, Mirrored
  <2> QED BY <2>3, <2>4 DEF SessionContinued, MirrorInv, Mirrored, BreakpointsApplied
<1>2. CASE ~AnyBreaked(sessions')
  <2>1. override' = None /\ lowMode' = LowMode
    BY <1>2, RestoreGivesBack DEF SessionContinued, RestoreUnless
  <2>2. OverrideFollowsBreaks'
    BY <1>2, <2>1 DEF OverrideFollowsBreaks, AnyBreaked
  <2> QED BY <2>1, <2>2, LowModeAssumption DEF SessionContinued, MirrorInv, Mirrored, BreakpointsApplied
<1> QED BY <1>1, <1>2

\* The plugin is torn down with sessions possibly halted.
LEMMA UninstallKeepsMirror ==
  ASSUME MirrorInv, Uninstall
  PROVE  MirrorInv'
<1>1. override' = None /\ lowMode' = LowMode
  BY RestoreGivesBack DEF Uninstall
<1>2. ~AnyBreaked(sessions')
  BY DEF Uninstall, AnyBreaked
<1>3. OverrideFollowsBreaks'
  BY <1>1, <1>2 DEF OverrideFollowsBreaks, AnyBreaked
<1> QED BY <1>1, <1>3, LowModeAssumption DEF Uninstall, MirrorInv, Mirrored, BreakpointsApplied

\* Setting a line: every running game gets it.
LEMMA SetKeepsMirror ==
  ASSUME MirrorInv, NEW b \in Breakpoints, SetBreakpoint(b)
  PROVE  MirrorInv'
<1>1. Mirrored' /\ BreakpointsApplied'
  BY DEF SetBreakpoint, ApplyToActive, MirrorInv, Mirrored, BreakpointsApplied
<1>2. OverrideFollowsBreaks'
  BY DEF SetBreakpoint, MirrorInv, OverrideFollowsBreaks, AnyBreaked
<1> QED BY <1>1, <1>2 DEF MirrorInv

\* Clearing lines: every running game loses exactly the listed ones among them.
LEMMA ClearKeepsMirror ==
  ASSUME MirrorInv, NEW B, ClearBreakpoints(B)
  PROVE  MirrorInv'
<1>1. Mirrored' /\ BreakpointsApplied'
  BY DEF ClearBreakpoints, ApplyToActive, MirrorInv, Mirrored, BreakpointsApplied
<1>2. OverrideFollowsBreaks'
  BY DEF ClearBreakpoints, MirrorInv, OverrideFollowsBreaks, AnyBreaked
<1> QED BY <1>1, <1>2 DEF MirrorInv

\* The operations, the link and the broker change nothing of the mirrored state.
LEMMA OthersKeepMirror ==
  ASSUME MirrorInv, UNCHANGED stateVars
  PROVE  MirrorInv'
  BY DEF stateVars, MirrorInv, Mirrored, OverrideFollowsBreaks, BreakpointsApplied, AnyBreaked

\* Every step of the bridge, the engine or the broker keeps the invariant.
LEMMA NextKeepsMirror == MirrorInv /\ [Next]_vars => MirrorInv'
<1> SUFFICES ASSUME MirrorInv, [Next]_vars
             PROVE  MirrorInv'
  OBVIOUS
<1>1. ASSUME NEW s \in Sessions, SessionStarted(s) \/ SessionStopped(s) \/ SessionBreaked(s) \/ SessionContinued(s)
      PROVE  MirrorInv'
  BY <1>1, StartedKeepsMirror, StoppedKeepsMirror, BreakedKeepsMirror, ContinuedKeepsMirror
<1>2. ASSUME NEW s \in Sessions, BreakOp(s) \/ ContinueOp(s) \/ StepOp(s)
      PROVE  MirrorInv'
  BY <1>2, OthersKeepMirror DEF BreakOp, ContinueOp, StepOp, Suspend
<1>3. ASSUME NEW b \in Breakpoints, SetBreakpoint(b) \/ ClearBreakpoints({b})
      PROVE  MirrorInv'
  BY <1>3, SetKeepsMirror, ClearKeepsMirror
<1>4. ASSUME NEW B \in Files \cup {Breakpoints}, ClearBreakpoints(B)
      PROVE  MirrorInv'
  BY <1>4, ClearKeepsMirror
<1>5. CASE Uninstall
  BY <1>5, UninstallKeepsMirror
<1>6. CASE PollTransition
  BY <1>6, OthersKeepMirror DEF PollTransition
<1>7. CASE Connect \/ DropStaleSnapshots \/ DropStaleEvents \/ Attach \/ ReadRequest \/ AnswerState
  BY <1>7, OthersKeepMirror DEF Connect, DropStaleSnapshots, DropStaleEvents, Attach, ReadRequest, AnswerState, engineVars
<1>8. CASE WriteSnapshot \/ WriteEvent \/ TurnIo \/ DropLink \/ LoseLink
  BY <1>8, OthersKeepMirror DEF WriteSnapshot, WriteEvent, TurnIo, DropLink, LoseLink, engineVars
<1>9. CASE ReadChunk
  <2>1. UNCHANGED engineVars
    BY <1>9 DEF ReadChunk
  <2> QED BY <2>1, OthersKeepMirror DEF engineVars
<1>10. CASE ResyncTimeout
  BY <1>10, OthersKeepMirror DEF ResyncTimeout, engineVars
<1>11. CASE UNCHANGED vars
  BY <1>11, OthersKeepMirror DEF vars, engineVars
<1> QED BY <1>1, <1>2, <1>3, <1>4, <1>5, <1>6, <1>7, <1>8, <1>9, <1>10, <1>11 DEF Next

\* The editor runs at full speed exactly while some session is halted, and its
\* own setting is back when none is (enable_responsiveness, restore_responsiveness).
THEOREM OverrideIsGivenBack == Spec => []OverrideFollowsBreaks
<1>1. MirrorInv => OverrideFollowsBreaks
  BY DEF MirrorInv
<1> QED BY <1>1, InitMirror, NextKeepsMirror, PTL DEF Spec

\* Every running game has exactly the listed breakpoints (on_session_started,
\* add_breakpoint, remove_breakpoint, clear_breakpoints).
THEOREM GamesHaveTheListedBreakpoints == Spec => []BreakpointsApplied
<1>1. MirrorInv => BreakpointsApplied
  BY DEF MirrorInv
<1> QED BY <1>1, InitMirror, NextKeepsMirror, PTL DEF Spec


----------------------------------------------------------------------------
(* What is under way to the broker. *)

\* What a message from the editor bridge can be.
SignalEvent == [kind : Kinds, session : Sessions, made : Nat]
Snapshot    == [kind : {"snapshot"}, n : Nat, breaked : SUBSET Sessions]
Message     == {Hello} \cup SignalEvent \cup Snapshot

\* The flag is right about the games that run now.
Agrees(flag) ==
  /\ flag.breaked => flag.session \in Sessions /\ sessions[flag.session].breaked
  /\ Cardinality(debugged) <= 1 /\ AnyBreaked(sessions) => flag.breaked

\* The events that leave such a flag.
RightEvents == {e \in SignalEvent : Agrees(OnEvent(Cleared, e))}

\* A sequence of messages sets the flag; the last one to set it is in A.
Tells(q) == \E i \in DOMAIN q : Telling(q[i])
LastIn(q, A) ==
  \A i \in DOMAIN q :
    Telling(q[i]) /\ (\A j \in DOMAIN q : j > i => ~Telling(q[j])) => q[i] \in A

\* It holds, after a position, a telling event not older than the snapshot n.
News(q, from, n) == \E j \in DOMAIN q : j > from /\ Telling(q[j]) /\ q[j].made >= n

\* Every started session is known, and what is under way is well formed.
LinkTyped ==
  /\ IsFiniteSet(debugged)
  /\ \A s \in Sessions : sessions[s].active => s \in debugged
  /\ made \in Nat
  /\ events \in Seq(SignalEvent)
  /\ snapshots \in Seq(Snapshot)
  /\ wire \in Seq(Message)
  /\ \A i \in DOMAIN snapshots : snapshots[i].n <= made
  /\ \A i \in DOMAIN wire : wire[i].kind = "snapshot" => wire[i].n <= made

\* Before the drains are over nothing but the hello has been written.
StaleLink ==
  io \in {"stale responses", "stale events"} =>
    resync # "done" /\ \A i \in DOMAIN wire : wire[i].kind = "hello"

\* The last telling event under way leaves a flag that is right now.
LastNewsIsRight ==
  installed => LastIn(events, RightEvents) /\ (Tells(events) \/ LastIn(wire, RightEvents))

\* A flag that is wrong now has a telling event on its way.
FlagIsRightOrNewsComes ==
  installed /\ bridgeUp /\ client = "attached" /\ resync = "done" /\ ~crossed
    => Agrees(debug) \/ Tells(events) \/ Tells(wire)

\* A snapshot that is wrong now has one behind it.
SnapshotsAreRightOrNewsComes ==
  installed /\ bridgeUp /\ client # "none" /\ io # "stale responses" /\ ~crossed =>
    /\ \A i \in DOMAIN snapshots : \A flag \in OnSnapshot(snapshots[i]) :
         Agrees(flag) \/ News(events, 0, snapshots[i].n)
    /\ \A i \in DOMAIN wire : wire[i].kind = "snapshot" =>
         \A flag \in OnSnapshot(wire[i]) :
           Agrees(flag) \/ News(events, 0, wire[i].n) \/ News(wire, i, wire[i].n)

NewsInv == /\ LinkTyped /\ StaleLink /\ LastNewsIsRight
           /\ FlagIsRightOrNewsComes /\ SnapshotsAreRightOrNewsComes

\* Appending a message.
LEMMA AppendMessage ==
  ASSUME NEW S, NEW q \in Seq(S), NEW e \in S
  PROVE  /\ Append(q, e) \in Seq(S)
         /\ Tells(Append(q, e)) <=> Tells(q) \/ Telling(e)
         /\ \A A : Telling(e) /\ e \in A => LastIn(Append(q, e), A)
         /\ \A A : ~Telling(e) /\ LastIn(q, A) => LastIn(Append(q, e), A)
         /\ \A from, n : News(q, from, n) => News(Append(q, e), from, n)
         /\ \A n : \A from \in 0..Len(q) : Telling(e) /\ e.made >= n => News(Append(q, e), from, n)
         /\ DOMAIN Append(q, e) = DOMAIN q \cup {Len(q) + 1} /\ DOMAIN q = 1..Len(q) /\ Len(q) \in Nat
         /\ Append(q, e)[Len(q) + 1] = e /\ \A i \in DOMAIN q : Append(q, e)[i] = q[i]
<1> DEFINE r == Append(q, e)
           m == Len(q) + 1
<1>1. r \in Seq(S) /\ Len(q) \in Nat
  OBVIOUS
<1>2. DOMAIN q = 1..Len(q) /\ DOMAIN r = 1..m /\ DOMAIN r = DOMAIN q \cup {m}
  BY <1>1
<1>3. r[m] = e
  OBVIOUS
<1>4. \A i \in DOMAIN q : r[i] = q[i]
  OBVIOUS
<1>5. Tells(r) <=> Tells(q) \/ Telling(e)
  BY <1>2, <1>3, <1>4 DEF Tells
<1>6. ASSUME NEW A, Telling(e), e \in A PROVE LastIn(r, A)
  BY <1>1, <1>2, <1>3, <1>4, <1>6 DEF LastIn
<1>7. ASSUME NEW A, ~Telling(e), LastIn(q, A) PROVE LastIn(r, A)
  BY <1>1, <1>2, <1>3, <1>4, <1>7 DEF LastIn
<1>8. ASSUME NEW from, NEW n, News(q, from, n) PROVE News(r, from, n)
  BY <1>2, <1>4, <1>8 DEF News
<1>9. ASSUME NEW n, NEW from \in 0..Len(q), Telling(e), e.made >= n PROVE News(r, from, n)
  BY <1>1, <1>2, <1>3, <1>9 DEF News
<1> QED
  BY <1>1, <1>2, <1>3, <1>4, <1>5, <1>6, <1>7, <1>8, <1>9

\* The length and the positions of a sequence; the empty one.
LEMMA Positions == ASSUME NEW S, NEW q \in Seq(S) PROVE Len(q) \in Nat /\ DOMAIN q = 1..Len(q) /\ \A i \in DOMAIN q : q[i] \in S
  OBVIOUS

\* The empty sequence of messages.
LEMMA NoMessages ==
  /\ \A S : <<>> \in Seq(S)
  /\ DOMAIN <<>> = {}
  /\ \A A : LastIn(<<>>, A)
  BY DEF LastIn

\* Dropping the first n messages.
LEMMA DropMessages ==
  ASSUME NEW S, NEW q \in Seq(S), NEW n \in 0..Len(q)
  PROVE  LET r == SubSeq(q, n + 1, Len(q))
         IN  /\ r \in Seq(S)
             /\ DOMAIN r = 1..(Len(q) - n) /\ DOMAIN q = 1..Len(q) /\ Len(q) \in Nat
             /\ \A i \in DOMAIN r : r[i] = q[n + i]
             /\ Tells(r) => Tells(q)
             /\ \A A : LastIn(q, A) => LastIn(r, A)
             /\ \A i \in DOMAIN r : \A k : News(q, n + i, k) => News(r, i, k)
<1> DEFINE r == SubSeq(q, n + 1, Len(q))
<1>1. r \in Seq(S) /\ Len(q) \in Nat /\ Len(r) = Len(q) - n
  OBVIOUS
<1>2. DOMAIN r = 1..(Len(q) - n) /\ DOMAIN q = 1..Len(q)
  BY <1>1
<1>7. \A i \in 1..(Len(q) - n) : r[i] = q[n + i]
  OBVIOUS
<1> HIDE DEF r
<1>3. \A i \in DOMAIN r : r[i] = q[n + i] /\ n + i \in DOMAIN q
  BY <1>1, <1>2, <1>7
<1>8. ASSUME NEW i \in DOMAIN r, NEW j \in DOMAIN q, j > n + i
      PROVE  j - n \in DOMAIN r /\ j - n > i /\ r[j - n] = q[j]
  <2>1. j - n \in 1..(Len(q) - n) /\ n + (j - n) = j
    BY <1>1, <1>2, <1>8
  <2> QED
    BY <1>2, <1>7, <1>8, <2>1
<1>4. Tells(r) => Tells(q)
  BY <1>3 DEF Tells
<1>5. ASSUME NEW A, LastIn(q, A) PROVE LastIn(r, A)
  <2> SUFFICES ASSUME NEW i \in DOMAIN r, Telling(r[i]), \A j \in DOMAIN r : j > i => ~Telling(r[j])
               PROVE  r[i] \in A
    BY DEF LastIn
  <2>1. \A j \in DOMAIN q : j > n + i => ~Telling(q[j])
    <3> SUFFICES ASSUME NEW j \in DOMAIN q, j > n + i PROVE ~Telling(q[j])
      OBVIOUS
    <3>1. j - n \in DOMAIN r /\ j - n > i /\ r[j - n] = q[j]
      BY <1>8
    <3> QED
      BY <3>1
  <2> QED
    BY <1>3, <1>5, <2>1 DEF LastIn
<1>6. ASSUME NEW i \in DOMAIN r, NEW k, News(q, n + i, k) PROVE News(r, i, k)
  <2>1. PICK j \in DOMAIN q : j > n + i /\ Telling(q[j]) /\ q[j].made >= k
    BY <1>6 DEF News
  <2>2. j - n \in DOMAIN r /\ j - n > i /\ r[j - n] = q[j]
    BY <1>8, <2>1
  <2> QED
    BY <2>1, <2>2 DEF News
<1> QED
  BY <1>1, <1>2, <1>3, <1>4, <1>5, <1>6 DEF r

\* Taking the first message away.
LEMMA TakeMessage ==
  ASSUME NEW S, NEW q \in Seq(S), q # <<>>
  PROVE  /\ Head(q) \in S /\ Tail(q) \in Seq(S)
         /\ 1 \in DOMAIN q /\ Head(q) = q[1]
         /\ Tells(q) <=> Telling(Head(q)) \/ Tells(Tail(q))
         /\ \A A : LastIn(q, A) => LastIn(Tail(q), A)
         /\ \A A : LastIn(q, A) /\ Telling(Head(q)) /\ ~Tells(Tail(q)) => Head(q) \in A
         /\ \A k : News(q, 0, k) => News(Tail(q), 0, k) \/ (Telling(Head(q)) /\ Head(q).made >= k)
         /\ \A i \in DOMAIN Tail(q) : i + 1 \in DOMAIN q /\ Tail(q)[i] = q[i + 1]
<1> DEFINE r == Tail(q)
<1>1. Head(q) \in S /\ r \in Seq(S) /\ Len(q) \in Nat \ {0} /\ Len(r) = Len(q) - 1 /\ Head(q) = q[1]
  OBVIOUS
<1>2. DOMAIN r = 1..(Len(q) - 1) /\ DOMAIN q = 1..Len(q)
  BY <1>1
<1>3. \A i \in DOMAIN r : i + 1 \in DOMAIN q /\ r[i] = q[i + 1]
  BY <1>1, <1>2
<1>4. \A i \in DOMAIN q : i # 1 => i - 1 \in DOMAIN r /\ r[i - 1] = q[i]
  BY <1>1, <1>2, <1>3
<1>5. Tells(q) <=> Telling(Head(q)) \/ Tells(r)
  <2>1. Tells(q) => Telling(Head(q)) \/ Tells(r)
    BY <1>1, <1>4 DEF Tells
  <2>2. 1 \in DOMAIN q
    BY <1>1, <1>2
  <2>3. Telling(Head(q)) \/ Tells(r) => Tells(q)
    BY <1>1, <1>3, <2>2 DEF Tells
  <2> QED
    BY <2>1, <2>3
<1>6. ASSUME NEW A, LastIn(q, A) PROVE LastIn(r, A)
  <2> SUFFICES ASSUME NEW i \in DOMAIN r, Telling(r[i]), \A j \in DOMAIN r : j > i => ~Telling(r[j])
               PROVE  r[i] \in A
    BY DEF LastIn
  <2>1. \A j \in DOMAIN q : j > i + 1 => ~Telling(q[j])
    <3> SUFFICES ASSUME NEW j \in DOMAIN q, j > i + 1 PROVE ~Telling(q[j])
      OBVIOUS
    <3>1. j - 1 \in DOMAIN r /\ j - 1 > i /\ r[j - 1] = q[j]
      BY <1>1, <1>2, <1>4
    <3> QED
      BY <3>1
  <2> QED
    BY <1>3, <1>6, <2>1 DEF LastIn
<1>7. ASSUME NEW A, LastIn(q, A), Telling(Head(q)), ~Tells(r) PROVE Head(q) \in A
  <2>1. \A j \in DOMAIN q : j > 1 => ~Telling(q[j])
    <3> SUFFICES ASSUME NEW j \in DOMAIN q, j > 1, Telling(q[j]) PROVE FALSE
      OBVIOUS
    <3>1. j - 1 \in DOMAIN r /\ Telling(r[j - 1])
      BY <1>4
    <3> QED
      BY <1>7, <3>1 DEF Tells
  <2>2. 1 \in DOMAIN q
    BY <1>1, <1>2
  <2> QED
    BY <1>1, <1>7, <2>1, <2>2 DEF LastIn
<1>8. ASSUME NEW k, News(q, 0, k) PROVE News(r, 0, k) \/ (Telling(Head(q)) /\ Head(q).made >= k)
  <2>1. PICK j \in DOMAIN q : Telling(q[j]) /\ q[j].made >= k
    BY <1>8 DEF News
  <2>2. CASE j = 1
    BY <1>1, <2>1, <2>2
  <2>3. CASE j # 1
    <3>1. j - 1 \in DOMAIN r /\ r[j - 1] = q[j] /\ j - 1 > 0
      BY <1>2, <1>4, <2>3
    <3> QED
      BY <2>1, <3>1 DEF News
  <2> QED
    BY <2>2, <2>3
<1>9. 1 \in DOMAIN q
  BY <1>1, <1>2
<1> QED
  BY <1>1, <1>3, <1>5, <1>6, <1>7, <1>8, <1>9

\* A set of naturals has a least member.
LEMMA LeastOf ==
  ASSUME NEW T \in SUBSET Nat, T # {}
  PROVE  \E i \in T : \A j \in T : i <= j
<1> DEFINE Below == {p \in Nat \X Nat : p[1] < p[2]}
<1>1. IsWellFoundedOn(Below, Nat)
  BY NatLessThanWellFounded DEF OpToRel
<1>2. \A i, j \in Nat : <<j, i>> \notin Below => i <= j
  OBVIOUS
<1> HIDE DEF Below
<1>3. PICK i \in T : \A j \in T : <<j, i>> \notin Below
  BY <1>1, WFMin
<1>4. \A j \in T : i <= j
  BY <1>2, <1>3
<1> QED
  BY <1>4

\* The last telling event of a chunk, and its first snapshot, exist.
LEMMA Extremes ==
  ASSUME NEW n \in Nat, NEW T \in SUBSET (1..n), T # {}
  PROVE  /\ \E i \in T : \A j \in T : i <= j
         /\ \E i \in T : \A j \in T : j <= i
<1> DEFINE U == {n - i : i \in T}
<1>1. T \in SUBSET Nat /\ U \in SUBSET Nat /\ U # {}
  OBVIOUS
<1>3. PICK k \in U : \A j \in U : k <= j
  BY <1>1, LeastOf
<1>6. PICK l \in T : k = n - l
  BY <1>3
<1>7. \A j \in T : n - l <= n - j
  BY <1>3, <1>6
<1>8. \A j \in T : j <= l
  BY <1>7
<1>9. \E i \in T : \A j \in T : i <= j
  BY <1>1, LeastOf
<1> QED
  BY <1>8, <1>9

\* A telling message is a session signal; what it makes of the flag does not
\* depend on the flag.
LEMMA TellingEvents ==
  /\ \A m \in Message : Telling(m) => m \in SignalEvent
  /\ \A m \in Message : m.kind = "snapshot" => m \in Snapshot
  /\ ~Telling(Hello) /\ Hello \in Message
  /\ \A m \in Snapshot : ~Telling(m) /\ m \in Message /\ m.kind = "snapshot"
  /\ \A e \in SignalEvent : e \in Message /\ e.kind # "snapshot"
  /\ \A m \in Message : \A flag : Telling(m) => OnEvent(flag, m) = OnEvent(Cleared, m)
  /\ \A e \in SignalEvent : Telling(e) /\ OnEvent(Cleared, e).breaked => OnEvent(Cleared, e).session \in Sessions
  BY DEF Message, SignalEvent, Snapshot, Hello, Telling, OnEvent, Kinds, Cleared

\* What the events of a chunk make of the flag.
LEMMA ChunkTells ==
  ASSUME NEW q \in Seq(Message), NEW flag
  PROVE  \/ ~Tells(q) /\ OnEvents(flag, q) = flag
         \/ \E i \in DOMAIN q : /\ Telling(q[i]) /\ \A j \in DOMAIN q : j > i => ~Telling(q[j])
                                /\ OnEvents(flag, q) = OnEvent(Cleared, q[i])
<1> DEFINE told == {i \in DOMAIN q : Telling(q[i])}
           last == CHOOSE i \in told : \A j \in told : j <= i
<1>1. DOMAIN q = 1..Len(q) /\ Len(q) \in Nat
  OBVIOUS
<1>2. CASE told = {}
  BY <1>2 DEF OnEvents, Tells
<1>3. CASE told # {}
  <2>1. \E i \in told : \A j \in told : j <= i
    BY <1>1, <1>3, Extremes
  <2>2. last \in told /\ \A j \in told : j <= last
    BY <2>1
  <2>3. OnEvents(flag, q) = OnEvent(flag, q[last])
    BY <1>3 DEF OnEvents
  <2>4. q[last] \in Message /\ Telling(q[last])
    BY <2>2
  <2>5. OnEvents(flag, q) = OnEvent(Cleared, q[last])
    BY <2>3, <2>4, TellingEvents
  <2>6. \A j \in DOMAIN q : j > last => ~Telling(q[j])
    <3> SUFFICES ASSUME NEW j \in DOMAIN q, j > last, Telling(q[j]) PROVE FALSE
      OBVIOUS
    <3>1. j \in told /\ j <= last
      BY <2>2
    <3>2. j \in Int /\ last \in Int
      BY <1>1, <2>2
    <3> QED
      BY <3>1, <3>2
  <2> QED
    BY <2>2, <2>4, <2>5, <2>6
<1> QED
  BY <1>2, <1>3

\* With one session debugged, a halted one is it.
LEMMA OnlySession ==
  ASSUME LinkTyped, Cardinality(debugged) <= 1, NEW s \in debugged, NEW t \in debugged
  PROVE  s = t
<1> SUFFICES ASSUME s # t PROVE FALSE
  OBVIOUS
<1>1. IsFiniteSet({s, t}) /\ Cardinality({s, t}) = 2
  <2>1. IsFiniteSet({s}) /\ Cardinality({s}) = 1
    BY FS_Singleton
  <2>2. IsFiniteSet({s} \cup {t}) /\ Cardinality({s} \cup {t}) = 2
    BY <2>1, FS_AddElement
  <2>3. {s, t} = {s} \cup {t}
    OBVIOUS
  <2> QED
    BY <2>2, <2>3
<1>2. Cardinality({s, t}) <= Cardinality(debugged)
  BY FS_Subset DEF LinkTyped
<1>3. Cardinality(debugged) \in Nat
  BY FS_CardinalityType DEF LinkTyped
<1> QED
  BY <1>1, <1>2, <1>3

\* Flags agree as before when the sessions are as before.
LEMMA SameAgreement ==
  ASSUME UNCHANGED <<sessions, debugged>>
  PROVE  (\A flag : Agrees(flag)' <=> Agrees(flag)) /\ RightEvents' = RightEvents
  BY DEF Agrees, AnyBreaked, RightEvents

\* The news leave out the bounds, the operations and the breakpoints.
newsVars == <<installed, sessions, debugged, events, snapshots, made, io, bridgeUp, client, wire, resync, debug, crossed>>

\* What does not touch the link or the sessions keeps the news.
LEMMA SameNews == NewsInv /\ UNCHANGED newsVars => NewsInv'
<1> SUFFICES ASSUME NewsInv, UNCHANGED newsVars PROVE NewsInv'
  OBVIOUS
<1>1. (\A flag : Agrees(flag)' <=> Agrees(flag)) /\ RightEvents' = RightEvents
  BY SameAgreement DEF newsVars
<1>2. LinkTyped' /\ StaleLink'
  BY DEF newsVars, NewsInv, LinkTyped, StaleLink
<1>3. LastNewsIsRight'
  BY <1>1 DEF newsVars, NewsInv, LastNewsIsRight
<1>4. FlagIsRightOrNewsComes'
  BY <1>1 DEF newsVars, NewsInv, FlagIsRightOrNewsComes
<1>5. SnapshotsAreRightOrNewsComes'
  BY <1>1 DEF newsVars, NewsInv, SnapshotsAreRightOrNewsComes
<1> QED
  BY <1>2, <1>3, <1>4, <1>5 DEF NewsInv

\* A signal leaves the link as it is, but for the event it adds.
LEMMA SignalLink ==
  ASSUME NewsInv, NEW k \in Kinds, NEW s \in Sessions, Emit(k, s), UNCHANGED linkVars,
         IsFiniteSet(debugged'), \A t \in Sessions : sessions'[t].active => t \in debugged'
  PROVE  LinkTyped' /\ StaleLink'
<1> DEFINE e == [kind |-> k, session |-> s, made |-> made]
<1>1. e \in SignalEvent
  BY DEF NewsInv, LinkTyped, SignalEvent
<1>2. events' = Append(events, e)
  BY DEF Emit
<1>3. events' \in Seq(SignalEvent)
  BY <1>1, <1>2, AppendMessage DEF NewsInv, LinkTyped
<1>4. UNCHANGED <<snapshots, made, io, wire, resync>>
  BY DEF linkVars
<1>5. LinkTyped'
  BY <1>3, <1>4 DEF NewsInv, LinkTyped
<1> QED
  BY <1>4, <1>5 DEF NewsInv, StaleLink

\* A signal that sets the flag, and sets it right, is behind whatever is wrong.
LEMMA TellingSignal ==
  ASSUME NewsInv, NEW k \in Kinds, NEW s \in Sessions, Emit(k, s), UNCHANGED linkVars,
         LinkTyped', StaleLink',
         Telling([kind |-> k, session |-> s, made |-> made]),
         [kind |-> k, session |-> s, made |-> made] \in RightEvents'
  PROVE  NewsInv'
<1> DEFINE e == [kind |-> k, session |-> s, made |-> made]
<1>1. e \in SignalEvent /\ Telling(e) /\ e \in RightEvents' /\ e.made = made
  BY DEF NewsInv, LinkTyped, SignalEvent
<1>2. events' = Append(events, e) /\ events \in Seq(SignalEvent)
  BY DEF Emit, NewsInv, LinkTyped
<1> HIDE DEF e
<1>3. Tells(events')
  BY <1>1, <1>2, AppendMessage
<1>4. LastIn(events', RightEvents')
  BY <1>1, <1>2, AppendMessage
<1>5. ASSUME NEW n \in Nat, n <= made PROVE News(events', 0, n)
  <2>1. e.made >= n /\ 0 \in 0..Len(events)
    BY <1>1, <1>2, <1>5 DEF NewsInv, LinkTyped
  <2> QED
    BY <1>1, <1>2, <2>1, AppendMessage
<1>6. UNCHANGED <<snapshots, made, wire>>
  BY DEF linkVars
<1>7. \A i \in DOMAIN snapshots : snapshots[i].n \in Nat /\ snapshots[i].n <= made
  <2>1. \A i \in DOMAIN snapshots : snapshots[i] \in Snapshot /\ snapshots[i].n <= made
    BY DEF NewsInv, LinkTyped
  <2> QED
    BY <2>1 DEF Snapshot
<1>8. \A i \in DOMAIN wire : wire[i].kind = "snapshot" => wire[i].n \in Nat /\ wire[i].n <= made
  BY TellingEvents DEF NewsInv, LinkTyped, Snapshot
<1>9. LastNewsIsRight' /\ FlagIsRightOrNewsComes'
  BY <1>3, <1>4 DEF LastNewsIsRight, FlagIsRightOrNewsComes
<1>10. SnapshotsAreRightOrNewsComes'
  BY <1>5, <1>6, <1>7, <1>8 DEF SnapshotsAreRightOrNewsComes
<1> QED
  BY <1>9, <1>10 DEF NewsInv

\* A game that starts is not halted.
LEMMA StartedKeepsNews ==
  ASSUME NewsInv, Mirrored, NEW s \in Sessions, SessionStarted(s)
  PROVE  NewsInv'
<1> DEFINE e == [kind |-> "debug_session_started", session |-> s, made |-> made]
<1>1. /\ Emit("debug_session_started", s) /\ "debug_session_started" \in Kinds
      /\ debugged' = debugged \cup {s} /\ UNCHANGED linkVars /\ UNCHANGED installed
      /\ sessions' = [sessions EXCEPT ![s] = [active |-> TRUE, breaked |-> FALSE]]
      /\ ~sessions[s].active
  BY DEF SessionStarted, Kinds
<1>2. IsFiniteSet(debugged')
  BY <1>1, FS_AddElement DEF NewsInv, LinkTyped
<1>3. \A t \in Sessions : sessions'[t].breaked = sessions[t].breaked
  BY <1>1 DEF Mirrored
<1>4. \A t \in Sessions : sessions'[t].active => t \in debugged'
  BY <1>1 DEF Mirrored, NewsInv, LinkTyped
<1>5. LinkTyped' /\ StaleLink'
  BY <1>1, <1>2, <1>4, SignalLink
<1>6. Cardinality(debugged') <= 1 => Cardinality(debugged) <= 1
  <2>1. Cardinality(debugged) <= Cardinality(debugged')
    BY <1>1, <1>2, FS_Subset
  <2>2. Cardinality(debugged) \in Nat /\ Cardinality(debugged') \in Nat
    BY <1>2, FS_CardinalityType DEF NewsInv, LinkTyped
  <2> QED
    BY <2>1, <2>2
<1>7. \A flag : Agrees(flag) => Agrees(flag)'
  BY <1>3, <1>6 DEF Agrees, AnyBreaked
<1>8. RightEvents \subseteq RightEvents'
  BY <1>7 DEF RightEvents
<1>9. e \in SignalEvent /\ ~Telling(e) /\ events' = Append(events, e) /\ events \in Seq(SignalEvent)
  BY <1>1 DEF NewsInv, LinkTyped, SignalEvent, Telling, Emit
<1> HIDE DEF e
<1>10. Tells(events') <=> Tells(events)
  BY <1>9, AppendMessage
<1>11. LastIn(events, RightEvents) => LastIn(events', RightEvents')
  <2>1. LastIn(events, RightEvents) => LastIn(events, RightEvents')
    BY <1>8 DEF LastIn
  <2> QED
    BY <1>9, <2>1, AppendMessage
<1>12. LastIn(wire, RightEvents) => LastIn(wire', RightEvents')
  BY <1>1, <1>8 DEF LastIn, linkVars
<1>13. \A n : News(events, 0, n) => News(events', 0, n)
  BY <1>9, AppendMessage
<1>14. UNCHANGED <<snapshots, made, wire, io, bridgeUp, client, resync, debug, crossed>>
  BY <1>1 DEF linkVars
<1>15. LastNewsIsRight'
  BY <1>1, <1>10, <1>11, <1>12 DEF NewsInv, LastNewsIsRight
<1>16. FlagIsRightOrNewsComes'
  BY <1>1, <1>7, <1>10, <1>14 DEF NewsInv, FlagIsRightOrNewsComes
<1>17. SnapshotsAreRightOrNewsComes'
  BY <1>1, <1>7, <1>13, <1>14 DEF NewsInv, SnapshotsAreRightOrNewsComes
<1> QED
  BY <1>5, <1>15, <1>16, <1>17 DEF NewsInv

\* A session that breaks is named.
LEMMA BreakedKeepsNews ==
  ASSUME NewsInv, Mirrored, NEW s \in Sessions, SessionBreaked(s)
  PROVE  NewsInv'
<1> DEFINE e == [kind |-> "debug_breaked", session |-> s, made |-> made]
<1>1. /\ Emit("debug_breaked", s) /\ "debug_breaked" \in Kinds
      /\ UNCHANGED <<debugged, installed>> /\ UNCHANGED linkVars
      /\ sessions' = [sessions EXCEPT ![s].breaked = TRUE]
      /\ sessions[s].active
  BY DEF SessionBreaked, Kinds
<1>2. sessions'[s].breaked /\ \A t \in Sessions : sessions'[t].active = sessions[t].active
  BY <1>1 DEF Mirrored
<1>3. LinkTyped' /\ StaleLink'
  <2>1. IsFiniteSet(debugged') /\ \A t \in Sessions : sessions'[t].active => t \in debugged'
    BY <1>1, <1>2 DEF NewsInv, LinkTyped
  <2> QED
    BY <1>1, <2>1, SignalLink
<1>4. Telling(e) /\ e \in SignalEvent /\ OnEvent(Cleared, e) = [breaked |-> TRUE, session |-> s]
  BY <1>1 DEF Telling, SignalEvent, NewsInv, LinkTyped, OnEvent
<1>6. e \in RightEvents'
  BY <1>2, <1>4 DEF RightEvents, Agrees
<1> QED
  BY <1>1, <1>3, <1>4, <1>6, TellingSignal

\* With one session debugged none is halted once it runs on or ends.
LEMMA ClearedIsRight ==
  ASSUME NewsInv, Mirrored, NEW s \in Sessions, sessions[s].active,
         \A t \in Sessions : sessions'[t].breaked => sessions[t].breaked /\ t # s,
         UNCHANGED debugged
  PROVE  \A e \in SignalEvent : OnEvent(Cleared, e) = Cleared => e \in RightEvents'
<1>1. ~(Cardinality(debugged) <= 1 /\ AnyBreaked(sessions'))
  <2> SUFFICES ASSUME Cardinality(debugged) <= 1, NEW t \in Sessions, sessions'[t].breaked PROVE FALSE
    BY DEF AnyBreaked
  <2>1. t \in debugged /\ s \in debugged /\ t # s
    BY DEF Mirrored, NewsInv, LinkTyped
  <2> QED
    BY <2>1, OnlySession DEF NewsInv
<1>2. ~Cleared.breaked
  BY DEF Cleared
<1> QED
  BY <1>1, <1>2 DEF RightEvents, Agrees

\* A session that continues leaves none halted, if it is the only one.
LEMMA ContinuedKeepsNews ==
  ASSUME NewsInv, Mirrored, NEW s \in Sessions, SessionContinued(s)
  PROVE  NewsInv'
<1> DEFINE e == [kind |-> "debug_continued", session |-> s, made |-> made]
<1>1. /\ Emit("debug_continued", s) /\ "debug_continued" \in Kinds
      /\ UNCHANGED <<debugged, installed>> /\ UNCHANGED linkVars
      /\ sessions' = [sessions EXCEPT ![s].breaked = FALSE]
      /\ sessions[s].breaked
  BY DEF SessionContinued, Kinds
<1>2. /\ sessions[s].active
      /\ \A t \in Sessions : sessions'[t].breaked => sessions[t].breaked /\ t # s
      /\ \A t \in Sessions : sessions'[t].active = sessions[t].active
  BY <1>1 DEF Mirrored
<1>3. LinkTyped' /\ StaleLink'
  <2>1. IsFiniteSet(debugged') /\ \A t \in Sessions : sessions'[t].active => t \in debugged'
    BY <1>1, <1>2 DEF NewsInv, LinkTyped
  <2> QED
    BY <1>1, <2>1, SignalLink
<1>4. Telling(e) /\ e \in SignalEvent /\ OnEvent(Cleared, e) = Cleared
  BY <1>1 DEF Telling, SignalEvent, NewsInv, LinkTyped, OnEvent
<1>5. e \in RightEvents'
  BY <1>1, <1>2, <1>4, ClearedIsRight
<1> QED
  BY <1>1, <1>3, <1>4, <1>5, TellingSignal

\* A session that stops leaves none halted, if it is the only one.
LEMMA StoppedKeepsNews ==
  ASSUME NewsInv, Mirrored, NEW s \in Sessions, SessionStopped(s)
  PROVE  NewsInv'
<1> DEFINE e == [kind |-> "debug_session_stopped", session |-> s, made |-> made]
<1>1. /\ Emit("debug_session_stopped", s) /\ "debug_session_stopped" \in Kinds
      /\ UNCHANGED <<debugged, installed>> /\ UNCHANGED linkVars
      /\ sessions' = [sessions EXCEPT ![s] = [active |-> FALSE, breaked |-> FALSE]]
      /\ sessions[s].active
  BY DEF SessionStopped, Kinds, Ended
<1>2. /\ \A t \in Sessions : sessions'[t].breaked => sessions[t].breaked /\ t # s
      /\ \A t \in Sessions : sessions'[t].active => sessions[t].active
  BY <1>1 DEF Mirrored
<1>3. LinkTyped' /\ StaleLink'
  <2>1. IsFiniteSet(debugged') /\ \A t \in Sessions : sessions'[t].active => t \in debugged'
    BY <1>1, <1>2 DEF NewsInv, LinkTyped
  <2> QED
    BY <1>1, <2>1, SignalLink
<1>4. Telling(e) /\ e \in SignalEvent /\ OnEvent(Cleared, e) = Cleared
  BY <1>1 DEF Telling, SignalEvent, NewsInv, LinkTyped, OnEvent
<1>5. e \in RightEvents'
  BY <1>1, <1>2, <1>4, ClearedIsRight
<1> QED
  BY <1>1, <1>3, <1>4, <1>5, TellingSignal

\* Without the plugin nothing is claimed of the flag.
LEMMA UninstallKeepsNews ==
  ASSUME NewsInv, Uninstall
  PROVE  NewsInv'
<1>1. /\ ~installed' /\ UNCHANGED <<events, debugged>> /\ UNCHANGED linkVars
      /\ \A s \in Sessions : ~sessions'[s].active
  BY DEF Uninstall
<1>2. LinkTyped' /\ StaleLink'
  BY <1>1 DEF NewsInv, LinkTyped, StaleLink, linkVars
<1> QED
  BY <1>1, <1>2 DEF NewsInv, LastNewsIsRight, FlagIsRightOrNewsComes, SnapshotsAreRightOrNewsComes

\* The link moves with the sessions as they are.
LEMMA ConnectKeepsNews ==
  ASSUME NewsInv, Connect
  PROVE  NewsInv'
<1>1. /\ io' = "stale responses" /\ wire' = <<Hello>> /\ client' = "connecting" /\ resync' = "none"
      /\ UNCHANGED <<sessions, debugged, installed, events, snapshots, made>>
  BY DEF Connect, engineVars, stateVars
<1>2. RightEvents' = RightEvents
  BY <1>1, SameAgreement
<1>3. wire' \in Seq(Message) /\ \A i \in DOMAIN wire' : wire'[i] = Hello
  <2>1. Hello \in Message
    BY TellingEvents
  <2> QED
    <3>1. DOMAIN <<Hello>> = {1} /\ <<Hello>>[1] = Hello
      OBVIOUS
    <3>2. <<Hello>> \in Seq(Message)
      BY <2>1
    <3> QED
      BY <1>1, <3>1, <3>2
<1>4. Hello.kind = "hello"
  BY DEF Hello
<1>5. LinkTyped' /\ StaleLink'
  BY <1>1, <1>3, <1>4 DEF NewsInv, LinkTyped, StaleLink
<1>6. LastIn(wire', RightEvents')
  BY <1>3, TellingEvents DEF LastIn
<1>7. LastNewsIsRight'
  BY <1>1, <1>2, <1>6 DEF NewsInv, LastNewsIsRight
<1> QED
  BY <1>1, <1>5, <1>7 DEF NewsInv, FlagIsRightOrNewsComes, SnapshotsAreRightOrNewsComes

\* The first drain: nothing but the hello has been written, and no snapshot is left.
LEMMA DropSnapshotsKeepsNews ==
  ASSUME NewsInv, DropStaleSnapshots
  PROVE  NewsInv'
<1>1. /\ io = "stale responses" /\ io' = "stale events" /\ snapshots' = <<>>
      /\ UNCHANGED <<sessions, debugged, installed, events, made, bridgeUp, client, wire, resync, debug, crossed>>
  BY DEF DropStaleSnapshots, engineVars, stateVars
<1>2. RightEvents' = RightEvents
  BY <1>1, SameAgreement
<1>3. LinkTyped' /\ StaleLink'
  BY <1>1, NoMessages DEF NewsInv, LinkTyped, StaleLink
<1>4. LastNewsIsRight'
  BY <1>1, <1>2 DEF NewsInv, LastNewsIsRight
<1>5. \A i \in DOMAIN wire : wire[i].kind # "snapshot"
  BY <1>1 DEF NewsInv, StaleLink
<1>6. FlagIsRightOrNewsComes'
  BY <1>1 DEF NewsInv, StaleLink, FlagIsRightOrNewsComes
<1>7. SnapshotsAreRightOrNewsComes'
  BY <1>1, <1>5, NoMessages DEF SnapshotsAreRightOrNewsComes
<1> QED
  BY <1>3, <1>4, <1>6, <1>7 DEF NewsInv

\* An event older than no snapshot still queued goes with the drain.
LEMMA DropEventsKeepsNews ==
  ASSUME NewsInv, DropStaleEvents
  PROVE  NewsInv'
<1>1. /\ bridgeUp /\ io = "stale events" /\ io' = "responses" /\ events' = <<>>
      /\ crossed' = (crossed \/ \E i \in DOMAIN events : Overtakes(events[i]))
      /\ UNCHANGED <<sessions, debugged, installed, snapshots, made, bridgeUp, client, wire, resync, debug>>
  BY DEF DropStaleEvents, engineVars, stateVars
<1>2. (\A flag : Agrees(flag)' <=> Agrees(flag)) /\ RightEvents' = RightEvents
  BY <1>1, SameAgreement
<1>3. resync # "done" /\ \A i \in DOMAIN wire : wire[i].kind = "hello"
  BY <1>1 DEF NewsInv, StaleLink
<1>4. LinkTyped' /\ StaleLink'
  BY <1>1, NoMessages DEF NewsInv, LinkTyped, StaleLink
<1>5. LastNewsIsRight'
  <2>1. LastIn(events', RightEvents')
    BY <1>1, NoMessages
  <2>2. LastIn(wire', RightEvents')
    BY <1>1, <1>3 DEF LastIn, Telling
  <2> QED
    BY <2>1, <2>2 DEF LastNewsIsRight
<1>6. FlagIsRightOrNewsComes'
  BY <1>1, <1>3 DEF FlagIsRightOrNewsComes
<1>7. ASSUME installed, client # "none", ~crossed', NEW i \in DOMAIN snapshots, NEW flag \in OnSnapshot(snapshots[i])
      PROVE  Agrees(flag)
  <2>1. Agrees(flag) \/ News(events, 0, snapshots[i].n)
    BY <1>1, <1>7 DEF NewsInv, SnapshotsAreRightOrNewsComes
  <2>2. ASSUME NEW j \in DOMAIN events, events[j].made >= snapshots[i].n PROVE FALSE
    <3>1. events[j].made \in Nat /\ snapshots[i].n \in Nat
      <4>1. events[j] \in SignalEvent /\ snapshots[i] \in Snapshot
        BY DEF NewsInv, LinkTyped
      <4> QED
        BY <4>1 DEF SignalEvent, Snapshot
    <3>2. Overtakes(events[j])
      BY <2>2, <3>1 DEF Overtakes
    <3> QED
      BY <1>1, <1>7, <3>2
  <2> QED
    BY <2>1, <2>2 DEF News
<1>8. SnapshotsAreRightOrNewsComes'
  <2>1. \A i \in DOMAIN wire : wire[i].kind # "snapshot"
    BY <1>3
  <2>2. UNCHANGED <<snapshots, wire, installed, client>> /\ (~crossed' => ~crossed)
    BY <1>1
  <2> QED
    BY <1>2, <1>7, <2>1, <2>2 DEF SnapshotsAreRightOrNewsComes
<1> QED
  BY <1>4, <1>5, <1>6, <1>8 DEF NewsInv

\* The first n frames leave the wire, and nothing else moves.
Front(n) ==
  /\ n \in 1..Len(wire) /\ wire' = SubSeq(wire, n + 1, Len(wire))
  /\ UNCHANGED <<sessions, debugged, installed, events, snapshots, made, io, bridgeUp>>
  /\ client # "none"
  /\ crossed => crossed'
  /\ io \in {"stale responses", "stale events"} => resync' # "done"

\* What is read from the front of the wire leaves the rest as it was.
LEMMA ReadFront ==
  ASSUME NewsInv, NEW n, Front(n)
  PROVE  LinkTyped' /\ StaleLink' /\ LastNewsIsRight' /\ SnapshotsAreRightOrNewsComes'
<1>1. n \in 0..Len(wire) /\ wire \in Seq(Message) /\ n \in Nat
  <2>1. wire \in Seq(Message)
    BY DEF NewsInv, LinkTyped
  <2>2. Len(wire) \in Nat
    BY <2>1, Positions
  <2>3. n \in 1..Len(wire)
    BY DEF Front
  <2> QED
    BY <2>1, <2>2, <2>3
<1>0. /\ wire' = SubSeq(wire, n + 1, Len(wire))
      /\ UNCHANGED <<sessions, debugged, installed, events, snapshots, made, io, bridgeUp>>
  BY DEF Front
<1>2. /\ wire' \in Seq(Message)
      /\ DOMAIN wire' = 1..(Len(wire) - n) /\ DOMAIN wire = 1..Len(wire) /\ Len(wire) \in Nat
      /\ \A i \in DOMAIN wire' : wire'[i] = wire[n + i]
      /\ \A A : LastIn(wire, A) => LastIn(wire', A)
      /\ \A i \in DOMAIN wire' : \A k : News(wire, n + i, k) => News(wire', i, k)
  BY <1>0, <1>1, DropMessages, Zenon
<1>3. \A i \in DOMAIN wire' : n + i \in DOMAIN wire
  BY <1>1, <1>2
<1>4. (\A flag : Agrees(flag)' <=> Agrees(flag)) /\ RightEvents' = RightEvents
  BY <1>0, SameAgreement
<1>5. LinkTyped'
  <2>1. \A i \in DOMAIN wire' : wire'[i].kind = "snapshot" => wire'[i].n <= made'
    BY <1>0, <1>2, <1>3 DEF NewsInv, LinkTyped
  <2> QED
    BY <1>0, <1>2, <2>1 DEF NewsInv, LinkTyped
<1>6. StaleLink'
  BY <1>0, <1>2, <1>3 DEF Front, NewsInv, StaleLink
<1>7. LastNewsIsRight'
  BY <1>0, <1>2, <1>4 DEF NewsInv, LastNewsIsRight
<1>8. SnapshotsAreRightOrNewsComes'
  <2> SUFFICES ASSUME installed', bridgeUp', io' # "stale responses", ~crossed'
               PROVE  /\ \A i \in DOMAIN snapshots' : \A flag \in OnSnapshot(snapshots'[i]) :
                            Agrees(flag)' \/ News(events', 0, snapshots'[i].n)
                      /\ \A i \in DOMAIN wire' : wire'[i].kind = "snapshot" =>
                            \A flag \in OnSnapshot(wire'[i]) :
                              Agrees(flag)' \/ News(events', 0, wire'[i].n) \/ News(wire', i, wire'[i].n)
    BY DEF SnapshotsAreRightOrNewsComes
  <2>0. installed /\ bridgeUp /\ io # "stale responses" /\ ~crossed /\ client # "none"
    BY DEF Front
  <2>1. \A i \in DOMAIN snapshots : \A flag \in OnSnapshot(snapshots[i]) :
          Agrees(flag) \/ News(events, 0, snapshots[i].n)
    BY <2>0 DEF NewsInv, SnapshotsAreRightOrNewsComes
  <2>2. \A i \in DOMAIN wire : wire[i].kind = "snapshot" =>
          \A flag \in OnSnapshot(wire[i]) :
            Agrees(flag) \/ News(events, 0, wire[i].n) \/ News(wire, i, wire[i].n)
    BY <2>0 DEF NewsInv, SnapshotsAreRightOrNewsComes
  <2>3. ASSUME NEW i \in DOMAIN wire', wire'[i].kind = "snapshot", NEW flag \in OnSnapshot(wire'[i])
        PROVE  Agrees(flag) \/ News(events, 0, wire'[i].n) \/ News(wire', i, wire'[i].n)
    <3>1. wire'[i] = wire[n + i] /\ n + i \in DOMAIN wire
      BY <1>2, <1>3
    <3>2. Agrees(flag) \/ News(events, 0, wire[n + i].n) \/ News(wire, n + i, wire[n + i].n)
      BY <2>2, <2>3, <3>1
    <3> QED
      BY <1>2, <3>1, <3>2
  <2>4. \A i \in DOMAIN snapshots' : \A flag \in OnSnapshot(snapshots'[i]) :
          Agrees(flag)' \/ News(events', 0, snapshots'[i].n)
    BY <1>0, <1>4, <2>1
  <2>5. \A i \in DOMAIN wire' : wire'[i].kind = "snapshot" =>
          \A flag \in OnSnapshot(wire'[i]) :
            Agrees(flag)' \/ News(events', 0, wire'[i].n) \/ News(wire', i, wire'[i].n)
    BY <1>0, <1>4, <2>3
  <2> QED
    BY <2>4, <2>5
<1> QED
  BY <1>5, <1>6, <1>7, <1>8

\* The frames that came with the hello are dropped: the resync is still to come.
LEMMA AttachKeepsNews ==
  ASSUME NewsInv, Attach
  PROVE  NewsInv'
<1>1. /\ client = "connecting" /\ resync' = "awaiting"
      /\ UNCHANGED <<sessions, debugged, installed, events, snapshots, made, io, bridgeUp, crossed>>
  BY DEF Attach, engineVars, stateVars
<1>2. PICK n \in 1..Len(wire) : wire' = SubSeq(wire, n + 1, Len(wire))
  BY DEF Attach
<1>3. Front(n)
  BY <1>1, <1>2 DEF Front
<1>4. LinkTyped' /\ StaleLink' /\ LastNewsIsRight' /\ SnapshotsAreRightOrNewsComes'
  BY <1>3, ReadFront
<1> QED
  BY <1>1, <1>4 DEF NewsInv, FlagIsRightOrNewsComes

\* A snapshot says what is so when it is taken.
LEMMA AnswerKeepsNews ==
  ASSUME NewsInv, AnswerState
  PROVE  NewsInv'
<1> DEFINE m == [kind |-> "snapshot", n |-> made + 1, breaked |-> {s \in Sessions : sessions[s].breaked}]
<1>1. /\ snapshots' = Append(snapshots, m) /\ made' = made + 1
      /\ UNCHANGED <<sessions, debugged, installed, events, io, bridgeUp, client, wire, resync, debug, crossed>>
  BY DEF AnswerState, engineVars, stateVars
<1>2. (\A flag : Agrees(flag)' <=> Agrees(flag)) /\ RightEvents' = RightEvents
  BY <1>1, SameAgreement
<1>3. m \in Snapshot /\ snapshots \in Seq(Snapshot) /\ made \in Nat
  BY DEF NewsInv, LinkTyped, Snapshot
<1>4. \A flag \in OnSnapshot(m) : Agrees(flag)
  BY DEF OnSnapshot, Agrees, AnyBreaked, Cleared
<1>5. m.n = made + 1
  OBVIOUS
<1> HIDE DEF m
<1>6. /\ snapshots' \in Seq(Snapshot)
      /\ DOMAIN snapshots' = DOMAIN snapshots \cup {Len(snapshots) + 1} /\ DOMAIN snapshots = 1..Len(snapshots)
      /\ snapshots'[Len(snapshots) + 1] = m /\ \A i \in DOMAIN snapshots : snapshots'[i] = snapshots[i]
  BY <1>1, <1>3, AppendMessage
<1>7. LinkTyped'
  <2>1. \A i \in DOMAIN snapshots : snapshots[i].n \in Nat /\ snapshots[i].n <= made
    <3>1. \A i \in DOMAIN snapshots : snapshots[i] \in Snapshot /\ snapshots[i].n <= made
      BY DEF NewsInv, LinkTyped
    <3> QED
      BY <3>1 DEF Snapshot
  <2>2. \A i \in DOMAIN wire : wire[i].kind = "snapshot" => wire[i].n \in Nat /\ wire[i].n <= made
    <3>1. \A i \in DOMAIN wire : wire[i] \in Message /\ (wire[i].kind = "snapshot" => wire[i].n <= made)
      BY DEF NewsInv, LinkTyped
    <3> QED
      BY <3>1, TellingEvents DEF Snapshot
  <2>3. \A i \in DOMAIN snapshots' : snapshots'[i].n <= made'
    BY <1>1, <1>3, <1>5, <1>6, <2>1
  <2>4. \A i \in DOMAIN wire' : wire'[i].kind = "snapshot" => wire'[i].n <= made'
    BY <1>1, <1>3, <2>2
  <2> QED
    BY <1>1, <1>3, <1>6, <2>3, <2>4 DEF NewsInv, LinkTyped
<1>8. StaleLink' /\ LastNewsIsRight' /\ FlagIsRightOrNewsComes'
  BY <1>1, <1>2 DEF NewsInv, StaleLink, LastNewsIsRight, FlagIsRightOrNewsComes
<1>9. SnapshotsAreRightOrNewsComes'
  BY <1>1, <1>2, <1>4, <1>6 DEF NewsInv, SnapshotsAreRightOrNewsComes
<1> QED
  BY <1>7, <1>8, <1>9 DEF NewsInv

\* A snapshot goes from the queue to the end of the wire.
LEMMA WriteSnapshotKeepsNews ==
  ASSUME NewsInv, WriteSnapshot
  PROVE  NewsInv'
<1> DEFINE m == Head(snapshots)
<1>1. /\ client # "none" /\ io = "responses" /\ snapshots # <<>>
      /\ wire' = Append(wire, m) /\ snapshots' = Tail(snapshots)
      /\ UNCHANGED <<sessions, debugged, installed, events, made, io, bridgeUp, client, resync, debug, crossed>>
  BY DEF WriteSnapshot, engineVars, stateVars
<1>2. (\A flag : Agrees(flag)' <=> Agrees(flag)) /\ RightEvents' = RightEvents
  BY <1>1, SameAgreement
<1>3. snapshots \in Seq(Snapshot) /\ wire \in Seq(Message)
  BY DEF NewsInv, LinkTyped
<1>4. /\ m \in Snapshot /\ snapshots' \in Seq(Snapshot) /\ 1 \in DOMAIN snapshots /\ m = snapshots[1]
      /\ \A i \in DOMAIN snapshots' : i + 1 \in DOMAIN snapshots /\ snapshots'[i] = snapshots[i + 1]
  BY <1>1, <1>3, TakeMessage
<1>5. m \in Message /\ ~Telling(m)
  BY <1>4, TellingEvents
<1> HIDE DEF m
<1>6. /\ wire' \in Seq(Message)
      /\ Tells(wire') <=> Tells(wire)
      /\ \A A : LastIn(wire, A) => LastIn(wire', A)
      /\ \A from, n : News(wire, from, n) => News(wire', from, n)
      /\ DOMAIN wire' = DOMAIN wire \cup {Len(wire) + 1}
      /\ wire'[Len(wire) + 1] = m /\ \A i \in DOMAIN wire : wire'[i] = wire[i]
  BY <1>1, <1>3, <1>5, AppendMessage
<1>7. LinkTyped' /\ StaleLink'
  <2>1. \A i \in DOMAIN snapshots' : snapshots'[i].n <= made'
    BY <1>1, <1>4 DEF NewsInv, LinkTyped
  <2>2. m.n <= made'
    BY <1>1, <1>4 DEF NewsInv, LinkTyped
  <2>3. \A i \in DOMAIN wire : wire[i].kind = "snapshot" => wire[i].n <= made'
    BY <1>1 DEF NewsInv, LinkTyped
  <2>4. \A i \in DOMAIN wire' : wire'[i].kind = "snapshot" => wire'[i].n <= made'
    BY <1>6, <2>2, <2>3
  <2> QED
    BY <1>1, <1>4, <1>6, <2>1, <2>4 DEF NewsInv, LinkTyped, StaleLink
<1>8. LastNewsIsRight'
  BY <1>1, <1>2, <1>6 DEF NewsInv, LastNewsIsRight
<1>9. FlagIsRightOrNewsComes'
  BY <1>1, <1>2, <1>6 DEF NewsInv, FlagIsRightOrNewsComes
<1>10. SnapshotsAreRightOrNewsComes'
  <2> SUFFICES ASSUME installed, bridgeUp, ~crossed
               PROVE  /\ \A i \in DOMAIN snapshots' : \A flag \in OnSnapshot(snapshots'[i]) :
                            Agrees(flag) \/ News(events, 0, snapshots'[i].n)
                      /\ \A i \in DOMAIN wire' : wire'[i].kind = "snapshot" =>
                            \A flag \in OnSnapshot(wire'[i]) :
                              Agrees(flag) \/ News(events, 0, wire'[i].n) \/ News(wire', i, wire'[i].n)
    BY <1>1, <1>2 DEF SnapshotsAreRightOrNewsComes
  <2>1. /\ \A i \in DOMAIN snapshots : \A flag \in OnSnapshot(snapshots[i]) :
             Agrees(flag) \/ News(events, 0, snapshots[i].n)
        /\ \A i \in DOMAIN wire : wire[i].kind = "snapshot" =>
             \A flag \in OnSnapshot(wire[i]) :
               Agrees(flag) \/ News(events, 0, wire[i].n) \/ News(wire, i, wire[i].n)
    BY <1>1 DEF NewsInv, SnapshotsAreRightOrNewsComes
  <2>2. \A i \in DOMAIN snapshots' : \A flag \in OnSnapshot(snapshots'[i]) :
          Agrees(flag) \/ News(events, 0, snapshots'[i].n)
    BY <1>4, <2>1
  <2>3. \A flag \in OnSnapshot(m) : Agrees(flag) \/ News(events, 0, m.n)
    BY <1>4, <2>1
  <2> QED
    BY <1>6, <2>1, <2>2, <2>3
<1> QED
  BY <1>7, <1>8, <1>9, <1>10 DEF NewsInv

\* An event goes from the queue to the end of the wire, past the older snapshots
\* still queued or behind them on the wire.
LEMMA WriteEventKeepsNews ==
  ASSUME NewsInv, WriteEvent
  PROVE  NewsInv'
<1> DEFINE e == Head(events)
<1>1. /\ client # "none" /\ io = "events" /\ events # <<>>
      /\ wire' = Append(wire, e) /\ events' = Tail(events)
      /\ crossed' = (crossed \/ Overtakes(e))
      /\ UNCHANGED <<sessions, debugged, installed, snapshots, made, io, bridgeUp, client, resync, debug>>
  BY DEF WriteEvent, engineVars, stateVars
<1>2. (\A flag : Agrees(flag)' <=> Agrees(flag)) /\ RightEvents' = RightEvents
  BY <1>1, SameAgreement
<1>3. events \in Seq(SignalEvent) /\ wire \in Seq(Message) /\ snapshots \in Seq(Snapshot)
  BY DEF NewsInv, LinkTyped
<1>4. /\ e \in SignalEvent /\ events' \in Seq(SignalEvent)
      /\ Tells(events) <=> Telling(e) \/ Tells(events')
      /\ \A A : LastIn(events, A) => LastIn(events', A)
      /\ \A A : LastIn(events, A) /\ Telling(e) /\ ~Tells(events') => e \in A
      /\ \A k : News(events, 0, k) => News(events', 0, k) \/ (Telling(e) /\ e.made >= k)
  BY <1>1, <1>3, TakeMessage
<1>5. e \in Message /\ e.kind # "snapshot" /\ e.made \in Nat
  BY <1>4, TellingEvents DEF SignalEvent
<1> HIDE DEF e
<1>6. /\ wire' \in Seq(Message)
      /\ Tells(wire') <=> Tells(wire) \/ Telling(e)
      /\ \A A : Telling(e) /\ e \in A => LastIn(wire', A)
      /\ \A A : ~Telling(e) /\ LastIn(wire, A) => LastIn(wire', A)
      /\ \A from, n : News(wire, from, n) => News(wire', from, n)
      /\ \A n : \A from \in 0..Len(wire) : Telling(e) /\ e.made >= n => News(wire', from, n)
      /\ DOMAIN wire' = DOMAIN wire \cup {Len(wire) + 1} /\ DOMAIN wire = 1..Len(wire) /\ Len(wire) \in Nat
      /\ wire'[Len(wire) + 1] = e /\ \A i \in DOMAIN wire : wire'[i] = wire[i]
  BY <1>1, <1>3, <1>5, AppendMessage
<1>7. LinkTyped' /\ StaleLink'
  <2>1. \A i \in DOMAIN wire : wire[i].kind = "snapshot" => wire[i].n <= made
    BY DEF NewsInv, LinkTyped
  <2>2. \A i \in DOMAIN wire' : wire'[i].kind = "snapshot" => wire'[i].n <= made'
    BY <1>1, <1>5, <1>6, <2>1
  <2> QED
    BY <1>1, <1>4, <1>6, <2>2 DEF NewsInv, LinkTyped, StaleLink
<1>8. LastNewsIsRight'
  BY <1>1, <1>2, <1>4, <1>6 DEF NewsInv, LastNewsIsRight
<1>9. FlagIsRightOrNewsComes'
  BY <1>1, <1>2, <1>4, <1>6 DEF NewsInv, FlagIsRightOrNewsComes
<1>10. SnapshotsAreRightOrNewsComes'
  <2> SUFFICES ASSUME installed, bridgeUp, ~crossed, ~Overtakes(e)
               PROVE  /\ \A i \in DOMAIN snapshots : \A flag \in OnSnapshot(snapshots[i]) :
                            Agrees(flag) \/ News(events', 0, snapshots[i].n)
                      /\ \A i \in DOMAIN wire' : wire'[i].kind = "snapshot" =>
                            \A flag \in OnSnapshot(wire'[i]) :
                              Agrees(flag) \/ News(events', 0, wire'[i].n) \/ News(wire', i, wire'[i].n)
    BY <1>1, <1>2 DEF SnapshotsAreRightOrNewsComes
  <2>1. /\ \A i \in DOMAIN snapshots : \A flag \in OnSnapshot(snapshots[i]) :
             Agrees(flag) \/ News(events, 0, snapshots[i].n)
        /\ \A i \in DOMAIN wire : wire[i].kind = "snapshot" =>
             \A flag \in OnSnapshot(wire[i]) :
               Agrees(flag) \/ News(events, 0, wire[i].n) \/ News(wire, i, wire[i].n)
    BY <1>1 DEF NewsInv, SnapshotsAreRightOrNewsComes
  <2>2. ASSUME NEW i \in DOMAIN snapshots, e.made >= snapshots[i].n PROVE FALSE
    <3>1. snapshots[i] \in Snapshot
      BY <1>3
    <3>2. snapshots[i].n \in Nat
      BY <3>1 DEF Snapshot
    <3>3. snapshots[i].n <= e.made
      BY <1>5, <2>2, <3>2
    <3> QED
      BY <3>3 DEF Overtakes
  <2>3. \A i \in DOMAIN snapshots : \A flag \in OnSnapshot(snapshots[i]) :
          Agrees(flag) \/ News(events', 0, snapshots[i].n)
    BY <1>4, <2>1, <2>2
  <2>4. ASSUME NEW i \in DOMAIN wire', wire'[i].kind = "snapshot", NEW flag \in OnSnapshot(wire'[i])
        PROVE  Agrees(flag) \/ News(events', 0, wire'[i].n) \/ News(wire', i, wire'[i].n)
    <3>1. i \in DOMAIN wire /\ wire'[i] = wire[i]
      BY <1>5, <1>6, <2>4
    <3>2. Agrees(flag) \/ News(events, 0, wire[i].n) \/ News(wire, i, wire[i].n)
      BY <2>1, <2>4, <3>1
    <3>3. i \in 0..Len(wire)
      BY <1>6, <3>1
    <3> QED
      BY <1>4, <1>6, <3>1, <3>2, <3>3
  <2> QED
    BY <2>3, <2>4
<1> QED
  BY <1>7, <1>8, <1>9, <1>10 DEF NewsInv

\* The IO thread turns to the other queue.
LEMMA TurnKeepsNews ==
  ASSUME NewsInv, TurnIo
  PROVE  NewsInv'
<1>1. /\ io \in {"responses", "events"} /\ io' \in {"responses", "events"}
      /\ UNCHANGED <<sessions, debugged, installed, events, snapshots, made, bridgeUp, client, wire, resync, debug, crossed>>
  BY DEF TurnIo, engineVars, stateVars
<1>2. (\A flag : Agrees(flag)' <=> Agrees(flag)) /\ RightEvents' = RightEvents
  BY <1>1, SameAgreement
<1>3. LinkTyped' /\ StaleLink'
  BY <1>1 DEF NewsInv, LinkTyped, StaleLink
<1>4. LastNewsIsRight' /\ FlagIsRightOrNewsComes'
  BY <1>1, <1>2 DEF NewsInv, LastNewsIsRight, FlagIsRightOrNewsComes
<1>5. SnapshotsAreRightOrNewsComes'
  BY <1>1, <1>2 DEF NewsInv, SnapshotsAreRightOrNewsComes
<1> QED
  BY <1>3, <1>4, <1>5 DEF NewsInv

\* A link that goes takes what is on the wire with it, or leaves it to be lost.
LEMMA LostLinkKeepsNews ==
  ASSUME NewsInv, DropLink \/ LoseLink
  PROVE  NewsInv'
<1>1. UNCHANGED <<sessions, debugged, installed, events, snapshots, made>>
  BY DEF DropLink, LoseLink, engineVars, stateVars
<1>2. RightEvents' = RightEvents
  BY <1>1, SameAgreement
<1>3. CASE DropLink
  <2>1. ~bridgeUp' /\ io' = "responses" /\ UNCHANGED <<wire, client, resync, debug, crossed>>
    BY <1>3 DEF DropLink
  <2>2. LinkTyped' /\ StaleLink' /\ LastNewsIsRight'
    BY <1>1, <1>2, <2>1 DEF NewsInv, LinkTyped, StaleLink, LastNewsIsRight
  <2> QED
    BY <2>1, <2>2 DEF NewsInv, FlagIsRightOrNewsComes, SnapshotsAreRightOrNewsComes
<1>4. CASE LoseLink
  <2>1. client' = "none" /\ wire' = <<>> /\ io' = io /\ (resync' = "done" => resync = "done")
    BY <1>4 DEF LoseLink
  <2>2. LinkTyped' /\ StaleLink'
    BY <1>1, <2>1, NoMessages DEF NewsInv, LinkTyped, StaleLink
  <2>3. LastNewsIsRight'
    BY <1>1, <1>2, <2>1, NoMessages DEF NewsInv, LastNewsIsRight
  <2> QED
    BY <2>1, <2>2, <2>3 DEF NewsInv, FlagIsRightOrNewsComes, SnapshotsAreRightOrNewsComes
<1> QED
  BY <1>3, <1>4

\* A resync that failed claims nothing.
LEMMA TimeoutKeepsNews ==
  ASSUME NewsInv, ResyncTimeout
  PROVE  NewsInv'
<1>1. /\ resync' = "failed"
      /\ UNCHANGED <<sessions, debugged, installed, events, snapshots, made, io, bridgeUp, client, wire, debug, crossed>>
  BY DEF ResyncTimeout, engineVars, stateVars
<1>2. (\A flag : Agrees(flag)' <=> Agrees(flag)) /\ RightEvents' = RightEvents
  BY <1>1, SameAgreement
<1>3. LinkTyped' /\ StaleLink' /\ LastNewsIsRight'
  BY <1>1, <1>2 DEF NewsInv, LinkTyped, StaleLink, LastNewsIsRight
<1>4. SnapshotsAreRightOrNewsComes'
  BY <1>1, <1>2 DEF NewsInv, SnapshotsAreRightOrNewsComes
<1> QED
  BY <1>1, <1>3, <1>4 DEF NewsInv, FlagIsRightOrNewsComes

\* A message of the wire is in the chunk that is read, or in what is left.
LEMMA SplitWire ==
  ASSUME NEW n \in 1..Len(wire), wire \in Seq(Message)
  PROVE  LET chunk == SubSeq(wire, 1, n)
             rest  == SubSeq(wire, n + 1, Len(wire))
         IN  /\ chunk \in Seq(Message) /\ DOMAIN chunk = 1..n /\ n \in Nat /\ DOMAIN wire = 1..Len(wire)
             /\ \A i \in 1..n : i \in DOMAIN wire /\ chunk[i] = wire[i]
             /\ \A i \in DOMAIN wire : i > n => i - n \in DOMAIN rest /\ rest[i - n] = wire[i]
<1> DEFINE chunk == SubSeq(wire, 1, n)
           rest  == SubSeq(wire, n + 1, Len(wire))
<1>1. Len(wire) \in Nat /\ DOMAIN wire = 1..Len(wire)
  BY Positions
<1>2. n \in Nat /\ n <= Len(wire) /\ n \in 0..Len(wire)
  BY <1>1
<1>3. DOMAIN rest = 1..(Len(wire) - n) /\ \A i \in DOMAIN rest : rest[i] = wire[n + i]
  BY <1>2, DropMessages, Zenon
<1>4. chunk \in Seq(Message) /\ DOMAIN chunk = 1..n /\ \A i \in 1..n : chunk[i] = wire[i]
  BY <1>1, <1>2
<1> HIDE DEF chunk, rest
<1>5. \A i \in 1..n : i \in DOMAIN wire
  BY <1>1, <1>2
<1>6. ASSUME NEW i \in DOMAIN wire, i > n PROVE i - n \in DOMAIN rest /\ rest[i - n] = wire[i]
  <2>1. i - n \in DOMAIN rest /\ n + (i - n) = i
    BY <1>1, <1>2, <1>3, <1>6
  <2> QED
    BY <1>3, <2>1
<1> QED
  BY <1>1, <1>2, <1>4, <1>5, <1>6 DEF chunk, rest

\* A chunk without the answer to the resync: its last telling event decides.
LEMMA EventsKeepNews ==
  ASSUME NewsInv, NEW n, Front(n), client = "attached",
         debug' = OnEvents(debug, SubSeq(wire, 1, n)),
         UNCHANGED <<client, resync, crossed>>
  PROVE  NewsInv'
<1> DEFINE chunk == SubSeq(wire, 1, n)
<1>1. LinkTyped' /\ StaleLink' /\ LastNewsIsRight' /\ SnapshotsAreRightOrNewsComes'
  BY ReadFront
<1>2. /\ n \in 1..Len(wire) /\ wire' = SubSeq(wire, n + 1, Len(wire))
      /\ UNCHANGED <<sessions, debugged, installed, events, bridgeUp, client, resync, crossed>>
      /\ debug' = OnEvents(debug, chunk)
  BY DEF Front
<1>3. wire \in Seq(Message)
  BY DEF NewsInv, LinkTyped
<1>4. /\ chunk \in Seq(Message) /\ DOMAIN chunk = 1..n /\ n \in Nat /\ DOMAIN wire = 1..Len(wire)
      /\ \A i \in 1..n : i \in DOMAIN wire /\ chunk[i] = wire[i]
      /\ \A i \in DOMAIN wire : i > n => i - n \in DOMAIN wire' /\ wire'[i - n] = wire[i]
  BY <1>2, <1>3, SplitWire, Zenon
<1> HIDE DEF chunk
<1>5. \A flag : Agrees(flag)' <=> Agrees(flag)
  BY <1>2, SameAgreement
<1>6. ASSUME installed, bridgeUp, resync = "done", ~crossed, ~Tells(events), ~Tells(wire')
      PROVE  Agrees(debug')
  <2>1. \A i \in DOMAIN wire : i > n => ~Telling(wire[i])
    BY <1>4, <1>6 DEF Tells
  <2>2. CASE ~Tells(chunk) /\ OnEvents(debug, chunk) = debug
    <3>1. \A i \in 1..n : ~Telling(wire[i])
      BY <1>4, <2>2 DEF Tells
    <3>2. \A i \in DOMAIN wire : i \in 1..n \/ i > n
      <4>1. Len(wire) \in Nat
        BY <1>3, Positions
      <4> QED
        BY <1>4, <4>1
    <3>3. ~Tells(wire)
      BY <2>1, <3>1, <3>2 DEF Tells
    <3>4. Agrees(debug)
      BY <1>6, <3>3 DEF NewsInv, FlagIsRightOrNewsComes
    <3> QED
      BY <1>2, <2>2, <3>4
  <2>3. ASSUME NEW i \in DOMAIN chunk, Telling(chunk[i]), \A j \in DOMAIN chunk : j > i => ~Telling(chunk[j]),
               OnEvents(debug, chunk) = OnEvent(Cleared, chunk[i])
        PROVE  Agrees(debug')
    <3>1. i \in 1..n /\ i \in DOMAIN wire /\ chunk[i] = wire[i]
      BY <1>4, <2>3
    <3>2. \A j \in DOMAIN wire : j > i => ~Telling(wire[j])
      <4> SUFFICES ASSUME NEW j \in DOMAIN wire, j > i PROVE ~Telling(wire[j])
        OBVIOUS
      <4>1. Len(wire) \in Nat
        BY <1>3, Positions
      <4>2. j \in 1..n \/ j > n
        BY <1>4, <4>1
      <4>3. CASE j \in 1..n
        BY <1>4, <2>3, <4>3
      <4> QED
        BY <2>1, <4>2, <4>3
    <3>3. LastIn(wire, RightEvents)
      BY <1>6 DEF NewsInv, LastNewsIsRight
    <3>4. wire[i] \in RightEvents
      BY <2>3, <3>1, <3>2, <3>3 DEF LastIn
    <3> QED
      BY <1>2, <2>3, <3>1, <3>4 DEF RightEvents
  <2> QED
    BY <1>4, <2>2, <2>3, ChunkTells
<1>7. FlagIsRightOrNewsComes'
  BY <1>2, <1>5, <1>6 DEF FlagIsRightOrNewsComes
<1> QED
  BY <1>1, <1>7 DEF NewsInv

\* A chunk with the answer: the snapshot decides, and an event it overtakes in
\* the chunk is what crossed it.
LEMMA ResyncKeepsNews ==
  ASSUME NewsInv, NEW n, n \in 1..Len(wire), wire' = SubSeq(wire, n + 1, Len(wire)),
         UNCHANGED <<sessions, debugged, installed, events, snapshots, made, io, bridgeUp, client>>,
         client = "attached", resync' = "done",
         NEW first \in 1..n, wire[first].kind = "snapshot",
         debug' \in OnSnapshot(wire[first]),
         crossed' = (crossed \/ \E i \in first..n : wire[i].kind # "snapshot" /\ wire[i].made >= wire[first].n)
  PROVE  NewsInv'
<1>1. wire \in Seq(Message)
  BY DEF NewsInv, LinkTyped
<1>2. /\ n \in Nat /\ DOMAIN wire = 1..Len(wire) /\ first \in DOMAIN wire
      /\ \A i \in DOMAIN wire : i > n => i - n \in DOMAIN wire' /\ wire'[i - n] = wire[i]
  BY <1>1, SplitWire, Zenon
<1>3. io \notin {"stale responses", "stale events"}
  BY <1>2 DEF NewsInv, StaleLink
<1>4. Front(n)
  BY <1>3 DEF Front
<1>5. LinkTyped' /\ StaleLink' /\ LastNewsIsRight' /\ SnapshotsAreRightOrNewsComes'
  BY <1>4, ReadFront
<1>6. \A flag : Agrees(flag)' <=> Agrees(flag)
  BY SameAgreement
<1>7. ASSUME installed, bridgeUp, ~crossed', ~Tells(events), ~Tells(wire')
      PROVE  Agrees(debug')
  <2>1. ~crossed /\ ~\E i \in first..n : wire[i].kind # "snapshot" /\ wire[i].made >= wire[first].n
    BY <1>7
  <2>2. Agrees(debug') \/ News(events, 0, wire[first].n) \/ News(wire, first, wire[first].n)
    BY <1>2, <1>3, <1>7, <2>1 DEF NewsInv, SnapshotsAreRightOrNewsComes
  <2>3. ~News(events, 0, wire[first].n)
    BY <1>7 DEF News, Tells
  <2>4. ASSUME NEW j \in DOMAIN wire, j > first, Telling(wire[j]), wire[j].made >= wire[first].n
        PROVE  FALSE
    <3>1. wire[j] \in Message
      BY <1>1, Positions
    <3>2. wire[j].kind # "snapshot"
      BY <2>4, <3>1, TellingEvents
    <3>3. Len(wire) \in Nat
      BY <1>1, Positions
    <3>4. CASE j > n
      BY <1>2, <1>7, <2>4, <3>4 DEF Tells
    <3>5. CASE ~(j > n)
      <4>1. j \in first..n
        BY <1>2, <2>4, <3>3, <3>5
      <4> QED
        BY <2>1, <2>4, <3>2, <4>1
    <3> QED
      BY <3>4, <3>5
  <2> QED
    BY <2>2, <2>3, <2>4 DEF News
<1>8. FlagIsRightOrNewsComes'
  BY <1>6, <1>7 DEF FlagIsRightOrNewsComes
<1> QED
  BY <1>5, <1>8 DEF NewsInv

\* A chunk with the answer to the resync, or without it.
LEMMA ReadChunkKeepsNews ==
  ASSUME NewsInv, ReadChunk
  PROVE  NewsInv'
<1>1. /\ client = "attached"
      /\ UNCHANGED <<sessions, debugged, installed, events, snapshots, made, io, bridgeUp, client>>
  BY DEF ReadChunk, engineVars, stateVars
<1>2. PICK n \in 1..Len(wire) :
       LET chunk     == SubSeq(wire, 1, n)
           snapshotAt == {i \in 1..n : chunk[i].kind = "snapshot"}
           answered  == resync = "awaiting" /\ snapshotAt # {}
           first     == CHOOSE i \in snapshotAt : \A j \in snapshotAt : i <= j
       IN /\ wire' = SubSeq(wire, n + 1, Len(wire))
          /\ \/ /\ ~answered
                /\ debug' = OnEvents(debug, chunk)
                /\ UNCHANGED <<resync, crossed>>
             \/ /\ answered
                /\ debug' \in OnSnapshot(chunk[first])
                /\ resync' = "done"
                /\ crossed' = (crossed \/ \E i \in first..n : /\ chunk[i].kind # "snapshot"
                                                              /\ chunk[i].made >= chunk[first].n)
  BY DEF ReadChunk
<1> DEFINE chunk     == SubSeq(wire, 1, n)
           snapshotAt == {i \in 1..n : chunk[i].kind = "snapshot"}
           answered  == resync = "awaiting" /\ snapshotAt # {}
           first     == CHOOSE i \in snapshotAt : \A j \in snapshotAt : i <= j
<1>3. wire \in Seq(Message)
  BY DEF NewsInv, LinkTyped
<1>4. n \in Nat /\ \A i \in 1..n : chunk[i] = wire[i]
  BY <1>2, <1>3, SplitWire, Zenon
<1>5. wire' = SubSeq(wire, n + 1, Len(wire)) /\ n \in 1..Len(wire)
  BY <1>2
<1>6. CASE debug' = OnEvents(debug, chunk) /\ UNCHANGED <<resync, crossed>>
  <2>1. Front(n)
    BY <1>1, <1>5, <1>6 DEF Front, NewsInv, StaleLink
  <2> QED
    BY <1>1, <1>6, <2>1, EventsKeepNews
<1>7. CASE /\ answered
           /\ debug' \in OnSnapshot(chunk[first])
           /\ resync' = "done"
           /\ crossed' = (crossed \/ \E i \in first..n : /\ chunk[i].kind # "snapshot"
                                                         /\ chunk[i].made >= chunk[first].n)
  <2>1. snapshotAt \in SUBSET (1..n) /\ snapshotAt # {}
    BY <1>7
  <2>2. \E i \in snapshotAt : \A j \in snapshotAt : i <= j
    BY <1>4, <2>1, Extremes
  <2>3. first \in snapshotAt
    BY <2>2
  <2>4. first \in 1..n /\ chunk[first].kind = "snapshot"
    BY <2>3
  <2>5. debug' \in OnSnapshot(chunk[first]) /\ resync' = "done"
        /\ crossed' = (crossed \/ \E i \in first..n : /\ chunk[i].kind # "snapshot"
                                                      /\ chunk[i].made >= chunk[first].n)
    BY <1>7
  <2> HIDE DEF chunk, first
  <2>6. \A i \in first..n : i \in 1..n
    BY <1>4, <2>4
  <2>7. wire[first] = chunk[first] /\ \A i \in first..n : wire[i] = chunk[i]
    BY <1>4, <2>4, <2>6
  <2>8. /\ wire[first].kind = "snapshot" /\ debug' \in OnSnapshot(wire[first])
        /\ crossed' = (crossed \/ \E i \in first..n : wire[i].kind # "snapshot" /\ wire[i].made >= wire[first].n)
    BY <2>4, <2>5, <2>7
  <2> QED
    BY <1>1, <1>5, <2>4, <2>5, <2>8, ResyncKeepsNews
<1> QED
  BY <1>2, <1>6, <1>7

\* At the start nothing is under way and no session is known.
LEMMA InitNews == Init => NewsInv
<1> SUFFICES ASSUME Init PROVE NewsInv
  OBVIOUS
<1>1. /\ \A s \in Sessions : ~sessions[s].active
      /\ debugged = {} /\ made = 0 /\ events = <<>> /\ snapshots = <<>> /\ wire = <<>>
      /\ io = "responses" /\ ~bridgeUp
  BY DEF Init
<1>2. IsFiniteSet(debugged)
  BY <1>1, FS_EmptySet
<1>3. LinkTyped /\ StaleLink
  BY <1>1, <1>2, NoMessages DEF LinkTyped, StaleLink
<1>4. LastNewsIsRight
  BY <1>1, NoMessages DEF LastNewsIsRight
<1> QED
  BY <1>1, <1>3, <1>4 DEF NewsInv, FlagIsRightOrNewsComes, SnapshotsAreRightOrNewsComes

\* Every step keeps the news right: one lemma per action.
LEMMA NextKeepsNews == MirrorInv /\ NewsInv /\ [Next]_vars => NewsInv'
<1> SUFFICES ASSUME MirrorInv, NewsInv, [Next]_vars
             PROVE  NewsInv'
  OBVIOUS
<1>0. Mirrored
  BY DEF MirrorInv
<1>1. ASSUME NEW s \in Sessions, SessionStarted(s) \/ SessionStopped(s) \/ SessionBreaked(s) \/ SessionContinued(s)
      PROVE  NewsInv'
  BY <1>0, <1>1, StartedKeepsNews, StoppedKeepsNews, BreakedKeepsNews, ContinuedKeepsNews
<1>2. ASSUME NEW s \in Sessions, BreakOp(s) \/ ContinueOp(s) \/ StepOp(s)
      PROVE  NewsInv'
  <2>1. UNCHANGED newsVars
    BY <1>2 DEF BreakOp, ContinueOp, StepOp, Suspend, newsVars, stateVars, linkVars
  <2> QED BY <2>1, SameNews
<1>3. ASSUME NEW b \in Breakpoints, SetBreakpoint(b) \/ ClearBreakpoints({b})
      PROVE  NewsInv'
  <2>1. UNCHANGED newsVars
    BY <1>3 DEF SetBreakpoint, ClearBreakpoints, newsVars, linkVars
  <2> QED BY <2>1, SameNews
<1>4. ASSUME NEW B \in Files \cup {Breakpoints}, ClearBreakpoints(B)
      PROVE  NewsInv'
  <2>1. UNCHANGED newsVars
    BY <1>4 DEF ClearBreakpoints, newsVars, linkVars
  <2> QED BY <2>1, SameNews
<1>5. CASE Uninstall
  BY <1>5, UninstallKeepsNews
<1>6. CASE PollTransition
  <2>1. UNCHANGED newsVars
    BY <1>6 DEF PollTransition, newsVars, stateVars, linkVars
  <2> QED BY <2>1, SameNews
<1>7. CASE Connect \/ DropStaleSnapshots \/ DropStaleEvents \/ Attach \/ AnswerState
  BY <1>7, ConnectKeepsNews, DropSnapshotsKeepsNews, DropEventsKeepsNews, AttachKeepsNews, AnswerKeepsNews
<1>8. CASE ReadRequest
  <2>1. UNCHANGED newsVars
    BY <1>8 DEF ReadRequest, newsVars, engineVars, stateVars
  <2> QED BY <2>1, SameNews
<1>9. CASE WriteSnapshot \/ WriteEvent \/ TurnIo \/ DropLink \/ LoseLink
  BY <1>9, WriteSnapshotKeepsNews, WriteEventKeepsNews, TurnKeepsNews, LostLinkKeepsNews
<1>10. CASE ReadChunk \/ ResyncTimeout
  BY <1>10, ReadChunkKeepsNews, TimeoutKeepsNews
<1>11. CASE UNCHANGED vars
  <2>1. UNCHANGED newsVars
    BY <1>11 DEF vars, newsVars, engineVars, stateVars, linkVars
  <2> QED BY <2>1, SameNews
<1> QED BY <1>1, <1>2, <1>3, <1>4, <1>5, <1>6, <1>7, <1>8, <1>9, <1>10, <1>11 DEF Next

\* When everything has been read, the broker's flag is not up over games that all
\* run and, while a single session was ever debugged, not down over one that is
\* halted.  Two things are excepted.  Once a snapshot was applied after a newer
\* event, which overtook it or came in the same read (bridge-manager.ts:386), the
\* flag of that connection may be wrong; DebugResync.cfg shows it.  And with
\* several sessions the flag may be down while one is halted
\* (handleEditorEvent, resyncDebugState).
THEOREM FlagIsRight == Spec => []MirrorIsRight
<1>1. NewsInv => MirrorIsRight
  <2> SUFFICES ASSUME NewsInv, Quiet, ~crossed
               PROVE  /\ debug.breaked => sessions[debug.session].breaked
                      /\ Cardinality(debugged) <= 1 /\ AnyBreaked(sessions) => debug.breaked
    BY DEF MirrorIsRight, MirrorIsTruthful, MirrorIsComplete
  <2>1. ~Tells(events) /\ ~Tells(wire)
    BY NoMessages DEF Quiet, Tells
  <2>2. Agrees(debug)
    BY <2>1 DEF NewsInv, FlagIsRightOrNewsComes, Quiet
  <2> QED
    BY <2>2 DEF Agrees
<1> QED BY <1>1, InitMirror, NextKeepsMirror, InitNews, NextKeepsNews, PTL DEF Spec

----------------------------------------------------------------------------
(* A step. *)

\* The operation under way is of a session that was debugged, and a step of the only
\* one has seen every break since it was sent.
StepInv ==
  /\ sessions \in [Sessions -> [active : BOOLEAN, breaked : BOOLEAN]]
  /\ debugged \subseteq Sessions /\ IsFiniteSet(debugged)
  /\ \A s \in Sessions : sessions[s].active \/ sessions[s].breaked => s \in debugged
  /\ generation \in Nat
  /\ op = NoOp \/ /\ op \in [kind : {"break", "continue", "step"}, session : Sessions, start : Nat, fresh : BOOLEAN]
                  /\ op.session \in debugged
  /\ op.kind = "step" /\ generation > op.start /\ Cardinality(debugged) <= 1 => op.fresh

LEMMA StepStarts == Init => StepInv
  BY FS_EmptySet DEF Init, StepInv, NoOp

LEMMA OnlyOne ==
  ASSUME NEW S, IsFiniteSet(S), Cardinality(S) <= 1, NEW x \in S, NEW y \in S
  PROVE  x = y
<1>1. Cardinality(S) \in Nat /\ Cardinality(S) # 0
  BY FS_CardinalityType, FS_EmptySet
<1>2. Cardinality(S) = 1
  BY <1>1
<1>3. PICK z : S = {z}
  BY <1>2, FS_Singleton
<1> QED BY <1>3

LEMMA MoreDebugged ==
  ASSUME NEW S, IsFiniteSet(S), NEW s
  PROVE  IsFiniteSet(S \cup {s}) /\ (Cardinality(S \cup {s}) <= 1 => Cardinality(S) <= 1)
<1>1. Cardinality(S) \in Nat
  BY FS_CardinalityType
<1>2. /\ IsFiniteSet(S \cup {s})
      /\ Cardinality(S \cup {s}) = IF s \in S THEN Cardinality(S) ELSE Cardinality(S) + 1
  BY FS_AddElement
<1> QED BY <1>1, <1>2

LEMMA StepSignals ==
  ASSUME StepInv, NEW s \in Sessions, SessionStarted(s) \/ SessionStopped(s) \/ SessionBreaked(s) \/ SessionContinued(s)
  PROVE  StepInv'
<1>1. CASE SessionStarted(s)
  <2>1. /\ debugged' = debugged \cup {s} /\ UNCHANGED <<op, generation>>
        /\ sessions' = [sessions EXCEPT ![s] = [active |-> TRUE, breaked |-> FALSE]]
    BY <1>1 DEF SessionStarted, opVars
  <2>2. IsFiniteSet(debugged') /\ (Cardinality(debugged') <= 1 => Cardinality(debugged) <= 1)
    BY <2>1, MoreDebugged DEF StepInv
  <2> QED BY <2>1, <2>2 DEF StepInv
<1>2. CASE SessionStopped(s) \/ SessionContinued(s)
  <2>1. UNCHANGED <<op, generation, debugged>>
    BY <1>2 DEF SessionStopped, SessionContinued, opVars
  <2>2. /\ sessions' \in [Sessions -> [active : BOOLEAN, breaked : BOOLEAN]]
        /\ \A x \in Sessions : sessions'[x].active \/ sessions'[x].breaked => sessions[x].active \/ sessions[x].breaked
    <3>1. PICK state \in [active : BOOLEAN, breaked : BOOLEAN] :
            /\ sessions' = [sessions EXCEPT ![s] = state]
            /\ ~state.breaked /\ (state.active => sessions[s].active)
      <4>1. sessions[s] \in [active : BOOLEAN, breaked : BOOLEAN]
        BY DEF StepInv
      <4>2. CASE SessionStopped(s)
        <5> DEFINE state == [active |-> FALSE, breaked |-> FALSE]
        <5>1. sessions' = [sessions EXCEPT ![s] = state]
          BY <4>2 DEF SessionStopped, Ended
        <5>2. state \in [active : BOOLEAN, breaked : BOOLEAN] /\ ~state.breaked /\ ~state.active
          OBVIOUS
        <5> HIDE DEF state
        <5> QED BY <5>1, <5>2
      <4>3. CASE SessionContinued(s)
        <5> DEFINE state == [sessions[s] EXCEPT !.breaked = FALSE]
        <5>1. state \in [active : BOOLEAN, breaked : BOOLEAN] /\ ~state.breaked /\ (state.active => sessions[s].active)
          BY <4>1
        <5>2. sessions' = [sessions EXCEPT ![s] = state]
          BY <4>3 DEF SessionContinued
        <5> HIDE DEF state
        <5> QED BY <5>1, <5>2
      <4> QED BY <1>2, <4>2, <4>3
    <3>2. \A x \in Sessions : sessions'[x] = IF x = s THEN state ELSE sessions[x]
      BY <3>1 DEF StepInv
    <3>3. sessions' \in [Sessions -> [active : BOOLEAN, breaked : BOOLEAN]]
      BY <3>1 DEF StepInv
    <3> QED BY <3>1, <3>2, <3>3
  <2> QED BY <2>1, <2>2 DEF StepInv
<1>3. CASE SessionBreaked(s)
  <2>1. /\ sessions' = [sessions EXCEPT ![s].breaked = TRUE] /\ sessions[s].active
        /\ generation' = generation + 1 /\ debugged' = debugged
        /\ op' = IF op.session = s THEN [op EXCEPT !.fresh = TRUE] ELSE op
    BY <1>3 DEF SessionBreaked
  <2>2. s \in debugged
    BY <2>1 DEF StepInv
  <2>c. /\ sessions' \in [Sessions -> [active : BOOLEAN, breaked : BOOLEAN]]
        /\ \A x \in Sessions : sessions'[x].active \/ sessions'[x].breaked => x \in debugged
        /\ generation' \in Nat
    <3> DEFINE state == [sessions[s] EXCEPT !.breaked = TRUE]
    <3>1. state \in [active : BOOLEAN, breaked : BOOLEAN]
      BY DEF StepInv
    <3>2. sessions' = [sessions EXCEPT ![s] = state]
      BY <2>1
    <3> HIDE DEF state
    <3>3. /\ sessions' \in [Sessions -> [active : BOOLEAN, breaked : BOOLEAN]]
          /\ \A x \in Sessions : x # s => sessions'[x] = sessions[x]
      BY <3>1, <3>2 DEF StepInv
    <3>4. \A x \in Sessions : sessions'[x].active \/ sessions'[x].breaked => x \in debugged
      BY <2>2, <3>3 DEF StepInv
    <3> QED BY <2>1, <3>3, <3>4 DEF StepInv
  <2>3. CASE op = NoOp
    <3>1. op' = NoOp /\ op'.kind # "step"
      BY <2>1, <2>3, NoSessionAssumption DEF NoOp
    <3> QED BY <2>1, <2>c, <3>1 DEF StepInv
  <2>4. CASE op # NoOp
    <3>1. /\ op \in [kind : {"break", "continue", "step"}, session : Sessions, start : Nat, fresh : BOOLEAN]
          /\ op.session \in debugged
      BY <2>4 DEF StepInv
    <3>2. /\ op' \in [kind : {"break", "continue", "step"}, session : Sessions, start : Nat, fresh : BOOLEAN]
          /\ op'.session \in debugged
      BY <2>1, <3>1
    <3>3. Cardinality(debugged) <= 1 => op'.fresh
      BY <2>1, <2>2, <3>1, OnlyOne DEF StepInv
    <3> QED BY <2>1, <2>c, <3>2, <3>3 DEF StepInv
  <2> QED BY <2>3, <2>4
<1> QED BY <1>1, <1>2, <1>3

LEMMA StepOps ==
  ASSUME StepInv, NEW s \in Sessions, BreakOp(s) \/ ContinueOp(s) \/ StepOp(s)
  PROVE  StepInv'
<1>1. PICK kind \in {"break", "continue", "step"} : Suspend(kind, s) /\ (sessions[s].active \/ sessions[s].breaked)
  BY DEF BreakOp, ContinueOp, StepOp
<1>2. /\ op' = [kind |-> kind, session |-> s, start |-> generation, fresh |-> FALSE]
      /\ UNCHANGED <<sessions, generation, debugged>>
  BY <1>1 DEF Suspend, stateVars
<1> QED BY <1>1, <1>2 DEF StepInv

LEMMA StepKept == StepInv /\ [Next]_vars => StepInv'
<1> SUFFICES ASSUME StepInv, [Next]_vars PROVE StepInv'
  OBVIOUS
<1>1. CASE \E s \in Sessions : \/ SessionStarted(s) \/ SessionStopped(s) \/ SessionBreaked(s) \/ SessionContinued(s)
                              \/ BreakOp(s) \/ ContinueOp(s) \/ StepOp(s)
  BY <1>1, StepSignals, StepOps
<1>2. CASE PollTransition
  BY <1>2 DEF PollTransition, stateVars, StepInv, NoOp
<1>3. CASE Uninstall
  BY <1>3 DEF Uninstall, StepInv, NoOp
<1>4. CASE \/ \E b \in Breakpoints : SetBreakpoint(b) \/ ClearBreakpoints({b})
           \/ \E B \in Files \cup {Breakpoints} : ClearBreakpoints(B)
  <2>1. UNCHANGED <<sessions, generation, op, debugged>>
    BY <1>4 DEF SetBreakpoint, ClearBreakpoints, opVars
  <2> QED BY <2>1 DEF StepInv
<1>5. CASE \/ Connect \/ DropStaleSnapshots \/ DropStaleEvents \/ Attach \/ ReadRequest \/ AnswerState \/ WriteSnapshot
           \/ WriteEvent \/ TurnIo \/ DropLink \/ LoseLink \/ ReadChunk \/ ResyncTimeout \/ UNCHANGED vars
  <2>1. UNCHANGED engineVars
    BY <1>5 DEF Connect, DropStaleSnapshots, DropStaleEvents, Attach, ReadRequest, AnswerState, WriteSnapshot, WriteEvent,
       TurnIo, DropLink, LoseLink, ReadChunk, ResyncTimeout, vars
  <2> QED BY <2>1 DEF engineVars, stateVars, opVars, StepInv
<1> QED BY <1>1, <1>2, <1>3, <1>4, <1>5 DEF Next

\* A step is reported only by the poll, which asks for a break since the step began.
LEMMA ReportsAreOwn == StepInv /\ [Next]_vars => (StepReported /\ Cardinality(debugged) <= 1 => op.fresh)
<1> SUFFICES ASSUME StepInv, [Next]_vars, StepReported, Cardinality(debugged) <= 1 PROVE op.fresh
  OBVIOUS
<1>1. op.kind = "step" /\ op # NoOp /\ op' = NoOp /\ installed'
  BY DEF StepReported, NoOp
<1>2. CASE PollTransition
  <2>1. Settled
    BY <1>2 DEF PollTransition, StepReported
  <2> QED BY <1>1, <2>1 DEF Settled, StepInv
<1>3. ASSUME ~PollTransition PROVE op' # NoOp
  <2>1. CASE \E s \in Sessions : SessionBreaked(s)
    <3>1. PICK s \in Sessions : op' = IF op.session = s THEN [op EXCEPT !.fresh = TRUE] ELSE op
      BY <2>1 DEF SessionBreaked
    <3>2. op'.kind = "step"
      BY <1>1, <3>1 DEF StepInv
    <3> QED BY <3>2 DEF NoOp
  <2>2. CASE \E s \in Sessions : BreakOp(s) \/ ContinueOp(s) \/ StepOp(s)
    BY <1>1, <2>2 DEF BreakOp, ContinueOp, StepOp, Suspend
  <2>3. CASE Uninstall
    BY <1>1, <2>3 DEF Uninstall
  <2>4. CASE \/ \E s \in Sessions : SessionStarted(s) \/ SessionStopped(s) \/ SessionContinued(s)
             \/ \E b \in Breakpoints : SetBreakpoint(b) \/ ClearBreakpoints({b})
             \/ \E B \in Files \cup {Breakpoints} : ClearBreakpoints(B)
    <3>1. UNCHANGED op
      BY <2>4 DEF SessionStarted, SessionStopped, SessionContinued, SetBreakpoint, ClearBreakpoints, opVars
    <3> QED BY <1>1, <3>1
  <2>5. CASE \/ Connect \/ DropStaleSnapshots \/ DropStaleEvents \/ Attach \/ ReadRequest \/ AnswerState \/ WriteSnapshot
             \/ WriteEvent \/ TurnIo \/ DropLink \/ LoseLink \/ ReadChunk \/ ResyncTimeout \/ UNCHANGED vars
    <3>1. UNCHANGED engineVars
      BY <2>5 DEF Connect, DropStaleSnapshots, DropStaleEvents, Attach, ReadRequest, AnswerState, WriteSnapshot, WriteEvent,
         TurnIo, DropLink, LoseLink, ReadChunk, ResyncTimeout, vars
    <3>2. UNCHANGED op
      BY <3>1 DEF engineVars, opVars
    <3> QED BY <1>1, <3>2
  <2> QED BY <1>3, <2>1, <2>2, <2>3, <2>4, <2>5 DEF Next
<1> QED BY <1>1, <1>2, <1>3

\* With one game debugged so far, a step is reported as landed only after the game
\* has broken again since the step was sent (TransitionPending::poll).
THEOREM StepsLandOnce == Spec => SingleStepReportsItsOwnBreak
<1> QED BY StepStarts, StepKept, ReportsAreOwn, PTL DEF Spec, SingleStepReportsItsOwnBreak

=============================================================================
