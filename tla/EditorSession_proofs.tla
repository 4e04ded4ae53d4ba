------------------------ MODULE EditorSession_proofs ------------------------
(***************************************************************************)
(* What a quit and a launch may rely on, for any number of calls, editors, *)
(* hangs and drops.                                                        *)
(***************************************************************************)
EXTENDS EditorSession, TLAPS

USE MaxCallsAssumption, MaxEditorsAssumption, MaxHangsAssumption, MaxDropsAssumption

\* The editors that have started, and those the broker has nothing to wait for.
Born == Running \cup Gone
Lost == Gone \cup term

\* A quit that owns a process and has not ended.
Quitting(c) == call[c].tool = "quit" /\ call[c].at # "done" /\ call[c].editor # None

\* Another editor of the broker was in play when call c came, or was launched since.
Shares(c) == \E e \in ours \ {call[c].editor} : e \in call[c].there \/ e > call[c].editor

----------------------------------------------------------------------------
(* The inductive invariant. *)

EditorTypes ==
  /\ life \in [Editors -> {"unborn", "running", "closed", "killed"}]
  /\ ours \subseteq Born
  /\ hidden \subseteq Running /\ bridge \subseteq Running /\ hung \subseteq Running /\ term \subseteq ours \cap Running
  /\ reaped \subseteq ours \cap Gone
  /\ handle \in ours \cup {None}
  /\ link \in Born \cup {None} /\ path \in bridge \cup {None}

PendingTypes ==
  /\ armed \in [Editors -> {"no", "flush", "grace"}]
  /\ requests \in [Editors -> SUBSET Calls]
  /\ hangs \in 0..MaxHangs /\ drops \in 0..MaxDrops

CallTypes ==
  /\ call \in [Calls -> CallRecords]
  /\ \A c \in Calls : /\ call[c].there \subseteq Born \cup {None}
                      /\ call[c].editor \in ours \cup {None}
                      /\ call[c].at \in {"waiting", "confirming"} => call[c].editor # None
                      /\ call[c].at = "idle" => call[c].tool = "none"
                      /\ call[c].at # "done" => call[c].out = "none"

\* Editors are numbered as they start.
InOrder == \A e \in Born, f \in Editors : f < e => f \in Born

\* A quit still has the handle, or its process is lost, or it shares the handle.
HandleIsKept == \A c \in Calls : Quitting(c) => handle = call[c].editor \/ call[c].editor \in Lost \/ Shares(c)

\* Two quits of different processes know of each other.
OthersAreSeen ==
  \A c, d \in Calls :
    (Quitting(c) /\ Quitting(d) /\ call[c].editor # call[d].editor) => call[c].editor \in Lost \/ Shares(c)

\* What a probe found clear of the editors in play it can tell stays so.
ProbeIsRight ==
  \A c \in Calls : At(c, "launch", "probed") /\ call[c].sees = "clear" => call[c].there \cap Running \subseteq hidden

SessionInv ==
  /\ EditorTypes /\ PendingTypes /\ CallTypes /\ InOrder
  /\ HandleIsKept /\ OthersAreSeen /\ ProbeIsRight /\ QuitIsConfirmed

\* The checked types follow.
LEMMA InvGivesTypes == SessionInv => TypeOK
  BY DEF SessionInv, EditorTypes, PendingTypes, CallTypes, TypeOK, Born, Running, Gone

\* Nothing has started and nothing is called at first.
LEMMA InitSession == Init => SessionInv
  BY DEF Init, SessionInv, EditorTypes, PendingTypes, CallTypes, InOrder, HandleIsKept, OthersAreSeen, ProbeIsRight,
         QuitIsConfirmed, Born, Running, Gone, Quitting, At, NoCall, CallRecords, None

----------------------------------------------------------------------------
(* Steps of the editors. *)

\* Steps that leave the calls alone, and let the handle go only with its editor.
LEMMA CallsUntouched ==
  ASSUME SessionInv, EditorTypes', PendingTypes', UNCHANGED <<call, ours>>,
         Born = Born', Running' \subseteq Running, hidden \cap Running' \subseteq hidden', Lost \subseteq Lost',
         handle' = handle \/ (handle' = None /\ handle \in Gone')
  PROVE  SessionInv'
<1>1. CallTypes'
  BY DEF SessionInv, CallTypes
<1>2. InOrder'
  BY DEF SessionInv, InOrder
<1>3. \A c \in Calls : (Quitting(c)' <=> Quitting(c)) /\ (Shares(c)' <=> Shares(c))
  BY DEF Quitting, Shares
<1>4. HandleIsKept'
  BY <1>3 DEF SessionInv, HandleIsKept, Lost
<1>5. OthersAreSeen'
  BY <1>3 DEF SessionInv, OthersAreSeen
<1>6. ProbeIsRight'
  BY DEF SessionInv, ProbeIsRight, At
<1>7. QuitIsConfirmed'
  BY DEF SessionInv, QuitIsConfirmed, Lost
<1> QED BY <1>1, <1>2, <1>4, <1>5, <1>6, <1>7 DEF SessionInv

\* An editor that ends is lost to every call about it.
LEMMA DieKeepsSession ==
  ASSUME SessionInv, NEW e \in Running, NEW how \in {"closed", "killed"}, Die(e, how)
  PROVE  SessionInv'
<1>1. Running' = Running \ {e} /\ Gone' = Gone \cup {e} /\ term' = term \ {e}
  BY DEF Die, Running, Gone, SessionInv, EditorTypes
<1>2. EditorTypes'
  BY <1>1 DEF SessionInv, EditorTypes, Die, Born, brokerVars, Running, Gone
<1>3. PendingTypes'
  BY DEF SessionInv, PendingTypes, Die, bounds, Running
<1>4. UNCHANGED <<call, ours, handle>> /\ hidden' = hidden \ {e}
  BY DEF Die, brokerVars
<1>5. hidden \cap Running' \subseteq hidden'
  BY <1>1, <1>4
<1> QED BY <1>1, <1>2, <1>3, <1>4, <1>5, CallsUntouched DEF Born, Lost

\* Steps of an editor's bridge or main thread that start and end nothing.
LEMMA QuietKeepsSession ==
  ASSUME SessionInv, UNCHANGED <<life, ours, hidden, term, reaped, link, handle, call>>,
         PendingTypes', bridge' \subseteq Running, hung' \subseteq Running, path' \in bridge' \cup {None}
  PROVE  SessionInv'
<1>1. Running' = Running /\ Gone' = Gone
  BY DEF Running, Gone
<1>2. EditorTypes'
  BY <1>1 DEF SessionInv, EditorTypes, Born
<1> QED BY <1>1, <1>2, CallsUntouched DEF Born, Lost

\* No step of an editor, and no exit event, breaks what the calls rely on.
LEMMA EditorKeepsSession ==
  ASSUME SessionInv, NEW e \in Editors,
         Reap(e) \/ Bind(e) \/ Hang(e) \/ FlushFires(e) \/ GraceFires(e) \/ Close(e) \/ DieOfSignal(e)
  PROVE  SessionInv'
<1>1. CASE Reap(e)
  <2>1. Running' = Running /\ Gone' = Gone
    BY <1>1 DEF Reap, editorVars, Running, Gone
  <2>2. EditorTypes'
    BY <1>1, <2>1 DEF SessionInv, EditorTypes, Reap, HandleAfter, editorVars, Born
  <2>3. PendingTypes'
    BY <1>1 DEF SessionInv, PendingTypes, Reap, editorVars, bounds
  <2>4. UNCHANGED <<call, ours, hidden, term>> /\ (handle' = handle \/ (handle' = None /\ handle \in Gone))
    BY <1>1 DEF Reap, HandleAfter, editorVars
  <2> QED BY <2>1, <2>2, <2>3, <2>4, CallsUntouched DEF Born, Lost
<1>2. CASE Bind(e)
  <2>1. PendingTypes'
    BY <1>2 DEF SessionInv, PendingTypes, Bind, bounds
  <2> QED BY <1>2, <2>1, QuietKeepsSession DEF Bind, brokerVars, Acts, SessionInv, EditorTypes
<1>3. CASE Hang(e)
  <2>1. PendingTypes'
    BY <1>3 DEF SessionInv, PendingTypes, Hang
  <2> QED BY <1>3, <2>1, QuietKeepsSession DEF Hang, brokerVars, Acts, SessionInv, EditorTypes
<1>4. CASE FlushFires(e)
  <2>1. PendingTypes'
    BY <1>4 DEF SessionInv, PendingTypes, FlushFires, AfterFlush, bounds
  <2> QED BY <1>4, <2>1, QuietKeepsSession DEF FlushFires, brokerVars, SessionInv, EditorTypes
<1>5. CASE GraceFires(e)
  BY <1>5, DieKeepsSession DEF GraceFires, Acts
<1>6. CASE Close(e)
  BY <1>6, DieKeepsSession DEF Close, Acts
<1>7. CASE DieOfSignal(e)
  BY <1>7, DieKeepsSession DEF DieOfSignal
<1> QED BY <1>1, <1>2, <1>3, <1>4, <1>5, <1>6, <1>7

----------------------------------------------------------------------------
(* Steps of the calls. *)

\* Calls move on: which editor a call is about, and what it knows, stays.
LEMMA CallsMove ==
  ASSUME SessionInv, EditorTypes', PendingTypes', CallTypes', UNCHANGED <<life, ours, hidden>>, term \subseteq term',
         \A c \in Calls : /\ call'[c].tool = call[c].tool /\ call'[c].editor = call[c].editor
                          /\ call'[c].there = call[c].there
                          /\ call[c].at = "done" => call'[c].at = "done",
         \A c \in Calls : Quitting(c) /\ handle = call[c].editor =>
                            handle' = handle \/ call[c].editor \in Gone \cup term' \/ Shares(c),
         \A c \in Calls : At(c, "launch", "probed")' /\ call'[c].sees = "clear" => call[c].there \cap Running \subseteq hidden,
         \A c \in Calls : call'[c].out = "quit" =>
                            call[c].out = "quit" \/ call[c].editor \in Gone \cup term' \/ Shares(c)
  PROVE  SessionInv'
<1>1. Running' = Running /\ Gone' = Gone
  BY DEF Running, Gone
<1>2. \A c \in Calls : (Quitting(c)' => Quitting(c)) /\ (Shares(c)' <=> Shares(c))
  BY DEF Quitting, Shares
<1>3. InOrder'
  BY <1>1 DEF SessionInv, InOrder, Born
<1>4. HandleIsKept'
  BY <1>1, <1>2 DEF SessionInv, HandleIsKept, Lost
<1>5. OthersAreSeen'
  BY <1>1, <1>2 DEF SessionInv, OthersAreSeen, Lost
<1>6. ProbeIsRight'
  BY <1>1 DEF ProbeIsRight
<1>7. QuitIsConfirmed'
  <2> SUFFICES ASSUME NEW c \in Calls, call'[c].out = "quit"
               PROVE  call[c].editor \in Gone \cup term' \/ Shares(c)
    BY <1>1, <1>2 DEF QuitIsConfirmed, Shares
  <2> QED BY DEF SessionInv, QuitIsConfirmed, Shares
<1> QED BY <1>3, <1>4, <1>5, <1>6, <1>7 DEF SessionInv

\* A call starts: what is in play is what it knows of.
LEMMA CallStarts ==
  ASSUME SessionInv, EditorTypes', PendingTypes', CallTypes', UNCHANGED <<life, ours, hidden, term, handle>>,
         NEW c \in Calls, call[c].at = "idle",
         \A d \in Calls \ {c} : call'[d] = call[d],
         call'[c].there = InPlay, call'[c].editor \in {None, handle},
         call'[c].at # "probed", call'[c].out # "quit"
  PROVE  SessionInv'
<1>1. Running' = Running /\ Gone' = Gone
  BY DEF Running, Gone
<1>2. \A d \in Calls \ {c} : (Quitting(d)' <=> Quitting(d)) /\ (Shares(d)' <=> Shares(d))
  BY DEF Quitting, Shares
<1>3. InOrder'
  BY <1>1 DEF SessionInv, InOrder, Born
<1>4. HandleIsKept'
  BY <1>1, <1>2 DEF SessionInv, HandleIsKept, Lost, Quitting
<1>5. OthersAreSeen'
  <2> SUFFICES ASSUME NEW a \in Calls, NEW b \in Calls, Quitting(a)', Quitting(b)',
                      call'[a].editor # call'[b].editor
               PROVE  call'[a].editor \in Lost' \/ Shares(a)'
    BY DEF OthersAreSeen
  <2>1. CASE a # c /\ b # c
    BY <1>1, <1>2, <2>1 DEF SessionInv, OthersAreSeen, Lost
  <2>2. CASE a = c /\ b # c
    <3>1. Quitting(b) /\ call'[b] = call[b]
      BY <1>2, <2>2
    <3>2. call[b].editor \in InPlay /\ call[b].editor \in ours
      BY <3>1 DEF InPlay, Quitting, SessionInv, CallTypes
    <3> QED BY <2>2, <3>1, <3>2 DEF Shares
  <2>3. CASE a # c /\ b = c
    <3>1. Quitting(a) /\ call'[a] = call[a] /\ handle # call[a].editor
      BY <1>2, <2>3 DEF Quitting
    <3> QED BY <1>1, <1>2, <2>3, <3>1 DEF SessionInv, HandleIsKept, Lost
  <2> QED BY <2>1, <2>2, <2>3
<1>6. ProbeIsRight'
  BY <1>1 DEF SessionInv, ProbeIsRight, At
<1>7. QuitIsConfirmed'
  BY <1>1 DEF SessionInv, QuitIsConfirmed
<1> QED BY <1>3, <1>4, <1>5, <1>6, <1>7 DEF SessionInv

\* An editor starts, as the last in the order.
LEMMA BirthFacts ==
  ASSUME SessionInv, NEW e \in Editors, Starts(e)
  PROVE  /\ e \notin Born /\ \A f \in Born : f < e
         /\ Running' = Running \cup {e} /\ Gone' = Gone /\ InOrder'
         /\ life' \in [Editors -> {"unborn", "running", "closed", "killed"}]
         /\ hidden \subseteq hidden' /\ hidden' \subseteq hidden \cup {e}
<1>0. IsNext(e) /\ life' = [life EXCEPT ![e] = "running"] /\ hidden' \in {hidden, hidden \cup {e}}
  BY DEF Starts
<1>1. e \notin Born
  BY <1>0 DEF IsNext, Born, Running, Gone
<1>2. \A f \in Born : f < e
  BY <1>1 DEF SessionInv, InOrder, Editors, Born, Running, Gone
<1>3. life' \in [Editors -> {"unborn", "running", "closed", "killed"}]
  BY <1>0 DEF SessionInv, EditorTypes
<1>4. Running' = Running \cup {e} /\ Gone' = Gone
  BY <1>0 DEF SessionInv, EditorTypes, IsNext, Running, Gone
<1>5. \A f \in Editors : f < e => f \in Born
  BY <1>0 DEF IsNext, SessionInv, EditorTypes, Born, Running, Gone
<1>6. InOrder'
  BY <1>4, <1>5 DEF SessionInv, InOrder, Born
<1> QED BY <1>0, <1>1, <1>2, <1>3, <1>4, <1>6

\* A launch takes the handle over: every quit about an older editor shares it then.
LEMMA SpawnKeepsSession ==
  ASSUME SessionInv, NEW c \in Calls, call[c].at # "done", NEW known \in CallRecords, Spawn(c, known),
         known.tool = "launch", known.out = "none", call[c].tool # "quit"
  PROVE  SessionInv'
<1>1. PICK e \in Editors :
        /\ Starts(e)
        /\ ours' = ours \cup {e} /\ handle' = e
        /\ call' = [call EXCEPT ![c] = [known EXCEPT !.at = "waiting", !.editor = e, !.there = {}]]
  BY DEF Spawn
<1>2. UNCHANGED <<bridge, armed, requests, hung, term, reaped, link, path, bounds>>
  BY DEF Spawn
<1>3. /\ e \notin Born /\ \A f \in Born : f < e
      /\ Running' = Running \cup {e} /\ Gone' = Gone /\ InOrder'
      /\ life' \in [Editors -> {"unborn", "running", "closed", "killed"}]
      /\ hidden \subseteq hidden' /\ hidden' \subseteq hidden \cup {e}
  BY <1>1, BirthFacts
<1>4. e # None
  BY DEF Editors, None
<1>5. EditorTypes'
  BY <1>1, <1>2, <1>3 DEF SessionInv, EditorTypes, Born
<1>6. PendingTypes'
  BY <1>2 DEF SessionInv, PendingTypes, bounds
<1>7. /\ call'[c] \in CallRecords /\ call'[c].tool = "launch" /\ call'[c].at = "waiting"
      /\ call'[c].editor = e /\ call'[c].there = {} /\ call'[c].out = "none"
  BY <1>1 DEF SessionInv, CallTypes, CallRecords
<1>8. \A d \in Calls \ {c} : call'[d] = call[d]
  BY <1>1 DEF SessionInv, CallTypes
<1>9. CallTypes'
  <2>1. call' \in [Calls -> CallRecords]
    BY <1>1, <1>7, <1>8 DEF SessionInv, CallTypes
  <2> QED BY <1>1, <1>3, <1>4, <1>7, <1>8, <2>1 DEF SessionInv, CallTypes, Born
<1>10. \A d \in Calls : Quitting(d)' => d # c /\ Quitting(d)
  BY <1>7, <1>8 DEF Quitting
<1>11. \A d \in Calls \ {c} : Shares(d) => Shares(d)'
  BY <1>1, <1>8 DEF Shares
<1>12. HandleIsKept'
  <2> SUFFICES ASSUME NEW d \in Calls, Quitting(d)', call[d].editor \notin Lost, ~Shares(d)
               PROVE  Shares(d)'
    BY <1>2, <1>3, <1>8, <1>10, <1>11 DEF HandleIsKept, Lost
  <2>1. d # c /\ Quitting(d) /\ handle = call[d].editor
    BY <1>10 DEF SessionInv, HandleIsKept
  <2>2. call[d].editor \in Born
    BY <2>1 DEF SessionInv, EditorTypes, Quitting
  <2>3. e > call[d].editor /\ e # call[d].editor
    BY <1>3, <2>2 DEF Editors, Born, Running, Gone
  <2> QED BY <1>1, <1>8, <2>1, <2>3 DEF Shares
<1>13. OthersAreSeen'
  BY <1>2, <1>3, <1>8, <1>10, <1>11 DEF SessionInv, OthersAreSeen, Lost
<1>14. ProbeIsRight'
  BY <1>3, <1>4, <1>7, <1>8 DEF SessionInv, ProbeIsRight, At, CallTypes
<1>15. QuitIsConfirmed'
  BY <1>1, <1>2, <1>3, <1>7, <1>8 DEF SessionInv, QuitIsConfirmed
<1> QED BY <1>3, <1>5, <1>6, <1>9, <1>12, <1>13, <1>14, <1>15 DEF SessionInv

\* A call goes to another place, or ends: what else it knows stays.
LEMMA CallStep ==
  ASSUME SessionInv, NEW c \in Calls, NEW r \in CallRecords, call' = [call EXCEPT ![c] = r],
         call[c].at \notin {"idle", "done"},
         r.tool = call[c].tool, r.editor = call[c].editor, r.there = call[c].there, r.at # "idle",
         r.at \in {"waiting", "confirming"} => r.editor # None,
         r.at # "done" => r.out = "none",
         EditorTypes', PendingTypes', ours' = ours, hidden' = hidden, life' = life, term \subseteq term',
         \A d \in Calls : Quitting(d) /\ handle = call[d].editor =>
                            handle' = handle \/ call[d].editor \in Gone \cup term' \/ Shares(d),
         r.tool = "launch" /\ r.at = "probed" /\ r.sees = "clear" => r.there \cap Running \subseteq hidden,
         r.out = "quit" => r.editor \in Gone \cup term' \/ Shares(c)
  PROVE  SessionInv'
<1>1. call'[c] = r /\ (\A d \in Calls \ {c} : call'[d] = call[d]) /\ call' \in [Calls -> CallRecords]
  BY DEF SessionInv, CallTypes
<1>2. Born' = Born
  BY DEF Born, Running, Gone
<1>3. CallTypes'
  BY <1>1, <1>2 DEF SessionInv, CallTypes
<1>4. \A d \in Calls : At(d, "launch", "probed")' /\ call'[d].sees = "clear" => call[d].there \cap Running \subseteq hidden
  BY <1>1 DEF SessionInv, ProbeIsRight, At
<1>5. \A d \in Calls : call'[d].out = "quit" =>
                         call[d].out = "quit" \/ call[d].editor \in Gone \cup term' \/ Shares(d)
  BY <1>1
<1>6. \A d \in Calls : /\ call'[d].tool = call[d].tool /\ call'[d].editor = call[d].editor
                      /\ call'[d].there = call[d].there
                      /\ call[d].at = "done" => call'[d].at = "done"
  BY <1>1
<1> QED BY <1>3, <1>4, <1>5, <1>6, CallsMove

\* Nothing but the calls, the handle, the connection or the signals sent changes.
LEMMA BrokerStepTyped ==
  ASSUME SessionInv, UNCHANGED <<life, ours, hidden, bridge, armed, hung, reaped, path, bounds>>,
         requests' \in [Editors -> SUBSET Calls], term' \subseteq ours \cap Running,
         handle' \in {handle, None}, link' \in {link, None}
  PROVE  EditorTypes' /\ PendingTypes'
<1>1. Running' = Running /\ Gone' = Gone
  BY DEF Running, Gone
<1> QED BY <1>1 DEF SessionInv, EditorTypes, PendingTypes, Born, bounds

\* The steps of a call that only move it on.
LEMMA MovesKeepSession ==
  ASSUME SessionInv, NEW c \in Calls,
         LaunchEnds(c) \/ AckArrives(c) \/ AskTimesOut(c) \/ QuitCloses(c) \/ (LaunchDecides(c) /\ AdvisedAgainst(c))
  PROVE  SessionInv'
<1>1. UNCHANGED <<editorVars, reaped, link, handle, path, bounds>>
  BY DEF LaunchEnds, AckArrives, AskTimesOut, QuitCloses, LaunchDecides
<1>2. EditorTypes' /\ PendingTypes'
  BY <1>1, BrokerStepTyped DEF editorVars, SessionInv, EditorTypes, PendingTypes
<1>3. call[c].at \notin {"idle", "done"}
  BY DEF LaunchEnds, AckArrives, AskTimesOut, QuitCloses, LaunchDecides, At
<1>4. call[c] \in CallRecords /\ call[c].out = "none"
  BY <1>3 DEF SessionInv, CallTypes
<1>5. /\ ours' = ours /\ hidden' = hidden /\ life' = life /\ term' = term
      /\ handle' = handle
  BY <1>1 DEF editorVars
<1>6. ASSUME NEW out \in {"refused", "failed", "launched", "late", "closed", "error"}, Ends(c, out) PROVE SessionInv'
  <2> DEFINE r == [call[c] EXCEPT !.at = "done", !.out = out]
  <2>1. call' = [call EXCEPT ![c] = r]
    BY <1>6 DEF Ends
  <2>2. r \in CallRecords /\ r.at = "done" /\ r.out = out /\ r.tool = call[c].tool /\ r.editor = call[c].editor /\ r.there = call[c].there
    BY <1>4 DEF CallRecords
  <2> HIDE DEF r
  <2> QED BY <1>2, <1>3, <1>5, <2>1, <2>2, CallStep
<1>7. CASE AckArrives(c)
  <2> DEFINE r == [call[c] EXCEPT !.at = Confirms(c)]
  <2>1. Confirms(c) \in {"confirming", "closing"} /\ (Confirms(c) = "confirming" => call[c].editor # None)
    BY DEF Confirms
  <2>2. call' = [call EXCEPT ![c] = r]
    BY <1>7 DEF AckArrives, Goes
  <2>3. r \in CallRecords /\ r.at = Confirms(c) /\ r.out = "none" /\ r.tool = call[c].tool /\ r.editor = call[c].editor /\ r.there = call[c].there
    BY <1>4, <2>1 DEF CallRecords
  <2> HIDE DEF r
  <2> QED BY <1>2, <1>3, <1>5, <2>1, <2>2, <2>3, CallStep
<1> QED BY <1>6, <1>7 DEF LaunchEnds, AskTimesOut, QuitCloses, LaunchDecides

\* The probe: what it finds clear of running editors it can tell is clear of those in play.
LEMMA ProbeKeepsSession ==
  ASSUME SessionInv, NEW c \in Calls, Probe(c)
  PROVE  SessionInv'
<1>1. PICK sees \in {"foreign", "blind"} \cup {x \in {"clear"} : Running \subseteq hidden} :
        call' = [call EXCEPT ![c].at = "probed", ![c].sees = sees]
  BY DEF Probe
<1>2. UNCHANGED <<editorVars, reaped, link, handle, path, bounds>> /\ At(c, "launch", "probing")
  BY DEF Probe
<1>3. EditorTypes' /\ PendingTypes'
  BY <1>2, BrokerStepTyped DEF editorVars, SessionInv, EditorTypes, PendingTypes
<1>4. call[c] \in CallRecords /\ call[c].out = "none" /\ call[c].at \notin {"idle", "done"}
  BY <1>2 DEF SessionInv, CallTypes, At
<1> DEFINE r == [call[c] EXCEPT !.at = "probed", !.sees = sees]
<1>5. call' = [call EXCEPT ![c] = r]
  BY <1>1
<1>6. /\ r \in CallRecords /\ r.at = "probed" /\ r.out = "none" /\ r.sees = sees
      /\ r.tool = call[c].tool /\ r.editor = call[c].editor /\ r.there = call[c].there
  BY <1>4 DEF CallRecords
<1>7. sees = "clear" => Running \subseteq hidden
  OBVIOUS
<1>8. ours' = ours /\ hidden' = hidden /\ life' = life /\ term' = term /\ handle' = handle
  BY <1>2 DEF editorVars
<1> HIDE DEF r
<1> QED BY <1>3, <1>4, <1>5, <1>6, <1>7, <1>8, CallStep

\* What is in play has started.
LEMMA InPlayIsBorn ==
  ASSUME SessionInv
  PROVE  InPlay \subseteq Born \cup {None} /\ InPlay \subseteq Editors \cup {None}
  BY DEF SessionInv, EditorTypes, CallTypes, InPlay, Born, Running, Gone

\* A launch starts: it is refused, it looks first, or it is forced.
LEMMA LaunchStartKeepsSession ==
  ASSUME SessionInv, NEW c \in Calls, LaunchStart(c)
  PROVE  SessionInv'
<1>1. PICK force \in BOOLEAN :
        LET begun == [NoCall EXCEPT !.tool = "launch", !.there = InPlay, !.sees = IF force THEN "forced" ELSE "nothing"]
        IN IF link # None \/ handle # None
             THEN /\ call' = [call EXCEPT ![c] = [begun EXCEPT !.at = "done", !.out = "refused"]]
                  /\ UNCHANGED <<editorVars, reaped, link, handle, path, bounds>>
             ELSE IF force
             THEN Spawn(c, begun)
             ELSE /\ call' = [call EXCEPT ![c] = [begun EXCEPT !.at = "probing"]]
                  /\ UNCHANGED <<editorVars, reaped, link, handle, path, bounds>>
  BY DEF LaunchStart
<1> DEFINE begun == [NoCall EXCEPT !.tool = "launch", !.there = InPlay, !.sees = IF force THEN "forced" ELSE "nothing"]
<1>2. /\ begun \in CallRecords /\ begun.tool = "launch" /\ begun.out = "none" /\ begun.editor = None
      /\ begun.there = InPlay
  BY InPlayIsBorn DEF NoCall, CallRecords
<1>3. call[c].at = "idle" /\ call[c].tool = "none"
  BY DEF LaunchStart, MayStart, SessionInv, CallTypes
<1>4. CASE UNCHANGED <<editorVars, reaped, link, handle, path, bounds>>
            /\ \E r \in {[begun EXCEPT !.at = "done", !.out = "refused"], [begun EXCEPT !.at = "probing"]} :
                  call' = [call EXCEPT ![c] = r]
  <2>1. PICK r : /\ call' = [call EXCEPT ![c] = r]
                 /\ r = [begun EXCEPT !.at = "done", !.out = "refused"] \/ r = [begun EXCEPT !.at = "probing"]
    BY <1>4
  <2>2. EditorTypes' /\ PendingTypes'
    BY <1>4, BrokerStepTyped DEF editorVars, SessionInv, EditorTypes, PendingTypes
  <2>3. /\ r \in CallRecords /\ r.at \in {"done", "probing"} /\ (r.at # "done" => r.out = "none")
        /\ r.out \in {"none", "refused"} /\ r.tool = "launch" /\ r.editor = None /\ r.there = InPlay
    BY <2>1, InPlayIsBorn DEF NoCall, CallRecords
  <2>4. call'[c] = r /\ (\A d \in Calls \ {c} : call'[d] = call[d]) /\ call' \in [Calls -> CallRecords]
    BY <2>1, <2>3 DEF SessionInv, CallTypes
  <2>5. Born' = Born /\ UNCHANGED <<life, ours, hidden, term, handle>>
    BY <1>4 DEF editorVars, Born, Running, Gone
  <2>6. CallTypes'
    BY <2>3, <2>4, <2>5, InPlayIsBorn DEF SessionInv, CallTypes
  <2> QED BY <1>3, <2>2, <2>3, <2>4, <2>5, <2>6, CallStarts
<1>5. CASE Spawn(c, begun)
  <2> HIDE DEF begun
  <2> QED BY <1>2, <1>3, <1>5, SpawnKeepsSession
<1> QED BY <1>1, <1>4, <1>5

\* A quit starts, about the process that the handle names.
LEMMA QuitStartKeepsSession ==
  ASSUME SessionInv, NEW c \in Calls, QuitStart(c)
  PROVE  SessionInv'
<1> DEFINE begun == [NoCall EXCEPT !.tool = "quit", !.there = InPlay, !.editor = handle]
<1>1. UNCHANGED <<life, ours, hidden, bridge, armed, hung, term, reaped, link, handle, path, bounds>>
  BY DEF QuitStart
<1>2. call[c].at = "idle"
  BY DEF QuitStart, MayStart
<1>3. requests' \in [Editors -> SUBSET Calls]
  BY DEF QuitStart, SessionInv, PendingTypes
<1>4. EditorTypes' /\ PendingTypes'
  BY <1>1, <1>3, BrokerStepTyped DEF SessionInv, EditorTypes
<1>5. handle \in Editors \cup {None}
  BY DEF SessionInv, EditorTypes, Born, Running, Gone
<1>6. PICK s : /\ call' = [call EXCEPT ![c] = s]
               /\ \/ s = [begun EXCEPT !.at = "asking"]
                  \/ s = [begun EXCEPT !.at = "confirming"] /\ handle # None
                  \/ s = [begun EXCEPT !.at = "done", !.out = "refused"]
  BY DEF QuitStart
<1>7. /\ s \in CallRecords /\ s.tool = "quit" /\ s.editor = handle /\ s.there = InPlay
      /\ s.at \in {"asking", "confirming", "done"} /\ s.out \in {"none", "refused"}
      /\ (s.at # "done" => s.out = "none") /\ (s.at = "confirming" => handle # None)
  BY <1>5, <1>6, InPlayIsBorn DEF NoCall, CallRecords
<1>8. call'[c] = s /\ (\A d \in Calls \ {c} : call'[d] = call[d]) /\ call' \in [Calls -> CallRecords]
  BY <1>6, <1>7 DEF SessionInv, CallTypes
<1>9. Born' = Born /\ ours' = ours
  BY <1>1 DEF Born, Running, Gone
<1>10. CallTypes'
  BY <1>7, <1>8, <1>9, InPlayIsBorn DEF SessionInv, CallTypes, EditorTypes
<1> QED BY <1>1, <1>2, <1>4, <1>7, <1>8, <1>10, CallStarts

\* A quit ends and forgets the handle: whoever had the same process knows it lost.
LEMMA QuitEndsKeepSession ==
  ASSUME SessionInv, NEW c \in Calls, QuitConfirmed(c) \/ QuitForced(c)
  PROVE  SessionInv'
<1>1. At(c, "quit", "confirming") /\ handle' = None
  BY DEF QuitConfirmed, QuitForced
<1>2. UNCHANGED <<life, ours, hidden, bridge, armed, requests, hung, reaped, link, path, bounds>>
  BY DEF QuitConfirmed, QuitForced, editorVars
<1>3. /\ call[c] \in CallRecords /\ call[c].editor \in ours /\ call[c].editor # None
      /\ call[c].out = "none" /\ Quitting(c)
  BY <1>1 DEF SessionInv, CallTypes, At, Quitting
<1>4. /\ term \subseteq term' /\ term' \subseteq ours \cap Running
      /\ (QuitForced(c) => call[c].editor \in Gone \cup term')
      /\ (QuitConfirmed(c) => term' = term)
  BY <1>3 DEF QuitConfirmed, QuitForced, editorVars, SessionInv, EditorTypes, Born
<1>5. EditorTypes' /\ PendingTypes'
  BY <1>1, <1>2, <1>4, BrokerStepTyped DEF SessionInv, EditorTypes, PendingTypes
<1>6. QuitConfirmed(c) => call[c].editor \in Lost \/ Shares(c)
  BY <1>3 DEF QuitConfirmed, SeesTheEnd, SessionInv, EditorTypes, HandleIsKept, Lost
<1>7. ASSUME NEW d \in Calls, Quitting(d), handle = call[d].editor
      PROVE  call[d].editor \in Gone \cup term' \/ Shares(d)
  <2>1. CASE call[d].editor = call[c].editor
    <3>1. CASE QuitForced(c)
      BY <2>1, <3>1, <1>4
    <3>2. CASE QuitConfirmed(c)
      BY <1>7, <2>1, <3>2 DEF QuitConfirmed, SeesTheEnd, Quitting, SessionInv, EditorTypes
    <3> QED BY <3>1, <3>2
  <2>2. CASE call[d].editor # call[c].editor
    BY <1>3, <1>4, <1>7, <2>2 DEF SessionInv, OthersAreSeen, Lost
  <2> QED BY <2>1, <2>2
<1>8. PICK out \in {"quit", "forced"} : Ends(c, out) /\ (out = "quit" => QuitConfirmed(c))
  BY DEF QuitConfirmed, QuitForced
<1> DEFINE r == [call[c] EXCEPT !.at = "done", !.out = out]
<1>9. call' = [call EXCEPT ![c] = r]
  BY <1>8 DEF Ends
<1>10. /\ r \in CallRecords /\ r.at = "done" /\ r.out = out
       /\ r.tool = call[c].tool /\ r.editor = call[c].editor /\ r.there = call[c].there
  BY <1>3 DEF CallRecords
<1>11. out = "quit" => call[c].editor \in Gone \cup term' \/ Shares(c)
  BY <1>4, <1>6, <1>8 DEF Lost
<1>12. call[c].at \notin {"idle", "done"}
  BY <1>1 DEF At
<1> HIDE DEF r
<1> QED BY <1>2, <1>4, <1>5, <1>7, <1>9, <1>10, <1>11, <1>12, CallStep

\* A bridge takes a quit, and acknowledges it if the call still waits.
LEMMA TakeQuitKeepsSession ==
  ASSUME SessionInv, NEW e \in Editors, NEW c \in Calls, TakeQuit(e, c)
  PROVE  SessionInv'
<1>1. UNCHANGED <<life, ours, hidden, bridge, hung, term, reaped, link, handle, path, bounds>>
  BY DEF TakeQuit
<1>2. PendingTypes'
  BY DEF TakeQuit, SessionInv, PendingTypes, bounds
<1>3. CASE UNCHANGED call
  BY <1>1, <1>2, <1>3, QuietKeepsSession DEF SessionInv, EditorTypes
<1>4. CASE call[c].at = "asking"
  <2> DEFINE r == [call[c] EXCEPT !.at = "acked"]
  <2>1. call' = [call EXCEPT ![c] = r]
    BY <1>4 DEF TakeQuit, Goes
  <2>2. call[c] \in CallRecords /\ call[c].out = "none"
    BY <1>4 DEF SessionInv, CallTypes
  <2>3. /\ r \in CallRecords /\ r.at = "acked" /\ r.out = "none"
        /\ r.tool = call[c].tool /\ r.editor = call[c].editor /\ r.there = call[c].there
    BY <2>2 DEF CallRecords
  <2>4. EditorTypes'
    BY <1>1 DEF SessionInv, EditorTypes, Born, Running, Gone
  <2> HIDE DEF r
  <2> QED BY <1>1, <1>2, <1>4, <2>1, <2>3, <2>4, CallStep
<1> QED BY <1>3, <1>4 DEF TakeQuit

\* The connection ends, and every call that waits on it with an error.
LEMMA DisconnectKeepsSession ==
  ASSUME SessionInv, Disconnect, hangs' \in 0..MaxHangs, drops' \in 0..MaxDrops
  PROVE  SessionInv'
<1>1. UNCHANGED <<editorVars, reaped, handle, path>> /\ link' = None
  BY DEF Disconnect
<1>2. EditorTypes' /\ PendingTypes'
  BY <1>1 DEF editorVars, SessionInv, EditorTypes, PendingTypes, Born, Running, Gone
<1>3. \A d \in Calls : /\ call'[d] \in CallRecords
                       /\ call'[d].tool = call[d].tool /\ call'[d].editor = call[d].editor
                       /\ call'[d].there = call[d].there /\ call'[d].sees = call[d].sees
                       /\ \/ call'[d].at = call[d].at /\ call'[d].out = call[d].out
                          \/ call'[d].at = "done" /\ call'[d].out = "error"
  BY DEF Disconnect, SessionInv, CallTypes, CallRecords
<1>4. call' \in [Calls -> CallRecords]
  <2>1. call' = [d \in Calls |-> call'[d]]
    BY DEF Disconnect
  <2> QED BY <1>3, <2>1
<1>5. Born' = Born /\ UNCHANGED <<life, ours, hidden, term>>
  BY <1>1 DEF editorVars, Born, Running, Gone
<1>6. CallTypes'
  BY <1>3, <1>4, <1>5 DEF SessionInv, CallTypes
<1>7. \A d \in Calls : At(d, "launch", "probed")' /\ call'[d].sees = "clear" => call[d].there \cap Running \subseteq hidden
  BY <1>3 DEF At, SessionInv, ProbeIsRight
<1> QED BY <1>1, <1>2, <1>3, <1>5, <1>6, <1>7, CallsMove

\* An editor opened by hand is in nobody's way: no call is about it.
LEMMA HumanKeepsSession ==
  ASSUME SessionInv, HumanStarts
  PROVE  SessionInv'
<1>1. PICK e \in Editors : Starts(e)
  BY DEF HumanStarts
<1>2. UNCHANGED <<ours, bridge, armed, requests, hung, term, brokerVars, path, bounds>>
  BY DEF HumanStarts
<1>3. /\ e \notin Born /\ Running' = Running \cup {e} /\ Gone' = Gone /\ InOrder'
      /\ life' \in [Editors -> {"unborn", "running", "closed", "killed"}]
      /\ hidden \subseteq hidden' /\ hidden' \subseteq hidden \cup {e}
  BY <1>1, BirthFacts
<1>4. EditorTypes' /\ PendingTypes'
  BY <1>2, <1>3 DEF SessionInv, EditorTypes, PendingTypes, Born, brokerVars, bounds
<1>5. CallTypes'
  BY <1>2, <1>3 DEF SessionInv, CallTypes, Born, brokerVars
<1>6. \A c \in Calls : (Quitting(c)' <=> Quitting(c)) /\ (Shares(c)' <=> Shares(c))
  BY <1>2 DEF Quitting, Shares, brokerVars
<1>7. HandleIsKept' /\ OthersAreSeen'
  BY <1>2, <1>3, <1>6 DEF SessionInv, HandleIsKept, OthersAreSeen, Lost, brokerVars
<1>8. ProbeIsRight'
  <2>1. e # None
    BY DEF Editors, None
  <2> QED BY <1>2, <1>3, <2>1 DEF SessionInv, ProbeIsRight, CallTypes, At, brokerVars
<1>9. QuitIsConfirmed'
  BY <1>2, <1>3 DEF SessionInv, QuitIsConfirmed, brokerVars
<1> QED BY <1>3, <1>4, <1>5, <1>7, <1>8, <1>9 DEF SessionInv

\* The invariant is inductive.
LEMMA NextKeepsSession ==
  ASSUME SessionInv, [Next]_vars
  PROVE  SessionInv'
<1>1. ASSUME NEW c \in Calls, Call(c) PROVE SessionInv'
  <2>1. CASE LaunchDecides(c)
    <3>1. call[c] \in CallRecords /\ call[c].tool = "launch" /\ call[c].at = "probed" /\ call[c].out = "none"
      BY <2>1 DEF LaunchDecides, At, SessionInv, CallTypes
    <3> QED BY <2>1, <3>1, MovesKeepSession, SpawnKeepsSession DEF LaunchDecides
  <2> QED BY <1>1, <2>1, MovesKeepSession, ProbeKeepsSession, LaunchStartKeepsSession, QuitStartKeepsSession,
             QuitEndsKeepSession DEF Call
<1>2. ASSUME NEW e \in Editors, Editor(e) PROVE SessionInv'
  BY <1>2, EditorKeepsSession, TakeQuitKeepsSession DEF Editor
<1>3. CASE Attach
  <2>1. UNCHANGED <<editorVars, reaped, handle, call, path, bounds>> /\ link' = path
    BY <1>3 DEF Attach
  <2>2. EditorTypes' /\ PendingTypes'
    BY <2>1 DEF editorVars, bounds, SessionInv, EditorTypes, PendingTypes, Born, Running, Gone
  <2>3. Born' = Born /\ Running' = Running /\ Gone' = Gone /\ UNCHANGED <<life, ours, hidden, term, handle, call>>
    BY <2>1 DEF editorVars, Born, Running, Gone
  <2> QED BY <2>2, <2>3, CallsUntouched DEF Lost
<1>4. CASE LinkEnds \/ LinkDrops
  <2>1. Disconnect /\ hangs' = hangs /\ drops' \in 0..MaxDrops
    BY <1>4 DEF LinkEnds, LinkDrops, bounds, SessionInv, PendingTypes
  <2> QED BY <2>1, DisconnectKeepsSession DEF SessionInv, PendingTypes
<1>5. CASE UNCHANGED vars
  <2>1. UNCHANGED <<life, ours, hidden, bridge, armed, requests, hung, term, reaped, path, link, handle, call, hangs, drops>>
    BY <1>5 DEF vars, editorVars, brokerVars, bounds
  <2>2. PendingTypes'
    BY <2>1 DEF SessionInv, PendingTypes
  <2> QED BY <2>1, <2>2, QuietKeepsSession DEF SessionInv, EditorTypes
<1> QED BY <1>1, <1>2, <1>3, <1>4, <1>5, HumanKeepsSession DEF Next

\* The invariant holds in every state.
LEMMA SessionInvariant == Spec => []SessionInv
<1>1. SessionInv /\ [Next]_vars => SessionInv'
  BY NextKeepsSession
<1> QED BY <1>1, InitSession, PTL DEF Spec

----------------------------------------------------------------------------
(* The theorems. *)

\* The types hold, among them: the handle is of a process spawned here, a call
\* that waits for a process has one, and signals go to editors of this broker only.
THEOREM TypeInvariant == Spec => []TypeOK
  BY SessionInvariant, InvGivesTypes, PTL

\* A quit that reports the exit of its process is right, whatever calls interleave
\* with it, but for the calls that share the handle with another editor.
THEOREM ConfirmedQuitsAreRight == Spec => []QuitIsConfirmed
<1>1. SessionInv => QuitIsConfirmed
  BY DEF SessionInv
<1> QED BY <1>1, SessionInvariant, PTL

\* A launch knows after its spawn what it knew before it.
LEMMA SpawnSees ==
  ASSUME call \in [Calls -> CallRecords], NEW c \in Calls, NEW known \in CallRecords, Spawn(c, known)
  PROVE  call'[c].sees = known.sees
<1>1. PICK e : call' = [call EXCEPT ![c] = [known EXCEPT !.at = "waiting", !.editor = e, !.there = {}]]
  BY DEF Spawn
<1>2. [known EXCEPT !.at = "waiting", !.editor = e, !.there = {}].sees = known.sees
  BY DEF CallRecords
<1> QED BY <1>1, <1>2

\* Only a launch that starts an editor begins to wait for one.
LEMMA OnlySpawnsWait ==
  ASSUME SessionInv, Next, NEW c \in Calls, call[c].at # "waiting", call'[c].at = "waiting"
  PROVE  LaunchStart(c) \/ (LaunchDecides(c) /\ ~AdvisedAgainst(c))
<1>1. call \in [Calls -> CallRecords]
  BY DEF SessionInv, CallTypes
<1>2. ASSUME NEW d \in Calls, Call(d), d # c PROVE call'[c] = call[c]
  BY <1>1, <1>2 DEF Call, LaunchStart, Probe, LaunchDecides, LaunchEnds, QuitStart, AckArrives, AskTimesOut,
     QuitConfirmed, QuitForced, QuitCloses, Spawn, Goes, Ends
<1>3. ASSUME NEW d \in Calls, NEW place, NEW out, Goes(d, place) \/ Ends(d, out), place # "waiting"
      PROVE  FALSE
  <2>1. call[c] \in CallRecords
    BY <1>1
  <2>2. ~Goes(c, place)
    <3> DEFINE s == [call[c] EXCEPT !.at = place]
    <3>1. s.at = place
      BY <2>1 DEF CallRecords
    <3> QED BY <1>1, <1>3, <3>1 DEF Goes
  <2>3. ~Ends(c, out)
    <3> DEFINE s == [call[c] EXCEPT !.at = "done", !.out = out]
    <3>1. s.at = "done"
      BY <2>1 DEF CallRecords
    <3> QED BY <1>1, <3>1 DEF Ends
  <2>4. CASE d # c
    BY <1>1, <1>3, <2>4 DEF Goes, Ends
  <2> QED BY <1>3, <2>2, <2>3, <2>4
<1>4. ~QuitStart(c) /\ ~Probe(c) /\ ~LaunchEnds(c)
  <2>1. ~QuitStart(c)
    <3> SUFFICES ASSUME QuitStart(c) PROVE FALSE
      OBVIOUS
    <3>1. PICK s : call' = [call EXCEPT ![c] = s] /\ s.at # "waiting"
      BY DEF QuitStart, NoCall
    <3> QED BY <1>1, <3>1
  <2>2. ~Probe(c)
    <3> SUFFICES ASSUME Probe(c) PROVE FALSE
      OBVIOUS
    <3>1. PICK sees : call' = [call EXCEPT ![c].at = "probed", ![c].sees = sees]
      BY DEF Probe
    <3>2. call[c] \in CallRecords
      BY <1>1
    <3>3. [call[c] EXCEPT !.at = "probed", !.sees = sees].at = "probed"
      BY <3>2 DEF CallRecords
    <3> QED BY <1>1, <3>1, <3>3
  <2> QED BY <1>3, <2>1, <2>2 DEF LaunchEnds
<1>5. ~AckArrives(c) /\ ~AskTimesOut(c) /\ ~QuitConfirmed(c) /\ ~QuitForced(c) /\ ~QuitCloses(c)
  <2>1. Confirms(c) # "waiting"
    BY DEF Confirms
  <2> QED BY <1>3, <2>1 DEF AckArrives, AskTimesOut, QuitConfirmed, QuitForced, QuitCloses
<1>6. ~(LaunchDecides(c) /\ AdvisedAgainst(c))
  BY <1>3 DEF LaunchDecides
<1>7. \A e \in Editors : ~Editor(e)
  BY <1>1, <1>3 DEF Editor, Reap, Bind, Hang, FlushFires, GraceFires, Close, DieOfSignal, Die, TakeQuit, brokerVars
<1>8. ~Attach /\ ~HumanStarts
  BY DEF Attach, HumanStarts, brokerVars
<1>9. ~LinkEnds /\ ~LinkDrops
  <2>1. call[c] \in CallRecords
    BY <1>1
  <2>2. [call[c] EXCEPT !.at = "done", !.out = "error"].at = "done"
    BY <2>1 DEF CallRecords
  <2> QED BY <2>2 DEF LinkEnds, LinkDrops, Disconnect
<1> QED BY <1>2, <1>4, <1>5, <1>6, <1>7, <1>8, <1>9 DEF Next, Call

\* A launch that looked before it started an editor started it beside none of
\* those that ran when it was called and that the probe can tell for editors of
\* the project, however long the probe took.
THEOREM LaunchSparesTheRunning == Spec => SparesTheRunning
<1> DEFINE Spares == \A c \in Calls :
             (call[c].at # "waiting" /\ call'[c].at = "waiting" /\ call'[c].sees \in {"clear", "foreign"}) =>
               call[c].there \cap Running \subseteq hidden
<1>1. SessionInv /\ [Next]_vars => [Spares]_vars
  <2> SUFFICES ASSUME SessionInv, Next, NEW c \in Calls, call[c].at # "waiting", call'[c].at = "waiting",
                      call'[c].sees \in {"clear", "foreign"}
               PROVE  call[c].there \cap Running \subseteq hidden
    OBVIOUS
  <2>1. call \in [Calls -> CallRecords]
    BY DEF SessionInv, CallTypes
  <2>2. CASE LaunchStart(c)
    <3> DEFINE begun == [NoCall EXCEPT !.tool = "launch", !.there = InPlay, !.sees = "forced"]
    <3>1. begun \in CallRecords /\ begun.sees = "forced"
      BY InPlayIsBorn DEF NoCall, CallRecords
    <3>2. Spawn(c, begun) \/ \E r : call' = [call EXCEPT ![c] = r] /\ r.at # "waiting"
      <4>1. PICK force \in BOOLEAN :
              LET any == [NoCall EXCEPT !.tool = "launch", !.there = InPlay,
                                        !.sees = IF force THEN "forced" ELSE "nothing"]
              IN \/ call' = [call EXCEPT ![c] = [any EXCEPT !.at = "done", !.out = "refused"]]
                 \/ force /\ Spawn(c, any)
                 \/ call' = [call EXCEPT ![c] = [any EXCEPT !.at = "probing"]]
        BY <2>2 DEF LaunchStart
      <4>2. CASE force
        BY <4>1, <4>2 DEF NoCall
      <4>3. CASE ~force
        BY <4>1, <4>3 DEF NoCall
      <4> QED BY <4>2, <4>3
    <3>3. Spawn(c, begun)
      BY <2>1, <3>2
    <3> HIDE DEF begun
    <3> QED BY <2>1, <3>1, <3>3, SpawnSees
  <2>3. CASE LaunchDecides(c) /\ ~AdvisedAgainst(c)
    <3>1. call'[c].sees = call[c].sees
      BY <2>1, <2>3, SpawnSees DEF LaunchDecides
    <3> QED BY <2>3, <3>1 DEF LaunchDecides, AdvisedAgainst, SessionInv, ProbeIsRight
  <2> QED BY <2>2, <2>3, OnlySpawnsWait
<1> QED BY <1>1, SessionInvariant, PTL DEF Spec, SparesTheRunning

=============================================================================
