------------------------------ MODULE GameLinks ------------------------------
(***************************************************************************)
(* The games of a project as one broker finds, adopts and loses them       *)
(* (BridgeManager): the discovery loop and every gd_play that waits share  *)
(* scanOnce, which tries the listed endpoints one after the other.  A game *)
(* serves one connection and leaves others in the backlog of its listener; *)
(* it is not shared with another broker here.                              *)
(*                                                                         *)
(* A game is its pid, which also names its endpoint.  A client is the game *)
(* it connects to and the scan that opened it.  Of time there is the hello *)
(* timeout, which does not expire on a game that is free to answer, the    *)
(* delays between attempts and the deadline of a play.                     *)
(***************************************************************************)
EXTENDS Naturals, FiniteSets, Sequences

CONSTANTS
  Games,        \* processes that may run
  Plays,        \* calls of gd_play, each made at most once
  MaxTries,     \* attempts at which the delay has reached its maximum
  MaxSuspended  \* times a game is suspended

ASSUME GamesAssumption ==
  /\ {"next", "idle", "none"} \cap Games = {}
  /\ {"loop", "nobody", "left"} \cap Plays = {}
  /\ {MaxTries, MaxSuspended} \subseteq Nat

Scanners == {"loop"} \cup Plays
NoGame == "none"

VARIABLES
  process,    \* "absent", "starting", "up", "suspended" or "gone"
  listed,     \* the endpoint is in the runtime directory
  kind,       \* "ours", "foreign" (another role or project), "old" (another protocol); fixed
  slot,       \* whom the game serves: "nobody", a scan's client, or one that "left"
  clients,    \* clients of this broker whose socket is open
  closing,    \* clients whose close event is still to come
  scanning,   \* BridgeManager.scanning
  todo,       \* the endpoints a scan has still to try
  at,         \* "idle", "next" between two attempts, or the game being tried
  games,      \* BridgeManager.games in the order of the map
  current,    \* currentPid
  connected,  \* connectedSockets
  tries,      \* endpointBackoff: attempts, 0 for no entry
  resting,    \* endpointBackoff: until is not over
  play,       \* each gd_play: what it does, the pids it knew, what it reports
  suspensions \* the bound's counter

gameVars == <<process, listed, slot, suspensions>>
scanVars == <<scanning, todo, at>>
mapVars  == <<games, current, connected, tries, resting>>
linksVars == <<gameVars, kind, clients, closing, scanVars, mapVars, play>>

Pids == {games[i][1] : i \in DOMAIN games}
NotPlayed == [step |-> "idle", known |-> {}, report |-> NoGame]

GamesInit ==
  /\ process = [g \in Games |-> "absent"] /\ listed = [g \in Games |-> FALSE]
  /\ kind \in [Games -> {"ours", "foreign", "old"}]
  /\ slot = [g \in Games |-> "nobody"]
  /\ clients = {} /\ closing = {}
  /\ scanning = FALSE /\ todo = [s \in Scanners |-> {}] /\ at = [s \in Scanners |-> "idle"]
  /\ games = <<>> /\ current = NoGame /\ connected = {}
  /\ tries = [g \in Games |-> 0] /\ resting = [g \in Games |-> FALSE]
  /\ play = [p \in Plays |-> NotPlayed]
  /\ suspensions = 0

----------------------------------------------------------------------------
(* A scan. *)

\* Slip: an endpoint whose delay has reached its maximum is not tried again.
EndpointsUntilCapped == {g \in Games : listed[g] /\ g \notin connected /\ ~resting[g] /\ tries[g] < MaxTries}

NewGameEndpoints == {g \in Games : listed[g] /\ g \notin connected /\ ~resting[g]}

\* Slip: the scan in flight is not looked at.
MayScanBeside(s) == at[s] = "idle"

MayScan(s) == at[s] = "idle" /\ ~scanning

StartScan(s) ==
  /\ MayScan(s)
  /\ scanning' = TRUE
  /\ todo' = [todo EXCEPT ![s] = NewGameEndpoints]
  /\ at' = [at EXCEPT ![s] = "next"]
  /\ UNCHANGED <<gameVars, kind, clients, closing, mapVars>>

DiscoveryTick == StartScan("loop") /\ UNCHANGED play

\* The catch of tryConnectGame: later, and later each time.
BackOff(g) ==
  /\ tries' = [tries EXCEPT ![g] = IF @ < MaxTries THEN @ + 1 ELSE @]
  /\ resting' = [resting EXCEPT ![g] = TRUE]
  /\ UNCHANGED <<games, current, connected>>

\* client.close(): a game that serves it will read the end of the stream.
CloseClient(c) ==
  /\ clients' = clients \ {c}
  /\ slot' = [slot EXCEPT ![c[1]] = IF @ = c[2] THEN "left" ELSE @]
  /\ UNCHANGED <<process, listed, suspensions>>

TryConnect(s) ==
  /\ at[s] = "next"
  /\ \E g \in todo[s] :
       /\ todo' = [todo EXCEPT ![s] = @ \ {g}]
       /\ IF process[g] \in {"up", "suspended"}
          THEN clients' = clients \cup {<<g, s>>} /\ at' = [at EXCEPT ![s] = g] /\ UNCHANGED mapVars
          ELSE BackOff(g) /\ UNCHANGED <<clients, at>>
  /\ UNCHANGED <<gameVars, kind, closing, scanning, play>>

\* Map.set: a key that is there keeps its place.
Entered(c) ==
  IF c[1] \in Pids THEN [i \in DOMAIN games |-> IF games[i][1] = c[1] THEN c ELSE games[i]]
  ELSE Append(games, c)

Adopt(g, s) ==
  /\ games' = Entered(<<g, s>>) /\ current' = g
  /\ connected' = connected \cup {g}
  /\ tries' = [tries EXCEPT ![g] = 0] /\ resting' = [resting EXCEPT ![g] = FALSE]

GameHello(s) ==
  LET g == at[s] IN
  /\ g \in Games /\ slot[g] = s /\ process[g] = "up"
  /\ CASE kind[g] = "ours" -> Adopt(g, s) /\ UNCHANGED <<clients, gameVars>>
       [] kind[g] = "foreign" -> CloseClient(<<g, s>>) /\ UNCHANGED mapVars
       [] kind[g] = "old" -> CloseClient(<<g, s>>) /\ BackOff(g)
  /\ at' = [at EXCEPT ![s] = "next"]
  /\ UNCHANGED <<kind, closing, scanning, todo, play>>

\* The game is gone, halted, or busy with a client that stays.
NoHelloFrom(g, s) ==
  \/ process[g] # "up"
  \/ slot[g] \in Scanners \ {s} /\ <<g, slot[g]>> \in clients

GameHelloTimeout(s) ==
  LET g == at[s] IN
  /\ g \in Games /\ NoHelloFrom(g, s)
  /\ CloseClient(<<g, s>>) /\ BackOff(g)
  /\ at' = [at EXCEPT ![s] = "next"]
  /\ UNCHANGED <<kind, closing, scanning, todo, play>>

ScanEnds(s) ==
  /\ at[s] = "next" /\ todo[s] = {}
  /\ at' = [at EXCEPT ![s] = "idle"] /\ scanning' = FALSE
  /\ UNCHANGED <<gameVars, kind, clients, closing, todo, mapVars, play>>

RetryDue(g) ==
  /\ resting[g] /\ resting' = [resting EXCEPT ![g] = FALSE]
  /\ UNCHANGED <<gameVars, kind, clients, closing, scanVars, games, current, connected, tries, play>>

----------------------------------------------------------------------------
(* The end of a connection. *)

\* The client's liveness drops a game that fell silent.
GameSilent(c) ==
  /\ c \in clients /\ c[1] \in Pids /\ process[c[1]] = "suspended" /\ at[c[2]] # c[1]
  /\ CloseClient(c) /\ closing' = closing \cup {c}
  /\ UNCHANGED <<kind, scanVars, mapVars, play>>

\* Map.delete: the keys behind it move up.
Deleted(g) ==
  LET place == CHOOSE i \in DOMAIN games : games[i][1] = g
  IN IF g \notin Pids THEN games
     ELSE [i \in 1..Len(games) - 1 |-> IF i < place THEN games[i] ELSE games[i + 1]]

HandleGameClose(c) ==
  LET g == c[1] IN
  /\ c \in closing /\ closing' = closing \ {c}
  /\ games' = Deleted(g)
  /\ connected' = connected \ {g}
  /\ tries' = [tries EXCEPT ![g] = 0] /\ resting' = [resting EXCEPT ![g] = FALSE]
  /\ current' = IF current = g THEN NoGame ELSE current
  /\ UNCHANGED <<gameVars, kind, clients, scanVars, play>>

----------------------------------------------------------------------------
(* gd_play. *)

Goes(p, step) == play' = [play EXCEPT ![p].step = step]
Reports(p, g) == play' = [play EXCEPT ![p].step = "done", ![p].report = g]

PlayStart(p) ==
  /\ play[p] = NotPlayed
  /\ play' = [play EXCEPT ![p] = [step |-> "asking", known |-> Pids, report |-> NoGame]]
  /\ UNCHANGED <<gameVars, kind, clients, closing, scanVars, mapVars>>

\* The editor runs a game, or refuses.
PlayAnswered(p) ==
  /\ play[p].step = "asking"
  /\ \/ Goes(p, "looping") /\ (\E g \in Games : process[g] = "absent" /\ process' = [process EXCEPT ![g] = "starting"])
     \/ Goes(p, "done") /\ UNCHANGED process
  /\ UNCHANGED <<listed, slot, suspensions, kind, clients, closing, scanVars, mapVars>>

PlayScans(p) == play[p].step = "looping" /\ StartScan(p) /\ Goes(p, "scanning")

\* After its own scan, or at once beside another's: the first new game of the map.
PlayLooks(p) ==
  /\ \/ play[p].step = "looping" /\ ~MayScan(p)
     \/ play[p].step = "scanning" /\ at[p] = "idle"
  /\ LET new == {i \in DOMAIN games : games[i][1] \notin play[p].known}
     IN IF new = {} THEN Goes(p, "looping")
        ELSE Reports(p, games[CHOOSE i \in new : \A k \in new : i <= k][1])
  /\ UNCHANGED <<gameVars, kind, clients, closing, scanVars, mapVars>>

PlayTimesOut(p) ==
  /\ play[p].step = "looping" /\ Goes(p, "done")
  /\ UNCHANGED <<gameVars, kind, clients, closing, scanVars, mapVars>>

----------------------------------------------------------------------------
(* The games. *)

\* By hand, or by another instance of the editor's run.
HumanRuns(g) ==
  /\ process[g] = "absent" /\ process' = [process EXCEPT ![g] = "starting"]
  /\ UNCHANGED <<listed, slot, suspensions, kind, clients, closing, scanVars, mapVars, play>>

GameBinds(g) ==
  /\ process[g] = "starting"
  /\ process' = [process EXCEPT ![g] = "up"] /\ listed' = [listed EXCEPT ![g] = TRUE]
  /\ UNCHANGED <<slot, suspensions, kind, clients, closing, scanVars, mapVars, play>>

\* It quits and removes its endpoint, or is killed and leaves it.
GameDies(g) ==
  /\ process[g] \in {"starting", "up", "suspended"}
  /\ process' = [process EXCEPT ![g] = "gone"]
  /\ \E stays \in {FALSE, listed[g]} : listed' = [listed EXCEPT ![g] = stays]
  /\ slot' = [slot EXCEPT ![g] = "nobody"]
  /\ LET cut == {c \in clients : c[1] = g}
     IN clients' = clients \ cut /\ closing' = closing \cup {c \in cut : at[c[2]] # g}
  /\ UNCHANGED <<suspensions, kind, scanVars, mapVars, play>>

Suspend(g) ==
  /\ process[g] = "up" /\ suspensions < MaxSuspended
  /\ process' = [process EXCEPT ![g] = "suspended"] /\ suspensions' = suspensions + 1
  /\ UNCHANGED <<listed, slot, kind, clients, closing, scanVars, mapVars, play>>

Resume(g) ==
  /\ process[g] = "suspended" /\ process' = [process EXCEPT ![g] = "up"]
  /\ UNCHANGED <<listed, slot, suspensions, kind, clients, closing, scanVars, mapVars, play>>

SlotGoes(g, whom) ==
  /\ slot' = [slot EXCEPT ![g] = whom]
  /\ UNCHANGED <<process, listed, suspensions, kind, clients, closing, scanVars, mapVars, play>>

GameServes(g) ==
  /\ process[g] = "up" /\ slot[g] = "nobody"
  /\ \E s \in Scanners : <<g, s>> \in clients /\ SlotGoes(g, s)

GameReadsEof(g) == process[g] = "up" /\ slot[g] = "left" /\ SlotGoes(g, "nobody")

----------------------------------------------------------------------------

Scan(s) == TryConnect(s) \/ GameHello(s) \/ GameHelloTimeout(s) \/ ScanEnds(s)
Waits(p) == PlayAnswered(p) \/ PlayScans(p) \/ PlayLooks(p)

GamesNext ==
  \/ DiscoveryTick \/ \E s \in Scanners : Scan(s)
  \/ \E c \in clients : GameSilent(c)
  \/ \E c \in closing : HandleGameClose(c)
  \/ \E p \in Plays : PlayStart(p) \/ Waits(p) \/ PlayTimesOut(p)
  \/ \E g \in Games : \/ RetryDue(g) \/ HumanRuns(g) \/ GameBinds(g) \/ GameDies(g) \/ Suspend(g) \/ Resume(g)
                      \/ GameServes(g) \/ GameReadsEof(g)

\* Timers fire, the kernel and a running game answer, closes are reported, and
\* the deadline of a play comes.  Nothing makes a game start, resume or die, or
\* the liveness of a link drop it.
GamesFairness ==
  /\ WF_linksVars(DiscoveryTick)
  /\ \A s \in Scanners : WF_linksVars(Scan(s))
  /\ \A g \in Games : WF_linksVars(RetryDue(g)) /\ WF_linksVars(GameServes(g) \/ GameReadsEof(g))
  /\ WF_linksVars(\E c \in closing : HandleGameClose(c))
  /\ \A p \in Plays : WF_linksVars(Waits(p)) /\ SF_linksVars(PlayTimesOut(p))

GamesSpec == GamesInit /\ [][GamesNext]_linksVars /\ GamesFairness

----------------------------------------------------------------------------
(* Properties. *)

Tried == {<<at[s], s>> : s \in {r \in Scanners : at[r] \in Games}}
Adopted == {games[i] : i \in DOMAIN games}

\* Whoever scans, a game never has two clients of this broker ("racing one
\* endpoint is fatal on Windows"); every open connection is an attempt's or an
\* adopted game's, so each failed, foreign or dropped one gives the game's place
\* back; what the broker takes for connected is, or its close is on the way;
\* the default instance is one of them; and a play reports a game it did not
\* know.
GamesAreTracked ==
  /\ \A g \in Games : Cardinality({c \in clients : c[1] = g}) <= 1
  /\ clients \subseteq Tried \cup Adopted
  /\ Adopted \subseteq clients \cup closing
  /\ Pids = connected /\ Len(games) = Cardinality(Pids)
  /\ current \in Pids \cup {NoGame}
  /\ \A p \in Plays : play[p].report \notin play[p].known

\* A game of the project that stays up is adopted for good, after a suspension, a
\* dropped link or any number of failed attempts, whatever becomes of the
\* endpoints tried before it; and every play ends.
GamesAreAdopted ==
  /\ \A g \in Games : (kind[g] = "ours" /\ <>[](process[g] = "up")) => <>[](g \in Pids)
  /\ \A p \in Plays : play[p].step = "asking" ~> play[p].step = "done"

=============================================================================
