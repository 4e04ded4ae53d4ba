----------------------------- MODULE MCProgress -----------------------------
(* What must come in the end: the answers and the stop of a bridge's listener, *)
(* and the games a broker adopts.  The two share no state, so a behaviour is   *)
(* of one of them.                                                             *)
EXTENDS BridgeLink, GameLinks

CONSTANTS g1, g2, p1

AnyForm == {"command", "unreadable"}
TwoGames == {g1, g2}
OnePlay == {p1}

VARIABLE part

allVars == <<part, vars, linksVars>>

\* The second game is one of the project, of another one, or of another protocol.
ProgressInit ==
  /\ part \in {"listener", "games"}
  /\ Init /\ GamesInit
  /\ kind[g1] = "ours"
  /\ part = "listener" => kind[g2] = "ours"

ProgressNext ==
  \/ part = "listener" /\ Next /\ UNCHANGED <<part, linksVars>>
  \/ part = "games" /\ GamesNext /\ UNCHANGED <<part, vars>>

(* Fairness and GamesFairness, each in the behaviours of its part. *)

Listener(A) == part = "listener" /\ A
InGames(A) == part = "games" /\ A

ListenerIsFair ==
  /\ WF_vars(Listener(IoThread))
  /\ WF_vars(Listener(StartFrame)) /\ WF_vars(Listener(PollPending)) /\ WF_vars(Listener(PollDone))
  /\ WF_vars(Listener(EndFrame)) /\ WF_vars(Listener(MarkInactive))
  /\ SF_vars(Listener(Execute))
  /\ \A c \in Conns : WF_vars(Listener(ReadFrame(c)))

GamesAreFair ==
  /\ WF_linksVars(InGames(DiscoveryTick))
  /\ \A s \in Scanners : WF_linksVars(InGames(Scan(s)))
  /\ \A g \in Games :
       WF_linksVars(InGames(RetryDue(g))) /\ WF_linksVars(InGames(GameServes(g) \/ GameReadsEof(g)))
  /\ WF_linksVars(InGames(\E c \in closing : HandleGameClose(c)))
  /\ \A p \in Plays : WF_linksVars(InGames(Waits(p))) /\ SF_linksVars(InGames(PlayTimesOut(p)))

ProgressSpec == ProgressInit /\ [][ProgressNext]_allVars /\ ListenerIsFair /\ GamesAreFair

=============================================================================
