------------------------ MODULE BridgeManager_proofs ------------------------
(***************************************************************************)
(* The two sides of the broker's bridge manager: its account of its games, *)
(* for any number of games, of calls of gd_play, of suspensions and of     *)
(* failed attempts; and the brokers' hold on the editor's only slot, for   *)
(* any number of brokers, sockets, calls, starts and drops.                *)
(***************************************************************************)
EXTENDS EditorLink, GameLinks, FiniteSetTheorems, SequenceTheorems, WellFoundedInduction, TLAPS

-----------------------------------------------------------------------------
(* The games.  One scan runs at a time, and what it still has to try was   *)
(* not connected when it started.  Only a scan connects, and only what it  *)
(* tries, so an attempt never meets a game that has a client; and a close  *)
(* is reported once, for a client that is still in the map.                *)

\* What a call of gd_play is at.
Steps == {"idle", "asking", "looping", "scanning", "done"}

\* Types.
LinksTyped ==
  /\ process \in [Games -> {"absent", "starting", "up", "suspended", "gone"}]
  /\ slot \in [Games -> {"nobody", "left"} \cup Scanners]
  /\ clients \subseteq Games \X Scanners /\ closing \subseteq Games \X Scanners
  /\ todo \in [Scanners -> SUBSET Games]
  /\ at \in [Scanners -> {"idle", "next"} \cup Games]
  /\ games \in Seq(Games \X Scanners)
  /\ play \in [Plays -> [step : Steps, known : SUBSET Games, report : Games \cup {NoGame}]]

\* One scan at a time, and nothing to try without one.
OneScan ==
  /\ \A s \in Scanners : at[s] # "idle" => scanning
  /\ \A s, r \in Scanners : at[s] # "idle" /\ at[r] # "idle" => s = r
  /\ \A s \in Scanners : at[s] = "idle" => todo[s] = {}

\* What a scan tries, or has still to try, is not connected.
TriedAreNew ==
  \A s \in Scanners : /\ todo[s] \cap connected = {}
                      /\ at[s] \in Games => at[s] \notin todo[s] \cup connected

\* The map has one entry for a pid, and the broker's account of it is right.
MapIsRight ==
  /\ \A i, j \in DOMAIN games : games[i][1] = games[j][1] => i = j
  /\ Pids = connected
  /\ current \in Pids \cup {NoGame}

\* A game has one client; it is an attempt's or an adopted one, and an adopted
\* one that is no client is closing.
ClientsAreOwned ==
  /\ \A c, d \in clients : c[1] = d[1] => c = d
  /\ clients \subseteq Tried \cup Adopted
  /\ Adopted \subseteq clients \cup closing
  /\ closing \subseteq Adopted
  /\ closing \cap clients = {}
  /\ \A g \in Games : slot[g] \in Scanners => <<g, slot[g]>> \in clients

ReportsAreNew == \A p \in Plays : play[p].report \notin play[p].known

KindTyped == kind \in [Games -> {"ours", "foreign", "old"}]

LinksInv == LinksTyped /\ OneScan /\ TriedAreNew /\ MapIsRight /\ ClientsAreOwned /\ ReportsAreNew

----------------------------------------------------------------------------
(* The map of games. *)

\* The names that stand for no game and no scan.
LEMMA Names ==
  /\ "next" \notin Games /\ "idle" \notin Games /\ NoGame \notin Games
  /\ "nobody" \notin Scanners /\ "left" \notin Scanners
  BY GamesAssumption DEF NoGame, Scanners

\* A set of naturals has a least member.
LEMMA LeastOf ==
  ASSUME NEW T \in SUBSET Nat, T # {}
  PROVE  \E i \in T : \A j \in T : i <= j
<1> DEFINE Below == {p \in Nat \X Nat : p[1] < p[2]}
<1>1. IsWellFoundedOn(Below, Nat)
  BY NatLessThanWellFounded DEF OpToRel
<1>2. \A i, j \in Nat : <<j, i>> \notin Below => i <= j
  OBVIOUS
<1> HIDE DEF Below
<1>3. PICK i \in T : \A j \in T : <<j, i>> \notin Below
  BY <1>1, WFMin
<1>4. \A j \in T : i <= j
  BY <1>2, <1>3
<1> QED
  BY <1>4

\* What the map holds.
LEMMA MapFacts ==
  ASSUME LinksTyped
  PROVE  /\ DOMAIN games = 1..Len(games) /\ Len(games) \in Nat
         /\ \A i \in DOMAIN games : games[i] \in Games \X Scanners /\ games[i] \in Adopted /\ games[i][1] \in Pids
         /\ Adopted \subseteq Games \X Scanners
         /\ Pids \subseteq Games
         /\ \A c \in Adopted : c[1] \in Pids
         /\ \A g \in Pids : \E c \in Adopted : c[1] = g
<1>1. games \in Seq(Games \X Scanners)
  BY DEF LinksTyped
<1>2. DOMAIN games = 1..Len(games) /\ Len(games) \in Nat /\ \A i \in DOMAIN games : games[i] \in Games \X Scanners
  BY <1>1
<1>3. \A c \in Games \X Scanners : c[1] \in Games
  OBVIOUS
<1> QED
  BY <1>2, <1>3 DEF Adopted, Pids

\* With one entry for a pid, an adopted client is known by it.
LEMMA OneEntry ==
  ASSUME LinksTyped, MapIsRight, NEW c \in Adopted, NEW d \in Adopted, c[1] = d[1]
  PROVE  c = d
  BY DEF MapIsRight, Adopted

\* The entries of a map, its keys, and that each key has one entry.
Entries(q) == {q[i] : i \in DOMAIN q}
KeysOf(q) == {q[i][1] : i \in DOMAIN q}
Distinct(q) == \A i, j \in DOMAIN q : q[i][1] = q[j][1] => i = j

\* A map with one more entry.
LEMMA OneMore ==
  ASSUME NEW S, NEW q \in Seq(S), NEW c \in S, Distinct(q), c[1] \notin KeysOf(q)
  PROVE  /\ Append(q, c) \in Seq(S) /\ Distinct(Append(q, c))
         /\ Entries(Append(q, c)) = Entries(q) \cup {c} /\ KeysOf(Append(q, c)) = KeysOf(q) \cup {c[1]}
<1> DEFINE r == Append(q, c)
           n == Len(q) + 1
<1>1. r \in Seq(S) /\ DOMAIN r = DOMAIN q \cup {n} /\ n \notin DOMAIN q
  OBVIOUS
<1>2. r[n] = c /\ \A i \in DOMAIN q : r[i] = q[i]
  OBVIOUS
<1> HIDE DEF r, n
<1>3. Entries(r) = Entries(q) \cup {c}
  BY <1>1, <1>2 DEF Entries
<1>4. KeysOf(r) = KeysOf(q) \cup {c[1]}
  BY <1>1, <1>2 DEF KeysOf
<1>5. \A i \in DOMAIN q : q[i][1] # c[1]
  BY DEF KeysOf
<1>6. Distinct(r)
  BY <1>1, <1>2, <1>5 DEF Distinct
<1> QED
  BY <1>1, <1>3, <1>4, <1>6 DEF r

\* A new pid is entered at the end.
LEMMA EnteredFacts ==
  ASSUME LinksTyped, MapIsRight, NEW g \in Games, NEW s \in Scanners, g \notin Pids, games' = Entered(<<g, s>>)
  PROVE  /\ games' \in Seq(Games \X Scanners)
         /\ Adopted' = Adopted \cup {<<g, s>>} /\ Pids' = Pids \cup {g}
         /\ \A i, j \in DOMAIN games' : games'[i][1] = games'[j][1] => i = j
<1> DEFINE c == <<g, s>>
           S == Games \X Scanners
<1>1. games' = Append(games, c)
  BY DEF Entered
<1>2. games \in Seq(S) /\ c \in S /\ c[1] = g
  BY DEF LinksTyped
<1>3. Distinct(games)
  BY DEF MapIsRight, Distinct
<1>4. KeysOf(games) = Pids /\ Entries(games) = Adopted /\ KeysOf(games)' = Pids' /\ Entries(games)' = Adopted'
  BY DEF KeysOf, Entries, Pids, Adopted
<1> HIDE DEF c, S
<1>5. /\ Append(games, c) \in Seq(S) /\ Distinct(Append(games, c))
      /\ Entries(Append(games, c)) = Entries(games) \cup {c} /\ KeysOf(Append(games, c)) = KeysOf(games) \cup {c[1]}
  <2>1. c[1] \notin KeysOf(games)
    BY <1>2, <1>4
  <2>2. games \in Seq(S) /\ c \in S
    BY <1>2
  <2> QED
    BY <1>3, <2>1, <2>2, OneMore
<1>6. games' \in Seq(S) /\ Distinct(games') /\ Entries(games') = Adopted \cup {c} /\ KeysOf(games') = Pids \cup {g}
  BY <1>1, <1>2, <1>4, <1>5
<1> QED
  BY <1>4, <1>6 DEF c, S, Distinct

\* An entry is deleted, and no other.
LEMMA DeletedFacts ==
  ASSUME LinksTyped, MapIsRight, NEW g \in Pids, games' = Deleted(g)
  PROVE  /\ games' \in Seq(Games \X Scanners)
         /\ Adopted' = {d \in Adopted : d[1] # g} /\ Pids' = Pids \ {g}
         /\ \A i, j \in DOMAIN games' : games'[i][1] = games'[j][1] => i = j
<1> DEFINE place == CHOOSE i \in DOMAIN games : games[i][1] = g
           n == Len(games)
           old(i) == IF i < place THEN i ELSE i + 1
<1>1. place \in DOMAIN games /\ games[place][1] = g
  BY DEF Pids
<1>2. games' = [i \in 1..n - 1 |-> IF i < place THEN games[i] ELSE games[i + 1]]
  BY DEF Deleted
<1> HIDE DEF place
<1>3. DOMAIN games = 1..n /\ n \in Nat /\ place \in 1..n
  BY <1>1, MapFacts
<1>4. DOMAIN games' = 1..n - 1 /\ \A i \in 1..n - 1 : games'[i] = games[old(i)]
  BY <1>2
<1>5. \A i \in 1..n - 1 : old(i) \in 1..n /\ old(i) # place
  BY <1>3
<1>6. \A i, j \in 1..n - 1 : old(i) = old(j) => i = j
  BY <1>3
<1>7. ASSUME NEW k \in 1..n, k # place PROVE \E i \in 1..n - 1 : old(i) = k
  <2>1. CASE k < place
    <3>1. k \in 1..n - 1 /\ old(k) = k
      BY <1>3, <2>1
    <3> QED BY <3>1
  <2>2. CASE k > place
    <3>1. k - 1 \in 1..n - 1 /\ old(k - 1) = k
      BY <1>3, <2>2
    <3> QED BY <3>1
  <2> QED
    BY <1>3, <1>7, <2>1, <2>2
<1> HIDE DEF old
<1>8. games' \in Seq(Games \X Scanners)
  <2>1. \A i \in 1..n - 1 : games'[i] \in Games \X Scanners
    BY <1>3, <1>4, <1>5, MapFacts
  <2>2. n - 1 \in Nat
    BY <1>3
  <2>3. games' = [i \in 1..n - 1 |-> games'[i]]
    BY <1>2, <1>4
  <2>4. games' \in [1..n - 1 -> Games \X Scanners]
    BY <2>1, <2>3
  <2> QED
    BY <2>2, <2>4, SeqDef
<1>9. \A k \in 1..n : games[k][1] = g <=> k = place
  BY <1>1, <1>3 DEF MapIsRight
<1>10. Adopted' = {d \in Adopted : d[1] # g}
  <2>1. Adopted' = {games[old(i)] : i \in 1..n - 1}
    BY <1>4 DEF Adopted
  <2>2. Adopted = {games[k] : k \in 1..n}
    BY <1>3 DEF Adopted
  <2>3. \A i \in 1..n - 1 : games[old(i)] \in Adopted /\ games[old(i)][1] # g
    BY <1>5, <1>9, <2>2
  <2>4. \A d \in Adopted : d[1] # g => \E i \in 1..n - 1 : d = games[old(i)]
    BY <1>7, <1>9, <2>2
  <2> QED
    BY <2>1, <2>3, <2>4
<1>11. Pids' = Pids \ {g}
  <2>1. Pids' = {games[old(i)][1] : i \in 1..n - 1}
    BY <1>4 DEF Pids
  <2>2. Pids = {games[k][1] : k \in 1..n}
    BY <1>3 DEF Pids
  <2>3. \A i \in 1..n - 1 : games[old(i)][1] \in Pids /\ games[old(i)][1] # g
    BY <1>5, <1>9, <2>2
  <2>4. \A p \in Pids : p # g => \E i \in 1..n - 1 : p = games[old(i)][1]
    BY <1>7, <1>9, <2>2
  <2> QED
    BY <2>1, <2>3, <2>4
<1>12. \A i, j \in DOMAIN games' : games'[i][1] = games'[j][1] => i = j
  BY <1>3, <1>4, <1>5, <1>6 DEF MapIsRight
<1> QED
  BY <1>8, <1>10, <1>11, <1>12

----------------------------------------------------------------------------
(* The steps. *)

\* What is neither a scan nor a connection that opens, closes or is reported.
LEMMA AsideKeepsLinks ==
  ASSUME LinksInv,
         UNCHANGED <<clients, closing, scanVars, games, current, connected>>,
         process' \in [Games -> {"absent", "starting", "up", "suspended", "gone"}],
         slot' \in [Games -> {"nobody", "left"} \cup Scanners],
         \A g \in Games : slot'[g] \in Scanners => <<g, slot'[g]>> \in clients,
         play' \in [Plays -> [step : Steps, known : SUBSET Games, report : Games \cup {NoGame}]],
         ReportsAreNew'
  PROVE  LinksInv'
<1>1. LinksTyped'
  BY DEF LinksInv, LinksTyped, scanVars
<1>2. OneScan' /\ TriedAreNew'
  BY DEF LinksInv, OneScan, TriedAreNew, scanVars
<1>3. MapIsRight'
  BY DEF LinksInv, MapIsRight, Pids
<1>4. Tried' = Tried /\ Adopted' = Adopted
  BY DEF Tried, Adopted, scanVars
<1>5. ClientsAreOwned'
  BY <1>4 DEF LinksInv, ClientsAreOwned
<1> QED
  BY <1>1, <1>2, <1>3, <1>5 DEF LinksInv

\* A scan starts with nothing tried and no other scan under way.
LEMMA ScanStartKeepsLinks ==
  ASSUME LinksInv, NEW s \in Scanners, StartScan(s),
         play' \in [Plays -> [step : Steps, known : SUBSET Games, report : Games \cup {NoGame}]],
         ReportsAreNew'
  PROVE  LinksInv'
<1>1. /\ scanning' = TRUE /\ todo' = [todo EXCEPT ![s] = NewGameEndpoints] /\ at' = [at EXCEPT ![s] = "next"]
      /\ at[s] = "idle" /\ ~scanning
      /\ UNCHANGED <<process, slot, clients, closing, games, current, connected>>
  BY DEF StartScan, MayScan, gameVars, mapVars
<1>2. NewGameEndpoints \in SUBSET Games /\ NewGameEndpoints \cap connected = {}
  BY DEF NewGameEndpoints
<1>3. LinksTyped'
  BY <1>1, <1>2 DEF LinksInv, LinksTyped, Steps
<1>4. \A r \in Scanners : at[r] = "idle"
  BY <1>1 DEF LinksInv, OneScan
<1>5. OneScan'
  BY <1>1, <1>4 DEF LinksInv, LinksTyped, OneScan
<1>6. TriedAreNew'
  BY <1>1, <1>2, Names DEF LinksInv, LinksTyped, TriedAreNew
<1>7. MapIsRight'
  BY <1>1 DEF LinksInv, MapIsRight, Pids
<1>8. Tried' = Tried /\ Adopted' = Adopted
  <2>1. \A r \in Scanners : at'[r] \in Games <=> at[r] \in Games
    BY <1>1, Names DEF LinksInv, LinksTyped
  <2>2. \A r \in Scanners : at[r] \in Games => at'[r] = at[r]
    BY <1>1, Names DEF LinksInv, LinksTyped
  <2> QED
    BY <1>1, <2>1, <2>2 DEF Tried, Adopted
<1>9. ClientsAreOwned'
  BY <1>1, <1>8 DEF LinksInv, ClientsAreOwned
<1> QED
  BY <1>3, <1>5, <1>6, <1>7, <1>9 DEF LinksInv

\* While a scan is between two attempts, every client is an adopted one.
LEMMA NoneTried ==
  ASSUME LinksInv, NEW s \in Scanners, at[s] = "next"
  PROVE  Tried = {} /\ clients \subseteq Adopted /\ \A r \in Scanners : r # s => at[r] = "idle"
<1>1. \A r \in Scanners : r # s => at[r] = "idle"
  BY DEF LinksInv, OneScan
<1>2. \A r \in Scanners : at[r] \notin Games
  BY <1>1, Names
<1>3. Tried = {}
  BY <1>2 DEF Tried
<1> QED
  BY <1>1, <1>3 DEF LinksInv, ClientsAreOwned

\* A scan that is at a game is the only one, and has the only client of it.
LEMMA OneTried ==
  ASSUME LinksInv, NEW s \in Scanners, at[s] \in Games
  PROVE  /\ Tried = {<<at[s], s>>} /\ at[s] \notin Pids
         /\ \A r \in Scanners : r # s => at[r] = "idle"
         /\ \A c \in Adopted : c[1] # at[s]
         /\ \A c \in clients : c[1] = at[s] => c = <<at[s], s>>
         /\ clients \subseteq Adopted \cup {<<at[s], s>>}
<1>1. \A r \in Scanners : r # s => at[r] = "idle"
  BY Names DEF LinksInv, OneScan
<1>2. Tried = {<<at[s], s>>}
  BY <1>1, Names DEF Tried
<1>3. at[s] \notin Pids
  BY DEF LinksInv, TriedAreNew, MapIsRight
<1>4. \A c \in Adopted : c[1] # at[s]
  BY <1>3, MapFacts DEF LinksInv
<1>5. clients \subseteq Adopted \cup {<<at[s], s>>}
  BY <1>2 DEF LinksInv, ClientsAreOwned
<1> QED
  BY <1>1, <1>2, <1>3, <1>4, <1>5

\* An attempt opens a client of a game that has none.
LEMMA TryKeepsLinks ==
  ASSUME LinksInv, NEW s \in Scanners, TryConnect(s)
  PROVE  LinksInv'
<1>1. PICK g \in todo[s] :
        /\ todo' = [todo EXCEPT ![s] = @ \ {g}]
        /\ IF process[g] \in {"up", "suspended"}
           THEN clients' = clients \cup {<<g, s>>} /\ at' = [at EXCEPT ![s] = g] /\ UNCHANGED mapVars
           ELSE BackOff(g) /\ UNCHANGED <<clients, at>>
  BY DEF TryConnect
<1>2. /\ at[s] = "next"
      /\ UNCHANGED <<process, slot, closing, scanning, games, current, connected, play>>
  BY <1>1 DEF TryConnect, gameVars, mapVars, BackOff
<1>3. \/ clients' = clients /\ at' = at
      \/ clients' = clients \cup {<<g, s>>} /\ at' = [at EXCEPT ![s] = g]
  <2>1. CASE process[g] \in {"up", "suspended"}
    BY <1>1, <2>1
  <2>2. CASE process[g] \notin {"up", "suspended"}
    <3>1. UNCHANGED <<clients, at>>
      BY <1>1, <2>2
    <3> QED
      BY <3>1
  <2> QED
    BY <2>1, <2>2
<1>4. g \in Games /\ g \notin connected /\ g \notin Pids
  <2>1. g \in Games
    BY DEF LinksInv, LinksTyped
  <2>2. g \notin connected
    BY DEF LinksInv, TriedAreNew
  <2> QED
    BY <2>1, <2>2 DEF LinksInv, MapIsRight
<1>5. clients \subseteq Adopted /\ \A r \in Scanners : r # s => at[r] = "idle"
  BY <1>2, NoneTried
<1>6. LinksTyped'
  BY <1>1, <1>2, <1>3, <1>4 DEF LinksInv, LinksTyped
<1>7. OneScan'
  <2>1. \A r \in Scanners : r # s => at'[r] = "idle"
    BY <1>3, <1>5 DEF LinksInv, LinksTyped
  <2>2. \A r \in Scanners : r # s => todo'[r] = todo[r]
    BY <1>1 DEF LinksInv, LinksTyped
  <2>3. at'[s] # "idle"
    BY <1>2, <1>3, <1>4, Names DEF LinksInv, LinksTyped
  <2> QED
    BY <1>2, <1>5, <2>1, <2>2, <2>3 DEF LinksInv, OneScan
<1>8. TriedAreNew'
  BY <1>1, <1>2, <1>3, <1>4, Names DEF LinksInv, LinksTyped, TriedAreNew
<1>9. MapIsRight' /\ ReportsAreNew' /\ Adopted' = Adopted
  BY <1>2 DEF LinksInv, MapIsRight, ReportsAreNew, Pids, Adopted
<1>10. ClientsAreOwned'
  <2>1. CASE clients' = clients /\ at' = at
    BY <1>2, <1>9, <2>1 DEF LinksInv, ClientsAreOwned, Tried
  <2>2. CASE clients' = clients \cup {<<g, s>>} /\ at' = [at EXCEPT ![s] = g]
    <3>1. \A c \in Adopted : c[1] # g
      BY <1>4, MapFacts DEF LinksInv
    <3>2. at'[s] = g
      BY <2>2 DEF LinksInv, LinksTyped
    <3>3. <<g, s>> \in Tried'
      BY <1>4, <3>2 DEF Tried
    <3>4. <<g, s>> \notin Adopted
      BY <3>1
    <3>5. \A c \in clients : c[1] # g
      BY <1>5, <3>1
    <3>6. \A c, d \in clients' : c[1] = d[1] => c = d
      BY <2>2, <3>5 DEF LinksInv, ClientsAreOwned
    <3> QED
      BY <1>2, <1>5, <1>9, <2>2, <3>3, <3>4, <3>6 DEF LinksInv, ClientsAreOwned
  <2> QED
    BY <1>3, <2>1, <2>2
<1> QED
  BY <1>6, <1>7, <1>8, <1>9, <1>10 DEF LinksInv

\* An attempt that ends without a game gives its place back.
LEMMA ForsakeKeepsLinks ==
  ASSUME LinksInv, NEW s \in Scanners, at[s] \in Games, CloseClient(<<at[s], s>>),
         at' = [at EXCEPT ![s] = "next"],
         UNCHANGED <<closing, scanning, todo, games, current, connected, play>>
  PROVE  LinksInv'
<1> DEFINE g == at[s]
           c == <<g, s>>
<1>1. /\ clients' = clients \ {c} /\ slot' = [slot EXCEPT ![g] = IF @ = s THEN "left" ELSE @]
      /\ UNCHANGED process
  BY DEF CloseClient
<1>2. /\ Tried = {c} /\ g \notin Pids
      /\ \A r \in Scanners : r # s => at[r] = "idle"
      /\ c \notin Adopted
      /\ clients \subseteq Adopted \cup {c}
  BY OneTried
<1>3. at'[s] = "next" /\ \A r \in Scanners : r # s => at'[r] = "idle"
  BY <1>2 DEF LinksInv, LinksTyped
<1>4. LinksTyped'
  BY <1>1 DEF LinksInv, LinksTyped
<1>5. OneScan'
  BY <1>3, Names DEF LinksInv, OneScan
<1>6. TriedAreNew'
  BY <1>3, Names DEF LinksInv, TriedAreNew
<1>7. MapIsRight' /\ ReportsAreNew' /\ Adopted' = Adopted
  BY DEF LinksInv, MapIsRight, ReportsAreNew, Pids, Adopted
<1>8. \A h \in Games : slot'[h] \in Scanners => <<h, slot'[h]>> \in clients'
  <2> SUFFICES ASSUME NEW h \in Games, slot'[h] \in Scanners PROVE <<h, slot'[h]>> \in clients'
    OBVIOUS
  <2>1. slot'[h] = slot[h] /\ (h = g => slot[h] # s)
    BY <1>1, Names DEF LinksInv, LinksTyped
  <2>2. <<h, slot[h]>> \in clients
    BY <2>1 DEF LinksInv, ClientsAreOwned
  <2> QED
    BY <1>1, <2>1, <2>2
<1>9. ClientsAreOwned'
  BY <1>1, <1>2, <1>7, <1>8 DEF LinksInv, ClientsAreOwned
<1> QED
  BY <1>4, <1>5, <1>6, <1>7, <1>9 DEF LinksInv

\* An attempt that succeeds leaves its client with the map.
LEMMA AdoptKeepsLinks ==
  ASSUME LinksInv, NEW s \in Scanners, at[s] \in Games, slot[at[s]] = s, Adopt(at[s], s),
         at' = [at EXCEPT ![s] = "next"],
         UNCHANGED <<clients, process, slot, closing, scanning, todo, play>>
  PROVE  LinksInv'
<1> DEFINE g == at[s]
           c == <<g, s>>
<1>1. games' = Entered(c) /\ current' = g /\ connected' = connected \cup {g}
  BY DEF Adopt
<1>2. /\ Tried = {c} /\ g \notin Pids
      /\ \A r \in Scanners : r # s => at[r] = "idle"
      /\ clients \subseteq Adopted \cup {c}
  BY OneTried
<1>3. at'[s] = "next" /\ \A r \in Scanners : r # s => at'[r] = "idle"
  BY <1>2 DEF LinksInv, LinksTyped
<1>4. /\ games' \in Seq(Games \X Scanners)
      /\ Adopted' = Adopted \cup {c} /\ Pids' = Pids \cup {g}
      /\ \A i, j \in DOMAIN games' : games'[i][1] = games'[j][1] => i = j
  BY <1>1, <1>2, EnteredFacts DEF LinksInv
<1>5. LinksTyped'
  BY <1>4 DEF LinksInv, LinksTyped
<1>6. OneScan'
  BY <1>3, Names DEF LinksInv, OneScan
<1>7. TriedAreNew'
  <2>1. g \notin todo[s] /\ \A r \in Scanners : r # s => todo[r] = {}
    BY <1>2 DEF LinksInv, TriedAreNew, OneScan
  <2> QED
    BY <1>1, <1>3, <2>1, Names DEF LinksInv, TriedAreNew
<1>8. MapIsRight' /\ ReportsAreNew'
  BY <1>1, <1>4 DEF LinksInv, MapIsRight, ReportsAreNew
<1>9. c \in clients
  BY DEF LinksInv, ClientsAreOwned
<1>10. c \notin closing
  BY <1>9 DEF LinksInv, ClientsAreOwned
<1>11. ClientsAreOwned'
  BY <1>2, <1>4, <1>9 DEF LinksInv, ClientsAreOwned
<1> QED
  BY <1>5, <1>6, <1>7, <1>8, <1>11 DEF LinksInv

\* A hello either adopts the client of the attempt or forsakes it.
LEMMA HelloKeepsLinks ==
  ASSUME LinksInv, KindTyped, NEW s \in Scanners, GameHello(s) \/ GameHelloTimeout(s)
  PROVE  LinksInv'
<1>1. /\ at[s] \in Games /\ at' = [at EXCEPT ![s] = "next"]
      /\ UNCHANGED <<closing, scanning, todo, play>>
  BY DEF GameHello, GameHelloTimeout
<1>2. \/ slot[at[s]] = s /\ Adopt(at[s], s) /\ UNCHANGED <<clients, process, slot>>
      \/ CloseClient(<<at[s], s>>) /\ UNCHANGED <<games, current, connected>>
  <2>1. CASE GameHello(s)
    <3>1. kind[at[s]] \in {"ours", "foreign", "old"}
      BY <1>1 DEF KindTyped
    <3>2. CASE kind[at[s]] = "ours"
      BY <2>1, <3>2 DEF GameHello, gameVars
    <3>3. CASE kind[at[s]] = "foreign"
      BY <2>1, <3>3 DEF GameHello, mapVars
    <3>4. CASE kind[at[s]] = "old"
      BY <2>1, <3>4 DEF GameHello, BackOff
    <3> QED
      BY <3>1, <3>2, <3>3, <3>4
  <2>2. CASE GameHelloTimeout(s)
    BY <2>2 DEF GameHelloTimeout, BackOff
  <2> QED
    BY <2>1, <2>2
<1> QED
  BY <1>1, <1>2, AdoptKeepsLinks, ForsakeKeepsLinks

\* A scan that ends leaves no client behind it.
LEMMA ScanEndKeepsLinks ==
  ASSUME LinksInv, NEW s \in Scanners, ScanEnds(s)
  PROVE  LinksInv'
<1>1. /\ at[s] = "next" /\ todo[s] = {} /\ at' = [at EXCEPT ![s] = "idle"] /\ scanning' = FALSE
      /\ UNCHANGED <<process, slot, clients, closing, todo, games, current, connected, play>>
  BY DEF ScanEnds, gameVars, mapVars
<1>2. clients \subseteq Adopted /\ Tried = {} /\ \A r \in Scanners : r # s => at[r] = "idle"
  BY <1>1, NoneTried
<1>3. \A r \in Scanners : at'[r] = "idle"
  BY <1>1, <1>2 DEF LinksInv, LinksTyped, Steps
<1>4. LinksTyped'
  BY <1>1 DEF LinksInv, LinksTyped
<1>5. OneScan' /\ TriedAreNew'
  BY <1>1, <1>3, Names DEF LinksInv, OneScan, TriedAreNew
<1>6. MapIsRight' /\ ReportsAreNew' /\ Adopted' = Adopted
  BY <1>1 DEF LinksInv, MapIsRight, ReportsAreNew, Pids, Adopted
<1>7. ClientsAreOwned'
  BY <1>1, <1>2, <1>6 DEF LinksInv, ClientsAreOwned
<1> QED
  BY <1>4, <1>5, <1>6, <1>7 DEF LinksInv

\* A client that is dropped is reported as closed: it was an adopted one.
LEMMA SilentKeepsLinks ==
  ASSUME LinksInv, NEW c \in clients, GameSilent(c)
  PROVE  LinksInv'
<1>1. /\ c[1] \in Pids /\ at[c[2]] # c[1]
      /\ clients' = clients \ {c} /\ slot' = [slot EXCEPT ![c[1]] = IF @ = c[2] THEN "left" ELSE @]
      /\ closing' = closing \cup {c}
      /\ UNCHANGED <<process, scanning, todo, at, games, current, connected, play>>
  BY DEF GameSilent, CloseClient, scanVars, mapVars
<1>2. c \in Games \X Scanners
  BY DEF LinksInv, LinksTyped
<1>3. c \in Adopted
  BY <1>1, <1>2 DEF LinksInv, ClientsAreOwned, Tried
<1>4. LinksTyped'
  BY <1>1, <1>2 DEF LinksInv, LinksTyped
<1>5. OneScan' /\ TriedAreNew' /\ MapIsRight' /\ ReportsAreNew' /\ Adopted' = Adopted /\ Tried' = Tried
  BY <1>1 DEF LinksInv, OneScan, TriedAreNew, MapIsRight, ReportsAreNew, Pids, Adopted, Tried
<1>6. \A h \in Games : slot'[h] \in Scanners => <<h, slot'[h]>> \in clients'
  <2> SUFFICES ASSUME NEW h \in Games, slot'[h] \in Scanners PROVE <<h, slot'[h]>> \in clients'
    OBVIOUS
  <2>1. slot'[h] = slot[h] /\ (h = c[1] => slot[h] # c[2])
    BY <1>1, <1>2, Names DEF LinksInv, LinksTyped
  <2>2. <<h, slot[h]>> \in clients
    BY <2>1 DEF LinksInv, ClientsAreOwned
  <2>3. <<h, slot[h]>> # c
    BY <2>1
  <2> QED
    BY <1>1, <2>1, <2>2, <2>3
<1>7. ClientsAreOwned'
  BY <1>1, <1>3, <1>5, <1>6 DEF LinksInv, ClientsAreOwned
<1> QED
  BY <1>4, <1>5, <1>7 DEF LinksInv

\* A close that is reported deletes the entry it belongs to.
LEMMA CloseKeepsLinks ==
  ASSUME LinksInv, NEW c \in closing, HandleGameClose(c)
  PROVE  LinksInv'
<1> DEFINE g == c[1]
<1>1. /\ closing' = closing \ {c} /\ games' = Deleted(g) /\ connected' = connected \ {g}
      /\ current' = IF current = g THEN NoGame ELSE current
      /\ UNCHANGED <<process, slot, clients, scanning, todo, at, play>>
  BY DEF HandleGameClose, gameVars, scanVars
<1>2. c \in Adopted /\ g \in Pids
  BY MapFacts DEF LinksInv, ClientsAreOwned
<1>3. /\ games' \in Seq(Games \X Scanners)
      /\ Adopted' = {d \in Adopted : d[1] # g} /\ Pids' = Pids \ {g}
      /\ \A i, j \in DOMAIN games' : games'[i][1] = games'[j][1] => i = j
  BY <1>1, <1>2, DeletedFacts DEF LinksInv
<1>4. \A d \in Adopted : d[1] = g => d = c
  BY <1>2, OneEntry DEF LinksInv
<1>5. LinksTyped'
  BY <1>1, <1>3 DEF LinksInv, LinksTyped
<1>6. OneScan' /\ TriedAreNew' /\ ReportsAreNew'
  BY <1>1 DEF LinksInv, OneScan, TriedAreNew, ReportsAreNew
<1>7. MapIsRight'
  BY <1>1, <1>3 DEF LinksInv, MapIsRight
<1>8. Tried' = Tried
  BY <1>1 DEF Tried
<1>9. Adopted' = Adopted \ {c}
  BY <1>3, <1>4
<1>10. ClientsAreOwned'
  BY <1>1, <1>8, <1>9 DEF LinksInv, ClientsAreOwned
<1> QED
  BY <1>5, <1>6, <1>7, <1>10 DEF LinksInv

\* A game that dies cuts its client: an adopted one is reported as closed, the
\* one of an attempt ends with the attempt.
LEMMA DeathKeepsLinks ==
  ASSUME LinksInv, NEW g \in Games, GameDies(g)
  PROVE  LinksInv'
<1> DEFINE cut == {c \in clients : c[1] = g}
<1>1. /\ process' = [process EXCEPT ![g] = "gone"] /\ slot' = [slot EXCEPT ![g] = "nobody"]
      /\ clients' = clients \ cut /\ closing' = closing \cup {c \in cut : at[c[2]] # g}
      /\ UNCHANGED <<scanning, todo, at, games, current, connected, play>>
  BY DEF GameDies, scanVars, mapVars
<1>2. LinksTyped'
  BY <1>1 DEF LinksInv, LinksTyped
<1>3. OneScan' /\ TriedAreNew' /\ MapIsRight' /\ ReportsAreNew' /\ Adopted' = Adopted /\ Tried' = Tried
  BY <1>1 DEF LinksInv, OneScan, TriedAreNew, MapIsRight, ReportsAreNew, Pids, Adopted, Tried
<1>4. \A c \in clients : c \in Games \X Scanners
  BY DEF LinksInv, LinksTyped
<1>5. \A c \in cut : at[c[2]] # g => c \in Adopted
  BY <1>4 DEF LinksInv, ClientsAreOwned, Tried
<1>6. \A c \in cut : c \in Adopted => at[c[2]] # g
  <2> SUFFICES ASSUME NEW c \in cut, c \in Adopted, at[c[2]] = g PROVE FALSE
    OBVIOUS
  <2>1. c[2] \in Scanners /\ c[1] = g
    BY <1>4
  <2> QED
    BY <2>1, OneTried
<1>7. \A h \in Games : slot'[h] \in Scanners => <<h, slot'[h]>> \in clients'
  <2> SUFFICES ASSUME NEW h \in Games, slot'[h] \in Scanners PROVE <<h, slot'[h]>> \in clients'
    OBVIOUS
  <2>1. slot'[h] = slot[h] /\ h # g
    BY <1>1, Names DEF LinksInv, LinksTyped
  <2>2. <<h, slot[h]>> \in clients
    BY <2>1 DEF LinksInv, ClientsAreOwned
  <2> QED
    BY <1>1, <2>1, <2>2
<1>8. ClientsAreOwned'
  BY <1>1, <1>3, <1>5, <1>6, <1>7 DEF LinksInv, ClientsAreOwned
<1> QED
  BY <1>2, <1>3, <1>8 DEF LinksInv

----------------------------------------------------------------------------
(* The invariant, and what it says of the games. *)

\* No game is known and none is scanned for at first.
LEMMA InitLinks == GamesInit => LinksInv /\ KindTyped
<1> SUFFICES ASSUME GamesInit PROVE LinksInv /\ KindTyped
  OBVIOUS
<1>1. /\ process = [g \in Games |-> "absent"] /\ slot = [g \in Games |-> "nobody"]
      /\ clients = {} /\ closing = {} /\ scanning = FALSE
      /\ todo = [s \in Scanners |-> {}] /\ at = [s \in Scanners |-> "idle"]
      /\ games = <<>> /\ current = NoGame /\ connected = {}
      /\ play = [p \in Plays |-> NotPlayed]
  BY DEF GamesInit
<1>2. LinksTyped
  BY <1>1 DEF LinksTyped, NotPlayed, Steps
<1>3. OneScan /\ TriedAreNew
  BY <1>1, Names DEF OneScan, TriedAreNew
<1>4. Adopted = {} /\ Pids = {} /\ MapIsRight
  BY <1>1 DEF Adopted, Pids, MapIsRight
<1>5. ClientsAreOwned
  BY <1>1, <1>4, Names DEF ClientsAreOwned
<1>6. ReportsAreNew
  BY <1>1 DEF ReportsAreNew, NotPlayed
<1> QED
  BY <1>2, <1>3, <1>4, <1>5, <1>6 DEF GamesInit, LinksInv, KindTyped

\* The first new game of the map is one that the play did not know.
LEMMA LooksKeepsLinks ==
  ASSUME LinksInv, NEW p \in Plays, PlayLooks(p)
  PROVE  LinksInv'
<1> DEFINE new == {i \in DOMAIN games : games[i][1] \notin play[p].known}
           first == CHOOSE i \in new : \A k \in new : i <= k
<1>1. /\ UNCHANGED <<process, slot, clients, closing, scanning, todo, at, games, current, connected>>
      /\ \/ new = {} /\ play' = [play EXCEPT ![p].step = "looping"]
         \/ new # {} /\ play' = [play EXCEPT ![p].step = "done", ![p].report = games[first][1]]
  BY DEF PlayLooks, Goes, Reports, gameVars, scanVars, mapVars
<1>2. new # {} => games[first][1] \in Games /\ games[first][1] \notin play[p].known
  <2> SUFFICES ASSUME new # {} PROVE games[first][1] \in Games /\ games[first][1] \notin play[p].known
    OBVIOUS
  <2>1. new \in SUBSET Nat
    BY MapFacts DEF LinksInv
  <2>2. \E i \in new : \A k \in new : i <= k
    BY <2>1, LeastOf
  <2>3. first \in new
    BY <2>2
  <2> QED
    BY <2>3, MapFacts DEF LinksInv
<1> DEFINE T == [step : Steps, known : SUBSET Games, report : Games \cup {NoGame}]
           told == games[first][1]
<1>3. play \in [Plays -> T] /\ \A q \in Plays : play[q].report \notin play[q].known
  BY DEF LinksInv, LinksTyped, ReportsAreNew
<1> HIDE DEF new, first, told
<1>4. play' \in [Plays -> T] /\ \A q \in Plays : play'[q].report \notin play'[q].known
  <2>1. CASE new = {} /\ play' = [play EXCEPT ![p].step = "looping"]
    BY <1>3, <2>1 DEF Steps
  <2>2. CASE new # {} /\ play' = [play EXCEPT ![p].step = "done", ![p].report = told]
    <3>1. told \in Games /\ told \notin play[p].known
      BY <1>2, <2>2 DEF told
    <3>2. play'[p] = [play[p] EXCEPT !.step = "done", !.report = told]
      BY <1>3, <2>2
    <3>3. play'[p] \in T /\ play'[p].report = told /\ play'[p].known = play[p].known
      <4>1. play[p] \in T
        BY <1>3
      <4>2. play'[p] = [step |-> "done", known |-> play[p].known, report |-> told]
        BY <3>2, <4>1
      <4> QED
        BY <3>1, <4>1, <4>2 DEF Steps
    <3>4. DOMAIN play' = Plays /\ play' = [play EXCEPT ![p] = play'[p]]
      BY <1>3, <2>2
    <3> QED
      BY <1>3, <3>1, <3>3, <3>4
  <2> QED
    BY <1>1, <2>1, <2>2 DEF told
<1>5. UNCHANGED scanVars
  BY <1>1 DEF scanVars
<1> QED
  BY <1>1, <1>4, <1>5, AsideKeepsLinks DEF LinksInv, LinksTyped, ClientsAreOwned, ReportsAreNew

\* The other steps of a play.
LEMMA PlayKeepsLinks ==
  ASSUME LinksInv, NEW p \in Plays, PlayStart(p) \/ PlayAnswered(p) \/ PlayScans(p) \/ PlayTimesOut(p)
  PROVE  LinksInv'
<1> DEFINE T == [step : Steps, known : SUBSET Games, report : Games \cup {NoGame}]
<1>0. play \in [Plays -> T]
  BY DEF LinksInv, LinksTyped
<1>1. ASSUME NEW step \in Steps, Goes(p, step) PROVE play' \in [Plays -> T] /\ ReportsAreNew'
  BY <1>0, <1>1 DEF Goes, LinksInv, ReportsAreNew
<1>2. CASE PlayStart(p)
  <2>1. Pids \in SUBSET Games
    BY MapFacts DEF LinksInv
  <2>2. play' = [play EXCEPT ![p] = [step |-> "asking", known |-> Pids, report |-> NoGame]]
    BY <1>2 DEF PlayStart
  <2>3. play' \in [Plays -> T]
    BY <1>0, <2>1, <2>2 DEF Steps
  <2>4. ReportsAreNew'
    BY <1>0, <2>1, <2>2, Names DEF LinksInv, ReportsAreNew
  <2> QED
    BY <1>2, <2>3, <2>4, AsideKeepsLinks DEF PlayStart, gameVars, mapVars, LinksInv, LinksTyped, ClientsAreOwned
<1>3. CASE PlayAnswered(p)
  <2>1. play' \in [Plays -> T] /\ ReportsAreNew'
    BY <1>1, <1>3 DEF PlayAnswered, Steps
  <2>2. process' \in [Games -> {"absent", "starting", "up", "suspended", "gone"}]
    BY <1>3 DEF PlayAnswered, LinksInv, LinksTyped
  <2> QED
    BY <1>3, <2>1, <2>2, AsideKeepsLinks DEF PlayAnswered, mapVars, LinksInv, LinksTyped, ClientsAreOwned
<1>4. CASE PlayScans(p)
  BY <1>1, <1>4, ScanStartKeepsLinks DEF PlayScans, Steps, Scanners
<1>5. CASE PlayTimesOut(p)
  <2>1. play' \in [Plays -> T] /\ ReportsAreNew'
    BY <1>1, <1>5 DEF PlayTimesOut, Steps
  <2> QED
    BY <1>5, <2>1, AsideKeepsLinks DEF PlayTimesOut, gameVars, mapVars, LinksInv, LinksTyped, ClientsAreOwned
<1> QED
  BY <1>2, <1>3, <1>4, <1>5

\* The other steps of a game.
LEMMA GameKeepsLinks ==
  ASSUME LinksInv, NEW g \in Games,
         \/ RetryDue(g) \/ HumanRuns(g) \/ GameBinds(g) \/ Suspend(g) \/ Resume(g)
         \/ GameServes(g) \/ GameReadsEof(g)
  PROVE  LinksInv'
<1>1. UNCHANGED <<clients, closing, scanVars, games, current, connected, play>>
  BY DEF RetryDue, HumanRuns, GameBinds, Suspend, Resume, GameServes, GameReadsEof, SlotGoes, mapVars
<1>2. process' \in [Games -> {"absent", "starting", "up", "suspended", "gone"}]
  BY DEF RetryDue, HumanRuns, GameBinds, Suspend, Resume, GameServes, GameReadsEof, SlotGoes, gameVars, LinksInv, LinksTyped
<1>3. \/ UNCHANGED slot
      \/ slot' = [slot EXCEPT ![g] = "nobody"]
      \/ \E s \in Scanners : <<g, s>> \in clients /\ slot' = [slot EXCEPT ![g] = s]
  BY DEF RetryDue, HumanRuns, GameBinds, Suspend, Resume, GameServes, GameReadsEof, SlotGoes, gameVars
<1>4. /\ slot' \in [Games -> {"nobody", "left"} \cup Scanners]
      /\ \A h \in Games : slot'[h] \in Scanners => <<h, slot'[h]>> \in clients
  <2>1. /\ slot \in [Games -> {"nobody", "left"} \cup Scanners]
        /\ \A h \in Games : slot[h] \in Scanners => <<h, slot[h]>> \in clients
    BY DEF LinksInv, LinksTyped, ClientsAreOwned
  <2> QED
    BY <1>3, <2>1, Names
<1>5. /\ play' \in [Plays -> [step : Steps, known : SUBSET Games, report : Games \cup {NoGame}]]
      /\ ReportsAreNew'
  BY <1>1 DEF LinksInv, LinksTyped, ReportsAreNew
<1> QED
  BY <1>1, <1>2, <1>4, <1>5, AsideKeepsLinks

\* The invariant speaks of the component's variables only.
LEMMA StutterKeepsLinks == LinksInv /\ UNCHANGED linksVars => LinksInv'
<1> SUFFICES ASSUME LinksInv, UNCHANGED linksVars PROVE LinksInv'
  OBVIOUS
<1>1. /\ UNCHANGED <<clients, closing, scanVars, games, current, connected, play, process, slot>>
  BY DEF linksVars, gameVars, mapVars
<1> QED
  BY <1>1, AsideKeepsLinks DEF LinksInv, LinksTyped, ClientsAreOwned, ReportsAreNew

\* What a game is of does not change.
LEMMA KindStays == [GamesNext]_linksVars => UNCHANGED kind
<1>1. \A s \in Scanners : StartScan(s) => UNCHANGED kind
  BY DEF StartScan
<1>2. \A s \in Scanners : Scan(s) => UNCHANGED kind
  BY DEF Scan, TryConnect, GameHello, GameHelloTimeout, ScanEnds
<1>3. \A p \in Plays : PlayStart(p) \/ Waits(p) \/ PlayTimesOut(p) => UNCHANGED kind
  BY <1>1 DEF PlayStart, Waits, PlayTimesOut, PlayAnswered, PlayScans, PlayLooks, Scanners
<1>4. \A c : GameSilent(c) \/ HandleGameClose(c) => UNCHANGED kind
  BY DEF GameSilent, HandleGameClose
<1>5. \A g \in Games : \/ RetryDue(g) \/ HumanRuns(g) \/ GameBinds(g) \/ GameDies(g) \/ Suspend(g) \/ Resume(g)
                      \/ GameServes(g) \/ GameReadsEof(g) => UNCHANGED kind
  BY DEF RetryDue, HumanRuns, GameBinds, GameDies, Suspend, Resume, GameServes, GameReadsEof, SlotGoes
<1>6. DiscoveryTick => UNCHANGED kind
  BY <1>1 DEF DiscoveryTick, Scanners
<1> QED
  BY <1>2, <1>3, <1>4, <1>5, <1>6 DEF GamesNext, linksVars

\* Every step of the component keeps the invariant.
LEMMA NextKeepsLinks == LinksInv /\ KindTyped /\ [GamesNext]_linksVars => LinksInv' /\ KindTyped'
<1> SUFFICES ASSUME LinksInv, KindTyped, [GamesNext]_linksVars PROVE LinksInv'
  BY KindStays DEF KindTyped
<1>1. CASE DiscoveryTick
  <2>1. "loop" \in Scanners /\ StartScan("loop") /\ UNCHANGED play
    BY <1>1 DEF DiscoveryTick, Scanners
  <2> QED
    BY <2>1, ScanStartKeepsLinks DEF LinksInv, LinksTyped, ReportsAreNew
<1>2. ASSUME NEW s \in Scanners, Scan(s) PROVE LinksInv'
  BY <1>2, TryKeepsLinks, HelloKeepsLinks, ScanEndKeepsLinks DEF Scan
<1>3. ASSUME NEW c \in clients, GameSilent(c) PROVE LinksInv'
  BY <1>3, SilentKeepsLinks
<1>4. ASSUME NEW c \in closing, HandleGameClose(c) PROVE LinksInv'
  BY <1>4, CloseKeepsLinks
<1>5. ASSUME NEW p \in Plays, PlayStart(p) \/ Waits(p) \/ PlayTimesOut(p) PROVE LinksInv'
  BY <1>5, PlayKeepsLinks, LooksKeepsLinks DEF Waits
<1>6. ASSUME NEW g \in Games, \/ RetryDue(g) \/ HumanRuns(g) \/ GameBinds(g) \/ GameDies(g) \/ Suspend(g) \/ Resume(g)
                              \/ GameServes(g) \/ GameReadsEof(g)
      PROVE  LinksInv'
  BY <1>6, GameKeepsLinks, DeathKeepsLinks
<1>7. CASE UNCHANGED linksVars
  BY <1>7, StutterKeepsLinks
<1> QED
  BY <1>1, <1>2, <1>3, <1>4, <1>5, <1>6, <1>7 DEF GamesNext

\* A map with one entry for a key has as many entries as keys.
LEMMA AsManyAsKeys ==
  ASSUME LinksTyped, MapIsRight
  PROVE  Len(games) = Cardinality(Pids)
<1> DEFINE n == Len(games)
           f == [i \in 1..n |-> games[i][1]]
<1>1. n \in Nat /\ DOMAIN games = 1..n
  BY MapFacts
<1>2. f \in Bijection(1..n, Pids)
  <2>1. \A i \in 1..n : f[i] \in Pids
    BY <1>1 DEF Pids
  <2>2. f \in [1..n -> Pids]
    BY <2>1
  <2>3. \A i, j \in 1..n : f[i] = f[j] => i = j
    BY <1>1 DEF MapIsRight
  <2>4. \A p \in Pids : \E i \in 1..n : f[i] = p
    BY <1>1 DEF Pids
  <2> QED
    BY <2>2, <2>3, <2>4 DEF Bijection, Injection, Surjection, IsInjective
<1>3. ExistsBijection(1..n, Pids)
  BY <1>2 DEF ExistsBijection
<1> QED
  BY <1>1, <1>3, FS_CountingElements

\* Whoever scans, a game never has two clients of this broker, every open
\* connection is an attempt's or an adopted game's, what the broker takes for
\* connected is or its close is on the way, and a play reports a game it did not
\* know (scanOnce, tryConnectGame, handleGameClose, gd_play).
THEOREM GamesStayTracked == GamesSpec => []GamesAreTracked
<1>1. LinksInv => GamesAreTracked
  <2> SUFFICES ASSUME LinksInv PROVE GamesAreTracked
    OBVIOUS
  <2>1. ASSUME NEW g \in Games PROVE Cardinality({c \in clients : c[1] = g}) <= 1
    <3> DEFINE C == {c \in clients : c[1] = g}
    <3>1. \A c, d \in C : c = d
      BY DEF LinksInv, ClientsAreOwned
    <3>2. CASE C = {}
      BY <3>2, FS_EmptySet
    <3>3. CASE C # {}
      <4>1. PICK c : C = {c}
        BY <3>1, <3>3
      <4>2. Cardinality({c}) = 1
        BY FS_Singleton
      <4> QED
        BY <4>1, <4>2
    <3> QED
      BY <3>2, <3>3
  <2>2. Len(games) = Cardinality(Pids)
    BY AsManyAsKeys DEF LinksInv
  <2> QED
    BY <2>1, <2>2 DEF GamesAreTracked, LinksInv, ClientsAreOwned, MapIsRight, ReportsAreNew
<1> QED
  BY <1>1, InitLinks, NextKeepsLinks, PTL DEF GamesSpec

-----------------------------------------------------------------------------
(* The editor link. *)

USE BrokersAssumption, MaxSocketsAssumption

\* The state the steps below read and write is well formed.
LinkTypes ==
  /\ socket \in [Sockets -> SocketRecords]
  /\ attempt \in [Brokers -> Attempts]
  /\ editor \in [Brokers -> Sockets \cup {NoSocket}]

\* What a broker knows of its connection: an attempt has a socket between its
\* connect and its end, and there is no attempt while an editor is attached.
Knowledge ==
  \A b \in Brokers :
    /\ attempt[b].phase = "hello" <=> attempt[b].socket # NoSocket
    /\ editor[b] # NoSocket => attempt[b].phase = "none"

\* The inductive invariant.
SlotInv == LinkTypes /\ Knowledge /\ NoSlotIsLeaked

\* Zero names no socket.
LEMMA NoSocketIsNone == NoSocket \notin Sockets
  BY DEF NoSocket, Sockets

\* No connection is known, and none is open, at the start.
LEMMA InitSlot == Init => SlotInv
<1> SUFFICES ASSUME Init PROVE SlotInv
  OBVIOUS
<1>1. LinkTypes
  BY DEF Init, LinkTypes, SocketRecords, Attempts, Free, NoAttempt
<1>2. Knowledge
  BY DEF Init, Knowledge, NoAttempt
<1>3. NoSlotIsLeaked
  BY DEF Init, NoSlotIsLeaked, Open, Held, Free, NoAttempt
<1> QED BY <1>1, <1>2, <1>3 DEF SlotInv

\* A broker that knows of no connection has none open.
LEMMA NothingHeld ==
  ASSUME SlotInv, NEW b \in Brokers, editor[b] = NoSocket, attempt[b].phase # "hello"
  PROVE  Open(b) = {}
  BY DEF SlotInv, Knowledge, NoSlotIsLeaked, Held

\* A closed socket is open for nobody, and the others are as they were.
LEMMA CloseFacts ==
  ASSUME SlotInv, NEW s \in Sockets, CloseSocket(s)
  PROVE  /\ socket' \in [Sockets -> SocketRecords]
         /\ \A c \in Brokers : Open(c)' = Open(c) \ {s}
<1>1. AfterClose(s) \in SocketRecords /\ AfterClose(s).at \in {"free", "left"}
  BY DEF SlotInv, LinkTypes, AfterClose, SocketRecords, Free
<1>2. socket' = [socket EXCEPT ![s] = AfterClose(s)]
  BY DEF CloseSocket
<1>3. socket' \in [Sockets -> SocketRecords]
  BY <1>1, <1>2 DEF SlotInv, LinkTypes
<1>4. socket'[s] = AfterClose(s) /\ \A t \in Sockets : t # s => socket'[t] = socket[t]
  BY <1>2 DEF SlotInv, LinkTypes
<1>5. ASSUME NEW c \in Brokers PROVE Open(c)' = Open(c) \ {s}
  BY <1>1, <1>4 DEF Open
<1> QED BY <1>3, <1>5

\* A socket belongs to one broker.
LEMMA OneOwner ==
  ASSUME SlotInv, NEW b \in Brokers, NEW c \in Brokers, b # c, NEW s \in Held(b)
  PROVE  s \notin Held(c)
<1>1. s \in Open(b)
  BY DEF SlotInv, NoSlotIsLeaked
<1>2. s \notin Open(c)
  BY <1>1 DEF Open
<1> QED BY <1>2 DEF SlotInv, NoSlotIsLeaked

\* An attempt begins only where nothing is held.
LEMMA BeginKeepsSlot ==
  ASSUME SlotInv, NEW b \in Brokers, NEW who \in {"loop", "call"}, MayAttempt(b), Begin(b, who),
         UNCHANGED <<editor, socket>>
  PROVE  SlotInv'
<1>1. attempt' = [attempt EXCEPT ![b] = [phase |-> "connect", socket |-> NoSocket, by |-> who]]
  BY DEF Begin
<1>2. LinkTypes'
  BY <1>1 DEF SlotInv, LinkTypes, Attempts
<1>3. Knowledge'
  BY <1>1 DEF SlotInv, LinkTypes, Knowledge, MayAttempt
<1>4. NoSlotIsLeaked'
  <2> SUFFICES ASSUME NEW c \in Brokers PROVE Open(c)' = Held(c)'
    BY DEF NoSlotIsLeaked
  <2>1. Open(c)' = Open(c)
    BY DEF Open
  <2>2. attempt'[c].socket = attempt[c].socket
    BY <1>1 DEF SlotInv, LinkTypes, Knowledge, MayAttempt
  <2> QED BY <2>1, <2>2 DEF SlotInv, NoSlotIsLeaked, Held
<1> QED BY <1>2, <1>3, <1>4 DEF SlotInv

\* The state of the slot depends on these variables only.
LEMMA FrameKeepsSlot ==
  ASSUME SlotInv, UNCHANGED <<socket, attempt, editor>>
  PROVE  SlotInv'
  BY DEF SlotInv, LinkTypes, Knowledge, NoSlotIsLeaked, Open, Held

\* An iteration of a waiting call begins an attempt or changes nothing of this.
LEMMA IterateKeepsSlot ==
  ASSUME SlotInv, NEW b \in Brokers, Iterate(b), UNCHANGED <<editor, socket>>
  PROVE  SlotInv'
<1>1. CASE UNCHANGED attempt
  BY <1>1, FrameKeepsSlot
<1>2. CASE MayAttempt(b) /\ Begin(b, "call")
  BY <1>2, BeginKeepsSlot
<1> QED BY <1>1, <1>2 DEF Iterate

\* The kernel accepts: one socket more, known to the attempt.
LEMMA AcceptKeepsSlot ==
  ASSUME SlotInv, NEW b \in Brokers, ConnectAccepted(b)
  PROVE  SlotInv'
<1>1. PICK s \in Sockets :
        /\ socket[s] = Free
        /\ socket' = [socket EXCEPT ![s] = [owner |-> b, at |-> "queued", hello |-> FALSE]]
        /\ attempt' = [attempt EXCEPT ![b].phase = "hello", ![b].socket = s]
  BY DEF ConnectAccepted
<1>2. UNCHANGED editor /\ attempt[b].phase = "connect"
  BY DEF ConnectAccepted
<1>3. attempt'[b].phase = "hello" /\ attempt'[b].socket = s /\ attempt'[b] \in Attempts
  BY <1>1 DEF SlotInv, LinkTypes, Attempts
<1>4. \A c \in Brokers \ {b} : attempt'[c] = attempt[c]
  BY <1>1 DEF SlotInv, LinkTypes
<1>5. LinkTypes'
  <2>1. attempt' \in [Brokers -> Attempts]
    <3>1. attempt \in [Brokers -> Attempts] /\ DOMAIN attempt' = Brokers
      BY <1>1 DEF SlotInv, LinkTypes
    <3>2. \A c \in Brokers : attempt'[c] \in Attempts
      BY <1>3, <1>4, <3>1
    <3>3. attempt' = [c \in Brokers |-> attempt'[c]]
      BY <1>1, <3>1
    <3> QED BY <3>2, <3>3
  <2>2. socket' \in [Sockets -> SocketRecords]
    <3>1. [owner |-> b, at |-> "queued", hello |-> FALSE] \in SocketRecords
      BY DEF SocketRecords
    <3> QED BY <1>1, <3>1 DEF SlotInv, LinkTypes
  <2> QED BY <1>2, <2>1, <2>2 DEF SlotInv, LinkTypes
<1>6. editor[b] = NoSocket
  BY <1>2 DEF SlotInv, Knowledge
<1>7. Knowledge'
  BY <1>2, <1>3, <1>4, <1>6, NoSocketIsNone DEF SlotInv, Knowledge
<1>8. Open(b) = {}
  BY <1>2, <1>6, NothingHeld
<1>9. NoSlotIsLeaked'
  <2> SUFFICES ASSUME NEW c \in Brokers PROVE Open(c)' = Held(c)'
    BY DEF NoSlotIsLeaked
  <2>1. socket'[s].owner = b /\ socket'[s].at = "queued" /\ \A t \in Sockets : t # s => socket'[t] = socket[t]
    BY <1>1 DEF SlotInv, LinkTypes
  <2>2. CASE c = b
    <3>1. Open(b)' = {s}
      BY <1>8, <2>1 DEF Open
    <3>2. Held(b)' = {s}
      BY <1>2, <1>3, <1>6, NoSocketIsNone DEF Held
    <3> QED BY <2>2, <3>1, <3>2
  <2>3. CASE c # b
    <3>1. socket[s].owner # c
      BY <1>1 DEF Free
    <3>2. Open(c)' = Open(c)
      BY <2>1, <2>3, <3>1 DEF Open
    <3> QED BY <1>2, <1>4, <2>3, <3>2 DEF SlotInv, NoSlotIsLeaked, Held
  <2> QED BY <2>2, <2>3
<1> QED BY <1>5, <1>7, <1>9 DEF SlotInv

\* An attempt without a socket ends.
LEMMA RefusedKeepsSlot ==
  ASSUME SlotInv, NEW b \in Brokers, ConnectRefused(b)
  PROVE  SlotInv'
<1>1. attempt' = [attempt EXCEPT ![b] = NoAttempt] /\ UNCHANGED <<editor, socket>>
  BY DEF ConnectRefused, Over, slotVars
<1>2. attempt[b].socket = NoSocket
  BY DEF SlotInv, Knowledge, ConnectRefused
<1>3. LinkTypes'
  BY <1>1 DEF SlotInv, LinkTypes, Attempts, NoAttempt
<1>4. Knowledge'
  BY <1>1 DEF SlotInv, LinkTypes, Knowledge, NoAttempt
<1>5. NoSlotIsLeaked'
  <2> SUFFICES ASSUME NEW c \in Brokers PROVE Open(c)' = Held(c)'
    BY DEF NoSlotIsLeaked
  <2>1. Open(c)' = Open(c)
    BY <1>1 DEF Open
  <2>2. attempt'[c].socket = attempt[c].socket
    BY <1>1, <1>2 DEF SlotInv, LinkTypes, NoAttempt
  <2> QED BY <1>1, <2>1, <2>2 DEF SlotInv, NoSlotIsLeaked, Held
<1> QED BY <1>3, <1>4, <1>5 DEF SlotInv

\* An attempt fails with its socket, or the attached client is closed.
LEMMA GiveBackKeepsSlot ==
  ASSUME SlotInv, NEW b \in Brokers, NEW s \in Sockets, Held(b) = {s}, CloseSocket(s),
         attempt' = [attempt EXCEPT ![b] = NoAttempt], editor' = [editor EXCEPT ![b] = NoSocket]
  PROVE  SlotInv'
<1>1. LinkTypes'
  BY CloseFacts DEF SlotInv, LinkTypes, Attempts, NoAttempt
<1>2. attempt'[b] = NoAttempt /\ editor'[b] = NoSocket
  BY DEF SlotInv, LinkTypes
<1>3. \A c \in Brokers \ {b} : attempt'[c] = attempt[c] /\ editor'[c] = editor[c]
  BY DEF SlotInv, LinkTypes
<1>4. Knowledge'
  BY <1>2, <1>3 DEF SlotInv, Knowledge, NoAttempt
<1>5. NoSlotIsLeaked'
  <2> SUFFICES ASSUME NEW c \in Brokers PROVE Open(c)' = Held(c)'
    BY DEF NoSlotIsLeaked
  <2>1. Open(c)' = Held(c) \ {s}
    BY CloseFacts DEF SlotInv, NoSlotIsLeaked
  <2>2. CASE c = b
    <3>1. Held(b)' = {}
      BY <1>2 DEF Held, NoAttempt
    <3> QED BY <2>1, <2>2, <3>1
  <2>3. CASE c # b
    <3>1. s \notin Held(c)
      BY <2>3, OneOwner
    <3>2. Held(c)' = Held(c)
      BY <1>3, <2>3 DEF Held
    <3> QED BY <2>1, <3>1, <3>2
  <2> QED BY <2>2, <2>3
<1> QED BY <1>1, <1>4, <1>5 DEF SlotInv

\* What an attempt that waits for its hello holds, and what an attached editor.
LEMMA HeldByAttempt ==
  ASSUME SlotInv, NEW b \in Brokers, attempt[b].phase = "hello"
  PROVE  /\ attempt[b].socket \in Sockets /\ editor[b] = NoSocket
         /\ Held(b) = {attempt[b].socket}
         /\ editor = [editor EXCEPT ![b] = NoSocket]
<1>1. attempt[b].socket \in Sockets /\ editor[b] = NoSocket
  BY DEF SlotInv, LinkTypes, Knowledge, Attempts
<1>2. Held(b) = {attempt[b].socket}
  BY <1>1, NoSocketIsNone DEF Held
<1>3. editor = [editor EXCEPT ![b] = NoSocket]
  BY <1>1 DEF SlotInv, LinkTypes
<1> QED BY <1>1, <1>2, <1>3

LEMMA HeldByEditor ==
  ASSUME SlotInv, NEW b \in Brokers, editor[b] # NoSocket
  PROVE  /\ editor[b] \in Sockets /\ Held(b) = {editor[b]}
         /\ attempt[b].phase = "none" /\ attempt[b].socket = NoSocket
<1>1. editor[b] \in Sockets
  BY DEF SlotInv, LinkTypes
<1>2. attempt[b].phase = "none" /\ attempt[b].socket = NoSocket
  BY DEF SlotInv, Knowledge
<1>3. Held(b) = {editor[b]}
  BY <1>2 DEF Held
<1> QED BY <1>1, <1>2, <1>3

\* The hello: the socket passes from the attempt to the manager, or is closed.
LEMMA HelloKeepsSlot ==
  ASSUME SlotInv, NEW b \in Brokers, HelloArrives(b)
  PROVE  SlotInv'
<1> DEFINE s == attempt[b].socket
<1>1. s \in Sockets /\ editor[b] = NoSocket /\ Held(b) = {s} /\ editor = [editor EXCEPT ![b] = NoSocket]
  BY HeldByAttempt DEF HelloArrives
<1>2. attempt' = [attempt EXCEPT ![b] = NoAttempt]
  BY DEF HelloArrives, Over
<1>3. \A t \in Sockets : LET r == [socket[t] EXCEPT !.hello = FALSE]
                         IN r \in SocketRecords /\ r.owner = socket[t].owner /\ r.at = socket[t].at
  BY DEF SlotInv, LinkTypes, SocketRecords
<1>4. CASE compatible
  <2>1. editor' = [editor EXCEPT ![b] = s] /\ socket' = [socket EXCEPT ![s].hello = FALSE]
    BY <1>4 DEF HelloArrives
  <2>2. LinkTypes'
    <3>1. socket' \in [Sockets -> SocketRecords]
      BY <1>1, <1>3, <2>1 DEF SlotInv, LinkTypes, SocketRecords
    <3> QED BY <1>1, <1>2, <2>1, <3>1 DEF SlotInv, LinkTypes, Attempts, NoAttempt
  <2>3. Knowledge'
    BY <1>1, <1>2, <2>1 DEF SlotInv, LinkTypes, Knowledge, NoAttempt
  <2>4. NoSlotIsLeaked'
    <3> SUFFICES ASSUME NEW c \in Brokers PROVE Open(c)' = Held(c)'
      BY DEF NoSlotIsLeaked
    <3>1. \A t \in Sockets : socket'[t].owner = socket[t].owner /\ socket'[t].at = socket[t].at
      BY <1>1, <1>3, <2>1 DEF SlotInv, LinkTypes
    <3>2. Open(c)' = Open(c)
      BY <3>1 DEF Open
    <3>3. Held(c)' = Held(c)
      BY <1>1, <1>2, <2>1 DEF SlotInv, LinkTypes, Held, NoAttempt
    <3> QED BY <3>2, <3>3 DEF SlotInv, NoSlotIsLeaked
  <2> QED BY <2>2, <2>3, <2>4 DEF SlotInv
<1>5. CASE ~compatible
  <2>1. CloseSocket(s) /\ editor' = [editor EXCEPT ![b] = NoSocket]
    BY <1>1, <1>5 DEF HelloArrives, DiscardSocket
  <2> QED BY <1>1, <1>2, <2>1, GiveBackKeepsSlot
<1> QED BY <1>4, <1>5

LEMMA TimeoutKeepsSlot ==
  ASSUME SlotInv, NEW b \in Brokers, HelloTimeout(b)
  PROVE  SlotInv'
<1>1. attempt[b].phase = "hello" /\ CloseSocket(attempt[b].socket) /\ UNCHANGED editor
      /\ attempt' = [attempt EXCEPT ![b] = NoAttempt]
  BY DEF HelloTimeout, DiscardSocket, Over
<1> QED BY <1>1, HeldByAttempt, GiveBackKeepsSlot

\* The attached client is closed, by the bridge or by its liveness.
LEMMA CloseKeepsSlot ==
  ASSUME SlotInv, NEW b \in Brokers, EditorCloses(b) \/ EditorSilent(b)
  PROVE  SlotInv'
<1>1. /\ editor[b] # NoSocket /\ CloseSocket(editor[b]) /\ UNCHANGED attempt
      /\ editor' = [editor EXCEPT ![b] = NoSocket]
  BY DEF EditorCloses, EditorSilent
<1>2. /\ LinkTypes' /\ attempt[b].socket = NoSocket /\ attempt[b].phase = "none"
  BY <1>1, HeldByEditor, CloseFacts DEF SlotInv, LinkTypes
<1>3. editor'[b] = NoSocket /\ \A c \in Brokers \ {b} : editor'[c] = editor[c]
  BY <1>1 DEF SlotInv, LinkTypes
<1>4. Knowledge'
  BY <1>1, <1>3 DEF SlotInv, Knowledge
<1>5. NoSlotIsLeaked'
  <2> SUFFICES ASSUME NEW c \in Brokers PROVE Open(c)' = Held(c)'
    BY DEF NoSlotIsLeaked
  <2>1. Open(c)' = Held(c) \ {editor[b]}
    BY <1>1, HeldByEditor, CloseFacts DEF SlotInv, NoSlotIsLeaked
  <2>2. CASE c = b
    <3>1. Held(b) = {editor[b]} /\ Held(b)' = {}
      BY <1>1, <1>2, <1>3, HeldByEditor DEF Held
    <3> QED BY <2>1, <2>2, <3>1
  <2>3. CASE c # b
    <3>1. editor[b] \in Held(b)
      BY <1>1, HeldByEditor
    <3>2. editor[b] \notin Held(c)
      BY <2>3, <3>1, OneOwner
    <3>3. Held(c)' = Held(c)
      BY <1>1, <1>3, <2>3 DEF Held
    <3> QED BY <2>1, <3>2, <3>3
  <2> QED BY <2>2, <2>3
<1> QED BY <1>2, <1>4, <1>5 DEF SlotInv

\* A broker leaves: all it holds is closed.
LEMMA LeaveKeepsSlot ==
  ASSUME SlotInv, NEW b \in Brokers, Leave(b)
  PROVE  SlotInv'
<1> DEFINE mine == {s \in Sockets : socket[s].owner = b /\ socket[s].at # "left"}
<1>1. socket' = [s \in Sockets |-> IF s \in mine THEN AfterClose(s) ELSE socket[s]]
  BY DEF Leave
<1>2. attempt' = [attempt EXCEPT ![b] = NoAttempt] /\ editor' = [editor EXCEPT ![b] = NoSocket]
  BY DEF Leave
<1>3. \A s \in Sockets : AfterClose(s) \in SocketRecords /\ AfterClose(s).at \in {"free", "left"}
  BY DEF SlotInv, LinkTypes, AfterClose, SocketRecords, Free
<1>4. LinkTypes'
  <2>1. socket' \in [Sockets -> SocketRecords]
    BY <1>1, <1>3 DEF SlotInv, LinkTypes
  <2> QED BY <1>2, <2>1 DEF SlotInv, LinkTypes, Attempts, NoAttempt
<1>5. attempt'[b] = NoAttempt /\ editor'[b] = NoSocket
      /\ \A c \in Brokers \ {b} : attempt'[c] = attempt[c] /\ editor'[c] = editor[c]
  BY <1>2 DEF SlotInv, LinkTypes
<1>6. Knowledge'
  BY <1>5 DEF SlotInv, Knowledge, NoAttempt
<1>7. NoSlotIsLeaked'
  <2> SUFFICES ASSUME NEW c \in Brokers PROVE Open(c)' = Held(c)'
    BY DEF NoSlotIsLeaked
  <2>1. \A s \in Sockets : socket'[s] = IF s \in mine THEN AfterClose(s) ELSE socket[s]
    BY <1>1
  <2>2. CASE c = b
    <3>1. Open(b)' = {}
      BY <1>3, <2>1 DEF Open
    <3>2. Held(b)' = {}
      BY <1>5 DEF Held, NoAttempt
    <3> QED BY <2>2, <3>1, <3>2
  <2>3. CASE c # b
    <3>1. \A s \in mine : AfterClose(s).at \notin {"queued", "served", "cut"} /\ socket[s].owner # c
      BY <1>3, <2>3
    <3>2. Open(c)' = Open(c)
      BY <2>1, <3>1 DEF Open
    <3>3. Held(c)' = Held(c)
      BY <1>5, <2>3 DEF Held
    <3> QED BY <3>2, <3>3 DEF SlotInv, NoSlotIsLeaked
  <2> QED BY <2>2, <2>3
<1> QED BY <1>4, <1>6, <1>7 DEF SlotInv

\* The bridge moves sockets about; whose end is open does not change.
LEMMA BridgeKeepsSlot ==
  ASSUME SlotInv, Bridge
  PROVE  SlotInv'
<1>1. UNCHANGED <<attempt, editor>>
  BY DEF Bridge, Serve, ReadEof, DropClient, BridgeStops, BridgeStarts, brokerVars
<1>2. socket' \in [Sockets -> SocketRecords] /\ \A c \in Brokers : Open(c)' = Open(c)
  <2>1. ASSUME NEW s \in Sockets, Serve(s)
        PROVE  socket' \in [Sockets -> SocketRecords] /\ \A c \in Brokers : Open(c)' = Open(c)
    BY <2>1 DEF Serve, SlotInv, LinkTypes, SocketRecords, Open
  <2>2. CASE ReadEof
    <3>1. socket' = [socket EXCEPT ![serving] = Free] /\ (serving \in Sockets => socket[serving].at = "left")
      BY <2>2 DEF ReadEof
    <3>2. socket \in [Sockets -> SocketRecords] /\ Free \in SocketRecords /\ Free.at = "free"
      BY DEF SlotInv, LinkTypes, SocketRecords, Free
    <3>3. socket' \in [Sockets -> SocketRecords]
      BY <3>1, <3>2
    <3>4. ASSUME NEW s \in Sockets, socket'[s] # socket[s]
          PROVE  socket[s].at = "left" /\ socket'[s].at = "free"
      <4>1. s = serving
        BY <3>1, <3>2, <3>4
      <4> QED BY <3>1, <3>2, <4>1
    <3>5. \A c \in Brokers : Open(c)' = Open(c)
      BY <3>4 DEF Open
    <3> QED BY <3>3, <3>5
  <2>3. CASE DropClient
    BY <2>3 DEF DropClient, SlotInv, LinkTypes, SocketRecords, Open
  <2>4. CASE BridgeStops
    <3>1. \A s \in Sockets : socket'[s] = CASE socket[s].at \in {"queued", "served"} -> [socket[s] EXCEPT !.at = "cut"]
                                            [] socket[s].at = "left" -> Free
                                            [] OTHER -> socket[s]
      BY <2>4 DEF BridgeStops
    <3>2. socket' \in [Sockets -> SocketRecords]
      BY <2>4 DEF BridgeStops, SlotInv, LinkTypes, SocketRecords, Free
    <3>3. ASSUME NEW c \in Brokers PROVE Open(c)' = Open(c)
      <4>1. ASSUME NEW s \in Sockets PROVE s \in Open(c)' <=> s \in Open(c)
        <5>1. CASE socket[s].at \in {"queued", "served"}
          <6>1. socket'[s] = [socket[s] EXCEPT !.at = "cut"] /\ socket[s] \in SocketRecords
            BY <3>1, <5>1 DEF SlotInv, LinkTypes
          <6>2. socket'[s].owner = socket[s].owner /\ socket'[s].at = "cut"
            BY <6>1 DEF SocketRecords
          <6> QED BY <5>1, <6>2 DEF Open
        <5>2. CASE socket[s].at = "left"
          <6>1. socket'[s] = Free
            BY <3>1, <5>2
          <6> QED BY <5>2, <6>1 DEF Open, Free
        <5>3. CASE socket[s].at \notin {"queued", "served", "left"}
          <6>1. socket'[s] = socket[s]
            BY <3>1, <5>3
          <6> QED BY <6>1 DEF Open
        <5> QED BY <5>1, <5>2, <5>3
      <4> QED BY <4>1 DEF Open
    <3> QED BY <3>2, <3>3
  <2>5. CASE BridgeStarts
    BY <2>5 DEF BridgeStarts, slotVars, SlotInv, LinkTypes, Open
  <2> QED BY <2>1, <2>2, <2>3, <2>4, <2>5 DEF Bridge
<1>3. \A c \in Brokers : Held(c)' = Held(c)
  BY <1>1 DEF Held
<1> QED BY <1>1, <1>2, <1>3 DEF SlotInv, LinkTypes, Knowledge, NoSlotIsLeaked

LEMMA NextKeepsSlot == SlotInv /\ [Next]_vars => SlotInv'
<1> SUFFICES ASSUME SlotInv, [Next]_vars
             PROVE  SlotInv'
  OBVIOUS
<1>1. ASSUME NEW b \in Brokers, LoopTick(b) PROVE SlotInv'
  BY <1>1, BeginKeepsSlot DEF LoopTick, slotVars
<1>2. ASSUME NEW b \in Brokers, CallStart(b) \/ CallAgain(b) PROVE SlotInv'
  BY <1>2, IterateKeepsSlot DEF CallStart, CallAgain, slotVars
<1>3. ASSUME NEW b \in Brokers, CallTimesOut(b) \/ BackoffOver(b) PROVE SlotInv'
  BY <1>3, FrameKeepsSlot DEF CallTimesOut, BackoffOver, slotVars
<1>4. ASSUME NEW b \in Brokers, ConnectAccepted(b) \/ ConnectRefused(b) PROVE SlotInv'
  BY <1>4, AcceptKeepsSlot, RefusedKeepsSlot
<1>5. ASSUME NEW b \in Brokers, HelloArrives(b) \/ HelloTimeout(b) PROVE SlotInv'
  BY <1>5, HelloKeepsSlot, TimeoutKeepsSlot
<1>6. ASSUME NEW b \in Brokers, EditorCloses(b) \/ EditorSilent(b) \/ Leave(b) PROVE SlotInv'
  BY <1>6, CloseKeepsSlot, LeaveKeepsSlot
<1>7. CASE Bridge
  BY <1>7, BridgeKeepsSlot
<1>8. CASE UNCHANGED vars
  BY <1>8, FrameKeepsSlot DEF vars, brokerVars, slotVars
<1> QED BY <1>1, <1>2, <1>3, <1>4, <1>5, <1>6, <1>7, <1>8 DEF Next, Broker

\* A broker holds no connection it does not know of: a failed attempt gives its
\* place back, and so does a broker that leaves (attemptEditorConnect, shutdown).
THEOREM SlotsAreNotLeaked == Spec => []NoSlotIsLeaked
<1>1. SlotInv => NoSlotIsLeaked
  BY DEF SlotInv
<1> QED BY <1>1, InitSlot, NextKeepsSlot, PTL DEF Spec

\* A broker never has two clients on the endpoint, whoever starts the attempts
\* (the connecting flag of attemptEditorConnect).
THEOREM ClientsAreSingle == Spec => []OneClient
<1>1. SlotInv => OneClient
  <2> SUFFICES ASSUME SlotInv, NEW b \in Brokers
               PROVE  Cardinality(Open(b)) <= 1
    BY DEF OneClient
  <2>1. CASE attempt[b].phase = "hello"
    <3>1. Open(b) = {attempt[b].socket}
      BY <2>1, HeldByAttempt DEF SlotInv, NoSlotIsLeaked
    <3>2. Cardinality({attempt[b].socket}) = 1
      BY FS_Singleton
    <3> QED BY <3>1, <3>2
  <2>2. CASE editor[b] # NoSocket
    <3>1. Open(b) = {editor[b]}
      BY <2>2, HeldByEditor DEF SlotInv, NoSlotIsLeaked
    <3>2. Cardinality({editor[b]}) = 1
      BY FS_Singleton
    <3> QED BY <3>1, <3>2
  <2>3. CASE attempt[b].phase # "hello" /\ editor[b] = NoSocket
    BY <2>3, NothingHeld, FS_EmptySet
  <2> QED BY <2>1, <2>2, <2>3
<1> QED BY <1>1, InitSlot, NextKeepsSlot, PTL DEF Spec
=============================================================================
