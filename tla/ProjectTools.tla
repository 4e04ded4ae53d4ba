---------------------------- MODULE ProjectTools ----------------------------
(***************************************************************************)
(* The tools a project defines: script methods of the game's nodes in the  *)
(* group conduit_tools, watched by the bridge (project_tools.rs) and       *)
(* registered by the broker (tools/project-tools.ts), across one game at a *)
(* time and one link to it.                                                *)
(*                                                                         *)
(* Every node's script has the methods "tool", "helper" and "_private".    *)
(* "tool" has one of two signatures; a node that declares a subset         *)
(* declares {"tool"}, in an untyped or in a typed array.                   *)
(***************************************************************************)
EXTENDS Integers, Sequences

CONSTANTS
  Places,       \* node paths of the group, in tree order at first
  MaxChanges,   \* bound on the changes and moves of the nodes
  MaxLinks,     \* bound on the links made
  MaxToolCalls  \* bound on the calls

\* A path is of one node.
ASSUME PlacesAssumption ==
  Places \in Seq(STRING) /\ \A i, j \in DOMAIN Places : Places[i] = Places[j] => i = j

\* The nodes' positions among the group's, by place.
Orders ==
  {at \in [1..Len(Places) -> 1..Len(Places)] : \A i, j \in DOMAIN at : at[i] = at[j] => i = j}

Absent == [form |-> "absent", sig |-> 1]
Forms == {"all", "untyped", "typed"}

\* Parameter names and the default values of the last of them.
Params(sig) == IF sig = 1 THEN <<"x", "y">> ELSE <<"y", "x", "z">>
Defaults(sig) == IF sig = 1 THEN <<"y0">> ELSE <<"x0", "z0">>
DefaultOf(name) == CASE name = "x" -> "x0" [] name = "y" -> "y0" [] name = "z" -> "z0"
RequiredCount(sig) == Len(Params(sig)) - Len(Defaults(sig))
Required(sig) == {Params(sig)[i] : i \in 1..RequiredCount(sig)}
Names(sig) == {Params(sig)[i] : i \in DOMAIN Params(sig)}

VARIABLES
  nodes,       \* the node at each place: how it declares, and its signature
  order,       \* the position of each place in the tree
  seen,        \* last_fingerprint: at most one set of entries
  linked,      \* is the broker connected to the game
  requests,    \* requests on their way to the game
  mail,        \* answers and events on their way to the broker
  registered,  \* the broker's tools: an entry for each method
  missed,      \* the broker has a list that nothing will correct
  told,        \* the order of the last list that the broker has or will have
  ran,         \* the last call that ran, if any: its signature, what was given, its arguments
  changes, links, calls

toolVars ==
  <<nodes, order, seen, linked, requests, mail, registered, missed, told, ran, changes, links, calls>>

\* A typed array converts to no untyped one, so it declares nothing.
ExposedNames(form) == IF form = "untyped" THEN {"tool"} ELSE {"tool", "helper"}

Entry(i, method) ==
  [method |-> method, node |-> Places[i], sig |-> IF method = "tool" THEN nodes[i].sig ELSE 1]

\* collect_signatures: what a request or the watcher finds, node by node.
Signatures ==
  [i \in 1..Len(Places) |->
     IF nodes[i] = Absent THEN {} ELSE {Entry(i, name) : name \in ExposedNames(nodes[i].form)}]

EntriesOf(sigs) == UNION {sigs[i] : i \in DOMAIN sigs}

PlaceOf(sigs, entry) == CHOOSE i \in DOMAIN sigs : entry \in sigs[i]

\* sync: of two nodes with the same method the first one listed wins, which is
\* the first one in the tree.
Winner(sigs, at, entry) ==
  \A other \in EntriesOf(sigs) :
    other.method = entry.method => at[PlaceOf(sigs, entry)] <= at[PlaceOf(sigs, other)]

Kept(sigs, at) == {entry \in EntriesOf(sigs) : Winner(sigs, at, entry)}

\* Slip: what is registered under a method's name is left alone.
SyncKeeping(had, sigs, at) ==
  LET stay == {e \in had : \E n \in Kept(sigs, at) : n.method = e.method}
  IN stay \cup {n \in Kept(sigs, at) : \A e \in stay : e.method # n.method}

Sync(had, sigs, at) ==
  LET stay == {e \in had : e \in Kept(sigs, at)}
  IN stay \cup {n \in Kept(sigs, at) : \A e \in stay : e.method # n.method}

ToolsInit ==
  /\ nodes \in [1..Len(Places) -> {Absent} \cup [form : Forms, sig : {1}]]
  /\ order = [i \in 1..Len(Places) |-> i] /\ told = order
  /\ seen = {} /\ linked = FALSE
  /\ requests = <<>> /\ mail = <<>> /\ registered = {} /\ missed = FALSE
  /\ ran = {} /\ changes = 0 /\ links = 0 /\ calls = 0

\* The list the broker has or will have.
Latest == IF mail = <<>> THEN registered ELSE Kept(mail[Len(mail)].tools, mail[Len(mail)].order)
ListComes == \E i \in DOMAIN requests : requests[i].kind = "list"

\* Nodes join and leave, scripts are reloaded.  The set may be again what the
\* watcher last saw, while the broker was told what it was in between.
ProjectChanges ==
  /\ changes < MaxChanges
  /\ \E i \in 1..Len(Places), state \in {Absent} \cup [form : Forms, sig : {1, 2}] :
       state # nodes[i] /\ nodes' = [nodes EXCEPT ![i] = state]
  /\ changes' = changes + 1
  /\ missed' = (missed \/ (/\ linked /\ ~ListComes /\ seen = {EntriesOf(Signatures')}
                          /\ Latest # Kept(Signatures', told)))
  /\ UNCHANGED <<order, told, seen, linked, requests, mail, registered, ran, links, calls>>

\* A node moves in the tree, or leaves it and is added elsewhere.  What is
\* exposed stays what it was, so the watcher sees no change.
Reorder ==
  /\ changes < MaxChanges
  /\ order' \in Orders \ {order}
  /\ changes' = changes + 1
  /\ UNCHANGED <<nodes, seen, linked, requests, mail, registered, missed, told, ran, links, calls>>

\* adopting a game records game_started, which asks for the list.
GameStarted ==
  /\ ~linked /\ links < MaxLinks
  /\ linked' = TRUE /\ links' = links + 1
  /\ requests' = <<[kind |-> "list"]>> /\ mail' = <<>> /\ missed' = FALSE
  /\ UNCHANGED <<nodes, order, told, seen, registered, ran, changes, calls>>

\* The socket closes: game_exited clears; the game may have gone with it.
GameExited ==
  /\ linked
  /\ linked' = FALSE /\ registered' = {}
  /\ requests' = <<>> /\ mail' = <<>> /\ missed' = FALSE
  /\ seen' \in {seen, {}}
  /\ UNCHANGED <<nodes, order, told, ran, changes, links, calls>>

\* An answer may overtake the events that wait with it: a pass of the link
\* writes answers first.
Answered(message) ==
  \E k \in 0..Len(mail) :
    /\ \A i \in (k + 1)..Len(mail) : mail[i].kind = "event"
    /\ mail' = SubSeq(mail, 1, k) \o <<message>> \o SubSeq(mail, k + 1, Len(mail))
    /\ told' = IF k = Len(mail) THEN message.order ELSE told

ToolsList ==
  /\ linked /\ requests # <<>> /\ Head(requests).kind = "list"
  /\ requests' = Tail(requests)
  /\ Answered([kind |-> "list", tools |-> Signatures, order |-> order])
  /\ UNCHANGED <<nodes, order, seen, linked, registered, missed, ran, changes, links, calls>>

\* A game halted in the debugger fails the request; it is not repeated.
RefreshFails ==
  /\ linked /\ requests # <<>> /\ Head(requests).kind = "list"
  /\ requests' = Tail(requests) /\ missed' = TRUE
  /\ UNCHANGED <<nodes, order, told, seen, linked, mail, registered, ran, changes, links, calls>>

\* The arguments of a call by position, from the live signature.
Plan(sig, given) ==
  [i \in DOMAIN Params(sig) |->
     IF Params(sig)[i] \in given THEN Params(sig)[i] ELSE Defaults(sig)[i - RequiredCount(sig)]]

Accepts(sig, given) == given \subseteq Names(sig) /\ Required(sig) \subseteq given

ProjectCall ==
  /\ linked /\ requests # <<>> /\ Head(requests).kind = "call"
  /\ requests' = Tail(requests)
  /\ LET entry == Head(requests).entry
         given == Head(requests).given
         found == {e \in EntriesOf(Signatures) : e.method = entry.method /\ e.node = entry.node}
     IN \/ /\ \A e \in found : ~Accepts(e.sig, given)     \* refused
           /\ UNCHANGED ran
        \/ \E e \in found : /\ Accepts(e.sig, given)
                            /\ ran' = {[sig |-> e.sig, given |-> given, args |-> Plan(e.sig, given)]}
  /\ UNCHANGED <<nodes, order, told, seen, linked, mail, registered, missed, changes, links, calls>>

\* The agent calls a tool as its registration describes it.
AgentCalls ==
  /\ linked /\ calls < MaxToolCalls
  /\ \E entry \in registered : \E given \in SUBSET Names(entry.sig) :
       /\ Required(entry.sig) \subseteq given
       /\ requests' = Append(requests, [kind |-> "call", entry |-> entry, given |-> given])
  /\ calls' = calls + 1
  /\ UNCHANGED <<nodes, order, told, seen, linked, mail, registered, missed, ran, changes, links>>

\* ProjectToolsWatcher::service; the first observation is the baseline.
Watch ==
  /\ seen # {EntriesOf(Signatures)}
  /\ seen' = {EntriesOf(Signatures)}
  /\ IF seen = {} \/ ~linked THEN UNCHANGED <<mail, told>>
     ELSE /\ mail' = Append(mail, [kind |-> "event", tools |-> Signatures, order |-> order])
          /\ told' = order
  /\ missed' = (missed \/ (seen = {} /\ linked /\ ~ListComes /\ Latest # Kept(Signatures, told)))
  /\ UNCHANGED <<nodes, order, linked, requests, registered, ran, changes, links, calls>>

\* What is registered after the events of one read, applied as they are decoded.
AfterEvents(had, read) ==
  LET after[i \in 0..Len(read)] ==
        IF i = 0 THEN had
        ELSE IF read[i].kind = "event" THEN Sync(after[i - 1], read[i].tools, read[i].order) ELSE after[i - 1]
  IN after[Len(read)]

\* One read of the socket: the answer's continuation runs after the last event.
\* An event is the news that was missed unless an answer is yet to come.
BrokerReads ==
  /\ linked /\ mail # <<>>
  /\ \E n \in 1..Len(mail) :
       LET answers == {i \in 1..n : mail[i].kind = "list"}
           events == {i \in 1..n : mail[i].kind = "event"}
           after == AfterEvents(registered, SubSeq(mail, 1, n))
           answer == mail[CHOOSE i \in answers : TRUE] IN
       /\ mail' = SubSeq(mail, n + 1, Len(mail))
       /\ registered' = IF answers = {} THEN after ELSE Sync(after, answer.tools, answer.order)
       /\ missed' = IF \E a \in answers, e \in events : a < e THEN TRUE
                    ELSE IF \A i \in DOMAIN mail : mail[i].kind = "event" THEN FALSE ELSE missed
  /\ UNCHANGED <<nodes, order, told, seen, linked, requests, ran, changes, links, calls>>

ToolsNext ==
  \/ ProjectChanges \/ Reorder \/ GameStarted \/ GameExited
  \/ ToolsList \/ RefreshFails \/ AgentCalls \/ ProjectCall
  \/ Watch \/ BrokerReads

ToolsSpec == ToolsInit /\ [][ToolsNext]_toolVars

----------------------------------------------------------------------------
(* Properties. *)

Quiet == linked /\ mail = <<>> /\ ~ListComes /\ seen = {EntriesOf(Signatures)} /\ ~missed

\* When nothing is under way and the watcher has looked since the last change,
\* the broker's tools are the game's, except after the four ways to miss a
\* list: the request failed; an event in the same read as the older answer was
\* applied before it; the set changed between the list and the baseline; it was
\* asked for between a change and its reversal.  Of two nodes with the same
\* method, the one that came first when the last list was made has the tool: a
\* later move in the tree tells nobody (fingerprint sorts its keys), and the
\* tool stays with the node that was first.
QuietMeansCurrent == Quiet => registered = Kept(Signatures, told)

\* However stale the broker's registration, a call that runs gives every
\* parameter of the live signature the value of its own name, or its default.
ArgumentsKeepTheirNames ==
  \A call \in ran : \A i \in DOMAIN Params(call.sig) :
    LET name == Params(call.sig)[i]
    IN call.args[i] = IF name \in call.given THEN name ELSE DefaultOf(name)

\* Both: what is offered and what is called are the game's.
ToolsAreTheGames == QuietMeansCurrent /\ ArgumentsKeepTheirNames

\* What the broker offers of a node that declares a subset, typed or not, is of
\* that subset.
DeclaredIsRespected ==
  Quiet => \A i \in 1..Len(Places) :
    nodes[i].form \in {"untyped", "typed"} =>
      \A tool \in registered : tool.node = Places[i] => tool.method = "tool"

=============================================================================
