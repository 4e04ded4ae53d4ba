---------------------------- MODULE EditedScene ----------------------------
(***************************************************************************)
(* The scene open in the editor and the undo history the tools write to:   *)
(* editor/scene.rs, properties.rs, wiring.rs, script.rs (attach, detach)   *)
(* and editor_state.rs (undo, redo).                                       *)
(*                                                                         *)
(* A tool does not touch the scene: it queues engine calls, the do half    *)
(* and the undo half of one action, and commits it.  The engine runs the   *)
(* do half at once and keeps both.  Apply is what the engine does with one *)
(* queued call (external); everything else is the bridge.                  *)
(*                                                                         *)
(* A node is a number, Root the scene's root; nodes are made in the order  *)
(* of their numbers.  The order of siblings, names made unique by the      *)
(* engine, and calls that free nodes are left out.                         *)
(***************************************************************************)
EXTENDS Integers, Sequences, FiniteSets, SequencesExt

CONSTANTS
  MaxNodes,  \* nodes the tools may make
  Values,    \* values of a property, a name, a script
  Unset,     \* the value of each before anybody sets it
  Keys,      \* the properties: "name" and "script" among them
  Wires,     \* pairs <<source, receiver>> of nodes, for one signal and method
  MaxCalls   \* calls that change something, other than gd_undo and gd_redo

ASSUME BoundsAssumption == MaxNodes \in Nat /\ MaxCalls \in Nat
ASSUME ValuesAssumption == Unset \in Values
ASSUME KeysAssumption == {"name", "script"} \subseteq Keys

Root == 0
None == -1
Nodes == 0..MaxNodes
ASSUME WiresAssumption == Wires \subseteq Nodes \X Nodes

VARIABLES
  scene,    \* what the tree holds, by field
  history,  \* the actions of this scene's UndoRedo
  done,     \* how many of them are done: the rest can be redone
  engine,   \* state outside the scene: a singleton's property, a live wire
  made,     \* the nodes made so far are 1..made
  calls,    \* bound
  strays,   \* ghost: the links and group memberships a direct call set
  misowned, \* ghost: nodes whose owner no undo puts back as it was
  cutLoose      \* ghost: a node was moved under its own branch

sceneVars == <<scene, history, done, engine, made, calls, strays, misowned, cutLoose>>

-----------------------------------------------------------------------------
(* The engine's tree. *)

\* n and the nodes above it; n and the nodes below it; the nodes in the scene.
Above(s, n) ==
  LET up[i \in 0..MaxNodes] ==
        IF i = 0 THEN n ELSE IF up[i-1] = None THEN None ELSE s.parent[up[i-1]]
  IN {up[i] : i \in 0..MaxNodes} \ {None}

Branch(s, n) == {k \in Nodes : n \in Above(s, k)}
Placed(s) == Branch(s, Root)

\* remove_child: every node of the branch whose owner stays behind loses it.
Removed(s, n) ==
  [s EXCEPT !.parent[n] = None,
            !.owned = [k \in Nodes |-> @[k] /\ n \notin Above(s, k)]]

\* Node.reparent leaves the owners; a node moved below itself is removed, and
\* the add that should follow is refused.
Reparented(s, n, p) ==
  IF s.parent[n] = None \/ p = n THEN s
  ELSE IF n \in Above(s, p) THEN Removed(s, n)
  ELSE [s EXCEPT !.parent[n] = p]

\* One queued engine call.
Apply(s, o) ==
  CASE o.op = "add_child" -> IF s.parent[o.node] = None THEN [s EXCEPT !.parent[o.node] = o.to] ELSE s
    [] o.op = "remove_child" -> IF s.parent[o.node] = o.to THEN Removed(s, o.node) ELSE s
    [] o.op = "set_owner" -> [s EXCEPT !.owned[o.node] = @ \/ Root \in Above(s, o.node)]
    [] o.op = "reparent" -> Reparented(s, o.node, o.to)
    [] o.op = "set" -> [s EXCEPT !.value[<<o.node, o.key>>] = o.to]
    [] o.op = "connect" -> [s EXCEPT !.link[o.wire] = IF @ = "none" THEN o.to ELSE @]
    [] o.op = "disconnect" -> [s EXCEPT !.link[o.wire] = "none"]
    [] o.op = "add_to_group" -> [s EXCEPT !.group[o.node] = IF @ = "out" THEN "saved" ELSE @]
    [] o.op = "remove_from_group" -> [s EXCEPT !.group[o.node] = "out"]

Run(s, ops) ==
  LET run[i \in 0..Len(ops)] == IF i = 0 THEN s ELSE Apply(run[i-1], ops[i])
  IN run[Len(ops)]

On(op, n, to)   == [op |-> op, node |-> n, to |-> to]
Put(n, k, v)    == [op |-> "set", node |-> n, key |-> k, to |-> v]
Wire(op, w, to) == [op |-> op, wire |-> w, to |-> to]

\* Slip: only the node that is placed gets an owner.
OwnersBelowNone(s, n) == <<>>

\* queue_owner_recursive: a set_owner for every node below n.
OwnersBelow(s, n) ==
  LET below == Branch(s, n) \ {n}
  IN [i \in 1..Cardinality(below) |-> On("set_owner", SetToSeq(below)[i], Root)]

-----------------------------------------------------------------------------
SceneInit ==
  /\ scene = [parent |-> [n \in Nodes |-> None],
            owned  |-> [n \in Nodes |-> FALSE],
            inside |-> [n \in Nodes |-> FALSE],
            value  |-> [c \in Nodes \X Keys |-> Unset],
            link   |-> [w \in Wires |-> "none"],
            group  |-> [n \in Nodes |-> "out"]]
  /\ history = <<>> /\ done = 0
  /\ engine = [setting |-> Unset, wired |-> FALSE]
  /\ made = 0 /\ calls = 0
  /\ strays = {} /\ misowned = {} /\ cutLoose = FALSE

\* create_action .. commit_action, from the scene s the nodes made by the call
\* are already part of: the do half runs, and what could be redone is dropped.
CommitFrom(s, do, undo) ==
  /\ calls < MaxCalls
  /\ calls' = calls + 1
  /\ scene' = Run(s, do)
  /\ history' = Append(SubSeq(history, 1, done),
                       [do |-> do, undo |-> undo, before |-> s])
  /\ done' = done + 1
  /\ UNCHANGED <<engine, strays>>

Commit(do, undo) == CommitFrom(scene, do, undo) /\ UNCHANGED <<made, misowned, cutLoose>>

\* The part of an action that puts a made branch under p and owns the nodes in
\* `owners`, and the one call that takes it back.
Place(s, n, p, owners, extra) ==
  /\ CommitFrom(s, <<On("add_child", n, p), On("set_owner", n, Root)>> \o owners,
                <<On("remove_child", n, p)>>)
  /\ made' = made + 1 + extra
  /\ UNCHANGED <<misowned, cutLoose>>

\* gd_scene_node_add: the initial properties are on the node before the action.
NodeAdd ==
  LET n == made + 1 IN
  /\ n <= MaxNodes
  /\ \E p \in Placed(scene), v \in Values :
       Place([scene EXCEPT !.value[<<n, "name">>] = v], n, p, <<>>, 0)

\* gd_scene_instantiate: the instance's inner node is not owned by this scene.
SceneInstantiate ==
  LET n == made + 1 IN
  /\ n + 1 <= MaxNodes
  /\ \E p \in Placed(scene) :
       Place([scene EXCEPT !.parent[n+1] = n, !.inside[n+1] = TRUE], n, p, <<>>, 1)

\* Node.duplicate: the branch of n under new numbers, what it holds copied.
Copied(s, n) ==
  LET old == SetToSeq(Branch(s, n))
      new(k) == made + CHOOSE i \in DOMAIN old : old[i] = k
      of(k) == old[k - made]
      fresh == (made + 1)..(made + Len(old))
  IN [s EXCEPT
        !.parent = [k \in Nodes |-> IF k \in fresh
                                    THEN IF of(k) = n THEN None ELSE new(s.parent[of(k)])
                                    ELSE @[k]],
        !.inside = [k \in Nodes |-> IF k \in fresh THEN @[of(k)] ELSE @[k]],
        !.group  = [k \in Nodes |-> IF k \in fresh THEN @[of(k)] ELSE @[k]],
        !.value  = [c \in Nodes \X Keys |-> IF c[1] \in fresh THEN @[<<of(c[1]), c[2]>>] ELSE @[c]]]

\* gd_scene_node_duplicate: everything below the copy is owned.
NodeDuplicate ==
  \E n \in Placed(scene) \ {Root} :
    LET size == Cardinality(Branch(scene, n))
        copy == made + CHOOSE i \in 1..size : SetToSeq(Branch(scene, n))[i] = n
        s == Copied(scene, n)
    IN /\ made + size <= MaxNodes
       /\ Place(s, copy, scene.parent[n], OwnersBelow(s, copy), size - 1)

\* gd_scene_node_remove.
NodeRemove ==
  \E n \in Placed(scene) \ {Root} :
    LET p == scene.parent[n] IN
    /\ CommitFrom(scene, <<On("remove_child", n, p)>>,
                  <<On("add_child", n, p), On("set_owner", n, Root)>>)
    /\ misowned' = misowned \cup (Branch(scene, n) \ IF scene.owned[n] THEN {n} ELSE {})
    /\ UNCHANGED <<made, cutLoose>>

\* gd_scene_node_reparent; `renames` holds the new name, if one is given.
NodeReparent ==
  \E n \in Placed(scene) \ {Root}, p \in Placed(scene) :
  \E renames \in {<<>>} \cup {<<v>> : v \in Values \ {scene.value[<<n, "name">>]}} :
    LET old == scene.value[<<n, "name">>]
        tears == p # n /\ n \in Above(scene, p)
    IN /\ CommitFrom(scene,
         <<On("reparent", n, p)>> \o [i \in DOMAIN renames |-> Put(n, "name", renames[i])],
         <<On("reparent", n, scene.parent[n])>> \o [i \in DOMAIN renames |-> Put(n, "name", old)])
       /\ cutLoose' = (cutLoose \/ tears)
       /\ misowned' = IF tears THEN misowned \cup Branch(scene, n) ELSE misowned
       /\ UNCHANGED made

\* An action that sets one property and puts the previous value back.
SetOn(n, k, v) == Commit(<<Put(n, k, v)>>, <<Put(n, k, scene.value[<<n, k>>])>>)

\* gd_scene_node_rename, gd_scene_node_set_property on a node, gd_script_attach
\* and gd_script_detach.
NodeRename  == \E n \in Placed(scene), v \in Values : SetOn(n, "name", v)
SetProperty == \E n \in Placed(scene), k \in Keys, v \in Values : SetOn(n, k, v)
ScriptAttach == \E n \in Placed(scene), v \in Values : SetOn(n, "script", v)

\* gd_scene_signal connect, both ends nodes: refused if connected in any way.
ConnectPersisted ==
  \E w \in Wires, flag \in {"saved", "saved deferred"} :
    /\ {w[1], w[2]} \subseteq Placed(scene)
    /\ scene.link[w] = "none"
    /\ Commit(<<Wire("connect", w, flag)>>, <<Wire("disconnect", w, "none")>>)

\* Slip: the undo forgets that the connection was deferred.
DisconnectForgets ==
  \E w \in Wires :
    /\ {w[1], w[2]} \subseteq Placed(scene)
    /\ scene.link[w] \in {"saved", "saved deferred"}
    /\ Commit(<<Wire("disconnect", w, "none")>>, <<Wire("connect", w, "saved")>>)

\* gd_scene_signal disconnect: undone with the flags the connection had.
Disconnect ==
  \E w \in Wires :
    /\ {w[1], w[2]} \subseteq Placed(scene)
    /\ scene.link[w] \in {"saved", "saved deferred"}
    /\ Commit(<<Wire("disconnect", w, "none")>>, <<Wire("connect", w, scene.link[w])>>)

\* gd_scene_node_group add and remove.
GroupAdd ==
  \E n \in Placed(scene) :
    /\ scene.group[n] = "out"
    /\ Commit(<<On("add_to_group", n, Root)>>, <<On("remove_from_group", n, Root)>>)

GroupRemove ==
  \E n \in Placed(scene) :
    /\ scene.group[n] # "out"
    /\ Commit(<<On("remove_from_group", n, Root)>>, <<On("add_to_group", n, Root)>>)

\* gd_undo and gd_redo; with nothing to step over they answer performed: false.
Undo ==
  /\ done > 0
  /\ scene' = Run(scene, history[done].undo)
  /\ done' = done - 1
  /\ UNCHANGED <<history, engine, made, calls, strays, misowned, cutLoose>>

Redo ==
  /\ done < Len(history)
  /\ scene' = Run(scene, history[done + 1].do)
  /\ done' = done + 1
  /\ UNCHANGED <<history, engine, made, calls, strays, misowned, cutLoose>>

\* What gd_scene_save writes: the root, and each owned node whose parent is written.
SavedNodes(s) == {n \in Placed(s) : \A k \in Above(s, n) \ {Root} : s.owned[k]}

\* gd_scene_node_call: it changes the scene and no history knows.
CallMethod ==
  /\ calls < MaxCalls
  /\ calls' = calls + 1
  /\ \/ \E n \in Placed(scene), k \in Keys : \E v \in Values \ {scene.value[<<n, k>>]} :
          scene' = [scene EXCEPT !.value[<<n, k>>] = v] /\ strays' = strays
     \/ \E n \in Placed(scene) : \E to \in {"out", "live"} \ {scene.group[n]} :
          scene' = [scene EXCEPT !.group[n] = to] /\ strays' = strays \cup {<<"group", n>>}
     \/ \E w \in Wires : \E to \in {"none", "live"} \ {scene.link[w]} :
          /\ {w[1], w[2]} \subseteq Placed(scene)
          /\ scene' = [scene EXCEPT !.link[w] = to]
          /\ strays' = strays \cup {<<"link", w>>}
  /\ UNCHANGED <<history, done, engine, made, misowned, cutLoose>>

\* A property set on a singleton or an object, and a connection with an end
\* outside the scene: done at once, in no history.
Outside ==
  /\ calls < MaxCalls
  /\ calls' = calls + 1
  /\ \/ \E v \in Values \ {engine.setting} : engine' = [engine EXCEPT !.setting = v]
     \/ engine' = [engine EXCEPT !.wired = ~@]
  /\ UNCHANGED <<scene, history, done, made, strays, misowned, cutLoose>>

Edit ==
  \/ NodeAdd \/ SceneInstantiate \/ NodeDuplicate \/ NodeRemove \/ NodeReparent
  \/ NodeRename \/ SetProperty \/ ScriptAttach
  \/ ConnectPersisted \/ Disconnect \/ GroupAdd \/ GroupRemove

SceneNext == Edit \/ Undo \/ Redo \/ CallMethod \/ Outside

SceneSpec == SceneInit /\ [][SceneNext]_sceneVars

-----------------------------------------------------------------------------
(* Properties. *)

Cells == {"parent", "owned", "inside"} \X Nodes \cup {"group"} \X Nodes
         \cup {"value"} \X (Nodes \X Keys) \cup {"link"} \X Wires
Cell(s, c) == s[c[1]][c[2]]

\* Cells a step back cannot be exact about: what a direct call set behind the
\* history, and the owners below a removed node, which no undo puts back (nor
\* that of a removed inner node of an instance: the undo makes it the root);
\* a live group membership comes back as a saved one.
Exempt(c, target) ==
  \/ c \in strays
  \/ c[1] = "owned" /\ c[2] \in misowned
  \/ c[1] = "group" /\ target.group[c[2]] = "live"

After(action) == Run(action.before, action.do)

\* Going from `now` to `then` gives each cell the action changed the value it
\* has in `target`, and leaves every other cell alone (or writes that value
\* too: an action may set what was set already).
Restores(now, then, action, target) ==
  LET after == After(action) IN
  \A c \in {d \in Cells : ~Exempt(d, target)} :
    \/ Cell(then, c) = Cell(target, c)
    \/ Cell(then, c) = Cell(now, c) /\ Cell(action.before, c) = Cell(after, c)

\* gd_undo takes back exactly what the newest action did, and gd_redo does
\* again exactly what the undone one did, whatever was done, undone, redone or
\* called in between (editor_state.rs step, and the two halves each tool
\* queues); until a node was moved below itself.
HistoryRestores ==
  [][~cutLoose =>
       /\ Undo => Restores(scene, scene', history[done], history[done].before)
       /\ Redo => Restores(scene, scene', history[done+1], After(history[done+1]))]_sceneVars

\* A save writes every node the tools put into the scene, except the inner
\* nodes of an instance and what hangs below one or below a misowned node: the
\* ownership rule of docs/conduit-whitepaper.md section 6.5; until a node was
\* moved below itself, after which undoing and redoing leave out owners the
\* engine refuses to set in a branch that is not in the scene.
SaveIsComplete ==
  ~cutLoose => \A n \in Placed(scene) \ SavedNodes(scene) :
                 \E k \in Above(scene, n) : scene.inside[k] \/ k \in misowned

\* gd_undo reverts the newest action, with no exception (editor-state.ts:13,
\* editor-scene.ts:137): false of a gd_scene_node_reparent below the node itself,
\* and of gd_scene_node_remove, whose undo half owns none of the nodes below.
UndoIsExact ==
  [][Undo /\ strays = {} =>
       \A c \in Cells : Cell(history[done].before, c) # Cell(After(history[done]), c)
                       => Cell(scene', c) = Cell(history[done].before, c)]_sceneVars
=============================================================================
