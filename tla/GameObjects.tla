---------------------------- MODULE GameObjects ----------------------------
(***************************************************************************)
(* The objects of a running game as the tools reach them: the scene tree,  *)
(* the handle table (handles.rs, objects.rs), the tools that set a         *)
(* property or call a method on whatever a target names (target.rs,        *)
(* call.rs) and those that change the tree (runtime/mutate.rs).            *)
(*                                                                         *)
(* An instance id is never reused, so an object that died stays dead.      *)
(* Every tool runs on the main thread, between two frames of the engine.   *)
(***************************************************************************)
EXTENDS Integers, FiniteSets

CONSTANTS
  Nodes,        \* manually managed objects
  Counted,      \* RefCounted objects
  Window, Nothing,
  MaxHandles,   \* MAX_HANDLES
  MaxMints      \* bound on the handles ever taken

ASSUME ObjectsAssumption ==
  /\ Window \in Nodes /\ Nothing \notin Nodes \cup Counted /\ Nodes \cap Counted = {}
  /\ MaxHandles \in Nat /\ MaxMints \in Nat

Objects == Nodes \cup Counted

VARIABLES
  life,     \* unborn, live or dead
  parent,   \* a node's parent, Nothing for an orphan
  slot,     \* the RefCounted object a node's property refers to
  doomed,   \* nodes queued for freeing at the end of the frame
  switching,  \* a change of scene is requested
  strays,   \* nodes outside the tree that nobody frees: taken out or made by the game's
            \* own methods, or left out by a refused instantiate or add_node
  table,    \* HANDLES
  nextId,   \* NEXT_ID
  answer    \* of the last tool call: done, refused, or uncaptured, that is an error
            \* after the method has run

objectVars == <<life, parent, slot, doomed, switching, strays, table, nextId, answer>>

ObjectsInit ==
  /\ life = [o \in Objects |-> IF o = Window THEN "live" ELSE "unborn"]
  /\ parent = [n \in Nodes |-> Nothing]
  /\ slot = [n \in Nodes |-> Nothing]
  /\ doomed = {} /\ switching = FALSE /\ strays = {}
  /\ table = <<>> /\ nextId = 1 /\ answer = "done"

------------------------------------------------------------------------------
(* The tree.                                                                *)

\* Nodes from the ones given downwards: those in every set that has the given ones
\* and the children of its own.
Closed(ns) == \A n \in Nodes : parent[n] \in ns => n \in ns
Under(ns)  == {n \in Nodes : \A above \in SUBSET Nodes : ns \subseteq above /\ Closed(above) => n \in above}

InTree == Under({Window})

\* A path is looked up from the root; a node queued for freeing is still there.
NodeAt(n) == n \in InTree

(* References: strong handles and properties keep a RefCounted object alive. *)
Referenced(o, tab, slots) ==
  \/ \E i \in DOMAIN tab : tab[i].object = o /\ tab[i].strong
  \/ \E n \in Nodes : slots[n] = o

Settle(born, freed) ==
  life' = [o \in Objects |->
             IF o \in freed \/ (o \in Counted /\ (o \in born \/ life[o] = "live") /\ ~Referenced(o, table', slot'))
             THEN "dead"
             ELSE IF o \in born THEN "live" ELSE life[o]]

\* Objects yet to be made are interchangeable: one stands for all of a kind.
Unborn(os) ==
  LET free == {o \in os : life[o] = "unborn"} IN IF free = {} THEN {} ELSE {CHOOSE o \in free : TRUE}

------------------------------------------------------------------------------
(* handles.rs                                                               *)

Full == Cardinality(DOMAIN table) >= MaxHandles

EntryWeak(o) == [object |-> o, strong |-> FALSE]   \* slip: RefCounted objects not held
Entry(o) == [object |-> o, strong |-> o \in Counted]

Inserted(o) == [i \in DOMAIN table \cup {nextId} |-> IF i = nextId THEN Entry(o) ELSE table[i]]

\* Slip: the lowest free id.
MintReusing(o) ==
  LET id == CHOOSE i \in 1..(MaxHandles + 1) : i \notin DOMAIN table /\ \A j \in 1..(i - 1) : j \in DOMAIN table IN
  /\ ~Full /\ nextId <= MaxMints
  /\ table' = [i \in DOMAIN table \cup {id} |-> IF i = id THEN Entry(o) ELSE table[i]]
  /\ nextId' = nextId + 1

Mint(o) ==
  /\ ~Full /\ nextId <= MaxMints
  /\ table' = Inserted(o)
  /\ nextId' = nextId + 1

NoMint == UNCHANGED <<table, nextId>>

\* The object is looked up by instance id: a dead one is reported, not touched.
Resolves(i) == i \in DOMAIN table /\ life[table[i].object] = "live"

\* resolve_target, of a node path or a handle.
Targets == InTree \cup {table[i].object : i \in {j \in DOMAIN table : Resolves(j)}}

SameTree == UNCHANGED <<parent, slot, doomed, switching, strays>>

\* A target, a class, a property, a method or an argument the tool refuses.
Refuse == answer' = "refused" /\ UNCHANGED <<life, parent, slot, doomed, switching, strays, table, nextId>>

\* objects.rs create: the properties are applied before the handle is taken.  At
\* capacity the new object is dropped again.
ObjectCreate ==
  \E o \in Unborn(Counted) :
    /\ SameTree
    /\ \/ Mint(o) /\ answer' = "done"
       \/ Full /\ NoMint /\ answer' = "refused"
    /\ Settle({o}, {})

\* Slip: the handle is taken first.
ObjectCreateRefusedHeld(o) == Mint(o)
ObjectCreateRefused(o) == NoMint

\* create whose properties are refused: the object is dropped.
ObjectCreateRejects ==
  \E o \in Unborn(Counted) :
    SameTree /\ ObjectCreateRefused(o) /\ Settle({o}, {}) /\ answer' = "refused"

ObjectRelease ==
  \E i \in DOMAIN table :
    /\ table' = [j \in DOMAIN table \ {i} |-> table[j]]
    /\ SameTree /\ UNCHANGED nextId /\ Settle({}, {}) /\ answer' = "done"

ObjectReleaseAll ==
  /\ table' = <<>>
  /\ SameTree /\ UNCHANGED nextId /\ Settle({}, {}) /\ answer' = "done"

------------------------------------------------------------------------------
(* The generic verbs.                                                       *)

\* apply_capture: with the flag, an object that came back is taken; at capacity
\* the call answers an error, after the method has run.
Capture(o, capture) ==
  IF capture /\ o # Nothing
  THEN \/ Mint(o) /\ answer' = "done"
       \/ Full /\ NoMint /\ answer' = "uncaptured"
  ELSE NoMint /\ answer' = "done"

\* What a call can name as an argument or hand back, if it makes nothing: the
\* targets, and the objects their properties refer to.
Known == Targets \cup ({slot[n] : n \in Targets \cap Nodes} \cap Counted)

\* set_property, of a value that is no object or a handle; the value it replaces
\* loses a reference.  A value of the wrong kind is dropped by the engine.
SetProperty ==
  \E n \in Targets \cap Nodes, v \in {Nothing} \cup {table[i].object : i \in {j \in DOMAIN table : Resolves(j)}} :
    /\ slot' = IF v \in Counted \cup {Nothing} THEN [slot EXCEPT ![n] = v] ELSE slot
    /\ NoMint /\ UNCHANGED <<parent, doomed, switching, strays>>
    /\ Settle({}, {}) /\ answer' = "done"

\* call_method runs any method, engine's or game's, one that does more than one of
\* the following left out.  It only reads ...
CallReads ==
  \E o \in {Nothing} \cup Known, capture \in BOOLEAN : Capture(o, capture) /\ SameTree /\ Settle({}, {})

\* ... hands back a new object (FileAccess.open), or a new node, which is outside the
\* tree (duplicate, PackedScene.instantiate); so does call_static ...
CallMakes ==
  \E o \in Unborn(Counted) \cup Unborn(Nodes), capture \in BOOLEAN :
    /\ Capture(o, capture)
    /\ strays' = strays \cup ({o} \cap Nodes)
    /\ UNCHANGED <<parent, slot, doomed, switching>> /\ Settle({o}, {})

\* ... sets a property, and may hand back what that was before ...
CallWrites ==
  \E n \in Targets \cap Nodes, v \in {Nothing} \cup (Known \cap Counted), capture \in BOOLEAN : \E o \in {Nothing, slot[n]} :
    /\ Capture(o, capture)
    /\ slot' = [slot EXCEPT ![n] = v]
    /\ UNCHANGED <<parent, doomed, switching, strays>> /\ Settle({}, {})

\* ... takes a node out (remove_child), handing back nothing or the node ...
CallRemoves ==
  \E n \in Targets \cap Nodes, capture \in BOOLEAN : \E o \in {Nothing, n} :
    /\ n # Window /\ parent[n] # Nothing
    /\ Capture(o, capture)
    /\ parent' = [parent EXCEPT ![n] = Nothing] /\ strays' = strays \cup {n}
    /\ UNCHANGED <<slot, doomed, switching>> /\ Settle({}, {})

MayMove(n, p) == n # Window /\ p \notin Under({n})
Place(n, p) == parent' = [parent EXCEPT ![n] = p]

\* ... adds one that is outside (add_child of a handle's node) ...
CallAdds ==
  \E n \in Targets \cap Nodes, p \in InTree :
    /\ parent[n] = Nothing /\ MayMove(n, p)
    /\ Place(n, p) /\ strays' = strays \ {n}
    /\ NoMint /\ UNCHANGED <<slot, doomed, switching>> /\ Settle({}, {}) /\ answer' = "done"

\* ... queues one for freeing (queue_free) ...
CallQueues ==
  \E n \in Targets \cap (Nodes \ {Window}), capture \in BOOLEAN : \E o \in {Nothing, n} :
    /\ Capture(o, capture)
    /\ doomed' = doomed \cup {n}
    /\ UNCHANGED <<parent, slot, switching, strays>> /\ Settle({}, {})

Freed(gone) ==
  /\ parent' = [n \in Nodes |-> IF n \in gone THEN Nothing ELSE parent[n]]
  /\ slot' = [n \in Nodes |-> IF n \in gone THEN Nothing ELSE slot[n]]
  /\ strays' = strays \ gone

\* ... or frees one (free): at once, while handles still name the nodes.  It may hand
\* back what only the node referred to; a freed object that comes back cannot be taken.
CallFrees ==
  \E n \in Targets \cap (Nodes \ {Window}), capture \in BOOLEAN : \E o \in {Nothing, n, slot[n]} :
    LET gone == Under({n}) IN
    /\ IF capture /\ o \in gone THEN NoMint /\ answer' = "uncaptured" ELSE Capture(o, capture)
    /\ Freed(gone) /\ doomed' = doomed \ gone
    /\ UNCHANGED switching /\ Settle({}, gone)

------------------------------------------------------------------------------
(* tree_mutate                                                              *)

\* The instance of a scene whose properties are refused, or are no object at all, is
\* left to nobody.
TreeInstantiate ==
  \E n \in Unborn(Nodes), p \in InTree, rejected \in BOOLEAN :
    /\ IF rejected
       THEN UNCHANGED parent /\ strays' = strays \cup {n} /\ answer' = "refused"
       ELSE Place(n, p) /\ UNCHANGED strays /\ answer' = "done"
    /\ NoMint /\ UNCHANGED <<slot, doomed, switching>> /\ Settle({n}, {})

AddRejected(n) == doomed' = doomed \cup {n}

\* The properties are refused, and the node is queued for freeing; or they are no
\* object at all (mutate.rs:162), and it is left to nobody.
TreeAddNode ==
  \E n \in Unborn(Nodes), p \in InTree :
    /\ \/ Place(n, p) /\ UNCHANGED <<doomed, strays>> /\ answer' = "done"
       \/ AddRejected(n) /\ UNCHANGED <<parent, strays>> /\ answer' = "refused"
       \/ strays' = strays \cup {n} /\ UNCHANGED <<parent, doomed>> /\ answer' = "refused"
    /\ NoMint /\ UNCHANGED <<slot, switching>> /\ Settle({n}, {})

TreeFree ==
  \E n \in InTree \ {Window} :
    /\ doomed' = doomed \cup {n} /\ answer' = "done"
    /\ NoMint /\ UNCHANGED <<parent, slot, switching, strays>> /\ Settle({}, {})

\* The engine takes the node out, and does not add it below itself.
TreeReparent ==
  \E n, p \in InTree :
    /\ MayMove(n, p)
    /\ Place(n, IF p \in Under({n}) THEN Nothing ELSE p)
    /\ NoMint /\ UNCHANGED <<slot, doomed, switching, strays>> /\ Settle({}, {}) /\ answer' = "done"

\* Done by the engine at the end of the frame.
TreeChangeScene ==
  /\ switching' = TRUE /\ answer' = "done"
  /\ NoMint /\ UNCHANGED <<parent, slot, doomed, strays>> /\ Settle({}, {})

------------------------------------------------------------------------------
(* The engine: the end of a frame frees what is queued, with its branches,  *)
(* and switches scenes.                                                     *)

FrameEnds ==
  /\ doomed # {} \/ switching
  /\ doomed' = {} /\ switching' = FALSE /\ NoMint /\ answer' = "done"
  /\ \E old \in SUBSET {n \in Nodes : parent[n] = Window}, new \in Unborn(Nodes) \cup {Nothing} :
       /\ IF switching THEN Cardinality(old) <= 1 ELSE old = {} /\ new = Nothing
       /\ LET gone == Under(doomed \cup old) IN
          /\ parent' = [n \in Nodes |-> IF n \in gone THEN Nothing ELSE IF n = new THEN Window ELSE parent[n]]
          /\ slot' = [n \in Nodes |-> IF n \in gone THEN Nothing ELSE slot[n]]
          /\ strays' = strays \ gone
          /\ Settle(Nodes \cap {new}, gone)

ObjectsNext ==
  \/ Refuse
  \/ ObjectCreate \/ ObjectCreateRejects \/ ObjectRelease \/ ObjectReleaseAll
  \/ SetProperty
  \/ CallReads \/ CallMakes \/ CallWrites \/ CallRemoves \/ CallAdds \/ CallQueues \/ CallFrees
  \/ TreeInstantiate \/ TreeAddNode \/ TreeFree \/ TreeReparent \/ TreeChangeScene
  \/ FrameEnds

ObjectsSpec == ObjectsInit /\ [][ObjectsNext]_objectVars

------------------------------------------------------------------------------

\* The handle table keeps the promise of a registry: an id names one object for as
\* long as it is held and is never given out again, and nothing is evicted.
Registry == INSTANCE HandleRegistry WITH
  used <- 1..(nextId - 1), owner <- [i \in DOMAIN table |-> table[i].object],
  Ids <- 1..MaxMints

HandlesAreHonest == Registry!Spec

\* A RefCounted object with a handle is alive, whatever the game drops or frees.
HeldIsAlive == \A i \in DOMAIN table : table[i].object \in Counted => Resolves(i)

\* No node is left alive outside the tree, except those the game took out or made
\* itself, and two that a refusal leaves: the instance of a scene whose properties
\* were refused (mutate.rs:122), and the node added with properties that are no
\* object (mutate.rs:162).
NoOrphans == \A n \in Nodes : life[n] = "live" => n \in Under({Window} \cup doomed \cup strays)

\* A refused call changes nothing that was there, neither object nor tree nor handle;
\* what it made is gone, or goes with the frame, or is one of the two strays above.  A
\* call whose result could not be taken did run, whatever the method does, and is
\* only known to have taken no handle (mutate.rs:81).
RefusedChangesNothing ==
  [][/\ answer' = "refused" =>
          /\ UNCHANGED <<table, nextId, parent, slot, switching>>
          /\ \A o \in Objects : life[o] = "live" => life'[o] = "live"
          /\ \A o \in Objects : life[o] = "unborn" /\ life'[o] = "live" => o \in doomed' \cup strays'
     /\ answer' = "uncaptured" => UNCHANGED <<table, nextId>>]_objectVars

\* Types, and what the table and the tree never lose: ids in use are below the next
\* one, no node is its own ancestor, nothing refers to the dead.
ObjectsTypeOK ==
  /\ life \in [Objects -> {"unborn", "live", "dead"}]
  /\ parent \in [Nodes -> Nodes \cup {Nothing}] /\ slot \in [Nodes -> Counted \cup {Nothing}]
  /\ doomed \subseteq Nodes /\ strays \subseteq Nodes /\ switching \in BOOLEAN
  /\ answer \in {"done", "refused", "uncaptured"}
  /\ nextId \in 1..(MaxMints + 1) /\ DOMAIN table \subseteq 1..(nextId - 1)
  /\ \A i \in DOMAIN table : table[i] \in [object : Objects, strong : BOOLEAN]
=============================================================================
