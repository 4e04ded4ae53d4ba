---------------------------- MODULE Game_proofs ----------------------------
(***************************************************************************)
(* What the runs check of a running game, for every number of objects,     *)
(* calls, sockets and lines.                                               *)
(*                                                                         *)
(* Objects: TableInv says where the ids are, HeldInv that what the table   *)
(* and the properties refer to lives: a handle is taken on an object that  *)
(* is new or that is found through one of these.  NodesInv says that every *)
(* node that lives is under the window, a node queued for freeing or a     *)
(* stray; a node is under others when it is in every closed set that has   *)
(* them, so each step is shown by giving such a set.                       *)
(*                                                                         *)
(* Frames: FramesInv counts the frames of a step that runs alone.          *)
(*                                                                         *)
(* Sockets: SocketsInv says which messages wait in an inbox, that is the   *)
(* last ones, and that all that was handed out is older.  The polls of a   *)
(* frame are a recursive function: that there is one, and that it keeps    *)
(* the invariant, is shown at the least call where it would fail.          *)
(*                                                                         *)
(* Log: NothingIsSkipped is inductive once a read is known to be told no   *)
(* more than there is.                                                     *)
(***************************************************************************)
EXTENDS MCGame, SequenceTheorems, FiniteSetTheorems, WellFoundedInduction, NaturalsInduction, TLAPS

TableInv ==
  /\ nextId \in 1..(MaxMints + 1)
  /\ DOMAIN table \subseteq 1..(nextId - 1)

TableTyped ==
  \A i \in DOMAIN table : table[i].object \in Objects /\ (table[i].strong <=> table[i].object \in Counted)

SlotTyped == slot \in [Nodes -> Counted \cup {Nothing}]

SlotsAlive == \A n \in Nodes : slot[n] # Nothing => life[slot[n]] = "live"

HeldInv == TableTyped /\ SlotTyped /\ SlotsAlive /\ HeldIsAlive

------------------------------------------------------------------------------
(* Helpers.                                                                 *)

LEMMA UnderNodes == \A ns : Under(ns) \subseteq Nodes
  BY Zenon DEF Under

LEMMA UnbornOf == ASSUME NEW os, NEW o \in Unborn(os) PROVE o \in os /\ life[o] = "unborn"
  BY Zenon DEF Unborn

\* What a tool may do to the table: nothing, one new entry under the next id, one
\* entry less, or all of them.
Removed(i) == table' = [j \in DOMAIN table \ {i} |-> table[j]] /\ UNCHANGED nextId
Emptied == table' = <<>> /\ UNCHANGED nextId

LEMMA CaptureTable ==
  ASSUME NEW o, NEW capture, Capture(o, capture)
  PROVE  NoMint \/ (o # Nothing /\ Mint(o))
  BY Zenon DEF Capture

\* What a call can name or hand back is an object, alive if it is RefCounted.
LEMMA KnownAre == ASSUME TableTyped, SlotTyped PROVE Known \subseteq Objects
  <1>1. InTree \subseteq Nodes
    BY UnderNodes DEF InTree
  <1>2. \A i \in DOMAIN table : table[i].object \in Objects
    BY DEF TableTyped
  <1> QED BY <1>1, <1>2 DEF Known, Targets, Objects

LEMMA KnownLive == ASSUME HeldInv, NEW o \in Known, o \in Counted PROVE life[o] = "live"
  <1>1. o \notin InTree /\ o # Nothing
    BY UnderNodes, ObjectsAssumption DEF InTree
  <1>2. CASE o \in {table[i].object : i \in {j \in DOMAIN table : Resolves(j)}}
    BY <1>2 DEF Resolves
  <1>3. CASE o \in {slot[n] : n \in Targets \cap Nodes} \cap Counted
    BY <1>1, <1>3 DEF HeldInv, SlotsAlive
  <1> QED BY <1>1, <1>2, <1>3 DEF Known, Targets

\* So is what a node's property refers to.
LEMMA SlotLive == ASSUME HeldInv, NEW n \in Nodes PROVE slot[n] \in Objects \cup {Nothing} /\ (slot[n] \in Counted => life[slot[n]] = "live")
  <1>1. slot[n] \in Counted \cup {Nothing} /\ Nothing \notin Counted
    BY ObjectsAssumption DEF HeldInv, SlotTyped
  <1> QED BY <1>1 DEF HeldInv, SlotsAlive, Objects

LEMMA TableSteps ==
  ASSUME TableTyped, SlotTyped, ObjectsNext
  PROVE  \/ NoMint
         \/ \E o \in Objects : Mint(o)
         \/ \E i \in DOMAIN table : Removed(i)
         \/ Emptied
  <1> USE DEF Objects
  <1>1. CASE Refuse
    BY <1>1, Zenon DEF Refuse, NoMint
  <1>2. CASE ObjectCreate
    BY <1>2, UnbornOf, Zenon DEF ObjectCreate
  <1>3. CASE ObjectCreateRejects
    BY <1>3, Zenon DEF ObjectCreateRejects, ObjectCreateRefused
  <1>4. CASE ObjectRelease
    BY <1>4, Zenon DEF ObjectRelease, Removed
  <1>5. CASE ObjectReleaseAll
    BY <1>5, Zenon DEF ObjectReleaseAll, Emptied
  <1>6. CASE SetProperty
    BY <1>6, Zenon DEF SetProperty
  <1>7. CASE CallReads
    <2>1. PICK o \in {Nothing} \cup Known, capture \in BOOLEAN : Capture(o, capture)
      BY <1>7, Zenon DEF CallReads
    <2> QED BY <2>1, KnownAre, CaptureTable, Zenon
  <1>8. CASE CallMakes
    <2>1. PICK o \in Unborn(Counted) \cup Unborn(Nodes), capture \in BOOLEAN : Capture(o, capture)
      BY <1>8, Zenon DEF CallMakes
    <2> QED BY <2>1, UnbornOf, CaptureTable, Zenon
  <1>9. CASE CallWrites
    <2>0. PICK n \in Targets \cap Nodes, capture \in BOOLEAN : \E o \in {Nothing, slot[n]} : Capture(o, capture)
      BY <1>9, Zenon DEF CallWrites
    <2>1. PICK o \in {Nothing, slot[n]} : Capture(o, capture)
      BY <2>0
    <2>2. o # Nothing => o \in Objects
      BY <2>0, <2>1 DEF SlotTyped
    <2> QED BY <2>1, <2>2, CaptureTable, Zenon
  <1>10. CASE CallRemoves \/ CallQueues
    <2>0. PICK n \in Nodes, capture \in BOOLEAN : \E o \in {Nothing, n} : Capture(o, capture)
      BY <1>10, Zenon DEF CallRemoves, CallQueues
    <2>1. PICK o \in {Nothing, n} : Capture(o, capture)
      BY <2>0
    <2> QED BY <2>1, CaptureTable, Zenon
  <1>17. CASE CallAdds
    BY <1>17, Zenon DEF CallAdds
  <1>18. CASE CallFrees
    <2>0. PICK n \in Targets \cap (Nodes \ {Window}), capture \in BOOLEAN :
            \E o \in {Nothing, n, slot[n]} : NoMint \/ Capture(o, capture)
      BY <1>18, Zenon DEF CallFrees
    <2>1. PICK o \in {Nothing, n, slot[n]} : NoMint \/ Capture(o, capture)
      BY <2>0
    <2>2. o # Nothing => o \in Objects
      BY <2>0, <2>1 DEF SlotTyped
    <2> QED BY <2>1, <2>2, CaptureTable, Zenon
  <1>11. CASE TreeInstantiate
    BY <1>11, Zenon DEF TreeInstantiate
  <1>12. CASE TreeAddNode
    BY <1>12, Zenon DEF TreeAddNode
  <1>13. CASE TreeFree
    BY <1>13, Zenon DEF TreeFree
  <1>14. CASE TreeReparent
    BY <1>14, Zenon DEF TreeReparent
  <1>15. CASE TreeChangeScene
    BY <1>15, Zenon DEF TreeChangeScene
  <1>16. CASE FrameEnds
    BY <1>16, Zenon DEF FrameEnds
  <1> QED BY ONLY ObjectsNext, <1>1, <1>2, <1>3, <1>4, <1>5, <1>6, <1>7, <1>8, <1>9, <1>10, <1>11, <1>12, <1>13,
             <1>14, <1>15, <1>16, <1>17, <1>18, Zenon DEF ObjectsNext

------------------------------------------------------------------------------
(* The table alone.                                                         *)

LEMMA TableInvInit == ObjectsInit => TableInv
  <1> SUFFICES ASSUME ObjectsInit PROVE TableInv
    OBVIOUS
  <1>1. table = <<>> /\ nextId = 1
    BY Zenon DEF ObjectsInit
  <1> QED BY <1>1, ObjectsAssumption DEF TableInv

LEMMA TableInvStep ==
  ASSUME TableInv, TableTyped, SlotTyped, [ObjectsNext]_objectVars
  PROVE  TableInv'
  <1>1. CASE NoMint
    BY <1>1 DEF TableInv, NoMint
  <1>2. CASE \E o \in Objects : Mint(o)
    <2>1. PICK o \in Objects : Mint(o)
      BY <1>2
    <2>2. nextId' = nextId + 1 /\ nextId <= MaxMints /\ DOMAIN table' = DOMAIN table \cup {nextId}
      BY <2>1 DEF Mint, Inserted
    <2> QED BY <2>2, ObjectsAssumption DEF TableInv
  <1>3. CASE \E i \in DOMAIN table : Removed(i)
    <2>1. PICK i \in DOMAIN table : Removed(i)
      BY <1>3
    <2>2. DOMAIN table' = DOMAIN table \ {i} /\ nextId' = nextId
      BY <2>1 DEF Removed
    <2> QED BY <2>2 DEF TableInv
  <1>4. CASE Emptied
    <2>1. DOMAIN table' = {} /\ nextId' = nextId
      BY <1>4 DEF Emptied
    <2> QED BY <2>1 DEF TableInv
  <1>5. CASE UNCHANGED objectVars
    BY <1>5 DEF objectVars, TableInv
  <1> QED BY <1>1, <1>2, <1>3, <1>4, <1>5, TableSteps

------------------------------------------------------------------------------
(* The refinement.                                                          *)

Owner == [i \in DOMAIN table |-> table[i].object]

LEMMA RegistryInit == ObjectsInit => Registry!Init
  <1> SUFFICES ASSUME ObjectsInit PROVE Registry!Init
    OBVIOUS
  <1>1. table = <<>> /\ nextId = 1
    BY Zenon DEF ObjectsInit
  <1>2. 1..(nextId - 1) = {} /\ DOMAIN table = {}
    BY <1>1
  <1> QED BY <1>2 DEF Registry!Init

LEMMA RegistryTake ==
  ASSUME TableInv, NEW o \in Objects, Mint(o)
  PROVE  Registry!Take(nextId, o) /\ nextId \in 1..MaxMints
  <1>1. nextId' = nextId + 1 /\ nextId \in 1..MaxMints
    BY ObjectsAssumption DEF TableInv, Mint
  <1>4. nextId \notin 1..(nextId - 1) /\ 1..(nextId' - 1) = 1..(nextId - 1) \cup {nextId}
    BY <1>1
  <1>5. table' = [i \in DOMAIN table \cup {nextId} |-> IF i = nextId THEN Entry(o) ELSE table[i]]
    BY DEF Mint, Inserted
  <1>6. Entry(o).object = o
    BY DEF Entry
  <1>7. DOMAIN table' = DOMAIN table \cup {nextId}
    BY <1>5
  <1>8. \A i \in DOMAIN table' : table'[i].object = IF i = nextId THEN o ELSE Owner[i]
    BY <1>5, <1>6, <1>7, Zenon DEF Owner
  <1>9. Owner' = [i \in DOMAIN Owner \cup {nextId} |-> IF i = nextId THEN o ELSE Owner[i]]
    BY <1>7, <1>8 DEF Owner
  <1> QED BY <1>1, <1>4, <1>9 DEF Registry!Take, Owner

LEMMA RegistryRelease ==
  ASSUME NEW i \in DOMAIN table, Removed(i)
  PROVE  Registry!Release({i})
  <1>1. DOMAIN table' = DOMAIN table \ {i} /\ \A j \in DOMAIN table' : table'[j] = table[j]
    BY DEF Removed
  <1>2. nextId' = nextId
    BY DEF Removed
  <1>3. Owner' = [j \in DOMAIN Owner \ {i} |-> Owner[j]]
    BY <1>1 DEF Owner
  <1> QED BY <1>2, <1>3 DEF Registry!Release, Owner

LEMMA RegistryEmpty ==
  ASSUME Emptied, NEW d, d = DOMAIN table
  PROVE  Registry!Release(d)
  <1>1. DOMAIN table' = {} /\ nextId' = nextId
    BY DEF Emptied
  <1>2. Owner' = [j \in DOMAIN Owner \ d |-> Owner[j]]
    BY <1>1 DEF Owner
  <1> QED BY <1>1, <1>2 DEF Registry!Release, Owner

LEMMA RegistryStep ==
  ASSUME TableInv, TableTyped, SlotTyped, [ObjectsNext]_objectVars
  PROVE  [Registry!Next]_(Registry!registryVars)
  <1>1. CASE NoMint
    BY <1>1 DEF NoMint, Registry!registryVars
  <1>2. CASE \E o \in Objects : Mint(o)
    <2>1. PICK o \in Objects : Mint(o)
      BY <1>2
    <2>2. Registry!Take(nextId, o) /\ nextId \in 1..MaxMints
      BY <2>1, RegistryTake
    <2> QED BY <2>2, Zenon DEF Registry!Next
  <1>3. CASE \E i \in DOMAIN table : Removed(i)
    <2>1. PICK i \in DOMAIN table : Removed(i)
      BY <1>3
    <2>2. Registry!Release({i})
      BY <2>1, RegistryRelease
    <2>3. {i} \in {{j} : j \in DOMAIN Owner} \cup {DOMAIN Owner}
      BY DEF Owner
    <2> QED BY <2>2, <2>3, Zenon DEF Registry!Next, Owner
  <1>4. CASE Emptied
    <2>1. PICK d : d = DOMAIN table
      OBVIOUS
    <2>2. Registry!Release(d)
      BY <1>4, <2>1, RegistryEmpty
    <2>3. d \in {{j} : j \in DOMAIN Owner} \cup {DOMAIN Owner}
      BY <2>1 DEF Owner
    <2> QED BY <2>2, <2>3, Zenon DEF Registry!Next, Owner
  <1>5. CASE UNCHANGED objectVars
    BY <1>5 DEF objectVars, Registry!registryVars
  <1> QED BY <1>1, <1>2, <1>3, <1>4, <1>5, TableSteps

------------------------------------------------------------------------------
(* What is held is alive.                                                   *)

\* An object a step may leave referred to: it is new, or it lives.
Here(o, born) == o \in born \/ life[o] = "live"

TableFrom(born) == \A i \in DOMAIN table' : table'[i].object \in Counted => Here(table'[i].object, born)
SlotsFrom(born) == \A n \in Nodes : slot'[n] # Nothing => Here(slot'[n], born)

LEMMA SettleKeeps ==
  ASSUME NEW born, NEW freed, freed \subseteq Nodes, Settle(born, freed),
         NEW o \in Counted, Here(o, born), Referenced(o, table', slot')
  PROVE  life'[o] = "live"
  <1>1. o \in Objects /\ o \notin freed
    BY ObjectsAssumption DEF Objects
  <1>2. life'[o] = IF o \in freed \/ (o \in Counted /\ (o \in born \/ life[o] = "live") /\ ~Referenced(o, table', slot'))
                   THEN "dead"
                   ELSE IF o \in born THEN "live" ELSE life[o]
    BY <1>1, Zenon DEF Settle
  <1> QED BY <1>1, <1>2 DEF Here

LEMMA HeldAfter ==
  ASSUME NEW born, NEW freed, freed \subseteq Nodes, Settle(born, freed),
         TableTyped', SlotTyped', TableFrom(born), SlotsFrom(born)
  PROVE  HeldInv'
  <1>1. ASSUME NEW i \in DOMAIN table', table'[i].object \in Counted PROVE life'[table'[i].object] = "live"
    <2>1. table'[i].strong
      BY <1>1, Zenon DEF TableTyped
    <2>2. Referenced(table'[i].object, table', slot')
      BY <2>1, Zenon DEF Referenced
    <2>3. Here(table'[i].object, born)
      BY <1>1, Zenon DEF TableFrom
    <2> QED BY <1>1, <2>2, <2>3, SettleKeeps, Zenon
  <1>2. ASSUME NEW n \in Nodes, slot'[n] # Nothing PROVE life'[slot'[n]] = "live"
    <2>1. slot'[n] \in Counted
      BY <1>2 DEF SlotTyped
    <2>2. Referenced(slot'[n], table', slot')
      BY Zenon DEF Referenced
    <2>3. Here(slot'[n], born)
      BY <1>2, Zenon DEF SlotsFrom
    <2> QED BY <2>1, <2>2, <2>3, SettleKeeps, Zenon
  <1>3. HeldIsAlive'
    BY <1>1, Zenon DEF HeldIsAlive, Resolves
  <1>4. SlotsAlive'
    BY <1>2, Zenon DEF SlotsAlive
  <1> QED BY <1>3, <1>4, Zenon DEF HeldInv

LEMMA TableSame ==
  ASSUME HeldInv, NEW born, NoMint
  PROVE  TableTyped' /\ TableFrom(born)
  <1>1. table' = table
    BY DEF NoMint
  <1> QED BY <1>1, Zenon DEF HeldInv, TableTyped, TableFrom, HeldIsAlive, Resolves, Here

LEMMA TableMint ==
  ASSUME HeldInv, NEW born, NEW o \in Objects, Mint(o), o \in Counted => Here(o, born)
  PROVE  TableTyped' /\ TableFrom(born)
  <1>1. DOMAIN table' = DOMAIN table \cup {nextId}
    BY DEF Mint, Inserted
  <1>2. Entry(o).object = o /\ (Entry(o).strong <=> o \in Counted)
    BY DEF Entry
  <1>3. ASSUME NEW i \in DOMAIN table'
        PROVE  \/ table'[i] = Entry(o)
               \/ i \in DOMAIN table /\ table'[i] = table[i]
    BY <1>1, Zenon DEF Mint, Inserted
  <1>4. TableTyped'
    BY <1>2, <1>3, Zenon DEF TableTyped, HeldInv
  <1>5. TableFrom(born)
    <2> SUFFICES ASSUME NEW i \in DOMAIN table', table'[i].object \in Counted PROVE Here(table'[i].object, born)
      BY Zenon DEF TableFrom
    <2>1. CASE table'[i] = Entry(o)
      <3>1. table'[i].object = o
        BY <2>1, <1>2
      <3> QED BY <3>1
    <2>2. CASE i \in DOMAIN table /\ table'[i] = table[i]
      BY <2>2 DEF HeldInv, HeldIsAlive, Resolves, Here
    <2> QED BY <1>3, <2>1, <2>2
  <1> QED BY <1>4, <1>5

LEMMA TableLess ==
  ASSUME HeldInv, NEW born, Emptied \/ \E i \in DOMAIN table : Removed(i)
  PROVE  TableTyped' /\ TableFrom(born)
  <1>1. ASSUME NEW j \in DOMAIN table' PROVE j \in DOMAIN table /\ table'[j] = table[j]
    <2>1. CASE Emptied
      <3>1. DOMAIN table' = {}
        BY <2>1 DEF Emptied
      <3> QED BY <3>1
    <2>2. CASE \E i \in DOMAIN table : Removed(i)
      BY <2>2 DEF Removed
    <2> QED BY <2>1, <2>2
  <1> QED BY <1>1, Zenon DEF HeldInv, TableTyped, TableFrom, HeldIsAlive, Resolves, Here

LEMMA TableCapture ==
  ASSUME HeldInv, NEW born, NEW o \in Objects \cup {Nothing}, NEW capture, Capture(o, capture),
         o \in Counted => Here(o, born)
  PROVE  TableTyped' /\ TableFrom(born)
  <1>1. CASE NoMint
    BY <1>1, TableSame
  <1>2. CASE o # Nothing /\ Mint(o)
    BY <1>2, TableMint, Zenon
  <1> QED BY <1>1, <1>2, CaptureTable, Zenon

\* Properties may be reset, never set to what the step drops.
LEMMA SlotsLess ==
  ASSUME HeldInv, NEW born, NEW gone, slot' = [n \in Nodes |-> IF n \in gone THEN Nothing ELSE slot[n]]
  PROVE  SlotTyped' /\ SlotsFrom(born)
  <1>1. SlotTyped'
    BY DEF HeldInv, SlotTyped
  <1>2. SlotsFrom(born)
    BY Zenon DEF HeldInv, SlotsFrom, SlotsAlive, Here
  <1> QED BY <1>1, <1>2

LEMMA SlotsSame ==
  ASSUME HeldInv, NEW born, slot' = slot
  PROVE  SlotTyped' /\ SlotsFrom(born)
  BY Zenon DEF HeldInv, SlotTyped, SlotsFrom, SlotsAlive, Here

LEMMA HeldInit == ObjectsInit => HeldInv
  <1> SUFFICES ASSUME ObjectsInit PROVE HeldInv
    OBVIOUS
  <1>1. DOMAIN table = {}
    BY DEF ObjectsInit
  <1>2. slot = [n \in Nodes |-> Nothing]
    BY Zenon DEF ObjectsInit
  <1> QED BY <1>1, <1>2 DEF HeldInv, TableTyped, SlotTyped, SlotsAlive, HeldIsAlive

LEMMA HeldStep ==
  ASSUME HeldInv, [ObjectsNext]_objectVars
  PROVE  HeldInv'
  <1> USE DEF Objects
  <1>0. \A os, o : o \in Unborn(os) => o \in os
    BY UnbornOf
  <1>1. CASE Refuse
    BY <1>1 DEF Refuse, HeldInv, TableTyped, SlotTyped, SlotsAlive, HeldIsAlive, Resolves
  <1>2. CASE ObjectCreate
    <2>1. PICK o \in Unborn(Counted) : /\ SameTree
                                       /\ Mint(o) \/ NoMint
                                       /\ Settle({o}, {})
      BY <1>2, Zenon DEF ObjectCreate
    <2>2. o \in Objects /\ Here(o, {o})
      BY <1>0 DEF Here
    <2>3. TableTyped' /\ TableFrom({o})
      BY <2>1, <2>2, TableMint, TableSame, Zenon
    <2>4. SlotTyped' /\ SlotsFrom({o})
      BY <2>1, SlotsSame, Zenon DEF SameTree
    <2> QED BY <2>1, <2>3, <2>4, HeldAfter
  <1>3. CASE ObjectCreateRejects
    <2>1. PICK o \in Unborn(Counted) : SameTree /\ NoMint /\ Settle({o}, {})
      BY <1>3, Zenon DEF ObjectCreateRejects, ObjectCreateRefused
    <2>2. TableTyped' /\ TableFrom({o}) /\ SlotTyped' /\ SlotsFrom({o})
      BY <2>1, TableSame, SlotsSame, Zenon DEF SameTree
    <2> QED BY <2>1, <2>2, HeldAfter
  <1>4. CASE ObjectRelease \/ ObjectReleaseAll
    <2>1. (Emptied \/ \E i \in DOMAIN table : Removed(i)) /\ SameTree /\ Settle({}, {})
      BY <1>4, Zenon DEF ObjectRelease, ObjectReleaseAll, Emptied, Removed
    <2>2. TableTyped' /\ TableFrom({}) /\ SlotTyped' /\ SlotsFrom({})
      BY <2>1, TableLess, SlotsSame, Zenon DEF SameTree
    <2> QED BY <2>1, <2>2, HeldAfter
  <1>6. CASE SetProperty
    <2>1. PICK n \in Targets \cap Nodes, v \in {Nothing} \cup {table[i].object : i \in {j \in DOMAIN table : Resolves(j)}} :
             /\ slot' = IF v \in Counted \cup {Nothing} THEN [slot EXCEPT ![n] = v] ELSE slot
             /\ NoMint /\ Settle({}, {})
      BY <1>6, Zenon DEF SetProperty
    <2>2. v = Nothing \/ Here(v, {})
      BY <2>1, Zenon DEF Resolves, Here
    <2>3. SlotTyped'
      BY <2>1 DEF HeldInv, SlotTyped
    <2>4. ASSUME NEW m \in Nodes, slot'[m] # Nothing PROVE Here(slot'[m], {})
      <3>1. slot'[m] = slot[m] \/ slot'[m] = v
        BY <2>1 DEF HeldInv, SlotTyped
      <3>2. slot[m] # Nothing => Here(slot[m], {})
        BY Zenon DEF HeldInv, SlotsAlive, Here
      <3> QED BY <2>2, <2>4, <3>1, <3>2
    <2>5. SlotsFrom({})
      BY <2>4, Zenon DEF SlotsFrom
    <2>6. TableTyped' /\ TableFrom({})
      BY <2>1, TableSame, Zenon
    <2> QED BY <2>1, <2>3, <2>5, <2>6, HeldAfter
  <1>7. CASE CallReads
    <2>1. PICK o \in {Nothing} \cup Known, capture \in BOOLEAN : Capture(o, capture) /\ SameTree /\ Settle({}, {})
      BY <1>7, Zenon DEF CallReads
    <2>2. o \in Objects \cup {Nothing}
      BY <2>1, KnownAre DEF HeldInv
    <2>3. o \in Counted => Here(o, {})
      BY <2>1, KnownLive, ObjectsAssumption DEF Here
    <2>4. TableTyped' /\ TableFrom({})
      BY <2>1, <2>2, <2>3, TableCapture, Zenon
    <2>5. SlotTyped' /\ SlotsFrom({})
      BY <2>1, SlotsSame, Zenon DEF SameTree
    <2> QED BY <2>1, <2>4, <2>5, HeldAfter
  <1>8. CASE CallMakes
    <2>1. PICK o \in Unborn(Counted) \cup Unborn(Nodes), capture \in BOOLEAN :
            Capture(o, capture) /\ slot' = slot /\ Settle({o}, {})
      BY <1>8, Zenon DEF CallMakes
    <2>2. o \in Objects \cup {Nothing} /\ Here(o, {o})
      BY <1>0, <2>1 DEF Here
    <2>3. TableTyped' /\ TableFrom({o})
      BY <2>1, <2>2, TableCapture, Zenon
    <2>4. SlotTyped' /\ SlotsFrom({o})
      BY <2>1, SlotsSame, Zenon
    <2> QED BY <2>1, <2>3, <2>4, HeldAfter
  <1>9. CASE CallWrites
    <2>0. PICK n \in Targets \cap Nodes, v \in {Nothing} \cup (Known \cap Counted), capture \in BOOLEAN :
            \E o \in {Nothing, slot[n]} : Capture(o, capture) /\ slot' = [slot EXCEPT ![n] = v] /\ Settle({}, {})
      BY <1>9, Zenon DEF CallWrites
    <2>1. PICK o \in {Nothing, slot[n]} : Capture(o, capture) /\ slot' = [slot EXCEPT ![n] = v] /\ Settle({}, {})
      BY <2>0
    <2>2. v = Nothing \/ Here(v, {})
      BY <2>0, KnownLive DEF Here
    <2>3. SlotTyped'
      BY <2>1 DEF HeldInv, SlotTyped
    <2>4. ASSUME NEW m \in Nodes, slot'[m] # Nothing PROVE Here(slot'[m], {})
      <3>1. slot'[m] = slot[m] \/ slot'[m] = v
        BY <2>1 DEF HeldInv, SlotTyped
      <3>2. slot[m] # Nothing => Here(slot[m], {})
        BY Zenon DEF HeldInv, SlotsAlive, Here
      <3> QED BY <2>2, <2>4, <3>1, <3>2
    <2>5. SlotsFrom({})
      BY <2>4, Zenon DEF SlotsFrom
    <2>6. o \in Objects \cup {Nothing} /\ (o \in Counted => Here(o, {}))
      BY <2>0, <2>1, SlotLive, ObjectsAssumption DEF Here
    <2>7. TableTyped' /\ TableFrom({})
      BY <2>1, <2>6, TableCapture, Zenon
    <2> QED BY <2>1, <2>3, <2>5, <2>7, HeldAfter
  <1>10. CASE CallRemoves \/ CallQueues
    <2>0. PICK n \in Nodes, capture \in BOOLEAN :
            \E o \in {Nothing, n} : Capture(o, capture) /\ slot' = slot /\ Settle({}, {})
      BY <1>10, Zenon DEF CallRemoves, CallQueues
    <2>1. PICK o \in {Nothing, n} : Capture(o, capture) /\ slot' = slot /\ Settle({}, {})
      BY <2>0
    <2>2. o \in Objects \cup {Nothing} /\ o \notin Counted
      BY <2>0, <2>1, ObjectsAssumption
    <2>3. TableTyped' /\ TableFrom({})
      BY <2>1, <2>2, TableCapture, Zenon
    <2> QED BY <2>1, <2>3, SlotsSame, HeldAfter
  <1>15. CASE CallFrees
    <2>0. PICK n \in Targets \cap (Nodes \ {Window}), capture \in BOOLEAN : \E o \in {Nothing, n, slot[n]} :
            Freed(Under({n})) /\ (NoMint \/ Capture(o, capture)) /\ Settle({}, Under({n}))
      BY <1>15, Zenon DEF CallFrees
    <2>1. PICK o \in {Nothing, n, slot[n]} :
            Freed(Under({n})) /\ (NoMint \/ Capture(o, capture)) /\ Settle({}, Under({n}))
      BY <2>0
    <2>2. SlotTyped' /\ SlotsFrom({})
      BY <2>1, SlotsLess, Zenon DEF Freed
    <2>3. o \in Objects \cup {Nothing} /\ (o \in Counted => Here(o, {}))
      BY <2>0, <2>1, SlotLive, ObjectsAssumption DEF Here
    <2>4. TableTyped' /\ TableFrom({})
      BY <2>1, <2>3, TableCapture, TableSame, Zenon
    <2> QED BY <2>1, <2>2, <2>4, UnderNodes, HeldAfter
  <1>11. CASE TreeInstantiate \/ TreeAddNode
    <2>1. PICK n \in Unborn(Nodes) : NoMint /\ slot' = slot /\ Settle({n}, {})
      BY <1>11, Zenon DEF TreeInstantiate, TreeAddNode
    <2> QED BY <2>1, TableSame, SlotsSame, HeldAfter
  <1>12. CASE TreeFree \/ TreeReparent \/ TreeChangeScene \/ CallAdds
    <2>1. NoMint /\ slot' = slot /\ Settle({}, {})
      BY <1>12, Zenon DEF TreeFree, TreeReparent, TreeChangeScene, CallAdds
    <2> QED BY <2>1, TableSame, SlotsSame, HeldAfter
  <1>13. CASE FrameEnds
    <2>1. NoMint
      BY <1>13, Zenon DEF FrameEnds
    <2>2. PICK old \in SUBSET {n \in Nodes : parent[n] = Window}, new \in Unborn(Nodes) \cup {Nothing} :
             /\ slot' = [n \in Nodes |-> IF n \in Under(doomed \cup old) THEN Nothing ELSE slot[n]]
             /\ Settle(Nodes \cap {new}, Under(doomed \cup old))
      BY <1>13, Zenon DEF FrameEnds
    <2>3. SlotTyped' /\ SlotsFrom(Nodes \cap {new})
      BY <2>2, SlotsLess, Zenon
    <2> QED BY <2>1, <2>2, <2>3, TableSame, UnderNodes, HeldAfter
  <1>14. CASE UNCHANGED objectVars
    BY <1>14 DEF objectVars, HeldInv, TableTyped, SlotTyped, SlotsAlive, HeldIsAlive, Resolves
  <1> QED BY ONLY [ObjectsNext]_objectVars, <1>1, <1>2, <1>3, <1>4, <1>6, <1>7, <1>8, <1>9, <1>10, <1>11, <1>12,
             <1>13, <1>14, <1>15, Zenon DEF ObjectsNext

------------------------------------------------------------------------------
(* The theorems.                                                            *)

LEMMA ObjectsInvariant == ObjectsSpec => [](TableInv /\ HeldInv)
  <1>1. ObjectsInit => TableInv /\ HeldInv
    BY TableInvInit, HeldInit
  <1>2. TableInv /\ HeldInv /\ [ObjectsNext]_objectVars => (TableInv /\ HeldInv)'
    BY TableInvStep, HeldStep DEF HeldInv
  <1> QED BY <1>1, <1>2, PTL DEF ObjectsSpec

\* A RefCounted object with a handle is alive: the handle is its ownership
\* (objects.rs: create), whatever properties, calls and freed nodes drop.
THEOREM HeldObjectsLive == ObjectsSpec => []HeldIsAlive
  <1>1. HeldInv => HeldIsAlive
    BY DEF HeldInv
  <1> QED BY <1>1, ObjectsInvariant, PTL

\* The handle table implements the registry: ids are never reused, never renamed and
\* never evicted (handles.rs: mint, release, release_all).
THEOREM HandlesRefine == ObjectsSpec => HandlesAreHonest
  <1>1. ObjectsInit => Registry!Init
    BY RegistryInit
  <1>2. TableInv /\ HeldInv /\ [ObjectsNext]_objectVars => [Registry!Next]_(Registry!registryVars)
    BY RegistryStep DEF HeldInv
  <1> QED BY <1>1, <1>2, ObjectsInvariant, PTL DEF ObjectsSpec, HandlesAreHonest, Registry!Spec

------------------------------------------------------------------------------
(* No node is left behind.                                                  *)

NodesTyped ==
  /\ life \in [Objects -> {"unborn", "live", "dead"}]
  /\ parent \in [Nodes -> Nodes \cup {Nothing}]
  /\ doomed \subseteq Nodes /\ strays \subseteq Nodes

UnbornAreApart == \A n \in Nodes : life[n] = "unborn" => parent[n] = Nothing

NodesInv == NodesTyped /\ UnbornAreApart /\ NoOrphans

Roots == {Window} \cup doomed \cup strays

\* A set with these that is closed has whatever is under them.
LEMMA UnderIsLeast ==
  ASSUME NEW ns, NEW above \in SUBSET Nodes, ns \subseteq above, Closed(above)
  PROVE  Under(ns) \subseteq above
  BY Zenon DEF Under

LEMMA UnderIsClosed ==
  ASSUME NEW ns, ns \subseteq Nodes
  PROVE  ns \subseteq Under(ns) /\ Closed(Under(ns))
  <1>1. ns \subseteq Under(ns)
    BY Zenon DEF Under
  <1>2. Closed(Under(ns))
    <2> SUFFICES ASSUME NEW n \in Nodes, parent[n] \in Under(ns),
                        NEW above \in SUBSET Nodes, ns \subseteq above, Closed(above)
                 PROVE  n \in above
      BY Zenon DEF Under, Closed
    <2>1. parent[n] \in above
      BY UnderIsLeast
    <2> QED BY <2>1, Zenon DEF Closed
  <1> QED BY <1>1, <1>2

\* A node under the window that is not the window has a parent.
LEMMA InTreeHasParent ==
  ASSUME NodesTyped, NEW n \in InTree, n # Window
  PROVE  n \in Nodes /\ parent[n] # Nothing
  <1> DEFINE above == {Window} \cup {m \in Nodes : parent[m] # Nothing}
  <1>1. above \in SUBSET Nodes /\ Nothing \notin Nodes
    BY ObjectsAssumption
  <1>2. Closed(above)
    BY <1>1 DEF Closed
  <1>3. InTree \subseteq above
    BY <1>1, <1>2, UnderIsLeast DEF InTree
  <1> QED BY <1>1, <1>3

\* The step: every closed set that has the roots to come has every node that lives.
LEMMA OrphansAfter ==
  ASSUME NodesTyped', doomed' \subseteq Nodes,
         \A above \in SUBSET Nodes :
           Roots' \subseteq above /\ Closed(above)' => \A n \in Nodes : life'[n] = "live" => n \in above
  PROVE  NoOrphans'
  <1> SUFFICES ASSUME NEW n \in Nodes, life'[n] = "live", NEW above \in SUBSET Nodes,
                      ({Window} \cup doomed' \cup strays') \subseteq above, Closed(above)'
               PROVE  n \in above
    BY DEF NoOrphans, Under, Closed
  <1> QED BY DEF Roots

\* What lives is in every closed set that has the roots.
LEMMA LiveAreAbove ==
  ASSUME NoOrphans, NEW above \in SUBSET Nodes, Roots \subseteq above, Closed(above), NEW n \in Nodes, life[n] = "live"
  PROVE  n \in above
  <1>1. n \in Under(Roots)
    BY DEF NoOrphans, Roots
  <1> QED BY <1>1, UnderIsLeast

\* What Settle does to nodes.
LEMMA SettleNodes ==
  ASSUME NEW born, NEW freed, Settle(born, freed), life \in [Objects -> {"unborn", "live", "dead"}]
  PROVE  /\ life' \in [Objects -> {"unborn", "live", "dead"}]
         /\ \A n \in Nodes : life'[n] = IF n \in freed THEN "dead" ELSE IF n \in born THEN "live" ELSE life[n]
  <1>1. \A n \in Nodes : n \in Objects /\ n \notin Counted
    BY ObjectsAssumption DEF Objects
  <1> QED BY <1>1 DEF Settle

\* Steps that leave the tree alone and make no node.
LEMMA NodesSame ==
  ASSUME NodesInv, UNCHANGED parent, doomed \subseteq doomed', strays \subseteq strays',
         doomed' \subseteq Nodes, strays' \subseteq Nodes,
         life' \in [Objects -> {"unborn", "live", "dead"}],
         \A n \in Nodes : \/ life'[n] = life[n]
                          \/ life[n] = "unborn" /\ life'[n] = "live" /\ n \in doomed' \cup strays'
  PROVE  NodesInv'
  <1>1. NodesTyped' /\ UnbornAreApart'
    BY DEF NodesInv, NodesTyped, UnbornAreApart
  <1>2. ASSUME NEW above \in SUBSET Nodes, Roots' \subseteq above, Closed(above)', NEW n \in Nodes, life'[n] = "live"
        PROVE  n \in above
    <2>1. Roots \subseteq above /\ Closed(above) /\ doomed' \cup strays' \subseteq above
      BY <1>2 DEF Roots, Closed
    <2>2. CASE life'[n] = life[n]
      BY <1>2, <2>1, <2>2, LiveAreAbove DEF NodesInv
    <2>3. CASE n \in doomed' \cup strays'
      BY <2>1, <2>3
    <2> QED BY <2>2, <2>3
  <1> QED BY <1>1, <1>2, OrphansAfter DEF NodesInv

\* A tool that makes no node and changes nothing in the tree.
LEMMA NodesQuiet ==
  ASSUME NodesInv, UNCHANGED <<parent, strays>>, doomed \subseteq doomed', doomed' \subseteq Nodes,
         NEW born, born \cap Nodes = {}, Settle(born, {})
  PROVE  NodesInv'
  <1>1. life' \in [Objects -> {"unborn", "live", "dead"}] /\ \A n \in Nodes : life'[n] = life[n]
    BY SettleNodes DEF NodesInv, NodesTyped
  <1> QED BY <1>1, NodesSame DEF NodesInv, NodesTyped

\* A new node below one in the tree.
LEMMA NodesPlace ==
  ASSUME NodesInv, NEW n \in Nodes, NEW p \in InTree, life[n] = "unborn", Place(n, p),
         UNCHANGED <<doomed, strays>>, Settle({n}, {})
  PROVE  NodesInv'
  <1>1. /\ life' \in [Objects -> {"unborn", "live", "dead"}]
        /\ \A m \in Nodes : life'[m] = IF m = n THEN "live" ELSE life[m]
    BY SettleNodes DEF NodesInv, NodesTyped
  <1>2. /\ parent[n] = Nothing /\ p \in Nodes /\ Nothing \notin Nodes
        /\ parent' \in [Nodes -> Nodes \cup {Nothing}]
        /\ parent'[n] = p /\ \A m \in Nodes : m # n => parent'[m] = parent[m]
    BY UnderNodes, ObjectsAssumption DEF NodesInv, NodesTyped, UnbornAreApart, Place, InTree
  <1>3. NodesTyped' /\ UnbornAreApart'
    BY <1>1, <1>2 DEF NodesInv, NodesTyped, UnbornAreApart
  <1>4. ASSUME NEW above \in SUBSET Nodes, Roots' \subseteq above, Closed(above)', NEW m \in Nodes, life'[m] = "live"
        PROVE  m \in above
    <2>1. Roots \subseteq above /\ Window \in above
      BY <1>4 DEF Roots
    <2>2. Closed(above)
      BY <1>2, <1>4 DEF Closed
    <2>3. p \in above
      BY <2>1, <2>2, UnderIsLeast DEF InTree
    <2>4. n \in above
      BY <1>2, <1>4, <2>3 DEF Closed
    <2> QED BY <1>1, <1>4, <2>1, <2>2, <2>4, LiveAreAbove DEF NodesInv
  <1> QED BY <1>3, <1>4, OrphansAfter DEF NodesInv, NodesTyped

\* Freed nodes go with all that is under them.
LEMMA NodesFreed ==
  ASSUME NodesInv, NEW ns \in SUBSET Nodes, NEW new \in SUBSET Nodes,
         \A n \in new : life[n] = "unborn",
         \A n \in Nodes : parent'[n] = IF n \in Under(ns) THEN Nothing ELSE IF n \in new THEN Window ELSE parent[n],
         parent' = [n \in Nodes |-> parent'[n]],
         strays' = strays \ Under(ns), doomed \ Under(ns) \subseteq doomed', doomed' \subseteq doomed,
         Settle(new, Under(ns))
  PROVE  NodesInv'
  <1> DEFINE gone == Under(ns)
  <1>1. gone \subseteq Nodes /\ Closed(gone)
    BY UnderNodes, UnderIsClosed
  <1>2. /\ life' \in [Objects -> {"unborn", "live", "dead"}]
        /\ \A m \in Nodes : life'[m] = IF m \in gone THEN "dead" ELSE IF m \in new THEN "live" ELSE life[m]
    BY SettleNodes DEF NodesInv, NodesTyped
  <1> HIDE DEF gone
  <1>3. NodesTyped' /\ UnbornAreApart'
    <2>1. Window \in Nodes
      BY ObjectsAssumption
    <2>2. \A n \in Nodes : parent'[n] = IF n \in gone THEN Nothing ELSE IF n \in new THEN Window ELSE parent[n]
      BY DEF gone
    <2>3. \A n \in Nodes : parent'[n] \in Nodes \cup {Nothing}
      BY <2>1, <2>2 DEF NodesInv, NodesTyped
    <2>4. NodesTyped'
      BY <1>2, <2>3 DEF NodesInv, NodesTyped
    <2>5. UnbornAreApart'
      BY <1>2, <2>2 DEF NodesInv, UnbornAreApart
    <2> QED BY <2>4, <2>5
  <1>4. ASSUME NEW above \in SUBSET Nodes, Roots' \subseteq above, Closed(above)', NEW m \in Nodes, life'[m] = "live"
        PROVE  m \in above
    <2> DEFINE all == above \cup gone
    <2>1. all \in SUBSET Nodes /\ Window \in above
      BY <1>1, <1>4 DEF Roots
    <2>2. Roots \subseteq all
      BY <1>4 DEF Roots, gone
    <2>3. ASSUME NEW n \in Nodes, parent[n] \in all PROVE n \in all
      <3>1. CASE parent[n] \in gone
        BY <1>1, <3>1 DEF Closed
      <3>2. CASE n \in gone
        BY <3>2
      <3>3. CASE parent[n] \in above /\ n \notin gone
        <4>1. parent'[n] = Window \/ parent'[n] = parent[n]
          BY <3>3 DEF gone
        <4> QED BY <1>4, <2>1, <3>3, <4>1 DEF Closed
      <3> QED BY <2>3, <3>1, <3>2, <3>3
    <2>4. Closed(all)
      BY <2>3 DEF Closed
    <2>5. m \notin gone
      BY <1>2, <1>4
    <2>6. CASE m \in new
      <3>1. parent'[m] = Window
        BY <2>5, <2>6 DEF gone
      <3> QED BY <1>4, <2>1, <3>1 DEF Closed
    <2>7. CASE m \notin new
      <3>1. life[m] = "live"
        BY <1>2, <1>4, <2>5, <2>7
      <3> HIDE DEF all
      <3>2. m \in all
        BY <2>1, <2>2, <2>4, <3>1, LiveAreAbove DEF NodesInv
      <3> QED BY <2>5, <3>2 DEF all
    <2> QED BY <2>6, <2>7
  <1> QED BY <1>3, <1>4, OrphansAfter DEF NodesInv, NodesTyped

\* A node taken out of the tree is a stray.
LEMMA NodesRemoved ==
  ASSUME NodesInv, NEW n \in Nodes, parent' = [parent EXCEPT ![n] = Nothing], strays' = strays \cup {n},
         UNCHANGED doomed, Settle({}, {})
  PROVE  NodesInv'
  <1>1. life' \in [Objects -> {"unborn", "live", "dead"}] /\ \A m \in Nodes : life'[m] = life[m]
    BY SettleNodes DEF NodesInv, NodesTyped
  <1>2. \A m \in Nodes : m # n => parent'[m] = parent[m]
    BY DEF NodesInv, NodesTyped
  <1>3. NodesTyped' /\ UnbornAreApart'
    BY <1>1 DEF NodesInv, NodesTyped, UnbornAreApart
  <1>4. ASSUME NEW above \in SUBSET Nodes, Roots' \subseteq above, Closed(above)', NEW m \in Nodes, life'[m] = "live"
        PROVE  m \in above
    <2>1. Roots \subseteq above /\ n \in above
      BY <1>4 DEF Roots
    <2>2. Closed(above)
      BY <1>2, <1>4, <2>1 DEF Closed
    <2> QED BY <1>1, <1>4, <2>1, <2>2, LiveAreAbove DEF NodesInv
  <1> QED BY <1>3, <1>4, OrphansAfter DEF NodesInv, NodesTyped

\* A node moved to one of the tree that is not below it.
LEMMA NodesMoved ==
  ASSUME NodesInv, NEW n \in Nodes, NEW p \in InTree, n # Window, p \notin Under({n}), Place(n, p),
         life[n] # "unborn", UNCHANGED doomed, strays' \in {strays, strays \ {n}}, Settle({}, {})
  PROVE  NodesInv'
  <1>1. life' \in [Objects -> {"unborn", "live", "dead"}] /\ \A m \in Nodes : life'[m] = life[m]
    BY SettleNodes DEF NodesInv, NodesTyped
  <1>2. n \in Nodes /\ p \in Nodes
    BY UnderNodes DEF InTree
  <1>3. parent' \in [Nodes -> Nodes \cup {Nothing}] /\ parent'[n] = p /\ \A m \in Nodes : m # n => parent'[m] = parent[m]
    BY <1>2 DEF NodesInv, NodesTyped, Place
  <1>4. NodesTyped' /\ UnbornAreApart'
    <2>1. strays' \subseteq Nodes
      BY DEF NodesInv, NodesTyped
    <2> QED BY <1>1, <1>3, <2>1 DEF NodesInv, NodesTyped, UnbornAreApart
  <1>5. ASSUME NEW above \in SUBSET Nodes, Roots' \subseteq above, Closed(above)', NEW m \in Nodes, life'[m] = "live"
        PROVE  m \in above
    <2> DEFINE branch == Under({n})
               all == above \cup branch
    <2>1. branch \subseteq Nodes /\ n \in branch /\ Closed(branch) /\ p \notin branch
      BY <1>2, UnderNodes, UnderIsClosed
    <2> HIDE DEF branch
    <2>2. all \in SUBSET Nodes /\ Window \in all
      BY <1>5, <2>1 DEF Roots
    <2>3. Closed(all)
      <3> SUFFICES ASSUME NEW x \in Nodes, parent[x] \in all PROVE x \in all
        BY DEF Closed
      <3>1. CASE parent[x] \in branch
        BY <2>1, <3>1 DEF Closed
      <3>2. CASE parent[x] \in above /\ x # n
        BY <1>3, <1>5, <3>2 DEF Closed
      <3>3. CASE x = n
        BY <2>1, <3>3
      <3> QED BY <3>1, <3>2, <3>3
    <2> HIDE DEF all
    <2>4. p \in all
      BY <2>2, <2>3, UnderIsLeast DEF InTree
    <2>5. p \in above
      BY <2>1, <2>4 DEF all
    <2>6. n \in above
      BY <1>2, <1>3, <1>5, <2>5 DEF Closed
    <2>7. Closed(above)
      BY <1>3, <1>5, <2>6 DEF Closed
    <2>8. Roots \subseteq above
      BY <1>5, <2>6 DEF Roots
    <2> QED BY <1>1, <1>5, <2>7, <2>8, LiveAreAbove DEF NodesInv
  <1> QED BY <1>4, <1>5, OrphansAfter DEF NodesInv, NodesTyped

LEMMA NodesStart == ObjectsInit => NodesInv
  <1> SUFFICES ASSUME ObjectsInit PROVE NodesInv
    OBVIOUS
  <1>1. NodesTyped /\ UnbornAreApart
    BY ObjectsAssumption DEF ObjectsInit, NodesTyped, UnbornAreApart
  <1>2. ASSUME NEW n \in Nodes, life[n] = "live" PROVE n = Window
    BY <1>2, ObjectsAssumption DEF ObjectsInit, Objects
  <1>3. Window \in Under(Roots) /\ Roots = {Window} \cup doomed \cup strays
    BY <1>1, ObjectsAssumption, UnderIsClosed DEF Roots, NodesTyped
  <1> QED BY <1>1, <1>2, <1>3 DEF NodesInv, NoOrphans

LEMMA NodesStep == ASSUME NodesInv, [ObjectsNext]_objectVars PROVE NodesInv'
  <1>0. Counted \cap Nodes = {} /\ Window \in Nodes /\ Nothing \notin Nodes /\ doomed \subseteq Nodes /\ strays \subseteq Nodes
    BY ObjectsAssumption DEF NodesInv, NodesTyped
  <1>1. CASE Refuse \/ UNCHANGED objectVars
    <2>1. UNCHANGED <<life, parent, doomed, strays>>
      BY <1>1 DEF Refuse, objectVars
    <2> QED BY <1>0, <2>1, NodesSame DEF NodesInv, NodesTyped
  <1>2. CASE ObjectCreate \/ ObjectCreateRejects
    <2>1. PICK o \in Unborn(Counted) : SameTree /\ Settle({o}, {})
      BY <1>2 DEF ObjectCreate, ObjectCreateRejects
    <2>2. {o} \cap Nodes = {}
      BY <1>0, <2>1, UnbornOf
    <2> QED BY <1>0, <2>1, <2>2, NodesQuiet DEF SameTree
  <1>3. CASE ObjectRelease \/ ObjectReleaseAll \/ CallReads \/ CallWrites \/ TreeChangeScene \/ SetProperty
    <2>1. UNCHANGED <<parent, doomed, strays>> /\ Settle({}, {})
      BY <1>3 DEF ObjectRelease, ObjectReleaseAll, CallReads, CallWrites, TreeChangeScene, SetProperty, SameTree
    <2> QED BY <1>0, <2>1, NodesQuiet
  <1>11. CASE CallMakes
    <2>1. PICK o \in Unborn(Counted) \cup Unborn(Nodes) :
            strays' = strays \cup ({o} \cap Nodes) /\ UNCHANGED <<parent, doomed>> /\ Settle({o}, {})
      BY <1>11 DEF CallMakes
    <2>2. life[o] = "unborn"
      BY <2>1, UnbornOf
    <2>3. life' \in [Objects -> {"unborn", "live", "dead"}] /\ \A m \in Nodes : life'[m] = IF m = o THEN "live" ELSE life[m]
      BY <2>1, SettleNodes DEF NodesInv, NodesTyped
    <2>4. \A m \in Nodes : life'[m] = life[m] \/ (life[m] = "unborn" /\ life'[m] = "live" /\ m \in doomed' \cup strays')
      BY <2>1, <2>2, <2>3
    <2>5. strays \subseteq strays' /\ strays' \subseteq Nodes /\ doomed \subseteq doomed' /\ doomed' \subseteq Nodes
      BY <1>0, <2>1
    <2> QED BY <2>1, <2>3, <2>4, <2>5, NodesSame
  <1>12. CASE CallAdds
    <2>1. PICK n \in Targets \cap Nodes, p \in InTree :
            /\ parent[n] = Nothing /\ MayMove(n, p) /\ Place(n, p) /\ strays' = strays \ {n}
            /\ UNCHANGED doomed /\ Settle({}, {})
      BY <1>12 DEF CallAdds
    <2>2. n \notin InTree
      BY <2>1, InTreeHasParent DEF MayMove, NodesInv
    <2>3. life[n] = "live"
      BY <2>1, <2>2 DEF Targets, Resolves
    <2> QED BY <2>1, <2>3, NodesMoved DEF MayMove
  <1>13. CASE CallQueues
    <2>1. PICK n \in Nodes : doomed' = doomed \cup {n} /\ UNCHANGED <<parent, strays>> /\ Settle({}, {})
      BY <1>13 DEF CallQueues
    <2> QED BY <1>0, <2>1, NodesQuiet
  <1>4. CASE CallRemoves
    <2>1. PICK n \in Nodes :
            /\ parent' = [parent EXCEPT ![n] = Nothing] /\ strays' = strays \cup {n}
            /\ UNCHANGED doomed /\ Settle({}, {})
      BY <1>4 DEF CallRemoves
    <2> QED BY <2>1, NodesRemoved
  <1>5. CASE CallFrees
    <2>1. PICK n \in Nodes : /\ Freed(Under({n})) /\ doomed' = doomed \ Under({n}) /\ Settle({}, Under({n}))
      BY <1>5 DEF CallFrees
    <2>2. /\ \A m \in Nodes : parent'[m] = IF m \in Under({n}) THEN Nothing ELSE IF m \in {} THEN Window ELSE parent[m]
          /\ parent' = [m \in Nodes |-> parent'[m]] /\ strays' = strays \ Under({n})
      BY <2>1 DEF Freed
    <2>3. {n} \in SUBSET Nodes /\ {} \in SUBSET Nodes /\ doomed' \subseteq doomed
      BY <2>1
    <2> QED BY <2>1, <2>2, <2>3, NodesFreed
  <1>6. CASE TreeInstantiate
    <2>1. PICK n \in Unborn(Nodes), p \in InTree, rejected \in BOOLEAN :
            /\ IF rejected THEN UNCHANGED parent /\ strays' = strays \cup {n} ELSE Place(n, p) /\ UNCHANGED strays
            /\ UNCHANGED doomed /\ Settle({n}, {})
      BY <1>6 DEF TreeInstantiate
    <2>2. n \in Nodes /\ life[n] = "unborn"
      BY UnbornOf
    <2>3. CASE rejected
      <3>1. life' \in [Objects -> {"unborn", "live", "dead"}] /\ \A m \in Nodes : life'[m] = IF m = n THEN "live" ELSE life[m]
        BY <2>1, SettleNodes DEF NodesInv, NodesTyped
      <3> QED BY <1>0, <2>1, <2>2, <2>3, <3>1, NodesSame
    <2>4. CASE ~rejected
      BY <2>1, <2>2, <2>4, NodesPlace
    <2> QED BY <2>3, <2>4
  <1>7. CASE TreeAddNode
    <2>1. PICK n \in Unborn(Nodes), p \in InTree :
            /\ \/ Place(n, p) /\ UNCHANGED <<doomed, strays>>
               \/ doomed' = doomed \cup {n} /\ UNCHANGED <<parent, strays>>
               \/ strays' = strays \cup {n} /\ UNCHANGED <<parent, doomed>>
            /\ Settle({n}, {})
      BY <1>7 DEF TreeAddNode, AddRejected
    <2>2. n \in Nodes /\ life[n] = "unborn"
      BY UnbornOf
    <2>3. life' \in [Objects -> {"unborn", "live", "dead"}] /\ \A m \in Nodes : life'[m] = IF m = n THEN "live" ELSE life[m]
      BY <2>1, SettleNodes DEF NodesInv, NodesTyped
    <2>4. CASE Place(n, p) /\ UNCHANGED <<doomed, strays>>
      BY <2>1, <2>2, <2>4, NodesPlace
    <2>5. CASE doomed' = doomed \cup {n} /\ UNCHANGED <<parent, strays>>
      BY <1>0, <2>2, <2>3, <2>5, NodesSame
    <2>6. CASE strays' = strays \cup {n} /\ UNCHANGED <<parent, doomed>>
      BY <1>0, <2>2, <2>3, <2>6, NodesSame
    <2> QED BY <2>1, <2>4, <2>5, <2>6
  <1>8. CASE TreeFree
    <2>1. PICK n \in InTree : doomed' = doomed \cup {n} /\ UNCHANGED <<parent, strays>> /\ Settle({}, {})
      BY <1>8 DEF TreeFree
    <2>2. n \in Nodes
      BY UnderNodes DEF InTree
    <2> QED BY <1>0, <2>1, <2>2, NodesQuiet
  <1>9. CASE TreeReparent
    <2>1. PICK n \in InTree, p \in InTree :
            /\ n # Window /\ p \notin Under({n}) /\ Place(n, p) /\ UNCHANGED <<doomed, strays>> /\ Settle({}, {})
      BY <1>9 DEF TreeReparent, MayMove
    <2>2. n \in Nodes /\ parent[n] # Nothing
      BY <2>1, InTreeHasParent DEF NodesInv
    <2>3. life[n] # "unborn"
      BY <2>2 DEF NodesInv, UnbornAreApart
    <2> QED BY <2>1, <2>2, <2>3, NodesMoved
  <1>10. CASE FrameEnds
    <2>1. PICK old \in SUBSET {n \in Nodes : parent[n] = Window}, new \in Unborn(Nodes) \cup {Nothing} :
            LET gone == Under(doomed \cup old) IN
            /\ parent' = [n \in Nodes |-> IF n \in gone THEN Nothing ELSE IF n = new THEN Window ELSE parent[n]]
            /\ strays' = strays \ gone /\ Settle(Nodes \cap {new}, gone)
      BY <1>10 DEF FrameEnds
    <2> DEFINE ns == doomed \cup old
               made == Nodes \cap {new}
    <2>2. /\ \A m \in Nodes : parent'[m] = IF m \in Under(ns) THEN Nothing ELSE IF m \in made THEN Window ELSE parent[m]
          /\ parent' = [m \in Nodes |-> parent'[m]] /\ strays' = strays \ Under(ns) /\ Settle(made, Under(ns))
      BY <2>1
    <2>3. ns \in SUBSET Nodes /\ made \in SUBSET Nodes /\ \A n \in made : life[n] = "unborn"
      BY <1>0, <2>1, UnbornOf
    <2> HIDE DEF ns
    <2>4. doomed \subseteq Under(ns)
      BY <2>3, UnderIsClosed DEF ns
    <2>5. doomed' = {}
      BY <1>10 DEF FrameEnds
    <2> HIDE DEF made
    <2> QED BY <2>2, <2>3, <2>4, <2>5, NodesFreed
  <1> QED BY <1>1, <1>2, <1>3, <1>4, <1>5, <1>6, <1>7, <1>8, <1>9, <1>10, <1>11, <1>12, <1>13 DEF ObjectsNext

------------------------------------------------------------------------------
(* A refused call changes nothing.                                          *)

\* A RefCounted object lives as long as something refers to it, and no longer.
CountedAreReferenced == \A o \in Counted : life[o] = "live" => Referenced(o, table, slot)

ReferencesInv == TableInv /\ HeldInv /\ NodesInv /\ CountedAreReferenced

LEMMA SettleCounts ==
  ASSUME NEW born, NEW freed, Settle(born, freed)
  PROVE  CountedAreReferenced'
  <1> SUFFICES ASSUME NEW o \in Counted, life'[o] = "live", ~Referenced(o, table', slot') PROVE FALSE
    BY DEF CountedAreReferenced, Referenced
  <1>1. life'[o] = IF o \in freed \/ (o \in Counted /\ (o \in born \/ life[o] = "live") /\ ~Referenced(o, table', slot'))
                   THEN "dead"
                   ELSE IF o \in born THEN "live" ELSE life[o]
    BY Zenon DEF Settle, Objects
  <1> QED BY <1>1

LEMMA ReferencesStep == ASSUME ReferencesInv, [ObjectsNext]_objectVars PROVE ReferencesInv'
  <1>1. CASE Refuse \/ UNCHANGED objectVars
    <2>1. UNCHANGED <<life, table, slot>>
      BY <1>1 DEF Refuse, objectVars
    <2>2. CountedAreReferenced'
      BY <2>1 DEF ReferencesInv, CountedAreReferenced, Referenced
    <2> QED BY <2>2, TableInvStep, HeldStep, NodesStep DEF ReferencesInv, HeldInv
  <1>2. ASSUME ObjectsNext, ~Refuse PROVE \E born, freed : Settle(born, freed)
    BY <1>2, Zenon DEF ObjectsNext, ObjectCreate, ObjectCreateRejects, ObjectRelease, ObjectReleaseAll, SetProperty,
       CallReads, CallMakes, CallWrites, CallRemoves, CallAdds, CallQueues, CallFrees, TreeInstantiate, TreeAddNode, TreeFree, TreeReparent,
       TreeChangeScene, FrameEnds
  <1>3. CASE ObjectsNext /\ ~Refuse
    BY <1>2, <1>3, SettleCounts, TableInvStep, HeldStep, NodesStep DEF ReferencesInv, HeldInv
  <1> QED BY <1>1, <1>3

\* A call that leaves what refers to objects alone drops none, and what it makes
\* and nobody refers to is gone.
LEMMA SettleQuiet ==
  ASSUME ReferencesInv, UNCHANGED <<table, slot>>, NEW born, Settle(born, {})
  PROVE  /\ \A o \in Objects : life[o] = "live" => life'[o] = "live"
         /\ \A o \in Objects : life[o] = "unborn" /\ life'[o] = "live" => o \in born \cap Nodes
  <1>0. \A o \in Objects :
          life'[o] = IF o \in Counted /\ (o \in born \/ life[o] = "live") /\ ~Referenced(o, table', slot')
                     THEN "dead"
                     ELSE IF o \in born THEN "live" ELSE life[o]
    BY DEF Settle
  <1>1. \A o : Referenced(o, table', slot') <=> Referenced(o, table, slot)
    BY DEF Referenced
  <1>2. ASSUME NEW o \in Objects, life[o] = "live" PROVE life'[o] = "live"
    BY <1>0, <1>1, <1>2 DEF ReferencesInv, CountedAreReferenced
  <1>3. ASSUME NEW o \in Objects, life[o] = "unborn", life'[o] = "live" PROVE o \in born \cap Nodes
    <2>1. o \in born
      BY <1>0, <1>3
    <2>2. o \notin Counted
      <3>1. SUFFICES ASSUME o \in Counted PROVE FALSE
        OBVIOUS
      <3>2. Referenced(o, table, slot)
        BY <1>0, <1>1, <1>3, <2>1, <3>1
      <3>3. CASE \E i \in DOMAIN table : table[i].object = o /\ table[i].strong
        BY <1>3, <3>1, <3>3 DEF ReferencesInv, HeldInv, HeldIsAlive, Resolves
      <3>4. CASE \E n \in Nodes : slot[n] = o
        BY <1>3, <3>1, <3>4, ObjectsAssumption DEF ReferencesInv, HeldInv, SlotsAlive
      <3> QED BY <3>2, <3>3, <3>4 DEF Referenced
    <2> QED BY <2>1, <2>2 DEF Objects
  <1> QED BY <1>2, <1>3

\* What a refused call keeps; it makes a node only to leave it to the frame, or as a
\* stray.
ChangesNothing ==
  /\ UNCHANGED <<table, nextId, parent, slot, switching>>
  /\ \A o \in Objects : life[o] = "live" => life'[o] = "live"
  /\ \A o \in Objects : life[o] = "unborn" /\ life'[o] = "live" => o \in doomed' \cup strays'

\* A method that is called has run: the answer is no refusal, and one without the
\* result took no handle.
LEMMA CaptureAnswers ==
  ASSUME NEW o, NEW capture, Capture(o, capture)
  PROVE  answer' # "refused" /\ (answer' = "uncaptured" => NoMint)
  BY DEF Capture

LEMMA CallsAnswer ==
  ASSUME CallReads \/ CallMakes \/ CallWrites \/ CallRemoves \/ CallAdds \/ CallQueues \/ CallFrees
  PROVE  answer' # "refused" /\ (answer' = "uncaptured" => NoMint)
  <1>1. CASE CallAdds
    BY <1>1 DEF CallAdds
  <1>2. CASE CallFrees
    <2>1. PICK o, capture : (NoMint /\ answer' = "uncaptured") \/ Capture(o, capture)
      BY <1>2, Zenon DEF CallFrees
    <2> QED BY <2>1, CaptureAnswers
  <1>3. CASE CallReads \/ CallMakes \/ CallWrites \/ CallRemoves \/ CallQueues
    <2>1. PICK o, capture : Capture(o, capture)
      BY <1>3, Zenon DEF CallReads, CallMakes, CallWrites, CallRemoves, CallQueues
    <2> QED BY <2>1, CaptureAnswers
  <1> QED BY <1>1, <1>2, <1>3

LEMMA RefusedStep ==
  ASSUME ReferencesInv, ObjectsNext
  PROVE  /\ answer' = "refused" => ChangesNothing
         /\ answer' = "uncaptured" => UNCHANGED <<table, nextId>>
  <1>1. CASE Refuse
    BY <1>1 DEF Refuse, ChangesNothing
  <1>2. ASSUME NEW born, Settle(born, {}), UNCHANGED <<table, nextId, parent, slot, switching>>,
               born \cap Nodes \subseteq doomed' \cup strays'
        PROVE  ChangesNothing
    BY <1>2, SettleQuiet DEF ChangesNothing
  <1>3. CASE ObjectCreate \/ ObjectCreateRejects
    <2>1. answer' # "uncaptured"
      BY <1>3 DEF ObjectCreate, ObjectCreateRejects
    <2>2. ASSUME answer' = "refused" PROVE ChangesNothing
      <3>1. PICK o \in Unborn(Counted) : SameTree /\ NoMint /\ Settle({o}, {})
        BY <1>3, <2>2 DEF ObjectCreate, ObjectCreateRejects, ObjectCreateRefused
      <3>2. {o} \cap Nodes = {}
        BY UnbornOf, ObjectsAssumption
      <3> QED BY <1>2, <3>1, <3>2 DEF SameTree, NoMint
    <2> QED BY <2>1, <2>2
  <1>4. CASE CallReads \/ CallMakes \/ CallWrites \/ CallRemoves \/ CallAdds \/ CallQueues \/ CallFrees
    BY <1>4, CallsAnswer DEF NoMint
  <1>5. CASE TreeInstantiate \/ TreeAddNode
    <2>1. answer' # "uncaptured"
      BY <1>5 DEF TreeInstantiate, TreeAddNode
    <2>2. ASSUME answer' = "refused" PROVE ChangesNothing
      <3>1. PICK n \in Unborn(Nodes) :
              /\ UNCHANGED parent /\ n \in doomed' \cup strays' /\ NoMint /\ UNCHANGED <<slot, switching>> /\ Settle({n}, {})
        BY <1>5, <2>2 DEF TreeInstantiate, TreeAddNode, AddRejected
      <3> QED BY <1>2, <3>1 DEF NoMint
    <2> QED BY <2>1, <2>2
  <1>6. CASE ObjectRelease \/ ObjectReleaseAll \/ SetProperty \/ TreeFree \/ TreeReparent \/ TreeChangeScene \/ FrameEnds
    BY <1>6 DEF ObjectRelease, ObjectReleaseAll, SetProperty, TreeFree, TreeReparent, TreeChangeScene, FrameEnds
  <1> QED BY <1>1, <1>3, <1>4, <1>5, <1>6 DEF ObjectsNext

LEMMA ReferencesStart == ObjectsInit => ReferencesInv
  <1> SUFFICES ASSUME ObjectsInit PROVE CountedAreReferenced
    BY TableInvInit, HeldInit, NodesStart DEF ReferencesInv
  <1>1. \A o \in Counted : o \in Objects /\ o # Window
    BY ObjectsAssumption DEF Objects
  <1> QED BY <1>1 DEF ObjectsInit, CountedAreReferenced

LEMMA ReferencesHold == ObjectsSpec => []ReferencesInv
  <1> QED BY ReferencesStart, ReferencesStep, PTL DEF ObjectsSpec

\* A call that is refused changes nothing that was there, and what it made is gone or
\* goes with the frame, or is a stray; one whose result could not be taken took no
\* handle (objects.rs, call.rs, mutate.rs).
THEOREM RefusalsChangeNothing == ObjectsSpec => RefusedChangesNothing
  <1>1. ReferencesInv /\ [ObjectsNext]_objectVars =>
          [/\ answer' = "refused" =>
                /\ UNCHANGED <<table, nextId, parent, slot, switching>>
                /\ \A o \in Objects : life[o] = "live" => life'[o] = "live"
                /\ \A o \in Objects : life[o] = "unborn" /\ life'[o] = "live" => o \in doomed' \cup strays'
           /\ answer' = "uncaptured" => UNCHANGED <<table, nextId>>]_objectVars
    BY RefusedStep DEF ChangesNothing
  <1> QED BY <1>1, ReferencesHold, PTL DEF ObjectsSpec, RefusedChangesNothing

----------------------------------------------------------------------------
(* Suspended calls. *)

OpStates == {"new", "pending", "ok", "error", "failed"}
OpKinds == {"none", "frames", "time", "step", "shot", "eval", "http", "await"}
OpRecord == [st : OpStates, kind : OpKinds, left : Nat, was : BOOLEAN, event : BOOLEAN, bad : BOOLEAN,
             total : Nat, ran : Nat, alone : BOOLEAN]

FramesTyped ==
  /\ ops \in [Ops -> OpRecord]
  /\ phase \in {"game", "calls"} /\ paused \in BOOLEAN

Stepping == {c \in Pending : ops[c].kind = "step"}

\* A step no other call interferes with is the only one, and the game is not
\* paused under it; it has run for the frames counted, and for one more between
\* the game's part of a frame and the bridge's.
LoneStepsRun ==
  \A c \in Stepping : ops[c].alone =>
    /\ ~paused /\ Stepping = {c}
    /\ ops[c].left >= 1
    /\ ops[c].ran + ops[c].left = ops[c].total + (IF phase = "game" THEN 1 ELSE 0)

FramesInv == FramesTyped /\ TracesHaveACall /\ EventsAreAnswered /\ LoneStepIsPrecise /\ LoneStepsRun

\* The answer of a poll: the call is what it was but for its state and count.
LEMMA PolledFacts ==
  ASSUME NEW op \in OpRecord
  PROVE  /\ Polled(op) \in OpRecord
         /\ Polled(op).kind = op.kind /\ Polled(op).event = op.event /\ Polled(op).alone = op.alone
         /\ Polled(op).total = op.total /\ Polled(op).ran = op.ran /\ Polled(op).was = op.was
         /\ op.st # "pending" => Polled(op) = op
         /\ op.st = "pending" /\ Polled(op).st = "error" => ~op.event
         /\ op.st = "pending" /\ op.kind = "step" =>
              IF op.left > 1 THEN Polled(op).st = "pending" /\ Polled(op).left = op.left - 1
              ELSE Polled(op).st = "ok"
<1> USE DEF OpRecord, OpStates, OpKinds
<1>1. \A how \in OpStates : Answer(op, how) = [op EXCEPT !.st = how]
  BY DEF Answer
<1>2. ASSUME op.left > 1 PROVE op.left - 1 \in Nat
  BY <1>2
<1>3. CASE op.st # "pending"
  BY <1>3 DEF Polled
<1>4. CASE op.st = "pending" /\ op.kind \in {"frames", "step"}
  <2>1. Polled(op) = StepCounted(op)
    BY <1>4 DEF Polled
  <2> QED BY <1>1, <1>2, <1>4, <2>1 DEF StepCounted
<1>5. CASE op.st = "pending" /\ op.kind = "time"
  <2>1. Polled(op) = Ticked(op)
    BY <1>5 DEF Polled
  <2> QED BY <1>1, <1>2, <1>5, <2>1 DEF StepCounted, Ticked
<1>6. CASE op.st = "pending" /\ op.kind = "await"
  <2>1. Polled(op) = Awaited(op)
    BY <1>6 DEF Polled
  <2> QED BY <1>1, <1>2, <1>6, <2>1 DEF Late, Awaited
<1>7. CASE op.st = "pending" /\ op.kind = "http"
  <2>1. Polled(op) = Completed(op)
    BY <1>7 DEF Polled
  <2> QED BY <1>1, <1>2, <1>7, <2>1 DEF Late, Completed
<1>8. CASE op.st = "pending" /\ op.kind \notin {"frames", "step", "time", "await", "http"}
  <2>1. Polled(op) = Reported(op)
    BY <1>8 DEF Polled
  <2> QED BY <1>1, <1>2, <1>8, <2>1 DEF Late, Reported
<1> QED BY <1>3, <1>4, <1>5, <1>6, <1>7, <1>8

\* A step that leaves every call as far along as it was, and the pause.
LEMMA SameOps ==
  ASSUME FramesInv, UNCHANGED <<phase, paused>>,
         ops' \in [Ops -> OpRecord],
         \A c \in Ops : /\ ops'[c].st = ops[c].st /\ ops'[c].kind = ops[c].kind /\ ops'[c].left = ops[c].left
                        /\ ops'[c].total = ops[c].total /\ ops'[c].ran = ops[c].ran /\ ops'[c].alone = ops[c].alone
                        /\ c \in Pending \/ ops'[c].event = ops[c].event,
         connected' \subseteq connected, inTree' \subseteq inTree
  PROVE  FramesInv'
<1>1. Pending' = Pending
  BY DEF Pending
<1>2. Stepping' = Stepping
  BY <1>1 DEF Stepping, Pending
<1>3. FramesTyped' /\ TracesHaveACall'
  BY <1>1 DEF FramesInv, FramesTyped, TracesHaveACall
<1>4. EventsAreAnswered'
  <2>1. ASSUME NEW c \in Ops, ops'[c].st = "error" PROVE ~ops'[c].event
    BY <2>1 DEF FramesInv, EventsAreAnswered, Pending
  <2> QED BY <2>1 DEF EventsAreAnswered
<1>5. LoneStepIsPrecise'
  BY DEF FramesInv, LoneStepIsPrecise
<1>6. LoneStepsRun'
  <2>1. \A c \in Stepping : c \in Ops
    BY DEF Stepping, Pending
  <2> QED BY <1>2, <2>1 DEF FramesInv, LoneStepsRun
<1> QED BY <1>3, <1>4, <1>5, <1>6 DEF FramesInv

\* A new call that is no step.
LEMMA SuspendKeeps ==
  ASSUME FramesInv, NEW c \in Ops, FirstNew(c), NEW kd \in OpKinds \ {"step"}, NEW n \in Nat, NEW ev \in BOOLEAN,
         Suspend(c, kd, n, ev), UNCHANGED <<phase, paused>>,
         connected' \subseteq connected \cup {c}, inTree' \subseteq inTree \cup {c}
  PROVE  FramesInv'
<1> DEFINE new == [NewOp EXCEPT !.st = "pending", !.kind = kd, !.left = n, !.total = n, !.event = ev]
<1>0. ops \in [Ops -> OpRecord]
  BY DEF FramesInv, FramesTyped
<1>1. /\ new \in OpRecord /\ new.st = "pending" /\ new.kind = kd
  BY DEF NewOp, OpRecord, OpStates, OpKinds
<1>2. ops' = [ops EXCEPT ![c] = new]
  BY DEF Suspend
<1> HIDE DEF new
<1>3. /\ ops' \in [Ops -> OpRecord] /\ ops'[c] = new
      /\ \A d \in Ops : d # c => ops'[d] = ops[d]
  BY <1>0, <1>1, <1>2
<1>4. ops[c].st = "new"
  BY DEF FirstNew
<1>5. Pending' = Pending \cup {c}
  BY <1>1, <1>3 DEF Pending
<1>6. Stepping' = Stepping
  BY <1>1, <1>3, <1>4, <1>5 DEF Stepping, Pending
<1>7. FramesTyped' /\ TracesHaveACall'
  BY <1>3, <1>5 DEF FramesInv, FramesTyped, TracesHaveACall
<1>8. EventsAreAnswered' /\ LoneStepIsPrecise'
  <2>1. ASSUME NEW d \in Ops PROVE (ops'[d].st = "error" => ~ops'[d].event)
                                   /\ (ops'[d].st = "ok" /\ ops'[d].kind = "step" /\ ops'[d].alone => ops'[d].ran = ops'[d].total)
    BY <1>1, <1>3 DEF FramesInv, EventsAreAnswered, LoneStepIsPrecise
  <2> QED BY <2>1 DEF EventsAreAnswered, LoneStepIsPrecise
<1>9. LoneStepsRun'
  <2>1. \A d \in Stepping : d \in Ops /\ d # c
    BY <1>4 DEF Stepping, Pending
  <2> QED BY <1>3, <1>6, <2>1 DEF FramesInv, LoneStepsRun
<1> QED BY <1>7, <1>8, <1>9 DEF FramesInv

\* What a change of the pause does to the calls.
LEMMA TouchedFacts ==
  ASSUME ops \in [Ops -> OpRecord]
  PROVE  /\ Touched(ops) \in [Ops -> OpRecord]
         /\ \A c \in Ops : /\ Touched(ops)[c].st = ops[c].st /\ Touched(ops)[c].kind = ops[c].kind
                           /\ Touched(ops)[c].event = ops[c].event
                           /\ c \in Stepping => ~Touched(ops)[c].alone
                           /\ c \notin Stepping => Touched(ops)[c] = ops[c]
<1>1. DOMAIN ops = Ops
  OBVIOUS
<1>2. \A c \in Ops : Touched(ops)[c] = IF c \in Stepping THEN [ops[c] EXCEPT !.alone = FALSE] ELSE ops[c]
  BY <1>1 DEF Touched, Stepping, Pending
<1>3. \A c \in Ops : [ops[c] EXCEPT !.alone = FALSE] \in OpRecord
  BY DEF OpRecord
<1>4. \A c \in Ops : Touched(ops)[c] \in OpRecord
  BY <1>2, <1>3
<1>5. Touched(ops) \in [Ops -> OpRecord]
  BY <1>1, <1>4 DEF Touched
<1>6. \A c \in Ops : ops[c] \in OpRecord
  OBVIOUS
<1> QED BY <1>2, <1>5, <1>6 DEF OpRecord

LEMMA PauseKeeps == ASSUME FramesInv, Pause PROVE FramesInv'
<1>0. ops \in [Ops -> OpRecord]
  BY DEF FramesInv, FramesTyped
<1>1. ops' = Touched(ops) /\ paused' \in BOOLEAN /\ UNCHANGED <<phase, connected, inTree>>
  BY DEF Pause
<1>2. /\ ops' \in [Ops -> OpRecord]
      /\ \A c \in Ops : /\ ops'[c].st = ops[c].st /\ ops'[c].kind = ops[c].kind
                        /\ ops'[c].event = ops[c].event
                        /\ c \in Stepping => ~ops'[c].alone
                        /\ c \notin Stepping => ops'[c] = ops[c]
  BY <1>0, <1>1, TouchedFacts
<1>3. Pending' = Pending
  BY <1>2 DEF Pending
<1>4. Stepping' = Stepping /\ Stepping \subseteq Ops
  BY <1>2, <1>3 DEF Stepping, Pending
<1>5. FramesTyped' /\ TracesHaveACall'
  BY <1>1, <1>2, <1>3 DEF FramesInv, FramesTyped, TracesHaveACall
<1>6. EventsAreAnswered' /\ LoneStepIsPrecise'
  <2>1. ASSUME NEW d \in Ops PROVE (ops'[d].st = "error" => ~ops'[d].event)
                                   /\ (ops'[d].st = "ok" /\ ops'[d].kind = "step" /\ ops'[d].alone => ops'[d].ran = ops'[d].total)
    BY <1>2 DEF FramesInv, EventsAreAnswered, LoneStepIsPrecise
  <2> QED BY <2>1 DEF EventsAreAnswered, LoneStepIsPrecise
<1>7. LoneStepsRun'
  BY <1>2, <1>4 DEF LoneStepsRun
<1> QED BY <1>5, <1>6, <1>7 DEF FramesInv

LEMMA StepFramesKeeps == ASSUME FramesInv, StepFrames PROVE FramesInv'
<1>0. ops \in [Ops -> OpRecord]
  BY DEF FramesInv, FramesTyped
<1>1. PICK c \in Ops, n \in 1..MaxFrames :
        /\ phase = "calls" /\ FirstNew(c)
        /\ ops' = [Touched(ops) EXCEPT ![c] = [NewOp EXCEPT !.st = "pending", !.kind = "step", !.left = n, !.total = n,
                                                 !.was = paused, !.alone = ~\E d \in Pending : ops[d].kind = "step"]]
        /\ paused' = FALSE /\ UNCHANGED <<phase, connected, inTree>>
  BY DEF StepFrames
<1> DEFINE new == [NewOp EXCEPT !.st = "pending", !.kind = "step", !.left = n, !.total = n,
                                !.was = paused, !.alone = ~\E d \in Pending : ops[d].kind = "step"]
<1>2. n \in Nat /\ n >= 1 /\ paused \in BOOLEAN
  BY FramesAssumption DEF FramesInv, FramesTyped
<1>3. /\ new \in OpRecord /\ new.st = "pending" /\ new.kind = "step" /\ new.left = n /\ new.total = n /\ new.ran = 0
      /\ new.alone <=> Stepping = {}
  <2>1. (~\E d \in Pending : ops[d].kind = "step") <=> Stepping = {}
    BY DEF Stepping
  <2>2. (~\E d \in Pending : ops[d].kind = "step") \in BOOLEAN
    OBVIOUS
  <2> QED BY <1>2, <2>1, <2>2 DEF NewOp, OpRecord, OpStates, OpKinds
<1> HIDE DEF new
<1>4. ops' = [Touched(ops) EXCEPT ![c] = new]
  BY <1>1 DEF new
<1>5. /\ ops' \in [Ops -> OpRecord] /\ ops'[c] = new
      /\ \A d \in Ops : d # c => ops'[d] = Touched(ops)[d]
  BY <1>0, <1>3, <1>4, TouchedFacts
<1>6. ops[c].st = "new"
  BY <1>1 DEF FirstNew
<1>7. Pending' = Pending \cup {c}
  BY <1>0, <1>3, <1>5, TouchedFacts DEF Pending
<1>8. Stepping' = Stepping \cup {c} /\ Stepping \subseteq Ops /\ c \notin Stepping
  BY <1>0, <1>3, <1>5, <1>6, <1>7, TouchedFacts DEF Stepping, Pending
<1>9. FramesTyped' /\ TracesHaveACall'
  BY <1>1, <1>5, <1>7 DEF FramesInv, FramesTyped, TracesHaveACall
<1>10. EventsAreAnswered' /\ LoneStepIsPrecise'
  <2>1. ASSUME NEW d \in Ops PROVE (ops'[d].st = "error" => ~ops'[d].event)
                                   /\ (ops'[d].st = "ok" /\ ops'[d].kind = "step" /\ ops'[d].alone => ops'[d].ran = ops'[d].total)
    <3>1. CASE d = c
      BY <1>3, <1>5, <3>1
    <3>2. CASE d # c /\ d \in Stepping
      <4>1. ops'[d].st = "pending"
        BY <1>0, <1>5, <3>2, TouchedFacts DEF Stepping, Pending
      <4> QED BY <4>1
    <3>3. CASE d # c /\ d \notin Stepping
      <4>1. ops'[d] = ops[d]
        BY <1>0, <1>5, <3>3, TouchedFacts
      <4> QED BY <4>1 DEF FramesInv, EventsAreAnswered, LoneStepIsPrecise
    <3> QED BY <3>1, <3>2, <3>3
  <2> QED BY <2>1 DEF EventsAreAnswered, LoneStepIsPrecise
<1>11. LoneStepsRun'
  <2>1. \A d \in Stepping : d # c /\ ~ops'[d].alone
    BY <1>0, <1>5, <1>8, TouchedFacts
  <2>2. ops'[c].alone => Stepping' = {c}
    BY <1>3, <1>5, <1>8
  <2>3. ops'[c].ran + ops'[c].left = ops'[c].total + (IF phase' = "game" THEN 1 ELSE 0)
    <3>1. phase' = "calls" /\ ops'[c].ran = 0 /\ ops'[c].left = n /\ ops'[c].total = n
      BY <1>1, <1>3, <1>5
    <3> QED BY <1>2, <3>1
  <2>4. ops'[c].left >= 1 /\ ~paused'
    BY <1>1, <1>2, <1>3, <1>5
  <2> QED BY <1>8, <2>1, <2>2, <2>3, <2>4 DEF LoneStepsRun
<1> QED BY <1>9, <1>10, <1>11 DEF FramesInv

LEMMA GameRunsKeeps == ASSUME FramesInv, GameRuns PROVE FramesInv'
<1>0. ops \in [Ops -> OpRecord] /\ phase = "calls" /\ phase' = "game" /\ UNCHANGED <<paused, connected, inTree>>
  BY DEF FramesInv, FramesTyped, GameRuns
<1>1. PICK drawn \in BOOLEAN :
        ops' = [c \in Ops |->
                 CASE c \in Pending /\ drawn /\ ops[c].kind = "shot" -> [ops[c] EXCEPT !.event = TRUE]
                   [] c \in Pending /\ ~paused /\ ops[c].kind = "step" -> [ops[c] EXCEPT !.ran = @ + 1]
                   [] OTHER -> ops[c]]
  BY DEF GameRuns
<1>2. ASSUME NEW c \in Ops
      PROVE  /\ ops'[c] \in OpRecord
             /\ c \notin Pending => ops'[c] = ops[c]
             /\ ops'[c].st = ops[c].st /\ ops'[c].kind = ops[c].kind /\ ops'[c].left = ops[c].left
             /\ ops'[c].total = ops[c].total /\ ops'[c].alone = ops[c].alone
             /\ c \in Stepping /\ ~paused => ops'[c].ran = ops[c].ran + 1
  <2>1. ops[c] \in OpRecord /\ ops[c].ran + 1 \in Nat
    BY <1>0 DEF OpRecord
  <2>2. CASE c \in Pending /\ drawn /\ ops[c].kind = "shot"
    <3>1. ops'[c] = [ops[c] EXCEPT !.event = TRUE]
      BY <1>1, <2>2
    <3> QED BY <2>1, <2>2, <3>1 DEF OpRecord, Stepping
  <2>3. CASE c \in Pending /\ ~paused /\ ops[c].kind = "step"
    <3>1. ops'[c] = [ops[c] EXCEPT !.ran = @ + 1]
      BY <1>1, <2>3
    <3> QED BY <2>1, <2>3, <3>1 DEF OpRecord, Stepping
  <2>4. CASE ~(c \in Pending /\ drawn /\ ops[c].kind = "shot") /\ ~(c \in Pending /\ ~paused /\ ops[c].kind = "step")
    <3>1. ops'[c] = ops[c]
      BY <1>1, <2>4
    <3> QED BY <2>1, <2>4, <3>1 DEF Stepping
  <2> QED BY <2>2, <2>3, <2>4
<1>3. ops' \in [Ops -> OpRecord]
  BY <1>1, <1>2
<1>4. Pending' = Pending
  BY <1>2 DEF Pending
<1>5. Stepping' = Stepping /\ Stepping \subseteq Ops
  BY <1>2, <1>4 DEF Stepping, Pending
<1>6. FramesTyped' /\ TracesHaveACall'
  BY <1>0, <1>3, <1>4 DEF FramesInv, FramesTyped, TracesHaveACall
<1>7. EventsAreAnswered' /\ LoneStepIsPrecise'
  <2>1. ASSUME NEW d \in Ops PROVE (ops'[d].st = "error" => ~ops'[d].event)
                                   /\ (ops'[d].st = "ok" /\ ops'[d].kind = "step" /\ ops'[d].alone => ops'[d].ran = ops'[d].total)
    <3>1. CASE d \in Pending
      BY <1>2, <3>1 DEF Pending
    <3>2. CASE d \notin Pending
      BY <1>2, <3>2 DEF FramesInv, EventsAreAnswered, LoneStepIsPrecise
    <3> QED BY <3>1, <3>2
  <2> QED BY <2>1 DEF EventsAreAnswered, LoneStepIsPrecise
<1>8. LoneStepsRun'
  <2>1. ASSUME NEW c \in Stepping, ops[c].alone
        PROVE  ops'[c].ran + ops'[c].left = ops'[c].total + 1
    <3>1. c \in Ops /\ ~paused /\ ops[c].ran + ops[c].left = ops[c].total + 0
      BY <1>0, <1>5, <2>1 DEF FramesInv, LoneStepsRun
    <3>2. ops'[c].ran = ops[c].ran + 1 /\ ops'[c].left = ops[c].left /\ ops'[c].total = ops[c].total
      BY <1>2, <3>1
    <3>3. ops[c].ran \in Nat /\ ops[c].left \in Nat /\ ops[c].total \in Nat
      BY <1>0, <3>1 DEF OpRecord
    <3> QED BY <3>1, <3>2, <3>3
  <2> QED BY <1>0, <1>2, <1>5, <2>1 DEF FramesInv, LoneStepsRun
<1> QED BY <1>6, <1>7, <1>8 DEF FramesInv

LEMMA BridgePollsKeeps == ASSUME FramesInv, BridgePolls PROVE FramesInv'
<1> DEFINE ended == {c \in Pending : ops'[c].st # "pending"}
<1>0. /\ ops \in [Ops -> OpRecord] /\ phase = "game" /\ phase' = "calls"
      /\ ops' = [c \in Ops |-> Polled(ops[c])]
      /\ connected' = connected \ ended /\ inTree' = inTree \ ended
      /\ paused' = (paused \/ \E c \in ended : ops[c].kind = "step" /\ ops[c].was)
  BY DEF FramesInv, FramesTyped, BridgePolls, DropConnections
<1>2. ASSUME NEW c \in Ops
      PROVE  /\ ops'[c] \in OpRecord
             /\ ops'[c].kind = ops[c].kind /\ ops'[c].event = ops[c].event /\ ops'[c].alone = ops[c].alone
             /\ ops'[c].total = ops[c].total /\ ops'[c].ran = ops[c].ran
             /\ c \notin Pending => ops'[c] = ops[c]
             /\ c \in Pending /\ ops'[c].st = "error" => ~ops[c].event
             /\ c \in Stepping =>
                  IF ops[c].left > 1 THEN ops'[c].st = "pending" /\ ops'[c].left = ops[c].left - 1
                  ELSE ops'[c].st = "ok"
  <2>1. ops[c] \in OpRecord /\ ops'[c] = Polled(ops[c])
    BY <1>0
  <2> QED BY <2>1, PolledFacts DEF Pending, Stepping
<1>3. ops' \in [Ops -> OpRecord]
  BY <1>0, <1>2
<1>4. Pending' = Pending \ ended
  BY <1>2 DEF Pending
<1>5. Stepping' \subseteq Stepping /\ Stepping \subseteq Ops /\ Stepping \subseteq Pending /\ Stepping' = Stepping \ ended
  BY <1>2, <1>4 DEF Stepping, Pending
<1>6. FramesTyped' /\ TracesHaveACall'
  <2>1. paused' \in BOOLEAN
    BY <1>0
  <2> QED BY <1>0, <1>3, <1>4, <2>1 DEF FramesInv, FramesTyped, TracesHaveACall
<1>7. EventsAreAnswered'
  <2>1. ASSUME NEW d \in Ops, ops'[d].st = "error" PROVE ~ops'[d].event
    BY <1>2, <2>1 DEF FramesInv, EventsAreAnswered
  <2> QED BY <2>1 DEF EventsAreAnswered
<1>8. ASSUME NEW c \in Stepping, ops[c].alone
      PROVE  /\ c \in Ops /\ ~paused /\ Stepping = {c} /\ ops[c].left >= 1
             /\ ops[c].ran + ops[c].left = ops[c].total + 1
             /\ ops[c].ran \in Nat /\ ops[c].left \in Nat /\ ops[c].total \in Nat
  <2>1. c \in Ops
    BY <1>5
  <2> QED BY <1>0, <1>8, <2>1 DEF FramesInv, LoneStepsRun, OpRecord
<1>9. LoneStepIsPrecise'
  <2>1. ASSUME NEW d \in Ops, ops'[d].st = "ok", ops'[d].kind = "step", ops'[d].alone PROVE ops'[d].ran = ops'[d].total
    <3>1. CASE d \in Pending
      <4>1. d \in Stepping /\ ops[d].alone
        BY <1>2, <2>1, <3>1 DEF Stepping
      <4>2. ~(ops[d].left > 1)
        BY <1>2, <2>1, <4>1
      <4>3. ops[d].ran = ops[d].total
        BY <1>8, <4>1, <4>2
      <4> QED BY <1>2, <4>3
    <3>2. CASE d \notin Pending
      BY <1>2, <2>1, <3>2 DEF FramesInv, LoneStepIsPrecise
    <3> QED BY <3>1, <3>2
  <2> QED BY <2>1 DEF LoneStepIsPrecise
<1>10. LoneStepsRun'
  <2>1. ASSUME NEW c \in Stepping', ops'[c].alone
        PROVE  /\ ~paused' /\ Stepping' = {c} /\ ops'[c].left >= 1
               /\ ops'[c].ran + ops'[c].left = ops'[c].total
    <3>1. c \in Stepping /\ ops[c].alone /\ c \in Ops /\ c \notin ended
      BY <1>2, <1>5, <2>1
    <3>2. ops'[c].st = "pending" /\ ops[c].left > 1 /\ ops'[c].left = ops[c].left - 1
      BY <1>2, <1>5, <3>1
    <3>3. ~\E d \in ended : ops[d].kind = "step" /\ ops[d].was
      <4>1. ASSUME NEW d \in ended, ops[d].kind = "step" PROVE FALSE
        <5>1. d \in Stepping
          BY <4>1 DEF Stepping
        <5> QED BY <1>8, <3>1, <5>1
      <4> QED BY <4>1
    <3>4. ~paused'
      BY <1>0, <1>8, <3>1, <3>3
    <3>5. Stepping' = {c}
      BY <1>5, <1>8, <3>1
    <3>6. ops'[c].ran = ops[c].ran /\ ops'[c].total = ops[c].total
      BY <1>2, <3>1
    <3> QED BY <1>8, <3>1, <3>2, <3>4, <3>5, <3>6
  <2>2. phase' # "game"
    BY <1>0
  <2>3. \A c \in Stepping' : ops'[c].total \in Nat
    BY <1>2, <1>5 DEF OpRecord
  <2> QED BY <2>1, <2>2, <2>3 DEF LoneStepsRun
<1> QED BY <1>6, <1>7, <1>9, <1>10 DEF FramesInv

\* Every step of a frame.
LEMMA FramesStep == ASSUME FramesInv, [FramesNext]_frameVars PROVE FramesInv'
<1>0. ops \in [Ops -> OpRecord] /\ (\A c \in Ops : ops[c] \in OpRecord) /\ connected \cup inTree \subseteq Pending
  BY DEF FramesInv, FramesTyped, TracesHaveACall
<1>1. CASE Pause
  BY <1>1, PauseKeeps
<1>2. CASE SetTimeScale \/ UNCHANGED frameVars
  BY <1>0, <1>2, SameOps DEF SetTimeScale, frameVars
<1>3. CASE WaitFrames \/ WaitTime \/ HttpRequest \/ AwaitSignal \/ Screenshot \/ EditorScreenshot \/ GameEval
  <2>1. 1..MaxFrames \subseteq Nat /\ OpDeadline \in Nat
    BY FramesAssumption
  <2>2. PICK c \in Ops, kd \in OpKinds \ {"step"}, n \in Nat, ev \in BOOLEAN :
          /\ FirstNew(c) /\ Suspend(c, kd, n, ev) /\ UNCHANGED <<phase, paused>>
          /\ connected' \subseteq connected \cup {c} /\ inTree' \subseteq inTree \cup {c}
    <3>1. CASE WaitFrames
      BY <2>1, <3>1 DEF WaitFrames, OpKinds
    <3>2. CASE WaitTime
      BY <2>1, <3>2 DEF WaitTime, OpKinds
    <3>3. CASE HttpRequest
      BY <2>1, <3>3 DEF HttpRequest, OpKinds
    <3>4. CASE AwaitSignal
      BY <2>1, <3>4 DEF AwaitSignal, OpKinds
    <3>5. CASE Screenshot \/ EditorScreenshot
      BY <2>1, <3>5 DEF Screenshot, EditorScreenshot, OpKinds
    <3>6. CASE GameEval
      BY <2>1, <3>6 DEF GameEval, OpKinds
    <3> QED BY <1>3, <3>1, <3>2, <3>3, <3>4, <3>5, <3>6
  <2> QED BY <2>2, SuspendKeeps
<1>4. CASE StepFrames
  BY <1>4, StepFramesKeeps
<1>5. CASE SignalFires
  <2> DEFINE fired == {c \in connected : ops[c].kind = "await"}
  <2>1. /\ ops' = [c \in Ops |-> IF c \in fired THEN [ops[c] EXCEPT !.event = TRUE] ELSE ops[c]]
        /\ connected' = connected \ fired /\ UNCHANGED <<phase, paused, inTree>>
    BY <1>5 DEF SignalFires
  <2>2. \A c \in Ops : (ops'[c] = [ops[c] EXCEPT !.event = TRUE] /\ c \in Pending) \/ ops'[c] = ops[c]
    BY <1>0, <2>1
  <2>3. \A c \in Ops : /\ ops'[c] \in OpRecord
                       /\ ops'[c].st = ops[c].st /\ ops'[c].kind = ops[c].kind /\ ops'[c].left = ops[c].left
                       /\ ops'[c].total = ops[c].total /\ ops'[c].ran = ops[c].ran /\ ops'[c].alone = ops[c].alone
                       /\ c \in Pending \/ ops'[c].event = ops[c].event
    BY <1>0, <2>2 DEF OpRecord
  <2>4. ops' \in [Ops -> OpRecord]
    BY <2>1, <2>3
  <2> QED BY <2>1, <2>3, <2>4, SameOps
<1>6. CASE EmitterFreed \/ NodeFreed
  BY <1>0, <1>6, SameOps DEF EmitterFreed, NodeFreed
<1>7. CASE NodeReports
  <2>1. PICK c \in inTree, bad \in BOOLEAN :
          /\ ops' = [ops EXCEPT ![c].event = TRUE, ![c].bad = bad]
          /\ UNCHANGED <<phase, paused, connected, inTree>>
    BY <1>7 DEF NodeReports
  <2>2. c \in Ops /\ c \in Pending
    BY <1>0 DEF Pending
  <2>3. \A d \in Ops : (ops'[d] = [ops[d] EXCEPT !.event = TRUE, !.bad = bad] /\ d \in Pending) \/ ops'[d] = ops[d]
    BY <1>0, <2>1, <2>2
  <2>4. \A d \in Ops : /\ ops'[d] \in OpRecord
                       /\ ops'[d].st = ops[d].st /\ ops'[d].kind = ops[d].kind /\ ops'[d].left = ops[d].left
                       /\ ops'[d].total = ops[d].total /\ ops'[d].ran = ops[d].ran /\ ops'[d].alone = ops[d].alone
                       /\ d \in Pending \/ ops'[d].event = ops[d].event
    BY <1>0, <2>3 DEF OpRecord
  <2>5. ops' \in [Ops -> OpRecord]
    BY <1>0, <2>1, <2>4
  <2> QED BY <2>1, <2>4, <2>5, SameOps
<1>8. CASE GameRuns
  BY <1>8, GameRunsKeeps
<1>9. CASE BridgePolls
  BY <1>9, BridgePollsKeeps
<1> QED BY <1>1, <1>2, <1>3, <1>4, <1>5, <1>6, <1>7, <1>8, <1>9 DEF FramesNext

LEMMA FramesStart == FramesInit => FramesInv
<1> SUFFICES ASSUME FramesInit PROVE FramesInv
  OBVIOUS
<1>1. NewOp \in OpRecord /\ NewOp.st = "new"
  BY DEF NewOp, OpRecord, OpStates, OpKinds
<1>2. ops \in [Ops -> OpRecord] /\ \A c \in Ops : ops[c].st = "new"
  BY <1>1 DEF FramesInit
<1>3. Pending = {} /\ Stepping = {}
  BY <1>2 DEF Pending, Stepping
<1> QED BY <1>2, <1>3 DEF FramesInit, FramesInv, FramesTyped, TracesHaveACall, EventsAreAnswered,
           LoneStepIsPrecise, LoneStepsRun

----------------------------------------------------------------------------
(* The sockets. *)

SocketRecord == [state : {"connecting", "open", "closed"}, inbox : Seq(Nat), dropped : Nat]
CallRecord   == [st : {"new", "pending", "ok", "error", "empty"}, op : {"none", "connect", "recv"},
                 id : 0..MaxIds, left : Int]

\* What was handed out, g, and what waits, box, of n messages of which d were
\* dropped: the box holds the last ones, and all that was handed out is older.
Account(g, box, d, n) ==
  /\ \A k \in 1..Len(box) : box[k] = n - Len(box) + k
  /\ \A k \in 1..Len(g) : g[k] <= n - Len(box)
  /\ \A j, k \in 1..Len(g) : j < k => g[j] < g[k]
  /\ Len(g) + Len(box) + d = n

Whole(S) == \E x, y, z : S = [sockets |-> x, calls |-> y, got |-> z]

\* The part of the state that a poll changes, as a record, is in order.
InOrder(S) ==
  /\ Whole(S)
  /\ S.sockets = [i \in DOMAIN S.sockets |-> S.sockets[i]]
  /\ DOMAIN S.sockets \subseteq Ids \cap (1..(nextSocket - 1))
  /\ \A i \in DOMAIN S.sockets : S.sockets[i] \in SocketRecord
  /\ S.calls \in [SCalls -> CallRecord] /\ S.got \in [Ids -> Seq(Nat)]
  /\ \A i \in Ids : i >= nextSocket => S.got[i] = <<>>
  /\ \A i \in DOMAIN S.sockets : Account(S.got[i], S.sockets[i].inbox, S.sockets[i].dropped, heard[i])
  /\ \A i \in DOMAIN S.sockets : \E c \in SCalls :
       S.calls[c].op = "connect" /\ S.calls[c].id = i /\ S.calls[c].st \in {"pending", "ok"}

\* What servers sent, and what was heard of it.
WiresTyped ==
  /\ nextSocket \in 1..(MaxIds + 1)
  /\ sent \in [Ids -> Nat] /\ heard \in [Ids -> Nat]
  /\ \A i \in Ids : heard[i] <= sent[i]
  /\ \A i \in Ids : i >= nextSocket => sent[i] = 0 /\ heard[i] = 0

SocketsInv ==
  /\ WiresTyped
  /\ sockets = [i \in Held |-> sockets[i]] /\ Held \subseteq Ids \cap (1..(nextSocket - 1))
  /\ \A i \in Held : sockets[i] \in SocketRecord
  /\ scalls \in [SCalls -> CallRecord] /\ got \in [Ids -> Seq(Nat)]
  /\ \A i \in Ids : i >= nextSocket => got[i] = <<>>
  /\ \A i \in Held : Account(got[i], sockets[i].inbox, sockets[i].dropped, heard[i])
  /\ SocketsHaveOwners

\* An account in numbers.
InNumbers(g, box, d, n, a, b) ==
  /\ a = Len(g) /\ b = Len(box)
  /\ \A k \in 1..b : box[k] \in Nat /\ box[k] = n - b + k
  /\ \A k \in 1..a : g[k] \in Nat /\ g[k] <= n - b
  /\ \A j, k \in 1..a : j < k => g[j] < g[k]
  /\ a + b + d = n

LEMMA AccountNumbers ==
  ASSUME NEW g \in Seq(Nat), NEW box \in Seq(Nat), NEW d, NEW n
  PROVE  Account(g, box, d, n) <=> \E a, b \in Nat : InNumbers(g, box, d, n, a, b)
<1>1. Len(g) \in Nat /\ Len(box) \in Nat
  OBVIOUS
<1>2. (\A k \in 1..Len(g) : g[k] \in Nat) /\ (\A k \in 1..Len(box) : box[k] \in Nat)
  OBVIOUS
<1>3. Account(g, box, d, n) => InNumbers(g, box, d, n, Len(g), Len(box))
  BY <1>2 DEF Account, InNumbers
<1>4. ASSUME NEW a \in Nat, NEW b \in Nat, InNumbers(g, box, d, n, a, b) PROVE Account(g, box, d, n)
  BY <1>4 DEF Account, InNumbers
<1> QED BY <1>1, <1>3, <1>4

\* An account in order is what the property says of it.
LEMMA AccountMeans ==
  ASSUME NEW g \in Seq(Nat), NEW box \in Seq(Nat), NEW d \in Nat, NEW n \in Nat, Account(g, box, d, n)
  PROVE  LET seen == g \o box IN
         /\ \A k \in 1..(Len(seen) - 1) : seen[k] < seen[k + 1]
         /\ Len(seen) + d = n
         /\ \A k \in 2..Len(box) : box[k] = box[k - 1] + 1
<1> DEFINE seen == g \o box
<1>0. PICK a \in Nat, b \in Nat : InNumbers(g, box, d, n, a, b)
  BY AccountNumbers
<1>1. Len(seen) = a + b /\ \A k \in 1..(a + b) : seen[k] = IF k <= a THEN g[k] ELSE box[k - a]
  <2>1. /\ Len(seen) = Len(g) + Len(box)
        /\ \A k \in 1..Len(g) + Len(box) : seen[k] = IF k <= Len(g) THEN g[k] ELSE box[k - Len(g)]
    BY ConcatProperties
  <2> QED BY <1>0, <2>1 DEF InNumbers
<1> HIDE DEF seen
<1>2. ASSUME NEW k \in 1..(a + b - 1) PROVE seen[k] < seen[k + 1]
  <2>1. CASE k + 1 <= a
    <3>1. k \in 1..a /\ k + 1 \in 1..a /\ k < k + 1 /\ k \in 1..(a + b) /\ k + 1 \in 1..(a + b) /\ k <= a
      BY <2>1
    <3>2. seen[k] = g[k] /\ seen[k + 1] = g[k + 1]
      BY <1>1, <2>1, <3>1
    <3> QED BY <1>0, <3>1, <3>2 DEF InNumbers
  <2>2. CASE k = a
    <3>1. k \in 1..a /\ 1 \in 1..b /\ k + 1 \in 1..(a + b) /\ ~(k + 1 <= a) /\ k + 1 - a = 1
      BY <2>2
    <3>2. seen[k] = g[k] /\ seen[k + 1] = box[1]
      BY <1>1, <2>2, <3>1
    <3>3. g[k] <= n - b /\ box[1] = n - b + 1 /\ g[k] \in Nat
      BY <1>0, <3>1 DEF InNumbers
    <3>4. g[k] < box[1]
      BY <3>3
    <3> QED BY <3>2, <3>4
  <2>3. CASE k > a
    <3>1. k - a \in 1..b /\ k + 1 - a \in 1..b /\ k + 1 \in 1..(a + b) /\ ~(k <= a) /\ ~(k + 1 <= a)
      BY <2>3
    <3>2. seen[k] = box[k - a] /\ seen[k + 1] = box[k + 1 - a]
      BY <1>1, <3>1
    <3>3. box[k - a] = n - b + (k - a) /\ box[k + 1 - a] = n - b + (k + 1 - a)
      BY <1>0, <3>1 DEF InNumbers
    <3>4. n - b + (k - a) < n - b + (k + 1 - a)
      OBVIOUS
    <3> QED BY <3>2, <3>3, <3>4
  <2> QED BY <2>1, <2>2, <2>3
<1>3. Len(seen) + d = n
  BY <1>0, <1>1 DEF InNumbers
<1>4. ASSUME NEW k \in 2..b PROVE box[k] = box[k - 1] + 1
  <2>1. k \in 1..b /\ k - 1 \in 1..b
    OBVIOUS
  <2>2. box[k] = n - b + k /\ box[k - 1] = n - b + (k - 1)
    BY <1>0, <2>1 DEF InNumbers
  <2> QED BY <2>2
<1>5. Len(seen) - 1 = a + b - 1 /\ Len(box) = b
  BY <1>0, <1>1 DEF InNumbers
<1> QED BY <1>2, <1>3, <1>4, <1>5 DEF seen

\* The oldest message that waits is handed out.
LEMMA AccountTaken ==
  ASSUME NEW g \in Seq(Nat), NEW box \in Seq(Nat), NEW d \in Nat, NEW n \in Nat, Account(g, box, d, n), box # <<>>
  PROVE  /\ Account(Append(g, Head(box)), Tail(box), d, n)
         /\ Append(g, Head(box)) \in Seq(Nat) /\ Tail(box) \in Seq(Nat)
<1> DEFINE h == Append(g, Head(box))
           rest == Tail(box)
<1>0. PICK a \in Nat, b \in Nat : InNumbers(g, box, d, n, a, b)
  BY AccountNumbers
<1>1. /\ Head(box) \in Nat /\ Head(box) = box[1] /\ b >= 1 /\ b - 1 \in Nat
      /\ rest \in Seq(Nat) /\ Len(rest) = b - 1 /\ \A k \in 1..(b - 1) : rest[k] = box[k + 1]
  <2>1. Len(box) # 0
    BY EmptySeq
  <2> QED BY <1>0, <2>1 DEF InNumbers
<1>2. /\ h \in Seq(Nat) /\ Len(h) = a + 1
      /\ h[a + 1] = box[1] /\ \A k \in 1..a : h[k] = g[k]
  BY <1>0, <1>1 DEF InNumbers
<1> HIDE DEF h, rest
<1>3. 1 \in 1..b /\ box[1] = n - b + 1 /\ box[1] \in Nat
  BY <1>0, <1>1 DEF InNumbers
<1>4. ASSUME NEW k \in 1..(b - 1) PROVE rest[k] \in Nat /\ rest[k] = n - (b - 1) + k
  <2>1. k + 1 \in 1..b /\ rest[k] = box[k + 1]
    BY <1>1
  <2>2. box[k + 1] \in Nat /\ box[k + 1] = n - b + (k + 1)
    BY <1>0, <2>1 DEF InNumbers
  <2> QED BY <2>1, <2>2
<1>5. ASSUME NEW k \in 1..(a + 1) PROVE h[k] \in Nat /\ h[k] <= n - (b - 1)
  <2>1. CASE k \in 1..a
    <3>1. h[k] = g[k] /\ g[k] \in Nat /\ g[k] <= n - b
      BY <1>0, <1>2, <2>1 DEF InNumbers
    <3> QED BY <3>1
  <2>2. CASE k = a + 1
    BY <1>2, <1>3, <2>2
  <2> QED BY <2>1, <2>2
<1>6. ASSUME NEW j \in 1..(a + 1), NEW k \in 1..(a + 1), j < k PROVE h[j] < h[k]
  <2>1. j \in 1..a
    BY <1>6
  <2>2. h[j] = g[j] /\ g[j] <= n - b /\ g[j] \in Nat
    BY <1>0, <1>2, <2>1 DEF InNumbers
  <2>3. CASE k \in 1..a
    <3>1. h[k] = g[k] /\ g[j] < g[k]
      BY <1>0, <1>2, <1>6, <2>1, <2>3 DEF InNumbers
    <3> QED BY <2>2, <3>1
  <2>4. CASE k = a + 1
    <3>1. h[k] = n - b + 1
      BY <1>2, <1>3, <2>4
    <3> QED BY <2>2, <3>1
  <2> QED BY <2>3, <2>4
<1>7. (a + 1) + (b - 1) + d = n
  BY <1>0 DEF InNumbers
<1>8. InNumbers(h, rest, d, n, a + 1, b - 1)
  BY <1>1, <1>2, <1>4, <1>5, <1>6, <1>7 DEF InNumbers
<1>9. Account(h, rest, d, n)
  BY <1>1, <1>2, <1>8, AccountNumbers
<1> QED BY <1>1, <1>2, <1>9 DEF h, rest

Arrived(box, n, s) == box \o [k \in 1..(s - n) |-> n + k]

\* What arrived is put into the box.
LEMMA AccountArrived ==
  ASSUME NEW g \in Seq(Nat), NEW box \in Seq(Nat), NEW d \in Nat, NEW n \in Nat, Account(g, box, d, n),
         NEW s \in Nat, n <= s
  PROVE  Account(g, Arrived(box, n, s), d, s) /\ Arrived(box, n, s) \in Seq(Nat)
<1> DEFINE new == [k \in 1..(s - n) |-> n + k]
           all == box \o new
<1>0. PICK a \in Nat, b \in Nat : InNumbers(g, box, d, n, a, b)
  BY AccountNumbers
<1>1. PICK c \in Nat : c = s - n
  OBVIOUS
<1>2. new \in Seq(Nat) /\ Len(new) = c /\ \A k \in 1..c : new[k] = n + k
  <2>1. new = [k \in 1..c |-> n + k]
    BY <1>1
  <2>2. \A k \in 1..c : n + k \in Nat
    OBVIOUS
  <2> QED BY <2>1, <2>2
<1> HIDE DEF new
<1>3. /\ all \in Seq(Nat) /\ Len(all) = b + c
      /\ \A k \in 1..(b + c) : all[k] = IF k <= b THEN box[k] ELSE new[k - b]
  <2>1. /\ all \in Seq(Nat) /\ Len(all) = Len(box) + Len(new)
        /\ \A k \in 1..Len(box) + Len(new) : all[k] = IF k <= Len(box) THEN box[k] ELSE new[k - Len(box)]
    BY <1>2, ConcatProperties
  <2> QED BY <1>0, <1>2, <2>1 DEF InNumbers
<1> HIDE DEF all
<1>4. ASSUME NEW k \in 1..(b + c) PROVE all[k] \in Nat /\ all[k] = s - (b + c) + k
  <2>1. CASE k <= b
    <3>1. k \in 1..b /\ all[k] = box[k]
      BY <1>3, <2>1
    <3>2. box[k] \in Nat /\ box[k] = n - b + k
      BY <1>0, <3>1 DEF InNumbers
    <3> QED BY <1>1, <3>1, <3>2
  <2>2. CASE k > b
    <3>1. k - b \in 1..c /\ ~(k <= b)
      BY <2>2
    <3>2. all[k] = n + (k - b)
      BY <1>2, <1>3, <3>1
    <3> QED BY <1>1, <2>2, <3>2
  <2> QED BY <2>1, <2>2
<1>5. ASSUME NEW k \in 1..a PROVE g[k] \in Nat /\ g[k] <= s - (b + c)
  <2>1. g[k] \in Nat /\ g[k] <= n - b
    BY <1>0 DEF InNumbers
  <2> QED BY <1>1, <2>1
<1>6. a + (b + c) + d = s
  <2>1. a + b + d = n
    BY <1>0 DEF InNumbers
  <2> QED BY <1>1, <2>1
<1>7. InNumbers(g, all, d, s, a, b + c)
  BY <1>0, <1>3, <1>4, <1>5, <1>6 DEF InNumbers
<1>8. Account(g, all, d, s)
  BY <1>3, <1>7, AccountNumbers
<1> QED BY <1>3, <1>8 DEF Arrived, all, new

\* The oldest messages make room.
LEMMA AccountTrimmed ==
  ASSUME NEW g \in Seq(Nat), NEW box \in Seq(Nat), NEW d \in Nat, NEW n \in Nat, Account(g, box, d, n),
         Len(box) - InboxCap > 0
  PROVE  Account(g, Kept(box), d + (Len(box) - InboxCap), n) /\ Kept(box) \in Seq(Nat)
<1> DEFINE last == SubSeq(box, Len(box) - InboxCap + 1, Len(box))
<1>0. PICK a \in Nat, b \in Nat : InNumbers(g, box, d, n, a, b)
  BY AccountNumbers
<1>1. PICK c \in Nat : c = InboxCap
  BY SocketsAssumption
<1>2. Len(box) = b /\ b - c > 0 /\ last = SubSeq(box, b - c + 1, b)
  BY <1>0, <1>1 DEF InNumbers
<1>3. last \in Seq(Nat) /\ Len(last) = c /\ \A k \in 1..c : last[k] = box[b - c + k]
  <2>1. InboxCap \in Nat /\ Len(box) \in Nat
    BY <1>1
  <2>2. /\ last \in Seq(Nat) /\ Len(last) = InboxCap
        /\ \A k \in 1..InboxCap : last[k] = box[Len(box) - InboxCap + k]
    BY <2>1
  <2> QED BY <1>1, <1>2, <2>2
<1> HIDE DEF last
<1>4. ASSUME NEW k \in 1..c PROVE last[k] \in Nat /\ last[k] = n - c + k
  <2>0. b - c + k \in 1..b
    BY <1>2
  <2>1. b - c + k \in 1..b /\ last[k] = box[b - c + k]
    BY <1>3, <2>0
  <2>2. box[b - c + k] \in Nat /\ box[b - c + k] = n - b + (b - c + k)
    BY <1>0, <2>1 DEF InNumbers
  <2> QED BY <2>1, <2>2
<1>5. ASSUME NEW k \in 1..a PROVE g[k] \in Nat /\ g[k] <= n - c
  <2>1. g[k] \in Nat /\ g[k] <= n - b
    BY <1>0 DEF InNumbers
  <2> QED BY <1>2, <2>1
<1>6. a + c + (d + (b - c)) = n
  <2>1. a + b + d = n
    BY <1>0 DEF InNumbers
  <2> QED BY <2>1
<1>7. InNumbers(g, last, d + (b - c), n, a, c)
  BY <1>0, <1>3, <1>4, <1>5, <1>6 DEF InNumbers
<1>8. Account(g, last, d + (b - c), n)
  BY <1>3, <1>7, AccountNumbers
<1> QED BY <1>1, <1>2, <1>3, <1>8 DEF Kept, last
OpsKept(S, T) == \A d \in SCalls : T.calls[d].op = S.calls[d].op
----------------------------------------------------------------------------
(* One poll. *)

LEMMA NewCalls ==
  ASSUME NEW S, Whole(S), NEW v
  PROVE  [S EXCEPT !.calls = v] = [sockets |-> S.sockets, calls |-> v, got |-> S.got]
<1>1. PICK x, y, z : S = [sockets |-> x, calls |-> y, got |-> z]
  BY DEF Whole
<1>2. S.sockets = x /\ S.calls = y /\ S.got = z
  BY <1>1
<1>3. [[sockets |-> x, calls |-> y, got |-> z] EXCEPT !.calls = v] = [sockets |-> x, calls |-> v, got |-> z]
  OBVIOUS
<1> QED BY <1>1, <1>2, <1>3

LEMMA NewSockets ==
  ASSUME NEW S, Whole(S), NEW v
  PROVE  [S EXCEPT !.sockets = v] = [sockets |-> v, calls |-> S.calls, got |-> S.got]
<1>1. PICK x, y, z : S = [sockets |-> x, calls |-> y, got |-> z]
  BY DEF Whole
<1>2. S.sockets = x /\ S.calls = y /\ S.got = z
  BY <1>1
<1>3. [[sockets |-> x, calls |-> y, got |-> z] EXCEPT !.sockets = v] = [sockets |-> v, calls |-> y, got |-> z]
  OBVIOUS
<1> QED BY <1>1, <1>2, <1>3

LEMMA NewGot ==
  ASSUME NEW S, Whole(S), NEW v, NEW w
  PROVE  [S EXCEPT !.sockets = v, !.got = w] = [sockets |-> v, calls |-> S.calls, got |-> w]
<1>1. PICK x, y, z : S = [sockets |-> x, calls |-> y, got |-> z]
  BY DEF Whole
<1>2. S.sockets = x /\ S.calls = y /\ S.got = z
  BY <1>1
<1>3. [[sockets |-> x, calls |-> y, got |-> z] EXCEPT !.sockets = v] = [sockets |-> v, calls |-> y, got |-> z]
  OBVIOUS
<1>4. [[sockets |-> v, calls |-> y, got |-> z] EXCEPT !.got = w] = [sockets |-> v, calls |-> y, got |-> w]
  OBVIOUS
<1>5. [S EXCEPT !.sockets = v, !.got = w] = [[S EXCEPT !.sockets = v] EXCEPT !.got = w]
  OBVIOUS
<1>6. [[S EXCEPT !.sockets = v] EXCEPT !.got = w] = [sockets |-> v, calls |-> S.calls, got |-> w]
  BY <1>1, <1>2, <1>3, <1>4
<1> QED BY <1>5, <1>6

LEMMA SettledKeeps ==
  ASSUME NEW S, InOrder(S), NEW c \in SCalls, NEW st \in {"ok", "error", "empty"},
         S.calls[c].op # "connect" \/ st = "ok" \/ S.calls[c].id \notin DOMAIN S.sockets
  PROVE  InOrder(Settled(S, c, st)) /\ OpsKept(S, Settled(S, c, st))
<1> DEFINE calls == [S.calls EXCEPT ![c] = [S.calls[c] EXCEPT !.st = st]]
           T == [sockets |-> S.sockets, calls |-> calls, got |-> S.got]
<1>1. Settled(S, c, st) = T
  <2>0. Whole(S)
    BY DEF InOrder
  <2>1. [S EXCEPT !.calls = calls] = T
    <3> HIDE DEF calls
    <3> QED BY ONLY <2>0, NewCalls DEF T
  <2> QED BY <2>1 DEF Settled
<1>2. S.calls \in [SCalls -> CallRecord] /\ S.calls[c] \in CallRecord
  BY DEF InOrder
<1>3. [S.calls[c] EXCEPT !.st = st] \in CallRecord
  BY <1>2 DEF CallRecord
<1>4. /\ calls \in [SCalls -> CallRecord]
      /\ \A d \in SCalls : calls[d].op = S.calls[d].op /\ calls[d].id = S.calls[d].id
      /\ \A d \in SCalls : d # c => calls[d].st = S.calls[d].st
      /\ calls[c].st = st
  BY <1>2, <1>3 DEF CallRecord
<1> HIDE DEF calls
<1>5. ASSUME NEW i \in DOMAIN S.sockets
      PROVE  \E d \in SCalls : calls[d].op = "connect" /\ calls[d].id = i /\ calls[d].st \in {"pending", "ok"}
  <2>1. PICK d \in SCalls : S.calls[d].op = "connect" /\ S.calls[d].id = i /\ S.calls[d].st \in {"pending", "ok"}
    BY DEF InOrder
  <2>2. CASE d = c
    BY <1>4, <2>1, <2>2
  <2>3. CASE d # c
    BY <1>4, <2>1, <2>3
  <2> QED BY <2>2, <2>3
<1>6. T.sockets = S.sockets /\ T.calls = calls /\ T.got = S.got /\ Whole(T)
  BY DEF Whole
<1> HIDE DEF T
<1>7. InOrder(T)
  BY <1>4, <1>5, <1>6 DEF InOrder
<1>8. OpsKept(S, T)
  BY <1>4, <1>6 DEF OpsKept
<1> QED BY <1>1, <1>7, <1>8

LEMMA LaterKeeps ==
  ASSUME NEW S, InOrder(S), NEW c \in SCalls
  PROVE  InOrder(Later(S, c)) /\ OpsKept(S, Later(S, c))
<1> DEFINE calls == [S.calls EXCEPT ![c] = [S.calls[c] EXCEPT !.left = S.calls[c].left - 1]]
           T == [sockets |-> S.sockets, calls |-> calls, got |-> S.got]
<1>1. Later(S, c) = T
  <2>0. Whole(S)
    BY DEF InOrder
  <2>1. [S EXCEPT !.calls = calls] = T
    <3> HIDE DEF calls
    <3> QED BY ONLY <2>0, NewCalls DEF T
  <2> QED BY <2>1 DEF Later
<1>2. S.calls \in [SCalls -> CallRecord] /\ S.calls[c] \in CallRecord
  BY DEF InOrder
<1>3. [S.calls[c] EXCEPT !.left = S.calls[c].left - 1] \in CallRecord
  BY <1>2 DEF CallRecord
<1>4. /\ calls \in [SCalls -> CallRecord]
      /\ \A d \in SCalls : calls[d].op = S.calls[d].op /\ calls[d].id = S.calls[d].id /\ calls[d].st = S.calls[d].st
  BY <1>2, <1>3 DEF CallRecord
<1> HIDE DEF calls
<1>5. ASSUME NEW i \in DOMAIN S.sockets
      PROVE  \E d \in SCalls : calls[d].op = "connect" /\ calls[d].id = i /\ calls[d].st \in {"pending", "ok"}
  <2>1. PICK d \in SCalls : S.calls[d].op = "connect" /\ S.calls[d].id = i /\ S.calls[d].st \in {"pending", "ok"}
    BY DEF InOrder
  <2> QED BY <1>4, <2>1
<1>6. T.sockets = S.sockets /\ T.calls = calls /\ T.got = S.got /\ Whole(T)
  BY DEF Whole
<1> HIDE DEF T
<1>7. InOrder(T)
  BY <1>4, <1>5, <1>6 DEF InOrder
<1>8. OpsKept(S, T)
  BY <1>4, <1>6 DEF OpsKept
<1> QED BY <1>1, <1>7, <1>8

LEMMA ForgetKeeps ==
  ASSUME NEW S, InOrder(S), NEW i
  PROVE  /\ InOrder(Forget(S, i)) /\ i \notin DOMAIN Forget(S, i).sockets
         /\ Forget(S, i).calls = S.calls
<1> DEFINE fewer == [j \in DOMAIN S.sockets \ {i} |-> S.sockets[j]]
           T == [sockets |-> fewer, calls |-> S.calls, got |-> S.got]
<1>1. Forget(S, i) = T
  <2>0. Whole(S)
    BY DEF InOrder
  <2>1. [S EXCEPT !.sockets = fewer] = T
    <3> HIDE DEF fewer
    <3> QED BY ONLY <2>0, NewSockets DEF T
  <2> QED BY <2>1 DEF Forget
<1>2. /\ DOMAIN fewer = DOMAIN S.sockets \ {i} /\ \A j \in DOMAIN fewer : fewer[j] = S.sockets[j]
      /\ fewer = [j \in DOMAIN fewer |-> fewer[j]]
  OBVIOUS
<1> HIDE DEF fewer
<1>3. T.sockets = fewer /\ T.calls = S.calls /\ T.got = S.got /\ Whole(T)
  BY DEF Whole
<1> HIDE DEF T
<1>4. InOrder(T)
  BY <1>2, <1>3 DEF InOrder
<1> QED BY <1>1, <1>2, <1>3, <1>4

LEMMA TakenKeeps ==
  ASSUME NEW S, InOrder(S), WiresTyped, NEW i \in DOMAIN S.sockets, S.sockets[i].inbox # <<>>
  PROVE  InOrder(Taken(S, i)) /\ Taken(S, i).calls = S.calls
<1> DEFINE box == S.sockets[i].inbox
           boxes == [S.sockets EXCEPT ![i] = [S.sockets[i] EXCEPT !.inbox = Tail(box)]]
           out == [S.got EXCEPT ![i] = Append(S.got[i], Head(box))]
           T == [sockets |-> boxes, calls |-> S.calls, got |-> out]
<1>1. Taken(S, i) = T
  <2>0. Whole(S)
    BY DEF InOrder
  <2>1. [S EXCEPT !.sockets = boxes, !.got = out] = T
    <3> HIDE DEF boxes, out
    <3> QED BY ONLY <2>0, NewGot DEF T
  <2> QED BY <2>1 DEF Taken
<1>2. /\ i \in Ids /\ S.sockets[i] \in SocketRecord /\ S.got \in [Ids -> Seq(Nat)] /\ S.got[i] \in Seq(Nat)
      /\ box \in Seq(Nat) /\ S.sockets[i].dropped \in Nat /\ heard[i] \in Nat /\ i < nextSocket
      /\ Account(S.got[i], box, S.sockets[i].dropped, heard[i]) /\ box # <<>>
  <2>1. i \in Ids /\ S.sockets[i] \in SocketRecord /\ S.got \in [Ids -> Seq(Nat)] /\ i \in 1..(nextSocket - 1)
        /\ Account(S.got[i], box, S.sockets[i].dropped, heard[i])
    BY DEF InOrder
  <2>2. i < nextSocket
    <3>1. nextSocket \in Int
      BY SocketsAssumption DEF WiresTyped
    <3> QED BY <2>1, <3>1
  <2> QED BY <2>1, <2>2 DEF SocketRecord, WiresTyped
<1>3. /\ Account(Append(S.got[i], Head(box)), Tail(box), S.sockets[i].dropped, heard[i])
      /\ Append(S.got[i], Head(box)) \in Seq(Nat) /\ Tail(box) \in Seq(Nat)
  BY <1>2, AccountTaken
<1>4. /\ DOMAIN boxes = DOMAIN S.sockets
      /\ boxes[i] \in SocketRecord /\ boxes[i].inbox = Tail(box) /\ boxes[i].dropped = S.sockets[i].dropped
      /\ \A j \in DOMAIN S.sockets : j # i => boxes[j] = S.sockets[j]
      /\ boxes = [j \in DOMAIN boxes |-> boxes[j]]
  BY <1>2, <1>3 DEF SocketRecord
<1>5. out \in [Ids -> Seq(Nat)] /\ out[i] = Append(S.got[i], Head(box)) /\ \A j \in Ids : j # i => out[j] = S.got[j]
  BY <1>2, <1>3
<1>6. ASSUME NEW j \in DOMAIN boxes
      PROVE  boxes[j] \in SocketRecord /\ Account(out[j], boxes[j].inbox, boxes[j].dropped, heard[j])
  <2>1. CASE j = i
    BY <1>3, <1>4, <1>5, <2>1
  <2>2. CASE j # i
    BY <1>4, <1>5, <2>2 DEF InOrder
  <2> QED BY <2>1, <2>2
<1>7. \A j \in Ids : j >= nextSocket => out[j] = <<>>
  <2>1. ASSUME NEW j \in Ids, j >= nextSocket PROVE out[j] = <<>>
    <3>1. S.got[j] = <<>>
      BY <2>1 DEF InOrder
    <3>2. j # i
      <4>1. j \in Int /\ nextSocket \in Int
        BY SocketsAssumption DEF WiresTyped, Ids
      <4> QED BY <1>2, <2>1, <4>1 DEF Ids
    <3> QED BY <1>5, <2>1, <3>1, <3>2
  <2> QED BY <2>1
<1> HIDE DEF boxes, out
<1>8. T.sockets = boxes /\ T.calls = S.calls /\ T.got = out /\ Whole(T)
  BY DEF Whole
<1> HIDE DEF T
<1>9. InOrder(T)
  BY <1>4, <1>5, <1>6, <1>7, <1>8 DEF InOrder
<1> QED BY <1>1, <1>8, <1>9

LEMMA ConnectKeeps ==
  ASSUME NEW S, InOrder(S), NEW c \in SCalls
  PROVE  InOrder(ConnectPolled(S, c)) /\ OpsKept(S, ConnectPolled(S, c))
<1> DEFINE i == S.calls[c].id
           F == Forget(S, i)
<1>1. InOrder(F) /\ i \notin DOMAIN F.sockets /\ F.calls = S.calls
  BY ForgetKeeps
<1> HIDE DEF F
<1>2. InOrder(Settled(F, c, "error")) /\ OpsKept(F, Settled(F, c, "error"))
  <2>1. F.calls[c].id \notin DOMAIN F.sockets
    BY <1>1
  <2> QED BY <1>1, <2>1, SettledKeeps
<1>3. OpsKept(S, Settled(F, c, "error"))
  BY <1>1, <1>2 DEF OpsKept
<1>4. i \notin DOMAIN S.sockets => InOrder(Settled(S, c, "error")) /\ OpsKept(S, Settled(S, c, "error"))
  BY SettledKeeps
<1>5. InOrder(Settled(S, c, "ok")) /\ OpsKept(S, Settled(S, c, "ok"))
  BY SettledKeeps
<1>6. InOrder(Later(S, c)) /\ OpsKept(S, Later(S, c))
  BY LaterKeeps
<1>7. ConnectFailed(S, c) = Settled(F, c, "error")
  BY DEF ConnectFailed, F
<1>8. \/ i \notin DOMAIN S.sockets /\ ConnectPolled(S, c) = Settled(S, c, "error")
      \/ ConnectPolled(S, c) = Settled(S, c, "ok")
      \/ ConnectPolled(S, c) = ConnectFailed(S, c)
      \/ ConnectPolled(S, c) = Later(S, c)
  BY DEF ConnectPolled
<1> HIDE DEF i
<1> QED BY <1>2, <1>3, <1>4, <1>5, <1>6, <1>7, <1>8

LEMMA RecvKeeps ==
  ASSUME NEW S, InOrder(S), WiresTyped, NEW c \in SCalls, S.calls[c].op = "recv"
  PROVE  InOrder(RecvPolled(S, c)) /\ OpsKept(S, RecvPolled(S, c))
<1> DEFINE i == S.calls[c].id
           R == Taken(S, i)
<1>1. InOrder(Settled(S, c, "error")) /\ OpsKept(S, Settled(S, c, "error"))
  BY SettledKeeps
<1>2. InOrder(Settled(S, c, "empty")) /\ OpsKept(S, Settled(S, c, "empty"))
  BY SettledKeeps
<1>3. InOrder(Later(S, c)) /\ OpsKept(S, Later(S, c))
  BY LaterKeeps
<1>4. ASSUME i \in DOMAIN S.sockets, S.sockets[i].inbox # <<>>
      PROVE  InOrder(Settled(R, c, "ok")) /\ OpsKept(S, Settled(R, c, "ok"))
  <2>1. InOrder(R) /\ R.calls = S.calls
    BY <1>4, TakenKeeps
  <2> HIDE DEF R
  <2>2. InOrder(Settled(R, c, "ok")) /\ OpsKept(R, Settled(R, c, "ok"))
    BY <2>1, SettledKeeps
  <2> QED BY <2>1, <2>2 DEF OpsKept
<1>5. \/ RecvPolled(S, c) = Settled(S, c, "error")
      \/ i \in DOMAIN S.sockets /\ S.sockets[i].inbox # <<>> /\ RecvPolled(S, c) = Settled(R, c, "ok")
      \/ RecvPolled(S, c) = Settled(S, c, "empty")
      \/ RecvPolled(S, c) = Later(S, c)
  BY DEF RecvPolled
<1> HIDE DEF i, R
<1> QED BY <1>1, <1>2, <1>3, <1>4, <1>5

LEMMA PollKeeps ==
  ASSUME NEW S, InOrder(S), WiresTyped, OpsKept(Waiting, S), NEW c \in SCalls
  PROVE  InOrder(PollOf(S, c)) /\ OpsKept(Waiting, PollOf(S, c))
<1>1. S.calls[c].op = scalls[c].op
  BY DEF OpsKept, Waiting
<1>2. CASE PollOf(S, c) = ConnectPolled(S, c)
  BY <1>2, ConnectKeeps DEF OpsKept
<1>3. CASE scalls[c].op = "recv" /\ PollOf(S, c) = RecvPolled(S, c)
  BY <1>1, <1>3, RecvKeeps DEF OpsKept
<1>4. CASE PollOf(S, c) = S
  BY <1>4
<1>5. \/ PollOf(S, c) = ConnectPolled(S, c)
      \/ scalls[c].op = "recv" /\ PollOf(S, c) = RecvPolled(S, c)
      \/ PollOf(S, c) = S
  BY DEF PollOf
<1> QED BY <1>2, <1>3, <1>4, <1>5

----------------------------------------------------------------------------
(* All polls of a frame. *)

LEMMA LeastOf ==
  ASSUME NEW T \in SUBSET Nat, T # {}
  PROVE  \E i \in T : \A j \in T : i <= j
<1> DEFINE Below == {p \in Nat \X Nat : p[1] < p[2]}
<1>1. IsWellFoundedOn(Below, Nat)
  BY NatLessThanWellFounded DEF OpToRel
<1>2. \A i, j \in Nat : <<j, i>> \notin Below => i <= j
  OBVIOUS
<1> HIDE DEF Below
<1>3. PICK i \in T : \A j \in T : <<j, i>> \notin Below
  BY <1>1, WFMin
<1>4. \A j \in T : i <= j
  BY <1>2, <1>3
<1> QED BY <1>4

\* g holds what each of the first m polls leaves.
Runs(m, g) == g = [c \in 0..m |-> IF c = 0 THEN Waiting ELSE PollOf(g[c - 1], c)]

LEMMA RunsExist ==
  ASSUME NEW m \in Nat
  PROVE  \E g : Runs(m, g)
<1> DEFINE Bad == {k \in Nat : ~ \E g : Runs(k, g)}
<1>1. SUFFICES ASSUME Bad # {} PROVE FALSE
  OBVIOUS
<1>2. PICK k \in Bad : \A j \in Bad : k <= j
  <2>1. Bad \in SUBSET Nat
    OBVIOUS
  <2> HIDE DEF Bad
  <2> QED BY <1>1, <2>1, LeastOf
<1>3. k \in Nat
  OBVIOUS
<1>4. CASE k = 0
  <2> DEFINE g == [c \in 0..0 |-> Waiting]
  <2>1. g = [c \in 0..0 |-> IF c = 0 THEN Waiting ELSE PollOf(g[c - 1], c)]
    <3>1. \A c \in 0..0 : c = 0
      OBVIOUS
    <3> QED BY <3>1
  <2>2. Runs(0, g)
    BY <2>1 DEF Runs
  <2> QED BY <1>4, <2>2
<1>5. CASE k # 0
  <2>1. k - 1 \in Nat /\ k - 1 \notin Bad
    BY <1>2, <1>3, <1>5
  <2>2. PICK g : Runs(k - 1, g)
    BY <2>1
  <2>3. \A c \in 0..(k - 1) : g[c] = IF c = 0 THEN Waiting ELSE PollOf(g[c - 1], c)
    BY <2>2 DEF Runs
  <2> DEFINE h == [c \in 0..k |-> IF c = k THEN PollOf(g[k - 1], k) ELSE g[c]]
  <2>4. \A c \in 0..k : h[c] = IF c = 0 THEN Waiting ELSE PollOf(h[c - 1], c)
    <3>1. TAKE c \in 0..k
    <3>2. CASE c = k
      <4>1. c - 1 \in 0..k /\ c - 1 # k /\ c # 0
        BY <1>3, <1>5, <3>2
      <4>2. h[c] = PollOf(g[k - 1], k) /\ h[c - 1] = g[k - 1]
        BY <3>2, <4>1
      <4> QED BY <3>2, <4>1, <4>2
    <3>3. CASE c # k /\ c # 0
      <4>1. c - 1 \in 0..k /\ c - 1 # k /\ c \in 0..(k - 1)
        BY <1>3, <3>3
      <4>2. h[c] = g[c] /\ h[c - 1] = g[c - 1]
        BY <3>3, <4>1
      <4>3. g[c] = PollOf(g[c - 1], c)
        BY <2>3, <3>3, <4>1
      <4> QED BY <3>3, <4>2, <4>3
    <3>4. CASE c # k /\ c = 0
      <4>1. c \in 0..(k - 1)
        BY <1>3, <3>4
      <4> QED BY <2>3, <3>4, <4>1
    <3> QED BY <3>2, <3>3, <3>4
  <2>5. h = [c \in 0..k |-> h[c]]
    OBVIOUS
  <2> HIDE DEF h
  <2>6. Runs(k, h)
    BY <2>4, <2>5 DEF Runs
  <2> QED BY <2>6
<1> QED BY <1>4, <1>5

LEMMA PollsKeep ==
  ASSUME InOrder(Waiting), WiresTyped
  PROVE  InOrder(PolledCalls)
<1> DEFINE poll == CHOOSE g : Runs(MaxCalls, g)
<1>0. MaxCalls \in Nat
  BY SocketsAssumption
<1>1. Runs(MaxCalls, poll)
  BY <1>0, RunsExist
<1>2. PolledCalls = poll[MaxCalls]
  BY DEF PolledCalls, Runs
<1> HIDE DEF poll
<1>3. \A c \in 0..MaxCalls : poll[c] = IF c = 0 THEN Waiting ELSE PollOf(poll[c - 1], c)
  BY <1>1 DEF Runs
<1> DEFINE Right(S) == InOrder(S) /\ OpsKept(Waiting, S)
           Bad == {k \in Nat : k <= MaxCalls /\ ~Right(poll[k])}
<1>4. SUFFICES ASSUME Bad # {} PROVE FALSE
  BY <1>0, <1>2
<1>5. PICK k \in Bad : \A j \in Bad : k <= j
  <2>1. Bad \in SUBSET Nat
    OBVIOUS
  <2> HIDE DEF Bad
  <2> QED BY <1>4, <2>1, LeastOf
<1>6. k \in Nat /\ k <= MaxCalls /\ ~Right(poll[k]) /\ k \in 0..MaxCalls
  BY <1>0
<1>7. CASE k = 0
  <2>1. poll[k] = Waiting
    BY <1>3, <1>6, <1>7
  <2> QED BY <1>6, <2>1 DEF OpsKept
<1>8. CASE k # 0
  <2>1. k - 1 \in Nat /\ k - 1 \notin Bad /\ k - 1 <= MaxCalls /\ k \in SCalls
    BY <1>0, <1>5, <1>6, <1>8 DEF SCalls
  <2>2. Right(poll[k - 1])
    BY <2>1
  <2>3. poll[k] = PollOf(poll[k - 1], k)
    BY <1>3, <1>6, <1>8
  <2>4. Right(PollOf(poll[k - 1], k))
    BY <2>1, <2>2, PollKeeps
  <2> QED BY <1>6, <2>3, <2>4
<1> QED BY <1>7, <1>8

----------------------------------------------------------------------------
(* The actions. *)

LEMMA SocketsPolled == SocketsInv /\ SocketPolls => SocketsInv'
<1> SUFFICES ASSUME SocketsInv, SocketPolls PROVE SocketsInv'
  OBVIOUS
<1>1. InOrder(Waiting)
  <2>1. Waiting.sockets = sockets /\ Waiting.calls = scalls /\ Waiting.got = got /\ Whole(Waiting)
    BY DEF Waiting, Whole
  <2> QED BY <2>1 DEF SocketsInv, InOrder, SocketsHaveOwners, Held
<1> DEFINE S == PolledCalls
<1>2. InOrder(S)
  BY <1>1, PollsKeep DEF SocketsInv
<1>3. sockets' = S.sockets /\ scalls' = S.calls /\ got' = S.got /\ UNCHANGED <<nextSocket, sent, heard>>
  BY DEF SocketPolls
<1> HIDE DEF S
<1>4. WiresTyped'
  BY <1>3 DEF SocketsInv, WiresTyped
<1>5. sockets' = [i \in Held' |-> sockets'[i]] /\ Held' \subseteq Ids \cap (1..(nextSocket' - 1))
  BY <1>2, <1>3 DEF InOrder, Held
<1>6. \A i \in Held' : sockets'[i] \in SocketRecord
  BY <1>2, <1>3 DEF InOrder, Held
<1>7. scalls' \in [SCalls -> CallRecord] /\ got' \in [Ids -> Seq(Nat)]
  BY <1>2, <1>3 DEF InOrder
<1>8. \A i \in Ids : i >= nextSocket' => got'[i] = <<>>
  BY <1>2, <1>3 DEF InOrder
<1>9. \A i \in Held' : Account(got'[i], sockets'[i].inbox, sockets'[i].dropped, heard'[i])
  BY <1>2, <1>3 DEF InOrder, Held
<1>10. SocketsHaveOwners'
  BY <1>2, <1>3 DEF InOrder, Held, SocketsHaveOwners
<1> QED BY <1>4, <1>5, <1>6, <1>7, <1>8, <1>9, <1>10 DEF SocketsInv

\* Facts that every action starts from.
LEMMA HeldFacts ==
  ASSUME SocketsInv
  PROVE  /\ nextSocket \in Nat /\ nextSocket >= 1 /\ nextSocket <= MaxIds + 1 /\ MaxIds \in Nat
         /\ \A i \in Held : /\ i \in Ids /\ i \in Nat /\ i < nextSocket /\ i >= 1
                           /\ sockets[i] \in SocketRecord /\ sockets[i].inbox \in Seq(Nat) /\ sockets[i].dropped \in Nat
                           /\ got[i] \in Seq(Nat) /\ heard[i] \in Nat /\ sent[i] \in Nat /\ heard[i] <= sent[i]
         /\ nextSocket \notin Held
<1>1. nextSocket \in Nat /\ nextSocket >= 1 /\ nextSocket <= MaxIds + 1 /\ MaxIds \in Nat
  BY SocketsAssumption DEF SocketsInv, WiresTyped
<1>2. ASSUME NEW i \in Held PROVE i \in Ids /\ i \in Nat /\ i < nextSocket /\ i >= 1
  <2>1. i \in Ids /\ i \in 1..(nextSocket - 1)
    BY <1>2 DEF SocketsInv
  <2> QED BY <1>1, <2>1
<1>3. ASSUME NEW i \in Held
      PROVE  /\ sockets[i] \in SocketRecord /\ sockets[i].inbox \in Seq(Nat) /\ sockets[i].dropped \in Nat
             /\ got[i] \in Seq(Nat) /\ heard[i] \in Nat /\ sent[i] \in Nat /\ heard[i] <= sent[i]
  <2>1. i \in Ids /\ sockets[i] \in SocketRecord
    BY <1>2, <1>3 DEF SocketsInv
  <2>2. got[i] \in Seq(Nat) /\ heard[i] \in Nat /\ sent[i] \in Nat /\ heard[i] <= sent[i]
    BY <2>1 DEF SocketsInv, WiresTyped
  <2> QED BY <2>1, <2>2 DEF SocketRecord
<1>4. nextSocket \notin Held
  BY <1>1, <1>2
<1> QED BY <1>1, <1>2, <1>3, <1>4

\* A call that was not made yet is nobody's connect.
LEMMA OwnersStay ==
  ASSUME SocketsInv, NEW c \in SCalls, scalls[c].st = "new", NEW r, scalls' = [scalls EXCEPT ![c] = r],
         NEW i \in Held
  PROVE  \E d \in SCalls : scalls'[d].op = "connect" /\ scalls'[d].id = i /\ scalls'[d].st \in {"pending", "ok"}
<1>1. PICK d \in SCalls : scalls[d].op = "connect" /\ scalls[d].id = i /\ scalls[d].st \in {"pending", "ok"}
  BY DEF SocketsInv, SocketsHaveOwners
<1>2. d # c
  BY <1>1
<1>3. scalls \in [SCalls -> CallRecord]
  BY DEF SocketsInv
<1>4. scalls'[d] = scalls[d]
  BY <1>2, <1>3
<1> QED BY <1>1, <1>4

LEMMA Connected == SocketsInv /\ WsConnect => SocketsInv'
<1> SUFFICES ASSUME SocketsInv, WsConnect PROVE SocketsInv'
  OBVIOUS
<1> DEFINE fresh == [state |-> "connecting", inbox |-> <<>>, dropped |-> 0]
           record == [st |-> "pending", op |-> "connect", id |-> nextSocket, left |-> RecvDeadline]
<1>1. PICK c \in SCalls :
        /\ Next1(c) /\ nextSocket \in Ids
        /\ sockets' = [i \in Held \cup {nextSocket} |-> IF i = nextSocket THEN fresh ELSE sockets[i]]
        /\ nextSocket' = nextSocket + 1 /\ scalls' = [scalls EXCEPT ![c] = record]
        /\ UNCHANGED <<sent, heard, got>>
  BY DEF WsConnect
<1>2. /\ nextSocket \in Nat /\ nextSocket >= 1 /\ nextSocket \notin Held /\ MaxIds \in Nat
      /\ \A i \in Held : i \in Ids /\ i \in Nat /\ i < nextSocket /\ i >= 1 /\ sockets[i] \in SocketRecord
  BY HeldFacts
<1>3. Held' = Held \cup {nextSocket}
  BY <1>1 DEF Held
<1>4. WiresTyped'
  <2>1. nextSocket' \in 1..(MaxIds + 1)
    BY <1>1, <1>2 DEF Ids
  <2>2. \A i \in Ids : i >= nextSocket' => i >= nextSocket
    BY <1>1, <1>2 DEF Ids
  <2> QED BY <1>1, <2>1, <2>2 DEF SocketsInv, WiresTyped
<1>5. Held' \subseteq Ids \cap (1..(nextSocket' - 1))
  BY <1>1, <1>2, <1>3
<1>6. fresh \in SocketRecord /\ record \in CallRecord
  <2>1. RecvDeadline \in Int /\ nextSocket \in 0..MaxIds
    BY <1>1, <1>2, SocketsAssumption DEF Ids
  <2>2. <<>> \in Seq(Nat)
    OBVIOUS
  <2> QED BY <2>1, <2>2 DEF SocketRecord, CallRecord
<1>7. /\ sockets'[nextSocket] = fresh
      /\ \A i \in Held : sockets'[i] = sockets[i]
      /\ sockets' = [i \in Held' |-> sockets'[i]]
  BY <1>1, <1>2, <1>3
<1>8. \A i \in Held' : sockets'[i] \in SocketRecord
  BY <1>2, <1>3, <1>6, <1>7
<1>9. scalls' \in [SCalls -> CallRecord] /\ scalls'[c] = record
  BY <1>1, <1>6 DEF SocketsInv
<1>10. got' \in [Ids -> Seq(Nat)] /\ \A i \in Ids : i >= nextSocket' => got'[i] = <<>>
  <2>1. \A i \in Ids : i >= nextSocket' => i >= nextSocket
    BY <1>1, <1>2 DEF Ids
  <2> QED BY <1>1, <2>1 DEF SocketsInv
<1>11. ASSUME NEW i \in Held' PROVE Account(got'[i], sockets'[i].inbox, sockets'[i].dropped, heard'[i])
  <2>1. CASE i \in Held
    BY <1>1, <1>7, <2>1 DEF SocketsInv
  <2>2. CASE i = nextSocket
    <3>1. got[i] = <<>> /\ heard[i] = 0
      BY <1>1, <1>2, <2>2 DEF SocketsInv, WiresTyped
    <3>2. Account(<<>>, <<>>, 0, 0)
      BY DEF Account
    <3> QED BY <1>1, <1>7, <2>2, <3>1, <3>2
  <2> QED BY <1>3, <2>1, <2>2
<1>12. SocketsHaveOwners'
  <2> SUFFICES ASSUME NEW i \in Held'
               PROVE  \E d \in SCalls : scalls'[d].op = "connect" /\ scalls'[d].id = i /\ scalls'[d].st \in {"pending", "ok"}
    BY DEF SocketsHaveOwners
  <2>1. CASE i \in Held
    BY <1>1, <2>1, OwnersStay DEF Next1
  <2>2. CASE i = nextSocket
    BY <1>9, <2>2
  <2> QED BY <1>3, <2>1, <2>2
<1> QED BY <1>4, <1>5, <1>7, <1>8, <1>9, <1>10, <1>11, <1>12 DEF SocketsInv

LEMMA Received == SocketsInv /\ WsRecv => SocketsInv'
<1> SUFFICES ASSUME SocketsInv, WsRecv PROVE SocketsInv'
  OBVIOUS
<1>1. PICK c \in SCalls, i \in 1..(nextSocket - 1), n \in 1..RecvDeadline :
        /\ Next1(c) /\ scalls' = [scalls EXCEPT ![c] = [st |-> "pending", op |-> "recv", id |-> i, left |-> n]]
        /\ UNCHANGED <<sockets, nextSocket, sent, heard, got>>
  BY DEF WsRecv
<1> DEFINE record == [st |-> "pending", op |-> "recv", id |-> i, left |-> n]
<1>2. record \in CallRecord
  <2>1. nextSocket \in Nat /\ nextSocket <= MaxIds + 1 /\ MaxIds \in Nat
    BY HeldFacts
  <2>2. i \in 0..MaxIds /\ n \in Int
    BY <1>1, <2>1, SocketsAssumption
  <2> QED BY <2>2 DEF CallRecord
<1> HIDE DEF record
<1>3. scalls' = [scalls EXCEPT ![c] = record]
  BY <1>1 DEF record
<1>4. scalls' \in [SCalls -> CallRecord]
  BY <1>2, <1>3 DEF SocketsInv
<1>5. SocketsHaveOwners'
  <2> SUFFICES ASSUME NEW j \in Held'
               PROVE  \E d \in SCalls : scalls'[d].op = "connect" /\ scalls'[d].id = j /\ scalls'[d].st \in {"pending", "ok"}
    BY DEF SocketsHaveOwners
  <2>1. j \in Held
    BY <1>1 DEF Held
  <2> QED BY <1>1, <1>3, <2>1, OwnersStay DEF Next1
<1> QED BY <1>1, <1>4, <1>5 DEF SocketsInv, WiresTyped, Held

LEMMA Closed1 == SocketsInv /\ WsClose => SocketsInv'
<1> SUFFICES ASSUME SocketsInv, WsClose PROVE SocketsInv'
  OBVIOUS
<1>1. PICK i \in Held : sockets' = Without({i}) /\ UNCHANGED <<nextSocket, sent, heard, scalls, got>>
  BY DEF WsClose
<1>2. /\ Held' = Held \ {i} /\ \A j \in Held' : sockets'[j] = sockets[j]
      /\ sockets' = [j \in Held' |-> sockets'[j]]
  BY <1>1 DEF Held, Without
<1>3. WiresTyped'
  BY <1>1 DEF SocketsInv, WiresTyped
<1>4. SocketsHaveOwners'
  BY <1>1, <1>2 DEF SocketsInv, SocketsHaveOwners
<1>5. \A j \in Held' : Account(got'[j], sockets'[j].inbox, sockets'[j].dropped, heard'[j])
  BY <1>1, <1>2 DEF SocketsInv
<1>6. \A j \in Held' : sockets'[j] \in SocketRecord
  BY <1>2 DEF SocketsInv
<1> QED BY <1>1, <1>2, <1>3, <1>4, <1>5, <1>6 DEF SocketsInv

\* What the server does to a connection.
LEMMA NewState ==
  ASSUME SocketsInv, NEW i \in Held, NEW s \in {"open", "closed"},
         sockets' = [sockets EXCEPT ![i].state = s], UNCHANGED <<nextSocket, sent, heard, scalls, got>>
  PROVE  SocketsInv'
<1>1. sockets = [j \in Held |-> sockets[j]] /\ sockets[i] \in SocketRecord
  BY DEF SocketsInv
<1>2. /\ Held' = Held /\ sockets' = [j \in Held' |-> sockets'[j]]
      /\ sockets'[i] = [sockets[i] EXCEPT !.state = s]
      /\ \A j \in Held : j # i => sockets'[j] = sockets[j]
  BY <1>1 DEF Held
<1>3. sockets'[i] \in SocketRecord /\ sockets'[i].inbox = sockets[i].inbox /\ sockets'[i].dropped = sockets[i].dropped
  BY <1>1, <1>2 DEF SocketRecord
<1>4. WiresTyped'
  BY DEF SocketsInv, WiresTyped
<1>5. SocketsHaveOwners'
  BY <1>2 DEF SocketsInv, SocketsHaveOwners
<1>6. ASSUME NEW j \in Held'
      PROVE  sockets'[j] \in SocketRecord /\ Account(got'[j], sockets'[j].inbox, sockets'[j].dropped, heard'[j])
  <2>1. Account(got[j], sockets[j].inbox, sockets[j].dropped, heard[j]) /\ sockets[j] \in SocketRecord
    BY <1>2 DEF SocketsInv
  <2>2. CASE j = i
    BY <1>3, <2>1, <2>2
  <2>3. CASE j # i
    BY <1>2, <2>1, <2>3
  <2> QED BY <2>2, <2>3
<1> QED BY <1>2, <1>4, <1>5, <1>6 DEF SocketsInv

LEMMA Sent == SocketsInv /\ ServerSends => SocketsInv'
<1> SUFFICES ASSUME SocketsInv, ServerSends PROVE SocketsInv'
  OBVIOUS
<1>1. PICK i \in Held : sent' = [sent EXCEPT ![i] = sent[i] + 1] /\ UNCHANGED <<sockets, nextSocket, heard, scalls, got>>
  BY DEF ServerSends
<1>2. i \in Ids /\ i < nextSocket /\ i \in Nat /\ nextSocket \in Nat /\ sent[i] \in Nat /\ heard[i] \in Nat /\ heard[i] <= sent[i]
  BY HeldFacts
<1>3. sent \in [Ids -> Nat] /\ heard \in [Ids -> Nat] /\ \A j \in Ids : heard[j] <= sent[j]
  BY DEF SocketsInv, WiresTyped
<1>4. sent' \in [Ids -> Nat] /\ sent'[i] = sent[i] + 1 /\ \A j \in Ids : j # i => sent'[j] = sent[j]
  BY <1>1, <1>2, <1>3
<1>5. \A j \in Ids : heard'[j] <= sent'[j]
  BY <1>1, <1>2, <1>3, <1>4
<1>6. \A j \in Ids : j >= nextSocket' => sent'[j] = 0 /\ heard'[j] = 0
  <2>1. \A j \in Ids : j >= nextSocket => j # i
    BY <1>2 DEF Ids
  <2> QED BY <1>1, <1>4, <2>1 DEF SocketsInv, WiresTyped
<1>7. WiresTyped'
  BY <1>1, <1>4, <1>5, <1>6 DEF SocketsInv, WiresTyped
<1> QED BY <1>1, <1>7 DEF SocketsInv, SocketsHaveOwners, Held

LEMMA Serviced == SocketsInv /\ ServiceFrame => SocketsInv'
<1> SUFFICES ASSUME SocketsInv, ServiceFrame PROVE SocketsInv'
  OBVIOUS
<1> DEFINE all(i) == Arrived(sockets[i].inbox, heard[i], sent[i])
           serviced(i) == IF Len(all(i)) - InboxCap > 0
                          THEN [sockets[i] EXCEPT !.inbox = Kept(all(i)), !.dropped = sockets[i].dropped + (Len(all(i)) - InboxCap)]
                          ELSE [sockets[i] EXCEPT !.inbox = all(i)]
<1>1. /\ sockets' = [i \in Held |-> serviced(i)]
      /\ heard' = [i \in Ids |-> IF i \in Held THEN sent[i] ELSE heard[i]]
      /\ UNCHANGED <<nextSocket, sent, scalls, got>>
  BY DEF ServiceFrame, Arrived
<1>2. /\ Held' = Held /\ sockets' = [i \in Held' |-> sockets'[i]]
      /\ \A i \in Held : sockets'[i] = serviced(i) /\ heard'[i] = sent[i]
  BY <1>1, HeldFacts DEF Held
<1>3. ASSUME NEW i \in Held
      PROVE  serviced(i) \in SocketRecord /\ Account(got[i], serviced(i).inbox, serviced(i).dropped, sent[i])
  <2>1. /\ sockets[i] \in SocketRecord /\ sockets[i].inbox \in Seq(Nat) /\ sockets[i].dropped \in Nat
        /\ got[i] \in Seq(Nat) /\ heard[i] \in Nat /\ sent[i] \in Nat /\ heard[i] <= sent[i]
        /\ Account(got[i], sockets[i].inbox, sockets[i].dropped, heard[i])
    BY HeldFacts DEF SocketsInv
  <2> DEFINE box == all(i)
             over == Len(box) - InboxCap
  <2>2. box \in Seq(Nat) /\ Account(got[i], box, sockets[i].dropped, sent[i])
    BY <2>1, AccountArrived
  <2>3. Len(box) \in Nat /\ InboxCap \in Nat
    BY <2>2, SocketsAssumption
  <2>4. serviced(i) = IF over > 0 THEN [sockets[i] EXCEPT !.inbox = Kept(box), !.dropped = sockets[i].dropped + over]
                      ELSE [sockets[i] EXCEPT !.inbox = box]
    OBVIOUS
  <2> HIDE DEF box, serviced
  <2>5. CASE over > 0
    <3>1. Kept(box) \in Seq(Nat) /\ Account(got[i], Kept(box), sockets[i].dropped + over, sent[i])
      BY <2>1, <2>2, <2>5, AccountTrimmed
    <3>2. sockets[i].dropped + over \in Nat
      BY <2>1, <2>3, <2>5
    <3> HIDE DEF over
    <3>3. serviced(i) = [[sockets[i] EXCEPT !.inbox = Kept(box)] EXCEPT !.dropped = sockets[i].dropped + over]
      BY <2>4, <2>5
    <3>4. /\ serviced(i) \in SocketRecord /\ serviced(i).inbox = Kept(box)
          /\ serviced(i).dropped = sockets[i].dropped + over
      BY <2>1, <3>1, <3>2, <3>3 DEF SocketRecord
    <3> QED BY <3>1, <3>4
  <2>6. CASE ~(over > 0)
    <3>1. serviced(i) = [sockets[i] EXCEPT !.inbox = box]
      BY <2>4, <2>6
    <3>2. serviced(i) \in SocketRecord /\ serviced(i).inbox = box /\ serviced(i).dropped = sockets[i].dropped
      BY <2>1, <2>2, <3>1 DEF SocketRecord
    <3> QED BY <2>2, <3>2
  <2> QED BY <2>5, <2>6
<1> HIDE DEF serviced
<1>4. WiresTyped'
  <2>1. sent \in [Ids -> Nat] /\ heard \in [Ids -> Nat] /\ \A i \in Ids : heard[i] <= sent[i]
    BY DEF SocketsInv, WiresTyped
  <2>2. heard' \in [Ids -> Nat] /\ \A i \in Ids : heard'[i] = IF i \in Held THEN sent[i] ELSE heard[i]
    BY <1>1, <2>1
  <2>3. \A i \in Ids : heard'[i] <= sent'[i]
    BY <1>1, <2>1, <2>2
  <2>4. \A i \in Ids : i >= nextSocket' => sent'[i] = 0 /\ heard'[i] = 0
    BY <1>1, <2>2 DEF SocketsInv, WiresTyped
  <2> QED BY <1>1, <2>1, <2>2, <2>3, <2>4 DEF SocketsInv, WiresTyped
<1>5. SocketsHaveOwners'
  BY <1>1, <1>2 DEF SocketsInv, SocketsHaveOwners
<1>6. \A i \in Held' : sockets'[i] \in SocketRecord /\ Account(got'[i], sockets'[i].inbox, sockets'[i].dropped, heard'[i])
  BY <1>1, <1>2, <1>3
<1> QED BY <1>1, <1>2, <1>4, <1>5, <1>6 DEF SocketsInv

LEMMA SocketsStep == SocketsInv /\ [SocketsNext]_socketVars => SocketsInv'
<1> SUFFICES ASSUME SocketsInv, [SocketsNext]_socketVars PROVE SocketsInv'
  OBVIOUS
<1>1. ASSUME ServerAccepts PROVE SocketsInv'
  BY <1>1, NewState DEF ServerAccepts
<1>2. ASSUME ServerCloses PROVE SocketsInv'
  BY <1>2, NewState DEF ServerCloses
<1>3. ASSUME UNCHANGED socketVars PROVE SocketsInv'
  BY <1>3 DEF socketVars, SocketsInv, WiresTyped, SocketsHaveOwners, Held
<1> QED BY <1>1, <1>2, <1>3, Connected, Received, Closed1, SocketsPolled, Sent, Serviced DEF SocketsNext

LEMMA SocketsStart == SocketsInit => SocketsInv
<1> SUFFICES ASSUME SocketsInit PROVE SocketsInv
  OBVIOUS
<1>1. Held = {} /\ sockets = [i \in Held |-> sockets[i]]
  BY DEF SocketsInit, Held
<1>2. WiresTyped
  BY SocketsAssumption DEF SocketsInit, WiresTyped
<1>3. scalls \in [SCalls -> CallRecord]
  <2>1. NewCall \in CallRecord
    BY SocketsAssumption DEF NewCall, CallRecord
  <2> QED BY <2>1 DEF SocketsInit
<1>4. got \in [Ids -> Seq(Nat)] /\ \A i \in Ids : got[i] = <<>>
  BY DEF SocketsInit
<1> QED BY <1>1, <1>2, <1>3, <1>4 DEF SocketsInv, SocketsHaveOwners

LEMMA SocketsMean == SocketsInv => MessagesAccounted /\ SocketsHaveOwners
<1> SUFFICES ASSUME SocketsInv PROVE MessagesAccounted
  BY DEF SocketsInv
<1>1. ASSUME NEW i \in Held
      PROVE  LET seen == got[i] \o sockets[i].inbox IN
             /\ \A k \in 1..(Len(seen) - 1) : seen[k] < seen[k + 1]
             /\ Len(seen) + sockets[i].dropped = heard[i]
             /\ \A k \in 2..Len(sockets[i].inbox) : sockets[i].inbox[k] = sockets[i].inbox[k - 1] + 1
  <2>1. /\ sockets[i].inbox \in Seq(Nat) /\ sockets[i].dropped \in Nat /\ got[i] \in Seq(Nat) /\ heard[i] \in Nat
        /\ Account(got[i], sockets[i].inbox, sockets[i].dropped, heard[i])
    BY HeldFacts DEF SocketsInv
  <2> QED BY <2>1, AccountMeans
<1> QED BY <1>1 DEF MessagesAccounted

----------------------------------------------------------------------------
(* The log. *)

LogTyped ==
  /\ logFile \in Nat /\ logLen \in Nat
  /\ cursor \in [Tools -> Nat] /\ reading \in [Tools -> Nat \cup {-1}]
  /\ cursorOf \in [Tools -> Nat] /\ mistaken \in [Tools -> BOOLEAN]
  /\ DOMAIN told = Tools /\ DOMAIN clipped = Tools

\* A read is told no more than there is, and no cursor is of a log to come.
LogBounds == \A t \in Tools : reading[t] <= logLen /\ cursorOf[t] <= logFile

LogInv == LogTyped /\ LogBounds /\ NothingIsSkipped

LEMMA LogStart == LogInit => LogInv
  BY DEF LogInit, LogInv, LogTyped, LogBounds, NothingIsSkipped

\* What a read hands out or says it left out is all between its start and the
\* length it was told.
LEMMA LogReadKeeps == ASSUME LogInv, NEW t \in Tools, LogRead(t) PROVE LogInv'
<1> DEFINE text == IF Start(t) >= reading[t] THEN {} ELSE (Start(t) + 1)..logLen
           kept == {b \in text : b > logLen - MaxBytes}
<1>0. /\ LogTyped /\ LogBounds
      /\ reading[t] # -1 /\ UNCHANGED <<logFile, logLen>>
      /\ told' = [told EXCEPT ![t] = told[t] \cup kept]
      /\ clipped' = [clipped EXCEPT ![t] = clipped[t] \cup (text \ kept)]
      /\ cursor' = [cursor EXCEPT ![t] = reading[t]]
      /\ reading' = [reading EXCEPT ![t] = -1]
      /\ cursorOf' = [cursorOf EXCEPT ![t] = logFile]
      /\ mistaken' = [mistaken EXCEPT ![t] = mistaken[t] \/ (cursorOf[t] # logFile /\ cursor[t] \in 1..reading[t])]
  BY DEF LogRead, LogInv
<1>1. /\ reading[t] \in Nat /\ reading[t] <= logLen /\ logLen \in Nat /\ cursor[t] \in Nat /\ logFile \in Nat
      /\ mistaken[t] \in BOOLEAN
  BY <1>0 DEF LogTyped, LogBounds
<1>2. LogTyped'
  BY <1>0, <1>1 DEF LogTyped
<1>3. LogBounds'
  BY <1>0, <1>1 DEF LogTyped, LogBounds
<1>4. ASSUME ~mistaken'[t] PROVE 1..reading[t] \subseteq told'[t] \cup clipped'[t]
  <2>1. told'[t] \cup clipped'[t] = told[t] \cup clipped[t] \cup text
    BY <1>0 DEF LogTyped
  <2>2. ~mistaken[t] /\ ~(cursorOf[t] # logFile /\ cursor[t] \in 1..reading[t])
    BY <1>0, <1>1, <1>4 DEF LogTyped
  <2>3. CASE cursor[t] > reading[t]
    <3>1. Start(t) = 0
      BY <2>3 DEF Start
    <3>2. 1..reading[t] \subseteq text
      BY <1>1, <3>1
    <3> QED BY <2>1, <3>2
  <2>4. CASE cursor[t] <= reading[t]
    <3>1. Start(t) = cursor[t]
      BY <1>1, <2>4 DEF Start
    <3>2. 1..cursor[t] \subseteq told[t] \cup clipped[t]
      <4>1. CASE cursor[t] = 0
        BY <4>1
      <4>2. CASE cursor[t] # 0
        <5>1. cursorOf[t] = logFile
          BY <1>1, <2>2, <2>4, <4>2
        <5> QED BY <2>2, <5>1 DEF LogInv, NothingIsSkipped
      <4> QED BY <4>1, <4>2
    <3>3. 1..reading[t] \subseteq 1..cursor[t] \cup text
      BY <1>1, <2>4, <3>1
    <3> QED BY <2>1, <3>2, <3>3
  <2> QED BY <1>1, <2>3, <2>4
<1>5. NothingIsSkipped'
  <2> SUFFICES ASSUME NEW u \in Tools, cursorOf'[u] = logFile', ~mistaken'[u]
               PROVE  1..cursor'[u] \subseteq told'[u] \cup clipped'[u]
    BY DEF NothingIsSkipped
  <2>1. CASE u = t
    BY <1>0, <1>4, <2>1 DEF LogTyped
  <2>2. CASE u # t
    BY <1>0, <2>2 DEF LogTyped, LogInv, NothingIsSkipped
  <2> QED BY <2>1, <2>2
<1> QED BY <1>2, <1>3, <1>5 DEF LogInv

LEMMA LogStep == ASSUME LogInv, [LogNext]_logVars PROVE LogInv'
<1>1. CASE EngineLogs \/ UNCHANGED logVars
  BY <1>1 DEF EngineLogs, logVars, LogInv, LogTyped, LogBounds, NothingIsSkipped
<1>2. CASE LogRotated
  <2>1. /\ logLen' \in Nat /\ logFile' = logFile + 1 /\ UNCHANGED <<cursor, reading, cursorOf>>
        /\ \A t \in Tools : reading[t] = -1
        /\ mistaken' \in [Tools -> BOOLEAN] /\ DOMAIN told' = Tools /\ DOMAIN clipped' = Tools
    BY <1>2, LogAssumption DEF LogRotated
  <2>2. \A t \in Tools : cursorOf[t] \in Nat /\ cursorOf[t] <= logFile /\ logFile \in Nat
    BY DEF LogInv, LogTyped, LogBounds
  <2>3. LogTyped' /\ LogBounds'
    BY <2>1, <2>2 DEF LogInv, LogTyped, LogBounds
  <2>4. NothingIsSkipped'
    BY <2>1, <2>2 DEF NothingIsSkipped
  <2> QED BY <2>3, <2>4 DEF LogInv
<1>3. CASE \E t \in Tools : LogOpened(t)
  BY <1>3 DEF LogOpened, LogInv, LogTyped, LogBounds, NothingIsSkipped
<1>4. CASE \E t \in Tools : LogRead(t)
  BY <1>4, LogReadKeeps
<1>5. (GetLogs \/ GetErrors) => \E t \in Tools : LogOpened(t) \/ LogRead(t)
  BY DEF GetLogs, GetErrors, Tools
<1> QED BY <1>1, <1>2, <1>3, <1>4, <1>5 DEF LogNext

------------------------------------------------------------------------------
(* The groups together: what the tools of one do is nothing to the others.  *)

LEMMA GroupsStart == Init => ObjectsInit /\ FramesInit /\ SocketsInit /\ LogInit
  BY DEF Init

LEMMA GroupsStep ==
  [Next]_vars => [ObjectsNext]_objectVars /\ [FramesNext]_frameVars /\ [SocketsNext]_socketVars /\ [LogNext]_logVars
  BY DEF Next, vars

\* What is proved of the objects holds in the game as a whole: the other tools touch
\* none of their state.
THEOREM ObjectsRunAlone == Spec => ObjectsSpec
  BY GroupsStart, GroupsStep, PTL DEF Spec, ObjectsSpec

\* Whatever else is suspended, a call whose event came does not fail, and a step no
\* other call interferes with runs the game for exactly the frames asked for
\* (dispatcher.rs: advance_pending; lifecycle.rs: StepPending; observe.rs: polls).
THEOREM WaitsEndRight == Spec => []WaitsAreExact
  <1>1. FramesInv => WaitsAreExact
    BY DEF FramesInv, WaitsAreExact
  <1>2. FramesInv /\ [FramesNext]_frameVars => FramesInv'
    BY FramesStep
  <1> QED BY <1>1, <1>2, FramesStart, GroupsStart, GroupsStep, PTL DEF Spec

\* What a server sent comes out of its socket in order, once, or is counted as
\* dropped (net.rs: service_frame, recv), and a read of the log hands out or says
\* it left out every line up to its cursor (log_tail.rs).
THEOREM AllIsAccounted == Spec => []NothingIsLost
  <1>1. SocketsInv /\ LogInv => NothingIsLost
    BY SocketsMean DEF LogInv, NothingIsLost
  <1>2. SocketsInv /\ [SocketsNext]_socketVars => SocketsInv'
    BY SocketsStep
  <1>3. LogInv /\ [LogNext]_logVars => LogInv'
    BY LogStep
  <1> QED BY <1>1, <1>2, <1>3, SocketsStart, LogStart, GroupsStart, GroupsStep, PTL DEF Spec

\* A node that lives is in the tree, or about to be freed, or was taken out by the
\* game; a signal that is connected to has a call that waits for it; and a socket
\* has a caller who was told of it (mutate.rs, observe.rs, net.rs).
THEOREM NothingStays == Spec => []NothingIsLeftBehind
  <1>1. NodesInv /\ FramesInv /\ SocketsInv => NothingIsLeftBehind
    BY SocketsMean DEF NodesInv, FramesInv, NothingIsLeftBehind
  <1>2. NodesInv /\ [ObjectsNext]_objectVars => NodesInv'
    BY NodesStep
  <1>3. FramesInv /\ [FramesNext]_frameVars => FramesInv'
    BY FramesStep
  <1>4. SocketsInv /\ [SocketsNext]_socketVars => SocketsInv'
    BY SocketsStep
  <1> QED BY <1>1, <1>2, <1>3, <1>4, NodesStart, FramesStart, SocketsStart, GroupsStart, GroupsStep, PTL DEF Spec
=============================================================================
