------------------------- MODULE EditedScene_proofs -------------------------
(***************************************************************************)
(* The edited scene and its undo history, for any number of nodes, values, *)
(* properties, connections and calls: whatever was done, undone, redone or *)
(* called in between, a step over the history restores what its action     *)
(* changed, and a save writes every node the tools put into the scene.     *)
(*                                                                         *)
(* An action is kept as two lists of engine calls, and either list is run  *)
(* on whatever the scene has become.  The argument has four parts.         *)
(*  - The tree: the nodes above a node are the least set that holds it and *)
(*    is shut under parents, so scenes with the same parents on such a set *)
(*    have the same nodes above and below there.                           *)
(*  - The halves: what Run leaves, for each list of calls a tool queues.   *)
(*    `Follows` says that a half changes the scene as it changed, or would *)
(*    take back, the scene it was prepared on.                             *)
(*  - The history is a chain: action j starts from the tree action j - 1   *)
(*    left, on the nodes made by then, and the nodes made later are in no  *)
(*    tree with those.  `InStep` says so, and where in the chain the scene *)
(*    stands; an undo or a redo moves it by one (UndoStep, RedoStep), a    *)
(*    new action cuts the chain and adds to it (CommitStep).               *)
(*  - The tools: each queues an action of one of the six shapes.           *)
(***************************************************************************)
EXTENDS EditedScene, SequenceTheorems, FiniteSetTheorems, WellFoundedInduction, NaturalsInduction, TLAPS

-----------------------------------------------------------------------------
(* Numbers. *)

LEMMA LeastOf ==
  ASSUME NEW T \in SUBSET Nat, T # {}
  PROVE  \E i \in T : \A j \in T : i <= j
<1> DEFINE Below == {p \in Nat \X Nat : p[1] < p[2]}
<1>1. IsWellFoundedOn(Below, Nat)
  BY NatLessThanWellFounded DEF OpToRel
<1>2. \A i, j \in Nat : <<j, i>> \notin Below => i <= j
  OBVIOUS
<1> HIDE DEF Below
<1>3. PICK i \in T : \A j \in T : <<j, i>> \notin Below
  BY <1>1, WFMin
<1>4. \A j \in T : i <= j
  BY <1>2, <1>3
<1> QED BY <1>4

LEMMA UpTo ==
  ASSUME NEW m \in Nat, NEW S, 0 \in S, \A i \in 0..m : i # m /\ i \in S => i + 1 \in S
  PROVE  \A i \in 0..m : i \in S
<1> DEFINE Bad == (0..m) \ S
<1>1. SUFFICES ASSUME Bad # {} PROVE FALSE
  OBVIOUS
<1>2. PICK k \in Bad : \A j \in Bad : k <= j
  <2>1. Bad \in SUBSET Nat
    OBVIOUS
  <2> HIDE DEF Bad
  <2> QED BY <1>1, <2>1, LeastOf
<1>3. k \in 0..m /\ k # 0
  OBVIOUS
<1>4. k - 1 \in 0..m /\ k - 1 # m /\ (k - 1) + 1 = k
  BY <1>3
<1>5. k - 1 \in S
  BY <1>2, <1>3, <1>4
<1> QED BY <1>4, <1>5

-----------------------------------------------------------------------------
(* The tree of the edited scene. *)

Parents == [Nodes -> Nodes \cup {None}]

LEMMA NodesAre == /\ Root \in Nodes /\ None \notin Nodes /\ None # Root
                  /\ Nodes = 0..MaxNodes /\ IsFiniteSet(Nodes)
<1>1. IsFiniteSet(0..MaxNodes)
  BY FS_Interval, BoundsAssumption
<1> QED BY <1>1, BoundsAssumption DEF Nodes, Root, None

\* The nodes met on the way up, as far as m steps.
Up(f, k) == IF k = None THEN None ELSE f[k]
Climb(f, n, m, up) == up = [i \in 0..m |-> IF i = 0 THEN n ELSE IF up[i-1] = None THEN None ELSE f[up[i-1]]]

LEMMA ClimbExists ==
  ASSUME NEW f, NEW n, NEW m \in Nat
  PROVE  \E up : Climb(f, n, m, up)
<1> DEFINE S == {i \in 0..m : \E up : Climb(f, n, i, up)}
<1>1. 0 \in S
  <2> DEFINE up == [i \in 0..0 |-> n]
  <2>1. up = [i \in 0..0 |-> IF i = 0 THEN n ELSE IF up[i-1] = None THEN None ELSE f[up[i-1]]]
    <3>1. \A i \in 0..0 : i = 0
      OBVIOUS
    <3> QED BY <3>1
  <2> HIDE DEF up
  <2>2. Climb(f, n, 0, up)
    BY <2>1 DEF Climb
  <2> QED BY <2>2
<1>2. ASSUME NEW j \in 0..m, j # m, j \in S PROVE j + 1 \in S
  <2> DEFINE k == j + 1
  <2>0. k \in 0..m /\ k \in Nat /\ k - 1 = j /\ k # 0 /\ j \in Nat
    BY <1>2
  <2>2. PICK g : Climb(f, n, j, g)
    BY <1>2
  <2>3. \A i \in 0..j : g[i] = IF i = 0 THEN n ELSE Up(f, g[i - 1])
    BY <2>2 DEF Climb, Up
  <2> HIDE DEF k
  <2> DEFINE h == [i \in 0..k |-> IF i = k THEN Up(f, g[j]) ELSE g[i]]
  <2>4. \A i \in 0..k : h[i] = IF i = 0 THEN n ELSE Up(f, h[i - 1])
    <3>1. TAKE i \in 0..k
    <3>2. CASE i = k
      <4>1. i - 1 \in 0..k /\ i - 1 = j /\ j # k /\ i # 0
        BY <2>0, <3>2
      <4>2. h[i] = Up(f, g[j]) /\ h[i - 1] = g[j]
        BY <3>2, <4>1
      <4> QED BY <3>2, <4>1, <4>2
    <3>3. CASE i # k /\ i # 0
      <4>1. i - 1 \in 0..k /\ i - 1 # k /\ i \in 0..j
        BY <2>0, <3>3
      <4>2. h[i] = g[i] /\ h[i - 1] = g[i - 1]
        BY <3>3, <4>1
      <4> QED BY <2>3, <3>3, <4>1, <4>2
    <3>4. CASE i # k /\ i = 0
      <4>1. i \in 0..j
        BY <2>0, <3>4
      <4> QED BY <2>3, <3>4, <4>1
    <3> QED BY <3>2, <3>3, <3>4
  <2>5. h = [i \in 0..k |-> h[i]]
    OBVIOUS
  <2> HIDE DEF h
  <2>6. Climb(f, n, k, h)
    BY <2>4, <2>5 DEF Climb, Up
  <2> QED BY <2>0, <2>6 DEF k
<1>3. m \in S
  <2>1. m \in 0..m
    OBVIOUS
  <2> HIDE DEF S
  <2> QED BY <1>1, <1>2, <2>1, UpTo
<1> QED BY <1>3

LEMMA ClimbIs ==
  ASSUME NEW s, s.parent \in Parents, NEW n \in Nodes
  PROVE  \E up \in [0..MaxNodes -> Nodes \cup {None}] :
           /\ up[0] = n
           /\ \A i \in 0..MaxNodes : i # 0 => up[i] = Up(s.parent, up[i-1])
           /\ Above(s, n) = {up[i] : i \in 0..MaxNodes} \ {None}
<1> DEFINE up[i \in 0..MaxNodes] == IF i = 0 THEN n ELSE IF up[i-1] = None THEN None ELSE s.parent[up[i-1]]
<1>1. Climb(s.parent, n, MaxNodes, up)
  <2>1. \E g : Climb(s.parent, n, MaxNodes, g)
    BY ClimbExists, BoundsAssumption
  <2> QED BY <2>1 DEF Climb
<1>2. Above(s, n) = {up[i] : i \in 0..MaxNodes} \ {None}
  BY DEF Above
<1> HIDE DEF up
<1>3. /\ up = [i \in 0..MaxNodes |-> up[i]]
      /\ \A i \in 0..MaxNodes : up[i] = IF i = 0 THEN n ELSE Up(s.parent, up[i-1])
  BY <1>1 DEF Climb, Up
<1>4. 0 \in 0..MaxNodes
  BY BoundsAssumption
<1> DEFINE S == {i \in 0..MaxNodes : up[i] \in Nodes \cup {None}}
<1>5. 0 \in S
  BY <1>3, <1>4
<1>6. ASSUME NEW i \in 0..MaxNodes, i # MaxNodes, i \in S PROVE i + 1 \in S
  <2>1. i + 1 \in 0..MaxNodes /\ i + 1 # 0 /\ (i + 1) - 1 = i
    BY <1>6, BoundsAssumption
  <2>2. up[i+1] = Up(s.parent, up[i])
    BY <1>3, <2>1
  <2> QED BY <1>6, <2>1, <2>2 DEF Up, Parents
<1>7. \A i \in 0..MaxNodes : i \in S
  <2> HIDE DEF S
  <2> QED BY <1>5, <1>6, UpTo, BoundsAssumption
<1>8. up \in [0..MaxNodes -> Nodes \cup {None}]
  BY <1>3, <1>7
<1> QED BY <1>2, <1>3, <1>4, <1>8

\* A set of nodes that no node of it leads out of.
Shut(s, S) == S \in SUBSET Nodes /\ \A k \in S : s.parent[k] \in S \cup {None}

\* What is above a node leads no further: a way of as many steps as there are
\* nodes has met every node it will meet.
LEMMA AboveIsShut ==
  ASSUME NEW s, s.parent \in Parents, NEW n \in Nodes
  PROVE  n \in Above(s, n) /\ Shut(s, Above(s, n))
<1>1. PICK up \in [0..MaxNodes -> Nodes \cup {None}] :
           /\ up[0] = n
           /\ \A i \in 0..MaxNodes : i # 0 => up[i] = Up(s.parent, up[i-1])
           /\ Above(s, n) = {up[i] : i \in 0..MaxNodes} \ {None}
  BY ClimbIs
<1>2. 0 \in 0..MaxNodes /\ MaxNodes \in 0..MaxNodes
  BY BoundsAssumption
<1>3. n \in Above(s, n) /\ Above(s, n) \in SUBSET Nodes
  BY <1>1, <1>2, NodesAre
<1>4. \A i \in 0..MaxNodes : i # MaxNodes => up[i+1] = Up(s.parent, up[i])
  <2>1. TAKE i \in 0..MaxNodes
  <2>2. i # MaxNodes => i + 1 \in 0..MaxNodes /\ i + 1 # 0 /\ (i + 1) - 1 = i
    BY BoundsAssumption
  <2> QED BY <1>1, <2>2
<1>5. SUFFICES ASSUME NEW k \in Above(s, n), s.parent[k] \notin Above(s, n), s.parent[k] # None PROVE FALSE
  BY <1>3 DEF Shut
<1>6. PICK i \in 0..MaxNodes : k = up[i] /\ k # None
  BY <1>1
<1> DEFINE q == s.parent[k]
<1>7. q \in Nodes /\ \A j \in 0..MaxNodes : up[j] # q
  BY <1>1, <1>3, <1>5 DEF Parents
<1>8. \A j \in 0..MaxNodes : up[j] = k => j = MaxNodes
  <2>1. TAKE j \in 0..MaxNodes
  <2>2. ASSUME up[j] = k, j # MaxNodes PROVE FALSE
    <3>1. up[j+1] = q /\ j + 1 \in 0..MaxNodes
      BY <1>4, <1>6, <2>2, BoundsAssumption DEF Up
    <3> QED BY <1>7, <3>1
  <2> QED BY <2>2
<1> HIDE DEF q
<1>9. up[MaxNodes] = k
  BY <1>6, <1>8
<1>10. ASSUME NEW a \in 0..MaxNodes, NEW b \in 0..MaxNodes, a < b PROVE up[a] # up[b]
  <2>1. SUFFICES ASSUME up[a] = up[b] PROVE FALSE
    OBVIOUS
  <2> DEFINE m == MaxNodes - b
  <2> DEFINE S == {t \in 0..m : up[a+t] = up[b+t]}
  <2>2. m \in Nat /\ 0 \in S
    BY <2>1, BoundsAssumption
  <2>3. ASSUME NEW t \in 0..m, t # m, t \in S PROVE t + 1 \in S
    <3>1. /\ a + t \in 0..MaxNodes /\ a + t # MaxNodes /\ b + t \in 0..MaxNodes /\ b + t # MaxNodes
          /\ (a + t) + 1 = a + (t + 1) /\ (b + t) + 1 = b + (t + 1) /\ t + 1 \in 0..m
      BY <1>10, <2>2, <2>3, BoundsAssumption
    <3>2. up[a + t] = up[b + t]
      BY <2>3
    <3>3. up[a + (t + 1)] = up[b + (t + 1)]
      BY <1>4, <3>1, <3>2
    <3> QED BY <3>1, <3>3
  <2>4. m \in S
    <3>1. m \in 0..m
      BY <2>2
    <3> HIDE DEF S, m
    <3> QED BY <2>2, <2>3, <3>1, UpTo
  <2>5. b + m = MaxNodes /\ a + m \in 0..MaxNodes /\ a + m # MaxNodes
    BY <1>10, BoundsAssumption
  <2>6. up[a + m] = k
    BY <1>9, <2>4, <2>5
  <2> QED BY <1>8, <2>5, <2>6
<1>11. \A j \in 0..MaxNodes : up[j] # None
  <2> DEFINE S == {t \in 0..MaxNodes : up[MaxNodes - t] # None}
  <2>1. 0 \in S
    BY <1>2, <1>6, <1>9, BoundsAssumption
  <2>2. ASSUME NEW t \in 0..MaxNodes, t # MaxNodes, t \in S PROVE t + 1 \in S
    <3>1. /\ t + 1 \in 0..MaxNodes /\ MaxNodes - (t + 1) \in 0..MaxNodes
          /\ MaxNodes - (t + 1) # MaxNodes /\ (MaxNodes - (t + 1)) + 1 = MaxNodes - t
      BY <2>2, BoundsAssumption
    <3>2. up[MaxNodes - t] = Up(s.parent, up[MaxNodes - (t + 1)])
      BY <1>4, <3>1
    <3> QED BY <2>2, <3>1, <3>2 DEF Up
  <2>3. \A t \in 0..MaxNodes : t \in S
    <3> HIDE DEF S
    <3> QED BY <2>1, <2>2, UpTo, BoundsAssumption
  <2>4. TAKE j \in 0..MaxNodes
  <2>5. MaxNodes - j \in 0..MaxNodes /\ MaxNodes - (MaxNodes - j) = j
    BY BoundsAssumption
  <2> QED BY <2>3, <2>5
<1>12. IsFiniteSet(0..MaxNodes) /\ Cardinality(0..MaxNodes) = MaxNodes + 1
  BY FS_Interval, BoundsAssumption
<1>13. IsFiniteSet(Nodes \ {q}) /\ Cardinality(Nodes \ {q}) = MaxNodes
  <2>1. Nodes = 0..MaxNodes
    BY NodesAre
  <2>2. /\ IsFiniteSet(Nodes \ {q})
        /\ Cardinality(Nodes \ {q}) = IF q \in Nodes THEN Cardinality(Nodes) - 1 ELSE Cardinality(Nodes)
    BY <1>12, <2>1, FS_RemoveElement
  <2>3. Cardinality(Nodes \ {q}) = (MaxNodes + 1) - 1
    BY <1>7, <1>12, <2>1, <2>2
  <2> QED BY <2>2, <2>3, BoundsAssumption
<1>14. up \in [0..MaxNodes -> Nodes \ {q}]
  BY <1>7, <1>11
<1>15. PICK x, y \in 0..MaxNodes : x # y /\ up[x] = up[y]
  <2>1. Cardinality(Nodes \ {q}) < Cardinality(0..MaxNodes)
    BY <1>12, <1>13, BoundsAssumption
  <2> DEFINE T == Nodes \ {q}
  <2>2. IsFiniteSet(T) /\ Cardinality(T) < Cardinality(0..MaxNodes) /\ up \in [0..MaxNodes -> T]
    BY <1>13, <1>14, <2>1
  <2> HIDE DEF T
  <2> QED BY <1>12, <2>2, FS_PigeonHole
<1>16. x < y \/ y < x
  BY <1>15, BoundsAssumption
<1> QED BY <1>10, <1>15, <1>16

\* ... and every such set with the node in it has all that is above it.
LEMMA AboveIsLeast ==
  ASSUME NEW s, s.parent \in Parents, NEW n \in Nodes, NEW S, Shut(s, S), n \in S
  PROVE  Above(s, n) \subseteq S
<1>1. PICK up \in [0..MaxNodes -> Nodes \cup {None}] :
           /\ up[0] = n
           /\ \A i \in 0..MaxNodes : i # 0 => up[i] = Up(s.parent, up[i-1])
           /\ Above(s, n) = {up[i] : i \in 0..MaxNodes} \ {None}
  BY ClimbIs
<1> DEFINE T == {i \in 0..MaxNodes : up[i] \in S \cup {None}}
<1>2. 0 \in T
  BY <1>1, BoundsAssumption
<1>3. ASSUME NEW i \in 0..MaxNodes, i # MaxNodes, i \in T PROVE i + 1 \in T
  <2>1. i + 1 \in 0..MaxNodes /\ i + 1 # 0 /\ (i + 1) - 1 = i
    BY <1>3, BoundsAssumption
  <2>2. up[i+1] = Up(s.parent, up[i])
    BY <1>1, <2>1
  <2> QED BY <1>3, <2>1, <2>2 DEF Up, Shut
<1>4. \A i \in 0..MaxNodes : i \in T
  <2> HIDE DEF T
  <2> QED BY <1>2, <1>3, UpTo, BoundsAssumption
<1> QED BY <1>1, <1>4

LEMMA AboveUp ==
  ASSUME NEW s, s.parent \in Parents, NEW n \in Nodes
  PROVE  /\ \A k \in Above(s, n) : k \in Nodes /\ Above(s, k) \subseteq Above(s, n)
         /\ s.parent[n] = None => Above(s, n) = {n}
         /\ s.parent[n] # None => /\ s.parent[n] \in Nodes
                                  /\ Above(s, n) = {n} \cup Above(s, s.parent[n])
<1>1. n \in Above(s, n) /\ Shut(s, Above(s, n))
  BY AboveIsShut
<1>2. \A k \in Above(s, n) : k \in Nodes /\ Above(s, k) \subseteq Above(s, n)
  <2>1. TAKE k \in Above(s, n)
  <2>2. k \in Nodes
    BY <1>1 DEF Shut
  <2> QED BY <1>1, <2>2, AboveIsLeast
<1>3. ASSUME s.parent[n] = None PROVE Above(s, n) = {n}
  <2>1. Shut(s, {n})
    BY <1>3 DEF Shut
  <2> QED BY <1>1, <2>1, AboveIsLeast
<1>4. ASSUME s.parent[n] # None PROVE s.parent[n] \in Nodes /\ Above(s, n) = {n} \cup Above(s, s.parent[n])
  <2> DEFINE q == s.parent[n]
  <2>1. q \in Nodes
    BY <1>4 DEF Parents
  <2>2. q \in Above(s, q) /\ Shut(s, Above(s, q))
    BY <2>1, AboveIsShut
  <2>3. Shut(s, {n} \cup Above(s, q))
    BY <2>2 DEF Shut
  <2>4. Above(s, n) \subseteq {n} \cup Above(s, q)
    BY <2>3, AboveIsLeast
  <2>5. q \in Above(s, n)
    BY <1>1, <1>4 DEF Shut
  <2> QED BY <1>1, <1>2, <2>1, <2>4, <2>5
<1> QED BY <1>2, <1>3, <1>4

Alike(s, t, C) == \A k \in C : s.parent[k] = t.parent[k]

LEMMA AboveSame ==
  ASSUME NEW s, s.parent \in Parents, NEW t, t.parent \in Parents,
         NEW C, Shut(s, C), Alike(s, t, C), NEW n \in C
  PROVE  Above(s, n) = Above(t, n) /\ Above(s, n) \subseteq C
<1>0. n \in Nodes
  BY DEF Shut
<1>1. Above(s, n) \subseteq C
  BY <1>0, AboveIsLeast
<1>2. Shut(s, Above(s, n)) /\ n \in Above(s, n) /\ Shut(t, Above(t, n)) /\ n \in Above(t, n)
  BY <1>0, AboveIsShut
<1>3. Shut(t, Above(s, n))
  BY <1>1, <1>2 DEF Shut, Alike
<1>4. Above(t, n) \subseteq Above(s, n)
  BY <1>0, <1>2, <1>3, AboveIsLeast
<1>5. Shut(s, Above(t, n))
  BY <1>1, <1>2, <1>4 DEF Shut, Alike
<1>6. Above(s, n) \subseteq Above(t, n)
  BY <1>0, <1>2, <1>5, AboveIsLeast
<1> QED BY <1>1, <1>4, <1>6

LEMMA BranchIs ==
  ASSUME NEW s, NEW n
  PROVE  /\ \A k : k \in Branch(s, n) <=> k \in Nodes /\ n \in Above(s, k)
         /\ \A k : k \in Placed(s) <=> k \in Nodes /\ Root \in Above(s, k)
  BY DEF Branch, Placed

\* The root is nobody's child, so the way up from a node of the scene ends there
\* and does not meet a node twice.
Rooted(s) == s.parent \in Parents /\ s.parent[Root] = None

LEMMA RootIs ==
  ASSUME NEW s, Rooted(s)
  PROVE  Root \in Placed(s) /\ Above(s, Root) = {Root} /\ Placed(s) \subseteq Nodes
  BY NodesAre, AboveUp, BranchIs, AboveIsShut DEF Rooted

LEMMA OnTheWay ==
  ASSUME NEW s, Rooted(s), NEW k \in Placed(s), NEW n \in Above(s, k)
  PROVE  n \in Placed(s)
<1> DEFINE D == Placed(s)
<1>1. Shut(s, D)
  <2>1. D \in SUBSET Nodes
    BY BranchIs
  <2>2. ASSUME NEW m \in D, s.parent[m] # None PROVE s.parent[m] \in D
    <3>1. m \in Nodes /\ Root \in Above(s, m) /\ m # Root
      BY <2>2, BranchIs DEF Rooted
    <3>2. s.parent[m] \in Nodes /\ Root \in Above(s, s.parent[m])
      BY <2>2, <3>1, AboveUp DEF Rooted
    <3> QED BY <3>2, BranchIs
  <2> QED BY <2>1, <2>2 DEF Shut
<1>2. k \in Nodes
  BY BranchIs
<1> QED BY <1>1, <1>2, AboveIsLeast DEF Rooted

LEMMA NoLoop ==
  ASSUME NEW s, Rooted(s), NEW n \in Placed(s), n # Root
  PROVE  s.parent[n] \in Placed(s) /\ n \notin Above(s, s.parent[n])
<1> DEFINE q == s.parent[n]
<1>1. n \in Nodes /\ Root \in Above(s, n)
  BY BranchIs
<1>2. q \in Nodes /\ Above(s, n) = {n} \cup Above(s, q) /\ Root \in Above(s, q) /\ q # None
  <2>1. q # None
    BY <1>1, AboveUp DEF Rooted
  <2> QED BY <1>1, <2>1, AboveUp DEF Rooted
<1>3. q \in Placed(s)
  BY <1>2, BranchIs
<1>4. ASSUME n \in Above(s, q) PROVE FALSE
  <2> DEFINE D == {m \in Nodes : n \in Above(s, m)}
  <2>1. Shut(s, D)
    <3>1. ASSUME NEW m \in D, s.parent[m] # None PROVE s.parent[m] \in D
      <4>1. CASE m = n
        BY <1>2, <1>4, <4>1
      <4>2. CASE m # n
        <5>1. s.parent[m] \in Nodes /\ Above(s, m) = {m} \cup Above(s, s.parent[m])
          BY <3>1, AboveUp DEF Rooted
        <5> QED BY <4>2, <5>1
      <4> QED BY <4>1, <4>2
    <3> QED BY <3>1 DEF Shut, Rooted, Parents
  <2>2. n \in D
    BY <1>1, <1>2
  <2>3. Root \in D
    BY <1>1, <2>1, <2>2, AboveIsLeast DEF Rooted
  <2> QED BY <2>3, RootIs
<1> QED BY <1>3, <1>4

\* Two trees that differ in the place of one branch.
Apart(s, t, n) == Rooted(s) /\ Rooted(t) /\ \A k \in Nodes \ {n} : s.parent[k] = t.parent[k]

LEMMA AboveApart ==
  ASSUME NEW s, NEW t, NEW n, Apart(s, t, n), NEW k \in Nodes
  PROVE  /\ n \notin Above(s, k) => Above(s, k) = Above(t, k)
         /\ n \in Above(s, k) <=> n \in Above(t, k)
<1>1. ASSUME NEW a, NEW b, Apart(a, b, n), n \notin Above(a, k) PROVE Above(a, k) = Above(b, k)
  <2>1. k \in Above(a, k) /\ Shut(a, Above(a, k))
    BY <1>1, AboveIsShut DEF Apart, Rooted
  <2>2. Alike(a, b, Above(a, k))
    BY <1>1, <2>1 DEF Apart, Shut, Alike
  <2> QED BY <1>1, <2>1, <2>2, AboveSame DEF Apart, Rooted
<1>2. Apart(t, s, n)
  BY DEF Apart
<1> QED BY <1>1, <1>2

LEMMA BranchApart ==
  ASSUME NEW s, NEW t, NEW n \in Nodes, Apart(s, t, n)
  PROVE  Branch(s, n) = Branch(t, n)
<1>1. \A k : k \in Branch(s, n) <=> k \in Branch(t, n)
  BY AboveApart, BranchIs
<1>2. Branch(s, n) \subseteq Nodes /\ Branch(t, n) \subseteq Nodes
  BY BranchIs
<1> QED BY <1>1, <1>2

\* A node of the branch is in the scene exactly if the branch is.
LEMMA PlacedApart ==
  ASSUME NEW s, NEW t, NEW n \in Nodes \ {Root}, Apart(s, t, n), NEW k \in Nodes
  PROVE  /\ k \notin Branch(s, n) => (k \in Placed(t) <=> k \in Placed(s))
         /\ k \in Branch(s, n) => (k \in Placed(t) <=> n \in Placed(t))
<1>1. n \in Above(s, k) <=> n \in Above(t, k)
  BY AboveApart
<1>2. ASSUME k \notin Branch(s, n) PROVE k \in Placed(t) <=> k \in Placed(s)
  <2>1. Above(s, k) = Above(t, k)
    BY <1>2, AboveApart, BranchIs
  <2> QED BY <2>1, BranchIs
<1>3. ASSUME k \in Branch(s, n), k \in Placed(t) PROVE n \in Placed(t)
  BY <1>1, <1>3, OnTheWay, BranchIs DEF Apart
<1>4. ASSUME k \in Branch(s, n), n \in Placed(t) PROVE k \in Placed(t)
  <2>1. n \in Above(t, k) /\ Root \in Above(t, n)
    BY <1>1, <1>4, BranchIs
  <2>2. Above(t, n) \subseteq Above(t, k)
    BY <2>1, AboveUp DEF Apart, Rooted
  <2> QED BY <2>1, <2>2, BranchIs
<1> QED BY <1>2, <1>3, <1>4

\* No node after m is in a tree with one of the nodes up to m, which form the
\* same trees in s and in t.
Parted(s, m) ==
  /\ \A k \in 0..m : s.parent[k] \in 0..m \cup {None}
  /\ \A k \in (m+1)..MaxNodes : s.parent[k] \in (m+1)..MaxNodes \cup {None}

SameTree(s, t, m) ==
  /\ Rooted(s) /\ Rooted(t) /\ m \in Nodes
  /\ Alike(s, t, 0..m) /\ Parted(s, m) /\ Parted(t, m)

LEMMA SameTreeIs ==
  ASSUME NEW s, NEW t, NEW m, SameTree(s, t, m)
  PROVE  /\ \A k \in 0..m : Above(s, k) = Above(t, k) /\ Above(s, k) \subseteq 0..m
         /\ \A n \in 0..m : Branch(s, n) = Branch(t, n) /\ Branch(s, n) \subseteq 0..m
         /\ Placed(s) = Placed(t) /\ Placed(s) \subseteq 0..m
<1>0. m \in Nat /\ m <= MaxNodes /\ Nodes = 0..MaxNodes /\ Root \in 0..m
  BY NodesAre, BoundsAssumption DEF SameTree, Root
<1>1. ASSUME NEW k \in 0..m PROVE Above(s, k) = Above(t, k) /\ Above(s, k) \subseteq 0..m
  <2>1. Shut(s, 0..m)
    BY <1>0, BoundsAssumption DEF Shut, SameTree, Parted
  <2>2. Alike(s, t, 0..m)
    BY DEF SameTree, Alike
  <2> QED BY <1>1, <2>1, <2>2, AboveSame DEF SameTree, Rooted
<1>2. ASSUME NEW k \in (m+1)..MaxNodes
      PROVE  Above(s, k) \subseteq (m+1)..MaxNodes /\ Above(t, k) \subseteq (m+1)..MaxNodes
  <2>1. Shut(s, (m+1)..MaxNodes) /\ Shut(t, (m+1)..MaxNodes)
    BY <1>0, BoundsAssumption DEF Shut, SameTree, Parted
  <2>2. k \in Nodes
    BY <1>0, BoundsAssumption
  <2>3. s.parent \in Parents /\ t.parent \in Parents
    BY DEF SameTree, Rooted
  <2> DEFINE C == (m+1)..MaxNodes
  <2>4. k \in C /\ Shut(s, C) /\ Shut(t, C)
    BY <2>1
  <2> HIDE DEF C
  <2>5. Above(s, k) \subseteq C
    BY <2>2, <2>3, <2>4, AboveIsLeast
  <2>6. Above(t, k) \subseteq C
    BY <2>2, <2>3, <2>4, AboveIsLeast
  <2> QED BY <2>5, <2>6 DEF C
<1>3. \A k \in Nodes : k \in 0..m \/ k \in (m+1)..MaxNodes
  BY <1>0, BoundsAssumption
<1>4. \A k \in (m+1)..MaxNodes : k \notin 0..m
  BY <1>0, BoundsAssumption
<1>5. ASSUME NEW n \in 0..m PROVE Branch(s, n) = Branch(t, n) /\ Branch(s, n) \subseteq 0..m
  <2>1. ASSUME NEW k \in Nodes, n \in Above(s, k) \/ n \in Above(t, k) PROVE k \in 0..m
    BY <1>2, <1>3, <1>4, <1>5, <2>1
  <2>2. \A k : k \in Branch(s, n) <=> k \in Branch(t, n)
    BY <1>1, <2>1, BranchIs
  <2>3. Branch(s, n) \subseteq 0..m
    BY <2>1, BranchIs
  <2> QED BY <2>2, <2>3
<1> QED BY <1>0, <1>1, <1>5 DEF Placed

-----------------------------------------------------------------------------
(* What the engine does with the calls of one half of an action. *)

Half(s, ops, m, r) == r = [i \in 0..m |-> IF i = 0 THEN s ELSE Apply(r[i-1], ops[i])]

LEMMA HalfExists ==
  ASSUME NEW s, NEW ops, NEW m \in Nat
  PROVE  \E r : Half(s, ops, m, r)
<1> DEFINE S == {i \in 0..m : \E r : Half(s, ops, i, r)}
<1>1. 0 \in S
  <2> DEFINE r == [i \in 0..0 |-> s]
  <2>1. r = [i \in 0..0 |-> IF i = 0 THEN s ELSE Apply(r[i-1], ops[i])]
    <3>1. \A i \in 0..0 : i = 0
      OBVIOUS
    <3> QED BY <3>1
  <2> HIDE DEF r
  <2>2. Half(s, ops, 0, r)
    BY <2>1 DEF Half
  <2> QED BY <2>2
<1>2. ASSUME NEW j \in 0..m, j # m, j \in S PROVE j + 1 \in S
  <2> DEFINE k == j + 1
  <2>0. k \in 0..m /\ k \in Nat /\ k - 1 = j /\ k # 0 /\ j \in Nat
    BY <1>2
  <2>2. PICK g : Half(s, ops, j, g)
    BY <1>2
  <2>3. \A i \in 0..j : g[i] = IF i = 0 THEN s ELSE Apply(g[i - 1], ops[i])
    BY <2>2 DEF Half
  <2> HIDE DEF k
  <2> DEFINE h == [i \in 0..k |-> IF i = k THEN Apply(g[j], ops[k]) ELSE g[i]]
  <2>4. \A i \in 0..k : h[i] = IF i = 0 THEN s ELSE Apply(h[i - 1], ops[i])
    <3>1. TAKE i \in 0..k
    <3>2. CASE i = k
      <4>1. i - 1 \in 0..k /\ i - 1 = j /\ j # k /\ i # 0
        BY <2>0, <3>2
      <4>2. h[i] = Apply(g[j], ops[k]) /\ h[i - 1] = g[j]
        BY <3>2, <4>1
      <4> QED BY <3>2, <4>1, <4>2
    <3>3. CASE i # k /\ i # 0
      <4>1. i - 1 \in 0..k /\ i - 1 # k /\ i \in 0..j
        BY <2>0, <3>3
      <4>2. h[i] = g[i] /\ h[i - 1] = g[i - 1]
        BY <3>3, <4>1
      <4> QED BY <2>3, <3>3, <4>1, <4>2
    <3>4. CASE i # k /\ i = 0
      <4>1. i \in 0..j
        BY <2>0, <3>4
      <4> QED BY <2>3, <3>4, <4>1
    <3> QED BY <3>2, <3>3, <3>4
  <2>5. h = [i \in 0..k |-> h[i]]
    OBVIOUS
  <2> HIDE DEF h
  <2>6. Half(s, ops, k, h)
    BY <2>4, <2>5 DEF Half
  <2> QED BY <2>0, <2>6 DEF k
<1>3. m \in S
  <2>1. m \in 0..m
    OBVIOUS
  <2> HIDE DEF S
  <2> QED BY <1>1, <1>2, <2>1, UpTo
<1> QED BY <1>3

LEMMA RunIs ==
  ASSUME NEW s, NEW ops, Len(ops) \in Nat
  PROVE  \E r : /\ r[0] = s
                /\ \A i \in 1..Len(ops) : r[i] = Apply(r[i-1], ops[i])
                /\ Run(s, ops) = r[Len(ops)]
<1> DEFINE run[i \in 0..Len(ops)] == IF i = 0 THEN s ELSE Apply(run[i-1], ops[i])
<1>1. Half(s, ops, Len(ops), run)
  <2>1. \E g : Half(s, ops, Len(ops), g)
    BY HalfExists
  <2> QED BY <2>1 DEF Half
<1>2. Run(s, ops) = run[Len(ops)]
  BY DEF Run
<1> HIDE DEF run
<1>3. \A i \in 0..Len(ops) : run[i] = IF i = 0 THEN s ELSE Apply(run[i-1], ops[i])
  BY <1>1 DEF Half
<1>4. run[0] = s /\ \A i \in 1..Len(ops) : run[i] = Apply(run[i-1], ops[i])
  BY <1>3
<1> QED BY <1>2, <1>4

LEMMA RunOne ==
  ASSUME NEW s, NEW a
  PROVE  Run(s, <<a>>) = Apply(s, a)
<1> DEFINE ops == <<a>>
<1>1. Len(ops) = 1 /\ ops[1] = a
  OBVIOUS
<1> HIDE DEF ops
<1>2. PICK r : /\ r[0] = s
               /\ \A i \in 1..Len(ops) : r[i] = Apply(r[i-1], ops[i])
               /\ Run(s, ops) = r[Len(ops)]
  BY <1>1, RunIs
<1>3. r[1] = Apply(r[1-1], ops[1])
  BY <1>1, <1>2
<1> QED BY <1>1, <1>2, <1>3 DEF ops

LEMMA RunTwo ==
  ASSUME NEW s, NEW a, NEW b
  PROVE  Run(s, <<a, b>>) = Apply(Apply(s, a), b)
<1> DEFINE ops == <<a, b>>
<1>1. Len(ops) = 2 /\ ops[1] = a /\ ops[2] = b /\ Len(ops) \in Nat
  OBVIOUS
<1> HIDE DEF ops
<1>2. PICK r : /\ r[0] = s
               /\ \A i \in 1..Len(ops) : r[i] = Apply(r[i-1], ops[i])
               /\ Run(s, ops) = r[Len(ops)]
  <2>1. Len(ops) \in Nat
    BY <1>1
  <2> QED BY <2>1, RunIs
<1>3. r[1] = Apply(r[1-1], ops[1]) /\ r[2] = Apply(r[2-1], ops[2])
  BY <1>1, <1>2
<1> QED BY <1>1, <1>2, <1>3 DEF ops

Links == {"none", "live", "saved", "saved deferred"}
Groups == {"out", "live", "saved"}
SceneRecord ==
  [parent : Parents, owned : [Nodes -> BOOLEAN], inside : [Nodes -> BOOLEAN],
   value : [Nodes \X Keys -> Values], link : [Wires -> Links], group : [Nodes -> Groups]]

\* A call changes one field.
LEMMA AddIs ==
  ASSUME NEW s, NEW n, NEW p
  PROVE  Apply(s, On("add_child", n, p)) = IF s.parent[n] = None THEN [s EXCEPT !.parent[n] = p] ELSE s
  BY DEF Apply, On

LEMMA RemoveIs ==
  ASSUME NEW s, NEW n, NEW p
  PROVE  Apply(s, On("remove_child", n, p)) = IF s.parent[n] = p THEN Removed(s, n) ELSE s
  BY DEF Apply, On

LEMMA OwnerIs ==
  ASSUME NEW s, NEW n, NEW p
  PROVE  Apply(s, On("set_owner", n, p)) = [s EXCEPT !.owned[n] = s.owned[n] \/ Root \in Above(s, n)]
  BY DEF Apply, On

LEMMA ReparentIs ==
  ASSUME NEW s, NEW n, NEW p
  PROVE  Apply(s, On("reparent", n, p)) = Reparented(s, n, p)
  BY DEF Apply, On

LEMMA GroupIs ==
  ASSUME NEW s, NEW n, NEW p
  PROVE  /\ Apply(s, On("add_to_group", n, p)) = [s EXCEPT !.group[n] = IF s.group[n] = "out" THEN "saved" ELSE s.group[n]]
         /\ Apply(s, On("remove_from_group", n, p)) = [s EXCEPT !.group[n] = "out"]
  BY DEF Apply, On

LEMMA PutIs ==
  ASSUME NEW s, NEW n, NEW k, NEW v
  PROVE  Apply(s, Put(n, k, v)) = [s EXCEPT !.value[<<n, k>>] = v]
  BY DEF Apply, Put

LEMMA WireIs ==
  ASSUME NEW s, NEW w, NEW to
  PROVE  /\ Apply(s, Wire("connect", w, to)) = [s EXCEPT !.link[w] = IF s.link[w] = "none" THEN to ELSE s.link[w]]
         /\ Apply(s, Wire("disconnect", w, to)) = [s EXCEPT !.link[w] = "none"]
  BY DEF Apply, Wire

\* The tree fields and the others, as one action leaves them.
MovedTo(s, t, n, q) ==
  /\ t \in SceneRecord
  /\ t.parent = [s.parent EXCEPT ![n] = q]
  /\ t.inside = s.inside /\ t.value = s.value /\ t.link = s.link /\ t.group = s.group

LEMMA RemovedIs ==
  ASSUME NEW s \in SceneRecord, NEW n \in Nodes
  PROVE  /\ MovedTo(s, Removed(s, n), n, None)
         /\ \A k \in Nodes : Removed(s, n).owned[k] = (s.owned[k] /\ n \notin Above(s, k))
<1>1. s.owned \in [Nodes -> BOOLEAN] /\ s.parent \in [Nodes -> Nodes \cup {None}]
  BY DEF SceneRecord, Parents
<1> DEFINE o == [k \in Nodes |-> s.owned[k] /\ n \notin Above(s, k)]
<1>2. o \in [Nodes -> BOOLEAN]
  BY <1>1
<1>3. Removed(s, n) = [s EXCEPT !.parent = [@ EXCEPT ![n] = None], !.owned = o]
  BY DEF Removed, SceneRecord
<1> HIDE DEF o
<1>4. [s.parent EXCEPT ![n] = None] \in Parents
  BY <1>1 DEF Parents
<1>5. /\ Removed(s, n).owned = o
      /\ MovedTo(s, Removed(s, n), n, None)
  BY <1>2, <1>3, <1>4 DEF SceneRecord, MovedTo
<1> QED BY <1>5 DEF o

Owners(X) == {On("set_owner", k, Root) : k \in X}
Listed(L) == {L[i].node : i \in 1..Len(L)}

\* A branch that was out of the scene is put under p, and owned as far as listed.
LEMMA PutBack ==
  ASSUME NEW s \in SceneRecord, Rooted(s), NEW n \in Nodes \ {Root}, s.parent[n] = None,
         NEW p \in Placed(s), NEW L \in Seq(Owners(Branch(s, n)))
  PROVE  LET t == Run(s, <<On("add_child", n, p), On("set_owner", n, Root)>> \o L) IN
         /\ MovedTo(s, t, n, p)
         /\ \A k \in Nodes : t.owned[k] = (s.owned[k] \/ k = n \/ k \in Listed(L))
<1> DEFINE a == On("add_child", n, p)
           b == On("set_owner", n, Root)
           ops == <<a, b>> \o L
           u == [s EXCEPT !.parent[n] = p]
           B == Branch(s, n)
<1>0. p \in Nodes /\ s.parent \in Parents /\ s.owned \in [Nodes -> BOOLEAN] /\ B \subseteq Nodes
  BY BranchIs DEF SceneRecord
<1>1. u \in SceneRecord /\ u.parent = [s.parent EXCEPT ![n] = p] /\ u.parent \in Parents
  BY <1>0 DEF SceneRecord, Parents
<1>2. Apart(s, u, n) /\ Rooted(u)
  BY <1>0, <1>1 DEF Apart, Rooted, Parents
<1> HIDE DEF u
<1>3. n \in Branch(s, n) /\ n \notin Placed(s)
  <2>1. Above(s, n) = {n}
    BY AboveUp DEF Rooted
  <2> QED BY <2>1, BranchIs
<1>4. p \in Placed(u)
  <2>1. p \notin Branch(s, n)
    BY <1>3, OnTheWay, BranchIs
  <2> QED BY <1>0, <1>2, <2>1, PlacedApart
<1>5. n \in Placed(u)
  <2>1. u.parent[n] = p /\ p # None
    BY <1>0, <1>1, NodesAre DEF Parents
  <2>2. Above(u, n) = {n} \cup Above(u, p)
    BY <1>2, <2>1, AboveUp DEF Rooted
  <2> QED BY <1>4, <2>2, BranchIs
<1>6. ASSUME NEW k \in B PROVE Root \in Above(u, k)
  BY <1>0, <1>2, <1>5, <1>6, PlacedApart, BranchIs
<1>7. ASSUME NEW v, v.parent = u.parent, NEW k \in B PROVE Root \in Above(v, k)
  <2>1. Shut(u, Nodes) /\ k \in Nodes
    BY <1>0, <1>1 DEF Shut, Parents
  <2>2. Alike(u, v, Nodes) /\ v.parent \in Parents
    BY <1>1, <1>7 DEF Alike
  <2>3. Above(u, k) = Above(v, k)
    BY <1>1, <2>1, <2>2, AboveSame
  <2> QED BY <1>6, <2>3
<1>8. /\ Len(L) \in Nat /\ Len(ops) = Len(L) + 2 /\ ops[1] = a /\ ops[2] = b
      /\ \A i \in 1..Len(L) : ops[i + 2] = L[i]
  <2> DEFINE S == {a, b} \cup Owners(B)
  <2>1. <<a, b>> \in Seq(S) /\ L \in Seq(S) /\ Len(<<a, b>>) = 2
    <3>1. Owners(B) \subseteq S
      OBVIOUS
    <3> HIDE DEF a, b
    <3> QED BY <3>1
  <2> QED BY <2>1, ConcatProperties
<1>9. \A i \in 2..Len(ops) : \E k \in B : ops[i] = On("set_owner", k, Root)
  <2>1. TAKE i \in 2..Len(ops)
  <2>2. CASE i = 2
    BY <1>3, <1>8, <2>2
  <2>3. CASE i # 2
    <3>1. i - 2 \in 1..Len(L) /\ (i - 2) + 2 = i
      BY <1>8, <2>3
    <3>2. ops[i] = L[i - 2] /\ L[i - 2] \in Owners(B)
      BY <1>8, <3>1
    <3> QED BY <3>2 DEF Owners
  <2> QED BY <2>2, <2>3
<1>10. /\ Listed(L) = {ops[i].node : i \in 3..Len(ops)}
       /\ ops[2].node = n
  <2>1. \A x : x \in Listed(L) <=> \E i \in 1..Len(L) : L[i].node = x
    BY DEF Listed
  <2>2. \A x : (\E i \in 1..Len(L) : L[i].node = x) <=> \E i \in 3..Len(ops) : ops[i].node = x
    <3>1. \A i \in 1..Len(L) : i + 2 \in 3..Len(ops) /\ ops[i + 2] = L[i]
      BY <1>8
    <3>2. \A i \in 3..Len(ops) : i - 2 \in 1..Len(L) /\ ops[i] = L[i - 2]
      <4>1. TAKE i \in 3..Len(ops)
      <4>2. i - 2 \in 1..Len(L) /\ (i - 2) + 2 = i
        BY <1>8
      <4> QED BY <3>1, <4>2
    <3> HIDE DEF ops
    <3> QED BY <3>1, <3>2
  <2>3. ops[2].node = n
    BY <1>8 DEF On
  <2> HIDE DEF ops
  <2> QED BY <2>1, <2>2, <2>3
<1> HIDE DEF ops, a, b
<1>11. PICK r : /\ r[0] = s
                /\ \A i \in 1..Len(ops) : r[i] = Apply(r[i-1], ops[i])
                /\ Run(s, ops) = r[Len(ops)]
  <2>1. Len(ops) \in Nat
    BY <1>8
  <2> QED BY <2>1, RunIs
<1>12. r[1] = u
  <2>1. r[1] = Apply(s, a)
    <3>1. 1 \in 1..Len(ops) /\ 1 - 1 = 0
      BY <1>8
    <3> QED BY <1>8, <1>11, <3>1
  <2> QED BY <2>1, AddIs DEF a, u
<1> DEFINE O(i) == [k \in Nodes |-> s.owned[k] \/ \E j \in 2..i : ops[j].node = k]
           S == {i \in 0..Len(ops) : i # 0 => r[i] = [u EXCEPT !.owned = O(i)]}
<1>13. u.owned = s.owned
  BY DEF u, SceneRecord
<1>14. 0 \in S
  BY <1>8
<1>15. ASSUME NEW i \in 0..Len(ops), i # Len(ops), i \in S PROVE i + 1 \in S
  <2>1. i + 1 \in 1..Len(ops) /\ (i + 1) - 1 = i /\ i + 1 \in 0..Len(ops)
    BY <1>8, <1>15
  <2>2. CASE i = 0
    <3>1. O(1) = s.owned
      <4>1. \A j \in 2..1 : FALSE
        OBVIOUS
      <4> QED BY <1>0, <4>1
    <3>2. u = [u EXCEPT !.owned = s.owned]
      BY <1>1, <1>13 DEF SceneRecord
    <3> QED BY <1>12, <2>1, <2>2, <3>1, <3>2
  <2>3. CASE i # 0
    <3>1. r[i] = [u EXCEPT !.owned = O(i)]
      BY <1>15, <2>3
    <3>2. PICK m \in B : ops[i + 1] = On("set_owner", m, Root)
      BY <1>9, <2>1, <2>3
    <3>3. r[i + 1] = [r[i] EXCEPT !.owned[m] = r[i].owned[m] \/ Root \in Above(r[i], m)]
      <4>1. r[i + 1] = Apply(r[i], ops[i + 1])
        BY <1>11, <2>1
      <4>2. Apply(r[i], On("set_owner", m, Root)) = [r[i] EXCEPT !.owned[m] = r[i].owned[m] \/ Root \in Above(r[i], m)]
        BY OwnerIs
      <4> QED BY <3>2, <4>1, <4>2
    <3>4. r[i].parent = u.parent
      BY <1>1, <3>1 DEF SceneRecord
    <3>5. Root \in Above(r[i], m)
      BY <1>7, <3>2, <3>4
    <3>6. ops[i + 1].node = m /\ m \in Nodes
      BY <1>0, <3>2 DEF On
    <3>7. O(i + 1) = [O(i) EXCEPT ![m] = TRUE]
      <4>1. ASSUME NEW k \in Nodes
            PROVE  (\E j \in 2..(i + 1) : ops[j].node = k) <=> (\E j \in 2..i : ops[j].node = k) \/ k = m
        <5>1. \A j : j \in 2..(i + 1) <=> j \in 2..i \/ j = i + 1
          BY <2>1, <2>3
        <5> QED BY <3>6, <5>1
      <4>2. \A k \in Nodes : O(i + 1)[k] = (O(i)[k] \/ k = m)
        BY <4>1
      <4>3. \A k \in Nodes : O(i)[k] \in BOOLEAN /\ O(i + 1)[k] \in BOOLEAN
        BY <1>0
      <4> QED BY <3>6, <4>2, <4>3
    <3>8. r[i + 1] = [u EXCEPT !.owned = O(i + 1)]
      <4> HIDE DEF O
      <4>1. r[i + 1] = [[u EXCEPT !.owned = O(i)] EXCEPT !.owned[m] = TRUE]
        BY <3>1, <3>3, <3>5
      <4>2. [[u EXCEPT !.owned = O(i)] EXCEPT !.owned[m] = TRUE] = [u EXCEPT !.owned = [O(i) EXCEPT ![m] = TRUE]]
        BY <1>1 DEF SceneRecord
      <4> QED BY <3>7, <4>1, <4>2
    <3> QED BY <2>1, <3>8
  <2> QED BY <2>2, <2>3
<1>16. Len(ops) \in S
  <2>1. Len(ops) \in 0..Len(ops) /\ Len(ops) \in Nat
    BY <1>8
  <2> HIDE DEF S
  <2> QED BY <1>14, <1>15, <2>1, UpTo
<1>17. Run(s, ops) = [u EXCEPT !.owned = O(Len(ops))]
  BY <1>8, <1>11, <1>16
<1>18. O(Len(ops)) = [k \in Nodes |-> s.owned[k] \/ k = n \/ k \in Listed(L)]
  <2>1. \A k \in Nodes : (\E j \in 2..Len(ops) : ops[j].node = k) <=> (k = n \/ k \in Listed(L))
    <3>1. \A j : j \in 2..Len(ops) <=> j = 2 \/ j \in 3..Len(ops)
      BY <1>8
    <3> QED BY <1>10, <3>1
  <2> QED BY <2>1
<1>19. O(Len(ops)) \in [Nodes -> BOOLEAN]
  BY <1>0
<1> HIDE DEF O
<1>20. [u EXCEPT !.owned = O(Len(ops))] \in SceneRecord
  BY <1>1, <1>19 DEF SceneRecord
<1>21. MovedTo(s, [u EXCEPT !.owned = O(Len(ops))], n, p)
  BY <1>1, <1>20 DEF MovedTo, SceneRecord, u
<1>22. [u EXCEPT !.owned = O(Len(ops))].owned = O(Len(ops))
  BY <1>1 DEF SceneRecord
<1>23. \A k \in Nodes : Run(s, ops).owned[k] = (s.owned[k] \/ k = n \/ k \in Listed(L))
  BY <1>17, <1>18, <1>22
<1> QED BY <1>17, <1>21, <1>23 DEF ops, a, b

LEMMA ListedIs ==
  ASSUME NEW X, NEW L \in Seq(Owners(X))
  PROVE  Listed(L) \subseteq X
<1>1. \A i \in 1..Len(L) : L[i] \in Owners(X)
  OBVIOUS
<1>2. \A i \in 1..Len(L) : \E k \in X : L[i] = On("set_owner", k, Root)
  BY <1>1 DEF Owners
<1>3. \A i \in 1..Len(L) : L[i].node \in X
  <2>1. TAKE i \in 1..Len(L)
  <2>2. PICK k \in X : L[i] = On("set_owner", k, Root)
    BY <1>2
  <2>3. On("set_owner", k, Root).node = k
    BY DEF On
  <2> QED BY <2>2, <2>3
<1> QED BY <1>3 DEF Listed

\* A node of the scene is moved under another that is not below it.
LEMMA ReparentedIs ==
  ASSUME NEW s \in SceneRecord, Rooted(s), NEW n \in Placed(s) \ {Root}, NEW p \in Nodes, p = n \/ n \notin Above(s, p)
  PROVE  LET t == Apply(s, On("reparent", n, p)) IN
         /\ MovedTo(s, t, n, IF p = n THEN s.parent[n] ELSE p)
         /\ t.owned = s.owned
<1>1. n \in Nodes /\ s.parent \in [Nodes -> Nodes \cup {None}]
  BY RootIs DEF SceneRecord, Parents
<1>2. s.parent[n] # None
  <2>1. s.parent[n] \in Placed(s)
    BY NoLoop
  <2> QED BY <2>1, RootIs, NodesAre
<1>3. Apply(s, On("reparent", n, p)) = Reparented(s, n, p)
  BY ReparentIs
<1>4. CASE p = n
  <2>1. Reparented(s, n, p) = s
    BY <1>4 DEF Reparented
  <2>2. s.parent = [s.parent EXCEPT ![n] = s.parent[n]]
    BY <1>1
  <2> QED BY <1>3, <1>4, <2>1, <2>2 DEF MovedTo
<1>5. CASE p # n
  <2>1. Reparented(s, n, p) = [s EXCEPT !.parent[n] = p]
    BY <1>2, <1>5 DEF Reparented
  <2>2. [s.parent EXCEPT ![n] = p] \in Parents
    BY <1>1 DEF Parents
  <2> DEFINE t == [s EXCEPT !.parent[n] = p]
  <2>3. t \in SceneRecord /\ t.parent = [s.parent EXCEPT ![n] = p] /\ t.owned = s.owned
        /\ t.inside = s.inside /\ t.value = s.value /\ t.link = s.link /\ t.group = s.group
    BY <2>2 DEF SceneRecord
  <2> HIDE DEF t
  <2> QED BY <1>3, <1>5, <2>1, <2>3 DEF MovedTo, t
<1> QED BY <1>4, <1>5

-----------------------------------------------------------------------------
(* What a half of an action does to the scene as it is now, compared with   *)
(* what it did, or undoes, between the scenes `from` and `to`.              *)

ParentsFollow(now, then, from, to, m) ==
  \/ then.parent = now.parent /\ to.parent = from.parent
  \/ \E n \in 1..m, q \in 0..m \cup {None} :
       then.parent = [now.parent EXCEPT ![n] = q] /\ to.parent = [from.parent EXCEPT ![n] = q]

LinksFollow(now, then, from, to) == \A w \in Wires : now.link[w] = from.link[w] => then.link[w] = to.link[w]

LiveAsIn(s, t, n) == s.group[n] = "live" => t.group[n] = "live"

GroupsFollow(now, then, from, to, m) ==
  /\ \A n \in Nodes : LiveAsIn(then, now, n)
  /\ \A n \in 0..m : LiveAsIn(now, from, n) =>
       \/ to.group[n] = "live" \/ then.group[n] = to.group[n]
       \/ then.group[n] = now.group[n] /\ from.group[n] = to.group[n]
  /\ \A n \in (m+1)..MaxNodes : then.group[n] = now.group[n] /\ from.group[n] = to.group[n]

ValuesFollow(now, then, from, to) ==
  \A c \in Nodes \X Keys : \/ then.value[c] = to.value[c]
                           \/ then.value[c] = now.value[c] /\ from.value[c] = to.value[c]

OwnersFollow(now, then, from, to, m, x) ==
  /\ \A k \in Nodes \ x : \/ then.owned[k] = to.owned[k]
                          \/ then.owned[k] = now.owned[k] /\ from.owned[k] = to.owned[k]
  /\ \A k \in (m+1)..MaxNodes : then.owned[k] => now.owned[k]

\* Every node of the scene is saved with it, or is of an instance or misowned.
Owned(s, x) == \A k \in Placed(s) \ {Root} : s.owned[k] \/ s.inside[k] \/ k \in x

Follows(now, then, from, to, m, x) ==
  /\ then \in SceneRecord /\ to \in SceneRecord
  /\ then.inside = now.inside /\ to.inside = from.inside
  /\ ParentsFollow(now, then, from, to, m)
  /\ LinksFollow(now, then, from, to)
  /\ GroupsFollow(now, then, from, to, m)
  /\ ValuesFollow(now, then, from, to)
  /\ OwnersFollow(now, then, from, to, m, x)
  /\ Owned(now, x) => Owned(then, x)

\* An action that moves a branch.
LEMMA MovesFollow ==
  ASSUME NEW now \in SceneRecord, NEW from \in SceneRecord, NEW then, NEW to, NEW m \in Nodes, NEW x,
         NEW n \in 1..m, NEW q \in 0..m \cup {None},
         MovedTo(now, then, n, q), MovedTo(from, to, n, q),
         OwnersFollow(now, then, from, to, m, x), Owned(now, x) => Owned(then, x)
  PROVE  Follows(now, then, from, to, m, x)
<1>1. ParentsFollow(now, then, from, to, m)
  BY DEF MovedTo, ParentsFollow
<1>2. LinksFollow(now, then, from, to)
  BY DEF MovedTo, LinksFollow
<1>3. GroupsFollow(now, then, from, to, m)
  BY DEF MovedTo, GroupsFollow, LiveAsIn
<1>4. ValuesFollow(now, then, from, to)
  BY DEF MovedTo, ValuesFollow
<1> QED BY <1>1, <1>2, <1>3, <1>4 DEF MovedTo, Follows

LEMMA MovedApart ==
  ASSUME NEW s, Rooted(s), NEW t, NEW n \in Nodes \ {Root}, NEW q, MovedTo(s, t, n, q)
  PROVE  Rooted(t) /\ Apart(s, t, n) /\ Apart(t, s, n) /\ t.parent[n] = q
<1>1. s.parent \in [Nodes -> Nodes \cup {None}] /\ t.parent \in Parents /\ t.parent = [s.parent EXCEPT ![n] = q]
  BY DEF Rooted, MovedTo, SceneRecord, Parents
<1>2. Root \in Nodes
  BY NodesAre
<1> QED BY <1>1, <1>2 DEF Rooted, Apart, Parents

\* The trees agree after the action if they did before.
LEMMA TreeFollows ==
  ASSUME NEW now, NEW then, NEW from, NEW to, NEW m, SameTree(now, from, m),
         then \in SceneRecord, to \in SceneRecord, ParentsFollow(now, then, from, to, m)
  PROVE  SameTree(then, to, m)
<1>0. m \in Nat /\ m <= MaxNodes /\ Nodes = 0..MaxNodes /\ Root = 0
  BY NodesAre, BoundsAssumption DEF SameTree, Root
<1>1. now.parent \in Parents /\ from.parent \in Parents /\ then.parent \in Parents /\ to.parent \in Parents
  BY DEF SameTree, Rooted, SceneRecord
<1>2. CASE then.parent = now.parent /\ to.parent = from.parent
  BY <1>2 DEF SameTree, Rooted, Alike, Parted
<1>3. ASSUME NEW n \in 1..m, NEW q \in 0..m \cup {None},
             then.parent = [now.parent EXCEPT ![n] = q], to.parent = [from.parent EXCEPT ![n] = q]
      PROVE  SameTree(then, to, m)
  <2>1. \A k \in Nodes : /\ then.parent[k] = IF k = n THEN q ELSE now.parent[k]
                         /\ to.parent[k] = IF k = n THEN q ELSE from.parent[k]
    BY <1>1, <1>3 DEF Parents
  <2>2. n \in Nodes /\ n # Root /\ n \in 0..m /\ n \notin (m+1)..MaxNodes /\ q \in 0..m \cup {None} /\ Root \in Nodes
    BY <1>0, <1>3, BoundsAssumption
  <2>3. now.parent[Root] = None /\ from.parent[Root] = None
    BY DEF SameTree, Rooted
  <2>4. Rooted(then) /\ Rooted(to)
    BY <1>1, <2>1, <2>2, <2>3 DEF Rooted
  <2>5. /\ \A k \in 0..m : now.parent[k] = from.parent[k] /\ now.parent[k] \in 0..m \cup {None}
        /\ \A k \in (m+1)..MaxNodes : now.parent[k] \in (m+1)..MaxNodes \cup {None} /\ from.parent[k] \in (m+1)..MaxNodes \cup {None}
    BY DEF SameTree, Alike, Parted
  <2>6. ASSUME NEW k \in 0..m PROVE then.parent[k] = to.parent[k] /\ then.parent[k] \in 0..m \cup {None}
    <3>1. k \in Nodes
      BY <1>0, BoundsAssumption
    <3>2. CASE k = n
      BY <2>1, <2>2, <3>1, <3>2
    <3>3. CASE k # n
      BY <2>1, <2>5, <3>1, <3>3
    <3> QED BY <3>2, <3>3
  <2>7. ASSUME NEW k \in (m+1)..MaxNodes
        PROVE  then.parent[k] \in (m+1)..MaxNodes \cup {None} /\ to.parent[k] \in (m+1)..MaxNodes \cup {None}
    <3>1. k \in Nodes
      BY <1>0, BoundsAssumption
    <3>2. k # n
      BY <2>2
    <3> QED BY <2>1, <2>5, <3>1, <3>2
  <2>8. m \in Nodes
    BY <1>0, BoundsAssumption
  <2>9. Alike(then, to, 0..m)
    BY <2>6 DEF Alike
  <2>10. Parted(then, m) /\ Parted(to, m)
    BY <2>6, <2>7 DEF Parted
  <2> QED BY <2>4, <2>8, <2>9, <2>10 DEF SameTree
<1> QED BY <1>2, <1>3 DEF ParentsFollow

\* Fields that are one function each: what is set in both scenes follows.
LEMMA StillFollows ==
  ASSUME NEW now \in SceneRecord, NEW from \in SceneRecord, NEW m \in Nodes, NEW x
  PROVE  Follows(now, now, from, from, m, x)
<1>1. ParentsFollow(now, now, from, from, m) /\ LinksFollow(now, now, from, from)
  BY DEF ParentsFollow, LinksFollow
<1>2. GroupsFollow(now, now, from, from, m)
  BY DEF GroupsFollow, LiveAsIn
<1>3. ValuesFollow(now, now, from, from) /\ OwnersFollow(now, now, from, from, m, x)
  BY DEF ValuesFollow, OwnersFollow
<1> QED BY <1>1, <1>2, <1>3 DEF Follows

LEMMA PutAre ==
  ASSUME NEW s \in SceneRecord, NEW n \in Nodes, NEW k \in Keys, NEW v \in Values
  PROVE  LET t == Apply(s, Put(n, k, v)) IN
         /\ t \in SceneRecord
         /\ t.parent = s.parent /\ t.owned = s.owned /\ t.inside = s.inside
         /\ t.link = s.link /\ t.group = s.group
         /\ \A c \in Nodes \X Keys : t.value[c] = IF c = <<n, k>> THEN v ELSE s.value[c]
<1>1. Apply(s, Put(n, k, v)) = [s EXCEPT !.value[<<n, k>>] = v]
  BY DEF Apply, Put
<1> DEFINE c == <<n, k>>
<1>2. c \in Nodes \X Keys
  OBVIOUS
<1> HIDE DEF c
<1>3. [s EXCEPT !.value[c] = v] \in SceneRecord
  BY <1>2 DEF SceneRecord
<1> DEFINE t == [s EXCEPT !.value[c] = v]
<1>4. /\ t.parent = s.parent /\ t.owned = s.owned /\ t.inside = s.inside /\ t.link = s.link /\ t.group = s.group
      /\ t.value = [s.value EXCEPT ![c] = v]
  BY DEF SceneRecord
<1> HIDE DEF t
<1>5. \A e \in Nodes \X Keys : t.value[e] = IF e = c THEN v ELSE s.value[e]
  BY <1>2, <1>4 DEF SceneRecord
<1>6. Apply(s, Put(n, k, v)) = t
  BY <1>1 DEF t, c
<1> QED BY <1>3, <1>4, <1>5, <1>6 DEF t, c

LEMMA PutFollows ==
  ASSUME NEW now, NEW then, NEW from, NEW to, NEW m, NEW x, Follows(now, then, from, to, m, x),
         NEW n \in Nodes, NEW k \in Keys, NEW v \in Values
  PROVE  Follows(now, Apply(then, Put(n, k, v)), from, Apply(to, Put(n, k, v)), m, x)
<1> DEFINE s == Apply(then, Put(n, k, v))
           t == Apply(to, Put(n, k, v))
<1>1. /\ s \in SceneRecord
      /\ s.parent = then.parent /\ s.owned = then.owned /\ s.inside = then.inside
      /\ s.link = then.link /\ s.group = then.group
      /\ \A c \in Nodes \X Keys : s.value[c] = IF c = <<n, k>> THEN v ELSE then.value[c]
  BY PutAre DEF Follows
<1>2. /\ t \in SceneRecord
      /\ t.parent = to.parent /\ t.owned = to.owned /\ t.inside = to.inside
      /\ t.link = to.link /\ t.group = to.group
      /\ \A c \in Nodes \X Keys : t.value[c] = IF c = <<n, k>> THEN v ELSE to.value[c]
  BY PutAre DEF Follows
<1> HIDE DEF s, t
<1>3. ParentsFollow(now, s, from, t, m) /\ LinksFollow(now, s, from, t)
  BY <1>1, <1>2 DEF Follows, ParentsFollow, LinksFollow
<1>4. GroupsFollow(now, s, from, t, m)
  BY <1>1, <1>2 DEF Follows, GroupsFollow, LiveAsIn
<1>5. ValuesFollow(now, s, from, t)
  BY <1>1, <1>2 DEF Follows, ValuesFollow
<1>6. OwnersFollow(now, s, from, t, m, x)
  BY <1>1, <1>2 DEF Follows, OwnersFollow
<1>7. Owned(now, x) => Owned(s, x)
  <2>1. Owned(then, x) => Owned(s, x)
    <3>1. Placed(s) = Placed(then)
      BY <1>1 DEF Placed, Branch, Above
    <3> QED BY <1>1, <3>1 DEF Owned
  <2> QED BY <2>1 DEF Follows
<1>8. s.inside = now.inside /\ t.inside = from.inside
  BY <1>1, <1>2 DEF Follows
<1> QED BY <1>1, <1>2, <1>3, <1>4, <1>5, <1>6, <1>7, <1>8 DEF Follows, s, t

LEMMA LinkFollows ==
  ASSUME NEW now \in SceneRecord, NEW from \in SceneRecord, NEW m \in Nodes, NEW x,
         NEW w \in Wires, NEW a \in Links, NEW b \in Links, now.link[w] = from.link[w] => a = b
  PROVE  Follows(now, [now EXCEPT !.link[w] = a], from, [from EXCEPT !.link[w] = b], m, x)
<1> DEFINE s == [now EXCEPT !.link[w] = a]
           t == [from EXCEPT !.link[w] = b]
<1>1. /\ s \in SceneRecord
      /\ s.parent = now.parent /\ s.owned = now.owned /\ s.inside = now.inside
      /\ s.value = now.value /\ s.group = now.group
      /\ \A y \in Wires : s.link[y] = IF y = w THEN a ELSE now.link[y]
  BY DEF SceneRecord
<1>2. /\ t \in SceneRecord
      /\ t.parent = from.parent /\ t.owned = from.owned /\ t.inside = from.inside
      /\ t.value = from.value /\ t.group = from.group
      /\ \A y \in Wires : t.link[y] = IF y = w THEN b ELSE from.link[y]
  BY DEF SceneRecord
<1> HIDE DEF s, t
<1>3. ParentsFollow(now, s, from, t, m) /\ LinksFollow(now, s, from, t)
  BY <1>1, <1>2 DEF ParentsFollow, LinksFollow
<1>4. GroupsFollow(now, s, from, t, m)
  BY <1>1, <1>2 DEF GroupsFollow, LiveAsIn
<1>5. ValuesFollow(now, s, from, t) /\ OwnersFollow(now, s, from, t, m, x)
  BY <1>1, <1>2 DEF ValuesFollow, OwnersFollow
<1>6. Owned(now, x) => Owned(s, x)
  <2>1. Placed(s) = Placed(now)
    BY <1>1 DEF Placed, Branch, Above
  <2> QED BY <1>1, <2>1 DEF Owned
<1> QED BY <1>1, <1>2, <1>3, <1>4, <1>5, <1>6 DEF Follows, s, t

LEMMA GroupFollows ==
  ASSUME NEW now \in SceneRecord, NEW from \in SceneRecord, NEW m \in Nodes, NEW x,
         NEW n \in Nodes, n <= m, NEW a \in Groups, NEW b \in Groups,
         LiveAsIn(now, from, n) => b = "live" \/ a = b,
         a = "live" => now.group[n] = "live"
  PROVE  Follows(now, [now EXCEPT !.group[n] = a], from, [from EXCEPT !.group[n] = b], m, x)
<1> DEFINE s == [now EXCEPT !.group[n] = a]
           t == [from EXCEPT !.group[n] = b]
<1>1. /\ s \in SceneRecord
      /\ s.parent = now.parent /\ s.owned = now.owned /\ s.inside = now.inside
      /\ s.value = now.value /\ s.link = now.link
      /\ \A y \in Nodes : s.group[y] = IF y = n THEN a ELSE now.group[y]
  BY DEF SceneRecord
<1>2. /\ t \in SceneRecord
      /\ t.parent = from.parent /\ t.owned = from.owned /\ t.inside = from.inside
      /\ t.value = from.value /\ t.link = from.link
      /\ \A y \in Nodes : t.group[y] = IF y = n THEN b ELSE from.group[y]
  BY DEF SceneRecord
<1> HIDE DEF s, t
<1>3. ParentsFollow(now, s, from, t, m) /\ LinksFollow(now, s, from, t)
  BY <1>1, <1>2 DEF ParentsFollow, LinksFollow
<1>4. GroupsFollow(now, s, from, t, m)
  <2>1. \A y \in Nodes : LiveAsIn(s, now, y)
    BY <1>1 DEF LiveAsIn
  <2>2. ASSUME NEW y \in 0..m, LiveAsIn(now, from, y)
        PROVE  \/ t.group[y] = "live" \/ s.group[y] = t.group[y]
               \/ s.group[y] = now.group[y] /\ from.group[y] = t.group[y]
    <3>1. y \in Nodes
      BY NodesAre, BoundsAssumption
    <3>2. CASE y = n
      BY <1>1, <1>2, <2>2, <3>2
    <3>3. CASE y # n
      BY <1>1, <1>2, <3>1, <3>3
    <3> QED BY <3>2, <3>3
  <2>3. ASSUME NEW y \in (m+1)..MaxNodes PROVE s.group[y] = now.group[y] /\ from.group[y] = t.group[y]
    <3>1. y \in Nodes /\ y # n
      BY NodesAre, BoundsAssumption
    <3> QED BY <1>1, <1>2, <3>1
  <2> QED BY <2>1, <2>2, <2>3 DEF GroupsFollow
<1>5. ValuesFollow(now, s, from, t) /\ OwnersFollow(now, s, from, t, m, x)
  BY <1>1, <1>2 DEF ValuesFollow, OwnersFollow
<1>6. Owned(now, x) => Owned(s, x)
  <2>1. Placed(s) = Placed(now)
    BY <1>1 DEF Placed, Branch, Above
  <2> QED BY <1>1, <2>1 DEF Owned
<1> QED BY <1>1, <1>2, <1>3, <1>4, <1>5, <1>6 DEF Follows, s, t

\* A branch put under a node of the scene that is not of the branch is in the scene.
LEMMA PlacedUnder ==
  ASSUME NEW s, NEW t, NEW n \in Nodes \ {Root}, Apart(s, t, n),
         t.parent[n] \in Placed(s), n \notin Above(s, t.parent[n])
  PROVE  n \in Placed(t) /\ t.parent[n] \in Placed(t)
<1> DEFINE p == t.parent[n]
<1>1. p \in Nodes /\ p # None
  BY BranchIs, NodesAre
<1>2. p \in Placed(t)
  BY <1>1, PlacedApart, BranchIs
<1>3. Above(t, n) = {n} \cup Above(t, p)
  BY <1>1, AboveUp DEF Apart, Rooted
<1> QED BY <1>2, <1>3, BranchIs

LEMMA NotPlaced ==
  ASSUME NEW s, Rooted(s), NEW n \in Nodes \ {Root}, s.parent[n] = None
  PROVE  n \notin Placed(s)
  BY AboveUp, BranchIs DEF Rooted

LEMMA BranchPlaced ==
  ASSUME NEW s, Rooted(s), NEW n \in Placed(s), n # Root, NEW k \in Branch(s, n)
  PROVE  k \in Placed(s) /\ k # Root
<1>1. k \in Nodes /\ n \in Above(s, k) /\ n \in Nodes
  BY BranchIs
<1>2. k # Root
  BY <1>1, RootIs
<1>3. Apart(s, s, n)
  BY DEF Apart
<1> QED BY <1>1, <1>2, <1>3, PlacedApart

LEMMA OwnedApart ==
  ASSUME NEW now, NEW then, NEW n \in Nodes \ {Root}, NEW x, Apart(now, then, n),
         then.inside = now.inside, Owned(now, x),
         \A k \in Nodes \ Branch(now, n) : now.owned[k] => then.owned[k],
         n \in Placed(then) => \A k \in Branch(now, n) : then.owned[k] \/ then.inside[k] \/ k \in x
  PROVE  Owned(then, x)
<1>1. SUFFICES ASSUME NEW k \in Placed(then) \ {Root} PROVE then.owned[k] \/ then.inside[k] \/ k \in x
  BY DEF Owned
<1>2. k \in Nodes
  BY BranchIs
<1>3. CASE k \in Branch(now, n)
  <2>1. n \in Placed(then)
    BY <1>2, <1>3, PlacedApart
  <2> QED BY <1>3, <2>1
<1>4. CASE k \notin Branch(now, n)
  <2>1. k \in Placed(now)
    BY <1>2, <1>4, PlacedApart
  <2>2. now.owned[k] \/ now.inside[k] \/ k \in x
    BY <1>1, <2>1 DEF Owned
  <2> QED BY <1>2, <1>4, <2>2
<1> QED BY <1>3, <1>4

-----------------------------------------------------------------------------
(* The shapes of an action; the scene before it is h.before. *)

Placing(h, n, p, L, in) ==
  /\ n # Root /\ p \in Placed(h.before) /\ L \in Seq(Owners(Branch(h.before, n)))
  /\ h.do = <<On("add_child", n, p), On("set_owner", n, Root)>> \o L
  /\ h.undo = <<On("remove_child", n, p)>>
  /\ h.before.parent[n] = None
  /\ \A k \in Branch(h.before, n) : ~h.before.owned[k] /\ (k = n \/ k \in Listed(L) \/ in[k])

\* What is common to the tree of now and the one an action went from.
LEMMA SameBranch ==
  ASSUME NEW now, NEW from, NEW m, SameTree(now, from, m), NEW n \in 1..m
  PROVE  /\ Rooted(now) /\ Rooted(from)
         /\ n \in Nodes \ {Root} /\ n \in 0..m /\ now.parent[n] = from.parent[n]
         /\ Branch(now, n) = Branch(from, n) /\ Placed(now) = Placed(from)
         /\ Above(now, n) = Above(from, n)
<1>1. m \in Nat /\ m <= MaxNodes /\ Nodes = 0..MaxNodes /\ Root = 0
  BY NodesAre, BoundsAssumption DEF SameTree, Root
<1>2. n \in Nodes \ {Root} /\ n \in 0..m
  BY <1>1, BoundsAssumption
<1>3. now.parent[n] = from.parent[n]
  BY <1>2 DEF SameTree, Alike
<1> QED BY <1>2, <1>3, SameTreeIs DEF SameTree

LEMMA PlacingRedone ==
  ASSUME NEW now \in SceneRecord, NEW h, h.before \in SceneRecord, NEW m, SameTree(now, h.before, m),
         NEW n \in 1..m, NEW p, NEW L, Placing(h, n, p, L, now.inside), NEW x
  PROVE  Follows(now, Run(now, h.do), h.before, Run(h.before, h.do), m, x)
<1> DEFINE from == h.before
           then == Run(now, h.do)
           to == Run(from, h.do)
<1>1. /\ Rooted(now) /\ Rooted(from)
      /\ n \in Nodes \ {Root} /\ now.parent[n] = from.parent[n]
      /\ Branch(now, n) = Branch(from, n) /\ Placed(now) = Placed(from)
  BY SameBranch
<1>2. /\ p \in Placed(from) /\ L \in Seq(Owners(Branch(from, n)))
      /\ h.do = <<On("add_child", n, p), On("set_owner", n, Root)>> \o L
      /\ from.parent[n] = None
      /\ \A k \in Branch(from, n) : ~from.owned[k] /\ (k = n \/ k \in Listed(L) \/ now.inside[k])
  BY DEF Placing
<1>3. p \in 0..m /\ p \in 0..m \cup {None} /\ m \in Nodes
  BY <1>1, <1>2, SameTreeIs DEF SameTree
<1>4. /\ MovedTo(from, to, n, p)
      /\ \A k \in Nodes : to.owned[k] = (from.owned[k] \/ k = n \/ k \in Listed(L))
  <2>1. to = Run(from, <<On("add_child", n, p), On("set_owner", n, Root)>> \o L)
    BY <1>2
  <2>2. from \in SceneRecord
    OBVIOUS
  <2> HIDE DEF from, to
  <2> QED BY <1>1, <1>2, <2>1, <2>2, PutBack
<1>5. /\ MovedTo(now, then, n, p)
      /\ \A k \in Nodes : then.owned[k] = (now.owned[k] \/ k = n \/ k \in Listed(L))
  <2>1. now.parent[n] = None /\ p \in Placed(now) /\ L \in Seq(Owners(Branch(now, n)))
    BY <1>1, <1>2
  <2>2. then = Run(now, <<On("add_child", n, p), On("set_owner", n, Root)>> \o L)
    BY <1>2
  <2> HIDE DEF then
  <2> QED BY <1>1, <2>1, <2>2, PutBack
<1>6. Listed(L) \subseteq Branch(from, n) /\ Branch(from, n) \subseteq 0..m /\ n \in 0..m
  BY <1>1, <1>2, ListedIs, SameTreeIs, SameBranch
<1> HIDE DEF from, then, to
<1>7. OwnersFollow(now, then, from, to, m, x)
  <2>1. ASSUME NEW k \in Nodes
        PROVE  then.owned[k] = to.owned[k] \/ (then.owned[k] = now.owned[k] /\ from.owned[k] = to.owned[k])
    <3>1. now.owned[k] \in BOOLEAN /\ from.owned[k] \in BOOLEAN
      BY DEF SceneRecord, from
    <3>2. then.owned[k] = (now.owned[k] \/ k = n \/ k \in Listed(L)) /\ to.owned[k] = (from.owned[k] \/ k = n \/ k \in Listed(L))
      BY <1>4, <1>5
    <3>3. CASE k = n \/ k \in Listed(L)
      BY <3>2, <3>3
    <3>4. CASE ~(k = n \/ k \in Listed(L))
      BY <3>1, <3>2, <3>4
    <3> QED BY <3>3, <3>4
  <2>2. ASSUME NEW k \in (m+1)..MaxNodes PROVE then.owned[k] => now.owned[k]
    <3>1. k \in Nodes /\ k \notin 0..m
      BY <1>3, NodesAre, BoundsAssumption
    <3>2. then.owned[k] = (now.owned[k] \/ k = n \/ k \in Listed(L))
      BY <1>5, <3>1
    <3> QED BY <1>6, <3>1, <3>2
  <2> QED BY <2>1, <2>2 DEF OwnersFollow
<1>8. ASSUME Owned(now, x) PROVE Owned(then, x)
  <2>1. Apart(now, then, n) /\ then.inside = now.inside
    BY <1>1, <1>5, MovedApart DEF MovedTo
  <2>2. \A k \in Nodes : now.owned[k] => then.owned[k]
    BY <1>5
  <2>3. \A k \in Branch(now, n) : then.owned[k] \/ then.inside[k]
    <3>1. TAKE k \in Branch(now, n)
    <3>2. k \in Nodes
      BY BranchIs
    <3>3. then.owned[k] = (now.owned[k] \/ k = n \/ k \in Listed(L))
      BY <1>5, <3>2
    <3> QED BY <1>1, <1>2, <2>1, <3>3
  <2> QED BY <1>1, <1>8, <2>1, <2>2, <2>3, OwnedApart
<1>9. from \in SceneRecord
  BY DEF from
<1>10. Follows(now, then, from, to, m, x)
  BY <1>3, <1>4, <1>5, <1>7, <1>8, <1>9, MovesFollow
<1> QED BY <1>10 DEF from, then, to

\* remove_child of a node whose parent is the one named.
LEMMA RunRemove ==
  ASSUME NEW s \in SceneRecord, NEW n \in Nodes, NEW p, s.parent[n] = p
  PROVE  LET t == Run(s, <<On("remove_child", n, p)>>) IN
         /\ MovedTo(s, t, n, None)
         /\ \A k \in Nodes : t.owned[k] = (s.owned[k] /\ n \notin Above(s, k))
<1>1. Run(s, <<On("remove_child", n, p)>>) = Removed(s, n)
  BY RunOne, RemoveIs
<1> QED BY <1>1, RemovedIs

\* A branch taken out of the scene leaves the owners of what stays.
LEMMA OwnedRemoved ==
  ASSUME NEW now \in SceneRecord, Rooted(now), NEW n \in Nodes \ {Root}, NEW then, MovedTo(now, then, n, None),
         \A k \in Nodes : then.owned[k] = (now.owned[k] /\ n \notin Above(now, k)),
         NEW x, Owned(now, x)
  PROVE  Owned(then, x)
<1>1. Apart(now, then, n) /\ Rooted(then) /\ then.parent[n] = None /\ then.inside = now.inside
  BY MovedApart DEF MovedTo
<1>2. n \notin Placed(then)
  BY <1>1, NotPlaced
<1>3. \A k \in Nodes \ Branch(now, n) : now.owned[k] => then.owned[k]
  BY BranchIs
<1> QED BY <1>1, <1>2, <1>3, OwnedApart

LEMMA PlacingUndone ==
  ASSUME NEW now \in SceneRecord, NEW h, h.before \in SceneRecord, NEW m, SameTree(h.before, h.before, m),
         NEW n \in 1..m, NEW p, NEW L, NEW in, Placing(h, n, p, L, in), NEW x,
         SameTree(now, Run(h.before, h.do), m)
  PROVE  Follows(now, Run(now, h.undo), Run(h.before, h.do), h.before, m, x)
<1> DEFINE to == h.before
           then == Run(now, h.undo)
           from == Run(to, h.do)
<1>1. /\ Rooted(now) /\ Rooted(from)
      /\ n \in Nodes \ {Root} /\ now.parent[n] = from.parent[n]
      /\ Branch(now, n) = Branch(from, n)
  BY SameBranch
<1>2. /\ p \in Placed(to) /\ L \in Seq(Owners(Branch(to, n)))
      /\ h.do = <<On("add_child", n, p), On("set_owner", n, Root)>> \o L
      /\ h.undo = <<On("remove_child", n, p)>>
      /\ to.parent[n] = None
      /\ \A k \in Branch(to, n) : ~to.owned[k]
  BY DEF Placing
<1>3. m \in Nodes /\ Rooted(to) /\ Listed(L) \subseteq Branch(to, n) /\ Branch(to, n) \subseteq 0..m /\ n \in 0..m
  <2>1. m \in Nodes /\ Rooted(to)
    BY DEF SameTree
  <2>2. n \in 0..m
    BY SameBranch
  <2> QED BY <1>2, <2>1, <2>2, ListedIs, SameTreeIs
<1>4. /\ MovedTo(to, from, n, p)
      /\ \A k \in Nodes : from.owned[k] = (to.owned[k] \/ k = n \/ k \in Listed(L))
  <2>1. from = Run(to, <<On("add_child", n, p), On("set_owner", n, Root)>> \o L)
    BY <1>2
  <2>2. to \in SceneRecord
    OBVIOUS
  <2> HIDE DEF from, to
  <2> QED BY <1>1, <1>2, <1>3, <2>1, <2>2, PutBack
<1>5. Apart(to, from, n) /\ from.parent[n] = p
  BY <1>1, <1>3, <1>4, MovedApart
<1>6. /\ MovedTo(now, then, n, None)
      /\ \A k \in Nodes : then.owned[k] = (now.owned[k] /\ n \notin Above(now, k))
  <2>1. then = Run(now, <<On("remove_child", n, p)>>)
    BY <1>2
  <2>2. now.parent[n] = p /\ n \in Nodes
    BY <1>1, <1>5
  <2> HIDE DEF then
  <2> QED BY <2>1, <2>2, RunRemove
<1>7. MovedTo(from, to, n, None)
  <2>1. to \in SceneRecord /\ from.parent = [to.parent EXCEPT ![n] = p]
    BY <1>4 DEF MovedTo
  <2>2. to.parent \in [Nodes -> Nodes \cup {None}]
    BY <1>3 DEF Rooted, Parents
  <2> HIDE DEF to, from
  <2>3. to.parent = [from.parent EXCEPT ![n] = None]
    BY <1>2, <2>1, <2>2
  <2> QED BY <1>4, <2>1, <2>3 DEF MovedTo
<1>8. Branch(to, n) = Branch(now, n)
  BY <1>1, <1>5, BranchApart
<1> HIDE DEF from, then, to
<1>9. OwnersFollow(now, then, from, to, m, x)
  <2>1. ASSUME NEW k \in Nodes
        PROVE  then.owned[k] = to.owned[k] \/ (then.owned[k] = now.owned[k] /\ from.owned[k] = to.owned[k])
    <3>1. now.owned[k] \in BOOLEAN /\ to.owned[k] \in BOOLEAN
      BY <1>7 DEF SceneRecord, MovedTo
    <3>2. /\ then.owned[k] = (now.owned[k] /\ n \notin Above(now, k))
          /\ from.owned[k] = (to.owned[k] \/ k = n \/ k \in Listed(L))
      BY <1>4, <1>6
    <3>3. CASE k \in Branch(to, n)
      <4>1. n \in Above(now, k) /\ ~to.owned[k]
        BY <1>2, <1>8, <3>3, BranchIs
      <4> QED BY <3>1, <3>2, <4>1
    <3>4. CASE k \notin Branch(to, n)
      <4>1. n \notin Above(now, k) /\ k \notin Listed(L)
        BY <1>3, <1>8, <3>4, BranchIs
      <4>2. k # n
        BY <1>3, <3>4, AboveIsShut, BranchIs DEF Rooted
      <4> QED BY <3>1, <3>2, <4>1, <4>2
    <3> QED BY <3>3, <3>4
  <2>2. \A k \in (m+1)..MaxNodes : then.owned[k] => now.owned[k]
    <3>1. \A k \in (m+1)..MaxNodes : k \in Nodes
      BY <1>3, NodesAre, BoundsAssumption
    <3> QED BY <1>6, <3>1
  <2> QED BY <2>1, <2>2 DEF OwnersFollow
<1>10. Owned(now, x) => Owned(then, x)
  BY <1>1, <1>6, OwnedRemoved
<1>11. from \in SceneRecord
  BY <1>4 DEF MovedTo
<1>12. None \in 0..m \cup {None}
  OBVIOUS
<1>13. Follows(now, then, from, to, m, x)
  BY <1>3, <1>6, <1>7, <1>9, <1>10, <1>11, <1>12, MovesFollow
<1> QED BY <1>13 DEF from, then, to

Removing(h, n, p, x) ==
  /\ n \in Placed(h.before) \ {Root} /\ p = h.before.parent[n]
  /\ h.do = <<On("remove_child", n, p)>>
  /\ h.undo = <<On("add_child", n, p), On("set_owner", n, Root)>>
  /\ \A k \in Branch(h.before, n) : k \in x \/ (k = n /\ h.before.owned[n])

LEMMA RemovingRedone ==
  ASSUME NEW now \in SceneRecord, NEW h, h.before \in SceneRecord, NEW m, SameTree(now, h.before, m),
         NEW n \in 1..m, NEW p, NEW x, Removing(h, n, p, x)
  PROVE  Follows(now, Run(now, h.do), h.before, Run(h.before, h.do), m, x)
<1> DEFINE from == h.before
           then == Run(now, h.do)
           to == Run(from, h.do)
<1>1. /\ Rooted(now) /\ Rooted(from)
      /\ n \in Nodes \ {Root} /\ now.parent[n] = from.parent[n] /\ n \in 0..m
      /\ Branch(now, n) = Branch(from, n)
  BY SameBranch
<1>2. h.do = <<On("remove_child", n, p)>> /\ from.parent[n] = p
  BY DEF Removing
<1>3. m \in Nodes /\ Branch(from, n) \subseteq 0..m
  BY <1>1, SameTreeIs DEF SameTree
<1>4. /\ MovedTo(from, to, n, None)
      /\ \A k \in Nodes : to.owned[k] = (from.owned[k] /\ n \notin Above(from, k))
  <2>1. to = Run(from, <<On("remove_child", n, p)>>)
    BY <1>2
  <2>2. from \in SceneRecord
    OBVIOUS
  <2> HIDE DEF from, to
  <2> QED BY <1>1, <1>2, <2>1, <2>2, RunRemove
<1>5. /\ MovedTo(now, then, n, None)
      /\ \A k \in Nodes : then.owned[k] = (now.owned[k] /\ n \notin Above(now, k))
  <2>1. then = Run(now, <<On("remove_child", n, p)>>)
    BY <1>2
  <2>2. now.parent[n] = p
    BY <1>1, <1>2
  <2> HIDE DEF then
  <2> QED BY <1>1, <2>1, <2>2, RunRemove
<1>6. from \in SceneRecord
  OBVIOUS
<1> HIDE DEF from, then, to
<1>7. OwnersFollow(now, then, from, to, m, x)
  <2>1. ASSUME NEW k \in Nodes
        PROVE  then.owned[k] = to.owned[k] \/ (then.owned[k] = now.owned[k] /\ from.owned[k] = to.owned[k])
    <3>1. now.owned[k] \in BOOLEAN /\ from.owned[k] \in BOOLEAN
      BY <1>6 DEF SceneRecord
    <3>2. n \in Above(now, k) <=> n \in Above(from, k)
      BY <1>1, BranchIs
    <3> QED BY <1>4, <1>5, <3>1, <3>2
  <2>2. \A k \in (m+1)..MaxNodes : then.owned[k] => now.owned[k]
    <3>1. \A k \in (m+1)..MaxNodes : k \in Nodes
      BY <1>3, NodesAre, BoundsAssumption
    <3> QED BY <1>5, <3>1
  <2> QED BY <2>1, <2>2 DEF OwnersFollow
<1>8. Owned(now, x) => Owned(then, x)
  BY <1>1, <1>5, OwnedRemoved
<1>9. None \in 0..m \cup {None}
  OBVIOUS
<1>10. Follows(now, then, from, to, m, x)
  BY <1>3, <1>4, <1>5, <1>6, <1>7, <1>8, <1>9, MovesFollow
<1> QED BY <1>10 DEF from, then, to

LEMMA RemovingUndone ==
  ASSUME NEW now \in SceneRecord, NEW h, h.before \in SceneRecord, NEW m, SameTree(h.before, h.before, m),
         NEW n \in 1..m, NEW p, NEW x, Removing(h, n, p, x),
         SameTree(now, Run(h.before, h.do), m)
  PROVE  Follows(now, Run(now, h.undo), Run(h.before, h.do), h.before, m, x)
<1> DEFINE to == h.before
           then == Run(now, h.undo)
           from == Run(to, h.do)
<1>1. /\ Rooted(now) /\ Rooted(from)
      /\ n \in Nodes \ {Root} /\ now.parent[n] = from.parent[n] /\ n \in 0..m
      /\ Branch(now, n) = Branch(from, n) /\ Placed(now) = Placed(from)
  BY SameBranch
<1>2. /\ n \in Placed(to) \ {Root} /\ to.parent[n] = p
      /\ h.do = <<On("remove_child", n, p)>>
      /\ h.undo = <<On("add_child", n, p), On("set_owner", n, Root)>>
      /\ \A k \in Branch(to, n) : k \in x \/ (k = n /\ to.owned[n])
  BY DEF Removing
<1>3. m \in Nodes /\ Rooted(to) /\ Branch(to, n) \subseteq 0..m /\ Placed(to) \subseteq 0..m
  BY <1>1, SameTreeIs DEF SameTree
<1>4. /\ MovedTo(to, from, n, None)
      /\ \A k \in Nodes : from.owned[k] = (to.owned[k] /\ n \notin Above(to, k))
  <2>1. from = Run(to, <<On("remove_child", n, p)>>)
    BY <1>2
  <2>2. to \in SceneRecord
    OBVIOUS
  <2> HIDE DEF from, to
  <2> QED BY <1>1, <1>2, <2>1, <2>2, RunRemove
<1>5. Apart(to, from, n) /\ from.parent[n] = None
  BY <1>1, <1>3, <1>4, MovedApart
<1>6. p \in Placed(to) /\ n \notin Above(to, p) /\ p \in Nodes
  BY <1>2, <1>3, NoLoop, RootIs
<1>7. p \in Placed(now)
  BY <1>1, <1>5, <1>6, PlacedApart, BranchIs
<1>8. /\ MovedTo(now, then, n, p)
      /\ \A k \in Nodes : then.owned[k] = (now.owned[k] \/ k = n)
  <2> DEFINE L == <<>>
  <2>1. L \in Seq(Owners(Branch(now, n))) /\ Len(L) = 0
    OBVIOUS
  <2>2. Listed(L) = {}
    BY <2>1 DEF Listed
  <2>3. then = Run(now, <<On("add_child", n, p), On("set_owner", n, Root)>> \o L)
    <3>1. h.undo = <<On("add_child", n, p), On("set_owner", n, Root)>> \o L
      BY <1>2
    <3> QED BY <3>1
  <2>4. now.parent[n] = None
    BY <1>1, <1>5
  <2> HIDE DEF then, L
  <2>5. /\ MovedTo(now, then, n, p)
        /\ \A k \in Nodes : then.owned[k] = (now.owned[k] \/ k = n \/ k \in Listed(L))
    <3>1. Rooted(now) /\ n \in Nodes \ {Root} /\ p \in Placed(now) /\ L \in Seq(Owners(Branch(now, n)))
      BY <1>1, <1>7, <2>1
    <3> QED BY <3>1, <2>3, <2>4, PutBack
  <2> QED BY <2>2, <2>5
<1>9. MovedTo(from, to, n, p)
  <2>1. to \in SceneRecord /\ from.parent = [to.parent EXCEPT ![n] = None]
    BY <1>4 DEF MovedTo
  <2>2. to.parent \in [Nodes -> Nodes \cup {None}]
    BY <1>3 DEF Rooted, Parents
  <2> HIDE DEF to, from
  <2>3. to.parent = [from.parent EXCEPT ![n] = p]
    BY <1>2, <2>1, <2>2
  <2> QED BY <1>4, <2>1, <2>3 DEF MovedTo
<1>10. Branch(to, n) = Branch(now, n)
  BY <1>1, <1>5, BranchApart
<1>11. n \in Branch(to, n)
  BY <1>1, <1>3, AboveIsShut, BranchIs DEF Rooted
<1> HIDE DEF from, then, to
<1>12. OwnersFollow(now, then, from, to, m, x)
  <2>1. ASSUME NEW k \in Nodes \ x
        PROVE  then.owned[k] = to.owned[k] \/ (then.owned[k] = now.owned[k] /\ from.owned[k] = to.owned[k])
    <3>1. now.owned[k] \in BOOLEAN /\ to.owned[k] \in BOOLEAN
      BY <1>9 DEF SceneRecord, MovedTo
    <3>2. /\ then.owned[k] = (now.owned[k] \/ k = n)
          /\ from.owned[k] = (to.owned[k] /\ n \notin Above(to, k))
      BY <1>4, <1>8
    <3>3. CASE k \in Branch(to, n)
      <4>1. k = n /\ to.owned[k]
        BY <1>2, <3>3
      <4> QED BY <3>1, <3>2, <4>1
    <3>4. CASE k \notin Branch(to, n)
      <4>1. n \notin Above(to, k) /\ k # n
        BY <1>11, <3>4, BranchIs
      <4> QED BY <3>1, <3>2, <4>1
    <3> QED BY <3>3, <3>4
  <2>2. ASSUME NEW k \in (m+1)..MaxNodes PROVE then.owned[k] => now.owned[k]
    <3>1. k \in Nodes /\ k \notin 0..m
      BY <1>3, NodesAre, BoundsAssumption
    <3>2. k # n
      BY <1>1, <3>1
    <3> QED BY <1>8, <3>1, <3>2
  <2> QED BY <2>1, <2>2 DEF OwnersFollow
<1>13. ASSUME Owned(now, x) PROVE Owned(then, x)
  <2>1. Apart(now, then, n) /\ then.inside = now.inside
    BY <1>1, <1>8, MovedApart DEF MovedTo
  <2>2. \A k \in Nodes : now.owned[k] => then.owned[k]
    BY <1>8
  <2>3. \A k \in Branch(now, n) : then.owned[k] \/ k \in x
    <3>1. TAKE k \in Branch(now, n)
    <3>2. k \in Nodes /\ (k \in x \/ k = n)
      BY <1>2, <1>10, BranchIs
    <3> QED BY <1>8, <3>2
  <2> QED BY <1>1, <1>13, <2>1, <2>2, <2>3, OwnedApart
<1>14. from \in SceneRecord /\ p \in 0..m \cup {None}
  BY <1>3, <1>4, <1>6 DEF MovedTo
<1>15. Follows(now, then, from, to, m, x)
  BY <1>3, <1>8, <1>9, <1>12, <1>13, <1>14, MovesFollow
<1> QED BY <1>15 DEF from, then, to

LEMMA SameRecord ==
  ASSUME NEW s \in SceneRecord, NEW t \in SceneRecord,
         s.parent = t.parent, s.owned = t.owned, s.inside = t.inside,
         s.value = t.value, s.link = t.link, s.group = t.group
  PROVE  s = t
  BY DEF SceneRecord

Moving(h, n, p, v) ==
  /\ n \in Placed(h.before) \ {Root} /\ p \in Placed(h.before)
  /\ p = n \/ n \notin Above(h.before, p)
  /\ \/ /\ h.do = <<On("reparent", n, p)>>
        /\ h.undo = <<On("reparent", n, h.before.parent[n])>>
     \/ /\ v \in Values
        /\ h.do = <<On("reparent", n, p), Put(n, "name", v)>>
        /\ h.undo = <<On("reparent", n, h.before.parent[n]), Put(n, "name", h.before.value[<<n, "name">>])>>

LEMMA ReparentFollows ==
  ASSUME NEW now \in SceneRecord, NEW from \in SceneRecord, NEW m, SameTree(now, from, m),
         NEW n \in 1..m, n \in Placed(from), NEW p \in 0..m, p = n \/ n \notin Above(from, p), NEW x
  PROVE  LET R == On("reparent", n, p) IN Follows(now, Apply(now, R), from, Apply(from, R), m, x)
<1> DEFINE then == Apply(now, On("reparent", n, p))
           to == Apply(from, On("reparent", n, p))
<1>1. /\ Rooted(now) /\ Rooted(from)
      /\ n \in Nodes \ {Root} /\ now.parent[n] = from.parent[n] /\ n \in 0..m
      /\ Branch(now, n) = Branch(from, n) /\ Placed(now) = Placed(from)
  BY SameBranch
<1>2. m \in Nodes /\ p \in Nodes /\ Above(now, p) = Above(from, p) /\ Placed(from) \subseteq 0..m
  <2>1. m \in Nodes
    BY DEF SameTree
  <2> QED BY <2>1, SameTreeIs, NodesAre, BoundsAssumption
<1> DEFINE q == IF p = n THEN from.parent[n] ELSE p
<1>3. q \in 0..m \cup {None}
  BY <1>1, <1>2, NoLoop
<1>4. MovedTo(from, to, n, q) /\ to.owned = from.owned
  <2>1. n \in Placed(from) \ {Root}
    BY <1>1
  <2> HIDE DEF to
  <2> QED BY <1>1, <1>2, <2>1, ReparentedIs DEF to
<1>5. MovedTo(now, then, n, q) /\ then.owned = now.owned
  <2>1. n \in Placed(now) \ {Root} /\ (p = n \/ n \notin Above(now, p))
    BY <1>1, <1>2
  <2>2. q = IF p = n THEN now.parent[n] ELSE p
    BY <1>1
  <2> HIDE DEF then, q
  <2> QED BY <1>1, <1>2, <2>1, <2>2, ReparentedIs DEF then
<1> HIDE DEF then, to, q
<1>6. OwnersFollow(now, then, from, to, m, x)
  BY <1>4, <1>5 DEF OwnersFollow
<1>7. ASSUME Owned(now, x) PROVE Owned(then, x)
  <2>1. Apart(now, then, n) /\ then.inside = now.inside
    BY <1>1, <1>5, MovedApart DEF MovedTo
  <2>2. n \in Placed(now)
    BY <1>1
  <2>3. \A k \in Branch(now, n) : then.owned[k] \/ then.inside[k] \/ k \in x
    <3>1. TAKE k \in Branch(now, n)
    <3>2. k \in Placed(now) \ {Root}
      BY <1>1, <2>2, BranchPlaced
    <3> QED BY <1>5, <1>7, <2>1, <3>2 DEF Owned
  <2>4. \A k \in Nodes \ Branch(now, n) : now.owned[k] => then.owned[k]
    BY <1>5
  <2> QED BY <1>1, <1>7, <2>1, <2>3, <2>4, OwnedApart
<1>8. Follows(now, then, from, to, m, x)
  BY <1>2, <1>3, <1>4, <1>5, <1>6, <1>7, MovesFollow
<1> QED BY <1>8 DEF then, to

LEMMA MovingRedone ==
  ASSUME NEW now \in SceneRecord, NEW h, h.before \in SceneRecord, NEW m, SameTree(now, h.before, m),
         NEW n \in 1..m, NEW p, NEW v, Moving(h, n, p, v), NEW x
  PROVE  Follows(now, Run(now, h.do), h.before, Run(h.before, h.do), m, x)
<1> DEFINE from == h.before
           R == On("reparent", n, p)
<1>1. Rooted(now) /\ Rooted(from) /\ n \in Nodes /\ Placed(now) = Placed(from)
  BY SameBranch
<1>2. p \in 0..m /\ n \in Placed(from) /\ (p = n \/ n \notin Above(from, p))
  BY <1>1, SameTreeIs DEF Moving
<1>3. Follows(now, Apply(now, R), from, Apply(from, R), m, x)
  <2>1. from \in SceneRecord /\ SameTree(now, from, m)
    OBVIOUS
  <2> HIDE DEF from
  <2> QED BY <1>2, <2>1, ReparentFollows
<1>4. CASE h.do = <<R>>
  <2>1. \A s : Run(s, h.do) = Apply(s, R)
    BY <1>4, RunOne
  <2> QED BY <1>3, <2>1
<1>5. CASE v \in Values /\ h.do = <<R, Put(n, "name", v)>>
  <2>1. \A s : Run(s, h.do) = Apply(Apply(s, R), Put(n, "name", v))
    BY <1>5, RunTwo
  <2>2. Follows(now, Apply(Apply(now, R), Put(n, "name", v)), from, Apply(Apply(from, R), Put(n, "name", v)), m, x)
    <3> HIDE DEF from, R
    <3> QED BY <1>1, <1>3, <1>5, PutFollows, KeysAssumption
  <2> QED BY <2>1, <2>2
<1> QED BY <1>4, <1>5 DEF Moving

LEMMA MovingUndone ==
  ASSUME NEW now \in SceneRecord, NEW h, h.before \in SceneRecord, NEW m, SameTree(h.before, h.before, m),
         NEW n \in 1..m, NEW p, NEW v, Moving(h, n, p, v), NEW x,
         SameTree(now, Run(h.before, h.do), m)
  PROVE  Follows(now, Run(now, h.undo), Run(h.before, h.do), h.before, m, x)
<1> DEFINE to == h.before
           from == Run(to, h.do)
           old == to.parent[n]
           R == On("reparent", n, old)
           q == IF p = n THEN old ELSE p
<1>1. /\ Rooted(now) /\ Rooted(from) /\ m \in Nodes
      /\ n \in Nodes \ {Root} /\ now.parent[n] = from.parent[n] /\ n \in 0..m
  BY SameBranch DEF SameTree
<1>2. /\ n \in Placed(to) \ {Root} /\ p \in Placed(to)
      /\ p = n \/ n \notin Above(to, p)
  BY DEF Moving
<1>3. Rooted(to) /\ Placed(to) \subseteq 0..m
  BY SameTreeIs DEF SameTree
<1>4. to \in SceneRecord
  OBVIOUS
<1>5. p \in Nodes /\ old \in Placed(to) /\ n \notin Above(to, old) /\ old \in 0..m
  BY <1>2, <1>3, NoLoop, RootIs
<1>6. q \in Placed(to) /\ n \notin Above(to, q) /\ q # n
  <2>1. n \in Above(to, n)
    BY <1>1, <1>3, AboveIsShut DEF Rooted
  <2> QED BY <1>2, <1>5, <2>1
<1> DEFINE a == Apply(to, On("reparent", n, p))
<1>7. MovedTo(to, a, n, q) /\ a.owned = to.owned
  <2> HIDE DEF to, a
  <2> QED BY <1>2, <1>3, <1>4, <1>5, ReparentedIs DEF a
<1>8. Apart(to, a, n) /\ a.parent[n] = q /\ a \in SceneRecord
  <2> HIDE DEF to, a, q
  <2> QED BY <1>1, <1>3, <1>7, MovedApart DEF MovedTo
<1>9. n \in Placed(a) /\ n \notin Above(a, old)
  <2>1. n \in Placed(a)
    <3> HIDE DEF a, to, q
    <3> QED BY <1>1, <1>6, <1>8, PlacedUnder
  <2>2. old \in Nodes
    BY <1>3, <1>5, RootIs
  <2>3. n \notin Above(a, old)
    <3> HIDE DEF a, to, old
    <3> QED BY <1>5, <1>8, <2>2, AboveApart
  <2> QED BY <2>1, <2>3
<1>10. a.parent = [to.parent EXCEPT ![n] = q] /\ to.parent \in [Nodes -> Nodes \cup {None}] /\ a.parent \in [Nodes -> Nodes \cup {None}]
  BY <1>3, <1>7, <1>8 DEF MovedTo, Rooted, Parents, Apart
<1> HIDE DEF a, q, to
<1>11. /\ \A b : (\A k \in Nodes \ {n} : b[k] = a.parent[k]) => \A k \in Nodes \ {n} : b[k] = to.parent[k]
       /\ [a.parent EXCEPT ![n] = old] = to.parent
  BY <1>10
<1>12. CASE h.do = <<On("reparent", n, p)>> /\ h.undo = <<R>>
  <2>1. from = a
    BY <1>12, RunOne DEF a, to
  <2>2. Apply(from, R) = to
    <3>1. MovedTo(a, Apply(a, R), n, old) /\ Apply(a, R).owned = a.owned
      <4>1. Rooted(a) /\ old \in Nodes /\ old # n /\ n \in Placed(a) \ {Root}
        BY <1>1, <1>3, <1>5, <1>8, <1>9, AboveIsShut, RootIs DEF Apart, Rooted
      <4> HIDE DEF old
      <4> QED BY <1>8, <1>9, <4>1, ReparentedIs
    <3>2. Apply(a, R) \in SceneRecord
      BY <3>1 DEF MovedTo
    <3> HIDE DEF R
    <3>3. Apply(a, R).parent = to.parent
      BY <1>11, <3>1 DEF MovedTo
    <3>4. Apply(a, R) = to
      BY <1>4, <1>7, <3>1, <3>2, <3>3, SameRecord DEF MovedTo
    <3> QED BY <2>1, <3>4
  <2>3. Run(now, h.undo) = Apply(now, R)
    BY <1>12, RunOne
  <2>4. Follows(now, Apply(now, R), from, Apply(from, R), m, x)
    <3>1. SameTree(now, from, m) /\ from \in SceneRecord /\ n \in Placed(from) /\ n \notin Above(from, old)
      BY <1>8, <1>9, <2>1 DEF to
    <3> HIDE DEF from, old
    <3> QED BY <1>5, <3>1, ReparentFollows
  <2> QED BY <2>2, <2>3, <2>4 DEF to
<1>13. CASE /\ v \in Values
            /\ h.do = <<On("reparent", n, p), Put(n, "name", v)>>
            /\ h.undo = <<R, Put(n, "name", to.value[<<n, "name">>])>>
  <2> DEFINE c == to.value[<<n, "name">>]
             b == Apply(from, R)
  <2>1. from = Apply(a, Put(n, "name", v))
    BY <1>13, RunTwo DEF a, to
  <2>2. c \in Values
    BY <1>1, <1>4, KeysAssumption DEF SceneRecord
  <2>3. /\ from \in SceneRecord
        /\ from.parent = a.parent /\ from.owned = a.owned /\ from.inside = a.inside
        /\ from.link = a.link /\ from.group = a.group
        /\ \A y \in Nodes \X Keys : from.value[y] = IF y = <<n, "name">> THEN v ELSE a.value[y]
    <3> HIDE DEF from
    <3>1. "name" \in Keys /\ a \in SceneRecord /\ n \in Nodes /\ v \in Values
      BY <1>1, <1>8, <1>13, KeysAssumption
    <3> HIDE DEF a
    <3> QED BY <2>1, <3>1, PutAre
  <2>4. n \in Placed(from) /\ n \notin Above(from, old)
    <3>1. Placed(from) = Placed(a) /\ Above(from, old) = Above(a, old)
      BY <2>3 DEF Placed, Branch, Above
    <3> QED BY <1>9, <3>1
  <2>5. Follows(now, Apply(now, R), from, b, m, x)
    <3>1. SameTree(now, from, m)
      BY DEF to
    <3> HIDE DEF from, old, b
    <3> QED BY <1>5, <2>3, <2>4, <3>1, ReparentFollows DEF b
  <2>6. MovedTo(from, b, n, old) /\ b.owned = from.owned
    <3>1. Rooted(from) /\ old \in Nodes /\ old # n /\ n \in Placed(from) \ {Root}
      BY <1>1, <1>3, <1>5, <2>4, AboveIsShut, RootIs DEF Rooted
    <3> HIDE DEF from, old, b
    <3> QED BY <2>3, <2>4, <3>1, ReparentedIs DEF b
  <2> HIDE DEF b
  <2>7. Apply(b, Put(n, "name", c)) = to
    <3> DEFINE d == Apply(b, Put(n, "name", c))
    <3>1. b \in SceneRecord
      BY <2>6 DEF MovedTo
    <3>2. /\ d \in SceneRecord
          /\ d.parent = b.parent /\ d.owned = b.owned /\ d.inside = b.inside
          /\ d.link = b.link /\ d.group = b.group
          /\ \A y \in Nodes \X Keys : d.value[y] = IF y = <<n, "name">> THEN c ELSE b.value[y]
      <4> HIDE DEF d, c
      <4> QED BY <1>1, <2>2, <3>1, PutAre, KeysAssumption DEF d
    <3> HIDE DEF d, from
    <3>3. d.parent = to.parent
      BY <1>11, <2>3, <2>6, <3>2 DEF MovedTo
    <3>4. d.owned = to.owned /\ d.inside = to.inside /\ d.link = to.link /\ d.group = to.group
      BY <1>7, <2>3, <2>6, <3>2 DEF MovedTo
    <3>5. d.value = to.value
      <4>1. d.value \in [Nodes \X Keys -> Values] /\ to.value \in [Nodes \X Keys -> Values]
        BY <1>4, <3>2 DEF SceneRecord
      <4>2. a.value = to.value /\ b.value = from.value
        BY <1>7, <2>6 DEF MovedTo
      <4>3. ASSUME NEW y \in Nodes \X Keys PROVE d.value[y] = to.value[y]
        <5>1. CASE y = <<n, "name">>
          BY <3>2, <5>1
        <5>2. CASE y # <<n, "name">>
          BY <2>3, <3>2, <4>2, <5>2
        <5> QED BY <5>1, <5>2
      <4> QED BY <4>1, <4>3
    <3>6. d = to
      BY <1>4, <3>2, <3>3, <3>4, <3>5, SameRecord
    <3> QED BY <3>6 DEF d
  <2>8. Run(now, h.undo) = Apply(Apply(now, R), Put(n, "name", c))
    BY <1>13, RunTwo
  <2>9. Follows(now, Apply(Apply(now, R), Put(n, "name", c)), from, Apply(b, Put(n, "name", c)), m, x)
    <3> HIDE DEF from, R, c
    <3> QED BY <1>1, <2>2, <2>5, PutFollows, KeysAssumption
  <2> QED BY <2>7, <2>8, <2>9 DEF to
<1> QED BY <1>12, <1>13 DEF Moving, to

Setting(h, n, k, v) ==
  /\ n \in Nodes /\ k \in Keys /\ v \in Values
  /\ h.do = <<Put(n, k, v)>> /\ h.undo = <<Put(n, k, h.before.value[<<n, k>>])>>

Wiring(h, w, flag) ==
  /\ w \in Wires /\ flag \in {"saved", "saved deferred"}
  /\ \/ /\ h.before.link[w] = "none"
        /\ h.do = <<Wire("connect", w, flag)>> /\ h.undo = <<Wire("disconnect", w, "none")>>
     \/ /\ h.before.link[w] = flag
        /\ h.do = <<Wire("disconnect", w, "none")>> /\ h.undo = <<Wire("connect", w, flag)>>

Grouping(h, n) ==
  /\ n \in Placed(h.before)
  /\ \/ /\ h.before.group[n] = "out"
        /\ h.do = <<On("add_to_group", n, Root)>> /\ h.undo = <<On("remove_from_group", n, Root)>>
     \/ /\ h.before.group[n] # "out"
        /\ h.do = <<On("remove_from_group", n, Root)>> /\ h.undo = <<On("add_to_group", n, Root)>>

LEMMA SettingFollows ==
  ASSUME NEW now \in SceneRecord, NEW h, h.before \in SceneRecord, NEW m \in Nodes,
         NEW n, NEW k, NEW v, Setting(h, n, k, v), NEW x
  PROVE  /\ Follows(now, Run(now, h.do), h.before, Run(h.before, h.do), m, x)
         /\ Follows(now, Run(now, h.undo), Run(h.before, h.do), h.before, m, x)
<1> DEFINE b == h.before
           old == b.value[<<n, k>>]
           a == Apply(b, Put(n, k, v))
<1>1. /\ n \in Nodes /\ k \in Keys /\ v \in Values /\ b \in SceneRecord
      /\ h.do = <<Put(n, k, v)>> /\ h.undo = <<Put(n, k, old)>>
  BY DEF Setting
<1>2. old \in Values
  BY <1>1 DEF SceneRecord
<1> HIDE DEF b, old
<1>3. \A s : Run(s, h.do) = Apply(s, Put(n, k, v)) /\ Run(s, h.undo) = Apply(s, Put(n, k, old))
  BY <1>1, RunOne
<1>4. Follows(now, Apply(now, Put(n, k, v)), b, a, m, x)
  BY <1>1, StillFollows, PutFollows
<1>5. /\ a \in SceneRecord
      /\ a.parent = b.parent /\ a.owned = b.owned /\ a.inside = b.inside
      /\ a.link = b.link /\ a.group = b.group
      /\ \A c \in Nodes \X Keys : a.value[c] = IF c = <<n, k>> THEN v ELSE b.value[c]
  BY <1>1, PutAre
<1> DEFINE d == Apply(a, Put(n, k, old))
<1> HIDE DEF a
<1>6. /\ d \in SceneRecord
      /\ d.parent = a.parent /\ d.owned = a.owned /\ d.inside = a.inside
      /\ d.link = a.link /\ d.group = a.group
      /\ \A c \in Nodes \X Keys : d.value[c] = IF c = <<n, k>> THEN old ELSE a.value[c]
  BY <1>1, <1>2, <1>5, PutAre
<1>7. Follows(now, Apply(now, Put(n, k, old)), a, d, m, x)
  BY <1>1, <1>2, <1>5, StillFollows, PutFollows
<1> HIDE DEF d
<1>8. d = b
  <2>1. d.value = b.value
    <3>1. d.value \in [Nodes \X Keys -> Values] /\ b.value \in [Nodes \X Keys -> Values]
      BY <1>1, <1>6 DEF SceneRecord
    <3>2. ASSUME NEW y \in Nodes \X Keys PROVE d.value[y] = b.value[y]
      <4>1. CASE y = <<n, k>>
        BY <1>6, <4>1 DEF old
      <4>2. CASE y # <<n, k>>
        BY <1>5, <1>6, <4>2
      <4> QED BY <4>1, <4>2
    <3> QED BY <3>1, <3>2
  <2> QED BY <1>1, <1>5, <1>6, <2>1, SameRecord
<1>9. Run(b, h.do) = a
  BY <1>3 DEF a
<1> QED BY <1>3, <1>4, <1>7, <1>8, <1>9 DEF b

LEMMA WiringFollows ==
  ASSUME NEW now \in SceneRecord, NEW h, h.before \in SceneRecord, NEW m \in Nodes,
         NEW w, NEW flag, Wiring(h, w, flag), NEW x
  PROVE  /\ Follows(now, Run(now, h.do), h.before, Run(h.before, h.do), m, x)
         /\ Follows(now, Run(now, h.undo), Run(h.before, h.do), h.before, m, x)
<1> DEFINE b == h.before
           Set(s, to) == [s EXCEPT !.link[w] = to]
           Join(s) == IF s.link[w] = "none" THEN flag ELSE s.link[w]
           Cut(s) == "none"
<1>1. w \in Wires /\ flag \in {"saved", "saved deferred"} /\ b \in SceneRecord
  BY DEF Wiring
<1>2. /\ \A s : Run(s, <<Wire("connect", w, flag)>>) = Set(s, Join(s))
      /\ \A s : Run(s, <<Wire("disconnect", w, "none")>>) = Set(s, "none")
  BY RunOne, WireIs
<1>3. \A s \in SceneRecord : s.link[w] \in Links
  BY <1>1 DEF SceneRecord
<1>4. \A s \in SceneRecord : Join(s) \in Links /\ flag \in Links /\ "none" \in Links
  BY <1>1, <1>3 DEF Links
<1>5. \A s \in SceneRecord, to \in Links : /\ Set(s, to) \in SceneRecord
                                           /\ Set(s, to).link[w] = to
                                           /\ \A also : Set(Set(s, to), also) = Set(s, also)
                                           /\ Set(s, s.link[w]) = s
  <2>1. TAKE s \in SceneRecord, to \in Links
  <2>2. s.link \in [Wires -> Links] /\ s = [s EXCEPT !.link = s.link]
    BY DEF SceneRecord
  <2>3. [s.link EXCEPT ![w] = s.link[w]] = s.link
    BY <1>1, <2>2
  <2>4. Set(s, s.link[w]) = [s EXCEPT !.link = [s.link EXCEPT ![w] = s.link[w]]]
    BY <1>1, <2>2 DEF SceneRecord
  <2>5. Set(s, to) \in SceneRecord /\ Set(s, to).link[w] = to
    BY <1>1 DEF SceneRecord
  <2>6. \A also : Set(Set(s, to), also) = Set(s, also)
    BY <1>1 DEF SceneRecord
  <2> QED BY <2>2, <2>3, <2>4, <2>5, <2>6
<1>6. \A s, t \in SceneRecord, c, d \in Links :
        (s.link[w] = t.link[w] => c = d) => Follows(s, Set(s, c), t, Set(t, d), m, x)
  <2>1. TAKE s, t \in SceneRecord, c, d \in Links
  <2> QED BY <1>1, LinkFollows
<1> HIDE DEF Set, b
<1>7. CASE /\ b.link[w] = "none"
           /\ h.do = <<Wire("connect", w, flag)>> /\ h.undo = <<Wire("disconnect", w, "none")>>
  <2>1. Run(b, h.do) = Set(b, flag) /\ Run(now, h.do) = Set(now, Join(now)) /\ Run(now, h.undo) = Set(now, "none")
    BY <1>2, <1>7
  <2>2. Follows(now, Set(now, Join(now)), b, Set(b, flag), m, x)
    BY <1>1, <1>4, <1>6, <1>7
  <2>3. Set(b, flag) \in SceneRecord /\ Set(Set(b, flag), "none") = b
    <3>1. flag \in Links
      BY <1>1, <1>4
    <3>2. /\ Set(b, flag) \in SceneRecord /\ \A also : Set(Set(b, flag), also) = Set(b, also)
          /\ Set(b, b.link[w]) = b
      BY <1>1, <1>5, <3>1
    <3>3. Set(Set(b, flag), "none") = Set(b, "none")
      BY <3>2
    <3> QED BY <1>7, <3>2, <3>3
  <2>4. Follows(now, Set(now, "none"), Set(b, flag), Set(Set(b, flag), "none"), m, x)
    BY <1>1, <1>4, <1>6, <2>3
  <2> QED BY <2>1, <2>2, <2>3, <2>4 DEF b
<1>8. CASE /\ b.link[w] = flag
           /\ h.do = <<Wire("disconnect", w, "none")>> /\ h.undo = <<Wire("connect", w, flag)>>
  <2>1. Run(b, h.do) = Set(b, "none") /\ Run(now, h.do) = Set(now, "none") /\ Run(now, h.undo) = Set(now, Join(now))
    BY <1>2, <1>8
  <2>2. Follows(now, Set(now, "none"), b, Set(b, "none"), m, x)
    BY <1>1, <1>4, <1>6
  <2>3. Set(b, "none") \in SceneRecord /\ Set(b, "none").link[w] = "none" /\ Set(Set(b, "none"), flag) = b
    BY <1>1, <1>4, <1>5, <1>8
  <2>4. Follows(now, Set(now, Join(now)), Set(b, "none"), Set(Set(b, "none"), flag), m, x)
    BY <1>1, <1>4, <1>6, <2>3
  <2> QED BY <2>1, <2>2, <2>3, <2>4 DEF b
<1> QED BY <1>7, <1>8 DEF Wiring, b

LEMMA GroupingFollows ==
  ASSUME NEW now \in SceneRecord, NEW h, h.before \in SceneRecord, NEW m \in Nodes,
         NEW n \in 0..m, Grouping(h, n), NEW x
  PROVE  /\ Follows(now, Run(now, h.do), h.before, Run(h.before, h.do), m, x)
         /\ Follows(now, Run(now, h.undo), Run(h.before, h.do), h.before, m, x)
<1> DEFINE b == h.before
           Set(s, to) == [s EXCEPT !.group[n] = to]
           Join(s) == IF s.group[n] = "out" THEN "saved" ELSE s.group[n]
<1>1. n \in Nodes /\ n <= m /\ b \in SceneRecord
  BY NodesAre, BoundsAssumption
<1>2. /\ \A s : Run(s, <<On("add_to_group", n, Root)>>) = Set(s, Join(s))
      /\ \A s : Run(s, <<On("remove_from_group", n, Root)>>) = Set(s, "out")
  BY RunOne, GroupIs
<1>3. \A s \in SceneRecord : s.group[n] \in Groups
  BY <1>1 DEF SceneRecord
<1>4. \A s \in SceneRecord : Join(s) \in Groups /\ "saved" \in Groups /\ "out" \in Groups
  BY <1>3 DEF Groups
<1>5. \A s \in SceneRecord, to \in Groups : /\ Set(s, to) \in SceneRecord
                                            /\ Set(s, to).group[n] = to
                                            /\ \A also : Set(Set(s, to), also) = Set(s, also)
                                            /\ Set(s, s.group[n]) = s
  <2>1. TAKE s \in SceneRecord, to \in Groups
  <2>2. s.group \in [Nodes -> Groups] /\ s = [s EXCEPT !.group = s.group]
    BY DEF SceneRecord
  <2>3. [s.group EXCEPT ![n] = s.group[n]] = s.group
    BY <1>1, <2>2
  <2>4. Set(s, s.group[n]) = [s EXCEPT !.group = [s.group EXCEPT ![n] = s.group[n]]]
    BY <1>1, <2>2 DEF SceneRecord
  <2>5. Set(s, to) \in SceneRecord /\ Set(s, to).group[n] = to
    BY <1>1 DEF SceneRecord
  <2>6. \A also : Set(Set(s, to), also) = Set(s, also)
    BY <1>1 DEF SceneRecord
  <2> QED BY <2>2, <2>3, <2>4, <2>5, <2>6
<1>6. \A s, t \in SceneRecord, c, d \in Groups :
        /\ LiveAsIn(s, t, n) => d = "live" \/ c = d
        /\ c = "live" => s.group[n] = "live"
        => Follows(s, Set(s, c), t, Set(t, d), m, x)
  <2>1. TAKE s, t \in SceneRecord, c, d \in Groups
  <2> QED BY <1>1, GroupFollows
<1> HIDE DEF Set, b
<1>7. CASE /\ b.group[n] = "out"
           /\ h.do = <<On("add_to_group", n, Root)>> /\ h.undo = <<On("remove_from_group", n, Root)>>
  <2>1. Run(b, h.do) = Set(b, "saved") /\ Run(now, h.do) = Set(now, Join(now)) /\ Run(now, h.undo) = Set(now, "out")
    BY <1>2, <1>7
  <2>2. Follows(now, Set(now, Join(now)), b, Set(b, "saved"), m, x)
    <3>1. LiveAsIn(now, b, n) => Join(now) = "saved"
      BY <1>3, <1>7 DEF LiveAsIn, Groups
    <3> QED BY <1>1, <1>4, <1>6, <3>1
  <2>3. Set(b, "saved") \in SceneRecord /\ Set(Set(b, "saved"), "out") = b
    BY <1>1, <1>4, <1>5, <1>7
  <2>4. Follows(now, Set(now, "out"), Set(b, "saved"), Set(Set(b, "saved"), "out"), m, x)
    BY <1>1, <1>4, <1>6, <2>3
  <2> QED BY <2>1, <2>2, <2>3, <2>4 DEF b
<1>8. CASE /\ b.group[n] # "out"
           /\ h.do = <<On("remove_from_group", n, Root)>> /\ h.undo = <<On("add_to_group", n, Root)>>
  <2> DEFINE g == b.group[n]
  <2>1. Run(b, h.do) = Set(b, "out") /\ Run(now, h.do) = Set(now, "out") /\ Run(now, h.undo) = Set(now, Join(now))
    BY <1>2, <1>8
  <2>2. Follows(now, Set(now, "out"), b, Set(b, "out"), m, x)
    BY <1>1, <1>4, <1>6
  <2>3. Set(b, "out") \in SceneRecord /\ Set(b, "out").group[n] = "out" /\ Set(Set(b, "out"), g) = b /\ g \in Groups
    BY <1>1, <1>3, <1>4, <1>5
  <2> HIDE DEF g
  <2>4. Follows(now, Set(now, Join(now)), Set(b, "out"), Set(Set(b, "out"), g), m, x)
    <3>1. LiveAsIn(now, Set(b, "out"), n) => Join(now) = "saved"
      BY <1>3, <2>3 DEF LiveAsIn, Groups
    <3>2. g = "live" \/ g = "saved"
      BY <1>8, <2>3 DEF g, Groups
    <3> QED BY <1>1, <1>4, <1>6, <2>3, <3>1, <3>2
  <2> QED BY <2>1, <2>2, <2>3, <2>4 DEF b
<1> QED BY <1>7, <1>8 DEF Grouping, b

\* An action the tools queue, whose nodes are among the first m.
Shaped(h, m, in, x) ==
  /\ h.before \in SceneRecord /\ SameTree(h.before, h.before, m)
  /\ \/ \E n \in 1..m : \E p, L : Placing(h, n, p, L, in)
     \/ \E n \in 1..m : \E p : Removing(h, n, p, x)
     \/ \E n \in 1..m : \E p, v : Moving(h, n, p, v)
     \/ \E n, k, v : Setting(h, n, k, v)
     \/ \E w, flag : Wiring(h, w, flag)
     \/ \E n \in 0..m : Grouping(h, n)

LEMMA Redone ==
  ASSUME NEW now \in SceneRecord, NEW h, NEW m, NEW x, Shaped(h, m, now.inside, x), SameTree(now, h.before, m)
  PROVE  Follows(now, Run(now, h.do), h.before, Run(h.before, h.do), m, x)
<1>1. h.before \in SceneRecord /\ m \in Nodes
  BY DEF Shaped, SameTree
<1>2. CASE \E n \in 1..m : \E p, L : Placing(h, n, p, L, now.inside)
  BY <1>1, <1>2, PlacingRedone
<1>3. CASE \E n \in 1..m : \E p : Removing(h, n, p, x)
  BY <1>1, <1>3, RemovingRedone
<1>4. CASE \E n \in 1..m : \E p, v : Moving(h, n, p, v)
  BY <1>1, <1>4, MovingRedone
<1>5. CASE \E n, k, v : Setting(h, n, k, v)
  BY <1>1, <1>5, SettingFollows
<1>6. CASE \E w, flag : Wiring(h, w, flag)
  BY <1>1, <1>6, WiringFollows
<1>7. CASE \E n \in 0..m : Grouping(h, n)
  BY <1>1, <1>7, GroupingFollows
<1> QED BY <1>2, <1>3, <1>4, <1>5, <1>6, <1>7 DEF Shaped

LEMMA Undone ==
  ASSUME NEW now \in SceneRecord, NEW h, NEW m, NEW in, NEW x, Shaped(h, m, in, x),
         SameTree(now, Run(h.before, h.do), m)
  PROVE  Follows(now, Run(now, h.undo), Run(h.before, h.do), h.before, m, x)
<1>1. h.before \in SceneRecord /\ m \in Nodes /\ SameTree(h.before, h.before, m)
  BY DEF Shaped, SameTree
<1>2. CASE \E n \in 1..m : \E p, L : Placing(h, n, p, L, in)
  BY <1>1, <1>2, PlacingUndone
<1>3. CASE \E n \in 1..m : \E p : Removing(h, n, p, x)
  BY <1>1, <1>3, RemovingUndone
<1>4. CASE \E n \in 1..m : \E p, v : Moving(h, n, p, v)
  BY <1>1, <1>4, MovingUndone
<1>5. CASE \E n, k, v : Setting(h, n, k, v)
  BY <1>1, <1>5, SettingFollows
<1>6. CASE \E w, flag : Wiring(h, w, flag)
  BY <1>1, <1>6, WiringFollows
<1>7. CASE \E n \in 0..m : Grouping(h, n)
  BY <1>1, <1>7, GroupingFollows
<1> QED BY <1>2, <1>3, <1>4, <1>5, <1>6, <1>7 DEF Shaped

LEMMA StillShaped ==
  ASSUME NEW h, NEW m, NEW in, NEW also, NEW x, NEW y, Shaped(h, m, in, x),
         \A k \in Nodes : in[k] => also[k], x \subseteq y
  PROVE  Shaped(h, m, also, y)
<1>1. ASSUME NEW n \in 1..m, NEW p, NEW L, Placing(h, n, p, L, in) PROVE Placing(h, n, p, L, also)
  <2>1. \A k \in Branch(h.before, n) : k \in Nodes
    BY BranchIs
  <2> QED BY <1>1, <2>1 DEF Placing
<1>2. ASSUME NEW n \in 1..m, NEW p, Removing(h, n, p, x) PROVE Removing(h, n, p, y)
  BY <1>2 DEF Removing
<1> QED BY <1>1, <1>2 DEF Shaped

-----------------------------------------------------------------------------
(* The history as a chain of scenes: each action starts from the tree the one *)
(* before it left.  u[j] is how many nodes were made when action j was        *)
(* committed: the nodes made later are in no tree with these, then or now.    *)

Upto(u, j) == IF j = 0 THEN 0 ELSE u[j]

\* The scene after action j, where nothing was done in between; 0 for the start.
Origin == [parent |-> [n \in Nodes |-> None], link |-> [w \in Wires |-> "none"]]
At(H, j) == IF j = 0 THEN Origin ELSE After(H[j])

Chain(H, u, in, x) ==
  /\ \E S : H \in Seq(S)
  /\ u \in [1..Len(H) -> Nodes]
  /\ \A i, j \in 0..Len(H) : i <= j => Upto(u, i) <= Upto(u, j)
  /\ \A j \in 1..Len(H) : /\ Shaped(H[j], u[j], in, x)
                          /\ Parted(H[j].before, Upto(u, j-1))
                          /\ After(H[j]) \in SceneRecord /\ SameTree(After(H[j]), After(H[j]), u[j])
  /\ \A j \in 0..(Len(H)-1) : Alike(At(H, j), H[j+1].before, 0..Upto(u, j))

\* Where the scene s stands in it, with the first d actions done.
Stands(s, H, u, d) ==
  /\ Alike(s, At(H, d), 0..Upto(u, d))
  /\ \A j \in (d+1)..Len(H) : Alike(s, H[j].before, (Upto(u, j-1)+1)..u[j])
  /\ \A j \in d..Len(H) : Parted(s, Upto(u, j))

LinksStand(s, H, d, strange) ==
  \A w \in Wires : <<"link", w>> \notin strange =>
    /\ \A j \in 0..(Len(H)-1) : At(H, j).link[w] = H[j+1].before.link[w]
    /\ s.link[w] = At(H, d).link[w]

\* A live membership nobody set from outside has been there since the node was made.
LiveStand(s, H, u, strange) ==
  \A k \in Nodes : <<"group", k>> \notin strange /\ s.group[k] = "live" =>
    \A j \in 1..Len(H) : k <= u[j] => H[j].before.group[k] = "live" /\ After(H[j]).group[k] = "live"

Bare(s, m) == \A k \in (m+1)..MaxNodes : s.parent[k] = None /\ ~s.owned[k] /\ ~s.inside[k]

InStep(s, H, d, u, m, strange, x) ==
  /\ s \in SceneRecord /\ Rooted(s) /\ Owned(s, x)
  /\ m = Upto(u, Len(H)) /\ m \in Nodes /\ d \in 0..Len(H) /\ Bare(s, m)
  /\ Chain(H, u, s.inside, x) /\ Stands(s, H, u, d)
  /\ LinksStand(s, H, d, strange) /\ LiveStand(s, H, u, strange)

LEMMA UptoIs ==
  ASSUME NEW H, NEW u, NEW in, NEW x, Chain(H, u, in, x)
  PROVE  /\ Len(H) \in Nat
         /\ \A j \in 0..Len(H) : Upto(u, j) \in Nodes /\ Upto(u, j) \in Nat
         /\ \A i, j \in 0..Len(H) : i <= j => Upto(u, i) <= Upto(u, j)
         /\ \A j \in 1..Len(H) : Upto(u, j) = u[j] /\ u[j] \in Nat
<1>1. Len(H) \in Nat
  BY DEF Chain
<1>2. u \in [1..Len(H) -> Nodes] /\ \A k \in Nodes : k \in Nat
  BY NodesAre, BoundsAssumption DEF Chain
<1>3. ASSUME NEW j \in 1..Len(H) PROVE Upto(u, j) = u[j] /\ u[j] \in Nodes /\ u[j] \in Nat
  BY <1>1, <1>2 DEF Upto
<1>4. Upto(u, 0) = 0 /\ 0 \in Nodes
  BY NodesAre DEF Upto, Root
<1>5. \A j \in 0..Len(H) : j = 0 \/ j \in 1..Len(H)
  BY <1>1
<1> QED BY <1>1, <1>3, <1>4, <1>5 DEF Chain

\* The scene and the scene the next action went from are the same tree; so are
\* the scene and the one the last action left.
LEMMA CanRedo ==
  ASSUME NEW s, NEW H, NEW d, NEW u, NEW m, NEW strange, NEW x, InStep(s, H, d, u, m, strange, x), d < Len(H)
  PROVE  SameTree(s, H[d+1].before, u[d+1])
<1>0. Len(H) \in Nat /\ d \in 0..Len(H) /\ Chain(H, u, s.inside, x)
  BY UptoIs DEF InStep
<1>1. d + 1 \in 1..Len(H) /\ d + 1 \in (d+1)..Len(H) /\ d \in 0..(Len(H)-1) /\ (d+1) - 1 = d /\ d + 1 \in d..Len(H)
  BY <1>0
<1> DEFINE b == H[d+1].before
           e == d + 1
<1>2. Shaped(H[e], u[e], s.inside, x) /\ Alike(At(H, d), b, 0..Upto(u, d))
  BY <1>0, <1>1 DEF Chain
<1>3. SameTree(b, b, u[e])
  BY <1>2 DEF Shaped
<1>4. /\ Alike(s, At(H, d), 0..Upto(u, d))
      /\ Alike(s, b, (Upto(u, d)+1)..u[e])
      /\ Parted(s, Upto(u, e)) /\ Rooted(s)
  BY <1>1 DEF InStep, Stands
<1>5. Upto(u, e) = u[e] /\ Upto(u, d) \in Nat /\ u[e] \in Nat
  BY <1>0, <1>1, UptoIs
<1> HIDE DEF b, e
<1>6. Alike(s, b, 0..u[e])
  <2>1. \A k \in 0..u[e] : k \in 0..Upto(u, d) \/ k \in (Upto(u, d)+1)..u[e]
    BY <1>5
  <2> QED BY <1>2, <1>4, <2>1 DEF Alike
<1>7. SameTree(s, b, u[e])
  BY <1>3, <1>4, <1>5, <1>6 DEF SameTree
<1> QED BY <1>7 DEF b, e

LEMMA CanUndo ==
  ASSUME NEW s, NEW H, NEW d, NEW u, NEW m, NEW strange, NEW x, InStep(s, H, d, u, m, strange, x), d > 0
  PROVE  SameTree(s, After(H[d]), u[d])
<1>0. Len(H) \in Nat /\ d \in 0..Len(H) /\ Chain(H, u, s.inside, x)
  BY UptoIs DEF InStep
<1>1. d \in 1..Len(H) /\ d \in d..Len(H) /\ At(H, d) = After(H[d])
  BY <1>0 DEF At
<1>2. SameTree(After(H[d]), After(H[d]), u[d])
  BY <1>0, <1>1 DEF Chain
<1>3. Alike(s, At(H, d), 0..Upto(u, d)) /\ Parted(s, Upto(u, d)) /\ Rooted(s)
  BY <1>1 DEF InStep, Stands
<1>4. Upto(u, d) = u[d]
  BY <1>0, <1>1, UptoIs
<1> QED BY <1>1, <1>2, <1>3, <1>4 DEF SameTree

\* What a step over action e (its first u[e] nodes) leaves of where the scene
\* stands among the actions after it.
LEMMA BeyondStands ==
  ASSUME NEW s, NEW t, NEW H, NEW u, NEW in, NEW x, Chain(H, u, in, x), NEW e \in 1..Len(H),
         Parted(t, u[e]), Alike(s, t, (u[e]+1)..MaxNodes),
         \A j \in (e+1)..Len(H) : Alike(s, H[j].before, (Upto(u, j-1)+1)..u[j]),
         \A j \in e..Len(H) : Parted(s, Upto(u, j))
  PROVE  /\ \A j \in (e+1)..Len(H) : Alike(t, H[j].before, (Upto(u, j-1)+1)..u[j])
         /\ \A j \in e..Len(H) : Parted(t, Upto(u, j))
<1>0. /\ Len(H) \in Nat /\ e \in Nat
      /\ \A j \in 1..Len(H) : Upto(u, j) = u[j] /\ u[j] \in Nat /\ u[j] <= MaxNodes
      /\ \A j \in e..Len(H) : j \in 1..Len(H) /\ u[e] <= u[j]
  <2>1. Len(H) \in Nat /\ e \in Nat
    BY UptoIs
  <2>2. \A j \in 1..Len(H) : Upto(u, j) = u[j] /\ u[j] \in Nat /\ u[j] \in Nodes
    BY UptoIs DEF Chain
  <2>3. ASSUME NEW j \in e..Len(H) PROVE j \in 1..Len(H) /\ u[e] <= u[j]
    <3>1. j \in 1..Len(H) /\ j \in 0..Len(H) /\ e \in 0..Len(H) /\ e <= j
      BY <2>1
    <3>2. Upto(u, e) <= Upto(u, j)
      BY <3>1, UptoIs
    <3> QED BY <2>2, <3>1, <3>2
  <2>4. \A k \in Nodes : k <= MaxNodes
    BY NodesAre, BoundsAssumption
  <2> QED BY <2>1, <2>2, <2>3, <2>4
<1>1. ASSUME NEW j \in (e+1)..Len(H) PROVE Alike(t, H[j].before, (Upto(u, j-1)+1)..u[j])
  <2>1. j \in 1..Len(H) /\ j - 1 \in e..Len(H) /\ j - 1 \in 1..Len(H)
    BY <1>0
  <2>2. u[e] <= Upto(u, j-1) /\ u[j] <= MaxNodes /\ Upto(u, j-1) \in Nat /\ u[e] \in Nat /\ u[j] \in Nat
    BY <1>0, <2>1
  <2>3. Alike(s, H[j].before, (Upto(u, j-1)+1)..u[j])
    BY <1>1
  <2> DEFINE a == Upto(u, j-1)
             b == H[j].before
  <2> HIDE DEF a, b
  <2>4. \A k \in (a+1)..u[j] : k \in (u[e]+1)..MaxNodes
    BY <2>2, BoundsAssumption DEF a
  <2>5. Alike(s, b, (a+1)..u[j])
    BY <2>3 DEF a, b
  <2>6. Alike(t, b, (a+1)..u[j])
    BY <2>4, <2>5 DEF Alike
  <2> QED BY <2>6 DEF a, b
<1>2. ASSUME NEW j \in e..Len(H) PROVE Parted(t, Upto(u, j))
  <2> DEFINE a == u[e]
             b == Upto(u, j)
  <2>1. a \in Nat /\ b \in Nat /\ a <= b /\ b <= MaxNodes
    BY <1>0
  <2>2. Parted(s, b) /\ Parted(t, a) /\ Alike(s, t, (a+1)..MaxNodes)
    BY <1>2
  <2> HIDE DEF a, b
  <2>3. ASSUME NEW k \in 0..b PROVE t.parent[k] \in 0..b \cup {None}
    <3>1. CASE k <= a
      <4>1. t.parent[k] \in 0..a \cup {None}
        BY <2>1, <2>2, <3>1 DEF Parted
      <4> QED BY <2>1, <4>1
    <3>2. CASE ~(k <= a)
      <4>1. k \in (a+1)..MaxNodes
        BY <2>1, <3>2, BoundsAssumption
      <4>2. t.parent[k] = s.parent[k]
        BY <2>2, <4>1 DEF Alike
      <4> QED BY <2>2, <4>2 DEF Parted
    <3> QED BY <3>1, <3>2
  <2>4. ASSUME NEW k \in (b+1)..MaxNodes PROVE t.parent[k] \in (b+1)..MaxNodes \cup {None}
    <3>1. k \in (a+1)..MaxNodes
      BY <2>1, BoundsAssumption
    <3>2. t.parent[k] = s.parent[k]
      BY <2>2, <3>1 DEF Alike
    <3> QED BY <2>2, <3>2 DEF Parted
  <2>5. Parted(t, b)
    BY <2>3, <2>4 DEF Parted
  <2> QED BY <2>5 DEF b
<1> QED BY <1>1, <1>2

\* Parted at a, seen from a scene that is the same up to m.
LEMMA PartedWithin ==
  ASSUME NEW s, NEW t, NEW a \in Nat, NEW m \in Nat, a <= m, m <= MaxNodes,
         Parted(s, a), Parted(t, m), Alike(t, s, 0..m)
  PROVE  Parted(t, a)
<1>1. ASSUME NEW k \in 0..a PROVE t.parent[k] \in 0..a \cup {None}
  <2>1. k \in 0..m
    OBVIOUS
  <2> QED BY <2>1 DEF Parted, Alike
<1>2. ASSUME NEW k \in (a+1)..MaxNodes PROVE t.parent[k] \in (a+1)..MaxNodes \cup {None}
  <2>1. CASE k <= m
    <3>1. k \in 0..m
      BY <2>1, BoundsAssumption
    <3> QED BY <3>1 DEF Parted, Alike
  <2>2. CASE ~(k <= m)
    <3>1. k \in (m+1)..MaxNodes
      BY <2>2, BoundsAssumption
    <3>2. t.parent[k] \in (m+1)..MaxNodes \cup {None}
      BY <3>1 DEF Parted
    <3> QED BY <3>2, BoundsAssumption
  <2> QED BY <2>1, <2>2
<1> QED BY <1>1, <1>2 DEF Parted

\* A half of an action changes no node made after it.
LEMMA FollowsBeyond ==
  ASSUME NEW now \in SceneRecord, NEW then, NEW from, NEW to, NEW m \in Nat, NEW x, Follows(now, then, from, to, m, x)
  PROVE  /\ Alike(now, then, (m+1)..MaxNodes)
         /\ \A k \in Nodes : now.parent[k] = None /\ k > m => then.parent[k] = None
<1>1. ASSUME NEW k \in Nodes, k > m PROVE then.parent[k] = now.parent[k]
  <2>1. CASE then.parent = now.parent
    BY <2>1
  <2>2. ASSUME NEW n \in 1..m, NEW q, then.parent = [now.parent EXCEPT ![n] = q] PROVE then.parent[k] = now.parent[k]
    <3>1. k # n
      BY <1>1, NodesAre, BoundsAssumption
    <3>2. now.parent \in [Nodes -> Nodes \cup {None}]
      BY DEF SceneRecord, Parents
    <3> QED BY <2>2, <3>1, <3>2
  <2> QED BY <2>1, <2>2 DEF Follows, ParentsFollow
<1>2. \A k \in (m+1)..MaxNodes : k \in Nodes /\ k > m
  BY NodesAre, BoundsAssumption
<1> QED BY <1>1, <1>2 DEF Alike

LEMMA BareFollows ==
  ASSUME NEW now \in SceneRecord, NEW then, NEW from, NEW to, NEW m \in Nat, NEW x, Follows(now, then, from, to, m, x),
         NEW b \in Nat, m <= b, Bare(now, b)
  PROVE  Bare(then, b)
<1>1. SUFFICES ASSUME NEW k \in (b+1)..MaxNodes PROVE then.parent[k] = None /\ ~then.owned[k] /\ ~then.inside[k]
  BY DEF Bare
<1>2. k \in Nodes /\ k \in (m+1)..MaxNodes /\ k > m
  BY NodesAre, BoundsAssumption
<1>3. now.parent[k] = None /\ ~now.owned[k] /\ ~now.inside[k]
  BY DEF Bare
<1>4. then.parent[k] = None
  BY <1>2, <1>3, FollowsBeyond
<1>5. then.inside = now.inside /\ (then.owned[k] => now.owned[k])
  BY <1>2 DEF Follows, OwnersFollow
<1> QED BY <1>3, <1>4, <1>5

LEMMA LiveFollows ==
  ASSUME NEW s, NEW t, NEW H, NEW u, NEW strange, LiveStand(s, H, u, strange),
         \A k \in Nodes : LiveAsIn(t, s, k)
  PROVE  LiveStand(t, H, u, strange)
  BY DEF LiveStand, LiveAsIn

LEMMA UndoStep ==
  ASSUME NEW s, NEW H, NEW d, NEW u, NEW m, NEW strange, NEW x, InStep(s, H, d, u, m, strange, x), d > 0
  PROVE  LET t == Run(s, H[d].undo) IN
         /\ Follows(s, t, After(H[d]), H[d].before, u[d], x)
         /\ InStep(t, H, d - 1, u, m, strange, x)
<1> DEFINE t == Run(s, H[d].undo)
           e == u[d]
           b == H[d].before
           a == After(H[d])
<1>0. /\ Len(H) \in Nat /\ d \in 1..Len(H) /\ d - 1 \in 0..Len(H) /\ d \in 0..Len(H) /\ Chain(H, u, s.inside, x)
      /\ s \in SceneRecord /\ Rooted(s)
  <2>1. Chain(H, u, s.inside, x) /\ d \in 0..Len(H) /\ s \in SceneRecord /\ Rooted(s)
    BY DEF InStep
  <2>2. Len(H) \in Nat
    BY <2>1, UptoIs
  <2> QED BY <2>1, <2>2
<1>1. Shaped(H[d], e, s.inside, x) /\ Parted(b, Upto(u, d-1)) /\ a = Run(b, H[d].do)
  BY <1>0 DEF Chain, After
<1>2. SameTree(s, a, e)
  BY CanUndo
<1>3. Follows(s, t, a, b, e, x)
  BY <1>0, <1>1, <1>2, Undone
<1>4. /\ Upto(u, d) = e /\ e \in Nat /\ e \in Nodes /\ e <= MaxNodes
      /\ Upto(u, d-1) \in Nat /\ Upto(u, d-1) <= e
      /\ m = Upto(u, Len(H)) /\ m \in Nat /\ e <= m
  <2>1. Upto(u, d) = e /\ e \in Nat /\ Upto(u, d-1) \in Nat /\ Upto(u, d) \in Nodes
    BY <1>0, UptoIs
  <2>2. Upto(u, d-1) <= Upto(u, d) /\ Upto(u, d) <= Upto(u, Len(H))
    <3>1. d - 1 <= d /\ d <= Len(H) /\ Len(H) \in 0..Len(H)
      BY <1>0
    <3> QED BY <1>0, <3>1, UptoIs
  <2>3. m = Upto(u, Len(H)) /\ m \in Nodes
    BY DEF InStep
  <2> QED BY <2>1, <2>2, <2>3, NodesAre, BoundsAssumption
<1>5. /\ Stands(s, H, u, d) /\ Bare(s, m) /\ Owned(s, x)
      /\ LinksStand(s, H, d, strange) /\ LiveStand(s, H, u, strange) /\ m \in Nodes
  BY DEF InStep
<1>6. Alike(At(H, d-1), b, 0..Upto(u, d-1))
  <2>1. d - 1 \in 0..(Len(H)-1) /\ (d-1) + 1 = d
    BY <1>0
  <2> QED BY <1>0, <2>1 DEF Chain
<1> HIDE DEF t, e, b, a
<1>7. t \in SceneRecord /\ SameTree(t, b, e)
  BY <1>2, <1>3, TreeFollows DEF Follows
<1>8. Alike(t, b, 0..e) /\ Parted(t, e) /\ Rooted(t)
  BY <1>7 DEF SameTree
<1>9. Alike(s, t, (e+1)..MaxNodes)
  BY <1>0, <1>3, <1>4, FollowsBeyond
<1>10. Bare(t, m)
  BY <1>0, <1>3, <1>4, <1>5, BareFollows
<1>11. Owned(t, x) /\ t.inside = s.inside
  BY <1>3, <1>5 DEF Follows
<1>12. /\ \A j \in (d+1)..Len(H) : Alike(t, H[j].before, (Upto(u, j-1)+1)..u[j])
       /\ \A j \in d..Len(H) : Parted(t, Upto(u, j))
  <2>1. Parted(t, u[d]) /\ Alike(s, t, (u[d]+1)..MaxNodes)
    BY <1>8, <1>9 DEF e
  <2> QED BY <1>0, <1>5, <2>1, BeyondStands DEF Stands
<1>13. Parted(t, Upto(u, d-1))
  BY <1>1, <1>4, <1>8, PartedWithin
<1>14. Stands(t, H, u, d-1)
  <2>1. Alike(t, At(H, d-1), 0..Upto(u, d-1))
    <3> DEFINE o == At(H, d-1)
               c == Upto(u, d-1)
    <3>1. Alike(o, b, 0..c) /\ c \in Nat /\ c <= e
      BY <1>4, <1>6
    <3> HIDE DEF o, c
    <3>2. \A k \in 0..c : k \in 0..e
      BY <1>4, <3>1
    <3>3. Alike(t, o, 0..c)
      BY <1>8, <3>1, <3>2 DEF Alike
    <3> QED BY <3>3 DEF o, c
  <2>2. ASSUME NEW j \in ((d-1)+1)..Len(H) PROVE Alike(t, H[j].before, (Upto(u, j-1)+1)..u[j])
    <3>1. CASE j = d
      <4>1. \A k \in (Upto(u, d-1)+1)..e : k \in 0..e
        BY <1>4
      <4>2. Alike(t, b, (Upto(u, d-1)+1)..e)
        BY <1>8, <4>1 DEF Alike
      <4> QED BY <3>1, <4>2 DEF b, e
    <3>2. CASE j # d
      <4>1. j \in (d+1)..Len(H)
        BY <1>0, <3>2
      <4> QED BY <1>12, <4>1
    <3> QED BY <3>1, <3>2
  <2>3. ASSUME NEW j \in (d-1)..Len(H) PROVE Parted(t, Upto(u, j))
    <3>1. CASE j = d - 1
      BY <1>13, <3>1
    <3>2. CASE j # d - 1
      <4>1. j \in d..Len(H)
        BY <1>0, <3>2
      <4> QED BY <1>12, <4>1
    <3> QED BY <3>1, <3>2
  <2> QED BY <2>1, <2>2, <2>3 DEF Stands
<1>15. LinksStand(t, H, d-1, strange)
  <2>1. SUFFICES ASSUME NEW w \in Wires, <<"link", w>> \notin strange
                 PROVE  /\ \A j \in 0..(Len(H)-1) : At(H, j).link[w] = H[j+1].before.link[w]
                        /\ t.link[w] = At(H, d-1).link[w]
    BY DEF LinksStand
  <2>2. /\ \A j \in 0..(Len(H)-1) : At(H, j).link[w] = H[j+1].before.link[w]
        /\ s.link[w] = At(H, d).link[w]
    BY <1>5, <2>1 DEF LinksStand
  <2>3. d - 1 \in 0..(Len(H)-1) /\ (d-1) + 1 = d /\ d # 0
    BY <1>0
  <2>4. At(H, d-1).link[w] = b.link[w] /\ At(H, d) = a
    BY <2>2, <2>3 DEF b, a, At
  <2>5. t.link[w] = b.link[w]
    BY <1>3, <2>2, <2>4 DEF Follows, LinksFollow
  <2> QED BY <2>2, <2>4, <2>5
<1>16. LiveStand(t, H, u, strange)
  BY <1>3, <1>5, LiveFollows DEF Follows, GroupsFollow
<1>17. InStep(t, H, d-1, u, m, strange, x)
  BY <1>0, <1>4, <1>5, <1>7, <1>8, <1>10, <1>11, <1>14, <1>15, <1>16 DEF InStep
<1> QED BY <1>3, <1>17 DEF t, e, b, a

LEMMA RedoStep ==
  ASSUME NEW s, NEW H, NEW d, NEW u, NEW m, NEW strange, NEW x, InStep(s, H, d, u, m, strange, x), d < Len(H)
  PROVE  LET t == Run(s, H[d+1].do) IN
         /\ Follows(s, t, H[d+1].before, After(H[d+1]), u[d+1], x)
         /\ InStep(t, H, d + 1, u, m, strange, x)
<1> DEFINE f == d + 1
           t == Run(s, H[f].do)
           e == u[f]
           b == H[f].before
           a == After(H[f])
<1>0. /\ Len(H) \in Nat /\ f \in 1..Len(H) /\ d \in 0..Len(H) /\ f \in 0..Len(H) /\ d \in 0..(Len(H)-1)
      /\ Chain(H, u, s.inside, x) /\ s \in SceneRecord /\ Rooted(s)
  <2>1. Chain(H, u, s.inside, x) /\ d \in 0..Len(H) /\ s \in SceneRecord /\ Rooted(s)
    BY DEF InStep
  <2>2. Len(H) \in Nat
    BY <2>1, UptoIs
  <2> QED BY <2>1, <2>2
<1>1. Shaped(H[f], e, s.inside, x) /\ a = Run(b, H[f].do)
  BY <1>0 DEF Chain, After
<1>2. SameTree(s, b, e)
  BY CanRedo
<1>3. Follows(s, t, b, a, e, x)
  BY <1>0, <1>1, <1>2, Redone
<1>4. /\ Upto(u, f) = e /\ e \in Nat /\ e \in Nodes /\ e <= MaxNodes
      /\ m = Upto(u, Len(H)) /\ m \in Nat /\ e <= m
  <2>1. Upto(u, f) = e /\ e \in Nat /\ Upto(u, f) \in Nodes
    BY <1>0, UptoIs
  <2>2. Upto(u, f) <= Upto(u, Len(H))
    <3>1. f <= Len(H) /\ Len(H) \in 0..Len(H)
      BY <1>0
    <3> QED BY <1>0, <3>1, UptoIs
  <2>3. m = Upto(u, Len(H)) /\ m \in Nodes
    BY DEF InStep
  <2> QED BY <2>1, <2>2, <2>3, NodesAre, BoundsAssumption
<1>5. /\ Stands(s, H, u, d) /\ Bare(s, m) /\ Owned(s, x)
      /\ LinksStand(s, H, d, strange) /\ LiveStand(s, H, u, strange) /\ m \in Nodes
  BY DEF InStep
<1>6. At(H, f) = a
  BY <1>0 DEF At
<1> HIDE DEF t, e, b, a
<1>7. t \in SceneRecord /\ SameTree(t, a, e)
  BY <1>2, <1>3, TreeFollows DEF Follows
<1>8. Alike(t, a, 0..e) /\ Parted(t, e) /\ Rooted(t)
  BY <1>7 DEF SameTree
<1>9. Alike(s, t, (e+1)..MaxNodes)
  BY <1>0, <1>3, <1>4, FollowsBeyond
<1>10. Bare(t, m)
  BY <1>0, <1>3, <1>4, <1>5, BareFollows
<1>11. Owned(t, x) /\ t.inside = s.inside
  BY <1>3, <1>5 DEF Follows
<1>12. Stands(t, H, u, f)
  <2>1. Parted(t, u[f]) /\ Alike(s, t, (u[f]+1)..MaxNodes)
    BY <1>8, <1>9 DEF e
  <2>2. \A j \in (f+1)..Len(H) : Alike(s, H[j].before, (Upto(u, j-1)+1)..u[j])
    <3>1. \A j \in (f+1)..Len(H) : j \in (d+1)..Len(H)
      BY <1>0
    <3> QED BY <1>5, <3>1 DEF Stands
  <2>3. \A j \in f..Len(H) : Parted(s, Upto(u, j))
    <3>1. \A j \in f..Len(H) : j \in d..Len(H)
      BY <1>0
    <3> QED BY <1>5, <3>1 DEF Stands
  <2> HIDE DEF f
  <2>4. /\ \A j \in (f+1)..Len(H) : Alike(t, H[j].before, (Upto(u, j-1)+1)..u[j])
        /\ \A j \in f..Len(H) : Parted(t, Upto(u, j))
    BY <1>0, <2>1, <2>2, <2>3, BeyondStands
  <2>5. Alike(t, At(H, f), 0..Upto(u, f))
    BY <1>4, <1>6, <1>8
  <2> QED BY <2>4, <2>5 DEF Stands
<1>13. LinksStand(t, H, f, strange)
  <2>1. SUFFICES ASSUME NEW w \in Wires, <<"link", w>> \notin strange
                 PROVE  /\ \A j \in 0..(Len(H)-1) : At(H, j).link[w] = H[j+1].before.link[w]
                        /\ t.link[w] = At(H, f).link[w]
    BY DEF LinksStand
  <2>2. /\ \A j \in 0..(Len(H)-1) : At(H, j).link[w] = H[j+1].before.link[w]
        /\ s.link[w] = At(H, d).link[w]
    BY <1>5, <2>1 DEF LinksStand
  <2>3. s.link[w] = b.link[w]
    BY <1>0, <2>2 DEF b
  <2>4. t.link[w] = a.link[w]
    BY <1>3, <2>3 DEF Follows, LinksFollow
  <2> QED BY <1>6, <2>2, <2>4
<1>14. LiveStand(t, H, u, strange)
  BY <1>3, <1>5, LiveFollows DEF Follows, GroupsFollow
<1>15. InStep(t, H, f, u, m, strange, x)
  <2> HIDE DEF f
  <2> QED BY <1>0, <1>4, <1>5, <1>7, <1>8, <1>10, <1>11, <1>12, <1>13, <1>14 DEF InStep
<1> QED BY <1>3, <1>15 DEF t, e, b, a

LEMMA CellIs ==
  ASSUME NEW c \in Cells
  PROVE  \/ \E k \in Nodes : c = <<"parent", k>>
         \/ \E k \in Nodes : c = <<"owned", k>>
         \/ \E k \in Nodes : c = <<"inside", k>>
         \/ \E k \in Nodes : c = <<"group", k>>
         \/ \E v \in Nodes \X Keys : c = <<"value", v>>
         \/ \E w \in Wires : c = <<"link", w>>
  BY DEF Cells

LEMMA FollowsRestores ==
  ASSUME NEW h, NEW now \in SceneRecord, NEW then, NEW from \in SceneRecord, NEW to, NEW m \in Nodes,
         \/ from = h.before /\ to = After(h)
         \/ from = After(h) /\ to = h.before,
         Follows(now, then, from, to, m, misowned),
         \A w \in Wires : <<"link", w>> \notin strays => now.link[w] = from.link[w],
         \A k \in 0..m : <<"group", k>> \notin strays => LiveAsIn(now, from, k)
  PROVE  Restores(now, then, h, to)
<1> DEFINE Good(c) == \/ Cell(then, c) = Cell(to, c)
                      \/ Cell(then, c) = Cell(now, c) /\ Cell(from, c) = Cell(to, c)
<1>1. SUFFICES ASSUME NEW c \in Cells, ~Exempt(c, to) PROVE Good(c)
  BY DEF Restores
<1>2. /\ ParentsFollow(now, then, from, to, m) /\ LinksFollow(now, then, from, to)
      /\ GroupsFollow(now, then, from, to, m) /\ ValuesFollow(now, then, from, to)
      /\ OwnersFollow(now, then, from, to, m, misowned)
      /\ then.inside = now.inside /\ to.inside = from.inside
      /\ then \in SceneRecord /\ to \in SceneRecord
  BY DEF Follows
<1>3. ASSUME NEW k \in Nodes, c = <<"parent", k>> PROVE Good(c)
  <2>1. \A s : Cell(s, c) = s.parent[k]
    BY <1>3 DEF Cell
  <2>2. CASE then.parent = now.parent /\ to.parent = from.parent
    BY <2>1, <2>2
  <2>3. ASSUME NEW n \in 1..m, NEW q, then.parent = [now.parent EXCEPT ![n] = q], to.parent = [from.parent EXCEPT ![n] = q]
        PROVE  Good(c)
    <3>1. now.parent \in [Nodes -> Nodes \cup {None}] /\ from.parent \in [Nodes -> Nodes \cup {None}]
      BY DEF SceneRecord, Parents
    <3>2. \/ then.parent[k] = to.parent[k]
          \/ then.parent[k] = now.parent[k] /\ from.parent[k] = to.parent[k]
      <4>1. CASE k = n
        BY <2>3, <3>1, <4>1
      <4>2. CASE k # n
        BY <2>3, <3>1, <4>2
      <4> QED BY <4>1, <4>2
    <3> QED BY <2>1, <3>2
  <2> QED BY <1>2, <2>2, <2>3 DEF ParentsFollow
<1>4. ASSUME NEW k \in Nodes, c = <<"owned", k>> PROVE Good(c)
  <2>1. \A s : Cell(s, c) = s.owned[k]
    BY <1>4 DEF Cell
  <2>2. k \notin misowned
    BY <1>1, <1>4 DEF Exempt
  <2>3. \/ then.owned[k] = to.owned[k]
        \/ then.owned[k] = now.owned[k] /\ from.owned[k] = to.owned[k]
    BY <1>2, <2>2 DEF OwnersFollow
  <2> QED BY <2>1, <2>3
<1>5. ASSUME NEW k \in Nodes, c = <<"inside", k>> PROVE Good(c)
  <2>1. \A s : Cell(s, c) = s.inside[k]
    BY <1>5 DEF Cell
  <2> QED BY <1>2, <2>1
<1>6. ASSUME NEW k \in Nodes, c = <<"group", k>> PROVE Good(c)
  <2>1. \A s : Cell(s, c) = s.group[k]
    BY <1>6 DEF Cell
  <2>2. <<"group", k>> \notin strays /\ to.group[k] # "live"
    BY <1>1, <1>6 DEF Exempt
  <2>3. \/ then.group[k] = to.group[k]
        \/ then.group[k] = now.group[k] /\ from.group[k] = to.group[k]
    <3>1. CASE k <= m
      <4>1. k \in 0..m
        BY <3>1, NodesAre, BoundsAssumption
      <4>2. LiveAsIn(now, from, k)
        BY <2>2, <4>1
      <4> QED BY <1>2, <2>2, <4>1, <4>2 DEF GroupsFollow
    <3>2. CASE ~(k <= m)
      <4>1. k \in (m+1)..MaxNodes
        BY <3>2, NodesAre, BoundsAssumption
      <4> QED BY <1>2, <4>1 DEF GroupsFollow
    <3> QED BY <3>1, <3>2
  <2> QED BY <2>1, <2>3
<1>7. ASSUME NEW v \in Nodes \X Keys, c = <<"value", v>> PROVE Good(c)
  <2>1. \A s : Cell(s, c) = s.value[v]
    BY <1>7 DEF Cell
  <2>2. \/ then.value[v] = to.value[v]
        \/ then.value[v] = now.value[v] /\ from.value[v] = to.value[v]
    BY <1>2 DEF ValuesFollow
  <2> QED BY <2>1, <2>2
<1>8. ASSUME NEW w \in Wires, c = <<"link", w>> PROVE Good(c)
  <2>1. \A s : Cell(s, c) = s.link[w]
    BY <1>8 DEF Cell
  <2>2. <<"link", w>> \notin strays
    BY <1>1, <1>8 DEF Exempt
  <2> QED BY <1>2, <2>1, <2>2 DEF LinksFollow
<1> QED BY <1>3, <1>4, <1>5, <1>6, <1>7, <1>8, CellIs

LEMMA UndoRestores ==
  ASSUME NEW u, InStep(scene, history, done, u, made, strays, misowned), done > 0
  PROVE  Restores(scene, Run(scene, history[done].undo), history[done], history[done].before)
<1> DEFINE h == history[done]
           t == Run(scene, h.undo)
           m == u[done]
<1>0. /\ done \in 1..Len(history) /\ done \in 0..Len(history) /\ Chain(history, u, scene.inside, misowned) /\ scene \in SceneRecord
      /\ LinksStand(scene, history, done, strays) /\ LiveStand(scene, history, u, strays)
  <2>1. Chain(history, u, scene.inside, misowned) /\ done \in 0..Len(history)
    BY DEF InStep
  <2>2. Len(history) \in Nat
    BY <2>1, UptoIs
  <2> QED BY <2>1, <2>2 DEF InStep
<1>1. Follows(scene, t, After(h), h.before, m, misowned)
  BY UndoStep
<1>2. m \in Nodes /\ After(h) \in SceneRecord /\ At(history, done) = After(h)
  BY <1>0 DEF Chain, At
<1>3. \A w \in Wires : <<"link", w>> \notin strays => scene.link[w] = After(h).link[w]
  BY <1>0, <1>2 DEF LinksStand
<1>4. \A k \in 0..m : <<"group", k>> \notin strays => LiveAsIn(scene, After(h), k)
  <2>1. TAKE k \in 0..m
  <2>2. k \in Nodes /\ k <= m
    BY <1>2, NodesAre, BoundsAssumption
  <2> QED BY <1>0, <2>2 DEF LiveStand, LiveAsIn
<1> HIDE DEF h, t, m
<1>5. Restores(scene, t, h, h.before)
  BY <1>0, <1>1, <1>2, <1>3, <1>4, FollowsRestores
<1> QED BY <1>5 DEF h, t

LEMMA RedoRestores ==
  ASSUME NEW u, InStep(scene, history, done, u, made, strays, misowned), done < Len(history)
  PROVE  Restores(scene, Run(scene, history[done+1].do), history[done+1], After(history[done+1]))
<1> DEFINE h == history[done+1]
           t == Run(scene, h.do)
           m == u[done+1]
<1>0. /\ done + 1 \in 1..Len(history) /\ done \in 0..(Len(history)-1)
      /\ Chain(history, u, scene.inside, misowned) /\ scene \in SceneRecord
      /\ LinksStand(scene, history, done, strays) /\ LiveStand(scene, history, u, strays)
  <2>1. Chain(history, u, scene.inside, misowned) /\ done \in 0..Len(history)
    BY DEF InStep
  <2>2. Len(history) \in Nat
    BY <2>1, UptoIs
  <2> QED BY <2>1, <2>2 DEF InStep
<1>1. Follows(scene, t, h.before, After(h), m, misowned)
  BY RedoStep
<1>2. m \in Nodes /\ h.before \in SceneRecord
  BY <1>0 DEF Chain, Shaped
<1>3. \A w \in Wires : <<"link", w>> \notin strays => scene.link[w] = h.before.link[w]
  BY <1>0 DEF LinksStand
<1>4. \A k \in 0..m : <<"group", k>> \notin strays => LiveAsIn(scene, h.before, k)
  <2>1. TAKE k \in 0..m
  <2>2. k \in Nodes /\ k <= m
    BY <1>2, NodesAre, BoundsAssumption
  <2> QED BY <1>0, <2>2 DEF LiveStand, LiveAsIn
<1> HIDE DEF h, t, m
<1>5. Restores(scene, t, h, After(h))
  BY <1>0, <1>1, <1>2, <1>3, <1>4, FollowsRestores
<1> QED BY <1>5 DEF h, t

Appended(G, H, d, h) ==
  /\ Len(G) = d + 1 /\ \E T : G \in Seq(T)
  /\ G[d+1] = h /\ \A j \in 1..d : G[j] = H[j]

LEMMA AppendedIs ==
  ASSUME NEW S, NEW H \in Seq(S), NEW d \in 0..Len(H), NEW h
  PROVE  Appended(Append(SubSeq(H, 1, d), h), H, d, h)
<1> DEFINE P == SubSeq(H, 1, d)
           T == S \cup {h}
<1>1. P \in Seq(S) /\ Len(P) = d /\ \A j \in 1..d : P[j] = H[j]
  BY SubSeqProperties
<1>2. P \in Seq(T) /\ h \in T
  BY <1>1
<1> HIDE DEF P, T
<1>3. /\ Append(P, h) \in Seq(T) /\ Len(Append(P, h)) = d + 1
      /\ Append(P, h)[d+1] = h /\ \A j \in 1..d : Append(P, h)[j] = P[j]
  BY <1>1, <1>2, AppendProperties
<1> DEFINE G == Append(P, h)
<1> HIDE DEF G
<1>4. Appended(G, H, d, h)
  BY <1>1, <1>3 DEF Appended, G
<1> QED BY <1>4 DEF P, G

\* The scene b a tool has prepared: the nodes up to m as in s, those up to n new.
ReadyFrom(s, b, m, n) ==
  /\ b \in SceneRecord /\ b.owned = s.owned /\ b.link = s.link
  /\ \A k \in Nodes : s.inside[k] => b.inside[k]
  /\ \A k \in 0..m : b.group[k] = s.group[k]
  /\ SameTree(b, s, m) /\ SameTree(b, b, n) /\ Bare(b, n)
  /\ m <= n

LEMMA CommitStep ==
  ASSUME NEW s, NEW H, NEW d, NEW u, NEW m, NEW strange, NEW x, InStep(s, H, d, u, m, strange, x),
         NEW h, NEW n, ReadyFrom(s, h.before, m, n),
         NEW y, x \subseteq y, Shaped(h, n, h.before.inside, y)
  PROVE  \E v : InStep(Run(h.before, h.do), Append(SubSeq(H, 1, d), h), d + 1, v, n, strange, y)
<1> DEFINE b == h.before
           t == Run(b, h.do)
           H2 == Append(SubSeq(H, 1, d), h)
           v == [j \in 1..(d+1) |-> IF j = d + 1 THEN n ELSE u[j]]
           f == d + 1
<1>0. /\ s \in SceneRecord /\ Rooted(s) /\ Owned(s, x)
      /\ m = Upto(u, Len(H)) /\ m \in Nodes /\ d \in 0..Len(H)
      /\ Chain(H, u, s.inside, x) /\ Stands(s, H, u, d)
      /\ LinksStand(s, H, d, strange) /\ LiveStand(s, H, u, strange)
  BY DEF InStep
<1>1. /\ b \in SceneRecord /\ b.owned = s.owned /\ b.link = s.link
      /\ \A k \in Nodes : s.inside[k] => b.inside[k]
      /\ \A k \in 0..m : b.group[k] = s.group[k]
      /\ SameTree(b, s, m) /\ SameTree(b, b, n) /\ Bare(b, n)
      /\ m <= n /\ n \in Nodes /\ n \in Nat /\ m \in Nat
  BY <1>0, NodesAre, BoundsAssumption DEF ReadyFrom, SameTree
<1>2. /\ Len(H) \in Nat /\ d \in Nat
      /\ \A j \in 0..Len(H) : Upto(u, j) \in Nodes /\ Upto(u, j) \in Nat
      /\ \A i, j \in 0..Len(H) : i <= j => Upto(u, i) <= Upto(u, j)
      /\ \A j \in 1..Len(H) : Upto(u, j) = u[j] /\ u[j] \in Nat /\ u[j] \in Nodes
  <2>1. Len(H) \in Nat
    BY <1>0, UptoIs
  <2>2. \A j \in 1..Len(H) : u[j] \in Nodes
    BY <1>0 DEF Chain
  <2>3. d \in Nat
    BY <1>0, <2>1
  <2> QED BY <1>0, <2>1, <2>2, <2>3, UptoIs
<1>3. /\ Len(H2) = f /\ \E T : H2 \in Seq(T)
      /\ H2[f] = h /\ \A j \in 1..d : H2[j] = H[j]
  <2>1. PICK S : H \in Seq(S)
    BY <1>0 DEF Chain
  <2>2. d \in 0..Len(H)
    BY <1>0
  <2>3. Appended(Append(SubSeq(H, 1, d), h), H, d, h)
    BY <2>1, <2>2, AppendedIs
  <2>4. Appended(H2, H, d, h)
    BY <2>3
  <2> HIDE DEF H2
  <2> QED BY <2>4 DEF Appended
<1>4. /\ v \in [1..Len(H2) -> Nodes] /\ v[f] = n /\ \A j \in 1..d : v[j] = u[j]
  <2>1. 1..Len(H2) = 1..f /\ f \in 1..f
    BY <1>2, <1>3
  <2>2. \A j \in 1..d : j \in 1..f /\ j # f /\ j \in 1..Len(H)
    BY <1>0, <1>2
  <2>3. \A j \in 1..f : j = f \/ j \in 1..d
    BY <1>2
  <2>4. v \in [1..f -> Nodes]
    BY <1>1, <1>2, <2>2, <2>3
  <2> QED BY <2>1, <2>2, <2>4
<1> HIDE DEF H2, v
<1>5. /\ \A j \in 0..d : Upto(v, j) = Upto(u, j) /\ At(H2, j) = At(H, j)
      /\ Upto(v, f) = n /\ At(H2, f) = t
  BY <1>2, <1>3, <1>4 DEF Upto, At, After
<1>6. Follows(b, t, b, t, n, y)
  BY <1>1, Redone
<1>7. t \in SceneRecord /\ SameTree(t, t, n)
  BY <1>1, <1>6, TreeFollows DEF Follows
<1>8. Rooted(t) /\ Parted(t, n) /\ t.inside = b.inside /\ After(h) = t
  BY <1>6, <1>7 DEF SameTree, Follows, After
<1> HIDE DEF t, b
<1>9. Bare(t, n)
  <2>1. n <= n
    BY <1>1
  <2> QED BY <1>1, <1>6, <2>1, BareFollows
<1>10. Owned(t, y)
  <2>1. Placed(b) = Placed(s)
    BY <1>1, SameTreeIs
  <2>2. Owned(b, y)
    <3>1. SUFFICES ASSUME NEW k \in Placed(b) \ {Root} PROVE b.owned[k] \/ b.inside[k] \/ k \in y
      BY DEF Owned
    <3>2. s.owned[k] \/ s.inside[k] \/ k \in x
      BY <1>0, <2>1 DEF Owned
    <3>3. k \in Nodes
      BY BranchIs
    <3> QED BY <1>1, <3>2, <3>3
  <2> QED BY <1>6, <2>2 DEF Follows
<1>11. \A j \in 0..d : Upto(u, j) <= m /\ j \in 0..Len(H)
  <2>1. TAKE j \in 0..d
  <2>2. j \in 0..Len(H) /\ Len(H) \in 0..Len(H) /\ j <= Len(H)
    BY <1>0, <1>2
  <2> QED BY <1>0, <1>2, <2>2
<1>12. Chain(H2, v, t.inside, y)
  <2>1. ASSUME NEW i \in 0..Len(H2), NEW j \in 0..Len(H2), i <= j PROVE Upto(v, i) <= Upto(v, j)
    <3>1. CASE j \in 0..d
      <4>1. i \in 0..d /\ i \in 0..Len(H) /\ j \in 0..Len(H)
        BY <1>0, <1>2, <2>1, <3>1
      <4> QED BY <1>2, <1>5, <2>1, <3>1, <4>1
    <3>2. CASE j \notin 0..d
      <4>1. j = f
        BY <1>2, <1>3, <3>2
      <4>2. CASE i = f
        BY <1>1, <1>5, <4>1, <4>2
      <4>3. CASE i # f
        <5>1. i \in 0..d
          BY <1>2, <1>3, <4>3
        <5>2. Upto(u, i) <= m /\ Upto(u, i) \in Nat
          BY <1>2, <1>11, <5>1
        <5> QED BY <1>1, <1>5, <4>1, <5>1, <5>2
      <4> QED BY <4>2, <4>3
    <3> QED BY <3>1, <3>2
  <2>2. ASSUME NEW j \in 1..Len(H2)
        PROVE  /\ Shaped(H2[j], v[j], t.inside, y)
               /\ Parted(H2[j].before, Upto(v, j-1))
               /\ After(H2[j]) \in SceneRecord /\ SameTree(After(H2[j]), After(H2[j]), v[j])
    <3>1. CASE j = f
      <4>1. j - 1 = d /\ d \in 0..d /\ d \in d..Len(H)
        BY <1>0, <1>2, <3>1
      <4>2. Upto(v, j-1) = Upto(u, d) /\ Upto(u, d) <= m /\ Upto(u, d) \in Nat /\ Parted(s, Upto(u, d))
        BY <1>0, <1>2, <1>5, <1>11, <4>1 DEF Stands
      <4>3. Parted(b, m) /\ Alike(b, s, 0..m) /\ m <= MaxNodes
        BY <1>0, <1>1, NodesAre, BoundsAssumption DEF SameTree
      <4>4. Parted(b, Upto(u, d))
        BY <1>1, <4>2, <4>3, PartedWithin
      <4> QED BY <1>3, <1>4, <1>7, <1>8, <3>1, <4>2, <4>4 DEF b
    <3>2. CASE j # f
      <4>1. j \in 1..d /\ j \in 1..Len(H) /\ j - 1 \in 0..d
        BY <1>0, <1>2, <1>3, <3>2
      <4>2. /\ Shaped(H[j], u[j], s.inside, x)
            /\ Parted(H[j].before, Upto(u, j-1))
            /\ After(H[j]) \in SceneRecord /\ SameTree(After(H[j]), After(H[j]), u[j])
        BY <1>0, <4>1 DEF Chain
      <4>3. Shaped(H[j], u[j], t.inside, y)
        BY <1>1, <1>8, <4>2, StillShaped
      <4> QED BY <1>3, <1>4, <1>5, <4>1, <4>2, <4>3
    <3> QED BY <3>1, <3>2
  <2>3. ASSUME NEW j \in 0..(Len(H2)-1) PROVE Alike(At(H2, j), H2[j+1].before, 0..Upto(v, j))
    <3>0. j \in 0..d /\ At(H2, j) = At(H, j) /\ Upto(v, j) = Upto(u, j)
      BY <1>2, <1>3, <1>5
    <3>1. CASE j = d
      <4>1. Alike(s, At(H, d), 0..Upto(u, d)) /\ Alike(b, s, 0..m)
        BY <1>0, <1>1 DEF Stands, SameTree
      <4>2. \A k \in 0..Upto(u, d) : k \in 0..m
        BY <1>1, <1>2, <1>11, <3>0, <3>1
      <4>3. Alike(At(H, d), b, 0..Upto(u, d))
        BY <4>1, <4>2 DEF Alike
      <4> QED BY <1>3, <3>0, <3>1, <4>3 DEF b
    <3>2. CASE j # d
      <4>1. j \in 0..(Len(H)-1) /\ j + 1 \in 1..d
        BY <1>0, <1>2, <3>0, <3>2
      <4>2. Alike(At(H, j), H[j+1].before, 0..Upto(u, j))
        BY <1>0, <4>1 DEF Chain
      <4> QED BY <1>3, <3>0, <4>1, <4>2
    <3> QED BY <3>1, <3>2
  <2> QED BY <1>3, <1>4, <2>1, <2>2, <2>3 DEF Chain
<1>13. Stands(t, H2, v, f)
  <2>1. Alike(t, At(H2, f), 0..Upto(v, f))
    BY <1>5 DEF Alike
  <2>2. \A j \in (f+1)..Len(H2) : FALSE
    BY <1>2, <1>3
  <2>3. \A j \in f..Len(H2) : Parted(t, Upto(v, j))
    <3>1. \A j \in f..Len(H2) : j = f
      BY <1>2, <1>3
    <3> QED BY <1>5, <1>8, <3>1
  <2> QED BY <2>1, <2>2, <2>3 DEF Stands
<1>14. LinksStand(t, H2, f, strange)
  <2>1. SUFFICES ASSUME NEW w \in Wires, <<"link", w>> \notin strange
                 PROVE  /\ \A j \in 0..(Len(H2)-1) : At(H2, j).link[w] = H2[j+1].before.link[w]
                        /\ t.link[w] = At(H2, f).link[w]
    BY DEF LinksStand
  <2>2. /\ \A j \in 0..(Len(H)-1) : At(H, j).link[w] = H[j+1].before.link[w]
        /\ s.link[w] = At(H, d).link[w]
    BY <1>0, <2>1 DEF LinksStand
  <2>3. ASSUME NEW j \in 0..(Len(H2)-1) PROVE At(H2, j).link[w] = H2[j+1].before.link[w]
    <3>0. j \in 0..d /\ At(H2, j) = At(H, j)
      BY <1>2, <1>3, <1>5
    <3>1. CASE j = d
      BY <1>1, <1>3, <2>2, <3>0, <3>1 DEF b
    <3>2. CASE j # d
      <4>1. j \in 0..(Len(H)-1) /\ j + 1 \in 1..d
        BY <1>0, <1>2, <3>0, <3>2
      <4> QED BY <1>3, <2>2, <3>0, <4>1
    <3> QED BY <3>1, <3>2
  <2> QED BY <1>5, <2>3
<1>15. LiveStand(t, H2, v, strange)
  <2>1. SUFFICES ASSUME NEW k \in Nodes, <<"group", k>> \notin strange, t.group[k] = "live",
                        NEW j \in 1..Len(H2), k <= v[j]
                 PROVE  H2[j].before.group[k] = "live" /\ After(H2[j]).group[k] = "live"
    BY DEF LiveStand
  <2>2. b.group[k] = "live"
    BY <1>6, <2>1 DEF Follows, GroupsFollow, LiveAsIn
  <2>3. CASE j = f
    BY <1>3, <1>8, <2>1, <2>2, <2>3 DEF b
  <2>4. CASE j # f
    <3>1. j \in 1..d /\ j \in 1..Len(H) /\ j \in 0..d
      BY <1>0, <1>2, <1>3, <2>4
    <3>2. k <= u[j] /\ Upto(u, j) <= m /\ Upto(u, j) = u[j] /\ u[j] \in Nat
      BY <1>2, <1>4, <1>11, <2>1, <3>1
    <3>3. k \in 0..m
      BY <1>1, <3>2, NodesAre, BoundsAssumption
    <3>4. s.group[k] = "live"
      BY <1>1, <2>2, <3>3
    <3> QED BY <1>0, <1>3, <2>1, <3>1, <3>2, <3>4 DEF LiveStand
  <2> QED BY <2>3, <2>4
<1>16. n = Upto(v, Len(H2)) /\ f \in 0..Len(H2)
  BY <1>2, <1>3, <1>5
<1>17. InStep(t, H2, f, v, n, strange, y)
  <2> HIDE DEF f
  <2> QED BY <1>1, <1>7, <1>8, <1>9, <1>10, <1>12, <1>13, <1>14, <1>15, <1>16 DEF InStep
<1> QED BY <1>17 DEF t, b, H2

-----------------------------------------------------------------------------
(* Every tool keeps the scene in step. *)

\* Until a node was moved below itself, the scene is in step with its history.
SceneInv == ~cutLoose => \E u : InStep(scene, history, done, u, made, strays, misowned)

LEMMA UndoInStep == ASSUME SceneInv, Undo PROVE SceneInv'
<1>1. SUFFICES ASSUME ~cutLoose PROVE \E u : InStep(scene', history, done - 1, u, made, strays, misowned)
  BY DEF SceneInv, Undo
<1>2. PICK u : InStep(scene, history, done, u, made, strays, misowned)
  BY <1>1 DEF SceneInv
<1>3. done > 0 /\ scene' = Run(scene, history[done].undo)
  BY DEF Undo
<1> QED BY <1>2, <1>3, UndoStep

LEMMA RedoInStep == ASSUME SceneInv, Redo PROVE SceneInv'
<1>1. SUFFICES ASSUME ~cutLoose PROVE \E u : InStep(scene', history, done + 1, u, made, strays, misowned)
  BY DEF SceneInv, Redo
<1>2. PICK u : InStep(scene, history, done, u, made, strays, misowned)
  BY <1>1 DEF SceneInv
<1>3. done < Len(history) /\ scene' = Run(scene, history[done+1].do)
  BY DEF Redo
<1> QED BY <1>2, <1>3, RedoStep

LEMMA ScenesMatch ==
  ASSUME NEW s, NEW H, NEW d, NEW u, NEW m, NEW strange, NEW x, InStep(s, H, d, u, m, strange, x)
  PROVE  SameTree(s, s, m)
<1>1. Len(H) \in Nat /\ d \in 0..Len(H) /\ m = Upto(u, Len(H)) /\ m \in Nodes /\ Rooted(s)
  BY UptoIs DEF InStep
<1>2. Len(H) \in d..Len(H)
  BY <1>1
<1>3. Parted(s, m)
  BY <1>1, <1>2 DEF InStep, Stands
<1> QED BY <1>1, <1>3 DEF SameTree, Alike

\* What a tool prepares is in step if it touches new nodes only.
LEMMA AdditionIsReady ==
  ASSUME NEW s, NEW H, NEW d, NEW u, NEW m, NEW strange, NEW x, InStep(s, H, d, u, m, strange, x),
         NEW b \in SceneRecord, NEW n \in Nodes, m <= n,
         Alike(b, s, 0..m), b.owned = s.owned, b.link = s.link,
         \A k \in Nodes : s.inside[k] => b.inside[k],
         \A k \in 0..m : b.group[k] = s.group[k],
         \A k \in (m+1)..n : b.parent[k] \in (m+1)..n \cup {None},
         \A k \in (n+1)..MaxNodes : b.parent[k] = None /\ ~b.inside[k]
  PROVE  /\ ReadyFrom(s, b, m, n)
         /\ Placed(b) = Placed(s) /\ Placed(s) \subseteq 0..m
         /\ \A k \in (m+1)..n : Branch(b, k) \subseteq (m+1)..MaxNodes /\ \A j \in Branch(b, k) : ~b.owned[j]
<1>1. m \in Nat /\ n \in Nat /\ n <= MaxNodes /\ m \in Nodes /\ Root = 0 /\ Bare(s, m) /\ Rooted(s)
  BY NodesAre, BoundsAssumption DEF InStep, Root
<1>2. SameTree(s, s, m)
  BY ScenesMatch
<1>3. \A k \in Nodes : k \in 0..m \/ k \in (m+1)..n \/ k \in (n+1)..MaxNodes
  BY <1>1, NodesAre, BoundsAssumption
<1>4. \A k \in 0..m : b.parent[k] = s.parent[k] /\ s.parent[k] \in 0..m \cup {None}
  BY <1>2 DEF Alike, SameTree, Parted
<1>5. Rooted(b)
  <2>1. b.parent \in Parents
    BY DEF SceneRecord
  <2>2. Root \in 0..m
    BY <1>1
  <2> QED BY <1>1, <1>4, <2>1, <2>2 DEF Rooted
<1>6. Parted(b, m)
  <2>1. ASSUME NEW k \in (m+1)..MaxNodes PROVE b.parent[k] \in (m+1)..MaxNodes \cup {None}
    <3>1. CASE k \in (m+1)..n
      <4>1. b.parent[k] \in (m+1)..n \cup {None}
        BY <3>1
      <4> QED BY <1>1, <4>1, BoundsAssumption
    <3>2. CASE k \in (n+1)..MaxNodes
      BY <3>2
    <3> QED BY <1>1, <3>1, <3>2, BoundsAssumption
  <2> QED BY <1>4, <2>1 DEF Parted
<1>7. Parted(b, n)
  <2>1. ASSUME NEW k \in 0..n PROVE b.parent[k] \in 0..n \cup {None}
    <3>1. CASE k \in 0..m
      <4>1. b.parent[k] \in 0..m \cup {None}
        BY <1>4, <3>1
      <4> QED BY <1>1, <4>1
    <3>2. CASE k \in (m+1)..n
      <4>1. b.parent[k] \in (m+1)..n \cup {None}
        BY <3>2
      <4> QED BY <1>1, <4>1
    <3> QED BY <1>1, <3>1, <3>2
  <2> QED BY <2>1 DEF Parted
<1>8. SameTree(b, s, m) /\ SameTree(b, b, n)
  BY <1>1, <1>2, <1>5, <1>6, <1>7 DEF SameTree, Alike
<1>9. \A k \in (m+1)..MaxNodes : ~b.owned[k]
  BY <1>1 DEF Bare
<1>10. Bare(b, n)
  <2>1. \A k \in (n+1)..MaxNodes : k \in (m+1)..MaxNodes
    BY <1>1
  <2> QED BY <1>9, <2>1 DEF Bare
<1>11. ASSUME NEW k \in (m+1)..n
       PROVE  Branch(b, k) \subseteq (m+1)..MaxNodes /\ \A j \in Branch(b, k) : ~b.owned[j]
  <2>1. SUFFICES ASSUME NEW j \in Branch(b, k) PROVE j \in (m+1)..MaxNodes
    BY <1>9
  <2>2. j \in Nodes /\ k \in Above(b, j)
    BY BranchIs
  <2>3. j \notin 0..m
    <3>1. k \notin 0..m
      BY <1>1
    <3>2. \A i \in 0..m : Above(b, i) \subseteq 0..m
      BY <1>8, SameTreeIs
    <3> QED BY <2>2, <3>1, <3>2
  <2> QED BY <1>1, <2>2, <2>3, NodesAre, BoundsAssumption
<1>12. Placed(b) = Placed(s) /\ Placed(s) \subseteq 0..m
  BY <1>2, <1>8, SameTreeIs
<1> QED BY <1>8, <1>10, <1>11, <1>12 DEF ReadyFrom

\* An action on the scene as it is.
LEMMA CommitInStep ==
  ASSUME NEW do, NEW undo, CommitFrom(scene, do, undo), made' = made, misowned \subseteq misowned',
         NEW u, InStep(scene, history, done, u, made, strays, misowned),
         Shaped([do |-> do, undo |-> undo, before |-> scene], made, scene.inside, misowned')
  PROVE  \E v : InStep(scene', history', done', v, made', strays', misowned')
<1> DEFINE h == [do |-> do, undo |-> undo, before |-> scene]
<1>1. h.before = scene /\ h.do = do
  OBVIOUS
<1>2. scene' = Run(scene, do) /\ history' = Append(SubSeq(history, 1, done), h) /\ done' = done + 1 /\ strays' = strays
  BY DEF CommitFrom
<1> HIDE DEF h
<1>3. ReadyFrom(scene, scene, made, made)
  <2>1. SameTree(scene, scene, made)
    BY ScenesMatch
  <2>2. made <= made
    <3>1. made \in Nat
      BY NodesAre, BoundsAssumption DEF InStep
    <3> QED BY <3>1
  <2> QED BY <2>1, <2>2 DEF ReadyFrom, InStep
<1>4. \E v : InStep(Run(h.before, h.do), Append(SubSeq(history, 1, done), h), done + 1, v, made, strays, misowned')
  <2>1. ReadyFrom(scene, h.before, made, made) /\ Shaped(h, made, h.before.inside, misowned')
    BY <1>1, <1>3 DEF h
  <2> QED BY <2>1, CommitStep
<1> QED BY <1>1, <1>2, <1>4

\* What holds of the scene an action on it starts from.
LEMMA InStepIs ==
  ASSUME NEW u, InStep(scene, history, done, u, made, strays, misowned)
  PROVE  /\ scene \in SceneRecord /\ SameTree(scene, scene, made) /\ Rooted(scene) /\ made \in Nodes /\ made \in Nat
         /\ Placed(scene) \subseteq 0..made /\ Placed(scene) \subseteq Nodes
         /\ \A n \in Placed(scene) \ {Root} : n \in 1..made
<1>1. scene \in SceneRecord /\ SameTree(scene, scene, made) /\ Rooted(scene) /\ made \in Nodes
  BY ScenesMatch DEF InStep
<1>2. Placed(scene) \subseteq 0..made /\ Placed(scene) \subseteq Nodes
  BY <1>1, SameTreeIs, RootIs
<1>3. made \in Nat
  BY <1>1, NodesAre, BoundsAssumption
<1>4. \A n \in 0..made : n # Root => n \in 1..made
  BY <1>3 DEF Root
<1> QED BY <1>1, <1>2, <1>3, <1>4

LEMMA SetOnInStep ==
  ASSUME NEW n \in Placed(scene), NEW k \in Keys, NEW v \in Values, SetOn(n, k, v), SceneInv
  PROVE  SceneInv'
<1>1. SUFFICES ASSUME ~cutLoose' PROVE \E u : InStep(scene', history', done', u, made', strays', misowned')
  BY DEF SceneInv
<1>2. /\ CommitFrom(scene, <<Put(n, k, v)>>, <<Put(n, k, scene.value[<<n, k>>])>>)
      /\ made' = made /\ misowned' = misowned /\ cutLoose' = cutLoose
  BY DEF SetOn, Commit
<1>3. PICK u : InStep(scene, history, done, u, made, strays, misowned)
  BY <1>1, <1>2 DEF SceneInv
<1> DEFINE h == [do |-> <<Put(n, k, v)>>, undo |-> <<Put(n, k, scene.value[<<n, k>>])>>, before |-> scene]
<1>4. n \in Nodes /\ scene \in SceneRecord /\ SameTree(scene, scene, made)
  BY <1>3, InStepIs
<1>5. Setting(h, n, k, v)
  BY <1>4 DEF Setting
<1>6. Shaped(h, made, scene.inside, misowned')
  <2>1. h.before = scene
    OBVIOUS
  <2> HIDE DEF h
  <2> QED BY <1>4, <1>5, <2>1 DEF Shaped
<1> QED BY <1>2, <1>3, <1>6, CommitInStep

LEMMA SettersInStep == ASSUME SceneInv, NodeRename \/ SetProperty \/ ScriptAttach PROVE SceneInv'
  BY SetOnInStep, KeysAssumption DEF NodeRename, SetProperty, ScriptAttach

LEMMA WiresInStep == ASSUME SceneInv, ConnectPersisted \/ Disconnect PROVE SceneInv'
<1>1. ASSUME NEW do, NEW undo, Commit(do, undo), NEW w \in Wires, NEW flag \in {"saved", "saved deferred"},
             \/ /\ scene.link[w] = "none"
                /\ do = <<Wire("connect", w, flag)>> /\ undo = <<Wire("disconnect", w, "none")>>
             \/ /\ scene.link[w] = flag
                /\ do = <<Wire("disconnect", w, "none")>> /\ undo = <<Wire("connect", w, flag)>>
      PROVE  SceneInv'
  <2>1. SUFFICES ASSUME ~cutLoose' PROVE \E u : InStep(scene', history', done', u, made', strays', misowned')
    BY DEF SceneInv
  <2>2. CommitFrom(scene, do, undo) /\ made' = made /\ misowned' = misowned /\ cutLoose' = cutLoose
    BY <1>1 DEF Commit
  <2>3. PICK u : InStep(scene, history, done, u, made, strays, misowned)
    BY <2>1, <2>2 DEF SceneInv
  <2> DEFINE h == [do |-> do, undo |-> undo, before |-> scene]
  <2>4. h.before = scene /\ h.do = do /\ h.undo = undo
    OBVIOUS
  <2>5. Wiring(h, w, flag)
    <3> HIDE DEF h
    <3> QED BY <1>1, <2>4 DEF Wiring
  <2>6. scene \in SceneRecord /\ SameTree(scene, scene, made)
    BY <2>3, InStepIs
  <2>7. Shaped(h, made, scene.inside, misowned')
    <3> HIDE DEF h
    <3> QED BY <2>4, <2>5, <2>6 DEF Shaped
  <2> QED BY <2>2, <2>3, <2>7, CommitInStep
<1>2. CASE ConnectPersisted
  BY <1>1, <1>2 DEF ConnectPersisted
<1>3. CASE Disconnect
  BY <1>1, <1>3 DEF Disconnect
<1> QED BY <1>2, <1>3

LEMMA GroupsInStep == ASSUME SceneInv, GroupAdd \/ GroupRemove PROVE SceneInv'
<1>1. ASSUME NEW do, NEW undo, Commit(do, undo), NEW n \in Placed(scene),
             \/ /\ scene.group[n] = "out"
                /\ do = <<On("add_to_group", n, Root)>> /\ undo = <<On("remove_from_group", n, Root)>>
             \/ /\ scene.group[n] # "out"
                /\ do = <<On("remove_from_group", n, Root)>> /\ undo = <<On("add_to_group", n, Root)>>
      PROVE  SceneInv'
  <2>1. SUFFICES ASSUME ~cutLoose' PROVE \E u : InStep(scene', history', done', u, made', strays', misowned')
    BY DEF SceneInv
  <2>2. CommitFrom(scene, do, undo) /\ made' = made /\ misowned' = misowned /\ cutLoose' = cutLoose
    BY <1>1 DEF Commit
  <2>3. PICK u : InStep(scene, history, done, u, made, strays, misowned)
    BY <2>1, <2>2 DEF SceneInv
  <2> DEFINE h == [do |-> do, undo |-> undo, before |-> scene]
  <2>4. h.before = scene /\ h.do = do /\ h.undo = undo
    OBVIOUS
  <2>5. Grouping(h, n)
    <3> HIDE DEF h
    <3> QED BY <1>1, <2>4 DEF Grouping
  <2>6. scene \in SceneRecord /\ SameTree(scene, scene, made) /\ n \in 0..made
    BY <2>3, InStepIs
  <2>7. Shaped(h, made, scene.inside, misowned')
    <3> HIDE DEF h
    <3> QED BY <2>4, <2>5, <2>6 DEF Shaped
  <2> QED BY <2>2, <2>3, <2>7, CommitInStep
<1>2. CASE GroupAdd
  BY <1>1, <1>2 DEF GroupAdd
<1>3. CASE GroupRemove
  BY <1>1, <1>3 DEF GroupRemove
<1> QED BY <1>2, <1>3

LEMMA RemoveInStep == ASSUME SceneInv, NodeRemove PROVE SceneInv'
<1>1. SUFFICES ASSUME ~cutLoose' PROVE \E u : InStep(scene', history', done', u, made', strays', misowned')
  BY DEF SceneInv
<1>2. PICK n \in Placed(scene) \ {Root} :
        /\ CommitFrom(scene, <<On("remove_child", n, scene.parent[n])>>,
                      <<On("add_child", n, scene.parent[n]), On("set_owner", n, Root)>>)
        /\ misowned' = misowned \cup (Branch(scene, n) \ IF scene.owned[n] THEN {n} ELSE {})
        /\ made' = made /\ cutLoose' = cutLoose
  BY DEF NodeRemove
<1>3. PICK u : InStep(scene, history, done, u, made, strays, misowned)
  BY <1>1, <1>2 DEF SceneInv
<1> DEFINE p == scene.parent[n]
           do == <<On("remove_child", n, p)>>
           undo == <<On("add_child", n, p), On("set_owner", n, Root)>>
           h == [do |-> do, undo |-> undo, before |-> scene]
<1>4. h.before = scene /\ h.do = do /\ h.undo = undo
  OBVIOUS
<1>5. /\ scene \in SceneRecord /\ SameTree(scene, scene, made) /\ n \in 1..made
  BY <1>3, InStepIs
<1>6. \A k \in Branch(scene, n) : k \in misowned' \/ (k = n /\ scene.owned[n])
  BY <1>2
<1>7. Removing(h, n, p, misowned')
  <2> HIDE DEF h
  <2> QED BY <1>4, <1>6 DEF Removing
<1>8. Shaped(h, made, scene.inside, misowned')
  <2> HIDE DEF h, p
  <2> QED BY <1>4, <1>5, <1>7 DEF Shaped
<1>9. misowned \subseteq misowned'
  BY <1>2
<1> QED BY <1>2, <1>3, <1>8, <1>9, CommitInStep

LEMMA PairIs == ASSUME NEW a, NEW c PROVE <<a>> \o <<c>> = <<a, c>>
<1> DEFINE S == {a, c}
<1>1. <<a>> \in Seq(S) /\ <<c>> \in Seq(S) /\ <<a, c>> \in Seq(S)
  OBVIOUS
<1>2. <<a>> \o <<c>> \in Seq(S) /\ Len(<<a>> \o <<c>>) = 2
  BY <1>1
<1>3. (<<a>> \o <<c>>)[1] = a /\ (<<a>> \o <<c>>)[2] = c
  BY <1>1
<1>4. Len(<<a, c>>) = 2 /\ <<a, c>>[1] = a /\ <<a, c>>[2] = c
  OBVIOUS
<1>5. \A i \in 1..Len(<<a>> \o <<c>>) : (<<a>> \o <<c>>)[i] = <<a, c>>[i]
  <2>1. \A i \in 1..2 : i = 1 \/ i = 2
    OBVIOUS
  <2> QED BY <1>2, <1>3, <1>4, <2>1
<1> HIDE DEF S
<1> QED BY <1>1, <1>2, <1>4, <1>5, SeqEqual

LEMMA ReparentInStep == ASSUME SceneInv, NodeReparent PROVE SceneInv'
<1>1. SUFFICES ASSUME ~cutLoose' PROVE \E u : InStep(scene', history', done', u, made', strays', misowned')
  BY DEF SceneInv
<1>2. PICK n \in Placed(scene) \ {Root}, p \in Placed(scene) :
        \E renames \in {<<>>} \cup {<<v>> : v \in Values \ {scene.value[<<n, "name">>]}} :
          LET old == scene.value[<<n, "name">>]
              tears == p # n /\ n \in Above(scene, p)
          IN /\ CommitFrom(scene,
               <<On("reparent", n, p)>> \o [i \in DOMAIN renames |-> Put(n, "name", renames[i])],
               <<On("reparent", n, scene.parent[n])>> \o [i \in DOMAIN renames |-> Put(n, "name", old)])
             /\ cutLoose' = (cutLoose \/ tears)
             /\ misowned' = IF tears THEN misowned \cup Branch(scene, n) ELSE misowned
             /\ made' = made
  BY DEF NodeReparent
<1> DEFINE old == scene.value[<<n, "name">>]
           tears == p # n /\ n \in Above(scene, p)
<1>22. PICK renames \in {<<>>} \cup {<<v>> : v \in Values \ {old}} :
        /\ CommitFrom(scene,
               <<On("reparent", n, p)>> \o [i \in DOMAIN renames |-> Put(n, "name", renames[i])],
               <<On("reparent", n, scene.parent[n])>> \o [i \in DOMAIN renames |-> Put(n, "name", old)])
        /\ cutLoose' = (cutLoose \/ tears)
        /\ misowned' = IF tears THEN misowned \cup Branch(scene, n) ELSE misowned
        /\ made' = made
  BY <1>2
<1> DEFINE do == <<On("reparent", n, p)>> \o [i \in DOMAIN renames |-> Put(n, "name", renames[i])]
           undo == <<On("reparent", n, scene.parent[n])>> \o [i \in DOMAIN renames |-> Put(n, "name", old)]
           h == [do |-> do, undo |-> undo, before |-> scene]
<1>3. /\ CommitFrom(scene, do, undo) /\ made' = made /\ misowned' = misowned /\ ~cutLoose
      /\ p = n \/ n \notin Above(scene, p)
  BY <1>1, <1>22
<1>4. PICK u : InStep(scene, history, done, u, made, strays, misowned)
  BY <1>3 DEF SceneInv
<1>5. scene \in SceneRecord /\ SameTree(scene, scene, made) /\ n \in 1..made
  BY <1>4, InStepIs
<1>6. \/ /\ do = <<On("reparent", n, p)>>
         /\ undo = <<On("reparent", n, scene.parent[n])>>
      \/ \E v \in Values : /\ do = <<On("reparent", n, p), Put(n, "name", v)>>
                           /\ undo = <<On("reparent", n, scene.parent[n]), Put(n, "name", old)>>
  <2>1. CASE renames = <<>>
    BY <2>1
  <2>2. ASSUME NEW v \in Values, renames = <<v>>
        PROVE  /\ do = <<On("reparent", n, p), Put(n, "name", v)>>
               /\ undo = <<On("reparent", n, scene.parent[n]), Put(n, "name", old)>>
    <3>1. DOMAIN renames = {1} /\ renames[1] = v /\ DOMAIN <<v>> = {1}
      BY <2>2
    <3>2. [i \in DOMAIN renames |-> Put(n, "name", renames[i])] = <<Put(n, "name", v)>>
      BY <3>1 DEF Put
    <3>3. [i \in DOMAIN renames |-> Put(n, "name", old)] = <<Put(n, "name", old)>>
      BY <3>1 DEF Put
    <3>4. do = <<On("reparent", n, p)>> \o <<Put(n, "name", v)>>
      BY <3>2
    <3>5. undo = <<On("reparent", n, scene.parent[n])>> \o <<Put(n, "name", old)>>
      BY <3>3
    <3>6. \A a, c : <<a>> \o <<c>> = <<a, c>>
      BY PairIs
    <3> HIDE DEF do, undo
    <3> QED BY <3>4, <3>5, <3>6
  <2> QED BY <2>1, <2>2
<1>7. h.before = scene /\ h.do = do /\ h.undo = undo
  OBVIOUS
<1> HIDE DEF do, undo, h
<1>8. \E v : Moving(h, n, p, v)
  BY <1>3, <1>6, <1>7 DEF Moving, old
<1>9. Shaped(h, made, scene.inside, misowned')
  BY <1>5, <1>7, <1>8 DEF Shaped
<1> QED BY <1>3, <1>4, <1>9, CommitInStep DEF h

\* What a tool adds to the scene before it commits: nodes numbered up to n,
\* nothing of them owned, everything else as it was.
OnlyAdds(b, s, m, n) ==
  /\ b \in SceneRecord /\ Alike(b, s, 0..m) /\ b.owned = s.owned /\ b.link = s.link
  /\ \A k \in Nodes : s.inside[k] => b.inside[k]
  /\ \A k \in 0..m : b.group[k] = s.group[k]
  /\ \A k \in (m+1)..n : b.parent[k] \in (m+1)..n \cup {None}
  /\ \A k \in (n+1)..MaxNodes : b.parent[k] = None /\ ~b.inside[k]

LEMMA OnlyAddsIs ==
  ASSUME NEW s, NEW H, NEW d, NEW u, NEW m, NEW strange, NEW x, InStep(s, H, d, u, m, strange, x),
         NEW b, NEW n \in Nodes, m <= n, OnlyAdds(b, s, m, n)
  PROVE  /\ ReadyFrom(s, b, m, n)
         /\ Placed(b) = Placed(s) /\ Placed(s) \subseteq 0..m
         /\ \A k \in (m+1)..n : Branch(b, k) \subseteq (m+1)..MaxNodes /\ \A j \in Branch(b, k) : ~b.owned[j]
<1>1. /\ b \in SceneRecord /\ Alike(b, s, 0..m) /\ b.owned = s.owned /\ b.link = s.link
      /\ \A k \in Nodes : s.inside[k] => b.inside[k]
      /\ \A k \in 0..m : b.group[k] = s.group[k]
      /\ \A k \in (m+1)..n : b.parent[k] \in (m+1)..n \cup {None}
      /\ \A k \in (n+1)..MaxNodes : b.parent[k] = None /\ ~b.inside[k]
  BY DEF OnlyAdds
<1> QED BY <1>1, AdditionIsReady

\* The new branch is placed, and owned as far as it is not of an instance.
LEMMA PlaceInStep ==
  ASSUME NEW b, NEW n, NEW p \in Placed(scene), NEW L, NEW extra \in Nat, Place(b, n, p, L, extra),
         NEW u, InStep(scene, history, done, u, made, strays, misowned),
         made + 1 + extra <= MaxNodes, n \in (made + 1)..(made + 1 + extra),
         OnlyAdds(b, scene, made, made + 1 + extra),
         b.parent[n] = None, L \in Seq(Owners(Branch(b, n))),
         \A k \in Branch(b, n) : k = n \/ k \in Listed(L) \/ b.inside[k]
  PROVE  \E v : InStep(scene', history', done', v, made', strays', misowned')
<1> DEFINE m == made + 1 + extra
           h == [do |-> <<On("add_child", n, p), On("set_owner", n, Root)>> \o L,
                 undo |-> <<On("remove_child", n, p)>>, before |-> b]
<1>1. /\ h.before = b /\ h.undo = <<On("remove_child", n, p)>>
      /\ h.do = <<On("add_child", n, p), On("set_owner", n, Root)>> \o L
  OBVIOUS
<1>2. scene' = Run(b, h.do) /\ history' = Append(SubSeq(history, 1, done), h) /\ done' = done + 1
  BY DEF Place, CommitFrom
<1>22. strays' = strays /\ misowned' = misowned /\ made' = m
  BY DEF Place, CommitFrom
<1> HIDE DEF h
<1>3. made \in Nat /\ m \in Nat /\ m \in Nodes /\ made <= m /\ n \in 1..m /\ n # Root
  <2>1. made \in Nat
    BY InStepIs
  <2> QED BY <2>1, NodesAre, BoundsAssumption DEF Root
<1> HIDE DEF m
<1>4. /\ ReadyFrom(scene, b, made, m)
      /\ Placed(b) = Placed(scene)
      /\ \A k \in (made+1)..m : \A j \in Branch(b, k) : ~b.owned[j]
  <2>1. OnlyAdds(b, scene, made, m)
    BY DEF m
  <2> QED BY <1>3, <2>1, OnlyAddsIs
<1>5. n \in (made+1)..m
  BY DEF m
<1>6. Placing(h, n, p, L, b.inside)
  BY <1>1, <1>3, <1>4, <1>5 DEF Placing
<1>7. Shaped(h, m, b.inside, misowned)
  BY <1>1, <1>3, <1>4, <1>6 DEF Shaped, ReadyFrom
<1>8. \E v : InStep(Run(h.before, h.do), Append(SubSeq(history, 1, done), h), done + 1, v, m, strays, misowned)
  BY <1>1, <1>4, <1>7, CommitStep
<1> QED BY <1>1, <1>2, <1>22, <1>8

\* What is below a node that nothing was put under yet.
LEMMA AloneBelow ==
  ASSUME NEW s, s.parent \in Parents, NEW n, NEW k \in Branch(s, n), s.parent[k] = None
  PROVE  k = n
  BY BranchIs, AboveUp

LEMMA AddInStep == ASSUME SceneInv, NodeAdd PROVE SceneInv'
<1>1. SUFFICES ASSUME ~cutLoose' PROVE \E u : InStep(scene', history', done', u, made', strays', misowned')
  BY DEF SceneInv
<1> DEFINE n == made + 1
<1>2. PICK p \in Placed(scene), v \in Values : Place([scene EXCEPT !.value[<<n, "name">>] = v], n, p, <<>>, 0)
  BY DEF NodeAdd
<1>3. n <= MaxNodes /\ ~cutLoose
  BY <1>1, <1>2 DEF NodeAdd, Place
<1>4. PICK u : InStep(scene, history, done, u, made, strays, misowned)
  BY <1>3 DEF SceneInv
<1>5. made \in Nat /\ scene \in SceneRecord /\ SameTree(scene, scene, made) /\ Bare(scene, made)
  BY <1>4, InStepIs DEF InStep
<1> DEFINE b == [scene EXCEPT !.value[<<n, "name">>] = v]
<1>6. n \in Nodes /\ <<n, "name">> \in Nodes \X Keys
  BY <1>3, <1>5, NodesAre, BoundsAssumption, KeysAssumption
<1>7. b \in SceneRecord /\ b.parent = scene.parent /\ b.owned = scene.owned /\ b.inside = scene.inside
      /\ b.link = scene.link /\ b.group = scene.group
  <2> HIDE DEF n
  <2> QED BY <1>5, <1>6 DEF SceneRecord
<1>8. Place(b, n, p, <<>>, 0)
  BY <1>2
<1> HIDE DEF b
<1>9. \A k \in (made+1)..MaxNodes : b.parent[k] = None /\ ~b.inside[k]
  BY <1>5, <1>7 DEF Bare
<1>10. OnlyAdds(b, scene, made, made + 1 + 0)
  <2>1. \A k \in (made+1)..(made+1+0) : b.parent[k] = None
    BY <1>3, <1>5, <1>9, BoundsAssumption
  <2>2. \A k \in (made+1+0+1)..MaxNodes : b.parent[k] = None /\ ~b.inside[k]
    BY <1>5, <1>9, BoundsAssumption
  <2> QED BY <1>7, <2>1, <2>2 DEF OnlyAdds, Alike
<1>11. b.parent[n] = None
  BY <1>3, <1>5, <1>9, BoundsAssumption
<1>12. \A k \in Branch(b, n) : k = n
  <2>1. SUFFICES ASSUME NEW k \in Branch(b, n) PROVE k = n
    OBVIOUS
  <2>2. ReadyFrom(scene, b, made, made + 1 + 0) /\ Branch(b, n) \subseteq (made+1)..MaxNodes
    <3>1. made + 1 + 0 \in Nodes /\ made <= made + 1 + 0 /\ n \in (made+1)..(made+1+0)
      BY <1>5, <1>6
    <3> HIDE DEF n
    <3> QED BY <1>4, <1>10, <3>1, OnlyAddsIs
  <2>3. b.parent[k] = None
    BY <1>9, <2>2
  <2>4. b.parent \in Parents
    BY <1>7 DEF SceneRecord
  <2> HIDE DEF n
  <2> QED BY <2>1, <2>3, <2>4, AloneBelow
<1>13. <<>> \in Seq(Owners(Branch(b, n)))
  OBVIOUS
<1>14. made + 1 + 0 <= MaxNodes /\ n \in (made+1)..(made+1+0)
  BY <1>3, <1>5
<1> HIDE DEF n
<1> QED BY <1>4, <1>8, <1>10, <1>11, <1>12, <1>13, <1>14, PlaceInStep

LEMMA InstanceInStep == ASSUME SceneInv, SceneInstantiate PROVE SceneInv'
<1>1. SUFFICES ASSUME ~cutLoose' PROVE \E u : InStep(scene', history', done', u, made', strays', misowned')
  BY DEF SceneInv
<1> DEFINE n == made + 1
           b == [scene EXCEPT !.parent[n+1] = n, !.inside[n+1] = TRUE]
<1>2. PICK p \in Placed(scene) : Place(b, n, p, <<>>, 1)
  BY DEF SceneInstantiate
<1>3. n + 1 <= MaxNodes /\ ~cutLoose
  BY <1>1, <1>2 DEF SceneInstantiate, Place
<1>4. PICK u : InStep(scene, history, done, u, made, strays, misowned)
  BY <1>3 DEF SceneInv
<1>5. made \in Nat /\ scene \in SceneRecord /\ SameTree(scene, scene, made) /\ Bare(scene, made)
  BY <1>4, InStepIs DEF InStep
<1>6. n \in Nodes /\ n + 1 \in Nodes /\ n # n + 1
  BY <1>3, <1>5, NodesAre, BoundsAssumption
<1>7. /\ b \in SceneRecord /\ b.owned = scene.owned /\ b.link = scene.link /\ b.group = scene.group
      /\ b.parent = [scene.parent EXCEPT ![n+1] = n] /\ b.inside = [scene.inside EXCEPT ![n+1] = TRUE]
  <2> DEFINE c == n + 1
  <2>1. c \in Nodes
    BY <1>6
  <2>2. b = [scene EXCEPT !.parent[c] = n, !.inside[c] = TRUE]
    OBVIOUS
  <2> HIDE DEF b, n, c
  <2>3. /\ b.parent = [scene.parent EXCEPT ![c] = n] /\ b.inside = [scene.inside EXCEPT ![c] = TRUE]
        /\ b.owned = scene.owned /\ b.link = scene.link /\ b.group = scene.group /\ b.value = scene.value
        /\ b = [scene EXCEPT !.parent = b.parent, !.inside = b.inside]
    BY <1>5, <2>2 DEF SceneRecord
  <2>4. b.parent \in Parents
    BY <1>5, <1>6, <2>1, <2>3 DEF SceneRecord, Parents
  <2>5. b.inside \in [Nodes -> BOOLEAN]
    BY <1>5, <2>1, <2>3 DEF SceneRecord
  <2>6. b \in SceneRecord
    BY <1>5, <2>3, <2>4, <2>5 DEF SceneRecord
  <2> QED BY <2>3, <2>6 DEF c
<1> HIDE DEF b
<1>8. /\ \A k \in Nodes \ {n+1} : b.parent[k] = scene.parent[k] /\ b.inside[k] = scene.inside[k]
      /\ b.parent[n+1] = n /\ b.inside[n+1]
  <2> HIDE DEF n
  <2> QED BY <1>5, <1>6, <1>7 DEF SceneRecord, Parents
<1>9. \A k \in (made+1)..MaxNodes : k # n + 1 => b.parent[k] = None /\ ~b.inside[k]
  <2>1. \A k \in (made+1)..MaxNodes : k \in Nodes
    BY <1>5, NodesAre, BoundsAssumption
  <2> QED BY <1>5, <1>8, <2>1 DEF Bare
<1>10. OnlyAdds(b, scene, made, made + 1 + 1)
  <2>1. \A k \in (made+1)..(made+1+1) : b.parent[k] \in (made+1)..(made+1+1) \cup {None}
    <3>1. SUFFICES ASSUME NEW k \in (made+1)..(made+1+1) PROVE b.parent[k] \in (made+1)..(made+1+1) \cup {None}
      OBVIOUS
    <3>2. CASE k = n + 1
      BY <1>5, <1>8, <3>2
    <3>3. CASE k # n + 1
      <4>1. k \in (made+1)..MaxNodes
        BY <1>3, <1>5, BoundsAssumption
      <4> QED BY <1>9, <3>3, <4>1
    <3> QED BY <3>2, <3>3
  <2>2. \A k \in (made+1+1+1)..MaxNodes : b.parent[k] = None /\ ~b.inside[k]
    <3>1. \A k \in (made+1+1+1)..MaxNodes : k \in (made+1)..MaxNodes /\ k # n + 1
      BY <1>5, BoundsAssumption
    <3> QED BY <1>9, <3>1
  <2>3. Alike(b, scene, 0..made)
    <3>1. \A k \in 0..made : k \in Nodes \ {n+1}
      BY <1>3, <1>5, NodesAre, BoundsAssumption
    <3> QED BY <1>8, <3>1 DEF Alike
  <2>4. \A k \in Nodes : scene.inside[k] => b.inside[k]
    BY <1>8
  <2> QED BY <1>7, <2>1, <2>2, <2>3, <2>4 DEF OnlyAdds
<1>11. b.parent[n] = None
  <2>1. n \in (made+1)..MaxNodes /\ n # n + 1
    BY <1>3, <1>5, BoundsAssumption
  <2> QED BY <1>9, <2>1
<1>12. \A k \in Branch(b, n) : k = n \/ b.inside[k]
  <2>1. SUFFICES ASSUME NEW k \in Branch(b, n), k # n + 1 PROVE k = n
    BY <1>8
  <2>2. Branch(b, n) \subseteq (made+1)..MaxNodes
    <3>1. made + 1 + 1 \in Nodes /\ made <= made + 1 + 1 /\ n \in (made+1)..(made+1+1)
      BY <1>5, <1>6
    <3> HIDE DEF n
    <3> QED BY <1>4, <1>10, <3>1, OnlyAddsIs
  <2>3. b.parent[k] = None
    BY <1>9, <2>1, <2>2
  <2>4. b.parent \in Parents
    BY <1>7 DEF SceneRecord
  <2> HIDE DEF n
  <2> QED BY <2>1, <2>3, <2>4, AloneBelow
<1>13. <<>> \in Seq(Owners(Branch(b, n))) /\ 1 \in Nat
  OBVIOUS
<1>14. made + 1 + 1 <= MaxNodes /\ n \in (made+1)..(made+1+1)
  BY <1>3, <1>5
<1> HIDE DEF n
<1> QED BY <1>2, <1>4, <1>10, <1>11, <1>12, <1>13, <1>14, PlaceInStep

\* A call, and what is done outside of the scene.
LEMMA SetBehind ==
  ASSUME NEW s, NEW H, NEW d, NEW u, NEW m, NEW strange, NEW x, InStep(s, H, d, u, m, strange, x),
         NEW t \in SceneRecord, t.parent = s.parent, t.owned = s.owned, t.inside = s.inside,
         NEW also, strange \subseteq also,
         \A w \in Wires : <<"link", w>> \in also \/ t.link[w] = s.link[w],
         \A k \in Nodes : <<"group", k>> \in also \/ t.group[k] = s.group[k]
  PROVE  InStep(t, H, d, u, m, also, x)
<1>1. Placed(t) = Placed(s)
  BY DEF Placed, Branch, Above
<1>2. Rooted(t) /\ Owned(t, x) /\ Bare(t, m) /\ Stands(t, H, u, d)
  BY <1>1 DEF InStep, Rooted, Owned, Bare, Stands, Alike, Parted
<1>3. LinksStand(t, H, d, also)
  BY DEF InStep, LinksStand
<1>4. LiveStand(t, H, u, also)
  BY DEF InStep, LiveStand
<1> QED BY <1>2, <1>3, <1>4 DEF InStep

LEMMA CallInStep == ASSUME SceneInv, CallMethod PROVE SceneInv'
<1>1. SUFFICES ASSUME ~cutLoose PROVE \E u : InStep(scene', history, done, u, made, strays', misowned)
  BY DEF SceneInv, CallMethod
<1>2. PICK u : InStep(scene, history, done, u, made, strays, misowned)
  BY <1>1 DEF SceneInv
<1>3. scene \in SceneRecord /\ Placed(scene) \subseteq Nodes
  BY <1>2, InStepIs
<1>4. ASSUME NEW n \in Placed(scene), NEW k \in Keys, NEW v \in Values,
             scene' = [scene EXCEPT !.value[<<n, k>>] = v], strays' = strays
      PROVE  InStep(scene', history, done, u, made, strays', misowned)
  <2>1. /\ scene' \in SceneRecord /\ scene'.parent = scene.parent /\ scene'.owned = scene.owned
        /\ scene'.inside = scene.inside /\ scene'.link = scene.link /\ scene'.group = scene.group
    BY <1>3, <1>4 DEF SceneRecord
  <2> QED BY <1>2, <1>4, <2>1, SetBehind
<1>5. ASSUME NEW n \in Placed(scene), NEW to \in {"out", "live"},
             scene' = [scene EXCEPT !.group[n] = to], strays' = strays \cup {<<"group", n>>}
      PROVE  InStep(scene', history, done, u, made, strays', misowned)
  <2>1. /\ scene' \in SceneRecord /\ scene'.parent = scene.parent /\ scene'.owned = scene.owned
        /\ scene'.inside = scene.inside /\ scene'.link = scene.link
        /\ \A k \in Nodes : k # n => scene'.group[k] = scene.group[k]
    BY <1>3, <1>5 DEF SceneRecord, Groups
  <2>2. strays \subseteq strays' /\ <<"group", n>> \in strays'
    BY <1>5
  <2>3. \A k \in Nodes : <<"group", k>> \in strays' \/ scene'.group[k] = scene.group[k]
    BY <2>1, <2>2
  <2> QED BY <1>2, <2>1, <2>2, <2>3, SetBehind
<1>6. ASSUME NEW w \in Wires, NEW to \in {"none", "live"},
             scene' = [scene EXCEPT !.link[w] = to], strays' = strays \cup {<<"link", w>>}
      PROVE  InStep(scene', history, done, u, made, strays', misowned)
  <2>1. /\ scene' \in SceneRecord /\ scene'.parent = scene.parent /\ scene'.owned = scene.owned
        /\ scene'.inside = scene.inside /\ scene'.group = scene.group
        /\ \A k \in Wires : k # w => scene'.link[k] = scene.link[k]
    BY <1>3, <1>6 DEF SceneRecord, Links
  <2>2. strays \subseteq strays' /\ <<"link", w>> \in strays'
    BY <1>6
  <2>3. \A k \in Wires : <<"link", k>> \in strays' \/ scene'.link[k] = scene.link[k]
    BY <2>1, <2>2
  <2> QED BY <1>2, <2>1, <2>2, <2>3, SetBehind
<1> QED BY <1>4, <1>5, <1>6 DEF CallMethod

\* Any sequence of a finite set lists each member once.
LEMMA SequenceOf ==
  ASSUME NEW S, IsFiniteSet(S)
  PROVE  /\ Cardinality(S) \in Nat
         /\ SetToSeq(S) \in [1..Cardinality(S) -> S] /\ Len(SetToSeq(S)) = Cardinality(S)
         /\ \A k \in S : \E i \in 1..Cardinality(S) : SetToSeq(S)[i] = k
<1> DEFINE c == Cardinality(S)
           q == SetToSeq(S)
<1>1. c \in Nat /\ ExistsBijection(1..c, S)
  BY FS_CardinalityType
<1>2. \E f \in [1..c -> S] : IsInjective(f)
  BY <1>1 DEF ExistsBijection, Bijection, Injection
<1>3. q \in [1..c -> S] /\ IsInjective(q)
  BY <1>2 DEF SetToSeq
<1> HIDE DEF q
<1>4. IsFiniteSet(1..c) /\ Cardinality(1..c) = c
  BY <1>1, FS_Interval
<1>5. q \in Injection(1..c, S)
  BY <1>3 DEF Injection
<1>6. q \in Surjection(1..c, S)
  BY <1>4, <1>5, FS_Injection
<1>7. Len(q) = c
  BY <1>1, <1>3
<1> QED BY <1>1, <1>3, <1>6, <1>7 DEF Surjection, q

\* What is queued owns every node below.
LEMMA OwnersBelowIs ==
  ASSUME NEW s, NEW n
  PROVE  /\ OwnersBelow(s, n) \in Seq(Owners(Branch(s, n)))
         /\ Listed(OwnersBelow(s, n)) = Branch(s, n) \ {n}
<1> DEFINE S == Branch(s, n) \ {n}
           L == OwnersBelow(s, n)
<1>1. IsFiniteSet(S)
  <2>1. S \in SUBSET Nodes
    BY BranchIs
  <2> HIDE DEF S
  <2> QED BY <2>1, NodesAre, FS_Subset
<1>2. L = [i \in 1..Cardinality(S) |-> On("set_owner", SetToSeq(S)[i], Root)]
  BY DEF OwnersBelow
<1>3. S \subseteq Branch(s, n)
  OBVIOUS
<1> HIDE DEF S, L
<1>4. /\ Cardinality(S) \in Nat /\ SetToSeq(S) \in [1..Cardinality(S) -> S]
      /\ \A k \in S : \E i \in 1..Cardinality(S) : SetToSeq(S)[i] = k
  BY <1>1, SequenceOf
<1>5. Len(L) = Cardinality(S) /\ \A i \in 1..Cardinality(S) : L[i] = On("set_owner", SetToSeq(S)[i], Root)
  BY <1>2, <1>4
<1>6. \A i \in 1..Cardinality(S) : L[i] \in Owners(Branch(s, n)) /\ L[i].node = SetToSeq(S)[i]
  BY <1>3, <1>4, <1>5 DEF Owners, On
<1>7. L \in Seq(Owners(Branch(s, n)))
  BY <1>2, <1>4, <1>5, <1>6
<1>8. Listed(L) = S
  <2>1. \A k \in Listed(L) : k \in S
    BY <1>4, <1>5, <1>6 DEF Listed
  <2>2. ASSUME NEW k \in S PROVE k \in Listed(L)
    <3>1. PICK i \in 1..Cardinality(S) : SetToSeq(S)[i] = k
      BY <1>4
    <3> QED BY <1>5, <1>6, <3>1 DEF Listed
  <2> QED BY <2>1, <2>2
<1> QED BY <1>7, <1>8 DEF S, L

LEMMA DuplicateInStep == ASSUME SceneInv, NodeDuplicate PROVE SceneInv'
<1>1. SUFFICES ASSUME ~cutLoose' PROVE \E u : InStep(scene', history', done', u, made', strays', misowned')
  BY DEF SceneInv
<1>2. PICK n \in Placed(scene) \ {Root} :
        LET size == Cardinality(Branch(scene, n))
            copy == made + CHOOSE i \in 1..size : SetToSeq(Branch(scene, n))[i] = n
            s == Copied(scene, n)
        IN /\ made + size <= MaxNodes
           /\ Place(s, copy, scene.parent[n], OwnersBelow(s, copy), size - 1)
  BY DEF NodeDuplicate
<1> DEFINE B == Branch(scene, n)
           size == Cardinality(B)
           old == SetToSeq(B)
           copy == made + CHOOSE i \in 1..size : old[i] = n
           b == Copied(scene, n)
           p == scene.parent[n]
<1>3. made + size <= MaxNodes /\ Place(b, copy, p, OwnersBelow(b, copy), size - 1)
  BY <1>2
<1>4. PICK u : InStep(scene, history, done, u, made, strays, misowned)
  BY <1>1, <1>3 DEF SceneInv, Place
<1>5. /\ made \in Nat /\ scene \in SceneRecord /\ Rooted(scene) /\ Bare(scene, made)
      /\ n \in Nodes /\ n # Root /\ n \in Placed(scene) /\ SameTree(scene, scene, made)
  BY <1>4, InStepIs DEF InStep
<1>6. B \subseteq Nodes /\ n \in B /\ IsFiniteSet(B)
  <2>1. B \in SUBSET Nodes /\ n \in B
    BY <1>5, BranchIs, AboveIsShut DEF Rooted
  <2> HIDE DEF B
  <2> QED BY <2>1, NodesAre, FS_Subset
<1>7. size \in Nat /\ old \in [1..size -> B] /\ Len(old) = size /\ \A k \in B : \E i \in 1..size : old[i] = k
  <2> HIDE DEF B
  <2> QED BY <1>6, SequenceOf
<1> DEFINE num(k) == CHOOSE i \in 1..size : old[i] = k
           fresh == (made + 1)..(made + size)
           of(k) == old[k - made]
<1>8. /\ \A k \in B : num(k) \in 1..size /\ old[num(k)] = k /\ made + num(k) \in fresh /\ of(made + num(k)) = k
      /\ \A k \in fresh : of(k) \in B /\ k \in Nodes
  <2> HIDE DEF old, B, size
  <2>1. \A k \in B : num(k) \in 1..size /\ old[num(k)] = k
    BY <1>7
  <2> HIDE DEF num
  <2>2. \A k \in 1..size : made + k \in fresh /\ (made + k) - made = k
    BY <1>5, <1>7
  <2>3. \A k \in fresh : k - made \in 1..size /\ k \in Nodes
    BY <1>3, <1>5, <1>7, NodesAre, BoundsAssumption
  <2> QED BY <1>7, <2>1, <2>2, <2>3
<1>9. /\ DOMAIN old = 1..size
      /\ b = [scene EXCEPT
        !.parent = [k \in Nodes |-> IF k \in fresh
                                    THEN IF of(k) = n THEN None ELSE made + num(scene.parent[of(k)])
                                    ELSE @[k]],
        !.inside = [k \in Nodes |-> IF k \in fresh THEN @[of(k)] ELSE @[k]],
        !.group  = [k \in Nodes |-> IF k \in fresh THEN @[of(k)] ELSE @[k]],
        !.value  = [c \in Nodes \X Keys |-> IF c[1] \in fresh THEN @[<<of(c[1]), c[2]>>] ELSE @[c]]]
  <2>1. DOMAIN SetToSeq(Branch(scene, n)) = 1..size /\ Len(SetToSeq(Branch(scene, n))) = size
    <3> HIDE DEF size
    <3> QED BY <1>7
  <2> HIDE DEF size
  <2> QED BY <2>1 DEF Copied
<1>10. ASSUME NEW k \in B, k # n PROVE scene.parent[k] \in B
  <2>1. k \in Nodes /\ n \in Above(scene, k) /\ scene.parent \in Parents
    BY <1>5, <1>10, BranchIs DEF B, Rooted
  <2>2. scene.parent[k] \in Nodes /\ n \in Above(scene, scene.parent[k])
    BY <2>1, <1>10, AboveUp
  <2> QED BY <2>2, BranchIs DEF B
<1> HIDE DEF b, size, old, B
<1>11. \A k \in fresh : of(k) \in B /\ k \in Nodes /\ k \in (made+1)..MaxNodes
                        /\ (of(k) # n => made + num(scene.parent[of(k)]) \in fresh)
  <2>1. \A k \in fresh : k \in (made+1)..MaxNodes
    BY <1>3, <1>5, <1>7, BoundsAssumption
  <2> HIDE DEF num, fresh, of
  <2> QED BY <1>8, <1>10, <2>1
<1> HIDE DEF num, fresh, of
<1>12. /\ b \in SceneRecord /\ b.owned = scene.owned /\ b.link = scene.link
       /\ \A k \in Nodes \ fresh : /\ b.parent[k] = scene.parent[k] /\ b.inside[k] = scene.inside[k]
                                 /\ b.group[k] = scene.group[k]
       /\ \A k \in fresh : b.parent[k] = IF of(k) = n THEN None ELSE made + num(scene.parent[of(k)])
  <2> DEFINE f == [k \in Nodes |-> IF k \in fresh
                                   THEN IF of(k) = n THEN None ELSE made + num(scene.parent[of(k)])
                                   ELSE scene.parent[k]]
             g == [k \in Nodes |-> IF k \in fresh THEN scene.inside[of(k)] ELSE scene.inside[k]]
             e == [k \in Nodes |-> IF k \in fresh THEN scene.group[of(k)] ELSE scene.group[k]]
             v == [c \in Nodes \X Keys |-> IF c[1] \in fresh THEN scene.value[<<of(c[1]), c[2]>>] ELSE scene.value[c]]
  <2>1. b = [scene EXCEPT !.parent = f, !.inside = g, !.group = e, !.value = v]
    BY <1>9
  <2>2. f \in Parents
    BY <1>5, <1>11 DEF Parents, SceneRecord
  <2>3. g \in [Nodes -> BOOLEAN]
    BY <1>5, <1>6, <1>11 DEF SceneRecord
  <2>4. e \in [Nodes -> Groups]
    BY <1>5, <1>6, <1>11 DEF SceneRecord
  <2>5. v \in [Nodes \X Keys -> Values]
    <3>1. SUFFICES ASSUME NEW k \in Nodes, NEW l \in Keys, k \in fresh PROVE scene.value[<<of(k), l>>] \in Values
      BY <1>5 DEF SceneRecord
    <3>2. <<of(k), l>> \in Nodes \X Keys
      BY <1>6, <1>11, <3>1
    <3> QED BY <1>5, <3>2 DEF SceneRecord
  <2>6. \A k \in Nodes \ fresh : f[k] = scene.parent[k] /\ g[k] = scene.inside[k] /\ e[k] = scene.group[k]
    OBVIOUS
  <2>7. \A k \in fresh : f[k] = IF of(k) = n THEN None ELSE made + num(scene.parent[of(k)])
    BY <1>11
  <2> HIDE DEF f, g, e, v
  <2>8. /\ b.parent = f /\ b.inside = g /\ b.group = e /\ b.owned = scene.owned /\ b.link = scene.link
        /\ b \in SceneRecord
    BY <1>5, <2>1, <2>2, <2>3, <2>4, <2>5 DEF SceneRecord
  <2> QED BY <2>6, <2>7, <2>8
<1>13. size - 1 \in Nat /\ made + 1 + (size - 1) = made + size /\ made + 1 + (size - 1) <= MaxNodes
  <2>1. size \in Nat /\ num(n) \in 1..size
    BY <1>6, <1>7, <1>8
  <2> QED BY <1>3, <1>5, <2>1, BoundsAssumption
<1>14. fresh = (made+1)..(made + 1 + (size - 1))
  BY <1>13 DEF fresh
<1>15. \A k \in (made + 1)..MaxNodes : k \notin fresh => b.parent[k] = None /\ ~b.inside[k]
  <2>1. \A k \in (made + 1)..MaxNodes : k \in Nodes
    BY <1>5, NodesAre, BoundsAssumption
  <2> QED BY <1>5, <1>12, <2>1 DEF Bare
<1>16. OnlyAdds(b, scene, made, made + 1 + (size - 1))
  <2> DEFINE m == made + 1 + (size - 1)
  <2>1. m \in Nat /\ m <= MaxNodes /\ fresh = (made+1)..m
    BY <1>5, <1>13, <1>14
  <2> HIDE DEF m
  <2>2. \A k \in (made+1)..m : b.parent[k] \in (made+1)..m \cup {None}
    BY <1>11, <1>12, <2>1
  <2>3. \A k \in (m+1)..MaxNodes : b.parent[k] = None /\ ~b.inside[k]
    <3>1. \A k \in (m+1)..MaxNodes : made < m => k \in (made+1)..MaxNodes /\ k \notin fresh
      BY <1>5, <2>1, BoundsAssumption
    <3>2. made < m
      BY <1>5, <1>13 DEF m
    <3> QED BY <1>15, <3>1, <3>2
  <2>4. \A k \in 0..made : k \in Nodes \ fresh
    BY <1>3, <1>5, <1>7, <2>1, NodesAre, BoundsAssumption
  <2>5. \A k \in Nodes : scene.inside[k] => b.inside[k]
    <3>1. ASSUME NEW k \in fresh PROVE ~scene.inside[k]
      BY <1>5, <1>11 DEF Bare
    <3> QED BY <1>12, <3>1
  <2>6. Alike(b, scene, 0..made) /\ \A k \in 0..made : b.group[k] = scene.group[k]
    BY <1>12, <2>4 DEF Alike
  <2> QED BY <1>12, <2>2, <2>3, <2>5, <2>6 DEF OnlyAdds, m
<1>17. copy \in fresh /\ of(copy) = n
  <2>1. copy = made + num(n)
    BY DEF num
  <2> QED BY <1>6, <1>8, <2>1
<1>18. b.parent[copy] = None
  BY <1>12, <1>17
<1>19. p \in Placed(scene)
  BY <1>5, NoLoop
<1> HIDE DEF p, copy
<1>20. /\ OwnersBelow(b, copy) \in Seq(Owners(Branch(b, copy)))
       /\ \A k \in Branch(b, copy) : k = copy \/ k \in Listed(OwnersBelow(b, copy))
  BY OwnersBelowIs
<1>21. copy \in (made+1)..(made + 1 + (size - 1))
  BY <1>14, <1>17
<1> QED BY <1>3, <1>4, <1>13, <1>16, <1>18, <1>19, <1>20, <1>21, PlaceInStep

LEMMA SceneStarts == SceneInit => SceneInv
<1> SUFFICES ASSUME SceneInit PROVE SceneInv
  OBVIOUS
<1> DEFINE u == [j \in 1..0 |-> 0]
<1>0. /\ scene.parent = [n \in Nodes |-> None] /\ scene.owned = [n \in Nodes |-> FALSE]
      /\ scene.inside = [n \in Nodes |-> FALSE] /\ scene.value = [c \in Nodes \X Keys |-> Unset]
      /\ scene.link = [w \in Wires |-> "none"] /\ scene.group = [n \in Nodes |-> "out"]
      /\ scene \in [parent : {scene.parent}, owned : {scene.owned}, inside : {scene.inside},
                    value : {scene.value}, link : {scene.link}, group : {scene.group}]
  BY DEF SceneInit
<1>1. history = <<>> /\ done = 0 /\ made = 0 /\ strays = {} /\ misowned = {}
  BY DEF SceneInit
<1>2. scene \in SceneRecord
  <2>1. scene.parent \in Parents /\ scene.group \in [Nodes -> Groups] /\ scene.link \in [Wires -> Links]
    BY <1>0 DEF Parents, Links, Groups
  <2>2. /\ scene.owned \in [Nodes -> BOOLEAN] /\ scene.inside \in [Nodes -> BOOLEAN]
        /\ scene.value \in [Nodes \X Keys -> Values]
    BY <1>0, ValuesAssumption
  <2> DEFINE v == scene
  <2>3. v \in [parent : {v.parent}, owned : {v.owned}, inside : {v.inside},
               value : {v.value}, link : {v.link}, group : {v.group}]
    BY <1>0
  <2> HIDE DEF v
  <2>4. \A a \in Parents, b \in [Nodes -> BOOLEAN], c \in [Nodes -> BOOLEAN],
           d \in [Nodes \X Keys -> Values], e \in [Wires -> Links], f \in [Nodes -> Groups] :
           v \in [parent : {a}, owned : {b}, inside : {c}, value : {d}, link : {e}, group : {f}] => v \in SceneRecord
    BY DEF SceneRecord
  <2> QED BY <2>1, <2>2, <2>3, <2>4 DEF v
<1>3. Rooted(scene) /\ \A k \in Nodes : scene.parent[k] = None
  BY <1>0, NodesAre DEF Rooted, Parents
<1>4. Owned(scene, {})
  <2>1. \A k \in Placed(scene) : k = Root
    BY <1>3, BranchIs, AboveUp DEF Rooted
  <2> QED BY <2>1 DEF Owned
<1>5. Bare(scene, 0)
  <2>1. \A k \in (0+1)..MaxNodes : k \in Nodes
    BY NodesAre, BoundsAssumption
  <2> QED BY <1>0, <2>1 DEF Bare
<1>6. Len(history) = 0 /\ Upto(u, 0) = 0 /\ 0 \in Nodes
  BY <1>1, NodesAre, BoundsAssumption DEF Upto
<1>7. Chain(history, u, scene.inside, {})
  <2>1. history \in Seq(Nodes) /\ u \in [1..Len(history) -> Nodes]
    BY <1>1, <1>6
  <2>2. \A i, j \in 0..Len(history) : i = 0 /\ j = 0
    BY <1>6
  <2> HIDE DEF u
  <2> QED BY <1>6, <2>1, <2>2 DEF Chain
<1> HIDE DEF u
<1>8. Stands(scene, history, u, 0)
  <2>1. Alike(scene, Origin, 0..0)
    <3>1. \A k \in 0..0 : k \in Nodes
      BY <1>6
    <3> QED BY <1>3, <3>1 DEF Alike, Origin
  <2>2. Parted(scene, 0)
    <3>1. \A k \in 0..0 : k \in Nodes
      BY <1>6
    <3>2. \A k \in (0+1)..MaxNodes : k \in Nodes
      BY NodesAre, BoundsAssumption
    <3> QED BY <1>3, <3>1, <3>2 DEF Parted
  <2>3. \A j \in 0..Len(history) : j = 0
    BY <1>6
  <2>4. \A j \in (0+1)..Len(history) : FALSE
    BY <1>6
  <2>5. At(history, 0) = Origin
    BY DEF At
  <2> QED BY <1>6, <2>1, <2>2, <2>3, <2>4, <2>5 DEF Stands
<1>9. LinksStand(scene, history, 0, {})
  BY <1>0, <1>6 DEF LinksStand, At, Origin
<1>10. LiveStand(scene, history, u, {})
  BY <1>0 DEF LiveStand
<1>11. InStep(scene, history, 0, u, 0, {}, {})
  BY <1>2, <1>3, <1>4, <1>5, <1>6, <1>7, <1>8, <1>9, <1>10 DEF InStep
<1> QED BY <1>1, <1>11 DEF SceneInv

\* Whatever a tool, a step over the history or a direct call does.
LEMMA SceneRuns == SceneInv /\ [SceneNext]_sceneVars => SceneInv'
<1> SUFFICES ASSUME SceneInv, [SceneNext]_sceneVars PROVE SceneInv'
  OBVIOUS
<1>1. CASE Edit
  BY <1>1, AddInStep, InstanceInStep, DuplicateInStep, RemoveInStep, ReparentInStep,
     SettersInStep, WiresInStep, GroupsInStep DEF Edit
<1>2. CASE Undo
  BY <1>2, UndoInStep
<1>3. CASE Redo
  BY <1>3, RedoInStep
<1>4. CASE CallMethod
  BY <1>4, CallInStep
<1>5. CASE Outside
  BY <1>5 DEF Outside, SceneInv
<1>6. CASE UNCHANGED sceneVars
  BY <1>6 DEF sceneVars, SceneInv
<1> QED BY <1>1, <1>2, <1>3, <1>4, <1>5, <1>6 DEF SceneNext

LEMMA InStepIsSaved == SceneInv => SaveIsComplete
<1>1. SUFFICES ASSUME SceneInv, ~cutLoose, NEW n \in Placed(scene) \ SavedNodes(scene)
               PROVE  \E k \in Above(scene, n) : scene.inside[k] \/ k \in misowned
  BY DEF SaveIsComplete
<1>2. Rooted(scene) /\ Owned(scene, misowned)
  BY <1>1 DEF SceneInv, InStep
<1>3. PICK k \in Above(scene, n) \ {Root} : ~scene.owned[k]
  BY <1>1 DEF SavedNodes
<1>4. k \in Placed(scene) \ {Root}
  BY <1>2, <1>3, OnTheWay
<1> QED BY <1>2, <1>3, <1>4 DEF Owned

LEMMA InStepRestores ==
  ASSUME SceneInv, ~cutLoose
  PROVE  /\ Undo => Restores(scene, scene', history[done], history[done].before)
         /\ Redo => Restores(scene, scene', history[done+1], After(history[done+1]))
<1>1. PICK u : InStep(scene, history, done, u, made, strays, misowned)
  BY DEF SceneInv
<1>2. ASSUME Undo PROVE Restores(scene, scene', history[done], history[done].before)
  <2>1. done > 0 /\ scene' = Run(scene, history[done].undo)
    BY <1>2 DEF Undo
  <2> QED BY <1>1, <2>1, UndoRestores
<1>3. ASSUME Redo PROVE Restores(scene, scene', history[done+1], After(history[done+1]))
  <2>1. done < Len(history) /\ scene' = Run(scene, history[done + 1].do)
    BY <1>3 DEF Redo
  <2> QED BY <1>1, <2>1, RedoRestores
<1> QED BY <1>2, <1>3

\* A save writes every node the tools put into the scene, whatever was undone and
\* redone: each is owned, or inside an instance, or one whose owner no undo puts
\* back (queue_owner_recursive, and what a remove and its undo leave).
THEOREM SavesAreWhole == SceneSpec => []SaveIsComplete
<1> QED BY SceneStarts, SceneRuns, InStepIsSaved, PTL DEF SceneSpec

\* gd_undo takes back exactly what the newest action did, and gd_redo does again
\* what the undone one did, whatever was done, undone, redone or called in between:
\* the scene is in step with the chain of scenes the history was made on.
THEOREM StepsRestore == SceneSpec => HistoryRestores
<1>1. SceneInv => [~cutLoose =>
        /\ Undo => Restores(scene, scene', history[done], history[done].before)
        /\ Redo => Restores(scene, scene', history[done+1], After(history[done+1]))]_sceneVars
  BY InStepRestores
<1> QED BY SceneStarts, SceneRuns, <1>1, PTL DEF SceneSpec, HistoryRestores

=============================================================================
