------------------------------ MODULE MCLinks ------------------------------
(* A link and what it carries: the clocks of the two kinds of connection, the *)
(* wire form of values, the tools a project defines.  The four groups share   *)
(* no state, so a behaviour is of one of them.                                *)
EXTENDS LinkLiveness, PipeLink, Values, ProjectTools

VARIABLE group

----------------------------------------------------------------------------
(* Values of every kind, alone, in an array and under a key. *)

Whole == [half |-> 2]
Frac == [half |-> 1]
Zero == [half |-> 0]
I(n) == [int |-> n]
V(type, parts) == [kind |-> type, parts |-> parts]
V2(x, y) == V("Vector2", <<x, y>>)
V3(x, y, z) == V("Vector3", <<x, y, z>>)
Text(kind, text) == [kind |-> kind, text |-> text]
Rows == V("Basis", <<V3(Whole, Frac, Zero), V3(Zero, Whole, Frac), V3(Zero, Zero, Whole)>>)

Simple ==
  {[kind |-> "NIL"], [kind |-> "BOOL", bool |-> TRUE], [kind |-> "OBJECT"], [kind |-> "RID", id |-> Exact + 1]}
  \cup {[kind |-> "INT", int |-> n] : n \in {1, Exact + 1}}
  \cup {[kind |-> "FLOAT", float |-> x] : x \in {Whole, Frac, NotANumber}}
  \cup {Text("STRING", "a"), Text("STRING", "Vector2"), Text("STRING_NAME", "a"), Text("NODE_PATH", "a")}
  \cup {[kind |-> "RESOURCE", path |-> p] : p \in {"", "res://a", "res://gone"}}

Composite ==
  {V2(Whole, Frac), V2(Frac, NotANumber), V3(Whole, Frac, Zero), V("Vector4", <<Whole, Frac, Zero, Frac>>),
   V("Vector2i", <<I(1), I(-2)>>), V("Vector3i", <<I(1), I(-2), I(0)>>),
   V("Vector4i", <<I(1), I(-2), I(0), I(1)>>), V("Rect2i", <<I(1), I(0), I(2), I(3)>>),
   V("Quaternion", <<Whole, Frac, Zero, Frac>>),
   V("Color", <<Frac, Frac, Whole, Frac>>), V("Color", <<Frac, Frac, Whole, NotANumber>>),
   V("Rect2", <<V2(Whole, Frac), V2(Frac, Zero)>>),
   V("Transform2D", <<V2(Whole, Zero), V2(Zero, Whole), V2(Frac, Frac)>>),
   Rows, V("Transform3D", <<Rows, V3(Frac, Zero, Zero)>>),
   V("AABB", <<V3(Zero, Zero, Zero), V3(Frac, Frac, Whole)>>), V("Plane", <<V3(Zero, Whole, Zero), Frac>>),
   V("Projection", [i \in 1..4 |-> V("Vector4", [k \in 1..4 |-> [half |-> i + k]])])}

PackedOf == 
  [PackedByteArray |-> {I(3)}, PackedInt32Array |-> {I(-3)}, PackedInt64Array |-> {I(1), I(Exact + 1)},
   PackedFloat32Array |-> {Whole}, PackedFloat64Array |-> {Frac, NotANumber},
   PackedStringArray |-> {[str |-> "a"]}, PackedVector2Array |-> {V2(Whole, Frac)},
   PackedVector3Array |-> {V3(Whole, Frac, Zero)}, PackedColorArray |-> {V("Color", <<Frac, Frac, Whole, Frac>>)}]

Leaves == Simple \cup Composite
            \cup UNION {{[kind |-> t, items |-> <<x>>] : x \in PackedOf[t]} : t \in DOMAIN PackedOf}
Keys == {Text("STRING", "a"), Text("STRING", "__type"), [kind |-> "INT", int |-> 1]}
Digit == Text("STRING", "1")
Arrays == {[kind |-> "ARRAY", items |-> <<x>>] : x \in Leaves}

AllValues ==
  Leaves \cup Arrays
  \cup {[kind |-> "ARRAY", items |-> <<x, Digit>>] : x \in Arrays}
  \cup {[kind |-> "DICTIONARY", entries |-> {<<k, x>>}] : k \in Keys \cup {Digit}, x \in Leaves}
  \cup {[kind |-> "DICTIONARY", entries |-> {<<k, x>>, <<Digit, Digit>>}] : k \in Keys, x \in Simple}

TwoPlaces == <<"p", "q">>

----------------------------------------------------------------------------

LinksInit ==
  /\ group \in {"heartbeat", "pipe", "values", "tools"}
  /\ Init /\ PipeInit /\ ToolsInit
  /\ IF group = "values" THEN ValuesInit(AllValues) ELSE ValuesInit({[kind |-> "NIL"]})
  /\ group # "heartbeat" => modern = [e \in Ends |-> TRUE]
  /\ group # "tools" => nodes = [i \in 1..Len(Places) |-> Absent]

LinksNext ==
  \/ group = "heartbeat" /\ Next /\ UNCHANGED <<group, pipeVars, valueVars, toolVars>>
  \/ group = "pipe" /\ PipeNext /\ UNCHANGED <<group, vars, valueVars, toolVars>>
  \/ group = "values" /\ ValuesNext /\ UNCHANGED <<group, vars, pipeVars, toolVars>>
  \/ group = "tools" /\ ToolsNext /\ UNCHANGED <<group, vars, pipeVars, valueVars>>

LinksSpec == LinksInit /\ [][LinksNext]_<<group, vars, pipeVars, valueVars, toolVars>>
ToolsOnly == LinksInit /\ group = "tools" /\ [][LinksNext]_<<group, vars, pipeVars, valueVars, toolVars>>
=============================================================================
