------------------------------- MODULE Values -------------------------------
(***************************************************************************)
(* The wire form of engine values (bridge/src/variant_json.rs): what an    *)
(* agent reads from a property, and what is left in it when the agent      *)
(* writes the same thing back or passes it to a call.  In between the      *)
(* value is a number, string, array or object of the broker, which is      *)
(* JavaScript.                                                             *)
(*                                                                         *)
(* A JSON value is a record with the one field that names its kind: null,  *)
(* bool, int, float (in halves), str, digits (a string of digits), arr,    *)
(* obj.  Integers have Width bits where the code has 32 and ByteWidth      *)
(* where it has 8; JavaScript is exact up to Exact.                        *)
(***************************************************************************)
EXTENDS Integers, Sequences

CONSTANTS Width, ByteWidth, Exact,
          Saved,       \* paths of resources that load
          MaxWrites    \* bound on the writes and calls of the agent

ASSUME ValuesAssumption == {Width, ByteWidth, Exact, MaxWrites} \subseteq Nat \ {0}

F(name, of) == [name |-> name, of |-> of]
XY(of) == <<F("x", of), F("y", of)>>
XYZ(of) == XY(of) \o <<F("z", of)>>
XYZW(of) == XYZ(of) \o <<F("w", of)>>

\* The constituent fields of the tagged types.
Shape ==
  [Vector2 |-> XY("f32"), Vector3 |-> XYZ("f32"), Vector4 |-> XYZW("f32"),
   Vector2i |-> XY("i32"), Vector3i |-> XYZ("i32"), Vector4i |-> XYZW("i32"),
   Quaternion |-> XYZW("f32"),
   Color |-> <<F("r", "f32"), F("g", "f32"), F("b", "f32"), F("a", "alpha")>>,
   Rect2 |-> <<F("position", "Vector2"), F("size", "Vector2")>>,
   Rect2i |-> XY("i32") \o <<F("w", "i32"), F("h", "i32")>>,
   Transform2D |-> XY("Vector2") \o <<F("origin", "Vector2")>>,
   Basis |-> XYZ("Vector3"),
   Transform3D |-> <<F("basis", "Basis"), F("origin", "Vector3")>>,
   AABB |-> <<F("position", "Vector3"), F("size", "Vector3")>>,
   Plane |-> <<F("normal", "Vector3"), F("d", "f32")>>,
   Projection |-> XYZW("Vector4")]

\* The elements of the packed arrays.
Element ==
  [PackedByteArray |-> "u8", PackedInt32Array |-> "i32", PackedInt64Array |-> "i64",
   PackedFloat32Array |-> "f32", PackedFloat64Array |-> "f32", PackedStringArray |-> "str",
   PackedVector2Array |-> "Vector2", PackedVector3Array |-> "Vector3", PackedColorArray |-> "Color"]

Tagged == DOMAIN Shape
Packed == DOMAIN Element

\* Those that also take a plain array, and those a property's own type is enough for.
ArrayForm == {"Vector2", "Vector3", "Vector4", "Quaternion"}
Untagged == ArrayForm \cup {"Color", "Transform2D", "Basis", "Transform3D", "AABB", "Plane", "Projection"}

Bad == [bad |-> TRUE]
Null == [null |-> TRUE]
Is(j, k) == k \in DOMAIN j
IsNumber(j) == Is(j, "int") \/ Is(j, "float")
IsText(j) == Is(j, "str") \/ Is(j, "digits")
AsF64(j) == IF Is(j, "int") THEN [half |-> 2 * j.int] ELSE [half |-> j.float]
Wrapped(n, width) == ((n + 2^(width - 1)) % 2^width) - 2^(width - 1)
Tag(j) == IF Is(j, "obj") /\ "__type" \in DOMAIN j.obj /\ Is(j.obj["__type"], "str")
          THEN j.obj["__type"].str ELSE ""

\* gdext stores a Basis by rows; its wire form is by columns.
Columns(rows) ==
  [i \in 1..3 |-> [kind |-> "Vector3", parts |-> [k \in 1..3 |-> rows[k].parts[i]]]]

\* Slip: the columns are taken for the rows.
ColumnsAsRows(columns) == columns

FromColumns(columns) == Columns(columns)

JsonNumber(x) == IF Is(x, "half") THEN [float |-> x.half] ELSE Null

\* A key as text; an int key and a string of its digits give the same.
KeyText(k) == IF k.kind = "INT" THEN "1" ELSE k.text

RidJson(id) == [digits |-> id]

RECURSIVE ToJson(_)
ToJson(v) ==
  LET part(x) == IF Is(x, "int") THEN x
                 ELSE IF Is(x, "half") \/ Is(x, "nan") THEN JsonNumber(x)
                 ELSE IF Is(x, "str") THEN x ELSE ToJson(x)
      tagged(t, parts) ==
        LET at == [n \in {f.name : f \in {Shape[t][i] : i \in 1..Len(Shape[t])}} |->
                     part(parts[CHOOSE i \in 1..Len(Shape[t]) : Shape[t][i].name = n])]
        IN [obj |-> [n \in DOMAIN at \cup {"__type"} |-> IF n = "__type" THEN [str |-> t] ELSE at[n]]]
  IN CASE v.kind = "NIL" -> Null
       [] v.kind = "BOOL" -> [bool |-> v.bool]
       [] v.kind = "INT" -> [int |-> v.int]
       [] v.kind = "FLOAT" -> JsonNumber(v.float)
       [] v.kind \in {"STRING", "STRING_NAME", "NODE_PATH"} -> [str |-> v.text]
       [] v.kind = "Basis" -> tagged("Basis", Columns(v.parts))
       [] v.kind \in Tagged \ {"Basis"} -> tagged(v.kind, v.parts)
       [] v.kind \in Packed -> [arr |-> [i \in DOMAIN v.items |-> part(v.items[i])]]
       [] v.kind = "ARRAY" -> [arr |-> [i \in DOMAIN v.items |-> ToJson(v.items[i])]]
       [] v.kind = "DICTIONARY" ->
            [obj |-> [t \in {KeyText(e[1]) : e \in v.entries} |->
                        ToJson((CHOOSE e \in v.entries : KeyText(e[1]) = t)[2])]]
       [] v.kind = "RESOURCE" ->
            IF v.path = "" THEN [str |-> "<Resource>"]
            ELSE [obj |-> [n \in {"__type", "path"} |-> [str |-> IF n = "path" THEN v.path ELSE "Resource"]]]
       [] v.kind = "OBJECT" -> [str |-> "<Object>"]
       [] v.kind = "RID" -> [obj |-> [n \in {"__type", "id"} |->
                                        IF n = "id" THEN RidJson(v.id) ELSE [str |-> "RID"]]]

\* JSON.parse and JSON.stringify of the broker.
RECURSIVE ThroughBroker(_)
ThroughBroker(j) ==
  IF Is(j, "float") /\ j.float % 2 = 0 THEN [int |-> j.float \div 2]
  ELSE IF Is(j, "int") /\ j.int > Exact THEN [int |-> (j.int \div 2) * 2]
  ELSE IF Is(j, "arr") THEN [arr |-> [i \in DOMAIN j.arr |-> ThroughBroker(j.arr[i])]]
  ELSE IF Is(j, "obj") THEN [obj |-> [n \in DOMAIN j.obj |-> ThroughBroker(j.obj[n])]]
  ELSE j

RidOf(j) == IF Is(j, "digits") THEN [kind |-> "RID", id |-> j.digits]
            ELSE IF Is(j, "int") /\ j.int >= 0 THEN [kind |-> "RID", id |-> j.int]
            ELSE Bad

\* to_vector2 and its siblings, field_f32, field_i32: one value of a known type.
RECURSIVE Accept(_, _)
Accept(t, j) ==
  CASE t = "f32" -> IF IsNumber(j) THEN AsF64(j) ELSE Bad
    [] t = "alpha" -> IF IsNumber(j) THEN AsF64(j) ELSE [half |-> 2]
    [] t = "i64" -> IF Is(j, "int") THEN j ELSE Bad
    [] t = "i32" -> IF Is(j, "int") THEN [int |-> Wrapped(j.int, Width)] ELSE Bad
    [] t = "u8" -> IF Is(j, "int") THEN [int |-> j.int % 2^ByteWidth] ELSE Bad
    [] t = "str" -> IF Is(j, "str") THEN j ELSE Bad
    [] t \in Tagged ->
         LET fields == Shape[t]
             given(i) == IF Is(j, "arr") THEN j.arr[i]
                         ELSE IF fields[i].name \in DOMAIN j.obj THEN j.obj[fields[i].name] ELSE Null
             readable == \/ Is(j, "obj")
                         \/ Is(j, "arr") /\ t \in ArrayForm /\ Len(j.arr) = Len(fields)
             parts == [i \in 1..Len(fields) |-> Accept(fields[i].of, given(i))]
         IN IF ~readable \/ \E i \in DOMAIN parts : parts[i] = Bad THEN Bad
            ELSE [kind |-> t, parts |-> IF t = "Basis" THEN FromColumns(parts) ELSE parts]

Loaded(path) == IF path \in Saved THEN [kind |-> "RESOURCE", path |-> path] ELSE Bad

\* tagged_to_variant; no handle of an object is held here.
FromTagged(tag, obj) ==
  LET at(n) == IF n \in DOMAIN obj THEN obj[n] ELSE Null IN
  CASE tag \in Tagged -> Accept(tag, [obj |-> obj])
    [] tag \in Packed ->
         IF ~Is(at("data"), "arr") THEN Bad
         ELSE LET items == [i \in DOMAIN at("data").arr |-> Accept(Element[tag], at("data").arr[i])]
              IN IF \E i \in DOMAIN items : items[i] = Bad THEN Bad ELSE [kind |-> tag, items |-> items]
    [] tag = "Resource" -> IF Is(at("path"), "str") THEN Loaded(at("path").str) ELSE Bad
    [] tag = "RID" -> RidOf(at("id"))
    [] OTHER -> Bad

RECURSIVE FromJson(_)
FromJson(j) ==
  CASE Is(j, "null") -> [kind |-> "NIL"]
    [] Is(j, "bool") -> [kind |-> "BOOL", bool |-> j.bool]
    [] Is(j, "int") -> [kind |-> "INT", int |-> j.int]
    [] Is(j, "float") -> [kind |-> "FLOAT", float |-> AsF64(j)]
    [] Is(j, "str") -> [kind |-> "STRING", text |-> j.str]
    [] Is(j, "digits") -> [kind |-> "STRING", text |-> "1"]
    [] Is(j, "arr") ->
         LET items == [i \in DOMAIN j.arr |-> FromJson(j.arr[i])]
         IN IF \E i \in DOMAIN items : items[i] = Bad THEN Bad ELSE [kind |-> "ARRAY", items |-> items]
    [] Is(j, "obj") ->
         IF Tag(j) # "" THEN FromTagged(Tag(j), j.obj)
         ELSE LET values == [n \in DOMAIN j.obj |-> FromJson(j.obj[n])]
              IN IF \E n \in DOMAIN values : values[n] = Bad THEN Bad
                 ELSE [kind |-> "DICTIONARY",
                       entries |-> {<<[kind |-> "STRING", text |-> n], values[n]>> : n \in DOMAIN values}]

\* A value for a property of a known type; the tag wins.
FromJsonTyped(j, type) ==
  CASE Tag(j) # "" -> FromJson(j)
    [] Tag(j) = "" /\ type \in Untagged -> Accept(type, j)
    [] Tag(j) = "" /\ type = "FLOAT" -> IF IsNumber(j) THEN [kind |-> "FLOAT", float |-> AsF64(j)] ELSE Bad
    [] Tag(j) = "" /\ type = "INT" -> IF Is(j, "int") THEN FromJson(j) ELSE Bad
    [] Tag(j) = "" /\ type = "BOOL" -> IF Is(j, "bool") THEN FromJson(j) ELSE Bad
    [] Tag(j) = "" /\ type \in {"STRING_NAME", "NODE_PATH"} ->
         IF Is(j, "str") THEN [kind |-> type, text |-> j.str] ELSE Bad
    [] Tag(j) = "" /\ type = "RID" -> RidOf(j)
    [] OTHER -> FromJson(j)

\* Object::set: the engine converts an array for a packed property and ignores
\* what it cannot convert.
Assigned(old, v) ==
  IF v.kind = old.kind THEN v
  ELSE IF old.kind \in Packed /\ v.kind = "ARRAY"
  THEN LET element(x) ==
             IF x.kind = "INT" THEN (IF Element[old.kind] = "f32" THEN [half |-> 2 * x.int] ELSE [int |-> x.int])
             ELSE IF x.kind = "FLOAT" THEN x.float
             ELSE IF x.kind = "STRING" THEN [str |-> x.text]
             ELSE IF x.kind = "NIL" THEN [half |-> 0] ELSE x
       IN [old EXCEPT !.items = [i \in DOMAIN v.items |-> element(v.items[i])]]
  ELSE old

VARIABLES held,      \* the property's value; its type never changes
          answer,    \* what the agent was told of it
          argument,  \* what the last call received
          writes     \* the bound's counter

valueVars == <<held, answer, argument, writes>>

ValuesInit(values) == held \in values /\ answer = Null /\ argument = [kind |-> "NIL"] /\ writes = 0

\* gd_node_get_property and every other answer that holds a value.
ReadValue ==
  /\ answer = Null
  /\ answer' = ThroughBroker(ToJson(held))
  /\ UNCHANGED <<held, argument, writes>>

\* The agent writes what it read.
WriteBack ==
  /\ answer # Null /\ writes < MaxWrites
  /\ LET v == FromJsonTyped(ThroughBroker(answer), held.kind)
     IN held' = IF v = Bad THEN held ELSE Assigned(held, v)
  /\ answer' = Null /\ writes' = writes + 1
  /\ UNCHANGED argument

\* A vector as a plain array, every type as an object without its tag.
RECURSIVE Bare(_, _)
Bare(j, form) ==
  IF ~Is(j, "obj") THEN j
  ELSE IF form = "array" /\ Tag(j) \in ArrayForm
  THEN [arr |-> [i \in 1..Len(Shape[Tag(j)]) |-> j.obj[Shape[Tag(j)][i].name]]]
  ELSE [obj |-> [n \in DOMAIN j.obj \ {"__type"} |-> Bare(j.obj[n], form)]]

\* The agent relies on the property's type.
WriteBare(form) ==
  /\ answer # Null /\ writes < MaxWrites /\ held.kind \in Tagged
  /\ LET v == FromJsonTyped(ThroughBroker(Bare(answer, form)), held.kind)
     IN held' = IF v = Bad THEN held ELSE Assigned(held, v)
  /\ answer' = Null /\ writes' = writes + 1
  /\ UNCHANGED argument

\* The agent passes what it read to a method.
PassOn ==
  /\ answer # Null /\ writes < MaxWrites
  /\ LET v == FromJson(ThroughBroker(answer))
     IN argument' = IF v = Bad THEN [kind |-> "NIL"] ELSE v
  /\ answer' = Null /\ writes' = writes + 1
  /\ UNCHANGED held

ValuesNext == ReadValue \/ WriteBack \/ (\E form \in {"object", "array"} : WriteBare(form)) \/ PassOn

----------------------------------------------------------------------------
(* Properties. *)

Parts(v) == IF "parts" \in DOMAIN v THEN {v.parts[i] : i \in DOMAIN v.parts}
            ELSE IF "items" \in DOMAIN v THEN {v.items[i] : i \in DOMAIN v.items} ELSE {}

NotANumber == [nan |-> TRUE]

\* What the wire form keeps when nothing says what type is meant: no whole
\* float by itself, no string but String, no packed array, no object but a
\* saved resource, and no dictionary but one keyed by strings other than __type.
RECURSIVE Plain(_)
Plain(v) ==
  CASE v.kind = "FLOAT" -> v.float # NotANumber /\ v.float.half % 2 = 1
    [] v.kind = "INT" -> v.int <= Exact
    [] v.kind \in {"NIL", "BOOL", "STRING", "RID"} -> TRUE
    [] v.kind \in {"STRING_NAME", "NODE_PATH", "OBJECT"} \cup Packed -> FALSE
    [] v.kind = "RESOURCE" -> v.path \in Saved
    [] v.kind \in Tagged -> \A x \in Parts(v) : x # NotANumber /\ ("parts" \in DOMAIN x => Plain(x))
    [] v.kind = "ARRAY" -> \A x \in Parts(v) : Plain(x)
    [] v.kind = "DICTIONARY" -> \A e \in v.entries : e[1].kind = "STRING" /\ e[1].text # "__type" /\ Plain(e[2])

\* What a write to the property it was read from does not change: the above,
\* what its type restores, and what is refused or ignored.  Not an integer
\* JavaScript rounds, nor an alpha or an element that is no number.
Restorable(v) ==
  \/ Plain(v)
  \/ v.kind \in {"FLOAT", "STRING_NAME", "NODE_PATH", "OBJECT", "RESOURCE"}
  \/ v.kind \in Tagged \ {"Color"}
  \/ v.kind \in Packed /\ \A x \in Parts(v) :
       /\ x # NotANumber /\ ("int" \in DOMAIN x => x.int <= Exact)
       /\ "parts" \in DOMAIN x => Plain(x)

\* An agent that writes back what it read, tagged or in a form the property's
\* type is enough for, leaves the property as it was; one that passes it on
\* passes that value.
WhatIsReadGoesBack ==
  [][/\ (WriteBack \/ \E form \in {"object", "array"} : WriteBare(form))
          => (held' = held \/ ~Restorable(held))
     /\ PassOn => (argument' = held \/ ~Plain(held))]_valueVars

=============================================================================
