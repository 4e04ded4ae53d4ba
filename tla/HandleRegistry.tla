--------------------------- MODULE HandleRegistry ---------------------------
(***************************************************************************)
(* What a table of object handles promises to those who hold the handles:  *)
(* an identifier is given to one object, names that object for as long as  *)
(* it is held, and is never given out again.  Nothing is dropped to make   *)
(* room.                                                                   *)
(***************************************************************************)
CONSTANTS Objects, Ids

VARIABLES
  used,    \* identifiers given out so far
  owner    \* the object of each identifier still held

registryVars == <<used, owner>>

Init == used = {} /\ DOMAIN owner = {}

Take(id, o) ==
  /\ id \notin used
  /\ used' = used \cup {id}
  /\ owner' = [i \in DOMAIN owner \cup {id} |-> IF i = id THEN o ELSE owner[i]]

Release(ids) ==
  /\ ids \subseteq DOMAIN owner
  /\ owner' = [i \in DOMAIN owner \ ids |-> owner[i]]
  /\ UNCHANGED used

Next ==
  \/ \E id \in Ids, o \in Objects : Take(id, o)
  \/ \E ids \in {{i} : i \in DOMAIN owner} \cup {DOMAIN owner} : Release(ids)

Spec == Init /\ [][Next]_registryVars
=============================================================================
