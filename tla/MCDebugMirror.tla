---------------------------- MODULE MCDebugMirror ----------------------------
(* Small instances of DebugMirror. *)
EXTENDS DebugMirror, TLC

CONSTANTS s1, s2, l1, l2

OneSession  == {s1}
TwoSessions == {s1, s2}
NoLines     == {}
OneLine     == {l1}
TwoLines    == {l1, l2}

\* A file with the first line, and none that covers both.
FirstLine   == {{l1}}

SessionSymmetry == Permutations(TwoSessions)

\* Two parts of the same behaviours: the connections of the broker with few
\* signals and no command, and the commands with many signals and no broker.
VARIABLE part

CONSTANT MaxSignalsSeen   \* signals of a behaviour with connections

PartsInit == Init /\ part \in {"connections", "commands"}

PartsNext ==
  /\ Next /\ UNCHANGED part
  /\ part = "connections" => signals' <= MaxSignalsSeen /\ ops' = 0 /\ list' = {}
  /\ part = "commands" => conns' = 0

PartsSpec == PartsInit /\ [][PartsNext]_<<vars, part>>

=============================================================================
