---------------------------- MODULE ProjectChecks ----------------------------
(***************************************************************************)
(* gd_script_validate, gd_shader_validate and gd_export_project            *)
(* (editor/script.rs, shader.rs, import_export.rs): a child Godot process  *)
(* whose output goes to a scratch file, polled each frame, without a       *)
(* deadline, until it has exited.                                          *)
(*                                                                         *)
(* Output is a sequence of lines, one of                                   *)
(*   "noise"    anything else     "error"  a diagnostic of the compiler    *)
(*   "begin", "end", "missing", "other"  the markers of the shader driver  *)
(***************************************************************************)
EXTENDS Integers, Sequences, FiniteSets, SequencesExt

CONSTANTS
  MaxChecks,    \* calls
  TailLines,    \* stands for VALIDATE_OUTPUT_MAX_BYTES, EXPORT_OUTPUT_MAX_BYTES
  MaxNoise,     \* lines of noise before and after
  HonestExit    \* --check-only of a broken script exits non-zero (it does not on macOS)

ASSUME ChecksAssumption == /\ MaxChecks \in Nat /\ TailLines \in Nat \ {0}
                           /\ MaxNoise \in Nat /\ HonestExit \in BOOLEAN

VARIABLES
  checks,    \* calls by number
  scratch,   \* scratch files, as <<call, file>>
  torn,      \* driver scripts a failing write left behind
  artifact   \* there is a file at the export's output path

checkVars == <<checks, scratch, torn, artifact>>

CheckIds == 1..MaxChecks
Tools == {"script", "shader", "export"}

\* What is prepared, in order; the spawn comes last and makes no file, as does the
\* second handle on the log.
Prepared == [script |-> <<"log", "handle">>,
             shader |-> <<"driver", "log", "handle">>,
             export |-> <<"log", "handle", "runtime">>]
Scratch(c, steps) == {<<c, s>> : s \in steps \ {"handle"}}

NoCheck == [st |-> "new", tool |-> "script", broken |-> FALSE, out |-> <<>>, ok |-> TRUE,
            verdict |-> "none",
            cut |-> FALSE,      \* ghost: the child died with a diagnostic unsaid
            unread |-> FALSE]   \* ghost: not all that was printed was read

ChecksInit ==
  /\ checks = [c \in CheckIds |-> NoCheck]
  /\ scratch = {} /\ torn = {} /\ artifact \in BOOLEAN

NextCheck(c) == checks[c].st = "new" /\ \A d \in 1..(c - 1) : checks[d].st # "new"

\* Every early return removes the files made so far.
LeftByFailure(c, tool, k) == {}

\* k preparations succeed; the (k+1)th, or the spawn, fails.
PrepareFails(c, tool) ==
  \E k \in 0..Len(Prepared[tool]) :
    /\ checks' = [checks EXCEPT ![c] = [NoCheck EXCEPT !.st = "settled", !.tool = tool, !.verdict = "failed"]]
    /\ scratch' = scratch \cup LeftByFailure(c, tool, k)
    /\ torn' \in IF tool = "shader" /\ k = 0 THEN {torn, torn \cup {<<c, "driver">>}} ELSE {torn}
    /\ UNCHANGED artifact

Spawn(c, tool) ==
  \E broken \in BOOLEAN :
    /\ checks' = [checks EXCEPT ![c] = [NoCheck EXCEPT !.st = "running", !.tool = tool, !.broken = broken]]
    /\ scratch' = scratch \cup Scratch(c, ToSet(Prepared[tool]))
    /\ UNCHANGED <<torn, artifact>>

ScriptValidate == \E c \in CheckIds : NextCheck(c) /\ (PrepareFails(c, "script") \/ Spawn(c, "script"))
ShaderValidate == \E c \in CheckIds : NextCheck(c) /\ (PrepareFails(c, "shader") \/ Spawn(c, "shader"))
ExportProject  == \E c \in CheckIds : NextCheck(c) /\ (PrepareFails(c, "export") \/ Spawn(c, "export"))

------------------------------------------------------------------------------
(* The child, external to the code except for the driver of the shader check. *)

Noise == {[i \in 1..n |-> "noise"] : n \in 0..MaxNoise}

\* What the driver prints, and what the compiler does of a broken shader in between.
\* (Nobody looks for the end marker.)
Bodies(tool, broken) ==
  LET diagnosed == IF broken THEN <<"error">> ELSE <<>> IN
  IF tool = "shader"
  THEN {<<"missing">>, <<"other">>, <<>>, <<"begin">> \o diagnosed \o <<"end">>}
  ELSE {diagnosed}

\* What an autoload runs into comes first, in the words of a diagnostic too: the
\* project's autoloads are loaded before the driver, or the script, is.
Begun(tool, broken)   == {a \o b : a \in Noise \cup {<<"error">>}, b \in Bodies(tool, broken)}
Outputs(tool, broken) == {a \o b : a \in Begun(tool, broken), b \in Noise}

ChildExits ==
  \E c \in CheckIds :
    /\ checks[c].st = "running"
    /\ \E out \in Outputs(checks[c].tool, checks[c].broken), ok \in BOOLEAN :
         /\ checks[c].tool = "script" =>
              ok = ~(HonestExit /\ checks[c].broken)
         /\ checks[c].tool = "export" => ok # checks[c].broken
         /\ checks' = [checks EXCEPT ![c].st = "exited", ![c].out = out, ![c].ok = ok]
    /\ artifact' = (artifact \/ (checks[c].tool = "export" /\ ~checks[c].broken))
    /\ UNCHANGED <<scratch, torn>>

\* It crashes or is killed on the way: the start of what it would have printed, and a
\* status that is no success.  An export may have written its file by then.
ChildDies ==
  \E c \in CheckIds :
    /\ checks[c].st = "running"
    /\ \E out \in Outputs(checks[c].tool, checks[c].broken) : \E k \in 0..Len(out) :
         checks' = [checks EXCEPT ![c].st = "exited", ![c].out = SubSeq(out, 1, k), ![c].ok = FALSE,
                                  ![c].cut = \E i \in (k + 1)..Len(out) : out[i] = "error"]
    /\ artifact' \in {artifact, artifact \/ checks[c].tool = "export"}
    /\ UNCHANGED <<scratch, torn>>

------------------------------------------------------------------------------
(* poll: read the scratch file, remove it, keep the tail, decide. *)

Kept(out) == IF Len(out) > TailLines THEN SubSeq(out, Len(out) - TailLines + 1, Len(out)) ELSE out

\* A file that cannot be read counts as an empty one.
ReadBack(out) == {Kept(out), <<>>}

HasErrors(text) == "error" \in ToSet(text)

\* Slip: no BEGIN is taken for a compile without a complaint.
InterpretWithoutBegin(text) ==
  CASE "missing" \in ToSet(text) -> "failed"
    [] "other" \in ToSet(text)   -> "failed"
    [] OTHER -> IF HasErrors(text) THEN "invalid" ELSE "valid"

\* The markers decide whether there is a verdict; errors count wherever they stand,
\* and the exit status nowhere.
Interpret(text) ==
  CASE "missing" \in ToSet(text)  -> "failed"
    [] "other" \in ToSet(text)    -> "failed"
    [] "begin" \notin ToSet(text) -> "failed"
    [] OTHER -> IF HasErrors(text) THEN "invalid" ELSE "valid"

Settle(c, text, verdict) ==
  /\ checks' = [checks EXCEPT ![c].st = "settled", ![c].verdict = verdict, ![c].ok = TRUE,
                              ![c].out = <<>>, ![c].unread = (text # checks[c].out)]
  /\ scratch' = scratch \ ({c} \X {"log", "driver", "runtime"})
  /\ UNCHANGED <<torn, artifact>>

Exited(tool) == {c \in CheckIds : checks[c].st = "exited" /\ checks[c].tool = tool}

ScriptPolled ==
  \E c \in Exited("script") : \E text \in ReadBack(checks[c].out) :
    Settle(c, text, IF checks[c].ok /\ ~HasErrors(text) THEN "valid" ELSE "invalid")

ShaderPolled == \E c \in Exited("shader") : \E text \in ReadBack(checks[c].out) : Settle(c, text, Interpret(text))

\* What is read is quoted in the refusal only.
ExportPolled ==
  \E c \in Exited("export") : Settle(c, checks[c].out, IF checks[c].ok /\ artifact THEN "valid" ELSE "failed")

\* try_wait itself fails.
WaitFails == \E c \in CheckIds : checks[c].st \in {"running", "exited"} /\ Settle(c, <<>>, "failed")

\* A human, or a rebuild, removes the exported file.
ArtifactRemoved == artifact /\ artifact' = FALSE /\ UNCHANGED <<checks, scratch, torn>>

ChecksNext ==
  \/ ScriptValidate \/ ShaderValidate \/ ExportProject
  \/ ChildExits \/ ChildDies
  \/ ScriptPolled \/ ShaderPolled \/ ExportPolled \/ WaitFails
  \/ ArtifactRemoved

------------------------------------------------------------------------------

\* Scratch files belong to a check that is under way: no early return, failed wait
\* or verdict leaves one behind (a driver script whose write failed half way is
\* left, nobody removes it).
NoScratchLeft ==
  \A x \in scratch : checks[x[1]].st \in {"running", "exited"}

\* What is called valid compiles, although the output is judged by its tail and
\* whatever its noise: the BEGIN marker in the tail shows that all of the compile is.
\* Two broken ones pass: a script whose check exits zero nevertheless and whose output
\* was not read whole, and a shader whose child died inside the compile, after BEGIN
\* and before the diagnostic.
VerdictIsSound ==
  \A c \in CheckIds :
    checks[c].verdict = "valid" =>
      \/ ~checks[c].broken
      \/ checks[c].tool = "script" /\ ~HonestExit /\ checks[c].unread
      \/ checks[c].tool = "shader" /\ checks[c].cut

=============================================================================
