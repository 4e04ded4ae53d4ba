------------------------------ MODULE LogTail ------------------------------
(***************************************************************************)
(* Incremental reading of an engine log (log_tail.rs; runtime/observe.rs   *)
(* and editor/logs.rs): two cursors into one file, each advanced by the    *)
(* reads of its tool.                                                      *)
(*                                                                         *)
(* The engine's threads append while a tool reads, and the file may be     *)
(* replaced by a new one.  A read asks for the length, then reads to the   *)
(* end, which may by then be further.                                      *)
(***************************************************************************)
EXTENDS Integers

CONSTANTS
  MaxLog,      \* length a log reaches
  MaxFiles,    \* logs, one replacing the other
  MaxBytes,    \* max_bytes
  HasPath      \* CONDUIT_LOG_FILE says where the log is (the game knows its own)

ASSUME LogAssumption == /\ MaxLog \in Nat /\ MaxFiles \in Nat \ {0} /\ MaxBytes \in Nat
                        /\ HasPath \in BOOLEAN

Tools == {"logs", "errors"}

VARIABLES
  logFile, logLen,   \* which log it is; its length
  cursor,            \* LOG_OFFSET, ERROR_OFFSET
  reading,           \* the length a tool was told, -1 when it is not reading
  told,              \* what each tool has handed out of the present log
  clipped,           \* what it said it left out
  cursorOf,          \* the log each cursor was set in
  mistaken           \* a cursor of an older log was used in one that is longer

logVars == <<logFile, logLen, cursor, reading, told, clipped, cursorOf, mistaken>>

LogInit ==
  /\ logFile = 1 /\ logLen = 0
  /\ cursor = [t \in Tools |-> 0] /\ reading = [t \in Tools |-> -1]
  /\ told = [t \in Tools |-> {}] /\ clipped = [t \in Tools |-> {}]
  /\ cursorOf = [t \in Tools |-> 1] /\ mistaken = [t \in Tools |-> FALSE]

EngineLogs ==
  /\ logLen < MaxLog /\ logLen' = logLen + 1
  /\ UNCHANGED <<logFile, cursor, reading, told, clipped, cursorOf, mistaken>>

\* A new log, as long as it happens to be when a tool next looks.
LogRotated ==
  /\ logFile < MaxFiles /\ logFile' = logFile + 1
  /\ \A t \in Tools : reading[t] = -1
  /\ \E n \in 0..MaxLog : logLen' = n
  /\ told' = [t \in Tools |-> {}] /\ clipped' = [t \in Tools |-> {}]
  /\ mistaken' = [t \in Tools |-> FALSE]
  /\ UNCHANGED <<cursor, reading, cursorOf>>

\* An editor whose launcher did not say where its log is answers log_unavailable.
LogOpened(t) ==
  /\ HasPath /\ reading[t] = -1
  /\ \A u \in Tools : reading[u] = -1
  /\ reading' = [reading EXCEPT ![t] = logLen]
  /\ UNCHANGED <<logFile, logLen, cursor, told, clipped, cursorOf, mistaken>>

Start(t) == IF cursor[t] > reading[t] THEN 0 ELSE cursor[t]   \* rotated: from the beginning

\* read_log_range and the cursor's store.  The tail is kept, and the answer says so.
LogRead(t) ==
  /\ reading[t] # -1
  /\ LET from == Start(t)
         text == IF from >= reading[t] THEN {} ELSE (from + 1)..logLen
         kept == {b \in text : b > logLen - MaxBytes}
     IN /\ told' = [told EXCEPT ![t] = @ \cup kept]
        /\ clipped' = [clipped EXCEPT ![t] = @ \cup (text \ kept)]
  /\ cursor' = [cursor EXCEPT ![t] = reading[t]]
  /\ reading' = [reading EXCEPT ![t] = -1]
  /\ cursorOf' = [cursorOf EXCEPT ![t] = logFile]
  /\ mistaken' = [mistaken EXCEPT ![t] = @ \/ (cursorOf[t] # logFile /\ cursor[t] \in 1..reading[t])]
  /\ UNCHANGED <<logFile, logLen>>

GetLogs   == LogOpened("logs") \/ LogRead("logs")
GetErrors == LogOpened("errors") \/ LogRead("errors")

LogNext == EngineLogs \/ LogRotated \/ GetLogs \/ GetErrors

------------------------------------------------------------------------------

\* Whatever of the present log lies before a tool's cursor, the tool has handed out
\* or has said it left out; the other tool's reads take nothing from it.  (Not so when
\* a log was replaced by one that is already longer: nothing tells it from the old.)
NothingIsSkipped ==
  \A t \in Tools :
    cursorOf[t] = logFile /\ ~mistaken[t] => 1..cursor[t] \subseteq told[t] \cup clipped[t]
=============================================================================
