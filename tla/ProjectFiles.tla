---------------------------- MODULE ProjectFiles ----------------------------
(***************************************************************************)
(* Files of the project and the editor's index of them: the tools that     *)
(* write, move and delete files, and the wait for the filesystem scan each *)
(* of them asks for (editor/scene.rs, script.rs, resource.rs, assets.rs,   *)
(* files.rs and support.rs: RescanPending).                                *)
(*                                                                         *)
(* The engine scans in the background, also on its own account, and        *)
(* ignores a request while a scan runs.                                    *)
(***************************************************************************)
EXTENDS Integers, FiniteSets

CONSTANTS
  Files,           \* paths, all of one kind
  NoFile,
  MaxFileCalls,
  MaxEngineScans,  \* scans the editor starts itself
  ScanDeadline     \* RESCAN_DEADLINE_FRAMES, SCENE_OPEN_DEADLINE_FRAMES

ASSUME FilesAssumption == /\ MaxFileCalls \in Nat /\ MaxEngineScans \in Nat
                          /\ ScanDeadline \in Nat \ {0} /\ NoFile \notin Files

VARIABLES
  kind,      \* a script (.uid beside it), an asset (.import), a resource (uid inside)
  files,     \* paths on disk
  uid,       \* uid in or beside a path, 0 for none; a sidecar can outlive its file
  ver,       \* changes made at a path
  index,     \* what the editor knows of a path: the change it has seen, the uid
  unread,    \* paths the running scan has yet to visit
  scanning,
  edited, opening,   \* the edited scene; scenes the engine is asked to open
  nextUid, engineScans,
  fcalls     \* suspended and settled calls

fileVars == <<kind, files, uid, ver, index, unread, scanning, edited, opening, nextUid, engineScans, fcalls>>

FileCalls == 1..MaxFileCalls
Fresh == [st |-> "new", file |-> NoFile, ver |-> 0, uid |-> 0, own |-> FALSE, open |-> FALSE, left |-> 0]

FilesInit ==
  /\ kind \in {"script", "asset", "resource"}
  /\ files \in {{f} : f \in Files}
  /\ uid = [f \in Files |-> IF f \in files THEN 1 ELSE 0]
  /\ ver = [f \in Files |-> 0]
  /\ index = [f \in Files |-> [ver |-> 0, uid |-> uid[f]]]
  /\ unread = {} /\ scanning = FALSE
  /\ edited \in {NoFile} \cup files /\ (edited # NoFile => kind = "resource") /\ opening = {}
  /\ nextUid = 2 /\ engineScans = 0
  /\ fcalls = [c \in FileCalls |-> Fresh]

NextCall(c) == fcalls[c].st = "new" /\ \A d \in 1..(c - 1) : fcalls[d].st # "new"
Waiting     == {c \in FileCalls : fcalls[c].st = "scan" \/ fcalls[c].st = "opening"}

------------------------------------------------------------------------------
(* trigger_rescan: fs.scan() and a suspended call.  `own` remembers whether *)
(* the scan it waits for was started for it.                                *)

TriggerRescan(c, f, u, open) ==
  /\ scanning' = TRUE
  /\ unread' = IF scanning THEN unread ELSE Files
  /\ fcalls' = [fcalls EXCEPT ![c] = [st |-> "scan", file |-> f, ver |-> ver'[f], uid |-> u,
                                      own |-> ~scanning, open |-> open, left |-> ScanDeadline]]

Changed(fs) == ver' = [f \in Files |-> IF f \in fs THEN ver[f] + 1 ELSE ver[f]]

\* A saved resource has a uid inside; scripts and assets get theirs from the scan.
Written(f) ==
  /\ files' = files \cup {f}
  /\ Changed({f})
  /\ IF kind = "resource" /\ uid[f] = 0
     THEN uid' = [uid EXCEPT ![f] = nextUid] /\ nextUid' = nextUid + 1
     ELSE UNCHANGED <<uid, nextUid>>

SceneCreate ==
  \E c \in FileCalls, f \in Files, open \in BOOLEAN :
    /\ NextCall(c) /\ kind = "resource"
    /\ Written(f) /\ TriggerRescan(c, f, 0, open)
    /\ UNCHANGED <<kind, index, edited, opening, engineScans>>

\* The file is replaced if it is there.
Create(k) ==
  \E c \in FileCalls, f \in Files :
    /\ NextCall(c) /\ kind = k
    /\ Written(f) /\ TriggerRescan(c, f, 0, FALSE)
    /\ UNCHANGED <<kind, index, edited, opening, engineScans>>

ScriptCreate   == Create("script")
ResourceCreate == Create("resource")
AssetAdd       == Create("asset")   \* a copy of a file from elsewhere

ResourceSave ==
  \E c \in FileCalls, f \in files :
    /\ NextCall(c) /\ kind = "resource"
    /\ Written(f) /\ TriggerRescan(c, f, 0, FALSE)
    /\ UNCHANGED <<kind, index, edited, opening, engineScans>>

ResourceSetProperty == ResourceSave
ResourceCallMethod  == ResourceSave   \* with `save`; without it nothing is written

\* The sidecar is loaded and saved, whether or not its asset is still there.
ImportSettingsSet ==
  \E c \in FileCalls, f \in Files, reimport \in BOOLEAN :
    /\ NextCall(c) /\ kind = "asset" /\ uid[f] # 0
    /\ Changed({f})
    /\ IF reimport
       THEN TriggerRescan(c, f, 0, FALSE)
       ELSE /\ fcalls' = [fcalls EXCEPT ![c] = [Fresh EXCEPT !.st = "done", !.file = f, !.ver = ver'[f]]]
            /\ UNCHANGED <<scanning, unread>>
    /\ UNCHANGED <<kind, files, uid, index, edited, opening, nextUid, engineScans>>

\* scan_sources; the path need not exist.
Reimport ==
  \E c \in FileCalls, f \in Files :
    /\ NextCall(c)
    /\ UNCHANGED <<kind, files, uid, ver, index, edited, opening, nextUid, engineScans>>
    /\ TriggerRescan(c, f, 0, FALSE)

\* The uid inside a file and the .uid beside it go along, the .import does not.
Carry(f, g) ==
  uid' = IF kind # "asset" /\ uid[f] # 0 THEN [uid EXCEPT ![g] = uid[f], ![f] = 0] ELSE uid

\* The rename of the sidecar may fail, which nobody is told.
FileMove ==
  \E c \in FileCalls, f \in files, g \in Files \ files, failed \in BOOLEAN :
    /\ NextCall(c)
    /\ files' = (files \ {f}) \cup {g}
    /\ Changed({f, g})
    /\ IF failed THEN kind = "script" /\ UNCHANGED uid ELSE Carry(f, g)
    /\ TriggerRescan(c, g, IF failed THEN 0 ELSE uid[f], FALSE)
    /\ UNCHANGED <<kind, index, edited, opening, nextUid, engineScans>>

FileDelete ==
  \E c \in FileCalls, f \in files :
    /\ NextCall(c)
    /\ files' = files \ {f}
    /\ uid' = [uid EXCEPT ![f] = 0]
    /\ Changed({f})
    /\ TriggerRescan(c, f, 0, FALSE)
    /\ UNCHANGED <<kind, index, edited, opening, nextUid, engineScans>>

SceneOpen ==
  \E c \in FileCalls, f \in Files :
    /\ NextCall(c) /\ kind = "resource"
    /\ opening' = opening \cup {f}
    /\ fcalls' = [fcalls EXCEPT ![c] = [Fresh EXCEPT !.st = "opening", !.file = f, !.left = ScanDeadline]]
    /\ UNCHANGED <<kind, files, uid, ver, index, unread, scanning, edited, nextUid, engineScans>>

------------------------------------------------------------------------------
(* A frame polls every suspended call.                                      *)

Late(call) == IF call.left > 1 THEN [call EXCEPT !.left = @ - 1] ELSE [call EXCEPT !.st = "error"]

\* Slip: settled without asking whether the scan is over.
PolledAtOnce(call) ==
  CASE call.st = "scan"    -> [call EXCEPT !.st = "done"]
    [] call.st = "opening" -> IF edited # NoFile THEN [call EXCEPT !.st = "done"] ELSE Late(call)
    [] OTHER               -> call

\* Slip: no deadline.
PolledForEver(call) ==
  CASE call.st = "scan"    -> IF ~scanning THEN [call EXCEPT !.st = "done"] ELSE call
    [] call.st = "opening" -> IF edited # NoFile THEN [call EXCEPT !.st = "done"] ELSE Late(call)
    [] OTHER               -> call

\* Any edited scene settles an open.
Polled(call) ==
  CASE call.st = "scan"    -> IF ~scanning THEN [call EXCEPT !.st = "done"] ELSE Late(call)
    [] call.st = "opening" -> IF edited # NoFile THEN [call EXCEPT !.st = "done"] ELSE Late(call)
    [] OTHER               -> call

Frame ==
  /\ Waiting # {}
  /\ fcalls' = [c \in FileCalls |-> Polled(fcalls[c])]
  /\ opening' = opening \cup {fcalls[c].file : c \in {d \in Waiting : fcalls'[d].st = "done" /\ fcalls[d].open}}
  /\ UNCHANGED <<kind, files, uid, ver, index, unread, scanning, edited, nextUid, engineScans>>

(* The engine. *)

\* A file without a sidecar gets one; a deleted file leaves the index.
ScanReads ==
  \E f \in unread :
    /\ unread' = unread \ {f}
    /\ IF f \in files /\ uid[f] = 0
       THEN uid' = [uid EXCEPT ![f] = nextUid] /\ nextUid' = nextUid + 1
       ELSE UNCHANGED <<uid, nextUid>>
    /\ index' = [index EXCEPT ![f] = [ver |-> ver[f], uid |-> IF f \in files THEN uid'[f] ELSE 0]]
    /\ UNCHANGED <<kind, files, ver, scanning, edited, opening, engineScans, fcalls>>

ScanEnds ==
  /\ scanning /\ unread = {} /\ scanning' = FALSE
  /\ UNCHANGED <<kind, files, uid, ver, index, unread, edited, opening, nextUid, engineScans, fcalls>>

EditorScans ==
  /\ ~scanning /\ engineScans < MaxEngineScans
  /\ engineScans' = engineScans + 1
  /\ scanning' = TRUE /\ unread' = Files
  /\ UNCHANGED <<kind, files, uid, ver, index, edited, opening, nextUid, fcalls>>

\* A path that is no scene stays unopened.
SceneOpens ==
  \E f \in opening :
    /\ opening' = opening \ {f}
    /\ edited' = IF f \in files THEN f ELSE edited
    /\ UNCHANGED <<kind, files, uid, ver, index, unread, scanning, nextUid, engineScans, fcalls>>

FilesNext ==
  \/ SceneCreate \/ ScriptCreate \/ ResourceCreate \/ AssetAdd
  \/ ResourceSetProperty \/ ResourceCallMethod \/ ImportSettingsSet \/ Reimport
  \/ FileMove \/ FileDelete \/ SceneOpen
  \/ Frame
  \/ ScanReads \/ ScanEnds \/ EditorScans \/ SceneOpens

------------------------------------------------------------------------------

\* A tool that waited for its own scan answers only once the editor has seen the
\* change it made (not before the scan, nor after one that was already past it:
\* a call made while a scan runs is not covered, the engine ignores its request).
AnsweredIsKnown ==
  \A c \in FileCalls :
    fcalls[c].st = "done" /\ fcalls[c].own => index[fcalls[c].file].ver >= fcalls[c].ver

\* A moved script or resource is known under the uid it had, so references by uid
\* survive the move (imported assets do not have this: their uid is in the
\* .import file, which stays behind; neither does a move whose sidecar could not
\* be renamed).
MoveKeepsUid ==
  \A c \in FileCalls :
    LET f == fcalls[c].file IN
    /\ fcalls[c].st = "done" /\ fcalls[c].uid # 0 /\ kind # "asset"
    /\ ver[f] = fcalls[c].ver /\ index[f].ver = ver[f]
    => index[f].uid = fcalls[c].uid

\* Every call that waits for a scan or a scene is answered, also when the scan
\* never ends or the scene does not open.
FileCallsEnd == \A c \in FileCalls : c \in Waiting ~> c \notin Waiting
=============================================================================
