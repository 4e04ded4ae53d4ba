----------------------------- MODULE MCProject -----------------------------
(* A session of the editor's tools.  The five groups share no state, so a     *)
(* behaviour calls the tools of one of them.                                  *)
EXTENDS EditedScene, ProjectSettings, ProjectFiles, ProjectChecks, Installs

VARIABLE group

vars == <<group, sceneVars, settingsVars, fileVars, checkVars, installVars>>

CONSTANTS f1, f2, i1, i2

TwoFiles == {f1, f2}
NameAndScript == {"name", "script"}
OneWire == {<<1, 2>>}
TwoBrokers == {i1, i2}

Init ==
  /\ group \in {"scene", "settings", "files", "checks", "installs"}
  /\ SceneInit /\ SettingsInit /\ FilesInit /\ ChecksInit /\ InstallsInit
  /\ files = {f1}   \* the two paths are interchangeable
  /\ group # "files" => kind = "script"
  /\ group # "checks" => ~artifact
  /\ group # "installs" => product = "engine" /\ dest = {} /\ staging = {}

Next ==
  \/ group = "scene" /\ SceneNext /\ UNCHANGED <<group, settingsVars, fileVars, checkVars, installVars>>
  \/ group = "settings" /\ SettingsNext /\ UNCHANGED <<group, sceneVars, fileVars, checkVars, installVars>>
  \/ group = "files" /\ FilesNext /\ UNCHANGED <<group, sceneVars, settingsVars, checkVars, installVars>>
  \/ group = "checks" /\ ChecksNext /\ UNCHANGED <<group, sceneVars, settingsVars, fileVars, installVars>>
  \/ group = "installs" /\ InstallsNext /\ UNCHANGED <<group, sceneVars, settingsVars, fileVars, checkVars>>

\* The engine calls process on every frame.
Spec ==
  /\ Init /\ [][Next]_vars
  /\ WF_vars(group = "files" /\ Frame /\ UNCHANGED <<group, sceneVars, settingsVars, checkVars, installVars>>)

\* The scene only, for the run that looks for one behaviour of it.
SceneOnly == Init /\ group = "scene" /\ [][Next]_vars

----------------------------------------------------------------------------
(* Properties of the groups, put together. *)

\* What a file operation answered is what the editor has, and a file keeps its
\* identity wherever it is moved.
MovedIsKnown == AnsweredIsKnown /\ MoveKeepsUid

\* A check in a child process calls nothing valid that is not, and once it has
\* answered nothing of it is left on the disk.
ChecksAreSound == VerdictIsSound /\ NoScratchLeft
=============================================================================
