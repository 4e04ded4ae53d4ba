------------------------------ MODULE Installs ------------------------------
(***************************************************************************)
(* The installers: installAddon (broker/src/addon.ts) into a project,      *)
(* installEngine (godot-install.ts) into the directory of one build.  Both *)
(* stage the release beside its place, remove what is there, rename, and   *)
(* write a marker last; the addon then enters its autoload in              *)
(* project.godot.                                                          *)
(*                                                                         *)
(* Several brokers may install into one place, with nothing between them   *)
(* but the files.  A broker may die between any two of its steps, and any  *)
(* step may fail.  A directory is the set of its files, each with the      *)
(* release it is of.  That no editor is connected is asked before the      *)
(* download only, and left out.                                            *)
(***************************************************************************)
EXTENDS Naturals, FiniteSets

CONSTANTS
  Installers,    \* broker processes
  MaxInstalls,   \* installs begun
  MaxDeaths      \* brokers that die

ASSUME InstallsAssumption == /\ MaxInstalls \in Nat /\ MaxDeaths \in Nat

VARIABLES
  product,      \* "addon", or "engine": one build has a directory of its own
  release,      \* the release each broker installs
  dest,         \* addons/conduit, or the directory of the build
  staging,      \* .conduit-install-tmp, or its like; empty or absent
  project,      \* project.godot: is the user's text in it, is the autoload
  backup,       \* project.godot.conduit-backup
  install,      \* each broker's: its step, was it forced, files yet to stage, project.godot as read
  begun, deaths,
  overlapped,   \* ghost: two brokers were past their downloads at a time
  damaged,      \* ghost: the last swap did not end
  relapsed      \* ghost: a backup was made of a project.godot already torn

placeVars   == <<dest, staging, damaged>>
projectVars == <<project, backup, relapsed>>
installVars == <<product, release, placeVars, projectVars, install, begun, deaths, overlapped>>

\* "main" is what detection looks for: conduit.gdextension, the binary.  The
\* older release has a file the newer has not.
Payload(v) == {"main", "library"} \X {v} \cup {"older"} \X ({v} \cap {1})
Marker(v) == <<"marker", v>>
Over(dir, file) == {f \in dir : f[1] # file[1]} \cup {file}
Has(dir, name) == \E f \in dir : f[1] = name

NoText == [user |-> FALSE, auto |-> FALSE]   \* or one that is being written
Idle == [step |-> "idle", forced |-> FALSE, todo |-> {}, read |-> NoText]

\* Past the download; the rest is without an await.
Writing == {b \in Installers : install[b].step \notin {"idle", "fetching"}}
Swapping == {b \in Installers : install[b].step \in {"removing", "renaming"}}

\* Release 0 was put there by hand.  A broker may have died here before.
InstallsInit ==
  /\ product \in {"addon", "engine"}
  /\ release \in [Installers -> IF product = "addon" THEN {1, 2} ELSE {1}]
  /\ dest \in {{}, Payload(0)} /\ staging \in {{}, {<<"older", 1>>}}
  /\ project = [user |-> TRUE, auto |-> FALSE] /\ backup = NoText
  /\ install = [b \in Installers |-> Idle]
  /\ begun = 0 /\ deaths = 0
  /\ overlapped = FALSE /\ damaged = FALSE /\ relapsed = FALSE

GoesTo(b, step) == install' = [install EXCEPT ![b].step = step]
Same == UNCHANGED <<product, release, begun, deaths, overlapped>>

----------------------------------------------------------------------------
(* An install. *)

\* detectAddon, detectEngine.
Detected(v) ==
  IF ~Has(dest, "main") THEN "missing"
  ELSE IF ~Has(dest, "marker") THEN "unmanaged"
  ELSE IF product = "engine" \/ Marker(v) \in dest THEN "current"
  ELSE "stale"

\* Without force only what is missing or stale is installed.
InstallAsked(b) ==
  /\ install[b].step = "idle" /\ begun < MaxInstalls
  /\ \E force \in BOOLEAN :
       /\ force \/ Detected(release[b]) \in {"missing", "stale"}
       /\ install' = [install EXCEPT ![b].step = "fetching", ![b].forced = force]
  /\ begun' = begun + 1
  /\ UNCHANGED <<product, release, placeVars, projectVars, deaths, overlapped>>

\* Slip: a staging directory is used as it is found.
KeepStaging == staging

ClearedStaging == {}

\* The source is resolved, verified and unpacked in memory.
Fetched(b) ==
  /\ install[b].step = "fetching"
  /\ install' = [install EXCEPT ![b].step = "staging", ![b].todo = Payload(release[b])]
  /\ staging' = ClearedStaging
  /\ overlapped' = (overlapped \/ Writing \ {b} # {})
  /\ UNCHANGED <<product, release, dest, damaged, projectVars, begun, deaths>>

\* writeStaged, which makes the directory again should it be gone.
WriteStaged(b) ==
  /\ install[b].step = "staging"
  /\ \E f \in install[b].todo :
       /\ staging' = Over(staging, f)
       /\ LET rest == install[b].todo \ {f}
          IN install' = [install EXCEPT ![b].todo = rest, ![b].step = IF rest = {} THEN "removing" ELSE "staging"]
  /\ Same /\ UNCHANGED <<dest, damaged, projectVars>>

\* rmSync, in the order the directory is read in.
RemoveOld(b) ==
  /\ install[b].step = "removing"
  /\ IF dest = {} THEN GoesTo(b, "renaming") /\ UNCHANGED dest
                  ELSE (\E f \in dest : dest' = dest \ {f}) /\ UNCHANGED install
  /\ Same /\ UNCHANGED <<staging, damaged, projectVars>>

\* Not over files another broker has put there.
SwapIn(b) ==
  /\ install[b].step = "renaming" /\ dest = {}
  /\ dest' = staging /\ staging' = {} /\ damaged' = FALSE
  /\ GoesTo(b, "marking")
  /\ Same /\ UNCHANGED projectVars

\* finally: what was staged goes, also when the old copy is gone already.
CleanUp(b) ==
  /\ install[b].step = "cleaning"
  /\ staging' = {}
  /\ install' = [install EXCEPT ![b] = Idle]
  /\ Same /\ UNCHANGED <<dest, damaged, projectVars>>

\* The engine's binary is looked for first.
WriteMarker(b) ==
  /\ install[b].step = "marking"
  /\ product = "engine" => Has(dest, "main")
  /\ dest' = Over(dest, Marker(release[b]))
  /\ install' = [install EXCEPT ![b] = IF product = "addon" THEN [Idle EXCEPT !.step = "autoload"] ELSE Idle]
  /\ Same /\ UNCHANGED <<staging, damaged, projectVars>>

----------------------------------------------------------------------------
(* The autoload.  writeFileSync empties the file, then fills it. *)

ReadProject(b) ==
  /\ install[b].step = "autoload"
  /\ \/ /\ ~project.auto
        /\ install' = [install EXCEPT ![b].step = "saving", ![b].read = project]
        /\ backup' = NoText
        /\ relapsed' = (relapsed \/ ~project.user)
     \/ \* it is there, or was not wanted
        /\ install' = [install EXCEPT ![b] = Idle] /\ UNCHANGED <<backup, relapsed>>
  /\ Same /\ UNCHANGED <<placeVars, project>>

WriteBackup(b) ==
  /\ install[b].step = "saving" /\ GoesTo(b, "entering")
  /\ backup' = install[b].read /\ project' = NoText
  /\ Same /\ UNCHANGED <<placeVars, relapsed>>

WithAutoload(b) ==
  /\ install[b].step = "entering"
  /\ project' = [install[b].read EXCEPT !.auto = TRUE]
  /\ install' = [install EXCEPT ![b] = Idle]
  /\ Same /\ UNCHANGED <<placeVars, backup, relapsed>>

----------------------------------------------------------------------------
(* What goes wrong. *)

\* A download, a write, a removal (of a library that is loaded, on Windows) or
\* the rename throws.
StepFails(b) ==
  /\ install[b].step \notin {"idle", "cleaning"}
  /\ IF install[b].step \in {"staging", "removing", "renaming"}
     THEN GoesTo(b, "cleaning") ELSE install' = [install EXCEPT ![b] = Idle]
  /\ damaged' = (damaged \/ b \in Swapping)
  /\ Same /\ UNCHANGED <<dest, staging, projectVars>>

BrokerDies(b) ==
  /\ install[b].step # "idle" /\ deaths < MaxDeaths /\ deaths' = deaths + 1
  /\ install' = [install EXCEPT ![b] = Idle]
  /\ damaged' = (damaged \/ b \in Swapping)
  /\ UNCHANGED <<product, release, dest, staging, projectVars, begun, overlapped>>

----------------------------------------------------------------------------

InstallsNext ==
  \E b \in Installers :
    \/ InstallAsked(b) \/ Fetched(b) \/ WriteStaged(b) \/ RemoveOld(b) \/ SwapIn(b) \/ CleanUp(b)
    \/ WriteMarker(b) \/ ReadProject(b) \/ WriteBackup(b) \/ WithAutoload(b)
    \/ StepFails(b) \/ BrokerDies(b)

----------------------------------------------------------------------------
(* Properties, each for brokers that do not install at the same time. *)

\* What is there is one release, no file less and none left of another, with the
\* marker of no other: "an install that dies before this reads back as unmanaged".
\* A swap that did not end is excepted; it can leave a part under its old marker.
InstalledIsWhole ==
  damaged \/ Swapping # {} \/ dest = {} \/ \E v \in 0..2 : dest \ {Marker(v)} = Payload(v)

\* What no installer put there is replaced only where that was forced.
HandPlacedIsSpared == \A b \in Writing : dest = Payload(0) => install[b].forced

\* The user's project.godot is in its place or in the backup at every moment,
\* until a torn one is taken for the user's and backed up over it.
ProjectIsKept == project.user \/ backup.user \/ relapsed

\* An installation is whole and the user's files survive it, whichever step the
\* broker dies in or fails at (installAddon, installEngine).
InstallsAreWhole == overlapped \/ (InstalledIsWhole /\ HandPlacedIsSpared /\ ProjectIsKept)

=============================================================================
