-------------------------- MODULE ProjectSettings --------------------------
(***************************************************************************)
(* The project settings as the editor's tools write them: gd_autoload,     *)
(* gd_input_map, gd_editor_plugin, gd_translations and                     *)
(* gd_project_set_setting (editor/autoload.rs, input_map.rs, plugins.rs,   *)
(* translations.rs, project.rs).                                           *)
(*                                                                         *)
(* Every tool reads the settings in memory, writes its own part of them    *)
(* back, and saves the whole to project.godot.  A save that fails answers  *)
(* an error and leaves memory changed, so what was refused goes to disk    *)
(* with the next save that works.                                          *)
(***************************************************************************)
EXTENDS Integers, Sequences, FiniteSets, SequencesExt

CONSTANTS
  Names,      \* of autoloads, actions, plugins and plain settings
  Paths,      \* of scripts, translations, variants
  Locales,
  Events,     \* input events
  Absent,     \* the value of a setting that is not there
  Unknown,    \* ghost: nothing was promised of a setting
  MaxSets,    \* calls
  MaxUnsaved  \* saves that fail

ASSUME SettingsAssumption == /\ MaxSets \in Nat /\ MaxUnsaved \in Nat
                             /\ {Absent, Unknown} \cap (Names \cup Paths \cup Events) = {}

VARIABLES
  mem,      \* ProjectSettings in memory
  disk,     \* project.godot
  told,     \* ghost: of each slot, the value the last call about it was answered with
  sets, unsaved   \* bounds

settingsVars == <<mem, disk, told, sets, unsaved>>

Blank ==
  [autoload |-> [n \in Names |-> Absent], action |-> [n \in Names |-> Absent],
   plugin |-> {}, plain |-> [n \in Names |-> Absent], locale |-> [w \in {"fallback", "test"} |-> Absent],
   translations |-> <<>>, remaps |-> [p \in Paths |-> <<>>]]

\* What a caller can ask about, and its value in settings s.
Slots == ({"autoload", "action", "plugin", "plain"} \X Names)
         \cup ({"translation"} \X Paths) \cup ({"remap"} \X (Paths \X Locales))
         \cup ({"locale"} \X {"fallback", "test"})

Variants(s, p, l) == {e.variant : e \in {f \in ToSet(s.remaps[p]) : f.locale = l}}

Value(s, slot) ==
  CASE slot[1] = "plugin"      -> slot[2] \in s.plugin
    [] slot[1] = "translation" -> slot[2] \in ToSet(s.translations)
    [] slot[1] = "remap"       -> Variants(s, slot[2][1], slot[2][2])
    [] OTHER                   -> s[slot[1]][slot[2]]

\* filter: a list without the elements of `gone`, in order (SelectSeq takes an
\* operator, which the provers cannot expand).
Without(s, gone) ==
  LET kept[i \in 0..Len(s)] ==
        IF i = 0 THEN <<>> ELSE IF s[i] \in gone THEN kept[i - 1] ELSE Append(kept[i - 1], s[i])
  IN  kept[Len(s)]

SettingsInit ==
  /\ mem = Blank /\ disk = Blank
  /\ told = [s \in Slots |-> Unknown]
  /\ sets = 0 /\ unsaved = 0

\* set_setting, then save: the whole of memory, or an error.
SaveSettings(m, slots) ==
  /\ sets < MaxSets /\ sets' = sets + 1
  /\ mem' = m
  /\ \/ /\ disk' = m
        /\ told' = [s \in Slots |-> IF s \in slots THEN Value(m, s) ELSE told[s]]
        /\ UNCHANGED unsaved
     \/ /\ unsaved < MaxUnsaved /\ unsaved' = unsaved + 1
        /\ told' = [s \in Slots |-> IF s \in slots THEN Unknown ELSE told[s]]
        /\ UNCHANGED disk

AutoloadAdd ==
  \E n \in Names, p \in Paths :
    /\ mem.autoload[n] = Absent
    /\ SaveSettings([mem EXCEPT !.autoload[n] = p], {<<"autoload", n>>})

AutoloadRemove ==
  \E n \in Names :
    /\ mem.autoload[n] # Absent
    /\ SaveSettings([mem EXCEPT !.autoload[n] = Absent], {<<"autoload", n>>})

\* write_action: an action is its events, in order.
WriteAction(a, events) == SaveSettings([mem EXCEPT !.action[a] = events], {<<"action", a>>})

ActionAdd    == \E a \in Names : mem.action[a] = Absent /\ WriteAction(a, <<>>)
ActionRemove == \E a \in Names : mem.action[a] # Absent /\ WriteAction(a, Absent)
EventAdd ==
  \E a \in Names, e \in Events :
    mem.action[a] # Absent /\ WriteAction(a, Append(mem.action[a], e))
EventRemove ==
  \E a \in Names :
    /\ mem.action[a] # Absent
    /\ \E i \in DOMAIN mem.action[a] : WriteAction(a, RemoveAt(mem.action[a], i))

\* The engine may leave a plugin as it was: the answer is then an error, and
\* nothing is saved.
PluginSet ==
  \E n \in Names, enabled \in BOOLEAN :
    SaveSettings([mem EXCEPT !.plugin = IF enabled THEN @ \cup {n} ELSE @ \ {n}], {<<"plugin", n>>})

SetSetting == \E n \in Names, v \in Paths : SaveSettings([mem EXCEPT !.plain[n] = v], {<<"plain", n>>})

TranslationAdd ==
  \E p \in Paths :
    /\ p \notin ToSet(mem.translations)
    /\ SaveSettings([mem EXCEPT !.translations = Append(@, p)], {<<"translation", p>>})

TranslationRemove ==
  \E p \in ToSet(mem.translations) :
    SaveSettings([mem EXCEPT !.translations = Without(@, {p})], {<<"translation", p>>})

\* One variant of a resource per locale.
RemapAdd ==
  \E p \in Paths, v \in Paths, l \in Locales :
    /\ Variants(mem, p, l) = {}
    /\ SaveSettings([mem EXCEPT !.remaps[p] = Append(@, [variant |-> v, locale |-> l])],
                    {<<"remap", <<p, l>>>>})

\* Slip: the first entry goes, whatever its locale.
RemapRemoveFirst ==
  \E p \in Paths, l \in Locales :
    /\ Variants(mem, p, l) # {}
    /\ SaveSettings([mem EXCEPT !.remaps[p] = Tail(@)], {<<"remap", <<p, l>>>>})

RemapRemove ==
  \E p \in Paths, l \in Locales :
    /\ Variants(mem, p, l) # {}
    /\ SaveSettings([mem EXCEPT !.remaps[p] = Without(@, [variant : Paths, locale : {l}])],
                    {<<"remap", <<p, l>>>>})

\* set_locale: either, or both in one save.
SetLocale ==
  \E which \in SUBSET {"fallback", "test"} \ {{}}, l \in Locales :
    SaveSettings([mem EXCEPT !.locale = [w \in DOMAIN @ |-> IF w \in which THEN l ELSE @[w]]],
                 {"locale"} \X which)

SettingsNext ==
  \/ AutoloadAdd \/ AutoloadRemove
  \/ ActionAdd \/ ActionRemove \/ EventAdd \/ EventRemove
  \/ PluginSet \/ SetSetting
  \/ TranslationAdd \/ TranslationRemove \/ RemapAdd \/ RemapRemove \/ SetLocale

\* What a tool answered is in project.godot and stays there, whatever other
\* tools write, fail to save, and save later, until a call about the same thing
\* (each tool reads, changes and writes back a shared list or table).
AnswersAreKept ==
  \A s \in Slots : told[s] = Unknown \/ (Value(disk, s) = told[s] /\ Value(mem, s) = told[s])
=============================================================================
