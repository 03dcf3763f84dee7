----------------------------- MODULE ModsManager -----------------------------
(***************************************************************************)
(* The mods of one process (engine/mods_manager.cpp and class Mod of       *)
(* engine/mod.cpp): which mods there are, which of them are loaded, from   *)
(* which library and with which settings.  Loading a session and reloading *)
(* it are the same procedure: enumerate the mods of the configuration and  *)
(* sort them, unload what must go, load what must come.  It reads the      *)
(* configuration in many steps, and the extension writes it meanwhile.     *)
(* How hooks and libraries of the mods are unloaded is in HookEngine.      *)
(***************************************************************************)
EXTENDS ModConfig

CONSTANTS Answers     \* what Wh_ModSettingsChanged may tell

ASSUME AnswersAssumption == Answers \subseteq {"keep", "reload", "unload"}

VARIABLES mods,     \* m_mods, a function whose domain is the names in the map
          stage,    \* where ReloadModsAndSettings is
          todo,     \* the mods the running loop has still to visit
          cur,      \* the mod being visited, in a set
          gone,     \* the keys deleted since the enumeration began
          keep,     \* modsToKeepLoaded
          keepOut,  \* modsToKeepUnloaded
          toLoad    \* modsToLoad

managerVars == <<mods, stage, todo, cur, gone, keep, keepOut, toLoad>>

Stages == {"idle", "enum", "apply", "callback", "load", "init", "failed"}

(* A Mod: m_libraryFileName, m_settingsChangeTime, whether m_loadedMod is   *)
(* set, and the settings the code of the mod was last told to read.        *)
ModStates == [library : Names, time : 0..MaxTime, loaded : BOOLEAN, seen : Names]
NewMod == [library |-> 0, time |-> 0, loaded |-> FALSE, seen |-> 0]

ManagerInit ==
    /\ mods = [m \in {} |-> NewMod]
    /\ stage = "idle"
    /\ todo = {} /\ cur = {} /\ gone = 0
    /\ keep = {} /\ keepOut = {} /\ toLoad = {}

Sorted(m, k, o, l) ==
    /\ stage' = "enum"
    /\ cur' = {}
    /\ keep' = keep \union (IF k THEN {m} ELSE {})
    /\ keepOut' = keepOut \union (IF o THEN {m} ELSE {})
    /\ toLoad' = toLoad \union (IF l THEN {m} ELSE {})

BeginEnum ==
    /\ stage' = "enum"
    /\ todo' = Mods
    /\ cur' = {} /\ gone' = 0
    /\ keep' = {} /\ keepOut' = {} /\ toLoad' = {}
    /\ UNCHANGED mods

------------------------------------------------------------------------------
(* The callback of EnumMods: a mod of the configuration that is not to be  *)
(* loaded in this process is in none of the sets, and one that is not in   *)
(* the map is to be loaded.                                                *)
EnumMod(m) ==
    /\ stage = "enum" /\ m \in todo /\ config[m].present
    /\ todo' = todo \ {m}
    /\ IF config[m].wanted /\ m \in DOMAIN mods
       THEN /\ stage' = "apply" /\ cur' = {m}
            /\ UNCHANGED <<keep, keepOut, toLoad>>
       ELSE Sorted(m, FALSE, FALSE, config[m].wanted)
    /\ UNCHANGED <<configVars, mods, gone>>

(* Mutant: a mod whose settings changed is reloaded without being asked.    *)
ApplyChangedSettingsReloads(m) ==
    /\ stage = "apply" /\ m \in cur
    /\ ReadConfig(m)
    /\ mods' = [mods EXCEPT ![m].time = config[m].time]
    /\ LET same == config[m].library = mods[m].library
                    /\ config[m].time = mods[m].time
       IN Sorted(m, same, FALSE, ~same)
    /\ UNCHANGED <<todo, gone>>

(* Mod::ApplyChangedSettings up to its call of the mod.  When it throws,   *)
(* the mod is in none of the sets.                                         *)
ApplyChangedSettings(m) ==
    LET mod == mods[m]
        timeChanged == config[m].time # mod.time
    IN
    /\ stage = "apply" /\ m \in cur
    /\ ReadConfig(m)
    /\ \/ /\ ~CanRead(m)
          /\ Sorted(m, FALSE, FALSE, FALSE)
          /\ UNCHANGED mods
       \/ /\ CanRead(m) /\ config[m].library # mod.library
          /\ Sorted(m, FALSE, FALSE, TRUE)
          /\ UNCHANGED mods
       \/ /\ CanRead(m) /\ config[m].library = mod.library
          /\ mods' = [mods EXCEPT ![m].time = config[m].time]
          /\ IF timeChanged /\ mod.loaded
             THEN stage' = "callback" /\ UNCHANGED <<cur, keep, keepOut, toLoad>>
             ELSE Sorted(m, ~timeChanged, FALSE, timeChanged)
    /\ UNCHANGED <<todo, gone>>

(* LoadedMod::SettingsChanged: the mod reads its settings and tells to go  *)
(* on, to be reloaded, or to be unloaded (Wh_ModSettingsChanged FALSE).    *)
SettingsChanged(m, answer) ==
    /\ stage = "callback" /\ m \in cur
    /\ ReadConfig(m)
    /\ mods' = [mods EXCEPT ![m].seen = config[m].settings]
    /\ Sorted(m, answer = "keep", answer = "unload", answer = "reload")
    /\ UNCHANGED <<todo, gone>>

(* EnumMods throws: ReloadModsAndSettings is left, and what was sorted is  *)
(* forgotten.                                                              *)
EnumModsThrows ==
    /\ stage = "enum" /\ "enumFails" \in Faults
    /\ stage' = "failed"
    /\ UNCHANGED <<configVars, mods, todo, cur, gone, keep, keepOut, toLoad>>

(* The mods that are not kept are unloaded: those of modsToKeepUnloaded    *)
(* stay in the map, the others are erased, and modsToLoad are emplaced.    *)
(* RegEnumKeyEx goes by index: a key deleted meanwhile shifts the others,  *)
(* and one that is present may be passed over for each.                    *)
UnloadMods ==
    /\ stage = "enum"
    /\ Cardinality({m \in todo : config[m].present}) <= gone
    /\ mods' = [m \in (DOMAIN mods \intersect (keep \union keepOut)) \union toLoad |->
                    IF m \in toLoad THEN NewMod
                    ELSE IF m \in keep THEN mods[m]
                    ELSE [mods[m] EXCEPT !.loaded = FALSE]]
    /\ stage' = "load"
    /\ todo' = toLoad
    /\ UNCHANGED <<configVars, cur, gone, keep, keepOut, toLoad>>

(* Mod::Load up to Wh_ModInit, or up to where it throws.                   *)
LoadMod(m) ==
    /\ stage = "load" /\ m \in todo
    /\ todo' = todo \ {m}
    /\ ReadConfig(m)
    /\ IF CanRead(m) /\ config[m].library # 0
       THEN /\ mods' = [mods EXCEPT ![m].library = config[m].library,
                                    ![m].time = config[m].time]
            /\ \/ stage' = "init" /\ cur' = {m}
               \/ "loadFails" \in Faults /\ UNCHANGED <<stage, cur>>
       ELSE UNCHANGED <<mods, stage, cur>>
    /\ UNCHANGED <<gone, keep, keepOut, toLoad>>

(* Mutant: SettingsChangeTime is read after Wh_ModInit.                     *)
InitModThenTime(m) ==
    /\ stage = "init" /\ m \in cur
    /\ ReadConfig(m)
    /\ \/ /\ mods[m].seen = 0
          /\ mods' = [mods EXCEPT ![m].seen = config[m].settings]
          /\ UNCHANGED <<stage, cur>>
       \/ /\ mods[m].seen # 0
          /\ mods' = [mods EXCEPT ![m].time = config[m].time, ![m].loaded = TRUE]
          /\ stage' = "load" /\ cur' = {}
    /\ UNCHANGED <<todo, gone, keep, keepOut, toLoad>>

(* Wh_ModInit reads the settings and returns.                              *)
InitMod(m) ==
    /\ stage = "init" /\ m \in cur
    /\ ReadConfig(m)
    /\ \E loaded \in IF "loadFails" \in Faults THEN BOOLEAN ELSE {TRUE} :
         mods' = [mods EXCEPT ![m].seen = config[m].settings,
                              ![m].loaded = loaded]
    /\ stage' = "load" /\ cur' = {}
    /\ UNCHANGED <<todo, gone, keep, keepOut, toLoad>>

FinishLoading ==
    /\ stage = "load" /\ todo = {}
    /\ stage' = "idle"
    /\ UNCHANGED <<configVars, mods, todo, cur, gone, keep, keepOut, toLoad>>

ManagerStep ==
    \/ \E m \in Mods : EnumMod(m) \/ ApplyChangedSettings(m)
    \/ \E m \in Mods, answer \in Answers : SettingsChanged(m, answer)
    \/ EnumModsThrows
    \/ UnloadMods
    \/ \E m \in Mods : LoadMod(m) \/ InitMod(m)
    \/ FinishLoading

(* The extension, while the engine reads: a key that goes shifts the       *)
(* enumeration.                                                            *)
WriterStep ==
    \/ /\ \/ \E m \in Mods, on \in BOOLEAN : EnableMod(m, on)
          \/ \E m \in Mods : SetModSettings(m)
          \/ \E m \in Mods, on, merged \in BOOLEAN : SetModConfig(m, on, merged)
          \/ \E m \in Mods : DeleteMod(m)
          \/ Tick
       /\ UNCHANGED managerVars
    \/ /\ PerformWrite
       /\ gone' = IF stage \notin {"enum", "apply", "callback"} \/ Storage = "ini" THEN gone
                  ELSE gone + Cardinality({m \in Mods : config[m].present
                                                     /\ ~config'[m].present})
       /\ UNCHANGED <<mods, stage, todo, cur, keep, keepOut, toLoad>>

ManagerTypeOK ==
    /\ DOMAIN mods \subseteq Mods
    /\ \A m \in DOMAIN mods : mods[m] \in ModStates
    /\ stage \in Stages
    /\ todo \subseteq Mods /\ cur \subseteq Mods
    /\ gone \in Nat
    /\ keep \subseteq Mods /\ keepOut \subseteq Mods /\ toLoad \subseteq Mods

(* The settings of m are being written: SettingsChangeTime comes last.     *)
BeingWritten(m) == \E i \in DOMAIN writes : writes[i].mod = m

(* The mod is as the configuration wants it: absent, or there with the     *)
(* current library and the current settings.  That its library could not   *)
(* be loaded, or that the mod asked to be unloaded, is all right.          *)
Mirrors(m) ==
    IF ~config[m].present \/ ~config[m].wanted THEN m \notin DOMAIN mods
    ELSE /\ m \in DOMAIN mods
         /\ mods[m].library = config[m].library
         /\ config[m].library # 0 => mods[m].time = config[m].time
         /\ mods[m].loaded /\ ~BeingWritten(m) => mods[m].seen = config[m].settings

Synced == \A m \in Mods : Mirrors(m)
==============================================================================
