------------------------------ MODULE ModConfig ------------------------------
(***************************************************************************)
(* The configuration of the mods and those who write it: the VSCode        *)
(* extension (utils/modConfigUtils.ts), in the registry, value by value,   *)
(* or in one .ini file per mod, a file at a time.  Every write may wake up *)
(* the change notification of a process (ModConfigChangeNotification in    *)
(* engine/storage_manager.cpp), whose engine reads the configuration while *)
(* it is being written (ModsManager).                                      *)
(***************************************************************************)
EXTENDS Naturals, Sequences, FiniteSets

CONSTANTS Mods,
          Storage,    \* "registry" or "ini"
          MaxCalls,   \* bound: calls of the extension
          MaxTime,    \* bound: the clock, in seconds
          Faults      \* what may go wrong, see FaultKinds

(*   "sameSecond"   two changes of the settings fall in the same second;   *)
(*   "creatable"    the process has the rights to create registry keys;    *)
(*   "loadFails"    LoadLibrary fails or Wh_ModInit returns FALSE;         *)
(*   "enumFails"    EnumMods throws half way;                              *)
(*   "monitorFails" the change notification cannot be armed;               *)
(*   "threadFails"  the engine cannot create its thread;                   *)
(*   "waitFails"    WaitForMultipleObjects fails.                          *)
FaultKinds == {"sameSecond", "creatable", "loadFails", "enumFails",
               "monitorFails", "threadFails", "waitFails"}

ASSUME ModConfigAssumption ==
    /\ Storage \in {"registry", "ini"}
    /\ IsFiniteSet(Mods)
    /\ MaxCalls \in Nat /\ MaxTime \in Nat \ {0}
    /\ Faults \subseteq FaultKinds

VARIABLES config,   \* what is stored for each mod
          writes,   \* the writes that the running call of the extension has left
          calls,    \* the number of calls made
          clock,    \* Date.now() / 1000
          monitor,  \* ModConfigChangeNotification of the process
          missed    \* history: something was written while nobody monitored,
                    \* or the last reload was left half way

storeVars == <<config, writes, calls, clock>>
configVars == <<storeVars, monitor, missed>>

(* `wanted` stands for Disabled, Include, Exclude, their custom variants    *)
(* and Architecture: what ShouldLoadInRunningProcess makes of them in this  *)
(* process.  A library is named by the call that compiled it (compileMod    *)
(* gives every DLL a new name) and so is a set of settings; 0 is none, and  *)
(* Before what an earlier call wrote.                                      *)
Before == MaxCalls + 1
Names == 0..Before
Entries == [present : BOOLEAN, wanted : BOOLEAN, library : Names,
            settings : Names, time : 0..MaxTime]
NoEntry == [present |-> FALSE, wanted |-> FALSE, library |-> 0, settings |-> 0,
            time |-> 0]

Installed == [present |-> TRUE, wanted |-> TRUE, library |-> Before,
              settings |-> Before, time |-> 0]

Monitors == {"none", "armed", "signaled", "fired"}

ConfigInit ==
    /\ config \in [Mods -> {NoEntry, Installed}]
    /\ writes = <<>>
    /\ calls = 0
    /\ clock = 1
    /\ monitor = "none"
    /\ missed = FALSE

(* RegNotifyChangeKeyValue reports one change and has to be asked again.   *)
Notify ==
    /\ monitor' = IF monitor = "armed" THEN "signaled" ELSE monitor
    /\ missed' = (missed \/ monitor = "none")

------------------------------------------------------------------------------
(* The calls of the extension, as the writes they make.  The registry is   *)
(* written one value after the other; an .ini file is read, changed in      *)
(* memory and written by fs.writeFileSync, or removed by fs.unlinkSync.     *)

Write(mod, what, value) == [mod |-> mod, field |-> what, value |-> value]

Writes(m, values, entry) ==
    IF Storage = "registry" THEN values ELSE <<Write(m, "file", entry)>>

SettingsWrites(m, v) ==
    <<Write(m, "settings", 0), Write(m, "settings", v), Write(m, "time", 0)>>

Call(ws) ==
    /\ writes = <<>> /\ calls < MaxCalls
    /\ writes' = ws
    /\ calls' = calls + 1
    /\ UNCHANGED <<config, clock, monitor, missed>>

(* SettingsChangeTime is what tells the engine that settings changed.      *)
NewSecond(m) == "sameSecond" \in Faults \/ config[m].time < clock

EnableMod(m, on) ==
    /\ config[m].present
    /\ Call(Writes(m, <<Write(m, "wanted", on)>>, [config[m] EXCEPT !.wanted = on]))

SetModSettings(m) ==
    /\ config[m].present /\ NewSecond(m)
    /\ Call(Writes(m, SettingsWrites(m, calls + 1),
                   [config[m] EXCEPT !.settings = calls + 1, !.time = clock]))

(* Install or compile a mod.  Its initial settings are written unless the  *)
(* mod has values for all of them (mergeModSettings).                      *)
SetModConfig(m, on, merged) ==
    LET configured == [config[m] EXCEPT !.present = TRUE, !.library = calls + 1,
                                        !.wanted = on]
        values == <<Write(m, "library", calls + 1), Write(m, "wanted", on)>>
    IN
    /\ NewSecond(m)
    /\ Call(IF merged \/ config[m].library = 0
            THEN Writes(m, values \o SettingsWrites(m, calls + 1),
                        [configured EXCEPT !.settings = calls + 1, !.time = clock])
            ELSE Writes(m, values, configured))

(* deleteTree removes the Settings key, then the values; deleteKey the key. *)
DeleteMod(m) ==
    /\ config[m].present
    /\ Call(Writes(m, <<Write(m, "settings", 0), Write(m, "values", 0),
                        Write(m, "key", 0)>>, NoEntry))

(* Mutant: the time is rounded up.                                          *)
WrittenAhead(e, w) ==
    CASE w.field = "file"   -> w.value
      [] w.field = "key"    -> NoEntry
      [] w.field = "values" -> [NoEntry EXCEPT !.present = TRUE]
      [] w.field = "time"   -> [e EXCEPT !.present = TRUE, !.time = clock + 1]
      [] OTHER -> [e EXCEPT !.present = TRUE, ![w.field] = w.value]

(* The entry of a mod after a write.                                        *)
Written(e, w) ==
    CASE w.field = "file"   -> w.value
      [] w.field = "key"    -> NoEntry
      [] w.field = "values" -> [NoEntry EXCEPT !.present = TRUE]
      [] w.field = "time"   -> [e EXCEPT !.present = TRUE, !.time = clock]
      [] OTHER -> [e EXCEPT !.present = TRUE, ![w.field] = w.value]

PerformWrite ==
    /\ writes # <<>>
    /\ LET w == Head(writes)
       IN config' = [config EXCEPT ![w.mod] = Written(@, w)]
    /\ writes' = Tail(writes)
    /\ Notify
    /\ UNCHANGED <<calls, clock>>

Tick ==
    /\ clock < MaxTime
    /\ clock' = clock + 1
    /\ UNCHANGED <<config, writes, calls, monitor, missed>>

------------------------------------------------------------------------------
(* GetModConfig of the engine.  RegistrySettings opens the key of the mod  *)
(* with RegCreateKeyEx, also to read: a key that is gone comes back, empty, *)
(* when the process may create it, and the constructor throws when not.    *)
(* An .ini file that is gone reads as empty.                               *)
CanRead(m) ==
    config[m].present \/ Storage = "ini" \/ "creatable" \in Faults

ReadConfig(m) ==
    IF ~config[m].present /\ Storage = "registry" /\ "creatable" \in Faults
    THEN /\ config' = [config EXCEPT ![m].present = TRUE]
         /\ Notify
         /\ UNCHANGED <<writes, calls, clock>>
    ELSE UNCHANGED configVars

ConfigTypeOK ==
    /\ config \in [Mods -> Entries]
    /\ calls \in 0..MaxCalls /\ clock \in 1..MaxTime
    /\ \A i \in DOMAIN writes : writes[i].mod \in Mods
    /\ monitor \in Monitors
    /\ missed \in BOOLEAN
==============================================================================
