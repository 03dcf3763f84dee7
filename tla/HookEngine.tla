------------------------------ MODULE HookEngine ------------------------------
(***************************************************************************)
(* The function hooks of the mods of one process, from the first session   *)
(* to the last: the engine thread that loads, reloads and unloads mods     *)
(* (ModsManager, LoadedMod, CustomizationSession), the threads of the mods *)
(* that call Wh_SetFunctionHook, Wh_RemoveFunctionHook and                 *)
(* Wh_ApplyHookOperations at any time, and the threads of the host         *)
(* program, which run the detours of the mods when they call a hooked      *)
(* function.                                                               *)
(*                                                                         *)
(* The question is the one every injected process depends on: is the code  *)
(* of a mod still running, or can it still be entered, when its library is *)
(* freed?                                                                  *)
(***************************************************************************)
EXTENDS HookTable, Sequences, Naturals

CONSTANTS Threads,    \* the threads of mods that call the hook API
          ModOf,      \* [Threads -> Mods]: the mod a thread belongs to
          Callers,    \* the threads of the host program
          MaxDepth,   \* bound: how deep detours nest on one stack
          OwnTarget   \* CreateProcessInternalW, the function the engine hooks

(* Faults is a subset of FaultKinds:                                        *)
(*   "attachFails"    a target may turn out to be impossible to patch;     *)
(*   "waitGivesUp"    ThreadsCallStackWaitForRegions may run out of its    *)
(*                    200 iterations;                                      *)
(*   "lateHookCalls"  a thread of a mod may be inside the hook API when    *)
(*                    Wh_ModBeforeUninit of the mod returns (mods_api.h    *)
(*                    tells mods not to);                                  *)
(*   "sessionEnds"    the session manager process may exit.                *)
FaultKinds == {"attachFails", "waitGivesUp", "lateHookCalls", "sessionEnds"}

ASSUME HookEngineAssumption ==
    /\ Faults \subseteq FaultKinds
    /\ ModOf \in [Threads -> Mods]
    /\ MaxDepth \in Nat
    /\ OwnTarget \in Targets

VARIABLES
    phase,          \* where the engine thread is
    todo,           \* the mods the current loop of the engine has still to visit
    unloading,      \* the mods being unloaded: those not in modsToKeepLoaded
    loading,        \* modsToLoad
    ending,         \* the unloading is that of ~CustomizationSession
    mapped,         \* the mods with a LoadedMod, i.e. whose library is loaded
    initialized,    \* m_initialized of each LoadedMod
    uninitializing, \* m_uninitializing of each LoadedMod
    pc,             \* where each thread of a mod is in the hook API
    arg,            \* the targetFunction of its call
    stack,          \* the mods whose detours are on the stack of each caller
    hookCalls,      \* the callers inside CreateProcessInternalW_Hook, the detour
                    \* of the engine: m_hookProcCallCounter is their number
    registered      \* history: hooks whose Wh_SetFunctionHook returned TRUE, that
                    \* their mod did not remove and that could be attached

engineVars == <<phase, todo, unloading, loading, ending, mapped, initialized,
                uninitializing>>
vars == <<tableVars, engineVars, pc, arg, stack, hookCalls, registered>>

Phases == {"off", "load", "idle", "before", "drain", "wait", "destroy"}
Calls == {"idle", "create", "queue", "unqueue", "apply", "sweep"}
OwnHook == <<Own, OwnTarget>>

Frames(c) == {stack[c][i] : i \in DOMAIN stack[c]}
InApi(m) == \E t \in Threads : ModOf[t] = m /\ pc[t] # "idle"
IsRunning(m) == InApi(m) \/ \E c \in Callers : m \in Frames(c)

Init ==
    /\ TableInit
    /\ phase = "off"
    /\ todo = {} /\ unloading = {} /\ loading = {}
    /\ ending = FALSE
    /\ mapped = {} /\ initialized = {} /\ uninitializing = {}
    /\ pc = [t \in Threads |-> "idle"]
    /\ arg = [t \in Threads |-> OwnTarget]
    /\ stack = [c \in Callers |-> <<>>]
    /\ hookCalls = {}
    /\ registered = {}

------------------------------------------------------------------------------
(* The engine thread: loading.                                              *)

(* ModsManager::ModsManager starts to load the mods of a new session.       *)
StartSession(mods) ==
    /\ phase = "off"
    /\ phase' = "load"
    /\ loading' = mods /\ todo' = mods
    /\ UNCHANGED <<tableVars, unloading, ending, mapped, initialized,
                   uninitializing, pc, arg, stack, hookCalls, registered>>

(* The LoadedMod constructor: LoadLibraryEx succeeds.                       *)
LoadLibrary(m) ==
    /\ phase = "load" /\ m \in todo \ mapped
    /\ todo \intersect mapped = {}
    /\ mapped' = mapped \union {m}
    /\ UNCHANGED <<tableVars, phase, todo, unloading, loading, ending,
                   initialized, uninitializing, pc, arg, stack, hookCalls,
                   registered>>

(* The constructor throws: Mod::Load fails, the mod stays unloaded.         *)
LoadLibraryFails(m) ==
    /\ phase = "load" /\ m \in todo \ mapped
    /\ todo \intersect mapped = {}
    /\ todo' = todo \ {m}
    /\ UNCHANGED <<tableVars, phase, unloading, loading, ending, mapped,
                   initialized, uninitializing, pc, arg, stack, hookCalls,
                   registered>>

(* Wh_ModInit returns TRUE.  Its own calls to Wh_SetFunctionHook, on the   *)
(* engine thread, are those of a thread of the mod that starts and ends    *)
(* while the mod is mapped and not initialized.                            *)
InitSucceeds(m) ==
    /\ phase = "load" /\ m \in todo \intersect mapped
    /\ initialized' = initialized \union {m}
    /\ todo' = todo \ {m}
    /\ UNCHANGED <<tableVars, phase, unloading, loading, ending, mapped,
                   uninitializing, pc, arg, stack, hookCalls, registered>>

(* Wh_ModInit returns FALSE: m_loadedMod.reset(), ~LoadedMod, FreeLibrary,  *)
(* with no wait.  The mod is taken to have no thread left in the API.      *)
InitFails(m) ==
    /\ phase = "load" /\ m \in todo \intersect mapped
    /\ ~InApi(m)
    /\ MH_RemoveHookEx(HooksOf(m))
    /\ mapped' = mapped \ {m}
    /\ todo' = todo \ {m}
    /\ registered' = {h \in registered : h[1] # m}
    /\ UNCHANGED <<phase, unloading, loading, ending, initialized,
                   uninitializing, pc, arg, stack, hookCalls>>

(* NewProcessInjector's constructor, when a session starts.                 *)
HookCreateProcess ==
    /\ phase = "load" /\ todo = {} /\ OwnHook \notin created
    /\ created' = created \union {OwnHook}
    /\ queued' = queued \union {OwnHook}
    /\ UNCHANGED <<enabled, engineVars, pc, arg, stack, hookCalls, registered>>

(* Mutant: only the hook of the engine itself is applied.                   *)
ApplyOwnOnly ==
    /\ phase = "load" /\ todo = {} /\ OwnHook \in created
    /\ MH_ApplyQueuedEx(HooksOf(Own), {})
    /\ phase' = "idle"
    /\ unloading' = {} /\ loading' = {}
    /\ UNCHANGED <<todo, ending, mapped, initialized, uninitializing,
                   pc, arg, stack, hookCalls, registered>>

(* MH_ApplyQueuedEx(MH_ALL_IDENTS) once the mods are loaded, at the end of *)
(* ReloadModsAndSettings or in MinHookScopeApply, and Wh_ModAfterInit.     *)
ApplyLoaded ==
    /\ phase = "load" /\ todo = {} /\ OwnHook \in created
    /\ \E failed \in AttachFailures(created) :
         /\ MH_ApplyQueuedEx(created, failed)
         /\ registered' = registered \ failed
    /\ phase' = "idle"
    /\ unloading' = {} /\ loading' = {}
    /\ UNCHANGED <<todo, ending, mapped, initialized, uninitializing,
                   pc, arg, stack, hookCalls>>

------------------------------------------------------------------------------
(* The engine thread: unloading.                                            *)

(* ReloadModsAndSettings has sorted the mods: `out` are the loaded ones it  *)
(* does not keep, `in` those it will load.                                  *)
BeginReload(out, in) ==
    /\ phase = "idle"
    /\ out \subseteq mapped
    /\ in \intersect mapped \subseteq out
    /\ phase' = "before"
    /\ unloading' = out /\ todo' = out /\ loading' = in
    /\ UNCHANGED <<tableVars, ending, mapped, initialized, uninitializing,
                   pc, arg, stack, hookCalls, registered>>

(* The session manager has exited: ~CustomizationSession.                   *)
BeginEnd ==
    /\ phase = "idle" /\ "sessionEnds" \in Faults
    /\ phase' = "before"
    /\ unloading' = mapped /\ todo' = mapped /\ loading' = {}
    /\ ending' = TRUE
    /\ UNCHANGED <<tableVars, mapped, initialized, uninitializing, pc, arg,
                   stack, hookCalls, registered>>

(* LoadedMod::BeforeUninit: the mod's callback returns, m_uninitializing    *)
(* is set ...                                                               *)
BeforeUninit(m) ==
    /\ phase = "before" /\ m \in todo
    /\ todo \intersect uninitializing = {}
    /\ "lateHookCalls" \in Faults \/ ~InApi(m)
    /\ uninitializing' = uninitializing \union {m}
    /\ registered' = {h \in registered : h[1] # m}
    /\ UNCHANGED <<tableVars, phase, todo, unloading, loading, ending, mapped,
                   initialized, pc, arg, stack, hookCalls>>

(* ... and then all the hooks of the mod are queued to be disabled.         *)
QueueDisableAll(m) ==
    /\ phase = "before" /\ m \in todo \intersect uninitializing
    /\ MH_QueueDisableHookEx(HooksOf(m))
    /\ todo' = todo \ {m}
    /\ UNCHANGED <<phase, unloading, loading, ending, mapped, initialized,
                   uninitializing, pc, arg, stack, hookCalls, registered>>

(* The regions to wait for are those of the mods being unloaded: with none *)
(* there is no wait.                                                       *)
AfterDisabling == IF unloading = {} THEN "destroy" ELSE "wait"

(* Mutant: a reload disables what ~MinHookScopeApply disables.              *)
DisableOwnOnly ==
    /\ phase = "before" /\ todo = {} /\ ~ending
    /\ MH_DisableHookEx(HooksOf(Own))
    /\ phase' = AfterDisabling
    /\ UNCHANGED <<todo, unloading, loading, ending, mapped, initialized,
                   uninitializing, pc, arg, stack, hookCalls, registered>>

(* ReloadModsAndSettings: MH_ApplyQueuedEx(MH_ALL_IDENTS), Wh_ModUninit.    *)
ApplyUnloading ==
    /\ phase = "before" /\ todo = {} /\ ~ending
    /\ \E failed \in AttachFailures(created) :
         /\ MH_ApplyQueuedEx(created, failed)
         /\ registered' = registered \ failed
    /\ phase' = AfterDisabling
    /\ UNCHANGED <<todo, unloading, loading, ending, mapped, initialized,
                   uninitializing, pc, arg, stack, hookCalls>>

(* ~MinHookScopeApply: MH_DisableHook(MH_ALL_HOOKS), that is                *)
(* MH_DisableHookEx(MH_DEFAULT_IDENT, MH_ALL_HOOKS): it disables the hooks  *)
(* of the engine itself only.                                               *)
DisableAtEnd ==
    /\ phase = "before" /\ todo = {} /\ ending
    /\ MH_DisableHookEx(HooksOf(Own))
    /\ phase' = "drain"
    /\ UNCHANGED <<todo, unloading, loading, ending, mapped, initialized,
                   uninitializing, pc, arg, stack, hookCalls, registered>>

(* ~NewProcessInjector waits, without a limit, until no thread is inside   *)
(* CreateProcessInternalW_Hook, which can be below a detour of a mod; then  *)
(* ~ModsManager calls Wh_ModUninit.                                         *)
DestroyInjector ==
    /\ phase = "drain" /\ hookCalls = {}
    /\ phase' = AfterDisabling
    /\ UNCHANGED <<tableVars, todo, unloading, loading, ending, mapped,
                   initialized, uninitializing, pc, arg, stack, hookCalls,
                   registered>>

(* Mutants: no scan of the stacks; a scan without a limit of iterations.    *)
NoWaitForRegions ==
    /\ phase = "wait"
    /\ phase' = "destroy"
    /\ todo' = unloading
    /\ UNCHANGED <<tableVars, unloading, loading, ending, mapped, initialized,
                   uninitializing, pc, arg, stack, hookCalls, registered>>
WaitForRegionsForever == NoWaitForRegions /\ \A m \in unloading : ~IsRunning(m)

(* ThreadsCallStackWaitForRegions: all threads are suspended and no frame  *)
(* of a mod being unloaded is found on any stack, or the iterations run    *)
(* out and the result, which the engine ignores, is FALSE.                 *)
WaitForRegions ==
    /\ phase = "wait"
    /\ "waitGivesUp" \in Faults \/ \A m \in unloading : ~IsRunning(m)
    /\ phase' = "destroy"
    /\ todo' = unloading
    /\ UNCHANGED <<tableVars, unloading, loading, ending, mapped, initialized,
                   uninitializing, pc, arg, stack, hookCalls, registered>>

(* ~LoadedMod: the hooks of the mod are removed and its library is freed.   *)
Destroy(m) ==
    /\ phase = "destroy" /\ m \in todo
    /\ MH_RemoveHookEx(HooksOf(m))
    /\ mapped' = mapped \ {m}
    /\ initialized' = initialized \ {m}
    /\ uninitializing' = uninitializing \ {m}
    /\ todo' = todo \ {m}
    /\ UNCHANGED <<phase, unloading, loading, ending, pc, arg, stack, hookCalls,
                   registered>>

(* ReloadModsAndSettings goes on to load the mods of modsToLoad.            *)
StartLoading ==
    /\ phase = "destroy" /\ todo = {} /\ ~ending
    /\ phase' = "load"
    /\ todo' = loading
    /\ UNCHANGED <<tableVars, unloading, loading, ending, mapped, initialized,
                   uninitializing, pc, arg, stack, hookCalls, registered>>

(* ~MinHookScopeInit: MH_Uninitialize.  The session is over.                *)
EndSession ==
    /\ phase = "destroy" /\ todo = {} /\ ending
    /\ MH_RemoveHookEx(created)
    /\ phase' = "off"
    /\ ending' = FALSE
    /\ unloading' = {}
    /\ UNCHANGED <<todo, loading, mapped, initialized, uninitializing, pc, arg,
                   stack, hookCalls, registered>>

------------------------------------------------------------------------------
(* The threads of the mods: the hook API of LoadedMod.                      *)

Step(t, from, to) ==
    /\ pc[t] = from
    /\ ModOf[t] \in mapped
    /\ pc' = [pc EXCEPT ![t] = to]

Hook(t) == <<ModOf[t], arg[t]>>

(* Mutant: no check of m_uninitializing.                                    *)
CallSetFunctionHookUnchecked(t, target) ==
    /\ Step(t, "idle", "create")
    /\ arg' = [arg EXCEPT ![t] = target]
    /\ UNCHANGED <<tableVars, engineVars, stack, hookCalls, registered>>

(* LoadedMod::SetFunctionHook past its check of m_uninitializing.           *)
CallSetFunctionHook(t, target) ==
    /\ Step(t, "idle", "create")
    /\ ModOf[t] \notin uninitializing
    /\ arg' = [arg EXCEPT ![t] = target]
    /\ UNCHANGED <<tableVars, engineVars, stack, hookCalls, registered>>

(* MH_CreateHookEx succeeds ...                                             *)
CreateHook(t) ==
    /\ Step(t, "create", "queue")
    /\ MH_CreateHookEx(Hook(t))
    /\ UNCHANGED <<engineVars, arg, stack, hookCalls, registered>>

(* ... or there is such a hook, or it fails: Wh_SetFunctionHook is FALSE.   *)
CreateHookFails(t) ==
    /\ Step(t, "create", "idle")
    /\ UNCHANGED <<tableVars, engineVars, arg, stack, hookCalls, registered>>

(* MH_QueueEnableHookEx succeeds: Wh_SetFunctionHook returns TRUE.          *)
QueueEnable(t) ==
    /\ Step(t, "queue", "idle")
    /\ MH_QueueEnableHookEx(Hook(t))
    /\ registered' = IF ModOf[t] \in uninitializing THEN registered
                     ELSE registered \union {Hook(t)}
    /\ UNCHANGED <<engineVars, arg, stack, hookCalls>>

(* The entry is gone already: Wh_SetFunctionHook returns FALSE.             *)
QueueEnableFails(t) ==
    /\ Step(t, "queue", "idle")
    /\ Hook(t) \notin created
    /\ UNCHANGED <<tableVars, engineVars, arg, stack, hookCalls, registered>>

(* LoadedMod::RemoveFunctionHook past its checks.                           *)
CallRemoveFunctionHook(t, target) ==
    /\ Step(t, "idle", "unqueue")
    /\ ModOf[t] \in initialized \ uninitializing
    /\ arg' = [arg EXCEPT ![t] = target]
    /\ UNCHANGED <<tableVars, engineVars, stack, hookCalls, registered>>

(* MH_QueueDisableHookEx, which fails when there is no such entry.          *)
QueueDisable(t) ==
    /\ Step(t, "unqueue", "idle")
    /\ MH_QueueDisableHookEx({Hook(t)})
    /\ registered' = registered \ {Hook(t)}
    /\ UNCHANGED <<engineVars, arg, stack, hookCalls>>

(* Mutant: no check of m_initialized.                                       *)
CallApplyHookOperationsUninitialized(t) ==
    /\ Step(t, "idle", "apply")
    /\ ModOf[t] \notin uninitializing
    /\ UNCHANGED <<tableVars, engineVars, arg, stack, hookCalls, registered>>

(* LoadedMod::ApplyHookOperations past its checks.                          *)
CallApplyHookOperations(t) ==
    /\ Step(t, "idle", "apply")
    /\ ModOf[t] \in initialized \ uninitializing
    /\ UNCHANGED <<tableVars, engineVars, arg, stack, hookCalls, registered>>

(* MH_ApplyQueuedEx(this) ...                                               *)
ApplyQueued(t) ==
    /\ Step(t, "apply", "sweep")
    /\ \E failed \in AttachFailures(HooksOf(ModOf[t])) :
         /\ MH_ApplyQueuedEx(HooksOf(ModOf[t]), failed)
         /\ registered' = registered \ failed
    /\ UNCHANGED <<engineVars, arg, stack, hookCalls>>

(* ... and MH_RemoveDisabledHooksEx(this).                                  *)
RemoveDisabled(t) ==
    /\ Step(t, "sweep", "idle")
    /\ MH_RemoveDisabledHooksEx(HooksOf(ModOf[t]))
    /\ UNCHANGED <<engineVars, arg, stack, hookCalls, registered>>

------------------------------------------------------------------------------
(* The threads of the host program.                                         *)

(* A call of a patched function, by the program or by a detour that calls  *)
(* on: the detour of the mod starts.  The mods that hook one function form *)
(* a chain; in which order they are entered is left open.                  *)
EnterDetour(c, h) ==
    /\ h \in enabled /\ h[1] \in Mods
    /\ Len(stack[c]) < MaxDepth
    /\ stack' = [stack EXCEPT ![c] = Append(@, h[1])]
    /\ UNCHANGED <<tableVars, engineVars, pc, arg, hookCalls, registered>>

LeaveDetour(c) ==
    /\ stack[c] # <<>>
    /\ stack' = [stack EXCEPT ![c] = SubSeq(@, 1, Len(@) - 1)]
    /\ UNCHANGED <<tableVars, engineVars, pc, arg, hookCalls, registered>>

(* A call of CreateProcessInternalW reaches the hook of the engine, which  *)
(* counts it.  Its place among the detours of the mods on the same stack is *)
(* left open, so that it may return before them or after them, or never.    *)
EnterHook(c) ==
    /\ OwnHook \in enabled /\ c \notin hookCalls
    /\ hookCalls' = hookCalls \union {c}
    /\ UNCHANGED <<tableVars, engineVars, pc, arg, stack, registered>>

LeaveHook(c) ==
    /\ c \in hookCalls
    /\ hookCalls' = hookCalls \ {c}
    /\ UNCHANGED <<tableVars, engineVars, pc, arg, stack, registered>>

------------------------------------------------------------------------------
LoadStep ==
    \/ \E m \in Mods : LoadLibrary(m)
    \/ \E m \in Mods : LoadLibraryFails(m)
    \/ \E m \in Mods : InitSucceeds(m)
    \/ \E m \in Mods : InitFails(m)
    \/ HookCreateProcess
    \/ ApplyLoaded

UnloadStep ==
    \/ \E m \in Mods : BeforeUninit(m)
    \/ \E m \in Mods : QueueDisableAll(m)
    \/ ApplyUnloading
    \/ DisableAtEnd
    \/ DestroyInjector
    \/ WaitForRegions
    \/ \E m \in Mods : Destroy(m)
    \/ StartLoading
    \/ EndSession

BeginStep ==
    \/ \E mods \in SUBSET Mods : StartSession(mods)
    \/ \E out, in \in SUBSET Mods : BeginReload(out, in)
    \/ BeginEnd

ThreadStep(t) ==
    \/ \E target \in Targets : CallSetFunctionHook(t, target)
    \/ CreateHook(t)
    \/ CreateHookFails(t)
    \/ QueueEnable(t)
    \/ QueueEnableFails(t)
    \/ \E target \in Targets : CallRemoveFunctionHook(t, target)
    \/ QueueDisable(t)
    \/ CallApplyHookOperations(t)
    \/ ApplyQueued(t)
    \/ RemoveDisabled(t)

CallerStep(c) ==
    \/ \E h \in Hooks : EnterDetour(c, h)
    \/ LeaveDetour(c)
    \/ EnterHook(c)
    \/ LeaveHook(c)

Next ==
    \/ LoadStep
    \/ UnloadStep
    \/ BeginStep
    \/ \E t \in Threads : ThreadStep(t)
    \/ \E c \in Callers : CallerStep(c)

Spec == Init /\ [][Next]_vars

(* The engine thread is a thread of the operating system, and the           *)
(* callbacks of the mods it runs return; nothing is asked of the threads of *)
(* mods or of the host program.                                             *)
FairSpec == Spec /\ WF_vars(LoadStep) /\ WF_vars(UnloadStep)

------------------------------------------------------------------------------
TypeOK ==
    /\ TableTypeOK
    /\ phase \in Phases
    /\ todo \subseteq Mods /\ unloading \subseteq Mods /\ loading \subseteq Mods
    /\ ending \in BOOLEAN
    /\ mapped \subseteq Mods
    /\ initialized \subseteq mapped /\ uninitializing \subseteq mapped
    /\ pc \in [Threads -> Calls]
    /\ arg \in [Threads -> Targets]
    /\ stack \in [Callers -> Seq(Mods)]
    /\ hookCalls \subseteq Callers
    /\ registered \subseteq Hooks

(* No thread of the host program is inside the code of a mod whose library *)
(* has been freed (~LoadedMod).  It takes the order of                     *)
(* ReloadModsAndSettings to hold: hooks disabled first, stacks scanned     *)
(* next, library freed last, and no hook of the mod enabled in between.    *)
NoDanglingCode == \A c \in Callers : Frames(c) \subseteq mapped

(* A mod is entered through its hooks only once its Wh_ModInit returned     *)
(* TRUE: what Wh_ModInit, or a thread it started, registers stays           *)
(* queued, whatever other mods and the engine apply meanwhile.              *)
NoDetourBeforeInit == \A h \in enabled : h[1] \in Mods => h[1] \in initialized

(* From the moment ReloadModsAndSettings has applied the queued changes    *)
(* until the mod is gone, the mods being unloaded cannot be entered: a     *)
(* scan of the stacks that finds nothing stays true.                       *)
UnloadedModsAreClosed ==
    phase \in {"wait", "destroy"} => \A h \in enabled : h[1] \notin unloading

(* The mods a thread of the host program can enter: those initialized,     *)
(* until the reload that unloads them has applied the queued changes.      *)
OpenMods == IF phase \in {"wait", "destroy"} THEN initialized \ unloading
            ELSE initialized

Gate == INSTANCE ModGate WITH loaded <- mapped, open <- OpenMods, inside <- stack

(* Loading, hooking and unloading mods implement the gate of ModGate.       *)
ImplementsModGate == Gate!Spec

(* A hook whose Wh_SetFunctionHook returned TRUE is in the table until the *)
(* mod removes it or is told to uninitialize: no other operation, of the   *)
(* mod, of another mod or of the engine, loses it.                         *)
RegisteredHookSurvives == registered \subseteq created

(* Once LoadedMod::BeforeUninit has returned, no hook of the mod is         *)
(* created or enabled any more (mods_api.h: Wh_SetFunctionHook "Can't be    *)
(* called after Wh_ModBeforeUninit returns").                               *)
AddsNoHookLate ==
    \A h \in Hooks :
        h[1] \in uninitializing \ todo =>
            /\ h \in created' => h \in created
            /\ h \in queued' => h \in queued

(* No step adds a hook after LoadedMod::BeforeUninit, see AddsNoHookLate.   *)
NoHookAfterBeforeUninit == [][AddsNoHookLate]_vars

(* mods_api.h: queued hook operations are applied "automatically by         *)
(* Windhawk after Wh_ModInit": a hook registered while Wh_ModInit runs is   *)
(* eventually live, unless the mod fails to initialize, removes it, or its  *)
(* target cannot be patched.                                                *)
InitHooksAreApplied ==
    \A h \in Hooks :
        (h \in registered /\ h[1] \notin initialized)
            ~> (h \in enabled \/ h \notin registered)

(* ~NewProcessInjector waits for a call of CreateProcessInternalW.          *)
HookHeld == phase = "drain" /\ hookCalls # {}

(* A reload that has begun finishes, even when a detour never returns: the  *)
(* scan of the stacks is bounded.  So does the end of a session, unless it  *)
(* waits in ~NewProcessInjector for ever because a call of                  *)
(* CreateProcessInternalW never returns, be it held by a detour of a mod.   *)
ReloadTerminates ==
    phase = "before" ~> (phase \in {"idle", "off"} \/ []HookHeld)
==============================================================================
