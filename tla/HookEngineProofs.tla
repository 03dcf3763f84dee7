--------------------------- MODULE HookEngineProofs ---------------------------
(***************************************************************************)
(* For any number of mods, targets, threads and callers: as long as the    *)
(* session goes on, the scan of the stacks succeeds and no mod is inside   *)
(* the hook API when its Wh_ModBeforeUninit returns, the code of a mod is  *)
(* never freed while it runs or can be entered.  Patching may fail.        *)
(***************************************************************************)
EXTENDS HookEngine, TLAPS

(* The faults excluded.  With "sessionEnds" the run HookSessionEnd violates  *)
(* NoDanglingCode; so do a scan that gives up and hook calls that are late. *)
BenignFaults == Faults \subseteq {"attachFails"}

(* A thread that is past the checks of Wh_RemoveFunctionHook or of          *)
(* Wh_ApplyHookOperations belongs to a mod whose Wh_ModInit returned.       *)
ApplyingIsInitialized ==
    \A t \in Threads : pc[t] \in {"unqueue", "apply", "sweep"} => ModOf[t] \in initialized

(* Hooks belong to loaded mods, live hooks to initialized ones, and the     *)
(* threads of the host program are only inside initialized mods.            *)
Lifecycle ==
    /\ \A h \in created : h[1] \in Mods => h[1] \in mapped
    /\ NoDetourBeforeInit
    /\ \A c \in Callers : Frames(c) \subseteq initialized
    /\ uninitializing \subseteq initialized
    /\ \A m \in uninitializing : ~InApi(m)
    /\ mapped \ initialized \subseteq (IF phase = "load" THEN todo ELSE {})

(* What the engine thread knows in each of its phases.                      *)
PhaseFacts ==
    /\ ~ending /\ phase # "drain"
    /\ phase = "off" => mapped = {}
    /\ phase = "load" => todo \intersect initialized = {}
    /\ phase \in {"before", "wait", "destroy"} => loading \intersect mapped \subseteq unloading
    /\ phase = "before" =>
         /\ todo \subseteq unloading /\ unloading \subseteq mapped
         /\ \A m \in unloading \ todo : m \in uninitializing /\ \A h \in queued : h[1] # m
    /\ phase = "wait" => unloading \subseteq uninitializing
    /\ phase = "destroy" =>
         /\ todo \subseteq unloading /\ todo \subseteq uninitializing
         /\ unloading \intersect mapped \subseteq todo
         /\ \A c \in Callers : Frames(c) \intersect unloading = {}

(* The inductive invariant.                                                 *)
IInv ==
    /\ TypeOK
    /\ ApplyingIsInitialized
    /\ Lifecycle
    /\ PhaseFacts
    /\ UnloadedModsAreClosed

------------------------------------------------------------------------------
(* The first state.                                                         *)
LEMMA InitEstablishes == ASSUME Init PROVE IInv
<1>1. TypeOK
  <2>1. TableTypeOK /\ registered \subseteq Hooks
    BY DEF Init, TableInit, TableTypeOK
  <2>2. pc \in [Threads -> Calls] /\ arg \in [Threads -> Targets]
    BY HookEngineAssumption DEF Init, Calls
  <2>3. stack \in [Callers -> Seq(Mods)]
    BY DEF Init
  <2>4. phase \in Phases
    BY DEF Init, Phases
  <2>5. QED
    BY <2>1, <2>2, <2>3, <2>4 DEF Init, TypeOK
<1>2. ApplyingIsInitialized
  BY DEF Init, ApplyingIsInitialized
<1>3. \A c \in Callers : Frames(c) = {}
  BY DEF Init, Frames
<1>4. Lifecycle
  BY <1>3 DEF Init, TableInit, Lifecycle, NoDetourBeforeInit
<1>5. PhaseFacts /\ UnloadedModsAreClosed
  BY DEF Init, TableInit, PhaseFacts, UnloadedModsAreClosed
<1>6. QED
  BY <1>1, <1>2, <1>4, <1>5 DEF IInv

(* Loading a mod keeps the invariant.  A library that is loaded is initialized *)
(* before its hooks are applied, and InitFails frees one that nobody can be in. *)
LEMMA LoadStepPreserves ==
    ASSUME BenignFaults, IInv, LoadStep PROVE IInv'
<1>1. ASSUME NEW m \in Mods, LoadLibrary(m) PROVE IInv'
  <2>1. TypeOK'  BY <1>1 DEF LoadLibrary, tableVars, IInv, TypeOK, TableTypeOK
  <2>2. ApplyingIsInitialized'  BY <1>1 DEF LoadLibrary, IInv, ApplyingIsInitialized
  <2>3. Lifecycle'  BY <1>1 DEF LoadLibrary, tableVars, IInv, Lifecycle, InApi,
     Frames, NoDetourBeforeInit
  <2>4. PhaseFacts'  BY <1>1 DEF LoadLibrary, IInv, PhaseFacts
  <2>5. UnloadedModsAreClosed'  BY <1>1 DEF LoadLibrary, UnloadedModsAreClosed
  <2>6. QED  BY <2>1, <2>2, <2>3, <2>4, <2>5 DEF IInv
<1>2. ASSUME NEW m \in Mods, LoadLibraryFails(m) PROVE IInv'
  <2>1. TypeOK'  BY <1>2 DEF LoadLibraryFails, tableVars, IInv, TypeOK, TableTypeOK
  <2>2. ApplyingIsInitialized'  BY <1>2 DEF LoadLibraryFails, IInv,
     ApplyingIsInitialized
  <2>3. Lifecycle'  BY <1>2 DEF LoadLibraryFails, tableVars, IInv, Lifecycle, InApi,
     Frames, NoDetourBeforeInit
  <2>4. PhaseFacts'  BY <1>2 DEF LoadLibraryFails, IInv, PhaseFacts
  <2>5. UnloadedModsAreClosed'  BY <1>2 DEF LoadLibraryFails, UnloadedModsAreClosed
  <2>6. QED  BY <2>1, <2>2, <2>3, <2>4, <2>5 DEF IInv
<1>3. ASSUME NEW m \in Mods, InitSucceeds(m) PROVE IInv'
  <2>1. TypeOK'  BY <1>3 DEF InitSucceeds, tableVars, IInv, TypeOK, TableTypeOK
  <2>2. ApplyingIsInitialized'  BY <1>3 DEF InitSucceeds, IInv,
     ApplyingIsInitialized
  <2>3. Lifecycle'  BY <1>3 DEF InitSucceeds, tableVars, IInv, Lifecycle, InApi,
     Frames, NoDetourBeforeInit
  <2>4. PhaseFacts'  BY <1>3 DEF InitSucceeds, IInv, PhaseFacts
  <2>5. UnloadedModsAreClosed'  BY <1>3 DEF InitSucceeds, UnloadedModsAreClosed
  <2>6. QED  BY <2>1, <2>2, <2>3, <2>4, <2>5 DEF IInv
<1>4. ASSUME NEW m \in Mods, InitFails(m) PROVE IInv'
  <2>1. TypeOK'  BY <1>4 DEF InitFails, MH_RemoveHookEx, IInv, TypeOK, TableTypeOK,
     Lifecycle, PhaseFacts
  <2>2. ApplyingIsInitialized'  BY <1>4 DEF InitFails, IInv, ApplyingIsInitialized
  <2>3. Lifecycle'  BY <1>4 DEF InitFails, MH_RemoveHookEx, HooksOf, IInv,
     Lifecycle, InApi, Frames, NoDetourBeforeInit
  <2>4. PhaseFacts'  BY <1>4 DEF InitFails, IInv, PhaseFacts
  <2>5. UnloadedModsAreClosed'  BY <1>4 DEF InitFails, UnloadedModsAreClosed
  <2>6. QED  BY <2>1, <2>2, <2>3, <2>4, <2>5 DEF IInv
<1>5. CASE HookCreateProcess
  <2>1. TypeOK'  BY <1>5, HookEngineAssumption DEF HookCreateProcess, engineVars,
     IInv, TypeOK, TableTypeOK, Hooks, Idents, OwnHook
  <2>2. ApplyingIsInitialized'  BY <1>5 DEF HookCreateProcess, engineVars, IInv,
     ApplyingIsInitialized
  <2>3. Lifecycle'  BY <1>5, OwnIsNotAMod DEF HookCreateProcess, engineVars, IInv,
     Lifecycle, InApi, Frames, NoDetourBeforeInit, OwnHook
  <2>4. PhaseFacts'  BY <1>5 DEF HookCreateProcess, engineVars, IInv, PhaseFacts
  <2>5. UnloadedModsAreClosed'  BY <1>5 DEF HookCreateProcess, engineVars,
     UnloadedModsAreClosed
  <2>6. QED  BY <2>1, <2>2, <2>3, <2>4, <2>5 DEF IInv
<1>6. CASE ApplyLoaded
  <2>1. TypeOK'  BY <1>6 DEF ApplyLoaded, MH_ApplyQueuedEx, IInv, TypeOK,
     TableTypeOK, Phases
  <2>2. ApplyingIsInitialized'  BY <1>6 DEF ApplyLoaded, IInv, ApplyingIsInitialized
  <2>3. Lifecycle'  BY <1>6 DEF ApplyLoaded, MH_ApplyQueuedEx, IInv, Lifecycle,
     InApi, Frames, NoDetourBeforeInit
  <2>4. PhaseFacts'  BY <1>6 DEF ApplyLoaded, IInv, PhaseFacts
  <2>5. UnloadedModsAreClosed'  BY <1>6 DEF ApplyLoaded, UnloadedModsAreClosed
  <2>6. QED  BY <2>1, <2>2, <2>3, <2>4, <2>5 DEF IInv
<1>7. QED
  BY <1>1, <1>2, <1>3, <1>4, <1>5, <1>6 DEF LoadStep

(* Unloading keeps the invariant.  ApplyUnloading closes the mods being     *)
(* unloaded, WaitForRegions finds nobody in them, and Destroy relies on both. *)
LEMMA UnloadStepPreserves ==
    ASSUME BenignFaults, IInv, UnloadStep PROVE IInv'
<1>1. ASSUME NEW m \in Mods, BeforeUninit(m) PROVE IInv'
  <2>1. TypeOK'  BY <1>1 DEF BeforeUninit, tableVars, IInv, TypeOK, TableTypeOK,
     PhaseFacts
  <2>2. ApplyingIsInitialized'  BY <1>1 DEF BeforeUninit, IInv,
     ApplyingIsInitialized
  <2>3. Lifecycle'  BY <1>1 DEF BeforeUninit, tableVars, BenignFaults, IInv,
     Lifecycle, PhaseFacts, InApi, Frames, NoDetourBeforeInit
  <2>4. PhaseFacts'  BY <1>1 DEF BeforeUninit, tableVars, IInv, PhaseFacts
  <2>5. UnloadedModsAreClosed'  BY <1>1 DEF BeforeUninit, UnloadedModsAreClosed
  <2>6. QED  BY <2>1, <2>2, <2>3, <2>4, <2>5 DEF IInv
<1>2. ASSUME NEW m \in Mods, QueueDisableAll(m) PROVE IInv'
  <2>1. TypeOK'  BY <1>2 DEF QueueDisableAll, MH_QueueDisableHookEx, IInv, TypeOK,
     TableTypeOK
  <2>2. ApplyingIsInitialized'  BY <1>2 DEF QueueDisableAll, IInv,
     ApplyingIsInitialized
  <2>3. Lifecycle'  BY <1>2 DEF QueueDisableAll, MH_QueueDisableHookEx, IInv,
     Lifecycle, InApi, Frames, NoDetourBeforeInit
  <2>4. PhaseFacts'  BY <1>2 DEF QueueDisableAll, MH_QueueDisableHookEx, HooksOf,
     IInv, TypeOK, TableTypeOK, PhaseFacts
  <2>5. UnloadedModsAreClosed'  BY <1>2 DEF QueueDisableAll, UnloadedModsAreClosed
  <2>6. QED  BY <2>1, <2>2, <2>3, <2>4, <2>5 DEF IInv
<1>3. CASE ApplyUnloading
  <2>1. TypeOK'  BY <1>3 DEF ApplyUnloading, MH_ApplyQueuedEx, AfterDisabling, IInv,
     TypeOK, TableTypeOK, Phases
  <2>2. ApplyingIsInitialized'  BY <1>3 DEF ApplyUnloading, IInv,
     ApplyingIsInitialized
  <2>3. Lifecycle'  BY <1>3 DEF ApplyUnloading, MH_ApplyQueuedEx, IInv, Lifecycle,
     InApi, Frames, NoDetourBeforeInit
  <2>4. PhaseFacts'  BY <1>3 DEF ApplyUnloading, AfterDisabling, IInv, PhaseFacts
  <2>5. UnloadedModsAreClosed'  BY <1>3 DEF ApplyUnloading, MH_ApplyQueuedEx,
     AttachFailures, IInv, TypeOK, TableTypeOK, PhaseFacts, UnloadedModsAreClosed
  <2>6. QED  BY <2>1, <2>2, <2>3, <2>4, <2>5 DEF IInv
<1>4. CASE DisableAtEnd \/ DestroyInjector
  BY <1>4 DEF DisableAtEnd, DestroyInjector, IInv, PhaseFacts
<1>5. CASE WaitForRegions
  <2>1. TypeOK'  BY <1>5 DEF WaitForRegions, tableVars, IInv, TypeOK, TableTypeOK,
     Phases
  <2>2. ApplyingIsInitialized'  BY <1>5 DEF WaitForRegions, IInv,
     ApplyingIsInitialized
  <2>3. Lifecycle'  BY <1>5 DEF WaitForRegions, tableVars, IInv, Lifecycle, InApi,
     Frames, NoDetourBeforeInit
  <2>4. PhaseFacts'  BY <1>5 DEF WaitForRegions, BenignFaults, IInv, PhaseFacts,
     Frames, IsRunning
  <2>5. UnloadedModsAreClosed'  BY <1>5 DEF WaitForRegions, tableVars, IInv,
     UnloadedModsAreClosed
  <2>6. QED  BY <2>1, <2>2, <2>3, <2>4, <2>5 DEF IInv
<1>6. ASSUME NEW m \in Mods, Destroy(m) PROVE IInv'
  <2>1. TypeOK'  BY <1>6 DEF Destroy, MH_RemoveHookEx, IInv, TypeOK, TableTypeOK
  <2>2. ApplyingIsInitialized'  BY <1>6 DEF Destroy, IInv, ApplyingIsInitialized,
     Lifecycle, PhaseFacts, InApi
  <2>3. Lifecycle'  BY <1>6 DEF Destroy, MH_RemoveHookEx, HooksOf, IInv, TypeOK,
     TableTypeOK, Lifecycle, PhaseFacts, InApi, Frames, NoDetourBeforeInit
  <2>4. PhaseFacts'  BY <1>6 DEF Destroy, IInv, PhaseFacts, Frames
  <2>5. UnloadedModsAreClosed'  BY <1>6 DEF Destroy, MH_RemoveHookEx, IInv,
     UnloadedModsAreClosed
  <2>6. QED  BY <2>1, <2>2, <2>3, <2>4, <2>5 DEF IInv
<1>7. CASE StartLoading
  <2>1. TypeOK'  BY <1>7 DEF StartLoading, tableVars, IInv, TypeOK, TableTypeOK,
     Phases
  <2>2. ApplyingIsInitialized'  BY <1>7 DEF StartLoading, IInv,
     ApplyingIsInitialized
  <2>3. Lifecycle'  BY <1>7 DEF StartLoading, tableVars, IInv, Lifecycle, InApi,
     Frames, NoDetourBeforeInit
  <2>4. PhaseFacts'  BY <1>7 DEF StartLoading, IInv, TypeOK, PhaseFacts
  <2>5. UnloadedModsAreClosed'  BY <1>7 DEF StartLoading, UnloadedModsAreClosed
  <2>6. QED  BY <2>1, <2>2, <2>3, <2>4, <2>5 DEF IInv
<1>8. CASE EndSession
  BY <1>8 DEF EndSession, IInv, PhaseFacts
<1>9. QED
  BY <1>1, <1>2, <1>3, <1>4, <1>5, <1>6, <1>7, <1>8 DEF UnloadStep

(* The engine thread begins a load or a reload.  BeginEnd, and with it the  *)
(* end of a session, is excluded by BenignFaults.                           *)
LEMMA BeginStepPreserves ==
    ASSUME BenignFaults, IInv, BeginStep PROVE IInv'
<1>1. ASSUME NEW mods \in SUBSET Mods, StartSession(mods) PROVE IInv'
  <2>1. TypeOK'  BY <1>1 DEF StartSession, tableVars, IInv, TypeOK, TableTypeOK,
     Phases
  <2>2. ApplyingIsInitialized'  BY <1>1 DEF StartSession, IInv,
     ApplyingIsInitialized
  <2>3. Lifecycle'  BY <1>1 DEF StartSession, tableVars, IInv, Lifecycle, InApi,
     Frames, NoDetourBeforeInit
  <2>4. PhaseFacts'  BY <1>1 DEF StartSession, IInv, TypeOK, PhaseFacts
  <2>5. UnloadedModsAreClosed'  BY <1>1 DEF StartSession, UnloadedModsAreClosed
  <2>6. QED  BY <2>1, <2>2, <2>3, <2>4, <2>5 DEF IInv
<1>2. ASSUME NEW out \in SUBSET Mods, NEW in \in SUBSET Mods, BeginReload(out, in) PROVE IInv'
  <2>1. TypeOK'  BY <1>2 DEF BeginReload, tableVars, IInv, TypeOK, TableTypeOK,
     Phases
  <2>2. ApplyingIsInitialized'  BY <1>2 DEF BeginReload, IInv, ApplyingIsInitialized
  <2>3. Lifecycle'  BY <1>2 DEF BeginReload, tableVars, IInv, Lifecycle, InApi,
     Frames, NoDetourBeforeInit
  <2>4. PhaseFacts'  BY <1>2 DEF BeginReload, IInv, PhaseFacts
  <2>5. UnloadedModsAreClosed'  BY <1>2 DEF BeginReload, UnloadedModsAreClosed
  <2>6. QED  BY <2>1, <2>2, <2>3, <2>4, <2>5 DEF IInv
<1>3. CASE BeginEnd
  BY <1>3 DEF BeginEnd, BenignFaults
<1>4. QED
  BY <1>1, <1>2, <1>3 DEF BeginStep

(* The hook API keeps the invariant: a thread in it belongs to a mod that is *)
(* not uninitializing, so that what it applies is not being unloaded.       *)
LEMMA ThreadStepPreserves ==
    ASSUME NEW t \in Threads, BenignFaults, IInv, ThreadStep(t) PROVE IInv'
<1>1. ASSUME NEW target \in Targets, CallSetFunctionHook(t, target) PROVE IInv'
  <2>1. TypeOK'  BY <1>1 DEF CallSetFunctionHook, Step, tableVars, engineVars, IInv,
     TypeOK, TableTypeOK, Calls
  <2>2. ApplyingIsInitialized'  BY <1>1 DEF CallSetFunctionHook, Step, engineVars,
     IInv, ApplyingIsInitialized
  <2>3. Lifecycle'  BY <1>1 DEF CallSetFunctionHook, Step, tableVars, engineVars,
     IInv, Lifecycle, InApi, Frames, NoDetourBeforeInit
  <2>4. PhaseFacts'  BY <1>1 DEF CallSetFunctionHook, tableVars, engineVars, IInv,
     PhaseFacts, Frames
  <2>5. UnloadedModsAreClosed'  BY <1>1 DEF CallSetFunctionHook, tableVars,
     engineVars, IInv, UnloadedModsAreClosed
  <2>6. QED  BY <2>1, <2>2, <2>3, <2>4, <2>5 DEF IInv
<1>2. CASE CreateHook(t)
  <2>1. TypeOK'  BY <1>2 DEF CreateHook, MH_CreateHookEx, Step, Hook, engineVars,
     IInv, TypeOK, TableTypeOK, Hooks, Idents, Calls
  <2>2. ApplyingIsInitialized'  BY <1>2 DEF CreateHook, Step, engineVars, IInv,
     ApplyingIsInitialized
  <2>3. Lifecycle'  BY <1>2 DEF CreateHook, MH_CreateHookEx, Step, Hook, engineVars,
     IInv, Lifecycle, InApi, Frames, NoDetourBeforeInit
  <2>4. PhaseFacts'  BY <1>2 DEF CreateHook, MH_CreateHookEx, engineVars, IInv,
     PhaseFacts, Frames
  <2>5. UnloadedModsAreClosed'  BY <1>2 DEF CreateHook, MH_CreateHookEx, engineVars,
     IInv, UnloadedModsAreClosed
  <2>6. QED  BY <2>1, <2>2, <2>3, <2>4, <2>5 DEF IInv
<1>3. CASE CreateHookFails(t)
  <2>1. TypeOK'  BY <1>3 DEF CreateHookFails, Step, tableVars, engineVars, IInv,
     TypeOK, TableTypeOK, Calls
  <2>2. ApplyingIsInitialized'  BY <1>3 DEF CreateHookFails, Step, engineVars, IInv,
     ApplyingIsInitialized
  <2>3. Lifecycle'  BY <1>3 DEF CreateHookFails, Step, tableVars, engineVars, IInv,
     Lifecycle, InApi, Frames, NoDetourBeforeInit
  <2>4. PhaseFacts'  BY <1>3 DEF CreateHookFails, tableVars, engineVars, IInv,
     PhaseFacts, Frames
  <2>5. UnloadedModsAreClosed'  BY <1>3 DEF CreateHookFails, tableVars, engineVars,
     IInv, UnloadedModsAreClosed
  <2>6. QED  BY <2>1, <2>2, <2>3, <2>4, <2>5 DEF IInv
<1>4. CASE QueueEnable(t)
  <2>1. TypeOK'  BY <1>4, OwnIsNotAMod, HookEngineAssumption DEF QueueEnable,
     MH_QueueEnableHookEx, Step, engineVars, IInv, TypeOK, TableTypeOK, Calls
  <2>2. ApplyingIsInitialized'  BY <1>4 DEF QueueEnable, Step, engineVars, IInv,
     ApplyingIsInitialized
  <2>3. Lifecycle'  BY <1>4 DEF QueueEnable, MH_QueueEnableHookEx, Step, engineVars,
     IInv, Lifecycle, InApi, Frames, NoDetourBeforeInit
  <2>4. PhaseFacts'  BY <1>4 DEF QueueEnable, MH_QueueEnableHookEx, Step, Hook,
     engineVars, IInv, Lifecycle, PhaseFacts, InApi, Frames
  <2>5. UnloadedModsAreClosed'  BY <1>4 DEF QueueEnable, MH_QueueEnableHookEx,
     engineVars, IInv, UnloadedModsAreClosed
  <2>6. QED  BY <2>1, <2>2, <2>3, <2>4, <2>5 DEF IInv
<1>5. CASE QueueEnableFails(t)
  <2>1. TypeOK'  BY <1>5 DEF QueueEnableFails, Step, tableVars, engineVars, IInv,
     TypeOK, TableTypeOK, Calls
  <2>2. ApplyingIsInitialized'  BY <1>5 DEF QueueEnableFails, Step, engineVars,
     IInv, ApplyingIsInitialized
  <2>3. Lifecycle'  BY <1>5 DEF QueueEnableFails, Step, tableVars, engineVars, IInv,
     Lifecycle, InApi, Frames, NoDetourBeforeInit
  <2>4. PhaseFacts'  BY <1>5 DEF QueueEnableFails, tableVars, engineVars, IInv,
     PhaseFacts, Frames
  <2>5. UnloadedModsAreClosed'  BY <1>5 DEF QueueEnableFails, tableVars, engineVars,
     IInv, UnloadedModsAreClosed
  <2>6. QED  BY <2>1, <2>2, <2>3, <2>4, <2>5 DEF IInv
<1>6. ASSUME NEW target \in Targets, CallRemoveFunctionHook(t, target) PROVE IInv'
  <2>1. TypeOK'  BY <1>6 DEF CallRemoveFunctionHook, Step, tableVars, engineVars,
     IInv, TypeOK, TableTypeOK, Calls
  <2>2. ApplyingIsInitialized'  BY <1>6 DEF CallRemoveFunctionHook, Step,
     engineVars, IInv, ApplyingIsInitialized
  <2>3. Lifecycle'  BY <1>6 DEF CallRemoveFunctionHook, Step, tableVars, engineVars,
     IInv, Lifecycle, InApi, Frames, NoDetourBeforeInit
  <2>4. PhaseFacts'  BY <1>6 DEF CallRemoveFunctionHook, tableVars, engineVars,
     IInv, PhaseFacts, Frames
  <2>5. UnloadedModsAreClosed'  BY <1>6 DEF CallRemoveFunctionHook, tableVars,
     engineVars, IInv, UnloadedModsAreClosed
  <2>6. QED  BY <2>1, <2>2, <2>3, <2>4, <2>5 DEF IInv
<1>7. CASE QueueDisable(t)
  <2>1. TypeOK'  BY <1>7 DEF QueueDisable, MH_QueueDisableHookEx, Step, engineVars,
     IInv, TypeOK, TableTypeOK, Calls
  <2>2. ApplyingIsInitialized'  BY <1>7 DEF QueueDisable, Step, engineVars, IInv,
     ApplyingIsInitialized
  <2>3. Lifecycle'  BY <1>7 DEF QueueDisable, MH_QueueDisableHookEx, Step,
     engineVars, IInv, Lifecycle, InApi, Frames, NoDetourBeforeInit
  <2>4. PhaseFacts'  BY <1>7 DEF QueueDisable, MH_QueueDisableHookEx, engineVars,
     IInv, PhaseFacts, Frames
  <2>5. UnloadedModsAreClosed'  BY <1>7 DEF QueueDisable, MH_QueueDisableHookEx,
     engineVars, IInv, UnloadedModsAreClosed
  <2>6. QED  BY <2>1, <2>2, <2>3, <2>4, <2>5 DEF IInv
<1>8. CASE CallApplyHookOperations(t)
  <2>1. TypeOK'  BY <1>8 DEF CallApplyHookOperations, Step, tableVars, engineVars,
     IInv, TypeOK, TableTypeOK, Calls
  <2>2. ApplyingIsInitialized'  BY <1>8 DEF CallApplyHookOperations, Step,
     engineVars, IInv, ApplyingIsInitialized
  <2>3. Lifecycle'  BY <1>8 DEF CallApplyHookOperations, Step, tableVars,
     engineVars, IInv, Lifecycle, InApi, Frames, NoDetourBeforeInit
  <2>4. PhaseFacts'  BY <1>8 DEF CallApplyHookOperations, tableVars, engineVars,
     IInv, PhaseFacts, Frames
  <2>5. UnloadedModsAreClosed'  BY <1>8 DEF CallApplyHookOperations, tableVars,
     engineVars, IInv, UnloadedModsAreClosed
  <2>6. QED  BY <2>1, <2>2, <2>3, <2>4, <2>5 DEF IInv
<1>9. CASE ApplyQueued(t)
  <2>1. TypeOK'  BY <1>9 DEF ApplyQueued, MH_ApplyQueuedEx, Step, engineVars, IInv,
     TypeOK, TableTypeOK, Calls
  <2>2. ApplyingIsInitialized'  BY <1>9 DEF ApplyQueued, Step, engineVars, IInv,
     ApplyingIsInitialized
  <2>3. Lifecycle'  BY <1>9 DEF ApplyQueued, MH_ApplyQueuedEx, HooksOf, Step,
     engineVars, IInv, ApplyingIsInitialized, Lifecycle, InApi, Frames,
     NoDetourBeforeInit
  <2>4. PhaseFacts'  BY <1>9 DEF ApplyQueued, MH_ApplyQueuedEx, engineVars, IInv,
     PhaseFacts, Frames
  <2>5. UnloadedModsAreClosed'  BY <1>9 DEF ApplyQueued, MH_ApplyQueuedEx, HooksOf,
     Step, engineVars, IInv, Lifecycle, PhaseFacts, UnloadedModsAreClosed, InApi
  <2>6. QED  BY <2>1, <2>2, <2>3, <2>4, <2>5 DEF IInv
<1>10. CASE RemoveDisabled(t)
  <2>1. TypeOK'  BY <1>10 DEF RemoveDisabled, MH_RemoveDisabledHooksEx, Step,
     engineVars, IInv, TypeOK, TableTypeOK, Calls
  <2>2. ApplyingIsInitialized'  BY <1>10 DEF RemoveDisabled, Step, engineVars, IInv,
     ApplyingIsInitialized
  <2>3. Lifecycle'  BY <1>10 DEF RemoveDisabled, MH_RemoveDisabledHooksEx, Step,
     engineVars, IInv, Lifecycle, InApi, Frames, NoDetourBeforeInit
  <2>4. PhaseFacts'  BY <1>10 DEF RemoveDisabled, MH_RemoveDisabledHooksEx,
     engineVars, IInv, PhaseFacts, Frames
  <2>5. UnloadedModsAreClosed'  BY <1>10 DEF RemoveDisabled,
     MH_RemoveDisabledHooksEx, engineVars, IInv, UnloadedModsAreClosed
  <2>6. QED  BY <2>1, <2>2, <2>3, <2>4, <2>5 DEF IInv
<1>11. QED
  BY <1>1, <1>2, <1>3, <1>4, <1>5, <1>6, <1>7, <1>8, <1>9, <1>10 DEF ThreadStep

(* A thread of the host program enters only mods that are initialized and   *)
(* open.                                                                    *)
LEMMA CallerStepPreserves ==
    ASSUME NEW c \in Callers, BenignFaults, IInv, CallerStep(c) PROVE IInv'
<1>1. ASSUME NEW h \in Hooks, EnterDetour(c, h) PROVE IInv'
  <2>1. TypeOK'  BY <1>1 DEF EnterDetour, tableVars, engineVars, IInv, TypeOK,
     TableTypeOK
  <2>2. ApplyingIsInitialized'  BY <1>1 DEF EnterDetour, engineVars, IInv,
     ApplyingIsInitialized
  <2>3. Lifecycle'  BY <1>1 DEF EnterDetour, tableVars, engineVars, BenignFaults,
     IInv, Lifecycle, InApi, Frames, NoDetourBeforeInit
  <2>4. PhaseFacts'  BY <1>1 DEF EnterDetour, tableVars, engineVars, IInv,
     PhaseFacts, Frames, UnloadedModsAreClosed
  <2>5. UnloadedModsAreClosed'  BY <1>1 DEF EnterDetour, tableVars, engineVars,
     IInv, UnloadedModsAreClosed
  <2>6. QED  BY <2>1, <2>2, <2>3, <2>4, <2>5 DEF IInv
<1>2. CASE LeaveDetour(c)
  <2>1. TypeOK'  BY <1>2 DEF LeaveDetour, tableVars, engineVars, IInv, TypeOK,
     TableTypeOK
  <2>2. ApplyingIsInitialized'  BY <1>2 DEF LeaveDetour, engineVars, IInv,
     ApplyingIsInitialized
  <2>3. Lifecycle'  BY <1>2 DEF LeaveDetour, tableVars, engineVars, IInv, Lifecycle,
     InApi, Frames, NoDetourBeforeInit
  <2>4. PhaseFacts'  BY <1>2 DEF LeaveDetour, tableVars, engineVars, IInv,
     PhaseFacts, Frames
  <2>5. UnloadedModsAreClosed'  BY <1>2 DEF LeaveDetour, tableVars, engineVars,
     IInv, UnloadedModsAreClosed
  <2>6. QED  BY <2>1, <2>2, <2>3, <2>4, <2>5 DEF IInv
<1>3. CASE EnterHook(c) \/ LeaveHook(c)
  <2>1. /\ UNCHANGED <<created, enabled, queued, phase, todo, unloading, loading,
                       ending, mapped, initialized, uninitializing, pc, arg,
                       stack, registered>>
        /\ hookCalls' \subseteq hookCalls \union {c}
    BY <1>3 DEF EnterHook, LeaveHook, tableVars, engineVars
  <2>2. TypeOK'
    BY <2>1 DEF IInv, TypeOK, TableTypeOK
  <2>3. /\ ApplyingIsInitialized' /\ Lifecycle'
        /\ PhaseFacts' /\ UnloadedModsAreClosed'
    BY <2>1 DEF IInv, ApplyingIsInitialized, Lifecycle, PhaseFacts,
       UnloadedModsAreClosed, NoDetourBeforeInit, InApi, Frames
  <2>4. QED
    BY <2>2, <2>3 DEF IInv
<1>4. QED
  BY <1>1, <1>2, <1>3 DEF CallerStep

(* A step that changes nothing.                                             *)
LEMMA StutterPreserves == ASSUME IInv, UNCHANGED vars PROVE IInv'
  BY DEF vars, tableVars, engineVars, IInv, TypeOK, TableTypeOK, ApplyingIsInitialized, Lifecycle,
     PhaseFacts, UnloadedModsAreClosed, NoDetourBeforeInit, InApi, Frames

(* IInv is inductive.                                                       *)
LEMMA NextPreserves == ASSUME BenignFaults, IInv, [Next]_vars PROVE IInv'
  BY LoadStepPreserves, UnloadStepPreserves, BeginStepPreserves, ThreadStepPreserves,
     CallerStepPreserves, StutterPreserves DEF Next

------------------------------------------------------------------------------
(* Loading: Wh_ModInit opens the gate; all else stutters.                   *)
LEMMA LoadStepRefines ==
    ASSUME BenignFaults, IInv, LoadStep PROVE [Gate!Next]_(Gate!gateVars)
<1>1. ASSUME NEW m \in Mods, LoadLibrary(m) PROVE Gate!Load(m)
  BY <1>1 DEF LoadLibrary, OpenMods, Gate!Load
<1>2. ASSUME NEW m \in Mods, InitSucceeds(m) PROVE Gate!Open(m)
  BY <1>2 DEF InitSucceeds, OpenMods, Gate!Open
<1>3. ASSUME NEW m \in Mods, InitFails(m) PROVE Gate!Unload(m)
  BY <1>3 DEF InitFails, IInv, Lifecycle, PhaseFacts, OpenMods, Frames, Gate!Inside,
     Gate!Unload
<1>4. ASSUME \/ \E m \in Mods : LoadLibraryFails(m)
           \/ HookCreateProcess
           \/ ApplyLoaded
      PROVE UNCHANGED Gate!gateVars
  BY <1>4 DEF LoadLibraryFails, OpenMods, Gate!gateVars, HookCreateProcess,
     engineVars, ApplyLoaded
<1>5. QED
  BY <1>1, <1>2, <1>3, <1>4 DEF LoadStep, Gate!Next

(* Unloading: applying the queued changes closes the gate, and freeing a    *)
(* library is taking an empty room down.                                    *)
LEMMA UnloadStepRefines ==
    ASSUME BenignFaults, IInv, UnloadStep PROVE [Gate!Next]_(Gate!gateVars)
<1>1. ASSUME ApplyUnloading PROVE Gate!Close(unloading)
  BY <1>1 DEF ApplyUnloading, AfterDisabling, OpenMods, Gate!Close
<1>2. ASSUME NEW m \in Mods, Destroy(m) PROVE Gate!Unload(m)
  BY <1>2 DEF Destroy, IInv, PhaseFacts, OpenMods, Frames, Gate!Inside, Gate!Unload
<1>3. CASE \E m \in Mods : BeforeUninit(m) \/ QueueDisableAll(m)
  BY <1>3 DEF BeforeUninit, QueueDisableAll, OpenMods, Gate!gateVars
<1>4. CASE \/ DisableAtEnd \/ DestroyInjector \/ WaitForRegions \/ StartLoading
           \/ EndSession
  BY <1>4 DEF DisableAtEnd, DestroyInjector, WaitForRegions, StartLoading, EndSession, OpenMods,
     Gate!gateVars, IInv, TypeOK, PhaseFacts
<1>5. unloading \in SUBSET Mods
  BY DEF IInv, TypeOK
<1>6. CASE ApplyUnloading
  BY <1>1, <1>5, <1>6 DEF Gate!Next
<1>7. CASE \E m \in Mods : Destroy(m)
  BY <1>2, <1>7 DEF Gate!Next
<1>8. QED
  BY <1>3, <1>4, <1>6, <1>7 DEF UnloadStep

(* Beginning a reload changes nothing at the gate.                          *)
LEMMA BeginStepRefines ==
    ASSUME BenignFaults, IInv, BeginStep PROVE [Gate!Next]_(Gate!gateVars)
<1>1. ASSUME \/ \E mods \in SUBSET Mods : StartSession(mods)
           \/ \E out \in SUBSET Mods, in \in SUBSET Mods : BeginReload(out, in)
           \/ BeginEnd
      PROVE UNCHANGED Gate!gateVars
  BY <1>1 DEF StartSession, OpenMods, Gate!gateVars, BeginReload, BeginEnd
<1>2. QED
  BY <1>1 DEF BeginStep, Gate!Next

(* The hook API changes nothing at the gate: the engine alone opens it.     *)
LEMMA ThreadStepRefines ==
    ASSUME NEW t \in Threads, BenignFaults, IInv, ThreadStep(t) PROVE [Gate!Next]_(Gate!gateVars)
<1>1. UNCHANGED engineVars /\ UNCHANGED stack
  BY DEF ThreadStep, CallSetFunctionHook, CreateHook, CreateHookFails, QueueEnable,
     QueueEnableFails, CallRemoveFunctionHook, QueueDisable, CallApplyHookOperations,
     ApplyQueued, RemoveDisabled
<1>2. UNCHANGED Gate!gateVars
  BY <1>1 DEF engineVars, OpenMods, Gate!gateVars
<1>3. QED
  BY <1>2

(* Detours are entered through an open gate.                                *)
LEMMA CallerStepRefines ==
    ASSUME NEW c \in Callers, BenignFaults, IInv, CallerStep(c) PROVE [Gate!Next]_(Gate!gateVars)
<1>1. ASSUME NEW h \in Hooks, EnterDetour(c, h) PROVE h[1] \in Mods /\ Gate!Enter(c, h[1])
  BY <1>1 DEF EnterDetour, engineVars, IInv, Lifecycle, NoDetourBeforeInit,
     UnloadedModsAreClosed, OpenMods, Gate!Enter
<1>2. ASSUME LeaveDetour(c) PROVE Gate!Leave(c)
  BY <1>2 DEF LeaveDetour, engineVars, OpenMods, Gate!Leave
<1>3. CASE \E h \in Hooks : EnterDetour(c, h)
  <2>1. PICK h \in Hooks : EnterDetour(c, h)
    BY <1>3
  <2>2. \E m \in Mods : Gate!Enter(c, m)
    BY <1>1, <2>1
  <2>3. QED
    BY <2>2 DEF Gate!Next
<1>4. CASE LeaveDetour(c)
  BY <1>2, <1>4 DEF Gate!Next
<1>5. CASE EnterHook(c) \/ LeaveHook(c)
  BY <1>5 DEF EnterHook, LeaveHook, engineVars, OpenMods, Gate!gateVars
<1>6. QED
  BY <1>3, <1>4, <1>5 DEF CallerStep

(* A step that changes nothing changes nothing at the gate.                 *)
LEMMA StutterRefines == ASSUME UNCHANGED vars PROVE UNCHANGED Gate!gateVars
  BY DEF vars, engineVars, OpenMods, Gate!gateVars

(* Every step of the engine is a step of the gate, or none.                 *)
LEMMA NextRefines == ASSUME BenignFaults, IInv, [Next]_vars PROVE [Gate!Next]_(Gate!gateVars)
  BY LoadStepRefines, UnloadStepRefines, BeginStepRefines, ThreadStepRefines,
     CallerStepRefines, StutterRefines DEF Next

------------------------------------------------------------------------------
(* What keeps the registered hooks in the table.  It takes one thread per    *)
(* mod: with two, one of them may register a hook between the two calls of  *)
(* the other's Wh_ApplyHookOperations (run HookTwoThreads).                 *)
OneThreadPerMod == \A s, t \in Threads : ModOf[s] = ModOf[t] => s = t

(* A registered hook is queued to be enabled, its mod has not been told to  *)
(* uninitialize, and before RemoveDisabled sweeps the hooks of a mod those  *)
(* it registered are enabled.                                               *)
RegistrationFacts ==
    /\ registered \subseteq queued
    /\ \A h \in registered : h[1] \notin uninitializing
    /\ \A t \in Threads :
         pc[t] = "sweep" => \A h \in registered : h[1] = ModOf[t] => h \in enabled

(* Steps that leave the table alone, and put no thread before a sweep.      *)
LEMMA RegistrationFrame ==
    ASSUME RegistrationFacts, UNCHANGED <<enabled, queued, registered>>,
           uninitializing' \subseteq uninitializing,
           \A t \in Threads : pc'[t] = "sweep" => pc[t] = "sweep"
    PROVE  RegistrationFacts'
  BY DEF RegistrationFacts

(* Applying the queue of all hooks: a registered hook is queued and either  *)
(* enabled or, when its target cannot be patched, no longer registered.     *)
LEMMA RegistrationApply ==
    ASSUME TypeOK, RegistrationFacts, NEW failed, MH_ApplyQueuedEx(created, failed),
           registered' = registered \ failed, UNCHANGED <<uninitializing, pc>>
    PROVE  RegistrationFacts'
  BY DEF TypeOK, TableTypeOK, RegistrationFacts, MH_ApplyQueuedEx

(* Loading keeps the registered hooks.                                      *)
LEMMA LoadStepKeepsHooks ==
    ASSUME IInv, RegistrationFacts, LoadStep PROVE RegistrationFacts'
<1>. TypeOK
  BY DEF IInv
<1>1. CASE \E m \in Mods : LoadLibrary(m) \/ LoadLibraryFails(m) \/ InitSucceeds(m)
  <2>1. UNCHANGED <<enabled, queued, registered, uninitializing, pc>>
    BY <1>1 DEF LoadLibrary, LoadLibraryFails, InitSucceeds, tableVars
  <2>2. QED
    BY <2>1, RegistrationFrame
<1>2. ASSUME NEW m \in Mods, InitFails(m) PROVE RegistrationFacts'
  <2>1. /\ registered' = {h \in registered : h[1] # m}
        /\ enabled' = enabled \ HooksOf(m)
        /\ queued' = queued \ HooksOf(m)
        /\ UNCHANGED <<uninitializing, pc>>
    BY <1>2 DEF InitFails, MH_RemoveHookEx
  <2>2. \A h \in HooksOf(m) : h[1] = m
    BY DEF HooksOf
  <2>3. QED
    BY <2>1, <2>2 DEF RegistrationFacts
<1>3. CASE HookCreateProcess
  BY <1>3 DEF HookCreateProcess, RegistrationFacts, engineVars
<1>4. CASE ApplyLoaded
  BY <1>4, RegistrationApply DEF ApplyLoaded
<1>5. QED
  BY <1>1, <1>2, <1>3, <1>4 DEF LoadStep

(* Unloading takes hooks of mods that have been told to uninitialize only.  *)
LEMMA UnloadStepKeepsHooks ==
    ASSUME BenignFaults, IInv, RegistrationFacts, UnloadStep PROVE RegistrationFacts'
<1>. TypeOK
  BY DEF IInv
<1>1. ASSUME NEW m \in Mods, BeforeUninit(m) PROVE RegistrationFacts'
  <2>1. /\ registered' = {h \in registered : h[1] # m}
        /\ uninitializing' = uninitializing \union {m}
        /\ UNCHANGED <<enabled, queued, pc>>
    BY <1>1 DEF BeforeUninit, tableVars
  <2>2. QED
    BY <2>1 DEF RegistrationFacts
<1>2. ASSUME NEW m \in Mods, QueueDisableAll(m) PROVE RegistrationFacts'
  <2>1. /\ m \in uninitializing
        /\ queued' = queued \ HooksOf(m)
        /\ UNCHANGED <<registered, enabled, uninitializing, pc>>
    BY <1>2 DEF QueueDisableAll, MH_QueueDisableHookEx
  <2>2. \A h \in HooksOf(m) : h[1] = m
    BY DEF HooksOf
  <2>3. QED
    BY <2>1, <2>2 DEF RegistrationFacts
<1>3. CASE ApplyUnloading
  BY <1>3, RegistrationApply DEF ApplyUnloading
<1>4. CASE DisableAtEnd \/ DestroyInjector \/ EndSession
  BY <1>4 DEF DisableAtEnd, DestroyInjector, EndSession, IInv, PhaseFacts
<1>5. CASE WaitForRegions \/ StartLoading
  <2>1. UNCHANGED <<enabled, queued, registered, uninitializing, pc>>
    BY <1>5 DEF WaitForRegions, StartLoading, tableVars
  <2>2. QED
    BY <2>1, RegistrationFrame
<1>6. ASSUME NEW m \in Mods, Destroy(m) PROVE RegistrationFacts'
  <2>1. /\ enabled' = enabled \ HooksOf(m)
        /\ queued' = queued \ HooksOf(m)
        /\ uninitializing' = uninitializing \ {m}
        /\ UNCHANGED <<registered, pc>>
    BY <1>6 DEF Destroy, MH_RemoveHookEx
  <2>2. m \in uninitializing
    BY <1>6 DEF Destroy, IInv, PhaseFacts
  <2>3. \A h \in HooksOf(m) : h[1] = m
    BY DEF HooksOf
  <2>4. QED
    BY <2>1, <2>2, <2>3 DEF RegistrationFacts
<1>7. QED
  BY <1>1, <1>2, <1>3, <1>4, <1>5, <1>6 DEF UnloadStep

(* The hook API: the only thread of a mod is not registering hooks while it *)
(* is between the applying and the sweep of Wh_ApplyHookOperations.         *)
LEMMA ThreadStepKeepsHooks ==
    ASSUME OneThreadPerMod, IInv, RegistrationFacts, NEW t \in Threads, ThreadStep(t)
    PROVE  RegistrationFacts'
<1>. /\ TypeOK
     /\ pc \in [Threads -> Calls]
  BY DEF IInv, TypeOK
<1>1. CASE \/ \E target \in Targets : CallSetFunctionHook(t, target)
           \/ \E target \in Targets : CallRemoveFunctionHook(t, target)
           \/ CreateHookFails(t) \/ QueueEnableFails(t) \/ CallApplyHookOperations(t)
  <2>1. /\ UNCHANGED <<enabled, queued, registered, uninitializing>>
        /\ pc' = [pc EXCEPT ![t] = pc'[t]] /\ pc'[t] # "sweep"
    BY <1>1 DEF CallSetFunctionHook, CallRemoveFunctionHook, CreateHookFails,
       QueueEnableFails, CallApplyHookOperations, Step, tableVars, engineVars
  <2>2. QED
    BY <2>1, RegistrationFrame
<1>2. CASE CreateHook(t)
  <2>1. /\ Hook(t) \notin created
        /\ enabled' = enabled \ {Hook(t)}
        /\ queued' = queued \ {Hook(t)}
        /\ UNCHANGED <<registered, uninitializing>>
        /\ pc' = [pc EXCEPT ![t] = "queue"]
    BY <1>2 DEF CreateHook, MH_CreateHookEx, Step, engineVars
  <2>2. Hook(t) \notin registered
    BY <2>1 DEF RegistrationFacts, TypeOK, TableTypeOK
  <2>3. QED
    BY <2>1, <2>2 DEF RegistrationFacts
<1>3. CASE QueueEnable(t)
  <2>1. /\ queued' = queued \union {Hook(t)}
        /\ registered' = IF ModOf[t] \in uninitializing THEN registered
                         ELSE registered \union {Hook(t)}
        /\ UNCHANGED <<enabled, uninitializing>>
        /\ pc' = [pc EXCEPT ![t] = "idle"]
    BY <1>3 DEF QueueEnable, MH_QueueEnableHookEx, Step, engineVars
  <2>2. Hook(t)[1] = ModOf[t]
    BY DEF Hook
  <2>3. QED
    BY <2>1, <2>2 DEF RegistrationFacts, OneThreadPerMod
<1>4. CASE QueueDisable(t)
  <2>1. /\ queued' = queued \ {Hook(t)}
        /\ registered' = registered \ {Hook(t)}
        /\ UNCHANGED <<enabled, uninitializing>>
        /\ pc' = [pc EXCEPT ![t] = "idle"]
    BY <1>4 DEF QueueDisable, MH_QueueDisableHookEx, Step, engineVars
  <2>2. QED
    BY <2>1 DEF RegistrationFacts
<1>5. CASE ApplyQueued(t)
  <2>1. PICK failed :
          /\ enabled' = (enabled \ (HooksOf(ModOf[t]) \ failed))
                          \union (queued \intersect (HooksOf(ModOf[t]) \ failed))
          /\ queued' = queued
          /\ registered' = registered \ failed
    BY <1>5 DEF ApplyQueued, MH_ApplyQueuedEx
  <2>2. /\ UNCHANGED uninitializing
        /\ pc' = [pc EXCEPT ![t] = "sweep"]
    BY <1>5 DEF ApplyQueued, Step, engineVars
  <2>3. registered \subseteq created
    BY DEF RegistrationFacts, TypeOK, TableTypeOK
  <2>4. \A h \in registered' : h[1] = ModOf[t] => h \in enabled'
    BY <2>1, <2>3 DEF RegistrationFacts, HooksOf
  <2>5. \A s \in Threads \ {t} : pc'[s] = "sweep" =>
          \A h \in registered' : h[1] = ModOf[s] => h \in enabled'
    BY <2>1, <2>2 DEF RegistrationFacts
  <2>6. QED
    BY <2>1, <2>2, <2>4, <2>5 DEF RegistrationFacts
<1>6. CASE RemoveDisabled(t)
  <2>1. /\ queued' = queued \ (HooksOf(ModOf[t]) \ enabled)
        /\ UNCHANGED <<registered, enabled, uninitializing>>
        /\ pc' = [pc EXCEPT ![t] = "idle"]
        /\ pc[t] = "sweep"
    BY <1>6 DEF RemoveDisabled, MH_RemoveDisabledHooksEx, Step, engineVars
  <2>2. \A h \in HooksOf(ModOf[t]) : h[1] = ModOf[t]
    BY DEF HooksOf
  <2>3. QED
    BY <2>1, <2>2 DEF RegistrationFacts
<1>7. QED
  BY <1>1, <1>2, <1>3, <1>4, <1>5, <1>6 DEF ThreadStep

(* IInv and RegistrationFacts together are inductive.                       *)
LEMMA NextKeepsHooks ==
    ASSUME OneThreadPerMod, BenignFaults, IInv, RegistrationFacts, [Next]_vars
    PROVE  RegistrationFacts'
<1>1. CASE BeginStep
  <2>1. UNCHANGED <<enabled, queued, registered, uninitializing, pc>>
    BY <1>1 DEF BeginStep, StartSession, BeginReload, BeginEnd, tableVars
  <2>2. QED
    BY <2>1, RegistrationFrame
<1>2. CASE \E c \in Callers : CallerStep(c)
  <2>1. UNCHANGED <<enabled, queued, registered, uninitializing, pc>>
    BY <1>2 DEF CallerStep, EnterDetour, LeaveDetour, EnterHook, LeaveHook, tableVars,
       engineVars
  <2>2. QED
    BY <2>1, RegistrationFrame
<1>3. CASE UNCHANGED vars
  BY <1>3, RegistrationFrame DEF vars, tableVars, engineVars
<1>4. QED
  BY <1>1, <1>2, <1>3, LoadStepKeepsHooks, UnloadStepKeepsHooks,
     ThreadStepKeepsHooks DEF Next

(* A step of the hook API never is one of a mod past BeforeUninit, and the  *)
(* engine hooks for itself only.                                            *)
LEMMA NextAddsNoHookLate == ASSUME IInv, [Next]_vars PROVE AddsNoHookLate
<1> SUFFICES ASSUME NEW h \in Hooks, h[1] \in uninitializing
             PROVE  /\ h \in created' => h \in created
                    /\ h \in queued' => h \in queued
  BY DEF AddsNoHookLate
<1>1. h[1] \in Mods /\ ~InApi(h[1])
  BY DEF IInv, TypeOK, Lifecycle
<1>2. CASE LoadStep
  BY <1>1, <1>2, OwnIsNotAMod DEF LoadStep, LoadLibrary, LoadLibraryFails,
     InitSucceeds, InitFails, HookCreateProcess, OwnHook, ApplyLoaded,
     MH_RemoveHookEx, MH_ApplyQueuedEx, tableVars
<1>3. CASE UnloadStep
  BY <1>3 DEF UnloadStep, BeforeUninit, QueueDisableAll, ApplyUnloading, DisableAtEnd,
     DestroyInjector, WaitForRegions, Destroy, StartLoading, EndSession, MH_QueueDisableHookEx,
     MH_ApplyQueuedEx, MH_DisableHookEx, MH_RemoveHookEx, tableVars
<1>4. CASE BeginStep
  BY <1>4 DEF BeginStep, StartSession, BeginReload, BeginEnd, tableVars
<1>5. ASSUME NEW t \in Threads, ThreadStep(t)
      PROVE  /\ h \in created' => h \in created
             /\ h \in queued' => h \in queued
  <2>1. CASE CreateHook(t) \/ QueueEnable(t)
    <3>1. pc[t] # "idle"
      BY <2>1 DEF CreateHook, QueueEnable, Step
    <3>2. h # Hook(t)
      BY <1>1, <3>1 DEF InApi, Hook
    <3>3. QED
      BY <2>1, <3>2 DEF CreateHook, QueueEnable, MH_CreateHookEx, MH_QueueEnableHookEx
  <2>2. CASE \/ \E target \in Targets : CallSetFunctionHook(t, target)
             \/ \E target \in Targets : CallRemoveFunctionHook(t, target)
             \/ CreateHookFails(t) \/ QueueEnableFails(t) \/ CallApplyHookOperations(t)
    BY <2>2 DEF CallSetFunctionHook, CallRemoveFunctionHook, CreateHookFails,
       QueueEnableFails, CallApplyHookOperations, tableVars
  <2>3. CASE QueueDisable(t) \/ ApplyQueued(t) \/ RemoveDisabled(t)
    BY <2>3 DEF QueueDisable, ApplyQueued, RemoveDisabled, MH_QueueDisableHookEx,
       MH_ApplyQueuedEx, MH_RemoveDisabledHooksEx
  <2>4. QED
    BY <1>5, <2>1, <2>2, <2>3 DEF ThreadStep
<1>6. CASE \E c \in Callers : CallerStep(c)
  BY <1>6 DEF CallerStep, EnterDetour, LeaveDetour, EnterHook, LeaveHook, tableVars
<1>7. CASE UNCHANGED vars
  BY <1>7 DEF vars, tableVars
<1>8. QED
  BY <1>2, <1>3, <1>4, <1>5, <1>6, <1>7 DEF Next

------------------------------------------------------------------------------
(* The inductive invariant holds in every reachable state.                  *)
THEOREM InductiveInvariant == ASSUME BenignFaults PROVE Spec => []IInv
<1>1. Init => IInv
  BY InitEstablishes
<1>2. IInv /\ [Next]_vars => IInv'
  BY NextPreserves
<1>3. QED
  BY <1>1, <1>2, PTL DEF Spec

(* The variables have their types: in particular no entry of the hook table is *)
(* enabled or queued that has been freed.                                   *)
THEOREM TypeCorrect == ASSUME BenignFaults PROVE Spec => []TypeOK
<1>1. IInv => TypeOK
  BY DEF IInv
<1>2. QED
  BY <1>1, InductiveInvariant, PTL

(* The library of a mod is never freed while a thread of the host program is *)
(* inside it (~LoadedMod after ThreadsCallStackWaitForRegions).             *)
THEOREM CodeIsNotFreedWhileItRuns == ASSUME BenignFaults PROVE Spec => []NoDanglingCode
<1>1. IInv => NoDanglingCode
  BY DEF IInv, Lifecycle, TypeOK, NoDanglingCode
<1>2. QED
  BY <1>1, InductiveInvariant, PTL

(* No hook of a mod is live before its Wh_ModInit has returned TRUE.        *)
THEOREM UninitializedModsAreNotEntered == ASSUME BenignFaults PROVE Spec => []NoDetourBeforeInit
<1>1. IInv => NoDetourBeforeInit
  BY DEF IInv, Lifecycle
<1>2. QED
  BY <1>1, InductiveInvariant, PTL

(* From the scan of the stacks on, the mods being unloaded stay closed.     *)
THEOREM ScanStaysValid == ASSUME BenignFaults PROVE Spec => []UnloadedModsAreClosed
<1>1. IInv => UnloadedModsAreClosed
  BY DEF IInv
<1>2. QED
  BY <1>1, InductiveInvariant, PTL

(* A hook whose Wh_SetFunctionHook returned TRUE stays in the table until   *)
(* its mod removes it or is told to uninitialize, for mods that call the    *)
(* hook API from one thread.                                                *)
THEOREM RegisteredHooksSurvive ==
    ASSUME BenignFaults, OneThreadPerMod PROVE Spec => []RegisteredHookSurvives
<1>1. Init => RegistrationFacts
  BY DEF Init, TableInit, RegistrationFacts
<1>2. IInv /\ RegistrationFacts /\ [Next]_vars => RegistrationFacts'
  BY NextKeepsHooks
<1>3. IInv /\ RegistrationFacts => RegisteredHookSurvives
  BY DEF IInv, TypeOK, TableTypeOK, RegistrationFacts, RegisteredHookSurvives
<1>4. QED
  BY <1>1, <1>2, <1>3, InductiveInvariant, PTL DEF Spec

(* No hook of a mod is created or queued after its BeforeUninit.            *)
THEOREM NoLateHooks == ASSUME BenignFaults PROVE Spec => NoHookAfterBeforeUninit
<1>1. IInv /\ [Next]_vars => AddsNoHookLate
  BY NextAddsNoHookLate
<1>2. QED
  BY <1>1, InductiveInvariant, PTL DEF Spec, NoHookAfterBeforeUninit

(* Loading, hooking and unloading mods implement ModGate.                   *)
THEOREM GateIsImplemented == ASSUME BenignFaults PROVE Spec => ImplementsModGate
<1>1. Init => Gate!Init
  BY DEF Init, OpenMods, Gate!Init
<1>2. IInv /\ [Next]_vars => [Gate!Next]_(Gate!gateVars)
  BY NextRefines
<1>3. QED
  BY <1>1, <1>2, InductiveInvariant, PTL DEF Spec, ImplementsModGate, Gate!Spec

==============================================================================
