------------------------ MODULE CustomizationSession ------------------------
(***************************************************************************)
(* The sessions of one injected process (engine/customization_session.cpp, *)
(* InjectInit in engine/main.cpp).  Every session manager process          *)
(* (windhawk.exe or its service) that finds this process starts a session  *)
(* in it; a session ends when its manager process exits, and the next one  *)
(* waits on a semaphore until the last one is destroyed.  While it lives,  *)
(* the session waits for changes of the configuration and reloads.         *)
(***************************************************************************)
EXTENDS ModsManager

CONSTANTS Managers,        \* the session manager processes
          NoManager,
          FromAPC,         \* runningFromAPC /\ ~threadAttachExempt: the main loop
                           \* runs on a thread that is replaced at the first event
          ThreadAgnostic   \* CanMonitorAcrossThreads

ASSUME SessionAssumption ==
    /\ NoManager \notin Managers
    /\ FromAPC \in BOOLEAN /\ ThreadAgnostic \in BOOLEAN

VARIABLES alive,     \* the managers whose process runs
          injected,  \* what became of the InjectInit of each manager
          holder,    \* who holds WindhawkCustomizationSessionSemaphore
          session,   \* GetInstance(): the manager of the session there is
          loop,      \* where the thread of the session is
          fresh,     \* the thread of the session is still the first one
          hookBusy   \* m_hookProcCallCounter > 0, looked at by ~NewProcessInjector
                     \* only: threads are inside CreateProcessInternalW_Hook

sessionVars == <<alive, injected, holder, session, loop, fresh, hookBusy>>
vars == <<configVars, managerVars, sessionVars>>

Loops == {"none", "construct", "arm", "wait", "debounce", "recreateToReload",
          "recreateToDelete", "rearm", "reload", "delete", "drain", "release"}

Init ==
    /\ ConfigInit
    /\ ManagerInit
    /\ alive = Managers
    /\ injected = [s \in Managers |-> "no"]
    /\ holder = NoManager
    /\ session = NoManager
    /\ loop = "none"
    /\ fresh = FALSE
    /\ hookBusy = FALSE

UnchangedStore == UNCHANGED storeVars
UnchangedMods == UNCHANGED managerVars

(* The process of a manager exits, or is terminated, at any time.          *)
ManagerExits(s) ==
    /\ s \in alive
    /\ alive' = alive \ {s}
    /\ UNCHANGED <<configVars, managerVars, injected, holder, session, loop, fresh,
                   hookBusy>>

(* InjectInit: FALSE when the manager has exited; else Start, which waits   *)
(* for the semaphore.                                                      *)
InjectInit(s) ==
    /\ injected[s] = "no"
    /\ injected' = [injected EXCEPT ![s] = IF s \in alive THEN "waiting" ELSE "refused"]
    /\ UNCHANGED <<configVars, managerVars, alive, holder, session, loop, fresh,
                   hookBusy>>

(* Start has the semaphore.  It throws when there is a session already,    *)
(* which SemaphoreGuardsSession says never happens.                        *)
Start(s) ==
    /\ injected[s] = "waiting" /\ holder = NoManager
    /\ injected' = [injected EXCEPT ![s] = "started"]
    /\ holder' = s /\ session' = s
    /\ loop' = "construct"
    /\ fresh' = FromAPC
    /\ BeginEnum
    /\ missed' = FALSE
    /\ UNCHANGED <<storeVars, monitor, alive, hookBusy>>

(* The members of the session are constructed, in StartInitialized the     *)
(* semaphore is moved into it.                                             *)
Constructed ==
    /\ loop = "construct" /\ stage = "idle"
    /\ loop' = "arm"
    /\ UNCHANGED <<configVars, managerVars, alive, injected, holder, session, fresh,
                   hookBusy>>

(* Mutant: the semaphore is not released by a scope guard.                  *)
ConstructorThrowsHolding ==
    /\ loop = "construct" /\ stage = "failed"
    /\ stage' = "idle"
    /\ loop' = "none" /\ session' = NoManager
    /\ UNCHANGED <<configVars, mods, todo, cur, gone, keep, keepOut, toLoad,
                   alive, injected, holder, fresh, hookBusy>>

(* The constructor throws: Start releases the semaphore.                   *)
ConstructorThrows ==
    /\ loop = "construct" /\ stage = "failed"
    /\ stage' = "idle"
    /\ loop' = "none" /\ session' = NoManager /\ holder' = NoManager
    /\ UNCHANGED <<configVars, mods, todo, cur, gone, keep, keepOut, toLoad,
                   alive, injected, fresh, hookBusy>>

(* MainLoopRunner: the change notification is armed, or there is none.     *)
ArmMonitor ==
    monitor' \in {"armed"} \union (IF "monitorFails" \in Faults THEN {"none"} ELSE {})

(* StartInitialized: the runner is made and the thread that runs it.       *)
StartInitialized ==
    /\ loop = "arm"
    /\ \/ /\ loop' = "wait"
          /\ ArmMonitor
       \/ /\ fresh /\ "threadFails" \in Faults
          /\ loop' = "delete"
          /\ UNCHANGED monitor
    /\ UnchangedStore /\ UnchangedMods
    /\ UNCHANGED <<missed, alive, injected, holder, session, fresh, hookBusy>>

(* MainLoopRunner::Run: WaitForMultipleObjects prefers the manager.  On     *)
(* its first thread, RunMainLoopAndDeleteThisWithThreadRecreate follows.   *)
RunCompletes ==
    /\ loop \in {"wait", "debounce"}
    /\ \/ session \notin alive
       \/ loop = "wait" /\ "waitFails" \in Faults
    /\ loop' = IF fresh THEN "recreateToDelete" ELSE "delete"
    /\ UNCHANGED <<configVars, managerVars, alive, injected, holder, session, fresh,
                   hookBusy>>

RunNotified ==
    /\ loop = "wait" /\ monitor = "signaled" /\ session \in alive
    /\ monitor' = "fired"
    /\ loop' = "debounce"
    /\ UnchangedStore /\ UnchangedMods
    /\ UNCHANGED <<missed, alive, injected, holder, session, fresh, hookBusy>>

(* 200 milliseconds have passed.                                           *)
RunDebounced ==
    /\ loop = "debounce" /\ session \in alive
    /\ loop' = IF fresh THEN "recreateToReload" ELSE "rearm"
    /\ UNCHANGED <<configVars, managerVars, alive, injected, holder, session, fresh,
                   hookBusy>>

(* Mutant: when there is no new thread, nobody deletes the session.         *)
RecreateThreadLeaks ==
    /\ loop \in {"recreateToReload", "recreateToDelete"}
    /\ "threadFails" \in Faults
    /\ loop' = "none"
    /\ UNCHANGED <<configVars, managerVars, alive, injected, holder, session, fresh,
                   hookBusy>>

(* Mutant: the new thread waits, but the change it was made for is forgotten. *)
RecreateThreadForgets ==
    /\ loop \in {"recreateToReload", "recreateToDelete"}
    /\ loop' = IF loop = "recreateToReload" THEN "wait" ELSE "delete"
    /\ fresh' = FALSE
    /\ monitor' = "armed"
    /\ UnchangedStore /\ UnchangedMods
    /\ UNCHANGED <<missed, alive, injected, holder, session, hookBusy>>

(* The rest happens on a new thread.  A monitor that is bound to its       *)
(* thread is dropped first; it is made anew before the reload.             *)
RecreateThread ==
    /\ loop \in {"recreateToReload", "recreateToDelete"}
    /\ monitor' = IF ThreadAgnostic THEN monitor ELSE "none"
    /\ \/ /\ loop' = IF loop = "recreateToReload" THEN "rearm" ELSE "delete"
          /\ fresh' = FALSE
       \/ /\ "threadFails" \in Faults
          /\ loop' = "delete"
          /\ UNCHANGED fresh
    /\ UnchangedStore /\ UnchangedMods
    /\ UNCHANGED <<missed, alive, injected, holder, session, hookBusy>>

(* ContinueMonitoring, or a new runner, BEFORE the reload: what is written *)
(* from now on will be notified.  A monitor that cannot be armed again is  *)
(* dropped for good.                                                       *)
ContinueMonitoring ==
    /\ loop = "rearm"
    /\ ArmMonitor
    /\ missed' = FALSE
    /\ BeginEnum
    /\ loop' = "reload"
    /\ UnchangedStore
    /\ UNCHANGED <<alive, injected, holder, session, fresh, hookBusy>>

(* Mutant: monitoring goes on AFTER the reload.                             *)
ReloadedRearms ==
    /\ loop = "reload" /\ stage \in {"idle", "failed"}
    /\ stage' = "idle"
    /\ loop' = "wait"
    /\ monitor' = "armed"
    /\ missed' = (missed \/ stage = "failed")
    /\ UnchangedStore
    /\ UNCHANGED << mods, todo, cur, gone, keep, keepOut, toLoad,
                   alive, injected, holder, session, fresh, hookBusy>>

Reloaded ==
    /\ loop = "reload" /\ stage \in {"idle", "failed"}
    /\ stage' = "idle"
    /\ loop' = "wait"
    /\ missed' = (missed \/ stage = "failed")
    /\ UNCHANGED <<storeVars, monitor, mods, todo, cur, gone, keep, keepOut, toLoad,
                   alive, injected, holder, session, fresh, hookBusy>>

(* Mutant: the semaphore is released before the session is destroyed.       *)
DeleteThisAfterRelease ==
    /\ loop = "delete"
    /\ holder' = NoManager
    /\ monitor' = "none"
    /\ loop' = "drain"
    /\ UnchangedStore /\ UnchangedMods
    /\ UNCHANGED <<missed, alive, injected, session, fresh, hookBusy>>

(* DeleteThis begins to destroy the session: BeforeUninit of the mods, the  *)
(* runner and ~MinHookScopeApply.  From now on nobody enters                *)
(* CreateProcessInternalW_Hook, but threads may be inside ...               *)
DeleteThis ==
    /\ loop = "delete"
    /\ monitor' = "none"
    /\ hookBusy' \in BOOLEAN
    /\ loop' = "drain"
    /\ UnchangedStore /\ UnchangedMods
    /\ UNCHANGED <<missed, alive, injected, holder, session, fresh>>

(* ... until the last one returns, or for ever: its call goes on through    *)
(* detours of mods.                                                        *)
HookCallsReturn ==
    /\ hookBusy
    /\ hookBusy' = FALSE
    /\ UNCHANGED <<configVars, managerVars, alive, injected, holder, session, loop,
                   fresh>>

(* ~NewProcessInjector has waited for them, without a limit, and            *)
(* ~ModsManager destroys the mods ...                                       *)
DestroySession ==
    /\ loop = "drain" /\ ~hookBusy
    /\ session' = NoManager
    /\ mods' = [m \in {} |-> NewMod]
    /\ loop' = "release"
    /\ UnchangedStore
    /\ UNCHANGED <<missed, monitor, stage, todo, cur, gone, keep, keepOut, toLoad,
                   alive, injected, holder, fresh, hookBusy>>

(* ... and only then the semaphore is released.                            *)
ReleaseSemaphore ==
    /\ loop = "release"
    /\ holder' = NoManager
    /\ loop' = "none"
    /\ UNCHANGED <<configVars, managerVars, alive, injected, session, fresh, hookBusy>>

------------------------------------------------------------------------------
SessionStep ==
    \/ Constructed \/ ConstructorThrows \/ StartInitialized
    \/ RunCompletes \/ RunNotified \/ RunDebounced \/ RecreateThread
    \/ ContinueMonitoring \/ Reloaded \/ DeleteThis \/ DestroySession
    \/ ReleaseSemaphore
    \/ ManagerStep /\ UNCHANGED sessionVars

Next ==
    \/ \E s \in Managers : ManagerExits(s) \/ InjectInit(s) \/ Start(s)
    \/ SessionStep
    \/ HookCallsReturn
    \/ WriterStep /\ UNCHANGED sessionVars

Spec == Init /\ [][Next]_vars

(* The thread of the session runs, and so do the threads that wait for the *)
(* semaphore: one of them gets it when it is free. The extension finishes a *)
(* call it has begun.  Nothing is asked of the threads of the program: a    *)
(* call of CreateProcessInternalW may never return.                         *)
FairSpec ==
    /\ Spec
    /\ WF_vars(SessionStep)
    /\ WF_vars(\E s \in Managers : Start(s))
    /\ WF_vars(PerformWrite /\ WriterStep /\ UNCHANGED sessionVars)

------------------------------------------------------------------------------
TypeOK ==
    /\ ConfigTypeOK
    /\ ManagerTypeOK
    /\ alive \subseteq Managers
    /\ injected \in [Managers -> {"no", "waiting", "started", "refused"}]
    /\ {holder, session} \subseteq Managers \union {NoManager}
    /\ loop \in Loops
    /\ {fresh, hookBusy} \subseteq BOOLEAN

(* Start never throws "Only one session is supported at any given time": as *)
(* long as there is a session, or its mods, somebody holds the semaphore.   *)
SemaphoreGuardsSession ==
    holder = NoManager => session = NoManager /\ DOMAIN mods = {}

(* A session that waits with its monitor armed has loaded what is           *)
(* configured: no write that came while the configuration was being read,   *)
(* between two reads or between the reload and the next wait is lost.       *)
(* Excepted is what was written before a new session armed its monitor and  *)
(* after it began to read, and a reload that EnumMods left half way; both   *)
(* are made up for at the next change, whatever of the last reload was      *)
(* stored before it was left.                                               *)
NoLostChange == loop = "wait" /\ monitor = "armed" /\ ~missed => Synced

(* "The mod setting were changed, reload them." (mod_template.wh.cpp): a     *)
(* loaded mod has been told of every change of its settings.                *)
SettingsChangesAreTold ==
    loop = "wait" /\ monitor = "armed" /\ ~missed /\ writes = <<>> =>
        \A m \in DOMAIN mods :
            mods[m].loaded => mods[m].seen = config[m].settings

(* Without a concurrent write, a reload unloads only what the change is     *)
(* about: a loaded mod that is still wanted, with the same library, and     *)
(* that does not ask for it (Wh_ModSettingsChanged), is left alone.         *)
KeepsUntouched ==
    \A m \in DOMAIN mods :
        (/\ loop = "reload" /\ stage = "enum" /\ stage' = "load"
         /\ monitor = "armed"
         /\ mods[m].loaded
         /\ config[m].wanted /\ mods[m].library = config[m].library
         /\ Answers = {"keep"})
        => m \in DOMAIN mods' /\ mods'[m] = mods[m]

UntouchedModsStayLoaded == [][KeepsUntouched]_vars

(* ~NewProcessInjector waits for a call of CreateProcessInternalW.          *)
HookHeld == loop = "drain" /\ hookBusy

(* A session ends after its manager has, whatever it was doing and whatever *)
(* is written to the configuration: the one wait that may keep it for ever  *)
(* is that of ~NewProcessInjector.                                          *)
SessionEndsWithManager ==
    session \in Managers \ alive
        ~> (session \in alive \union {NoManager} \/ []HookHeld)

(* The session of a manager starts once the other managers have exited,     *)
(* with the same exception: the semaphore is released after that wait.      *)
NextSessionStarts ==
    \A s \in Managers :
        (injected[s] = "waiting" /\ alive \subseteq {s})
            ~> (injected[s] = "started" \/ []HookHeld)

(* When the configuration is no longer written, a session that monitors it  *)
(* comes to rest with the mods that are configured.                         *)
Converges ==
    (<>[](loop # "none" /\ monitor # "none" /\ session \in alive /\ ~missed))
        => <>[](loop = "wait" /\ Synced)
==============================================================================
