------------------------------ MODULE HookTable ------------------------------
(***************************************************************************)
(* The table of hooks that MinHook-Detours keeps in one process            *)
(* (engine/libraries/MinHook-Detours/MinHook.c), and the MH_* operations   *)
(* the engine calls on it.  Every MH_* call takes g_criticalSection for    *)
(* its whole duration, so each operation below is one step; what the       *)
(* callers do BETWEEN two MH_* calls is not atomic, and HookEngine         *)
(* interleaves them.                                                       *)
(*                                                                         *)
(* A HOOK_ENTRY is identified by its hookIdent and its pTarget.  g_hooks   *)
(* is abstracted to three sets of such pairs: the entries of the table,    *)
(* those with isEnabled set (the target function is patched), and those    *)
(* with queueEnable set.  The position of an entry in the array and the    *)
(* trampoline it owns are left out.                                        *)
(***************************************************************************)
EXTENDS FiniteSets

CONSTANTS Mods,     \* the mods: the `this` pointer of their LoadedMod is a hookIdent
          Own,      \* MH_DEFAULT_IDENT, the hookIdent of the engine's own hook
          Targets,  \* the functions that can be hooked
          Faults    \* what the environment may do, see HookEngine

ASSUME OwnIsNotAMod == Own \notin Mods

VARIABLES created,  \* g_hooks: the entries of the table
          enabled,  \* the entries with isEnabled
          queued    \* the entries with queueEnable

tableVars == <<created, enabled, queued>>

Idents == Mods \union {Own}
Hooks == Idents \X Targets

(* FindHookEntry(hookIdent, MH_ALL_HOOKS, ...): the entries of one ident.   *)
HooksOf(ident) == {h \in created : h[1] = ident}

TableInit ==
    /\ created = {}
    /\ enabled = {}
    /\ queued = {}

(* The entries of the table whose change the detours library may refuse:   *)
(* MH_SetBulkOperationMode(continueOnError=TRUE) makes a bulk operation go *)
(* on after a target that cannot be patched, and leaves its entry as it    *)
(* was.  Detaching fails only when the process is out of memory, which is  *)
(* not modelled.                                                           *)
AttachFailures(hooks) ==
    IF "attachFails" \in Faults
    THEN SUBSET {h \in hooks : h \in queued /\ h \notin enabled}
    ELSE {{}}

(* CreateHook: MH_ERROR_ALREADY_CREATED when there is an entry.             *)
MH_CreateHookEx(h) ==
    /\ h \notin created
    /\ created' = created \union {h}
    /\ enabled' = enabled \ {h}
    /\ queued' = queued \ {h}

(* QueueHook(hookIdent, pTarget, TRUE): MH_ERROR_NOT_CREATED without entry. *)
MH_QueueEnableHookEx(h) ==
    /\ h \in created
    /\ queued' = queued \union {h}
    /\ UNCHANGED <<created, enabled>>

(* QueueHook(..., FALSE), on one entry or on every entry of an ident.       *)
MH_QueueDisableHookEx(hooks) ==
    /\ queued' = queued \ hooks
    /\ UNCHANGED <<created, enabled>>

(* ApplyQueued: every entry of the ident(s) whose queueEnable differs from *)
(* its isEnabled is attached or detached, in one transaction.              *)
MH_ApplyQueuedEx(hooks, failed) ==
    LET done == hooks \ failed IN
    /\ enabled' = (enabled \ done) \union (queued \intersect done)
    /\ UNCHANGED <<created, queued>>

(* EnableHook(hookIdent, MH_ALL_HOOKS, FALSE): it picks the entries that   *)
(* are enabled and resets both of their flags; an entry that is disabled   *)
(* but queued to be enabled stays queued.                                  *)
MH_DisableHookEx(hooks) ==
    /\ enabled' = enabled \ hooks
    /\ queued' = queued \ (hooks \intersect enabled)
    /\ UNCHANGED created

(* Mutants: entries are picked without a look at isEnabled (FindHookEntry   *)
(* for FindHookEntryEnabled); the entries of other idents go too.           *)
RemoveDisabledAndEnabled(hooks) ==
    /\ created' = created \ hooks
    /\ queued' = queued \ hooks
    /\ UNCHANGED enabled
RemoveDisabledOfAllIdents(hooks) ==
    /\ created' = enabled
    /\ queued' = queued \intersect enabled
    /\ UNCHANGED enabled

(* RemoveDisabledHooks: an entry goes when isEnabled is FALSE, whatever    *)
(* its queueEnable says.                                                   *)
MH_RemoveDisabledHooksEx(hooks) ==
    /\ created' = created \ (hooks \ enabled)
    /\ queued' = queued \ (hooks \ enabled)
    /\ UNCHANGED enabled

(* MH_RemoveHookEx(hookIdent, MH_ALL_HOOKS) and MH_Uninitialize: disable,  *)
(* then remove what is disabled, without releasing the lock in between.    *)
MH_RemoveHookEx(hooks) ==
    /\ enabled' = enabled \ hooks
    /\ created' = created \ hooks
    /\ queued' = queued \ hooks

TableTypeOK ==
    /\ created \subseteq Hooks
    /\ enabled \subseteq created
    /\ queued \subseteq created
==============================================================================
