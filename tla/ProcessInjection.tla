--------------------------- MODULE ProcessInjection ---------------------------
(***************************************************************************)
(* How the engine gets into the processes of the system.  Two parties      *)
(* inject, and know nothing of each other but a named mutex per process:   *)
(*   - the session manager (AllProcessesInjector) goes through the list of  *)
(*     processes again and again;                                          *)
(*   - a customized process injects the processes it creates               *)
(*     (NewProcessInjector, its hook of CreateProcessInternalW).           *)
(* A process that has not begun to run is injected by an APC on its main   *)
(* thread, one that has by a remote thread: a remote thread that is too    *)
(* early breaks the creation of the process.                               *)
(***************************************************************************)
EXTENDS Naturals, Sequences, FiniteSets

CONSTANTS Procs,    \* the processes that are created
          Faults    \* what may go wrong, see FaultKinds

(*   "injectFails"   DllInject, or a query before it, throws;              *)
(*   "managerEnds"   the session manager exits or is killed, at any step;   *)
(*   "dies"          a process may exit or be terminated at any time.      *)
FaultKinds == {"injectFails", "managerEnds", "dies"}

ASSUME InjectionAssumption == Faults \subseteq FaultKinds

VARIABLES
    kind,       \* how each process is created
    creator,    \* where the thread that creates the process is
    life,       \* what has become of its main thread
    susp,       \* the suspend count of its main thread
    frozen,     \* suspended while running, by a debugger or by the shell
    list,       \* the processes, in the order of NtGetNextProcess
    cursor,     \* m_lastEnumeratedProcess, as a position in the list
    inj,        \* where the session manager is in InjectIntoNewProcess
    handles,    \* who has a handle of ProcessInitAPCMutex-pid, if it exists
    owner,      \* who owns that mutex
    pending,    \* the injections that have not run yet: "apc" and "thread"
    made,       \* history: the number of injections made
    failed,     \* history: an injection failed
    sessions,   \* the calls of InjectInit that went on to start a session
    alive       \* the session manager runs

targetVars == <<life, frozen>>
mutexVars == <<handles, owner>>
injectionVars == <<pending, made, failed, sessions>>
vars == <<kind, creator, targetVars, susp, list, cursor, inj, mutexVars,
          injectionVars, alive>>

(* Whether the creating process is customized, whether its code asks for    *)
(* CREATE_SUSPENDED, and whether ShouldSkipNewProcess tells to skip it.     *)
Kinds == {"plain", "plainSuspended", "hooked", "hookedSuspended", "excluded"}
Hooked(p) == kind[p] \in {"hooked", "hookedSuspended", "excluded"}
Suspended(p) == kind[p] \in {"plainSuspended", "hookedSuspended"}
Excluded(p) == kind[p] = "excluded"

(* "internal": in the original CreateProcessInternalW, which creates every  *)
(* process suspended and tells csrss.exe of it before it resumes it;        *)
(* "handle", "inject", "wait", "resume": in the hook; "held": the caller    *)
(* keeps it suspended; "gone": its main thread has been resumed.            *)
CreatorSteps == {"absent", "internal", "handle", "inject", "wait", "resume",
                 "held", "gone"}
Lives == {"absent", "starting", "running", "dead"}
InjectorSteps == {"next", "count", "suspend", "context", "mutex", "apc", "leave",
                  "open", "remote", "off", "killed"}
Holding == {"context", "mutex", "apc", "leave"}   \* it has suspended the thread
Parties == {"creator", "injector", "target"}
Nobody == "nobody"

cur == list[cursor]
Exists(p) == handles[p] # {}

Init ==
    /\ kind \in [Procs -> Kinds]
    /\ creator = [p \in Procs |-> "absent"]
    /\ life = [p \in Procs |-> "absent"]
    /\ susp = [p \in Procs |-> 0]
    /\ frozen = [p \in Procs |-> FALSE]
    /\ list = <<>> /\ cursor = 0
    /\ inj = "next"
    /\ handles = [p \in Procs |-> {}]
    /\ owner = [p \in Procs |-> Nobody]
    /\ pending = [p \in Procs |-> {}]
    /\ made = [p \in Procs |-> 0]
    /\ failed = [p \in Procs |-> FALSE]
    /\ sessions = [p \in Procs |-> 0]
    /\ alive = TRUE

(* DllInject into p: it duplicates the handle of the mutex, if there is     *)
(* one, into the process, and queues the APC or creates the thread.  When   *)
(* it throws it cleans up after itself, and nothing has happened in p.      *)
DllInject(p, how) ==
    \/ /\ life[p] # "dead"
       /\ pending' = [pending EXCEPT ![p] = @ \union {how}]
       /\ made' = [made EXCEPT ![p] = @ + 1]
       /\ UNCHANGED <<failed, sessions>>
    \/ /\ life[p] = "dead" \/ "injectFails" \in Faults
       /\ failed' = [failed EXCEPT ![p] = TRUE]
       /\ UNCHANGED <<pending, made, sessions>>

(* The handle that DllInject has duplicated into p.                         *)
Duplicated(p) == IF made'[p] > made[p] THEN {"target"} ELSE {}

(* ResumeThread does nothing to a thread that is not suspended.             *)
ResumeThread(p) == susp' = [susp EXCEPT ![p] = IF @ = 0 THEN 0 ELSE @ - 1]

------------------------------------------------------------------------------
(* The thread that creates p.                                               *)

CreateProcess(p) ==
    /\ creator[p] = "absent"
    /\ creator' = [creator EXCEPT ![p] = "internal"]
    /\ life' = [life EXCEPT ![p] = "starting"]
    /\ susp' = [susp EXCEPT ![p] = 1]
    /\ list' = Append(list, p)
    /\ UNCHANGED <<kind, frozen, cursor, inj, mutexVars, injectionVars, alive>>

(* Mutant: the flags that are tested are those passed on, not the caller's.  *)
LetGoByNewFlags(p) ==
    IF Suspended(p) \/ Hooked(p)
    THEN creator' = [creator EXCEPT ![p] = "held"] /\ UNCHANGED susp
    ELSE creator' = [creator EXCEPT ![p] = "gone"] /\ ResumeThread(p)

(* The thread is resumed unless the caller asked for CREATE_SUSPENDED.       *)
LetGo(p) ==
    IF Suspended(p)
    THEN creator' = [creator EXCEPT ![p] = "held"] /\ UNCHANGED susp
    ELSE creator' = [creator EXCEPT ![p] = "gone"] /\ ResumeThread(p)

(* Mutant: CREATE_SUSPENDED is not added.                                   *)
InternalReturnsRunning(p) ==
    /\ creator[p] = "internal"
    /\ IF Hooked(p)
       THEN creator' = [creator EXCEPT ![p] = "handle"] /\ ResumeThread(p)
       ELSE LetGo(p)
    /\ UNCHANGED <<kind, targetVars, list, cursor, inj, mutexVars, injectionVars,
                   alive>>

(* The original function returns.  The hook has added CREATE_SUSPENDED.     *)
InternalReturns(p) ==
    /\ creator[p] = "internal"
    /\ IF Hooked(p)
       THEN creator' = [creator EXCEPT ![p] = "handle"] /\ UNCHANGED susp
       ELSE LetGo(p)
    /\ UNCHANGED <<kind, targetVars, list, cursor, inj, mutexVars, injectionVars,
                   alive>>

(* Mutant: an existing mutex is not a reason not to inject.                 *)
HandleCreatedProcessRegardless(p) ==
    /\ creator[p] = "handle"
    /\ \/ /\ Excluded(p) \/ ~alive \/ "injectFails" \in Faults
          /\ creator' = [creator EXCEPT ![p] = "resume"]
          /\ failed' = [failed EXCEPT ![p] = @ \/ ~Excluded(p)]
          /\ UNCHANGED handles
       \/ /\ ~Excluded(p) /\ alive
          /\ handles' = [handles EXCEPT ![p] = @ \union {"creator"}]
          /\ creator' = [creator EXCEPT ![p] = "inject"]
          /\ UNCHANGED failed
    /\ UNCHANGED <<kind, targetVars, susp, list, cursor, inj, owner, pending, made,
                   sessions, alive>>

(* HandleCreatedProcess: the private namespace of the session manager is    *)
(* opened, which throws when it is gone, and the mutex created in it.  An    *)
(* exception is logged, and the process goes on without the engine.         *)
HandleCreatedProcess(p) ==
    /\ creator[p] = "handle"
    /\ \/ /\ Excluded(p) \/ ~alive \/ "injectFails" \in Faults
          /\ creator' = [creator EXCEPT ![p] = "resume"]
          /\ failed' = [failed EXCEPT ![p] = @ \/ ~Excluded(p)]
          /\ UNCHANGED handles
       \/ /\ ~Excluded(p) /\ alive
          /\ handles' = [handles EXCEPT ![p] = @ \union {"creator"}]
          /\ creator' = [creator EXCEPT ![p] = IF Exists(p) THEN "wait" ELSE "inject"]
          /\ UNCHANGED failed
    /\ UNCHANGED <<kind, targetVars, susp, list, cursor, inj, owner, pending, made,
                   sessions, alive>>

InjectCreated(p) ==
    /\ creator[p] = "inject"
    /\ DllInject(p, "apc")
    /\ handles' = [handles EXCEPT ![p] = (@ \ {"creator"}) \union Duplicated(p)]
    /\ creator' = [creator EXCEPT ![p] = "resume"]
    /\ UNCHANGED <<kind, targetVars, susp, list, cursor, inj, owner, alive>>

(* "Make sure the main thread doesn't begin execution before the APC is     *)
(* queued": the mutex is acquired, abandoned or not, and released again.     *)
(* The suspend count that its owner holds ensures the same.                 *)
WaitForMutex(p) ==
    /\ creator[p] = "wait"
    /\ owner[p] = Nobody
    /\ handles' = [handles EXCEPT ![p] = @ \ {"creator"}]
    /\ creator' = [creator EXCEPT ![p] = "resume"]
    /\ UNCHANGED <<kind, targetVars, susp, list, cursor, inj, owner, injectionVars,
                   alive>>

(* The end of the hook.                                                     *)
ResumeCreated(p) ==
    /\ creator[p] = "resume"
    /\ LetGo(p)
    /\ UNCHANGED <<kind, targetVars, list, cursor, inj, mutexVars, injectionVars,
                   alive>>

(* The caller resumes the process it asked to be created suspended.         *)
CallerResumes(p) ==
    /\ creator[p] = "held"
    /\ creator' = [creator EXCEPT ![p] = "gone"]
    /\ ResumeThread(p)
    /\ UNCHANGED <<kind, targetVars, list, cursor, inj, mutexVars, injectionVars,
                   alive>>

------------------------------------------------------------------------------
(* The session manager.                                                     *)

(* Mutant: the end of the list is not noticed.                              *)
NextProcessPastTheEnd ==
    /\ inj = "next"
    /\ cursor' = cursor + 1
    /\ inj' = "count"
    /\ UNCHANGED <<kind, creator, targetVars, susp, list, mutexVars, injectionVars,
                   alive>>

(* InjectIntoNewProcesses: a process that is not alive any more and one     *)
(* that ShouldSkipNewProcess are passed over, for good.                     *)
NextProcess ==
    /\ inj = "next" /\ cursor < Len(list)
    /\ cursor' = cursor + 1
    /\ inj' = LET p == list[cursor + 1]
              IN IF life[p] = "dead" \/ Excluded(p) THEN "next" ELSE "count"
    /\ UNCHANGED <<kind, creator, targetVars, susp, list, mutexVars, injectionVars,
                   alive>>

(* InjectIntoNewProcess throws on cur: InjectIntoNewProcesses goes on with   *)
(* the next process and never comes back to it.                             *)
Throws ==
    /\ life[cur] = "dead" \/ "injectFails" \in Faults
    /\ inj' = "next"
    /\ failed' = [failed EXCEPT ![cur] = TRUE]

(* A process that runs has one thread or several.  NtGetNextThread fails in *)
(* a process that is going away or has none yet.                            *)
CountThreads ==
    /\ inj = "count"
    /\ \/ life[cur] # "dead" /\ inj' = "suspend" /\ UNCHANGED failed
       \/ life[cur] = "running" /\ inj' = "open" /\ UNCHANGED failed
       \/ Throws
    /\ UNCHANGED <<kind, creator, targetVars, susp, list, cursor, mutexVars, pending,
                   made, sessions, alive>>

(* Mutants: one thread is taken for a thread that runs; one that runs is    *)
(* left to others.                                                          *)
SuspendNobody ==
    /\ inj = "suspend"
    /\ inj' = "open"
    /\ UNCHANGED <<kind, creator, targetVars, susp, list, cursor, mutexVars,
                   injectionVars, alive>>
SuspendThreadOrSkip ==
    /\ inj = "suspend"
    /\ IF susp[cur] = 0
       THEN inj' = "next" /\ UNCHANGED susp
       ELSE inj' = "context" /\ susp' = [susp EXCEPT ![cur] = @ + 1]
    /\ UNCHANGED <<kind, creator, targetVars, list, cursor, mutexVars,
                   injectionVars, alive>>

(* A thread that was not suspended is resumed at once.                      *)
SuspendThread ==
    /\ inj = "suspend"
    /\ \/ life[cur] # "dead" /\ susp[cur] = 0 /\ inj' = "open"
          /\ UNCHANGED <<susp, failed>>
       \/ life[cur] # "dead" /\ susp[cur] > 0 /\ inj' = "context"
          /\ susp' = [susp EXCEPT ![cur] = @ + 1] /\ UNCHANGED failed
       \/ Throws /\ UNCHANGED susp
    /\ UNCHANGED <<kind, creator, targetVars, list, cursor, mutexVars, pending, made,
                   sessions, alive>>

(* The instruction pointer is at RtlUserThreadStart, or it is not and the   *)
(* scope guard resumes the thread, as it does when an exception is thrown.  *)
GetThreadContext ==
    /\ inj = "context"
    /\ \/ life[cur] = "starting" /\ inj' = "mutex" /\ UNCHANGED <<susp, failed>>
       \/ life[cur] = "running" /\ inj' = "open" /\ ResumeThread(cur)
          /\ UNCHANGED failed
       \/ Throws /\ ResumeThread(cur)
    /\ UNCHANGED <<kind, creator, targetVars, list, cursor, mutexVars, pending, made,
                   sessions, alive>>

(* "APC was already created", or the mutex is, owned from the start.        *)
CreateProcessInitAPCMutex ==
    /\ inj = "mutex"
    /\ IF Exists(cur)
       THEN inj' = "next" /\ ResumeThread(cur) /\ UNCHANGED mutexVars
       ELSE /\ inj' = "apc"
            /\ handles' = [handles EXCEPT ![cur] = {"injector"}]
            /\ owner' = [owner EXCEPT ![cur] = "injector"]
            /\ UNCHANGED susp
    /\ UNCHANGED <<kind, creator, targetVars, list, cursor, injectionVars, alive>>

InjectAPC ==
    /\ inj = "apc"
    /\ DllInject(cur, "apc")
    /\ handles' = [handles EXCEPT ![cur] = @ \union Duplicated(cur)]
    /\ inj' = "leave"
    /\ UNCHANGED <<kind, creator, targetVars, susp, list, cursor, owner, alive>>

(* The scope guards, also when DllInject threw: the mutex is released and   *)
(* closed, the thread resumed.                                              *)
Leave ==
    /\ inj = "leave"
    /\ handles' = [handles EXCEPT ![cur] = @ \ {"injector"}]
    /\ owner' = [owner EXCEPT ![cur] = Nobody]
    /\ ResumeThread(cur)
    /\ inj' = "next"
    /\ UNCHANGED <<kind, creator, targetVars, list, cursor, injectionVars, alive>>

OpenProcessInitAPCMutex ==
    /\ inj = "open"
    /\ inj' = IF Exists(cur) THEN "next" ELSE "remote"
    /\ UNCHANGED <<kind, creator, targetVars, susp, list, cursor, mutexVars,
                   injectionVars, alive>>

InjectRemoteThread ==
    /\ inj = "remote"
    /\ DllInject(cur, "thread")
    /\ inj' = "next"
    /\ UNCHANGED <<kind, creator, targetVars, susp, list, cursor, mutexVars, alive>>

(* The process of the session manager ends; the handles it has are closed   *)
(* and what it owns is abandoned.                                           *)
ManagerEnds ==
    /\ alive /\ "managerEnds" \in Faults
    /\ alive' = FALSE
    /\ inj' = IF inj \in Holding THEN "killed" ELSE "off"
    /\ handles' = [p \in Procs |-> handles[p] \ {"injector"}]
    /\ owner' = [p \in Procs |-> Nobody]
    /\ UNCHANGED <<kind, creator, targetVars, susp, list, cursor, injectionVars>>

------------------------------------------------------------------------------
(* The process p.                                                           *)

(* InjectInit: FALSE when the session manager is not running, and then the  *)
(* injected code closes the handles.                                        *)
InjectInit(p, how) ==
    /\ pending' = [pending EXCEPT ![p] = @ \ {how}]
    /\ IF alive
       THEN sessions' = [sessions EXCEPT ![p] = @ + 1] /\ UNCHANGED handles
       ELSE /\ handles' = [handles EXCEPT ![p] = @ \ {"target"}]
            /\ UNCHANGED sessions
    /\ UNCHANGED <<made, failed, owner>>

(* A main thread runs its APCs before anything else.                        *)
Begin(p) ==
    /\ life[p] = "starting" /\ susp[p] = 0
    /\ life' = [life EXCEPT ![p] = "running"]
    /\ IF "apc" \in pending[p]
       THEN InjectInit(p, "apc")
       ELSE UNCHANGED <<injectionVars, mutexVars>>
    /\ UNCHANGED <<kind, creator, frozen, susp, list, cursor, inj, alive>>

RunRemoteThread(p) ==
    /\ "thread" \in pending[p]
    /\ InjectInit(p, "thread")
    /\ UNCHANGED <<kind, creator, targetVars, susp, list, cursor, inj, alive>>

(* The sessions of the process end with their manager.                      *)
SessionEnds(p) ==
    /\ ~alive /\ sessions[p] > 0
    /\ sessions' = [sessions EXCEPT ![p] = 0]
    /\ handles' = [handles EXCEPT ![p] = @ \ {"target"}]
    /\ UNCHANGED <<kind, creator, targetVars, susp, list, cursor, inj, owner, pending,
                   made, failed, alive>>

(* Somebody else suspends the main thread of a process that runs, once.     *)
Freeze(p) ==
    /\ life[p] = "running" /\ ~frozen[p]
    /\ frozen' = [frozen EXCEPT ![p] = TRUE]
    /\ susp' = [susp EXCEPT ![p] = @ + 1]
    /\ UNCHANGED <<kind, creator, life, list, cursor, inj, mutexVars,
                   injectionVars, alive>>

Thaw(p) ==
    /\ life[p] = "running" /\ frozen[p]
    /\ frozen' = [frozen EXCEPT ![p] = FALSE]
    /\ ResumeThread(p)
    /\ UNCHANGED <<kind, creator, life, list, cursor, inj, mutexVars,
                   injectionVars, alive>>

Die(p) ==
    /\ "dies" \in Faults /\ life[p] \in {"starting", "running"}
    /\ life' = [life EXCEPT ![p] = "dead"]
    /\ susp' = [susp EXCEPT ![p] = 0]
    /\ frozen' = [frozen EXCEPT ![p] = FALSE]
    /\ handles' = [handles EXCEPT ![p] = @ \ {"target"}]
    /\ pending' = [pending EXCEPT ![p] = {}]
    /\ sessions' = [sessions EXCEPT ![p] = 0]
    /\ UNCHANGED <<kind, creator, list, cursor, inj, owner, made, failed, alive>>

------------------------------------------------------------------------------
CreatorStep(p) ==
    \/ InternalReturns(p)
    \/ HandleCreatedProcess(p)
    \/ InjectCreated(p)
    \/ WaitForMutex(p)
    \/ ResumeCreated(p)

InjectorStep ==
    \/ NextProcess
    \/ CountThreads
    \/ SuspendThread
    \/ GetThreadContext
    \/ CreateProcessInitAPCMutex
    \/ InjectAPC
    \/ Leave
    \/ OpenProcessInitAPCMutex
    \/ InjectRemoteThread

TargetStep(p) ==
    \/ Begin(p)
    \/ RunRemoteThread(p)
    \/ SessionEnds(p)

Next ==
    \/ \E p \in Procs : CreateProcess(p) \/ CallerResumes(p)
    \/ \E p \in Procs : Freeze(p) \/ Thaw(p) \/ Die(p)
    \/ \E p \in Procs : CreatorStep(p) \/ TargetStep(p)
    \/ InjectorStep
    \/ ManagerEnds

Spec == Init /\ [][Next]_vars

(* Threads run, and the tray program calls InjectIntoNewProcesses again and  *)
(* again; a caller need not resume what it holds.                           *)
FairSpec ==
    /\ Spec
    /\ WF_vars(InjectorStep)
    /\ \A p \in Procs : WF_vars(CreatorStep(p)) /\ WF_vars(TargetStep(p))

------------------------------------------------------------------------------
TypeOK ==
    /\ kind \in [Procs -> Kinds]
    /\ creator \in [Procs -> CreatorSteps]
    /\ life \in [Procs -> Lives]
    /\ susp \in [Procs -> 0..3]
    /\ frozen \in [Procs -> BOOLEAN]
    /\ list \in Seq(Procs) /\ cursor \in 0..Len(list)
    /\ inj \in InjectorSteps
    /\ handles \in [Procs -> SUBSET Parties]
    /\ owner \in [Procs -> Parties \union {Nobody}]
    /\ pending \in [Procs -> SUBSET {"apc", "thread"}]
    /\ made \in [Procs -> Nat] /\ sessions \in [Procs -> Nat]
    /\ failed \in [Procs -> BOOLEAN]
    /\ alive \in BOOLEAN

(* The mutex named ProcessInitAPCMutex-pid does what it is for: whoever      *)
(* comes first injects a process, and no one else does.                     *)
InjectedOnce == \A p \in Procs : made[p] <= 1

(* "Creating a remote thread might be too early and unsafe"                  *)
(* (InjectIntoNewProcess): there is none in a process whose creator has not  *)
(* resumed it yet.                                                          *)
NoEarlyRemoteThread ==
    \A p \in Procs : "thread" \in pending[p] => creator[p] = "gone"

(* A process that a customized process creates does not run a single        *)
(* instruction of its own before the engine is in it, whichever of the two   *)
(* parties injects it.                                                      *)
HookedChildStartsInjected ==
    \A p \in Procs :
        life[p] = "running" /\ Hooked(p) /\ ~Excluded(p) /\ alive
            => made[p] > 0 \/ failed[p]

(* What CreateProcess was not asked to suspend runs: neither of the two      *)
(* parties leaves it suspended or waits for the other for ever.  The one     *)
(* exception is a session manager killed while it had the thread suspended.  *)
ChildRuns ==
    \A p \in Procs :
        (creator[p] = "internal" /\ ~Suspended(p))
            ~> life[p] \in {"running", "dead"} \/ (inj = "killed" /\ p = cur)

(* Every process is injected, by one party or the other, although each of    *)
(* them leaves it to the other when it finds the mutex.                     *)
EveryProcessIsInjected ==
    \A p \in Procs :
        (creator[p] = "internal" /\ ~Excluded(p))
            ~> made[p] > 0 \/ failed[p] \/ life[p] = "dead" \/ ~alive
==============================================================================
