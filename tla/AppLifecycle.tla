----------------------------- MODULE AppLifecycle -----------------------------
(***************************************************************************)
(* The life of Windhawk as an installed program: the service, which is the  *)
(* session manager that runs the engine, the tray program (RunDaemon) of    *)
(* each session, and the processes of windhawk.exe that start, stop and     *)
(* restart them.  They find each other by named objects alone:              *)
(*   - the file mapping and the mutex of the service, which refuse a second *)
(*     service as long as anyone has a handle of them;                      *)
(*   - the mutex again: a tray waits for it to be released, and goes;        *)
(*   - the events that ask a service to stop;                               *)
(*   - the service control manager's view of the service (scm), which does   *)
(*     not wait for the process to end.                                     *)
(***************************************************************************)
EXTENDS Naturals, FiniteSets

CONSTANTS Services,    \* processes of the service that may exist at once
          Procs,       \* other processes of windhawk.exe that may exist at once
          Commands,    \* what users do, see CommandKinds
          MaxWaiters   \* how many of the processes may wait for the others

Nobody == "nobody"
Abandoned == "abandoned"   \* the owner of a mutex ended without releasing it

(*   "run"        windhawk.exe is launched by hand;                        *)
(*   "stop"       -service-stop;                                           *)
(*   "restart"    -restart-bg, after the settings have been saved;          *)
(*   "logon"      a user logs on while the service runs;                   *)
(*   "dialog"     a tray shows a modal dialog;                             *)
(*   "emergency"  a tray sends the emergency signal;                       *)
(*   "safe"       a tray relaunches Windhawk in safe mode;                 *)
(*   "decline"    a user declines the elevation that is asked for to start  *)
(*                the service, or it cannot be asked for;                   *)
(*   "kill"       the service process is killed.                           *)
CommandKinds == {"run", "stop", "restart", "logon", "dialog", "emergency", "safe",
                 "decline", "kill"}

ASSUME AppAssumption ==
    /\ Commands \subseteq CommandKinds
    /\ Services \cap Procs = {} /\ {Nobody, Abandoned} \cap (Services \union Procs) = {}
    /\ IsFiniteSet(Procs) /\ MaxWaiters \in Nat

VARIABLES
    scm,        \* the state of the service, as last reported
    cur,        \* the process of the service that reported it
    svc,        \* where each process of the service is
    stopEvent,  \* those whose m_svcStopEvent is signaled
    engine,     \* those whose m_engineControl exists
    mapping,    \* who has a handle of the service's file mapping
    mutex,      \* who has a handle of the service's mutex
    owner,      \* who owns it
    events,     \* who has handles of the named events
    signaled,   \* which of the named events are signaled
    safeMode,   \* the setting SafeMode
    proc,       \* where each other process is
    why,        \* what it has been launched for
    waitsFor,   \* the processes it still waits for
    disturbed   \* history: users did more than "restart", "safe" and "dialog",
                \* or declined the elevation

scmVars == <<scm, cur>>
svcVars == <<svc, stopEvent, engine>>
objects == <<mapping, mutex, owner, events, signaled>>
procVars == <<proc, why, waitsFor>>
vars == <<scmVars, svcVars, objects, safeMode, procVars, disturbed>>

ScmStates == {"stopped", "startPending", "running", "stopPending"}
(* "mapping" to "engine": SvcInit; "launch", "loop": SvcRun; "report": about *)
(* to report SERVICE_STOPPED; the rest: the destructor, member by member.    *)
SvcSteps == {"none", "mapping", "mutex", "events", "engine", "launch", "loop",
             "report", "dropEngine", "dropEvents", "dropMutex", "dropMapping"}
(* "stop", "snapshot", "wait", "start": the commands; "query", "prompt" and   *)
(* "daemon" to "info": a tray that starts; "loop" to "close": its messages;  *)
(* the rest: its end.                                                       *)
ProcSteps == {"none", "stop", "snapshot", "wait", "query", "prompt", "start",
              "daemon", "open", "info", "loop", "modal", "event", "signal",
              "close", "destroy", "end"}
Whys == {"run", "stop", "restart", "wait", "safe", "emergency"}

(* A named object exists as long as somebody has a handle of it.            *)
Exists(handles) == handles # {}

Init ==
    /\ scm = "stopped" /\ cur \in Services
    /\ svc = [i \in Services |-> "none"] /\ stopEvent = {} /\ engine = {}
    /\ mapping = {} /\ mutex = {} /\ owner = Nobody
    /\ events = {} /\ signaled = {}
    /\ safeMode = FALSE
    /\ proc = [p \in Procs |-> "none"]
    /\ why = [p \in Procs |-> "run"]
    /\ waitsFor = [p \in Procs |-> {}]
    /\ disturbed = FALSE

(* The process x has ended: nobody waits for it any longer.                  *)
Ends(x) == waitsFor' = [p \in Procs |-> waitsFor[p] \ {x}]

(* x closes its handle of the mutex, of the events.                         *)
CloseMutex(x) ==
    /\ mutex' = mutex \ {x}
    /\ owner' = IF Exists(mutex') THEN owner ELSE Nobody
CloseEvents(x) ==
    /\ events' = events \ {x}
    /\ signaled' = IF Exists(events') THEN signaled ELSE {}

------------------------------------------------------------------------------
(* The service control manager.                                             *)

(* StartService, called by p; a service that is not stopped is not started,  *)
(* which is no error to Service::Start.                                     *)
StartService ==
    \/ /\ scm = "stopped"
       /\ \E i \in Services :
            /\ svc[i] = "none"
            /\ svc' = [svc EXCEPT ![i] = "mapping"]
            /\ scm' = "startPending" /\ cur' = i
       /\ UNCHANGED <<stopEvent, engine>>
    \/ scm # "stopped" /\ UNCHANGED <<scmVars, svcVars>>

(* ControlService of Service::Stop, with the handler SvcCtrlHandlerEx: it    *)
(* throws when the service is starting or stopping.                         *)
Stoppable == scm \in {"running", "stopped"}
ControlStop ==
    IF scm = "running"
    THEN /\ scm' = "stopPending" /\ stopEvent' = stopEvent \union {cur}
         /\ UNCHANGED <<cur, svc, engine>>
    ELSE UNCHANGED <<scmVars, svcVars>>

------------------------------------------------------------------------------
(* A process of the service.                                                *)

Goes(i, step) == svc' = [svc EXCEPT ![i] = step]

(* SvcInit throws: SERVICE_STOPPED, and the destructor of what there is.     *)
SvcInitFails(i) ==
    /\ Goes(i, "dropEngine")
    /\ scm' = IF cur = i THEN "stopped" ELSE scm
    /\ UNCHANGED <<cur, stopEvent, engine>>

CreateServiceInfoFileMapping(i) ==
    /\ svc[i] = "mapping"
    /\ IF Exists(mapping)
       THEN SvcInitFails(i) /\ UNCHANGED mapping
       ELSE /\ Goes(i, "mutex") /\ mapping' = {i}
            /\ UNCHANGED <<scmVars, stopEvent, engine>>
    /\ UNCHANGED <<mutex, owner, events, signaled, safeMode, procVars>>

(* Mutant: a mutex that exists is opened.                                   *)
CreateServiceMutexOrOpen(i) ==
    /\ svc[i] = "mutex"
    /\ Goes(i, "events") /\ mutex' = mutex \union {i} /\ owner' = i
    /\ UNCHANGED <<scmVars, stopEvent, engine, mapping, events, signaled, safeMode,
                   procVars>>

CreateServiceMutex(i) ==
    /\ svc[i] = "mutex"
    /\ IF Exists(mutex)
       THEN SvcInitFails(i) /\ UNCHANGED <<mutex, owner>>
       ELSE /\ Goes(i, "events") /\ mutex' = {i} /\ owner' = i
            /\ UNCHANGED <<scmVars, stopEvent, engine>>
    /\ UNCHANGED <<mapping, events, signaled, safeMode, procVars>>

(* An event that exists is opened, in the state it is in.                   *)
CreateEvents(i) ==
    /\ svc[i] = "events"
    /\ Goes(i, "engine")
    /\ events' = events \union {i}
    /\ UNCHANGED <<scmVars, stopEvent, engine, mapping, mutex, owner, signaled,
                   safeMode, procVars>>

(* The end of SvcInit, and SERVICE_RUNNING.                                 *)
StartEngine(i) ==
    /\ svc[i] = "engine"
    /\ Goes(i, "launch")
    /\ engine' = IF safeMode THEN engine ELSE engine \union {i}
    /\ scm' = IF cur = i THEN "running" ELSE scm
    /\ UNCHANGED <<cur, stopEvent, objects, safeMode, procVars>>

(* The service launches "windhawk.exe -tray-only" in the session, or fails   *)
(* to, which is logged.                                                     *)
LaunchTray ==
    \/ \E p \in Procs :
          /\ proc[p] = "none"
          /\ proc' = [proc EXCEPT ![p] = "query"]
    \/ (\A p \in Procs : proc[p] # "none") /\ UNCHANGED proc

CreateProcessOnAllSessions(i) ==
    /\ svc[i] = "launch"
    /\ Goes(i, "loop")
    /\ LaunchTray
    /\ UNCHANGED <<scmVars, stopEvent, engine, objects, safeMode, why, waitsFor>>

(* WaitForMultipleObjectsEx: the first of the events that are signaled.     *)
SvcRun(i) ==
    /\ svc[i] = "loop"
    /\ i \in stopEvent \/ signaled # {}
    /\ safeMode' = (safeMode \/ (i \notin stopEvent /\ signaled = {"safe"}))
    /\ Goes(i, "report")
    /\ UNCHANGED <<scmVars, stopEvent, engine, objects, procVars>>

ReportStopped(i) ==
    /\ svc[i] = "report"
    /\ Goes(i, "dropEngine")
    /\ scm' = IF cur = i THEN "stopped" ELSE scm
    /\ UNCHANGED <<cur, stopEvent, engine, objects, safeMode, procVars>>

(* Mutant: m_engineControl is declared first, and goes last.                *)
DropEngineLast(i) ==
    /\ svc[i] = "dropEngine"
    /\ Goes(i, "dropMapping")
    /\ mapping' = mapping \ {i} /\ mutex' = mutex \ {i}
    /\ owner' = IF owner = i THEN Nobody ELSE owner
    /\ CloseEvents(i)
    /\ UNCHANGED <<scmVars, stopEvent, engine, safeMode, procVars>>

(* ~ServiceInstance: the members in the reverse order of their declaration.  *)
DropEngine(i) ==
    /\ svc[i] = "dropEngine"
    /\ Goes(i, "dropEvents")
    /\ engine' = engine \ {i}
    /\ UNCHANGED <<scmVars, stopEvent, objects, safeMode, procVars>>

DropEvents(i) ==
    /\ svc[i] = "dropEvents"
    /\ Goes(i, "dropMutex")
    /\ stopEvent' = stopEvent \ {i}
    /\ CloseEvents(i)
    /\ UNCHANGED <<scmVars, engine, mapping, mutex, owner, safeMode, procVars>>

(* Mutant: m_svcMutexLock is declared before m_svcMutex, and goes after it.  *)
DropMutexUnreleased(i) ==
    /\ svc[i] = "dropMutex"
    /\ Goes(i, "dropMapping")
    /\ mutex' = mutex \ {i}
    /\ UNCHANGED <<scmVars, stopEvent, engine, mapping, owner, events, signaled,
                   safeMode, procVars>>

DropMutex(i) ==
    /\ svc[i] = "dropMutex"
    /\ Goes(i, "dropMapping")
    /\ mutex' = mutex \ {i}
    /\ owner' = IF owner = i THEN Nobody ELSE owner
    /\ UNCHANGED <<scmVars, stopEvent, engine, mapping, events, signaled, safeMode,
                   procVars>>

(* The last handle, and the end of the process.                             *)
DropMapping(i) ==
    /\ svc[i] = "dropMapping"
    /\ Goes(i, "none")
    /\ mapping' = mapping \ {i} /\ engine' = engine \ {i}
    /\ Ends(i)
    /\ UNCHANGED <<scmVars, stopEvent, mutex, owner, events, signaled, safeMode, proc,
                   why>>

(* The process is killed: what it owned is abandoned.                       *)
Kill(i) ==
    /\ "kill" \in Commands /\ svc[i] # "none"
    /\ Goes(i, "none")
    /\ scm' = IF cur = i THEN "stopped" ELSE scm
    /\ stopEvent' = stopEvent \ {i} /\ engine' = engine \ {i}
    /\ mapping' = mapping \ {i} /\ mutex' = mutex \ {i}
    /\ owner' = CASE mutex' = {} -> Nobody
                  [] mutex' # {} /\ owner = i -> Abandoned
                  [] OTHER -> owner
    /\ CloseEvents(i)
    /\ Ends(i)
    /\ disturbed' = TRUE
    /\ UNCHANGED <<cur, safeMode, proc, why>>

------------------------------------------------------------------------------
(* Another process of windhawk.exe.                                         *)

Steps(p, step) == proc' = [proc EXCEPT ![p] = step]
ProcEnds(p) == Steps(p, "none") /\ why' = [why EXCEPT ![p] = "run"] /\ Ends(p)
Waiters == {p \in Procs : why[p] \in {"restart", "wait"}}

(* A user does something that launches windhawk.exe.                        *)
Launch(p, what) ==
    /\ what \in Commands /\ proc[p] = "none"
    /\ \/ what = "run" /\ Steps(p, "query")
       \/ what = "stop" /\ Steps(p, "stop")
       \/ what = "restart" /\ Steps(p, "stop") /\ Cardinality(Waiters) < MaxWaiters
    /\ why' = [why EXCEPT ![p] = what]
    /\ disturbed' = (disturbed \/ what # "restart")
    /\ UNCHANGED <<scmVars, svcVars, objects, safeMode, waitsFor>>

(* SERVICE_CONTROL_SESSIONCHANGE, WTS_SESSION_LOGON.                        *)
Logon ==
    /\ "logon" \in Commands /\ scm = "running"
    /\ LaunchTray
    /\ disturbed' = TRUE
    /\ UNCHANGED <<scmVars, svcVars, objects, safeMode, why, waitsFor>>

(* Service::Stop; what it throws ends the process.                          *)
ServiceStop(p) ==
    /\ proc[p] = "stop"
    /\ ControlStop
    /\ IF why[p] = "restart" /\ Stoppable
       THEN Steps(p, "snapshot") /\ UNCHANGED <<why, waitsFor>>
       ELSE ProcEnds(p)
    /\ UNCHANGED <<objects, safeMode>>

(* WaitForRunningProcessesToTerminate: one snapshot of the processes, and    *)
(* then a wait for all of them.                                             *)
Snapshot(p) ==
    /\ proc[p] = "snapshot"
    /\ Steps(p, "wait")
    /\ waitsFor' = [waitsFor EXCEPT ![p] =
                      {i \in Services : svc[i] # "none"}
                        \union {q \in Procs \ {p} : proc[q] # "none"}]
    /\ UNCHANGED <<scmVars, svcVars, objects, safeMode, why>>

(* RestartApp starts the service; an instance with -wait goes on to RunDaemon.  *)
Terminated(p) ==
    IF why[p] = "restart"
    THEN Steps(p, "start") /\ UNCHANGED why
    ELSE Steps(p, "query") /\ why' = [why EXCEPT ![p] = "run"]

(* Mutant: the wait ends when the service has stopped.                      *)
ServiceStopped(p) ==
    /\ proc[p] = "wait" /\ scm = "stopped"
    /\ Terminated(p)
    /\ waitsFor' = [waitsFor EXCEPT ![p] = {}]
    /\ UNCHANGED <<scmVars, svcVars, objects, safeMode>>

AllTerminated(p) ==
    /\ proc[p] = "wait" /\ waitsFor[p] = {}
    /\ Terminated(p)
    /\ UNCHANGED <<scmVars, svcVars, objects, safeMode, waitsFor>>

ServiceStart(p) ==
    /\ proc[p] = "start"
    /\ StartService
    /\ ProcEnds(p)
    /\ UNCHANGED <<objects, safeMode>>

(* Service::IsRunning(TRUE) waits while the service is starting.  A service  *)
(* that does not run is started by this process when it is elevated, or     *)
(* else by an elevated one, RunAsAdmin.                                     *)
IsRunning(p) ==
    /\ proc[p] = "query" /\ scm # "startPending"
    /\ \/ scm = "running" /\ Steps(p, "daemon")
       \/ scm # "running" /\ (Steps(p, "start") \/ Steps(p, "prompt"))
    /\ UNCHANGED <<scmVars, svcVars, objects, safeMode, why, waitsFor>>

(* The user consents: this process ends, and an elevated one, launched with  *)
(* -service-start or -service-start-and-run-ui, takes its place.            *)
RunAsAdmin(p) ==
    /\ proc[p] = "prompt"
    /\ Steps(p, "start") /\ Ends(p)
    /\ UNCHANGED <<scmVars, svcVars, objects, safeMode, why>>

(* ERROR_CANCELLED, or another error, which is thrown: nothing is started.   *)
DeclineElevation(p) ==
    /\ "decline" \in Commands /\ proc[p] = "prompt"
    /\ ProcEnds(p)
    /\ disturbed' = TRUE
    /\ UNCHANGED <<scmVars, svcVars, objects, safeMode>>

(* From here a process holds the mutex WindhawkDaemon of the session.       *)
DaemonSteps == {"open", "info", "loop", "modal", "event", "signal", "close",
                "destroy", "end"}

CreateDaemonMutex(p) ==
    /\ proc[p] = "daemon"
    /\ IF \E q \in Procs : proc[q] \in DaemonSteps
       THEN ProcEnds(p)
       ELSE Steps(p, "open") /\ UNCHANGED <<why, waitsFor>>
    /\ UNCHANGED <<scmVars, svcVars, objects, safeMode>>

(* InitForNonPortableVersion; what it throws is shown in a message box, and  *)
(* the window is not created.                                               *)
OpenServiceMutex(p) ==
    /\ proc[p] = "open"
    /\ IF Exists(mutex)
       THEN mutex' = mutex \union {p} /\ Steps(p, "info")
       ELSE UNCHANGED mutex /\ Steps(p, "destroy")
    /\ UNCHANGED <<scmVars, svcVars, mapping, owner, events, signaled, safeMode, why,
                   waitsFor>>

(* Mutant: a mapping that is not there is waited for.                        *)
OpenServiceInfoWaits(p) ==
    /\ proc[p] = "info" /\ Exists(mapping)
    /\ Steps(p, "loop")
    /\ UNCHANGED <<scmVars, svcVars, objects, safeMode, why, waitsFor>>

OpenServiceInfo(p) ==
    /\ proc[p] = "info"
    /\ Steps(p, IF Exists(mapping) THEN "loop" ELSE "destroy")
    /\ UNCHANGED <<scmVars, svcVars, objects, safeMode, why, waitsFor>>

(* Exit destroys the window at once: the update check that it may have to   *)
(* abort first is made in the portable version only (TrayWindow).           *)
Exit(p) == Steps(p, "destroy")

(* OnIdle waits for the service's mutex.  When it gets it, it releases it     *)
(* and exits.  An abandoned mutex is another result of the wait, which is    *)
(* not looked at: the tray owns the mutex, gets it once more in the next     *)
(* OnIdle and releases it once.                                             *)
OnIdle(p) ==
    /\ proc[p] = "loop"
    /\ \/ owner \in {Nobody, p} /\ Exit(p) /\ UNCHANGED owner
       \/ owner = Abandoned /\ owner' = p /\ UNCHANGED proc
    /\ UNCHANGED <<scmVars, svcVars, mapping, mutex, events, signaled, safeMode, why,
                   waitsFor>>

(* A modal dialog has a message loop of its own, without OnIdle.  It may be   *)
(* open when the service ends; a tray that could exit opens no new one.     *)
OpenDialog(p) ==
    /\ "dialog" \in Commands /\ proc[p] = "loop" /\ owner \in Services
    /\ Steps(p, "modal")
    /\ UNCHANGED <<scmVars, svcVars, objects, safeMode, why, waitsFor, disturbed>>

CloseDialog(p) ==
    /\ proc[p] = "modal"
    /\ Steps(p, "loop")
    /\ UNCHANGED <<scmVars, svcVars, objects, safeMode, why, waitsFor>>


(* SwitchToSafeMode: an instance with -wait is launched, then the event is   *)
(* opened, set and closed.                                                  *)
SwitchToSafeMode(p) ==
    /\ "safe" \in Commands /\ proc[p] = "loop"
    /\ Cardinality(Waiters) < MaxWaiters
    /\ \E q \in Procs :
          /\ proc[q] = "none"
          /\ proc' = [proc EXCEPT ![p] = "event", ![q] = "snapshot"]
          /\ why' = [why EXCEPT ![p] = "safe", ![q] = "wait"]
    /\ UNCHANGED <<scmVars, svcVars, objects, safeMode, waitsFor, disturbed>>

(* "You can choose to send an exit signal to the Windhawk service."         *)
EmergencyStop(p) ==
    /\ "emergency" \in Commands /\ proc[p] = "modal"
    /\ Steps(p, "event") /\ why' = [why EXCEPT ![p] = "emergency"]
    /\ disturbed' = TRUE
    /\ UNCHANGED <<scmVars, svcVars, objects, safeMode, waitsFor>>

(* Back to where the event was sent from: the dialog is left open.           *)
Sent(p) ==
    /\ Steps(p, IF why[p] = "emergency" THEN "modal" ELSE "loop")
    /\ why' = [why EXCEPT ![p] = "run"]

OpenEvent(p) ==
    /\ proc[p] = "event"
    /\ IF Exists(events)
       THEN Steps(p, "signal") /\ events' = events \union {p} /\ UNCHANGED why
       ELSE Sent(p) /\ UNCHANGED events
    /\ UNCHANGED <<scmVars, svcVars, mapping, mutex, owner, signaled, safeMode,
                   waitsFor>>

(* The event is set; the handle is closed a little later.                   *)
SetEvent(p) ==
    /\ proc[p] = "signal"
    /\ Steps(p, "close")
    /\ signaled' = signaled \union {why[p]}
    /\ UNCHANGED <<scmVars, svcVars, mapping, mutex, owner, events, safeMode, why,
                   waitsFor>>

CloseEvent(p) ==
    /\ proc[p] = "close"
    /\ Sent(p)
    /\ CloseEvents(p)
    /\ UNCHANGED <<scmVars, svcVars, mapping, mutex, owner, safeMode, waitsFor>>

(* ~CMainWindow closes the service's mutex, ...                             *)
DestroyWindow(p) ==
    /\ proc[p] = "destroy"
    /\ Steps(p, "end")
    /\ CloseMutex(p)
    /\ UNCHANGED <<scmVars, svcVars, mapping, events, signaled, safeMode, why, waitsFor>>

(* ... and the process ends; what it still owns is abandoned.               *)
EndDaemon(p) ==
    /\ proc[p] = "end"
    /\ ProcEnds(p)
    /\ owner' = IF owner = p THEN Abandoned ELSE owner
    /\ UNCHANGED <<scmVars, svcVars, mapping, mutex, events, signaled, safeMode>>

------------------------------------------------------------------------------
ServiceStep(i) ==
    \/ CreateServiceInfoFileMapping(i)
    \/ CreateServiceMutex(i)
    \/ CreateEvents(i)
    \/ StartEngine(i)
    \/ CreateProcessOnAllSessions(i)
    \/ SvcRun(i)
    \/ ReportStopped(i)
    \/ DropEngine(i)
    \/ DropEvents(i)
    \/ DropMutex(i)
    \/ DropMapping(i)

ProcStep(p) ==
    \/ ServiceStop(p)
    \/ Snapshot(p)
    \/ AllTerminated(p)
    \/ ServiceStart(p)
    \/ IsRunning(p)
    \/ RunAsAdmin(p)
    \/ CreateDaemonMutex(p)
    \/ OpenServiceMutex(p)
    \/ OpenServiceInfo(p)
    \/ OnIdle(p)
    \/ CloseDialog(p)
    \/ OpenEvent(p)
    \/ SetEvent(p)
    \/ CloseEvent(p)
    \/ DestroyWindow(p)
    \/ EndDaemon(p)

UserStep(p) ==
    \/ \E what \in {"run", "stop", "restart"} : Launch(p, what)
    \/ OpenDialog(p)
    \/ SwitchToSafeMode(p)
    \/ EmergencyStop(p)
    \/ DeclineElevation(p)

Next ==
    \/ \E i \in Services : ServiceStep(i) /\ UNCHANGED disturbed
    \/ \E p \in Procs : ProcStep(p) /\ UNCHANGED disturbed
    \/ \E p \in Procs : UserStep(p)
    \/ \E i \in Services : Kill(i)
    \/ Logon

Spec == Init /\ [][Next]_vars

(* Threads run, and users answer when they are asked for the elevation and   *)
(* close dialogs, whatever else they do in them; what users begin is up to   *)
(* them.                                                                    *)
FairSpec ==
    /\ Spec
    /\ \A i \in Services : WF_vars(ServiceStep(i) /\ UNCHANGED disturbed)
    /\ \A p \in Procs : /\ WF_vars(ProcStep(p) /\ UNCHANGED disturbed)
                       /\ SF_vars(CloseDialog(p) /\ UNCHANGED disturbed)

------------------------------------------------------------------------------
TypeOK ==
    /\ scm \in ScmStates /\ cur \in Services
    /\ svc \in [Services -> SvcSteps]
    /\ stopEvent \subseteq Services /\ engine \subseteq Services
    /\ mapping \subseteq Services
    /\ mutex \subseteq Services \union Procs
    /\ owner \in Services \union Procs \union {Nobody, Abandoned}
    /\ owner \in Services => owner \in mutex
    /\ events \subseteq Services \union Procs
    /\ signaled \subseteq {"emergency", "safe"}
    /\ safeMode \in BOOLEAN
    /\ proc \in [Procs -> ProcSteps]
    /\ why \in [Procs -> Whys]
    /\ waitsFor \in [Procs -> SUBSET (Services \union Procs)]
    /\ Cardinality(Waiters) <= MaxWaiters
    /\ disturbed \in BOOLEAN

(* There is one session manager at a time, although the control manager      *)
(* starts a service as soon as the last one reported SERVICE_STOPPED, which  *)
(* it does before its engine is destroyed.                                  *)
OneEngine == Cardinality(engine) <= 1

(* A request to stop is for the service that runs when it is made: a new     *)
(* service never opens an event that a tray of the last one still holds, in  *)
(* the state that it left it in.                                            *)
NoStaleStop ==
    \A i \in Services : svc[i] = "events" => ~Exists(events)

(* A service takes its trays with it, even when it was killed and its mutex  *)
(* is abandoned: an orphaned mutex, which no service can be started beside,  *)
(* is let go by all.                                                        *)
TraysEndWithService ==
    (Exists(mutex) /\ mutex \cap Services = {}) ~> ~Exists(mutex)

(* Unless somebody else starts or stops Windhawk too, RestartApp comes back:  *)
(* it waits for the others to end, and then the service runs again.          *)
RestartWorks ==
    (\E p \in Procs : proc[p] = "snapshot" /\ why[p] = "restart")
        ~> disturbed \/ (scm = "running" /\ svc[cur] \in {"launch", "loop"})

==============================================================================
