-------------------------- MODULE AppLifecycleProofs --------------------------
(***************************************************************************)
(* For any number of processes, whatever users do and whenever the service  *)
(* is killed: there is one engine at a time, and no service is told to stop *)
(* by an event that was set for the service before it.  Both follow from    *)
(* the mutex of the service, which whoever may use the one or the other      *)
(* has a handle of.                                                        *)
(***************************************************************************)
EXTENDS AppLifecycle, FiniteSetTheorems, TLAPS

(* A service creates the mutex before it opens the events and makes the     *)
(* engine, and its destructor closes the handles in the reverse order.      *)
ServicesHold ==
    \A i \in Services :
        /\ svc[i] \in {"events", "engine", "launch", "loop", "report"} => i \in mutex
        /\ i \in engine =>
              i \in mutex /\ svc[i] \in {"launch", "loop", "report", "dropEngine"}
        /\ i \in events =>
              /\ i \in mutex
              /\ svc[i] \in {"engine", "launch", "loop", "report", "dropEngine", "dropEvents"}

(* A tray has a handle of the mutex from before it opens an event until its  *)
(* window is destroyed, and knows why it opens the event.                   *)
TraysHold ==
    \A p \in Procs :
        /\ proc[p] \in {"info", "loop", "modal", "event", "signal", "close"}
              => p \in mutex
        /\ p \in events => proc[p] \in {"signal", "close"}
        /\ proc[p] \in {"event", "signal", "close"} => why[p] \in {"emergency", "safe"}

(* The mutex is created by one service, and no other one gets a handle of   *)
(* it: it would have to be new.                                            *)
OneCreator == \A i, j \in mutex \intersect Services : i = j

(* The inductive invariant.                                                *)
IInv ==
    /\ TypeOK
    /\ ServicesHold
    /\ TraysHold
    /\ OneCreator
    /\ NoStaleStop

------------------------------------------------------------------------------
(* No process begins to wait: there are no more waiting ones than before.  *)
LEMMA FewWaiters ==
    ASSUME TypeOK,
           \A p \in Procs : why'[p] \in {"restart", "wait"} => why[p] \in {"restart", "wait"}
    PROVE  Cardinality(Waiters') <= MaxWaiters
<1>1. IsFiniteSet(Waiters) /\ Cardinality(Waiters) <= MaxWaiters
  BY AppAssumption, FS_Subset DEF Waiters, TypeOK
<1>2. Waiters' \subseteq Waiters
  BY DEF Waiters
<1>3. IsFiniteSet(Waiters') /\ Cardinality(Waiters') <= Cardinality(Waiters)
  BY <1>1, <1>2, FS_Subset
<1>4. QED
  BY <1>1, <1>3, FS_CardinalityType, AppAssumption

(* One process begins to wait where there was room for one.                *)
LEMMA OneMoreWaiter ==
    ASSUME TypeOK, Cardinality(Waiters) < MaxWaiters, NEW q \in Procs,
           \A p \in Procs \ {q} :
              why'[p] \in {"restart", "wait"} => why[p] \in {"restart", "wait"}
    PROVE  Cardinality(Waiters') <= MaxWaiters
<1>1. IsFiniteSet(Waiters)
  BY AppAssumption, FS_Subset DEF Waiters
<1>2. /\ IsFiniteSet(Waiters \union {q})
      /\ Cardinality(Waiters \union {q}) <= Cardinality(Waiters) + 1
  <2>1. Cardinality(Waiters) \in Nat
    BY <1>1, FS_CardinalityType
  <2>2. /\ IsFiniteSet(Waiters \union {q})
        /\ \/ Cardinality(Waiters \union {q}) = Cardinality(Waiters)
           \/ Cardinality(Waiters \union {q}) = Cardinality(Waiters) + 1
    BY <1>1, FS_AddElement
  <2>3. QED
    BY <2>1, <2>2
<1>3. Waiters' \subseteq Waiters \union {q}
  BY DEF Waiters
<1>4. IsFiniteSet(Waiters') /\ Cardinality(Waiters') <= Cardinality(Waiters \union {q})
  BY <1>2, <1>3, FS_Subset
<1>5. QED
  BY <1>1, <1>2, <1>4, FS_CardinalityType, AppAssumption

(* A service is not Nobody, nor Abandoned, nor another process.            *)
LEMMA Distinct ==
    Nobody \notin Services /\ Abandoned \notin Services /\ \A p \in Procs : p \notin Services
  BY AppAssumption

(* Whoever has the events open has a handle of the mutex of the service,   *)
(* so events that are left over keep a new service from starting.          *)
LEMMA EventsNeedMutex ==
    ASSUME TypeOK, ServicesHold, TraysHold PROVE events \subseteq mutex
  BY DEF TypeOK, ServicesHold, TraysHold

------------------------------------------------------------------------------
(* A step of a process of the service, and of another process.              *)

(* A process of the service opens its objects in one order and closes them *)
(* in the other, and the engine lives in between.                          *)
LEMMA ServiceStepPreserves ==
    ASSUME IInv, NEW i \in Services, ServiceStep(i), UNCHANGED disturbed PROVE IInv'
<1>1. TypeOK /\ ServicesHold /\ TraysHold /\ OneCreator /\ NoStaleStop
  BY DEF IInv
<1>2. CASE CreateServiceInfoFileMapping(i)
  <2>1. TypeOK'
    BY <1>1, <1>2, FewWaiters DEF CreateServiceInfoFileMapping, SvcInitFails, Goes,
       scmVars, svcVars, objects, procVars, TypeOK, SvcSteps, ScmStates
  <2>2. ServicesHold'
    BY <1>1, <1>2 DEF CreateServiceInfoFileMapping, SvcInitFails, Goes, scmVars,
       svcVars, objects, procVars, ServicesHold, TypeOK
  <2>3. TraysHold'
    BY <1>1, <1>2 DEF CreateServiceInfoFileMapping, SvcInitFails, Goes, scmVars,
       svcVars, objects, procVars, TraysHold, TypeOK
  <2>4. OneCreator'
    BY <1>1, <1>2 DEF CreateServiceInfoFileMapping, SvcInitFails, Goes, scmVars,
       svcVars, objects, procVars, OneCreator
  <2>5. NoStaleStop'
    BY <1>1, <1>2 DEF CreateServiceInfoFileMapping, SvcInitFails, Goes, scmVars,
       svcVars, objects, procVars, NoStaleStop, TypeOK
  <2>6. QED
    BY <2>1, <2>2, <2>3, <2>4, <2>5 DEF IInv
<1>3. CASE CreateServiceMutex(i)
  <2>1. TypeOK'
    BY <1>1, <1>3, FewWaiters DEF CreateServiceMutex, SvcInitFails, Goes, Exists,
       scmVars, svcVars, objects, procVars, TypeOK, SvcSteps, ScmStates
  <2>2. ServicesHold'
    BY <1>1, <1>3 DEF CreateServiceMutex, SvcInitFails, Goes, Exists, scmVars, svcVars,
       objects, procVars, ServicesHold, TypeOK
  <2>3. TraysHold'
    BY <1>1, <1>3 DEF CreateServiceMutex, SvcInitFails, Goes, Exists, scmVars, svcVars,
       objects, procVars, TraysHold, TypeOK
  <2>4. OneCreator'
    BY <1>1, <1>3 DEF CreateServiceMutex, SvcInitFails, Goes, Exists, scmVars, svcVars,
       objects, procVars, OneCreator
  <2>5. NoStaleStop'
    BY <1>1, <1>3, EventsNeedMutex DEF CreateServiceMutex, SvcInitFails, Goes, Exists,
       scmVars, svcVars, objects, procVars, NoStaleStop, TypeOK
  <2>6. QED
    BY <2>1, <2>2, <2>3, <2>4, <2>5 DEF IInv
<1>4. CASE CreateEvents(i)
  <2>1. TypeOK'
    BY <1>1, <1>4, FewWaiters DEF CreateEvents, Goes, scmVars, svcVars, objects,
       procVars, TypeOK, SvcSteps, ScmStates
  <2>2. ServicesHold'
    BY <1>1, <1>4 DEF CreateEvents, Goes, scmVars, svcVars, objects, procVars,
       ServicesHold, TypeOK
  <2>3. TraysHold'
    BY <1>1, <1>4, Distinct DEF CreateEvents, Goes, scmVars, svcVars, objects, procVars,
       TraysHold, TypeOK
  <2>4. OneCreator'
    BY <1>1, <1>4 DEF CreateEvents, Goes, scmVars, svcVars, objects, procVars,
       OneCreator
  <2>5. NoStaleStop'
    BY <1>1, <1>4 DEF CreateEvents, Goes, scmVars, svcVars, objects, procVars,
       NoStaleStop, ServicesHold, OneCreator, TypeOK
  <2>6. QED
    BY <2>1, <2>2, <2>3, <2>4, <2>5 DEF IInv
<1>5. CASE StartEngine(i)
  <2>1. TypeOK'
    BY <1>1, <1>5, FewWaiters DEF StartEngine, Goes, scmVars, svcVars, objects,
       procVars, TypeOK, SvcSteps, ScmStates
  <2>2. ServicesHold'
    BY <1>1, <1>5 DEF StartEngine, Goes, scmVars, svcVars, objects, procVars,
       ServicesHold, TypeOK
  <2>3. TraysHold'
    BY <1>1, <1>5 DEF StartEngine, Goes, scmVars, svcVars, objects, procVars, TraysHold,
       TypeOK
  <2>4. OneCreator'
    BY <1>1, <1>5 DEF StartEngine, Goes, scmVars, svcVars, objects, procVars, OneCreator
  <2>5. NoStaleStop'
    BY <1>1, <1>5 DEF StartEngine, Goes, scmVars, svcVars, objects, procVars,
       NoStaleStop, TypeOK
  <2>6. QED
    BY <2>1, <2>2, <2>3, <2>4, <2>5 DEF IInv
<1>6. CASE CreateProcessOnAllSessions(i)
  <2>1. TypeOK'
    BY <1>1, <1>6, FewWaiters DEF CreateProcessOnAllSessions, Goes, LaunchTray, scmVars,
       svcVars, objects, procVars, TypeOK, SvcSteps, ScmStates, ProcSteps
  <2>2. ServicesHold'
    BY <1>1, <1>6 DEF CreateProcessOnAllSessions, Goes, LaunchTray, scmVars, svcVars,
       objects, procVars, ServicesHold, TypeOK
  <2>3. TraysHold'
    BY <1>1, <1>6 DEF CreateProcessOnAllSessions, Goes, LaunchTray, scmVars, svcVars,
       objects, procVars, TraysHold, TypeOK
  <2>4. OneCreator'
    BY <1>1, <1>6 DEF CreateProcessOnAllSessions, Goes, LaunchTray, scmVars, svcVars,
       objects, procVars, OneCreator
  <2>5. NoStaleStop'
    BY <1>1, <1>6 DEF CreateProcessOnAllSessions, Goes, LaunchTray, scmVars, svcVars,
       objects, procVars, NoStaleStop, TypeOK
  <2>6. QED
    BY <2>1, <2>2, <2>3, <2>4, <2>5 DEF IInv
<1>7. CASE SvcRun(i)
  <2>1. TypeOK'
    BY <1>1, <1>7, FewWaiters DEF SvcRun, Goes, scmVars, svcVars, objects, procVars,
       TypeOK, SvcSteps, ScmStates
  <2>2. ServicesHold'
    BY <1>1, <1>7 DEF SvcRun, Goes, scmVars, svcVars, objects, procVars, ServicesHold,
       TypeOK
  <2>3. TraysHold'
    BY <1>1, <1>7 DEF SvcRun, Goes, scmVars, svcVars, objects, procVars, TraysHold,
       TypeOK
  <2>4. OneCreator'
    BY <1>1, <1>7 DEF SvcRun, Goes, scmVars, svcVars, objects, procVars, OneCreator
  <2>5. NoStaleStop'
    BY <1>1, <1>7 DEF SvcRun, Goes, scmVars, svcVars, objects, procVars, NoStaleStop,
       TypeOK
  <2>6. QED
    BY <2>1, <2>2, <2>3, <2>4, <2>5 DEF IInv
<1>8. CASE ReportStopped(i)
  <2>1. TypeOK'
    BY <1>1, <1>8, FewWaiters DEF ReportStopped, Goes, scmVars, svcVars, objects,
       procVars, TypeOK, SvcSteps, ScmStates
  <2>2. ServicesHold'
    BY <1>1, <1>8 DEF ReportStopped, Goes, scmVars, svcVars, objects, procVars,
       ServicesHold, TypeOK
  <2>3. TraysHold'
    BY <1>1, <1>8 DEF ReportStopped, Goes, scmVars, svcVars, objects, procVars,
       TraysHold, TypeOK
  <2>4. OneCreator'
    BY <1>1, <1>8 DEF ReportStopped, Goes, scmVars, svcVars, objects, procVars,
       OneCreator
  <2>5. NoStaleStop'
    BY <1>1, <1>8 DEF ReportStopped, Goes, scmVars, svcVars, objects, procVars,
       NoStaleStop, TypeOK
  <2>6. QED
    BY <2>1, <2>2, <2>3, <2>4, <2>5 DEF IInv
<1>9. CASE DropEngine(i)
  <2>1. TypeOK'
    BY <1>1, <1>9, FewWaiters DEF DropEngine, Goes, scmVars, svcVars, objects, procVars,
       TypeOK, SvcSteps, ScmStates
  <2>2. ServicesHold'
    BY <1>1, <1>9 DEF DropEngine, Goes, scmVars, svcVars, objects, procVars,
       ServicesHold, TypeOK
  <2>3. TraysHold'
    BY <1>1, <1>9 DEF DropEngine, Goes, scmVars, svcVars, objects, procVars, TraysHold,
       TypeOK
  <2>4. OneCreator'
    BY <1>1, <1>9 DEF DropEngine, Goes, scmVars, svcVars, objects, procVars, OneCreator
  <2>5. NoStaleStop'
    BY <1>1, <1>9 DEF DropEngine, Goes, scmVars, svcVars, objects, procVars,
       NoStaleStop, TypeOK
  <2>6. QED
    BY <2>1, <2>2, <2>3, <2>4, <2>5 DEF IInv
<1>10. CASE DropEvents(i)
  <2>1. TypeOK'
    BY <1>1, <1>10, FewWaiters DEF DropEvents, Goes, CloseEvents, Exists, scmVars,
       svcVars, objects, procVars, TypeOK, SvcSteps, ScmStates
  <2>2. ServicesHold'
    BY <1>1, <1>10 DEF DropEvents, Goes, CloseEvents, Exists, scmVars, svcVars, objects,
       procVars, ServicesHold, TypeOK
  <2>3. TraysHold'
    BY <1>1, <1>10 DEF DropEvents, Goes, CloseEvents, Exists, scmVars, svcVars, objects,
       procVars, TraysHold, TypeOK
  <2>4. OneCreator'
    BY <1>1, <1>10 DEF DropEvents, Goes, CloseEvents, Exists, scmVars, svcVars, objects,
       procVars, OneCreator
  <2>5. NoStaleStop'
    BY <1>1, <1>10 DEF DropEvents, Goes, CloseEvents, Exists, scmVars, svcVars, objects,
       procVars, NoStaleStop, TypeOK
  <2>6. QED
    BY <2>1, <2>2, <2>3, <2>4, <2>5 DEF IInv
<1>11. CASE DropMutex(i)
  <2>1. TypeOK'
    BY <1>1, <1>11, Distinct, FewWaiters DEF DropMutex, Goes, scmVars, svcVars, objects,
       procVars, TypeOK, SvcSteps, ScmStates
  <2>2. ServicesHold'
    BY <1>1, <1>11 DEF DropMutex, Goes, scmVars, svcVars, objects, procVars,
       ServicesHold, TypeOK
  <2>3. TraysHold'
    BY <1>1, <1>11, Distinct DEF DropMutex, Goes, scmVars, svcVars, objects, procVars,
       TraysHold, TypeOK
  <2>4. OneCreator'
    BY <1>1, <1>11 DEF DropMutex, Goes, scmVars, svcVars, objects, procVars, OneCreator
  <2>5. NoStaleStop'
    BY <1>1, <1>11 DEF DropMutex, Goes, scmVars, svcVars, objects, procVars,
       NoStaleStop, TypeOK
  <2>6. QED
    BY <2>1, <2>2, <2>3, <2>4, <2>5 DEF IInv
<1>12. CASE DropMapping(i)
  <2>1. TypeOK'
    BY <1>1, <1>12, FewWaiters DEF DropMapping, Goes, Ends, scmVars, svcVars, objects,
       procVars, TypeOK, SvcSteps, ScmStates
  <2>2. ServicesHold'
    BY <1>1, <1>12 DEF DropMapping, Goes, Ends, scmVars, svcVars, objects, procVars,
       ServicesHold, TypeOK
  <2>3. TraysHold'
    BY <1>1, <1>12 DEF DropMapping, Goes, Ends, scmVars, svcVars, objects, procVars,
       TraysHold, TypeOK
  <2>4. OneCreator'
    BY <1>1, <1>12 DEF DropMapping, Goes, Ends, scmVars, svcVars, objects, procVars,
       OneCreator
  <2>5. NoStaleStop'
    BY <1>1, <1>12 DEF DropMapping, Goes, Ends, scmVars, svcVars, objects, procVars,
       NoStaleStop, TypeOK
  <2>6. QED
    BY <2>1, <2>2, <2>3, <2>4, <2>5 DEF IInv
<1>13. QED
  BY <1>2, <1>3, <1>4, <1>5, <1>6, <1>7, <1>8, <1>9, <1>10, <1>11, <1>12 DEF ServiceStep

(* A tray has the mutex as long as it has an event, and drops both with    *)
(* its window.                                                             *)
LEMMA ProcStepPreserves ==
    ASSUME IInv, NEW p \in Procs, ProcStep(p), UNCHANGED disturbed PROVE IInv'
<1>1. TypeOK /\ ServicesHold /\ TraysHold /\ OneCreator /\ NoStaleStop
  BY DEF IInv
<1>2. CASE ServiceStop(p)
  <2>1. TypeOK'
    BY <1>1, <1>2, FewWaiters DEF ServiceStop, ControlStop, Stoppable, Steps, ProcEnds,
       Ends, scmVars, svcVars, objects, procVars, TypeOK, ProcSteps, Whys, ScmStates,
       SvcSteps
  <2>2. ServicesHold'
    BY <1>1, <1>2 DEF ServiceStop, ControlStop, Stoppable, Steps, ProcEnds, Ends,
       scmVars, svcVars, objects, procVars, ServicesHold, TypeOK
  <2>3. TraysHold'
    BY <1>1, <1>2 DEF ServiceStop, ControlStop, Stoppable, Steps, ProcEnds, Ends,
       scmVars, svcVars, objects, procVars, TraysHold, TypeOK
  <2>4. OneCreator'
    BY <1>1, <1>2 DEF ServiceStop, ControlStop, Stoppable, Steps, ProcEnds, Ends,
       scmVars, svcVars, objects, procVars, OneCreator
  <2>5. NoStaleStop'
    BY <1>1, <1>2 DEF ServiceStop, ControlStop, Stoppable, Steps, ProcEnds, Ends,
       scmVars, svcVars, objects, procVars, NoStaleStop, TypeOK
  <2>6. QED
    BY <2>1, <2>2, <2>3, <2>4, <2>5 DEF IInv
<1>3. CASE Snapshot(p)
  <2>1. TypeOK'
    BY <1>1, <1>3, FewWaiters DEF Snapshot, Steps, scmVars, svcVars, objects, procVars,
       TypeOK, ProcSteps, Whys, ScmStates, SvcSteps
  <2>2. TraysHold'
    BY <1>1, <1>3 DEF Snapshot, Steps, scmVars, svcVars, objects, procVars, TraysHold,
       TypeOK
  <2>3. ServicesHold' /\ OneCreator' /\ NoStaleStop'
    BY <1>1, <1>3 DEF Snapshot, ServicesHold, OneCreator, NoStaleStop, Exists, svcVars,
       objects
  <2>4. QED
    BY <2>1, <2>2, <2>3 DEF IInv
<1>4. CASE AllTerminated(p)
  <2>1. TypeOK'
    BY <1>1, <1>4, FewWaiters DEF AllTerminated, Terminated, Steps, scmVars, svcVars,
       objects, procVars, TypeOK, ProcSteps, Whys, ScmStates, SvcSteps
  <2>2. TraysHold'
    BY <1>1, <1>4 DEF AllTerminated, Terminated, Steps, scmVars, svcVars, objects,
       procVars, TraysHold, TypeOK
  <2>3. ServicesHold' /\ OneCreator' /\ NoStaleStop'
    BY <1>1, <1>4 DEF AllTerminated, ServicesHold, OneCreator, NoStaleStop, Exists,
       svcVars, objects
  <2>4. QED
    BY <2>1, <2>2, <2>3 DEF IInv
<1>5. CASE ServiceStart(p)
  <2>1. TypeOK'
    BY <1>1, <1>5, FewWaiters DEF ServiceStart, StartService, ProcEnds, Ends, Steps,
       scmVars, svcVars, objects, procVars, TypeOK, ProcSteps, Whys, ScmStates, SvcSteps
  <2>2. ServicesHold'
    BY <1>1, <1>5 DEF ServiceStart, StartService, ProcEnds, Ends, Steps, scmVars,
       svcVars, objects, procVars, ServicesHold, TypeOK
  <2>3. TraysHold'
    BY <1>1, <1>5 DEF ServiceStart, StartService, ProcEnds, Ends, Steps, scmVars,
       svcVars, objects, procVars, TraysHold, TypeOK
  <2>4. OneCreator'
    BY <1>1, <1>5 DEF ServiceStart, StartService, ProcEnds, Ends, Steps, scmVars,
       svcVars, objects, procVars, OneCreator
  <2>5. NoStaleStop'
    BY <1>1, <1>5 DEF ServiceStart, StartService, ProcEnds, Ends, Steps, scmVars,
       svcVars, objects, procVars, NoStaleStop, TypeOK
  <2>6. QED
    BY <2>1, <2>2, <2>3, <2>4, <2>5 DEF IInv
<1>6. CASE IsRunning(p)
  <2>1. TypeOK'
    BY <1>1, <1>6, FewWaiters DEF IsRunning, Steps, scmVars, svcVars, objects, procVars,
       TypeOK, ProcSteps, Whys, ScmStates, SvcSteps
  <2>2. TraysHold'
    BY <1>1, <1>6 DEF IsRunning, Steps, scmVars, svcVars, objects, procVars, TraysHold,
       TypeOK
  <2>3. ServicesHold' /\ OneCreator' /\ NoStaleStop'
    BY <1>1, <1>6 DEF IsRunning, ServicesHold, OneCreator, NoStaleStop, Exists, svcVars,
       objects
  <2>4. QED
    BY <2>1, <2>2, <2>3 DEF IInv
<1>7. CASE CreateDaemonMutex(p)
  <2>1. TypeOK'
    BY <1>1, <1>7, FewWaiters DEF CreateDaemonMutex, ProcEnds, Ends, Steps, scmVars,
       svcVars, objects, procVars, TypeOK, ProcSteps, Whys, ScmStates, SvcSteps
  <2>2. TraysHold'
    BY <1>1, <1>7 DEF CreateDaemonMutex, ProcEnds, Ends, Steps, scmVars, svcVars,
       objects, procVars, TraysHold, TypeOK
  <2>3. ServicesHold' /\ OneCreator' /\ NoStaleStop'
    BY <1>1, <1>7 DEF CreateDaemonMutex, ServicesHold, OneCreator, NoStaleStop, Exists,
       svcVars, objects
  <2>4. QED
    BY <2>1, <2>2, <2>3 DEF IInv
<1>8. CASE OpenServiceMutex(p)
  <2>1. TypeOK'
    BY <1>1, <1>8, FewWaiters DEF OpenServiceMutex, Exists, Steps, scmVars, svcVars,
       objects, procVars, TypeOK, ProcSteps, Whys, ScmStates, SvcSteps
  <2>2. ServicesHold'
    BY <1>1, <1>8 DEF OpenServiceMutex, Exists, Steps, scmVars, svcVars, objects,
       procVars, ServicesHold, TypeOK
  <2>3. TraysHold'
    BY <1>1, <1>8 DEF OpenServiceMutex, Exists, Steps, scmVars, svcVars, objects,
       procVars, TraysHold, TypeOK
  <2>4. OneCreator'
    BY <1>1, <1>8, Distinct DEF OpenServiceMutex, Exists, Steps, scmVars, svcVars,
       objects, procVars, OneCreator
  <2>5. NoStaleStop'
    BY <1>1, <1>8 DEF OpenServiceMutex, Exists, Steps, scmVars, svcVars, objects,
       procVars, NoStaleStop, TypeOK
  <2>6. QED
    BY <2>1, <2>2, <2>3, <2>4, <2>5 DEF IInv
<1>9. CASE OpenServiceInfo(p)
  <2>1. TypeOK'
    BY <1>1, <1>9, FewWaiters DEF OpenServiceInfo, Steps, scmVars, svcVars, objects,
       procVars, TypeOK, ProcSteps, Whys, ScmStates, SvcSteps
  <2>2. TraysHold'
    BY <1>1, <1>9 DEF OpenServiceInfo, Steps, scmVars, svcVars, objects, procVars,
       TraysHold, TypeOK
  <2>3. ServicesHold' /\ OneCreator' /\ NoStaleStop'
    BY <1>1, <1>9 DEF OpenServiceInfo, ServicesHold, OneCreator, NoStaleStop, Exists,
       svcVars, objects
  <2>4. QED
    BY <2>1, <2>2, <2>3 DEF IInv
<1>10. CASE OnIdle(p)
  <2>1. TypeOK'
    BY <1>1, <1>10, Distinct, FewWaiters DEF OnIdle, Exit, Steps, scmVars, svcVars,
       objects, procVars, TypeOK, ProcSteps, Whys, ScmStates, SvcSteps
  <2>2. ServicesHold'
    BY <1>1, <1>10 DEF OnIdle, Exit, Steps, scmVars, svcVars, objects, procVars,
       ServicesHold, TypeOK
  <2>3. TraysHold'
    BY <1>1, <1>10 DEF OnIdle, Exit, Steps, scmVars, svcVars, objects, procVars,
       TraysHold, TypeOK
  <2>4. OneCreator'
    BY <1>1, <1>10 DEF OnIdle, Exit, Steps, scmVars, svcVars, objects, procVars,
       OneCreator
  <2>5. NoStaleStop'
    BY <1>1, <1>10 DEF OnIdle, Exit, Steps, scmVars, svcVars, objects, procVars,
       NoStaleStop, TypeOK
  <2>6. QED
    BY <2>1, <2>2, <2>3, <2>4, <2>5 DEF IInv
<1>11. CASE CloseDialog(p)
  <2>1. TypeOK'
    BY <1>1, <1>11, FewWaiters DEF CloseDialog, Steps, scmVars, svcVars, objects,
       procVars, TypeOK, ProcSteps, Whys, ScmStates, SvcSteps
  <2>2. TraysHold'
    BY <1>1, <1>11 DEF CloseDialog, Steps, scmVars, svcVars, objects, procVars,
       TraysHold, TypeOK
  <2>3. ServicesHold' /\ OneCreator' /\ NoStaleStop'
    BY <1>1, <1>11 DEF CloseDialog, ServicesHold, OneCreator, NoStaleStop, Exists,
       svcVars, objects
  <2>4. QED
    BY <2>1, <2>2, <2>3 DEF IInv
<1>12. CASE OpenEvent(p)
  <2>1. TypeOK'
    BY <1>1, <1>12, FewWaiters DEF OpenEvent, Exists, Sent, Steps, scmVars, svcVars,
       objects, procVars, TypeOK, ProcSteps, Whys, ScmStates, SvcSteps
  <2>2. ServicesHold'
    BY <1>1, <1>12, Distinct DEF OpenEvent, Exists, Sent, Steps, scmVars, svcVars,
       objects, procVars, ServicesHold, TypeOK
  <2>3. TraysHold'
    BY <1>1, <1>12 DEF OpenEvent, Exists, Sent, Steps, scmVars, svcVars, objects,
       procVars, TraysHold, TypeOK
  <2>4. OneCreator'
    BY <1>1, <1>12 DEF OpenEvent, Exists, Sent, Steps, scmVars, svcVars, objects,
       procVars, OneCreator
  <2>5. NoStaleStop'
    BY <1>1, <1>12 DEF OpenEvent, Exists, Sent, Steps, scmVars, svcVars, objects,
       procVars, NoStaleStop, TypeOK
  <2>6. QED
    BY <2>1, <2>2, <2>3, <2>4, <2>5 DEF IInv
<1>13. CASE SetEvent(p)
  <2>1. TypeOK'
    BY <1>1, <1>13, FewWaiters DEF SetEvent, Steps, scmVars, svcVars, objects, procVars,
       TypeOK, ProcSteps, Whys, ScmStates, SvcSteps, TraysHold
  <2>2. ServicesHold'
    BY <1>1, <1>13 DEF SetEvent, Steps, scmVars, svcVars, objects, procVars,
       ServicesHold, TypeOK
  <2>3. TraysHold'
    BY <1>1, <1>13 DEF SetEvent, Steps, scmVars, svcVars, objects, procVars, TraysHold,
       TypeOK
  <2>4. OneCreator'
    BY <1>1, <1>13 DEF SetEvent, Steps, scmVars, svcVars, objects, procVars, OneCreator
  <2>5. NoStaleStop'
    BY <1>1, <1>13 DEF SetEvent, Steps, scmVars, svcVars, objects, procVars,
       NoStaleStop, TypeOK
  <2>6. QED
    BY <2>1, <2>2, <2>3, <2>4, <2>5 DEF IInv
<1>14. CASE CloseEvent(p)
  <2>1. TypeOK'
    BY <1>1, <1>14, FewWaiters DEF CloseEvent, Sent, Steps, CloseEvents, Exists,
       scmVars, svcVars, objects, procVars, TypeOK, ProcSteps, Whys, ScmStates, SvcSteps
  <2>2. ServicesHold'
    BY <1>1, <1>14 DEF CloseEvent, Sent, Steps, CloseEvents, Exists, scmVars, svcVars,
       objects, procVars, ServicesHold, TypeOK
  <2>3. TraysHold'
    BY <1>1, <1>14 DEF CloseEvent, Sent, Steps, CloseEvents, Exists, scmVars, svcVars,
       objects, procVars, TraysHold, TypeOK
  <2>4. OneCreator'
    BY <1>1, <1>14 DEF CloseEvent, Sent, Steps, CloseEvents, Exists, scmVars, svcVars,
       objects, procVars, OneCreator
  <2>5. NoStaleStop'
    BY <1>1, <1>14 DEF CloseEvent, Sent, Steps, CloseEvents, Exists, scmVars, svcVars,
       objects, procVars, NoStaleStop, TypeOK
  <2>6. QED
    BY <2>1, <2>2, <2>3, <2>4, <2>5 DEF IInv
<1>15. CASE RunAsAdmin(p)
  <2>1. TypeOK'
    BY <1>1, <1>15, FewWaiters DEF RunAsAdmin, Ends, Steps, scmVars, svcVars, objects,
       procVars, TypeOK, ProcSteps, Whys, ScmStates, SvcSteps
  <2>2. TraysHold'
    BY <1>1, <1>15 DEF RunAsAdmin, Steps, scmVars, svcVars, objects, procVars,
       TraysHold, TypeOK
  <2>3. ServicesHold' /\ OneCreator' /\ NoStaleStop'
    BY <1>1, <1>15 DEF RunAsAdmin, ServicesHold, OneCreator, NoStaleStop, Exists,
       svcVars, objects
  <2>4. QED
    BY <2>1, <2>2, <2>3 DEF IInv
<1>16. CASE DestroyWindow(p)
  <2>1. TypeOK'
    BY <1>1, <1>16, Distinct, FewWaiters DEF DestroyWindow, Steps, CloseMutex, Exists,
       scmVars, svcVars, objects, procVars, TypeOK, ProcSteps, Whys, ScmStates, SvcSteps
  <2>2. ServicesHold'
    BY <1>1, <1>16, Distinct DEF DestroyWindow, Steps, CloseMutex, Exists, scmVars,
       svcVars, objects, procVars, ServicesHold, TypeOK
  <2>3. TraysHold'
    BY <1>1, <1>16 DEF DestroyWindow, Steps, CloseMutex, Exists, scmVars, svcVars,
       objects, procVars, TraysHold, TypeOK
  <2>4. OneCreator'
    BY <1>1, <1>16 DEF DestroyWindow, Steps, CloseMutex, Exists, scmVars, svcVars,
       objects, procVars, OneCreator
  <2>5. NoStaleStop'
    BY <1>1, <1>16 DEF DestroyWindow, Steps, CloseMutex, Exists, scmVars, svcVars,
       objects, procVars, NoStaleStop, TypeOK
  <2>6. QED
    BY <2>1, <2>2, <2>3, <2>4, <2>5 DEF IInv
<1>17. CASE EndDaemon(p)
  <2>1. TypeOK'
    BY <1>1, <1>17, Distinct, FewWaiters DEF EndDaemon, ProcEnds, Ends, Steps, scmVars,
       svcVars, objects, procVars, TypeOK, ProcSteps, Whys, ScmStates, SvcSteps
  <2>2. ServicesHold'
    BY <1>1, <1>17 DEF EndDaemon, ProcEnds, Ends, Steps, scmVars, svcVars, objects,
       procVars, ServicesHold, TypeOK
  <2>3. TraysHold'
    BY <1>1, <1>17 DEF EndDaemon, ProcEnds, Ends, Steps, scmVars, svcVars, objects,
       procVars, TraysHold, TypeOK
  <2>4. OneCreator'
    BY <1>1, <1>17 DEF EndDaemon, ProcEnds, Ends, Steps, scmVars, svcVars, objects,
       procVars, OneCreator
  <2>5. NoStaleStop'
    BY <1>1, <1>17 DEF EndDaemon, ProcEnds, Ends, Steps, scmVars, svcVars, objects,
       procVars, NoStaleStop, TypeOK
  <2>6. QED
    BY <2>1, <2>2, <2>3, <2>4, <2>5 DEF IInv
<1>18. QED
  BY <1>2, <1>3, <1>4, <1>5, <1>6, <1>7, <1>8, <1>9, <1>10, <1>11, <1>12, <1>13, <1>14,
     <1>15, <1>16, <1>17 DEF ProcStep

(* What users do, or happens to them.                                      *)

(* Commands begin processes and dialogs, a declined elevation ends a process *)
(* that has nothing open yet, and none opens an object.                     *)
LEMMA UserStepPreserves ==
    ASSUME IInv, NEW p \in Procs, UserStep(p) PROVE IInv'
<1>1. TypeOK /\ ServicesHold /\ TraysHold /\ OneCreator /\ NoStaleStop
  BY DEF IInv
<1>2. UNCHANGED <<scmVars, svcVars, objects, safeMode>>
  BY DEF UserStep, Launch, OpenDialog, SwitchToSafeMode, EmergencyStop, DeclineElevation
<1>3. /\ disturbed' \in BOOLEAN /\ why' \in [Procs -> Whys] /\ proc' \in [Procs -> ProcSteps]
      /\ Cardinality(Waiters') <= MaxWaiters
  <2>1. CASE \E what \in {"run", "stop", "restart"} : Launch(p, what)
    <3>1. PICK what \in {"run", "stop", "restart"} : Launch(p, what)
      BY <2>1
    <3>2. disturbed' \in BOOLEAN /\ why' \in [Procs -> Whys] /\ proc' \in [Procs -> ProcSteps]
      BY <1>1, <3>1 DEF Launch, Steps, TypeOK, Whys, ProcSteps
    <3>3. CASE what = "restart"
      BY <1>1, <3>1, <3>2, <3>3, OneMoreWaiter DEF Launch, TypeOK
    <3>4. CASE what # "restart"
      BY <1>1, <3>1, <3>2, <3>4, FewWaiters DEF Launch, TypeOK
    <3>5. QED
      BY <3>2, <3>3, <3>4
  <2>2. CASE OpenDialog(p) \/ EmergencyStop(p)
    BY <1>1, <2>2, FewWaiters DEF OpenDialog, EmergencyStop, Steps, TypeOK, Whys, ProcSteps
  <2>3. CASE SwitchToSafeMode(p)
    <3>1. PICK q \in Procs :
             /\ proc[p] = "loop" /\ proc[q] = "none" /\ Cardinality(Waiters) < MaxWaiters
             /\ proc' = [proc EXCEPT ![p] = "event", ![q] = "snapshot"]
             /\ why' = [why EXCEPT ![p] = "safe", ![q] = "wait"]
      BY <2>3 DEF SwitchToSafeMode
    <3>2. disturbed' \in BOOLEAN /\ why' \in [Procs -> Whys] /\ proc' \in [Procs -> ProcSteps]
      BY <1>1, <2>3, <3>1 DEF SwitchToSafeMode, TypeOK, Whys, ProcSteps
    <3>3. \A r \in Procs \ {q} :
             why'[r] \in {"restart", "wait"} => why[r] \in {"restart", "wait"}
      BY <1>1, <3>1 DEF TypeOK
    <3>4. QED
      BY <1>1, <3>1, <3>2, <3>3, OneMoreWaiter
  <2>4. CASE DeclineElevation(p)
    BY <1>1, <2>4, FewWaiters DEF DeclineElevation, ProcEnds, Ends, Steps, TypeOK, Whys,
       ProcSteps
  <2>5. QED
    BY <2>1, <2>2, <2>3, <2>4 DEF UserStep
<1>4. waitsFor' \in [Procs -> SUBSET (Services \union Procs)]
  BY <1>1 DEF UserStep, Launch, OpenDialog, SwitchToSafeMode, EmergencyStop,
     DeclineElevation, ProcEnds, Ends, TypeOK
<1>5. \A q \in Procs :
         \/ proc'[q] = proc[q] /\ why'[q] = why[q]
         \/ proc[q] \in {"none", "query", "stop", "snapshot"}
               /\ proc'[q] \in {"query", "stop", "snapshot"}
         \/ proc[q] = "prompt" /\ proc'[q] = "none"
         \/ proc[q] = "loop" /\ proc'[q] = "modal"
         \/ /\ proc[q] \in {"loop", "modal"} /\ proc'[q] = "event"
            /\ why'[q] \in {"emergency", "safe"}
  BY <1>1 DEF UserStep, Launch, OpenDialog, SwitchToSafeMode, EmergencyStop,
     DeclineElevation, ProcEnds, Steps, TypeOK
<1>6. TypeOK'
  BY <1>1, <1>2, <1>3, <1>4 DEF TypeOK, scmVars, svcVars, objects
<1>7. TraysHold'
  BY <1>1, <1>2, <1>5 DEF TraysHold, objects
<1>8. ServicesHold' /\ OneCreator' /\ NoStaleStop'
  BY <1>1, <1>2 DEF ServicesHold, OneCreator, NoStaleStop, Exists, svcVars, objects
<1>9. QED
  BY <1>6, <1>7, <1>8 DEF IInv

(* A service that is killed loses all of its handles at once.              *)
LEMMA KillPreserves ==
    ASSUME IInv, NEW i \in Services, Kill(i) PROVE IInv'
<1>1. TypeOK /\ ServicesHold /\ TraysHold /\ OneCreator /\ NoStaleStop
  BY DEF IInv
<1>2. /\ mutex' = mutex \ {i} /\ engine' = engine \ {i} /\ events' = events \ {i}
      /\ UNCHANGED <<cur, safeMode, proc, why>> /\ mapping' = mapping \ {i}
      /\ stopEvent' = stopEvent \ {i} /\ disturbed' = TRUE
      /\ svc' = [svc EXCEPT ![i] = "none"]
  BY DEF Kill, CloseEvents, Goes
<1>3. /\ owner' \in Services \union Procs \union {Nobody, Abandoned}
      /\ owner' \in Services => owner' \in mutex'
  BY <1>1, <1>2, Distinct DEF Kill, TypeOK
<1>4. /\ scm' \in ScmStates /\ signaled' \subseteq {"emergency", "safe"}
      /\ waitsFor' \in [Procs -> SUBSET (Services \union Procs)]
  BY <1>1 DEF Kill, CloseEvents, Ends, TypeOK, ScmStates
<1>5. svc' \in [Services -> SvcSteps]
  BY <1>1, <1>2 DEF TypeOK, SvcSteps
<1>6. Cardinality(Waiters') <= MaxWaiters
  BY <1>1, <1>2, FewWaiters
<1>7. TypeOK'
  BY <1>1, <1>2, <1>3, <1>4, <1>5, <1>6 DEF TypeOK
<1>8. TraysHold'
  BY <1>1, <1>2, Distinct DEF TraysHold
<1>9. \A j \in Services : svc'[j] = IF j = i THEN "none" ELSE svc[j]
  BY <1>1, <1>2 DEF TypeOK
<1>10. ServicesHold' /\ OneCreator' /\ NoStaleStop'
  BY <1>1, <1>2, <1>9 DEF ServicesHold, OneCreator, NoStaleStop, Exists
<1>11. QED
  BY <1>7, <1>8, <1>10 DEF IInv

(* A logon begins a tray, which has no handle yet.                         *)
LEMMA LogonPreserves ==
    ASSUME IInv, Logon PROVE IInv'
<1>1. TypeOK /\ ServicesHold /\ TraysHold /\ OneCreator /\ NoStaleStop
  BY DEF IInv
<1>2. UNCHANGED <<scmVars, svcVars, objects, safeMode, why, waitsFor>> /\ disturbed' = TRUE
  BY DEF Logon
<1>3. \/ UNCHANGED proc
      \/ \E p \in Procs : proc[p] = "none" /\ proc' = [proc EXCEPT ![p] = "query"]
  BY DEF Logon, LaunchTray
<1>4. TypeOK'
  BY <1>1, <1>2, <1>3, FewWaiters DEF TypeOK, ProcSteps, scmVars, svcVars, objects
<1>5. TraysHold'
  BY <1>1, <1>2, <1>3 DEF TraysHold, TypeOK, objects
<1>6. ServicesHold' /\ OneCreator' /\ NoStaleStop'
  BY <1>1, <1>2 DEF ServicesHold, OneCreator, NoStaleStop, Exists, svcVars, objects
<1>7. QED
  BY <1>4, <1>5, <1>6 DEF IInv

------------------------------------------------------------------------------
(* The theorems.                                                           *)

(* At first nothing runs.                                                  *)
LEMMA InitIInv == Init => IInv
<1> SUFFICES ASSUME Init PROVE IInv
  OBVIOUS
<1>1. Waiters = {}
  BY DEF Init, Waiters
<1>2. Cardinality(Waiters) <= MaxWaiters
  BY <1>1, FS_EmptySet, AppAssumption
<1>3. TypeOK
  BY <1>2, Distinct DEF Init, TypeOK, ScmStates, SvcSteps, ProcSteps, Whys
<1>4. QED
  BY <1>3 DEF Init, IInv, ServicesHold, TraysHold, OneCreator, NoStaleStop, Exists

(* IInv is inductive: process by process, then the users' steps.           *)
LEMMA NextIInv == IInv /\ [Next]_vars => IInv'
<1> SUFFICES ASSUME IInv, [Next]_vars PROVE IInv'
  OBVIOUS
<1>1. CASE Next
  BY <1>1, ServiceStepPreserves, ProcStepPreserves, UserStepPreserves, KillPreserves,
     LogonPreserves DEF Next
<1>2. CASE UNCHANGED vars
  <2>1. UNCHANGED <<scm, cur, svc, stopEvent, engine, mapping, mutex, owner, events, signaled,
                    safeMode, proc, why, waitsFor, disturbed>>
    BY <1>2 DEF vars, scmVars, svcVars, objects, procVars
  <2>2. TypeOK'
    BY <2>1, FewWaiters DEF IInv, TypeOK
  <2>3. QED
    BY <2>1, <2>2 DEF IInv, ServicesHold, TraysHold, OneCreator, NoStaleStop, Exists
<1>3. QED
  BY <1>1, <1>2

(* The inductive invariant holds in every state.                            *)
THEOREM IInvAlways == Spec => []IInv
  BY InitIInv, NextIInv, PTL DEF Spec

(* Every variable keeps its type, the mutex is owned by a service only as   *)
(* long as the service has a handle of it, and no more processes wait for   *)
(* the others than are launched to.                                        *)
THEOREM TypeCorrect == Spec => []TypeOK
<1>1. IInv => TypeOK
  BY DEF IInv
<1>2. QED
  BY <1>1, IInvAlways, PTL

(* There is at most one engine, however often the service is restarted or   *)
(* killed and however late the destructor of the last one runs              *)
(* (ServiceInstance): its engine is gone before its handle of the mutex.     *)
THEOREM EngineIsUnique == Spec => []OneEngine
<1>1. IInv => OneEngine
  <2> SUFFICES ASSUME IInv PROVE Cardinality(engine) <= 1
    BY DEF OneEngine
  <2>1. \A i, j \in engine : i = j
    BY DEF IInv, TypeOK, ServicesHold, OneCreator
  <2>2. CASE engine = {}
    BY <2>2, FS_EmptySet
  <2>3. CASE engine # {}
    <3>1. PICK i \in engine : engine = {i}
      BY <2>1, <2>3
    <3>2. QED
      BY <3>1, FS_Singleton
  <2>4. QED
    BY <2>2, <2>3
<1>2. QED
  BY <1>1, IInvAlways, PTL

(* A service that is about to create its events finds none that exist: the  *)
(* trays of the last service that could set one have a handle of its mutex, *)
(* and as long as there is one the new service does not get this far.       *)
THEOREM StopsAreFresh == Spec => []NoStaleStop
<1>1. IInv => NoStaleStop
  BY DEF IInv
<1>2. QED
  BY <1>1, IInvAlways, PTL
==============================================================================
