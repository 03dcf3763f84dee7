------------------------ MODULE ProcessInjectionProofs ------------------------
(***************************************************************************)
(* For any set of processes and any faults: the two parties that inject do *)
(* not get into each other's way.  No process is injected twice, none gets  *)
(* a remote thread too early, and a child of a customized process does not  *)
(* run before it has been injected.                                        *)
(*                                                                         *)
(* The invariant is stated process by process: what one process sees of the *)
(* session manager is Place(p), where in InjectIntoNewProcess it is with p,  *)
(* and Passed(p), that it is done with p.  A step of either party is then a *)
(* change of a few values of one process.                                  *)
(***************************************************************************)
EXTENDS ProcessInjection, TLAPS

Visiting == inj \notin {"next", "off"}

(* Where the session manager, alive or killed there, is with p.            *)
Place(p) == IF Visiting /\ p = cur THEN inj ELSE "away"

(* The session manager is done with p.                                      *)
Passed(p) == \E n \in 1..cursor : list[n] = p /\ (n = cursor => inj = "next")

Created(p) == creator[p] # "absent"

(* The list has the processes that were created, each one once.            *)
ListIsCreated ==
    /\ \A n \in 1..Len(list) : Created(list[n])
    /\ \A n, k \in 1..Len(list) : list[n] = list[k] => n = k
    /\ Visiting => cursor >= 1
    /\ alive <=> inj \notin {"off", "killed"}

(* A process exists once somebody creates it, and its main thread runs only *)
(* when its creator has let it go.                                         *)
LifeFollowsCreator(p) ==
    /\ life[p] = "absent" <=> ~Created(p)
    /\ frozen[p] => life[p] = "running"
    /\ life[p] = "running" => creator[p] = "gone"

(* Who has suspended the main thread of p: its creator, the session manager *)
(* (also when it was killed meanwhile), or somebody else.  The suspend      *)
(* count is theirs, so that a thread that is not suspended has been let go. *)
One(condition) == IF condition THEN 1 ELSE 0
CreatorHolds(p) == creator[p] \notin {"absent", "gone"}
InjectorHolds(p) == Place(p) \in Holding \union {"killed"}

SuspendCounts(p) ==
    susp[p] = IF life[p] \in {"starting", "running"}
              THEN One(CreatorHolds(p)) + One(InjectorHolds(p)) + One(frozen[p])
              ELSE 0

(* The session manager comes to open the mutex only for a process that its  *)
(* creator has let go.                                                     *)
LateIsLetGo(p) == Place(p) \in {"open", "remote"} => creator[p] = "gone"

(* Who has a handle of the mutex ...                                       *)
MutexHeld(p) ==
    /\ "creator" \in handles[p] <=> creator[p] \in {"inject", "wait"}
    /\ "injector" \in handles[p] <=> Place(p) \in {"apc", "leave"}
    /\ Place(p) \in {"apc", "leave"} => owner[p] = "injector"

(* ... as long as the process may be injected once more, it tells that it   *)
(* has been ...                                                            *)
InjectedIsMarked(p) ==
    /\ "target" \in handles[p] => made[p] > 0
    /\ made[p] > 0 /\ alive /\ life[p] # "dead"
         => "target" \in handles[p] \/ (creator[p] = "gone" /\ Passed(p))

(* ... so that a party that is about to inject is alone, and first.         *)
FirstToInject(p) ==
    /\ creator[p] = "inject" =>
          (made[p] = 0 \/ life[p] = "dead") /\ Place(p) # "apc"
    /\ Place(p) \in {"apc", "remote"} => made[p] = 0 \/ life[p] = "dead"

(* A creator that lets go of a process, or waits to, knows that the process *)
(* has been injected, or is being injected by the owner of the mutex.       *)
LetGoWhenServed(p) ==
    /\ Place(p) = "leave" => made[p] > 0 \/ failed[p]
    /\ Hooked(p) /\ ~Excluded(p) /\ alive =>
        /\ creator[p] = "wait" => made[p] > 0 \/ failed[p] \/ Place(p) = "apc"
        /\ creator[p] \in {"resume", "held", "gone"} => made[p] > 0 \/ failed[p]

AtMostOnce(p) == made[p] <= 1
NoEarlyThread(p) == "thread" \in pending[p] => creator[p] = "gone"

ProcessInv(p) ==
    /\ LifeFollowsCreator(p)
    /\ SuspendCounts(p)
    /\ LateIsLetGo(p)
    /\ MutexHeld(p)
    /\ InjectedIsMarked(p)
    /\ FirstToInject(p)
    /\ LetGoWhenServed(p)
    /\ AtMostOnce(p)
    /\ NoEarlyThread(p)

(* The inductive invariant.                                                *)
IInv ==
    /\ TypeOK
    /\ ListIsCreated
    /\ \A p \in Procs : ProcessInv(p)

(* The steps of neither party: callers, other programs, ends of processes.  *)
OtherStep(p) ==
    \/ CreateProcess(p) \/ CallerResumes(p)
    \/ Freeze(p) \/ Thaw(p) \/ Die(p)
------------------------------------------------------------------------------
(* Inside InjectIntoNewProcess, and when it is killed there, the session    *)
(* manager is with a process that has been created.                        *)
LEMMA CurIsCreated ==
    ASSUME TypeOK, ListIsCreated, Visiting
    PROVE /\ cur \in Procs /\ Created(cur) /\ cursor \in 1..Len(list)
          /\ Place(cur) = inj /\ ~Passed(cur)
<1>1. cursor \in 1..Len(list)
  BY DEF TypeOK, ListIsCreated
<1>2. cur \in Procs /\ Created(cur)
  BY <1>1 DEF TypeOK, ListIsCreated, cur
<1>3. ~Passed(cur)
  BY <1>1 DEF TypeOK, ListIsCreated, Passed, cur, Visiting
<1>4. QED
  BY <1>1, <1>2, <1>3 DEF Place, Visiting

(* A process whose main thread is not suspended has been let go by its      *)
(* creator, and the session manager does not hold it.                      *)
LEMMA NotSuspended ==
    ASSUME NEW p \in Procs, ProcessInv(p), life[p] \in {"starting", "running"}, susp[p] = 0
    PROVE creator[p] = "gone" /\ ~InjectorHolds(p) /\ ~frozen[p]
  BY DEF ProcessInv, LifeFollowsCreator, Created, SuspendCounts, One, CreatorHolds

(* At most two parties suspend a thread at a time, and only one when the   *)
(* session manager does not: the count stays within its type.              *)
LEMMA SuspendCountIsSmall ==
    ASSUME NEW p \in Procs, ProcessInv(p)
    PROVE /\ susp[p] \in 0..2
          /\ life[p] = "running" /\ ~frozen[p] => susp[p] \in 0..1
          /\ ~InjectorHolds(p) => susp[p] \in 0..1
  BY DEF ProcessInv, LifeFollowsCreator, SuspendCounts, One, CreatorHolds

------------------------------------------------------------------------------
(* Types.                                                                  *)

(* ResumeThread takes one from a count that is not 0.                      *)
LEMMA ResumeThreadType ==
    ASSUME TypeOK, NEW p \in Procs, ResumeThread(p) PROVE susp' \in [Procs -> 0..3]
  BY DEF TypeOK, ResumeThread

(* DllInject leaves a thread or an APC in the process, or fails.           *)
LEMMA DllInjectType ==
    ASSUME TypeOK, NEW p \in Procs, NEW how \in {"apc", "thread"}, DllInject(p, how)
    PROVE /\ pending' \in [Procs -> SUBSET {"apc", "thread"}]
          /\ made' \in [Procs -> Nat] /\ sessions' \in [Procs -> Nat]
          /\ failed' \in [Procs -> BOOLEAN]
<1>1. CASE UNCHANGED <<failed, sessions>> /\ made' = [made EXCEPT ![p] = @ + 1]
           /\ pending' = [pending EXCEPT ![p] = @ \union {how}]
  BY <1>1 DEF TypeOK
<1>2. CASE UNCHANGED <<pending, made, sessions>> /\ failed' = [failed EXCEPT ![p] = TRUE]
  BY <1>2 DEF TypeOK
<1>3. QED
  BY <1>1, <1>2 DEF DllInject

(* The steps of the creator keep the types.                                *)
LEMMA CreatorStepType ==
    ASSUME TypeOK, NEW p \in Procs, CreatorStep(p) PROVE TypeOK'
<1>1. CASE InternalReturns(p)
  <2>1. creator' \in [Procs -> CreatorSteps] /\ susp' \in [Procs -> 0..3]
    BY <1>1, ResumeThreadType DEF InternalReturns, LetGo, TypeOK, CreatorSteps
  <2>2. QED
    BY <1>1, <2>1 DEF InternalReturns, TypeOK, targetVars, mutexVars, injectionVars
<1>2. CASE HandleCreatedProcess(p)
  <2>1. creator' \in [Procs -> CreatorSteps]
    BY <1>2 DEF HandleCreatedProcess, TypeOK, CreatorSteps
  <2>2. handles' \in [Procs -> SUBSET Parties]
    <3>1. \/ handles' = handles
          \/ handles' = [handles EXCEPT ![p] = @ \union {"creator"}]
      BY <1>2 DEF HandleCreatedProcess
    <3>2. handles \in [Procs -> SUBSET Parties]
      BY DEF TypeOK
    <3>3. QED
      BY <3>1, <3>2 DEF Parties
  <2>3. failed' \in [Procs -> BOOLEAN]
    BY <1>2 DEF HandleCreatedProcess, TypeOK
  <2>4. QED
    BY <1>2, <2>1, <2>2, <2>3 DEF HandleCreatedProcess, TypeOK, targetVars
<1>3. CASE InjectCreated(p)
  <2>1. creator' \in [Procs -> CreatorSteps] /\ handles' \in [Procs -> SUBSET Parties]
    BY <1>3 DEF InjectCreated, TypeOK, CreatorSteps, Parties, Duplicated
  <2>2. QED
    BY <1>3, <2>1, DllInjectType DEF InjectCreated, TypeOK, targetVars
<1>4. CASE WaitForMutex(p)
  BY <1>4 DEF WaitForMutex, TypeOK, CreatorSteps, targetVars, injectionVars
<1>5. CASE ResumeCreated(p)
  <2>1. creator' \in [Procs -> CreatorSteps] /\ susp' \in [Procs -> 0..3]
    BY <1>5, ResumeThreadType DEF ResumeCreated, LetGo, TypeOK, CreatorSteps
  <2>2. QED
    BY <1>5, <2>1 DEF ResumeCreated, TypeOK, targetVars, mutexVars, injectionVars
<1>6. QED
  BY <1>1, <1>2, <1>3, <1>4, <1>5 DEF CreatorStep

(* InjectInit keeps the types of what it changes.                          *)
LEMMA InjectInitType ==
    ASSUME TypeOK, NEW p \in Procs, NEW how, InjectInit(p, how)
    PROVE /\ pending' \in [Procs -> SUBSET {"apc", "thread"}]
          /\ sessions' \in [Procs -> Nat]
          /\ handles' \in [Procs -> SUBSET Parties]
          /\ UNCHANGED <<made, failed, owner>>
<1>1. pending' \in [Procs -> SUBSET {"apc", "thread"}] /\ UNCHANGED <<made, failed, owner>>
  BY DEF InjectInit, TypeOK
<1>2. sessions' \in [Procs -> Nat]
  <2>1. sessions' = sessions \/ sessions' = [sessions EXCEPT ![p] = @ + 1]
    BY DEF InjectInit
  <2>2. sessions \in [Procs -> Nat]
    BY DEF TypeOK
  <2>3. QED
    BY <2>1, <2>2
<1>3. handles' \in [Procs -> SUBSET Parties]
  <2>1. handles' = handles \/ handles' = [handles EXCEPT ![p] = @ \ {"target"}]
    BY DEF InjectInit
  <2>2. QED
    BY <2>1 DEF TypeOK
<1>4. QED
  BY <1>1, <1>2, <1>3

(* The steps of the process itself keep the types.                         *)
LEMMA TargetStepType ==
    ASSUME TypeOK, NEW p \in Procs, TargetStep(p) PROVE TypeOK'
<1>1. CASE Begin(p)
  <2>1. life' \in [Procs -> Lives]
    BY <1>1 DEF Begin, TypeOK, Lives
  <2>2. /\ pending' \in [Procs -> SUBSET {"apc", "thread"}]
        /\ sessions' \in [Procs -> Nat]
        /\ handles' \in [Procs -> SUBSET Parties]
        /\ UNCHANGED <<made, failed, owner>>
    BY <1>1, InjectInitType DEF Begin, TypeOK, injectionVars, mutexVars
  <2>3. QED
    BY <1>1, <2>1, <2>2 DEF Begin, TypeOK
<1>2. CASE RunRemoteThread(p)
  BY <1>2, InjectInitType DEF RunRemoteThread, TypeOK, targetVars
<1>3. CASE SessionEnds(p)
  BY <1>3 DEF SessionEnds, TypeOK, targetVars
<1>4. QED
  BY <1>1, <1>2, <1>3 DEF TargetStep

(* The steps of callers and debuggers keep the types.                      *)
LEMMA OtherStepType ==
    ASSUME TypeOK, NEW p \in Procs, ProcessInv(p), OtherStep(p) PROVE TypeOK'
<1>1. CASE CreateProcess(p)
  <2>1. list' \in Seq(Procs) /\ cursor' \in 0..Len(list')
    BY <1>1 DEF CreateProcess, TypeOK
  <2>2. QED
    BY <1>1, <2>1 DEF CreateProcess, TypeOK, CreatorSteps, Lives, mutexVars, injectionVars
<1>2. CASE CallerResumes(p)
  BY <1>2, ResumeThreadType DEF CallerResumes, TypeOK, CreatorSteps, targetVars, mutexVars,
     injectionVars
<1>3. CASE Freeze(p)
  <2>1. susp[p] \in 0..1
    BY <1>3, SuspendCountIsSmall DEF Freeze
  <2>2. susp' \in [Procs -> 0..3] /\ frozen' \in [Procs -> BOOLEAN]
    BY <1>3, <2>1 DEF Freeze, TypeOK
  <2>3. QED
    BY <1>3, <2>2 DEF Freeze, TypeOK, mutexVars, injectionVars
<1>4. CASE Thaw(p)
  <2>1. susp' \in [Procs -> 0..3] /\ frozen' \in [Procs -> BOOLEAN]
    BY <1>4, ResumeThreadType DEF Thaw, TypeOK
  <2>2. QED
    BY <1>4, <2>1 DEF Thaw, TypeOK, mutexVars, injectionVars
<1>5. CASE Die(p)
  <2>1. /\ life' \in [Procs -> Lives] /\ susp' \in [Procs -> 0..3]
        /\ frozen' \in [Procs -> BOOLEAN]
    BY <1>5 DEF Die, TypeOK, Lives
  <2>2. /\ handles' \in [Procs -> SUBSET Parties] /\ sessions' \in [Procs -> Nat]
        /\ pending' \in [Procs -> SUBSET {"apc", "thread"}]
    BY <1>5 DEF Die, TypeOK
  <2>3. QED
    BY <1>5, <2>1, <2>2 DEF Die, TypeOK
<1>6. QED
  BY <1>1, <1>2, <1>3, <1>4, <1>5 DEF OtherStep

(* The end of the session manager keeps the types.                         *)
LEMMA ManagerEndsType ==
    ASSUME TypeOK, ManagerEnds PROVE TypeOK'
<1>1. handles' \in [Procs -> SUBSET Parties] /\ owner' \in [Procs -> Parties \union {Nobody}]
  BY DEF ManagerEnds, TypeOK
<1>2. QED
  BY <1>1 DEF ManagerEnds, TypeOK, InjectorSteps, targetVars, injectionVars

(* A failed injection keeps the types.                                     *)
LEMMA ThrowsType ==
    ASSUME TypeOK, ListIsCreated, Visiting, Throws
    PROVE inj' \in InjectorSteps /\ failed' \in [Procs -> BOOLEAN]
<1>1. failed \in [Procs -> BOOLEAN]
  BY DEF TypeOK
<1>2. QED
  BY <1>1 DEF Throws, InjectorSteps

(* The steps of the session manager keep the types; that it suspends no    *)
(* thread beyond its count follows from who holds the thread.              *)
LEMMA InjectorStepType ==
    ASSUME TypeOK, ListIsCreated, \A p \in Procs : ProcessInv(p), InjectorStep PROVE TypeOK'
<1>1. CASE NextProcess
  <2>1. cursor' \in 0..Len(list) /\ inj' \in InjectorSteps
    BY <1>1 DEF NextProcess, TypeOK, InjectorSteps
  <2>2. QED
    BY <1>1, <2>1 DEF NextProcess, TypeOK, targetVars, mutexVars, injectionVars
<1>2. ASSUME Visiting, NEW p \in Procs, p = cur
      PROVE  CountThreads => TypeOK'
  <2>1. SUFFICES ASSUME CountThreads PROVE TypeOK'
    OBVIOUS
  <2>2. inj' \in InjectorSteps /\ failed' \in [Procs -> BOOLEAN]
    BY <1>2, <2>1, ThrowsType DEF CountThreads, InjectorSteps, TypeOK
  <2>3. QED
    BY <2>1, <2>2 DEF CountThreads, TypeOK, targetVars, mutexVars
<1>3. ASSUME Visiting, NEW p \in Procs, p = cur, SuspendThread PROVE TypeOK'
  <2>1. inj' \in InjectorSteps /\ failed' \in [Procs -> BOOLEAN]
    BY <1>3, ThrowsType DEF SuspendThread, InjectorSteps, TypeOK
  <2>2. susp[p] \in 0..1
    BY <1>3, SuspendCountIsSmall DEF SuspendThread, InjectorHolds, Place, Holding
  <2>3. susp' = susp \/ susp' = [susp EXCEPT ![p] = @ + 1]
    BY <1>3 DEF SuspendThread
  <2>4. susp \in [Procs -> 0..3]
    BY DEF TypeOK
  <2>5. susp' \in [Procs -> 0..3]
    BY <2>2, <2>3, <2>4
  <2>6. QED
    BY <1>3, <2>1, <2>5 DEF SuspendThread, TypeOK, targetVars, mutexVars
<1>4. ASSUME Visiting, NEW p \in Procs, p = cur, GetThreadContext PROVE TypeOK'
  <2>1. inj' \in InjectorSteps /\ failed' \in [Procs -> BOOLEAN]
    BY <1>4, ThrowsType DEF GetThreadContext, InjectorSteps, TypeOK
  <2>2. susp' \in [Procs -> 0..3]
    BY <1>4, ResumeThreadType DEF GetThreadContext, TypeOK
  <2>3. QED
    BY <1>4, <2>1, <2>2 DEF GetThreadContext, TypeOK, targetVars, mutexVars
<1>5. ASSUME Visiting, NEW p \in Procs, p = cur, CreateProcessInitAPCMutex PROVE TypeOK'
  <2>1. susp' \in [Procs -> 0..3] /\ inj' \in InjectorSteps
    BY <1>5, ResumeThreadType DEF CreateProcessInitAPCMutex, TypeOK, InjectorSteps
  <2>2. \/ UNCHANGED <<handles, owner>>
        \/ /\ handles' = [handles EXCEPT ![p] = {"injector"}]
           /\ owner' = [owner EXCEPT ![p] = "injector"]
    BY <1>5 DEF CreateProcessInitAPCMutex, mutexVars
  <2>3. handles \in [Procs -> SUBSET Parties] /\ owner \in [Procs -> Parties \union {Nobody}]
    BY DEF TypeOK
  <2>4. handles' \in [Procs -> SUBSET Parties] /\ owner' \in [Procs -> Parties \union {Nobody}]
    BY <2>2, <2>3 DEF Parties
  <2>5. QED
    BY <1>5, <2>1, <2>4 DEF CreateProcessInitAPCMutex, TypeOK, targetVars, injectionVars
<1>6. ASSUME Visiting, NEW p \in Procs, p = cur, InjectAPC PROVE TypeOK'
  <2>1. handles' \in [Procs -> SUBSET Parties]
    BY <1>6 DEF InjectAPC, TypeOK, Duplicated, Parties
  <2>2. DllInject(p, "apc")
    BY <1>6 DEF InjectAPC
  <2>3. QED
    BY <1>6, <2>1, <2>2, DllInjectType DEF InjectAPC, TypeOK, targetVars, InjectorSteps
<1>7. ASSUME Visiting, NEW p \in Procs, p = cur, Leave PROVE TypeOK'
  <2>1. handles' \in [Procs -> SUBSET Parties] /\ owner' \in [Procs -> Parties \union {Nobody}]
    BY <1>7 DEF Leave, TypeOK
  <2>2. susp' \in [Procs -> 0..3] /\ inj' \in InjectorSteps
    BY <1>7, ResumeThreadType DEF Leave, InjectorSteps
  <2>3. QED
    BY <1>7, <2>1, <2>2 DEF Leave, TypeOK, targetVars, injectionVars
<1>8. CASE OpenProcessInitAPCMutex
  BY <1>8 DEF OpenProcessInitAPCMutex, TypeOK, InjectorSteps, targetVars, mutexVars,
     injectionVars
<1>9. ASSUME Visiting, NEW p \in Procs, p = cur, InjectRemoteThread PROVE TypeOK'
  <2>1. DllInject(p, "thread")
    BY <1>9 DEF InjectRemoteThread
  <2>2. QED
    BY <1>9, <2>1, DllInjectType DEF InjectRemoteThread, TypeOK, targetVars, mutexVars,
       InjectorSteps
<1>10. CASE Visiting
  BY <1>10, <1>1, <1>2, <1>3, <1>4, <1>5, <1>6, <1>7, <1>8, <1>9, CurIsCreated
     DEF InjectorStep
<1>11. CASE ~Visiting
  BY <1>11, <1>1 DEF InjectorStep, Visiting, CountThreads, SuspendThread, GetThreadContext,
     CreateProcessInitAPCMutex, InjectAPC, Leave, OpenProcessInitAPCMutex, InjectRemoteThread
<1>12. QED
  BY <1>10, <1>11

------------------------------------------------------------------------------
(* The list of processes, and the session manager in it.                    *)

(* A step that adds nothing to the list keeps what is known of it.         *)
LEMMA ListStays ==
    ASSUME TypeOK, ListIsCreated, UNCHANGED list,
           \A p \in Procs : creator[p] # "absent" => creator'[p] # "absent",
           Visiting' => cursor' >= 1, alive' <=> inj' \notin {"off", "killed"}
    PROVE  ListIsCreated'
<1>1. \A n \in 1..Len(list) : list[n] \in Procs
  BY DEF TypeOK
<1>2. QED
  BY <1>1 DEF ListIsCreated, Created

(* A step that leaves the session manager alone changes no place.           *)
LEMMA InjectorStays ==
    ASSUME UNCHANGED <<list, cursor, inj>>, NEW p \in Procs
    PROVE  Place(p)' = Place(p) /\ (Passed(p)' <=> Passed(p))
  BY DEF Place, Passed, Visiting, cur

(* A step of the session manager inside InjectIntoNewProcess moves it with  *)
(* regard to one process only, which it has not passed before.              *)
LEMMA InjectorMoves ==
    ASSUME TypeOK, ListIsCreated, inj \notin {"next", "off", "killed"},
           UNCHANGED <<list, cursor>>, inj' \notin {"off", "killed"}, NEW p \in Procs
    PROVE  /\ p = cur => /\ Place(p) = inj /\ ~Passed(p)
                         /\ Place(p)' = IF inj' = "next" THEN "away" ELSE inj'
                         /\ inj' = "next" => Passed(p)'
           /\ p # cur => /\ Place(p) = "away" /\ Place(p)' = "away"
                         /\ Passed(p) => Passed(p)'
<1>1. Visiting /\ cur' = cur
  BY DEF Visiting, cur
<1>2. cursor \in 1..Len(list) /\ ~Passed(cur)
  BY <1>1, CurIsCreated
<1>3. CASE p = cur
  <2>1. Place(p)' = IF inj' = "next" THEN "away" ELSE inj'
    BY <1>1, <1>3 DEF Place, Visiting
  <2>2. inj' = "next" => Passed(p)'
    BY <1>2, <1>3 DEF Passed, cur
  <2>3. QED
    BY <1>1, <1>2, <1>3, <2>1, <2>2 DEF Place
<1>4. CASE p # cur
  <2>1. Passed(p) => Passed(p)'
    BY <1>2, <1>4 DEF Passed, cur
  <2>2. QED
    BY <1>1, <1>4, <2>1 DEF Place
<1>5. QED
  BY <1>3, <1>4

(* The enumeration goes on by one process: that one is where the manager   *)
(* goes next, or is passed over, and every other stays as it was.          *)
LEMMA NextProcessMoves ==
    ASSUME TypeOK, ListIsCreated, NextProcess, NEW p \in Procs
    PROVE  /\ p = list[cursor + 1] =>
                  /\ Place(p) = "away" /\ Created(p) /\ ~Passed(p)
                  /\ Place(p)' = IF life[p] = "dead" \/ Excluded(p) THEN "away" ELSE "count"
           /\ p # list[cursor + 1] => Place(p) = "away" /\ Place(p)' = "away"
           /\ Passed(p) => Passed(p)'
<1>1. cursor' = cursor + 1 /\ cursor' \in 1..Len(list) /\ inj = "next" /\ UNCHANGED list
  BY DEF NextProcess, TypeOK
<1>2. Place(p) = "away"
  BY <1>1 DEF Place, Visiting
<1>3. Passed(p) => Passed(p)'
  BY <1>1 DEF Passed, TypeOK
<1>4. cur' = list[cursor + 1]
  BY <1>1 DEF cur
<1>5. inj' = IF life[cur'] = "dead" \/ Excluded(cur') THEN "next" ELSE "count"
  BY <1>4 DEF NextProcess, Excluded
<1>6. p # cur' => Place(p)' = "away"
  BY DEF Place
<1>7. p = cur' => Place(p)' = IF life[p] = "dead" \/ Excluded(p) THEN "away" ELSE "count"
  BY <1>5 DEF Place, Visiting, Excluded
<1>8. p = list[cursor + 1] => Created(p) /\ ~Passed(p)
  BY <1>1 DEF ListIsCreated, Passed, TypeOK
<1>9. QED
  BY <1>2, <1>3, <1>4, <1>6, <1>7, <1>8

------------------------------------------------------------------------------
(* The invariant of one process.  First the processes a step is not about.  *)
SameAt(p) ==
    /\ kind'[p] = kind[p] /\ creator'[p] = creator[p] /\ life'[p] = life[p]
    /\ susp'[p] = susp[p] /\ frozen'[p] = frozen[p] /\ handles'[p] = handles[p]
    /\ owner'[p] = owner[p] /\ pending'[p] = pending[p] /\ made'[p] = made[p]
    /\ failed'[p] = failed[p]
    /\ Place(p)' = Place(p) /\ (Passed(p) => Passed(p)')
    /\ alive' = alive

(* The invariant of p is about the values that SameAt lists.               *)
LEMMA SameAtKeepsInv ==
    ASSUME NEW p \in Procs, ProcessInv(p), SameAt(p) PROVE ProcessInv(p)'
  BY DEF SameAt, ProcessInv, LifeFollowsCreator, Created, SuspendCounts, CreatorHolds,
     InjectorHolds, One, LateIsLetGo, MutexHeld, InjectedIsMarked, FirstToInject,
     LetGoWhenServed, Hooked, Excluded, AtMostOnce, NoEarlyThread

(* The creator of p touches no other process.                              *)
LEMMA CreatorStepOthers ==
    ASSUME TypeOK, NEW p \in Procs, CreatorStep(p), NEW q \in Procs, q # p
    PROVE  SameAt(q)
<1>1. UNCHANGED <<list, cursor, inj>>
  BY DEF CreatorStep, InternalReturns, HandleCreatedProcess, InjectCreated, WaitForMutex,
     ResumeCreated
<1>2. CASE InternalReturns(p) \/ ResumeCreated(p)
  BY <1>1, <1>2, InjectorStays DEF InternalReturns, ResumeCreated, LetGo, ResumeThread,
     SameAt, TypeOK, targetVars, mutexVars, injectionVars
<1>3. CASE HandleCreatedProcess(p) \/ WaitForMutex(p)
  BY <1>1, <1>3, InjectorStays DEF HandleCreatedProcess, WaitForMutex, SameAt, TypeOK,
     targetVars, mutexVars, injectionVars
<1>4. CASE InjectCreated(p)
  BY <1>1, <1>4, InjectorStays DEF InjectCreated, DllInject, SameAt, TypeOK, targetVars,
     mutexVars
<1>5. QED
  BY <1>2, <1>3, <1>4 DEF CreatorStep

(* The threads of p touch no other process.                                *)
LEMMA TargetStepOthers ==
    ASSUME TypeOK, NEW p \in Procs, TargetStep(p), NEW q \in Procs, q # p
    PROVE  SameAt(q)
<1>1. UNCHANGED <<list, cursor, inj>>
  BY DEF TargetStep, Begin, RunRemoteThread, SessionEnds
<1>2. QED
  BY <1>1, InjectorStays DEF TargetStep, Begin, RunRemoteThread, SessionEnds, InjectInit,
     SameAt, TypeOK, targetVars, mutexVars, injectionVars

(* Callers and debuggers of p touch no other process; one that is created  *)
(* is put at the end of the list.                                          *)
LEMMA OtherStepOthers ==
    ASSUME TypeOK, ListIsCreated, NEW p \in Procs, OtherStep(p), NEW q \in Procs, q # p
    PROVE  SameAt(q)
<1>1. CASE CreateProcess(p)
  <2>1. \A n \in 1..Len(list) : list'[n] = list[n]
    BY <1>1 DEF CreateProcess, TypeOK
  <2>2. UNCHANGED <<cursor, inj>> /\ cursor \in 0..Len(list)
    BY <1>1 DEF CreateProcess, TypeOK
  <2>3. Passed(q)' <=> Passed(q)
    BY <2>1, <2>2 DEF Passed
  <2>4. Visiting => cur' = cur
    BY <2>1, <2>2 DEF ListIsCreated, cur
  <2>5. Place(q)' = Place(q)
    BY <2>2, <2>4 DEF Place, Visiting
  <2>6. QED
    BY <1>1, <2>3, <2>5 DEF CreateProcess, SameAt, TypeOK, mutexVars, injectionVars
<1>2. CASE ~CreateProcess(p)
  <2>1. UNCHANGED <<list, cursor, inj>>
    BY <1>2 DEF OtherStep, CallerResumes, Freeze, Thaw, Die
  <2>2. QED
    BY <1>2, <2>1, InjectorStays DEF OtherStep, CallerResumes, Freeze, Thaw, Die,
       ResumeThread, SameAt, TypeOK, targetVars, mutexVars, injectionVars
<1>3. QED
  BY <1>1, <1>2

------------------------------------------------------------------------------
(* Then the process it is about: what the step changes of it, and why its   *)
(* invariant goes on to hold.                                              *)

(* The creator marks the process it injects, keeps its mutex until then    *)
(* and lets it go afterwards.                                              *)
LEMMA CreatorStepPreserves ==
    ASSUME IInv, NEW p \in Procs, CreatorStep(p) PROVE ProcessInv(p)'
<1> USE DEF ProcessInv, LifeFollowsCreator, Created, SuspendCounts, CreatorHolds,
        InjectorHolds, One, LateIsLetGo, MutexHeld, InjectedIsMarked, FirstToInject,
        LetGoWhenServed, Hooked, Excluded, AtMostOnce, NoEarlyThread
<1>1. TypeOK /\ ProcessInv(p)
  BY DEF IInv
<1>2. /\ UNCHANGED <<kind, life, frozen, list, cursor, inj, owner, sessions, alive>>
      /\ Place(p)' = Place(p) /\ (Passed(p)' <=> Passed(p))
  <2>1. UNCHANGED <<kind, life, frozen, list, cursor, inj, owner, sessions, alive>>
    BY DEF CreatorStep, InternalReturns, HandleCreatedProcess, InjectCreated, WaitForMutex,
       ResumeCreated, DllInject, targetVars, mutexVars, injectionVars
  <2>2. QED
    BY <2>1, InjectorStays
<1>3. ASSUME creator[p] \in {"internal", "resume"}, LetGo(p),
             UNCHANGED <<handles, pending, made, failed>>,
             creator[p] = "internal" => ~Hooked(p)
      PROVE  ProcessInv(p)'
  <2>1. CASE creator'[p] = "held" /\ susp'[p] = susp[p]
    BY <1>1, <1>2, <1>3, <2>1
  <2>2. CASE creator'[p] = "gone" /\ susp'[p] = IF susp[p] = 0 THEN 0 ELSE susp[p] - 1
    BY <1>1, <1>2, <1>3, <2>2
  <2>3. QED
    BY <1>1, <1>3, <2>1, <2>2 DEF LetGo, ResumeThread, TypeOK
<1>4. CASE InternalReturns(p)
  <2>1. CASE Hooked(p)
    <3>1. /\ creator[p] = "internal" /\ creator'[p] = "handle"
          /\ UNCHANGED <<susp, handles, pending, made, failed>>
      BY <1>1, <1>4, <2>1 DEF InternalReturns, TypeOK, mutexVars, injectionVars
    <3>2. QED
      BY <1>1, <1>2, <3>1
  <2>2. CASE ~Hooked(p)
    BY <1>3, <1>4, <2>2 DEF InternalReturns, mutexVars, injectionVars
  <2>3. QED
    BY <2>1, <2>2
<1>5. CASE HandleCreatedProcess(p)
  <2>1. creator[p] = "handle" /\ UNCHANGED <<susp, pending, made>>
    BY <1>5 DEF HandleCreatedProcess
  <2>2. CASE /\ creator'[p] = "resume" /\ handles'[p] = handles[p]
             /\ failed'[p] = (failed[p] \/ ~Excluded(p))
    BY <1>1, <1>2, <2>1, <2>2
  <2>3. CASE /\ handles[p] # {} /\ creator'[p] = "wait" /\ failed'[p] = failed[p]
             /\ handles'[p] = handles[p] \union {"creator"} /\ alive
    <3>1. "target" \in handles[p] \/ "injector" \in handles[p]
      <4>1. handles[p] \subseteq {"creator", "injector", "target"}
        BY <1>1 DEF TypeOK, Parties
      <4>2. "creator" \notin handles[p]
        BY <1>1, <2>1
      <4>3. QED
        BY <4>1, <4>2, <2>3
    <3>2. QED
      BY <1>1, <1>2, <2>1, <2>3, <3>1
  <2>4. CASE /\ handles[p] = {} /\ creator'[p] = "inject" /\ failed'[p] = failed[p]
             /\ handles'[p] = {"creator"} /\ alive
    BY <1>1, <1>2, <2>1, <2>4 DEF TypeOK
  <2>5. QED
    BY <1>1, <1>5, <2>2, <2>3, <2>4 DEF HandleCreatedProcess, Exists, TypeOK
<1>6. CASE InjectCreated(p)
  <2>1. creator[p] = "inject" /\ creator'[p] = "resume" /\ UNCHANGED susp
    BY <1>1, <1>6 DEF InjectCreated, TypeOK
  <2>2. CASE /\ life[p] # "dead" /\ failed'[p] = failed[p] /\ made'[p] = made[p] + 1
             /\ pending'[p] = pending[p] \union {"apc"}
             /\ handles'[p] = (handles[p] \ {"creator"}) \union {"target"}
    BY <1>1, <1>2, <2>1, <2>2 DEF TypeOK
  <2>3. CASE /\ failed'[p] = TRUE /\ made'[p] = made[p] /\ pending'[p] = pending[p]
             /\ handles'[p] = handles[p] \ {"creator"}
    BY <1>1, <1>2, <2>1, <2>3 DEF TypeOK
  <2>4. QED
    <3>1. made[p] \in Nat
      BY <1>1 DEF TypeOK
    <3>2. handles'[p] = (handles[p] \ {"creator"})
                        \union IF made'[p] > made[p] THEN {"target"} ELSE {}
      BY <1>1, <1>6 DEF InjectCreated, Duplicated, TypeOK
    <3>3. \/ /\ life[p] # "dead" /\ failed'[p] = failed[p] /\ made'[p] = made[p] + 1
             /\ pending'[p] = pending[p] \union {"apc"}
          \/ failed'[p] = TRUE /\ made'[p] = made[p] /\ pending'[p] = pending[p]
      BY <1>1, <1>6 DEF InjectCreated, DllInject, TypeOK
    <3>4. CASE failed'[p] = TRUE /\ made'[p] = made[p] /\ pending'[p] = pending[p]
      <4>1. ~(made'[p] > made[p])
        BY <3>1, <3>4
      <4>2. handles'[p] = handles[p] \ {"creator"}
        BY <3>2, <4>1
      <4>3. QED
        BY <2>3, <3>4, <4>2
    <3>5. CASE made'[p] = made[p] + 1
      BY <2>2, <3>1, <3>2, <3>3, <3>5
    <3>6. QED
      BY <3>3, <3>4, <3>5
<1>7. CASE WaitForMutex(p)
  <2>1. /\ creator[p] = "wait" /\ creator'[p] = "resume" /\ owner[p] = Nobody
        /\ handles'[p] = handles[p] \ {"creator"}
        /\ UNCHANGED <<susp, pending, made, failed>>
    BY <1>1, <1>7 DEF WaitForMutex, TypeOK, injectionVars
  <2>2. Place(p) # "apc"
    BY <1>1, <2>1 DEF Nobody
  <2>3. QED
    BY <1>1, <1>2, <2>1, <2>2
<1>8. CASE ResumeCreated(p)
  BY <1>3, <1>8 DEF ResumeCreated, mutexVars, injectionVars
<1>9. QED
  BY <1>4, <1>5, <1>6, <1>7, <1>8 DEF CreatorStep

(* A process that runs has been let go, and uses up what was injected.     *)
LEMMA TargetStepPreserves ==
    ASSUME IInv, NEW p \in Procs, TargetStep(p) PROVE ProcessInv(p)'
<1> USE DEF ProcessInv, LifeFollowsCreator, Created, SuspendCounts, CreatorHolds,
        InjectorHolds, One, LateIsLetGo, MutexHeld, InjectedIsMarked, FirstToInject,
        LetGoWhenServed, Hooked, Excluded, AtMostOnce, NoEarlyThread
<1>1. TypeOK /\ ProcessInv(p)
  BY DEF IInv
<1>2. /\ UNCHANGED <<kind, creator, susp, frozen, list, cursor, inj, owner, made, failed,
                    alive>>
      /\ Place(p)' = Place(p) /\ (Passed(p)' <=> Passed(p))
  <2>1. UNCHANGED <<kind, creator, susp, frozen, list, cursor, inj, owner, made, failed,
                    alive>>
    BY DEF TargetStep, Begin, RunRemoteThread, SessionEnds, InjectInit, targetVars,
       mutexVars, injectionVars
  <2>2. QED
    BY <2>1, InjectorStays
<1>3. ASSUME NEW how, InjectInit(p, how)
      PROVE  /\ pending'[p] \subseteq pending[p]
             /\ \/ handles'[p] = handles[p]
                \/ ~alive /\ handles'[p] = handles[p] \ {"target"}
  <2>1. pending'[p] = pending[p] \ {how}
    BY <1>1, <1>3 DEF InjectInit, TypeOK
  <2>2. handles'[p] = IF alive THEN handles[p] ELSE handles[p] \ {"target"}
    BY <1>1, <1>3 DEF InjectInit, TypeOK
  <2>3. QED
    BY <2>1, <2>2
<1>4. CASE Begin(p)
  <2>1. life[p] = "starting" /\ susp[p] = 0 /\ life'[p] = "running"
    BY <1>1, <1>4 DEF Begin, TypeOK
  <2>2. creator[p] = "gone" /\ ~InjectorHolds(p) /\ ~frozen[p]
    BY <1>1, <2>1, NotSuspended
  <2>3. /\ pending'[p] \subseteq pending[p]
        /\ \/ handles'[p] = handles[p]
           \/ ~alive /\ handles'[p] = handles[p] \ {"target"}
    BY <1>3, <1>4 DEF Begin, mutexVars, injectionVars
  <2>4. QED
    BY <1>1, <1>2, <2>1, <2>2, <2>3
<1>5. CASE RunRemoteThread(p)
  <2>1. /\ UNCHANGED life /\ pending'[p] \subseteq pending[p]
        /\ \/ handles'[p] = handles[p]
           \/ ~alive /\ handles'[p] = handles[p] \ {"target"}
    BY <1>3, <1>5 DEF RunRemoteThread, targetVars
  <2>2. QED
    BY <1>1, <1>2, <2>1
<1>6. CASE SessionEnds(p)
  <2>1. ~alive /\ UNCHANGED <<life, pending>> /\ handles'[p] = handles[p] \ {"target"}
    BY <1>1, <1>6 DEF SessionEnds, TypeOK, targetVars
  <2>2. QED
    BY <1>1, <1>2, <2>1
<1>7. QED
  BY <1>4, <1>5, <1>6 DEF TargetStep

(* A caller, a debugger or the end of a process do not inject.             *)
LEMMA OtherStepPreserves ==
    ASSUME IInv, NEW p \in Procs, OtherStep(p) PROVE ProcessInv(p)'
<1> USE DEF ProcessInv, LifeFollowsCreator, Created, SuspendCounts, CreatorHolds,
        InjectorHolds, One, LateIsLetGo, MutexHeld, InjectedIsMarked, FirstToInject,
        LetGoWhenServed, Hooked, Excluded, AtMostOnce, NoEarlyThread
<1>1. TypeOK /\ ListIsCreated /\ ProcessInv(p)
  BY DEF IInv
<1>2. UNCHANGED <<kind, cursor, inj, owner, made, failed, alive>>
  BY DEF OtherStep, CreateProcess, CallerResumes, Freeze, Thaw, Die, mutexVars,
     injectionVars
<1>3. CASE CreateProcess(p)
  <2>1. /\ creator[p] = "absent" /\ creator'[p] = "internal" /\ life'[p] = "starting"
        /\ susp'[p] = 1 /\ UNCHANGED <<frozen, handles, pending>>
    BY <1>1, <1>3 DEF CreateProcess, TypeOK, mutexVars, injectionVars
  <2>2. /\ \A n \in 1..Len(list) : list'[n] = list[n]
        /\ cursor' = cursor /\ cursor \in 0..Len(list)
    BY <1>1, <1>3 DEF CreateProcess, TypeOK
  <2>3. Visiting => cur' = cur /\ cur # p
    BY <1>1, <2>1, <2>2, CurIsCreated DEF ListIsCreated, cur
  <2>4. Place(p) = "away" /\ Place(p)' = "away"
    BY <1>2, <2>3 DEF Place, Visiting
  <2>5. ~Passed(p)
    BY <1>1, <2>1, <2>2 DEF ListIsCreated, Passed
  <2>6. LifeFollowsCreator(p)'
    BY <1>1, <2>1
  <2>7. SuspendCounts(p)'
    BY <1>1, <2>1, <2>4 DEF Holding
  <2>8. MutexHeld(p)' /\ FirstToInject(p)' /\ LateIsLetGo(p)'
    BY <1>1, <1>2, <2>1, <2>4
  <2>9. InjectedIsMarked(p)' /\ AtMostOnce(p)'
    BY <1>1, <1>2, <2>1, <2>5
  <2>10. LetGoWhenServed(p)' /\ NoEarlyThread(p)'
    BY <1>1, <1>2, <2>1, <2>4
  <2>11. QED
    BY <2>6, <2>7, <2>8, <2>9, <2>10
<1>4. CASE ~CreateProcess(p)
  <2>1. Place(p)' = Place(p) /\ (Passed(p)' <=> Passed(p))
    <3>1. UNCHANGED <<list, cursor, inj>>
      BY <1>4 DEF OtherStep, CallerResumes, Freeze, Thaw, Die
    <3>2. QED
      BY <3>1, InjectorStays
  <2>2. CASE CallerResumes(p)
    <3>1. /\ creator[p] = "held" /\ creator'[p] = "gone"
          /\ susp'[p] = IF susp[p] = 0 THEN 0 ELSE susp[p] - 1
          /\ UNCHANGED <<life, frozen, handles, pending>>
      BY <1>1, <2>2 DEF CallerResumes, ResumeThread, TypeOK, targetVars, mutexVars,
         injectionVars
    <3>2. QED
      BY <1>1, <1>2, <2>1, <3>1
  <2>3. CASE Freeze(p)
    <3>1. /\ life[p] = "running" /\ ~frozen[p] /\ frozen'[p] = TRUE
          /\ susp'[p] = susp[p] + 1 /\ UNCHANGED <<creator, life, handles, pending>>
      BY <1>1, <2>3 DEF Freeze, TypeOK, mutexVars, injectionVars
    <3>2. QED
      BY <1>1, <1>2, <2>1, <3>1
  <2>4. CASE Thaw(p)
    <3>1. /\ life[p] = "running" /\ frozen[p] /\ frozen'[p] = FALSE
          /\ susp'[p] = IF susp[p] = 0 THEN 0 ELSE susp[p] - 1
          /\ UNCHANGED <<creator, life, handles, pending>>
      BY <1>1, <2>4 DEF Thaw, ResumeThread, TypeOK, mutexVars, injectionVars
    <3>2. QED
      BY <1>1, <1>2, <2>1, <3>1
  <2>5. CASE Die(p)
    <3>1. /\ life[p] \in {"starting", "running"} /\ life'[p] = "dead" /\ susp'[p] = 0
          /\ frozen'[p] = FALSE /\ handles'[p] = handles[p] \ {"target"}
          /\ pending'[p] = {} /\ UNCHANGED creator
      BY <1>1, <2>5 DEF Die, TypeOK
    <3>2. QED
      BY <1>1, <1>2, <2>1, <3>1
  <2>6. QED
    BY <1>4, <2>2, <2>3, <2>4, <2>5 DEF OtherStep
<1>5. QED
  BY <1>3, <1>4

(* The steps inside InjectIntoNewProcess are about cur.                     *)
LEMMA InjectorStepPreserves ==
    ASSUME IInv, InjectorStep, NEW p \in Procs PROVE ProcessInv(p)'
<1> USE DEF ProcessInv, LifeFollowsCreator, Created, SuspendCounts, CreatorHolds,
        InjectorHolds, One, LateIsLetGo, MutexHeld, InjectedIsMarked, FirstToInject,
        LetGoWhenServed, Hooked, Excluded, AtMostOnce, NoEarlyThread, Holding
<1>1. TypeOK /\ ListIsCreated /\ ProcessInv(p)
  BY DEF IInv
<1>2. CASE NextProcess
  <2>1. UNCHANGED <<kind, creator, life, frozen, susp, handles, owner, pending, made,
                    failed, alive>>
    BY <1>2 DEF NextProcess, targetVars, mutexVars, injectionVars
  <2>2. /\ Place(p) = "away" /\ Place(p)' \in {"away", "count"}
        /\ Place(p)' = "count" => ~Passed(p)
        /\ Passed(p) => Passed(p)'
    BY <1>1, <1>2, NextProcessMoves
  <2>3. QED
    BY <1>1, <2>1, <2>2
<1>3. ASSUME ~NextProcess PROVE ProcessInv(p)'
  <2>1. /\ UNCHANGED <<kind, creator, life, frozen, list, cursor, sessions, alive>>
        /\ inj \notin {"next", "off", "killed"} /\ inj' \notin {"off", "killed"}
    BY <1>3 DEF InjectorStep, CountThreads, SuspendThread, GetThreadContext,
       CreateProcessInitAPCMutex, InjectAPC, Leave, OpenProcessInitAPCMutex,
       InjectRemoteThread, DllInject, Throws, targetVars, mutexVars, injectionVars
  <2>2. /\ p = cur => /\ Place(p) = inj /\ ~Passed(p)
                      /\ Place(p)' = IF inj' = "next" THEN "away" ELSE inj'
                      /\ inj' = "next" => Passed(p)'
        /\ p # cur => /\ Place(p) = "away" /\ Place(p)' = "away"
                      /\ Passed(p) => Passed(p)'
    BY <1>1, <2>1, InjectorMoves
  <2>3. cur \in Procs /\ alive
    BY <1>1, <2>1, CurIsCreated DEF ListIsCreated, Visiting
  <2>4. CASE p # cur
    <3>1. /\ susp'[p] = susp[p] /\ handles'[p] = handles[p] /\ owner'[p] = owner[p]
          /\ pending'[p] = pending[p] /\ made'[p] = made[p] /\ failed'[p] = failed[p]
      BY <1>1, <1>3, <2>3, <2>4 DEF InjectorStep, CountThreads, SuspendThread, GetThreadContext,
         CreateProcessInitAPCMutex, InjectAPC, Leave, OpenProcessInitAPCMutex,
         InjectRemoteThread, DllInject, Throws, ResumeThread, TypeOK, mutexVars, injectionVars
    <3>2. SameAt(p)
      BY <2>1, <2>2, <2>4, <3>1 DEF SameAt
    <3>3. QED
      BY <1>1, <3>2, SameAtKeepsInv
  <2>5. CASE p = cur
    <3> DEFINE Resumed == susp'[p] = IF susp[p] = 0 THEN 0 ELSE susp[p] - 1
    <3>1. made[p] \in Nat /\ failed[p] \in BOOLEAN
      BY <1>1 DEF TypeOK
    <3>2. CASE CountThreads
      <4>1. /\ inj = "count" /\ UNCHANGED <<susp, handles, owner, pending, made>>
            /\ failed[p] => failed'[p]
            /\ inj' \in {"suspend", "next"} \/ (inj' = "open" /\ life[p] = "running")
        BY <1>1, <2>5, <3>2 DEF CountThreads, Throws, TypeOK, mutexVars
      <4>2. QED
        BY <1>1, <2>1, <2>2, <2>5, <4>1
    <3>3. CASE SuspendThread
      <4>1. /\ inj = "suspend" /\ UNCHANGED <<handles, owner, pending, made>>
            /\ failed[p] => failed'[p]
        BY <1>1, <2>5, <3>3 DEF SuspendThread, Throws, TypeOK, mutexVars
      <4>2. \/ life[p] # "dead" /\ susp[p] = 0 /\ inj' = "open" /\ UNCHANGED susp
            \/ life[p] # "dead" /\ susp[p] > 0 /\ inj' = "context" /\ susp'[p] = susp[p] + 1
            \/ inj' = "next" /\ UNCHANGED susp
        BY <1>1, <2>5, <3>3 DEF SuspendThread, Throws, TypeOK
      <4>3. Created(p)
        BY <1>1, <2>5, <4>1, CurIsCreated DEF Visiting
      <4>4. life[p] # "dead" => life[p] \in {"starting", "running"}
        BY <1>1, <4>3 DEF TypeOK, Lives
      <4>5. CASE inj' = "open"
        <5>1. creator[p] = "gone"
          BY <1>1, <4>2, <4>4, <4>5, NotSuspended
        <5>2. QED
          BY <1>1, <2>1, <2>2, <2>5, <4>1, <4>2, <4>5, <5>1
      <4>6. CASE inj' # "open"
        BY <1>1, <2>1, <2>2, <2>5, <4>1, <4>2, <4>4, <4>6
      <4>7. QED
        BY <4>5, <4>6
    <3>4. CASE GetThreadContext
      <4>1. /\ inj = "context" /\ UNCHANGED <<handles, owner, pending, made>>
            /\ failed[p] => failed'[p]
        BY <1>1, <2>5, <3>4 DEF GetThreadContext, Throws, TypeOK, mutexVars
      <4>2. \/ life[p] = "starting" /\ inj' = "mutex" /\ UNCHANGED susp
            \/ life[p] = "running" /\ inj' = "open" /\ Resumed
            \/ inj' = "next" /\ Resumed
        BY <1>1, <2>5, <3>4 DEF GetThreadContext, Throws, ResumeThread, TypeOK
      <4>3. QED
        BY <1>1, <2>1, <2>2, <2>5, <4>1, <4>2
    <3>5. CASE CreateProcessInitAPCMutex
      <4>1. inj = "mutex" /\ UNCHANGED <<pending, made, failed>>
        BY <3>5 DEF CreateProcessInitAPCMutex, injectionVars
      <4>2. \/ inj' = "next" /\ Resumed /\ UNCHANGED <<handles, owner>>
            \/ /\ inj' = "apc" /\ handles[p] = {} /\ UNCHANGED susp
               /\ handles'[p] = {"injector"} /\ owner'[p] = "injector"
        BY <1>1, <2>5, <3>5 DEF CreateProcessInitAPCMutex, ResumeThread, Exists, TypeOK, mutexVars
      <4>3. QED
        BY <1>1, <2>1, <2>2, <2>3, <2>5, <3>1, <4>1, <4>2
    <3>6. CASE InjectAPC
      <4>1. inj = "apc" /\ inj' = "leave" /\ UNCHANGED <<susp, owner>>
        BY <3>6 DEF InjectAPC
      <4>2. handles'[p] = handles[p] \union IF made'[p] > made[p] THEN {"target"} ELSE {}
        BY <1>1, <2>5, <3>6 DEF InjectAPC, Duplicated, TypeOK
      <4>3. \/ /\ life[p] # "dead" /\ failed'[p] = failed[p] /\ made'[p] = made[p] + 1
               /\ pending'[p] = pending[p] \union {"apc"}
            \/ failed'[p] = TRUE /\ made'[p] = made[p] /\ pending'[p] = pending[p]
        BY <1>1, <2>5, <3>6 DEF InjectAPC, DllInject, TypeOK
      <4>4. CASE made'[p] = made[p]
        BY <1>1, <2>1, <2>2, <2>5, <3>1, <4>1, <4>2, <4>3, <4>4
      <4>5. CASE made'[p] # made[p]
        BY <1>1, <2>1, <2>2, <2>5, <3>1, <4>1, <4>2, <4>3, <4>5
      <4>6. QED
        BY <4>4, <4>5
    <3>7. CASE Leave
      <4>1. /\ inj = "leave" /\ inj' = "next" /\ Resumed
            /\ handles'[p] = handles[p] \ {"injector"}
            /\ UNCHANGED <<pending, made, failed>>
        BY <1>1, <2>5, <3>7 DEF Leave, ResumeThread, TypeOK, injectionVars
      <4>2. QED
        BY <1>1, <2>1, <2>2, <2>5, <4>1
    <3>8. CASE OpenProcessInitAPCMutex
      <4>1. /\ inj = "open" /\ UNCHANGED <<susp, handles, owner, pending, made, failed>>
            /\ inj' = "next" \/ (inj' = "remote" /\ handles[p] = {})
        BY <2>5, <3>8 DEF OpenProcessInitAPCMutex, Exists, mutexVars, injectionVars
      <4>2. QED
        BY <1>1, <2>1, <2>2, <2>3, <2>5, <3>1, <4>1
    <3>9. CASE InjectRemoteThread
      <4>1. inj = "remote" /\ inj' = "next" /\ UNCHANGED <<susp, handles, owner>>
        BY <3>9 DEF InjectRemoteThread, mutexVars
      <4>2. \/ /\ life[p] # "dead" /\ failed'[p] = failed[p] /\ made'[p] = made[p] + 1
               /\ pending'[p] = pending[p] \union {"thread"}
            \/ failed'[p] = TRUE /\ made'[p] = made[p] /\ pending'[p] = pending[p]
        BY <1>1, <2>5, <3>9 DEF InjectRemoteThread, DllInject, TypeOK
      <4>3. QED
        BY <1>1, <2>1, <2>2, <2>5, <3>1, <4>1, <4>2
    <3>10. QED
      BY <1>3, <3>2, <3>3, <3>4, <3>5, <3>6, <3>7, <3>8, <3>9 DEF InjectorStep
  <2>6. QED
    BY <2>4, <2>5
<1>4. QED
  BY <1>2, <1>3

(* The handles of the session manager are gone with it; so is the right of  *)
(* the others to rely on them, since all of them look at alive.             *)
LEMMA ManagerEndsPreserves ==
    ASSUME IInv, ManagerEnds, NEW p \in Procs PROVE ProcessInv(p)'
<1>1. TypeOK /\ ListIsCreated /\ ProcessInv(p)
  BY DEF IInv
<1>2. /\ UNCHANGED <<kind, creator, life, frozen, susp, list, cursor, pending, made, failed>>
      /\ alive /\ alive' = FALSE /\ handles'[p] = handles[p] \ {"injector"}
      /\ inj' = IF inj \in Holding THEN "killed" ELSE "off"
  BY DEF ManagerEnds, targetVars, injectionVars
<1>3. Place(p)' = IF Place(p) \in Holding THEN "killed" ELSE "away"
  BY <1>2 DEF Place, Visiting, Holding, cur
<1>4. inj # "killed"
  BY <1>1, <1>2 DEF ListIsCreated
<1>5. InjectorHolds(p)' <=> InjectorHolds(p)
  BY <1>3, <1>4 DEF InjectorHolds, Place, Holding
<1>6. LifeFollowsCreator(p)' /\ SuspendCounts(p)'
  BY <1>1, <1>2, <1>5 DEF ProcessInv, LifeFollowsCreator, Created, SuspendCounts,
     CreatorHolds, One
<1>7. QED
  BY <1>1, <1>2, <1>3, <1>6 DEF ProcessInv, LateIsLetGo, MutexHeld, InjectedIsMarked,
     FirstToInject, LetGoWhenServed, AtMostOnce, NoEarlyThread, Holding

------------------------------------------------------------------------------
(* The list is kept by every step.                                         *)
LEMMA ListPreserved ==
    ASSUME IInv, Next PROVE ListIsCreated'
<1>1. TypeOK /\ ListIsCreated
  BY DEF IInv
<1>2. ASSUME NEW p \in Procs, CreatorStep(p) \/ TargetStep(p) PROVE ListIsCreated'
  <2>1. UNCHANGED <<list, cursor, inj, alive>>
    BY <1>2 DEF CreatorStep, InternalReturns, HandleCreatedProcess, InjectCreated,
       WaitForMutex, ResumeCreated, TargetStep, Begin, RunRemoteThread, SessionEnds
  <2>2. creator' = creator \/ \E s \in CreatorSteps \ {"absent"} :
                                 creator' = [creator EXCEPT ![p] = s]
    BY <1>2 DEF CreatorStep, InternalReturns, HandleCreatedProcess, InjectCreated, LetGo,
       WaitForMutex, ResumeCreated, TargetStep, Begin, RunRemoteThread, SessionEnds,
       CreatorSteps
  <2>3. \A q \in Procs : creator[q] # "absent" => creator'[q] # "absent"
    BY <1>1, <2>2 DEF TypeOK
  <2>4. QED
    BY <1>1, <2>1, <2>3, ListStays DEF ListIsCreated, Visiting
<1>3. ASSUME NEW p \in Procs, OtherStep(p) PROVE ListIsCreated'
  <2>1. CASE CreateProcess(p)
    <3>1. /\ creator[p] = "absent" /\ creator'[p] # "absent"
          /\ \A q \in Procs : creator[q] # "absent" => creator'[q] # "absent"
      BY <1>1, <2>1 DEF CreateProcess, TypeOK
    <3>2. /\ Len(list') = Len(list) + 1 /\ list'[Len(list) + 1] = p
          /\ \A n \in 1..Len(list) : list'[n] = list[n] /\ list[n] \in Procs /\ list[n] # p
      BY <1>1, <2>1, <3>1 DEF CreateProcess, TypeOK, ListIsCreated, Created
    <3>3. \A n \in 1..Len(list') : n \in 1..Len(list) \/ n = Len(list) + 1
      <4>1. Len(list) \in Nat
        BY <1>1 DEF TypeOK
      <4>2. QED
        BY <3>2, <4>1
    <3>4. \A n \in 1..Len(list') : creator'[list'[n]] # "absent"
      <4>1. \A n \in 1..Len(list) : creator[list[n]] # "absent"
        BY <1>1 DEF ListIsCreated, Created
      <4>2. QED
        BY <3>1, <3>2, <3>3, <4>1
    <3>5. \A n, k \in 1..Len(list') : list'[n] = list'[k] => n = k
      <4>1. \A n, k \in 1..Len(list) : list[n] = list[k] => n = k
        BY <1>1 DEF ListIsCreated
      <4>2. QED
        BY <3>2, <3>3, <4>1
    <3>6. UNCHANGED <<cursor, inj, alive>>
      BY <2>1 DEF CreateProcess
    <3>7. QED
      BY <1>1, <3>4, <3>5, <3>6 DEF ListIsCreated, Created, Visiting
  <2>2. CASE ~CreateProcess(p)
    <3>1. /\ UNCHANGED <<list, cursor, inj, alive>>
          /\ \A q \in Procs : creator[q] # "absent" => creator'[q] # "absent"
      BY <1>1, <1>3, <2>2 DEF OtherStep, CallerResumes, Freeze, Thaw, Die, TypeOK
    <3>2. QED
      BY <1>1, <3>1, ListStays DEF ListIsCreated, Visiting
  <2>3. QED
    BY <2>1, <2>2
<1>4. CASE NextProcess
  <2>1. /\ UNCHANGED <<creator, list, alive>> /\ cursor' = cursor + 1 /\ cursor \in Nat
        /\ inj = "next" /\ inj' \in {"next", "count"}
    BY <1>1, <1>4 DEF NextProcess, TypeOK
  <2>2. QED
    BY <1>1, <2>1, ListStays DEF ListIsCreated
<1>5. CASE InjectorStep /\ ~NextProcess
  <2>1. /\ UNCHANGED <<creator, list, cursor, alive>>
        /\ inj \notin {"next", "off", "killed"} /\ inj' \notin {"off", "killed"}
    BY <1>5 DEF InjectorStep, CountThreads, SuspendThread, GetThreadContext,
       CreateProcessInitAPCMutex, InjectAPC, Leave, OpenProcessInitAPCMutex,
       InjectRemoteThread, Throws
  <2>2. QED
    BY <1>1, <2>1, ListStays DEF ListIsCreated, Visiting
<1>6. CASE ManagerEnds
  <2>1. /\ UNCHANGED <<creator, list, cursor>> /\ alive' = FALSE /\ alive
        /\ inj' = IF inj \in Holding THEN "killed" ELSE "off"
    BY <1>6 DEF ManagerEnds
  <2>2. QED
    BY <1>1, <2>1, ListStays DEF ListIsCreated, Visiting, Holding
<1>7. QED
  BY <1>2, <1>3, <1>4, <1>5, <1>6 DEF Next, OtherStep

------------------------------------------------------------------------------
(* The theorems.                                                           *)

(* At first no process has been created.                                   *)
LEMMA InitIInv == Init => IInv
<1> SUFFICES ASSUME Init PROVE IInv
  OBVIOUS
<1>1. TypeOK
  BY DEF Init, TypeOK, CreatorSteps, Lives, InjectorSteps, Parties
<1>2. ListIsCreated
  BY DEF Init, ListIsCreated, Visiting
<1>3. ASSUME NEW p \in Procs PROVE ProcessInv(p)
  <2>1. /\ creator[p] = "absent" /\ life[p] = "absent" /\ susp[p] = 0 /\ frozen[p] = FALSE
        /\ handles[p] = {} /\ pending[p] = {} /\ made[p] = 0 /\ inj = "next"
    BY DEF Init
  <2>2. Place(p) = "away"
    BY <2>1 DEF Place, Visiting
  <2>3. QED
    BY <2>1, <2>2 DEF ProcessInv, LifeFollowsCreator, Created, SuspendCounts, CreatorHolds,
       InjectorHolds, One, LateIsLetGo, MutexHeld, InjectedIsMarked, FirstToInject,
       LetGoWhenServed, AtMostOnce, NoEarlyThread
<1>4. QED
  BY <1>1, <1>2, <1>3 DEF IInv

(* IInv is inductive: the process a step is about, then all others.        *)
LEMMA NextIInv == IInv /\ [Next]_vars => IInv'
<1> SUFFICES ASSUME IInv, [Next]_vars PROVE IInv'
  OBVIOUS
<1>1. TypeOK /\ ListIsCreated /\ \A p \in Procs : ProcessInv(p)
  BY DEF IInv
<1>2. ASSUME NEW p \in Procs, CreatorStep(p) PROVE TypeOK' /\ \A q \in Procs : ProcessInv(q)'
  <2>1. ASSUME NEW q \in Procs PROVE ProcessInv(q)'
    BY <1>1, <1>2, CreatorStepOthers, SameAtKeepsInv, CreatorStepPreserves
  <2>2. QED
    BY <1>1, <1>2, <2>1, CreatorStepType
<1>3. ASSUME NEW p \in Procs, TargetStep(p) PROVE TypeOK' /\ \A q \in Procs : ProcessInv(q)'
  <2>1. ASSUME NEW q \in Procs PROVE ProcessInv(q)'
    BY <1>1, <1>3, TargetStepOthers, SameAtKeepsInv, TargetStepPreserves
  <2>2. QED
    BY <1>1, <1>3, <2>1, TargetStepType
<1>4. ASSUME NEW p \in Procs, OtherStep(p) PROVE TypeOK' /\ \A q \in Procs : ProcessInv(q)'
  <2>1. ASSUME NEW q \in Procs PROVE ProcessInv(q)'
    BY <1>1, <1>4, OtherStepOthers, SameAtKeepsInv, OtherStepPreserves
  <2>2. QED
    BY <1>1, <1>4, <2>1, OtherStepType
<1>5. CASE InjectorStep
  BY <1>1, <1>5, InjectorStepType, InjectorStepPreserves, ListPreserved DEF IInv, Next
<1>6. CASE ManagerEnds
  BY <1>1, <1>6, ManagerEndsType, ManagerEndsPreserves, ListPreserved DEF IInv, Next
<1>7. CASE UNCHANGED vars
  <2>1. UNCHANGED <<kind, creator, life, frozen, susp, list, cursor, inj, handles, owner,
                    pending, made, failed, sessions, alive>>
    BY <1>7 DEF vars, targetVars, mutexVars, injectionVars
  <2>2. ASSUME NEW p \in Procs PROVE ProcessInv(p)'
    BY <1>1, <2>1, InjectorStays, SameAtKeepsInv DEF SameAt
  <2>3. TypeOK'
    BY <1>1, <2>1 DEF TypeOK
  <2>4. ListIsCreated'
    BY <1>1, <2>1 DEF ListIsCreated, Created, Visiting
  <2>5. QED
    BY <2>2, <2>3, <2>4 DEF IInv
<1>8. QED
  <2>1. Next => \/ \E p \in Procs : CreatorStep(p) \/ TargetStep(p) \/ OtherStep(p)
                \/ InjectorStep \/ ManagerEnds
    BY DEF Next, OtherStep
  <2>2. CASE \E p \in Procs : CreatorStep(p) \/ TargetStep(p) \/ OtherStep(p)
    <3>1. Next
      BY <2>2 DEF Next, OtherStep
    <3>2. QED
      BY <1>2, <1>3, <1>4, <2>2, <3>1, ListPreserved DEF IInv
  <2>3. QED
    BY <1>5, <1>6, <1>7, <2>1, <2>2

(* The inductive invariant holds in every state.                            *)
THEOREM IInvAlways == Spec => []IInv
  BY InitIInv, NextIInv, PTL DEF Spec

(* Every variable keeps its type; in particular, no main thread is ever     *)
(* suspended more than three times.                                        *)
THEOREM TypeCorrect == Spec => []TypeOK
<1>1. IInv => TypeOK
  BY DEF IInv
<1>2. QED
  BY <1>1, IInvAlways, PTL

(* No process is ever injected twice: the first party to create the mutex   *)
(* injects, the other one finds it (DllInject in InjectIntoNewProcess and    *)
(* in HandleCreatedProcess), and the handle that was duplicated into the    *)
(* process keeps the mutex there for as long as somebody may still ask.     *)
THEOREM InjectedAtMostOnce == Spec => []InjectedOnce
<1>1. IInv => InjectedOnce
  BY DEF IInv, ProcessInv, AtMostOnce, InjectedOnce
<1>2. QED
  BY <1>1, IInvAlways, PTL

(* The remote thread that "might be too early and unsafe"                   *)
(* (InjectIntoNewProcess) never is: the suspend count, the instruction      *)
(* pointer and the mutex together tell that the creator has let go.         *)
THEOREM RemoteThreadIsLate == Spec => []NoEarlyRemoteThread
<1>1. IInv => NoEarlyRemoteThread
  BY DEF IInv, ProcessInv, NoEarlyThread, NoEarlyRemoteThread
<1>2. QED
  BY <1>1, IInvAlways, PTL

(* A child of a customized process runs nothing before the engine is in it, *)
(* whichever party injects it (the hook of CreateProcessInternalW, and its   *)
(* wait for the mutex).                                                    *)
THEOREM ChildStartsInjected == Spec => []HookedChildStartsInjected
<1>1. IInv => HookedChildStartsInjected
  BY DEF IInv, ProcessInv, LifeFollowsCreator, LetGoWhenServed, HookedChildStartsInjected
<1>2. QED
  BY <1>1, IInvAlways, PTL
==============================================================================
