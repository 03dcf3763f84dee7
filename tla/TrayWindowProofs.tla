--------------------------- MODULE TrayWindowProofs ---------------------------
(***************************************************************************)
(* For any tasks and any faults: the window and the two requests of a check *)
(* for updates agree, in spite of an abort at any moment, on whether there  *)
(* is a check, who will tell of its end, and that it is told once.          *)
(***************************************************************************)
EXTENDS TrayWindow, TLAPS

(* The end of a check has not been told, or is waiting in the queue or being *)
(* handled.                                                                *)
Untold == posted = 0 /\ ui # "destroy"
Told == IF ui = "destroy" THEN posted = 0 ELSE posted = 1

(* How far a check is: who is going to tell of its end.                     *)
CheckerOK ==
    /\ post = "none" => /\ get = "none" /\ callback = "none" /\ ~aborted /\ Untold
                        /\ ui \notin {"sending", "closePost", "closeGet"}
    /\ post \in {"issued", "pending", "closed", "lost"} =>
           get = "none" /\ callback = "none" /\ Untold
    /\ post = "issued" => ui = "sending"
    /\ ui = "sending" => post \in {"issued", "lost"} /\ ~aborted
    /\ callback \in {"done", "lock", "hung"} => get = "none" /\ Untold
    /\ callback = "sending" => get \in {"issued", "lost"}
    /\ get = "issued" => callback = "sending"
    /\ callback = "unlock" => get \in {"pending", "over", "refused", "lost"}
    /\ get \in {"issued", "pending", "closed", "lost"} => Untold
    /\ get \in {"over", "refused"} => Told
    /\ post \in {"over", "refused"} /\ callback = "none" /\ get = "none" /\ window # "destroyed"
           => Told

(* What an abort that has gone so far has closed, and when there is one.    *)
AbortOK ==
    /\ aborted /\ ui # "closePost" => post \notin {"issued", "pending"}
    /\ aborted /\ ui \notin {"closePost", "closeGet"} => get \notin {"issued", "pending"}
    /\ ui \in {"closePost", "closeGet"} => aborted
    /\ window = "exiting" \/ ~checks => (post # "none" => aborted)
    /\ window = "exiting" => post # "none"

TimerOK ==
    /\ timer => post = "none" /\ checks
    /\ window = "up" /\ checks /\ ui # "hung" => timer \/ post # "none"

(* The files of other sessions have no process that could be frozen: that   *)
(* is why removing them leaves no frozen task without a file.               *)
StaleAreDead == frozen \intersect stale = {}

(* The inductive invariant.                                                *)
IInv == TypeOK /\ CheckerOK /\ AbortOK /\ TimerOK /\ StaleAreDead

------------------------------------------------------------------------------
(* The types, apart for the checks for updates and the tasks of mods.       *)

CheckTypes ==
    /\ window \in {"up", "exiting", "destroyed"}
    /\ ui \in {"idle", "sending", "closePost", "closeGet", "destroy",
               "lookForTasks", "openDialog", "hung"}
    /\ disabled \in BOOLEAN /\ settingsEvent \in BOOLEAN /\ checks \in BOOLEAN
    /\ timer \in BOOLEAN /\ aborted \in BOOLEAN
    /\ posted \in (IF post = "none" \/ ui = "destroy" THEN {0} ELSE {0, 1})
    /\ post \in Requests /\ get \in Requests
    /\ callback \in {"none", "done", "lock", "sending", "unlock", "hung"}

TaskTypes ==
    /\ createTimer \in BOOLEAN /\ failed \in BOOLEAN
    /\ stale \subseteq tasks /\ frozen \subseteq tasks
    /\ early \subseteq tasks /\ skipped \subseteq tasks
    /\ tasks \subseteq Tasks
    /\ notice \in {"none", "armed", "signaled"}
    /\ dlg \in Dialogs
    /\ StaleAreDead

(* The types of checks and of tasks, together, are TypeOK.                 *)
LEMMA TypesApart == TypeOK /\ StaleAreDead <=> CheckTypes /\ TaskTypes
  BY DEF TypeOK, CheckTypes, TaskTypes

(* What is known of a check does not depend on the tasks, nor on what the    *)
(* thread of the window does with them.                                    *)
CheckInv == CheckTypes /\ CheckerOK /\ AbortOK /\ TimerOK

(* The invariant is that of the checks and that of the tasks.              *)
LEMMA Parts == IInv <=> CheckInv /\ TaskTypes
  BY TypesApart DEF IInv, CheckInv

------------------------------------------------------------------------------
(* The steps of a check, of its callback and of the window's thread.        *)

(* The POST request ends: its callback will tell, or retry.                *)
LEMMA PostCompletesPreserves ==
    ASSUME CheckInv, PostCompletes PROVE CheckInv' /\ UNCHANGED taskVars
<1>1. CheckTypes /\ CheckerOK /\ AbortOK /\ TimerOK
  BY DEF CheckInv
<1>2. CheckTypes'
  BY <1>1 DEF PostCompletes, Outcomes, windowVars, updateVars, checkerVars, CheckTypes,
     CheckerOK, Untold, Told, Requests
<1>3. CheckerOK'
  BY <1>1 DEF PostCompletes, Outcomes, windowVars, updateVars, checkerVars, CheckTypes,
     CheckerOK, AbortOK,
     TimerOK, Untold, Told, Requests
<1>4. AbortOK'
  BY <1>1 DEF PostCompletes, Outcomes, windowVars, updateVars, checkerVars, CheckTypes,
     CheckerOK, AbortOK,
     TimerOK, Requests
<1>5. TimerOK'
  BY <1>1 DEF PostCompletes, Outcomes, windowVars, updateVars, checkerVars, CheckTypes,
     CheckerOK, AbortOK,
     TimerOK, Requests
<1>6. UNCHANGED taskVars
  BY DEF PostCompletes, Outcomes
<1>7. QED
  BY <1>2, <1>3, <1>4, <1>5, <1>6 DEF CheckInv

(* The GET request ends: the end of the check is told.                     *)
LEMMA GetCompletesPreserves ==
    ASSUME CheckInv, GetCompletes PROVE CheckInv' /\ UNCHANGED taskVars
<1>1. CheckTypes /\ CheckerOK /\ AbortOK /\ TimerOK
  BY DEF CheckInv
<1>2. CheckTypes'
  BY <1>1 DEF GetCompletes, Outcomes, windowVars, updateVars, checkerVars, CheckTypes,
     CheckerOK, Untold, Told, Requests
<1>3. CheckerOK'
  BY <1>1 DEF GetCompletes, Outcomes, windowVars, updateVars, checkerVars, CheckTypes,
     CheckerOK, AbortOK,
     TimerOK, Untold, Told, Requests
<1>4. AbortOK'
  BY <1>1 DEF GetCompletes, Outcomes, windowVars, updateVars, checkerVars, CheckTypes,
     CheckerOK, AbortOK,
     TimerOK, Requests
<1>5. TimerOK'
  BY <1>1 DEF GetCompletes, Outcomes, windowVars, updateVars, checkerVars, CheckTypes,
     CheckerOK, AbortOK,
     TimerOK, Requests
<1>6. UNCHANGED taskVars
  BY DEF GetCompletes, Outcomes
<1>7. QED
  BY <1>2, <1>3, <1>4, <1>5, <1>6 DEF CheckInv

(* The callback looks at the abort flag for the first time.                *)
LEMMA OnRequestDonePreserves ==
    ASSUME CheckInv, OnRequestDone PROVE CheckInv' /\ UNCHANGED taskVars
<1>1. CheckTypes /\ CheckerOK /\ AbortOK /\ TimerOK
  BY DEF CheckInv
<1>2. CheckTypes'
  BY <1>1 DEF OnRequestDone, UpdateCheckDone, windowVars, updateVars, checkerVars,
     CheckTypes, CheckerOK, Untold, Told, Requests
<1>3. CheckerOK'
  BY <1>1 DEF OnRequestDone, UpdateCheckDone, windowVars, updateVars, checkerVars,
     CheckTypes, CheckerOK, AbortOK,
     TimerOK, Untold, Told, Requests
<1>4. AbortOK'
  BY <1>1 DEF OnRequestDone, UpdateCheckDone, windowVars, updateVars, checkerVars,
     CheckTypes, CheckerOK, AbortOK,
     TimerOK, Requests
<1>5. TimerOK'
  BY <1>1 DEF OnRequestDone, UpdateCheckDone, windowVars, updateVars, checkerVars,
     CheckTypes, CheckerOK, AbortOK,
     TimerOK, Requests
<1>6. UNCHANGED taskVars
  BY DEF OnRequestDone, UpdateCheckDone
<1>7. QED
  BY <1>2, <1>3, <1>4, <1>5, <1>6 DEF CheckInv

(* The callback looks at the flag again, under the mutex: it retries only  *)
(* when no abort has gone before.                                          *)
LEMMA RetryWithGetPreserves ==
    ASSUME CheckInv, RetryWithGet PROVE CheckInv' /\ UNCHANGED taskVars
<1>1. CheckTypes /\ CheckerOK /\ AbortOK /\ TimerOK
  BY DEF CheckInv
<1>2. CheckTypes'
  BY <1>1 DEF RetryWithGet, GetFails, ProgramEnds, UpdateCheckDone, windowVars, updateVars, checkerVars,
     CheckTypes, CheckerOK, Untold, Told, Requests
<1>3. CheckerOK'
  BY <1>1 DEF RetryWithGet, GetFails, ProgramEnds, UpdateCheckDone, windowVars, updateVars, checkerVars,
     CheckTypes, CheckerOK, AbortOK,
     TimerOK, Untold, Told, Requests
<1>4. AbortOK'
  BY <1>1 DEF RetryWithGet, GetFails, ProgramEnds, UpdateCheckDone, windowVars, updateVars, checkerVars,
     CheckTypes, CheckerOK, AbortOK,
     TimerOK, Requests
<1>5. TimerOK'
  BY <1>1 DEF RetryWithGet, GetFails, ProgramEnds, UpdateCheckDone, windowVars, updateVars, checkerVars,
     CheckTypes, CheckerOK, AbortOK,
     TimerOK, Requests
<1>6. UNCHANGED taskVars
  BY DEF RetryWithGet, GetFails, ProgramEnds, UpdateCheckDone
<1>7. QED
  BY <1>2, <1>3, <1>4, <1>5, <1>6 DEF CheckInv

(* The callback has sent the GET request.                                  *)
LEMMA GetSentPreserves ==
    ASSUME CheckInv, GetSent PROVE CheckInv' /\ UNCHANGED taskVars
<1>1. CheckTypes /\ CheckerOK /\ AbortOK /\ TimerOK
  BY DEF CheckInv
<1>2. CheckTypes'
  BY <1>1 DEF GetSent, Sent, windowVars, updateVars, checkerVars, CheckTypes, CheckerOK,
     Untold, Told, Requests
<1>3. CheckerOK'
  BY <1>1 DEF GetSent, Sent, windowVars, updateVars, checkerVars, CheckTypes, CheckerOK,
     AbortOK,
     TimerOK, Untold, Told, Requests
<1>4. AbortOK'
  BY <1>1 DEF GetSent, Sent, windowVars, updateVars, checkerVars, CheckTypes, CheckerOK,
     AbortOK,
     TimerOK, Requests
<1>5. TimerOK'
  BY <1>1 DEF GetSent, Sent, windowVars, updateVars, checkerVars, CheckTypes, CheckerOK,
     AbortOK,
     TimerOK, Requests
<1>6. UNCHANGED taskVars
  BY DEF GetSent, Sent
<1>7. QED
  BY <1>2, <1>3, <1>4, <1>5, <1>6 DEF CheckInv

(* The callback lets the mutex go: the check is the GET request's now.     *)
LEMMA UnlockPreserves ==
    ASSUME CheckInv, Unlock PROVE CheckInv' /\ UNCHANGED taskVars
<1>1. CheckTypes /\ CheckerOK /\ AbortOK /\ TimerOK
  BY DEF CheckInv
<1>2. CheckTypes'
  BY <1>1 DEF Unlock, windowVars, updateVars, checkerVars, CheckTypes, CheckerOK,
     Untold, Told, Requests
<1>3. CheckerOK'
  BY <1>1 DEF Unlock, windowVars, updateVars, checkerVars, CheckTypes, CheckerOK,
     AbortOK,
     TimerOK, Untold, Told, Requests
<1>4. AbortOK'
  BY <1>1 DEF Unlock, windowVars, updateVars, checkerVars, CheckTypes, CheckerOK,
     AbortOK,
     TimerOK, Requests
<1>5. TimerOK'
  BY <1>1 DEF Unlock, windowVars, updateVars, checkerVars, CheckTypes, CheckerOK,
     AbortOK,
     TimerOK, Requests
<1>6. UNCHANGED taskVars
  BY DEF Unlock
<1>7. QED
  BY <1>2, <1>3, <1>4, <1>5, <1>6 DEF CheckInv

(* The timer begins a check when there is none, or the check fails: the      *)
(* timer is still set, or the window's thread hangs, or the program ends.   *)
LEMMA OnUpdateCheckTimerPreserves ==
    ASSUME CheckInv, OnUpdateCheckTimer PROVE CheckInv' /\ UNCHANGED taskVars
<1>1. CheckTypes /\ CheckerOK /\ AbortOK /\ TimerOK
  BY DEF CheckInv
<1>2. /\ ui = "idle" /\ timer /\ post = "none"
      /\ UNCHANGED <<disabled, settingsEvent, checks, posted, aborted, get, callback>>
  BY <1>1 DEF OnUpdateCheckTimer, Handles, TimerOK
<1>3. \/ timer' = FALSE /\ post' = "issued" /\ ui' = "sending" /\ window' = window
      \/ timer' = timer /\ post' = post /\ ui' = ui /\ window' = window
      \/ timer' = FALSE /\ post' = post /\ ui' = "hung" /\ window' = window
      \/ timer' = FALSE /\ post' = post /\ ui' = "idle" /\ window' = "destroyed"
  BY DEF OnUpdateCheckTimer, PostFails, ProgramEnds, windowVars
<1>4. posted = 0 /\ get = "none" /\ callback = "none" /\ ~aborted
  BY <1>1, <1>2 DEF CheckerOK, Untold
<1>5. CheckTypes'
  BY <1>1, <1>2, <1>3, <1>4 DEF CheckTypes, Requests
<1>6. CheckerOK'
  BY <1>2, <1>3, <1>4 DEF CheckerOK, Untold, Told
<1>7. AbortOK'
  BY <1>1, <1>2, <1>3, <1>4 DEF AbortOK, TimerOK
<1>8. TimerOK'
  BY <1>1, <1>2, <1>3 DEF TimerOK
<1>9. UNCHANGED taskVars
  BY DEF OnUpdateCheckTimer
<1>10. QED
  BY <1>5, <1>6, <1>7, <1>8, <1>9 DEF CheckInv

(* The window has sent the POST request.                                   *)
LEMMA PostSentPreserves ==
    ASSUME CheckInv, PostSent PROVE CheckInv' /\ UNCHANGED taskVars
<1>1. CheckTypes /\ CheckerOK /\ AbortOK /\ TimerOK
  BY DEF CheckInv
<1>2. CheckTypes'
  BY <1>1 DEF PostSent, Sent, windowVars, updateVars, checkerVars, CheckTypes,
     CheckerOK, Untold, Told, Requests
<1>3. CheckerOK'
  BY <1>1 DEF PostSent, Sent, windowVars, updateVars, checkerVars, CheckTypes,
     CheckerOK, AbortOK,
     TimerOK, Untold, Told, Requests
<1>4. AbortOK'
  BY <1>1 DEF PostSent, Sent, windowVars, updateVars, checkerVars, CheckTypes,
     CheckerOK, AbortOK,
     TimerOK, Requests
<1>5. TimerOK'
  BY <1>1 DEF PostSent, Sent, windowVars, updateVars, checkerVars, CheckTypes,
     CheckerOK, AbortOK,
     TimerOK, Requests
<1>6. UNCHANGED taskVars
  BY DEF PostSent, Sent
<1>7. QED
  BY <1>2, <1>3, <1>4, <1>5, <1>6 DEF CheckInv

(* Abort closes the POST request, after the flag has been set.             *)
LEMMA ClosePostPreserves ==
    ASSUME CheckInv, ClosePost PROVE CheckInv' /\ UNCHANGED taskVars
<1>1. CheckTypes /\ CheckerOK /\ AbortOK /\ TimerOK
  BY DEF CheckInv
<1>2. CheckTypes'
  BY <1>1 DEF ClosePost, Closed, windowVars, updateVars, checkerVars, CheckTypes,
     CheckerOK, Untold, Told, Requests
<1>3. CheckerOK'
  BY <1>1 DEF ClosePost, Closed, windowVars, updateVars, checkerVars, CheckTypes,
     CheckerOK, AbortOK,
     TimerOK, Untold, Told, Requests
<1>4. AbortOK'
  BY <1>1 DEF ClosePost, Closed, windowVars, updateVars, checkerVars, CheckTypes,
     CheckerOK, AbortOK,
     TimerOK, Requests
<1>5. TimerOK'
  BY <1>1 DEF ClosePost, Closed, windowVars, updateVars, checkerVars, CheckTypes,
     CheckerOK, AbortOK,
     TimerOK, Requests
<1>6. UNCHANGED taskVars
  BY DEF ClosePost, Closed
<1>7. QED
  BY <1>2, <1>3, <1>4, <1>5, <1>6 DEF CheckInv

(* Abort closes the GET request, under the mutex: a retry that has begun   *)
(* has sent it, and one that has not will see the flag.                    *)
LEMMA CloseGetPreserves ==
    ASSUME CheckInv, CloseGet PROVE CheckInv' /\ UNCHANGED taskVars
<1>1. CheckTypes /\ CheckerOK /\ AbortOK /\ TimerOK
  BY DEF CheckInv
<1>2. CheckTypes'
  BY <1>1 DEF CloseGet, Closed, windowVars, updateVars, checkerVars, CheckTypes,
     CheckerOK, Untold, Told, Requests
<1>3. CheckerOK'
  BY <1>1 DEF CloseGet, Closed, windowVars, updateVars, checkerVars, CheckTypes,
     CheckerOK, AbortOK,
     TimerOK, Untold, Told, Requests
<1>4. AbortOK'
  BY <1>1 DEF CloseGet, Closed, windowVars, updateVars, checkerVars, CheckTypes,
     CheckerOK, AbortOK,
     TimerOK, Requests
<1>5. TimerOK'
  BY <1>1 DEF CloseGet, Closed, windowVars, updateVars, checkerVars, CheckTypes,
     CheckerOK, AbortOK,
     TimerOK, Requests
<1>6. UNCHANGED taskVars
  BY DEF CloseGet, Closed
<1>7. QED
  BY <1>2, <1>3, <1>4, <1>5, <1>6 DEF CheckInv

(* The window handles the message that a check is over: the one there is.  *)
LEMMA OnUpdateCheckedPreserves ==
    ASSUME CheckInv, OnUpdateChecked PROVE CheckInv' /\ UNCHANGED taskVars
<1>1. CheckTypes /\ CheckerOK /\ AbortOK /\ TimerOK
  BY DEF CheckInv
<1>2. CheckTypes'
  BY <1>1 DEF OnUpdateChecked, Handles, windowVars, updateVars, checkerVars, CheckTypes,
     CheckerOK, Untold, Told, Requests
<1>3. CheckerOK'
  BY <1>1 DEF OnUpdateChecked, Handles, windowVars, updateVars, checkerVars, CheckTypes,
     CheckerOK, AbortOK,
     TimerOK, Untold, Told, Requests
<1>4. AbortOK'
  BY <1>1 DEF OnUpdateChecked, Handles, windowVars, updateVars, checkerVars, CheckTypes,
     CheckerOK, AbortOK,
     TimerOK, Requests
<1>5. TimerOK'
  BY <1>1 DEF OnUpdateChecked, Handles, windowVars, updateVars, checkerVars, CheckTypes,
     CheckerOK, AbortOK,
     TimerOK, Requests
<1>6. UNCHANGED taskVars
  BY DEF OnUpdateChecked, Handles
<1>7. QED
  BY <1>2, <1>3, <1>4, <1>5, <1>6 DEF CheckInv

(* The checker is gone when its callback has left; then a timer is set,    *)
(* unless checks are off.                                                  *)
LEMMA UpdateCheckerDestroyedPreserves ==
    ASSUME CheckInv, UpdateCheckerDestroyed PROVE CheckInv' /\ UNCHANGED taskVars
<1>1. CheckTypes /\ CheckerOK /\ AbortOK /\ TimerOK
  BY DEF CheckInv
<1>2. CheckTypes'
  BY <1>1 DEF UpdateCheckerDestroyed, windowVars, updateVars, checkerVars, CheckTypes,
     CheckerOK, Untold, Told, Requests
<1>3. CheckerOK'
  BY <1>1 DEF UpdateCheckerDestroyed, windowVars, updateVars, checkerVars, CheckTypes,
     CheckerOK, AbortOK,
     TimerOK, Untold, Told, Requests
<1>4. AbortOK'
  BY <1>1 DEF UpdateCheckerDestroyed, windowVars, updateVars, checkerVars, CheckTypes,
     CheckerOK, AbortOK,
     TimerOK, Requests
<1>5. TimerOK'
  BY <1>1 DEF UpdateCheckerDestroyed, windowVars, updateVars, checkerVars, CheckTypes,
     CheckerOK, AbortOK,
     TimerOK, Requests
<1>6. UNCHANGED taskVars
  BY DEF UpdateCheckerDestroyed
<1>7. QED
  BY <1>2, <1>3, <1>4, <1>5, <1>6 DEF CheckInv

(* The user changes the setting; nobody has looked yet.                    *)
LEMMA ChangeSettingsPreserves ==
    ASSUME CheckInv, ChangeSettings PROVE CheckInv' /\ UNCHANGED taskVars
<1>1. CheckTypes /\ CheckerOK /\ AbortOK /\ TimerOK
  BY DEF CheckInv
<1>2. CheckTypes'
  BY <1>1 DEF ChangeSettings, windowVars, updateVars, checkerVars, CheckTypes,
     CheckerOK, Untold, Told, Requests
<1>3. CheckerOK'
  BY <1>1 DEF ChangeSettings, windowVars, updateVars, checkerVars, CheckTypes,
     CheckerOK, AbortOK,
     TimerOK, Untold, Told, Requests
<1>4. AbortOK'
  BY <1>1 DEF ChangeSettings, windowVars, updateVars, checkerVars, CheckTypes,
     CheckerOK, AbortOK,
     TimerOK, Requests
<1>5. TimerOK'
  BY <1>1 DEF ChangeSettings, windowVars, updateVars, checkerVars, CheckTypes,
     CheckerOK, AbortOK,
     TimerOK, Requests
<1>6. UNCHANGED taskVars
  BY DEF ChangeSettings
<1>7. QED
  BY <1>2, <1>3, <1>4, <1>5, <1>6 DEF CheckInv

(* The window loads the setting: it sets a timer, or aborts the check.     *)
LEMMA LoadSettingsPreserves ==
    ASSUME CheckInv, LoadSettings PROVE CheckInv' /\ UNCHANGED taskVars
<1>1. CheckTypes /\ CheckerOK /\ AbortOK /\ TimerOK
  BY DEF CheckInv
<1>2. CheckTypes'
  <2>1. ui' \in {"idle", "closePost"} /\ (post = "none" => ui' = ui)
    BY <1>1 DEF LoadSettings, Handles, Abort
  <2>2. /\ settingsEvent' \in BOOLEAN /\ checks' \in BOOLEAN
        /\ timer' \in BOOLEAN /\ aborted' \in BOOLEAN
        /\ UNCHANGED <<window, disabled, posted, post, get, callback>>
    BY <1>1 DEF LoadSettings, Abort, CheckTypes
  <2>3. QED
    BY <1>1, <2>1, <2>2 DEF CheckTypes
<1>3. CheckerOK'
  BY <1>1 DEF LoadSettings, Handles, Abort, windowVars, updateVars, checkerVars,
     CheckTypes, CheckerOK, AbortOK,
     TimerOK, Untold, Told, Requests
<1>4. AbortOK'
  BY <1>1 DEF LoadSettings, Handles, Abort, windowVars, updateVars, checkerVars,
     CheckTypes, CheckerOK, AbortOK,
     TimerOK, Requests
<1>5. TimerOK'
  BY <1>1 DEF LoadSettings, Handles, Abort, windowVars, updateVars, checkerVars,
     CheckTypes, CheckerOK, AbortOK,
     TimerOK, Requests
<1>6. UNCHANGED taskVars
  BY DEF LoadSettings, Handles, Abort
<1>7. QED
  BY <1>2, <1>3, <1>4, <1>5, <1>6 DEF CheckInv

(* The computer wakes up: without a check the timer is set anew.           *)
LEMMA OnPowerBroadcastPreserves ==
    ASSUME CheckInv, OnPowerBroadcast PROVE CheckInv' /\ UNCHANGED taskVars
<1>1. CheckTypes /\ CheckerOK /\ AbortOK /\ TimerOK
  BY DEF CheckInv
<1>2. CheckTypes'
  BY <1>1 DEF OnPowerBroadcast, Handles, windowVars, updateVars, checkerVars,
     CheckTypes, CheckerOK, Untold, Told, Requests
<1>3. CheckerOK'
  BY <1>1 DEF OnPowerBroadcast, Handles, windowVars, updateVars, checkerVars,
     CheckTypes, CheckerOK, AbortOK,
     TimerOK, Untold, Told, Requests
<1>4. AbortOK'
  BY <1>1 DEF OnPowerBroadcast, Handles, windowVars, updateVars, checkerVars,
     CheckTypes, CheckerOK, AbortOK,
     TimerOK, Requests
<1>5. TimerOK'
  BY <1>1 DEF OnPowerBroadcast, Handles, windowVars, updateVars, checkerVars,
     CheckTypes, CheckerOK, AbortOK,
     TimerOK, Requests
<1>6. UNCHANGED taskVars
  BY DEF OnPowerBroadcast, Handles
<1>7. QED
  BY <1>2, <1>3, <1>4, <1>5, <1>6 DEF CheckInv

(* The user exits: with a check under way the window waits for its end.    *)
LEMMA ExitPreserves ==
    ASSUME CheckInv, Exit PROVE CheckInv' /\ UNCHANGED taskVars
<1>1. CheckTypes /\ CheckerOK /\ AbortOK /\ TimerOK
  BY DEF CheckInv
<1>2. CheckTypes'
  <2>1. /\ window' \in {"exiting", "destroyed"} /\ ui' \in {"idle", "closePost"}
        /\ timer' \in BOOLEAN /\ aborted' \in BOOLEAN
        /\ post = "none" => ui' = ui
        /\ UNCHANGED <<disabled, settingsEvent, checks, posted, post, get, callback>>
    BY <1>1 DEF Exit, Handles, Abort, CheckTypes
  <2>2. QED
    BY <1>1, <2>1 DEF CheckTypes
<1>3. CheckerOK'
  BY <1>1 DEF Exit, Handles, Abort, windowVars, updateVars, checkerVars, CheckTypes,
     CheckerOK, AbortOK,
     TimerOK, Untold, Told, Requests
<1>4. AbortOK'
  BY <1>1 DEF Exit, Handles, Abort, windowVars, updateVars, checkerVars, CheckTypes,
     CheckerOK, AbortOK,
     TimerOK, Requests
<1>5. TimerOK'
  BY <1>1 DEF Exit, Handles, Abort, windowVars, updateVars, checkerVars, CheckTypes,
     CheckerOK, AbortOK,
     TimerOK, Requests
<1>6. UNCHANGED taskVars
  BY DEF Exit, Handles, Abort
<1>7. QED
  BY <1>2, <1>3, <1>4, <1>5, <1>6 DEF CheckInv

------------------------------------------------------------------------------
(* The steps of the tasks.                                                 *)

(* A step of the tasks changes nothing that the checks are about.          *)
LEMMA CheckStays ==
    ASSUME CheckInv, UNCHANGED <<window, updateVars, checkerVars>>,
           ui' = ui \/ (/\ ui \in {"idle", "lookForTasks", "openDialog"}
                       /\ ui' \in {"idle", "lookForTasks", "openDialog"})
    PROVE  CheckInv'
  BY DEF CheckInv, CheckTypes, CheckerOK, AbortOK, TimerOK, Untold, Told, updateVars,
     checkerVars

(* What the steps of the dialog make of it is a dialog.                    *)
LEMMA DialogTypes ==
    /\ NoDialog \in Dialogs
    /\ \A d \in Dialogs : Updated(d) \in Dialogs
    /\ \A d \in Dialogs, r \in SUBSET Tasks, k \in SUBSET Tasks, v \in BOOLEAN :
          /\ [d EXCEPT !.refresh = v, !.rows = r, !.known = k] \in Dialogs
          /\ [d EXCEPT !.refresh = v] \in Dialogs
          /\ [d EXCEPT !.known = k] \in Dialogs
          /\ [d EXCEPT !.show = FALSE, !.visible = TRUE] \in Dialogs
          /\ d.rows \subseteq Tasks
<1>1. NoDialog \in Dialogs
  BY DEF NoDialog, Dialogs
<1>2. ASSUME NEW d \in Dialogs PROVE Updated(d) \in Dialogs
  <2>1. d.rows = d.known => [d EXCEPT !.visible = FALSE, !.show = FALSE] \in Dialogs
    BY DEF Dialogs
  <2>2. [d EXCEPT !.show = d.show \/ ~d.visible] \in Dialogs
    BY DEF Dialogs
  <2>3. QED
    BY <1>1, <2>1, <2>2 DEF Updated
<1>3. ASSUME NEW d \in Dialogs, NEW r \in SUBSET Tasks, NEW k \in SUBSET Tasks,
             NEW v \in BOOLEAN
      PROVE  /\ [d EXCEPT !.refresh = v, !.rows = r, !.known = k] \in Dialogs
             /\ [d EXCEPT !.refresh = v] \in Dialogs
             /\ [d EXCEPT !.known = k] \in Dialogs
             /\ [d EXCEPT !.show = FALSE, !.visible = TRUE] \in Dialogs
             /\ d.rows \subseteq Tasks
  BY DEF Dialogs
<1>4. QED
  BY <1>1, <1>2, <1>3

(* A mod begins a task.                                                    *)
LEMMA TaskBeginsPreserves ==
    ASSUME CheckInv, TaskTypes, NEW t \in Tasks, TaskBegins(t) PROVE CheckInv' /\ TaskTypes'
<1>1. CheckInv'
  BY CheckStays DEF TaskBegins, Notify, NotInTasks, windowVars
<1>2. TaskTypes'
  BY DEF TaskBegins, Notify, TaskTypes, StaleAreDead
<1>3. QED
  BY <1>1, <1>2

(* A mod tells of the progress of a task.                                  *)
LEMMA TaskChangesPreserves ==
    ASSUME CheckInv, TaskTypes, NEW t \in Tasks, TaskChanges(t) PROVE CheckInv' /\ TaskTypes'
<1>1. CheckInv'
  BY CheckStays DEF TaskChanges, Notify, NotInTasks, windowVars
<1>2. TaskTypes'
  BY DEF TaskChanges, Notify, TaskTypes, StaleAreDead
<1>3. QED
  BY <1>1, <1>2

(* A task ends, or its process does: the file goes.                        *)
LEMMA TaskEndsPreserves ==
    ASSUME CheckInv, TaskTypes, NEW t \in Tasks, TaskEnds(t) PROVE CheckInv' /\ TaskTypes'
<1>1. CheckInv'
  BY CheckStays DEF TaskEnds, Notify, NotInTasks, windowVars
<1>2. TaskTypes'
  BY DEF TaskEnds, Notify, TaskTypes, StaleAreDead
<1>3. QED
  BY <1>1, <1>2

(* A process is frozen, or runs again: not one whose file is stale.        *)
LEMMA FreezePreserves ==
    ASSUME CheckInv, TaskTypes, NEW t \in Tasks, Freeze(t) PROVE CheckInv' /\ TaskTypes'
<1>1. CheckInv'
  BY CheckStays DEF Freeze, NotInTasks, windowVars
<1>2. TaskTypes'
  BY DEF Freeze, TaskTypes, StaleAreDead
<1>3. QED
  BY <1>1, <1>2

(* The notification of the folder starts the delay.                        *)
LEMMA OnModTasksChangedPreserves ==
    ASSUME CheckInv, TaskTypes, OnModTasksChanged PROVE CheckInv' /\ TaskTypes'
<1>1. CheckInv'
  BY CheckStays DEF OnModTasksChanged, Handles, NotInTasks, windowVars
<1>2. TaskTypes'
  BY DialogTypes DEF OnModTasksChanged, Handles, TaskTypes, StaleAreDead
<1>3. QED
  BY <1>1, <1>2

(* The delay is over and the notification is made anew.                    *)
LEMMA OnModTasksTimerPreserves ==
    ASSUME CheckInv, TaskTypes, OnModTasksTimer PROVE CheckInv' /\ TaskTypes'
<1>1. CheckInv'
  BY CheckStays DEF OnModTasksTimer, Handles, NotInTasks, windowVars
<1>2. TaskTypes'
  BY DEF OnModTasksTimer, Handles, TaskTypes, StaleAreDead
<1>3. QED
  BY <1>1, <1>2

(* The window looks into the folder.                                       *)
LEMMA LookForTasksPreserves ==
    ASSUME CheckInv, TaskTypes, LookForTasks PROVE CheckInv' /\ TaskTypes'
<1>1. CheckInv'
  BY CheckStays DEF LookForTasks, NotInTasks, windowVars
<1>2. TaskTypes'
  BY DEF LookForTasks, TaskTypes, StaleAreDead
<1>3. QED
  BY <1>1, <1>2

(* The window opens the dialog of tasks.                                   *)
LEMMA OpenDialogPreserves ==
    ASSUME CheckInv, TaskTypes, OpenDialog PROVE CheckInv' /\ TaskTypes'
<1>1. CheckInv'
  BY CheckStays DEF OpenDialog, NoDialog, Dialogs, NotInTasks, windowVars
<1>2. TaskTypes'
  BY DEF OpenDialog, NoDialog, Dialogs, TaskTypes, StaleAreDead
<1>3. QED
  BY <1>1, <1>2

(* The dialog reads the folder and removes stale files, none of which is of  *)
(* a frozen process.                                                       *)
LEMMA RefreshTaskListPreserves ==
    ASSUME CheckInv, TaskTypes, RefreshTaskList PROVE CheckInv' /\ TaskTypes'
<1>1. CheckInv'
  BY CheckStays DEF RefreshTaskList, Handles, Notify, NotInTasks, windowVars
<1>2. TaskTypes'
  <2>1. CASE /\ dlg' = NoDialog /\ UNCHANGED <<tasks, stale, early, skipped, notice>>
             /\ failed' = TRUE
    BY <2>1, DialogTypes DEF RefreshTaskList, TaskTypes, StaleAreDead
  <2>2. CASE /\ skipped' \in SUBSET (IF "tasksFail" \in Faults THEN tasks ELSE {})
             /\ dlg' = Updated([dlg EXCEPT !.refresh = FALSE,
                                           !.rows = tasks \ (stale \union skipped'),
                                           !.known = frozen \ skipped'])
             /\ tasks' = tasks \ (stale \ skipped') /\ early' = early \ (stale \ skipped')
             /\ stale' = stale \intersect skipped'
             /\ IF tasks' # tasks THEN Notify ELSE UNCHANGED notice
             /\ UNCHANGED failed
    <3>1. /\ dlg \in Dialogs /\ tasks \ (stale \union skipped') \in SUBSET Tasks
          /\ frozen \ skipped' \in SUBSET Tasks /\ skipped' \subseteq tasks
      BY <2>2 DEF TaskTypes
    <3>2. dlg' \in Dialogs
      BY <2>2, <3>1, DialogTypes
    <3>3. notice' \in {"none", "armed", "signaled"}
      BY <2>2 DEF Notify, TaskTypes
    <3>4. /\ stale' \subseteq tasks' /\ early' \subseteq tasks' /\ skipped' \subseteq tasks'
          /\ tasks' \subseteq Tasks /\ frozen \subseteq tasks' /\ frozen \intersect stale' = {}
      BY <2>2, <3>1 DEF TaskTypes, StaleAreDead
    <3>5. QED
      BY <2>2, <3>2, <3>3, <3>4 DEF RefreshTaskList, TaskTypes, StaleAreDead
  <2>3. QED
    BY <2>1, <2>2 DEF RefreshTaskList
<1>3. QED
  BY <1>1, <1>2

(* The dialog shows itself after its delay.                                *)
LEMMA ShowDialogPreserves ==
    ASSUME CheckInv, TaskTypes, ShowDialog PROVE CheckInv' /\ TaskTypes'
<1>1. CheckInv'
  BY CheckStays DEF ShowDialog, Handles, NotInTasks, windowVars
<1>2. TaskTypes'
  BY DialogTypes DEF ShowDialog, Handles, TaskTypes, StaleAreDead
<1>3. QED
  BY <1>1, <1>2

(* The dialog asks which processes are frozen.                             *)
LEMMA UpdateProcessesStatusPreserves ==
    ASSUME CheckInv, TaskTypes, UpdateProcessesStatus PROVE CheckInv' /\ TaskTypes'
<1>1. CheckInv'
  BY CheckStays DEF UpdateProcessesStatus, Handles, NotInTasks, windowVars
<1>2. TaskTypes'
  BY DialogTypes DEF UpdateProcessesStatus, Handles, TaskTypes, StaleAreDead
<1>3. QED
  BY <1>1, <1>2

------------------------------------------------------------------------------
(* A step of the checks changes nothing of the tasks.                      *)
LEMMA TasksStay == ASSUME TaskTypes, UNCHANGED taskVars PROVE TaskTypes'
  BY DEF TaskTypes, taskVars, StaleAreDead

(* IInv is inductive.                                                      *)
LEMMA NextPreserves == ASSUME IInv, [Next]_vars PROVE IInv'
<1>1. CheckInv /\ TaskTypes
  BY Parts
<1> SUFFICES CheckInv' /\ TaskTypes'
  BY DEF IInv, CheckInv, TypeOK, CheckTypes, TaskTypes
<1>2. CASE UNCHANGED vars
  BY <1>1, <1>2, CheckStays, TasksStay DEF vars, windowVars
<1>3. CASE PostCompletes \/ GetCompletes \/ CallbackStep
  BY <1>1, <1>3, PostCompletesPreserves, GetCompletesPreserves, OnRequestDonePreserves,
     RetryWithGetPreserves, GetSentPreserves, UnlockPreserves, TasksStay
     DEF CallbackStep
<1>4. CASE UiStep
  BY <1>1, <1>4, PostSentPreserves, ClosePostPreserves, CloseGetPreserves,
     UpdateCheckerDestroyedPreserves, LookForTasksPreserves, OpenDialogPreserves,
     TasksStay DEF UiStep
<1>5. CASE OnUpdateCheckTimer \/ OnUpdateChecked \/ ChangeSettings \/ LoadSettings
           \/ OnPowerBroadcast \/ Exit
  BY <1>1, <1>5, OnUpdateCheckTimerPreserves, OnUpdateCheckedPreserves,
     ChangeSettingsPreserves, LoadSettingsPreserves, OnPowerBroadcastPreserves,
     ExitPreserves, TasksStay
<1>6. CASE \E t \in Tasks : TaskBegins(t) \/ TaskChanges(t) \/ TaskEnds(t) \/ Freeze(t)
  BY <1>1, <1>6, TaskBeginsPreserves, TaskChangesPreserves, TaskEndsPreserves,
     FreezePreserves
<1>7. CASE OnModTasksChanged \/ OnModTasksTimer \/ RefreshTaskList \/ ShowDialog
           \/ UpdateProcessesStatus
  BY <1>1, <1>7, OnModTasksChangedPreserves, OnModTasksTimerPreserves,
     RefreshTaskListPreserves, ShowDialogPreserves, UpdateProcessesStatusPreserves
<1>8. QED
  BY <1>2, <1>3, <1>4, <1>5, <1>6, <1>7 DEF Next

(* At first there is no check, and a timer when checks are on.             *)
LEMMA InitIInv == ASSUME Init PROVE IInv
<1>1. CheckInv
  BY DEF Init, CheckInv, CheckTypes, CheckerOK, AbortOK, TimerOK, Untold, Told, Requests
<1>2. TaskTypes
  BY DialogTypes DEF Init, TaskTypes, StaleAreDead
<1>3. QED
  BY <1>1, <1>2, Parts

(* The inductive invariant holds in every reachable state.                 *)
THEOREM IInvAlways == Spec => []IInv
<1>1. Init => IInv
  BY InitIInv
<1>2. IInv /\ [Next]_vars => IInv'
  BY NextPreserves
<1>3. QED
  BY <1>1, <1>2, PTL DEF Spec

(* Every variable keeps its type: there is never more than one report of a   *)
(* check in the queue, and none without a checker for OnUpdateChecked.      *)
THEOREM TypeCorrect == Spec => []TypeOK
<1>1. IInv => TypeOK
  BY DEF IInv
<1>2. QED
  BY <1>1, IInvAlways, PTL

(* The timer, the check and the setting agree, and UpdateChecker::Abort is    *)
(* not overtaken by the retry of the callback.                              *)
THEOREM ChecksAsSet == Spec => []ChecksFollowSetting
<1>1. IInv => ChecksFollowSetting
  BY DEF IInv, TypeOK, CheckerOK, AbortOK, TimerOK, ChecksFollowSetting
<1>2. QED
  BY <1>1, IInvAlways, PTL
==============================================================================
