------------------------------ MODULE TrayWindow ------------------------------
(***************************************************************************)
(* The main window of the tray program in a portable installation          *)
(* (CMainWindow of app/main_window.cpp): the periodic check for updates    *)
(* (UpdateChecker, CWinHTTPSimple), its abort when checks are disabled or  *)
(* the program exits, and the dialog with the tasks of mods that last      *)
(* (CTaskManagerDlg in autonomous mode).  One thread handles the timers,   *)
(* messages and events of the window; the callbacks of the two requests    *)
(* run on threads of WinHTTP, the files of the tasks belong to the         *)
(* processes that are being customized.                                    *)
(***************************************************************************)
EXTENDS Naturals

CONSTANTS Tasks,   \* the files a mod's task may have in the folder mod-task
          Faults   \* what may go wrong, see FaultKinds

(*   "earlyReply"    a request completes before SendRequest has stored the *)
(*                   callback that is to be told;                          *)
(*   "requestFails"  a request cannot be made or sent;                     *)
(*   "settingsFail"  the settings cannot be read;                          *)
(*   "tasksFail"     the folder of the tasks cannot be monitored or read,  *)
(*                   or a file in it, or the dialog not created.           *)
FaultKinds == {"earlyReply", "requestFails", "settingsFail", "tasksFail"}

ASSUME TrayAssumption == Faults \subseteq FaultKinds

VARIABLES window,   \* the window, and m_exitWhenUpdateCheckDone
          ui,       \* where the thread of the window is
          (* Checks for updates. *)
          disabled, \* DisableUpdateCheck, as it is stored
          settingsEvent,  \* m_appSettingsChangedEvent is set
          checks,   \* m_checkForUpdates
          timer,    \* Timer::kUpdateCheck is set
          posted,   \* UWM_UPDATE_CHECKED messages that wait in the queue
          (* m_updateChecker, which there is unless post is "none". *)
          aborted,  \* m_aborted
          post,     \* m_httpSimple
          get,      \* m_httpSimpleGetRequest
          callback, \* where the callback of the POST request is
          (* Tasks of mods. *)
          tasks,    \* the files in the folder
          stale,    \* those of them that another session has left
          frozen,   \* those whose process is frozen (IsProcessFrozen)
          early,    \* history: those unchanged since before the window was made
          skipped,  \* history: those the last refresh could not read or remove,
                    \* and unchanged since
          notice,   \* m_modTasksChangeNotification
          createTimer,  \* Timer::kModTasksDlgCreate is set
          dlg,      \* m_modTasksDlg
          failed    \* history: something of tasksFail has happened, and not to
                    \* a single file

windowVars == <<window, ui>>
updateVars == <<disabled, settingsEvent, checks, timer, posted>>
checkerVars == <<aborted, post, get, callback>>
taskVars == <<tasks, stale, frozen, early, skipped, notice, createTimer, dlg, failed>>
vars == <<windowVars, updateVars, checkerVars, taskVars>>

(* A request: sent, then the callback is stored, then it is over; closing    *)
(* its handle cancels it.  "refused" is the answer 405.                    *)
Requests == {"none", "issued", "pending", "closed", "refused", "over", "lost"}

(* The dialog: its rows, the rows it shows as frozen, whether it is visible, *)
(* and its timers kRefreshList and kShowDlg.                               *)
NoDialog == [exists |-> FALSE, rows |-> {}, known |-> {}, visible |-> FALSE,
             refresh |-> FALSE, show |-> FALSE]
Dialogs == [exists : BOOLEAN, rows : SUBSET Tasks, known : SUBSET Tasks,
            visible : BOOLEAN, refresh : BOOLEAN, show : BOOLEAN]

(* The end of OnCreate; m_disableUpdateCheck is TRUE when LoadSettings fails. *)
Init ==
    /\ window = "up" /\ ui = "idle"
    /\ disabled \in BOOLEAN
    /\ settingsEvent = FALSE
    /\ \/ checks = ~disabled
       \/ checks = FALSE /\ "settingsFail" \in Faults
    /\ timer = checks
    /\ posted = 0
    /\ aborted = FALSE /\ post = "none" /\ get = "none" /\ callback = "none"
    /\ tasks \in SUBSET Tasks
    /\ stale \in SUBSET tasks
    /\ frozen = {} /\ early = tasks /\ skipped = {}
    /\ failed \in IF "tasksFail" \in Faults THEN BOOLEAN ELSE {FALSE}
    /\ notice = IF failed THEN "none" ELSE "armed"
    /\ createTimer = FALSE
    /\ dlg = NoDialog

Handles == ui = "idle" /\ window # "destroyed"

------------------------------------------------------------------------------
(* The requests (CWinHTTPSimple).                                          *)

Sent(request) == IF request = "issued" THEN "pending" ELSE request
Closed(request) == IF request = "pending" THEN "closed" ELSE request

(* WinHTTP completes a request: with an answer, an error, or because its   *)
(* handle was closed.                                                      *)
Outcomes(request) ==
    CASE request = "issued"  -> IF "earlyReply" \in Faults THEN {"lost"} ELSE {}
      [] request = "pending" -> {"over", "refused"}
      [] request = "closed"  -> {"over"}
      [] OTHER -> {}

PostCompletes ==
    /\ post' \in Outcomes(post)
    /\ callback' = IF post' = "lost" THEN callback ELSE "done"
    /\ UNCHANGED <<windowVars, updateVars, aborted, get, taskVars>>

GetCompletes ==
    /\ get' \in Outcomes(get)
    /\ posted' = IF get' = "lost" THEN posted ELSE posted + 1
    /\ UNCHANGED <<windowVars, disabled, settingsEvent, checks, timer,
                   aborted, post, callback, taskVars>>

(* m_onUpdateCheckDone, and the callback of the POST request returns.      *)
UpdateCheckDone == posted' = posted + 1 /\ callback' = "none"

(* Mutant: a check that was aborted is not reported.                        *)
OnRequestDoneUnlessAborted ==
    /\ callback = "done"
    /\ IF aborted
       THEN callback' = "none" /\ UNCHANGED posted
       ELSE IF post = "refused"
       THEN callback' = "lock" /\ UNCHANGED posted
       ELSE UpdateCheckDone
    /\ UNCHANGED <<windowVars, disabled, settingsEvent, checks, timer,
                   aborted, post, get, taskVars>>

(* UpdateChecker::OnRequestDone, in the callback of the POST request: a      *)
(* server that does not take it is asked again with a GET request.         *)
OnRequestDone ==
    /\ callback = "done"
    /\ IF post = "refused" /\ ~aborted
       THEN callback' = "lock" /\ UNCHANGED posted
       ELSE UpdateCheckDone
    /\ UNCHANGED <<windowVars, disabled, settingsEvent, checks, timer,
                   aborted, post, get, taskVars>>

(* A request that cannot be made or sent.  Sending it throws a               *)
(* std::exception, which is caught.  The constructor of CWinHTTPSimple       *)
(* throws a CAtlException, which is none: nobody catches it and the program  *)
(* ends, or, where the stack is unwound first, the downloader that is        *)
(* destroyed waits, without a limit, to be told that its handle is closed,   *)
(* and WinHTTP tells only of a request that was sent.                        *)
ProgramEnds == window' = "destroyed" /\ ui' = "idle"

(* The retry: the check is reported, or the callback keeps the mutex.       *)
GetFails ==
    /\ "requestFails" \in Faults
    /\ \/ UpdateCheckDone /\ UNCHANGED windowVars
       \/ callback' = "hung" /\ UNCHANGED <<windowVars, posted>>
       \/ ProgramEnds /\ callback' = "none" /\ UNCHANGED posted
    /\ UNCHANGED get

(* Mutant: m_aborted is not looked at again under the lock.                 *)
RetryWithGetUnchecked ==
    /\ callback = "lock"
    /\ \/ get' = "issued" /\ callback' = "sending" /\ UNCHANGED <<windowVars, posted>>
       \/ GetFails
    /\ UNCHANGED <<disabled, settingsEvent, checks, timer, aborted, post, taskVars>>

(* Mutant: the return after the request has been sent is missing.           *)
RetryWithGetAndPost ==
    /\ callback = "lock"
    /\ \/ aborted /\ UpdateCheckDone /\ UNCHANGED <<windowVars, get>>
       \/ /\ ~aborted
          /\ \/ /\ get' = "issued" /\ callback' = "sending" /\ posted' = posted + 1
                /\ UNCHANGED windowVars
             \/ GetFails
    /\ UNCHANGED <<disabled, settingsEvent, checks, timer, aborted, post, taskVars>>

(* The callback takes m_httpSimpleGetRequestMutex, which nobody else holds   *)
(* for longer than a step of the window's thread, and keeps it while it     *)
(* sends.                                                                  *)
RetryWithGet ==
    /\ callback = "lock"
    /\ \/ aborted /\ UpdateCheckDone /\ UNCHANGED <<windowVars, get>>
       \/ /\ ~aborted
          /\ \/ get' = "issued" /\ callback' = "sending" /\ UNCHANGED <<windowVars, posted>>
             \/ GetFails
    /\ UNCHANGED <<disabled, settingsEvent, checks, timer, aborted, post, taskVars>>

GetSent ==
    /\ callback = "sending"
    /\ get' = Sent(get)
    /\ callback' = "unlock"
    /\ UNCHANGED <<windowVars, updateVars, aborted, post, taskVars>>

Unlock ==
    /\ callback = "unlock"
    /\ callback' = "none"
    /\ UNCHANGED <<windowVars, updateVars, aborted, post, get, taskVars>>

------------------------------------------------------------------------------
(* The checks for updates, on the thread of the window.                    *)

(* What OnTimer catches makes it set the timer again.                      *)
PostFails ==
    /\ "requestFails" \in Faults
    /\ \/ UNCHANGED <<windowVars, timer>>
       \/ ui' = "hung" /\ timer' = FALSE /\ UNCHANGED window
       \/ ProgramEnds /\ timer' = FALSE
    /\ UNCHANGED post

OnUpdateCheckTimer ==
    /\ Handles /\ timer
    /\ \/ timer' = FALSE /\ post' = "issued" /\ ui' = "sending" /\ UNCHANGED window
       \/ PostFails
    /\ UNCHANGED <<disabled, settingsEvent, checks, posted, aborted, get, callback, taskVars>>

PostSent ==
    /\ ui = "sending"
    /\ post' = Sent(post) /\ ui' = "idle"
    /\ UNCHANGED <<window, updateVars, aborted, get, callback, taskVars>>

(* UpdateChecker::Abort, from m_aborted to the POST request to the GET      *)
(* request, for which it waits for the mutex: for ever, when a callback      *)
(* hangs that has it.                                                       *)
Abort == aborted' = TRUE /\ ui' = "closePost"

ClosePost ==
    /\ ui = "closePost"
    /\ post' = Closed(post) /\ ui' = "closeGet"
    /\ UNCHANGED <<window, updateVars, aborted, get, callback, taskVars>>

CloseGet ==
    /\ ui = "closeGet" /\ callback \notin {"sending", "unlock", "hung"}
    /\ get' = Closed(get) /\ ui' = "idle"
    /\ UNCHANGED <<window, updateVars, aborted, post, callback, taskVars>>

(* OnUpdateChecked: the response is handled and m_updateChecker destroyed,  *)
(* which waits until both requests have closed their handles.              *)
OnUpdateChecked ==
    /\ Handles /\ posted > 0
    /\ posted' = posted - 1
    /\ ui' = "destroy"
    /\ UNCHANGED <<window, disabled, settingsEvent, checks, timer, checkerVars,
                   taskVars>>

UpdateCheckerDestroyed ==
    /\ ui = "destroy" /\ callback = "none"
    /\ aborted' = FALSE /\ post' = "none" /\ get' = "none"
    /\ ui' = "idle"
    /\ IF window = "exiting"
       THEN window' = "destroyed" /\ UNCHANGED timer
       ELSE timer' = (timer \/ checks) /\ UNCHANGED window
    /\ UNCHANGED <<disabled, settingsEvent, checks, posted, callback, taskVars>>

(* The extension stores the setting and sets the event.                    *)
ChangeSettings ==
    /\ disabled' = ~disabled
    /\ settingsEvent' = TRUE
    /\ UNCHANGED <<windowVars, checks, timer, posted, checkerVars, taskVars>>

(* LoadSettings, of which only DisableUpdateCheck matters here.            *)
LoadSettings ==
    /\ Handles /\ settingsEvent
    /\ settingsEvent' = FALSE
    /\ \/ checks' = ~disabled
       \/ "settingsFail" \in Faults /\ checks' = checks
    /\ IF checks' = checks THEN UNCHANGED <<timer, aborted, ui>>
       ELSE IF post = "none"
       THEN timer' = checks' /\ UNCHANGED <<aborted, ui>>
       ELSE /\ UNCHANGED timer
            /\ IF checks' THEN UNCHANGED <<aborted, ui>> ELSE Abort
    /\ UNCHANGED <<window, disabled, posted, post, get, callback, taskVars>>

(* OnPowerBroadcast: the next check is due by the clock.                   *)
OnPowerBroadcast ==
    /\ Handles /\ checks /\ post = "none"
    /\ timer' = TRUE
    /\ UNCHANGED <<windowVars, disabled, settingsEvent, checks, posted,
                   checkerVars, taskVars>>

(* m_exitWhenUpdateCheckDone is set after Abort has returned; only the same *)
(* thread looks at it.                                                     *)
Exit ==
    /\ Handles
    /\ IF post # "none"
       THEN window' = "exiting" /\ Abort /\ UNCHANGED timer
       ELSE window' = "destroyed" /\ timer' = FALSE /\ UNCHANGED <<ui, aborted>>
    /\ UNCHANGED <<disabled, settingsEvent, checks, posted, post, get, callback,
                   taskVars>>

------------------------------------------------------------------------------
(* The tasks of mods: their processes write them, a file each.             *)

NotInTasks == <<windowVars, updateVars, checkerVars>>

Notify == notice' = IF notice = "armed" THEN "signaled" ELSE notice

TaskBegins(t) ==
    /\ t \notin tasks
    /\ tasks' = tasks \union {t}
    /\ Notify
    /\ UNCHANGED <<NotInTasks, stale, frozen, early, skipped, createTimer, dlg, failed>>

TaskChanges(t) ==
    /\ t \in tasks \ stale
    /\ early' = early \ {t} /\ skipped' = skipped \ {t}
    /\ Notify
    /\ UNCHANGED <<NotInTasks, tasks, stale, frozen, createTimer, dlg, failed>>

(* FILE_FLAG_DELETE_ON_CLOSE: also when the process dies.                   *)
TaskEnds(t) ==
    /\ t \in tasks \ stale
    /\ tasks' = tasks \ {t} /\ frozen' = frozen \ {t}
    /\ early' = early \ {t} /\ skipped' = skipped \ {t}
    /\ Notify
    /\ UNCHANGED <<NotInTasks, stale, createTimer, dlg, failed>>

Freeze(t) ==
    /\ t \in tasks \ stale
    /\ frozen' = IF t \in frozen THEN frozen \ {t} ELSE frozen \union {t}
    /\ UNCHANGED <<NotInTasks, tasks, stale, early, skipped, notice, createTimer, dlg,
                   failed>>

(* OnIdle, kModTasksChanged.  Without a dialog, it waits a second first.   *)
OnModTasksChanged ==
    /\ Handles /\ notice = "signaled"
    /\ IF dlg.exists
       THEN /\ dlg' = [dlg EXCEPT !.refresh = TRUE]
            /\ \/ notice' = "armed" /\ UNCHANGED failed
               \/ "tasksFail" \in Faults /\ notice' = "none" /\ failed' = TRUE
            /\ UNCHANGED createTimer
       ELSE /\ notice' = "none"
            /\ createTimer' = TRUE
            /\ UNCHANGED <<dlg, failed>>
    /\ UNCHANGED <<NotInTasks, tasks, stale, frozen, early, skipped>>

(* Mutant: the notification is made anew only when there is a dialog to open. *)
OnModTasksTimerWithTasks ==
    /\ Handles /\ createTimer
    /\ createTimer' = FALSE
    /\ notice' = IF tasks = {} THEN "none" ELSE "armed"
    /\ ui' = "lookForTasks"
    /\ UNCHANGED <<window, updateVars, checkerVars, tasks, stale, frozen, early,
                   skipped, dlg, failed>>

(* OnTimer, kModTasksDlgCreate: the notification first ...                 *)
OnModTasksTimer ==
    /\ Handles /\ createTimer
    /\ createTimer' = FALSE
    /\ \/ notice' = "armed" /\ ui' = "lookForTasks" /\ UNCHANGED failed
       \/ "tasksFail" \in Faults /\ failed' = TRUE /\ UNCHANGED <<notice, ui>>
    /\ UNCHANGED <<window, updateVars, checkerVars, tasks, stale, frozen, early,
                   skipped, dlg>>

(* ... then IsDataSourceEmpty ...                                          *)
LookForTasks ==
    /\ ui = "lookForTasks"
    /\ \/ ui' = (IF tasks = {} THEN "idle" ELSE "openDialog") /\ UNCHANGED failed
       \/ "tasksFail" \in Faults /\ ui' = "idle" /\ failed' = TRUE
    /\ UNCHANGED <<window, updateVars, checkerVars, tasks, stale, frozen, early,
                   skipped, notice, createTimer, dlg>>

(* ... and OnInitDialog of the dialog, hidden at first.                    *)
OpenDialog ==
    /\ ui = "openDialog"
    /\ ui' = "idle"
    /\ \/ /\ dlg' = [NoDialog EXCEPT !.exists = TRUE, !.refresh = TRUE, !.show = TRUE]
          /\ UNCHANGED failed
       \/ "tasksFail" \in Faults /\ failed' = TRUE /\ UNCHANGED dlg
    /\ UNCHANGED <<window, updateVars, checkerVars, tasks, stale, frozen, early,
                   skipped, notice, createTimer>>

(* UpdateDialogAfterListUpdate: no rows, only frozen ones, or one to show.  *)
Updated(d) ==
    IF d.rows = {} THEN NoDialog
    ELSE IF d.rows = d.known THEN [d EXCEPT !.visible = FALSE, !.show = FALSE]
    ELSE [d EXCEPT !.show = @ \/ ~d.visible]

(* RefreshTaskList: the files of other sessions are removed, the others are *)
(* the rows.  A file that cannot be removed stays, one that cannot be read   *)
(* is no row, and nothing tries again until the folder changes; when the     *)
(* folder itself cannot be read, the dialog is destroyed.                   *)
RefreshTaskList ==
    /\ Handles /\ dlg.refresh
    /\ \/ /\ skipped' \in SUBSET (IF "tasksFail" \in Faults THEN tasks ELSE {})
          /\ dlg' = Updated([dlg EXCEPT !.refresh = FALSE,
                                        !.rows = tasks \ (stale \union skipped'),
                                        !.known = frozen \ skipped'])
          /\ tasks' = tasks \ (stale \ skipped') /\ early' = early \ (stale \ skipped')
          /\ stale' = stale \intersect skipped'
          /\ IF tasks' # tasks THEN Notify ELSE UNCHANGED notice
          /\ UNCHANGED failed
       \/ /\ "tasksFail" \in Faults
          /\ dlg' = NoDialog /\ failed' = TRUE
          /\ UNCHANGED <<tasks, stale, early, skipped, notice>>
    /\ UNCHANGED <<NotInTasks, frozen, createTimer>>

(* kShowDlg, at a time when CanShowDialog allows.                           *)
ShowDialog ==
    /\ Handles /\ dlg.show
    /\ dlg' = [dlg EXCEPT !.show = FALSE, !.visible = TRUE]
    /\ UNCHANGED <<NotInTasks, tasks, stale, frozen, early, skipped, notice, createTimer,
                   failed>>

(* UpdateTaskListProcessesStatus, by a timer of the dialog.                *)
UpdateProcessesStatus ==
    /\ Handles /\ dlg.known # dlg.rows \intersect frozen
    /\ dlg' = Updated([dlg EXCEPT !.known = dlg.rows \intersect frozen])
    /\ UNCHANGED <<NotInTasks, tasks, stale, frozen, early, skipped, notice, createTimer,
                   failed>>

------------------------------------------------------------------------------
CallbackStep == OnRequestDone \/ RetryWithGet \/ GetSent \/ Unlock

(* What the thread of the window has begun.                                *)
UiStep == PostSent \/ ClosePost \/ CloseGet \/ UpdateCheckerDestroyed
          \/ LookForTasks \/ OpenDialog

Next ==
    \/ PostCompletes \/ GetCompletes \/ CallbackStep
    \/ UiStep
    \/ OnUpdateCheckTimer \/ OnUpdateChecked \/ ChangeSettings \/ LoadSettings
    \/ OnPowerBroadcast \/ Exit
    \/ \E t \in Tasks : TaskBegins(t) \/ TaskChanges(t) \/ TaskEnds(t) \/ Freeze(t)
    \/ OnModTasksChanged \/ OnModTasksTimer \/ RefreshTaskList \/ ShowDialog
    \/ UpdateProcessesStatus

Spec == Init /\ [][Next]_vars

(* Threads go on with what they have begun, a closed handle is told of, and *)
(* the window gets to each timer, event and message in the end.  No server *)
(* has to answer.                                                          *)
FairSpec ==
    /\ Spec
    /\ WF_vars(CallbackStep) /\ WF_vars(UiStep)
    /\ WF_vars(post = "closed" /\ PostCompletes)
    /\ WF_vars(get = "closed" /\ GetCompletes)
    /\ SF_vars(OnUpdateChecked)
    /\ SF_vars(OnModTasksChanged) /\ SF_vars(OnModTasksTimer)
    /\ SF_vars(RefreshTaskList) /\ SF_vars(ShowDialog)
    /\ SF_vars(UpdateProcessesStatus)

------------------------------------------------------------------------------
(* A completion is told once, and OnUpdateChecked, which does not look,     *)
(* finds its checker.                                                      *)
TypeOK ==
    /\ window \in {"up", "exiting", "destroyed"}
    /\ ui \in {"idle", "sending", "closePost", "closeGet", "destroy",
               "lookForTasks", "openDialog", "hung"}
    /\ {disabled, settingsEvent, checks, timer, aborted, createTimer, failed}
           \subseteq BOOLEAN
    /\ posted \in (IF post = "none" \/ ui = "destroy" THEN {0} ELSE {0, 1})
    /\ {post, get} \subseteq Requests
    /\ callback \in {"none", "done", "lock", "sending", "unlock", "hung"}
    /\ stale \subseteq tasks /\ frozen \subseteq tasks
    /\ early \subseteq tasks /\ skipped \subseteq tasks
    /\ tasks \subseteq Tasks
    /\ notice \in {"none", "armed", "signaled"}
    /\ dlg \in Dialogs

(* As long as updates are to be checked there is a check or a timer for the *)
(* next, and never both; when they are disabled or the program exits there *)
(* is no timer, and a check that was running has no request left which the *)
(* server would have to answer: Abort is not overtaken by the retry.       *)
ChecksFollowSetting ==
    ui = "idle" /\ window # "destroyed" =>
        /\ timer => post = "none"
        /\ window = "up" /\ checks => timer \/ post # "none"
        /\ window = "exiting" \/ ~checks =>
               /\ ~timer
               /\ post \notin {"issued", "pending"} /\ get \notin {"issued", "pending"}

(* The thread of the window waits without a limit.                          *)
Hung == ui = "hung" \/ (ui = "closeGet" /\ callback = "hung")

(* The program ends when it is told to, whatever the server does, unless a  *)
(* request completed before its callback was stored, or the retry could not  *)
(* be made and its downloader waits for good.                               *)
ExitCompletes ==
    window = "exiting" ~> window = "destroyed" \/ "lost" \in {post, get} \/ callback = "hung"

(* A task that lasts is shown, unless its process is frozen, its file is     *)
(* older than the window or could not be read since it last changed, or the  *)
(* window hangs in a check for updates; when there are no tasks, the dialog  *)
(* goes.                                                                   *)
TasksAreShown ==
    /\ \A t \in Tasks :
         <>[](/\ t \in tasks \ (early \union frozen \union skipped)
              /\ window = "up" /\ ~failed /\ ~Hung)
             => <>[](dlg.visible /\ t \in dlg.rows)
    /\ <>[](tasks = {} /\ window = "up" /\ ~failed /\ ~Hung) => <>[](~dlg.exists)
==============================================================================
