----------------------------- MODULE TaskClient -----------------------------
(***************************************************************************)
(* The life of the agent's connection to the service: the task loop of     *)
(* main.go, which creates and closes agentendpoint Clients as the metadata *)
(* says, the goroutine of each Client that watches the notification stream *)
(* (WaitForTaskNotification, waitForTask, handleStream), and the functions *)
(* these goroutines hand to the tasker.                                    *)
(*                                                                         *)
(* The tasker is the abstract one of TaskQueue, which Tasker implements.   *)
(* A caller of Enqueue is blocked while pending[caller] holds its task.    *)
(* The goroutine that watches client c is called c.                        *)
(***************************************************************************)
EXTENDS TaskQueue, Naturals

CONSTANTS
    Clients,    \* the agentendpoint Clients the process may create
    NoClient,   \* nil
    Free,       \* the mutex of a Client is not held
    MaxErrs     \* stream errors in a row after which a watcher gives up (10)

Notification(c) == [kind |-> "TaskNotification", client |-> c]
PatchRun(c) == [kind |-> "PatchRun", client |-> c]
Inventory == [kind |-> "Report OSInventory", client |-> NoClient]

ASSUME CallersAssumption == Callers = {"loop", "service"} \cup Clients
ASSUME TasksAssumption ==
    Tasks = {Inventory} \cup UNION {{Notification(c), PatchRun(c)} : c \in Clients}
ASSUME ClientsAssumption ==
    /\ NoClient \notin Clients
    /\ {"loop", "service"} \cap Clients = {}
    /\ Free \notin {"loop", "watcher", "job"}
    /\ MaxErrs \in Nat \ {0}

VARIABLES
    enabled,   \* agentconfig.TaskNotificationEnabled()
    loop,      \* where runTaskLoop is
    cur,       \* its taskNotificationClient
    mutex,     \* mutex[c]: who holds c.mx
    isClosed,  \* isClosed[c]: c.closed, and the context of c is cancelled
    noti,      \* noti[c]: the element in c.noti, whose capacity is one
    watcher,   \* watcher[c]: where the goroutine that watches c is
    errs,      \* errs[c]: stream errors in a row
    unserved,  \* unserved[c]: c was notified after its last StartNextTask
    job,       \* where the function that the tasker runs is
    saved,     \* the state file holds a patch task
    service,   \* the service loop has passed its <-c
    ctxDone    \* the context of the process is cancelled (SIGTERM)

clientVars == <<enabled, loop, cur, mutex, isClosed, noti, watcher, errs,
                unserved, job, saved, service, ctxDone>>

vars == <<queueVars, clientVars>>

LoopStates == {"top", "start", "load", "close", "watch", "exit"}
WatcherStates == {"none", "select", "recv", "enqueue", "close", "exit"}
JobStates == {"none", "begin", "run", "unlock"}

(***************************************************************************)
(* Types; a job is in progress exactly while the tasker runs one.          *)
(***************************************************************************)
TypeOK ==
    /\ QueueTypeOK
    /\ enabled \in BOOLEAN
    /\ loop \in LoopStates
    /\ cur \in Clients \cup {NoClient}
    /\ mutex \in [Clients -> {Free, "loop", "watcher", "job"}]
    /\ isClosed \in [Clients -> BOOLEAN]
    /\ noti \in [Clients -> 0..1]
    /\ watcher \in [Clients -> WatcherStates]
    /\ errs \in [Clients -> 0..MaxErrs]
    /\ unserved \in [Clients -> BOOLEAN]
    /\ job \in JobStates
    /\ job = "none" <=> running = NoTask
    /\ saved \in BOOLEAN
    /\ service \in BOOLEAN
    /\ ctxDone \in BOOLEAN

\* The state file may hold a task of an earlier process.
Init ==
    /\ QueueInit
    /\ enabled \in BOOLEAN
    /\ loop = "top"
    /\ cur = NoClient
    /\ mutex = [c \in Clients |-> Free]
    /\ isClosed = [c \in Clients |-> FALSE]
    /\ noti = [c \in Clients |-> 0]
    /\ watcher = [c \in Clients |-> "none"]
    /\ errs = [c \in Clients |-> 0]
    /\ unserved = [c \in Clients |-> FALSE]
    /\ job = "none"
    /\ saved \in BOOLEAN
    /\ service = FALSE
    /\ ctxDone = FALSE

Done(c) == ctxDone \/ isClosed[c]

\* Client.Close by the goroutine `who`: the lock is never released.
CloseClient(c, who) ==
    /\ mutex[c] = Free
    /\ mutex' = [mutex EXCEPT ![c] = who]
    /\ isClosed' = [isClosed EXCEPT ![c] = TRUE]

-----------------------------------------------------------------------------
(* runTaskLoop *)

\* Variant of NeedsClient that replaces a Client which is still open.
AlwaysNeedsClient == TRUE

NeedsClient == cur \notin {c \in Clients : ~isClosed[c]}

LoopNewClient(c) ==
    /\ loop = "top"
    /\ enabled
    /\ NeedsClient
    /\ c # cur /\ watcher[c] = "none"
    /\ cur' = c
    /\ loop' = "start"
    /\ UNCHANGED <<queueVars, enabled, mutex, isClosed, noti, watcher, errs,
                   unserved, job, saved, service, ctxDone>>

\* NewClient fails: taskNotificationClient is nil.
LoopNewClientError ==
    /\ loop = "top"
    /\ enabled
    /\ NeedsClient
    /\ cur' = NoClient
    /\ loop' = "watch"
    /\ UNCHANGED <<queueVars, enabled, mutex, isClosed, noti, watcher, errs,
                   unserved, job, saved, service, ctxDone>>

\* Disabled: the loop sees an open client and goes on to close it.
LoopDisable ==
    /\ loop = "top"
    /\ ~enabled
    /\ ~NeedsClient
    /\ loop' = "close"
    /\ UNCHANGED <<queueVars, enabled, cur, mutex, isClosed, noti, watcher, errs,
                   unserved, job, saved, service, ctxDone>>

LoopNothing ==
    /\ loop = "top"
    /\ enabled <=> ~NeedsClient
    /\ loop' = "watch"
    /\ UNCHANGED <<queueVars, enabled, cur, mutex, isClosed, noti, watcher, errs,
                   unserved, job, saved, service, ctxDone>>

LoopClose ==
    /\ loop = "close"
    /\ CloseClient(cur, "loop")
    /\ loop' = "watch"
    /\ UNCHANGED <<queueVars, enabled, cur, noti, watcher, errs, unserved, job,
                   saved, service, ctxDone>>

\* Variant of LoopResume that starts the watcher before the saved task is
\* handed over.
LoopResumeAfterWatcher ==
    /\ loop = "start"
    /\ mutex[cur] = Free
    /\ saved
    /\ Submit("loop", PatchRun(cur))
    /\ mutex' = [mutex EXCEPT ![cur] = "loop"]
    /\ watcher' = [watcher EXCEPT ![cur] = "select"]
    /\ loop' = "load"
    /\ UNCHANGED <<enabled, cur, isClosed, noti, errs, unserved, job, saved,
                   service, ctxDone>>

\* WaitForTaskNotification with a saved task: Enqueue under c.mx.
LoopResume ==
    /\ loop = "start"
    /\ mutex[cur] = Free
    /\ saved
    /\ Submit("loop", PatchRun(cur))
    /\ mutex' = [mutex EXCEPT ![cur] = "loop"]
    /\ loop' = "load"
    /\ UNCHANGED <<enabled, cur, isClosed, noti, watcher, errs, unserved, job,
                   saved, service, ctxDone>>

LoopResumed ==
    /\ loop = "load"
    /\ pending["loop"] = NoTask
    /\ mutex' = [mutex EXCEPT ![cur] = Free]
    /\ watcher' = [watcher EXCEPT ![cur] = "select"]
    /\ loop' = "watch"
    /\ UNCHANGED <<queueVars, enabled, cur, isClosed, noti, errs, unserved, job,
                   saved, service, ctxDone>>

\* WaitForTaskNotification with no saved task, or one that does not load.
LoopWatchOnly ==
    /\ loop = "start"
    /\ mutex[cur] = Free
    /\ watcher' = [watcher EXCEPT ![cur] = "select"]
    /\ loop' = "watch"
    /\ UNCHANGED <<queueVars, enabled, cur, mutex, isClosed, noti, errs, unserved,
                   job, saved, service, ctxDone>>

\* The signal to the service loop, then WatchConfig.
LoopWatchConfig ==
    /\ loop = "watch"
    /\ service' = TRUE
    /\ enabled' \in BOOLEAN
    /\ loop' = IF ctxDone THEN "exit" ELSE "top"
    /\ UNCHANGED <<queueVars, cur, mutex, isClosed, noti, watcher, errs, unserved,
                   job, saved, ctxDone>>

-----------------------------------------------------------------------------
(* The goroutine of WaitForTaskNotification, waitForTask and handleStream *)

WatcherStep(c, from, to) ==
    /\ watcher[c] = from
    /\ watcher' = [watcher EXCEPT ![c] = to]
    /\ UNCHANGED <<enabled, loop, cur, job, saved, service, ctxDone>>

WatcherSelect(c) ==
    /\ WatcherStep(c, "select", IF Done(c) THEN "exit" ELSE "recv")
    /\ UNCHANGED <<queueVars, mutex, isClosed, noti, errs, unserved>>

\* A notification, and room in c.noti: the function is handed over.  The
\* select may take this branch even if the client is cancelled.
WatcherEnqueue(c) ==
    /\ noti[c] = 0
    /\ WatcherStep(c, "recv", "enqueue")
    /\ noti' = [noti EXCEPT ![c] = 1]
    /\ unserved' = [unserved EXCEPT ![c] = TRUE]
    /\ Submit(c, Notification(c))
    /\ UNCHANGED <<mutex, isClosed, errs>>

WatcherEnqueued(c) ==
    /\ pending[c] = NoTask
    /\ WatcherStep(c, "enqueue", "recv")
    /\ UNCHANGED <<queueVars, mutex, isClosed, noti, errs, unserved>>

\* A notification that is ignored as one is already queued.
WatcherIgnore(c) ==
    /\ noti[c] = 1 /\ ~Done(c)
    /\ WatcherStep(c, "recv", "recv")
    /\ unserved' = [unserved EXCEPT ![c] = TRUE]
    /\ UNCHANGED <<queueVars, mutex, isClosed, noti, errs>>

\* handleStream returns nil: end of the stream, or a notification to a
\* cancelled client.
WatcherReconnect(c) ==
    /\ WatcherStep(c, "recv", "select")
    /\ errs' = [errs EXCEPT ![c] = 0]
    /\ UNCHANGED <<queueVars, mutex, isClosed, noti, unserved>>

\* ResourceExhausted: sleep and retry, as often as it takes.
WatcherExhausted(c) ==
    /\ WatcherStep(c, "recv", "select")
    /\ UNCHANGED <<queueVars, mutex, isClosed, noti, errs, unserved>>

\* Any other error: retry, and give up after MaxErrs in a row.
WatcherError(c) ==
    /\ errs' = [errs EXCEPT ![c] = @ + 1]
    /\ WatcherStep(c, "recv", IF errs'[c] >= MaxErrs THEN "close" ELSE "select")
    /\ UNCHANGED <<queueVars, mutex, isClosed, noti, unserved>>

\* PermissionDenied, or no service account.
WatcherDisabled(c) ==
    /\ WatcherStep(c, "recv", "close")
    /\ UNCHANGED <<queueVars, mutex, isClosed, noti, errs, unserved>>

WatcherClose(c) ==
    /\ WatcherStep(c, "close", "exit")
    /\ CloseClient(c, "watcher")
    /\ UNCHANGED <<queueVars, noti, errs, unserved>>

-----------------------------------------------------------------------------
(* The functions the tasker runs *)

TaskerTakes(p) ==
    /\ Start(p)
    /\ job' = "begin"
    /\ UNCHANGED <<enabled, loop, cur, mutex, isClosed, noti, watcher, errs,
                   unserved, saved, service, ctxDone>>

\* Variant of NotificationLock without c.mx.Lock().
NotificationNoLock(c) ==
    /\ running = Notification(c)
    /\ job = "begin"
    /\ mutex' = mutex
    /\ \/ /\ Done(c)
          /\ job' = "unlock"
          /\ UNCHANGED noti
       \/ /\ ~Done(c)
          /\ job' = "run"
          /\ noti' = [noti EXCEPT ![c] = 0]
    /\ UNCHANGED <<queueVars, enabled, loop, cur, isClosed, watcher, errs,
                   unserved, saved, service, ctxDone>>

\* Variant of NotificationLock without <-c.noti.
NotificationNoDrain(c) ==
    /\ running = Notification(c)
    /\ job = "begin"
    /\ mutex[c] = Free
    /\ mutex' = [mutex EXCEPT ![c] = "job"]
    /\ job' = IF Done(c) THEN "unlock" ELSE "run"
    /\ UNCHANGED <<queueVars, enabled, loop, cur, isClosed, noti, watcher, errs,
                   unserved, saved, service, ctxDone>>

\* The function of handleStream: c.mx.Lock(); nothing if the context is
\* cancelled, else <-c.noti and runTask.
NotificationLock(c) ==
    /\ running = Notification(c)
    /\ job = "begin"
    /\ mutex[c] = Free
    /\ mutex' = [mutex EXCEPT ![c] = "job"]
    /\ \/ /\ Done(c)
          /\ job' = "unlock"
          /\ UNCHANGED noti
       \/ /\ ~Done(c)
          /\ job' = "run"
          /\ noti' = [noti EXCEPT ![c] = 0]
    /\ UNCHANGED <<queueVars, enabled, loop, cur, isClosed, watcher, errs,
                   unserved, saved, service, ctxDone>>

\* runTask: StartNextTask returns a task, which is run (an unknown type is
\* only logged), and the loop goes on.
RunTask(c) ==
    /\ running = Notification(c)
    /\ job = "run"
    /\ unserved' = [unserved EXCEPT ![c] = FALSE]
    /\ UNCHANGED <<queueVars, enabled, loop, cur, mutex, isClosed, noti, watcher,
                   errs, job, saved, service, ctxDone>>

\* runTask: StartNextTask returns no task, or fails, which is logged.
RunTaskEnds(c) ==
    /\ running = Notification(c)
    /\ job = "run"
    /\ unserved' = [unserved EXCEPT ![c] = FALSE]
    /\ job' = "unlock"
    /\ UNCHANGED <<queueVars, enabled, loop, cur, mutex, isClosed, noti, watcher,
                   errs, saved, service, ctxDone>>

NotificationUnlock(c) ==
    /\ running = Notification(c)
    /\ job = "unlock"
    /\ mutex' = [mutex EXCEPT ![c] = Free]
    /\ Finish
    /\ job' = "none"
    /\ UNCHANGED <<enabled, loop, cur, isClosed, noti, watcher, errs, unserved,
                   saved, service, ctxDone>>

\* st.PatchTask.run without c.mx; the state file is cleared at the end
\* unless complete() fails or the run panicked.
PatchRunEnds(c) ==
    /\ running = PatchRun(c)
    /\ Finish
    /\ job' = "none"
    /\ saved' \in {FALSE, saved}
    /\ UNCHANGED <<enabled, loop, cur, mutex, isClosed, noti, watcher, errs,
                   unserved, service, ctxDone>>

InventoryEnds ==
    /\ running = Inventory
    /\ Finish
    /\ job' = "none"
    /\ UNCHANGED <<enabled, loop, cur, mutex, isClosed, noti, watcher, errs,
                   unserved, saved, service, ctxDone>>

-----------------------------------------------------------------------------
(* The service loop, the restart file and SIGTERM *)

ServiceEnqueue ==
    /\ service /\ ~ctxDone
    /\ Submit("service", Inventory)
    /\ UNCHANGED clientVars

\* runInternalPeriodics finds the restart file and calls tasker.Close.
RestartFile == Shut /\ ~ctxDone /\ UNCHANGED clientVars

\* tasker.Close returns; os.Exit follows.
RestartExit == Drain /\ UNCHANGED clientVars

Sigterm ==
    /\ ~ctxDone
    /\ ctxDone' = TRUE
    /\ UNCHANGED <<queueVars, enabled, loop, cur, mutex, isClosed, noti, watcher,
                   errs, unserved, job, saved, service>>

-----------------------------------------------------------------------------
LoopStep ==
    \/ \E c \in Clients : LoopNewClient(c)
    \/ LoopNewClientError \/ LoopDisable \/ LoopNothing
    \/ LoopResumed \/ LoopWatchConfig

LoopLocks == LoopClose \/ LoopResume \/ LoopWatchOnly

StreamEvent(c) ==
    \/ WatcherEnqueue(c) \/ WatcherIgnore(c) \/ WatcherReconnect(c)
    \/ WatcherExhausted(c) \/ WatcherError(c) \/ WatcherDisabled(c)

JobEnds(c) == RunTaskEnds(c) \/ NotificationUnlock(c) \/ PatchRunEnds(c)

Next ==
    /\ ~drained
    /\ \/ LoopStep \/ LoopLocks
       \/ \E c \in Clients :
            \/ WatcherSelect(c) \/ WatcherEnqueued(c) \/ StreamEvent(c) \/ WatcherClose(c)
            \/ NotificationLock(c) \/ RunTask(c) \/ JobEnds(c)
       \/ \E p \in Callers : TaskerTakes(p)
       \/ InventoryEnds
       \/ ServiceEnqueue \/ RestartFile \/ RestartExit \/ Sigterm

Spec == Init /\ [][Next]_vars

(***************************************************************************)
(* Goroutines that can run do run, every task ends, WatchConfig returns at *)
(* its timeout, and the mutexes (Client.mx, and the one in Enqueue) are    *)
(* starvation free.  Nothing is assumed about the service: notifications   *)
(* and stream errors come or do not come.                                  *)
(***************************************************************************)
Fairness ==
    /\ WF_vars(~drained /\ LoopStep)
    /\ SF_vars(~drained /\ LoopLocks)
    /\ \A c \in Clients :
         /\ WF_vars(~drained /\ (WatcherSelect(c) \/ WatcherEnqueued(c)))
         /\ SF_vars(~drained /\ WatcherClose(c))
         /\ SF_vars(~drained /\ NotificationLock(c))
         /\ WF_vars(~drained /\ JobEnds(c))
    /\ \A p \in Callers : SF_vars(~drained /\ TaskerTakes(p))
    /\ WF_vars(~drained /\ InventoryEnds)
    /\ WF_vars(~drained /\ RestartExit)

FairSpec == Spec /\ Fairness

-----------------------------------------------------------------------------
(* Properties *)

(***************************************************************************)
(* handleStream drops a notification when one is queued.  None is lost by  *)
(* that: after every notification of a client that stays open, dropped or  *)
(* not, StartNextTask is still going to be called, because a function that *)
(* has not yet taken its element off c.noti is queued or about to run.     *)
(***************************************************************************)
StillToCome(c) ==
    \/ watcher[c] = "enqueue" /\ pending[c] = Notification(c)
    \/ running = Notification(c) /\ job \in {"begin", "run"}

NotificationNotLost ==
    \A c \in Clients : unserved[c] /\ ~Done(c) => StillToCome(c)

(***************************************************************************)
(* "We lock so that this task will complete before the client can get      *)
(* canceled": while the tasker is in runTask of a client, neither the task *)
(* loop nor the watcher has closed that client.                            *)
(***************************************************************************)
NotClosedUnderTask ==
    \A c \in Clients : running = Notification(c) /\ job = "run" => ~isClosed[c]

(***************************************************************************)
(* Watchers do not pile up as clients are replaced: a goroutine that still *)
(* receives notifications for a client other than the current one works    *)
(* for a client that is closed.                                            *)
(***************************************************************************)
OneOpenWatcher ==
    \A c \in Clients \ {cur} : watcher[c] \notin {"none", "exit"} => isClosed[c]

(***************************************************************************)
(* The task in the state file goes first: no notification of the same      *)
(* client is queued or run while the saved task waits to be handed over    *)
(* ("this should run AFTER the task loaded from state file",               *)
(* agentendpoint_test.go:364).                                             *)
(***************************************************************************)
ResumeFirst ==
    pending["loop"] # NoTask =>
        /\ pending[cur] = NoTask
        /\ running # Notification(cur)

(***************************************************************************)
(* Every notification is followed by a StartNextTask, provided that the    *)
(* agent is not about to stop and no client is ever closed.                *)
(***************************************************************************)
NotificationServed ==
    \A c \in Clients :
        unserved[c] ~> \/ ~unserved[c]
                       \/ closed \/ ctxDone
                       \/ \E d \in Clients : isClosed[d]

(***************************************************************************)
(* A queued notification of a client that was cancelled in the meantime    *)
(* does nothing and returns ("We have been canceled.",                     *)
(* agentendpoint.go:323): the tasker gets on with its other tasks.         *)
(***************************************************************************)
CancelledTaskReturns ==
    \A c \in Clients :
        running = Notification(c) /\ isClosed[c] ~> running # Notification(c) \/ ctxDone
=============================================================================
