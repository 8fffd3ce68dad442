-------------------------- MODULE TaskClientProofs --------------------------
(***************************************************************************)
(* Proofs about TaskClient, for any number of clients: no notification is  *)
(* lost, no client is closed under its task, watchers do not pile up, and  *)
(* the saved task goes before the notifications of its client.             *)
(***************************************************************************)
EXTENDS TaskClient, TLAPS

(***************************************************************************)
(* The functions that are handed to the tasker are all different.          *)
(***************************************************************************)
LEMMA TaskNames ==
    /\ Inventory \in Tasks
    /\ Clients \subseteq Callers /\ {"loop", "service"} \subseteq Callers
    /\ \A p \in Callers : p \in {"loop", "service"} \/ p \in Clients
    /\ "loop" \notin Clients /\ "service" \notin Clients
    /\ \A c \in Clients :
          /\ Notification(c) \in Tasks /\ PatchRun(c) \in Tasks
          /\ Notification(c) # Inventory /\ PatchRun(c) # Inventory
          /\ \A d \in Clients : /\ Notification(c) # PatchRun(d)
                                /\ Notification(c) = Notification(d) => c = d
<1>1. \A c, d \in Clients : Notification(c) # PatchRun(d) /\ Notification(c) # Inventory /\ PatchRun(c) # Inventory
  BY DEF Notification, PatchRun, Inventory
<1>2. ASSUME NEW c \in Clients, NEW d \in Clients, Notification(c) = Notification(d) PROVE c = d
  <2>1. Notification(c).client = c /\ Notification(d).client = d
    BY DEF Notification
  <2> QED BY <1>2, <2>1
<1> QED BY <1>1, <1>2, CallersAssumption, TasksAssumption, ClientsAssumption

-----------------------------------------------------------------------------
\* A watcher that still counts errors has room for one more.
ErrsInv ==
    /\ TypeOK
    /\ \A c \in Clients : watcher[c] \notin {"close", "exit"} => errs[c] < MaxErrs

\* Who waits to hand over what, and where that caller is.
PendingInv ==
    /\ \A c \in Clients : pending[c] # NoTask =>
          pending[c] = Notification(c) /\ watcher[c] = "enqueue"
    /\ pending["loop"] # NoTask => loop = "load" /\ \E c \in Clients : pending["loop"] = PatchRun(c)
    /\ pending["service"] \in {NoTask, Inventory}

\* The client that runTaskLoop works on; its watcher starts last.
LoopInv ==
    /\ loop \in {"start", "load", "close"} => cur \in Clients
    /\ cur \in Clients => (watcher[cur] = "none" <=> loop \in {"start", "load"})
    /\ loop = "load" => mutex[cur] = "loop"

\* A client without a watcher is as NewClient made it.
FreshInv ==
    \A c \in Clients : watcher[c] = "none" =>
        /\ ~isClosed[c] /\ noti[c] = 0 /\ ~unserved[c]
        /\ running # Notification(c)

\* The tasker holds the mutex of the client in whose runTask it is; runTaskLoop
\* holds one while it hands over the saved task; Close keeps it for ever.
MutexInv ==
    \A c \in Clients :
        /\ mutex[c] = "job" <=> running = Notification(c) /\ job \in {"run", "unlock"}
        /\ isClosed[c] <=> \/ mutex[c] = "watcher"
                           \/ mutex[c] = "loop" /\ ~(loop = "load" /\ cur = c)

\* The element of c.noti belongs to a function that has yet to take it.
Queued(c) ==
    \/ watcher[c] = "enqueue" /\ pending[c] = Notification(c)
    \/ running = Notification(c) /\ job = "begin"

NotiInv == \A c \in Clients : noti[c] = 1 /\ ~Done(c) => Queued(c)

IInv == /\ ErrsInv /\ PendingInv /\ LoopInv /\ FreshInv /\ MutexInv /\ NotiInv
        /\ NotificationNotLost /\ OneOpenWatcher

(***************************************************************************)
(* Initially no client has been made.                                      *)
(***************************************************************************)
LEMMA InitIInv == Init => IInv
<1> SUFFICES ASSUME Init PROVE IInv
  OBVIOUS
<1> USE TaskNames, NoTaskAssumption, ClientsAssumption DEF Init, QueueInit
<1>1. ErrsInv
  <2>1. errs \in [Clients -> 0..MaxErrs] /\ noti \in [Clients -> 0..1] /\ \A c \in Clients : errs[c] < MaxErrs
    OBVIOUS
  <2>2. mutex \in [Clients -> {Free, "loop", "watcher", "job"}] /\ watcher \in [Clients -> WatcherStates]
    BY DEF WatcherStates
  <2>3. isClosed \in [Clients -> BOOLEAN] /\ unserved \in [Clients -> BOOLEAN]
    OBVIOUS
  <2>4. QueueTypeOK
    BY DEF QueueTypeOK
  <2> QED BY <2>1, <2>2, <2>3, <2>4 DEF ErrsInv, TypeOK, LoopStates, JobStates
<1>2. PendingInv /\ LoopInv
  BY DEF PendingInv, LoopInv
<1>3. FreshInv /\ MutexInv
  BY DEF FreshInv, MutexInv
<1>4. NotiInv /\ NotificationNotLost /\ OneOpenWatcher
  BY DEF NotiInv, NotificationNotLost, OneOpenWatcher
<1> QED BY <1>1, <1>2, <1>3, <1>4 DEF IInv

(***************************************************************************)
(* The steps of runTaskLoop keep the invariant.                            *)
(***************************************************************************)
LEMMA LoopIInv ==
    ASSUME IInv, LoopStep \/ LoopLocks
    PROVE  IInv'
<1> USE TaskNames, NoTaskAssumption, ClientsAssumption
        DEF IInv, ErrsInv, TypeOK, QueueTypeOK, queueVars
<1>1. ASSUME NEW c \in Clients, LoopNewClient(c) PROVE IInv'
  <2>1. ErrsInv'
    BY <1>1 DEF LoopStates, WatcherStates, JobStates, LoopNewClient, NeedsClient
  <2>2. PendingInv'
    BY <1>1 DEF PendingInv, LoopNewClient, NeedsClient
  <2>3. LoopInv'
    BY <1>1 DEF LoopInv, FreshInv, MutexInv, LoopNewClient, NeedsClient
  <2>4. MutexInv'
    BY <1>1 DEF MutexInv, FreshInv, LoopInv, LoopNewClient, NeedsClient
  <2>5. OneOpenWatcher'
    BY <1>1 DEF OneOpenWatcher, LoopInv, LoopNewClient, NeedsClient
  <2>6. FreshInv' /\ NotiInv' /\ NotificationNotLost'
    BY <1>1 DEF FreshInv, NotiInv, Queued, Done, NotificationNotLost, StillToCome, LoopNewClient,
       NeedsClient
  <2> QED BY <2>1, <2>2, <2>3, <2>4, <2>5, <2>6
<1>2. CASE LoopNewClientError
  <2>1. ErrsInv'
    BY <1>2 DEF LoopStates, WatcherStates, JobStates, LoopNewClientError, NeedsClient
  <2>2. PendingInv'
    BY <1>2 DEF PendingInv, LoopNewClientError, NeedsClient
  <2>3. LoopInv'
    BY <1>2 DEF LoopInv, FreshInv, MutexInv, LoopNewClientError, NeedsClient
  <2>4. MutexInv'
    BY <1>2 DEF MutexInv, FreshInv, LoopInv, LoopNewClientError, NeedsClient
  <2>5. OneOpenWatcher'
    BY <1>2 DEF OneOpenWatcher, LoopInv, LoopNewClientError, NeedsClient
  <2>6. FreshInv' /\ NotiInv' /\ NotificationNotLost'
    BY <1>2 DEF FreshInv, NotiInv, Queued, Done, NotificationNotLost, StillToCome,
       LoopNewClientError, NeedsClient
  <2> QED BY <2>1, <2>2, <2>3, <2>4, <2>5, <2>6
<1>3. CASE LoopDisable
  <2>1. ErrsInv'
    BY <1>3 DEF LoopStates, WatcherStates, JobStates, LoopDisable, NeedsClient
  <2>2. PendingInv'
    BY <1>3 DEF PendingInv, LoopDisable, NeedsClient
  <2>3. LoopInv'
    BY <1>3 DEF LoopInv, FreshInv, MutexInv, LoopDisable, NeedsClient
  <2>4. MutexInv'
    BY <1>3 DEF MutexInv, FreshInv, LoopInv, LoopDisable, NeedsClient
  <2>5. FreshInv' /\ NotiInv' /\ NotificationNotLost' /\ OneOpenWatcher'
    BY <1>3 DEF FreshInv, NotiInv, Queued, Done, NotificationNotLost, StillToCome, OneOpenWatcher,
       LoopDisable, NeedsClient
  <2> QED BY <2>1, <2>2, <2>3, <2>4, <2>5
<1>4. CASE LoopNothing
  <2>1. ErrsInv'
    BY <1>4 DEF LoopStates, WatcherStates, JobStates, LoopNothing
  <2>2. PendingInv'
    BY <1>4 DEF PendingInv, LoopNothing
  <2>3. LoopInv'
    BY <1>4 DEF LoopInv, FreshInv, MutexInv, LoopNothing
  <2>4. MutexInv'
    BY <1>4 DEF MutexInv, FreshInv, LoopInv, LoopNothing
  <2>5. FreshInv' /\ NotiInv' /\ NotificationNotLost' /\ OneOpenWatcher'
    BY <1>4 DEF FreshInv, NotiInv, Queued, Done, NotificationNotLost, StillToCome, OneOpenWatcher,
       LoopNothing
  <2> QED BY <2>1, <2>2, <2>3, <2>4, <2>5
<1>5. CASE LoopResumed
  <2>0. cur \in Clients /\ watcher[cur] = "none" /\ mutex[cur] = "loop" /\ ~isClosed[cur] /\ ~unserved[cur] /\ noti[cur] = 0
    BY <1>5 DEF LoopInv, FreshInv, LoopResumed
  <2>1. ErrsInv'
    BY <1>5, <2>0 DEF LoopStates, WatcherStates, JobStates, LoopResumed
  <2>2. PendingInv'
    BY <1>5, <2>0 DEF PendingInv, LoopResumed
  <2>3. LoopInv'
    BY <1>5, <2>0 DEF LoopInv, FreshInv, MutexInv, LoopResumed
  <2>4. FreshInv'
    BY <1>5, <2>0 DEF FreshInv, PendingInv, LoopInv, LoopResumed
  <2>5. MutexInv'
    BY <1>5, <2>0 DEF MutexInv, FreshInv, LoopInv, LoopResumed
  <2>6. NotiInv'
    BY <1>5, <2>0 DEF NotiInv, Queued, Done, PendingInv, MutexInv, LoopResumed
  <2>7. NotificationNotLost'
    BY <1>5, <2>0 DEF NotificationNotLost, StillToCome, Done, NotiInv, Queued, PendingInv,
       MutexInv, LoopResumed
  <2>8. OneOpenWatcher'
    BY <1>5, <2>0 DEF OneOpenWatcher, LoopInv, LoopResumed
  <2> QED BY <2>1, <2>2, <2>3, <2>4, <2>5, <2>6, <2>7, <2>8
<1>6. CASE LoopWatchConfig
  <2>1. ErrsInv'
    BY <1>6 DEF LoopStates, WatcherStates, JobStates, LoopWatchConfig
  <2>2. PendingInv'
    BY <1>6 DEF PendingInv, LoopWatchConfig
  <2>3. LoopInv'
    BY <1>6 DEF LoopInv, FreshInv, MutexInv, LoopWatchConfig
  <2>4. MutexInv'
    BY <1>6 DEF MutexInv, FreshInv, LoopInv, LoopWatchConfig
  <2>5. FreshInv' /\ NotiInv' /\ NotificationNotLost' /\ OneOpenWatcher'
    BY <1>6 DEF FreshInv, NotiInv, Queued, Done, NotificationNotLost, StillToCome, OneOpenWatcher,
       LoopWatchConfig
  <2> QED BY <2>1, <2>2, <2>3, <2>4, <2>5
<1>7. CASE LoopClose
  <2>0. cur \in Clients
    BY <1>7 DEF LoopInv, FreshInv, LoopClose, CloseClient
  <2>1. ErrsInv'
    BY <1>7, <2>0 DEF LoopStates, WatcherStates, JobStates, LoopClose, CloseClient
  <2>2. PendingInv'
    BY <1>7, <2>0 DEF PendingInv, LoopClose, CloseClient
  <2>3. LoopInv'
    BY <1>7, <2>0 DEF LoopInv, FreshInv, MutexInv, LoopClose, CloseClient
  <2>4. FreshInv'
    BY <1>7, <2>0 DEF FreshInv, PendingInv, LoopInv, LoopClose, CloseClient
  <2>5. MutexInv'
    BY <1>7, <2>0 DEF MutexInv, FreshInv, LoopInv, LoopClose, CloseClient
  <2>6. NotiInv'
    BY <1>7, <2>0 DEF NotiInv, Queued, Done, PendingInv, MutexInv, LoopClose, CloseClient
  <2>7. NotificationNotLost'
    BY <1>7, <2>0 DEF NotificationNotLost, StillToCome, Done, NotiInv, Queued, PendingInv,
       MutexInv, LoopClose, CloseClient
  <2>8. OneOpenWatcher'
    BY <1>7, <2>0 DEF OneOpenWatcher, LoopInv, LoopClose, CloseClient
  <2> QED BY <2>1, <2>2, <2>3, <2>4, <2>5, <2>6, <2>7, <2>8
<1>8. CASE LoopResume
  <2>0. cur \in Clients /\ watcher[cur] = "none" /\ ~isClosed[cur]
    BY <1>8 DEF LoopInv, FreshInv, LoopResume, Submit
  <2>1. ErrsInv'
    BY <1>8, <2>0 DEF LoopStates, WatcherStates, JobStates, LoopResume, Submit
  <2>2. PendingInv'
    BY <1>8, <2>0 DEF PendingInv, LoopResume, Submit
  <2>3. LoopInv'
    BY <1>8, <2>0 DEF LoopInv, FreshInv, MutexInv, LoopResume, Submit
  <2>4. MutexInv'
    BY <1>8, <2>0 DEF MutexInv, FreshInv, LoopInv, LoopResume, Submit
  <2>5. NotiInv'
    BY <1>8, <2>0 DEF NotiInv, Queued, Done, PendingInv, MutexInv, LoopResume, Submit
  <2>6. NotificationNotLost'
    BY <1>8, <2>0 DEF NotificationNotLost, StillToCome, Done, NotiInv, Queued, PendingInv,
       MutexInv, LoopResume, Submit
  <2>7. FreshInv' /\ OneOpenWatcher'
    BY <1>8, <2>0 DEF FreshInv, OneOpenWatcher, LoopResume, Submit
  <2> QED BY <2>1, <2>2, <2>3, <2>4, <2>5, <2>6, <2>7
<1>9. CASE LoopWatchOnly
  <2>0. cur \in Clients /\ watcher[cur] = "none" /\ ~isClosed[cur] /\ ~unserved[cur] /\ noti[cur] = 0
    BY <1>9 DEF LoopInv, FreshInv, LoopWatchOnly
  <2>1. ErrsInv'
    BY <1>9, <2>0 DEF LoopStates, WatcherStates, JobStates, LoopWatchOnly
  <2>2. PendingInv'
    BY <1>9, <2>0 DEF PendingInv, LoopWatchOnly
  <2>3. LoopInv'
    BY <1>9, <2>0 DEF LoopInv, FreshInv, MutexInv, LoopWatchOnly
  <2>4. FreshInv'
    BY <1>9, <2>0 DEF FreshInv, PendingInv, LoopInv, LoopWatchOnly
  <2>5. MutexInv'
    BY <1>9, <2>0 DEF MutexInv, FreshInv, LoopInv, LoopWatchOnly
  <2>6. NotiInv'
    BY <1>9, <2>0 DEF NotiInv, Queued, Done, PendingInv, MutexInv, LoopWatchOnly
  <2>7. NotificationNotLost'
    BY <1>9, <2>0 DEF NotificationNotLost, StillToCome, Done, NotiInv, Queued, PendingInv,
       MutexInv, LoopWatchOnly
  <2>8. OneOpenWatcher'
    BY <1>9, <2>0 DEF OneOpenWatcher, LoopInv, LoopWatchOnly
  <2> QED BY <2>1, <2>2, <2>3, <2>4, <2>5, <2>6, <2>7, <2>8
<1> QED BY <1>1, <1>2, <1>3, <1>4, <1>5, <1>6, <1>7, <1>8, <1>9 DEF LoopStep, LoopLocks

(***************************************************************************)
(* The steps of a watcher keep the invariant.                              *)
(***************************************************************************)
LEMMA WatcherIInv ==
    ASSUME IInv, NEW w \in Clients, WatcherSelect(w) \/ WatcherEnqueued(w) \/ StreamEvent(w) \/ WatcherClose(w)
    PROVE  IInv'
<1> USE TaskNames, NoTaskAssumption, ClientsAssumption
        DEF IInv, ErrsInv, TypeOK, QueueTypeOK, queueVars
<1>1. ASSUME NEW c \in Clients, WatcherSelect(c) PROVE IInv'
  <2>1. ErrsInv'
    BY <1>1 DEF LoopStates, WatcherStates, JobStates, WatcherSelect, WatcherStep, Done
  <2>2. PendingInv'
    BY <1>1 DEF PendingInv, WatcherSelect, WatcherStep, Done
  <2>3. LoopInv'
    BY <1>1 DEF LoopInv, FreshInv, MutexInv, WatcherSelect, WatcherStep, Done
  <2>4. FreshInv'
    BY <1>1 DEF FreshInv, PendingInv, LoopInv, WatcherSelect, WatcherStep, Done
  <2>5. NotiInv'
    BY <1>1 DEF NotiInv, Queued, Done, PendingInv, MutexInv, WatcherSelect, WatcherStep
  <2>6. NotificationNotLost'
    BY <1>1 DEF NotificationNotLost, StillToCome, Done, NotiInv, Queued, PendingInv, MutexInv,
       WatcherSelect, WatcherStep
  <2>7. OneOpenWatcher'
    BY <1>1 DEF OneOpenWatcher, LoopInv, WatcherSelect, WatcherStep, Done
  <2>8. MutexInv'
    BY <1>1 DEF MutexInv, WatcherSelect, WatcherStep, Done
  <2> QED BY <2>1, <2>2, <2>3, <2>4, <2>5, <2>6, <2>7, <2>8
<1>2. ASSUME NEW c \in Clients, WatcherEnqueued(c) PROVE IInv'
  <2>1. ErrsInv'
    BY <1>2 DEF LoopStates, WatcherStates, JobStates, WatcherEnqueued, WatcherStep
  <2>2. PendingInv'
    BY <1>2 DEF PendingInv, WatcherEnqueued, WatcherStep
  <2>3. LoopInv'
    BY <1>2 DEF LoopInv, FreshInv, MutexInv, WatcherEnqueued, WatcherStep
  <2>4. FreshInv'
    BY <1>2 DEF FreshInv, PendingInv, LoopInv, WatcherEnqueued, WatcherStep
  <2>5. NotiInv'
    BY <1>2 DEF NotiInv, Queued, Done, PendingInv, MutexInv, WatcherEnqueued, WatcherStep
  <2>6. NotificationNotLost'
    BY <1>2 DEF NotificationNotLost, StillToCome, Done, NotiInv, Queued, PendingInv, MutexInv,
       WatcherEnqueued, WatcherStep
  <2>7. OneOpenWatcher'
    BY <1>2 DEF OneOpenWatcher, LoopInv, WatcherEnqueued, WatcherStep
  <2>8. MutexInv'
    BY <1>2 DEF MutexInv, WatcherEnqueued, WatcherStep
  <2> QED BY <2>1, <2>2, <2>3, <2>4, <2>5, <2>6, <2>7, <2>8
<1>3. ASSUME NEW c \in Clients, WatcherEnqueue(c) PROVE IInv'
  <2>1. ErrsInv'
    BY <1>3 DEF LoopStates, WatcherStates, JobStates, WatcherEnqueue, WatcherStep, Submit
  <2>2. PendingInv'
    BY <1>3 DEF PendingInv, WatcherEnqueue, WatcherStep, Submit
  <2>3. LoopInv'
    BY <1>3 DEF LoopInv, FreshInv, MutexInv, WatcherEnqueue, WatcherStep, Submit
  <2>4. FreshInv'
    BY <1>3 DEF FreshInv, PendingInv, LoopInv, WatcherEnqueue, WatcherStep, Submit
  <2>5. NotiInv'
    BY <1>3 DEF NotiInv, Queued, Done, PendingInv, MutexInv, WatcherEnqueue, WatcherStep, Submit
  <2>6. NotificationNotLost'
    BY <1>3 DEF NotificationNotLost, StillToCome, Done, NotiInv, Queued, PendingInv, MutexInv,
       WatcherEnqueue, WatcherStep, Submit
  <2>7. OneOpenWatcher'
    BY <1>3 DEF OneOpenWatcher, LoopInv, WatcherEnqueue, WatcherStep, Submit
  <2>8. MutexInv'
    BY <1>3 DEF MutexInv, WatcherEnqueue, WatcherStep, Submit
  <2> QED BY <2>1, <2>2, <2>3, <2>4, <2>5, <2>6, <2>7, <2>8
<1>4. ASSUME NEW c \in Clients, WatcherIgnore(c) PROVE IInv'
  <2>1. ErrsInv'
    BY <1>4 DEF LoopStates, WatcherStates, JobStates, WatcherIgnore, WatcherStep
  <2>2. PendingInv'
    BY <1>4 DEF PendingInv, WatcherIgnore, WatcherStep
  <2>3. LoopInv'
    BY <1>4 DEF LoopInv, FreshInv, MutexInv, WatcherIgnore, WatcherStep
  <2>4. FreshInv'
    BY <1>4 DEF FreshInv, PendingInv, LoopInv, WatcherIgnore, WatcherStep
  <2>5. NotiInv'
    BY <1>4 DEF NotiInv, Queued, Done, PendingInv, MutexInv, WatcherIgnore, WatcherStep
  <2>6. NotificationNotLost'
    BY <1>4 DEF NotificationNotLost, StillToCome, Done, NotiInv, Queued, PendingInv, MutexInv,
       WatcherIgnore, WatcherStep
  <2>7. OneOpenWatcher'
    BY <1>4 DEF OneOpenWatcher, LoopInv, WatcherIgnore, WatcherStep
  <2>8. MutexInv'
    BY <1>4 DEF MutexInv, WatcherIgnore, WatcherStep
  <2> QED BY <2>1, <2>2, <2>3, <2>4, <2>5, <2>6, <2>7, <2>8
<1>5. ASSUME NEW c \in Clients, WatcherReconnect(c) PROVE IInv'
  <2>1. ErrsInv'
    BY <1>5 DEF LoopStates, WatcherStates, JobStates, WatcherReconnect, WatcherStep
  <2>2. PendingInv'
    BY <1>5 DEF PendingInv, WatcherReconnect, WatcherStep
  <2>3. LoopInv'
    BY <1>5 DEF LoopInv, FreshInv, MutexInv, WatcherReconnect, WatcherStep
  <2>4. FreshInv'
    BY <1>5 DEF FreshInv, PendingInv, LoopInv, WatcherReconnect, WatcherStep
  <2>5. NotiInv'
    BY <1>5 DEF NotiInv, Queued, Done, PendingInv, MutexInv, WatcherReconnect, WatcherStep
  <2>6. NotificationNotLost'
    BY <1>5 DEF NotificationNotLost, StillToCome, Done, NotiInv, Queued, PendingInv, MutexInv,
       WatcherReconnect, WatcherStep
  <2>7. OneOpenWatcher'
    BY <1>5 DEF OneOpenWatcher, LoopInv, WatcherReconnect, WatcherStep
  <2>8. MutexInv'
    BY <1>5 DEF MutexInv, WatcherReconnect, WatcherStep
  <2> QED BY <2>1, <2>2, <2>3, <2>4, <2>5, <2>6, <2>7, <2>8
<1>6. ASSUME NEW c \in Clients, WatcherExhausted(c) PROVE IInv'
  <2>1. ErrsInv'
    BY <1>6 DEF LoopStates, WatcherStates, JobStates, WatcherExhausted, WatcherStep
  <2>2. PendingInv'
    BY <1>6 DEF PendingInv, WatcherExhausted, WatcherStep
  <2>3. LoopInv'
    BY <1>6 DEF LoopInv, FreshInv, MutexInv, WatcherExhausted, WatcherStep
  <2>4. FreshInv'
    BY <1>6 DEF FreshInv, PendingInv, LoopInv, WatcherExhausted, WatcherStep
  <2>5. NotiInv'
    BY <1>6 DEF NotiInv, Queued, Done, PendingInv, MutexInv, WatcherExhausted, WatcherStep
  <2>6. NotificationNotLost'
    BY <1>6 DEF NotificationNotLost, StillToCome, Done, NotiInv, Queued, PendingInv, MutexInv,
       WatcherExhausted, WatcherStep
  <2>7. OneOpenWatcher'
    BY <1>6 DEF OneOpenWatcher, LoopInv, WatcherExhausted, WatcherStep
  <2>8. MutexInv'
    BY <1>6 DEF MutexInv, WatcherExhausted, WatcherStep
  <2> QED BY <2>1, <2>2, <2>3, <2>4, <2>5, <2>6, <2>7, <2>8
<1>7. ASSUME NEW c \in Clients, WatcherError(c) PROVE IInv'
  <2>1. ErrsInv'
    BY <1>7 DEF LoopStates, WatcherStates, JobStates, WatcherError, WatcherStep
  <2>2. PendingInv'
    BY <1>7 DEF PendingInv, WatcherError, WatcherStep
  <2>3. LoopInv'
    BY <1>7 DEF LoopInv, FreshInv, MutexInv, WatcherError, WatcherStep
  <2>4. FreshInv'
    BY <1>7 DEF FreshInv, PendingInv, LoopInv, WatcherError, WatcherStep
  <2>5. NotiInv'
    BY <1>7 DEF NotiInv, Queued, Done, PendingInv, MutexInv, WatcherError, WatcherStep
  <2>6. NotificationNotLost'
    BY <1>7 DEF NotificationNotLost, StillToCome, Done, NotiInv, Queued, PendingInv, MutexInv,
       WatcherError, WatcherStep
  <2>7. OneOpenWatcher'
    BY <1>7 DEF OneOpenWatcher, LoopInv, WatcherError, WatcherStep
  <2>8. MutexInv'
    BY <1>7 DEF MutexInv, WatcherError, WatcherStep
  <2> QED BY <2>1, <2>2, <2>3, <2>4, <2>5, <2>6, <2>7, <2>8
<1>8. ASSUME NEW c \in Clients, WatcherDisabled(c) PROVE IInv'
  <2>1. ErrsInv'
    BY <1>8 DEF LoopStates, WatcherStates, JobStates, WatcherDisabled, WatcherStep
  <2>2. PendingInv'
    BY <1>8 DEF PendingInv, WatcherDisabled, WatcherStep
  <2>3. LoopInv'
    BY <1>8 DEF LoopInv, FreshInv, MutexInv, WatcherDisabled, WatcherStep
  <2>4. FreshInv'
    BY <1>8 DEF FreshInv, PendingInv, LoopInv, WatcherDisabled, WatcherStep
  <2>5. NotiInv'
    BY <1>8 DEF NotiInv, Queued, Done, PendingInv, MutexInv, WatcherDisabled, WatcherStep
  <2>6. NotificationNotLost'
    BY <1>8 DEF NotificationNotLost, StillToCome, Done, NotiInv, Queued, PendingInv, MutexInv,
       WatcherDisabled, WatcherStep
  <2>7. OneOpenWatcher'
    BY <1>8 DEF OneOpenWatcher, LoopInv, WatcherDisabled, WatcherStep
  <2>8. MutexInv'
    BY <1>8 DEF MutexInv, WatcherDisabled, WatcherStep
  <2> QED BY <2>1, <2>2, <2>3, <2>4, <2>5, <2>6, <2>7, <2>8
<1>9. ASSUME NEW c \in Clients, WatcherClose(c) PROVE IInv'
  <2>1. ErrsInv'
    BY <1>9 DEF LoopStates, WatcherStates, JobStates, WatcherClose, WatcherStep, CloseClient
  <2>2. PendingInv'
    BY <1>9 DEF PendingInv, WatcherClose, WatcherStep, CloseClient
  <2>3. LoopInv'
    BY <1>9 DEF LoopInv, FreshInv, MutexInv, WatcherClose, WatcherStep, CloseClient
  <2>4. FreshInv'
    BY <1>9 DEF FreshInv, PendingInv, LoopInv, WatcherClose, WatcherStep, CloseClient
  <2>5. MutexInv'
    BY <1>9 DEF MutexInv, FreshInv, LoopInv, WatcherClose, WatcherStep, CloseClient
  <2>6. NotiInv'
    BY <1>9 DEF NotiInv, Queued, Done, PendingInv, MutexInv, WatcherClose, WatcherStep,
       CloseClient
  <2>7. NotificationNotLost'
    BY <1>9 DEF NotificationNotLost, StillToCome, Done, NotiInv, Queued, PendingInv, MutexInv,
       WatcherClose, WatcherStep, CloseClient
  <2>8. OneOpenWatcher'
    BY <1>9 DEF OneOpenWatcher, LoopInv, WatcherClose, WatcherStep, CloseClient
  <2> QED BY <2>1, <2>2, <2>3, <2>4, <2>5, <2>6, <2>7, <2>8
<1> QED BY <1>1, <1>2, <1>3, <1>4, <1>5, <1>6, <1>7, <1>8, <1>9 DEF StreamEvent

(***************************************************************************)
(* The steps of the tasker and of the functions it runs keep the           *)
(* invariant.                                                              *)
(***************************************************************************)
LEMMA JobIInv ==
    ASSUME IInv, \/ \E c \in Clients : NotificationLock(c) \/ RunTask(c) \/ JobEnds(c)
                 \/ \E p \in Callers : TaskerTakes(p)
                 \/ InventoryEnds
    PROVE  IInv'
<1> USE TaskNames, NoTaskAssumption, ClientsAssumption
        DEF IInv, ErrsInv, TypeOK, QueueTypeOK, queueVars
<1>1. ASSUME NEW c \in Clients, NotificationLock(c) PROVE IInv'
  <2>1. ErrsInv'
    BY <1>1 DEF LoopStates, WatcherStates, JobStates, NotificationLock, Done
  <2>2. LoopInv'
    BY <1>1 DEF LoopInv, FreshInv, MutexInv, NotificationLock, Done
  <2>3. FreshInv'
    BY <1>1 DEF FreshInv, PendingInv, LoopInv, NotificationLock, Done
  <2>4. MutexInv'
    BY <1>1 DEF MutexInv, FreshInv, LoopInv, NotificationLock, Done
  <2>5. NotiInv'
    BY <1>1 DEF NotiInv, Queued, Done, PendingInv, MutexInv, NotificationLock
  <2>6. NotificationNotLost'
    BY <1>1 DEF NotificationNotLost, StillToCome, Done, NotiInv, Queued, PendingInv, MutexInv,
       NotificationLock
  <2>7. PendingInv' /\ OneOpenWatcher'
    BY <1>1 DEF PendingInv, OneOpenWatcher, NotificationLock, Done
  <2> QED BY <2>1, <2>2, <2>3, <2>4, <2>5, <2>6, <2>7
<1>2. ASSUME NEW c \in Clients, RunTask(c) PROVE IInv'
  <2>1. ErrsInv'
    BY <1>2 DEF LoopStates, WatcherStates, JobStates, RunTask
  <2>2. FreshInv'
    BY <1>2 DEF FreshInv, PendingInv, LoopInv, RunTask
  <2>3. NotificationNotLost'
    BY <1>2 DEF NotificationNotLost, StillToCome, Done, NotiInv, Queued, PendingInv, MutexInv,
       RunTask
  <2>4. PendingInv' /\ LoopInv' /\ MutexInv' /\ NotiInv' /\ OneOpenWatcher'
    BY <1>2 DEF PendingInv, LoopInv, MutexInv, NotiInv, Queued, Done, OneOpenWatcher, RunTask
  <2> QED BY <2>1, <2>2, <2>3, <2>4
<1>3. ASSUME NEW c \in Clients, RunTaskEnds(c) PROVE IInv'
  <2>1. ErrsInv'
    BY <1>3 DEF LoopStates, WatcherStates, JobStates, RunTaskEnds
  <2>2. FreshInv'
    BY <1>3 DEF FreshInv, PendingInv, LoopInv, RunTaskEnds
  <2>3. MutexInv'
    BY <1>3 DEF MutexInv, FreshInv, LoopInv, RunTaskEnds
  <2>4. NotiInv'
    BY <1>3 DEF NotiInv, Queued, Done, PendingInv, MutexInv, RunTaskEnds
  <2>5. NotificationNotLost'
    BY <1>3 DEF NotificationNotLost, StillToCome, Done, NotiInv, Queued, PendingInv, MutexInv,
       RunTaskEnds
  <2>6. PendingInv' /\ LoopInv' /\ OneOpenWatcher'
    BY <1>3 DEF PendingInv, LoopInv, OneOpenWatcher, RunTaskEnds
  <2> QED BY <2>1, <2>2, <2>3, <2>4, <2>5, <2>6
<1>4. ASSUME NEW c \in Clients, NotificationUnlock(c) PROVE IInv'
  <2>1. ErrsInv'
    BY <1>4 DEF LoopStates, WatcherStates, JobStates, NotificationUnlock, Finish
  <2>2. LoopInv'
    BY <1>4 DEF LoopInv, FreshInv, MutexInv, NotificationUnlock, Finish
  <2>3. FreshInv'
    BY <1>4 DEF FreshInv, PendingInv, LoopInv, NotificationUnlock, Finish
  <2>4. MutexInv'
    BY <1>4 DEF MutexInv, FreshInv, LoopInv, NotificationUnlock, Finish
  <2>5. NotiInv'
    BY <1>4 DEF NotiInv, Queued, Done, PendingInv, MutexInv, NotificationUnlock, Finish
  <2>6. NotificationNotLost'
    BY <1>4 DEF NotificationNotLost, StillToCome, Done, NotiInv, Queued, PendingInv, MutexInv,
       NotificationUnlock, Finish
  <2>7. PendingInv' /\ OneOpenWatcher'
    BY <1>4 DEF PendingInv, OneOpenWatcher, NotificationUnlock, Finish
  <2> QED BY <2>1, <2>2, <2>3, <2>4, <2>5, <2>6, <2>7
<1>5. ASSUME NEW c \in Clients, PatchRunEnds(c) PROVE IInv'
  <2>1. ErrsInv'
    BY <1>5 DEF LoopStates, WatcherStates, JobStates, PatchRunEnds, Finish
  <2>2. FreshInv'
    BY <1>5 DEF FreshInv, PendingInv, LoopInv, PatchRunEnds, Finish
  <2>3. MutexInv'
    BY <1>5 DEF MutexInv, FreshInv, LoopInv, PatchRunEnds, Finish
  <2>4. NotiInv'
    BY <1>5 DEF NotiInv, Queued, Done, PendingInv, MutexInv, PatchRunEnds, Finish
  <2>5. NotificationNotLost'
    BY <1>5 DEF NotificationNotLost, StillToCome, Done, NotiInv, Queued, PendingInv, MutexInv,
       PatchRunEnds, Finish
  <2>6. PendingInv' /\ LoopInv' /\ OneOpenWatcher'
    BY <1>5 DEF PendingInv, LoopInv, OneOpenWatcher, PatchRunEnds, Finish
  <2> QED BY <2>1, <2>2, <2>3, <2>4, <2>5, <2>6
<1>6. ASSUME NEW p \in Callers, TaskerTakes(p) PROVE IInv'
  <2>1. ErrsInv'
    BY <1>6 DEF LoopStates, WatcherStates, JobStates, TaskerTakes, Start
  <2>2. PendingInv'
    BY <1>6 DEF PendingInv, TaskerTakes, Start
  <2>3. FreshInv'
    BY <1>6 DEF FreshInv, PendingInv, LoopInv, TaskerTakes, Start
  <2>4. MutexInv'
    BY <1>6 DEF MutexInv, FreshInv, LoopInv, TaskerTakes, Start
  <2>5. NotiInv'
    BY <1>6 DEF NotiInv, Queued, Done, PendingInv, MutexInv, TaskerTakes, Start
  <2>6. NotificationNotLost'
    BY <1>6 DEF NotificationNotLost, StillToCome, Done, NotiInv, Queued, PendingInv, MutexInv,
       TaskerTakes, Start
  <2>7. LoopInv' /\ OneOpenWatcher'
    BY <1>6 DEF LoopInv, OneOpenWatcher, TaskerTakes, Start
  <2> QED BY <2>1, <2>2, <2>3, <2>4, <2>5, <2>6, <2>7
<1>7. CASE InventoryEnds
  <2>1. ErrsInv'
    BY <1>7 DEF LoopStates, WatcherStates, JobStates, InventoryEnds, Finish
  <2>2. FreshInv'
    BY <1>7 DEF FreshInv, PendingInv, LoopInv, InventoryEnds, Finish
  <2>3. MutexInv'
    BY <1>7 DEF MutexInv, FreshInv, LoopInv, InventoryEnds, Finish
  <2>4. NotiInv'
    BY <1>7 DEF NotiInv, Queued, Done, PendingInv, MutexInv, InventoryEnds, Finish
  <2>5. NotificationNotLost'
    BY <1>7 DEF NotificationNotLost, StillToCome, Done, NotiInv, Queued, PendingInv, MutexInv,
       InventoryEnds, Finish
  <2>6. PendingInv' /\ LoopInv' /\ OneOpenWatcher'
    BY <1>7 DEF PendingInv, LoopInv, OneOpenWatcher, InventoryEnds, Finish
  <2> QED BY <2>1, <2>2, <2>3, <2>4, <2>5, <2>6
<1> QED BY <1>1, <1>2, <1>3, <1>4, <1>5, <1>6, <1>7 DEF JobEnds

(***************************************************************************)
(* The service loop, the restart file and SIGTERM keep the invariant.      *)
(***************************************************************************)
LEMMA OtherIInv ==
    ASSUME IInv, ServiceEnqueue \/ RestartFile \/ RestartExit \/ Sigterm
    PROVE  IInv'
<1> USE TaskNames, NoTaskAssumption, ClientsAssumption
        DEF IInv, ErrsInv, TypeOK, QueueTypeOK, queueVars
<1>1. CASE ServiceEnqueue
  <2>1. ErrsInv'
    BY <1>1 DEF LoopStates, WatcherStates, JobStates, ServiceEnqueue, Submit, clientVars
  <2>2. PendingInv'
    BY <1>1 DEF PendingInv, ServiceEnqueue, Submit, clientVars
  <2>3. NotiInv'
    BY <1>1 DEF NotiInv, Queued, Done, PendingInv, MutexInv, ServiceEnqueue, Submit, clientVars
  <2>4. NotificationNotLost'
    BY <1>1 DEF NotificationNotLost, StillToCome, Done, NotiInv, Queued, PendingInv, MutexInv,
       ServiceEnqueue, Submit, clientVars
  <2>5. LoopInv' /\ FreshInv' /\ MutexInv' /\ OneOpenWatcher'
    BY <1>1 DEF LoopInv, FreshInv, MutexInv, OneOpenWatcher, ServiceEnqueue, Submit, clientVars
  <2> QED BY <2>1, <2>2, <2>3, <2>4, <2>5
<1>2. CASE RestartFile
  <2>1. ErrsInv'
    BY <1>2 DEF LoopStates, WatcherStates, JobStates, RestartFile, Shut, clientVars
  <2>2. PendingInv' /\ LoopInv' /\ FreshInv' /\ MutexInv' /\ NotiInv' /\ NotificationNotLost' /\ OneOpenWatcher'
    BY <1>2 DEF PendingInv, LoopInv, FreshInv, MutexInv, NotiInv, Queued, Done,
       NotificationNotLost, StillToCome, OneOpenWatcher, RestartFile, Shut, clientVars
  <2> QED BY <2>1, <2>2
<1>3. CASE RestartExit
  <2>1. ErrsInv'
    BY <1>3 DEF LoopStates, WatcherStates, JobStates, RestartExit, Drain, clientVars
  <2>2. PendingInv' /\ LoopInv' /\ FreshInv' /\ MutexInv' /\ NotiInv' /\ NotificationNotLost' /\ OneOpenWatcher'
    BY <1>3 DEF PendingInv, LoopInv, FreshInv, MutexInv, NotiInv, Queued, Done,
       NotificationNotLost, StillToCome, OneOpenWatcher, RestartExit, Drain, clientVars
  <2> QED BY <2>1, <2>2
<1>4. CASE Sigterm
  <2>1. ErrsInv'
    BY <1>4 DEF LoopStates, WatcherStates, JobStates, Sigterm
  <2>2. NotiInv'
    BY <1>4 DEF NotiInv, Queued, Done, PendingInv, MutexInv, Sigterm
  <2>3. NotificationNotLost'
    BY <1>4 DEF NotificationNotLost, StillToCome, Done, NotiInv, Queued, PendingInv, MutexInv,
       Sigterm
  <2>4. PendingInv' /\ LoopInv' /\ FreshInv' /\ MutexInv' /\ OneOpenWatcher'
    BY <1>4 DEF PendingInv, LoopInv, FreshInv, MutexInv, OneOpenWatcher, Sigterm
  <2> QED BY <2>1, <2>2, <2>3, <2>4
<1> QED BY <1>1, <1>2, <1>3, <1>4

(***************************************************************************)
(* Every step keeps the invariant.                                         *)
(***************************************************************************)
LEMMA NextIInv == IInv /\ [Next]_vars => IInv'
<1> SUFFICES ASSUME IInv, [Next]_vars PROVE IInv'
  OBVIOUS
<1>1. CASE Next
  BY <1>1, LoopIInv, WatcherIInv, JobIInv, OtherIInv DEF Next
<1>2. CASE UNCHANGED vars
  BY <1>2 DEF IInv, vars, queueVars, clientVars, ErrsInv, TypeOK, QueueTypeOK, PendingInv, LoopInv,
     FreshInv, MutexInv, NotiInv, Queued, Done, NotificationNotLost, StillToCome, OneOpenWatcher
<1> QED BY <1>1, <1>2

(***************************************************************************)
(* The invariant holds throughout.                                         *)
(***************************************************************************)
LEMMA Invariance == Spec => []IInv
BY InitIInv, NextIInv, PTL DEF Spec

(***************************************************************************)
(* No notification is lost, for any number of clients: the one that is     *)
(* dropped because another is queued is covered by the queued one.         *)
(***************************************************************************)
THEOREM NoneLost == Spec => []NotificationNotLost
<1>1. IInv => NotificationNotLost
  BY DEF IInv
<1> QED BY <1>1, Invariance, PTL

(***************************************************************************)
(* Neither runTaskLoop nor the watcher closes a client while the tasker is *)
(* in its runTask.                                                         *)
(***************************************************************************)
THEOREM TaskHoldsClient == Spec => []NotClosedUnderTask
<1>1. IInv => NotClosedUnderTask
  BY DEF IInv, MutexInv, NotClosedUnderTask, LoopInv, ErrsInv, TypeOK
<1> QED BY <1>1, Invariance, PTL

(***************************************************************************)
(* Only the watcher of the current client works for an open client.        *)
(***************************************************************************)
THEOREM WatchersEnd == Spec => []OneOpenWatcher
<1>1. IInv => OneOpenWatcher
  BY DEF IInv
<1> QED BY <1>1, Invariance, PTL

(***************************************************************************)
(* The task of the state file is handed over before any notification of    *)
(* the same client.                                                        *)
(***************************************************************************)
THEOREM SavedTaskFirst == Spec => []ResumeFirst
<1>1. IInv => ResumeFirst
  BY DEF IInv, PendingInv, LoopInv, FreshInv, ResumeFirst
<1> QED BY <1>1, Invariance, PTL

(***************************************************************************)
(* The client uses the tasker as its callers may: every behaviour is one   *)
(* of the abstract queue, which the package tasker implements. No task is  *)
(* handed over by a caller that is still blocked, and none starts after    *)
(* Close.                                                                  *)
(***************************************************************************)
THEOREM UsesTaskQueue == Spec => QueueSpec
<1>1. Init => QueueInit
  BY DEF Init
<1>2. IInv /\ [Next]_vars => [QueueNext]_queueVars
  <2> SUFFICES ASSUME IInv, [Next]_vars PROVE [QueueNext]_queueVars
    OBVIOUS
  <2> USE TaskNames
  <2>1. CASE UNCHANGED vars
    BY <2>1 DEF vars
  <2>2. CASE LoopStep \/ LoopLocks
    <3>1. CASE LoopResume
      BY <3>1 DEF LoopResume, QueueNext, IInv, LoopInv
    <3> QED
      BY <2>2, <3>1 DEF LoopStep, LoopLocks, LoopNewClient, LoopNewClientError, LoopDisable,
         LoopNothing, LoopResumed, LoopWatchConfig, LoopClose, LoopWatchOnly
  <2>3. ASSUME NEW c \in Clients,
               WatcherSelect(c) \/ WatcherEnqueued(c) \/ StreamEvent(c) \/ WatcherClose(c)
        PROVE  [QueueNext]_queueVars
    <3>1. CASE WatcherEnqueue(c)
      BY <3>1 DEF WatcherEnqueue, QueueNext
    <3> QED
      BY <2>3, <3>1 DEF StreamEvent, WatcherSelect, WatcherEnqueued, WatcherIgnore, WatcherReconnect,
         WatcherExhausted, WatcherError, WatcherDisabled, WatcherClose
  <2>4. ASSUME NEW c \in Clients, NotificationLock(c) \/ RunTask(c) \/ JobEnds(c)
        PROVE  [QueueNext]_queueVars
    BY <2>4 DEF NotificationLock, RunTask, JobEnds, RunTaskEnds, NotificationUnlock, PatchRunEnds, QueueNext
  <2>5. CASE InventoryEnds \/ \E p \in Callers : TaskerTakes(p)
    BY <2>5 DEF InventoryEnds, TaskerTakes, QueueNext
  <2>6. CASE ServiceEnqueue \/ RestartFile \/ RestartExit \/ Sigterm
    BY <2>6 DEF ServiceEnqueue, RestartFile, RestartExit, Sigterm, QueueNext
  <2> QED BY <2>1, <2>2, <2>3, <2>4, <2>5, <2>6 DEF Next
<1> QED BY <1>1, <1>2, Invariance, PTL DEF Spec, QueueSpec
=============================================================================
