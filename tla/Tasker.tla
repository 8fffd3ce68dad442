------------------------------- MODULE Tasker -------------------------------
(***************************************************************************)
(* Package tasker (tasker/tasker.go): a process-wide task queue made of a  *)
(* mutex mx, an unbuffered channel tc that is made by the first Enqueue,   *)
(* one worker goroutine and a wait group wg that Close waits on.           *)
(*                                                                         *)
(* One action stands for one step between two points at which another      *)
(* goroutine can be observed: taking or releasing mx, the rendezvous on    *)
(* tc, closing tc, the worker's wg.Add and wg.Done.                        *)
(***************************************************************************)
EXTENDS Naturals

CONSTANTS Callers, Tasks, NoTask,
          NoCaller      \* mx is free

ASSUME TaskerAssumption == NoTask \notin Tasks /\ NoCaller \notin Callers

VARIABLES
    mx,       \* the caller that holds mx, or NoCaller
    tc,       \* the channel: "nil", "open" or "closed"
    wg,       \* counter of the wait group
    pc,       \* where each caller is in Enqueue or Close
    arg,      \* the task each caller passes to Enqueue
    worker,   \* the tasker goroutine
    current   \* the task the tasker goroutine runs

vars == <<mx, tc, wg, pc, arg, worker, current>>

CallerStates == {"idle",
                 "lock", "send", "unlock",                       \* Enqueue
                 "closeLock", "closeChan", "wait", "returned",   \* Close
                 "panicked"}

WorkerStates == {"none", "spawned", "waiting", "running", "exited"}

(***************************************************************************)
(* Types, for every goroutine and the shared variables of the package.     *)
(***************************************************************************)
TypeOK ==
    /\ mx \in Callers \cup {NoCaller}
    /\ tc \in {"nil", "open", "closed"}
    /\ wg \in Nat
    /\ pc \in [Callers -> CallerStates]
    /\ arg \in [Callers -> Tasks \cup {NoTask}]
    /\ worker \in WorkerStates
    /\ current \in Tasks \cup {NoTask}

Init ==
    /\ mx = NoCaller
    /\ tc = "nil"
    /\ wg = 0
    /\ pc = [p \in Callers |-> "idle"]
    /\ arg = [p \in Callers |-> NoTask]
    /\ worker = "none"
    /\ current = NoTask

-----------------------------------------------------------------------------
(* Enqueue *)

EnqueueCall(p, t) ==
    /\ pc[p] = "idle"
    /\ pc' = [pc EXCEPT ![p] = "lock"]
    /\ arg' = [arg EXCEPT ![p] = t]
    /\ UNCHANGED <<mx, tc, wg, worker, current>>

\* mx.Lock(), and initTasker on the first call.
EnqueueLock(p) ==
    /\ pc[p] = "lock"
    /\ mx = NoCaller
    /\ mx' = p
    /\ IF tc = "nil"
         THEN tc' = "open" /\ worker' = "spawned"
         ELSE UNCHANGED <<tc, worker>>
    /\ pc' = [pc EXCEPT ![p] = "send"]
    /\ UNCHANGED <<wg, arg, current>>

\* Variant of Rendezvous on a buffered channel: the send does not wait for
\* the worker to take the task up.
BufferedSend(p) ==
    /\ pc[p] = "send"
    /\ tc = "open"
    /\ worker \in {"spawned", "waiting"}
    /\ worker' = IF worker = "waiting" THEN "running" ELSE worker
    /\ current' = arg[p]
    /\ arg' = [arg EXCEPT ![p] = NoTask]
    /\ pc' = [pc EXCEPT ![p] = "unlock"]
    /\ UNCHANGED <<mx, tc, wg>>

\* tc <- task in Enqueue meets t := <-tc in the tasker goroutine.
Rendezvous(p) ==
    /\ pc[p] = "send"
    /\ tc = "open"
    /\ worker = "waiting"
    /\ worker' = "running"
    /\ current' = arg[p]
    /\ arg' = [arg EXCEPT ![p] = NoTask]
    /\ pc' = [pc EXCEPT ![p] = "unlock"]
    /\ UNCHANGED <<mx, tc, wg>>

EnqueueUnlock(p) ==
    /\ pc[p] = "unlock"
    /\ mx' = NoCaller
    /\ pc' = [pc EXCEPT ![p] = "idle"]
    /\ UNCHANGED <<tc, wg, arg, worker, current>>

-----------------------------------------------------------------------------
(* Close *)

CloseCall(p) ==
    /\ pc[p] = "idle"
    /\ pc' = [pc EXCEPT ![p] = "closeLock"]
    /\ UNCHANGED <<mx, tc, wg, arg, worker, current>>

\* mx.Lock(); Close has no Unlock.
CloseLock(p) ==
    /\ pc[p] = "closeLock"
    /\ mx = NoCaller
    /\ mx' = p
    /\ pc' = [pc EXCEPT ![p] = "closeChan"]
    /\ UNCHANGED <<tc, wg, arg, worker, current>>

\* Variant of CloseChan that unlocks mx once the channel is closed.
CloseAndUnlock(p) ==
    /\ pc[p] = "closeChan"
    /\ tc = "open"
    /\ tc' = "closed"
    /\ mx' = NoCaller
    /\ pc' = [pc EXCEPT ![p] = "wait"]
    /\ UNCHANGED <<wg, arg, worker, current>>

\* close(tc)
CloseChan(p) ==
    /\ pc[p] = "closeChan"
    /\ tc = "open"
    /\ tc' = "closed"
    /\ pc' = [pc EXCEPT ![p] = "wait"]
    /\ UNCHANGED <<mx, wg, arg, worker, current>>

\* close(tc) when no task was ever enqueued: close of a nil channel panics.
CloseNilChan(p) ==
    /\ pc[p] = "closeChan"
    /\ tc = "nil"
    /\ pc' = [pc EXCEPT ![p] = "panicked"]
    /\ UNCHANGED <<mx, tc, wg, arg, worker, current>>

\* Variant of CloseWait that does not wait for the wait group.
CloseNoWait(p) ==
    /\ pc[p] = "wait"
    /\ pc' = [pc EXCEPT ![p] = "returned"]
    /\ UNCHANGED <<mx, tc, wg, arg, worker, current>>

\* wg.Wait()
CloseWait(p) ==
    /\ pc[p] = "wait"
    /\ wg = 0
    /\ pc' = [pc EXCEPT ![p] = "returned"]
    /\ UNCHANGED <<mx, tc, wg, arg, worker, current>>

-----------------------------------------------------------------------------
(* The tasker goroutine *)

\* wg.Add(1)
WorkerStart ==
    /\ worker = "spawned"
    /\ wg' = wg + 1
    /\ worker' = "waiting"
    /\ UNCHANGED <<mx, tc, pc, arg, current>>

\* Variant of TaskDone in which the worker leaves its loop after one task.
TaskDoneReturns ==
    /\ worker = "running"
    /\ worker' = "exited"
    /\ wg' = wg - 1
    /\ current' = NoTask
    /\ UNCHANGED <<mx, tc, pc, arg>>

\* t.run() returns.
TaskDone ==
    /\ worker = "running"
    /\ worker' = "waiting"
    /\ current' = NoTask
    /\ UNCHANGED <<mx, tc, wg, pc, arg>>

\* Variant of WorkerExit without defer wg.Done().
WorkerExitNoDone ==
    /\ worker = "waiting"
    /\ tc = "closed"
    /\ worker' = "exited"
    /\ UNCHANGED <<mx, tc, wg, pc, arg, current>>

\* The receive reports an empty and closed channel; wg.Done().
WorkerExit ==
    /\ worker = "waiting"
    /\ tc = "closed"
    /\ worker' = "exited"
    /\ wg' = wg - 1
    /\ UNCHANGED <<mx, tc, pc, arg, current>>

-----------------------------------------------------------------------------
Step(p) ==
    \/ EnqueueLock(p) \/ Rendezvous(p) \/ EnqueueUnlock(p)
    \/ CloseLock(p) \/ CloseChan(p) \/ CloseNilChan(p) \/ CloseWait(p)

\* A panic ends the process and every goroutine with it.
Alive == \A p \in Callers : pc[p] # "panicked"

Next ==
    /\ Alive
    /\ \/ \E p \in Callers, t \in Tasks : EnqueueCall(p, t)
       \/ \E p \in Callers : CloseCall(p)
       \/ \E p \in Callers : Step(p)
       \/ WorkerStart
       \/ TaskDone
       \/ WorkerExit

Spec == Init /\ [][Next]_vars

(***************************************************************************)
(* A goroutine that can run does run; a Go mutex is starvation free, hence *)
(* strong fairness for the two Locks.  TaskDone: every task returns.       *)
(***************************************************************************)
Fairness ==
    /\ \A p \in Callers :
         /\ SF_vars(Alive /\ EnqueueLock(p))
         /\ SF_vars(Alive /\ CloseLock(p))
         /\ WF_vars(Alive /\ (Rendezvous(p) \/ EnqueueUnlock(p)))
         /\ WF_vars(Alive /\ (CloseChan(p) \/ CloseNilChan(p) \/ CloseWait(p)))
    /\ WF_vars(Alive /\ (WorkerStart \/ TaskDone \/ WorkerExit))

FairSpec == Spec /\ Fairness

-----------------------------------------------------------------------------
(* Properties *)

(***************************************************************************)
(* A send on a closed channel panics.  Enqueue never does one although it  *)
(* does not test tc: whoever closes tc keeps mx for ever.                  *)
(***************************************************************************)
NoSendOnClosed == \A p \in Callers : pc[p] = "send" => tc = "open"

(***************************************************************************)
(* wg.Add(1) is done by the goroutine and not by the go statement, the     *)
(* classic way to let Wait return too early.  Here Close cannot overtake   *)
(* the Add: when Close returns, the worker has left its loop and every     *)
(* task that an Enqueue handed over has been run to its end.               *)
(***************************************************************************)
CloseDrains ==
    \A p \in Callers :
        pc[p] = "returned" => worker = "exited" /\ current = NoTask

(***************************************************************************)
(* "Calls to Enqueue after a Close will block" and "Subsequent calls to    *)
(* Close() will block": once tc is closed, mx never changes hands again,   *)
(* so that no caller gets past its Lock.                                   *)
(***************************************************************************)
BlocksAfterClose ==
    [][tc = "closed" =>
         mx' = mx /\ \A p \in Callers :
                       pc[p] \in {"lock", "closeLock"} => pc'[p] = pc[p]]_vars

(***************************************************************************)
(* The task a caller hands to Enqueue is taken by the worker, whatever the *)
(* other callers do, unless a Close gets hold of mx first.                 *)
(***************************************************************************)
EnqueueTaken ==
    \A p \in Callers :
        pc[p] = "lock" ~> \/ pc[p] = "idle"
                          \/ \E q \in Callers : pc[q] \in {"closeChan", "wait", "returned", "panicked"}

(***************************************************************************)
(* A Close that has closed the channel returns, even if a task was running *)
(* when it was called: the agent's shutdown on a restart file depends on   *)
(* it.                                                                     *)
(***************************************************************************)
CloseReturns == \A p \in Callers : pc[p] = "wait" ~> pc[p] = "returned"

(***************************************************************************)
(* The task queue the callers see.                                         *)
(***************************************************************************)
Queue == INSTANCE TaskQueue WITH
           pending <- [p \in Callers |->
                         IF pc[p] \in {"lock", "send"} THEN arg[p] ELSE NoTask],
           running <- current,
           closed  <- tc = "closed",
           drained <- \E p \in Callers : pc[p] = "returned"

(***************************************************************************)
(* Tasker implements TaskQueue: one task at a time, none taken after a     *)
(* Close, and Close returns only when the running task has finished.       *)
(***************************************************************************)
ImplementsTaskQueue == Queue!QueueSpec
=============================================================================
