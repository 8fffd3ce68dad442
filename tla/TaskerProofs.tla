---------------------------- MODULE TaskerProofs ----------------------------
(***************************************************************************)
(* Proofs about Tasker: its inductive invariant, the safety properties     *)
(* that follow from it, and the refinement of TaskQueue.                   *)
(***************************************************************************)
EXTENDS Tasker, TLAPS

\* The points at which a caller holds mx; a Close never leaves them.
Holding == {"send", "unlock", "closeChan", "wait", "returned", "panicked"}

\* Exactly the holder of mx is at one of these points.
LockInv == \A p \in Callers : pc[p] \in Holding <=> mx = p

\* The life of the channel against the callers and the worker.
ChanInv ==
    /\ tc = "nil" <=> worker = "none"
    /\ tc = "closed" <=> \E p \in Callers : pc[p] \in {"wait", "returned"}
    /\ \A p \in Callers : pc[p] = "send" => tc = "open"
    /\ \A p \in Callers : pc[p] = "returned" => wg = 0

\* The wait group counts the worker from its Add to its Done, and no Close
\* comes between the go statement and the Add: an Enqueue still holds mx.
WorkerInv ==
    /\ wg = IF worker \in {"waiting", "running"} THEN 1 ELSE 0
    /\ current # NoTask <=> worker = "running"
    /\ worker = "exited" => tc = "closed"
    /\ worker = "spawned" => \E p \in Callers : pc[p] = "send"

ArgInv == \A p \in Callers : pc[p] \in {"lock", "send"} => arg[p] \in Tasks

IInv == TypeOK /\ LockInv /\ ChanInv /\ WorkerInv /\ ArgInv

(***************************************************************************)
(* The invariant holds when the package is initialised.                    *)
(***************************************************************************)
LEMMA InitIInv == Init => IInv
  BY TaskerAssumption
  DEF Init, IInv, TypeOK, LockInv, ChanInv, WorkerInv, ArgInv, Holding,
      CallerStates, WorkerStates

(***************************************************************************)
(* Every step of Enqueue, Close and the worker preserves it.               *)
(***************************************************************************)
LEMMA NextIInv == IInv /\ [Next]_vars => IInv'
<1> SUFFICES ASSUME IInv, [Next]_vars PROVE IInv'
  OBVIOUS
<1> USE TaskerAssumption
    DEF IInv, TypeOK, LockInv, ChanInv, WorkerInv, ArgInv, Holding,
        CallerStates, WorkerStates
<1>1. ASSUME NEW p \in Callers, NEW t \in Tasks, EnqueueCall(p, t)
      PROVE  IInv'
  BY <1>1 DEF EnqueueCall
<1>2. ASSUME NEW p \in Callers, EnqueueLock(p)
      PROVE  IInv'
  <2>1. CASE tc = "nil"
    BY <1>2, <2>1 DEF EnqueueLock
  <2>2. CASE tc # "nil"
    BY <1>2, <2>2 DEF EnqueueLock
  <2> QED BY <2>1, <2>2
<1>3. ASSUME NEW p \in Callers, Rendezvous(p)
      PROVE  IInv'
  BY <1>3 DEF Rendezvous
<1>4. ASSUME NEW p \in Callers, EnqueueUnlock(p)
      PROVE  IInv'
  BY <1>4 DEF EnqueueUnlock
<1>5. ASSUME NEW p \in Callers, CloseCall(p)
      PROVE  IInv'
  BY <1>5 DEF CloseCall
<1>6. ASSUME NEW p \in Callers, CloseLock(p)
      PROVE  IInv'
  BY <1>6 DEF CloseLock
<1>7. ASSUME NEW p \in Callers, CloseChan(p)
      PROVE  IInv'
  BY <1>7 DEF CloseChan
<1>8. ASSUME NEW p \in Callers, CloseNilChan(p)
      PROVE  IInv'
  BY <1>8 DEF CloseNilChan
<1>9. ASSUME NEW p \in Callers, CloseWait(p)
      PROVE  IInv'
  BY <1>9 DEF CloseWait
<1>10. ASSUME WorkerStart
       PROVE  IInv'
  BY <1>10 DEF WorkerStart
<1>11. ASSUME TaskDone
       PROVE  IInv'
  BY <1>11 DEF TaskDone
<1>12. ASSUME WorkerExit
       PROVE  IInv'
  BY <1>12 DEF WorkerExit
<1>13. ASSUME UNCHANGED vars
       PROVE  IInv'
  BY <1>13 DEF vars
<1> QED
  BY <1>1, <1>2, <1>3, <1>4, <1>5, <1>6, <1>7, <1>8, <1>9, <1>10, <1>11, <1>12,
     <1>13 DEF Next, Step

(***************************************************************************)
(* The invariant holds in every state of the tasker, for any number of     *)
(* callers and tasks.                                                      *)
(***************************************************************************)
THEOREM Invariance == Spec => []IInv
<1> QED BY InitIInv, NextIInv, PTL DEF Spec

(***************************************************************************)
(* Every variable of the tasker keeps its type.                            *)
(***************************************************************************)
THEOREM TypeCorrect == Spec => []TypeOK
<1>1. IInv => TypeOK
  BY DEF IInv
<1> QED BY <1>1, Invariance, PTL

(***************************************************************************)
(* Enqueue never sends on a closed channel.                                *)
(***************************************************************************)
THEOREM NeverSendsOnClosed == Spec => []NoSendOnClosed
<1>1. IInv => NoSendOnClosed
  BY DEF IInv, ChanInv, NoSendOnClosed
<1> QED BY <1>1, Invariance, PTL

(***************************************************************************)
(* When Close returns, the worker has gone and no task is half done.       *)
(***************************************************************************)
THEOREM CloseDrainsQueue == Spec => []CloseDrains
<1>1. IInv => CloseDrains
  <2> SUFFICES ASSUME IInv, NEW p \in Callers, pc[p] = "returned"
               PROVE  worker = "exited" /\ current = NoTask
    BY DEF CloseDrains
  <2>1. wg = 0 /\ tc = "closed" /\ mx = p
    BY DEF IInv, ChanInv, LockInv, Holding
  <2>2. worker \notin {"waiting", "running", "none"}
    BY <2>1 DEF IInv, ChanInv, WorkerInv
  <2>3. worker # "spawned"
    <3> SUFFICES ASSUME worker = "spawned" PROVE FALSE
      OBVIOUS
    <3>1. PICK q \in Callers : pc[q] = "send"
      BY DEF IInv, WorkerInv
    <3> QED BY <3>1, <2>1 DEF IInv, ChanInv
  <2> QED BY <2>2, <2>3 DEF IInv, TypeOK, WorkerStates, WorkerInv
<1> QED BY <1>1, Invariance, PTL

(***************************************************************************)
(* After a Close no Enqueue and no other Close gets past its Lock.         *)
(***************************************************************************)
THEOREM BlockedAfterClose == Spec => BlocksAfterClose
<1>1. IInv /\ [Next]_vars =>
        [tc = "closed" =>
           mx' = mx /\ \A p \in Callers :
                         pc[p] \in {"lock", "closeLock"} => pc'[p] = pc[p]]_vars
  <2> SUFFICES ASSUME IInv, Next, tc = "closed"
               PROVE  mx' = mx /\ \A p \in Callers :
                        pc[p] \in {"lock", "closeLock"} => pc'[p] = pc[p]
    OBVIOUS
  <2>1. PICK q \in Callers : pc[q] \in {"wait", "returned"} /\ mx = q
    BY DEF IInv, ChanInv, LockInv, Holding
  <2> QED
    BY <2>1, TaskerAssumption
    DEF Next, Step, EnqueueCall, EnqueueLock, Rendezvous, EnqueueUnlock, CloseCall,
        CloseLock, CloseChan, CloseNilChan, CloseWait, WorkerStart, TaskDone,
        WorkerExit, IInv, TypeOK, LockInv, Holding, CallerStates
<1> QED BY <1>1, Invariance, PTL DEF Spec, BlocksAfterClose

-----------------------------------------------------------------------------
(* Refinement *)

(***************************************************************************)
(* The initial states of the package are initial states of TaskQueue.      *)
(***************************************************************************)
LEMMA InitRefines == Init => Queue!QueueInit
  BY DEF Init, Queue!QueueInit

(***************************************************************************)
(* Every step is a step of TaskQueue or leaves its variables alone.        *)
(***************************************************************************)
LEMMA NextRefines == IInv /\ [Next]_vars => [Queue!QueueNext]_(Queue!queueVars)
<1> SUFFICES ASSUME IInv, [Next]_vars
             PROVE  Queue!QueueNext \/ UNCHANGED Queue!queueVars
  OBVIOUS
<1> DEFINE Pending == [p \in Callers |->
                         IF pc[p] \in {"lock", "send"} THEN arg[p] ELSE NoTask]
           Drained == \E p \in Callers : pc[p] = "returned"
<1> USE TaskerAssumption
<1>1. ASSUME NEW p \in Callers, NEW t \in Tasks, EnqueueCall(p, t)
      PROVE  Queue!Submit(p, t)
  BY <1>1 DEF EnqueueCall, Queue!Submit, IInv, TypeOK, CallerStates
<1>2. ASSUME NEW p \in Callers, EnqueueLock(p)
      PROVE  UNCHANGED Queue!queueVars
  <2>1. Pending' = Pending /\ Drained' = Drained
    BY <1>2 DEF EnqueueLock, IInv, TypeOK, CallerStates
  <2>2. (tc = "closed")' = (tc = "closed")
    BY <1>2 DEF EnqueueLock, IInv, TypeOK
  <2> QED BY <1>2, <2>1, <2>2 DEF EnqueueLock, Queue!queueVars
<1>3. ASSUME NEW p \in Callers, Rendezvous(p)
      PROVE  Queue!Start(p)
  <2>1. Pending[p] # NoTask /\ current = NoTask /\ tc # "closed"
    BY <1>3 DEF Rendezvous, IInv, ArgInv, WorkerInv
  <2>2. Pending' = [Pending EXCEPT ![p] = NoTask]
    BY <1>3 DEF Rendezvous, IInv, TypeOK, CallerStates
  <2>3. Drained' = Drained
    BY <1>3 DEF Rendezvous, IInv, TypeOK, CallerStates
  <2> QED BY <1>3, <2>1, <2>2, <2>3 DEF Rendezvous, Queue!Start
<1>4. ASSUME NEW p \in Callers, EnqueueUnlock(p) \/ CloseCall(p) \/ CloseLock(p)
                                \/ CloseNilChan(p)
      PROVE  UNCHANGED Queue!queueVars
  <2>1. Pending' = Pending /\ Drained' = Drained
    BY <1>4 DEF EnqueueUnlock, CloseCall, CloseLock, CloseNilChan, IInv, TypeOK,
                CallerStates
  <2> QED BY <1>4, <2>1
          DEF EnqueueUnlock, CloseCall, CloseLock, CloseNilChan, Queue!queueVars
<1>5. ASSUME NEW p \in Callers, CloseChan(p)
      PROVE  Queue!Shut
  <2>1. Pending' = Pending /\ Drained' = Drained
    BY <1>5 DEF CloseChan, IInv, TypeOK, CallerStates
  <2> QED BY <1>5, <2>1 DEF CloseChan, Queue!Shut
<1>6. ASSUME NEW p \in Callers, CloseWait(p)
      PROVE  Queue!Drain
  <2>1. Pending' = Pending
    BY <1>6 DEF CloseWait, IInv, TypeOK, CallerStates
  <2>2. ~Drained
    BY <1>6 DEF CloseWait, IInv, LockInv, Holding
  <2>3. Drained'
    BY <1>6 DEF CloseWait, IInv, TypeOK
  <2>4. tc = "closed" /\ current = NoTask
    BY <1>6 DEF CloseWait, IInv, ChanInv, WorkerInv
  <2> QED BY <1>6, <2>1, <2>2, <2>3, <2>4 DEF CloseWait, Queue!Drain
<1>7. ASSUME WorkerStart \/ WorkerExit \/ UNCHANGED vars
      PROVE  UNCHANGED Queue!queueVars
  BY <1>7 DEF WorkerStart, WorkerExit, vars, Queue!queueVars
<1>8. ASSUME TaskDone
      PROVE  Queue!Finish
  BY <1>8 DEF TaskDone, Queue!Finish, IInv, WorkerInv
<1> QED
  BY <1>1, <1>2, <1>3, <1>4, <1>5, <1>6, <1>7, <1>8 DEF Next, Step, Queue!QueueNext

(***************************************************************************)
(* The tasker implements the task queue its callers count on, for any      *)
(* number of callers and tasks.                                            *)
(***************************************************************************)
THEOREM Refinement == Spec => ImplementsTaskQueue
<1> QED BY InitRefines, NextRefines, Invariance, PTL
        DEF Spec, ImplementsTaskQueue, Queue!QueueSpec
=============================================================================
