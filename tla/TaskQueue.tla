----------------------------- MODULE TaskQueue -----------------------------
(***************************************************************************)
(* What package tasker promises its callers, stated without its mutex, its *)
(* channel and its wait group: callers hand over tasks, at most one task   *)
(* runs at a time, and a close stops the hand-over of further tasks and    *)
(* reports back only when nothing is running any more.                     *)
(*                                                                         *)
(* Tasker.tla is the detailed specification that implements this one, and  *)
(* TaskClient.tla is written on top of it.                                 *)
(***************************************************************************)
CONSTANTS Callers,  \* the goroutines that call Enqueue and Close
          Tasks,    \* the functions that are handed to Enqueue
          NoTask    \* "no task"

ASSUME NoTaskAssumption == NoTask \notin Tasks

VARIABLES pending,  \* pending[p]: the task that p waits to hand over
          running,  \* the task that is being run
          closed,   \* no further task is taken
          drained   \* a Close has returned

queueVars == <<pending, running, closed, drained>>

QueueTypeOK ==
    /\ pending \in [Callers -> Tasks \cup {NoTask}]
    /\ running \in Tasks \cup {NoTask}
    /\ closed \in BOOLEAN
    /\ drained \in BOOLEAN

QueueInit ==
    /\ pending = [p \in Callers |-> NoTask]
    /\ running = NoTask
    /\ closed = FALSE
    /\ drained = FALSE

\* A goroutine calls Enqueue; it stays blocked until its task is taken.
Submit(p, t) ==
    /\ pending[p] = NoTask
    /\ pending' = [pending EXCEPT ![p] = t]
    /\ UNCHANGED <<running, closed, drained>>

\* The tasker takes p's task and runs it.
Start(p) ==
    /\ pending[p] # NoTask
    /\ running = NoTask
    /\ ~closed
    /\ running' = pending[p]
    /\ pending' = [pending EXCEPT ![p] = NoTask]
    /\ UNCHANGED <<closed, drained>>

\* The task that runs returns.
Finish ==
    /\ running # NoTask
    /\ running' = NoTask
    /\ UNCHANGED <<pending, closed, drained>>

\* Close takes effect: from here on no task is taken.
Shut ==
    /\ ~closed
    /\ closed' = TRUE
    /\ UNCHANGED <<pending, running, drained>>

\* Close returns.
Drain ==
    /\ closed
    /\ running = NoTask
    /\ ~drained
    /\ drained' = TRUE
    /\ UNCHANGED <<pending, running, closed>>

QueueNext ==
    \/ \E p \in Callers, t \in Tasks : Submit(p, t)
    \/ \E p \in Callers : Start(p)
    \/ Finish
    \/ Shut
    \/ Drain

QueueSpec == QueueInit /\ [][QueueNext]_queueVars
=============================================================================
