-------------------------- MODULE PatchTaskProofs --------------------------
(***************************************************************************)
(* Proofs about PatchTask: the bound on reboots, the state file that is    *)
(* current and the honest success report hold for every set of tasks, any  *)
(* configuration of theirs, and any number of crashes, replaced Clients,   *)
(* failed saves and failed RPCs.                                           *)
(***************************************************************************)
EXTENDS PatchTask, TLAPS

InReboot == {"saveCount", "rebooting", "reboot", "await"}

\* The step in memory at the points of run(). Of the tasks from the service
\* only one that is still at PrePatch can be at the top of the loop without
\* being on disk.
StepInv ==
    /\ pc = "step" /\ locked => mem.step = "PrePatch" \/ disk = mem
    /\ pc \in {"started", "preReboot", "apply", "update", "postReboot", "setPost"}
                \cup InReboot => mem.step = "Patching"
    /\ pc \in {"started", "preReboot"} => mem.pre = 0 /\ mem.post = 0

\* A Client is closed during a run only with that run cut off from the
\* service, or at its end; a copy that is read at the end of a run that is not
\* cut off makes its task a stale one.
ClientInv ==
    /\ pc \in InRun /\ client # "open" /\ ~cut => AtFinalReport \/ pc = "complete"
    /\ pc \in InRun /\ queued # NoTask /\ ~cut => mem.id \in stale

\* A copy of the task, wherever it is, keeps the counters within the
\* limit: at most one reboot before the updates, so that the forced one
\* after them, which ignores the limit, is at most the second.
CountersOK(r) ==
    /\ r.pre <= 1
    /\ r.pre + r.post <= RebootLimit
    /\ r.step = "PrePatch" => r.pre = 0 /\ r.post = 0

\* The counters are ahead of the reboots, also the ones on disk: a counter
\* is saved before the machine goes down. A copy that waits while the machine
\* goes down never runs.
CountInv ==
    /\ mem # NoTask => CountersOK(mem) /\ reboots[mem.id] <= mem.pre + mem.post
    /\ disk # NoTask => CountersOK(disk) /\ reboots[disk.id] <= disk.pre + disk.post
    /\ queued # NoTask => CountersOK(queued)
    /\ queued # NoTask /\ pc # "await" => reboots[queued.id] <= queued.pre + queued.post
    /\ pc \in InReboot \ {"await"} => reboots[mem.id] < mem.pre + mem.post
    /\ pc \in InReboot => RebootAllowed

\* The step PostPatch is entered, and saved, after the updates only.
UpdatedInv ==
    /\ mem # NoTask => (mem.step = "PostPatch" => mem.id \in updated)
    /\ disk # NoTask => (disk.step = "PostPatch" => disk.id \in updated)
    /\ queued # NoTask => (queued.step = "PostPatch" => queued.id \in updated)
    /\ pc \in {"postReboot", "setPost"} => mem.id \in updated

\* A copy of a task that the service was told is over is a stale one,
\* except between the final report and complete().
StaleInv ==
    /\ pc \in InRun \ {"complete"} => (outcome[mem.id] # {} => mem.id \in stale)
    /\ queued # NoTask => (outcome[queued.id] # {} => queued.id \in stale)
    /\ disk # NoTask /\ outcome[disk.id] # {} =>
         disk.id \in stale \/ (pc = "complete" /\ mem.id = disk.id)

IInv ==
    /\ TypeOK
    /\ ClientInv
    /\ StepInv
    /\ StateFileCurrent
    /\ CountInv
    /\ RebootBound
    /\ UpdatedInv
    /\ SuccessIsReal
    /\ StaleInv

-----------------------------------------------------------------------------
(***************************************************************************)
(* A copy of a task is a record and not NoTask.                            *)
(***************************************************************************)
LEMMA NoTaskNotTask == NoTask \notin PatchTasks
  BY TasksAssumption DEF PatchTasks, PatchSteps

(***************************************************************************)
(* The invariant holds when the agent is first started.                    *)
(***************************************************************************)
LEMMA InitIInv == Init => IInv
<1> SUFFICES ASSUME Init PROVE IInv
  OBVIOUS
<1> USE TasksAssumption, RebootLimitAssumption, NoTaskNotTask
<1>1. TypeOK
  <2>1. disk \in PatchTasks \cup {NoTask}
    BY DEF Init, PatchTasks, PatchSteps, NewTask
  <2>2. outcome \in [Tasks -> SUBSET Outputs] /\ reboots \in [Tasks -> Nat]
    BY DEF Init
  <2> QED BY <2>1, <2>2 DEF Init, TypeOK, Points, InRun
<1>2. ClientInv /\ StepInv /\ StateFileCurrent /\ UpdatedInv /\ SuccessIsReal /\ StaleInv
  BY <1>1 DEF Init, NewTask, ClientInv, StepInv, StateFileCurrent, UpdatedInv,
     SuccessIsReal, StaleInv, InRun, InReboot, Points, Undecided
<1>3. CountInv /\ RebootBound
  BY <1>1 DEF Init, NewTask, CountInv, CountersOK, RebootBound, InReboot
<1> QED BY <1>1, <1>2, <1>3 DEF IInv

(***************************************************************************)
(* Every step preserves it.                                                *)
(***************************************************************************)
LEMMA NextIInv == IInv /\ [Next]_vars => IInv'
<1> SUFFICES ASSUME IInv, [Next]_vars PROVE IInv'
  OBVIOUS
<1> USE TasksAssumption, RebootLimitAssumption, NoTaskNotTask
    DEF IInv, TypeOK, ClientInv, StepInv, StateFileCurrent, CountInv, CountersOK,
        RebootBound, UpdatedInv, SuccessIsReal, StaleInv, PatchTasks, PatchSteps,
        Outputs, Points, InRun, InReboot, Undecided
<1>1. ASSUME LoadTask
       PROVE  IInv'
  BY <1>1 DEF LoadTask, AtFinalReport, RebootAllowed
<1>2. ASSUME NothingLoaded
       PROVE  IInv'
  BY <1>2 DEF NothingLoaded,
            clientVars, history, AtFinalReport, RebootAllowed
<1>3. ASSUME NEW t \in Tasks, RunApplyPatches(t)
       PROVE  IInv'
  <2> USE <1>3 DEF RunApplyPatches, NewTask, AtFinalReport, RebootAllowed
  <2>a. mem' \in PatchTasks /\ disk' \in PatchTasks \cup {NoTask}
    OBVIOUS
  <2>b. outcome' \in [Tasks -> SUBSET Outputs]
    OBVIOUS
  <2>c. reboots' \in [Tasks -> Nat]
    OBVIOUS
  <2>1. TypeOK'
    BY <2>a, <2>b, <2>c
  <2>2. StepInv' /\ ClientInv' /\ StateFileCurrent'
    BY <2>1
  <2>3. CountInv' /\ RebootBound'
    BY <2>1
  <2>4. UpdatedInv' /\ SuccessIsReal'
    BY <2>1
  <2>5. StaleInv'
    BY <2>1
  <2> QED BY <2>1, <2>2, <2>3, <2>4, <2>5
<1>4. ASSUME UnknownStep
       PROVE  IInv'
  BY <1>4 DEF UnknownStep,
            clientVars, history, AtFinalReport, RebootAllowed
<1>5. ASSUME PrePatch
       PROVE  IInv'
  BY <1>5 DEF PrePatch, SaveThen,
            clientVars, history, AtFinalReport, RebootAllowed
<1>6. ASSUME ReportStarted
       PROVE  IInv'
  BY <1>6 DEF ReportStarted, ReportContinuing, SaveThen,
            clientVars, history, AtFinalReport, RebootAllowed
<1>7. ASSUME Patching
       PROVE  IInv'
  BY <1>7 DEF Patching,
            clientVars, history, AtFinalReport, RebootAllowed
<1>8. ASSUME ReportApplying
       PROVE  IInv'
  BY <1>8 DEF ReportApplying, ReportContinuing, SaveThen,
            clientVars, history, AtFinalReport, RebootAllowed
<1>9. ASSUME RunUpdates
       PROVE  IInv'
  BY <1>9 DEF RunUpdates,
            clientVars, history, AtFinalReport, RebootAllowed
<1>10. ASSUME Panic
       PROVE  IInv'
  BY <1>10 DEF Panic,
            clientVars, history, AtFinalReport, RebootAllowed
<1>11. ASSUME NEW b \in BOOLEAN, WantReboot(b)
       PROVE  IInv'
  <2>1. CASE b
    <3>1. /\ pc = "preReboot" /\ mem \in PatchTasks
          /\ mem' = [mem EXCEPT !.pre = mem.pre + 1]
      BY <1>11, <2>1 DEF WantReboot, AtRebootCheck, Counted
    <3>2. mem.pre = 0 /\ mem.post = 0 /\ mem.pre + mem.post < RebootLimit
      BY <3>1
    <3>3. StateFileCurrent'
      BY <1>11, <3>1 DEF WantReboot
    <3> QED BY <1>11, <3>1, <3>2, <3>3
            DEF WantReboot, clientVars, history, AtFinalReport, RebootAllowed
  <2>2. CASE ~b
    <3>1. /\ pc = "postReboot" /\ mem \in PatchTasks
          /\ mem' = [mem EXCEPT !.post = mem.post + 1]
      BY <1>11, <2>2 DEF WantReboot, AtRebootCheck, Counted
    <3>2. mem.pre + mem.post < RebootLimit
      BY <1>11, <3>1 DEF WantReboot, ForcedReboot, UnderLimit
    <3> QED BY <1>11, <3>1, <3>2
            DEF WantReboot, clientVars, history, AtFinalReport, RebootAllowed
  <2> QED BY <2>1, <2>2
<1>12. ASSUME NEW b \in BOOLEAN, SkipReboot(b)
       PROVE  IInv'
  <2> USE <1>12 DEF SkipReboot, AtRebootCheck, AfterRebootCheck,
            clientVars, history, AtFinalReport, RebootAllowed
  <2>1. TypeOK'
    OBVIOUS
  <2>2. StepInv' /\ StateFileCurrent'
    BY <2>1
  <2>3. ClientInv'
    BY <2>1
  <2>4. CountInv' /\ RebootBound'
    BY <2>1
  <2>5. UpdatedInv' /\ SuccessIsReal'
    BY <2>1
  <2>6. StaleInv'
    BY <2>1
  <2> QED BY <2>1, <2>2, <2>3, <2>4, <2>5, <2>6
<1>13. ASSUME NEW b \in BOOLEAN, RebootCheckError(b)
       PROVE  IInv'
  BY <1>13 DEF RebootCheckError, AtRebootCheck,
            clientVars, history, AtFinalReport, RebootAllowed
<1>14. ASSUME SaveRebootCount
       PROVE  IInv'
  BY <1>14 DEF SaveRebootCount, SaveThen,
            clientVars, history, AtFinalReport, RebootAllowed
<1>15. ASSUME ReportRebooting
       PROVE  IInv'
  BY <1>15 DEF ReportRebooting, SaveThen,
            clientVars, history, AtFinalReport, RebootAllowed
<1>16. ASSUME RebootSystem
       PROVE  IInv'
  BY <1>16 DEF RebootSystem,
            clientVars, history, AtFinalReport, RebootAllowed
<1>17. ASSUME MachineReboots
       PROVE  IInv'
  BY <1>17 DEF MachineReboots, ProcessEnds,
            clientVars, history, AtFinalReport, RebootAllowed
<1>18. ASSUME SetPostPatch
       PROVE  IInv'
  BY <1>18 DEF SetPostPatch, SaveThen,
            clientVars, history, AtFinalReport, RebootAllowed
<1>19. ASSUME PostPatch
       PROVE  IInv'
  BY <1>19 DEF PostPatch, ReportCompleted,
            clientVars, history, AtFinalReport, RebootAllowed
<1>20. ASSUME PostPatchCheckError
       PROVE  IInv'
  BY <1>20 DEF PostPatchCheckError,
            clientVars, history, AtFinalReport, RebootAllowed
<1>21. ASSUME ReportFailed
       PROVE  IInv'
  BY <1>21 DEF ReportFailed, ReportCompleted,
            clientVars, history, AtFinalReport, RebootAllowed
<1>22. ASSUME RecoverFromPanic
       PROVE  IInv'
  BY <1>22 DEF RecoverFromPanic,
            clientVars, history, AtFinalReport, RebootAllowed
<1>23. ASSUME Complete
       PROVE  IInv'
  <2> USE <1>23 DEF Complete,
            clientVars, history, AtFinalReport, RebootAllowed
  <2>1. TypeOK'
    OBVIOUS
  <2>2. StepInv' /\ StateFileCurrent'
    BY <2>1
  <2>3. ClientInv'
    BY <2>1
  <2>4. CountInv' /\ RebootBound'
    BY <2>1
  <2>5. UpdatedInv' /\ SuccessIsReal'
    BY <2>1
  <2>6. StaleInv'
    BY <2>1
  <2> QED BY <2>1, <2>2, <2>3, <2>4, <2>5, <2>6
<1>24. ASSUME Crash
       PROVE  IInv'
  BY <1>24 DEF Crash, ProcessEnds,
            clientVars, history, AtFinalReport, RebootAllowed
<1>25. ASSUME StartAgent
       PROVE  IInv'
  BY <1>25 DEF StartAgent,
            clientVars, history, AtFinalReport, RebootAllowed
<1>26. ASSUME UNCHANGED vars
       PROVE  IInv'
  BY <1>26 DEF vars,
            clientVars, history, AtFinalReport, RebootAllowed
<1>27. ASSUME PatchRun
       PROVE  IInv'
  BY <1>27 DEF PatchRun, history, AtFinalReport, RebootAllowed
<1>28. ASSUME CloseClient
       PROVE  IInv'
  <2> USE <1>28 DEF CloseClient, history, AtFinalReport, RebootAllowed
  <2>1. TypeOK'
    OBVIOUS
  <2>2. StepInv' /\ StateFileCurrent'
    BY <2>1
  <2>3. ClientInv'
    BY <2>1
  <2>4. CountInv' /\ RebootBound'
    BY <2>1
  <2>5. UpdatedInv' /\ SuccessIsReal'
    BY <2>1
  <2>6. StaleInv'
    BY <2>1
  <2> QED BY <2>1, <2>2, <2>3, <2>4, <2>5, <2>6
<1> QED
  BY <1>1, <1>2, <1>3, <1>4, <1>5, <1>6, <1>7, <1>8, <1>9, <1>10,
     <1>11, <1>12, <1>13, <1>14, <1>15, <1>16, <1>17, <1>18, <1>19, <1>20,
     <1>21, <1>22, <1>23, <1>24, <1>25, <1>26, <1>27, <1>28
  DEF Next, Run, RebootIfNeeded

-----------------------------------------------------------------------------
(***************************************************************************)
(* The inductive invariant holds in every state.                           *)
(***************************************************************************)
THEOREM Invariance == Spec => []IInv
<1> QED BY InitIInv, NextIInv, PTL DEF Spec

(***************************************************************************)
(* The state file is never torn, and there is a task in memory exactly     *)
(* while run() runs.                                                       *)
(***************************************************************************)
THEOREM TypeCorrect == Spec => []TypeOK
<1>1. IInv => TypeOK
  BY DEF IInv
<1> QED BY <1>1, Invariance, PTL

(***************************************************************************)
(* No task reboots the machine more often than the limit each time it is   *)
(* handed out, and a task with NEVER or a dry run never does, whatever     *)
(* crashes and fails.                                                      *)
(***************************************************************************)
THEOREM RebootsAreBounded == Spec => []RebootBound
<1>1. IInv => RebootBound
  BY DEF IInv
<1> QED BY <1>1, Invariance, PTL

(***************************************************************************)
(* A crash during the updates or the reboots of a task resumes it at the   *)
(* step and with the counters it had, also a copy that another Client read *)
(* while the task was still run.                                           *)
(***************************************************************************)
THEOREM StateFileIsCurrent == Spec => []StateFileCurrent
<1>1. IInv => StateFileCurrent
  BY DEF IInv
<1> QED BY <1>1, Invariance, PTL

(***************************************************************************)
(* The service hears of a success only after the updates succeeded.        *)
(***************************************************************************)
THEOREM SuccessOnlyIfUpdated == Spec => []SuccessIsReal
<1>1. IInv => SuccessIsReal
  BY DEF IInv
<1> QED BY <1>1, Invariance, PTL

(***************************************************************************)
(* A task that was reported as over is worked on again only if its state   *)
(* was left on disk, or read between that report and complete().           *)
(***************************************************************************)
THEOREM ReworkNeedsStaleState == Spec => []ReworkOnlyIfStale
<1>1. IInv => ReworkOnlyIfStale
  BY DEF IInv, StaleInv, ReworkOnlyIfStale, InRun, Points
<1> QED BY <1>1, Invariance, PTL
=============================================================================
