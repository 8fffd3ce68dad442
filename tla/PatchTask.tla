----------------------------- MODULE PatchTask -----------------------------
(***************************************************************************)
(* The ApplyPatches task (agentendpoint/patch_task.go) together with its   *)
(* state file (agentendpoint/task_state.go): a task survives crashes of    *)
(* the agent and the reboots it asks for itself, because run() resumes the *)
(* copy of the patchTask it finds on disk.                                 *)
(*                                                                         *)
(* Every action ends at the next effect that outlives the process or is    *)
(* seen outside it (a save of the state file, an RPC, the package manager, *)
(* the reboot), so that Crash can strike between any two effects.  A save  *)
(* writes a temporary file and renames it (writeFile): it is atomic, and   *)
(* it may fail.  An RPC may fail after its retries.  Whether the system    *)
(* wants a reboot is the system's business: systemRebootRequired answers   *)
(* anything, every time it is asked.                                       *)
(*                                                                         *)
(* Each Client of the agent reads the state file when it begins to wait    *)
(* for notifications, and hands the copy to the tasker.  A task from the   *)
(* service is run under the lock of its Client, which Close waits for; a   *)
(* copy from the file is not, so that the Client may be replaced, and the  *)
(* next one read the file, while the copy of the last one is being run.    *)
(***************************************************************************)
EXTENDS Naturals

CONSTANTS
    Tasks,          \* ids of the ApplyPatches tasks the service hands out
    RebootConfig,   \* RebootConfig[t]: "DEFAULT", "ALWAYS" or "NEVER"
    DryRun,         \* DryRun[t]: the task must not change the machine
    RebootLimit,    \* totalRebootCountLimit
    NoTask          \* no task: an empty taskState, or no task in memory

ASSUME TasksAssumption ==
    /\ NoTask \notin [id: Tasks, step: {"unknown", "PrePatch", "Patching", "PostPatch"},
                      pre: Nat, post: Nat]
    /\ RebootConfig \in [Tasks -> {"DEFAULT", "ALWAYS", "NEVER"}]
    /\ DryRun \in [Tasks -> BOOLEAN]

\* The code has 5.  The bound on reboots below needs 2: one reboot before
\* the updates and one, with ALWAYS, that does not look at the limit.
ASSUME RebootLimitAssumption == RebootLimit \in Nat /\ RebootLimit >= 2

VARIABLES
    pc,        \* where the agent is, see Points
    mem,       \* the patchTask in memory
    disk,      \* the PatchTask in the state file
    client,    \* the Client: "none", "enqueue" (its copy waits) or "open"
    queued,    \* the copy it has read, which waits for the tasker
    locked,    \* the task in memory is run under the lock of the Client
    cut,       \* the Client of the task in memory is closed, no call goes out
    reboots,   \* reboots[t]: reboots caused by task t since it was handed out
    updated,   \* tasks for which runUpdates has returned without an error
    outcome,   \* outcome[t]: the reports the service has accepted of the last
               \* time it handed out t
    stale      \* tasks that ended and whose state was left on disk, or read
               \* before it was removed

clientVars == <<client, queued, locked, cut>>
history == <<reboots, updated, outcome, stale>>
vars == <<pc, mem, disk, clientVars, history>>

PatchSteps == {"unknown", "PrePatch", "Patching", "PostPatch"}

PatchTasks == [id: Tasks, step: PatchSteps, pre: Nat, post: Nat]

Outputs == {"SUCCEEDED", "SUCCEEDED_REBOOT_REQUIRED", "FAILED"}

Points ==
    {"off",        \* the process does not run
     "idle",       \* no patch task is run
     "step",       \* top of the loop of run()
     "started",    \* PrePatch: report STARTED
     "preReboot",  \* PrePatch: rebootIfNeeded(prePatch = true)
     "apply",      \* Patching: report APPLYING_PATCHES
     "update",     \* Patching: runUpdates
     "postReboot", \* Patching: rebootIfNeeded(prePatch = false)
     "saveCount",  \* rebootIfNeeded: save the incremented counter
     "rebooting",  \* rebootIfNeeded: report REBOOTING
     "reboot",     \* rebootIfNeeded: rebootSystem
     "await",      \* rebootIfNeeded: wait for the system to go down
     "setPost",    \* Patching: setStep(PostPatch)
     "fail",       \* report the task as FAILED
     "panic",      \* the deferred function recovers from a panic
     "complete"}   \* the deferred function completes the task

InRun == Points \ {"off", "idle"}

(***************************************************************************)
(* Types: the state file holds no task or a whole patchTask, never a torn  *)
(* one, and there is a task in memory exactly while run() runs.            *)
(***************************************************************************)
TypeOK ==
    /\ pc \in Points
    /\ mem \in PatchTasks \cup {NoTask}
    /\ disk \in PatchTasks \cup {NoTask}
    /\ pc \in InRun <=> mem # NoTask
    /\ client \in {"none", "enqueue", "open"}
    /\ queued \in PatchTasks \cup {NoTask}
    /\ client = "enqueue" <=> queued # NoTask
    /\ locked \in BOOLEAN /\ cut \in BOOLEAN
    /\ reboots \in [Tasks -> Nat]
    /\ updated \subseteq Tasks
    /\ outcome \in [Tasks -> SUBSET Outputs]
    /\ stale \subseteq Tasks

NewTask(t, step) == [id |-> t, step |-> step, pre |-> 0, post |-> 0]

\* The agent starts with no saved task, or with one whose step it does not
\* know: the state file of another version of the agent.
Init ==
    /\ pc = "idle"
    /\ mem = NoTask
    /\ disk \in {NoTask} \cup {NewTask(t, "unknown") : t \in Tasks}
    /\ client = "none" /\ queued = NoTask
    /\ locked = FALSE /\ cut = FALSE
    /\ reboots = [t \in Tasks |-> 0]
    /\ updated = {}
    /\ outcome = [t \in Tasks |-> {}]
    /\ stale = {}

-----------------------------------------------------------------------------
(* Starting: a task from the state file or from the service *)

\* run() is at its final report, or the deferred one after a panic.
AtFinalReport == pc \in {"fail", "panic"} \/ (pc = "step" /\ mem.step = "PostPatch")

\* loadTaskFromState of a new Client with a task in the file.
LoadTask ==
    /\ pc # "off"
    /\ client = "none"
    /\ disk # NoTask
    /\ queued' = disk
    /\ client' = "enqueue"
    /\ stale' = IF pc = "complete" \/ (AtFinalReport /\ ~cut)
                  THEN stale \cup {mem.id} ELSE stale
    /\ UNCHANGED <<pc, mem, disk, locked, cut, reboots, updated, outcome>>

\* loadTaskFromState without one, or with an error that is only logged.
NothingLoaded ==
    /\ pc # "off"
    /\ client = "none"
    /\ client' = "open"
    /\ UNCHANGED <<pc, mem, disk, queued, locked, cut, history>>

\* PatchRun: the tasker takes the copy; the watcher of the Client starts.
PatchRun ==
    /\ pc = "idle"
    /\ client = "enqueue"
    /\ mem' = queued
    /\ pc' = "step"
    /\ client' = "open" /\ queued' = NoTask
    /\ locked' = FALSE /\ cut' = FALSE
    /\ UNCHANGED <<disk, history>>

\* RunApplyPatches: a new patchTask; the result of setStep is not looked at. The
\* service may hand out a task again.
RunApplyPatches(t) ==
    /\ pc = "idle"
    /\ client = "open"
    /\ mem' = NewTask(t, "PrePatch")
    /\ disk' \in {mem', disk}
    /\ pc' = "step"
    /\ locked' = TRUE /\ cut' = FALSE
    /\ reboots' = [reboots EXCEPT ![t] = 0]
    /\ outcome' = [outcome EXCEPT ![t] = {}]
    /\ stale' = stale \ {t}
    /\ UNCHANGED <<client, queued, updated>>

\* Variant of CloseClient that does not cancel what was begun with the Client.
CloseClientKeepsCalls ==
    /\ client = "open"
    /\ ~(pc \in InRun /\ locked)
    /\ client' = "none"
    /\ UNCHANGED <<pc, mem, disk, queued, locked, cut, history>>

\* Close, by the task loop or by the watcher, waits for the lock. It cancels the
\* context of the copy that is run and closes its connection; a final report that
\* is under way may have got through.
CloseClient ==
    /\ client = "open"
    /\ ~(pc \in InRun /\ locked)
    /\ client' = "none"
    /\ \/ pc \in InRun /\ cut' = TRUE
       \/ (pc = "idle" \/ AtFinalReport) /\ UNCHANGED cut
    /\ UNCHANGED <<pc, mem, disk, queued, locked, history>>

-----------------------------------------------------------------------------
(* run() *)

\* r.saveState() for a task m: the file is replaced and the agent goes on
\* at next, or the save fails and the agent goes on at error.
SaveThen(m, next, error) ==
    \/ disk' = m /\ pc' = next
    \/ UNCHANGED disk /\ pc' = error

UnknownStep ==
    /\ pc = "step"
    /\ mem.step = "unknown"
    /\ pc' = "fail"
    /\ UNCHANGED <<mem, disk, clientVars, history>>

\* Variant of PrePatch that saves the step after the pre-patch reboot: the
\* file still says PrePatch while the agent reports and reboots.
PrePatchSavedLate ==
    /\ pc = "step"
    /\ mem.step = "PrePatch"
    /\ mem' = [mem EXCEPT !.step = "Patching"]
    /\ pc' = "started"
    /\ UNCHANGED <<disk, clientVars, history>>

\* case prePatch: setStep(patching) comes first.
PrePatch ==
    /\ pc = "step"
    /\ mem.step = "PrePatch"
    /\ mem' = [mem EXCEPT !.step = "Patching"]
    /\ SaveThen(mem', "started", "fail")
    /\ UNCHANGED <<clientVars, history>>

\* reportContinuingState: the RPC fails or the answer is STOP; otherwise
\* the state is saved again, which may fail too.
ReportContinuing(at, next) ==
    /\ pc = at
    /\ \/ ~cut /\ SaveThen(mem, next, "fail")
       \/ cut /\ pc' = "fail" /\ UNCHANGED disk
    /\ UNCHANGED <<mem, clientVars, history>>

ReportStarted == ReportContinuing("started", "preReboot")

Patching ==
    /\ pc = "step"
    /\ mem.step = "Patching"
    /\ pc' = "apply"
    /\ UNCHANGED <<mem, disk, clientVars, history>>

ReportApplying == ReportContinuing("apply", "update")

\* Variant of RunUpdates in which an error of a package manager is lost.
RunUpdatesErrorLost ==
    /\ pc = "update"
    /\ pc' = "postReboot"
    /\ updated' \in {updated, updated \cup {mem.id}}
    /\ UNCHANGED <<mem, disk, clientVars, reboots, outcome, stale>>

\* runUpdates returns nil, or the errors of the package managers.
RunUpdates ==
    /\ pc = "update"
    /\ \/ updated' = updated \cup {mem.id} /\ pc' = "postReboot"
       \/ UNCHANGED updated /\ pc' = "fail"
    /\ UNCHANGED <<mem, disk, clientVars, reboots, outcome, stale>>

-----------------------------------------------------------------------------
(* rebootIfNeeded *)

\* ALWAYS asks for one reboot after the updates without asking the system.
ForcedReboot(prePatch) ==
    /\ RebootConfig[mem.id] = "ALWAYS"
    /\ ~prePatch
    /\ mem.post = 0

\* rebootIfNeeded is called in two places, and returns to two.
AtRebootCheck(prePatch) == pc = IF prePatch THEN "preReboot" ELSE "postReboot"


AfterRebootCheck(prePatch) == IF prePatch THEN "step" ELSE "setPost"

RebootAllowed == RebootConfig[mem.id] # "NEVER" /\ ~DryRun[mem.id]

\* Variant of UnderLimit that compares the counter of one phase only.
PrePatchUnderLimit == mem.pre < RebootLimit

UnderLimit == mem.pre + mem.post < RebootLimit

Counted(prePatch) ==
    IF prePatch THEN [mem EXCEPT !.pre = @ + 1]
                ELSE [mem EXCEPT !.post = @ + 1]

\* The reboot is wanted and neither forbidden nor over the limit.
WantReboot(prePatch) ==
    /\ AtRebootCheck(prePatch)
    /\ ForcedReboot(prePatch) \/ UnderLimit
    /\ RebootAllowed
    /\ mem' = Counted(prePatch)
    /\ pc' = "saveCount"
    /\ UNCHANGED <<disk, clientVars, history>>

\* No reboot: the system needs none, the limit is reached, or the task
\* forbids it.  A forced reboot is skipped only when the task forbids it.
SkipReboot(prePatch) ==
    /\ AtRebootCheck(prePatch)
    /\ ForcedReboot(prePatch) => ~RebootAllowed
    /\ pc' = AfterRebootCheck(prePatch)
    /\ UNCHANGED <<mem, disk, clientVars, history>>

\* systemRebootRequired returns an error.
RebootCheckError(prePatch) ==
    /\ AtRebootCheck(prePatch)
    /\ ~ForcedReboot(prePatch)
    /\ pc' = "fail"
    /\ UNCHANGED <<mem, disk, clientVars, history>>

SaveRebootCount ==
    /\ pc = "saveCount"
    /\ SaveThen(mem, "rebooting", "fail")
    /\ UNCHANGED <<mem, clientVars, history>>

\* reportContinuingState(REBOOTING): an error, a STOP or a failed save is
\* only logged.
ReportRebooting ==
    /\ pc = "rebooting"
    /\ pc' = "reboot"
    /\ UNCHANGED disk \/ (~cut /\ disk' = mem)
    /\ UNCHANGED <<mem, clientVars, history>>

\* rebootSystem: the machine will go down, or the call fails.
RebootSystem ==
    /\ pc = "reboot"
    /\ \/ pc' = "await" /\ reboots' = [reboots EXCEPT ![mem.id] = @ + 1]
       \/ pc' = "fail" /\ UNCHANGED reboots
    /\ UNCHANGED <<mem, disk, clientVars, updated, outcome, stale>>

\* The process ends, and its Client with it.
ProcessEnds ==
    /\ pc' = "off"
    /\ mem' = NoTask
    /\ client' = "none" /\ queued' = NoTask
    /\ locked' = FALSE /\ cut' = FALSE

\* The machine goes down, with the agent in its loop that waits for it.
MachineReboots ==
    /\ pc = "await"
    /\ ProcessEnds
    /\ UNCHANGED <<disk, history>>

-----------------------------------------------------------------------------
(* Ending *)

SetPostPatch ==
    /\ pc = "setPost"
    /\ mem' = [mem EXCEPT !.step = "PostPatch"]
    /\ SaveThen(mem', "step", "fail")
    /\ UNCHANGED <<clientVars, history>>

\* reportCompletedState: the service gets the output, or the RPC fails.
\* The deferred complete() follows in both cases.
ReportCompleted(outputs) ==
    /\ \/ ~cut /\ \E o \in outputs : outcome' = [outcome EXCEPT ![mem.id] = @ \cup {o}]
       \/ UNCHANGED outcome
    /\ UNCHANGED <<mem, disk, clientVars, reboots, updated, stale>>

\* case postPatch: SUCCEEDED or SUCCEEDED_REBOOT_REQUIRED.
PostPatch ==
    /\ pc = "step"
    /\ mem.step = "PostPatch"
    /\ pc' = "complete"
    /\ ReportCompleted({"SUCCEEDED", "SUCCEEDED_REBOOT_REQUIRED"})

\* case postPatch: systemRebootRequired returns an error.
PostPatchCheckError ==
    /\ pc = "step"
    /\ mem.step = "PostPatch"
    /\ pc' = "fail"
    /\ UNCHANGED <<mem, disk, clientVars, history>>

\* reportFailed and reportCanceled: both report FAILED.
ReportFailed ==
    /\ pc = "fail"
    /\ pc' = "complete"
    /\ ReportCompleted({"FAILED"})

\* A panic in the libraries that look at and change the system ("the WUA
\* libraries are complicated").
Panic ==
    /\ pc \in {"preReboot", "update", "postReboot"}
    /\ pc' = "panic"
    /\ UNCHANGED <<mem, disk, clientVars, history>>

\* The deferred function after a panic: reportFailed, and no complete().
RecoverFromPanic ==
    /\ pc = "panic"
    /\ pc' = "idle"
    /\ mem' = NoTask
    /\ \/ ~cut /\ outcome' = [outcome EXCEPT ![mem.id] = @ \cup {"FAILED"}]
       \/ UNCHANGED outcome
    /\ stale' = stale \cup {mem.id}
    /\ UNCHANGED <<disk, clientVars, reboots, updated>>

\* complete(): an empty state replaces the task; an error is only logged.
Complete ==
    /\ pc = "complete"
    /\ pc' = "idle"
    /\ mem' = NoTask
    /\ \/ disk' = NoTask /\ UNCHANGED stale
       \/ UNCHANGED disk /\ stale' = stale \cup {mem.id}
    /\ UNCHANGED <<clientVars, reboots, updated, outcome>>

-----------------------------------------------------------------------------
(* The process *)

\* The agent is killed, exits on SIGTERM or crashes.
Crash ==
    /\ pc # "off"
    /\ ProcessEnds
    /\ stale' = IF pc \in {"complete", "panic"} THEN stale \cup {mem.id} ELSE stale
    /\ UNCHANGED <<disk, reboots, updated, outcome>>

StartAgent ==
    /\ pc = "off"
    /\ pc' = "idle"
    /\ UNCHANGED <<mem, disk, clientVars, history>>

-----------------------------------------------------------------------------
RebootIfNeeded ==
    \/ \E prePatch \in BOOLEAN :
         WantReboot(prePatch) \/ SkipReboot(prePatch) \/ RebootCheckError(prePatch)
    \/ SaveRebootCount \/ ReportRebooting \/ RebootSystem

Run ==
    \/ UnknownStep \/ PrePatch \/ ReportStarted
    \/ Patching \/ ReportApplying \/ RunUpdates \/ Panic
    \/ RebootIfNeeded
    \/ SetPostPatch \/ PostPatch \/ PostPatchCheckError
    \/ ReportFailed \/ RecoverFromPanic \/ Complete

Next ==
    \/ LoadTask \/ NothingLoaded \/ PatchRun \/ CloseClient
    \/ \E t \in Tasks : RunApplyPatches(t)
    \/ Run
    \/ MachineReboots
    \/ Crash
    \/ StartAgent

Spec == Init /\ [][Next]_vars

(***************************************************************************)
(* The agent keeps running its code, the init system restarts it, tasks    *)
(* are enabled so that a Client is made, the machine does go down when     *)
(* rebootSystem says so, and the agent is not killed, nor its Client       *)
(* replaced, for ever and ever.                                            *)
(***************************************************************************)
Fairness ==
    /\ WF_vars(Run)
    /\ WF_vars(LoadTask \/ NothingLoaded)
    /\ WF_vars(PatchRun)
    /\ WF_vars(StartAgent)
    /\ WF_vars(MachineReboots)
    /\ <>[][~(Crash \/ CloseClient)]_vars

FairSpec == Spec /\ Fairness

-----------------------------------------------------------------------------
(* Properties *)

(***************************************************************************)
(* However often the agent crashes, saves fail, the Client is replaced and *)
(* the system keeps asking for a reboot, one task reboots the machine at   *)
(* most RebootLimit times each time it is handed out, although the forced  *)
(* reboot of ALWAYS does not look at the limit and an older copy of the    *)
(* task may be run after a newer one; a task with NEVER or a dry run never *)
(* does.                                                                   *)
(***************************************************************************)
RebootBound ==
    \A t \in Tasks :
        /\ reboots[t] <= RebootLimit
        /\ RebootConfig[t] = "NEVER" \/ DryRun[t] => reboots[t] = 0

(***************************************************************************)
(* A crash loses no progress: before anything is done to the machine the   *)
(* state file holds the task that runs, at the step and with the reboot    *)
(* counters it has in memory, and it does so from then on; only a counter  *)
(* that is about to be saved is ahead. A task from the service is on disk  *)
(* already when it reports that it applies patches; a copy that was read   *)
(* while its task was still run may find the file empty there.             *)
(***************************************************************************)
Undecided == {"step", "apply", "saveCount", "fail", "complete", "panic"}

StateFileCurrent ==
    /\ pc \in InRun \ Undecided => disk = mem
    /\ pc = "apply" /\ locked => disk = mem
    /\ pc = "saveCount" => \E prePatch \in BOOLEAN :
          mem = IF prePatch THEN [disk EXCEPT !.pre = @ + 1]
                            ELSE [disk EXCEPT !.post = @ + 1]

(***************************************************************************)
(* The service is told that a task succeeded only if the updates of that   *)
(* task ran without an error, in this process or in an earlier one, from   *)
(* the service or from the copy on disk.                                   *)
(***************************************************************************)
SuccessIsReal ==
    \A t \in Tasks : outcome[t] \ {"FAILED"} # {} => t \in updated

(***************************************************************************)
(* Work on a task that the service was told is over (updates, reboots) is  *)
(* done only if the state of the ended task was left on disk (complete()   *)
(* failed, the run panicked, or the agent died before complete()), or a    *)
(* Client read it between the final report and complete(). A copy read     *)
(* earlier in a run does no harm: Close has cut that run off from the      *)
(* service before the next Client reads.                                   *)
(***************************************************************************)
ReworkOnlyIfStale ==
    pc \in {"update", "reboot", "await"} /\ outcome[mem.id] # {} => mem.id \in stale


(***************************************************************************)
(* RebootConfig ALWAYS: "Always reboot the machine after the update        *)
(* completes."  A task with ALWAYS that is reported as successful has      *)
(* rebooted the machine.                                                   *)
(***************************************************************************)
AlwaysReboots ==
    \A t \in Tasks :
        RebootConfig[t] = "ALWAYS" /\ ~DryRun[t] /\ outcome[t] \ {"FAILED"} # {}
            => reboots[t] >= 1
=============================================================================
