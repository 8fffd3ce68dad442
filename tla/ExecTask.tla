----------------------------- MODULE ExecTask -----------------------------
(***************************************************************************)
(* The exec task: a script, local or downloaded, that the agent runs and   *)
(* whose exit code it reports. The service keeps the final report it got,  *)
(* and hands a task without one out again.                                 *)
(***************************************************************************)
EXTENDS AtomicFile

CONSTANTS
    ExecTasks,   \* the tasks of the service
    ExecStep,    \* ExecStep[t]: [applies, object, path, interpreter]
    MaxExcuses   \* bound: deliveries of a task that end without a final report

NoObject == "noobject"
NotFound == 127      \* what a shell says of a script that is not there
ASSUME ExecAssumption ==
    /\ MaxExcuses \in Nat
    /\ \A t \in ExecTasks : /\ ExecStep[t].path \in Paths
                            /\ ExecStep[t].object \in Data \cup {NoObject}

VARIABLES
    epc,       \* where the task is
    etask,     \* the task
    out,       \* the final report it has to make
    final,     \* final[t]: the report the service has of t
    runs,      \* runs[t]: how often the script of t ran
    latest,    \* latest[t]: the run in the last delivery of t
    excused    \* excused[t]: deliveries that ended without a final report

serviceVars == <<final, runs, latest, excused>>
execVars == <<epc, etask, out, serviceVars>>

NoTask == "notask"
NoReport == [state |-> "none", code |-> 0]
NoRun == [data |-> Absent, code |-> 0]
Completed(code) == [state |-> "COMPLETED", code |-> code]
Cancelled == [state |-> "CANCELLED", code |-> 0]

ExecInit ==
    /\ epc = "idle" /\ etask = NoTask /\ out = NoReport
    /\ final = [t \in ExecTasks |-> NoReport]
    /\ runs = [t \in ExecTasks |-> 0]
    /\ latest = [t \in ExecTasks |-> NoRun]
    /\ excused = [t \in ExecTasks |-> 0]

step == ExecStep[etask]

\* RunExecStep of a task the service handed out.
RunExecStep ==
    /\ epc = "idle"
    /\ \E t \in ExecTasks :
          /\ final[t] = NoReport
          /\ etask' = t
          /\ latest' = [latest EXCEPT ![t] = NoRun]
    /\ epc' = "started"
    /\ UNCHANGED <<diskVars, out, final, runs, excused>>

\* The delivery ends; without a final report at the service it is excused.
Ends ==
    /\ final'[etask] = NoReport => excused[etask] < MaxExcuses
    /\ excused' = IF final'[etask] = NoReport
                    THEN [excused EXCEPT ![etask] = @ + 1] ELSE excused
    /\ epc' = "idle" /\ etask' = NoTask /\ out' = NoReport

\* reportCompletedState has this to say.
ToReport(r) == out' = r /\ epc' = "report" /\ UNCHANGED etask

\* STARTED cannot be reported: run returns, and the service hears no more.
StartedError ==
    /\ epc = "started"
    /\ UNCHANGED <<diskVars, final, runs, latest>>
    /\ Ends

Stopped ==
    /\ epc = "started"
    /\ ToReport(Cancelled)
    /\ UNCHANGED <<diskVars, serviceVars>>

\* The answer is to go on: the step may not be for this system, a script of a
\* bucket is downloaded, another one is run where it is.
Continue ==
    /\ epc = "started"
    /\ \/ ~step.applies /\ ToReport(Completed(0)) /\ UNCHANGED write
       \/ /\ step.applies /\ step.object # NoObject
          /\ epc' = "download"
          /\ write' = NewWrite("stream", step.path, step.object, NoSum)
          /\ UNCHANGED <<etask, out>>
       \/ /\ step.applies /\ step.object # NoObject
          /\ ToReport(Completed(-1))          \* the object cannot be fetched
          /\ UNCHANGED write
       \/ /\ step.applies /\ step.object = NoObject
          /\ epc' = "exec"
          /\ UNCHANGED <<etask, out, write>>
    /\ UNCHANGED <<files, temps, serviceVars>>

Downloaded ==
    /\ epc = "download"
    /\ \/ write.pc = "ok" /\ epc' = "exec" /\ write' = write /\ UNCHANGED <<etask, out>>
       \/ write.pc = "err" /\ ToReport(Completed(-1)) /\ write' = NoWrite
    /\ UNCHANGED <<files, temps, serviceVars>>

\* Variant of NotRun whose exit code was never set.
NotRunZero == epc = "exec" /\ ToReport(Completed(0)) /\ UNCHANGED <<diskVars, serviceVars>>

\* The interpreter is for another system, or the command cannot be started.
NotRun == epc = "exec" /\ ToReport(Completed(-1)) /\ UNCHANGED <<diskVars, serviceVars>>

\* executeCommand: the script ends with an exit code, or its output cannot be read.
Execute ==
    /\ epc = "exec"
    /\ step.interpreter \in {"unspecified", "shell"} /\ At(step.path) # Absent
    /\ \E code \in {0, 1}, read \in BOOLEAN :
          /\ latest' = [latest EXCEPT ![etask] = [data |-> At(step.path), code |-> code]]
          /\ ToReport(Completed(IF read THEN code ELSE -1))
    /\ runs' = [runs EXCEPT ![etask] = @ + 1]
    /\ UNCHANGED <<diskVars, final, excused>>

\* The shell runs and does not find the script: its exit code is an exit code.
ExecuteNotFound ==
    /\ epc = "exec"
    /\ step.interpreter = "shell" /\ At(step.path) = Absent
    /\ ToReport(Completed(NotFound))
    /\ UNCHANGED <<diskVars, serviceVars>>

\* One call of RetryAPICall that is answered, or that is not and is given up;
\* one that is tried again changes at most what the service has.
ReportComplete ==
    /\ epc = "report"
    /\ \E delivered \in BOOLEAN :
          /\ final' = IF delivered THEN [final EXCEPT ![etask] = out] ELSE final
          /\ \/ delivered /\ UNCHANGED <<epc, etask, out, excused>>      \* once more
             \/ write.pc = "ok" /\ epc' = "remove" /\ UNCHANGED <<etask, out, excused>>
             \/ write.pc # "ok" /\ Ends
    /\ UNCHANGED <<diskVars, runs, latest>>

\* The deferred removal of what was downloaded; its error is only logged.
Remove ==
    /\ epc = "remove"
    /\ files' \in {files, [files EXCEPT ![step.path] = Absent]}
    /\ write' = NoWrite
    /\ UNCHANGED <<temps, final, runs, latest>>
    /\ Ends

ExecNext ==
    \/ StartedError \/ Stopped \/ Continue \/ Downloaded \/ NotRun \/ Execute
    \/ ExecuteNotFound \/ ReportComplete \/ Remove

ExecCrash == epc # "idle" /\ UNCHANGED <<final, runs, latest>> /\ Ends

-----------------------------------------------------------------------------
(***************************************************************************)
(* A script runs once for every delivery and no more: one more than there  *)
(* were deliveries that ended, by a crash or for want of an answer, without*)
(* a final report. The exit code the service has is the one with which the *)
(* task's own script, the whole object if it was downloaded, ended in the  *)
(* delivery that reported, or the shell's for a local script that is not   *)
(* there; a delivery that is reported as cancelled ran nothing.            *)
(***************************************************************************)
ExecReportTrue ==
    \A t \in ExecTasks :
        /\ runs[t] <= excused[t] + 1
        /\ final[t].state = "CANCELLED" => latest[t] = NoRun
        /\ final[t].code = NotFound
              => latest[t] = NoRun /\ ExecStep[t].object = NoObject
        /\ final[t].state = "COMPLETED" /\ final[t].code \in {0, 1} /\ ExecStep[t].applies
              => /\ latest[t].code = final[t].code
                 /\ latest[t].data # Absent
                 /\ ExecStep[t].object # NoObject => latest[t].data = Whole(ExecStep[t].object)
        /\ final[t] # NoReport /\ ~ExecStep[t].applies => runs[t] = 0
=============================================================================
