----------------------------- MODULE AgentJobs -----------------------------
(***************************************************************************)
(* The jobs of the agent that share the machine's disk and packages: the   *)
(* exec tasks, the recipes of the guest policies and the inventory report. *)
(* The tasker runs one at a time (module Tasker); the process may be       *)
(* killed at any step of one, and starts again.                            *)
(***************************************************************************)
EXTENDS ExecTask, RecipeSteps, InventoryReport

CONSTANTS
    OldFiles,    \* what may be at the paths before the agent first runs
    Agendas,     \* the kinds of jobs that are enqueued, in their order
    MaxCrashes,  \* bound: crashes of the process
    MaxWorld     \* bound: changes of the world beside the agent

\* Downloads of exec tasks go to the directory that the run directories are in.
ASSUME JobsAssumption ==
    /\ {MaxCrashes, MaxWorld} \subseteq Nat
    /\ OldFiles \subseteq [Paths -> {Absent} \cup {Whole(d) : d \in Data}]
    /\ \A t \in ExecTasks : ExecStep[t].object # NoObject => ExecStep[t].path \notin RunDir

VARIABLES
    agenda,          \* the jobs still to be run
    crashes, world   \* how many there were

vars == <<diskVars, execVars, recipeVars, inventoryVars, agenda, crashes, world>>
counters == <<agenda, crashes, world>>

Init ==
    /\ files \in OldFiles
    /\ DiskInit /\ ExecInit /\ RecipeInit /\ InventoryInit
    /\ agenda \in Agendas /\ crashes = 0 /\ world = 0

NoJob == epc = "idle" /\ rpc = "idle" /\ ipc = "idle"

StartJob ==
    /\ NoJob
    /\ agenda # <<>> /\ agenda' = Tail(agenda)
    /\ \/ Head(agenda) = "exec" /\ RunExecStep /\ UNCHANGED <<recipeVars, inventoryVars>>
       \/ Head(agenda) = "recipe" /\ InstallRecipe /\ UNCHANGED <<execVars, inventoryVars>>
       \/ Head(agenda) = "inventory" /\ ReportInventory
          /\ UNCHANGED <<diskVars, execVars, recipeVars>>
    /\ UNCHANGED <<crashes, world>>

JobStep ==
    /\ \/ WriteStep /\ UNCHANGED <<execVars, recipeVars, inventoryVars>>
       \/ ~Writing /\ ExecNext /\ UNCHANGED <<recipeVars, inventoryVars>>
       \/ ~Writing /\ RecipeNext /\ UNCHANGED <<execVars, inventoryVars>>
       \/ InventoryNext /\ UNCHANGED <<diskVars, execVars, recipeVars>>
    /\ UNCHANGED counters

Crash ==
    /\ crashes < MaxCrashes
    /\ crashes' = crashes + 1
    /\ \/ ExecCrash /\ UNCHANGED <<recipeVars, inventoryVars>>
       \/ RecipeCrash /\ UNCHANGED <<execVars, inventoryVars>>
       \/ InventoryCrash /\ UNCHANGED <<execVars, recipeVars>>
    /\ DiskCrash
    /\ UNCHANGED <<files, agenda, world>>

\* What happens beside the agent. A change that no job under way looks at might
\* as well come after the job.
World ==
    /\ world < MaxWorld
    /\ world' = world + 1
    /\ \/ epc = "idle" /\ ipc = "idle" /\ UserCreates /\ UNCHANGED <<execVars, inventoryVars>>
       \/ /\ ipc = "updates" \/ (NoJob /\ agenda # <<>> /\ Head(agenda) = "inventory")
          /\ MachineChanges /\ UNCHANGED <<diskVars, execVars, recipeVars>>
       \/ ipc # "idle" /\ ServiceSwitches /\ UNCHANGED <<diskVars, execVars, recipeVars>>
    /\ UNCHANGED <<agenda, crashes>>

Next == StartJob \/ JobStep \/ Crash \/ World

Spec == Init /\ [][Next]_vars

-----------------------------------------------------------------------------
\* Where the files of archives go, through links too.
EntryPaths ==
    {p \in Paths : \E r \in Recipes : \E i \in DOMAIN Recipe[r].steps :
        LET s == Recipe[r].steps[i] IN
        s.op = "extract" /\ \E j \in DOMAIN s.entries : s.entries[j].kind = "file" /\ s.entries[j].path = p}
    \cup LinkPaths

(***************************************************************************)
(* Wherever the process is killed and whichever system call fails, the     *)
(* target of a write is what it was or the whole of what was written: only *)
(* the files of an archive, which are written in place and through links,  *)
(* are ever found half written, by an exec task too. An artifact that does not match its  *)
(* checksum never gets to its path. A temporary file outlives its write    *)
(* only by a crash, by a late failure in AtomicWriteFileStream outside a   *)
(* recipe's run directory, or with a run directory that could not be       *)
(* removed.                                                                *)
(***************************************************************************)
DiskIsSound ==
    /\ \A p \in Paths \ EntryPaths : files[p][1] # "part"
    /\ \A t \in ExecTasks : ExecStep[t].path \notin EntryPaths => latest[t].data[1] # "part"
    /\ rpc # "idle" /\ Recipe[rname].sum \notin {NoSum, Recipe[rname].served}
          => files[Artifact] = Absent
    /\ \A t \in temps :
          /\ t.why = "open" => Writing /\ t.path = write.path
          /\ t.why = "failed" => t.kind = "stream"
          /\ t.why = "failed" /\ rpc = "idle" => t.path \notin RunDir
=============================================================================
