-------------------------- MODULE AgentJobsProofs --------------------------
(***************************************************************************)
(* Proofs about AgentJobs: what the service knows after an inventory       *)
(* report that met no error, that the files on the disk are whole whatever *)
(* stopped the job that wrote them, that an exec task reports the exit     *)
(* code of the script that was asked for, and that a recipe that reports   *)
(* success has installed all its files.                                    *)
(***************************************************************************)
EXTENDS AgentJobs, TLAPS

\* The service has a record for each of the two APIs.
RecordInv ==
    /\ record = [a \in APIs |-> record[a]]
    /\ answered \in APIs

\* What the proof needs besides InventoryKnown.
IInv == RecordInv /\ InventoryKnown

(***************************************************************************)
(* What either API is sent is an inventory, whatever has been listed.      *)
(***************************************************************************)
LEMMA FormatKnown == \A a, inv : Format(a, inv).known
BY DEF Format, formatVMInventory, formatInventory, Inventory

(***************************************************************************)
(* No report is under way when the agent is first started.                 *)
(***************************************************************************)
LEMMA InitIInv == Init => IInv
BY DEF Init, InventoryInit, IInv, RecordInv, InventoryKnown, APIs

(***************************************************************************)
(* Every step of a report keeps the invariant: an answer to a checksum, or *)
(* to a full report, is about the API that gave it, although the service   *)
(* may have changed APIs since the report began.                           *)
(***************************************************************************)
LEMMA ReportStep == IInv /\ (ReportInventory \/ InventoryNext) => IInv'
<1> SUFFICES ASSUME IInv, ReportInventory \/ InventoryNext PROVE IInv'
  OBVIOUS
<1> USE DEF IInv, RecordInv, InventoryKnown
<1>1. Reached \in APIs
  BY DEF Reached, APIs
<1>2. CASE ReportInventory
  BY <1>2 DEF ReportInventory
<1>3. CASE GetUpdates
  BY <1>3 DEF GetUpdates
<1>4. CASE reportChecksum
  BY <1>1, <1>4 DEF reportChecksum, shouldReportFullInventory, WantsFull
<1>5. CASE reportFull
  <2>1. record' = [a \in APIs |-> IF a = Reached THEN Format(Reached, snapshot) ELSE record[a]]
    BY <1>1, <1>5 DEF reportFull
  <2>2. CASE ipc' = "reported" /\ answered' = Reached
    BY <1>1, <1>5, <2>1, <2>2, FormatKnown DEF reportFull
  <2>3. CASE UNCHANGED <<ipc, answered>>
    BY <1>5, <2>1, <2>3 DEF reportFull
  <2> QED BY <1>5, <2>2, <2>3 DEF reportFull
<1>6. CASE ReportError \/ ReportDone
  BY <1>6 DEF ReportError, ReportDone, IEnds, APIs
<1> QED BY <1>2, <1>3, <1>4, <1>5, <1>6 DEF InventoryNext

(***************************************************************************)
(* The other jobs and the rest of the world leave a report alone; a crash  *)
(* ends it.                                                                *)
(***************************************************************************)
LEMMA NextIInv == IInv /\ [Next]_vars => IInv'
<1> SUFFICES ASSUME IInv, [Next]_vars PROVE IInv'
  OBVIOUS
<1> USE DEF IInv, RecordInv, InventoryKnown
<1>1. CASE UNCHANGED inventoryVars
  BY <1>1 DEF inventoryVars, Format, computeStableFingerprint
<1>2. CASE ReportInventory \/ InventoryNext
  BY <1>2, ReportStep
<1>3. CASE InventoryCrash
  BY <1>3 DEF InventoryCrash, IEnds, APIs
<1>4. CASE MachineChanges \/ ServiceSwitches
  BY <1>4 DEF MachineChanges, ServiceSwitches
<1> QED
  BY <1>1, <1>2, <1>3, <1>4 DEF Next, StartJob, JobStep, Crash, World, vars

(***************************************************************************)
(* A report that met no error has told the service, under the API that     *)
(* answered last, every item of the listed packages that this API knows:   *)
(* for any set of packages, any jobs beside the reports, and any number of *)
(* crashes, lost answers and changes of API.                               *)
(***************************************************************************)
THEOREM ReportIsKnown == Spec => []InventoryKnown
<1>1. IInv => InventoryKnown
  BY DEF IInv
<1> QED BY <1>1, InitIInv, NextIInv, PTL DEF Spec
-----------------------------------------------------------------------------
(* The invariants of the disk, the exec tasks and the recipes. *)

WritePcs == {"none", "create", "copy", "check", "close", "rename", "ok", "err"}

\* The write under way: what comes after the check of its checksum has passed it,
\* and what was written is there until the caller goes on.
WriteInv ==
    /\ files = [p \in Paths |-> files[p]]
    /\ write = [pc |-> write.pc, kind |-> write.kind, path |-> write.path,
                data |-> write.data, sum |-> write.sum]
    /\ write.pc \in WritePcs
    /\ write.pc # "none" => write.path \in Paths
    /\ write.pc \in {"close", "rename", "ok"} => ~Mismatch
    /\ write.pc = "ok" => files[write.path] = Whole(write.data)

\* Whose write it is.
Writes(kind, p, d, sum) ==
    /\ write.pc # "none"
    /\ write.kind = kind /\ write.path = p /\ write.data = d /\ write.sum = sum

OwnerInv ==
    /\ epc = "idle" \/ rpc = "idle"
    /\ ipc # "idle" => epc = "idle" /\ rpc = "idle"
    /\ epc \in {"idle", "started"} /\ rpc \notin {"fetch", "copy", "script"} => write.pc = "none"
    /\ epc = "download" => Writes("stream", step.path, step.object, NoSum)
    /\ epc \in {"exec", "report", "remove"} /\ write.pc # "none" =>
          write.pc = "ok" /\ write.path = step.path /\ write.data = step.object
    /\ rpc = "fetch" => Writes("stream", Artifact, Recipe[rname].served, Recipe[rname].sum)
    /\ rpc = "copy" => Writes("stream", current.path, Recipe[rname].served, NoSum)
    /\ rpc = "script" => Writes("bytes", Script, current.script, NoSum)

\* An exec task that is being run.
ExecInv ==
    /\ epc \in {"idle", "started", "download", "exec", "report", "remove"}
    /\ epc # "idle" => etask \in ExecTasks
    /\ epc \in {"download", "exec"} => step.applies
    /\ epc = "download" => step.object # NoObject
    /\ epc = "exec" /\ step.object # NoObject => write.pc = "ok"

Extracting == {"extract", "entry", "entryOld"}
USE DEF Extracting

\* An installation that is under way: past the fetch, the artifact is the one that
\* was asked for.
RecipeInv ==
    /\ rpc \in {"idle", "fetch", "cleanup", "step", "copy", "script", "run", "extract", "entry",
              "entryOld"}
    /\ rpc # "idle" => rname \in Recipes
    /\ at \in [step : Nat \ {0}, entry : Nat \ {0}]
    /\ rpc \in {"copy", "script", "run"} \cup Extracting => at.step <= Len(Recipe[rname].steps)
    /\ rpc = "fetch" => at.step = 1
    /\ rpc \in {"fetch", "step"} => at.entry = 1
    /\ rpc = "copy" => current.op = "copy"
    /\ rpc \in {"script", "run"} => current.op = "script"
    /\ rpc \in Extracting => current.op = "extract"
    /\ rpc \in {"entry", "entryOld"} => at.entry <= Len(current.entries) /\ entry.kind = "file"
    /\ rpc \notin {"idle", "fetch", "cleanup"} => Recipe[rname].sum \in {NoSum, Recipe[rname].served}

\* Half-written files and links are where archives put them.
FilesInv ==
    /\ \A p \in Paths \ EntryPaths : files[p][1] # "part"
    /\ \A p \in Paths : files[p][1] = "link" => p \in LinkPaths /\ files[p][2] \in LinkPaths

\* DiskIsSound, with the temporary file of the write under way.
PartInv ==
    /\ FilesInv
    /\ \A t \in ExecTasks : ExecStep[t].path \notin EntryPaths => latest[t].data[1] # "part"

ArtifactInv ==
    rpc # "idle" /\ Recipe[rname].sum \notin {NoSum, Recipe[rname].served} => files[Artifact] = Absent

TempInv ==
    \A t \in temps :
        /\ t = [path |-> t.path, kind |-> t.kind, why |-> t.why]
        /\ t.why = "open" => write.pc \in {"copy", "check", "close", "rename"} /\ t = Temp("open")
        /\ t.why = "failed" => t.kind = "stream"
        /\ t.why = "failed" /\ t.path \in RunDir => rpc # "idle"

DiskInv == WriteInv /\ OwnerInv /\ ExecInv /\ RecipeInv /\ PartInv /\ ArtifactInv /\ TempInv

-----------------------------------------------------------------------------
\* What a report r of task t may say.
Truthful(t, r) ==
    /\ r.state = "CANCELLED" => latest[t] = NoRun
    /\ r.code = NotFound => latest[t] = NoRun /\ ExecStep[t].object = NoObject
    /\ r.state = "COMPLETED" /\ r.code \in {0, 1} /\ ExecStep[t].applies
          => /\ latest[t].code = r.code
             /\ latest[t].data # Absent
             /\ ExecStep[t].object # NoObject => latest[t].data = Whole(ExecStep[t].object)

\* The task t has a report, or is about to make one.
Over(t) == final[t] # NoReport \/ (etask = t /\ epc \in {"report", "remove"})

\* A script has run at most once more than deliveries were excused, and only if the
\* delivery is over; the reports are true.
ReportInv ==
    /\ final = [t \in ExecTasks |-> final[t]]
    /\ latest = [t \in ExecTasks |-> latest[t]]
    /\ runs \in [ExecTasks -> Nat] /\ excused \in [ExecTasks -> Nat]
    /\ \A t \in ExecTasks :
          /\ runs[t] <= excused[t] + 1
          /\ ~Over(t) => runs[t] <= excused[t]
          /\ ~ExecStep[t].applies => runs[t] = 0
          /\ Truthful(t, final[t])
    /\ epc \in {"started", "download", "exec"} => final[etask] = NoReport /\ latest[etask] = NoRun
    /\ epc \in {"report", "remove"} =>
          out # NoReport /\ Truthful(etask, out) /\ final[etask] \in {NoReport, out}

-----------------------------------------------------------------------------
\* The paths of the steps that are done.
Filled == UNION {Fills(Recipe[rname].steps[i]) : i \in {j \in DOMAIN Recipe[rname].steps : j < at.step}}

\* The paths of the entries that are extracted.
Extracted == {current.entries[i].path : i \in {j \in Once(current.entries) : j < at.entry}}

\* The entry i is not yet begun.
Awaited(i) == i > at.entry \/ (i = at.entry /\ rpc = "extract")

Installing == {"step", "copy", "script", "run"} \cup Extracting

\* What is done stays in place, a step only touches what was not there when it
\* looked, and what has a name of its own is not there before it is extracted.
PlaceInv ==
    /\ before = [p \in Paths |-> before[p]]
    /\ rpc \in Installing => \A p \in Filled \ raced : files[p] = Whole(Recipe[rname].artifact)
    /\ rpc \in Extracting =>
          /\ \A p \in Filled \ raced : before[p] # Absent
          /\ \A p \in Extracted \ raced : files[p] = Whole(Recipe[rname].artifact)
          /\ \A i \in DOMAIN current.entries :
                current.entries[i].path \in LinkPaths \/ before[current.entries[i].path] = Absent
          /\ \A i \in Once(current.entries) :
                Awaited(i) => \/ current.entries[i].path \in raced
                              \/ files[current.entries[i].path] = Absent
    /\ rpc = "entryOld" => at.entry \notin Once(current.entries) \/ entry.path \in raced
    /\ rpc = "copy" /\ ~current.overwrite => current.path \in LinkPaths \/ before[current.path] = Absent
    /\ rpc \in Extracting \/ (rpc = "copy" /\ ~current.overwrite) =>
          \A p \in Paths \ LinkPaths : before[p] # Absent => files[p] = before[p]

JInv == DiskInv /\ ReportInv /\ PlaceInv

-----------------------------------------------------------------------------
(***************************************************************************)
(* What is at a path is one of four things.                                *)
(***************************************************************************)
LEMMA FileValues ==
    /\ Absent[1] = "absent"
    /\ \A d : Whole(d) # Absent /\ Whole(d)[1] = "whole"
    /\ \A d : Part(d) # Absent /\ Part(d)[1] = "part"
    /\ \A q : LinkTo(q) # Absent /\ LinkTo(q)[1] = "link" /\ LinkTo(q)[2] = q
BY DEF Absent, Whole, Part, LinkTo

(***************************************************************************)
(* The paths of links are not in the run directory.                        *)
(***************************************************************************)
LEMMA LinkShape == LinkPaths \subseteq Targets /\ LinkPaths \subseteq Paths /\ LinkPaths \subseteq EntryPaths
<1>1. \A e \in Links : e.path \in Targets /\ e.to \in Targets
  BY DEF Links, ArchiveEntry
<1> QED
  BY <1>1 DEF LinkPaths, Targets, EntryPaths

(***************************************************************************)
(* A path leads to itself, unless a link of an archive is there.           *)
(***************************************************************************)
LEMMA LeadsShape ==
    ASSUME FilesInv, NEW p \in Paths
    PROVE  /\ Leads(p) \in Paths
           /\ Leads(p) = p \/ (p \in LinkPaths /\ Leads(p) \in LinkPaths)
           /\ p \notin LinkPaths => At(p) = files[p]
BY LinkShape DEF FilesInv, Leads, At

(***************************************************************************)
(* What a step writes to is not in the run directory.                      *)
(***************************************************************************)
LEMMA StepShape ==
    ASSUME NEW s \in Steps
    PROVE  /\ s.op = "copy" => s.path \in Targets
           /\ s.op = "extract" => s.entries \in Seq(ArchiveEntry)
           /\ s.op \in {"copy", "extract", "script", "install", "unknown"}
           /\ Fills(s) \subseteq Targets \ LinkPaths
<1>1. s.op = "copy" => s.path \in Targets
  BY DEF Steps
<1>2. s.op = "extract" => s.entries \in Seq(ArchiveEntry)
  BY DEF Steps
<1>3. s.op \in {"copy", "extract", "script", "install", "unknown"}
  BY DEF Steps
<1>4. Fills(s) \subseteq Targets \ LinkPaths
  <2>1. CASE s.op = "extract"
    <3>1. \A i \in DOMAIN s.entries : s.entries[i] \in ArchiveEntry
      BY <1>2, <2>1
    <3>2. \A i \in DOMAIN s.entries : s.entries[i].path \in Targets
      BY <3>1 DEF ArchiveEntry
    <3> QED
      BY <2>1, <3>2 DEF Fills, Once
  <2>2. CASE s.op # "extract"
    BY <1>1, <2>2 DEF Fills
  <2> QED
    BY <2>1, <2>2
<1> QED
  BY <1>1, <1>2, <1>3, <1>4

(***************************************************************************)
(* The steps of a recipe under way, and the current one.                   *)
(***************************************************************************)
LEMMA RecipeShape ==
    ASSUME RecipeInv, rpc # "idle"
    PROVE  /\ Len(Recipe[rname].steps) \in Nat
           /\ DOMAIN Recipe[rname].steps = 1..Len(Recipe[rname].steps)
           /\ \A i \in DOMAIN Recipe[rname].steps : Recipe[rname].steps[i] \in Steps
           /\ at.step <= Len(Recipe[rname].steps) => current \in Steps
           /\ at.step \in Nat \ {0} /\ at.entry \in Nat \ {0}
           /\ Filled \subseteq Targets \ LinkPaths
<1>1. Recipe[rname].steps \in Seq(Steps)
  BY RecipeAssumption DEF RecipeInv, Recipes
<1> DEFINE ss == Recipe[rname].steps
<1>2. at.step \in Nat \ {0} /\ at.entry \in Nat \ {0}
  BY DEF RecipeInv
<1>3. /\ Len(ss) \in Nat
      /\ DOMAIN ss = 1..Len(ss)
      /\ \A i \in DOMAIN ss : ss[i] \in Steps
  <2> HIDE DEF ss
  <2>1. ss \in Seq(Steps)
    BY <1>1 DEF ss
  <2> QED
    BY <2>1
<1>4. at.step <= Len(ss) => current \in Steps
  BY <1>2, <1>3 DEF current
<1>5. Filled \subseteq Targets \ LinkPaths
  BY <1>3, StepShape DEF Filled
<1> QED
  BY <1>2, <1>3, <1>4, <1>5

(***************************************************************************)
(* The entries of the archive that is being extracted.                     *)
(***************************************************************************)
LEMMA ArchiveShape ==
    ASSUME RecipeInv, rpc # "idle", at.step <= Len(Recipe[rname].steps), current.op = "extract"
    PROVE  /\ Len(current.entries) \in Nat
           /\ DOMAIN current.entries = 1..Len(current.entries)
           /\ \A i \in DOMAIN current.entries : current.entries[i] \in ArchiveEntry
           /\ at.entry <= Len(current.entries) => at.entry \in DOMAIN current.entries /\ entry \in ArchiveEntry
<1>1. current.entries \in Seq(ArchiveEntry)
  BY RecipeShape, StepShape
<1> DEFINE es == current.entries
<1>2. /\ Len(es) \in Nat
      /\ DOMAIN es = 1..Len(es)
      /\ \A i \in DOMAIN es : es[i] \in ArchiveEntry
  <2> HIDE DEF es
  <2>1. es \in Seq(ArchiveEntry)
    BY <1>1 DEF es
  <2> QED
    BY <2>1
<1>3. at.entry \in Nat \ {0}
  BY DEF RecipeInv
<1> QED
  BY <1>2, <1>3 DEF entry

(***************************************************************************)
(* Past the fetch, what was served is what was asked for.                  *)
(***************************************************************************)
LEMMA ServedIsArtifact ==
    ASSUME RecipeInv, rpc \in Installing
    PROVE  Recipe[rname].served = Recipe[rname].artifact
BY RecipeAssumption DEF RecipeInv, Installing, Recipes

(***************************************************************************)
(* The initial states satisfy the invariants: no job is under way, and no  *)
(* file is half written.                                                   *)
(***************************************************************************)
LEMMA InitJInv == Init => JInv
<1> SUFFICES ASSUME Init PROVE JInv
  OBVIOUS
<1> USE DEF Init, DiskInit, ExecInit, RecipeInit, InventoryInit
<1>1. WriteInv
  BY JobsAssumption DEF WriteInv, NoWrite, WritePcs
<1>2. OwnerInv
  BY DEF OwnerInv, NoWrite
<1>3. ExecInv /\ RecipeInv /\ TempInv /\ ArtifactInv
  BY DEF ExecInv, RecipeInv, TempInv, ArtifactInv
<1>4. PartInv
  <2>1. \A p \in Paths : files[p] \in {Absent} \cup {Whole(d) : d \in Data}
    BY JobsAssumption
  <2>2. \A t \in ExecTasks : latest[t].data = Absent
    BY DEF NoRun
  <2> QED
    BY <2>1, <2>2, FileValues DEF PartInv, FilesInv
<1>5. ReportInv
  BY DEF ReportInv, Truthful, NoReport, NotFound, Over
<1>6. PlaceInv
  BY DEF PlaceInv, Installing
<1> QED
  BY <1>1, <1>2, <1>3, <1>4, <1>5, <1>6 DEF JInv, DiskInv

(***************************************************************************)
(* What a step of a write does to the write, the target and the temporary  *)
(* files: only the rename touches the target, after the checksum passed.   *)
(***************************************************************************)
LEMMA WriteEffect ==
    ASSUME WriteInv, TempInv, WriteStep
    PROVE  /\ write.pc \in {"create", "copy", "check", "close", "rename"}
           /\ write'.pc \in WritePcs \ {"none", "create"}
           /\ write' = [pc |-> write'.pc, kind |-> write.kind, path |-> write.path,
                        data |-> write.data, sum |-> write.sum]
           /\ write'.pc \in {"close", "rename", "ok"} => ~Mismatch
           /\ \/ files' = files /\ write'.pc # "ok"
              \/ /\ files' = [files EXCEPT ![write.path] = Whole(write.data)]
                 /\ ~Mismatch
           /\ \A t \in temps' : \/ t \in temps /\ t # Temp("open")
                                \/ t = Temp("open") /\ write'.pc \in {"copy", "check", "close", "rename"}
                                \/ t = Temp("failed") /\ write.kind # "bytes"
<1> USE DEF WriteInv, WritePcs
<1> DEFINE Turns(pc) ==
           /\ pc \in WritePcs \ {"none", "create"}
           /\ write'.pc = pc
           /\ write' = [pc |-> pc, kind |-> write.kind, path |-> write.path,
                        data |-> write.data, sum |-> write.sum]
<1>w. \A pc \in WritePcs \ {"none", "create"} : WriteAt(pc) => Turns(pc)
  BY DEF WriteAt
<1>m. write.pc \in {"close", "rename"} => ~Mismatch
  OBVIOUS
<1> HIDE DEF WriteInv, WritePcs
<1>p. {"copy", "check", "close", "rename", "ok", "err"} \subseteq WritePcs \ {"none", "create"}
  BY DEF WritePcs
<1>f. ASSUME NEW where, FailAt(where), where \in {"copy", "check", "close", "rename"}
      PROVE  /\ write.pc = where /\ Turns("err") /\ files' = files
             /\ \A t \in temps' : \/ t \in temps /\ t # Temp("open")
                                  \/ t = Temp("failed") /\ write.kind # "bytes"
  BY <1>w, <1>p, <1>f DEF FailAt, CleansUp
<1>a. ASSUME NEW from, NEW to, Advance(from, to), to \in {"check", "close", "rename"}
      PROVE  /\ write.pc = from /\ Turns(to) /\ files' = files /\ temps' = temps
  BY <1>w, <1>p, <1>a DEF Advance
<1>1. CASE TempFile
  <2>1. Temp("open") \notin temps
    BY <1>1 DEF TempInv, TempFile, Temp
  <2>2. write.pc = "create" /\ files' = files
    BY <1>1 DEF TempFile
  <2>3. CASE temps' = temps \cup {Temp("open")} /\ Turns("copy")
    BY <2>1, <2>2, <2>3
  <2>4. CASE Turns("err") /\ temps' = temps
    BY <2>1, <2>2, <2>4
  <2> QED
    BY <1>1, <1>w, <1>p, <2>3, <2>4 DEF TempFile
<1>2. CASE Advance("copy", "check")
  BY <1>2, <1>a
<1>3. CASE Advance("close", "rename")
  BY <1>3, <1>a, <1>m
<1>4. CASE FailAt("copy") \/ FailAt("close") \/ FailAt("rename") \/ FailAt("check")
  BY <1>4, <1>f
<1>5. CASE ~Mismatch /\ Advance("check", "close")
  BY <1>5, <1>a
<1>6. CASE Rename
  <2>1. Turns("ok") /\ write.pc = "rename" /\ files' = [files EXCEPT ![write.path] = Whole(write.data)]
    BY <1>6, <1>w, <1>p DEF Rename
  <2>2. \A t \in temps' : t \in temps /\ t # Temp("open")
    BY <1>6 DEF Rename
  <2> QED
    BY <1>m, <2>1, <2>2
<1> QED
  BY <1>1, <1>2, <1>3, <1>4, <1>5, <1>6 DEF WriteStep, Checksum

(***************************************************************************)
(* A system call of a write preserves the invariants.                      *)
(***************************************************************************)
LEMMA WriteKeeps ==
    ASSUME JInv, WriteStep, UNCHANGED <<execVars, recipeVars, ipc>>
    PROVE  JInv'
<1>i. /\ WriteInv /\ OwnerInv /\ ExecInv /\ RecipeInv /\ PartInv /\ ArtifactInv /\ TempInv
      /\ ReportInv /\ PlaceInv
  BY DEF JInv, DiskInv
<1>u. /\ UNCHANGED <<epc, etask, out, final, runs, latest, excused>>
      /\ UNCHANGED <<rpc, rname, at, recorded, before, raced>>
      /\ step' = step /\ current' = current /\ entry' = entry
  BY DEF execVars, serviceVars, recipeVars, step, current, entry
<1>w. /\ write.pc \in {"create", "copy", "check", "close", "rename"}
      /\ write'.pc \in WritePcs \ {"none", "create"}
      /\ write' = [pc |-> write'.pc, kind |-> write.kind, path |-> write.path,
                   data |-> write.data, sum |-> write.sum]
      /\ write'.pc \in {"close", "rename", "ok"} => ~Mismatch
      /\ \/ files' = files /\ write'.pc # "ok"
         \/ /\ files' = [files EXCEPT ![write.path] = Whole(write.data)]
            /\ ~Mismatch
      /\ \A t \in temps' : \/ t \in temps /\ t # Temp("open")
                           \/ t = Temp("open") /\ write'.pc \in {"copy", "check", "close", "rename"}
                           \/ t = Temp("failed") /\ write.kind # "bytes"
  BY <1>i, WriteEffect
<1>s. /\ write'.kind = write.kind /\ write'.path = write.path /\ write'.data = write.data
      /\ write'.sum = write.sum /\ write.path \in Paths
      /\ Mismatch' = Mismatch /\ \A why : Temp(why)' = Temp(why)
  BY <1>i, <1>w DEF WriteInv, Mismatch, Temp
<1>o. epc = "download" \/ rpc \in {"fetch", "copy", "script"}
  BY <1>i, <1>w DEF OwnerInv, ExecInv
<1>f. \A p \in Paths : files'[p] = files[p] \/ (p = write.path /\ files'[p] = Whole(write.data) /\ ~Mismatch)
  BY <1>i, <1>w DEF WriteInv
<1>1. WriteInv'
  <2>1. files' = [p \in Paths |-> files'[p]]
    BY <1>i, <1>w, <1>s DEF WriteInv
  <2>2. write'.pc = "ok" => files'[write.path] = Whole(write.data)
    BY <1>i, <1>w, <1>s DEF WriteInv
  <2> QED
    BY <1>w, <1>s, <2>1, <2>2 DEF WriteInv
<1>2. OwnerInv'
  BY <1>i, <1>u, <1>w, <1>s, <1>o DEF OwnerInv, Writes, WritePcs
<1>3. ExecInv'
  BY <1>i, <1>u, <1>w DEF ExecInv
<1>4. RecipeInv'
  BY <1>i, <1>u DEF RecipeInv
<1>5. PartInv'
  BY <1>i, <1>u, <1>f, FileValues DEF PartInv, FilesInv
<1>6. ArtifactInv'
  <2> SUFFICES ASSUME rpc # "idle", Recipe[rname].sum \notin {NoSum, Recipe[rname].served}
               PROVE  files'[Artifact] = Absent
    BY <1>u DEF ArtifactInv
  <2>1. rpc = "fetch"
    BY <1>i, <1>o DEF OwnerInv, RecipeInv
  <2>2. Mismatch
    BY <1>i, <2>1 DEF OwnerInv, Writes, Mismatch
  <2>3. Artifact \in Paths
    BY RecipeAssumption DEF RunDir
  <2> QED
    BY <1>i, <1>f, <2>2, <2>3 DEF ArtifactInv
<1>7. TempInv'
  <2> SUFFICES ASSUME NEW t \in temps'
               PROVE  /\ t = [path |-> t.path, kind |-> t.kind, why |-> t.why]
                      /\ t.why = "open" =>
                            write'.pc \in {"copy", "check", "close", "rename"} /\ t = Temp("open")
                      /\ t.why = "failed" => t.kind = "stream"
                      /\ t.why = "failed" /\ t.path \in RunDir => rpc # "idle"
    BY <1>u, <1>s DEF TempInv
  <2>1. CASE t \in temps /\ t # Temp("open")
    BY <1>i, <2>1 DEF TempInv
  <2>2. CASE t = Temp("open") /\ write'.pc \in {"copy", "check", "close", "rename"}
    BY <2>2 DEF Temp
  <2>3. CASE t = Temp("failed") /\ write.kind # "bytes"
    <3>1. write.kind = "stream"
      BY <1>i, <1>o, <2>3 DEF OwnerInv, Writes
    <3>2. write.path \in RunDir => rpc # "idle"
      BY <1>i, <1>o, JobsAssumption DEF OwnerInv, Writes, ExecInv, step
    <3> QED
      BY <2>3, <3>1, <3>2 DEF Temp
  <2> QED
    BY <1>w, <2>1, <2>2, <2>3
<1>8. ReportInv'
  BY <1>i, <1>u DEF ReportInv, Truthful, Over
<1>9. PlaceInv'
  <2>1. Filled' = Filled /\ Extracted' = Extracted
    BY <1>u DEF Filled, Extracted
  <2>a. \A i : Awaited(i)' = Awaited(i)
    BY <1>u DEF Awaited
  <2>2. CASE rpc \notin Installing
    BY <1>i, <1>u, <2>2 DEF PlaceInv, Installing
  <2>3. CASE rpc = "script"
    <3>1. Filled \subseteq Targets
      BY <1>i, <2>3, RecipeShape
    <3>2. write.path \notin Targets
      BY <1>i, <2>3 DEF OwnerInv, Writes, Targets, RunDir
    <3>3. \A p \in Filled : files'[p] = files[p]
      BY <1>f, <3>1, <3>2 DEF Targets
    <3> QED
      BY <1>i, <1>u, <2>1, <2>3, <3>3 DEF PlaceInv, Installing
  <2>4. CASE rpc = "copy"
    <3>1. Filled \subseteq Targets
      BY <1>i, <2>4, RecipeShape
    <3>2. write.path = current.path /\ write.data = Recipe[rname].artifact
      BY <1>i, <2>4, ServedIsArtifact DEF OwnerInv, Writes, Installing
    <3>3. \A p \in Filled : files'[p] = files[p] \/ files'[p] = Whole(Recipe[rname].artifact)
      BY <1>f, <3>1, <3>2 DEF Targets
    <3>4. ASSUME ~current.overwrite, NEW p \in Paths \ LinkPaths, before[p] # Absent PROVE files'[p] = before[p]
      <4>1. p # write.path
        BY <1>i, <2>4, <3>2, <3>4 DEF PlaceInv
      <4> QED
        BY <1>i, <1>f, <2>4, <3>4, <4>1 DEF PlaceInv
    <3> QED
      BY <1>i, <1>u, <2>1, <2>4, <3>3, <3>4 DEF PlaceInv, Installing
  <2> QED
    BY <1>i, <1>o, <2>2, <2>3, <2>4 DEF OwnerInv, Installing
<1> QED
  BY <1>1, <1>2, <1>3, <1>4, <1>5, <1>6, <1>7, <1>8, <1>9 DEF JInv, DiskInv

-----------------------------------------------------------------------------
(***************************************************************************)
(* A delivery that ends is over, or is excused.                            *)
(***************************************************************************)
LEMMA EndsKeeps ==
    ASSUME ReportInv, ExecInv, epc # "idle", Ends, UNCHANGED <<runs, latest>>,
           final' = final \/ (epc = "report" /\ final' = [final EXCEPT ![etask] = out])
    PROVE  ReportInv' /\ epc' = "idle"
<1> USE DEF ReportInv, ExecInv
<1>1. /\ epc' = "idle" /\ etask \in ExecTasks
      /\ excused' = IF final'[etask] = NoReport THEN [excused EXCEPT ![etask] = @ + 1] ELSE excused
  BY DEF Ends
<1>2. final' = [t \in ExecTasks |-> final'[t]]
  BY <1>1
<1>3. excused' \in [ExecTasks -> Nat]
  BY <1>1
<1>4. ASSUME NEW t \in ExecTasks
      PROVE  /\ runs[t] <= excused'[t] + 1
             /\ final'[t] = NoReport => runs[t] <= excused'[t]
  <2>1. CASE t = etask
    BY <1>1, <2>1
  <2>2. CASE t # etask
    <3>1. final'[t] = final[t] /\ excused'[t] = excused[t]
      BY <1>1, <2>2
    <3> QED
      BY <2>2, <3>1 DEF Over
  <2> QED
    BY <2>1, <2>2
<1>5. ASSUME NEW t \in ExecTasks PROVE Truthful(t, final'[t])
  <2>1. final'[t] = final[t] \/ (t = etask /\ epc = "report" /\ final'[t] = out)
    BY <1>1
  <2> QED
    BY <2>1
<1>6. \A t \in ExecTasks : Truthful(t, final[t])'
  BY <1>5 DEF Truthful
<1>7. \A t \in ExecTasks : ~Over(t)' => final'[t] = NoReport
  BY DEF Over
<1>8. runs' = runs /\ latest' = latest
  OBVIOUS
<1> QED
  BY <1>1, <1>2, <1>3, <1>4, <1>6, <1>7, <1>8

(***************************************************************************)
(* A delivery that has something to report has run its script once at      *)
(* most, and may say what is true.                                         *)
(***************************************************************************)
LEMMA ToReportKeeps ==
    ASSUME ReportInv, ExecInv, epc \in {"started", "download", "exec"},
           NEW r, ToReport(r), r # NoReport, Truthful(etask, r)', UNCHANGED <<final, excused>>,
           \/ UNCHANGED <<runs, latest>>
           \/ /\ step.applies /\ runs' = [runs EXCEPT ![etask] = @ + 1]
              /\ \E v : latest' = [latest EXCEPT ![etask] = v]
    PROVE  ReportInv'
<1> USE DEF ReportInv, ExecInv
<1>1. /\ epc' = "report" /\ out' = r /\ etask' = etask /\ etask \in ExecTasks
      /\ final[etask] = NoReport
  BY DEF ToReport
<1>2. runs' \in [ExecTasks -> Nat] /\ latest' = [t \in ExecTasks |-> latest'[t]]
  BY <1>1
<1>3. ASSUME NEW t \in ExecTasks, t # etask
      PROVE  runs'[t] = runs[t] /\ latest'[t] = latest[t] /\ Over(t)' = Over(t)
  BY <1>1, <1>3 DEF Over
<1>4. Over(etask)' /\ ~Over(etask)
  BY <1>1 DEF Over
<1>5. runs'[etask] <= excused[etask] + 1 /\ (~step.applies => runs'[etask] = 0)
  BY <1>1, <1>4 DEF step
<1>6. ASSUME NEW t \in ExecTasks PROVE Truthful(t, final[t])'
  <2>1. CASE t = etask
    BY <1>1, <2>1 DEF Truthful, NoReport, NotFound
  <2>2. CASE t # etask
    <3>1. latest'[t] = latest[t] /\ Truthful(t, final[t])
      BY <1>3, <2>2
    <3> QED
      BY <3>1 DEF Truthful
  <2> QED
    BY <2>1, <2>2
<1>7. ASSUME NEW t \in ExecTasks
      PROVE  /\ runs'[t] <= excused[t] + 1
             /\ ~Over(t)' => runs'[t] <= excused[t]
             /\ ~ExecStep[t].applies => runs'[t] = 0
  <2>1. CASE t = etask
    BY <1>4, <1>5, <1>1, <2>1 DEF step, Over
  <2>2. CASE t # etask
    BY <1>3, <2>2
  <2> QED
    BY <2>1, <2>2
<1> QED
  BY <1>1, <1>2, <1>6, <1>7

(***************************************************************************)
(* An exec task leaves the recipes alone.                                  *)
(***************************************************************************)
LEMMA ExecFrame ==
    ASSUME JInv, rpc = "idle", UNCHANGED <<recipeVars, temps>>, ~Writing
    PROVE  RecipeInv' /\ ArtifactInv' /\ TempInv' /\ PlaceInv'
<1>i. /\ RecipeInv /\ TempInv /\ PlaceInv
  BY DEF JInv, DiskInv
<1>u. UNCHANGED <<rpc, rname, at, recorded, before, raced>>
  BY DEF recipeVars
<1>1. RecipeInv'
  BY <1>i, <1>u DEF RecipeInv
<1>2. ArtifactInv'
  BY <1>u DEF ArtifactInv
<1>3. TempInv'
  BY <1>i, <1>u DEF TempInv, Writing
<1>4. PlaceInv'
  BY <1>i, <1>u DEF PlaceInv, Installing
<1> QED
  BY <1>1, <1>2, <1>3, <1>4

(***************************************************************************)
(* Every step of an exec task preserves the invariants.                    *)
(***************************************************************************)
LEMMA ExecKeeps ==
    ASSUME JInv, (NoJob /\ RunExecStep) \/ (~Writing /\ ExecNext), UNCHANGED <<recipeVars, ipc>>
    PROVE  JInv'
<1>i. /\ WriteInv /\ OwnerInv /\ ExecInv /\ PartInv /\ ReportInv
  BY DEF JInv, DiskInv
<1>u. UNCHANGED <<rpc, rname, at, recorded, before, raced, ipc>>
  BY DEF recipeVars
<1>r. rpc = "idle" /\ ipc = "idle" /\ ~Writing
  BY <1>i DEF NoJob, RunExecStep, ExecNext, StartedError, Stopped, Continue, Downloaded, NotRun, Execute,
     ExecuteNotFound, ReportComplete, Remove, OwnerInv, Writing
<1>t. temps' = temps
  BY DEF RunExecStep, ExecNext, StartedError, Stopped, Continue, Downloaded, NotRun, Execute,
     ExecuteNotFound, ReportComplete, Remove, diskVars
<1>k. RecipeInv' /\ ArtifactInv' /\ TempInv' /\ PlaceInv'
  BY <1>r, <1>t, ExecFrame
<1> SUFFICES WriteInv' /\ OwnerInv' /\ ExecInv' /\ PartInv' /\ ReportInv'
  BY <1>k DEF JInv, DiskInv
<1>d. ASSUME UNCHANGED diskVars
      PROVE  WriteInv' /\ (latest' = latest => PartInv')
  <2>1. UNCHANGED <<files, temps, write>>
    BY <1>d DEF diskVars
  <2> QED
    BY <1>i, <2>1 DEF WriteInv, PartInv, FilesInv, Mismatch
<1>n. ASSUME write' = NoWrite, files' = [p \in Paths |-> files'[p]] PROVE WriteInv' /\ write'.pc = "none"
  BY <1>n DEF WriteInv, NoWrite, WritePcs
<1>g. UNCHANGED <<files, latest>> => PartInv'
  BY <1>i DEF PartInv, FilesInv
<1>e. ASSUME epc' = "idle", write'.pc = "none" PROVE OwnerInv' /\ ExecInv'
  BY <1>e, <1>r, <1>u DEF OwnerInv, ExecInv
<1>p. ASSUME NEW r, ToReport(r), epc # "idle",
             write'.pc = "none" \/ (UNCHANGED write /\ epc = "exec")
      PROVE  OwnerInv' /\ ExecInv'
  <2>1. epc' = "report" /\ etask' = etask /\ step' = step
    BY <1>p DEF ToReport, step
  <2> QED
    BY <1>i, <1>p, <1>r, <1>u, <2>1 DEF OwnerInv, ExecInv
<1>c. \A code : Completed(code) # NoReport /\ Cancelled # NoReport
  BY DEF Completed, Cancelled, NoReport
<1>1. CASE NoJob /\ RunExecStep
  <2>1. PICK t \in ExecTasks : /\ final[t] = NoReport
                               /\ etask' = t
                               /\ latest' = [latest EXCEPT ![t] = NoRun]
    BY <1>1 DEF RunExecStep
  <2>2. /\ epc = "idle" /\ epc' = "started" /\ UNCHANGED <<diskVars, out, final, runs, excused>>
        /\ UNCHANGED <<files, temps, write>>
    BY <1>1 DEF RunExecStep, diskVars
  <2>3. \A k \in ExecTasks : latest'[k] = IF k = t THEN NoRun ELSE latest[k]
    BY <1>i, <2>1 DEF ReportInv
  <2>4. WriteInv'
    BY <1>d, <2>2
  <2>5. OwnerInv' /\ ExecInv'
    BY <1>i, <1>r, <1>u, <2>1, <2>2 DEF OwnerInv, ExecInv
  <2>6. PartInv'
    BY <1>i, <2>2, <2>3, FileValues DEF PartInv, FilesInv, NoRun
  <2>7. ReportInv'
    <3>1. \A k : Over(k)' = Over(k)
      BY <2>2 DEF Over
    <3>2. ASSUME NEW k \in ExecTasks PROVE Truthful(k, final[k])'
      <4>1. CASE k = t
        BY <2>1, <2>2, <4>1 DEF Truthful, NoReport, NotFound
      <4>2. CASE k # t
        <5>1. latest'[k] = latest[k] /\ Truthful(k, final[k])
          BY <1>i, <2>3, <4>2 DEF ReportInv
        <5> QED
          BY <2>2, <5>1 DEF Truthful
      <4> QED
        BY <4>1, <4>2
    <3>3. latest' = [k \in ExecTasks |-> latest'[k]]
      BY <1>i, <2>1 DEF ReportInv
    <3> QED
      BY <1>i, <2>1, <2>2, <2>3, <3>1, <3>2, <3>3 DEF ReportInv
  <2> QED
    BY <2>4, <2>5, <2>6, <2>7
<1>2. CASE StartedError
  <2>1. /\ epc = "started" /\ UNCHANGED <<diskVars, final, runs, latest>> /\ Ends
        /\ UNCHANGED <<files, write>>
    BY <1>2 DEF StartedError, diskVars
  <2>2. ReportInv' /\ epc' = "idle"
    BY <1>i, <2>1, EndsKeeps
  <2>3. write'.pc = "none"
    BY <1>i, <1>r, <2>1 DEF OwnerInv
  <2> QED
    BY <1>d, <1>e, <1>g, <2>1, <2>2, <2>3
<1>3. CASE Stopped
  <2>1. /\ epc = "started" /\ ToReport(Cancelled) /\ UNCHANGED <<diskVars, serviceVars>>
        /\ UNCHANGED <<files, write, final, runs, latest, excused>>
    BY <1>3 DEF Stopped, diskVars, serviceVars
  <2>2. write'.pc = "none"
    BY <1>i, <1>r, <2>1 DEF OwnerInv
  <2>3. Truthful(etask, Cancelled)'
    BY <1>i, <2>1 DEF Truthful, Cancelled, ReportInv, NotFound, ToReport
  <2>4. ReportInv'
    BY <1>i, <1>c, <2>1, <2>3, ToReportKeeps
  <2> QED
    BY <1>d, <1>p, <1>g, <2>1, <2>2, <2>4
<1>x. ASSUME epc \in {"started", "download", "exec"}, ToReport(Completed(-1)),
             UNCHANGED <<final, runs, latest, excused>>
      PROVE  ReportInv'
  <2>1. Truthful(etask, Completed(-1))'
    BY DEF Truthful, Completed, NotFound
  <2> QED
    BY <1>i, <1>c, <1>x, <2>1, ToReportKeeps
<1>4. CASE Continue
  <2>1. /\ epc = "started" /\ UNCHANGED <<files, temps, serviceVars>>
        /\ UNCHANGED <<final, runs, latest, excused>> /\ write.pc = "none"
    BY <1>i, <1>4, <1>r DEF Continue, serviceVars, OwnerInv
  <2>w. UNCHANGED write => WriteInv'
    BY <1>i, <2>1 DEF WriteInv, Mismatch
  <2>2. CASE ~step.applies /\ ToReport(Completed(0)) /\ UNCHANGED write
    <3>1. Truthful(etask, Completed(0))'
      BY <2>2 DEF Truthful, Completed, NotFound, step, ToReport
    <3>2. ReportInv'
      BY <1>i, <1>c, <2>1, <2>2, <3>1, ToReportKeeps
    <3> QED
      BY <1>g, <1>p, <2>1, <2>2, <2>w, <3>2
  <2>3. CASE /\ step.applies /\ step.object # NoObject
             /\ epc' = "download"
             /\ write' = NewWrite("stream", step.path, step.object, NoSum)
             /\ UNCHANGED <<etask, out>>
    <3>1. step' = step /\ step.path \in Paths
      BY <1>i, <2>1, <2>3, ExecAssumption DEF step, ExecInv
    <3>2. WriteInv'
      BY <1>i, <2>1, <2>3, <3>1 DEF WriteInv, NewWrite, WritePcs
    <3>3. OwnerInv' /\ ExecInv'
      BY <1>i, <1>r, <1>u, <2>1, <2>3, <3>1 DEF OwnerInv, ExecInv, Writes, NewWrite
    <3>4. ReportInv'
      BY <1>i, <2>1, <2>3 DEF ReportInv, Over, Truthful
    <3> QED
      BY <1>g, <2>1, <3>2, <3>3, <3>4
  <2>4. CASE step.applies /\ ToReport(Completed(-1)) /\ UNCHANGED write
    BY <1>g, <1>p, <1>x, <2>1, <2>4, <2>w
  <2>5. CASE /\ step.applies /\ step.object = NoObject
             /\ epc' = "exec"
             /\ UNCHANGED <<etask, out, write>>
    <3>1. step' = step
      BY <2>5 DEF step
    <3>2. OwnerInv' /\ ExecInv'
      BY <1>i, <1>r, <1>u, <2>1, <2>5, <3>1 DEF OwnerInv, ExecInv
    <3>3. ReportInv'
      BY <1>i, <2>1, <2>5 DEF ReportInv, Over, Truthful
    <3> QED
      BY <1>g, <2>1, <2>5, <2>w, <3>2, <3>3
  <2> QED
    BY <1>4, <2>2, <2>3, <2>4, <2>5 DEF Continue
<1>5. CASE Downloaded
  <2>1. /\ epc = "download" /\ UNCHANGED <<files, temps, serviceVars>>
        /\ UNCHANGED <<final, runs, latest, excused>>
    BY <1>5 DEF Downloaded, serviceVars
  <2>2. CASE write.pc = "ok" /\ epc' = "exec" /\ write' = write /\ UNCHANGED <<etask, out>>
    <3>1. step' = step
      BY <2>2 DEF step
    <3>2. OwnerInv' /\ ExecInv'
      BY <1>i, <1>r, <1>u, <2>1, <2>2, <3>1 DEF OwnerInv, ExecInv, Writes
    <3>3. ReportInv'
      BY <1>i, <2>1, <2>2 DEF ReportInv, Over, Truthful
    <3>4. WriteInv'
      BY <1>i, <2>1, <2>2 DEF WriteInv, Mismatch
    <3> QED
      BY <1>g, <2>1, <3>2, <3>3, <3>4
  <2>3. CASE ToReport(Completed(-1)) /\ write' = NoWrite
    <3>1. WriteInv' /\ write'.pc = "none"
      BY <1>i, <1>n, <2>1, <2>3 DEF WriteInv
    <3> QED
      BY <1>g, <1>p, <1>x, <2>1, <2>3, <3>1
  <2> QED
    BY <1>5, <2>2, <2>3 DEF Downloaded
<1>6. CASE NotRun
  <2>1. /\ epc = "exec" /\ ToReport(Completed(-1)) /\ UNCHANGED <<diskVars, serviceVars>>
        /\ UNCHANGED <<files, write, final, runs, latest, excused>>
    BY <1>6 DEF NotRun, diskVars, serviceVars
  <2> QED
    BY <1>d, <1>g, <1>p, <1>x, <2>1
<1>y. epc = "exec" /\ step.object # NoObject => At(step.path) = Whole(step.object)
  BY <1>i, FileValues DEF OwnerInv, ExecInv, WriteInv, At, Leads
<1>7. CASE Execute
  <2>1. /\ epc = "exec" /\ At(step.path) # Absent /\ UNCHANGED <<diskVars, final, excused>>
        /\ UNCHANGED <<files, write>> /\ runs' = [runs EXCEPT ![etask] = @ + 1]
    BY <1>7 DEF Execute, diskVars
  <2>2. PICK code \in {0, 1}, read \in BOOLEAN :
          /\ latest' = [latest EXCEPT ![etask] = [data |-> At(step.path), code |-> code]]
          /\ ToReport(Completed(IF read THEN code ELSE -1))
    BY <1>7 DEF Execute
  <2>3. etask' = etask /\ etask \in ExecTasks /\ step.applies
    BY <1>i, <2>1, <2>2 DEF ToReport, ExecInv
  <2>4. \A t \in ExecTasks :
           latest'[t] = IF t = etask THEN [data |-> At(step.path), code |-> code] ELSE latest[t]
    BY <1>i, <2>2 DEF ReportInv
  <2>5. PartInv'
    <3>1. step.path \in Paths /\ (step.path \notin EntryPaths => At(step.path)[1] # "part")
      BY <1>i, <2>3, ExecAssumption, LeadsShape, LinkShape DEF PartInv, FilesInv, step
    <3> QED
      BY <1>i, <2>1, <2>4, <3>1 DEF PartInv, FilesInv, step
  <2>6. latest'[etask] = [data |-> At(step.path), code |-> code]
    BY <2>3, <2>4
  <2>7. Truthful(etask, Completed(IF read THEN code ELSE -1))'
    <3>1. code # NotFound /\ -1 # NotFound /\ -1 \notin {0, 1}
      BY DEF NotFound
    <3>2. CASE read
      BY <1>y, <2>1, <2>3, <2>6, <3>1, <3>2 DEF Truthful, Completed, step
    <3>3. CASE ~read
      BY <3>1, <3>3 DEF Truthful, Completed
    <3> QED
      BY <3>2, <3>3
  <2>8. ReportInv'
    BY <1>i, <1>c, <2>1, <2>2, <2>3, <2>7, ToReportKeeps
  <2> QED
    BY <1>d, <1>p, <2>1, <2>2, <2>5, <2>8
<1>8. CASE ExecuteNotFound
  <2>1. /\ epc = "exec" /\ ToReport(Completed(NotFound)) /\ UNCHANGED <<diskVars, serviceVars>>
        /\ UNCHANGED <<files, write, final, runs, latest, excused>> /\ At(step.path) = Absent
    BY <1>8 DEF ExecuteNotFound, diskVars, serviceVars
  <2>2. step.object = NoObject /\ latest[etask] = NoRun
    BY <1>i, <1>y, <2>1, FileValues DEF ReportInv
  <2>3. Truthful(etask, Completed(NotFound))'
    BY <2>1, <2>2 DEF Truthful, Completed, NotFound, ToReport, step
  <2>4. ReportInv'
    BY <1>i, <1>c, <2>1, <2>3, ToReportKeeps
  <2> QED
    BY <1>d, <1>g, <1>p, <2>1, <2>4
<1>9. CASE ReportComplete
  <2>1. /\ epc = "report" /\ UNCHANGED <<diskVars, runs, latest>> /\ UNCHANGED <<files, write>>
    BY <1>9 DEF ReportComplete, diskVars
  <2>2. PICK delivered \in BOOLEAN :
          /\ final' = IF delivered THEN [final EXCEPT ![etask] = out] ELSE final
          /\ \/ delivered /\ UNCHANGED <<epc, etask, out, excused>>
             \/ write.pc = "ok" /\ epc' = "remove" /\ UNCHANGED <<etask, out, excused>>
             \/ write.pc # "ok" /\ Ends
    BY <1>9 DEF ReportComplete
  <2>3. WriteInv' /\ PartInv'
    BY <1>d, <2>1
  <2>4. CASE write.pc # "ok" /\ Ends
    <3>1. ReportInv' /\ epc' = "idle"
      BY <1>i, <2>1, <2>2, <2>4, EndsKeeps
    <3>2. write'.pc = "none"
      BY <1>i, <2>1, <2>4 DEF OwnerInv
    <3> QED
      BY <1>e, <2>3, <3>1, <3>2
  <2>5. CASE epc' \in {"report", "remove"} /\ UNCHANGED <<etask, out, excused>>
             /\ (epc' = "remove" => write.pc = "ok")
    <3>1. step' = step
      BY <2>5 DEF step
    <3>2. OwnerInv' /\ ExecInv'
      BY <1>i, <1>r, <1>u, <2>1, <2>5, <3>1 DEF OwnerInv, ExecInv
    <3>3. etask \in ExecTasks /\ \A t \in ExecTasks : final'[t] = final[t] \/ (t = etask /\ final'[t] = out)
      BY <1>i, <2>1, <2>2 DEF ReportInv, ExecInv
    <3>4. final' = [t \in ExecTasks |-> final'[t]]
      BY <1>i, <2>2 DEF ReportInv
    <3>5. \A t \in ExecTasks : Over(t)' = Over(t)
      BY <1>i, <2>1, <2>5, <3>3 DEF Over
    <3>6. \A t \in ExecTasks : Truthful(t, final'[t])
      BY <1>i, <2>1, <3>3 DEF ReportInv
    <3>7. \A t \in ExecTasks : Truthful(t, final[t])'
      BY <2>1, <3>6 DEF Truthful
    <3>8. Truthful(etask, out)'
      BY <1>i, <2>1, <2>5 DEF Truthful, ReportInv
    <3>9. ReportInv'
      BY <1>i, <2>1, <2>5, <3>3, <3>4, <3>5, <3>7, <3>8 DEF ReportInv
    <3> QED
      BY <2>3, <3>2, <3>9
  <2> QED
    BY <2>1, <2>2, <2>4, <2>5
<1>10. CASE Remove
  <2>1. /\ epc = "remove" /\ files' \in {files, [files EXCEPT ![step.path] = Absent]}
        /\ write' = NoWrite /\ UNCHANGED <<temps, final, runs, latest>> /\ Ends
    BY <1>10 DEF Remove
  <2>2. ReportInv' /\ epc' = "idle"
    BY <1>i, <2>1, EndsKeeps
  <2>3. files' = [p \in Paths |-> files'[p]] /\ \A p \in Paths : files'[p] \in {files[p], Absent}
    BY <1>i, <2>1 DEF WriteInv
  <2>4. WriteInv' /\ write'.pc = "none"
    BY <1>n, <2>1, <2>3
  <2>5. PartInv'
    BY <1>i, <2>1, <2>3, FileValues DEF PartInv, FilesInv
  <2> QED
    BY <1>e, <2>2, <2>4, <2>5
<1> QED
  BY <1>1, <1>2, <1>3, <1>4, <1>5, <1>6, <1>7, <1>8, <1>9, <1>10 DEF ExecNext

-----------------------------------------------------------------------------
(***************************************************************************)
(* A recipe leaves the exec tasks alone.                                   *)
(***************************************************************************)
LEMMA RecipeFrame ==
    ASSUME JInv, UNCHANGED execVars, epc = "idle"
    PROVE  /\ ExecInv' /\ ReportInv' /\ epc' = "idle"
           /\ FilesInv' => PartInv'
<1>i. ExecInv /\ ReportInv /\ PartInv
  BY DEF JInv, DiskInv
<1>u. UNCHANGED <<epc, etask, out, final, runs, latest, excused>>
  BY DEF execVars, serviceVars
<1>1. ExecInv'
  BY <1>i, <1>u DEF ExecInv
<1>2. ReportInv'
  BY <1>i, <1>u DEF ReportInv, Truthful, Over
<1>3. FilesInv' => PartInv'
  BY <1>i, <1>u DEF PartInv
<1> QED
  BY <1>1, <1>2, <1>3, <1>u

(***************************************************************************)
(* Between two writes no temporary file is open.                           *)
(***************************************************************************)
LEMMA TempsStay ==
    ASSUME TempInv, ~Writing, temps' \subseteq temps, rpc' # "idle" \/ rpc' = rpc
    PROVE  TempInv'
BY DEF TempInv, Writing

(***************************************************************************)
(* One more step of the recipe that is done fills its own paths.           *)
(***************************************************************************)
LEMMA FilledNext ==
    ASSUME RecipeInv, rpc # "idle", at.step <= Len(Recipe[rname].steps), StepDone
    PROVE  Filled' = Filled \cup Fills(current)
<1>1. /\ rname' = rname /\ at'.step = at.step + 1
  BY DEF StepDone
<1>2. /\ at.step \in DOMAIN Recipe[rname].steps /\ at.step \in Nat
      /\ \A j \in DOMAIN Recipe[rname].steps : j \in Nat
  BY RecipeShape
<1>3. \A j \in DOMAIN Recipe[rname].steps : j < at.step + 1 <=> j < at.step \/ j = at.step
  BY <1>2
<1>4. {j \in DOMAIN Recipe[rname].steps : j < at.step + 1} =
         {j \in DOMAIN Recipe[rname].steps : j < at.step} \cup {at.step}
  BY <1>2, <1>3
<1> QED
  BY <1>1, <1>4 DEF Filled, current

(***************************************************************************)
(* What a step has filled when it is done: nothing, the copy, or all files *)
(* of the archive.                                                         *)
(***************************************************************************)
LEMMA FillsShape ==
    /\ \A s : s.op = "copy" => Fills(s) \subseteq {s.path}
    /\ \A s : s.op \notin {"copy", "extract"} => Fills(s) = {}
BY DEF Fills

(***************************************************************************)
(* All entries are extracted when the end of the archive is reached.       *)
(***************************************************************************)
LEMMA ExtractedAll ==
    ASSUME RecipeInv, rpc = "extract", at.entry > Len(current.entries)
    PROVE  Fills(current) = Extracted
<1>1. /\ current.op = "extract" /\ Len(current.entries) \in Nat
      /\ DOMAIN current.entries = 1..Len(current.entries) /\ at.entry \in Nat
  BY ArchiveShape, RecipeShape DEF RecipeInv
<1>2. \A j \in Once(current.entries) : j < at.entry
  BY <1>1 DEF Once
<1>3. {j \in Once(current.entries) : j < at.entry} = Once(current.entries)
  BY <1>2
<1> QED
  BY <1>1, <1>3 DEF Fills, Extracted

(***************************************************************************)
(* After the next entry, at most its path is extracted as well.            *)
(***************************************************************************)
LEMMA ExtractedNext ==
    ASSUME RecipeInv, rpc \in Extracting, at.entry <= Len(current.entries), NextEntry
    PROVE  /\ rpc' = "extract" /\ rname' = rname /\ at'.step = at.step /\ current' = current
           /\ at' \in [step : Nat \ {0}, entry : Nat \ {0}]
           /\ \A p \in Extracted' : \/ p \in Extracted
                                    \/ p = entry.path /\ at.entry \in Once(current.entries)
           /\ Filled' = Filled
           /\ \A i \in Once(current.entries) : Awaited(i)' => Awaited(i) /\ i # at.entry
<1>1. /\ rpc' = "extract" /\ rname' = rname /\ at'.step = at.step /\ at'.entry = at.entry + 1
      /\ at' \in [step : Nat \ {0}, entry : Nat \ {0}]
  BY DEF NextEntry, RecipeInv
<1>2. current' = current /\ Filled' = Filled
  BY <1>1 DEF current, Filled
<1>n. at.entry \in Nat /\ \A j \in Once(current.entries) : j \in Nat
  BY ArchiveShape, RecipeShape DEF RecipeInv, Once
<1>3. ASSUME NEW p \in Extracted'
      PROVE  p \in Extracted \/ (p = entry.path /\ at.entry \in Once(current.entries))
  <2>1. PICK j \in Once(current.entries) : j < at.entry + 1 /\ p = current.entries[j].path
    BY <1>1, <1>2 DEF Extracted
  <2>2. CASE j < at.entry
    BY <2>1, <2>2 DEF Extracted
  <2>3. CASE j = at.entry
    BY <2>1, <2>3 DEF entry
  <2> QED
    BY <1>n, <2>1, <2>2, <2>3
<1>4. \A i \in Once(current.entries) : Awaited(i)' => Awaited(i) /\ i # at.entry
  BY <1>1, <1>n DEF Awaited
<1> QED
  BY <1>1, <1>2, <1>3, <1>4

(***************************************************************************)
(* A step that does not touch the disk, and goes on to the next step or to *)
(* the end of the recipe.                                                  *)
(***************************************************************************)
LEMMA GoesOnKeeps ==
    ASSUME JInv, UNCHANGED execVars, ipc' = ipc, UNCHANGED <<files, temps>>, ~Writing, rpc # "idle",
           write' = NoWrite \/ (UNCHANGED write /\ rpc \notin {"fetch", "copy", "script"}),
           \/ rpc' = "cleanup" /\ UNCHANGED <<rname, at, before, raced>>
           \/ /\ StepDone /\ rpc \in Installing /\ at.step <= Len(Recipe[rname].steps)
              /\ \A p \in Fills(current) \ raced : files[p] = Whole(Recipe[rname].artifact)
    PROVE  JInv'
<1>i. /\ WriteInv /\ OwnerInv /\ ExecInv /\ RecipeInv /\ PartInv /\ ArtifactInv /\ TempInv
      /\ ReportInv /\ PlaceInv
  BY DEF JInv, DiskInv
<1>o. epc = "idle" /\ ipc = "idle"
  BY <1>i DEF OwnerInv
<1>e. ExecInv' /\ ReportInv' /\ PartInv' /\ epc' = "idle"
  BY <1>i, <1>o, RecipeFrame DEF PartInv, FilesInv
<1>w. WriteInv' /\ write'.pc = "none"
  <2>1. CASE write' = NoWrite
    BY <1>i, <2>1 DEF WriteInv, NoWrite, WritePcs
  <2>2. CASE UNCHANGED write /\ rpc \notin {"fetch", "copy", "script"}
    BY <1>i, <1>o, <2>2 DEF WriteInv, OwnerInv, Mismatch
  <2> QED
    BY <2>1, <2>2
<1>s. /\ rpc' \in {"cleanup", "step"} /\ rname' = rname /\ UNCHANGED <<before, raced>>
      /\ at' \in [step : Nat \ {0}, entry : Nat \ {0}]
      /\ rpc' = "step" => rpc \in Installing /\ at'.entry = 1
  BY <1>i DEF StepDone, RecipeInv
<1>1. OwnerInv'
  BY <1>e, <1>o, <1>s, <1>w DEF OwnerInv
<1>2. RecipeInv'
  BY <1>i, <1>s DEF RecipeInv, Installing
<1>3. ArtifactInv'
  BY <1>i, <1>s DEF ArtifactInv
<1>4. TempInv'
  BY <1>i, <1>s, TempsStay
<1>5. PlaceInv'
  <2>1. CASE rpc' = "cleanup"
    BY <1>i, <1>s, <2>1 DEF PlaceInv, Installing
  <2>2. CASE rpc' = "step"
    <3>1. Filled' = Filled \cup Fills(current)
      BY <1>i, <2>2, FilledNext
    <3>2. \A p \in Filled' \ raced : files[p] = Whole(Recipe[rname].artifact)
      BY <1>i, <1>s, <2>2, <3>1 DEF PlaceInv
    <3> QED
      BY <1>i, <1>s, <2>2, <3>2 DEF PlaceInv, Installing
  <2> QED
    BY <1>s, <2>1, <2>2
<1> QED
  BY <1>e, <1>w, <1>1, <1>2, <1>3, <1>4, <1>5 DEF JInv, DiskInv

(***************************************************************************)
(* A recipe is started with an empty run directory.                        *)
(***************************************************************************)
LEMMA InstallKeeps ==
    ASSUME JInv, NoJob, InstallRecipe, UNCHANGED <<execVars, ipc>>
    PROVE  JInv'
<1>i. /\ WriteInv /\ OwnerInv /\ ExecInv /\ RecipeInv /\ PartInv /\ ArtifactInv /\ TempInv
      /\ ReportInv /\ PlaceInv
  BY DEF JInv, DiskInv
<1>1. PICK r \in Recipes :
          /\ rname' = r
          /\ write' = NewWrite("stream", Artifact, Recipe[r].served, Recipe[r].sum)
  BY DEF InstallRecipe
<1>2. /\ epc = "idle" /\ ipc = "idle" /\ rpc' = "fetch" /\ at' = [step |-> 1, entry |-> 1]
      /\ files' = [p \in Paths |-> IF p \in RunDir THEN Absent ELSE files[p]]
      /\ UNCHANGED <<temps, recorded, before, raced>> /\ rpc = "idle"
  BY DEF NoJob, InstallRecipe
<1>3. ExecInv' /\ ReportInv' /\ PartInv' /\ epc' = "idle"
  BY <1>i, <1>2, RecipeFrame, FileValues DEF PartInv, FilesInv
<1>4. Artifact \in Paths /\ files'[Artifact] = Absent
  BY <1>2, RecipeAssumption DEF RunDir
<1>5. WriteInv'
  BY <1>1, <1>2, <1>4 DEF WriteInv, NewWrite, WritePcs
<1>6. OwnerInv'
  BY <1>1, <1>2, <1>3 DEF OwnerInv, Writes, NewWrite
<1>7. RecipeInv' /\ ArtifactInv'
  BY <1>1, <1>2, <1>4 DEF RecipeInv, ArtifactInv
<1>8. TempInv'
  BY <1>i, <1>2 DEF TempInv, OwnerInv
<1>9. PlaceInv'
  BY <1>i, <1>2 DEF PlaceInv, Installing
<1> QED
  BY <1>3, <1>5, <1>6, <1>7, <1>8, <1>9 DEF JInv, DiskInv

(***************************************************************************)
(* A file of an archive is among the paths that are written in place.      *)
(***************************************************************************)
LEMMA EntryIsInPlace ==
    ASSUME RecipeInv, rpc \in Extracting, at.entry <= Len(current.entries)
    PROVE  /\ entry \in ArchiveEntry /\ at.entry \in DOMAIN current.entries
           /\ entry.path \in Targets /\ entry.path \in Paths
           /\ entry.kind = "file" => entry.path \in EntryPaths
           /\ entry.kind = "link" => entry.path \in LinkPaths /\ entry.to \in LinkPaths
<1>1. /\ rname \in Recipes /\ at.step \in DOMAIN Recipe[rname].steps /\ current.op = "extract"
  BY RecipeShape DEF RecipeInv
<1>2. at.entry \in DOMAIN current.entries /\ entry \in ArchiveEntry
  BY <1>1, ArchiveShape DEF RecipeInv
<1>3. entry.path \in Targets /\ entry.path \in Paths
  BY <1>2 DEF ArchiveEntry, Targets
<1>4. entry.kind = "file" => entry.path \in EntryPaths
  BY <1>1, <1>2, <1>3 DEF EntryPaths, current, entry
<1>5. entry.kind = "link" => entry \in Links
  BY <1>1, <1>2 DEF Links, Recipes, current, entry
<1> QED
  BY <1>2, <1>3, <1>4, <1>5 DEF LinkPaths

(***************************************************************************)
(* Writing an entry of an archive touches only what was not there when the *)
(* conflicts were looked for, or what a link leads to.                     *)
(***************************************************************************)
LEMMA EntryKeeps ==
    ASSUME JInv, UNCHANGED <<execVars, ipc, temps, write>>, rpc \in Extracting,
           at.entry <= Len(current.entries),
           NEW w \in Paths, NEW v, files' = [files EXCEPT ![w] = v],
           w = entry.path \/ (entry.path \in LinkPaths /\ w \in LinkPaths),
           v[1] = "part" => w \in EntryPaths,
           v[1] = "link" => w \in LinkPaths /\ v[2] \in LinkPaths,
           \/ rpc' = "cleanup" /\ UNCHANGED <<rname, at, before, raced>>
           \/ /\ NextEntry
              /\ at.entry \in Once(current.entries) /\ entry.path \notin raced
                    => v = Whole(Recipe[rname].artifact)
           \/ /\ rpc = "extract" /\ entry.kind = "file"
              /\ \/ Goes("entry")
                 \/ Goes("entryOld") /\ (at.entry \notin Once(current.entries) \/ entry.path \in raced)
    PROVE  JInv'
<1>i. /\ WriteInv /\ OwnerInv /\ ExecInv /\ RecipeInv /\ PartInv /\ ArtifactInv /\ TempInv
      /\ ReportInv /\ PlaceInv
  BY DEF JInv, DiskInv
<1>o. epc = "idle" /\ ipc = "idle" /\ write.pc = "none" /\ ~Writing
  BY <1>i DEF OwnerInv, Writing
<1>a. at.entry \in DOMAIN current.entries
  BY <1>i, EntryIsInPlace
<1>f. /\ files' = [p \in Paths |-> files'[p]]
      /\ \A p \in Paths : files'[p] = IF p = w THEN v ELSE files[p]
  BY <1>i DEF WriteInv
<1>e. ExecInv' /\ ReportInv' /\ PartInv' /\ epc' = "idle"
  <2>1. FilesInv'
    BY <1>i, <1>f DEF PartInv, FilesInv
  <2> QED
    BY <1>o, <2>1, RecipeFrame
<1>s. /\ rpc' \in {"cleanup"} \cup Extracting /\ rname' = rname /\ UNCHANGED <<before, raced>>
      /\ at'.step = at.step /\ at' \in [step : Nat \ {0}, entry : Nat \ {0}]
      /\ current' = current /\ Filled' = Filled
      /\ rpc' \in {"entry", "entryOld"} =>
            at' = at /\ entry.kind = "file" /\ rpc = "extract" /\ entry' = entry
      /\ rpc' = "extract" => NextEntry
  BY <1>i, ExtractedNext DEF Goes, NextEntry, RecipeInv, current, Filled, entry
<1>1. WriteInv'
  BY <1>i, <1>o, <1>f DEF WriteInv, Mismatch
<1>2. OwnerInv'
  BY <1>e, <1>o, <1>s DEF OwnerInv
<1>3. RecipeInv'
  BY <1>i, <1>s DEF RecipeInv
<1>4. ArtifactInv'
  BY <1>i, <1>s DEF ArtifactInv, RecipeInv
<1>5. TempInv'
  BY <1>i, <1>o, <1>s, TempsStay
<1>6. PlaceInv'
  <2>1. w \in LinkPaths \/ before[w] = Absent
    BY <1>i, <1>a DEF PlaceInv, entry
  <2>2. \A p \in Paths \ LinkPaths : before[p] # Absent => files'[p] = before[p]
    BY <1>i, <1>f, <2>1 DEF PlaceInv
  <2>3. \A p \in Filled \ raced : before[p] # Absent /\ files'[p] = Whole(Recipe[rname].artifact)
    <3>1. Filled \subseteq Paths \ LinkPaths
      BY <1>i, RecipeShape DEF Targets
    <3> QED
      BY <1>i, <1>f, <2>1, <3>1 DEF PlaceInv, Installing
  <2>o. \A i \in Once(current.entries) :
           /\ current.entries[i].path \in Paths /\ current.entries[i].path \notin LinkPaths
           /\ i # at.entry => current.entries[i].path # w
    <3>1. \A i \in DOMAIN current.entries : current.entries[i].path \in Paths
      BY <1>i, ArchiveShape DEF RecipeInv, ArchiveEntry, Targets
    <3> QED
      BY <1>a, <3>1 DEF Once, entry
  <2>p. \A p \in Extracted \ raced : files'[p] = Whole(Recipe[rname].artifact)
    <3> SUFFICES ASSUME NEW j \in Once(current.entries), j < at.entry, current.entries[j].path \notin raced
                 PROVE  files'[current.entries[j].path] = Whole(Recipe[rname].artifact)
      BY DEF Extracted
    <3>1. current.entries[j].path \in Extracted
      BY DEF Extracted
    <3>2. j # at.entry
      BY <1>i DEF RecipeInv
    <3> QED
      BY <1>i, <1>f, <2>o, <3>1, <3>2 DEF PlaceInv
  <2>4. ASSUME rpc' \in Extracting, NEW p \in Extracted' \ raced
        PROVE  files'[p] = Whole(Recipe[rname].artifact)
    <3>1. CASE rpc' = "extract"
      <4>1. /\ NextEntry
            /\ at.entry \in Once(current.entries) /\ entry.path \notin raced
                  => v = Whole(Recipe[rname].artifact)
        BY <3>1 DEF Goes
      <4>2. p \in Extracted \/ (p = entry.path /\ at.entry \in Once(current.entries))
        BY <1>i, <4>1, ExtractedNext
      <4>3. at.entry \in Once(current.entries) => entry.path = w
        BY <2>o DEF entry
      <4> QED
        BY <1>f, <2>4, <2>p, <4>1, <4>2, <4>3
    <3>2. CASE rpc' # "extract"
      <4>1. Extracted' = Extracted
        BY <1>s, <2>4, <3>2 DEF Extracted
      <4> QED
        BY <2>4, <2>p, <4>1
    <3> QED
      BY <3>1, <3>2
  <2>5. ASSUME rpc' \in Extracting, NEW i \in Once(current.entries), Awaited(i)'
        PROVE  current.entries[i].path \in raced \/ files'[current.entries[i].path] = Absent
    <3>1. Awaited(i) /\ i # at.entry
      <4>1. CASE rpc' = "extract"
        BY <1>i, <1>s, <2>5, <4>1, ExtractedNext
      <4>2. CASE rpc' # "extract"
        BY <1>i, <1>s, <2>5, <4>2 DEF Awaited, RecipeInv
      <4> QED
        BY <4>1, <4>2
    <3> QED
      BY <1>i, <1>f, <2>o, <3>1 DEF PlaceInv
  <2>6. rpc' = "entryOld" => at.entry \notin Once(current.entries) \/ entry.path \in raced
    BY DEF Goes, NextEntry
  <2> QED
    BY <1>i, <1>s, <2>2, <2>3, <2>4, <2>5, <2>6 DEF PlaceInv, Installing
<1> QED
  BY <1>e, <1>1, <1>2, <1>3, <1>4, <1>5, <1>6 DEF JInv, DiskInv

(***************************************************************************)
(* A write that a step of the recipe begins.                               *)
(***************************************************************************)
LEMMA BeginWrite ==
    ASSUME JInv, UNCHANGED <<execVars, ipc, files, temps>>, rpc = "step", rpc' \in {"copy", "script"},
           at.step <= Len(Recipe[rname].steps), current.op = rpc', UNCHANGED <<rname, at, raced>>,
           rpc' = "copy" =>
              /\ write' = NewWrite("stream", current.path, Recipe[rname].served, NoSum)
              /\ before' = files /\ (At(current.path) = Absent \/ current.overwrite),
           rpc' = "script" =>
              write' = NewWrite("bytes", Script, current.script, NoSum) /\ before' = before
    PROVE  JInv'
<1>i. /\ WriteInv /\ OwnerInv /\ ExecInv /\ RecipeInv /\ PartInv /\ ArtifactInv /\ TempInv
      /\ ReportInv /\ PlaceInv
  BY DEF JInv, DiskInv
<1>o. epc = "idle" /\ ipc = "idle" /\ write.pc = "none" /\ ~Writing
  BY <1>i DEF OwnerInv, Writing
<1>e. ExecInv' /\ ReportInv' /\ PartInv' /\ epc' = "idle"
  BY <1>i, <1>o, RecipeFrame DEF PartInv, FilesInv
<1>c. current' = current /\ Filled' = Filled
  BY DEF current, Filled
<1>w. /\ write'.pc = "create" /\ write'.path \in Paths
      /\ write' = [pc |-> write'.pc, kind |-> write'.kind, path |-> write'.path,
                   data |-> write'.data, sum |-> write'.sum]
  <2>1. Script \in Paths
    BY RecipeAssumption DEF RunDir
  <2>2. current.op = "copy" => current.path \in Paths
    BY <1>i, RecipeShape, StepShape DEF Targets
  <2> QED
    BY <2>1, <2>2 DEF NewWrite
<1>1. WriteInv'
  BY <1>i, <1>w DEF WriteInv, WritePcs
<1>2. OwnerInv'
  BY <1>e, <1>o, <1>c DEF OwnerInv, Writes, NewWrite
<1>3. RecipeInv'
  BY <1>i, <1>c DEF RecipeInv
<1>4. ArtifactInv'
  BY <1>i DEF ArtifactInv
<1>5. TempInv'
  BY <1>i, <1>o, TempsStay
<1>6. PlaceInv'
  <2>1. before' = [p \in Paths |-> before'[p]]
    BY <1>i DEF PlaceInv, WriteInv
  <2>2. rpc' = "copy" /\ ~current.overwrite => current.path \in LinkPaths \/ before'[current.path] = Absent
    <3>1. current.op = "copy" => current.path \in Paths
      BY <1>i, RecipeShape, StepShape DEF Targets
    <3> QED
      BY <1>i, <3>1, LeadsShape DEF PartInv
  <2> QED
    BY <1>i, <1>c, <2>1, <2>2 DEF PlaceInv, Installing
<1> QED
  BY <1>e, <1>1, <1>2, <1>3, <1>4, <1>5, <1>6 DEF JInv, DiskInv

(***************************************************************************)
(* Every step of a recipe preserves the invariants.                        *)
(***************************************************************************)
LEMMA RecipeKeeps ==
    ASSUME JInv, ~Writing, RecipeNext, UNCHANGED <<execVars, ipc>>
    PROVE  JInv'
<1>i. /\ WriteInv /\ OwnerInv /\ ExecInv /\ RecipeInv /\ PartInv /\ ArtifactInv /\ TempInv
      /\ ReportInv /\ PlaceInv
  BY DEF JInv, DiskInv
<1>r. rpc # "idle"
  BY DEF RecipeNext, fetchArtifact, StepDirError, AllStepsDone, StepError, UnknownStep, stepCopyFile,
     stepRunScript, Written, executeCommand, stepExtractArchive, EndOfArchive, EntryWithoutData,
     MakeLink, MakeEntry, OpenEntry, CopyEntry, Cleanup, Doing, AtEntry
<1>o. epc = "idle" /\ ipc = "idle"
  BY <1>i, <1>r DEF OwnerInv
<1>a. ASSUME NEW success, AddRecipe(success) PROVE rpc' = "cleanup" /\ UNCHANGED <<rname, at, before, raced>>
  BY <1>a DEF AddRecipe
<1>d. ASSUME UNCHANGED diskVars, rpc \notin {"fetch", "copy", "script"}, rpc' = "cleanup",
             UNCHANGED <<rname, at, before, raced>>
      PROVE  JInv'
  BY <1>d, <1>r, GoesOnKeeps DEF diskVars
<1>p. ASSUME UNCHANGED diskVars, rpc \in {"step", "run"}, StepDone, at.step <= Len(Recipe[rname].steps),
             current.op \notin {"copy", "extract"}
      PROVE  JInv'
  <2>1. Fills(current) = {}
    BY <1>p, FillsShape
  <2> QED
    BY <1>p, <1>r, <2>1, GoesOnKeeps DEF diskVars, Installing
<1>1. CASE fetchArtifact
  <2>1. rpc = "fetch" /\ write' = NoWrite /\ UNCHANGED <<files, temps>>
    BY <1>1 DEF fetchArtifact
  <2>2. CASE Goes("cleanup")
    BY <1>r, <2>1, <2>2, GoesOnKeeps DEF Goes
  <2>3. CASE write.pc = "ok" /\ Goes("step")
    <3>1. rpc' = "step" /\ UNCHANGED <<rname, at, before, raced>>
      BY <2>3 DEF Goes
    <3>2. ExecInv' /\ ReportInv' /\ PartInv' /\ epc' = "idle"
      BY <1>i, <1>o, <2>1, RecipeFrame DEF PartInv, FilesInv
    <3>3. Recipe[rname].sum \in {NoSum, Recipe[rname].served}
      BY <1>i, <2>1, <2>3 DEF OwnerInv, Writes, WriteInv, Mismatch
    <3>4. WriteInv' /\ write'.pc = "none"
      BY <1>i, <2>1 DEF WriteInv, NoWrite, WritePcs
    <3>5. OwnerInv'
      BY <1>o, <3>1, <3>2, <3>4 DEF OwnerInv
    <3>6. RecipeInv' /\ ArtifactInv'
      BY <1>i, <2>1, <3>1, <3>3 DEF RecipeInv, ArtifactInv
    <3>7. TempInv'
      BY <1>i, <2>1, <3>1, TempsStay
    <3>8. Filled' = {}
      <4>1. at.step = 1 /\ \A j \in DOMAIN Recipe[rname].steps : j \in Nat \ {0}
        BY <1>i, <1>r, <2>1, RecipeShape DEF RecipeInv
      <4>2. \A j \in DOMAIN Recipe[rname].steps : ~(j < at.step)
        BY <4>1
      <4> QED
        BY <3>1, <4>2 DEF Filled
    <3>9. PlaceInv'
      BY <1>i, <3>1, <3>8 DEF PlaceInv, Installing
    <3> QED
      BY <3>2, <3>4, <3>5, <3>6, <3>7, <3>9 DEF JInv, DiskInv
  <2> QED
    BY <1>1, <2>2, <2>3 DEF fetchArtifact
<1>2. CASE StepDirError
  BY <1>2, <1>d DEF StepDirError, Goes
<1>3. CASE AllStepsDone \/ StepError
  BY <1>3, <1>a, <1>d DEF AllStepsDone, StepError
<1>4. CASE UnknownStep
  BY <1>4, <1>p DEF UnknownStep, Doing
<1>5. CASE stepCopyFile
  <2>1. /\ rpc = "step" /\ rpc' = "copy" /\ at.step <= Len(Recipe[rname].steps) /\ current.op = "copy"
        /\ UNCHANGED <<files, temps>> /\ UNCHANGED <<rname, at, raced>>
        /\ write' = NewWrite("stream", current.path, Recipe[rname].served, NoSum)
        /\ before' = files /\ (At(current.path) = Absent \/ current.overwrite)
    BY <1>5 DEF stepCopyFile, Doing
  <2> QED
    BY <2>1, BeginWrite
<1>6. CASE stepRunScript
  <2>1. /\ rpc = "step" /\ rpc' = "script" /\ at.step <= Len(Recipe[rname].steps) /\ current.op = "script"
        /\ UNCHANGED <<files, temps>> /\ UNCHANGED <<rname, at, raced>>
        /\ write' = NewWrite("bytes", Script, current.script, NoSum) /\ before' = before
    BY <1>6 DEF stepRunScript, Doing, Goes
  <2> QED
    BY <2>1, BeginWrite
<1>7. CASE Written
  <2>1. rpc \in {"copy", "script"} /\ write' = NoWrite /\ UNCHANGED <<files, temps>>
    BY <1>7 DEF Written
  <2>2. CASE write.pc = "ok" /\ rpc = "copy" /\ StepDone
    <3>1. at.step <= Len(Recipe[rname].steps) /\ current.op = "copy"
      BY <1>i, <2>2 DEF RecipeInv
    <3>2. Fills(current) \subseteq {current.path}
      BY <3>1, FillsShape
    <3>3. files[current.path] = Whole(Recipe[rname].artifact)
      BY <1>i, <2>2, ServedIsArtifact DEF OwnerInv, Writes, WriteInv, Installing
    <3> QED
      BY <1>r, <2>1, <2>2, <3>1, <3>2, <3>3, GoesOnKeeps DEF Installing
  <2>3. CASE write.pc = "ok" /\ rpc = "script" /\ Goes("run")
    <3>1. /\ rpc' = "run" /\ UNCHANGED <<rname, at, before, raced>>
          /\ current' = current /\ Filled' = Filled
      BY <2>3 DEF Goes, current, Filled
    <3>2. ExecInv' /\ ReportInv' /\ PartInv' /\ epc' = "idle"
      BY <1>i, <1>o, <2>1, RecipeFrame DEF PartInv, FilesInv
    <3>3. WriteInv' /\ write'.pc = "none"
      BY <1>i, <2>1 DEF WriteInv, NoWrite, WritePcs
    <3>4. OwnerInv'
      BY <1>o, <3>1, <3>2, <3>3 DEF OwnerInv
    <3>5. RecipeInv' /\ ArtifactInv'
      BY <1>i, <2>1, <2>3, <3>1 DEF RecipeInv, ArtifactInv
    <3>6. TempInv'
      BY <1>i, <2>1, <3>1, TempsStay
    <3>7. PlaceInv'
      BY <1>i, <2>1, <2>3, <3>1 DEF PlaceInv, Installing
    <3> QED
      BY <3>2, <3>3, <3>4, <3>5, <3>6, <3>7 DEF JInv, DiskInv
  <2>4. CASE AddRecipe("failed")
    BY <1>r, <1>a, <2>1, <2>4, GoesOnKeeps
  <2> QED
    BY <1>7, <2>2, <2>3, <2>4 DEF Written
<1>8. CASE executeCommand
  <2>1. /\ rpc \in {"step", "run"} /\ UNCHANGED diskVars /\ at.step <= Len(Recipe[rname].steps)
        /\ current.op \in {"script", "install"}
    BY <1>i, <1>8 DEF executeCommand, Doing, RecipeInv
  <2> QED
    BY <1>8, <1>a, <1>d, <1>p, <2>1 DEF executeCommand
<1>9. CASE stepExtractArchive
  <2>1. /\ rpc = "step" /\ at.step <= Len(Recipe[rname].steps) /\ current.op = "extract"
        /\ ~Conflicts(current.entries) /\ before' = files /\ rpc' = "extract"
        /\ UNCHANGED <<files, temps, write>> /\ UNCHANGED <<rname, at, recorded, raced>>
    BY <1>9 DEF stepExtractArchive, Doing, diskVars
  <2>2. current' = current /\ Filled' = Filled
    BY <2>1 DEF current, Filled
  <2>3. ExecInv' /\ ReportInv' /\ PartInv' /\ epc' = "idle"
    BY <1>i, <1>o, <2>1, RecipeFrame DEF PartInv, FilesInv
  <2>4. WriteInv' /\ write'.pc = "none"
    BY <1>i, <1>o, <2>1 DEF WriteInv, OwnerInv, Mismatch
  <2>5. OwnerInv'
    BY <1>o, <2>1, <2>3, <2>4 DEF OwnerInv
  <2>6. RecipeInv' /\ ArtifactInv'
    BY <1>i, <2>1, <2>2 DEF RecipeInv, ArtifactInv
  <2>7. TempInv'
    BY <1>i, <2>1, TempsStay
  <2>8. PlaceInv'
    <3>1. before' = [p \in Paths |-> before'[p]]
      BY <1>i, <2>1 DEF WriteInv
    <3>2. Extracted' = {}
      <4>1. at.entry = 1 /\ \A j \in DOMAIN current.entries : j \in Nat \ {0}
        BY <1>i, <1>r, <2>1, ArchiveShape DEF RecipeInv
      <4>2. \A j \in Once(current.entries) : ~(j < at.entry)
        BY <4>1 DEF Once
      <4> QED
        BY <2>1, <2>2, <4>2 DEF Extracted
    <3>3. \A p \in Filled \ raced : files[p] = Whole(Recipe[rname].artifact) /\ files[p] # Absent
      BY <1>i, <2>1, FileValues DEF PlaceInv, Installing
    <3>4. \A i \in DOMAIN current.entries :
             current.entries[i].path \in LinkPaths \/ files[current.entries[i].path] = Absent
      <4>1. \A i \in DOMAIN current.entries : current.entries[i].path \in Paths
        BY <1>i, <1>r, <2>1, ArchiveShape DEF ArchiveEntry, Targets
      <4> QED
        BY <1>i, <2>1, <4>1, LeadsShape DEF Conflicts, PartInv
    <3>5. \A i \in Once(current.entries) : files[current.entries[i].path] = Absent
      BY <3>4 DEF Once
    <3> QED
      BY <2>1, <2>2, <3>1, <3>2, <3>3, <3>4, <3>5 DEF PlaceInv, Installing
  <2> QED
    BY <2>3, <2>4, <2>5, <2>6, <2>7, <2>8 DEF JInv, DiskInv
<1>10. CASE EndOfArchive
  <2>1. /\ rpc = "extract" /\ at.entry > Len(current.entries) /\ StepDone
        /\ UNCHANGED <<files, temps, write>> /\ at.step <= Len(Recipe[rname].steps)
    BY <1>i, <1>10 DEF EndOfArchive, diskVars, RecipeInv
  <2>2. Fills(current) = Extracted
    BY <1>i, <2>1, ExtractedAll
  <2>3. \A p \in Fills(current) \ raced : files[p] = Whole(Recipe[rname].artifact)
    BY <1>i, <2>1, <2>2 DEF PlaceInv
  <2> QED
    BY <1>r, <2>1, <2>3, GoesOnKeeps DEF Installing
<1>n. ASSUME rpc = "extract", at.entry <= Len(current.entries), entry.kind \in {"dir", "link"},
             UNCHANGED <<files, temps, write>>, NextEntry
      PROVE  JInv'
  <2>1. /\ rpc' = "extract" /\ rname' = rname /\ at'.step = at.step /\ current' = current
        /\ at' \in [step : Nat \ {0}, entry : Nat \ {0}] /\ Filled' = Filled
        /\ UNCHANGED <<before, raced>>
    BY <1>i, <1>n, ExtractedNext DEF NextEntry
  <2>2. /\ \A p \in Extracted' : p \in Extracted
        /\ \A i \in Once(current.entries) : Awaited(i)' => Awaited(i)
    <3>1. at.entry \notin Once(current.entries)
      BY <1>n DEF Once, entry
    <3> QED
      BY <1>i, <1>n, <3>1, ExtractedNext
  <2>3. ExecInv' /\ ReportInv' /\ PartInv' /\ epc' = "idle"
    BY <1>i, <1>o, <1>n, RecipeFrame DEF PartInv, FilesInv
  <2>4. WriteInv' /\ write'.pc = "none"
    BY <1>i, <1>o, <1>n DEF WriteInv, OwnerInv, Mismatch
  <2>5. OwnerInv'
    BY <1>o, <2>1, <2>3, <2>4 DEF OwnerInv
  <2>6. RecipeInv' /\ ArtifactInv'
    BY <1>i, <1>n, <2>1 DEF RecipeInv, ArtifactInv
  <2>7. TempInv'
    BY <1>i, <1>n, <2>1, TempsStay
  <2>8. PlaceInv'
    BY <1>i, <1>n, <2>1, <2>2 DEF PlaceInv, Installing
  <2> QED
    BY <2>3, <2>4, <2>5, <2>6, <2>7, <2>8 DEF JInv, DiskInv
<1>11. CASE EntryWithoutData
  <2>1. /\ rpc = "extract" /\ at.entry <= Len(current.entries) /\ entry.kind = "dir"
        /\ UNCHANGED diskVars /\ UNCHANGED <<files, temps, write>>
    BY <1>11 DEF EntryWithoutData, AtEntry, diskVars
  <2>2. CASE AddRecipe("failed")
    BY <1>a, <1>d, <2>1, <2>2
  <2> QED
    BY <1>11, <1>n, <2>1, <2>2 DEF EntryWithoutData
<1>v. rpc \in Extracting => Recipe[rname].served = Recipe[rname].artifact
  BY <1>i, ServedIsArtifact DEF Installing
<1>12. CASE MakeLink
  <2>1. /\ rpc = "extract" /\ at.entry <= Len(current.entries) /\ entry.kind = "link"
        /\ UNCHANGED <<temps, write>>
    BY <1>12 DEF MakeLink, AtEntry
  <2>2. CASE AddRecipe("failed") /\ UNCHANGED files
    BY <1>a, <1>d, <2>1, <2>2 DEF diskVars
  <2>3. CASE NextEntry /\ UNCHANGED files
    BY <1>n, <2>1, <2>3
  <2>4. CASE files' = [files EXCEPT ![entry.path] = LinkTo(entry.to)] /\ NextEntry
    <3>1. entry.path \in Paths /\ entry.path \in LinkPaths /\ entry.to \in LinkPaths
      BY <1>i, <2>1, EntryIsInPlace
    <3>2. at.entry \notin Once(current.entries)
      BY <2>1 DEF Once, entry
    <3>3. LinkTo(entry.to)[1] = "link" /\ LinkTo(entry.to)[2] = entry.to
      BY FileValues
    <3> QED
      BY <2>1, <2>4, <3>1, <3>2, <3>3, EntryKeeps
  <2> QED
    BY <1>12, <2>2, <2>3, <2>4 DEF MakeLink
<1>16. CASE MakeEntry
  <2>1. /\ rpc = "extract" /\ at.entry <= Len(current.entries) /\ entry.kind = "node"
        /\ UNCHANGED <<temps, write>>
    BY <1>16 DEF MakeEntry, AtEntry
  <2>2. CASE AddRecipe("failed") /\ UNCHANGED files
    BY <1>a, <1>d, <2>1, <2>2 DEF diskVars
  <2>3. CASE /\ files' = [files EXCEPT ![entry.path] = Whole(Recipe[rname].served)]
             /\ NextEntry \/ AddRecipe("failed")
    <3>1. entry.path \in Paths
      BY <1>i, <2>1, EntryIsInPlace
    <3> QED
      BY <1>a, <1>v, <2>1, <2>3, <3>1, EntryKeeps, FileValues
  <2> QED
    BY <1>16, <2>2, <2>3 DEF MakeEntry
<1>l. ASSUME rpc \in Extracting, at.entry <= Len(current.entries), entry.kind = "file"
      PROVE  /\ Leads(entry.path) \in Paths /\ Leads(entry.path) \in EntryPaths
             /\ \/ Leads(entry.path) = entry.path
                \/ entry.path \in LinkPaths /\ Leads(entry.path) \in LinkPaths
             /\ entry.path \notin LinkPaths => At(entry.path) = files[entry.path]
  <2>1. entry.path \in Paths /\ entry.path \in EntryPaths
    BY <1>i, <1>l, EntryIsInPlace
  <2> QED
    BY <1>i, <2>1, LeadsShape, LinkShape DEF PartInv
<1>13. CASE OpenEntry
  <2>1. /\ rpc = "extract" /\ at.entry <= Len(current.entries) /\ entry.kind = "file"
        /\ UNCHANGED <<temps, write>>
    BY <1>13 DEF OpenEntry, AtEntry
  <2>2. CASE AddRecipe("failed") /\ UNCHANGED files
    BY <1>a, <1>d, <2>1, <2>2 DEF diskVars
  <2>3. CASE /\ files' = [files EXCEPT ![Leads(entry.path)] = Part(Recipe[rname].served)]
             /\ Goes(IF At(entry.path) = Absent THEN "entry" ELSE "entryOld")
    <3>1. At(entry.path) = Absent \/ at.entry \notin Once(current.entries) \/ entry.path \in raced
      <4> SUFFICES ASSUME at.entry \in Once(current.entries), entry.path \notin raced
                   PROVE  At(entry.path) = Absent
        OBVIOUS
      <4>1. Awaited(at.entry) /\ entry.path \notin LinkPaths
        BY <2>1 DEF Awaited, Once, entry
      <4> QED
        BY <1>i, <1>l, <2>1, <4>1 DEF PlaceInv, entry
    <3>2. Part(Recipe[rname].served)[1] = "part"
      BY FileValues
    <3>3. \/ Goes("entry")
          \/ Goes("entryOld") /\ (at.entry \notin Once(current.entries) \/ entry.path \in raced)
      BY <2>3, <3>1
    <3> QED
      BY <1>l, <2>1, <2>3, <3>2, <3>3, EntryKeeps
  <2> QED
    BY <1>13, <2>2, <2>3 DEF OpenEntry
<1>14. CASE CopyEntry
  <2>1. /\ rpc \in {"entry", "entryOld"} /\ at.entry <= Len(current.entries) /\ entry.kind = "file"
        /\ UNCHANGED <<temps, write>>
    BY <1>i, <1>14 DEF CopyEntry, RecipeInv
  <2>2. CASE AddRecipe("failed") /\ UNCHANGED files
    BY <1>a, <1>d, <2>1, <2>2 DEF diskVars
  <2>3. ASSUME NEW copied,
               copied = Whole(Recipe[rname].served) \/ (rpc = "entryOld" /\ copied = Part(Recipe[rname].served)),
               files' = [files EXCEPT ![Leads(entry.path)] = copied],
               NextEntry \/ AddRecipe("failed")
        PROVE  JInv'
    <3>1. copied[1] # "link"
      BY <2>3, FileValues
    <3>2. at.entry \in Once(current.entries) /\ entry.path \notin raced
             => copied = Whole(Recipe[rname].artifact)
      BY <1>i, <1>v, <2>1, <2>3 DEF PlaceInv
    <3> QED
      BY <1>a, <1>l, <2>1, <2>3, <3>1, <3>2, EntryKeeps
  <2> QED
    BY <1>14, <2>2, <2>3 DEF CopyEntry
<1>15. CASE Cleanup
  <2>1. /\ files' = [p \in Paths |-> IF p \in RunDir THEN Absent ELSE files[p]]
        /\ rpc' = "idle" /\ at' = [step |-> 1, entry |-> 1] /\ rpc = "cleanup"
        /\ before' = [p \in Paths |-> Absent] /\ UNCHANGED write
    BY <1>15 DEF Cleanup
  <2>2. ExecInv' /\ ReportInv' /\ PartInv' /\ epc' = "idle"
    BY <1>i, <1>o, <2>1, RecipeFrame, FileValues DEF PartInv, FilesInv
  <2>3. WriteInv' /\ write'.pc = "none"
    BY <1>i, <1>o, <2>1 DEF WriteInv, OwnerInv, Mismatch
  <2>4. OwnerInv'
    BY <1>o, <2>1, <2>2, <2>3 DEF OwnerInv
  <2>5. RecipeInv' /\ ArtifactInv' /\ PlaceInv'
    BY <2>1 DEF RecipeInv, ArtifactInv, PlaceInv, Installing
  <2>6. TempInv'
    <3>1. \A t \in temps : t = [path |-> t.path, kind |-> t.kind, why |-> t.why] /\ t.why # "open"
                           /\ (t.why = "failed" => t.kind = "stream")
      BY <1>i DEF TempInv, Writing
    <3>2. CASE temps' = {t \in temps : t.path \notin RunDir}
      BY <3>1, <3>2 DEF TempInv
    <3>3. CASE temps' = {IF t.path \in RunDir THEN [t EXCEPT !.why = "kept"] ELSE t : t \in temps}
      <4> SUFFICES ASSUME NEW t \in temps'
                   PROVE  /\ t = [path |-> t.path, kind |-> t.kind, why |-> t.why]
                          /\ t.why # "open"
                          /\ t.why = "failed" => t.kind = "stream" /\ t.path \notin RunDir
        BY DEF TempInv
      <4>1. PICK k \in temps : t = IF k.path \in RunDir THEN [k EXCEPT !.why = "kept"] ELSE k
        BY <3>3
      <4>2. k = [path |-> k.path, kind |-> k.kind, why |-> k.why] /\ k.why # "open"
            /\ (k.why = "failed" => k.kind = "stream")
        BY <3>1
      <4>3. CASE k.path \in RunDir
        BY <4>1, <4>2, <4>3
      <4>4. CASE k.path \notin RunDir
        BY <4>1, <4>2, <4>4
      <4> QED
        BY <4>3, <4>4
    <3> QED
      BY <1>15, <3>2, <3>3 DEF Cleanup
  <2> QED
    BY <2>2, <2>3, <2>4, <2>5, <2>6 DEF JInv, DiskInv
<1> QED
  BY <1>1, <1>2, <1>3, <1>4, <1>5, <1>6, <1>7, <1>8, <1>9, <1>10, <1>11, <1>12, <1>13, <1>14, <1>15,
     <1>16 DEF RecipeNext

(***************************************************************************)
(* A crash ends the job under way and leaves the disk as it is.            *)
(***************************************************************************)
LEMMA CrashKeeps == ASSUME JInv, Crash PROVE JInv'
<1>i. /\ WriteInv /\ OwnerInv /\ ExecInv /\ RecipeInv /\ PartInv /\ ArtifactInv /\ TempInv
      /\ ReportInv /\ PlaceInv
  BY DEF JInv, DiskInv
<1>1. /\ files' = files /\ write' = NoWrite /\ temps' = {[t EXCEPT !.why = "crash"] : t \in temps}
  BY DEF Crash, DiskCrash
<1>2. WriteInv' /\ write'.pc = "none"
  BY <1>i, <1>1 DEF WriteInv, NoWrite, WritePcs
<1>3. TempInv'
  <2> SUFFICES ASSUME NEW t \in temps'
               PROVE  t = [path |-> t.path, kind |-> t.kind, why |-> t.why] /\ t.why = "crash"
    BY DEF TempInv
  <2>1. PICK k \in temps : t = [k EXCEPT !.why = "crash"]
    BY <1>1
  <2>2. k = [path |-> k.path, kind |-> k.kind, why |-> k.why]
    BY <1>i DEF TempInv
  <2> QED
    BY <2>1, <2>2
<1>4. CASE ExecCrash /\ UNCHANGED <<recipeVars, inventoryVars>>
  <2>1. epc # "idle" /\ Ends /\ UNCHANGED <<final, runs, latest, rpc, rname, at, before, raced, ipc>>
    BY <1>4 DEF ExecCrash, recipeVars, inventoryVars
  <2>2. rpc = "idle" /\ ipc = "idle"
    BY <1>i, <2>1 DEF OwnerInv
  <2>3. ReportInv' /\ epc' = "idle"
    BY <1>i, <2>1, EndsKeeps
  <2>4. OwnerInv' /\ ExecInv' /\ RecipeInv' /\ ArtifactInv' /\ PartInv' /\ PlaceInv'
    <3>1. OwnerInv' /\ ExecInv' /\ ArtifactInv'
      BY <1>2, <2>1, <2>2, <2>3 DEF OwnerInv, ExecInv, ArtifactInv
    <3>2. RecipeInv' /\ PlaceInv'
      BY <1>i, <2>1, <2>2 DEF RecipeInv, PlaceInv, Installing
    <3>3. PartInv'
      BY <1>i, <1>1, <2>1 DEF PartInv, FilesInv
    <3> QED
      BY <3>1, <3>2, <3>3
  <2> QED
    BY <1>2, <1>3, <2>3, <2>4 DEF JInv, DiskInv
<1>5. CASE RecipeCrash /\ UNCHANGED <<execVars, inventoryVars>>
  <2>1. /\ rpc # "idle" /\ rpc' = "idle" /\ at' = [step |-> 1, entry |-> 1]
        /\ before' = [p \in Paths |-> Absent] /\ ipc' = ipc
    BY <1>5 DEF RecipeCrash, inventoryVars
  <2>2. epc = "idle" /\ ipc = "idle"
    BY <1>i, <2>1 DEF OwnerInv
  <2>3. ExecInv' /\ ReportInv' /\ PartInv' /\ epc' = "idle"
    BY <1>i, <1>1, <1>5, <2>2, RecipeFrame DEF PartInv, FilesInv
  <2>4. OwnerInv' /\ RecipeInv' /\ ArtifactInv' /\ PlaceInv'
    BY <1>2, <2>1, <2>2, <2>3 DEF OwnerInv, RecipeInv, ArtifactInv, PlaceInv, Installing
  <2> QED
    BY <1>2, <1>3, <2>3, <2>4 DEF JInv, DiskInv
<1>6. CASE InventoryCrash /\ UNCHANGED <<execVars, recipeVars>>
  <2>1. ipc # "idle" /\ UNCHANGED <<rpc, rname, at, before, raced>>
    BY <1>6 DEF InventoryCrash, recipeVars
  <2>2. epc = "idle" /\ rpc = "idle"
    BY <1>i, <2>1 DEF OwnerInv
  <2>3. ExecInv' /\ ReportInv' /\ PartInv' /\ epc' = "idle"
    BY <1>i, <1>1, <1>6, <2>2, RecipeFrame DEF PartInv, FilesInv
  <2>4. OwnerInv' /\ RecipeInv' /\ ArtifactInv' /\ PlaceInv'
    BY <1>i, <1>2, <2>1, <2>2, <2>3 DEF OwnerInv, RecipeInv, ArtifactInv, PlaceInv, Installing
  <2> QED
    BY <1>2, <1>3, <2>3, <2>4 DEF JInv, DiskInv
<1> QED
  BY <1>4, <1>5, <1>6 DEF Crash

(***************************************************************************)
(* A file that the user creates was not there, so no step relies on it.    *)
(***************************************************************************)
LEMMA UserKeeps ==
    ASSUME JInv, epc = "idle", UserCreates, UNCHANGED <<execVars, ipc>>
    PROVE  JInv'
<1>i. /\ WriteInv /\ OwnerInv /\ ExecInv /\ RecipeInv /\ PartInv /\ ArtifactInv /\ TempInv
      /\ ReportInv /\ PlaceInv
  BY DEF JInv, DiskInv
<1>1. PICK u \in UserPaths :
          /\ files[u] = Absent
          /\ files' = [files EXCEPT ![u] = Whole(UserData)]
          /\ raced' = IF rpc = "idle" THEN raced ELSE raced \cup {u}
  BY DEF UserCreates
<1>2. /\ UNCHANGED <<temps, write, rpc, rname, at, recorded, before>>
      /\ current' = current /\ entry' = entry /\ Filled' = Filled /\ Extracted' = Extracted
  BY DEF UserCreates, current, entry, Filled, Extracted
<1>3. u \in Targets /\ u \in Paths
  BY RecipeAssumption DEF Targets
<1>4. /\ files' = [p \in Paths |-> files'[p]]
      /\ \A p \in Paths : files'[p] = IF p = u THEN Whole(UserData) ELSE files[p]
  BY <1>i, <1>1, <1>3 DEF WriteInv
<1>5. ExecInv' /\ ReportInv' /\ PartInv' /\ epc' = "idle"
  BY <1>i, <1>4, RecipeFrame, FileValues DEF PartInv, FilesInv
<1>6. WriteInv'
  <2>1. write.pc = "ok" => files'[write.path] = Whole(write.data)
    BY <1>i, <1>1, <1>4, FileValues DEF WriteInv
  <2> QED
    BY <1>i, <1>2, <1>4, <2>1 DEF WriteInv, Mismatch
<1>7. OwnerInv'
  BY <1>i, <1>2, <1>5 DEF OwnerInv, Writes
<1>8. RecipeInv' /\ TempInv'
  BY <1>i, <1>2 DEF RecipeInv, TempInv, Temp
<1>9. ArtifactInv'
  <2>1. Artifact \in Paths /\ Artifact # u
    BY <1>3, RecipeAssumption DEF RunDir, Targets
  <2> QED
    BY <1>i, <1>2, <1>4, <2>1 DEF ArtifactInv
<1>10. PlaceInv'
  <2>1. CASE rpc = "idle"
    BY <1>i, <1>2, <2>1 DEF PlaceInv, Installing
  <2>2. CASE rpc # "idle"
    <3>1. Filled \subseteq Paths
      BY <1>i, <2>2, RecipeShape DEF Targets
    <3>2. rpc \in Extracting => Extracted \subseteq Paths
      <4> SUFFICES ASSUME rpc \in Extracting PROVE Extracted \subseteq Paths
        OBVIOUS
      <4>1. \A j \in DOMAIN current.entries : current.entries[j].path \in Paths
        BY <1>i, ArchiveShape DEF RecipeInv, ArchiveEntry, Targets
      <4> QED
        BY <4>1 DEF Extracted, Once
    <3>3. \A p \in Paths : p \notin raced' => p \notin raced /\ files'[p] = files[p]
      BY <1>1, <1>4, <2>2
    <3>4. \A p \in Paths : before[p] # Absent /\ files[p] = before[p] => files'[p] = before[p]
      BY <1>1, <1>4
    <3>5. ASSUME rpc \in Extracting, NEW i \in Once(current.entries), Awaited(i)'
          PROVE  current.entries[i].path \in raced' \/ files'[current.entries[i].path] = Absent
      <4>1. Awaited(i) /\ i \in DOMAIN current.entries
        BY <1>2, <3>5 DEF Awaited, Once
      <4>2. current.entries[i].path \in Paths
        BY <1>i, <3>5, <4>1, ArchiveShape DEF RecipeInv, ArchiveEntry, Targets
      <4> QED
        BY <1>i, <1>1, <1>4, <2>2, <3>5, <4>1, <4>2 DEF PlaceInv
    <3>6. raced \subseteq raced'
      BY <1>1
    <3> QED
      BY <1>i, <1>2, <3>1, <3>2, <3>3, <3>4, <3>5, <3>6 DEF PlaceInv
  <2> QED
    BY <2>1, <2>2
<1> QED
  BY <1>5, <1>6, <1>7, <1>8, <1>9, <1>10 DEF JInv, DiskInv

(***************************************************************************)
(* A step that leaves the disk, the exec tasks and the recipes alone.      *)
(***************************************************************************)
LEMMA ElseKeeps ==
    ASSUME JInv, UNCHANGED <<diskVars, execVars, recipeVars>>,
           ipc' # "idle" => ipc # "idle" \/ NoJob
    PROVE  JInv'
<1>i. /\ WriteInv /\ OwnerInv /\ ExecInv /\ RecipeInv /\ PartInv /\ ArtifactInv /\ TempInv
      /\ ReportInv /\ PlaceInv
  BY DEF JInv, DiskInv
<1>u. /\ UNCHANGED <<epc, etask, out, final, runs, latest, excused>>
      /\ UNCHANGED <<rpc, rname, at, recorded, before, raced>> /\ UNCHANGED <<files, temps, write>>
      /\ step' = step /\ current' = current /\ entry' = entry
      /\ Filled' = Filled /\ Extracted' = Extracted
  BY DEF execVars, serviceVars, recipeVars, diskVars, step, current, entry, Filled, Extracted
<1>1. WriteInv' /\ ExecInv' /\ RecipeInv' /\ PartInv'
  BY <1>i, <1>u DEF WriteInv, ExecInv, RecipeInv, PartInv, FilesInv, Mismatch
<1>2. OwnerInv'
  BY <1>i, <1>u DEF OwnerInv, Writes, NoJob
<1>3. ArtifactInv' /\ TempInv'
  BY <1>i, <1>u DEF ArtifactInv, TempInv, Temp
<1>4. ReportInv'
  BY <1>i, <1>u DEF ReportInv, Truthful, Over
<1>5. PlaceInv'
  BY <1>i, <1>u DEF PlaceInv, Installing, Awaited
<1> QED
  BY <1>1, <1>2, <1>3, <1>4, <1>5 DEF JInv, DiskInv

(***************************************************************************)
(* JInv is inductive.                                                      *)
(***************************************************************************)
LEMMA JInvStep == JInv /\ [Next]_vars => JInv'
<1> SUFFICES ASSUME JInv, [Next]_vars PROVE JInv'
  OBVIOUS
<1>v. UNCHANGED inventoryVars => ipc' = ipc
  BY DEF inventoryVars
<1>1. CASE StartJob
  <2>1. CASE RunExecStep /\ UNCHANGED <<recipeVars, inventoryVars>>
    BY <1>1, <1>v, <2>1, ExecKeeps DEF StartJob
  <2>2. CASE InstallRecipe /\ UNCHANGED <<execVars, inventoryVars>>
    BY <1>1, <1>v, <2>2, InstallKeeps DEF StartJob
  <2>3. CASE ReportInventory /\ UNCHANGED <<diskVars, execVars, recipeVars>>
    BY <1>1, <2>3, ElseKeeps DEF StartJob
  <2> QED
    BY <1>1, <2>1, <2>2, <2>3 DEF StartJob
<1>2. CASE JobStep
  <2>1. CASE WriteStep /\ UNCHANGED <<execVars, recipeVars, inventoryVars>>
    BY <1>v, <2>1, WriteKeeps
  <2>2. CASE ~Writing /\ ExecNext /\ UNCHANGED <<recipeVars, inventoryVars>>
    BY <1>v, <2>2, ExecKeeps
  <2>3. CASE ~Writing /\ RecipeNext /\ UNCHANGED <<execVars, inventoryVars>>
    BY <1>v, <2>3, RecipeKeeps
  <2>4. CASE InventoryNext /\ UNCHANGED <<diskVars, execVars, recipeVars>>
    <3>1. ipc # "idle"
      BY <2>4 DEF InventoryNext, GetUpdates, reportChecksum, reportFull, ReportError, ReportDone
    <3> QED
      BY <2>4, <3>1, ElseKeeps
  <2> QED
    BY <1>2, <2>1, <2>2, <2>3, <2>4 DEF JobStep
<1>3. CASE Crash
  BY <1>3, CrashKeeps
<1>4. CASE World
  <2>1. CASE epc = "idle" /\ UserCreates /\ UNCHANGED <<execVars, inventoryVars>>
    BY <1>v, <2>1, UserKeeps
  <2>2. CASE (MachineChanges \/ ServiceSwitches) /\ UNCHANGED <<diskVars, execVars, recipeVars>>
    BY <2>2, ElseKeeps DEF MachineChanges, ServiceSwitches
  <2> QED
    BY <1>4, <2>1, <2>2 DEF World
<1>5. CASE UNCHANGED vars
  BY <1>5, ElseKeeps DEF vars, inventoryVars
<1> QED
  BY <1>1, <1>2, <1>3, <1>4, <1>5 DEF Next

-----------------------------------------------------------------------------
(***************************************************************************)
(* For any exec tasks and recipes, wherever the process is killed: only    *)
(* the files of archives are ever half written, and temporary files are    *)
(* left only where DiskIsSound says.                                       *)
(***************************************************************************)
THEOREM DiskStaysSound == Spec => []DiskIsSound
<1>1. JInv => DiskIsSound
  BY DEF JInv, DiskInv, PartInv, FilesInv, ArtifactInv, TempInv, DiskIsSound, Writing, Temp
<1> QED
  BY <1>1, InitJInv, JInvStep, PTL DEF Spec

(***************************************************************************)
(* For any exec tasks: what the service is told of a script is what the    *)
(* script did, and no delivery runs it twice.                              *)
(***************************************************************************)
THEOREM ExecReportsTruth == Spec => []ExecReportTrue
<1>1. JInv => ExecReportTrue
  BY DEF JInv, ReportInv, Truthful, ExecReportTrue
<1> QED
  BY <1>1, InitJInv, JInvStep, PTL DEF Spec

(***************************************************************************)
(* For any recipes: a recipe whose steps are all done has put every file   *)
(* of its copies and archives in place, and has touched nothing that it    *)
(* found there without leave, but for what a link leads to and for a name  *)
(* that comes twice in an archive.                                         *)
(***************************************************************************)
THEOREM InstalledStaysWhole == Spec => []InstalledIsWhole
<1>1. JInv => InstalledIsWhole
  <2> SUFFICES ASSUME JInv PROVE InstalledIsWhole
    OBVIOUS
  <2>i. RecipeInv /\ PlaceInv
    BY DEF JInv, DiskInv
  <2>1. rpc \in {"extract", "entry", "entryOld"} \/ (rpc = "copy" /\ ~current.overwrite)
          => \A p \in Paths \ LinkPaths : before[p] # Absent => files[p] = before[p]
    BY <2>i DEF PlaceInv
  <2>2. ASSUME rpc = "step", at.step > Len(Recipe[rname].steps), NEW i \in DOMAIN Recipe[rname].steps
        PROVE  \A p \in Fills(Recipe[rname].steps[i]) \ raced : files[p] = Whole(Recipe[rname].artifact)
    <3>1. i < at.step
      BY <2>i, <2>2, RecipeShape
    <3>2. Fills(Recipe[rname].steps[i]) \subseteq Filled
      BY <3>1 DEF Filled
    <3> QED
      BY <2>i, <2>2, <3>2 DEF PlaceInv, Installing
  <2> QED
    BY <2>1, <2>2 DEF InstalledIsWhole
<1> QED
  BY <1>1, InitJInv, JInvStep, PTL DEF Spec
=============================================================================
