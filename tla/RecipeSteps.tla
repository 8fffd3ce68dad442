---------------------------- MODULE RecipeSteps ----------------------------
(***************************************************************************)
(* The steps of a software recipe and what they do to the disk: artifacts  *)
(* are fetched into a fresh run directory, files copied, archives checked  *)
(* for conflicts and extracted in place, scripts written and run, packages *)
(* installed. A recipe that is not recorded is installed again by the next *)
(* run of the policies.                                                    *)
(***************************************************************************)
EXTENDS AtomicFile, Sequences

CONSTANTS
    UserPaths, \* where the user may write
    UserData,  \* what the user writes
    Recipe     \* Recipe[r]: [artifact, served, sum, steps]

\* Paths inside the run directory, which is new for every run.
Artifact == "artifact"
Script == "recipe_script_source"
RunDir == {Artifact, Script}

\* The steps of a recipe. What they write to is chosen before the run directory
\* gets its name. A link leads to another path; a link to a directory stands for
\* one link at each path below it.
Targets == Paths \ RunDir
ArchiveEntry ==
    [kind : {"dir", "file", "link", "node", "outside"}, path : Targets, to : Targets]
Steps ==
    [op : {"copy"}, path : Targets, overwrite : BOOLEAN]
    \cup [op : {"extract"}, entries : Seq(ArchiveEntry)]
    \cup [op : {"script"}, script : Data]
    \cup [op : {"install", "unknown"}]

\* The links of all archives, and the paths they are at or lead to.
Links ==
    {e \in ArchiveEntry : /\ e.kind = "link"
                          /\ \E r \in DOMAIN Recipe : \E i \in DOMAIN Recipe[r].steps :
                                /\ Recipe[r].steps[i].op = "extract"
                                /\ \E j \in DOMAIN Recipe[r].steps[i].entries :
                                      e = Recipe[r].steps[i].entries[j]}
LinkPaths == {e.path : e \in Links} \cup {e.to : e \in Links}

\* A checksum is that of the artifact; without one, what is served is trusted.
ASSUME RecipeAssumption ==
    /\ RunDir \subseteq Paths /\ UserPaths \subseteq Targets /\ UserData \in Data
    /\ \A r \in DOMAIN Recipe :
          /\ Recipe[r].steps \in Seq(Steps)
          /\ Recipe[r].sum \in {NoSum, Recipe[r].artifact}
          /\ Recipe[r].sum = NoSum => Recipe[r].served = Recipe[r].artifact
    /\ \A e, f \in Links : e.to # f.path

VARIABLES
    rpc,        \* where the installation is
    rname,      \* the recipe
    at,         \* the step, and in an archive the entry
    recorded,   \* recorded[r]: what the recipe database says of r
    before,     \* history: the files when a step looked what is there
    raced       \* history: paths the user created during the installation

recipeVars == <<rpc, rname, at, recorded, before, raced>>
Recipes == DOMAIN Recipe
NoRecipe == "norecipe"

RecipeInit ==
    /\ rpc = "idle" /\ rname = NoRecipe /\ at = [step |-> 1, entry |-> 1]
    /\ recorded = [r \in Recipes |-> "none"]
    /\ before = [p \in Paths |-> Absent] /\ raced = {}

current == Recipe[rname].steps[at.step]
entry == current.entries[at.entry]
Goes(to) == rpc' = to /\ UNCHANGED <<rname, at, recorded, before, raced>>

\* The run directory is made and the artifact fetched into it, or neither.
InstallRecipe ==
    /\ rpc = "idle"
    /\ \E r \in Recipes :
          /\ recorded[r] = "none"
          /\ rname' = r
          /\ write' = NewWrite("stream", Artifact, Recipe[r].served, Recipe[r].sum)
    /\ rpc' = "fetch" /\ at' = [step |-> 1, entry |-> 1]
    /\ files' = [p \in Paths |-> IF p \in RunDir THEN Absent ELSE files[p]]
    /\ UNCHANGED <<temps, recorded, before, raced>>

fetchArtifact ==
    /\ rpc = "fetch"
    /\ \/ write.pc = "ok" /\ Goes("step")
       \/ write.pc = "err" /\ Goes("cleanup")     \* nothing is recorded
    /\ write' = NoWrite
    /\ UNCHANGED <<files, temps>>

\* addRecipe writes the database, or cannot.
AddRecipe(success) ==
    /\ recorded' \in {recorded, [recorded EXCEPT ![rname] = success]}
    /\ rpc' = "cleanup"
    /\ UNCHANGED <<rname, at, before, raced>>

StepDone ==
    /\ at' = [step |-> at.step + 1, entry |-> 1]
    /\ rpc' = "step"
    /\ UNCHANGED <<rname, recorded, before, raced>>

\* The step directory cannot be made: the error is not recorded.
StepDirError ==
    /\ rpc = "step" /\ at.step <= Len(Recipe[rname].steps)
    /\ Goes("cleanup")
    /\ UNCHANGED diskVars

AllStepsDone ==
    /\ rpc = "step" /\ at.step > Len(Recipe[rname].steps)
    /\ AddRecipe("ok")
    /\ UNCHANGED diskVars

Doing(op) ==
    /\ rpc = "step" /\ at.step <= Len(Recipe[rname].steps)
    /\ current.op = op

\* A step of any kind may fail before it has changed anything: no such artifact,
\* permissions or archive that cannot be read, an interpreter that does not fit.
StepError ==
    /\ rpc = "step" /\ at.step <= Len(Recipe[rname].steps)
    /\ current.op # "unknown"
    /\ AddRecipe("failed")
    /\ UNCHANGED diskVars

\* A step of no known type leaves err nil: the loop goes on to the next one.
UnknownStep ==
    /\ Doing("unknown")
    /\ StepDone
    /\ UNCHANGED diskVars

-----------------------------------------------------------------------------
(* stepCopyFile and stepRunScript *)

stepCopyFile ==
    /\ Doing("copy")
    /\ At(current.path) = Absent \/ current.overwrite
    /\ write' = NewWrite("stream", current.path, Recipe[rname].served, NoSum)
    /\ before' = files
    /\ rpc' = "copy"
    /\ UNCHANGED <<files, temps, rname, at, recorded, raced>>

stepRunScript ==
    /\ Doing("script")
    /\ write' = NewWrite("bytes", Script, current.script, NoSum)
    /\ Goes("script")
    /\ UNCHANGED <<files, temps>>

Written ==
    /\ rpc \in {"copy", "script"}
    /\ \/ write.pc = "ok" /\ rpc = "copy" /\ StepDone
       \/ write.pc = "ok" /\ rpc = "script" /\ Goes("run")
       \/ write.pc = "err" /\ AddRecipe("failed")
    /\ write' = NoWrite
    /\ UNCHANGED <<files, temps>>

\* executeCommand and the package installers: an exit code that is allowed, or not.
executeCommand ==
    /\ rpc = "run" \/ Doing("install")
    /\ StepDone \/ AddRecipe("failed")
    /\ UNCHANGED diskVars

-----------------------------------------------------------------------------
(* stepExtractArchive: extractZip and extractTar *)

\* Variant of Conflicts that stops at the first entry that is not there.
ConflictsFirst(entries) ==
    At(entries[1].path) # Absent

\* checkForConflicts, before anything is extracted; os.Stat follows links. A
\* directory may be there already, and is not among the files.
Conflicts(entries) ==
    \E i \in DOMAIN entries :
        entries[i].kind = "outside" \/ At(entries[i].path) # Absent

stepExtractArchive ==
    /\ Doing("extract")
    /\ ~Conflicts(current.entries)
    /\ before' = files
    /\ rpc' = "extract"
    /\ UNCHANGED <<diskVars, rname, at, recorded, raced>>

NextEntry ==
    /\ at' = [at EXCEPT !.entry = @ + 1]
    /\ rpc' = "extract"
    /\ UNCHANGED <<rname, recorded, before, raced>>

EndOfArchive ==
    /\ rpc = "extract" /\ at.entry > Len(current.entries)
    /\ StepDone
    /\ UNCHANGED diskVars

AtEntry(kinds) ==
    /\ rpc = "extract" /\ at.entry <= Len(current.entries)
    /\ entry.kind \in kinds

\* A directory is made, or is there already.
EntryWithoutData ==
    /\ AtEntry({"dir"})
    /\ NextEntry \/ AddRecipe("failed")
    /\ UNCHANGED diskVars

\* A link is left out unless what it names, seen from the working directory, is
\* there and in the destination. It does not replace a file or a link.
MakeLink ==
    /\ AtEntry({"link"})
    /\ \/ /\ files[entry.path] = Absent
          /\ files' = [files EXCEPT ![entry.path] = LinkTo(entry.to)]
          /\ NextEntry
       \/ NextEntry /\ UNCHANGED files
       \/ AddRecipe("failed") /\ UNCHANGED files
    /\ UNCHANGED <<temps, write>>

\* Devices and pipes are made by one call, which does not replace a
\* file. An error of the calls that set owner and times comes after it.
MakeEntry ==
    /\ AtEntry({"node"})
    /\ \/ /\ files[entry.path] = Absent
          /\ files' = [files EXCEPT ![entry.path] = Whole(Recipe[rname].served)]
          /\ NextEntry \/ AddRecipe("failed")
       \/ AddRecipe("failed") /\ UNCHANGED files
    /\ UNCHANGED <<temps, write>>

\* OpenFile with O_CREATE, without O_EXCL or O_TRUNC, and the first bytes of the
\* copy: a file may be there by now, put there by an earlier entry of this name or
\* by the user, or at the end of a link.
OpenEntry ==
    /\ AtEntry({"file"})
    /\ \/ /\ files' = [files EXCEPT ![Leads(entry.path)] = Part(Recipe[rname].served)]
          /\ Goes(IF At(entry.path) = Absent THEN "entry" ELSE "entryOld")
       \/ AddRecipe("failed") /\ UNCHANGED files
    /\ UNCHANGED <<temps, write>>

\* The rest of the copy; what was there before, if it was longer, keeps its end.
\* An error, of the copy or of the calls that set owner and times, leaves the file
\* as it is.
CopyEntry ==
    /\ rpc \in {"entry", "entryOld"}
    /\ \/ /\ \E copied \in {Whole(Recipe[rname].served)} \cup
                 (IF rpc = "entryOld" THEN {Part(Recipe[rname].served)} ELSE {}) :
                files' = [files EXCEPT ![Leads(entry.path)] = copied]
          /\ NextEntry \/ AddRecipe("failed")
       \/ AddRecipe("failed") /\ UNCHANGED files
    /\ UNCHANGED <<temps, write>>

\* os.RemoveAll of the run directory, deferred; its error is only logged. No
\* later run looks into this directory again.
Cleanup ==
    /\ rpc = "cleanup"
    /\ files' = [p \in Paths |-> IF p \in RunDir THEN Absent ELSE files[p]]
    /\ \/ temps' = {t \in temps : t.path \notin RunDir}
       \/ temps' = {IF t.path \in RunDir THEN [t EXCEPT !.why = "kept"] ELSE t : t \in temps}
    /\ rpc' = "idle" /\ rname' = NoRecipe /\ at' = [step |-> 1, entry |-> 1]
    /\ before' = [p \in Paths |-> Absent] /\ raced' = {}
    /\ UNCHANGED <<write, recorded>>

RecipeNext ==
    \/ fetchArtifact \/ StepDirError \/ AllStepsDone \/ StepError \/ UnknownStep
    \/ stepCopyFile \/ stepRunScript \/ Written \/ executeCommand
    \/ stepExtractArchive \/ EndOfArchive \/ EntryWithoutData \/ MakeLink
    \/ MakeEntry \/ OpenEntry \/ CopyEntry \/ Cleanup

RecipeCrash ==
    /\ rpc # "idle"
    /\ rpc' = "idle" /\ rname' = NoRecipe /\ at' = [step |-> 1, entry |-> 1]
    /\ before' = [p \in Paths |-> Absent] /\ raced' = {}
    /\ UNCHANGED recorded

\* A file that was not there may come to be at any time.
UserCreates ==
    /\ \E p \in UserPaths :
          /\ files[p] = Absent
          /\ files' = [files EXCEPT ![p] = Whole(UserData)]
          /\ raced' = IF rpc = "idle" THEN raced ELSE raced \cup {p}
    /\ UNCHANGED <<temps, write, rpc, rname, at, recorded, before>>

-----------------------------------------------------------------------------
\* The files, devices and pipes of an archive that have a name of their own.
Once(entries) ==
    {i \in DOMAIN entries :
        /\ entries[i].kind \in {"file", "node"}
        /\ entries[i].path \notin LinkPaths
        /\ \A j \in DOMAIN entries \ {i} : entries[j].path # entries[i].path}

\* The paths that a step of a recipe is to fill.
Fills(s) ==
    CASE s.op = "copy"    -> {s.path} \ LinkPaths
      [] s.op = "extract" -> {s.entries[i].path : i \in Once(s.entries)}
      [] OTHER            -> {}

(***************************************************************************)
(* A copy that may not overwrite, and an extraction, leave every file that *)
(* was there when they looked as it was. When all steps of a recipe are    *)
(* done, so that it is recorded as installed and never looked at again,    *)
(* every file of its copies and archives is there and whole, and is the    *)
(* artifact that was asked for, whatever earlier runs of the recipe were   *)
(* killed or failed half way. This is all about paths that no link of an   *)
(* archive is at or leads to, since an entry is written through a link to  *)
(* what was there, and about names that an archive has once, since the     *)
(* second file of a name may leave the end of the first: in neither case   *)
(* does the extraction see a conflict.                                     *)
(***************************************************************************)
InstalledIsWhole ==
    /\ rpc \in {"extract", "entry", "entryOld"} \/ (rpc = "copy" /\ ~current.overwrite)
          => \A p \in Paths \ LinkPaths : before[p] # Absent => files[p] = before[p]
    /\ rpc = "step" /\ at.step > Len(Recipe[rname].steps)
          => \A i \in DOMAIN Recipe[rname].steps :
                \A p \in Fills(Recipe[rname].steps[i]) \ raced :
                    files[p] = Whole(Recipe[rname].artifact)
=============================================================================
