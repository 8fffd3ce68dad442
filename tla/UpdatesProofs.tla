--------------------------- MODULE UpdatesProofs ---------------------------
(***************************************************************************)
(* Proofs about Updates, for every set of tasks, names and patches: a STOP *)
(* of the service is obeyed, only what the configuration permits is        *)
(* installed, success means that all of it is, and the failure of one      *)
(* package manager does not keep the others from their updates.            *)
(***************************************************************************)
EXTENDS Updates, TLAPS

TypeInv ==
    /\ job \in Jobs
    /\ outdated \in [Managers -> SUBSET Names]
    /\ late \in [Managers -> SUBSET (Names \cup Patches)]
    /\ released \subseteq Patches /\ patches \subseteq Patches /\ updates \subseteq Names

\* Which manager goes with which step.
StepInv ==
    /\ step \in {"try", "search", "item", "installItem"} => Mgr = "wua"
    /\ step \in {"downgrade", "repair", "reinstall", "redowngrade"} => Mgr = "apt"
    /\ step \in {"listInfo", "filter"} => Mgr = "zypper"

Installing == AptSteps \cup {"repair", "item", "installItem"}

\* OnlySelected, from the moment the selection is made.
TodoInv ==
    step \in Installing =>
        /\ ~job.dryRun
        /\ \A x \in todo : Permitted(Mgr, x) \/ (Mgr = "zypper" /\ Overlooked(x))

Covered(p) == Conf.narrow => p \notin Special

\* The names in `ns` that the listing of patches could have known are in patches
\* that it has found.
Known(ns) ==
    \A p \in released \ late["zypper"] : \A x \in Members[p] :
        x \in ns \ late["zypper"] /\ Covered(p) => p \in patches

\* What the first of zypper's listings still says while the others are made.
ListedInv ==
    Mgr = "zypper" /\ step \in {"listUpdates", "listInfo", "filter"} =>
        /\ \A p \in patches : Covered(p)
        /\ step = "listUpdates" => Known(outdated["zypper"])
        /\ step # "listUpdates" => Known(updates)

\* Nothing but the next report comes after a STOP, and success does not.
StopInv ==
    /\ step # "returned" => result = "none"
    /\ said = "stop" => step \in {"try", "returned"} /\ result # "ok"

IInv == TypeInv /\ StepInv /\ TodoInv /\ ListedInv

\* Everything that is due and permitted is in `s`.
Chosen(s) == \A x \in Due(Mgr) : Permitted(Mgr, x) => x \in s

\* From the listing to the installation nothing is missed: what was due at the first
\* of zypper's listings is in its results, and the selection has all that is due.
ChosenInv ==
    /\ Mgr = "zypper" /\ step \in {"listUpdates", "listInfo", "filter"} =>
          /\ patches \subseteq released \ late["zypper"]
          /\ Known(outdated["zypper"])
          /\ Conf.withUpdate /\ step # "listUpdates" =>
                 outdated["zypper"] \ late["zypper"] \subseteq updates
    /\ step \in AptSteps \cup {"repair"} => Chosen(todo)

\* The managers that runUpdates has finished with, by success or by an error that
\* it collects.
Finished(i) ==
    \/ i < at
    \/ /\ i = at /\ step = "returned"
       /\ result = "ok" \/ (Mgr \in LinuxManagers /\ ~Conf.invalid)

\* SuccessMeansUpdated and FailureIsContained, from manager to manager.
DoneInv ==
    /\ at \in 1..Len(job.managers)
    /\ step = "returned" =>
          /\ result = "ok" => at = Len(job.managers) /\ errs = {}
          /\ Mgr \in LinuxManagers /\ ~Conf.invalid => at = Len(job.managers)
    /\ ~job.dryRun => \A i \in 1..Len(job.managers) :
          Finished(i) /\ job.managers[i] \notin errs => UpToDate(job.managers[i])

UInv == IInv /\ StopInv /\ ChosenInv /\ DoneInv


-----------------------------------------------------------------------------
(***************************************************************************)
(* The initial states satisfy the invariants: nothing is listed yet.       *)
(***************************************************************************)
LEMMA InitIInv == Init => IInv /\ StopInv
BY DEF Init, IInv, StopInv, TypeInv, StepInv, TodoInv, ListedInv, Installing, AptSteps

(***************************************************************************)
(* StopInv is inductive: the loop over the Windows updates goes back to    *)
(* the report before the next try, which a service that has said STOP does *)
(* not let through.                                                        *)
(***************************************************************************)
LEMMA StopStep == StopInv /\ [Next]_vars => StopInv'
<1> SUFFICES ASSUME StopInv, [Next]_vars PROVE StopInv'
  OBVIOUS
<1> USE DEF StopInv, Succeed, Fail, NextManager, Return, Found, FoundAfter
<1>1. CASE Linux
  <2>1. CASE BeginLinux \/ ListFails \/ RunAptGetUpgrade \/ YumCheckUpdate \/ YumListUpdates
    BY <2>1 DEF BeginLinux, ListFails, RunAptGetUpgrade, YumCheckUpdate, YumListUpdates
  <2>2. CASE ZypperPatches \/ ZypperUpdates \/ ZypperInfo \/ ZypperFilter
    BY <2>2 DEF ZypperPatches, ZypperUpdates, ZypperInfo, ZypperFilter
  <2>3. CASE InstallOk \/ InstallFails \/ AptOk \/ AptAsksDowngrade
    BY <2>3 DEF InstallOk, InstallFails, AptOk, AptAsksDowngrade, AptSteps
  <2>4. CASE AptInterrupted \/ AptFails \/ dpkgRepair
    BY <2>4 DEF AptInterrupted, AptFails, dpkgRepair, AptSteps
  <2> QED
    BY <1>1, <2>1, <2>2, <2>3, <2>4 DEF Linux
<1>2. CASE Windows
  <2>1. CASE BeginGooGet \/ TryReport
    BY <2>1 DEF BeginGooGet, TryReport, Report
  <2>2. CASE ItemReport
    BY <2>2 DEF ItemReport, Report, NextTry
  <2>3. CASE RunGooGetUpdate \/ BeginWua \/ WuaSearchFails \/ WuaSearch
    BY <2>3 DEF RunGooGetUpdate, BeginWua, WuaSearchFails, WuaSearch, NextTry
  <2>4. CASE ItemsDone \/ InstallItem \/ InstallItemFails
    BY <2>4 DEF ItemsDone, InstallItem, InstallItemFails, NextTry
  <2> QED
    BY <1>2, <2>1, <2>2, <2>3, <2>4 DEF Windows
<1>3. CASE Publish
  BY <1>3 DEF Publish
<1>4. CASE UNCHANGED vars
  BY <1>4 DEF vars
<1> QED
  BY <1>1, <1>2, <1>3, <1>4 DEF Next

(***************************************************************************)
(* TypeInv is inductive.                                                   *)
(***************************************************************************)
LEMMA TypeStep == TypeInv /\ [Next]_vars => TypeInv'
<1> SUFFICES ASSUME TypeInv, [Next]_vars PROVE TypeInv'
  OBVIOUS
<1> USE UpdatesAssumption DEF TypeInv
<1>0. ASSUME Listing PROVE outdated' = outdated /\ released' = released
                           /\ late' \in [Managers -> SUBSET (Names \cup Patches)]
  BY <1>0 DEF Listing
<1>i. ASSUME NEW done, Install(done) PROVE outdated' \in [Managers -> SUBSET Names]
  BY <1>i DEF Install
<1>1. CASE Linux
  <2>1. CASE BeginLinux \/ ListFails \/ YumListUpdates \/ ZypperInfo \/ ZypperFilter \/ AptAsksDowngrade
    BY <2>1 DEF BeginLinux, ListFails, YumListUpdates, ZypperInfo, ZypperFilter, AptAsksDowngrade, machine
  <2>2. CASE RunAptGetUpgrade \/ YumCheckUpdate
    BY <2>2, <1>0 DEF RunAptGetUpgrade, YumCheckUpdate
  <2>3. CASE ZypperPatches
    BY <2>3, <1>0 DEF ZypperPatches, Offered, Needed
  <2>4. CASE ZypperUpdates
    BY <2>4 DEF ZypperUpdates, machine, Managers, LinuxManagers
  <2>5. CASE InstallOk \/ InstallFails \/ AptOk \/ AptInterrupted \/ AptFails
    BY <2>5, <1>i DEF InstallOk, InstallFails, AptOk, AptInterrupted, AptFails
  <2>6. CASE dpkgRepair
    BY <2>6 DEF dpkgRepair
  <2> QED
    BY <1>1, <2>1, <2>2, <2>3, <2>4, <2>5, <2>6 DEF Linux
<1>2. CASE Windows
  <2>1. CASE BeginGooGet \/ BeginWua \/ TryReport \/ WuaSearchFails
    BY <2>1 DEF BeginGooGet, BeginWua, TryReport, WuaSearchFails, machine
  <2>2. CASE RunGooGetUpdate \/ WuaSearch
    BY <2>2, <1>0 DEF RunGooGetUpdate, WuaSearch
  <2>3. CASE ItemReport \/ ItemsDone \/ InstallItemFails
    BY <2>3 DEF ItemReport, ItemsDone, InstallItemFails, machine
  <2>4. CASE InstallItem
    BY <2>4, <1>i DEF InstallItem
  <2> QED
    BY <1>2, <2>1, <2>2, <2>3, <2>4 DEF Windows
<1>3. CASE Publish
  BY <1>3 DEF Publish
<1>4. CASE UNCHANGED vars
  BY <1>4 DEF vars, machine
<1> QED
  BY <1>1, <1>2, <1>3, <1>4 DEF Next

Quiet == {"begin", "list", "returned"}

(***************************************************************************)
(* The invariants say nothing of the steps at which nothing is listed.     *)
(***************************************************************************)
LEMMA QuietStep == step' \in Quiet => StepInv' /\ TodoInv' /\ ListedInv'
BY DEF Quiet, StepInv, TodoInv, ListedInv, Installing, AptSteps

(***************************************************************************)
(* An attempt that ends, with or without an error, leads to such a step.   *)
(***************************************************************************)
LEMMA EndsQuiet == (Succeed \/ Fail => step' \in Quiet) /\ (\A r : Return(r) => step' \in Quiet)
BY DEF Quiet, Succeed, Fail, NextManager, Return

(***************************************************************************)
(* What filterPackages leaves of a listing is permitted, unless it refuses *)
(* the configuration.                                                      *)
(***************************************************************************)
LEMMA FilterPermits ==
    ASSUME NEW pkgs, ~Contradiction(Conf), Mgr # "zypper",
           NEW x \in filterPackages(pkgs, Conf), Conf.narrow => x \notin Special
    PROVE  Permitted(Mgr, x)
BY DEF Contradiction, filterPackages, shouldPackageBeExcluded, Permitted, Conf

(***************************************************************************)
(* What checkFilters passes is permitted.                                  *)
(***************************************************************************)
LEMMA CheckPermits ==
    ASSUME Mgr = "wua", NEW x, checkFilters(x, Conf) PROVE Permitted(Mgr, x)
BY DEF checkFilters, shouldPackageBeExcluded, Permitted, Conf

(***************************************************************************)
(* What runFilter selects of zypper's three listings is permitted, or was  *)
(* published after the first of them, or is a package while a listed patch *)
(* is bare: otherwise the packages of all the listed patches are known.    *)
(***************************************************************************)
LEMMA RunFilterPermits ==
    ASSUME TypeInv, ListedInv, step = "filter", Mgr = "zypper",
           NEW known \in PatchInfo(patches), NEW x \in runFilter(Conf, known)
    PROVE  Permitted(Mgr, x) \/ Overlooked(x)
<1> USE UpdatesAssumption DEF TypeInv
<1>1. /\ \A p \in patches : Covered(p)
      /\ Known(updates)
  BY DEF ListedInv
<1>2. CASE x \in patches
  <2>1. x \notin Names
    BY <1>2
  <2>2. Conf.exclusives # {} => x \in Conf.exclusives
    BY <1>2, <2>1 DEF runFilter
  <2>3. Conf.exclusives = {} => \A e \in Conf.excludes : x \notin e
    BY <1>2, <2>1 DEF runFilter, shouldPackageBeExcluded
  <2>4. Conf.narrow => x \notin Special
    BY <1>1, <1>2 DEF Covered
  <2> QED
    BY <2>1, <2>2, <2>3, <2>4 DEF Permitted, Conf
<1>3. CASE x \notin patches /\ x \in updates /\ patches \cap Bare # {}
  BY <1>3 DEF Overlooked
<1>4. CASE x \notin patches /\ x \notin late["zypper"] /\ patches \cap Bare = {}
  <2>0. known = patches
    BY <1>4 DEF PatchInfo
  <2>1. /\ Conf.exclusives = {} /\ Conf.withUpdate
        /\ x \in updates /\ x \notin PackagesInPatch(patches)
    BY <1>4, <2>0 DEF runFilter
  <2>2. ASSUME NEW p \in released \ late["zypper"], x \in Members[p] PROVE ~Covered(p)
    <3>1. p \notin patches
      BY <2>1, <2>2 DEF PackagesInPatch
    <3> QED
      BY <1>1, <1>4, <2>1, <2>2, <3>1 DEF Known
  <2> QED
    BY <2>1, <2>2 DEF Permitted, Conf, Covered
<1>5. x \in patches \/ x \in updates
  BY DEF runFilter
<1> QED
  BY <1>2, <1>3, <1>4, <1>5 DEF Overlooked

(***************************************************************************)
(* Publishing an update while runUpdates is at work makes no selection     *)
(* wrong: what is new is late.                                             *)
(***************************************************************************)
LEMMA PublishStep == IInv /\ Publish => StepInv' /\ TodoInv' /\ ListedInv'
<1> SUFFICES ASSUME IInv, Publish PROVE StepInv' /\ TodoInv' /\ ListedInv'
  OBVIOUS
<1> USE UpdatesAssumption DEF IInv, TypeInv
<1>1. /\ job' = job /\ at' = at /\ step' = step /\ todo' = todo
      /\ patches' = patches /\ updates' = updates /\ Mgr' = Mgr /\ Conf' = Conf
  BY DEF Publish, Mgr, Conf
<1>2. PICK i \in 1..Len(job.managers) :
         LET m == job.managers[i] IN
         \/ \E n \in Names \ outdated[m] :
              /\ outdated' = [outdated EXCEPT ![m] = @ \cup {n}]
              /\ late' = [late EXCEPT ![m] = @ \cup {n}]
              /\ UNCHANGED released
         \/ /\ m = "zypper"
            /\ \E p \in Patches \ released :
                 /\ released' = released \cup {p}
                 /\ outdated' = [outdated EXCEPT !["zypper"] = @ \cup Members[p]]
                 /\ late' = [late EXCEPT !["zypper"] =
                                 @ \cup {p} \cup (Members[p] \ outdated["zypper"])]
  BY DEF Publish
<1>3. /\ released' \ late'["zypper"] \subseteq released \ late["zypper"]
      /\ outdated'["zypper"] \ late'["zypper"] \subseteq outdated["zypper"] \ late["zypper"]
      /\ late["zypper"] \subseteq late'["zypper"]
  BY <1>2 DEF Managers, LinuxManagers
<1>4. ASSUME NEW x, Permitted(Mgr, x) PROVE Permitted(Mgr, x)'
  <2>1. CASE Mgr = "zypper" /\ x \in Names
    BY <1>1, <1>3, <1>4, <2>1 DEF Permitted
  <2>2. CASE ~(Mgr = "zypper" /\ x \in Names)
    BY <1>1, <1>4, <2>2 DEF Permitted
  <2> QED
    BY <2>1, <2>2
<1>5. StepInv'
  BY <1>1 DEF StepInv
<1>6. TodoInv'
  BY <1>1, <1>3, <1>4 DEF TodoInv, Overlooked
<1>7. ListedInv'
  BY <1>1, <1>3 DEF ListedInv, Known, Covered
<1> QED
  BY <1>5, <1>6, <1>7

(***************************************************************************)
(* A step that leaves the selection, the configuration, the listing and    *)
(* the publication history alone, or narrows the selection, leaves the selection right.    *)
(***************************************************************************)
LEMMA SameSelection ==
    ASSUME TodoInv, step \in Installing, UNCHANGED <<job, at, released, late, patches>>,
           todo' \subseteq todo
    PROVE  TodoInv'
<1>1. Mgr' = Mgr
  BY DEF Mgr
<1>2. \A x : Permitted(Mgr, x)' = Permitted(Mgr, x)
  BY <1>1 DEF Permitted
<1> QED
  BY <1>1, <1>2 DEF TodoInv, Overlooked

(***************************************************************************)
(* IInv is inductive: one step per action of runUpdates.                   *)
(***************************************************************************)
LEMMA IInvStep == IInv /\ [Next]_vars => IInv'
<1> SUFFICES ASSUME IInv, [Next]_vars PROVE IInv'
  OBVIOUS
<1> DEFINE Goal == StepInv' /\ TodoInv' /\ ListedInv'
<1> SUFFICES Goal
  BY TypeStep DEF IInv
<1>t. TypeInv /\ StepInv /\ TodoInv /\ ListedInv
  BY DEF IInv
<1>q. step' \in Quiet => Goal
  BY QuietStep
<1>f. ASSUME NEW sel, Found(sel), job' = job, step' \notin Quiet,
             \A x \in sel : Permitted(Mgr, x)' \/ (Mgr = "zypper" /\ Overlooked(x)')
      PROVE  Goal
  <2>1. ~job.dryRun /\ step' = "install" /\ todo' = sel /\ at' = at
    BY <1>f, EndsQuiet DEF Found
  <2>2. Mgr' = Mgr
    BY <1>f, <2>1 DEF Mgr
  <2>3. StepInv' /\ ListedInv'
    BY <2>1 DEF StepInv, ListedInv
  <2>4. TodoInv'
    BY <1>f, <2>1, <2>2 DEF TodoInv
  <2> QED
    BY <2>3, <2>4
<1>p. ASSUME Mgr \in {"apt", "yum", "googet"}, NEW pkgs, FoundAfter(pkgs), job' = job,
             \A x \in pkgs : Conf.narrow => x \notin Special
      PROVE  Goal
  <2>1. CASE step' \in Quiet
    BY <1>q, <2>1
  <2>2. CASE step' \notin Quiet
    <3>1. ~Contradiction(Conf) /\ Found(filterPackages(pkgs, Conf))
      BY <1>p, <2>2, EndsQuiet DEF FoundAfter
    <3>2. at' = at
      BY <2>2, <3>1, EndsQuiet DEF Found
    <3>3. \A x \in filterPackages(pkgs, Conf) : Permitted(Mgr, x)
      BY <1>p, <3>1, FilterPermits DEF filterPackages
    <3>4. Mgr' = Mgr /\ Mgr # "zypper"
      BY <1>p, <3>2 DEF Mgr
    <3>5. \A x : Permitted(Mgr, x)' = Permitted(Mgr, x)
      BY <1>p, <3>4 DEF Permitted
    <3> HIDE DEF Goal
    <3> QED
      BY <1>p, <1>f, <2>2, <3>1, <3>3, <3>5
  <2> QED
    BY <2>1, <2>2
<1>1. CASE Linux
  <2>1. CASE BeginLinux
    BY <2>1, <1>q, EndsQuiet DEF BeginLinux, Quiet
  <2>2. CASE ListFails
    BY <2>2, <1>q, EndsQuiet DEF ListFails
  <2>3. CASE RunAptGetUpgrade
    BY <2>3, <1>p DEF RunAptGetUpgrade, AptUpdates, Offered
  <2>4. CASE YumCheckUpdate
    <3>1. CASE outdated["yum"] = {}
      BY <2>4, <3>1, <1>p DEF YumCheckUpdate
    <3>2. CASE outdated["yum"] # {}
      <4>1. step' = "listUpdates" /\ Mgr' = "yum"
        BY <2>4, <3>2 DEF YumCheckUpdate, Mgr
      <4> QED
        BY <4>1 DEF StepInv, TodoInv, ListedInv, Installing, AptSteps
    <3> QED
      BY <3>1, <3>2
  <2>5. CASE YumListUpdates
    BY <2>5, <1>p DEF YumListUpdates, YumUpdates, Offered
  <2>6. CASE ZypperPatches
    <3>1. /\ Mgr = "zypper" /\ Mgr' = Mgr /\ Conf' = Conf
          /\ patches' = Offered(Needed, Conf) /\ updates' = {}
          /\ outdated' = outdated /\ released' = released
          /\ step' \in {"listUpdates", "filter"}
      BY <2>6 DEF ZypperPatches, Mgr, Conf, Listing
    <3>2. StepInv' /\ TodoInv'
      BY <3>1 DEF StepInv, TodoInv, Installing, AptSteps
    <3>3. \A p \in patches' : Covered(p)'
      BY <3>1 DEF Covered, Offered
    <3>4. Known(outdated["zypper"])'
      BY <3>1 DEF Known, Covered, Offered, Needed
    <3>5. Known(updates)'
      BY <3>1 DEF Known
    <3> QED
      BY <3>1, <3>2, <3>3, <3>4, <3>5 DEF ListedInv
  <2>7. CASE ZypperUpdates
    <3>1. /\ Mgr = "zypper" /\ Mgr' = Mgr /\ Conf' = Conf /\ patches' = patches
          /\ updates' = outdated["zypper"] /\ late' = late /\ released' = released
          /\ step = "listUpdates" /\ step' = "listInfo"
      BY <2>7 DEF ZypperUpdates, Mgr, Conf, machine
    <3>2. StepInv' /\ TodoInv'
      BY <3>1 DEF StepInv, TodoInv, Installing, AptSteps
    <3>3. ListedInv'
      BY <1>t, <3>1 DEF ListedInv, Known, Covered
    <3> QED
      BY <3>2, <3>3
  <2>8. CASE ZypperInfo
    <3>1. /\ Mgr = "zypper" /\ Mgr' = Mgr /\ Conf' = Conf /\ patches' = patches
          /\ updates' = updates /\ late' = late /\ released' = released
          /\ step = "listInfo" /\ step' = "filter"
      BY <2>8 DEF ZypperInfo, Mgr, Conf, machine
    <3>2. StepInv' /\ TodoInv'
      BY <3>1 DEF StepInv, TodoInv, Installing, AptSteps
    <3>3. ListedInv'
      BY <1>t, <3>1 DEF ListedInv, Known, Covered
    <3> QED
      BY <3>2, <3>3
  <2>9. CASE ZypperFilter
    <3>0. PICK known \in PatchInfo(patches) : Found(runFilter(Conf, known))
      BY <2>9 DEF ZypperFilter
    <3>1. /\ Mgr = "zypper" /\ step = "filter"
          /\ job' = job /\ late' = late /\ released' = released /\ patches' = patches
      BY <2>9, <1>t DEF ZypperFilter, StepInv, machine
    <3>2. CASE step' \in Quiet
      BY <3>2, <1>q
    <3>3. CASE step' \notin Quiet
      <4>1. at' = at
        BY <3>0, <3>3, EndsQuiet DEF Found
      <4>2. Mgr' = Mgr
        BY <3>1, <4>1 DEF Mgr
      <4>3. \A x : Permitted(Mgr, x)' = Permitted(Mgr, x) /\ Overlooked(x)' = Overlooked(x)
        BY <3>1, <4>2 DEF Permitted, Overlooked
      <4>4. \A x \in runFilter(Conf, known) : Permitted(Mgr, x) \/ Overlooked(x)
        BY <1>t, <3>0, <3>1, RunFilterPermits
      <4> HIDE DEF Goal
      <4> QED
        BY <1>f, <3>0, <3>1, <3>3, <4>3, <4>4
    <3> QED
      BY <3>2, <3>3
  <2>10. CASE InstallOk \/ InstallFails \/ AptOk \/ AptFails
    BY <2>10, <1>q, EndsQuiet DEF InstallOk, InstallFails, AptOk, AptFails
  <2>11. CASE AptAsksDowngrade
    <3>1. /\ step \in Installing /\ step' \in {"downgrade", "redowngrade"} /\ Mgr' = "apt"
          /\ UNCHANGED <<job, at, released, late, patches, todo>>
      BY <2>11 DEF AptAsksDowngrade, Installing, AptSteps, machine, Mgr
    <3> QED
      BY <1>t, <3>1, SameSelection DEF StepInv, ListedInv
  <2>12. CASE AptInterrupted
    <3>1. CASE step' \in Quiet
      BY <3>1, <1>q
    <3>2. CASE step' \notin Quiet
      <4>1. /\ step \in Installing /\ step' = "repair" /\ Mgr' = "apt"
            /\ UNCHANGED <<job, at, released, late, patches, todo>>
        BY <2>12, <3>2, EndsQuiet DEF AptInterrupted, Installing, Mgr
      <4> QED
        BY <1>t, <4>1, SameSelection DEF StepInv, ListedInv
    <3> QED
      BY <3>1, <3>2
  <2>13. CASE dpkgRepair
    <3>1. /\ step = "repair" /\ step' = "reinstall"
          /\ UNCHANGED <<job, at, released, late, patches, todo>>
      BY <2>13 DEF dpkgRepair
    <3>2. Mgr' = "apt" /\ step \in Installing
      BY <1>t, <3>1 DEF StepInv, Mgr, Installing
    <3> QED
      BY <1>t, <3>1, <3>2, SameSelection DEF StepInv, ListedInv
  <2> QED
    BY <1>1, <2>1, <2>2, <2>3, <2>4, <2>5, <2>6, <2>7, <2>8, <2>9, <2>10, <2>11, <2>12, <2>13
    DEF Linux
<1>2. CASE Windows
  <2>1. CASE BeginGooGet
    BY <2>1, <1>q, EndsQuiet DEF BeginGooGet, Report, Quiet
  <2>2. CASE RunGooGetUpdate
    <3>1. Mgr = "googet" /\ ~Conf.narrow /\ FoundAfter(GooGetUpdates) /\ job' = job
      BY <1>t, <2>2, JobsAssumption DEF RunGooGetUpdate, TypeInv, Conf
    <3> QED
      BY <1>p, <3>1
  <2>3. CASE BeginWua
    <3>1. step' \in Quiet \/ (step' = "try" /\ Mgr' = "wua")
      BY <2>3, EndsQuiet DEF BeginWua, Mgr
    <3> QED
      BY <3>1, <1>q DEF StepInv, TodoInv, ListedInv, Installing, AptSteps
  <2>4. CASE TryReport
    <3>1. step' \in Quiet \/ (step' = "search" /\ Mgr' = "wua")
      BY <1>t, <2>4, EndsQuiet DEF TryReport, Report, StepInv, Mgr
    <3> QED
      BY <3>1, <1>q DEF StepInv, TodoInv, ListedInv, Installing, AptSteps
  <2>n. ASSUME NextTry, job' = job, Mgr = "wua" PROVE Goal
    <3>1. step' \in Quiet \/ (step' = "try" /\ Mgr' = "wua")
      BY <2>n, EndsQuiet DEF NextTry, Mgr
    <3> QED
      BY <3>1, <1>q DEF StepInv, TodoInv, ListedInv, Installing, AptSteps
  <2>5. CASE WuaSearchFails
    BY <1>t, <2>5, <2>n DEF WuaSearchFails, StepInv
  <2>6. CASE WuaSearch
    <3> DEFINE sel == {u \in outdated["wua"] : checkFilters(u, Conf)}
    <3>1. Mgr = "wua" /\ job' = job
      BY <1>t, <2>6 DEF WuaSearch, StepInv
    <3>2. CASE step' \in Quiet
      BY <3>2, <1>q
    <3>3. CASE step' \notin Quiet
      <4>1. ~job.dryRun /\ step' = "item" /\ todo' = sel /\ at' = at
        BY <2>6, <3>3, EndsQuiet DEF WuaSearch
      <4>2. Mgr' = "wua"
        BY <3>1, <4>1 DEF Mgr
      <4>3. \A x \in sel : Permitted(Mgr, x)
        BY <3>1, CheckPermits
      <4>4. \A x : Permitted(Mgr, x)' = Permitted(Mgr, x)
        BY <3>1, <4>2 DEF Permitted
      <4>5. TodoInv'
        BY <3>1, <4>1, <4>2, <4>3, <4>4 DEF TodoInv
      <4> QED
        BY <4>1, <4>2, <4>5 DEF StepInv, ListedInv
    <3> QED
      BY <3>2, <3>3
  <2>7. CASE ItemReport
    <3>1. Mgr = "wua" /\ job' = job /\ step = "item"
      BY <1>t, <2>7 DEF ItemReport, StepInv
    <3>2. CASE NextTry
      BY <3>1, <3>2, <2>n
    <3>3. CASE step' = "installItem" /\ UNCHANGED <<at, attempt, result, said, todo>>
      <4>1. Mgr' = "wua" /\ UNCHANGED <<released, late, patches>>
        BY <2>7, <3>1, <3>3 DEF ItemReport, Mgr, machine
      <4> QED
        BY <1>t, <3>1, <3>3, <4>1, SameSelection DEF StepInv, ListedInv, Installing
    <3> QED
      BY <2>7, <3>2, <3>3 DEF ItemReport, Report
  <2>8. CASE ItemsDone
    BY <1>t, <2>8, <2>n DEF ItemsDone, StepInv
  <2>9. CASE InstallItem
    <3>1. /\ Mgr = "wua" /\ step = "installItem" /\ step' = "item"
          /\ UNCHANGED <<job, at, released, late, patches>> /\ todo' \subseteq todo
      BY <1>t, <2>9 DEF InstallItem, StepInv
    <3>2. Mgr' = "wua"
      BY <3>1 DEF Mgr
    <3> QED
      BY <1>t, <3>1, <3>2, SameSelection DEF StepInv, ListedInv, Installing
  <2>10. CASE InstallItemFails
    BY <1>t, <2>10, <2>n DEF InstallItemFails, StepInv
  <2> QED
    BY <1>2, <2>1, <2>2, <2>3, <2>4, <2>5, <2>6, <2>7, <2>8, <2>9, <2>10 DEF Windows
<1>3. CASE Publish
  BY <1>3, PublishStep
<1>4. CASE UNCHANGED vars
  BY <1>t, <1>4 DEF vars, machine, StepInv, TodoInv, ListedInv, Known, Covered,
     Permitted, Overlooked, Mgr, Conf
<1> QED
  BY <1>1, <1>2, <1>3, <1>4 DEF Next

-----------------------------------------------------------------------------
(***************************************************************************)
(* runUpdates names every manager once, and those of one system only.      *)
(***************************************************************************)
LEMMA ManagerFacts ==
    ASSUME TypeInv
    PROVE  /\ Len(job.managers) \in Nat \ {0}
           /\ \A i \in 1..Len(job.managers) : job.managers[i] \in Managers
           /\ \A i, k \in 1..Len(job.managers) : job.managers[i] = job.managers[k] => i = k
           /\ job.managers[1] \in LinuxManagers =>
                 \A i \in 1..Len(job.managers) : job.managers[i] \in LinuxManagers
<1> DEFINE ms == job.managers
<1>1. /\ ms \in Seq(LinuxManagers) \cup Seq({"googet", "wua"})
      /\ ms # <<>>
      /\ \A i, k \in DOMAIN ms : ms[i] = ms[k] => i = k
  BY JobsAssumption DEF TypeInv
<1> HIDE DEF ms
<1>2. CASE ms \in Seq(LinuxManagers)
  <2>1. DOMAIN ms = 1..Len(ms) /\ Len(ms) \in Nat \ {0}
    BY <1>1, <1>2
  <2>2. \A i \in 1..Len(ms) : ms[i] \in LinuxManagers
    BY <1>2, <2>1
  <2> QED
    BY <1>1, <2>1, <2>2 DEF Managers, ms
<1>3. CASE ms \in Seq({"googet", "wua"})
  <2>1. DOMAIN ms = 1..Len(ms) /\ Len(ms) \in Nat \ {0}
    BY <1>1, <1>3
  <2>2. \A i \in 1..Len(ms) : ms[i] \in {"googet", "wua"}
    BY <1>3, <2>1
  <2> QED
    BY <1>1, <2>1, <2>2 DEF Managers, LinuxManagers, ms
<1> QED
  BY <1>1, <1>2, <1>3

(***************************************************************************)
(* An installation, and a listing of another manager, make nothing more    *)
(* due and change no permission.                                           *)
(***************************************************************************)
LEMMA SameRelease ==
    ASSUME NEW m, UNCHANGED <<job, released>>,
           outdated'[m] \subseteq outdated[m], late'[m] = late[m]
    PROVE  /\ \A x \in Due(m)' : x \in Due(m)
           /\ \A x : Permitted(m, x)' = Permitted(m, x)
<1>1. \A x \in Due(m)' : x \in Due(m)
  BY DEF Due
<1>2. \A x : Permitted(m, x)' = Permitted(m, x)
  BY DEF Permitted
<1> QED
  BY <1>1, <1>2

(***************************************************************************)
(* What is published is late: it makes nothing more due and changes no     *)
(* permission.                                                             *)
(***************************************************************************)
LEMMA PublishIsLate ==
    ASSUME TypeInv, Publish
    PROVE  \A m \in Managers :
              /\ m = "zypper" => released' \ late'[m] = released \ late[m]
              /\ outdated'[m] \ late'[m] \subseteq outdated[m] \ late[m]
              /\ \A x \in Due(m)' : x \in Due(m)
              /\ \A x : Permitted(m, x)' = Permitted(m, x)
<1> USE UpdatesAssumption DEF TypeInv
<1> SUFFICES ASSUME NEW m \in Managers
             PROVE  /\ m = "zypper" => released' \ late'[m] = released \ late[m]
                    /\ outdated'[m] \ late'[m] \subseteq outdated[m] \ late[m]
                    /\ \A x \in Due(m)' : x \in Due(m)
                    /\ \A x : Permitted(m, x)' = Permitted(m, x)
  OBVIOUS
<1>1. job' = job
  BY DEF Publish
<1>2. PICK i \in 1..Len(job.managers) :
         \/ \E n \in Names \ outdated[job.managers[i]] :
              /\ outdated' = [outdated EXCEPT ![job.managers[i]] = @ \cup {n}]
              /\ late' = [late EXCEPT ![job.managers[i]] = @ \cup {n}]
              /\ UNCHANGED released
         \/ /\ job.managers[i] = "zypper"
            /\ \E p \in Patches \ released :
                 /\ released' = released \cup {p}
                 /\ outdated' = [outdated EXCEPT !["zypper"] = @ \cup Members[p]]
                 /\ late' = [late EXCEPT !["zypper"] =
                                 @ \cup {p} \cup (Members[p] \ outdated["zypper"])]
  BY DEF Publish
<1>3. outdated'[m] \ late'[m] \subseteq outdated[m] \ late[m]
  BY <1>2
<1>4. m = "zypper" => released' \ late'[m] = released \ late[m]
  BY <1>2
<1>5. \A x \in Due(m)' : x \in Due(m)
  BY <1>3, <1>4 DEF Due
<1>6. \A x : Permitted(m, x)' = Permitted(m, x)
  <2>1. CASE m = "zypper"
    BY <1>1, <1>4, <2>1 DEF Permitted
  <2>2. CASE m # "zypper"
    BY <1>1, <2>2 DEF Permitted
  <2> QED
    BY <2>1, <2>2
<1> QED
  BY <1>3, <1>4, <1>5, <1>6

(***************************************************************************)
(* A manager that is up to date stays so if nothing more becomes due and   *)
(* no permission changes.                                                  *)
(***************************************************************************)
LEMMA StaysUpToDate ==
    ASSUME NEW m, UpToDate(m), \A x \in Due(m)' : x \in Due(m),
           \A x : Permitted(m, x)' = Permitted(m, x)
    PROVE  UpToDate(m)'
BY DEF UpToDate

(***************************************************************************)
(* Installing all that is due and permitted, a patch with its packages,    *)
(* brings the manager up to date.                                          *)
(***************************************************************************)
LEMMA InstallBrings ==
    ASSUME TypeInv, NEW m \in Managers, m = Mgr, Chosen(todo), Install(todo),
           UNCHANGED <<job, released, late>>
    PROVE  UpToDate(m)'
<1> USE UpdatesAssumption DEF TypeInv
<1>1. outdated'[m] = outdated[m] \ Brought(todo)
  BY DEF Install
<1>2. /\ \A x \in Due(m)' : x \in Due(m)
      /\ \A x : Permitted(m, x)' = Permitted(m, x)
  <2>1. outdated'[m] \subseteq outdated[m] /\ late'[m] = late[m]
    BY <1>1
  <2> QED
    BY <2>1, SameRelease
<1>3. ASSUME NEW x \in Due(m)', Permitted(m, x)' PROVE FALSE
  <2>1. x \in todo
    BY <1>2, <1>3 DEF Chosen
  <2>2. x \notin outdated'[m]
    BY <1>1, <2>1 DEF Brought
  <2>3. m = "zypper" /\ x \in released /\ Members[x] \cap outdated'[m] # {}
    BY <1>3, <2>2 DEF Due
  <2>4. Members[x] \subseteq Brought(todo)
    BY <2>1, <2>3 DEF Brought, PackagesInPatch
  <2> QED
    BY <1>1, <2>3, <2>4
<1> QED
  BY <1>3 DEF UpToDate

(***************************************************************************)
(* filterPackages leaves everything of a listing that is permitted.        *)
(***************************************************************************)
LEMMA FilterChooses ==
    ASSUME NEW m, m = Mgr, m # "zypper", ~Contradiction(Conf), NEW pkgs,
           NEW x, Permitted(m, x), (Conf.narrow => x \notin Special) => x \in pkgs,
           m # "wua"
    PROVE  x \in filterPackages(pkgs, Conf)
BY DEF Contradiction, filterPackages, shouldPackageBeExcluded, Permitted, Conf

(***************************************************************************)
(* checkFilters passes every permitted update.                             *)
(***************************************************************************)
LEMMA CheckChooses ==
    ASSUME Mgr = "wua", NEW x, Permitted("wua", x) PROVE checkFilters(x, Conf)
BY DEF checkFilters, shouldPackageBeExcluded, Permitted, Conf

(***************************************************************************)
(* runFilter selects everything that was due at the listing of patches and *)
(* is permitted: a package that it leaves to a patch is in a patch that    *)
(* the options cover, and then it is not permitted alone.                  *)
(***************************************************************************)
LEMMA RunFilterChooses ==
    ASSUME TypeInv, ListedInv, ChosenInv, step = "filter", Mgr = "zypper",
           NEW known \in PatchInfo(patches)
    PROVE  Chosen(runFilter(Conf, known))
<1> USE UpdatesAssumption DEF TypeInv
<1>1. /\ \A p \in patches : Covered(p)
      /\ patches \subseteq released \ late["zypper"]
      /\ Known(outdated["zypper"])
      /\ Conf.withUpdate => outdated["zypper"] \ late["zypper"] \subseteq updates
  BY DEF ListedInv, ChosenInv
<1> SUFFICES ASSUME NEW x \in Due("zypper"), Permitted("zypper", x)
             PROVE  x \in runFilter(Conf, known)
  BY DEF Chosen
<1>2. CASE x \in outdated["zypper"] \ late["zypper"]
  <2>1. x \in Names
    BY <1>2 DEF Managers, LinuxManagers
  <2>2. /\ Conf.withUpdate /\ Conf.exclusives = {}
        /\ \A p \in released \ late["zypper"] : x \in Members[p] => ~Covered(p)
    BY <2>1 DEF Permitted, Conf, Covered
  <2>3. x \in updates
    BY <1>1, <1>2, <2>2
  <2>4. x \notin PackagesInPatch(known)
    <3>1. known \subseteq patches
      BY DEF PatchInfo
    <3> QED
      BY <1>1, <2>2, <3>1 DEF PackagesInPatch
  <2> QED
    BY <2>2, <2>3, <2>4 DEF runFilter
<1>3. CASE x \notin outdated["zypper"] \ late["zypper"]
  <2>1. x \in released \ late["zypper"]
        /\ Members[x] \cap (outdated["zypper"] \ late["zypper"]) # {}
    BY <1>3 DEF Due
  <2>2. x \notin Names
    BY <2>1
  <2>3. /\ Covered(x)
        /\ Conf.exclusives # {} => x \in Conf.exclusives
        /\ Conf.exclusives = {} => \A e \in Conf.excludes : x \notin e
    BY <2>2 DEF Permitted, Conf, Covered
  <2>4. x \in patches
    BY <1>1, <2>1, <2>3 DEF Known
  <2> QED
    BY <2>3, <2>4 DEF runFilter, shouldPackageBeExcluded
<1> QED
  BY <1>2, <1>3

\* What a step of runUpdates leaves alone: the task, the patches, and the other
\* managers' part of the machine.
OthersSame ==
    /\ UNCHANGED <<job, released>>
    /\ errs \subseteq errs'
    /\ \A m \in Managers : m # Mgr => outdated'[m] = outdated[m] /\ late'[m] = late[m]

(***************************************************************************)
(* The managers before the current one stay up to date.                    *)
(***************************************************************************)
LEMMA EarlierStay ==
    ASSUME TypeInv, DoneInv, OthersSame, ~job.dryRun,
           NEW i \in 1..Len(job.managers), i < at, job.managers[i] \notin errs'
    PROVE  UpToDate(job.managers[i])'
<1>1. PICK m \in Managers : m = job.managers[i]
  BY ManagerFacts
<1>2. m # Mgr
  BY <1>1, ManagerFacts DEF Mgr, DoneInv
<1>3. UpToDate(m)
  BY <1>1 DEF DoneInv, Finished, OthersSame
<1>4. outdated'[m] = outdated[m] /\ late'[m] = late[m] /\ UNCHANGED <<job, released>>
  BY <1>2 DEF OthersSame
<1>5. /\ \A x \in Due(m)' : x \in Due(m)
      /\ \A x : Permitted(m, x)' = Permitted(m, x)
  BY <1>4, SameRelease
<1>6. UpToDate(m)'
  BY <1>3, <1>5, StaysUpToDate
<1>7. job'.managers[i] = m
  BY <1>1, <1>4
<1> QED
  BY <1>6, <1>7

(***************************************************************************)
(* A step within the work of one manager finishes none.                    *)
(***************************************************************************)
LEMMA SameManager ==
    ASSUME TypeInv, DoneInv, OthersSame, at' = at, step' # "returned"
    PROVE  DoneInv'
<1>1. job' = job
  BY DEF OthersSame
<1>2. ASSUME ~job.dryRun, NEW i \in 1..Len(job.managers), Finished(i)', job.managers[i] \notin errs'
      PROVE  UpToDate(job.managers[i])'
  <2>1. i < at
    BY <1>2 DEF Finished
  <2> QED
    BY <1>2, <2>1, EarlierStay
<1> QED
  BY <1>1, <1>2 DEF DoneInv

(***************************************************************************)
(* A return before the last manager, which only Windows and an invalid     *)
(* exclude cause, finishes no further manager.                             *)
(***************************************************************************)
LEMMA EarlyReturn ==
    ASSUME TypeInv, DoneInv, OthersSame, NEW r, r # "ok", Return(r),
           Mgr \in LinuxManagers => Conf.invalid
    PROVE  DoneInv'
<1>1. job' = job /\ at' = at /\ step' = "returned" /\ result' = r /\ Mgr' = Mgr /\ Conf' = Conf
  BY DEF OthersSame, Return, Mgr, Conf
<1>2. ASSUME ~job.dryRun, NEW i \in 1..Len(job.managers), Finished(i)', job.managers[i] \notin errs'
      PROVE  UpToDate(job.managers[i])'
  <2>1. i < at
    BY <1>1, <1>2 DEF Finished
  <2> QED
    BY <1>2, <2>1, EarlierStay
<1> QED
  BY <1>1, <1>2 DEF DoneInv

(***************************************************************************)
(* runUpdates goes on from a manager that is up to date, or that is among  *)
(* the errors it returns.                                                  *)
(***************************************************************************)
LEMMA GoesOn ==
    ASSUME TypeInv, DoneInv, OthersSame, NextManager(errs'),
           NEW m \in Managers, m = Mgr,
           ~job.dryRun /\ m \notin errs' => UpToDate(m)'
    PROVE  DoneInv'
<1>1. job' = job /\ at \in 1..Len(job.managers) /\ Len(job.managers) \in Nat \ {0}
  BY ManagerFacts DEF OthersSame, DoneInv
<1>2. ASSUME ~job.dryRun, NEW i \in 1..Len(job.managers), i <= at, job.managers[i] \notin errs'
      PROVE  UpToDate(job.managers[i])'
  <2>1. CASE i < at
    BY <1>2, <2>1, EarlierStay
  <2>2. CASE i = at
    <3>1. job.managers[i] = m /\ job'.managers[i] = m
      BY <1>1, <2>2 DEF Mgr
    <3>2. UpToDate(m)'
      BY <1>2, <3>1
    <3> QED
      BY <3>1, <3>2
  <2> QED
    BY <1>1, <1>2, <2>1, <2>2
<1>3. CASE at < Len(job.managers)
  <2>1. at' = at + 1 /\ step' = "begin"
    BY <1>3 DEF NextManager
  <2>2. ASSUME NEW i \in 1..Len(job.managers), Finished(i)' PROVE i <= at
    BY <1>1, <2>1, <2>2 DEF Finished
  <2> QED
    BY <1>1, <1>2, <1>3, <2>1, <2>2 DEF DoneInv
<1>4. CASE ~(at < Len(job.managers))
  <2>1. /\ at' = at /\ step' = "returned" /\ at = Len(job.managers)
        /\ result' = "ok" => errs' = {}
    BY <1>1, <1>4 DEF NextManager, Return
  <2>2. ASSUME NEW i \in 1..Len(job.managers) PROVE i <= at
    BY <2>1
  <2> QED
    BY <1>1, <1>2, <2>1, <2>2 DEF DoneInv
<1> QED
  BY <1>3, <1>4

(***************************************************************************)
(* An attempt that fails is repeated, or its manager is among the errors.  *)
(***************************************************************************)
LEMMA FailGoesOn ==
    ASSUME TypeInv, DoneInv, OthersSame, Fail PROVE DoneInv'
<1>1. CASE attempt < MaxAttempts
  BY <1>1, SameManager DEF Fail
<1>2. CASE ~(attempt < MaxAttempts) /\ Mgr = "googet"
  BY <1>2, EarlyReturn DEF Fail, LinuxManagers
<1>3. CASE ~(attempt < MaxAttempts) /\ Mgr # "googet"
  <2>1. PICK m \in Managers : m = Mgr
    BY ManagerFacts DEF Mgr, DoneInv
  <2>2. NextManager(errs') /\ m \in errs'
    BY <1>3, <2>1 DEF Fail
  <2> QED
    BY <2>1, <2>2, GoesOn
<1> QED
  BY <1>1, <1>2, <1>3

(***************************************************************************)
(* ChosenInv says nothing of the steps at which nothing is listed, and of  *)
(* those of Windows Update.                                                *)
(***************************************************************************)
LEMMA QuietChosen ==
    step' \in Quiet \cup {"try", "search", "item", "installItem"} => ChosenInv'
BY DEF Quiet, ChosenInv, AptSteps

(***************************************************************************)
(* An attempt that has selected all that is due and permitted installs it, *)
(* or has nothing to install.                                              *)
(***************************************************************************)
LEMMA FoundStep ==
    ASSUME TypeInv, DoneInv, OthersSame, NEW sel, Found(sel),
           NEW m \in Managers, m = Mgr,
           \A x \in Due(m)' : Permitted(m, x)' => x \in sel
    PROVE  ChosenInv' /\ DoneInv'
<1>1. CASE sel = {} \/ job.dryRun
  <2>1. NextManager(errs') /\ step' \in Quiet
    BY <1>1, EndsQuiet DEF Found, Succeed
  <2>2. ~job.dryRun => UpToDate(m)'
    BY <1>1 DEF UpToDate
  <2> QED
    BY <2>1, <2>2, QuietChosen, GoesOn
<1>2. CASE ~(sel = {} \/ job.dryRun)
  <2>1. step' = "install" /\ todo' = sel /\ at' = at
    BY <1>2 DEF Found
  <2>2. Mgr' = m
    BY <2>1 DEF Mgr, OthersSame
  <2>3. Chosen(todo)'
    BY <2>1, <2>2 DEF Chosen
  <2>4. ChosenInv'
    BY <2>1, <2>3 DEF ChosenInv
  <2> QED
    BY <2>1, <2>4, SameManager
<1> QED
  BY <1>1, <1>2

(***************************************************************************)
(* So does an attempt of apt, yum or googet, which filters its listing.    *)
(***************************************************************************)
LEMMA FoundAfterStep ==
    ASSUME TypeInv, DoneInv, OthersSame, NEW pkgs, FoundAfter(pkgs),
           NEW m \in {"apt", "yum", "googet"}, m = Mgr, outdated' = outdated,
           \A x \in outdated[m] : (Conf.narrow => x \notin Special) => x \in pkgs
    PROVE  ChosenInv' /\ DoneInv'
<1>1. CASE Contradiction(Conf)
  <2>1. Fail /\ step' \in Quiet
    BY <1>1, EndsQuiet DEF FoundAfter
  <2> QED
    BY <2>1, QuietChosen, FailGoesOn
<1>2. CASE ~Contradiction(Conf)
  <2>1. Found(filterPackages(pkgs, Conf))
    BY <1>2 DEF FoundAfter
  <2>2. m \in Managers /\ m # "zypper" /\ m # "wua"
    BY DEF Managers, LinuxManagers
  <2>3. ASSUME NEW x \in Due(m)', Permitted(m, x)' PROVE x \in filterPackages(pkgs, Conf)
    <3>1. x \in outdated[m]
      BY <2>2, <2>3 DEF Due
    <3>2. Permitted(m, x)
      BY <2>2, <2>3 DEF Permitted, OthersSame
    <3> QED
      BY <1>2, <2>2, <3>1, <3>2, FilterChooses
  <2> QED
    BY <2>1, <2>2, <2>3, FoundStep
<1> QED
  BY <1>1, <1>2

(***************************************************************************)
(* A listing, an installation, and a step that leaves the machine alone    *)
(* concern the current manager only.                                       *)
(***************************************************************************)
LEMMA OthersStay ==
    ASSUME TypeInv, job' = job, errs \subseteq errs'
    PROVE  /\ Listing => OthersSame
           /\ UNCHANGED machine => OthersSame
           /\ \A done : Install(done) /\ UNCHANGED <<released, late>> => OthersSame
<1>1. Listing => OthersSame
  BY DEF Listing, OthersSame, TypeInv
<1>2. UNCHANGED machine => OthersSame
  BY DEF machine, OthersSame
<1>3. ASSUME NEW done, Install(done), UNCHANGED <<released, late>> PROVE OthersSame
  BY <1>3 DEF Install, OthersSame, TypeInv
<1> QED
  BY <1>1, <1>2, <1>3

(***************************************************************************)
(* The errors that runUpdates has collected are not forgotten.             *)
(***************************************************************************)
LEMMA ErrorsStay == Succeed \/ Fail \/ UNCHANGED errs => errs \subseteq errs'
BY DEF Succeed, Fail

(***************************************************************************)
(* UInv is inductive: one step per action of runUpdates.                   *)
(***************************************************************************)
LEMMA UInvStep == UInv /\ [Next]_vars => UInv'
<1> SUFFICES ASSUME UInv, [Next]_vars PROVE UInv'
  OBVIOUS
<1> DEFINE Goal == ChosenInv' /\ DoneInv'
<1>t. TypeInv /\ StepInv /\ ListedInv /\ ChosenInv /\ DoneInv
  BY DEF UInv, IInv
<1> SUFFICES Goal
  BY IInvStep, StopStep DEF UInv
<1>m. PICK m \in Managers : m = Mgr
  BY <1>t, ManagerFacts DEF Mgr, DoneInv
<1>f. ASSUME OthersSame, Fail PROVE Goal
  BY <1>t, <1>f, EndsQuiet, QuietChosen, FailGoesOn
<1>r. ASSUME OthersSame, NEW r, r # "ok", Return(r), Mgr \in LinuxManagers => Conf.invalid PROVE Goal
  BY <1>t, <1>r, EndsQuiet, QuietChosen, EarlyReturn
<1>i. ASSUME job' = job, Install(todo), UNCHANGED <<released, late>>, Succeed, Chosen(todo) PROVE Goal
  <2>1. OthersSame
    BY <1>t, <1>i, OthersStay, ErrorsStay
  <2>2. UpToDate(m)'
    BY <1>t, <1>m, <1>i, InstallBrings
  <2>3. NextManager(errs') /\ step' \in Quiet
    BY <1>i, EndsQuiet DEF Succeed
  <2> QED
    BY <1>t, <1>m, <2>1, <2>2, <2>3, QuietChosen, GoesOn
<1>s. ASSUME OthersSame, at' = at, step' # "returned" PROVE DoneInv'
  BY <1>t, <1>s, SameManager
<1>1. CASE Linux
  <2>1. CASE BeginLinux
    <3>1. OthersSame
      BY <1>t, <2>1, OthersStay DEF BeginLinux
    <3>2. CASE Conf.invalid
      BY <2>1, <3>1, <3>2, <1>r DEF BeginLinux
    <3>3. CASE ~Conf.invalid
      BY <2>1, <3>1, <3>3, <1>s, QuietChosen DEF BeginLinux, Quiet
    <3> QED
      BY <3>2, <3>3
  <2>2. CASE ListFails
    <3>1. OthersSame
      BY <1>t, <2>2, OthersStay, ErrorsStay DEF ListFails
    <3> QED
      BY <2>2, <3>1, <1>f DEF ListFails
  <2>e. ASSUME NEW pkgs, FoundAfter(pkgs) PROVE errs \subseteq errs'
    BY <2>e, ErrorsStay DEF FoundAfter, Found
  <2>3. CASE RunAptGetUpgrade
    <3>1. OthersSame
      BY <1>t, <2>3, <2>e, OthersStay DEF RunAptGetUpgrade
    <3>2. Mgr = "apt" /\ FoundAfter(AptUpdates) /\ outdated' = outdated
      BY <2>3 DEF RunAptGetUpgrade, Listing
    <3>3. \A x \in outdated["apt"] : (Conf.narrow => x \notin Special) => x \in AptUpdates
      BY DEF AptUpdates, Offered
    <3> QED
      BY <1>t, <3>1, <3>2, <3>3, FoundAfterStep
  <2>4. CASE YumCheckUpdate
    <3>1. OthersSame
      BY <1>t, <2>4, <2>e, OthersStay DEF YumCheckUpdate
    <3>2. CASE outdated["yum"] = {}
      <4>1. Mgr = "yum" /\ FoundAfter({}) /\ outdated' = outdated
        BY <2>4, <3>2 DEF YumCheckUpdate, Listing
      <4> QED
        BY <1>t, <3>1, <3>2, <4>1, FoundAfterStep
    <3>3. CASE outdated["yum"] # {}
      <4>1. step' = "listUpdates" /\ at' = at /\ Mgr = "yum" /\ Mgr' = Mgr
        BY <2>4, <3>3 DEF YumCheckUpdate, Mgr
      <4> QED
        BY <3>1, <4>1, <1>s DEF ChosenInv, AptSteps
    <3> QED
      BY <3>2, <3>3
  <2>5. CASE YumListUpdates
    <3>1. OthersSame
      BY <1>t, <2>5, <2>e, OthersStay DEF YumListUpdates
    <3>2. Mgr = "yum" /\ FoundAfter(YumUpdates) /\ outdated' = outdated
      BY <2>5 DEF YumListUpdates, machine
    <3>3. \A x \in outdated["yum"] : (Conf.narrow => x \notin Special) => x \in YumUpdates
      BY DEF YumUpdates, Offered
    <3> QED
      BY <1>t, <3>1, <3>2, <3>3, FoundAfterStep
  <2>6. CASE ZypperPatches
    <3>1. OthersSame
      BY <1>t, <2>6, OthersStay DEF ZypperPatches
    <3>2. /\ Mgr = "zypper" /\ Mgr' = Mgr /\ Conf' = Conf /\ at' = at
          /\ patches' = Offered(Needed, Conf)
          /\ outdated' = outdated /\ released' = released
          /\ step' = IF Conf.withUpdate THEN "listUpdates" ELSE "filter"
      BY <2>6 DEF ZypperPatches, Mgr, Conf, Listing
    <3>3. late'["zypper"] = {}
      BY <1>t, <2>6 DEF ZypperPatches, Listing, TypeInv, Managers, LinuxManagers
    <3>4. patches' \subseteq released' \ late'["zypper"]
      BY <3>2, <3>3 DEF Offered, Needed
    <3>5. Known(outdated["zypper"])'
      BY <3>2 DEF Known, Covered, Offered, Needed
    <3>6. ChosenInv'
      BY <3>2, <3>4, <3>5 DEF ChosenInv, AptSteps
    <3> QED
      BY <3>1, <3>2, <3>6, <1>s
  <2>7. CASE ZypperUpdates
    <3>1. OthersSame
      BY <1>t, <2>7, OthersStay DEF ZypperUpdates
    <3>2. /\ Mgr = "zypper" /\ Mgr' = Mgr /\ Conf' = Conf /\ at' = at /\ patches' = patches
          /\ updates' = outdated["zypper"] /\ UNCHANGED <<late, released, outdated>>
          /\ step = "listUpdates" /\ step' = "listInfo"
      BY <2>7 DEF ZypperUpdates, Mgr, Conf, machine
    <3>3. ChosenInv'
      BY <1>t, <3>2 DEF ChosenInv, AptSteps, Known, Covered
    <3> QED
      BY <3>1, <3>2, <3>3, <1>s
  <2>8. CASE ZypperInfo
    <3>1. OthersSame
      BY <1>t, <2>8, OthersStay DEF ZypperInfo
    <3>2. /\ Mgr = "zypper" /\ Mgr' = Mgr /\ Conf' = Conf /\ at' = at
          /\ UNCHANGED <<patches, updates, late, released, outdated>>
          /\ step = "listInfo" /\ step' = "filter"
      BY <2>8 DEF ZypperInfo, Mgr, Conf, machine
    <3>3. ChosenInv'
      BY <1>t, <3>2 DEF ChosenInv, AptSteps, Known, Covered
    <3> QED
      BY <3>1, <3>2, <3>3, <1>s
  <2>9. CASE ZypperFilter
    <3>0. PICK known \in PatchInfo(patches) : Found(runFilter(Conf, known))
      BY <2>9 DEF ZypperFilter
    <3>1. /\ Mgr = "zypper" /\ step = "filter"
          /\ UNCHANGED <<job, late, released, outdated>>
      BY <2>9, <1>t DEF ZypperFilter, StepInv, machine
    <3>2. OthersSame
      BY <1>t, <2>9, OthersStay, ErrorsStay DEF ZypperFilter, Found
    <3>3. Chosen(runFilter(Conf, known))
      BY <1>t, <3>0, <3>1, RunFilterChooses
    <3>4. \A x \in Due("zypper")' : Permitted("zypper", x)' => x \in runFilter(Conf, known)
      <4>1. /\ \A x \in Due("zypper")' : x \in Due("zypper")
            /\ \A x : Permitted("zypper", x)' = Permitted("zypper", x)
        BY <3>1, SameRelease
      <4> QED
        BY <3>1, <3>3, <4>1 DEF Chosen
    <3> QED
      BY <1>t, <1>m, <3>0, <3>1, <3>2, <3>4, FoundStep
  <2>10. CASE InstallOk
    BY <1>t, <2>10, <1>i DEF InstallOk, ChosenInv, AptSteps
  <2>11. CASE AptOk
    BY <1>t, <2>11, <1>i DEF AptOk, ChosenInv
  <2>12. CASE InstallFails \/ AptFails
    <3>1. OthersSame
      BY <1>t, <2>12, OthersStay, ErrorsStay DEF InstallFails, AptFails
    <3> QED
      BY <2>12, <3>1, <1>f DEF InstallFails, AptFails
  <2>c. ASSUME OthersSame, Chosen(todo), Mgr = "apt", at' = at, todo' = todo,
               step' \in AptSteps \cup {"repair"}, outdated'[m] \subseteq outdated[m], late'[m] = late[m]
        PROVE  Goal
    <3>1. Mgr' = m /\ UNCHANGED <<job, released>>
      BY <1>m, <2>c DEF Mgr, OthersSame
    <3>2. /\ \A x \in Due(m)' : x \in Due(m)
          /\ \A x : Permitted(m, x)' = Permitted(m, x)
      BY <2>c, <3>1, SameRelease
    <3>3. Chosen(todo)'
      BY <1>m, <2>c, <3>1, <3>2 DEF Chosen
    <3>4. ChosenInv'
      BY <1>m, <2>c, <3>1, <3>3 DEF ChosenInv
    <3> QED
      BY <2>c, <3>4, <1>s DEF AptSteps
  <2>13. CASE AptAsksDowngrade
    <3>1. OthersSame
      BY <1>t, <2>13, OthersStay DEF AptAsksDowngrade
    <3>2. /\ Chosen(todo) /\ Mgr = "apt" /\ at' = at /\ todo' = todo
          /\ step' \in AptSteps /\ outdated' = outdated /\ late' = late
      BY <1>t, <2>13 DEF AptAsksDowngrade, ChosenInv, AptSteps, machine
    <3> QED
      BY <2>c, <3>1, <3>2
  <2>14. CASE AptInterrupted
    <3>1. PICK done : Install(done)
      BY <2>14 DEF AptInterrupted
    <3>2. OthersSame
      BY <1>t, <2>14, <3>1, OthersStay, ErrorsStay DEF AptInterrupted
    <3>3. CASE step \in {"install", "downgrade"}
      <4>1. /\ Chosen(todo) /\ Mgr = "apt" /\ at' = at /\ todo' = todo
            /\ step' = "repair" /\ late' = late
        BY <1>t, <2>14, <3>3 DEF AptInterrupted, ChosenInv, AptSteps
      <4>2. outdated'[m] \subseteq outdated[m]
        BY <1>t, <1>m, <3>1 DEF Install, TypeInv
      <4> QED
        BY <2>c, <3>2, <4>1, <4>2
    <3>4. CASE step \notin {"install", "downgrade"}
      BY <2>14, <3>2, <3>4, <1>f DEF AptInterrupted
    <3> QED
      BY <3>3, <3>4
  <2>15. CASE dpkgRepair
    <3>1. OthersSame
      BY <2>15 DEF dpkgRepair, OthersSame
    <3>2. /\ Chosen(todo) /\ Mgr = "apt" /\ at' = at /\ todo' = todo
          /\ step' \in AptSteps /\ outdated' = outdated /\ late' = late
      BY <1>t, <2>15 DEF dpkgRepair, ChosenInv, StepInv, AptSteps
    <3> QED
      BY <2>c, <3>1, <3>2
  <2> QED
    BY <1>1, <2>1, <2>2, <2>3, <2>4, <2>5, <2>6, <2>7, <2>8, <2>9, <2>10, <2>11, <2>12, <2>13,
       <2>14, <2>15 DEF Linux
<1>2. CASE Windows
  <2>w. "wua" \notin LinuxManagers /\ "googet" \notin LinuxManagers
    BY DEF LinuxManagers
  <2>1. CASE BeginGooGet
    <3>1. OthersSame /\ Mgr = "googet"
      BY <1>t, <2>1, OthersStay DEF BeginGooGet
    <3>2. CASE step' = "list" /\ at' = at
      BY <3>1, <3>2, <1>s, QuietChosen DEF Quiet
    <3>3. CASE Return("cancelled") \/ Return("error")
      BY <2>w, <3>1, <3>3, <1>r
    <3> QED
      BY <2>1, <3>2, <3>3 DEF BeginGooGet, Report
  <2>2. CASE RunGooGetUpdate
    <3>1. OthersSame
      BY <1>t, <2>2, OthersStay, ErrorsStay DEF RunGooGetUpdate, FoundAfter, Found
    <3>2. Mgr = "googet" /\ FoundAfter(GooGetUpdates) /\ outdated' = outdated
      BY <2>2 DEF RunGooGetUpdate, Listing
    <3> QED
      BY <1>t, <3>1, <3>2, FoundAfterStep DEF GooGetUpdates
  <2>n. ASSUME NextTry, OthersSame, Mgr = "wua" PROVE Goal
    <3>1. CASE attempt < MaxTries
      BY <2>n, <3>1, <1>s, QuietChosen DEF NextTry
    <3>2. CASE ~(attempt < MaxTries)
      BY <2>n, <3>2, <2>w, <1>r DEF NextTry
    <3> QED
      BY <3>1, <3>2
  <2>3. CASE BeginWua
    <3>1. OthersSame /\ Mgr = "wua"
      BY <1>t, <2>3, OthersStay DEF BeginWua
    <3>2. CASE Conf.invalid
      BY <2>3, <3>1, <3>2, <1>r DEF BeginWua
    <3>3. CASE ~Conf.invalid
      BY <2>3, <3>1, <3>3, <1>s, QuietChosen DEF BeginWua
    <3> QED
      BY <3>2, <3>3
  <2>4. CASE TryReport
    <3>1. OthersSame /\ Mgr = "wua"
      BY <1>t, <2>4, OthersStay DEF TryReport, StepInv
    <3>2. CASE step' = "search" /\ at' = at
      BY <3>1, <3>2, <1>s, QuietChosen
    <3>3. CASE Return("cancelled") \/ Return("error")
      BY <2>w, <3>1, <3>3, <1>r
    <3> QED
      BY <2>4, <3>2, <3>3 DEF TryReport, Report
  <2>5. CASE WuaSearchFails
    <3>1. OthersSame /\ Mgr = "wua"
      BY <1>t, <2>5, OthersStay DEF WuaSearchFails, StepInv
    <3> QED
      BY <2>5, <3>1, <2>n DEF WuaSearchFails
  <2>6. CASE WuaSearch
    <3> DEFINE sel == {u \in outdated["wua"] : checkFilters(u, Conf)}
    <3>1. OthersSame /\ Mgr = "wua" /\ outdated' = outdated
      BY <1>t, <2>6, OthersStay, ErrorsStay DEF WuaSearch, StepInv, Listing
    <3>2. CASE sel = {} \/ job.dryRun
      <4>1. NextManager(errs') /\ step' \in Quiet
        BY <2>6, <3>2, EndsQuiet DEF WuaSearch, Succeed
      <4>2. ASSUME ~job.dryRun PROVE UpToDate("wua")'
        <5> SUFFICES ASSUME NEW x \in Due("wua")', Permitted("wua", x)' PROVE FALSE
          BY DEF UpToDate
        <5>1. x \in outdated["wua"]
          BY <3>1 DEF Due
        <5>2. Permitted("wua", x)
          BY <3>1 DEF Permitted, OthersSame
        <5> QED
          BY <3>1, <3>2, <4>2, <5>1, <5>2, CheckChooses
      <4> QED
        BY <1>t, <1>m, <3>1, <4>1, <4>2, QuietChosen, GoesOn
    <3>3. CASE ~(sel = {} \/ job.dryRun)
      <4>1. step' = "item" /\ at' = at
        BY <2>6, <3>3 DEF WuaSearch
      <4> QED
        BY <3>1, <4>1, <1>s, QuietChosen
    <3> QED
      BY <3>2, <3>3
  <2>7. CASE ItemReport
    <3>1. OthersSame /\ Mgr = "wua"
      BY <1>t, <2>7, OthersStay DEF ItemReport, StepInv
    <3>2. CASE NextTry
      BY <3>1, <3>2, <2>n
    <3>3. CASE step' = "installItem" /\ at' = at
      BY <3>1, <3>3, <1>s, QuietChosen
    <3> QED
      BY <2>7, <3>2, <3>3 DEF ItemReport, Report
  <2>8. CASE ItemsDone
    <3>1. OthersSame /\ Mgr = "wua"
      BY <1>t, <2>8, OthersStay DEF ItemsDone, StepInv
    <3> QED
      BY <2>8, <3>1, <2>n DEF ItemsDone
  <2>9. CASE InstallItem
    <3>1. job' = job /\ errs' = errs /\ UNCHANGED <<released, late>>
          /\ ((\E done : Install(done)) \/ UNCHANGED outdated)
      BY <2>9 DEF InstallItem
    <3>2. OthersSame
      <4>1. CASE UNCHANGED outdated
        BY <3>1, <4>1 DEF OthersSame
      <4> QED
        BY <1>t, <3>1, <4>1, OthersStay
    <3>3. step' = "item" /\ at' = at
      BY <2>9 DEF InstallItem
    <3> QED
      BY <3>2, <3>3, <1>s, QuietChosen
  <2>10. CASE InstallItemFails
    <3>1. OthersSame /\ Mgr = "wua"
      BY <1>t, <2>10, OthersStay DEF InstallItemFails, StepInv
    <3> QED
      BY <2>10, <3>1, <2>n DEF InstallItemFails
  <2> QED
    BY <1>2, <2>1, <2>2, <2>3, <2>4, <2>5, <2>6, <2>7, <2>8, <2>9, <2>10 DEF Windows
<1>3. CASE Publish
  <2>1. /\ UNCHANGED <<job, at, step, patches, updates, todo, errs, result>>
        /\ Mgr' = Mgr /\ Conf' = Conf /\ step # "returned"
    BY <1>3 DEF Publish, Mgr, Conf, Working
  <2>2. \A k \in Managers :
           /\ k = "zypper" => released' \ late'[k] = released \ late[k]
           /\ outdated'[k] \ late'[k] \subseteq outdated[k] \ late[k]
           /\ \A x \in Due(k)' : x \in Due(k)
           /\ \A x : Permitted(k, x)' = Permitted(k, x)
    BY <1>t, <1>3, PublishIsLate
  <2>3. Chosen(todo) => Chosen(todo)'
    BY <1>m, <2>1, <2>2 DEF Chosen
  <2>4. ASSUME Mgr = "zypper", step \in {"listUpdates", "listInfo", "filter"}
        PROVE  /\ patches' \subseteq released' \ late'["zypper"]
               /\ Known(outdated["zypper"])'
               /\ Conf.withUpdate /\ step # "listUpdates" =>
                      outdated'["zypper"] \ late'["zypper"] \subseteq updates
    <3>1. /\ released' \ late'["zypper"] = released \ late["zypper"]
          /\ outdated'["zypper"] \ late'["zypper"] \subseteq outdated["zypper"] \ late["zypper"]
      BY <1>m, <2>2, <2>4
    <3> QED
      BY <1>t, <2>1, <2>4, <3>1 DEF ChosenInv, Known, Covered
  <2>5. ChosenInv'
    BY <1>t, <2>1, <2>3, <2>4 DEF ChosenInv
  <2>6. ASSUME ~job.dryRun, NEW i \in 1..Len(job.managers), Finished(i)', job.managers[i] \notin errs
        PROVE  UpToDate(job.managers[i])'
    <3>1. PICK k \in Managers : k = job.managers[i]
      BY <1>t, ManagerFacts
    <3>2. UpToDate(k)
      BY <1>t, <2>1, <2>6, <3>1 DEF DoneInv, Finished
    <3>3. UpToDate(k)'
      BY <2>2, <3>2, StaysUpToDate
    <3>4. job'.managers[i] = k
      BY <2>1, <3>1
    <3> QED
      BY <3>3, <3>4
  <2>7. DoneInv'
    BY <1>t, <2>1, <2>6 DEF DoneInv
  <2> QED
    BY <2>5, <2>7
<1>4. CASE UNCHANGED vars
  <2>1. /\ UNCHANGED <<job, at, step, result, errs, todo, patches, updates, outdated, released, late>>
        /\ Mgr' = Mgr /\ Conf' = Conf
    BY <1>4 DEF vars, machine, Mgr, Conf
  <2>2. /\ \A k : UpToDate(k)' = UpToDate(k)
        /\ Chosen(todo)' = Chosen(todo)
    BY <2>1 DEF UpToDate, Chosen, Due, Permitted
  <2>3. ChosenInv'
    BY <1>t, <2>1, <2>2 DEF ChosenInv, Known, Covered
  <2>4. DoneInv'
    <3>1. \A i : Finished(i)' = Finished(i)
      BY <2>1 DEF Finished
    <3>2. \A i : UpToDate(job.managers[i])' = UpToDate(job.managers[i])
      BY <2>1 DEF UpToDate, Due, Permitted
    <3> QED
      BY <1>t, <2>1, <3>1, <3>2 DEF DoneInv
  <2> QED
    BY <2>3, <2>4
<1> QED
  BY <1>1, <1>2, <1>3, <1>4 DEF Next

(***************************************************************************)
(* The initial states satisfy UInv: no manager is finished.                *)
(***************************************************************************)
LEMMA InitUInv == Init => UInv
<1> SUFFICES ASSUME Init PROVE UInv
  OBVIOUS
<1>1. IInv /\ StopInv
  BY InitIInv
<1>2. ChosenInv
  BY DEF Init, ChosenInv, AptSteps
<1>3. at = 1 /\ step = "begin" /\ Len(job.managers) \in Nat \ {0}
  BY <1>1, ManagerFacts DEF Init, IInv
<1>4. DoneInv
  BY <1>3 DEF DoneInv, Finished
<1> QED
  BY <1>1, <1>2, <1>4 DEF UInv

-----------------------------------------------------------------------------
(***************************************************************************)
(* For every set of patch configurations: nothing is installed that the    *)
(* configuration does not permit, and nothing in a dry run, but for the    *)
(* packages that zypper's listings do not show to be in a patch.           *)
(***************************************************************************)
THEOREM InstallsOnlySelected == Spec => []OnlySelected
<1>1. IInv => OnlySelected
  BY DEF IInv, TodoInv, OnlySelected, Installing
<1> QED
  BY <1>1, InitIInv, IInvStep, PTL DEF Spec

(***************************************************************************)
(* For every patch configuration: runUpdates returns nil only if all that  *)
(* the configuration selects of what each manager could list is installed. *)
(***************************************************************************)
THEOREM SuccessIsUpdated == Spec => []SuccessMeansUpdated
<1>1. UInv => SuccessMeansUpdated
  <2> SUFFICES ASSUME UInv, result = "ok", ~job.dryRun, NEW i \in 1..Len(job.managers)
               PROVE  UpToDate(job.managers[i])
    BY DEF SuccessMeansUpdated
  <2>1. step = "returned" /\ DoneInv /\ TypeInv
    BY DEF UInv, StopInv, IInv
  <2>2. at = Len(job.managers) /\ errs = {}
    BY <2>1 DEF DoneInv
  <2>3. Finished(i)
    BY <2>1, <2>2, ManagerFacts DEF Finished
  <2> QED
    BY <2>1, <2>2, <2>3 DEF DoneInv
<1> QED
  BY <1>1, InitUInv, UInvStep, PTL DEF Spec

(***************************************************************************)
(* A manager of a Linux machine that fails keeps no other from its         *)
(* updates, as long as no invalid exclude has ended the task before it.    *)
(***************************************************************************)
THEOREM FailuresAreContained == Spec => []FailureIsContained
<1>1. UInv => FailureIsContained
  <2> SUFFICES ASSUME UInv, step = "returned", ~job.dryRun, job.managers[1] \notin {"googet", "wua"},
                      NEW i \in 1..Len(job.managers), job.managers[i] \notin errs,
                      \A j \in 1..i : ~job.conf[job.managers[j]].invalid
               PROVE  UpToDate(job.managers[i])
    BY DEF FailureIsContained
  <2>1. DoneInv /\ TypeInv
    BY DEF UInv, IInv
  <2>2. /\ Len(job.managers) \in Nat \ {0} /\ at \in 1..Len(job.managers)
        /\ \A k \in 1..Len(job.managers) : job.managers[k] \in LinuxManagers
    BY <2>1, ManagerFacts DEF DoneInv, Managers
  <2>3. at <= i => ~Conf.invalid
    BY <2>2 DEF Conf, Mgr
  <2>4. Mgr \in LinuxManagers
    BY <2>2 DEF Mgr
  <2>5. i <= at
    BY <2>1, <2>2, <2>3, <2>4 DEF DoneInv
  <2>6. Finished(i)
    BY <2>2, <2>3, <2>4, <2>5 DEF Finished
  <2> QED
    BY <2>1, <2>6 DEF DoneInv
<1> QED
  BY <1>1, InitUInv, UInvStep, PTL DEF Spec

(***************************************************************************)
(* A STOP of the service is obeyed: no update is installed after it, and   *)
(* runUpdates does not report success.                                     *)
(***************************************************************************)
THEOREM StopIsObeyed == Spec => StopObeyed
<1>1. TypeInv /\ StopInv /\ [Next]_vars =>
         [said = "stop" => /\ \A m \in Managers : outdated[m] \subseteq outdated'[m]
                           /\ result' # "ok"]_vars
  <2> SUFFICES ASSUME TypeInv, StopInv, Next, said = "stop"
               PROVE  /\ \A m \in Managers : outdated[m] \subseteq outdated'[m]
                      /\ result' # "ok"
    OBVIOUS
  <2>1. step \in {"try", "returned"} /\ result # "ok"
    BY DEF StopInv
  <2>2. TryReport \/ Publish
    BY <2>1 DEF Next, Linux, Windows, BeginLinux, ListFails, RunAptGetUpgrade, YumCheckUpdate,
       YumListUpdates, ZypperPatches, ZypperUpdates, ZypperInfo, ZypperFilter, InstallOk,
       InstallFails, AptOk, AptAsksDowngrade, AptInterrupted, AptFails, dpkgRepair, AptSteps,
       BeginGooGet, RunGooGetUpdate, BeginWua, WuaSearchFails, WuaSearch, ItemReport, ItemsDone,
       InstallItem, InstallItemFails
  <2>3. CASE TryReport
    BY <2>3 DEF TryReport, Report, Return, machine
  <2>4. CASE Publish
    BY <2>1, <2>4 DEF Publish, TypeInv
  <2> QED
    BY <2>2, <2>3, <2>4
<1>2. Init => TypeInv
  BY InitIInv DEF IInv
<1> QED
  BY <1>1, <1>2, InitIInv, StopStep, TypeStep, PTL DEF Spec, StopObeyed
=============================================================================
