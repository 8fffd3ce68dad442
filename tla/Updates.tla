------------------------------ MODULE Updates ------------------------------
(***************************************************************************)
(* What a patch task does to the machine: runUpdates of                    *)
(* agentendpoint/patch_linux.go and patch_windows.go, with the functions   *)
(* of ospatch that list, filter and install, and the commands of packages. *)
(*                                                                         *)
(* A Linux machine goes through apt, yum and zypper and collects their     *)
(* errors; each is tried again as a whole for three minutes (RetryFunc),   *)
(* so it lists anew. A Windows machine updates by googet, then by Windows  *)
(* Update, which asks the service before each try and each update whether  *)
(* to go on. New updates are published at any moment, between two listings *)
(* too.                                                                    *)
(*                                                                         *)
(* A package, a patch and a Windows update are names, versions are only    *)
(* current or outdated, an exclude is the set of names that its string or  *)
(* its regular expression matches, and the options that narrow a listing   *)
(* (security, minimal, dist-upgrade, categories, severities, optional,     *)
(* classifications) leave out the names in Special.                        *)
(***************************************************************************)
EXTENDS Naturals, Sequences, FiniteSets

CONSTANTS
    Jobs,         \* the machine and the patch configuration of a task
    Names,        \* packages, and Windows updates by their KB number
    Patches,      \* zypper's patches
    Members,      \* the packages in each patch
    Bare,         \* the patches that zypper's information names no packages of
    Special,      \* names that only the widest options list
    MaxAttempts,  \* attempts that RetryFunc has time for
    MaxTries,     \* retries of wuaUpdates, 10 in the code
    MaxReleases   \* updates published during the task

ASSUME UpdatesAssumption ==
    /\ Members \in [Patches -> SUBSET Names] /\ Names \cap Patches = {} /\ Bare \subseteq Patches
    /\ MaxAttempts \in Nat \ {0} /\ MaxTries \in Nat \ {0} /\ MaxReleases \in Nat

VARIABLES
    job,       \* the task
    at,        \* the position in job.managers
    step,      \* where runUpdates is
    attempt,   \* attempts of RetryFunc or of wuaUpdates
    outdated,  \* the machine: per manager, what has an update to install
    released,  \* the patches that are published
    broken,    \* dpkg was interrupted
    patches,   \* the result of ZypperPatches
    updates,   \* the result of ZypperUpdates
    todo,      \* what is being installed
    errs,      \* the managers that have failed
    said,      \* the service's last answer to a progress report
    result,    \* what runUpdates returned
    late,      \* history: published since the last listing of a manager
    releases   \* how many were published

machine == <<outdated, released, broken, late, releases>>
vars == <<job, at, step, attempt, patches, updates, todo, errs, said, result, machine>>

Mgr == job.managers[at]
Conf == job.conf[Mgr]
LinuxManagers == {"apt", "yum", "zypper"}
Managers == LinuxManagers \cup {"googet", "wua"}

\* runUpdates of Linux or of Windows, which names each manager once; googet is given
\* no options but the dry run.
ASSUME JobsAssumption ==
    \A j \in Jobs :
        /\ j.managers \in Seq(LinuxManagers) \cup Seq({"googet", "wua"})
        /\ j.managers # <<>>
        /\ \A i, k \in DOMAIN j.managers : j.managers[i] = j.managers[k] => i = k
        /\ ~j.conf["googet"].narrow

\* The patches that the package database calls needed.
Needed == {p \in released : Members[p] \cap outdated["zypper"] # {}}

\* What the commands list with the task's options.
Offered(all, conf) == IF conf.narrow THEN all \ Special ELSE all

-----------------------------------------------------------------------------
(* Filters *)

shouldPackageBeExcluded(excludes, name) == \E e \in excludes : name \in e

filterPackages(pkgs, conf) ==
    {n \in pkgs : /\ ~shouldPackageBeExcluded(conf.excludes, n)
                  /\ conf.exclusives = {} \/ n \in conf.exclusives}

\* filterPackages refuses a configuration with both lists.
Contradiction(conf) == conf.exclusives # {} /\ conf.excludes # {}

\* pkgToPatchesMap has the packages of the patches that were read as its keys.
PackagesInPatch(ps) == UNION {Members[p] : p \in ps}

\* The patches of `ps` whose packages parseZypperPatchInfo may come to know. A patch
\* without a Conflicts block takes the one of the next patch; if it is the last, the
\* map is nil, and so is the error: then no package is known to be in any patch.
PatchInfo(ps) ==
    {known \in {ps \ Bare, {}} :
        IF known = {} THEN ps = {} \/ ps \cap Bare # {} ELSE ps \ Bare # {}}

\* Variant of runFilter that looks for packages only in the patches it installs.
runFilterOfChosen(conf, known) ==
    LET chosen == {p \in patches : ~shouldPackageBeExcluded(conf.excludes, p)}
    IN IF conf.exclusives # {} THEN patches \cap conf.exclusives
       ELSE chosen \cup (IF conf.withUpdate THEN updates \ PackagesInPatch(known \cap chosen) ELSE {})

\* runFilter. Exclusive patches leave out everything else; a package that a listed
\* patch is known to have, an excluded one too, is left to the patches.
runFilter(conf, known) ==
    IF conf.exclusives # {} THEN patches \cap conf.exclusives
    ELSE {p \in patches : ~shouldPackageBeExcluded(conf.excludes, p)}
         \cup (IF conf.withUpdate THEN updates \ PackagesInPatch(known) ELSE {})

\* checkFilters for one Windows update.
checkFilters(u, conf) ==
    IF conf.exclusives # {} THEN u \in conf.exclusives
    ELSE /\ ~shouldPackageBeExcluded(conf.excludes, u)
         /\ conf.narrow => u \notin Special

-----------------------------------------------------------------------------
Init ==
    /\ job \in Jobs
    /\ at = 1 /\ step = "begin" /\ attempt = 1
    /\ outdated \in [Managers -> SUBSET Names]
    /\ \A m \in Managers : (\A i \in 1..Len(job.managers) : job.managers[i] # m) => outdated[m] = {}
    /\ released \in SUBSET Patches
    /\ (\A i \in 1..Len(job.managers) : job.managers[i] # "zypper") => released = {}
    /\ broken \in BOOLEAN
    /\ (job.managers[1] # "apt" => ~broken)
    /\ patches = {} /\ updates = {} /\ todo = {}
    /\ errs = {}
    /\ said = "go"
    /\ result = "none"
    /\ late = [m \in Managers |-> {}]
    /\ releases = 0

Return(r) == step' = "returned" /\ result' = r /\ UNCHANGED <<at, attempt>>

\* runUpdates goes on with the next manager, or returns.
NextManager(es) ==
    IF at < Len(job.managers)
      THEN /\ at' = at + 1 /\ step' = "begin" /\ attempt' = 1
           /\ UNCHANGED result
      ELSE Return(IF es = {} THEN "ok" ELSE "error")

Succeed == NextManager(errs) /\ UNCHANGED errs

\* Variant of Fail that ends runUpdates at the first manager that fails.
FailReturns ==
    IF attempt < MaxAttempts
      THEN attempt' = attempt + 1 /\ step' = "list" /\ UNCHANGED <<at, result, errs>>
      ELSE errs' = errs \cup {Mgr} /\ Return("error")

\* An attempt of RetryFunc ends with an error. googet's error ends runUpdates.
Fail ==
    IF attempt < MaxAttempts
      THEN attempt' = attempt + 1 /\ step' = "list" /\ UNCHANGED <<at, result, errs>>
      ELSE /\ errs' = errs \cup {Mgr}
           /\ IF Mgr = "googet" THEN Return("error") ELSE NextManager(errs')

Working == step # "returned"

\* The excludes are converted before the manager is tried.
BeginLinux ==
    /\ step = "begin" /\ Mgr \in LinuxManagers
    /\ IF Conf.invalid THEN Return("error") ELSE step' = "list" /\ UNCHANGED <<at, attempt, result>>
    /\ UNCHANGED <<job, patches, updates, todo, errs, said, machine>>

\* A progress report: the service lets the task go on, stops it, or is not reached.
\* `go` is the step it leads to. The agent keeps no note of a STOP, and asks again:
\* it is the service that is taken to repeat it.
Report(go, stopped, failed) ==
    \/ /\ said = "go" /\ step' = go /\ UNCHANGED <<at, attempt, result, said, todo>>
    \/ said' = "stop" /\ stopped
    \/ UNCHANGED said /\ failed

BeginGooGet ==
    /\ step = "begin" /\ Mgr = "googet"
    /\ Report("list", Return("cancelled") /\ UNCHANGED todo, Return("error") /\ UNCHANGED todo)
    /\ UNCHANGED <<job, patches, updates, errs, machine>>
-----------------------------------------------------------------------------
(* Listing *)

Listing == late' = [late EXCEPT ![Mgr] = {}] /\ UNCHANGED <<outdated, released, broken, releases>>

\* An attempt that has found `sel`: nothing to do, a dry run, or an installation.
Found(sel) ==
    IF sel = {} \/ job.dryRun THEN Succeed /\ UNCHANGED todo
    ELSE step' = "install" /\ todo' = sel /\ UNCHANGED <<at, attempt, result, errs>>

ListFails ==
    /\ step \in {"list", "listUpdates", "listInfo"}
    /\ Fail
    /\ UNCHANGED <<job, patches, updates, todo, said, machine>>

\* AptUpdates (with the packages a dist-upgrade brings in, or without), YumUpdates
\* (all, or the security updates) and GooGetUpdates, which has no options.
AptUpdates == Offered(outdated["apt"], Conf)
YumUpdates == Offered(outdated["yum"], Conf)
GooGetUpdates == outdated["googet"]

FoundAfter(updts) ==
    IF Contradiction(Conf) THEN Fail /\ UNCHANGED todo ELSE Found(filterPackages(updts, Conf))

RunAptGetUpgrade ==
    /\ step = "list" /\ Mgr = "apt"
    /\ FoundAfter(AptUpdates)
    /\ Listing
    /\ UNCHANGED <<job, patches, updates, said>>

RunGooGetUpdate ==
    /\ step = "list" /\ Mgr = "googet"
    /\ FoundAfter(GooGetUpdates)
    /\ Listing
    /\ UNCHANGED <<job, patches, updates, said>>

\* yum check-update: nothing to update, which filterPackages gets, or a listing.
YumCheckUpdate ==
    /\ step = "list" /\ Mgr = "yum"
    /\ IF outdated["yum"] = {} THEN FoundAfter({})
       ELSE step' = "listUpdates" /\ UNCHANGED <<at, attempt, result, errs, todo>>
    /\ Listing
    /\ UNCHANGED <<job, patches, updates, said>>

\* yum update --assumeno, which exits with 0 if the options leave nothing.
YumListUpdates ==
    /\ step = "listUpdates" /\ Mgr = "yum"
    /\ FoundAfter(YumUpdates)
    /\ UNCHANGED <<job, patches, updates, said, machine>>

ZypperPatches ==
    /\ step = "list" /\ Mgr = "zypper"
    /\ patches' = Offered(Needed, Conf)
    /\ updates' = {}
    /\ step' = IF Conf.withUpdate THEN "listUpdates" ELSE "filter"
    /\ Listing
    /\ UNCHANGED <<job, at, attempt, result, errs, todo, said>>

ZypperUpdates ==
    /\ step = "listUpdates" /\ Mgr = "zypper"
    /\ updates' = outdated["zypper"]
    /\ step' = "listInfo"
    /\ UNCHANGED <<job, at, attempt, result, errs, patches, todo, said, machine>>

\* ZypperPackagesInPatch: what a patch contains does not change, so the filter looks
\* up what the information says.
ZypperInfo ==
    /\ step = "listInfo" /\ Mgr = "zypper"
    /\ step' = "filter"
    /\ UNCHANGED <<job, at, attempt, result, errs, patches, updates, todo, said, machine>>

ZypperFilter ==
    /\ step = "filter"
    /\ \E known \in PatchInfo(patches) : Found(runFilter(Conf, known))
    /\ UNCHANGED <<job, patches, updates, said, machine>>

-----------------------------------------------------------------------------
(* Installing *)

\* What is no longer outdated once `done` is installed: a patch brings its packages.
Brought(done) == done \cup PackagesInPatch(done \cap Patches)

Install(done) == outdated' = [outdated EXCEPT ![Mgr] = @ \ Brought(done)]

\* The command succeeds, with zypper's exit code 102 too.
InstallOk ==
    /\ step = "install" /\ Mgr \in {"yum", "zypper", "googet"}
    /\ Install(todo)
    /\ Succeed
    /\ todo' = {}
    /\ UNCHANGED <<job, patches, updates, said, released, broken, late, releases>>

\* It fails, and has installed some of it.
InstallFails ==
    /\ step = "install" /\ Mgr \in {"yum", "zypper", "googet"}
    /\ \E done \in SUBSET todo : done # todo /\ Install(done)
    /\ Fail
    /\ todo' = {}
    /\ UNCHANGED <<job, patches, updates, said, released, broken, late, releases>>

\* apt-get install: at most four runs, a second one that allows downgrades each
\* time, and two more after a repair of dpkg.
AptSteps == {"install", "downgrade", "reinstall", "redowngrade"}

AptOk ==
    /\ step \in AptSteps /\ Mgr = "apt" /\ ~broken
    /\ Install(todo)
    /\ Succeed
    /\ todo' = {}
    /\ UNCHANGED <<job, patches, updates, said, released, broken, late, releases>>

AptAsksDowngrade ==
    /\ step \in {"install", "reinstall"} /\ Mgr = "apt" /\ ~broken
    /\ step' = IF step = "install" THEN "downgrade" ELSE "redowngrade"
    /\ UNCHANGED <<job, at, attempt, result, errs, patches, updates, todo, said, machine>>

\* dpkg is interrupted, or was and refuses to work: its error is in the output.
AptInterrupted ==
    /\ step \in AptSteps /\ Mgr = "apt"
    /\ \E done \in SUBSET todo : (broken => done = {}) /\ Install(done)
    /\ broken' = TRUE
    /\ IF step \in {"install", "downgrade"}
         THEN step' = "repair" /\ UNCHANGED <<at, attempt, result, errs, todo>>
         ELSE Fail /\ todo' = {}
    /\ UNCHANGED <<job, patches, updates, said, released, late, releases>>

AptFails ==
    /\ step \in AptSteps /\ Mgr = "apt" /\ ~broken
    /\ \E done \in SUBSET todo : done # todo /\ Install(done)
    /\ Fail
    /\ todo' = {}
    /\ UNCHANGED <<job, patches, updates, said, released, broken, late, releases>>

\* dpkg --configure -a, whose error is ignored.
dpkgRepair ==
    /\ step = "repair"
    /\ broken' \in BOOLEAN
    /\ step' = "reinstall"
    /\ UNCHANGED <<job, at, attempt, result, errs, patches, updates, todo, said, outdated, released, late, releases>>
-----------------------------------------------------------------------------
(* Windows Update *)

BeginWua ==
    /\ step = "begin" /\ Mgr = "wua"
    /\ IF Conf.invalid THEN Return("error") ELSE step' = "try" /\ UNCHANGED <<at, attempt, result>>
    /\ UNCHANGED <<job, patches, updates, todo, errs, said, machine>>

TryReport ==
    /\ step = "try"
    /\ Report("search", Return("cancelled") /\ UNCHANGED todo, Return("error") /\ UNCHANGED todo)
    /\ UNCHANGED <<job, patches, updates, errs, machine>>

\* A try that failed, or that found something to install, is followed by another.
NextTry ==
    /\ todo' = {}
    /\ IF attempt < MaxTries THEN attempt' = attempt + 1 /\ step' = "try" /\ UNCHANGED <<at, result>>
       ELSE Return("error")

WuaSearchFails ==
    /\ step = "search"
    /\ NextTry
    /\ UNCHANGED <<job, patches, updates, errs, said, machine>>

WuaSearch ==
    /\ step = "search"
    /\ LET sel == {u \in outdated["wua"] : checkFilters(u, Conf)}
       IN IF sel = {} \/ job.dryRun THEN Succeed /\ UNCHANGED todo
          ELSE step' = "item" /\ todo' = sel /\ UNCHANGED <<at, attempt, result, errs>>
    /\ Listing
    /\ UNCHANGED <<job, patches, updates, said>>

\* Variant of ItemReport that goes on with the update whatever the answer is.
ItemReportIgnored ==
    /\ step = "item" /\ todo # {}
    /\ Report("installItem",
              step' = "installItem" /\ UNCHANGED <<at, attempt, result, todo>>,
              step' = "installItem" /\ UNCHANGED <<at, attempt, result, todo>>)
    /\ UNCHANGED <<job, patches, updates, errs, machine>>

\* The report before each update. Its error, a stop too, only ends the try.
ItemReport ==
    /\ step = "item" /\ todo # {}
    /\ Report("installItem", NextTry, NextTry)
    /\ UNCHANGED <<job, patches, updates, errs, machine>>

\* Variant of ItemsDone that does not search again.
ItemsDoneSucceeds ==
    /\ step = "item" /\ todo = {}
    /\ Succeed
    /\ UNCHANGED <<job, patches, updates, todo, said, machine>>

ItemsDone ==
    /\ step = "item" /\ todo = {}
    /\ NextTry
    /\ UNCHANGED <<job, patches, updates, errs, said, machine>>

\* InstallWUAUpdate without an error. The result code of Install is not read: the
\* update may not be installed.
InstallItem ==
    /\ step = "installItem"
    /\ \E u \in todo :
         /\ todo' = todo \ {u}
         /\ Install({u}) \/ UNCHANGED outdated
    /\ step' = "item"
    /\ UNCHANGED <<job, at, attempt, result, patches, updates, errs, said, released, broken, late, releases>>

InstallItemFails ==
    /\ step = "installItem"
    /\ NextTry
    /\ UNCHANGED <<job, patches, updates, errs, said, machine>>

-----------------------------------------------------------------------------
\* Updates are published: of a package or a Windows update, or a patch.
Publish ==
    /\ Working /\ releases < MaxReleases
    /\ releases' = releases + 1
    /\ \E i \in 1..Len(job.managers) :
         LET m == job.managers[i] IN
         \/ \E n \in Names \ outdated[m] :
              /\ outdated' = [outdated EXCEPT ![m] = @ \cup {n}]
              /\ late' = [late EXCEPT ![m] = @ \cup {n}]
              /\ UNCHANGED released
         \/ /\ m = "zypper"
            /\ \E p \in Patches \ released :
                 /\ released' = released \cup {p}
                 /\ outdated' = [outdated EXCEPT !["zypper"] = @ \cup Members[p]]
                 /\ late' = [late EXCEPT !["zypper"] =
                                 @ \cup {p} \cup (Members[p] \ outdated["zypper"])]
    /\ UNCHANGED <<job, at, step, attempt, patches, updates, todo, errs, said, result, broken>>

Linux ==
    \/ BeginLinux \/ ListFails \/ RunAptGetUpgrade \/ YumCheckUpdate \/ YumListUpdates
    \/ ZypperPatches \/ ZypperUpdates \/ ZypperInfo \/ ZypperFilter
    \/ InstallOk \/ InstallFails
    \/ AptOk \/ AptAsksDowngrade \/ AptInterrupted \/ AptFails \/ dpkgRepair

Windows ==
    \/ BeginGooGet \/ RunGooGetUpdate \/ BeginWua \/ TryReport \/ WuaSearchFails \/ WuaSearch
    \/ ItemReport \/ ItemsDone \/ InstallItem \/ InstallItemFails

Next == Linux \/ Windows \/ Publish

Spec == Init /\ [][Next]_vars

-----------------------------------------------------------------------------
\* What the configuration of manager `m` permits to be installed: an exclusive name
\* if there are any, and else a name that no exclude matches and the options cover.
\* zypper's lists are about patches; a package alone is for --with-update, and only
\* if no patch has it that was published when the patches were listed.
Permitted(m, x) ==
    LET c == job.conf[m]
        covered(y) == c.narrow => y \notin Special
    IN IF m = "zypper" /\ x \in Names
         THEN /\ c.withUpdate /\ c.exclusives = {}
              /\ \A p \in released \ late[m] : x \in Members[p] => ~covered(p)
         ELSE IF c.exclusives # {} THEN x \in c.exclusives /\ (m = "wua" \/ covered(x))
         ELSE covered(x) /\ \A e \in c.excludes : x \notin e

\* What zypper's listings may have the filter take for no part of a patch: what was
\* published since the first of them, and any package if a listed patch is bare.
Overlooked(x) == x \in late["zypper"] \/ (x \in Names /\ patches \cap Bare # {})

(***************************************************************************)
(* Nothing is installed that the patch configuration does not permit, and  *)
(* nothing at all in a dry run, although what is listed changes between    *)
(* the listings of one attempt and from attempt to attempt: a package of a *)
(* patch that is excluded is not brought in by --with-update. Only zypper  *)
(* can be wrong about that, if the patch is published between its listings *)
(* or if a listed patch comes without a Conflicts block: an empty map, and *)
(* no error, is then what ZypperPackagesInPatch returns.                   *)
(***************************************************************************)
OnlySelected ==
    step \in AptSteps \cup {"repair", "installItem"} =>
        /\ ~job.dryRun
        /\ \A x \in todo : Permitted(Mgr, x) \/ (Mgr = "zypper" /\ Overlooked(x))

\* What manager `m` can have known of at its last listing: outdated packages and,
\* for zypper, the patches that have one.
Due(m) ==
    LET old == outdated[m] \ late[m]
    IN IF m = "zypper" THEN old \cup {p \in released \ late[m] : Members[p] \cap old # {}}
       ELSE old

UpToDate(m) == \A x \in Due(m) : ~Permitted(m, x)

(***************************************************************************)
(* runUpdates returns nil only if everything that the configuration        *)
(* selects and that was published before the last listing is installed:    *)
(* through retries after partly failed installations, an interrupted dpkg, *)
(* and Windows updates whose failure no error tells.                       *)
(***************************************************************************)
SuccessMeansUpdated ==
    result = "ok" /\ ~job.dryRun =>
        \A i \in 1..Len(job.managers) : UpToDate(job.managers[i])

(***************************************************************************)
(* One package manager of a Linux machine that fails does not keep the     *)
(* others from their updates. The exception is an exclude that is no       *)
(* regular expression: it ends the task when its manager's turn comes, and *)
(* the managers before it have already been updated.                       *)
(***************************************************************************)
FailureIsContained ==
    step = "returned" /\ ~job.dryRun /\ job.managers[1] \notin {"googet", "wua"} =>
        \A i \in 1..Len(job.managers) :
            (/\ job.managers[i] \notin errs
             /\ \A j \in 1..i : ~job.conf[job.managers[j]].invalid)
                => UpToDate(job.managers[i])

(***************************************************************************)
(* Once the service has answered a progress report with STOP, no further   *)
(* Windows update is installed and the task does not end well, although    *)
(* the loop over the updates hands the answer on as an error like any      *)
(* other, which wuaUpdates only logs.                                      *)
(***************************************************************************)
StopObeyed ==
    [][said = "stop" =>
          /\ \A m \in Managers : outdated[m] \subseteq outdated'[m]
          /\ result' # "ok"]_vars
=============================================================================
