-------------------------- MODULE ConfigResources --------------------------
(***************************************************************************)
(* The resources of an ApplyConfig task (config/*_resource.go) and the     *)
(* machine they manage, composed with the task that drives them: every     *)
(* step of ConfigTask that calls Validate, CheckState, EnforceState or     *)
(* Cleanup is taken together with what that method does and returns.       *)
(*                                                                         *)
(* The machine is its installed packages and its files.  The package       *)
(* managers of a machine share one database, but the agent keeps one cache *)
(* of the installed packages per manager (aptInstalled, debInstalled, ...) *)
(* and throws a cache away only when it acts through that manager.         *)
(* Contents of files stand for their checksums.  Nobody but the task       *)
(* changes the machine, and os.RemoveAll does not fail.                    *)
(***************************************************************************)
EXTENDS ConfigTask

CONSTANTS
    Resource,  \* Resource[r]: what the resource with id r asks for
    Managers,  \* the package managers that exist on the machine
    Packages,  \* names of packages
    Paths,     \* paths of files
    Contents,  \* contents of files
    Torn,      \* the content of a file whose writing was interrupted
    Absent,    \* no file
    NoCache    \* a nil cache

VARIABLES
    installed, \* the installed packages
    files,     \* files[f]: the content of the file at path f
    cache,     \* cache[m]: the installed-package cache of manager m
    infoMem,   \* packageInfoCacheStore: the sources whose package is known
    infoDisk,  \* packageInfoCacheFile
    pulled,    \* positions whose object has a localPath or source
    sum,       \* sum[p]: the content whose checksum the file resource keeps
    temp,      \* temp[p]: temporary directories made for the object of p
    foreign,   \* managers whose cache is older than a change to the machine
               \* that was not made through that manager
    doubt      \* positions whose last check was answered by such a cache

machine == <<installed, files>>
objectVars == <<pulled, sum, temp>>
resourceVars == <<machine, cache, infoMem, infoDisk, objectVars, foreign, doubt>>
allVars == <<vars, resourceVars>>

Res(p) == Resource[Policy(p).resources[p[2]]]

FileStates == Contents \cup {Torn, Absent}

(***************************************************************************)
(* Types, and a bound: an object makes at most one temporary directory, as *)
(* it remembers only one for its cleanup.                                  *)
(***************************************************************************)
ResourceTypeOK ==
    /\ TypeOK
    /\ installed \subseteq Packages
    /\ files \in [Paths -> FileStates]
    /\ cache \in [Managers -> (SUBSET Packages) \cup {NoCache}]
    /\ pulled \subseteq Positions
    /\ sum \in [Positions -> FileStates]
    /\ temp \in [Positions -> 0..1]
    /\ foreign \subseteq {m \in Managers : cache[m] # NoCache}
    /\ doubt \subseteq Positions

\* The package is given as a file, and its name is read from the file.
FromFile(r) == r.type = "package" /\ r.manager \in {"deb", "rpm", "msi"}

Sources == {Resource[x].source : x \in {y \in DOMAIN Resource : FromFile(Resource[y])}}

\* The caches may be filled by a task that ran less than three minutes ago.
ResourceInit ==
    /\ Init
    /\ installed \in SUBSET Packages
    /\ files \in [Paths -> {Absent} \cup Contents]
    /\ cache \in {[m \in Managers |-> NoCache], [m \in Managers |-> installed]}
    /\ infoMem = NoCache
    /\ infoDisk \in SUBSET Sources
    /\ pulled = {}
    /\ sum = [p \in Positions |-> Absent]
    /\ temp = [p \in Positions |-> 0]
    /\ foreign = {}
    /\ doubt = {}

-----------------------------------------------------------------------------
(* Downloads *)

\* A new temporary directory, then the file; each of the two may fail.  A
\* file that is local is used where it is, but a script has a directory even so.
Download(p, ok) ==
    /\ temp' \in IF Res(p).type # "exec" /\ Res(p).local THEN {temp}
                 ELSE {[temp EXCEPT ![p] = @ + 1]} \cup (IF ok THEN {} ELSE {temp})
    /\ pulled' = IF ok THEN pulled \cup {p} ELSE pulled

NoDownload == UNCHANGED <<temp, pulled>>

-----------------------------------------------------------------------------
(* Package resources *)

Acceptable(r) == r.manager \in Managers /\ (FromFile(r) => r.want = "INSTALLED")

Loaded == IF infoMem = NoCache THEN infoDisk ELSE infoMem

\* updatePackageInfoCache: entries older than seven days are dropped.
UpdateInfoCache(source) == infoMem' \in {old \cup {source} : old \in SUBSET Loaded}

ValidatePackage(p, ok) ==
    LET r == Res(p) IN
    /\ ok => Acceptable(r)
    /\ \/ ~FromFile(r) /\ (Acceptable(r) => ok) /\ NoDownload /\ UNCHANGED infoMem
       \/ FromFile(r) /\ ~ok /\ NoDownload /\ UNCHANGED infoMem
       \/ /\ FromFile(r) /\ ok /\ r.source \in Loaded
          /\ NoDownload
          /\ UpdateInfoCache(r.source)
       \/ /\ FromFile(r) /\ Acceptable(r) /\ r.source \notin Loaded
          /\ Download(p, ok)
          /\ IF ok THEN UpdateInfoCache(r.source) ELSE infoMem' = Loaded
    /\ UNCHANGED sum

\* populateInstalledCache: the cache is used for three minutes, then, or
\* when it is nil, the packages are listed again.  There is none for msi.
PopulateInstalledCache(m) ==
    \/ cache[m] # NoCache /\ UNCHANGED <<cache, foreign>>
    \/ m = "msi" /\ UNCHANGED <<cache, foreign>>
    \/ /\ m # "msi"
       /\ cache' = [cache EXCEPT ![m] = installed]
       /\ foreign' = foreign \ {m}

Answer(yes) == IF yes THEN "COMPLIANT" ELSE "NON_COMPLIANT"

\* The packages that manager m is seen to have installed.
Seen(m) == IF m = "msi" THEN installed ELSE cache'[m]

CheckPackage(p, result) ==
    LET r == Res(p) IN
    \/ /\ PopulateInstalledCache(r.manager)
       /\ result = IF r.want \in {"INSTALLED", "REMOVED"}
                     THEN Answer((r.pkg \in Seen(r.manager)) <=> r.want = "INSTALLED")
                     ELSE "UNKNOWN"
       /\ doubt' = IF r.manager \in foreign' THEN doubt \cup {p} ELSE doubt \ {p}
    \/ /\ result = "UNKNOWN"  \* the packages cannot be listed
       /\ UNCHANGED <<cache, foreign, doubt>>

\* The caches that do not know of the packages somebody else has changed.
ForeignTo(except) ==
    IF installed' = installed THEN {}
                              ELSE {m \in Managers \ except : cache[m] # NoCache}

\* Variant of ActThrough that does not throw the cache away.
ActKeepsCache(m) ==
    /\ cache' = cache
    /\ foreign' = foreign \cup ForeignTo({m})

\* "Reset the cache as we are taking action on."
ActThrough(m) ==
    /\ cache' = [cache EXCEPT ![m] = NoCache]
    /\ foreign' = (foreign \cup ForeignTo({m})) \ {m}

\* The manager does what it is asked for, or fails; with dependencies and
\* conflicts, other packages may come and go as well.
EnforcePackage(p, ok) ==
    LET r == Res(p) IN
    /\ IF FromFile(r) /\ p \notin pulled THEN Download(p, TRUE) ELSE NoDownload
    /\ installed' \in SUBSET Packages
    /\ ok => (r.pkg \in installed' <=> r.want = "INSTALLED")
    /\ ActThrough(r.manager)
    /\ UNCHANGED files

\* The file cannot be downloaded or, for an rpm with dependencies, there
\* is no manager to install it: an error before anything is done.
EnforcePackageRefused(p) ==
    /\ FromFile(Res(p))
    /\ IF p \in pulled THEN NoDownload ELSE Download(p, FALSE)
    /\ UNCHANGED <<machine, cache, foreign>>

-----------------------------------------------------------------------------
(* File resources *)

\* What the file resource would copy now.
SourceNow(p) == IF Res(p).local THEN files[Res(p).from] ELSE Res(p).content

ValidateFile(p, ok) ==
    LET r == Res(p) IN
    \/ /\ r.state = "ABSENT"
       /\ ok
       /\ NoDownload /\ UNCHANGED sum
    \/ /\ r.state # "ABSENT"
       /\ ~ok
       /\ NoDownload /\ UNCHANGED sum
    \/ /\ r.state = "PRESENT" /\ ~r.local /\ files[r.path] # Absent
       /\ ok
       /\ NoDownload /\ UNCHANGED sum
    \/ /\ r.state = "CONTENTS_MATCH" \/ (r.state = "PRESENT" /\ (r.local \/ files[r.path] = Absent))
       /\ SourceNow(p) # Absent
       /\ Download(p, ok)
       /\ sum' = IF ok THEN [sum EXCEPT ![p] = SourceNow(p)] ELSE sum

\* contentsMatch: an error to open the file is an error of the check.
ContentsMatch(path, content) == files[path] = content

FileInState(p) ==
    LET r == Res(p) IN
    CASE r.state = "ABSENT" -> files[r.path] = Absent
      [] r.state = "PRESENT" -> files[r.path] # Absent
      [] r.state = "CONTENTS_MATCH" -> ContentsMatch(r.path, sum[p])

CheckFile(p, result) ==
    \/ result = Answer(FileInState(p))
    \/ result = "UNKNOWN" /\ Res(p).state = "CONTENTS_MATCH"

\* os.Remove, or copyFile, which truncates the file first.
EnforceFile(p, ok) ==
    LET r == Res(p)
        put(c) == [files EXCEPT ![r.path] = c]
    IN
    /\ \/ /\ r.state = "ABSENT"
          /\ files' = IF ok THEN put(Absent) ELSE files
          /\ NoDownload
       \/ /\ r.state # "ABSENT"
          /\ ok => SourceNow(p) # Absent
          /\ files' \in IF ok THEN {put(SourceNow(p))} ELSE {files, put(Torn)}
          /\ IF p \in pulled THEN NoDownload ELSE Download(p, ok)
    /\ UNCHANGED <<installed, cache, foreign>>

-----------------------------------------------------------------------------
(* Repository resources: a file whose path is made from its checksum and,  *)
(* for apt, the file of the key                                            *)

HasKey(r) == r.keyPath # Absent

\* The manager does not exist or the key cannot be fetched.
ValidateRepository(p, ok) ==
    /\ ok => Res(p).manager \in Managers
    /\ (Res(p).manager \in Managers /\ ~HasKey(Res(p))) => ok
    /\ NoDownload /\ UNCHANGED sum

RepositoryInState(r) ==
    /\ HasKey(r) => ContentsMatch(r.keyPath, r.key)
    /\ ContentsMatch(r.path, r.content)

CheckRepository(p, result) ==
    result \in {"UNKNOWN", Answer(RepositoryInState(Res(p)))}

\* The key first, which is overwritten in place, then the repository file,
\* which is replaced as a whole.
EnforceRepository(p, ok) ==
    LET r == Res(p)
        key(c) == IF HasKey(r) THEN [files EXCEPT ![r.keyPath] = c] ELSE files
    IN
    /\ files' \in IF ok THEN {[key(r.key) EXCEPT ![r.path] = r.content]}
                  ELSE {files, key(Torn), key(r.key)}
    /\ NoDownload
    /\ UNCHANGED <<installed, cache, foreign>>

-----------------------------------------------------------------------------
(* Exec resources: scripts whose exit code is the answer *)

ValidateExec(p, ok) ==
    /\ Download(p, ok)
    /\ UNCHANGED sum

\* Exit code 100, 101 or anything else; the script changes nothing.
CheckExec(p, result) == result \in {"COMPLIANT", "NON_COMPLIANT", "UNKNOWN"}

\* The script may change packages and files and, at the end, succeed or not.
EnforceExec(p) ==
    /\ \/ UNCHANGED machine
       \/ installed' \in SUBSET Packages /\ UNCHANGED files
       \/ \E f \in Paths, c \in Contents \cup {Absent} :
            files' = [files EXCEPT ![f] = c] /\ UNCHANGED installed
    /\ NoDownload
    /\ foreign' = foreign \cup ForeignTo({})
    /\ UNCHANGED cache

-----------------------------------------------------------------------------
(* The methods of OSPolicyResource, called by the steps of the task *)

DoValidate(ok) ==
    /\ Validate(ok)
    /\ \/ Res(at).type = "package" /\ ValidatePackage(at, ok)
       \/ /\ \/ Res(at).type = "file" /\ ValidateFile(at, ok)
             \/ Res(at).type = "repository" /\ ValidateRepository(at, ok)
             \/ Res(at).type = "exec" /\ ValidateExec(at, ok)
          /\ UNCHANGED infoMem
    /\ UNCHANGED <<machine, cache, infoDisk, foreign, doubt>>

CheckResource(p, result) ==
    /\ \/ Res(p).type = "package" /\ CheckPackage(p, result)
       \/ /\ \/ Res(p).type = "file" /\ CheckFile(p, result)
             \/ Res(p).type = "repository" /\ CheckRepository(p, result)
             \/ Res(p).type = "exec" /\ CheckExec(p, result)
          /\ UNCHANGED <<cache, foreign, doubt>>
    /\ UNCHANGED <<machine, infoMem, infoDisk, objectVars>>

DoCheck ==
    \/ \E desired \in BOOLEAN : CheckState(desired) /\ CheckResource(at, Answer(desired))
    \/ CheckStateError /\ CheckResource(at, "UNKNOWN")

DoPostCheck ==
    \E result \in {"UNKNOWN", "COMPLIANT", "NON_COMPLIANT"} :
        PostCheck(result) /\ CheckResource(objects[Key(at)].at, result)

\* Only an exec resource can be in its desired state and return an error:
\* the script succeeded and its output cannot be read.
DoEnforce ==
    /\ \E ok, desired \in BOOLEAN :
         /\ EnforceState(ok, desired)
         /\ ok => desired
         /\ desired /\ ~ok => Res(at).type = "exec"
         /\ \/ Res(at).type = "package" /\ EnforcePackage(at, ok)
            \/ Res(at).type = "package" /\ ~ok /\ EnforcePackageRefused(at)
            \/ Res(at).type = "file" /\ EnforceFile(at, ok)
            \/ Res(at).type = "repository" /\ EnforceRepository(at, ok)
            \/ Res(at).type = "exec" /\ EnforceExec(at)
    /\ UNCHANGED <<infoMem, infoDisk, sum, doubt>>

\* Variant of DoCleanup that cleans up after package resources only.
CleanupPackagesOnly ==
    /\ Cleanup
    /\ temp' = [p \in Positions |-> IF Res(p).type = "package" THEN 0 ELSE temp[p]]
    /\ infoMem' = NoCache
    /\ UNCHANGED <<infoDisk, machine, cache, pulled, sum, foreign, doubt>>

\* Every object removes the directory it remembers; package resources also
\* save the package info cache, which may fail half way.
DoCleanup ==
    /\ Cleanup
    /\ temp' = [p \in Positions |->
                  IF p \in {objects[k].at : k \in DOMAIN objects} /\ temp[p] > 0
                    THEN temp[p] - 1 ELSE temp[p]]
    /\ IF infoMem = NoCache
         THEN UNCHANGED infoDisk
         ELSE infoDisk' \in {infoMem, infoDisk, {}}
    /\ infoMem' = NoCache
    /\ UNCHANGED <<machine, cache, pulled, sum, foreign, doubt>>

\* The steps of the task that call no resource.
TaskOnly ==
    /\ \/ ReportStarted \/ NoPolicies \/ StartedError
       \/ ReportApplying \/ ApplyingError
       \/ EnterPolicy \/ NoEnforcement \/ SkipPostCheck
       \/ ReportCompleted \/ CleanupPanics
    /\ UNCHANGED resourceVars

ResourceNext ==
    \/ TaskOnly
    \/ \E ok \in BOOLEAN : DoValidate(ok)
    \/ DoCheck
    \/ DoEnforce
    \/ DoPostCheck
    \/ DoCleanup

ResourceSpec == ResourceInit /\ [][ResourceNext]_allVars

-----------------------------------------------------------------------------
(* Properties *)

InDesiredState(p) ==
    LET r == Res(p) IN
    CASE r.type = "package" -> (r.pkg \in installed) <=> r.want = "INSTALLED"
      [] r.type = "file" -> FileInState(p)
      [] r.type = "repository" -> RepositoryInState(r)

(***************************************************************************)
(* What the final report says of a package, file or repository is how the  *)
(* machine is, although resources undo each other's work, enforcements     *)
(* fail half way and packages are looked up in caches.  The one exception  *)
(* are packages that were looked up in a cache older than a change made by *)
(* another package manager or by a script: populateInstalledCache cannot   *)
(* know of that change; and policies whose id comes again in the task.     *)
(***************************************************************************)
ReportIsTrue ==
    Completed => \A p \in Positions :
        (/\ state[p] \in {"COMPLIANT", "NON_COMPLIANT"} /\ Res(p).type # "exec"
         /\ p \notin doubt /\ ~Shadowed(p))
            => (state[p] = "COMPLIANT" <=> InDesiredState(p))

(***************************************************************************)
(* No temporary directory is left when the task ends: no object makes more *)
(* than the one it remembers, whether the package was known (and is        *)
(* downloaded for its enforcement only) or the download failed; an object  *)
(* whose policy entry was replaced is not cleaned up.                      *)
(***************************************************************************)
NoTempLeft == pc = "end" => \A p \in Positions : temp[p] = 0 \/ Shadowed(p)
=============================================================================
