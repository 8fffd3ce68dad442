--------------------------- MODULE GuestPolicies ---------------------------
(***************************************************************************)
(* The guest policies: the task "Run GuestPolicies", which looks the       *)
(* policy up, merges the local declaration into it, brings repositories    *)
(* and packages to what it says, one package manager after the other, and  *)
(* then installs the software recipes, with the database that remembers    *)
(* them across runs and restarts of the agent.                             *)
(*                                                                         *)
(* The tasker runs one of these tasks at a time and no other task beside   *)
(* it, so that a run is a sequence of steps; between them the process may  *)
(* be killed, and between runs the policy and the machine change.          *)
(***************************************************************************)
EXTENDS Naturals, Sequences, Functions

CONSTANTS
    Managers,   \* the package managers of the machine, in the code's order
    Names,      \* names of packages
    Policies,   \* what the service may answer
    Locals,     \* what the local declaration may be
    MaxTries    \* bound: attempts at a manager's changes within RetryFunc's time

AllManagers == <<"goo", "apt", "yum", "zypper">>

ASSUME ManagersAssumption ==
    /\ Managers \in Seq(Range(AllManagers))
    /\ \E pos \in [1..Len(Managers) -> 1..Len(AllManagers)] :
          \A i \in 1..Len(Managers) :
             /\ Managers[i] = AllManagers[pos[i]]
             /\ \A j \in 1..(i - 1) : pos[j] < pos[i]
ASSUME TriesAssumption == MaxTries \in Nat \ {0}

\* A policy: a set of packages and one of repositories [manager, id], whose order
\* in the lists of the code has no effect, and the sequence of its recipes
\* [name, version, want].
NoPolicy == [packages |-> {}, repos |-> {}, recipes |-> <<>>]

PackageSet == [name : Names, manager : Range(AllManagers) \cup {"any"},
               want : {"installed", "unspecified", "updated", "removed"}]

ASSUME PoliciesAssumption ==
    \A p \in Policies \cup Locals : p.packages \subseteq PackageSet

-----------------------------------------------------------------------------
(* mergeConfigs *)

getID(repo) ==
    IF repo.manager \in {"yum", "zypper"} THEN <<repo.manager, repo.id>> ELSE <<>>

\* Variant of mergeConfigs that appends the declaration without a look at the names.
mergeConfigsAppend(local, egp) ==
    [packages |-> egp.packages \cup local.packages,
     repos |-> egp.repos \cup local.repos,
     recipes |-> egp.recipes \o local.recipes]

mergeConfigs(local, egp) ==
    LET pkgs == {p.name : p \in egp.packages}
        repos == {getID(r) : r \in egp.repos} \ {<<>>}
        recipes == {r.name : r \in Range(egp.recipes)}
    IN [packages |-> egp.packages \cup {p \in local.packages : p.name \notin pkgs},
        repos |-> egp.repos \cup {r \in local.repos : getID(r) \notin repos},
        recipes |-> egp.recipes \o SelectSeq(local.recipes, LAMBDA r : r.name \notin recipes)]

-----------------------------------------------------------------------------
(* The versions of recipes: a valid one is a sequence of at most four numbers. *)

\* The version "" is <<>>.
convertVersion(v) == IF v = <<>> THEN <<0>> ELSE v
Valid(v) == v \in Seq(Nat) /\ Len(v) <= 4

Part(v, i) == IF i \in DOMAIN v THEN v[i] ELSE 0

\* Variant of compare that takes any other version for a greater one.
compareDiffers(w, v) ==
    /\ v # <<>> /\ Valid(v)
    /\ \E i \in 1..4 : Part(v, i) # Part(w, i)

\* Version v is greater than the recorded version w.
compare(w, v) ==
    /\ v # <<>> /\ Valid(v)
    /\ \E i \in 1..4 : /\ Part(v, i) > Part(w, i)
                       /\ \A j \in 1..(i - 1) : Part(v, j) = Part(w, j)

-----------------------------------------------------------------------------
VARIABLES
    service,    \* the policy the service holds
    decl,       \* the local declaration in the metadata
    installed,  \* installed[m]: the packages manager m has installed
    outdated,   \* outdated[m]: those of them that have an update
    repoFile,   \* repoFile[m]: the repositories in the file the agent manages
    db,         \* the recipe database on disk: a function on recipe names
    pc,         \* where the task is
    effective,  \* the merged policy
    at,         \* the manager, and later the recipe, it is at
    tries,      \* attempts at the current manager's changes
    failed,     \* the run has met an error
    ran         \* the recipe versions whose steps succeeded and were recorded

taskVars == <<pc, effective, at, tries, failed>>
vars == <<service, decl, installed, outdated, repoFile, db, ran, taskVars>>

ManagerSet == Range(Managers)
RepoSet == UNION {p.repos : p \in Policies \cup Locals}
ReposFor(m) == {r \in RepoSet : r.manager = m}
RecipeSet == UNION {Range(p.recipes) : p \in Policies \cup Locals}
RecipeNames == {r.name : r \in RecipeSet}

(***************************************************************************)
(* Types; an installed package alone can be outdated, and what ran and was *)
(* recorded is not newer than what the database says of the recipe.        *)
(***************************************************************************)
TypeOK ==
    /\ service \in Policies /\ decl \in Locals
    /\ installed \in [ManagerSet -> SUBSET Names]
    /\ \A m \in ManagerSet : outdated[m] \subseteq installed[m]
    /\ repoFile \in [ManagerSet -> SUBSET RepoSet]
    /\ DOMAIN db \subseteq RecipeNames
    /\ pc \in {"idle", "lookup", "repos", "changes", "recipe", "fetch", "steps", "record",
               "recordFailure"}
    /\ tries \in 0..MaxTries
    /\ failed \in BOOLEAN
    /\ \A x \in ran : x.name \in DOMAIN db /\ ~compare(db[x.name].version, x.version)

Init ==
    /\ service \in Policies /\ decl \in Locals
    /\ installed \in [ManagerSet -> SUBSET Names]
    /\ outdated = [m \in ManagerSet |-> {}]
    /\ repoFile = [m \in ManagerSet |-> {}]
    /\ db = <<>>
    /\ pc = "idle"
    /\ effective = NoPolicy
    /\ at = 1 /\ tries = 0
    /\ failed = FALSE
    /\ ran = {}

machineVars == <<installed, outdated, repoFile>>
policyVars == <<service, decl>>

\* The task goes to position i of the list that the place `to` works on.
GoTo(to, i) == pc' = to /\ at' = i

-----------------------------------------------------------------------------
(* run: the lookup and the merge *)

Start ==
    /\ pc = "idle"
    /\ GoTo("lookup", 1)
    /\ UNCHANGED <<policyVars, machineVars, db, ran, effective, tries, failed>>

\* The answer of the service, or none: no client, no identity token, or an error.
LookupEffectiveGuestPolicies == {service, NoPolicy}

\* The declaration, none, or what was decoded of it before an error.
readLocalConfig == {decl, NoPolicy, [NoPolicy EXCEPT !.packages = decl.packages]}

\* run goes on with any of them.
Lookup ==
    /\ pc = "lookup"
    /\ \E egp \in LookupEffectiveGuestPolicies, local \in readLocalConfig :
          effective' = mergeConfigs(local, egp)
    /\ IF Managers = <<>> THEN GoTo("recipe", 1) ELSE GoTo("repos", 1)
    /\ UNCHANGED <<policyVars, machineVars, db, ran, tries, failed>>

-----------------------------------------------------------------------------
(* setConfig *)

ReposOf(m) == {r \in effective.repos : r.manager = m}

\* writeIfChanged of the file with the repositories of the current manager. An
\* error does not keep the packages from being looked at.
Repositories ==
    /\ pc = "repos"
    /\ \/ /\ repoFile' = [repoFile EXCEPT ![Managers[at]] = ReposOf(Managers[at])]
          /\ UNCHANGED failed
       \/ failed' = TRUE /\ UNCHANGED repoFile
    /\ pc' = "changes"
    /\ UNCHANGED <<policyVars, installed, outdated, db, ran, effective, at, tries>>

Wanted(m, states) ==
    {p.name : p \in {q \in effective.packages :
                        q.manager \in {m, "any"} /\ q.want \in states}}

getNecessaryChanges(m) ==
    [install |-> Wanted(m, {"installed", "unspecified", "updated"}) \ installed[m],
     upgrade |-> Wanted(m, {"updated"}) \cap outdated[m],
     remove |-> Wanted(m, {"removed"}) \cap installed[m]]

NextManager ==
    IF at < Len(Managers) THEN GoTo("repos", at + 1) ELSE GoTo("recipe", 1)

\* After an error: once more, or no more when the minute of RetryFunc is over.
RetryFunc ==
    \/ /\ tries < MaxTries
       /\ tries' = tries + 1
       /\ UNCHANGED <<pc, at, failed>>
    \/ /\ tries' = 0
       /\ failed' = TRUE
       /\ NextManager

\* One attempt at the changes of a manager: what is listed is installed, upgraded
\* and removed in this order, and an error leaves any part of it done.
Changes ==
    /\ pc = "changes"
    /\ LET m == Managers[at]
           c == getNecessaryChanges(m)
       IN \E in \in SUBSET c.install, up \in SUBSET c.upgrade, rm \in SUBSET c.remove :
            /\ installed' = [installed EXCEPT ![m] = (@ \cup in) \ rm]
            /\ outdated' = [outdated EXCEPT ![m] = @ \ (up \cup rm)]
            /\ \/ /\ in = c.install /\ up = c.upgrade /\ rm = c.remove
                  /\ NextManager
                  /\ tries' = 0
                  /\ UNCHANGED failed
               \/ RetryFunc
    /\ UNCHANGED <<policyVars, repoFile, db, ran, effective>>

-----------------------------------------------------------------------------
(* installRecipes and InstallRecipe *)

recipe == effective.recipes[at]

Finish ==
    /\ pc = "recipe"
    /\ at > Len(effective.recipes)
    /\ GoTo("idle", 1)
    /\ effective' = NoPolicy /\ failed' = FALSE
    /\ UNCHANGED <<policyVars, machineVars, db, ran, tries>>

\* Variant of Skip that looks at the recorded version only.
SkipSameVersion(r) ==
    r.name \in DOMAIN db /\ db[r.name].version = convertVersion(r.version)

\* The recipe is recorded, and this is not an update of it.
Skip(r) ==
    /\ r.name \in DOMAIN db
    /\ ~(compare(db[r.name].version, r.version) /\ r.want = "updated")

InstallRecipe ==
    /\ pc = "recipe"
    /\ at <= Len(effective.recipes)
    /\ \/ Skip(recipe) /\ GoTo("recipe", at + 1) /\ UNCHANGED failed
       \/ ~Skip(recipe) /\ GoTo("fetch", at) /\ UNCHANGED failed
       \/ GoTo("recipe", at + 1) /\ failed' = TRUE   \* the database cannot be read
    /\ UNCHANGED <<policyVars, machineVars, db, ran, effective, tries>>

\* createBaseDir and fetchArtifacts: an error is not recorded.
Fetch ==
    /\ pc = "fetch"
    /\ GoTo("steps", at)
    /\ UNCHANGED <<policyVars, machineVars, db, ran, effective, tries, failed>>

\* Variant of FetchError that ends the run.
FetchErrorEndsRun ==
    /\ pc = "fetch"
    /\ GoTo("idle", 1)
    /\ effective' = NoPolicy
    /\ UNCHANGED <<policyVars, machineVars, db, ran, tries, failed>>

FetchError ==
    /\ pc = "fetch"
    /\ GoTo("recipe", at + 1)
    /\ failed' = TRUE
    /\ UNCHANGED <<policyVars, machineVars, db, ran, effective, tries>>

\* The steps run to their end, or to the first error. A package file or a script
\* may install, replace or remove packages and edit the repositories.
RunSteps ==
    /\ pc = "steps"
    /\ \E ok \in BOOLEAN : GoTo(IF ok THEN "record" ELSE "recordFailure", at)
    /\ \/ UNCHANGED machineVars
       \/ \E m \in ManagerSet : \E has \in SUBSET Names, repos \in SUBSET ReposFor(m) :
            /\ installed' = [installed EXCEPT ![m] = has]
            /\ \E old \in SUBSET has : outdated' = [outdated EXCEPT ![m] = old]
            /\ repoFile' = [repoFile EXCEPT ![m] = repos]
    /\ UNCHANGED <<policyVars, db, ran, effective, tries, failed>>

\* The database that addRecipe writes.
Recorded(r, success) ==
    [n \in DOMAIN db \cup {r.name} |->
        IF n = r.name THEN [version |-> convertVersion(r.version), success |-> success]
        ELSE db[n]]

\* addRecipe replaces the file by a rename, after all that may fail.
AddRecipe(success, written) ==
    /\ written => Valid(recipe.version)
    /\ db' = IF written THEN Recorded(recipe, success) ELSE db

Record ==
    /\ pc = "record"
    /\ \E written \in BOOLEAN :
          /\ AddRecipe(TRUE, written)
          /\ failed' = (failed \/ ~written)
          /\ ran' = IF written
                      THEN ran \cup {[name |-> recipe.name, version |-> recipe.version]}
                      ELSE ran
    /\ GoTo("recipe", at + 1)
    /\ UNCHANGED <<policyVars, machineVars, effective, tries>>

RecordFailure ==
    /\ pc = "recordFailure"
    /\ \E written \in BOOLEAN : AddRecipe(FALSE, written)
    /\ failed' = TRUE
    /\ GoTo("recipe", at + 1)
    /\ UNCHANGED <<policyVars, machineVars, ran, effective, tries>>

-----------------------------------------------------------------------------
(* The world *)

\* The process is killed, or the machine restarts.
Crash ==
    /\ pc # "idle"
    /\ GoTo("idle", 1)
    /\ effective' = NoPolicy /\ tries' = 0 /\ failed' = FALSE
    /\ UNCHANGED <<policyVars, machineVars, db, ran>>

PolicyEdit ==
    /\ pc = "idle"
    /\ service' \in Policies \ {service}
    /\ UNCHANGED <<decl, machineVars, db, ran, taskVars>>

NewRelease ==
    /\ pc = "idle"
    /\ \E m \in ManagerSet : \E n \in installed[m] \ outdated[m] :
          outdated' = [outdated EXCEPT ![m] = @ \cup {n}]
    /\ UNCHANGED <<policyVars, installed, repoFile, db, ran, taskVars>>

TaskStep ==
    \/ Start \/ Lookup \/ Repositories \/ Changes \/ Finish
    \/ InstallRecipe \/ Fetch \/ FetchError \/ RunSteps \/ Record \/ RecordFailure

Next == TaskStep \/ Crash \/ PolicyEdit \/ NewRelease

Spec == Init /\ [][Next]_vars

\* The service loop starts run after run, and a run goes on to its end.
FairSpec == Spec /\ WF_vars(TaskStep)

-----------------------------------------------------------------------------
\* A source that does not contradict itself about a package.
Unambiguous(p) ==
    \A x, y \in p.packages : x.name = y.name => x = y

Satisfied(m, p) ==
    CASE p.want = "removed" -> p.name \notin installed[m]
      [] p.want = "updated" -> p.name \in installed[m] \ outdated[m]
      [] OTHER -> p.name \in installed[m]

(***************************************************************************)
(* When setConfig has met no error, after any number of failed attempts    *)
(* that left part of the changes done, every package and every repository  *)
(* is as the merged policy says; a declaration and a service that disagree *)
(* about a package do not undo each other's work. This is said of the      *)
(* moment before the first recipe, whose steps may change them again.      *)
(***************************************************************************)
PolicyHolds ==
    pc = "recipe" /\ at = 1 /\ ~failed /\ Unambiguous(service) /\ Unambiguous(decl)
        => \A m \in ManagerSet :
              /\ \A p \in effective.packages :
                    p.manager \in {m, "any"} => Satisfied(m, p)
              /\ repoFile[m] = {r \in effective.repos : r.manager = m}

(***************************************************************************)
(* The steps of a recipe version that has once succeeded and been recorded *)
(* never run again, whatever versions the policies ask for in between and  *)
(* wherever the process was killed.                                        *)
(***************************************************************************)
RecipeRunsOnce ==
    [][pc = "steps" /\ pc' # "idle"
          => [name |-> recipe.name, version |-> recipe.version] \notin ran]_vars

(***************************************************************************)
(* The recipe database forgets no recipe and never goes back to an earlier *)
(* version of one.                                                         *)
(***************************************************************************)
DatabaseGrows ==
    [][\A n \in DOMAIN db :
          n \in DOMAIN db' /\ ~compare(db'[n].version, db[n].version)]_db

\* The environment lets recipe r of the service through: its policy is looked up,
\* the database read, its artifacts fetched and the database written again and
\* again, and the process is not killed for ever. Nothing is said of other recipes.
LetsThrough(r) ==
    /\ <>[](r \in Range(service.recipes))
    /\ <>[][~Crash]_vars
    /\ SF_vars(Lookup /\ r \in Range(effective'.recipes))
    /\ SF_vars(InstallRecipe /\ recipe = r /\ pc' = "fetch")
    /\ SF_vars(Fetch /\ recipe = r)
    /\ SF_vars(Record /\ recipe = r /\ db' # db)
    /\ SF_vars(RecordFailure /\ recipe = r /\ db' # db)

(***************************************************************************)
(* A recipe of the service is tried and recorded in the end, even if the   *)
(* other recipes, the packages and the repositories fail in every run.     *)
(***************************************************************************)
RecipeSettles ==
    \A r \in RecipeSet :
        Valid(r.version) /\ LetsThrough(r) => <>(r.name \in DOMAIN db)
=============================================================================
