------------------------ MODULE GuestPoliciesProofs ------------------------
(***************************************************************************)
(* Proofs about GuestPolicies: the recipe database only grows, no recipe   *)
(* version runs twice, and a run without an error leaves the machine as    *)
(* the merged policy says.                                                 *)
(***************************************************************************)
EXTENDS GuestPolicies, TLAPS

(***************************************************************************)
(* The parts of a version are numbers, also beyond its end.                *)
(***************************************************************************)
LEMMA PartIsNat ==
    ASSUME NEW v \in Seq(Nat), NEW i \in 1..4
    PROVE  Part(v, i) \in Nat
BY DEF Part

(***************************************************************************)
(* No version is greater than itself, and no two are each greater than the *)
(* other.                                                                  *)
(***************************************************************************)
LEMMA CompareAntisymmetric ==
    ASSUME NEW v \in Seq(Nat), NEW w \in Seq(Nat), compare(w, v)
    PROVE  ~compare(v, w)
<1>1. PICK i \in 1..4 : Part(v, i) > Part(w, i) /\ \A j \in 1..(i - 1) : Part(v, j) = Part(w, j)
  BY DEF compare
<1>2. SUFFICES ASSUME NEW k \in 1..4, Part(w, k) > Part(v, k),
                      \A j \in 1..(k - 1) : Part(w, j) = Part(v, j)
               PROVE  FALSE
  BY DEF compare
<1>3. \A j \in 1..4 : Part(v, j) \in Nat /\ Part(w, j) \in Nat
  BY PartIsNat
<1>4. i < k => i \in 1..(k - 1)
  OBVIOUS
<1>5. k < i => k \in 1..(i - 1)
  OBVIOUS
<1>6. i < k \/ k < i \/ i = k
  OBVIOUS
<1>7. Part(v, i) # Part(w, i) /\ Part(v, k) # Part(w, k)
  <2>1. \A a, b \in Nat : a > b => a # b
    OBVIOUS
  <2> QED BY <1>1, <1>2, <1>3, <2>1
<1>8. i = k
  BY <1>1, <1>2, <1>4, <1>5, <1>6, <1>7
<1> QED BY <1>1, <1>2, <1>3, <1>8

(***************************************************************************)
(* "Greater" is transitive.                                                *)
(***************************************************************************)
LEMMA CompareTransitive ==
    ASSUME NEW u \in Seq(Nat), NEW v \in Seq(Nat), NEW w \in Seq(Nat),
           compare(u, v), compare(v, w)
    PROVE  compare(u, w)
<1>1. PICK i \in 1..4 : Part(v, i) > Part(u, i) /\ \A j \in 1..(i - 1) : Part(v, j) = Part(u, j)
  BY DEF compare
<1>2. PICK k \in 1..4 : Part(w, k) > Part(v, k) /\ \A j \in 1..(k - 1) : Part(w, j) = Part(v, j)
  BY DEF compare
<1>3. Part(u, i) \in Nat /\ Part(v, i) \in Nat /\ Part(w, i) \in Nat
  BY PartIsNat
<1>4. \E l \in 1..4 : Part(w, l) > Part(u, l) /\ \A j \in 1..(l - 1) : Part(w, j) = Part(u, j)
  <2>1. CASE i <= k
    <3>1. \A j \in 1..(i - 1) : j \in 1..4 /\ j \in 1..(k - 1)
      BY <2>1
    <3>2. \A j \in 1..(i - 1) : Part(w, j) = Part(u, j)
      BY <1>1, <1>2, <3>1
    <3>3. i = k \/ i \in 1..(k - 1)
      BY <2>1
    <3>4. Part(w, i) >= Part(v, i)
      <4>1. CASE i = k
        BY <1>2, <1>3, <4>1
      <4>2. CASE i \in 1..(k - 1)
        BY <1>2, <1>3, <4>2
      <4> QED BY <3>3, <4>1, <4>2
    <3>5. Part(w, i) > Part(u, i)
      BY <1>1, <1>3, <3>4
    <3> QED BY <3>2, <3>5
  <2>2. CASE k < i
    <3>1. \A j \in 1..(k - 1) : j \in 1..4 /\ j \in 1..(i - 1)
      BY <2>2
    <3>2. \A j \in 1..(k - 1) : Part(w, j) = Part(u, j)
      BY <1>1, <1>2, <3>1
    <3>3. k \in 1..(i - 1)
      BY <2>2
    <3>4. Part(v, k) = Part(u, k)
      BY <1>1, <3>3
    <3>5. Part(w, k) > Part(u, k)
      BY <1>2, <3>4
    <3> QED BY <3>2, <3>5
  <2> QED BY <2>1, <2>2
<1> QED BY <1>4 DEF compare

-----------------------------------------------------------------------------
(* The recipes *)

Installing == {"fetch", "steps", "record", "recordFailure"}

\* The database holds versions, and what ran is not newer than what it says. The
\* recipe in work is one that the database does not tell to skip, until it is
\* recorded.
RecipeInv ==
    /\ \A n \in DOMAIN db : db[n].version \in Seq(Nat)
    /\ \A x \in ran : x.name \in DOMAIN db /\ ~compare(db[x.name].version, x.version)
    /\ pc \in Installing => ~Skip(recipe)

(***************************************************************************)
(* Recording a recipe that is not to be skipped replaces no version by an  *)
(* older one.                                                              *)
(***************************************************************************)
LEMMA RecordedIsNewer ==
    ASSUME RecipeInv, NEW r, NEW success, ~Skip(r), Valid(r.version)
    PROVE  LET d == Recorded(r, success)
           IN /\ DOMAIN d = DOMAIN db \cup {r.name}
              /\ \A n \in DOMAIN d : d[n].version \in Seq(Nat)
              /\ d[r.name].version = convertVersion(r.version)
              /\ \A n \in DOMAIN db : d[n].version = db[n].version \/ compare(db[n].version, d[n].version)
<1> DEFINE d == Recorded(r, success)
<1>1. /\ DOMAIN d = DOMAIN db \cup {r.name}
      /\ d[r.name].version = convertVersion(r.version)
      /\ \A n \in DOMAIN db : n # r.name => d[n] = db[n]
  BY DEF Recorded
<1> HIDE DEF d
<1>2. convertVersion(r.version) \in Seq(Nat)
  <2>1. <<0>> \in Seq(Nat)
    OBVIOUS
  <2> QED BY <2>1 DEF convertVersion, Valid
<1>3. ASSUME NEW n \in DOMAIN db, n = r.name PROVE compare(db[n].version, d[n].version)
  <2>1. compare(db[n].version, r.version)
    BY <1>3 DEF Skip
  <2>2. convertVersion(r.version) = r.version
    BY <2>1 DEF compare, convertVersion
  <2> QED BY <1>1, <1>3, <2>1, <2>2
<1>4. \A n \in DOMAIN d : d[n].version \in Seq(Nat)
  BY <1>1, <1>2 DEF RecipeInv
<1> QED BY <1>1, <1>3, <1>4 DEF d

(***************************************************************************)
(* A step that writes the database writes the recipe in work, and that     *)
(* keeps the versions that ran below those of the database.                *)
(***************************************************************************)
LEMMA RecordKeeps ==
    ASSUME RecipeInv, Record \/ RecordFailure
    PROVE  /\ RecipeInv'
           /\ \A n \in DOMAIN db : n \in DOMAIN db' /\ ~compare(db'[n].version, db[n].version)
<1> DEFINE success == pc = "record"
           x == [name |-> recipe.name, version |-> recipe.version]
<1>1. pc \in {"record", "recordFailure"} /\ pc' = "recipe" /\ ~Skip(recipe)
  BY DEF Record, RecordFailure, GoTo, RecipeInv, Installing
<1>2. PICK written \in BOOLEAN :
        /\ written => Valid(recipe.version)
        /\ db' = IF written THEN Recorded(recipe, success) ELSE db
        /\ ran' = ran \/ (written /\ ran' = ran \cup {x})
  BY DEF Record, RecordFailure, AddRecipe
<1>3. CASE ~written
  <2>1. db' = db /\ ran' = ran
    BY <1>2, <1>3
  <2>2. ASSUME NEW n \in DOMAIN db PROVE ~compare(db[n].version, db[n].version)
    BY CompareAntisymmetric DEF RecipeInv
  <2> QED BY <1>1, <2>1, <2>2 DEF RecipeInv, Installing
<1>4. CASE written
  <2> DEFINE d == Recorded(recipe, success)
  <2>1. db' = d /\ Valid(recipe.version) /\ (ran' = ran \/ ran' = ran \cup {x})
    BY <1>2, <1>4
  <2> HIDE DEF success
  <2>2. /\ DOMAIN d = DOMAIN db \cup {recipe.name}
        /\ \A n \in DOMAIN d : d[n].version \in Seq(Nat)
        /\ d[recipe.name].version = convertVersion(recipe.version)
        /\ \A n \in DOMAIN db : d[n].version = db[n].version \/ compare(db[n].version, d[n].version)
    BY <1>1, <2>1, RecordedIsNewer
  <2> HIDE DEF d
  <2>3. ASSUME NEW n \in DOMAIN db PROVE n \in DOMAIN d /\ ~compare(d[n].version, db[n].version)
    <3>1. n \in DOMAIN d /\ d[n].version \in Seq(Nat) /\ db[n].version \in Seq(Nat)
      BY <2>2 DEF RecipeInv
    <3>2. d[n].version = db[n].version \/ compare(db[n].version, d[n].version)
      BY <2>2
    <3> QED BY <3>1, <3>2, CompareAntisymmetric
  <2>4. ASSUME NEW y \in ran PROVE y.name \in DOMAIN d /\ ~compare(d[y.name].version, y.version)
    <3>1. y.name \in DOMAIN db /\ ~compare(db[y.name].version, y.version)
      BY DEF RecipeInv
    <3>2. /\ y.name \in DOMAIN d
          /\ d[y.name].version \in Seq(Nat) /\ db[y.name].version \in Seq(Nat)
          /\ d[y.name].version = db[y.name].version \/ compare(db[y.name].version, d[y.name].version)
      BY <2>2, <3>1 DEF RecipeInv
    <3>3. compare(d[y.name].version, y.version) => y.version \in Seq(Nat)
      BY DEF compare, Valid
    <3> QED BY <3>1, <3>2, <3>3, CompareTransitive
  <2>5. x.name \in DOMAIN d /\ ~compare(d[x.name].version, x.version)
    <3>1. x.name = recipe.name /\ x.version = recipe.version
      OBVIOUS
    <3>2. recipe.version \in Seq(Nat)
      BY <2>1 DEF Valid
    <3>3. CASE recipe.version = <<>>
      BY <2>2, <3>1, <3>3 DEF compare
    <3>4. CASE recipe.version # <<>>
      BY <2>2, <3>1, <3>2, <3>4, CompareAntisymmetric DEF convertVersion
    <3> QED BY <3>3, <3>4
  <2> HIDE DEF x
  <2>6. RecipeInv'
    BY <1>1, <2>1, <2>2, <2>4, <2>5 DEF RecipeInv, Installing
  <2> QED BY <2>1, <2>3, <2>6
<1> QED BY <1>3, <1>4

(***************************************************************************)
(* Every step keeps what is known of the recipes.                          *)
(***************************************************************************)
LEMMA NextRecipeInv ==
    ASSUME RecipeInv, [Next]_vars
    PROVE  RecipeInv'
<1>1. CASE Record \/ RecordFailure
  BY <1>1, RecordKeeps
<1>2. CASE InstallRecipe
  BY <1>2 DEF InstallRecipe, GoTo, RecipeInv, Installing, Skip, recipe
<1>3. CASE Fetch \/ RunSteps
  BY <1>3 DEF Fetch, RunSteps, GoTo, RecipeInv, Installing, Skip, recipe
<1>4. CASE Start \/ Lookup \/ Repositories \/ Changes \/ Finish \/ FetchError \/ Crash
  <2>1. pc' \notin Installing
    BY <1>4 DEF Start, Lookup, Repositories, Changes, Finish, FetchError, Crash, GoTo, NextManager,
       RetryFunc, Installing
  <2>2. UNCHANGED <<db, ran>>
    BY <1>4 DEF Start, Lookup, Repositories, Changes, Finish, FetchError, Crash
  <2> QED BY <2>1, <2>2 DEF RecipeInv
<1>5. CASE PolicyEdit \/ NewRelease \/ UNCHANGED vars
  BY <1>5 DEF PolicyEdit, NewRelease, vars, taskVars, RecipeInv, Installing, Skip, recipe
<1> QED BY <1>1, <1>2, <1>3, <1>4, <1>5 DEF Next, TaskStep

(***************************************************************************)
(* What is known of the recipes holds throughout.                          *)
(***************************************************************************)
LEMMA RecipeInvariance == Spec => []RecipeInv
<1>1. Init => RecipeInv
  BY DEF Init, RecipeInv, Installing
<1>2. RecipeInv /\ [Next]_vars => RecipeInv'
  BY NextRecipeInv
<1> QED BY <1>1, <1>2, PTL DEF Spec

(***************************************************************************)
(* The recipe database never forgets a recipe and never goes back to an    *)
(* earlier version, for any policies and any versions.                     *)
(***************************************************************************)
THEOREM DatabaseOnlyGrows == Spec => DatabaseGrows
<1> DEFINE Grows == \A n \in DOMAIN db : n \in DOMAIN db' /\ ~compare(db'[n].version, db[n].version)
<1>1. RecipeInv /\ [Next]_vars => [Grows]_db
  <2> SUFFICES ASSUME RecipeInv, [Next]_vars, db' # db PROVE Grows
    OBVIOUS
  <2>1. Record \/ RecordFailure
    BY DEF Next, TaskStep, vars, Start, Lookup, Repositories, Changes, Finish, InstallRecipe, Fetch,
       FetchError, RunSteps, Crash, PolicyEdit, NewRelease
  <2> QED BY <2>1, RecordKeeps
<1> QED BY <1>1, RecipeInvariance, PTL DEF Spec, DatabaseGrows

(***************************************************************************)
(* The steps of a recorded recipe version never run again, for any         *)
(* policies, any versions and any crashes.                                 *)
(***************************************************************************)
THEOREM RunsOnce == Spec => RecipeRunsOnce
<1> DEFINE Once == pc = "steps" /\ pc' # "idle"
                      => [name |-> recipe.name, version |-> recipe.version] \notin ran
<1>1. RecipeInv => Once
  <2> SUFFICES ASSUME RecipeInv, pc = "steps",
                      [name |-> recipe.name, version |-> recipe.version] \in ran
               PROVE  FALSE
    OBVIOUS
  <2> DEFINE x == [name |-> recipe.name, version |-> recipe.version]
  <2>1. x.name = recipe.name /\ x.version = recipe.version /\ x \in ran
    OBVIOUS
  <2> HIDE DEF x
  <2>2. recipe.name \in DOMAIN db /\ ~compare(db[recipe.name].version, recipe.version)
    BY <2>1 DEF RecipeInv
  <2> QED BY <2>2 DEF RecipeInv, Installing, Skip
<1> QED BY <1>1, RecipeInvariance, PTL DEF Spec, RecipeRunsOnce

-----------------------------------------------------------------------------
(* The packages and the repositories *)

(***************************************************************************)
(* No package manager is served twice in a run.                            *)
(***************************************************************************)
LEMMA DistinctManagers ==
    /\ Len(Managers) \in Nat
    /\ ManagerSet = {Managers[i] : i \in 1..Len(Managers)}
    /\ \A i, j \in 1..Len(Managers) : Managers[i] = Managers[j] => i = j
<1>1. Managers \in Seq(Range(AllManagers))
  BY ManagersAssumption
<1>2. Len(Managers) \in Nat /\ ManagerSet = {Managers[i] : i \in 1..Len(Managers)}
  BY <1>1 DEF ManagerSet, Range
<1>3. PICK pos \in [1..Len(Managers) -> 1..Len(AllManagers)] :
        \A i \in 1..Len(Managers) :
           /\ Managers[i] = AllManagers[pos[i]]
           /\ \A j \in 1..(i - 1) : pos[j] < pos[i]
  BY ManagersAssumption
<1>4. Len(AllManagers) = 4 /\ \A a, b \in 1..4 : AllManagers[a] = AllManagers[b] => a = b
  BY DEF AllManagers
<1>5. ASSUME NEW i \in 1..Len(Managers), NEW j \in 1..Len(Managers), Managers[i] = Managers[j], j < i
      PROVE  FALSE
  <2>1. pos[i] \in 1..4 /\ pos[j] \in 1..4 /\ pos[i] = pos[j]
    BY <1>3, <1>4, <1>5
  <2>2. j \in 1..(i - 1)
    BY <1>2, <1>5
  <2>3. pos[j] < pos[i]
    BY <1>3, <2>2
  <2> QED BY <2>1, <2>3
<1>6. ASSUME NEW i \in 1..Len(Managers), NEW j \in 1..Len(Managers), Managers[i] = Managers[j], i # j
      PROVE  FALSE
  <2>1. i < j \/ j < i
    BY <1>2, <1>6
  <2> QED BY <1>5, <1>6, <2>1
<1> QED BY <1>2, <1>6

\* The places of a run after its last package manager.
AtRecipes == {"recipe"} \cup Installing

Clear == Unambiguous(service) /\ Unambiguous(decl)

ManagerHolds(m) ==
    /\ \A p \in effective.packages : p.manager \in {m, "any"} => Satisfied(m, p)
    /\ repoFile[m] = ReposOf(m)

\* The types of the machine and of the merged policy, which is as unambiguous as
\* its sources.
MachineInv ==
    /\ service \in Policies /\ decl \in Locals
    /\ installed \in [ManagerSet -> SUBSET Names]
    /\ outdated \in [ManagerSet -> SUBSET Names]
    /\ \A m \in ManagerSet : outdated[m] \subseteq installed[m]
    /\ repoFile \in [ManagerSet -> SUBSET RepoSet]
    /\ effective.packages \subseteq PackageSet /\ effective.repos \subseteq RepoSet
    /\ at \in Nat \ {0}
    /\ pc \in {"repos", "changes"} => at \in 1..Len(Managers)
    /\ pc \in {"idle", "lookup"} => effective = NoPolicy
    /\ Clear => Unambiguous(effective)

\* What is done so far in a run without an error.
DoneInv ==
    Clear /\ ~failed =>
        /\ pc = "changes" => repoFile[Managers[at]] = ReposOf(Managers[at])
        /\ pc \in {"repos", "changes"} => \A i \in 1..(at - 1) : ManagerHolds(Managers[i])
        /\ pc = "recipe" /\ at = 1 => \A i \in 1..Len(Managers) : ManagerHolds(Managers[i])

(***************************************************************************)
(* The policy that mergeConfigs makes of what the lookup may give is       *)
(* typed, and unambiguous if its sources are: the service's word on a      *)
(* package is the only one.                                                *)
(***************************************************************************)
LEMMA MergeUnambiguous ==
    ASSUME service \in Policies, decl \in Locals,
           NEW egp \in LookupEffectiveGuestPolicies, NEW local \in readLocalConfig
    PROVE  LET merged == mergeConfigs(local, egp)
           IN /\ merged.packages \subseteq PackageSet /\ merged.repos \subseteq RepoSet
              /\ Clear => Unambiguous(merged)
<1> DEFINE merged == mergeConfigs(local, egp)
           names == {p.name : p \in egp.packages}
<1>1. /\ merged.packages = egp.packages \cup {p \in local.packages : p.name \notin names}
      /\ merged.repos \subseteq egp.repos \cup local.repos
  BY DEF mergeConfigs
<1>2. /\ NoPolicy.packages = {} /\ NoPolicy.repos = {}
      /\ [NoPolicy EXCEPT !.packages = decl.packages].packages = decl.packages
      /\ [NoPolicy EXCEPT !.packages = decl.packages].repos = {}
  BY DEF NoPolicy
<1>3. /\ egp.packages \in {service.packages, {}} /\ egp.repos \in {service.repos, {}}
      /\ local.packages \in {decl.packages, {}} /\ local.repos \in {decl.repos, {}}
  BY <1>2 DEF LookupEffectiveGuestPolicies, readLocalConfig
<1>4. /\ service.packages \subseteq PackageSet /\ decl.packages \subseteq PackageSet
      /\ service.repos \subseteq RepoSet /\ decl.repos \subseteq RepoSet
  BY PoliciesAssumption DEF RepoSet
<1> HIDE DEF merged
<1>5. Clear => Unambiguous(merged)
  BY <1>1, <1>3 DEF Clear, Unambiguous
<1>6. merged.packages \subseteq PackageSet /\ merged.repos \subseteq RepoSet
  BY <1>1, <1>3, <1>4
<1> QED BY <1>5, <1>6 DEF merged

(***************************************************************************)
(* The whole of the changes of a manager brings its packages to what an    *)
(* unambiguous policy wants, whatever part of them was done before.        *)
(***************************************************************************)
LEMMA AllChangesSatisfy ==
    ASSUME MachineInv, Unambiguous(effective), NEW m \in ManagerSet, UNCHANGED effective,
           installed'[m] = (installed[m] \cup getNecessaryChanges(m).install)
                              \ getNecessaryChanges(m).remove,
           outdated'[m] = outdated[m] \ (getNecessaryChanges(m).upgrade
                                            \cup getNecessaryChanges(m).remove),
           NEW p \in effective.packages, p.manager \in {m, "any"}
    PROVE  Satisfied(m, p)'
<1> DEFINE c == getNecessaryChanges(m)
           W(states) == Wanted(m, states)
<1>1. /\ c.install = W({"installed", "unspecified", "updated"}) \ installed[m]
      /\ c.upgrade = W({"updated"}) \cap outdated[m]
      /\ c.remove = W({"removed"}) \cap installed[m]
  BY DEF getNecessaryChanges
<1>2. \A states : p.name \in W(states) <=> p.want \in states
  BY DEF Wanted, Unambiguous
<1>3. p.want \in {"installed", "unspecified", "updated", "removed"}
  BY DEF MachineInv, PackageSet
<1>4. outdated[m] \subseteq installed[m]
  BY DEF MachineInv
<1> HIDE DEF c, W
<1>5. /\ installed'[m] = (installed[m] \cup c.install) \ c.remove
      /\ outdated'[m] = outdated[m] \ (c.upgrade \cup c.remove)
  BY DEF c
<1>6. CASE p.want = "removed"
  <2>1. p.name \notin installed'[m]
    BY <1>1, <1>2, <1>5, <1>6
  <2> QED BY <1>6, <2>1 DEF Satisfied
<1>7. CASE p.want = "updated"
  <2>1. p.name \in installed'[m] \ outdated'[m]
    BY <1>1, <1>2, <1>4, <1>5, <1>7
  <2> QED BY <1>7, <2>1 DEF Satisfied
<1>8. CASE p.want \in {"installed", "unspecified"}
  <2>1. p.name \in installed'[m]
    BY <1>1, <1>2, <1>5, <1>8
  <2> QED BY <1>8, <2>1 DEF Satisfied
<1> QED BY <1>3, <1>6, <1>7, <1>8

(***************************************************************************)
(* An attempt at the changes of a manager keeps the invariant, whether it  *)
(* completes, is tried again or is given up.                               *)
(***************************************************************************)
LEMMA ChangesKeep ==
    ASSUME MachineInv, DoneInv, Changes
    PROVE  MachineInv' /\ DoneInv'
<1>0. PICK m : m = Managers[at]
  OBVIOUS
<1> DEFINE c == getNecessaryChanges(m)
<1>1. pc = "changes" /\ UNCHANGED <<service, decl, repoFile, effective>>
  BY DEF Changes, policyVars
<1>2. at \in 1..Len(Managers) /\ m \in ManagerSet
  BY <1>0, <1>1, DistinctManagers DEF MachineInv
<1>3. PICK in \in SUBSET c.install, up \in SUBSET c.upgrade, rm \in SUBSET c.remove :
        /\ installed' = [installed EXCEPT ![m] = (@ \cup in) \ rm]
        /\ outdated' = [outdated EXCEPT ![m] = @ \ (up \cup rm)]
        /\ \/ /\ in = c.install /\ up = c.upgrade /\ rm = c.remove
              /\ NextManager
              /\ UNCHANGED failed
           \/ RetryFunc
  BY <1>0 DEF Changes
<1>4. c.install \subseteq Names
  <2>1. c.install \subseteq Wanted(m, {"installed", "unspecified", "updated"})
    BY DEF getNecessaryChanges
  <2>2. Wanted(m, {"installed", "unspecified", "updated"}) \subseteq Names
    BY DEF Wanted, MachineInv, PackageSet
  <2> QED BY <2>1, <2>2
<1> HIDE DEF c
<1>5. /\ installed' \in [ManagerSet -> SUBSET Names]
      /\ outdated' \in [ManagerSet -> SUBSET Names]
      /\ installed'[m] = (installed[m] \cup in) \ rm
      /\ outdated'[m] = outdated[m] \ (up \cup rm)
      /\ \A k \in ManagerSet : k # m => installed'[k] = installed[k] /\ outdated'[k] = outdated[k]
  BY <1>2, <1>3, <1>4 DEF MachineInv
<1>6. \A k \in ManagerSet : outdated'[k] \subseteq installed'[k]
  BY <1>2, <1>5 DEF MachineInv
<1>7. \/ pc' = "changes" /\ at' = at /\ UNCHANGED failed
      \/ pc' = "repos" /\ at' = at + 1 /\ at < Len(Managers)
      \/ pc' = "recipe" /\ at' = 1 /\ ~(at < Len(Managers))
  BY <1>1, <1>3 DEF NextManager, RetryFunc, GoTo
<1>8. MachineInv'
  <2>1. /\ at' \in Nat \ {0}
        /\ pc' \in {"repos", "changes"} => at' \in 1..Len(Managers)
    BY <1>2, <1>7, DistinctManagers
  <2>2. Clear' => Unambiguous(effective)'
    BY <1>1 DEF MachineInv, Clear, Unambiguous
  <2> QED BY <1>1, <1>5, <1>6, <1>7, <2>1, <2>2 DEF MachineInv
<1>9. ASSUME Clear, ~failed, NEW i \in 1..(at - 1) PROVE ManagerHolds(Managers[i])'
  <2>1. i \in 1..Len(Managers) /\ i # at
    BY <1>2, DistinctManagers
  <2>2. Managers[i] \in ManagerSet /\ Managers[i] # m
    BY <1>2, <2>1, <1>0, DistinctManagers
  <2>3. ManagerHolds(Managers[i])
    BY <1>1, <1>9 DEF DoneInv
  <2> QED BY <1>1, <1>5, <2>2, <2>3 DEF ManagerHolds, Satisfied, ReposOf
<1>10. ASSUME Clear, ~failed, in = c.install, up = c.upgrade, rm = c.remove PROVE ManagerHolds(m)'
  <2>1. Unambiguous(effective)
    BY <1>10 DEF MachineInv
  <2>2. \A p \in effective.packages : p.manager \in {m, "any"} => Satisfied(m, p)'
    BY <1>1, <1>2, <1>5, <1>10, <2>1, AllChangesSatisfy DEF c
  <2>3. repoFile[m] = ReposOf(m)
    BY <1>0, <1>1, <1>10 DEF DoneInv
  <2> QED BY <1>1, <2>2, <2>3 DEF ManagerHolds, ReposOf
<1>11. DoneInv'
  <2> SUFFICES ASSUME Clear, ~failed'
               PROVE  /\ pc' = "changes" => repoFile[Managers[at']] = ReposOf(Managers[at'])
                      /\ pc' \in {"repos", "changes"} => \A i \in 1..(at' - 1) : ManagerHolds(Managers[i])'
                      /\ pc' = "recipe" => \A i \in 1..Len(Managers) : ManagerHolds(Managers[i])'
    BY <1>1 DEF DoneInv, Clear, Unambiguous, ReposOf
  <2>1. CASE RetryFunc
    <3>1. pc' = "changes" /\ at' = at /\ failed' = failed
      BY <1>1, <2>1 DEF RetryFunc
    <3> QED BY <1>1, <1>9, <3>1 DEF DoneInv, ReposOf, AtRecipes, Installing
  <2>2. CASE NextManager /\ UNCHANGED failed /\ in = c.install /\ up = c.upgrade /\ rm = c.remove
    <3>1. \A i \in 1..at : ManagerHolds(Managers[i])'
      <4>1. \A i \in 1..at : i = at \/ i \in 1..(at - 1)
        BY <1>2
      <4> QED BY <1>9, <1>10, <2>2, <1>0, <4>1
    <3>2. \/ pc' = "repos" /\ at' - 1 = at
          \/ pc' = "recipe" /\ at = Len(Managers)
      BY <1>2, <2>2, DistinctManagers DEF NextManager, GoTo
    <3> QED BY <3>1, <3>2 DEF AtRecipes, Installing
  <2> QED BY <1>3, <2>1, <2>2
<1> QED BY <1>8, <1>11

(***************************************************************************)
(* Writing the repositories of a manager keeps the invariant.              *)
(***************************************************************************)
LEMMA RepositoriesKeep ==
    ASSUME MachineInv, DoneInv, Repositories
    PROVE  MachineInv' /\ DoneInv'
<1>0. PICK m : m = Managers[at]
  OBVIOUS
<1>1. pc = "repos" /\ pc' = "changes" /\ UNCHANGED <<service, decl, installed, outdated, effective, at>>
  BY DEF Repositories, policyVars
<1>2. at \in 1..Len(Managers) /\ m \in ManagerSet
  BY <1>0, <1>1, DistinctManagers DEF MachineInv
<1>3. \/ repoFile' = [repoFile EXCEPT ![m] = ReposOf(m)] /\ failed' = failed
      \/ failed' /\ repoFile' = repoFile
  BY <1>0 DEF Repositories
<1>4. ReposOf(m) \in SUBSET RepoSet
  BY DEF ReposOf, MachineInv
<1>5. /\ repoFile' \in [ManagerSet -> SUBSET RepoSet]
      /\ ~failed' => ~failed /\ repoFile'[m] = ReposOf(m)
      /\ \A k \in ManagerSet : k # m => repoFile'[k] = repoFile[k]
  BY <1>2, <1>3, <1>4 DEF MachineInv
<1>6. MachineInv'
  <2>1. Clear' => Unambiguous(effective)'
    BY <1>1 DEF MachineInv, Clear, Unambiguous
  <2> QED BY <1>1, <1>2, <1>5, <2>1 DEF MachineInv
<1>7. ASSUME Clear, ~failed', NEW i \in 1..(at - 1) PROVE ManagerHolds(Managers[i])'
  <2>1. i \in 1..Len(Managers) /\ i # at
    BY <1>2, DistinctManagers
  <2>2. Managers[i] \in ManagerSet /\ Managers[i] # m
    BY <1>0, <1>2, <2>1, DistinctManagers
  <2>3. ManagerHolds(Managers[i])
    BY <1>1, <1>5, <1>7 DEF DoneInv
  <2> QED BY <1>1, <1>5, <2>2, <2>3 DEF ManagerHolds, Satisfied, ReposOf
<1>8. Clear' <=> Clear
  BY <1>1 DEF Clear, Unambiguous
<1>9. ~failed' => repoFile'[Managers[at]] = ReposOf(Managers[at])
  BY <1>0, <1>5
<1> QED BY <1>1, <1>6, <1>7, <1>8, <1>9 DEF DoneInv, AtRecipes, Installing, ReposOf

(***************************************************************************)
(* The other steps of a run, those of the recipes among them, keep the     *)
(* invariant, and so do the steps of the world.                            *)
(***************************************************************************)
LEMMA OthersKeep ==
    ASSUME MachineInv, DoneInv, Next \/ UNCHANGED vars, ~Changes, ~Repositories
    PROVE  MachineInv' /\ DoneInv'
<1>1. CASE Start
  <2>1. /\ pc = "idle" /\ pc' = "lookup" /\ at' = 1
        /\ UNCHANGED <<service, decl, installed, outdated, repoFile, effective>>
    BY <1>1 DEF Start, GoTo, policyVars, machineVars
  <2> QED BY <2>1 DEF MachineInv, DoneInv, AtRecipes, Installing, Clear, Unambiguous
<1>2. CASE Lookup
  <2>1. /\ UNCHANGED <<service, decl, installed, outdated, repoFile>>
        /\ at' = 1 /\ pc' = IF Managers = <<>> THEN "recipe" ELSE "repos"
    BY <1>2 DEF Lookup, GoTo, policyVars, machineVars
  <2>2. PICK egp \in LookupEffectiveGuestPolicies, local \in readLocalConfig :
          effective' = mergeConfigs(local, egp)
    BY <1>2 DEF Lookup
  <2>3. /\ effective'.packages \subseteq PackageSet /\ effective'.repos \subseteq RepoSet
        /\ Clear => \A x, y \in effective'.packages : x.name = y.name => x = y
    BY <2>2, MergeUnambiguous DEF MachineInv, Unambiguous
  <2>4. IF Managers = <<>> THEN Len(Managers) = 0 ELSE 1 \in 1..Len(Managers)
    BY ManagersAssumption
  <2> QED BY <2>1, <2>3, <2>4 DEF MachineInv, DoneInv, AtRecipes, Installing, Clear, Unambiguous
<1>3. CASE Finish \/ Crash
  <2>1. /\ pc' = "idle" /\ at' = 1 /\ effective' = NoPolicy
        /\ UNCHANGED <<service, decl, installed, outdated, repoFile>>
    BY <1>3 DEF Finish, Crash, GoTo, policyVars, machineVars
  <2>2. NoPolicy.packages = {} /\ NoPolicy.repos = {}
    BY DEF NoPolicy
  <2> QED BY <2>1, <2>2 DEF MachineInv, DoneInv, AtRecipes, Installing, Unambiguous
<1>4. CASE InstallRecipe \/ Fetch \/ FetchError \/ RunSteps \/ Record \/ RecordFailure
  <2>1. /\ UNCHANGED <<service, decl, effective>> /\ pc' \in AtRecipes
        /\ at' = at + 1 \/ (at' = at /\ pc' # "recipe")
    BY <1>4 DEF InstallRecipe, Fetch, FetchError, RunSteps, Record, RecordFailure, GoTo, policyVars,
       AtRecipes, Installing
  <2>2. /\ installed' \in [ManagerSet -> SUBSET Names]
        /\ outdated' \in [ManagerSet -> SUBSET Names]
        /\ \A k \in ManagerSet : outdated'[k] \subseteq installed'[k]
        /\ repoFile' \in [ManagerSet -> SUBSET RepoSet]
    <3>1. CASE UNCHANGED <<installed, outdated, repoFile>>
      BY <3>1 DEF MachineInv
    <3>2. CASE RunSteps
      BY <3>2 DEF RunSteps, machineVars, MachineInv, ReposFor
    <3> QED
      BY <1>4, <3>1, <3>2 DEF InstallRecipe, Fetch, FetchError, Record, RecordFailure, machineVars
  <2>3. at' \in Nat \ {0} /\ ~(pc' = "recipe" /\ at' = 1)
    BY <2>1 DEF MachineInv
  <2>4. MachineInv'
    BY <2>1, <2>2, <2>3 DEF MachineInv, AtRecipes, Installing, Clear, Unambiguous
  <2> QED
    BY <2>1, <2>3, <2>4 DEF DoneInv, AtRecipes, Installing
<1>5. CASE PolicyEdit
  <2>1. /\ pc = "idle" /\ pc' = "idle" /\ service' \in Policies
        /\ UNCHANGED <<at, decl, installed, outdated, repoFile, effective, failed>>
    BY <1>5 DEF PolicyEdit, machineVars, taskVars
  <2>2. NoPolicy.packages = {} /\ NoPolicy.repos = {}
    BY DEF NoPolicy
  <2> QED BY <2>1, <2>2 DEF MachineInv, DoneInv, AtRecipes, Installing, Unambiguous
<1>6. CASE NewRelease
  <2>1. /\ pc = "idle" /\ pc' = "idle"
        /\ UNCHANGED <<at, service, decl, installed, repoFile, effective, failed>>
    BY <1>6 DEF NewRelease, policyVars, taskVars
  <2>2. /\ outdated' \in [ManagerSet -> SUBSET Names]
        /\ \A k \in ManagerSet : outdated'[k] \subseteq installed[k]
    BY <1>6 DEF NewRelease, MachineInv
  <2> QED BY <2>1, <2>2 DEF MachineInv, DoneInv, AtRecipes, Installing, Clear, Unambiguous
<1>7. CASE UNCHANGED vars
  BY <1>7 DEF vars, taskVars, MachineInv, DoneInv, Clear, Unambiguous, ManagerHolds, Satisfied, ReposOf
<1> QED BY <1>1, <1>2, <1>3, <1>4, <1>5, <1>6, <1>7 DEF Next, TaskStep

(***************************************************************************)
(* After a setConfig without an error, through any number of failed        *)
(* attempts, whatever the recipes of earlier runs did, and for any         *)
(* policies whose sources do not contradict themselves, every package and  *)
(* every repository is as the merged policy says.                          *)
(***************************************************************************)
THEOREM PolicyIsApplied == Spec => []PolicyHolds
<1>1. Init => MachineInv /\ DoneInv
  <2> SUFFICES ASSUME Init PROVE MachineInv /\ DoneInv
    OBVIOUS
  <2>1. NoPolicy.packages = {} /\ NoPolicy.repos = {}
    BY DEF NoPolicy
  <2> QED BY <2>1 DEF Init, MachineInv, DoneInv, AtRecipes, Installing, Unambiguous
<1>2. MachineInv /\ DoneInv /\ [Next]_vars => MachineInv' /\ DoneInv'
  BY ChangesKeep, RepositoriesKeep, OthersKeep
<1>3. DoneInv => PolicyHolds
  BY DistinctManagers DEF DoneInv, PolicyHolds, AtRecipes, Clear, ManagerHolds, ReposOf
<1> QED BY <1>1, <1>2, <1>3, PTL DEF Spec
=============================================================================
