----------------------- MODULE ConfigResourcesProofs -----------------------
(***************************************************************************)
(* Proofs about ConfigTask and ConfigResources: the final report of an     *)
(* ApplyConfig task is fresh, complete and true, errors stay inside their  *)
(* policy, and no temporary directory is left.                             *)
(*                                                                         *)
(* The invariants of the first part are about the positions of the task,   *)
(* sorted into sets by what the results and the objects say of them; the   *)
(* order in which run() goes through them is lexicographic.                *)
(***************************************************************************)
EXTENDS ConfigResources, TLAPS

-----------------------------------------------------------------------------
(* The positions *)

Before(p, q) == p[1] < q[1] \/ (p[1] = q[1] /\ p[2] < q[2])

\* By the results: looked at, with an answer, with its steps.
Visited == {p \in Positions : state[p] # "UNSPECIFIED"}
Decided == {p \in Positions : state[p] \in {"COMPLIANT", "NON_COMPLIANT"}}
Looked == {p \in Positions : Taken(p, "VALIDATION")}
Broken == {p \in Positions : Failed(p)}
PostChecked == {p \in Positions : Taken(p, "POST_CHECK")}

\* By the objects: with an object of its own, marked for the post check, with
\* a serious error.
Owners == {p \in Positions : Key(p) \in DOMAIN objects /\ objects[Key(p)].at = p}
Marked == {p \in Owners : objects[Key(p)].needsPostCheck}
Erred == {p \in Owners : objects[Key(p)].validateOrCheckError}

\* The id of the policy comes again.
Replaced == {p \in Positions : Shadowed(p)}

\* Marked, and the post check is still to come.
Waiting == {p \in Marked : pc = "postCheck" => ~Before(p, at)}

-----------------------------------------------------------------------------
(* The inductive invariant of the task *)

Loops == {"policy", "validate", "check", "enforce"}
AtResource == {"validate", "check", "enforce"}

\* Where run() is in its loops.
AtInv ==
    /\ pc \in {"start", "apply"} => at = <<1, 0>> /\ ~made
    /\ pc = "apply" => task # << >>
    /\ pc = "policy" => at[1] \in DOMAIN task /\ at = <<at[1], 0>>
    /\ pc \in AtResource => at \in Positions
    /\ pc = "postCheck" => \/ at \in Positions
                           \/ at[1] \in 1..(Len(task) + 1) /\ at = <<at[1], 0>>
    /\ pc \in Loops \cup {"postCheck"} => made

\* The positions that were looked at lie before the current one, and each has an
\* object of its own unless its policy was replaced.
VisitInv ==
    /\ ~made => Visited = {} /\ Owners = {}
    /\ Visited \subseteq Owners \cup Replaced
    /\ pc \in Loops => \A p \in Visited : Before(p, at) \/ (p = at /\ pc \in {"check", "enforce"})
    /\ enforced \subseteq Visited

\* An object belongs to the last policy of its id that was entered.
ObjectInv ==
    \A p \in Owners : \A i \in DOMAIN task :
        i > p[1] /\ task[i].id = Policy(p).id =>
            pc \in Loops /\ (i > at[1] \/ (i = at[1] /\ pc = "policy"))

\* An object with a serious error has no answer and no mark; the resource at
\* work has no error, and is to be enforced only in ENFORCEMENT mode.
ErrorInv ==
    /\ pc \in Loops => Erred \cap Decided = {}
    /\ Erred \cap Marked = {}
    /\ pc \in {"check", "enforce"} => at \in Owners /\ at \notin Erred
    /\ pc = "check" => at \notin Marked
    /\ pc = "enforce" => ~Policy(at).validateOnly

\* What the loops have done so far is fresh or will be checked again, not both.
FreshInv ==
    pc \in Loops \cup {"postCheck"} =>
        /\ Decided \subseteq fresh \cup Replaced \cup Waiting
        /\ enforced \subseteq PostChecked \cup Replaced \cup Waiting
        /\ fresh \cap Waiting = {}

\* PolicyIsolation for one position.
Isolated(q) ==
    q \in Looked <=> \A p \in Positions : p[1] = q[1] /\ p[2] < q[2] => p \notin Broken

\* The policies that are done are isolated; in the current one nothing is broken.
IsolationInv ==
    /\ \A p \in enforced : ~Policy(p).validateOnly
    /\ Looked \cup Broken \subseteq Visited
    /\ made => \A q \in Positions : (pc \in Loops => q[1] < at[1]) => Isolated(q)
    /\ pc \in AtResource => \A q \in Positions :
          q[1] = at[1] /\ (q[2] < at[2] \/ (q = at /\ pc # "validate")) =>
              q \in Looked /\ q \notin Broken

TaskInv ==
    /\ TypeOK /\ AtInv /\ VisitInv /\ ObjectInv /\ ErrorInv /\ FreshInv /\ IsolationInv
    /\ ComplianceIsFresh /\ EnforcedIsPostChecked

-----------------------------------------------------------------------------
(* Lemmas about positions and objects *)

(***************************************************************************)
(* A position is a pair of a policy of the task and a resource of it, and  *)
(* every such pair is a position.                                          *)
(***************************************************************************)
LEMMA Places ==
    ASSUME task \in Assignments
    PROVE  /\ task \in Seq(Range(task))
           /\ Len(task) \in Nat
           /\ \A i \in DOMAIN task :
                 /\ Len(task[i].resources) \in Nat
                 /\ DOMAIN task[i].resources = 1..Len(task[i].resources)
           /\ DOMAIN task = 1..Len(task)
           /\ \A p \in Positions :
                 /\ p[1] \in DOMAIN task /\ p[1] \in Nat
                 /\ p[2] \in 1..Len(task[p[1]].resources) /\ p[2] \in Nat
                 /\ p = <<p[1], p[2]>>
           /\ \A i \in DOMAIN task : \A j \in 1..Len(task[i].resources) :
                 <<i, j>> \in Positions
<1>1. task \in Seq(Range(task))
  BY AssignmentsAssumption
<1>2. \A i \in DOMAIN task : task[i].resources \in Seq(Range(task[i].resources))
  BY AssignmentsAssumption
<1>3. Len(task) \in Nat /\ DOMAIN task = 1..Len(task)
  BY <1>1
<1>4. \A i \in DOMAIN task : /\ Len(task[i].resources) \in Nat
                             /\ DOMAIN task[i].resources = 1..Len(task[i].resources)
  BY <1>2
<1>5. ASSUME NEW p \in Positions
      PROVE  /\ p[1] \in DOMAIN task /\ p[1] \in Nat
             /\ p[2] \in 1..Len(task[p[1]].resources) /\ p[2] \in Nat
             /\ p = <<p[1], p[2]>>
  <2>1. PICK i \in DOMAIN task : p \in {i} \X DOMAIN task[i].resources
    BY <1>5 DEF Positions
  <2>2. p = <<i, p[2]>> /\ p[2] \in DOMAIN task[i].resources /\ p[1] = i
    BY <2>1
  <2>3. p[2] \in 1..Len(task[i].resources) /\ p[2] \in Nat /\ i \in Nat
    BY <2>2, <1>3, <1>4
  <2> QED BY <2>2, <2>3
<1>6. ASSUME NEW i \in DOMAIN task, NEW j \in 1..Len(task[i].resources)
      PROVE  <<i, j>> \in Positions
  BY <1>4 DEF Positions
<1> QED BY <1>1, <1>3, <1>4, <1>5, <1>6

(***************************************************************************)
(* Two positions with one key are in policies with the same id, and in one *)
(* policy they are the same: resource ids are unique within a policy.      *)
(***************************************************************************)
LEMMA Keys ==
    ASSUME task \in Assignments, NEW p \in Positions, NEW q \in Positions,
           Key(p) = Key(q)
    PROVE  Policy(p).id = Policy(q).id /\ (p[1] = q[1] => p = q)
<1>1. Policy(p).id = Policy(q).id
  BY DEF Key
<1>2. ASSUME p[1] = q[1] PROVE p = q
  <2> DEFINE r == task[p[1]].resources
  <2>1. IsInjective(r) /\ DOMAIN r = 1..Len(r)
    BY Places, AssignmentsAssumption
  <2>2. r[p[2]] = r[q[2]]
    BY <1>2 DEF Key, Policy
  <2>3. p[2] \in DOMAIN r /\ q[2] \in DOMAIN r
    BY <1>2, <2>1, Places
  <2> HIDE DEF r
  <2>4. p[2] = q[2]
    BY <2>1, <2>2, <2>3 DEF IsInjective
  <2> QED BY <1>2, <2>4, Places
<1> QED BY <1>1, <1>2

(***************************************************************************)
(* An object in the maps is the own object of the position it was made     *)
(* for.                                                                    *)
(***************************************************************************)
LEMMA Own ==
    ASSUME TypeOK, NEW k \in DOMAIN objects
    PROVE  /\ objects[k] \in Objects
           /\ objects[k].at \in Owners
           /\ Key(objects[k].at) = k
<1>1. objects[k] \in Objects
  BY DEF TypeOK, Range
<1>2. objects[k].at \in Positions /\ Key(objects[k].at) = k
  BY <1>1 DEF TypeOK, Objects
<1> QED BY <1>1, <1>2 DEF Owners

-----------------------------------------------------------------------------
(* Lemmas about the order of the loops *)

\* To the next resource, to the next policy or on to the post check.
Move(break) ==
    \/ /\ pc' = "validate" /\ ~break
       /\ at' \in Positions /\ at' = <<at[1], at[2] + 1>>
    \/ /\ pc' = "policy"
       /\ at' = <<at[1] + 1, 0>> /\ at[1] + 1 \in DOMAIN task
       /\ break \/ at[2] = Len(Policy(at).resources)
    \/ /\ pc' = "postCheck"
       /\ at' = <<1, 0>> /\ at[1] = Len(task)
       /\ break \/ at[2] = Len(Policy(at).resources)

(***************************************************************************)
(* continue and break leave a resource in one of three ways.               *)
(***************************************************************************)
LEMMA GoOnMoves ==
    ASSUME TypeOK, AtInv, pc \in AtResource, NEW break \in BOOLEAN, GoOn(break)
    PROVE  Move(break)
<1> USE DEF AtResource
<1>1. at \in Positions /\ task \in Assignments
  BY DEF TypeOK, AtInv
<1>2. /\ at[1] \in DOMAIN task /\ at[1] \in Nat /\ DOMAIN task = 1..Len(task) /\ Len(task) \in Nat
      /\ at[2] \in 1..Len(task[at[1]].resources) /\ at[2] \in Nat /\ Len(task[at[1]].resources) \in Nat
  BY <1>1, Places
<1>3. CASE ~break /\ ~Ended(at) /\ at' = <<at[1], at[2] + 1>> /\ pc' = "validate"
  <2>1. at[2] + 1 \in 1..Len(task[at[1]].resources)
    BY <1>2, <1>3 DEF Ended, Policy
  <2>2. <<at[1], at[2] + 1>> \in Positions
    BY <1>1, <1>2, <2>1, Places
  <2> QED BY <1>3, <2>2 DEF Move
<1>4. CASE (break \/ Ended(at)) /\ at' = AfterPolicy(at)
           /\ pc' = (IF LastPolicy(at) THEN "postCheck" ELSE "policy")
  BY <1>2, <1>4 DEF Move, Ended, AfterPolicy, LastPolicy, Policy
<1> QED BY <1>3, <1>4 DEF GoOn

(***************************************************************************)
(* To enter a policy is to go to its first resource or past it.            *)
(***************************************************************************)
LEMMA EnterMoves ==
    ASSUME TypeOK, AtInv, EnterPolicy
    PROVE  Move(FALSE)
<1>1. task \in Assignments /\ at = <<at[1], 0>> /\ at[1] \in DOMAIN task
  BY DEF TypeOK, AtInv, EnterPolicy
<1>2. /\ at[1] \in Nat /\ DOMAIN task = 1..Len(task) /\ Len(task) \in Nat
      /\ at[2] = 0 /\ Len(task[at[1]].resources) \in Nat
  BY <1>1, Places
<1>3. CASE Ended(at)
  <2>1. at' = AfterPolicy(at) /\ pc' = (IF LastPolicy(at) THEN "postCheck" ELSE "policy")
    BY <1>3 DEF EnterPolicy
  <2> QED BY <1>1, <1>2, <1>3, <2>1 DEF Move, Ended, AfterPolicy, LastPolicy, Policy
<1>4. CASE ~Ended(at)
  <2>1. 1 \in 1..Len(task[at[1]].resources)
    BY <1>2, <1>4 DEF Ended, Policy
  <2>2. <<at[1], 1>> \in Positions
    BY <1>1, <1>2, <2>1, Places
  <2> QED BY <1>2, <1>4, <2>2 DEF Move, EnterPolicy
<1> QED BY <1>3, <1>4

(***************************************************************************)
(* What a move keeps of the order of the loops: the positions that were    *)
(* looked at stay behind, and objects belong to the last policy of their   *)
(* id.                                                                     *)
(***************************************************************************)
LEMMA MoveKeepsOrder ==
    ASSUME TypeOK, AtInv, VisitInv, ObjectInv, pc \in Loops,
           NEW break \in BOOLEAN, Move(break), UNCHANGED <<task, made>>,
           Visited' \subseteq Visited \cup (IF pc = "policy" THEN {} ELSE {at}),
           Owners' \subseteq Owners \cup (IF pc = "policy" THEN {} ELSE {at}),
           pc = "policy" => \A p \in Owners' : Policy(p).id # Policy(at).id,
           Visited' \subseteq Owners' \cup Replaced,
           enforced' \subseteq Visited'
    PROVE  AtInv' /\ VisitInv' /\ ObjectInv'
<1>1. /\ task \in Assignments
      /\ made' /\ Positions' = Positions /\ Replaced' = Replaced
  BY DEF TypeOK, AtInv, Positions, Replaced, Shadowed, Policy
<1>2. /\ at[1] \in DOMAIN task /\ at[1] \in Nat /\ at[2] \in Nat
      /\ Len(task) \in Nat /\ DOMAIN task = 1..Len(task)
      /\ at = <<at[1], at[2]>>
      /\ pc = "policy" => at[2] = 0
      /\ pc # "policy" => at \in Positions
  BY <1>1, Places DEF AtInv, Loops, AtResource
<1>3. AtInv'
  BY <1>1, <1>2 DEF AtInv, Move, Loops, AtResource
<1>4. VisitInv'
  <2>1. ASSUME NEW p \in Visited', pc' \in Loops PROVE Before(p, at')
    <3>1. p \in Positions /\ p[1] \in Nat /\ p[2] \in Nat /\ p = <<p[1], p[2]>>
      BY <1>1, Places DEF Visited
    <3>2. Before(p, at) \/ (p = at /\ pc # "policy")
      BY <2>1 DEF VisitInv
    <3>3. p[1] < at[1] \/ (p[1] = at[1] /\ p[2] < at[2]) \/ (p[1] = at[1] /\ p[2] = at[2] /\ pc # "policy")
      BY <3>2 DEF Before
    <3>4. \/ at'[1] = at[1] /\ at'[2] = at[2] + 1
          \/ at'[1] = at[1] + 1
      BY <2>1 DEF Move, Loops
    <3> QED BY <3>1, <3>3, <3>4, <1>2 DEF Before
  <2> QED BY <1>1, <2>1 DEF VisitInv
<1>5. ObjectInv'
  <2>1. ASSUME NEW p \in Owners', NEW i \in DOMAIN task,
               i > p[1], task[i].id = Policy(p).id
        PROVE  pc' \in Loops /\ (i > at'[1] \/ (i = at'[1] /\ pc' = "policy"))
    <3>1. i > at[1]
      <4>1. CASE p \in Owners
        <5>1. i > at[1] \/ (i = at[1] /\ pc = "policy")
          BY <2>1, <4>1 DEF ObjectInv
        <5> QED BY <5>1, <2>1 DEF Policy
      <4>2. CASE p = at
        BY <2>1, <4>2
      <4> QED BY <4>1, <4>2
    <3>2. i \in 1..Len(task)
      BY <1>2
    <3> QED BY <3>1, <3>2, <1>2 DEF Move, Loops
  <2> QED BY <1>1, <2>1 DEF ObjectInv, Policy
<1> QED BY <1>3, <1>4, <1>5

(***************************************************************************)
(* What a move keeps of the isolation of policies: it leaves a policy      *)
(* early if and only if the resource at work is broken.                    *)
(***************************************************************************)
LEMMA MoveKeepsIsolation ==
    ASSUME TypeOK, AtInv, VisitInv, IsolationInv, pc \in Loops,
           NEW break \in BOOLEAN, Move(break), UNCHANGED <<task, made>>,
           \A q \in Positions :
               /\ q \in Visited' <=> (q \in Visited \/ q = at)
               /\ q \in Looked' <=> (q \in Looked \/ q = at)
               /\ q \in Broken' <=> (q \in Broken \/ (q = at /\ break)),
           pc = "policy" => ~break,
           \A p \in enforced' : ~Policy(p).validateOnly
    PROVE  IsolationInv'
<1>1. task \in Assignments /\ Positions' = Positions /\ made'
  BY DEF TypeOK, AtInv, Positions
<1>2. /\ at[1] \in DOMAIN task /\ at[1] \in Nat /\ at[2] \in Nat
      /\ Len(task) \in Nat /\ DOMAIN task = 1..Len(task)
      /\ at = <<at[1], at[2]>>
      /\ pc = "policy" => at[2] = 0
      /\ pc # "policy" => at \in Positions
  BY <1>1, Places DEF AtInv, Loops, AtResource
<1>3. ASSUME NEW p \in Positions
      PROVE  /\ p[1] \in DOMAIN task /\ p[1] \in Nat /\ p[2] \in Nat /\ p = <<p[1], p[2]>>
             /\ p[2] >= 1 /\ p[2] <= Len(task[p[1]].resources)
  BY <1>1, Places
<1>4. Looked \subseteq Visited /\ Broken \subseteq Visited
  BY DEF IsolationInv
<1>5. ASSUME NEW q \in Positions, q[1] = at[1]
      PROVE  /\ q[2] < at[2] => q \in Looked /\ q \notin Broken
             /\ q = at => q \in Looked'
             /\ q[2] > at[2] => q \notin Looked /\ q \notin Broken
             /\ q = at => q \notin Broken
             /\ q[2] = at[2] => q = at
  <2>1. q[2] = at[2] => q = at
    BY <1>5, <1>2, <1>3
  <2>2. q[2] < at[2] => q \in Looked /\ q \notin Broken
    BY <1>5, <1>2, <1>3 DEF IsolationInv, Loops, AtResource
  <2>3. q[2] > at[2] => q \notin Visited
    BY <1>5, <1>2, <1>3 DEF VisitInv, Before
  <2>4. q = at /\ pc = "validate" => q \notin Visited
    BY <1>2 DEF VisitInv, Before, Loops
  <2>5. q = at /\ pc \in {"check", "enforce"} => q \notin Broken
    BY <1>5 DEF IsolationInv, AtResource
  <2>6. q = at => pc # "policy"
    BY <1>2, <1>3
  <2> QED BY <1>4, <2>1, <2>2, <2>3, <2>4, <2>5, <2>6 DEF Loops
<1>6. ASSUME NEW q \in Positions, q[1] # at[1]
      PROVE  (q \in Looked' <=> q \in Looked) /\ (q \in Broken' <=> q \in Broken)
  BY <1>6
<1>7. ASSUME NEW q \in Positions, q[1] = at[1], pc' # "validate"
      PROVE  Isolated(q)'
  <2>1. break \/ \A p \in Positions : p[1] = at[1] => p[2] <= at[2]
    BY <1>7, <1>3, <1>2 DEF Move, Policy
  <2>2. break => pc # "policy" /\ at \in Broken' /\ at \in Positions
    BY <1>2
  <2>3. ASSUME NEW p \in Positions, p[1] = at[1], p[2] < at[2]
        PROVE  p \notin Broken'
    BY <2>3, <1>5
  <2>4. CASE q[2] <= at[2]
    <3>1. q \in Looked'
      BY <2>4, <1>5, <1>7, <1>3, <1>2
    <3>2. \A p \in Positions : p[1] = q[1] /\ p[2] < q[2] => p \notin Broken'
      BY <2>3, <2>4, <1>7, <1>3, <1>2
    <3> QED BY <3>1, <3>2, <1>1 DEF Isolated
  <2>5. CASE q[2] > at[2]
    <3>1. q \notin Looked'
      BY <2>5, <1>5, <1>7, <1>2
    <3>2. at \in Broken' /\ at \in Positions
      BY <2>5, <2>1, <2>2, <1>7, <1>2, <1>3
    <3> QED BY <3>1, <3>2, <2>5, <1>1, <1>7 DEF Isolated
  <2> QED BY <2>4, <2>5, <1>2, <1>3
<1>8. ASSUME NEW q \in Positions, q[1] < at[1]
      PROVE  Isolated(q)'
  <2>1. Isolated(q)
    BY <1>8 DEF IsolationInv, AtInv
  <2>2. \A p \in Positions : p[1] = q[1] => (p \in Broken' <=> p \in Broken)
    BY <1>8, <1>6, <1>2, <1>3
  <2>3. q \in Looked' <=> q \in Looked
    BY <1>8, <1>6, <1>2, <1>3
  <2> QED BY <2>1, <2>2, <2>3, <1>1 DEF Isolated
<1>9. ASSUME NEW q \in Positions, pc' \in Loops => q[1] < at'[1]
      PROVE  Isolated(q)'
  <2>1. q[1] < at[1] \/ (q[1] = at[1] /\ pc' # "validate")
    BY <1>9, <1>2, <1>3 DEF Move, Loops
  <2> QED BY <2>1, <1>7, <1>8
<1>10. ASSUME NEW q \in Positions, pc' \in AtResource, q[1] = at'[1],
              q[2] < at'[2] \/ (q = at' /\ pc' # "validate")
       PROVE  q \in Looked' /\ q \notin Broken'
  <2>1. pc' = "validate" /\ ~break /\ at'[1] = at[1] /\ at'[2] = at[2] + 1
    BY <1>10 DEF Move, AtResource
  <2>2. q[1] = at[1] /\ q[2] <= at[2]
    BY <1>10, <2>1, <1>2, <1>3
  <2> QED BY <2>1, <2>2, <1>5, <1>2, <1>3
<1>11. (Looked \cup Broken \subseteq Visited)'
  BY <1>1, <1>4 DEF Looked, Broken
<1>12. (\A p \in enforced : ~Policy(p).validateOnly)'
  BY DEF Policy
<1> QED BY <1>1, <1>9, <1>10, <1>11, <1>12 DEF IsolationInv

-----------------------------------------------------------------------------
(* Lemmas about what a step changes *)

(***************************************************************************)
(* The positions and the policy ids of a task do not change.               *)
(***************************************************************************)
LEMMA Frame ==
    ASSUME UNCHANGED task
    PROVE  Positions' = Positions /\ Replaced' = Replaced /\ Objects' = Objects
BY DEF Positions, Replaced, Shadowed, Policy, Objects

(***************************************************************************)
(* After a move the post check of every marked object is still to come.    *)
(***************************************************************************)
LEMMA MoveWaits ==
    ASSUME TypeOK, UNCHANGED task, NEW break \in BOOLEAN, Move(break)
    PROVE  Waiting' = Marked'
<1>1. ASSUME NEW p \in Marked', pc' = "postCheck" PROVE ~Before(p, at')
  <2>1. p \in Positions /\ task \in Assignments
    BY Frame DEF Marked, Owners, TypeOK
  <2>2. p[1] \in 1..Len(task) /\ Len(task) \in Nat /\ p[2] \in Nat
    BY <2>1, Places
  <2>3. at'[1] = 1 /\ at'[2] = 0
    BY <1>1 DEF Move
  <2> QED BY <2>2, <2>3 DEF Before
<1> QED BY <1>1 DEF Waiting

(***************************************************************************)
(* A config step that is added to the results of one position.             *)
(***************************************************************************)
LEMMA StepSets ==
    ASSUME TypeOK, UNCHANGED task, NEW p \in Positions,
           NEW type \in {"VALIDATION", "CHECK", "ENFORCEMENT", "POST_CHECK"},
           NEW ok \in BOOLEAN, AddStep(p, type, ok)
    PROVE  /\ steps' \in [Positions -> SUBSET ConfigSteps]
           /\ Looked' = IF type = "VALIDATION" THEN Looked \cup {p} ELSE Looked
           /\ Broken' = IF ~ok /\ type # "POST_CHECK" THEN Broken \cup {p} ELSE Broken
           /\ PostChecked' = IF type = "POST_CHECK" THEN PostChecked \cup {p} ELSE PostChecked
<1> DEFINE new == <<type, IF ok THEN "SUCCEEDED" ELSE "FAILED">>
<1>1. /\ new \in ConfigSteps /\ new[1] = type
      /\ \A t : new = <<t, "FAILED">> <=> t = type /\ ~ok
  BY DEF ConfigSteps
<1>2. /\ steps \in [Positions -> SUBSET ConfigSteps]
      /\ steps' = [steps EXCEPT ![p] = @ \cup {new}]
  BY DEF TypeOK, AddStep
<1> HIDE DEF new
<1>3. steps' \in [Positions -> SUBSET ConfigSteps]
  BY <1>1, <1>2
<1>4. ASSUME NEW q \in Positions
      PROVE  steps'[q] = IF q = p THEN steps[q] \cup {new} ELSE steps[q]
  BY <1>2
<1>5. ASSUME NEW q \in Positions, NEW t
      PROVE  (t \in {step[1] : step \in steps'[q]})
                <=> (t \in {step[1] : step \in steps[q]} \/ (q = p /\ t = type))
  BY <1>4, <1>1
<1>6. ASSUME NEW q \in Positions, NEW t
      PROVE  <<t, "FAILED">> \in steps'[q]
                <=> (<<t, "FAILED">> \in steps[q] \/ (q = p /\ t = type /\ ~ok))
  BY <1>4, <1>1
<1>7. Looked' = IF type = "VALIDATION" THEN Looked \cup {p} ELSE Looked
  BY <1>5, Frame DEF Looked, Taken
<1>8. PostChecked' = IF type = "POST_CHECK" THEN PostChecked \cup {p} ELSE PostChecked
  BY <1>5, Frame DEF PostChecked, Taken
<1>9. Broken' = IF ~ok /\ type # "POST_CHECK" THEN Broken \cup {p} ELSE Broken
  BY <1>6, Frame DEF Broken, Failed
<1> QED BY <1>3, <1>7, <1>8, <1>9

(***************************************************************************)
(* A compliance state that is overwritten in the results of one position.  *)
(***************************************************************************)
LEMMA StateSets ==
    ASSUME TypeOK, UNCHANGED task, NEW p \in Positions,
           NEW s \in {"UNKNOWN", "COMPLIANT", "NON_COMPLIANT"},
           state' = [state EXCEPT ![p] = s]
    PROVE  /\ state' \in [Positions -> ComplianceStates]
           /\ Visited' = Visited \cup {p}
           /\ Decided' = IF s = "UNKNOWN" THEN Decided \ {p} ELSE Decided \cup {p}
<1>1. state \in [Positions -> ComplianceStates]
  BY DEF TypeOK
<1>2. state' \in [Positions -> ComplianceStates]
  BY <1>1 DEF ComplianceStates
<1> QED BY <1>1, <1>2, Frame DEF Visited, Decided

(***************************************************************************)
(* Objects that are changed, none made or replaced.                        *)
(***************************************************************************)
LEMMA ObjectSets ==
    ASSUME TypeOK, UNCHANGED task, DOMAIN objects' = DOMAIN objects,
           \A k \in DOMAIN objects :
               objects'[k] \in Objects /\ objects'[k].at = objects[k].at
    PROVE  /\ (Range(objects) \subseteq Objects)'
           /\ (\A k \in DOMAIN objects : k = Key(objects[k].at))'
           /\ Owners' = Owners
           /\ Marked' = {p \in Owners : objects'[Key(p)].needsPostCheck}
           /\ Erred' = {p \in Owners : objects'[Key(p)].validateOrCheckError}
<1>1. (Range(objects) \subseteq Objects)'
  BY Frame DEF Range
<1>2. (\A k \in DOMAIN objects : k = Key(objects[k].at))'
  BY DEF TypeOK, Key, Policy
<1>3. Owners' = Owners
  BY Frame DEF Owners, Key, Policy
<1>4. /\ Marked' = {p \in Owners : objects'[Key(p)].needsPostCheck}
      /\ Erred' = {p \in Owners : objects'[Key(p)].validateOrCheckError}
  BY <1>3 DEF Marked, Erred, Key, Policy
<1> QED BY <1>1, <1>2, <1>3, <1>4

-----------------------------------------------------------------------------
(* The invariant of the task: the loops *)

(***************************************************************************)
(* The resource at work is a position with a free object.                  *)
(***************************************************************************)
LEMMA AtWork ==
    ASSUME TaskInv, pc \in AtResource
    PROVE  /\ task \in Assignments /\ at \in Positions /\ pc \in Loops /\ made
           /\ Waiting = Marked
           /\ pc = "validate" => at \notin Visited
           /\ pc # "validate" =>
                 /\ at \in Owners /\ at \notin Erred /\ at \in Visited
                 /\ at \in Looked /\ at \notin Broken
                 /\ Key(at) \in DOMAIN objects /\ objects[Key(at)] \in Objects
                 /\ objects[Key(at)].at = at
<1>1. /\ task \in Assignments /\ at \in Positions /\ pc \in Loops /\ made
      /\ Waiting = Marked
  BY DEF TaskInv, TypeOK, AtInv, AtResource, Loops, Waiting
<1>2. at[1] \in Nat /\ at[2] \in Nat
  BY <1>1, Places
<1>3. ~Before(at, at)
  BY <1>2 DEF Before
<1>4. pc = "validate" => at \notin Visited
  BY <1>1, <1>3 DEF TaskInv, VisitInv
<1>5. ASSUME pc # "validate"
      PROVE  /\ at \in Owners /\ at \notin Erred /\ at \in Visited
             /\ at \in Looked /\ at \notin Broken
             /\ Key(at) \in DOMAIN objects /\ objects[Key(at)] \in Objects
             /\ objects[Key(at)].at = at
  <2>1. at \in Owners /\ at \notin Erred
    BY <1>5 DEF TaskInv, ErrorInv, AtResource
  <2>2. at \in Looked /\ at \notin Broken
    BY <1>1, <1>5 DEF TaskInv, IsolationInv
  <2>3. at \in Visited
    BY <2>2 DEF TaskInv, IsolationInv
  <2>4. Key(at) \in DOMAIN objects /\ objects[Key(at)].at = at
    BY <2>1 DEF Owners
  <2>5. objects[Key(at)] \in Objects
    BY <2>4, Own DEF TaskInv
  <2> QED BY <2>1, <2>2, <2>3, <2>4, <2>5
<1> QED BY <1>1, <1>4, <1>5

(***************************************************************************)
(* Nothing is promised of the report while the loops go on.                *)
(***************************************************************************)
LEMMA NoReportYet ==
    ASSUME pc' \notin {"cleanup", "end"}
    PROVE  ComplianceIsFresh' /\ EnforcedIsPostChecked'
BY DEF ComplianceIsFresh, EnforcedIsPostChecked, Completed

(***************************************************************************)
(* What is left to show of a step that is done with the resource at work:  *)
(* what it says about the sets of positions.                               *)
(***************************************************************************)
LEMMA MoveKeepsInv ==
    ASSUME TaskInv, pc \in AtResource, NEW break \in BOOLEAN, GoOn(break),
           UNCHANGED <<task, made, final>>,
           (Range(objects) \subseteq Objects)',
           (\A k \in DOMAIN objects : k = Key(objects[k].at))',
           state' \in [Positions -> ComplianceStates],
           steps' \in [Positions -> SUBSET ConfigSteps],
           Visited' = Visited \cup {at},
           Looked' = Looked \cup {at},
           Broken' = IF break THEN Broken \cup {at} ELSE Broken,
           Owners' \subseteq Owners \cup {at},
           Visited' \subseteq Owners' \cup Replaced,
           Erred' \cap Decided' = {},
           Erred' \cap Marked' = {},
           fresh' \subseteq Positions \ Marked',
           enforced' \subseteq enforced \cup {at},
           at \in enforced' => ~Policy(at).validateOnly,
           Decided' \subseteq fresh' \cup Replaced \cup Marked',
           enforced' \subseteq PostChecked' \cup Replaced \cup Marked'
    PROVE  TaskInv'
<1>1. Move(break)
  BY GoOnMoves DEF TaskInv
<1>2. Positions' = Positions /\ Replaced' = Replaced
  BY Frame
<1>3. at \in Positions /\ pc \in Loops /\ pc # "policy"
  BY AtWork DEF AtResource
<1>4. pc' \in {"validate", "policy", "postCheck"} /\ Waiting' = Marked'
  BY <1>1, MoveWaits DEF Move, TaskInv
<1>5. TypeOK'
  BY <1>2, <1>3, <1>4 DEF TaskInv, TypeOK
<1>6. AtInv' /\ VisitInv' /\ ObjectInv'
  <2>1. enforced' \subseteq Visited'
    BY DEF TaskInv, VisitInv
  <2> QED BY <1>1, <1>3, <2>1, MoveKeepsOrder DEF TaskInv
<1>7. ErrorInv'
  BY <1>4 DEF ErrorInv
<1>8. FreshInv'
  BY <1>2, <1>4 DEF FreshInv
<1>9. IsolationInv'
  <2>1. \A p \in enforced' : ~Policy(p).validateOnly
    BY DEF TaskInv, IsolationInv
  <2> QED BY <1>1, <1>3, <2>1, MoveKeepsIsolation DEF TaskInv
<1> QED BY <1>4, <1>5, <1>6, <1>7, <1>8, <1>9, NoReportYet DEF TaskInv

(***************************************************************************)
(* A check without an error keeps the invariant.                           *)
(***************************************************************************)
LEMMA CheckStateInv ==
    ASSUME TaskInv, NEW desired \in BOOLEAN, CheckState(desired)
    PROVE  TaskInv'
<1> DEFINE answer == IF desired THEN "COMPLIANT" ELSE "NON_COMPLIANT"
<1>1. /\ pc = "check" /\ AddStep(at, "CHECK", TRUE)
      /\ objects' = [objects EXCEPT ![Key(at)].inDesiredState = desired]
      /\ state' = [state EXCEPT ![at] = answer]
      /\ fresh' = fresh \cup {at}
      /\ UNCHANGED <<task, made, final, enforced>>
      /\ GoOn(FALSE) \/ (pc' = "enforce" /\ at' = at /\ ~Policy(at).validateOnly)
  BY DEF CheckState
<1>2. pc \in AtResource /\ TypeOK /\ answer \in {"COMPLIANT", "NON_COMPLIANT"}
  BY <1>1 DEF AtResource, TaskInv
<1> HIDE DEF answer
<1>3. /\ at \in Positions /\ pc \in Loops /\ Waiting = Marked
      /\ at \in Owners /\ at \notin Erred /\ at \in Visited /\ at \in Looked /\ at \notin Broken
      /\ Key(at) \in DOMAIN objects /\ objects[Key(at)] \in Objects /\ objects[Key(at)].at = at
      /\ at \notin Marked
  BY <1>1, <1>2, AtWork DEF TaskInv, ErrorInv
<1>4. /\ steps' \in [Positions -> SUBSET ConfigSteps]
      /\ Looked' = Looked /\ Broken' = Broken /\ PostChecked' = PostChecked
  BY <1>1, <1>2, <1>3, StepSets
<1>5. /\ state' \in [Positions -> ComplianceStates]
      /\ Visited' = Visited \cup {at} /\ Decided' = Decided \cup {at}
  BY <1>1, <1>2, <1>3, StateSets
<1>6. /\ DOMAIN objects' = DOMAIN objects
      /\ \A k \in DOMAIN objects :
            /\ objects'[k] \in Objects /\ objects'[k].at = objects[k].at
            /\ objects'[k].needsPostCheck = objects[k].needsPostCheck
            /\ objects'[k].validateOrCheckError = objects[k].validateOrCheckError
  BY <1>1, <1>2, <1>3, Own DEF Objects
<1>7. /\ (Range(objects) \subseteq Objects)'
      /\ (\A k \in DOMAIN objects : k = Key(objects[k].at))'
      /\ Owners' = Owners
  BY <1>1, <1>2, <1>6, ObjectSets
<1>8. Marked' = Marked /\ Erred' = Erred
  BY <1>1, <1>2, <1>6, ObjectSets DEF Marked, Erred, Owners
<1>9. Positions' = Positions /\ Replaced' = Replaced
  BY <1>1, Frame
<1>10. /\ Decided \subseteq fresh \cup Replaced \cup Marked
       /\ enforced \subseteq PostChecked \cup Replaced \cup Marked
       /\ fresh \cap Marked = {} /\ Erred \cap Decided = {} /\ Erred \cap Marked = {}
       /\ fresh \subseteq Positions /\ Visited \subseteq Owners \cup Replaced
  BY <1>3 DEF TaskInv, FreshInv, ErrorInv, TypeOK, VisitInv
<1>11. CASE GoOn(FALSE)
  <2>1. /\ Visited' \subseteq Owners' \cup Replaced
        /\ Erred' \cap Decided' = {} /\ Erred' \cap Marked' = {}
        /\ fresh' \subseteq Positions \ Marked'
        /\ Decided' \subseteq fresh' \cup Replaced \cup Marked'
        /\ enforced' \subseteq PostChecked' \cup Replaced \cup Marked'
        /\ Looked' = Looked \cup {at} /\ Owners' \subseteq Owners \cup {at}
        /\ at \in enforced' => ~Policy(at).validateOnly
    BY <1>1, <1>3, <1>4, <1>5, <1>7, <1>8, <1>10 DEF TaskInv, IsolationInv
  <2> QED BY <1>1, <1>2, <1>4, <1>5, <1>7, <1>11, <2>1, MoveKeepsInv
<1>12. CASE pc' = "enforce" /\ at' = at /\ ~Policy(at).validateOnly
  <2>1. Waiting' = Marked
    BY <1>8, <1>12 DEF Waiting
  <2>2. TypeOK'
    BY <1>1, <1>2, <1>3, <1>4, <1>5, <1>7, <1>9, <1>12 DEF TypeOK
  <2>3. AtInv'
    BY <1>1, <1>3, <1>9, <1>12 DEF TaskInv, AtInv, Loops, AtResource
  <2>4. VisitInv'
    BY <1>1, <1>3, <1>5, <1>7, <1>9, <1>12 DEF TaskInv, AtInv, VisitInv
  <2>5. ObjectInv'
    BY <1>1, <1>3, <1>7, <1>12 DEF TaskInv, ObjectInv, Policy, Loops
  <2>6. ErrorInv'
    BY <1>1, <1>3, <1>5, <1>7, <1>8, <1>12 DEF TaskInv, ErrorInv, Policy
  <2>7. FreshInv'
    BY <1>1, <1>3, <1>4, <1>5, <1>8, <1>9, <2>1 DEF TaskInv, FreshInv
  <2>8. IsolationInv'
    <3>1. \A q : Isolated(q)' <=> Isolated(q)
      BY <1>4, <1>9 DEF Isolated
    <3>2. (\A p \in enforced : ~Policy(p).validateOnly)'
      BY <1>1 DEF TaskInv, IsolationInv, Policy
    <3> QED BY <1>1, <1>2, <1>3, <1>4, <1>5, <1>9, <1>12, <3>1, <3>2 DEF TaskInv, IsolationInv, Loops, AtResource
  <2> QED BY <1>12, <2>2, <2>3, <2>4, <2>5, <2>6, <2>7, <2>8, NoReportYet DEF TaskInv
<1> QED BY <1>1, <1>11, <1>12

(***************************************************************************)
(* A check that fails keeps the invariant.                                 *)
(***************************************************************************)
LEMMA CheckStateErrorInv ==
    ASSUME TaskInv, CheckStateError
    PROVE  TaskInv'
<1>1. /\ pc = "check" /\ AddStep(at, "CHECK", FALSE) /\ GoOn(TRUE)
      /\ objects' = [objects EXCEPT ![Key(at)].validateOrCheckError = TRUE]
      /\ state' = [state EXCEPT ![at] = "UNKNOWN"]
      /\ UNCHANGED <<task, made, final, fresh, enforced>>
  BY DEF CheckStateError
<1>2. pc \in AtResource /\ TypeOK
  BY <1>1 DEF AtResource, TaskInv
<1>3. /\ at \in Positions /\ pc \in Loops /\ Waiting = Marked
      /\ at \in Owners /\ at \notin Erred /\ at \in Visited /\ at \in Looked /\ at \notin Broken
      /\ Key(at) \in DOMAIN objects /\ objects[Key(at)] \in Objects /\ objects[Key(at)].at = at
      /\ at \notin Marked
  BY <1>1, <1>2, AtWork DEF TaskInv, ErrorInv
<1>4. /\ steps' \in [Positions -> SUBSET ConfigSteps]
      /\ Looked' = Looked /\ Broken' = Broken \cup {at} /\ PostChecked' = PostChecked
  BY <1>1, <1>2, <1>3, StepSets
<1>5. /\ state' \in [Positions -> ComplianceStates]
      /\ Visited' = Visited \cup {at} /\ Decided' = Decided \ {at}
  BY <1>1, <1>2, <1>3, StateSets
<1>6. /\ DOMAIN objects' = DOMAIN objects
      /\ \A k \in DOMAIN objects :
            /\ objects'[k] \in Objects /\ objects'[k].at = objects[k].at
            /\ objects'[k].needsPostCheck = objects[k].needsPostCheck
            /\ objects'[k].validateOrCheckError <=>
                   (objects[k].validateOrCheckError \/ objects[k].at = at)
  <2>1. DOMAIN objects' = DOMAIN objects
    BY <1>1
  <2>2. ASSUME NEW k \in DOMAIN objects
        PROVE  /\ objects'[k] \in Objects /\ objects'[k].at = objects[k].at
               /\ objects'[k].needsPostCheck = objects[k].needsPostCheck
               /\ objects'[k].validateOrCheckError <=>
                      (objects[k].validateOrCheckError \/ objects[k].at = at)
    <3>1. objects[k] \in Objects /\ Key(objects[k].at) = k
      BY <1>2, Own
    <3>2. objects[k].at = at => k = Key(at)
      BY <3>1
    <3>3. CASE k = Key(at)
      <4>1. objects'[k] = [objects[k] EXCEPT !.validateOrCheckError = TRUE]
        BY <1>1, <3>3
      <4> QED BY <1>3, <3>1, <3>3, <4>1 DEF Objects
    <3>4. CASE k # Key(at)
      BY <1>1, <3>1, <3>2, <3>4
    <3> QED BY <3>3, <3>4
  <2> QED BY <2>1, <2>2
<1>7. /\ (Range(objects) \subseteq Objects)'
      /\ (\A k \in DOMAIN objects : k = Key(objects[k].at))'
      /\ Owners' = Owners
  BY <1>1, <1>2, <1>6, ObjectSets
<1>8. Marked' = Marked /\ Erred' = Erred \cup {at}
  <2>1. /\ Marked' = {p \in Owners : objects'[Key(p)].needsPostCheck}
        /\ Erred' = {p \in Owners : objects'[Key(p)].validateOrCheckError}
    BY <1>1, <1>2, <1>6, ObjectSets
  <2>2. \A p \in Owners : Key(p) \in DOMAIN objects /\ objects[Key(p)].at = p
    BY DEF Owners
  <2>3. Marked' = Marked
    BY <1>6, <2>1, <2>2 DEF Marked
  <2>4. \A p \in Owners : objects'[Key(p)].validateOrCheckError
                              <=> (objects[Key(p)].validateOrCheckError \/ p = at)
    BY <1>6, <2>2
  <2>5. Erred' = Erred \cup {at}
    BY <1>3, <2>1, <2>4 DEF Erred
  <2> QED BY <2>3, <2>5
<1>9. /\ Decided \subseteq fresh \cup Replaced \cup Marked
      /\ enforced \subseteq PostChecked \cup Replaced \cup Marked
      /\ fresh \cap Marked = {} /\ Erred \cap Decided = {} /\ Erred \cap Marked = {}
      /\ fresh \subseteq Positions /\ Visited \subseteq Owners \cup Replaced
  BY <1>3 DEF TaskInv, FreshInv, ErrorInv, TypeOK, VisitInv
<1>10. /\ Visited' \subseteq Owners' \cup Replaced
       /\ Erred' \cap Decided' = {} /\ Erred' \cap Marked' = {}
       /\ fresh' \subseteq Positions \ Marked'
       /\ Decided' \subseteq fresh' \cup Replaced \cup Marked'
       /\ enforced' \subseteq PostChecked' \cup Replaced \cup Marked'
       /\ Looked' = Looked \cup {at} /\ Owners' \subseteq Owners \cup {at}
       /\ at \in enforced' => ~Policy(at).validateOnly
  BY <1>1, <1>3, <1>4, <1>5, <1>7, <1>8, <1>9 DEF TaskInv, IsolationInv
<1> QED BY <1>1, <1>2, <1>4, <1>5, <1>7, <1>10, MoveKeepsInv

(***************************************************************************)
(* A resource in its desired state is left alone.                          *)
(***************************************************************************)
LEMMA NoEnforcementInv ==
    ASSUME TaskInv, NoEnforcement
    PROVE  TaskInv'
<1>1. /\ pc = "enforce" /\ GoOn(FALSE)
      /\ UNCHANGED <<task, made, objects, state, steps, final, fresh, enforced>>
  BY DEF NoEnforcement
<1>2. pc \in AtResource /\ TypeOK
  BY <1>1 DEF AtResource, TaskInv
<1>3. pc \in Loops /\ Waiting = Marked /\ at \in Visited /\ at \in Looked /\ at \notin Broken
  BY <1>1, <1>2, AtWork
<1>4. /\ Positions' = Positions /\ Visited' = Visited /\ Decided' = Decided
      /\ Looked' = Looked /\ Broken' = Broken /\ PostChecked' = PostChecked
  BY <1>1, Frame DEF Visited, Decided, Looked, Broken, PostChecked, Taken, Failed
<1>5. Owners' = Owners /\ Marked' = Marked /\ Erred' = Erred
  BY <1>1, Frame DEF Owners, Marked, Erred, Key, Policy
<1>6. /\ (Range(objects) \subseteq Objects)'
      /\ (\A k \in DOMAIN objects : k = Key(objects[k].at))'
      /\ state' \in [Positions -> ComplianceStates]
      /\ steps' \in [Positions -> SUBSET ConfigSteps]
  BY <1>1, <1>2, Frame DEF TypeOK, Key, Policy
<1>7. /\ Decided \subseteq fresh \cup Replaced \cup Marked
      /\ enforced \subseteq PostChecked \cup Replaced \cup Marked
      /\ fresh \cap Marked = {} /\ Erred \cap Decided = {} /\ Erred \cap Marked = {}
      /\ fresh \subseteq Positions /\ Visited \subseteq Owners \cup Replaced
  BY <1>3 DEF TaskInv, FreshInv, ErrorInv, TypeOK, VisitInv
<1>8. at \in enforced' => ~Policy(at).validateOnly
  BY <1>1 DEF TaskInv, IsolationInv
<1>9. /\ Visited' = Visited \cup {at} /\ Looked' = Looked \cup {at}
      /\ Owners' \subseteq Owners \cup {at}
      /\ Visited' \subseteq Owners' \cup Replaced
      /\ Erred' \cap Decided' = {} /\ Erred' \cap Marked' = {}
      /\ fresh' \subseteq Positions \ Marked'
      /\ Decided' \subseteq fresh' \cup Replaced \cup Marked'
      /\ enforced' \subseteq PostChecked' \cup Replaced \cup Marked'
  BY <1>1, <1>3, <1>4, <1>5, <1>7
<1> QED BY <1>1, <1>2, <1>4, <1>6, <1>8, <1>9, MoveKeepsInv

(***************************************************************************)
(* An enforcement, which marks every object without a serious error, keeps *)
(* the invariant.                                                          *)
(***************************************************************************)
LEMMA EnforceStateInv ==
    ASSUME TaskInv, NEW ok \in BOOLEAN, NEW desired \in BOOLEAN, EnforceState(ok, desired)
    PROVE  TaskInv'
<1>1. /\ pc = "enforce" /\ AddStep(at, "ENFORCEMENT", ok) /\ GoOn(~ok)
      /\ objects' = MarkPostCheckRequired([objects EXCEPT ![Key(at)].inDesiredState = desired])
      /\ state' = [state EXCEPT ![at] = "UNKNOWN"]
      /\ fresh' = {} /\ enforced' = enforced \cup {at}
      /\ UNCHANGED <<task, made, final>>
  BY DEF EnforceState
<1>2. pc \in AtResource /\ TypeOK
  BY <1>1 DEF AtResource, TaskInv
<1>3. /\ at \in Positions /\ pc \in Loops /\ Waiting = Marked
      /\ at \in Owners /\ at \notin Erred /\ at \in Visited /\ at \in Looked /\ at \notin Broken
      /\ Key(at) \in DOMAIN objects /\ objects[Key(at)] \in Objects /\ objects[Key(at)].at = at
      /\ ~Policy(at).validateOnly
  BY <1>1, <1>2, AtWork DEF TaskInv, ErrorInv
<1>4. /\ steps' \in [Positions -> SUBSET ConfigSteps]
      /\ Looked' = Looked /\ PostChecked' = PostChecked
      /\ Broken' = IF ~ok THEN Broken \cup {at} ELSE Broken
  BY <1>1, <1>2, <1>3, StepSets
<1>5. /\ state' \in [Positions -> ComplianceStates]
      /\ Visited' = Visited \cup {at} /\ Decided' = Decided \ {at}
  BY <1>1, <1>2, <1>3, StateSets
<1>6. /\ DOMAIN objects' = DOMAIN objects
      /\ \A k \in DOMAIN objects :
            /\ objects'[k] \in Objects /\ objects'[k].at = objects[k].at
            /\ objects'[k].needsPostCheck <=>
                   (objects[k].needsPostCheck \/ ~objects[k].validateOrCheckError)
            /\ objects'[k].validateOrCheckError = objects[k].validateOrCheckError
  <2> DEFINE os == [objects EXCEPT ![Key(at)].inDesiredState = desired]
  <2>1. /\ DOMAIN os = DOMAIN objects
        /\ \A k \in DOMAIN objects :
              /\ os[k] \in Objects /\ os[k].at = objects[k].at
              /\ os[k].needsPostCheck = objects[k].needsPostCheck
              /\ os[k].validateOrCheckError = objects[k].validateOrCheckError
    BY <1>2, <1>3, Own DEF Objects
  <2>2. objects' = [k \in DOMAIN os |->
                      [os[k] EXCEPT !.needsPostCheck = @ \/ ~os[k].validateOrCheckError]]
    BY <1>1 DEF MarkPostCheckRequired
  <2> HIDE DEF os
  <2>3. ASSUME NEW k \in DOMAIN objects
        PROVE  /\ objects'[k] \in Objects /\ objects'[k].at = os[k].at
               /\ objects'[k].needsPostCheck <=>
                      (os[k].needsPostCheck \/ ~os[k].validateOrCheckError)
               /\ objects'[k].validateOrCheckError = os[k].validateOrCheckError
    <3>1. objects'[k] = [os[k] EXCEPT !.needsPostCheck =
                            os[k].needsPostCheck \/ ~os[k].validateOrCheckError]
      BY <2>1, <2>2
    <3> QED BY <2>1, <3>1 DEF Objects
  <2> QED BY <2>1, <2>2, <2>3
<1>7. /\ (Range(objects) \subseteq Objects)'
      /\ (\A k \in DOMAIN objects : k = Key(objects[k].at))'
      /\ Owners' = Owners
      /\ Marked' = {p \in Owners : objects'[Key(p)].needsPostCheck}
      /\ Erred' = {p \in Owners : objects'[Key(p)].validateOrCheckError}
  BY <1>1, <1>2, <1>6, ObjectSets
<1>8. Marked' = Marked \cup (Owners \ Erred) /\ Erred' = Erred
  <2>1. \A p \in Owners : Key(p) \in DOMAIN objects
    BY DEF Owners
  <2> QED BY <1>6, <1>7, <2>1 DEF Marked, Erred
<1>9. /\ enforced \subseteq PostChecked \cup Replaced \cup Marked
      /\ Erred \cap Decided = {} /\ Erred \cap Marked = {}
      /\ Visited \subseteq Owners \cup Replaced /\ Decided \subseteq Visited
  BY <1>3 DEF TaskInv, FreshInv, ErrorInv, TypeOK, VisitInv, Decided, Visited
<1>10. /\ Visited' \subseteq Owners' \cup Replaced
       /\ Erred' \cap Decided' = {} /\ Erred' \cap Marked' = {}
       /\ fresh' \subseteq Positions \ Marked'
       /\ Decided' \subseteq fresh' \cup Replaced \cup Marked'
       /\ enforced' \subseteq PostChecked' \cup Replaced \cup Marked'
       /\ Looked' = Looked \cup {at} /\ Owners' \subseteq Owners \cup {at}
  <2>1. Looked' = Looked \cup {at} /\ Owners' \subseteq Owners \cup {at}
        /\ Visited' \subseteq Owners' \cup Replaced
    BY <1>3, <1>4, <1>5, <1>7, <1>9
  <2>2. Erred' \cap Decided' = {} /\ Erred' \cap Marked' = {}
    BY <1>5, <1>8, <1>9
  <2>3. fresh' \subseteq Positions \ Marked' /\ Decided' \subseteq fresh' \cup Replaced \cup Marked'
    BY <1>1, <1>5, <1>8, <1>9
  <2>4. enforced' \subseteq PostChecked' \cup Replaced \cup Marked'
    BY <1>1, <1>3, <1>4, <1>8, <1>9
  <2> QED BY <2>1, <2>2, <2>3, <2>4
<1>11. (~ok) \in BOOLEAN /\ GoOn(~ok) /\ enforced' \subseteq enforced \cup {at}
  BY <1>1
<1> QED BY <1>1, <1>2, <1>3, <1>4, <1>5, <1>7, <1>10, <1>11, MoveKeepsInv

(***************************************************************************)
(* The new object of a validation; the one it takes the place of belongs   *)
(* to a policy that comes again.                                           *)
(***************************************************************************)
LEMMA ValidateObjects ==
    ASSUME TaskInv, NEW ok \in BOOLEAN, Validate(ok)
    PROVE  /\ (Range(objects) \subseteq Objects)'
           /\ (\A k \in DOMAIN objects : k = Key(objects[k].at))'
           /\ Owners' \subseteq Owners \cup {at} /\ at \in Owners'
           /\ Marked' \subseteq Marked \ {at}
           /\ Erred' \subseteq Erred \cup {at} /\ (at \in Erred' <=> ~ok)
           /\ Visited \cap Owners \subseteq Owners' \cup Replaced
           /\ Visited \cap Marked \subseteq Marked' \cup Replaced
<1> DEFINE o == [NewObject EXCEPT !.validateOrCheckError = ~ok]
<1>1. pc = "validate" /\ pc \in AtResource /\ TypeOK /\ UNCHANGED task
  BY DEF Validate, AtResource, TaskInv
<1>2. objects' = [k \in DOMAIN objects \cup {Key(at)} |-> IF k = Key(at) THEN o ELSE objects[k]]
  BY DEF Validate, Put
<1>3. task \in Assignments /\ at \in Positions /\ pc \in Loops /\ at \notin Visited
  BY <1>1, AtWork
<1>4. o \in Objects /\ o.at = at /\ o.needsPostCheck = FALSE /\ (o.validateOrCheckError <=> ~ok)
  <2>1. NewObject \in Objects /\ NewObject.at = at /\ NewObject.needsPostCheck = FALSE
    BY <1>3 DEF NewObject, Objects
  <2> QED BY <2>1 DEF Objects
<1> HIDE DEF o
<1>5. (Range(objects) \subseteq Objects)'
  BY <1>1, <1>2, <1>4, Own, Frame DEF Range
<1>6. (\A k \in DOMAIN objects : k = Key(objects[k].at))'
  <2>1. ASSUME NEW k \in DOMAIN objects' PROVE k = Key(objects'[k].at)
    BY <1>1, <1>2, <1>4, Own
  <2> QED BY <1>1, <2>1 DEF Key, Policy
<1>7. ASSUME NEW p \in Positions
      PROVE  /\ p \in Owners' <=> (p = at \/ (p \in Owners /\ Key(p) # Key(at)))
             /\ p \in Marked' <=> (p \in Marked /\ Key(p) # Key(at))
             /\ p \in Erred' <=> ((p = at /\ ~ok) \/ (p \in Erred /\ Key(p) # Key(at)))
  <2>1. p \in Owners' <=> Key(p) \in DOMAIN objects' /\ objects'[Key(p)].at = p
    BY <1>1, Frame DEF Owners, Key, Policy
  <2>2. /\ p \in Marked' <=> p \in Owners' /\ objects'[Key(p)].needsPostCheck
        /\ p \in Erred' <=> p \in Owners' /\ objects'[Key(p)].validateOrCheckError
    BY <1>1 DEF Marked, Erred, Key, Policy
  <2>3. CASE Key(p) = Key(at)
    <3>1. Key(p) \in DOMAIN objects' /\ objects'[Key(p)] = o
      BY <1>2, <2>3
    <3> QED BY <1>4, <2>1, <2>2, <2>3, <3>1
  <2>4. CASE Key(p) # Key(at)
    <3>1. /\ Key(p) \in DOMAIN objects' <=> Key(p) \in DOMAIN objects
          /\ Key(p) \in DOMAIN objects => objects'[Key(p)] = objects[Key(p)]
      BY <1>2, <2>4
    <3>2. p \in Owners' <=> p \in Owners
      BY <2>1, <3>1 DEF Owners
    <3>3. p \in Owners => objects'[Key(p)] = objects[Key(p)]
      BY <3>1 DEF Owners
    <3>4. p # at
      BY <2>4
    <3> QED BY <2>2, <2>4, <3>2, <3>3, <3>4 DEF Marked, Erred
  <2> QED BY <2>3, <2>4
<1>8. ASSUME NEW p \in Visited, Key(p) = Key(at)
      PROVE  p \in Replaced
  <2>1. p \in Positions /\ p # at
    BY <1>3 DEF Visited
  <2>2. Policy(p).id = Policy(at).id /\ p[1] # at[1]
    BY <1>3, <1>8, <2>1, Keys
  <2>3. p[1] < at[1]
    BY <1>3, <2>1, <2>2 DEF TaskInv, VisitInv, Before
  <2>4. at[1] \in DOMAIN task /\ p[1] \in Nat /\ at[1] \in Nat
    BY <1>3, <2>1, Places
  <2> QED BY <2>1, <2>2, <2>3, <2>4 DEF Replaced, Shadowed, Policy
<1>9. Owners' \subseteq Positions /\ Marked' \subseteq Positions /\ Erred' \subseteq Positions
  BY <1>1, Frame DEF Owners, Marked, Erred
<1> QED BY <1>3, <1>5, <1>6, <1>7, <1>8, <1>9 DEF Visited

(***************************************************************************)
(* A validation keeps the invariant.                                       *)
(***************************************************************************)
LEMMA ValidateInv ==
    ASSUME TaskInv, NEW ok \in BOOLEAN, Validate(ok)
    PROVE  TaskInv'
<1>1. /\ pc = "validate" /\ AddStep(at, "VALIDATION", ok)
      /\ state' = [state EXCEPT ![at] = "UNKNOWN"]
      /\ IF ok THEN pc' = "check" /\ at' = at ELSE GoOn(TRUE)
      /\ UNCHANGED <<task, made, final, fresh, enforced>>
  BY DEF Validate
<1>2. pc \in AtResource /\ TypeOK
  BY <1>1 DEF AtResource, TaskInv
<1>3. /\ at \in Positions /\ pc \in Loops /\ Waiting = Marked /\ at \notin Visited /\ made
  BY <1>1, <1>2, AtWork
<1>4. /\ steps' \in [Positions -> SUBSET ConfigSteps]
      /\ Looked' = Looked \cup {at} /\ PostChecked' = PostChecked
      /\ Broken' = IF ~ok THEN Broken \cup {at} ELSE Broken
  BY <1>1, <1>2, <1>3, StepSets
<1>5. /\ state' \in [Positions -> ComplianceStates]
      /\ Visited' = Visited \cup {at} /\ Decided' = Decided \ {at}
  BY <1>1, <1>2, <1>3, StateSets
<1>6. /\ (Range(objects) \subseteq Objects)'
      /\ (\A k \in DOMAIN objects : k = Key(objects[k].at))'
      /\ Owners' \subseteq Owners \cup {at} /\ at \in Owners'
      /\ Marked' \subseteq Marked \ {at}
      /\ Erred' \subseteq Erred \cup {at} /\ (at \in Erred' <=> ~ok)
      /\ Visited \cap Owners \subseteq Owners' \cup Replaced
      /\ Visited \cap Marked \subseteq Marked' \cup Replaced
  BY ValidateObjects
<1>7. /\ Decided \subseteq fresh \cup Replaced \cup Marked
      /\ enforced \subseteq PostChecked \cup Replaced \cup Marked
      /\ fresh \cap Marked = {} /\ Erred \cap Decided = {} /\ Erred \cap Marked = {}
      /\ fresh \subseteq Positions /\ Visited \subseteq Owners \cup Replaced
      /\ enforced \subseteq Visited /\ Decided \subseteq Visited
  BY <1>3 DEF TaskInv, FreshInv, ErrorInv, TypeOK, VisitInv, Decided, Visited
<1>8. /\ Visited' \subseteq Owners' \cup Replaced
      /\ Erred' \cap Decided' = {} /\ Erred' \cap Marked' = {}
      /\ fresh' \subseteq Positions \ Marked'
      /\ Decided' \subseteq fresh' \cup Replaced \cup Marked'
      /\ enforced' \subseteq PostChecked' \cup Replaced \cup Marked'
      /\ at \notin enforced'
  BY <1>1, <1>3, <1>4, <1>5, <1>6, <1>7
<1>9. Positions' = Positions /\ Replaced' = Replaced
  BY <1>1, Frame
<1>10. CASE ~ok
  <2>1. GoOn(TRUE) /\ Broken' = IF TRUE THEN Broken \cup {at} ELSE Broken
    BY <1>1, <1>4, <1>10
  <2> QED BY <1>1, <1>2, <1>4, <1>5, <1>6, <1>8, <2>1, MoveKeepsInv
<1>11. CASE ok
  <2>1. pc' = "check" /\ at' = at /\ Waiting' = Marked' /\ Broken' = Broken
    BY <1>1, <1>4, <1>11 DEF Waiting
  <2>2. TypeOK'
    BY <1>1, <1>2, <1>4, <1>5, <1>6, <1>9, <2>1 DEF TypeOK
  <2>3. AtInv'
    BY <1>1, <1>3, <1>9, <2>1 DEF TaskInv, AtInv, Loops, AtResource
  <2>4. VisitInv'
    BY <1>1, <1>3, <1>5, <1>7, <1>8, <1>9, <2>1 DEF TaskInv, VisitInv
  <2>5. ObjectInv'
    <3>1. ASSUME NEW p \in Owners', NEW i \in DOMAIN task,
                 i > p[1], task[i].id = Policy(p).id
          PROVE  i > at[1]
      BY <1>1, <1>6, <3>1 DEF TaskInv, ObjectInv
    <3> QED BY <1>1, <2>1, <3>1 DEF ObjectInv, Policy, Loops
  <2>6. ErrorInv'
    BY <1>6, <1>8, <1>11, <2>1 DEF ErrorInv
  <2>7. FreshInv'
    BY <1>8, <1>9, <2>1 DEF FreshInv
  <2>8. IsolationInv'
    <3>1. (\A p \in enforced : ~Policy(p).validateOnly)'
      BY <1>1 DEF TaskInv, IsolationInv, Policy
    <3>2. at \notin Looked /\ at \notin Broken /\ Looked \cup Broken \subseteq Visited
      BY <1>3 DEF TaskInv, IsolationInv
    <3>3. ASSUME NEW q \in Positions, q[1] < at[1] PROVE Isolated(q)'
      <4>1. Isolated(q)
        BY <1>3, <3>3 DEF TaskInv, IsolationInv
      <4>2. q # at
        BY <1>2, <1>3, <3>3, Places DEF TypeOK
      <4> QED BY <1>4, <1>9, <2>1, <4>1, <4>2 DEF Isolated
    <3>4. ASSUME NEW q \in Positions, q[1] = at[1], q[2] < at[2] \/ q = at
          PROVE  q \in Looked' /\ q \notin Broken'
      BY <1>1, <1>2, <1>4, <2>1, <3>2, <3>4 DEF TaskInv, IsolationInv
    <3> QED BY <1>4, <1>5, <1>9, <2>1, <3>1, <3>2, <3>3, <3>4 DEF IsolationInv, Loops, AtResource
  <2> QED BY <2>1, <2>2, <2>3, <2>4, <2>5, <2>6, <2>7, <2>8, NoReportYet DEF TaskInv
<1> QED BY <1>10, <1>11

(***************************************************************************)
(* To enter a policy, which removes the objects of the policies with its   *)
(* id, keeps the invariant.                                                *)
(***************************************************************************)
LEMMA EnterPolicyInv ==
    ASSUME TaskInv, EnterPolicy
    PROVE  TaskInv'
<1> DEFINE kept == {k \in DOMAIN objects : k[1] # Policy(at).id}
<1>1. /\ pc = "policy" /\ objects' = [k \in kept |-> objects[k]]
      /\ UNCHANGED <<task, made, state, steps, final, fresh, enforced>>
  BY DEF EnterPolicy, Restrict
<1>2. /\ TypeOK /\ task \in Assignments /\ pc \in Loops /\ made
      /\ at[1] \in DOMAIN task /\ at = <<at[1], 0>> /\ at[2] = 0
  BY <1>1 DEF TaskInv, TypeOK, AtInv, Loops
<1>3. at \notin Positions
  BY <1>2, Places
<1>4. Move(FALSE)
  BY EnterMoves DEF TaskInv
<1>5. /\ Positions' = Positions /\ Replaced' = Replaced /\ Objects' = Objects
      /\ Visited' = Visited /\ Decided' = Decided
      /\ Looked' = Looked /\ Broken' = Broken /\ PostChecked' = PostChecked
  BY <1>1, Frame DEF Visited, Decided, Looked, Broken, PostChecked, Taken, Failed
<1>6. /\ (Range(objects) \subseteq Objects)'
      /\ (\A k \in DOMAIN objects : k = Key(objects[k].at))'
  <2>1. (Range(objects) \subseteq Objects)'
    BY <1>1, <1>2, <1>5, Own DEF Range
  <2>2. ASSUME NEW k \in DOMAIN objects' PROVE k = Key(objects'[k].at)
    BY <1>1, <1>2, Own
  <2> QED BY <1>1, <2>1, <2>2 DEF Key, Policy
<1>7. ASSUME NEW p \in Positions
      PROVE  /\ p \in Owners' <=> (p \in Owners /\ Policy(p).id # Policy(at).id)
             /\ p \in Marked' <=> (p \in Marked /\ Policy(p).id # Policy(at).id)
             /\ p \in Erred' <=> (p \in Erred /\ Policy(p).id # Policy(at).id)
  <2>1. p \in Owners' <=> Key(p) \in DOMAIN objects' /\ objects'[Key(p)].at = p
    BY <1>1, <1>5 DEF Owners, Key, Policy
  <2>2. /\ p \in Marked' <=> p \in Owners' /\ objects'[Key(p)].needsPostCheck
        /\ p \in Erred' <=> p \in Owners' /\ objects'[Key(p)].validateOrCheckError
    BY <1>1 DEF Marked, Erred, Key, Policy
  <2>3. Key(p)[1] = Policy(p).id
    BY DEF Key
  <2>4. /\ Key(p) \in DOMAIN objects' <=> Key(p) \in DOMAIN objects /\ Policy(p).id # Policy(at).id
        /\ Key(p) \in DOMAIN objects' => objects'[Key(p)] = objects[Key(p)]
    BY <1>1, <2>3
  <2>5. p \in Owners' <=> (p \in Owners /\ Policy(p).id # Policy(at).id)
    BY <2>1, <2>4 DEF Owners
  <2>6. p \in Owners' => objects'[Key(p)] = objects[Key(p)]
    BY <2>1, <2>4
  <2> QED BY <2>2, <2>5, <2>6 DEF Marked, Erred
<1>8. Owners' \subseteq Positions /\ Marked' \subseteq Positions /\ Erred' \subseteq Positions
  BY <1>5 DEF Owners, Marked, Erred
<1>9. ASSUME NEW p \in Visited, Policy(p).id = Policy(at).id
      PROVE  p \in Replaced
  <2>1. p \in Positions
    BY DEF Visited
  <2>2. p[1] \in Nat /\ p[2] \in Nat /\ at[1] \in Nat
    BY <1>2, <2>1, Places
  <2>3. p[1] < at[1]
    BY <1>1, <1>2, <2>2 DEF TaskInv, VisitInv, Before
  <2> QED BY <1>2, <1>9, <2>1, <2>2, <2>3 DEF Replaced, Shadowed, Policy
<1>10. /\ Decided \subseteq fresh \cup Replaced \cup Marked
       /\ enforced \subseteq PostChecked \cup Replaced \cup Marked
       /\ fresh \cap Marked = {} /\ Erred \cap Decided = {} /\ Erred \cap Marked = {}
       /\ Visited \subseteq Owners \cup Replaced
       /\ enforced \subseteq Visited /\ Decided \subseteq Visited
  BY <1>1, <1>2 DEF TaskInv, FreshInv, Waiting, ErrorInv, VisitInv, Decided, Visited
<1>11. /\ Visited \subseteq Owners' \cup Replaced
       /\ Decided \subseteq fresh \cup Replaced \cup Marked'
       /\ enforced \subseteq PostChecked \cup Replaced \cup Marked'
       /\ fresh \cap Marked' = {} /\ Erred' \cap Decided = {} /\ Erred' \cap Marked' = {}
  BY <1>7, <1>8, <1>9, <1>10 DEF Visited
<1>12. pc' \in {"validate", "policy", "postCheck"} /\ Waiting' = Marked'
  BY <1>1, <1>2, <1>4, MoveWaits DEF Move
<1>13. TypeOK'
  BY <1>1, <1>2, <1>5, <1>6, <1>12 DEF TypeOK
<1>14. AtInv' /\ VisitInv' /\ ObjectInv'
  BY <1>1, <1>2, <1>4, <1>5, <1>7, <1>8, <1>10, <1>11, MoveKeepsOrder DEF TaskInv
<1>15. ErrorInv'
  BY <1>5, <1>11, <1>12 DEF ErrorInv
<1>16. FreshInv'
  BY <1>1, <1>5, <1>11, <1>12 DEF FreshInv
<1>17. IsolationInv'
  <2>1. \A p \in enforced' : ~Policy(p).validateOnly
    BY <1>1 DEF TaskInv, IsolationInv
  <2>2. \A q \in Positions :
            /\ q \in Visited' <=> (q \in Visited \/ q = at)
            /\ q \in Looked' <=> (q \in Looked \/ q = at)
            /\ q \in Broken' <=> (q \in Broken \/ (q = at /\ FALSE))
    BY <1>3, <1>5
  <2> QED BY <1>1, <1>2, <1>4, <2>1, <2>2, MoveKeepsIsolation DEF TaskInv
<1> QED BY <1>12, <1>13, <1>14, <1>15, <1>16, <1>17, NoReportYet DEF TaskInv

-----------------------------------------------------------------------------
(* The invariant of the task: the post check *)

(***************************************************************************)
(* The loop of the post check passes one position at a time.               *)
(***************************************************************************)
LEMMA Passes ==
    ASSUME TypeOK, AtInv, pc = "postCheck", ~Past(at), at' = NextPosition(at),
           UNCHANGED <<task, pc, made>>
    PROVE  /\ AtInv'
           /\ \A p \in Positions : Before(p, at') <=> (Before(p, at) \/ p = at)
<1>1. /\ task \in Assignments /\ Positions' = Positions
      /\ Len(task) \in Nat /\ DOMAIN task = 1..Len(task)
  BY Frame, Places DEF TypeOK
<1>2. at[1] \in 1..(Len(task) + 1) /\ at[2] \in Nat /\ at = <<at[1], at[2]>>
  BY <1>1, Places DEF AtInv
<1>3. at[1] \in DOMAIN task
  BY <1>1, <1>2 DEF Past
<1>4. Len(task[at[1]].resources) \in Nat /\ at[2] <= Len(task[at[1]].resources)
  BY <1>1, <1>3, Places DEF AtInv
<1>5. CASE Ended(at)
  <2>1. at' = <<at[1] + 1, 0>> /\ at[2] = Len(task[at[1]].resources)
    BY <1>5 DEF NextPosition, Ended, Policy
  <2>2. AtInv'
    BY <1>1, <1>3, <2>1 DEF AtInv, Loops, AtResource
  <2>3. ASSUME NEW p \in Positions PROVE Before(p, at') <=> (Before(p, at) \/ p = at)
    <3>1. /\ p[1] \in Nat /\ p[2] \in Nat /\ p = <<p[1], p[2]>>
          /\ p[2] <= Len(task[p[1]].resources)
      BY <1>1, Places
    <3> QED BY <1>1, <1>2, <1>3, <2>1, <3>1 DEF Before
  <2> QED BY <2>2, <2>3
<1>6. CASE ~Ended(at)
  <2>1. at' = <<at[1], at[2] + 1>> /\ at[2] # Len(task[at[1]].resources)
    BY <1>6 DEF NextPosition, Ended, Policy
  <2>2. at' \in Positions
    <3>1. at[2] + 1 \in 1..Len(task[at[1]].resources)
      BY <1>2, <1>4, <2>1
    <3> QED BY <1>1, <1>3, <2>1, <3>1, Places
  <2>3. AtInv'
    BY <1>1, <2>2 DEF AtInv, Loops, AtResource
  <2>4. ASSUME NEW p \in Positions PROVE Before(p, at') <=> (Before(p, at) \/ p = at)
    <3>1. p[1] \in Nat /\ p[2] \in Nat /\ p = <<p[1], p[2]>>
      BY <1>1, Places
    <3> QED BY <1>1, <1>2, <1>3, <2>1, <3>1 DEF Before
  <2> QED BY <2>3, <2>4
<1> QED BY <1>5, <1>6

(***************************************************************************)
(* A position without an object to check is passed.                        *)
(***************************************************************************)
LEMMA SkipPostCheckInv ==
    ASSUME TaskInv, SkipPostCheck
    PROVE  TaskInv'
<1>1. /\ pc = "postCheck" /\ ~Past(at) /\ at \notin ToPostCheck /\ at' = NextPosition(at)
      /\ UNCHANGED <<task, pc, made, objects, state, steps, final, fresh, enforced>>
  BY DEF SkipPostCheck
<1>2. AtInv' /\ \A p \in Positions : Before(p, at') <=> (Before(p, at) \/ p = at)
  BY <1>1, Passes DEF TaskInv
<1>3. /\ Positions' = Positions /\ Replaced' = Replaced
      /\ Visited' = Visited /\ Decided' = Decided
      /\ Looked' = Looked /\ Broken' = Broken /\ PostChecked' = PostChecked
  BY <1>1, Frame DEF Visited, Decided, Looked, Broken, PostChecked, Taken, Failed
<1>4. Owners' = Owners /\ Marked' = Marked /\ Erred' = Erred
  BY <1>1, <1>3 DEF Owners, Marked, Erred, Key, Policy
<1>5. at \notin Marked /\ Marked \subseteq Positions
  BY <1>1 DEF Marked, Owners, ToPostCheck
<1>6. Waiting' = Waiting
  BY <1>1, <1>2, <1>4, <1>5 DEF Waiting
<1>7. TypeOK'
  BY <1>1, Frame DEF TaskInv, TypeOK, Key, Policy
<1>8. VisitInv' /\ ObjectInv' /\ ErrorInv' /\ FreshInv'
  BY <1>1, <1>3, <1>4, <1>6 DEF TaskInv, VisitInv, ObjectInv, ErrorInv, FreshInv, Policy, Loops
<1>9. IsolationInv'
  BY <1>1, <1>3 DEF TaskInv, IsolationInv, Isolated, Policy, Loops, AtResource
<1> QED BY <1>1, <1>2, <1>7, <1>8, <1>9, NoReportYet DEF TaskInv

(***************************************************************************)
(* The object found under the ids of a position in the post check is its   *)
(* own, or belongs to a later policy with the same id.                     *)
(***************************************************************************)
LEMMA Found ==
    ASSUME TaskInv, pc = "postCheck", at \in ToPostCheck
    PROVE  /\ at \in Positions /\ Key(at) \in DOMAIN objects
           /\ objects[Key(at)] \in Objects
           /\ objects[Key(at)].at \in Waiting
           /\ objects[Key(at)].at = at \/ (at \in Replaced /\ at \notin Owners)
<1> DEFINE q == objects[Key(at)].at
<1>1. /\ at \in Positions /\ Key(at) \in DOMAIN objects /\ objects[Key(at)].needsPostCheck
      /\ TypeOK /\ task \in Assignments
  BY DEF ToPostCheck, TaskInv, TypeOK
<1>2. objects[Key(at)] \in Objects /\ q \in Owners /\ Key(q) = Key(at)
  BY <1>1, Own
<1>3. q \in Positions /\ q \in Marked
  BY <1>1, <1>2 DEF Owners, Marked
<1>4. /\ q[1] \in Nat /\ q[1] \in DOMAIN task /\ at[1] \in Nat /\ at[1] \in DOMAIN task
      /\ at[2] \in Nat
  BY <1>1, <1>3, Places
<1>5. Policy(q).id = Policy(at).id /\ (q[1] = at[1] => q = at)
  BY <1>1, <1>2, <1>3, Keys
<1>6. ~(q[1] < at[1])
  BY <1>2, <1>4, <1>5 DEF TaskInv, ObjectInv, Policy, Loops
<1>7. ASSUME q # at PROVE at \in Replaced /\ at \notin Owners
  <2>1. q[1] > at[1]
    BY <1>4, <1>5, <1>6, <1>7
  <2> QED BY <1>1, <1>4, <1>5, <1>7, <2>1 DEF Replaced, Shadowed, Policy, Owners
<1>8. q \in Waiting
  <2>1. q = at \/ q[1] > at[1]
    BY <1>4, <1>5, <1>6
  <2>2. ~Before(q, at)
    BY <1>4, <2>1 DEF Before
  <2> QED BY <1>3, <2>2 DEF Waiting
<1> QED BY <1>1, <1>2, <1>7, <1>8

(***************************************************************************)
(* A post check keeps the invariant.                                       *)
(***************************************************************************)
LEMMA PostCheckInv ==
    ASSUME TaskInv, NEW result \in {"UNKNOWN", "COMPLIANT", "NON_COMPLIANT"}, PostCheck(result)
    PROVE  TaskInv'
<1>1. /\ pc = "postCheck" /\ ~Past(at) /\ at \in ToPostCheck /\ at' = NextPosition(at)
      /\ objects' = [objects EXCEPT ![Key(at)].inDesiredState = (result = "COMPLIANT")]
      /\ AddStep(at, "POST_CHECK", result # "UNKNOWN")
      /\ state' = [state EXCEPT ![at] = result]
      /\ fresh' = IF objects[Key(at)].at = at THEN fresh \cup {at} ELSE fresh \ {at}
      /\ UNCHANGED <<task, pc, made, final, enforced>>
  BY DEF PostCheck
<1>2. /\ TypeOK /\ at \in Positions /\ Key(at) \in DOMAIN objects
      /\ objects[Key(at)] \in Objects
      /\ objects[Key(at)].at = at \/ (at \in Replaced /\ at \notin Owners)
  BY <1>1, Found DEF TaskInv
<1>3. AtInv' /\ \A p \in Positions : Before(p, at') <=> (Before(p, at) \/ p = at)
  BY <1>1, Passes DEF TaskInv
<1>4. /\ steps' \in [Positions -> SUBSET ConfigSteps]
      /\ Looked' = Looked /\ Broken' = Broken /\ PostChecked' = PostChecked \cup {at}
  <2>1. (result # "UNKNOWN") \in BOOLEAN
    OBVIOUS
  <2> QED BY <1>1, <1>2, <2>1, StepSets
<1>5. /\ state' \in [Positions -> ComplianceStates]
      /\ Visited' = Visited \cup {at}
      /\ Decided' = IF result = "UNKNOWN" THEN Decided \ {at} ELSE Decided \cup {at}
  BY <1>1, <1>2, StateSets
<1>6. /\ DOMAIN objects' = DOMAIN objects
      /\ \A k \in DOMAIN objects :
            /\ objects'[k] \in Objects /\ objects'[k].at = objects[k].at
            /\ objects'[k].needsPostCheck = objects[k].needsPostCheck
            /\ objects'[k].validateOrCheckError = objects[k].validateOrCheckError
  BY <1>1, <1>2, Own DEF Objects
<1>7. /\ (Range(objects) \subseteq Objects)'
      /\ (\A k \in DOMAIN objects : k = Key(objects[k].at))'
      /\ Owners' = Owners
  BY <1>1, <1>2, <1>6, ObjectSets
<1>8. Marked' = Marked /\ Erred' = Erred
  BY <1>1, <1>2, <1>6, ObjectSets DEF Marked, Erred, Owners
<1>9. Positions' = Positions /\ Replaced' = Replaced
  BY <1>1, Frame
<1>10. Waiting' = Waiting \ {at} /\ Marked \subseteq Owners /\ Marked \subseteq Positions
  BY <1>1, <1>3, <1>8 DEF Waiting, Marked, Owners
<1>11. /\ Decided \subseteq fresh \cup Replaced \cup Waiting
       /\ enforced \subseteq PostChecked \cup Replaced \cup Waiting
       /\ fresh \cap Waiting = {} /\ fresh \subseteq Positions
       /\ Visited \subseteq Owners \cup Replaced /\ made
       /\ enforced \subseteq Visited
  BY <1>1 DEF TaskInv, FreshInv, TypeOK, VisitInv, AtInv
<1>12. at \in Owners \/ at \in Replaced
  BY <1>2 DEF Owners
<1>13. TypeOK'
  BY <1>1, <1>2, <1>4, <1>5, <1>7, <1>9, <1>11 DEF TypeOK
<1>14. VisitInv'
  BY <1>1, <1>5, <1>7, <1>9, <1>11, <1>12 DEF VisitInv, Loops
<1>15. ObjectInv'
  BY <1>1, <1>7 DEF TaskInv, ObjectInv, Policy, Loops
<1>16. ErrorInv'
  BY <1>1, <1>8 DEF TaskInv, ErrorInv, Loops
<1>17. FreshInv'
  <2>1. Decided' \subseteq fresh' \cup Replaced \cup Waiting'
    <3>1. objects[Key(at)].at = at => at \in fresh'
      BY <1>1
    <3>2. fresh \ {at} \subseteq fresh'
      BY <1>1
    <3>3. Decided' \subseteq Decided \cup {at}
      BY <1>5
    <3> QED BY <1>2, <1>10, <1>11, <3>1, <3>2, <3>3
  <2>2. fresh' \cap Waiting' = {}
    BY <1>1, <1>10, <1>11
  <2>3. enforced' \subseteq PostChecked' \cup Replaced \cup Waiting'
    BY <1>1, <1>4, <1>10, <1>11
  <2> QED BY <1>9, <2>1, <2>2, <2>3 DEF FreshInv
<1>18. IsolationInv'
  BY <1>1, <1>4, <1>5, <1>9 DEF TaskInv, IsolationInv, Isolated, Policy, Loops, AtResource
<1> QED BY <1>1, <1>3, <1>13, <1>14, <1>15, <1>16, <1>17, <1>18, NoReportYet DEF TaskInv

(***************************************************************************)
(* The final report: every mark was met.                                   *)
(***************************************************************************)
LEMMA ReportCompletedInv ==
    ASSUME TaskInv, ReportCompleted
    PROVE  TaskInv'
<1>1. /\ pc = "postCheck" /\ Past(at) /\ Report("SUCCEEDED") /\ pc' = "cleanup" /\ at' = <<1, 0>>
      /\ UNCHANGED <<task, made, objects, state, steps, fresh, enforced>>
  BY DEF ReportCompleted
<1>2. TypeOK /\ task \in Assignments
  BY DEF TaskInv, TypeOK
<1>3. Waiting = {}
  <2>1. at[1] > Len(task) /\ (at \in Positions \/ at[1] \in Nat)
    BY <1>1, <1>2, Places DEF Past, TaskInv, AtInv
  <2>2. at[1] \in Nat
    BY <1>2, <2>1, Places
  <2>3. ASSUME NEW p \in Positions PROVE Before(p, at)
    <3>1. p[1] \in 1..Len(task) /\ Len(task) \in Nat
      BY <1>2, Places
    <3> QED BY <2>1, <2>2, <3>1 DEF Before
  <2> QED BY <1>1, <2>3 DEF Waiting, Marked, Owners
<1>4. /\ Positions' = Positions /\ Replaced' = Replaced
      /\ Visited' = Visited /\ Decided' = Decided
      /\ Looked' = Looked /\ Broken' = Broken /\ PostChecked' = PostChecked
  BY <1>1, Frame DEF Visited, Decided, Looked, Broken, PostChecked, Taken, Failed
<1>5. Owners' = Owners /\ Marked' = Marked /\ Erred' = Erred
  BY <1>1, <1>4 DEF Owners, Marked, Erred, Key, Policy
<1>6. TypeOK'
  <2>1. final' \in Seq({"SUCCEEDED", "FAILED", "CANCELLED"})
    BY <1>1, <1>2 DEF Report, TypeOK
  <2> QED BY <1>1, <1>2, <2>1, Frame DEF TypeOK, Key, Policy
<1>7. AtInv' /\ VisitInv' /\ ObjectInv' /\ ErrorInv' /\ FreshInv'
  BY <1>1, <1>4, <1>5
  DEF TaskInv, AtInv, VisitInv, ObjectInv, ErrorInv, FreshInv, Policy, Loops, AtResource
<1>8. IsolationInv'
  BY <1>1, <1>4 DEF TaskInv, IsolationInv, Isolated, Policy, Loops, AtResource
<1>9. Decided \subseteq fresh \cup Replaced /\ enforced \subseteq PostChecked \cup Replaced
  BY <1>1, <1>3 DEF TaskInv, FreshInv
<1>10. ComplianceIsFresh'
  <2>1. ASSUME NEW p \in Positions, state'[p] \in {"COMPLIANT", "NON_COMPLIANT"}
        PROVE  p \in fresh' \/ Shadowed(p)'
    BY <1>1, <1>9, <2>1 DEF Decided, Replaced, Shadowed, Policy
  <2> QED BY <1>4, <2>1 DEF ComplianceIsFresh
<1>11. EnforcedIsPostChecked'
  <2>1. ASSUME NEW p \in enforced' PROVE Taken(p, "POST_CHECK")' \/ Shadowed(p)'
    BY <1>1, <1>9 DEF PostChecked, Replaced, Shadowed, Policy, Taken
  <2> QED BY <2>1 DEF EnforcedIsPostChecked
<1> QED BY <1>6, <1>7, <1>8, <1>10, <1>11 DEF TaskInv

(***************************************************************************)
(* The steps before the loops and the cleanup change no result.            *)
(***************************************************************************)
LEMMA OuterInv ==
    ASSUME TaskInv,
           \/ ReportStarted \/ NoPolicies \/ StartedError
           \/ ReportApplying \/ ApplyingError
           \/ CleanupPanics \/ Cleanup
    PROVE  TaskInv'
<1> DEFINE Results == {"SUCCEEDED", "FAILED", "CANCELLED"}
<1>1. /\ UNCHANGED <<task, at, objects, state, steps, fresh, enforced>>
      /\ final' \in {final} \cup {Append(final, s) : s \in Results}
      /\ \/ pc = "start" /\ pc' = "apply" /\ made' = made /\ task # << >>
         \/ pc = "start" /\ pc' = "end" /\ made' = made
         \/ pc = "apply" /\ pc' = "policy" /\ made' = TRUE
         \/ pc = "apply" /\ pc' = "cleanup" /\ made' = made
         \/ pc = "cleanup" /\ pc' = "panic" /\ made' = made
         \/ pc = "cleanup" /\ pc' = "end" /\ made' = made
  BY DEF ReportStarted, NoPolicies, StartedError, ReportApplying, ApplyingError,
         CleanupPanics, Cleanup, Report
<1>2. /\ TypeOK /\ task \in Assignments /\ pc \notin Loops \cup {"postCheck"}
      /\ Decided \subseteq Visited
  BY <1>1 DEF TaskInv, TypeOK, Loops, Decided, Visited
<1>3. /\ Positions' = Positions /\ Replaced' = Replaced
      /\ Visited' = Visited /\ Decided' = Decided
      /\ Looked' = Looked /\ Broken' = Broken /\ PostChecked' = PostChecked
  BY <1>1, Frame DEF Visited, Decided, Looked, Broken, PostChecked, Taken, Failed
<1>4. Owners' = Owners /\ Marked' = Marked /\ Erred' = Erred
  BY <1>1, <1>3 DEF Owners, Marked, Erred, Key, Policy
<1>5. TypeOK'
  <2>1. final' \in Seq(Results)
    BY <1>1, <1>2 DEF TypeOK
  <2>2. pc' \in {"apply", "end", "policy", "cleanup", "panic"} /\ made' \in BOOLEAN
    BY <1>1, <1>2 DEF TypeOK
  <2> QED BY <1>1, <1>2, <2>1, <2>2, Frame DEF TypeOK, Key, Policy
<1>6. pc = "apply" => 1 \in DOMAIN task /\ at = <<1, 0>> /\ at[1] = 1 /\ ~made
  BY <1>2, Places DEF TaskInv, AtInv
<1>7. AtInv'
  BY <1>1, <1>2, <1>3, <1>6 DEF TaskInv, AtInv, Loops, AtResource
<1>8. ~made => Visited = {} /\ Owners = {} /\ Decided = {} /\ enforced = {} /\ Marked = {}
  BY <1>2 DEF TaskInv, VisitInv, Marked
<1>9. VisitInv' /\ ErrorInv'
  BY <1>1, <1>2, <1>3, <1>4, <1>6, <1>8 DEF TaskInv, VisitInv, ErrorInv, Loops
<1>10. ObjectInv'
  BY <1>1, <1>2, <1>4 DEF TaskInv, ObjectInv, Policy
<1>11. FreshInv'
  BY <1>1, <1>2, <1>3, <1>4, <1>6, <1>8 DEF FreshInv, Loops, Waiting
<1>12. IsolationInv'
  <2>1. \A q : Isolated(q)' <=> Isolated(q)
    BY <1>3 DEF Isolated
  <2>2. pc' = "policy" => \A q \in Positions : ~(q[1] < at'[1])
    BY <1>1, <1>2, <1>6, Places
  <2>3. (\A p \in enforced : ~Policy(p).validateOnly)'
    BY <1>1 DEF TaskInv, IsolationInv, Policy
  <2> QED BY <1>1, <1>2, <1>3, <2>1, <2>2, <2>3 DEF TaskInv, IsolationInv, Loops, AtResource
<1>13. ComplianceIsFresh' /\ EnforcedIsPostChecked'
  <2>1. Completed' => Completed
    BY <1>1, <1>6 DEF Completed, TaskInv, AtInv
  <2> QED BY <1>1, <1>3, <2>1
      DEF TaskInv, ComplianceIsFresh, EnforcedIsPostChecked, Shadowed, Policy, Taken
<1> QED BY <1>5, <1>7, <1>9, <1>10, <1>11, <1>12, <1>13 DEF TaskInv

(***************************************************************************)
(* The invariant holds at the beginning.                                   *)
(***************************************************************************)
LEMMA InitTaskInv == Init => TaskInv
<1> SUFFICES ASSUME Init PROVE TaskInv
  OBVIOUS
<1>1. Visited = {} /\ Decided = {} /\ Looked = {} /\ Broken = {} /\ Owners = {}
  BY DEF Init, Visited, Decided, Looked, Broken, Owners, Taken, Failed
<1>2. Marked = {} /\ Erred = {}
  BY <1>1 DEF Marked, Erred
<1>3. TypeOK
  <2>1. Range(objects) \subseteq Objects /\ \A k \in DOMAIN objects : k = Key(objects[k].at)
    BY DEF Init, Range
  <2>2. /\ state \in [Positions -> ComplianceStates] /\ steps \in [Positions -> SUBSET ConfigSteps]
        /\ fresh \subseteq Positions /\ enforced \subseteq Positions
    BY DEF Init, ComplianceStates
  <2>3. final \in Seq({"SUCCEEDED", "FAILED", "CANCELLED"})
    BY DEF Init
  <2> QED BY <2>1, <2>2, <2>3 DEF Init, TypeOK
<1>4. AtInv
  BY DEF Init, AtInv, Loops, AtResource
<1>5. VisitInv /\ ObjectInv /\ ErrorInv /\ FreshInv /\ IsolationInv
  BY <1>1, <1>2 DEF Init, VisitInv, ObjectInv, ErrorInv, FreshInv, IsolationInv, Loops, AtResource
<1>6. ComplianceIsFresh /\ EnforcedIsPostChecked
  BY DEF Init, ComplianceIsFresh, EnforcedIsPostChecked, Completed
<1> QED BY <1>3, <1>4, <1>5, <1>6 DEF TaskInv

(***************************************************************************)
(* Every step of the task keeps the invariant.                             *)
(***************************************************************************)
LEMMA NextTaskInv == TaskInv /\ [Next]_vars => TaskInv'
<1> SUFFICES ASSUME TaskInv, [Next]_vars PROVE TaskInv'
  OBVIOUS
<1>1. CASE \/ ReportStarted \/ NoPolicies \/ StartedError
           \/ ReportApplying \/ ApplyingError \/ CleanupPanics \/ Cleanup
  BY <1>1, OuterInv
<1>2. CASE EnterPolicy
  BY <1>2, EnterPolicyInv
<1>3. CASE \E ok \in BOOLEAN : Validate(ok)
  BY <1>3, ValidateInv
<1>4. CASE \E desired \in BOOLEAN : CheckState(desired)
  BY <1>4, CheckStateInv
<1>5. CASE CheckStateError
  BY <1>5, CheckStateErrorInv
<1>6. CASE NoEnforcement
  BY <1>6, NoEnforcementInv
<1>7. CASE \E ok, desired \in BOOLEAN : EnforceState(ok, desired)
  BY <1>7, EnforceStateInv
<1>8. CASE SkipPostCheck
  BY <1>8, SkipPostCheckInv
<1>9. CASE \E result \in {"UNKNOWN", "COMPLIANT", "NON_COMPLIANT"} : PostCheck(result)
  BY <1>9, PostCheckInv
<1>10. CASE ReportCompleted
  BY <1>10, ReportCompletedInv
<1>11. CASE UNCHANGED vars
  <2>1. /\ Positions' = Positions /\ Replaced' = Replaced
        /\ Visited' = Visited /\ Decided' = Decided
        /\ Looked' = Looked /\ Broken' = Broken /\ PostChecked' = PostChecked
    BY <1>11, Frame DEF vars, Visited, Decided, Looked, Broken, PostChecked, Taken, Failed
  <2>2. Owners' = Owners /\ Marked' = Marked /\ Erred' = Erred
    BY <1>11, <2>1 DEF vars, Owners, Marked, Erred, Key, Policy
  <2>3. Waiting' = Waiting
    BY <1>11, <2>2 DEF vars, Waiting
  <2>4. TypeOK'
    BY <1>11, Frame DEF vars, TaskInv, TypeOK, Key, Policy
  <2>5. AtInv' /\ VisitInv' /\ ObjectInv' /\ ErrorInv' /\ FreshInv'
    BY <1>11, <2>1, <2>2, <2>3
    DEF vars, TaskInv, AtInv, VisitInv, ObjectInv, ErrorInv, FreshInv, Policy
  <2>6. IsolationInv'
    BY <1>11, <2>1 DEF vars, TaskInv, IsolationInv, Isolated, Policy
  <2>7. ComplianceIsFresh' /\ EnforcedIsPostChecked'
    BY <1>11, <2>1
    DEF vars, TaskInv, ComplianceIsFresh, EnforcedIsPostChecked, Completed, Shadowed, Policy, Taken
  <2> QED BY <2>4, <2>5, <2>6, <2>7 DEF TaskInv
<1> QED BY <1>1, <1>2, <1>3, <1>4, <1>5, <1>6, <1>7, <1>8, <1>9, <1>10, <1>11 DEF Next

(***************************************************************************)
(* The inductive invariant of the task.                                    *)
(***************************************************************************)
LEMMA TaskInvariance == Spec => []TaskInv
BY InitTaskInv, NextTaskInv, PTL DEF Spec

(***************************************************************************)
(* The variables of an ApplyConfig task keep their types, and every object *)
(* in the maps of policies is filed under the ids of the position it was   *)
(* made for.                                                               *)
(***************************************************************************)
THEOREM TaskTypes == Spec => []TypeOK
<1>1. TaskInv => TypeOK
  BY DEF TaskInv
<1> QED BY <1>1, TaskInvariance, PTL

(***************************************************************************)
(* Whatever the resources answer and however many policies and resources   *)
(* there are: a compliance state in the final report comes from a check of *)
(* that very resource after the last enforcement of any resource.          *)
(***************************************************************************)
THEOREM ReportIsFresh == Spec => []ComplianceIsFresh
<1>1. TaskInv => ComplianceIsFresh
  BY DEF TaskInv
<1> QED BY <1>1, TaskInvariance, PTL

(***************************************************************************)
(* Every resource that was enforced is checked again before the report.    *)
(***************************************************************************)
THEOREM PostCheckFollows == Spec => []EnforcedIsPostChecked
<1>1. TaskInv => EnforcedIsPostChecked
  BY DEF TaskInv
<1> QED BY <1>1, TaskInvariance, PTL

(***************************************************************************)
(* In the report of a completed task a resource was looked at if and only  *)
(* if no earlier resource of its policy failed, and nothing was enforced   *)
(* in a policy that only validates.                                        *)
(***************************************************************************)
THEOREM PoliciesAreIsolated == Spec => []PolicyIsolation
<1>1. TaskInv => PolicyIsolation
  <2> SUFFICES ASSUME TaskInv PROVE PolicyIsolation
    OBVIOUS
  <2>1. \A p \in enforced : ~Policy(p).validateOnly
    BY DEF TaskInv, IsolationInv
  <2>2. ASSUME Completed, NEW q \in Positions
        PROVE  Taken(q, "VALIDATION") <=>
                   \A p \in Positions : p[1] = q[1] /\ p[2] < q[2] => ~Failed(p)
    <3>1. Isolated(q)
      BY <2>2 DEF TaskInv, IsolationInv, Completed, Loops
    <3> QED BY <3>1 DEF Isolated, Looked, Broken
  <2> QED BY <2>1, <2>2 DEF PolicyIsolation
<1> QED BY <1>1, TaskInvariance, PTL

-----------------------------------------------------------------------------
(* The inductive invariant of the resources *)

\* At most one directory per object, and none before its validation; a resource
\* that has one when it is enforced uses what is there.
TempInv ==
    /\ temp \in [Positions -> 0..1]
    /\ \A p \in Positions : temp[p] = 1 => p \in Visited
    /\ pc \in {"check", "enforce"} => (temp[at] = 1 => at \in pulled)
    /\ NoTempLeft

\* A cache that is not marked as foreign says what is installed, and a package
\* that passed its validation has a manager.
CacheInv ==
    /\ installed \subseteq Packages
    /\ cache \in [Managers -> (SUBSET Packages) \cup {NoCache}]
    /\ \A m \in Managers : cache[m] # NoCache /\ m \notin foreign => cache[m] = installed
    /\ \A k \in DOMAIN objects :
          ~objects[k].validateOrCheckError /\ Res(objects[k].at).type = "package"
              => Res(objects[k].at).manager \in Managers

\* A fresh answer that no foreign cache gave is true.
TruthInv ==
    /\ DOMAIN sum = Positions
    /\ \A p \in fresh \ doubt :
          (p \in Decided /\ Res(p).type # "exec") => (state[p] = "COMPLIANT" <=> InDesiredState(p))

ResourceInv == TaskInv /\ TempInv /\ CacheInv /\ TruthInv

(***************************************************************************)
(* The task and its resources together behave as a task: whatever the      *)
(* resources do, it only decides what they answer.                         *)
(***************************************************************************)
THEOREM ResourcesFollowTask == ResourceSpec => Spec
<1>1. ResourceInit => Init
  BY DEF ResourceInit
<1>2. [ResourceNext]_allVars => [Next]_vars
  <2> SUFFICES ASSUME [ResourceNext]_allVars PROVE [Next]_vars
    OBVIOUS
  <2>1. CASE TaskOnly
    BY <2>1 DEF TaskOnly, Next
  <2>2. CASE \E ok \in BOOLEAN : DoValidate(ok)
    BY <2>2 DEF DoValidate, Next
  <2>3. CASE DoCheck
    BY <2>3 DEF DoCheck, Next
  <2>4. CASE DoEnforce
    BY <2>4 DEF DoEnforce, Next
  <2>5. CASE DoPostCheck
    BY <2>5 DEF DoPostCheck, Next
  <2>6. CASE DoCleanup
    BY <2>6 DEF DoCleanup, Next
  <2>7. CASE UNCHANGED allVars
    BY <2>7 DEF allVars
  <2> QED BY <2>1, <2>2, <2>3, <2>4, <2>5, <2>6, <2>7 DEF ResourceNext
<1> QED BY <1>1, <1>2, PTL DEF ResourceSpec, Spec

-----------------------------------------------------------------------------
(* Temporary directories *)

(***************************************************************************)
(* Positions that were looked at stay so.                                  *)
(***************************************************************************)
LEMMA VisitedGrows ==
    ASSUME TaskInv, [Next]_vars
    PROVE  /\ UNCHANGED task /\ Positions' = Positions /\ Replaced' = Replaced
           /\ Visited \subseteq Visited'
<1>1. UNCHANGED task
  BY DEF Next, vars, ReportStarted, NoPolicies, StartedError, ReportApplying, ApplyingError,
         EnterPolicy, Validate, CheckState, CheckStateError, NoEnforcement, EnforceState,
         SkipPostCheck, PostCheck, ReportCompleted, CleanupPanics, Cleanup
<1>2. Positions' = Positions /\ Replaced' = Replaced
  BY <1>1, Frame
<1>3. \/ state' = state
      \/ \E s \in {"UNKNOWN", "COMPLIANT", "NON_COMPLIANT"} : state' = [state EXCEPT ![at] = s]
  BY DEF Next, vars, ReportStarted, NoPolicies, StartedError, ReportApplying, ApplyingError,
         EnterPolicy, Validate, CheckState, CheckStateError, NoEnforcement, EnforceState,
         SkipPostCheck, PostCheck, ReportCompleted, CleanupPanics, Cleanup
<1>4. state \in [Positions -> ComplianceStates]
  BY DEF TaskInv, TypeOK
<1> QED BY <1>1, <1>2, <1>3, <1>4 DEF Visited

(***************************************************************************)
(* A download makes at most one directory, and leaves the others alone.    *)
(***************************************************************************)
LEMMA DownloadMakesOne ==
    ASSUME temp \in [Positions -> 0..1], NEW p \in Positions, temp[p] = 0,
           NEW ok \in BOOLEAN, Download(p, ok)
    PROVE  /\ temp' \in [Positions -> 0..1]
           /\ \A q \in Positions : q # p => temp'[q] = temp[q]
           /\ ok => p \in pulled'
<1>1. temp' = temp \/ temp' = [temp EXCEPT ![p] = temp[p] + 1]
  BY DEF Download
<1>2. temp' = temp \/ temp' = [temp EXCEPT ![p] = 1]
  BY <1>1
<1> QED BY <1>2 DEF Download

(***************************************************************************)
(* Directories are made by validations and enforcements only, for the      *)
(* resource at work, and removed by the cleanup of the objects.            *)
(***************************************************************************)
LEMMA NextTempInv ==
    ASSUME TaskInv, TempInv, [ResourceNext]_allVars, [Next]_vars, TaskInv'
    PROVE  TempInv'
<1>1. /\ Positions' = Positions /\ Replaced' = Replaced /\ Visited \subseteq Visited'
      /\ UNCHANGED task
  BY VisitedGrows
<1>2. /\ temp \in [Positions -> 0..1]
      /\ \A p \in Positions : temp[p] = 1 => p \in Visited
      /\ Visited \subseteq Positions
  BY DEF TempInv, Visited
<1>3. CASE TaskOnly
  <2>1. /\ temp' = temp /\ pc' \notin {"check", "enforce"}
        /\ pc' = "end" => pc = "start"
    BY <1>3 DEF TaskOnly, resourceVars, objectVars, ReportStarted, NoPolicies, StartedError,
                ReportApplying, ApplyingError, EnterPolicy, NoEnforcement, SkipPostCheck,
                ReportCompleted, CleanupPanics, GoOn
  <2>2. pc = "start" => \A p \in Positions : temp[p] = 0
    BY <1>2 DEF TaskInv, AtInv, VisitInv
  <2> QED BY <1>1, <1>2, <2>1, <2>2 DEF TempInv, NoTempLeft
<1>4. CASE \E ok \in BOOLEAN : DoValidate(ok)
  <2>1. PICK ok \in BOOLEAN : DoValidate(ok)
    BY <1>4
  <2>2. /\ pc = "validate" /\ state' = [state EXCEPT ![at] = "UNKNOWN"]
        /\ ok => pc' = "check" /\ at' = at
        /\ ~ok => pc' \in {"validate", "policy", "postCheck"}
    BY <2>1 DEF DoValidate, Validate, GoOn
  <2>3. at \in Positions /\ at \notin Visited /\ temp[at] = 0
    BY <1>2, <2>2, AtWork DEF AtResource
  <2>4. at \in Visited'
    <3>1. TypeOK
      BY DEF TaskInv
    <3>2. Visited' = Visited \cup {at}
      BY <1>1, <2>2, <2>3, <3>1, StateSets
    <3> QED BY <3>2
  <2>5. Download(at, ok) \/ NoDownload
    BY <2>1 DEF DoValidate, ValidatePackage, ValidateFile, ValidateRepository, ValidateExec
  <2>6. /\ temp' \in [Positions -> 0..1]
        /\ \A q \in Positions : q # at => temp'[q] = temp[q]
        /\ ok => (temp'[at] = 1 => at \in pulled')
    <3>1. CASE Download(at, ok)
      BY <1>2, <2>3, <3>1, DownloadMakesOne
    <3>2. CASE NoDownload
      BY <1>2, <2>3, <3>2 DEF NoDownload
    <3> QED BY <2>5, <3>1, <3>2
  <2>7. pc' # "end"
    BY <2>2
  <2> QED BY <1>1, <1>2, <2>2, <2>4, <2>6, <2>7 DEF TempInv, NoTempLeft
<1>5. CASE DoCheck
  <2>1. /\ pc = "check" /\ UNCHANGED <<temp, pulled>>
        /\ pc' \in {"validate", "policy", "postCheck"} \/ (pc' = "enforce" /\ at' = at)
    BY <1>5 DEF DoCheck, CheckState, CheckStateError, CheckResource, objectVars, GoOn
  <2> QED BY <1>1, <1>2, <2>1 DEF TempInv, NoTempLeft
<1>6. CASE DoEnforce
  <2>1. pc = "enforce" /\ pc' \in {"validate", "policy", "postCheck"}
    BY <1>6 DEF DoEnforce, EnforceState, GoOn
  <2>2. at \in Positions /\ at \in Visited /\ (temp[at] = 1 => at \in pulled)
    BY <2>1, AtWork DEF AtResource, TempInv
  <2>3. NoDownload \/ (at \notin pulled /\ (Download(at, TRUE) \/ Download(at, FALSE)))
    BY <1>6 DEF DoEnforce, EnforcePackage, EnforcePackageRefused, EnforceFile,
                EnforceRepository, EnforceExec
  <2>4. /\ temp' \in [Positions -> 0..1]
        /\ \A q \in Positions : q # at => temp'[q] = temp[q]
    <3>1. CASE NoDownload
      BY <1>2, <3>1 DEF NoDownload
    <3>2. CASE at \notin pulled /\ (Download(at, TRUE) \/ Download(at, FALSE))
      <4>1. temp[at] = 0
        BY <1>2, <2>2, <3>2
      <4> QED BY <1>2, <2>2, <3>2, <4>1, DownloadMakesOne
    <3> QED BY <2>3, <3>1, <3>2
  <2> QED BY <1>1, <1>2, <2>1, <2>2, <2>4 DEF TempInv, NoTempLeft
<1>7. CASE DoPostCheck
  <2>1. pc = "postCheck" /\ UNCHANGED <<pc, temp, pulled>>
    BY <1>7 DEF DoPostCheck, PostCheck, CheckResource, objectVars
  <2> QED BY <1>1, <1>2, <2>1 DEF TempInv, NoTempLeft
<1>8. CASE DoCleanup
  <2> DEFINE cleaned == {objects[k].at : k \in DOMAIN objects}
  <2>1. /\ pc = "cleanup" /\ pc' = "end"
        /\ temp' = [p \in Positions |->
                      IF p \in cleaned /\ temp[p] > 0 THEN temp[p] - 1 ELSE temp[p]]
    BY <1>8 DEF DoCleanup, Cleanup
  <2>2. Owners \subseteq cleaned
    BY DEF Owners
  <2> HIDE DEF cleaned
  <2>3. ASSUME NEW p \in Positions
        PROVE  /\ temp'[p] \in 0..1 /\ (temp'[p] = 1 => temp[p] = 1)
               /\ p \in cleaned => temp'[p] = 0
    BY <1>2, <2>1
  <2>4. temp' \in [Positions -> 0..1]
    BY <2>1, <2>3
  <2>5. ASSUME NEW p \in Positions PROVE temp'[p] = 0 \/ p \in Replaced
    <3>1. Visited \subseteq Owners \cup Replaced
      BY DEF TaskInv, VisitInv
    <3> QED BY <1>2, <2>2, <2>3, <3>1
  <2>6. NoTempLeft'
    BY <1>1, <2>5 DEF NoTempLeft, Replaced
  <2> QED BY <1>1, <1>2, <2>1, <2>3, <2>4, <2>6 DEF TempInv
<1>9. CASE UNCHANGED allVars
  BY <1>1, <1>2, <1>9 DEF allVars, vars, resourceVars, objectVars, TempInv, NoTempLeft, Visited,
                          Shadowed, Policy
<1> QED BY <1>3, <1>4, <1>5, <1>6, <1>7, <1>8, <1>9 DEF ResourceNext

-----------------------------------------------------------------------------
(* Caches and answers *)

(***************************************************************************)
(* An object without a serious error was there before, or has just passed  *)
(* its validation.                                                         *)
(***************************************************************************)
LEMMA Origin ==
    ASSUME TypeOK, [Next]_vars, NEW k \in DOMAIN objects', ~objects'[k].validateOrCheckError
    PROVE  \/ /\ k \in DOMAIN objects /\ objects'[k].at = objects[k].at
              /\ ~objects[k].validateOrCheckError
           \/ Validate(TRUE) /\ objects'[k].at = at
<1>1. CASE objects' = objects
  BY <1>1
<1>2. CASE EnterPolicy
  BY <1>2 DEF EnterPolicy, Restrict
<1>3. ASSUME NEW ok \in BOOLEAN, Validate(ok)
      PROVE  \/ /\ k \in DOMAIN objects /\ objects'[k].at = objects[k].at
                /\ ~objects[k].validateOrCheckError
             \/ Validate(TRUE) /\ objects'[k].at = at
  <2> DEFINE o == [NewObject EXCEPT !.validateOrCheckError = ~ok]
  <2>1. objects' = [x \in DOMAIN objects \cup {Key(at)} |-> IF x = Key(at) THEN o ELSE objects[x]]
    BY <1>3 DEF Validate, Put
  <2>2. o.at = at /\ (o.validateOrCheckError <=> ~ok)
    BY DEF NewObject
  <2> HIDE DEF o
  <2>3. CASE k = Key(at)
    <3>1. objects'[k] = o
      BY <2>1, <2>3
    <3>2. ok = TRUE
      BY <2>2, <3>1
    <3> QED BY <1>3, <2>2, <3>1, <3>2
  <2>4. CASE k # Key(at)
    BY <2>1, <2>4
  <2> QED BY <2>3, <2>4
<1>4. ASSUME NEW desired,
             objects' = [objects EXCEPT ![Key(at)].inDesiredState = desired]
      PROVE  /\ k \in DOMAIN objects /\ objects'[k].at = objects[k].at
             /\ ~objects[k].validateOrCheckError
  <2>1. k \in DOMAIN objects
    BY <1>4
  <2>2. objects[k] \in Objects
    BY <2>1, Own
  <2> QED BY <1>4, <2>1, <2>2 DEF Objects
<1>5. CASE CheckStateError
  <2>1. objects' = [objects EXCEPT ![Key(at)].validateOrCheckError = TRUE]
    BY <1>5 DEF CheckStateError
  <2>2. k \in DOMAIN objects /\ objects[k] \in Objects
    BY <2>1, Own
  <2>3. CASE k = Key(at)
    <3>1. objects'[k] = [objects[k] EXCEPT !.validateOrCheckError = TRUE]
      BY <2>1, <2>2, <2>3
    <3> QED BY <2>2, <3>1 DEF Objects
  <2>4. CASE k # Key(at)
    BY <2>1, <2>2, <2>4
  <2> QED BY <2>3, <2>4
<1>6. ASSUME NEW ok \in BOOLEAN, NEW desired \in BOOLEAN, EnforceState(ok, desired)
      PROVE  /\ k \in DOMAIN objects /\ objects'[k].at = objects[k].at
             /\ ~objects[k].validateOrCheckError
  <2> DEFINE os == [objects EXCEPT ![Key(at)].inDesiredState = desired]
  <2>1. objects' = [x \in DOMAIN os |->
                      [os[x] EXCEPT !.needsPostCheck = @ \/ ~os[x].validateOrCheckError]]
    BY <1>6 DEF EnforceState, MarkPostCheckRequired
  <2>2. k \in DOMAIN os /\ k \in DOMAIN objects /\ objects[k] \in Objects
    BY <2>1, Own
  <2>3. /\ os[k] \in Objects /\ os[k].at = objects[k].at
        /\ os[k].validateOrCheckError = objects[k].validateOrCheckError
    BY <2>2 DEF Objects
  <2> HIDE DEF os
  <2>4. objects'[k] = [os[k] EXCEPT !.needsPostCheck =
                          os[k].needsPostCheck \/ ~os[k].validateOrCheckError]
    BY <2>1, <2>2
  <2> QED BY <2>2, <2>3, <2>4 DEF Objects
<1>7. \/ objects' = objects \/ EnterPolicy \/ (\E ok \in BOOLEAN : Validate(ok))
      \/ CheckStateError \/ (\E ok, desired \in BOOLEAN : EnforceState(ok, desired))
      \/ \E desired : objects' = [objects EXCEPT ![Key(at)].inDesiredState = desired]
  BY DEF Next, vars, ReportStarted, NoPolicies, StartedError, ReportApplying, ApplyingError,
         CheckState, NoEnforcement, SkipPostCheck, PostCheck, ReportCompleted, CleanupPanics,
         Cleanup
<1> QED BY <1>1, <1>2, <1>3, <1>4, <1>5, <1>6, <1>7

(***************************************************************************)
(* The caches under a check: one that is filled again is up to date.       *)
(***************************************************************************)
LEMMA CheckKeepsCaches ==
    ASSUME CacheInv, NEW p, NEW result, CheckResource(p, result)
    PROVE  /\ installed' = installed
           /\ cache' \in [Managers -> (SUBSET Packages) \cup {NoCache}]
           /\ \A m \in Managers : cache'[m] # NoCache /\ m \notin foreign' => cache'[m] = installed
<1>1. /\ installed' = installed /\ installed \subseteq Packages
      /\ cache \in [Managers -> (SUBSET Packages) \cup {NoCache}]
      /\ \A m \in Managers : cache[m] # NoCache /\ m \notin foreign => cache[m] = installed
  BY DEF CacheInv, CheckResource, machine
<1>2. \/ UNCHANGED <<cache, foreign>>
      \/ \E m : cache' = [cache EXCEPT ![m] = installed] /\ foreign' = foreign \ {m}
  BY DEF CheckResource, CheckPackage, PopulateInstalledCache
<1>3. CASE UNCHANGED <<cache, foreign>>
  BY <1>1, <1>3
<1>4. ASSUME NEW m, cache' = [cache EXCEPT ![m] = installed], foreign' = foreign \ {m}
      PROVE  /\ cache' \in [Managers -> (SUBSET Packages) \cup {NoCache}]
             /\ \A n \in Managers : cache'[n] # NoCache /\ n \notin foreign' => cache'[n] = installed
  BY <1>1, <1>4
<1> QED BY <1>1, <1>2, <1>3, <1>4

(***************************************************************************)
(* The caches under an enforcement: the acting manager's is thrown away,   *)
(* the others become foreign if the packages have changed.                 *)
(***************************************************************************)
LEMMA EnforceKeepsCaches ==
    ASSUME CacheInv, DoEnforce
    PROVE  /\ installed' \subseteq Packages
           /\ cache' \in [Managers -> (SUBSET Packages) \cup {NoCache}]
           /\ \A m \in Managers : cache'[m] # NoCache /\ m \notin foreign' => cache'[m] = installed'
<1>1. /\ installed \subseteq Packages
      /\ cache \in [Managers -> (SUBSET Packages) \cup {NoCache}]
      /\ \A m \in Managers : cache[m] # NoCache /\ m \notin foreign => cache[m] = installed
  BY DEF CacheInv
<1>2. \/ UNCHANGED <<installed, cache, foreign>>
      \/ /\ installed' \in SUBSET Packages
         /\ \E m : ActThrough(m)
      \/ /\ installed' \in SUBSET Packages /\ cache' = cache
         /\ foreign' = foreign \cup ForeignTo({})
  BY <1>1 DEF DoEnforce, EnforcePackage, EnforcePackageRefused, EnforceFile,
              EnforceRepository, EnforceExec, machine
<1>3. CASE UNCHANGED <<installed, cache, foreign>>
  BY <1>1, <1>3
<1>4. ASSUME NEW m, installed' \in SUBSET Packages, ActThrough(m)
      PROVE  /\ cache' \in [Managers -> (SUBSET Packages) \cup {NoCache}]
             /\ \A n \in Managers : cache'[n] # NoCache /\ n \notin foreign' => cache'[n] = installed'
  <2>1. /\ cache' = [cache EXCEPT ![m] = NoCache]
        /\ foreign' = (foreign \cup ForeignTo({m})) \ {m}
    BY <1>4 DEF ActThrough
  <2>2. ASSUME NEW n \in Managers, cache'[n] # NoCache, n \notin foreign'
        PROVE  cache'[n] = installed'
    <3>1. n # m /\ cache'[n] = cache[n] /\ n \notin foreign /\ n \notin ForeignTo({m})
      BY <1>1, <2>1, <2>2
    <3>2. installed' = installed
      BY <2>2, <3>1 DEF ForeignTo
    <3> QED BY <1>1, <2>2, <3>1, <3>2
  <2> QED BY <1>1, <2>1, <2>2
<1>5. ASSUME installed' \in SUBSET Packages, cache' = cache,
             foreign' = foreign \cup ForeignTo({})
      PROVE  \A n \in Managers : cache'[n] # NoCache /\ n \notin foreign' => cache'[n] = installed'
  <2>1. ASSUME NEW n \in Managers, cache'[n] # NoCache, n \notin foreign'
        PROVE  cache'[n] = installed'
    <3>1. installed' = installed
      BY <1>5, <2>1 DEF ForeignTo
    <3> QED BY <1>1, <1>5, <2>1, <3>1
  <2> QED BY <2>1
<1> QED BY <1>1, <1>2, <1>3, <1>4, <1>5

(***************************************************************************)
(* The invariant of the caches.                                            *)
(***************************************************************************)
LEMMA NextCacheInv ==
    ASSUME TaskInv, CacheInv, [ResourceNext]_allVars, [Next]_vars
    PROVE  CacheInv'
<1>1. UNCHANGED task /\ TypeOK
  BY VisitedGrows DEF TaskInv
<1>2. /\ installed' \subseteq Packages
      /\ cache' \in [Managers -> (SUBSET Packages) \cup {NoCache}]
      /\ \A m \in Managers : cache'[m] # NoCache /\ m \notin foreign' => cache'[m] = installed'
  <2>1. CASE UNCHANGED <<installed, cache, foreign>>
    BY <2>1 DEF CacheInv
  <2>2. CASE DoCheck
    <3>1. \E result : CheckResource(at, result)
      BY <2>2 DEF DoCheck
    <3> QED BY <3>1, CheckKeepsCaches DEF CacheInv
  <2>3. CASE DoPostCheck
    <3>1. \E p, result : CheckResource(p, result)
      BY <2>3 DEF DoPostCheck
    <3> QED BY <3>1, CheckKeepsCaches DEF CacheInv
  <2>4. CASE DoEnforce
    BY <2>4, EnforceKeepsCaches
  <2>5. UNCHANGED <<installed, cache, foreign>> \/ DoCheck \/ DoPostCheck \/ DoEnforce
    BY DEF ResourceNext, TaskOnly, DoValidate, DoCleanup, allVars, resourceVars, machine
  <2> QED BY <2>1, <2>2, <2>3, <2>4, <2>5
<1>3. ASSUME NEW k \in DOMAIN objects', ~objects'[k].validateOrCheckError,
             Res(objects'[k].at).type = "package"
      PROVE  Res(objects'[k].at).manager \in Managers
  <2>1. CASE k \in DOMAIN objects /\ objects'[k].at = objects[k].at /\ ~objects[k].validateOrCheckError
    BY <1>3, <2>1 DEF CacheInv
  <2>2. CASE Validate(TRUE) /\ objects'[k].at = at
    <3>1. pc = "validate"
      BY <2>2 DEF Validate
    <3>2. \E ok \in BOOLEAN : DoValidate(ok)
      BY <3>1, <2>2 DEF Validate, ResourceNext, TaskOnly, DoCheck, DoEnforce, DoPostCheck, DoCleanup,
             ReportStarted, NoPolicies, StartedError, ReportApplying, ApplyingError,
             EnterPolicy, CheckState, CheckStateError, NoEnforcement, EnforceState,
             SkipPostCheck, PostCheck, ReportCompleted, CleanupPanics, Cleanup, allVars, vars
    <3>3. PICK ok \in BOOLEAN : DoValidate(ok)
      BY <3>2
    <3>4. pc' = "check"
      BY <2>2 DEF Validate
    <3>5. ok = TRUE
      BY <3>3, <3>4 DEF DoValidate, Validate, GoOn
    <3>6. ValidatePackage(at, TRUE)
      BY <1>3, <2>2, <3>3, <3>5 DEF DoValidate
    <3> QED BY <2>2, <3>6 DEF ValidatePackage, Acceptable
  <2> QED BY <1>1, <1>3, <2>1, <2>2, Origin
<1>4. (\A k \in DOMAIN objects :
          ~objects[k].validateOrCheckError /\ Res(objects[k].at).type = "package"
              => Res(objects[k].at).manager \in Managers)'
  BY <1>1, <1>3 DEF Res, Policy
<1> QED BY <1>2, <1>4 DEF CacheInv

(***************************************************************************)
(* Whether a resource is in its desired state depends on the machine and   *)
(* on the checksum it keeps.                                               *)
(***************************************************************************)
LEMMA SameTruth ==
    ASSUME NEW p, UNCHANGED <<task, installed, files>>, sum'[p] = sum[p]
    PROVE  /\ Res(p)' = Res(p)
           /\ InDesiredState(p)' = InDesiredState(p)
<1>1. Res(p)' = Res(p)
  BY DEF Res, Policy
<1>2. FileInState(p)' = FileInState(p)
  BY <1>1 DEF FileInState, ContentsMatch
<1>3. RepositoryInState(Res(p))' = RepositoryInState(Res(p))
  BY <1>1 DEF RepositoryInState, ContentsMatch, HasKey
<1> QED BY <1>1, <1>2, <1>3 DEF InDesiredState

(***************************************************************************)
(* What a check answers is how the machine is, unless the answer came from *)
(* a foreign cache.                                                        *)
(***************************************************************************)
LEMMA CheckIsTrue ==
    ASSUME CacheInv, UNCHANGED task, NEW p, NEW result \in {"COMPLIANT", "NON_COMPLIANT"},
           CheckResource(p, result), Res(p).type # "exec", p \notin doubt',
           Res(p).type = "package" => Res(p).manager \in Managers
    PROVE  result = "COMPLIANT" <=> InDesiredState(p)'
<1>1. UNCHANGED <<installed, files, sum>>
  BY DEF CheckResource, machine, objectVars
<1>2. InDesiredState(p)' = InDesiredState(p)
  BY <1>1, SameTruth
<1>3. CASE Res(p).type = "package" /\ CheckPackage(p, result)
  <2> DEFINE r == Res(p)
  <2>1. /\ PopulateInstalledCache(r.manager)
        /\ result = IF r.want \in {"INSTALLED", "REMOVED"}
                      THEN Answer((r.pkg \in Seen(r.manager)) <=> r.want = "INSTALLED")
                      ELSE "UNKNOWN"
        /\ r.manager \notin foreign'
    BY <1>3 DEF CheckPackage
  <2>2. r.manager \in Managers /\ cache \in [Managers -> (SUBSET Packages) \cup {NoCache}]
    BY <1>3 DEF CacheInv
  <2>3. Seen(r.manager) = installed
    <3>1. CASE r.manager = "msi"
      BY <3>1 DEF Seen
    <3>2. CASE r.manager # "msi" /\ cache[r.manager] # NoCache /\ UNCHANGED <<cache, foreign>>
      BY <2>1, <2>2, <3>2 DEF Seen, CacheInv
    <3>3. CASE r.manager # "msi" /\ cache' = [cache EXCEPT ![r.manager] = installed]
      BY <2>2, <3>3 DEF Seen
    <3> QED BY <2>1, <3>1, <3>2, <3>3 DEF PopulateInstalledCache
  <2>4. result = Answer((r.pkg \in installed) <=> r.want = "INSTALLED")
    BY <2>1, <2>3
  <2>5. result = "COMPLIANT" <=> ((r.pkg \in installed) <=> r.want = "INSTALLED")
    BY <2>4 DEF Answer
  <2>6. InDesiredState(p) <=> ((r.pkg \in installed) <=> r.want = "INSTALLED")
    BY <1>3 DEF InDesiredState
  <2> QED BY <1>2, <2>5, <2>6
<1>4. CASE Res(p).type = "file" /\ CheckFile(p, result)
  <2>1. result = Answer(FileInState(p))
    BY <1>4 DEF CheckFile
  <2>2. InDesiredState(p) = FileInState(p)
    BY <1>4 DEF InDesiredState
  <2> QED BY <1>2, <2>1, <2>2 DEF Answer
<1>5. CASE Res(p).type = "repository" /\ CheckRepository(p, result)
  <2>1. result = Answer(RepositoryInState(Res(p)))
    BY <1>5 DEF CheckRepository
  <2>2. InDesiredState(p) = RepositoryInState(Res(p))
    BY <1>5 DEF InDesiredState
  <2> QED BY <1>2, <2>1, <2>2 DEF Answer
<1> QED BY <1>3, <1>4, <1>5 DEF CheckResource

(***************************************************************************)
(* A check changes the doubt about the resource it asks only.              *)
(***************************************************************************)
LEMMA DoubtOfOne ==
    ASSUME NEW p, NEW result, CheckResource(p, result)
    PROVE  \A q : q # p => (q \in doubt' <=> q \in doubt)
BY DEF CheckResource, CheckPackage

(***************************************************************************)
(* The invariant of the answers.                                           *)
(***************************************************************************)
LEMMA NextTruthInv ==
    ASSUME TaskInv, CacheInv, TruthInv, [ResourceNext]_allVars, [Next]_vars
    PROVE  TruthInv'
<1>1. UNCHANGED task /\ Positions' = Positions /\ TypeOK
  BY VisitedGrows DEF TaskInv
<1>2. /\ DOMAIN sum = Positions /\ fresh \subseteq Positions
      /\ state \in [Positions -> ComplianceStates]
  BY <1>1 DEF TruthInv, TypeOK
<1> DEFINE True(p) == p \in Decided' /\ Res(p).type # "exec" =>
                          (state'[p] = "COMPLIANT" <=> InDesiredState(p)')
<1>3. ASSUME DOMAIN sum' = Positions, \A p \in fresh' \ doubt' : True(p)
      PROVE  TruthInv'
  BY <1>1, <1>3 DEF TruthInv, Res, Policy
<1>4. ASSUME NEW p \in fresh, p \notin doubt, p \in Decided' => p \in Decided,
             state'[p] = state[p], sum'[p] = sum[p], UNCHANGED <<installed, files>>
      PROVE  True(p)
  BY <1>1, <1>4, SameTruth DEF TruthInv
<1>5. CASE UNCHANGED <<state, fresh, installed, files, sum, doubt>>
  <2>1. Decided' = Decided
    BY <1>1, <1>5 DEF Decided
  <2>2. \A p \in fresh' \ doubt' : True(p)
    BY <1>4, <1>5, <2>1
  <2> QED BY <1>2, <1>3, <1>5, <2>2
<1>6. CASE \E ok \in BOOLEAN : DoValidate(ok)
  <2>1. PICK ok \in BOOLEAN : DoValidate(ok)
    BY <1>6
  <2>2. /\ pc = "validate" /\ state' = [state EXCEPT ![at] = "UNKNOWN"]
        /\ UNCHANGED <<fresh, installed, files, doubt>>
    BY <2>1 DEF DoValidate, Validate, machine
  <2>3. at \in Positions
    BY <2>2, AtWork DEF AtResource
  <2>4. sum' = sum \/ \E c : sum' = [sum EXCEPT ![at] = c]
    BY <2>1 DEF DoValidate, ValidatePackage, ValidateFile, ValidateRepository, ValidateExec
  <2>5. DOMAIN sum' = Positions /\ \A p \in Positions : p # at => sum'[p] = sum[p]
    BY <1>2, <2>4
  <2>6. Decided' = Decided \ {at}
    BY <1>1, <2>2, <2>3, StateSets
  <2>7. ASSUME NEW p \in fresh' \ doubt' PROVE True(p)
    <3>1. CASE p = at
      BY <2>6, <3>1
    <3>2. CASE p # at
      BY <1>2, <1>4, <2>2, <2>5, <2>6, <3>2
    <3> QED BY <3>1, <3>2
  <2> QED BY <1>3, <2>5, <2>7
<1>7. CASE DoCheck
  <2>1. PICK result \in {"UNKNOWN", "COMPLIANT", "NON_COMPLIANT"} :
            /\ CheckResource(at, result) /\ state' = [state EXCEPT ![at] = result]
            /\ pc = "check" /\ fresh' = IF result = "UNKNOWN" THEN fresh ELSE fresh \cup {at}
    BY <1>7 DEF DoCheck, CheckState, CheckStateError, Answer
  <2>2. UNCHANGED <<installed, files, sum>>
    BY <2>1 DEF CheckResource, machine, objectVars
  <2>3. /\ at \in Positions /\ at \notin Erred /\ at \in Owners
        /\ Key(at) \in DOMAIN objects /\ objects[Key(at)].at = at
    BY <2>1, AtWork DEF AtResource
  <2>4. Res(at).type = "package" => Res(at).manager \in Managers
    BY <2>3 DEF CacheInv, Erred
  <2>5. Decided' = IF result = "UNKNOWN" THEN Decided \ {at} ELSE Decided \cup {at}
    BY <1>1, <2>1, <2>3, StateSets
  <2>6. ASSUME NEW p \in fresh' \ doubt' PROVE True(p)
    <3>1. CASE p = at
      <4>1. state'[at] = result
        BY <1>2, <2>1, <2>3
      <4>2. result # "UNKNOWN" /\ Res(at).type # "exec" => (result = "COMPLIANT" <=> InDesiredState(p)')
        BY <1>1, <2>1, <2>4, <3>1, CheckIsTrue
      <4> QED BY <2>5, <3>1, <4>1, <4>2
    <3>2. CASE p # at
      <4>1. p \in fresh /\ p \notin doubt
        BY <2>1, <3>2, DoubtOfOne
      <4>2. state'[p] = state[p] /\ (p \in Decided' => p \in Decided)
        BY <1>2, <2>1, <2>5, <3>2, <4>1
      <4> QED BY <1>4, <2>2, <4>1, <4>2
    <3> QED BY <3>1, <3>2
  <2> QED BY <1>2, <1>3, <2>2, <2>6
<1>8. CASE DoEnforce
  <2>1. fresh' = {} /\ sum' = sum
    BY <1>8 DEF DoEnforce, EnforceState
  <2> QED BY <1>2, <1>3, <2>1
<1>9. CASE DoPostCheck
  <2>1. PICK result \in {"UNKNOWN", "COMPLIANT", "NON_COMPLIANT"} :
            PostCheck(result) /\ CheckResource(objects[Key(at)].at, result)
    BY <1>9 DEF DoPostCheck
  <2>2. PICK q : q = objects[Key(at)].at
    OBVIOUS
  <2>3. /\ pc = "postCheck" /\ at \in ToPostCheck /\ state' = [state EXCEPT ![at] = result]
        /\ fresh' = IF q = at THEN fresh \cup {at} ELSE fresh \ {at}
        /\ CheckResource(q, result)
    BY <2>1, <2>2 DEF PostCheck
  <2>4. UNCHANGED <<installed, files, sum>>
    BY <2>3 DEF CheckResource, machine, objectVars
  <2>5. at \in Positions /\ Key(at) \in DOMAIN objects /\ q \in Waiting
    BY <2>2, <2>3, Found
  <2>6. q \notin fresh
    BY <2>3, <2>5 DEF TaskInv, FreshInv
  <2>7. q \notin Erred /\ q \in Owners /\ Key(q) = Key(at)
    BY <1>1, <2>2, <2>5, Own DEF TaskInv, ErrorInv, Waiting
  <2>8. Res(q).type = "package" => Res(q).manager \in Managers
    BY <2>2, <2>5, <2>7 DEF CacheInv, Erred
  <2>9. Decided' = IF result = "UNKNOWN" THEN Decided \ {at} ELSE Decided \cup {at}
    BY <1>1, <2>3, <2>5, StateSets
  <2>10. ASSUME NEW p \in fresh' \ doubt' PROVE True(p)
    <3>1. CASE p = at
      <4>1. q = at
        BY <2>3, <2>10, <3>1
      <4>2. state'[at] = result
        BY <1>2, <2>3, <2>5
      <4>3. result # "UNKNOWN" /\ Res(q).type # "exec" => (result = "COMPLIANT" <=> InDesiredState(p)')
        BY <1>1, <2>3, <2>8, <3>1, <4>1, CheckIsTrue
      <4> QED BY <2>9, <3>1, <4>1, <4>2, <4>3
    <3>2. CASE p # at
      <4>1. p \in fresh /\ p # q
        BY <2>3, <2>6, <2>10, <3>2
      <4>2. p \notin doubt
        BY <2>3, <2>10, <4>1, DoubtOfOne
      <4>3. state'[p] = state[p] /\ (p \in Decided' => p \in Decided)
        BY <1>2, <2>3, <2>9, <3>2, <4>1
      <4> QED BY <1>4, <2>4, <4>1, <4>2, <4>3
    <3> QED BY <3>1, <3>2
  <2> QED BY <1>2, <1>3, <2>4, <2>10
<1>10. \/ UNCHANGED <<state, fresh, installed, files, sum, doubt>>
       \/ (\E ok \in BOOLEAN : DoValidate(ok)) \/ DoCheck \/ DoEnforce \/ DoPostCheck
  BY DEF ResourceNext, TaskOnly, DoCleanup, Cleanup, allVars, vars, resourceVars, machine, objectVars,
         ReportStarted, NoPolicies, StartedError, ReportApplying, ApplyingError,
         EnterPolicy, NoEnforcement, SkipPostCheck, ReportCompleted, CleanupPanics
<1> QED BY <1>5, <1>6, <1>7, <1>8, <1>9, <1>10

-----------------------------------------------------------------------------
(* Theorems about the resources *)

(***************************************************************************)
(* The inductive invariant of the task and its resources.                  *)
(***************************************************************************)
LEMMA ResourceInvariance == ResourceSpec => []ResourceInv
<1>1. ResourceInit => ResourceInv
  <2> SUFFICES ASSUME ResourceInit PROVE ResourceInv
    OBVIOUS
  <2>1. TaskInv
    BY InitTaskInv DEF ResourceInit
  <2>2. TempInv
    BY DEF ResourceInit, Init, TempInv, NoTempLeft
  <2>3. CacheInv
    <3>1. \A k : k \notin DOMAIN objects
      BY DEF ResourceInit, Init
    <3>2. /\ installed \subseteq Packages
          /\ cache \in [Managers -> (SUBSET Packages) \cup {NoCache}]
          /\ \A m \in Managers : cache[m] # NoCache => cache[m] = installed
      BY DEF ResourceInit
    <3> QED BY <3>1, <3>2 DEF CacheInv
  <2>4. TruthInv
    BY DEF ResourceInit, Init, TruthInv
  <2> QED BY <2>1, <2>2, <2>3, <2>4 DEF ResourceInv
<1>2. ResourceInv /\ [ResourceNext]_allVars /\ [Next]_vars /\ TaskInv' => ResourceInv'
  BY NextTempInv, NextCacheInv, NextTruthInv DEF ResourceInv
<1> QED BY <1>1, <1>2, ResourcesFollowTask, TaskInvariance, PTL DEF ResourceSpec, Spec

(***************************************************************************)
(* For every list of policies, every set of resources and packages and     *)
(* whatever the enforcements break: what the final report says of a        *)
(* package, file or repository is how the machine is, unless a cache older *)
(* than a change by somebody else answered or the policy id comes again.   *)
(***************************************************************************)
THEOREM ReportIsHonest == ResourceSpec => []ReportIsTrue
<1>1. ResourceInv => ReportIsTrue
  <2> SUFFICES ASSUME ResourceInv, Completed, NEW p \in Positions,
                      state[p] \in {"COMPLIANT", "NON_COMPLIANT"}, Res(p).type # "exec",
                      p \notin doubt, ~Shadowed(p)
               PROVE  state[p] = "COMPLIANT" <=> InDesiredState(p)
    BY DEF ReportIsTrue
  <2>1. p \in fresh
    BY DEF ResourceInv, TaskInv, ComplianceIsFresh
  <2>2. p \in Decided
    BY DEF Decided
  <2> QED BY <2>1, <2>2 DEF ResourceInv, TruthInv
<1> QED BY <1>1, ResourceInvariance, PTL

(***************************************************************************)
(* No task leaves a temporary directory behind, except for policies whose  *)
(* id comes again.                                                         *)
(***************************************************************************)
THEOREM NothingIsLeft == ResourceSpec => []NoTempLeft
<1>1. ResourceInv => NoTempLeft
  BY DEF ResourceInv, TempInv
<1> QED BY <1>1, ResourceInvariance, PTL
=============================================================================
