----------------------------- MODULE ConfigTask -----------------------------
(***************************************************************************)
(* The ApplyConfig task (agentendpoint/config_task.go): it validates,      *)
(* checks and enforces the resources of a list of OS policies in order,    *)
(* checks again whatever may have changed, reports the compliance of every *)
(* resource and cleans up.                                                 *)
(*                                                                         *)
(* A position <<i, j>> is resource j of policy i of the task.  The code    *)
(* keeps a resource object in maps from policy id to resource id, while    *)
(* the results are kept by position: the model keeps both.  What a         *)
(* resource's own validate, checkState and enforceState find (config/) is  *)
(* any answer at any time: the enforcement of one resource may break       *)
(* another.                                                                *)
(***************************************************************************)
EXTENDS Naturals, Sequences, Functions

CONSTANT Assignments  \* the lists of OS policies a task may carry: sequences
                      \* of [id, validateOnly, resources: sequence of ids]

\* The service keeps the ids of the resources within a policy apart.
ASSUME AssignmentsAssumption ==
    \A t \in Assignments :
        /\ t \in Seq(Range(t))
        /\ \A i \in DOMAIN t :
              /\ t[i].resources \in Seq(Range(t[i].resources))
              /\ IsInjective(t[i].resources)

VARIABLES
    task,      \* c.Task.OsPolicies
    pc,        \* where run() is
    at,        \* the position run() or one of its loops is at
    made,      \* c.policies is no longer nil
    objects,   \* c.policies: the objects, by <<policy id, resource id>>
    state,     \* state[p]: the compliance state in the results, by position
    steps,     \* steps[p]: the config steps in the results, by position, each
               \* with its outcome
    final,     \* final reports sent to the service, in order
    fresh,     \* positions checked since the last enforcement
    enforced   \* positions whose enforcement was run

vars == <<task, pc, at, made, objects, state, steps, final, fresh, enforced>>

Positions == UNION {{i} \X DOMAIN task[i].resources : i \in DOMAIN task}

Policy(p) == task[p[1]]
Key(p) == <<Policy(p).id, Policy(p).resources[p[2]]>>

ComplianceStates == {"UNSPECIFIED", "UNKNOWN", "COMPLIANT", "NON_COMPLIANT"}
ConfigSteps == {"VALIDATION", "CHECK", "ENFORCEMENT", "POST_CHECK"}
                   \X {"SUCCEEDED", "FAILED"}
Objects == [at: Positions, inDesiredState: BOOLEAN, needsPostCheck: BOOLEAN,
            validateOrCheckError: BOOLEAN]

(***************************************************************************)
(* Types; every object is filed under the ids of the position it was made  *)
(* for.                                                                    *)
(***************************************************************************)
TypeOK ==
    /\ task \in Assignments
    /\ pc \in {"start", "apply", "policy", "validate", "check", "enforce",
               "postCheck", "report", "cleanup", "end", "panic"}
    /\ made \in BOOLEAN
    /\ Range(objects) \subseteq Objects
    /\ \A k \in DOMAIN objects : k = Key(objects[k].at)
    /\ state \in [Positions -> ComplianceStates]
    /\ steps \in [Positions -> SUBSET ConfigSteps]
    /\ final \in Seq({"SUCCEEDED", "FAILED", "CANCELLED"})
    /\ fresh \subseteq Positions
    /\ enforced \subseteq Positions

Init ==
    /\ task \in Assignments
    /\ pc = "start"
    /\ at = <<1, 0>>
    /\ made = FALSE
    /\ objects = << >>
    /\ state = [p \in Positions |-> "UNSPECIFIED"]
    /\ steps = [p \in Positions |-> {}]
    /\ final = << >>
    /\ fresh = {}
    /\ enforced = {}

\* The result of a reportTaskComplete call; an RPC error is only returned.
Report(s) == final' \in {final, Append(final, s)}

Ended(p) == p[2] = Len(Policy(p).resources)
AfterPolicy(p) == IF p[1] = Len(task) THEN <<1, 0>> ELSE <<p[1] + 1, 0>>
LastPolicy(p) == p[1] = Len(task)

\* The results of the resource at position p after a config step.
AddStep(p, type, ok) ==
    steps' = [steps EXCEPT ![p] = @ \cup {<<type, IF ok THEN "SUCCEEDED" ELSE "FAILED">>}]

-----------------------------------------------------------------------------
(* run(): the two progress reports *)

ReportStarted ==
    /\ pc = "start"
    /\ pc' = "apply"
    /\ task # << >>
    /\ UNCHANGED <<task, at, made, objects, state, steps, final, fresh, enforced>>

NoPolicies ==
    /\ pc = "start"
    /\ task = << >>
    /\ Report("SUCCEEDED")
    /\ pc' = "end"
    /\ UNCHANGED <<task, at, made, objects, state, steps, fresh, enforced>>

\* handleErrorState before the cleanup is deferred.
StartedError ==
    /\ pc = "start"
    /\ Report("FAILED") \/ Report("CANCELLED")
    /\ pc' = "end"
    /\ UNCHANGED <<task, at, made, objects, state, steps, fresh, enforced>>

ReportApplying ==
    /\ pc = "apply"
    /\ made' = TRUE
    /\ pc' = "policy"
    /\ UNCHANGED <<task, at, objects, state, steps, final, fresh, enforced>>

\* handleErrorState after generateBaseResults; the deferred cleanup follows.
ApplyingError ==
    /\ pc = "apply"
    /\ Report("FAILED") \/ Report("CANCELLED")
    /\ pc' = "cleanup"
    /\ UNCHANGED <<task, at, made, objects, state, steps, fresh, enforced>>

-----------------------------------------------------------------------------
(* run(): the loops over policies and resources *)

\* A new policy entry, which replaces one with the same id.
EnterPolicy ==
    /\ pc = "policy"
    /\ objects' = Restrict(objects, {k \in DOMAIN objects : k[1] # Policy(at).id})
    /\ IF Ended(at)
         THEN /\ at' = AfterPolicy(at)
              /\ pc' = IF LastPolicy(at) THEN "postCheck" ELSE "policy"
         ELSE at' = <<at[1], 1>> /\ pc' = "validate"
    /\ UNCHANGED <<task, made, state, steps, final, fresh, enforced>>

\* Variant of GoOn that goes on with the policy after an error.
GoOnAfterError(break) ==
    \/ /\ ~Ended(at)
       /\ at' = <<at[1], at[2] + 1>>
       /\ pc' = "validate"
    \/ /\ Ended(at)
       /\ at' = AfterPolicy(at)
       /\ pc' = IF LastPolicy(at) THEN "postCheck" ELSE "policy"

\* `continue` after the resource at `at`, or `break` out of its policy.
GoOn(break) ==
    \/ /\ ~break /\ ~Ended(at)
       /\ at' = <<at[1], at[2] + 1>>
       /\ pc' = "validate"
    \/ /\ break \/ Ended(at)
       /\ at' = AfterPolicy(at)
       /\ pc' = IF LastPolicy(at) THEN "postCheck" ELSE "policy"

NewObject == [at |-> at, inDesiredState |-> FALSE, needsPostCheck |-> FALSE,
              validateOrCheckError |-> FALSE]

Put(k, o) == [x \in DOMAIN objects \cup {k} |-> IF x = k THEN o ELSE objects[x]]

\* newResource and validateConfigResource.
Validate(ok) ==
    /\ pc = "validate"
    /\ objects' = Put(Key(at), [NewObject EXCEPT !.validateOrCheckError = ~ok])
    /\ AddStep(at, "VALIDATION", ok)
    /\ state' = [state EXCEPT ![at] = "UNKNOWN"]
    /\ IF ok THEN pc' = "check" /\ UNCHANGED at ELSE GoOn(TRUE)
    /\ UNCHANGED <<task, made, final, fresh, enforced>>

\* checkConfigResourceState without an error.
CheckState(desired) ==
    /\ pc = "check"
    /\ objects' = [objects EXCEPT ![Key(at)].inDesiredState = desired]
    /\ AddStep(at, "CHECK", TRUE)
    /\ state' = [state EXCEPT ![at] = IF desired THEN "COMPLIANT" ELSE "NON_COMPLIANT"]
    /\ fresh' = fresh \cup {at}
    /\ IF Policy(at).validateOnly THEN GoOn(FALSE) ELSE pc' = "enforce" /\ UNCHANGED at
    /\ UNCHANGED <<task, made, final, enforced>>

\* checkConfigResourceState with an error.
CheckStateError ==
    /\ pc = "check"
    /\ objects' = [objects EXCEPT ![Key(at)].validateOrCheckError = TRUE]
    /\ AddStep(at, "CHECK", FALSE)
    /\ state' = [state EXCEPT ![at] = "UNKNOWN"]
    /\ GoOn(TRUE)
    /\ UNCHANGED <<task, made, final, fresh, enforced>>

\* Variant of MarkPostCheckRequired that marks the current policy only.
MarkCurrentPolicy(os) ==
    [k \in DOMAIN os |->
        [os[k] EXCEPT !.needsPostCheck =
            @ \/ (k[1] = Policy(at).id /\ ~os[k].validateOrCheckError)]]

\* Variant of MarkPostCheckRequired that marks nothing.
MarkNothing(os) == os

\* markPostCheckRequired: every object so far without a serious error.
MarkPostCheckRequired(os) ==
    [k \in DOMAIN os |->
        [os[k] EXCEPT !.needsPostCheck = @ \/ ~os[k].validateOrCheckError]]

NoEnforcement ==
    /\ pc = "enforce"
    /\ objects[Key(at)].inDesiredState
    /\ GoOn(FALSE)
    /\ UNCHANGED <<task, made, objects, state, steps, final, fresh, enforced>>

\* enforceConfigResourceState, markPostCheckRequired and PopulateOutput.
EnforceState(ok, desired) ==
    /\ pc = "enforce"
    /\ ~objects[Key(at)].inDesiredState
    /\ objects' = MarkPostCheckRequired(
                      [objects EXCEPT ![Key(at)].inDesiredState = desired])
    /\ AddStep(at, "ENFORCEMENT", ok)
    /\ state' = [state EXCEPT ![at] = "UNKNOWN"]
    /\ fresh' = {}
    /\ enforced' = enforced \cup {at}
    /\ GoOn(~ok)
    /\ UNCHANGED <<task, made, final>>

-----------------------------------------------------------------------------
(* postCheckState and cleanup *)

\* Both loops visit every position in order; <<1, 0>> is before the first.
NextPosition(p) == IF Ended(p) THEN <<p[1] + 1, 0>> ELSE <<p[1], p[2] + 1>>
Past(p) == p[1] > Len(task)

ToPostCheck == {p \in Positions : Key(p) \in DOMAIN objects /\ objects[Key(p)].needsPostCheck}

\* postCheckState on to a position without an object that needs it.
SkipPostCheck ==
    /\ pc = "postCheck"
    /\ ~Past(at)
    /\ at \notin ToPostCheck
    /\ at' = NextPosition(at)
    /\ UNCHANGED <<task, pc, made, objects, state, steps, final, fresh, enforced>>

\* postCheckConfigResourceState: the object found under the ids of the
\* position is checked, and the result of the position is overwritten.
PostCheck(result) ==
    /\ pc = "postCheck"
    /\ ~Past(at)
    /\ at \in ToPostCheck
    /\ objects' = [objects EXCEPT ![Key(at)].inDesiredState = result = "COMPLIANT"]
    /\ AddStep(at, "POST_CHECK", result # "UNKNOWN")
    /\ state' = [state EXCEPT ![at] = result]
    /\ fresh' = IF objects[Key(at)].at = at THEN fresh \cup {at} ELSE fresh \ {at}
    /\ at' = NextPosition(at)
    /\ UNCHANGED <<task, pc, made, final, enforced>>

ReportCompleted ==
    /\ pc = "postCheck"
    /\ Past(at)
    /\ Report("SUCCEEDED")
    /\ pc' = "cleanup"
    /\ at' = <<1, 0>>
    /\ UNCHANGED <<task, made, objects, state, steps, fresh, enforced>>

\* cleanup with no policy entries: a nil policy is dereferenced at the
\* first resource, and nothing recovers from the panic.
CleanupPanics ==
    /\ pc = "cleanup"
    /\ ~made
    /\ Positions # {}
    /\ pc' = "panic"
    /\ UNCHANGED <<task, at, made, objects, state, steps, final, fresh, enforced>>

\* cleanup: the Cleanup of every object that is still in the maps.
Cleanup ==
    /\ pc = "cleanup"
    /\ made \/ Positions = {}
    /\ pc' = "end"
    /\ UNCHANGED <<task, at, made, objects, state, steps, final, fresh, enforced>>

-----------------------------------------------------------------------------
Next ==
    \/ ReportStarted \/ NoPolicies \/ StartedError
    \/ ReportApplying \/ ApplyingError
    \/ EnterPolicy
    \/ \E ok \in BOOLEAN : Validate(ok)
    \/ \E desired \in BOOLEAN : CheckState(desired)
    \/ CheckStateError
    \/ NoEnforcement
    \/ \E ok, desired \in BOOLEAN : EnforceState(ok, desired)
    \/ SkipPostCheck
    \/ \E result \in {"UNKNOWN", "COMPLIANT", "NON_COMPLIANT"} : PostCheck(result)
    \/ ReportCompleted
    \/ CleanupPanics \/ Cleanup

Spec == Init /\ [][Next]_vars

-----------------------------------------------------------------------------
(* Properties *)

Completed == pc \in {"cleanup", "end"} /\ made

Taken(p, type) == type \in {step[1] : step \in steps[p]}

\* A later policy of the task, of another assignment, has the same id: its
\* entry in c.policies has replaced that of p.
Shadowed(p) == \E i \in DOMAIN task : i > p[1] /\ task[i].id = Policy(p).id

(***************************************************************************)
(* A compliance state other than UNKNOWN that is in the final report comes *)
(* from a check of that very resource that was made after the last         *)
(* enforcement of any resource: enforcing one resource can break another   *)
(* one that was compliant before ("On any change we trigger post check for *)
(* all previous resouces").  The only exception are resources of a policy  *)
(* whose id comes again in the task.                                       *)
(***************************************************************************)
ComplianceIsFresh ==
    Completed => \A p \in Positions :
        state[p] \in {"COMPLIANT", "NON_COMPLIANT"} => p \in fresh \/ Shadowed(p)

(***************************************************************************)
(* Every resource that was enforced, with an error or without, is checked  *)
(* once more before the report ("for enforce if any action is taken we     *)
(* still want to run post check"), unless the id of its policy comes again *)
(* in the task.                                                            *)
(***************************************************************************)
EnforcedIsPostChecked ==
    Completed => \A p \in enforced : Taken(p, "POST_CHECK") \/ Shadowed(p)

(***************************************************************************)
(* Errors stay inside a policy and stop it: a resource is looked at if and *)
(* only if no earlier resource of the same policy failed its validation,   *)
(* its check or its enforcement, whatever happened in other policies.  In  *)
(* a policy with VALIDATION mode nothing is enforced.                      *)
(***************************************************************************)
Failed(p) ==
    \E type \in {"VALIDATION", "CHECK", "ENFORCEMENT"} : <<type, "FAILED">> \in steps[p]

PolicyIsolation ==
    /\ \A p \in enforced : ~Policy(p).validateOnly
    /\ Completed => \A q \in Positions :
         Taken(q, "VALIDATION") <=>
             \A p \in Positions : p[1] = q[1] /\ p[2] < q[2] => ~Failed(p)

(***************************************************************************)
(* "Cases where task is canceled by server at various points"              *)
(* (config_task_test.go:380): a task that is canceled or whose report      *)
(* fails ends in an orderly way, the agent does not panic.                 *)
(***************************************************************************)
CancelIsOrderly == pc # "panic"
=============================================================================
