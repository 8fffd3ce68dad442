---------------------------- MODULE MCAgentStart ----------------------------
(* Model-checking instance of AgentStart. *)
EXTENDS AgentStart

Nothing ==
    [inventory |-> "", inventoryOld |-> "", enabled |-> "", prerelease |-> {},
     disabled |-> {}, poll |-> Unset, pollOld |-> Unset, debugOld |-> "",
     logLevel |-> "", scalibr |-> "", endpoint |-> "", endpointOld |-> ""]

\* A project that enables everything, and one with old names and lists.
Enabling == [Nothing EXCEPT !.enabled = "true", !.poll = 3, !.scalibr = "true"]

OldNames ==
    [Nothing EXCEPT !.inventoryOld = "true", !.prerelease = {"tasks"}, !.pollOld = 5,
                    !.debugOld = "true", !.endpointOld = "old"]

\* Instances that disable some or all of it, ask for an interval that is no positive
\* duration (11 minutes are too many for the small Int64), or use its old name.
Instances ==
    {[Nothing EXCEPT !.disabled = {"tasks"}, !.inventory = "true", !.poll = NotInt],
     [Nothing EXCEPT !.enabled = "true", !.disabled = {"osinventory"}, !.logLevel = "info"],
     [Nothing EXCEPT !.pollOld = 2, !.endpoint = "own"]}
    \cup {[Nothing EXCEPT !.enabled = "false", !.prerelease = {"guestpolicies"}, !.poll = n] :
              n \in {-1, 11}}

\* Also metadata that says nothing, with and without the zone, and metadata that
\* cannot be read.
MCMetadata ==
    {[readable |-> TRUE, zone |-> "z", project |-> Enabling, instance |-> i] :
        i \in Instances}
    \cup {[readable |-> TRUE, zone |-> "z", project |-> OldNames, instance |-> i] :
        i \in {j \in Instances : j.poll = NotInt}}
    \cup {[readable |-> m[1], zone |-> m[2], project |-> Nothing, instance |-> Nothing] :
        m \in {<<TRUE, "z">>, <<TRUE, "">>, <<FALSE, "z">>}}
=============================================================================
