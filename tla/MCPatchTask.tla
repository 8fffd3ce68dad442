---------------------------- MODULE MCPatchTask ----------------------------
(* Model-checking instance of PatchTask: the configurations of the tasks. *)
EXTENDS PatchTask

MCRebootConfig ==
    [t \in Tasks |-> CASE t = "always" -> "ALWAYS"
                       [] t = "never" -> "NEVER"
                       [] OTHER -> "DEFAULT"]

MCDryRun == [t \in Tasks |-> t = "dry"]
=============================================================================
