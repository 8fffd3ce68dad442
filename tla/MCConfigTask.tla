---------------------------- MODULE MCConfigTask ----------------------------
(* Model-checking instances of ConfigTask: the OS policies of the tasks. *)
EXTENDS ConfigTask

Enforcing(id, resources) == [id |-> id, validateOnly |-> FALSE, resources |-> resources]
Validating(id, resources) == [id |-> id, validateOnly |-> TRUE, resources |-> resources]

\* Policy ids that are unique in the task (the maps of run() take them to be).
MCUnique ==
    {<< >>,
     << Enforcing("a", << >>) >>,
     << Enforcing("a", <<"r", "s">>), Enforcing("b", <<"r">>) >>,
     << Enforcing("a", <<"r">>), Validating("b", <<"r", "s">>), Enforcing("c", <<"t">>) >>}
=============================================================================
