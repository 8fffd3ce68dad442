------------------------- MODULE MCConfigResources -------------------------
(* Model-checking instance of ConfigResources: a machine with apt and dpkg. *)
EXTENDS ConfigResources

Pkg(manager, pkg, want, source, local) ==
    [type |-> "package", manager |-> manager, pkg |-> pkg, want |-> want,
     source |-> source, local |-> local]

File(path, fileState, local, from, content) ==
    [type |-> "file", path |-> path, state |-> fileState, local |-> local,
     from |-> from, content |-> content]

MCResource ==
    [aptX    |-> Pkg("apt", "x", "INSTALLED", "none", TRUE),
     aptNoX  |-> Pkg("apt", "x", "REMOVED", "none", TRUE),
     debX    |-> Pkg("deb", "x", "INSTALLED", "x.deb", FALSE),
     debY    |-> Pkg("deb", "y", "INSTALLED", "y.deb", FALSE),
     aptWhat |-> Pkg("apt", "x", "UNSPECIFIED", "none", TRUE),
     yumX    |-> Pkg("yum", "x", "INSTALLED", "none", TRUE),
     file    |-> File("/f", "CONTENTS_MATCH", FALSE, "/g", "red"),
     copy    |-> File("/g", "CONTENTS_MATCH", TRUE, "/f", "none"),
     gone    |-> File("/f", "ABSENT", FALSE, "/g", "none"),
     present |-> File("/f", "PRESENT", FALSE, "/g", "red"),
     repo    |-> [type |-> "repository", manager |-> "apt", path |-> "/f", content |-> "red",
                  keyPath |-> "/g", key |-> "red"],
     script  |-> [type |-> "exec"]]

Enforcing(id, resources) == [id |-> id, validateOnly |-> FALSE, resources |-> resources]
Validating(id, resources) == [id |-> id, validateOnly |-> TRUE, resources |-> resources]

MCAssignments ==
    {<< >>, << Enforcing("a", << >>) >>,
     << Enforcing("a", <<"file">>), Enforcing("a", <<"file", "gone">>) >>,  \* one id twice
     << Enforcing("a", <<"aptX", "debY">>), Enforcing("b", <<"aptNoX">>) >>,
     << Enforcing("a", <<"debX", "script">>), Validating("b", <<"aptWhat">>), Enforcing("c", <<"yumX">>) >>,
     << Enforcing("a", <<"file", "copy">>), Enforcing("b", <<"gone">>) >>,
     << Enforcing("a", <<"present">>), Enforcing("b", <<"repo", "script">>) >>}
=============================================================================
