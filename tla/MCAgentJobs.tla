---------------------------- MODULE MCAgentJobs ----------------------------
\* A downloaded script, and a local one that a recipe may replace; a recipe that
\* extracts an archive, with a link to the local script, an entry that goes through
\* the link and a name that comes twice, one that copies files, to a path of the
\* archive too, and one whose artifact has another checksum.
EXTENDS AgentJobs

MCPaths == {"dl", "local", "dir", "d1", "d2", "link"} \cup RunDir
MCData == {"obj", "good", "bad", "user"}

MCExecTasks == {"download", "here", "windows"}
MCExecStep ==
    [download |-> [applies |-> TRUE, object |-> "obj", path |-> "dl", interpreter |-> "unspecified"],
     here |-> [applies |-> TRUE, object |-> NoObject, path |-> "local", interpreter |-> "shell"],
     windows |-> [applies |-> FALSE, object |-> NoObject, path |-> "local",
                  interpreter |-> "shell"]]

Entry(k, p) == [kind |-> k, path |-> p, to |-> p]
MCRecipe ==
    [archive |-> [artifact |-> "good", served |-> "good", sum |-> "good", steps |->
        <<[op |-> "extract", entries |->
             <<Entry("dir", "dir"), Entry("file", "d1"), Entry("node", "dl"),
               [kind |-> "link", path |-> "link", to |-> "local"], Entry("file", "link"),
               Entry("file", "d2"), Entry("file", "d2")>>],
          [op |-> "unknown"], [op |-> "install"]>>],
     copies |-> [artifact |-> "good", served |-> "good", sum |-> NoSum, steps |->
        <<[op |-> "copy", path |-> "d1", overwrite |-> FALSE],
          [op |-> "copy", path |-> "local", overwrite |-> TRUE],
          [op |-> "script", script |-> "user"]>>],
     spoilt |-> [artifact |-> "good", served |-> "bad", sum |-> "good", steps |->
        <<[op |-> "install"]>>]]

MCOldFiles ==
    {[p \in MCPaths |-> IF p \in there THEN Whole("user") ELSE Absent] :
        there \in {{"local"}, {"d2"}}}

MCOldMachines == {[e \in Entries |-> "available"]}

MCAgendas ==
    {<<"exec", "recipe", "exec">>, <<"recipe", "recipe", "exec">>, <<"exec", "exec", "recipe">>,
     <<"recipe", "inventory", "recipe">>, <<"inventory", "inventory", "inventory">>}

MCKind == [patch |-> "zypper", app |-> "snap"]
=============================================================================
