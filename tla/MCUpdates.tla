----------------------------- MODULE MCUpdates -----------------------------
(* Model-checking instance of Updates. *)
EXTENDS Updates

Plain ==
    [excludes |-> {}, exclusives |-> {}, invalid |-> FALSE, narrow |-> FALSE,
     withUpdate |-> FALSE]

Job(managers, dryRun, conf) ==
    [managers |-> managers, dryRun |-> dryRun,
     conf |-> [m \in Managers |-> IF m = managers[Len(managers)] THEN conf ELSE Plain]]

\* An exclude that is a string, and one that is a regular expression.
Excluding == [Plain EXCEPT !.excludes = {{"a"}}]
Only == [Plain EXCEPT !.exclusives = {"b"}]

Configs ==
    {Plain, Excluding, Only, [Excluding EXCEPT !.exclusives = {"b"}],
     [Plain EXCEPT !.narrow = TRUE], [Plain EXCEPT !.excludes = {{"a", "b"}, {}}, !.narrow = TRUE]}

ZypperConfigs ==
    {[Plain EXCEPT !.withUpdate = TRUE, !.narrow = n, !.excludes = e] :
        n \in BOOLEAN, e \in {{}, {{"P"}}, {{"P", "Q"}}}}
    \cup {[Plain EXCEPT !.withUpdate = TRUE, !.exclusives = {"Q"}], Plain}

MCJobs ==
    {Job(<<m>>, FALSE, c) : m \in {"apt", "yum"}, c \in Configs}
    \cup {Job(<<"zypper">>, FALSE, c) : c \in ZypperConfigs}
    \cup {Job(<<"googet", "wua">>, FALSE, c) :
            c \in {Plain, Only, [Excluding EXCEPT !.narrow = TRUE], [Plain EXCEPT !.invalid = TRUE]}}
    \cup {Job(<<"googet", "wua">>, TRUE, Plain), Job(<<"apt", "yum", "zypper">>, TRUE, Plain)}
    \cup {Job(<<"yum", "zypper">>, FALSE, c) : c \in {Plain, [Plain EXCEPT !.invalid = TRUE]}}

MCMembers == [p \in Patches |-> IF p = "Q" THEN {"a", "b"} ELSE {"a"}]
=============================================================================
