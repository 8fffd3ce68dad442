-------------------------- MODULE MCGuestPolicies --------------------------
(* Model-checking instance of GuestPolicies. *)
EXTENDS GuestPolicies

Pkg(n, m, w) == [name |-> n, manager |-> m, want |-> w]
Recipe(n, v, w) == [name |-> n, version |-> v, want |-> w]
Repo(m, i) == [manager |-> m, id |-> i]

\* Three policies of the service, which disagree about the packages and go to and
\* fro between versions of a recipe, and beside it ask for another one.
MCPolicies ==
    {[packages |-> {Pkg("p", "any", "updated")},
      repos |-> {Repo("yum", "r")},
      recipes |-> <<Recipe("a", <<1>>, "installed"), Recipe("b", <<>>, "installed")>>],
     [packages |-> {Pkg("p", "yum", "removed")},
      repos |-> {},
      recipes |-> <<Recipe("a", <<1, 1>>, "updated")>>],
     [packages |-> {Pkg("p", "apt", "installed")},
      repos |-> {},
      recipes |-> <<Recipe("a", <<1, 0>>, "updated")>>]}

\* The declaration: overridden in part, with a recipe version that cannot be
\* recorded. The lookup also meets no declaration at all, and half of this one.
MCLocals ==
    {[packages |-> {Pkg("p", "any", "removed")},
      repos |-> {Repo("yum", "r")},
      recipes |-> <<Recipe("a", <<2>>, "installed"),
                    Recipe("c", <<1, 0, 0, 0, 1>>, "installed")>>]}

MCManagers == <<"apt", "yum">>
=============================================================================
