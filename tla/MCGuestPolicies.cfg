CONSTANTS
    Managers <- MCManagers
    Names = {"p"}
    Policies <- MCPolicies
    Locals <- MCLocals
    MaxTries = 1
SPECIFICATION FairSpec
INVARIANTS
    PolicyHolds
PROPERTIES
    RecipeRunsOnce
    DatabaseGrows
    RecipeSettles
