CONSTANTS
    Tasks = {"always", "dry"}
    RebootConfig <- MCRebootConfig
    DryRun <- MCDryRun
    RebootLimit = 5
    NoTask = NoTask
SPECIFICATION FairSpec
INVARIANTS
    RebootBound
    StateFileCurrent
    SuccessIsReal
    ReworkOnlyIfStale
 
CHECK_DEADLOCK FALSE
