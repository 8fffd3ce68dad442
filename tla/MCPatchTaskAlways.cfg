CONSTANTS
    Tasks = {"always"}
    RebootConfig <- MCRebootConfig
    DryRun <- MCDryRun
    RebootLimit = 5
    NoTask = NoTask
SPECIFICATION Spec
INVARIANT AlwaysReboots
CHECK_DEADLOCK FALSE
