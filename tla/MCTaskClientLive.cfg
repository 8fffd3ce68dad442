CONSTANTS
    Clients = {c1}
    Callers <- MCCallers
    Tasks <- MCTasks
    NoTask = NoTask
    NoClient = NoClient
    Free = Free
    MaxErrs = 2
SPECIFICATION FairSpec
PROPERTY NotificationServed
CHECK_DEADLOCK FALSE
