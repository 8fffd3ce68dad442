CONSTANTS
    Clients = {c1, c2}
    Callers <- MCCallers
    Tasks <- MCTasks
    NoTask = NoTask
    NoClient = NoClient
    Free = Free
    MaxErrs = 2
SPECIFICATION Spec
INVARIANTS
    NotificationNotLost
    NotClosedUnderTask
    OneOpenWatcher
    ResumeFirst
SYMMETRY MCSymmetry
CHECK_DEADLOCK FALSE
