CONSTANTS
    Callers = {c1, c2, c3}
    Tasks = {t1, t2}
    NoTask = NoTask
    NoCaller = NoCaller
SPECIFICATION FairSpec
INVARIANTS
    NoSendOnClosed
    CloseDrains
PROPERTIES
    BlocksAfterClose
    EnqueueTaken
    CloseReturns
    ImplementsTaskQueue
CHECK_DEADLOCK FALSE
