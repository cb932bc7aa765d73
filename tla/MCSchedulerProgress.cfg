\* One client that adds and cancels tasks; one of the repository calls of the
\* scheduler fails; a failed MarkAsDone is retried.
CONSTANTS
    s = s
    c1 = c1
    c2 = c2
    w1 = w1
    w2 = w2
    None = None
    Sched = s
    MaxTasks = 2
    MaxTime = 2
    Priorities = {0, 1}
    Actors = {s, c1}
    Workers = {w1, w2}
    ClientOps = {"AddTask", "Cancel"}
    RetryStates = {"taskDone"}
    CtxEnds = FALSE
    FaultSites = {"GetNext", "StartTimer", "MarkAsDispatched", "MarkAsDone"}
    MaxFaults = 1
SPECIFICATION FairSpec
\* When every task has ended and the timer is off, Step waits for ever.
CHECK_DEADLOCK FALSE
INVARIANTS
    NoLostWakeup
    NeverLost
    CompletionRecorded
PROPERTIES
    EventuallyDispatched
    EventuallyRecorded
