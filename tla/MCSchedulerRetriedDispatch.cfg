\* MarkAsDispatched fails once and the caller retries the dispatch.
CONSTANTS
    s = s
    c1 = c1
    c2 = c2
    w1 = w1
    w2 = w2
    None = None
    Sched = s
    MaxTasks = 1
    MaxTime = 1
    Priorities = {0}
    Actors = {s, c1}
    Workers = {w1}
    ClientOps = {"AddTask"}
    RetryStates = {"dispatchErr"}
    CtxEnds = FALSE
    FaultSites = {"CoreMarkAsDispatched"}
    MaxFaults = 1
SPECIFICATION SchedSpec
\* When every task has ended and the timer is off, Step waits for ever.
CHECK_DEADLOCK FALSE
INVARIANTS
    CompletionRecorded
