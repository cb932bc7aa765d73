\* Two clients add a task each at the same time for the same time.
CONSTANTS
    s = s
    c1 = c1
    c2 = c2
    w1 = w1
    w2 = w2
    None = None
    Sched = s
    MaxTasks = 2
    MaxTime = 1
    Priorities = {0}
    Actors = {s, c1, c2}
    Workers = {w1}
    ClientOps = {"AddTask"}
    RetryStates = {}
    CtxEnds = FALSE
    FaultSites = {}
    MaxFaults = 0
SPECIFICATION FairSpec
\* When every task has ended and the timer is off, Step waits for ever.
CHECK_DEADLOCK FALSE
PROPERTIES
    EventuallyDispatched
