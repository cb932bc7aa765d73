\* A client cancels the task the timer just fired for.
CONSTANTS
    s = s
    c1 = c1
    c2 = c2
    w1 = w1
    w2 = w2
    None = None
    Sched = s
    MaxTasks = 2
    MaxTime = 2
    Priorities = {0}
    Actors = {s, c1}
    Workers = {w1}
    ClientOps = {"AddTask", "Cancel"}
    RetryStates = {}
    CtxEnds = FALSE
    FaultSites = {}
    MaxFaults = 0
SPECIFICATION SchedSpec
\* When every task has ended and the timer is off, Step waits for ever.
CHECK_DEADLOCK FALSE
INVARIANTS
    NotEarly
