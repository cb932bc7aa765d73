\* One client with every operation, contexts that end, one failing call anywhere,
\* and a caller that retries everything but dispatch errors.
CONSTANTS
    s = s
    c1 = c1
    c2 = c2
    w1 = w1
    w2 = w2
    None = None
    Sched = s
    MaxTasks = 2
    MaxTime = 2
    Priorities = {0}
    Actors = {s, c1}
    Workers = {w1}
    ClientOps = {"AddTask", "UpdateById", "Cancel", "StartTimer", "StopTimer"}
    RetryStates = {"timerUpdateError", "taskDone"}
    CtxEnds = TRUE
    FaultSites = {"AddTask", "UpdateById", "Cancel", "MarkAsDispatched", "StartTimer",
                  "GetNext", "CoreMarkAsDispatched", "GetById", "MarkAsDone"}
    MaxFaults = 1
SPECIFICATION SchedSpec
\* When every task has ended and the timer is off, Step waits for ever.
CHECK_DEADLOCK FALSE
INVARIANTS
    SchedTypeOK
    AtMostOnce
    RunsOnlyDispatched
