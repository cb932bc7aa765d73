\* Two clients that add tasks, contexts that end, two failing calls, and a caller
\* that retries every error state.
CONSTANTS
    s = s
    c1 = c1
    c2 = c2
    w1 = w1
    w2 = w2
    None = None
    Sched = s
    MaxTasks = 2
    MaxTime = 2
    Priorities = {0}
    Actors = {s, c1, c2}
    Workers = {w1}
    ClientOps = {"AddTask"}
    RetryStates = {"timerUpdateError", "dispatchErr", "taskDone"}
    CtxEnds = TRUE
    FaultSites = {"AddTask", "StartTimer", "GetNext", "CoreMarkAsDispatched", "MarkAsDispatched",
                  "GetById", "MarkAsDone"}
    MaxFaults = 2
SPECIFICATION SchedSpec
SYMMETRY Symmetry
\* When every task has ended and the timer is off, Step waits for ever.
CHECK_DEADLOCK FALSE
INVARIANTS
    RecordedOutcome
    NotEarly
