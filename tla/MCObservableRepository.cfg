\* Two goroutines on a repository of two tasks, every operation, one failing
\* repository call.
CONSTANTS
    MaxTasks = 2
    MaxTime = 2
    Priorities = {0, 1}
    None = None
    Actors = {a1, a2}
    FaultSites = {"AddTask", "UpdateById", "Cancel", "MarkAsDispatched", "StartTimer"}
    MaxFaults = 1
SPECIFICATION Spec
SYMMETRY Symmetry
\* All tasks added, all done, the clock at its bound: nothing is left to do.
CHECK_DEADLOCK FALSE
INVARIANTS
    TypeOK
    NeverLate
    NothingForgotten
    TimerAgrees
