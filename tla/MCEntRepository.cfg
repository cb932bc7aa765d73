\* Two dispatchers and a client over one table, across a crash at any
\* statement and either repair.
CONSTANTS
    d1 = d1
    d2 = d2
    c1 = c1
    None = None
    Dispatchers = {d1, d2}
    Clients = {c1}
    ClientCalls = {"AddTask", "UpdateById", "Cancel", "DeleteEnded"}
    Recovery = {"RevertDispatched", "CancelDispatched"}
    MaxCrashes = 1
    MaxTasks = 2
    MaxTime = 1
    Priorities = {0}
SPECIFICATION FairSpec
\* When every task has ended no statement is left to run.
CHECK_DEADLOCK FALSE
INVARIANTS
    TypeOK
    NilMeansDone
    RunsCostCrashes
    RunningIsDispatched
    NoneAbandoned
PROPERTIES
    EndedIsFinal
    
