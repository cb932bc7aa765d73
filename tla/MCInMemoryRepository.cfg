\* Every operation, or Save and Load as well, with overlapping AddTask calls.
CONSTANTS
    None = None
    MaxTasks = 3
    MaxTime = 2
    Priorities = {0, 1}
    Uses <- MCUses
    CreationTimes = {1, 2}
    MaxWaiting = 2
SPECIFICATION Spec
\* When every task has ended no operation is left.
CHECK_DEADLOCK FALSE
INVARIANTS
    TypeOK
    StoreIsCoherent
    GetNextIsFirst
PROPERTIES
    ImplementsRepository
    LoadRestoresNext
