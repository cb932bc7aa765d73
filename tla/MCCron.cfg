\* Two entries, edits that fail or succeed, and contexts that end anywhere.
CONSTANTS
    foo = foo
    foo2 = foo2
    bar = bar
    bad = bad
    None = None
    Entries = {foo, foo2, bar, bad}
    Key <- MCKey
    Period <- MCPeriod
    Bad = {bad}
    Shifts <- MCShifts
    Initial = {foo, bar}
    Replacement = {foo2}
    MaxAdded = 2
    MaxIssued = 5
    MaxTime = 2
SPECIFICATION Spec
\* At the bound on issued tasks nothing is left to do.
CHECK_DEADLOCK FALSE
INVARIANTS
    TypeOK
    NoneLostNoneTwice
    EveryEntryScheduled
    DispatchedIsRecorded
    KeepsTicking
PROPERTIES
    EditKeepsOthers
