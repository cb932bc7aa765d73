\* Any calls on up to two tasks, and the acceptance tests.
CONSTANTS
    None = None
    Nil = Nil
    Null = Null
    Durations <- MCDurations
    DurationBits = 4
    Scripts <- TestRepository
    AddParams <- MCAddParams
    UpdateParams <- MCUpdateParams
    Queries <- MCQueries
    MaxCalls = 5
    MaxClock = 4
SPECIFICATION Spec
\* A script ends.
CHECK_DEADLOCK FALSE
INVARIANTS
    SameRows
    ReadsAgree
    AnswersAgree
    AsAccepted
    ShiftStaysInRange
