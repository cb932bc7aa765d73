\* Two calls, one worker that comes and goes, abnormal ends, contexts that end
\* anywhere.
CONSTANTS
    d1 = d1
    d2 = d2
    w1 = w1
    None = None
    Calls = {d1, d2}
    Workers = {w1}
    Abnormal = TRUE
SPECIFICATION Spec
\* The calls are finite in number: when all have returned nothing is left to do.
CHECK_DEADLOCK FALSE
INVARIANTS
    TypeOK
PROPERTIES
    ImplementsDispatcher
    NobodyWaitsForEver
