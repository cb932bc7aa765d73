------------------------- MODULE MCVolatileTaskRepo -------------------------
(***************************************************************************)
(* Instances of VolatileTaskRepo for TLC: three entries, two of which      *)
(* serialize to the same key, with different periods; the mutators of a    *)
(* fourth do not load.                                                     *)
(***************************************************************************)
EXTENDS VolatileTaskRepo

CONSTANTS foo, foo2, bar, bad

(* The times of bar are randomized. *)
MCShifts == [e \in Entries |-> IF e = bar THEN {-1, 0} ELSE {0}]

MCKey == [e \in Entries |-> IF e = foo2 THEN foo ELSE e]
MCPeriod == [e \in Entries |-> IF e = bar THEN 2 ELSE 1]
=============================================================================
