----------------------------- MODULE MCScheduler ----------------------------
(***************************************************************************)
(* Instances of Scheduler for TLC.                                         *)
(***************************************************************************)
EXTENDS Scheduler, TLC

CONSTANTS s, c1, c2, w1, w2

(* The goroutines besides the scheduler, and the workers, are              *)
(* interchangeable.                                                        *)
Symmetry == Permutations(Actors \ {Sched}) \cup Permutations(Workers)
=============================================================================
