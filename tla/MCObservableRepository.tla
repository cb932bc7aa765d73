------------------------ MODULE MCObservableRepository ----------------------
(***************************************************************************)
(* Instances of ObservableRepository for TLC.  Actors only ever compare    *)
(* for equality, so they are interchangeable.                              *)
(***************************************************************************)
EXTENDS ObservableRepository, TLC

Symmetry == Permutations(Actors)
=============================================================================
