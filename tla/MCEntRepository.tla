--------------------------- MODULE MCEntRepository --------------------------
(***************************************************************************)
(* The instance of EntRepository for TLC.  It is checked for liveness, so  *)
(* no symmetry is declared.                                                *)
(***************************************************************************)
EXTENDS EntRepository

CONSTANTS d1, d2, c1
=============================================================================
