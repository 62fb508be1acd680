------------------------- MODULE MCSubjectObserver -------------------------
(***************************************************************************)
(* Instances of SubjectObserver for TLC.  The liveness run uses no         *)
(* symmetry.                                                               *)
(***************************************************************************)
EXTENDS SubjectObserver, TLC

Symmetry == Permutations(Observers)
=============================================================================
