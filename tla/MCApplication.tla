--------------------------- MODULE MCApplication ---------------------------
(***************************************************************************)
(* Instances of Application for TLC.                                       *)
(***************************************************************************)
EXTENDS ApplicationProperties, TLC

Symmetry == Permutations(Threads) \cup Permutations(Values)
              \cup Permutations(Objects \ Histories) \cup Permutations(Histories)
=============================================================================
