---------------------------- MODULE MCHierarchy ----------------------------
(***************************************************************************)
(* Two kinds of programs: reactions that write anything, at any time, among *)
(* objects without data, and objects that mirror their children, with PRE  *)
(* reactions that write neither above nor below the object.                *)
(***************************************************************************)
EXTENDS Hierarchy, TLC

Rearranging == [objects |-> Objects, values |-> {DefaultValue}, mirroring |-> {},
                preWrites |-> {"below", "above"}]

MirroringAll == [objects |-> Objects \ Roots, values |-> Values, mirroring |-> Objects,
                 preWrites |-> {}]

MCPrograms == {Rearranging, MirroringAll}

\* Roots and others are told apart.
Symmetry == Permutations(Objects \ Roots)
=============================================================================
