------------------------------ MODULE MCHistory ------------------------------
(***************************************************************************)
(* Histories of two objects p1 and p2; m and c have none and may be        *)
(* children of them and of each other, m of c only in turn.                *)
(***************************************************************************)
EXTENDS History, TLC

CONSTANTS p1, p2, m, c

MCSizes     == {p1 :> None @@ p2 :> 1}
MCAdoptings == {{p1, m, c}}
MCPrograms  == {{}, {"move parents", "hold in turn"}, {"undo in batch"}}
MCLevel     == p1 :> 1 @@ p2 :> 1 @@ m :> 2 @@ c :> 3
MCMaxLeaves == [h \in MCPrograms |-> IF h = {} THEN 2 ELSE 1]
==============================================================================
