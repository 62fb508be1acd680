----------------------------- MODULE MCReactions -----------------------------
(***************************************************************************)
(* Three children with three names; the incrementer counts on and fails at *)
(* the last name.                                                          *)
(***************************************************************************)
EXTENDS Reactions, TLC

MCIncremented == 0 :> 1 @@ 1 :> 2 @@ 2 :> None
MCLimits      == {<<1, 2>>, <<2, 3>>}
MCPrograms    == {{}, {"child before", "newcomer before"}} \cup {{habit} : habit \in Habits}

\* Every state that a program with no habits gets to is one call from the start.
MCMaxCalls == [habits \in MCPrograms |-> IF habits \subseteq {"child before", "child after"} THEN 3
                                         ELSE 2]
==============================================================================
