---------------------------- MODULE Transactions ----------------------------
(***************************************************************************)
(* What an application promises about its contents: one committed map from *)
(* objects to values, changed by one transaction at a time.  A transaction *)
(* is a stack of savepoints; leaving a level keeps or discards what was    *)
(* done since its savepoint, and only keeping the outermost level reaches  *)
(* the committed map, all at once.  Application.tla implements this with   *)
(* its list of commits.                                                    *)
(***************************************************************************)
EXTENDS Naturals, Sequences

CONSTANTS Objects, Values, NoStore

VARIABLES
    db,       \* the committed contents
    saves,    \* the contents at the start of each open level, outermost first
    cur       \* the contents the transaction sees (db when none is open)

tvars == <<db, saves, cur>>

Contents == [Objects -> Values \cup {NoStore}]

TTypeOK ==
    /\ db \in Contents
    /\ cur \in Contents
    /\ saves \in Seq(Contents)

TInit ==
    /\ db = [o \in Objects |-> NoStore]
    /\ cur = db
    /\ saves = <<>>

Savepoint == saves[Len(saves)]

TBegin ==
    /\ saves' = Append(saves, cur)
    /\ UNCHANGED <<db, cur>>

\* An object is created with a value or has its value replaced; it never goes.
TUpdate(o, v) ==
    /\ saves # <<>>
    /\ cur' = [cur EXCEPT ![o] = v]
    /\ UNCHANGED <<db, saves>>

TKeep ==
    /\ saves # <<>>
    /\ saves' = SubSeq(saves, 1, Len(saves) - 1)
    /\ db' = IF Len(saves) = 1 THEN cur ELSE db
    /\ UNCHANGED cur

\* Back to the savepoint, the level staying open (a rejected change).
TRollback ==
    /\ saves # <<>>
    /\ cur' = Savepoint
    /\ UNCHANGED <<db, saves>>

TDiscard ==
    /\ saves # <<>>
    /\ cur' = Savepoint
    /\ saves' = SubSeq(saves, 1, Len(saves) - 1)
    /\ UNCHANGED db

TNext ==
    \/ TBegin
    \/ \E o \in Objects, v \in Values : TUpdate(o, v)
    \/ TKeep
    \/ TRollback
    \/ TDiscard

TSpec == TInit /\ [][TNext]_tvars
=============================================================================
