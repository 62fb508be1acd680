------------------------------ MODULE UndoStack ------------------------------
(***************************************************************************)
(* What histories promise: each has entries that can be undone and entries *)
(* that can be redone.  Something new is undone first, and nothing can be  *)
(* redone after it; the oldest entries may be forgotten.                   *)
(***************************************************************************)
EXTENDS Sequences, SequencesExt

CONSTANT Histories

VARIABLES
    past,     \* per history, entries that can be undone, last one last
    future    \* per history, entries that can be redone, next one first

Init == past = [h \in Histories |-> <<>>] /\ future = [h \in Histories |-> <<>>]

\* A new entry, after which an old one may be forgotten.
Do(h) ==
    /\ past'[h] # <<>>
    /\ \/ Front(past'[h]) = past[h]
       \/ past[h] # <<>> /\ past'[h] = Append(Tail(past[h]), Last(past'[h]))
    /\ future'[h] = <<>>

\* The last entry is still open, and one change longer, if not closed by it.
Extend(h) ==
    /\ past[h] # <<>> /\ ~ Last(past[h]).closed /\ past'[h] # <<>>
    /\ Front(past'[h]) = Front(past[h])
    /\ Front(Last(past'[h]).changes) = Last(past[h]).changes
    /\ future'[h] = <<>>

\* The newest entry gets closed, wherever it is.
Close(h) ==
    LET all == past[h] \o future[h]
    IN  /\ all # <<>> /\ ~ Last(all).closed
        /\ Len(past'[h]) = Len(past[h])
        /\ past'[h] \o future'[h] = Append(Front(all), [Last(all) EXCEPT !.closed = TRUE])

\* Undo and redo, of one entry or several, or nothing.
Move(h) == past'[h] \o future'[h] = past[h] \o future[h]

ForgetFuture(h) == past'[h] = past[h] /\ future'[h] = <<>>
ForgetAll(h)    == past'[h] = <<>> /\ future'[h] = <<>>

Next ==
    \A h \in Histories :
      Do(h) \/ Extend(h) \/ Close(h) \/ Move(h) \/ ForgetFuture(h) \/ ForgetAll(h)

Spec == Init /\ [][Next]_<<past, future>>
=============================================================================
