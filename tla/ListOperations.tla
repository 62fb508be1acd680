--------------------------- MODULE ListOperations ---------------------------
(***************************************************************************)
(* Indices and slices of lists (objetto/utils/list_operations.py) and what *)
(* the immutable ListState (objetto/_states/list.py) does at them.         *)
(*                                                                         *)
(* Indices are Python's: they start at 0 and count from the end when       *)
(* negative.  An item is an index or a slice, whose bounds may be None; a  *)
(* slice with a step is refused like one that ends before it starts.       *)
(***************************************************************************)
EXTENDS Integers, Sequences, SequencesExt

CONSTANT None   \* Python's None

At(i)          == [slice |-> FALSE, start |-> i, stop |-> None]
Slice(i, j)    == [slice |-> TRUE, start |-> i, stop |-> j]
Items(indices) == {At(i) : i \in indices} \cup
                  {Slice(i, j) : i, j \in indices \cup {None}}

FromEnd(length, index) == IF index < 0 THEN index + length ELSE index

InRange(length, index) == FromEnd(length, index) \in 0..(length - 1)

\* resolve_index(length, index, clamp=True)
Clamped(length, index) ==
    LET i == FromEnd(length, index)
    IN  IF i < 0 THEN 0 ELSE IF i > length THEN length ELSE i

\* slice.indices(length), without a step.
Bounds(length, item) ==
    [index |-> IF item.start = None THEN 0 ELSE Clamped(length, item.start),
     stop  |-> IF item.stop = None THEN length ELSE Clamped(length, item.stop)]

Continuous(length, item) ==
    Bounds(length, item).index <= Bounds(length, item).stop

\* Whether an item is one of a list of that length, or an IndexError.
Resolves(length, item) == IF item.slice THEN Continuous(length, item)
                          ELSE InRange(length, item.start)

Span(length, item) ==
    IF item.slice THEN Bounds(length, item)
    ELSE [index |-> FromEnd(length, item.start),
          stop  |-> FromEnd(length, item.start) + 1]

PreMove(length, item, target) ==
    LET s == Span(length, item)
        t == Clamped(length, target)
    IN  [index |-> s.index, stop |-> s.stop, target |-> t,
         post |-> IF t > s.stop THEN t - (s.stop - s.index) ELSE t]

\* pre_move returns None: an empty slice, or moved to where it is.
MovesNothing(length, item, target) ==
    LET m == PreMove(length, item, target)
    IN  m.index = m.stop \/ m.target \in m.index..m.stop

-----------------------------------------------------------------------------
(* ListState.                                                              *)

\* s[i:j], for indices that are resolved.
Part(s, i, j) == SubSeq(s, i + 1, j)

StateInserted(s, index, values) ==
    LET i == Clamped(Len(s), index)
    IN  Part(s, 0, i) \o values \o Part(s, i, Len(s))

StateDeleted(s, item) ==
    LET d == Span(Len(s), item)
    IN  Part(s, 0, d.index) \o Part(s, d.stop, Len(s))

StateUpdated(s, index, values) ==
    LET i == FromEnd(Len(s), index)
    IN  Part(s, 0, i) \o values \o Part(s, i + Len(values), Len(s))

StateMoved(s, item, target) ==
    IF MovesNothing(Len(s), item, target) THEN s
    ELSE LET m    == PreMove(Len(s), item, target)
             rest == StateDeleted(s, item)
         IN  Part(rest, 0, m.post) \o Part(s, m.index, m.stop)
             \o Part(rest, m.post, Len(rest))

StateReversed(s) == Reverse(s)

\* index(value): that of the first one.
StateIndex(s, value) == SelectInSeq(s, LAMBDA v : v = value) - 1
=============================================================================
