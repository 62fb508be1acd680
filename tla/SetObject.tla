----------------------------- MODULE SetObject ------------------------------
(***************************************************************************)
(* A SetObject (objetto/_objects/set.py): its two functions - update and   *)
(* remove - with their undo and redo, the methods that call them, and the  *)
(* SetData it keeps.                                                       *)
(*                                                                         *)
(* state is a set of values, data the set of their data, metadata the data *)
(* map, which tells what data a value has in there.                        *)
(***************************************************************************)
EXTENDS ObjectStore

CONSTANT Described   \* kids whose class has a unique descriptor

NoDataMap == [v \in Values |-> None]

EmptySet == [state |-> {}, data |-> {}, metadata |-> NoDataMap, children |-> {}]

-----------------------------------------------------------------------------
(* update                                                                  *)

\* Data of children is told apart by their unique descriptor.
AddAllowed(s, values) ==
    /\ values # {}
    /\ Admits(s, {}, ChildrenIn(values))
    /\ relationship.data => ChildrenIn(values) \subseteq Described

DataMapAdded(s, values) ==
    [v \in Values |-> IF relationship.data /\ v \in values THEN DataOf(v)
                      ELSE s.metadata[v]]

\* SetData._add
DataAdded(d, values) ==
    IF relationship.data THEN d \cup {DataOf(v) : v \in values} ELSE d

Added(s, values) ==
    [state    |-> s.state \cup values,
     data     |-> DataAdded(s.data, values),
     metadata |-> DataMapAdded(s, values),
     children |-> ChildrenAfter(s, {}, ChildrenIn(values))]

SetUpdate(s, values) ==
    [type |-> "SetUpdate", new |-> values, from |-> s.state,
     to |-> Added(s, values).state]

-----------------------------------------------------------------------------
(* remove                                                                  *)

TakeAllowed(s, values) ==
    /\ values # {}
    /\ values \subseteq s.state
    /\ Admits(s, ChildrenIn(values), {})
    /\ relationship.data => \A v \in values : s.metadata[v] # None

\* SetData._remove
DataTaken(s, values) ==
    IF relationship.data THEN s.data \ {s.metadata[v] : v \in values} ELSE s.data

Taken(s, values) ==
    [state    |-> s.state \ values,
     data     |-> DataTaken(s, values),
     metadata |-> [v \in Values |-> IF v \in values THEN None ELSE s.metadata[v]],
     children |-> ChildrenAfter(s, ChildrenIn(values), {})]

SetRemove(s, values) ==
    [type |-> "SetRemove", old |-> values, from |-> s.state,
     to |-> Taken(s, values).state]

-----------------------------------------------------------------------------
(* Undo and redo of what the history undoes at once: a change, or the two  *)
(* of a replacement.                                                       *)

SetUndoneAllowed(s, c) ==
    IF c.type = "SetUpdate" THEN TakeAllowed(s, c.new) ELSE AddAllowed(s, c.old)

RemovalUndone(s, c) == Added(s, c.old)

SetUndone(s, c) ==
    IF c.type = "SetUpdate" THEN Taken(s, c.new) ELSE RemovalUndone(s, c)

SetRedoneAllowed(s, c) ==
    IF c.type = "SetUpdate" THEN AddAllowed(s, c.new) ELSE TakeAllowed(s, c.old)

SetRedone(s, c) ==
    IF c.type = "SetUpdate" THEN Added(s, c.new) ELSE Taken(s, c.old)

SetUndoable(entry) ==
    /\ SetUndoneAllowed(store, Last(entry))
    /\ Len(entry) = 2 => SetUndoneAllowed(SetUndone(store, entry[2]), entry[1])

SetEntryUndone(entry) ==
    IF Len(entry) = 2 THEN SetUndone(SetUndone(store, entry[2]), entry[1])
    ELSE SetUndone(store, entry[1])

SetRedoable(entry) ==
    /\ SetRedoneAllowed(store, entry[1])
    /\ Len(entry) = 2 => SetRedoneAllowed(SetRedone(store, entry[1]), entry[2])

SetEntryRedone(entry) ==
    IF Len(entry) = 2 THEN SetRedone(SetRedone(store, entry[1]), entry[2])
    ELSE SetRedone(store, entry[1])

-----------------------------------------------------------------------------
(* Methods of the set and of its proxy.                                    *)

\* _update, _add, |=
AddValues(values) ==
    /\ AddAllowed(store, values)
    /\ Record(Added(store, values), <<SetUpdate(store, values)>>)

\* _remove, pop
RemoveValues(values) ==
    /\ TakeAllowed(store, values)
    /\ Record(Taken(store, values), <<SetRemove(store, values)>>)

\* _clear
ClearSet == RemoveValues(store.state)

\* _discard
DiscardValues(values) == RemoveValues(store.state \cap values)

\* intersection_update, &=
IntersectionUpdate(values) == RemoveValues(store.state \ values)

\* difference_update
DifferenceUpdate(values) == RemoveValues(store.state \cap values)

\* symmetric_difference_update, ^=: two changes, unless one has no values.
SymmetricDifferenceUpdate(values) ==
    LET coming  == values \ store.state
        leaving == store.state \cap values
        added   == Added(store, coming)
    IN  \/ leaving = {} /\ AddValues(coming)
        \/ coming = {} /\ RemoveValues(leaving)
        \/ /\ AddAllowed(store, coming) /\ TakeAllowed(added, leaving)
           /\ Len(done) + Len(undone) + 1 < MaxChanges[kind]
           /\ store' = Taken(added, leaving)
           /\ done' = done \o << <<SetUpdate(store, coming)>>,
                                 <<SetRemove(added, leaving)>> >>
           /\ undone' = <<>>
           /\ UNCHANGED <<fixed, versions>>

\* _replace: a batch.
Replace(v, w) ==
    LET taken == Taken(store, {v})
    IN  /\ TakeAllowed(store, {v})
        /\ AddAllowed(taken, {w})
        /\ Record(Added(taken, {w}), <<SetRemove(store, {v}), SetUpdate(taken, {w})>>)

\* replace_child_data, at _locate_data of the child.
SetChildReplaced(k) ==
    IF k \notin store.children \/ ~ relationship.data THEN store
    ELSE [store EXCEPT !.data = (@ \ {store.metadata[k]}) \cup {NewDataOf(k)},
                       !.metadata[k] = NewDataOf(k)]

-----------------------------------------------------------------------------
SetInit == \E vs \in SUBSET Values :
              /\ vs # {} => AddAllowed(EmptySet, vs)
              /\ store = IF vs = {} THEN EmptySet ELSE Added(EmptySet, vs)

SetCalls ==
    \/ \E vs \in SUBSET Values : AddValues(vs)
    \/ \E vs \in SUBSET Values : RemoveValues(vs)
    \/ ClearSet
    \/ \E vs \in SUBSET Values : DiscardValues(vs)
    \/ \E vs \in SUBSET Values : IntersectionUpdate(vs)
    \/ \E vs \in SUBSET Values : DifferenceUpdate(vs)
    \/ \E vs \in SUBSET Values : SymmetricDifferenceUpdate(vs)
    \/ \E v, w \in Values : Replace(v, w)

SetNext ==
    \/ MayChange /\ SetCalls
    \/ \E k \in Kids : ChildChanges(k, SetChildReplaced(k))
    \/ done # <<>> /\ SetUndoable(Last(done)) /\ UndoTo(SetEntryUndone(Last(done)))
    \/ undone # <<>> /\ SetRedoable(Last(undone)) /\ RedoTo(SetEntryRedone(Last(undone)))

-----------------------------------------------------------------------------
(* What the properties of Objects say of sets.                             *)

SetDataExact(s) ==
    s.data = IF relationship.data THEN {DataOf(v) : v \in s.state} ELSE {}

\* The data map is the one of the values held.
SetLocationsExact(s) ==
    \A v \in Values : (s.metadata[v] # None) <=> (relationship.data /\ v \in s.state)

SetHolds(s) == s.state

SetReplays(c) ==
    CASE c.type = "SetUpdate" -> c.to = c.from \cup c.new
      [] c.type = "SetRemove" -> c.old \subseteq c.from /\ c.to = c.from \ c.old

\* Values that are held already are added again: undo removes them.
AddsHeld(entry) ==
    \E i \in DOMAIN entry : /\ entry[i].type = "SetUpdate"
                            /\ entry[i].new \cap entry[i].from # {}
=============================================================================
