----------------------------- MODULE ListObject -----------------------------
(***************************************************************************)
(* A ListObject (objetto/_objects/list.py): its four functions - insert,   *)
(* delete, update, move - with their undo and redo, the methods that call  *)
(* them, and the ListData it keeps.                                        *)
(*                                                                         *)
(* state is a sequence of values, data one of their data (empty without a  *)
(* data relationship), metadata the locations that were cached.            *)
(***************************************************************************)
EXTENDS ObjectStore

CONSTANTS
    Indices,     \* indices that methods are called with, and bounds of slices
    MaxLength,   \* bound: values of the list
    MaxShort     \* bound: values of a list that has a history when it is changed

INSTANCE ListOperations

ASSUME IndicesAssumption == Indices \subseteq Int /\ None \notin Int

ListStore(values) ==
    [state    |-> values,
     data     |-> IF relationship.data THEN [i \in DOMAIN values |-> DataOf(values[i])]
                  ELSE <<>>,
     metadata |-> [k \in Kids |->
                     IF IsChild(k) /\ Contains(values, k) THEN StateIndex(values, k)
                     ELSE None],
     children |-> ChildrenIn(ToSet(values))]

\* No child is held twice.
Distinct(values) ==
    \A i, j \in DOMAIN values : IsChild(values[i]) /\ values[i] = values[j] => i = j

NoLocations == [k \in Kids |-> None]

Fabricated(values) == [i \in DOMAIN values |-> DataOf(values[i])]

-----------------------------------------------------------------------------
(* insert                                                                  *)

InsertAllowed(s, values) ==
    /\ values # <<>>
    /\ Distinct(values)
    /\ Admits(s, {}, ChildrenIn(ToSet(values)))

\* ListData._insert
DataInserted(d, index, values) ==
    IF relationship.data THEN StateInserted(d, index, Fabricated(values)) ELSE d

\* (mutant) Only the new children's locations are known, the others stay.
LocationsKept(s, index, values) ==
    [k \in Kids |-> IF IsChild(k) /\ Contains(values, k)
                    THEN index + StateIndex(values, k) ELSE s.metadata[k]]

LocationsInserted(s, index, values) ==
    [k \in Kids |-> IF IsChild(k) /\ Contains(values, k)
                    THEN index + StateIndex(values, k) ELSE None]

Inserted(s, index, values) ==
    LET i == Clamped(Len(s.state), index)
    IN  [state    |-> StateInserted(s.state, i, values),
         data     |-> DataInserted(s.data, i, values),
         metadata |-> LocationsInserted(s, i, values),
         children |-> ChildrenAfter(s, {}, ChildrenIn(ToSet(values)))]

\* (mutant) The change stops where it starts.
ListInsertEmpty(s, index, values) ==
    LET i == Clamped(Len(s.state), index)
    IN  [type |-> "ListInsert", index |-> i, stop |-> i,
         new |-> values, from |-> s.state, to |-> Inserted(s, i, values).state]

ListInsert(s, index, values) ==
    LET i == Clamped(Len(s.state), index)
    IN  [type |-> "ListInsert", index |-> i, stop |-> i + Len(values),
         new |-> values, from |-> s.state, to |-> Inserted(s, i, values).state]

-----------------------------------------------------------------------------
(* delete                                                                  *)

DeleteAllowed(s, item) ==
    /\ Resolves(Len(s.state), item)
    /\ Span(Len(s.state), item).index < Span(Len(s.state), item).stop

\* ListData._delete
DataDeleted(d, item) == IF relationship.data THEN StateDeleted(d, item) ELSE d

Deleted(s, item) ==
    LET d == Span(Len(s.state), item)
        old == ToSet(Part(s.state, d.index, d.stop))
    IN  [state    |-> StateDeleted(s.state, item),
         data     |-> DataDeleted(s.data, item),
         metadata |-> NoLocations,
         children |-> ChildrenAfter(s, ChildrenIn(old), {})]

ListDelete(s, item) ==
    LET d == Span(Len(s.state), item)
    IN  [type |-> "ListDelete", index |-> d.index, stop |-> d.stop,
         old |-> Part(s.state, d.index, d.stop),
         from |-> s.state, to |-> Deleted(s, item).state]

-----------------------------------------------------------------------------
(* update                                                                  *)

\* A value that stays where it is is skipped, and so is its data.
Differing(old, values) ==
    [i \in {j \in DOMAIN values : values[j] # old[j]} |-> values[i]]

DataValues(old, values) ==
    LET f == Differing(old, values)
    IN  Fabricated([n \in 1..Cardinality(DOMAIN f) |->
                      f[CHOOSE i \in DOMAIN f :
                          Cardinality({j \in DOMAIN f : j <= i}) = n]])

OldValues(s, item) ==
    LET u == Span(Len(s.state), item) IN Part(s.state, u.index, u.stop)

Going(s, item, values) ==
    ChildrenIn({OldValues(s, item)[i] : i \in DOMAIN Differing(OldValues(s, item), values)})

Coming(s, item, values) ==
    LET f == Differing(OldValues(s, item), values) IN ChildrenIn({f[i] : i \in DOMAIN f})

\* Without a value that differs ListState.update raises for the data.
UpdateAllowed(s, item, values) ==
    /\ Resolves(Len(s.state), item)
    /\ Len(OldValues(s, item)) = Len(values) /\ values # <<>>
    /\ Distinct(values)
    /\ Admits(s, Going(s, item, values), Coming(s, item, values))
    /\ relationship.data => values # OldValues(s, item)

\* ListData._update
DataUpdated(d, index, values) ==
    IF relationship.data THEN StateUpdated(d, index, values) ELSE d

Updated(s, item, values) ==
    LET i == Span(Len(s.state), item).index
    IN  [state    |-> StateUpdated(s.state, i, values),
         data     |-> DataUpdated(s.data, i, DataValues(OldValues(s, item), values)),
         metadata |-> NoLocations,
         children |-> ChildrenAfter(s, Going(s, item, values), Coming(s, item, values))]

ListUpdate(s, item, values) ==
    LET u == Span(Len(s.state), item)
    IN  [type |-> "ListUpdate", index |-> u.index, stop |-> u.stop,
         old |-> OldValues(s, item), new |-> values,
         from |-> s.state, to |-> Updated(s, item, values).state]

-----------------------------------------------------------------------------
(* move                                                                    *)

\* The data are moved too, also where there are none.
MoveAllowed(s, item, target) ==
    /\ Resolves(Len(s.state), item)
    /\ ~ MovesNothing(Len(s.state), item, target)
    /\ Resolves(Len(s.data), item)

\* ListData._move
DataMoved(d, item, target) == StateMoved(d, item, target)

Moved(s, item, target) ==
    [s EXCEPT !.state = StateMoved(@, item, target),
              !.data = DataMoved(@, item, Clamped(Len(s.state), target)),
              !.metadata = NoLocations]

\* (mutant) What moves towards the end is not counted out.
ListMoveUncounted(s, item, target) ==
    LET m == PreMove(Len(s.state), item, target)
    IN  [type |-> "ListMove", index |-> m.index, stop |-> m.stop,
         target |-> m.target, post |-> m.target,
         post_stop |-> m.target + (m.stop - m.index),
         old |-> Part(s.state, m.index, m.stop),
         from |-> s.state, to |-> Moved(s, item, target).state]

ListMove(s, item, target) ==
    LET m == PreMove(Len(s.state), item, target)
    IN  [type |-> "ListMove", index |-> m.index, stop |-> m.stop,
         target |-> m.target, post |-> m.post,
         post_stop |-> m.post + (m.stop - m.index),
         old |-> Part(s.state, m.index, m.stop),
         from |-> s.state, to |-> Moved(s, item, target).state]

-----------------------------------------------------------------------------
(* Undo and redo.                                                          *)

ListUndoable(entry) ==
    LET c == entry[1] IN
    CASE c.type = "ListInsert" -> DeleteAllowed(store, Slice(c.index, c.stop))
      [] c.type = "ListDelete" -> InsertAllowed(store, c.old)
      [] c.type = "ListUpdate" -> UpdateAllowed(store, Slice(c.index, c.stop), c.old)
      [] c.type = "ListMove"   -> Resolves(Len(store.state), Slice(c.post, c.post_stop))

\* (mutant) Deleted values are put back at the end.
DeleteUndoneAtTheEnd(c) == Inserted(store, Len(store.state), c.old)

DeleteUndone(c) == Inserted(store, c.index, c.old)

\* The move back may have nothing to move.
MoveUndone(c) ==
    LET item == Slice(c.post, c.post_stop)
    IN  IF MoveAllowed(store, item, c.index) THEN Moved(store, item, c.index)
        ELSE store

ListUndone(c) ==
    CASE c.type = "ListInsert" -> Deleted(store, Slice(c.index, c.stop))
      [] c.type = "ListDelete" -> DeleteUndone(c)
      [] c.type = "ListUpdate" -> Updated(store, Slice(c.index, c.stop), c.old)
      [] c.type = "ListMove"   -> MoveUndone(c)

ListRedoable(entry) ==
    LET c == entry[1] IN
    CASE c.type = "ListInsert" -> InsertAllowed(store, c.new)
      [] c.type = "ListDelete" -> DeleteAllowed(store, Slice(c.index, c.stop))
      [] c.type = "ListUpdate" -> UpdateAllowed(store, Slice(c.index, c.stop), c.new)
      [] c.type = "ListMove"   -> MoveAllowed(store, Slice(c.index, c.stop), c.target)

MoveRedone(c) == Moved(store, Slice(c.index, c.stop), c.target)

ListRedone(c) ==
    CASE c.type = "ListInsert" -> Inserted(store, c.index, c.new)
      [] c.type = "ListDelete" -> Deleted(store, Slice(c.index, c.stop))
      [] c.type = "ListUpdate" -> Updated(store, Slice(c.index, c.stop), c.new)
      [] c.type = "ListMove"   -> MoveRedone(c)

-----------------------------------------------------------------------------
(* Methods of the list and of its proxy.                                   *)

InsertValues(index, values) ==
    /\ InsertAllowed(store, values)
    /\ Len(store.state) + Len(values) <= MaxLength
    /\ Record(Inserted(store, index, values), <<ListInsert(store, index, values)>>)

DeleteItem(item) ==
    /\ DeleteAllowed(store, item)
    /\ Record(Deleted(store, item), <<ListDelete(store, item)>>)

UpdateItem(item, values) ==
    /\ UpdateAllowed(store, item, values)
    /\ Record(Updated(store, item, values), <<ListUpdate(store, item, values)>>)

\* _append, _extend, __iadd__
Extend(values) == InsertValues(Len(store.state), values)

\* _remove
RemoveValue(v) ==
    /\ Contains(store.state, v)
    /\ DeleteItem(At(StateIndex(store.state, v)))

\* _clear
ClearList == DeleteItem(Slice(0, Len(store.state)))

\* pop
Pop(index) ==
    /\ InRange(Len(store.state), index)
    /\ DeleteItem(At(index))

\* _reverse
ReverseList ==
    UpdateItem(Slice(0, Len(store.state)), StateReversed(store.state))

\* _move
MoveItem(item, target) ==
    /\ MoveAllowed(store, item, target)
    /\ Record(Moved(store, item, target), <<ListMove(store, item, target)>>)

\* _update: several values need a slice of their length after the index.
UpdateFrom(index, values) ==
    LET item == Slice(index, index + Len(values))
    IN  IF Len(values) = 1 THEN UpdateItem(At(index), values)
        ELSE /\ Resolves(Len(store.state), item)
             /\ Len(OldValues(store, item)) = Len(values)
             /\ UpdateItem(item, values)

\* __setitem__ of a slice; the proxy's, which needs as many values, does no more.
SetSlice(item, values) ==
    /\ item.slice /\ Resolves(Len(store.state), item)
    /\ UpdateFrom(Span(Len(store.state), item).index, values)

\* _locate, for anybody who asks where a child is: the answer is kept.
Locate(k) ==
    /\ k \in store.children /\ store.metadata[k] = None
    /\ store' = [store EXCEPT !.metadata[k] = StateIndex(store.state, k)]
    /\ UNCHANGED <<fixed, versions, done, undone>>

ListLocation(s, k) ==
    IF s.metadata[k] # None THEN s.metadata[k] ELSE StateIndex(s.state, k)

\* replace_child_data, at _locate_data of the child, which is kept.
ListChildReplaced(k) ==
    IF k \notin store.children \/ ~ relationship.data THEN store
    ELSE [store EXCEPT
            !.data = StateUpdated(@, ListLocation(store, k), <<NewDataOf(k)>>),
            !.metadata[k] = ListLocation(store, k)]

-----------------------------------------------------------------------------
Lists(n)   == {vs \in UNION {[1..m -> Values] : m \in 0..n} : Distinct(vs)}
SomeValues == Lists(2) \ {<<>>}

ListInit == \E vs \in Lists(MaxLength) : store = ListStore(vs)

\* What a program may call, of the list or of its proxy; where a slice that is
\* set stops is not used.
ListCalls ==
    \/ \E i \in Indices, vs \in SomeValues : InsertValues(i, vs)
    \/ \E vs \in SomeValues : Extend(vs)
    \/ \E item \in Items(Indices) : DeleteItem(item)
    \/ \E v \in Values : RemoveValue(v)
    \/ ClearList
    \/ \E i \in Indices : Pop(i)
    \/ ReverseList
    \/ \E item \in Items(Indices), t \in Indices : MoveItem(item, t)
    \/ \E i \in Indices, vs \in SomeValues : UpdateFrom(i, vs)
    \/ \E i \in Indices \cup {None}, vs \in SomeValues : SetSlice(Slice(i, None), vs)

ListNext ==
    \/ /\ MayChange
       /\ Len(done) + Len(undone) > 0 => Len(store.state) <= MaxShort
       /\ ListCalls
    \/ \E k \in Kids : Locate(k)
    \/ \E k \in Kids : ChildChanges(k, ListChildReplaced(k))
    \/ done # <<>> /\ ListUndoable(Last(done)) /\ UndoTo(ListUndone(Last(done)[1]))
    \/ undone # <<>> /\ ListRedoable(Last(undone)) /\ RedoTo(ListRedone(Last(undone)[1]))

-----------------------------------------------------------------------------
(* What the properties of Objects say of lists.                            *)

ListDataExact(s) ==
    s.data = IF relationship.data THEN Fabricated(s.state) ELSE <<>>

ListLocationsExact(s) ==
    \A k \in Kids : s.metadata[k] # None => s.state[s.metadata[k] + 1] = k

ListHolds(s) == ToSet(s.state)

\* The change tells where the moved, new and old values are: whoever applies it
\* to the list as it was, gets the list as it is.
ListReplays(c) ==
    LET n == c.stop - c.index
    IN  CASE c.type = "ListInsert" ->
               /\ Part(c.to, c.index, c.stop) = c.new
               /\ Part(c.to, 0, c.index) \o Part(c.to, c.stop, Len(c.to)) = c.from
          [] c.type = "ListDelete" ->
               /\ Part(c.from, c.index, c.stop) = c.old
               /\ Part(c.from, 0, c.index) \o Part(c.from, c.stop, Len(c.from)) = c.to
          [] c.type = "ListUpdate" ->
               /\ Len(c.from) = Len(c.to)
               /\ Part(c.from, c.index, c.stop) = c.old
               /\ Part(c.to, c.index, c.stop) = c.new
               /\ \A i \in DOMAIN c.from \ ((c.index + 1)..c.stop) : c.from[i] = c.to[i]
          [] c.type = "ListMove" ->
               /\ Part(c.from, c.index, c.stop) = c.old
               /\ c.post_stop <= Len(c.to)
               /\ Part(c.to, c.post, c.post_stop) = c.old
               /\ Part(c.from, 0, c.index) \o Part(c.from, c.stop, Len(c.from)) =
                  Part(c.to, 0, c.post) \o Part(c.to, c.post_stop, Len(c.to))
               /\ c.target < Len(c.from) =>
                    c.post_stop = IF c.target < c.index THEN c.target + n ELSE c.target

\* A move towards the start: undo moves it back before the index it had.
MovedToTheStart(entry) ==
    LET c == entry[1] IN c.type = "ListMove" /\ c.target < c.index

\* Of the values an update replaces, in whichever list, one that stays is before
\* one that does not: the data move up.
SkipsData(entry) ==
    LET c   == entry[1]
        old == Part(store.state, c.index, c.stop)
        new == Part(store'.state, c.index, c.stop)
    IN  /\ c.type = "ListUpdate" /\ relationship.data
        /\ \E i, j \in DOMAIN new : i < j /\ new[i] = old[i] /\ new[j] # old[j]
=============================================================================
