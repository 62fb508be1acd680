----------------------------- MODULE DictObject -----------------------------
(***************************************************************************)
(* A DictObject (objetto/_objects/dict.py): update with its undo and redo, *)
(* the methods that call it, and the DictData it keeps.                    *)
(*                                                                         *)
(* state and data are functions on the keys (None: the key is not there),  *)
(* metadata the locations of the children.  The items of an update are a   *)
(* sequence of [key, value] with different keys, in the order of the dict  *)
(* they come in; the value None stands for DELETED.                        *)
(***************************************************************************)
EXTENDS ObjectStore

CONSTANT Keys

ASSUME KeysAssumption == IsFiniteSet(Keys) /\ None \notin Keys

EmptyDict == [state |-> [k \in Keys |-> None], data |-> [k \in Keys |-> None],
              metadata |-> [c \in Kids |-> None], children |-> {}]

\* Items that change something; the others are skipped.
Effective(s, items) ==
    LET some[n \in 0..Len(items)] ==
          IF n = 0 THEN <<>>
          ELSE IF items[n].value # s.state[items[n].key] THEN Append(some[n - 1], items[n])
          ELSE some[n - 1]
    IN  some[Len(items)]

ItemsPut(s, items)  == ChildrenIn({items[i].value : i \in DOMAIN items})
ItemsGone(s, items) == ChildrenIn({s.state[items[i].key] : i \in DOMAIN items})

DictStateAfter(s, items) ==
    [k \in Keys |-> IF \E i \in DOMAIN items : items[i].key = k
                    THEN (CHOOSE i \in ToSet(items) : i.key = k).value
                    ELSE s.state[k]]

\* DictData._set, _remove
DictDataAfter(s, items) ==
    [k \in Keys |-> IF relationship.data /\ \E i \in DOMAIN items : items[i].key = k
                    THEN LET v == DictStateAfter(s, items)[k]
                         IN  IF v = None THEN None ELSE DataOf(v)
                    ELSE s.data[k]]

\* One item: the old value's location is removed, the new one's is set.
DictLocationAfter(locations, s, item) ==
    LET old   == s.state[item.key]
        freed == IF IsChild(old) THEN [locations EXCEPT ![old] = None] ELSE locations
    IN  IF IsChild(item.value) THEN [freed EXCEPT ![item.value] = item.key] ELSE freed

\* Locations after the first n items.
DictLocationsAfter(s, items) ==
    LET after[n \in 0..Len(items)] ==
          IF n = 0 THEN s.metadata ELSE DictLocationAfter(after[n - 1], s, items[n])
    IN  after

\* Removing the location of a child that has none is a KeyError.
Removable(s, items) ==
    \A n \in DOMAIN items :
        IsChild(s.state[items[n].key]) =>
            DictLocationsAfter(s, items)[n - 1][s.state[items[n].key]] # None

NoChildTwice(state) ==
    \A k, l \in Keys : IsChild(state[k]) /\ state[k] = state[l] => k = l

PutAllowed(s, items) ==
    LET some == Effective(s, items)
    IN  /\ items # <<>>
        /\ \A i \in DOMAIN items : items[i].value = None => s.state[items[i].key] # None
        /\ Removable(s, some)
        /\ NoChildTwice(DictStateAfter(s, some))
        /\ Admits(s, ItemsGone(s, some), ItemsPut(s, some))

PutAll(s, items) ==
    LET some == Effective(s, items)
    IN  [state    |-> DictStateAfter(s, some),
         data     |-> DictDataAfter(s, some),
         metadata |-> DictLocationsAfter(s, some)[Len(some)],
         children |-> ChildrenAfter(s, ItemsGone(s, some), ItemsPut(s, some))]

OldItems(s, items) ==
    [i \in DOMAIN items |-> [key |-> items[i].key, value |-> s.state[items[i].key]]]

DictUpdate(s, items) ==
    [type |-> "DictUpdate", new |-> items, old |-> OldItems(s, Effective(s, items)),
     from |-> s.state, to |-> PutAll(s, items).state]

\* Undo and redo; without items there is nothing to do.
DictUndoable(entry)   == entry[1].old = <<>> \/ PutAllowed(store, entry[1].old)
DictUndone(entry)     == PutAll(store, entry[1].old)
DictRedoable(entry)   == PutAllowed(store, entry[1].new)
DictRedone(entry)     == PutAll(store, entry[1].new)

-----------------------------------------------------------------------------
(* Methods of the dict and of its proxy.                                   *)

\* _update
UpdateItems(items) ==
    /\ PutAllowed(store, items)
    /\ Record(PutAll(store, items), <<DictUpdate(store, items)>>)

\* _set
SetKey(k, v) == UpdateItems(<<[key |-> k, value |-> v]>>)

\* _remove, and the proxy's _discard
RemoveKey(k) == SetKey(k, None)

\* _discard, pop and popitem
DiscardKey(k) == store.state[k] # None /\ RemoveKey(k)

\* setdefault
SetDefault(k, v) == store.state[k] = None /\ SetKey(k, v)

\* _clear
ClearDict ==
    \E keys \in SetToSeqs({k \in Keys : store.state[k] # None}) :
        UpdateItems([i \in DOMAIN keys |-> [key |-> keys[i], value |-> None]])

\* replace_child_data, at _locate_data of the child.
DictLocated(k) == store.metadata[k] # None

DictChildReplaced(k) ==
    IF k \notin store.children \/ ~ relationship.data THEN store
    ELSE [store EXCEPT !.data[store.metadata[k]] = NewDataOf(k)]

-----------------------------------------------------------------------------
DictItems == {items \in UNION {[1..n -> [key : Keys, value : Values \cup {None}]] : n \in 1..2} :
             Len(items) = 2 => items[1].key # items[2].key}

DictItemsOf(state, keys) == [i \in DOMAIN keys |-> [key |-> keys[i], value |-> state[keys[i]]]]

DictInit ==
    \E state \in [Keys -> Values \cup {None}] :
        /\ NoChildTwice(state)
        /\ \E keys \in SetToSeqs({k \in Keys : state[k] # None}) :
             store = PutAll(EmptyDict, DictItemsOf(state, keys))

DictCalls ==
    \/ \E items \in DictItems : UpdateItems(items)
    \/ \E k \in Keys, v \in Values : SetKey(k, v)
    \/ \E k \in Keys : RemoveKey(k)
    \/ \E k \in Keys : DiscardKey(k)
    \/ \E k \in Keys, v \in Values : SetDefault(k, v)
    \/ ClearDict

DictNext ==
    \/ MayChange /\ DictCalls
    \/ \E k \in Kids : (k \in store.children => DictLocated(k))
                       /\ ChildChanges(k, DictChildReplaced(k))
    \/ done # <<>> /\ DictUndoable(Last(done)) /\ UndoTo(DictUndone(Last(done)))
    \/ undone # <<>> /\ DictRedoable(Last(undone)) /\ RedoTo(DictRedone(Last(undone)))

-----------------------------------------------------------------------------
(* What the properties of Objects say of dicts.                            *)

DictDataExact(s) ==
    \A k \in Keys : s.data[k] = IF relationship.data /\ s.state[k] # None
                                THEN DataOf(s.state[k]) ELSE None

DictLocationsExact(s) ==
    \A c \in Kids : IF c \in s.children THEN s.metadata[c] # None /\ s.state[s.metadata[c]] = c
                    ELSE s.metadata[c] = None

DictHolds(s) == {s.state[k] : k \in Keys} \ {None}

DictReplays(c) ==
    /\ \A k \in Keys :
         c.to[k] = IF \E i \in DOMAIN c.new : c.new[i].key = k
                   THEN (CHOOSE i \in ToSet(c.new) : i.key = k).value ELSE c.from[k]
    /\ \A i \in DOMAIN c.old : c.from[c.old[i].key] = c.old[i].value

\* A child is put at a key before it leaves another one.
KeyComesBeforeItLeaves(from, items) ==
    \E i, j \in DOMAIN items :
        i < j /\ IsChild(items[i].value) /\ from[items[j].key] = items[i].value
=============================================================================
