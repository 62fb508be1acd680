------------------------------- MODULE Objects -------------------------------
(***************************************************************************)
(* One object of any of the four kinds with locations - a list, a set, a   *)
(* dict, or an object with attributes - under the calls of a program, the  *)
(* changes of its children's data, and undo and redo; and what its state,  *)
(* its data, its locations, its children and its changes have to do with   *)
(* each other.                                                             *)
(***************************************************************************)
EXTENDS ListObject, SetObject, DictObject, AttributeObject

Kinds == {"list", "set", "dict", "attributes"}

Init ==
    /\ kind \in Kinds
    /\ versions = [k \in Kids |-> 0]
    /\ done = <<>> /\ undone = <<>>
    /\ \/ kind = "list" /\ class \in {ListCls(a) : a \in Arguments} /\ ListInit
       \/ kind = "set" /\ class \in {SetCls(a) : a \in Arguments} /\ SetInit
       \/ kind = "dict" /\ class \in {DictCls(a) : a \in Arguments} /\ DictInit
       \/ kind = "attributes" /\ AttributesInit

Next ==
    \/ kind = "list" /\ ListNext
    \/ kind = "set" /\ SetNext
    \/ kind = "dict" /\ DictNext
    \/ kind = "attributes" /\ AttributesNext

Spec == Init /\ [][Next]_vars

-----------------------------------------------------------------------------
Of(list, set, dict, attributes) ==
    CASE kind = "list" -> list [] kind = "set" -> set
      [] kind = "dict" -> dict [] kind = "attributes" -> attributes

Change == Entry[1]

\* A child is put somewhere before it leaves where it was, in one update.
ComesBeforeItLeaves ==
    \/ /\ Change.type = "DictUpdate"
       /\ KeyComesBeforeItLeaves(store.state, IF Undid THEN Change.old ELSE Change.new)
    \/ /\ Change.type = "Update"
       /\ IF Undid THEN ChildComesBeforeItLeaves(Change.old, Change.new, Change.order)
          ELSE ChildComesBeforeItLeaves(Change.new, Change.old, Change.order)

\* What kind of store an object has.
TypeOK ==
    /\ kind \in Kinds
    /\ versions \in [Kids -> {0, 1}]
    /\ store.children \subseteq Kids
    /\ Of(store.state \in Seq(Values),
          store.state \subseteq Values,
          store.state \in [Keys -> Values \cup {None}],
          DOMAIN store.state = Attributes)

DataExact ==
    Of(ListDataExact(store), SetDataExact(store),
       DictDataExact(store), AttributesDataExact(store))

LocationsExact ==
    Of(ListLocationsExact(store), SetLocationsExact(store),
       DictLocationsExact(store), AttributesLocationsExact(store))

\* The children are the values that are objects, each held once.
ChildrenExact ==
    store.children = Of(ChildrenIn(ListHolds(store)), ChildrenIn(SetHolds(store)),
                        ChildrenIn(DictHolds(store)), AttributesAdopt(store))

\* What is derived from the values follows them through every call, undo and redo:
\* the children; the data, unless an update of a list skips a value that stays
\* before one that does not (_objects/list.py:397); the locations, unless a child
\* comes somewhere before it leaves where it was (_objects/object.py:784,
\* _objects/dict.py:179).
StoreFollows ==
    [][/\ TypeOK' /\ ChildrenExact'
       /\ DataExact /\ ~ SkipsData(Entry) => DataExact'
       /\ LocationsExact /\ ~ ComesBeforeItLeaves => LocationsExact']_vars

\* What a change tells observers and reactions - where and which values - makes
\* its new state out of its old state.
ChangesTell ==
    \A n \in DOMAIN done : \A i \in DOMAIN done[n] :
        Of(ListReplays(done[n][i]), SetReplays(done[n][i]),
           DictReplays(done[n][i]), AttributesReplays(done[n][i]))

EntryFrom(entry) == entry[1].from
EntryTo(entry)  == entry[Len(entry)].to

\* Undo of a change brings the state before it back, but for moves towards the
\* start of a list (_objects/list.py:540) and for values that a set held before
\* they were added (_objects/set.py:214).  Redo brings the state after it back.
UndoRedoRestore ==
    [][/\ Undid /\ store.state = EntryTo(Entry)
            => \/ store'.state = EntryFrom(Entry)
               \/ MovedToTheStart(Entry) \/ AddsHeld(Entry)
       /\ Made /\ store.state = EntryFrom(Entry) => store'.state = EntryTo(Entry)]_vars

\* Whoever changed the object can undo that, unless it gave an attribute a value
\* that may not be deleted or changed again.
UndoPossible ==
    \A entry \in {done[n] : n \in {m \in DOMAIN done : m = Len(done)}} :
        store.state = EntryTo(entry) /\ LocationsExact =>
          \/ Of(ListUndoable(entry), SetUndoable(entry),
                DictUndoable(entry), AttributesUndoable(entry))
          \/ CannotGoBack(entry)

\* A delegated attribute always has the value of its getter for what it depends
\* on, and none while its getter fails.
DelegatesExact == kind = "attributes" => DelegatesCurrent(store)

\* Deserializing what an object serialized to restores every attribute that
\* went into it, and what depends on nothing else; unless it raises, and unless
\* one with a default had no value (_objects/object.py:645).
Reloadable ==
    kind = "attributes" /\ ~ ReloadRaises(store) /\ ~ DefaultComesBack(store) =>
      \E s \in Created(Deserialized(store)) :
          \A n \in Restored : s.state[n] = store.state[n]

-----------------------------------------------------------------------------
(* What the documentation says without those exceptions.                   *)

\* README.rst: a history undoes the changes of its objects.
EveryUndoRestores ==
    [][Undid /\ store.state = EntryTo(Entry)
         => store'.state = EntryFrom(Entry)]_vars
=============================================================================
