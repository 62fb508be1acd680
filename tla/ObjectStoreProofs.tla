------------------------- MODULE ObjectStoreProofs -------------------------
(***************************************************************************)
(* More proofs about Objects: that children, data and locations follow the *)
(* values of an object through every call, undo and redo, and that whoever *)
(* changed it can undo that.                                               *)
(***************************************************************************)
EXTENDS ObjectsProofs

-----------------------------------------------------------------------------
(* What is derived from the values: of sets.                               *)

\* The data of a value, before and after the data of a child changes.
LEMMA DataIs ==
    ASSUME versions \in [Kids -> {0, 1}]
    PROVE  /\ \A v \in Values : DataOf(v) # None
           /\ \A v, w : DataOf(v) = DataOf(w) => v = w
  <1>1. \A v \in Values : DataOf(v) \in Values \X {0, 1}
    BY DEF DataOf
  <1>2. \A v, w : DataOf(v) = DataOf(w) => v = w
    BY DEF DataOf
  <1> QED BY <1>1, <1>2, DataAssumption

\* A child whose data changes gives its parent a new one, and the others what they had.
LEMMA ChildChanged ==
    ASSUME versions \in [Kids -> {0, 1}], NEW k \in Kids, NEW s, ChildChanges(k, s)
    PROVE  /\ versions' \in [Kids -> {0, 1}]
           /\ store' = s /\ kind' = kind /\ class' = class /\ done' = done /\ undone' = undone
           /\ DataOf(k)' = NewDataOf(k)
           /\ \A v : v # k => DataOf(v)' = DataOf(v)
  <1>1. /\ versions' = [versions EXCEPT ![k] = 1 - @] /\ versions[k] \in {0, 1}
        /\ store' = s /\ kind' = kind /\ class' = class /\ done' = done /\ undone' = undone
    BY DEF ChildChanges, fixed
  <1>2. versions' \in [Kids -> {0, 1}]
    BY <1>1
  <1>3. DataOf(k)' = NewDataOf(k)
    BY <1>1 DEF DataOf, NewDataOf
  <1>4. \A v : v # k => DataOf(v)' = DataOf(v)
    BY <1>1 DEF DataOf
  <1> QED BY <1>1, <1>2, <1>3, <1>4

\* The class of a list, set or dict has data only of children.
LEMMA DataOfChildren ==
    ASSUME NEW a, \/ class = ListCls(a) \/ class = SetCls(a) \/ class = DictCls(a)
    PROVE  relationship.data => relationship.child
  <1>1. relationship = Relationship(a)
    BY DEF ListCls, SetCls, DictCls, ContainerClass, relationship
  <1>2. Relationship(a).data => Relationship(a).child
    BY Zenon DEF Relationship
  <1> QED BY <1>1, <1>2

\* The store of a set of values.
SetStore(vs) ==
    [state    |-> vs,
     data     |-> IF relationship.data THEN {DataOf(v) : v \in vs} ELSE {},
     metadata |-> [v \in Values |-> IF relationship.data /\ v \in vs THEN DataOf(v) ELSE None],
     children |-> ChildrenIn(vs)]

\* A set of values has the children of those values, their data and a data map of it.
SetExact(s) == s.state \subseteq Values /\ s = SetStore(s.state)

\* The values of a change, which may be added and removed again.
SetValues(c) == IF c.type = "SetUpdate" THEN c.new ELSE c.old

SetChangeRight(c) ==
    /\ c.type \in {"SetUpdate", "SetRemove"}
    /\ SetValues(c) # {} /\ SetValues(c) \subseteq Values
    /\ relationship.data => ChildrenIn(SetValues(c)) \subseteq Described

\* Two changes are a replacement.
SetEntryRight(e) ==
    /\ \A i \in DOMAIN e : SetChangeRight(e[i])
    /\ Len(e) = 2 => e[1].type = "SetRemove" /\ e[2].type = "SetUpdate"

SetMore ==
    /\ versions \in [Kids -> {0, 1}]
    /\ relationship.data => relationship.child
    /\ SetExact(store)
    /\ relationship.data => ChildrenIn(store.state) \subseteq Described
    /\ \A e \in Entries : SetEntryRight(e)

\* Values added to an exact set leave it exact.
LEMMA AddedRight ==
    ASSUME NEW s, SetExact(s), NEW values \in SUBSET Values
    PROVE  SetExact(Added(s, values)) /\ Added(s, values).state = s.state \cup values
  <1> DEFINE t == Added(s, values)
             m == s.metadata
             vs == s.state
  <1>1. /\ vs \subseteq Values
        /\ s.data = IF relationship.data THEN {DataOf(v) : v \in vs} ELSE {}
        /\ m = [v \in Values |-> IF relationship.data /\ v \in vs THEN DataOf(v) ELSE None]
        /\ s.children = ChildrenIn(vs)
    BY DEF SetExact, SetStore
  <1>2. DataAdded(s.data, values) = IF relationship.data THEN {DataOf(v) : v \in vs \cup values} ELSE {}
    BY <1>1 DEF DataAdded
  <1>3. DataMapAdded(s, values) =
          [v \in Values |-> IF relationship.data /\ v \in vs \cup values THEN DataOf(v) ELSE None]
    BY <1>1 DEF DataMapAdded
  <1>4. ChildrenAfter(s, {}, ChildrenIn(values)) = ChildrenIn(vs \cup values)
    BY <1>1 DEF ChildrenAfter, ChildrenIn
  <1> HIDE DEF m, vs
  <1>5. t = SetStore(vs \cup values)
    BY <1>2, <1>3, <1>4 DEF Added, SetStore, vs
  <1>6. t.state = vs \cup values
    BY <1>5 DEF SetStore
  <1> QED BY <1>1, <1>5, <1>6 DEF SetExact, vs

\* So do values taken away.
LEMMA TakenRight ==
    ASSUME versions \in [Kids -> {0, 1}],
           NEW s, SetExact(s), NEW values, values \subseteq s.state
    PROVE  SetExact(Taken(s, values)) /\ Taken(s, values).state = s.state \ values
  <1> DEFINE t == Taken(s, values)
             m == s.metadata
             vs == s.state
  <1>1. /\ vs \subseteq Values
        /\ s.data = IF relationship.data THEN {DataOf(v) : v \in vs} ELSE {}
        /\ m = [v \in Values |-> IF relationship.data /\ v \in vs THEN DataOf(v) ELSE None]
        /\ s.children = ChildrenIn(vs)
    BY DEF SetExact, SetStore
  <1>2. DataTaken(s, values) = IF relationship.data THEN {DataOf(v) : v \in vs \ values} ELSE {}
    <2>1. CASE relationship.data
      <3>1. DataTaken(s, values) = {DataOf(v) : v \in vs} \ {DataOf(v) : v \in values}
        <4>1. \A v \in values : m[v] = DataOf(v)
          BY <1>1, <2>1
        <4>2. {m[v] : v \in values} = {DataOf(v) : v \in values}
          BY <4>1
        <4> QED BY <1>1, <2>1, <4>2 DEF DataTaken
      <3> QED BY <2>1, <3>1, DataIs
    <2>2. CASE ~ relationship.data
      BY <1>1, <2>2 DEF DataTaken
    <2> QED BY <2>1, <2>2
  <1>3. [v \in Values |-> IF v \in values THEN None ELSE m[v]] =
          [v \in Values |-> IF relationship.data /\ v \in vs \ values THEN DataOf(v) ELSE None]
    BY <1>1
  <1>4. ChildrenAfter(s, ChildrenIn(values), {}) = ChildrenIn(vs \ values)
    BY <1>1 DEF ChildrenAfter, ChildrenIn
  <1>5. t = SetStore(vs \ values)
    <2> HIDE DEF vs
    <2> QED BY <1>2, <1>3, <1>4 DEF Taken, SetStore, vs
  <1> HIDE DEF m, vs, t
  <1>6. t.state = vs \ values
    BY <1>5 DEF SetStore
  <1> QED BY <1>1, <1>5, <1>6 DEF SetExact, vs, t

\* Values can be added if none is a child that is held, and taken if they are held.
LEMMA AddAllowedIs ==
    ASSUME NEW s, SetExact(s), NEW values
    PROVE  AddAllowed(s, values) <=>
             /\ values # {} /\ ChildrenIn(values) \cap s.state = {}
             /\ relationship.data => ChildrenIn(values) \subseteq Described
  <1>1. s.children = ChildrenIn(s.state)
    BY DEF SetExact, SetStore
  <1> QED BY <1>1 DEF AddAllowed, Admits, ChildrenIn

\* Values may be taken away if they are in the set, and there are some.
LEMMA TakeAllowedIs ==
    ASSUME versions \in [Kids -> {0, 1}], NEW s, SetExact(s), NEW values
    PROVE  TakeAllowed(s, values) <=> values # {} /\ values \subseteq s.state
  <1> DEFINE m == s.metadata
  <1>1. /\ s.children = ChildrenIn(s.state) /\ s.state \subseteq Values
        /\ m = [v \in Values |-> IF relationship.data /\ v \in s.state THEN DataOf(v) ELSE None]
    BY DEF SetExact, SetStore
  <1>2. relationship.data => \A v \in s.state : m[v] # None
    BY <1>1, DataIs
  <1>3. values \subseteq s.state => Admits(s, ChildrenIn(values), {})
    BY <1>1 DEF Admits, ChildrenIn
  <1> HIDE DEF m
  <1> QED BY <1>2, <1>3 DEF TakeAllowed, m

\* What is said of a set stays true while its class and the data of its children do.
LEMMA SetStays ==
    ASSUME class' = class, versions' = versions
    PROVE  /\ \A s : SetExact(s)' <=> SetExact(s)
           /\ \A e : SetEntryRight(e)' <=> SetEntryRight(e)
           /\ relationship' = relationship
           /\ \A vs : ChildrenIn(vs)' = ChildrenIn(vs)
  BY DEF SetExact, SetStore, SetEntryRight, SetChangeRight, SetValues, ChildrenIn, IsChild,
         relationship, DataOf

\* A step that leaves a set right, and no entry that is not.
LEMMA SetMoreStays ==
    ASSUME SetMore, class' = class, versions' = versions,
           SetExact(store'), relationship.data => ChildrenIn(store'.state) \subseteq Described,
           \A e \in Entries' : SetEntryRight(e)
    PROVE  SetMore'
  <1>1. SetExact(store)'
    BY SetStays
  <1>2. relationship' = relationship /\ ChildrenIn(store.state)' = ChildrenIn(store'.state)
    BY SetStays
  <1>3. \A e \in Entries' : SetEntryRight(e)'
    BY SetStays
  <1>4. versions' \in [Kids -> {0, 1}] /\ (relationship'.data => relationship'.child)
    BY <1>2 DEF SetMore
  <1> QED BY <1>1, <1>2, <1>3, <1>4 DEF SetMore

\* A call keeps the second invariant if what it stores and what it records are right.
LEMMA SetMoreRecorded ==
    ASSUME SetMore, BothLists, NEW s, NEW e, Record(s, e),
           SetExact(s), relationship.data => ChildrenIn(s.state) \subseteq Described,
           SetEntryRight(e)
    PROVE  SetMore'
  <1>1. Entries' \subseteq Entries \cup {e}
    BY EntriesRecorded
  <1>2. store' = s /\ class' = class /\ versions' = versions
    BY DEF Record, fixed
  <1>3. \A f \in Entries' : SetEntryRight(f)
    BY <1>1 DEF SetMore
  <1> QED BY <1>2, <1>3, SetMoreStays

\* An addition that is allowed stores and records what is right.
LEMMA AddedMore ==
    ASSUME SetMore, NEW s, SetExact(s), NEW values \in SUBSET Values, AddAllowed(s, values),
           relationship.data => ChildrenIn(s.state) \subseteq Described
    PROVE  /\ SetExact(Added(s, values)) /\ Added(s, values).state = s.state \cup values
           /\ relationship.data => ChildrenIn(Added(s, values).state) \subseteq Described
           /\ SetEntryRight(<<SetUpdate(s, values)>>)
           /\ values # {} /\ (relationship.data => ChildrenIn(values) \subseteq Described)
  <1>1. SetExact(Added(s, values)) /\ Added(s, values).state = s.state \cup values
    BY AddedRight
  <1>2. values # {} /\ (relationship.data => ChildrenIn(values) \subseteq Described)
    BY DEF AddAllowed
  <1>3. relationship.data => ChildrenIn(Added(s, values).state) \subseteq Described
    BY <1>1, <1>2 DEF ChildrenIn
  <1>4. SetUpdate(s, values).type = "SetUpdate" /\ SetUpdate(s, values).new = values
    BY DEF SetUpdate
  <1> DEFINE e == <<SetUpdate(s, values)>>
  <1>5. DOMAIN e = {1} /\ Len(e) = 1 /\ e[1].type = "SetUpdate" /\ e[1].new = values
    BY <1>4, OneChange
  <1> HIDE DEF e
  <1>6. SetEntryRight(e)
    BY <1>2, <1>5 DEF SetEntryRight, SetChangeRight, SetValues
  <1> QED BY <1>1, <1>2, <1>3, <1>6 DEF e

\* So does a removal.
LEMMA TakenMore ==
    ASSUME SetMore, NEW s, SetExact(s), NEW values, TakeAllowed(s, values),
           relationship.data => ChildrenIn(s.state) \subseteq Described
    PROVE  /\ SetExact(Taken(s, values)) /\ Taken(s, values).state = s.state \ values
           /\ relationship.data => ChildrenIn(Taken(s, values).state) \subseteq Described
           /\ SetEntryRight(<<SetRemove(s, values)>>)
           /\ values # {} /\ values \subseteq Values
           /\ relationship.data => ChildrenIn(values) \subseteq Described
  <1>1. values # {} /\ values \subseteq s.state /\ s.state \subseteq Values
    BY DEF TakeAllowed, SetExact
  <1>2. SetExact(Taken(s, values)) /\ Taken(s, values).state = s.state \ values
    BY <1>1, TakenRight DEF SetMore
  <1>3. /\ relationship.data => ChildrenIn(Taken(s, values).state) \subseteq Described
        /\ relationship.data => ChildrenIn(values) \subseteq Described
    BY <1>1, <1>2 DEF ChildrenIn
  <1>4. SetRemove(s, values).type = "SetRemove" /\ SetRemove(s, values).old = values
    BY DEF SetRemove
  <1> DEFINE e == <<SetRemove(s, values)>>
  <1>5. DOMAIN e = {1} /\ Len(e) = 1 /\ e[1].type = "SetRemove" /\ e[1].old = values
    BY <1>4, OneChange
  <1> HIDE DEF e
  <1>6. SetEntryRight(e)
    BY <1>1, <1>3, <1>5 DEF SetEntryRight, SetChangeRight, SetValues
  <1> QED BY <1>1, <1>2, <1>3, <1>6 DEF e

\* Each operation of a set leaves it right.
LEMMA AddValuesRight ==
    ASSUME SetMore, BothLists, NEW values \in SUBSET Values, AddValues(values)
    PROVE  SetMore'
  <1>1. AddAllowed(store, values) /\ Record(Added(store, values), <<SetUpdate(store, values)>>)
    BY DEF AddValues
  <1>2. /\ SetExact(Added(store, values))
        /\ relationship.data => ChildrenIn(Added(store, values).state) \subseteq Described
        /\ SetEntryRight(<<SetUpdate(store, values)>>)
    BY <1>1, AddedMore DEF SetMore
  <1> QED BY <1>1, <1>2, SetMoreRecorded

\* The methods of a set: they keep its second invariant.
LEMMA RemoveValuesRight ==
    ASSUME SetMore, BothLists, NEW values, RemoveValues(values)
    PROVE  SetMore'
  <1>1. TakeAllowed(store, values) /\ Record(Taken(store, values), <<SetRemove(store, values)>>)
    BY DEF RemoveValues
  <1>2. /\ SetExact(Taken(store, values))
        /\ relationship.data => ChildrenIn(Taken(store, values).state) \subseteq Described
        /\ SetEntryRight(<<SetRemove(store, values)>>)
    BY <1>1, TakenMore DEF SetMore
  <1> QED BY <1>1, <1>2, SetMoreRecorded

\* A replacement is a removal and an addition, in one entry.
LEMMA ReplaceRight ==
    ASSUME SetMore, BothLists, NEW v, NEW w \in Values, Replace(v, w)
    PROVE  SetMore'
  <1> DEFINE taken == Taken(store, {v})
             c == SetRemove(store, {v})
             d == SetUpdate(taken, {w})
             s == Added(taken, {w})
             e == <<c, d>>
  <1>1. TakeAllowed(store, {v}) /\ AddAllowed(taken, {w}) /\ Record(s, e)
    BY DEF Replace
  <1>2. /\ SetExact(taken)
        /\ relationship.data => ChildrenIn(taken.state) \subseteq Described
        /\ {v} # {} /\ {v} \subseteq Values
        /\ relationship.data => ChildrenIn({v}) \subseteq Described
    BY <1>1, TakenMore DEF SetMore
  <1>3. c.type = "SetRemove" /\ c.old = {v} /\ d.type = "SetUpdate" /\ d.new = {w}
    BY DEF SetRemove, SetUpdate
  <1> HIDE DEF taken
  <1>4. /\ SetExact(s)
        /\ relationship.data => ChildrenIn(s.state) \subseteq Described
        /\ {w} # {} /\ (relationship.data => ChildrenIn({w}) \subseteq Described)
    BY <1>1, <1>2, AddedMore
  <1>5. Len(e) = 2 /\ DOMAIN e = {1, 2} /\ e[1] = c /\ e[2] = d
    BY TwoChanges
  <1> HIDE DEF c, d, e, s
  <1>6. SetEntryRight(e)
    BY <1>2, <1>3, <1>4, <1>5 DEF SetEntryRight, SetChangeRight, SetValues
  <1> QED BY <1>1, <1>4, <1>6, SetMoreRecorded

\* So is a symmetric difference.
LEMMA SymmetricRight ==
    ASSUME SetMore, BothLists, NEW values \in SUBSET Values, SymmetricDifferenceUpdate(values)
    PROVE  SetMore'
  <1> DEFINE coming  == values \ store.state
             leaving == store.state \cap values
             added   == Added(store, coming)
             e == <<SetUpdate(store, coming)>>
             f == <<SetRemove(added, leaving)>>
             s == Taken(added, leaving)
  <1>1. CASE AddValues(coming)
    BY <1>1, AddValuesRight
  <1>2. CASE RemoveValues(leaving)
    BY <1>2, RemoveValuesRight
  <1>3. CASE /\ AddAllowed(store, coming) /\ TakeAllowed(added, leaving) /\ store' = s
             /\ done' = done \o <<e, f>> /\ undone' = <<>> /\ UNCHANGED <<fixed, versions>>
    <2>1. /\ SetExact(added)
          /\ relationship.data => ChildrenIn(added.state) \subseteq Described
          /\ SetEntryRight(e)
      BY <1>3, AddedMore DEF SetMore
    <2> HIDE DEF added, e
    <2>2. /\ SetExact(s)
          /\ relationship.data => ChildrenIn(s.state) \subseteq Described
          /\ SetEntryRight(f)
      BY <1>3, <2>1, TakenMore
    <2> HIDE DEF s, f
    <2>3. ToSet(done') \subseteq ToSet(done) \cup {e, f}
      BY <1>3, TwoAppended DEF BothLists
    <2>4. Entries' \subseteq Entries \cup {e, f}
      BY <1>3, <2>3, EmptyList DEF Entries
    <2>5. \A x \in Entries' : SetEntryRight(x)
      BY <2>1, <2>2, <2>4 DEF SetMore
    <2>6. class' = class /\ versions' = versions /\ store' = s
      BY <1>3 DEF fixed
    <2> QED BY <2>2, <2>5, <2>6, SetMoreStays
  <1> QED BY <1>1, <1>2, <1>3 DEF SymmetricDifferenceUpdate

\* A change undone or redone leaves a set right.
LEMMA SetChangeBack ==
    ASSUME SetMore, NEW s, SetExact(s), relationship.data => ChildrenIn(s.state) \subseteq Described,
           NEW c, SetChangeRight(c)
    PROVE  /\ SetUndoneAllowed(s, c) =>
                /\ SetExact(SetUndone(s, c))
                /\ relationship.data => ChildrenIn(SetUndone(s, c).state) \subseteq Described
           /\ SetRedoneAllowed(s, c) =>
                /\ SetExact(SetRedone(s, c))
                /\ relationship.data => ChildrenIn(SetRedone(s, c).state) \subseteq Described
  <1>1. CASE c.type = "SetUpdate"
    <2>1. c.new \in SUBSET Values
      BY <1>1 DEF SetChangeRight, SetValues
    <2> QED BY <1>1, <2>1, AddedMore, TakenMore
            DEF SetUndoneAllowed, SetUndone, SetRedoneAllowed, SetRedone
  <1>2. CASE c.type # "SetUpdate"
    <2>1. c.old \in SUBSET Values
      BY <1>2 DEF SetChangeRight, SetValues
    <2> QED BY <1>2, <2>1, AddedMore, TakenMore
            DEF SetUndoneAllowed, SetUndone, RemovalUndone, SetRedoneAllowed, SetRedone
  <1> QED BY <1>1, <1>2

\* Undo and redo of an entry leave the set exact, of one change or two.
LEMMA SetEntryBack ==
    ASSUME SetMore, NEW e, SetEntry(e), SetEntryRight(e)
    PROVE  /\ SetUndoable(e) =>
                /\ SetExact(SetEntryUndone(e))
                /\ relationship.data => ChildrenIn(SetEntryUndone(e).state) \subseteq Described
           /\ SetRedoable(e) =>
                /\ SetExact(SetEntryRedone(e))
                /\ relationship.data => ChildrenIn(SetEntryRedone(e).state) \subseteq Described
  <1>1. SetExact(store) /\ (relationship.data => ChildrenIn(store.state) \subseteq Described)
    BY DEF SetMore
  <1>2. Last(e) = e[Len(e)]
    BY DEF Last
  <1>3. CASE Len(e) = 1 /\ DOMAIN e = {1}
    <2>1. SetChangeRight(e[1])
      BY <1>3 DEF SetEntryRight
    <2> QED BY <1>1, <1>2, <1>3, <2>1, SetChangeBack
            DEF SetUndoable, SetEntryUndone, SetRedoable, SetEntryRedone
  <1>4. CASE Len(e) = 2 /\ DOMAIN e = {1, 2}
    <2>1. SetChangeRight(e[1]) /\ SetChangeRight(e[2])
      BY <1>4 DEF SetEntryRight
    <2> DEFINE u == SetUndone(store, e[2])
               r == SetRedone(store, e[1])
    <2>2. SetUndoable(e) => /\ SetUndoneAllowed(store, e[2]) /\ SetUndoneAllowed(u, e[1])
                            /\ SetEntryUndone(e) = SetUndone(u, e[1])
      BY <1>2, <1>4 DEF SetUndoable, SetEntryUndone
    <2>3. SetRedoable(e) => /\ SetRedoneAllowed(store, e[1]) /\ SetRedoneAllowed(r, e[2])
                            /\ SetEntryRedone(e) = SetRedone(r, e[2])
      BY <1>4 DEF SetRedoable, SetEntryRedone
    <2>4. SetUndoneAllowed(store, e[2]) =>
            SetExact(u) /\ (relationship.data => ChildrenIn(u.state) \subseteq Described)
      BY <1>1, <2>1, SetChangeBack
    <2>5. SetRedoneAllowed(store, e[1]) =>
            SetExact(r) /\ (relationship.data => ChildrenIn(r.state) \subseteq Described)
      BY <1>1, <2>1, SetChangeBack
    <2> HIDE DEF u, r
    <2> QED BY <2>1, <2>2, <2>3, <2>4, <2>5, SetChangeBack
  <1> QED BY <1>3, <1>4 DEF SetEntry

\* The data of a child changes, and with it the data of the set and its data map.
LEMMA SetChildRight ==
    ASSUME SetMore, NEW k \in Kids, ChildChanges(k, SetChildReplaced(k))
    PROVE  SetMore'
  <1> DEFINE vs == store.state
             m == store.metadata
  <1>1. /\ versions' \in [Kids -> {0, 1}] /\ class' = class
        /\ store' = SetChildReplaced(k) /\ done' = done /\ undone' = undone
        /\ DataOf(k)' = NewDataOf(k) /\ \A v : v # k => DataOf(v)' = DataOf(v)
    BY ChildChanged DEF SetMore
  <1>2. /\ relationship' = relationship /\ \A x : ChildrenIn(x)' = ChildrenIn(x)
        /\ \A e : SetEntryRight(e)' <=> SetEntryRight(e)
    BY <1>1 DEF SetEntryRight, SetChangeRight, SetValues, ChildrenIn, IsChild, relationship
  <1>3. /\ vs \subseteq Values /\ store = SetStore(vs)
        /\ relationship.data => relationship.child
        /\ store.data = IF relationship.data THEN {DataOf(v) : v \in vs} ELSE {}
        /\ m = [v \in Values |-> IF relationship.data /\ v \in vs THEN DataOf(v) ELSE None]
        /\ store.children = ChildrenIn(vs)
        /\ store = [state |-> store.state, data |-> store.data, metadata |-> store.metadata,
                    children |-> store.children]
    BY DEF SetMore, SetExact, SetStore
  <1>4. store'.state = vs /\ store' = SetStore(vs)'
    <2>1. CASE k \notin store.children \/ ~ relationship.data
      <3>1. store' = store
        BY <1>1, <2>1 DEF SetChildReplaced
      <3>2. relationship.data => k \notin vs
        BY <1>3, <2>1 DEF ChildrenIn, IsChild
      <3>3. relationship.data => \A v \in vs : DataOf(v)' = DataOf(v)
        BY <1>1, <3>2
      <3>4. SetStore(vs)' = [state |-> vs,
               data |-> IF relationship.data THEN {DataOf(v)' : v \in vs} ELSE {},
               metadata |-> [v \in Values |-> IF relationship.data /\ v \in vs THEN DataOf(v)' ELSE None],
               children |-> ChildrenIn(vs)]
        BY <1>2, <3>1 DEF SetStore
      <3>5. SetStore(vs)' = SetStore(vs)
        BY <3>3, <3>4 DEF SetStore
      <3> QED BY <1>3, <3>1, <3>5
    <2>2. CASE k \in store.children /\ relationship.data
      <3>1. k \in vs /\ k \in Values /\ m[k] = DataOf(k)
        BY <1>3, <2>2 DEF ChildrenIn
      <3>2. store' = [state |-> vs, data |-> (store.data \ {m[k]}) \cup {NewDataOf(k)},
                      metadata |-> [m EXCEPT ![k] = NewDataOf(k)], children |-> store.children]
        BY <1>1, <1>3, <2>2 DEF SetChildReplaced
      <3>3. (store.data \ {m[k]}) \cup {NewDataOf(k)} = {DataOf(v)' : v \in vs}
        <4>1. store.data \ {m[k]} = {DataOf(v) : v \in vs \ {k}}
          BY <1>3, <2>2, <3>1, DataIs DEF SetMore
        <4>2. {DataOf(v) : v \in vs \ {k}} = {DataOf(v)' : v \in vs \ {k}}
          BY <1>1
        <4>3. {DataOf(v)' : v \in vs} = {DataOf(v)' : v \in vs \ {k}} \cup {NewDataOf(k)}
          BY <1>1, <3>1
        <4> QED BY <4>1, <4>2, <4>3
      <3>4. [m EXCEPT ![k] = NewDataOf(k)] =
              [v \in Values |-> IF relationship.data /\ v \in vs THEN DataOf(v)' ELSE None]
        BY <1>1, <1>3, <2>2, <3>1
      <3>5. SetStore(vs)' = [state |-> vs,
               data |-> {DataOf(v)' : v \in vs},
               metadata |-> [v \in Values |-> IF relationship.data /\ v \in vs THEN DataOf(v)' ELSE None],
               children |-> ChildrenIn(vs)]
        <4>1. store'.state = vs
          BY <3>2
        <4> QED BY <1>2, <2>2, <4>1 DEF SetStore
      <3> HIDE DEF m
      <3>6. store'.state = vs
        BY <3>2
      <3> QED BY <1>3, <3>2, <3>3, <3>4, <3>5, <3>6
    <2> QED BY <2>1, <2>2
  <1>5. SetExact(store)'
    BY <1>3, <1>4 DEF SetExact
  <1>6. Entries' = Entries
    BY <1>1 DEF Entries
  <1> QED BY <1>1, <1>2, <1>4, <1>5, <1>6 DEF SetMore

\* Every step keeps the second invariant of a set.
LEMMA SetMoreStep ==
    ASSUME SetMore, SetInv, SetNext
    PROVE  SetMore'
  <1>1. CASE SetCalls
    <2>1. \A values \in SUBSET Values : AddValues(values) => SetMore'
      BY AddValuesRight DEF SetInv
    <2>2. \A values : RemoveValues(values) => SetMore'
      BY RemoveValuesRight DEF SetInv
    <2>3. \A values \in SUBSET Values : SymmetricDifferenceUpdate(values) => SetMore'
      BY SymmetricRight DEF SetInv
    <2>4. \A v, w \in Values : Replace(v, w) => SetMore'
      BY ReplaceRight DEF SetInv
    <2> QED BY <1>1, <2>1, <2>2, <2>3, <2>4
            DEF SetCalls, ClearSet, DiscardValues, IntersectionUpdate, DifferenceUpdate
  <1>2. CASE \E k \in Kids : ChildChanges(k, SetChildReplaced(k))
    BY <1>2, SetChildRight
  <1>3. CASE done # <<>> /\ SetUndoable(Last(done)) /\ UndoTo(SetEntryUndone(Last(done)))
    <2>1. Last(done) \in Entries /\ Entries' \subseteq Entries
      BY <1>3, UndoneTo, EntriesUndone DEF SetInv, Entries
    <2> DEFINE s == SetEntryUndone(Last(done))
    <2>2. SetExact(s) /\ (relationship.data => ChildrenIn(s.state) \subseteq Described)
      BY <1>3, <2>1, SetEntryBack DEF SetMore, SetInv
    <2> HIDE DEF s
    <2>3. store' = s /\ class' = class /\ versions' = versions
      BY <1>3 DEF UndoTo, fixed, s
    <2>4. \A e \in Entries' : SetEntryRight(e)
      BY <2>1 DEF SetMore
    <2> QED BY <2>2, <2>3, <2>4, SetMoreStays
  <1>4. CASE undone # <<>> /\ SetRedoable(Last(undone)) /\ RedoTo(SetEntryRedone(Last(undone)))
    <2>1. Last(undone) \in Entries /\ Entries' \subseteq Entries
      BY <1>4, RedoneTo, EntriesRedone DEF SetInv, Entries
    <2> DEFINE s == SetEntryRedone(Last(undone))
    <2>2. SetExact(s) /\ (relationship.data => ChildrenIn(s.state) \subseteq Described)
      BY <1>4, <2>1, SetEntryBack DEF SetMore, SetInv
    <2> HIDE DEF s
    <2>3. store' = s /\ class' = class /\ versions' = versions
      BY <1>4 DEF RedoTo, fixed, s
    <2>4. \A e \in Entries' : SetEntryRight(e)
      BY <2>1 DEF SetMore
    <2> QED BY <2>2, <2>3, <2>4, SetMoreStays
  <1> QED BY <1>1, <1>2, <1>3, <1>4 DEF SetNext

\* It holds of a set that is made.
LEMMA SetMoreStart ==
    ASSUME versions = [k \in Kids |-> 0], done = <<>>, undone = <<>>,
           NEW a, class = SetCls(a), SetInit
    PROVE  SetMore
  <1>1. versions \in [Kids -> {0, 1}] /\ (relationship.data => relationship.child)
    BY DataOfChildren
  <1>2. Entries = {}
    BY EmptyList DEF Entries
  <1>3. EmptySet = SetStore({}) /\ EmptySet.state = {}
    <2>1. \A v \in Values : ~ (relationship.data /\ v \in {})
      OBVIOUS
    <2>2. {DataOf(v) : v \in {}} = {} /\ ChildrenIn({}) = {}
      BY DEF ChildrenIn
    <2> QED BY <2>1, <2>2 DEF EmptySet, SetStore, NoDataMap
  <1>4. SetExact(EmptySet)
    BY <1>3 DEF SetExact
  <1>5. PICK vs \in SUBSET Values :
              /\ vs # {} => AddAllowed(EmptySet, vs)
              /\ store = IF vs = {} THEN EmptySet ELSE Added(EmptySet, vs)
    BY DEF SetInit
  <1>6. CASE vs = {}
    BY <1>1, <1>2, <1>3, <1>4, <1>5, <1>6 DEF SetMore, ChildrenIn
  <1>7. CASE vs # {}
    <2>1. SetExact(Added(EmptySet, vs)) /\ Added(EmptySet, vs).state = vs
      <3>1. SetExact(Added(EmptySet, vs)) /\ Added(EmptySet, vs).state = EmptySet.state \cup vs
        BY <1>4, AddedRight
      <3> QED BY <1>3, <3>1
    <2>2. relationship.data => ChildrenIn(vs) \subseteq Described
      BY <1>5, <1>7 DEF AddAllowed
    <2> QED BY <1>1, <1>2, <1>5, <1>7, <2>1, <2>2 DEF SetMore
  <1> QED BY <1>6, <1>7

\* What it says of the store is what the properties ask for.
LEMMA SetMoreShows ==
    SetMore => /\ versions \in [Kids -> {0, 1}]
               /\ store.children \subseteq Kids /\ store.state \subseteq Values
               /\ store.children = ChildrenIn(SetHolds(store))
               /\ SetDataExact(store) /\ SetLocationsExact(store)
  <1> SUFFICES ASSUME SetMore
               PROVE  /\ store.children \subseteq Kids /\ store.state \subseteq Values
                      /\ store.children = ChildrenIn(SetHolds(store))
                      /\ SetDataExact(store) /\ SetLocationsExact(store)
    BY DEF SetMore
  <1> DEFINE m == store.metadata
             vs == store.state
  <1>1. /\ vs \subseteq Values
        /\ store.data = IF relationship.data THEN {DataOf(v) : v \in vs} ELSE {}
        /\ m = [v \in Values |-> IF relationship.data /\ v \in vs THEN DataOf(v) ELSE None]
        /\ store.children = ChildrenIn(vs)
    BY DEF SetMore, SetExact, SetStore
  <1>2. store.children \subseteq Kids
    BY <1>1 DEF ChildrenIn, IsChild
  <1>3. SetLocationsExact(store)
    <2>1. \A v \in Values : DataOf(v) # None
      BY DataIs DEF SetMore
    <2> QED BY <1>1, <2>1 DEF SetLocationsExact
  <1> QED BY <1>1, <1>2, <1>3 DEF SetDataExact, SetHolds

\* The last entry can be undone where it ended: what it removed is gone, what it added
\* is there.
LEMMA SetMoreUndo ==
    ASSUME SetMore, SetInv, NEW e \in Entries, store.state = EntryTo(e)
    PROVE  SetUndoable(e)
  <1>1. SetEntryRight(e) /\ SetEntry(e) /\ SetExact(store)
        /\ versions \in [Kids -> {0, 1}]
    BY DEF SetMore, SetInv
  <1>2. Last(e) = e[Len(e)]
    BY DEF Last
  <1>3. ASSUME NEW c, SetChange(c), SetChangeRight(c), NEW s, SetExact(s), s.state = c.to
        PROVE  SetUndoneAllowed(s, c)
    <2>1. CASE c.type = "SetUpdate"
      <3>1. c.to = c.from \cup c.new /\ c.new # {}
        BY <1>3, <2>1 DEF SetChange, SetReplays, SetChangeRight, SetValues
      <3> QED BY <1>1, <1>3, <2>1, <3>1, TakeAllowedIs DEF SetUndoneAllowed
    <2>2. CASE c.type = "SetRemove"
      <3>1. c.to = c.from \ c.old /\ c.old # {}
            /\ (relationship.data => ChildrenIn(c.old) \subseteq Described)
        BY <1>3, <2>2 DEF SetChange, SetReplays, SetChangeRight, SetValues
      <3>2. ChildrenIn(c.old) \cap s.state = {}
        BY <1>3, <3>1 DEF ChildrenIn
      <3> QED BY <1>1, <1>3, <2>2, <3>1, <3>2, AddAllowedIs DEF SetUndoneAllowed
    <2> QED BY <1>3, <2>1, <2>2 DEF SetChange
  <1>4. CASE Len(e) = 1 /\ DOMAIN e = {1} /\ SetChange(e[1])
    <2>1. SetChangeRight(e[1]) /\ store.state = e[1].to
      BY <1>1, <1>4 DEF SetEntryRight, EntryTo
    <2> QED BY <1>1, <1>2, <1>3, <1>4, <2>1 DEF SetUndoable
  <1>5. CASE /\ Len(e) = 2 /\ DOMAIN e = {1, 2}
             /\ SetChange(e[1]) /\ SetChange(e[2]) /\ e[1].to = e[2].from
    <2> DEFINE u == SetUndone(store, e[2])
    <2>1. /\ SetChangeRight(e[1]) /\ SetChangeRight(e[2]) /\ store.state = e[2].to
          /\ e[1].type = "SetRemove" /\ e[2].type = "SetUpdate"
      BY <1>1, <1>5 DEF SetEntryRight, EntryTo
    <2>2. SetUndoneAllowed(store, e[2])
      BY <1>1, <1>3, <1>5, <2>1
    <2>3. /\ u = Taken(store, e[2].new)
          /\ e[2].new \subseteq store.state /\ e[1].to = e[1].from \ e[1].old
          /\ store.state = e[1].to \cup e[2].new
      BY <1>5, <2>1 DEF SetUndone, SetChange, SetReplays
    <2>4. SetExact(u) /\ u.state = store.state \ e[2].new
      BY <1>1, <2>3, TakenRight
    <2> HIDE DEF u
    <2>5. /\ e[1].old # {} /\ (relationship.data => ChildrenIn(e[1].old) \subseteq Described)
          /\ ChildrenIn(e[1].old) \cap u.state = {}
      BY <2>1, <2>3, <2>4 DEF SetChangeRight, SetValues, ChildrenIn
    <2>6. SetUndoneAllowed(u, e[1])
      BY <1>1, <2>1, <2>4, <2>5, AddAllowedIs DEF SetUndoneAllowed
    <2> QED BY <1>2, <1>5, <2>2, <2>6 DEF SetUndoable, u
  <1> QED BY <1>1, <1>4, <1>5 DEF SetEntry

-----------------------------------------------------------------------------
(* Locations of children that leave places and come to others in turn, as  *)
(* dicts and attributes keep them.                                         *)

\* The locations after the n-th move: out leaves, then in comes to a place.
Relocation(f, n, out, in, place) ==
    LET freed == IF out[n] # None THEN [f[n - 1] EXCEPT ![out[n]] = None] ELSE f[n - 1]
    IN  IF in[n] # None THEN [freed EXCEPT ![in[n]] = place[n]] ELSE freed

\* A child without a location left last, or had none and never came.
GoneLast(f, k, out, in, c) ==
    \/ \E j \in 1..k : out[j] = c /\ \A i \in j..k : in[i] # c
    \/ f[0][c] = None /\ \A i \in 1..k : in[i] # c

\* A location is the one it was, of a child that never left, or where the child came.
CameOrStayed(f, k, out, in, place, c) ==
    \/ f[k][c] = f[0][c] /\ \A j \in 1..k : out[j] # c
    \/ \E i \in 1..k : in[i] = c /\ f[k][c] = place[i]

\* Where a child is after some steps: nowhere if it left last, else where it came or was.
LEMMA RelocatedIs ==
    ASSUME NEW N \in Nat, NEW f, NEW out, NEW in, NEW place, NEW Places, None \notin Places,
           f[0] \in [Kids -> Places \cup {None}],
           \A n \in 1..N : f[n] = Relocation(f, n, out, in, place),
           \A n \in 1..N : out[n] \in Kids \cup {None} /\ in[n] \in Kids \cup {None}
                           /\ place[n] \in Places
    PROVE  \A k \in 0..N :
             /\ f[k] \in [Kids -> Places \cup {None}]
             /\ \A c \in Kids :
                  /\ f[k][c] = None => GoneLast(f, k, out, in, c)
                  /\ f[k][c] # None => CameOrStayed(f, k, out, in, place, c)
  <1> DEFINE Good(k) == /\ f[k] \in [Kids -> Places \cup {None}]
                        /\ \A c \in Kids :
                             /\ f[k][c] = None => GoneLast(f, k, out, in, c)
                             /\ f[k][c] # None => CameOrStayed(f, k, out, in, place, c)
             S == {k \in Nat : k <= N => Good(k)}
  <1>1. 0 \in S
    BY DEF GoneLast, CameOrStayed
  <1>2. ASSUME NEW k \in Nat, k \in S
        PROVE  k + 1 \in S
    <2> SUFFICES ASSUME k + 1 <= N
                 PROVE  Good(k + 1)
      OBVIOUS
    <2> DEFINE m == k + 1
               freed == IF out[m] # None THEN [f[k] EXCEPT ![out[m]] = None] ELSE f[k]
    <2>1. Good(k) /\ m \in 1..N /\ m - 1 = k
      BY <1>2
    <2>2. f[m] = IF in[m] # None THEN [freed EXCEPT ![in[m]] = place[m]] ELSE freed
      BY <2>1 DEF Relocation
    <2>3. None \notin Kids
      BY NoneAssumption DEF Values
    <2>4. freed \in [Kids -> Places \cup {None}]
          /\ \A c \in Kids : freed[c] = IF out[m] = c THEN None ELSE f[k][c]
      BY <2>1, <2>3
    <2> HIDE DEF freed
    <2>5. f[m] \in [Kids -> Places \cup {None}]
          /\ \A c \in Kids : f[m][c] = IF in[m] = c THEN place[m] ELSE freed[c]
      BY <2>1, <2>2, <2>3, <2>4
    <2>6. ASSUME NEW c \in Kids
          PROVE  /\ f[m][c] = None => GoneLast(f, m, out, in, c)
                 /\ f[m][c] # None => CameOrStayed(f, m, out, in, place, c)
      <3>1. CASE in[m] = c
        <4>1. f[m][c] = place[m] /\ place[m] # None /\ m \in 1..m
          BY <2>1, <2>5, <3>1
        <4> QED BY <3>1, <4>1 DEF CameOrStayed
      <3>2. CASE in[m] # c /\ out[m] = c
        <4>1. f[m][c] = None /\ m \in 1..m /\ m..m = {m}
          BY <2>1, <2>4, <2>5, <3>2
        <4> QED BY <3>2, <4>1 DEF GoneLast
      <3>3. CASE in[m] # c /\ out[m] # c
        <4>1. f[m][c] = f[k][c]
          BY <2>4, <2>5, <3>3
        <4>2. \A j : j \in 1..m <=> j \in 1..k \/ j = m
          OBVIOUS
        <4>3. \A j \in 1..k : \A i : i \in j..m => i \in j..k \/ i = m
          OBVIOUS
        <4>4. GoneLast(f, k, out, in, c) => GoneLast(f, m, out, in, c)
          BY <3>3, <4>2, <4>3 DEF GoneLast
        <4>5. CameOrStayed(f, k, out, in, place, c) => CameOrStayed(f, m, out, in, place, c)
          BY <3>3, <4>1, <4>2 DEF CameOrStayed
        <4> QED BY <2>1, <4>1, <4>4, <4>5
      <3> QED BY <3>1, <3>2, <3>3
    <2> QED BY <2>5, <2>6
  <1> HIDE DEF S
  <1>3. \A n \in Nat : n \in S
    BY <1>1, <1>2, Induct
  <1>4. \A k \in 0..N : k \in Nat /\ k <= N
    OBVIOUS
  <1> QED BY <1>3, <1>4 DEF S

-----------------------------------------------------------------------------
(* What is derived from the values: of dicts.                              *)

\* What is in a sequence is in the other one, in the same order.
Follows(p, q) ==
    \A i, j \in DOMAIN p :
        i < j => \E a, b \in DOMAIN q : a < b /\ p[i] = q[a] /\ p[j] = q[b]

\* Items that change something are in the order in which they came.
LEMMA EffectiveFollows ==
    ASSUME NEW s, NEW items, IsList(items)
    PROVE  Follows(Effective(s, items), items)
  <1> DEFINE N == Len(items)
             Good(x) == x.value # s.state[x.key]
  <1>1. N \in Nat /\ DOMAIN items = 1..N
    BY ListIs
  <1>2. PICK f : /\ \A k \in 0..N : f[k] = Choosing(s, items, f, k)
                 /\ Effective(s, items) = f[N]
    BY <1>1, EffectiveChooses
  <1> DEFINE Fine(k) == /\ IsList(f[k])
                        /\ \A i \in 1..Len(f[k]) : \E a \in 1..k : f[k][i] = items[a]
                        /\ \A i, j \in 1..Len(f[k]) :
                             i < j => \E a, b \in 1..k : a < b /\ f[k][i] = items[a] /\ f[k][j] = items[b]
             S == {k \in Nat : k <= N => Fine(k)}
  <1> HIDE DEF N
  <1>3. 0 \in S
    <2>1. 0 \in 0..N
      BY <1>1
    <2>2. f[0] = <<>>
      BY <1>2, <2>1 DEF Choosing
    <2> QED BY <2>2, EmptyList
  <1> HIDE DEF Fine
  <1>4. ASSUME NEW k \in Nat, k \in S
        PROVE  k + 1 \in S
    <2> SUFFICES ASSUME k + 1 <= N
                 PROVE  Fine(k + 1)
      OBVIOUS
    <2> DEFINE x == items[k + 1]
               q == f[k]
    <2>1. k + 1 \in 0..N /\ (k + 1) - 1 = k /\ k + 1 # 0 /\ k <= N
      BY <1>1
    <2>2. Fine(k)
      BY <1>4, <2>1
    <2>3. f[k + 1] = IF Good(x) THEN Append(q, x) ELSE q
      BY <1>2, <2>1 DEF Choosing
    <2>4. \A a \in 1..k : a \in 1..(k + 1) /\ a < k + 1
      OBVIOUS
    <2>5. CASE f[k + 1] = q
      BY <2>2, <2>4, <2>5 DEF Fine
    <2>6. CASE f[k + 1] = Append(q, x)
      <3> DEFINE t == Append(q, x)
                 l == Len(q)
      <3>1. /\ IsList(t) /\ Len(t) = l + 1 /\ l \in Nat
            /\ \A i \in 1..l : t[i] = q[i]
            /\ t[l + 1] = x
        BY <2>2, Appended, ListIs DEF Fine
      <3>2. \A i \in 1..l : \E a \in 1..k : q[i] = items[a]
        BY <2>2 DEF Fine
      <3>3. \A i, j \in 1..l : i < j => \E a, b \in 1..k : a < b /\ q[i] = items[a] /\ q[j] = items[b]
        BY <2>2 DEF Fine
      <3> HIDE DEF t, q
      <3>4. \A i \in 1..(l + 1) : i \in 1..l \/ i = l + 1
        BY <3>1
      <3> HIDE DEF l
      <3>5. k + 1 \in 1..(k + 1)
        OBVIOUS
      <3>6. \A i \in 1..(l + 1) : \E a \in 1..(k + 1) : t[i] = items[a]
        BY <2>4, <3>1, <3>2, <3>4, <3>5 DEF x
      <3>7. ASSUME NEW i \in 1..(l + 1), NEW j \in 1..(l + 1), i < j
            PROVE  \E a, b \in 1..(k + 1) : a < b /\ t[i] = items[a] /\ t[j] = items[b]
        <4>1. i \in 1..l
          BY <3>1, <3>4, <3>7
        <4>2. CASE j \in 1..l
          <5>1. PICK a \in 1..k, b \in 1..k : a < b /\ q[i] = items[a] /\ q[j] = items[b]
            BY <3>3, <3>7, <4>1, <4>2
          <5>2. t[i] = q[i] /\ t[j] = q[j]
            BY <3>1, <4>1, <4>2
          <5> QED BY <2>4, <5>1, <5>2
        <4>3. CASE j = l + 1
          <5>1. PICK a \in 1..k : q[i] = items[a]
            BY <3>2, <4>1
          <5>2. t[i] = items[a] /\ t[j] = items[k + 1]
            BY <3>1, <4>1, <4>3, <5>1 DEF x
          <5>3. a < k + 1 /\ a \in 1..(k + 1)
            BY <2>4
          <5> QED BY <3>5, <5>2, <5>3
        <4> QED BY <3>4, <4>2, <4>3
      <3>8. f[k + 1] = t
        BY <2>6 DEF t, q
      <3>9. 1..Len(f[k + 1]) = 1..(l + 1) /\ IsList(f[k + 1])
        BY <3>1, <3>8
      <3>10. \A i \in 1..Len(f[k + 1]) : \E a \in 1..(k + 1) : f[k + 1][i] = items[a]
        BY <3>6, <3>8, <3>9
      <3>11. ASSUME NEW i \in 1..Len(f[k + 1]), NEW j \in 1..Len(f[k + 1]), i < j
             PROVE  \E a, b \in 1..(k + 1) : a < b /\ f[k + 1][i] = items[a] /\ f[k + 1][j] = items[b]
        <4>1. i \in 1..(l + 1) /\ j \in 1..(l + 1)
          BY <3>9
        <4>2. PICK a \in 1..(k + 1), b \in 1..(k + 1) : a < b /\ t[i] = items[a] /\ t[j] = items[b]
          BY <3>7, <3>11, <4>1
        <4> QED BY <3>8, <4>2
      <3> QED BY <3>9, <3>10, <3>11 DEF Fine
    <2>7. f[k + 1] = q \/ f[k + 1] = Append(q, x)
      BY <2>3
    <2> HIDE DEF q
    <2> QED BY <2>5, <2>6, <2>7
  <1> HIDE DEF S
  <1>5. N \in S /\ N <= N
    BY <1>1, <1>3, <1>4, Induct
  <1>6. Fine(N)
    BY <1>1, <1>5 DEF S
  <1> DEFINE p == f[N]
  <1>7. /\ DOMAIN p = 1..Len(p)
        /\ \A i, j \in 1..Len(p) : i < j => \E a, b \in 1..N : a < b /\ p[i] = items[a] /\ p[j] = items[b]
    BY <1>6, ListIs DEF Fine
  <1> HIDE DEF p
  <1>8. Follows(p, items)
    <2> SUFFICES ASSUME NEW i \in DOMAIN p, NEW j \in DOMAIN p, i < j
                 PROVE  \E a, b \in DOMAIN items : a < b /\ p[i] = items[a] /\ p[j] = items[b]
      BY DEF Follows
    <2>1. i \in 1..Len(p) /\ j \in 1..Len(p)
      BY <1>7
    <2>2. PICK a \in 1..N, b \in 1..N : a < b /\ p[i] = items[a] /\ p[j] = items[b]
      BY <1>7, <2>1
    <2> QED BY <1>1, <2>2
  <1> QED BY <1>2, <1>8 DEF p

Relocating(f, n, locations, out, in, place) ==
    IF n = 0 THEN locations ELSE Relocation(f, n, out, in, place)

\* The locations after each move, as a function on how many.
LEMMA RelocatingIs ==
    ASSUME NEW loc, NEW out, NEW in, NEW place, NEW N \in Nat
    PROVE  \E f : f = [i \in 0..N |-> Relocating(f, i, loc, out, in, place)]
  <1> DEFINE Turn(f, i) == Relocating(f, i, loc, out, in, place)
             S == {n \in Nat : \E f : f = [i \in 0..n |-> Turn(f, i)]}
  <1>1. 0 \in S
    <2> DEFINE f == [i \in 0..0 |-> loc]
    <2>1. \A i \in 0..0 : Turn(f, i) = loc
      BY ZeroOnly DEF Relocating
    <2>2. f = [i \in 0..0 |-> Turn(f, i)]
      BY <2>1
    <2> QED BY <2>2
  <1>2. ASSUME NEW n \in Nat, n \in S
        PROVE  n + 1 \in S
    <2>1. PICK f : f = [i \in 0..n |-> Turn(f, i)]
      BY <1>2
    <2> DEFINE g == [i \in 0..(n + 1) |-> IF i = n + 1 THEN Turn(f, n + 1) ELSE f[i]]
    <2>2. \A i \in 0..n : g[i] = f[i] /\ f[i] = Turn(f, i)
      BY <2>1, OneFurther
    <2>3. g[n + 1] = Turn(f, n + 1) /\ g = [i \in 0..(n + 1) |-> g[i]]
      BY OneFurther
    <2> HIDE DEF g
    <2>4. \A i \in 0..(n + 1) : Turn(g, i) = Turn(f, i)
      BY <2>2, Below DEF Relocating, Relocation
    <2>5. \A i \in 0..(n + 1) : g[i] = Turn(g, i)
      BY <2>2, <2>3, <2>4, OneFurther
    <2>6. g = [i \in 0..(n + 1) |-> Turn(g, i)]
      BY <2>3, <2>5
    <2> QED BY <2>6
  <1> HIDE DEF S
  <1>3. N \in S
    BY <1>1, <1>2, Induct
  <1> QED BY <1>3 DEF S

\* The children that leave their keys, those that come to one, and the keys.
LeavingKeys(s, items) ==
    [n \in 1..Len(items) |-> IF IsChild(s.state[items[n].key]) THEN s.state[items[n].key] ELSE None]
ComingToKeys(items) ==
    [n \in 1..Len(items) |-> IF IsChild(items[n].value) THEN items[n].value ELSE None]
KeysOf(items) == [n \in 1..Len(items) |-> items[n].key]

\* The locations of a dict after an update are relocations, key by key.
LEMMA DictRelocates ==
    ASSUME NEW s, NEW items, Len(items) \in Nat
    PROVE  /\ DictLocationsAfter(s, items)[0] = s.metadata
           /\ \A n \in 1..Len(items) :
                DictLocationsAfter(s, items)[n] =
                  Relocation(DictLocationsAfter(s, items), n,
                             LeavingKeys(s, items), ComingToKeys(items), KeysOf(items))
  <1> DEFINE N == Len(items)
             out == LeavingKeys(s, items)
             in == ComingToKeys(items)
             place == KeysOf(items)
             Step(g, n) == DictLocationAfter(g[n - 1], s, items[n])
             Turn(g, n) == Relocating(g, n, s.metadata, out, in, place)
             f == CHOOSE g : g = [n \in 0..N |-> Turn(g, n)]
  <1>1. f = [n \in 0..N |-> Turn(f, n)]
    BY RelocatingIs
  <1>2. ASSUME NEW g, NEW n \in 0..N
        PROVE  (IF n = 0 THEN s.metadata ELSE Step(g, n)) = Turn(g, n)
    <2>1. CASE n = 0
      BY <2>1 DEF Relocating
    <2>2. CASE n # 0
      <3>1. n \in 1..N
        BY <2>2
      <3> DEFINE o == s.state[items[n].key]
                 v == items[n].value
      <3>2. /\ out[n] = IF IsChild(o) THEN o ELSE None
            /\ in[n] = IF IsChild(v) THEN v ELSE None
            /\ place[n] = items[n].key
        BY <3>1 DEF LeavingKeys, ComingToKeys, KeysOf
      <3>3. \A x : IsChild(x) => x # None
        BY NoneAssumption DEF IsChild, Values
      <3>4. Step(g, n) =
              LET freed == IF IsChild(o) THEN [g[n - 1] EXCEPT ![o] = None] ELSE g[n - 1]
              IN  IF IsChild(v) THEN [freed EXCEPT ![v] = items[n].key] ELSE freed
        BY DEF DictLocationAfter
      <3> HIDE DEF o, v, out, in, place
      <3>5. Step(g, n) = Relocation(g, n, out, in, place)
        BY <3>2, <3>3, <3>4 DEF Relocation
      <3> QED BY <2>2, <3>5 DEF Relocating
    <2> QED BY <2>1, <2>2
  <1>3. DictLocationsAfter(s, items) =
          CHOOSE g : g = [n \in 0..N |-> IF n = 0 THEN s.metadata ELSE Step(g, n)]
    BY DEF DictLocationsAfter
  <1> HIDE DEF Step, Turn
  <1>4. \A g : [n \in 0..N |-> IF n = 0 THEN s.metadata ELSE Step(g, n)] = [n \in 0..N |-> Turn(g, n)]
    BY <1>2
  <1>5. DictLocationsAfter(s, items) = f
    BY <1>3, <1>4
  <1> HIDE DEF f
  <1>6. \A n \in 0..N : f[n] = Turn(f, n)
    BY <1>1
  <1>7. 0 \in 0..N /\ \A n \in 1..N : n \in 0..N /\ n # 0
    OBVIOUS
  <1> QED BY <1>5, <1>6, <1>7 DEF Turn, Relocating

\* The states of a dict, its data, and what else its store has.
DictStates == [Keys -> Values \cup {None}]

DictData(state) ==
    [k \in Keys |-> IF relationship.data /\ state[k] # None THEN DataOf(state[k]) ELSE None]

\* A dict has the children of its values and their data, and each location that it has
\* is one where the child is.
DictExact(s) ==
    /\ s.state \in DictStates /\ NoChildTwice(s.state)
    /\ s.children = ChildrenIn({s.state[k] : k \in Keys})
    /\ s.data = DictData(s.state)
    /\ s.metadata \in [Kids -> Keys \cup {None}]
    /\ \A c \in Kids : s.metadata[c] # None => c \in s.children /\ s.state[s.metadata[c]] = c

\* Items of keys and values, each key once.
KeysApart(items) == \A i, j \in DOMAIN items : items[i].key = items[j].key => i = j

ItemsTyped(items) ==
    /\ IsList(items) /\ KeysApart(items)
    /\ \A i \in DOMAIN items : items[i].key \in Keys /\ items[i].value \in Values \cup {None}

\* Items of keys and values are items as an update takes them.
LEMMA ItemsTypedFit ==
    ASSUME NEW items, ItemsTyped(items)
    PROVE  /\ ItemsFit(items) /\ Len(items) \in Nat /\ DOMAIN items = 1..Len(items)
           /\ \A x \in ToSet(items) : x.key \in Keys /\ x.value \in Values \cup {None}
  <1>1. Len(items) \in Nat /\ DOMAIN items = 1..Len(items) /\ IsList(items)
    BY ListIs DEF ItemsTyped
  <1>2. \A x \in ToSet(items) : \E i \in DOMAIN items : x = items[i]
    BY DEF ToSet
  <1>3. KeysOnce(ToSet(items))
    BY <1>2 DEF KeysOnce, ItemsTyped, KeysApart
  <1>4. \A x \in ToSet(items) : x.key \in Keys /\ x.value \in Values \cup {None}
    BY <1>2 DEF ItemsTyped
  <1> QED BY <1>1, <1>3, <1>4 DEF ItemsFit

\* The items of an update that change something are items in the same order.
LEMMA EffectiveTyped ==
    ASSUME NEW s, NEW items, ItemsTyped(items)
    PROVE  /\ ItemsTyped(Effective(s, items))
           /\ Follows(Effective(s, items), items)
           /\ ToSet(Effective(s, items)) = {x \in ToSet(items) : x.value # s.state[x.key]}
  <1> DEFINE some == Effective(s, items)
  <1>1. /\ IsList(some) /\ Follows(some, items)
        /\ ToSet(some) = {x \in ToSet(items) : x.value # s.state[x.key]}
    BY EffectiveIs, EffectiveFollows DEF ItemsTyped
  <1> HIDE DEF some
  <1>2. DOMAIN some = 1..Len(some) /\ Len(some) \in Nat
        /\ \A i \in DOMAIN some : some[i] \in ToSet(some)
    BY <1>1, ListIs
  <1>3. \A i \in DOMAIN some : some[i].key \in Keys /\ some[i].value \in Values \cup {None}
    BY <1>1, <1>2, ItemsTypedFit
  <1>4. ASSUME NEW i \in DOMAIN some, NEW j \in DOMAIN some, i < j
        PROVE  some[i].key # some[j].key
    <2>1. PICK a \in DOMAIN items, b \in DOMAIN items : a < b /\ some[i] = items[a] /\ some[j] = items[b]
      BY <1>1, <1>4 DEF Follows
    <2>2. a # b
      BY <2>1, ItemsTypedFit
    <2> QED BY <2>1, <2>2 DEF ItemsTyped, KeysApart
  <1>5. KeysApart(some)
    <2> SUFFICES ASSUME NEW i \in DOMAIN some, NEW j \in DOMAIN some, some[i].key = some[j].key
                 PROVE  i = j
      BY DEF KeysApart
    <2>1. ~ i < j /\ ~ j < i
      BY <1>4
    <2> QED BY <1>2, <2>1
  <1> QED BY <1>1, <1>3, <1>5 DEF ItemsTyped, some

\* Where the children of a dict are after items that all change something, step by step.
LEMMA DictLocationsAre ==
    ASSUME NEW s, DictExact(s), NEW items, ItemsTyped(items)
    PROVE  \A n \in 0..Len(items) :
             LET f == DictLocationsAfter(s, items) IN
             /\ f[n] \in [Kids -> Keys \cup {None}]
             /\ \A c \in Kids :
                  /\ f[n][c] = None =>
                       \/ \E j \in 1..n : /\ IsChild(c) /\ s.state[items[j].key] = c
                                          /\ \A i \in j..n : items[i].value # c
                       \/ s.metadata[c] = None /\ \A i \in 1..n : ~ (IsChild(c) /\ items[i].value = c)
                  /\ f[n][c] # None =>
                       \/ f[n][c] = s.metadata[c] /\ \A j \in 1..n : ~ (IsChild(c) /\ s.state[items[j].key] = c)
                       \/ \E i \in 1..n : IsChild(c) /\ items[i].value = c /\ f[n][c] = items[i].key
  <1> DEFINE N == Len(items)
             f == DictLocationsAfter(s, items)
             out == LeavingKeys(s, items)
             in == ComingToKeys(items)
             place == KeysOf(items)
  <1>1. N \in Nat /\ DOMAIN items = 1..N
    BY ItemsTypedFit
  <1>2. /\ f[0] = s.metadata /\ s.metadata \in [Kids -> Keys \cup {None}]
        /\ \A n \in 1..N : f[n] = Relocation(f, n, out, in, place)
    BY <1>1, DictRelocates DEF DictExact
  <1>3. \A n \in 1..N : /\ out[n] = IF IsChild(s.state[items[n].key]) THEN s.state[items[n].key] ELSE None
                        /\ in[n] = IF IsChild(items[n].value) THEN items[n].value ELSE None
                        /\ place[n] = items[n].key
    BY DEF LeavingKeys, ComingToKeys, KeysOf
  <1>4. \A n \in 1..N : place[n] \in Keys
    BY <1>1, <1>3 DEF ItemsTyped
  <1> HIDE DEF f, out, in, place, N
  <1>5. \A n \in 1..N : out[n] \in Kids \cup {None} /\ in[n] \in Kids \cup {None}
    BY <1>3 DEF IsChild
  <1>6. \A k \in 0..N :
             /\ f[k] \in [Kids -> Keys \cup {None}]
             /\ \A c \in Kids :
                  /\ f[k][c] = None => GoneLast(f, k, out, in, c)
                  /\ f[k][c] # None => CameOrStayed(f, k, out, in, place, c)
    BY <1>1, <1>2, <1>4, <1>5, RelocatedIs, KeysAssumption
  <1>7. ASSUME NEW c \in Kids, NEW n \in 1..N
        PROVE  /\ out[n] = c <=> IsChild(c) /\ s.state[items[n].key] = c
               /\ in[n] = c <=> IsChild(c) /\ items[n].value = c
    BY <1>3, <1>7, NoneAssumption DEF Values
  <1> SUFFICES ASSUME NEW n \in 0..N, NEW c \in Kids
               PROVE  /\ f[n][c] = None =>
                           \/ \E j \in 1..n : /\ IsChild(c) /\ s.state[items[j].key] = c
                                              /\ \A i \in j..n : items[i].value # c
                           \/ s.metadata[c] = None /\ \A i \in 1..n : ~ (IsChild(c) /\ items[i].value = c)
                      /\ f[n][c] # None =>
                           \/ f[n][c] = s.metadata[c] /\ \A j \in 1..n : ~ (IsChild(c) /\ s.state[items[j].key] = c)
                           \/ \E i \in 1..n : IsChild(c) /\ items[i].value = c /\ f[n][c] = items[i].key
    BY <1>6 DEF f, N
  <1>8. \A j \in 1..n : j \in 1..N /\ \A i \in j..n : i \in 1..N
    BY <1>1
  <1>9. GoneLast(f, n, out, in, c) =>
           \/ \E j \in 1..n : /\ IsChild(c) /\ s.state[items[j].key] = c
                              /\ \A i \in j..n : items[i].value # c
           \/ s.metadata[c] = None /\ \A i \in 1..n : ~ (IsChild(c) /\ items[i].value = c)
    BY <1>2, <1>7, <1>8 DEF GoneLast
  <1>10. CameOrStayed(f, n, out, in, place, c) =>
           \/ f[n][c] = s.metadata[c] /\ \A j \in 1..n : ~ (IsChild(c) /\ s.state[items[j].key] = c)
           \/ \E i \in 1..n : IsChild(c) /\ items[i].value = c /\ f[n][c] = items[i].key
    BY <1>2, <1>3, <1>7, <1>8 DEF CameOrStayed
  <1> QED BY <1>6, <1>9, <1>10

\* What items make of the state, the children and the data.
ItemsIn(s, some, state) ==
    /\ state \in DictStates
    /\ \A i \in DOMAIN some : state[some[i].key] = some[i].value
    /\ \A k \in Keys : (\A i \in DOMAIN some : some[i].key # k) => state[k] = s.state[k]
    /\ ChildrenAfter(s, ItemsGone(s, some), ItemsPut(s, some)) = ChildrenIn({state[k] : k \in Keys})
    /\ DictDataAfter(s, some) = DictData(state)

\* What a dict has, and whom, after items were put into it.
LEMMA DictPutRight ==
    ASSUME versions \in [Kids -> {0, 1}],
           NEW s, DictExact(s), NEW some, ItemsTyped(some)
    PROVE  ItemsIn(s, some, DictStateAfter(s, some))
  <1> DEFINE state == DictStateAfter(s, some)
  <1>0. state = PutSet(s.state, ToSet(some))
    BY StateAfterPut
  <1> HIDE DEF state
  <1>1. /\ ItemsFit(some) /\ DOMAIN some = 1..Len(some)
        /\ \A x \in ToSet(some) : x.key \in Keys /\ x.value \in Values \cup {None}
    BY ItemsTypedFit
  <1>2. \A i \in DOMAIN some : some[i] \in ToSet(some)
    BY DEF ToSet
  <1>3. \A i \in DOMAIN some : some[i].key \in Keys /\ state[some[i].key] = some[i].value
    BY <1>0, <1>1, <1>2, PutIs DEF ItemsFit
  <1>4. \A k \in Keys : (\A i \in DOMAIN some : some[i].key # k) => state[k] = s.state[k]
    <2> SUFFICES ASSUME NEW k \in Keys, \A i \in DOMAIN some : some[i].key # k
                 PROVE  state[k] = s.state[k]
      OBVIOUS
    <2>1. \A x \in ToSet(some) : x.key # k
      BY DEF ToSet
    <2> QED BY <1>0, <1>1, <2>1, PutIs DEF ItemsFit
  <1>5. s.state \in DictStates
    BY DEF DictExact
  <1>6. ASSUME NEW k \in Keys
        PROVE  state[k] \in Values \cup {None}
    BY <1>3, <1>4, <1>5 DEF DictStates, ItemsTyped
  <1>7. state \in DictStates
    <2>1. state = [k \in Keys |-> state[k]]
      BY <1>0 DEF PutSet
    <2> QED BY <1>6, <2>1 DEF DictStates
  <1>8. ChildrenAfter(s, ItemsGone(s, some), ItemsPut(s, some)) = ChildrenIn({state[k] : k \in Keys})
    <2>1. s.children = ChildrenIn({s.state[k] : k \in Keys}) /\ NoChildTwice(s.state)
      BY DEF DictExact
    <2>2. ASSUME NEW c, IsChild(c)
          PROVE  (c \in s.children /\ c \notin ItemsGone(s, some)) \/ c \in ItemsPut(s, some)
                   <=> \E k \in Keys : state[k] = c
      <3>1. c \in s.children <=> \E k \in Keys : s.state[k] = c
        BY <2>1, <2>2 DEF ChildrenIn
      <3>2. c \in ItemsGone(s, some) <=> \E i \in DOMAIN some : s.state[some[i].key] = c
        BY <2>2 DEF ItemsGone, ChildrenIn
      <3>3. c \in ItemsPut(s, some) <=> \E i \in DOMAIN some : some[i].value = c
        BY <2>2 DEF ItemsPut, ChildrenIn
      <3>4. ASSUME NEW k \in Keys, state[k] = c
            PROVE  (c \in s.children /\ c \notin ItemsGone(s, some)) \/ c \in ItemsPut(s, some)
        <4>1. CASE \E i \in DOMAIN some : some[i].key = k
          BY <1>3, <3>3, <3>4, <4>1
        <4>2. CASE \A i \in DOMAIN some : some[i].key # k
          <5>1. s.state[k] = c
            BY <1>4, <3>4, <4>2
          <5>2. \A i \in DOMAIN some : s.state[some[i].key] # c
            BY <1>3, <2>1, <2>2, <4>2, <5>1 DEF NoChildTwice
          <5> QED BY <3>1, <3>2, <5>1, <5>2
        <4> QED BY <4>1, <4>2
      <3>5. ASSUME c \in s.children, c \notin ItemsGone(s, some)
            PROVE  \E k \in Keys : state[k] = c
        <4>1. PICK k \in Keys : s.state[k] = c
          BY <3>1, <3>5
        <4>2. \A i \in DOMAIN some : some[i].key # k
          BY <3>2, <3>5, <4>1
        <4> QED BY <1>4, <4>1, <4>2
      <3>6. ASSUME c \in ItemsPut(s, some)
            PROVE  \E k \in Keys : state[k] = c
        BY <1>3, <3>3, <3>6
      <3> QED BY <3>4, <3>5, <3>6
    <2>3. \A c : c \in ChildrenAfter(s, ItemsGone(s, some), ItemsPut(s, some)) => IsChild(c)
      BY <2>1 DEF ChildrenAfter, ChildrenIn, ItemsPut
    <2>4. \A c : c \in ChildrenIn({state[k] : k \in Keys}) <=> IsChild(c) /\ \E k \in Keys : state[k] = c
      BY DEF ChildrenIn
    <2> QED BY <2>2, <2>3, <2>4 DEF ChildrenAfter
  <1>9. DictDataAfter(s, some) = DictData(state)
    <2>1. DictStateAfter(s, some) = state
      BY DEF state
    <2>2. \A k \in Keys : s.data[k] = IF relationship.data /\ s.state[k] # None THEN DataOf(s.state[k]) ELSE None
      BY DEF DictExact, DictData
    <2>3. ASSUME NEW k \in Keys
          PROVE  (IF relationship.data /\ \E i \in DOMAIN some : some[i].key = k
                  THEN LET v == state[k] IN IF v = None THEN None ELSE DataOf(v)
                  ELSE s.data[k])
                   = IF relationship.data /\ state[k] # None THEN DataOf(state[k]) ELSE None
      <3>1. CASE \E i \in DOMAIN some : some[i].key = k
        <4>1. ~ relationship.data => s.data[k] = None
          BY <2>2
        <4> QED BY <3>1, <4>1
      <3>2. CASE \A i \in DOMAIN some : some[i].key # k
        BY <1>4, <2>2, <3>2
      <3> QED BY <3>1, <3>2
    <2> QED BY <2>1, <2>3 DEF DictDataAfter, DictData
  <1> QED BY <1>3, <1>4, <1>7, <1>8, <1>9 DEF ItemsIn, state

\* A dict stays exact when items are put, if no child is at two keys then; and has all
\* locations if it had, unless a child comes to a key before it leaves another one.
LEMMA DictPutExact ==
    ASSUME versions \in [Kids -> {0, 1}],
           NEW s, DictExact(s), NEW items, ItemsTyped(items), NEW t, t = PutAll(s, items),
           NoChildTwice(t.state)
    PROVE  /\ DictExact(t)
           /\ DictLocationsExact(s) /\ ~ KeyComesBeforeItLeaves(s.state, items)
                => DictLocationsExact(t)
  <1> DEFINE some == Effective(s, items)
             f == DictLocationsAfter(s, some)
             N == Len(some)
             m == t.metadata
  <1>1. ItemsTyped(some) /\ Follows(some, items) /\ N \in Nat /\ DOMAIN some = 1..N
    BY EffectiveTyped, ItemsTypedFit
  <1>2. /\ t.state = DictStateAfter(s, some) /\ t.data = DictDataAfter(s, some) /\ m = f[N]
        /\ t.children = ChildrenAfter(s, ItemsGone(s, some), ItemsPut(s, some))
    BY DEF PutAll
  <1> HIDE DEF some
  <1>4. /\ t.state \in DictStates
        /\ \A i \in DOMAIN some : t.state[some[i].key] = some[i].value
        /\ \A k \in Keys : (\A i \in DOMAIN some : some[i].key # k) => t.state[k] = s.state[k]
        /\ t.children = ChildrenIn({t.state[k] : k \in Keys})
        /\ t.data = DictData(t.state)
    <2>1. ItemsIn(s, some, DictStateAfter(s, some))
      BY <1>1, DictPutRight
    <2>2. ItemsIn(s, some, t.state)
      BY <1>2, <2>1
    <2> QED BY <1>2, <2>2 DEF ItemsIn
  <1>5. N \in 0..N
    BY <1>1
  <1>6. /\ m \in [Kids -> Keys \cup {None}]
        /\ \A c \in Kids :
             /\ m[c] = None =>
                  \/ \E j \in 1..N : /\ IsChild(c) /\ s.state[some[j].key] = c
                                     /\ \A i \in j..N : some[i].value # c
                  \/ s.metadata[c] = None /\ \A i \in 1..N : ~ (IsChild(c) /\ some[i].value = c)
             /\ m[c] # None =>
                  \/ m[c] = s.metadata[c] /\ \A j \in 1..N : ~ (IsChild(c) /\ s.state[some[j].key] = c)
                  \/ \E i \in 1..N : IsChild(c) /\ some[i].value = c /\ m[c] = some[i].key
    BY <1>1, <1>2, <1>5, DictLocationsAre
  <1> HIDE DEF m, N, f
  <1>7. /\ \A c : c \in t.children <=> IsChild(c) /\ \E k \in Keys : t.state[k] = c
        /\ \A c : c \in s.children <=> IsChild(c) /\ \E k \in Keys : s.state[k] = c
        /\ \A c \in Kids : s.metadata[c] # None => c \in s.children /\ s.state[s.metadata[c]] = c
        /\ s.metadata \in [Kids -> Keys \cup {None}]
        /\ \A i \in 1..N : some[i].key \in Keys
        /\ NoChildTwice(s.state)
    BY <1>1, <1>4 DEF DictExact, ChildrenIn, ItemsTyped
  <1>8. ASSUME NEW c \in Kids, m[c] # None
        PROVE  c \in t.children /\ t.state[m[c]] = c
    <2>1. CASE m[c] = s.metadata[c] /\ \A j \in 1..N : ~ (IsChild(c) /\ s.state[some[j].key] = c)
      <3>1. m[c] \in Keys /\ s.state[m[c]] = c /\ IsChild(c)
        BY <1>7, <1>8, <2>1
      <3>2. \A j \in 1..N : some[j].key # m[c]
        BY <2>1, <3>1
      <3>3. t.state[m[c]] = c
        BY <1>1, <1>4, <3>1, <3>2
      <3> QED BY <1>7, <3>1, <3>3
    <2>2. CASE \E i \in 1..N : IsChild(c) /\ some[i].value = c /\ m[c] = some[i].key
      BY <1>1, <1>4, <1>7, <2>2
    <2> QED BY <1>6, <1>8, <2>1, <2>2
  <1>9. DictExact(t)
    BY <1>4, <1>6, <1>8 DEF DictExact, m
  <1>10. ASSUME DictLocationsExact(s), ~ KeyComesBeforeItLeaves(s.state, items),
                NEW c \in Kids, c \in t.children
         PROVE  m[c] # None
    <2> SUFFICES ASSUME m[c] = None PROVE FALSE
      OBVIOUS
    <2>1. PICK k \in Keys : t.state[k] = c /\ IsChild(c)
      BY <1>7, <1>10
    <2>2. CASE \E i \in 1..N : some[i].key = k
      <3>1. PICK i \in 1..N : some[i].key = k
        BY <2>2
      <3>2. some[i].value = c
        BY <1>1, <1>4, <2>1, <3>1
      <3>3. PICK j \in 1..N : s.state[some[j].key] = c /\ \A a \in j..N : some[a].value # c
        BY <1>6, <2>1, <3>2
      <3>4. i < j /\ i \in DOMAIN some /\ j \in DOMAIN some /\ Follows(some, items)
        BY <3>2, <3>3, <1>1 DEF N
      <3>5. PICK a \in DOMAIN items, b \in DOMAIN items : a < b /\ some[i] = items[a] /\ some[j] = items[b]
        BY <3>4 DEF Follows
      <3> QED BY <1>10, <2>1, <3>2, <3>3, <3>5 DEF KeyComesBeforeItLeaves
    <2>3. CASE \A i \in 1..N : some[i].key # k
      <3>1. s.state[k] = c
        BY <1>1, <1>4, <2>1, <2>3
      <3>2. s.metadata[c] # None
        BY <1>7, <1>10, <2>1, <3>1 DEF DictLocationsExact
      <3>3. PICK j \in 1..N : s.state[some[j].key] = c
        BY <1>6, <3>2
      <3> QED BY <1>7, <2>1, <2>3, <3>1, <3>3 DEF NoChildTwice
    <2> QED BY <2>2, <2>3
  <1>11. DictLocationsExact(s) /\ ~ KeyComesBeforeItLeaves(s.state, items)
                => DictLocationsExact(t)
    BY <1>8, <1>10 DEF DictLocationsExact, m
  <1> QED BY <1>9, <1>11

\* The entry of a change: both states are of a dict, the items put are of keys and values,
\* and the old ones all change something.
DictEntryExact(e) ==
    /\ e[1].from \in DictStates /\ e[1].to \in DictStates
    /\ NoChildTwice(e[1].from) /\ NoChildTwice(e[1].to)
    /\ ItemsTyped(e[1].new) /\ ItemsTyped(e[1].old)
    /\ \A i \in DOMAIN e[1].old : e[1].to[e[1].old[i].key] # e[1].old[i].value

DictMore ==
    /\ versions \in [Kids -> {0, 1}]
    /\ relationship.data => relationship.child
    /\ DictExact(store)
    /\ \A e \in Entries : DictEntryExact(e)

\* An update of an exact dict records an exact entry.
LEMMA DictEntryMade ==
    ASSUME versions \in [Kids -> {0, 1}],
           NEW s, DictExact(s), NEW items, ItemsTyped(items), NoChildTwice(PutAll(s, items).state)
    PROVE  DictEntryExact(<<DictUpdate(s, items)>>)
  <1> DEFINE some == Effective(s, items)
             old == OldItems(s, some)
             to == PutAll(s, items).state
             N == Len(some)
  <1>1. /\ ItemsTyped(some) /\ N \in Nat /\ DOMAIN some = 1..N
        /\ ToSet(some) = {x \in ToSet(items) : x.value # s.state[x.key]}
    BY EffectiveTyped, ItemsTypedFit
  <1>2. to = DictStateAfter(s, some)
    BY DEF PutAll
  <1> HIDE DEF some, to, N
  <1>3. to \in DictStates /\ \A i \in DOMAIN some : to[some[i].key] = some[i].value
    <2>1. ItemsIn(s, some, DictStateAfter(s, some))
      BY <1>1, DictPutRight
    <2> QED BY <1>2, <2>1 DEF ItemsIn
  <1>4. old = [i \in 1..N |-> [key |-> some[i].key, value |-> s.state[some[i].key]]]
    BY <1>1 DEF OldItems
  <1> HIDE DEF old
  <1>5. /\ DOMAIN old = 1..N
        /\ \A i \in 1..N : old[i].key = some[i].key /\ old[i].value = s.state[some[i].key]
    BY <1>4
  <1>6. \A i \in 1..N : old[i].key \in Keys /\ old[i].value \in Values \cup {None}
    BY <1>1, <1>5 DEF ItemsTyped, DictExact, DictStates
  <1>7. IsList(old)
    <2>1. old \in [1..N -> ToSet(old)]
      BY <1>4 DEF ToSet
    <2> QED BY <1>1, <2>1 DEF IsList
  <1>8. ItemsTyped(old)
    BY <1>1, <1>5, <1>6, <1>7 DEF ItemsTyped, KeysApart
  <1>9. \A i \in 1..N : to[old[i].key] # old[i].value
    <2>1. \A i \in 1..N : some[i].value # s.state[some[i].key]
      BY <1>1 DEF ToSet
    <2> QED BY <1>1, <1>3, <1>5, <2>1
  <1> DEFINE c == DictUpdate(s, items)
             e == <<c>>
  <1>10. c.from = s.state /\ c.to = to /\ c.new = items /\ c.old = old
    BY DEF DictUpdate, old, some, to
  <1>11. e[1] = c
    BY OneChange
  <1> HIDE DEF c, e
  <1>12. DictEntryExact(e)
    BY <1>3, <1>5, <1>8, <1>9, <1>10, <1>11 DEF DictEntryExact, DictExact, to
  <1> QED BY <1>12 DEF e, c

\* Of any kind: which entry a step made, undid or redid.
LEMMA EntryMade ==
    ASSUME BothLists, NEW s, NEW e, Record(s, e)
    PROVE  Made /\ ~ Undid /\ Entry = e
  <1>1. Len(done) \in Nat
    BY ListIs DEF BothLists
  <1>2. Len(done') = Len(done) + 1 /\ done'[Len(done) + 1] = e
    BY Recorded
  <1>3. Last(done') = e /\ Made /\ ~ Undid
    BY <1>1, <1>2 DEF Last, Made, Undid
  <1> QED BY <1>3 DEF Entry

\* An undo is of the last entry that was done.
LEMMA EntryUndone ==
    ASSUME BothLists, NEW s, done # <<>>, UndoTo(s)
    PROVE  ~ Made /\ Undid /\ Entry = Last(done)
  <1>1. Len(done) \in Nat
    BY ListIs DEF BothLists
  <1>2. Len(done') = Len(done) - 1
    BY UndoneTo
  <1>3. Undid /\ ~ Made
    BY <1>1, <1>2 DEF Made, Undid
  <1> QED BY <1>3 DEF Entry

\* A redo is of the last entry that was undone.
LEMMA EntryRedone ==
    ASSUME BothLists, NEW s, undone # <<>>, RedoTo(s)
    PROVE  Made /\ ~ Undid /\ Entry = Last(undone)
  <1>1. Len(done) \in Nat
    BY ListIs DEF BothLists
  <1>2. /\ Len(done') = Len(done) + 1
        /\ done'[Len(done) + 1] = undone[Len(undone)] /\ Last(undone) = undone[Len(undone)]
    BY RedoneTo
  <1>3. Last(done') = Last(undone) /\ Made /\ ~ Undid
    BY <1>1, <1>2 DEF Last, Made, Undid
  <1> QED BY <1>3 DEF Entry

\* What StoreFollows says of the locations of a dict.
KeysFollow(s, t) == DictLocationsExact(s) /\ ~ ComesBeforeItLeaves => DictLocationsExact(t)

\* A step that leaves a dict exact, and no entry that is not.
LEMMA DictMoreStays ==
    ASSUME DictMore, class' = class, versions' = versions, DictExact(store'),
           \A e \in Entries' : DictEntryExact(e)
    PROVE  DictMore'
  <1>1. relationship' = relationship
    BY DEF relationship
  <1>2. DictExact(store)'
    BY <1>1 DEF DictExact, DictData, DataOf, NoChildTwice, ChildrenIn, IsChild
  <1>3. \A e \in Entries' : DictEntryExact(e)'
    BY <1>1 DEF DictEntryExact, NoChildTwice, IsChild
  <1> QED BY <1>1, <1>2, <1>3 DEF DictMore

\* An update of items keeps the second invariant of a dict, and locations follow.
LEMMA UpdateItemsExact ==
    ASSUME DictMore, DictInv, NEW items, ItemsTyped(items), UpdateItems(items)
    PROVE  DictMore' /\ KeysFollow(store, store')
  <1> DEFINE t == PutAll(store, items)
             c == DictUpdate(store, items)
             e == <<c>>
  <1>1. PutAllowed(store, items) /\ Record(t, e)
    BY DEF UpdateItems
  <1>2. NoChildTwice(t.state)
    BY <1>1 DEF PutAllowed, PutAll
  <1>3. DictEntryExact(e)
    BY <1>2, DictEntryMade DEF DictMore
  <1>4. c.type = "DictUpdate" /\ c.new = items /\ e[1] = c
    BY OneChange DEF DictUpdate
  <1>5. /\ DictExact(t)
        /\ DictLocationsExact(store) /\ ~ KeyComesBeforeItLeaves(store.state, items)
             => DictLocationsExact(t)
    BY <1>2, DictPutExact DEF DictMore
  <1> HIDE DEF t, c, e
  <1>6. Entries' \subseteq Entries \cup {e} /\ ~ Undid /\ Entry = e
    BY <1>1, EntriesRecorded, EntryMade DEF DictInv
  <1>7. store' = t /\ class' = class /\ versions' = versions
    BY <1>1 DEF Record, fixed
  <1>8. DictMore'
    BY <1>3, <1>5, <1>6, <1>7, DictMoreStays DEF DictMore
  <1>9. KeyComesBeforeItLeaves(store.state, items) => ComesBeforeItLeaves
    BY <1>4, <1>6 DEF ComesBeforeItLeaves, Change
  <1> QED BY <1>5, <1>7, <1>8, <1>9 DEF KeysFollow

\* So does a change of the data of a child.
LEMMA DictChildExact ==
    ASSUME DictMore, DictInv, NEW k \in Kids, k \in store.children => DictLocated(k),
           ChildChanges(k, DictChildReplaced(k))
    PROVE  DictMore' /\ KeysFollow(store, store')
  <1> DEFINE m == store.metadata
  <1>0. PICK state : state = store.state
    OBVIOUS
  <1>1. /\ versions' \in [Kids -> {0, 1}] /\ class' = class
        /\ store' = DictChildReplaced(k) /\ done' = done /\ undone' = undone
        /\ DataOf(k)' = NewDataOf(k) /\ \A v : v # k => DataOf(v)' = DataOf(v)
    BY ChildChanged DEF DictMore
  <1>2. /\ relationship' = relationship /\ Entries' = Entries
        /\ \A e : DictEntryExact(e)' <=> DictEntryExact(e)
    BY <1>1 DEF relationship, Entries, DictEntryExact, NoChildTwice, IsChild
  <1>3. /\ state \in DictStates /\ NoChildTwice(state)
        /\ \A c : c \in store.children <=> IsChild(c) /\ \E j \in Keys : state[j] = c
        /\ store.data = DictData(state)
        /\ m \in [Kids -> Keys \cup {None}]
        /\ \A c \in Kids : m[c] # None => c \in store.children /\ state[m[c]] = c
        /\ relationship.data => relationship.child
    BY <1>0 DEF DictMore, DictExact, ChildrenIn
  <1>4. /\ store'.state = state /\ store'.metadata = m /\ store'.children = store.children
        /\ \/ store'.data = store.data /\ (k \notin store.children \/ ~ relationship.data)
           \/ /\ k \in store.children /\ relationship.data
              /\ store'.data = [store.data EXCEPT ![m[k]] = NewDataOf(k)]
    <2>1. CASE k \notin store.children \/ ~ relationship.data
      BY <1>0, <1>1, <2>1 DEF DictChildReplaced
    <2>2. CASE k \in store.children /\ relationship.data
      <3>1. store' = [store EXCEPT !.data[m[k]] = NewDataOf(k)]
        BY <1>1, <2>2 DEF DictChildReplaced
      <3>2. IsStore(store)
        BY DEF DictInv
      <3>3. store' = [state |-> store.state, data |-> [store.data EXCEPT ![m[k]] = NewDataOf(k)],
                      metadata |-> m, children |-> store.children]
        BY <3>1, <3>2 DEF IsStore
      <3> QED BY <1>0, <2>2, <3>3
    <2> QED BY <2>1, <2>2
  <1>5. store'.data = DictData(state)'
    <2> DEFINE New(j) == IF relationship.data /\ state[j] # None THEN DataOf(state[j])' ELSE None
    <2>1. DictData(state)' = [j \in Keys |-> New(j)]
      BY <1>2, <1>4 DEF DictData
    <2>2. store.data = [j \in Keys |-> IF relationship.data /\ state[j] # None
                                       THEN DataOf(state[j]) ELSE None]
      BY <1>3 DEF DictData
    <2>3. \A j \in Keys : state[j] # k => New(j) = store.data[j]
      BY <1>1, <2>2
    <2>4. CASE store'.data = store.data /\ (k \notin store.children \/ ~ relationship.data)
      <3>1. \A j \in Keys : relationship.data => state[j] # k
        BY <1>3, <2>4 DEF IsChild
      <3>2. \A j \in Keys : New(j) = store.data[j]
        BY <2>2, <2>3, <3>1
      <3> QED BY <2>1, <2>2, <2>4, <3>2
    <2>5. CASE /\ k \in store.children /\ relationship.data
               /\ store'.data = [store.data EXCEPT ![m[k]] = NewDataOf(k)]
      <3>1. m[k] \in Keys /\ state[m[k]] = k /\ IsChild(k) /\ k # None
        BY <1>3, <2>5, NoneAssumption DEF DictLocated, Values
      <3>2. \A j \in Keys : j # m[k] => state[j] # k
        BY <1>3, <3>1 DEF NoChildTwice
      <3>3. \A j \in Keys : j = m[k] => New(j) = NewDataOf(k)
        BY <1>1, <2>5, <3>1
      <3> HIDE DEF New
      <3>4. \A j \in Keys : [store.data EXCEPT ![m[k]] = NewDataOf(k)][j] = New(j)
        BY <2>2, <2>3, <3>1, <3>2, <3>3
      <3> QED BY <2>1, <2>2, <2>5, <3>4
    <2> QED BY <1>4, <2>4, <2>5
  <1>6. DictExact(store)'
    BY <1>2, <1>3, <1>4, <1>5 DEF DictExact, NoChildTwice, ChildrenIn, IsChild
  <1>7. DictLocationsExact(store) => DictLocationsExact(store')
    BY <1>0, <1>4 DEF DictLocationsExact
  <1> QED BY <1>1, <1>2, <1>3, <1>6, <1>7 DEF DictMore, KeysFollow

\* Items that may be put, or none, leave a dict exact.
LEMMA DictItemsBack ==
    ASSUME DictMore, NEW items, ItemsTyped(items), items = <<>> \/ PutAllowed(store, items),
           NEW t, t = PutAll(store, items)
    PROVE  /\ DictExact(t)
           /\ DictLocationsExact(store) /\ ~ KeyComesBeforeItLeaves(store.state, items)
                => DictLocationsExact(t)
  <1>1. DictExact(store) /\ versions \in [Kids -> {0, 1}]
    BY DEF DictMore
  <1>2. NoChildTwice(t.state)
    <2>1. CASE PutAllowed(store, items)
      BY <2>1 DEF PutAllowed, PutAll
    <2>2. CASE items = <<>>
      <3>1. t.state = PutSet(store.state, {})
        BY <2>2, PutAllIs, ItemsTypedFit, EmptyList
      <3>2. t.state = store.state
        BY <1>1, <3>1 DEF PutSet, DictExact, DictStates
      <3> QED BY <1>1, <3>2 DEF DictExact
    <2> QED BY <2>1, <2>2
  <1> QED BY <1>1, <1>2, DictPutExact

\* So does an undo.
LEMMA DictUndoExact ==
    ASSUME DictMore, DictInv, done # <<>>, DictUndoable(Last(done)), UndoTo(DictUndone(Last(done)))
    PROVE  DictMore' /\ KeysFollow(store, store')
  <1> DEFINE t == DictUndone(Last(done))
  <1>0. PICK e : e = Last(done)
    OBVIOUS
  <1>1. e \in Entries /\ Entries' \subseteq Entries
    BY <1>0, UndoneTo, EntriesUndone DEF DictInv, Entries
  <1>2. /\ store' = t /\ class' = class /\ versions' = versions
        /\ t = PutAll(store, e[1].old)
    BY <1>0 DEF UndoTo, fixed, DictUndone
  <1>3. /\ DictEntry(e) /\ DictEntryExact(e) /\ ItemsTyped(e[1].old)
        /\ e[1].old = <<>> \/ PutAllowed(store, e[1].old)
    BY <1>0, <1>1 DEF DictInv, DictMore, DictEntryExact, DictUndoable
  <1> HIDE DEF t
  <1>4. /\ DictExact(t)
        /\ DictLocationsExact(store) /\ ~ KeyComesBeforeItLeaves(store.state, e[1].old)
             => DictLocationsExact(t)
    BY <1>2, <1>3, DictItemsBack
  <1>5. Undid /\ Entry = e
    BY <1>0, EntryUndone DEF DictInv
  <1>6. KeyComesBeforeItLeaves(store.state, e[1].old) => ComesBeforeItLeaves
    BY <1>3, <1>5 DEF ComesBeforeItLeaves, Change, DictEntry
  <1>7. \A f \in Entries' : DictEntryExact(f)
    BY <1>1 DEF DictMore
  <1>8. DictMore'
    BY <1>2, <1>4, <1>7, DictMoreStays
  <1> QED BY <1>2, <1>4, <1>6, <1>8 DEF KeysFollow

\* So does a redo.
LEMMA DictRedoExact ==
    ASSUME DictMore, DictInv, undone # <<>>, DictRedoable(Last(undone)),
           RedoTo(DictRedone(Last(undone)))
    PROVE  DictMore' /\ KeysFollow(store, store')
  <1> DEFINE t == DictRedone(Last(undone))
  <1>0. PICK e : e = Last(undone)
    OBVIOUS
  <1>1. e \in Entries /\ Entries' \subseteq Entries
    BY <1>0, RedoneTo, EntriesRedone DEF DictInv, Entries
  <1>2. /\ store' = t /\ class' = class /\ versions' = versions
        /\ t = PutAll(store, e[1].new)
    BY <1>0 DEF RedoTo, fixed, DictRedone
  <1>3. /\ DictEntry(e) /\ DictEntryExact(e) /\ ItemsTyped(e[1].new)
        /\ PutAllowed(store, e[1].new)
    BY <1>0, <1>1 DEF DictInv, DictMore, DictEntryExact, DictRedoable
  <1> HIDE DEF t
  <1>4. /\ DictExact(t)
        /\ DictLocationsExact(store) /\ ~ KeyComesBeforeItLeaves(store.state, e[1].new)
             => DictLocationsExact(t)
    BY <1>2, <1>3, DictItemsBack
  <1>5. ~ Undid /\ Entry = e
    BY <1>0, EntryRedone DEF DictInv
  <1>6. KeyComesBeforeItLeaves(store.state, e[1].new) => ComesBeforeItLeaves
    BY <1>3, <1>5 DEF ComesBeforeItLeaves, Change, DictEntry
  <1>7. \A f \in Entries' : DictEntryExact(f)
    BY <1>1 DEF DictMore
  <1>8. DictMore'
    BY <1>2, <1>4, <1>7, DictMoreStays
  <1> QED BY <1>2, <1>4, <1>6, <1>8 DEF KeysFollow

\* Items that are made in a row, each key once.
LEMMA ItemsMade ==
    ASSUME NEW n \in Nat, NEW items, DOMAIN items = 1..n, items = [i \in 1..n |-> items[i]],
           \A i, j \in 1..n : items[i].key = items[j].key => i = j,
           \A i \in 1..n : items[i].key \in Keys /\ items[i].value \in Values \cup {None}
    PROVE  ItemsTyped(items)
  <1>1. IsList(items)
    BY SequenceFits DEF ItemsFit
  <1> QED BY <1>1 DEF ItemsTyped, KeysApart

\* One item on its own.
LEMMA OneItemTyped ==
    ASSUME NEW k \in Keys, NEW v \in Values \cup {None}
    PROVE  ItemsTyped(<<[key |-> k, value |-> v]>>)
  <1> DEFINE x == [key |-> k, value |-> v]
             items == <<x>>
  <1>1. DOMAIN items = {1} /\ items[1] = x
    BY OneChange
  <1>2. x.key = k /\ x.value = v
    OBVIOUS
  <1>3. IsList(items)
    BY OneItem DEF ItemsFit
  <1> HIDE DEF x, items
  <1> QED BY <1>1, <1>2, <1>3 DEF ItemsTyped, KeysApart, items, x

\* Every step keeps the second invariant of a dict, and locations follow.
LEMMA DictMoreStep ==
    ASSUME DictMore, DictInv, DictNext
    PROVE  DictMore' /\ KeysFollow(store, store')
  <1>1. CASE DictCalls
    <2>1. ASSUME NEW k \in Keys, NEW v \in Values \cup {None}, SetKey(k, v)
          PROVE  DictMore' /\ KeysFollow(store, store')
      BY <2>1, OneItemTyped, UpdateItemsExact DEF SetKey
    <2>2. CASE \E items \in DictItems : UpdateItems(items)
      <3>1. PICK items \in DictItems : UpdateItems(items)
        BY <2>2
      <3>2. PICK n \in 1..2 : items \in [1..n -> [key : Keys, value : Values \cup {None}]]
        BY DEF DictItems
      <3>3. Len(items) = n
        BY <3>2
      <3>4. \A i, j \in 1..n : items[i].key = items[j].key => i = j
        <4>1. n = 2 => items[1].key # items[2].key
          BY <3>3 DEF DictItems
        <4>2. \A i \in 1..n : i = 1 \/ (i = 2 /\ n = 2)
          OBVIOUS
        <4> QED BY <4>1, <4>2
      <3>5. n \in Nat /\ DOMAIN items = 1..n /\ items = [i \in 1..n |-> items[i]]
        BY <3>2
      <3>6. \A i \in 1..n : items[i].key \in Keys /\ items[i].value \in Values \cup {None}
        BY <3>2
      <3> QED BY <3>1, <3>4, <3>5, <3>6, ItemsMade, UpdateItemsExact
    <2>3. CASE \E k \in Keys, v \in Values : SetKey(k, v)
      BY <2>1, <2>3
    <2>4. CASE \E k \in Keys : RemoveKey(k)
      BY <2>1, <2>4 DEF RemoveKey
    <2>5. CASE \E k \in Keys : DiscardKey(k)
      BY <2>1, <2>5 DEF DiscardKey, RemoveKey
    <2>6. CASE \E k \in Keys, v \in Values : SetDefault(k, v)
      BY <2>1, <2>6 DEF SetDefault
    <2>7. CASE ClearDict
      <3> DEFINE S == {k \in Keys : store.state[k] # None}
      <3>1. PICK keys \in SetToSeqs(S) :
              UpdateItems([i \in DOMAIN keys |-> [key |-> keys[i], value |-> None]])
        BY <2>7 DEF ClearDict
      <3>2. IsFiniteSet(S) /\ S \subseteq Keys
        BY KeysAssumption, FS_Subset
      <3> HIDE DEF S
      <3> DEFINE n == Cardinality(S)
                 items == [i \in DOMAIN keys |-> [key |-> keys[i], value |-> None]]
      <3>3. /\ n \in Nat /\ DOMAIN keys = 1..n
            /\ \A i, j \in 1..n : keys[i] = keys[j] => i = j
            /\ \A i \in 1..n : keys[i] \in S
        BY <3>2, Permuted
      <3> HIDE DEF n
      <3>4. /\ DOMAIN items = 1..n /\ items = [i \in 1..n |-> items[i]]
            /\ \A i \in 1..n : items[i].key = keys[i] /\ items[i].value = None
        BY <3>3
      <3> HIDE DEF items
      <3>5. ItemsTyped(items)
        BY <3>2, <3>3, <3>4, ItemsMade
      <3> QED BY <3>1, <3>5, UpdateItemsExact DEF items
    <2> QED BY <1>1, <2>2, <2>3, <2>4, <2>5, <2>6, <2>7 DEF DictCalls
  <1>2. CASE \E k \in Kids : (k \in store.children => DictLocated(k))
                             /\ ChildChanges(k, DictChildReplaced(k))
    BY <1>2, DictChildExact
  <1>3. CASE done # <<>> /\ DictUndoable(Last(done)) /\ UndoTo(DictUndone(Last(done)))
    BY <1>3, DictUndoExact
  <1>4. CASE undone # <<>> /\ DictRedoable(Last(undone)) /\ RedoTo(DictRedone(Last(undone)))
    BY <1>4, DictRedoExact
  <1> QED BY <1>1, <1>2, <1>3, <1>4 DEF DictNext

\* It holds of a dict that is made.
LEMMA DictMoreStart ==
    ASSUME versions = [k \in Kids |-> 0], done = <<>>, undone = <<>>,
           NEW a, class = DictCls(a), DictInit
    PROVE  DictMore
  <1>1. versions \in [Kids -> {0, 1}] /\ (relationship.data => relationship.child)
    BY DataOfChildren
  <1>2. Entries = {}
    BY EmptyList DEF Entries
  <1>3. DictExact(EmptyDict) /\ EmptyDict.state = [k \in Keys |-> None]
    <2>1. ~ IsChild(None)
      BY NoneAssumption DEF IsChild, Values
    <2>2. \A S : ChildrenIn({None : k \in S}) = {}
      BY <2>1 DEF ChildrenIn
    <2> QED BY <2>1, <2>2 DEF DictExact, EmptyDict, DictStates, DictData, NoChildTwice, ChildrenIn
  <1>4. PICK state \in [Keys -> Values \cup {None}] :
          /\ NoChildTwice(state)
          /\ \E keys \in SetToSeqs({k \in Keys : state[k] # None}) :
               store = PutAll(EmptyDict, DictItemsOf(state, keys))
    BY DEF DictInit
  <1> DEFINE S == {k \in Keys : state[k] # None}
             n == Cardinality(S)
  <1>5. PICK keys \in SetToSeqs(S) : store = PutAll(EmptyDict, DictItemsOf(state, keys))
    BY <1>4
  <1>6. IsFiniteSet(S) /\ S \subseteq Keys /\ \A k \in Keys : k \notin S => state[k] = None
    BY KeysAssumption, FS_Subset
  <1> HIDE DEF S
  <1>7. /\ n \in Nat /\ DOMAIN keys = 1..n
        /\ \A i, j \in 1..n : keys[i] = keys[j] => i = j
        /\ \A i \in 1..n : keys[i] \in S
        /\ \A x \in S : \E i \in 1..n : keys[i] = x
    BY <1>6, Permuted
  <1> DEFINE items == DictItemsOf(state, keys)
  <1> HIDE DEF n
  <1>8. /\ DOMAIN items = 1..n /\ items = [i \in 1..n |-> items[i]]
        /\ \A i \in 1..n : items[i].key = keys[i] /\ items[i].value = state[keys[i]]
    BY <1>7 DEF DictItemsOf
  <1> HIDE DEF items
  <1>9. ItemsTyped(items)
    BY <1>6, <1>7, <1>8, ItemsMade
  <1> DEFINE t == PutAll(EmptyDict, items)
  <1>10. t.state = PutSet(EmptyDict.state, ToSet(items)) /\ KeysOnce(ToSet(items))
    BY <1>9, ItemsTypedFit, PutAllIs DEF ItemsFit
  <1> HIDE DEF t
  <1>11. \A k \in Keys : t.state[k] = state[k]
    <2> SUFFICES ASSUME NEW k \in Keys PROVE t.state[k] = state[k]
      OBVIOUS
    <2>1. CASE k \in S
      <3>1. PICK i \in 1..n : keys[i] = k
        BY <1>7, <2>1
      <3>2. items[i] \in ToSet(items) /\ items[i].key = k /\ items[i].value = state[k]
        BY <1>8, <3>1 DEF ToSet
      <3> QED BY <1>10, <3>2, PutIs
    <2>2. CASE k \notin S
      <3>1. \A x \in ToSet(items) : x.key # k
        BY <1>7, <1>8, <2>2 DEF ToSet
      <3>2. t.state[k] = EmptyDict.state[k]
        BY <1>10, <3>1, PutIs
      <3> QED BY <1>3, <1>6, <2>2, <3>2
    <2> QED BY <2>1, <2>2
  <1>12. NoChildTwice(t.state)
    BY <1>4, <1>11 DEF NoChildTwice
  <1>13. DictExact(t)
    BY <1>1, <1>3, <1>9, <1>12, DictPutExact DEF t
  <1>14. store = t
    BY <1>5 DEF t, items
  <1> QED BY <1>1, <1>2, <1>13, <1>14 DEF DictMore

\* What it says of the store is what the properties ask for.
LEMMA DictMoreShows ==
    DictMore => /\ versions \in [Kids -> {0, 1}]
                /\ store.children \subseteq Kids /\ store.state \in [Keys -> Values \cup {None}]
                /\ store.children = ChildrenIn(DictHolds(store))
                /\ DictDataExact(store)
  <1> SUFFICES ASSUME DictMore
               PROVE  /\ store.children \subseteq Kids
                      /\ store.children = ChildrenIn(DictHolds(store))
                      /\ DictDataExact(store)
    BY DEF DictMore, DictExact, DictStates
  <1>1. /\ store.children = ChildrenIn({store.state[k] : k \in Keys})
        /\ store.data = DictData(store.state)
    BY DEF DictMore, DictExact
  <1>2. ~ IsChild(None)
    BY NoneAssumption DEF IsChild, Values
  <1>3. ChildrenIn(DictHolds(store)) = ChildrenIn({store.state[k] : k \in Keys})
    BY <1>2 DEF ChildrenIn, DictHolds
  <1>4. DictDataExact(store)
    BY <1>1 DEF DictDataExact, DictData
  <1>5. store.children \subseteq Kids
    BY <1>1 DEF ChildrenIn, IsChild
  <1> QED BY <1>1, <1>3, <1>4, <1>5

\* The last entry can be undone where it ended: the children that leave have locations,
\* and those that come are not there.
LEMMA DictMoreUndo ==
    ASSUME DictMore, DictInv, NEW e \in Entries, store.state = EntryTo(e), DictLocationsExact(store)
    PROVE  DictUndoable(e)
  <1> DEFINE c == e[1]
             old == c.old
             some == Effective(store, old)
             N == Len(some)
             f == DictLocationsAfter(store, some)
             back == DictStateAfter(store, some)
  <1>1. /\ DictEntry(e) /\ DictEntryExact(e) /\ DictExact(store) /\ store.state = c.to
    BY DictEntryRestores DEF DictMore, DictInv
  <1>2. /\ c.from = PutSet(c.to, ToSet(old)) /\ NoChildTwice(c.from) /\ NoChildTwice(c.to)
        /\ \A x \in ToSet(old) : c.from[x.key] = x.value
        /\ ItemsTyped(old) /\ c.from \in DictStates /\ c.to \in DictStates
        /\ \A i \in DOMAIN old : c.to[old[i].key] # old[i].value
    BY <1>1 DEF DictEntry, DictEntryExact
  <1> HIDE DEF c
  <1>3. /\ ItemsTyped(some) /\ N \in Nat /\ DOMAIN some = 1..N
        /\ ToSet(some) = {x \in ToSet(old) : x.value # store.state[x.key]}
    BY <1>2, EffectiveTyped, ItemsTypedFit
  <1>4. ItemsFit(old)
    BY <1>2, ItemsTypedFit
  <1>5. back = c.from
    <2>1. back = PutSet(store.state, ToSet(some))
      BY StateAfterPut
    <2> HIDE DEF some, old, back
    <2>2. PutSet(store.state, ToSet(some)) = PutSet(store.state, ToSet(old))
      BY <1>3, <1>4, PutEffective DEF ItemsFit
    <2> QED BY <1>1, <1>2, <2>1, <2>2 DEF c, old
  <1>6. ItemsIn(store, some, back)
    BY <1>1, <1>3, DictPutRight DEF DictMore
  <1>7. \A n \in 0..N :
             /\ f[n] \in [Kids -> Keys \cup {None}]
             /\ \A x \in Kids :
                  f[n][x] = None =>
                       \/ \E j \in 1..n : /\ IsChild(x) /\ store.state[some[j].key] = x
                                          /\ \A i \in j..n : some[i].value # x
                       \/ store.metadata[x] = None /\ \A i \in 1..n : ~ (IsChild(x) /\ some[i].value = x)
    BY <1>1, <1>3, DictLocationsAre
  <1> HIDE DEF some, f, N, back
  <1>8. /\ \A i \in 1..N : some[i].key \in Keys /\ back[some[i].key] = some[i].value
        /\ \A k \in Keys : (\A i \in 1..N : some[i].key # k) => back[k] = store.state[k]
    BY <1>3, <1>6 DEF ItemsIn, ItemsTyped
  <1>9. /\ \A x : x \in store.children <=> IsChild(x) /\ \E k \in Keys : store.state[k] = x
        /\ NoChildTwice(store.state) /\ NoChildTwice(back)
    BY <1>1, <1>2, <1>5 DEF DictExact, ChildrenIn
  <1>10. Removable(store, some)
    <2> SUFFICES ASSUME NEW n \in 1..N, IsChild(store.state[some[n].key])
                 PROVE  f[n - 1][store.state[some[n].key]] # None
      BY <1>3 DEF Removable, f
    <2>1. PICK x : x = store.state[some[n].key]
      OBVIOUS
    <2>2. IsChild(x) /\ x \in Kids /\ n - 1 \in 0..N /\ n \in Nat
      BY <1>3, <2>1 DEF IsChild
    <2>3. store.metadata[x] # None
      <3>1. x \in store.children
        BY <1>8, <1>9, <2>1, <2>2
      <3> QED BY <2>2, <3>1 DEF DictLocationsExact
    <2>4. ASSUME NEW j \in 1..(n - 1), store.state[some[j].key] = x
          PROVE  FALSE
      <3>1. j \in 1..N /\ j # n
        BY <1>3
      <3>2. some[j].key = some[n].key
        BY <1>8, <1>9, <2>1, <2>2, <2>4, <3>1 DEF NoChildTwice
      <3> QED BY <1>3, <3>1, <3>2 DEF ItemsTyped, KeysApart
    <2>5. f[n - 1][x] # None
      BY <1>7, <2>2, <2>3, <2>4
    <2> QED BY <2>1, <2>5
  <1>11. Admits(store, ItemsGone(store, some), ItemsPut(store, some))
    <2>1. \A x : x \in ItemsGone(store, some) <=> IsChild(x) /\ \E i \in 1..N : store.state[some[i].key] = x
      BY <1>3 DEF ItemsGone, ChildrenIn
    <2>2. \A x : x \in ItemsPut(store, some) <=> IsChild(x) /\ \E i \in 1..N : some[i].value = x
      BY <1>3 DEF ItemsPut, ChildrenIn
    <2>3. \A x \in ItemsGone(store, some) : x \in store.children
      BY <1>8, <1>9, <2>1
    <2>4. ASSUME NEW x \in ItemsPut(store, some), x \notin ItemsGone(store, some), x \in store.children
          PROVE  FALSE
      <3>1. PICK i \in 1..N : some[i].value = x
        BY <2>2, <2>4
      <3>2. PICK l \in Keys : store.state[l] = x
        BY <1>9, <2>4
      <3>3. IsChild(x) /\ \A j \in 1..N : some[j].key # l
        BY <2>1, <2>2, <2>4, <3>2
      <3>4. back[l] = x /\ back[some[i].key] = x /\ some[i].key \in Keys
        BY <1>8, <3>1, <3>2, <3>3
      <3> QED BY <1>9, <3>3, <3>4 DEF NoChildTwice
    <2> QED BY <2>3, <2>4 DEF Admits
  <1>12. \A i \in DOMAIN old : old[i].value = None => store.state[old[i].key] # None
    BY <1>1, <1>2
  <1>13. NoChildTwice(DictStateAfter(store, some))
    BY <1>9 DEF back
  <1>14. old # <<>> => PutAllowed(store, old)
    BY <1>10, <1>11, <1>12, <1>13 DEF PutAllowed, some
  <1> QED BY <1>14 DEF DictUndoable, c

-----------------------------------------------------------------------------
(* What is derived from the values: of attributes.                         *)

\* The children that leave their attributes, and those that come to one.
LeavingNames(old, order) ==
    [n \in 1..Len(order) |-> IF ChildAt(order[n], old[order[n]]) THEN old[order[n]] ELSE None]
ComingToNames(new, order) ==
    [n \in 1..Len(order) |-> IF ChildAt(order[n], new[order[n]]) THEN new[order[n]] ELSE None]

\* The locations of attributes after an update are relocations, in the order of the update.
LEMMA AttributesRelocate ==
    ASSUME NEW s, NEW new, NEW old, NEW order, Len(order) \in Nat
    PROVE  /\ AttributesLocationsAfter(s, new, old, order)[0] = s.metadata
           /\ \A n \in 1..Len(order) :
                AttributesLocationsAfter(s, new, old, order)[n] =
                  Relocation(AttributesLocationsAfter(s, new, old, order), n,
                             LeavingNames(old, order), ComingToNames(new, order), order)
  <1> DEFINE N == Len(order)
             out == LeavingNames(old, order)
             in == ComingToNames(new, order)
             Freed(g, n) == IF ChildAt(order[n], old[order[n]])
                            THEN [g[n - 1] EXCEPT ![old[order[n]]] = None] ELSE g[n - 1]
             Step(g, n) == IF ChildAt(order[n], new[order[n]])
                           THEN [Freed(g, n) EXCEPT ![new[order[n]]] = order[n]] ELSE Freed(g, n)
             Turn(g, n) == Relocating(g, n, s.metadata, out, in, order)
             f == CHOOSE g : g = [n \in 0..N |-> Turn(g, n)]
  <1>1. f = [n \in 0..N |-> Turn(f, n)]
    BY RelocatingIs
  <1>2. ASSUME NEW g, NEW n \in 0..N
        PROVE  (IF n = 0 THEN s.metadata ELSE Step(g, n)) = Turn(g, n)
    <2>1. CASE n = 0
      BY <2>1 DEF Relocating
    <2>2. CASE n # 0
      <3>1. n \in 1..N
        BY <2>2
      <3> DEFINE m == order[n]
      <3>2. /\ out[n] = IF ChildAt(m, old[m]) THEN old[m] ELSE None
            /\ in[n] = IF ChildAt(m, new[m]) THEN new[m] ELSE None
        BY <3>1 DEF LeavingNames, ComingToNames
      <3>3. \A x, y : ChildAt(x, y) => y # None
        BY NoneAssumption DEF ChildAt, Values
      <3>4. Step(g, n) =
              LET freed == IF ChildAt(m, old[m]) THEN [g[n - 1] EXCEPT ![old[m]] = None] ELSE g[n - 1]
              IN  IF ChildAt(m, new[m]) THEN [freed EXCEPT ![new[m]] = m] ELSE freed
        OBVIOUS
      <3>6. order[n] = m
        OBVIOUS
      <3> HIDE DEF m, out, in, Step
      <3>5. Step(g, n) = Relocation(g, n, out, in, order)
        BY <3>2, <3>3, <3>4, <3>6 DEF Relocation
      <3> QED BY <2>2, <3>5 DEF Relocating
    <2> QED BY <2>1, <2>2
  <1>3. AttributesLocationsAfter(s, new, old, order) =
          CHOOSE g : g = [n \in 0..N |-> IF n = 0 THEN s.metadata ELSE Step(g, n)]
    BY DEF AttributesLocationsAfter
  <1> HIDE DEF Step, Turn
  <1>4. \A g : [n \in 0..N |-> IF n = 0 THEN s.metadata ELSE Step(g, n)] = [n \in 0..N |-> Turn(g, n)]
    BY <1>2
  <1>5. AttributesLocationsAfter(s, new, old, order) = f
    BY <1>3, <1>4
  <1> HIDE DEF f
  <1>6. \A n \in 0..N : f[n] = Turn(f, n)
    BY <1>1
  <1>7. 0 \in 0..N /\ \A n \in 1..N : n \in 0..N /\ n # 0
    OBVIOUS
  <1> QED BY <1>5, <1>6, <1>7 DEF Turn, Relocating

\* No child is the value of two attributes that adopt it.
HeldOnce(state) ==
    \A m, n \in Attributes :
        ChildAt(m, state[m]) /\ ChildAt(n, state[n]) /\ state[m] = state[n] => m = n

AttributesData(state) ==
    [n \in Attributes |-> IF Declared(n).relationship.data /\ state[n] # None
                          THEN DataOf(state[n]) ELSE None]

\* An object has the children of its values and their data, and each location that it
\* has is one where the child is.
AttributesExact(s) ==
    /\ s.state \in States /\ HeldOnce(s.state)
    /\ s.children = AttributesAdopt(s)
    /\ s.data = AttributesData(s.state)
    /\ s.metadata \in [Kids -> Attributes \cup {None}]
    /\ \A c \in Kids : s.metadata[c] # None => ChildAt(s.metadata[c], c) /\ s.state[s.metadata[c]] = c

\* New values for some attributes of a state, and their old values.
NewForOld(state, new, old) ==
    \A n \in Attributes :
        /\ new[n] \in Known /\ old[n] \in Known
        /\ new[n] = None <=> old[n] = None
        /\ old[n] # None => old[n] = IF state[n] = None THEN DELETED ELSE state[n]

\* The changed attributes with children, each once.
OrderFits(new, order) ==
    /\ Len(order) \in Nat /\ DOMAIN order = 1..Len(order)
    /\ \A i \in 1..Len(order) : order[i] \in Attributes
    /\ \A i, j \in 1..Len(order) : order[i] = order[j] => i = j
    /\ \A n \in Attributes : new[n] # None /\ Declared(n).relationship.child
                               => \E i \in 1..Len(order) : order[i] = n

\* Where the children are after an update, step by step.
LEMMA AttributesLocationsAre ==
    ASSUME class \in Classes, NEW s, AttributesExact(s), NEW new, NEW old, NEW order,
           OrderFits(new, order)
    PROVE  \A n \in 0..Len(order) :
             LET f == AttributesLocationsAfter(s, new, old, order) IN
             /\ f[n] \in [Kids -> Attributes \cup {None}]
             /\ \A c \in Kids :
                  /\ f[n][c] = None =>
                       \/ \E j \in 1..n : /\ ChildAt(order[j], c) /\ old[order[j]] = c
                                          /\ \A i \in j..n : ~ (ChildAt(order[i], c) /\ new[order[i]] = c)
                       \/ s.metadata[c] = None
                          /\ \A i \in 1..n : ~ (ChildAt(order[i], c) /\ new[order[i]] = c)
                  /\ f[n][c] # None =>
                       \/ f[n][c] = s.metadata[c]
                          /\ \A j \in 1..n : ~ (ChildAt(order[j], c) /\ old[order[j]] = c)
                       \/ \E i \in 1..n : ChildAt(order[i], c) /\ new[order[i]] = c /\ f[n][c] = order[i]
  <1> DEFINE N == Len(order)
             f == AttributesLocationsAfter(s, new, old, order)
             out == LeavingNames(old, order)
             in == ComingToNames(new, order)
  <1>1. N \in Nat /\ \A n \in 1..N : order[n] \in Attributes
    BY DEF OrderFits
  <1>2. /\ f[0] = s.metadata /\ s.metadata \in [Kids -> Attributes \cup {None}]
        /\ \A n \in 1..N : f[n] = Relocation(f, n, out, in, order)
    BY <1>1, AttributesRelocate DEF AttributesExact
  <1>3. \A n \in 1..N : /\ out[n] = IF ChildAt(order[n], old[order[n]]) THEN old[order[n]] ELSE None
                        /\ in[n] = IF ChildAt(order[n], new[order[n]]) THEN new[order[n]] ELSE None
    BY DEF LeavingNames, ComingToNames
  <1>4. None \notin Attributes
    BY NamesAssumption DEF Attributes
  <1> HIDE DEF f, out, in, N
  <1>5. \A n \in 1..N : out[n] \in Kids \cup {None} /\ in[n] \in Kids \cup {None}
    BY <1>3 DEF ChildAt
  <1>6. \A k \in 0..N :
             /\ f[k] \in [Kids -> Attributes \cup {None}]
             /\ \A c \in Kids :
                  /\ f[k][c] = None => GoneLast(f, k, out, in, c)
                  /\ f[k][c] # None => CameOrStayed(f, k, out, in, order, c)
    BY <1>1, <1>2, <1>4, <1>5, RelocatedIs
  <1>7. ASSUME NEW c \in Kids, NEW n \in 1..N
        PROVE  /\ out[n] = c <=> ChildAt(order[n], c) /\ old[order[n]] = c
               /\ in[n] = c <=> ChildAt(order[n], c) /\ new[order[n]] = c
    BY <1>3, <1>7, NoneAssumption DEF Values
  <1> SUFFICES ASSUME NEW n \in 0..N, NEW c \in Kids
               PROVE  /\ f[n][c] = None =>
                           \/ \E j \in 1..n : /\ ChildAt(order[j], c) /\ old[order[j]] = c
                                              /\ \A i \in j..n : ~ (ChildAt(order[i], c) /\ new[order[i]] = c)
                           \/ s.metadata[c] = None
                              /\ \A i \in 1..n : ~ (ChildAt(order[i], c) /\ new[order[i]] = c)
                      /\ f[n][c] # None =>
                           \/ f[n][c] = s.metadata[c]
                              /\ \A j \in 1..n : ~ (ChildAt(order[j], c) /\ old[order[j]] = c)
                           \/ \E i \in 1..n : ChildAt(order[i], c) /\ new[order[i]] = c /\ f[n][c] = order[i]
    BY <1>6 DEF f, N
  <1>8. \A j \in 1..n : j \in 1..N /\ \A i \in j..n : i \in 1..N
    BY <1>1
  <1>9. GoneLast(f, n, out, in, c) =>
           \/ \E j \in 1..n : /\ ChildAt(order[j], c) /\ old[order[j]] = c
                              /\ \A i \in j..n : ~ (ChildAt(order[i], c) /\ new[order[i]] = c)
           \/ s.metadata[c] = None /\ \A i \in 1..n : ~ (ChildAt(order[i], c) /\ new[order[i]] = c)
    BY <1>2, <1>7, <1>8 DEF GoneLast
  <1>10. CameOrStayed(f, n, out, in, order, c) =>
           \/ f[n][c] = s.metadata[c] /\ \A j \in 1..n : ~ (ChildAt(order[j], c) /\ old[order[j]] = c)
           \/ \E i \in 1..n : ChildAt(order[i], c) /\ new[order[i]] = c /\ f[n][c] = order[i]
    BY <1>2, <1>7, <1>8 DEF CameOrStayed
  <1> QED BY <1>6, <1>9, <1>10

\* What new values make of the state, the children and the data.
NewIn(s, new, old, state) ==
    /\ state \in States
    /\ \A n \in Attributes : state[n] = IF new[n] = None THEN s.state[n]
                                        ELSE IF new[n] = DELETED THEN None ELSE new[n]
    /\ \A c : c \in ChildrenAfter(s, ValuesGone(old), ValuesPut(new))
                <=> \E n \in Attributes : ChildAt(n, c) /\ state[n] = c
    /\ AttributesDataAfter(s, new) = AttributesData(state)
    /\ \A c : c \in ValuesGone(old) <=> \E n \in Attributes : ChildAt(n, c) /\ old[n] = c
    /\ \A c : c \in ValuesPut(new) <=> \E n \in Attributes : ChildAt(n, c) /\ new[n] = c
    /\ \A c : c \in s.children <=> \E n \in Attributes : ChildAt(n, c) /\ s.state[n] = c

\* What attributes have, and whom, after new values for old ones.
LEMMA AttributesPutRight ==
    ASSUME versions \in [Kids -> {0, 1}],
           NEW s, AttributesExact(s), NEW new, NEW old, NewForOld(s.state, new, old),
           NEW state, state = After(s.state, new)
    PROVE  NewIn(s, new, old, state)
  <1>1. \A n \in Attributes :
          /\ state[n] = IF new[n] = None THEN s.state[n] ELSE IF new[n] = DELETED THEN None ELSE new[n]
          /\ new[n] \in Known /\ old[n] \in Known
          /\ new[n] = None <=> old[n] = None
          /\ old[n] # None => old[n] = IF s.state[n] = None THEN DELETED ELSE s.state[n]
          /\ s.state[n] \in Values \cup {None}
    BY DEF After, NewForOld, AttributesExact, States
  <1>2. state \in States
    <2>1. \A n \in Attributes : state[n] \in Values \cup {None}
      BY <1>1 DEF Known
    <2>2. state = [n \in Attributes |-> state[n]]
      BY DEF After
    <2> QED BY <2>1, <2>2 DEF States
  <1>3. \A n, c : ChildAt(n, c) => c # None /\ c # DELETED /\ c \in Kids
    BY NoneAssumption, DeletedAssumption DEF ChildAt, Values
  <1>4. \A c : c \in ValuesGone(old) <=> \E n \in Attributes : ChildAt(n, c) /\ old[n] = c
    BY <1>3 DEF ValuesGone, Changed
  <1>5. \A c : c \in ValuesPut(new) <=> \E n \in Attributes : ChildAt(n, c) /\ new[n] = c
    BY <1>3 DEF ValuesPut, Changed
  <1>6. \A c : c \in s.children <=> \E n \in Attributes : ChildAt(n, c) /\ s.state[n] = c
    BY DEF AttributesExact, AttributesAdopt
  <1>7. ASSUME NEW c
        PROVE  (c \in s.children /\ c \notin ValuesGone(old)) \/ c \in ValuesPut(new)
                 <=> \E n \in Attributes : ChildAt(n, c) /\ state[n] = c
    <2>1. ASSUME NEW n \in Attributes, ChildAt(n, c), state[n] = c
          PROVE  (c \in s.children /\ c \notin ValuesGone(old)) \/ c \in ValuesPut(new)
      <3>1. CASE new[n] # None
        <4>1. new[n] = c
          BY <1>1, <1>3, <2>1, <3>1
        <4> QED BY <1>5, <2>1, <4>1
      <3>2. CASE new[n] = None
        <4>1. s.state[n] = c /\ old[n] = None
          BY <1>1, <2>1, <3>2
        <4>2. ASSUME NEW m \in Attributes, ChildAt(m, c), old[m] = c
              PROVE  FALSE
          <5>1. s.state[m] = c
            BY <1>1, <1>3, <4>2
          <5>2. m = n
            BY <2>1, <4>1, <4>2, <5>1 DEF AttributesExact, HeldOnce
          <5> QED BY <1>3, <4>1, <4>2, <5>2
        <4> QED BY <1>4, <1>6, <2>1, <4>1, <4>2
      <3> QED BY <3>1, <3>2
    <2>2. ASSUME c \in s.children, c \notin ValuesGone(old)
          PROVE  \E n \in Attributes : ChildAt(n, c) /\ state[n] = c
      <3>1. PICK n \in Attributes : ChildAt(n, c) /\ s.state[n] = c
        BY <1>6, <2>2
      <3>2. old[n] # c
        BY <1>4, <2>2, <3>1
      <3>3. old[n] = None
        BY <1>1, <1>3, <3>1, <3>2
      <3> QED BY <1>1, <3>1, <3>3
    <2>3. ASSUME c \in ValuesPut(new)
          PROVE  \E n \in Attributes : ChildAt(n, c) /\ state[n] = c
      BY <1>1, <1>3, <1>5, <2>3
    <2> QED BY <2>1, <2>2, <2>3
  <1>8. AttributesDataAfter(s, new) = AttributesData(state)
    <2>1. \A n \in Attributes :
            s.data[n] = IF Declared(n).relationship.data /\ s.state[n] # None
                        THEN DataOf(s.state[n]) ELSE None
      BY DEF AttributesExact, AttributesData
    <2>2. ASSUME NEW n \in Attributes
          PROVE  (IF new[n] = None \/ ~ Declared(n).relationship.data THEN s.data[n]
                  ELSE IF new[n] = DELETED THEN None ELSE DataOf(new[n]))
                  = IF Declared(n).relationship.data /\ state[n] # None
                    THEN DataOf(state[n]) ELSE None
      <3>1. CASE new[n] = None \/ ~ Declared(n).relationship.data
        BY <1>1, <2>1, <3>1
      <3>2. CASE new[n] # None /\ Declared(n).relationship.data
        BY <1>1, <3>2
      <3> QED BY <3>1, <3>2
    <2> QED BY <2>2 DEF AttributesDataAfter, AttributesData
  <1> QED BY <1>1, <1>2, <1>4, <1>5, <1>6, <1>7, <1>8 DEF ChildrenAfter, NewIn

\* What is held once stays so when an update is let through.
LEMMA HeldOnceAfter ==
    ASSUME versions \in [Kids -> {0, 1}],
           NEW s, AttributesExact(s), NEW new, NEW old, NewForOld(s.state, new, old), NEW order,
           RawUpdateAllowed(s, new, old, order)
    PROVE  HeldOnce(After(s.state, new))
  <1> DEFINE state == After(s.state, new)
  <1>0. state = After(s.state, new)
    OBVIOUS
  <1> HIDE DEF state
  <1>1. /\ \A n \in Attributes : state[n] = IF new[n] = None THEN s.state[n]
                                            ELSE IF new[n] = DELETED THEN None ELSE new[n]
        /\ \A c : c \in ValuesGone(old) <=> \E n \in Attributes : ChildAt(n, c) /\ old[n] = c
        /\ \A c : c \in ValuesPut(new) <=> \E n \in Attributes : ChildAt(n, c) /\ new[n] = c
        /\ \A c : c \in s.children <=> \E n \in Attributes : ChildAt(n, c) /\ s.state[n] = c
    <2>1. NewIn(s, new, old, state)
      BY <1>0, AttributesPutRight
    <2> QED BY <2>1 DEF NewIn
  <1>2. \A n, c : ChildAt(n, c) => c # None /\ c # DELETED
    BY NoneAssumption, DeletedAssumption DEF ChildAt, Values
  <1>3. /\ \A m, n \in Attributes :
             new[m] # None /\ new[n] # None /\ ChildAt(m, new[m]) /\ ChildAt(n, new[n])
               /\ new[m] = new[n] => m = n
        /\ \A c \in ValuesPut(new) : c \in ValuesGone(old) \/ c \notin s.children
    <2>1. \A m, n \in Changed(new) :
            ChildAt(m, new[m]) /\ ChildAt(n, new[n]) /\ new[m] = new[n] => m = n
      BY DEF RawUpdateAllowed
    <2>2. Admits(s, ValuesGone(old), ValuesPut(new))
      BY DEF RawUpdateAllowed
    <2> QED BY <2>1, <2>2 DEF Changed, Admits
  <1>4. /\ HeldOnce(s.state)
        /\ \A n \in Attributes : /\ new[n] = None <=> old[n] = None
                                 /\ old[n] # None => old[n] = IF s.state[n] = None THEN DELETED ELSE s.state[n]
    BY DEF AttributesExact, NewForOld
  <1>5. ASSUME NEW m \in Attributes, NEW n \in Attributes, NEW c, ChildAt(m, c), ChildAt(n, c),
               state[m] = c, state[n] = c, new[m] # None, new[n] = None
        PROVE  FALSE
    <2>1. new[m] = c /\ s.state[n] = c
      BY <1>1, <1>2, <1>5
    <2>2. c \in ValuesPut(new) /\ c \in s.children
      BY <1>1, <1>5, <2>1
    <2>3. PICK p \in Attributes : ChildAt(p, c) /\ old[p] = c
      BY <1>1, <1>3, <2>2
    <2>4. s.state[p] = c
      BY <1>2, <1>4, <2>3
    <2>5. p = n
      BY <1>4, <1>5, <2>1, <2>3, <2>4 DEF HeldOnce
    <2> QED BY <1>2, <1>4, <1>5, <2>3, <2>5
  <1>6. ASSUME NEW m \in Attributes, NEW n \in Attributes,
               ChildAt(m, state[m]), ChildAt(n, state[n]), state[m] = state[n]
        PROVE  m = n
    <2>1. CASE new[m] = None /\ new[n] = None
      BY <1>1, <1>4, <1>6, <2>1 DEF HeldOnce
    <2>2. CASE new[m] # None /\ new[n] # None
      <3>1. new[m] = state[m] /\ new[n] = state[n]
        BY <1>1, <1>2, <1>6, <2>2
      <3> QED BY <1>3, <1>6, <2>2, <3>1
    <2>3. CASE (new[m] = None) # (new[n] = None)
      BY <1>5, <1>6, <2>3
    <2> QED BY <2>1, <2>2, <2>3
  <1> QED BY <1>6 DEF HeldOnce, state

\* An object stays exact when new values are put, if no child is held twice then; and has
\* all locations if it had, unless a child comes to an attribute before it leaves another.
LEMMA AttributesPutExact ==
    ASSUME versions \in [Kids -> {0, 1}], class \in Classes,
           NEW s, AttributesExact(s), NEW new, NEW old, NewForOld(s.state, new, old),
           NEW order, OrderFits(new, order),
           NEW t, t = RawUpdated(s, new, old, order), HeldOnce(t.state)
    PROVE  /\ AttributesExact(t)
           /\ AttributesLocationsExact(s) /\ ~ ChildComesBeforeItLeaves(new, old, order)
                => AttributesLocationsExact(t)
  <1> DEFINE f == AttributesLocationsAfter(s, new, old, order)
             N == Len(order)
             m == t.metadata
  <1>1. /\ N \in Nat /\ DOMAIN order = 1..N
        /\ \A i \in 1..N : order[i] \in Attributes
        /\ \A n \in Attributes : new[n] # None /\ Declared(n).relationship.child
                                   => \E i \in 1..N : order[i] = n
    BY DEF OrderFits
  <1>2. /\ t.state = After(s.state, new) /\ t.data = AttributesDataAfter(s, new) /\ m = f[N]
        /\ t.children = ChildrenAfter(s, ValuesGone(old), ValuesPut(new))
    BY AfterIs DEF RawUpdated
  <1>4. /\ t.state \in States
        /\ \A n \in Attributes : t.state[n] = IF new[n] = None THEN s.state[n]
                                              ELSE IF new[n] = DELETED THEN None ELSE new[n]
        /\ \A c : c \in t.children <=> \E n \in Attributes : ChildAt(n, c) /\ t.state[n] = c
        /\ t.data = AttributesData(t.state)
        /\ \A c : c \in s.children <=> \E n \in Attributes : ChildAt(n, c) /\ s.state[n] = c
    <2>1. NewIn(s, new, old, t.state)
      BY <1>2, AttributesPutRight
    <2> QED BY <1>2, <2>1 DEF NewIn
  <1>5. N \in 0..N
    BY <1>1
  <1>6. /\ m \in [Kids -> Attributes \cup {None}]
        /\ \A c \in Kids :
             /\ m[c] = None =>
                  \/ \E j \in 1..N : /\ ChildAt(order[j], c) /\ old[order[j]] = c
                                     /\ \A i \in j..N : ~ (ChildAt(order[i], c) /\ new[order[i]] = c)
                  \/ s.metadata[c] = None
                     /\ \A i \in 1..N : ~ (ChildAt(order[i], c) /\ new[order[i]] = c)
             /\ m[c] # None =>
                  \/ m[c] = s.metadata[c]
                     /\ \A j \in 1..N : ~ (ChildAt(order[j], c) /\ old[order[j]] = c)
                  \/ \E i \in 1..N : ChildAt(order[i], c) /\ new[order[i]] = c /\ m[c] = order[i]
    BY <1>2, <1>5, AttributesLocationsAre
  <1> HIDE DEF m, N, f
  <1>7. /\ \A c \in Kids : s.metadata[c] # None => ChildAt(s.metadata[c], c) /\ s.state[s.metadata[c]] = c
        /\ s.metadata \in [Kids -> Attributes \cup {None}]
        /\ HeldOnce(s.state)
        /\ \A n \in Attributes : /\ new[n] = None <=> old[n] = None
                                 /\ old[n] # None => old[n] = IF s.state[n] = None THEN DELETED ELSE s.state[n]
    BY DEF AttributesExact, NewForOld
  <1>20. \A n, c : ChildAt(n, c) => c # None /\ c # DELETED /\ Declared(n).relationship.child
    BY NoneAssumption, DeletedAssumption DEF ChildAt, Values
  <1>8. ASSUME NEW c \in Kids, m[c] # None
        PROVE  m[c] \in Attributes /\ ChildAt(m[c], c) /\ t.state[m[c]] = c
    <2>1. CASE m[c] = s.metadata[c] /\ \A j \in 1..N : ~ (ChildAt(order[j], c) /\ old[order[j]] = c)
      <3>1. m[c] \in Attributes /\ s.state[m[c]] = c /\ ChildAt(m[c], c)
        BY <1>7, <1>8, <2>1
      <3>2. new[m[c]] = None
        <4> SUFFICES ASSUME new[m[c]] # None PROVE FALSE
          OBVIOUS
        <4>1. old[m[c]] = c
          BY <1>7, <1>20, <3>1
        <4>2. PICK n : n = m[c]
          OBVIOUS
        <4>3. n \in Attributes /\ new[n] # None /\ Declared(n).relationship.child
          BY <1>20, <3>1, <4>2
        <4>4. PICK j \in 1..N : order[j] = n
          BY <1>1, <4>3
        <4> QED BY <2>1, <3>1, <4>1, <4>2, <4>4
      <3> QED BY <1>4, <3>1, <3>2
    <2>2. CASE \E i \in 1..N : ChildAt(order[i], c) /\ new[order[i]] = c /\ m[c] = order[i]
      BY <1>1, <1>4, <1>20, <2>2
    <2> QED BY <1>6, <1>8, <2>1, <2>2
  <1>9. AttributesExact(t)
    <2>1. t.children = AttributesAdopt(t)
      BY <1>4 DEF AttributesAdopt
    <2> QED BY <1>4, <1>6, <1>8, <2>1 DEF AttributesExact, m
  <1>10. ASSUME AttributesLocationsExact(s), ~ ChildComesBeforeItLeaves(new, old, order),
                NEW c \in Kids, c \in t.children
         PROVE  m[c] # None
    <2> SUFFICES ASSUME m[c] = None PROVE FALSE
      OBVIOUS
    <2>1. PICK n \in Attributes : t.state[n] = c /\ ChildAt(n, c)
      BY <1>4, <1>10
    <2>2. CASE new[n] # None
      <3>1. PICK i \in 1..N : order[i] = n
        <4>1. Declared(n).relationship.child
          BY <1>20, <2>1
        <4> QED BY <1>1, <2>2, <4>1
      <3>2. new[order[i]] = c /\ ChildAt(order[i], c)
        BY <1>4, <1>20, <2>1, <2>2, <3>1
      <3>3. PICK j \in 1..N : old[order[j]] = c /\ \A a \in j..N : ~ (ChildAt(order[a], c) /\ new[order[a]] = c)
        BY <1>6, <3>2
      <3>4. i < j
        BY <1>1, <3>2, <3>3
      <3> QED BY <1>1, <1>10, <3>2, <3>3, <3>4 DEF ChildComesBeforeItLeaves
    <2>3. CASE new[n] = None
      <3>1. s.state[n] = c
        BY <1>4, <2>1, <2>3
      <3>2. s.metadata[c] # None
        BY <1>4, <1>10, <2>1, <3>1 DEF AttributesLocationsExact
      <3>3. PICK j \in 1..N : ChildAt(order[j], c) /\ old[order[j]] = c
        BY <1>6, <3>2
      <3>4. order[j] \in Attributes /\ s.state[order[j]] = c
        BY <1>1, <1>7, <1>20, <3>3
      <3>5. order[j] = n
        BY <1>7, <2>1, <3>1, <3>3, <3>4 DEF HeldOnce
      <3> QED BY <1>7, <1>20, <2>1, <2>3, <3>3, <3>5
    <2> QED BY <2>2, <2>3
  <1>11. AttributesLocationsExact(s) /\ ~ ChildComesBeforeItLeaves(new, old, order)
                => AttributesLocationsExact(t)
    <2>1. \A c \in Kids : m[c] # None => c \in t.children
      BY <1>4, <1>8
    <2> QED BY <1>8, <1>10, <2>1 DEF AttributesLocationsExact, m
  <1> QED BY <1>9, <1>11

\* The entry of an update: no child is held twice at either of its ends, the old values are
\* what the new ones replaced and the other way around, and what an attribute with children
\* had was changeable.
AttributesEntryExact(e) ==
    /\ HeldOnce(e[1].from) /\ HeldOnce(e[1].to)
    /\ NewForOld(e[1].from, e[1].new, e[1].old)
    /\ NewForOld(e[1].to, e[1].old, e[1].new)
    /\ OrderFits(e[1].new, e[1].order)
    /\ \A n \in Stored : Declared(n).relationship.child /\ e[1].new[n] # None /\ e[1].old[n] # DELETED
                           => n \in Changeable

AttributesMore ==
    /\ versions \in [Kids -> {0, 1}]
    /\ AttributesExact(store)
    /\ \A e \in Entries : AttributesEntryExact(e)

\* The second invariant of attributes stays if the store and the entries are exact.
LEMMA AttributesMoreStays ==
    ASSUME AttributesMore, class' = class, versions' = versions, AttributesExact(store'),
           \A e \in Entries' : AttributesEntryExact(e)
    PROVE  AttributesMore'
  <1>1. AttributesExact(store)'
    BY DEF AttributesExact, States, Attributes, HeldOnce, ChildAt, Declared, AttributesAdopt,
           AttributesData, DataOf
  <1>2. \A e \in Entries' : AttributesEntryExact(e)'
    BY DEF AttributesEntryExact, HeldOnce, ChildAt, Declared, Attributes, NewForOld, OrderFits,
           Stored, Delegating, Changeable
  <1> QED BY <1>1, <1>2 DEF AttributesMore

\* The classes that are accepted have finitely many attributes, and data only of children.
LEMMA AcceptedIs ==
    ASSUME class \in Classes
    PROVE  /\ IsFiniteSet(Attributes)
           /\ \A n \in Attributes : Declared(n).relationship.data => Declared(n).relationship.child
  <1>1. ClassAccepted(class.attributes)
    BY ClassesAssumption
  <1> QED BY <1>1 DEF ClassAccepted, Attributes, Declared

\* An order in which an update goes through its children has each of them once.
LEMMA OrdersFit ==
    ASSUME class \in Classes, NEW new, NEW order \in Orders(new)
    PROVE  OrderFits(new, order)
  <1> DEFINE S == {n \in Changed(new) : Declared(n).relationship.child}
             N == Cardinality(S)
  <1>1. IsFiniteSet(S) /\ S \subseteq Attributes
    BY AcceptedIs, FS_Subset DEF Changed
  <1>2. order \in SetToSeqs(S)
    BY DEF Orders
  <1>3. \A n \in Attributes : new[n] # None /\ Declared(n).relationship.child => n \in S
    BY DEF Changed
  <1> HIDE DEF S
  <1>4. /\ N \in Nat /\ Len(order) = N /\ DOMAIN order = 1..N
        /\ \A i, j \in 1..N : order[i] = order[j] => i = j
        /\ \A i \in 1..N : order[i] \in S
        /\ \A x \in S : \E i \in 1..N : order[i] = x
    BY <1>1, <1>2, Permuted
  <1> HIDE DEF N
  <1> QED BY <1>1, <1>3, <1>4 DEF OrderFits

\* The values of an intermediary object are new ones for old ones.
LEMMA RightIsNewForOld ==
    ASSUME NEW s, s.state \in States, NEW i, Right(s, i), NEW to, to = After(s.state, i.new)
    PROVE  NewForOld(s.state, i.new, i.old) /\ NewForOld(to, i.old, i.new)
  <1>1. \A n \in Attributes :
          /\ i.new[n] \in Known /\ i.old[n] \in Known
          /\ i.new[n] = None <=> i.old[n] = None
          /\ i.old[n] # None => i.old[n] = IF s.state[n] = None THEN DELETED ELSE s.state[n]
    BY DEF Right, Paired, OldValue
  <1>2. NewForOld(s.state, i.new, i.old)
    BY <1>1 DEF NewForOld
  <1>3. \A n \in Attributes : i.new[n] # None => i.new[n] = IF to[n] = None THEN DELETED ELSE to[n]
    BY DEF After
  <1>4. NewForOld(to, i.old, i.new)
    BY <1>1, <1>3 DEF NewForOld
  <1> QED BY <1>2, <1>4

\* An update that is let through, of an object or of one that is made.
LEMMA AttributesPut ==
    ASSUME versions \in [Kids -> {0, 1}], class \in Classes,
           NEW s, AttributesExact(s), NEW i, Right(s, i), NEW order \in Orders(i.new),
           RawUpdateAllowed(s, i.new, i.old, order),
           NEW t, t = RawUpdated(s, i.new, i.old, order)
    PROVE  /\ AttributesExact(t)
           /\ AttributesLocationsExact(s) /\ ~ ChildComesBeforeItLeaves(i.new, i.old, order)
                => AttributesLocationsExact(t)
           /\ AttributesEntryExact(<<AttributesUpdate(s, i.new, i.old, order)>>)
  <1>1. t.state = After(s.state, i.new) /\ s.state \in States /\ HeldOnce(s.state)
    BY AfterIs DEF RawUpdated, AttributesExact
  <1>2. NewForOld(s.state, i.new, i.old) /\ NewForOld(t.state, i.old, i.new)
    BY <1>1, RightIsNewForOld
  <1>3. OrderFits(i.new, order)
    BY OrdersFit
  <1>4. HeldOnce(t.state)
    BY <1>1, <1>2, HeldOnceAfter
  <1>5. /\ AttributesExact(t)
        /\ AttributesLocationsExact(s) /\ ~ ChildComesBeforeItLeaves(i.new, i.old, order)
             => AttributesLocationsExact(t)
    BY <1>2, <1>3, <1>4, AttributesPutExact
  <1> DEFINE c == AttributesUpdate(s, i.new, i.old, order)
             e == <<c>>
  <1>6. c.from = s.state /\ c.to = t.state /\ c.new = i.new /\ c.old = i.old /\ c.order = order
    BY DEF AttributesUpdate
  <1>7. e[1] = c
    BY OneChange
  <1>8. \A n \in Stored : Declared(n).relationship.child /\ i.new[n] # None /\ i.old[n] # DELETED
                            => n \in Changeable
    BY DEF RawUpdateAllowed, Changed, Stored
  <1> HIDE DEF c, e
  <1>9. AttributesEntryExact(e)
    BY <1>1, <1>2, <1>3, <1>4, <1>6, <1>7, <1>8 DEF AttributesEntryExact
  <1> QED BY <1>5, <1>9 DEF e, c

\* What StoreFollows says of the locations of attributes.
NamesFollow(s, t) == AttributesLocationsExact(s) /\ ~ ComesBeforeItLeaves => AttributesLocationsExact(t)

\* An update keeps the second invariant of attributes, and locations follow.
LEMMA AttributesUpdateExact ==
    ASSUME AttributesMore, AttributesInv, NEW values, DOMAIN values \subseteq Attributes, Update(values)
    PROVE  AttributesMore' /\ NamesFollow(store, store')
  <1>0. PICK i : i = Outcome(store, values)
    OBVIOUS
  <1>1. /\ class \in Classes /\ store.state \in States /\ Current(store.state) /\ BothLists
        /\ ValuesSettable(store, values)
    BY DEF AttributesInv, Update
  <1>2. Right(store, i)
    BY <1>0, <1>1, OutcomeRight
  <1>3. PICK order \in Orders(i.new) :
          /\ RawUpdateAllowed(store, i.new, i.old, order)
          /\ Record(RawUpdated(store, i.new, i.old, order),
                    <<AttributesUpdate(store, i.new, i.old, order)>>)
    BY <1>0 DEF Update
  <1> DEFINE t == RawUpdated(store, i.new, i.old, order)
             c == AttributesUpdate(store, i.new, i.old, order)
             e == <<c>>
  <1>4. /\ AttributesExact(t)
        /\ AttributesLocationsExact(store) /\ ~ ChildComesBeforeItLeaves(i.new, i.old, order)
             => AttributesLocationsExact(t)
        /\ AttributesEntryExact(e)
    BY <1>1, <1>2, <1>3, AttributesPut DEF AttributesMore
  <1>5. c.type = "Update" /\ c.new = i.new /\ c.old = i.old /\ c.order = order /\ e[1] = c
    BY OneChange DEF AttributesUpdate
  <1>6. Record(t, e)
    BY <1>3
  <1> HIDE DEF t, c, e
  <1>7. Entries' \subseteq Entries \cup {e} /\ ~ Undid /\ Entry = e
    BY <1>1, <1>6, EntriesRecorded, EntryMade
  <1>8. store' = t /\ class' = class /\ versions' = versions
    BY <1>6 DEF Record, fixed
  <1>9. AttributesMore'
    BY <1>4, <1>7, <1>8, AttributesMoreStays DEF AttributesMore
  <1>10. ChildComesBeforeItLeaves(i.new, i.old, order) => ComesBeforeItLeaves
    BY <1>5, <1>7 DEF ComesBeforeItLeaves, Change
  <1> QED BY <1>4, <1>8, <1>9, <1>10 DEF NamesFollow

\* Undo and redo go where the entry leads, which is a state that held no child twice.
LEMMA AttributesBack ==
    ASSUME AttributesMore, AttributesInv, NEW e \in Entries, store.state = e[1].to,
           NEW t, t = RawUpdated(store, e[1].old, e[1].new, e[1].order)
    PROVE  /\ AttributesExact(t)
           /\ AttributesLocationsExact(store) /\ ~ ChildComesBeforeItLeaves(e[1].old, e[1].new, e[1].order)
                => AttributesLocationsExact(t)
  <1>1. AttributesEntry(e) /\ AttributesEntryExact(e)
    BY DEF AttributesMore, AttributesInv
  <1>2. t.state = e[1].from
    BY <1>1, AfterIs DEF RawUpdated, AttributesEntry
  <1>3. /\ HeldOnce(t.state) /\ NewForOld(store.state, e[1].old, e[1].new)
        /\ OrderFits(e[1].new, e[1].order)
    BY <1>1, <1>2 DEF AttributesEntryExact
  <1>4. OrderFits(e[1].old, e[1].order)
    BY <1>3 DEF OrderFits, NewForOld
  <1> QED BY <1>3, <1>4, AttributesPutExact DEF AttributesMore, AttributesInv

\* Redo of an entry leaves attributes exact, and locations follow.
LEMMA AttributesForth ==
    ASSUME AttributesMore, AttributesInv, NEW e \in Entries, store.state = e[1].from,
           NEW t, t = RawUpdated(store, e[1].new, e[1].old, e[1].order)
    PROVE  /\ AttributesExact(t)
           /\ AttributesLocationsExact(store) /\ ~ ChildComesBeforeItLeaves(e[1].new, e[1].old, e[1].order)
                => AttributesLocationsExact(t)
  <1>1. AttributesEntry(e) /\ AttributesEntryExact(e)
    BY DEF AttributesMore, AttributesInv
  <1>2. t.state = e[1].to
    BY <1>1, AfterIs DEF RawUpdated, AttributesEntry
  <1>3. /\ HeldOnce(t.state) /\ NewForOld(store.state, e[1].new, e[1].old)
        /\ OrderFits(e[1].new, e[1].order)
    BY <1>1, <1>2 DEF AttributesEntryExact
  <1> QED BY <1>3, AttributesPutExact DEF AttributesMore, AttributesInv

\* An undo keeps the second invariant of attributes, and locations follow.
LEMMA AttributesUndoExact ==
    ASSUME AttributesMore, AttributesInv, done # <<>>, UndoTo(AttributesUndone(Last(done)))
    PROVE  AttributesMore' /\ NamesFollow(store, store')
  <1> DEFINE t == AttributesUndone(Last(done))
  <1>0. PICK e : e = Last(done)
    OBVIOUS
  <1>1. e \in Entries /\ Entries' \subseteq Entries /\ e = done[Len(done)] /\ Len(done) > 0
    <2>1. Last(done) \in ToSet(done) /\ Last(done) = done[Len(done)]
      BY UndoneTo DEF AttributesInv
    <2>2. Len(done) \in Nat /\ Len(done) # 0
      BY ListIs, UndoneTo DEF AttributesInv, BothLists
    <2> QED BY <1>0, <2>1, <2>2, EntriesUndone DEF AttributesInv, Entries
  <1>2. /\ store' = t /\ class' = class /\ versions' = versions
        /\ t = RawUpdated(store, e[1].old, e[1].new, e[1].order)
    BY <1>0 DEF UndoTo, fixed, AttributesUndone
  <1>3. AttributesEntry(e) /\ store.state = e[1].to
    BY <1>1 DEF AttributesInv, AttributesChain
  <1> HIDE DEF t
  <1>4. /\ AttributesExact(t)
        /\ AttributesLocationsExact(store) /\ ~ ChildComesBeforeItLeaves(e[1].old, e[1].new, e[1].order)
             => AttributesLocationsExact(t)
    BY <1>1, <1>2, <1>3, AttributesBack
  <1>5. Undid /\ Entry = e
    BY <1>0, EntryUndone DEF AttributesInv
  <1>6. ChildComesBeforeItLeaves(e[1].old, e[1].new, e[1].order) => ComesBeforeItLeaves
    BY <1>3, <1>5 DEF ComesBeforeItLeaves, Change, AttributesEntry
  <1>7. \A f \in Entries' : AttributesEntryExact(f)
    BY <1>1 DEF AttributesMore
  <1>8. AttributesMore'
    BY <1>2, <1>4, <1>7, AttributesMoreStays
  <1> QED BY <1>2, <1>4, <1>6, <1>8 DEF NamesFollow

\* So does a redo.
LEMMA AttributesRedoExact ==
    ASSUME AttributesMore, AttributesInv, undone # <<>>, RedoTo(AttributesRedone(Last(undone)))
    PROVE  AttributesMore' /\ NamesFollow(store, store')
  <1> DEFINE t == AttributesRedone(Last(undone))
  <1>0. PICK e : e = Last(undone)
    OBVIOUS
  <1>1. e \in Entries /\ Entries' \subseteq Entries /\ e = undone[Len(undone)] /\ Len(undone) > 0
    <2>1. Last(undone) \in ToSet(undone) /\ Last(undone) = undone[Len(undone)]
      BY RedoneTo DEF AttributesInv
    <2>2. Len(undone) \in Nat /\ Len(undone) # 0
      BY ListIs, RedoneTo DEF AttributesInv, BothLists
    <2> QED BY <1>0, <2>1, <2>2, EntriesRedone DEF AttributesInv, Entries
  <1>2. /\ store' = t /\ class' = class /\ versions' = versions
        /\ t = RawUpdated(store, e[1].new, e[1].old, e[1].order)
    BY <1>0 DEF RedoTo, fixed, AttributesRedone
  <1>3. AttributesEntry(e) /\ store.state = e[1].from
    BY <1>1 DEF AttributesInv, AttributesChain
  <1> HIDE DEF t
  <1>4. /\ AttributesExact(t)
        /\ AttributesLocationsExact(store) /\ ~ ChildComesBeforeItLeaves(e[1].new, e[1].old, e[1].order)
             => AttributesLocationsExact(t)
    BY <1>1, <1>2, <1>3, AttributesForth
  <1>5. ~ Undid /\ Entry = e
    BY <1>0, EntryRedone DEF AttributesInv
  <1>6. ChildComesBeforeItLeaves(e[1].new, e[1].old, e[1].order) => ComesBeforeItLeaves
    BY <1>3, <1>5 DEF ComesBeforeItLeaves, Change, AttributesEntry
  <1>7. \A f \in Entries' : AttributesEntryExact(f)
    BY <1>1 DEF AttributesMore
  <1>8. AttributesMore'
    BY <1>2, <1>4, <1>7, AttributesMoreStays
  <1> QED BY <1>2, <1>4, <1>6, <1>8 DEF NamesFollow

\* So does a change of the data of a child.
LEMMA AttributeChildExact ==
    ASSUME AttributesMore, AttributesInv, NEW k \in Kids, k \in store.children => AttributeLocated(k),
           ChildChanges(k, AttributeChildReplaced(k))
    PROVE  AttributesMore' /\ NamesFollow(store, store')
  <1> DEFINE m == store.metadata
             Has(j) == Declared(j).relationship.data
  <1>0. PICK state : state = store.state
    OBVIOUS
  <1>1. /\ versions' \in [Kids -> {0, 1}] /\ class' = class
        /\ store' = AttributeChildReplaced(k) /\ done' = done /\ undone' = undone
        /\ DataOf(k)' = NewDataOf(k) /\ \A v : v # k => DataOf(v)' = DataOf(v)
    BY ChildChanged DEF AttributesMore
  <1>2. /\ Attributes' = Attributes /\ States' = States /\ Entries' = Entries
        /\ \A j : Has(j)' = Has(j)
        /\ \A j, v : ChildAt(j, v)' <=> ChildAt(j, v)
    BY <1>1 DEF Attributes, States, Entries, Declared, ChildAt
  <1>21. \A e : AttributesEntryExact(e)' <=> AttributesEntryExact(e)
    BY <1>1 DEF AttributesEntryExact, HeldOnce, ChildAt, Declared, Attributes, NewForOld, OrderFits,
                Stored, Delegating, Changeable
  <1>3. /\ state \in States /\ HeldOnce(state)
        /\ \A c : c \in store.children <=> \E n \in Attributes : ChildAt(n, c) /\ state[n] = c
        /\ store.children = {state[n] : n \in {a \in Attributes : ChildAt(a, state[a])}}
        /\ store.data = AttributesData(state)
        /\ m \in [Kids -> Attributes \cup {None}]
        /\ \A c \in Kids : m[c] # None => ChildAt(m[c], c) /\ state[m[c]] = c
        /\ \A n \in Attributes : Has(n) => Declared(n).relationship.child
    BY <1>0, AcceptedIs DEF AttributesMore, AttributesExact, AttributesAdopt, AttributesInv
  <1>4. /\ store'.state = state /\ store'.metadata = m /\ store'.children = store.children
        /\ \/ store'.data = store.data /\ (k \notin store.children \/ ~ Has(m[k]))
           \/ /\ k \in store.children /\ Has(m[k])
              /\ store'.data = [store.data EXCEPT ![m[k]] = NewDataOf(k)]
    <2>1. CASE k \notin store.children \/ ~ Has(m[k])
      BY <1>0, <1>1, <2>1 DEF AttributeChildReplaced
    <2>2. CASE k \in store.children /\ Has(m[k])
      <3>1. store' = [store EXCEPT !.data[m[k]] = NewDataOf(k)]
        BY <1>1, <2>2 DEF AttributeChildReplaced
      <3>2. IsStore(store)
        BY DEF AttributesInv
      <3>3. store' = [state |-> store.state, data |-> [store.data EXCEPT ![m[k]] = NewDataOf(k)],
                      metadata |-> m, children |-> store.children]
        BY <3>1, <3>2 DEF IsStore
      <3> QED BY <1>0, <2>2, <3>3
    <2> QED BY <2>1, <2>2
  <1>5. store'.data = AttributesData(state)'
    <2> DEFINE New(j) == IF Has(j) /\ state[j] # None THEN DataOf(state[j])' ELSE None
    <2>1. AttributesData(state)' = [j \in Attributes |-> New(j)]
      BY <1>2, <1>4 DEF AttributesData
    <2>2. store.data = [j \in Attributes |-> IF Has(j) /\ state[j] # None
                                             THEN DataOf(state[j]) ELSE None]
      BY <1>3 DEF AttributesData
    <2>3. \A j \in Attributes : state[j] # k => New(j) = store.data[j]
      BY <1>1, <2>2
    <2>4. \A j \in Attributes : Has(j) /\ state[j] = k
                                  => /\ k \in store.children /\ ChildAt(j, k) /\ m[k] # None
                                     /\ m[k] = j
      <3> SUFFICES ASSUME NEW j \in Attributes, Has(j), state[j] = k
                   PROVE  k \in store.children /\ ChildAt(j, k) /\ m[k] # None /\ m[k] = j
        OBVIOUS
      <3>1. ChildAt(j, k)
        BY <1>3 DEF ChildAt
      <3>2. k \in store.children
        BY <1>3, <3>1
      <3>3. m[k] # None /\ m[k] \in Attributes
        BY <1>3, <3>2 DEF AttributeLocated
      <3>4. ChildAt(m[k], k) /\ state[m[k]] = k
        BY <1>3, <3>3
      <3>5. m[k] = j
        BY <1>3, <3>1, <3>3, <3>4 DEF HeldOnce
      <3> QED BY <3>1, <3>2, <3>3, <3>5
    <2>5. CASE store'.data = store.data /\ (k \notin store.children \/ ~ Has(m[k]))
      <3>1. \A j \in Attributes : Has(j) => state[j] # k
        BY <2>4, <2>5
      <3>2. \A j \in Attributes : New(j) = store.data[j]
        BY <2>2, <2>3, <3>1
      <3> QED BY <2>1, <2>2, <2>5, <3>2
    <2>6. CASE /\ k \in store.children /\ Has(m[k])
               /\ store'.data = [store.data EXCEPT ![m[k]] = NewDataOf(k)]
      <3>1. m[k] \in Attributes /\ state[m[k]] = k /\ k # None
        BY <1>3, <2>6, NoneAssumption DEF AttributeLocated, Values
      <3>2. \A j \in Attributes : j # m[k] => New(j) = store.data[j]
        BY <2>2, <2>3, <2>4
      <3>3. \A j \in Attributes : j = m[k] => New(j) = NewDataOf(k)
        BY <1>1, <2>6, <3>1
      <3> HIDE DEF New
      <3>4. \A j \in Attributes : [store.data EXCEPT ![m[k]] = NewDataOf(k)][j] = New(j)
        BY <2>2, <3>1, <3>2, <3>3
      <3> QED BY <2>1, <2>2, <2>6, <3>4
    <2> QED BY <1>4, <2>5, <2>6
  <1>6. AttributesExact(store)'
    BY <1>2, <1>3, <1>4, <1>5 DEF AttributesExact, HeldOnce, AttributesAdopt
  <1>7. AttributesLocationsExact(store) => AttributesLocationsExact(store')
    BY <1>0, <1>4 DEF AttributesLocationsExact
  <1> QED BY <1>1, <1>2, <1>21, <1>6, <1>7 DEF AttributesMore, NamesFollow

\* Every step keeps the second invariant of attributes, and locations follow.
LEMMA AttributesMoreStep ==
    ASSUME AttributesMore, AttributesInv, AttributesNext
    PROVE  AttributesMore' /\ NamesFollow(store, store')
  <1>1. CASE AttributesCalls
    <2>1. CASE \E values \in Updates : Update(values)
      <3>1. PICK values \in Updates : Update(values)
        BY <2>1
      <3>2. DOMAIN values \subseteq Attributes
        BY DEF Updates, Names
      <3> QED BY <3>1, <3>2, AttributesUpdateExact
    <2>2. CASE \E n \in Names, v \in Values : PutAttribute(n, v)
      <3>1. PICK n \in Names, v \in Values : Update([m \in {n} |-> v])
        BY <2>2 DEF PutAttribute
      <3>2. DOMAIN [m \in {n} |-> v] \subseteq Attributes
        BY DEF Names
      <3> QED BY <3>1, <3>2, AttributesUpdateExact
    <2>3. CASE \E n \in Names : DeleteAttribute(n)
      <3>1. PICK n \in Names : Update([m \in {n} |-> DELETED])
        BY <2>3 DEF DeleteAttribute
      <3>2. DOMAIN [m \in {n} |-> DELETED] \subseteq Attributes
        BY DEF Names
      <3> QED BY <3>1, <3>2, AttributesUpdateExact
    <2>4. CASE ClearAttributes
      <3> DEFINE values == [n \in {m \in Deletable : store.state[m] # None} |-> DELETED]
      <3>1. Update(values)
        BY <2>4 DEF ClearAttributes
      <3>2. DOMAIN values \subseteq Attributes
        BY DEF Deletable
      <3> HIDE DEF values
      <3> QED BY <3>1, <3>2, AttributesUpdateExact
    <2> QED BY <1>1, <2>1, <2>2, <2>3, <2>4 DEF AttributesCalls
  <1>2. CASE \E k \in Kids : (k \in store.children => AttributeLocated(k))
                             /\ ChildChanges(k, AttributeChildReplaced(k))
    BY <1>2, AttributeChildExact
  <1>3. CASE done # <<>> /\ UndoTo(AttributesUndone(Last(done)))
    BY <1>3, AttributesUndoExact
  <1>4. CASE undone # <<>> /\ RedoTo(AttributesRedone(Last(undone)))
    BY <1>4, AttributesRedoExact
  <1> QED BY <1>1, <1>2, <1>3, <1>4 DEF AttributesNext

\* It holds of an object with attributes that is made.
LEMMA AttributesMoreStart ==
    ASSUME versions = [k \in Kids |-> 0], done = <<>>, undone = <<>>, AttributesInit
    PROVE  AttributesMore
  <1>1. versions \in [Kids -> {0, 1}] /\ class \in Classes /\ Entries = {}
    BY EmptyList DEF Entries, AttributesInit
  <1>2. ~ \E n \in Attributes : ChildAt(n, None)
    BY NoneAssumption DEF ChildAt, Values
  <1>3. AttributesExact(NoAttributes)
    BY <1>2 DEF AttributesExact, NoAttributes, States, HeldOnce, AttributesAdopt, AttributesData
  <1>4. NoAttributes.state \in States /\ Current(NoAttributes.state)
    <2>1. NoAttributes.state = [n \in Attributes |-> None]
      BY DEF NoAttributes
    <2>2. \A n \in Delegating : /\ n \in Attributes
                                /\ Declared(n).delegates.returns \in Dependencies[n]
                                /\ Dependencies[n] \subseteq Attributes
      BY <1>1, ClassIs DEF Delegating
    <2>3. Current([n \in Attributes |-> None])
      BY <2>2 DEF Current
    <2> QED BY <2>1, <2>3 DEF States
  <1>5. ASSUME NEW initial, DOMAIN initial \subseteq Attributes, NEW s \in CreatedFrom(initial)
        PROVE  AttributesExact(s)
    <2>1. ValuesSettable(NoAttributes, initial)
      BY <1>5 DEF CreatedFrom
    <2>2. PICK i : i = Outcome(NoAttributes, initial)
      OBVIOUS
    <2>3. Right(NoAttributes, i)
      BY <1>1, <1>4, <1>5, <2>1, <2>2, OutcomeRight
    <2>4. \/ s = NoAttributes
          \/ \E order \in Orders(i.new) : /\ RawUpdateAllowed(NoAttributes, i.new, i.old, order)
                                          /\ s = RawUpdated(NoAttributes, i.new, i.old, order)
      BY <1>5, <2>2 DEF CreatedFrom
    <2> QED BY <1>1, <1>3, <2>3, <2>4, AttributesPut
  <1>6. AttributesExact(store)
    <2>0. PICK names \in SUBSET Stored : \E values \in [names -> Values] : store \in Created(values)
      BY DEF AttributesInit
    <2>1. PICK values \in [names -> Values] : store \in Created(values)
      BY <2>0
    <2>2. PICK initial \in Initials(values) : store \in CreatedFrom(initial)
      BY <2>1 DEF Created
    <2>3. DOMAIN initial \subseteq Attributes
      BY <2>1, <2>2 DEF Initials, Stored
    <2> QED BY <1>5, <2>2, <2>3
  <1> QED BY <1>1, <1>6 DEF AttributesMore

\* What it says of the store is what the properties ask for.
LEMMA AttributesMoreShows ==
    AttributesMore => /\ versions \in [Kids -> {0, 1}]
                      /\ store.children \subseteq Kids /\ DOMAIN store.state = Attributes
                      /\ store.children = AttributesAdopt(store)
                      /\ AttributesDataExact(store)
  <1> SUFFICES ASSUME AttributesMore
               PROVE  /\ store.children \subseteq Kids /\ DOMAIN store.state = Attributes
                      /\ AttributesDataExact(store)
    BY DEF AttributesMore, AttributesExact
  <1>1. /\ store.children = AttributesAdopt(store)
        /\ store.data = AttributesData(store.state) /\ store.state \in States
    BY DEF AttributesMore, AttributesExact
  <1>2. AttributesDataExact(store)
    BY <1>1 DEF AttributesDataExact, AttributesData
  <1>3. store.children \subseteq Kids
    BY <1>1 DEF AttributesAdopt, ChildAt
  <1> QED BY <1>1, <1>2, <1>3 DEF States

\* The last entry can be undone, unless it gave an attribute a value that may not be deleted
\* or changed again.
LEMMA AttributesMoreUndo ==
    ASSUME AttributesMore, AttributesInv, NEW e \in Entries, store.state = EntryTo(e),
           AttributesLocationsExact(store), ~ CannotGoBack(e)
    PROVE  AttributesUndoable(e)
  <1>0. PICK old, new, order : old = e[1].old /\ new = e[1].new /\ order = e[1].order
    OBVIOUS
  <1> DEFINE N == Len(order)
             f == AttributesLocationsAfter(store, old, new, order)
             back == After(store.state, old)
  <1>1. /\ AttributesEntry(e) /\ AttributesEntryExact(e) /\ AttributesExact(store)
        /\ store.state = e[1].to /\ class \in Classes
    BY DEF AttributesMore, AttributesInv, EntryTo, AttributesEntry
  <1>2. /\ NewForOld(store.state, old, new) /\ OrderFits(new, order) /\ HeldOnce(back)
        /\ HeldOnce(store.state)
        /\ \A n \in Stored : Declared(n).relationship.child /\ new[n] # None /\ old[n] # DELETED
                               => n \in Changeable
    <2>1. back = e[1].from
      BY <1>0, <1>1 DEF AttributesEntry
    <2> HIDE DEF back
    <2> QED BY <1>0, <1>1, <2>1 DEF AttributesEntryExact
  <1>3. OrderFits(old, order)
    BY <1>2 DEF OrderFits, NewForOld
  <1>4. NewIn(store, old, new, back)
    BY <1>1, <1>2, AttributesPutRight DEF AttributesMore
  <1>5. \A n \in 0..N :
             /\ f[n] \in [Kids -> Attributes \cup {None}]
             /\ \A c \in Kids :
                  f[n][c] = None =>
                       \/ \E j \in 1..n : /\ ChildAt(order[j], c) /\ new[order[j]] = c
                                          /\ \A i \in j..n : ~ (ChildAt(order[i], c) /\ old[order[i]] = c)
                       \/ store.metadata[c] = None
                          /\ \A i \in 1..n : ~ (ChildAt(order[i], c) /\ old[order[i]] = c)
    BY <1>1, <1>3, AttributesLocationsAre
  <1>6. /\ N \in Nat /\ DOMAIN order = 1..N
        /\ \A i \in 1..N : order[i] \in Attributes
        /\ \A i, j \in 1..N : order[i] = order[j] => i = j
    BY <1>3 DEF OrderFits
  <1> HIDE DEF f, N, back
  <1>7. /\ \A n \in Attributes : back[n] = IF old[n] = None THEN store.state[n]
                                           ELSE IF old[n] = DELETED THEN None ELSE old[n]
        /\ \A c : c \in ValuesGone(new) <=> \E n \in Attributes : ChildAt(n, c) /\ new[n] = c
        /\ \A c : c \in ValuesPut(old) <=> \E n \in Attributes : ChildAt(n, c) /\ old[n] = c
        /\ \A c : c \in store.children <=> \E n \in Attributes : ChildAt(n, c) /\ store.state[n] = c
    BY <1>4 DEF NewIn
  <1>8. /\ \A n, c : ChildAt(n, c) => c \in Kids /\ c # None /\ c # DELETED
        /\ \A n \in Attributes :
             /\ old[n] = None <=> new[n] = None
             /\ new[n] # None => new[n] = IF store.state[n] = None THEN DELETED ELSE store.state[n]
    BY <1>2, NoneAssumption, DeletedAssumption DEF ChildAt, Values, NewForOld
  <1>9. ASSUME NEW n \in Changed(old) \cap Stored
        PROVE  /\ old[n] = DELETED => n \in Deletable
               /\ Declared(n).relationship.child /\ new[n] # DELETED => n \in Changeable
    <2>1. n \in Stored /\ n \in Attributes /\ old[n] # None /\ new[n] # None
      BY <1>8 DEF Changed, Stored
    <2>2. old[n] = DELETED => n \in Deletable /\ n \in Changeable
      BY <1>0, <1>1, <2>1 DEF CannotGoBack, AttributesEntry
    <2> QED BY <1>2, <2>1, <2>2
  <1>10. ASSUME NEW n \in 1..N, ChildAt(order[n], new[order[n]])
         PROVE  f[n - 1][new[order[n]]] # None
    <2>1. PICK c : c = new[order[n]]
      OBVIOUS
    <2>2. /\ ChildAt(order[n], c) /\ c \in Kids /\ n - 1 \in 0..N /\ order[n] \in Attributes
          /\ store.state[order[n]] = c
      BY <1>6, <1>8, <1>10, <2>1
    <2>3. store.metadata[c] # None
      <3>1. c \in store.children
        BY <1>7, <2>2
      <3> QED BY <2>2, <3>1 DEF AttributesLocationsExact
    <2>4. ASSUME NEW j \in 1..(n - 1), ChildAt(order[j], c), new[order[j]] = c
          PROVE  FALSE
      <3>1. j \in 1..N /\ j # n /\ order[j] \in Attributes
        BY <1>6
      <3>2. store.state[order[j]] = c
        BY <1>8, <2>4, <3>1
      <3>3. order[j] = order[n]
        BY <1>2, <2>2, <2>4, <3>1, <3>2 DEF HeldOnce
      <3> QED BY <1>6, <3>1, <3>3
    <2>5. f[n - 1][c] # None
      BY <1>5, <2>2, <2>3, <2>4
    <2> QED BY <2>1, <2>5
  <1>11. ASSUME NEW m \in Changed(old), NEW n \in Changed(old),
                ChildAt(m, old[m]), ChildAt(n, old[n]), old[m] = old[n]
         PROVE  m = n
    <2>1. m \in Attributes /\ n \in Attributes /\ old[m] # None /\ old[n] # None
      BY DEF Changed
    <2>2. back[m] = old[m] /\ back[n] = old[n]
      BY <1>7, <1>8, <1>11, <2>1
    <2> QED BY <1>2, <1>11, <2>1, <2>2 DEF HeldOnce
  <1>12. Admits(store, ValuesGone(new), ValuesPut(old))
    <2>1. \A c \in ValuesGone(new) : c \in store.children
      BY <1>7, <1>8
    <2>2. ASSUME NEW c \in ValuesPut(old), c \notin ValuesGone(new), c \in store.children
          PROVE  FALSE
      <3>1. PICK n \in Attributes : ChildAt(n, c) /\ old[n] = c
        BY <1>7, <2>2
      <3>2. PICK l \in Attributes : ChildAt(l, c) /\ store.state[l] = c
        BY <1>7, <2>2
      <3>3. new[l] # c
        BY <1>7, <2>2, <3>2
      <3>4. new[l] = None /\ old[l] = None
        BY <1>8, <3>2, <3>3
      <3>5. back[l] = c /\ back[n] = c
        BY <1>7, <1>8, <3>1, <3>2, <3>4
      <3>6. l = n
        BY <1>2, <3>1, <3>2, <3>5 DEF HeldOnce
      <3> QED BY <1>8, <3>1, <3>4, <3>6
    <2> QED BY <2>1, <2>2 DEF Admits
  <1>13. RawUpdateAllowed(store, old, new, order)
    BY <1>6, <1>9, <1>10, <1>11, <1>12 DEF RawUpdateAllowed, f
  <1> QED BY <1>0, <1>13 DEF AttributesUndoable

-----------------------------------------------------------------------------
(* What is derived from the values: of lists.                              *)

\* Which values the parts of a list, and the lists made of them, have where.
LEMMA PartAt ==
    ASSUME NEW s, IsList(s), NEW i \in Nat, NEW j \in Nat, i <= j, j <= Len(s)
    PROVE  /\ IsList(Part(s, i, j)) /\ Len(Part(s, i, j)) = j - i
           /\ \A k \in 1..(j - i) : Part(s, i, j)[k] = s[i + k]
  <1>1. s \in Seq(ToSet(s))
    BY DEF IsList
  <1>2. /\ Part(s, i, j) \in Seq(ToSet(s)) /\ Len(Part(s, i, j)) = j - i
        /\ \A k \in 1..(j - i) : Part(s, i, j)[k] = s[i + k]
    BY <1>1, PartIs
  <1> QED BY <1>2, ListOf

\* What is where after a part was cut out.
LEMMA CutAt ==
    ASSUME NEW s, IsList(s), NEW i \in Nat, NEW j \in Nat, i <= j, j <= Len(s)
    PROVE  /\ IsList(Cut(s, i, j)) /\ Len(Cut(s, i, j)) = Len(s) - (j - i)
           /\ \A k \in 1..i : Cut(s, i, j)[k] = s[k]
           /\ \A k \in (i + 1)..(Len(s) - (j - i)) : Cut(s, i, j)[k] = s[k + (j - i)]
  <1>1. s \in Seq(ToSet(s))
    BY DEF IsList
  <1>2. /\ Cut(s, i, j) \in Seq(ToSet(s)) /\ Len(Cut(s, i, j)) = Len(s) - (j - i)
        /\ \A k \in 1..i : Cut(s, i, j)[k] = s[k]
        /\ \A k \in (i + 1)..(Len(s) - (j - i)) : Cut(s, i, j)[k] = s[k + (j - i)]
    BY <1>1, CutIs
  <1> QED BY <1>2, ListOf

\* What is where after values were put in.
LEMMA InsAt ==
    ASSUME NEW s, IsList(s), NEW v, IsList(v), NEW i \in Nat, i <= Len(s)
    PROVE  /\ IsList(Ins(s, i, v)) /\ Len(Ins(s, i, v)) = Len(s) + Len(v)
           /\ \A k \in 1..i : Ins(s, i, v)[k] = s[k]
           /\ \A k \in 1..Len(v) : Ins(s, i, v)[i + k] = v[k]
           /\ \A k \in (i + 1)..Len(s) : Ins(s, i, v)[k + Len(v)] = s[k]
  <1>1. PICK S : s \in Seq(S) /\ v \in Seq(S)
    BY CommonSet
  <1>2. /\ Ins(s, i, v) \in Seq(S) /\ Len(Ins(s, i, v)) = Len(s) + Len(v)
        /\ \A k \in 1..i : Ins(s, i, v)[k] = s[k]
        /\ \A k \in 1..Len(v) : Ins(s, i, v)[i + k] = v[k]
        /\ \A k \in (i + 1)..Len(s) : Ins(s, i, v)[k + Len(v)] = s[k]
    BY <1>1, InsIs
  <1> QED BY <1>2, ListOf

\* Values may be in a list together.
Good(s) == IsList(s) /\ ToSet(s) \subseteq Values /\ Distinct(s)

\* A list is good if its values are values and no child is in it twice.
LEMMA GoodIs ==
    ASSUME NEW s, IsList(s)
    PROVE  Good(s) <=> /\ \A k \in 1..Len(s) : s[k] \in Values
                       /\ \A k, l \in 1..Len(s) : IsChild(s[k]) /\ s[k] = s[l] => k = l
  <1>1. /\ DOMAIN s = 1..Len(s) /\ \A k \in 1..Len(s) : s[k] \in ToSet(s)
        /\ \A x \in ToSet(s) : \E k \in 1..Len(s) : s[k] = x
    BY ListIs
  <1>2. ToSet(s) \subseteq Values <=> \A k \in 1..Len(s) : s[k] \in Values
    BY <1>1
  <1> QED BY <1>1, <1>2 DEF Good, Distinct

\* The children in a list.
HeldIn(s) == ChildrenIn(ToSet(s))

\* The children of a list are at some index.
LEMMA HeldIs ==
    ASSUME NEW s, IsList(s)
    PROVE  \A c : c \in HeldIn(s) <=> IsChild(c) /\ \E k \in 1..Len(s) : s[k] = c
  BY ListIs DEF HeldIn, ChildrenIn

\* A part of a good list is good, and its children are among those of the list.
LEMMA GoodPart ==
    ASSUME NEW s, Good(s), NEW i \in Nat, NEW j \in Nat, i <= j, j <= Len(s)
    PROVE  Good(Part(s, i, j)) /\ HeldIn(Part(s, i, j)) \subseteq HeldIn(s)
  <1> DEFINE p == Part(s, i, j)
  <1>1. IsList(s) /\ Len(s) \in Nat
    BY ListIs DEF Good
  <1>2. /\ IsList(p) /\ Len(p) = j - i
        /\ \A k \in 1..(j - i) : p[k] = s[i + k]
    BY <1>1, PartAt
  <1>3. /\ \A k \in 1..Len(s) : s[k] \in Values
        /\ \A k, l \in 1..Len(s) : IsChild(s[k]) /\ s[k] = s[l] => k = l
    BY <1>1, GoodIs
  <1> HIDE DEF p
  <1>4. \A k \in 1..(j - i) : i + k \in 1..Len(s)
    BY <1>1
  <1>5. Good(p)
    <2>1. \A k \in 1..Len(p) : p[k] \in Values
      BY <1>2, <1>3, <1>4
    <2>2. ASSUME NEW k \in 1..Len(p), NEW l \in 1..Len(p), IsChild(p[k]), p[k] = p[l]
          PROVE  k = l
      <3>1. i + k = i + l
        BY <1>2, <1>3, <1>4, <2>2
      <3> QED BY <1>2, <3>1
    <2> QED BY <1>2, <2>1, <2>2, GoodIs
  <1>6. ASSUME NEW c \in HeldIn(p) PROVE c \in HeldIn(s)
    <2>1. IsChild(c) /\ \E k \in 1..Len(p) : p[k] = c
      BY <1>2, <1>6, HeldIs
    <2>2. \E k \in 1..Len(s) : s[k] = c
      BY <1>2, <1>4, <2>1
    <2> QED BY <1>1, <2>1, <2>2, HeldIs
  <1> QED BY <1>5, <1>6 DEF p

\* A good list stays good without a part, whose children it loses.
LEMMA GoodCut ==
    ASSUME NEW s, Good(s), NEW i \in Nat, NEW j \in Nat, i <= j, j <= Len(s)
    PROVE  Good(Cut(s, i, j)) /\ HeldIn(Cut(s, i, j)) = HeldIn(s) \ HeldIn(Part(s, i, j))
  <1> DEFINE p == Part(s, i, j)
             t == Cut(s, i, j)
             m == j - i
  <1>1. IsList(s) /\ Len(s) \in Nat /\ m \in Nat
    BY ListIs DEF Good
  <1>2. /\ IsList(p) /\ Len(p) = m
        /\ \A k \in 1..m : p[k] = s[i + k]
    BY <1>1, PartAt
  <1>3. /\ IsList(t) /\ Len(t) = Len(s) - m
        /\ \A k \in 1..i : t[k] = s[k]
        /\ \A k \in (i + 1)..(Len(s) - m) : t[k] = s[k + m]
    BY <1>1, CutAt
  <1>4. /\ \A k \in 1..Len(s) : s[k] \in Values
        /\ \A k, l \in 1..Len(s) : IsChild(s[k]) /\ s[k] = s[l] => k = l
    BY <1>1, GoodIs
  <1> DEFINE at(k) == IF k <= i THEN k ELSE k + m
  <1> HIDE DEF p, t
  <1>5. \A k \in 1..Len(t) : at(k) \in 1..Len(s) /\ t[k] = s[at(k)] /\ at(k) \notin (i + 1)..j
    BY <1>1, <1>3
  <1>6. \A k, l \in 1..Len(t) : at(k) = at(l) => k = l
    BY <1>1, <1>3
  <1>7. \A k \in 1..Len(s) : k \notin (i + 1)..j => \E l \in 1..Len(t) : at(l) = k
    <2> TAKE k \in 1..Len(s)
    <2> SUFFICES ASSUME k \notin (i + 1)..j PROVE \E l \in 1..Len(t) : at(l) = k
      OBVIOUS
    <2>1. CASE k <= i
      <3>1. k \in 1..Len(t) /\ at(k) = k
        BY <1>1, <1>3, <2>1
      <3> QED BY <3>1
    <2>2. CASE ~ (k <= i)
      <3>1. k - m \in 1..Len(t) /\ at(k - m) = k
        BY <1>1, <1>3, <2>2
      <3> QED BY <3>1
    <2> QED BY <2>1, <2>2
  <1> HIDE DEF at
  <1>8. Good(t)
    <2>1. \A k \in 1..Len(t) : t[k] \in Values
      BY <1>4, <1>5
    <2>2. \A k, l \in 1..Len(t) : IsChild(t[k]) /\ t[k] = t[l] => k = l
      BY <1>4, <1>5, <1>6
    <2> QED BY <1>3, <2>1, <2>2, GoodIs
  <1>9. ASSUME NEW c
        PROVE  c \in HeldIn(t) <=> c \in HeldIn(s) /\ c \notin HeldIn(p)
    <2>1. /\ c \in HeldIn(t) <=> IsChild(c) /\ \E k \in 1..Len(t) : t[k] = c
          /\ c \in HeldIn(s) <=> IsChild(c) /\ \E k \in 1..Len(s) : s[k] = c
          /\ c \in HeldIn(p) <=> IsChild(c) /\ \E k \in 1..Len(p) : p[k] = c
      BY <1>1, <1>2, <1>3, HeldIs
    <2>2. (\E k \in 1..Len(p) : p[k] = c) <=> \E k \in (i + 1)..j : s[k] = c
      <3>1. \A k \in 1..Len(p) : i + k \in (i + 1)..j
        BY <1>1, <1>2
      <3>2. \A k \in (i + 1)..j : k - i \in 1..m /\ i + (k - i) = k
        BY <1>1
      <3> QED BY <1>2, <3>1, <3>2
    <2>3. \A k \in (i + 1)..j : k \in 1..Len(s)
      BY <1>1
    <2>4. ASSUME IsChild(c), NEW k \in 1..Len(t), t[k] = c
          PROVE  c \in HeldIn(s) /\ c \notin HeldIn(p)
      BY <1>4, <1>5, <2>1, <2>2, <2>3, <2>4
    <2>5. ASSUME IsChild(c), NEW k \in 1..Len(s), s[k] = c, c \notin HeldIn(p)
          PROVE  \E l \in 1..Len(t) : t[l] = c
      <3>1. k \notin (i + 1)..j
        BY <2>1, <2>2, <2>5
      <3> QED BY <1>5, <1>7, <2>5, <3>1
    <2> QED BY <2>1, <2>4, <2>5
  <1> QED BY <1>8, <1>9 DEF p, t

\* A good list stays good with other values in it, if they bring no child it has.
LEMMA GoodIns ==
    ASSUME NEW s, Good(s), NEW v, Good(v), NEW i \in Nat, i <= Len(s),
           HeldIn(s) \cap HeldIn(v) = {}
    PROVE  Good(Ins(s, i, v)) /\ HeldIn(Ins(s, i, v)) = HeldIn(s) \cup HeldIn(v)
  <1> DEFINE t == Ins(s, i, v)
             m == Len(v)
  <1>1. IsList(s) /\ Len(s) \in Nat /\ IsList(v) /\ m \in Nat
    BY ListIs DEF Good
  <1>2. /\ IsList(t) /\ Len(t) = Len(s) + m
        /\ \A k \in 1..i : t[k] = s[k]
        /\ \A k \in 1..m : t[i + k] = v[k]
        /\ \A k \in (i + 1)..Len(s) : t[k + m] = s[k]
    BY <1>1, InsAt
  <1>3. /\ \A k \in 1..Len(s) : s[k] \in Values
        /\ \A k, l \in 1..Len(s) : IsChild(s[k]) /\ s[k] = s[l] => k = l
        /\ \A k \in 1..m : v[k] \in Values
        /\ \A k, l \in 1..m : IsChild(v[k]) /\ v[k] = v[l] => k = l
    BY <1>1, GoodIs
  <1>4. ASSUME NEW k \in 1..Len(s), NEW l \in 1..m, IsChild(s[k])
        PROVE  s[k] # v[l]
    <2> SUFFICES ASSUME s[k] = v[l] PROVE FALSE
      OBVIOUS
    <2>1. s[k] \in HeldIn(s)
      BY <1>1, <1>4, HeldIs
    <2>2. s[k] \in HeldIn(v)
      BY <1>1, <1>4, HeldIs
    <2> QED BY <2>1, <2>2
  <1> DEFINE old(k) == k <= i \/ k > i + m
             at(k) == IF k <= i THEN k ELSE IF k > i + m THEN k - m ELSE k - i
  <1> HIDE DEF t, m
  <1>5. \A k \in 1..Len(t) : old(k) => at(k) \in 1..Len(s) /\ t[k] = s[at(k)]
    <2> TAKE k \in 1..Len(t)
    <2>1. CASE k <= i
      <3>1. at(k) = k /\ k \in 1..i /\ k \in 1..Len(s)
        BY <1>1, <1>2, <2>1
      <3> QED BY <1>2, <3>1
    <2>2. CASE k > i + m
      <3>1. at(k) = k - m /\ k - m \in (i + 1)..Len(s) /\ (k - m) + m = k /\ k - m \in 1..Len(s)
        BY <1>1, <1>2, <2>2
      <3> QED BY <1>2, <3>1
    <2> QED BY <2>1, <2>2
  <1>6. \A k \in 1..Len(t) : ~ old(k) => at(k) \in 1..m /\ t[k] = v[at(k)]
    <2> TAKE k \in 1..Len(t)
    <2> SUFFICES ASSUME ~ old(k) PROVE at(k) \in 1..m /\ t[k] = v[at(k)]
      OBVIOUS
    <2>1. at(k) = k - i /\ k - i \in 1..m /\ i + (k - i) = k
      BY <1>1, <1>2
    <2> QED BY <1>2, <2>1
  <1>7. \A k, l \in 1..Len(t) : (old(k) <=> old(l)) /\ at(k) = at(l) => k = l
    BY <1>1, <1>2
  <1>8. \A k \in 1..Len(s) : \E l \in 1..Len(t) : old(l) /\ at(l) = k
    <2> TAKE k \in 1..Len(s)
    <2>1. CASE k <= i
      <3>1. k \in 1..Len(t) /\ old(k) /\ at(k) = k
        BY <1>1, <1>2, <2>1
      <3> QED BY <3>1
    <2>2. CASE ~ (k <= i)
      <3>1. k + m \in 1..Len(t) /\ old(k + m) /\ at(k + m) = k
        BY <1>1, <1>2, <2>2
      <3> QED BY <3>1
    <2> QED BY <2>1, <2>2
  <1>9. \A k \in 1..m : \E l \in 1..Len(t) : ~ old(l) /\ at(l) = k
    <2> TAKE k \in 1..m
    <2>1. i + k \in 1..Len(t) /\ ~ old(i + k) /\ at(i + k) = k
      BY <1>1, <1>2
    <2> QED BY <2>1
  <1> HIDE DEF old, at
  <1>10. Good(t)
    <2>1. \A k \in 1..Len(t) : t[k] \in Values
      BY <1>3, <1>5, <1>6
    <2>2. ASSUME NEW k \in 1..Len(t), NEW l \in 1..Len(t), IsChild(t[k]), t[k] = t[l]
          PROVE  k = l
      <3>1. CASE old(k) /\ old(l)
        BY <1>3, <1>5, <1>7, <2>2, <3>1
      <3>2. CASE ~ old(k) /\ ~ old(l)
        BY <1>3, <1>6, <1>7, <2>2, <3>2
      <3>3. CASE old(k) /\ ~ old(l)
        BY <1>4, <1>5, <1>6, <2>2, <3>3
      <3>4. CASE ~ old(k) /\ old(l)
        BY <1>4, <1>5, <1>6, <2>2, <3>4
      <3> QED BY <3>1, <3>2, <3>3, <3>4
    <2> QED BY <1>2, <2>1, <2>2, GoodIs
  <1>11. ASSUME NEW c
         PROVE  c \in HeldIn(t) <=> c \in HeldIn(s) \/ c \in HeldIn(v)
    <2>1. /\ c \in HeldIn(t) <=> IsChild(c) /\ \E k \in 1..Len(t) : t[k] = c
          /\ c \in HeldIn(s) <=> IsChild(c) /\ \E k \in 1..Len(s) : s[k] = c
          /\ c \in HeldIn(v) <=> IsChild(c) /\ \E k \in 1..m : v[k] = c
      <3>1. c \in HeldIn(t) <=> IsChild(c) /\ \E k \in 1..Len(t) : t[k] = c
        BY <1>2, HeldIs
      <3>2. c \in HeldIn(s) <=> IsChild(c) /\ \E k \in 1..Len(s) : s[k] = c
        BY <1>1, HeldIs
      <3>3. c \in HeldIn(v) <=> IsChild(c) /\ \E k \in 1..Len(v) : v[k] = c
        BY <1>1, HeldIs
      <3> QED BY <3>1, <3>2, <3>3 DEF m
    <2>2. (\E k \in 1..Len(t) : t[k] = c) <=> \/ \E k \in 1..Len(s) : s[k] = c
                                              \/ \E k \in 1..m : v[k] = c
      <3>1. ASSUME NEW k \in 1..Len(t), t[k] = c
            PROVE  (\E l \in 1..Len(s) : s[l] = c) \/ \E l \in 1..m : v[l] = c
        <4>1. CASE old(k)
          BY <1>5, <3>1, <4>1
        <4>2. CASE ~ old(k)
          BY <1>6, <3>1, <4>2
        <4> QED BY <4>1, <4>2
      <3>2. ASSUME NEW k \in 1..Len(s), s[k] = c
            PROVE  \E l \in 1..Len(t) : t[l] = c
        <4>1. PICK l \in 1..Len(t) : old(l) /\ at(l) = k
          BY <1>8
        <4> QED BY <1>5, <3>2, <4>1
      <3>3. ASSUME NEW k \in 1..m, v[k] = c
            PROVE  \E l \in 1..Len(t) : t[l] = c
        <4>1. PICK l \in 1..Len(t) : ~ old(l) /\ at(l) = k
          BY <1>9
        <4> QED BY <1>6, <3>3, <4>1
      <3> QED BY <3>1, <3>2, <3>3
    <2> QED BY <2>1, <2>2
  <1> QED BY <1>10, <1>11 DEF t

\* A good list stays good, with the same children, if a part of it moves.
LEMMA GoodMove ==
    ASSUME NEW s, Good(s), NEW i \in Nat, NEW j \in Nat, NEW post \in Nat, i <= j, j <= Len(s),
           post <= Len(s) - (j - i)
    PROVE  Good(MoveTo(s, i, j, post)) /\ HeldIn(MoveTo(s, i, j, post)) = HeldIn(s)
  <1> DEFINE p == Part(s, i, j)
             t == Cut(s, i, j)
  <1>1. IsList(s)
    BY DEF Good
  <1>2. Len(t) = Len(s) - (j - i)
    BY <1>1, ListCut
  <1>3. Good(p) /\ HeldIn(p) \subseteq HeldIn(s)
    BY GoodPart
  <1>4. Good(t) /\ HeldIn(t) = HeldIn(s) \ HeldIn(p)
    BY GoodCut
  <1> HIDE DEF p, t
  <1>5. post <= Len(t) /\ HeldIn(t) \cap HeldIn(p) = {}
    BY <1>2, <1>4
  <1>6. Good(Ins(t, post, p)) /\ HeldIn(Ins(t, post, p)) = HeldIn(t) \cup HeldIn(p)
    BY <1>3, <1>4, <1>5, GoodIns
  <1>7. HeldIn(t) \cup HeldIn(p) = HeldIn(s)
    BY <1>3, <1>4
  <1> QED BY <1>6, <1>7 DEF MoveTo, p, t

\* Values in the place of as many others.
Put(s, i, v) == Ins(Cut(s, i, i + Len(v)), i, v)

\* What is where after values replaced others.
LEMMA PutAt ==
    ASSUME NEW s, IsList(s), NEW v, IsList(v), NEW i \in Nat, i + Len(v) <= Len(s)
    PROVE  /\ IsList(Put(s, i, v)) /\ Len(Put(s, i, v)) = Len(s)
           /\ \A k \in 1..Len(v) : i + k \in 1..Len(s) /\ Put(s, i, v)[i + k] = v[k]
           /\ \A k \in 1..Len(s) : k \notin (i + 1)..(i + Len(v)) => Put(s, i, v)[k] = s[k]
  <1> DEFINE m == Len(v)
             t == Cut(s, i, i + m)
             p == Ins(t, i, v)
  <1>1. Len(s) \in Nat /\ m \in Nat
    BY ListIs
  <1>2. i + m \in Nat /\ i <= i + m /\ (i + m) - i = m /\ \A k \in 1..m : i + k \in 1..Len(s)
    BY <1>1
  <1>3. IsList(t) /\ Len(t) = Len(s) - m
    <2> DEFINE j == i + m
    <2>1. j \in Nat /\ i <= j /\ j <= Len(s) /\ j - i = m
      BY <1>2
    <2> HIDE DEF j
    <2>2. IsList(Cut(s, i, j)) /\ Len(Cut(s, i, j)) = Len(s) - (j - i)
      BY <2>1, ListCut
    <2> QED BY <2>1, <2>2 DEF j
  <1>4. \A k \in 1..Len(s) : k \notin (i + 1)..(i + m) => p[k] = s[k]
    BY ListReplaced
  <1> HIDE DEF t, m
  <1>5. i <= Len(t)
    BY <1>1, <1>2, <1>3
  <1>6. /\ IsList(p) /\ Len(p) = Len(t) + m
        /\ \A k \in 1..m : p[i + k] = v[k]
    <2>1. /\ IsList(p) /\ Len(p) = Len(t) + Len(v)
          /\ \A k \in 1..i : p[k] = t[k]
          /\ \A k \in 1..Len(v) : p[i + k] = v[k]
          /\ \A k \in (i + 1)..Len(t) : p[k + Len(v)] = t[k]
      <3>1. IsList(t) /\ IsList(v) /\ i \in Nat /\ i <= Len(t)
        BY <1>3, <1>5
      <3> QED BY ONLY <3>1, InsAt, Zenon
    <2> QED BY <2>1 DEF m
  <1>7. Len(p) = Len(s)
    BY <1>1, <1>3, <1>6
  <1> QED BY <1>2, <1>4, <1>6, <1>7 DEF Put, m, t

\* The children that values replace, and those among the values that replace others.
Replaced(old, v)  == ChildrenIn({old[k] : k \in {l \in 1..Len(v) : v[l] # old[l]}})
Replacing(old, v) == ChildrenIn({v[k] : k \in {l \in 1..Len(v) : v[l] # old[l]}})

\* A good list stays good with values replaced, if those that come only were not there.
LEMMA GoodPut ==
    ASSUME NEW s, Good(s), NEW v, Good(v), NEW i \in Nat, i + Len(v) <= Len(s),
           NEW old, old = Part(s, i, i + Len(v)),
           \A c \in Replacing(old, v) \ Replaced(old, v) : c \notin HeldIn(s)
    PROVE  /\ Good(Put(s, i, v))
           /\ HeldIn(Put(s, i, v)) = (HeldIn(s) \ Replaced(old, v)) \cup Replacing(old, v)
  <1> DEFINE going == Replaced(old, v)
             coming == Replacing(old, v)
             t == Put(s, i, v)
             m == Len(v)
             in(k) == k \in (i + 1)..(i + m)
  <1>1. IsList(s) /\ Len(s) \in Nat /\ IsList(v) /\ Len(v) \in Nat
    BY ListIs DEF Good
  <1>2. /\ IsList(t) /\ Len(t) = Len(s)
        /\ \A k \in 1..m : i + k \in 1..Len(s) /\ t[i + k] = v[k]
        /\ \A k \in 1..Len(s) : ~ in(k) => t[k] = s[k]
    BY <1>1, PutAt
  <1>3. \A k \in 1..m : old[k] = s[i + k]
    <2> DEFINE j == i + m
    <2>1. j \in Nat /\ i <= j /\ j <= Len(s) /\ j - i = m
      BY <1>1
    <2> HIDE DEF j
    <2>2. /\ IsList(Part(s, i, j)) /\ Len(Part(s, i, j)) = j - i
          /\ \A k \in 1..(j - i) : Part(s, i, j)[k] = s[i + k]
      BY <1>1, <2>1, PartAt
    <2> QED BY <2>1, <2>2 DEF j
  <1>4. /\ \A k \in 1..Len(s) : s[k] \in Values
        /\ \A k, l \in 1..Len(s) : IsChild(s[k]) /\ s[k] = s[l] => k = l
    BY <1>1, GoodIs
  <1>5. /\ \A k \in 1..m : v[k] \in Values
        /\ \A k, l \in 1..m : IsChild(v[k]) /\ v[k] = v[l] => k = l
    BY <1>1, GoodIs
  <1>6. \A k : in(k) => k - i \in 1..m /\ i + (k - i) = k
    BY <1>1
  <1>7. \A k \in 1..m : in(i + k)
    BY <1>1
  <1>8. \A c : c \in going <=> IsChild(c) /\ \E k \in 1..m : v[k] # old[k] /\ old[k] = c
    BY DEF Replaced, ChildrenIn
  <1>9. \A c : c \in coming <=> IsChild(c) /\ \E k \in 1..m : v[k] # old[k] /\ v[k] = c
    BY DEF Replacing, ChildrenIn
  <1> HIDE DEF going, coming
  <1>10. \A c : c \in HeldIn(s) <=> IsChild(c) /\ \E k \in 1..Len(s) : s[k] = c
    BY <1>1, HeldIs
  <1> HIDE DEF t
  <1>11. \A c : c \in HeldIn(t) <=> IsChild(c) /\ \E k \in 1..Len(s) : t[k] = c
    BY <1>2, HeldIs
  <1>12. \A k \in 1..Len(s) : in(k) => t[k] = v[k - i] /\ old[k - i] = s[k]
    BY <1>2, <1>3, <1>6
  <1> HIDE DEF m, in
  \* A child that is put somewhere is not elsewhere in the list.
  <1>13. ASSUME NEW k \in 1..Len(s), in(k), NEW l \in 1..Len(s), ~ in(l), IsChild(t[k])
         PROVE  t[k] # t[l]
    <2> SUFFICES ASSUME t[k] = t[l] PROVE FALSE
      OBVIOUS
    <2> DEFINE c == t[k]
    <2>1. s[l] = c /\ IsChild(c) /\ k # l
      BY <1>2, <1>13
    <2>2. v[k - i] = c /\ old[k - i] = s[k] /\ k - i \in 1..m
      BY <1>6, <1>12, <1>13
    <2>3. s[k] # c
      BY <1>4, <2>1
    <2>4. c \in coming
      BY <1>9, <2>1, <2>2, <2>3
    <2>5. c \notin going
      <3> SUFFICES ASSUME c \in going PROVE FALSE
        OBVIOUS
      <3>1. PICK p \in 1..m : old[p] = c
        BY <1>8
      <3>2. i + p \in 1..Len(s) /\ s[i + p] = c /\ in(i + p)
        BY <1>2, <1>3, <1>7, <3>1
      <3>3. i + p = l
        BY <1>4, <2>1, <3>2
      <3> QED BY <1>13, <3>2, <3>3
    <2>6. c \in HeldIn(s)
      BY <1>10, <2>1
    <2> QED BY <2>4, <2>5, <2>6 DEF going, coming
  <1>14. Good(t)
    <2>1. ASSUME NEW k \in 1..Len(t) PROVE t[k] \in Values
      <3>1. k \in 1..Len(s)
        BY <1>2
      <3>2. CASE in(k)
        BY <1>5, <1>6, <1>12, <3>1, <3>2
      <3>3. CASE ~ in(k)
        BY <1>2, <1>4, <3>1, <3>3
      <3> QED BY <3>2, <3>3
    <2>2. ASSUME NEW k \in 1..Len(t), NEW l \in 1..Len(t), IsChild(t[k]), t[k] = t[l]
          PROVE  k = l
      <3>1. k \in 1..Len(s) /\ l \in 1..Len(s)
        BY <1>2
      <3>2. CASE in(k) /\ in(l)
        <4>1. v[k - i] = v[l - i] /\ IsChild(v[k - i]) /\ k - i \in 1..m /\ l - i \in 1..m
          BY <1>6, <1>12, <2>2, <3>1, <3>2
        <4>2. k - i = l - i
          BY <1>5, <4>1
        <4> QED BY <3>1, <4>2
      <3>3. CASE ~ in(k) /\ ~ in(l)
        BY <1>2, <1>4, <2>2, <3>1, <3>3
      <3>4. CASE in(k) /\ ~ in(l)
        BY <1>13, <2>2, <3>1, <3>4
      <3>5. CASE ~ in(k) /\ in(l)
        BY <1>13, <2>2, <3>1, <3>5
      <3> QED BY <3>2, <3>3, <3>4, <3>5
    <2> QED BY <1>2, <2>1, <2>2, GoodIs
  <1>15. ASSUME NEW c, c \in HeldIn(t)
         PROVE  (c \in HeldIn(s) /\ c \notin going) \/ c \in coming
    <2>1. PICK k \in 1..Len(s) : IsChild(c) /\ t[k] = c
      BY <1>11, <1>15
    <2>2. CASE ~ in(k)
      <3>1. s[k] = c /\ c \in HeldIn(s)
        BY <1>2, <1>10, <2>1, <2>2
      <3>2. ASSUME c \in going PROVE FALSE
        <4>1. PICK p \in 1..m : old[p] = c
          BY <1>8, <3>2
        <4>2. i + p \in 1..Len(s) /\ s[i + p] = c /\ in(i + p)
          BY <1>2, <1>3, <1>7, <4>1
        <4>3. i + p = k
          BY <1>4, <2>1, <3>1, <4>2
        <4> QED BY <2>2, <4>2, <4>3
      <3> QED BY <3>1, <3>2
    <2>3. CASE in(k) /\ s[k] # c
      <3>1. v[k - i] = c /\ old[k - i] # c /\ k - i \in 1..m
        BY <1>6, <1>12, <2>1, <2>3
      <3> QED BY <1>9, <2>1, <3>1
    <2>4. CASE in(k) /\ s[k] = c
      <3>1. c \in HeldIn(s)
        BY <1>10, <2>1, <2>4
      <3>2. ASSUME c \in going PROVE FALSE
        <4>1. PICK p \in 1..m : v[p] # old[p] /\ old[p] = c
          BY <1>8, <3>2
        <4>2. i + p \in 1..Len(s) /\ s[i + p] = c /\ in(i + p) /\ t[i + p] = v[p]
          BY <1>2, <1>3, <1>7, <4>1
        <4>3. i + p = k
          BY <1>4, <2>1, <2>4, <4>2
        <4> QED BY <2>1, <4>1, <4>2, <4>3
      <3> QED BY <3>1, <3>2
    <2> QED BY <2>2, <2>3, <2>4
  <1>16. ASSUME NEW c, c \in HeldIn(s), c \notin going
         PROVE  c \in HeldIn(t)
    <2>1. PICK k \in 1..Len(s) : IsChild(c) /\ s[k] = c
      BY <1>10, <1>16
    <2>2. CASE ~ in(k)
      BY <1>2, <1>11, <2>1, <2>2
    <2>3. CASE in(k)
      <3>1. old[k - i] = c /\ k - i \in 1..m /\ t[k] = v[k - i]
        BY <1>6, <1>12, <2>1, <2>3
      <3>2. v[k - i] = c
        BY <1>8, <1>16, <2>1, <3>1
      <3> QED BY <1>11, <2>1, <3>1, <3>2
    <2> QED BY <2>2, <2>3
  <1>17. ASSUME NEW c, c \in coming
         PROVE  c \in HeldIn(t)
    <2>1. PICK p \in 1..m : IsChild(c) /\ v[p] = c
      BY <1>9, <1>17
    <2>2. i + p \in 1..Len(s) /\ t[i + p] = c
      BY <1>2, <2>1
    <2> QED BY <1>11, <2>1, <2>2
  <1> QED BY <1>14, <1>15, <1>16, <1>17 DEF t, going, coming

\* The data of values, and lists of them.
LEMMA SameList ==
    ASSUME NEW s, IsList(s), NEW t, IsList(t), Len(s) = Len(t), \A k \in 1..Len(s) : s[k] = t[k]
    PROVE  s = t
  <1>1. PICK S : s \in Seq(S) /\ t \in Seq(S)
    BY CommonSet
  <1> QED BY <1>1, SameSequence

\* The data of a list is that of its values, each at the index of its own.
LEMMA FabricatedAt ==
    ASSUME NEW v, IsList(v)
    PROVE  /\ IsList(Fabricated(v)) /\ Len(Fabricated(v)) = Len(v)
           /\ \A k \in 1..Len(v) : Fabricated(v)[k] = DataOf(v[k])
  <1>1. DOMAIN v = 1..Len(v)
    BY ListIs
  <1> QED BY <1>1, FabricatedIs DEF Fabricated

\* The data of a part is that part of the data.
LEMMA FabricatedPart ==
    ASSUME NEW s, IsList(s), NEW i \in Nat, NEW j \in Nat, i <= j, j <= Len(s)
    PROVE  Fabricated(Part(s, i, j)) = Part(Fabricated(s), i, j)
  <1> DEFINE f == Fabricated(s)
             p == Part(s, i, j)
             a == Fabricated(p)
             b == Part(f, i, j)
  <1>1. /\ IsList(f) /\ Len(f) = Len(s) /\ Len(s) \in Nat
        /\ \A k \in 1..Len(s) : f[k] = DataOf(s[k])
    BY FabricatedAt, ListIs
  <1>2. IsList(p) /\ Len(p) = j - i /\ \A k \in 1..(j - i) : p[k] = s[i + k]
    BY PartAt
  <1> HIDE DEF f, p
  <1>3. IsList(b) /\ Len(b) = j - i /\ \A k \in 1..(j - i) : b[k] = f[i + k]
    BY <1>1, PartAt
  <1>4. IsList(a) /\ Len(a) = j - i /\ \A k \in 1..(j - i) : a[k] = DataOf(p[k])
    BY <1>2, FabricatedAt
  <1> HIDE DEF a, b
  <1>5. \A k \in 1..(j - i) : i + k \in 1..Len(s)
    BY <1>1
  <1>6. \A k \in 1..Len(a) : a[k] = b[k]
    BY <1>1, <1>2, <1>3, <1>4, <1>5
  <1>7. a = b
    BY <1>3, <1>4, <1>6, SameList
  <1> QED BY <1>7 DEF a, b, p, f

\* The data without a part is the data of the list without it.
LEMMA FabricatedCut ==
    ASSUME NEW s, IsList(s), NEW i \in Nat, NEW j \in Nat, i <= j, j <= Len(s)
    PROVE  Fabricated(Cut(s, i, j)) = Cut(Fabricated(s), i, j)
  <1> DEFINE f == Fabricated(s)
             p == Cut(s, i, j)
             a == Fabricated(p)
             b == Cut(f, i, j)
             m == j - i
  <1>1. /\ IsList(f) /\ Len(f) = Len(s) /\ Len(s) \in Nat /\ m \in Nat
        /\ \A k \in 1..Len(s) : f[k] = DataOf(s[k])
    BY FabricatedAt, ListIs
  <1>2. /\ IsList(p) /\ Len(p) = Len(s) - m
        /\ \A k \in 1..i : p[k] = s[k]
        /\ \A k \in (i + 1)..(Len(s) - m) : p[k] = s[k + m]
    BY CutAt
  <1> HIDE DEF f, p
  <1>3. /\ IsList(b) /\ Len(b) = Len(s) - m
        /\ \A k \in 1..i : b[k] = f[k]
        /\ \A k \in (i + 1)..(Len(s) - m) : b[k] = f[k + m]
    <2>1. /\ IsList(b) /\ Len(b) = Len(f) - (j - i)
          /\ \A k \in 1..i : b[k] = f[k]
          /\ \A k \in (i + 1)..(Len(f) - (j - i)) : b[k] = f[k + (j - i)]
      <3>1. IsList(f) /\ i \in Nat /\ j \in Nat /\ i <= j /\ j <= Len(f)
        BY <1>1
      <3> QED BY ONLY <3>1, CutAt, Zenon
    <2> HIDE DEF b
    <2> QED BY <1>1, <2>1
  <1>4. IsList(a) /\ Len(a) = Len(p) /\ \A k \in 1..Len(p) : a[k] = DataOf(p[k])
    BY <1>2, FabricatedAt
  <1> HIDE DEF a, b
  <1>6. ASSUME NEW k \in 1..Len(a) PROVE a[k] = b[k]
    <2>1. k \in 1..Len(p)
      BY <1>4
    <2>2. CASE k <= i
      <3>1. k \in 1..i /\ k \in 1..Len(s)
        BY <1>1, <1>2, <2>1, <2>2
      <3> QED BY <1>1, <1>2, <1>3, <1>4, <2>1, <3>1
    <2>3. CASE ~ (k <= i)
      <3>1. k \in (i + 1)..(Len(s) - m) /\ k + m \in 1..Len(s)
        BY <1>1, <1>2, <2>1, <2>3
      <3> HIDE DEF m
      <3> QED BY <1>1, <1>2, <1>3, <1>4, <2>1, <3>1
    <2> QED BY <2>2, <2>3
  <1>7. a = b
    BY <1>2, <1>3, <1>4, <1>6, SameList
  <1> QED BY <1>7 DEF a, b, p, f

\* The data with other data put in is that of the list with the values put in.
LEMMA FabricatedIns ==
    ASSUME NEW s, IsList(s), NEW v, IsList(v), NEW i \in Nat, i <= Len(s)
    PROVE  Fabricated(Ins(s, i, v)) = Ins(Fabricated(s), i, Fabricated(v))
  <1> DEFINE f == Fabricated(s)
             g == Fabricated(v)
             p == Ins(s, i, v)
             a == Fabricated(p)
             b == Ins(f, i, g)
             m == Len(v)
  <1>1. /\ IsList(f) /\ Len(f) = Len(s) /\ Len(s) \in Nat
        /\ \A k \in 1..Len(s) : f[k] = DataOf(s[k])
    BY FabricatedAt, ListIs
  <1>2. /\ IsList(g) /\ Len(g) = m /\ m \in Nat
        /\ \A k \in 1..m : g[k] = DataOf(v[k])
    BY FabricatedAt, ListIs
  <1>3. /\ IsList(p) /\ Len(p) = Len(s) + m
        /\ \A k \in 1..i : p[k] = s[k]
        /\ \A k \in 1..m : p[i + k] = v[k]
        /\ \A k \in (i + 1)..Len(s) : p[k + m] = s[k]
    BY InsAt
  <1> HIDE DEF f, g, p
  <1>4. /\ IsList(b) /\ Len(b) = Len(s) + m
        /\ \A k \in 1..i : b[k] = f[k]
        /\ \A k \in 1..m : b[i + k] = g[k]
        /\ \A k \in (i + 1)..Len(s) : b[k + m] = f[k]
    <2>1. /\ IsList(b) /\ Len(b) = Len(f) + Len(g)
          /\ \A k \in 1..i : b[k] = f[k]
          /\ \A k \in 1..Len(g) : b[i + k] = g[k]
          /\ \A k \in (i + 1)..Len(f) : b[k + Len(g)] = f[k]
      <3>1. IsList(f) /\ IsList(g) /\ i \in Nat /\ i <= Len(f)
        BY <1>1, <1>2
      <3> QED BY ONLY <3>1, InsAt, Zenon
    <2> HIDE DEF b
    <2> QED BY <1>1, <1>2, <2>1
  <1>5. IsList(a) /\ Len(a) = Len(p) /\ \A k \in 1..Len(p) : a[k] = DataOf(p[k])
    BY <1>3, FabricatedAt
  <1> HIDE DEF a, b, m
  <1>6. ASSUME NEW k \in 1..Len(a) PROVE a[k] = b[k]
    <2>1. k \in 1..Len(p) /\ k \in 1..(Len(s) + m)
      BY <1>3, <1>5
    <2>2. CASE k <= i
      <3>1. k \in 1..i /\ k \in 1..Len(s)
        BY <1>1, <2>1, <2>2
      <3> QED BY <1>1, <1>3, <1>4, <1>5, <2>1, <3>1
    <2>3. CASE i < k /\ k <= i + m
      <3>1. k - i \in 1..m /\ i + (k - i) = k
        BY <1>2, <2>1, <2>3
      <3>2. p[k] = v[k - i] /\ b[k] = g[k - i]
        BY <1>3, <1>4, <3>1
      <3> QED BY <1>2, <1>5, <2>1, <3>1, <3>2
    <2>4. CASE i + m < k
      <3>1. k - m \in (i + 1)..Len(s) /\ (k - m) + m = k /\ k - m \in 1..Len(s)
        BY <1>1, <1>2, <2>1, <2>4
      <3>2. p[k] = s[k - m] /\ b[k] = f[k - m]
        BY <1>3, <1>4, <3>1
      <3> QED BY <1>1, <1>5, <2>1, <3>1, <3>2
    <2> QED BY <1>2, <2>1, <2>2, <2>3, <2>4
  <1>7. a = b
    BY <1>3, <1>4, <1>5, <1>6, SameList
  <1> QED BY <1>7 DEF a, b, p, f, g

\* The data with a part moved is that of the list with the part moved.
LEMMA FabricatedMove ==
    ASSUME NEW s, IsList(s), NEW i \in Nat, NEW j \in Nat, NEW post \in Nat, i <= j, j <= Len(s),
           post <= Len(s) - (j - i)
    PROVE  Fabricated(MoveTo(s, i, j, post)) = MoveTo(Fabricated(s), i, j, post)
  <1>1. /\ Fabricated(Part(s, i, j)) = Part(Fabricated(s), i, j)
        /\ Fabricated(Cut(s, i, j)) = Cut(Fabricated(s), i, j)
    BY FabricatedPart, FabricatedCut
  <1>2. IsList(Part(s, i, j)) /\ IsList(Cut(s, i, j)) /\ Len(Cut(s, i, j)) = Len(s) - (j - i)
    BY ListPart, ListCut
  <1>3. Fabricated(Ins(Cut(s, i, j), post, Part(s, i, j)))
          = Ins(Fabricated(Cut(s, i, j)), post, Fabricated(Part(s, i, j)))
    BY <1>2, FabricatedIns
  <1> QED BY <1>1, <1>3 DEF MoveTo

\* Values that stay come after those that do not.
StaysLast(old, v) ==
    \A k, l \in 1..Len(v) : k < l /\ v[k] = old[k] => v[l] = old[l]

\* The data that an update puts are then those of the first values.
LEMMA DataValuesAre ==
    ASSUME NEW old, NEW v, IsList(v), StaysLast(old, v)
    PROVE  \E p \in 0..Len(v) :
             /\ IsList(DataValues(old, v)) /\ Len(DataValues(old, v)) = p
             /\ \A k \in 1..p : DataValues(old, v)[k] = DataOf(v[k])
             /\ \A k \in (p + 1)..Len(v) : v[k] = old[k]
  <1> DEFINE f == Differing(old, v)
             D == DOMAIN f
             d(i) == {j \in D : j <= i}
             m == Cardinality(D)
             g == [n \in 1..m |-> f[CHOOSE i \in D : Cardinality({j \in D : j <= i}) = n]]
             U == {k \in 1..Len(v) : v[k] = old[k]}
  <1>1. DOMAIN v = 1..Len(v) /\ Len(v) \in Nat
    BY ListIs
  <1>2. D = {k \in 1..Len(v) : v[k] # old[k]} /\ \A k \in D : f[k] = v[k]
    BY <1>1 DEF Differing
  <1>3. PICK p \in 0..Len(v) : D = 1..p
    <2>1. CASE U = {}
      <3>1. D = 1..Len(v) /\ Len(v) \in 0..Len(v)
        BY <1>1, <1>2, <2>1
      <3> QED BY <3>1
    <2>2. CASE U # {}
      <3>1. U \in SUBSET Nat
        BY <1>1
      <3>2. PICK u \in U : \A y \in U : u <= y
        BY <2>2, <3>1, LeastNumber
      <3>3. u \in 1..Len(v) /\ v[u] = old[u] /\ u - 1 \in 0..Len(v)
        BY <1>1, <3>2
      <3>4. \A k \in 1..Len(v) : k < u => v[k] # old[k]
        <4> SUFFICES ASSUME NEW k \in 1..Len(v), k < u, v[k] = old[k] PROVE FALSE
          OBVIOUS
        <4>1. u <= k
          BY <3>2
        <4> QED BY <1>1, <3>3, <4>1
      <3>5. \A k \in 1..Len(v) : ~ (k < u) => v[k] = old[k]
        <4> SUFFICES ASSUME NEW k \in 1..Len(v), ~ (k < u) PROVE v[k] = old[k]
          OBVIOUS
        <4>1. k = u \/ u < k
          BY <3>3
        <4> QED BY <3>3, <4>1 DEF StaysLast
      <3>6. D = 1..(u - 1)
        <4>1. \A k : k \in D <=> k \in 1..(u - 1)
          <5> TAKE k
          <5>1. k \in D => k \in 1..(u - 1)
            BY <1>1, <1>2, <3>3, <3>5
          <5>2. k \in 1..(u - 1) => k \in 1..Len(v) /\ k < u
            BY <1>1, <3>3
          <5> QED BY <1>2, <3>4, <5>1, <5>2
        <4> HIDE DEF D
        <4> QED BY <4>1
      <3> QED BY <3>3, <3>6
    <2> QED BY <2>1, <2>2
  <1>4. p \in Nat /\ p <= Len(v)
    BY <1>1
  <1>5. \A i \in 0..p : Cardinality(1..i) = i
    <2> TAKE i \in 0..p
    <2>1. 1 \in Int /\ i \in Int
      BY <1>4
    <2>2. Cardinality(1..i) = IF 1 > i THEN 0 ELSE i - 1 + 1
      BY <2>1, FS_Interval
    <2> QED BY <1>4, <2>2
  <1>6. m = p
    <2>1. p \in 0..p
      BY <1>4
    <2> QED BY <1>3, <1>5, <2>1
  <1> HIDE DEF f
  <1>7. \A i \in 1..p : Cardinality(d(i)) = i
    <2> TAKE i \in 1..p
    <2>1. d(i) = 1..i /\ i \in 0..p
      BY <1>3, <1>4
    <2> QED BY <1>5, <2>1
  <1>8. DataValues(old, v) = Fabricated(g)
    BY DEF DataValues, f
  <1>9. g = [n \in 1..p |-> f[CHOOSE i \in D : Cardinality(d(i)) = n]]
    BY <1>6
  <1> HIDE DEF d, m, g
  <1>10. \A n \in 1..p : (CHOOSE i \in D : Cardinality(d(i)) = n) = n
    <2> TAKE n \in 1..p
    <2>1. \A i \in D : Cardinality(d(i)) = n <=> i = n
      BY <1>3, <1>7
    <2>2. n \in D
      BY <1>3
    <2> QED BY <2>1, <2>2
  <1>11. \A n \in 1..p : g[n] = v[n]
    BY <1>2, <1>3, <1>9, <1>10
  <1>12. IsList(g) /\ Len(g) = p
    <2>1. g \in [1..p -> ToSet(g)]
      BY <1>9 DEF ToSet
    <2> QED BY <1>4, <2>1 DEF IsList
  <1>13. /\ IsList(Fabricated(g)) /\ Len(Fabricated(g)) = p
         /\ \A k \in 1..p : Fabricated(g)[k] = DataOf(g[k])
    BY <1>12, FabricatedAt
  <1>14. \A k \in (p + 1)..Len(v) : v[k] = old[k]
    BY <1>1, <1>2, <1>3, <1>4
  <1> QED BY <1>8, <1>11, <1>13, <1>14

\* An update of the data then makes those of the updated list.
LEMMA DataUpdatedRight ==
    ASSUME NEW s, IsList(s), NEW v, IsList(v), NEW i \in Nat, i + Len(v) <= Len(s),
           NEW old, old = Part(s, i, i + Len(v)), StaysLast(old, v)
    PROVE  StateUpdated(Fabricated(s), i, DataValues(old, v)) = Fabricated(Put(s, i, v))
  <1> DEFINE d == DataValues(old, v)
             f == Fabricated(s)
             t == Put(s, i, v)
             a == Put(f, i, d)
             b == Fabricated(t)
  <1>1. PICK p \in 0..Len(v) :
             /\ IsList(d) /\ Len(d) = p
             /\ \A k \in 1..p : d[k] = DataOf(v[k])
             /\ \A k \in (p + 1)..Len(v) : v[k] = old[k]
    BY DataValuesAre
  <1>2. /\ IsList(f) /\ Len(f) = Len(s) /\ Len(s) \in Nat /\ Len(v) \in Nat
        /\ \A k \in 1..Len(s) : f[k] = DataOf(s[k])
    BY FabricatedAt, ListIs
  <1>3. /\ IsList(t) /\ Len(t) = Len(s)
        /\ \A k \in 1..Len(v) : i + k \in 1..Len(s) /\ t[i + k] = v[k]
        /\ \A k \in 1..Len(s) : k \notin (i + 1)..(i + Len(v)) => t[k] = s[k]
    BY PutAt
  <1> HIDE DEF d, f, t
  <1>4. /\ IsList(a) /\ Len(a) = Len(s)
        /\ \A k \in 1..p : a[i + k] = d[k]
        /\ \A k \in 1..Len(s) : k \notin (i + 1)..(i + p) => a[k] = f[k]
    <2>1. IsList(f) /\ IsList(d) /\ i \in Nat /\ i + Len(d) <= Len(f)
      BY <1>1, <1>2
    <2>2. /\ IsList(a) /\ Len(a) = Len(f)
          /\ \A k \in 1..Len(d) : i + k \in 1..Len(f) /\ a[i + k] = d[k]
          /\ \A k \in 1..Len(f) : k \notin (i + 1)..(i + Len(d)) => a[k] = f[k]
      BY ONLY <2>1, PutAt, Zenon
    <2> HIDE DEF a
    <2> QED BY <1>1, <1>2, <2>2
  <1>5. IsList(b) /\ Len(b) = Len(s) /\ \A k \in 1..Len(s) : b[k] = DataOf(t[k])
    BY <1>3, FabricatedAt
  <1>6. StateUpdated(f, i, d) = a
    <2>1. IsList(f) /\ IsList(d) /\ i \in Nat /\ i + Len(d) <= Len(f)
      BY <1>1, <1>2
    <2> QED BY <2>1, UpdatedIs DEF Put
  <1>7. \A k \in 1..Len(v) : old[k] = s[i + k]
    <2> DEFINE j == i + Len(v)
    <2>1. j \in Nat /\ i <= j /\ j <= Len(s) /\ j - i = Len(v)
      BY <1>2
    <2> HIDE DEF j
    <2>2. /\ IsList(Part(s, i, j)) /\ Len(Part(s, i, j)) = j - i
          /\ \A k \in 1..(j - i) : Part(s, i, j)[k] = s[i + k]
      BY <2>1, PartAt
    <2> QED BY <2>1, <2>2 DEF j
  <1> HIDE DEF a, b
  <1>8. ASSUME NEW k \in 1..Len(s) PROVE a[k] = b[k]
    <2>1. CASE k \in (i + 1)..(i + p)
      <3>1. k - i \in 1..p /\ k - i \in 1..Len(v) /\ i + (k - i) = k
        BY <1>1, <1>2, <2>1
      <3>2. a[k] = d[k - i] /\ t[k] = v[k - i]
        BY <1>3, <1>4, <3>1
      <3> QED BY <1>1, <1>5, <3>1, <3>2
    <2>2. CASE k \in (i + p + 1)..(i + Len(v))
      <3>1. k - i \in (p + 1)..Len(v) /\ k - i \in 1..Len(v) /\ i + (k - i) = k
            /\ k \notin (i + 1)..(i + p)
        BY <1>1, <1>2, <2>2
      <3>2. a[k] = f[k] /\ t[k] = v[k - i] /\ v[k - i] = old[k - i] /\ old[k - i] = s[k]
        BY <1>1, <1>3, <1>4, <1>7, <3>1
      <3> QED BY <1>2, <1>5, <3>2
    <2>3. CASE k \notin (i + 1)..(i + Len(v))
      <3>1. k \notin (i + 1)..(i + p)
        BY <1>1, <1>2, <2>3
      <3> QED BY <1>2, <1>3, <1>4, <1>5, <2>3, <3>1
    <2>4. k \in (i + 1)..(i + p) \/ k \in (i + p + 1)..(i + Len(v)) \/ k \notin (i + 1)..(i + Len(v))
      BY <1>1, <1>2
    <2> QED BY <2>1, <2>2, <2>3, <2>4
  <1>9. a = b
    BY <1>4, <1>5, <1>8, SameList
  <1> QED BY <1>6, <1>9 DEF a, b, d, f, t

\* Where a value is that is there.
LEMMA StateIndexAt ==
    ASSUME NEW s, IsList(s), NEW v, \E k \in 1..Len(s) : s[k] = v
    PROVE  /\ StateIndex(s, v) \in Nat /\ StateIndex(s, v) + 1 \in 1..Len(s)
           /\ s[StateIndex(s, v) + 1] = v
  <1> DEFINE I == {i \in 1..Len(s) : s[i] = v}
  <1>1. Len(s) \in Nat
    BY ListIs
  <1>2. StateIndex(s, v) = Min(I) - 1
    <2>1. StateIndex(s, v) = (IF I # {} THEN Min(I) ELSE 0) - 1
      BY DEF StateIndex, SelectInSeq
    <2>2. I # {}
      OBVIOUS
    <2> QED BY <2>1, <2>2
  <1>3. I \in SUBSET Nat /\ I # {}
    BY <1>1
  <1>4. \A i \in I : i \in 1..Len(s) /\ s[i] = v
    OBVIOUS
  <1> HIDE DEF I
  <1>5. Min(I) \in I
    <2>1. PICK x \in I : \A y \in I : x <= y
      BY <1>3, LeastNumber
    <2> QED BY <2>1 DEF Min
  <1>6. Min(I) \in 1..Len(s) /\ s[Min(I)] = v
    BY <1>4, <1>5
  <1>7. Min(I) - 1 \in Nat /\ (Min(I) - 1) + 1 = Min(I)
    BY <1>1, <1>6
  <1> QED BY <1>2, <1>6, <1>7

\* What is derived from the values of a list is as they say, but for its data,
\* and every location that is known is right.
ListExact(s) ==
    /\ ListFits(s) /\ Good(s.state)
    /\ s.children = HeldIn(s.state)
    /\ s.metadata \in [Kids -> Location]
    /\ \A k \in Kids : s.metadata[k] # None =>
          s.metadata[k] + 1 \in 1..Len(s.state) /\ s.state[s.metadata[k] + 1] = k

\* A store that is made of an exact one.
StillExact(s, t) == ListExact(t) /\ (ListDataExact(s) => ListDataExact(t))

\* A list without locations has no wrong one.
LEMMA NowhereExact ==
    ASSUME NEW s, ListFits(s), Good(s.state), s.children = HeldIn(s.state), s.metadata = NoLocations
    PROVE  ListExact(s)
  BY NoLocationsIs DEF ListExact, NoLocations

\* An insertion that is allowed leaves a list exact, and its data too.
LEMMA InsertedExact ==
    ASSUME NEW s, ListExact(s), NEW index \in Int, NEW values, Good(values), InsertAllowed(s, values)
    PROVE  StillExact(s, Inserted(s, index, values))
  <1> DEFINE i == Clamped(Len(s.state), index)
             t == Inserted(s, index, values)
  <1>1. /\ ListFits(s) /\ Good(s.state) /\ IsList(s.state) /\ Len(s.state) \in Nat /\ IsList(values)
        /\ Len(values) \in Nat /\ s.children = HeldIn(s.state)
    BY ListIs DEF ListExact, Good
  <1>2. /\ i \in Nat /\ i <= Len(s.state)
        /\ t.state = Ins(s.state, i, values) /\ ListFits(t)
    BY <1>1, InsertedFits
  <1>3. /\ t.metadata = LocationsInserted(s, i, values)
        /\ t.children = ChildrenAfter(s, {}, HeldIn(values))
        /\ t.data = DataInserted(s.data, i, values)
    BY DEF Inserted, HeldIn
  <1> HIDE DEF i, t
  <1>4. HeldIn(s.state) \cap HeldIn(values) = {}
    <2>1. \A c \in HeldIn(values) : c \notin s.children
      BY DEF InsertAllowed, Admits, HeldIn
    <2> QED BY <1>1, <2>1
  <1>5. Good(t.state) /\ t.children = HeldIn(t.state)
    BY <1>1, <1>2, <1>3, <1>4, GoodIns DEF ChildrenAfter
  <1>6. t.metadata \in [Kids -> Location]
    <2>1. Inserted(s, index, values).metadata \in [Kids -> Location]
      BY <1>1, InsertedLocations
    <2> QED BY <2>1 DEF t
  <1>7. ASSUME NEW k \in Kids, t.metadata[k] # None
        PROVE  t.metadata[k] + 1 \in 1..Len(t.state) /\ t.state[t.metadata[k] + 1] = k
    <2> DEFINE x == StateIndex(values, k)
    <2>1. IsChild(k) /\ Contains(values, k) /\ t.metadata[k] = i + x
      BY <1>3, <1>7 DEF LocationsInserted
    <2>2. x \in Nat /\ x + 1 \in 1..Len(values) /\ values[x + 1] = k
      <3>1. \E n \in 1..Len(values) : values[n] = k
        BY <2>1 DEF Contains
      <3> QED BY <1>1, <3>1, StateIndexAt
    <2> HIDE DEF x
    <2>3. /\ Len(t.state) = Len(s.state) + Len(values)
          /\ \A n \in 1..Len(values) : t.state[i + n] = values[n]
      <3> DEFINE u == s.state
                 r == Ins(u, i, values)
      <3> HIDE DEF u
      <3>1. IsList(u) /\ IsList(values) /\ i \in Nat /\ i <= Len(u)
        BY <1>1, <1>2 DEF u
      <3>2. /\ IsList(r) /\ Len(r) = Len(u) + Len(values)
            /\ \A n \in 1..i : r[n] = u[n]
            /\ \A n \in 1..Len(values) : r[i + n] = values[n]
            /\ \A n \in (i + 1)..Len(u) : r[n + Len(values)] = u[n]
        BY ONLY <3>1, InsAt, Zenon
      <3> HIDE DEF r
      <3> QED BY <1>2, <3>2 DEF r, u
    <2>4. (i + x) + 1 = i + (x + 1) /\ (i + x) + 1 \in 1..Len(t.state)
      BY <1>1, <1>2, <2>2, <2>3
    <2>5. t.state[i + (x + 1)] = k
      BY <2>2, <2>3
    <2> QED BY <2>1, <2>4, <2>5
  <1>8. ASSUME ListDataExact(s) PROVE ListDataExact(t)
    <2>1. CASE relationship.data
      <3>1. s.data = Fabricated(s.state) /\ t.data = StateInserted(s.data, i, Fabricated(values))
        BY <1>3, <1>8, <2>1 DEF ListDataExact, DataInserted
      <3>2. IsList(s.data) /\ Len(s.data) = Len(s.state)
        BY <1>1, <3>1, FabricatedAt
      <3>3. t.data = Ins(s.data, i, Fabricated(values))
        BY <1>2, <3>1, <3>2, InsertedIs
      <3>4. Fabricated(Ins(s.state, i, values)) = Ins(Fabricated(s.state), i, Fabricated(values))
        BY <1>1, <1>2, FabricatedIns
      <3> QED BY <1>2, <2>1, <3>1, <3>3, <3>4 DEF ListDataExact
    <2>2. CASE ~ relationship.data
      BY <1>3, <1>8, <2>2 DEF ListDataExact, DataInserted
    <2> QED BY <2>1, <2>2
  <1>9. ListExact(t)
    BY <1>2, <1>5, <1>6, <1>7 DEF ListExact
  <1> QED BY <1>8, <1>9 DEF StillExact, t

\* So does a deletion.
LEMMA DeletedExact ==
    ASSUME NEW s, ListExact(s), NEW item, ItemFits(item), DeleteAllowed(s, item)
    PROVE  StillExact(s, Deleted(s, item))
  <1> DEFINE d == Span(Len(s.state), item)
             t == Deleted(s, item)
             i == d.index
             j == d.stop
  <1>1. /\ ListFits(s) /\ Good(s.state) /\ IsList(s.state) /\ Len(s.state) \in Nat
        /\ s.children = HeldIn(s.state)
    BY ListIs DEF ListExact, Good
  <1>2. /\ i \in Nat /\ j \in Nat /\ i <= j /\ j <= Len(s.state)
        /\ t.state = Cut(s.state, i, j) /\ ListFits(t)
    BY <1>1, DeletedFits DEF DeleteAllowed
  <1>3. /\ t.metadata = NoLocations
        /\ t.children = ChildrenAfter(s, HeldIn(Part(s.state, i, j)), {})
        /\ t.data = DataDeleted(s.data, item)
    BY DEF Deleted, HeldIn
  <1> HIDE DEF t
  <1>4. Good(t.state) /\ t.children = HeldIn(t.state)
    <2> HIDE DEF i, j
    <2>1. Good(Cut(s.state, i, j))
          /\ HeldIn(Cut(s.state, i, j)) = HeldIn(s.state) \ HeldIn(Part(s.state, i, j))
      BY <1>1, <1>2, GoodCut
    <2> QED BY <1>1, <1>2, <1>3, <2>1 DEF ChildrenAfter
  <1>5. ListExact(t)
    BY <1>2, <1>3, <1>4, NowhereExact
  <1>6. ASSUME ListDataExact(s) PROVE ListDataExact(t)
    <2>1. CASE relationship.data
      <3>1. s.data = Fabricated(s.state) /\ t.data = StateDeleted(s.data, item)
        BY <1>3, <1>6, <2>1 DEF ListDataExact, DataDeleted
      <3>2. Len(s.data) = Len(s.state)
        BY <1>1, <3>1, FabricatedAt
      <3>3. t.data = Cut(s.data, i, j)
        BY <3>1, <3>2, DeletedIs
      <3> HIDE DEF i, j
      <3>4. Fabricated(Cut(s.state, i, j)) = Cut(Fabricated(s.state), i, j)
        BY <1>1, <1>2, FabricatedCut
      <3> QED BY <1>2, <2>1, <3>1, <3>3, <3>4 DEF ListDataExact
    <2>2. CASE ~ relationship.data
      BY <1>3, <1>6, <2>2 DEF ListDataExact, DataDeleted
    <2> QED BY <2>1, <2>2
  <1> QED BY <1>5, <1>6 DEF StillExact, t

\* So does an update, unless it skips the data of values that stay.
LEMMA UpdatedExact ==
    ASSUME NEW s, ListExact(s), NEW item, ItemFits(item), NEW values, Good(values),
           UpdateAllowed(s, item, values)
    PROVE  /\ ListExact(Updated(s, item, values))
           /\ ListDataExact(s) /\ (relationship.data => StaysLast(OldValues(s, item), values))
                => ListDataExact(Updated(s, item, values))
  <1> DEFINE u == Span(Len(s.state), item)
             i == u.index
             j == u.stop
             t == Updated(s, item, values)
             old == OldValues(s, item)
             going == Going(s, item, values)
             coming == Coming(s, item, values)
  <1>1. /\ ListFits(s) /\ Good(s.state) /\ IsList(s.state) /\ Len(s.state) \in Nat /\ IsList(values)
        /\ Len(values) \in Nat /\ DOMAIN values = 1..Len(values) /\ s.children = HeldIn(s.state)
    BY ListIs DEF ListExact, Good
  <1>2. /\ i \in Nat /\ j \in Nat /\ i <= j /\ j <= Len(s.state)
        /\ old = Part(s.state, i, j)
        /\ Len(values) = j - i
        /\ t.state = Ins(Cut(s.state, i, j), i, values)
        /\ ListFits(t)
    BY <1>1, UpdatedFits DEF UpdateAllowed
  <1>3. /\ t.metadata = NoLocations
        /\ t.children = ChildrenAfter(s, going, coming)
        /\ t.data = DataUpdated(s.data, i, DataValues(old, values))
    BY DEF Updated
  <1>4. going = Replaced(old, values) /\ coming = Replacing(old, values)
    <2> DEFINE f == Differing(old, values)
    <2>1. /\ DOMAIN f = {k \in 1..Len(values) : values[k] # old[k]}
          /\ \A k \in DOMAIN f : f[k] = values[k]
      BY <1>1 DEF Differing
    <2>2. going = ChildrenIn({old[k] : k \in DOMAIN f})
      BY DEF Going
    <2>3. coming = ChildrenIn({f[k] : k \in DOMAIN f})
      BY DEF Coming
    <2> HIDE DEF f, going, coming
    <2>4. {f[k] : k \in DOMAIN f} = {values[k] : k \in {l \in 1..Len(values) : values[l] # old[l]}}
      BY <2>1
    <2>5. coming = Replacing(old, values)
      BY <2>3, <2>4 DEF Replacing
    <2>6. going = Replaced(old, values)
      BY <2>1, <2>2 DEF Replaced
    <2> QED BY <2>5, <2>6
  <1>5. \A c \in coming \ going : c \notin s.children
    BY DEF UpdateAllowed, Admits
  <1> HIDE DEF u, t, old, going, coming
  <1>6. i + Len(values) = j
    BY <1>1, <1>2
  <1> HIDE DEF i, j
  <1>7. t.state = Put(s.state, i, values) /\ i + Len(values) <= Len(s.state)
        /\ old = Part(s.state, i, i + Len(values))
    BY <1>2, <1>6 DEF Put
  <1>8. Good(t.state) /\ t.children = HeldIn(t.state)
    <2>1. \A c \in coming \ going : c \notin HeldIn(s.state)
      BY <1>1, <1>5
    <2>2. /\ Good(Put(s.state, i, values))
          /\ HeldIn(Put(s.state, i, values)) = (HeldIn(s.state) \ going) \cup coming
      <3> DEFINE x == s.state
      <3> HIDE DEF x
      <3>1. /\ Good(x) /\ Good(values) /\ i \in Nat /\ i + Len(values) <= Len(x)
            /\ old = Part(x, i, i + Len(values))
            /\ \A c \in Replacing(old, values) \ Replaced(old, values) : c \notin HeldIn(x)
        BY <1>1, <1>2, <1>4, <1>7, <2>1 DEF x
      <3>2. /\ Good(Put(x, i, values))
            /\ HeldIn(Put(x, i, values))
                 = (HeldIn(x) \ Replaced(old, values)) \cup Replacing(old, values)
        BY ONLY <3>1, GoodPut
      <3> QED BY <1>4, <3>2 DEF x
    <2> QED BY <1>1, <1>3, <1>7, <2>2 DEF ChildrenAfter
  <1>9. ListExact(t)
    BY <1>2, <1>3, <1>8, NowhereExact
  <1>10. ASSUME ListDataExact(s), relationship.data => StaysLast(old, values)
         PROVE  ListDataExact(t)
    <2>1. CASE relationship.data
      <3>1. /\ s.data = Fabricated(s.state)
            /\ t.data = StateUpdated(s.data, i, DataValues(old, values))
        BY <1>3, <1>10, <2>1 DEF ListDataExact, DataUpdated
      <3>2. StateUpdated(Fabricated(s.state), i, DataValues(old, values)) = Fabricated(Put(s.state, i, values))
        BY <1>1, <1>2, <1>7, <1>10, <2>1, DataUpdatedRight
      <3> QED BY <1>7, <2>1, <3>1, <3>2 DEF ListDataExact
    <2>2. CASE ~ relationship.data
      BY <1>3, <1>10, <2>2 DEF ListDataExact, DataUpdated
    <2> QED BY <2>1, <2>2
  <1> QED BY <1>9, <1>10 DEF t, old

\* So does a move.
LEMMA MovedExact ==
    ASSUME NEW s, ListExact(s), NEW item, ItemFits(item), NEW target \in Int,
           MoveAllowed(s, item, target)
    PROVE  StillExact(s, Moved(s, item, target))
  <1> DEFINE n == Len(s.state)
             m == PreMove(n, item, target)
             c == Clamped(n, target)
             t == Moved(s, item, target)
             d == StateMoved(s.data, item, c)
  <1>1. /\ ListFits(s) /\ Good(s.state) /\ IsList(s.state) /\ n \in Nat
        /\ s.children = HeldIn(s.state)
    BY ListIs DEF ListExact, Good
  <1>2. /\ m.index \in Nat /\ m.stop \in Nat /\ m.index <= m.stop /\ m.stop <= n
        /\ m.post \in Nat /\ m.post <= n - (m.stop - m.index)
        /\ t.state = MoveTo(s.state, m.index, m.stop, m.post)
        /\ ListFits(t)
    BY <1>1, MovedFits
  <1>3. t.metadata = NoLocations /\ t.children = s.children /\ t.data = d
    <2> DEFINE u == StateMoved(s.state, item, target)
    <2>1. s = [state |-> s.state, data |-> s.data, metadata |-> s.metadata, children |-> s.children]
      BY <1>1 DEF ListFits, IsStore
    <2>2. t = [s EXCEPT !.state = u, !.data = d, !.metadata = NoLocations]
      BY DEF Moved, DataMoved
    <2> HIDE DEF u, d, t
    <2>3. t = [state |-> u, data |-> d, metadata |-> NoLocations, children |-> s.children]
      BY <2>1, <2>2
    <2> QED BY <2>3
  <1> HIDE DEF t
  <1>4. Good(t.state) /\ HeldIn(t.state) = HeldIn(s.state)
    <2> HIDE DEF m
    <2> QED BY <1>1, <1>2, GoodMove
  <1>5. ListExact(t)
    BY <1>1, <1>2, <1>3, <1>4, NowhereExact
  <1>6. ASSUME ListDataExact(s) PROVE ListDataExact(t)
    <2>1. CASE relationship.data
      <3>1. s.data = Fabricated(s.state) /\ IsList(s.data) /\ Len(s.data) = n
        BY <1>1, <1>6, <2>1, FabricatedAt DEF ListDataExact
      <3>2. Clamped(n, c) = c
        <4>1. n \in Nat
          BY <1>1
        <4> HIDE DEF n
        <4>2. c \in Nat /\ c <= n
          BY <4>1, ClampedIs
        <4>3. c \in 0..n /\ c \in Int
          BY <4>1, <4>2
        <4> HIDE DEF c
        <4> QED BY <4>1, <4>3, ClampedIs
      <3>3. PreMove(n, item, c) = m
        BY <3>2 DEF PreMove
      <3>4. ~ MovesNothing(n, item, c)
        <4>1. ~ MovesNothing(n, item, target)
          BY DEF MoveAllowed
        <4> QED BY <3>3, <4>1 DEF MovesNothing
      <3>5. d = MoveTo(s.data, m.index, m.stop, m.post)
        BY <3>1, <3>3, <3>4, StateMovedIs
      <3> HIDE DEF m, d
      <3>6. Fabricated(MoveTo(s.state, m.index, m.stop, m.post))
              = MoveTo(Fabricated(s.state), m.index, m.stop, m.post)
        BY <1>1, <1>2, FabricatedMove
      <3> QED BY <1>2, <1>3, <2>1, <3>1, <3>5, <3>6 DEF ListDataExact
    <2>2. CASE ~ relationship.data
      <3>1. s.data = <<>> /\ Len(s.data) = 0
        BY <1>6, <2>2 DEF ListDataExact
      <3>2. Resolves(0, item)
        BY <3>1 DEF MoveAllowed
      <3>3. 0 \in Nat
        OBVIOUS
      <3>4. /\ Span(0, item).index \in Nat /\ Span(0, item).stop \in Nat
            /\ Span(0, item).index <= Span(0, item).stop /\ Span(0, item).stop <= 0
        BY <3>2, <3>3, SpanIs
      <3>5. Span(0, item).index = Span(0, item).stop
        BY <3>4
      <3>6. MovesNothing(0, item, c)
        BY <3>5 DEF MovesNothing, PreMove
      <3>7. d = <<>>
        BY <3>1, <3>6 DEF StateMoved
      <3> QED BY <1>3, <2>2, <3>7 DEF ListDataExact
    <2> QED BY <2>1, <2>2
  <1> QED BY <1>5, <1>6 DEF StillExact, t

\* A change of a list is of some values, and with data it changes some.
ListEntryExact(e) ==
    /\ Good(e[1].from) /\ Good(e[1].to) /\ e[1].index < e[1].stop
    /\ e[1].type = "ListUpdate" /\ relationship.data => e[1].old # e[1].new

\* The second invariant of a list: it and all entries are exact.
ListMore ==
    /\ versions \in [Kids -> {0, 1}]
    /\ relationship.data => relationship.child
    /\ ListExact(store)
    /\ \A e \in Entries : ListEntryExact(e)

\* What StoreFollows says of the data of a list.
DataFollows == ListDataExact(store) /\ ~ SkipsData(Entry) => ListDataExact(store)'

\* The values that an entry has may be in a list together.
LEMMA ChangeGood ==
    ASSUME NEW c, ListChange(c), Good(c.from), Good(c.to)
    PROVE  /\ c.type = "ListInsert" => Good(c.new)
           /\ c.type = "ListDelete" => Good(c.old)
           /\ c.type = "ListUpdate" => Good(c.old) /\ Good(c.new)
  <1>1. /\ IsList(c.from) /\ IsList(c.to) /\ Len(c.from) \in Nat
        /\ c.index \in Nat /\ c.stop \in Nat /\ c.index <= c.stop
    BY ListIs DEF ListChange
  <1>2. CASE c.type = "ListInsert"
    <2>1. /\ IsList(c.new) /\ Len(c.new) \in Nat /\ c.index <= Len(c.from)
          /\ c.stop = c.index + Len(c.new)
          /\ c.to = Ins(c.from, c.index, c.new)
      BY <1>2, ListIs DEF ListChange
    <2>2. Len(c.to) = Len(c.from) + Len(c.new) /\ Part(c.to, c.index, c.stop) = c.new
      <3> DEFINE s == c.from
                 v == c.new
                 i == c.index
      <3>1. IsList(s) /\ IsList(v) /\ i \in Nat /\ i <= Len(s)
        BY <1>1, <2>1
      <3> HIDE DEF s, v, i
      <3>2. /\ IsList(Ins(s, i, v)) /\ Len(Ins(s, i, v)) = Len(s) + Len(v)
            /\ Part(Ins(s, i, v), i, i + Len(v)) = v
            /\ Cut(Ins(s, i, v), i, i + Len(v)) = s
        BY ONLY <3>1, ListIns
      <3> QED BY <2>1, <3>2 DEF s, v, i
    <2>3. c.stop <= Len(c.to)
      <3>1. \A a, b, n \in Nat : a <= b => a + n <= b + n
        OBVIOUS
      <3>2. c.index + Len(c.new) <= Len(c.from) + Len(c.new)
        BY ONLY <1>1, <2>1, <3>1
      <3> QED BY ONLY <2>1, <2>2, <3>2
    <2> QED BY <1>1, <1>2, <2>2, <2>3, GoodPart
  <1>3. CASE c.type = "ListDelete"
    <2>1. c.stop <= Len(c.from) /\ c.old = Part(c.from, c.index, c.stop)
      BY <1>3 DEF ListChange
    <2> QED BY <1>1, <1>3, <2>1, GoodPart
  <1>4. CASE c.type = "ListUpdate"
    <2>1. /\ c.stop <= Len(c.from) /\ c.old = Part(c.from, c.index, c.stop)
          /\ IsList(c.new) /\ Len(c.new) = c.stop - c.index
          /\ c.to = Ins(Cut(c.from, c.index, c.stop), c.index, c.new)
      BY <1>4 DEF ListChange
    <2>2. Len(c.to) = Len(c.from) /\ Part(c.to, c.index, c.stop) = c.new
      BY <1>1, <2>1, UpdateParts
    <2>3. c.stop <= Len(c.to)
      BY <2>1, <2>2
    <2> QED BY <1>1, <1>4, <2>1, <2>2, <2>3, GoodPart
  <1> QED BY <1>2, <1>3, <1>4

\* A step that leaves a list exact, and no entry that is not.
LEMMA ListMoreKept ==
    ASSUME ListMore, class' = class, versions' \in [Kids -> {0, 1}], ListExact(store'),
           \A e \in Entries' : ListEntryExact(e)
    PROVE  ListMore'
  <1>1. relationship' = relationship
    BY DEF relationship
  <1>2. \A v : Good(v)' <=> Good(v)
    BY <1>1 DEF Good, Distinct, IsChild
  <1>3. ListExact(store)'
    <2>1. ListFits(store)'
      BY DEF ListExact, ListFits, IsStore, IsList
    <2>2. Good(store.state)'
      BY <1>1 DEF ListExact, Good, Distinct, IsChild
    <2>3. (store.children = HeldIn(store.state))'
      BY <1>1 DEF ListExact, HeldIn, ChildrenIn, IsChild
    <2> QED BY <2>1, <2>2, <2>3 DEF ListExact, Location
  <1>4. \A e \in Entries' : ListEntryExact(e)'
    BY <1>1, <1>2 DEF ListEntryExact
  <1> QED BY <1>1, <1>3, <1>4 DEF ListMore

\* The second invariant of a list stays if the store and the entries are exact.
LEMMA ListMoreStays ==
    ASSUME ListMore, class' = class, versions' = versions, ListExact(store'),
           \A e \in Entries' : ListEntryExact(e)
    PROVE  ListMore' /\ (ListDataExact(store') => ListDataExact(store)')
  <1>1. ListMore'
    BY ListMoreKept DEF ListMore
  <1>2. ListDataExact(store') => ListDataExact(store)'
    BY DEF ListDataExact, Fabricated, DataOf, relationship
  <1> QED BY <1>1, <1>2

\* A change that is made or made again.
LEMMA ListMoreRecorded ==
    ASSUME ListMore, ListInv, NEW t, NEW c, Record(t, <<c>>), ListExact(t), ListEntryExact(<<c>>),
           ListDataExact(store) /\ ~ SkipsData(<<c>>) => ListDataExact(t)
    PROVE  ListMore' /\ DataFollows
  <1>1. Entries' \subseteq Entries \cup {<<c>>} /\ Entry = <<c>>
    BY EntriesRecorded, EntryMade DEF ListInv
  <1>2. store' = t /\ class' = class /\ versions' = versions
    BY DEF Record, fixed
  <1>3. \A e \in Entries' : ListEntryExact(e)
    BY <1>1 DEF ListMore
  <1>4. ListMore' /\ (ListDataExact(store') => ListDataExact(store)')
    BY <1>2, <1>3, ListMoreStays
  <1> QED BY <1>1, <1>2, <1>4 DEF DataFollows

\* The methods of a list: they keep its second invariant, and its data follows.
LEMMA InsertValuesExact ==
    ASSUME ListMore, ListInv, NEW index \in Int, NEW values, Good(values), InsertValues(index, values)
    PROVE  ListMore' /\ DataFollows
  <1> DEFINE t == Inserted(store, index, values)
             c == ListInsert(store, index, values)
  <1>1. InsertAllowed(store, values) /\ Record(t, <<c>>)
    BY DEF InsertValues
  <1>2. StillExact(store, t)
    BY <1>1, InsertedExact DEF ListMore
  <1>3. IsList(values) /\ Len(values) \in Nat /\ values # <<>> /\ Len(values) > 0
    BY <1>1, ListIs DEF Good, InsertAllowed
  <1>4. /\ Clamped(Len(store.state), index) \in Nat
    BY InsertedFits, <1>3 DEF ListInv
  <1>5. /\ c.type = "ListInsert" /\ c.from = store.state /\ c.to = t.state
        /\ c.index = Clamped(Len(store.state), index) /\ c.stop = c.index + Len(values)
    <2> DEFINE i == Clamped(Len(store.state), index)
    <2>1. i <= Len(store.state) /\ t.state = Ins(store.state, i, values)
      BY <1>3, InsertedFits DEF ListInv
    <2>2. Inserted(store, i, values).state = Ins(store.state, i, values)
      <3> HIDE DEF i
      <3> QED BY <1>3, <1>4, <2>1, InsertedAt DEF ListInv, i
    <2>3. /\ c.type = "ListInsert" /\ c.from = store.state
          /\ c.to = Inserted(store, i, values).state
          /\ c.index = i /\ c.stop = i + Len(values)
      BY DEF ListInsert
    <2> HIDE DEF c, t, i
    <2> QED BY <2>1, <2>2, <2>3 DEF i
  <1> HIDE DEF c, t
  <1>6. c.index < c.stop
    BY <1>3, <1>4, <1>5
  <1>7. ListEntryExact(<<c>>)
    BY <1>2, <1>5, <1>6 DEF ListEntryExact, ListMore, StillExact, ListExact
  <1> QED BY <1>1, <1>2, <1>7, ListMoreRecorded DEF StillExact

\* A deletion does.
LEMMA DeleteItemExact ==
    ASSUME ListMore, ListInv, NEW item, ItemFits(item), DeleteItem(item)
    PROVE  ListMore' /\ DataFollows
  <1> DEFINE t == Deleted(store, item)
             c == ListDelete(store, item)
  <1>1. DeleteAllowed(store, item) /\ Record(t, <<c>>)
    BY DEF DeleteItem
  <1>2. StillExact(store, t)
    BY <1>1, DeletedExact DEF ListMore
  <1>3. /\ c.type = "ListDelete" /\ c.from = store.state /\ c.to = t.state
        /\ c.index < c.stop
    BY <1>1 DEF ListDelete, DeleteAllowed
  <1> HIDE DEF c, t
  <1>4. ListEntryExact(<<c>>)
    BY <1>2, <1>3 DEF ListEntryExact, ListMore, StillExact, ListExact
  <1> QED BY <1>1, <1>2, <1>4, ListMoreRecorded DEF StillExact

\* A move does.
LEMMA MoveItemExact ==
    ASSUME ListMore, ListInv, NEW item, ItemFits(item), NEW target \in Int, MoveItem(item, target)
    PROVE  ListMore' /\ DataFollows
  <1> DEFINE t == Moved(store, item, target)
             c == ListMove(store, item, target)
             m == PreMove(Len(store.state), item, target)
  <1>1. MoveAllowed(store, item, target) /\ Record(t, <<c>>)
    BY DEF MoveItem
  <1>2. StillExact(store, t)
    BY <1>1, MovedExact DEF ListMore
  <1>3. m.index < m.stop
    BY <1>1, MovedFits DEF ListInv
  <1>4. /\ c.type = "ListMove" /\ c.from = store.state /\ c.to = t.state
        /\ c.index = m.index /\ c.stop = m.stop
    BY DEF ListMove
  <1> HIDE DEF c, t, m
  <1>5. ListEntryExact(<<c>>)
    BY <1>2, <1>3, <1>4 DEF ListEntryExact, ListMore, StillExact, ListExact
  <1> QED BY <1>1, <1>2, <1>5, ListMoreRecorded DEF StillExact

\* An update that does not skip data.
LEMMA NotSkipped ==
    ASSUME NEW e, e[1].type = "ListUpdate", relationship.data, ~ SkipsData(e),
           NEW v, IsList(v), v = Part(store'.state, e[1].index, e[1].stop),
           NEW old, old = Part(store.state, e[1].index, e[1].stop)
    PROVE  StaysLast(old, v)
  <1>1. DOMAIN v = 1..Len(v)
    BY ListIs
  <1>2. ~ \E i, j \in DOMAIN v : i < j /\ v[i] = old[i] /\ v[j] # old[j]
    BY DEF SkipsData
  <1> QED BY <1>1, <1>2 DEF StaysLast

\* An update of a list, made, undone or made again.
LEMMA UpdatedFollows ==
    ASSUME ListMore, NEW item, ItemFits(item), NEW values, Good(values),
           UpdateAllowed(store, item, values), store' = Updated(store, item, values),
           NEW e, e[1].type = "ListUpdate",
           e[1].index = Span(Len(store.state), item).index,
           e[1].stop = Span(Len(store.state), item).stop
    PROVE  /\ ListExact(store') /\ e[1].index < e[1].stop
           /\ ListDataExact(store) /\ ~ SkipsData(e) => ListDataExact(store')
  <1> DEFINE i == Span(Len(store.state), item).index
             j == Span(Len(store.state), item).stop
             old == OldValues(store, item)
  <1>1. /\ ListExact(store) /\ ListFits(store) /\ IsList(store.state) /\ IsList(values)
        /\ Len(values) \in Nat /\ values # <<>> => Len(values) > 0
    BY ListIs DEF ListMore, ListExact, Good
  <1>2. /\ i \in Nat /\ j \in Nat /\ i <= j /\ j <= Len(store.state)
        /\ old = Part(store.state, i, j)
        /\ Len(values) = j - i
        /\ Updated(store, item, values).state = Ins(Cut(store.state, i, j), i, values)
    BY <1>1, UpdatedFits DEF UpdateAllowed
  <1>3. /\ ListExact(store')
        /\ ListDataExact(store) /\ (relationship.data => StaysLast(old, values)) => ListDataExact(store')
    BY <1>1, UpdatedExact
  <1>4. e[1].index = i /\ e[1].stop = j
    OBVIOUS
  <1> HIDE DEF i, j, old
  <1>5. i < j
    BY <1>1, <1>2 DEF UpdateAllowed
  <1>6. values = Part(store'.state, i, j)
    <2>1. Part(Ins(Cut(store.state, i, j), i, values), i, j) = values
      BY <1>1, <1>2, UpdateParts
    <2> QED BY <1>2, <2>1
  <1>7. relationship.data /\ ~ SkipsData(e) => StaysLast(old, values)
    BY <1>1, <1>2, <1>4, <1>6, NotSkipped
  <1> QED BY <1>3, <1>4, <1>5, <1>7

\* An update does, unless it skips the data of values that stay.
LEMMA UpdateItemExact ==
    ASSUME ListMore, ListInv, NEW item, ItemFits(item), NEW values, IsList(values),
           ToSet(values) \subseteq Values, UpdateItem(item, values)
    PROVE  ListMore' /\ DataFollows
  <1> DEFINE t == Updated(store, item, values)
             c == ListUpdate(store, item, values)
             e == <<c>>
  <1>1. UpdateAllowed(store, item, values) /\ Record(t, e) /\ store' = t
    BY DEF UpdateItem, Record
  <1>2. Good(values)
    BY <1>1 DEF Good, UpdateAllowed
  <1>3. /\ c.type = "ListUpdate" /\ c.from = store.state /\ c.to = t.state
        /\ c.index = Span(Len(store.state), item).index /\ c.stop = Span(Len(store.state), item).stop
        /\ c.old = OldValues(store, item) /\ c.new = values
    BY DEF ListUpdate
  <1>4. e[1] = c
    OBVIOUS
  <1> HIDE DEF c, t, e
  <1>5. /\ ListExact(store') /\ c.index < c.stop
        /\ ListDataExact(store) /\ ~ SkipsData(e) => ListDataExact(store')
    <2>1. /\ ListExact(store') /\ e[1].index < e[1].stop
          /\ ListDataExact(store) /\ ~ SkipsData(e) => ListDataExact(store')
      BY <1>1, <1>2, <1>3, <1>4, UpdatedFollows DEF t
    <2> QED BY <1>4, <2>1
  <1>6. ListEntryExact(e)
    BY <1>1, <1>3, <1>4, <1>5 DEF ListEntryExact, ListMore, ListExact, UpdateAllowed
  <1> QED BY <1>1, <1>5, <1>6, ListMoreRecorded DEF e

\* So does an update from an index on, of as many values as are given.
LEMMA UpdateFromExact ==
    ASSUME ListMore, ListInv, NEW index \in Int, NEW values, IsList(values),
           ToSet(values) \subseteq Values, UpdateFrom(index, values)
    PROVE  ListMore' /\ DataFollows
  <1>1. Len(values) \in Nat
    BY ListIs
  <1>2. ItemFits(At(index)) /\ ItemFits(Slice(index, index + Len(values)))
    BY <1>1, FitsAt, FitsSlice
  <1>3. \/ UpdateItem(At(index), values)
        \/ UpdateItem(Slice(index, index + Len(values)), values)
    BY DEF UpdateFrom
  <1> QED BY <1>2, <1>3, UpdateItemExact

\* The values that the methods are called with may be in a list together.
LEMMA SomeValuesGood == \A n \in Nat : \A vs \in Lists(n) : Good(vs)
  <1> SUFFICES ASSUME NEW n \in Nat, NEW vs \in Lists(n) PROVE Good(vs)
    OBVIOUS
  <1>1. PICK m \in 0..n : vs \in [1..m -> Values]
    BY DEF Lists
  <1>2. vs \in Seq(Values)
    BY <1>1
  <1>3. IsList(vs) /\ ToSet(vs) \subseteq Values
    BY <1>2, ListOf
  <1> QED BY <1>3 DEF Good, Lists

\* Every method does.
LEMMA ListCalledExact ==
    ASSUME ListMore, ListInv, ListCalls
    PROVE  ListMore' /\ DataFollows
  <1> DEFINE n == Len(store.state)
  <1>1. IsList(store.state) /\ n \in Nat /\ n \in Int /\ 0 \in Int
    BY ListIs DEF ListInv, ListFits
  <1>2. \A vs \in SomeValues : Good(vs) /\ IsList(vs) /\ ToSet(vs) \subseteq Values
    BY SomeValuesGood DEF SomeValues, Good
  <1>3. \A i \in Indices : i \in Int
    BY IndicesAssumption
  <1>4. ASSUME NEW i \in Indices, NEW vs \in SomeValues, InsertValues(i, vs)
        PROVE  ListMore' /\ DataFollows
    BY <1>2, <1>3, <1>4, InsertValuesExact
  <1>5. ASSUME NEW vs \in SomeValues, Extend(vs)
        PROVE  ListMore' /\ DataFollows
    BY <1>1, <1>2, <1>5, InsertValuesExact DEF Extend
  <1>6. ASSUME NEW item \in Items(Indices), DeleteItem(item)
        PROVE  ListMore' /\ DataFollows
    BY <1>6, ItemsFitAll, DeleteItemExact
  <1>7. ASSUME NEW v \in Values, RemoveValue(v)
        PROVE  ListMore' /\ DataFollows
    <2>1. StateIndex(store.state, v) \in Int
      BY <1>1, StateIndexIs
    <2>2. ItemFits(At(StateIndex(store.state, v))) /\ DeleteItem(At(StateIndex(store.state, v)))
      BY <1>7, <2>1, FitsAt DEF RemoveValue
    <2> QED BY <2>2, DeleteItemExact
  <1>8. CASE ClearList
    <2>1. ItemFits(Slice(0, n)) /\ DeleteItem(Slice(0, n))
      BY <1>1, <1>8, FitsSlice DEF ClearList
    <2> QED BY <2>1, DeleteItemExact
  <1>9. ASSUME NEW i \in Indices, Pop(i)
        PROVE  ListMore' /\ DataFollows
    <2>1. ItemFits(At(i)) /\ DeleteItem(At(i))
      BY <1>3, <1>9, FitsAt DEF Pop
    <2> QED BY <2>1, DeleteItemExact
  <1>10. CASE ReverseList
    <2> DEFINE r == StateReversed(store.state)
    <2>1. IsList(r) /\ ToSet(r) \subseteq Values
      <3>1. r = [i \in 1..n |-> store.state[(n - i) + 1]]
        BY DEF StateReversed, Reverse
      <3>2. \A i \in 1..n : store.state[i] \in Values
        BY <1>1, ListIs DEF ListMore, ListExact, Good
      <3> HIDE DEF r, n
      <3>3. r \in [1..n -> Values]
        <4>1. \A i \in 1..n : (n - i) + 1 \in 1..n
          BY <1>1
        <4> QED BY <3>1, <3>2, <4>1
      <3>4. r \in Seq(Values)
        BY <1>1, <3>3
      <3> QED BY <3>4, ListOf
    <2>2. ItemFits(Slice(0, n)) /\ UpdateItem(Slice(0, n), r)
      BY <1>1, <1>10, FitsSlice DEF ReverseList
    <2> QED BY <2>1, <2>2, UpdateItemExact
  <1>11. ASSUME NEW item \in Items(Indices), NEW t \in Indices, MoveItem(item, t)
         PROVE  ListMore' /\ DataFollows
    BY <1>3, <1>11, ItemsFitAll, MoveItemExact
  <1>12. ASSUME NEW i \in Indices, NEW vs \in SomeValues, UpdateFrom(i, vs)
         PROVE  ListMore' /\ DataFollows
    BY <1>2, <1>3, <1>12, UpdateFromExact
  <1>13. ASSUME NEW i \in Indices \cup {None}, NEW vs \in SomeValues,
                SetSlice(Slice(i, None), vs)
         PROVE  ListMore' /\ DataFollows
    <2>1. Span(n, Slice(i, None)).index \in Int
      BY <1>1, ItemsFitAll, AnySpan DEF Items
    <2>2. UpdateFrom(Span(n, Slice(i, None)).index, vs)
      BY <1>13 DEF SetSlice
    <2> QED BY <1>2, <2>1, <2>2, UpdateFromExact
  <1> QED BY <1>4, <1>5, <1>6, <1>7, <1>8, <1>9, <1>10, <1>11, <1>12, <1>13 DEF ListCalls

\* A slice that has as many values as it should is where it should be.
LEMMA FullSpan ==
    ASSUME NEW n \in Nat, NEW i \in Nat, NEW j \in Nat, i < j,
           Span(n, Slice(i, j)).stop - Span(n, Slice(i, j)).index = j - i
    PROVE  Span(n, Slice(i, j)).index = i /\ Span(n, Slice(i, j)).stop = j
  <1> DEFINE a == Clamped(n, i)
             b == Clamped(n, j)
  <1>1. i # None /\ j # None
    BY IndicesAssumption
  <1>2. Span(n, Slice(i, j)).index = a /\ Span(n, Slice(i, j)).stop = b
    BY <1>1 DEF Span, Slice, Bounds
  <1>3. /\ a = IF i > n THEN n ELSE i
        /\ b = IF j > n THEN n ELSE j
    BY DEF Clamped, FromEnd
  <1> HIDE DEF a, b
  <1>4. b - a = j - i
    BY <1>2
  <1>5. a = i /\ b = j
    BY <1>3, <1>4
  <1> QED BY <1>2, <1>5

\* The slice of an entry, in whichever list, if it may be updated with as many values.
LEMMA EntrySpan ==
    ASSUME ListFits(store), NEW c, ListChange(c), c.type = "ListUpdate", c.index < c.stop,
           NEW values, IsList(values), Len(values) = c.stop - c.index,
           UpdateAllowed(store, Slice(c.index, c.stop), values)
    PROVE  /\ ItemFits(Slice(c.index, c.stop))
           /\ Span(Len(store.state), Slice(c.index, c.stop)).index = c.index
           /\ Span(Len(store.state), Slice(c.index, c.stop)).stop = c.stop
  <1> DEFINE item == Slice(c.index, c.stop)
             u == Span(Len(store.state), item)
  <1>1. Len(store.state) \in Nat /\ c.index \in Nat /\ c.stop \in Nat
    BY ListIs DEF ListFits, ListChange
  <1>2. ItemFits(item)
    BY <1>1, SliceIs
  <1>3. Resolves(Len(store.state), item) /\ Len(OldValues(store, item)) = Len(values)
    BY DEF UpdateAllowed
  <1> HIDE DEF item
  <1>4. Len(values) = u.stop - u.index
    BY <1>2, <1>3, UpdatedFits
  <1> HIDE DEF u
  <1>5. u.stop - u.index = c.stop - c.index
    BY <1>4
  <1> QED BY <1>1, <1>2, <1>5, FullSpan DEF u, item

\* What undo of an entry makes of an exact list is exact, wherever the list is now.
LEMMA ListUndoneExact ==
    ASSUME ListMore, ListInv, NEW e \in Entries, ListUndoable(e), store' = ListUndone(e[1])
    PROVE  /\ ListExact(store')
           /\ ListDataExact(store) /\ ~ SkipsData(e) => ListDataExact(store')
  <1> DEFINE c == e[1]
  <1>1. /\ ListChange(c) /\ ListExact(store) /\ ListFits(store) /\ ListEntryExact(e)
        /\ c.index \in Nat /\ c.stop \in Nat /\ c.index < c.stop
    BY DEF ListInv, ListMore, ListExact, ListEntry, ListEntryExact, ListChange
  <1>2. /\ c.type = "ListDelete" => Good(c.old)
        /\ c.type = "ListUpdate" => Good(c.old)
    BY <1>1, ChangeGood DEF ListEntryExact
  <1>3. ItemFits(Slice(c.index, c.stop))
    BY <1>1, SliceIs
  <1>4. CASE c.type = "ListInsert"
    <2>1. DeleteAllowed(store, Slice(c.index, c.stop)) /\ store' = Deleted(store, Slice(c.index, c.stop))
      BY <1>4 DEF ListUndoable, ListUndone
    <2> QED BY <1>1, <1>3, <2>1, DeletedExact DEF StillExact
  <1>5. CASE c.type = "ListDelete"
    <2>1. InsertAllowed(store, c.old) /\ store' = Inserted(store, c.index, c.old)
      BY <1>5 DEF ListUndoable, ListUndone, DeleteUndone
    <2>2. c.index \in Int
      BY <1>1
    <2> QED BY <1>1, <1>2, <1>5, <2>1, <2>2, InsertedExact DEF StillExact
  <1>6. CASE c.type = "ListUpdate"
    <2>1. /\ UpdateAllowed(store, Slice(c.index, c.stop), c.old)
          /\ store' = Updated(store, Slice(c.index, c.stop), c.old)
      BY <1>6 DEF ListUndoable, ListUndone
    <2>2. IsList(c.old) /\ Len(c.old) = c.stop - c.index
      <3>1. IsList(c.from) /\ c.stop <= Len(c.from) /\ c.old = Part(c.from, c.index, c.stop)
            /\ c.index <= c.stop
        BY <1>1, <1>6 DEF ListChange
      <3> QED BY <1>1, <3>1, ListPart
    <2>3. /\ Span(Len(store.state), Slice(c.index, c.stop)).index = c.index
          /\ Span(Len(store.state), Slice(c.index, c.stop)).stop = c.stop
      BY <1>1, <1>6, <2>1, <2>2, EntrySpan
    <2> QED BY <1>2, <1>3, <1>6, <2>1, <2>3, UpdatedFollows
  <1>7. CASE c.type = "ListMove"
    <2> DEFINE item == Slice(c.post, c.post_stop)
    <2>1. store' = IF MoveAllowed(store, item, c.index) THEN Moved(store, item, c.index) ELSE store
      BY <1>7 DEF ListUndone, MoveUndone
    <2>2. ItemFits(item) /\ c.index \in Int
      <3>1. c.post \in Nat /\ c.post_stop = c.post + (c.stop - c.index)
        BY <1>1, <1>7 DEF ListChange
      <3>2. c.post_stop \in Nat
        BY <1>1, <3>1
      <3> QED BY <1>1, <3>1, <3>2, SliceIs
    <2> HIDE DEF item
    <2>3. MoveAllowed(store, item, c.index) => StillExact(store, Moved(store, item, c.index))
      BY <1>1, <2>2, MovedExact
    <2> QED BY <1>1, <2>1, <2>3 DEF StillExact
  <1> QED BY <1>1, <1>4, <1>5, <1>6, <1>7 DEF ListChange

\* What redo makes of it is exact too.
LEMMA ListRedoneExact ==
    ASSUME ListMore, ListInv, NEW e \in Entries, ListRedoable(e), store' = ListRedone(e[1])
    PROVE  /\ ListExact(store')
           /\ ListDataExact(store) /\ ~ SkipsData(e) => ListDataExact(store')
  <1> DEFINE c == e[1]
  <1>1. /\ ListChange(c) /\ ListExact(store) /\ ListFits(store) /\ ListEntryExact(e)
        /\ c.index \in Nat /\ c.stop \in Nat /\ c.index < c.stop
    BY DEF ListInv, ListMore, ListExact, ListEntry, ListEntryExact, ListChange
  <1>2. /\ c.type = "ListInsert" => Good(c.new)
        /\ c.type = "ListUpdate" => Good(c.new)
    BY <1>1, ChangeGood DEF ListEntryExact
  <1>3. ItemFits(Slice(c.index, c.stop))
    BY <1>1, SliceIs
  <1>4. CASE c.type = "ListInsert"
    <2>1. InsertAllowed(store, c.new) /\ store' = Inserted(store, c.index, c.new)
      BY <1>4 DEF ListRedoable, ListRedone
    <2>2. c.index \in Int
      BY <1>1
    <2> QED BY <1>1, <1>2, <1>4, <2>1, <2>2, InsertedExact DEF StillExact
  <1>5. CASE c.type = "ListDelete"
    <2>1. DeleteAllowed(store, Slice(c.index, c.stop)) /\ store' = Deleted(store, Slice(c.index, c.stop))
      BY <1>5 DEF ListRedoable, ListRedone
    <2> QED BY <1>1, <1>3, <2>1, DeletedExact DEF StillExact
  <1>6. CASE c.type = "ListUpdate"
    <2>1. /\ UpdateAllowed(store, Slice(c.index, c.stop), c.new)
          /\ store' = Updated(store, Slice(c.index, c.stop), c.new)
      BY <1>6 DEF ListRedoable, ListRedone
    <2>2. IsList(c.new) /\ Len(c.new) = c.stop - c.index
      BY <1>1, <1>6 DEF ListChange
    <2>3. /\ Span(Len(store.state), Slice(c.index, c.stop)).index = c.index
          /\ Span(Len(store.state), Slice(c.index, c.stop)).stop = c.stop
      BY <1>1, <1>6, <2>1, <2>2, EntrySpan
    <2> QED BY <1>2, <1>3, <1>6, <2>1, <2>3, UpdatedFollows
  <1>7. CASE c.type = "ListMove"
    <2> DEFINE item == Slice(c.index, c.stop)
    <2>1. MoveAllowed(store, item, c.target) /\ store' = Moved(store, item, c.target)
      BY <1>7 DEF ListRedoable, ListRedone, MoveRedone
    <2>2. c.target \in Int
      BY <1>1, <1>7 DEF ListChange
    <2> QED BY <1>1, <1>3, <2>1, <2>2, MovedExact DEF StillExact
  <1> QED BY <1>1, <1>4, <1>5, <1>6, <1>7 DEF ListChange

\* An undo keeps the second invariant of a list, and its data follows.
LEMMA ListUndidExact ==
    ASSUME ListMore, ListInv, done # <<>>, ListUndoable(Last(done)), UndoTo(ListUndone(Last(done)[1]))
    PROVE  ListMore' /\ DataFollows
  <1>0. PICK e : e = Last(done)
    OBVIOUS
  <1>1. e \in Entries /\ Entries' \subseteq Entries /\ Entry = e
    BY <1>0, UndoneTo, EntriesUndone, EntryUndone DEF ListInv, Entries
  <1>2. /\ store' = ListUndone(e[1]) /\ class' = class /\ versions' = versions
        /\ ListUndoable(e)
    BY <1>0 DEF UndoTo, fixed
  <1>3. /\ ListExact(store')
        /\ ListDataExact(store) /\ ~ SkipsData(e) => ListDataExact(store')
    BY <1>1, <1>2, ListUndoneExact
  <1>4. \A f \in Entries' : ListEntryExact(f)
    BY <1>1 DEF ListMore
  <1>5. ListMore' /\ (ListDataExact(store') => ListDataExact(store)')
    BY <1>2, <1>3, <1>4, ListMoreStays
  <1> QED BY <1>1, <1>3, <1>5 DEF DataFollows

\* So does a redo.
LEMMA ListRedidExact ==
    ASSUME ListMore, ListInv, undone # <<>>, ListRedoable(Last(undone)),
           RedoTo(ListRedone(Last(undone)[1]))
    PROVE  ListMore' /\ DataFollows
  <1>0. PICK e : e = Last(undone)
    OBVIOUS
  <1>1. e \in Entries /\ Entries' \subseteq Entries /\ Entry = e
    BY <1>0, RedoneTo, EntriesRedone, EntryRedone DEF ListInv, Entries
  <1>2. /\ store' = ListRedone(e[1]) /\ class' = class /\ versions' = versions
        /\ ListRedoable(e)
    BY <1>0 DEF RedoTo, fixed
  <1>3. /\ ListExact(store')
        /\ ListDataExact(store) /\ ~ SkipsData(e) => ListDataExact(store')
    BY <1>1, <1>2, ListRedoneExact
  <1>4. \A f \in Entries' : ListEntryExact(f)
    BY <1>1 DEF ListMore
  <1>5. ListMore' /\ (ListDataExact(store') => ListDataExact(store)')
    BY <1>2, <1>3, <1>4, ListMoreStays
  <1> QED BY <1>1, <1>3, <1>5 DEF DataFollows

\* A child is where it is known to be, or where it is found.
LEMMA ListLocationIs ==
    ASSUME NEW s, ListExact(s), NEW k \in Kids, k \in s.children
    PROVE  /\ ListLocation(s, k) \in Nat /\ ListLocation(s, k) + 1 \in 1..Len(s.state)
           /\ s.state[ListLocation(s, k) + 1] = k
           /\ StateIndex(s.state, k) + 1 \in 1..Len(s.state)
           /\ StateIndex(s.state, k) \in Nat /\ s.state[StateIndex(s.state, k) + 1] = k
  <1>1. IsList(s.state) /\ Len(s.state) \in Nat /\ k \in HeldIn(s.state)
    BY ListIs DEF ListExact, Good
  <1>2. \E n \in 1..Len(s.state) : s.state[n] = k
    BY <1>1, HeldIs
  <1>3. /\ StateIndex(s.state, k) \in Nat /\ StateIndex(s.state, k) + 1 \in 1..Len(s.state)
        /\ s.state[StateIndex(s.state, k) + 1] = k
    BY <1>1, <1>2, StateIndexAt
  <1>4. CASE s.metadata[k] # None
    <2> DEFINE i == s.metadata[k]
    <2>1. i + 1 \in 1..Len(s.state) /\ s.state[i + 1] = k /\ i \in Int
      BY <1>4 DEF ListExact, Location
    <2>2. ListLocation(s, k) = i
      BY <1>4 DEF ListLocation
    <2> HIDE DEF i
    <2>3. i \in Nat
      BY <1>1, <2>1
    <2> QED BY <1>3, <2>1, <2>2, <2>3
  <1>5. CASE s.metadata[k] = None
    BY <1>3, <1>5 DEF ListLocation
  <1> QED BY <1>4, <1>5

\* A location that is right is kept.
LEMMA ListLocatedExact ==
    ASSUME NEW s, ListExact(s), NEW t, ListFits(t), NEW k \in Kids, NEW i \in Int,
           i + 1 \in 1..Len(s.state), s.state[i + 1] = k,
           t.state = s.state, t.children = s.children, t.metadata = [s.metadata EXCEPT ![k] = i]
    PROVE  ListExact(t)
  <1>1. s.metadata \in [Kids -> Location] /\ i \in Location
    BY DEF ListExact, Location
  <1>2. t.metadata \in [Kids -> Location]
    BY <1>1
  <1>3. \A c \in Kids : t.metadata[c] = IF c = k THEN i ELSE s.metadata[c]
    BY <1>1
  <1> QED BY <1>2, <1>3 DEF ListExact

\* So does the index of a child that is looked up, which is remembered.
LEMMA LocateExact ==
    ASSUME ListMore, ListInv, NEW k \in Kids, Locate(k)
    PROVE  ListMore' /\ DataFollows
  <1> DEFINE i == StateIndex(store.state, k)
             t == [store EXCEPT !.metadata[k] = i]
  <1>1. store' = t /\ class' = class /\ versions' = versions /\ done' = done /\ undone' = undone
    BY DEF Locate, fixed
  <1>2. ListExact(store) /\ ListFits(store) /\ k \in store.children
    BY DEF ListMore, ListExact, Locate
  <1>3. i \in Int /\ i + 1 \in 1..Len(store.state) /\ store.state[i + 1] = k
    BY <1>2, ListLocationIs
  <1>4. t = [state |-> store.state, data |-> store.data,
             metadata |-> [store.metadata EXCEPT ![k] = i], children |-> store.children]
    BY <1>2 DEF ListFits, IsStore
  <1> HIDE DEF i
  <1>5. /\ t.state = store.state /\ t.children = store.children /\ t.data = store.data
        /\ t.metadata = [store.metadata EXCEPT ![k] = i] /\ ListFits(t)
    BY <1>2, <1>4 DEF ListFits, IsStore
  <1> HIDE DEF t
  <1>6. ListExact(t)
    BY <1>2, <1>3, <1>5, ListLocatedExact
  <1>7. ListDataExact(store) => ListDataExact(t)
    BY <1>5 DEF ListDataExact
  <1>8. \A f \in Entries' : ListEntryExact(f)
    BY <1>1 DEF ListMore, Entries
  <1>9. ListMore' /\ (ListDataExact(store') => ListDataExact(store)')
    BY <1>1, <1>6, <1>8, ListMoreStays
  <1> QED BY <1>1, <1>7, <1>9 DEF DataFollows

\* So does a change of the data of a child.
LEMMA ListChildExact ==
    ASSUME ListMore, ListInv, NEW k \in Kids, ChildChanges(k, ListChildReplaced(k))
    PROVE  ListMore' /\ DataFollows
  <1>0. PICK state : state = store.state
    OBVIOUS
  <1>1. /\ versions' \in [Kids -> {0, 1}] /\ class' = class
        /\ store' = ListChildReplaced(k) /\ done' = done /\ undone' = undone
        /\ DataOf(k)' = NewDataOf(k) /\ \A v : v # k => DataOf(v)' = DataOf(v)
    BY ChildChanged DEF ListMore
  <1>2. /\ ListExact(store) /\ ListFits(store) /\ IsStore(store) /\ IsList(state)
        /\ Len(state) \in Nat /\ relationship.data => relationship.child
    BY <1>0, ListIs DEF ListMore, ListExact, ListFits
  <1>3. relationship' = relationship
    BY <1>1 DEF relationship
  <1>4. ListFits(store')
    <2>1. ListInv'
      BY ListChildChanged
    <2>2. ListFits(store)'
      BY <2>1 DEF ListInv
    <2> QED BY <2>2 DEF ListFits, IsStore, IsList
  <1>5. \A f \in Entries' : ListEntryExact(f)
    BY <1>1 DEF ListMore, Entries
  <1> DEFINE New(j) == DataOf(state[j])'
  <1>6. store'.state = state => Fabricated(store.state)' = [j \in DOMAIN state |-> New(j)]
    BY DEF Fabricated
  <1>7. Fabricated(state) = [j \in DOMAIN state |-> DataOf(state[j])] /\ DOMAIN state = 1..Len(state)
    BY <1>2, ListIs DEF Fabricated
  <1>8. \A j \in 1..Len(state) : state[j] # k => New(j) = DataOf(state[j])
    BY <1>1
  <1>9. \A j \in 1..Len(state) : state[j] = k => New(j) = NewDataOf(k)
    BY <1>1
  <1> HIDE DEF New
  <1>10. \A j, l \in 1..Len(state) : IsChild(state[j]) /\ state[j] = state[l] => j = l
    BY <1>0, <1>2, GoodIs DEF ListExact
  <1>11. CASE k \notin store.children \/ ~ relationship.data
    <2>1. store' = store
      BY <1>1, <1>11 DEF ListChildReplaced
    <2>2. ListMore'
      BY <1>1, <1>2, <1>5, <2>1, ListMoreKept
    <2>3. ASSUME ListDataExact(store) PROVE ListDataExact(store)'
      <3>1. CASE ~ relationship.data
        BY <1>3, <2>1, <2>3, <3>1 DEF ListDataExact
      <3>2. CASE relationship.data
        <4>1. k \notin HeldIn(state) /\ IsChild(k)
          BY <1>0, <1>2, <1>11, <3>2 DEF ListExact, IsChild
        <4>2. \A j \in 1..Len(state) : state[j] # k
          BY <1>2, <4>1, HeldIs
        <4>3. Fabricated(store.state)' = Fabricated(state)
          BY <1>0, <1>6, <1>7, <1>8, <2>1, <4>2
        <4>4. store'.data = Fabricated(state)
          BY <1>0, <2>1, <2>3, <3>2 DEF ListDataExact
        <4> QED BY <1>3, <3>2, <4>3, <4>4 DEF ListDataExact
      <3> QED BY <3>1, <3>2
    <2> QED BY <2>2, <2>3 DEF DataFollows
  <1>12. CASE k \in store.children /\ relationship.data
    <2> DEFINE i == ListLocation(store, k)
               x == NewDataOf(k)
               d == StateUpdated(store.data, i, <<x>>)
    <2>1. i \in Nat /\ i \in Int /\ i + 1 \in 1..Len(state) /\ state[i + 1] = k
      BY <1>0, <1>2, <1>12, ListLocationIs
    <2>2. store' = [store EXCEPT !.data = d, !.metadata[k] = i]
      BY <1>1, <1>12 DEF ListChildReplaced
    <2> HIDE DEF i, d
    <2>3. store' = [state |-> store.state, data |-> d,
                    metadata |-> [store.metadata EXCEPT ![k] = i], children |-> store.children]
      BY <1>2, <2>2 DEF IsStore
    <2>4. /\ store'.state = state /\ store'.data = d /\ store'.children = store.children
          /\ store'.metadata = [store.metadata EXCEPT ![k] = i]
      BY <1>0, <2>3
    <2>5. ListExact(store')
      BY <1>0, <1>2, <1>4, <2>1, <2>4, ListLocatedExact
    <2>6. ListMore'
      BY <1>1, <1>5, <2>5, ListMoreKept
    <2>7. ASSUME ListDataExact(store) PROVE ListDataExact(store)'
      <3> DEFINE f == Fabricated(state)
                 v == <<x>>
                 p == Put(f, i, v)
                 g == [j \in DOMAIN state |-> New(j)]
      <3>1. store.data = f /\ IsList(f) /\ Len(f) = Len(state)
            /\ \A j \in 1..Len(state) : f[j] = DataOf(state[j])
        BY <1>0, <1>2, <1>12, <2>7, FabricatedAt DEF ListDataExact
      <3>2. IsList(v) /\ Len(v) = 1 /\ v[1] = x
        <4> HIDE DEF x
        <4>1. <<x>> \in Seq({x})
          OBVIOUS
        <4> QED BY <4>1, ListOf
      <3> HIDE DEF f, v, x
      <3>3. i + Len(v) <= Len(f)
        BY <1>2, <2>1, <3>1, <3>2
      <3>4. d = p
        BY <2>1, <3>1, <3>2, <3>3, UpdatedIs DEF Put, d, v
      <3>5. /\ IsList(p) /\ Len(p) = Len(f)
            /\ \A n \in 1..Len(v) : i + n \in 1..Len(f) /\ p[i + n] = v[n]
            /\ \A n \in 1..Len(f) : n \notin (i + 1)..(i + Len(v)) => p[n] = f[n]
        <4>1. IsList(f) /\ IsList(v) /\ i \in Nat /\ i + Len(v) <= Len(f)
          BY <2>1, <3>1, <3>2, <3>3
        <4> QED BY ONLY <4>1, PutAt, Zenon
      <3> HIDE DEF p
      <3>6. p[i + 1] = x /\ \A n \in 1..Len(state) : n # i + 1 => p[n] = f[n]
        <4>1. \A n \in 1..Len(state) : n # i + 1 => n \notin (i + 1)..(i + Len(v))
          BY <2>1, <3>2
        <4> QED BY <3>1, <3>2, <3>5, <4>1
      <3>7. \A n \in 1..Len(state) : n # i + 1 => state[n] # k
        <4>1. IsChild(k)
          BY <1>2, <1>12 DEF IsChild
        <4> QED BY <1>10, <2>1, <4>1
      <3>8. \A n \in 1..Len(state) : p[n] = New(n)
        <4> TAKE n \in 1..Len(state)
        <4>1. CASE n = i + 1
          BY <1>9, <2>1, <3>6, <4>1 DEF x
        <4>2. CASE n # i + 1
          BY <1>8, <3>1, <3>6, <3>7, <4>2
        <4> QED BY <4>1, <4>2
      <3>9. IsList(g) /\ Len(g) = Len(state)
        <4>1. g \in [1..Len(state) -> ToSet(g)]
          BY <1>7 DEF ToSet
        <4> QED BY <1>2, <1>7, <4>1 DEF IsList
      <3>10. \A n \in 1..Len(p) : p[n] = g[n]
        BY <1>7, <3>1, <3>5, <3>8
      <3>11. p = g
        <4> HIDE DEF g
        <4> QED BY <3>1, <3>5, <3>9, <3>10, SameList
      <3>12. store'.data = Fabricated(store.state)'
        BY <1>6, <2>4, <3>4, <3>11
      <3> QED BY <1>3, <1>12, <3>12 DEF ListDataExact
    <2> QED BY <2>6, <2>7 DEF DataFollows
  <1> QED BY <1>11, <1>12

\* Every step keeps the second invariant of a list, and its data follows.
LEMMA ListMoreStep ==
    ASSUME ListMore, ListInv, ListNext
    PROVE  ListMore' /\ DataFollows
  <1>1. CASE ListCalls
    BY <1>1, ListCalledExact
  <1>2. ASSUME NEW k \in Kids, Locate(k) PROVE ListMore' /\ DataFollows
    BY <1>2, LocateExact
  <1>3. ASSUME NEW k \in Kids, ChildChanges(k, ListChildReplaced(k)) PROVE ListMore' /\ DataFollows
    BY <1>3, ListChildExact
  <1>4. CASE done # <<>> /\ ListUndoable(Last(done)) /\ UndoTo(ListUndone(Last(done)[1]))
    BY <1>4, ListUndidExact
  <1>5. CASE undone # <<>> /\ ListRedoable(Last(undone)) /\ RedoTo(ListRedone(Last(undone)[1]))
    BY <1>5, ListRedidExact
  <1> QED BY <1>1, <1>2, <1>3, <1>4, <1>5 DEF ListNext

\* It holds of a list that is made.
LEMMA ListMoreStart ==
    ASSUME versions = [k \in Kids |-> 0], done = <<>>, undone = <<>>,
           NEW a, class = ListCls(a), ListInit
    PROVE  ListMore
  <1>1. versions \in [Kids -> {0, 1}] /\ (relationship.data => relationship.child)
    BY DataOfChildren
  <1>2. Entries = {}
    BY EmptyList DEF Entries
  <1>3. PICK vs \in Lists(MaxLength) : store = ListStore(vs)
    BY DEF ListInit
  <1>4. Good(vs)
    <2>1. PICK m \in 0..MaxLength : vs \in [1..m -> Values] /\ Distinct(vs)
      BY <1>3 DEF Lists
    <2>2. m \in Nat
      BY <2>1
    <2>3. vs \in Seq(Values)
      BY <2>1, <2>2
    <2>4. IsList(vs) /\ ToSet(vs) \subseteq Values
      BY <2>3, ListOf
    <2> QED BY <2>1, <2>4 DEF Good
  <1>5. ListFits(store) /\ store.metadata \in [Kids -> Location]
    BY ListStart DEF ListInv
  <1>6. /\ store.state = vs /\ store.children = HeldIn(vs)
        /\ store.metadata = [k \in Kids |-> IF IsChild(k) /\ Contains(vs, k) THEN StateIndex(vs, k)
                                            ELSE None]
    BY <1>3 DEF ListStore, HeldIn
  <1>7. ASSUME NEW k \in Kids, store.metadata[k] # None
        PROVE  store.metadata[k] + 1 \in 1..Len(vs) /\ vs[store.metadata[k] + 1] = k
    <2>1. store.metadata[k] = StateIndex(vs, k) /\ Contains(vs, k)
      BY <1>6, <1>7
    <2>2. \E n \in 1..Len(vs) : vs[n] = k
      BY <2>1 DEF Contains
    <2> QED BY <1>4, <2>1, <2>2, StateIndexAt DEF Good
  <1>8. ListExact(store)
    BY <1>4, <1>5, <1>6, <1>7 DEF ListExact
  <1> QED BY <1>1, <1>2, <1>8 DEF ListMore

\* What it says of the store is what the properties ask for.
LEMMA ListMoreShows ==
    ListMore => /\ versions \in [Kids -> {0, 1}]
                /\ store.children \subseteq Kids /\ store.state \in Seq(Values)
                /\ store.children = ChildrenIn(ListHolds(store))
                /\ ListLocationsExact(store)
  <1> SUFFICES ASSUME ListMore
               PROVE  /\ store.children \subseteq Kids /\ store.state \in Seq(Values)
                      /\ store.children = ChildrenIn(ListHolds(store))
                      /\ ListLocationsExact(store)
    BY DEF ListMore
  <1>1. ListExact(store) /\ Good(store.state)
    BY DEF ListMore, ListExact
  <1>2. store.children = ChildrenIn(ListHolds(store))
    BY <1>1 DEF ListExact, HeldIn, ListHolds
  <1>3. store.children \subseteq Kids
    BY <1>2 DEF ChildrenIn, IsChild
  <1>4. store.state \in Seq(Values)
    <2> DEFINE s == store.state
    <2>1. s \in Seq(ToSet(s)) /\ ToSet(s) \subseteq Values
      BY <1>1 DEF Good, IsList
    <2> HIDE DEF s
    <2>2. s \in Seq(Values)
      BY <2>1
    <2> QED BY <2>2 DEF s
  <1>5. ListLocationsExact(store)
    BY <1>1 DEF ListExact, ListLocationsExact
  <1> QED BY <1>2, <1>3, <1>4, <1>5

\* The list that an entry led to can be led back.
LEMMA ListMoreUndo ==
    ASSUME ListMore, ListInv, NEW e \in Entries, store.state = EntryTo(e)
    PROVE  ListUndoable(e)
  <1> DEFINE c == e[1]
             i == c.index
             j == c.stop
             item == Slice(i, j)
  <1>1. /\ ListEntry(e) /\ ListChange(c) /\ ListEntryExact(e)
        /\ ListExact(store) /\ ListFits(store) /\ store.children = HeldIn(store.state)
    BY DEF ListInv, ListMore, ListExact, ListEntry
  <1>2. store.state = c.to
    BY <1>1, ListEntryRestores
  <1>3. /\ i \in Nat /\ j \in Nat /\ i < j /\ i <= j /\ IsList(c.from) /\ IsList(c.to)
        /\ Good(c.from) /\ Good(c.to) /\ Len(c.from) \in Nat /\ Len(c.to) \in Nat
    BY <1>1, ListIs DEF ListChange, ListEntryExact
  <1>4. /\ c.type = "ListDelete" => Good(c.old)
        /\ c.type = "ListUpdate" => Good(c.old) /\ Good(c.new)
    BY <1>1, <1>3, ChangeGood
  <1>5. CASE c.type = "ListInsert"
    <2>1. /\ IsList(c.new) /\ Len(c.new) \in Nat /\ i <= Len(c.from) /\ j = i + Len(c.new)
          /\ c.to = Ins(c.from, i, c.new)
      BY <1>1, <1>5, ListIs DEF ListChange
    <2>2. Len(c.to) = Len(c.from) + Len(c.new)
      <3>1. Len(Ins(c.from, i, c.new)) = Len(c.from) + Len(c.new)
        BY <1>3, <2>1, ListIns
      <3> QED BY <2>1, <3>1
    <2> DEFINE n == Len(c.to)
    <2>3. j <= n /\ n \in Nat
      <3> DEFINE w == Len(c.new)
                 l == Len(c.from)
      <3>1. i \in Nat /\ l \in Nat /\ w \in Nat /\ i <= l /\ j = i + w /\ n = l + w
        BY <1>3, <2>1, <2>2
      <3>2. \A x, y, z \in Nat : x <= y => x + z <= y + z /\ y + z \in Nat
        OBVIOUS
      <3> HIDE DEF i, j, n, w, l
      <3> QED BY ONLY <3>1, <3>2
    <2> HIDE DEF i, j, n
    <2>4. /\ Resolves(n, item) /\ Span(n, item).index = i /\ Span(n, item).stop = j
      BY <1>3, <2>3, SpanOfSlice
    <2>5. DeleteAllowed(store, item)
      BY <1>2, <1>3, <2>4 DEF DeleteAllowed, n
    <2> QED BY <1>5, <2>5 DEF ListUndoable, i, j
  <1>6. CASE c.type = "ListDelete"
    <2>1. j <= Len(c.from) /\ c.old = Part(c.from, i, j) /\ c.to = Cut(c.from, i, j)
      BY <1>1, <1>6 DEF ListChange
    <2> HIDE DEF i, j
    <2>2. IsList(c.old) /\ Len(c.old) = j - i
      BY <1>3, <2>1, ListPart
    <2>3. c.old # <<>>
      BY <1>3, <2>2, ListIs
    <2>4. HeldIn(c.to) = HeldIn(c.from) \ HeldIn(c.old)
      BY <1>3, <2>1, GoodCut
    <2>5. Admits(store, {}, ChildrenIn(ToSet(c.old)))
      BY <1>1, <1>2, <2>4 DEF Admits, HeldIn
    <2>6. InsertAllowed(store, c.old)
      BY <1>4, <1>6, <2>3, <2>5 DEF InsertAllowed, Good
    <2> QED BY <1>6, <2>6 DEF ListUndoable
  <1>7. CASE c.type = "ListMove"
    <2>1. c.post \in Nat /\ c.post_stop = c.post + (j - i)
      BY <1>1, <1>7 DEF ListChange
    <2>2. c.post_stop \in Nat /\ c.post <= c.post_stop
      BY <1>3, <2>1
    <2>3. Resolves(Len(store.state), Slice(c.post, c.post_stop))
      BY <1>2, <1>3, <2>1, <2>2, SliceIs
    <2> QED BY <1>7, <2>3 DEF ListUndoable
  <1>8. CASE c.type = "ListUpdate"
    <2> DEFINE f == c.from
               t == c.to
               old == c.old
               new == c.new
               n == Len(t)
               going == Going(store, item, old)
               coming == Coming(store, item, old)
    <2>1. /\ j <= Len(f) /\ old = Part(f, i, j) /\ IsList(new) /\ Len(new) = j - i
          /\ t = Ins(Cut(f, i, j), i, new)
      BY <1>1, <1>8 DEF ListChange
    <2> HIDE DEF i, j
    <2>2. /\ Len(t) = Len(f) /\ Part(t, i, j) = new
          /\ \A k \in 1..Len(f) : k \notin (i + 1)..j => t[k] = f[k]
      BY <1>3, <2>1, UpdateParts
    <2>3. n \in Nat /\ j <= n /\ n = Len(f)
      BY <1>3, <2>1, <2>2
    <2>4. /\ Resolves(n, item) /\ Span(n, item).index = i /\ Span(n, item).stop = j
      BY <1>3, <2>3, SpanOfSlice
    <2>5. OldValues(store, item) = new
      BY <1>2, <2>2, <2>4 DEF OldValues
    <2>6. /\ IsList(old) /\ Len(old) = j - i
          /\ \A k \in 1..(j - i) : old[k] = f[i + k]
      <3>1. IsList(f) /\ i \in Nat /\ j \in Nat /\ i <= j /\ j <= Len(f) /\ old = Part(f, i, j)
        BY <1>3, <2>1
      <3> HIDE DEF f, old
      <3>2. IsList(Part(f, i, j)) /\ Len(Part(f, i, j)) = j - i
        BY <3>1, ListPart
      <3>3. \A k \in 1..(j - i) : Part(f, i, j)[k] = f[i + k]
        BY <3>1, PartAt
      <3> QED BY <3>1, <3>2, <3>3
    <2>7. \A k \in 1..(j - i) : new[k] = t[i + k]
      <3>1. IsList(t) /\ i \in Nat /\ j \in Nat /\ i <= j /\ j <= Len(t) /\ new = Part(t, i, j)
        BY <1>3, <2>2, <2>3
      <3> HIDE DEF t, new
      <3>2. \A k \in 1..(j - i) : Part(t, i, j)[k] = t[i + k]
        BY <3>1, PartAt
      <3> QED BY <3>1, <3>2
    <2> HIDE DEF f, t, old, new, n, item
    <2>8. old # <<>> /\ DOMAIN old = 1..(j - i)
      BY <1>3, <2>6, ListIs
    <2>9. /\ \A c1 \in going : \E k \in 1..(j - i) : old[k] # new[k] /\ new[k] = c1 /\ IsChild(c1)
          /\ \A c1 : IsChild(c1) /\ (\E k \in 1..(j - i) : old[k] # new[k] /\ new[k] = c1) => c1 \in going
          /\ \A c1 \in coming : IsChild(c1) /\ \E k \in 1..(j - i) : old[k] # new[k] /\ old[k] = c1
      <3> DEFINE d == Differing(new, old)
      <3>1. /\ DOMAIN d = {k \in 1..(j - i) : old[k] # new[k]}
            /\ \A k \in DOMAIN d : d[k] = old[k]
        BY <2>8 DEF Differing
      <3>2. going = ChildrenIn({new[k] : k \in DOMAIN d})
        BY <2>5 DEF Going
      <3>3. coming = ChildrenIn({d[k] : k \in DOMAIN d})
        BY <2>5 DEF Coming
      <3> HIDE DEF d, going, coming
      <3> QED BY <3>1, <3>2, <3>3 DEF ChildrenIn
    <2> HIDE DEF going, coming
    <2>10. /\ \A k \in 1..(j - i) : i + k \in 1..n
           /\ \A k \in (i + 1)..j : k - i \in 1..(j - i) /\ i + (k - i) = k
           /\ \A k \in 1..(j - i) : i + k \in (i + 1)..j
      BY <1>3, <2>3
    <2>11. /\ \A k, l \in 1..n : IsChild(f[k]) /\ f[k] = f[l] => k = l
           /\ \A k, l \in 1..n : IsChild(t[k]) /\ t[k] = t[l] => k = l
      BY <1>3, <2>3, GoodIs DEF f, t, n
    <2>12. \A c1 : c1 \in store.children <=> IsChild(c1) /\ \E k \in 1..n : t[k] = c1
      <3>1. store.children = HeldIn(t) /\ IsList(t)
        BY <1>1, <1>2, <1>3 DEF t
      <3> QED BY <3>1, HeldIs DEF n
    <2>13. \A c1 \in going \ coming : c1 \in store.children
      BY <2>7, <2>9, <2>10, <2>12
    <2>14. ASSUME NEW c1 \in coming, c1 \notin going, c1 \in store.children
           PROVE  FALSE
      <3>1. PICK p \in 1..(j - i) : IsChild(c1) /\ old[p] # new[p] /\ old[p] = c1
        BY <2>9, <2>14
      <3>2. f[i + p] = c1 /\ i + p \in 1..n /\ i + p \in (i + 1)..j
        BY <2>6, <2>10, <3>1
      <3>3. PICK q \in 1..n : t[q] = c1
        BY <2>12, <2>14
      <3>4. q \in (i + 1)..j
        <4> SUFFICES ASSUME q \notin (i + 1)..j PROVE FALSE
          OBVIOUS
        <4>1. f[q] = c1
          BY <2>2, <2>3, <3>3
        <4>2. q = i + p
          BY <2>11, <3>1, <3>2, <4>1
        <4> QED BY <3>2, <4>2
      <3>5. q - i \in 1..(j - i) /\ i + (q - i) = q
        BY <2>10, <3>4
      <3>6. new[q - i] = c1
        BY <2>7, <3>3, <3>5
      <3>7. old[q - i] = c1
        BY <2>9, <2>14, <3>1, <3>5, <3>6
      <3>8. f[q] = c1
        BY <2>6, <3>5, <3>7
      <3>9. q = i + p
        BY <2>11, <3>1, <3>2, <3>8
      <3>10. q - i = p
        BY <1>3, <3>9
      <3> QED BY <3>1, <3>6, <3>10
    <2>15. Admits(store, going, coming)
      BY <2>13, <2>14 DEF Admits
    <2>16. UpdateAllowed(store, item, old)
      <3>1. Resolves(Len(store.state), item)
        BY <1>2, <2>4 DEF n, t
      <3>2. Len(OldValues(store, item)) = Len(old)
        BY <2>1, <2>5, <2>6 DEF new
      <3>3. Distinct(old)
        BY <1>4, <1>8 DEF Good, old
      <3>4. relationship.data => old # OldValues(store, item)
        BY <1>1, <1>8, <2>5 DEF ListEntryExact, old, new
      <3> QED BY <2>8, <2>15, <3>1, <3>2, <3>3, <3>4 DEF UpdateAllowed, going, coming
    <2> QED BY <1>8, <2>16 DEF ListUndoable, item, i, j, old
  <1> QED BY <1>1, <1>5, <1>6, <1>7, <1>8 DEF ListChange

-----------------------------------------------------------------------------
(* What the store, the children and the locations of each kind keep        *)
(* beside the values, in one.                                              *)

\* The second inductive invariant: for each kind, what follows from the values, and that
\* every entry of the history says of values that may be held that they come and go.
More ==
    /\ kind = "list" => ListMore
    /\ kind = "set" => SetMore
    /\ kind = "dict" => DictMore
    /\ kind = "attributes" => AttributesMore

\* Objects of all kinds start with the second invariant.
LEMMA MoreStarts == Init => More
  <1> SUFFICES ASSUME Init PROVE More
    OBVIOUS
  <1>1. /\ versions = [k \in Kids |-> 0] /\ done = <<>> /\ undone = <<>>
        /\ kind \in Kinds
    BY DEF Init
  <1>2. CASE kind = "list"
    <2>1. ListInit /\ \E a \in Arguments : class = ListCls(a)
      BY <1>2 DEF Init
    <2>2. PICK a \in Arguments : class = ListCls(a)
      BY <2>1
    <2>3. ListMore
      BY <1>1, <2>1, <2>2, ListMoreStart
    <2> QED BY <1>2, <2>3 DEF More
  <1>3. CASE kind = "set"
    <2>1. SetInit /\ \E a \in Arguments : class = SetCls(a)
      BY <1>3 DEF Init
    <2>2. PICK a \in Arguments : class = SetCls(a)
      BY <2>1
    <2>3. SetMore
      BY <1>1, <2>1, <2>2, SetMoreStart
    <2> QED BY <1>3, <2>3 DEF More
  <1>4. CASE kind = "dict"
    <2>1. DictInit /\ \E a \in Arguments : class = DictCls(a)
      BY <1>4 DEF Init
    <2>2. PICK a \in Arguments : class = DictCls(a)
      BY <2>1
    <2>3. DictMore
      BY <1>1, <2>1, <2>2, DictMoreStart
    <2> QED BY <1>4, <2>3 DEF More
  <1>5. CASE kind = "attributes"
    <2>1. AttributesInit
      BY <1>5 DEF Init
    <2>2. AttributesMore
      BY <1>1, <2>1, AttributesMoreStart
    <2> QED BY <1>5, <2>2 DEF More
  <1> QED BY <1>1, <1>2, <1>3, <1>4, <1>5 DEF Kinds

\* It stays where nothing changes.
LEMMA MoreStays ==
    ASSUME IInv, More, UNCHANGED vars
    PROVE  More'
  <1>1. /\ kind' = kind /\ class' = class /\ store' = store /\ versions' = versions
        /\ done' = done /\ undone' = undone
    BY DEF vars
  <1>2. Entries' = Entries
    BY <1>1 DEF Entries
  <1>3. ASSUME kind = "list" PROVE ListMore'
    <2>1. ListMore /\ ListInv
      BY <1>3 DEF IInv, More
    <2>2. ListExact(store') /\ \A e \in Entries' : ListEntryExact(e)
      BY <1>1, <1>2, <2>1 DEF ListMore
    <2> QED BY <1>1, <2>1, <2>2, ListMoreStays
  <1>4. ASSUME kind = "set" PROVE SetMore'
    <2>1. SetMore
      BY <1>4 DEF More
    <2>2. /\ SetExact(store') /\ (relationship.data => ChildrenIn(store'.state) \subseteq Described)
          /\ \A e \in Entries' : SetEntryRight(e)
      BY <1>1, <1>2, <2>1 DEF SetMore
    <2> QED BY <1>1, <2>1, <2>2, SetMoreStays
  <1>5. ASSUME kind = "dict" PROVE DictMore'
    <2>1. DictMore
      BY <1>5 DEF More
    <2>2. DictExact(store') /\ \A e \in Entries' : DictEntryExact(e)
      BY <1>1, <1>2, <2>1 DEF DictMore
    <2> QED BY <1>1, <2>1, <2>2, DictMoreStays
  <1>6. ASSUME kind = "attributes" PROVE AttributesMore'
    <2>1. AttributesMore
      BY <1>6 DEF More
    <2>2. AttributesExact(store') /\ \A e \in Entries' : AttributesEntryExact(e)
      BY <1>1, <1>2, <2>1 DEF AttributesMore
    <2> QED BY <1>1, <2>1, <2>2, AttributesMoreStays
  <1> QED BY <1>1, <1>3, <1>4, <1>5, <1>6 DEF More

\* What a step of any kind lets follow.
DerivedFollow ==
    /\ TypeOK' /\ ChildrenExact'
    /\ DataExact /\ ~ SkipsData(Entry) => DataExact'
    /\ LocationsExact /\ ~ ComesBeforeItLeaves => LocationsExact'

\* Every step keeps it, and lets what is derived from the values follow them.
LEMMA MoreSteps ==
    ASSUME IInv, More, Next
    PROVE  More' /\ DerivedFollow
  <1>1. CASE kind = "list" /\ ListNext
    <2>1. ListMore' /\ DataFollows /\ kind' = "list"
      BY <1>1, ListMoreStep, ListKind DEF IInv, More
    <2>2. /\ (versions \in [Kids -> {0, 1}])'
          /\ (store.children \subseteq Kids /\ store.state \in Seq(Values))'
          /\ (store.children = ChildrenIn(ListHolds(store)))'
          /\ ListLocationsExact(store)'
      BY <2>1, ListMoreShows, PTL
    <2>3. TypeOK'
      BY <2>1, <2>2 DEF TypeOK, Of, Kinds
    <2>4. ChildrenExact'
      BY <2>1, <2>2 DEF ChildrenExact, Of
    <2>5. DataExact /\ ~ SkipsData(Entry) => DataExact'
      BY <1>1, <2>1 DEF DataFollows, DataExact, Of
    <2>6. LocationsExact'
      BY <2>1, <2>2 DEF LocationsExact, Of
    <2> QED BY <2>1, <2>3, <2>4, <2>5, <2>6 DEF More, DerivedFollow
  <1>2. CASE kind = "set" /\ SetNext
    <2>1. SetMore' /\ kind' = "set"
      BY <1>2, SetMoreStep, SetKind DEF IInv, More
    <2>2. /\ (versions \in [Kids -> {0, 1}])'
          /\ (store.children \subseteq Kids /\ store.state \subseteq Values)'
          /\ (store.children = ChildrenIn(SetHolds(store)))'
          /\ SetDataExact(store)' /\ SetLocationsExact(store)'
      BY <2>1, SetMoreShows, PTL
    <2>3. TypeOK'
      BY <2>1, <2>2 DEF TypeOK, Of, Kinds
    <2>4. ChildrenExact'
      BY <2>1, <2>2 DEF ChildrenExact, Of
    <2>5. DataExact'
      BY <2>1, <2>2 DEF DataExact, Of
    <2>6. LocationsExact'
      BY <2>1, <2>2 DEF LocationsExact, Of
    <2> QED BY <2>1, <2>3, <2>4, <2>5, <2>6 DEF More, DerivedFollow
  <1>3. CASE kind = "dict" /\ DictNext
    <2>1. DictMore' /\ KeysFollow(store, store') /\ kind' = "dict"
      BY <1>3, DictMoreStep, DictKind DEF IInv, More
    <2>2. /\ (versions \in [Kids -> {0, 1}])'
          /\ (store.children \subseteq Kids /\ store.state \in [Keys -> Values \cup {None}])'
          /\ (store.children = ChildrenIn(DictHolds(store)))'
          /\ DictDataExact(store)'
      BY <2>1, DictMoreShows, PTL
    <2>3. TypeOK'
      BY <2>1, <2>2 DEF TypeOK, Of, Kinds
    <2>4. ChildrenExact'
      BY <2>1, <2>2 DEF ChildrenExact, Of
    <2>5. DataExact'
      BY <2>1, <2>2 DEF DataExact, Of
    <2>6. DictLocationsExact(store') => DictLocationsExact(store)'
      BY DEF DictLocationsExact
    <2>7. LocationsExact /\ ~ ComesBeforeItLeaves => LocationsExact'
      BY <1>3, <2>1, <2>6 DEF KeysFollow, LocationsExact, Of
    <2> QED BY <2>1, <2>3, <2>4, <2>5, <2>7 DEF More, DerivedFollow
  <1>4. CASE kind = "attributes" /\ AttributesNext
    <2>1. AttributesMore' /\ NamesFollow(store, store') /\ kind' = "attributes"
      BY <1>4, AttributesMoreStep, AttributesKind DEF IInv, More
    <2>2. /\ (versions \in [Kids -> {0, 1}])'
          /\ (store.children \subseteq Kids /\ DOMAIN store.state = Attributes)'
          /\ (store.children = AttributesAdopt(store))'
          /\ AttributesDataExact(store)'
      BY <2>1, AttributesMoreShows, PTL
    <2>3. TypeOK'
      BY <2>1, <2>2 DEF TypeOK, Of, Kinds
    <2>4. ChildrenExact'
      BY <2>1, <2>2 DEF ChildrenExact, Of
    <2>5. DataExact'
      BY <2>1, <2>2 DEF DataExact, Of
    <2>6. AttributesLocationsExact(store') => AttributesLocationsExact(store)'
      BY DEF AttributesLocationsExact
    <2>7. LocationsExact /\ ~ ComesBeforeItLeaves => LocationsExact'
      BY <1>4, <2>1, <2>6 DEF NamesFollow, LocationsExact, Of
    <2> QED BY <2>1, <2>3, <2>4, <2>5, <2>7 DEF More, DerivedFollow
  <1> QED BY <1>1, <1>2, <1>3, <1>4 DEF Next

\* The second inductive invariant holds: the store of each kind has the children and the
\* data of its values, a list and a set the locations too, and whatever an entry of the
\* history takes away is there and can come back.
THEOREM MoreInvariance == Spec => []More
  <1>1. Init => More
    BY MoreStarts
  <1>2. IInv /\ More /\ [Next]_vars => More'
    BY MoreSteps, MoreStays
  <1> QED BY <1>1, <1>2, Invariance, PTL DEF Spec

\* Children, data and locations follow the values through every call, child's change, undo
\* and redo, whatever the class, the values and the length of the history; but for the data
\* of a list whose update skips a value that stays (_objects/list.py:397), and for the
\* locations of a dict or of attributes where a child comes before it leaves
\* (_objects/object.py:784, _objects/dict.py:179).
THEOREM AlwaysStoreFollows == Spec => StoreFollows
  <1>1. IInv /\ More /\ [Next]_vars => [DerivedFollow]_vars
    BY MoreSteps
  <1>2. DerivedFollow
          => /\ TypeOK' /\ ChildrenExact'
             /\ DataExact /\ ~ SkipsData(Entry) => DataExact'
             /\ LocationsExact /\ ~ ComesBeforeItLeaves => LocationsExact'
    BY DEF DerivedFollow
  <1> QED BY <1>1, <1>2, Invariance, MoreInvariance, PTL DEF Spec, StoreFollows

\* The state that the last entry left lets it be undone.
LEMMA MoreUndo == IInv /\ More => UndoPossible
  <1> SUFFICES ASSUME IInv, More, NEW n \in DOMAIN done, n = Len(done),
                      store.state = EntryTo(done[n]), LocationsExact
               PROVE  \/ Of(ListUndoable(done[n]), SetUndoable(done[n]),
                            DictUndoable(done[n]), AttributesUndoable(done[n]))
                      \/ CannotGoBack(done[n])
    BY DEF UndoPossible
  <1> DEFINE e == done[n]
  <1>1. e \in Entries
    BY DEF Entries, ToSet
  <1>2. store.state = EntryTo(e)
    OBVIOUS
  <1> HIDE DEF e
  <1>3. CASE kind = "list"
    <2>1. ListUndoable(e)
      BY <1>1, <1>2, <1>3, ListMoreUndo DEF IInv, More
    <2> QED BY <1>3, <2>1 DEF Of, e
  <1>4. CASE kind = "set"
    <2>1. SetUndoable(e)
      BY <1>1, <1>2, <1>4, SetMoreUndo DEF IInv, More
    <2> QED BY <1>4, <2>1 DEF Of, e
  <1>5. CASE kind = "dict"
    <2>1. DictLocationsExact(store)
      BY <1>5 DEF LocationsExact, Of
    <2>2. DictUndoable(e)
      BY <1>1, <1>2, <1>5, <2>1, DictMoreUndo DEF IInv, More
    <2> QED BY <1>5, <2>2 DEF Of, e
  <1>6. CASE kind = "attributes"
    <2>1. AttributesLocationsExact(store)
      BY <1>6 DEF LocationsExact, Of
    <2>2. AttributesUndoable(e) \/ CannotGoBack(e)
      BY <1>1, <1>2, <1>6, <2>1, AttributesMoreUndo DEF IInv, More
    <2> QED BY <1>6, <2>2 DEF Of, e
  <1> QED BY <1>3, <1>4, <1>5, <1>6 DEF IInv, Kinds

\* Whoever changed the object can undo the change while the object is as the change left it:
\* the checks of an update - the children are there, no new one is held already, nothing is
\* stale - let the undo pass; but for attributes that may not be deleted or changed again.
THEOREM AlwaysUndoPossible == Spec => []UndoPossible
  BY Invariance, MoreInvariance, MoreUndo, PTL

=============================================================================
