--------------------------- MODULE AttributeObject ---------------------------
(***************************************************************************)
(* An Object with attributes (objetto/_objects/object.py): the update of   *)
(* attributes through an intermediary object, which runs the delegates of  *)
(* delegated attributes and recomputes what depends on what changed; the   *)
(* raw update of the store with its undo and redo; deserialization.        *)
(*                                                                         *)
(* state and data are functions on the attributes (None: no value),        *)
(* metadata the locations of the children.  A getter reads all its         *)
(* dependencies; a setter or deleter sets or deletes one attribute.  The   *)
(* update deletes what it is to delete twice (object.py:711, 717), so it   *)
(* raises unless a deleter sets an attribute.                              *)
(***************************************************************************)
EXTENDS ObjectStore

CONSTANTS
    Classes,         \* classes of objects, each as ObjectClass makes it
    DELETED          \* for an attribute: no value

ASSUME ClassesAssumption ==
    \A c \in Classes : ClassAccepted(c.attributes) /\ c = ObjectClass(c.attributes)

\* Setters and deleters set and delete attributes that have none themselves.
ASSUME SettersAssumption ==
    \A c \in Classes : \A n \in DOMAIN c.attributes :
        LET d == c.attributes[n].delegates
        IN  \A t \in {d.setter.target, d.deleter.target} \cap DOMAIN c.attributes :
              ~ c.attributes[t].delegates.delegated

ASSUME NamesAssumption == \A c \in Classes : None \notin DOMAIN c.attributes

ASSUME DeletedAssumption == DELETED \notin Values \cup {None}

\* What the class of the object says of its attributes.
Declared(n)  == class.attributes[n]
Attributes   == DOMAIN class.attributes
Dependencies == [n \in Attributes |-> Declared(n).delegates.dependencies]
Delegating   == {n \in Attributes : Declared(n).delegates.delegated}
Stored       == Attributes \ Delegating
Changeable   == {n \in Attributes : Declared(n).changeable}
Deletable    == {n \in Attributes : Declared(n).deletable}
Required     == {n \in Attributes : Declared(n).required}
Serialized   == {n \in Attributes : Declared(n).relationship.serialized}

\* A setter or deleter (v is DELETED) gives one attribute a value, a getter returns one.
Method(n, v)    == IF v = DELETED THEN Declared(n).delegates.deleter
                   ELSE Declared(n).delegates.setter
Target(n, v)    == IF n \in Delegating THEN Method(n, v).target ELSE n
Given(n, v)     == IF n \in Delegating THEN Or(Method(n, v).value, v) ELSE v
Getter(n, read) == read[Declared(n).delegates.returns]

\* The values that the types and the factory of an attribute let through: those
\* of a container are objects.
Fabricable(n) == IF Declared(n).holds = UNSET THEN Values ELSE Kids

\* Sorted by the number of dependencies.
Sorted(names) == class.sorted[names]

-----------------------------------------------------------------------------
(* IntermediaryObject: new and old values (None: none), dirty attributes.  *)

Intermediary(s) ==
    [new   |-> [n \in Attributes |-> None],
     old   |-> [n \in Attributes |-> None],
     dirty |-> {n \in Attributes : s.state[n] = None}]

\* What get_value finds without running a getter.
ValueIn(s, i, n) ==
    IF n \in i.dirty THEN None
    ELSE IF i.new[n] # None THEN (IF i.new[n] = DELETED THEN None ELSE i.new[n])
    ELSE s.state[n]

OldValue(s, n) == IF s.state[n] = None THEN DELETED ELSE s.state[n]

\* __set_new_value
SetNewValue(s, i, n, v) ==
    LET same == v = OldValue(s, n)
        gone == class.dependents[n]
    IN  [new   |-> [m \in Attributes |->
                      IF m \in gone THEN (IF s.state[m] = None THEN None ELSE DELETED)
                      ELSE IF m # n THEN i.new[m] ELSE IF same THEN None ELSE v],
         old   |-> [m \in Attributes |->
                      IF m \in gone THEN s.state[m]
                      ELSE IF m # n THEN i.old[m] ELSE IF same THEN None ELSE OldValue(s, n)],
         dirty |-> (i.dirty \ {n}) \cup gone]

\* What set_value and delete_value (v is DELETED) ask of an attribute.
MayDelete(s, i, n) == n \in Deletable /\ (n \in Stored => ValueIn(s, i, n) # None)
MaySet(s, i, n, v) ==
    /\ n \in Changeable \/ (n \in Stored /\ ValueIn(s, i, n) = None)
    /\ v \in Fabricable(n)

Accepts(s, i, n, v) == IF v = DELETED THEN MayDelete(s, i, n) ELSE MaySet(s, i, n, v)

\* They do not raise, and neither does what a delegate sets or deletes.
SettableOnce(s, i, n, v) ==
    Accepts(s, i, n, v) /\ Accepts(s, i, Target(n, v), Given(n, v))

SetOnce(s, i, n, v) == SetNewValue(s, i, Target(n, v), Given(n, v))

\* One value of an update: delete_value is followed by set_value, which deletes again.
Settable(s, i, n, v) ==
    SettableOnce(s, i, n, v) /\ (v = DELETED => SettableOnce(s, SetOnce(s, i, n, v), n, v))

SetValue(s, i, n, v) ==
    IF v = DELETED THEN SetOnce(s, SetOnce(s, i, n, v), n, v) ELSE SetOnce(s, i, n, v)

\* get_results: the getters of dirty attributes run, those attributes with the
\* fewest dependencies first; one that reads a missing value raises.
Results(s, i) ==
    LET names == Sorted(i.dirty)
        after[k \in 0..Len(names)] ==
          IF k = 0 THEN i
          ELSE LET j == after[k - 1]
                   n == names[k]
                   read == [d \in Dependencies[n] |-> ValueIn(s, j, d)]
               IN  IF n \in Delegating /\ \A d \in Dependencies[n] : read[d] # None
                   THEN SetNewValue(s, j, n, Getter(n, read))
                   ELSE j
    IN  after[Len(names)]

\* The intermediary after the first n of the values of an update are set.
ValuesSet(s, values) ==
    LET names == Sorted(DOMAIN values)
        after[n \in 0..Len(names)] ==
          IF n = 0 THEN Intermediary(s)
          ELSE SetValue(s, after[n - 1], names[n], values[names[n]])
    IN  after

ValuesSettable(s, values) ==
    LET names == Sorted(DOMAIN values)
        set   == ValuesSet(s, values)
    IN  \A n \in DOMAIN names : Settable(s, set[n - 1], names[n], values[names[n]])

-----------------------------------------------------------------------------
(* raw_update                                                              *)

\* The attribute adopts the value, whether it is delegated or not.
ChildAt(n, v) == Declared(n).relationship.child /\ v \in Kids

Changed(new) == {n \in Attributes : new[n] # None}

ValuesPut(new) == {new[n] : n \in {m \in Changed(new) : ChildAt(m, new[m])}}
ValuesGone(old) == {old[n] : n \in {m \in Changed(old) : ChildAt(m, old[m])}}

AttributesStateAfter(s, new) ==
    [n \in Attributes |-> IF new[n] = None THEN s.state[n]
                          ELSE IF new[n] = DELETED THEN None ELSE new[n]]

AttributesDataAfter(s, new) ==
    [n \in Attributes |-> IF new[n] = None \/ ~ Declared(n).relationship.data
                          THEN s.data[n]
                          ELSE IF new[n] = DELETED THEN None ELSE DataOf(new[n])]

\* Locations after the first n of the changed attributes, in the order in which
\* the dict of new values has them.
AttributesLocationsAfter(s, new, old, order) ==
    LET after[n \in 0..Len(order)] ==
          IF n = 0 THEN s.metadata
          ELSE LET m     == order[n]
                   prior == after[n - 1]
                   freed == IF ChildAt(m, old[m])
                            THEN [prior EXCEPT ![old[m]] = None] ELSE prior
               IN  IF ChildAt(m, new[m]) THEN [freed EXCEPT ![new[m]] = m] ELSE freed
    IN  after

RawUpdateAllowed(s, new, old, order) ==
    /\ \A n \in Changed(new) \cap Stored :
         /\ new[n] = DELETED => n \in Deletable
         /\ Declared(n).relationship.child /\ old[n] # DELETED => n \in Changeable
    /\ \A n \in DOMAIN order :
         ChildAt(order[n], old[order[n]]) =>
           AttributesLocationsAfter(s, new, old, order)[n - 1][old[order[n]]] # None
    /\ \A m, n \in Changed(new) : ChildAt(m, new[m]) /\ ChildAt(n, new[n]) /\ new[m] = new[n] => m = n
    /\ Admits(s, ValuesGone(old), ValuesPut(new))

RawUpdated(s, new, old, order) ==
    [state    |-> AttributesStateAfter(s, new),
     data     |-> AttributesDataAfter(s, new),
     metadata |-> AttributesLocationsAfter(s, new, old, order)[Len(order)],
     children |-> ChildrenAfter(s, ValuesGone(old), ValuesPut(new))]

AttributesUpdate(s, new, old, order) ==
    [type |-> "Update", new |-> new, old |-> old, order |-> order,
     from |-> s.state, to |-> RawUpdated(s, new, old, order).state]

AttributesUndoable(entry) ==
    RawUpdateAllowed(store, entry[1].old, entry[1].new, entry[1].order)
AttributesUndone(entry) ==
    RawUpdated(store, entry[1].old, entry[1].new, entry[1].order)
AttributesRedoable(entry) ==
    RawUpdateAllowed(store, entry[1].new, entry[1].old, entry[1].order)
AttributesRedone(entry) ==
    RawUpdated(store, entry[1].new, entry[1].old, entry[1].order)

-----------------------------------------------------------------------------
(* Methods of the object.                                                  *)

\* The intermediary of an update after all of its getters ran.
Outcome(s, values) == Results(s, ValuesSet(s, values)[Cardinality(DOMAIN values)])

\* The orders in which the dict of new values may have the attributes with
\* children; for the others the order makes no difference.
Orders(new) == SetToSeqs({n \in Changed(new) : Declared(n).relationship.child})

\* _update of attributes (DELETED: delete it)
Update(values) ==
    /\ DOMAIN values # {}
    /\ ValuesSettable(store, values)
    /\ LET i == Outcome(store, values)
       IN  \E order \in Orders(i.new) :
             /\ RawUpdateAllowed(store, i.new, i.old, order)
             /\ Record(RawUpdated(store, i.new, i.old, order),
                       <<AttributesUpdate(store, i.new, i.old, order)>>)

\* _set and _delete
PutAttribute(n, v) == Update([m \in {n} |-> v])
DeleteAttribute(n) == Update([m \in {n} |-> DELETED])

\* _clear
ClearAttributes ==
    Update([n \in {m \in Deletable : store.state[m] # None} |-> DELETED])

\* replace_child_data, at _locate_data of the child.
AttributeLocated(k) == store.metadata[k] # None

AttributeChildReplaced(k) ==
    IF k \notin store.children \/ ~ Declared(store.metadata[k]).relationship.data THEN store
    ELSE [store EXCEPT !.data[store.metadata[k]] = NewDataOf(k)]

-----------------------------------------------------------------------------
(* __init__, serialize, deserialize.                                       *)

NoAttributes == [state |-> [n \in Attributes |-> None], data |-> [n \in Attributes |-> None],
                 metadata |-> [k \in Kids |-> None], children |-> {}]

\* check_missing
NothingMissing(s) == \A n \in Required : s.state[n] # None

\* get_initial: attributes without a value get their default, the containers a
\* new object.
HasDefault(n) == Declared(n).default # UNSET

Defaults(n) == IF Declared(n).holds = UNSET THEN {Declared(n).default} ELSE Kids

Initials(values) ==
    LET left == {n \in Attributes \ DOMAIN values : HasDefault(n)}
    IN  {[n \in left \cup DOMAIN values |-> IF n \in left THEN f[n] ELSE values[n]] :
           f \in {g \in [left -> Values] : \A n \in left : g[n] \in Defaults(n)}}

\* The stores that an update of no attributes makes.
CreatedFrom(initial) ==
    LET put(i) == {RawUpdated(NoAttributes, i.new, i.old, order) :
                     order \in {o \in Orders(i.new) :
                                  RawUpdateAllowed(NoAttributes, i.new, i.old, o)}}
        stores == IF DOMAIN initial = {} THEN {NoAttributes}
                  ELSE UNION {put(i) : i \in {Outcome(NoAttributes, initial)}}
    IN  IF ValuesSettable(NoAttributes, initial) THEN {s \in stores : NothingMissing(s)}
        ELSE {}

\* The stores that __init__ and deserialize make.
Created(values) == UNION {CreatedFrom(initial) : initial \in Initials(values)}

AttributesInit ==
    /\ class \in Classes
    /\ \E names \in SUBSET Stored : \E values \in [names -> Values] :
         store \in Created(values)

\* (mutant) A value is deserialized to the attribute it was serialized from.
DeserializedInPlace(s) == [n \in {m \in Serialized : s.state[m] # None} |-> s.state[n]]

DeserializeTo(n) == Or(Declared(n).to, n)

\* What deserialize makes of what serialize returned.
Deserialized(s) ==
    LET names == {n \in Serialized : s.state[n] # None}
    IN  [n \in {DeserializeTo(m) : m \in names} |->
           s.state[CHOOSE m \in names : DeserializeTo(m) = n]]

\* The attributes that deserialize gives values to; those that depend on no others.
Loaded   == {DeserializeTo(n) : n \in Serialized} \cap Stored
Restored == Loaded \cup {n \in Delegating : class.flattened[n] \cap Stored \subseteq Loaded}

\* A value goes to an attribute that is read only (objects.py:631), or a required
\* one, or what it depends on, gets none.
ReloadRaises(s) ==
    \/ \E n \in Serialized : /\ s.state[n] # None
                            /\ DeserializeTo(n) \in Delegating
                            /\ DeserializeTo(n) \notin Changeable
    \/ \E n \in Required : \E m \in (({n} \cup class.flattened[n]) \cap Stored) \ Loaded :
         ~ HasDefault(m)

DefaultComesBack(s) == \E n \in Stored : HasDefault(n) /\ s.state[n] = None

-----------------------------------------------------------------------------
Names          == {n \in Attributes : n \in Changeable \cup Deletable \/ n \in Stored}
NewValues      == Values \cup {DELETED}
Updates        == UNION {[names -> NewValues] :
                           names \in {s \in SUBSET Names : Cardinality(s) = 2}}

AttributesCalls ==
    \/ \E values \in Updates : Update(values)
    \/ \E n \in Names, v \in Values : PutAttribute(n, v)
    \/ \E n \in Names : DeleteAttribute(n)
    \/ ClearAttributes

AttributesNext ==
    \/ MayChange /\ AttributesCalls
    \/ \E k \in Kids : (k \in store.children => AttributeLocated(k))
                       /\ ChildChanges(k, AttributeChildReplaced(k))
    \/ done # <<>> /\ AttributesUndoable(Last(done)) /\ UndoTo(AttributesUndone(Last(done)))
    \/ undone # <<>> /\ AttributesRedoable(Last(undone))
       /\ RedoTo(AttributesRedone(Last(undone)))

-----------------------------------------------------------------------------
(* What the properties of Objects say of attributes.                       *)

AttributesDataExact(s) ==
    \A n \in Attributes : s.data[n] = IF Declared(n).relationship.data /\ s.state[n] # None
                                      THEN DataOf(s.state[n]) ELSE None

AttributesLocationsExact(s) ==
    \A c \in Kids : IF c \in s.children THEN s.metadata[c] # None /\ s.state[s.metadata[c]] = c
                    ELSE s.metadata[c] = None

AttributesAdopt(s) == {s.state[n] : n \in {m \in Attributes : ChildAt(m, s.state[m])}}

AttributesReplays(c) ==
    \A n \in Attributes :
        /\ c.to[n] = IF c.new[n] = None THEN c.from[n]
                     ELSE IF c.new[n] = DELETED THEN None ELSE c.new[n]
        /\ c.old[n] # None => c.from[n] = IF c.old[n] = DELETED THEN None ELSE c.old[n]

\* A delegated attribute has the value its getter returns, or none.
DelegatesCurrent(s) ==
    \A n \in Delegating :
        LET read == [d \in Dependencies[n] |-> s.state[d]]
        IN  s.state[n] = IF \A d \in Dependencies[n] : read[d] # None
                         THEN Getter(n, read) ELSE None

\* Going back deletes what may not be deleted or changes what may not be.
CannotGoBack(entry) ==
    LET c == entry[1]
    IN  /\ c.type = "Update"
        /\ \E n \in Stored : c.old[n] = DELETED /\ (n \notin Deletable \/ n \notin Changeable)

ChildComesBeforeItLeaves(new, old, order) ==
    \E i, j \in DOMAIN order :
        i < j /\ ChildAt(order[i], new[order[i]]) /\ old[order[j]] = new[order[i]]
=============================================================================
