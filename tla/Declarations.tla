---------------------------- MODULE Declarations ----------------------------
(***************************************************************************)
(* How a program declares the attributes of a class and the classes of     *)
(* containers (objetto/objects.py), and what the metaclass of Object makes *)
(* of the attributes in a class body (objetto/_objects/object.py).         *)
(*                                                                         *)
(* The arguments of a declaration are a record of those the models tell    *)
(* apart; UNSET stands for the value an argument has if none is given.     *)
(* Names of types and modules, factories and batch names are left out.     *)
(***************************************************************************)
EXTENDS Integers, SequencesExt

CONSTANTS UNSET

Flags == BOOLEAN \cup {UNSET}

\* An argument, or what it is if none is given.
Or(argument, otherwise) == IF argument = UNSET THEN otherwise ELSE argument

-----------------------------------------------------------------------------
(* Relationship.__init__                                                   *)

Hierarchical == {"serialized", "history", "data"}

\* What has no children is not serialized, has no data and no common history.
RelationshipAccepts(a) == a.child \/ \A f \in Hierarchical : a[f] = UNSET

Relationship(a) ==
    [child      |-> a.child,
     serialized |-> a.child /\ Or(a.serialized, TRUE),
     history    |-> a.child /\ Or(a.history, TRUE),
     data       |-> a.child /\ Or(a.data, TRUE)]

-----------------------------------------------------------------------------
(* dict_cls, list_cls, set_cls and the protected ones: a class of objects  *)
(* with one relationship to their values, and reactions in order.          *)

\* _prepare_reactions: those that are none leave a gap in the priorities.
PreparedReactions(a) == [i \in {j \in DOMAIN a.reactions : a.reactions[j] # UNSET} |->
                           [reaction |-> a.reactions[i], priority |-> i - 1]]

ContainerClass(base, a) ==
    [base |-> base, relationship |-> Relationship(a), reactions |-> PreparedReactions(a)]

DictCls(a)          == ContainerClass("MutableDictObject", a)
ProtectedDictCls(a) == ContainerClass("DictObject", a)
ListCls(a)          == ContainerClass("MutableListObject", a)
ProtectedListCls(a) == ContainerClass("ListObject", a)
SetCls(a)           == ContainerClass("MutableSetObject", a)
ProtectedSetCls(a)  == ContainerClass("SetObject", a)

-----------------------------------------------------------------------------
(* Attributes.  holds is the class of the containers an attribute holds,   *)
(* to the attribute that its serialized value goes to (itself if none is   *)
(* given).  A getter returns one of its dependencies; a setter or deleter  *)
(* gives its target a value, or what it was given itself if value is UNSET *)
(* (deleting is setting to DELETED).                                       *)

NoMethod == [target |-> UNSET, value |-> UNSET]

Delegates == [delegated |-> FALSE, dependencies |-> {}, returns |-> UNSET,
              setter |-> NoMethod, deleter |-> NoMethod]

Attribute(r, a) ==
    [relationship |-> r, holds |-> UNSET,
     default |-> a.default, required |-> Or(a.required, TRUE),
     changeable |-> Or(a.changeable, TRUE), deletable |-> Or(a.deletable, FALSE),
     delegates |-> Delegates, to |-> UNSET, metadata |-> a.metadata]

\* BaseAttribute.__init__ and Attribute.__init__
AttributeAccepts(a) == RelationshipAccepts(a) /\ ~ (Or(a.required, TRUE) /\ Or(a.deletable, FALSE))

AttributeDeclared(a) == Attribute(Relationship(a), a)

\* An attribute with delegates is changeable if it has a setter, and deletable if
\* it has a deleter, required or not.
Delegated(attribute, dependencies, returns, setter, deleter) ==
    [attribute EXCEPT
        !.delegates = [delegated |-> TRUE, dependencies |-> dependencies,
                       returns |-> returns, setter |-> setter, deleter |-> deleter],
        !.changeable = setter # NoMethod, !.deletable = deleter # NoMethod]

ConstantAttribute(value, a) ==
    Attribute(Relationship([a EXCEPT !.child = TRUE, !.history = FALSE,
                                     !.serialized = Or(a.serialized, FALSE)]),
              [a EXCEPT !.default = value, !.required = FALSE,
                        !.changeable = FALSE, !.deletable = FALSE])

\* Of a pair, by its names: the protected attribute has the value, the public one
\* is read only, is the child, and is serialized; it is deserialized to the
\* protected one if that was asked for.
ProtectedAttributePair(protected, public, a) ==
    protected :>
      AttributeDeclared([a EXCEPT !.child = FALSE, !.serialized = UNSET, !.history = UNSET,
                                  !.data = UNSET, !.required = FALSE,
                                  !.metadata = a.protectedMetadata])
    @@ public :>
      [Delegated(AttributeDeclared([a EXCEPT !.default = UNSET, !.required = FALSE,
                                             !.changeable = UNSET, !.deletable = UNSET]),
                 {protected}, protected, NoMethod, NoMethod)
       EXCEPT !.to = IF a.serialized = TRUE THEN protected ELSE UNSET]

-----------------------------------------------------------------------------
(* Attributes that hold a container, which their factory makes of other    *)
(* values; the container is a child even if its values are not.            *)

ContainerDefault(a) ==
    IF Or(a.changeable, TRUE) /\ ~ Or(a.required, FALSE) /\ a.default = UNSET
    THEN <<>> ELSE a.default

ContainerAttribute(class, a) ==
    LET inner(flag) == IF a.child THEN flag ELSE FALSE
        r == Relationship([a EXCEPT !.child = TRUE, !.serialized = inner(a.serialized),
                                    !.history = inner(a.history), !.data = inner(a.data)])
    IN  [Attribute(r, [a EXCEPT !.default = ContainerDefault(a),
                                !.required = Or(a.required, FALSE)])
         EXCEPT !.holds = class]

DictAttribute(a)          == ContainerAttribute(DictCls(a), a)
ProtectedDictAttribute(a) == ContainerAttribute(ProtectedDictCls(a), a)
ListAttribute(a)          == ContainerAttribute(ListCls(a), a)
ProtectedListAttribute(a) == ContainerAttribute(ProtectedListCls(a), a)
SetAttribute(a)           == ContainerAttribute(SetCls(a), a)
ProtectedSetAttribute(a)  == ContainerAttribute(ProtectedSetCls(a), a)

\* What the protected container attributes of a pair are declared with.
HiddenContainer(a) ==
    [a EXCEPT !.default = Or(a.default, <<>>), !.required = FALSE, !.changeable = FALSE,
              !.deletable = FALSE, !.metadata = a.protectedMetadata]

\* The other one of the pair returns a proxy of the container, which changes it.
Proxy(public, a) ==
    Delegated(AttributeDeclared([a EXCEPT !.child = FALSE, !.serialized = UNSET,
                                          !.history = UNSET, !.data = UNSET, !.default = UNSET,
                                          !.required = FALSE, !.changeable = UNSET,
                                          !.deletable = UNSET]),
              {public}, public, NoMethod, NoMethod)

ProtectedDictAttributePair(protected, public, a) ==
    protected :> Proxy(public, a) @@ public :> ProtectedDictAttribute(HiddenContainer(a))
ProtectedListAttributePair(protected, public, a) ==
    protected :> Proxy(public, a) @@ public :> ProtectedListAttribute(HiddenContainer(a))
ProtectedSetAttributePair(protected, public, a) ==
    protected :> Proxy(public, a) @@ public :> ProtectedSetAttribute(HiddenContainer(a))

-----------------------------------------------------------------------------
(* ObjectMeta.__init__: the attributes of a class body by their names, with *)
(* dependencies of dependencies and what depends on what.                  *)

Closure(attributes) ==
    LET closure[i \in 0..Cardinality(DOMAIN attributes)] ==
          IF i = 0 THEN [n \in DOMAIN attributes |-> attributes[n].delegates.dependencies]
          ELSE LET deps == closure[i - 1]
               IN  [n \in DOMAIN attributes |-> deps[n] \cup UNION {deps[m] : m \in deps[n]}]
    IN  closure[Cardinality(DOMAIN attributes)]

\* (mutant) Only those that depend on it directly.
DirectDependents(attributes) ==
    [n \in DOMAIN attributes |->
       {m \in DOMAIN attributes : n \in attributes[m].delegates.dependencies}]

Dependents(attributes) ==
    [n \in DOMAIN attributes |-> {m \in DOMAIN attributes : n \in Closure(attributes)[m]}]

\* Some of the attributes, those with the fewest dependencies first.
ByDependencies(attributes) ==
    LET flattened == Closure(attributes)
    IN  [names \in SUBSET DOMAIN attributes |->
           CHOOSE order \in SetToSeqs(names) : \A i, j \in DOMAIN order :
               i < j => Cardinality(flattened[order[i]]) <= Cardinality(flattened[order[j]])]

ObjectClass(attributes) ==
    [attributes |-> attributes, flattened |-> Closure(attributes),
     dependents |-> Dependents(attributes), sorted |-> ByDependencies(attributes)]

\* Dependencies are attributes that were made before, so there is an order.
MadeInOrder(attributes) ==
    \E made \in SetToSeqs(DOMAIN attributes) : \A i \in DOMAIN made :
        attributes[made[i]].delegates.dependencies \subseteq {made[j] : j \in 1..(i - 1)}

\* What __init__ of Relationship, Attribute and ObjectMeta refuse otherwise.
ClassAccepted(attributes) ==
    /\ IsFiniteSet(DOMAIN attributes)
    /\ MadeInOrder(attributes)
    /\ \A n \in DOMAIN attributes :
        LET a == attributes[n]
        IN  /\ a.delegates.dependencies \subseteq DOMAIN attributes
            /\ ~ a.delegates.delegated => a.delegates.dependencies = {}
            /\ a.delegates.delegated => a.delegates.returns \in a.delegates.dependencies
            /\ a.deletable /\ ~ a.delegates.delegated => ~ a.required
            /\ a.relationship.data => a.relationship.child
            /\ a.to # UNSET => a.relationship.serialized /\ ~ attributes[a.to].relationship.serialized
=============================================================================
