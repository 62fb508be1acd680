-------------------------------- MODULE Data --------------------------------
(***************************************************************************)
(* Immutable data (objetto/_data/data.py): classes that derive from each   *)
(* other, an instance of the last one, and what its operations return.     *)
(***************************************************************************)
EXTENDS DataClasses

CONSTANTS
    Convert,     \* what a factory makes of a plain value
    Roots,       \* bodies of a class without bases
    Overrides,   \* bodies of a class that has one
    Contents,    \* elements of the containers a program makes, by the base of their class
    Other,       \* the name of a class of containers that is of no attribute
    MaxClasses   \* (bound) classes that derive from each other

VARIABLES
    classes,     \* the bodies of the classes, each the base of the next
    datum        \* the state of the instance of the last one, or UNSET

vars == <<classes, datum>>

Current == Attributes(classes)

-----------------------------------------------------------------------------
(* What a program declares and the containers it makes are as              *)
(* DataDeclarations says; a factory makes plain values of plain values.    *)

Relationships == [typed : BOOLEAN, checked : BOOLEAN, factory : BOOLEAN, serialized : BOOLEAN]

IsElements(base, elements) ==
    IF base \in SetBases
    THEN DOMAIN elements \subseteq PlainValues /\ elements = Members(DOMAIN elements)
    ELSE elements \in [DOMAIN elements -> PlainValues]

\* A class of containers that an attribute holds, and a value they are made of.
IsContainerClass(class) ==
    class \in [id : {class.id}, base : DOMAIN Contents, relationship : Relationships]

IsSource(class, value) ==
    /\ value = [class |-> value.class, elements |-> value.elements]
    /\ IsElements(class.base, value.elements)

AttributeSound(a) ==
    /\ a \in [relationship : Relationships, holds : {a.holds}, default : {a.default},
              required : BOOLEAN, changeable : BOOLEAN, deletable : BOOLEAN,
              finalized : BOOLEAN, abstracted : BOOLEAN]
    /\ ~ (a.required /\ a.deletable)
    /\ a.holds = UNSET => a.default \in PlainValues \cup {UNSET}
    /\ a.holds # UNSET =>
         /\ IsContainerClass(a.holds)
         /\ a.relationship.factory
         /\ a.default # UNSET => IsSource(a.holds, a.default)

ASSUME DataAssumption ==
    /\ UNSET \notin PlainValues
    /\ Convert \in [PlainValues -> PlainValues]
    /\ \A base \in DOMAIN Contents : \A e \in Contents[base] : IsElements(base, e)
    /\ \A body \in Roots \cup Overrides :
         /\ DOMAIN body \subseteq Names
         /\ \A n \in DOMAIN body : IsAttribute(body[n]) =>
              /\ AttributeSound(body[n])
              /\ \A v \in PlainValues : IsAttribute(Overriding(body[n], v))

-----------------------------------------------------------------------------
(* Values.                                                                 *)

Converted(r, v, factory) == IF factory /\ r.factory THEN Convert[v] ELSE v

\* The initial state of a container of a class.
ElementsOf(class, elements, factory) ==
    IF class.base \in SetBases
    THEN Members({Converted(class.relationship, v, factory) : v \in DOMAIN elements})
    ELSE [i \in DOMAIN elements |-> Converted(class.relationship, elements[i], factory)]

Container(class, elements, factory) ==
    [class |-> class, elements |-> ElementsOf(class, elements, factory)]

\* dict_factory, list_factory, set_factory: one of the class itself stays as it is.
ContainerFactory(class, value) ==
    IF value.class = class THEN value ELSE Container(class, value.elements, TRUE)

\* BaseRelationship.fabricate_value
Fabricated(attribute, value) ==
    IF attribute.holds = UNSET THEN Converted(attribute.relationship, value, TRUE)
                               ELSE ContainerFactory(attribute.holds, value)

\* serialize_value and deserialize_value
SerializedValue(attribute, value) ==
    IF attribute.holds = UNSET THEN value ELSE Builtin(value.elements)

\* (mutant) The factory converts again what it converted before.
DeserializedAnew(attribute, value) ==
    IF attribute.holds = UNSET THEN Converted(attribute.relationship, value, TRUE)
                               ELSE Container(attribute.holds, value.elements, TRUE)

DeserializedValue(attribute, value) ==
    IF attribute.holds = UNSET THEN value
                               ELSE Container(attribute.holds, value.elements, FALSE)

-----------------------------------------------------------------------------
(* The states of an instance.                                              *)

Missing(attributes, initial) ==
    {n \in DOMAIN attributes \ DOMAIN initial :
        attributes[n].required /\ attributes[n].default = UNSET}

\* __get_initial_state
InitialState(attributes, initial) ==
    Overlay(initial,
            [n \in {m \in DOMAIN attributes \ DOMAIN initial : attributes[m].default # UNSET} |->
                Fabricated(attributes[n], attributes[n].default)])

Serialized(attributes, state) ==
    [n \in {m \in DOMAIN state : attributes[m].relationship.serialized} |->
        SerializedValue(attributes[n], state[n])]

Deserialized(attributes, serialized) ==
    [n \in DOMAIN serialized |-> DeserializedValue(attributes[n], serialized[n])]

-----------------------------------------------------------------------------
Init == classes = <<>> /\ datum = UNSET

\* A class statement, of a class whose base is the last one.
Define(body) ==
    /\ datum = UNSET
    /\ Len(classes) < MaxClasses
    /\ BodyAccepted(classes, body)
    /\ classes' = WithClass(classes, body)
    /\ UNCHANGED datum

\* __init__
Make(initial) ==
    /\ datum = UNSET /\ classes # <<>>
    /\ ~ IsAbstract(classes)
    /\ Missing(Current, initial) = {}
    /\ datum' = InitialState(Current, [n \in DOMAIN initial |-> Fabricated(Current[n], initial[n])])
    /\ UNCHANGED classes

\* deserialize
Deserialize(serialized) ==
    /\ datum = UNSET /\ classes # <<>>
    /\ ~ IsAbstract(classes)
    /\ \A n \in DOMAIN serialized : Current[n].relationship.serialized
    /\ Missing(Current, serialized) = {}
    /\ datum' = InitialState(Current, Deserialized(Current, serialized))
    /\ UNCHANGED classes

MayChange(n) == Current[n].changeable \/ n \notin DOMAIN datum

\* _set and _update
Update(values) ==
    /\ datum # UNSET
    /\ \A n \in DOMAIN values : MayChange(n)
    /\ datum' = Overlay([n \in DOMAIN values |-> Fabricated(Current[n], values[n])], datum)
    /\ UNCHANGED classes

\* (mutant) Whether it is deletable is not asked.
AlwaysDeletable(n) == TRUE

Deletable(n) == Current[n].deletable

Without(names) == [n \in DOMAIN datum \ names |-> datum[n]]

\* _delete
Delete(n) ==
    /\ datum # UNSET /\ n \in DOMAIN datum
    /\ Deletable(n)
    /\ datum' = Without({n})
    /\ UNCHANGED classes

\* _clear
Clear ==
    /\ datum # UNSET
    /\ \E n \in DOMAIN datum : Current[n].deletable
    /\ datum' = Without({n \in DOMAIN datum : Current[n].deletable})
    /\ UNCHANGED classes

-----------------------------------------------------------------------------
(* What a program gives an attribute: for one that holds containers, one   *)
(* of the language, of its own class, or of another one.                   *)

Inputs(attribute) ==
    IF attribute.holds = UNSET THEN PlainValues
    ELSE LET class == attribute.holds
         IN  UNION {{Builtin(e), [class |-> class, elements |-> e],
                     [class |-> [class EXCEPT !.id = Other], elements |-> e]} :
                    e \in Contents[class.base]}

SerializedInputs(attribute) ==
    IF attribute.holds = UNSET THEN PlainValues
                               ELSE {Builtin(e) : e \in Contents[attribute.holds.base]}

Dicts(names, inputs(_)) ==
    UNION {{f \in [ns -> UNION {inputs(Current[n]) : n \in ns}] :
              \A n \in ns : f[n] \in inputs(Current[n])} : ns \in SUBSET names}

Next ==
    \/ \E body \in IF classes = <<>> THEN Roots ELSE Overrides : Define(body)
    \/ \E initial \in Dicts(DOMAIN Current, Inputs) : Make(initial)
    \/ \E serialized \in Dicts(DOMAIN Current, SerializedInputs) : Deserialize(serialized)
    \/ \E values \in Dicts(DOMAIN Current, Inputs) : Update(values)
    \/ \E n \in DOMAIN Current : Delete(n)
    \/ Clear

Spec == Init /\ [][Next]_vars

-----------------------------------------------------------------------------
(* Properties.                                                             *)

\* An instance has values of attributes of its class only, and an attribute that
\* holds containers has one of exactly its own class, whatever it was given: the
\* factories convert those of the language and of other classes.
Typed ==
    datum # UNSET =>
        /\ DOMAIN datum \subseteq DOMAIN Current
        /\ \A n \in DOMAIN datum :
             IF Current[n].holds = UNSET THEN datum[n] \in PlainValues
             ELSE /\ datum[n].class = Current[n].holds
                  /\ \A i \in DOMAIN datum[n].elements : datum[n].elements[i] \in PlainValues

\* An instance is typed, and what it must have it has from the time it was made, by
\* __init__ or by deserialize, to the last of its operations; also if the attribute
\* overrides one that was optional or deletable.
Complete ==
    /\ Typed
    /\ datum # UNSET => \A n \in DOMAIN Current : Current[n].required => n \in DOMAIN datum

\* No class redefines what any of its bases declares final, be it an attribute or a
\* plain value, and however many classes there are between them.
FinalsStand ==
    \A j \in DOMAIN classes : \A i \in 1..j - 1 : \A n \in DOMAIN classes[i] :
        IsAttribute(classes[i][n]) /\ classes[i][n].finalized => n \notin DOMAIN classes[j]

\* The classes that declare, and promise to all that derive from them, that a name
\* does not change once it has a value.  It takes a checked relationship of every
\* declaration since, and no abstract one before: an implementation of an abstract
\* attribute promises nothing, since what overrides it is compared with the abstract one.
Promises(n) ==
    {i \in DOMAIN classes :
        /\ n \in DOMAIN classes[i] /\ IsAttribute(classes[i][n])
        /\ ~ classes[i][n].changeable
        /\ \A j \in i..Len(classes) :
             n \in DOMAIN classes[j] =>
                IsAttribute(classes[j][n]) /\ classes[j][n].relationship.checked
        /\ \A j \in 1..i - 1 :
             n \in DOMAIN classes[j] => ~ (IsAttribute(classes[j][n]) /\ classes[j][n].abstracted)}

\* What a class promises not to change does not change in an instance of a class that
\* derives from it, however far: no operation returns data with another value.
PromisesKept ==
    [][\A n \in Names :
         Promises(n) # {} /\ datum # UNSET
           => (n \in DOMAIN datum /\ n \in DOMAIN datum' => datum'[n] = datum[n])]_vars

\* What was serialized is the same after it is deserialized: nothing is converted a
\* second time.  What is not serialized has its default, or none; deserialize refuses
\* only if that is required.
ReloadsTheSame ==
    datum # UNSET =>
        LET serialized == Serialized(Current, datum)
            reloaded == InitialState(Current, Deserialized(Current, serialized))
            kept == {n \in DOMAIN datum : Current[n].relationship.serialized}
        IN  IF Missing(Current, serialized) = {}
            THEN /\ \A n \in kept : n \in DOMAIN reloaded /\ reloaded[n] = datum[n]
                 /\ \A n \in DOMAIN reloaded \ kept : Current[n].default # UNSET
            ELSE \E n \in DOMAIN Current :
                    Current[n].required /\ ~ Current[n].relationship.serialized
=============================================================================
