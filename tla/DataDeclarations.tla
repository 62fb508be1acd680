-------------------------- MODULE DataDeclarations --------------------------
(***************************************************************************)
(* How a program declares the attributes of a class of immutable data and  *)
(* the classes of immutable containers (objetto/data.py).                  *)
(*                                                                         *)
(* As in Declarations, the arguments are a record of those the models tell *)
(* apart.  A container is the class it is an instance of (UNSET if it is   *)
(* one of the language) and its elements, a function of indices or keys;   *)
(* those of a set are a function of the members to themselves.             *)
(***************************************************************************)
EXTENDS Declarations

\* DataRelationship.__init__ and what it inherits
DataRelationshipAccepts(a) == ~ a.typed => a.checked # TRUE

DataRelationship(a) ==
    [typed |-> a.typed, checked |-> Or(a.checked, a.typed), factory |-> a.factory,
     serialized |-> Or(a.serialized, TRUE)]

-----------------------------------------------------------------------------
(* Classes of containers.  Every declaration makes a class of its own,     *)
(* named by its argument id.                                               *)

DataContainerClass(base, a) == [id |-> a.id, base |-> base, relationship |-> DataRelationship(a)]

DataDictCls(a)          == DataContainerClass("InteractiveDictData", a)
DataProtectedDictCls(a) == DataContainerClass("DictData", a)
DataListCls(a)          == DataContainerClass("InteractiveListData", a)
DataProtectedListCls(a) == DataContainerClass("ListData", a)
DataSetCls(a)           == DataContainerClass("InteractiveSetData", a)
DataProtectedSetCls(a)  == DataContainerClass("SetData", a)

SetBases == {"SetData", "InteractiveSetData"}
Members(s) == [v \in s |-> v]

Builtin(elements) == [class |-> UNSET, elements |-> elements]

-----------------------------------------------------------------------------
(* Attributes.  holds is the class of the containers of an attribute.      *)

\* BaseAttribute.__init__
DataAttributeAccepts(a) ==
    /\ DataRelationshipAccepts(a)
    /\ ~ (a.finalized /\ a.abstracted)
    /\ ~ (Or(a.required, TRUE) /\ Or(a.deletable, FALSE))

DataAttribute(r, a) ==
    [relationship |-> r, holds |-> UNSET, default |-> a.default,
     required |-> Or(a.required, TRUE), changeable |-> Or(a.changeable, TRUE),
     deletable |-> Or(a.deletable, FALSE),
     finalized |-> a.finalized, abstracted |-> a.abstracted]

\* data_attribute
DataAttributeDeclared(a) == DataAttribute(DataRelationship(a), a)

\* data_constant_attribute
DataConstantAttribute(value, a) ==
    DataAttribute(DataRelationship([a EXCEPT !.typed = TRUE, !.factory = FALSE,
                                             !.serialized = Or(a.serialized, FALSE)]),
                  [a EXCEPT !.default = value, !.required = FALSE,
                            !.changeable = FALSE, !.deletable = FALSE])

\* BaseAttribute.constant
Constant(attribute) ==
    attribute.default # UNSET /\ ~ attribute.changeable /\ ~ attribute.relationship.factory

DataContainerDefault(a) ==
    IF Or(a.changeable, TRUE) /\ ~ Or(a.required, FALSE) /\ a.default = UNSET
    THEN Builtin(<<>>)
    ELSE a.default

DataContainerAttribute(class, a) ==
    [DataAttribute(DataRelationship([a EXCEPT !.typed = TRUE, !.factory = TRUE]),
                   [a EXCEPT !.default = DataContainerDefault(a),
                             !.required = Or(a.required, FALSE)])
     EXCEPT !.holds = class]

DataDictAttribute(a)          == DataContainerAttribute(DataDictCls(a), a)
DataProtectedDictAttribute(a) == DataContainerAttribute(DataProtectedDictCls(a), a)
DataListAttribute(a)          == DataContainerAttribute(DataListCls(a), a)
DataProtectedListAttribute(a) == DataContainerAttribute(DataProtectedListCls(a), a)
DataSetAttribute(a)           == DataContainerAttribute(DataSetCls(a), a)
DataProtectedSetAttribute(a)  == DataContainerAttribute(DataProtectedSetCls(a), a)
=============================================================================
