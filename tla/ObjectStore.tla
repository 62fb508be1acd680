----------------------------- MODULE ObjectStore -----------------------------
(***************************************************************************)
(* What the four kinds of objects with locations share: the store of one   *)
(* object, the values it may hold, their data, and the history that undoes *)
(* and redoes its changes.                                                 *)
(*                                                                         *)
(* The children an object does not hold have no parent (Hierarchy models   *)
(* the others); an operation that raises leaves everything as it was       *)
(* (Application shows that), so it is no step.  A list, set or dict has    *)
(* one relationship to its values, attributes have one each, in the class. *)
(***************************************************************************)
EXTENDS Declarations

CONSTANTS
    Arguments,     \* what a list, set or dict class may be declared with
    Kids,          \* values that are objects of the application
    Plain,         \* other values
    None,          \* Python's None; nothing at all
    MaxChanges     \* bound, per kind: changes to undo and to redo

VARIABLES
    kind,          \* what the object is: "list", "set", "dict", "attributes"
    class,         \* the class of the object, as Declarations make it
    store,         \* the store: [state, data, metadata, children]
    versions,      \* per kid, its own data, which is 0 or 1
    done,          \* entries that may be undone, last one last
    undone         \* entries that may be redone, next one last

fixed == <<kind, class>>
vars  == <<kind, class, store, versions, done, undone>>

Values == Kids \cup Plain

ASSUME ArgumentsAssumption == \A a \in Arguments : RelationshipAccepts(a)
ASSUME NoneAssumption == None \notin Values
ASSUME DataAssumption == None \notin Values \X {0, 1}

\* Of the object to its values, if it is a list, set or dict.
relationship == class.relationship

\* A value that is an object of the same application is a child.
IsChild(v)     == relationship.child /\ v \in Kids
ChildrenIn(vs) == {v \in vs : IsChild(v)}

\* fabricate_value of the data relationship: a child's own data, or the value.
DataOf(v) == <<v, IF v \in Kids THEN versions[v] ELSE 0>>

\* __pre_parent_check for one object: children that only leave are there,
\* those that only come are not.
Admits(s, leaving, coming) ==
    /\ \A c \in leaving \ coming : c \in s.children
    /\ \A c \in coming \ leaving : c \notin s.children

\* The part of __write that is about the children.
ChildrenAfter(s, leaving, coming) == (s.children \ leaving) \cup coming

-----------------------------------------------------------------------------
(* The history of the object.  An entry is what is undone at once: a       *)
(* sequence of changes, mostly of one (History models batches and more).   *)

MayChange == Len(done) + Len(undone) < MaxChanges[kind]

\* The changes of one call of the program.
Record(s, entry) ==
    /\ store' = s
    /\ done' = Append(done, entry)
    /\ undone' = <<>>
    /\ UNCHANGED <<fixed, versions>>

UndoTo(s) ==
    /\ store' = s
    /\ done' = Front(done)
    /\ undone' = Append(undone, Last(done))
    /\ UNCHANGED <<fixed, versions>>

RedoTo(s) ==
    /\ store' = s
    /\ done' = Append(done, Last(undone))
    /\ undone' = Front(undone)
    /\ UNCHANGED <<fixed, versions>>

\* What a step made, undid or redid; a change of no type otherwise.
Made   == Len(done') > Len(done)
Undid  == Len(done') < Len(done)
Entry  == IF Made THEN Last(done') ELSE IF Undid THEN Last(done) ELSE << [type |-> None] >>

\* The data of a child changes: its parent replaces what it holds of it.
ChildChanges(k, s) ==
    /\ store' = s
    /\ versions' = [versions EXCEPT ![k] = 1 - @]
    /\ UNCHANGED <<fixed, done, undone>>

NewDataOf(k) == <<k, 1 - versions[k]>>
=============================================================================
