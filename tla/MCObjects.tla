------------------------------ MODULE MCObjects ------------------------------
(***************************************************************************)
(* Objects with two kids, one plain value and two keys; containers whose   *)
(* values are children, children without data, or no children; and         *)
(* classes of objects with                                                 *)
(*   - five attributes: a is required, b may be deleted, c may be set      *)
(*     once and has no data; d1 is read only, reads b and is deserialized  *)
(*     to it; d2 reads a and d1 and sets a;                                *)
(*   - three: deleting r sets c, setting r deletes b;                      *)
(*   - a protected attribute and its public one, and a constant;           *)
(*   - the proxy and the container of a pair, and an attribute that holds  *)
(*     another container.                                                  *)
(***************************************************************************)
EXTENDS Objects

CONSTANTS p

Nothing ==
    [child |-> TRUE, serialized |-> UNSET, history |-> UNSET, data |-> UNSET,
     default |-> UNSET, required |-> UNSET, changeable |-> UNSET, deletable |-> UNSET,
     metadata |-> UNSET, protectedMetadata |-> UNSET, reactions |-> <<>>]

Childless == [Nothing EXCEPT !.child = FALSE]
Dataless  == [Nothing EXCEPT !.data = FALSE]

MCArguments == {Nothing, Childless, Dataless}

Optional(arg) == [arg EXCEPT !.required = FALSE]

FiveAttributes(arg) ==
    LET read == Delegated(AttributeDeclared(Optional(arg)), {"b"}, "b", NoMethod, NoMethod)
    IN  "a" :> AttributeDeclared(arg)
        @@ "b" :> AttributeDeclared([Optional(Childless) EXCEPT !.deletable = TRUE])
        @@ "c" :> AttributeDeclared([Optional(arg) EXCEPT !.changeable = FALSE,
                                                         !.data = IF arg.child THEN FALSE ELSE UNSET])
        @@ "d1" :> [read EXCEPT !.to = IF read.relationship.serialized THEN "b" ELSE UNSET]
        @@ "d2" :> Delegated(AttributeDeclared(Optional(Childless)), {"a", "d1"}, "a",
                            [NoMethod EXCEPT !.target = "a"], NoMethod)

Resets ==
    "b" :> AttributeDeclared([Optional(Nothing) EXCEPT !.deletable = TRUE])
    @@ "c" :> AttributeDeclared(Optional(Childless))
    @@ "r" :> Delegated(AttributeDeclared(Childless), {"c"}, "c",
                        [target |-> "b", value |-> DELETED], [target |-> "c", value |-> p])

Pair(arg) == ProtectedAttributePair("_v", "v", arg) @@ "k" :> ConstantAttribute(p, Childless)

Hidden == [Nothing EXCEPT !.serialized = TRUE]

Containers(pair, attribute) == pair @@ "m" :> attribute

Replaceable == [Nothing EXCEPT !.deletable = TRUE]

MCPairs == {ObjectClass(Pair(arg)) : arg \in {Nothing, [Nothing EXCEPT !.default = p], Hidden}}

MCClasses ==
    {ObjectClass(FiveAttributes(arg)) : arg \in {Nothing}}
    \cup MCPairs \cup {ObjectClass(Resets)}
    \cup {ObjectClass(Containers(ProtectedListAttributePair("_l", "l", Nothing),
                                 DictAttribute(Replaceable))),
          ObjectClass(Containers(ProtectedDictAttributePair("_l", "l", Childless),
                                 SetAttribute(Replaceable))),
          ObjectClass(Containers(ProtectedSetAttributePair("_l", "l", Nothing),
                                 ListAttribute([Childless EXCEPT !.changeable = FALSE])))}

MCMaxChanges == [k \in Kinds |-> 2]
MCIndices    == {-2, 1, 3}

KidsAlike == Permutations(Kids)
==============================================================================
