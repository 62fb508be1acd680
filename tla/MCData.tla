------------------------------- MODULE MCData -------------------------------
(***************************************************************************)
(* Small instance of Data: every kind of attribute overrides every other   *)
(* one in chains of three classes; containers of every base in chains of   *)
(* one or two.                                                             *)
(***************************************************************************)
EXTENDS Data

CONSTANTS u, v

MCPlainValues == {u, v}
MCConvert == (u :> v) @@ (v :> u)

MCContents ==
    [b \in {"DictData", "InteractiveDictData", "ListData", "InteractiveListData"} |->
        {<<>>, <<u>>, <<v, u>>}]
    @@ [b \in SetBases |-> {<<>>, Members({u}), Members({u, v})}]

Declared ==
    {a \in [id : {"own"}, typed : BOOLEAN, checked : {UNSET, FALSE}, factory : {FALSE},
            serialized : {UNSET}, default : {UNSET, u}, required : {TRUE, FALSE},
            changeable : BOOLEAN, deletable : BOOLEAN, finalized : BOOLEAN, abstracted : BOOLEAN] :
        DataAttributeAccepts(a) /\ (a.typed \/ a.checked = UNSET)
        /\ (a.changeable => a.default = UNSET)
        /\ (a.finalized => a.typed /\ a.checked = UNSET)}

Bodies(attributes) == {"x" :> a : a \in attributes}

Plain == [id |-> "own", typed |-> TRUE, checked |-> UNSET, factory |-> FALSE, serialized |-> UNSET,
          default |-> UNSET, required |-> UNSET, changeable |-> UNSET, deletable |-> UNSET,
          finalized |-> FALSE, abstracted |-> FALSE]

Converting == {[Plain EXCEPT !.factory = TRUE, !.serialized = s, !.default = d, !.required = FALSE] :
                  s \in {UNSET, FALSE}, d \in {UNSET, u}}

Containers ==
    LET A == {[Plain EXCEPT !.factory = f, !.serialized = s, !.required = r, !.changeable = c] :
                 f \in BOOLEAN, s \in {UNSET, FALSE}, r \in {UNSET, TRUE}, c \in {UNSET, FALSE}}
    IN  {DataDictAttribute(a) : a \in A} \cup {DataProtectedListAttribute(a) : a \in A}
        \cup {DataSetAttribute(a) : a \in A}

Others == {DataProtectedDictAttribute(Plain), DataListAttribute(Plain),
           DataProtectedSetAttribute(Plain)}

MCRoots ==
    Bodies({DataAttributeDeclared(a) : a \in Declared \cup Converting}
             \cup {DataConstantAttribute(u, Plain)} \cup Containers \cup Others)

MCOverrides ==
    Bodies({DataAttributeDeclared(a) : a \in {b \in Declared : b.changeable \/ b.default = u}})
    \cup {"x" :> v, NoMembers} \cup {"y" :> DataAttributeDeclared([Plain EXCEPT !.required = FALSE])}
=============================================================================
