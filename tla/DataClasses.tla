---------------------------- MODULE DataClasses ----------------------------
(***************************************************************************)
(* What the metaclasses make of the bodies of a chain of classes           *)
(* (BaseMeta.__init__ and BaseAttributeStructureMeta.__init__): which      *)
(* bodies they refuse, and the attributes of the class they accept.        *)
(*                                                                         *)
(* A body gives names an attribute or a plain value, which is a member     *)
(* that is not an attribute.                                               *)
(***************************************************************************)
EXTENDS DataDeclarations

CONSTANTS Names, PlainValues

\* f @@ g, written out for the provers: dict(g) updated with f.
Overlay(f, g) ==
    [x \in DOMAIN f \cup DOMAIN g |-> IF x \in DOMAIN f THEN f[x] ELSE g[x]]

NoMembers == [n \in {} |-> UNSET]
IsAttribute(member) == member \notin PlainValues

\* The constant with the value that a body gives its name.
Overriding(constant, value) == [constant EXCEPT !.default = value, !.abstracted = FALSE]

\* The members as the class has them: a plain value that overrides a constant
\* becomes a constant, if there is a check.
Resolved(checkedWith, body) ==
    [n \in DOMAIN body |->
        IF n \in DOMAIN checkedWith /\ ~ IsAttribute(body[n])
        THEN Overriding(checkedWith[n], body[n])
        ELSE body[n]]

-----------------------------------------------------------------------------
\* What the loop over the bases has found before the class: the attributes, the
\* abstract ones (which stay there if they are implemented), the final names.
NothingFound == [attributes |-> NoMembers, abstract |-> NoMembers, final |-> {}]

FoundWith(found, body) ==
    LET declared == {n \in DOMAIN body : IsAttribute(body[n])}
        which(names) == [n \in names |-> body[n]]
        inherited == [n \in DOMAIN found.attributes \ DOMAIN body |-> found.attributes[n]]
    IN  [attributes |-> Overlay(which(declared), inherited),
         abstract |-> Overlay(which({n \in declared : body[n].abstracted}), found.abstract),
         final |-> found.final \cup {n \in declared : body[n].finalized}]

Found(chain) ==
    LET found[i \in 0..Len(chain)] ==
          IF i = 0 THEN NothingFound ELSE FoundWith(found[i - 1], chain[i])
    IN  found[Len(chain)]

\* What a member is compared with: an abstract attribute of that name, even if it
\* has been implemented since, or the nearest one; nothing if neither is checked.
ComparedWith(found) ==
    [n \in {n \in DOMAIN found.attributes : found.attributes[n].relationship.checked}
          \cup {n \in DOMAIN found.abstract : found.abstract[n].relationship.checked} |->
        IF n \in DOMAIN found.abstract THEN found.abstract[n] ELSE found.attributes[n]]

\* (mutant) What may change may also be what the base does not change.
MayOverrideAll(other, member) ==
    IF IsAttribute(member) THEN other.relationship.typed => member.relationship.typed
                           ELSE Constant(other)

\* A member that is no attribute may override a constant; an attribute may not lift
\* a restriction, and may not be without types if the other has some.
MayOverride(other, member) ==
    IF IsAttribute(member)
    THEN /\ other.relationship.typed => member.relationship.typed
         /\ member.changeable => other.changeable
         /\ other.deletable => member.deletable
    ELSE Constant(other)

\* (mutant) The names of the direct base only.
FinalOfBase(chain) ==
    IF chain = <<>> THEN {} ELSE FoundWith(NothingFound, Last(chain)).final

FinalNames(chain) == Found(chain).final

BodyAccepted(chain, body) ==
    LET others == ComparedWith(Found(chain))
    IN  /\ DOMAIN body \cap FinalNames(chain) = {}
        /\ \A n \in DOMAIN body \cap DOMAIN others : MayOverride(others[n], body[n])

Attributes(chain)  == Found(chain).attributes
IsAbstract(chain)  == \E n \in DOMAIN Attributes(chain) : Attributes(chain)[n].abstracted
WithClass(chain, body) == Append(chain, Resolved(ComparedWith(Found(chain)), body))
=============================================================================
