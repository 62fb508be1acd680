------------------------------ MODULE DataProofs ------------------------------
(***************************************************************************)
(* Proofs about Data, for all plain values, factories, declarations and    *)
(* containers, and every length of a chain of classes: what the            *)
(* metaclasses find in the bases is what the classes declare, instances    *)
(* are complete, finals stand, promises are kept, and what is serialized   *)
(* is reloaded as it was.                                                  *)
(***************************************************************************)
EXTENDS Data, WellFoundedInduction, SequenceTheorems, TLAPS

-----------------------------------------------------------------------------
(* Induction.                                                              *)

LEMMA LeastNumber ==
    ASSUME NEW T \in SUBSET Nat, T # {}
    PROVE  \E x \in T : \A y \in T : x <= y
  <1> DEFINE R == OpToRel(<, Nat)
  <1>1. IsWellFoundedOn(R, Nat)
    BY NatLessThanWellFounded
  <1>2. \A x, y \in Nat : <<x, y>> \in R <=> x < y
    BY DEF OpToRel
  <1> HIDE DEF R
  <1>3. \E x \in T : \A y \in T : ~ (<<y, x>> \in R)
    BY <1>1, WFMin
  <1>4. \A x, y \in T : <<y, x>> \in R <=> y < x
    BY <1>2
  <1>5. \A x, y \in T : ~ (y < x) => x <= y
    OBVIOUS
  <1> QED BY <1>3, <1>4, <1>5

LEMMA Induct ==
    ASSUME NEW S, 0 \in S, \A n \in Nat : n \in S => n + 1 \in S
    PROVE  \A n \in Nat : n \in S
  <1> DEFINE T == {n \in Nat : n \notin S}
  <1> SUFFICES ASSUME T # {} PROVE FALSE
    OBVIOUS
  <1>1. PICK x \in T : \A y \in T : x <= y
    BY LeastNumber
  <1>2. x # 0 /\ x - 1 \in Nat /\ x - 1 \notin T
    BY <1>1
  <1> QED BY <1>2

LEMMA ZeroOnly == 0..0 = {0} /\ \A n \in Nat : 0 \in 0..n
  OBVIOUS

LEMMA Below == \A n \in Nat : \A k \in 0..(n + 1) : k = 0 \/ (k # 0 /\ k - 1 \in 0..n)
  OBVIOUS

LEMMA OneFurther ==
    \A n \in Nat : /\ \A k \in 0..(n + 1) : \/ k = n + 1
                                            \/ k \in 0..n /\ k # n + 1
                   /\ n + 1 \in 0..(n + 1) /\ n + 1 # 0
                   /\ n + 1 \notin 0..n /\ n \in 0..n /\ (n + 1) - 1 = n
  OBVIOUS

-----------------------------------------------------------------------------
(* Chains of classes.                                                      *)

IsChain(s) == s \in Seq(Range(s))

LEMMA ChainIs ==
    ASSUME NEW s, IsChain(s)
    PROVE  Len(s) \in Nat /\ DOMAIN s = 1..Len(s)
  BY DEF IsChain

LEMMA EmptyChain == IsChain(<<>>) /\ Len(<<>>) = 0 /\ DOMAIN <<>> = {}
  BY DEF IsChain

LEMMA Appended ==
    ASSUME NEW s, IsChain(s), NEW b, NEW t, t = Append(s, b)
    PROVE  /\ IsChain(t) /\ Len(t) = Len(s) + 1
           /\ \A i \in 1..Len(s) : t[i] = s[i]
           /\ t[Len(s) + 1] = b
           /\ DOMAIN t = 1..(Len(s) + 1)
  <1> DEFINE S == Range(s) \cup {b}
  <1>1. s \in Seq(Range(s)) /\ Range(s) \subseteq S /\ b \in S
    BY DEF IsChain
  <1> HIDE DEF S
  <1>2. s \in Seq(S)
    BY <1>1
  <1>3. /\ t \in Seq(S) /\ Len(t) = Len(s) + 1
        /\ \A i \in 1..Len(s) : t[i] = s[i]
        /\ t[Len(s) + 1] = b
        /\ DOMAIN t = 1..(Len(s) + 1)
    BY <1>1, <1>2
  <1>4. \A i \in 1..Len(t) : t[i] \in Range(t)
    BY <1>3 DEF Range
  <1>5. t \in Seq(Range(t))
    BY <1>3, <1>4
  <1> QED BY <1>3, <1>5 DEF IsChain

-----------------------------------------------------------------------------
(* The loop over the bases.                                                *)

\* The definition of found in Found.
Finding(chain, f, i) == IF i = 0 THEN NothingFound ELSE FoundWith(f[i - 1], chain[i])

\* f is what the loop has found after each of the first N classes.
Finds(chain, N, f) ==
    f[0] = NothingFound /\ \A k \in 1..N : f[k] = FoundWith(f[k - 1], chain[k])

\* The recursion is one: there is a function as it says.
LEMMA Looping ==
    ASSUME NEW chain, NEW N \in Nat
    PROVE  \E f : f = [i \in 0..N |-> Finding(chain, f, i)]
  <1> DEFINE S == {n \in Nat : \E f : f = [i \in 0..n |-> Finding(chain, f, i)]}
  <1>1. 0 \in S
    <2> DEFINE f == [i \in 0..0 |-> NothingFound]
    <2>1. \A i \in 0..0 : Finding(chain, f, i) = NothingFound
      BY ZeroOnly DEF Finding
    <2>2. f = [i \in 0..0 |-> Finding(chain, f, i)]
      BY <2>1
    <2> QED BY <2>2
  <1>2. ASSUME NEW n \in Nat, n \in S
        PROVE  n + 1 \in S
    <2>1. PICK f : f = [i \in 0..n |-> Finding(chain, f, i)]
      BY <1>2
    <2> DEFINE g == [i \in 0..(n + 1) |-> IF i = n + 1 THEN Finding(chain, f, n + 1) ELSE f[i]]
    <2>2. \A i \in 0..n : g[i] = f[i] /\ f[i] = Finding(chain, f, i)
      BY <2>1, OneFurther
    <2>3. g[n + 1] = Finding(chain, f, n + 1) /\ g = [i \in 0..(n + 1) |-> g[i]]
      BY OneFurther
    <2> HIDE DEF g
    <2>4. \A i \in 0..(n + 1) : Finding(chain, g, i) = Finding(chain, f, i)
      BY <2>2, Below DEF Finding
    <2>5. \A i \in 0..(n + 1) : g[i] = Finding(chain, g, i)
      BY <2>2, <2>3, <2>4, OneFurther
    <2>6. g = [i \in 0..(n + 1) |-> Finding(chain, g, i)]
      BY <2>3, <2>5
    <2> QED BY <2>6
  <1> HIDE DEF S
  <1>3. N \in S
    BY <1>1, <1>2, Induct
  <1> QED BY <1>3 DEF S

LEMMA FoundAtEnd ==
    ASSUME NEW chain, Len(chain) \in Nat
    PROVE  \E f : Finds(chain, Len(chain), f) /\ Found(chain) = f[Len(chain)]
  <1> DEFINE N == Len(chain)
             f == CHOOSE g : g = [i \in 0..N |-> Finding(chain, g, i)]
  <1>1. f = [i \in 0..N |-> Finding(chain, f, i)]
    BY Looping
  <1>2. Found(chain) = f[N]
    BY DEF Found, Finding
  <1> HIDE DEF f
  <1>3. \A i \in 0..N : f[i] = Finding(chain, f, i)
    BY <1>1
  <1>4. f[0] = NothingFound
    BY <1>3, ZeroOnly DEF Finding
  <1>5. \A k \in 1..N : k \in 0..N /\ k # 0
    OBVIOUS
  <1>6. Finds(chain, N, f)
    BY <1>3, <1>4, <1>5 DEF Finds, Finding
  <1> QED BY <1>2, <1>6

\* What is found after some classes depends on no others.
LEMMA SameFinds ==
    ASSUME NEW s, NEW t, NEW N \in Nat, NEW M \in Nat, N <= M, NEW f, NEW g,
           Finds(s, N, f), Finds(t, M, g), \A k \in 1..N : t[k] = s[k]
    PROVE  f[N] = g[N]
  <1> DEFINE S == {k \in Nat : k <= N => f[k] = g[k]}
  <1>1. 0 \in S
    BY DEF Finds
  <1>2. ASSUME NEW k \in Nat, k \in S
        PROVE  k + 1 \in S
    <2> SUFFICES ASSUME k + 1 <= N
                 PROVE  f[k + 1] = g[k + 1]
      OBVIOUS
    <2>1. f[k] = g[k]
      BY <1>2
    <2>2. k + 1 \in 1..N /\ k + 1 \in 1..M /\ (k + 1) - 1 = k
      OBVIOUS
    <2> QED BY <2>1, <2>2 DEF Finds
  <1> HIDE DEF S
  <1>3. \A k \in Nat : k \in S
    BY <1>1, <1>2, Induct
  <1> QED BY <1>3 DEF S

LEMMA FoundNothing == Found(<<>>) = NothingFound
  BY FoundAtEnd, EmptyChain DEF Finds

\* A class more is one turn of the loop more.
LEMMA FoundMore ==
    ASSUME NEW s, IsChain(s), NEW b
    PROVE  Found(Append(s, b)) = FoundWith(Found(s), b)
  <1> DEFINE t == Append(s, b)
             N == Len(s)
  <1>1. /\ N \in Nat /\ Len(t) = N + 1 /\ t[N + 1] = b
        /\ \A k \in 1..N : t[k] = s[k]
    BY Appended, ChainIs
  <1> HIDE DEF t, N
  <1>2. PICK f : Finds(s, N, f) /\ Found(s) = f[N]
    BY <1>1, FoundAtEnd DEF N
  <1>3. PICK g : Finds(t, N + 1, g) /\ Found(t) = g[N + 1]
    BY <1>1, FoundAtEnd
  <1>4. f[N] = g[N]
    BY <1>1, <1>2, <1>3, SameFinds
  <1>5. N + 1 \in 1..(N + 1) /\ (N + 1) - 1 = N
    BY <1>1
  <1>6. g[N + 1] = FoundWith(g[N], b)
    BY <1>1, <1>3, <1>5 DEF Finds
  <1> QED BY <1>2, <1>3, <1>4, <1>6 DEF t
-----------------------------------------------------------------------------
(* One turn of the loop, and the members of a class.                       *)

\* A member of a class, and what it can become in a class that derives from it.
MemberSound(m) ==
    IsAttribute(m) =>
        AttributeSound(m) /\ \A v \in PlainValues : IsAttribute(Overriding(m, v))

\* The attributes and abstract attributes that the loop finds.
FoundSound(f) ==
    /\ DOMAIN f.attributes \subseteq Names
    /\ \A n \in DOMAIN f.attributes : IsAttribute(f.attributes[n]) /\ MemberSound(f.attributes[n])
    /\ \A n \in DOMAIN f.abstract : IsAttribute(f.abstract[n]) /\ MemberSound(f.abstract[n])

LEMMA Overlaid ==
    ASSUME NEW f, NEW g
    PROVE  /\ DOMAIN Overlay(f, g) = DOMAIN f \cup DOMAIN g
           /\ \A x \in DOMAIN f : Overlay(f, g)[x] = f[x]
           /\ \A x \in DOMAIN g \ DOMAIN f : Overlay(f, g)[x] = g[x]
  BY DEF Overlay

\* g is what the loop has found after a class b that declares d, f what it had before.
OneTurn(f, b, d, g) ==
    /\ DOMAIN g.attributes = d \cup (DOMAIN f.attributes \ DOMAIN b)
    /\ \A n \in d : g.attributes[n] = b[n]
    /\ \A n \in DOMAIN f.attributes \ DOMAIN b : g.attributes[n] = f.attributes[n]
    /\ DOMAIN g.abstract = {n \in d : b[n].abstracted} \cup DOMAIN f.abstract
    /\ \A n \in d : b[n].abstracted => g.abstract[n] = b[n]
    /\ \A n \in DOMAIN f.abstract :
         ~ (n \in d /\ b[n].abstracted) => g.abstract[n] = f.abstract[n]
    /\ g.final = f.final \cup {n \in d : b[n].finalized}

LEMMA FoundWithIs ==
    ASSUME NEW f, NEW b, NEW d, d = {n \in DOMAIN b : IsAttribute(b[n])},
           NEW g, g = FoundWith(f, b)
    PROVE  OneTurn(f, b, d, g)
  <1> DEFINE own == [n \in d |-> b[n]]
             left == [n \in DOMAIN f.attributes \ DOMAIN b |-> f.attributes[n]]
             abs == [n \in {m \in d : b[m].abstracted} |-> b[n]]
  <1>1. /\ g.attributes = Overlay(own, left)
        /\ g.abstract = Overlay(abs, f.abstract)
        /\ g.final = f.final \cup {n \in d : b[n].finalized}
    BY DEF FoundWith
  <1>2. /\ DOMAIN own = d /\ \A n \in d : own[n] = b[n]
        /\ DOMAIN left = DOMAIN f.attributes \ DOMAIN b
        /\ \A n \in DOMAIN left : left[n] = f.attributes[n]
        /\ DOMAIN abs = {m \in d : b[m].abstracted} /\ \A n \in DOMAIN abs : abs[n] = b[n]
    OBVIOUS
  <1> HIDE DEF own, left, abs
  <1>3. /\ DOMAIN g.attributes = d \cup (DOMAIN f.attributes \ DOMAIN b)
        /\ \A n \in d : g.attributes[n] = b[n]
        /\ \A n \in DOMAIN f.attributes \ DOMAIN b : g.attributes[n] = f.attributes[n]
    <2>1. \A n \in DOMAIN left : n \notin DOMAIN own
      BY <1>2
    <2>2. /\ DOMAIN Overlay(own, left) = DOMAIN own \cup DOMAIN left
          /\ \A x \in DOMAIN own : Overlay(own, left)[x] = own[x]
          /\ \A x \in DOMAIN left \ DOMAIN own : Overlay(own, left)[x] = left[x]
      BY Overlaid, Zenon
    <2> QED BY <1>1, <1>2, <2>1, <2>2
  <1>4. /\ DOMAIN g.abstract = {n \in d : b[n].abstracted} \cup DOMAIN f.abstract
        /\ \A n \in d : b[n].abstracted => g.abstract[n] = b[n]
        /\ \A n \in DOMAIN f.abstract :
             ~ (n \in d /\ b[n].abstracted) => g.abstract[n] = f.abstract[n]
    <2>1. /\ DOMAIN Overlay(abs, f.abstract) = DOMAIN abs \cup DOMAIN f.abstract
          /\ \A x \in DOMAIN abs : Overlay(abs, f.abstract)[x] = abs[x]
          /\ \A x \in DOMAIN f.abstract \ DOMAIN abs : Overlay(abs, f.abstract)[x] = f.abstract[x]
      BY Overlaid, Zenon
    <2> QED BY <1>1, <1>2, <2>1
  <1> QED BY <1>1, <1>3, <1>4 DEF OneTurn

\* What the members of an accepted body are compared with, and what they become.
LEMMA ComparedIs ==
    ASSUME NEW f, FoundSound(f), NEW c, c = ComparedWith(f)
    PROVE  /\ DOMAIN c = {n \in DOMAIN f.attributes : f.attributes[n].relationship.checked}
                           \cup {n \in DOMAIN f.abstract : f.abstract[n].relationship.checked}
           /\ \A n \in DOMAIN c : c[n] = IF n \in DOMAIN f.abstract THEN f.abstract[n]
                                                                    ELSE f.attributes[n]
           /\ \A n \in DOMAIN c : IsAttribute(c[n]) /\ MemberSound(c[n])
  <1>1. /\ DOMAIN c = {n \in DOMAIN f.attributes : f.attributes[n].relationship.checked}
                           \cup {n \in DOMAIN f.abstract : f.abstract[n].relationship.checked}
        /\ \A n \in DOMAIN c : c[n] = IF n \in DOMAIN f.abstract THEN f.abstract[n]
                                                                 ELSE f.attributes[n]
    BY DEF ComparedWith
  <1>2. \A n \in DOMAIN c : n \in DOMAIN f.abstract \/ n \in DOMAIN f.attributes
    BY <1>1
  <1> QED BY <1>1, <1>2 DEF FoundSound

LEMMA OverridingSound ==
    ASSUME NEW m, IsAttribute(m), MemberSound(m), Constant(m), NEW v \in PlainValues
    PROVE  /\ IsAttribute(Overriding(m, v)) /\ MemberSound(Overriding(m, v))
           /\ Overriding(m, v).changeable = m.changeable
           /\ ~ Overriding(m, v).changeable
  <1> DEFINE o == Overriding(m, v)
  <1>1. AttributeSound(m) /\ IsAttribute(o)
    BY DEF MemberSound
  <1>2. m \in [relationship : Relationships, holds : {m.holds}, default : {m.default},
               required : BOOLEAN, changeable : BOOLEAN, deletable : BOOLEAN,
               finalized : BOOLEAN, abstracted : BOOLEAN]
    BY <1>1 DEF AttributeSound
  <1>3. /\ o.relationship = m.relationship /\ o.holds = m.holds /\ o.default = v
        /\ o.required = m.required /\ o.changeable = m.changeable
        /\ o.deletable = m.deletable /\ o.finalized = m.finalized /\ o.abstracted = FALSE
    BY <1>2 DEF Overriding
  <1>4. o \in [relationship : Relationships, holds : {o.holds}, default : {o.default},
               required : BOOLEAN, changeable : BOOLEAN, deletable : BOOLEAN,
               finalized : BOOLEAN, abstracted : BOOLEAN]
    BY <1>2 DEF Overriding
  <1>5. ~ m.relationship.factory /\ ~ m.changeable
    BY DEF Constant
  <1>6. AttributeSound(o)
    <2> HIDE DEF o
    <2>1. m.holds = UNSET
      BY <1>1, <1>5 DEF AttributeSound
    <2> QED BY <1>1, <1>3, <1>4, <2>1 DEF AttributeSound
  <1>7. \A w \in PlainValues : Overriding(o, w) = Overriding(m, w)
    BY <1>2 DEF Overriding
  <1>8. \A w \in PlainValues : IsAttribute(Overriding(o, w))
    BY <1>7 DEF MemberSound
  <1> QED BY <1>1, <1>3, <1>5, <1>6, <1>8 DEF MemberSound

LEMMA ResolvedIs ==
    ASSUME NEW f, FoundSound(f), NEW body \in Roots \cup Overrides,
           \A n \in DOMAIN body \cap DOMAIN ComparedWith(f) :
              MayOverride(ComparedWith(f)[n], body[n]),
           NEW b, b = Resolved(ComparedWith(f), body)
    PROVE  /\ DOMAIN b = DOMAIN body /\ DOMAIN b \subseteq Names
           /\ \A n \in DOMAIN b : MemberSound(b[n])
           /\ \A n \in DOMAIN b \cap DOMAIN ComparedWith(f) :
                /\ IsAttribute(b[n])
                /\ b[n].changeable => ComparedWith(f)[n].changeable
  <1> DEFINE c == ComparedWith(f)
  <1>1. \A n \in DOMAIN c : IsAttribute(c[n]) /\ MemberSound(c[n])
    BY ComparedIs
  <1>2. /\ DOMAIN body \subseteq Names
        /\ \A n \in DOMAIN body : MemberSound(body[n])
    BY DataAssumption DEF MemberSound
  <1> HIDE DEF c
  <1>3. /\ DOMAIN b = DOMAIN body
        /\ \A n \in DOMAIN body : b[n] = IF n \in DOMAIN c /\ ~ IsAttribute(body[n])
                                         THEN Overriding(c[n], body[n]) ELSE body[n]
    BY DEF Resolved, c
  <1>4. ASSUME NEW n \in DOMAIN b
        PROVE  /\ MemberSound(b[n])
               /\ n \in DOMAIN c => IsAttribute(b[n]) /\ (b[n].changeable => c[n].changeable)
    <2>1. CASE n \in DOMAIN c /\ ~ IsAttribute(body[n])
      <3>1. MayOverride(c[n], body[n])
        BY <1>3, <2>1 DEF c
      <3>2. Constant(c[n]) /\ body[n] \in PlainValues
        BY <2>1, <3>1 DEF MayOverride, IsAttribute
      <3>3. b[n] = Overriding(c[n], body[n])
        BY <1>3, <2>1
      <3> QED BY <1>1, <2>1, <3>2, <3>3, OverridingSound
    <2>2. CASE n \in DOMAIN c /\ IsAttribute(body[n])
      <3>1. MayOverride(c[n], body[n])
        BY <1>3, <2>2 DEF c
      <3>2. b[n] = body[n]
        BY <1>3, <2>2
      <3> QED BY <1>2, <1>3, <2>2, <3>1, <3>2 DEF MayOverride
    <2>3. CASE n \notin DOMAIN c
      BY <1>2, <1>3, <2>3
    <2> QED BY <2>1, <2>2, <2>3
  <1> QED BY <1>2, <1>3, <1>4 DEF c
-----------------------------------------------------------------------------
(* What the loop finds is what the classes declare.                        *)

\* n is an attribute that class i of s declares.
Declares(s, i, n) == n \in DOMAIN s[i] /\ IsAttribute(s[i][n])

\* The final names are found, and the abstract attributes are of some class.
FinalsFound(s, f) ==
    \A i \in DOMAIN s : \A n \in DOMAIN s[i] :
        IsAttribute(s[i][n]) /\ s[i][n].finalized => n \in f.final

AbstractDeclared(s, f) ==
    \A n \in DOMAIN f.abstract : \E i \in DOMAIN s : Declares(s, i, n) /\ s[i][n].abstracted

\* Class i of s promises that n does not change: Promises, of any chain.
Promised(s, n, i) ==
    /\ Declares(s, i, n) /\ ~ s[i][n].changeable
    /\ \A j \in i..Len(s) : n \in DOMAIN s[j] =>
          IsAttribute(s[j][n]) /\ s[j][n].relationship.checked
    /\ \A j \in 1..(i - 1) : n \in DOMAIN s[j] => ~ (IsAttribute(s[j][n]) /\ s[j][n].abstracted)

\* Whatever the next class is compared with does not change either.
Unchanging(f, n) ==
    /\ n \in DOMAIN f.attributes
    /\ f.attributes[n].relationship.checked /\ ~ f.attributes[n].changeable
    /\ n \in DOMAIN f.abstract => ~ f.abstract[n].changeable

PromisesFound(s, f) == \A i \in DOMAIN s : \A n \in Names : Promised(s, n, i) => Unchanging(f, n)

\* FinalsStand, of any chain.
Stand(s) ==
    \A j \in DOMAIN s : \A i \in 1..j - 1 : \A n \in DOMAIN s[i] :
        IsAttribute(s[i][n]) /\ s[i][n].finalized => n \notin DOMAIN s[j]

ChainRight(s, f) ==
    /\ FoundSound(f)
    /\ FinalsFound(s, f) /\ AbstractDeclared(s, f) /\ PromisesFound(s, f) /\ Stand(s)

LEMMA NumbersUpTo ==
    \A N \in Nat : /\ \A i \in 1..(N + 1) : i = N + 1 \/ i \in 1..N
                   /\ \A j \in 1..N : \A i \in 1..(j - 1) : i \in 1..N /\ i \in 1..(N + 1)
                   /\ \A i \in 1..((N + 1) - 1) : i \in 1..N
                   /\ \A i \in 1..N : /\ i \in 1..(N + 1) /\ i # N + 1 /\ i \in 1..((N + 1) - 1)
                                      /\ N + 1 \in i..(N + 1)
                                      /\ \A j \in i..N : j \in i..(N + 1) /\ j \in 1..N
                   /\ N + 1 \in 1..(N + 1)
  OBVIOUS

LEMMA ChainGrows ==
    ASSUME NEW s, IsChain(s), NEW f, ChainRight(s, f), NEW body \in Roots \cup Overrides,
           DOMAIN body \cap f.final = {},
           \A n \in DOMAIN body \cap DOMAIN ComparedWith(f) :
              MayOverride(ComparedWith(f)[n], body[n]),
           NEW b, b = Resolved(ComparedWith(f), body), NEW t, t = Append(s, b),
           NEW g, g = FoundWith(f, b)
    PROVE  ChainRight(t, g)
  <1> DEFINE N == Len(s)
             d == {n \in DOMAIN b : IsAttribute(b[n])}
             c == ComparedWith(f)
  <1>1. /\ N \in Nat /\ DOMAIN s = 1..N /\ DOMAIN t = 1..(N + 1) /\ Len(t) = N + 1
        /\ t[N + 1] = b /\ \A k \in 1..N : t[k] = s[k]
    BY Appended, ChainIs
  <1>2. /\ FoundSound(f) /\ FinalsFound(s, f) /\ AbstractDeclared(s, f)
        /\ PromisesFound(s, f) /\ Stand(s)
    BY DEF ChainRight
  <1>0. d = {n \in DOMAIN b : IsAttribute(b[n])} /\ c = ComparedWith(f)
    OBVIOUS
  <1> HIDE DEF N, d, c
  <1>3. /\ DOMAIN b = DOMAIN body /\ DOMAIN b \subseteq Names
        /\ \A n \in DOMAIN b : MemberSound(b[n])
        /\ \A n \in DOMAIN b \cap DOMAIN c : /\ IsAttribute(b[n])
                                             /\ b[n].changeable => c[n].changeable
    <2>1. /\ DOMAIN b = DOMAIN body /\ DOMAIN b \subseteq Names
          /\ \A n \in DOMAIN b : MemberSound(b[n])
          /\ \A n \in DOMAIN b \cap DOMAIN ComparedWith(f) :
               /\ IsAttribute(b[n])
               /\ b[n].changeable => ComparedWith(f)[n].changeable
      BY <1>2, ResolvedIs, ZenonT(30)
    <2> QED BY <1>0, <2>1
  <1>4. /\ DOMAIN g.attributes = d \cup (DOMAIN f.attributes \ DOMAIN b)
        /\ \A n \in d : g.attributes[n] = b[n]
        /\ \A n \in DOMAIN f.attributes \ DOMAIN b : g.attributes[n] = f.attributes[n]
        /\ DOMAIN g.abstract = {n \in d : b[n].abstracted} \cup DOMAIN f.abstract
        /\ \A n \in d : b[n].abstracted => g.abstract[n] = b[n]
        /\ \A n \in DOMAIN f.abstract :
             ~ (n \in d /\ b[n].abstracted) => g.abstract[n] = f.abstract[n]
        /\ g.final = f.final \cup {n \in d : b[n].finalized}
    <2>1. OneTurn(f, b, d, g)
      BY <1>0, FoundWithIs
    <2> QED BY <2>1 DEF OneTurn
  <1>5. /\ DOMAIN c = {n \in DOMAIN f.attributes : f.attributes[n].relationship.checked}
                        \cup {n \in DOMAIN f.abstract : f.abstract[n].relationship.checked}
        /\ \A n \in DOMAIN c : c[n] = IF n \in DOMAIN f.abstract THEN f.abstract[n]
                                                                 ELSE f.attributes[n]
    BY <1>0, <1>2, ComparedIs, ZenonT(60)
  <1>6. \A n : n \in d <=> n \in DOMAIN b /\ IsAttribute(b[n])
    BY <1>0
  <1>7. FoundSound(g)
    BY <1>2, <1>3, <1>4, <1>6 DEF FoundSound
  <1>8. FinalsFound(t, g)
    <2> SUFFICES ASSUME NEW i \in 1..(N + 1), NEW n \in DOMAIN t[i],
                        IsAttribute(t[i][n]), t[i][n].finalized
                 PROVE  n \in g.final
      BY <1>1 DEF FinalsFound
    <2>1. CASE i = N + 1
      BY <1>1, <1>4, <1>6, <2>1
    <2>2. CASE i \in 1..N
      BY <1>1, <1>2, <1>4, <2>2 DEF FinalsFound
    <2> QED BY <1>1, <2>1, <2>2, NumbersUpTo
  <1>9. AbstractDeclared(t, g)
    <2> SUFFICES ASSUME NEW n \in DOMAIN g.abstract
                 PROVE  \E i \in 1..(N + 1) : Declares(t, i, n) /\ t[i][n].abstracted
      BY <1>1 DEF AbstractDeclared
    <2>1. CASE n \in d /\ b[n].abstracted
      <3>1. Declares(t, N + 1, n) /\ t[N + 1][n].abstracted
        BY <1>1, <1>6, <2>1 DEF Declares
      <3> QED BY <1>1, <3>1, NumbersUpTo
    <2>2. CASE n \in DOMAIN f.abstract
      <3>1. PICK i \in 1..N : Declares(s, i, n) /\ s[i][n].abstracted
        BY <1>1, <1>2, <2>2 DEF AbstractDeclared
      <3>2. Declares(t, i, n) /\ t[i][n].abstracted
        BY <1>1, <3>1 DEF Declares
      <3> QED BY <1>1, <3>1, <3>2, NumbersUpTo
    <2> QED BY <1>4, <2>1, <2>2
  <1>10. Stand(t)
    <2> SUFFICES ASSUME NEW j \in 1..(N + 1), NEW i \in 1..(j - 1), NEW n \in DOMAIN t[i],
                        IsAttribute(t[i][n]), t[i][n].finalized
                 PROVE  n \notin DOMAIN t[j]
      BY <1>1 DEF Stand
    <2>1. CASE j = N + 1
      <3>1. i \in 1..N
        BY <1>1, <2>1, NumbersUpTo
      <3>2. n \in f.final
        BY <1>1, <1>2, <3>1 DEF FinalsFound
      <3> QED BY <1>1, <1>3, <2>1, <3>2
    <2>2. CASE j \in 1..N
      <3>1. i \in 1..N
        BY <1>1, <2>2, NumbersUpTo
      <3> QED BY <1>1, <1>2, <2>2, <3>1 DEF Stand
    <2> QED BY <1>1, <2>1, <2>2, NumbersUpTo
  <1>11. PromisesFound(t, g)
    <2> SUFFICES ASSUME NEW i \in 1..(N + 1), NEW n \in Names, Promised(t, n, i)
                 PROVE  Unchanging(g, n)
      BY <1>1 DEF PromisesFound
    <2>1. CASE i = N + 1
      <3>1. n \in DOMAIN b /\ IsAttribute(b[n]) /\ ~ b[n].changeable
        BY <1>1, <2>1 DEF Promised, Declares
      <3>2. b[n].relationship.checked
        <4>1. N + 1 \in (N + 1)..(N + 1)
          BY <1>1
        <4> QED BY <1>1, <2>1, <3>1, <4>1 DEF Promised
      <3>3. n \notin DOMAIN f.abstract
        <4> SUFFICES ASSUME n \in DOMAIN f.abstract PROVE FALSE
          OBVIOUS
        <4>1. PICK k \in 1..N : Declares(s, k, n) /\ s[k][n].abstracted
          BY <1>1, <1>2 DEF AbstractDeclared
        <4>2. k \in 1..((N + 1) - 1)
          BY <1>1, NumbersUpTo
        <4> QED BY <1>1, <2>1, <4>1, <4>2 DEF Promised, Declares
      <3> QED BY <1>4, <1>6, <3>1, <3>2, <3>3 DEF Unchanging
    <2>2. CASE i \in 1..N
      <3>1. Promised(s, n, i)
        <4>1. Declares(s, i, n) /\ ~ s[i][n].changeable
          BY <1>1, <2>2 DEF Promised, Declares
        <4>2. \A j \in i..N : n \in DOMAIN s[j] =>
                  IsAttribute(s[j][n]) /\ s[j][n].relationship.checked
          BY <1>1, <2>2, NumbersUpTo DEF Promised
        <4>3. \A j \in 1..(i - 1) : n \in DOMAIN s[j] =>
                  ~ (IsAttribute(s[j][n]) /\ s[j][n].abstracted)
          BY <1>1, <2>2, NumbersUpTo DEF Promised
        <4> QED BY <4>1, <4>2, <4>3 DEF Promised, N
      <3>2. Unchanging(f, n)
        BY <1>1, <1>2, <2>2, <3>1 DEF PromisesFound
      <3>3. CASE n \notin DOMAIN b
        BY <1>4, <1>6, <3>2, <3>3 DEF Unchanging
      <3>4. CASE n \in DOMAIN b
        <4>1. IsAttribute(b[n]) /\ b[n].relationship.checked
          <5>1. N + 1 \in i..(N + 1)
            BY <1>1, <2>2, NumbersUpTo
          <5> QED BY <1>1, <3>4, <5>1 DEF Promised
        <4>2. n \in DOMAIN c /\ ~ c[n].changeable
          BY <1>5, <3>2 DEF Unchanging
        <4>3. ~ b[n].changeable
          BY <1>3, <3>4, <4>2
        <4>4. n \in DOMAIN g.abstract => ~ g.abstract[n].changeable
          BY <1>4, <3>2, <4>3 DEF Unchanging
        <4> QED BY <1>4, <1>6, <3>4, <4>1, <4>3, <4>4 DEF Unchanging
      <3> QED BY <3>3, <3>4
    <2> QED BY <1>1, <2>1, <2>2, NumbersUpTo
  <1> QED BY <1>7, <1>8, <1>9, <1>10, <1>11 DEF ChainRight
-----------------------------------------------------------------------------
(* Values.                                                                 *)

\* A value that an attribute has.
IsValue(a, v) ==
    IF a.holds = UNSET THEN v \in PlainValues
    ELSE /\ v = [class |-> a.holds, elements |-> v.elements]
         /\ IsElements(a.holds.base, v.elements)

\* What a program gives it, and what its default is, if it has one.
IsInput(a, v) == IF a.holds = UNSET THEN v \in PlainValues ELSE IsSource(a.holds, v)

LEMMA ConvertedPlain ==
    ASSUME NEW r, NEW v \in PlainValues, NEW factory
    PROVE  Converted(r, v, factory) \in PlainValues
  BY DataAssumption DEF Converted

LEMMA ElementsMade ==
    ASSUME NEW class, NEW e, IsElements(class.base, e), NEW factory
    PROVE  IsElements(class.base, ElementsOf(class, e, factory))
  <1>1. CASE class.base \in SetBases
    <2> DEFINE m == {Converted(class.relationship, v, factory) : v \in DOMAIN e}
    <2>1. m \subseteq PlainValues
      BY <1>1, ConvertedPlain DEF IsElements
    <2>2. ElementsOf(class, e, factory) = Members(m)
      BY <1>1 DEF ElementsOf
    <2> HIDE DEF m
    <2>3. DOMAIN Members(m) = m
      BY DEF Members
    <2> QED BY <1>1, <2>1, <2>2, <2>3 DEF IsElements
  <1>2. CASE class.base \notin SetBases
    <2> DEFINE f == [i \in DOMAIN e |-> Converted(class.relationship, e[i], factory)]
    <2>1. ElementsOf(class, e, factory) = f
      BY <1>2 DEF ElementsOf
    <2>2. \A i \in DOMAIN e : e[i] \in PlainValues
      BY <1>2 DEF IsElements
    <2>3. f \in [DOMAIN e -> PlainValues] /\ DOMAIN f = DOMAIN e
      BY <2>2, ConvertedPlain
    <2> QED BY <1>2, <2>1, <2>3 DEF IsElements
  <1> QED BY <1>1, <1>2

LEMMA ContainerMade ==
    ASSUME NEW a, a.holds # UNSET, NEW e, IsElements(a.holds.base, e), NEW factory
    PROVE  IsValue(a, Container(a.holds, e, factory))
  BY ElementsMade DEF IsValue, Container

\* A value that an attribute is given becomes one that it has.
LEMMA FabricatedIs ==
    ASSUME NEW a, NEW v, IsInput(a, v)
    PROVE  IsValue(a, Fabricated(a, v))
  <1>1. CASE a.holds = UNSET
    <2>1. Fabricated(a, v) = Converted(a.relationship, v, TRUE) /\ v \in PlainValues
      BY <1>1 DEF Fabricated, IsInput
    <2> QED BY <1>1, <2>1, ConvertedPlain DEF IsValue
  <1>2. CASE a.holds # UNSET
    <2>1. /\ v = [class |-> v.class, elements |-> v.elements]
          /\ IsElements(a.holds.base, v.elements)
      BY <1>2 DEF IsInput, IsSource
    <2>2. Fabricated(a, v) = IF v.class = a.holds THEN v ELSE Container(a.holds, v.elements, TRUE)
      BY <1>2 DEF Fabricated, ContainerFactory
    <2>3. CASE v.class = a.holds
      BY <1>2, <2>1, <2>2, <2>3 DEF IsValue
    <2>4. CASE v.class # a.holds
      BY <1>2, <2>1, <2>2, <2>4, ContainerMade
    <2> QED BY <2>3, <2>4
  <1> QED BY <1>1, <1>2

LEMMA DefaultIs ==
    ASSUME NEW a, AttributeSound(a), a.default # UNSET
    PROVE  IsInput(a, a.default)
  BY DEF AttributeSound, IsInput

LEMMA InputIs ==
    ASSUME NEW a, AttributeSound(a), NEW v \in Inputs(a)
    PROVE  IsInput(a, v)
  <1>1. CASE a.holds = UNSET
    BY <1>1 DEF Inputs, IsInput
  <1>2. CASE a.holds # UNSET
    <2> DEFINE class == a.holds
               E == Contents[class.base]
    <2>1. class.base \in DOMAIN Contents
      BY <1>2 DEF AttributeSound, IsContainerClass
    <2>2. PICK e \in E : v \in {Builtin(e), [class |-> class, elements |-> e],
                                [class |-> [class EXCEPT !.id = Other], elements |-> e]}
      BY <1>2 DEF Inputs
    <2>3. IsElements(class.base, e)
      BY <2>1, <2>2, DataAssumption
    <2>4. v = [class |-> v.class, elements |-> v.elements] /\ v.elements = e
      BY <2>2 DEF Builtin
    <2> QED BY <1>2, <2>3, <2>4 DEF IsInput, IsSource
  <1> QED BY <1>1, <1>2

\* A value that was serialized, by whomever, is one that the attribute has.
LEMMA DeserializedIs ==
    ASSUME NEW a, AttributeSound(a), NEW v \in SerializedInputs(a)
    PROVE  IsValue(a, DeserializedValue(a, v))
  <1>1. CASE a.holds = UNSET
    BY <1>1 DEF SerializedInputs, DeserializedValue, IsValue
  <1>2. CASE a.holds # UNSET
    <2>1. a.holds.base \in DOMAIN Contents
      BY <1>2 DEF AttributeSound, IsContainerClass
    <2>2. PICK e \in Contents[a.holds.base] : v = Builtin(e)
      BY <1>2 DEF SerializedInputs
    <2>3. IsElements(a.holds.base, e) /\ v.elements = e
      BY <2>1, <2>2, DataAssumption DEF Builtin
    <2> QED BY <1>2, <2>3, ContainerMade DEF DeserializedValue
  <1> QED BY <1>1, <1>2

\* Made without the factory, a container has the elements it is made of.
LEMMA SameElements ==
    ASSUME NEW class, NEW e, IsElements(class.base, e)
    PROVE  ElementsOf(class, e, FALSE) = e
  <1>1. \A r, v : Converted(r, v, FALSE) = v
    BY DEF Converted
  <1>2. CASE class.base \in SetBases
    <2>1. {Converted(class.relationship, v, FALSE) : v \in DOMAIN e} = DOMAIN e
      BY <1>1
    <2> QED BY <1>2, <2>1 DEF ElementsOf, IsElements
  <1>3. CASE class.base \notin SetBases
    <2>1. e = [i \in DOMAIN e |-> e[i]]
      BY <1>3 DEF IsElements
    <2>2. [i \in DOMAIN e |-> Converted(class.relationship, e[i], FALSE)] = [i \in DOMAIN e |-> e[i]]
      BY <1>1
    <2> QED BY <1>3, <2>1, <2>2 DEF ElementsOf
  <1> QED BY <1>2, <1>3

\* What was serialized is deserialized as it was.
LEMMA ThereAndBack ==
    ASSUME NEW a, NEW v, IsValue(a, v)
    PROVE  DeserializedValue(a, SerializedValue(a, v)) = v
  <1>1. CASE a.holds = UNSET
    BY <1>1 DEF SerializedValue, DeserializedValue
  <1>2. CASE a.holds # UNSET
    <2>1. v = [class |-> a.holds, elements |-> v.elements] /\ IsElements(a.holds.base, v.elements)
      BY <1>2 DEF IsValue
    <2>2. SerializedValue(a, v).elements = v.elements
      BY <1>2 DEF SerializedValue, Builtin
    <2>3. DeserializedValue(a, SerializedValue(a, v)) =
            [class |-> a.holds, elements |-> ElementsOf(a.holds, v.elements, FALSE)]
      BY <1>2, <2>2 DEF DeserializedValue, Container
    <2>4. ElementsOf(a.holds, v.elements, FALSE) = v.elements
      BY <2>1, SameElements
    <2> QED BY <2>1, <2>3, <2>4
  <1> QED BY <1>1, <1>2

-----------------------------------------------------------------------------
(* States.                                                                 *)

AttributesSound(as) == \A n \in DOMAIN as : AttributeSound(as[n])

\* A state that an instance has.
IsState(as, state) ==
    /\ DOMAIN state \subseteq DOMAIN as
    /\ \A n \in DOMAIN state : IsValue(as[n], state[n])
    /\ \A n \in DOMAIN as : as[n].required => n \in DOMAIN state

LEMMA InitialStateIs ==
    ASSUME NEW as, NEW initial, NEW state, state = InitialState(as, initial)
    PROVE  /\ DOMAIN state = DOMAIN initial
                               \cup {n \in DOMAIN as \ DOMAIN initial : as[n].default # UNSET}
           /\ \A n \in DOMAIN initial : state[n] = initial[n]
           /\ \A n \in DOMAIN state \ DOMAIN initial :
                n \in DOMAIN as /\ as[n].default # UNSET
                /\ state[n] = Fabricated(as[n], as[n].default)
  <1> DEFINE D == {n \in DOMAIN as \ DOMAIN initial : as[n].default # UNSET}
             g == [n \in D |-> Fabricated(as[n], as[n].default)]
  <1>1. state = Overlay(initial, g)
    BY DEF InitialState
  <1>2. DOMAIN g = D /\ \A n \in D : g[n] = Fabricated(as[n], as[n].default)
    OBVIOUS
  <1>3. \A n \in D : n \in DOMAIN as /\ n \notin DOMAIN initial /\ as[n].default # UNSET
    OBVIOUS
  <1>4. D = {n \in DOMAIN as \ DOMAIN initial : as[n].default # UNSET}
    OBVIOUS
  <1> HIDE DEF g, D
  <1>5. /\ DOMAIN Overlay(initial, g) = DOMAIN initial \cup DOMAIN g
        /\ \A x \in DOMAIN initial : Overlay(initial, g)[x] = initial[x]
        /\ \A x \in DOMAIN g \ DOMAIN initial : Overlay(initial, g)[x] = g[x]
    BY Overlaid, Zenon
  <1>6. /\ DOMAIN state = DOMAIN initial \cup D
        /\ \A x \in DOMAIN initial : state[x] = initial[x]
        /\ \A x \in D : state[x] = Fabricated(as[x], as[x].default)
    BY <1>1, <1>2, <1>3, <1>5
  <1> QED BY <1>3, <1>4, <1>6

\* Values of attributes, of all that are required and have no default, make a state.
LEMMA StateMade ==
    ASSUME NEW as, AttributesSound(as), NEW initial, DOMAIN initial \subseteq DOMAIN as,
           \A n \in DOMAIN initial : IsValue(as[n], initial[n]),
           Missing(as, initial) = {}
    PROVE  IsState(as, InitialState(as, initial))
  <1> DEFINE state == InitialState(as, initial)
  <1>1. /\ DOMAIN state = DOMAIN initial
                            \cup {n \in DOMAIN as \ DOMAIN initial : as[n].default # UNSET}
        /\ \A n \in DOMAIN initial : state[n] = initial[n]
        /\ \A n \in DOMAIN state \ DOMAIN initial :
             n \in DOMAIN as /\ as[n].default # UNSET
             /\ state[n] = Fabricated(as[n], as[n].default)
    BY InitialStateIs, Zenon
  <1> HIDE DEF state
  <1>2. DOMAIN state \subseteq DOMAIN as
    BY <1>1
  <1>3. ASSUME NEW n \in DOMAIN state
        PROVE  IsValue(as[n], state[n])
    <2>1. CASE n \in DOMAIN initial
      BY <1>1, <2>1
    <2>2. CASE n \notin DOMAIN initial
      <3>1. /\ n \in DOMAIN as /\ as[n].default # UNSET
            /\ state[n] = Fabricated(as[n], as[n].default)
        BY <1>1, <1>3, <2>2
      <3>2. IsInput(as[n], as[n].default)
        BY <3>1, DefaultIs DEF AttributesSound
      <3> QED BY <3>1, <3>2, FabricatedIs
    <2> QED BY <2>1, <2>2
  <1>4. \A n \in DOMAIN as : as[n].required => n \in DOMAIN state
    BY <1>1 DEF Missing
  <1> QED BY <1>2, <1>3, <1>4 DEF IsState, state
-----------------------------------------------------------------------------
(* The invariant.                                                          *)

IInv ==
    /\ IsChain(classes) /\ ChainRight(classes, Found(classes))
    /\ datum # UNSET => IsState(Current, datum)

LEMMA CurrentSound ==
    ASSUME IInv
    PROVE  /\ AttributesSound(Current) /\ DOMAIN Current \subseteq Names
           /\ Current = Found(classes).attributes
  <1>1. FoundSound(Found(classes)) /\ Current = Found(classes).attributes
    BY DEF IInv, ChainRight, Current, Attributes
  <1> QED BY <1>1 DEF FoundSound, MemberSound, AttributesSound

LEMMA Given ==
    ASSUME IInv, NEW values \in Dicts(DOMAIN Current, Inputs)
    PROVE  DOMAIN values \subseteq DOMAIN Current
           /\ \A n \in DOMAIN values : IsInput(Current[n], values[n])
  <1>1. /\ DOMAIN values \subseteq DOMAIN Current
        /\ \A n \in DOMAIN values : values[n] \in Inputs(Current[n])
    BY DEF Dicts
  <1> QED BY <1>1, CurrentSound, InputIs DEF AttributesSound

LEMMA GivenSerialized ==
    ASSUME IInv, NEW values \in Dicts(DOMAIN Current, SerializedInputs)
    PROVE  DOMAIN values \subseteq DOMAIN Current
           /\ \A n \in DOMAIN values : IsValue(Current[n], DeserializedValue(Current[n], values[n]))
  <1>1. /\ DOMAIN values \subseteq DOMAIN Current
        /\ \A n \in DOMAIN values : values[n] \in SerializedInputs(Current[n])
    BY DEF Dicts
  <1> QED BY <1>1, CurrentSound, DeserializedIs DEF AttributesSound

-----------------------------------------------------------------------------
(* The steps.                                                              *)

LEMMA Initially == Init => IInv
  <1> SUFFICES ASSUME Init PROVE IInv
    OBVIOUS
  <1>1. classes = <<>> /\ datum = UNSET
    BY DEF Init
  <1>2. IsChain(classes) /\ DOMAIN classes = {}
    BY <1>1, EmptyChain
  <1> DEFINE f == Found(classes)
  <1>3. f = NothingFound
    BY <1>1, FoundNothing
  <1> HIDE DEF f
  <1>4. DOMAIN f.attributes = {} /\ DOMAIN f.abstract = {}
    BY <1>3 DEF NothingFound, NoMembers
  <1>5. ChainRight(classes, f)
    BY <1>2, <1>4 DEF ChainRight, FoundSound, FinalsFound, AbstractDeclared, PromisesFound, Stand
  <1> QED BY <1>1, <1>2, <1>5 DEF IInv, f

LEMMA Defined ==
    ASSUME IInv, NEW body \in Roots \cup Overrides, Define(body)
    PROVE  IInv'
  <1> DEFINE f == Found(classes)
             b == Resolved(ComparedWith(f), body)
  <1>1. /\ datum' = datum /\ datum = UNSET /\ classes' = Append(classes, b)
        /\ DOMAIN body \cap f.final = {}
        /\ \A n \in DOMAIN body \cap DOMAIN ComparedWith(f) : MayOverride(ComparedWith(f)[n], body[n])
    BY DEF Define, BodyAccepted, WithClass, FinalNames
  <1>2. IsChain(classes) /\ ChainRight(classes, f)
    BY DEF IInv
  <1>3. IsChain(classes') /\ Found(classes') = FoundWith(f, b)
    BY <1>1, <1>2, Appended, FoundMore
  <1>4. b = Resolved(ComparedWith(f), body)
    OBVIOUS
  <1> HIDE DEF f, b
  <1>5. ChainRight(classes', FoundWith(f, b))
    BY <1>1, <1>2, <1>4, ChainGrows
  <1> QED BY <1>1, <1>3, <1>5 DEF IInv

LEMMA Unmoved == ASSUME UNCHANGED classes PROVE Current' = Current /\ Found(classes)' = Found(classes)
  BY DEF Current

LEMMA Made ==
    ASSUME IInv, NEW initial \in Dicts(DOMAIN Current, Inputs), Make(initial)
    PROVE  IsState(Current, datum')
  <1> DEFINE i == [n \in DOMAIN initial |-> Fabricated(Current[n], initial[n])]
  <1>1. /\ DOMAIN initial \subseteq DOMAIN Current
        /\ \A n \in DOMAIN initial : IsInput(Current[n], initial[n])
    BY Given
  <1>2. DOMAIN i = DOMAIN initial /\ \A n \in DOMAIN i : IsValue(Current[n], i[n])
    BY <1>1, FabricatedIs
  <1>3. datum' = InitialState(Current, i) /\ Missing(Current, initial) = {}
    BY DEF Make
  <1> HIDE DEF i
  <1>4. Missing(Current, i) = {}
    BY <1>2, <1>3 DEF Missing
  <1> QED BY <1>1, <1>2, <1>3, <1>4, CurrentSound, StateMade

LEMMA Loaded ==
    ASSUME IInv, NEW serialized \in Dicts(DOMAIN Current, SerializedInputs), Deserialize(serialized)
    PROVE  IsState(Current, datum')
  <1> DEFINE i == Deserialized(Current, serialized)
  <1>1. /\ DOMAIN serialized \subseteq DOMAIN Current
        /\ \A n \in DOMAIN serialized :
             IsValue(Current[n], DeserializedValue(Current[n], serialized[n]))
    BY GivenSerialized
  <1>2. DOMAIN i = DOMAIN serialized /\ \A n \in DOMAIN i : IsValue(Current[n], i[n])
    BY <1>1 DEF Deserialized
  <1>3. datum' = InitialState(Current, i) /\ Missing(Current, serialized) = {}
    BY DEF Deserialize
  <1> HIDE DEF i
  <1>4. Missing(Current, i) = {}
    BY <1>2, <1>3 DEF Missing
  <1> QED BY <1>1, <1>2, <1>3, <1>4, CurrentSound, StateMade

LEMMA Updated ==
    ASSUME IInv, NEW values \in Dicts(DOMAIN Current, Inputs), Update(values)
    PROVE  /\ IsState(Current, datum')
           /\ \A n \in DOMAIN datum : n \in DOMAIN values \/ datum'[n] = datum[n]
  <1> DEFINE g == [n \in DOMAIN values |-> Fabricated(Current[n], values[n])]
  <1>1. /\ DOMAIN values \subseteq DOMAIN Current
        /\ \A n \in DOMAIN values : IsInput(Current[n], values[n])
    BY Given
  <1>2. DOMAIN g = DOMAIN values /\ \A n \in DOMAIN g : IsValue(Current[n], g[n])
    BY <1>1, FabricatedIs
  <1>3. datum' = Overlay(g, datum) /\ IsState(Current, datum)
    BY DEF Update, IInv
  <1> HIDE DEF g
  <1>4. /\ DOMAIN Overlay(g, datum) = DOMAIN g \cup DOMAIN datum
        /\ \A x \in DOMAIN g : Overlay(g, datum)[x] = g[x]
        /\ \A x \in DOMAIN datum \ DOMAIN g : Overlay(g, datum)[x] = datum[x]
    BY Overlaid, Zenon
  <1>5. /\ DOMAIN datum' = DOMAIN g \cup DOMAIN datum
        /\ \A x \in DOMAIN g : datum'[x] = g[x]
        /\ \A x \in DOMAIN datum : x \in DOMAIN g \/ datum'[x] = datum[x]
    BY <1>3, <1>4
  <1> QED BY <1>1, <1>2, <1>3, <1>5 DEF IsState

LEMMA Removed ==
    ASSUME IInv, datum # UNSET, NEW names, \A n \in names : n \in DOMAIN datum /\ Deletable(n)
    PROVE  /\ IsState(Current, Without(names))
           /\ \A n \in DOMAIN Without(names) : n \in DOMAIN datum /\ Without(names)[n] = datum[n]
  <1>1. IsState(Current, datum)
    BY DEF IInv
  <1>2. /\ DOMAIN Without(names) = DOMAIN datum \ names
        /\ \A n \in DOMAIN datum \ names : Without(names)[n] = datum[n]
    BY DEF Without
  <1>3. \A n \in names : n \in DOMAIN Current /\ ~ Current[n].required
    BY <1>1, CurrentSound DEF Deletable, IsState, AttributesSound, AttributeSound
  <1> QED BY <1>1, <1>2, <1>3 DEF IsState

LEMMA DeleteIs ==
    ASSUME IInv, NEW n, Delete(n)
    PROVE  /\ IsState(Current, datum')
           /\ \A m \in DOMAIN datum' : m \in DOMAIN datum /\ datum'[m] = datum[m]
  <1>1. /\ datum # UNSET /\ datum' = Without({n})
        /\ \A m \in {n} : m \in DOMAIN datum /\ Deletable(m)
    BY DEF Delete
  <1> QED BY <1>1, Removed

LEMMA ClearIs ==
    ASSUME IInv, Clear
    PROVE  /\ IsState(Current, datum')
           /\ \A m \in DOMAIN datum' : m \in DOMAIN datum /\ datum'[m] = datum[m]
  <1> DEFINE names == {n \in DOMAIN datum : Current[n].deletable}
  <1>1. datum # UNSET /\ datum' = Without(names)
    BY DEF Clear
  <1>2. \A m \in names : m \in DOMAIN datum /\ Deletable(m)
    BY DEF Deletable
  <1> HIDE DEF names
  <1> QED BY <1>1, <1>2, Removed

LEMMA Steps ==
    ASSUME IInv, [Next]_vars
    PROVE  IInv'
  <1>1. ASSUME UNCHANGED classes, IsState(Current, datum') \/ datum' = datum
        PROVE  IInv'
    <2>1. datum' # UNSET => IsState(Current, datum')
      BY <1>1 DEF IInv
    <2> QED BY <1>1, <2>1, Unmoved DEF IInv
  <1>2. CASE UNCHANGED vars
    BY <1>1, <1>2 DEF vars
  <1>3. CASE \E body \in IF classes = <<>> THEN Roots ELSE Overrides : Define(body)
    <2>1. PICK body \in Roots \cup Overrides : Define(body)
      BY <1>3
    <2> QED BY <2>1, Defined
  <1>4. CASE \E initial \in Dicts(DOMAIN Current, Inputs) : Make(initial)
    BY <1>1, <1>4, Made DEF Make
  <1>5. CASE \E serialized \in Dicts(DOMAIN Current, SerializedInputs) : Deserialize(serialized)
    BY <1>1, <1>5, Loaded DEF Deserialize
  <1>6. CASE \E values \in Dicts(DOMAIN Current, Inputs) : Update(values)
    BY <1>1, <1>6, Updated DEF Update
  <1>7. CASE \E n \in DOMAIN Current : Delete(n)
    BY <1>1, <1>7, DeleteIs DEF Delete
  <1>8. CASE Clear
    BY <1>1, <1>8, ClearIs DEF Clear
  <1> QED BY <1>2, <1>3, <1>4, <1>5, <1>6, <1>7, <1>8 DEF Next

-----------------------------------------------------------------------------
(* Declarations are as DataAssumption says.                                *)

Arguments(a) ==
    a \in [id : {a.id}, typed : BOOLEAN, checked : Flags, factory : BOOLEAN, serialized : Flags,
           default : {a.default}, required : Flags, changeable : Flags, deletable : Flags,
           finalized : BOOLEAN, abstracted : BOOLEAN]

LEMMA FlagIs ==
    ASSUME NEW flag \in Flags, NEW b \in BOOLEAN
    PROVE  Or(flag, b) \in BOOLEAN
  BY DEF Flags, Or

Relating(a) ==
    a.typed \in BOOLEAN /\ a.checked \in Flags /\ a.factory \in BOOLEAN /\ a.serialized \in Flags

LEMMA RelationshipMade ==
    ASSUME NEW a, Relating(a)
    PROVE  DataRelationship(a) \in Relationships /\ DataRelationship(a).factory = a.factory
  <1>1. Or(a.checked, a.typed) \in BOOLEAN /\ Or(a.serialized, TRUE) \in BOOLEAN
    BY FlagIs DEF Relating
  <1> QED BY <1>1 DEF DataRelationship, Relationships, Relating

\* Arguments a of an attribute with relationship r that holds containers of a class.
Declarable(r, a, class) ==
    /\ r \in Relationships
    /\ a.required \in Flags /\ a.changeable \in Flags /\ a.deletable \in Flags
    /\ a.finalized \in BOOLEAN /\ a.abstracted \in BOOLEAN
    /\ ~ (Or(a.required, TRUE) /\ Or(a.deletable, FALSE))
    /\ class = UNSET => a.default \in PlainValues \cup {UNSET}
    /\ class # UNSET => /\ IsContainerClass(class) /\ r.factory
                        /\ a.default # UNSET => IsSource(class, a.default)

LEMMA AttributeIs ==
    ASSUME NEW r, NEW a, NEW class
    PROVE  [DataAttribute(r, a) EXCEPT !.holds = class] =
             [relationship |-> r, holds |-> class, default |-> a.default,
              required |-> Or(a.required, TRUE), changeable |-> Or(a.changeable, TRUE),
              deletable |-> Or(a.deletable, FALSE),
              finalized |-> a.finalized, abstracted |-> a.abstracted]
  <1> DEFINE d == a.default
             q == Or(a.required, TRUE)
             c == Or(a.changeable, TRUE)
             e == Or(a.deletable, FALSE)
             f == a.finalized
             b == a.abstracted
  <1>1. DataAttribute(r, a) = [relationship |-> r, holds |-> UNSET, default |-> d, required |-> q,
                               changeable |-> c, deletable |-> e, finalized |-> f, abstracted |-> b]
    BY DEF DataAttribute
  <1> HIDE DEF d, q, c, e, f, b
  <1>2. [DataAttribute(r, a) EXCEPT !.holds = class] =
             [relationship |-> r, holds |-> class, default |-> d, required |-> q,
              changeable |-> c, deletable |-> e, finalized |-> f, abstracted |-> b]
    BY <1>1
  <1> QED BY <1>2 DEF d, q, c, e, f, b

LEMMA NoContainers ==
    ASSUME NEW r, NEW a
    PROVE  [DataAttribute(r, a) EXCEPT !.holds = UNSET] = DataAttribute(r, a)
  BY AttributeIs, Zenon DEF DataAttribute

LEMMA AttributeMade ==
    ASSUME NEW r, NEW a, NEW class, Declarable(r, a, class)
    PROVE  AttributeSound([DataAttribute(r, a) EXCEPT !.holds = class])
  <1> DEFINE d == [DataAttribute(r, a) EXCEPT !.holds = class]
  <1>1. /\ Or(a.required, TRUE) \in BOOLEAN /\ Or(a.changeable, TRUE) \in BOOLEAN
        /\ Or(a.deletable, FALSE) \in BOOLEAN
    BY FlagIs DEF Declarable
  <1>2. d = [relationship |-> r, holds |-> class, default |-> a.default,
             required |-> Or(a.required, TRUE), changeable |-> Or(a.changeable, TRUE),
             deletable |-> Or(a.deletable, FALSE),
             finalized |-> a.finalized, abstracted |-> a.abstracted]
    BY AttributeIs, Zenon
  <1> HIDE DEF d
  <1>3. /\ d.relationship = r /\ d.holds = class /\ d.default = a.default
        /\ d.required = Or(a.required, TRUE) /\ d.deletable = Or(a.deletable, FALSE)
    BY <1>2
  <1>4. d \in [relationship : Relationships, holds : {d.holds}, default : {d.default},
               required : BOOLEAN, changeable : BOOLEAN, deletable : BOOLEAN,
               finalized : BOOLEAN, abstracted : BOOLEAN]
    BY <1>1, <1>2 DEF Declarable
  <1> QED BY <1>3, <1>4 DEF AttributeSound, Declarable, d

\* What data_attribute, data_constant_attribute and the declarations of attributes that
\* hold containers make of arguments they accept is sound: a factory of containers is
\* one, what has a value is not required, and what is required cannot be deleted.
THEOREM DeclarationsSound ==
    ASSUME NEW a, Arguments(a), DataAttributeAccepts(a)
    PROVE  /\ a.default \in PlainValues \cup {UNSET} => AttributeSound(DataAttributeDeclared(a))
           /\ \A v \in PlainValues : AttributeSound(DataConstantAttribute(v, a))
           /\ \A base \in DOMAIN Contents :
                LET class == DataContainerClass(base, a)
                IN  /\ class # UNSET
                    /\ IsSource(class, Builtin(<<>>))
                    /\ a.default # UNSET => IsSource(class, a.default)
                    => AttributeSound(DataContainerAttribute(class, a))
  <1>1. /\ a.typed \in BOOLEAN /\ a.checked \in Flags /\ a.factory \in BOOLEAN
        /\ a.serialized \in Flags /\ a.required \in Flags /\ a.changeable \in Flags
        /\ a.deletable \in Flags /\ a.finalized \in BOOLEAN /\ a.abstracted \in BOOLEAN
    BY DEF Arguments
  <1>2. ~ (Or(a.required, TRUE) /\ Or(a.deletable, FALSE))
    BY DEF DataAttributeAccepts
  <1>3. TRUE \in Flags /\ FALSE \in Flags /\ \A b \in BOOLEAN : b \in Flags
    BY DEF Flags
  <1>4. ASSUME a.default \in PlainValues \cup {UNSET}
        PROVE  AttributeSound(DataAttributeDeclared(a))
    <2> DEFINE r == DataRelationship(a)
    <2>1. r \in Relationships
      BY <1>1, RelationshipMade DEF Relating
    <2>2. DataAttributeDeclared(a) = [DataAttribute(r, a) EXCEPT !.holds = UNSET]
      BY NoContainers, Zenon DEF DataAttributeDeclared
    <2> HIDE DEF r
    <2>3. Declarable(r, a, UNSET)
      BY <1>1, <1>2, <1>4, <2>1 DEF Declarable
    <2> QED BY <2>2, <2>3, AttributeMade
  <1>5. ASSUME NEW v \in PlainValues
        PROVE  AttributeSound(DataConstantAttribute(v, a))
    <2> DEFINE x == [a EXCEPT !.typed = TRUE, !.factory = FALSE, !.serialized = Or(a.serialized, FALSE)]
               y == [a EXCEPT !.default = v, !.required = FALSE, !.changeable = FALSE, !.deletable = FALSE]
               r == DataRelationship(x)
    <2>1. /\ x.typed = TRUE /\ x.checked = a.checked /\ x.factory = FALSE
          /\ x.serialized = Or(a.serialized, FALSE)
      BY DEF Arguments
    <2>2. /\ y.default = v /\ y.required = FALSE /\ y.changeable = FALSE /\ y.deletable = FALSE
          /\ y.finalized = a.finalized /\ y.abstracted = a.abstracted
      BY DEF Arguments
    <2>3. DataConstantAttribute(v, a) = [DataAttribute(r, y) EXCEPT !.holds = UNSET]
      BY NoContainers, Zenon DEF DataConstantAttribute
    <2> HIDE DEF x, y
    <2>4. Or(a.serialized, FALSE) \in Flags
      BY <1>1, <1>3, FlagIs
    <2>5. r \in Relationships
      <3>1. Relating(x)
        BY <1>1, <2>1, <2>4 DEF Relating
      <3> QED BY <3>1, RelationshipMade
    <2>6. ~ Or(y.deletable, FALSE)
      BY <2>2 DEF Or
    <2> HIDE DEF r
    <2>7. Declarable(r, y, UNSET)
      BY <1>1, <1>3, <2>2, <2>5, <2>6 DEF Declarable
    <2> QED BY <2>3, <2>7, AttributeMade
  <1>6. ASSUME NEW base \in DOMAIN Contents, NEW class, class = DataContainerClass(base, a),
               class # UNSET, IsSource(class, Builtin(<<>>)),
               a.default # UNSET => IsSource(class, a.default)
        PROVE  AttributeSound(DataContainerAttribute(class, a))
    <2> DEFINE x == [a EXCEPT !.typed = TRUE, !.factory = TRUE]
               y == [a EXCEPT !.default = DataContainerDefault(a), !.required = Or(a.required, FALSE)]
               r == DataRelationship(x)
    <2>1. /\ x.typed = TRUE /\ x.checked = a.checked /\ x.factory = TRUE
          /\ x.serialized = a.serialized
      BY DEF Arguments
    <2>2. /\ y.default = DataContainerDefault(a) /\ y.required = Or(a.required, FALSE)
          /\ y.changeable = a.changeable /\ y.deletable = a.deletable
          /\ y.finalized = a.finalized /\ y.abstracted = a.abstracted
      BY DEF Arguments
    <2>3. DataContainerAttribute(class, a) = [DataAttribute(r, y) EXCEPT !.holds = class]
      BY DEF DataContainerAttribute
    <2> HIDE DEF x, y
    <2>4. r \in Relationships /\ r.factory
      <3>1. Relating(x)
        BY <1>1, <2>1 DEF Relating
      <3> QED BY <2>1, <3>1, RelationshipMade
    <2>5. y.required \in Flags /\ ~ (Or(y.required, TRUE) /\ Or(y.deletable, FALSE))
      BY <1>1, <1>2, <1>3, <2>2 DEF Or, Flags
    <2>6. IsContainerClass(class)
      BY <1>1, <1>6, RelationshipMade DEF Relating, IsContainerClass, DataContainerClass
    <2>7. y.default # UNSET => IsSource(class, y.default)
      BY <1>6, <2>2 DEF DataContainerDefault
    <2> HIDE DEF r
    <2>8. Declarable(r, y, class)
      BY <1>1, <1>6, <2>2, <2>4, <2>5, <2>6, <2>7 DEF Declarable
    <2> QED BY <2>3, <2>8, AttributeMade
  <1> QED BY <1>4, <1>5, <1>6

-----------------------------------------------------------------------------
(* The theorems.                                                           *)

\* What the metaclasses find in the bases is what the classes declare (the loop over the
\* bases in BaseAttributeStructureMeta.__init__), and an instance has values of the
\* attributes of its class, also the required ones.
THEOREM Invariance == Spec => []IInv
  <1>1. IInv /\ [Next]_vars => IInv'
    BY Steps
  <1> QED BY Initially, <1>1, PTL DEF Spec

\* An instance of data is typed and complete, from __init__ or deserialize to the last
\* of its operations, whatever its class overrides (Data.__get_initial_state, _update,
\* _delete, _clear).
THEOREM AlwaysComplete == Spec => []Complete
  <1>1. IInv => Complete
    <2> SUFFICES ASSUME IInv, datum # UNSET
                 PROVE  Typed /\ \A n \in DOMAIN Current : Current[n].required => n \in DOMAIN datum
      BY DEF Complete, Typed
    <2>1. IsState(Current, datum)
      BY DEF IInv
    <2>2. ASSUME NEW n \in DOMAIN datum
          PROVE  IF Current[n].holds = UNSET THEN datum[n] \in PlainValues
                 ELSE /\ datum[n].class = Current[n].holds
                      /\ \A i \in DOMAIN datum[n].elements : datum[n].elements[i] \in PlainValues
      <3> DEFINE a == Current[n]
                 e == datum[n].elements
      <3>1. IsValue(a, datum[n])
        BY <2>1 DEF IsState
      <3>2. CASE a.holds # UNSET
        <4>1. datum[n] = [class |-> a.holds, elements |-> e] /\ IsElements(a.holds.base, e)
          BY <3>1, <3>2 DEF IsValue
        <4>2. \A i \in DOMAIN e : e[i] \in PlainValues
          <5> HIDE DEF e
          <5>1. CASE a.holds.base \in SetBases
            BY <4>1, <5>1 DEF IsElements, Members
          <5>2. CASE a.holds.base \notin SetBases
            BY <4>1, <5>2 DEF IsElements
          <5> QED BY <5>1, <5>2
        <4> QED BY <3>2, <4>1, <4>2
      <3> QED BY <3>1, <3>2 DEF IsValue
    <2> QED BY <2>1, <2>2 DEF Typed, IsState
  <1> QED BY <1>1, Invariance, PTL

\* No class redefines what any of its bases declares final (BaseMeta.__init__).
THEOREM FinalsAlwaysStand == Spec => []FinalsStand
  <1>1. IInv => FinalsStand
    BY DEF IInv, ChainRight, Stand, FinalsStand
  <1> QED BY <1>1, Invariance, PTL

\* What a class promises not to change does not change in an instance of any class that
\* derives from it (BaseAttributeStructureMeta.__init__ with Data._set and _update).
THEOREM PromisesAlwaysKept == Spec => PromisesKept
  <1> DEFINE Kept == \A n \in Names :
                 Promises(n) # {} /\ datum # UNSET
                   => (n \in DOMAIN datum /\ n \in DOMAIN datum' => datum'[n] = datum[n])
  <1>1. ASSUME IInv, [Next]_vars PROVE [Kept]_vars
    <2> SUFFICES ASSUME Next, NEW n \in Names, Promises(n) # {}, datum # UNSET,
                        n \in DOMAIN datum, n \in DOMAIN datum'
                 PROVE  datum'[n] = datum[n]
      BY <1>1
    <2>1. ~ Current[n].changeable
      <3>1. PICK i \in DOMAIN classes : Promised(classes, n, i)
        BY DEF Promises, Promised, Declares
      <3>2. PromisesFound(classes, Found(classes))
        BY <1>1 DEF IInv, ChainRight
      <3> QED BY <1>1, <3>1, <3>2, CurrentSound DEF PromisesFound, Unchanging
    <2>2. CASE \E values \in Dicts(DOMAIN Current, Inputs) : Update(values)
      <3>1. PICK values \in Dicts(DOMAIN Current, Inputs) : Update(values)
        BY <2>2
      <3>2. n \notin DOMAIN values
        BY <2>1, <3>1 DEF Update, MayChange
      <3> QED BY <1>1, <3>1, <3>2, Updated
    <2>3. CASE \E m \in DOMAIN Current : Delete(m)
      BY <1>1, <2>3, DeleteIs
    <2>4. CASE Clear
      BY <1>1, <2>4, ClearIs
    <2> QED BY <2>2, <2>3, <2>4 DEF Next, Define, Make, Deserialize
  <1>2. [][Kept]_vars <=> PromisesKept
    BY DEF PromisesKept
  <1> QED BY <1>1, <1>2, Invariance, PTL DEF Spec

\* What was serialized is the same after it is deserialized (Data.serialize and
\* deserialize): no factory converts a value twice, what was not serialized has its
\* default, and deserialize refuses only if that is required.
THEOREM AlwaysReloadsTheSame == Spec => []ReloadsTheSame
  <1>1. ASSUME IInv, datum # UNSET
        PROVE  ReloadsTheSame
    <2> DEFINE serialized == Serialized(Current, datum)
               back == Deserialized(Current, serialized)
               reloaded == InitialState(Current, back)
               kept == {n \in DOMAIN datum : Current[n].relationship.serialized}
    <2>1. IsState(Current, datum)
      BY <1>1 DEF IInv
    <2>2. /\ DOMAIN serialized = kept
          /\ \A n \in kept : serialized[n] = SerializedValue(Current[n], datum[n])
      BY DEF Serialized
    <2>3. \A n \in kept : n \in DOMAIN datum
      OBVIOUS
    <2>4. \A n \in DOMAIN datum : n \notin kept => ~ Current[n].relationship.serialized
      OBVIOUS
    <2> HIDE DEF kept, serialized
    <2>5. DOMAIN back = kept /\ \A n \in kept : back[n] = datum[n]
      <3>1. /\ DOMAIN back = kept
            /\ \A n \in kept : back[n] = DeserializedValue(Current[n], SerializedValue(Current[n], datum[n]))
        BY <2>2 DEF Deserialized
      <3> QED BY <2>1, <2>3, <3>1, ThereAndBack DEF IsState
    <2> HIDE DEF back
    <2>6. /\ DOMAIN reloaded = DOMAIN back
                                 \cup {n \in DOMAIN Current \ DOMAIN back : Current[n].default # UNSET}
          /\ \A n \in DOMAIN back : reloaded[n] = back[n]
          /\ \A n \in DOMAIN reloaded \ DOMAIN back :
               n \in DOMAIN Current /\ Current[n].default # UNSET
               /\ reloaded[n] = Fabricated(Current[n], Current[n].default)
      BY InitialStateIs, Zenon
    <2> HIDE DEF reloaded
    <2>7. /\ \A n \in kept : n \in DOMAIN reloaded /\ reloaded[n] = datum[n]
          /\ \A n \in DOMAIN reloaded \ kept : Current[n].default # UNSET
      BY <2>5, <2>6
    <2>8. ASSUME Missing(Current, serialized) # {}
          PROVE  \E n \in DOMAIN Current :
                    Current[n].required /\ ~ Current[n].relationship.serialized
      <3>1. PICK n \in DOMAIN Current : n \notin kept /\ Current[n].required
        BY <2>2, <2>8 DEF Missing
      <3>2. n \in DOMAIN datum
        BY <2>1, <3>1 DEF IsState
      <3> QED BY <2>4, <3>1, <3>2
    <2> QED BY <2>7, <2>8 DEF ReloadsTheSame, serialized, back, reloaded, kept
  <1>2. IInv => ReloadsTheSame
    BY <1>1 DEF ReloadsTheSame
  <1> QED BY <1>2, Invariance, PTL
=============================================================================
