-------------------------- MODULE ReactionsProofs --------------------------
(***************************************************************************)
(* Proofs about Reactions: whatever the program's reactions nest into a    *)
(* write, limits are kept, no two children get one name, and the cache has *)
(* the names of the children.                                              *)
(***************************************************************************)
EXTENDS Reactions, FiniteSetTheorems, SequenceTheorems, WellFoundedInduction, TLAPS

-----------------------------------------------------------------------------
(* What a write in progress is.                                            *)

AStore == [names : [Children -> Names], held : SUBSET Children,
           cache : [Names -> Children \cup {None}]]

AnUpdate == [type : {"update"}, child : Children, name : Names, old : Names,
             phase : Habits \cup {"check", "commit", "cache"}, start : AStore]

ChildrenPhases == {"check", "rename", "grandparent before", "commit", "cache"}

OfChildren == [type : {"children"}, coming : SUBSET Children, leaving : SUBSET Children,
               undoing : BOOLEAN, given : [Children -> Names], left : SUBSET Children,
               phase : ChildrenPhases, start : AStore]

AWrite == AnUpdate \cup OfChildren

\* Types of all but the writes.
StoresTyped ==
    /\ program \in Programs /\ limits \in Limits
    /\ names \in [Children -> Names] /\ held \in SUBSET Children
    /\ cache \in [Names -> Children \cup {None}]
    /\ rejections \in 0..MaxRejections /\ calls \in 0..MaxCalls[program]

Typed == StoresTyped /\ writes \in Seq(AWrite)

\* A write into which another is nested goes on, after that, where the program's
\* reaction was called, or with the names of the other children that come.
Outer(w) ==
    \/ w.phase = "check" /\ w.type = "update" /\ "child before" \in program
    \/ w.phase = "commit" /\ "grandparent before" \in program
    \/ w.phase = "commit" /\ w.type = "update" /\ "newcomer before" \in program
    \/ w.phase = "cache" /\ w.type = "update" /\ "child after" \in program
    \/ w.phase = "cache" /\ w.type = "update" /\ "newcomer after" \in program
    \/ w.phase = "rename" /\ w.type = "children"

\* Only updates are nested, each of another child.
Nesting(q) ==
    /\ \A n \in 1..Len(q) : q[n].type = "children" => n = 1
    /\ \A n \in 1..(Len(q) - 1) : Outer(q[n])
    /\ \A m, n \in 1..Len(q) :
         q[m].type = "update" /\ q[n].type = "update" /\ m # n => q[m].child # q[n].child

IsPending(w) == w.phase \in {"child before", "newcomer before", "check", "rename",
                            "grandparent before", "commit"}

Checked(w) == w.phase \in {"grandparent before", "commit"}

\* The reactions of the object run for the children that it holds.
Placed(w) ==
    /\ w.phase \in {"child before", "check", "child after"} => w.child \in held
    /\ w.phase \in {"newcomer before", "newcomer after"} => w.child \notin held

-----------------------------------------------------------------------------
(* Limits.                                                                 *)

\* Only a write of children that was committed changes what is held.
HeldRight(w) ==
    /\ \/ w.start.held = held
       \/ w.type = "children" /\ ~ IsPending(w)
    /\ Cardinality(w.start.held) <= Maximum
    /\ \/ w.type = "children" /\ w.undoing
       \/ Cardinality(w.start.held) >= Minimum => Cardinality(held) >= Minimum
    /\ w.type = "children" /\ IsPending(w) =>
         /\ w.coming \cap held = {} /\ w.leaving \subseteq held /\ w.left \subseteq w.coming
         /\ w.phase # "check" => WithinLimits(w)
    /\ w.type = "update" => Placed(w)

LimitsRight(q) ==
    /\ Cardinality(held) <= Maximum
    /\ \A n \in 1..Len(q) : HeldRight(q[n])

-----------------------------------------------------------------------------
(* Names.                                                                  *)

Distinct(ns, cs) == \A c, d \in cs : ns[c] = ns[d] => c = d

\* The name that a pending update replaces is still there; a name that was
\* checked is still free. Until children come, the others keep their names, and those
\* that the children are given are nobody else's.
NameRight(w) ==
    /\ Distinct(w.start.names, w.start.held)
    /\ w.type = "update" /\ IsPending(w) => names[w.child] = w.old
    /\ w.type = "update" /\ Checked(w) => ~ (Changes(w) /\ Taken(w.child, w.name))
    /\ w.type = "children" /\ IsPending(w) =>
         \A c \in held : names[c] = w.start.names[c] /\ w.given[c] = w.start.names[c]
    /\ w.type = "children" /\ w.phase = "rename" => Distinct(w.given, held \cup w.coming)
    /\ w.type = "children" /\ Checked(w) => Distinct(names, held \cup w.coming)

\* So it is in the stores to which a write nested into it goes back.
OldStands(w, u) == w.type = "update" /\ IsPending(w) => u.start.names[w.child] = w.old

NamesRight(q) ==
    ~ WritesAfterCheck =>
      /\ Differ
      /\ \A n \in 1..Len(q) : NameRight(q[n])
      /\ \A n \in 1..Len(q) : \A m \in 1..n : OldStands(q[m], q[n])

\* Only the updates with the names given to the children that come are nested into
\* the write that brings them; each has its name when its update was committed.
Renaming(w) == w.type = "children" /\ w.phase = "rename"

Renames(w, u) ==
    /\ u.type = "update" /\ u.child \in w.coming \ w.left
    /\ u.name = w.given[u.child]

RenamesRight(q) ==
    ~ WritesAfterCheck /\ q # <<>> /\ Renaming(q[1]) =>
      /\ \A n \in 2..Len(q) : Renames(q[1], q[n])
      /\ \A c \in q[1].coming \ q[1].left :
           names[c] = q[1].given[c] \/ \E n \in 2..Len(q) : IsPending(q[n]) /\ q[n].child = c

-----------------------------------------------------------------------------
(* The cache.                                                              *)

Exact(ch, ns, cs) ==
    \A n \in Names : IF ch[n] = None THEN \A c \in cs : ns[c] # n
                     ELSE ch[n] \in cs /\ ns[ch[n]] = n

\* Until a write is over, the cache is what it was before it.
NamesBefore(w) ==
    IF w.type = "update" /\ ~ IsPending(w) THEN [names EXCEPT ![w.child] = w.old] ELSE names

CacheBehind(w) ==
    IF w.type = "update"
    THEN /\ Exact(cache, NamesBefore(w), held)
         /\ ~ IsPending(w) => names[w.child] = w.name /\ Distinct(NamesBefore(w), held)
    ELSE /\ Exact(cache, names, w.start.held)
         /\ ~ IsPending(w) =>
              /\ w.coming \cap w.start.held = {} /\ w.leaving \subseteq w.start.held
              /\ held = (w.start.held \ w.leaving) \cup w.coming
              /\ Distinct(names, w.start.held \cup w.coming)

CacheRight(q) ==
    ~ WritesAfterCheck /\ "child after" \notin program =>
      /\ \A n \in 1..Len(q) : Exact(q[n].start.cache, q[n].start.names, q[n].start.held)
      /\ IF q = <<>> THEN Exact(cache, names, held) ELSE CacheBehind(q[Len(q)])

Upheld(q) == Nesting(q) /\ LimitsRight(q) /\ NamesRight(q) /\ CacheRight(q)

Right(q) == Upheld(q) /\ RenamesRight(q)

IInv == Typed /\ Right(writes)

-----------------------------------------------------------------------------
(* Induction.                                                              *)

LEMMA LeastNumber ==
    ASSUME NEW T \in SUBSET Nat, T # {}
    PROVE  \E x \in T : \A y \in T : x <= y
  <1> DEFINE R == OpToRel(<, Nat)
  <1>1. IsWellFoundedOn(R, Nat)
    BY NatLessThanWellFounded
  <1>2. \A x, y \in Nat : <<x, y>> \in R <=> x < y
    BY DEF OpToRel
  <1> HIDE DEF R
  <1>3. \E x \in T : \A y \in T : ~ (<<y, x>> \in R)
    BY <1>1, WFMin
  <1>4. \A x, y \in T : <<y, x>> \in R <=> y < x
    BY <1>2
  <1>5. \A x, y \in T : ~ (y < x) => x <= y
    OBVIOUS
  <1> QED BY <1>3, <1>4, <1>5

LEMMA Induct ==
    ASSUME NEW S, 0 \in S, \A n \in Nat : n \in S => n + 1 \in S
    PROVE  \A n \in Nat : n \in S
  <1> DEFINE T == {n \in Nat : n \notin S}
  <1> SUFFICES ASSUME T # {} PROVE FALSE
    OBVIOUS
  <1>1. PICK x \in T : \A y \in T : x <= y
    BY LeastNumber
  <1>2. x # 0 /\ x - 1 \in Nat /\ x - 1 \notin T
    BY <1>1
  <1> QED BY <1>2

-----------------------------------------------------------------------------
(* The names given to the children that come.                              *)

\* The definition of after in Given.
Give(order, f, n) ==
    IF n = 0 THEN [ok |-> TRUE, names |-> [c \in held \cup ToSet(order) |-> names[c]]]
    ELSE LET g == f[n - 1]
             c == order[n]
             name == g.names[c]
         IN  IF ~ g.ok \/ CountIn(g.names, name) = 1 THEN g
             ELSE IF NextName(name) = None \/ CountIn(g.names, NextName(name)) > 0
                  THEN [g EXCEPT !.ok = FALSE]
                  ELSE [g EXCEPT !.names[c] = NextName(name)]

\* The recursion is one: there is a function as it says.
LEMMA Giving ==
    ASSUME NEW order, NEW N \in Nat
    PROVE  \E f : f = [m \in 0..N |-> Give(order, f, m)]
  <1> DEFINE S == {n \in Nat : \E f : f = [m \in 0..n |-> Give(order, f, m)]}
  <1>1. 0 \in S
    <2> DEFINE e == [ok |-> TRUE, names |-> [c \in held \cup ToSet(order) |-> names[c]]]
               f == [m \in 0..0 |-> e]
    <2>1. \A m \in 0..0 : Give(order, f, m) = e
      BY DEF Give
    <2> HIDE DEF e
    <2>2. f = [m \in 0..0 |-> Give(order, f, m)]
      BY <2>1
    <2> QED BY <2>2
  <1>2. ASSUME NEW n \in Nat, n \in S
        PROVE  n + 1 \in S
    <2>1. PICK f : f = [m \in 0..n |-> Give(order, f, m)]
      BY <1>2
    <2> DEFINE g == [m \in 0..(n + 1) |-> IF m = n + 1 THEN Give(order, f, n + 1) ELSE f[m]]
    <2>2. \A m \in 0..n : g[m] = f[m] /\ f[m] = Give(order, f, m)
      BY <2>1
    <2>3. g[n + 1] = Give(order, f, n + 1)
      OBVIOUS
    <2>4. \A m \in 0..(n + 1) : m - 1 \in 0..n \/ m = 0
      OBVIOUS
    <2>5. \A m \in 0..(n + 1) : Give(order, g, m) = Give(order, f, m)
      <3> HIDE DEF g
      <3> QED BY <2>2, <2>4 DEF Give
    <2>6. \A m \in 0..(n + 1) : g[m] = Give(order, g, m)
      <3> HIDE DEF g
      <3> TAKE m \in 0..(n + 1)
      <3>1. m \in 0..n \/ m = n + 1
        OBVIOUS
      <3> QED BY <2>2, <2>3, <2>5, <3>1
    <2>7. g = [m \in 0..(n + 1) |-> g[m]]
      OBVIOUS
    <2> HIDE DEF g
    <2>8. g = [m \in 0..(n + 1) |-> Give(order, g, m)]
      BY <2>6, <2>7
    <2> QED BY <2>8
  <1> HIDE DEF S
  <1>3. N \in S
    BY <1>1, <1>2, Induct
  <1> QED BY <1>3 DEF S

LEMMA GivenIs ==
    ASSUME NEW order, Len(order) \in Nat
    PROVE  \E f : /\ f = [m \in 0..Len(order) |-> Give(order, f, m)]
                  /\ Given(order) = f[Len(order)]
  <1> DEFINE after == CHOOSE f : f = [m \in 0..Len(order) |-> Give(order, f, m)]
  <1>1. after = [m \in 0..Len(order) |-> Give(order, after, m)]
    BY Giving
  <1>2. Given(order) = after[Len(order)]
    BY DEF Given, Give
  <1> QED BY <1>1, <1>2

\* A name that is counted once is nobody else's, one that is not counted nobody's.
LEMMA Counted ==
    ASSUME NEW cs \in SUBSET Children, NEW g \in [cs -> Names], NEW name
    PROVE  /\ CountIn(g, name) \in Nat
           /\ CountIn(g, name) = 0 => \A c \in cs : g[c] # name
           /\ CountIn(g, name) = 1 =>
                \A c, d \in cs : g[c] = name /\ g[d] = name => c = d
  <1> DEFINE C == {c \in cs : g[c] = name}
  <1>1. DOMAIN g = cs /\ CountIn(g, name) = Cardinality(C)
    BY DEF CountIn
  <1>2. IsFiniteSet(C)
    BY ReactionsAssumption, FS_Subset
  <1>3. /\ Cardinality(C) \in Nat
        /\ Cardinality(C) = 0 => C = {}
        /\ Cardinality(C) = 1 => \E x : C = {x}
    BY <1>2, FS_CardinalityType, FS_EmptySet, FS_Singleton
  <1> QED BY <1>1, <1>3

\* If all children that come get a name, it is another one than anybody else's; those
\* that are there keep theirs.
LEMMA GivenNames ==
    ASSUME Typed, NEW coming \in SUBSET Children, coming \cap held = {},
           NEW order \in SetToSeqs(coming)
    PROVE  /\ Given(order).names \in [held \cup coming -> Names]
           /\ \A c \in held : Given(order).names[c] = names[c]
           /\ Differ /\ Given(order).ok => Distinct(Given(order).names, held \cup coming)
  <1> DEFINE cs == held \cup coming
  <1>1. /\ IsFiniteSet(coming) /\ Cardinality(coming) \in Nat
        /\ ExistsBijection(1..Cardinality(coming), coming)
    BY ReactionsAssumption, FS_Subset, FS_CardinalityType
  <1> DEFINE N == Cardinality(coming)
  <1>2. /\ order \in [1..N -> coming]
        /\ \A i, j \in 1..N : i # j => order[i] # order[j]
    BY DEF SetToSeqs
  <1>3. IsFiniteSet(1..N) /\ Cardinality(1..N) = N
    BY <1>1, FS_Interval
  <1>4. order \in Injection(1..N, coming)
    BY <1>2 DEF Injection, IsInjective
  <1>5. order \in Surjection(1..N, coming)
    BY <1>1, <1>3, <1>4, FS_Injection
  <1>6. Len(order) = N /\ order \in Seq(Children)
    BY <1>1, <1>2
  <1>7. ToSet(order) = coming
    BY <1>2, <1>5 DEF ToSet, Surjection
  <1>8. cs \in SUBSET Children /\ names \in [Children -> Names]
    BY DEF Typed, StoresTyped
  <1>9. PICK f : /\ f = [m \in 0..N |-> Give(order, f, m)]
                 /\ Given(order) = f[N]
    BY <1>1, <1>6, GivenIs
  <1> HIDE DEF N
  <1>10. \A n \in 0..N : f[n] = Give(order, f, n)
    BY <1>9
  \* Those that are there and the first n that come have different names.
  <1> DEFINE Early(n) == held \cup {order[i] : i \in 1..n}
             Good(n) == /\ f[n] = [ok |-> f[n].ok, names |-> f[n].names]
                        /\ f[n].ok \in BOOLEAN
                        /\ f[n].names \in [cs -> Names]
                        /\ \A c \in held : f[n].names[c] = names[c]
                        /\ Differ /\ f[n].ok =>
                              \A c \in Early(n) : \A d \in Early(n) :
                                 f[n].names[c] = f[n].names[d] => c = d
             S == {n \in Nat : n <= N => Good(n)}
  <1>11. 0 \in S
    <2>1. f[0] = [ok |-> TRUE, names |-> [c \in cs |-> names[c]]]
      <3>1. Give(order, f, 0) = [ok |-> TRUE, names |-> [c \in held \cup ToSet(order) |-> names[c]]]
        BY DEF Give
      <3>2. 0 \in 0..N
        BY <1>1 DEF N
      <3> QED BY <1>7, <1>10, <3>1, <3>2
    <2>2. Early(0) = held
      OBVIOUS
    <2> DEFINE g == [c \in cs |-> names[c]]
    <2>3. g \in [cs -> Names] /\ \A c \in cs : g[c] = names[c]
      BY <1>8
    <2> HIDE DEF g, Early
    <2>4. f[0].ok = TRUE /\ f[0].names = g /\ f[0] = [ok |-> f[0].ok, names |-> f[0].names]
      BY <2>1 DEF g
    <2> HIDE DEF cs
    <2>5. Good(0)
      BY <2>2, <2>3, <2>4 DEF Differ, cs
    <2> QED BY <2>5
  <1>12. ASSUME NEW n \in Nat, n \in S
         PROVE  n + 1 \in S
    <2> SUFFICES ASSUME n + 1 <= N
                 PROVE  Good(n + 1)
      OBVIOUS
    <2> DEFINE g == f[n]
               c == order[n + 1]
               name == g.names[c]
               next == NextName(name)
    <2>1. N \in Nat /\ n \in 0..N /\ n + 1 \in 0..N /\ n + 1 \in 1..N /\ (n + 1) - 1 = n
      BY <1>1 DEF N
    <2>2. Good(n)
      BY <1>12, <2>1
    <2>3. f[n + 1] = IF ~ g.ok \/ CountIn(g.names, name) = 1 THEN g
                     ELSE IF next = None \/ CountIn(g.names, next) > 0
                          THEN [g EXCEPT !.ok = FALSE]
                          ELSE [g EXCEPT !.names[c] = next]
      <3>1. Give(order, f, n + 1) =
              IF ~ f[(n + 1) - 1].ok \/ CountIn(f[(n + 1) - 1].names, f[(n + 1) - 1].names[order[n + 1]]) = 1
              THEN f[(n + 1) - 1]
              ELSE IF \/ NextName(f[(n + 1) - 1].names[order[n + 1]]) = None
                      \/ CountIn(f[(n + 1) - 1].names,
                                  NextName(f[(n + 1) - 1].names[order[n + 1]])) > 0
                   THEN [f[(n + 1) - 1] EXCEPT !.ok = FALSE]
                   ELSE [f[(n + 1) - 1] EXCEPT !.names[order[n + 1]]
                                                 = NextName(f[(n + 1) - 1].names[order[n + 1]])]
        <4>1. n + 1 # 0
          BY <2>1
        <4> QED BY <4>1 DEF Give
      <3>2. f[n + 1] = Give(order, f, n + 1)
        BY <1>10, <2>1
      <3> QED BY <2>1, <3>1, <3>2
    <2>4. /\ c \in coming /\ c \in cs /\ c \notin held
          /\ name \in Names
      BY <1>2, <2>1, <2>2
    <2>5. Early(n + 1) = Early(n) \cup {c} /\ Early(n) \subseteq cs
      <3>1. \A i \in 1..(n + 1) : i \in 1..n \/ i = n + 1
        OBVIOUS
      <3>2. \A i \in 1..n : i \in 1..(n + 1) /\ order[i] \in cs
        BY <1>2, <2>1
      <3> QED BY <3>1, <3>2
    <2>6. c \notin Early(n)
      <3>1. \A i \in 1..n : i \in 1..N /\ i # n + 1
        BY <2>1
      <3> QED BY <1>2, <2>1, <2>4, <3>1
    <2> HIDE DEF Early
    <2>7. CASE ~ g.ok
      BY <2>2, <2>3, <2>7
    <2>8. CASE g.ok /\ CountIn(g.names, name) = 1
      <3>1. \A d \in cs : g.names[d] = name => d = c
        BY <1>8, <2>2, <2>4, <2>8, Counted
      <3>2. f[n + 1] = g
        BY <2>3, <2>8
      <3> SUFFICES ASSUME Differ
                   PROVE  \A d \in Early(n + 1) : \A e \in Early(n + 1) :
                             g.names[d] = g.names[e] => d = e
        BY <2>2, <3>2
      <3>0. Differ
        OBVIOUS
      <3>3. \A d \in Early(n + 1) : \A e \in Early(n + 1) : g.names[d] = g.names[e] => d = e
        <4> TAKE d \in Early(n + 1)
        <4> TAKE e \in Early(n + 1)
        <4>1. d \in cs /\ e \in cs /\ (d = c \/ d \in Early(n)) /\ (e = c \/ e \in Early(n))
          BY <2>4, <2>5
        <4>2. CASE d = c \/ e = c
          BY <3>1, <4>1, <4>2
        <4>3. CASE d \in Early(n) /\ e \in Early(n)
          BY <2>2, <2>8, <3>0, <4>3
        <4> QED BY <4>1, <4>2, <4>3
      <3> QED BY <3>3
    <2>9. CASE /\ g.ok /\ CountIn(g.names, name) # 1
               /\ next = None \/ CountIn(g.names, next) > 0
      BY <2>2, <2>3, <2>9
    <2>10. CASE /\ g.ok /\ CountIn(g.names, name) # 1
                /\ next # None /\ ~ (CountIn(g.names, next) > 0)
      <3>1. next \in Names
        BY <2>4, <2>10, ReactionsAssumption DEF NextName
      <3>2. CountIn(g.names, next) \in Nat
        BY <1>8, <2>2, Counted
      <3>3. \A d \in cs : g.names[d] # next
        BY <1>8, <2>2, <2>10, <3>2, Counted
      <3>4. f[n + 1] = [g EXCEPT !.names[c] = next]
        BY <2>3, <2>10
      <3>5. f[n + 1] = [ok |-> TRUE, names |-> [g.names EXCEPT ![c] = next]]
        BY <2>2, <2>10, <3>4
      <3> QED BY <2>2, <2>4, <2>5, <2>6, <2>10, <3>1, <3>3, <3>5
    <2> QED BY <2>7, <2>8, <2>9, <2>10
  <1> HIDE DEF S, Early
  <1>13. N \in S
    BY <1>1, <1>11, <1>12, Induct DEF N
  <1>14. Good(N)
    BY <1>1, <1>13 DEF S, N
  <1>15. \A c \in cs : c \in Early(N)
    BY <1>5 DEF Early, Surjection, N
  <1> QED BY <1>9, <1>14, <1>15 DEF Distinct

-----------------------------------------------------------------------------
(* Writes and phases.                                                      *)

LEMMA WriteIs ==
    ASSUME NEW w \in AWrite
    PROVE  /\ w.type \in {"update", "children"}
           /\ w.start.names \in [Children -> Names] /\ w.start.held \in SUBSET Children
           /\ w.start.cache \in [Names -> Children \cup {None}]
           /\ w.phase \in Habits \cup {"check", "rename", "commit", "cache"}
           /\ w.type = "update" =>
                /\ w \in AnUpdate /\ w.child \in Children /\ w.name \in Names /\ w.old \in Names
                /\ w.phase \in Habits \cup {"check", "commit", "cache"}
           /\ w.type = "children" =>
                /\ w \in OfChildren /\ w.coming \in SUBSET Children /\ w.leaving \in SUBSET Children
                /\ w.given \in [Children -> Names] /\ w.left \in SUBSET Children
                /\ w.undoing \in BOOLEAN /\ w.phase \in ChildrenPhases
  <1>1. CASE w \in AnUpdate
    BY <1>1 DEF AnUpdate, AStore
  <1>2. CASE w \in OfChildren
    <2>1. w.phase \in ChildrenPhases
      BY <1>2 DEF OfChildren
    <2>2. w.phase \in Habits \cup {"check", "rename", "commit", "cache"}
      BY <2>1 DEF Habits, ChildrenPhases
    <2> QED BY <1>2, <2>1, <2>2 DEF OfChildren, AStore
  <1> QED BY <1>1, <1>2 DEF AWrite

LEMMA Phased ==
    ASSUME NEW w \in AWrite, NEW p \in Habits \cup {"check", "commit", "cache"},
           w.type = "children" => p \in ChildrenPhases
    PROVE  LET v == [w EXCEPT !.phase = p]
           IN  /\ v \in AWrite /\ v.type = w.type /\ v.start = w.start /\ v.phase = p
               /\ w.type = "update" => v.child = w.child /\ v.name = w.name /\ v.old = w.old
               /\ w.type = "children" => /\ v.coming = w.coming /\ v.leaving = w.leaving
                                         /\ v.undoing = w.undoing /\ v.given = w.given
                                         /\ v.left = w.left
  <1>1. CASE w.type = "update"
    <2>1. w \in AnUpdate
      BY <1>1, WriteIs
    <2> DEFINE v == [w EXCEPT !.phase = p]
    <2>2. v \in AnUpdate
      BY <2>1 DEF AnUpdate
    <2>3. /\ v.type = w.type /\ v.start = w.start /\ v.phase = p
          /\ v.child = w.child /\ v.name = w.name /\ v.old = w.old
      BY <2>1 DEF AnUpdate
    <2> HIDE DEF v
    <2>4. v \in AWrite /\ w.type # "children"
      BY <1>1, <2>2 DEF AWrite
    <2> QED BY <2>3, <2>4 DEF v
  <1>2. CASE w.type = "children"
    <2>1. w \in OfChildren
      BY <1>2, WriteIs
    <2> DEFINE v == [w EXCEPT !.phase = p]
    <2>2. v \in OfChildren
      BY <1>2, <2>1 DEF OfChildren
    <2>3. /\ v.type = w.type /\ v.start = w.start /\ v.phase = p
          /\ v.coming = w.coming /\ v.leaving = w.leaving
          /\ v.undoing = w.undoing /\ v.given = w.given /\ v.left = w.left
      BY <2>1 DEF OfChildren
    <2> HIDE DEF v
    <2>4. v \in AWrite /\ w.type # "update"
      BY <1>2, <2>2 DEF AWrite
    <2> QED BY <2>3, <2>4 DEF v
  <1> QED BY <1>1, <1>2, WriteIs

LEMMA TopIs ==
    ASSUME Typed, writes # <<>>
    PROVE  /\ Len(writes) \in Nat \ {0} /\ DOMAIN writes = 1..Len(writes)
           /\ Len(writes) \in 1..Len(writes)
           /\ Innermost = writes[Len(writes)] /\ Innermost \in AWrite
           /\ \A n \in 1..Len(writes) : writes[n] \in AWrite
           /\ \A n \in 1..(Len(writes) - 1) : n \in 1..Len(writes)
           /\ writes[1] \in AWrite
  <1>1. writes \in Seq(AWrite)
    BY DEF Typed
  <1>2. Len(writes) \in Nat \ {0}
    BY <1>1, EmptySeq
  <1>3. Len(writes) \in 1..Len(writes) /\ 1 \in 1..Len(writes)
    BY <1>2
  <1> QED BY <1>1, <1>2, <1>3 DEF Innermost, Last

\* q is writes with another write in place of the innermost one.
Replaces(q, v) ==
    /\ q \in Seq(AWrite) /\ q # <<>> /\ Len(q) = Len(writes)
    /\ q[Len(writes)] = v
    /\ \A n \in 1..(Len(writes) - 1) : q[n] = writes[n]

LEMMA TopReplaced ==
    ASSUME Typed, writes # <<>>, NEW v \in AWrite
    PROVE  Replaces([writes EXCEPT ![Len(writes)] = v], v)
  <1>1. writes \in Seq(AWrite) /\ Len(writes) \in Nat \ {0} /\ Len(writes) \in DOMAIN writes
    BY TopIs DEF Typed
  <1> DEFINE q == [writes EXCEPT ![Len(writes)] = v]
  <1>2. q \in Seq(AWrite) /\ Len(q) = Len(writes)
    BY <1>1
  <1>3. q # <<>>
    BY <1>1, <1>2
  <1>4. q[Len(writes)] = v /\ \A n \in 1..(Len(writes) - 1) : q[n] = writes[n]
    <2>1. DOMAIN writes = 1..Len(writes) /\ \A n \in 1..(Len(writes) - 1) : n \in 1..Len(writes) /\ n # Len(writes)
      BY <1>1
    <2> QED BY <1>1, <2>1
  <1> QED BY <1>2, <1>3, <1>4 DEF Replaces

LEMMA LastReplaced ==
    ASSUME Typed, writes # <<>>, NEW v \in AWrite
    PROVE  Replaces(Append(Front(writes), v), v)
  <1>1. writes \in Seq(AWrite) /\ Len(writes) \in Nat \ {0}
    BY TopIs DEF Typed
  <1>2. /\ Front(writes) \in Seq(AWrite) /\ Len(Front(writes)) = Len(writes) - 1
        /\ \A n \in 1..(Len(writes) - 1) : Front(writes)[n] = writes[n]
    <2> DEFINE n == Len(writes)
    <2>1. n \in Nat \ {0} /\ writes \in Seq(AWrite) /\ \A i \in 1..n : writes[i] \in AWrite
      BY <1>1
    <2> HIDE DEF n
    <2>2. /\ SubSeq(writes, 1, n - 1) \in Seq(AWrite) /\ Len(SubSeq(writes, 1, n - 1)) = n - 1
          /\ \A i \in 1..(n - 1) : SubSeq(writes, 1, n - 1)[i] = writes[i]
      <3>1. \A i \in 1..(n - 1) : i \in 1..n
        BY <2>1
      <3> QED BY <2>1, <3>1, SubSeqProperties
    <2> QED BY <2>2 DEF Front, n
  <1> DEFINE q == Append(Front(writes), v)
  <1>3. /\ q \in Seq(AWrite) /\ Len(q) = Len(writes) /\ q[Len(writes)] = v
        /\ \A n \in 1..(Len(writes) - 1) : q[n] = Front(writes)[n]
    BY <1>1, <1>2, AppendProperties
  <1>4. q # <<>>
    BY <1>1, <1>3
  <1> QED BY <1>2, <1>3, <1>4 DEF Replaces

LEMMA PhaseReplaced ==
    ASSUME Typed, writes # <<>>, NEW p \in Habits \cup {"check", "commit", "cache"},
           Innermost.type = "children" => p \in ChildrenPhases
    PROVE  Replaces(WithPhase(p), [Innermost EXCEPT !.phase = p])
  <1> DEFINE v == [Innermost EXCEPT !.phase = p]
  <1>1. v \in AWrite
    BY TopIs, Phased
  <1>2. WithPhase(p) = [writes EXCEPT ![Len(writes)] = v]
    BY TopIs DEF WithPhase
  <1> HIDE DEF v
  <1> QED BY <1>1, <1>2, TopReplaced DEF v

\* What a write in place of the innermost one has to be.
LEMMA ReplacedNesting ==
    ASSUME Typed, Nesting(writes), writes # <<>>, NEW q, NEW v, Replaces(q, v),
           v.type = Innermost.type, v.type = "update" => v.child = Innermost.child
    PROVE  Nesting(q)
  <1>1. /\ Len(q) = Len(writes) /\ Len(writes) \in Nat \ {0} /\ Len(writes) \in 1..Len(writes)
        /\ Innermost = writes[Len(writes)]
        /\ \A n \in 1..(Len(writes) - 1) : n \in 1..Len(writes)
    BY TopIs DEF Replaces
  <1>2. \A n \in 1..Len(writes) :
          /\ q[n].type = writes[n].type
          /\ writes[n].type = "update" => q[n].child = writes[n].child
    <2> TAKE n \in 1..Len(writes)
    <2>1. n = Len(writes) \/ n \in 1..(Len(writes) - 1)
      BY <1>1
    <2> QED BY <1>1, <2>1 DEF Replaces
  <1>3. \A n \in 1..(Len(q) - 1) : Outer(q[n])
    BY <1>1 DEF Nesting, Replaces
  <1> QED BY <1>1, <1>2, <1>3, ZenonT(60) DEF Nesting

LEMMA Prefix == \A k \in Nat : \A i \in 1..k : \A j \in 1..i : j \in 1..k
  OBVIOUS

LEMMA Singleton == 1..1 = {1} /\ 1..(1 - 1) = {} /\ 1 \in 1..1 /\ 2..1 = {}
  OBVIOUS

LEMMA NotOne == \A k \in Nat \ {0} : k # 1 => k \in 2..k
  OBVIOUS

LEMMA NotZero == \A k \in Nat : k # 0 => k \in Nat \ {0} /\ k \in 1..k
  OBVIOUS

LEMMA OneMore ==
    \A k \in Nat : /\ k + 1 \in Nat /\ k + 1 \in 1..(k + 1) /\ (k + 1) - 1 = k
                   /\ \A n \in 1..(k + 1) : \/ n = k + 1
                                            \/ n \in 1..k /\ n # k + 1
  OBVIOUS

\* A write that goes on without changing anything but its phase and the names left.
LEMMA GoesOn ==
    ASSUME IInv, writes # <<>>, NEW v \in AWrite, NEW q, Replaces(q, v),
           v.type = Innermost.type, v.start = Innermost.start,
           v.type = "update" => /\ v.child = Innermost.child /\ v.name = Innermost.name
                                /\ v.old = Innermost.old /\ Placed(v),
           v.type = "children" => /\ v.coming = Innermost.coming
                                  /\ v.leaving = Innermost.leaving
                                  /\ v.undoing = Innermost.undoing
                                  /\ v.given = Innermost.given
                                  /\ v.left \subseteq Innermost.left
                                  /\ Innermost.phase # "check"
                                  /\ v.phase = "rename" => Innermost.phase = "rename",
           IsPending(v) <=> IsPending(Innermost),
           Checked(v) => \/ Checked(Innermost)
                         \/ v.type = "update" /\ ~ (Changes(v) /\ Taken(v.child, v.name))
                         \/ /\ v.type = "children"
                            /\ ~ WritesAfterCheck => Distinct(names, held \cup v.coming)
    PROVE  Upheld(q)
  <1>1. /\ Typed /\ Upheld(writes)
        /\ Len(q) = Len(writes) /\ Len(writes) \in Nat \ {0} /\ Len(writes) \in 1..Len(writes)
        /\ Innermost = writes[Len(writes)] /\ q[Len(writes)] = v /\ q # <<>>
    BY TopIs DEF IInv, Replaces, Right
  <1>2. \A n \in 1..Len(writes) :
          \/ n = Len(writes)
          \/ n \in 1..(Len(writes) - 1) /\ q[n] = writes[n]
    <2> TAKE n \in 1..Len(writes)
    <2>1. n = Len(writes) \/ n \in 1..(Len(writes) - 1)
      BY <1>1
    <2> QED BY <2>1 DEF Replaces
  <1>3. v.type \in {"update", "children"}
    BY WriteIs
  <1>4. Nesting(q)
    BY <1>1, ReplacedNesting DEF Upheld
  <1>5. LimitsRight(q)
    <2>1. HeldRight(v)
      <3>1. HeldRight(Innermost)
        BY <1>1 DEF Upheld, LimitsRight
      <3>2. v.type = "children" => (WithinLimits(v) <=> WithinLimits(Innermost))
        BY DEF WithinLimits
      <3> QED BY <1>3, <3>1, <3>2 DEF HeldRight
    <2> QED BY <1>1, <1>2, <2>1 DEF Upheld, LimitsRight
  <1>6. NamesRight(q)
    <2> SUFFICES ASSUME ~ WritesAfterCheck
                 PROVE  /\ Differ
                        /\ \A n \in 1..Len(q) : NameRight(q[n])
                        /\ \A n \in 1..Len(q) : \A m \in 1..n : OldStands(q[m], q[n])
      BY DEF NamesRight
    <2>1. /\ Differ
          /\ \A n \in 1..Len(writes) : NameRight(writes[n])
          /\ \A n \in 1..Len(writes) : \A m \in 1..n : OldStands(writes[m], writes[n])
      BY <1>1 DEF Upheld, NamesRight
    <2>2. NameRight(v)
      <3>1. NameRight(Innermost)
        BY <1>1, <2>1
      <3>2. v.type = "update" => (Changes(v) <=> Changes(Innermost))
        BY DEF Changes
      <3> QED BY <1>3, <3>1, <3>2 DEF NameRight
    <2>3. \A n \in 1..Len(writes) : NameRight(q[n])
      BY <1>1, <1>2, <2>1, <2>2
    <2>4. ASSUME NEW n \in 1..Len(writes), NEW m \in 1..n
          PROVE  OldStands(q[m], q[n])
      <3>1. m \in 1..Len(writes)
        BY <1>1, Prefix
      <3>2. OldStands(writes[m], writes[n])
        BY <2>1
      <3>3. q[n].start = writes[n].start
        BY <1>1, <1>2
      <3>4. /\ q[m].type = "update" /\ IsPending(q[m]) =>
                 writes[m].type = "update" /\ IsPending(writes[m])
            /\ q[m].type = "update" =>
                 q[m].child = writes[m].child /\ q[m].old = writes[m].old
        BY <1>1, <1>2, <3>1
      <3> QED BY <3>2, <3>3, <3>4 DEF OldStands
    <2> QED BY <1>1, <2>1, <2>3, <2>4
  <1>7. CacheRight(q)
    <2>1. CacheBehind(Innermost) => CacheBehind(v)
      BY <1>3 DEF CacheBehind, NamesBefore
    <2>2. \A n \in 1..Len(writes) : q[n].start = writes[n].start
      BY <1>1, <1>2
    <2> QED BY <1>1, <2>1, <2>2 DEF Upheld, CacheRight
  <1> QED BY <1>4, <1>5, <1>6, <1>7 DEF Upheld

\* One that goes on to no other name.
LEMMA PassedRenames ==
    ASSUME IInv, writes # <<>>, NEW v \in AWrite, NEW q, Replaces(q, v),
           v.type = Innermost.type, ~ Renaming(v),
           v.type = "update" => v.child = Innermost.child /\ v.name = Innermost.name,
           IsPending(v) <=> IsPending(Innermost)
    PROVE  RenamesRight(q)
  <1>1. /\ Typed /\ RenamesRight(writes) /\ Nesting(writes)
        /\ Len(q) = Len(writes) /\ Len(writes) \in Nat \ {0} /\ Len(writes) \in 1..Len(writes)
        /\ Innermost = writes[Len(writes)] /\ q[Len(writes)] = v /\ q # <<>>
    BY TopIs DEF IInv, Replaces, Right, Upheld
  <1> SUFFICES ASSUME ~ WritesAfterCheck, Renaming(q[1])
               PROVE  /\ \A n \in 2..Len(q) : Renames(q[1], q[n])
                      /\ \A c \in q[1].coming \ q[1].left :
                           \/ names[c] = q[1].given[c]
                           \/ \E n \in 2..Len(q) : IsPending(q[n]) /\ q[n].child = c
    BY DEF RenamesRight
  <1>2. Len(writes) # 1 /\ 1 \in 1..(Len(writes) - 1)
    BY <1>1
  <1>3. q[1] = writes[1]
    BY <1>2 DEF Replaces
  <1>4. /\ \A n \in 2..Len(writes) : Renames(q[1], writes[n])
        /\ \A c \in q[1].coming \ q[1].left :
             \/ names[c] = q[1].given[c]
             \/ \E n \in 2..Len(writes) : IsPending(writes[n]) /\ writes[n].child = c
    BY <1>1, <1>3 DEF RenamesRight
  <1>5. \A n \in 2..Len(writes) :
          \/ n = Len(writes)
          \/ n \in 1..(Len(writes) - 1) /\ q[n] = writes[n]
    <2> TAKE n \in 2..Len(writes)
    <2>1. n = Len(writes) \/ n \in 1..(Len(writes) - 1)
      BY <1>1
    <2> QED BY <2>1 DEF Replaces
  <1>6. Len(writes) \in 2..Len(writes)
    BY <1>1, <1>2
  <1>7. v.type = "update"
    BY <1>1, <1>4, <1>6 DEF Renames
  <1>8. \A n \in 2..Len(writes) :
          /\ q[n].type = writes[n].type /\ q[n].child = writes[n].child
          /\ q[n].name = writes[n].name /\ (IsPending(q[n]) <=> IsPending(writes[n]))
    <2> TAKE n \in 2..Len(writes)
    <2>1. CASE n = Len(writes)
      BY <1>1, <1>7, <2>1
    <2>2. CASE q[n] = writes[n]
      BY <2>2
    <2> QED BY <1>5, <2>1, <2>2
  <1>9. \A n \in 2..Len(q) : Renames(q[1], q[n])
    BY <1>1, <1>4, <1>8 DEF Renames
  <1> QED BY <1>1, <1>4, <1>8, <1>9

LEMMA PassedRight ==
    ASSUME IInv, writes # <<>>, NEW v \in AWrite, NEW q, Replaces(q, v),
           v.type = Innermost.type, v.start = Innermost.start, ~ Renaming(v),
           v.type = "update" => /\ v.child = Innermost.child /\ v.name = Innermost.name
                                /\ v.old = Innermost.old /\ Placed(v),
           v.type = "children" => /\ v.coming = Innermost.coming
                                  /\ v.leaving = Innermost.leaving
                                  /\ v.undoing = Innermost.undoing
                                  /\ v.given = Innermost.given
                                  /\ v.left \subseteq Innermost.left
                                  /\ Innermost.phase # "check",
           IsPending(v) <=> IsPending(Innermost),
           Checked(v) => \/ Checked(Innermost)
                         \/ v.type = "update" /\ ~ (Changes(v) /\ Taken(v.child, v.name))
                         \/ /\ v.type = "children"
                            /\ ~ WritesAfterCheck => Distinct(names, held \cup v.coming)
    PROVE  Right(q)
  <1>1. RenamesRight(q)
    BY PassedRenames
  <1>2. v.type = "children" => v.phase # "rename"
    BY DEF Renaming
  <1>3. Upheld(q)
    BY <1>2, GoesOn
  <1> QED BY <1>1, <1>3 DEF Right

\* An update begins: called by the program, or nested into a write that goes on.
LEMMA BegunRight ==
    ASSUME StoresTyped, NEW q \in Seq(AWrite), Upheld(q),
           q # <<>> => Outer(q[Len(q)]),
           NEW c \in Children, NEW name \in Names,
           \A n \in 1..Len(q) : q[n].type = "update" => q[n].child # c
    PROVE  /\ Append(q, UpdateOf(c, name)) \in Seq(AWrite) /\ UpdateOf(c, name) \in AWrite
           /\ Upheld(Append(q, UpdateOf(c, name)))
  <1> DEFINE u == UpdateOf(c, name)
             r == Append(q, u)
  <1>1. /\ u.type = "update" /\ u.child = c /\ u.name = name /\ u.old = names[c]
        /\ u.phase = (IF c \in held THEN "child before" ELSE "newcomer before")
        /\ u.start.names = names /\ u.start.held = held
        /\ u.start.cache = cache
    BY DEF UpdateOf, Stores
  <1>2. u \in AWrite
    <2>1. Stores \in AStore
      BY DEF Stores, AStore, StoresTyped
    <2>2. names[c] \in Names /\ {"child before", "newcomer before"} \subseteq Habits
      BY DEF StoresTyped, Habits
    <2> QED BY <2>1, <2>2 DEF UpdateOf, AnUpdate, AWrite
  <1> HIDE DEF u
  <1>3. Len(q) \in Nat
    OBVIOUS
  <1>4. /\ r \in Seq(AWrite) /\ Len(r) = Len(q) + 1 /\ r[Len(q) + 1] = u
        /\ \A n \in 1..Len(q) : r[n] = q[n]
    BY <1>2, AppendProperties
  <1> HIDE DEF r
  <1>5. /\ \A n \in 1..Len(r) :
             \/ n = Len(r)
             \/ n \in 1..Len(q) /\ n # Len(r)
        /\ Len(r) \in Nat /\ Len(r) - 1 = Len(q) /\ r[Len(r)] = u
        /\ Len(q) + 1 \in 1..(Len(q) + 1)
    <2> DEFINE k == Len(q)
    <2>1. k \in Nat /\ Len(r) = k + 1 /\ r[k + 1] = u
      BY <1>3, <1>4
    <2> HIDE DEF k
    <2>2. /\ k + 1 \in Nat /\ k + 1 \in 1..(k + 1) /\ (k + 1) - 1 = k
          /\ \A n \in 1..(k + 1) : \/ n = k + 1
                                   \/ n \in 1..k /\ n # k + 1
      BY <2>1, OneMore
    <2>3. ASSUME NEW n \in 1..Len(r), n # Len(r)
          PROVE  n \in 1..k
      BY <2>1, <2>2, <2>3
    <2>4. /\ Len(r) \in Nat /\ Len(r) - 1 = k /\ r[Len(r)] = u
          /\ k + 1 \in 1..(k + 1)
      BY <2>1, <2>2
    <2> QED BY <2>3, <2>4 DEF k
  <1> r # <<>>
    <2>1. Len(<<>>) = 0 /\ Len(r) # 0
      BY <1>3, <1>4
    <2> QED BY <2>1
  <1>6. IsPending(u) /\ ~ Checked(u) /\ u.type # "children"
    BY <1>1 DEF IsPending, Checked
  <1>7. Nesting(r)
    <2>1. \A n \in 1..Len(r) : r[n].type = "children" => n = 1
      BY <1>1, <1>4, <1>5 DEF Upheld, Nesting
    <2>2. ASSUME NEW n \in 1..(Len(r) - 1)
          PROVE  Outer(r[n])
      <3>1. n \in 1..Len(q) /\ q # <<>>
        BY <1>3, <1>5
      <3>2. n = Len(q) \/ n \in 1..(Len(q) - 1)
        BY <1>3, <3>1
      <3> QED BY <1>4, <3>1, <3>2 DEF Upheld, Nesting
    <2>3. ASSUME NEW m \in 1..Len(r), NEW n \in 1..Len(r), m # n,
                 r[m].type = "update", r[n].type = "update"
          PROVE  r[m].child # r[n].child
      <3>1. CASE m = Len(r)
        BY <1>1, <1>4, <1>5, <2>3, <3>1
      <3>2. CASE n = Len(r)
        BY <1>1, <1>4, <1>5, <2>3, <3>2
      <3>3. CASE m # Len(r) /\ n # Len(r)
        BY <1>4, <1>5, <2>3, <3>3 DEF Upheld, Nesting
      <3> QED BY <3>1, <3>2, <3>3
    <2> QED BY <2>1, <2>2, <2>3 DEF Nesting
  <1>8. LimitsRight(r)
    <2>1. Placed(u)
      BY <1>1 DEF Placed
    <2>2. HeldRight(u)
      BY <1>1, <2>1 DEF HeldRight, Upheld, LimitsRight
    <2> QED BY <1>4, <1>5, <2>2 DEF Upheld, LimitsRight
  <1>9. NamesRight(r)
    <2> SUFFICES ASSUME ~ WritesAfterCheck
                 PROVE  /\ Differ
                        /\ \A n \in 1..Len(r) : NameRight(r[n])
                        /\ \A n \in 1..Len(r) : \A m \in 1..n : OldStands(r[m], r[n])
      BY DEF NamesRight
    <2>1. /\ Differ
          /\ \A n \in 1..Len(q) : NameRight(q[n])
          /\ \A n \in 1..Len(q) : \A m \in 1..n : OldStands(q[m], q[n])
      BY DEF Upheld, NamesRight
    <2>2. NameRight(u)
      BY <1>1, <1>6, <2>1 DEF NameRight, Differ, Distinct
    <2>3. \A n \in 1..Len(r) : NameRight(r[n])
      BY <1>4, <1>5, <2>1, <2>2
    <2>4. ASSUME NEW n \in 1..Len(r), NEW m \in 1..n
          PROVE  OldStands(r[m], r[n])
      <3>1. m \in 1..Len(r)
        BY <1>5, Prefix
      <3>2. CASE n = Len(r)
        <4>1. r[n].start.names = names
          BY <1>1, <1>5, <3>2
        <4> QED BY <2>3, <3>1, <4>1 DEF OldStands, NameRight
      <3>3. CASE n # Len(r)
        <4>1. n \in 1..Len(q)
          BY <1>5, <3>3
        <4>2. m \in 1..Len(q)
          BY <1>3, <4>1, Prefix
        <4> QED BY <1>4, <2>1, <4>1, <4>2
      <3> QED BY <3>2, <3>3
    <2> QED BY <2>1, <2>3, <2>4
  <1>10. CacheRight(r)
    <2> SUFFICES ASSUME ~ WritesAfterCheck, "child after" \notin program
                 PROVE  /\ \A n \in 1..Len(r) :
                             Exact(r[n].start.cache, r[n].start.names, r[n].start.held)
                        /\ CacheBehind(r[Len(r)])
      BY <1>5 DEF CacheRight
    <2>1. /\ \A n \in 1..Len(q) : Exact(q[n].start.cache, q[n].start.names, q[n].start.held)
          /\ IF q = <<>> THEN Exact(cache, names, held) ELSE CacheBehind(q[Len(q)])
      BY DEF Upheld, CacheRight
    <2>2. Exact(cache, names, held)
      <3>1. CASE q = <<>>
        BY <2>1, <3>1
      <3>2. CASE q # <<>>
        <4>1. Outer(q[Len(q)]) /\ CacheBehind(q[Len(q)])
          BY <2>1, <3>2
        <4>2. CASE q[Len(q)].type = "update" /\ q[Len(q)].phase = "check"
          BY <4>1, <4>2 DEF CacheBehind, NamesBefore, IsPending
        <4>3. CASE Renaming(q[Len(q)])
          <5>1. Len(q) \in 1..Len(q)
            BY <1>3, <3>2, NotZero, EmptySeq
          <5>2. HeldRight(q[Len(q)])
            BY <5>1 DEF Upheld, LimitsRight
          <5> QED BY <4>1, <4>3, <5>2 DEF CacheBehind, HeldRight, IsPending, Renaming
        <4> QED BY <4>1, <4>2, <4>3 DEF Outer, WritesAfterCheck, Renaming
      <3> QED BY <3>1, <3>2
    <2>3. CacheBehind(u)
      BY <1>1, <1>6, <2>2 DEF CacheBehind, NamesBefore
    <2> QED BY <1>1, <1>4, <1>5, <2>1, <2>2, <2>3
  <1> QED BY <1>2, <1>4, <1>7, <1>8, <1>9, <1>10 DEF Upheld, r, u

-----------------------------------------------------------------------------
(* Steps that change no stores.                                            *)

LEMMA NoRejections == 0 \in 0..MaxRejections
  <1>1. MaxRejections \in Nat
    BY ReactionsAssumption
  <1> QED BY <1>1

LEMMA NoCalls == \A p \in Programs : 0 \in 0..MaxCalls[p]
  <1>1. \A p \in Programs : MaxCalls[p] \in Nat
    BY ReactionsAssumption
  <1> QED BY <1>1

LEMMA InitRight ==
    ASSUME Init
    PROVE  IInv
  <1>1. writes = <<>> /\ Len(writes) = 0 /\ held = {} /\ cache = [n \in Names |-> None]
    BY DEF Init
  <1>2. /\ limits \in Nat \X Nat /\ Minimum \in Nat /\ Maximum \in Nat
        /\ Cardinality(held) = 0
    BY <1>1, ReactionsAssumption, FS_EmptySet DEF Init, Minimum, Maximum
  <1>3. Typed
    <2>1. cache \in [Names -> Children \cup {None}] /\ writes \in Seq(AWrite)
      BY <1>1
    <2>2. calls \in 0..MaxCalls[program]
      BY NoCalls DEF Init
    <2> QED BY <1>1, <2>1, <2>2, NoRejections DEF Init, Typed, StoresTyped
  <1>4. 1..Len(writes) = {} /\ 1..(Len(writes) - 1) = {}
    BY <1>1
  <1>5. Nesting(writes) /\ LimitsRight(writes)
    BY <1>2, <1>4 DEF Nesting, LimitsRight
  <1>6. NamesRight(writes)
    BY <1>1, <1>4 DEF NamesRight, Differ
  <1>7. CacheRight(writes)
    BY <1>1, <1>4 DEF CacheRight, Exact
  <1>8. RenamesRight(writes)
    BY <1>1 DEF RenamesRight
  <1> QED BY <1>3, <1>5, <1>6, <1>7, <1>8 DEF IInv, Right, Upheld

\* Another call from the program's own code.
LEMMA CalledRight ==
    ASSUME StoresTyped, Called, program' = program
    PROVE  calls' \in 0..MaxCalls[program]
  <1>1. MaxCalls[program] \in Nat /\ calls \in 0..MaxCalls[program]
    BY ReactionsAssumption DEF StoresTyped
  <1> DEFINE k == MaxCalls[program]
  <1>2. calls < k /\ calls' = calls + 1 /\ k \in Nat /\ calls \in 0..k
    BY <1>1 DEF Called
  <1> HIDE DEF k
  <1>3. calls' \in 0..k
    BY <1>2
  <1> QED BY <1>3 DEF k

LEMMA StoresKept ==
    ASSUME StoresTyped, UNCHANGED <<program, limits, names, held, cache>>,
           rejections' \in 0..MaxRejections, calls' \in 0..MaxCalls[program],
           writes' \in Seq(AWrite), Right(writes')
    PROVE  IInv'
  <1>1. Typed'
    BY DEF Typed, StoresTyped
  <1>2. \A w : Outer(w) <=> Outer(w)'
    BY DEF Outer
  <1>3. Nesting(writes)'
    BY <1>2 DEF Right, Upheld, Nesting
  <1>4. \A w : HeldRight(w) <=> HeldRight(w)'
    BY DEF HeldRight, Minimum, Maximum, WithinLimits, NewLength, IsPending, Placed
  <1>5. LimitsRight(writes)'
    BY <1>4 DEF Right, Upheld, LimitsRight, Maximum
  <1>6. \A w : NameRight(w) <=> NameRight(w)'
    BY DEF NameRight, Distinct, IsPending, Checked, Changes, Taken
  <1>7. \A w, u : OldStands(w, u) <=> OldStands(w, u)'
    BY DEF OldStands, IsPending
  <1>8. NamesRight(writes)'
    BY <1>6, <1>7 DEF Right, Upheld, NamesRight, WritesAfterCheck, Differ
  <1>9. \A w : CacheBehind(w) <=> CacheBehind(w)'
    BY DEF CacheBehind, NamesBefore, IsPending, Exact, Distinct
  <1>10. CacheRight(writes)'
    BY <1>9 DEF Right, Upheld, CacheRight, WritesAfterCheck, Exact
  <1>11. \A w, u : Renames(w, u) <=> Renames(w, u)'
    BY DEF Renames
  <1>12. RenamesRight(writes)'
    BY <1>11 DEF Right, RenamesRight, WritesAfterCheck, Renaming, IsPending
  <1> QED BY <1>1, <1>3, <1>5, <1>8, <1>10, <1>12 DEF IInv, Right, Upheld

LEMMA AppendKeeps ==
    ASSUME NEW q, NEW u, NEW S, q \in Seq(S), Append(q, u) \in Seq(S), NEW n \in 1..Len(q)
    PROVE  Append(q, u)[n] = q[n]
  OBVIOUS

LEMMA AppendToOne ==
    ASSUME NEW q, NEW u, NEW S, q \in Seq(S), u \in S, Len(q) = 1
    PROVE  Append(q, u)[1] = q[1] /\ Append(q, u)[2] = u /\ Len(Append(q, u)) = 2
  <1>1. /\ Len(Append(q, u)) = Len(q) + 1 /\ Append(q, u)[Len(q) + 1] = u
        /\ \A i \in 1..Len(q) : Append(q, u)[i] = q[i]
    BY ONLY q \in Seq(S), u \in S, AppendProperties, SMTT(30)
  <1>2. Len(q) + 1 = 2 /\ 1 \in 1..Len(q)
    OBVIOUS
  <1> QED BY <1>1, <1>2

LEMMA CallUpdateRight ==
    ASSUME IInv, NEW c \in Children, NEW name \in Names, CallUpdate(c, name)
    PROVE  IInv'
  <1> DEFINE q == <<>>
             u == UpdateOf(c, name)
  <1>1. /\ writes = q /\ q \in Seq(AWrite) /\ \A n \in 1..Len(q) : FALSE
        /\ writes' = Append(q, u) /\ writes' = <<u>>
        /\ UNCHANGED <<program, limits, names, held, cache>>
    BY DEF CallUpdate
  <1>2. StoresTyped /\ Upheld(q)
    BY <1>1 DEF IInv, Typed, Right
  <1>3. rejections' \in 0..MaxRejections /\ calls' \in 0..MaxCalls[program]
    BY <1>1, <1>2, NoRejections, CalledRight DEF CallUpdate
  <1>4. q # <<>> => Outer(q[Len(q)])
    OBVIOUS
  <1>5. RenamesRight(<<u>>)
    <2>1. <<u>>[1] = u /\ u.type = "update"
      BY DEF UpdateOf
    <2> QED BY <2>1 DEF RenamesRight, Renaming
  <1> HIDE DEF q
  <1>6. Append(q, UpdateOf(c, name)) \in Seq(AWrite) /\ Upheld(Append(q, UpdateOf(c, name)))
    BY <1>1, <1>2, <1>4, BegunRight
  <1> HIDE DEF u
  <1>7. writes' \in Seq(AWrite) /\ Right(writes')
    <2>1. RenamesRight(writes')
      BY <1>1, <1>5
    <2>2. writes' \in Seq(AWrite) /\ Upheld(writes')
      BY <1>1, <1>6 DEF u
    <2> QED BY <2>1, <2>2 DEF Right
  <1> QED BY <1>1, <1>2, <1>3, <1>7, StoresKept

LEMMA CallChildrenRight ==
    ASSUME IInv, NEW coming \in SUBSET Children, NEW leaving \in SUBSET Children,
           NEW undoing \in BOOLEAN, CallChildren(coming, leaving, undoing)
    PROVE  IInv'
  <1> DEFINE w == ChildrenOf(coming, leaving, undoing)
  <1>1. /\ writes = <<>> /\ writes' = <<w>> /\ coming \cap held = {} /\ leaving \subseteq held
        /\ UNCHANGED <<program, limits, names, held, cache>>
    BY DEF CallChildren
  <1>2. StoresTyped /\ Upheld(writes)
    BY DEF IInv, Typed, Right
  <1>3. rejections' \in 0..MaxRejections /\ calls' \in 0..MaxCalls[program]
    BY <1>1, <1>2, NoRejections, CalledRight DEF CallChildren
  <1>4. /\ w.type = "children" /\ w.coming = coming /\ w.leaving = leaving /\ w.phase = "check"
        /\ w.start.names = names /\ w.start.held = held /\ w.start.cache = cache
        /\ w.given = names /\ w.left = {}
    BY DEF ChildrenOf, Stores
  <1>5. w \in AWrite
    <2>1. Stores \in AStore /\ names \in [Children -> Names]
      BY <1>2 DEF Stores, AStore, StoresTyped
    <2> QED BY <2>1 DEF ChildrenOf, OfChildren, ChildrenPhases, AWrite
  <1> HIDE DEF w
  <1>6. /\ writes' \in Seq(AWrite) /\ Len(writes') = 1 /\ writes'[1] = w /\ writes' # <<>>
        /\ 1..Len(writes') = {1} /\ 1..(Len(writes') - 1) = {}
    BY <1>1, <1>5
  <1>7. IsPending(w) /\ ~ Checked(w) /\ ~ Renaming(w)
    BY <1>4 DEF IsPending, Checked, Renaming
  <1>8. Nesting(writes')
    BY <1>4, <1>6 DEF Nesting
  <1>9. LimitsRight(writes')
    <2>1. HeldRight(w)
      BY <1>1, <1>2, <1>4, <1>7 DEF HeldRight, Upheld, LimitsRight
    <2> QED BY <1>2, <1>6, <2>1 DEF Upheld, LimitsRight
  <1>10. NamesRight(writes')
    <2> SUFFICES ASSUME ~ WritesAfterCheck
                 PROVE  Differ /\ NameRight(w) /\ OldStands(w, w)
      <3>1. 1..1 = {1}
        BY Singleton
      <3> QED BY <1>6, <3>1 DEF NamesRight
    <2>1. Differ
      BY <1>2 DEF Upheld, NamesRight
    <2> QED BY <1>4, <1>7, <2>1 DEF NameRight, OldStands, Differ, Distinct
  <1>11. CacheRight(writes')
    <2> SUFFICES ASSUME ~ WritesAfterCheck, "child after" \notin program
                 PROVE  Exact(w.start.cache, w.start.names, w.start.held) /\ CacheBehind(w)
      BY <1>6 DEF CacheRight
    <2>1. Exact(cache, names, held)
      BY <1>1, <1>2 DEF Upheld, CacheRight
    <2> QED BY <1>4, <1>7, <2>1 DEF CacheBehind
  <1>12. Right(writes')
    BY <1>6, <1>7, <1>8, <1>9, <1>10, <1>11 DEF Right, Upheld, RenamesRight
  <1> QED BY <1>1, <1>2, <1>3, <1>6, <1>12, StoresKept

\* The write goes on after a reaction of the program.
LEMMA HabitPassed ==
    ASSUME IInv, writes # <<>>, Innermost.phase \in Habits
    PROVE  LET p == After(Innermost.phase)
               v == [Innermost EXCEPT !.phase = p]
           IN  /\ Replaces(WithPhase(p), v) /\ Right(WithPhase(p))
               /\ v.type = Innermost.type /\ v.phase = p /\ ~ Renaming(v)
               /\ v.type = "update" => v.child = Innermost.child
               /\ Innermost.phase \in program => Outer(v)
  <1> DEFINE p == After(Innermost.phase)
             v == [Innermost EXCEPT !.phase = p]
  <1>1. Typed /\ Innermost \in AWrite
    BY TopIs DEF IInv
  <1>2. /\ Innermost.phase \in {"child before", "grandparent before", "child after",
                               "newcomer before", "newcomer after"}
        /\ Innermost.type = "children" => Innermost.phase = "grandparent before"
    BY <1>1, WriteIs DEF Habits, ChildrenPhases
  <1>3. /\ Innermost.phase = "child before" => p = "check"
        /\ Innermost.phase \in {"grandparent before", "newcomer before"} => p = "commit"
        /\ Innermost.phase \in {"child after", "newcomer after"} => p = "cache"
    BY DEF After
  <1> HIDE DEF p
  <1>4. /\ p \in Habits \cup {"check", "commit", "cache"}
        /\ Innermost.type = "children" => p \in ChildrenPhases
        /\ p # "rename"
    BY <1>2, <1>3 DEF ChildrenPhases
  <1>5. /\ v \in AWrite /\ v.type = Innermost.type /\ v.start = Innermost.start /\ v.phase = p
        /\ v.type = "update" => /\ v.child = Innermost.child /\ v.name = Innermost.name
                                /\ v.old = Innermost.old
        /\ v.type = "children" => /\ v.coming = Innermost.coming
                                  /\ v.leaving = Innermost.leaving
                                  /\ v.undoing = Innermost.undoing
                                  /\ v.given = Innermost.given
                                  /\ v.left \subseteq Innermost.left
    <2> DEFINE w == Innermost
    <2>1. /\ w \in AWrite /\ p \in Habits \cup {"check", "commit", "cache"}
          /\ w.type = "children" => p \in ChildrenPhases
      BY <1>1, <1>4
    <2> HIDE DEF w
    <2>2. LET u == [w EXCEPT !.phase = p]
          IN  /\ u \in AWrite /\ u.type = w.type /\ u.start = w.start /\ u.phase = p
              /\ w.type = "update" => u.child = w.child /\ u.name = w.name /\ u.old = w.old
              /\ w.type = "children" => /\ u.coming = w.coming /\ u.leaving = w.leaving
                                        /\ u.undoing = w.undoing /\ u.given = w.given
                                        /\ u.left = w.left
      BY <2>1, Phased
    <2> QED BY <2>2 DEF w
  <1>6. Replaces(WithPhase(p), v)
    BY <1>1, <1>4, PhaseReplaced
  <1> HIDE DEF v
  <1>7. /\ IsPending(v) <=> IsPending(Innermost)
        /\ v.type = "update" => Placed(v)
        /\ Checked(v) => \/ Checked(Innermost)
                         \/ v.type = "update" /\ ~ (Changes(v) /\ Taken(v.child, v.name))
        /\ v.type = "children" => Innermost.phase # "check"
        /\ ~ Renaming(v)
    <2>1. Innermost.type = "update" => Placed(Innermost)
      BY <1>1, TopIs DEF IInv, Right, Upheld, LimitsRight, HeldRight
    <2>2. v.type = "update" => Placed(v)
      BY <1>2, <1>3, <1>5, <2>1 DEF Placed
    <2>3. Checked(v) => \/ Checked(Innermost)
                        \/ v.type = "update" /\ ~ (Changes(v) /\ Taken(v.child, v.name))
      <3>1. CASE Innermost.phase = "newcomer before"
        <4>1. v.type = "update" /\ v.child \notin held
          BY <1>2, <1>5, <2>1, <3>1, WriteIs DEF Placed
        <4> QED BY <4>1 DEF Changes
      <3>2. CASE Innermost.phase # "newcomer before"
        BY <1>2, <1>3, <1>5, <3>2 DEF Checked
      <3> QED BY <3>1, <3>2
    <2>4. IsPending(v) <=> IsPending(Innermost)
      BY <1>2, <1>3, <1>5 DEF IsPending
    <2> QED BY <1>2, <1>4, <1>5, <2>2, <2>3, <2>4 DEF Renaming
  <1>8. Right(WithPhase(p))
    BY <1>5, <1>6, <1>7, PassedRight
  <1>9. Innermost.phase \in program => Outer(v)
    <2>1. v.type = "update" \/ v.type = "children"
      BY <1>5, WriteIs
    <2> QED BY <1>2, <1>3, <1>5, <2>1 DEF Outer
  <1> QED BY <1>5, <1>6, <1>7, <1>8, <1>9 DEF p, v

LEMMA NestedUpdateRight ==
    ASSUME IInv, NEW c \in Children, NEW name \in Names, NestedUpdate(c, name)
    PROVE  IInv'
  <1> DEFINE p == After(Innermost.phase)
             v == [Innermost EXCEPT !.phase = p]
             q == WithPhase(p)
             u == UpdateOf(c, name)
  <1>1. /\ writes # <<>> /\ Innermost.phase \in program /\ c \notin Busy
        /\ writes' = Append(q, u)
        /\ UNCHANGED <<program, limits, names, held, cache, calls>>
    BY DEF NestedUpdate
  <1>2. StoresTyped /\ Typed
    BY DEF IInv, Typed
  <1>3. Innermost.phase \in Habits
    BY <1>1, <1>2, ReactionsAssumption DEF StoresTyped, Habits
  <1>4. /\ Replaces(q, v) /\ Right(q) /\ v.type = Innermost.type /\ v.phase = p
        /\ ~ Renaming(v) /\ Outer(v)
        /\ v.type = "update" => v.child = Innermost.child
    BY <1>1, <1>3, HabitPassed
  <1> HIDE DEF p, v, q, u
  <1>5. /\ Len(writes) \in Nat \ {0} /\ DOMAIN writes = 1..Len(writes)
        /\ Innermost = writes[Len(writes)] /\ Innermost \in AWrite
        /\ \A n \in 1..(Len(writes) - 1) : n \in 1..Len(writes)
        /\ Len(writes) \in 1..Len(writes)
    BY <1>1, <1>2, TopIs
  <1>6. ASSUME NEW n \in 1..Len(q), q[n].type = "update"
        PROVE  q[n].child # c
    <2>1. Len(q) = Len(writes) /\ (n = Len(writes) \/ n \in 1..(Len(writes) - 1))
      BY <1>4, <1>5 DEF Replaces
    <2>2. writes[n].type = "update" /\ q[n].child = writes[n].child
      BY <1>4, <1>5, <1>6, <2>1 DEF Replaces
    <2>3. n \in DOMAIN writes
      BY <1>5, <2>1
    <2> QED BY <1>1, <2>2, <2>3 DEF Busy
  <1>7. q \in Seq(AWrite) /\ q # <<>> /\ q[Len(q)] = v /\ Len(q) = Len(writes)
    BY <1>4 DEF Replaces
  <1>8. Append(q, u) \in Seq(AWrite) /\ Upheld(Append(q, u))
    BY <1>2, <1>4, <1>6, <1>7, BegunRight DEF Right, u
  \* Nothing is nested by the program into a write that brings children, or above it.
  <1>9. RenamesRight(Append(q, u))
    <2> SUFFICES ASSUME ~ WritesAfterCheck, Renaming(Append(q, u)[1])
                 PROVE  FALSE
      BY DEF RenamesRight
    <2>1. Append(q, u)[1] = q[1] /\ Len(q) \in Nat \ {0}
      <3>1. Len(q) \in Nat \ {0} /\ 1 \in 1..Len(q)
        BY <1>5, <1>7
      <3> QED BY <1>7, <1>8, <3>1, AppendKeeps
    <2>2. Len(q) # 1
      BY <1>4, <1>7, <2>1
    <2>3. Len(q) \in 2..Len(q)
      BY <2>1, <2>2, NotOne
    <2>4. Renames(q[1], v)
      BY <1>4, <1>7, <2>1, <2>3 DEF Right, RenamesRight
    <2>5. HeldRight(q[1]) /\ HeldRight(v)
      <3>1. 1 \in 1..Len(q) /\ Len(q) \in 1..Len(q)
        BY <2>1
      <3> QED BY <1>4, <1>7, <3>1 DEF Right, Upheld, LimitsRight
    <2>6. v.child \notin held /\ v.type = "update"
      BY <2>1, <2>4, <2>5 DEF Renames, HeldRight, Renaming, IsPending
    <2>7. Outer(v) /\ Placed(v)
      BY <1>4, <2>5, <2>6 DEF HeldRight
    <2>8. v.phase = "cache"
      BY <2>6, <2>7 DEF Outer, Placed, WritesAfterCheck
    <2>9. Innermost.phase \in {"child after", "newcomer after"}
      BY <1>3, <1>4, <2>8 DEF After, Habits, p
    <2>10. Innermost.child \in held
      <3>1. HeldRight(Innermost) /\ Innermost.type = "update"
        BY <1>4, <1>5, <2>6 DEF IInv, Right, Upheld, LimitsRight
      <3>2. Innermost.phase = "child after"
        BY <1>1, <2>9 DEF WritesAfterCheck
      <3> QED BY <3>1, <3>2 DEF HeldRight, Placed
    <2> QED BY <1>4, <2>6, <2>10
  <1>10. rejections' \in 0..MaxRejections /\ calls' \in 0..MaxCalls[program]
    BY <1>1, <1>2, NoRejections DEF NestedUpdate, StoresTyped
  <1>11. writes' \in Seq(AWrite) /\ Right(writes')
    BY <1>1, <1>8, <1>9 DEF Right
  <1> QED BY <1>1, <1>2, <1>10, <1>11, StoresKept

LEMMA NothingNestedRight ==
    ASSUME IInv, NothingNested
    PROVE  IInv'
  <1> DEFINE p == After(Innermost.phase)
             q == WithPhase(p)
  <1>1. /\ writes # <<>> /\ Innermost.phase \in Habits /\ writes' = q
        /\ UNCHANGED <<program, limits, names, held, cache, rejections, calls>>
    BY DEF NothingNested
  <1>2. Right(q) /\ Replaces(q, [Innermost EXCEPT !.phase = p])
    BY <1>1, HabitPassed
  <1> HIDE DEF p, q
  <1>3. q \in Seq(AWrite)
    BY <1>2 DEF Replaces
  <1>4. /\ StoresTyped /\ rejections' \in 0..MaxRejections
        /\ calls' \in 0..MaxCalls[program]
    BY <1>1 DEF IInv, Typed, StoresTyped
  <1> QED BY <1>1, <1>2, <1>3, <1>4, StoresKept

LEMMA CheckUpdatePasses ==
    ASSUME IInv, writes # <<>>, Innermost.type = "update", Innermost.phase = "check",
           ~ (Changes(Innermost) /\ Taken(Innermost.child, Innermost.name)),
           Passes("grandparent before")
    PROVE  IInv'
  <1> DEFINE p == "grandparent before"
             w == Innermost
             v == [w EXCEPT !.phase = p]
             q == WithPhase(p)
  <1>1. /\ Typed /\ StoresTyped /\ w \in AWrite /\ w.type = "update" /\ w.phase = "check"
        /\ writes' = q /\ UNCHANGED <<program, limits, names, held, cache, rejections, calls>>
    BY TopIs DEF IInv, Typed, Passes
  <1>2. p \in Habits \cup {"check", "commit", "cache"} /\ w.type # "children"
    BY <1>1 DEF Habits
  <1>3. Replaces(q, v)
    BY <1>1, <1>2, PhaseReplaced
  <1> HIDE DEF w, q
  <1>4. /\ v \in AWrite /\ v.type = w.type /\ v.start = w.start /\ v.phase = p
        /\ v.child = w.child /\ v.name = w.name /\ v.old = w.old
    BY <1>1, <1>2, Phased
  <1> HIDE DEF v
  <1>5. (IsPending(v) <=> IsPending(w)) /\ v.type = "update" /\ v.type # "children"
    BY <1>1, <1>4 DEF IsPending
  <1>6. Changes(v) <=> Changes(w)
    BY <1>4 DEF Changes
  <1>7. ~ (Changes(v) /\ Taken(v.child, v.name))
    BY <1>4, <1>6 DEF w
  <1>8. Right(q)
    <2>1. Placed(v) /\ ~ Renaming(v)
      BY <1>4 DEF Placed, Renaming
    <2> QED BY <1>3, <1>4, <1>5, <1>7, <2>1, PassedRight DEF w
  <1>9. /\ q \in Seq(AWrite) /\ rejections' \in 0..MaxRejections
        /\ calls' \in 0..MaxCalls[program]
    BY <1>1, <1>3 DEF Replaces, StoresTyped
  <1> QED BY <1>1, <1>8, <1>9, StoresKept

-----------------------------------------------------------------------------
(* An error, a rejection.                                                  *)

LEMMA FailRight ==
    ASSUME IInv, writes # <<>>, Fail
    PROVE  IInv'
  <1> DEFINE w == writes[1]
  <1>1. /\ names' = w.start.names /\ held' = w.start.held /\ cache' = w.start.cache
        /\ writes' = <<>> /\ rejections' = 0 /\ program' = program /\ limits' = limits
        /\ calls' = calls
    BY DEF Fail
  <1>2. w \in AWrite /\ 1 \in 1..Len(writes) /\ 1 \in 1..1
    BY TopIs DEF IInv
  <1>3. Typed'
    <2>1. writes' \in Seq(AWrite)
      BY <1>1
    <2> QED BY <1>1, <1>2, <2>1, WriteIs, NoRejections DEF IInv, Typed, StoresTyped
  <1>4. 1..Len(writes') = {} /\ 1..(Len(writes') - 1) = {}
    BY <1>1
  <1>5. Nesting(writes)'
    BY <1>4 DEF Nesting
  <1>6. LimitsRight(writes)'
    <2>1. HeldRight(w)
      BY <1>2 DEF IInv, Right, Upheld, LimitsRight
    <2> QED BY <1>1, <1>4, <2>1 DEF HeldRight, LimitsRight, Maximum
  <1>7. NamesRight(writes)'
    <2> SUFFICES ASSUME ~ WritesAfterCheck
                 PROVE  Differ'
      BY <1>1, <1>4 DEF NamesRight, WritesAfterCheck
    <2>1. NameRight(w)
      BY <1>2 DEF IInv, Right, Upheld, NamesRight
    <2> QED BY <1>1, <2>1 DEF NameRight, Distinct, Differ
  <1>8. CacheRight(writes)'
    <2> SUFFICES ASSUME ~ WritesAfterCheck, "child after" \notin program
                 PROVE  Exact(cache', names', held')
      BY <1>1, <1>4 DEF CacheRight, WritesAfterCheck, Exact
    <2>1. Exact(w.start.cache, w.start.names, w.start.held)
      BY <1>2 DEF IInv, Right, Upheld, CacheRight
    <2> QED BY <1>1, <2>1
  <1>9. RenamesRight(writes)'
    BY <1>1 DEF RenamesRight
  <1> QED BY <1>3, <1>5, <1>6, <1>7, <1>8, <1>9 DEF IInv, Right, Upheld

LEMMA RejectRight ==
    ASSUME IInv, writes # <<>>, Innermost.type = "update", Innermost.phase = "check",
           Changes(Innermost), NEW name \in Names, Reject(name)
    PROVE  IInv'
  <1> DEFINE w == Innermost
             v == Replacing(w, name)
             start == w.start
             N == Len(writes)
  <1>1. /\ names' = start.names /\ held' = start.held /\ cache' = start.cache
        /\ writes' = Append(Front(writes), v) /\ program' = program /\ limits' = limits
        /\ calls' = calls /\ w.child \in held
    BY DEF Reject, Changes
  <1>2. /\ Typed /\ StoresTyped /\ w \in AWrite /\ w.type = "update" /\ w.phase = "check"
        /\ N \in Nat \ {0} /\ N \in 1..N /\ w = writes[N] /\ Right(writes)
    BY TopIs DEF IInv, Typed
  <1> HIDE DEF N
  <1>0. N - 1 \in Nat /\ \A n \in 1..(N - 1) : n \in 1..N /\ n # N
    BY <1>2
  <1> USE DEF N
  <1>3. /\ v \in AWrite /\ v.type = "update" /\ v.child = w.child /\ v.name = name
        /\ v.old = w.old /\ v.phase = "child before" /\ v.start = start
    <2>1. w \in AnUpdate /\ "child before" \in Habits
      BY <1>2, WriteIs DEF Habits
    <2> QED BY <2>1 DEF Replacing, AnUpdate, AWrite
  <1>4. Replaces(writes', v)
    BY <1>1, <1>2, <1>3, LastReplaced
  <1> HIDE DEF v, w, N
  <1>5. rejections' \in 0..MaxRejections
    <2>1. MaxRejections \in Nat /\ rejections \in 0..MaxRejections
      BY <1>2, ReactionsAssumption DEF StoresTyped
    <2>2. rejections' = IF rejections = MaxRejections THEN rejections ELSE rejections + 1
      BY DEF Reject
    <2> QED BY <2>1, <2>2
  <1>6. Typed'
    BY <1>1, <1>2, <1>4, <1>5, WriteIs DEF Typed, StoresTyped, Replaces
  <1>7. /\ Len(writes') = N /\ writes'[N] = v /\ writes' # <<>>
        /\ \A n \in 1..(N - 1) : writes'[n] = writes[n]
    BY <1>4 DEF Replaces, N
  <1>8. \A n \in 1..N : n = N \/ n \in 1..(N - 1)
    BY <1>2
  <1>9. Nesting(writes)'
    <2>1. Nesting(writes')
      BY <1>2, <1>3, <1>4, ReplacedNesting DEF Right, Upheld, w
    <2>2. \A x : Outer(x) <=> Outer(x)'
      BY <1>1 DEF Outer
    <2> QED BY <2>1, <2>2 DEF Nesting
  <1>10. IsPending(v) /\ ~ Checked(v)
    BY <1>3 DEF IsPending, Checked
  <1>11. LimitsRight(writes)'
    <2>1. /\ \A n \in 1..N : HeldRight(writes[n])
          /\ Cardinality(held) <= Maximum
      BY <1>2 DEF Right, Upheld, LimitsRight, N
    <2>2. HeldRight(w)
      BY <1>2, <2>1
    <2>3. held' = held
      BY <1>1, <1>2, <2>2 DEF HeldRight
    <2>4. HeldRight(v)
      <3>1. Placed(v)
        BY <1>1, <1>3 DEF Placed
      <3> QED BY <1>3, <2>2, <2>3, <3>1, <1>1 DEF HeldRight
    <2>5. \A x : HeldRight(x) <=> HeldRight(x)'
      BY <1>1, <2>3
      DEF HeldRight, Minimum, Maximum, WithinLimits, NewLength, IsPending, Placed
    <2>6. \A n \in 1..N : HeldRight(writes'[n])
      BY <1>7, <1>8, <2>1, <2>4
    <2> QED BY <1>1, <1>7, <2>1, <2>3, <2>5, <2>6 DEF LimitsRight, Maximum
  \* A child that comes is not held, so it is not rejected.
  <1>14. ASSUME ~ WritesAfterCheck
         PROVE  \A n \in 1..N : writes'[n].type = "update"
    <2> SUFFICES ASSUME NEW n \in 1..N, writes'[n].type # "update"
                 PROVE  FALSE
      OBVIOUS
    <2>1. n \in 1..(N - 1) /\ writes'[n] = writes[n] /\ writes[n].type # "update"
      BY <1>3, <1>7, <1>8
    <2>2. writes[n].type = "children" /\ n \in 1..Len(writes)
      BY <1>0, <2>1, TopIs, WriteIs DEF N, IInv
    <2>3. n = 1 /\ Outer(writes[n])
      BY <2>1, <2>2 DEF IInv, Right, Upheld, Nesting, N
    <2>4. Renaming(writes[1])
      BY <1>14, <2>2, <2>3 DEF Outer, WritesAfterCheck, Renaming
    <2>5. N \in 2..N
      BY <1>2, <2>1, <2>3
    <2>6. Renames(writes[1], w)
      BY <1>2, <1>14, <2>4, <2>5 DEF Right, RenamesRight, N
    <2>7. HeldRight(writes[1])
      BY <2>2, <2>3 DEF IInv, Right, Upheld, LimitsRight
    <2> QED BY <1>1, <2>4, <2>6, <2>7 DEF Renames, HeldRight, Renaming, IsPending
  <1>12. NamesRight(writes)'
    <2> SUFFICES ASSUME ~ WritesAfterCheck
                 PROVE  /\ Differ'
                        /\ \A n \in 1..N : NameRight(writes[n])'
                        /\ \A n \in 1..N : \A m \in 1..n : OldStands(writes[m], writes[n])'
      BY <1>1, <1>7 DEF NamesRight, WritesAfterCheck
    <2>1. /\ \A n \in 1..N : NameRight(writes[n])
          /\ \A n \in 1..N : \A m \in 1..n : OldStands(writes[m], writes[n])
      BY <1>2 DEF Right, Upheld, NamesRight, N
    <2>2. Differ'
      <3>1. Distinct(start.names, start.held)
        BY <1>2, <2>1 DEF NameRight
      <3> QED BY <1>1, <3>1 DEF Distinct, Differ
    <2>3. ASSUME NEW n \in 1..N
          PROVE  OldStands(writes'[n], w)
      <3>1. OldStands(writes[n], w)
        BY <1>2, <2>1
      <3>2. OldStands(w, w)
        BY <1>2, <2>1
      <3>3. OldStands(v, w)
        <4>1. IsPending(w)
          BY <1>2 DEF IsPending
        <4> QED BY <1>2, <1>3, <3>2, <4>1 DEF OldStands
      <3> QED BY <1>7, <1>8, <3>1, <3>3
    <2>4. ASSUME NEW n \in 1..N
          PROVE  NameRight(writes[n])'
      <3>1. Distinct(writes'[n].start.names, writes'[n].start.held)
        <4>1. writes'[n].start = writes[n].start
          BY <1>2, <1>3, <1>7, <1>8
        <4> QED BY <2>1, <4>1 DEF NameRight
      <3>2. writes'[n].type = "update" /\ IsPending(writes'[n]) =>
              names'[writes'[n].child] = writes'[n].old
        BY <1>1, <2>3 DEF OldStands
      <3>3. ~ Checked(writes'[n])
        <4>1. CASE n = N
          BY <1>7, <1>10, <4>1
        <4>2. CASE n \in 1..(N - 1)
          <5>1. Outer(writes[n])
            BY <1>2, <4>2 DEF Right, Upheld, Nesting, N
          <5> QED BY <1>7, <4>2, <5>1 DEF Outer, Checked, WritesAfterCheck
        <4> QED BY <1>8, <4>1, <4>2
      <3>4. writes'[n].type # "children"
        BY <1>14
      <3> QED BY <3>1, <3>2, <3>3, <3>4 DEF NameRight, Distinct, IsPending, Checked
    <2>5. ASSUME NEW n \in 1..N, NEW m \in 1..n
          PROVE  OldStands(writes[m], writes[n])'
      <3>1. m \in 1..N
        BY <1>2, Prefix
      <3>2. OldStands(writes'[m], writes'[n])
        <4>1. CASE n = N
          BY <1>2, <1>3, <1>7, <2>3, <3>1, <4>1 DEF OldStands
        <4>2. CASE n \in 1..(N - 1)
          <5>1. m \in 1..(N - 1)
            BY <1>0, <4>2, Prefix
          <5> QED BY <1>7, <2>1, <4>2, <5>1
        <4> QED BY <1>8, <4>1, <4>2
      <3> QED BY <3>2 DEF OldStands, IsPending
    <2> QED BY <2>2, <2>4, <2>5
  <1>13. CacheRight(writes)'
    <2> SUFFICES ASSUME ~ WritesAfterCheck, "child after" \notin program
                 PROVE  /\ \A n \in 1..N : Exact(writes'[n].start.cache, writes'[n].start.names,
                                                 writes'[n].start.held)
                        /\ CacheBehind(writes[Len(writes)])'
      BY <1>1, <1>7 DEF CacheRight, WritesAfterCheck, Exact
    <2>1. \A n \in 1..N : Exact(writes[n].start.cache, writes[n].start.names, writes[n].start.held)
      BY <1>2 DEF Right, Upheld, CacheRight, N
    <2>2. \A n \in 1..N : writes'[n].start = writes[n].start
      BY <1>2, <1>3, <1>7, <1>8
    <2>3. Exact(cache', names', held')
      BY <1>1, <1>2, <2>1
    <2>4. CacheBehind(writes[Len(writes)])'
      BY <1>3, <1>7, <1>10, <2>3 DEF CacheBehind, NamesBefore, IsPending, Exact
    <2> QED BY <2>1, <2>2, <2>4
  <1>15. RenamesRight(writes)'
    <2>1. 1 \in 1..N
      BY <1>2
    <2>2. ~ WritesAfterCheck => ~ Renaming(writes'[1])
      BY <1>14, <2>1 DEF Renaming
    <2> QED BY <1>1, <2>2 DEF RenamesRight, WritesAfterCheck, Renaming
  <1> QED BY <1>6, <1>9, <1>11, <1>12, <1>13, <1>15 DEF IInv, Right, Upheld

-----------------------------------------------------------------------------
(* The check and the commit of children, and the names that they get: only  *)
(* the updates with these are nested into the write.                       *)

\* When the innermost write is of children, no other is in progress.
LEMMA ChildrenAlone ==
    ASSUME IInv, writes # <<>>, Innermost.type = "children"
    PROVE  /\ Len(writes) = 1 /\ Innermost = writes[1] /\ Innermost \in AWrite
           /\ Innermost.coming \in SUBSET Children /\ Innermost.leaving \in SUBSET Children
           /\ HeldRight(Innermost) /\ Innermost.type # "update"
           /\ ~ WritesAfterCheck =>
                /\ Differ /\ NameRight(Innermost)
                /\ Renaming(Innermost) =>
                     \A c \in Innermost.coming \ Innermost.left : names[c] = Innermost.given[c]
           /\ ~ WritesAfterCheck /\ "child after" \notin program =>
                /\ CacheBehind(Innermost)
                /\ Exact(Innermost.start.cache, Innermost.start.names, Innermost.start.held)
  <1>1. /\ Typed /\ Right(writes) /\ Len(writes) \in Nat \ {0} /\ Len(writes) \in 1..Len(writes)
        /\ Innermost = writes[Len(writes)] /\ Innermost \in AWrite
    BY TopIs DEF IInv
  <1>2. Len(writes) = 1
    BY <1>1 DEF Right, Upheld, Nesting
  <1>3. 1 \in 1..1 /\ writes[1] = Innermost /\ 2..1 = {}
    BY <1>1, <1>2, Singleton
  <1>4. ~ WritesAfterCheck /\ Renaming(Innermost) =>
          \A c \in Innermost.coming \ Innermost.left : names[c] = Innermost.given[c]
    BY <1>1, <1>2, <1>3 DEF Right, RenamesRight
  <1>5. /\ HeldRight(Innermost)
        /\ ~ WritesAfterCheck => Differ /\ NameRight(Innermost)
        /\ ~ WritesAfterCheck /\ "child after" \notin program =>
             /\ CacheBehind(Innermost)
             /\ Exact(Innermost.start.cache, Innermost.start.names, Innermost.start.held)
    BY <1>1, <1>2, <1>3 DEF Right, Upheld, LimitsRight, NamesRight, CacheRight
  <1> QED BY <1>1, <1>2, <1>3, <1>4, <1>5, WriteIs

\* What the only write in progress, of children, has to be.
LEMMA ChildrenRight ==
    ASSUME IInv, writes # <<>>, Innermost.type = "children",
           NEW v \in AWrite, writes' = [writes EXCEPT ![Len(writes)] = v],
           v.type = "children", v.start = Innermost.start,
           UNCHANGED <<program, limits, names, rejections, calls>>,
           held' \in SUBSET Children, cache' \in [Names -> Children \cup {None}],
           Cardinality(held') <= Maximum, HeldRight(writes[1])',
           ~ WritesAfterCheck => Differ' /\ NameRight(writes[1])',
           ~ WritesAfterCheck /\ Renaming(v) =>
             \A c \in v.coming \ v.left : names[c] = v.given[c],
           ~ WritesAfterCheck /\ "child after" \notin program =>
             CacheBehind(writes[Len(writes)])'
    PROVE  IInv'
  <1>1. /\ Typed /\ StoresTyped /\ Len(writes) = 1 /\ 1..1 = {1} /\ 1..(1 - 1) = {}
        /\ 2..1 = {}
    <2>1. Len(writes) = 1
      BY ChildrenAlone
    <2> QED BY <2>1, Singleton DEF IInv, Typed
  <1>2. Replaces(writes', v)
    BY <1>1, TopReplaced
  <1>3. /\ Len(writes') = 1 /\ writes'[1] = v /\ writes' # <<>> /\ writes' \in Seq(AWrite)
    BY <1>1, <1>2 DEF Replaces
  <1>4. Typed'
    BY <1>1, <1>3 DEF Typed, StoresTyped
  <1>5. Nesting(writes)'
    <2>1. \A n \in 1..Len(writes') : n = 1
      BY <1>1, <1>3
    <2>2. 1..(Len(writes') - 1) = {}
      BY <1>1, <1>3
    <2> QED BY <2>1, <2>2 DEF Nesting
  <1>6. LimitsRight(writes)'
    BY <1>1, <1>3 DEF LimitsRight, Maximum
  <1>7. NamesRight(writes)'
    <2>1. \A n \in 1..Len(writes') : n = 1 /\ writes'[n] = v
      BY <1>1, <1>3
    <2>2. v.type # "update"
      OBVIOUS
    <2>3. \A n \in 1..Len(writes') : \A m \in 1..n : OldStands(writes'[m], writes'[n])
      <3> TAKE n \in 1..Len(writes')
      <3> TAKE m \in 1..n
      <3>1. m = 1 /\ writes'[m] = v
        BY <1>1, <1>3, <2>1
      <3> QED BY <2>2, <3>1 DEF OldStands
    <2>4. ~ WritesAfterCheck => \A n \in 1..Len(writes') : NameRight(writes[n])'
      BY <2>1
    <2> QED BY <2>3, <2>4 DEF NamesRight, WritesAfterCheck, OldStands, IsPending
  <1>8. CacheRight(writes)'
    <2>1. /\ writes' # <<>>
          /\ \A n \in 1..Len(writes') : writes'[n] = v
      BY <1>1, <1>3
    <2>2. ASSUME ~ WritesAfterCheck, "child after" \notin program
          PROVE  /\ \A n \in 1..Len(writes') :
                      Exact(writes'[n].start.cache, writes'[n].start.names, writes'[n].start.held)
                 /\ CacheBehind(writes[Len(writes)])'
      <3>1. Exact(v.start.cache, v.start.names, v.start.held)
        BY <2>2, ChildrenAlone
      <3>2. CacheBehind(writes[Len(writes)])'
        BY <2>2
      <3> QED BY <2>1, <3>1, <3>2
    <2>3. program' = program
      OBVIOUS
    <2> QED BY <2>1, <2>2, <2>3 DEF CacheRight, WritesAfterCheck, Exact
  <1>9. RenamesRight(writes)'
    <2>1. names' = names /\ program' = program
      OBVIOUS
    <2> QED BY <1>1, <1>3, <2>1 DEF RenamesRight, WritesAfterCheck, Renaming
  <1> QED BY <1>4, <1>5, <1>6, <1>7, <1>8, <1>9 DEF IInv, Right, Upheld

LEMMA CheckChildrenRight ==
    ASSUME IInv, CheckChildren
    PROVE  IInv'
  <1> DEFINE w == Innermost
             coming == w.coming
  <1>1. /\ writes # <<>> /\ w.type = "children" /\ w.phase = "check"
    BY DEF CheckChildren
  <1>2. PICK order \in SetToSeqs(coming) :
             LET given == [c \in Children |-> IF c \in coming THEN Given(order).names[c]
                                             ELSE names[c]]
             IN  IF ~ Given(order).ok \/ ~ WithinLimits(w) THEN Fail
                 ELSE /\ writes' = [writes EXCEPT ![Len(writes)].phase = "rename",
                                       ![Len(writes)].given = given,
                                       ![Len(writes)].left = {c \in coming : given[c] # names[c]}]
                      /\ UNCHANGED <<program, limits, calls, names, held, cache, rejections>>
    BY DEF CheckChildren
  <1>3. CASE ~ Given(order).ok \/ ~ WithinLimits(w)
    BY <1>1, <1>2, <1>3, FailRight
  <1>4. CASE Given(order).ok /\ WithinLimits(w)
    <2> DEFINE g == Given(order).names
               given == [c \in Children |-> IF c \in coming THEN g[c] ELSE names[c]]
               left == {c \in coming : given[c] # names[c]}
               v == [w EXCEPT !.phase = "rename", !.given = given, !.left = left]
    <2>1. /\ writes' = [writes EXCEPT ![Len(writes)].phase = "rename",
                          ![Len(writes)].given = given, ![Len(writes)].left = left]
          /\ UNCHANGED <<program, limits, calls, names, held, cache, rejections>>
      BY <1>2, <1>4
    <2>2. /\ Typed /\ StoresTyped /\ w \in AWrite /\ Len(writes) = 1 /\ w = writes[1]
          /\ coming \in SUBSET Children /\ HeldRight(w) /\ Len(writes) \in DOMAIN writes
          /\ w.type # "update"
      BY <1>1, ChildrenAlone, TopIs DEF IInv, Typed
    <2>3. /\ coming \cap held = {} /\ w.leaving \subseteq held /\ w.start.held = held
          /\ IsPending(w)
      BY <1>1, <2>2 DEF HeldRight, IsPending
    <2>4. /\ g \in [held \cup coming -> Names]
          /\ Differ => Distinct(g, held \cup coming)
          /\ \A c \in held : g[c] = names[c]
      <3> HIDE DEF w
      <3>1. Given(order).ok /\ Typed /\ coming \in SUBSET Children /\ coming \cap held = {}
        BY <1>4, <2>2, <2>3
      <3>2. /\ Given(order).names \in [held \cup coming -> Names]
            /\ \A c \in held : Given(order).names[c] = names[c]
            /\ Differ /\ Given(order).ok => Distinct(Given(order).names, held \cup coming)
        BY <3>1, GivenNames, ZenonT(60)
      <3> QED BY <3>1, <3>2, ZenonT(60)
    <2> HIDE DEF g, coming
    <2>5. /\ given \in [Children -> Names] /\ left \in SUBSET Children /\ left \subseteq coming
          /\ \A c \in held \cup coming : given[c] = g[c]
          /\ \A c \in held : given[c] = names[c]
          /\ \A c \in coming \ left : names[c] = given[c]
      BY <2>2, <2>3, <2>4 DEF StoresTyped
    <2> HIDE DEF given, left
    <2>6. /\ v \in AWrite /\ v.type = "children" /\ v.start = w.start
          /\ v.phase = "rename" /\ v.coming = coming /\ v.leaving = w.leaving
          /\ v.given = given /\ v.left = left /\ v.undoing = w.undoing
      <3>1. w \in OfChildren
        BY <1>1, <2>2, WriteIs
      <3> HIDE DEF w
      <3> USE DEF coming
      <3>2. v \in OfChildren
        BY <2>5, <3>1 DEF OfChildren, ChildrenPhases
      <3>3. /\ v.type = "children" /\ v.start = w.start
            /\ v.phase = "rename" /\ v.coming = coming /\ v.leaving = w.leaving
            /\ v.given = given /\ v.left = left /\ v.undoing = w.undoing
        BY <3>1 DEF OfChildren
      <3> QED BY <3>2, <3>3 DEF AWrite
    <2>7. writes' = [writes EXCEPT ![Len(writes)] = v]
      BY <2>1, <2>2
    <2> HIDE DEF v, w
    <2>8. writes'[1] = v /\ Len(writes') = 1 /\ writes'[Len(writes')] = v
      BY <2>2, <2>7
    <2>9. IsPending(v) /\ ~ Checked(v) /\ v.type # "update"
      BY <2>6 DEF IsPending, Checked
    <2>10. HeldRight(writes[1])'
      <3>1. WithinLimits(v)
        BY <1>4, <2>6 DEF WithinLimits, coming
      <3>2. WithinLimits(writes[1])'
        BY <2>1, <2>8, <3>1 DEF WithinLimits, NewLength, Minimum, Maximum
      <3>3. /\ v.start.held = held' /\ v.coming \cap held' = {} /\ v.leaving \subseteq held'
            /\ v.left \subseteq v.coming
        BY <2>1, <2>3, <2>5, <2>6
      <3>4. Cardinality(v.start.held) <= Maximum'
        BY <2>1, <2>2, <2>6 DEF HeldRight, Maximum
      <3> QED BY <2>8, <2>9, <3>2, <3>3, <3>4 DEF HeldRight
    <2>11. ASSUME ~ WritesAfterCheck
           PROVE  Differ' /\ NameRight(writes[1])'
      <3>1. Differ /\ NameRight(w)
        BY <1>1, <2>11, ChildrenAlone DEF w
      <3>2. Distinct(given, held \cup coming)
        BY <2>4, <2>5, <3>1 DEF Distinct
      <3>3. \A c \in held : names[c] = v.start.names[c] /\ v.given[c] = v.start.names[c]
        BY <1>1, <2>3, <2>5, <2>6, <3>1 DEF NameRight
      <3>4. Distinct(v.start.names, v.start.held) /\ Distinct(v.given, held \cup v.coming)
        BY <2>6, <3>1, <3>2 DEF NameRight
      <3>5. NameRight(writes[1])'
        <4>1. writes'[1].type # "update" /\ ~ Checked(writes[1])'
          BY <2>8, <2>9 DEF Checked
        <4>2. /\ Distinct(writes'[1].start.names, writes'[1].start.held)
              /\ Distinct(writes'[1].given, held' \cup writes'[1].coming)
              /\ \A c \in held' : /\ names'[c] = writes'[1].start.names[c]
                                 /\ writes'[1].given[c] = writes'[1].start.names[c]
          BY <2>1, <2>8, <3>3, <3>4
        <4> QED BY <4>1, <4>2 DEF NameRight, Distinct
      <3> QED BY <2>1, <3>1, <3>5 DEF Differ
    <2>12. ASSUME ~ WritesAfterCheck, "child after" \notin program
           PROVE  CacheBehind(writes[Len(writes)])'
      <3>1. Exact(cache, names, v.start.held)
        BY <1>1, <2>2, <2>6, <2>12, ChildrenAlone DEF CacheBehind, w
      <3>2. Exact(cache, names, writes[Len(writes)].start.held)'
        BY <2>1, <2>8, <3>1 DEF Exact
      <3> QED BY <2>8, <2>9, <3>2 DEF CacheBehind, IsPending
    <2>13. /\ Cardinality(held') <= Maximum /\ held' \in SUBSET Children
           /\ cache' \in [Names -> Children \cup {None}]
      BY <2>1, <2>2 DEF IInv, Right, Upheld, LimitsRight, StoresTyped
    <2>14. \A c \in v.coming \ v.left : names[c] = v.given[c]
      BY <2>5, <2>6
    <2> QED BY <1>1, <2>1, <2>6, <2>7, <2>10, <2>11, <2>12, <2>13, <2>14, ChildrenRight DEF w
  <1> QED BY <1>3, <1>4

\* The update of a child with the name given to it begins.
LEMMA RenameRight ==
    ASSUME IInv, NEW c \in Children, Rename(c)
    PROVE  IInv'
  <1> DEFINE w == Innermost
             v == [w EXCEPT !.left = @ \ {c}]
             q == [writes EXCEPT ![Len(writes)].left = @ \ {c}]
             u == UpdateOf(c, w.given[c])
  <1>1. /\ writes # <<>> /\ w.phase = "rename" /\ c \in w.left /\ writes' = Append(q, u)
        /\ UNCHANGED <<program, limits, names, held, cache, calls>> /\ rejections' = 0
    BY DEF Rename
  <1>2. /\ Typed /\ StoresTyped /\ w \in AWrite /\ Len(writes) \in DOMAIN writes
        /\ w = writes[Len(writes)]
    BY <1>1, TopIs DEF IInv, Typed
  <1>3. w.type = "children" /\ w.type # "update" /\ w \in OfChildren
    BY <1>1, <1>2, WriteIs DEF Habits
  <1>4. Len(writes) = 1 /\ HeldRight(w)
    BY <1>1, <1>3, ChildrenAlone
  <1>5. /\ v \in AWrite /\ v.type = "children" /\ v.start = w.start /\ v.phase = "rename"
        /\ v.coming = w.coming /\ v.leaving = w.leaving /\ v.undoing = w.undoing
        /\ v.given = w.given /\ v.left = w.left \ {c}
    <2> HIDE DEF w
    <2>1. v \in OfChildren
      BY <1>3 DEF OfChildren
    <2>2. /\ v.type = "children" /\ v.start = w.start /\ v.phase = "rename"
          /\ v.coming = w.coming /\ v.leaving = w.leaving /\ v.undoing = w.undoing
          /\ v.given = w.given /\ v.left = w.left \ {c}
      BY <1>1, <1>3 DEF OfChildren
    <2> QED BY <2>1, <2>2 DEF AWrite
  <1>6. q = [writes EXCEPT ![Len(writes)] = v]
    BY <1>2
  <1>7. Replaces(q, v)
    BY <1>1, <1>2, <1>5, <1>6, TopReplaced
  <1> HIDE DEF v, q
  <1>8. Upheld(q)
    <2>1. /\ IsPending(v) /\ IsPending(w) /\ ~ Checked(v) /\ v.type # "update"
          /\ w.phase # "check"
      BY <1>1, <1>5 DEF IsPending, Checked
    <2> QED BY <1>1, <1>3, <1>5, <1>7, <2>1, GoesOn
  <1>9. /\ q \in Seq(AWrite) /\ Len(q) = 1 /\ q[1] = v /\ q[Len(q)] = v
        /\ \A n \in 1..Len(q) : q[n].type # "update"
    <2>1. q \in Seq(AWrite) /\ Len(q) = 1 /\ q[1] = v
      BY <1>4, <1>7 DEF Replaces
    <2>2. v.type # "update" /\ \A n \in 1..1 : n = 1
      BY <1>5
    <2> QED BY <2>1, <2>2
  <1>10. Outer(v)
    BY <1>5 DEF Outer
  <1>11. w.given[c] \in Names
    BY <1>2, <1>3, WriteIs
  <1> HIDE DEF u, w
  <1>12. Append(q, u) \in Seq(AWrite) /\ u \in AWrite /\ Upheld(Append(q, u))
    BY <1>2, <1>8, <1>9, <1>10, <1>11, BegunRight DEF u
  <1>13. Append(q, u)[1] = v /\ Append(q, u)[2] = u /\ Len(Append(q, u)) = 2
    BY <1>9, <1>12, AppendToOne
  <1>14. u.type = "update" /\ u.child = c /\ u.name = w.given[c] /\ IsPending(u)
    BY DEF u, UpdateOf, IsPending
  <1>15. RenamesRight(Append(q, u))
    <2> SUFFICES ASSUME ~ WritesAfterCheck
                 PROVE  /\ \A n \in 2..2 : Renames(v, Append(q, u)[n])
                        /\ \A d \in v.coming \ v.left :
                             \/ names[d] = v.given[d]
                             \/ \E n \in 2..2 : /\ IsPending(Append(q, u)[n])
                                               /\ Append(q, u)[n].child = d
      BY <1>13 DEF RenamesRight
    <2>1. 2..2 = {2}
      OBVIOUS
    <2>2. Renaming(w) /\ \A d \in w.coming \ w.left : names[d] = w.given[d]
      BY <1>1, <1>3, ChildrenAlone DEF Renaming, w
    <2>3. c \in w.coming
      BY <1>1, <1>3, <1>4 DEF HeldRight, IsPending
    <2> QED BY <1>5, <1>13, <1>14, <2>1, <2>2, <2>3 DEF Renames
  <1>16. /\ rejections' \in 0..MaxRejections /\ calls' \in 0..MaxCalls[program]
         /\ writes' \in Seq(AWrite) /\ Right(writes')
    BY <1>1, <1>2, <1>12, <1>15, NoRejections DEF Right, StoresTyped
  <1> QED BY <1>1, <1>2, <1>16, StoresKept

\* All that come have the names given to them: no two children will have one.
LEMMA AllRenamedRight ==
    ASSUME IInv, AllRenamed
    PROVE  IInv'
  <1> DEFINE p == "grandparent before"
             w == Innermost
             v == [w EXCEPT !.phase = p]
             q == WithPhase(p)
  <1>1. /\ writes # <<>> /\ w.phase = "rename" /\ w.left = {} /\ writes' = q
        /\ UNCHANGED <<program, limits, names, held, cache, rejections, calls>>
    BY DEF AllRenamed, Passes
  <1>2. /\ Typed /\ StoresTyped /\ w \in AWrite
    BY <1>1, TopIs DEF IInv, Typed
  <1>3. w.type = "children" /\ w.type # "update"
    BY <1>1, <1>2, WriteIs DEF Habits
  <1>4. HeldRight(w) /\ IsPending(w) /\ w.start.held = held
    BY <1>1, <1>3, ChildrenAlone DEF HeldRight, IsPending
  <1>5. p \in Habits \cup {"check", "commit", "cache"} /\ p \in ChildrenPhases
    BY DEF Habits, ChildrenPhases
  <1>6. Replaces(q, v)
    BY <1>1, <1>2, <1>5, PhaseReplaced
  <1>7. /\ v \in AWrite /\ v.type = w.type /\ v.start = w.start /\ v.phase = p
        /\ v.coming = w.coming /\ v.leaving = w.leaving /\ v.undoing = w.undoing
        /\ v.given = w.given /\ v.left = w.left
    BY <1>2, <1>3, <1>5, Phased
  <1> HIDE DEF v, q
  <1>8. ~ WritesAfterCheck => Distinct(names, held \cup v.coming)
    <2> SUFFICES ASSUME ~ WritesAfterCheck PROVE Distinct(names, held \cup v.coming)
      OBVIOUS
    <2>1. /\ NameRight(w) /\ Renaming(w)
          /\ \A c \in w.coming \ w.left : names[c] = w.given[c]
      BY <1>1, <1>3, ChildrenAlone DEF Renaming
    <2>2. Distinct(w.given, held \cup w.coming)
      BY <1>1, <1>3, <2>1 DEF NameRight
    <2>3. \A c \in held : names[c] = w.given[c]
      BY <1>3, <1>4, <2>1 DEF NameRight
    <2>4. \A c \in held \cup w.coming : names[c] = w.given[c]
      BY <1>1, <2>1, <2>3
    <2> QED BY <1>7, <2>2, <2>4 DEF Distinct
  <1>9. /\ IsPending(v) <=> IsPending(w)
        /\ ~ Renaming(v) /\ w.phase # "check" /\ v.type = "children" /\ v.type # "update"
    BY <1>1, <1>3, <1>4, <1>7 DEF IsPending, Renaming
  <1>10. Right(q)
    BY <1>1, <1>6, <1>7, <1>8, <1>9, PassedRight
  <1>11. /\ q \in Seq(AWrite) /\ rejections' \in 0..MaxRejections
         /\ calls' \in 0..MaxCalls[program]
    BY <1>1, <1>2, <1>6 DEF Replaces, StoresTyped
  <1> QED BY <1>1, <1>2, <1>10, <1>11, StoresKept

LEMMA CommitChildrenRight ==
    ASSUME IInv, Commit, Innermost.type = "children"
    PROVE  IInv'
  <1> DEFINE w == Innermost
             v == [w EXCEPT !.phase = "cache"]
  <1>1. /\ writes # <<>> /\ w.type = "children" /\ w.phase = "commit" /\ w.type # "update"
        /\ held' = (held \ w.leaving) \cup w.coming /\ names' = names
        /\ writes' = WithPhase("cache") /\ cache' = w.start.cache
        /\ UNCHANGED <<program, limits, rejections, calls>>
    BY DEF Commit
  <1>2. /\ Typed /\ StoresTyped /\ w \in AWrite /\ Len(writes) = 1 /\ w = writes[1]
        /\ w.coming \in SUBSET Children /\ w.leaving \in SUBSET Children /\ HeldRight(w)
        /\ Len(writes) \in DOMAIN writes
    BY <1>1, ChildrenAlone, TopIs DEF IInv, Typed
  <1>3. /\ w.coming \cap held = {} /\ w.leaving \subseteq held /\ w.start.held = held
        /\ WithinLimits(w) /\ IsPending(w) /\ Checked(w)
    BY <1>1, <1>2 DEF HeldRight, IsPending, Checked
  <1>4. /\ v \in AWrite /\ v.type = "children" /\ v.start = w.start
        /\ v.phase = "cache" /\ v.coming = w.coming /\ v.leaving = w.leaving
        /\ v.undoing = w.undoing /\ v.type # "update"
    <2>1. "cache" \in ChildrenPhases
      BY DEF ChildrenPhases
    <2> QED BY <1>1, <1>2, <2>1, Phased
  <1>5. writes' = [writes EXCEPT ![Len(writes)] = v]
    BY <1>1, <1>2 DEF WithPhase
  <1> HIDE DEF v, w
  <1>6. writes'[1] = v /\ Len(writes') = 1 /\ writes'[Len(writes')] = v
    BY <1>2, <1>5
  <1>7. ~ IsPending(v) /\ ~ Checked(v) /\ ~ Renaming(v)
    BY <1>4 DEF IsPending, Checked, Renaming
  <1>8. held' \in SUBSET Children /\ cache' \in [Names -> Children \cup {None}]
    BY <1>1, <1>2, WriteIs DEF StoresTyped
  <1>9. Cardinality(held') = NewLength(w.coming, w.leaving)
    <2>1. IsFiniteSet(held) /\ IsFiniteSet(w.coming) /\ IsFiniteSet(w.leaving)
      BY <1>2, ReactionsAssumption, FS_Subset DEF StoresTyped
    <2> DEFINE stay == held \ w.leaving
    <2>2. IsFiniteSet(stay)
      BY <2>1, FS_Subset
    <2>3. /\ Cardinality(held) \in Nat /\ Cardinality(w.coming) \in Nat
          /\ Cardinality(w.leaving) \in Nat /\ Cardinality(stay) \in Nat
      BY <2>1, <2>2, FS_CardinalityType
    <2>4. stay \cap w.coming = {} /\ stay \cap w.leaving = {} /\ stay \cup w.leaving = held
      BY <1>3
    <2> DEFINE all == stay \cup w.coming
               was == stay \cup w.leaving
               i == stay \cap w.coming
               j == stay \cap w.leaving
    <2>5. /\ Cardinality(all) = Cardinality(stay) + Cardinality(w.coming) - Cardinality(i)
          /\ Cardinality(was) = Cardinality(stay) + Cardinality(w.leaving) - Cardinality(j)
      BY <2>1, <2>2, FS_Union
    <2>6. all = held' /\ was = held /\ i = {} /\ j = {} /\ Cardinality({}) = 0
      BY <1>1, <2>4, FS_EmptySet
    <2> HIDE DEF stay, all, was, i, j
    <2> QED BY <2>3, <2>5, <2>6 DEF NewLength
  <1>10. /\ Cardinality(held') <= Maximum
         /\ \/ v.undoing
            \/ Cardinality(v.start.held) >= Minimum => Cardinality(held') >= Minimum
         /\ Cardinality(v.start.held) <= Maximum
    BY <1>2, <1>3, <1>4, <1>9 DEF WithinLimits, HeldRight
  <1>11. HeldRight(writes[1])'
    BY <1>1, <1>4, <1>6, <1>7, <1>10 DEF HeldRight, Minimum, Maximum, IsPending
  <1>12. ASSUME ~ WritesAfterCheck
         PROVE  Differ' /\ NameRight(writes[1])'
    <2>1. NameRight(w)
      BY <1>1, <1>12, ChildrenAlone DEF w
    <2>2. Distinct(names, held \cup w.coming) /\ Distinct(w.start.names, w.start.held)
      BY <1>1, <1>3, <2>1 DEF NameRight
    <2>3. Differ'
      BY <1>1, <2>2 DEF Distinct, Differ
    <2>4. Distinct(writes'[1].start.names, writes'[1].start.held)
      BY <1>4, <1>6, <2>2
    <2>5. /\ writes'[1].type # "update" /\ writes'[1].phase # "rename"
          /\ ~ Checked(writes[1])' /\ ~ IsPending(writes[1])'
      BY <1>4, <1>6, <1>7 DEF Checked, IsPending
    <2>6. NameRight(writes[1])'
      BY <2>4, <2>5 DEF NameRight, Distinct
    <2> QED BY <2>3, <2>6
  <1>13. ASSUME ~ WritesAfterCheck, "child after" \notin program
         PROVE  CacheBehind(writes[Len(writes)])'
    <2>1. NameRight(w) /\ Exact(w.start.cache, w.start.names, held)
      BY <1>1, <1>3, <1>13, ChildrenAlone DEF w
    <2>2. Exact(w.start.cache, names, held) /\ Distinct(names, held \cup w.coming)
      <3>1. \A c \in held : names[c] = w.start.names[c]
        BY <1>1, <1>3, <2>1 DEF NameRight
      <3> QED BY <1>1, <1>3, <2>1, <3>1 DEF Exact, NameRight
    <2>3. Exact(cache, names, writes[Len(writes)].start.held)'
      BY <1>1, <1>3, <1>4, <1>6, <2>2 DEF Exact
    <2>4. Distinct(names, writes[Len(writes)].start.held \cup writes[Len(writes)].coming)'
      BY <1>1, <1>3, <1>4, <1>6, <2>2 DEF Distinct
    <2>5. /\ writes'[Len(writes')].type # "update"
          /\ writes'[Len(writes')].coming \cap writes'[Len(writes')].start.held = {}
          /\ writes'[Len(writes')].leaving \subseteq writes'[Len(writes')].start.held
          /\ held' = (writes'[Len(writes')].start.held \ writes'[Len(writes')].leaving) \cup writes'[Len(writes')].coming
      BY <1>1, <1>3, <1>4, <1>6
    <2> QED BY <2>3, <2>4, <2>5 DEF CacheBehind
  <1> QED BY <1>1, <1>4, <1>5, <1>7, <1>8, <1>10, <1>11, <1>12, <1>13, ChildrenRight DEF w

-----------------------------------------------------------------------------
(* The commit of an update.                                                *)

LEMMA CommitUpdateRight ==
    ASSUME IInv, Commit, Innermost.type = "update"
    PROVE  IInv'
  <1> DEFINE w == Innermost
             p == IF w.child \in held THEN "child after" ELSE "newcomer after"
             v == [w EXCEPT !.phase = p]
             N == Len(writes)
             c == w.child
  <1>1. /\ writes # <<>> /\ w.type = "update" /\ w.phase = "commit"
        /\ names' = [names EXCEPT ![c] = w.name] /\ held' = held
        /\ writes' = WithPhase(p)
        /\ UNCHANGED <<program, limits, cache, rejections, calls>>
    BY DEF Commit
  <1>2. /\ Typed /\ StoresTyped /\ w \in AWrite /\ N \in Nat \ {0} /\ N \in 1..N
        /\ w = writes[N] /\ Right(writes) /\ \A n \in 1..N : writes[n] \in AWrite
    BY <1>1, TopIs DEF IInv, Typed
  <1>3. /\ c \in Children /\ w.name \in Names /\ w.old \in Names
        /\ names \in [Children -> Names] /\ held \in SUBSET Children
    BY <1>1, <1>2, WriteIs DEF StoresTyped
  <1>4. /\ v \in AWrite /\ v.type = "update" /\ v.start = w.start /\ v.phase = p
        /\ v.child = c /\ v.name = w.name /\ v.old = w.old
    <2>1. p \in Habits \cup {"check", "commit", "cache"} /\ w.type # "children"
      BY <1>1 DEF Habits
    <2>2. w \in AWrite /\ w.type = "update"
      BY <1>1, <1>2
    <2> HIDE DEF w, p
    <2>3. /\ v \in AWrite /\ v.type = w.type /\ v.start = w.start /\ v.phase = p
          /\ v.child = w.child /\ v.name = w.name /\ v.old = w.old
      BY ONLY <2>1, <2>2, Phased
    <2> QED BY <2>2, <2>3
  <1>5. Replaces(writes', v)
    <2>1. p \in Habits \cup {"check", "commit", "cache"} /\ w.type # "children"
      BY <1>1 DEF Habits
    <2> QED BY <1>1, <1>2, <2>1, PhaseReplaced
  <1> HIDE DEF v, w, N
  <1>0. v.phase \in {"child after", "newcomer after"} /\ Placed(v) /\ ~ Renaming(v)
    BY <1>4 DEF Placed, Renaming
  <1> HIDE DEF c, p
  <1>6. /\ Len(writes') = N /\ writes'[N] = v /\ writes' # <<>>
        /\ \A n \in 1..(N - 1) : writes'[n] = writes[n]
        /\ writes' \in Seq(AWrite) /\ writes'[Len(writes')] = v
    BY <1>5 DEF Replaces, N
  <1>7. N - 1 \in Nat /\ \A n \in 1..(N - 1) : n \in 1..N /\ n # N
    BY <1>2
  <1>8. \A n \in 1..N : n = N \/ n \in 1..(N - 1)
    BY <1>2
  <1>9. /\ names'[c] = w.name /\ names' \in [Children -> Names]
        /\ \A d \in Children : d # c => names'[d] = names[d]
    BY <1>1, <1>3
  <1>10. ~ IsPending(v) /\ ~ Checked(v) /\ IsPending(w) /\ Checked(w)
    BY <1>0, <1>1, <1>4 DEF IsPending, Checked
  <1>11. Typed'
    BY <1>1, <1>2, <1>6, <1>9 DEF Typed, StoresTyped
  <1>12. Nesting(writes)'
    <2>1. Nesting(writes')
      BY <1>1, <1>2, <1>4, <1>5, ReplacedNesting DEF Right, Upheld, w, c
    <2>2. \A x : Outer(x) <=> Outer(x)'
      BY <1>1 DEF Outer
    <2> QED BY <2>1, <2>2 DEF Nesting
  <1>13. LimitsRight(writes)'
    <2>1. /\ \A n \in 1..N : HeldRight(writes[n])
          /\ Cardinality(held) <= Maximum
      BY <1>2 DEF Right, Upheld, LimitsRight, N
    <2>2. HeldRight(w)
      BY <1>2, <2>1
    <2>3. HeldRight(v)
      BY <1>0, <1>1, <1>4, <2>2 DEF HeldRight
    <2>4. \A x : HeldRight(x) <=> HeldRight(x)'
      BY <1>1 DEF HeldRight, Minimum, Maximum, WithinLimits, NewLength, IsPending, Placed
    <2>5. \A n \in 1..N : HeldRight(writes'[n])
      BY <1>6, <1>8, <2>1, <2>3
    <2> QED BY <1>1, <1>6, <2>1, <2>4, <2>5 DEF LimitsRight, Maximum
  <1>14. ASSUME ~ WritesAfterCheck
         PROVE  Differ /\ Differ' /\ names[c] = w.old
    <2>1. Differ /\ NameRight(w)
      BY <1>2, <1>14 DEF Right, Upheld, NamesRight, N
    <2>2. names[c] = w.old /\ ~ (Changes(w) /\ Taken(c, w.name))
      BY <1>1, <1>10, <2>1 DEF NameRight, c
    <2>3. CASE w.name = w.old
      <3>1. \A d \in Children : names'[d] = names[d]
        BY <1>9, <2>2, <2>3
      <3>2. \A d, e \in held : names'[d] = names'[e] => d = e
        BY <1>3, <2>1, <3>1 DEF Differ
      <3> QED BY <1>1, <2>1, <2>2, <3>2 DEF Differ
    <2>4. CASE c \notin held
      <3>1. \A d \in held : names'[d] = names[d]
        BY <1>3, <1>9, <2>4
      <3>2. \A d, e \in held : names'[d] = names'[e] => d = e
        BY <2>1, <3>1 DEF Differ
      <3> QED BY <1>1, <2>1, <2>2, <3>2 DEF Differ
    <2>5. CASE w.name # w.old /\ c \in held
      <3>1. \A d \in held : d # c => names[d] # w.name
        BY <2>2, <2>5 DEF Changes, Taken, c
      <3>2. \A d \in held : d # c => names'[d] = names[d]
        BY <1>3, <1>9
      <3>3. \A d, e \in held : names'[d] = names'[e] => d = e
        BY <1>9, <2>1, <3>1, <3>2 DEF Differ
      <3> QED BY <1>1, <2>1, <2>2, <3>3 DEF Differ
    <2> QED BY <2>3, <2>4, <2>5
  \* The write that brings children, if one is in progress, renames them.
  <1>17. ASSUME ~ WritesAfterCheck, NEW n \in 1..N, writes[n].type = "children"
         PROVE  /\ n = 1 /\ n \in 1..(N - 1) /\ Renaming(writes[1]) /\ Renames(writes[1], w)
                /\ N \in 2..N /\ HeldRight(writes[1]) /\ c \notin held
    <2>1. n \in 1..(N - 1) /\ n = 1 /\ Outer(writes[n])
      BY <1>1, <1>2, <1>8, <1>17 DEF Right, Upheld, Nesting, N
    <2>2. Renaming(writes[1])
      BY <1>17, <2>1 DEF Outer, WritesAfterCheck, Renaming
    <2>3. N \in 2..N
      BY <1>2, <2>1
    <2>4. Renames(writes[1], w)
      <3>1. writes # <<>>
        BY <1>1
      <3> QED BY <1>2, <1>17, <2>2, <2>3, <3>1 DEF Right, RenamesRight, N
    <2>5. HeldRight(writes[1])
      BY <1>2, <1>17, <2>1 DEF Right, Upheld, LimitsRight, N
    <2>6. c \notin held
      BY <2>2, <2>4, <2>5 DEF Renames, HeldRight, Renaming, IsPending, c
    <2> QED BY <2>1, <2>2, <2>3, <2>4, <2>5, <2>6
  <1>15. NamesRight(writes)'
    <2> SUFFICES ASSUME ~ WritesAfterCheck
                 PROVE  /\ Differ'
                        /\ \A n \in 1..N : NameRight(writes[n])'
                        /\ \A n \in 1..N : \A m \in 1..n : OldStands(writes[m], writes[n])'
      BY <1>1, <1>6 DEF NamesRight, WritesAfterCheck
    <2>1. /\ \A n \in 1..N : NameRight(writes[n])
          /\ \A n \in 1..N : \A m \in 1..n : OldStands(writes[m], writes[n])
      BY <1>2 DEF Right, Upheld, NamesRight, N
    <2>2. \A n \in 1..N : writes'[n].start = writes[n].start
      BY <1>2, <1>4, <1>6, <1>8
    <2>3. ASSUME NEW n \in 1..(N - 1)
          PROVE  /\ writes'[n].type = "update" => writes'[n].child # c
                 /\ ~ Checked(writes'[n])
                 /\ writes'[n] \in AWrite
      <3>1. Outer(writes[n]) /\ n \in 1..N /\ n # N
        BY <1>2, <1>7 DEF Right, Upheld, Nesting, N
      <3>2. writes[n].type = "update" => writes[n].child # c
        BY <1>1, <1>2, <3>1 DEF Right, Upheld, Nesting, N, c
      <3> QED BY <1>2, <1>6, <3>1, <3>2 DEF Outer, Checked, WritesAfterCheck
    <2>4. ASSUME NEW n \in 1..N
          PROVE  NameRight(writes[n])'
      <3>1. Distinct(writes'[n].start.names, writes'[n].start.held)
        BY <2>1, <2>2 DEF NameRight
      <3>2. writes'[n].type = "update" /\ IsPending(writes'[n]) =>
              names'[writes'[n].child] = writes'[n].old
        <4>1. CASE n = N
          BY <1>6, <1>10, <4>1
        <4>2. CASE n \in 1..(N - 1)
          <5>1. /\ writes'[n] = writes[n] /\ n \in 1..N /\ writes[n] \in AWrite
                /\ writes[n].type = "update" => writes[n].child # c
            BY <1>2, <1>6, <1>7, <2>3, <4>2
          <5>2. writes[n].type = "update" => names'[writes[n].child] = names[writes[n].child]
            BY <1>9, <5>1, WriteIs
          <5>3. writes[n].type = "update" /\ IsPending(writes[n]) =>
                  names[writes[n].child] = writes[n].old
            BY <2>1, <5>1 DEF NameRight
          <5> QED BY <5>1, <5>2, <5>3
        <4> QED BY <1>8, <4>1, <4>2
      <3>3. ~ Checked(writes'[n])
        BY <1>6, <1>8, <1>10, <2>3
      <3>4. CASE writes'[n].type = "children"
        <4>1. writes[n].type = "children" /\ writes'[n] = writes[n] /\ NameRight(writes[n])
          BY <1>4, <1>6, <1>8, <2>1, <3>4
        <4>2. n = 1 /\ Renaming(writes[n]) /\ c \notin held
          BY <1>17, <4>1
        <4>3. \A d \in held : names'[d] = names[d]
          BY <1>3, <1>9, <4>2
        <4>4. /\ \A d \in held : /\ names'[d] = writes[n].start.names[d]
                                /\ writes[n].given[d] = writes[n].start.names[d]
              /\ Distinct(writes[n].given, held \cup writes[n].coming)
          BY <4>1, <4>2, <4>3 DEF NameRight, Renaming, IsPending
        <4> QED BY <1>1, <3>1, <3>2, <3>3, <4>1, <4>2, <4>4
                DEF NameRight, Distinct, IsPending, Checked, Renaming
      <3>5. CASE writes'[n].type # "children"
        BY <3>1, <3>2, <3>3, <3>5 DEF NameRight, Distinct, IsPending, Checked
      <3> QED BY <3>4, <3>5
    <2>5. ASSUME NEW n \in 1..N, NEW m \in 1..n
          PROVE  OldStands(writes[m], writes[n])'
      <3>1. m \in 1..N
        BY <1>2, Prefix
      <3>2. OldStands(writes[m], writes[n])
        BY <2>1
      <3>3. OldStands(writes'[m], writes'[n])
        <4>1. CASE m = N
          BY <1>6, <1>10, <4>1 DEF OldStands
        <4>2. CASE m \in 1..(N - 1)
          BY <1>6, <2>2, <3>2, <4>2 DEF OldStands
        <4> QED BY <1>8, <3>1, <4>1, <4>2
      <3> QED BY <3>3 DEF OldStands, IsPending
    <2>6. Differ'
      BY <1>14
    <2> QED BY <2>4, <2>5, <2>6
  <1>16. CacheRight(writes)'
    <2> SUFFICES ASSUME ~ WritesAfterCheck, "child after" \notin program
                 PROVE  /\ \A n \in 1..N : Exact(writes'[n].start.cache, writes'[n].start.names,
                                                 writes'[n].start.held)
                        /\ CacheBehind(writes[Len(writes)])'
      BY <1>1, <1>6 DEF CacheRight, WritesAfterCheck, Exact
    <2>1. /\ \A n \in 1..N : Exact(writes[n].start.cache, writes[n].start.names,
                                   writes[n].start.held)
          /\ CacheBehind(w)
      BY <1>1, <1>2 DEF Right, Upheld, CacheRight, N, w
    <2>2. \A n \in 1..N : writes'[n].start = writes[n].start
      BY <1>2, <1>4, <1>6, <1>8
    <2>3. Exact(cache, names, held)
      BY <1>1, <1>10, <2>1 DEF CacheBehind, NamesBefore
    <2>4. Differ /\ names[c] = w.old
      BY <1>14
    <2>5. [names' EXCEPT ![c] = w.old] = names
      BY <1>1, <1>3, <2>4
    <2>6. NamesBefore(writes[Len(writes)])' = names
      BY <1>4, <1>6, <1>10, <2>5 DEF NamesBefore, IsPending
    <2>7. Exact(cache', NamesBefore(writes[Len(writes)])', held')
      BY <1>1, <2>3, <2>6
    <2>8. Distinct(NamesBefore(writes[Len(writes)])', held')
      BY <1>1, <2>4, <2>6 DEF Distinct, Differ
    <2>9. CacheBehind(writes[Len(writes)])'
      BY <1>4, <1>6, <1>9, <2>7, <2>8, ZenonT(60) DEF CacheBehind, Exact, Distinct
    <2> QED BY <2>1, <2>2, <2>9
  <1>18. RenamesRight(writes)'
    <2> SUFFICES ASSUME ~ WritesAfterCheck, Renaming(writes'[1])
                 PROVE  /\ \A n \in 2..N : Renames(writes'[1], writes'[n])
                        /\ \A d \in writes'[1].coming \ writes'[1].left :
                             \/ names'[d] = writes'[1].given[d]
                             \/ \E n \in 2..N : IsPending(writes'[n]) /\ writes'[n].child = d
      BY <1>1, <1>6 DEF RenamesRight, WritesAfterCheck, Renaming, Renames, IsPending
    <2>1. 1 \in 1..(N - 1) /\ writes'[1] = writes[1] /\ Renaming(writes[1])
      <3>1. 1 \in 1..N /\ (1 = N \/ 1 \in 1..(N - 1))
        BY <1>2, <1>8
      <3>2. 1 # N
        BY <1>0, <1>6
      <3> QED BY <1>6, <3>1, <3>2
    <2>2. /\ Renames(writes[1], w) /\ N \in 2..N
          /\ \A n \in 2..N : n = N \/ n \in 1..(N - 1)
      <3>1. writes[1].type = "children" /\ 1 \in 1..N
        BY <1>2, <2>1 DEF Renaming
      <3> QED BY <1>2, <1>17, <3>1
    <2>3. /\ \A n \in 2..N : Renames(writes[1], writes[n])
          /\ \A d \in writes[1].coming \ writes[1].left :
               \/ names[d] = writes[1].given[d]
               \/ \E n \in 2..N : IsPending(writes[n]) /\ writes[n].child = d
      BY <1>1, <1>2, <2>1 DEF Right, RenamesRight, N
    <2>4. Renames(writes[1], v)
      BY <1>4, <2>2 DEF Renames, c
    <2>5. \A n \in 2..N : Renames(writes'[1], writes'[n])
      BY <1>6, <2>1, <2>2, <2>3, <2>4
    <2>6. ASSUME NEW d \in writes[1].coming \ writes[1].left
          PROVE  \/ names'[d] = writes[1].given[d]
                 \/ \E n \in 2..N : IsPending(writes'[n]) /\ writes'[n].child = d
      <3>1. CASE d = c
        BY <1>9, <2>2, <3>1 DEF Renames, c
      <3>2. CASE d # c /\ names[d] = writes[1].given[d]
        <4>1. d \in Children
          BY <1>2, <2>1, WriteIs DEF Renaming
        <4> QED BY <1>9, <3>2, <4>1
      <3>3. CASE d # c /\ \E n \in 2..N : IsPending(writes[n]) /\ writes[n].child = d
        <4>1. PICK n \in 2..N : IsPending(writes[n]) /\ writes[n].child = d
          BY <3>3
        <4>2. n # N
          BY <1>2, <3>3, <4>1 DEF c
        <4> QED BY <1>6, <2>2, <4>1, <4>2
      <3> QED BY <2>3, <3>1, <3>2, <3>3
    <2> QED BY <2>1, <2>5, <2>6
  <1> QED BY <1>11, <1>12, <1>13, <1>15, <1>16, <1>18 DEF IInv, Right, Upheld

-----------------------------------------------------------------------------
(* The end of a write.                                                     *)

\* The cache follows what was committed.
LEMMA CachedExact ==
    ASSUME StoresTyped, NEW w \in AWrite, CacheBehind(w), ~ IsPending(w), Differ
    PROVE  Exact(Cached(w), names, held) /\ Cached(w) \in [Names -> Children \cup {None}]
  <1>1. /\ cache \in [Names -> Children \cup {None}] /\ None \notin Children
        /\ names \in [Children -> Names] /\ held \in SUBSET Children
    BY ReactionsAssumption DEF StoresTyped
  <1>2. CASE w.type = "update"
    <2> DEFINE c == w.child
               nb == [names EXCEPT ![c] = w.old]
    <2>1. c \in Children /\ w.old \in Names /\ w.name \in Names
      BY <1>2, WriteIs
    <2>2. /\ Exact(cache, nb, held) /\ Distinct(nb, held) /\ names[c] = w.name
      BY <1>2 DEF CacheBehind, NamesBefore
    <2>3. nb[c] = w.old /\ \A d \in held : d # c => nb[d] = names[d]
      BY <1>1, <2>1
    <2> HIDE DEF c, nb
    <2>4. CASE ~ Changes(w)
      <3>1. Cached(w) = cache
        BY <1>2, <2>4 DEF Cached
      <3>2. \A d \in held : nb[d] = names[d]
        BY <2>2, <2>3, <2>4 DEF Changes, c
      <3> QED BY <1>1, <2>2, <3>1, <3>2 DEF Exact
    <2>5. CASE Changes(w)
      <3> DEFINE e == [cache EXCEPT ![w.old] = None, ![w.name] = c]
      <3>1. Cached(w) = e /\ c \in held /\ w.name # w.old
        BY <1>2, <2>5 DEF Cached, Changes, c
      <3>2. /\ e \in [Names -> Children \cup {None}]
            /\ e[w.name] = c /\ e[w.old] = None
            /\ \A n \in Names : n # w.name /\ n # w.old => e[n] = cache[n]
        BY <1>1, <2>1, <3>1
      <3> HIDE DEF e
      <3>3. ASSUME NEW n \in Names
            PROVE  IF e[n] = None THEN \A d \in held : names[d] # n
                   ELSE e[n] \in held /\ names[e[n]] = n
        <4>1. CASE n = w.name
          BY <1>1, <2>1, <2>2, <3>1, <3>2, <4>1
        <4>2. CASE n = w.old
          <5>1. ASSUME NEW d \in held, names[d] = n PROVE FALSE
            <6>1. d # c
              BY <2>2, <3>1, <4>2, <5>1
            <6> QED BY <2>2, <2>3, <3>1, <4>2, <5>1, <6>1 DEF Distinct
          <5> QED BY <3>2, <4>2, <5>1
        <4>3. CASE n # w.name /\ n # w.old
          <5>1. e[n] = cache[n]
            BY <3>2, <4>3
          <5>2. IF cache[n] = None THEN \A d \in held : nb[d] # n
                ELSE cache[n] \in held /\ nb[cache[n]] = n
            BY <2>2 DEF Exact
          <5>3. \A d \in held : nb[d] = n <=> names[d] = n
            BY <2>2, <2>3, <4>3
          <5> QED BY <5>1, <5>2, <5>3
        <4> QED BY <4>1, <4>2, <4>3
      <3> QED BY <3>1, <3>2, <3>3 DEF Exact
    <2> QED BY <2>4, <2>5
  <1>3. CASE w.type = "children"
    <2> DEFINE was == w.start.held
               e == Cached(w)
    <2>1. /\ Exact(cache, names, was) /\ w.coming \cap was = {} /\ w.leaving \subseteq was
          /\ held = (was \ w.leaving) \cup w.coming /\ Distinct(names, was \cup w.coming)
          /\ w.coming \in SUBSET Children
      BY <1>3, WriteIs DEF CacheBehind
    <2>2. e = [n \in Names |->
                 IF \E c \in w.coming : names[c] = n THEN CHOOSE c \in w.coming : names[c] = n
                 ELSE IF \E c \in w.leaving : names[c] = n THEN None ELSE cache[n]]
      BY <1>3 DEF Cached
    <2> HIDE DEF was, e
    <2>3. ASSUME NEW n \in Names
          PROVE  /\ e[n] \in Children \cup {None}
                 /\ IF e[n] = None THEN \A d \in held : names[d] # n
                    ELSE e[n] \in held /\ names[e[n]] = n
      <3>1. CASE \E c \in w.coming : names[c] = n
        <4>1. e[n] = CHOOSE c \in w.coming : names[c] = n
          BY <2>2, <3>1
        <4>2. e[n] \in w.coming /\ names[e[n]] = n
          BY <3>1, <4>1
        <4> QED BY <1>1, <2>1, <4>2
      <3>2. CASE (~ \E c \in w.coming : names[c] = n) /\ \E c \in w.leaving : names[c] = n
        <4>1. e[n] = None
          BY <2>2, <3>2
        <4>2. PICK c \in w.leaving : names[c] = n
          BY <3>2
        <4>3. \A d \in was : names[d] = n => d = c
          BY <2>1, <4>2 DEF Distinct
        <4> QED BY <2>1, <3>2, <4>1, <4>2, <4>3
      <3>3. CASE (~ \E c \in w.coming : names[c] = n) /\ (~ \E c \in w.leaving : names[c] = n)
        <4>1. e[n] = cache[n]
          BY <2>2, <3>3
        <4>2. IF cache[n] = None THEN \A d \in was : names[d] # n
              ELSE cache[n] \in was /\ names[cache[n]] = n
          BY <2>1 DEF Exact
        <4> QED BY <1>1, <2>1, <3>3, <4>1, <4>2
      <3> QED BY <3>1, <3>2, <3>3
    <2>4. e \in [Names -> Children \cup {None}]
      BY <2>2, <2>3
    <2> QED BY <2>3, <2>4 DEF Exact, e
  <1> QED BY <1>2, <1>3, WriteIs

LEMMA FinishRight ==
    ASSUME IInv, Finish
    PROVE  IInv'
  <1> DEFINE w == Innermost
             N == Len(writes)
  <1>1. /\ writes # <<>> /\ w.phase = "cache" /\ cache' = Cached(w)
        /\ writes' = Front(writes) /\ rejections' = 0
        /\ UNCHANGED <<program, limits, names, held, calls>>
    BY DEF Finish
  <1>2. /\ Typed /\ StoresTyped /\ w \in AWrite /\ N \in Nat \ {0} /\ N \in 1..N
        /\ w = writes[N] /\ Right(writes) /\ writes \in Seq(AWrite)
        /\ \A n \in 1..N : writes[n] \in AWrite
    BY <1>1, TopIs DEF IInv, Typed
  <1> HIDE DEF w, N
  <1>3. N - 1 \in Nat /\ \A n \in 1..(N - 1) : n \in 1..N
    BY <1>2
  <1>4. /\ writes' \in Seq(AWrite) /\ Len(writes') = N - 1
        /\ \A n \in 1..(N - 1) : writes'[n] = writes[n]
    <2>1. writes' = SubSeq(writes, 1, N - 1)
      BY <1>1 DEF Front, N
    <2> QED BY <1>2, <1>3, <2>1, SubSeqProperties
  <1>5. ~ IsPending(w)
    BY <1>1 DEF IsPending
  <1>6. ASSUME ~ WritesAfterCheck, "child after" \notin program
        PROVE  Exact(Cached(w), names, held) /\ Cached(w) \in [Names -> Children \cup {None}]
    <2>1. CacheBehind(w) /\ Differ
      BY <1>1, <1>2, <1>6 DEF Right, Upheld, CacheRight, NamesRight, N, w
    <2> QED BY <1>2, <1>5, <2>1, CachedExact
  <1>7. Cached(w) \in [Names -> Children \cup {None}]
    <2>1. cache \in [Names -> Children \cup {None}]
      BY <1>2 DEF StoresTyped
    <2>2. CASE w.type = "update"
      <3>1. w.child \in Children /\ w.old \in Names /\ w.name \in Names
        BY <1>2, <2>2, WriteIs
      <3> QED BY <2>1, <2>2, <3>1 DEF Cached
    <2>3. CASE w.type = "children"
      <3>1. w.coming \in SUBSET Children
        BY <1>2, <2>3, WriteIs
      <3>2. ASSUME NEW n \in Names
            PROVE  (IF \E c \in w.coming : names[c] = n THEN CHOOSE c \in w.coming : names[c] = n
                    ELSE IF \E c \in w.leaving : names[c] = n THEN None ELSE cache[n])
                      \in Children \cup {None}
        <4>1. CASE \E c \in w.coming : names[c] = n
          <5>1. (CHOOSE c \in w.coming : names[c] = n) \in w.coming
            BY <4>1
          <5> QED BY <3>1, <4>1, <5>1
        <4>2. CASE ~ \E c \in w.coming : names[c] = n
          BY <2>1, <4>2
        <4> QED BY <4>1, <4>2
      <3>3. Cached(w) = [n \in Names |->
              IF \E c \in w.coming : names[c] = n THEN CHOOSE c \in w.coming : names[c] = n
              ELSE IF \E c \in w.leaving : names[c] = n THEN None ELSE cache[n]]
        BY <2>3 DEF Cached
      <3> QED BY <3>2, <3>3
    <2> QED BY <1>2, <2>2, <2>3, WriteIs
  <1>8. Typed'
    BY <1>1, <1>2, <1>4, <1>7, NoRejections DEF Typed, StoresTyped
  <1>9. Nesting(writes)'
    <2>1. \A n \in 1..((N - 1) - 1) : n \in 1..(N - 1)
      BY <1>2
    <2>2. \A x : Outer(x) <=> Outer(x)'
      BY <1>1 DEF Outer
    <2>3. /\ \A n \in 1..N : writes[n].type = "children" => n = 1
          /\ \A n \in 1..(N - 1) : Outer(writes[n])
          /\ \A m, n \in 1..N :
               writes[m].type = "update" /\ writes[n].type = "update" /\ m # n =>
                 writes[m].child # writes[n].child
      BY <1>2 DEF Right, Upheld, Nesting, N
    <2>4. /\ \A n \in 1..(N - 1) : writes'[n].type = "children" => n = 1
          /\ \A n \in 1..((N - 1) - 1) : Outer(writes'[n])
          /\ \A m, n \in 1..(N - 1) :
               writes'[m].type = "update" /\ writes'[n].type = "update" /\ m # n =>
                 writes'[m].child # writes'[n].child
      BY <1>3, <1>4, <2>1, <2>3
    <2>5. Nesting(writes')
      BY <1>4, <2>4 DEF Nesting
    <2> QED BY <2>2, <2>5 DEF Nesting
  <1>10. LimitsRight(writes)'
    <2>1. \A x : HeldRight(x) <=> HeldRight(x)'
      BY <1>1 DEF HeldRight, Minimum, Maximum, WithinLimits, NewLength, IsPending, Placed
    <2>2. LimitsRight(writes')
      BY <1>2, <1>3, <1>4 DEF Right, Upheld, LimitsRight, N
    <2> QED BY <1>1, <2>1, <2>2 DEF LimitsRight, Maximum
  <1>11. NamesRight(writes)'
    <2>1. \A x : NameRight(x) <=> NameRight(x)'
      BY <1>1 DEF NameRight, Distinct, IsPending, Checked, Changes, Taken
    <2>2. \A x, y : OldStands(x, y) <=> OldStands(x, y)'
      BY DEF OldStands, IsPending
    <2>3. \A n \in 1..(N - 1) : \A m \in 1..n : m \in 1..(N - 1)
      BY <1>3, Prefix
    <2>4. ~ WritesAfterCheck =>
             /\ Differ
             /\ \A n \in 1..N : NameRight(writes[n])
             /\ \A n \in 1..N : \A m \in 1..n : OldStands(writes[m], writes[n])
      BY <1>2 DEF Right, Upheld, NamesRight, N
    <2>5. ~ WritesAfterCheck =>
             /\ Differ
             /\ \A n \in 1..(N - 1) : NameRight(writes'[n])
             /\ \A n \in 1..(N - 1) : \A m \in 1..n : OldStands(writes'[m], writes'[n])
      BY <1>3, <1>4, <2>3, <2>4
    <2>6. NamesRight(writes')
      BY <1>4, <2>5 DEF NamesRight
    <2> QED BY <1>1, <2>1, <2>2, <2>6 DEF NamesRight, WritesAfterCheck, Differ
  <1>12. CacheRight(writes)'
    <2> SUFFICES ASSUME ~ WritesAfterCheck, "child after" \notin program
                 PROVE  /\ \A n \in 1..(N - 1) : Exact(writes[n].start.cache, writes[n].start.names,
                                                       writes[n].start.held)
                        /\ writes' = <<>> => Exact(cache', names', held')
                        /\ writes' # <<>> => CacheBehind(writes[Len(writes)])'
      <3>1. program' = program
        BY <1>1
      <3>2. \A n \in 1..(N - 1) : Exact(writes[n].start.cache, writes[n].start.names,
                                      writes[n].start.held)
            => Exact(writes'[n].start.cache, writes'[n].start.names, writes'[n].start.held)
        BY <1>4
      <3>3. CacheRight(writes)' <=>
              (~ WritesAfterCheck /\ "child after" \notin program =>
                /\ \A n \in 1..Len(writes') :
                     Exact(writes'[n].start.cache, writes'[n].start.names, writes'[n].start.held)
                /\ IF writes' = <<>> THEN Exact(cache', names', held')
                   ELSE CacheBehind(writes[Len(writes)])')
        BY <3>1 DEF CacheRight, WritesAfterCheck, Exact
      <3> QED BY <1>4, <3>1, <3>2, <3>3
    <2>1. \A n \in 1..N : Exact(writes[n].start.cache, writes[n].start.names,
                                writes[n].start.held)
      BY <1>2 DEF Right, Upheld, CacheRight, N
    <2>2. Exact(cache', names', held')
      BY <1>1, <1>6
    <2>3. ASSUME writes' # <<>>
          PROVE  CacheBehind(writes[Len(writes)])'
      <3>1. N - 1 \in Nat \ {0} /\ N - 1 \in 1..(N - 1)
        <4>1. Len(writes') # 0
          BY <1>4, <2>3, EmptySeq
        <4>2. N - 1 # 0
          BY <1>4, <4>1
        <4> QED BY <1>3, <4>2, NotZero
      <3>2. writes'[Len(writes')] = writes[N - 1] /\ Outer(writes[N - 1])
        BY <1>2, <1>4, <3>1 DEF Right, Upheld, Nesting, N
      <3>3. CASE writes[N - 1].type = "update"
        <4>1. IsPending(writes[N - 1])
          BY <3>2, <3>3 DEF Outer, IsPending, WritesAfterCheck
        <4>2. NamesBefore(writes[Len(writes)])' = names'
          BY <3>2, <4>1 DEF NamesBefore, IsPending
        <4> QED BY <2>2, <3>2, <3>3, <4>1, <4>2 DEF CacheBehind, IsPending, Exact
      <3>4. CASE writes[N - 1].type = "children"
        <4>1. Renaming(writes[N - 1])
          BY <3>2, <3>4 DEF Outer, Renaming, WritesAfterCheck
        <4>2. HeldRight(writes[N - 1])
          BY <1>2, <1>3, <3>1 DEF Right, Upheld, LimitsRight, N
        <4>3. writes[N - 1].start.held = held /\ IsPending(writes[N - 1])
          BY <4>1, <4>2 DEF HeldRight, IsPending, Renaming
        <4>4. Exact(cache', names', writes[N - 1].start.held)
          BY <1>1, <2>2, <4>3
        <4> QED BY <3>2, <3>4, <4>3, <4>4 DEF CacheBehind, IsPending, Exact
      <3> QED BY <1>2, <1>3, <3>1, <3>3, <3>4, WriteIs
    <2> QED BY <1>3, <2>1, <2>2, <2>3
  <1>13. RenamesRight(writes)'
    <2> SUFFICES ASSUME ~ WritesAfterCheck, writes' # <<>>, Renaming(writes'[1])
                 PROVE  /\ \A n \in 2..(N - 1) : Renames(writes'[1], writes'[n])
                        /\ \A d \in writes'[1].coming \ writes'[1].left :
                             \/ names[d] = writes'[1].given[d]
                             \/ \E n \in 2..(N - 1) : IsPending(writes'[n]) /\ writes'[n].child = d
      <3>1. names' = names /\ program' = program /\ Len(writes') = N - 1
        BY <1>1, <1>4
      <3> QED BY <3>1, ZenonT(60) DEF RenamesRight, WritesAfterCheck, Renaming, Renames, IsPending
    <2>1. N - 1 # 0
      BY <1>4, EmptySeq
    <2>2. /\ 1 \in 1..(N - 1) /\ 1 \in 1..N
          /\ \A n \in 2..(N - 1) : n \in 2..N /\ n \in 1..(N - 1)
          /\ \A n \in 2..N : n = N \/ n \in 2..(N - 1)
      BY <1>2, <2>1
    <2>3. /\ writes'[1] = writes[1] /\ \A n \in 2..(N - 1) : writes'[n] = writes[n]
      BY <1>4, <2>2
    <2>4. /\ \A n \in 2..N : Renames(writes[1], writes[n])
          /\ \A d \in writes[1].coming \ writes[1].left :
               \/ names[d] = writes[1].given[d]
               \/ \E n \in 2..N : IsPending(writes[n]) /\ writes[n].child = d
      BY <1>1, <1>2, <2>3 DEF Right, RenamesRight, N
    <2>5. ~ IsPending(writes[N])
      BY <1>2, <1>5
    <2>6. ASSUME NEW n \in 2..N, IsPending(writes[n])
          PROVE  n \in 2..(N - 1) /\ IsPending(writes'[n]) /\ writes'[n] = writes[n]
      <3>1. n \in 2..(N - 1)
        BY <2>2, <2>5, <2>6
      <3> QED BY <2>3, <2>6, <3>1
    <2>7. \A d \in writes'[1].coming \ writes'[1].left :
             \/ names[d] = writes'[1].given[d]
             \/ \E n \in 2..(N - 1) : IsPending(writes'[n]) /\ writes'[n].child = d
      <3> TAKE d \in writes'[1].coming \ writes'[1].left
      <3>1. CASE names[d] = writes[1].given[d]
        BY <2>3, <3>1
      <3>2. CASE \E n \in 2..N : IsPending(writes[n]) /\ writes[n].child = d
        <4>1. PICK n \in 2..N : IsPending(writes[n]) /\ writes[n].child = d
          BY <3>2
        <4> QED BY <2>6, <4>1
      <3> QED BY <2>3, <2>4, <3>1, <3>2
    <2> QED BY <2>2, <2>3, <2>4, <2>7
  <1> QED BY <1>8, <1>9, <1>10, <1>11, <1>12, <1>13 DEF IInv, Right, Upheld

-----------------------------------------------------------------------------
(* The theorems.                                                           *)

LEMMA StepRight ==
    ASSUME IInv, [Steps]_vars
    PROVE  IInv'
  <1>1. ASSUME NEW c \in Children, NEW name \in Names, CallUpdate(c, name)
        PROVE  IInv'
    BY <1>1, CallUpdateRight
  <1>2. ASSUME NEW coming \in SUBSET Children, NEW leaving \in SUBSET Children,
               NEW undoing \in BOOLEAN, CallChildren(coming, leaving, undoing)
        PROVE  IInv'
    BY <1>2, CallChildrenRight
  <1>3. ASSUME NEW c \in Children, NEW name \in Names, NestedUpdate(c, name)
        PROVE  IInv'
    BY <1>3, NestedUpdateRight
  <1>4. CASE NothingNested
    BY <1>4, NothingNestedRight
  <1>5. CASE CheckUpdate
    <2> DEFINE w == Innermost
               next == NextName(w.name)
    <2>1. /\ writes # <<>> /\ w.type = "update" /\ w.phase = "check"
          /\ \/ ~ (Changes(w) /\ Taken(w.child, w.name)) /\ Passes("grandparent before")
             \/ /\ Changes(w) /\ Taken(w.child, w.name)
                /\ IF Unavailable(w.child, next) THEN Fail ELSE Reject(next)
      BY <1>5 DEF CheckUpdate
    <2>2. CASE ~ (Changes(w) /\ Taken(w.child, w.name)) /\ Passes("grandparent before")
      BY <2>1, <2>2, CheckUpdatePasses
    <2>3. CASE Fail
      BY <2>1, <2>3, FailRight
    <2>4. CASE Changes(w) /\ ~ Unavailable(w.child, next) /\ Reject(next)
      <3>1. w \in AWrite /\ w.name \in Names
        BY <2>1, TopIs, WriteIs DEF IInv
      <3>2. next \in Names
        BY <2>4, <3>1, ReactionsAssumption DEF Unavailable, NextName
      <3> HIDE DEF next
      <3> QED BY <2>1, <2>4, <3>2, RejectRight
    <2> QED BY <2>1, <2>2, <2>3, <2>4
  <1>6. CASE CheckChildren
    BY <1>6, CheckChildrenRight
  <1>10. ASSUME NEW c \in Children, Rename(c)
         PROVE  IInv'
    BY <1>10, RenameRight
  <1>11. CASE AllRenamed
    BY <1>11, AllRenamedRight
  <1>7. CASE Commit
    <2>1. Innermost.type \in {"update", "children"}
      BY <1>7, TopIs, WriteIs DEF IInv, Commit
    <2> QED BY <1>7, <2>1, CommitChildrenRight, CommitUpdateRight
  <1>8. CASE Finish
    BY <1>8, FinishRight
  <1>9. CASE UNCHANGED vars
    <2>1. StoresTyped /\ writes' \in Seq(AWrite) /\ Right(writes)
      BY <1>9 DEF vars, IInv, Typed
    <2>2. /\ writes' = writes /\ rejections' \in 0..MaxRejections
          /\ calls' \in 0..MaxCalls[program]
      BY <1>9, <2>1 DEF vars, StoresTyped
    <2> QED BY <1>9, <2>1, <2>2, StoresKept DEF vars
  <1> QED BY <1>1, <1>2, <1>3, <1>4, <1>5, <1>6, <1>7, <1>8, <1>9, <1>10, <1>11
      DEF Steps, Calls, Runs

\* What is said above of writes in progress always holds.
THEOREM Invariance == Spec => []IInv
  <1>1. Init => IInv
    BY InitRight
  <1>2. IInv /\ [Steps]_vars => IInv'
    BY StepRight
  <1> QED BY <1>1, <1>2, PTL DEF Spec

\* There are never too many children, whatever reactions write, reject or fail, nor too
\* few once there were enough, unless a history undoes the change that made them enough.
THEOREM AlwaysLimitsKept == Spec => []LimitsKept
  <1>1. IInv => LimitsKept
    <2> SUFFICES ASSUME IInv
                 PROVE  LimitsKept
      OBVIOUS
    <2>1. DOMAIN writes = 1..Len(writes)
      BY DEF IInv, Typed
    <2>2. LimitsRight(writes)
      BY DEF IInv, Right, Upheld
    <2> QED BY <2>1, <2>2 DEF LimitsRight, LimitsKept, HeldRight, Undoing
  <1> QED BY Invariance, <1>1, PTL

\* No two children have one name, whatever the program nests into a write that is
\* rejected, retried or reverted, and while the children that come get their names one
\* after the other, each in a write of its own, if nothing else is written between
\* the check of a write and its commit.
THEOREM AlwaysUniqueNames == Spec => []UniqueNames
  <1>1. IInv => UniqueNames
    BY DEF IInv, Right, Upheld, NamesRight, UniqueNames
  <1> QED BY Invariance, <1>1, PTL

\* Whenever no write is in progress, the cache has the names of the children, and
\* nothing else, although the commit of children puts the cache back that they were
\* checked with; for the same programs, but those whose child writes after its change.
THEOREM AlwaysCacheExact == Spec => []CacheExact
  <1>1. IInv => CacheExact
    <2> SUFFICES ASSUME IInv
                 PROVE  CacheExact
      OBVIOUS
    <2>1. TypeOK
      <3>1. DOMAIN writes = 1..Len(writes) /\ \A n \in 1..Len(writes) : writes[n] \in AWrite
        BY DEF IInv, Typed
      <3>2. program \subseteq Habits
        BY ReactionsAssumption DEF IInv, Typed, StoresTyped, Habits
      <3> QED BY <3>1, <3>2, WriteIs DEF TypeOK, IInv, Typed, StoresTyped
    <2>2. ASSUME writes = <<>>, ~ WritesAfterCheck, "child after" \notin program
          PROVE  Exact(cache, names, held)
      BY <2>2 DEF IInv, Right, Upheld, CacheRight
    <2> QED BY <2>1, <2>2 DEF CacheExact, Exact
  <1> QED BY Invariance, <1>1, PTL
=============================================================================
