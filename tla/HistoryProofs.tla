--------------------------- MODULE HistoryProofs ---------------------------
(***************************************************************************)
(* Proofs about History: a history holds only changes of objects that it   *)
(* is the history of; so its undo and redo, whatever they write, record    *)
(* nothing anywhere, and each history is a stack of entries.  The entries  *)
(* lead from state to state, so they can be undone and redone to the ends, *)
(* if the program has no habits.                                           *)
(***************************************************************************)
EXTENDS History, FiniteSetTheorems, SequenceTheorems, WellFoundedInduction, TLAPS

-----------------------------------------------------------------------------
(* Worlds.                                                                 *)

AChange ==
    [type : {"put", "take"}, obj : Objects, child : Objects]
      \cup [type : {"set"}, obj : Objects, old : {0, 1}, new : {0, 1}]

AnEntry == [changes : Seq(AChange), closed : BOOLEAN]

AWorld == [parent : [Objects -> Objects \cup {None}], value : [Objects -> {0, 1}],
           provider : [Objects -> Objects \cup {None}],
           last : [Objects -> Historied \cup {None}],
           changes : [Historied -> Seq(AnEntry)], index : [Historied -> Nat]]

\* The history of x is h, or finding it does not end.
Belongs(w, x, h) == HistoryOf(w, x) = h \/ ~ HistoryFound(w, x)

\* The objects whose history h is.
Theirs(w, h) == {x \in Objects : Belongs(w, x, h)}

\* The changes that a history has are of its own objects.
Own(w, h) ==
    \A n \in 1..Len(w.changes[h]) : \A i \in 1..Len(w.changes[h][n].changes) :
      w.changes[h][n].changes[i].obj \in Theirs(w, h)

Fixed == size \in Sizes /\ adopting \in Adoptings /\ habits \in Programs

Typed == Fixed /\ World \in AWorld /\ batches \in Seq(Historied)

Bounded == \A h \in Historied : Len(changes[h]) <= MaxEntries

IInv ==
    /\ Typed /\ Bounded
    /\ \A h \in Historied : IndexRight(h) /\ Own(World, h)

-----------------------------------------------------------------------------
(* Induction.                                                              *)

\* A set of numbers that has some has a least one.
LEMMA LeastNumber ==
    ASSUME NEW T \in SUBSET Nat, T # {}
    PROVE  \E x \in T : \A y \in T : x <= y
  <1> DEFINE R == OpToRel(<, Nat)
  <1>1. IsWellFoundedOn(R, Nat)
    BY NatLessThanWellFounded
  <1>2. \A x, y \in Nat : <<x, y>> \in R <=> x < y
    BY DEF OpToRel
  <1> HIDE DEF R
  <1>3. \E x \in T : \A y \in T : ~ (<<y, x>> \in R)
    BY <1>1, WFMin
  <1>4. \A x, y \in T : <<y, x>> \in R <=> y < x
    BY <1>2
  <1>5. \A x, y \in T : ~ (y < x) => x <= y
    OBVIOUS
  <1> QED BY <1>3, <1>4, <1>5

LEMMA Induct ==
    ASSUME NEW S, 0 \in S, \A n \in Nat : n \in S => n + 1 \in S
    PROVE  \A n \in Nat : n \in S
  <1> DEFINE T == {n \in Nat : n \notin S}
  <1> SUFFICES ASSUME T # {} PROVE FALSE
    OBVIOUS
  <1>1. PICK x \in T : \A y \in T : x <= y
    BY LeastNumber
  <1>2. x # 0 /\ x - 1 \in Nat /\ x - 1 \notin T
    BY <1>1
  <1> QED BY <1>2

LEMMA OneMore ==
    \A N \in Nat : \A n \in Nat : n + 1 <= N =>
      /\ n + 1 \in 1..N /\ n + 1 \in 0..N /\ n + 1 # 0 /\ (n + 1) - 1 = n /\ n <= N
  OBVIOUS

LEMMA NoObject == Historied \subseteq Objects /\ None \notin Objects
  BY HistoryAssumption DEF Objects

-----------------------------------------------------------------------------
(* The way to the history of an object.                                    *)

Ends == Historied \cup {None}

\* The next object on the way.
Onward(w, p) == IF p = None \/ p \in Historied THEN p ELSE w.provider[p]

\* The definition of after in ProviderAfter.
OnTheWay(w, o, f, n) == IF n = 0 THEN o ELSE LET p == f[n - 1] IN Onward(w, p)

\* f is the way from o, up to N steps.
Way(w, o, N, f) == f[0] = o /\ \A k \in 1..N : f[k] = Onward(w, f[k - 1])

LEMMA Below == \A n \in Nat : \A k \in 0..(n + 1) : k = 0 \/ (k # 0 /\ k - 1 \in 0..n)
  OBVIOUS

LEMMA ZeroOnly == 0..0 = {0} /\ \A n \in Nat : 0 \in 0..n
  OBVIOUS

LEMMA OneFurther ==
    \A n \in Nat : /\ \A k \in 0..(n + 1) : \/ k = n + 1
                                            \/ k \in 0..n /\ k # n + 1
                   /\ 0..n \subseteq 0..(n + 1) /\ n + 1 \in 0..(n + 1) /\ n + 1 # 0
                   /\ n + 1 \notin 0..n /\ n \in 0..n /\ (n + 1) - 1 = n
  OBVIOUS

\* The recursion is one: there is a function as it says.
LEMMA Going ==
    ASSUME NEW w, NEW o, NEW N \in Nat
    PROVE  \E f : f = [m \in 0..N |-> OnTheWay(w, o, f, m)]
  <1> DEFINE S == {n \in Nat : \E f : f = [m \in 0..n |-> OnTheWay(w, o, f, m)]}
  <1>1. 0 \in S
    <2> DEFINE f == [m \in 0..0 |-> o]
    <2>1. \A m \in 0..0 : OnTheWay(w, o, f, m) = o
      BY ZeroOnly DEF OnTheWay
    <2>2. f = [m \in 0..0 |-> OnTheWay(w, o, f, m)]
      BY <2>1
    <2> QED BY <2>2
  <1>2. ASSUME NEW n \in Nat, n \in S
        PROVE  n + 1 \in S
    <2>1. PICK f : f = [m \in 0..n |-> OnTheWay(w, o, f, m)]
      BY <1>2
    <2> DEFINE g == [m \in 0..(n + 1) |-> IF m = n + 1 THEN OnTheWay(w, o, f, n + 1) ELSE f[m]]
    <2>2. \A m \in 0..n : g[m] = f[m] /\ f[m] = OnTheWay(w, o, f, m)
      BY <2>1, OneFurther
    <2>3. g[n + 1] = OnTheWay(w, o, f, n + 1) /\ g = [m \in 0..(n + 1) |-> g[m]]
      BY OneFurther
    <2> HIDE DEF g
    <2>4. \A m \in 0..(n + 1) : OnTheWay(w, o, g, m) = OnTheWay(w, o, f, m)
      BY <2>2, Below DEF OnTheWay
    <2>5. \A m \in 0..(n + 1) : g[m] = OnTheWay(w, o, g, m)
      BY <2>2, <2>3, <2>4, OneFurther
    <2>6. g = [m \in 0..(n + 1) |-> OnTheWay(w, o, g, m)]
      BY <2>3, <2>5
    <2> QED BY <2>6
  <1> HIDE DEF S
  <1>3. N \in S
    BY <1>1, <1>2, Induct
  <1> QED BY <1>3 DEF S

LEMMA SomeWay ==
    ASSUME NEW w, NEW o, NEW N \in Nat
    PROVE  \E f : Way(w, o, N, f)
  <1>1. PICK f : f = [m \in 0..N |-> OnTheWay(w, o, f, m)]
    BY Going
  <1>2. \A m \in 0..N : f[m] = OnTheWay(w, o, f, m)
    BY <1>1
  <1>3. f[0] = o
    BY <1>2, ZeroOnly DEF OnTheWay
  <1>4. \A k \in 1..N : k \in 0..N /\ k # 0
    OBVIOUS
  <1>5. \A k \in 1..N : f[k] = Onward(w, f[k - 1])
    BY <1>2, <1>4 DEF OnTheWay
  <1> QED BY <1>3, <1>5 DEF Way

\* There is one way only.
LEMMA OneWay ==
    ASSUME NEW w, NEW o, NEW N \in Nat, NEW M \in Nat, N <= M, NEW f, NEW g,
           Way(w, o, N, f), Way(w, o, M, g)
    PROVE  \A k \in 0..N : f[k] = g[k]
  <1> DEFINE S == {k \in Nat : k <= N => f[k] = g[k]}
  <1>1. 0 \in S
    BY DEF Way
  <1>2. ASSUME NEW k \in Nat, k \in S
        PROVE  k + 1 \in S
    <2> SUFFICES ASSUME k + 1 <= N
                 PROVE  f[k + 1] = g[k + 1]
      OBVIOUS
    <2>1. f[k] = g[k]
      BY <1>2
    <2>2. k + 1 \in 1..N /\ k + 1 \in 1..M /\ (k + 1) - 1 = k
      OBVIOUS
    <2> QED BY <2>1, <2>2 DEF Way
  <1> HIDE DEF S
  <1>3. \A k \in Nat : k \in S
    BY <1>1, <1>2, Induct
  <1> QED BY <1>3 DEF S

Steps == Cardinality(Objects)

LEMMA EntriesBound == MaxEntries \in Nat
  BY HistoryAssumption, Zenon

LEMMA StepsCount == Steps \in Nat /\ IsFiniteSet(Objects)
  BY HistoryAssumption, FS_CardinalityType DEF Objects, Steps

\* The history of an object is where its way is after so many steps as there are
\* objects.
LEMMA HistoryIs ==
    ASSUME NEW w, NEW o, NEW M \in Nat, Steps <= M, NEW g, Way(w, o, M, g)
    PROVE  HistoryOf(w, o) = g[Steps]
  <1> DEFINE after == CHOOSE f : f = [m \in 0..Steps |-> OnTheWay(w, o, f, m)]
  <1>1. after = [m \in 0..Steps |-> OnTheWay(w, o, after, m)]
    BY Going, StepsCount
  <1>2. HistoryOf(w, o) = after[Steps]
    BY DEF HistoryOf, ProviderAfter, OnTheWay, Onward, Steps
  <1> HIDE DEF after
  <1>3. \A m \in 0..Steps : after[m] = OnTheWay(w, o, after, m)
    BY <1>1
  <1>4. after[0] = o
    BY <1>3, ZeroOnly, StepsCount DEF OnTheWay
  <1>5. \A k \in 1..Steps : k \in 0..Steps /\ k # 0
    BY StepsCount
  <1>6. Way(w, o, Steps, after)
    BY <1>3, <1>4, <1>5 DEF Way, OnTheWay
  <1>7. Steps \in 0..Steps
    BY StepsCount
  <1> QED BY <1>2, <1>6, <1>7, OneWay, StepsCount

\* Who got to an end stays there.
LEMMA EndsStay ==
    ASSUME NEW w, NEW o, NEW N \in Nat, NEW f, Way(w, o, N, f),
           NEW i \in 0..N, f[i] \in Ends
    PROVE  \A k \in i..N : f[k] = f[i]
  <1> DEFINE S == {k \in Nat : i + k <= N => f[i + k] = f[i]}
  <1>1. 0 \in S
    OBVIOUS
  <1>2. ASSUME NEW k \in Nat, k \in S
        PROVE  k + 1 \in S
    <2> SUFFICES ASSUME i + (k + 1) <= N
                 PROVE  f[i + (k + 1)] = f[i]
      OBVIOUS
    <2>1. f[i + k] = f[i]
      BY <1>2
    <2>2. i + (k + 1) \in 1..N /\ (i + (k + 1)) - 1 = i + k
      OBVIOUS
    <2> QED BY <2>1, <2>2 DEF Way, Ends, Onward
  <1> HIDE DEF S
  <1>3. \A k \in Nat : k \in S
    BY <1>1, <1>2, Induct
  <1>4. ASSUME NEW k \in i..N
        PROVE  f[k] = f[i]
    <2>1. k - i \in Nat /\ i + (k - i) = k /\ k <= N
      OBVIOUS
    <2>2. k - i \in S
      BY <1>3, <2>1
    <2> QED BY <2>1, <2>2 DEF S
  <1> QED BY <1>4

-----------------------------------------------------------------------------
(* Which history an object has.                                            *)

LEMMA EndsAtOnce ==
    ASSUME NEW w, NEW o \in Ends
    PROVE  HistoryOf(w, o) = o
  <1>1. PICK f : Way(w, o, Steps, f)
    BY SomeWay, StepsCount
  <1>2. f[0] = o /\ 0 \in 0..Steps /\ Steps \in 0..Steps
    BY <1>1, StepsCount DEF Way
  <1>3. f[Steps] = f[0]
    BY <1>1, <1>2, EndsStay, StepsCount
  <1> QED BY <1>1, <1>2, <1>3, HistoryIs, StepsCount

\* The way from an object is the one from the next, one step longer.
LEMMA LongerWay ==
    ASSUME NEW w, NEW o
    PROVE  \E f, g : /\ Way(w, o, Steps + 1, f) /\ Way(w, Onward(w, o), Steps, g)
                     /\ HistoryOf(w, o) = f[Steps]
                     /\ HistoryOf(w, Onward(w, o)) = f[Steps + 1]
  <1>1. PICK f : Way(w, o, Steps + 1, f)
    BY SomeWay, StepsCount
  <1> DEFINE g == [k \in 0..Steps |-> f[k + 1]]
  <1>2. Steps \in Nat /\ Steps \in 0..Steps /\ 0 \in 0..Steps
    BY StepsCount
  <1>3. g[0] = Onward(w, o)
    <2>1. 1 \in 1..(Steps + 1)
      BY <1>2
    <2>2. f[1] = Onward(w, f[1 - 1]) /\ f[0] = o
      BY <1>1, <2>1 DEF Way
    <2> QED BY <1>2, <2>2
  <1>4. ASSUME NEW k \in 1..Steps
        PROVE  g[k] = Onward(w, g[k - 1])
    <2>1. /\ k \in 0..Steps /\ k - 1 \in 0..Steps /\ k + 1 \in 1..(Steps + 1)
          /\ (k - 1) + 1 = k /\ (k + 1) - 1 = k
      BY <1>2
    <2>2. f[k + 1] = Onward(w, f[(k + 1) - 1])
      BY <1>1, <2>1 DEF Way
    <2> QED BY <2>1, <2>2
  <1>5. Way(w, Onward(w, o), Steps, g) /\ g[Steps] = f[Steps + 1]
    BY <1>2, <1>3, <1>4 DEF Way
  <1> HIDE DEF g
  <1>6. HistoryOf(w, o) = f[Steps]
    BY <1>1, <1>2, HistoryIs
  <1>7. HistoryOf(w, Onward(w, o)) = g[Steps]
    BY <1>2, <1>5, HistoryIs
  <1> QED BY <1>1, <1>5, <1>6, <1>7

LEMMA OnwardIs ==
    ASSUME NEW w \in AWorld, NEW o \in Objects \cup {None}
    PROVE  /\ Onward(w, o) \in Objects \cup {None}
           /\ o \notin Ends => o \in Objects
  BY DEF Onward, AWorld, Ends

\* A way that does not end within so many steps as there are objects goes round.
LEMMA EndsInTime ==
    ASSUME NEW w \in AWorld, NEW o \in Objects \cup {None}, NEW f,
           Way(w, o, Steps + 1, f), f[Steps + 1] \in Ends
    PROVE  f[Steps] \in Ends
  <1> SUFFICES ASSUME f[Steps] \notin Ends
               PROVE  FALSE
    OBVIOUS
  <1>1. Steps \in Nat /\ Steps \in 0..Steps /\ Steps + 1 \in Nat
    BY StepsCount
  <1>2. \A k \in 0..Steps : f[k] \notin Ends
    <2> SUFFICES ASSUME NEW k \in 0..Steps, f[k] \in Ends
                 PROVE  FALSE
      OBVIOUS
    <2>1. k \in 0..(Steps + 1) /\ Steps \in k..(Steps + 1)
      BY <1>1
    <2>2. f[Steps] = f[k]
      BY <1>1, <2>1, EndsStay
    <2> QED BY <2>2
  <1>3. \A k \in 0..Steps : f[k] \in Objects
    <2> DEFINE S == {k \in Nat : k <= Steps => f[k] \in Objects \cup {None}}
    <2>1. 0 \in S
      BY DEF Way
    <2>2. ASSUME NEW k \in Nat, k \in S
          PROVE  k + 1 \in S
      <3> SUFFICES ASSUME k + 1 <= Steps
                   PROVE  f[k + 1] \in Objects \cup {None}
        OBVIOUS
      <3>1. f[k] \in Objects \cup {None} /\ k + 1 \in 1..(Steps + 1) /\ (k + 1) - 1 = k
        BY <1>1, <2>2
      <3>2. f[k + 1] = Onward(w, f[k])
        BY <3>1 DEF Way
      <3> QED BY <3>1, <3>2, OnwardIs
    <2> HIDE DEF S
    <2>3. \A k \in Nat : k \in S
      BY <2>1, <2>2, Induct
    <2>4. \A k \in 0..Steps : f[k] \in Objects \cup {None}
      BY <1>1, <2>3 DEF S
    <2> QED BY <1>2, <2>4, OnwardIs
  <1>4. ASSUME NEW i \in 0..Steps, NEW j \in 0..Steps, i < j, f[i] = f[j]
        PROVE  FALSE
    <2> DEFINE S == {k \in Nat : j + k <= Steps + 1 => f[i + k] = f[j + k]}
    <2>1. 0 \in S
      BY <1>4
    <2>2. ASSUME NEW k \in Nat, k \in S
          PROVE  k + 1 \in S
      <3> SUFFICES ASSUME j + (k + 1) <= Steps + 1
                   PROVE  f[i + (k + 1)] = f[j + (k + 1)]
        OBVIOUS
      <3>1. f[i + k] = f[j + k]
        BY <1>1, <2>2
      <3>2. /\ i + (k + 1) \in 1..(Steps + 1) /\ (i + (k + 1)) - 1 = i + k
            /\ j + (k + 1) \in 1..(Steps + 1) /\ (j + (k + 1)) - 1 = j + k
        BY <1>1, <1>4
      <3> QED BY <3>1, <3>2 DEF Way
    <2> HIDE DEF S
    <2>3. \A k \in Nat : k \in S
      BY <2>1, <2>2, Induct
    <2> DEFINE k == (Steps + 1) - j
    <2>4. k \in Nat /\ j + k = Steps + 1 /\ i + k \in 0..Steps
      BY <1>1, <1>4
    <2> HIDE DEF k
    <2>5. f[i + k] = f[Steps + 1]
      BY <1>1, <2>3, <2>4 DEF S
    <2> QED BY <1>2, <2>4, <2>5
  <1>5. \A i, j \in 0..Steps : i # j => f[i] # f[j]
    <2> SUFFICES ASSUME NEW i \in 0..Steps, NEW j \in 0..Steps, i # j, f[i] = f[j]
                 PROVE  FALSE
      OBVIOUS
    <2>1. i < j \/ j < i
      BY <1>1
    <2> QED BY <1>4, <2>1
  <1> DEFINE g == [k \in 0..Steps |-> f[k]]
  <1>6. g \in Injection(0..Steps, Objects)
    BY <1>3, <1>5 DEF Injection, IsInjective
  <1>7. Cardinality(0..Steps) <= Cardinality(Objects)
    BY <1>6, StepsCount, FS_Injection
  <1>8. Cardinality(0..Steps) = Steps + 1
    BY <1>1, FS_Interval
  <1> QED BY <1>1, <1>7, <1>8 DEF Steps

\* An object has the history of the next object on its way.
LEMMA SameHistory ==
    ASSUME NEW w \in AWorld, NEW o \in Objects \cup {None}
    PROVE  /\ HistoryFound(w, o) <=> HistoryFound(w, Onward(w, o))
           /\ HistoryFound(w, o) => HistoryOf(w, o) = HistoryOf(w, Onward(w, o))
  <1>1. PICK f, g : /\ Way(w, o, Steps + 1, f) /\ Way(w, Onward(w, o), Steps, g)
                    /\ HistoryOf(w, o) = f[Steps]
                    /\ HistoryOf(w, Onward(w, o)) = f[Steps + 1]
    BY LongerWay
  <1>2. Steps + 1 \in Nat /\ Steps \in 0..(Steps + 1) /\ Steps + 1 \in Steps..(Steps + 1)
    BY StepsCount
  <1>3. ASSUME f[Steps] \in Ends
        PROVE  f[Steps + 1] = f[Steps]
    <2>1. \A k \in Steps..(Steps + 1) : f[k] = f[Steps]
      BY <1>1, <1>2, <1>3, EndsStay
    <2> QED BY <1>2, <2>1
  <1>4. f[Steps + 1] \in Ends => f[Steps] \in Ends
    BY <1>1, EndsInTime
  <1>5. \A x : HistoryFound(w, x) <=> HistoryOf(w, x) \in Ends
    BY DEF HistoryFound, HistoryOf, Ends
  <1> QED BY <1>1, <1>3, <1>4, <1>5

\* What is true of the ends, and of an object if it is of the next one, is true of
\* every object whose way ends.
LEMMA Backwards ==
    ASSUME NEW w \in AWorld, NEW S, Ends \subseteq S,
           \A x \in Objects : Onward(w, x) \in S => x \in S
    PROVE  \A x \in Objects \cup {None} : HistoryFound(w, x) => x \in S
  <1> SUFFICES ASSUME NEW x \in Objects \cup {None}, HistoryFound(w, x)
               PROVE  x \in S
    OBVIOUS
  <1>1. PICK f : Way(w, x, Steps, f)
    BY SomeWay, StepsCount
  <1>2. HistoryOf(w, x) = f[Steps]
    BY <1>1, HistoryIs, StepsCount
  <1>3. f[Steps] \in S
    BY <1>2 DEF HistoryFound, HistoryOf, Ends
  <1> DEFINE T == {k \in Nat : k <= Steps => f[k] \in Objects \cup {None}}
  <1>4. \A k \in Nat : k \in T
    <2>1. 0 \in T
      BY <1>1 DEF Way
    <2>2. ASSUME NEW k \in Nat, k \in T
          PROVE  k + 1 \in T
      <3> SUFFICES ASSUME k + 1 <= Steps
                   PROVE  f[k + 1] \in Objects \cup {None}
        OBVIOUS
      <3>1. f[k] \in Objects \cup {None} /\ k + 1 \in 1..Steps /\ (k + 1) - 1 = k
        BY <2>2, StepsCount
      <3>2. f[k + 1] = Onward(w, f[k])
        BY <1>1, <3>1 DEF Way
      <3> QED BY <3>1, <3>2, OnwardIs
    <2> HIDE DEF T
    <2> QED BY <2>1, <2>2, Induct
  <1> DEFINE U == {k \in Nat : k <= Steps => f[Steps - k] \in S}
  <1>5. \A k \in Nat : k \in U
    <2>1. 0 \in U
      BY <1>3, StepsCount
    <2>2. ASSUME NEW k \in Nat, k \in U
          PROVE  k + 1 \in U
      <3> SUFFICES ASSUME k + 1 <= Steps
                   PROVE  f[Steps - (k + 1)] \in S
        OBVIOUS
      <3>1. /\ f[Steps - k] \in S /\ Steps - k \in 1..Steps /\ (Steps - k) - 1 = Steps - (k + 1)
            /\ Steps - (k + 1) \in Nat /\ Steps - (k + 1) <= Steps
        BY <2>2, StepsCount
      <3>2. f[Steps - k] = Onward(w, f[Steps - (k + 1)])
        BY <1>1, <3>1 DEF Way
      <3>3. f[Steps - (k + 1)] \in Objects \cup {None}
        BY <1>4, <3>1
      <3>4. CASE f[Steps - (k + 1)] = None
        BY <3>4 DEF Ends
      <3>5. CASE f[Steps - (k + 1)] \in Objects
        BY <3>1, <3>2, <3>5
      <3> QED BY <3>3, <3>4, <3>5
    <2> HIDE DEF U
    <2> QED BY <2>1, <2>2, Induct
  <1>6. Steps \in U /\ Steps - Steps = 0
    BY <1>5, StepsCount
  <1>7. f[0] \in S
    BY <1>6, StepsCount
  <1> QED BY <1>1, <1>7 DEF Way

\* An object that gets another provider takes along those whose way leads past it:
\* they had its history and get the one of the provider, or none is found.
LEMMA Moved ==
    ASSUME NEW w \in AWorld, NEW v \in AWorld, NEW c \in Objects, NEW o \in Objects,
           c \notin Historied, v.provider = [w.provider EXCEPT ![c] = o],
           HistoryFound(w, c), NEW x \in Objects, HistoryFound(v, x)
    PROVE  \/ HistoryOf(v, x) = HistoryOf(w, x)
           \/ HistoryOf(w, x) = HistoryOf(w, c) /\ HistoryOf(v, x) = HistoryOf(w, o)
  <1> DEFINE Along(y) == \/ HistoryOf(v, y) = HistoryOf(w, y)
                         \/ /\ HistoryOf(w, y) = HistoryOf(w, c)
                            /\ HistoryOf(v, y) = HistoryOf(w, o)
             S == {y \in Objects \cup {None} : HistoryFound(v, y) => Along(y)}
  <1>1. \A u, y : HistoryFound(u, y) <=> HistoryOf(u, y) \in Ends
    BY DEF HistoryFound, HistoryOf, Ends
  <1>2. Ends \subseteq S
    <2>1. Ends \subseteq Objects \cup {None}
      BY NoObject DEF Ends
    <2> QED BY <2>1, EndsAtOnce
  <1>3. ASSUME NEW y \in Objects, Onward(v, y) \in S
        PROVE  y \in S
    <2> SUFFICES ASSUME HistoryFound(v, y)
                 PROVE  Along(y)
      OBVIOUS
    <2>1. /\ HistoryFound(v, Onward(v, y)) /\ HistoryOf(v, y) = HistoryOf(v, Onward(v, y))
          /\ Along(Onward(v, y))
      BY <1>3, SameHistory
    <2>2. CASE y = c
      <3>1. Onward(v, y) = o
        <4>1. c \notin Ends /\ c \in DOMAIN w.provider
          BY NoObject DEF Ends, AWorld
        <4> QED BY <2>2, <4>1 DEF Onward, Ends
      <3> QED BY <2>1, <2>2, <3>1
    <2>3. CASE y # c
      <3>1. Onward(v, y) = Onward(w, y)
        <4>1. v.provider[y] = w.provider[y]
          BY <2>3 DEF AWorld
        <4> QED BY <4>1 DEF Onward
      <3>2. HistoryFound(w, Onward(w, y))
        BY <1>1, <2>1, <3>1
      <3>3. HistoryOf(w, y) = HistoryOf(w, Onward(w, y))
        BY <3>2, SameHistory
      <3> QED BY <2>1, <3>1, <3>3
    <2> QED BY <2>2, <2>3
  <1> HIDE DEF S
  <1>4. x \in S
    BY <1>2, <1>3, Backwards
  <1> QED BY <1>4 DEF S

-----------------------------------------------------------------------------
(* Sequences of entries.                                                   *)

LEMMA Appended ==
    ASSUME NEW S, NEW J \in Seq(S), NEW x \in S
    PROVE  /\ Append(J, x) \in Seq(S) /\ Append(J, x) # <<>>
           /\ Len(Append(J, x)) = Len(J) + 1
           /\ Append(J, x)[Len(J) + 1] = x /\ Last(Append(J, x)) = x
           /\ Front(Append(J, x)) = J
           /\ \A n \in 1..Len(J) : Append(J, x)[n] = J[n]
           /\ \A n \in 1..Len(Append(J, x)) : n = Len(J) + 1 \/ n \in 1..Len(J)
  <1>1. /\ Append(J, x) \in Seq(S) /\ Append(J, x) # <<>>
        /\ Len(Append(J, x)) = Len(J) + 1
        /\ \A n \in 1..Len(J) : Append(J, x)[n] = J[n]
        /\ Append(J, x)[Len(J) + 1] = x
    BY AppendProperties
  <1>2. Len(J) \in Nat
    OBVIOUS
  <1>3. Last(Append(J, x)) = x
    BY <1>1 DEF Last
  <1>4. Front(Append(J, x)) = J
    <2>1. Front(Append(J, x)) = SubSeq(Append(J, x), 1, Len(J))
      BY <1>1, <1>2 DEF Front
    <2> DEFINE f == SubSeq(Append(J, x), 1, Len(J))
    <2>2. /\ f \in Seq(S) /\ Len(f) = Len(J)
          /\ \A i \in 1..Len(J) : f[i] = Append(J, x)[i]
      BY <1>1, <1>2, SubSeqProperties
    <2> HIDE DEF f
    <2>3. \A i \in 1..Len(f) : f[i] = J[i]
      BY <1>1, <2>2
    <2>4. f = J
      BY <2>2, <2>3, SeqEqual
    <2> QED BY <2>1, <2>4 DEF f
  <1>5. \A n \in 1..Len(Append(J, x)) : n = Len(J) + 1 \/ n \in 1..Len(J)
    BY <1>1, <1>2
  <1> QED BY <1>1, <1>3, <1>4, <1>5

\* Another last element.
WithLast(s, y) == [s EXCEPT ![Len(s)] = y]

LEMMA LastReplaced ==
    ASSUME NEW S, NEW J \in Seq(S), NEW x \in S, NEW y \in S
    PROVE  WithLast(Append(J, x), y) = Append(J, y)
  <1> DEFINE s == WithLast(Append(J, x), y)
  <1>1. /\ Append(J, x) \in Seq(S) /\ Len(Append(J, x)) = Len(J) + 1 /\ Len(J) \in Nat
        /\ \A n \in 1..Len(J) : Append(J, x)[n] = J[n]
        /\ \A n \in 1..Len(Append(J, x)) : n = Len(J) + 1 \/ n \in 1..Len(J)
    BY Appended
  <1>2. /\ Append(J, y) \in Seq(S) /\ Len(Append(J, y)) = Len(J) + 1
        /\ \A n \in 1..Len(J) : Append(J, y)[n] = J[n] /\ Append(J, y)[Len(J) + 1] = y
    <2>1. Append(J, y)[Len(J) + 1] = y
      BY AppendProperties
    <2> QED BY <2>1, Appended
  <1>3. Len(J) + 1 \in 1..Len(Append(J, x)) /\ Len(J) + 1 \notin 1..Len(J)
    BY <1>1
  <1>4. /\ s \in Seq(S) /\ Len(s) = Len(J) + 1
        /\ s[Len(J) + 1] = y /\ \A n \in 1..Len(J) : s[n] = Append(J, x)[n]
    <2> DEFINE t == Append(J, x)
               i == Len(J) + 1
    <2>1. t \in Seq(S) /\ Len(t) = i /\ i \in 1..Len(t) /\ \A n \in 1..Len(J) : n # i
      BY <1>1, <1>3
    <2>2. s = [t EXCEPT ![i] = y] /\ \A n \in 1..Len(J) : n \in 1..Len(t)
      BY <1>1 DEF WithLast
    <2> HIDE DEF t, i, s
    <2>3. /\ [t EXCEPT ![i] = y] \in Seq(S) /\ Len([t EXCEPT ![i] = y]) = Len(t)
          /\ \A n \in 1..Len(t) : [t EXCEPT ![i] = y][n] = IF n = i THEN y ELSE t[n]
      BY <2>1, ExceptSeq
    <2>4. s \in Seq(S) /\ Len(s) = i /\ s[i] = y /\ \A n \in 1..Len(J) : s[n] = t[n]
      BY <2>1, <2>2, <2>3
    <2> QED BY <2>4 DEF t, i, s
  <1> HIDE DEF s
  <1>5. \A n \in 1..Len(s) : s[n] = Append(J, y)[n]
    <2> TAKE n \in 1..Len(s)
    <2>1. n = Len(J) + 1 \/ n \in 1..Len(J)
      BY <1>1, <1>4
    <2> QED BY <1>1, <1>2, <1>4, <2>1
  <1>6. s = Append(J, y)
    BY <1>2, <1>4, <1>5, SeqEqual
  <1> QED BY <1>6 DEF s

LEMMA EmptyOrAppended ==
    ASSUME NEW S, NEW s \in Seq(S)
    PROVE  s = <<>> \/ \E J \in Seq(S), x \in S : s = Append(J, x)
  BY SequenceEmptyOrAppend

LEMMA WorldIs ==
    ASSUME NEW w \in AWorld, NEW h \in Historied
    PROVE  /\ w.changes[h] \in Seq(AnEntry) /\ w.index[h] \in Nat
           /\ Len(w.changes[h]) \in Nat /\ DOMAIN w.changes[h] = 1..Len(w.changes[h])
           /\ \A n \in 1..Len(w.changes[h]) : w.changes[h][n] \in AnEntry
  BY DEF AWorld

LEMMA EntryIs ==
    ASSUME NEW e \in AnEntry
    PROVE  /\ e.changes \in Seq(AChange) /\ e.closed \in BOOLEAN
           /\ [e EXCEPT !.closed = TRUE] = [changes |-> e.changes, closed |-> TRUE]
           /\ \A c \in AChange :
                [e EXCEPT !.changes = Append(@, c)] =
                  [changes |-> Append(e.changes, c), closed |-> e.closed]
           /\ [changes |-> e.changes, closed |-> TRUE] \in AnEntry
           /\ \A c \in AChange :
                [changes |-> Append(e.changes, c), closed |-> e.closed] \in AnEntry
  <1>1. e.changes \in Seq(AChange) /\ e.closed \in BOOLEAN
    BY DEF AnEntry
  <1>2. \A c \in AChange : Append(e.changes, c) \in Seq(AChange)
    BY <1>1
  <1>3. e = [changes |-> e.changes, closed |-> e.closed]
    BY DEF AnEntry
  <1>4. [e EXCEPT !.closed = TRUE] = [changes |-> e.changes, closed |-> TRUE]
    <2>1. \A b \in BOOLEAN : [e EXCEPT !.closed = b] = [changes |-> e.changes, closed |-> b]
      BY DEF AnEntry
    <2> QED BY <2>1
  <1>5. ASSUME NEW c \in AChange
        PROVE  /\ [e EXCEPT !.changes = Append(@, c)] =
                    [changes |-> Append(e.changes, c), closed |-> e.closed]
               /\ [changes |-> Append(e.changes, c), closed |-> e.closed] \in AnEntry
    <2> DEFINE l == Append(e.changes, c)
    <2>1. l \in Seq(AChange)
      BY <1>2
    <2> HIDE DEF l
    <2>2. [e EXCEPT !.changes = l] = [changes |-> l, closed |-> e.closed]
      BY <1>3
    <2>3. [changes |-> l, closed |-> e.closed] \in AnEntry
      BY <1>1, <2>1 DEF AnEntry
    <2> QED BY <2>2, <2>3 DEF l
  <1>6. [changes |-> e.changes, closed |-> TRUE] \in AnEntry
    BY <1>1 DEF AnEntry
  <1> QED BY <1>1, <1>4, <1>5, <1>6

-----------------------------------------------------------------------------
(* What is done to histories, each with its entries and its index.         *)

\* What can be undone.
Past(w, h) == SubSeq(w.changes[h], 1, w.index[h])

AllInRange(w) == \A h \in Historied : w.index[h] <= Len(w.changes[h])

\* Everything but the book of h is as it was.
Others(w, v, h) ==
    /\ v \in AWorld
    /\ v.parent = w.parent /\ v.value = w.value /\ v.provider = w.provider /\ v.last = w.last
    /\ \A g \in Historied : g # h => v.changes[g] = w.changes[g] /\ v.index[g] = w.index[g]

Open(s) == s # <<>> /\ ~ Last(s).closed

WithChange(s, change) == [s EXCEPT ![Len(s)].changes = Append(@, change)]

LEMMA PastIs ==
    ASSUME NEW w \in AWorld, AllInRange(w), NEW h \in Historied
    PROVE  /\ Past(w, h) \in Seq(AnEntry) /\ Len(Past(w, h)) = w.index[h]
           /\ \A n \in 1..w.index[h] : /\ Past(w, h)[n] = w.changes[h][n]
                                       /\ n \in 1..Len(w.changes[h])
           /\ w.index[h] = Len(w.changes[h]) => Past(w, h) = w.changes[h]
  <1>1. /\ w.changes[h] \in Seq(AnEntry) /\ w.index[h] \in Nat
        /\ w.index[h] <= Len(w.changes[h]) /\ Len(w.changes[h]) \in Nat
    BY WorldIs DEF AllInRange
  <1> DEFINE s == w.changes[h]
             i == w.index[h]
  <1> HIDE DEF s, i
  <1>2. /\ SubSeq(s, 1, i) \in Seq(AnEntry) /\ Len(SubSeq(s, 1, i)) = i
        /\ \A n \in 1..i : SubSeq(s, 1, i)[n] = s[n] /\ n \in 1..Len(s)
    <2>1. s \in Seq(AnEntry) /\ i \in Nat /\ i <= Len(s) /\ Len(s) \in Nat
      BY <1>1 DEF s, i
    <2>2. \A m \in 1..(Len(s) + 1) : \A n \in (m - 1)..Len(s) :
            /\ SubSeq(s, m, n) \in Seq(AnEntry)
            /\ Len(SubSeq(s, m, n)) = IF m <= n THEN n - m + 1 ELSE 0
            /\ \A k \in 1..(n - m + 1) : SubSeq(s, m, n)[k] = s[m + k - 1]
      BY <2>1, SubSeqProperties
    <2>3. 1 \in 1..(Len(s) + 1) /\ i \in (1 - 1)..Len(s) /\ i - 1 + 1 = i
      BY <2>1
    <2>4. \A k \in 1..i : 1 + k - 1 = k /\ k \in 1..Len(s)
      BY <2>1
    <2> QED BY <2>1, <2>2, <2>3, <2>4
  <1>3. i = Len(s) => SubSeq(s, 1, i) = s
    BY <1>1, SubSeqFull DEF s, i
  <1> QED BY <1>2, <1>3 DEF Past, s, i

LEMMA FlushedIs ==
    ASSUME NEW w \in AWorld, NEW hs
    PROVE  LET v == Flushed(w, hs)
           IN  /\ v \in AWorld
               /\ v.parent = w.parent /\ v.value = w.value
               /\ v.provider = w.provider /\ v.last = w.last
               /\ \A h \in Historied :
                    IF h \in hs THEN v.changes[h] = <<>> /\ v.index[h] = 0
                    ELSE v.changes[h] = w.changes[h] /\ v.index[h] = w.index[h]
  <1> DEFINE cs == [h \in Historied |-> IF h \in hs THEN <<>> ELSE w.changes[h]]
             is == [h \in Historied |-> IF h \in hs THEN 0 ELSE w.index[h]]
             v  == [w EXCEPT !.changes = cs, !.index = is]
  <1>1. cs \in [Historied -> Seq(AnEntry)] /\ is \in [Historied -> Nat]
    <2>1. <<>> \in Seq(AnEntry) /\ 0 \in Nat
      BY EmptySeq
    <2> QED BY <2>1, WorldIs
  <1>2. \A h \in Historied : /\ cs[h] = IF h \in hs THEN <<>> ELSE w.changes[h]
                             /\ is[h] = IF h \in hs THEN 0 ELSE w.index[h]
    OBVIOUS
  <1>3. Flushed(w, hs) = v
    BY DEF Flushed
  <1> HIDE DEF cs, is
  <1>4. /\ v \in AWorld /\ v.parent = w.parent /\ v.value = w.value
        /\ v.provider = w.provider /\ v.last = w.last /\ v.changes = cs /\ v.index = is
    BY <1>1 DEF AWorld
  <1> HIDE DEF v
  <1> QED BY <1>2, <1>3, <1>4

\* Another book for h.
Rebooked(w, h, s, i) ==
    [parent |-> w.parent, value |-> w.value, provider |-> w.provider, last |-> w.last,
     changes |-> [w.changes EXCEPT ![h] = s], index |-> [w.index EXCEPT ![h] = i]]

LEMMA WorldParts ==
    ASSUME NEW w \in AWorld
    PROVE  /\ w.changes \in [Historied -> Seq(AnEntry)] /\ w.index \in [Historied -> Nat]
           /\ w.parent \in [Objects -> Objects \cup {None}] /\ w.value \in [Objects -> {0, 1}]
           /\ w.provider \in [Objects -> Objects \cup {None}]
           /\ w.last \in [Objects -> Historied \cup {None}]
           /\ w = [parent |-> w.parent, value |-> w.value, provider |-> w.provider,
                   last |-> w.last, changes |-> w.changes, index |-> w.index]
  BY DEF AWorld

LEMMA RebookedIs ==
    ASSUME NEW w \in AWorld, NEW h \in Historied, NEW s \in Seq(AnEntry), NEW i \in Nat
    PROVE  /\ Others(w, Rebooked(w, h, s, i), h)
           /\ Rebooked(w, h, s, i).changes[h] = s /\ Rebooked(w, h, s, i).index[h] = i
  <1> DEFINE cs == [w.changes EXCEPT ![h] = s]
             is == [w.index EXCEPT ![h] = i]
             v  == Rebooked(w, h, s, i)
  <1>1. /\ cs \in [Historied -> Seq(AnEntry)] /\ is \in [Historied -> Nat]
        /\ cs[h] = s /\ is[h] = i
        /\ \A g \in Historied : g # h => cs[g] = w.changes[g] /\ is[g] = w.index[g]
    BY WorldParts
  <1>2. v = [parent |-> w.parent, value |-> w.value, provider |-> w.provider, last |-> w.last,
             changes |-> cs, index |-> is]
    BY DEF Rebooked
  <1> HIDE DEF cs, is, v
  <1>3. /\ v \in AWorld /\ v.parent = w.parent /\ v.value = w.value
        /\ v.provider = w.provider /\ v.last = w.last /\ v.changes = cs /\ v.index = is
    BY <1>1, <1>2, WorldParts DEF AWorld
  <1>4. Others(w, v, h) /\ v.changes[h] = s /\ v.index[h] = i
    BY <1>1, <1>3 DEF Others
  <1> QED BY <1>4 DEF v

\* A record with another field.
LEMMA OtherField ==
    ASSUME NEW w, w = [parent |-> w.parent, value |-> w.value, provider |-> w.provider,
                       last |-> w.last, changes |-> w.changes, index |-> w.index],
           NEW cs, NEW is
    PROVE  /\ [w EXCEPT !.changes = cs] =
                [parent |-> w.parent, value |-> w.value, provider |-> w.provider,
                 last |-> w.last, changes |-> cs, index |-> w.index]
           /\ [w EXCEPT !.index = is] =
                [parent |-> w.parent, value |-> w.value, provider |-> w.provider,
                 last |-> w.last, changes |-> w.changes, index |-> is]
           /\ [w EXCEPT !.changes = cs, !.index = is] =
                [parent |-> w.parent, value |-> w.value, provider |-> w.provider,
                 last |-> w.last, changes |-> cs, index |-> is]
  <1>1. [w EXCEPT !.changes = cs] =
          [parent |-> w.parent, value |-> w.value, provider |-> w.provider,
           last |-> w.last, changes |-> cs, index |-> w.index]
    OBVIOUS
  <1>2. [w EXCEPT !.index = is] =
          [parent |-> w.parent, value |-> w.value, provider |-> w.provider,
           last |-> w.last, changes |-> w.changes, index |-> is]
    OBVIOUS
  <1>3. [w EXCEPT !.changes = cs, !.index = is] = [[w EXCEPT !.changes = cs] EXCEPT !.index = is]
    OBVIOUS
  <1> DEFINE u == [parent |-> w.parent, value |-> w.value, provider |-> w.provider,
                   last |-> w.last, changes |-> cs, index |-> w.index]
  <1>4. [u EXCEPT !.index = is] =
          [parent |-> w.parent, value |-> w.value, provider |-> w.provider,
           last |-> w.last, changes |-> cs, index |-> is]
    OBVIOUS
  <1> QED BY <1>1, <1>2, <1>3, <1>4

\* What EXCEPT makes of a world is one with another book.
LEMMA ExceptIs ==
    ASSUME NEW w \in AWorld, NEW h \in Historied
    PROVE  /\ \A s : [w EXCEPT !.changes[h] = s] = Rebooked(w, h, s, w.index[h])
           /\ \A i : [w EXCEPT !.index[h] = i] = Rebooked(w, h, w.changes[h], i)
  <1>1. [w.index EXCEPT ![h] = w.index[h]] = w.index
    BY WorldParts
  <1>2. [w.changes EXCEPT ![h] = w.changes[h]] = w.changes
    BY WorldParts
  <1>3. w = [parent |-> w.parent, value |-> w.value, provider |-> w.provider,
             last |-> w.last, changes |-> w.changes, index |-> w.index]
    BY WorldParts
  <1>4. ASSUME NEW s
        PROVE  [w EXCEPT !.changes[h] = s] = Rebooked(w, h, s, w.index[h])
    <2> DEFINE cs == [w.changes EXCEPT ![h] = s]
    <2>1. [w EXCEPT !.changes[h] = s] = [w EXCEPT !.changes = cs]
      OBVIOUS
    <2> HIDE DEF cs
    <2>2. [w EXCEPT !.changes = cs] =
            [parent |-> w.parent, value |-> w.value, provider |-> w.provider,
             last |-> w.last, changes |-> cs, index |-> w.index]
      BY <1>3, OtherField
    <2> QED BY <1>1, <2>1, <2>2 DEF Rebooked, cs
  <1>5. ASSUME NEW i
        PROVE  [w EXCEPT !.index[h] = i] = Rebooked(w, h, w.changes[h], i)
    <2> DEFINE is == [w.index EXCEPT ![h] = i]
    <2>1. [w EXCEPT !.index[h] = i] = [w EXCEPT !.index = is]
      OBVIOUS
    <2> HIDE DEF is
    <2>2. [w EXCEPT !.index = is] =
            [parent |-> w.parent, value |-> w.value, provider |-> w.provider,
             last |-> w.last, changes |-> w.changes, index |-> is]
      BY <1>3, OtherField
    <2> QED BY <1>2, <2>1, <2>2 DEF Rebooked, is
  <1> QED BY <1>4, <1>5

OpenEntry == [changes |-> <<>>, closed |-> FALSE]

Shut(s) == [s EXCEPT ![Len(s)].closed = TRUE]

Full(w, h) == size[h] # None /\ w.index[h] + 1 > size[h]

\* A new entry, after which the oldest one is dropped if there are too many.
Adds(w, v, h, e) ==
    \/ /\ v.changes[h] = Append(Past(w, h), e) /\ v.index[h] = w.index[h] + 1
       /\ ~ Full(w, h)
    \/ /\ v.changes[h] = Tail(Append(Past(w, h), e)) /\ v.index[h] = w.index[h]
       /\ Full(w, h)

LEMMA OpenEntryIs == OpenEntry \in AnEntry /\ OpenEntry.changes = <<>> /\ ~ OpenEntry.closed
  BY EmptySeq DEF OpenEntry, AnEntry

LEMMA WithChangeIs ==
    ASSUME NEW J \in Seq(AnEntry), NEW x \in AnEntry, NEW change \in AChange
    PROVE  WithChange(Append(J, x), change) =
             Append(J, [changes |-> Append(x.changes, change), closed |-> x.closed])
  <1> DEFINE y == [changes |-> Append(x.changes, change), closed |-> x.closed]
             s == Append(J, x)
  <1>1. y \in AnEntry /\ [x EXCEPT !.changes = Append(@, change)] = y
    BY EntryIs
  <1>2. Last(s) = x
    BY Appended
  <1>3. s[Len(s)] = x
    BY <1>2 DEF Last
  <1>4. WithChange(s, change) = [s EXCEPT ![Len(s)] = [s[Len(s)] EXCEPT !.changes = Append(@, change)]]
    BY DEF WithChange
  <1> HIDE DEF y
  <1>5. WithChange(s, change) = WithLast(s, y)
    BY <1>1, <1>3, <1>4 DEF WithLast
  <1>6. WithLast(Append(J, x), y) = Append(J, y)
    BY <1>1, LastReplaced
  <1> QED BY <1>5, <1>6 DEF y

LEMMA ShutIs ==
    ASSUME NEW J \in Seq(AnEntry), NEW x \in AnEntry
    PROVE  Shut(Append(J, x)) = Append(J, [changes |-> x.changes, closed |-> TRUE])
  <1> DEFINE y == [changes |-> x.changes, closed |-> TRUE]
             s == Append(J, x)
  <1>1. y \in AnEntry /\ [x EXCEPT !.closed = TRUE] = y
    BY EntryIs
  <1>2. Last(s) = x
    BY Appended
  <1>3. s[Len(s)] = x
    BY <1>2 DEF Last
  <1>4. Shut(s) = [s EXCEPT ![Len(s)] = [s[Len(s)] EXCEPT !.closed = TRUE]]
    BY DEF Shut
  <1> HIDE DEF y
  <1>5. Shut(s) = WithLast(s, y)
    BY <1>1, <1>3, <1>4 DEF WithLast
  <1>6. WithLast(Append(J, x), y) = Append(J, y)
    BY <1>1, LastReplaced
  <1> QED BY <1>5, <1>6 DEF y

LEMMA RedoFlushedIs ==
    ASSUME NEW w \in AWorld, AllInRange(w), NEW h \in Historied
    PROVE  LET v == RedoFlushed(w, h)
           IN  /\ Others(w, v, h)
               /\ v.changes[h] = Past(w, h) /\ v.index[h] = w.index[h]
  <1>1. Past(w, h) \in Seq(AnEntry)
    BY PastIs
  <1>2. RedoFlushed(w, h) = Rebooked(w, h, Past(w, h), w.index[h])
    <2> DEFINE s == Past(w, h)
    <2>1. RedoFlushed(w, h) = [w EXCEPT !.changes[h] = s]
      BY DEF RedoFlushed, Past
    <2> HIDE DEF s
    <2>2. [w EXCEPT !.changes[h] = s] = Rebooked(w, h, s, w.index[h])
      BY ExceptIs
    <2> QED BY <2>1, <2>2 DEF s
  <1>3. w.index[h] \in Nat
    BY WorldIs
  <1> QED BY <1>1, <1>2, <1>3, RebookedIs

LEMMA EnteredIs ==
    ASSUME NEW w \in AWorld, AllInRange(w), NEW h \in Historied, NEW topmost \in BOOLEAN
    PROVE  LET v == Entered(w, h, topmost)
           IN  /\ Others(w, v, h)
               /\ topmost => Adds(w, v, h, OpenEntry)
               /\ ~ topmost => v.changes[h] = Past(w, h) /\ v.index[h] = w.index[h]
  <1> DEFINE f == RedoFlushed(w, h)
             s == Append(Past(w, h), OpenEntry)
             v == Entered(w, h, topmost)
  <1>1. /\ Others(w, f, h) /\ f \in AWorld
        /\ f.changes[h] = Past(w, h) /\ f.index[h] = w.index[h]
    BY RedoFlushedIs DEF Others
  <1>2. /\ s \in Seq(AnEntry) /\ Len(s) = w.index[h] + 1 /\ s # <<>> /\ w.index[h] \in Nat
        /\ w.index[h] + 1 \in Nat
    BY PastIs, OpenEntryIs, Appended, WorldIs
  <1>3. Tail(s) \in Seq(AnEntry)
    BY <1>2
  <1>4. v = IF ~ topmost THEN f
            ELSE IF Full(w, h) THEN [f EXCEPT !.changes[h] = Tail(s)]
            ELSE [f EXCEPT !.changes[h] = s, !.index[h] = w.index[h] + 1]
    BY <1>1, <1>2 DEF Entered, Full, OpenEntry
  <1> HIDE DEF f, s, v
  <1>5. CASE ~ topmost
    BY <1>1, <1>4, <1>5 DEF v
  <1>6. CASE topmost /\ Full(w, h)
    <2> DEFINE t == Tail(s)
    <2>1. v = [f EXCEPT !.changes[h] = t]
      BY <1>4, <1>6
    <2> HIDE DEF t
    <2>2. v = Rebooked(f, h, t, f.index[h])
      BY <1>1, <2>1, ExceptIs
    <2>3. t \in Seq(AnEntry) /\ f.index[h] \in Nat
      BY <1>1, <1>2, <1>3 DEF t
    <2>4. Others(f, v, h) /\ v.changes[h] = Tail(s) /\ v.index[h] = f.index[h]
      <3>1. /\ Others(f, Rebooked(f, h, t, f.index[h]), h)
            /\ Rebooked(f, h, t, f.index[h]).changes[h] = t
            /\ Rebooked(f, h, t, f.index[h]).index[h] = f.index[h]
        BY <1>1, <2>3, RebookedIs
      <3> QED BY <2>2, <3>1 DEF t
    <2>5. Others(w, v, h)
      BY <1>1, <2>4 DEF Others
    <2> QED BY <1>1, <1>6, <2>4, <2>5 DEF v, Adds, s
  <1>7. CASE topmost /\ ~ Full(w, h)
    <2> DEFINE i == w.index[h] + 1
    <2>1. v = [f EXCEPT !.changes[h] = s, !.index[h] = i]
      BY <1>4, <1>7
    <2>2. i \in Nat
      BY <1>2
    <2> HIDE DEF i
    <2>3. v = Rebooked(f, h, s, i)
      <3> DEFINE cs == [f.changes EXCEPT ![h] = s]
                 is == [f.index EXCEPT ![h] = i]
      <3>1. f = [parent |-> f.parent, value |-> f.value, provider |-> f.provider,
                 last |-> f.last, changes |-> f.changes, index |-> f.index]
        BY <1>1, WorldParts
      <3>2. [f EXCEPT !.changes[h] = s, !.index[h] = i] = [f EXCEPT !.changes = cs, !.index = is]
        OBVIOUS
      <3> HIDE DEF cs, is
      <3>3. [f EXCEPT !.changes = cs, !.index = is] =
              [parent |-> f.parent, value |-> f.value, provider |-> f.provider,
               last |-> f.last, changes |-> cs, index |-> is]
        BY <3>1, OtherField
      <3> QED BY <2>1, <3>2, <3>3 DEF Rebooked, cs, is
    <2>4. Others(f, v, h) /\ v.changes[h] = s /\ v.index[h] = i
      <3>1. /\ Others(f, Rebooked(f, h, s, i), h)
            /\ Rebooked(f, h, s, i).changes[h] = s /\ Rebooked(f, h, s, i).index[h] = i
        BY <1>1, <1>2, <2>2, RebookedIs
      <3> QED BY <2>3, <3>1
    <2>5. Others(w, v, h)
      BY <1>1, <2>4 DEF Others
    <2> QED BY <1>1, <1>7, <2>4, <2>5 DEF v, Adds, s, i
  <1> QED BY <1>5, <1>6, <1>7

LEMMA PushedIs ==
    ASSUME NEW w \in AWorld, AllInRange(w), NEW h \in Historied, NEW change \in AChange
    PROVE  LET v == Pushed(w, h, change)
           IN  /\ Others(w, v, h) /\ v.index[h] = w.index[h]
               /\ v.changes[h] = IF Open(Past(w, h)) THEN WithChange(Past(w, h), change)
                                 ELSE Past(w, h)
  <1> DEFINE f == RedoFlushed(w, h)
             s == Past(w, h)
             v == Pushed(w, h, change)
  <1>1. /\ Others(w, f, h) /\ f \in AWorld
        /\ f.changes[h] = s /\ f.index[h] = w.index[h] /\ f.index[h] \in Nat
    BY RedoFlushedIs, WorldIs DEF Others
  <1>2. s \in Seq(AnEntry)
    BY PastIs
  <1>3. InBatch(f, h) <=> Open(s)
    BY <1>1 DEF InBatch, Open
  <1>4. CASE ~ Open(s)
    <2>1. v = f
      BY <1>3, <1>4 DEF Pushed
    <2> HIDE DEF f, s, v
    <2> QED BY <1>1, <1>4, <2>1 DEF s, v
  <1>5. CASE Open(s)
    <2>1. PICK J \in Seq(AnEntry), x \in AnEntry : s = Append(J, x)
      BY <1>2, <1>5, EmptyOrAppended DEF Open
    <2>2. WithChange(s, change) \in Seq(AnEntry)
      <3>1. [changes |-> Append(x.changes, change), closed |-> x.closed] \in AnEntry
        BY EntryIs
      <3>2. WithChange(s, change) =
              Append(J, [changes |-> Append(x.changes, change), closed |-> x.closed])
        BY <2>1, WithChangeIs
      <3> QED BY <3>1, <3>2, Appended
    <2> DEFINE t == WithChange(f.changes[h], change)
    <2> HIDE DEF f, s
    <2>3. v = [f EXCEPT !.changes[h] = t]
      BY <1>3, <1>5 DEF Pushed, WithChange, f
    <2> HIDE DEF v, t
    <2>4. Others(f, v, h) /\ v.changes[h] = WithChange(s, change) /\ v.index[h] = f.index[h]
      <3>1. v = Rebooked(f, h, t, f.index[h])
        BY <1>1, <2>3, ExceptIs
      <3>2. t = WithChange(s, change)
        BY <1>1 DEF t
      <3> QED BY <1>1, <2>2, <3>1, <3>2, RebookedIs
    <2>5. Others(w, v, h)
      BY <1>1, <2>4 DEF Others
    <2> QED BY <1>1, <1>5, <2>4, <2>5 DEF s, v
  <1> QED BY <1>4, <1>5

LEMMA ExitedIs ==
    ASSUME NEW w \in AWorld, NEW h \in Historied
    PROVE  LET v == Exited(w, h)
           IN  /\ Others(w, v, h) /\ v.index[h] = w.index[h]
               /\ v.changes[h] = IF Open(w.changes[h]) THEN Shut(w.changes[h])
                                 ELSE w.changes[h]
  <1> DEFINE s == w.changes[h]
             v == Exited(w, h)
  <1>1. s \in Seq(AnEntry) /\ w.index[h] \in Nat
    BY WorldIs
  <1>2. InBatch(w, h) <=> Open(s)
    BY DEF InBatch, Open
  <1>3. CASE ~ Open(s)
    <2>1. v = w
      BY <1>2, <1>3 DEF Exited
    <2> HIDE DEF v
    <2> QED BY <1>3, <2>1 DEF Others, v
  <1>4. CASE Open(s)
    <2>1. PICK J \in Seq(AnEntry), x \in AnEntry : s = Append(J, x)
      BY <1>1, <1>4, EmptyOrAppended DEF Open
    <2>2. Shut(s) \in Seq(AnEntry)
      <3>1. [changes |-> x.changes, closed |-> TRUE] \in AnEntry
        BY EntryIs
      <3> QED BY <2>1, <3>1, ShutIs, Appended, SMTT(60)
    <2> DEFINE t == Shut(w.changes[h])
    <2>3. v = [w EXCEPT !.changes[h] = t]
      BY <1>2, <1>4 DEF Exited, Shut
    <2> HIDE DEF v, t
    <2>4. Others(w, v, h) /\ v.changes[h] = Shut(s) /\ v.index[h] = w.index[h]
      <3>1. v = Rebooked(w, h, t, w.index[h])
        BY <2>3, ExceptIs
      <3> QED BY <1>1, <2>2, <3>1, RebookedIs DEF t
    <2> QED BY <1>4, <2>4 DEF v
  <1> QED BY <1>3, <1>4

\* The histories that objects have depend on the providers alone.
LEMMA SameWays ==
    ASSUME NEW w, NEW v, v.provider = w.provider, NEW x
    PROVE  /\ HistoryOf(v, x) = HistoryOf(w, x)
           /\ HistoryFound(v, x) <=> HistoryFound(w, x)
  <1>1. PICK f : Way(w, x, Steps, f)
    BY SomeWay, StepsCount
  <1>2. Way(v, x, Steps, f)
    BY <1>1 DEF Way, Onward
  <1>3. HistoryOf(v, x) = HistoryOf(w, x)
    BY <1>1, <1>2, HistoryIs, StepsCount
  <1> QED BY <1>3 DEF HistoryFound, HistoryOf

LEMMA ChangedIs ==
    ASSUME NEW w \in AWorld, NEW change \in AChange, HistoryFound(w, change.obj)
    PROVE  LET v == Changed(w, change)
           IN  /\ v \in AWorld /\ v.changes = w.changes /\ v.index = w.index
               /\ \/ v.provider = w.provider
                  \/ /\ change.type = "put" /\ Adopts(change.obj, change.child)
                     /\ v.provider = [w.provider EXCEPT ![change.child] = change.obj]
  <1>1. /\ w.changes \in [Historied -> Seq(AnEntry)] /\ w.index \in [Historied -> Nat]
        /\ w.parent \in [Objects -> Objects \cup {None}] /\ w.value \in [Objects -> {0, 1}]
        /\ w.provider \in [Objects -> Objects \cup {None}]
        /\ w.last \in [Objects -> Historied \cup {None}]
        /\ w = [parent |-> w.parent, value |-> w.value, provider |-> w.provider,
                last |-> w.last, changes |-> w.changes, index |-> w.index]
    BY DEF AWorld
  <1>2. CASE change.type = "put"
    <2>1. change.obj \in Objects /\ change.child \in Objects
      BY <1>2 DEF AChange
    <2>2. HistoryOf(w, change.obj) \in Historied \cup {None}
      BY DEF HistoryFound, HistoryOf
    <2> DEFINE p == [w.parent EXCEPT ![change.child] = change.obj]
               l == [w.last EXCEPT ![change.child] = HistoryOf(w, change.obj)]
               q == IF Adopts(change.obj, change.child)
                    THEN [w.provider EXCEPT ![change.child] = change.obj] ELSE w.provider
               v == Changed(w, change)
    <2>3. /\ p \in [Objects -> Objects \cup {None}] /\ q \in [Objects -> Objects \cup {None}]
          /\ l \in [Objects -> Historied \cup {None}]
      BY <1>1, <2>1, <2>2
    <2>4. v = [w EXCEPT !.parent = p, !.last = l, !.provider = q]
      BY <1>1, <1>2 DEF Changed
    <2> HIDE DEF p, l, v
    <2>5. q = w.provider \/ /\ Adopts(change.obj, change.child)
                            /\ q = [w.provider EXCEPT ![change.child] = change.obj]
      OBVIOUS
    <2> HIDE DEF q
    <2>6. v \in AWorld /\ v.changes = w.changes /\ v.index = w.index /\ v.provider = q
      BY <1>1, <2>3, <2>4 DEF AWorld
    <2> QED BY <1>2, <2>5, <2>6 DEF v
  <1>3. CASE change.type = "take"
    <2>1. change.child \in Objects
      BY <1>3 DEF AChange
    <2> DEFINE p == [w.parent EXCEPT ![change.child] = None]
               v == Changed(w, change)
    <2>2. p \in [Objects -> Objects \cup {None}]
      BY <1>1, <2>1
    <2>3. v = [w EXCEPT !.parent = p]
      BY <1>1, <1>3 DEF Changed
    <2> HIDE DEF p, v
    <2>4. v \in AWorld /\ v.changes = w.changes /\ v.index = w.index /\ v.provider = w.provider
      BY <1>1, <2>2, <2>3 DEF AWorld
    <2> QED BY <2>4 DEF v
  <1>4. CASE change.type = "set"
    <2>1. change.obj \in Objects /\ change.new \in {0, 1}
      BY <1>4 DEF AChange
    <2> DEFINE p == [w.value EXCEPT ![change.obj] = change.new]
               v == Changed(w, change)
    <2>2. p \in [Objects -> {0, 1}]
      BY <1>1, <2>1
    <2>3. v = [w EXCEPT !.value = p]
      BY <1>1, <1>4 DEF Changed
    <2> HIDE DEF p, v
    <2>4. v \in AWorld /\ v.changes = w.changes /\ v.index = w.index /\ v.provider = w.provider
      BY <1>1, <2>2, <2>3 DEF AWorld
    <2> QED BY <2>4 DEF v
  <1> QED BY <1>2, <1>3, <1>4 DEF AChange

-----------------------------------------------------------------------------
(* A write.                                                                *)

Flushes(w, change, g) == change.type = "put" /\ g \in ToFlush(w, change)

\* The write itself, whatever is recorded before and after it.
Middle(w, u, change) ==
    Changed(IF change.type = "put" THEN Flushed(u, ToFlush(w, change)) ELSE u, change)

\* v is w after the change, but for the histories.
Moves(w, v, change) ==
    /\ v.parent = Changed(w, change).parent /\ v.value = Changed(w, change).value
    /\ v.provider = Changed(w, change).provider /\ v.last = Changed(w, change).last

LEMMA SameMoves ==
    ASSUME NEW w \in AWorld, NEW f \in AWorld, f.parent = w.parent, f.value = w.value,
           f.provider = w.provider, f.last = w.last, NEW change \in AChange
    PROVE  Moves(w, Changed(f, change), change)
  <1>1. HistoryOf(f, change.obj) = HistoryOf(w, change.obj)
    BY SameWays
  <1>2. \A v \in {w, f} : v = [parent |-> v.parent, value |-> v.value, provider |-> v.provider,
                                last |-> v.last, changes |-> v.changes, index |-> v.index]
    BY WorldParts
  <1>3. CASE change.type = "put"
    BY <1>1, <1>2, <1>3 DEF Changed, Moves
  <1>4. CASE change.type = "take"
    BY <1>2, <1>4 DEF Changed, Moves
  <1>5. CASE change.type = "set"
    BY <1>2, <1>5 DEF Changed, Moves
  <1> QED BY <1>3, <1>4, <1>5 DEF AChange

LEMMA TheirsKept ==
    ASSUME NEW w \in AWorld, NEW v, v.provider = w.provider, NEW g
    PROVE  Theirs(v, g) = Theirs(w, g)
  BY SameWays DEF Theirs, Belongs

LEMMA MiddleIs ==
    ASSUME NEW w \in AWorld, NEW u \in AWorld, u.provider = w.provider,
           u.parent = w.parent, u.value = w.value, u.last = w.last,
           NEW change \in AChange, NEW executing, MayWrite(w, change, executing)
    PROVE  /\ Middle(w, u, change) \in AWorld /\ Moves(w, Middle(w, u, change), change)
           /\ \A g \in Historied :
                IF Flushes(w, change, g)
                THEN Middle(w, u, change).changes[g] = <<>> /\ Middle(w, u, change).index[g] = 0
                ELSE /\ Middle(w, u, change).changes[g] = u.changes[g]
                     /\ Middle(w, u, change).index[g] = u.index[g]
           /\ \A g \in Historied :
                Theirs(w, g) \subseteq Theirs(Middle(w, u, change), g) \/ Flushes(w, change, g)
  <1> DEFINE f == IF change.type = "put" THEN Flushed(u, ToFlush(w, change)) ELSE u
             m == Middle(w, u, change)
  <1>1. /\ f \in AWorld /\ f.provider = w.provider
        /\ f.parent = w.parent /\ f.value = w.value /\ f.last = w.last
        /\ \A g \in Historied :
             IF Flushes(w, change, g) THEN f.changes[g] = <<>> /\ f.index[g] = 0
             ELSE f.changes[g] = u.changes[g] /\ f.index[g] = u.index[g]
    <2>1. CASE change.type = "put"
      <3> DEFINE hs == ToFlush(w, change)
                 e == Flushed(u, hs)
      <3>1. /\ e \in AWorld /\ e.provider = u.provider
            /\ e.parent = u.parent /\ e.value = u.value /\ e.last = u.last
            /\ \A g \in Historied :
                 IF g \in hs THEN e.changes[g] = <<>> /\ e.index[g] = 0
                 ELSE e.changes[g] = u.changes[g] /\ e.index[g] = u.index[g]
        BY FlushedIs
      <3>2. f = e /\ \A g : Flushes(w, change, g) <=> g \in hs
        BY <2>1 DEF Flushes
      <3> HIDE DEF f, e, hs
      <3> QED BY <3>1, <3>2
    <2>2. CASE change.type # "put"
      BY <2>2 DEF Flushes
    <2> QED BY <2>1, <2>2
  <1>2. m = Changed(f, change)
    BY DEF Middle
  <1>3. HistoryFound(w, change.obj)
    BY DEF MayWrite
  <1> HIDE DEF f, m
  <1>4. HistoryFound(f, change.obj)
    BY <1>1, <1>3, SameWays
  <1>5. /\ m \in AWorld /\ m.changes = f.changes /\ m.index = f.index
        /\ \/ m.provider = f.provider
           \/ /\ change.type = "put" /\ Adopts(change.obj, change.child)
              /\ m.provider = [f.provider EXCEPT ![change.child] = change.obj]
    BY <1>1, <1>2, <1>4, ChangedIs
  <1>6. ASSUME NEW g \in Historied
        PROVE  Theirs(w, g) \subseteq Theirs(m, g) \/ Flushes(w, change, g)
    <2>1. CASE m.provider = f.provider
      BY <1>1, <2>1, TheirsKept
    <2>2. CASE /\ change.type = "put" /\ Adopts(change.obj, change.child)
               /\ m.provider = [f.provider EXCEPT ![change.child] = change.obj]
      <3> DEFINE c == change.child
                 o == change.obj
      <3>1. c \in Objects /\ o \in Objects /\ c \notin Historied
        BY <2>2 DEF AChange, Adopts
      <3>2. HistoryFound(w, c) /\ m.provider = [w.provider EXCEPT ![c] = o]
        BY <1>1, <2>2 DEF MayWrite
      <3> HIDE DEF c, o
      <3> SUFFICES ASSUME NEW x \in Theirs(w, g), x \notin Theirs(m, g)
                   PROVE  Flushes(w, change, g)
        OBVIOUS
      <3>3. x \in Objects /\ (HistoryOf(w, x) = g \/ ~ HistoryFound(w, x))
        BY DEF Theirs, Belongs
      <3>4. HistoryFound(m, x) /\ HistoryOf(m, x) # g
        BY <3>3 DEF Theirs, Belongs
      <3>5. \/ HistoryOf(m, x) = HistoryOf(w, x)
            \/ HistoryOf(w, x) = HistoryOf(w, c) /\ HistoryOf(m, x) = HistoryOf(w, o)
        BY <1>5, <3>1, <3>2, <3>3, <3>4, Moved
      <3>6. \A z, y : HistoryFound(z, y) <=> HistoryOf(z, y) \in Ends
        BY DEF HistoryFound, HistoryOf, Ends
      <3>7. HistoryOf(w, c) = g /\ HistoryOf(w, o) # g
        BY <3>2, <3>3, <3>4, <3>5, <3>6
      <3>8. g # None
        BY NoObject
      <3>9. g \in ToFlush(w, change)
        BY <2>2, <3>7, <3>8 DEF ToFlush, c, o
      <3> QED BY <2>2, <3>9 DEF Flushes
    <2> QED BY <1>5, <2>1, <2>2
  <1>7. Moves(w, m, change)
    BY <1>1, <1>2, SameMoves
  <1> QED BY <1>1, <1>5, <1>6, <1>7 DEF m

\* What a write does when it is recorded nowhere: it belongs to no history, or is
\* one of the undo or redo of its history.
LEMMA WrittenAlone ==
    ASSUME NEW w \in AWorld, NEW change \in AChange, NEW executing,
           MayWrite(w, change, executing),
           HistoryOf(w, change.obj) \in {None, executing}
    PROVE  Written(w, change, executing) = Middle(w, w, change)
  BY DEF Written, Middle

Record(change) == [changes |-> <<change>>, closed |-> TRUE]

LEMMA RecordIs == \A change \in AChange : Record(change) \in AnEntry
  BY DEF Record, AnEntry

\* What a write does that is recorded in h.
Recorded(w, v, h, change) ==
    \/ ~ Open(w.changes[h]) /\ Depth(h) = 0 /\ Adds(w, v, h, Record(change))
    \/ /\ IF Open(w.changes[h]) THEN w.index[h] # Len(w.changes[h]) ELSE Depth(h) # 0
       /\ v.changes[h] = Past(w, h) /\ v.index[h] = w.index[h]
    \/ /\ Open(w.changes[h]) /\ w.index[h] = Len(w.changes[h])
       /\ v.changes[h] = WithChange(w.changes[h], change) /\ v.index[h] = w.index[h]

\* Only the last entry may be open.
LastOpen(w) ==
    \A h \in Historied : \A n \in 1..Len(w.changes[h]) :
      ~ w.changes[h][n].closed => n = Len(w.changes[h])

\* If what can be undone ends with an open entry, nothing can be redone.
LEMMA ClosedPast ==
    ASSUME NEW w \in AWorld, AllInRange(w), LastOpen(w), NEW h \in Historied,
           ~ (Open(w.changes[h]) /\ w.index[h] = Len(w.changes[h]))
    PROVE  ~ Open(Past(w, h))
  <1> DEFINE s == w.changes[h]
             i == w.index[h]
             p == Past(w, h)
  <1>1. /\ s \in Seq(AnEntry) /\ i \in Nat /\ Len(s) \in Nat /\ i <= Len(s)
        /\ p \in Seq(AnEntry) /\ Len(p) = i
        /\ \A n \in 1..i : p[n] = s[n] /\ n \in 1..Len(s)
        /\ i = Len(s) => p = s
        /\ \A n \in 1..Len(s) : ~ s[n].closed => n = Len(s)
        /\ ~ (Open(s) /\ i = Len(s))
    BY WorldIs, PastIs DEF AllInRange, LastOpen
  <1> HIDE DEF s, i, p
  <1>2. SUFFICES ASSUME Open(p)
                 PROVE  FALSE
    BY DEF p
  <1>3. i # 0 /\ ~ p[i].closed
    BY <1>1, <1>2, EmptySeq DEF Open, Last
  <1>4. i \in 1..i
    BY <1>1, <1>3
  <1>5. i = Len(s)
    BY <1>1, <1>3, <1>4
  <1> QED BY <1>1, <1>2, <1>5

\* A change that is put into a history after the write itself.
LEMMA PushedAfter ==
    ASSUME NEW w \in AWorld, NEW u \in AWorld, u.provider = w.provider,
           u.parent = w.parent, u.value = w.value, u.last = w.last, AllInRange(u),
           NEW change \in AChange, NEW executing, MayWrite(w, change, executing),
           NEW h \in Historied, ~ Flushes(w, change, h),
           \A g \in Historied : g # h =>
             u.changes[g] = w.changes[g] /\ u.index[g] = w.index[g]
    PROVE  LET p == Pushed(Middle(w, u, change), h, change)
           IN  /\ p \in AWorld /\ Moves(w, p, change)
               /\ p.index[h] = u.index[h]
               /\ p.changes[h] = IF Open(Past(u, h)) THEN WithChange(Past(u, h), change)
                                 ELSE Past(u, h)
               /\ \A g \in Historied : g # h =>
                    IF Flushes(w, change, g) THEN p.changes[g] = <<>> /\ p.index[g] = 0
                    ELSE p.changes[g] = w.changes[g] /\ p.index[g] = w.index[g]
               /\ \A g \in Historied :
                    Theirs(w, g) \subseteq Theirs(p, g) \/ Flushes(w, change, g)
  <1> DEFINE m == Middle(w, u, change)
             p == Pushed(m, h, change)
  <1>1. /\ m \in AWorld /\ Moves(w, m, change)
        /\ \A g \in Historied :
             IF Flushes(w, change, g) THEN m.changes[g] = <<>> /\ m.index[g] = 0
             ELSE m.changes[g] = u.changes[g] /\ m.index[g] = u.index[g]
        /\ \A g \in Historied : Theirs(w, g) \subseteq Theirs(m, g) \/ Flushes(w, change, g)
    BY MiddleIs
  <1> HIDE DEF m
  <1>2. AllInRange(m)
    <2> SUFFICES ASSUME NEW g \in Historied
                 PROVE  m.index[g] <= Len(m.changes[g])
      BY DEF AllInRange
    <2>1. u.index[g] <= Len(u.changes[g]) /\ 0 <= Len(<<>>)
      BY EmptySeq DEF AllInRange
    <2> QED BY <1>1, <2>1
  <1>3. /\ Others(m, p, h) /\ p.index[h] = m.index[h]
        /\ p.changes[h] = IF Open(Past(m, h)) THEN WithChange(Past(m, h), change)
                          ELSE Past(m, h)
    BY <1>1, <1>2, PushedIs
  <1>4. Past(m, h) = Past(u, h) /\ m.index[h] = u.index[h]
    BY <1>1 DEF Past
  <1> HIDE DEF p
  <1>5. /\ p \in AWorld /\ Moves(w, p, change)
        /\ \A g \in Historied : Theirs(p, g) = Theirs(m, g)
    BY <1>1, <1>3, TheirsKept DEF Others, Moves
  <1>6. \A g \in Historied : g # h =>
          IF Flushes(w, change, g) THEN p.changes[g] = <<>> /\ p.index[g] = 0
          ELSE p.changes[g] = w.changes[g] /\ p.index[g] = w.index[g]
    BY <1>1, <1>3 DEF Others
  <1> QED BY <1>1, <1>3, <1>4, <1>5, <1>6 DEF p, m

LEMMA WrittenIn ==
    ASSUME NEW w \in AWorld, AllInRange(w), LastOpen(w), NEW change \in AChange,
           NEW executing, MayWrite(w, change, executing),
           NEW h \in Historied, HistoryOf(w, change.obj) = h, h # executing
    PROVE  LET v == Written(w, change, executing)
           IN  /\ v \in AWorld /\ Moves(w, v, change)
               /\ Recorded(w, v, h, change) /\ ~ Flushes(w, change, h)
               /\ \A g \in Historied : g # h =>
                    IF Flushes(w, change, g) THEN v.changes[g] = <<>> /\ v.index[g] = 0
                    ELSE v.changes[g] = w.changes[g] /\ v.index[g] = w.index[g]
               /\ \A g \in Historied :
                    Theirs(w, g) \subseteq Theirs(v, g) \/ Flushes(w, change, g)
  <1> DEFINE v == Written(w, change, executing)
             FlushedRight(u) == \A g \in Historied : g # h =>
                    IF Flushes(w, change, g) THEN u.changes[g] = <<>> /\ u.index[g] = 0
                    ELSE u.changes[g] = w.changes[g] /\ u.index[g] = w.index[g]
             TheirsRight(u) == \A g \in Historied :
                    Theirs(w, g) \subseteq Theirs(u, g) \/ Flushes(w, change, g)
  <1>1. ~ Flushes(w, change, h)
    BY DEF Flushes, ToFlush
  <1>2. h # None
    BY NoObject
  <1>3. InBatch(w, h) <=> Open(w.changes[h])
    BY DEF InBatch, Open
  <1>4. CASE Open(w.changes[h])
    <2> DEFINE p == Pushed(Middle(w, w, change), h, change)
    <2>1. v = p
      BY <1>2, <1>3, <1>4 DEF Written, Middle
    <2>2. /\ p \in AWorld /\ Moves(w, p, change) /\ p.index[h] = w.index[h]
          /\ p.changes[h] = IF Open(Past(w, h)) THEN WithChange(Past(w, h), change)
                            ELSE Past(w, h)
          /\ FlushedRight(p) /\ TheirsRight(p)
      BY <1>1, PushedAfter
    <2> HIDE DEF v, p, FlushedRight, TheirsRight
    <2>3. CASE w.index[h] = Len(w.changes[h])
      <3>1. Past(w, h) = w.changes[h]
        BY <2>3, PastIs
      <3>2. Recorded(w, p, h, change)
        BY <1>4, <2>2, <2>3, <3>1 DEF Recorded
      <3> QED BY <1>1, <2>1, <2>2, <3>2 DEF v, FlushedRight, TheirsRight
    <2>4. CASE w.index[h] # Len(w.changes[h])
      <3>1. ~ Open(Past(w, h))
        BY <2>4, ClosedPast
      <3>2. Recorded(w, p, h, change)
        BY <1>4, <2>2, <2>4, <3>1 DEF Recorded
      <3> QED BY <1>1, <2>1, <2>2, <3>2 DEF v, FlushedRight, TheirsRight
    <2> QED BY <2>3, <2>4
  <1>5. CASE ~ Open(w.changes[h])
    <2> DEFINE topmost == Depth(h) = 0
               e == Entered(w, h, topmost)
               p == Pushed(Middle(w, e, change), h, change)
    <2>1. v = IF topmost THEN Exited(p, h) ELSE p
      BY <1>2, <1>3, <1>5 DEF Written, Middle
    <2>2. topmost \in BOOLEAN
      OBVIOUS
    <2> HIDE DEF topmost
    <2>3. /\ Others(w, e, h)
          /\ topmost => Adds(w, e, h, OpenEntry)
          /\ ~ topmost => e.changes[h] = Past(w, h) /\ e.index[h] = w.index[h]
      BY <2>2, EnteredIs
    <2> HIDE DEF e
    <2>4. /\ Past(w, h) \in Seq(AnEntry) /\ Len(Past(w, h)) = w.index[h] /\ w.index[h] \in Nat
          /\ e \in AWorld
      BY <2>3, PastIs, WorldIs DEF Others
    <2>5. ~ Open(Past(w, h))
      BY <1>5, ClosedPast
    <2>6. e.index[h] = Len(e.changes[h])
      <3>1. CASE ~ topmost
        BY <2>3, <2>4, <3>1
      <3>2. CASE topmost
        <4> DEFINE s == Append(Past(w, h), OpenEntry)
        <4>1. s \in Seq(AnEntry) /\ s # <<>> /\ Len(s) = w.index[h] + 1
          BY <2>4, OpenEntryIs, Appended
        <4>2. Len(Tail(s)) = w.index[h]
          BY <2>4, <4>1, HeadTailProperties
        <4> QED BY <2>3, <3>2, <4>1, <4>2 DEF Adds
      <3> QED BY <3>1, <3>2
    <2>7. AllInRange(e)
      <3>1. Len(e.changes[h]) <= Len(e.changes[h])
        BY <2>4, WorldIs
      <3> QED BY <2>3, <2>6, <3>1 DEF Others, AllInRange
    <2>8. Past(e, h) = e.changes[h]
      BY <2>4, <2>6, <2>7, PastIs
    <2>9. /\ p \in AWorld /\ Moves(w, p, change) /\ p.index[h] = e.index[h]
          /\ p.changes[h] = IF Open(e.changes[h]) THEN WithChange(e.changes[h], change)
                            ELSE e.changes[h]
          /\ FlushedRight(p) /\ TheirsRight(p)
      <3>1. /\ e.provider = w.provider
            /\ e.parent = w.parent /\ e.value = w.value /\ e.last = w.last
        BY <2>3 DEF Others
      <3>2. \A g \in Historied : g # h => e.changes[g] = w.changes[g] /\ e.index[g] = w.index[g]
        BY <2>3 DEF Others
      <3> QED BY <1>1, <2>4, <2>7, <2>8, <3>1, <3>2, PushedAfter
    <2> HIDE DEF p, v, FlushedRight, TheirsRight
    <2>10. CASE ~ topmost
      <3>1. Recorded(w, p, h, change)
        BY <1>5, <2>3, <2>5, <2>9, <2>10 DEF Recorded, topmost
      <3> QED BY <1>1, <2>1, <2>9, <2>10, <3>1 DEF v, FlushedRight, TheirsRight
    <2>11. CASE topmost
      <3>1. /\ Others(p, v, h) /\ v.index[h] = e.index[h]
            /\ v.changes[h] = IF Open(p.changes[h]) THEN Shut(p.changes[h]) ELSE p.changes[h]
        BY <2>1, <2>9, <2>11, ExitedIs
      <3>2. FlushedRight(v) /\ TheirsRight(v) /\ v \in AWorld /\ Moves(w, v, change)
        <4>1. \A g \in Historied : Theirs(v, g) = Theirs(p, g)
          BY <2>9, <3>1, TheirsKept DEF Others
        <4> QED BY <2>9, <3>1, <4>1 DEF Others, Moves, FlushedRight, TheirsRight
      <3>3. ASSUME NEW J \in Seq(AnEntry), e.changes[h] = Append(J, OpenEntry)
            PROVE  v.changes[h] = Append(J, Record(change))
        <4> DEFINE x == [changes |-> Append(OpenEntry.changes, change), closed |-> OpenEntry.closed]
        <4>1. x \in AnEntry /\ ~ x.closed /\ x.changes = <<change>>
          <5>1. x \in AnEntry
            BY OpenEntryIs, EntryIs
          <5>2. x.changes = Append(OpenEntry.changes, change)
            OBVIOUS
          <5>3. Append(<<>>, change) = <<change>>
            OBVIOUS
          <5>4. x.changes = <<change>>
            BY <5>2, <5>3, OpenEntryIs
          <5>5. x.closed = OpenEntry.closed
            OBVIOUS
          <5> HIDE DEF x
          <5>6. ~ x.closed
            BY <5>5, OpenEntryIs
          <5> QED BY <5>1, <5>4, <5>6
        <4>2. Open(e.changes[h])
          BY <3>3, OpenEntryIs, Appended DEF Open
        <4>3. p.changes[h] = Append(J, x)
          BY <2>9, <3>3, <4>2, OpenEntryIs, WithChangeIs
        <4> HIDE DEF x
        <4>4. Open(p.changes[h])
          BY <4>1, <4>3, Appended DEF Open
        <4>5. v.changes[h] = Append(J, [changes |-> x.changes, closed |-> TRUE])
          BY <3>1, <4>1, <4>3, <4>4, ShutIs
        <4> QED BY <4>1, <4>5 DEF Record
      <3>4. Adds(w, v, h, Record(change))
        <4>1. CASE e.changes[h] = Append(Past(w, h), OpenEntry)
          <5>1. v.changes[h] = Append(Past(w, h), Record(change))
            BY <2>4, <3>3, <4>1
          <5>2. e.index[h] = w.index[h] + 1
            BY <2>4, <2>6, <4>1, OpenEntryIs, Appended
          <5>3. e.index[h] # w.index[h]
            BY <2>4, <5>2
          <5> QED BY <2>3, <2>11, <3>1, <5>1, <5>2, <5>3 DEF Adds
        <4>2. CASE e.changes[h] = Tail(Append(Past(w, h), OpenEntry)) /\ e.index[h] = w.index[h]
                   /\ Full(w, h)
          <5>1. \A x \in AnEntry :
                  Tail(Append(Past(w, h), x)) =
                    IF Past(w, h) = <<>> THEN <<>> ELSE Append(Tail(Past(w, h)), x)
            BY <2>4, HeadTailAppend
          <5>2. CASE Past(w, h) = <<>>
            <6>1. e.changes[h] = <<>> /\ ~ Open(e.changes[h])
              BY <4>2, <5>1, <5>2, OpenEntryIs DEF Open
            <6>2. p.changes[h] = <<>> /\ ~ Open(p.changes[h])
              BY <2>9, <6>1
            <6>3. v.changes[h] = Tail(Append(Past(w, h), Record(change)))
              BY <3>1, <5>1, <5>2, <6>2, RecordIs
            <6> QED BY <3>1, <4>2, <6>3 DEF Adds
          <5>3. CASE Past(w, h) # <<>>
            <6>1. Tail(Past(w, h)) \in Seq(AnEntry)
              BY <2>4, <5>3, HeadTailProperties
            <6>2. v.changes[h] = Append(Tail(Past(w, h)), Record(change))
              BY <3>3, <4>2, <5>1, <5>3, <6>1, OpenEntryIs
            <6>3. v.changes[h] = Tail(Append(Past(w, h), Record(change)))
              BY <5>1, <5>3, <6>2, RecordIs
            <6> QED BY <3>1, <4>2, <6>3 DEF Adds
          <5> QED BY <5>2, <5>3
        <4> QED BY <2>3, <2>11, <4>1, <4>2 DEF Adds
      <3>5. Recorded(w, v, h, change)
        BY <1>5, <2>11, <3>4 DEF Recorded, topmost
      <3> QED BY <1>1, <3>2, <3>5 DEF v, FlushedRight, TheirsRight
    <2> QED BY <2>10, <2>11
  <1> QED BY <1>4, <1>5

-----------------------------------------------------------------------------
(* Undo and redo.                                                          *)

\* Undo and redo of h may flush other histories, and change what is in none.
Went(w, v, h) ==
    /\ v \in AWorld
    /\ v.changes[h] = w.changes[h] /\ v.index[h] <= Len(w.changes[h])
    /\ Theirs(w, h) \subseteq Theirs(v, h)
    /\ \A g \in Historied : g # h =>
         \/ /\ v.changes[g] = w.changes[g] /\ v.index[g] = w.index[g]
            /\ Theirs(w, g) \subseteq Theirs(v, g)
         \/ v.changes[g] = <<>> /\ v.index[g] = 0

Kept(w, v, h) == Went(w, v, h) /\ v.index[h] = w.index[h]

Outcome(w, r, h) ==
    \E a, m : \/ r = [world |-> a, ok |-> FALSE, meets |-> m]
              \/ r = [world |-> a, ok |-> TRUE, meets |-> m] /\ Went(w, a, h)

LEMMA WentOn ==
    ASSUME NEW w, NEW v, NEW u, NEW h, Went(w, v, h), Went(v, u, h)
    PROVE  Went(w, u, h)
  BY DEF Went

LEMMA StillOwn ==
    ASSUME NEW w, NEW v, NEW h, Went(w, v, h), Own(w, h)
    PROVE  Own(v, h) /\ v \in AWorld /\ v.index[h] <= Len(v.changes[h])
  BY DEF Went, Own

LEMMA OneReplayed ==
    ASSUME NEW w \in AWorld, NEW h \in Historied, w.index[h] <= Len(w.changes[h]),
           NEW change \in AChange, change.obj \in Theirs(w, h), MayWrite(w, change, h)
    PROVE  Kept(w, Written(w, change, h), h)
  <1> DEFINE v == Written(w, change, h)
  <1>1. HistoryOf(w, change.obj) = h
    BY DEF Theirs, Belongs, MayWrite
  <1>2. v = Middle(w, w, change)
    BY <1>1, WrittenAlone
  <1> HIDE DEF v
  <1>3. ~ Flushes(w, change, h)
    BY DEF Flushes, MayWrite
  <1>4. /\ v \in AWorld
        /\ \A g \in Historied :
             IF Flushes(w, change, g) THEN v.changes[g] = <<>> /\ v.index[g] = 0
             ELSE v.changes[g] = w.changes[g] /\ v.index[g] = w.index[g]
        /\ \A g \in Historied : Theirs(w, g) \subseteq Theirs(v, g) \/ Flushes(w, change, g)
    BY <1>2, MiddleIs
  <1> QED BY <1>3, <1>4 DEF Kept, Went, v

\* The definition of after in Replay.
ReplayStep(w, seq, executing, f, n) ==
    IF n = 0 THEN [world |-> w, ok |-> TRUE, meets |-> TRUE]
    ELSE LET r == f[n - 1]
         IN  IF ~ r.ok \/ ~ MayWrite(r.world, seq[n], executing)
             THEN [r EXCEPT !.ok = FALSE]
             ELSE [world |-> Written(r.world, seq[n], executing), ok |-> TRUE,
                   meets |-> r.meets /\ Meets(r.world, seq[n])]

LEMMA Replaying ==
    ASSUME NEW w, NEW seq, NEW executing, NEW N \in Nat
    PROVE  \E f : f = [m \in 0..N |-> ReplayStep(w, seq, executing, f, m)]
  <1> DEFINE S == {n \in Nat : \E f : f = [m \in 0..n |-> ReplayStep(w, seq, executing, f, m)]}
  <1>1. 0 \in S
    <2> DEFINE f == [m \in 0..0 |-> [world |-> w, ok |-> TRUE, meets |-> TRUE]]
    <2>1. \A m \in 0..0 : ReplayStep(w, seq, executing, f, m) =
                            [world |-> w, ok |-> TRUE, meets |-> TRUE]
      BY ZeroOnly DEF ReplayStep
    <2>2. f = [m \in 0..0 |-> ReplayStep(w, seq, executing, f, m)]
      BY <2>1
    <2> QED BY <2>2
  <1>2. ASSUME NEW n \in Nat, n \in S
        PROVE  n + 1 \in S
    <2>1. PICK f : f = [m \in 0..n |-> ReplayStep(w, seq, executing, f, m)]
      BY <1>2
    <2> DEFINE g == [m \in 0..(n + 1) |-> IF m = n + 1
                                          THEN ReplayStep(w, seq, executing, f, n + 1)
                                          ELSE f[m]]
    <2>2. \A m \in 0..n : g[m] = f[m] /\ f[m] = ReplayStep(w, seq, executing, f, m)
      BY <2>1, OneFurther
    <2>3. /\ g[n + 1] = ReplayStep(w, seq, executing, f, n + 1)
          /\ g = [m \in 0..(n + 1) |-> g[m]]
      BY OneFurther
    <2> HIDE DEF g
    <2>4. \A m \in 0..(n + 1) :
            ReplayStep(w, seq, executing, g, m) = ReplayStep(w, seq, executing, f, m)
      BY <2>2, Below DEF ReplayStep
    <2>5. \A m \in 0..(n + 1) : g[m] = ReplayStep(w, seq, executing, g, m)
      BY <2>2, <2>3, <2>4, OneFurther
    <2>6. g = [m \in 0..(n + 1) |-> ReplayStep(w, seq, executing, g, m)]
      BY <2>3, <2>5
    <2> QED BY <2>6
  <1> HIDE DEF S
  <1>3. N \in S
    BY <1>1, <1>2, Induct
  <1> QED BY <1>3 DEF S

\* While changes of its own objects are replayed, a history stays as it is.
LEMMA ReplayIs ==
    ASSUME NEW w \in AWorld, NEW h \in Historied, w.index[h] <= Len(w.changes[h]),
           NEW seq, Len(seq) \in Nat,
           \A n \in 1..Len(seq) : seq[n] \in AChange /\ seq[n].obj \in Theirs(w, h)
    PROVE  \E a, m : \/ Replay(w, seq, h) = [world |-> a, ok |-> FALSE, meets |-> m]
                     \/ /\ Replay(w, seq, h) = [world |-> a, ok |-> TRUE, meets |-> m]
                        /\ Kept(w, a, h)
  <1> DEFINE N == Len(seq)
             after == CHOOSE f : f = [m \in 0..N |-> ReplayStep(w, seq, h, f, m)]
  <1>1. after = [m \in 0..N |-> ReplayStep(w, seq, h, after, m)]
    BY Replaying
  <1>2. Replay(w, seq, h) = after[N]
    BY DEF Replay, ReplayStep
  <1>3. N \in Nat /\ \A n \in 1..N : seq[n] \in AChange /\ seq[n].obj \in Theirs(w, h)
    OBVIOUS
  <1> HIDE DEF after, N
  <1>4. \A m \in 0..N : after[m] = ReplayStep(w, seq, h, after, m)
    BY <1>1
  <1> DEFINE Fine(r) == \E a, m : \/ r = [world |-> a, ok |-> FALSE, meets |-> m]
                                  \/ r = [world |-> a, ok |-> TRUE, meets |-> m] /\ Kept(w, a, h)
             S == {n \in Nat : n <= N => Fine(after[n])}
  <1> HIDE DEF Fine
  <1>5. 0 \in S
    <2>1. after[0] = [world |-> w, ok |-> TRUE, meets |-> TRUE]
      BY <1>3, <1>4, ZeroOnly DEF ReplayStep
    <2>2. Kept(w, w, h)
      BY DEF Kept, Went
    <2>3. Fine(after[0])
      BY <2>1, <2>2 DEF Fine
    <2> QED BY <2>3
  <1>6. ASSUME NEW n \in Nat, n \in S
        PROVE  n + 1 \in S
    <2> SUFFICES ASSUME n + 1 <= N
                 PROVE  Fine(after[n + 1])
      OBVIOUS
    <2>1. n + 1 \in 1..N /\ n + 1 \in 0..N /\ n + 1 # 0 /\ (n + 1) - 1 = n /\ n <= N
      BY <1>3, OneMore
    <2> DEFINE r == after[n]
               c == seq[n + 1]
    <2>2. Fine(r)
      BY <1>6, <2>1
    <2>3. after[n + 1] =
            IF ~ r.ok \/ ~ MayWrite(r.world, c, h) THEN [r EXCEPT !.ok = FALSE]
            ELSE [world |-> Written(r.world, c, h), ok |-> TRUE,
                  meets |-> r.meets /\ Meets(r.world, c)]
      BY <1>4, <2>1 DEF ReplayStep
    <2>4. c \in AChange /\ c.obj \in Theirs(w, h)
      BY <1>3, <2>1
    <2>5. PICK a, m : \/ r = [world |-> a, ok |-> FALSE, meets |-> m]
                      \/ r = [world |-> a, ok |-> TRUE, meets |-> m] /\ Kept(w, a, h)
      BY <2>2 DEF Fine
    <2> HIDE DEF r, c
    <2>6. r.world = a /\ r.meets = m /\ [r EXCEPT !.ok = FALSE] = [world |-> a, ok |-> FALSE, meets |-> m]
      <3>1. PICK k : r = [world |-> a, ok |-> k, meets |-> m]
        BY <2>5
      <3>2. [r EXCEPT !.ok = FALSE] = [world |-> a, ok |-> FALSE, meets |-> m]
        <4> DEFINE no == FALSE
        <4> HIDE DEF no
        <4>1. [r EXCEPT !.ok = no] = [world |-> a, ok |-> no, meets |-> m]
          BY <3>1
        <4> QED BY <4>1 DEF no
      <3> QED BY <3>1, <3>2
    <2>7. CASE ~ r.ok \/ ~ MayWrite(r.world, c, h)
      BY <2>3, <2>6, <2>7 DEF Fine
    <2>8. CASE r.ok /\ MayWrite(r.world, c, h)
      <3>1. Kept(w, a, h) /\ MayWrite(a, c, h)
        BY <2>5, <2>6, <2>8
      <3>2. a \in AWorld /\ a.index[h] <= Len(a.changes[h]) /\ c.obj \in Theirs(a, h)
        BY <2>4, <3>1 DEF Kept, Went
      <3>3. Kept(a, Written(a, c, h), h)
        BY <2>4, <3>1, <3>2, OneReplayed
      <3>4. Kept(w, Written(a, c, h), h)
        BY <3>1, <3>3, WentOn DEF Kept
      <3> DEFINE b == Written(a, c, h)
                 k == r.meets /\ Meets(r.world, c)
      <3>5. after[n + 1] = [world |-> b, ok |-> TRUE, meets |-> k]
        BY <2>3, <2>6, <2>8
      <3> HIDE DEF b, k
      <3> QED BY <3>4, <3>5 DEF b, Fine
    <2> QED BY <2>7, <2>8
  <1> HIDE DEF S
  <1>7. N \in S
    BY <1>3, <1>5, <1>6, Induct
  <1>8. N <= N
    BY <1>3
  <1> QED BY <1>2, <1>7, <1>8 DEF S, Fine


\* The index is moved in the end.
LEMMA IndexMoved ==
    ASSUME NEW w \in AWorld, NEW h \in Historied, NEW a, Kept(w, a, h),
           NEW i \in Nat, i <= Len(w.changes[h])
    PROVE  Went(w, Rebooked(a, h, a.changes[h], i), h)
  <1> DEFINE b == Rebooked(a, h, a.changes[h], i)
  <1>1. a \in AWorld /\ a.changes[h] \in Seq(AnEntry) /\ a.changes[h] = w.changes[h]
    BY WorldIs DEF Kept, Went
  <1>2. Others(a, b, h) /\ b.changes[h] = a.changes[h] /\ b.index[h] = i
    BY <1>1, RebookedIs
  <1> HIDE DEF b
  <1>3. \A g \in Historied : Theirs(b, g) = Theirs(a, g)
    BY <1>1, <1>2, TheirsKept DEF Others
  <1>4. Went(w, b, h)
    BY <1>1, <1>2, <1>3 DEF Kept, Went, Others
  <1> QED BY <1>4 DEF b

LEMMA EntriesIs ==
    ASSUME NEW w \in AWorld, NEW h \in Historied, Own(w, h), NEW n \in 1..Len(w.changes[h]),
           NEW s, s = w.changes[h][n].changes
    PROVE  /\ s \in Seq(AChange) /\ Len(s) \in Nat
           /\ \A i \in 1..Len(s) : s[i] \in AChange /\ s[i].obj \in Theirs(w, h)
  <1>1. w.changes[h][n] \in AnEntry
    BY WorldIs
  <1>2. s \in Seq(AChange)
    BY <1>1 DEF AnEntry
  <1>3. \A i \in 1..Len(s) : s[i].obj \in Theirs(w, h)
    BY DEF Own
  <1> QED BY <1>2, <1>3

\* What is replayed, with the index moved.
LEMMA ReplayedAndMoved ==
    ASSUME NEW w \in AWorld, NEW h \in Historied, w.index[h] <= Len(w.changes[h]),
           NEW seq, Len(seq) \in Nat,
           \A n \in 1..Len(seq) : seq[n] \in AChange /\ seq[n].obj \in Theirs(w, h),
           NEW r, r = Replay(w, seq, h)
    PROVE  /\ w.index[h] > 0 => Outcome(w, [r EXCEPT !.world.index[h] = @ - 1], h)
           /\ w.index[h] < Len(w.changes[h]) =>
                Outcome(w, [r EXCEPT !.world.index[h] = @ + 1], h)
  <1>1. PICK a, m : \/ r = [world |-> a, ok |-> FALSE, meets |-> m]
                    \/ r = [world |-> a, ok |-> TRUE, meets |-> m] /\ Kept(w, a, h)
    BY ReplayIs
  <1>2. w.index[h] \in Nat /\ Len(w.changes[h]) \in Nat
    BY WorldIs
  <1>3. ASSUME NEW i, (i \in Nat /\ i <= Len(w.changes[h])) \/ ~ r.ok
        PROVE  Outcome(w, [r EXCEPT !.world.index[h] = i], h)
    <2> DEFINE b == [r.world EXCEPT !.index[h] = i]
    <2>1. PICK k : r = [world |-> a, ok |-> k, meets |-> m] /\ k \in BOOLEAN
      BY <1>1
    <2>2. r.world = a /\ r.ok = k
      BY <2>1
    <2>3. [r EXCEPT !.world.index[h] = i] = [world |-> b, ok |-> k, meets |-> m]
      <3>1. [r EXCEPT !.world.index[h] = i] = [r EXCEPT !.world = b]
        OBVIOUS
      <3> HIDE DEF b
      <3>2. [r EXCEPT !.world = b] = [world |-> b, ok |-> k, meets |-> m]
        BY <2>1
      <3> QED BY <3>1, <3>2
    <2>4. k = FALSE \/ Kept(w, a, h)
      BY <1>1, <2>2
    <2>5. CASE k = FALSE
      <3> HIDE DEF b
      <3> QED BY <2>3, <2>5 DEF Outcome
    <2>6. CASE k = TRUE /\ Kept(w, a, h)
      <3>1. b = Rebooked(a, h, a.changes[h], i)
        BY <2>2, <2>6, ExceptIs DEF Kept, Went
      <3>2. Went(w, b, h)
        BY <1>3, <2>2, <2>6, <3>1, IndexMoved
      <3> HIDE DEF b
      <3> QED BY <2>3, <2>6, <3>2 DEF Outcome
    <2> QED BY <2>1, <2>4, <2>5, <2>6
  <1> DEFINE i == r.world.index[h]
  <1>4. [r EXCEPT !.world.index[h] = @ - 1] = [r EXCEPT !.world.index[h] = i - 1]
    OBVIOUS
  <1>5. [r EXCEPT !.world.index[h] = @ + 1] = [r EXCEPT !.world.index[h] = i + 1]
    OBVIOUS
  <1>6. ~ r.ok \/ i = w.index[h]
    <2>1. CASE r = [world |-> a, ok |-> FALSE, meets |-> m]
      BY <2>1
    <2>2. CASE r = [world |-> a, ok |-> TRUE, meets |-> m] /\ Kept(w, a, h)
      BY <2>2 DEF Kept
    <2> QED BY <1>1, <2>1, <2>2
  <1> HIDE DEF i
  <1>7. ASSUME w.index[h] > 0
        PROVE  Outcome(w, [r EXCEPT !.world.index[h] = @ - 1], h)
    <2>1. (i - 1 \in Nat /\ i - 1 <= Len(w.changes[h])) \/ ~ r.ok
      BY <1>2, <1>6, <1>7
    <2>2. Outcome(w, [r EXCEPT !.world.index[h] = i - 1], h)
      BY <1>3, <2>1
    <2> QED BY <1>4, <2>2
  <1>8. ASSUME w.index[h] < Len(w.changes[h])
        PROVE  Outcome(w, [r EXCEPT !.world.index[h] = @ + 1], h)
    <2>1. (i + 1 \in Nat /\ i + 1 <= Len(w.changes[h])) \/ ~ r.ok
      BY <1>2, <1>6, <1>8
    <2>2. Outcome(w, [r EXCEPT !.world.index[h] = i + 1], h)
      BY <1>3, <2>1
    <2> QED BY <1>5, <2>2
  <1> QED BY <1>7, <1>8

LEMMA RevertedIs ==
    ASSUME NEW change \in AChange
    PROVE  Reverted(change) \in AChange /\ Reverted(change).obj = change.obj
  BY DEF AChange, Reverted, PutOf, TakeOf, SetOf

LEMMA UndoneIs ==
    ASSUME NEW w \in AWorld, NEW h \in Historied, w.index[h] <= Len(w.changes[h]), Own(w, h)
    PROVE  Outcome(w, Undone(w, h), h)
  <1>1. w.index[h] \in Nat /\ Len(w.changes[h]) \in Nat
    BY WorldIs
  <1>2. CASE w.index[h] = 0
    BY <1>2 DEF Undone, Outcome
  <1>3. CASE w.index[h] # 0
    <2> DEFINE e   == w.changes[h][w.index[h]]
               s   == e.changes
               cs  == Reverse(s)
               seq == [n \in DOMAIN cs |-> Reverted(cs[n])]
               r   == Replay(w, seq, h)
    <2>1. w.index[h] \in 1..Len(w.changes[h]) /\ w.index[h] > 0
      BY <1>1, <1>3
    <2>2. /\ s \in Seq(AChange) /\ Len(s) \in Nat
          /\ \A n \in 1..Len(s) : s[n] \in AChange /\ s[n].obj \in Theirs(w, h)
      BY <2>1, EntriesIs
    <2>3. Undone(w, h) = IF w.index[h] = 0 THEN [world |-> w, ok |-> FALSE, meets |-> TRUE]
                         ELSE [r EXCEPT !.world.index[h] = @ - 1]
      BY Zenon DEF Undone
    <2> HIDE DEF s, r
    <2>4. \A n \in 1..Len(s) : (Len(s) - n) + 1 \in 1..Len(s)
      BY <2>2
    <2>5. cs = [n \in 1..Len(s) |-> s[(Len(s) - n) + 1]]
      BY DEF Reverse
    <2>6. DOMAIN cs = 1..Len(s) /\ \A n \in 1..Len(s) : cs[n] \in AChange /\ cs[n].obj \in Theirs(w, h)
      BY <2>2, <2>4, <2>5
    <2> HIDE DEF cs
    <2>7. /\ DOMAIN seq = 1..Len(s)
          /\ \A n \in 1..Len(s) : seq[n] \in AChange /\ seq[n].obj \in Theirs(w, h)
      BY <2>6, RevertedIs
    <2>8. seq = [n \in 1..Len(s) |-> seq[n]]
      BY <2>6
    <2> HIDE DEF seq
    <2>9. seq \in Seq(AChange) /\ Len(seq) = Len(s)
      BY <2>2, <2>7, <2>8
    <2>10. Outcome(w, [r EXCEPT !.world.index[h] = @ - 1], h)
      BY <2>1, <2>2, <2>7, <2>9, ReplayedAndMoved DEF r
    <2> QED BY <1>3, <2>3, <2>10
  <1> QED BY <1>2, <1>3

LEMMA RedoneIs ==
    ASSUME NEW w \in AWorld, NEW h \in Historied, w.index[h] <= Len(w.changes[h]), Own(w, h)
    PROVE  Outcome(w, Redone(w, h), h)
  <1>1. w.index[h] \in Nat /\ Len(w.changes[h]) \in Nat
    BY WorldIs
  <1>2. CASE w.index[h] = Len(w.changes[h])
    BY <1>2 DEF Redone, Outcome
  <1>3. CASE w.index[h] # Len(w.changes[h])
    <2> DEFINE e == w.changes[h][w.index[h] + 1]
               s == e.changes
               r == Replay(w, s, h)
    <2>1. w.index[h] + 1 \in 1..Len(w.changes[h]) /\ w.index[h] < Len(w.changes[h])
      BY <1>1, <1>3
    <2>2. /\ s \in Seq(AChange) /\ Len(s) \in Nat
          /\ \A n \in 1..Len(s) : s[n] \in AChange /\ s[n].obj \in Theirs(w, h)
      BY <2>1, EntriesIs
    <2>3. Redone(w, h) = [r EXCEPT !.world.index[h] = @ + 1]
      BY <1>3 DEF Redone
    <2> HIDE DEF s, r
    <2>4. Outcome(w, [r EXCEPT !.world.index[h] = @ + 1], h)
      BY <2>1, <2>2, ReplayedAndMoved DEF r
    <2> QED BY <2>3, <2>4
  <1> QED BY <1>2, <1>3

\* The definition of after in IndexSet.
IndexStep(w, h, i, f, n) ==
    IF n = 0 THEN [world |-> w, ok |-> TRUE, meets |-> TRUE]
    ELSE LET r == f[n - 1]
         IN  IF ~ r.ok THEN r
             ELSE IF i < w.index[h] THEN Undone(r.world, h) ELSE Redone(r.world, h)

LEMMA IndexSetting ==
    ASSUME NEW w, NEW h, NEW i, NEW N \in Nat
    PROVE  \E f : f = [m \in 0..N |-> IndexStep(w, h, i, f, m)]
  <1> DEFINE S == {n \in Nat : \E f : f = [m \in 0..n |-> IndexStep(w, h, i, f, m)]}
  <1>1. 0 \in S
    <2> DEFINE f == [m \in 0..0 |-> [world |-> w, ok |-> TRUE, meets |-> TRUE]]
    <2>1. \A m \in 0..0 : IndexStep(w, h, i, f, m) = [world |-> w, ok |-> TRUE, meets |-> TRUE]
      BY ZeroOnly DEF IndexStep
    <2>2. f = [m \in 0..0 |-> IndexStep(w, h, i, f, m)]
      BY <2>1
    <2> QED BY <2>2
  <1>2. ASSUME NEW n \in Nat, n \in S
        PROVE  n + 1 \in S
    <2>1. PICK f : f = [m \in 0..n |-> IndexStep(w, h, i, f, m)]
      BY <1>2
    <2> DEFINE g == [m \in 0..(n + 1) |-> IF m = n + 1 THEN IndexStep(w, h, i, f, n + 1)
                                          ELSE f[m]]
    <2>2. \A m \in 0..n : g[m] = f[m] /\ f[m] = IndexStep(w, h, i, f, m)
      BY <2>1, OneFurther
    <2>3. g[n + 1] = IndexStep(w, h, i, f, n + 1) /\ g = [m \in 0..(n + 1) |-> g[m]]
      BY OneFurther
    <2> HIDE DEF g
    <2>4. \A m \in 0..(n + 1) : IndexStep(w, h, i, g, m) = IndexStep(w, h, i, f, m)
      BY <2>2, Below DEF IndexStep
    <2>5. \A m \in 0..(n + 1) : g[m] = IndexStep(w, h, i, g, m)
      BY <2>2, <2>3, <2>4, OneFurther
    <2>6. g = [m \in 0..(n + 1) |-> IndexStep(w, h, i, g, m)]
      BY <2>3, <2>5
    <2> QED BY <2>6
  <1> HIDE DEF S
  <1>3. N \in S
    BY <1>1, <1>2, Induct
  <1> QED BY <1>3 DEF S

LEMMA IndexSetIs ==
    ASSUME NEW w \in AWorld, NEW h \in Historied, w.index[h] <= Len(w.changes[h]), Own(w, h),
           NEW i \in Nat
    PROVE  Outcome(w, IndexSet(w, h, i), h)
  <1> DEFINE N == IF i < w.index[h] THEN w.index[h] - i ELSE i - w.index[h]
             after == CHOOSE f : f = [m \in 0..N |-> IndexStep(w, h, i, f, m)]
  <1>1. N \in Nat
    BY WorldIs
  <1>2. after = [m \in 0..N |-> IndexStep(w, h, i, after, m)]
    BY <1>1, IndexSetting
  <1>3. IndexSet(w, h, i) = after[N]
    BY Zenon DEF IndexSet, IndexStep
  <1> HIDE DEF after, N
  <1>4. \A m \in 0..N : after[m] = IndexStep(w, h, i, after, m)
    BY <1>2
  <1> DEFINE S == {n \in Nat : n <= N => Outcome(w, after[n], h)}
  <1>5. 0 \in S
    <2>1. after[0] = [world |-> w, ok |-> TRUE, meets |-> TRUE]
      BY <1>1, <1>4, ZeroOnly DEF IndexStep
    <2>2. Went(w, w, h)
      BY DEF Went
    <2> QED BY <2>1, <2>2 DEF Outcome
  <1>6. ASSUME NEW n \in Nat, n \in S
        PROVE  n + 1 \in S
    <2> SUFFICES ASSUME n + 1 <= N
                 PROVE  Outcome(w, after[n + 1], h)
      OBVIOUS
    <2>1. n + 1 \in 0..N /\ n + 1 # 0 /\ (n + 1) - 1 = n /\ n <= N
      BY <1>1, OneMore
    <2> DEFINE r == after[n]
    <2>2. Outcome(w, r, h)
      BY <1>6, <2>1
    <2>3. after[n + 1] = IF ~ r.ok THEN r
                         ELSE IF i < w.index[h] THEN Undone(r.world, h) ELSE Redone(r.world, h)
      BY <1>4, <2>1 DEF IndexStep
    <2> HIDE DEF r
    <2>4. CASE ~ r.ok
      BY <2>2, <2>3, <2>4
    <2>5. CASE r.ok
      <3>1. PICK a, m : r = [world |-> a, ok |-> TRUE, meets |-> m] /\ Went(w, a, h)
        <4>1. PICK a, m : \/ r = [world |-> a, ok |-> FALSE, meets |-> m]
                          \/ r = [world |-> a, ok |-> TRUE, meets |-> m] /\ Went(w, a, h)
          BY <2>2 DEF Outcome
        <4>2. r # [world |-> a, ok |-> FALSE, meets |-> m]
          BY <2>5
        <4> QED BY <4>1, <4>2
      <3>2. r.world = a
        BY <3>1
      <3>3. Own(a, h) /\ a \in AWorld /\ a.index[h] <= Len(a.changes[h])
        BY <3>1, StillOwn
      <3>4. Outcome(a, after[n + 1], h)
        BY <2>3, <2>5, <3>2, <3>3, UndoneIs, RedoneIs
      <3>5. \A b : Went(a, b, h) => Went(w, b, h)
        BY <3>1, WentOn
      <3> QED BY <3>4, <3>5 DEF Outcome
    <2> QED BY <2>4, <2>5
  <1> HIDE DEF S
  <1>7. N \in S
    BY <1>1, <1>5, <1>6, Induct
  <1>8. N <= N
    BY <1>1
  <1> QED BY <1>3, <1>7, <1>8 DEF S

-----------------------------------------------------------------------------
(* The book of a history: its entries s, its index i, of size z, with      *)
(* changes of the objects T; d says if a batch of it is open.              *)

Booked(s, i, z, T, d) ==
    /\ s \in Seq(AnEntry) /\ i \in Nat /\ i <= Len(s) /\ (z # None => Len(s) <= z)
    /\ \A n \in 1..Len(s) : ~ s[n].closed => n = Len(s) /\ d
    /\ \A n \in 1..Len(s) : \A k \in 1..Len(s[n].changes) : s[n].changes[k].obj \in T

Undoable(s, i) == SubSeq(s, 1, i)
Redoable(s, i) == SubSeq(s, i + 1, Len(s))

\* A step of UndoStack for one history, with p undoable and f redoable.
Stacked(p, f, pp, ff) ==
    \/ /\ pp # <<>>
       /\ \/ Front(pp) = p
          \/ p # <<>> /\ pp = Append(Tail(p), Last(pp))
       /\ ff = <<>>
    \/ /\ p # <<>> /\ ~ Last(p).closed /\ pp # <<>>
       /\ Front(pp) = Front(p) /\ Front(Last(pp).changes) = Last(p).changes
       /\ ff = <<>>
    \/ /\ p \o f # <<>> /\ ~ Last(p \o f).closed /\ Len(pp) = Len(p)
       /\ pp \o ff = Append(Front(p \o f), [Last(p \o f) EXCEPT !.closed = TRUE])
    \/ pp \o ff = p \o f
    \/ pp = p /\ ff = <<>>
    \/ pp = <<>> /\ ff = <<>>

Turned(s, i, t, j) == Stacked(Undoable(s, i), Redoable(s, i), Undoable(t, j), Redoable(t, j))

LEMMA Split ==
    ASSUME NEW s \in Seq(AnEntry), NEW i \in Nat, i <= Len(s)
    PROVE  /\ Undoable(s, i) \in Seq(AnEntry) /\ Len(Undoable(s, i)) = i
           /\ Undoable(s, i) \o Redoable(s, i) = s
           /\ \A n \in 1..i : Undoable(s, i)[n] = s[n] /\ n \in 1..Len(s)
  <1>1. Len(s) \in Nat /\ \A n \in 1..i : s[n] \in AnEntry /\ n \in 1..Len(s)
    BY ElementOfSeq
  <1>2. /\ SubSeq(s, 1, i) \in Seq(AnEntry)
        /\ Len(SubSeq(s, 1, i)) = IF 1 <= i THEN i - 1 + 1 ELSE 0
        /\ \A n \in 1..(i - 1 + 1) : SubSeq(s, 1, i)[n] = s[1 + n - 1]
    BY <1>1, SubSeqProperties
  <1>3. Len(SubSeq(s, 1, i)) = i /\ \A n \in 1..i : SubSeq(s, 1, i)[n] = s[n]
    BY <1>2
  <1>4. SubSeq(s, 1, i) \o SubSeq(s, i + 1, Len(s)) = SubSeq(s, 1, Len(s))
    <2>1. 1 \in 1..(Len(s) + 1) /\ i \in (1 - 1)..Len(s) /\ Len(s) \in i..Len(s)
      BY <1>1
    <2> DEFINE n == Len(s)
    <2> HIDE DEF n
    <2>2. \A m \in 1..(Len(s) + 1) : \A k \in (m - 1)..Len(s) : \A l \in k..Len(s) :
            SubSeq(s, m, k) \o SubSeq(s, k + 1, l) = SubSeq(s, m, l)
      BY ConcatAdjacentSubSeq
    <2>3. SubSeq(s, 1, i) \o SubSeq(s, i + 1, n) = SubSeq(s, 1, n)
      BY <2>1, <2>2 DEF n
    <2> QED BY <2>3 DEF n
  <1>5. SubSeq(s, 1, Len(s)) = s
    BY SubSeqFull
  <1> QED BY <1>1, <1>2, <1>3, <1>4, <1>5 DEF Undoable, Redoable

\* Nothing can be redone.
LEMMA AllUndoable ==
    ASSUME NEW s \in Seq(AnEntry)
    PROVE  Undoable(s, Len(s)) = s /\ Redoable(s, Len(s)) = <<>>
  <1>1. SubSeq(s, 1, Len(s)) = s
    BY SubSeqFull
  <1>2. Len(s) \in Nat
    OBVIOUS
  <1>3. SubSeq(s, Len(s) + 1, Len(s)) = <<>>
    <2> DEFINE n == Len(s)
    <2>1. n \in Nat /\ n + 1 \in Int /\ n \in Int /\ n < n + 1
      BY <1>2
    <2> HIDE DEF n
    <2>2. SubSeq(s, n + 1, n) = <<>>
      BY <2>1, SubSeqEmpty
    <2> QED BY <2>2 DEF n
  <1> QED BY <1>1, <1>3 DEF Undoable, Redoable

\* Undo and redo, or nothing at all.
LEMMA MovedBook ==
    ASSUME NEW s, NEW i, NEW z, NEW T, NEW d, Booked(s, i, z, T, d),
           NEW j \in Nat, j <= Len(s), NEW U, T \subseteq U, NEW e,
           d => e \/ ~ Open(s)
    PROVE  Booked(s, j, z, U, e) /\ Turned(s, i, s, j)
  <1>1. ASSUME NEW n \in 1..Len(s), ~ s[n].closed
        PROVE  n = Len(s) /\ e
    <2>1. n = Len(s) /\ d /\ s \in Seq(AnEntry)
      BY <1>1 DEF Booked
    <2>2. s # <<>>
      BY <2>1
    <2>3. Open(s)
      BY <1>1, <2>1, <2>2 DEF Open, Last
    <2> QED BY <2>1, <2>3
  <1>2. Booked(s, j, z, U, e)
    BY <1>1 DEF Booked
  <1>3. Undoable(s, j) \o Redoable(s, j) = s /\ Undoable(s, i) \o Redoable(s, i) = s
    BY Split DEF Booked
  <1> QED BY <1>2, <1>3 DEF Turned, Stacked

LEMMA EmptyBook ==
    ASSUME NEW s, NEW i, NEW z \in Nat \cup {None}, NEW T, NEW e
    PROVE  Booked(<<>>, 0, z, T, e) /\ Turned(s, i, <<>>, 0)
  <1>1. <<>> \in Seq(AnEntry) /\ Len(<<>>) = 0 /\ 0 \in Nat /\ 0 <= 0
    BY EmptySeq
  <1>2. 1..0 = {} /\ (z # None => 0 <= z)
    OBVIOUS
  <1>3. Undoable(<<>>, 0) = <<>> /\ Redoable(<<>>, 0) = <<>>
    <2>1. Undoable(<<>>, Len(<<>>)) = <<>> /\ Redoable(<<>>, Len(<<>>)) = <<>>
      BY <1>1, AllUndoable
    <2> QED BY <1>1, <2>1
  <1>4. Booked(<<>>, 0, z, T, e)
    BY <1>1, <1>2 DEF Booked
  <1> QED BY <1>3, <1>4 DEF Turned, Stacked

\* What could be redone is forgotten.
LEMMA CutBook ==
    ASSUME NEW s, NEW i, NEW z \in Nat \cup {None}, NEW T, NEW d, Booked(s, i, z, T, d),
           NEW U, T \subseteq U, NEW e, d => e
    PROVE  Booked(Undoable(s, i), i, z, U, e) /\ Turned(s, i, Undoable(s, i), i)
  <1> DEFINE t == Undoable(s, i)
  <1>1. /\ t \in Seq(AnEntry) /\ Len(t) = i /\ s \in Seq(AnEntry) /\ i \in Nat /\ i <= Len(s)
        /\ \A n \in 1..i : t[n] = s[n] /\ n \in 1..Len(s)
    BY Split DEF Booked
  <1>2. Undoable(t, i) = t /\ Redoable(t, i) = <<>>
    BY <1>1, AllUndoable
  <1> HIDE DEF t
  <1>3. ASSUME NEW n \in 1..Len(t), ~ t[n].closed
        PROVE  n = Len(t) /\ e
    <2>1. n = Len(s) /\ d
      BY <1>1, <1>3 DEF Booked
    <2>2. Len(s) \in Nat
      BY <1>1
    <2> QED BY <1>1, <2>1, <2>2
  <1>4. \A n \in 1..Len(t) : \A k \in 1..Len(t[n].changes) : t[n].changes[k].obj \in U
    BY <1>1 DEF Booked
  <1>5. z # None => Len(t) <= z
    <2> SUFFICES ASSUME z # None PROVE Len(t) <= z
      OBVIOUS
    <2>1. Len(s) <= z /\ Len(s) \in Nat /\ z \in Nat
      BY <1>1 DEF Booked
    <2> QED BY <1>1, <2>1
  <1>6. i \in Nat /\ i <= Len(t)
    BY <1>1
  <1>7. Booked(t, i, z, U, e)
    BY <1>1, <1>3, <1>4, <1>5, <1>6 DEF Booked
  <1>8. Turned(s, i, t, i)
    BY <1>2 DEF t, Turned, Stacked
  <1> QED BY <1>7, <1>8 DEF t

\* A closed last entry, or an open one in a batch.
LEMMA AppendedBook ==
    ASSUME NEW J \in Seq(AnEntry), NEW x \in AnEntry, NEW z, NEW T, NEW e,
           \A n \in 1..Len(J) : J[n].closed,
           \A n \in 1..Len(J) : \A k \in 1..Len(J[n].changes) : J[n].changes[k].obj \in T,
           x.closed \/ e, \A k \in 1..Len(x.changes) : x.changes[k].obj \in T,
           NEW j \in Nat, j <= Len(J) + 1, z # None => Len(J) + 1 <= z
    PROVE  Booked(Append(J, x), j, z, T, e)
  <1> DEFINE t == Append(J, x)
  <1>1. /\ t \in Seq(AnEntry) /\ Len(t) = Len(J) + 1 /\ t[Len(t)] = x
        /\ \A n \in 1..Len(J) : t[n] = J[n]
        /\ \A n \in 1..Len(t) : n = Len(t) \/ n \in 1..Len(J)
    BY Appended
  <1> HIDE DEF t
  <1>2. \A n \in 1..Len(t) : ~ t[n].closed => n = Len(t) /\ e
    BY <1>1
  <1>3. \A n \in 1..Len(t) : \A k \in 1..Len(t[n].changes) : t[n].changes[k].obj \in T
    BY <1>1
  <1>4. Booked(t, j, z, T, e)
    BY <1>1, <1>2, <1>3 DEF Booked
  <1> QED BY <1>4 DEF t

\* All entries but the last one are closed.
LEMMA FrontBooked ==
    ASSUME NEW J \in Seq(AnEntry), NEW x \in AnEntry, NEW i, NEW z, NEW T, NEW d,
           Booked(Append(J, x), i, z, T, d)
    PROVE  /\ \A n \in 1..Len(J) : J[n].closed
           /\ \A n \in 1..Len(J) : \A k \in 1..Len(J[n].changes) : J[n].changes[k].obj \in T
           /\ \A k \in 1..Len(x.changes) : x.changes[k].obj \in T
           /\ i \in Nat /\ i <= Len(J) + 1 /\ (z # None => Len(J) + 1 <= z)
           /\ ~ x.closed => d
  <1> DEFINE t == Append(J, x)
  <1>1. /\ t \in Seq(AnEntry) /\ Len(t) = Len(J) + 1 /\ t[Len(J) + 1] = x
        /\ \A n \in 1..Len(J) : t[n] = J[n]
    BY Appended
  <1>2. /\ Len(J) + 1 \in 1..(Len(J) + 1)
        /\ \A n \in 1..Len(J) : n \in 1..(Len(J) + 1) /\ n # Len(J) + 1
    OBVIOUS
  <1>3. Booked(t, i, z, T, d)
    OBVIOUS
  <1> HIDE DEF t
  <1> QED BY <1>1, <1>2, <1>3 DEF Booked

\* One more change in the open entry.
LEMMA ExtendedBook ==
    ASSUME NEW s, NEW z, NEW T, NEW d, Booked(s, Len(s), z, T, d), Open(s),
           NEW change \in AChange, NEW U, T \subseteq U, change.obj \in U, NEW e, d => e
    PROVE  /\ Booked(WithChange(s, change), Len(s), z, U, e)
           /\ Turned(s, Len(s), WithChange(s, change), Len(s))
  <1>1. PICK J \in Seq(AnEntry), x \in AnEntry : s = Append(J, x)
    BY EmptyOrAppended DEF Open, Booked
  <1> DEFINE y == [changes |-> Append(x.changes, change), closed |-> x.closed]
             t == Append(J, y)
  <1>2. /\ y \in AnEntry /\ y.changes = Append(x.changes, change) /\ y.closed = x.closed
        /\ x.changes \in Seq(AChange)
    BY EntryIs
  <1>3. WithChange(s, change) = t
    BY <1>1, WithChangeIs
  <1> HIDE DEF y
  <1>4. /\ s \in Seq(AnEntry) /\ t \in Seq(AnEntry) /\ s # <<>> /\ t # <<>>
        /\ Len(s) = Len(J) + 1 /\ Len(t) = Len(J) + 1
        /\ Last(s) = x /\ Last(t) = y /\ Front(s) = J /\ Front(t) = J
    BY <1>1, <1>2, Appended
  <1>5. /\ Front(y.changes) = x.changes /\ Len(y.changes) = Len(x.changes) + 1
        /\ \A k \in 1..Len(x.changes) : y.changes[k] = x.changes[k]
        /\ \A k \in 1..Len(y.changes) : k = Len(x.changes) + 1 \/ k \in 1..Len(x.changes)
        /\ y.changes[Len(x.changes) + 1] = change
    BY <1>2, Appended
  <1>6. /\ \A n \in 1..Len(J) : J[n].closed
        /\ \A n \in 1..Len(J) : \A k \in 1..Len(J[n].changes) : J[n].changes[k].obj \in T
        /\ \A k \in 1..Len(x.changes) : x.changes[k].obj \in T
        /\ z # None => Len(J) + 1 <= z
        /\ ~ x.closed => d
        /\ Len(J) + 1 \in Nat /\ Len(J) + 1 <= Len(J) + 1
    BY <1>1, FrontBooked
  <1>7. \A k \in 1..Len(y.changes) : y.changes[k].obj \in U
    BY <1>5, <1>6
  <1>8. y.closed \/ e
    BY <1>2, <1>6
  <1>9. Booked(t, Len(s), z, U, e)
    BY <1>2, <1>4, <1>6, <1>7, <1>8, AppendedBook
  <1> HIDE DEF t
  <1>10. /\ Undoable(s, Len(s)) = s /\ Redoable(s, Len(s)) = <<>>
         /\ Undoable(t, Len(s)) = t /\ Redoable(t, Len(s)) = <<>>
    BY <1>4, AllUndoable
  <1>11. Turned(s, Len(s), t, Len(s))
    <2>1. ~ Last(s).closed
      BY DEF Open
    <2> QED BY <1>4, <1>5, <1>10, <2>1 DEF Turned, Stacked
  <1> QED BY <1>3, <1>9, <1>11

\* The open entry is closed.
LEMMA ShutBook ==
    ASSUME NEW s, NEW i, NEW z, NEW T, NEW d, Booked(s, i, z, T, d), Open(s),
           NEW U, T \subseteq U, NEW e
    PROVE  Booked(Shut(s), i, z, U, e) /\ Turned(s, i, Shut(s), i)
  <1>1. PICK J \in Seq(AnEntry), x \in AnEntry : s = Append(J, x)
    BY EmptyOrAppended DEF Open, Booked
  <1> DEFINE y == [changes |-> x.changes, closed |-> TRUE]
             t == Append(J, y)
  <1>2. y \in AnEntry /\ y.changes = x.changes /\ y.closed /\ y = [x EXCEPT !.closed = TRUE]
    BY EntryIs
  <1>3. Shut(s) = t
    BY <1>1, ShutIs
  <1> HIDE DEF y
  <1>4. /\ s \in Seq(AnEntry) /\ t \in Seq(AnEntry) /\ s # <<>> /\ t # <<>>
        /\ Len(s) = Len(J) + 1 /\ Len(t) = Len(J) + 1
        /\ Last(s) = x /\ Front(s) = J
    BY <1>1, <1>2, Appended
  <1>5. /\ \A n \in 1..Len(J) : J[n].closed
        /\ \A n \in 1..Len(J) : \A k \in 1..Len(J[n].changes) : J[n].changes[k].obj \in T
        /\ \A k \in 1..Len(x.changes) : x.changes[k].obj \in T
        /\ i \in Nat /\ i <= Len(J) + 1 /\ (z # None => Len(J) + 1 <= z)
    BY <1>1, FrontBooked
  <1>6. Booked(t, i, z, U, e)
    BY <1>2, <1>5, AppendedBook
  <1>7. /\ Undoable(s, i) \o Redoable(s, i) = s /\ Undoable(t, i) \o Redoable(t, i) = t
        /\ Len(Undoable(s, i)) = i /\ Len(Undoable(t, i)) = i
    BY <1>4, <1>5, Split
  <1>8. Turned(s, i, t, i)
    <2>1. ~ Last(s).closed /\ t = Append(Front(s), [Last(s) EXCEPT !.closed = TRUE])
      BY <1>2, <1>4 DEF Open
    <2> QED BY <1>4, <1>7, <2>1 DEF Turned, Stacked
  <1> QED BY <1>3, <1>6, <1>8

\* From s and i to t and j, with the new entry x.
AddedTo(s, i, z, x, t, j) ==
    \/ /\ ~ (z # None /\ i + 1 > z)
       /\ t = Append(Undoable(s, i), x) /\ j = i + 1
    \/ /\ z # None /\ i + 1 > z
       /\ t = Tail(Append(Undoable(s, i), x)) /\ j = i

\* A new entry, when none is open.
LEMMA AddedBook ==
    ASSUME NEW s, NEW i, NEW z \in Nat \cup {None}, NEW T, NEW d, Booked(s, i, z, T, d), ~ d,
           NEW x \in AnEntry, NEW U, T \subseteq U, NEW e, x.closed \/ e,
           \A k \in 1..Len(x.changes) : x.changes[k].obj \in U,
           NEW t, NEW j, AddedTo(s, i, z, x, t, j)
    PROVE  Booked(t, j, z, U, e) /\ Turned(s, i, t, j)
  <1> DEFINE p == Undoable(s, i)
  <1>1. /\ p \in Seq(AnEntry) /\ Len(p) = i /\ i \in Nat /\ i <= Len(s)
        /\ \A n \in 1..Len(p) : p[n].closed
        /\ \A n \in 1..Len(p) : \A k \in 1..Len(p[n].changes) : p[n].changes[k].obj \in U
    <2>1. /\ p \in Seq(AnEntry) /\ Len(p) = i /\ i \in Nat /\ i <= Len(s)
          /\ \A n \in 1..i : p[n] = s[n] /\ n \in 1..Len(s)
      BY Split DEF Booked
    <2> HIDE DEF p
    <2> QED BY <2>1 DEF Booked
  <1>2. i + 1 \in Nat /\ Len(s) \in Nat
    BY <1>1 DEF Booked
  <1> HIDE DEF p
  <1>3. CASE ~ (z # None /\ i + 1 > z) /\ t = Append(p, x) /\ j = i + 1
    <2>1. z # None => Len(p) + 1 <= z
      BY <1>1, <1>2, <1>3
    <2>2. Booked(t, j, z, U, e)
      <3>1. j \in Nat /\ j <= Len(p) + 1
        BY <1>1, <1>2, <1>3
      <3> QED BY <1>1, <1>3, <2>1, <3>1, AppendedBook
    <2>3. t \in Seq(AnEntry) /\ j = Len(t) /\ t # <<>> /\ Front(t) = p
      BY <1>1, <1>3, Appended
    <2>4. Undoable(t, j) = t /\ Redoable(t, j) = <<>>
      BY <2>3, AllUndoable
    <2> QED BY <2>2, <2>3, <2>4 DEF Turned, Stacked, p
  <1>4. CASE z # None /\ i + 1 > z /\ t = Tail(Append(p, x)) /\ j = i
    <2>1. Tail(Append(p, x)) = IF p = <<>> THEN <<>> ELSE Append(Tail(p), x)
      BY <1>1, HeadTailAppend
    <2>2. CASE p = <<>>
      <3>1. t = <<>> /\ j = 0
        BY <1>1, <1>4, <2>1, <2>2
      <3> QED BY <3>1, EmptyBook
    <2>3. CASE p # <<>>
      <3> DEFINE q == Tail(p)
      <3>1. /\ q \in Seq(AnEntry) /\ Len(q) = Len(p) - 1
            /\ \A n \in 1..Len(q) : q[n] = p[n + 1]
        BY <1>1, <2>3, HeadTailProperties
      <3>2. t = Append(q, x)
        BY <1>4, <2>1, <2>3
      <3> HIDE DEF q
      <3>3. Len(q) + 1 = i /\ \A n \in 1..Len(q) : n + 1 \in 1..Len(p)
        BY <1>1, <3>1
      <3>4. /\ \A n \in 1..Len(q) : q[n].closed
            /\ \A n \in 1..Len(q) : \A k \in 1..Len(q[n].changes) : q[n].changes[k].obj \in U
        BY <1>1, <3>1, <3>3
      <3>5. z # None => Len(q) + 1 <= z
        <4>1. Len(s) <= z /\ z \in Nat
          BY <1>4 DEF Booked
        <4> QED BY <1>1, <1>2, <3>3, <4>1
      <3>6. Booked(t, j, z, U, e)
        <4>1. j \in Nat /\ j <= Len(q) + 1
          BY <1>1, <1>4, <3>3
        <4> QED BY <3>1, <3>2, <3>4, <3>5, <4>1, AppendedBook
      <3>7. t \in Seq(AnEntry) /\ j = Len(t) /\ t # <<>> /\ Last(t) = x
        <4>1. t \in Seq(AnEntry) /\ Len(t) = Len(q) + 1 /\ t # <<>> /\ Last(t) = x
          BY <3>1, <3>2, Appended
        <4> QED BY <1>4, <3>3, <4>1
      <3>8. Undoable(t, j) = t /\ Redoable(t, j) = <<>>
        BY <3>7, AllUndoable
      <3>9. t = Append(Tail(p), Last(t))
        BY <3>2, <3>7 DEF q
      <3> QED BY <2>3, <3>6, <3>7, <3>8, <3>9 DEF Turned, Stacked, p
    <2> QED BY <2>2, <2>3
  <1> QED BY <1>3, <1>4 DEF p, AddedTo

-----------------------------------------------------------------------------
(* The steps.                                                              *)

\* After a step from w to v, e says if a batch of g is open.
Fine(w, v, g, e) ==
    /\ Booked(v.changes[g], v.index[g], size[g], Theirs(v, g), e)
    /\ Turned(w.changes[g], w.index[g], v.changes[g], v.index[g])

\* The book of g in w.
Right(w, g) == Booked(w.changes[g], w.index[g], size[g], Theirs(w, g), Depth(g) > 0)

AllRight(w) == w \in AWorld /\ \A g \in Historied : Right(w, g)

LEMMA SizeIs ==
    ASSUME Fixed, NEW g \in Historied
    PROVE  size[g] \in Nat \cup {None}
  <1>1. Sizes \subseteq [Historied -> Nat \cup {None}]
    BY HistoryAssumption, Zenon
  <1>2. size \in Sizes
    BY DEF Fixed
  <1>3. size \in [Historied -> Nat \cup {None}]
    BY <1>1, <1>2
  <1> QED BY <1>3

LEMMA RightIs ==
    ASSUME NEW w, AllRight(w)
    PROVE  w \in AWorld /\ AllInRange(w) /\ LastOpen(w)
  BY DEF AllRight, Right, Booked, AllInRange, LastOpen

\* Nothing done to g.
LEMMA SameFine ==
    ASSUME Fixed, NEW w, AllRight(w), NEW v, NEW g \in Historied,
           v.changes[g] = w.changes[g], v.index[g] = w.index[g],
           Theirs(w, g) \subseteq Theirs(v, g), NEW e, Depth(g) > 0 => e
    PROVE  Fine(w, v, g, e)
  <1> DEFINE s == w.changes[g]
             i == w.index[g]
             z == size[g]
             T == Theirs(w, g)
             U == Theirs(v, g)
             d == Depth(g) > 0
  <1>1. Booked(s, i, z, T, d) /\ T \subseteq U /\ (d => e)
    BY DEF AllRight, Right
  <1>2. v.changes[g] = s /\ v.index[g] = i
    OBVIOUS
  <1> HIDE DEF s, i, z, T, U, d
  <1>3. i \in Nat /\ i <= Len(s)
    BY <1>1 DEF Booked
  <1>4. Booked(s, i, z, U, e) /\ Turned(s, i, s, i)
    BY <1>1, <1>3, MovedBook
  <1> QED BY <1>2, <1>4 DEF Fine, s, i, z, U

LEMMA FlushedFine ==
    ASSUME Fixed, NEW w, NEW v, NEW g \in Historied,
           v.changes[g] = <<>>, v.index[g] = 0, NEW e
    PROVE  Fine(w, v, g, e)
  <1>1. size[g] \in Nat \cup {None}
    BY SizeIs
  <1> QED BY <1>1, EmptyBook DEF Fine

LEMMA CutFine ==
    ASSUME Fixed, NEW w, AllRight(w), NEW v, NEW g \in Historied,
           v.changes[g] = Past(w, g), v.index[g] = w.index[g],
           Theirs(w, g) \subseteq Theirs(v, g), NEW e, Depth(g) > 0 => e
    PROVE  Fine(w, v, g, e)
  <1> DEFINE s == w.changes[g]
             i == w.index[g]
             z == size[g]
             T == Theirs(w, g)
             U == Theirs(v, g)
             d == Depth(g) > 0
  <1>1. z \in Nat \cup {None} /\ Booked(s, i, z, T, d) /\ T \subseteq U /\ (d => e)
    BY SizeIs DEF AllRight, Right
  <1>2. v.changes[g] = Undoable(s, i) /\ v.index[g] = i
    BY DEF Past, Undoable
  <1> HIDE DEF s, i, z, T, U, d
  <1>3. Booked(Undoable(s, i), i, z, U, e) /\ Turned(s, i, Undoable(s, i), i)
    BY <1>1, CutBook
  <1> QED BY <1>2, <1>3 DEF Fine, s, i, z, U

LEMMA AddedFine ==
    ASSUME Fixed, NEW w, AllRight(w), NEW v, NEW g \in Historied, NEW x \in AnEntry,
           Adds(w, v, g, x), ~ (Depth(g) > 0),
           Theirs(w, g) \subseteq Theirs(v, g), NEW e, x.closed \/ e,
           \A k \in 1..Len(x.changes) : x.changes[k].obj \in Theirs(v, g)
    PROVE  Fine(w, v, g, e)
  <1> DEFINE s == w.changes[g]
             i == w.index[g]
             t == v.changes[g]
             j == v.index[g]
             z == size[g]
             T == Theirs(w, g)
             U == Theirs(v, g)
             d == Depth(g) > 0
  <1>1. z \in Nat \cup {None} /\ Booked(s, i, z, T, d) /\ T \subseteq U
    BY SizeIs DEF AllRight, Right
  <1>2. AddedTo(s, i, z, x, t, j)
    BY DEF Adds, Full, Past, Undoable, AddedTo
  <1>3. ~ d /\ \A k \in 1..Len(x.changes) : x.changes[k].obj \in U
    OBVIOUS
  <1> HIDE DEF s, i, t, j, z, T, U, d
  <1>4. Booked(t, j, z, U, e) /\ Turned(s, i, t, j)
    BY <1>1, <1>2, <1>3, AddedBook
  <1> QED BY <1>4 DEF Fine, s, i, t, j, z, U

-----------------------------------------------------------------------------
(* Writes.                                                                 *)

LEMMA WriteFine ==
    ASSUME Fixed, NEW w, AllRight(w), NEW change \in AChange, MayWrite(w, change, None)
    PROVE  LET v == Written(w, change, None)
           IN  v \in AWorld /\ \A g \in Historied : Fine(w, v, g, Depth(g) > 0)
  <1> DEFINE h == HistoryOf(w, change.obj)
             v == Written(w, change, None)
  <1>1. w \in AWorld /\ AllInRange(w) /\ LastOpen(w)
    BY RightIs
  <1>2. h \in Historied \cup {None}
    BY DEF MayWrite, HistoryFound, HistoryOf
  <1>3. CASE h = None
    <2>1. v = Middle(w, w, change)
      BY <1>1, <1>3, WrittenAlone
    <2> HIDE DEF v
    <2>2. /\ v \in AWorld
          /\ \A g \in Historied :
               IF Flushes(w, change, g) THEN v.changes[g] = <<>> /\ v.index[g] = 0
               ELSE v.changes[g] = w.changes[g] /\ v.index[g] = w.index[g]
          /\ \A g \in Historied : Theirs(w, g) \subseteq Theirs(v, g) \/ Flushes(w, change, g)
      BY <1>1, <2>1, MiddleIs
    <2>3. \A g \in Historied : Fine(w, v, g, Depth(g) > 0)
      BY <2>2, SameFine, FlushedFine
    <2> QED BY <2>2, <2>3 DEF v
  <1>4. CASE h \in Historied
    <2>1. h # None
      BY <1>4, NoObject
    <2>2. /\ v \in AWorld /\ Recorded(w, v, h, change) /\ ~ Flushes(w, change, h)
          /\ \A g \in Historied : g # h =>
               IF Flushes(w, change, g) THEN v.changes[g] = <<>> /\ v.index[g] = 0
               ELSE v.changes[g] = w.changes[g] /\ v.index[g] = w.index[g]
          /\ \A g \in Historied : Theirs(w, g) \subseteq Theirs(v, g) \/ Flushes(w, change, g)
      BY <1>1, <1>4, <2>1, WrittenIn
    <2>3. change.obj \in Theirs(w, h)
      BY DEF Theirs, Belongs, AChange
    <2> HIDE DEF v, h
    <2>4. Theirs(w, h) \subseteq Theirs(v, h) /\ change.obj \in Theirs(v, h)
      BY <1>4, <2>2, <2>3
    <2>5. \A g \in Historied : g # h => Fine(w, v, g, Depth(g) > 0)
      BY <2>2, SameFine, FlushedFine
    <2>6. Fine(w, v, h, Depth(h) > 0)
      <3>1. CASE Depth(h) = 0 /\ Adds(w, v, h, Record(change))
        <4> DEFINE x == Record(change)
        <4>1. x \in AnEntry /\ x.closed /\ x.changes = <<change>>
          BY RecordIs DEF Record
        <4>2. Len(<<change>>) = 1 /\ <<change>>[1] = change /\ 1..1 = {1} /\ ~ (0 > 0)
          OBVIOUS
        <4> HIDE DEF x
        <4>3. \A k \in 1..Len(x.changes) : x.changes[k].obj \in Theirs(v, h)
          BY <2>4, <4>1, <4>2
        <4>4. ~ (Depth(h) > 0)
          BY <3>1, <4>2
        <4>5. Adds(w, v, h, x)
          BY <3>1 DEF x
        <4> QED BY <1>4, <2>4, <4>1, <4>3, <4>4, <4>5, AddedFine
      <3>2. CASE v.changes[h] = Past(w, h) /\ v.index[h] = w.index[h]
        BY <1>4, <2>4, <3>2, CutFine
      <3>3. CASE /\ Open(w.changes[h]) /\ w.index[h] = Len(w.changes[h])
                 /\ v.changes[h] = WithChange(w.changes[h], change) /\ v.index[h] = w.index[h]
        <4>1. Right(w, h)
          BY <1>4 DEF AllRight
        <4> QED BY <2>4, <3>3, <4>1, ExtendedBook DEF Fine, Right
      <3> QED BY <2>2, <3>1, <3>2, <3>3 DEF Recorded
    <2> QED BY <2>2, <2>5, <2>6 DEF v
  <1> QED BY <1>2, <1>3, <1>4

-----------------------------------------------------------------------------
(* Batches.                                                                *)

\* Depth, of the batches b.
DepthIn(b, g) == Cardinality({n \in DOMAIN b : b[n] = g})

LEMMA DepthIs ==
    ASSUME NEW b \in Seq(Historied), NEW g
    PROVE  /\ DepthIn(b, g) \in Nat
           /\ DepthIn(b, g) > 0 <=> \E n \in 1..Len(b) : b[n] = g
           /\ \A n \in 1..Len(b) : b[n] = g /\ DepthIn(b, g) # 1 =>
                \E k \in 1..Len(b) : k # n /\ b[k] = g
  <1> DEFINE A == {n \in 1..Len(b) : b[n] = g}
  <1>1. DepthIn(b, g) = Cardinality(A) /\ Len(b) \in Nat
    <2>1. DOMAIN b = 1..Len(b) /\ Len(b) \in Nat
      OBVIOUS
    <2>2. {n \in DOMAIN b : b[n] = g} = A
      BY <2>1
    <2> HIDE DEF A
    <2> QED BY <2>1, <2>2 DEF DepthIn
  <1>2. IsFiniteSet(A)
    <2>1. IsFiniteSet(1..Len(b))
      BY <1>1, FS_Interval
    <2> QED BY <2>1, FS_Subset
  <1>3. \A n : n \in A <=> n \in 1..Len(b) /\ b[n] = g
    OBVIOUS
  <1> HIDE DEF A
  <1>4. Cardinality(A) \in Nat /\ (Cardinality(A) = 0 <=> A = {})
    BY <1>2, FS_CardinalityType, FS_EmptySet
  <1>5. Cardinality(A) > 0 <=> A # {}
    BY <1>4
  <1>6. A # {} <=> \E n \in 1..Len(b) : b[n] = g
    BY <1>3
  <1>7. ASSUME NEW n \in 1..Len(b), b[n] = g, Cardinality(A) # 1
        PROVE  \E k \in 1..Len(b) : k # n /\ b[k] = g
    <2>1. A # {n}
      BY <1>7, FS_Singleton
    <2>2. n \in A
      BY <1>3, <1>7
    <2> QED BY <1>3, <2>1, <2>2
  <1> QED BY <1>1, <1>4, <1>5, <1>6, <1>7

\* A batch opened.
LEMMA DepthEntered ==
    ASSUME NEW b \in Seq(Historied), NEW h \in Historied
    PROVE  /\ Append(b, h) \in Seq(Historied)
           /\ DepthIn(Append(b, h), h) > 0
           /\ \A g : DepthIn(b, g) > 0 => DepthIn(Append(b, h), g) > 0
  <1> DEFINE a == Append(b, h)
  <1>1. /\ a \in Seq(Historied) /\ Len(a) = Len(b) + 1 /\ a[Len(b) + 1] = h /\ Len(b) \in Nat
        /\ \A n \in 1..Len(b) : a[n] = b[n]
    BY Appended
  <1>2. Len(b) + 1 \in 1..Len(a) /\ \A n \in 1..Len(b) : n \in 1..Len(a)
    BY <1>1
  <1> HIDE DEF a
  <1>3. DepthIn(a, h) > 0
    BY <1>1, <1>2, DepthIs
  <1>4. ASSUME NEW g, DepthIn(b, g) > 0
        PROVE  DepthIn(a, g) > 0
    <2>1. PICK n \in 1..Len(b) : b[n] = g
      BY <1>4, DepthIs
    <2>2. n \in 1..Len(a) /\ a[n] = g
      BY <1>1, <1>2, <2>1
    <2> QED BY <1>1, <2>2, DepthIs
  <1> QED BY <1>1, <1>3, <1>4 DEF a

\* The innermost batch closed.
LEMMA DepthExited ==
    ASSUME NEW b \in Seq(Historied), b # <<>>
    PROVE  /\ Front(b) \in Seq(Historied) /\ Last(b) \in Historied
           /\ \A g : g # Last(b) /\ DepthIn(b, g) > 0 => DepthIn(Front(b), g) > 0
           /\ DepthIn(b, Last(b)) # 1 => DepthIn(Front(b), Last(b)) > 0
  <1>1. PICK a \in Seq(Historied), h \in Historied : b = Append(a, h)
    BY EmptyOrAppended
  <1>2. /\ Len(b) = Len(a) + 1 /\ b[Len(a) + 1] = h /\ Len(a) \in Nat
        /\ \A n \in 1..Len(a) : b[n] = a[n]
        /\ \A n \in 1..Len(b) : n = Len(a) + 1 \/ n \in 1..Len(a)
        /\ Front(b) = a /\ Last(b) = h
    BY <1>1, Appended
  <1>3. ASSUME NEW g, g # h, DepthIn(b, g) > 0
        PROVE  DepthIn(a, g) > 0
    <2>1. PICK n \in 1..Len(b) : b[n] = g
      BY <1>3, DepthIs
    <2>2. n \in 1..Len(a) /\ a[n] = g
      BY <1>2, <1>3, <2>1
    <2> QED BY <2>2, DepthIs
  <1>4. ASSUME DepthIn(b, h) # 1
        PROVE  DepthIn(a, h) > 0
    <2>1. Len(a) + 1 \in 1..Len(b)
      BY <1>2
    <2>2. PICK k \in 1..Len(b) : k # Len(a) + 1 /\ b[k] = h
      BY <1>2, <1>4, <2>1, DepthIs
    <2>3. k \in 1..Len(a) /\ a[k] = h
      BY <1>2, <2>2
    <2> QED BY <2>3, DepthIs
  <1> QED BY <1>2, <1>3, <1>4

LEMMA EnterFine ==
    ASSUME Fixed, NEW w, AllRight(w), NEW h \in Historied
    PROVE  LET v == Entered(w, h, Depth(h) = 0)
           IN  /\ v \in AWorld
               /\ \A g \in Historied : \A e : (Depth(g) > 0 => e) /\ (g = h => e) =>
                    Fine(w, v, g, e)
  <1> DEFINE top == Depth(h) = 0
             v == Entered(w, h, top)
  <1>1. w \in AWorld /\ AllInRange(w) /\ top \in BOOLEAN
    BY RightIs
  <1>2. top => ~ (Depth(h) > 0)
    OBVIOUS
  <1> HIDE DEF top
  <1>3. /\ Others(w, v, h)
        /\ top => Adds(w, v, h, OpenEntry)
        /\ ~ top => v.changes[h] = Past(w, h) /\ v.index[h] = w.index[h]
    BY <1>1, EnteredIs
  <1> HIDE DEF v
  <1>4. v \in AWorld /\ \A g \in Historied : Theirs(w, g) \subseteq Theirs(v, g)
    BY <1>3, TheirsKept DEF Others
  <1>5. ASSUME NEW g \in Historied, NEW e, Depth(g) > 0 => e, g = h => e
        PROVE  Fine(w, v, g, e)
    <2>1. CASE g # h
      BY <1>3, <1>4, <1>5, <2>1, SameFine DEF Others
    <2>2. CASE g = h /\ ~ top
      BY <1>3, <1>4, <1>5, <2>2, CutFine
    <2>3. CASE g = h /\ top
      <3>1. /\ OpenEntry \in AnEntry /\ (OpenEntry.closed \/ e)
            /\ \A k \in 1..Len(OpenEntry.changes) : OpenEntry.changes[k].obj \in Theirs(v, g)
        <4>1. 1..Len(<<>>) = {}
          OBVIOUS
        <4> QED BY <1>5, <2>3, <4>1, OpenEntryIs
      <3>2. Adds(w, v, g, OpenEntry) /\ ~ (Depth(g) > 0)
        BY <1>2, <1>3, <2>3
      <3> QED BY <1>4, <3>1, <3>2, AddedFine
    <2> QED BY <2>1, <2>2, <2>3
  <1> QED BY <1>4, <1>5 DEF v, top

LEMMA ExitFine ==
    ASSUME Fixed, NEW w, AllRight(w), NEW h \in Historied
    PROVE  LET v == Exited(w, h)
           IN  /\ v \in AWorld
               /\ \A g \in Historied : Len(v.changes[g]) = Len(w.changes[g])
               /\ \A g \in Historied : \A e : g # h /\ (Depth(g) > 0 => e) => Fine(w, v, g, e)
               /\ \A e : Fine(w, v, h, e)
  <1> DEFINE v == Exited(w, h)
  <1>1. w \in AWorld /\ Right(w, h)
    BY DEF AllRight
  <1>2. /\ Others(w, v, h) /\ v.index[h] = w.index[h]
        /\ v.changes[h] = IF Open(w.changes[h]) THEN Shut(w.changes[h]) ELSE w.changes[h]
    BY <1>1, ExitedIs
  <1> HIDE DEF v
  <1>3. v \in AWorld /\ \A g \in Historied : Theirs(w, g) \subseteq Theirs(v, g)
    BY <1>2, TheirsKept DEF Others
  <1>4. ASSUME NEW g \in Historied, NEW e, g # h, Depth(g) > 0 => e
        PROVE  Fine(w, v, g, e)
    BY <1>2, <1>3, <1>4, SameFine DEF Others
  <1>5. ASSUME NEW e
        PROVE  Fine(w, v, h, e)
    <2> DEFINE s == w.changes[h]
               i == w.index[h]
               z == size[h]
               T == Theirs(w, h)
               U == Theirs(v, h)
               d == Depth(h) > 0
    <2>1. Booked(s, i, z, T, d) /\ T \subseteq U
      BY <1>1, <1>3 DEF Right
    <2>2. v.changes[h] = (IF Open(s) THEN Shut(s) ELSE s) /\ v.index[h] = i
      BY <1>2
    <2> HIDE DEF s, i, z, T, U, d
    <2>3. CASE Open(s)
      <3>1. Booked(Shut(s), i, z, U, e) /\ Turned(s, i, Shut(s), i)
        BY <2>1, <2>3, ShutBook
      <3> QED BY <2>2, <2>3, <3>1 DEF Fine, s, i, z, U
    <2>4. CASE ~ Open(s)
      <3>1. i \in Nat /\ i <= Len(s)
        BY <2>1 DEF Booked
      <3>2. Booked(s, i, z, U, e) /\ Turned(s, i, s, i)
        BY <2>1, <2>4, <3>1, MovedBook
      <3> QED BY <2>2, <2>4, <3>2 DEF Fine, s, i, z, U
    <2> QED BY <2>3, <2>4
  <1>6. \A g \in Historied : Len(v.changes[g]) = Len(w.changes[g])
    <2>1. Len(v.changes[h]) = Len(w.changes[h])
      <3>1. CASE Open(w.changes[h])
        <4>1. w.changes[h] \in Seq(AnEntry) /\ w.changes[h] # <<>>
          BY <1>1, <3>1, WorldIs DEF Open
        <4>2. PICK J \in Seq(AnEntry), x \in AnEntry : w.changes[h] = Append(J, x)
          BY <4>1, EmptyOrAppended
        <4> DEFINE y == [changes |-> x.changes, closed |-> TRUE]
        <4>3. y \in AnEntry
          BY EntryIs
        <4>4. v.changes[h] = Append(J, y)
          BY <1>2, <3>1, <4>2, ShutIs
        <4> HIDE DEF y
        <4>5. Len(Append(J, y)) = Len(J) + 1 /\ Len(Append(J, x)) = Len(J) + 1
          BY <4>3, Appended
        <4> QED BY <4>2, <4>4, <4>5
      <3> QED BY <1>2, <3>1
    <2> QED BY <1>2, <2>1 DEF Others
  <1> QED BY <1>3, <1>4, <1>5, <1>6 DEF v

-----------------------------------------------------------------------------
(* The invariant and the refinement.                                       *)

LEMMA BooksRight ==
    ASSUME IInv
    PROVE  Fixed /\ AllRight(World)
  <1>1. ASSUME NEW g \in Historied
        PROVE  Right(World, g)
    <2>1. IndexRight(g) /\ Own(World, g) /\ World \in AWorld
      BY DEF IInv, Typed
    <2>2. World.changes[g] = changes[g] /\ World.index[g] = index[g]
      BY DEF World
    <2>3. /\ changes[g] \in Seq(AnEntry) /\ index[g] \in Nat
          /\ DOMAIN changes[g] = 1..Len(changes[g])
      BY <2>1, <2>2, WorldIs
    <2> QED BY <2>1, <2>2, <2>3 DEF Right, Booked, IndexRight, Own
  <1> QED BY <1>1 DEF IInv, Typed, AllRight

\* What holds after a step, from which the invariant and the refinement follow.
Stepped ==
    /\ Fixed' /\ World' \in AWorld /\ batches' \in Seq(Historied)
    /\ size' = size
    /\ \A g \in Historied : Len(changes'[g]) <= MaxEntries
    /\ \A g \in Historied : Fine(World, World', g, Depth(g)' > 0)

LEMMA Became ==
    ASSUME NEW v \in AWorld, Becomes(v), Fixed
    PROVE  World' = v /\ changes' = v.changes /\ size' = size /\ Fixed'
  <1>1. v = [parent |-> v.parent, value |-> v.value, provider |-> v.provider,
             last |-> v.last, changes |-> v.changes, index |-> v.index]
    BY WorldParts
  <1>2. World' = [parent |-> parent', value |-> value', provider |-> provider',
                  last |-> last', changes |-> changes', index |-> index']
    BY DEF World
  <1>3. World' = v
    BY <1>1, <1>2, Zenon DEF Becomes
  <1> QED BY <1>3 DEF Becomes, fixed, Fixed

LEMMA DepthThen == \A g : Depth(g) = DepthIn(batches, g) /\ Depth(g)' = DepthIn(batches', g)
  BY DEF Depth, DepthIn

\* A step that leaves the batches, and does what is fine to every history.
LEMMA SteppedTo ==
    ASSUME IInv, NEW v \in AWorld, Becomes(v), UNCHANGED batches,
           \A g \in Historied : Fine(World, v, g, Depth(g) > 0),
           \A g \in Historied : Len(v.changes[g]) <= MaxEntries
    PROVE  Stepped
  <1>1. World' = v /\ changes' = v.changes /\ size' = size /\ Fixed'
    BY BooksRight, Became
  <1>2. \A g : Depth(g)' = Depth(g)
    BY DepthThen
  <1>3. batches' \in Seq(Historied)
    BY DEF IInv, Typed
  <1>4. \A g \in Historied : Fine(World, World', g, Depth(g)' > 0)
    BY <1>1, <1>2
  <1>5. \A g \in Historied : Len(changes'[g]) <= MaxEntries
    BY <1>1
  <1> QED BY <1>1, <1>3, <1>4, <1>5 DEF Stepped

LEMMA WriteStep ==
    ASSUME IInv, NEW change \in AChange, Write(change)
    PROVE  Stepped
  <1> DEFINE v == Written(World, change, None)
  <1>1. MayWrite(World, change, None) /\ Within(v) /\ Becomes(v) /\ UNCHANGED batches
    BY DEF Write
  <1>2. v \in AWorld /\ \A g \in Historied : Fine(World, v, g, Depth(g) > 0)
    BY <1>1, BooksRight, WriteFine
  <1>3. \A g \in Historied : Len(v.changes[g]) <= MaxEntries
    BY <1>1 DEF Within
  <1> HIDE DEF v
  <1> QED BY <1>1, <1>2, <1>3, SteppedTo

LEMMA Lengths ==
    ASSUME IInv, NEW g \in Historied
    PROVE  /\ World.changes[g] = changes[g] /\ World.index[g] = index[g]
           /\ Len(changes[g]) \in Nat /\ index[g] \in Nat
           /\ index[g] <= Len(changes[g]) /\ Len(changes[g]) <= MaxEntries
           /\ MaxEntries \in Nat /\ Len(<<>>) <= MaxEntries
  <1>1. World.changes[g] = changes[g] /\ World.index[g] = index[g]
    BY DEF World
  <1>2. Len(changes[g]) \in Nat /\ index[g] \in Nat
    BY <1>1, WorldIs DEF IInv, Typed
  <1>3. index[g] <= Len(changes[g]) /\ Len(changes[g]) <= MaxEntries
    BY DEF IInv, Bounded, IndexRight
  <1>4. MaxEntries \in Nat /\ Len(<<>>) <= MaxEntries
    <2>1. MaxEntries \in Nat
      BY EntriesBound
    <2> QED BY <2>1
  <1> QED BY <1>1, <1>2, <1>3, <1>4

LEMMA GoesStep ==
    ASSUME IInv, NEW h \in Historied, NEW r, Outcome(World, r, h), Goes(h, r)
    PROVE  Stepped
  <1>1. r.ok /\ Becomes(r.world) /\ UNCHANGED batches
    BY DEF Goes
  <1>2. PICK a, m : \/ r = [world |-> a, ok |-> FALSE, meets |-> m]
                    \/ r = [world |-> a, ok |-> TRUE, meets |-> m] /\ Went(World, a, h)
    BY DEF Outcome
  <1>3. r.world = a /\ Went(World, a, h)
    BY <1>1, <1>2
  <1>4. Becomes(a) /\ a \in AWorld
    BY <1>1, <1>3 DEF Went
  <1>5. ASSUME NEW g \in Historied
        PROVE  Fine(World, a, g, Depth(g) > 0) /\ Len(a.changes[g]) <= MaxEntries
    <2>1. CASE a.changes[g] = <<>> /\ a.index[g] = 0
      BY <2>1, BooksRight, FlushedFine, Lengths
    <2>2. CASE /\ g # h /\ a.changes[g] = World.changes[g] /\ a.index[g] = World.index[g]
               /\ Theirs(World, g) \subseteq Theirs(a, g)
      BY <2>2, BooksRight, SameFine, Lengths
    <2>3. CASE g = h
      <3>1. /\ a.changes[h] = World.changes[h] /\ a.index[h] <= Len(World.changes[h])
            /\ Theirs(World, h) \subseteq Theirs(a, h) /\ a.index[h] \in Nat
        BY <1>3, <1>4, WorldIs DEF Went
      <3> DEFINE s == World.changes[h]
                 i == World.index[h]
                 j == a.index[h]
                 z == size[h]
                 T == Theirs(World, h)
                 U == Theirs(a, h)
                 d == Depth(h) > 0
      <3>2. Booked(s, i, z, T, d) /\ T \subseteq U
        BY <3>1, BooksRight DEF AllRight, Right
      <3>3. j \in Nat /\ j <= Len(s) /\ a.changes[h] = s
        BY <3>1
      <3> HIDE DEF s, i, j, z, T, U, d
      <3>4. Booked(s, j, z, U, d) /\ Turned(s, i, s, j)
        BY <3>2, <3>3, MovedBook
      <3>5. Fine(World, a, h, Depth(h) > 0)
        BY <3>3, <3>4 DEF Fine, s, i, j, z, U, d
      <3>6. Len(a.changes[h]) <= MaxEntries
        BY <3>3, Lengths DEF s
      <3> QED BY <2>3, <3>5, <3>6
    <2> QED BY <1>3, <2>1, <2>2, <2>3 DEF Went
  <1> QED BY <1>1, <1>4, <1>5, SteppedTo

LEMMA EnterStep ==
    ASSUME IInv, NEW o \in Objects, EnterBatch(o)
    PROVE  Stepped
  <1> DEFINE h == HistoryOf(World, o)
             v == Entered(World, h, Depth(h) = 0)
             b == Append(batches, h)
  <1>1. h \in Historied /\ Within(v) /\ Becomes(v) /\ batches' = b
    BY DEF EnterBatch, HasHistory, HistoryOf
  <1>2. /\ v \in AWorld
        /\ \A g \in Historied : \A e : (Depth(g) > 0 => e) /\ (g = h => e) =>
             Fine(World, v, g, e)
    BY <1>1, BooksRight, EnterFine
  <1>3. batches \in Seq(Historied)
    BY DEF IInv, Typed
  <1>4. b \in Seq(Historied) /\ DepthIn(b, h) > 0
        /\ \A g : DepthIn(batches, g) > 0 => DepthIn(b, g) > 0
    BY <1>1, <1>3, DepthEntered
  <1>5. \A g \in Historied : Len(v.changes[g]) <= MaxEntries
    BY <1>1 DEF Within
  <1> HIDE DEF v, b, h
  <1>6. World' = v /\ changes' = v.changes /\ size' = size /\ Fixed'
    BY <1>1, <1>2, BooksRight, Became
  <1>7. ASSUME NEW g \in Historied
        PROVE  Fine(World, World', g, Depth(g)' > 0)
    <2> DEFINE e == Depth(g)' > 0
    <2>1. (Depth(g) > 0 => e) /\ (g = h => e)
      BY <1>1, <1>4, DepthThen
    <2> HIDE DEF e
    <2>2. Fine(World, v, g, e)
      BY <1>2, <2>1
    <2> QED BY <1>6, <2>2 DEF e
  <1>8. batches' \in Seq(Historied) /\ World' \in AWorld
    BY <1>1, <1>2, <1>4, <1>6
  <1>9. \A g \in Historied : Len(changes'[g]) <= MaxEntries
    BY <1>5, <1>6
  <1> QED BY <1>6, <1>7, <1>8, <1>9 DEF Stepped

LEMMA ExitStep ==
    ASSUME IInv, ExitBatch
    PROVE  Stepped
  <1> DEFINE h == Last(batches)
             v == IF Depth(h) = 1 THEN Exited(World, h) ELSE World
             b == Front(batches)
  <1>1. batches # <<>> /\ Becomes(v) /\ batches' = b
    BY DEF ExitBatch
  <1>2. batches \in Seq(Historied) /\ Fixed /\ AllRight(World)
    BY BooksRight DEF IInv, Typed
  <1>3. /\ b \in Seq(Historied) /\ h \in Historied
        /\ \A g : g # h /\ DepthIn(batches, g) > 0 => DepthIn(b, g) > 0
        /\ DepthIn(batches, h) # 1 => DepthIn(b, h) > 0
    BY <1>1, <1>2, DepthExited
  <1> HIDE DEF h, b
  <1>4. ASSUME NEW g \in Historied
        PROVE  Fine(World, v, g, Depth(g)' > 0)
    <2> DEFINE e == Depth(g)' > 0
    <2>1. (g # h /\ Depth(g) > 0 => e) /\ (Depth(h) # 1 /\ g = h => e)
      BY <1>1, <1>3, DepthThen
    <2> HIDE DEF e
    <2>2. Fine(World, v, g, e)
      <3>1. CASE Depth(h) = 1
        <4>1. Fine(World, Exited(World, h), g, e)
          BY <1>2, <1>3, <2>1, ExitFine
        <4> QED BY <3>1, <4>1
      <3>2. CASE Depth(h) # 1
        <4>1. Depth(g) > 0 => e
          BY <2>1, <3>2
        <4>2. Fine(World, World, g, e)
          BY <1>2, <4>1, SameFine
        <4> QED BY <3>2, <4>2
      <3> QED BY <3>1, <3>2
    <2> QED BY <2>2 DEF e
  <1>5. v \in AWorld /\ \A g \in Historied : Len(v.changes[g]) = Len(World.changes[g])
    <2>1. /\ Exited(World, h) \in AWorld
          /\ \A g \in Historied : Len(Exited(World, h).changes[g]) = Len(World.changes[g])
      BY <1>2, <1>3, ExitFine
    <2>2. World \in AWorld
      BY <1>2 DEF AllRight
    <2> QED BY <2>1, <2>2
  <1> HIDE DEF v
  <1>6. World' = v /\ changes' = v.changes /\ size' = size /\ Fixed'
    BY <1>1, <1>2, <1>5, Became
  <1>7. \A g \in Historied : Len(changes'[g]) <= MaxEntries
    BY <1>5, <1>6, Lengths
  <1> QED BY <1>1, <1>3, <1>4, <1>5, <1>6, <1>7 DEF Stepped

LEMMA FlushStep ==
    ASSUME IInv, NEW h \in Historied, Flush(h)
    PROVE  Stepped
  <1> DEFINE v == Flushed(World, {h})
  <1>1. Becomes(v) /\ UNCHANGED batches
    BY DEF Flush
  <1>2. World \in AWorld
    BY DEF IInv, Typed
  <1>3. /\ v \in AWorld /\ v.provider = World.provider
        /\ \A g \in Historied :
             IF g \in {h} THEN v.changes[g] = <<>> /\ v.index[g] = 0
             ELSE v.changes[g] = World.changes[g] /\ v.index[g] = World.index[g]
    BY <1>2, FlushedIs
  <1> HIDE DEF v
  <1>4. \A g \in Historied : Theirs(v, g) = Theirs(World, g)
    BY <1>3, TheirsKept
  <1>5. \A g \in Historied : Fine(World, v, g, Depth(g) > 0)
    BY <1>3, <1>4, BooksRight, SameFine, FlushedFine
  <1>6. \A g \in Historied : Len(v.changes[g]) <= MaxEntries
    BY <1>3, Lengths
  <1> QED BY <1>1, <1>3, <1>5, <1>6, SteppedTo

LEMMA FlushRedoStep ==
    ASSUME IInv, NEW h \in Historied, FlushRedo(h)
    PROVE  Stepped
  <1> DEFINE v == RedoFlushed(World, h)
  <1>1. Becomes(v) /\ UNCHANGED batches
    BY DEF FlushRedo
  <1>2. World \in AWorld /\ AllInRange(World)
    BY BooksRight, RightIs
  <1>3. Others(World, v, h) /\ v.changes[h] = Past(World, h) /\ v.index[h] = World.index[h]
    BY <1>2, RedoFlushedIs
  <1> HIDE DEF v
  <1>4. \A g \in Historied : Theirs(v, g) = Theirs(World, g)
    BY <1>3, TheirsKept DEF Others
  <1>5. \A g \in Historied : Fine(World, v, g, Depth(g) > 0)
    BY <1>3, <1>4, BooksRight, SameFine, CutFine DEF Others
  <1>6. \A g \in Historied : Len(v.changes[g]) <= MaxEntries
    <2>1. Len(v.changes[h]) = World.index[h]
      BY <1>2, <1>3, PastIs
    <2>2. Len(v.changes[h]) <= MaxEntries
      BY <2>1, Lengths
    <2> QED BY <1>3, <2>2, Lengths DEF Others
  <1> QED BY <1>1, <1>3, <1>5, <1>6, SteppedTo DEF Others

\* Every step leaves every history right.
LEMMA NextStep == IInv /\ [Next]_vars => Stepped
  <1> SUFFICES ASSUME IInv, [Next]_vars
               PROVE  Stepped
    OBVIOUS
  <1>1. World \in AWorld /\ \A h \in Historied : /\ World.index[h] <= Len(World.changes[h])
                                                 /\ Own(World, h)
    BY Lengths DEF IInv, Typed
  <1>2. ASSUME NEW o \in Holders, NEW c \in Movable, Put(o, c)
        PROVE  Stepped
    <2>1. PutOf(o, c) \in AChange
      BY DEF PutOf, AChange, Objects
    <2>2. Write(PutOf(o, c))
      BY <1>2, Zenon DEF Put
    <2> QED BY <2>1, <2>2, WriteStep
  <1>3. ASSUME NEW o \in Holders, NEW c \in Movable, Take(o, c)
        PROVE  Stepped
    <2>1. TakeOf(o, c) \in AChange
      BY DEF TakeOf, AChange, Objects
    <2> QED BY <1>3, <2>1, WriteStep DEF Take
  <1>4. ASSUME NEW o \in Valued, SetValue(o)
        PROVE  Stepped
    <2>1. o \in Objects /\ World.value = value
      BY DEF Objects, World
    <2>2. value[o] \in {0, 1} /\ 1 - value[o] \in {0, 1}
      <3>1. value \in [Objects -> {0, 1}]
        BY <1>1, <2>1, WorldParts
      <3> QED BY <2>1, <3>1
    <2>3. SetOf(o, value[o], 1 - value[o]) \in AChange
      BY <2>1, <2>2 DEF SetOf, AChange
    <2> QED BY <1>4, <2>3, WriteStep DEF SetValue
  <1>5. ASSUME NEW o \in Objects, EnterBatch(o)
        PROVE  Stepped
    BY <1>5, EnterStep
  <1>6. CASE ExitBatch
    BY <1>6, ExitStep
  <1>7. ASSUME NEW h \in Historied, Undo(h)
        PROVE  Stepped
    BY <1>1, <1>7, UndoneIs, GoesStep DEF Undo
  <1>8. ASSUME NEW h \in Historied, Redo(h)
        PROVE  Stepped
    BY <1>1, <1>8, RedoneIs, GoesStep DEF Redo
  <1>9. ASSUME NEW h \in Historied, NEW i \in 0..MaxEntries, SetIndex(h, i)
        PROVE  Stepped
    <2>1. i \in Nat
      BY EntriesBound
    <2> QED BY <1>1, <1>9, <2>1, IndexSetIs, GoesStep DEF SetIndex
  <1>10. ASSUME NEW h \in Historied, Flush(h)
         PROVE  Stepped
    BY <1>10, FlushStep
  <1>11. ASSUME NEW h \in Historied, FlushRedo(h)
         PROVE  Stepped
    BY <1>11, FlushRedoStep
  <1>12. CASE UNCHANGED vars
    <2>1. Becomes(World) /\ UNCHANGED batches
      BY <1>12 DEF vars, fixed, Becomes, World
    <2>2. \A g \in Historied : Fine(World, World, g, Depth(g) > 0)
      BY BooksRight, SameFine
    <2> QED BY <1>1, <2>1, <2>2, Lengths, SteppedTo
  <1> QED BY <1>2, <1>3, <1>4, <1>5, <1>6, <1>7, <1>8, <1>9, <1>10, <1>11, <1>12 DEF Next

LEMMA Initially == Init => IInv
  <1> SUFFICES ASSUME Init
               PROVE  IInv
    OBVIOUS
  <1>1. Fixed
    BY DEF Init, Fixed
  <1>2. /\ parent = [o \in Objects |-> None] /\ value = [o \in Objects |-> 0]
        /\ provider = [o \in Objects |-> IF o \in Historied THEN o ELSE None]
        /\ last = [o \in Objects |-> None]
        /\ changes = [h \in Historied |-> <<>>] /\ index = [h \in Historied |-> 0]
        /\ batches = <<>>
    BY DEF Init
  <1>3. <<>> \in Seq(AnEntry) /\ <<>> \in Seq(Historied)
    BY EmptySeq
  <1>4. World \in AWorld
    <2>1. /\ parent \in [Objects -> Objects \cup {None}] /\ value \in [Objects -> {0, 1}]
          /\ provider \in [Objects -> Objects \cup {None}]
          /\ last \in [Objects -> Historied \cup {None}]
          /\ changes \in [Historied -> Seq(AnEntry)] /\ index \in [Historied -> Nat]
      BY <1>2, <1>3, NoObject
    <2> QED BY <2>1 DEF World, AWorld
  <1>5. ASSUME NEW h \in Historied
        PROVE  Len(changes[h]) <= MaxEntries /\ IndexRight(h) /\ Own(World, h)
    <2>1. changes[h] = <<>> /\ index[h] = 0 /\ World.changes[h] = <<>>
      BY <1>2 DEF World
    <2>2. Len(<<>>) = 0 /\ 1..0 = {} /\ DOMAIN <<>> = {}
      OBVIOUS
    <2>3. size[h] # None => 0 <= size[h]
      BY <1>1, SizeIs
    <2> QED BY <2>1, <2>2, <2>3, EntriesBound DEF IndexRight, Own
  <1> QED BY <1>1, <1>2, <1>3, <1>4, <1>5 DEF IInv, Typed, Bounded

LEMMA Inductive == IInv /\ [Next]_vars => IInv'
  <1> SUFFICES ASSUME IInv, [Next]_vars
               PROVE  IInv'
    OBVIOUS
  <1>1. Stepped
    BY NextStep
  <1>2. Typed'
    BY <1>1 DEF Stepped, Typed
  <1>3. Bounded'
    BY <1>1 DEF Stepped, Bounded
  <1>4. ASSUME NEW g \in Historied
        PROVE  IndexRight(g)' /\ Own(World, g)'
    <2>1. /\ World'.changes = changes' /\ World'.index = index' /\ World' \in AWorld
          /\ size' = size
      BY <1>1 DEF Stepped, World
    <2> DEFINE s == changes'[g]
               i == index'[g]
               d == Depth(g)' > 0
    <2>2. DOMAIN s = 1..Len(s)
      BY <2>1, WorldIs
    <2>3. Booked(s, i, size[g], Theirs(World', g), d)
      <3>1. Fine(World, World', g, Depth(g)' > 0)
        BY <1>1 DEF Stepped
      <3> QED BY <2>1, <3>1 DEF Fine
    <2>4. /\ i <= Len(s) /\ (size[g] # None => Len(s) <= size[g])
          /\ \A n \in DOMAIN s : ~ s[n].closed => n = Len(s) /\ d
          /\ \A n \in 1..Len(s) : \A k \in 1..Len(s[n].changes) :
               s[n].changes[k].obj \in Theirs(World', g)
      BY <2>2, <2>3 DEF Booked
    <2> QED BY <2>1, <2>4 DEF IndexRight, Own
  <1> QED BY <1>2, <1>3, <1>4 DEF IInv

\* The inductive invariant: worlds, histories and batches are typed and bounded,
\* every index is right, and a history has only changes of objects whose history
\* it is, or whose history cannot be found as their providers go round
\* (Application.__write, __read_history, HistoryObject.__push_change__).
THEOREM Invariance == Spec => []IInv
  BY Initially, Inductive, PTL DEF Spec

\* Types.
THEOREM AlwaysTypeOK == Spec => []TypeOK
  <1>1. IInv => TypeOK
    <2> SUFFICES ASSUME IInv
                 PROVE  TypeOK
      OBVIOUS
    <2>1. Fixed /\ World \in AWorld /\ batches \in Seq(Historied)
      BY DEF IInv, Typed
    <2>2. /\ World.parent = parent /\ World.value = value /\ World.provider = provider
          /\ World.last = last /\ World.changes = changes /\ World.index = index
      BY DEF World
    <2>3. /\ changes \in [Historied -> Seq(AnEntry)] /\ index \in [Historied -> Nat]
          /\ parent \in [Objects -> Objects \cup {None}] /\ value \in [Objects -> {0, 1}]
          /\ provider \in [Objects -> Objects \cup {None}]
          /\ last \in [Objects -> Historied \cup {None}]
      BY <2>1, <2>2, WorldParts
    <2>4. \A h \in Historied : index[h] \in 0..MaxEntries
      BY Lengths
    <2>5. index \in [Historied -> 0..MaxEntries]
      BY <2>3, <2>4
    <2>6. \A h \in Historied : \A n \in DOMAIN changes[h] : changes[h][n].closed \in BOOLEAN
      <3> TAKE h \in Historied
      <3>1. DOMAIN changes[h] = 1..Len(changes[h]) /\ \A n \in 1..Len(changes[h]) : changes[h][n] \in AnEntry
        BY <2>1, <2>2, WorldIs
      <3> QED BY <3>1 DEF AnEntry
    <2>7. adopting \subseteq Holders /\ habits \subseteq Habits
      <3>1. /\ \A a \in Adoptings : a \subseteq Holders
            /\ \A p \in Programs : p \subseteq Habits
        BY HistoryAssumption, Zenon DEF Habits
      <3>2. adopting \in Adoptings /\ habits \in Programs
        BY <2>1 DEF Fixed
      <3>3. adopting \subseteq Holders
        BY <3>1, <3>2, Zenon
      <3>4. habits \subseteq Habits
        BY <3>1, <3>2, Zenon
      <3> QED BY <3>3, <3>4, Zenon
    <2> QED BY <2>1, <2>3, <2>5, <2>6, <2>7 DEF TypeOK, Fixed
  <1> QED BY <1>1, Invariance, PTL

\* The index of a history is one of its entries, it keeps no more of them than its
\* size allows, and only the last one may be open, while a batch is
\* (HistoryObject.__enter_batch__, __push_change__, __exit_batch__).
THEOREM AlwaysIndexRight == Spec => [](\A h \in Historied : IndexRight(h))
  <1>1. IInv => \A h \in Historied : IndexRight(h)
    BY DEF IInv
  <1> QED BY <1>1, Invariance, PTL

-----------------------------------------------------------------------------
(* The refinement of UndoStack.                                            *)

past   == [h \in Historied |-> SubSeq(changes[h], 1, index[h])]
future == [h \in Historied |-> SubSeq(changes[h], index[h] + 1, Len(changes[h]))]

LEMMA TheirEnds == \A s : Stacks!Front(s) = Front(s) /\ Stacks!Last(s) = Last(s)
  BY DEF Front, Last, Stacks!Front, Stacks!Last

LEMMA StackStep == IInv /\ [Next]_vars => [Stacks!Next]_<<past, future>>
  <1> SUFFICES ASSUME IInv, [Next]_vars
               PROVE  Stacks!Next
    OBVIOUS
  <1>1. ASSUME NEW g \in Historied
        PROVE  Stacked(past[g], future[g], past'[g], future'[g])
    <2>1. Turned(World.changes[g], World.index[g], World'.changes[g], World'.index[g])
      BY NextStep DEF Stepped, Fine
    <2>2. /\ World.changes = changes /\ World.index = index
          /\ World'.changes = changes' /\ World'.index = index'
      BY DEF World
    <2>3. /\ past[g] = Undoable(changes[g], index[g])
          /\ future[g] = Redoable(changes[g], index[g])
          /\ past'[g] = Undoable(changes'[g], index'[g])
          /\ future'[g] = Redoable(changes'[g], index'[g])
      BY DEF past, future, Undoable, Redoable
    <2> QED BY <2>1, <2>2, <2>3 DEF Turned
  <1>2. ASSUME NEW g \in Historied
        PROVE  \/ Stacks!Do(g) \/ Stacks!Extend(g) \/ Stacks!Close(g)
               \/ Stacks!Move(g) \/ Stacks!ForgetFuture(g) \/ Stacks!ForgetAll(g)
    <2> DEFINE p  == past[g]
               f  == future[g]
               pp == past'[g]
               ff == future'[g]
    <2>1. /\ pp # <<>>
          /\ \/ Front(pp) = p
             \/ p # <<>> /\ pp = Append(Tail(p), Last(pp))
          /\ ff = <<>>
          => Stacks!Do(g)
      BY TheirEnds DEF Stacks!Do, past, future
    <2>2. /\ p # <<>> /\ ~ Last(p).closed /\ pp # <<>>
          /\ Front(pp) = Front(p) /\ Front(Last(pp).changes) = Last(p).changes
          /\ ff = <<>>
          => Stacks!Extend(g)
      BY TheirEnds DEF Stacks!Extend, past, future
    <2>3. /\ p \o f # <<>> /\ ~ Last(p \o f).closed /\ Len(pp) = Len(p)
          /\ pp \o ff = Append(Front(p \o f), [Last(p \o f) EXCEPT !.closed = TRUE])
          => Stacks!Close(g)
      BY TheirEnds DEF Stacks!Close, past, future
    <2>4. pp \o ff = p \o f => Stacks!Move(g)
      BY DEF Stacks!Move, past, future
    <2>5. pp = p /\ ff = <<>> => Stacks!ForgetFuture(g)
      BY DEF Stacks!ForgetFuture, past, future
    <2>6. pp = <<>> /\ ff = <<>> => Stacks!ForgetAll(g)
      BY DEF Stacks!ForgetAll, past, future
    <2>7. Stacked(p, f, pp, ff)
      BY <1>1
    <2> HIDE DEF p, f, pp, ff
    <2> QED BY <2>1, <2>2, <2>3, <2>4, <2>5, <2>6, <2>7 DEF Stacked
  <1> QED BY <1>2 DEF Stacks!Next

\* Each history is a stack of what can be undone and redone, for any number of
\* histories, objects, entries and batches (_history.py).
THEOREM HistoriesAlwaysStacks == Spec => HistoriesAreStacks
  <1>1. Init => Stacks!Init
    <2> SUFFICES ASSUME Init
                 PROVE  Stacks!Init
      OBVIOUS
    <2>1. \A h \in Historied : changes[h] = <<>> /\ index[h] = 0
      BY DEF Init
    <2>2. SubSeq(<<>>, 1, 0) = <<>> /\ SubSeq(<<>>, 0 + 1, Len(<<>>)) = <<>>
      OBVIOUS
    <2> QED BY <2>1, <2>2 DEF Stacks!Init
  <1> QED BY <1>1, StackStep, Invariance, PTL DEF Spec, HistoriesAreStacks, Stacks!Spec, past, future

-----------------------------------------------------------------------------
(* Levels: if objects hold each other in one direction only, every history *)
(* is found, and no object is above itself.                                *)

LEMMA LevelIs == Level \in [Objects -> Nat]
  BY HistoryAssumption DEF Objects

LEMMA FoundIs ==
    \A w, x : /\ HistoryFound(w, x) <=> HistoryOf(w, x) \in Ends
              /\ HistoryOf(w, x) \in Ends => HistoryOf(w, x) \in Historied \cup {None}
  BY DEF HistoryFound, HistoryOf, Ends

\* Who passes a history on is above who gets it.
Graded(w) ==
    \A c \in Objects :
      c \notin Historied /\ w.provider[c] # None => Level[w.provider[c]] < Level[c]

LEMMA AllFound ==
    ASSUME NEW w \in AWorld, Graded(w)
    PROVE  \A x \in Objects \cup {None} : HistoryFound(w, x)
  <1> DEFINE S == {n \in Nat : \A x \in Objects : Level[x] < n => HistoryFound(w, x)}
  <1>1. \A x \in Ends : HistoryFound(w, x)
    BY EndsAtOnce, FoundIs
  <1>2. 0 \in S
    BY LevelIs
  <1>3. ASSUME NEW n \in Nat, n \in S
        PROVE  n + 1 \in S
    <2> SUFFICES ASSUME NEW x \in Objects, Level[x] < n + 1, x \notin Ends
                 PROVE  HistoryFound(w, x)
      BY <1>1
    <2>1. Onward(w, x) = w.provider[x] /\ w.provider[x] \in Objects \cup {None}
      BY OnwardIs DEF Onward, Ends
    <2>2. CASE w.provider[x] = None
      BY <1>1, <2>1, <2>2, SameHistory DEF Ends
    <2>3. CASE w.provider[x] # None
      <3> DEFINE p == w.provider[x]
      <3>1. p \in Objects /\ Level[p] < Level[x]
        BY <2>1, <2>3 DEF Graded, Ends
      <3> HIDE DEF p
      <3>2. Level[p] < n
        BY <3>1, LevelIs
      <3>3. HistoryFound(w, p)
        BY <1>3, <3>1, <3>2
      <3> QED BY <2>1, <3>3, SameHistory DEF p
    <2> QED BY <2>2, <2>3
  <1> HIDE DEF S
  <1>4. \A n \in Nat : n \in S
    BY <1>2, <1>3, Induct
  <1>5. ASSUME NEW x \in Objects
        PROVE  HistoryFound(w, x)
    <2>1. Level[x] \in Nat /\ Level[x] + 1 \in Nat /\ Level[x] < Level[x] + 1
      BY LevelIs
    <2> QED BY <1>4, <2>1 DEF S
  <1> QED BY <1>1, <1>5 DEF Ends

LEMMA TheirsFound ==
    ASSUME NEW w \in AWorld, Graded(w), NEW h
    PROVE  \A x : x \in Theirs(w, h) <=> x \in Objects /\ HistoryOf(w, x) = h
  BY AllFound DEF Theirs, Belongs

\* The definition of above in Above.
AboveStep(w, o, f, n) ==
    IF n = 0 THEN {o} ELSE f[n - 1] \cup {w.parent[p] : p \in f[n - 1] \ {None}}

LEMMA GoingUp ==
    ASSUME NEW w, NEW o, NEW N \in Nat
    PROVE  \E f : f = [m \in 0..N |-> AboveStep(w, o, f, m)]
  <1> DEFINE S == {n \in Nat : \E f : f = [m \in 0..n |-> AboveStep(w, o, f, m)]}
  <1>1. 0 \in S
    <2> DEFINE f == [m \in 0..0 |-> {o}]
    <2>1. \A m \in 0..0 : AboveStep(w, o, f, m) = {o}
      BY ZeroOnly DEF AboveStep
    <2>2. f = [m \in 0..0 |-> AboveStep(w, o, f, m)]
      BY <2>1
    <2> QED BY <2>2
  <1>2. ASSUME NEW n \in Nat, n \in S
        PROVE  n + 1 \in S
    <2>1. PICK f : f = [m \in 0..n |-> AboveStep(w, o, f, m)]
      BY <1>2
    <2> DEFINE g == [m \in 0..(n + 1) |-> IF m = n + 1 THEN AboveStep(w, o, f, n + 1) ELSE f[m]]
    <2>2. \A m \in 0..n : g[m] = f[m] /\ f[m] = AboveStep(w, o, f, m)
      BY <2>1, OneFurther
    <2>3. g[n + 1] = AboveStep(w, o, f, n + 1) /\ g = [m \in 0..(n + 1) |-> g[m]]
      BY OneFurther
    <2> HIDE DEF g
    <2>4. \A m \in 0..(n + 1) : AboveStep(w, o, g, m) = AboveStep(w, o, f, m)
      BY <2>2, Below DEF AboveStep
    <2>5. \A m \in 0..(n + 1) : g[m] = AboveStep(w, o, g, m)
      BY <2>2, <2>3, <2>4, OneFurther
    <2>6. g = [m \in 0..(n + 1) |-> AboveStep(w, o, g, m)]
      BY <2>3, <2>5
    <2> QED BY <2>6
  <1> HIDE DEF S
  <1>3. N \in S
    BY <1>1, <1>2, Induct
  <1> QED BY <1>3 DEF S

\* Holders are above what they hold.
Held(w) == \A c \in Objects : w.parent[c] # None => Level[w.parent[c]] < Level[c]

LEMMA AboveIs ==
    ASSUME NEW w \in AWorld, Held(w), NEW o \in Objects
    PROVE  \A x \in Above(w, o) : x \in Objects /\ Level[x] <= Level[o]
  <1> DEFINE above == CHOOSE f : f = [m \in 0..Steps |-> AboveStep(w, o, f, m)]
             R == {x \in Objects : Level[x] <= Level[o]} \cup {None}
             S == {n \in Nat : n <= Steps => above[n] \subseteq R}
  <1>1. above = [m \in 0..Steps |-> AboveStep(w, o, above, m)]
    BY GoingUp, StepsCount
  <1>2. Above(w, o) = above[Steps] \ {None}
    BY DEF Above, AboveStep, Steps
  <1> HIDE DEF above
  <1>3. \A m \in 0..Steps : above[m] = AboveStep(w, o, above, m)
    BY <1>1
  <1>4. \A x \in Objects : w.parent[x] \in Objects \cup {None} /\ Level[x] \in Nat
    BY LevelIs, WorldParts
  <1>5. 0 \in S
    <2>1. above[0] = {o}
      BY <1>3, ZeroOnly, StepsCount DEF AboveStep
    <2>2. o \in R
      BY <1>4
    <2> QED BY <2>1, <2>2
  <1>6. ASSUME NEW n \in Nat, n \in S
        PROVE  n + 1 \in S
    <2> SUFFICES ASSUME n + 1 <= Steps
                 PROVE  above[n + 1] \subseteq R
      OBVIOUS
    <2>1. above[n + 1] = above[n] \cup {w.parent[p] : p \in above[n] \ {None}}
      BY <1>3, OneMore, StepsCount DEF AboveStep
    <2>2. above[n] \subseteq R
      BY <1>6, OneMore, StepsCount
    <2>3. ASSUME NEW p \in R \ {None}
          PROVE  w.parent[p] \in R
      <3>1. p \in Objects /\ Level[p] <= Level[o]
        OBVIOUS
      <3>2. w.parent[p] # None => w.parent[p] \in Objects /\ Level[w.parent[p]] < Level[p]
        BY <1>4, <3>1 DEF Held
      <3>3. w.parent[p] # None => w.parent[p] \in Objects /\ Level[w.parent[p]] <= Level[o]
        BY <1>4, <3>1, <3>2
      <3> QED BY <3>3
    <2> HIDE DEF R
    <2> QED BY <2>1, <2>2, <2>3
  <1> HIDE DEF S
  <1>7. Steps \in S
    BY <1>5, <1>6, Induct, StepsCount
  <1>8. above[Steps] \subseteq R
    BY <1>7, StepsCount DEF S
  <1> QED BY <1>2, <1>8


-----------------------------------------------------------------------------
(* What changes do to the parents and the values, whatever the rest of the *)
(* world.                                                                  *)

Cells == {"parent", "value"} \X Objects

Cell(x) == IF x.type = "set" THEN <<"value", x.obj>> ELSE <<"parent", x.child>>

Before(x) == CASE x.type = "put"  -> None
               [] x.type = "take" -> x.obj
               [] x.type = "set"  -> x.old

After(x) == CASE x.type = "put"  -> x.obj
              [] x.type = "take" -> None
              [] x.type = "set"  -> x.new

\* The cells of a world.
Now(w) == [z \in Cells |-> IF z[1] = "value" THEN w.value[z[2]] ELSE w.parent[z[2]]]

IsState(s) == s = [z \in Cells |-> s[z]]

\* A change that finds what it starts from.
Leap(s, x, t) ==
    IsState(s) /\ s[Cell(x)] = Before(x) /\ t = [s EXCEPT ![Cell(x)] = After(x)]

\* Changes in turn.
Leads(s, q, t) ==
    \E f : /\ f[0] = s /\ f[Len(q)] = t
           /\ \A k \in 1..Len(q) : Leap(f[k - 1], q[k], f[k])

LEMMA CellIs ==
    ASSUME NEW x \in AChange
    PROVE  /\ Cell(x) \in Cells /\ x.obj \in Objects /\ x.type \in {"put", "take", "set"}
           /\ x.type # "set" => x.child \in Objects
           /\ Reverted(x) \in AChange /\ Reverted(x).obj = x.obj
           /\ Reverted(x).type = "set" <=> x.type = "set"
           /\ x.type # "set" => Reverted(x).child = x.child
           /\ Cell(Reverted(x)) = Cell(x)
           /\ Before(Reverted(x)) = After(x) /\ After(Reverted(x)) = Before(x)
  <1>1. CASE x.type = "put"
    BY <1>1 DEF AChange, Cell, Cells, Before, After, Reverted, TakeOf
  <1>2. CASE x.type = "take"
    BY <1>2 DEF AChange, Cell, Cells, Before, After, Reverted, PutOf
  <1>3. CASE x.type = "set"
    BY <1>3 DEF AChange, Cell, Cells, Before, After, Reverted, SetOf
  <1> QED BY <1>1, <1>2, <1>3 DEF AChange

LEMMA LeapBack ==
    ASSUME NEW s, NEW x \in AChange, NEW t, Leap(s, x, t)
    PROVE  Leap(t, Reverted(x), s)
  <1> DEFINE c == Cell(x)
             b == Before(x)
             a == After(x)
  <1>1. c \in Cells /\ s = [z \in Cells |-> s[z]] /\ s[c] = b /\ t = [s EXCEPT ![c] = a]
    BY CellIs DEF Leap, IsState
  <1> HIDE DEF a, b, c
  <1>2. t = [z \in Cells |-> t[z]] /\ t[c] = a /\ s = [t EXCEPT ![c] = b]
    BY <1>1
  <1> QED BY <1>2, CellIs DEF Leap, IsState, a, b, c

\* A cell that no change is about makes no difference.
LEMMA LeapAside ==
    ASSUME NEW s, NEW x \in AChange, NEW t, Leap(s, x, t), NEW z \in Cells, z # Cell(x), NEW v
    PROVE  Leap([s EXCEPT ![z] = v], x, [t EXCEPT ![z] = v])
  <1> DEFINE c == Cell(x)
             b == Before(x)
             a == After(x)
  <1>1. /\ c \in Cells /\ s = [y \in Cells |-> s[y]] /\ s[c] = b /\ t = [s EXCEPT ![c] = a]
        /\ z # c
    BY CellIs DEF Leap, IsState
  <1> HIDE DEF a, b, c
  <1> DEFINE sv == [s EXCEPT ![z] = v]
  <1>2. /\ sv = [y \in Cells |-> sv[y]] /\ sv[c] = b
        /\ [t EXCEPT ![z] = v] = [sv EXCEPT ![c] = a]
    BY <1>1
  <1> HIDE DEF sv
  <1> QED BY <1>2 DEF Leap, IsState, a, b, c, sv

LEMMA LeadsNowhere == \A s : Leads(s, <<>>, s)
  <1> TAKE s
  <1> DEFINE f == [k \in {0} |-> s]
  <1>1. f[0] = s /\ f[Len(<<>>)] = s /\ \A k \in 1..Len(<<>>) : Leap(f[k - 1], <<>>[k], f[k])
    OBVIOUS
  <1> HIDE DEF f
  <1> QED BY <1>1, Zenon DEF Leads

LEMMA LeadsOn ==
    ASSUME NEW s, NEW q \in Seq(AChange), NEW t, Leads(s, q, t),
           NEW x \in AChange, NEW u, Leap(t, x, u)
    PROVE  Leads(s, Append(q, x), u)
  <1>1. PICK f : /\ f[0] = s /\ f[Len(q)] = t
                 /\ \A k \in 1..Len(q) : Leap(f[k - 1], q[k], f[k])
    BY DEF Leads
  <1> DEFINE N == Len(q)
             r == Append(q, x)
             g == [k \in 0..(N + 1) |-> IF k = N + 1 THEN u ELSE f[k]]
  <1>2. /\ N \in Nat /\ Len(r) = N + 1 /\ r[N + 1] = x /\ \A k \in 1..N : r[k] = q[k]
    BY Appended
  <1>3. g[0] = s /\ g[N + 1] = u /\ g[N] = t /\ \A k \in 0..N : g[k] = f[k]
    BY <1>1, <1>2
  <1> HIDE DEF r, g
  <1>4. ASSUME NEW k \in 1..(N + 1)
        PROVE  Leap(g[k - 1], r[k], g[k])
    <2>1. CASE k = N + 1
      BY <1>2, <1>3, <2>1
    <2>2. CASE k # N + 1
      <3>1. k \in 1..N /\ k \in 0..N /\ k - 1 \in 0..N
        BY <1>2, <2>2
      <3> QED BY <1>1, <1>2, <1>3, <3>1
    <2> QED BY <2>1, <2>2
  <1>5. g[0] = s /\ g[Len(r)] = u /\ \A k \in 1..Len(r) : Leap(g[k - 1], r[k], g[k])
    BY <1>2, <1>3, <1>4
  <1> QED BY <1>5, Zenon DEF Leads, r

LEMMA LeadsFurther ==
    ASSUME NEW s, NEW p \in Seq(AChange), NEW t, Leads(s, p, t),
           NEW q \in Seq(AChange), NEW u, Leads(t, q, u)
    PROVE  Leads(s, p \o q, u)
  <1>1. PICK f : /\ f[0] = s /\ f[Len(p)] = t
                 /\ \A k \in 1..Len(p) : Leap(f[k - 1], p[k], f[k])
    BY DEF Leads
  <1>2. PICK e : /\ e[0] = t /\ e[Len(q)] = u
                 /\ \A k \in 1..Len(q) : Leap(e[k - 1], q[k], e[k])
    BY DEF Leads
  <1> DEFINE M == Len(p)
             N == Len(q)
             r == p \o q
             g == [k \in 0..(M + N) |-> IF k <= M THEN f[k] ELSE e[k - M]]
  <1>3. /\ M \in Nat /\ N \in Nat /\ Len(r) = M + N
        /\ \A k \in 1..(M + N) : r[k] = IF k <= M THEN p[k] ELSE q[k - M]
    BY ConcatProperties
  <1>4. /\ \A k \in 0..M : g[k] = f[k]
        /\ \A k \in 0..N : g[k + M] = e[k]
    <2>1. \A k \in 0..N : k + M \in 0..(M + N) /\ (k + M) - M = k /\ (k + M <= M => k = 0)
      BY <1>3
    <2>2. \A k \in 0..M : k \in 0..(M + N) /\ k <= M /\ 0 + M = M
      BY <1>3
    <2>3. \A k \in 0..M : g[k] = f[k]
      BY <2>2
    <2> HIDE DEF M, N
    <2>4. ASSUME NEW k \in 0..N
          PROVE  g[k + M] = e[k]
      <3>1. g[k + M] = IF k + M <= M THEN f[k + M] ELSE e[k]
        BY <2>1
      <3>2. CASE k = 0
        <4>1. k + M = M /\ M <= M
          BY <1>3, <3>2
        <4> QED BY <1>1, <1>2, <3>1, <3>2, <4>1 DEF M
      <3>3. CASE k # 0
        BY <2>1, <3>1, <3>3
      <3> QED BY <3>2, <3>3
    <2> QED BY <2>3, <2>4
  <1>5. 0 \in 0..M /\ N \in 0..N /\ N + M = M + N
    BY <1>3
  <1> HIDE DEF r, g
  <1>6. ASSUME NEW k \in 1..(M + N)
        PROVE  Leap(g[k - 1], r[k], g[k])
    <2>1. CASE k <= M
      <3>1. k \in 1..M /\ k \in 0..M /\ k - 1 \in 0..M
        BY <1>3, <2>1
      <3> QED BY <1>1, <1>3, <1>4, <2>1, <3>1
    <2>2. CASE ~ (k <= M)
      <3> DEFINE i == k - M
      <3>1. i \in 1..N /\ i \in 0..N /\ i - 1 \in 0..N /\ k = i + M /\ k - 1 = (i - 1) + M
        BY <1>3, <2>2
      <3>2. g[k] = e[i] /\ g[k - 1] = e[i - 1] /\ r[k] = q[i]
        BY <1>3, <1>4, <2>2, <3>1
      <3> QED BY <1>2, <3>1, <3>2
    <2> QED BY <2>1, <2>2
  <1>7. g[0] = s /\ g[Len(r)] = u /\ \A k \in 1..Len(r) : Leap(g[k - 1], r[k], g[k])
    BY <1>1, <1>2, <1>3, <1>4, <1>5, <1>6
  <1> QED BY <1>7, Zenon DEF Leads, r

\* The changes that undo changes.
Back(q) == LET r == Reverse(q) IN [n \in DOMAIN r |-> Reverted(r[n])]

LEMMA BackIs ==
    ASSUME NEW q \in Seq(AChange)
    PROVE  /\ Back(q) \in Seq(AChange) /\ Len(Back(q)) = Len(q) /\ Len(q) \in Nat
           /\ \A n \in 1..Len(q) : /\ Len(q) - n + 1 \in 1..Len(q)
                                   /\ Back(q)[n] = Reverted(q[Len(q) - n + 1])
  <1> DEFINE N == Len(q)
  <1>1. N \in Nat /\ \A n \in 1..N : (N - n) + 1 \in 1..N /\ q[(N - n) + 1] \in AChange
    OBVIOUS
  <1> HIDE DEF N
  <1>2. Back(q) = [n \in 1..N |-> Reverted(q[(N - n) + 1])]
    BY DEF Back, Reverse, N
  <1>3. \A n \in 1..N : Reverted(q[(N - n) + 1]) \in AChange
    BY <1>1, CellIs
  <1>4. Back(q) \in [1..N -> AChange]
    BY <1>2, <1>3
  <1>5. Back(q) \in Seq(AChange) /\ Len(Back(q)) = N
    BY <1>1, <1>4
  <1> QED BY <1>1, <1>2, <1>5 DEF N

LEMMA LeadsBack ==
    ASSUME NEW s, NEW q \in Seq(AChange), NEW t, Leads(s, q, t)
    PROVE  Leads(t, Back(q), s)
  <1>1. PICK f : /\ f[0] = s /\ f[Len(q)] = t
                 /\ \A k \in 1..Len(q) : Leap(f[k - 1], q[k], f[k])
    BY DEF Leads
  <1> DEFINE N == Len(q)
             r == Back(q)
             g == [k \in 0..N |-> f[N - k]]
  <1>2. /\ N \in Nat /\ Len(r) = N
        /\ \A n \in 1..N : (N - n) + 1 \in 1..N /\ r[n] = Reverted(q[(N - n) + 1])
    BY BackIs
  <1>3. g[0] = t /\ g[N] = s /\ \A k \in 0..N : g[k] = f[N - k]
    <2>1. 0 \in 0..N /\ N \in 0..N /\ N - 0 = N /\ N - N = 0
      BY <1>2
    <2>2. \A k \in 0..N : g[k] = f[N - k]
      OBVIOUS
    <2> HIDE DEF g
    <2> QED BY <1>1, <2>1, <2>2
  <1> HIDE DEF r, g
  <1>4. ASSUME NEW k \in 1..N
        PROVE  Leap(g[k - 1], r[k], g[k])
    <2> DEFINE i == (N - k) + 1
    <2>1. /\ i \in 1..N /\ k - 1 \in 0..N /\ k \in 0..N /\ N - (k - 1) = i /\ N - k = i - 1
      BY <1>2
    <2>2. r[k] = Reverted(q[i])
      BY <1>2
    <2> HIDE DEF i
    <2>3. q[i] \in AChange /\ Leap(f[i - 1], q[i], f[i])
      BY <1>1, <2>1
    <2>4. g[k - 1] = f[i] /\ g[k] = f[i - 1]
      BY <1>3, <2>1
    <2> QED BY <2>2, <2>3, <2>4, LeapBack
  <1>5. g[0] = t /\ g[Len(r)] = s /\ \A k \in 1..Len(r) : Leap(g[k - 1], r[k], g[k])
    BY <1>2, <1>3, <1>4
  <1> QED BY <1>5, Zenon DEF Leads, r

LEMMA LeadsAside ==
    ASSUME NEW s, NEW q \in Seq(AChange), NEW t, Leads(s, q, t), NEW z \in Cells,
           \A k \in 1..Len(q) : z # Cell(q[k]), NEW v
    PROVE  Leads([s EXCEPT ![z] = v], q, [t EXCEPT ![z] = v])
  <1>1. PICK f : /\ f[0] = s /\ f[Len(q)] = t
                 /\ \A k \in 1..Len(q) : Leap(f[k - 1], q[k], f[k])
    BY DEF Leads
  <1> DEFINE g == [k \in 0..Len(q) |-> [f[k] EXCEPT ![z] = v]]
  <1>2. Len(q) \in Nat /\ 0 \in 0..Len(q) /\ Len(q) \in 0..Len(q)
    OBVIOUS
  <1>3. \A k \in 0..Len(q) : g[k] = [f[k] EXCEPT ![z] = v]
    OBVIOUS
  <1> HIDE DEF g
  <1>4. ASSUME NEW k \in 1..Len(q)
        PROVE  Leap(g[k - 1], q[k], g[k])
    <2>1. k \in 0..Len(q) /\ k - 1 \in 0..Len(q) /\ q[k] \in AChange
      OBVIOUS
    <2>2. Leap(f[k - 1], q[k], f[k]) /\ z # Cell(q[k])
      BY <1>1
    <2>3. Leap([f[k - 1] EXCEPT ![z] = v], q[k], [f[k] EXCEPT ![z] = v])
      BY <2>1, <2>2, LeapAside
    <2> QED BY <1>3, <2>1, <2>3
  <1>5. g[0] = [s EXCEPT ![z] = v] /\ g[Len(q)] = [t EXCEPT ![z] = v]
    BY <1>1, <1>2, <1>3
  <1> QED BY <1>4, <1>5, Zenon DEF Leads

-----------------------------------------------------------------------------
(* A history is legal: there is a state before its first entry, and after  *)
(* each of them, so that the entry leads from the one to the other, and    *)
(* the world is in the one of the index.                                   *)

Legal(w, h) ==
    \E T : /\ T[w.index[h]] = Now(w)
           /\ \A k \in 1..Len(w.changes[h]) : Leads(T[k - 1], w.changes[h][k].changes, T[k])

\* x is in h.
Has(w, h, x) ==
    \E n \in 1..Len(w.changes[h]) : \E i \in 1..Len(w.changes[h][n].changes) :
      x = w.changes[h][n].changes[i]

LEMMA SameLegal ==
    ASSUME NEW w, NEW v, NEW h, Legal(w, h),
           v.changes[h] = w.changes[h], v.index[h] = w.index[h], Now(v) = Now(w)
    PROVE  Legal(v, h)
  BY DEF Legal

LEMMA EmptyLegal ==
    ASSUME NEW v, NEW h, v.changes[h] = <<>>, v.index[h] = 0
    PROVE  Legal(v, h)
  <1> DEFINE T == [k \in {0} |-> Now(v)]
  <1>1. T[0] = Now(v) /\ 1..Len(<<>>) = {}
    OBVIOUS
  <1> HIDE DEF T
  <1>2. /\ T[v.index[h]] = Now(v)
        /\ \A k \in 1..Len(v.changes[h]) : Leads(T[k - 1], v.changes[h][k].changes, T[k])
    BY <1>1
  <1> QED BY <1>2, Zenon DEF Legal

\* What another history, or none, is told of.
LEMMA AsideLegal ==
    ASSUME NEW w \in AWorld, NEW v, NEW h \in Historied, Legal(w, h),
           v.changes[h] = w.changes[h], v.index[h] = w.index[h], w.index[h] <= Len(w.changes[h]),
           NEW z \in Cells, NEW a, Now(v) = [Now(w) EXCEPT ![z] = a],
           \A x : Has(w, h, x) => Cell(x) # z
    PROVE  Legal(v, h)
  <1>1. PICK T : /\ T[w.index[h]] = Now(w)
                 /\ \A k \in 1..Len(w.changes[h]) :
                      Leads(T[k - 1], w.changes[h][k].changes, T[k])
    BY DEF Legal
  <1> DEFINE N == Len(w.changes[h])
             U == [k \in 0..N |-> [T[k] EXCEPT ![z] = a]]
  <1>2. N \in Nat /\ w.index[h] \in 0..N
    BY WorldIs
  <1>3. \A k \in 0..N : U[k] = [T[k] EXCEPT ![z] = a]
    OBVIOUS
  <1> HIDE DEF U
  <1>4. ASSUME NEW k \in 1..N
        PROVE  Leads(U[k - 1], w.changes[h][k].changes, U[k])
    <2> DEFINE q == w.changes[h][k].changes
    <2>1. q \in Seq(AChange)
      BY WorldIs, EntryIs
    <2>2. \A i \in 1..Len(q) : z # Cell(q[i])
      BY DEF Has
    <2>3. Leads(T[k - 1], q, T[k])
      BY <1>1
    <2> HIDE DEF q
    <2>4. Leads([T[k - 1] EXCEPT ![z] = a], q, [T[k] EXCEPT ![z] = a])
      BY <2>1, <2>2, <2>3, LeadsAside
    <2>5. k - 1 \in 0..N /\ k \in 0..N
      BY <1>2
    <2> QED BY <1>3, <2>4, <2>5 DEF q
  <1>5. U[v.index[h]] = Now(v)
    BY <1>1, <1>2, <1>3
  <1>6. \A k \in 1..Len(v.changes[h]) : Leads(U[k - 1], v.changes[h][k].changes, U[k])
    BY <1>4 DEF N
  <1> QED BY <1>5, <1>6, Zenon DEF Legal

-----------------------------------------------------------------------------
(* Worlds of programs that let objects hold each other in one direction    *)
(* only and move none that has children, or had.                           *)

\* What is so of the changes that h has.
Known(w, h, x) ==
    /\ x \in AChange /\ HistoryOf(w, x.obj) = h
    /\ x.type # "set" =>
         /\ Level[x.obj] < Level[x.child] /\ w.last[x.child] = h
         /\ Adopts(x.obj, x.child) => HistoryOf(w, x.child) = h

\* The last history of a child is that of its parent, also of a child in its changes.
Tidy(w) ==
    /\ Graded(w) /\ Held(w)
    /\ \A c \in Objects : w.parent[c] # None =>
         /\ w.last[c] = HistoryOf(w, w.parent[c])
         /\ Adopts(w.parent[c], c) => w.provider[c] = w.parent[c]
    /\ \A h \in Historied : \A x : Has(w, h, x) => Known(w, h, x)

LEMMA KnownBack ==
    ASSUME NEW w, NEW h, NEW x, Known(w, h, x)
    PROVE  Known(w, h, Reverted(x))
  <1>1. x \in AChange
    BY DEF Known
  <1>2. /\ Reverted(x) \in AChange /\ Reverted(x).obj = x.obj
        /\ (Reverted(x).type = "set" <=> x.type = "set")
        /\ (x.type # "set" => Reverted(x).child = x.child)
    BY <1>1, CellIs
  <1> QED BY <1>2 DEF Known

LEMMA NowIs ==
    ASSUME NEW w
    PROVE  /\ IsState(Now(w))
           /\ \A x \in AChange :
                Now(w)[Cell(x)] = IF x.type = "set" THEN w.value[x.obj] ELSE w.parent[x.child]
  <1>1. IsState(Now(w))
    BY DEF IsState, Now
  <1>2. ASSUME NEW x \in AChange
        PROVE  Now(w)[Cell(x)] = IF x.type = "set" THEN w.value[x.obj] ELSE w.parent[x.child]
    <2>1. Cell(x) \in Cells /\ Cell(x)[1] \in {"value", "parent"}
      BY CellIs DEF Cells
    <2>2. CASE x.type = "set"
      BY <2>1, <2>2 DEF Now, Cell
    <2>3. CASE x.type # "set"
      BY <2>1, <2>3 DEF Now, Cell
    <2> QED BY <2>2, <2>3
  <1> QED BY <1>1, <1>2

LEMMA NowAt ==
    ASSUME NEW w, NEW o \in Objects
    PROVE  /\ <<"parent", o>> \in Cells /\ Now(w)[<<"parent", o>>] = w.parent[o]
           /\ <<"value", o>> \in Cells /\ Now(w)[<<"value", o>>] = w.value[o]
  <1>1. <<"parent", o>> \in Cells /\ <<"value", o>> \in Cells
    BY DEF Cells
  <1> QED BY <1>1 DEF Now

LEMMA CellNamed ==
    ASSUME NEW z \in Cells
    PROVE  \E o \in Objects : z = <<"parent", o>> \/ z = <<"value", o>>
  BY DEF Cells

Shifted(w, v, c, a) ==
    \A o \in Objects :
      /\ v.parent[o] = IF c = <<"parent", o>> THEN a ELSE w.parent[o]
      /\ v.value[o] = IF c = <<"value", o>> THEN a ELSE w.value[o]

At(s, c, a) == [s EXCEPT ![c] = a]

LEMMA NowMoved ==
    ASSUME NEW w, NEW v, NEW c \in Cells, NEW a, Shifted(w, v, c, a)
    PROVE  Now(v) = At(Now(w), c, a)
  <1>1. \A z \in Cells : Now(v)[z] = IF c = z THEN a ELSE Now(w)[z]
    <2> TAKE z \in Cells
    <2>1. PICK o \in Objects : z = <<"parent", o>> \/ z = <<"value", o>>
      BY CellNamed
    <2>2. CASE z = <<"parent", o>>
      <3>1. Now(v)[z] = v.parent[o] /\ Now(w)[z] = w.parent[o]
        BY <2>2, NowAt
      <3> QED BY <2>2, <3>1 DEF Shifted
    <2>3. CASE z = <<"value", o>>
      <3>1. Now(v)[z] = v.value[o] /\ Now(w)[z] = w.value[o]
        BY <2>3, NowAt
      <3> QED BY <2>3, <3>1 DEF Shifted
    <2> QED BY <2>1, <2>2, <2>3
  <1>2. Now(v) = [z \in Cells |-> Now(v)[z]] /\ Now(w) = [z \in Cells |-> Now(w)[z]]
    BY NowIs DEF IsState
  <1> QED BY <1>1, <1>2 DEF At

LEMMA MovesIs ==
    ASSUME NEW w \in AWorld, NEW x \in AChange, NEW v, Moves(w, v, x)
    PROVE  /\ Now(v) = At(Now(w), Cell(x), After(x))
           /\ x.type = "put" =>
                /\ v.parent = At(w.parent, x.child, x.obj)
                /\ v.last = At(w.last, x.child, HistoryOf(w, x.obj))
                /\ v.provider = IF Adopts(x.obj, x.child)
                                THEN At(w.provider, x.child, x.obj) ELSE w.provider
           /\ x.type # "put" => v.last = w.last /\ v.provider = w.provider
           /\ x.type = "take" => v.parent = At(w.parent, x.child, None)
           /\ x.type = "set" => v.parent = w.parent
  <1>1. /\ w.parent \in [Objects -> Objects \cup {None}] /\ w.value \in [Objects -> {0, 1}]
        /\ w.provider \in [Objects -> Objects \cup {None}]
        /\ w.last \in [Objects -> Historied \cup {None}]
        /\ w = [parent |-> w.parent, value |-> w.value, provider |-> w.provider,
                last |-> w.last, changes |-> w.changes, index |-> w.index]
    BY WorldParts
  <1>2. x.obj \in Objects /\ (x.type # "set" => x.child \in Objects)
    BY CellIs
  <1>3. CASE x.type = "put"
    <2>1. /\ v.parent = [w.parent EXCEPT ![x.child] = x.obj] /\ v.value = w.value
          /\ v.last = [w.last EXCEPT ![x.child] = HistoryOf(w, x.obj)]
          /\ v.provider = [w.provider EXCEPT ![x.child] = IF Adopts(x.obj, x.child) THEN x.obj ELSE @]
      BY <1>1, <1>3 DEF Moves, Changed
    <2>2. v.provider = IF Adopts(x.obj, x.child)
                       THEN [w.provider EXCEPT ![x.child] = x.obj] ELSE w.provider
      BY <1>1, <2>1
    <2>3. Now(v) = At(Now(w), Cell(x), After(x))
      <3>1. Cell(x) = <<"parent", x.child>> /\ After(x) = x.obj
        BY <1>3 DEF Cell, After
      <3>2. \A o \in Objects : /\ v.parent[o] = IF o = x.child THEN x.obj ELSE w.parent[o]
                               /\ v.value[o] = w.value[o]
        BY <1>1, <1>2, <1>3, <2>1
      <3>3. Shifted(w, v, Cell(x), After(x))
        BY <3>1, <3>2 DEF Shifted
      <3>4. Cell(x) \in Cells
        BY CellIs
      <3> QED BY <3>3, <3>4, NowMoved
    <2> QED BY <1>3, <2>1, <2>2, <2>3 DEF At
  <1>4. CASE x.type = "take"
    <2>1. /\ v.parent = [w.parent EXCEPT ![x.child] = None] /\ v.value = w.value
          /\ v.last = w.last /\ v.provider = w.provider
      BY <1>1, <1>4 DEF Moves, Changed
    <2>2. Now(v) = At(Now(w), Cell(x), After(x))
      <3>1. Cell(x) = <<"parent", x.child>> /\ After(x) = None
        BY <1>4 DEF Cell, After
      <3>2. \A o \in Objects : /\ v.parent[o] = IF o = x.child THEN None ELSE w.parent[o]
                               /\ v.value[o] = w.value[o]
        BY <1>1, <1>2, <1>4, <2>1
      <3>3. Shifted(w, v, Cell(x), After(x))
        BY <3>1, <3>2 DEF Shifted
      <3>4. Cell(x) \in Cells
        BY CellIs
      <3> QED BY <3>3, <3>4, NowMoved
    <2> QED BY <1>4, <2>1, <2>2 DEF At
  <1>5. CASE x.type = "set"
    <2>1. /\ v.parent = w.parent /\ v.value = [w.value EXCEPT ![x.obj] = x.new]
          /\ v.last = w.last /\ v.provider = w.provider
      BY <1>1, <1>5 DEF Moves, Changed
    <2>2. Now(v) = At(Now(w), Cell(x), After(x))
      <3>1. Cell(x) = <<"value", x.obj>> /\ After(x) = x.new
        BY <1>5 DEF Cell, After
      <3>2. \A o \in Objects : /\ v.value[o] = IF o = x.obj THEN x.new ELSE w.value[o]
                               /\ v.parent[o] = w.parent[o]
        BY <1>1, <1>2, <1>5, <2>1
      <3>3. Shifted(w, v, Cell(x), After(x))
        BY <3>1, <3>2 DEF Shifted
      <3>4. Cell(x) \in Cells
        BY CellIs
      <3> QED BY <3>3, <3>4, NowMoved
    <2> QED BY <1>5, <2>1, <2>2
  <1> QED BY <1>3, <1>4, <1>5 DEF AChange

-----------------------------------------------------------------------------
(* A change that a history knows about is written again, or undone.        *)

SameHistories(w, v) == \A y \in Objects \cup {None} : HistoryOf(v, y) = HistoryOf(w, y)

\* Nothing is flushed for it.
LEMMA NoneFlushed ==
    ASSUME NEW w, NEW h, NEW x, Known(w, h, x), x.type = "put"
    PROVE  ToFlush(w, x) = {}
  BY DEF Known, ToFlush

LEMMA MayReplay ==
    ASSUME NEW w \in AWorld, Tidy(w), NEW h \in Historied, NEW x, Known(w, h, x),
           Now(w)[Cell(x)] = Before(x)
    PROVE  MayWrite(w, x, h) /\ Meets(w, x)
  <1>1. x \in AChange /\ HistoryOf(w, x.obj) = h
    BY DEF Known
  <1>2. x.obj \in Objects /\ (x.type # "set" => x.child \in Objects)
    BY <1>1, CellIs
  <1>3. Now(w)[Cell(x)] = IF x.type = "set" THEN w.value[x.obj] ELSE w.parent[x.child]
    BY <1>1, NowIs
  <1>4. \A y \in Objects \cup {None} : HistoryFound(w, y)
    BY AllFound DEF Tidy
  <1>5. ASSUME x.type = "put"
        PROVE  /\ w.parent[x.child] = None /\ x.child \notin Above(w, x.obj)
               /\ h \notin ToFlush(w, x)
    <2>1. w.parent[x.child] = None
      BY <1>3, <1>5 DEF Before
    <2>2. Level[x.obj] < Level[x.child] /\ Level[x.obj] \in Nat /\ Level[x.child] \in Nat
      BY <1>2, <1>5, LevelIs DEF Known
    <2>3. Held(w)
      BY DEF Tidy
    <2>4. \A y \in Above(w, x.obj) : Level[y] <= Level[x.obj]
      BY <1>2, <2>3, AboveIs
    <2>5. x.child \notin Above(w, x.obj)
      BY <2>2, <2>4
    <2> QED BY <1>5, <2>1, <2>5, NoneFlushed
  <1>6. x.type = "take" => w.parent[x.child] = x.obj
    BY <1>3 DEF Before
  <1>7. x.type = "set" => w.value[x.obj] = x.old
    BY <1>3 DEF Before
  <1> QED BY <1>2, <1>4, <1>5, <1>6, <1>7 DEF MayWrite, Meets

LEMMA ReplayedIs ==
    ASSUME NEW w \in AWorld, Tidy(w), NEW h \in Historied, NEW x, Known(w, h, x),
           Now(w)[Cell(x)] = Before(x), NEW v, v = Written(w, x, h)
    PROVE  /\ v \in AWorld /\ Moves(w, v, x)
           /\ v.changes = w.changes /\ v.index = w.index /\ v.last = w.last
           /\ Leap(Now(w), x, Now(v))
  <1>1. x \in AChange /\ HistoryOf(w, x.obj) = h /\ MayWrite(w, x, h)
    BY MayReplay DEF Known
  <1>2. v = Middle(w, w, x)
    BY <1>1, WrittenAlone
  <1>3. \A g : ~ Flushes(w, x, g)
    BY NoneFlushed DEF Flushes
  <1>4. /\ v \in AWorld /\ Moves(w, v, x)
        /\ \A g \in Historied : v.changes[g] = w.changes[g] /\ v.index[g] = w.index[g]
    BY <1>1, <1>2, <1>3, MiddleIs
  <1>5. v.changes = w.changes /\ v.index = w.index
    BY <1>4, WorldParts
  <1>6. /\ Now(v) = At(Now(w), Cell(x), After(x))
        /\ x.type = "put" => v.last = At(w.last, x.child, HistoryOf(w, x.obj))
        /\ x.type # "put" => v.last = w.last
    BY <1>1, <1>4, MovesIs
  <1>7. v.last = w.last
    <2>1. CASE x.type = "put"
      <3>1. w.last[x.child] = HistoryOf(w, x.obj)
        BY <1>1, <2>1 DEF Known
      <3>2. v.last = [w.last EXCEPT ![x.child] = w.last[x.child]]
        BY <1>6, <2>1, <3>1 DEF At
      <3> QED BY <3>2, WorldParts
    <2> QED BY <1>6, <2>1
  <1>8. Leap(Now(w), x, Now(v))
    BY <1>6, NowIs DEF Leap, At
  <1> QED BY <1>4, <1>5, <1>7, <1>8

LEMMA ReplayedHistories ==
    ASSUME NEW w \in AWorld, Tidy(w), NEW h \in Historied, NEW x, Known(w, h, x),
           NEW v \in AWorld, Moves(w, v, x)
    PROVE  SameHistories(w, v) /\ Graded(v)
  <1>1. x \in AChange /\ HistoryOf(w, x.obj) = h
    BY DEF Known
  <1>2. x.obj \in Objects /\ (x.type # "set" => x.child \in Objects)
    BY <1>1, CellIs
  <1>3. /\ x.type = "put" =>
             v.provider = IF Adopts(x.obj, x.child)
                          THEN At(w.provider, x.child, x.obj) ELSE w.provider
        /\ x.type # "put" => v.provider = w.provider
    BY <1>1, MovesIs
  <1>4. CASE v.provider = w.provider
    BY <1>4, SameWays DEF SameHistories, Tidy, Graded
  <1>5. CASE v.provider # w.provider
    <2> DEFINE c == x.child
               o == x.obj
    <2>1. /\ c \in Objects /\ o \in Objects /\ c \notin Historied
          /\ v.provider = [w.provider EXCEPT ![c] = o]
          /\ HistoryOf(w, c) = h /\ HistoryOf(w, o) = h /\ Level[o] < Level[c]
      BY <1>1, <1>2, <1>3, <1>5 DEF Known, Adopts, At
    <2> HIDE DEF c, o
    <2>2. w.provider \in [Objects -> Objects \cup {None}]
      BY WorldParts
    <2>3. Graded(v)
      BY <2>1, <2>2 DEF Tidy, Graded
    <2>4. /\ \A y \in Objects \cup {None} : HistoryFound(w, y)
          /\ \A y \in Objects \cup {None} : HistoryFound(v, y)
      BY <2>3, AllFound DEF Tidy
    <2>5. ASSUME NEW y \in Objects
          PROVE  HistoryOf(v, y) = HistoryOf(w, y)
      BY <2>1, <2>4, Moved
    <2>6. HistoryOf(v, None) = HistoryOf(w, None)
      BY EndsAtOnce DEF Ends
    <2> QED BY <2>3, <2>5, <2>6 DEF SameHistories
  <1> QED BY <1>4, <1>5

LEMMA SameKnown ==
    ASSUME NEW w, NEW v, SameHistories(w, v), v.last = w.last, NEW h, NEW x, Known(w, h, x)
    PROVE  Known(v, h, x)
  <1>1. x \in AChange
    BY DEF Known
  <1>2. x.obj \in Objects /\ (x.type # "set" => x.child \in Objects)
    BY <1>1, CellIs
  <1> QED BY <1>2 DEF Known, SameHistories

LEMMA ReplayedTidy ==
    ASSUME NEW w \in AWorld, Tidy(w), NEW h \in Historied, NEW x, Known(w, h, x),
           NEW v \in AWorld, Moves(w, v, x), v.changes = w.changes, v.last = w.last
    PROVE  Tidy(v)
  <1>1. x \in AChange /\ HistoryOf(w, x.obj) = h
    BY DEF Known
  <1>2. x.obj \in Objects /\ (x.type # "set" => x.child \in Objects)
    BY <1>1, CellIs
  <1>3. SameHistories(w, v) /\ Graded(v)
    BY ReplayedHistories
  <1>4. /\ w.parent \in [Objects -> Objects \cup {None}]
        /\ w.provider \in [Objects -> Objects \cup {None}]
    BY WorldParts
  <1>5. /\ x.type = "put" =>
             /\ v.parent = At(w.parent, x.child, x.obj)
             /\ v.provider = IF Adopts(x.obj, x.child)
                             THEN At(w.provider, x.child, x.obj) ELSE w.provider
        /\ x.type # "put" => v.provider = w.provider
        /\ x.type = "take" => v.parent = At(w.parent, x.child, None)
        /\ x.type = "set" => v.parent = w.parent
    BY <1>1, MovesIs
  <1>6. ASSUME NEW c \in Objects, v.parent[c] # None
        PROVE  \/ /\ v.parent[c] = w.parent[c] /\ v.provider[c] = w.provider[c]
               \/ /\ x.type = "put" /\ c = x.child /\ v.parent[c] = x.obj
                  /\ Adopts(x.obj, c) => v.provider[c] = x.obj
    <2>1. CASE x.type = "put"
      BY <1>2, <1>4, <1>5, <1>6, <2>1 DEF At
    <2>2. CASE x.type # "put"
      BY <1>1, <1>2, <1>4, <1>5, <1>6, <2>2 DEF At, AChange
    <2> QED BY <2>1, <2>2
  <1>7. ASSUME NEW c \in Objects, v.parent[c] # None
        PROVE  /\ Level[v.parent[c]] < Level[c] /\ v.last[c] = HistoryOf(v, v.parent[c])
               /\ Adopts(v.parent[c], c) => v.provider[c] = v.parent[c]
    <2>1. CASE v.parent[c] = w.parent[c] /\ v.provider[c] = w.provider[c]
      <3>1. w.parent[c] \in Objects
        BY <1>4, <1>7, <2>1
      <3> QED BY <1>3, <1>7, <2>1, <3>1 DEF Tidy, Held, SameHistories
    <2>2. CASE /\ x.type = "put" /\ c = x.child /\ v.parent[c] = x.obj
               /\ Adopts(x.obj, c) => v.provider[c] = x.obj
      BY <1>1, <1>2, <1>3, <2>2 DEF Known, SameHistories
    <2> QED BY <1>6, <1>7, <2>1, <2>2
  <1>8. ASSUME NEW g \in Historied, NEW y, Has(v, g, y)
        PROVE  Known(v, g, y)
    <2>1. Has(w, g, y)
      BY <1>8 DEF Has
    <2>2. Known(w, g, y)
      BY <2>1 DEF Tidy
    <2> QED BY <1>3, <2>2, SameKnown
  <1> QED BY <1>3, <1>7, <1>8 DEF Tidy, Held

\* What another history knows about is in another cell.
LEMMA Foreign ==
    ASSUME NEW w \in AWorld, NEW g, NEW h, g # h, NEW x, Known(w, h, x), NEW y, Known(w, g, y)
    PROVE  Cell(y) # Cell(x)
  <1>1. CASE x.type = "set" /\ y.type = "set"
    BY <1>1 DEF Known, Cell
  <1>2. CASE x.type # "set" /\ y.type # "set"
    BY <1>2 DEF Known, Cell
  <1>3. CASE (x.type = "set") # (y.type = "set")
    BY <1>3 DEF Cell
  <1> QED BY <1>1, <1>2, <1>3

\* Nothing but the parents and the values is other than it was.
Still(w, v) ==
    /\ v \in AWorld /\ Tidy(v) /\ SameHistories(w, v)
    /\ v.changes = w.changes /\ v.index = w.index /\ v.last = w.last

LEMMA StillOn ==
    ASSUME NEW w, NEW v, NEW u, Still(w, v), Still(v, u)
    PROVE  Still(w, u)
  BY DEF Still, SameHistories

LEMMA ReplayedOne ==
    ASSUME NEW w \in AWorld, Tidy(w), AllInRange(w), NEW h \in Historied, NEW x, Known(w, h, x),
           Now(w)[Cell(x)] = Before(x), NEW v, v = Written(w, x, h)
    PROVE  /\ Still(w, v) /\ Leap(Now(w), x, Now(v))
           /\ \A g \in Historied : g # h /\ Legal(w, g) => Legal(v, g)
  <1>1. /\ v \in AWorld /\ Moves(w, v, x)
        /\ v.changes = w.changes /\ v.index = w.index /\ v.last = w.last
        /\ Leap(Now(w), x, Now(v))
    BY ReplayedIs
  <1>2. SameHistories(w, v) /\ Tidy(v)
    BY <1>1, ReplayedHistories, ReplayedTidy
  <1>3. Cell(x) \in Cells /\ Now(v) = [Now(w) EXCEPT ![Cell(x)] = After(x)]
    BY <1>1, CellIs DEF Known, Leap
  <1>4. ASSUME NEW g \in Historied, g # h, Legal(w, g)
        PROVE  Legal(v, g)
    <2>1. \A y : Has(w, g, y) => Cell(y) # Cell(x)
      BY <1>4, Foreign DEF Tidy
    <2> DEFINE z == Cell(x)
               a == After(x)
    <2>2. v.changes[g] = w.changes[g] /\ v.index[g] = w.index[g] /\ w.index[g] <= Len(w.changes[g])
      BY <1>1 DEF AllInRange
    <2>3. z \in Cells /\ Now(v) = [Now(w) EXCEPT ![z] = a] /\ \A y : Has(w, g, y) => Cell(y) # z
      BY <1>3, <2>1
    <2> HIDE DEF z, a
    <2> QED BY <1>4, <2>2, <2>3, AsideLegal
  <1> QED BY <1>1, <1>2, <1>4 DEF Still

\* What replaying changes that h knows about comes to.
Reached(w, a, h, t) ==
    /\ Still(w, a) /\ Now(a) = t
    /\ \A g \in Historied : g # h /\ Legal(w, g) => Legal(a, g)

Ran(w, r, h, t) ==
    \E a : r = [world |-> a, ok |-> TRUE, meets |-> TRUE] /\ Reached(w, a, h, t)

LEMMA ReplayRuns ==
    ASSUME NEW w \in AWorld, Tidy(w), AllInRange(w), NEW h \in Historied,
           NEW seq, Len(seq) \in Nat, \A n \in 1..Len(seq) : Known(w, h, seq[n]),
           NEW t, Leads(Now(w), seq, t)
    PROVE  Ran(w, Replay(w, seq, h), h, t)
  <1> DEFINE N == Len(seq)
             after == CHOOSE f : f = [m \in 0..N |-> ReplayStep(w, seq, h, f, m)]
  <1>1. after = [m \in 0..N |-> ReplayStep(w, seq, h, after, m)]
    BY Replaying
  <1>2. Replay(w, seq, h) = after[N]
    BY DEF Replay, ReplayStep
  <1>3. N \in Nat /\ \A n \in 1..N : Known(w, h, seq[n])
    OBVIOUS
  <1>4. PICK f : /\ f[0] = Now(w) /\ f[N] = t
                 /\ \A k \in 1..N : Leap(f[k - 1], seq[k], f[k])
    BY DEF Leads
  <1> HIDE DEF after, N
  <1>5. \A m \in 0..N : after[m] = ReplayStep(w, seq, h, after, m)
    BY <1>1
  <1> DEFINE S == {n \in Nat : n <= N => Ran(w, after[n], h, f[n])}
  <1>6. 0 \in S
    <2>1. after[0] = [world |-> w, ok |-> TRUE, meets |-> TRUE]
      BY <1>3, <1>5, ZeroOnly DEF ReplayStep
    <2>2. Reached(w, w, h, f[0])
      BY <1>4 DEF Reached, Still, SameHistories
    <2>3. Ran(w, after[0], h, f[0])
      BY <2>1, <2>2 DEF Ran
    <2> QED BY <2>3
  <1>7. ASSUME NEW n \in Nat, n \in S
        PROVE  n + 1 \in S
    <2> SUFFICES ASSUME n + 1 <= N
                 PROVE  Ran(w, after[n + 1], h, f[n + 1])
      OBVIOUS
    <2>1. n + 1 \in 1..N /\ n + 1 \in 0..N /\ n + 1 # 0 /\ (n + 1) - 1 = n /\ n <= N
      BY <1>3, OneMore
    <2> DEFINE r == after[n]
               c == seq[n + 1]
    <2>2. PICK a : r = [world |-> a, ok |-> TRUE, meets |-> TRUE] /\ Reached(w, a, h, f[n])
      BY <1>7, <2>1 DEF Ran
    <2>3. after[n + 1] =
            IF ~ r.ok \/ ~ MayWrite(r.world, c, h) THEN [r EXCEPT !.ok = FALSE]
            ELSE [world |-> Written(r.world, c, h), ok |-> TRUE,
                  meets |-> r.meets /\ Meets(r.world, c)]
      BY <1>5, <2>1 DEF ReplayStep
    <2>4. Known(w, h, c) /\ Leap(f[n], c, f[n + 1])
      BY <1>3, <1>4, <2>1
    <2> HIDE DEF r, c
    <2>5. Still(w, a) /\ Now(a) = f[n] /\ \A g \in Historied : g # h /\ Legal(w, g) => Legal(a, g)
      BY <2>2 DEF Reached
    <2>6. a \in AWorld /\ Tidy(a) /\ AllInRange(a) /\ Known(a, h, c)
      BY <2>4, <2>5, SameKnown DEF Still, AllInRange
    <2>7. Now(a)[Cell(c)] = Before(c)
      BY <2>4, <2>5 DEF Leap
    <2> DEFINE v == Written(a, c, h)
    <2>8. MayWrite(a, c, h) /\ Meets(a, c)
      BY <2>6, <2>7, MayReplay
    <2>9. /\ Still(a, v) /\ Leap(Now(a), c, Now(v))
          /\ \A g \in Historied : g # h /\ Legal(a, g) => Legal(v, g)
      BY <2>6, <2>7, ReplayedOne
    <2>10. after[n + 1] = [world |-> v, ok |-> TRUE, meets |-> TRUE]
      <3>1. r.ok = TRUE /\ r.world = a /\ r.meets = TRUE
        BY <2>2
      <3>2. (r.meets /\ Meets(r.world, c)) = TRUE
        BY <2>8, <3>1
      <3> HIDE DEF v
      <3>3. after[n + 1] = [world |-> Written(r.world, c, h), ok |-> TRUE,
                            meets |-> r.meets /\ Meets(r.world, c)]
        BY <2>3, <2>8, <3>1
      <3> QED BY <3>1, <3>2, <3>3 DEF v
    <2> HIDE DEF v
    <2>11. Now(v) = f[n + 1]
      BY <2>4, <2>5, <2>9 DEF Leap
    <2>12. Still(w, v)
      BY <2>5, <2>9, StillOn
    <2>13. Reached(w, v, h, f[n + 1])
      BY <2>5, <2>9, <2>11, <2>12 DEF Reached
    <2> QED BY <2>10, <2>13 DEF Ran
  <1> HIDE DEF S
  <1>8. N \in S
    BY <1>3, <1>6, <1>7, Induct
  <1>9. N <= N
    BY <1>3
  <1> QED BY <1>2, <1>4, <1>8, <1>9 DEF S

-----------------------------------------------------------------------------
(* Undo, redo, set_index.                                                  *)

Sound(w) ==
    /\ w \in AWorld /\ AllInRange(w) /\ Tidy(w)
    /\ \A h \in Historied : Legal(w, h)

\* Nothing but what h says about: its index, and the parents and the values.
Wound(w, v, h) ==
    /\ Sound(v) /\ v.changes = w.changes
    /\ \A g \in Historied : g # h => v.index[g] = w.index[g]

\* The states before and after the entries of h.
States(w, h, T) ==
    \A k \in 1..Len(w.changes[h]) : Leads(T[k - 1], w.changes[h][k].changes, T[k])

\* Where the cells, and what is known of the changes, are the same.
LEMMA SameTidy ==
    ASSUME NEW w, NEW v, Tidy(w), v.parent = w.parent, v.provider = w.provider, v.last = w.last,
           \A g \in Historied : \A y : Has(v, g, y) => Has(w, g, y)
    PROVE  Tidy(v)
  <1>1. \A x : HistoryOf(v, x) = HistoryOf(w, x)
    BY SameWays
  <1>2. SameHistories(w, v)
    BY <1>1 DEF SameHistories
  <1>3. Graded(v) /\ Held(v)
    BY DEF Tidy, Graded, Held
  <1>4. \A g \in Historied : \A y : Has(v, g, y) => Known(v, g, y)
    BY <1>2, SameKnown DEF Tidy
  <1> QED BY <1>1, <1>3, <1>4 DEF Tidy

LEMMA SameNow ==
    ASSUME NEW w, NEW v, v.parent = w.parent, v.value = w.value
    PROVE  Now(v) = Now(w)
  BY DEF Now

Indexed(r, h, i) == [r EXCEPT !.world.index[h] = i]

LEMMA WoundTo ==
    ASSUME NEW w, Sound(w), NEW h \in Historied, NEW t, NEW r, Ran(w, r, h, t),
           NEW i \in Nat, i <= Len(w.changes[h]), NEW T, States(w, h, T), T[i] = t
    PROVE  \E v : /\ Indexed(r, h, i) = [world |-> v, ok |-> TRUE, meets |-> TRUE]
                  /\ Wound(w, v, h) /\ v.index[h] = i
  <1>1. PICK a : r = [world |-> a, ok |-> TRUE, meets |-> TRUE] /\ Reached(w, a, h, t)
    BY DEF Ran
  <1>2. /\ a \in AWorld /\ Tidy(a) /\ a.changes = w.changes /\ a.index = w.index /\ Now(a) = t
        /\ \A g \in Historied : g # h => Legal(a, g)
    BY <1>1 DEF Reached, Still, Sound
  <1> DEFINE b == [r.world EXCEPT !.index[h] = i]
  <1>3. Indexed(r, h, i) = [world |-> b, ok |-> TRUE, meets |-> TRUE]
    <2>1. Indexed(r, h, i) = [r EXCEPT !.world = b]
      BY DEF Indexed
    <2> DEFINE k == TRUE
    <2> HIDE DEF b, k
    <2>2. r = [world |-> a, ok |-> k, meets |-> k]
      BY <1>1 DEF k
    <2>3. [r EXCEPT !.world = b] = [world |-> b, ok |-> k, meets |-> k]
      BY <2>2
    <2> QED BY <2>1, <2>3 DEF k
  <1>4. b = Rebooked(a, h, a.changes[h], i)
    <2>1. r.world = a
      BY <1>1
    <2> QED BY <1>2, <2>1, ExceptIs
  <1> HIDE DEF b
  <1>5. a.changes[h] \in Seq(AnEntry)
    BY <1>2, WorldIs
  <1>6. Others(a, b, h) /\ b.changes[h] = a.changes[h] /\ b.index[h] = i
    BY <1>2, <1>4, <1>5, RebookedIs
  <1>7. b \in AWorld /\ b.changes = w.changes /\ \A g \in Historied : g # h => b.index[g] = w.index[g]
    <2>1. \A g \in Historied : b.changes[g] = a.changes[g]
      BY <1>6 DEF Others
    <2>2. b.changes = a.changes
      BY <1>2, <1>6, <2>1, WorldParts DEF Others
    <2> QED BY <1>2, <1>6, <2>2 DEF Others
  <1>8. AllInRange(b)
    BY <1>6, <1>7 DEF AllInRange, Sound
  <1>9. Tidy(b)
    <2>1. \A g \in Historied : \A y : Has(b, g, y) => Has(a, g, y)
      BY <1>2, <1>7 DEF Has
    <2> QED BY <1>2, <1>6, <2>1, SameTidy DEF Others
  <1>10. Now(b) = Now(a)
    BY <1>6, SameNow DEF Others
  <1>11. Legal(b, h)
    <2>1. T[b.index[h]] = Now(b)
      BY <1>2, <1>6, <1>10
    <2>2. \A k \in 1..Len(b.changes[h]) : Leads(T[k - 1], b.changes[h][k].changes, T[k])
      BY <1>7 DEF States
    <2> QED BY <2>1, <2>2, Zenon DEF Legal
  <1>12. ASSUME NEW g \in Historied, g # h
         PROVE  Legal(b, g)
    BY <1>2, <1>6, <1>10, <1>12, SameLegal DEF Others
  <1>13. Wound(w, b, h)
    BY <1>7, <1>8, <1>9, <1>11, <1>12 DEF Wound, Sound
  <1> QED BY <1>3, <1>6, <1>13

LEMMA HasKnown ==
    ASSUME NEW w, Sound(w), NEW h \in Historied, NEW n \in 1..Len(w.changes[h]),
           NEW q, q = w.changes[h][n].changes
    PROVE  q \in Seq(AChange) /\ Len(q) \in Nat /\ \A i \in 1..Len(q) : Known(w, h, q[i])
  <1>1. w \in AWorld /\ \A x : Has(w, h, x) => Known(w, h, x)
    BY DEF Sound, Tidy
  <1>2. q \in Seq(AChange)
    BY <1>1, WorldIs, EntryIs
  <1>3. \A i \in 1..Len(q) : Has(w, h, q[i])
    BY DEF Has
  <1> QED BY <1>1, <1>2, <1>3

LEMMA KnownBackwards ==
    ASSUME NEW w, NEW h, NEW q \in Seq(AChange), \A i \in 1..Len(q) : Known(w, h, q[i])
    PROVE  /\ Len(Back(q)) \in Nat
           /\ \A i \in 1..Len(Back(q)) : Known(w, h, Back(q)[i])
  <1>1. /\ Len(Back(q)) = Len(q) /\ Len(q) \in Nat
        /\ \A n \in 1..Len(q) : /\ Len(q) - n + 1 \in 1..Len(q)
                                /\ Back(q)[n] = Reverted(q[Len(q) - n + 1])
    BY BackIs
  <1>2. ASSUME NEW n \in 1..Len(q)
        PROVE  Known(w, h, Back(q)[n])
    <2>1. Known(w, h, q[Len(q) - n + 1])
      BY <1>1
    <2> QED BY <1>1, <2>1, KnownBack
  <1> QED BY <1>1, <1>2

\* What can be undone is undone, and meets what it undoes.
LEMMA UndoneSound ==
    ASSUME NEW w, Sound(w), NEW h \in Historied, w.index[h] # 0
    PROVE  \E v : /\ Undone(w, h) = [world |-> v, ok |-> TRUE, meets |-> TRUE]
                  /\ Wound(w, v, h) /\ v.index[h] = w.index[h] - 1
  <1> DEFINE i   == w.index[h]
             q   == w.changes[h][w.index[h]].changes
             cs  == Reverse(q)
             seq == [n \in DOMAIN cs |-> Reverted(cs[n])]
             r   == Replay(w, seq, h)
  <1>1. /\ i \in Nat /\ i - 1 \in Nat /\ Len(w.changes[h]) \in Nat /\ i \in 1..Len(w.changes[h])
        /\ i - 1 <= Len(w.changes[h]) /\ w \in AWorld /\ Tidy(w) /\ AllInRange(w)
    BY WorldIs DEF Sound, AllInRange
  <1>2. Undone(w, h) = IF w.index[h] = 0 THEN [world |-> w, ok |-> FALSE, meets |-> TRUE]
                       ELSE [r EXCEPT !.world.index[h] = @ - 1]
    BY Zenon DEF Undone
  <1>3. q \in Seq(AChange) /\ Len(q) \in Nat /\ \A n \in 1..Len(q) : Known(w, h, q[n])
    BY <1>1, HasKnown
  <1>4. seq = Back(q)
    BY DEF Back
  <1>5. Len(seq) \in Nat /\ \A n \in 1..Len(seq) : Known(w, h, seq[n])
    BY <1>3, <1>4, KnownBackwards
  <1>6. PICK T : T[i] = Now(w) /\ States(w, h, T)
    BY DEF Sound, Legal, States
  <1>7. Leads(T[i - 1], q, T[i])
    BY <1>1, <1>6 DEF States
  <1> HIDE DEF q
  <1>8. Leads(Now(w), Back(q), T[i - 1])
    BY <1>3, <1>6, <1>7, LeadsBack
  <1> HIDE DEF seq
  <1>9. Leads(Now(w), seq, T[i - 1])
    BY <1>4, <1>8
  <1>10. Ran(w, r, h, T[i - 1])
    BY <1>1, <1>5, <1>9, ReplayRuns
  <1> HIDE DEF r
  <1>11. r.world.index[h] = i
    BY <1>10 DEF Ran, Reached, Still
  <1> DEFINE j == r.world.index[h] - 1
  <1>12. [r EXCEPT !.world.index[h] = @ - 1] = Indexed(r, h, j)
    BY DEF Indexed
  <1>13. j \in Nat /\ j <= Len(w.changes[h]) /\ Ran(w, r, h, T[j])
    BY <1>1, <1>10, <1>11
  <1>14. j = w.index[h] - 1
    BY <1>11
  <1> HIDE DEF j
  <1>15. \E v : /\ Indexed(r, h, j) = [world |-> v, ok |-> TRUE, meets |-> TRUE]
                /\ Wound(w, v, h) /\ v.index[h] = j
    BY <1>6, <1>13, WoundTo
  <1> QED BY <1>2, <1>12, <1>14, <1>15

\* What can be redone is redone, and meets what it redoes.
LEMMA RedoneSound ==
    ASSUME NEW w, Sound(w), NEW h \in Historied, w.index[h] # Len(w.changes[h])
    PROVE  \E v : /\ Redone(w, h) = [world |-> v, ok |-> TRUE, meets |-> TRUE]
                  /\ Wound(w, v, h) /\ v.index[h] = w.index[h] + 1
  <1> DEFINE i == w.index[h]
             q == w.changes[h][w.index[h] + 1].changes
             r == Replay(w, q, h)
  <1>1. /\ i \in Nat /\ i + 1 \in Nat /\ Len(w.changes[h]) \in Nat /\ i + 1 \in 1..Len(w.changes[h])
        /\ (i + 1) - 1 = i /\ i + 1 <= Len(w.changes[h])
        /\ w \in AWorld /\ Tidy(w) /\ AllInRange(w)
    BY WorldIs DEF Sound, AllInRange
  <1>2. Redone(w, h) = IF w.index[h] = Len(w.changes[h])
                       THEN [world |-> w, ok |-> FALSE, meets |-> TRUE]
                       ELSE [r EXCEPT !.world.index[h] = @ + 1]
    BY Zenon DEF Redone
  <1>3. q \in Seq(AChange) /\ Len(q) \in Nat /\ \A n \in 1..Len(q) : Known(w, h, q[n])
    BY <1>1, HasKnown
  <1>6. PICK T : T[i] = Now(w) /\ States(w, h, T)
    BY DEF Sound, Legal, States
  <1>7. Leads(T[(i + 1) - 1], q, T[i + 1])
    BY <1>1, <1>6 DEF States
  <1> HIDE DEF q
  <1>8. Leads(Now(w), q, T[i + 1])
    BY <1>1, <1>6, <1>7
  <1>10. Ran(w, r, h, T[i + 1])
    BY <1>1, <1>3, <1>8, ReplayRuns
  <1> HIDE DEF r
  <1>11. r.world.index[h] = i
    BY <1>10 DEF Ran, Reached, Still
  <1> DEFINE j == r.world.index[h] + 1
  <1>12. [r EXCEPT !.world.index[h] = @ + 1] = Indexed(r, h, j)
    BY DEF Indexed
  <1>13. j \in Nat /\ j <= Len(w.changes[h]) /\ Ran(w, r, h, T[j])
    BY <1>1, <1>10, <1>11
  <1>14. j = w.index[h] + 1
    BY <1>11
  <1> HIDE DEF j
  <1>15. \E v : /\ Indexed(r, h, j) = [world |-> v, ok |-> TRUE, meets |-> TRUE]
                /\ Wound(w, v, h) /\ v.index[h] = j
    BY <1>6, <1>13, WoundTo
  <1> QED BY <1>2, <1>12, <1>14, <1>15

\* An outcome of h that leaves everything in order.
Winds(w, r, h) ==
    \E a, m : \/ r = [world |-> a, ok |-> FALSE, meets |-> m]
              \/ r = [world |-> a, ok |-> TRUE, meets |-> m] /\ Wound(w, a, h)

LEMMA UndoneWinds ==
    ASSUME NEW w, Sound(w), NEW h \in Historied
    PROVE  Winds(w, Undone(w, h), h)
  <1>1. CASE w.index[h] = 0
    BY <1>1 DEF Undone, Winds
  <1>2. CASE w.index[h] # 0
    BY <1>2, UndoneSound DEF Winds
  <1> QED BY <1>1, <1>2

LEMMA RedoneWinds ==
    ASSUME NEW w, Sound(w), NEW h \in Historied
    PROVE  Winds(w, Redone(w, h), h)
  <1>1. CASE w.index[h] = Len(w.changes[h])
    BY <1>1 DEF Redone, Winds
  <1>2. CASE w.index[h] # Len(w.changes[h])
    BY <1>2, RedoneSound DEF Winds
  <1> QED BY <1>1, <1>2

LEMMA WoundOn ==
    ASSUME NEW w, NEW v, NEW u, NEW h, Wound(w, v, h), Wound(v, u, h)
    PROVE  Wound(w, u, h)
  BY DEF Wound

LEMMA IndexSetWinds ==
    ASSUME NEW w, Sound(w), NEW h \in Historied, NEW i \in Nat
    PROVE  Winds(w, IndexSet(w, h, i), h)
  <1> DEFINE N == IF i < w.index[h] THEN w.index[h] - i ELSE i - w.index[h]
             after == CHOOSE f : f = [m \in 0..N |-> IndexStep(w, h, i, f, m)]
  <1>1. N \in Nat
    BY WorldIs DEF Sound
  <1>2. after = [m \in 0..N |-> IndexStep(w, h, i, after, m)]
    BY <1>1, IndexSetting
  <1>3. IndexSet(w, h, i) = after[N]
    BY Zenon DEF IndexSet, IndexStep
  <1> HIDE DEF after, N
  <1>4. \A m \in 0..N : after[m] = IndexStep(w, h, i, after, m)
    BY <1>2
  <1> DEFINE S == {n \in Nat : n <= N => Winds(w, after[n], h)}
  <1>5. 0 \in S
    <2>1. after[0] = [world |-> w, ok |-> TRUE, meets |-> TRUE]
      BY <1>1, <1>4, ZeroOnly DEF IndexStep
    <2>2. Wound(w, w, h)
      BY DEF Wound
    <2> QED BY <2>1, <2>2 DEF Winds
  <1>6. ASSUME NEW n \in Nat, n \in S
        PROVE  n + 1 \in S
    <2> SUFFICES ASSUME n + 1 <= N
                 PROVE  Winds(w, after[n + 1], h)
      OBVIOUS
    <2>1. n + 1 \in 0..N /\ n + 1 # 0 /\ (n + 1) - 1 = n /\ n <= N
      BY <1>1, OneMore
    <2> DEFINE r == after[n]
    <2>2. Winds(w, r, h)
      BY <1>6, <2>1
    <2>3. after[n + 1] = IF ~ r.ok THEN r
                         ELSE IF i < w.index[h] THEN Undone(r.world, h) ELSE Redone(r.world, h)
      BY <1>4, <2>1 DEF IndexStep
    <2> HIDE DEF r
    <2>4. CASE ~ r.ok
      BY <2>2, <2>3, <2>4
    <2>5. CASE r.ok
      <3>1. PICK a, m : r = [world |-> a, ok |-> TRUE, meets |-> m] /\ Wound(w, a, h)
        <4>1. PICK a, m : \/ r = [world |-> a, ok |-> FALSE, meets |-> m]
                          \/ r = [world |-> a, ok |-> TRUE, meets |-> m] /\ Wound(w, a, h)
          BY <2>2 DEF Winds
        <4>2. r # [world |-> a, ok |-> FALSE, meets |-> m]
          BY <2>5
        <4> QED BY <4>1, <4>2
      <3>2. r.world = a
        BY <3>1
      <3>3. Sound(a)
        BY <3>1 DEF Wound
      <3>4. Winds(a, after[n + 1], h)
        BY <2>3, <2>5, <3>2, <3>3, UndoneWinds, RedoneWinds
      <3>5. \A b : Wound(a, b, h) => Wound(w, b, h)
        BY <3>1, WoundOn
      <3> QED BY <3>4, <3>5 DEF Winds
    <2> QED BY <2>4, <2>5
  <1> HIDE DEF S
  <1>7. N \in S
    BY <1>1, <1>5, <1>6, Induct
  <1>8. N <= N
    BY <1>1
  <1> QED BY <1>3, <1>7, <1>8 DEF S

-----------------------------------------------------------------------------
(* All changes of a history, one after the other.                          *)

\* The definition of flatten in FlattenSeq.
FlattenStep(s, f, i) == IF i = 1 THEN s[i] ELSE f[i - 1] \o s[i]

LEMMA Flattening ==
    ASSUME NEW s, NEW N \in Nat
    PROVE  \E f : f = [m \in 1..N |-> FlattenStep(s, f, m)]
  <1> DEFINE S == {n \in Nat : \E f : f = [m \in 1..n |-> FlattenStep(s, f, m)]}
  <1>1. 0 \in S
    <2> DEFINE f == [m \in 1..0 |-> {}]
    <2>1. f = [m \in 1..0 |-> FlattenStep(s, f, m)]
      OBVIOUS
    <2> QED BY <2>1
  <1>2. ASSUME NEW n \in Nat, n \in S
        PROVE  n + 1 \in S
    <2>1. PICK f : f = [m \in 1..n |-> FlattenStep(s, f, m)]
      BY <1>2
    <2>2. /\ \A m \in 1..(n + 1) : m = n + 1 \/ (m # n + 1 /\ m \in 1..n)
          /\ \A m \in 1..n : m \in 1..(n + 1) /\ m # n + 1
          /\ \A m \in 1..(n + 1) : m = 1 \/ (m # 1 /\ m - 1 \in 1..n)
          /\ n + 1 \in 1..(n + 1)
      OBVIOUS
    <2> DEFINE g == [m \in 1..(n + 1) |-> IF m = n + 1 THEN FlattenStep(s, f, n + 1) ELSE f[m]]
    <2>3. \A m \in 1..n : g[m] = f[m] /\ f[m] = FlattenStep(s, f, m)
      BY <2>1, <2>2
    <2>4. g[n + 1] = FlattenStep(s, f, n + 1) /\ g = [m \in 1..(n + 1) |-> g[m]]
      BY <2>2
    <2> HIDE DEF g
    <2>5. \A m \in 1..(n + 1) : FlattenStep(s, g, m) = FlattenStep(s, f, m)
      BY <2>2, <2>3 DEF FlattenStep
    <2>6. \A m \in 1..(n + 1) : g[m] = FlattenStep(s, g, m)
      BY <2>2, <2>3, <2>4, <2>5
    <2>7. g = [m \in 1..(n + 1) |-> FlattenStep(s, g, m)]
      BY <2>4, <2>6
    <2> QED BY <2>7
  <1> HIDE DEF S
  <1>3. N \in S
    BY <1>1, <1>2, Induct
  <1> QED BY <1>3 DEF S

LEMMA FlattenLeads ==
    ASSUME NEW K \in SUBSET AChange, NEW N \in Nat, NEW s, s = [k \in 1..N |-> s[k]],
           \A k \in 1..N : s[k] \in Seq(K), NEW U,
           \A k \in 1..N : Leads(U[k - 1], s[k], U[k])
    PROVE  FlattenSeq(s) \in Seq(K) /\ Leads(U[0], FlattenSeq(s), U[N])
  <1> DEFINE flatten == CHOOSE f : f = [m \in 1..Len(s) |-> FlattenStep(s, f, m)]
  <1>2. s \in Seq(Seq(K)) /\ Len(s) = N
    OBVIOUS
  <1>1. flatten = [m \in 1..N |-> FlattenStep(s, flatten, m)]
    BY <1>2, Flattening
  <1>3. FlattenSeq(s) = IF Len(s) = 0 THEN s ELSE flatten[Len(s)]
    BY Zenon DEF FlattenSeq, FlattenStep
  <1> HIDE DEF flatten
  <1>4. \A m \in 1..N : flatten[m] = FlattenStep(s, flatten, m)
    BY <1>1
  <1>5. CASE N = 0
    <2>1. FlattenSeq(s) = <<>>
      BY <1>2, <1>3, <1>5
    <2>2. FlattenSeq(s) \in Seq(K)
      BY <2>1, EmptySeq
    <2> QED BY <1>5, <2>1, <2>2, LeadsNowhere
  <1>6. CASE N # 0
    <2> DEFINE S == {n \in Nat : n + 1 <= N => /\ flatten[n + 1] \in Seq(K)
                                               /\ Leads(U[0], flatten[n + 1], U[n + 1])}
    <2>1. 0 \in S
      <3>1. 1 \in 1..N /\ 0 + 1 = 1 /\ 1 - 1 = 0
        BY <1>6
      <3>2. flatten[1] = s[1]
        BY <1>4, <3>1 DEF FlattenStep
      <3> QED BY <3>1, <3>2
    <2>2. ASSUME NEW n \in Nat, n \in S
          PROVE  n + 1 \in S
      <3> DEFINE i == n + 1
      <3> SUFFICES ASSUME i + 1 <= N
                   PROVE  /\ flatten[i + 1] \in Seq(K)
                          /\ Leads(U[0], flatten[i + 1], U[i + 1])
        OBVIOUS
      <3>1. i + 1 \in 1..N /\ i + 1 # 1 /\ (i + 1) - 1 = i /\ i <= N /\ i \in Nat
        OBVIOUS
      <3>2. flatten[i] \in Seq(K) /\ Leads(U[0], flatten[i], U[i])
        BY <2>2, <3>1
      <3> HIDE DEF i
      <3>3. flatten[i + 1] = flatten[i] \o s[i + 1]
        BY <1>4, <3>1 DEF FlattenStep
      <3>4. s[i + 1] \in Seq(K) /\ Leads(U[i], s[i + 1], U[i + 1])
        BY <3>1
      <3>5. Seq(K) \subseteq Seq(AChange)
        OBVIOUS
      <3>6. Leads(U[0], flatten[i] \o s[i + 1], U[i + 1])
        BY <3>2, <3>4, <3>5, LeadsFurther
      <3>7. flatten[i] \o s[i + 1] \in Seq(K)
        BY <3>2, <3>4
      <3> QED BY <3>3, <3>6, <3>7
    <2> HIDE DEF S
    <2>3. N - 1 \in Nat /\ (N - 1) + 1 = N /\ N <= N
      BY <1>6
    <2>4. N - 1 \in S
      BY <2>1, <2>2, <2>3, Induct
    <2>5. flatten[N] \in Seq(K) /\ Leads(U[0], flatten[N], U[N])
      BY <2>3, <2>4 DEF S
    <2> QED BY <1>2, <1>3, <1>6, <2>5
  <1> QED BY <1>5, <1>6

\* A legal history can be undone to the first change and redone to the last one.
LEMMA SoundValid ==
    ASSUME NEW w, Sound(w), NEW h \in Historied
    PROVE  Valid(w, h)
  <1> DEFINE L == Len(w.changes[h])
             i == w.index[h]
             K == {x \in AChange : Known(w, h, x)}
             e(k) == w.changes[h][k].changes
             s == [n \in 1..(i - 1 + 1) |-> w.changes[h][1 + n - 1].changes]
             t == [n \in 1..(L - (i + 1) + 1) |-> w.changes[h][i + 1 + n - 1].changes]
  <1>1. i \in Nat /\ L \in Nat /\ i <= L /\ w \in AWorld /\ Tidy(w) /\ AllInRange(w)
    BY WorldIs DEF Sound, AllInRange
  <1>2. PICK T : T[i] = Now(w) /\ States(w, h, T)
    BY DEF Sound, Legal, States
  <1>3. \A k \in 1..L : Leads(T[k - 1], e(k), T[k])
    BY <1>2 DEF States
  <1>4. \A k \in 1..L : e(k) \in Seq(K)
    <2> SUFFICES ASSUME NEW k \in 1..L
                 PROVE  e(k) \in Seq(K)
      OBVIOUS
    <2> DEFINE q == e(k)
    <2>1. q \in Seq(AChange) /\ Len(q) \in Nat /\ \A n \in 1..Len(q) : Known(w, h, q[n])
      BY HasKnown
    <2> HIDE DEF q
    <2>2. \A n \in 1..Len(q) : q[n] \in K
      BY <2>1
    <2>3. q \in Seq(K)
      BY <2>1, <2>2
    <2> QED BY <2>3 DEF q
  <1> HIDE DEF e
  <1>5. s = [n \in 1..i |-> e(n)]
    <2>1. i - 1 + 1 = i /\ \A n \in 1..i : 1 + n - 1 = n
      BY <1>1
    <2> QED BY <2>1 DEF e
  <1>6. t = [n \in 1..(L - i) |-> e(i + n)]
    <2>1. L - (i + 1) + 1 = L - i /\ \A n \in 1..(L - i) : i + 1 + n - 1 = i + n
      BY <1>1
    <2> QED BY <2>1 DEF e
  <1>7. ChangesOf(w, h, 1, i) = FlattenSeq(s) /\ ChangesOf(w, h, i + 1, L) = FlattenSeq(t)
    BY DEF ChangesOf
  <1> HIDE DEF s, t, K
  <1>8. K \in SUBSET AChange
    BY DEF K
  <1>9. FlattenSeq(s) \in Seq(K) /\ Leads(T[0], FlattenSeq(s), T[i])
    <2>1. \A k \in 1..i : /\ k \in 1..L /\ s[k] = e(k)
                          /\ s[k] \in Seq(K) /\ Leads(T[k - 1], s[k], T[k])
      BY <1>1, <1>3, <1>4, <1>5
    <2>2. s = [k \in 1..i |-> s[k]]
      BY <1>5
    <2> HIDE DEF i
    <2> QED BY <1>1, <1>8, <2>1, <2>2, FlattenLeads
  <1>10. FlattenSeq(t) \in Seq(K) /\ Leads(T[i], FlattenSeq(t), T[L])
    <2> DEFINE U == [k \in 0..(L - i) |-> T[i + k]]
               N == L - i
    <2>1. N \in Nat /\ \A k \in 0..N : U[k] = T[i + k]
      BY <1>1
    <2>2. U[0] = T[i] /\ U[N] = T[L]
      <3>1. 0 \in 0..N /\ N \in 0..N /\ i + 0 = i /\ i + N = L
        BY <1>1
      <3> QED BY <3>1
    <2>3. \A k \in 1..N : /\ k \in 0..N /\ k - 1 \in 0..N /\ i + k \in 1..L
                          /\ (i + k) - 1 = i + (k - 1)
      BY <1>1
    <2> HIDE DEF U
    <2>4. \A k \in 1..N : t[k] = e(i + k)
      BY <1>6
    <2>5. \A k \in 1..N : t[k] \in Seq(K) /\ Leads(U[k - 1], t[k], U[k])
      <3> TAKE k \in 1..N
      <3>1. Leads(T[(i + k) - 1], e(i + k), T[i + k]) /\ e(i + k) \in Seq(K)
        BY <1>3, <1>4, <2>3
      <3> QED BY <2>1, <2>3, <2>4, <3>1
    <2>6. t = [k \in 1..N |-> t[k]]
      BY <1>6
    <2> HIDE DEF N
    <2>7. FlattenSeq(t) \in Seq(K) /\ Leads(U[0], FlattenSeq(t), U[N])
      BY <1>8, <2>1, <2>5, <2>6, FlattenLeads
    <2> QED BY <2>2, <2>7
  <1> DEFINE made  == FlattenSeq(s)
             forth == FlattenSeq(t)
             back  == Reverse(made)
             undo  == [n \in DOMAIN back |-> Reverted(back[n])]
  <1>11. undo = Back(made)
    BY DEF Back
  <1>12. Valid(w, h) <=> /\ Replay(w, undo, h).ok /\ Replay(w, undo, h).meets
                         /\ Replay(w, forth, h).ok /\ Replay(w, forth, h).meets
    BY <1>7 DEF Valid
  <1> HIDE DEF made, forth, back, undo
  <1>13. /\ made \in Seq(AChange) /\ Leads(T[0], made, T[i])
         /\ \A n \in 1..Len(made) : Known(w, h, made[n])
    BY <1>9 DEF made, K
  <1>14. /\ forth \in Seq(AChange) /\ Leads(T[i], forth, T[L])
         /\ \A n \in 1..Len(forth) : Known(w, h, forth[n]) /\ Len(forth) \in Nat
    BY <1>10 DEF forth, K
  <1>15. /\ Len(Back(made)) \in Nat /\ \A n \in 1..Len(Back(made)) : Known(w, h, Back(made)[n])
         /\ Leads(T[i], Back(made), T[0])
    BY <1>13, KnownBackwards, LeadsBack
  <1>16. Ran(w, Replay(w, Back(made), h), h, T[0])
    BY <1>1, <1>2, <1>15, ReplayRuns
  <1>17. Len(forth) \in Nat
    BY <1>14
  <1>18. Ran(w, Replay(w, forth, h), h, T[L])
    BY <1>1, <1>2, <1>14, <1>17, ReplayRuns
  <1> QED BY <1>11, <1>12, <1>16, <1>18 DEF Ran

-----------------------------------------------------------------------------
(* What is done to the entries of a history leaves it legal.               *)

LegalBook(s, i, t) ==
    \E T : T[i] = t /\ \A k \in 1..Len(s) : Leads(T[k - 1], s[k].changes, T[k])

\* x is in an entry of s.
Holds(s, x) == \E n \in 1..Len(s) : \E i \in 1..Len(s[n].changes) : x = s[n].changes[i]

LEMMA BookIs ==
    ASSUME NEW w, NEW h
    PROVE  /\ Legal(w, h) <=> LegalBook(w.changes[h], w.index[h], Now(w))
           /\ \A x : Has(w, h, x) <=> Holds(w.changes[h], x)
  BY DEF Legal, LegalBook, Has, Holds

LEMMA CutLegal ==
    ASSUME NEW s, NEW p, NEW i \in Nat, NEW t, LegalBook(s, i, t), Len(p) = i,
           \A n \in 1..i : p[n] = s[n] /\ n \in 1..Len(s)
    PROVE  LegalBook(p, i, t) /\ \A x : Holds(p, x) => Holds(s, x)
  <1>1. PICK T : T[i] = t /\ \A k \in 1..Len(s) : Leads(T[k - 1], s[k].changes, T[k])
    BY DEF LegalBook
  <1>2. T[i] = t /\ \A k \in 1..Len(p) : Leads(T[k - 1], p[k].changes, T[k])
    BY <1>1
  <1>3. \A x : Holds(p, x) => Holds(s, x)
    BY DEF Holds
  <1> QED BY <1>2, <1>3, Zenon DEF LegalBook

LEMMA AddLegal ==
    ASSUME NEW p \in Seq(AnEntry), NEW e \in AnEntry, NEW t, LegalBook(p, Len(p), t),
           NEW u, Leads(t, e.changes, u)
    PROVE  /\ LegalBook(Append(p, e), Len(p) + 1, u)
           /\ \A x : Holds(Append(p, e), x) =>
                Holds(p, x) \/ \E i \in 1..Len(e.changes) : x = e.changes[i]
  <1> DEFINE N == Len(p)
             s == Append(p, e)
  <1>1. PICK T : T[N] = t /\ \A k \in 1..N : Leads(T[k - 1], p[k].changes, T[k])
    BY DEF LegalBook
  <1>2. /\ N \in Nat /\ Len(s) = N + 1 /\ s[N + 1] = e /\ \A n \in 1..N : s[n] = p[n]
        /\ \A n \in 1..Len(s) : n = N + 1 \/ n \in 1..N
    BY Appended
  <1> HIDE DEF s, N
  <1> DEFINE U == [k \in 0..(N + 1) |-> IF k = N + 1 THEN u ELSE T[k]]
  <1>3. U[N + 1] = u /\ \A k \in 0..N : U[k] = T[k]
    BY <1>2
  <1> HIDE DEF U
  <1>4. ASSUME NEW k \in 1..Len(s)
        PROVE  Leads(U[k - 1], s[k].changes, U[k])
    <2>1. CASE k = N + 1
      <3>1. U[k - 1] = t /\ U[k] = u /\ s[k] = e
        BY <1>1, <1>2, <1>3, <2>1
      <3> QED BY <3>1
    <2>2. CASE k \in 1..N
      <3>1. U[k - 1] = T[k - 1] /\ U[k] = T[k] /\ s[k] = p[k]
        BY <1>2, <1>3, <2>2
      <3> QED BY <1>1, <2>2, <3>1
    <2> QED BY <1>2, <2>1, <2>2
  <1>5. LegalBook(s, N + 1, u)
    BY <1>3, <1>4, Zenon DEF LegalBook
  <1>6. ASSUME NEW x, Holds(s, x)
        PROVE  Holds(p, x) \/ \E i \in 1..Len(e.changes) : x = e.changes[i]
    BY <1>2, <1>6 DEF Holds, N
  <1> QED BY <1>5, <1>6 DEF s, N

LEMMA TailLegal ==
    ASSUME NEW s \in Seq(AnEntry), s # <<>>, NEW i \in 1..Len(s), NEW t, LegalBook(s, i, t)
    PROVE  LegalBook(Tail(s), i - 1, t) /\ \A x : Holds(Tail(s), x) => Holds(s, x)
  <1> DEFINE r == Tail(s)
             N == Len(s)
  <1>1. /\ N \in Nat /\ N # 0 /\ Len(r) = N - 1 /\ \A n \in 1..(N - 1) : r[n] = s[n + 1]
        /\ \A n \in 1..Len(r) : n + 1 \in 1..N /\ (n + 1) - 1 = n
    OBVIOUS
  <1>2. PICK T : T[i] = t /\ \A k \in 1..N : Leads(T[k - 1], s[k].changes, T[k])
    BY DEF LegalBook
  <1> HIDE DEF r
  <1> DEFINE U == [k \in 0..(N - 1) |-> T[k + 1]]
  <1>3. \A k \in 0..(N - 1) : U[k] = T[k + 1]
    OBVIOUS
  <1> HIDE DEF U
  <1>4. U[i - 1] = t
    <2>1. i - 1 \in 0..(N - 1) /\ (i - 1) + 1 = i
      BY <1>1
    <2> QED BY <1>2, <1>3, <2>1
  <1>5. ASSUME NEW k \in 1..Len(r)
        PROVE  Leads(U[k - 1], r[k].changes, U[k])
    <2>1. /\ k - 1 \in 0..(N - 1) /\ k \in 0..(N - 1) /\ (k - 1) + 1 = k /\ k \in 1..(N - 1)
          /\ k + 1 \in 1..N /\ (k + 1) - 1 = k
      BY <1>1
    <2>2. U[k - 1] = T[k] /\ U[k] = T[k + 1] /\ r[k] = s[k + 1]
      BY <1>1, <1>3, <2>1
    <2>3. Leads(T[(k + 1) - 1], s[k + 1].changes, T[k + 1])
      BY <1>2, <2>1
    <2> QED BY <2>1, <2>2, <2>3
  <1>6. LegalBook(r, i - 1, t)
    BY <1>4, <1>5, Zenon DEF LegalBook
  <1>7. \A x : Holds(r, x) => Holds(s, x)
    BY <1>1 DEF Holds
  <1> QED BY <1>6, <1>7 DEF r

LEMMA FrontLegal ==
    ASSUME NEW J \in Seq(AnEntry), NEW e \in AnEntry, NEW t,
           LegalBook(Append(J, e), Len(J) + 1, t)
    PROVE  \E r : LegalBook(J, Len(J), r) /\ Leads(r, e.changes, t)
  <1> DEFINE s == Append(J, e)
             N == Len(J)
  <1>1. /\ N \in Nat /\ Len(s) = N + 1 /\ s[N + 1] = e /\ \A n \in 1..N : s[n] = J[n]
        /\ N + 1 \in 1..(N + 1) /\ (N + 1) - 1 = N
    BY Appended
  <1>2. PICK T : T[N + 1] = t /\ \A k \in 1..Len(s) : Leads(T[k - 1], s[k].changes, T[k])
    BY DEF LegalBook
  <1> HIDE DEF s
  <1>3. Leads(T[N], e.changes, t)
    BY <1>1, <1>2
  <1>4. \A k \in 1..N : Leads(T[k - 1], J[k].changes, T[k])
    BY <1>1, <1>2
  <1>5. LegalBook(J, N, T[N])
    BY <1>4, Zenon DEF LegalBook, N
  <1> QED BY <1>3, <1>5

\* One more change in the last entry.
LEMMA WithLegal ==
    ASSUME NEW s \in Seq(AnEntry), s # <<>>, NEW t, LegalBook(s, Len(s), t),
           NEW x \in AChange, NEW u, Leap(t, x, u)
    PROVE  /\ LegalBook(WithChange(s, x), Len(s), u)
           /\ \A y : Holds(WithChange(s, x), y) => Holds(s, y) \/ y = x
           /\ WithChange(s, x) \in Seq(AnEntry) /\ WithChange(s, x) # <<>>
           /\ Len(WithChange(s, x)) = Len(s)
           /\ Last(WithChange(s, x)).closed = Last(s).closed
  <1>1. PICK J \in Seq(AnEntry), e \in AnEntry : s = Append(J, e)
    BY EmptyOrAppended
  <1> DEFINE d == [changes |-> Append(e.changes, x), closed |-> e.closed]
             r == Append(J, d)
  <1>2. WithChange(s, x) = r
    BY <1>1, WithChangeIs
  <1>3. d \in AnEntry /\ e.changes \in Seq(AChange)
    BY EntryIs
  <1>4. d.changes = Append(e.changes, x) /\ d.closed = e.closed
    OBVIOUS
  <1> HIDE DEF d
  <1>5. /\ Len(s) = Len(J) + 1 /\ s[Len(J) + 1] = e /\ \A n \in 1..Len(J) : s[n] = J[n]
        /\ Last(s) = e /\ Len(J) \in Nat
    BY <1>1, Appended
  <1>6. /\ Len(r) = Len(J) + 1 /\ Last(r) = d /\ r \in Seq(AnEntry) /\ r # <<>>
    BY <1>3, Appended
  <1>7. PICK a : LegalBook(J, Len(J), a) /\ Leads(a, e.changes, t)
    BY <1>1, <1>5, FrontLegal
  <1>8. Leads(a, d.changes, u)
    BY <1>3, <1>4, <1>7, LeadsOn
  <1>9. /\ LegalBook(r, Len(J) + 1, u)
        /\ \A y : Holds(r, y) => Holds(J, y) \/ \E i \in 1..Len(d.changes) : y = d.changes[i]
    BY <1>3, <1>7, <1>8, AddLegal
  <1>10. \A y : Holds(J, y) => Holds(s, y)
    <2>1. \A n \in 1..Len(J) : n \in 1..Len(s) /\ s[n] = J[n]
      BY <1>5
    <2> QED BY <2>1 DEF Holds
  <1>11. ASSUME NEW i \in 1..Len(d.changes)
         PROVE  Holds(s, d.changes[i]) \/ d.changes[i] = x
    <2>1. /\ \A n \in 1..Len(e.changes) : d.changes[n] = e.changes[n]
          /\ i = Len(e.changes) + 1 \/ i \in 1..Len(e.changes)
          /\ d.changes[Len(e.changes) + 1] = x
      BY <1>3, <1>4, Appended
    <2>2. Len(s) \in 1..Len(s) /\ s[Len(s)] = e
      BY <1>5
    <2> QED BY <2>1, <2>2 DEF Holds
  <1>12. \A y : Holds(r, y) => Holds(s, y) \/ y = x
    BY <1>9, <1>10, <1>11
  <1> HIDE DEF r
  <1> QED BY <1>2, <1>4, <1>5, <1>6, <1>9, <1>12

LEMMA ShutLegal ==
    ASSUME NEW s \in Seq(AnEntry), s # <<>>, NEW i, NEW t, LegalBook(s, i, t)
    PROVE  /\ LegalBook(Shut(s), i, t) /\ \A y : Holds(Shut(s), y) => Holds(s, y)
  <1>1. PICK J \in Seq(AnEntry), e \in AnEntry : s = Append(J, e)
    BY EmptyOrAppended
  <1> DEFINE d == [changes |-> e.changes, closed |-> TRUE]
             r == Append(J, d)
  <1>2. Shut(s) = r
    BY <1>1, ShutIs
  <1>3. d \in AnEntry /\ d.changes = e.changes
    BY EntryIs
  <1> HIDE DEF d
  <1>5. /\ Len(s) = Len(J) + 1 /\ s[Len(J) + 1] = e /\ \A n \in 1..Len(J) : s[n] = J[n]
    BY <1>1, Appended
  <1>6. /\ Len(r) = Len(J) + 1 /\ r[Len(J) + 1] = d /\ \A n \in 1..Len(J) : r[n] = J[n]
        /\ \A n \in 1..Len(r) : n = Len(J) + 1 \/ n \in 1..Len(J)
    BY <1>3, Appended
  <1> HIDE DEF r
  <1>7. Len(r) = Len(s) /\ \A n \in 1..Len(r) : r[n].changes = s[n].changes
    BY <1>3, <1>5, <1>6
  <1>8. LegalBook(r, i, t)
    BY <1>7 DEF LegalBook
  <1>9. \A y : Holds(r, y) => Holds(s, y)
    BY <1>7 DEF Holds
  <1> QED BY <1>2, <1>8, <1>9

LEMMA PastLegal ==
    ASSUME NEW w \in AWorld, AllInRange(w), NEW h \in Historied, Legal(w, h), NEW v,
           v.changes[h] = Past(w, h), v.index[h] = w.index[h], Now(v) = Now(w)
    PROVE  Legal(v, h) /\ \A x : Has(v, h, x) => Has(w, h, x)
  <1>1. /\ Len(Past(w, h)) = w.index[h] /\ w.index[h] \in Nat
        /\ \A n \in 1..w.index[h] : Past(w, h)[n] = w.changes[h][n] /\ n \in 1..Len(w.changes[h])
    BY PastIs, WorldIs
  <1>2. LegalBook(w.changes[h], w.index[h], Now(w))
    BY BookIs
  <1>3. /\ LegalBook(Past(w, h), w.index[h], Now(w))
        /\ \A x : Holds(Past(w, h), x) => Holds(w.changes[h], x)
    BY <1>1, <1>2, CutLegal
  <1> QED BY <1>3, BookIs

LEMMA AddsLegal ==
    ASSUME NEW w \in AWorld, AllInRange(w), NEW h \in Historied, Legal(w, h), NEW v,
           NEW e \in AnEntry, Adds(w, v, h, e), Leads(Now(w), e.changes, Now(v))
    PROVE  /\ Legal(v, h)
           /\ \A x : Has(v, h, x) => Has(w, h, x) \/ \E i \in 1..Len(e.changes) : x = e.changes[i]
  <1> DEFINE p == Past(w, h)
             s == Append(p, e)
             i == w.index[h]
             In(x) == \E k \in 1..Len(e.changes) : x = e.changes[k]
  <1>1. /\ p \in Seq(AnEntry) /\ Len(p) = i /\ i \in Nat
        /\ \A n \in 1..i : p[n] = w.changes[h][n] /\ n \in 1..Len(w.changes[h])
    BY PastIs, WorldIs
  <1>2. LegalBook(w.changes[h], i, Now(w))
    BY BookIs
  <1>3. LegalBook(p, i, Now(w)) /\ \A x : Holds(p, x) => Holds(w.changes[h], x)
    <2> HIDE DEF p, i
    <2> QED BY <1>1, <1>2, CutLegal
  <1>4. LegalBook(s, i + 1, Now(v)) /\ \A x : Holds(s, x) => Holds(p, x) \/ In(x)
    <2> HIDE DEF p
    <2> QED BY <1>1, <1>3, AddLegal
  <1>5. s \in Seq(AnEntry) /\ s # <<>> /\ Len(s) = i + 1
    BY <1>1, Appended
  <1> HIDE DEF p, s, In
  <1>6. LegalBook(Tail(s), (i + 1) - 1, Now(v)) /\ \A x : Holds(Tail(s), x) => Holds(s, x)
    <2> DEFINE j == i + 1
    <2>1. j \in 1..Len(s) /\ LegalBook(s, j, Now(v))
      BY <1>1, <1>4, <1>5
    <2> HIDE DEF j
    <2>2. LegalBook(Tail(s), j - 1, Now(v)) /\ \A x : Holds(Tail(s), x) => Holds(s, x)
      BY <1>5, <2>1, TailLegal
    <2> QED BY <2>2 DEF j
  <1>7. (i + 1) - 1 = i
    BY <1>1
  <1> DEFINE Afterwards == /\ LegalBook(v.changes[h], v.index[h], Now(v))
                       /\ \A x : Holds(v.changes[h], x) => Holds(w.changes[h], x) \/ In(x)
  <1>8. ASSUME v.changes[h] = s, v.index[h] = i + 1
        PROVE  Afterwards
    <2>1. LegalBook(v.changes[h], v.index[h], Now(v))
      BY <1>4, <1>8
    <2>2. \A x : Holds(v.changes[h], x) => Holds(w.changes[h], x) \/ In(x)
      BY <1>3, <1>4, <1>8
    <2> QED BY <2>1, <2>2
  <1>9. ASSUME v.changes[h] = Tail(s), v.index[h] = i
        PROVE  Afterwards
    <2>1. LegalBook(v.changes[h], v.index[h], Now(v))
      BY <1>6, <1>7, <1>9
    <2>2. \A x : Holds(v.changes[h], x) => Holds(w.changes[h], x) \/ In(x)
      BY <1>3, <1>4, <1>6, <1>9
    <2> QED BY <2>1, <2>2
  <1> HIDE DEF Afterwards
  <1>10. Afterwards
    BY <1>8, <1>9 DEF Adds, p, s
  <1> QED BY <1>10, BookIs DEF In, Afterwards

\* The history of the book that nothing was done to.
LEMMA KeptLegal ==
    ASSUME NEW w, NEW v, NEW h, Legal(w, h), v.changes[h] = w.changes[h],
           v.index[h] = w.index[h], Now(v) = Now(w)
    PROVE  Legal(v, h) /\ \A x : Has(v, h, x) => Has(w, h, x)
  BY BookIs

\* A record leads where its change does.
LEMMA RecordLeads ==
    ASSUME NEW x \in AChange, NEW s, NEW t, Leap(s, x, t)
    PROVE  Leads(s, Record(x).changes, t)
  <1>1. Leads(s, <<>>, s) /\ <<>> \in Seq(AChange)
    BY LeadsNowhere, EmptySeq
  <1>2. Leads(s, Append(<<>>, x), t)
    BY <1>1, LeadsOn
  <1>3. Record(x).changes = Append(<<>>, x)
    <2>1. Append(<<>>, x) = <<x>>
      OBVIOUS
    <2> QED BY <2>1 DEF Record
  <1> QED BY <1>2, <1>3

-----------------------------------------------------------------------------
(* A change that a program writes.                                         *)

\* It finds what it starts from; and a child is put into what is above it, and has
\* none itself.
Fitting(w, x) ==
    /\ x \in AChange /\ Now(w)[Cell(x)] = Before(x)
    /\ x.type = "put" =>
         /\ Level[x.obj] < Level[x.child]
         /\ \A y \in Objects \ {x.child} : w.parent[y] # x.child /\ w.provider[y] # x.child

Adopted(x) == x.type = "put" /\ Adopts(x.obj, x.child)

\* Only a child that is adopted gets another history.
LEMMA AdoptedHistories ==
    ASSUME NEW w \in AWorld, Tidy(w), NEW c \in Objects, NEW o \in Objects,
           c \notin Historied, Level[o] < Level[c],
           \A y \in Objects \ {c} : w.provider[y] # c,
           NEW v \in AWorld, v.provider = [w.provider EXCEPT ![c] = o]
    PROVE  /\ \A y \in Objects \cup {None} : y # c => HistoryOf(v, y) = HistoryOf(w, y)
           /\ HistoryOf(v, c) = HistoryOf(w, o) /\ Graded(v)
  <1>1. w.provider \in [Objects -> Objects \cup {None}]
    BY WorldParts
  <1>2. /\ v.provider[c] = o /\ \A y \in Objects \ {c} : v.provider[y] = w.provider[y]
        /\ o # c /\ Level[o] \in Nat
    BY <1>1, LevelIs
  <1>3. Graded(v)
    BY <1>1, <1>2 DEF Tidy, Graded
  <1>4. /\ \A y \in Objects \cup {None} : HistoryFound(w, y)
        /\ \A y \in Objects \cup {None} : HistoryFound(v, y)
    BY <1>3, AllFound DEF Tidy
  <1> DEFINE S == {y \in Objects \cup Ends : y = c \/ HistoryOf(v, y) = HistoryOf(w, y)}
  <1>5. Ends \subseteq S
    BY EndsAtOnce
  <1>6. ASSUME NEW y \in Objects, Onward(w, y) \in S
        PROVE  y \in S
    <2>1. CASE y \in Ends
      BY <1>5, <2>1
    <2>2. CASE y = c
      BY <2>2
    <2>3. CASE y \notin Ends /\ y # c
      <3> DEFINE p == Onward(w, y)
      <3>1. /\ p = w.provider[y] /\ p = Onward(v, y) /\ p # c
            /\ p \in Objects \cup {None}
        BY <1>1, <1>2, <2>3 DEF Onward, Ends
      <3>2. HistoryOf(v, p) = HistoryOf(w, p)
        BY <1>6, <3>1
      <3>3. HistoryOf(w, y) = HistoryOf(w, p)
        BY <1>4, SameHistory
      <3>4. HistoryOf(v, y) = HistoryOf(v, p)
        BY <1>4, <3>1, SameHistory
      <3> QED BY <3>2, <3>3, <3>4
    <2> QED BY <2>1, <2>2, <2>3
  <1>7. \A y \in Objects \cup {None} : y \in S
    BY <1>4, <1>5, <1>6, Backwards
  <1>8. HistoryOf(v, c) = HistoryOf(v, o)
    <2>1. Onward(v, c) = o
      BY <1>2, NoObject DEF Onward
    <2> QED BY <1>4, <2>1, SameHistory
  <1>9. HistoryOf(v, o) = HistoryOf(w, o)
    BY <1>2, <1>7
  <1> QED BY <1>3, <1>7, <1>8, <1>9

LEMMA WriteHistories ==
    ASSUME NEW w \in AWorld, Tidy(w), NEW x, Fitting(w, x), NEW v \in AWorld, Moves(w, v, x)
    PROVE  /\ \A y \in Objects \cup {None} :
                \/ HistoryOf(v, y) = HistoryOf(w, y)
                \/ Adopted(x) /\ y = x.child /\ HistoryOf(v, y) = HistoryOf(w, x.obj)
           /\ Adopted(x) => HistoryOf(v, x.child) = HistoryOf(w, x.obj)
           /\ HistoryOf(v, x.obj) = HistoryOf(w, x.obj)
           /\ Graded(v)
  <1>1. x \in AChange /\ x.obj \in Objects /\ (x.type # "set" => x.child \in Objects)
    BY CellIs DEF Fitting
  <1>2. /\ x.type = "put" =>
             v.provider = IF Adopts(x.obj, x.child)
                          THEN At(w.provider, x.child, x.obj) ELSE w.provider
        /\ x.type # "put" => v.provider = w.provider
    BY <1>1, MovesIs
  <1>3. CASE ~ Adopted(x)
    BY <1>2, <1>3, SameWays DEF Adopted, Tidy, Graded
  <1>4. CASE Adopted(x)
    <2> DEFINE c == x.child
               o == x.obj
    <2>1. /\ c \in Objects /\ o \in Objects /\ c \notin Historied /\ Level[o] < Level[c]
          /\ \A y \in Objects \ {c} : w.provider[y] # c
          /\ v.provider = [w.provider EXCEPT ![c] = o]
      BY <1>1, <1>2, <1>4 DEF Adopted, Adopts, Fitting, At
    <2>2. o # c
      BY <2>1, LevelIs
    <2> HIDE DEF c, o
    <2>3. /\ \A y \in Objects \cup {None} : y # c => HistoryOf(v, y) = HistoryOf(w, y)
          /\ HistoryOf(v, c) = HistoryOf(w, o) /\ Graded(v)
      BY <2>1, AdoptedHistories
    <2> QED BY <1>4, <2>1, <2>2, <2>3 DEF c, o
  <1> QED BY <1>3, <1>4

\* What a history knows is still so, unless it is flushed.
LEMMA WriteKnown ==
    ASSUME NEW w \in AWorld, Tidy(w), NEW x, Fitting(w, x), NEW v \in AWorld, Moves(w, v, x),
           NEW g \in Historied, ~ Flushes(w, x, g), NEW y, Known(w, g, y)
    PROVE  Known(v, g, y)
  <1>1. /\ x \in AChange /\ x.obj \in Objects /\ (x.type # "set" => x.child \in Objects)
        /\ y \in AChange /\ y.obj \in Objects /\ (y.type # "set" => y.child \in Objects)
    BY CellIs DEF Fitting, Known
  <1>2. /\ \A z \in Objects \cup {None} :
             \/ HistoryOf(v, z) = HistoryOf(w, z)
             \/ Adopted(x) /\ z = x.child /\ HistoryOf(v, z) = HistoryOf(w, x.obj)
    BY WriteHistories
  <1>3. g # None
    BY NoObject
  <1>4. Adopted(x) /\ HistoryOf(w, x.child) = g => HistoryOf(w, x.obj) = g
    BY <1>3 DEF Adopted, Flushes, ToFlush
  <1>5. \A z \in Objects : HistoryOf(w, z) = g => HistoryOf(v, z) = g
    BY <1>2, <1>4
  <1>6. x.type = "put" /\ w.last[x.child] = g => HistoryOf(w, x.obj) = g
    BY <1>3 DEF Flushes, ToFlush
  <1>7. ASSUME y.type # "set"
        PROVE  v.last[y.child] = g
    <2>1. w.last[y.child] = g
      BY <1>7 DEF Known
    <2>2. CASE x.type = "put"
      <3>1. v.last = At(w.last, x.child, HistoryOf(w, x.obj))
        BY <1>1, <2>2, MovesIs
      <3>2. v.last[y.child] = IF y.child = x.child THEN HistoryOf(w, x.obj) ELSE w.last[y.child]
        BY <1>1, <1>7, <3>1, WorldParts DEF At
      <3> QED BY <1>6, <2>1, <2>2, <3>2
    <2>3. CASE x.type # "put"
      BY <1>1, <2>1, <2>3, MovesIs
    <2> QED BY <2>2, <2>3
  <1> QED BY <1>1, <1>5, <1>7 DEF Known

\* The history of the object knows the change.
LEMMA WriteKnowsIt ==
    ASSUME NEW w \in AWorld, Tidy(w), NEW x, Fitting(w, x), NEW v \in AWorld, Moves(w, v, x)
    PROVE  Known(v, HistoryOf(w, x.obj), x)
  <1>1. /\ x \in AChange /\ x.obj \in Objects /\ (x.type # "set" => x.child \in Objects)
    BY CellIs DEF Fitting
  <1>2. /\ \A z \in Objects \cup {None} :
             \/ HistoryOf(v, z) = HistoryOf(w, z)
             \/ Adopted(x) /\ z = x.child /\ HistoryOf(v, z) = HistoryOf(w, x.obj)
        /\ Adopted(x) => HistoryOf(v, x.child) = HistoryOf(w, x.obj)
        /\ HistoryOf(v, x.obj) = HistoryOf(w, x.obj)
    BY WriteHistories
  <1>3. Now(w)[Cell(x)] = IF x.type = "set" THEN w.value[x.obj] ELSE w.parent[x.child]
    BY <1>1, NowIs
  <1>4. CASE x.type = "put"
    <2>1. v.last = At(w.last, x.child, HistoryOf(w, x.obj))
      BY <1>1, <1>4, MovesIs
    <2>2. v.last[x.child] = HistoryOf(w, x.obj)
      BY <1>1, <1>4, <2>1, WorldParts DEF At
    <2> QED BY <1>1, <1>2, <1>4, <2>2 DEF Known, Fitting, Adopted
  <1>5. CASE x.type = "take"
    <2>1. w.parent[x.child] = x.obj
      BY <1>3, <1>5 DEF Fitting, Before
    <2>2. x.child \in Objects /\ x.obj # None
      BY <1>1, <1>5, NoObject
    <2>3. v.last = w.last
      BY <1>1, <1>5, MovesIs
    <2>4. /\ Level[x.obj] < Level[x.child] /\ w.last[x.child] = HistoryOf(w, x.obj)
          /\ Adopts(x.obj, x.child) => w.provider[x.child] = x.obj
      BY <2>1, <2>2 DEF Tidy, Held
    <2>5. ASSUME Adopts(x.obj, x.child)
          PROVE  HistoryOf(w, x.child) = HistoryOf(w, x.obj)
      <3>1. Onward(w, x.child) = x.obj
        BY <2>2, <2>4, <2>5, NoObject DEF Onward, Adopts
      <3>2. HistoryFound(w, x.child)
        BY <2>2, AllFound DEF Tidy
      <3> QED BY <2>2, <3>1, <3>2, SameHistory
    <2>6. \A z \in Objects : HistoryOf(v, z) = HistoryOf(w, z)
      BY <1>2, <1>5 DEF Adopted
    <2> QED BY <1>1, <2>2, <2>3, <2>4, <2>5, <2>6 DEF Known
  <1>6. CASE x.type = "set"
    BY <1>1, <1>2, <1>6 DEF Known
  <1> QED BY <1>1, <1>4, <1>5, <1>6 DEF AChange

\* All of Tidy but what is known of the changes.
Neat(w) ==
    /\ Graded(w) /\ Held(w)
    /\ \A c \in Objects : w.parent[c] # None =>
         /\ w.last[c] = HistoryOf(w, w.parent[c])
         /\ Adopts(w.parent[c], c) => w.provider[c] = w.parent[c]

LEMMA WriteNeat ==
    ASSUME NEW w \in AWorld, Tidy(w), NEW x, Fitting(w, x), NEW v \in AWorld, Moves(w, v, x)
    PROVE  Neat(v)
  <1>1. /\ x \in AChange /\ x.obj \in Objects /\ (x.type # "set" => x.child \in Objects)
    BY CellIs DEF Fitting
  <1>2. /\ \A z \in Objects \cup {None} :
             \/ HistoryOf(v, z) = HistoryOf(w, z)
             \/ Adopted(x) /\ z = x.child /\ HistoryOf(v, z) = HistoryOf(w, x.obj)
        /\ HistoryOf(v, x.obj) = HistoryOf(w, x.obj)
        /\ Graded(v)
    BY WriteHistories
  <1>3. /\ x.type = "put" =>
             /\ v.parent = At(w.parent, x.child, x.obj)
             /\ v.last = At(w.last, x.child, HistoryOf(w, x.obj))
             /\ v.provider = IF Adopts(x.obj, x.child)
                             THEN At(w.provider, x.child, x.obj) ELSE w.provider
        /\ x.type # "put" => v.last = w.last /\ v.provider = w.provider
        /\ x.type = "take" => v.parent = At(w.parent, x.child, None)
        /\ x.type = "set" => v.parent = w.parent
    BY <1>1, MovesIs
  <1>4. ASSUME NEW c \in Objects, v.parent[c] # None
        PROVE  /\ Level[v.parent[c]] < Level[c] /\ v.last[c] = HistoryOf(v, v.parent[c])
               /\ Adopts(v.parent[c], c) => v.provider[c] = v.parent[c]
    <2>1. CASE x.type = "put" /\ c = x.child
      <3>1. /\ v.parent[c] = x.obj /\ v.last[c] = HistoryOf(w, x.obj)
            /\ Adopts(x.obj, c) => v.provider[c] = x.obj
        BY <1>1, <1>3, <2>1, WorldParts DEF At
      <3> QED BY <1>2, <2>1, <3>1 DEF Fitting
    <2>2. CASE ~ (x.type = "put" /\ c = x.child)
      <3>1. /\ v.parent[c] = w.parent[c] /\ v.last[c] = w.last[c]
            /\ v.provider[c] = w.provider[c]
        <4>1. CASE x.type = "put"
          BY <1>1, <1>3, <2>2, <4>1, WorldParts DEF At
        <4>2. CASE x.type = "take"
          BY <1>1, <1>3, <1>4, <4>2, WorldParts DEF At
        <4>3. CASE x.type = "set"
          BY <1>3, <4>3
        <4> QED BY <1>1, <4>1, <4>2, <4>3 DEF AChange
      <3>2. w.parent[c] \in Objects
        BY <1>4, <3>1, WorldParts
      <3>3. HistoryOf(v, w.parent[c]) = HistoryOf(w, w.parent[c])
        <4>1. Adopted(x) => w.parent[c] # x.child
          <5> SUFFICES ASSUME Adopted(x)
                       PROVE  w.parent[c] # x.child
            OBVIOUS
          <5>1. c # x.child /\ x.type = "put"
            BY <2>2 DEF Adopted
          <5> QED BY <5>1 DEF Fitting
        <4> QED BY <1>2, <3>2, <4>1
      <3> QED BY <1>4, <3>1, <3>3 DEF Tidy, Held
    <2> QED BY <2>1, <2>2
  <1> QED BY <1>2, <1>4 DEF Neat, Held

\* Of a history with a batch open, nothing was undone since, and it still has the
\* batch, unless it was flushed.
InBatches(w, b) ==
    \A h \in Historied : DepthIn(b, h) > 0 =>
      w.changes[h] = <<>> \/ (Open(w.changes[h]) /\ w.index[h] = Len(w.changes[h]))

\* The last entry is open in a batch only.
OpenInBatch(w) == \A h \in Historied : Open(w.changes[h]) => Depth(h) > 0

LEMMA NothingHad ==
    ASSUME NEW v, NEW h, v.changes[h] = <<>>
    PROVE  \A x : ~ Has(v, h, x)
  BY DEF Has

\* The history of the object, after the write.
LEMMA RecordedLegal ==
    ASSUME NEW w, Sound(w), InBatches(w, batches), OpenInBatch(w),
           NEW h \in Historied, NEW x \in AChange, NEW v \in AWorld, Recorded(w, v, h, x),
           Leap(Now(w), x, Now(v)), Depth(h) \in Nat
    PROVE  /\ Legal(v, h) /\ \A y : Has(v, h, y) => Has(w, h, y) \/ y = x
           /\ DepthIn(batches, h) > 0 => \/ v.changes[h] = <<>>
                                         \/ /\ Open(v.changes[h])
                                            /\ v.index[h] = Len(v.changes[h])
  <1>1. w \in AWorld /\ AllInRange(w) /\ Legal(w, h)
    BY DEF Sound
  <1>2. Depth(h) = DepthIn(batches, h)
    BY DepthThen
  <1>3. CASE Depth(h) = 0 /\ Adds(w, v, h, Record(x))
    <2>1. Record(x) \in AnEntry /\ Record(x).changes = <<x>>
      BY RecordIs DEF Record
    <2>2. Leads(Now(w), Record(x).changes, Now(v))
      BY RecordLeads
    <2>3. /\ Legal(v, h)
          /\ \A y : Has(v, h, y) => \/ Has(w, h, y)
                                    \/ \E i \in 1..Len(Record(x).changes) :
                                         y = Record(x).changes[i]
      BY <1>1, <1>3, <2>1, <2>2, AddsLegal
    <2>4. \A i \in 1..Len(Record(x).changes) : Record(x).changes[i] = x
      BY <2>1
    <2> QED BY <1>2, <1>3, <2>3, <2>4
  <1>4. CASE /\ IF Open(w.changes[h]) THEN w.index[h] # Len(w.changes[h]) ELSE Depth(h) # 0
             /\ v.changes[h] = Past(w, h) /\ v.index[h] = w.index[h]
    <2>1. Depth(h) > 0 /\ ~ (Open(w.changes[h]) /\ w.index[h] = Len(w.changes[h]))
      BY <1>4 DEF OpenInBatch
    <2>2. w.changes[h] = <<>>
      BY <1>2, <2>1 DEF InBatches
    <2>3. w.index[h] = 0 /\ w.index[h] = Len(w.changes[h])
      <3>1. w.index[h] \in Nat /\ w.index[h] <= Len(w.changes[h]) /\ Len(w.changes[h]) = 0
        BY <1>1, <2>2, WorldIs DEF AllInRange
      <3> QED BY <3>1
    <2>4. v.changes[h] = <<>> /\ v.index[h] = 0
      BY <1>1, <1>4, <2>2, <2>3, PastIs
    <2> QED BY <2>4, EmptyLegal, NothingHad
  <1>5. CASE /\ Open(w.changes[h]) /\ w.index[h] = Len(w.changes[h])
             /\ v.changes[h] = WithChange(w.changes[h], x) /\ v.index[h] = w.index[h]
    <2> DEFINE s == w.changes[h]
    <2>1. s \in Seq(AnEntry) /\ s # <<>> /\ LegalBook(s, Len(s), Now(w))
      BY <1>1, <1>5, WorldIs, BookIs DEF Open
    <2> HIDE DEF s
    <2>2. /\ LegalBook(WithChange(s, x), Len(s), Now(v))
          /\ \A y : Holds(WithChange(s, x), y) => Holds(s, y) \/ y = x
          /\ WithChange(s, x) # <<>> /\ Len(WithChange(s, x)) = Len(s)
          /\ Last(WithChange(s, x)).closed = Last(s).closed
      BY <2>1, WithLegal
    <2>3. v.changes[h] = WithChange(s, x) /\ v.index[h] = Len(s) /\ Open(s)
      BY <1>5 DEF s
    <2>4. Legal(v, h)
      BY <2>2, <2>3, BookIs
    <2>5. \A y : Has(v, h, y) => Has(w, h, y) \/ y = x
      BY <2>2, <2>3, BookIs DEF s
    <2>6. Open(v.changes[h]) /\ v.index[h] = Len(v.changes[h])
      BY <2>2, <2>3 DEF Open
    <2> QED BY <2>4, <2>5, <2>6
  <1> QED BY <1>3, <1>4, <1>5 DEF Recorded

\* What a program writes leaves everything in order.
LEMMA WriteSound ==
    ASSUME NEW w, Sound(w), LastOpen(w), InBatches(w, batches), OpenInBatch(w),
           \A g \in Historied : Depth(g) \in Nat,
           NEW x, Fitting(w, x), MayWrite(w, x, None), NEW v, v = Written(w, x, None)
    PROVE  /\ v \in AWorld /\ Tidy(v) /\ InBatches(v, batches)
           /\ \A g \in Historied : Legal(v, g)
  <1> DEFINE h == HistoryOf(w, x.obj)
             Afterwards(g) ==
                 /\ Legal(v, g) /\ \A y : Has(v, g, y) => Known(v, g, y)
                 /\ DepthIn(batches, g) > 0 => \/ v.changes[g] = <<>>
                                               \/ /\ Open(v.changes[g])
                                                  /\ v.index[g] = Len(v.changes[g])
  <1>1. w \in AWorld /\ AllInRange(w) /\ Tidy(w) /\ x \in AChange /\ x.obj \in Objects
    BY CellIs DEF Sound, Fitting
  <1>2. h \in Historied \cup {None} /\ (h \in Historied => h # None)
    BY <1>1, AllFound, FoundIs, NoObject DEF Tidy
  <1> HIDE DEF h
  <1>3. /\ v \in AWorld /\ Moves(w, v, x)
        /\ \A g \in Historied : g # h =>
             IF Flushes(w, x, g) THEN v.changes[g] = <<>> /\ v.index[g] = 0
             ELSE v.changes[g] = w.changes[g] /\ v.index[g] = w.index[g]
        /\ h \in Historied => Recorded(w, v, h, x) /\ ~ Flushes(w, x, h)
    <2>1. CASE h = None
      <3>1. v = Middle(w, w, x)
        BY <1>1, <2>1, WrittenAlone DEF h
      <3>2. /\ Middle(w, w, x) \in AWorld /\ Moves(w, Middle(w, w, x), x)
            /\ \A g \in Historied :
                 IF Flushes(w, x, g)
                 THEN Middle(w, w, x).changes[g] = <<>> /\ Middle(w, w, x).index[g] = 0
                 ELSE /\ Middle(w, w, x).changes[g] = w.changes[g]
                      /\ Middle(w, w, x).index[g] = w.index[g]
        BY <1>1, MiddleIs
      <3> QED BY <1>2, <2>1, <3>1, <3>2
    <2>2. CASE h \in Historied
      <3>1. h # None /\ HistoryOf(w, x.obj) = h
        BY <1>2, <2>2 DEF h
      <3> QED BY <1>1, <2>2, <3>1, WrittenIn
    <2> QED BY <1>2, <2>1, <2>2
  <1>4. Leap(Now(w), x, Now(v))
    <2>1. Now(v) = At(Now(w), Cell(x), After(x))
      BY <1>1, <1>3, MovesIs
    <2> QED BY <2>1, NowIs DEF Leap, At, Fitting
  <1>5. \A g \in Historied : \A y : Has(w, g, y) => Known(w, g, y)
    BY <1>1 DEF Tidy
  <1>6. Known(v, h, x)
    BY <1>1, <1>3, WriteKnowsIt DEF h
  <1>7. ASSUME NEW g \in Historied
        PROVE  Afterwards(g)
    <2>1. CASE g # h /\ Flushes(w, x, g)
      <3>1. v.changes[g] = <<>> /\ v.index[g] = 0
        BY <1>3, <2>1
      <3> QED BY <3>1, EmptyLegal, NothingHad
    <2>2. CASE g # h /\ ~ Flushes(w, x, g)
      <3>1. v.changes[g] = w.changes[g] /\ v.index[g] = w.index[g]
        BY <1>3, <2>2
      <3>2. \A y : Has(v, g, y) <=> Has(w, g, y)
        BY <3>1 DEF Has
      <3>3. \A y : Has(w, g, y) => Known(v, g, y)
        BY <1>1, <1>3, <1>5, <2>2, WriteKnown
      <3> DEFINE z == Cell(x)
                 a == After(x)
      <3>4. z \in Cells /\ Now(v) = [Now(w) EXCEPT ![z] = a]
        BY <1>1, <1>4, CellIs DEF Leap
      <3>5. \A y : Has(w, g, y) => Cell(y) # z
        BY <1>3, <1>6, <2>2, <3>3, Foreign
      <3> HIDE DEF z, a
      <3>6. Legal(w, g) /\ w.index[g] <= Len(w.changes[g])
        BY <1>1 DEF Sound, AllInRange
      <3>7. Legal(v, g)
        BY <1>1, <3>1, <3>4, <3>5, <3>6, AsideLegal
      <3> QED BY <3>1, <3>2, <3>3, <3>7 DEF InBatches
    <2>3. CASE g = h
      <3>1. Recorded(w, v, g, x) /\ ~ Flushes(w, x, g)
        BY <1>3, <2>3
      <3>2. /\ Legal(v, g) /\ \A y : Has(v, g, y) => Has(w, g, y) \/ y = x
            /\ DepthIn(batches, g) > 0 => \/ v.changes[g] = <<>>
                                          \/ /\ Open(v.changes[g])
                                             /\ v.index[g] = Len(v.changes[g])
        BY <1>1, <1>3, <1>4, <3>1, RecordedLegal
      <3>3. \A y : Has(w, g, y) => Known(v, g, y)
        BY <1>1, <1>3, <1>5, <3>1, WriteKnown
      <3> QED BY <1>6, <2>3, <3>2, <3>3
    <2> QED BY <2>1, <2>2, <2>3
  <1>8. Neat(v)
    BY <1>1, <1>3, WriteNeat
  <1>9. Tidy(v)
    BY <1>7, <1>8 DEF Neat, Tidy
  <1>10. InBatches(v, batches)
    BY <1>7 DEF InBatches
  <1> QED BY <1>3, <1>7, <1>9, <1>10

-----------------------------------------------------------------------------
(* Every step leaves everything in order.                                  *)

LEMMA DepthsElsewhere ==
    ASSUME NEW b \in Seq(Historied), NEW h \in Historied
    PROVE  \A g : g # h /\ DepthIn(Append(b, h), g) > 0 => DepthIn(b, g) > 0
  <1> DEFINE a == Append(b, h)
  <1>1. /\ a \in Seq(Historied) /\ a[Len(b) + 1] = h
        /\ \A n \in 1..Len(b) : a[n] = b[n]
        /\ \A n \in 1..Len(a) : n = Len(b) + 1 \/ n \in 1..Len(b)
    BY Appended
  <1> HIDE DEF a
  <1>2. ASSUME NEW g, g # h, DepthIn(a, g) > 0
        PROVE  DepthIn(b, g) > 0
    <2>1. PICK n \in 1..Len(a) : a[n] = g
      BY <1>1, <1>2, DepthIs
    <2>2. n \in 1..Len(b) /\ b[n] = g
      BY <1>1, <1>2, <2>1
    <2> QED BY <2>2, DepthIs
  <1> QED BY <1>2 DEF a

LEMMA DepthsLeft ==
    ASSUME NEW b \in Seq(Historied), b # <<>>
    PROVE  /\ \A g : DepthIn(Front(b), g) > 0 => DepthIn(b, g) > 0
           /\ DepthIn(b, Last(b)) = 1 => ~ (DepthIn(Front(b), Last(b)) > 0)
  <1>1. PICK a \in Seq(Historied), h \in Historied : b = Append(a, h)
    BY EmptyOrAppended
  <1>2. /\ Len(b) = Len(a) + 1 /\ b[Len(a) + 1] = h /\ Len(a) \in Nat
        /\ \A n \in 1..Len(a) : b[n] = a[n]
        /\ Front(b) = a /\ Last(b) = h
    BY <1>1, Appended
  <1>3. ASSUME NEW g, DepthIn(a, g) > 0
        PROVE  \E n \in 1..Len(a) : n \in 1..Len(b) /\ n # Len(a) + 1 /\ b[n] = g
    BY <1>2, <1>3, DepthIs
  <1>4. ASSUME DepthIn(b, h) = 1, DepthIn(a, h) > 0
        PROVE  FALSE
    <2>1. PICK n \in 1..Len(b) : n # Len(a) + 1 /\ b[n] = h
      BY <1>3, <1>4
    <2> DEFINE D == {k \in DOMAIN b : b[k] = h}
    <2>2. D \subseteq 1..Len(b) /\ n \in D /\ Len(a) + 1 \in D
      <3>1. DOMAIN b = 1..Len(b) /\ Len(a) + 1 \in 1..Len(b)
        BY <1>2
      <3> QED BY <1>2, <2>1, <3>1
    <2>3. Cardinality(D) = 1
      BY <1>4 DEF DepthIn
    <2> HIDE DEF D
    <2>4. IsFiniteSet(D)
      <3>1. IsFiniteSet(1..Len(b))
        BY <1>2, FS_Interval
      <3> QED BY <2>2, <3>1, FS_Subset
    <2>5. \E x : D = {x}
      BY <2>3, <2>4, FS_Singleton
    <2> QED BY <2>1, <2>2, <2>5
  <1>5. \A g : DepthIn(a, g) > 0 => DepthIn(b, g) > 0
    BY <1>3, DepthIs
  <1> QED BY <1>2, <1>4, <1>5

\* Everything in order: what is sound, and the batches b.
Ordered(w, b) == w \in AWorld /\ Tidy(w) /\ InBatches(w, b) /\ \A g \in Historied : Legal(w, g)

LEMMA OrderIs ==
    ASSUME IInv, Ordered(World, batches)
    PROVE  /\ Fixed /\ Sound(World) /\ AllInRange(World) /\ LastOpen(World) /\ World \in AWorld
           /\ OpenInBatch(World) /\ batches \in Seq(Historied)
           /\ \A g \in Historied : Depth(g) \in Nat /\ Depth(g) = DepthIn(batches, g)
  <1>1. Fixed /\ AllRight(World) /\ batches \in Seq(Historied)
    BY BooksRight DEF IInv, Typed
  <1>2. World \in AWorld /\ AllInRange(World) /\ LastOpen(World)
    BY <1>1, RightIs
  <1>3. \A g : Depth(g) = DepthIn(batches, g) /\ DepthIn(batches, g) \in Nat
    BY <1>1, DepthThen, DepthIs
  <1>4. ASSUME NEW g \in Historied, Open(World.changes[g])
        PROVE  Depth(g) > 0
    <2>1. /\ World.changes[g] \in Seq(AnEntry) /\ Len(World.changes[g]) \in Nat
          /\ World.changes[g] # <<>> /\ ~ World.changes[g][Len(World.changes[g])].closed
      BY <1>2, <1>4, WorldIs DEF Open, Last
    <2>2. Len(World.changes[g]) \in 1..Len(World.changes[g])
      BY <2>1
    <2> QED BY <1>1, <2>1, <2>2 DEF AllRight, Right, Booked
  <1>5. Sound(World)
    BY <1>2 DEF Ordered, Sound
  <1> QED BY <1>1, <1>2, <1>3, <1>4, <1>5 DEF OpenInBatch

LEMMA OrderedTo ==
    ASSUME Fixed, NEW b, NEW v, Becomes(v), batches' = b, Ordered(v, b)
    PROVE  Ordered(World', batches')
  <1>1. v \in AWorld
    BY DEF Ordered
  <1>2. World' = v
    BY <1>1, Became
  <1> QED BY <1>2

LEMMA WriteOrdered ==
    ASSUME IInv, Ordered(World, batches), NEW x, Fitting(World, x), Write(x)
    PROVE  Ordered(World', batches')
  <1>1. /\ MayWrite(World, x, None) /\ Becomes(Written(World, x, None)) /\ batches' = batches
    BY DEF Write
  <1>2. PICK v : v = Written(World, x, None)
    OBVIOUS
  <1>3. /\ v \in AWorld /\ Tidy(v) /\ InBatches(v, batches)
        /\ \A g \in Historied : Legal(v, g)
    BY <1>1, <1>2, OrderIs, WriteSound, Zenon DEF Ordered
  <1>4. Ordered(v, batches)
    BY <1>3 DEF Ordered
  <1> QED BY <1>1, <1>2, <1>4, OrderIs, OrderedTo

LEMMA PutFits ==
    ASSUME IInv, habits = {}, NEW o \in Holders, NEW c \in Movable, Put(o, c)
    PROVE  Fitting(World, PutOf(o, c))
  <1> DEFINE x == PutOf(o, c)
  <1>1. x.type = "put" /\ x.obj = o /\ x.child = c /\ x \in AChange /\ o \in Objects /\ c \in Objects
    BY DEF PutOf, AChange, Objects
  <1>2. MayWrite(World, x, None) /\ Settled(c) /\ Level[o] < Level[c]
    <2>1. Write(PutOf(o, c)) /\ Settled(c) /\ Level[o] < Level[c]
      <3>1. "move parents" \notin habits /\ "hold in turn" \notin habits
        OBVIOUS
      <3> QED BY <3>1, Zenon DEF Put
    <2> QED BY <2>1, Zenon DEF Write
  <1> HIDE DEF x
  <1>3. World.parent = parent /\ World.provider = provider
    BY DEF World
  <1>4. Now(World)[Cell(x)] = Before(x)
    <2>1. Now(World)[Cell(x)] = World.parent[c]
      BY <1>1, NowIs
    <2>2. World.parent[c] = None
      BY <1>1, <1>2 DEF MayWrite
    <2> QED BY <1>1, <2>1, <2>2 DEF Before
  <1> QED BY <1>1, <1>2, <1>3, <1>4 DEF Fitting, Settled, x

LEMMA TakeFits ==
    ASSUME IInv, NEW o \in Holders, NEW c \in Movable, Take(o, c)
    PROVE  Fitting(World, TakeOf(o, c))
  <1> DEFINE x == TakeOf(o, c)
  <1>1. x.type = "take" /\ x.obj = o /\ x.child = c /\ x \in AChange
    BY DEF TakeOf, AChange, Objects
  <1>2. MayWrite(World, x, None)
    BY Zenon DEF Take, Write
  <1> HIDE DEF x
  <1>3. Now(World)[Cell(x)] = Before(x)
    <2>1. Now(World)[Cell(x)] = World.parent[c]
      BY <1>1, NowIs
    <2>2. World.parent[c] = o
      BY <1>1, <1>2 DEF MayWrite
    <2> QED BY <1>1, <2>1, <2>2 DEF Before
  <1> QED BY <1>1, <1>3 DEF Fitting, x

LEMMA SetFits ==
    ASSUME IInv, NEW o \in Valued
    PROVE  Fitting(World, SetOf(o, value[o], 1 - value[o]))
  <1> DEFINE x == SetOf(o, value[o], 1 - value[o])
  <1>1. World.value = value /\ o \in Objects /\ World \in AWorld
    BY DEF World, Objects, IInv, Typed
  <1>2. value[o] \in {0, 1} /\ 1 - value[o] \in {0, 1}
    <2>1. value \in [Objects -> {0, 1}]
      BY <1>1, WorldParts
    <2>2. value[o] \in {0, 1}
      BY <1>1, <2>1
    <2> QED BY <2>2
  <1>3. x.type = "set" /\ x.obj = o /\ x.old = value[o] /\ x \in AChange
    BY <1>1, <1>2 DEF SetOf, AChange
  <1> HIDE DEF x
  <1>4. Now(World)[Cell(x)] = Before(x)
    <2>1. Now(World)[Cell(x)] = World.value[o]
      BY <1>3, NowIs
    <2> QED BY <1>1, <1>3, <2>1 DEF Before
  <1> QED BY <1>3, <1>4 DEF Fitting, x

\* What goes on with a history only.
LEMMA BookOnly ==
    ASSUME NEW w, NEW v, NEW h, Others(w, v, h)
    PROVE  /\ v \in AWorld /\ Now(v) = Now(w)
           /\ v.parent = w.parent /\ v.provider = w.provider /\ v.last = w.last
           /\ \A g \in Historied : g # h => v.changes[g] = w.changes[g] /\ v.index[g] = w.index[g]
  BY SameNow DEF Others

\* Everything stays in order where the book of one history changes and no cell.
LEMMA BookOrdered ==
    ASSUME NEW w, NEW c, Ordered(w, c), NEW v, NEW h \in Historied, Others(w, v, h), NEW b,
           \A g \in Historied : g # h /\ DepthIn(b, g) > 0 => DepthIn(c, g) > 0,
           Legal(v, h), \A x : Has(v, h, x) => Has(w, h, x),
           DepthIn(b, h) > 0 =>
             v.changes[h] = <<>> \/ (Open(v.changes[h]) /\ v.index[h] = Len(v.changes[h]))
    PROVE  Ordered(v, b)
  <1>1. /\ v \in AWorld /\ Now(v) = Now(w)
        /\ v.parent = w.parent /\ v.provider = w.provider /\ v.last = w.last
        /\ \A g \in Historied : g # h => v.changes[g] = w.changes[g] /\ v.index[g] = w.index[g]
    BY BookOnly
  <1>2. ASSUME NEW g \in Historied, g # h
        PROVE  Legal(v, g) /\ \A x : Has(v, g, x) => Has(w, g, x)
    BY <1>1, <1>2, KeptLegal DEF Ordered
  <1>3. \A g \in Historied : Legal(v, g) /\ \A x : Has(v, g, x) => Has(w, g, x)
    BY <1>2
  <1>4. Tidy(v)
    BY <1>1, <1>3, SameTidy DEF Ordered
  <1>5. InBatches(v, b)
    BY <1>1 DEF InBatches, Ordered
  <1> QED BY <1>1, <1>3, <1>4, <1>5 DEF Ordered

LEMMA TailOpen ==
    ASSUME NEW J \in Seq(AnEntry), NEW e \in AnEntry, ~ e.closed
    PROVE  LET t == Tail(Append(J, e))
           IN  Len(t) = Len(J) /\ (t = <<>> \/ Open(t))
  <1> DEFINE s == Append(J, e)
             t == Tail(s)
  <1>1. /\ s \in Seq(AnEntry) /\ s # <<>> /\ Len(s) = Len(J) + 1 /\ Len(J) \in Nat
        /\ s[Len(J) + 1] = e
    BY Appended
  <1> HIDE DEF s
  <1>2. t \in Seq(AnEntry) /\ Len(t) = Len(J) /\ \A n \in 1..Len(J) : t[n] = s[n + 1]
    BY <1>1
  <1> HIDE DEF t
  <1>3. ASSUME t # <<>>
        PROVE  Open(t)
    <2>1. Len(J) \in 1..Len(J)
      BY <1>1, <1>2, <1>3
    <2>2. Last(t) = e
      BY <1>1, <1>2, <2>1 DEF Last
    <2> QED BY <1>3, <2>2 DEF Open
  <1> QED BY <1>2, <1>3 DEF s, t

LEMMA EnterOrdered ==
    ASSUME IInv, Ordered(World, batches), NEW o \in Objects, EnterBatch(o)
    PROVE  Ordered(World', batches')
  <1> DEFINE h == HistoryOf(World, o)
             top == Depth(h) = 0
             v == Entered(World, h, top)
             b == Append(batches, h)
             w == World
  <1>1. h \in Historied /\ Becomes(v) /\ batches' = b
    BY DEF EnterBatch, HasHistory, HistoryOf
  <1> HIDE DEF h
  <1>2. /\ w \in AWorld /\ AllInRange(w) /\ batches \in Seq(Historied) /\ Legal(w, h)
        /\ top \in BOOLEAN /\ Depth(h) \in Nat /\ Depth(h) = DepthIn(batches, h) /\ Fixed
    BY <1>1, OrderIs DEF Ordered
  <1>3. ~ top => \/ w.changes[h] = <<>>
                 \/ Open(w.changes[h]) /\ w.index[h] = Len(w.changes[h])
    BY <1>1, <1>2 DEF Ordered, InBatches
  <1> HIDE DEF top, w
  <1>4. /\ Others(w, v, h)
        /\ top => Adds(w, v, h, OpenEntry)
        /\ ~ top => v.changes[h] = Past(w, h) /\ v.index[h] = w.index[h]
    BY <1>1, <1>2, EnteredIs DEF w
  <1> HIDE DEF v
  <1>5. Now(v) = Now(w)
    BY <1>4, BookOnly
  <1>6. /\ Past(w, h) \in Seq(AnEntry) /\ Len(Past(w, h)) = w.index[h] /\ w.index[h] \in Nat
        /\ w.index[h] = Len(w.changes[h]) => Past(w, h) = w.changes[h]
    BY <1>1, <1>2, PastIs, WorldIs
  <1>7. /\ Legal(v, h) /\ \A x : Has(v, h, x) => Has(w, h, x)
        /\ v.changes[h] = <<>> \/ (Open(v.changes[h]) /\ v.index[h] = Len(v.changes[h]))
    <2>1. CASE top
      <3>1. /\ OpenEntry \in AnEntry /\ ~ OpenEntry.closed
            /\ Leads(Now(w), OpenEntry.changes, Now(v)) /\ 1..Len(OpenEntry.changes) = {}
        <4>1. 1..Len(<<>>) = {}
          OBVIOUS
        <4> QED BY <1>5, <4>1, OpenEntryIs, LeadsNowhere
      <3>2. Adds(w, v, h, OpenEntry)
        BY <1>4, <2>1
      <3>3. /\ Legal(v, h)
            /\ \A x : Has(v, h, x) => Has(w, h, x) \/ \E i \in 1..Len(OpenEntry.changes) :
                                                        x = OpenEntry.changes[i]
        BY <1>1, <1>2, <3>1, <3>2, AddsLegal
      <3>4. v.changes[h] = <<>> \/ (Open(v.changes[h]) /\ v.index[h] = Len(v.changes[h]))
        <4> DEFINE J == Past(w, h)
        <4>1. /\ Append(J, OpenEntry) # <<>> /\ Last(Append(J, OpenEntry)) = OpenEntry
              /\ Len(Append(J, OpenEntry)) = Len(J) + 1
          BY <1>6, <3>1, Appended
        <4>2. LET t == Tail(Append(J, OpenEntry)) IN Len(t) = Len(J) /\ (t = <<>> \/ Open(t))
          BY <1>6, <3>1, TailOpen
        <4> QED BY <1>6, <3>1, <3>2, <4>1, <4>2 DEF Adds, Open
      <3> QED BY <3>1, <3>3, <3>4
    <2>2. CASE ~ top
      <3>1. Legal(v, h) /\ \A x : Has(v, h, x) => Has(w, h, x)
        BY <1>1, <1>2, <1>4, <1>5, <2>2, PastLegal
      <3>2. w.changes[h] = <<>> => w.index[h] = Len(w.changes[h])
        <4>1. w.index[h] <= Len(w.changes[h]) /\ Len(<<>>) = 0
          BY <1>1, <1>2 DEF AllInRange
        <4> QED BY <1>6, <4>1
      <3> QED BY <1>3, <1>4, <1>6, <2>2, <3>1, <3>2
    <2> QED BY <2>1, <2>2
  <1>8. \A g : g # h /\ DepthIn(b, g) > 0 => DepthIn(batches, g) > 0
    BY <1>1, <1>2, DepthsElsewhere
  <1> HIDE DEF b
  <1>9. Ordered(v, b)
    BY <1>1, <1>4, <1>7, <1>8, BookOrdered DEF w
  <1> QED BY <1>1, <1>2, <1>9, OrderedTo

LEMMA ExitOrdered ==
    ASSUME IInv, Ordered(World, batches), ExitBatch
    PROVE  Ordered(World', batches')
  <1> DEFINE h == Last(batches)
             v == Exited(World, h)
             b == Front(batches)
             w == World
  <1>1. /\ batches # <<>> /\ Becomes(IF Depth(h) = 1 THEN v ELSE w) /\ batches' = b
    BY DEF ExitBatch
  <1>2. /\ w \in AWorld /\ batches \in Seq(Historied) /\ Fixed
        /\ Depth(h) = DepthIn(batches, h)
    BY OrderIs, DepthThen
  <1>3. /\ h \in Historied /\ \A g : DepthIn(b, g) > 0 => DepthIn(batches, g) > 0
        /\ DepthIn(batches, h) = 1 => ~ (DepthIn(b, h) > 0)
    BY <1>1, <1>2, DepthExited, DepthsLeft
  <1> HIDE DEF h, b, w
  <1>4. CASE Depth(h) = 1
    <2>1. /\ Others(w, v, h) /\ v.index[h] = w.index[h]
          /\ v.changes[h] = IF Open(w.changes[h]) THEN Shut(w.changes[h]) ELSE w.changes[h]
      BY <1>2, <1>3, ExitedIs DEF w
    <2> HIDE DEF v
    <2>2. Now(v) = Now(w)
      BY <2>1, BookOnly
    <2>3. Legal(w, h) /\ w.changes[h] \in Seq(AnEntry)
      BY <1>2, <1>3, WorldIs DEF Ordered, w
    <2>4. Legal(v, h) /\ \A x : Has(v, h, x) => Has(w, h, x)
      <3>1. CASE Open(w.changes[h])
        <4> DEFINE s == w.changes[h]
        <4>1. LegalBook(s, w.index[h], Now(w)) /\ s # <<>>
          BY <2>3, <3>1, BookIs DEF Open
        <4>2. /\ LegalBook(Shut(s), w.index[h], Now(w))
              /\ \A y : Holds(Shut(s), y) => Holds(s, y)
          BY <2>3, <4>1, ShutLegal
        <4> QED BY <2>1, <2>2, <3>1, <4>2, BookIs
      <3>2. CASE ~ Open(w.changes[h])
        BY <2>1, <2>2, <2>3, <3>2, KeptLegal
      <3> QED BY <3>1, <3>2
    <2>5. Ordered(v, b)
      BY <1>2, <1>3, <1>4, <2>1, <2>4, BookOrdered DEF w
    <2> QED BY <1>1, <1>2, <1>4, <2>5, OrderedTo
  <1>5. CASE Depth(h) # 1
    <2>1. Ordered(w, b)
      BY <1>3 DEF Ordered, InBatches, w
    <2> QED BY <1>1, <1>2, <1>5, <2>1, OrderedTo
  <1> QED BY <1>4, <1>5

LEMMA FlushOrdered ==
    ASSUME IInv, Ordered(World, batches), NEW h \in Historied, Flush(h)
    PROVE  Ordered(World', batches')
  <1> DEFINE v == Flushed(World, {h})
  <1>1. Becomes(v) /\ batches' = batches /\ World \in AWorld /\ Fixed
    BY OrderIs DEF Flush
  <1>2. /\ v \in AWorld /\ v.parent = World.parent /\ v.value = World.value
        /\ v.provider = World.provider /\ v.last = World.last
        /\ \A g \in Historied :
             IF g \in {h} THEN v.changes[g] = <<>> /\ v.index[g] = 0
             ELSE v.changes[g] = World.changes[g] /\ v.index[g] = World.index[g]
    BY <1>1, FlushedIs
  <1> HIDE DEF v
  <1>3. Others(World, v, h) /\ v.changes[h] = <<>> /\ v.index[h] = 0
    BY <1>2 DEF Others
  <1>4. Legal(v, h) /\ \A x : Has(v, h, x) => Has(World, h, x)
    BY <1>3, EmptyLegal, NothingHad
  <1>5. Ordered(v, batches)
    BY <1>3, <1>4, BookOrdered
  <1> QED BY <1>1, <1>5, OrderedTo

LEMMA FlushRedoOrdered ==
    ASSUME IInv, Ordered(World, batches), NEW h \in Historied, FlushRedo(h)
    PROVE  Ordered(World', batches')
  <1> DEFINE v == RedoFlushed(World, h)
             w == World
  <1>1. /\ Becomes(v) /\ batches' = batches /\ w \in AWorld /\ AllInRange(w) /\ Fixed
        /\ Legal(w, h)
    BY OrderIs DEF FlushRedo, Ordered
  <1>2. Others(w, v, h) /\ v.changes[h] = Past(w, h) /\ v.index[h] = w.index[h]
    BY <1>1, RedoFlushedIs
  <1> HIDE DEF v, w
  <1>3. Now(v) = Now(w)
    BY <1>2, BookOnly
  <1>4. Legal(v, h) /\ \A x : Has(v, h, x) => Has(w, h, x)
    BY <1>1, <1>2, <1>3, PastLegal
  <1>5. /\ Past(w, h) = w.changes[h] \/ w.index[h] # Len(w.changes[h])
        /\ w.changes[h] = <<>> => w.index[h] = Len(w.changes[h])
    <2>1. w.index[h] <= Len(w.changes[h]) /\ Len(<<>>) = 0 /\ w.index[h] \in Nat
      BY <1>1, WorldIs DEF AllInRange
    <2> QED BY <1>1, <2>1, PastIs
  <1>6. DepthIn(batches, h) > 0 =>
          v.changes[h] = <<>> \/ (Open(v.changes[h]) /\ v.index[h] = Len(v.changes[h]))
    BY <1>2, <1>5 DEF Ordered, InBatches, w
  <1>7. Ordered(v, batches)
    BY <1>2, <1>4, <1>6, BookOrdered DEF w
  <1> QED BY <1>1, <1>7, OrderedTo

LEMMA GoesOrdered ==
    ASSUME IInv, habits = {}, Ordered(World, batches), NEW h \in Historied,
           NEW r, Winds(World, r, h), Goes(h, r)
    PROVE  Ordered(World', batches')
  <1>1. r.ok /\ Becomes(r.world) /\ batches' = batches /\ Depth(h) = 0
    BY DEF Goes, MayGoBack
  <1>2. PICK a, m : \/ r = [world |-> a, ok |-> FALSE, meets |-> m]
                    \/ r = [world |-> a, ok |-> TRUE, meets |-> m] /\ Wound(World, a, h)
    BY DEF Winds
  <1>3. r.world = a /\ Wound(World, a, h)
    BY <1>1, <1>2
  <1>4. /\ Sound(a) /\ a.changes = World.changes
        /\ \A g \in Historied : g # h => a.index[g] = World.index[g]
    BY <1>3 DEF Wound
  <1>5. DepthIn(batches, h) = 0 /\ Fixed
    BY <1>1, OrderIs
  <1>6. InBatches(a, batches)
    <2>1. ASSUME NEW g \in Historied, DepthIn(batches, g) > 0
          PROVE  a.changes[g] = World.changes[g] /\ a.index[g] = World.index[g]
      <3>1. g # h
        BY <1>5, <2>1
      <3> QED BY <1>4, <3>1
    <2> QED BY <2>1 DEF InBatches, Ordered
  <1>7. Ordered(a, batches)
    BY <1>4, <1>6 DEF Ordered, Sound
  <1> QED BY <1>1, <1>3, <1>5, <1>7, OrderedTo

LEMMA FixedKept == [Next]_vars => fixed' = fixed
  <1>1. \A w : Becomes(w) => fixed' = fixed
    BY DEF Becomes
  <1>2. \A x : Write(x) => fixed' = fixed
    BY <1>1 DEF Write
  <1>3. \A h, r : Goes(h, r) => fixed' = fixed
    BY <1>1 DEF Goes
  <1>4. \A o, c : Put(o, c) \/ Take(o, c) => fixed' = fixed
    BY <1>2 DEF Put, Take
  <1>5. \A o : SetValue(o) \/ EnterBatch(o) => fixed' = fixed
    BY <1>1, <1>2 DEF SetValue, EnterBatch
  <1>6. ExitBatch => fixed' = fixed
    BY <1>1 DEF ExitBatch
  <1>7. \A h, i : Undo(h) \/ Redo(h) \/ SetIndex(h, i) => fixed' = fixed
    BY <1>3 DEF Undo, Redo, SetIndex
  <1>8. \A h : Flush(h) \/ FlushRedo(h) => fixed' = fixed
    BY <1>1 DEF Flush, FlushRedo
  <1>9. UNCHANGED vars => fixed' = fixed
    BY DEF vars
  <1> QED BY <1>4, <1>5, <1>6, <1>7, <1>8, <1>9 DEF Next

LEMMA OrderedAfterwards ==
    ASSUME fixed' = fixed, Ordered(World', batches')
    PROVE  Ordered(World, batches)'
  <1>1. \A o, c : Adopts(o, c)' <=> Adopts(o, c)
    BY DEF Adopts, fixed
  <1>2. \A h, x : Known(World', h, x) => Known(World, h, x)'
    BY <1>1 DEF Known
  <1>3. Tidy(World)'
    BY <1>1, <1>2 DEF Ordered, Tidy
  <1> QED BY <1>3 DEF Ordered

LEMMA NextOrdered ==
    ASSUME IInv, habits = {}, Ordered(World, batches), [Next]_vars
    PROVE  Ordered(World', batches')
  <1>1. ASSUME NEW o \in Holders, NEW c \in Movable, Put(o, c)
        PROVE  Ordered(World', batches')
    <2>1. Write(PutOf(o, c))
      BY <1>1, Zenon DEF Put
    <2> QED BY <1>1, <2>1, PutFits, WriteOrdered
  <1>2. ASSUME NEW o \in Holders, NEW c \in Movable, Take(o, c)
        PROVE  Ordered(World', batches')
    <2>1. Write(TakeOf(o, c))
      BY <1>2, Zenon DEF Take
    <2> QED BY <1>2, <2>1, TakeFits, WriteOrdered
  <1>3. ASSUME NEW o \in Valued, SetValue(o)
        PROVE  Ordered(World', batches')
    <2>1. Write(SetOf(o, value[o], 1 - value[o]))
      BY <1>3, Zenon DEF SetValue
    <2> QED BY <2>1, SetFits, WriteOrdered
  <1>4. ASSUME NEW o \in Objects, EnterBatch(o)
        PROVE  Ordered(World', batches')
    BY <1>4, EnterOrdered
  <1>5. CASE ExitBatch
    BY <1>5, ExitOrdered
  <1>6. Sound(World)
    BY OrderIs
  <1>7. ASSUME NEW h \in Historied, Undo(h)
        PROVE  Ordered(World', batches')
    BY <1>6, <1>7, UndoneWinds, GoesOrdered DEF Undo
  <1>8. ASSUME NEW h \in Historied, Redo(h)
        PROVE  Ordered(World', batches')
    BY <1>6, <1>8, RedoneWinds, GoesOrdered DEF Redo
  <1>9. ASSUME NEW h \in Historied, NEW i \in 0..MaxEntries, SetIndex(h, i)
        PROVE  Ordered(World', batches')
    <2>1. i \in Nat
      BY EntriesBound
    <2> QED BY <1>6, <1>9, <2>1, IndexSetWinds, GoesOrdered DEF SetIndex
  <1>10. ASSUME NEW h \in Historied, Flush(h)
         PROVE  Ordered(World', batches')
    BY <1>10, FlushOrdered
  <1>11. ASSUME NEW h \in Historied, FlushRedo(h)
         PROVE  Ordered(World', batches')
    BY <1>11, FlushRedoOrdered
  <1>12. CASE UNCHANGED vars
    <2>1. Becomes(World) /\ batches' = batches
      BY <1>12 DEF vars, fixed, Becomes, World
    <2> QED BY <2>1, OrderIs, OrderedTo
  <1> QED BY <1>1, <1>2, <1>3, <1>4, <1>5, <1>7, <1>8, <1>9, <1>10, <1>11, <1>12 DEF Next

LEMMA InitOrdered == Init => Ordered(World, batches)
  <1> SUFFICES ASSUME Init
               PROVE  Ordered(World, batches)
    OBVIOUS
  <1>1. /\ World.parent = [o \in Objects |-> None]
        /\ World.provider = [o \in Objects |-> IF o \in Historied THEN o ELSE None]
        /\ World.changes = [h \in Historied |-> <<>>] /\ World.index = [h \in Historied |-> 0]
        /\ batches = <<>>
    BY DEF Init, World
  <1>2. World \in AWorld /\ batches \in Seq(Historied)
    BY Initially DEF IInv, Typed
  <1>3. \A h \in Historied : World.changes[h] = <<>> /\ World.index[h] = 0
    BY <1>1
  <1>4. \A h \in Historied : Legal(World, h) /\ \A x : ~ Has(World, h, x)
    BY <1>3, EmptyLegal, NothingHad
  <1>5. Tidy(World)
    BY <1>1, <1>4 DEF Tidy, Graded, Held
  <1>6. InBatches(World, batches)
    BY <1>3 DEF InBatches
  <1> QED BY <1>2, <1>4, <1>5, <1>6 DEF Ordered

\* What holds of programs that let objects hold each other in one direction only,
\* move none that has children, or had, and undo in no batch.
Careful == habits = {} => Ordered(World, batches)

\* Everything stays in order: every history is legal, which is that its entries
\* lead from state to state and the index is where the world is; a history knows
\* only of its own objects, and of children whose last parent has it; and in a
\* batch of a history nothing of it is undone.
THEOREM AlwaysCareful == Spec => []Careful
  <1>1. Init => Careful
    BY InitOrdered DEF Careful
  <1>2. IInv /\ Careful /\ [Next]_vars => Careful'
    <2> SUFFICES ASSUME IInv, Careful, [Next]_vars, habits' = {}
                 PROVE  Ordered(World, batches)'
      BY DEF Careful
    <2>1. fixed' = fixed /\ habits = {}
      BY FixedKept DEF fixed
    <2> QED BY <2>1, NextOrdered, OrderedAfterwards DEF Careful
  <1> QED BY <1>1, <1>2, Invariance, PTL DEF Spec

\* A child of an object is in no entry of another history (Application.__write,
\* which flushes the histories that know of a child where it gets another parent).
THEOREM OthersAlwaysForget == Spec => []OthersForget
  <1>1. IInv /\ Careful => OthersForget
    <2> SUFFICES ASSUME IInv, Careful, habits = {}, NEW c \in Movable, NEW h \in Historied,
                        parent[c] # None, h # HistoryOf(World, parent[c])
                 PROVE  /\ ~ Mentions(h, c, {"put", "take"})
                        /\ Adopts(parent[c], c) => ~ Mentions(h, c, {"set"})
      BY DEF OthersForget
    <2>1. World \in AWorld /\ Tidy(World) /\ c \in Objects
      BY DEF Careful, Ordered, Objects
    <2>2. /\ World.parent = parent /\ World.provider = provider /\ World.last = last
          /\ World.changes = changes
      BY DEF World
    <2>3. last[c] # h
      BY <2>1, <2>2 DEF Tidy
    <2>4. \A n, i : n \in DOMAIN changes[h] /\ i \in DOMAIN changes[h][n].changes
            => Known(World, h, changes[h][n].changes[i])
      <3> TAKE n, i
      <3> HAVE n \in DOMAIN changes[h] /\ i \in DOMAIN changes[h][n].changes
      <3>1. n \in 1..Len(changes[h])
        BY <2>1, <2>2, WorldIs
      <3>2. changes[h][n].changes \in Seq(AChange)
        BY <2>1, <2>2, <3>1, WorldIs, EntryIs
      <3>3. i \in 1..Len(changes[h][n].changes)
        BY <3>2
      <3>4. Has(World, h, changes[h][n].changes[i])
        BY <2>2, <3>1, <3>3 DEF Has
      <3> QED BY <2>1, <3>4 DEF Tidy
    <2>5. ~ Mentions(h, c, {"put", "take"})
      BY <2>2, <2>3, <2>4 DEF Mentions, Known
    <2>6. ASSUME Adopts(parent[c], c)
          PROVE  ~ Mentions(h, c, {"set"})
      <3>1. provider[c] = parent[c] /\ c \notin Historied /\ c # None
        BY <2>1, <2>2, <2>6, NoObject DEF Tidy, Adopts
      <3>2. HistoryOf(World, c) = HistoryOf(World, parent[c])
        <4>1. Onward(World, c) = parent[c]
          BY <2>2, <3>1 DEF Onward
        <4>2. HistoryFound(World, c)
          BY <2>1, AllFound DEF Tidy
        <4> QED BY <2>1, <4>1, <4>2, SameHistory
      <3> QED BY <2>4, <3>2 DEF Mentions, Known
    <2> QED BY <2>5, <2>6
  <1> QED BY <1>1, Invariance, AlwaysCareful, PTL

\* A history takes care of its validity (README.rst:449): its index is right, and
\* what it has can be undone to the first change and redone to the last one, each
\* change meeting what it starts from (HistoryObject.undo, redo, __push_change__).
THEOREM HistoriesAlwaysValid == Spec => []HistoriesValid
  <1>1. IInv /\ Careful /\ TypeOK => HistoriesValid
    <2> SUFFICES ASSUME IInv, Careful, TypeOK, NEW h \in Historied
                 PROVE  IndexRight(h) /\ (habits = {} => Valid(World, h))
      BY DEF HistoriesValid
    <2>1. IndexRight(h)
      BY DEF IInv
    <2>2. ASSUME habits = {}
          PROVE  Valid(World, h)
      <3>1. Sound(World)
        BY <2>2, OrderIs DEF Careful
      <3> QED BY <3>1, SoundValid
    <2> QED BY <2>1, <2>2
  <1> QED BY <1>1, Invariance, AlwaysCareful, AlwaysTypeOK, PTL

=============================================================================
