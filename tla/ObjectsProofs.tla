---------------------------- MODULE ObjectsProofs ----------------------------
(***************************************************************************)
(* Proofs about Objects, for every set of values, keys, indices, children  *)
(* and classes with attributes: that changes tell what they did, that undo *)
(* and redo restore what was there, that delegated attributes are current, *)
(* and the closure and the sorting of dependencies that this rests on.     *)
(* ObjectStoreProofs goes on from here.                                    *)
(***************************************************************************)
EXTENDS Objects, FiniteSetTheorems, SequenceTheorems, WellFoundedInduction, TLAPS

-----------------------------------------------------------------------------
(* Induction.                                                              *)

\* A set of numbers that is not empty has a least one.
LEMMA LeastNumber ==
    ASSUME NEW T \in SUBSET Nat, T # {}
    PROVE  \E x \in T : \A y \in T : x <= y
  <1> DEFINE R == OpToRel(<, Nat)
  <1>1. IsWellFoundedOn(R, Nat)
    BY NatLessThanWellFounded
  <1>2. \A x, y \in Nat : <<x, y>> \in R <=> x < y
    BY DEF OpToRel
  <1> HIDE DEF R
  <1>3. \E x \in T : \A y \in T : ~ (<<y, x>> \in R)
    BY <1>1, WFMin
  <1>4. \A x, y \in T : <<y, x>> \in R <=> y < x
    BY <1>2
  <1>5. \A x, y \in T : ~ (y < x) => x <= y
    OBVIOUS
  <1> QED BY <1>3, <1>4, <1>5

\* Induction, for a property that is given as the set of what has it.
LEMMA Induct ==
    ASSUME NEW S, 0 \in S, \A n \in Nat : n \in S => n + 1 \in S
    PROVE  \A n \in Nat : n \in S
  <1> DEFINE T == {n \in Nat : n \notin S}
  <1> SUFFICES ASSUME T # {} PROVE FALSE
    OBVIOUS
  <1>1. PICK x \in T : \A y \in T : x <= y
    BY LeastNumber
  <1>2. x # 0 /\ x - 1 \in Nat /\ x - 1 \notin T
    BY <1>1
  <1> QED BY <1>2

LEMMA ZeroOnly == 0..0 = {0} /\ \A n \in Nat : 0 \in 0..n
  OBVIOUS

LEMMA Below == \A n \in Nat : \A k \in 0..(n + 1) : k = 0 \/ (k # 0 /\ k - 1 \in 0..n)
  OBVIOUS

LEMMA OneFurther ==
    \A n \in Nat : /\ \A k \in 0..(n + 1) : \/ k = n + 1
                                            \/ k \in 0..n /\ k # n + 1
                   /\ n + 1 \in 0..(n + 1) /\ n + 1 # 0
                   /\ n + 1 \notin 0..n /\ n \in 0..n /\ (n + 1) - 1 = n
  OBVIOUS

-----------------------------------------------------------------------------
(* Sequences of all elements of a set.                                     *)

\* A sequence of all elements of a set has each once.
LEMMA Permuted ==
    ASSUME NEW S, IsFiniteSet(S), NEW q \in SetToSeqs(S)
    PROVE  /\ Cardinality(S) \in Nat /\ q \in Seq(S)
           /\ Len(q) = Cardinality(S) /\ DOMAIN q = 1..Cardinality(S)
           /\ \A i, j \in 1..Cardinality(S) : q[i] = q[j] => i = j
           /\ \A i \in 1..Cardinality(S) : q[i] \in S
           /\ \A x \in S : \E i \in 1..Cardinality(S) : q[i] = x
  <1> DEFINE N == Cardinality(S)
  <1>1. N \in Nat
    BY FS_CardinalityType
  <1>2. q \in [1..N -> S] /\ \A i, j \in 1..N : i # j => q[i] # q[j]
    BY DEF SetToSeqs
  <1>3. q \in Injection(1..N, S)
    BY <1>2 DEF Injection, IsInjective
  <1>4. Cardinality(1..N) = N
    BY <1>1, FS_Interval
  <1>5. q \in Surjection(1..N, S)
    BY <1>3, <1>4, FS_Injection
  <1>6. \A x \in S : \E i \in 1..N : q[i] = x
    BY <1>5 DEF Surjection
  <1>7. q \in Seq(S) /\ Len(q) = N
    BY <1>1, <1>2
  <1> QED BY <1>1, <1>2, <1>6, <1>7

\* Whatever the weights, some sequence is sorted by them.
LEMMA Sortable ==
    ASSUME NEW w, NEW S, IsFiniteSet(S), \A x \in S : w[x] \in Nat
    PROVE  \E q \in SetToSeqs(S) : \A i, j \in DOMAIN q : i < j => w[q[i]] <= w[q[j]]
  <1> DEFINE Rising(q) == \A i, j \in DOMAIN q : i < j => w[q[i]] <= w[q[j]]
             P == {n \in Nat : \A T \in SUBSET S :
                     Cardinality(T) = n => \E q \in SetToSeqs(T) : Rising(q)}
  <1>0. \A T \in SUBSET S : IsFiniteSet(T) /\ Cardinality(T) \in Nat
    BY FS_Subset, FS_CardinalityType
  <1>1. 0 \in P
    <2> SUFFICES ASSUME NEW T \in SUBSET S, Cardinality(T) = 0
                 PROVE  \E q \in SetToSeqs(T) : Rising(q)
      OBVIOUS
    <2>1. T = {}
      BY <1>0, FS_EmptySet
    <2> DEFINE q == [i \in 1..0 |-> i]
    <2>2. q \in SetToSeqs(T)
      <3>1. 1..0 = {}
        OBVIOUS
      <3> QED BY <3>1, <2>1 DEF SetToSeqs
    <2>3. Rising(q)
      OBVIOUS
    <2> QED BY <2>2, <2>3
  <1>2. ASSUME NEW n \in Nat, n \in P
        PROVE  n + 1 \in P
    <2> SUFFICES ASSUME NEW T \in SUBSET S, Cardinality(T) = n + 1
                 PROVE  \E q \in SetToSeqs(T) : Rising(q)
      OBVIOUS
    <2>1. T # {}
      BY FS_EmptySet
    <2> DEFINE W == {w[y] : y \in T}
    <2>2. W \in SUBSET Nat /\ W # {}
      BY <2>1
    <2>3. PICK b \in W : \A c \in W : b <= c
      BY <2>2, LeastNumber
    <2>4. PICK x \in T : \A y \in T : w[x] <= w[y]
      BY <2>3
    <2> DEFINE U == T \ {x}
    <2>5. U \in SUBSET S /\ Cardinality(U) = n
      <3>1. IsFiniteSet(T)
        BY <1>0
      <3>2. Cardinality(T \ {x}) = Cardinality(T) - 1
        BY <3>1, FS_RemoveElement
      <3> QED BY <3>2
    <2>6. PICK r \in SetToSeqs(U) : Rising(r)
      BY <1>2, <2>5
    <2>7. /\ DOMAIN r = 1..n
          /\ \A i, j \in 1..n : r[i] = r[j] => i = j
          /\ \A i \in 1..n : r[i] \in U
      BY <1>0, <2>5, <2>6, Permuted
    <2> DEFINE q == [i \in 1..(n + 1) |-> IF i = 1 THEN x ELSE r[i - 1]]
    <2>8. \A i \in 1..(n + 1) : i = 1 \/ (i # 1 /\ i - 1 \in 1..n)
      OBVIOUS
    <2>9. q \in [1..(n + 1) -> T]
      BY <2>7, <2>8
    <2>10. \A i, j \in 1..(n + 1) : i # j => q[i] # q[j]
      <3> SUFFICES ASSUME NEW i \in 1..(n + 1), NEW j \in 1..(n + 1), i # j
                   PROVE  q[i] # q[j]
        OBVIOUS
      <3>1. \A k \in 1..(n + 1) : k # 1 => q[k] \in U /\ q[k] # x /\ q[k] = r[k - 1]
        BY <2>7, <2>8
      <3>2. q[1] = x
        OBVIOUS
      <3> HIDE DEF q
      <3>3. CASE i = 1 \/ j = 1
        BY <3>1, <3>2, <3>3
      <3>4. CASE i # 1 /\ j # 1
        <4>1. i - 1 \in 1..n /\ j - 1 \in 1..n /\ i - 1 # j - 1
          BY <3>4
        <4> QED BY <3>1, <3>4, <4>1, <2>7
      <3> QED BY <3>3, <3>4
    <2>11. q \in SetToSeqs(T)
      BY <2>9, <2>10 DEF SetToSeqs
    <2>12. Rising(q)
      <3> SUFFICES ASSUME NEW i \in 1..(n + 1), NEW j \in 1..(n + 1), i < j
                   PROVE  w[q[i]] <= w[q[j]]
        OBVIOUS
      <3>1. j # 1 /\ j - 1 \in 1..n /\ q[j] = r[j - 1] /\ q[j] \in T
        BY <2>7
      <3>2. CASE i = 1
        BY <2>4, <3>1, <3>2
      <3>3. CASE i # 1
        <4>1. i - 1 \in 1..n /\ i - 1 < j - 1 /\ q[i] = r[i - 1]
          BY <3>3
        <4> QED BY <4>1, <3>1, <2>6, <2>7
      <3> QED BY <3>2, <3>3
    <2> QED BY <2>11, <2>12
  <1> HIDE DEF P
  <1>3. Cardinality(S) \in P
    BY <1>0, <1>1, <1>2, Induct
  <1> QED BY <1>3 DEF P

-----------------------------------------------------------------------------
(* The dependencies of dependencies.                                       *)

\* The dependencies of all attributes, with those of their dependencies, and with
\* those again after i rounds.
Direct(a)           == [n \in DOMAIN a |-> a[n].delegates.dependencies]
Wider(a, deps)      == [n \in DOMAIN a |-> deps[n] \cup UNION {deps[m] : m \in deps[n]}]
Widening(a, f, i)   == IF i = 0 THEN Direct(a) ELSE Wider(a, f[i - 1])

\* f is what the closure is after each of the first N rounds.
Widens(a, N, f) == f[0] = Direct(a) /\ \A k \in 1..N : f[k] = Wider(a, f[k - 1])

\* The rounds of the closure are a function on the numbers of rounds.
LEMMA WideningIs ==
    ASSUME NEW a, NEW N \in Nat
    PROVE  \E f : f = [i \in 0..N |-> Widening(a, f, i)]
  <1> DEFINE S == {n \in Nat : \E f : f = [i \in 0..n |-> Widening(a, f, i)]}
  <1>1. 0 \in S
    <2> DEFINE f == [i \in 0..0 |-> Direct(a)]
    <2>1. \A i \in 0..0 : Widening(a, f, i) = Direct(a)
      BY ZeroOnly DEF Widening
    <2>2. f = [i \in 0..0 |-> Widening(a, f, i)]
      BY <2>1
    <2> QED BY <2>2
  <1>2. ASSUME NEW n \in Nat, n \in S
        PROVE  n + 1 \in S
    <2>1. PICK f : f = [i \in 0..n |-> Widening(a, f, i)]
      BY <1>2
    <2> DEFINE g == [i \in 0..(n + 1) |-> IF i = n + 1 THEN Widening(a, f, n + 1) ELSE f[i]]
    <2>2. \A i \in 0..n : g[i] = f[i] /\ f[i] = Widening(a, f, i)
      BY <2>1, OneFurther
    <2>3. g[n + 1] = Widening(a, f, n + 1) /\ g = [i \in 0..(n + 1) |-> g[i]]
      BY OneFurther
    <2> HIDE DEF g
    <2>4. \A i \in 0..(n + 1) : Widening(a, g, i) = Widening(a, f, i)
      BY <2>2, Below DEF Widening
    <2>5. \A i \in 0..(n + 1) : g[i] = Widening(a, g, i)
      BY <2>2, <2>3, <2>4, OneFurther
    <2>6. g = [i \in 0..(n + 1) |-> Widening(a, g, i)]
      BY <2>3, <2>5
    <2> QED BY <2>6
  <1> HIDE DEF S
  <1>3. N \in S
    BY <1>1, <1>2, Induct
  <1> QED BY <1>3 DEF S

\* Closure is what there is after as many rounds as there are attributes.
LEMMA ClosureWidens ==
    ASSUME NEW a, IsFiniteSet(DOMAIN a)
    PROVE  \E f : Widens(a, Cardinality(DOMAIN a), f) /\ Closure(a) = f[Cardinality(DOMAIN a)]
  <1> DEFINE N == Cardinality(DOMAIN a)
             f == CHOOSE g : g = [i \in 0..N |-> Widening(a, g, i)]
  <1>0. N \in Nat
    BY FS_CardinalityType
  <1>1. f = [i \in 0..N |-> Widening(a, f, i)]
    BY <1>0, WideningIs
  <1>2. Closure(a) = f[N]
    BY DEF Closure, Widening, Direct, Wider
  <1> HIDE DEF f
  <1> HIDE DEF N
  <1>3. \A i \in 0..N : f[i] = Widening(a, f, i)
    BY <1>1
  <1>4. f[0] = Direct(a)
    BY <1>0, <1>3, ZeroOnly DEF Widening
  <1>5. \A k \in 1..N : k \in 0..N /\ k # 0
    BY <1>0
  <1>6. Widens(a, N, f)
    BY <1>3, <1>4, <1>5 DEF Widens, Widening
  <1> QED BY <1>2, <1>6 DEF N

\* Nothing leads out of a set that has the dependencies of its members.
LEMMA StaysWithin ==
    ASSUME NEW a, NEW N \in Nat, NEW f, Widens(a, N, f), NEW C \in SUBSET DOMAIN a,
           \A x \in C : a[x].delegates.dependencies \subseteq C
    PROVE  \A k \in 0..N : \A x \in DOMAIN a :
             a[x].delegates.dependencies \subseteq C => f[k][x] \subseteq C
  <1> DEFINE S == {k \in Nat : k <= N => \A x \in DOMAIN a :
                      a[x].delegates.dependencies \subseteq C => f[k][x] \subseteq C}
  <1>1. 0 \in S
    BY DEF Widens, Direct
  <1>2. ASSUME NEW k \in Nat, k \in S
        PROVE  k + 1 \in S
    <2> SUFFICES ASSUME k + 1 <= N, NEW x \in DOMAIN a, a[x].delegates.dependencies \subseteq C
                 PROVE  f[k + 1][x] \subseteq C
      OBVIOUS
    <2>1. k + 1 \in 1..N /\ (k + 1) - 1 = k /\ k <= N
      OBVIOUS
    <2>2. f[k + 1][x] = f[k][x] \cup UNION {f[k][m] : m \in f[k][x]}
      <3>1. f[k + 1] = Wider(a, f[k])
        BY <2>1 DEF Widens
      <3> QED BY <3>1 DEF Wider
    <2>3. f[k][x] \subseteq C
      BY <1>2, <2>1
    <2>4. \A m \in f[k][x] : f[k][m] \subseteq C
      BY <1>2, <2>1, <2>3
    <2> QED BY <2>2, <2>3, <2>4
  <1> HIDE DEF S
  <1>3. \A k \in Nat : k \in S
    BY <1>1, <1>2, Induct
  <1>4. \A k \in 0..N : k \in Nat /\ k <= N
    OBVIOUS
  <1> QED BY <1>3, <1>4 DEF S

\* Every round has what the one before had, and all that attributes depend on
\* directly.
LEMMA Widened ==
    ASSUME NEW a, NEW N \in Nat, NEW f, Widens(a, N, f),
           \A n \in DOMAIN a : a[n].delegates.dependencies \subseteq DOMAIN a
    PROVE  \A k \in 0..N : \A x \in DOMAIN a :
             /\ a[x].delegates.dependencies \subseteq f[k][x]
             /\ f[k][x] \subseteq DOMAIN a
             /\ k # N => f[k][x] \subseteq f[k + 1][x]
             /\ k # N => \A m \in f[k][x] : f[k][m] \subseteq f[k + 1][x]
             /\ k # N => \A y \in f[k + 1][x] : y \in f[k][x] \/ \E m \in f[k][x] : y \in f[k][m]
  <1>1. \A k \in 1..N : \A x \in DOMAIN a :
           f[k][x] = f[k - 1][x] \cup UNION {f[k - 1][m] : m \in f[k - 1][x]}
    BY DEF Widens, Wider
  <1>2. \A k \in 0..N : k # N => k + 1 \in 1..N /\ (k + 1) - 1 = k
    OBVIOUS
  <1>3. \A k \in 0..N : k # N => \A x \in DOMAIN a :
           f[k + 1][x] = f[k][x] \cup UNION {f[k][m] : m \in f[k][x]}
    BY <1>1, <1>2
  <1>4. \A k \in 0..N : \A x \in DOMAIN a : f[k][x] \subseteq DOMAIN a
    BY StaysWithin
  <1> DEFINE S == {k \in Nat : k <= N => \A x \in DOMAIN a :
                      a[x].delegates.dependencies \subseteq f[k][x]}
  <1>5. 0 \in S
    BY DEF Widens, Direct
  <1>6. ASSUME NEW k \in Nat, k \in S
        PROVE  k + 1 \in S
    <2>1. k + 1 <= N => k \in 0..N /\ k # N /\ k <= N
      OBVIOUS
    <2> QED BY <1>3, <1>6, <2>1
  <1> HIDE DEF S
  <1>7. \A k \in Nat : k \in S
    BY <1>5, <1>6, Induct
  <1>8. \A k \in 0..N : k \in Nat /\ k <= N
    OBVIOUS
  <1>9. \A k \in 0..N : \A x \in DOMAIN a : a[x].delegates.dependencies \subseteq f[k][x]
    BY <1>7, <1>8 DEF S
  <1> QED BY <1>3, <1>4, <1>9

\* After k rounds the first k + 1 attributes that were made have all of theirs.
LEMMA ClosedInTime ==
    ASSUME NEW a, IsFiniteSet(DOMAIN a), NEW f, Widens(a, Cardinality(DOMAIN a), f),
           NEW made \in SetToSeqs(DOMAIN a),
           \A i \in DOMAIN made :
             a[made[i]].delegates.dependencies \subseteq {made[j] : j \in 1..(i - 1)}
    PROVE  \A n \in DOMAIN a : \A x \in f[Cardinality(DOMAIN a)][n] :
             a[x].delegates.dependencies \subseteq f[Cardinality(DOMAIN a)][n]
  <1> DEFINE D(n) == a[n].delegates.dependencies
             N == Cardinality(DOMAIN a)
  <1>1. /\ N \in Nat /\ DOMAIN made = 1..N
        /\ \A i \in 1..N : made[i] \in DOMAIN a
        /\ \A n \in DOMAIN a : \E i \in 1..N : made[i] = n
    BY Permuted
  <1> HIDE DEF N
  <1>2. \A i \in 1..N : \A j \in 1..(i - 1) : j \in 1..N
    BY <1>1
  <1>3. \A n \in DOMAIN a : D(n) \subseteq DOMAIN a
    <2> TAKE n \in DOMAIN a
    <2>1. PICK i \in 1..N : made[i] = n
      BY <1>1
    <2> QED BY <1>1, <1>2, <2>1
  <1>4. Widens(a, N, f)
    BY DEF N
  <1> DEFINE Closed(k, n) == \A x \in f[k][n] : D(x) \subseteq f[k][n]
             S == {k \in Nat : k <= N => \A i \in 1..N : i <= k + 1 => Closed(k, made[i])}
  <1>5. 0 \in S
    <2> SUFFICES ASSUME 0 <= N, NEW i \in 1..N, i <= 1
                 PROVE  Closed(0, made[i])
      OBVIOUS
    <2>1. i = 1 /\ 1..(i - 1) = {}
      OBVIOUS
    <2>2. D(made[i]) \subseteq {}
      BY <1>1, <2>1
    <2>3. f[0][made[i]] = D(made[i])
      BY <1>1, <1>4 DEF Widens, Direct
    <2> QED BY <2>2, <2>3
  <1>6. ASSUME NEW k \in Nat, k \in S
        PROVE  k + 1 \in S
    <2> SUFFICES ASSUME k + 1 <= N, NEW i \in 1..N, i <= (k + 1) + 1
                 PROVE  Closed(k + 1, made[i])
      OBVIOUS
    <2> DEFINE n == made[i]
               C == D(n) \cup UNION {f[k][d] : d \in D(n)}
    <2>1. n \in DOMAIN a /\ k \in 0..N /\ k + 1 \in 0..N /\ k # N /\ k <= N
      BY <1>1
    <2>2. \A d \in D(n) : d \in DOMAIN a /\ Closed(k, d)
      <3> TAKE d \in D(n)
      <3>0. i \in DOMAIN made
        BY <1>1
      <3>1. PICK j \in 1..(i - 1) : d = made[j]
        BY <3>0
      <3>2. j \in 1..N /\ j <= k + 1
        BY <1>1
      <3> QED BY <1>1, <1>6, <2>1, <3>1, <3>2
    <2>3. \A d \in D(n) : D(d) \subseteq f[k][d] /\ f[k][d] \subseteq DOMAIN a
      BY <1>1, <1>3, <1>4, <2>1, <2>2, Widened
    <2>4. C \in SUBSET DOMAIN a /\ \A x \in C : D(x) \subseteq C
      BY <2>2, <2>3
    <2>5. f[k + 1][n] \subseteq C
      <3>1. D(n) \subseteq C
        OBVIOUS
      <3> HIDE DEF C
      <3>2. \A j \in 0..N : \A x \in DOMAIN a : D(x) \subseteq C => f[j][x] \subseteq C
        BY <1>1, <1>4, <2>4, StaysWithin
      <3> QED BY <2>1, <3>1, <3>2
    <2>6. C \subseteq f[k + 1][n]
      <3>1. D(n) \subseteq f[k][n] /\ f[k][n] \subseteq f[k + 1][n]
            /\ \A m \in f[k][n] : f[k][m] \subseteq f[k + 1][n]
        BY <1>1, <1>3, <1>4, <2>1, Widened
      <3> QED BY <3>1
    <2>7. f[k + 1][n] = C
      BY <2>5, <2>6
    <2> QED BY <2>4, <2>7
  <1> HIDE DEF S
  <1>7. N \in S
    BY <1>1, <1>5, <1>6, Induct
  <1>8. \A i \in 1..N : i <= N + 1 /\ N <= N
    BY <1>1
  <1>9. \A i \in 1..N : Closed(N, made[i])
    BY <1>7, <1>8 DEF S
  <1> QED BY <1>1, <1>9 DEF N

\* What an attribute depends on is in every set that has its dependencies and those of
\* its members.
LEMMA ClosureWithin ==
    ASSUME NEW a, ClassAccepted(a), NEW C \in SUBSET DOMAIN a,
           \A x \in C : a[x].delegates.dependencies \subseteq C,
           NEW n \in DOMAIN a, a[n].delegates.dependencies \subseteq C
    PROVE  Closure(a)[n] \subseteq C
  <1>1. IsFiniteSet(DOMAIN a)
    BY DEF ClassAccepted
  <1>2. PICK f : Widens(a, Cardinality(DOMAIN a), f) /\ Closure(a) = f[Cardinality(DOMAIN a)]
    BY <1>1, ClosureWidens
  <1> DEFINE N == Cardinality(DOMAIN a)
  <1>3. N \in Nat /\ N \in 0..N
    BY <1>1, FS_CardinalityType
  <1> HIDE DEF N
  <1>4. \A k \in 0..N : \A x \in DOMAIN a :
           a[x].delegates.dependencies \subseteq C => f[k][x] \subseteq C
    BY <1>2, <1>3, StaysWithin DEF N
  <1> QED BY <1>2, <1>3, <1>4 DEF N

\* What the metaclass computes by as many rounds as there are attributes (object.py, the
\* flattened dependencies): the attributes that an attribute depends on are those it
\* depends on directly and all that they depend on, nothing else, and never itself.
THEOREM ClosureRight ==
    ASSUME NEW a, ClassAccepted(a)
    PROVE  /\ \A n \in DOMAIN a : Closure(a)[n] \subseteq DOMAIN a
           /\ \A n \in DOMAIN a : a[n].delegates.dependencies \subseteq Closure(a)[n]
           /\ \A n \in DOMAIN a : \A m \in Closure(a)[n] : Closure(a)[m] \subseteq Closure(a)[n]
           /\ \A n \in DOMAIN a : \A m \in Closure(a)[n] :
                \/ m \in a[n].delegates.dependencies
                \/ \E d \in a[n].delegates.dependencies : m \in Closure(a)[d]
           /\ \A n \in DOMAIN a : n \notin Closure(a)[n]
  <1> DEFINE D(n) == a[n].delegates.dependencies
             N == Cardinality(DOMAIN a)
             F == Closure(a)
  <1>1. IsFiniteSet(DOMAIN a) /\ \A n \in DOMAIN a : D(n) \subseteq DOMAIN a
    BY DEF ClassAccepted
  <1>2. PICK made \in SetToSeqs(DOMAIN a) : \A i \in DOMAIN made :
           D(made[i]) \subseteq {made[j] : j \in 1..(i - 1)}
    BY DEF ClassAccepted, MadeInOrder
  <1>3. /\ N \in Nat /\ DOMAIN made = 1..N
        /\ \A i \in 1..N : made[i] \in DOMAIN a
        /\ \A i, j \in 1..N : made[i] = made[j] => i = j
        /\ \A n \in DOMAIN a : \E i \in 1..N : made[i] = n
    BY <1>1, Permuted
  <1>4. PICK f : Widens(a, N, f) /\ F = f[N]
    BY <1>1, ClosureWidens
  <1>5. \A n \in DOMAIN a : \A x \in F[n] : D(x) \subseteq F[n]
    BY <1>1, <1>2, <1>4, ClosedInTime
  <1> HIDE DEF N, F
  <1>6. N \in 0..N
    BY <1>3
  <1>7. \A n \in DOMAIN a : D(n) \subseteq F[n] /\ F[n] \subseteq DOMAIN a
    BY <1>1, <1>3, <1>4, <1>6, Widened
  <1>8. ASSUME NEW C \in SUBSET DOMAIN a, \A x \in C : D(x) \subseteq C,
               NEW x \in DOMAIN a, D(x) \subseteq C
        PROVE  F[x] \subseteq C
    BY <1>3, <1>4, <1>6, <1>8, StaysWithin
  <1>9. \A n \in DOMAIN a : \A m \in F[n] : F[m] \subseteq F[n]
    <2> TAKE n \in DOMAIN a
    <2> TAKE m \in F[n]
    <2>1. F[n] \in SUBSET DOMAIN a /\ m \in DOMAIN a /\ D(m) \subseteq F[n]
      BY <1>5, <1>7
    <2> QED BY <1>5, <1>8, <2>1
  <1>10. \A n \in DOMAIN a : \A m \in F[n] : m \in D(n) \/ \E d \in D(n) : m \in F[d]
    <2> TAKE n \in DOMAIN a
    <2> DEFINE C == D(n) \cup UNION {F[d] : d \in D(n)}
    <2>1. \A d \in D(n) : d \in DOMAIN a /\ F[d] \subseteq DOMAIN a /\ D(d) \subseteq F[d]
      BY <1>1, <1>7
    <2>2. C \in SUBSET DOMAIN a
      BY <2>1
    <2>3. \A x \in C : D(x) \subseteq C
      BY <1>5, <2>1
    <2>4. D(n) \subseteq C
      OBVIOUS
    <2> HIDE DEF C
    <2>5. F[n] \subseteq C
      BY <1>8, <2>2, <2>3, <2>4
    <2> QED BY <2>5 DEF C
  <1>11. \A n \in DOMAIN a : n \notin F[n]
    <2> TAKE n \in DOMAIN a
    <2>1. PICK i \in 1..N : made[i] = n
      BY <1>3
    <2> DEFINE C == {made[j] : j \in 1..(i - 1)}
    <2>2. \A j \in 1..(i - 1) : j \in 1..N /\ j # i /\ \A l \in 1..(j - 1) : l \in 1..(i - 1)
      BY <1>3
    <2>3. C \in SUBSET DOMAIN a /\ n \notin C
      BY <1>3, <2>1, <2>2
    <2>4. \A x \in C : D(x) \subseteq C
      <3> SUFFICES ASSUME NEW j \in 1..(i - 1)
                   PROVE  D(made[j]) \subseteq C
        OBVIOUS
      <3>1. D(made[j]) \subseteq {made[l] : l \in 1..(j - 1)}
        BY <1>2, <1>3, <2>2
      <3> QED BY <2>2, <3>1
    <2>5. D(n) \subseteq C
      BY <1>2, <1>3, <2>1
    <2> HIDE DEF C
    <2>6. F[n] \subseteq C
      BY <1>8, <2>3, <2>4, <2>5
    <2> QED BY <2>3, <2>6
  <1> QED BY <1>7, <1>9, <1>10, <1>11 DEF F

\* What an attribute depends on has fewer dependencies.
LEMMA FewerDependencies ==
    ASSUME NEW a, ClassAccepted(a), NEW n \in DOMAIN a, NEW m \in Closure(a)[n]
    PROVE  /\ Cardinality(Closure(a)[m]) \in Nat /\ Cardinality(Closure(a)[n]) \in Nat
           /\ Cardinality(Closure(a)[m]) < Cardinality(Closure(a)[n])
  <1> DEFINE M == Closure(a)[m]
             P == Closure(a)[n]
  <1>1. M \subseteq P /\ m \in P /\ m \notin M /\ P \subseteq DOMAIN a
    BY ClosureRight
  <1> HIDE DEF M, P
  <1>2. IsFiniteSet(P)
    BY <1>1, FS_Subset DEF ClassAccepted
  <1>3. IsFiniteSet(M) /\ Cardinality(M) <= Cardinality(P)
        /\ (Cardinality(P) = Cardinality(M) => P = M)
    BY <1>1, <1>2, FS_Subset
  <1>4. Cardinality(M) \in Nat /\ Cardinality(P) \in Nat
    BY <1>2, <1>3, FS_CardinalityType
  <1>5. Cardinality(M) < Cardinality(P)
    BY <1>1, <1>3, <1>4
  <1> QED BY <1>4, <1>5 DEF M, P

-----------------------------------------------------------------------------
(* The class of an object with attributes.                                 *)

\* What a class is that the metaclass accepted: its dependencies are its own attributes,
\* and only delegated attributes have any.
LEMMA ClassIs ==
    ASSUME class \in Classes
    PROVE  /\ ClassAccepted(class.attributes) /\ IsFiniteSet(Attributes)
           /\ class.flattened = Closure(class.attributes)
           /\ class.sorted = ByDependencies(class.attributes)
           /\ \A n \in Attributes :
                /\ class.dependents[n] = {m \in Attributes : n \in class.flattened[m]}
                /\ Dependencies[n] = class.attributes[n].delegates.dependencies
                /\ Dependencies[n] \subseteq Attributes
                /\ n \notin Delegating => Dependencies[n] = {}
                /\ n \in Delegating => Declared(n).delegates.returns \in Dependencies[n]
  <1>1. ClassAccepted(class.attributes) /\ class = ObjectClass(class.attributes)
    BY ClassesAssumption
  <1>2. /\ class.flattened = Closure(class.attributes)
        /\ class.sorted = ByDependencies(class.attributes)
        /\ class.dependents = Dependents(class.attributes)
    BY <1>1 DEF ObjectClass
  <1>3. \A n \in Attributes :
           class.dependents[n] = {m \in Attributes : n \in class.flattened[m]}
    BY <1>2 DEF Dependents, Attributes
  <1>4. \A n \in Attributes :
           /\ Dependencies[n] = class.attributes[n].delegates.dependencies
           /\ Dependencies[n] \subseteq Attributes
           /\ n \notin Delegating => Dependencies[n] = {}
           /\ n \in Delegating => Declared(n).delegates.returns \in Dependencies[n]
    BY <1>1 DEF ClassAccepted, Dependencies, Declared, Attributes, Delegating
  <1> QED BY <1>1, <1>2, <1>3, <1>4 DEF ClassAccepted, Attributes

\* Dependents of dependents are dependents, and nothing is its own.
LEMMA DependentsAre ==
    ASSUME class \in Classes
    PROVE  /\ \A n \in Attributes : \A d \in Dependencies[n] : n \in class.dependents[d]
           /\ \A n, m, t \in Attributes :
                m \in Dependencies[n] /\ m \in class.dependents[t] => n \in class.dependents[t]
           /\ \A n \in Attributes : n \notin class.dependents[n]
           /\ \A n \in Attributes : \A d \in Dependencies[n] : d \notin class.dependents[n]
           /\ \A n \in Attributes : class.dependents[n] \subseteq Attributes \ {n}
           /\ \A n \in Attributes : class.dependents[n] \subseteq Delegating
  <1> DEFINE a == class.attributes
             F == class.flattened
  <1>1. ClassAccepted(a) /\ F = Closure(a) /\ Attributes = DOMAIN a
    BY ClassIs DEF Attributes
  <1>2. \A n \in Attributes :
          /\ class.dependents[n] = {m \in Attributes : n \in F[m]}
          /\ Dependencies[n] = a[n].delegates.dependencies
          /\ Dependencies[n] \subseteq Attributes
          /\ n \notin Delegating => Dependencies[n] = {}
    BY ClassIs
  <1>3. /\ \A n \in Attributes : Dependencies[n] \subseteq F[n] /\ n \notin F[n]
        /\ \A n \in Attributes : \A m \in F[n] : F[m] \subseteq F[n]
        /\ \A n \in Attributes : \A m \in F[n] :
             m \in Dependencies[n] \/ \E d \in Dependencies[n] : m \in F[d]
    BY <1>1, <1>2, ClosureRight
  <1> HIDE DEF a, F
  <1>4. \A n \in Attributes : \A d \in Dependencies[n] : n \in class.dependents[d]
    BY <1>2, <1>3
  <1>5. \A n, m, t \in Attributes :
           m \in Dependencies[n] /\ m \in class.dependents[t] => n \in class.dependents[t]
    BY <1>2, <1>3
  <1>6. \A n \in Attributes : n \notin class.dependents[n]
    BY <1>2, <1>3
  <1>7. \A n \in Attributes : \A d \in Dependencies[n] : d \notin class.dependents[n]
    BY <1>2, <1>3
  <1>8. \A n \in Attributes : class.dependents[n] \subseteq Attributes \ {n}
    BY <1>2, <1>6
  <1>9. \A n \in Attributes : class.dependents[n] \subseteq Delegating
    BY <1>2, <1>3
  <1> QED BY <1>4, <1>5, <1>6, <1>7, <1>8, <1>9

\* Any of the names of a class, sorted: each once, after its dependencies.
LEMMA SortedIs ==
    ASSUME class \in Classes, NEW names \in SUBSET Attributes
    PROVE  /\ Cardinality(names) \in Nat
           /\ Len(Sorted(names)) = Cardinality(names)
           /\ DOMAIN Sorted(names) = 1..Cardinality(names)
           /\ \A i \in 1..Cardinality(names) : Sorted(names)[i] \in names
           /\ \A i, j \in 1..Cardinality(names) : Sorted(names)[i] = Sorted(names)[j] => i = j
           /\ \A n \in names : \E i \in 1..Cardinality(names) : Sorted(names)[i] = n
           /\ \A i, j \in 1..Cardinality(names) :
                i < j => Sorted(names)[i] \notin class.dependents[Sorted(names)[j]]
  <1> DEFINE a == class.attributes
             w == [n \in Attributes |-> Cardinality(Closure(a)[n])]
             q == Sorted(names)
             Rising(s) == \A i, j \in DOMAIN s : i < j => w[s[i]] <= w[s[j]]
             Least(s) == \A i, j \in DOMAIN s :
                 i < j => Cardinality(Closure(a)[s[i]]) <= Cardinality(Closure(a)[s[j]])
  <1>1. /\ ClassAccepted(a) /\ IsFiniteSet(Attributes) /\ Attributes = DOMAIN a
        /\ class.flattened = Closure(a) /\ class.sorted = ByDependencies(a)
        /\ \A n \in Attributes :
             class.dependents[n] = {m \in Attributes : n \in class.flattened[m]}
    BY ClassIs DEF Attributes
  <1>2. IsFiniteSet(names)
    BY <1>1, FS_Subset
  <1>3. \A n \in Attributes : Cardinality(Closure(a)[n]) \in Nat
    <2> TAKE n \in Attributes
    <2>1. Closure(a)[n] \subseteq Attributes
      BY <1>1, ClosureRight
    <2> QED BY <1>1, <2>1, FS_Subset, FS_CardinalityType
  <1>4. \A n \in names : w[n] \in Nat
    BY <1>3
  <1> HIDE DEF w
  <1>5. PICK s \in SetToSeqs(names) : Rising(s)
    BY <1>2, <1>4, Sortable
  <1>6. \A r \in SetToSeqs(names) : Rising(r) <=> Least(r)
    <2> TAKE r \in SetToSeqs(names)
    <2>1. \A i \in DOMAIN r : r[i] \in Attributes
      BY <1>2, Permuted
    <2> QED BY <2>1 DEF w
  <1>7. q = CHOOSE r \in SetToSeqs(names) : Least(r)
    BY <1>1 DEF Sorted, ByDependencies
  <1> HIDE DEF q
  <1>8. q \in SetToSeqs(names) /\ Least(q)
    BY <1>5, <1>6, <1>7
  <1>9. /\ Cardinality(names) \in Nat
        /\ Len(q) = Cardinality(names) /\ DOMAIN q = 1..Cardinality(names)
        /\ \A i, j \in 1..Cardinality(names) : q[i] = q[j] => i = j
        /\ \A i \in 1..Cardinality(names) : q[i] \in names
        /\ \A n \in names : \E i \in 1..Cardinality(names) : q[i] = n
    BY <1>2, <1>8, Permuted
  <1>10. ASSUME NEW i \in 1..Cardinality(names), NEW j \in 1..Cardinality(names), i < j,
                q[i] \in class.dependents[q[j]]
         PROVE  FALSE
    <2>1. q[i] \in Attributes /\ q[j] \in Attributes /\ q[j] \in Closure(a)[q[i]]
      BY <1>1, <1>9, <1>10
    <2>2. /\ Cardinality(Closure(a)[q[j]]) \in Nat /\ Cardinality(Closure(a)[q[i]]) \in Nat
          /\ Cardinality(Closure(a)[q[j]]) < Cardinality(Closure(a)[q[i]])
      BY <1>1, <2>1, FewerDependencies
    <2>3. Cardinality(Closure(a)[q[i]]) <= Cardinality(Closure(a)[q[j]])
      BY <1>8, <1>9, <1>10
    <2> QED BY <2>2, <2>3
  <1> QED BY <1>9, <1>10 DEF q

-----------------------------------------------------------------------------
(* The intermediary object of an update.                                   *)

States == [Attributes -> Values \cup {None}]

\* DelegatesCurrent, of a state.
Current(state) ==
    \A n \in Delegating :
        state[n] = IF \A d \in Dependencies[n] : state[d] # None
                   THEN Getter(n, [d \in Dependencies[n] |-> state[d]]) ELSE None

LEMMA CurrentIs == \A s : DelegatesCurrent(s) <=> Current(s.state)
  BY DEF DelegatesCurrent, Current

Known == Values \cup {None, DELETED}

\* New values come with the old ones.
Paired(s, i) ==
    \A n \in Attributes : /\ i.new[n] = None <=> i.old[n] = None
                          /\ i.old[n] # None => i.old[n] = OldValue(s, n)

\* What is dirty had no value, or it was taken.
DirtyGone(s, i) ==
    \A n \in i.dirty : i.new[n] = DELETED \/ (i.new[n] = None /\ s.state[n] = None)

\* What depends on what is dirty is dirty.
DirtySpreads(i) ==
    \A n \in Attributes : \A d \in Dependencies[n] : d \in i.dirty => n \in i.dirty

\* What is not dirty has what its getter returns.
Computed(s, i) ==
    \A n \in Delegating \ i.dirty :
        /\ \A d \in Dependencies[n] : ValueIn(s, i, d) # None
        /\ ValueIn(s, i, n) = Getter(n, [d \in Dependencies[n] |-> ValueIn(s, i, d)])

\* The intermediary object after any part of an update.
Right(s, i) ==
    /\ i.new \in [Attributes -> Known] /\ i.old \in [Attributes -> Known]
    /\ i.dirty \subseteq Attributes
    /\ Paired(s, i) /\ DirtyGone(s, i) /\ DirtySpreads(i) /\ Computed(s, i)

\* What a getter reads is a value, or nothing.
LEMMA ValueInIs ==
    ASSUME NEW s, NEW i, s.state \in States, Right(s, i), NEW n \in Attributes
    PROVE  ValueIn(s, i, n) \in Values \cup {None}
  BY DEF Right, ValueIn, States, Known

\* The state that the store gets.
LEMMA StateIs ==
    ASSUME NEW s, NEW i, s.state \in States, Right(s, i)
    PROVE  /\ AttributesStateAfter(s, i.new) = [n \in Attributes |-> ValueIn(s, i, n)]
           /\ AttributesStateAfter(s, i.new) \in States
  <1>1. \A n \in Attributes :
          (IF i.new[n] = None THEN s.state[n] ELSE IF i.new[n] = DELETED THEN None ELSE i.new[n])
            = ValueIn(s, i, n)
    BY DeletedAssumption DEF Right, DirtyGone, ValueIn
  <1>2. AttributesStateAfter(s, i.new) = [n \in Attributes |-> ValueIn(s, i, n)]
    BY <1>1 DEF AttributesStateAfter
  <1> QED BY <1>2, ValueInIs DEF States

\* Before anything is set the intermediary object is right.
LEMMA IntermediaryRight ==
    ASSUME class \in Classes, NEW s, s.state \in States, Current(s.state)
    PROVE  Right(s, Intermediary(s))
  <1> DEFINE i == Intermediary(s)
  <1>1. /\ i.new = [n \in Attributes |-> None] /\ i.old = [n \in Attributes |-> None]
        /\ i.dirty = {n \in Attributes : s.state[n] = None}
    BY DEF Intermediary
  <1> HIDE DEF i
  <1>2. /\ i.new \in [Attributes -> Known] /\ i.old \in [Attributes -> Known]
        /\ i.dirty \subseteq Attributes
    BY <1>1 DEF Known
  <1>3. Paired(s, i) /\ DirtyGone(s, i)
    BY <1>1 DEF Paired, DirtyGone
  <1>4. DirtySpreads(i)
    <2> SUFFICES ASSUME NEW n \in Attributes, NEW d \in Dependencies[n], d \in i.dirty
                 PROVE  s.state[n] = None
      BY <1>1 DEF DirtySpreads
    <2>1. n \in Delegating
      BY ClassIs
    <2>2. s.state[d] = None
      BY <1>1
    <2> QED BY <2>1, <2>2 DEF Current
  <1>5. \A n \in Attributes : ValueIn(s, i, n) = s.state[n]
    BY <1>1 DEF ValueIn
  <1>6. Computed(s, i)
    <2> SUFFICES ASSUME NEW n \in Delegating \ i.dirty
                 PROVE  /\ \A d \in Dependencies[n] : ValueIn(s, i, d) # None
                        /\ ValueIn(s, i, n)
                             = Getter(n, [d \in Dependencies[n] |-> ValueIn(s, i, d)])
      BY DEF Computed
    <2>1. n \in Attributes /\ s.state[n] # None
      BY <1>1 DEF Delegating
    <2>2. Dependencies[n] \subseteq Attributes
      BY <2>1, ClassIs
    <2>3. \A d \in Dependencies[n] : ValueIn(s, i, d) = s.state[d]
      BY <1>5, <2>2
    <2>4. [d \in Dependencies[n] |-> ValueIn(s, i, d)] = [d \in Dependencies[n] |-> s.state[d]]
      BY <2>3
    <2>5. /\ \A d \in Dependencies[n] : s.state[d] # None
          /\ s.state[n] = Getter(n, [d \in Dependencies[n] |-> s.state[d]])
      BY <2>1 DEF Current
    <2> QED BY <1>5, <2>1, <2>3, <2>4, <2>5
  <1> QED BY <1>2, <1>3, <1>4, <1>6 DEF Right, i

\* What a new value does to the value of the others.
LEMMA SetIs ==
    ASSUME class \in Classes, NEW s, NEW i, NEW t \in Attributes, NEW v, Right(s, i),
           s.state \in States, v \in Values \cup {DELETED}
    PROVE  LET j == SetNewValue(s, i, t, v)
               gone == class.dependents[t]
           IN  /\ j.dirty = (i.dirty \ {t}) \cup gone
               /\ t \notin j.dirty
               /\ \A m \in gone : ValueIn(s, j, m) = None
               /\ \A m \in Attributes \ (gone \cup {t}) : ValueIn(s, j, m) = ValueIn(s, i, m)
               /\ ValueIn(s, j, t) = IF v = DELETED THEN None ELSE v
  <1> DEFINE j == SetNewValue(s, i, t, v)
             gone == class.dependents[t]
  <1>1. gone \subseteq Attributes \ {t}
    BY DependentsAre
  <1>2. j.dirty = (i.dirty \ {t}) \cup gone
    BY DEF SetNewValue
  <1>3. \A m \in Attributes : m \notin gone /\ m # t => j.new[m] = i.new[m]
    BY DEF SetNewValue
  <1>4. j.new[t] = IF v = OldValue(s, t) THEN None ELSE v
    BY <1>1 DEF SetNewValue
  <1> HIDE DEF j, gone
  <1>5. t \notin j.dirty
    BY <1>1, <1>2
  <1>6. \A m \in gone : ValueIn(s, j, m) = None
    BY <1>2 DEF ValueIn
  <1>7. \A m \in Attributes \ (gone \cup {t}) : ValueIn(s, j, m) = ValueIn(s, i, m)
    BY <1>2, <1>3 DEF ValueIn
  <1>8. ValueIn(s, j, t) = IF v = DELETED THEN None ELSE v
    <2>1. s.state[t] \in Values \cup {None}
      BY DEF States
    <2>2. CASE v = OldValue(s, t)
      BY <1>4, <1>5, <2>1, <2>2, NoneAssumption, DeletedAssumption DEF ValueIn, OldValue
    <2>3. CASE v # OldValue(s, t)
      BY <1>4, <1>5, <2>3, NoneAssumption, DeletedAssumption DEF ValueIn
    <2> QED BY <2>2, <2>3
  <1> QED BY <1>2, <1>5, <1>6, <1>7, <1>8 DEF j, gone

\* What is set has no delegates, or has what its getter returns.
Gettable(s, i, t, v) ==
    t \in Delegating =>
      /\ \A d \in Dependencies[t] : ValueIn(s, i, d) # None
      /\ v = Getter(t, [d \in Dependencies[t] |-> ValueIn(s, i, d)])
      /\ v # DELETED

\* It stays right when a value is set that a getter could have returned, whatever
\* it makes dirty.
LEMMA SetRight ==
    ASSUME class \in Classes, NEW s, NEW i, NEW t \in Attributes, NEW v, Right(s, i),
           s.state \in States, v \in Values \cup {DELETED}, Gettable(s, i, t, v)
    PROVE  Right(s, SetNewValue(s, i, t, v))
  <1> DEFINE j == SetNewValue(s, i, t, v)
             gone == class.dependents[t]
  <1>1. /\ j.dirty = (i.dirty \ {t}) \cup gone /\ t \notin j.dirty
        /\ \A m \in gone : ValueIn(s, j, m) = None
        /\ \A m \in Attributes \ (gone \cup {t}) : ValueIn(s, j, m) = ValueIn(s, i, m)
        /\ ValueIn(s, j, t) = IF v = DELETED THEN None ELSE v
    BY SetIs
  <1>2. /\ j.new = [m \in Attributes |->
                     IF m \in gone THEN (IF s.state[m] = None THEN None ELSE DELETED)
                     ELSE IF m # t THEN i.new[m] ELSE IF v = OldValue(s, t) THEN None ELSE v]
        /\ j.old = [m \in Attributes |->
                     IF m \in gone THEN s.state[m]
                     ELSE IF m # t THEN i.old[m]
                     ELSE IF v = OldValue(s, t) THEN None ELSE OldValue(s, t)]
    BY DEF SetNewValue
  <1>3. gone \subseteq Attributes \ {t}
    BY DependentsAre
  <1> HIDE DEF j, gone
  <1>4. \A m \in Attributes : s.state[m] \in Values \cup {None} /\ OldValue(s, m) \in Values \cup {DELETED}
    BY DEF States, OldValue
  <1>5. i.new \in [Attributes -> Known] /\ i.old \in [Attributes -> Known] /\ i.dirty \subseteq Attributes
    BY DEF Right
  <1>6. j.new \in [Attributes -> Known] /\ j.old \in [Attributes -> Known]
    BY <1>2, <1>4, <1>5 DEF Known
  <1>7. j.dirty \subseteq Attributes
    BY <1>1, <1>3, <1>5
  <1>8. Paired(s, j)
    <2> SUFFICES ASSUME NEW m \in Attributes
                 PROVE  /\ j.new[m] = None <=> j.old[m] = None
                        /\ j.old[m] # None => j.old[m] = OldValue(s, m)
      BY DEF Paired
    <2>1. CASE m \in gone
      BY <1>2, <2>1, DeletedAssumption DEF OldValue
    <2>2. CASE m \notin gone /\ m # t
      BY <1>2, <2>2 DEF Right, Paired
    <2>3. CASE m \notin gone /\ m = t
      <3>1. v # None /\ OldValue(s, t) # None
        BY <1>4, NoneAssumption, DeletedAssumption
      <3> QED BY <1>2, <2>3, <3>1
    <2> QED BY <2>1, <2>2, <2>3
  <1>9. DirtyGone(s, j)
    <2> SUFFICES ASSUME NEW m \in j.dirty
                 PROVE  j.new[m] = DELETED \/ (j.new[m] = None /\ s.state[m] = None)
      BY DEF DirtyGone
    <2>1. m \in Attributes
      BY <1>7
    <2>2. CASE m \in gone
      BY <1>2, <2>1, <2>2
    <2>3. CASE m \notin gone
      <3>1. m \in i.dirty /\ m # t
        BY <1>1, <2>3
      <3>2. j.new[m] = i.new[m]
        BY <1>2, <2>1, <2>3, <3>1
      <3> QED BY <3>1, <3>2 DEF Right, DirtyGone
    <2> QED BY <2>2, <2>3
  <1>10. \A n \in Attributes : Dependencies[n] \subseteq Attributes
    BY ClassIs
  <1>11. /\ \A n \in Attributes : \A d \in Dependencies[n] : d = t => n \in gone
         /\ \A n \in Attributes : \A d \in Dependencies[n] : d \in gone => n \in gone
         /\ \A d \in Dependencies[t] : d \notin gone
    BY <1>10, DependentsAre DEF gone
  <1>12. DirtySpreads(j)
    <2> SUFFICES ASSUME NEW n \in Attributes, NEW d \in Dependencies[n], d \in j.dirty
                 PROVE  n \in j.dirty
      BY DEF DirtySpreads
    <2>1. CASE d \in gone
      BY <1>1, <1>11, <2>1
    <2>2. CASE d \notin gone
      <3>1. d \in i.dirty
        BY <1>1, <2>2
      <3>2. n \in i.dirty
        BY <3>1 DEF Right, DirtySpreads
      <3>3. n # t
        <4> SUFFICES ASSUME n = t PROVE FALSE
          OBVIOUS
        <4>1. t \in Delegating
          BY ClassIs
        <4>2. ValueIn(s, i, d) # None
          BY <4>1 DEF Gettable
        <4> QED BY <3>1, <4>2 DEF ValueIn
      <3> QED BY <1>1, <3>2, <3>3
    <2> QED BY <2>1, <2>2
  <1>13. Computed(s, j)
    <2> SUFFICES ASSUME NEW n \in Delegating \ j.dirty
                 PROVE  /\ \A d \in Dependencies[n] : ValueIn(s, j, d) # None
                        /\ ValueIn(s, j, n)
                             = Getter(n, [d \in Dependencies[n] |-> ValueIn(s, j, d)])
      BY DEF Computed
    <2>1. n \in Attributes
      BY DEF Delegating
    <2>2. \A d \in Dependencies[n] : d \in Attributes /\ d \notin j.dirty
      BY <1>10, <1>12, <2>1 DEF DirtySpreads
    <2>3. \A d \in Dependencies[n] : d # t /\ d \notin gone
      BY <1>1, <1>3, <1>11, <2>1, <2>2
    <2>4. \A d \in Dependencies[n] : ValueIn(s, j, d) = ValueIn(s, i, d)
      BY <1>1, <2>2, <2>3
    <2>5. [d \in Dependencies[n] |-> ValueIn(s, j, d)] = [d \in Dependencies[n] |-> ValueIn(s, i, d)]
      BY <2>4
    <2>6. CASE n = t
      <3>1. /\ \A d \in Dependencies[n] : ValueIn(s, i, d) # None
            /\ v = Getter(n, [d \in Dependencies[n] |-> ValueIn(s, i, d)]) /\ v # DELETED
        BY <2>6 DEF Gettable
      <3> QED BY <1>1, <2>4, <2>5, <2>6, <3>1
    <2>7. CASE n # t
      <3>1. n \notin gone /\ n \notin i.dirty
        BY <1>1, <2>7
      <3>2. ValueIn(s, j, n) = ValueIn(s, i, n)
        BY <1>1, <2>1, <2>7, <3>1
      <3>3. /\ \A d \in Dependencies[n] : ValueIn(s, i, d) # None
            /\ ValueIn(s, i, n) = Getter(n, [d \in Dependencies[n] |-> ValueIn(s, i, d)])
        BY <3>1 DEF Right, Computed
      <3> QED BY <2>4, <2>5, <3>2, <3>3
    <2> QED BY <2>6, <2>7
  <1> QED BY <1>6, <1>7, <1>8, <1>9, <1>12, <1>13 DEF Right, j

-----------------------------------------------------------------------------
(* The values of an update.                                                *)

\* The intermediary object after k of the values.
Setting(s, values, f, k) ==
    IF k = 0 THEN Intermediary(s)
    ELSE SetValue(s, f[k - 1], Sorted(DOMAIN values)[k], values[Sorted(DOMAIN values)[k]])

\* The values that were set one by one, as a function on how many.
LEMMA SettingIs ==
    ASSUME NEW s, NEW values, NEW N \in Nat
    PROVE  \E f : f = [i \in 0..N |-> Setting(s, values, f, i)]
  <1> DEFINE S == {n \in Nat : \E f : f = [i \in 0..n |-> Setting(s, values, f, i)]}
  <1>1. 0 \in S
    <2> DEFINE f == [i \in 0..0 |-> Intermediary(s)]
    <2>1. \A i \in 0..0 : Setting(s, values, f, i) = Intermediary(s)
      BY ZeroOnly DEF Setting
    <2>2. f = [i \in 0..0 |-> Setting(s, values, f, i)]
      BY <2>1
    <2> QED BY <2>2
  <1>2. ASSUME NEW n \in Nat, n \in S
        PROVE  n + 1 \in S
    <2>1. PICK f : f = [i \in 0..n |-> Setting(s, values, f, i)]
      BY <1>2
    <2> DEFINE g == [i \in 0..(n + 1) |-> IF i = n + 1 THEN Setting(s, values, f, n + 1) ELSE f[i]]
    <2>2. \A i \in 0..n : g[i] = f[i] /\ f[i] = Setting(s, values, f, i)
      BY <2>1, OneFurther
    <2>3. g[n + 1] = Setting(s, values, f, n + 1) /\ g = [i \in 0..(n + 1) |-> g[i]]
      BY OneFurther
    <2> HIDE DEF g
    <2>4. \A i \in 0..(n + 1) : Setting(s, values, g, i) = Setting(s, values, f, i)
      BY <2>2, Below DEF Setting
    <2>5. \A i \in 0..(n + 1) : g[i] = Setting(s, values, g, i)
      BY <2>2, <2>3, <2>4, OneFurther
    <2>6. g = [i \in 0..(n + 1) |-> Setting(s, values, g, i)]
      BY <2>3, <2>5
    <2> QED BY <2>6
  <1> HIDE DEF S
  <1>3. N \in S
    BY <1>1, <1>2, Induct
  <1> QED BY <1>3 DEF S

LEMMA ValuesSetIs ==
    ASSUME NEW s, NEW values, Len(Sorted(DOMAIN values)) \in Nat
    PROVE  \A i \in 0..Len(Sorted(DOMAIN values)) :
              ValuesSet(s, values)[i] = Setting(s, values, ValuesSet(s, values), i)
  <1> DEFINE N == Len(Sorted(DOMAIN values))
             f == CHOOSE g : g = [i \in 0..N |-> Setting(s, values, g, i)]
  <1>1. f = [i \in 0..N |-> Setting(s, values, f, i)]
    BY SettingIs
  <1>2. ValuesSet(s, values) = f
    BY DEF ValuesSet, Setting
  <1> HIDE DEF f
  <1> QED BY <1>1, <1>2

\* What is set or deleted is an attribute without delegates.
LEMMA WhatIsAccepted ==
    ASSUME NEW s, NEW i, NEW n, NEW v, Accepts(s, i, n, v)
    PROVE  n \in Attributes /\ v \in Values \cup {DELETED}
  <1>1. CASE v = DELETED
    BY <1>1 DEF Accepts, MayDelete, Deletable
  <1>2. CASE v # DELETED
    <2>1. MaySet(s, i, n, v)
      BY <1>2 DEF Accepts
    <2>2. n \in Attributes
      BY <2>1 DEF MaySet, Changeable, Stored
    <2>3. v \in Values
      BY <2>1 DEF MaySet, Fabricable, Values
    <2> QED BY <2>2, <2>3
  <1> QED BY <1>1, <1>2

LEMMA SettableIs ==
    ASSUME class \in Classes, NEW s, NEW i, NEW n \in Attributes, NEW v,
           SettableOnce(s, i, n, v)
    PROVE  /\ Target(n, v) \in Stored /\ Given(n, v) \in Values \cup {DELETED}
  <1>1. Target(n, v) \in Attributes /\ Given(n, v) \in Values \cup {DELETED}
    BY WhatIsAccepted DEF SettableOnce
  <1>2. Target(n, v) \notin Delegating
    <2>1. CASE n \in Delegating
      <3>1. \/ Target(n, v) = class.attributes[n].delegates.setter.target
            \/ Target(n, v) = class.attributes[n].delegates.deleter.target
        BY <2>1 DEF Target, Method, Declared
      <3>2. ~ class.attributes[Target(n, v)].delegates.delegated
        BY <1>1, <3>1, SettersAssumption DEF Attributes
      <3> QED BY <3>2 DEF Delegating, Declared
    <2>2. CASE n \notin Delegating
      BY <2>2 DEF Target
    <2> QED BY <2>1, <2>2
  <1> QED BY <1>1, <1>2 DEF Stored

\* It stays right when one value is set, or deleted once.
LEMMA SetOnceRight ==
    ASSUME class \in Classes, NEW s, NEW i, NEW n \in Attributes, NEW v, Right(s, i),
           s.state \in States, SettableOnce(s, i, n, v)
    PROVE  Right(s, SetOnce(s, i, n, v))
  <1>1. Target(n, v) \in Stored /\ Given(n, v) \in Values \cup {DELETED}
    BY SettableIs
  <1>2. Target(n, v) \in Attributes /\ Gettable(s, i, Target(n, v), Given(n, v))
    BY <1>1 DEF Stored, Gettable
  <1>3. Right(s, SetNewValue(s, i, Target(n, v), Given(n, v)))
    BY <1>1, <1>2, SetRight
  <1> QED BY <1>3 DEF SetOnce

\* And when it is deleted twice.
LEMMA SetValueRight ==
    ASSUME class \in Classes, NEW s, NEW i, NEW n \in Attributes, NEW v, Right(s, i),
           s.state \in States, Settable(s, i, n, v)
    PROVE  Right(s, SetValue(s, i, n, v))
  <1>1. SettableOnce(s, i, n, v) /\ (v = DELETED => SettableOnce(s, SetOnce(s, i, n, v), n, v))
    BY DEF Settable
  <1>2. Right(s, SetOnce(s, i, n, v))
    BY <1>1, SetOnceRight
  <1>3. v = DELETED => Right(s, SetOnce(s, SetOnce(s, i, n, v), n, v))
    BY <1>1, <1>2, SetOnceRight
  <1> QED BY <1>2, <1>3 DEF SetValue

\* It is right when all values of the update are set.
LEMMA ValuesRight ==
    ASSUME class \in Classes, NEW s, s.state \in States, Current(s.state),
           NEW values, DOMAIN values \subseteq Attributes, ValuesSettable(s, values)
    PROVE  Right(s, ValuesSet(s, values)[Cardinality(DOMAIN values)])
  <1> DEFINE names == Sorted(DOMAIN values)
             N == Cardinality(DOMAIN values)
             f == ValuesSet(s, values)
             S == {k \in Nat : k <= N => Right(s, f[k])}
  <1>1. /\ N \in Nat /\ Len(names) = N /\ DOMAIN names = 1..N
        /\ \A i \in 1..N : names[i] \in DOMAIN values
    BY SortedIs
  <1>2. \A i \in 0..N : f[i] = Setting(s, values, f, i)
    BY <1>1, ValuesSetIs
  <1>3. \A i \in 1..N : Settable(s, f[i - 1], names[i], values[names[i]])
    BY <1>1 DEF ValuesSettable
  <1> HIDE DEF f, names, N
  <1>4. 0 \in S
    <2>1. 0 \in 0..N
      BY <1>1
    <2>2. f[0] = Intermediary(s)
      BY <1>2, <2>1 DEF Setting
    <2> QED BY <2>2, IntermediaryRight
  <1>5. ASSUME NEW k \in Nat, k \in S
        PROVE  k + 1 \in S
    <2> SUFFICES ASSUME k + 1 <= N
                 PROVE  Right(s, f[k + 1])
      OBVIOUS
    <2> DEFINE n == names[k + 1]
               v == values[n]
    <2>1. k + 1 \in 1..N /\ k + 1 \in 0..N /\ (k + 1) - 1 = k /\ k + 1 # 0 /\ k <= N
      BY <1>1
    <2>2. n \in Attributes /\ Settable(s, f[k], n, v)
      BY <1>1, <1>3, <2>1
    <2>3. f[k + 1] = SetValue(s, f[k], n, v)
      BY <1>2, <2>1 DEF Setting, names
    <2>4. Right(s, f[k])
      BY <1>5, <2>1
    <2> HIDE DEF n, v
    <2> QED BY <2>2, <2>3, <2>4, SetValueRight
  <1> HIDE DEF S
  <1>6. N \in S
    BY <1>1, <1>4, <1>5, Induct
  <1> QED BY <1>1, <1>6 DEF S, f, N

-----------------------------------------------------------------------------
(* The results of the getters.                                             *)

\* A getter is called when all it depends on has a value.
Readable(s, j, n) == n \in Delegating /\ \A d \in Dependencies[n] : ValueIn(s, j, d) # None
Got(s, j, n)      == Getter(n, [d \in Dependencies[n] |-> ValueIn(s, j, d)])

\* The intermediary object after k of the getters.
Getting(s, i, f, k) ==
    IF k = 0 THEN i
    ELSE IF Readable(s, f[k - 1], Sorted(i.dirty)[k])
         THEN SetNewValue(s, f[k - 1], Sorted(i.dirty)[k], Got(s, f[k - 1], Sorted(i.dirty)[k]))
         ELSE f[k - 1]

\* The results that were got one by one, as a function on how many.
LEMMA GettingIs ==
    ASSUME NEW s, NEW i, NEW N \in Nat
    PROVE  \E f : f = [k \in 0..N |-> Getting(s, i, f, k)]
  <1> DEFINE S == {n \in Nat : \E f : f = [k \in 0..n |-> Getting(s, i, f, k)]}
  <1>1. 0 \in S
    <2> DEFINE f == [k \in 0..0 |-> i]
    <2>1. \A k \in 0..0 : Getting(s, i, f, k) = i
      BY ZeroOnly DEF Getting
    <2>2. f = [k \in 0..0 |-> Getting(s, i, f, k)]
      BY <2>1
    <2> QED BY <2>2
  <1>2. ASSUME NEW n \in Nat, n \in S
        PROVE  n + 1 \in S
    <2>1. PICK f : f = [k \in 0..n |-> Getting(s, i, f, k)]
      BY <1>2
    <2> DEFINE g == [k \in 0..(n + 1) |-> IF k = n + 1 THEN Getting(s, i, f, n + 1) ELSE f[k]]
    <2>2. \A k \in 0..n : g[k] = f[k] /\ f[k] = Getting(s, i, f, k)
      BY <2>1, OneFurther
    <2>3. g[n + 1] = Getting(s, i, f, n + 1) /\ g = [k \in 0..(n + 1) |-> g[k]]
      BY OneFurther
    <2> HIDE DEF g
    <2>4. \A k \in 0..(n + 1) : Getting(s, i, g, k) = Getting(s, i, f, k)
      BY <2>2, Below DEF Getting
    <2>5. \A k \in 0..(n + 1) : g[k] = Getting(s, i, g, k)
      BY <2>2, <2>3, <2>4, OneFurther
    <2>6. g = [k \in 0..(n + 1) |-> Getting(s, i, g, k)]
      BY <2>3, <2>5
    <2> QED BY <2>6
  <1> HIDE DEF S
  <1>3. N \in S
    BY <1>1, <1>2, Induct
  <1> QED BY <1>3 DEF S

LEMMA ResultsAre ==
    ASSUME NEW s, NEW i, NEW N \in Nat, Len(Sorted(i.dirty)) = N
    PROVE  \E f : /\ \A k \in 0..N : f[k] = Getting(s, i, f, k)
                  /\ Results(s, i) = f[N]
  <1> DEFINE f == CHOOSE g : g = [k \in 0..N |-> Getting(s, i, g, k)]
             Step(g, k) == LET j == g[k - 1]
                               n == Sorted(i.dirty)[k]
                               read == [d \in Dependencies[n] |-> ValueIn(s, j, d)]
                           IN  IF n \in Delegating /\ \A d \in Dependencies[n] : read[d] # None
                               THEN SetNewValue(s, j, n, Getter(n, read)) ELSE j
  <1>1. f = [k \in 0..N |-> Getting(s, i, f, k)]
    BY GettingIs
  <1>2. \A g, k : (IF k = 0 THEN i ELSE Step(g, k)) = Getting(s, i, g, k)
    BY DEF Getting, Readable, Got
  <1>3. Results(s, i) = (CHOOSE g : g = [k \in 0..N |-> IF k = 0 THEN i ELSE Step(g, k)])[N]
    BY DEF Results
  <1>4. \A g : [k \in 0..N |-> IF k = 0 THEN i ELSE Step(g, k)] = [k \in 0..N |-> Getting(s, i, g, k)]
    BY <1>2
  <1> HIDE DEF Step
  <1>5. (CHOOSE g : g = [k \in 0..N |-> IF k = 0 THEN i ELSE Step(g, k)]) = f
    BY <1>4
  <1>6. Results(s, i) = f[N]
    BY <1>3, <1>5
  <1> HIDE DEF f
  <1>7. \A k \in 0..N : f[k] = Getting(s, i, f, k)
    BY <1>1
  <1> QED BY <1>6, <1>7

\* What a getter returns can be set.
LEMMA GotIs ==
    ASSUME class \in Classes, NEW s, s.state \in States, NEW j, Right(s, j),
           NEW n, Readable(s, j, n)
    PROVE  Got(s, j, n) \in Values /\ Gettable(s, j, n, Got(s, j, n))
  <1>1. n \in Attributes /\ n \in Delegating
    BY DEF Readable, Delegating
  <1>2. Declared(n).delegates.returns \in Dependencies[n] /\ Dependencies[n] \subseteq Attributes
    BY <1>1, ClassIs
  <1>3. Got(s, j, n) = ValueIn(s, j, Declared(n).delegates.returns)
    BY <1>2 DEF Got, Getter
  <1>4. Got(s, j, n) \in Values
    BY <1>2, <1>3, ValueInIs DEF Readable
  <1> QED BY <1>4, DeletedAssumption DEF Gettable, Readable, Got

\* What is dirty after some of the getters, of those that had their turn, depends on
\* something that has no value.
Undecided(s, j, names) ==
    \A n \in Delegating \cap names \cap j.dirty : \E d \in Dependencies[n] : ValueIn(s, j, d) = None

\* An attribute that nothing of names depends on gets its value.
LEMMA StaysUndecided ==
    ASSUME class \in Classes, NEW s, s.state \in States, NEW j, Right(s, j),
           NEW names \in SUBSET Attributes, NEW n, Readable(s, j, n), Undecided(s, j, names),
           names \cap class.dependents[n] = {}
    PROVE  Undecided(s, SetNewValue(s, j, n, Got(s, j, n)), names \cup {n})
  <1> DEFINE h == SetNewValue(s, j, n, Got(s, j, n))
             gone == class.dependents[n]
  <1>1. n \in Attributes /\ Got(s, j, n) \in Values \cup {DELETED}
    BY GotIs DEF Readable, Delegating
  <1>2. /\ h.dirty = (j.dirty \ {n}) \cup gone /\ n \notin h.dirty
        /\ \A m \in gone : ValueIn(s, h, m) = None
        /\ \A m \in Attributes \ (gone \cup {n}) : ValueIn(s, h, m) = ValueIn(s, j, m)
    BY <1>1, SetIs
  <1>3. \A m \in Attributes : \A d \in Dependencies[m] :
          d \in Attributes /\ (d = n => m \in gone)
    BY <1>1, ClassIs, DependentsAre
  <1> HIDE DEF h, gone
  <1> SUFFICES ASSUME NEW m \in Delegating \cap (names \cup {n}) \cap h.dirty
               PROVE  \E d \in Dependencies[m] : ValueIn(s, h, d) = None
    BY DEF Undecided, h
  <1>4. m \in Attributes /\ m \in names /\ m \notin gone /\ m \in j.dirty
    BY <1>1, <1>2 DEF gone
  <1>5. PICK d \in Dependencies[m] : ValueIn(s, j, d) = None
    BY <1>4 DEF Undecided
  <1>6. d \in Attributes /\ d # n
    BY <1>3, <1>4
  <1>7. ValueIn(s, h, d) = None
    BY <1>2, <1>5, <1>6
  <1> QED BY <1>7

\* All that depends on what is dirty is dirty, however far away.
LEMMA DependentsDirty ==
    ASSUME class \in Classes, NEW s, NEW i, Right(s, i), NEW n \in i.dirty
    PROVE  class.dependents[n] \subseteq i.dirty
  <1> DEFINE a == class.attributes
             C == Attributes \ i.dirty
  <1>1. /\ ClassAccepted(a) /\ class.flattened = Closure(a) /\ Attributes = DOMAIN a
        /\ \A m \in Attributes : /\ Dependencies[m] = a[m].delegates.dependencies
                                 /\ Dependencies[m] \subseteq Attributes
    BY ClassIs DEF Attributes
  <1>2. n \in Attributes /\ class.dependents[n] = {m \in Attributes : n \in class.flattened[m]}
    BY ClassIs DEF Right
  <1>3. \A m \in C : a[m].delegates.dependencies \subseteq C
    BY <1>1 DEF Right, DirtySpreads
  <1> SUFFICES ASSUME NEW m \in C, n \in class.flattened[m]
               PROVE  FALSE
    BY <1>2
  <1>4. C \in SUBSET DOMAIN a /\ m \in DOMAIN a /\ a[m].delegates.dependencies \subseteq C
    BY <1>1, <1>3
  <1> HIDE DEF C
  <1>5. Closure(a)[m] \subseteq C
    BY <1>1, <1>3, <1>4, ClosureWithin
  <1> QED BY <1>1, <1>5 DEF C

\* After all getters delegated attributes have what theirs return.
LEMMA ResultsRight ==
    ASSUME class \in Classes, NEW s, s.state \in States, NEW i, Right(s, i)
    PROVE  /\ Right(s, Results(s, i))
           /\ Current([n \in Attributes |-> ValueIn(s, Results(s, i), n)])
  <1> DEFINE names == Sorted(i.dirty)
             N == Cardinality(i.dirty)
  <1>1. /\ N \in Nat /\ Len(names) = N
        /\ \A k \in 1..N : names[k] \in i.dirty
        /\ \A n \in i.dirty : \E k \in 1..N : names[k] = n
        /\ \A k, l \in 1..N : k < l => names[k] \notin class.dependents[names[l]]
    <2>1. i.dirty \in SUBSET Attributes
      BY DEF Right
    <2> QED BY <2>1, SortedIs
  <1>2. PICK f : /\ \A k \in 0..N : f[k] = Getting(s, i, f, k)
                 /\ Results(s, i) = f[N]
    BY <1>1, ResultsAre
  <1> DEFINE Passed(k) == {names[l] : l \in 1..k}
             S == {k \in Nat : k <= N => /\ Right(s, f[k]) /\ f[k].dirty \subseteq i.dirty
                                         /\ Undecided(s, f[k], Passed(k))}
  <1> HIDE DEF names, N
  <1>3. 0 \in S
    <2>1. 0 \in 0..N /\ 1..0 = {}
      BY <1>1
    <2>2. f[0] = i
      BY <1>2, <2>1 DEF Getting
    <2>3. Passed(0) = {}
      BY <2>1
    <2> QED BY <2>2, <2>3 DEF Undecided
  <1>4. ASSUME NEW k \in Nat, k \in S
        PROVE  k + 1 \in S
    <2> SUFFICES ASSUME k + 1 <= N
                 PROVE  /\ Right(s, f[k + 1]) /\ f[k + 1].dirty \subseteq i.dirty
                        /\ Undecided(s, f[k + 1], Passed(k + 1))
      OBVIOUS
    <2> DEFINE n == names[k + 1]
               j == f[k]
    <2>1. k + 1 \in 1..N /\ k + 1 \in 0..N /\ (k + 1) - 1 = k /\ k + 1 # 0 /\ k <= N
      BY <1>1
    <2>2. n \in i.dirty /\ n \in Attributes
      BY <1>1, <2>1 DEF Right
    <2>3. Right(s, j) /\ j.dirty \subseteq i.dirty /\ Undecided(s, j, Passed(k))
      BY <1>4, <2>1
    <2>4. f[k + 1] = IF Readable(s, j, n) THEN SetNewValue(s, j, n, Got(s, j, n)) ELSE j
      BY <1>2, <2>1 DEF Getting, names
    <2>5. \A l \in 1..(k + 1) : l \in 1..k \/ l = k + 1
      OBVIOUS
    <2>6. Passed(k + 1) = Passed(k) \cup {n}
      <3>1. \A l \in 1..k : l \in 1..(k + 1)
        OBVIOUS
      <3> QED BY <2>1, <2>5, <3>1
    <2>7. Passed(k) \cap class.dependents[n] = {}
      <3>1. \A l \in 1..k : l \in 1..N /\ l < k + 1
        BY <1>1, <2>1
      <3>2. \A l \in 1..k : names[l] \notin class.dependents[names[k + 1]]
        BY <1>1, <2>1, <3>1
      <3> QED BY <3>2
    <2>8. Passed(k) \in SUBSET Attributes
      <3>1. \A l \in 1..k : l \in 1..N
        BY <1>1, <2>1
      <3>2. i.dirty \subseteq Attributes
        BY DEF Right
      <3> QED BY <1>1, <3>1, <3>2
    <2> HIDE DEF Passed, n, j
    <2>9. CASE Readable(s, j, n)
      <3>1. Got(s, j, n) \in Values /\ Gettable(s, j, n, Got(s, j, n))
        BY <2>3, <2>9, GotIs
      <3>2. Right(s, f[k + 1])
        BY <2>2, <2>3, <2>4, <2>9, <3>1, SetRight
      <3>3. f[k + 1].dirty = (j.dirty \ {n}) \cup class.dependents[n]
        BY <2>4, <2>9 DEF SetNewValue
      <3>4. class.dependents[n] \subseteq i.dirty
        BY <2>2, DependentsDirty
      <3>5. Undecided(s, f[k + 1], Passed(k) \cup {n})
        BY <2>3, <2>4, <2>7, <2>8, <2>9, StaysUndecided
      <3> QED BY <2>3, <2>6, <3>2, <3>3, <3>4, <3>5
    <2>10. CASE ~ Readable(s, j, n)
      <3>1. f[k + 1] = j
        BY <2>4, <2>10
      <3>2. Undecided(s, j, Passed(k) \cup {n})
        BY <2>3, <2>10 DEF Undecided, Readable
      <3> QED BY <2>3, <2>6, <3>1, <3>2
    <2> QED BY <2>9, <2>10
  <1> HIDE DEF S
  <1>5. N \in S /\ N <= N
    BY <1>1, <1>3, <1>4, Induct
  <1> DEFINE o == Results(s, i)
             v == [n \in Attributes |-> ValueIn(s, o, n)]
  <1>6. Right(s, o) /\ o.dirty \subseteq i.dirty /\ Undecided(s, o, Passed(N))
    BY <1>2, <1>5 DEF S
  <1>7. i.dirty \subseteq Passed(N)
    BY <1>1
  <1> HIDE DEF o, Passed
  <1>8. Current(v)
    <2> SUFFICES ASSUME NEW n \in Delegating
                 PROVE  v[n] = IF \A d \in Dependencies[n] : v[d] # None
                               THEN Getter(n, [d \in Dependencies[n] |-> v[d]]) ELSE None
      BY DEF Current
    <2>1. n \in Attributes
      BY DEF Delegating
    <2>2. \A d \in Dependencies[n] : d \in Attributes /\ v[d] = ValueIn(s, o, d)
      BY <2>1, ClassIs
    <2>3. [d \in Dependencies[n] |-> v[d]] = [d \in Dependencies[n] |-> ValueIn(s, o, d)]
      BY <2>2
    <2>4. v[n] = ValueIn(s, o, n)
      BY <2>1
    <2> HIDE DEF v
    <2>5. CASE n \in o.dirty
      <3>1. v[n] = None
        BY <2>4, <2>5 DEF ValueIn
      <3>2. \E d \in Dependencies[n] : ValueIn(s, o, d) = None
        BY <1>6, <1>7, <2>5 DEF Undecided
      <3> QED BY <2>2, <3>1, <3>2
    <2>6. CASE n \notin o.dirty
      <3>1. /\ \A d \in Dependencies[n] : ValueIn(s, o, d) # None
            /\ ValueIn(s, o, n) = Getter(n, [d \in Dependencies[n] |-> ValueIn(s, o, d)])
        BY <1>6, <2>6 DEF Right, Computed
      <3> QED BY <2>2, <2>3, <2>4, <3>1
    <2> QED BY <2>5, <2>6
  <1> QED BY <1>6, <1>8 DEF o, v

\* Whatever attributes an update sets or deletes, directly or through the setters of
\* delegated ones, the state it comes out at has in every delegated attribute what its
\* getter returns for the others, and nothing where one of those has no value: the order
\* in which the intermediary object makes attributes dirty and calls getters reaches all.
THEOREM OutcomeRight ==
    ASSUME class \in Classes, NEW s, s.state \in States, Current(s.state),
           NEW values, DOMAIN values \subseteq Attributes, ValuesSettable(s, values)
    PROVE  LET i == Outcome(s, values)
           IN  /\ Right(s, i)
               /\ AttributesStateAfter(s, i.new) \in States
               /\ Current(AttributesStateAfter(s, i.new))
  <1> DEFINE j == ValuesSet(s, values)[Cardinality(DOMAIN values)]
             i == Outcome(s, values)
  <1>1. Right(s, j)
    BY ValuesRight
  <1>2. i = Results(s, j)
    BY DEF Outcome
  <1> HIDE DEF j, i
  <1>3. Right(s, i) /\ Current([n \in Attributes |-> ValueIn(s, i, n)])
    BY <1>1, <1>2, ResultsRight
  <1>4. /\ AttributesStateAfter(s, i.new) \in States
        /\ AttributesStateAfter(s, i.new) = [n \in Attributes |-> ValueIn(s, i, n)]
    BY <1>3, StateIs
  <1> QED BY <1>3, <1>4 DEF i

-----------------------------------------------------------------------------
(* The entries to undo and to redo.                                        *)

\* A sequence, whatever is in it.
IsList(s) == s \in Seq(ToSet(s))

LEMMA ListIs ==
    ASSUME NEW s, IsList(s)
    PROVE  /\ Len(s) \in Nat /\ DOMAIN s = 1..Len(s)
           /\ (s # <<>>) <=> (Len(s) > 0)
           /\ Last(s) = s[Len(s)]
           /\ \A i \in 1..Len(s) : s[i] \in ToSet(s)
           /\ \A x \in ToSet(s) : \E i \in 1..Len(s) : s[i] = x
  <1>1. s \in Seq(ToSet(s))
    BY DEF IsList
  <1>2. Len(s) \in Nat /\ DOMAIN s = 1..Len(s)
    BY <1>1
  <1>3. (s # <<>>) <=> (Len(s) > 0)
    BY <1>1, <1>2
  <1>4. Last(s) = s[Len(s)]
    BY DEF Last
  <1>5. \A i \in 1..Len(s) : s[i] \in ToSet(s)
    BY <1>2 DEF ToSet
  <1>6. \A x \in ToSet(s) : \E i \in 1..Len(s) : s[i] = x
    BY <1>2 DEF ToSet
  <1> QED BY <1>2, <1>3, <1>4, <1>5, <1>6

LEMMA EmptyList == IsList(<<>>) /\ Len(<<>>) = 0 /\ DOMAIN <<>> = {} /\ ToSet(<<>>) = {}
  BY DEF IsList, ToSet

\* A sequence of some elements is one of its own.
LEMMA ListOf ==
    ASSUME NEW S, NEW s \in Seq(S)
    PROVE  IsList(s) /\ ToSet(s) \subseteq S
  <1>1. \A i \in 1..Len(s) : s[i] \in ToSet(s)
    BY DEF ToSet
  <1>2. s \in Seq(ToSet(s))
    BY <1>1
  <1>3. ToSet(s) \subseteq S
    BY DEF ToSet
  <1> QED BY <1>2, <1>3 DEF IsList

LEMMA Appended ==
    ASSUME NEW s, IsList(s), NEW e
    PROVE  /\ IsList(Append(s, e)) /\ Len(Append(s, e)) = Len(s) + 1
           /\ \A i \in 1..Len(s) : Append(s, e)[i] = s[i]
           /\ Append(s, e)[Len(s) + 1] = e
           /\ ToSet(Append(s, e)) \subseteq ToSet(s) \cup {e}
  <1> DEFINE S == ToSet(s) \cup {e}
             t == Append(s, e)
  <1>1. s \in Seq(S) /\ e \in S
    BY DEF IsList
  <1> HIDE DEF S
  <1>2. /\ t \in Seq(S) /\ Len(t) = Len(s) + 1
        /\ \A i \in 1..Len(s) : t[i] = s[i]
        /\ t[Len(s) + 1] = e
    BY <1>1
  <1>3. IsList(t) /\ ToSet(t) \subseteq S
    BY <1>2, ListOf
  <1> QED BY <1>2, <1>3 DEF S

LEMMA Shortened ==
    ASSUME NEW s, IsList(s), s # <<>>, NEW t, t = Front(s)
    PROVE  /\ IsList(t) /\ Len(t) = Len(s) - 1
           /\ \A i \in 1..Len(t) : t[i] = s[i]
           /\ ToSet(t) \subseteq ToSet(s)
  <1>1. s \in Seq(ToSet(s)) /\ Len(s) \in Nat /\ Len(s) > 0
    BY ListIs DEF IsList
  <1>2. t = SubSeq(s, 1, Len(s) - 1)
    BY DEF Front
  <1>3. /\ t \in Seq(ToSet(s)) /\ Len(t) = Len(s) - 1
        /\ \A i \in 1..Len(t) : t[i] = s[i]
    <2> DEFINE n == Len(s) - 1
    <2>1. n \in Nat /\ 1 \in 1..(Len(s) + 1) /\ n \in (1 - 1)..Len(s) /\ n - 1 + 1 = n
      BY <1>1
    <2>2. t = SubSeq(s, 1, n)
      BY <1>2
    <2> HIDE DEF n
    <2>3. /\ t \in Seq(ToSet(s)) /\ Len(t) = n - 1 + 1
          /\ \A i \in 1..(n - 1 + 1) : t[i] = s[1 + i - 1]
      BY <1>1, <2>1, <2>2, SubSeqProperties
    <2>4. \A i \in 1..n : t[i] = s[i]
      BY <2>1, <2>3
    <2> QED BY <2>1, <2>3, <2>4 DEF n
  <1> QED BY <1>3, ListOf

BothLists == IsList(done) /\ IsList(undone)

\* What an operation leaves in the history: its entry is the last to undo, and
\* there is nothing to redo.
LEMMA Recorded ==
    ASSUME BothLists, NEW s, NEW e, Record(s, e)
    PROVE  /\ BothLists' /\ store' = s /\ kind' = kind /\ class' = class /\ versions' = versions
           /\ Len(done') = Len(done) + 1 /\ Len(undone') = 0
           /\ \A i \in 1..Len(done) : done'[i] = done[i]
           /\ done'[Len(done) + 1] = e
           /\ ToSet(done') \subseteq ToSet(done) \cup {e} /\ ToSet(undone') = {}
  <1>1. /\ store' = s /\ kind' = kind /\ class' = class /\ versions' = versions
        /\ done' = Append(done, e) /\ undone' = <<>>
    BY DEF Record, fixed
  <1>2. IsList(done)
    BY DEF BothLists
  <1>4. /\ IsList(done') /\ Len(done') = Len(done) + 1
        /\ \A i \in 1..Len(done) : done'[i] = done[i]
        /\ done'[Len(done) + 1] = e
        /\ ToSet(done') \subseteq ToSet(done) \cup {e}
    BY <1>1, <1>2, Appended
  <1> QED BY <1>1, <1>4, EmptyList DEF BothLists

\* What undo leaves in the history: the last entry to undo is the last to redo.
LEMMA UndoneTo ==
    ASSUME BothLists, NEW s, done # <<>>, UndoTo(s)
    PROVE  /\ BothLists' /\ store' = s /\ kind' = kind /\ class' = class /\ versions' = versions
           /\ Len(done') = Len(done) - 1 /\ Len(undone') = Len(undone) + 1
           /\ \A i \in 1..Len(done') : done'[i] = done[i]
           /\ \A i \in 1..Len(undone) : undone'[i] = undone[i]
           /\ undone'[Len(undone) + 1] = done[Len(done)] /\ Last(done) = done[Len(done)]
           /\ Last(done) \in ToSet(done)
           /\ ToSet(done') \subseteq ToSet(done)
           /\ ToSet(undone') \subseteq ToSet(undone) \cup ToSet(done)
  <1>1. done' = Front(done) /\ undone' = Append(undone, Last(done)) /\ store' = s
        /\ kind' = kind /\ class' = class /\ versions' = versions
    BY DEF UndoTo, fixed
  <1>2. /\ Len(done) \in Nat /\ Len(done) > 0 /\ Last(done) = done[Len(done)]
        /\ Last(done) \in ToSet(done)
    BY ListIs DEF BothLists
  <1>3. /\ IsList(done') /\ Len(done') = Len(done) - 1
        /\ \A i \in 1..Len(done') : done'[i] = done[i]
        /\ ToSet(done') \subseteq ToSet(done)
    BY <1>1, Shortened DEF BothLists
  <1>4. /\ IsList(undone') /\ Len(undone') = Len(undone) + 1
        /\ \A i \in 1..Len(undone) : undone'[i] = undone[i]
        /\ undone'[Len(undone) + 1] = Last(done)
        /\ ToSet(undone') \subseteq ToSet(undone) \cup {Last(done)}
    <2>1. IsList(undone)
      BY DEF BothLists
    <2> QED BY <1>1, <2>1, Appended
  <1> QED BY <1>1, <1>2, <1>3, <1>4 DEF BothLists

\* What redo leaves in the history.
LEMMA RedoneTo ==
    ASSUME BothLists, NEW s, undone # <<>>, RedoTo(s)
    PROVE  /\ BothLists' /\ store' = s /\ kind' = kind /\ class' = class /\ versions' = versions
           /\ Len(undone') = Len(undone) - 1 /\ Len(done') = Len(done) + 1
           /\ \A i \in 1..Len(undone') : undone'[i] = undone[i]
           /\ \A i \in 1..Len(done) : done'[i] = done[i]
           /\ done'[Len(done) + 1] = undone[Len(undone)] /\ Last(undone) = undone[Len(undone)]
           /\ Last(undone) \in ToSet(undone)
           /\ ToSet(undone') \subseteq ToSet(undone)
           /\ ToSet(done') \subseteq ToSet(done) \cup ToSet(undone)
  <1>1. undone' = Front(undone) /\ done' = Append(done, Last(undone)) /\ store' = s
        /\ kind' = kind /\ class' = class /\ versions' = versions
    BY DEF RedoTo, fixed
  <1>2. /\ Len(undone) \in Nat /\ Len(undone) > 0 /\ Last(undone) = undone[Len(undone)]
        /\ Last(undone) \in ToSet(undone)
    BY ListIs DEF BothLists
  <1>3. /\ IsList(undone') /\ Len(undone') = Len(undone) - 1
        /\ \A i \in 1..Len(undone') : undone'[i] = undone[i]
        /\ ToSet(undone') \subseteq ToSet(undone)
    BY <1>1, Shortened DEF BothLists
  <1>4. /\ IsList(done') /\ Len(done') = Len(done) + 1
        /\ \A i \in 1..Len(done) : done'[i] = done[i]
        /\ done'[Len(done) + 1] = Last(undone)
        /\ ToSet(done') \subseteq ToSet(done) \cup {Last(undone)}
    <2>1. IsList(done)
      BY DEF BothLists
    <2> QED BY <1>1, <2>1, Appended
  <1> QED BY <1>1, <1>2, <1>3, <1>4 DEF BothLists

Entries == ToSet(done) \cup ToSet(undone)

-----------------------------------------------------------------------------
(* What UndoRedoRestore says of a step, which is of one of four kinds.     *)

\* What UndoRedoRestore says of one step.
Restores ==
    /\ Undid /\ store.state = EntryTo(Entry)
         => \/ store'.state = EntryFrom(Entry)
            \/ MovedToTheStart(Entry) \/ AddsHeld(Entry)
    /\ Made /\ store.state = EntryFrom(Entry) => store'.state = EntryTo(Entry)

\* A new entry that ends at the state of the object restores what it should.
LEMMA RestoresRecorded ==
    ASSUME BothLists, NEW s, NEW e, Record(s, e), EntryTo(e) = s.state
    PROVE  Restores
  <1>1. Len(done) \in Nat
    BY ListIs DEF BothLists
  <1>2. BothLists' /\ store' = s /\ Len(done') = Len(done) + 1 /\ done'[Len(done) + 1] = e
    BY Recorded
  <1>3. Last(done') = e /\ Made /\ ~ Undid
    BY <1>1, <1>2 DEF Last, Made, Undid
  <1>4. Entry = e
    BY <1>3 DEF Entry
  <1> QED BY <1>2, <1>3, <1>4 DEF Restores

LEMMA RestoresUnchanged ==
    ASSUME BothLists, done' = done
    PROVE  Restores
  <1>1. Len(done) \in Nat
    BY ListIs DEF BothLists
  <1>2. ~ Made /\ ~ Undid
    BY <1>1 DEF Made, Undid
  <1> QED BY <1>2 DEF Restores

\* An undo does, when it makes the state where the entry started.
LEMMA RestoresUndone ==
    ASSUME BothLists, NEW s, done # <<>>, UndoTo(s),
           store.state = EntryTo(Last(done)) =>
             s.state = EntryFrom(Last(done)) \/ MovedToTheStart(Last(done)) \/ AddsHeld(Last(done))
    PROVE  Restores
  <1>1. Len(done) \in Nat
    BY ListIs DEF BothLists
  <1>2. store' = s /\ Len(done') = Len(done) - 1
    BY UndoneTo
  <1>3. Undid /\ ~ Made
    BY <1>1, <1>2 DEF Made, Undid
  <1>4. Entry = Last(done)
    BY <1>3 DEF Entry
  <1> QED BY <1>2, <1>3, <1>4 DEF Restores

\* A redo does, when it makes the state where the entry ended.
LEMMA RestoresRedone ==
    ASSUME BothLists, NEW s, undone # <<>>, RedoTo(s),
           store.state = EntryFrom(Last(undone)) => s.state = EntryTo(Last(undone))
    PROVE  Restores
  <1>1. Len(done) \in Nat
    BY ListIs DEF BothLists
  <1>2. /\ store' = s /\ Len(done') = Len(done) + 1
        /\ done'[Len(done) + 1] = undone[Len(undone)] /\ Last(undone) = undone[Len(undone)]
    BY RedoneTo
  <1>3. Last(done') = Last(undone) /\ Made /\ ~ Undid
    BY <1>1, <1>2 DEF Last, Made, Undid
  <1>4. Entry = Last(undone)
    BY <1>3 DEF Entry
  <1> QED BY <1>2, <1>3, <1>4 DEF Restores

-----------------------------------------------------------------------------
(* A store, and what replacing a part of it leaves alone.                  *)

\* A record with the four parts of a store.
IsStore(s) ==
    s = [state |-> s.state, data |-> s.data, metadata |-> s.metadata, children |-> s.children]

LEMMA DataReplaced ==
    ASSUME NEW s, IsStore(s), NEW m, NEW x
    PROVE  /\ IsStore([s EXCEPT !.data[m] = x])
           /\ [s EXCEPT !.data[m] = x].state = s.state
           /\ [s EXCEPT !.data[m] = x].children = s.children
  BY DEF IsStore

LEMMA MetadataReplaced ==
    ASSUME NEW s, IsStore(s), NEW m, NEW x
    PROVE  /\ IsStore([s EXCEPT !.metadata[m] = x])
           /\ [s EXCEPT !.metadata[m] = x].state = s.state
           /\ [s EXCEPT !.metadata[m] = x].children = s.children
  BY DEF IsStore

LEMMA BothReplaced ==
    ASSUME NEW s, IsStore(s), NEW m, NEW d, NEW x
    PROVE  /\ IsStore([s EXCEPT !.data = d, !.metadata[m] = x])
           /\ [s EXCEPT !.data = d, !.metadata[m] = x].state = s.state
           /\ [s EXCEPT !.data = d, !.metadata[m] = x].children = s.children
  <1> DEFINE t == [s EXCEPT !.data = d]
  <1>1. t = [state |-> s.state, data |-> d, metadata |-> s.metadata, children |-> s.children]
    BY DEF IsStore
  <1>2. [s EXCEPT !.data = d, !.metadata[m] = x] = [t EXCEPT !.metadata[m] = x]
    OBVIOUS
  <1> HIDE DEF t
  <1>3. t.state = s.state /\ t.children = s.children /\ IsStore(t)
    BY <1>1 DEF IsStore
  <1> QED BY <1>2, <1>3, MetadataReplaced

-----------------------------------------------------------------------------
(* The invariant of objects with attributes.                               *)

\* The state after new values.
After(state, new) ==
    [n \in Attributes |-> IF new[n] = None THEN state[n]
                          ELSE IF new[n] = DELETED THEN None ELSE new[n]]

LEMMA AfterIs == \A s, new : AttributesStateAfter(s, new) = After(s.state, new)
  BY DEF AttributesStateAfter, After

\* Both ways between two states whose delegates are current.
AttributesEntry(e) ==
    /\ DOMAIN e = {1} /\ Len(e) = 1
    /\ e[1].type = "Update"
    /\ e[1].from \in States /\ Current(e[1].from)
    /\ e[1].to \in States /\ Current(e[1].to)
    /\ e[1].to = After(e[1].from, e[1].new)
    /\ e[1].from = After(e[1].to, e[1].old)

\* Each entry to undo ends where the next one starts, the last one at the state
\* of the object, where the entries to redo go on.
AttributesChain ==
    /\ \A i, j \in 1..Len(done) : j = i + 1 => done[i][1].to = done[j][1].from
    /\ Len(done) > 0 => done[Len(done)][1].to = store.state
    /\ \A i, j \in 1..Len(undone) : j = i + 1 => undone[i][1].from = undone[j][1].to
    /\ Len(undone) > 0 => undone[Len(undone)][1].from = store.state

\* The invariant of an object with attributes: its delegates are current, and so they
\* are wherever undo and redo lead.
AttributesInv ==
    /\ class \in Classes
    /\ IsStore(store) /\ store.state \in States /\ Current(store.state)
    /\ BothLists
    /\ \A e \in Entries : AttributesEntry(e)
    /\ AttributesChain

\* What is said of the class stays true while the class does.
LEMMA ClassStays ==
    ASSUME class' = class
    PROVE  /\ \A e : AttributesEntry(e)' <=> AttributesEntry(e)
           /\ \A s : Current(s)' <=> Current(s)
           /\ States' = States
           /\ Attributes' = Attributes
  BY DEF AttributesEntry, Current, States, After, Attributes, Delegating, Declared,
         Dependencies, Getter

\* The entry of an update leads from a state with current delegates to another.
LEMMA UpdateEntry ==
    ASSUME class \in Classes, NEW s, s.state \in States, Current(s.state),
           NEW values, DOMAIN values \subseteq Attributes, ValuesSettable(s, values),
           NEW order
    PROVE  LET i == Outcome(s, values)
               r == RawUpdated(s, i.new, i.old, order)
               e == <<AttributesUpdate(s, i.new, i.old, order)>>
           IN  /\ AttributesEntry(e) /\ e[1].from = s.state /\ e[1].to = r.state
               /\ IsStore(r) /\ r.state \in States /\ Current(r.state)
  <1> DEFINE i == Outcome(s, values)
             r == RawUpdated(s, i.new, i.old, order)
             c == AttributesUpdate(s, i.new, i.old, order)
             to == After(s.state, i.new)
             e == <<c>>
  <1>1. Right(s, i) /\ to \in States /\ Current(to)
    BY OutcomeRight, AfterIs
  <1> HIDE DEF i
  <1>2. IsStore(r) /\ r.state = to
    BY AfterIs DEF RawUpdated, IsStore
  <1>3. /\ c.type = "Update" /\ c.new = i.new /\ c.old = i.old
        /\ c.from = s.state /\ c.to = to
    BY <1>2 DEF AttributesUpdate
  <1>4. s.state = After(to, i.old)
    <2>1. \A n \in Attributes : s.state[n] = IF i.old[n] = None THEN to[n]
                                             ELSE IF i.old[n] = DELETED THEN None ELSE i.old[n]
      <3> SUFFICES ASSUME NEW n \in Attributes
                   PROVE  s.state[n] = IF i.old[n] = None THEN to[n]
                                       ELSE IF i.old[n] = DELETED THEN None ELSE i.old[n]
        OBVIOUS
      <3>1. /\ i.new[n] = None <=> i.old[n] = None
            /\ i.old[n] # None => i.old[n] = OldValue(s, n)
        BY <1>1 DEF Right, Paired
      <3>2. s.state[n] \in Values \cup {None}
        BY DEF States
      <3>3. i.new[n] = None => to[n] = s.state[n]
        BY DEF After
      <3> HIDE DEF to
      <3> QED BY <3>1, <3>2, <3>3, DeletedAssumption DEF OldValue
    <2>2. s.state = [n \in Attributes |-> s.state[n]]
      BY DEF States
    <2> QED BY <2>1, <2>2 DEF After
  <1> HIDE DEF to, c, r
  <1>5. DOMAIN e = {1} /\ Len(e) = 1 /\ e[1] = c
    OBVIOUS
  <1> HIDE DEF e
  <1>6. AttributesEntry(e)
    BY <1>1, <1>3, <1>4, <1>5 DEF AttributesEntry, to
  <1> QED BY <1>1, <1>2, <1>3, <1>5, <1>6 DEF i, r, e, c

\* An update keeps the invariant: its entry goes on where the last one ended.
LEMMA AttributesRecorded ==
    ASSUME AttributesInv, NEW values, DOMAIN values \subseteq Attributes, Update(values)
    PROVE  AttributesInv' /\ Restores
  <1> DEFINE i == Outcome(store, values)
             R(order) == RawUpdated(store, i.new, i.old, order)
             E(order) == <<AttributesUpdate(store, i.new, i.old, order)>>
  <1>1. /\ class \in Classes /\ store.state \in States /\ Current(store.state) /\ BothLists
        /\ ValuesSettable(store, values)
    BY DEF AttributesInv, Update
  <1>2. PICK order : Record(R(order), E(order))
    BY DEF Update
  <1> DEFINE r == R(order)
             e == E(order)
  <1>3. /\ AttributesEntry(e) /\ e[1].from = store.state /\ e[1].to = r.state
        /\ IsStore(r) /\ r.state \in States /\ Current(r.state)
    BY <1>1, UpdateEntry
  <1>4. Record(r, e)
    BY <1>2
  <1> HIDE DEF i, R, E, r, e
  <1>5. /\ BothLists' /\ store' = r /\ class' = class
        /\ Len(done') = Len(done) + 1 /\ Len(undone') = 0
        /\ \A k \in 1..Len(done) : done'[k] = done[k]
        /\ done'[Len(done) + 1] = e
        /\ ToSet(done') \subseteq ToSet(done) \cup {e} /\ ToSet(undone') = {}
    BY <1>1, <1>4, Recorded
  <1>6. Len(done) \in Nat
    BY <1>1, ListIs DEF BothLists
  <1>7. class' \in Classes /\ IsStore(store') /\ store'.state \in States' /\ Current(store.state)'
    BY <1>1, <1>3, <1>5, ClassStays
  <1>8. \A x \in Entries' : AttributesEntry(x)'
    BY <1>3, <1>5, ClassStays DEF AttributesInv, Entries
  <1>9. AttributesChain'
    <2>1. \A k, l \in 1..Len(done') : l = k + 1 => done'[k][1].to = done'[l][1].from
      <3> SUFFICES ASSUME NEW k \in 1..Len(done'), k + 1 \in 1..Len(done')
                   PROVE  done'[k][1].to = done'[k + 1][1].from
        OBVIOUS
      <3>1. k \in 1..Len(done) /\ done'[k] = done[k]
        BY <1>5, <1>6
      <3>2. CASE k = Len(done)
        <4>1. done[k][1].to = store.state
          BY <1>6, <3>1, <3>2 DEF AttributesInv, AttributesChain
        <4> QED BY <1>3, <1>5, <3>1, <3>2, <4>1
      <3>3. CASE k # Len(done)
        <4>1. k + 1 \in 1..Len(done)
          BY <1>6, <3>1, <3>3
        <4>2. done[k][1].to = done[k + 1][1].from
          BY <3>1, <4>1 DEF AttributesInv, AttributesChain
        <4> QED BY <1>5, <3>1, <4>1, <4>2
      <3> QED BY <3>2, <3>3
    <2>2. done'[Len(done')][1].to = store'.state
      BY <1>3, <1>5
    <2>3. ~ Len(undone') > 0 /\ 1..Len(undone') = {}
      BY <1>5
    <2> QED BY <2>1, <2>2, <2>3 DEF AttributesChain
  <1>10. Restores
    <2>1. EntryTo(e) = r.state
      BY <1>3 DEF EntryTo, AttributesEntry
    <2> QED BY <1>1, <1>4, <2>1, RestoresRecorded
  <1> QED BY <1>5, <1>7, <1>8, <1>9, <1>10 DEF AttributesInv

\* Undo keeps it: the object is where the entry started, with delegates current there.
LEMMA AttributesUndid ==
    ASSUME AttributesInv, done # <<>>, UndoTo(AttributesUndone(Last(done)))
    PROVE  AttributesInv' /\ Restores
  <1> DEFINE e == done[Len(done)]
             r == AttributesUndone(Last(done))
             n == Len(done)
  <1>1. class \in Classes /\ BothLists
    BY DEF AttributesInv
  <1>2. /\ BothLists' /\ store' = r /\ class' = class
        /\ Len(done') = Len(done) - 1 /\ Len(undone') = Len(undone) + 1
        /\ \A k \in 1..Len(done') : done'[k] = done[k]
        /\ \A k \in 1..Len(undone) : undone'[k] = undone[k]
        /\ undone'[Len(undone) + 1] = e /\ Last(done) = e
        /\ Last(done) \in ToSet(done)
        /\ ToSet(done') \subseteq ToSet(done)
        /\ ToSet(undone') \subseteq ToSet(undone) \cup ToSet(done)
    BY <1>1, UndoneTo
  <1>3. n \in Nat /\ n > 0 /\ Len(undone) \in Nat
    BY <1>1, ListIs DEF BothLists
  <1>4. AttributesEntry(e) /\ e[1].to = store.state
    BY <1>2, <1>3 DEF AttributesInv, Entries, AttributesChain
  <1>5. r.state = e[1].from /\ IsStore(r)
    <2>1. r = RawUpdated(store, e[1].old, e[1].new, e[1].order)
      BY <1>2 DEF AttributesUndone
    <2>2. r.state = After(store.state, e[1].old) /\ IsStore(r)
      BY <2>1, AfterIs DEF RawUpdated, IsStore
    <2> QED BY <1>4, <2>2 DEF AttributesEntry
  <1> HIDE DEF r
  <1>6. class' \in Classes /\ IsStore(store') /\ store'.state \in States' /\ Current(store.state)'
    BY <1>1, <1>2, <1>4, <1>5, ClassStays DEF AttributesEntry
  <1>7. \A x \in Entries' : AttributesEntry(x)'
    BY <1>2, ClassStays DEF AttributesInv, Entries
  <1>8. AttributesChain'
    <2>1. \A k, l \in 1..Len(done') : l = k + 1 => done'[k][1].to = done'[l][1].from
      <3> SUFFICES ASSUME NEW k \in 1..Len(done'), NEW l \in 1..Len(done'), l = k + 1
                   PROVE  done'[k][1].to = done'[l][1].from
        OBVIOUS
      <3>1. k \in 1..Len(done) /\ l \in 1..Len(done)
        BY <1>2, <1>3
      <3>2. done[k][1].to = done[l][1].from
        BY <3>1 DEF AttributesInv, AttributesChain
      <3> QED BY <1>2, <3>2
    <2>2. Len(done') > 0 => done'[Len(done')][1].to = store'.state
      <3> SUFFICES ASSUME n - 1 > 0
                   PROVE  done'[n - 1][1].to = e[1].from
        BY <1>2, <1>5
      <3>1. n - 1 \in 1..Len(done') /\ n - 1 \in 1..Len(done) /\ n \in 1..Len(done) /\ n = (n - 1) + 1
        BY <1>2, <1>3
      <3>2. done[n - 1][1].to = done[n][1].from
        BY <3>1 DEF AttributesInv, AttributesChain
      <3> QED BY <1>2, <3>1, <3>2
    <2>3. \A k, l \in 1..Len(undone') : l = k + 1 => undone'[k][1].from = undone'[l][1].to
      <3> SUFFICES ASSUME NEW k \in 1..Len(undone'), k + 1 \in 1..Len(undone')
                   PROVE  undone'[k][1].from = undone'[k + 1][1].to
        OBVIOUS
      <3>1. k \in 1..Len(undone) /\ undone'[k] = undone[k]
        BY <1>2, <1>3
      <3>2. CASE k = Len(undone)
        <4>1. undone[k][1].from = store.state
          BY <1>3, <3>1, <3>2 DEF AttributesInv, AttributesChain
        <4> QED BY <1>2, <1>4, <3>1, <3>2, <4>1
      <3>3. CASE k # Len(undone)
        <4>1. k + 1 \in 1..Len(undone)
          BY <1>3, <3>1, <3>3
        <4>2. undone[k][1].from = undone[k + 1][1].to
          BY <3>1, <4>1 DEF AttributesInv, AttributesChain
        <4> QED BY <1>2, <3>1, <4>1, <4>2
      <3> QED BY <3>2, <3>3
    <2>4. undone'[Len(undone')][1].from = store'.state
      BY <1>2, <1>5
    <2> QED BY <2>1, <2>2, <2>3, <2>4 DEF AttributesChain
  <1>9. Restores
    <2>1. r.state = EntryFrom(Last(done))
      BY <1>2, <1>5 DEF EntryFrom
    <2>2. UndoTo(r)
      BY DEF r
    <2> QED BY <1>1, <2>1, <2>2, RestoresUndone
  <1> QED BY <1>2, <1>6, <1>7, <1>8, <1>9 DEF AttributesInv

\* Redo keeps it.
LEMMA AttributesRedid ==
    ASSUME AttributesInv, undone # <<>>, RedoTo(AttributesRedone(Last(undone)))
    PROVE  AttributesInv' /\ Restores
  <1> DEFINE e == undone[Len(undone)]
             r == AttributesRedone(Last(undone))
             n == Len(undone)
  <1>1. class \in Classes /\ BothLists
    BY DEF AttributesInv
  <1>2. /\ BothLists' /\ store' = r /\ class' = class
        /\ Len(undone') = Len(undone) - 1 /\ Len(done') = Len(done) + 1
        /\ \A k \in 1..Len(undone') : undone'[k] = undone[k]
        /\ \A k \in 1..Len(done) : done'[k] = done[k]
        /\ done'[Len(done) + 1] = e /\ Last(undone) = e
        /\ Last(undone) \in ToSet(undone)
        /\ ToSet(undone') \subseteq ToSet(undone)
        /\ ToSet(done') \subseteq ToSet(done) \cup ToSet(undone)
    BY <1>1, RedoneTo
  <1>3. n \in Nat /\ n > 0 /\ Len(done) \in Nat
    BY <1>1, ListIs DEF BothLists
  <1>4. AttributesEntry(e) /\ e[1].from = store.state
    BY <1>2, <1>3 DEF AttributesInv, Entries, AttributesChain
  <1>5. r.state = e[1].to /\ IsStore(r)
    <2>1. r = RawUpdated(store, e[1].new, e[1].old, e[1].order)
      BY <1>2 DEF AttributesRedone
    <2>2. r.state = After(store.state, e[1].new) /\ IsStore(r)
      BY <2>1, AfterIs DEF RawUpdated, IsStore
    <2> QED BY <1>4, <2>2 DEF AttributesEntry
  <1> HIDE DEF r
  <1>6. class' \in Classes /\ IsStore(store') /\ store'.state \in States' /\ Current(store.state)'
    BY <1>1, <1>2, <1>4, <1>5, ClassStays DEF AttributesEntry
  <1>7. \A x \in Entries' : AttributesEntry(x)'
    BY <1>2, ClassStays DEF AttributesInv, Entries
  <1>8. AttributesChain'
    <2>1. \A k, l \in 1..Len(undone') : l = k + 1 => undone'[k][1].from = undone'[l][1].to
      <3> SUFFICES ASSUME NEW k \in 1..Len(undone'), NEW l \in 1..Len(undone'), l = k + 1
                   PROVE  undone'[k][1].from = undone'[l][1].to
        OBVIOUS
      <3>1. k \in 1..Len(undone) /\ l \in 1..Len(undone)
        BY <1>2, <1>3
      <3>2. undone[k][1].from = undone[l][1].to
        BY <3>1 DEF AttributesInv, AttributesChain
      <3> QED BY <1>2, <3>2
    <2>2. Len(undone') > 0 => undone'[Len(undone')][1].from = store'.state
      <3> SUFFICES ASSUME n - 1 > 0
                   PROVE  undone'[n - 1][1].from = e[1].to
        BY <1>2, <1>5
      <3>1. /\ n - 1 \in 1..Len(undone') /\ n - 1 \in 1..Len(undone)
            /\ n \in 1..Len(undone) /\ n = (n - 1) + 1
        BY <1>2, <1>3
      <3>2. undone[n - 1][1].from = undone[n][1].to
        BY <3>1 DEF AttributesInv, AttributesChain
      <3> QED BY <1>2, <3>1, <3>2
    <2>3. \A k, l \in 1..Len(done') : l = k + 1 => done'[k][1].to = done'[l][1].from
      <3> SUFFICES ASSUME NEW k \in 1..Len(done'), k + 1 \in 1..Len(done')
                   PROVE  done'[k][1].to = done'[k + 1][1].from
        OBVIOUS
      <3>1. k \in 1..Len(done) /\ done'[k] = done[k]
        BY <1>2, <1>3
      <3>2. CASE k = Len(done)
        <4>1. done[k][1].to = store.state
          BY <1>3, <3>1, <3>2 DEF AttributesInv, AttributesChain
        <4> QED BY <1>2, <1>4, <3>1, <3>2, <4>1
      <3>3. CASE k # Len(done)
        <4>1. k + 1 \in 1..Len(done)
          BY <1>3, <3>1, <3>3
        <4>2. done[k][1].to = done[k + 1][1].from
          BY <3>1, <4>1 DEF AttributesInv, AttributesChain
        <4> QED BY <1>2, <3>1, <4>1, <4>2
      <3> QED BY <3>2, <3>3
    <2>4. done'[Len(done')][1].to = store'.state
      BY <1>2, <1>5
    <2> QED BY <2>1, <2>2, <2>3, <2>4 DEF AttributesChain
  <1>9. Restores
    <2>1. r.state = EntryTo(Last(undone))
      BY <1>2, <1>4, <1>5 DEF EntryTo, AttributesEntry
    <2>2. RedoTo(r)
      BY DEF r
    <2> QED BY <1>1, <2>1, <2>2, RestoresRedone
  <1> QED BY <1>2, <1>6, <1>7, <1>8, <1>9 DEF AttributesInv

\* So does what leaves state and history alone.
LEMMA AttributesOthersStay ==
    ASSUME AttributesInv, UNCHANGED <<class, done, undone>>, IsStore(store'),
           store'.state = store.state
    PROVE  AttributesInv' /\ Restores
  <1>1. class' \in Classes /\ store'.state \in States' /\ Current(store.state)'
    BY ClassStays DEF AttributesInv
  <1>2. BothLists' /\ Entries' = Entries /\ AttributesChain'
    BY DEF AttributesInv, BothLists, Entries, AttributesChain
  <1>3. \A x \in Entries' : AttributesEntry(x)'
    BY <1>2, ClassStays DEF AttributesInv
  <1>4. Restores
    BY RestoresUnchanged DEF AttributesInv
  <1> QED BY <1>1, <1>2, <1>3, <1>4 DEF AttributesInv

\* Every step of an object with attributes does.
LEMMA AttributesStep ==
    ASSUME AttributesInv, AttributesNext
    PROVE  AttributesInv' /\ Restores
  <1>1. CASE AttributesCalls
    <2>1. CASE \E values \in Updates : Update(values)
      <3>1. PICK values \in Updates : Update(values)
        BY <2>1
      <3>2. DOMAIN values \subseteq Attributes
        BY DEF Updates, Names
      <3> QED BY <3>1, <3>2, AttributesRecorded
    <2>2. CASE \E n \in Names, v \in Values : PutAttribute(n, v)
      <3>1. PICK n \in Names, v \in Values : Update([m \in {n} |-> v])
        BY <2>2 DEF PutAttribute
      <3>2. DOMAIN [m \in {n} |-> v] \subseteq Attributes
        BY DEF Names
      <3> QED BY <3>1, <3>2, AttributesRecorded
    <2>3. CASE \E n \in Names : DeleteAttribute(n)
      <3>1. PICK n \in Names : Update([m \in {n} |-> DELETED])
        BY <2>3 DEF DeleteAttribute
      <3>2. DOMAIN [m \in {n} |-> DELETED] \subseteq Attributes
        BY DEF Names
      <3> QED BY <3>1, <3>2, AttributesRecorded
    <2>4. CASE ClearAttributes
      <3> DEFINE values == [n \in {m \in Deletable : store.state[m] # None} |-> DELETED]
      <3>1. Update(values)
        BY <2>4 DEF ClearAttributes
      <3>2. DOMAIN values \subseteq Attributes
        BY DEF Deletable
      <3> HIDE DEF values
      <3> QED BY <3>1, <3>2, AttributesRecorded
    <2> QED BY <1>1, <2>1, <2>2, <2>3, <2>4 DEF AttributesCalls
  <1>2. CASE \E k \in Kids : ChildChanges(k, AttributeChildReplaced(k))
    <2>1. PICK k \in Kids : ChildChanges(k, AttributeChildReplaced(k))
      BY <1>2
    <2>2. UNCHANGED <<class, done, undone>> /\ store' = AttributeChildReplaced(k)
      BY <2>1 DEF ChildChanges, fixed
    <2>3. IsStore(store') /\ store'.state = store.state
      BY <2>2, DataReplaced DEF AttributeChildReplaced, AttributesInv
    <2> QED BY <2>2, <2>3, AttributesOthersStay
  <1>3. CASE done # <<>> /\ UndoTo(AttributesUndone(Last(done)))
    BY <1>3, AttributesUndid
  <1>4. CASE undone # <<>> /\ RedoTo(AttributesRedone(Last(undone)))
    BY <1>4, AttributesRedid
  <1> QED BY <1>1, <1>2, <1>3, <1>4 DEF AttributesNext

\* Objects with attributes start with it.
LEMMA AttributesStart ==
    ASSUME AttributesInit, done = <<>>, undone = <<>>
    PROVE  AttributesInv
  <1>1. class \in Classes
    BY DEF AttributesInit
  <1>2. /\ NoAttributes.state \in States /\ Current(NoAttributes.state) /\ IsStore(NoAttributes)
    <2>1. NoAttributes.state = [n \in Attributes |-> None] /\ IsStore(NoAttributes)
      BY DEF NoAttributes, IsStore
    <2>2. \A n \in Delegating : /\ n \in Attributes
                                /\ Declared(n).delegates.returns \in Dependencies[n]
                                /\ Dependencies[n] \subseteq Attributes
      BY <1>1, ClassIs DEF Delegating
    <2>3. Current([n \in Attributes |-> None])
      BY <2>2 DEF Current
    <2> QED BY <2>1, <2>3 DEF States
  <1>3. ASSUME NEW initial, DOMAIN initial \subseteq Attributes, NEW s \in CreatedFrom(initial)
        PROVE  IsStore(s) /\ s.state \in States /\ Current(s.state)
    <2>1. ValuesSettable(NoAttributes, initial)
      BY <1>3 DEF CreatedFrom
    <2> DEFINE i == Outcome(NoAttributes, initial)
    <2>2. s = NoAttributes \/ \E order : s = RawUpdated(NoAttributes, i.new, i.old, order)
      BY <1>3 DEF CreatedFrom
    <2>3. ASSUME NEW order
          PROVE  LET r == RawUpdated(NoAttributes, i.new, i.old, order)
                 IN  IsStore(r) /\ r.state \in States /\ Current(r.state)
      BY <1>1, <1>2, <1>3, <2>1, UpdateEntry
    <2> HIDE DEF i
    <2> QED BY <1>2, <2>2, <2>3
  <1>4. IsStore(store) /\ store.state \in States /\ Current(store.state)
    <2>0. PICK names \in SUBSET Stored : \E values \in [names -> Values] : store \in Created(values)
      BY DEF AttributesInit
    <2>1. PICK values \in [names -> Values] : store \in Created(values)
      BY <2>0
    <2>2. PICK initial \in Initials(values) : store \in CreatedFrom(initial)
      BY <2>1 DEF Created
    <2>3. DOMAIN initial \subseteq Attributes
      BY <2>1, <2>2 DEF Initials, Stored
    <2> QED BY <1>3, <2>2, <2>3
  <1>5. BothLists /\ Entries = {} /\ AttributesChain
    BY EmptyList DEF BothLists, Entries, AttributesChain
  <1> QED BY <1>1, <1>4, <1>5 DEF AttributesInv

-----------------------------------------------------------------------------
(* Sets.                                                                   *)

\* A change of a set tells what it did.
SetChange(c) == c.type \in {"SetUpdate", "SetRemove"} /\ SetReplays(c)

\* One change, or two of which the second goes on where the first one ends.
SetEntry(e) ==
    \/ Len(e) = 1 /\ DOMAIN e = {1} /\ SetChange(e[1])
    \/ /\ Len(e) = 2 /\ DOMAIN e = {1, 2}
       /\ SetChange(e[1]) /\ SetChange(e[2]) /\ e[1].to = e[2].from

\* The invariant of a set.
SetInv == BothLists /\ \A e \in Entries : SetEntry(e)

\* Of any kind: what holds of all entries, if it holds of new ones.
LEMMA EntriesRecorded ==
    ASSUME BothLists, NEW s, NEW e, Record(s, e)
    PROVE  BothLists' /\ Entries' \subseteq Entries \cup {e}
  BY Recorded DEF Entries

LEMMA EntriesUndone ==
    ASSUME BothLists, NEW s, done # <<>>, UndoTo(s)
    PROVE  BothLists' /\ Entries' \subseteq Entries
  BY UndoneTo DEF Entries

LEMMA EntriesRedone ==
    ASSUME BothLists, NEW s, undone # <<>>, RedoTo(s)
    PROVE  BothLists' /\ Entries' \subseteq Entries
  BY RedoneTo DEF Entries

\* Updates of a set are changes that replay.
LEMMA SetUpdateChange ==
    \A s, values : /\ SetChange(SetUpdate(s, values))
                   /\ SetUpdate(s, values).from = s.state
                   /\ SetUpdate(s, values).to = Added(s, values).state
  BY DEF SetChange, SetUpdate, SetReplays, Added

\* So are removals, of values that are there.
LEMMA SetRemoveChange ==
    ASSUME NEW s, NEW values, TakeAllowed(s, values)
    PROVE  /\ SetChange(SetRemove(s, values))
           /\ SetRemove(s, values).from = s.state
           /\ SetRemove(s, values).to = Taken(s, values).state
  BY DEF SetChange, SetRemove, SetReplays, Taken, TakeAllowed

LEMMA OneChange == \A c : Len(<<c>>) = 1 /\ DOMAIN <<c>> = {1} /\ <<c>>[1] = c
  OBVIOUS

LEMMA TwoChanges ==
    \A c, d : Len(<<c, d>>) = 2 /\ DOMAIN <<c, d>> = {1, 2} /\ <<c, d>>[1] = c /\ <<c, d>>[2] = d
  OBVIOUS

\* Each operation of a set adds an entry of one or two changes.
LEMMA ValuesAdded ==
    ASSUME SetInv, NEW values, AddValues(values)
    PROVE  SetInv' /\ Restores
  <1> DEFINE e == <<SetUpdate(store, values)>>
             s == Added(store, values)
  <1>1. SetEntry(e)
    BY SetUpdateChange, OneChange DEF SetEntry
  <1>2. Record(s, e)
    BY DEF AddValues
  <1>3. EntryTo(e) = s.state
    BY SetUpdateChange, OneChange DEF EntryTo
  <1> HIDE DEF e, s
  <1>4. BothLists' /\ Entries' \subseteq Entries \cup {e}
    BY <1>2, EntriesRecorded DEF SetInv
  <1>5. Restores
    BY <1>2, <1>3, RestoresRecorded DEF SetInv
  <1> QED BY <1>1, <1>4, <1>5 DEF SetInv

LEMMA ValuesRemoved ==
    ASSUME SetInv, NEW values, RemoveValues(values)
    PROVE  SetInv' /\ Restores
  <1> DEFINE e == <<SetRemove(store, values)>>
             s == Taken(store, values)
  <1>1. SetEntry(e)
    BY SetRemoveChange, OneChange DEF SetEntry, RemoveValues
  <1>2. Record(s, e)
    BY DEF RemoveValues
  <1>3. EntryTo(e) = s.state
    BY SetRemoveChange, OneChange DEF EntryTo, RemoveValues
  <1> HIDE DEF e, s
  <1>4. BothLists' /\ Entries' \subseteq Entries \cup {e}
    BY <1>2, EntriesRecorded DEF SetInv
  <1>5. Restores
    BY <1>2, <1>3, RestoresRecorded DEF SetInv
  <1> QED BY <1>1, <1>4, <1>5 DEF SetInv

LEMMA ValueReplaced ==
    ASSUME SetInv, NEW v, NEW w, Replace(v, w)
    PROVE  SetInv' /\ Restores
  <1> DEFINE taken == Taken(store, {v})
             c == SetRemove(store, {v})
             d == SetUpdate(taken, {w})
             e == <<c, d>>
             s == Added(taken, {w})
  <1>1. SetChange(c) /\ c.to = taken.state
    BY SetRemoveChange DEF Replace
  <1>2. SetChange(d) /\ d.from = taken.state /\ d.to = s.state
    BY SetUpdateChange
  <1>3. Record(s, e)
    BY DEF Replace
  <1> HIDE DEF taken, c, d, s
  <1>4. SetEntry(e)
    BY <1>1, <1>2, TwoChanges DEF SetEntry
  <1>5. EntryTo(e) = s.state
    BY <1>2, TwoChanges DEF EntryTo
  <1> HIDE DEF e
  <1>6. BothLists' /\ Entries' \subseteq Entries \cup {e}
    BY <1>3, EntriesRecorded DEF SetInv
  <1>7. Restores
    BY <1>3, <1>5, RestoresRecorded DEF SetInv
  <1> QED BY <1>4, <1>6, <1>7 DEF SetInv

LEMMA TwoAppended ==
    ASSUME NEW s, IsList(s), NEW e, NEW f
    PROVE  IsList(s \o <<e, f>>) /\ ToSet(s \o <<e, f>>) \subseteq ToSet(s) \cup {e, f}
           /\ Len(s \o <<e, f>>) = Len(s) + 2 /\ Last(s \o <<e, f>>) = f
  <1> DEFINE S == ToSet(s) \cup {e, f}
             t == s \o <<e, f>>
  <1>1. s \in Seq(S) /\ <<e, f>> \in Seq(S)
    BY DEF IsList
  <1> HIDE DEF S
  <1>2. t \in Seq(S)
    BY <1>1
  <1>3. Len(t) = Len(s) + 2 /\ t[Len(s) + 2] = f
    BY <1>1
  <1> HIDE DEF t
  <1>4. IsList(t) /\ ToSet(t) \subseteq S
    BY <1>2, ListOf
  <1> QED BY <1>3, <1>4 DEF t, S, Last

\* A symmetric difference removes and adds, in one entry.
LEMMA SymmetricallyUpdated ==
    ASSUME SetInv, NEW values, SymmetricDifferenceUpdate(values)
    PROVE  SetInv' /\ Restores
  <1> DEFINE coming  == values \ store.state
             leaving == store.state \cap values
             added   == Added(store, coming)
             e == <<SetUpdate(store, coming)>>
             f == <<SetRemove(added, leaving)>>
             s == Taken(added, leaving)
  <1>1. CASE AddValues(coming)
    BY <1>1, ValuesAdded
  <1>2. CASE RemoveValues(leaving)
    BY <1>2, ValuesRemoved
  <1>3. CASE /\ TakeAllowed(added, leaving) /\ store' = s
             /\ done' = done \o <<e, f>> /\ undone' = <<>>
    <2>1. SetEntry(e)
      BY SetUpdateChange, OneChange DEF SetEntry
    <2>2. SetEntry(f) /\ EntryTo(f) = s.state
      BY <1>3, SetRemoveChange, OneChange DEF SetEntry, EntryTo
    <2> HIDE DEF e, f, s
    <2>3. IsList(done') /\ ToSet(done') \subseteq ToSet(done) \cup {e, f}
      BY <1>3, TwoAppended DEF SetInv, BothLists
    <2>4. BothLists' /\ Entries' \subseteq Entries \cup {e, f}
      BY <1>3, <2>3, EmptyList DEF BothLists, Entries
    <2>5. Restores
      <3>1. Len(done') = Len(done) + 2 /\ Last(done') = f /\ Len(done) \in Nat
        BY <1>3, TwoAppended, ListIs DEF SetInv, BothLists
      <3>2. Made /\ ~ Undid
        BY <3>1 DEF Made, Undid
      <3>3. Entry = f
        BY <3>1, <3>2 DEF Entry
      <3> QED BY <1>3, <2>2, <3>2, <3>3 DEF Restores
    <2> QED BY <2>1, <2>2, <2>4, <2>5 DEF SetInv
  <1> QED BY <1>1, <1>2, <1>3 DEF SymmetricDifferenceUpdate

\* One change undone and redone.
LEMMA SetChangeRestores ==
    ASSUME NEW c, SetChange(c), NEW s
    PROVE  /\ s.state = c.to => \/ SetUndone(s, c).state = c.from
                                \/ c.type = "SetUpdate" /\ c.new \cap c.from # {}
           /\ s.state = c.from => SetRedone(s, c).state = c.to
  <1>1. CASE c.type = "SetUpdate"
    <2>1. c.to = c.from \cup c.new
      BY <1>1 DEF SetChange, SetReplays
    <2>2. SetUndone(s, c).state = s.state \ c.new /\ SetRedone(s, c).state = s.state \cup c.new
      BY <1>1 DEF SetUndone, SetRedone, Taken, Added
    <2> QED BY <1>1, <2>1, <2>2
  <1>2. CASE c.type = "SetRemove"
    <2>1. c.old \subseteq c.from /\ c.to = c.from \ c.old
      BY <1>2 DEF SetChange, SetReplays
    <2>2. SetUndone(s, c).state = s.state \cup c.old /\ SetRedone(s, c).state = s.state \ c.old
      BY <1>2 DEF SetUndone, SetRedone, RemovalUndone, Taken, Added
    <2> QED BY <1>2, <2>1, <2>2
  <1> QED BY <1>1, <1>2 DEF SetChange

\* An entry undone and redone, at the state it left: undo takes out what it added,
\* and so restores what was, unless values were added that were in the set.
LEMMA SetEntryRestores ==
    ASSUME NEW e, SetEntry(e)
    PROVE  /\ store.state = EntryTo(e) => SetEntryUndone(e).state = EntryFrom(e) \/ AddsHeld(e)
           /\ store.state = EntryFrom(e) => SetEntryRedone(e).state = EntryTo(e)
  <1>1. CASE Len(e) = 1 /\ DOMAIN e = {1} /\ SetChange(e[1])
    BY <1>1, SetChangeRestores DEF EntryTo, EntryFrom, SetEntryUndone, SetEntryRedone, AddsHeld
  <1>2. CASE /\ Len(e) = 2 /\ DOMAIN e = {1, 2}
             /\ SetChange(e[1]) /\ SetChange(e[2]) /\ e[1].to = e[2].from
    <2> DEFINE c == e[1]
               d == e[2]
               u == SetUndone(store, d)
               r == SetRedone(store, c)
    <2>1. /\ SetEntryUndone(e) = SetUndone(u, c) /\ SetEntryRedone(e) = SetRedone(r, d)
          /\ EntryTo(e) = d.to /\ EntryFrom(e) = c.from
          /\ \A k \in {1, 2} : e[k].type = "SetUpdate" /\ e[k].new \cap e[k].from # {} => AddsHeld(e)
      BY <1>2 DEF EntryTo, EntryFrom, SetEntryUndone, SetEntryRedone, AddsHeld
    <2> HIDE DEF u, r
    <2>2. /\ store.state = d.to => u.state = d.from \/ AddsHeld(e)
          /\ u.state = c.to => SetUndone(u, c).state = c.from \/ AddsHeld(e)
      BY <1>2, <2>1, SetChangeRestores DEF u
    <2>3. /\ store.state = c.from => r.state = c.to
          /\ r.state = d.from => SetRedone(r, d).state = d.to
      BY <1>2, SetChangeRestores DEF r
    <2> QED BY <1>2, <2>1, <2>2, <2>3
  <1> QED BY <1>1, <1>2 DEF SetEntry

\* Every step of a set keeps its entries changes that replay.
LEMMA SetStep ==
    ASSUME SetInv, SetNext
    PROVE  SetInv' /\ Restores
  <1>1. CASE SetCalls
    <2>1. CASE \E values \in SUBSET Values : AddValues(values)
      BY <2>1, ValuesAdded
    <2>2. CASE \E values \in SUBSET Values : RemoveValues(values)
      BY <2>2, ValuesRemoved
    <2>3. CASE ClearSet
      BY <2>3, ValuesRemoved DEF ClearSet
    <2>4. CASE \E values \in SUBSET Values : DiscardValues(values)
      BY <2>4, ValuesRemoved DEF DiscardValues
    <2>5. CASE \E values \in SUBSET Values : IntersectionUpdate(values)
      BY <2>5, ValuesRemoved DEF IntersectionUpdate
    <2>6. CASE \E values \in SUBSET Values : DifferenceUpdate(values)
      BY <2>6, ValuesRemoved DEF DifferenceUpdate
    <2>7. CASE \E values \in SUBSET Values : SymmetricDifferenceUpdate(values)
      BY <2>7, SymmetricallyUpdated
    <2>8. CASE \E v, w \in Values : Replace(v, w)
      BY <2>8, ValueReplaced
    <2> QED BY <1>1, <2>1, <2>2, <2>3, <2>4, <2>5, <2>6, <2>7, <2>8 DEF SetCalls
  <1>2. CASE \E k \in Kids : ChildChanges(k, SetChildReplaced(k))
    <2>1. done' = done /\ undone' = undone
      BY <1>2 DEF ChildChanges
    <2>2. SetInv'
      BY <2>1 DEF SetInv, BothLists, Entries
    <2> QED BY <2>1, <2>2, RestoresUnchanged DEF SetInv
  <1>3. CASE done # <<>> /\ UndoTo(SetEntryUndone(Last(done)))
    <2>1. SetInv'
      BY <1>3, EntriesUndone DEF SetInv
    <2>2. SetEntry(Last(done))
      BY <1>3, UndoneTo DEF SetInv, Entries
    <2> DEFINE s == SetEntryUndone(Last(done))
    <2>3. store.state = EntryTo(Last(done)) => s.state = EntryFrom(Last(done)) \/ AddsHeld(Last(done))
      BY <2>2, SetEntryRestores
    <2> HIDE DEF s
    <2>4. UndoTo(s)
      BY <1>3 DEF s
    <2> QED BY <1>3, <2>1, <2>3, <2>4, RestoresUndone DEF SetInv
  <1>4. CASE undone # <<>> /\ RedoTo(SetEntryRedone(Last(undone)))
    <2>1. SetInv'
      BY <1>4, EntriesRedone DEF SetInv
    <2>2. SetEntry(Last(undone))
      BY <1>4, RedoneTo DEF SetInv, Entries
    <2> DEFINE s == SetEntryRedone(Last(undone))
    <2>3. store.state = EntryFrom(Last(undone)) => s.state = EntryTo(Last(undone))
      BY <2>2, SetEntryRestores
    <2> HIDE DEF s
    <2>4. RedoTo(s)
      BY <1>4 DEF s
    <2> QED BY <1>4, <2>1, <2>3, <2>4, RestoresRedone DEF SetInv
  <1> QED BY <1>1, <1>2, <1>3, <1>4 DEF SetNext

LEMMA SetStart ==
    ASSUME done = <<>>, undone = <<>>
    PROVE  SetInv
  BY EmptyList DEF SetInv, BothLists, Entries

-----------------------------------------------------------------------------
(* Dicts.                                                                  *)

\* The first n items, without those that change nothing.
Choosing(s, items, f, n) ==
    IF n = 0 THEN <<>>
    ELSE IF items[n].value # s.state[items[n].key] THEN Append(f[n - 1], items[n])
    ELSE f[n - 1]

\* The items that change something, chosen one by one.
LEMMA ChoosingIs ==
    ASSUME NEW s, NEW items, NEW N \in Nat
    PROVE  \E f : f = [k \in 0..N |-> Choosing(s, items, f, k)]
  <1> DEFINE S == {n \in Nat : \E f : f = [k \in 0..n |-> Choosing(s, items, f, k)]}
  <1>1. 0 \in S
    <2> DEFINE f == [k \in 0..0 |-> <<>>]
    <2>1. \A k \in 0..0 : Choosing(s, items, f, k) = <<>>
      BY ZeroOnly DEF Choosing
    <2>2. f = [k \in 0..0 |-> Choosing(s, items, f, k)]
      BY <2>1
    <2> QED BY <2>2
  <1>2. ASSUME NEW n \in Nat, n \in S
        PROVE  n + 1 \in S
    <2>1. PICK f : f = [k \in 0..n |-> Choosing(s, items, f, k)]
      BY <1>2
    <2> DEFINE g == [k \in 0..(n + 1) |-> IF k = n + 1 THEN Choosing(s, items, f, n + 1) ELSE f[k]]
    <2>2. \A k \in 0..n : g[k] = f[k] /\ f[k] = Choosing(s, items, f, k)
      BY <2>1, OneFurther
    <2>3. g[n + 1] = Choosing(s, items, f, n + 1) /\ g = [k \in 0..(n + 1) |-> g[k]]
      BY OneFurther
    <2> HIDE DEF g
    <2>4. \A k \in 0..(n + 1) : Choosing(s, items, g, k) = Choosing(s, items, f, k)
      BY <2>2, Below DEF Choosing
    <2>5. \A k \in 0..(n + 1) : g[k] = Choosing(s, items, g, k)
      BY <2>2, <2>3, <2>4, OneFurther
    <2>6. g = [k \in 0..(n + 1) |-> Choosing(s, items, g, k)]
      BY <2>3, <2>5
    <2> QED BY <2>6
  <1> HIDE DEF S
  <1>3. N \in S
    BY <1>1, <1>2, Induct
  <1> QED BY <1>3 DEF S

LEMMA EffectiveChooses ==
    ASSUME NEW s, NEW items, NEW N \in Nat, Len(items) = N
    PROVE  \E f : /\ \A k \in 0..N : f[k] = Choosing(s, items, f, k)
                  /\ Effective(s, items) = f[N]
  <1> DEFINE f == CHOOSE g : g = [k \in 0..N |-> Choosing(s, items, g, k)]
             Step(g, n) == IF items[n].value # s.state[items[n].key]
                           THEN Append(g[n - 1], items[n]) ELSE g[n - 1]
  <1>1. f = [k \in 0..N |-> Choosing(s, items, f, k)]
    BY ChoosingIs
  <1>2. \A g, k : (IF k = 0 THEN <<>> ELSE Step(g, k)) = Choosing(s, items, g, k)
    BY DEF Choosing
  <1>3. Effective(s, items) = (CHOOSE g : g = [k \in 0..N |-> IF k = 0 THEN <<>> ELSE Step(g, k)])[N]
    BY DEF Effective
  <1>4. \A g : [k \in 0..N |-> IF k = 0 THEN <<>> ELSE Step(g, k)] = [k \in 0..N |-> Choosing(s, items, g, k)]
    BY <1>2
  <1> HIDE DEF Step
  <1>5. (CHOOSE g : g = [k \in 0..N |-> IF k = 0 THEN <<>> ELSE Step(g, k)]) = f
    BY <1>4
  <1>6. Effective(s, items) = f[N]
    BY <1>3, <1>5
  <1> HIDE DEF f
  <1>7. \A k \in 0..N : f[k] = Choosing(s, items, f, k)
    BY <1>1
  <1> QED BY <1>6, <1>7

\* The items that change something.
LEMMA EffectiveIs ==
    ASSUME NEW s, NEW items, IsList(items)
    PROVE  /\ IsList(Effective(s, items))
           /\ ToSet(Effective(s, items)) = {x \in ToSet(items) : x.value # s.state[x.key]}
  <1> DEFINE N == Len(items)
             Good(x) == x.value # s.state[x.key]
             First(k) == {items[i] : i \in 1..k}
  <1>1. N \in Nat /\ \A i \in 1..N : items[i] \in ToSet(items)
    BY ListIs
  <1>2. PICK f : /\ \A k \in 0..N : f[k] = Choosing(s, items, f, k)
                 /\ Effective(s, items) = f[N]
    BY <1>1, EffectiveChooses
  <1> DEFINE S == {k \in Nat : k <= N => /\ IsList(f[k])
                                         /\ ToSet(f[k]) = {x \in First(k) : Good(x)}}
  <1> HIDE DEF N
  <1>3. 0 \in S
    <2>1. 0 \in 0..N /\ First(0) = {}
      BY <1>1
    <2>2. f[0] = <<>>
      BY <1>2, <2>1 DEF Choosing
    <2> QED BY <2>1, <2>2, EmptyList
  <1>4. ASSUME NEW k \in Nat, k \in S
        PROVE  k + 1 \in S
    <2> SUFFICES ASSUME k + 1 <= N
                 PROVE  IsList(f[k + 1]) /\ ToSet(f[k + 1]) = {x \in First(k + 1) : Good(x)}
      OBVIOUS
    <2> DEFINE x == items[k + 1]
               q == f[k]
    <2>1. k + 1 \in 0..N /\ (k + 1) - 1 = k /\ k + 1 # 0 /\ k <= N
      BY <1>1
    <2>2. IsList(q) /\ ToSet(q) = {y \in First(k) : Good(y)}
      BY <1>4, <2>1
    <2>3. f[k + 1] = IF Good(x) THEN Append(q, x) ELSE q
      BY <1>2, <2>1 DEF Choosing
    <2>4. First(k + 1) = First(k) \cup {x}
      <3>1. \A i \in 1..(k + 1) : i \in 1..k \/ i = k + 1
        OBVIOUS
      <3>2. (\A i \in 1..k : i \in 1..(k + 1)) /\ k + 1 \in 1..(k + 1)
        OBVIOUS
      <3> QED BY <3>1, <3>2
    <2> HIDE DEF x, q, First
    <2>5. IsList(Append(q, x)) /\ ToSet(Append(q, x)) = ToSet(q) \cup {x}
      <3>1. /\ IsList(Append(q, x)) /\ Len(Append(q, x)) = Len(q) + 1
            /\ \A i \in 1..Len(q) : Append(q, x)[i] = q[i]
            /\ Append(q, x)[Len(q) + 1] = x
            /\ ToSet(Append(q, x)) \subseteq ToSet(q) \cup {x}
        BY <2>2, Appended
      <3> DEFINE t == Append(q, x)
      <3>2. Len(q) \in Nat /\ \A y \in ToSet(q) : \E i \in 1..Len(q) : q[i] = y
        BY <2>2, ListIs
      <3> HIDE DEF t
      <3>3. \A i \in 1..Len(t) : t[i] \in ToSet(t)
        BY <3>1, ListIs DEF t
      <3>4. \A i \in 1..Len(q) : i \in 1..Len(t)
        BY <3>1, <3>2 DEF t
      <3>5. Len(q) + 1 \in 1..Len(t)
        BY <3>1, <3>2 DEF t
      <3>6. \A y \in ToSet(q) : y \in ToSet(t)
        BY <3>1, <3>2, <3>3, <3>4 DEF t
      <3>7. x \in ToSet(t)
        BY <3>1, <3>3, <3>5 DEF t
      <3> QED BY <3>1, <3>6, <3>7 DEF t
    <2> QED BY <2>2, <2>3, <2>4, <2>5
  <1> HIDE DEF S
  <1>5. N \in S /\ N <= N
    BY <1>1, <1>3, <1>4, Induct
  <1>6. First(N) = ToSet(items)
    BY <1>1, ListIs DEF N
  <1> QED BY <1>2, <1>5, <1>6 DEF S

\* No key has two items.
KeysOnce(S) == \A x, y \in S : x.key = y.key => x = y

\* The state of a dict after items.
PutSet(state, S) ==
    [k \in Keys |-> IF \E x \in S : x.key = k
                    THEN (CHOOSE x \in S : x.key = k).value ELSE state[k]]

\* What a dict has at a key after items.
LEMMA PutIs ==
    ASSUME NEW state, NEW S, KeysOnce(S), NEW k \in Keys
    PROVE  /\ \A x \in S : x.key = k => PutSet(state, S)[k] = x.value
           /\ (\A x \in S : x.key # k) => PutSet(state, S)[k] = state[k]
  <1>1. ASSUME NEW x \in S, x.key = k
        PROVE  PutSet(state, S)[k] = x.value
    <2> DEFINE y == CHOOSE y \in S : y.key = k
    <2>1. y \in S /\ y.key = k
      BY <1>1
    <2>2. PutSet(state, S)[k] = y.value
      BY <1>1 DEF PutSet
    <2> HIDE DEF y
    <2> QED BY <1>1, <2>1, <2>2 DEF KeysOnce
  <1> QED BY <1>1 DEF PutSet

LEMMA StateAfterPut == \A s, items : DictStateAfter(s, items) = PutSet(s.state, ToSet(items))
  <1> SUFFICES ASSUME NEW s, NEW items
               PROVE  DictStateAfter(s, items) = PutSet(s.state, ToSet(items))
    OBVIOUS
  <1>1. \A k : (\E i \in DOMAIN items : items[i].key = k) <=> (\E x \in ToSet(items) : x.key = k)
    BY DEF ToSet
  <1> QED BY <1>1 DEF DictStateAfter, PutSet

\* Items that change nothing may be left out.
LEMMA PutEffective ==
    ASSUME NEW state, NEW S, KeysOnce(S)
    PROVE  PutSet(state, {x \in S : x.value # state[x.key]}) = PutSet(state, S)
  <1> DEFINE T == {x \in S : x.value # state[x.key]}
  <1>1. KeysOnce(T)
    BY DEF KeysOnce
  <1>2. ASSUME NEW k \in Keys
        PROVE  PutSet(state, T)[k] = PutSet(state, S)[k]
    <2>1. CASE \A x \in S : x.key # k
      <3>1. \A x \in T : x.key # k
        BY <2>1
      <3> HIDE DEF T
      <3> QED BY <1>1, <2>1, <3>1, PutIs
    <2>2. CASE \E x \in S : x.key = k
      <3>1. PICK x \in S : x.key = k
        BY <2>2
      <3>2. PutSet(state, S)[k] = x.value
        BY <3>1, PutIs
      <3>3. CASE x \in T
        <4> HIDE DEF T
        <4> QED BY <1>1, <3>1, <3>2, <3>3, PutIs
      <3>4. CASE x \notin T
        <4>1. x.value = state[k]
          BY <3>1, <3>4
        <4>2. \A y \in T : y.key # k
          BY <3>1, <3>4 DEF KeysOnce
        <4> HIDE DEF T
        <4> QED BY <1>1, <3>2, <4>1, <4>2, PutIs
      <3> QED BY <3>3, <3>4
    <2> QED BY <2>1, <2>2
  <1> HIDE DEF T
  <1> QED BY <1>2 DEF PutSet, T

\* A value or None for each key.
IsDict(state) == state = [k \in Keys |-> state[k]]

ItemsFit(items) == IsList(items) /\ KeysOnce(ToSet(items))

\* The store that items are put in has what they say.
LEMMA PutAllIs ==
    ASSUME NEW s, NEW items, ItemsFit(items)
    PROVE  /\ PutAll(s, items).state = PutSet(s.state, ToSet(items))
           /\ IsStore(PutAll(s, items)) /\ IsDict(PutAll(s, items).state)
  <1>1. PutAll(s, items).state = DictStateAfter(s, Effective(s, items)) /\ IsStore(PutAll(s, items))
    BY DEF PutAll, IsStore
  <1>2. ToSet(Effective(s, items)) = {x \in ToSet(items) : x.value # s.state[x.key]}
    BY EffectiveIs DEF ItemsFit
  <1>3. PutAll(s, items).state = PutSet(s.state, ToSet(items))
    BY <1>1, <1>2, StateAfterPut, PutEffective DEF ItemsFit
  <1>4. IsDict(PutSet(s.state, ToSet(items)))
    BY DEF IsDict, PutSet
  <1> QED BY <1>1, <1>3, <1>4

\* Both ways between two states.
DictEntry(e) ==
    /\ DOMAIN e = {1} /\ Len(e) = 1
    /\ e[1].type = "DictUpdate"
    /\ IsDict(e[1].from) /\ IsDict(e[1].to)
    /\ ItemsFit(e[1].new) /\ ItemsFit(e[1].old)
    /\ e[1].to = PutSet(e[1].from, ToSet(e[1].new))
    /\ e[1].from = PutSet(e[1].to, ToSet(e[1].old))
    /\ \A x \in ToSet(e[1].old) : e[1].from[x.key] = x.value

\* The entry of an update replays, in both directions.
LEMMA DictUpdateEntry ==
    ASSUME NEW s, IsDict(s.state), NEW items, ItemsFit(items)
    PROVE  /\ DictEntry(<<DictUpdate(s, items)>>)
  <1> DEFINE c == DictUpdate(s, items)
             some == Effective(s, items)
             to == PutAll(s, items).state
             old == OldItems(s, some)
  <1>1. /\ c.type = "DictUpdate" /\ c.from = s.state /\ c.to = to
        /\ c.new = items /\ c.old = old
    BY DEF DictUpdate
  <1>2. to = PutSet(s.state, ToSet(items)) /\ IsDict(to)
    BY PutAllIs
  <1>3. IsList(some) /\ ToSet(some) = {x \in ToSet(items) : x.value # s.state[x.key]}
    BY EffectiveIs DEF ItemsFit
  <1>4. to = PutSet(s.state, ToSet(some))
    BY <1>2, <1>3, PutEffective DEF ItemsFit
  <1>5. KeysOnce(ToSet(some))
    BY <1>3 DEF ItemsFit, KeysOnce
  <1> HIDE DEF c, some, to
  <1>6. /\ Len(some) \in Nat /\ DOMAIN some = 1..Len(some)
        /\ \A x \in ToSet(some) : \E i \in 1..Len(some) : some[i] = x
        /\ \A i \in 1..Len(some) : some[i] \in ToSet(some)
    BY <1>3, ListIs
  <1>7. old = [i \in 1..Len(some) |-> [key |-> some[i].key, value |-> s.state[some[i].key]]]
    BY <1>6 DEF OldItems
  <1> HIDE DEF old
  <1>8. /\ \A i \in 1..Len(some) : old[i].key = some[i].key /\ old[i].value = s.state[some[i].key]
        /\ DOMAIN old = 1..Len(some)
    BY <1>7
  <1>9. IsList(old)
    <2>1. old \in [1..Len(some) -> ToSet(old)]
      BY <1>7 DEF ToSet
    <2>2. old \in Seq(ToSet(old))
      BY <1>6, <2>1
    <2> QED BY <2>2 DEF IsList
  <1>10. /\ \A x \in ToSet(old) : x.value = s.state[x.key] /\ \E y \in ToSet(some) : y.key = x.key
         /\ \A y \in ToSet(some) : \E x \in ToSet(old) : x.key = y.key
    <2>1. ToSet(old) = {old[i] : i \in 1..Len(some)}
      BY <1>8 DEF ToSet
    <2> QED BY <1>6, <1>8, <2>1
  <1>11. KeysOnce(ToSet(old))
    <2> SUFFICES ASSUME NEW x \in ToSet(old), NEW y \in ToSet(old), x.key = y.key
                 PROVE  x = y
      BY DEF KeysOnce
    <2>1. PICK i \in 1..Len(some) : x = old[i]
      BY <1>8 DEF ToSet
    <2>2. PICK j \in 1..Len(some) : y = old[j]
      BY <1>8 DEF ToSet
    <2>3. some[i].key = some[j].key
      BY <1>8, <2>1, <2>2
    <2> QED BY <1>7, <2>1, <2>2, <2>3
  <1>12. s.state = PutSet(to, ToSet(old))
    <2>1. ASSUME NEW k \in Keys
          PROVE  s.state[k] = PutSet(to, ToSet(old))[k]
      <3>1. CASE \E x \in ToSet(old) : x.key = k
        <4>1. PICK x \in ToSet(old) : x.key = k
          BY <3>1
        <4>2. PutSet(to, ToSet(old))[k] = x.value
          BY <1>11, <4>1, PutIs
        <4> QED BY <1>10, <4>1, <4>2
      <3>2. CASE \A x \in ToSet(old) : x.key # k
        <4>1. PutSet(to, ToSet(old))[k] = to[k]
          BY <1>11, <3>2, PutIs
        <4>2. \A y \in ToSet(some) : y.key # k
          BY <1>10, <3>2
        <4>3. to[k] = s.state[k]
          BY <1>4, <1>5, <4>2, PutIs
        <4> QED BY <4>1, <4>3
      <3> QED BY <3>1, <3>2
    <2>2. PutSet(to, ToSet(old)) = [k \in Keys |-> PutSet(to, ToSet(old))[k]]
      BY DEF PutSet
    <2> QED BY <2>1, <2>2 DEF IsDict
  <1> DEFINE e == <<c>>
  <1>13. Len(e) = 1 /\ DOMAIN e = {1} /\ e[1] = c
    BY OneChange
  <1> HIDE DEF e
  <1>14. DictEntry(e)
    BY <1>1, <1>2, <1>9, <1>10, <1>11, <1>12, <1>13 DEF DictEntry, ItemsFit
  <1> QED BY <1>14 DEF e, c

\* An entry undone and redone, at the state it left or found.
LEMMA DictEntryRestores ==
    ASSUME NEW e, DictEntry(e)
    PROVE  /\ DictReplays(e[1])
           /\ EntryTo(e) = e[1].to /\ EntryFrom(e) = e[1].from
  <1> DEFINE c == e[1]
  <1>1. /\ c.to = PutSet(c.from, ToSet(c.new)) /\ IsList(c.old)
        /\ \A x \in ToSet(c.old) : c.from[x.key] = x.value
    BY DEF DictEntry, ItemsFit
  <1>2. \A k : (\E i \in DOMAIN c.new : c.new[i].key = k) <=> (\E x \in ToSet(c.new) : x.key = k)
    BY DEF ToSet
  <1>3. \A i \in DOMAIN c.old : c.old[i] \in ToSet(c.old)
    BY DEF ToSet
  <1>4. EntryTo(e) = c.to /\ EntryFrom(e) = c.from
    BY DEF EntryTo, EntryFrom, DictEntry
  <1> HIDE DEF c
  <1>5. DictReplays(c)
    BY <1>1, <1>2, <1>3 DEF DictReplays, PutSet
  <1> QED BY <1>4, <1>5 DEF c

\* The invariant of a dict.
DictInv ==
    /\ IsStore(store) /\ IsDict(store.state)
    /\ BothLists
    /\ \A e \in Entries : DictEntry(e)

LEMMA ItemsUpdated ==
    ASSUME DictInv, NEW items, ItemsFit(items), UpdateItems(items)
    PROVE  DictInv' /\ Restores
  <1> DEFINE e == <<DictUpdate(store, items)>>
             s == PutAll(store, items)
  <1>1. DictEntry(e) /\ IsStore(s) /\ IsDict(s.state)
    BY DictUpdateEntry, PutAllIs DEF DictInv
  <1>2. Record(s, e)
    BY DEF UpdateItems
  <1>3. EntryTo(e) = s.state
    BY OneChange DEF EntryTo, DictUpdate
  <1> HIDE DEF e, s
  <1>4. BothLists' /\ Entries' \subseteq Entries \cup {e} /\ store' = s
    BY <1>2, EntriesRecorded DEF DictInv, Record
  <1>5. Restores
    BY <1>2, <1>3, RestoresRecorded DEF DictInv
  <1> QED BY <1>1, <1>4, <1>5 DEF DictInv

LEMMA DictUndid ==
    ASSUME DictInv, done # <<>>, UndoTo(DictUndone(Last(done)))
    PROVE  DictInv' /\ Restores
  <1> DEFINE e == Last(done)
             s == DictUndone(e)
  <1>1. BothLists' /\ Entries' \subseteq Entries /\ e \in ToSet(done) /\ store' = s
    BY EntriesUndone, UndoneTo DEF DictInv, UndoTo
  <1>2. DictEntry(e) /\ ItemsFit(e[1].old)
    BY <1>1 DEF DictInv, Entries, DictEntry
  <1> HIDE DEF e
  <1>3. s.state = PutSet(store.state, ToSet(e[1].old)) /\ IsStore(s) /\ IsDict(s.state)
    BY <1>2, PutAllIs DEF DictUndone
  <1>4. store.state = EntryTo(e) => s.state = EntryFrom(e)
    BY <1>2, <1>3, DictEntryRestores DEF DictEntry
  <1> HIDE DEF s
  <1>5. Restores
    BY <1>4, RestoresUndone DEF DictInv, e, s
  <1> QED BY <1>1, <1>3, <1>5 DEF DictInv, e

LEMMA DictRedid ==
    ASSUME DictInv, undone # <<>>, RedoTo(DictRedone(Last(undone)))
    PROVE  DictInv' /\ Restores
  <1> DEFINE e == Last(undone)
             s == DictRedone(e)
  <1>1. BothLists' /\ Entries' \subseteq Entries /\ e \in ToSet(undone) /\ store' = s
    BY EntriesRedone, RedoneTo DEF DictInv, RedoTo
  <1>2. DictEntry(e) /\ ItemsFit(e[1].new)
    BY <1>1 DEF DictInv, Entries, DictEntry
  <1> HIDE DEF e
  <1>3. s.state = PutSet(store.state, ToSet(e[1].new)) /\ IsStore(s) /\ IsDict(s.state)
    BY <1>2, PutAllIs DEF DictRedone
  <1>4. store.state = EntryFrom(e) => s.state = EntryTo(e)
    BY <1>2, <1>3, DictEntryRestores DEF DictEntry
  <1> HIDE DEF s
  <1>5. Restores
    BY <1>4, RestoresRedone DEF DictInv, e, s
  <1> QED BY <1>1, <1>3, <1>5 DEF DictInv, e

LEMMA OneItem == \A x : ItemsFit(<<x>>)
  <1> SUFFICES ASSUME NEW x PROVE ItemsFit(<<x>>)
    OBVIOUS
  <1>1. ToSet(<<x>>) = {x} /\ <<x>> \in Seq({x})
    BY DEF ToSet
  <1> QED BY <1>1 DEF ItemsFit, IsList, KeysOnce

\* A sequence of items with keys that are different.
LEMMA SequenceFits ==
    ASSUME NEW n \in Nat, NEW items, DOMAIN items = 1..n, items = [i \in 1..n |-> items[i]],
           \A i, j \in 1..n : items[i].key = items[j].key => i = j
    PROVE  ItemsFit(items)
  <1>1. ToSet(items) = {items[i] : i \in 1..n}
    BY DEF ToSet
  <1>2. items \in [1..n -> ToSet(items)]
    BY <1>1
  <1>3. IsList(items)
    BY <1>2 DEF IsList
  <1>4. KeysOnce(ToSet(items))
    BY <1>1 DEF KeysOnce
  <1> QED BY <1>3, <1>4 DEF ItemsFit

\* Every step of a dict keeps its entries changes that replay.
LEMMA DictStep ==
    ASSUME DictInv, DictNext
    PROVE  DictInv' /\ Restores
  <1>1. CASE DictCalls
    <2>1. ASSUME NEW k, NEW v, SetKey(k, v)
          PROVE  DictInv' /\ Restores
      BY <2>1, OneItem, ItemsUpdated DEF SetKey
    <2>2. CASE \E items \in DictItems : UpdateItems(items)
      <3>1. PICK items \in DictItems : UpdateItems(items)
        BY <2>2
      <3>2. PICK n \in 1..2 : items \in [1..n -> [key : Keys, value : Values \cup {None}]]
        BY DEF DictItems
      <3>3. Len(items) = n
        BY <3>2
      <3>4. \A i, j \in 1..n : items[i].key = items[j].key => i = j
        <4>1. n = 2 => items[1].key # items[2].key
          BY <3>3 DEF DictItems
        <4>2. \A i \in 1..n : i = 1 \/ (i = 2 /\ n = 2)
          OBVIOUS
        <4> QED BY <4>1, <4>2
      <3>5. n \in Nat /\ DOMAIN items = 1..n /\ items = [i \in 1..n |-> items[i]]
        BY <3>2
      <3> QED BY <3>1, <3>4, <3>5, SequenceFits, ItemsUpdated
    <2>3. CASE \E k \in Keys, v \in Values : SetKey(k, v)
      BY <2>1, <2>3
    <2>4. CASE \E k \in Keys : RemoveKey(k)
      BY <2>1, <2>4 DEF RemoveKey
    <2>5. CASE \E k \in Keys : DiscardKey(k)
      BY <2>1, <2>5 DEF DiscardKey, RemoveKey
    <2>6. CASE \E k \in Keys, v \in Values : SetDefault(k, v)
      BY <2>1, <2>6 DEF SetDefault
    <2>7. CASE ClearDict
      <3> DEFINE S == {k \in Keys : store.state[k] # None}
      <3>1. PICK keys \in SetToSeqs(S) :
              UpdateItems([i \in DOMAIN keys |-> [key |-> keys[i], value |-> None]])
        BY <2>7 DEF ClearDict
      <3>2. IsFiniteSet(S)
        BY KeysAssumption, FS_Subset
      <3> HIDE DEF S
      <3> DEFINE n == Cardinality(S)
                 items == [i \in DOMAIN keys |-> [key |-> keys[i], value |-> None]]
      <3>3. /\ n \in Nat /\ DOMAIN keys = 1..n
            /\ \A i, j \in 1..n : keys[i] = keys[j] => i = j
        BY <3>2, Permuted
      <3> HIDE DEF n
      <3>4. /\ DOMAIN items = 1..n /\ items = [i \in 1..n |-> items[i]]
            /\ \A i \in 1..n : items[i].key = keys[i]
        BY <3>3
      <3> HIDE DEF items
      <3>5. ItemsFit(items)
        BY <3>3, <3>4, SequenceFits
      <3> QED BY <3>1, <3>5, ItemsUpdated DEF items
    <2> QED BY <1>1, <2>2, <2>3, <2>4, <2>5, <2>6, <2>7 DEF DictCalls
  <1>2. CASE \E k \in Kids : ChildChanges(k, DictChildReplaced(k))
    <2>1. PICK k \in Kids : ChildChanges(k, DictChildReplaced(k))
      BY <1>2
    <2>2. IsStore(store') /\ store'.state = store.state
      BY <2>1, DataReplaced DEF DictChildReplaced, ChildChanges, DictInv
    <2>3. BothLists' /\ Entries' = Entries
      BY <2>1 DEF ChildChanges, DictInv, BothLists, Entries
    <2>4. Restores
      BY <2>1, RestoresUnchanged DEF ChildChanges, DictInv
    <2> QED BY <2>2, <2>3, <2>4 DEF DictInv
  <1>3. CASE done # <<>> /\ UndoTo(DictUndone(Last(done)))
    BY <1>3, DictUndid
  <1>4. CASE undone # <<>> /\ RedoTo(DictRedone(Last(undone)))
    BY <1>4, DictRedid
  <1> QED BY <1>1, <1>2, <1>3, <1>4 DEF DictNext

LEMMA DictStart ==
    ASSUME DictInit, done = <<>>, undone = <<>>
    PROVE  DictInv
  <1>1. PICK state \in [Keys -> Values \cup {None}] :
          \E keys \in SetToSeqs({k \in Keys : state[k] # None}) :
             store = PutAll(EmptyDict, DictItemsOf(state, keys))
    BY DEF DictInit
  <1> DEFINE S == {k \in Keys : state[k] # None}
             n == Cardinality(S)
  <1>2. PICK keys \in SetToSeqs(S) : store = PutAll(EmptyDict, DictItemsOf(state, keys))
    BY <1>1
  <1>3. IsFiniteSet(S)
    BY KeysAssumption, FS_Subset
  <1> HIDE DEF S
  <1>4. /\ n \in Nat /\ DOMAIN keys = 1..n
        /\ \A i, j \in 1..n : keys[i] = keys[j] => i = j
    BY <1>3, Permuted
  <1> DEFINE items == DictItemsOf(state, keys)
  <1> HIDE DEF n
  <1>5. /\ DOMAIN items = 1..n /\ items = [i \in 1..n |-> items[i]]
        /\ \A i \in 1..n : items[i].key = keys[i]
    BY <1>4 DEF DictItemsOf
  <1> HIDE DEF items
  <1>6. ItemsFit(items)
    BY <1>4, <1>5, SequenceFits
  <1>7. IsStore(store) /\ IsDict(store.state)
    BY <1>2, <1>6, PutAllIs DEF items
  <1>8. BothLists /\ Entries = {}
    BY EmptyList DEF BothLists, Entries
  <1> QED BY <1>7, <1>8 DEF DictInv

-----------------------------------------------------------------------------
(* Parts of sequences, and sequences with something put in or cut out.     *)

\* A list with v put in at i, and without what is from i to j.
Ins(s, i, v) == Part(s, 0, i) \o v \o Part(s, i, Len(s))
Cut(s, i, j) == Part(s, 0, i) \o Part(s, j, Len(s))

\* A slice of a list.
LEMMA PartIs ==
    ASSUME NEW S, NEW s \in Seq(S), NEW i \in Nat, NEW j \in Nat, i <= j, j <= Len(s)
    PROVE  /\ Part(s, i, j) \in Seq(S) /\ Len(Part(s, i, j)) = j - i
           /\ \A k \in 1..(j - i) : Part(s, i, j)[k] = s[i + k]
  <1> DEFINE m == i + 1
             t == SubSeq(s, m, j)
  <1>1. /\ m \in 1..(Len(s) + 1) /\ j \in (m - 1)..Len(s)
        /\ j - m + 1 = j - i
    BY LenProperties
  <1>2. /\ t \in Seq(S) /\ Len(t) = j - m + 1
        /\ \A k \in 1..(j - m + 1) : t[k] = s[m + k - 1]
    <2> HIDE DEF m
    <2> QED BY <1>1, SubSeqProperties
  <1>3. \A k \in 1..(j - i) : m + k - 1 = i + k
    OBVIOUS
  <1>4. t = Part(s, i, j)
    BY DEF Part
  <1> HIDE DEF m, t
  <1> QED BY <1>1, <1>2, <1>3, <1>4

LEMMA Joined ==
    ASSUME NEW S, NEW s \in Seq(S), NEW t \in Seq(S)
    PROVE  /\ s \o t \in Seq(S) /\ Len(s \o t) = Len(s) + Len(t)
           /\ Len(s) \in Nat /\ Len(t) \in Nat
           /\ \A k \in 1..Len(s) : (s \o t)[k] = s[k]
           /\ \A k \in 1..Len(t) : (s \o t)[Len(s) + k] = t[k]
  <1>1. /\ s \o t \in Seq(S) /\ Len(s \o t) = Len(s) + Len(t)
        /\ Len(s) \in Nat /\ Len(t) \in Nat
        /\ \A k \in 1..(Len(s) + Len(t)) :
             (s \o t)[k] = IF k <= Len(s) THEN s[k] ELSE t[k - Len(s)]
    BY ConcatProperties, LenProperties
  <1>2. \A k \in 1..Len(s) : (s \o t)[k] = s[k]
    BY <1>1
  <1>3. \A k \in 1..Len(t) : (s \o t)[Len(s) + k] = t[k]
    <2> TAKE k \in 1..Len(t)
    <2>1. /\ Len(s) + k \in 1..(Len(s) + Len(t)) /\ ~ (Len(s) + k <= Len(s))
          /\ (Len(s) + k) - Len(s) = k
      BY <1>1
    <2> QED BY <1>1, <2>1
  <1> QED BY <1>1, <1>2, <1>3

LEMMA SameSequence ==
    ASSUME NEW S, NEW s \in Seq(S), NEW t \in Seq(S), Len(s) = Len(t),
           \A k \in 1..Len(s) : s[k] = t[k]
    PROVE  s = t
  BY SeqEqual

\* A list without a slice.
LEMMA CutIs ==
    ASSUME NEW S, NEW s \in Seq(S), NEW i \in Nat, NEW j \in Nat, i <= j, j <= Len(s)
    PROVE  /\ Cut(s, i, j) \in Seq(S) /\ Len(Cut(s, i, j)) = Len(s) - (j - i)
           /\ \A k \in 1..i : Cut(s, i, j)[k] = s[k]
           /\ \A k \in (i + 1)..(Len(s) - (j - i)) : Cut(s, i, j)[k] = s[k + (j - i)]
  <1> DEFINE a == Part(s, 0, i)
             b == Part(s, j, Len(s))
  <1>1. /\ Len(s) \in Nat /\ i <= Len(s) /\ Len(s) <= Len(s)
        /\ 0 \in Nat /\ 0 <= i
    BY LenProperties
  <1>2. /\ a \in Seq(S) /\ Len(a) = i
        /\ \A k \in 1..i : a[k] = s[k]
    <2>1. /\ a \in Seq(S) /\ Len(a) = i - 0
          /\ \A k \in 1..(i - 0) : a[k] = s[0 + k]
      BY <1>1, PartIs, Zenon
    <2> HIDE DEF a
    <2> QED BY <2>1
  <1>3. /\ b \in Seq(S) /\ Len(b) = Len(s) - j
        /\ \A k \in 1..(Len(s) - j) : b[k] = s[j + k]
    BY <1>1, PartIs, Zenon
  <1> HIDE DEF a, b
  <1>4. /\ a \o b \in Seq(S) /\ Len(a \o b) = i + (Len(s) - j)
        /\ \A k \in 1..i : (a \o b)[k] = s[k]
        /\ \A k \in 1..(Len(s) - j) : (a \o b)[i + k] = s[j + k]
    <2>1. /\ a \o b \in Seq(S) /\ Len(a \o b) = Len(a) + Len(b)
          /\ \A k \in 1..Len(a) : (a \o b)[k] = a[k]
          /\ \A k \in 1..Len(b) : (a \o b)[Len(a) + k] = b[k]
      <3>1. a \in Seq(S) /\ b \in Seq(S)
        BY <1>2, <1>3
      <3> QED BY ONLY <3>1, Joined
    <2> QED BY <1>2, <1>3, <2>1
  <1>5. ASSUME NEW k \in (i + 1)..(Len(s) - (j - i))
        PROVE  (a \o b)[k] = s[k + (j - i)]
    <2>1. k - i \in 1..(Len(s) - j) /\ i + (k - i) = k /\ j + (k - i) = k + (j - i)
      BY <1>1
    <2> QED BY <1>4, <2>1
  <1>6. Cut(s, i, j) = a \o b
    BY DEF Cut, a, b
  <1>7. i + (Len(s) - j) = Len(s) - (j - i)
    BY <1>1
  <1> QED BY <1>4, <1>5, <1>6, <1>7

\* A list with another one put in.
LEMMA InsIs ==
    ASSUME NEW S, NEW s \in Seq(S), NEW v \in Seq(S), NEW i \in Nat, i <= Len(s)
    PROVE  /\ Ins(s, i, v) \in Seq(S) /\ Len(Ins(s, i, v)) = Len(s) + Len(v)
           /\ \A k \in 1..i : Ins(s, i, v)[k] = s[k]
           /\ \A k \in 1..Len(v) : Ins(s, i, v)[i + k] = v[k]
           /\ \A k \in (i + 1)..Len(s) : Ins(s, i, v)[k + Len(v)] = s[k]
  <1> DEFINE a == Part(s, 0, i)
             b == Part(s, i, Len(s))
             c == a \o v
  <1>1. /\ Len(s) \in Nat /\ Len(v) \in Nat /\ Len(s) <= Len(s)
        /\ 0 \in Nat /\ 0 <= i
    BY LenProperties
  <1>2. /\ a \in Seq(S) /\ Len(a) = i
        /\ \A k \in 1..i : a[k] = s[k]
    <2>1. /\ a \in Seq(S) /\ Len(a) = i - 0
          /\ \A k \in 1..(i - 0) : a[k] = s[0 + k]
      BY <1>1, PartIs, Zenon
    <2> HIDE DEF a
    <2> QED BY <2>1
  <1>3. /\ b \in Seq(S) /\ Len(b) = Len(s) - i
        /\ \A k \in 1..(Len(s) - i) : b[k] = s[i + k]
    BY <1>1, PartIs, Zenon
  <1>4. Ins(s, i, v) = c \o b
    BY DEF Ins
  <1> HIDE DEF a, b
  <1>5. /\ c \in Seq(S) /\ Len(c) = i + Len(v)
        /\ \A k \in 1..i : c[k] = s[k]
        /\ \A k \in 1..Len(v) : c[i + k] = v[k]
    <2>1. /\ a \o v \in Seq(S) /\ Len(a \o v) = Len(a) + Len(v)
          /\ \A k \in 1..Len(a) : (a \o v)[k] = a[k]
          /\ \A k \in 1..Len(v) : (a \o v)[Len(a) + k] = v[k]
      <3>1. a \in Seq(S) /\ v \in Seq(S)
        BY <1>2
      <3> QED BY ONLY <3>1, Joined
    <2> QED BY <1>2, <2>1
  <1> HIDE DEF c
  <1>6. /\ c \o b \in Seq(S) /\ Len(c \o b) = (i + Len(v)) + (Len(s) - i)
        /\ \A k \in 1..(i + Len(v)) : (c \o b)[k] = c[k]
        /\ \A k \in 1..(Len(s) - i) : (c \o b)[(i + Len(v)) + k] = s[i + k]
    <2>1. /\ c \o b \in Seq(S) /\ Len(c \o b) = Len(c) + Len(b)
          /\ \A k \in 1..Len(c) : (c \o b)[k] = c[k]
          /\ \A k \in 1..Len(b) : (c \o b)[Len(c) + k] = b[k]
      <3>1. c \in Seq(S) /\ b \in Seq(S)
        BY <1>3, <1>5
      <3> QED BY ONLY <3>1, Joined
    <2> QED BY <1>3, <1>5, <2>1
  <1>7. \A k \in 1..i : (c \o b)[k] = s[k]
    BY <1>1, <1>5, <1>6
  <1>8. \A k \in 1..Len(v) : (c \o b)[i + k] = v[k]
    BY <1>1, <1>5, <1>6
  <1>9. ASSUME NEW k \in (i + 1)..Len(s)
        PROVE  (c \o b)[k + Len(v)] = s[k]
    <2>1. /\ k - i \in 1..(Len(s) - i) /\ i + (k - i) = k
          /\ (i + Len(v)) + (k - i) = k + Len(v)
      BY <1>1
    <2> QED BY <1>6, <2>1
  <1>10. (i + Len(v)) + (Len(s) - i) = Len(s) + Len(v)
    BY <1>1
  <1> QED BY <1>4, <1>6, <1>7, <1>8, <1>9, <1>10

\* What was put in is there, and cut out of it leaves what was there.
LEMMA InsCut ==
    ASSUME NEW S, NEW s \in Seq(S), NEW v \in Seq(S), NEW i \in Nat, i <= Len(s)
    PROVE  /\ Part(Ins(s, i, v), i, i + Len(v)) = v
           /\ Cut(Ins(s, i, v), i, i + Len(v)) = s
  <1> DEFINE t == Ins(s, i, v)
             n == Len(v)
             j == i + n
  <1>1. Len(s) \in Nat /\ n \in Nat
    BY LenProperties
  <1>2. /\ t \in Seq(S) /\ Len(t) = Len(s) + n
        /\ \A k \in 1..i : t[k] = s[k]
        /\ \A k \in 1..n : t[i + k] = v[k]
        /\ \A k \in (i + 1)..Len(s) : t[k + n] = s[k]
    BY InsIs
  <1> HIDE DEF t, n
  <1>3. j \in Nat /\ i <= j /\ j <= Len(t) /\ j - i = n
    BY <1>1, <1>2
  <1> HIDE DEF j
  <1>4. Part(t, i, j) = v
    <2>1. /\ Part(t, i, j) \in Seq(S) /\ Len(Part(t, i, j)) = n
          /\ \A k \in 1..n : Part(t, i, j)[k] = t[i + k]
      <3>1. /\ Part(t, i, j) \in Seq(S) /\ Len(Part(t, i, j)) = j - i
            /\ \A k \in 1..(j - i) : Part(t, i, j)[k] = t[i + k]
        <4>1. t \in Seq(S) /\ i \in Nat /\ j \in Nat /\ i <= j /\ j <= Len(t)
          BY <1>2, <1>3
        <4> QED BY ONLY <4>1, PartIs
      <3> QED BY <1>3, <3>1
    <2> QED BY <1>2, <2>1, SameSequence DEF n
  <1>5. Cut(t, i, j) = s
    <2>1. /\ Cut(t, i, j) \in Seq(S) /\ Len(Cut(t, i, j)) = Len(t) - n
          /\ \A k \in 1..i : Cut(t, i, j)[k] = t[k]
          /\ \A k \in (i + 1)..(Len(t) - n) : Cut(t, i, j)[k] = t[k + n]
      <3>1. /\ Cut(t, i, j) \in Seq(S) /\ Len(Cut(t, i, j)) = Len(t) - (j - i)
            /\ \A k \in 1..i : Cut(t, i, j)[k] = t[k]
            /\ \A k \in (i + 1)..(Len(t) - (j - i)) : Cut(t, i, j)[k] = t[k + (j - i)]
        <4>1. t \in Seq(S) /\ i \in Nat /\ j \in Nat /\ i <= j /\ j <= Len(t)
          BY <1>2, <1>3
        <4> QED BY ONLY <4>1, CutIs
      <3> QED BY <1>3, <3>1
    <2>2. Len(t) - n = Len(s)
      BY <1>1, <1>2
    <2>3. \A k \in 1..Len(s) : Cut(t, i, j)[k] = s[k]
      <3> TAKE k \in 1..Len(s)
      <3>1. k \in 1..i \/ k \in (i + 1)..Len(s)
        OBVIOUS
      <3> QED BY <1>2, <2>1, <2>2, <3>1
    <2> QED BY <2>1, <2>2, <2>3, SameSequence
  <1> QED BY <1>4, <1>5 DEF t, j, n

\* What was cut out and is put in again restores the sequence.
LEMMA CutIns ==
    ASSUME NEW S, NEW s \in Seq(S), NEW i \in Nat, NEW j \in Nat, i <= j, j <= Len(s)
    PROVE  Ins(Cut(s, i, j), i, Part(s, i, j)) = s
  <1> DEFINE t == Cut(s, i, j)
             v == Part(s, i, j)
             r == Ins(t, i, v)
             n == j - i
  <1>1. Len(s) \in Nat /\ n \in Nat /\ i + n = j
    BY LenProperties
  <1>2. /\ t \in Seq(S) /\ Len(t) = Len(s) - n
        /\ \A k \in 1..i : t[k] = s[k]
        /\ \A k \in (i + 1)..(Len(s) - n) : t[k] = s[k + n]
    BY CutIs
  <1>3. v \in Seq(S) /\ Len(v) = n /\ \A k \in 1..n : v[k] = s[i + k]
    BY PartIs
  <1> HIDE DEF t, v, n
  <1>4. i <= Len(t)
    BY <1>1, <1>2
  <1>5. /\ r \in Seq(S) /\ Len(r) = Len(t) + Len(v)
        /\ \A k \in 1..i : r[k] = t[k]
        /\ \A k \in 1..Len(v) : r[i + k] = v[k]
        /\ \A k \in (i + 1)..Len(t) : r[k + Len(v)] = t[k]
    <2>1. t \in Seq(S) /\ v \in Seq(S) /\ i \in Nat /\ i <= Len(t)
      BY <1>2, <1>3, <1>4
    <2> QED BY ONLY <2>1, InsIs DEF r
  <1> HIDE DEF r
  <1>6. Len(r) = Len(s)
    BY <1>1, <1>2, <1>3, <1>5
  <1>7. \A k \in 1..Len(s) : r[k] = s[k]
    <2> TAKE k \in 1..Len(s)
    <2>1. CASE k \in 1..i
      BY <1>2, <1>5, <2>1
    <2>2. CASE k - i \in 1..n
      <3>1. r[i + (k - i)] = s[i + (k - i)]
        BY <1>3, <1>5, <2>2
      <3>2. i + (k - i) = k
        BY <1>1
      <3> QED BY <3>1, <3>2
    <2>3. CASE k - n \in (i + 1)..(Len(s) - n)
      <3>1. r[(k - n) + n] = s[(k - n) + n]
        BY <1>2, <1>3, <1>5, <2>3
      <3>2. (k - n) + n = k
        BY <1>1
      <3> QED BY <3>1, <3>2
    <2> QED BY <1>1, <2>1, <2>2, <2>3
  <1>8. r = s
    BY <1>5, <1>6, <1>7, SameSequence
  <1> QED BY <1>8 DEF r, t, v

LEMMA CommonSet ==
    ASSUME NEW s, IsList(s), NEW v, IsList(v)
    PROVE  \E S : s \in Seq(S) /\ v \in Seq(S)
  <1> DEFINE S == ToSet(s) \cup ToSet(v)
  <1>1. s \in Seq(S) /\ v \in Seq(S)
    BY DEF IsList
  <1> QED BY <1>1

LEMMA ListPart ==
    ASSUME NEW s, IsList(s), NEW i \in Nat, NEW j \in Nat, i <= j, j <= Len(s)
    PROVE  IsList(Part(s, i, j)) /\ Len(Part(s, i, j)) = j - i
  <1>1. s \in Seq(ToSet(s))
    BY DEF IsList
  <1>2. Part(s, i, j) \in Seq(ToSet(s)) /\ Len(Part(s, i, j)) = j - i
    BY ONLY <1>1, i \in Nat, j \in Nat, i <= j, j <= Len(s), PartIs
  <1> QED BY <1>2, ListOf

LEMMA ListCut ==
    ASSUME NEW s, IsList(s), NEW i \in Nat, NEW j \in Nat, i <= j, j <= Len(s)
    PROVE  IsList(Cut(s, i, j)) /\ Len(Cut(s, i, j)) = Len(s) - (j - i)
  <1>1. s \in Seq(ToSet(s))
    BY DEF IsList
  <1>2. Cut(s, i, j) \in Seq(ToSet(s)) /\ Len(Cut(s, i, j)) = Len(s) - (j - i)
    BY ONLY <1>1, i \in Nat, j \in Nat, i <= j, j <= Len(s), CutIs
  <1> QED BY <1>2, ListOf

LEMMA ListIns ==
    ASSUME NEW s, IsList(s), NEW v, IsList(v), NEW i \in Nat, i <= Len(s)
    PROVE  /\ IsList(Ins(s, i, v)) /\ Len(Ins(s, i, v)) = Len(s) + Len(v)
           /\ Part(Ins(s, i, v), i, i + Len(v)) = v
           /\ Cut(Ins(s, i, v), i, i + Len(v)) = s
  <1>1. PICK S : s \in Seq(S) /\ v \in Seq(S)
    BY CommonSet
  <1>2. Ins(s, i, v) \in Seq(S) /\ Len(Ins(s, i, v)) = Len(s) + Len(v)
    BY ONLY <1>1, i \in Nat, i <= Len(s), InsIs
  <1>3. /\ Part(Ins(s, i, v), i, i + Len(v)) = v
        /\ Cut(Ins(s, i, v), i, i + Len(v)) = s
    BY ONLY <1>1, i \in Nat, i <= Len(s), InsCut
  <1> QED BY <1>2, <1>3, ListOf

\* A slice that is cut out and put in again.
LEMMA ListCutIns ==
    ASSUME NEW s, IsList(s), NEW i \in Nat, NEW j \in Nat, i <= j, j <= Len(s)
    PROVE  Ins(Cut(s, i, j), i, Part(s, i, j)) = s
  <1>1. s \in Seq(ToSet(s))
    BY DEF IsList
  <1> QED BY ONLY <1>1, i \in Nat, j \in Nat, i <= j, j <= Len(s), CutIns

\* A part is replaced: it is cut out, and the new values are put in.
LEMMA ListReplaced ==
    ASSUME NEW s, IsList(s), NEW v, IsList(v), NEW i \in Nat, i + Len(v) <= Len(s)
    PROVE  /\ Part(s, 0, i) \o v \o Part(s, i + Len(v), Len(s)) = Ins(Cut(s, i, i + Len(v)), i, v)
           /\ \A k \in 1..Len(s) : k \notin (i + 1)..(i + Len(v)) =>
                Ins(Cut(s, i, i + Len(v)), i, v)[k] = s[k]
  <1> DEFINE n == Len(v)
             j == i + n
             t == Cut(s, i, j)
  <1>1. n \in Nat /\ Len(s) \in Nat /\ j \in Nat /\ i <= j /\ j <= Len(s)
    BY ListIs
  <1>2. PICK S : s \in Seq(S) /\ v \in Seq(S)
    BY CommonSet
  <1> HIDE DEF n
  <1>3. j - i = n
    BY <1>1
  <1> HIDE DEF j
  <1>4. /\ t \in Seq(S) /\ Len(t) = Len(s) - (j - i)
        /\ \A k \in 1..i : t[k] = s[k]
        /\ \A k \in (i + 1)..(Len(s) - (j - i)) : t[k] = s[k + (j - i)]
    <2>1. s \in Seq(S) /\ i \in Nat /\ j \in Nat /\ i <= j /\ j <= Len(s)
      BY <1>1, <1>2
    <2> QED BY ONLY <2>1, CutIs
  <1> HIDE DEF t
  <1>5. Len(t) = Len(s) - n /\ i <= Len(t) /\ \A k \in (i + 1)..(Len(s) - n) : t[k] = s[k + n]
    BY <1>1, <1>3, <1>4
  <1>6. Part(t, 0, i) = Part(s, 0, i)
    <2>1. 0 \in Nat /\ 0 <= i /\ i <= Len(t) /\ i <= Len(s) /\ t \in Seq(S) /\ s \in Seq(S) /\ i \in Nat
      BY <1>1, <1>2, <1>4, <1>5
    <2>2. /\ Part(t, 0, i) \in Seq(S) /\ Len(Part(t, 0, i)) = i - 0
          /\ \A k \in 1..(i - 0) : Part(t, 0, i)[k] = t[0 + k]
      BY ONLY <2>1, PartIs
    <2>3. /\ Part(s, 0, i) \in Seq(S) /\ Len(Part(s, 0, i)) = i - 0
          /\ \A k \in 1..(i - 0) : Part(s, 0, i)[k] = s[0 + k]
      BY ONLY <2>1, PartIs
    <2>4. Len(Part(t, 0, i)) = Len(Part(s, 0, i)) /\ Len(Part(t, 0, i)) = i
      BY <2>2, <2>3
    <2>5. \A k \in 1..Len(Part(t, 0, i)) : Part(t, 0, i)[k] = Part(s, 0, i)[k]
      BY <1>4, <2>2, <2>3, <2>4
    <2> QED BY ONLY <2>2, <2>3, <2>4, <2>5, SameSequence
  <1>7. Part(t, i, Len(t)) = Part(s, j, Len(s))
    <2>1. /\ t \in Seq(S) /\ i \in Nat /\ Len(t) \in Nat /\ i <= Len(t) /\ Len(t) <= Len(t)
          /\ s \in Seq(S) /\ j \in Nat /\ Len(s) \in Nat /\ j <= Len(s) /\ Len(s) <= Len(s)
      BY <1>1, <1>2, <1>4, <1>5
    <2>2. /\ Part(t, i, Len(t)) \in Seq(S) /\ Len(Part(t, i, Len(t))) = Len(t) - i
          /\ \A k \in 1..(Len(t) - i) : Part(t, i, Len(t))[k] = t[i + k]
      BY ONLY <2>1, PartIs
    <2>3. /\ Part(s, j, Len(s)) \in Seq(S) /\ Len(Part(s, j, Len(s))) = Len(s) - j
          /\ \A k \in 1..(Len(s) - j) : Part(s, j, Len(s))[k] = s[j + k]
      BY ONLY <2>1, PartIs
    <2>4. Len(t) - i = Len(s) - j
      BY <1>1, <1>3, <1>5
    <2>5. \A k \in 1..(Len(t) - i) : t[i + k] = s[j + k]
      <3> TAKE k \in 1..(Len(t) - i)
      <3>1. i + k \in (i + 1)..(Len(s) - n) /\ (i + k) + n = j + k
        BY <1>1, <1>3, <1>5
      <3> QED BY <1>5, <3>1
    <2>6. Len(Part(t, i, Len(t))) = Len(Part(s, j, Len(s)))
      BY <2>2, <2>3, <2>4
    <2>7. \A k \in 1..Len(Part(t, i, Len(t))) : Part(t, i, Len(t))[k] = Part(s, j, Len(s))[k]
      BY <2>2, <2>3, <2>4, <2>5
    <2> QED BY ONLY <2>2, <2>3, <2>6, <2>7, SameSequence
  <1>8. Ins(t, i, v) = Part(s, 0, i) \o v \o Part(s, j, Len(s))
    BY <1>6, <1>7 DEF Ins
  <1>9. ASSUME NEW k \in 1..Len(s), k \notin (i + 1)..j
        PROVE  Ins(t, i, v)[k] = s[k]
    <2>1. t \in Seq(S) /\ v \in Seq(S) /\ i \in Nat /\ i <= Len(t)
      BY <1>2, <1>4, <1>5
    <2>2. /\ \A l \in 1..i : Ins(t, i, v)[l] = t[l]
          /\ \A l \in (i + 1)..Len(t) : Ins(t, i, v)[l + Len(v)] = t[l]
      BY ONLY <2>1, InsIs, SMTT(30)
    <2>3. CASE k \in 1..i
      BY <1>4, <2>2, <2>3
    <2>4. CASE k \notin 1..i
      <3>1. k - n \in (i + 1)..Len(t) /\ k - n \in (i + 1)..(Len(s) - n) /\ (k - n) + n = k
        BY <1>1, <1>3, <1>5, <1>9, <2>4
      <3>2. Ins(t, i, v)[(k - n) + n] = t[k - n]
        BY <2>2, <3>1 DEF n
      <3>3. t[k - n] = s[(k - n) + n]
        BY <1>5, <3>1
      <3> QED BY <3>1, <3>2, <3>3
    <2> QED BY <2>3, <2>4
  <1> QED BY <1>8, <1>9 DEF t, j, n

-----------------------------------------------------------------------------
(* Indices and items.                                                      *)

\* A clamped index is in the list, or at its end.
LEMMA ClampedIs ==
    ASSUME NEW n \in Nat, NEW i \in Int
    PROVE  /\ Clamped(n, i) \in Nat /\ Clamped(n, i) <= n
           /\ i \in 0..n => Clamped(n, i) = i
  BY DEF Clamped, FromEnd

\* An index, or a slice with indices.
ItemFits(item) ==
    IF item.slice THEN item.start \in Int \cup {None} /\ item.stop \in Int \cup {None}
    ELSE item.start \in Int

\* An item that resolves is a slice of the list.
LEMMA SpanIs ==
    ASSUME NEW n \in Nat, NEW item, ItemFits(item), Resolves(n, item)
    PROVE  /\ Span(n, item).index \in Nat /\ Span(n, item).stop \in Nat
           /\ Span(n, item).index <= Span(n, item).stop /\ Span(n, item).stop <= n
  <1>1. CASE item.slice
    <2>1. Span(n, item) = Bounds(n, item)
      BY <1>1 DEF Span
    <2>2. Bounds(n, item).index <= Bounds(n, item).stop
      BY <1>1 DEF Resolves, Continuous
    <2>3. Bounds(n, item).index \in Nat
      BY <1>1, ClampedIs DEF Bounds, ItemFits
    <2>4. Bounds(n, item).stop \in Nat /\ Bounds(n, item).stop <= n
      BY <1>1, ClampedIs DEF Bounds, ItemFits
    <2> QED BY <2>1, <2>2, <2>3, <2>4
  <1>2. CASE ~ item.slice
    BY <1>2 DEF Span, ItemFits, Resolves, InRange, FromEnd
  <1> QED BY <1>1, <1>2

\* A slice between two indices of the list is that slice.
LEMMA SliceIs ==
    ASSUME NEW n \in Nat, NEW i \in Nat, NEW j \in Nat
    PROVE  /\ ItemFits(Slice(i, j))
           /\ i <= j => Resolves(n, Slice(i, j))
           /\ i <= j /\ j <= n => Span(n, Slice(i, j)).index = i /\ Span(n, Slice(i, j)).stop = j
  <1> DEFINE item == Slice(i, j)
  <1>1. /\ item.slice /\ item.start = i /\ item.stop = j /\ i # None /\ j # None
        /\ i \in Int /\ j \in Int
    BY IndicesAssumption DEF Slice
  <1>2. ItemFits(item)
    BY <1>1 DEF ItemFits
  <1> HIDE DEF item
  <1>3. Bounds(n, item).index = Clamped(n, i) /\ Bounds(n, item).stop = Clamped(n, j)
    BY <1>1 DEF Bounds
  <1>4. i <= j => Clamped(n, i) <= Clamped(n, j)
    BY DEF Clamped, FromEnd
  <1>5. i <= j => Resolves(n, item)
    BY <1>1, <1>3, <1>4 DEF Resolves, Continuous
  <1>6. i <= j /\ j <= n => Clamped(n, i) = i /\ Clamped(n, j) = j
    BY DEF Clamped, FromEnd
  <1> QED BY <1>1, <1>2, <1>3, <1>5, <1>6 DEF item, Span

LEMMA ItemsFitAll == \A item \in Items(Indices) : ItemFits(item)
  <1>1. ASSUME NEW i \in Int
        PROVE  ItemFits(At(i))
    BY DEF ItemFits, At
  <1>2. ASSUME NEW i \in Int \cup {None}, NEW j \in Int \cup {None}
        PROVE  ItemFits(Slice(i, j))
    BY DEF ItemFits, Slice
  <1> QED BY <1>1, <1>2, IndicesAssumption DEF Items

LEMMA InsertedIs ==
    ASSUME NEW s, IsList(s), NEW v, NEW i \in Nat, i <= Len(s)
    PROVE  StateInserted(s, i, v) = Ins(s, i, v)
  <1>1. Len(s) \in Nat /\ i \in 0..Len(s)
    BY ListIs
  <1>2. Clamped(Len(s), i) = i
    BY <1>1, ClampedIs
  <1> QED BY <1>2 DEF StateInserted, Ins

LEMMA DeletedIs ==
    \A s, item : StateDeleted(s, item) = Cut(s, Span(Len(s), item).index, Span(Len(s), item).stop)
  BY DEF StateDeleted, Cut

LEMMA UpdatedIs ==
    ASSUME NEW s, IsList(s), NEW v, IsList(v), NEW i \in Nat, i + Len(v) <= Len(s)
    PROVE  StateUpdated(s, i, v) = Ins(Cut(s, i, i + Len(v)), i, v)
  <1>1. FromEnd(Len(s), i) = i
    BY DEF FromEnd
  <1> QED BY <1>1, ListReplaced DEF StateUpdated

\* What is from i to j is cut out and put in at post.
MoveTo(s, i, j, post) == Ins(Cut(s, i, j), post, Part(s, i, j))

\* What MovesNothing leaves.
LEMMA MovedIs ==
    ASSUME NEW n \in Nat, NEW item, ItemFits(item), Resolves(n, item), NEW target \in Int,
           ~ MovesNothing(n, item, target)
    PROVE  LET m == PreMove(n, item, target)
           IN  /\ m.index \in Nat /\ m.stop \in Nat /\ m.index < m.stop /\ m.stop <= n
               /\ m.target \in Nat /\ m.target <= n
               /\ m.target < m.index \/ m.stop < m.target
               /\ m.post = IF m.target > m.stop THEN m.target - (m.stop - m.index) ELSE m.target
               /\ m.post \in Nat /\ m.post <= n - (m.stop - m.index)
               /\ m.index = Span(n, item).index /\ m.stop = Span(n, item).stop
               /\ m.target = Clamped(n, target)
  <1> DEFINE s == Span(n, item)
             t == Clamped(n, target)
             m == PreMove(n, item, target)
  <1>1. s.index \in Nat /\ s.stop \in Nat /\ s.index <= s.stop /\ s.stop <= n
    BY SpanIs
  <1>2. t \in Nat /\ t <= n
    BY ClampedIs
  <1>3. /\ m.index = s.index /\ m.stop = s.stop /\ m.target = t
        /\ m.post = IF t > s.stop THEN t - (s.stop - s.index) ELSE t
    BY DEF PreMove
  <1>4. m.index # m.stop /\ m.target \notin m.index..m.stop
    BY DEF MovesNothing
  <1> HIDE DEF s, t, m
  <1>5. m.index < m.stop
    BY <1>1, <1>3, <1>4
  <1>6. m.target < m.index \/ m.stop < m.target
    BY <1>1, <1>2, <1>3, <1>4
  <1>7. m.post \in Nat /\ m.post <= n - (m.stop - m.index)
    BY <1>1, <1>2, <1>3, <1>5, <1>6
  <1> QED BY <1>1, <1>2, <1>3, <1>5, <1>6, <1>7 DEF m, s, t

LEMMA StateMovedIs ==
    \A s, item, target :
        LET m == PreMove(Len(s), item, target)
        IN  StateMoved(s, item, target) =
              IF MovesNothing(Len(s), item, target) THEN s
              ELSE MoveTo(s, m.index, m.stop, m.post)
  BY DEF StateMoved, MoveTo, Ins, StateDeleted, Cut, PreMove

\* What is moved is at its new place, and the rest is in the old order.
LEMMA MoveToIs ==
    ASSUME NEW s, IsList(s), NEW i \in Nat, NEW j \in Nat, NEW post \in Nat, i <= j, j <= Len(s),
           post <= Len(s) - (j - i)
    PROVE  /\ IsList(MoveTo(s, i, j, post)) /\ Len(MoveTo(s, i, j, post)) = Len(s)
           /\ Part(MoveTo(s, i, j, post), post, post + (j - i)) = Part(s, i, j)
           /\ Cut(MoveTo(s, i, j, post), post, post + (j - i)) = Cut(s, i, j)
  <1> DEFINE c == Cut(s, i, j)
             v == Part(s, i, j)
  <1>1. IsList(c) /\ Len(c) = Len(s) - (j - i) /\ IsList(v) /\ Len(v) = j - i
    BY ListCut, ListPart
  <1>2. Len(s) \in Nat /\ post <= Len(c)
    BY <1>1, ListIs
  <1>3. MoveTo(s, i, j, post) = Ins(c, post, v)
    BY DEF MoveTo
  <1> HIDE DEF c, v
  <1>4. /\ IsList(Ins(c, post, v)) /\ Len(Ins(c, post, v)) = Len(c) + Len(v)
        /\ Part(Ins(c, post, v), post, post + Len(v)) = v
        /\ Cut(Ins(c, post, v), post, post + Len(v)) = c
    BY <1>1, <1>2, ListIns
  <1>5. Len(c) + Len(v) = Len(s)
    BY <1>1, <1>2
  <1> QED BY <1>1, <1>3, <1>4, <1>5 DEF c, v

-----------------------------------------------------------------------------
(* The stores of lists.                                                    *)

\* A store of a list.
ListFits(s) ==
    /\ IsStore(s) /\ IsList(s.state) /\ IsList(s.data)

LEMMA FabricatedIs ==
    ASSUME NEW v, IsList(v)
    PROVE  IsList(Fabricated(v)) /\ Len(Fabricated(v)) = Len(v)
  <1>1. DOMAIN v = 1..Len(v) /\ Len(v) \in Nat
    BY ListIs
  <1> DEFINE f == Fabricated(v)
  <1>2. f = [i \in 1..Len(v) |-> DataOf(v[i])]
    BY <1>1 DEF Fabricated
  <1> HIDE DEF f
  <1>3. f \in [1..Len(v) -> ToSet(f)]
    BY <1>2 DEF ToSet
  <1> QED BY <1>1, <1>3 DEF IsList, f

\* Whatever the indices are, what an operation makes of a list is a list.
LEMMA AnyPart ==
    ASSUME NEW s, NEW i \in Int, NEW j \in Int
    PROVE  IsList(Part(s, i, j))
  <1> DEFINE S == {s[k] : k \in (i + 1)..j}
  <1>1. i + 1 \in Int /\ \A k \in (i + 1)..j : s[k] \in S
    OBVIOUS
  <1> HIDE DEF S
  <1>2. SubSeq(s, i + 1, j) \in Seq(S)
    BY <1>1, SubSeqProperties
  <1>3. IsList(SubSeq(s, i + 1, j))
    BY <1>2, ListOf
  <1> QED BY <1>3 DEF Part

LEMMA AnyJoined ==
    ASSUME NEW s, IsList(s), NEW t, IsList(t)
    PROVE  IsList(s \o t)
  <1>1. PICK S : s \in Seq(S) /\ t \in Seq(S)
    BY CommonSet
  <1>2. s \o t \in Seq(S)
    BY <1>1
  <1> QED BY <1>2, ListOf

LEMMA AnySpan ==
    ASSUME NEW n \in Nat, NEW item, ItemFits(item)
    PROVE  Span(n, item).index \in Int /\ Span(n, item).stop \in Int
  <1>1. CASE item.slice
    <2>1. Span(n, item) = Bounds(n, item)
      BY <1>1 DEF Span
    <2>2. Bounds(n, item).index \in Int
      BY <1>1, ClampedIs DEF Bounds, ItemFits
    <2>3. Bounds(n, item).stop \in Int
      BY <1>1, ClampedIs DEF Bounds, ItemFits
    <2> QED BY <2>1, <2>2, <2>3
  <1>2. CASE ~ item.slice
    BY <1>2 DEF Span, ItemFits, FromEnd
  <1> QED BY <1>1, <1>2

LEMMA AnyInserted ==
    ASSUME NEW d, IsList(d), NEW i \in Int, NEW v, IsList(v)
    PROVE  IsList(StateInserted(d, i, v))
  <1> DEFINE k == Clamped(Len(d), i)
  <1>1. Len(d) \in Nat
    BY ListIs
  <1>2. k \in Int
    BY <1>1, ClampedIs
  <1> HIDE DEF k
  <1>3. IsList(Part(d, 0, k)) /\ IsList(Part(d, k, Len(d)))
    BY <1>1, <1>2, AnyPart
  <1>4. IsList(Part(d, 0, k) \o v)
    BY <1>3, AnyJoined
  <1>5. IsList((Part(d, 0, k) \o v) \o Part(d, k, Len(d)))
    BY <1>3, <1>4, AnyJoined
  <1> QED BY <1>5 DEF StateInserted, k

LEMMA AnyDeleted ==
    ASSUME NEW d, IsList(d), NEW item, ItemFits(item)
    PROVE  IsList(StateDeleted(d, item))
  <1> DEFINE i == Span(Len(d), item).index
             j == Span(Len(d), item).stop
  <1>1. Len(d) \in Nat
    BY ListIs
  <1>2. i \in Int /\ j \in Int
    BY <1>1, AnySpan
  <1> HIDE DEF i, j
  <1>3. IsList(Part(d, 0, i)) /\ IsList(Part(d, j, Len(d)))
    BY <1>1, <1>2, AnyPart
  <1>4. IsList(Part(d, 0, i) \o Part(d, j, Len(d)))
    BY <1>3, AnyJoined
  <1> QED BY <1>4 DEF StateDeleted, i, j

LEMMA AnyUpdated ==
    ASSUME NEW d, IsList(d), NEW i \in Int, NEW v, IsList(v)
    PROVE  IsList(StateUpdated(d, i, v))
  <1> DEFINE k == FromEnd(Len(d), i)
  <1>1. Len(d) \in Nat /\ Len(v) \in Nat
    BY ListIs
  <1>2. k \in Int
    BY <1>1 DEF FromEnd
  <1> HIDE DEF k
  <1>3. IsList(Part(d, 0, k)) /\ IsList(Part(d, k + Len(v), Len(d)))
    <2>1. k + Len(v) \in Int /\ Len(d) \in Int
      BY <1>1, <1>2
    <2> QED BY <1>2, <2>1, AnyPart
  <1>4. IsList(Part(d, 0, k) \o v)
    BY <1>3, AnyJoined
  <1>5. IsList((Part(d, 0, k) \o v) \o Part(d, k + Len(v), Len(d)))
    BY <1>3, <1>4, AnyJoined
  <1> QED BY <1>5 DEF StateUpdated, k

LEMMA AnyMoved ==
    ASSUME NEW d, IsList(d), NEW item, ItemFits(item), NEW target \in Int
    PROVE  IsList(StateMoved(d, item, target))
  <1> DEFINE m == PreMove(Len(d), item, target)
             rest == StateDeleted(d, item)
  <1>1. Len(d) \in Nat /\ IsList(rest)
    BY ListIs, AnyDeleted
  <1>2. m.index \in Int /\ m.stop \in Int /\ m.post \in Int
    <2>1. Span(Len(d), item).index \in Int /\ Span(Len(d), item).stop \in Int
      BY <1>1, AnySpan
    <2>2. Clamped(Len(d), target) \in Int
      BY <1>1, ClampedIs
    <2> QED BY <2>1, <2>2 DEF PreMove
  <1>3. StateMoved(d, item, target) = IF MovesNothing(Len(d), item, target) THEN d
          ELSE (Part(rest, 0, m.post) \o Part(d, m.index, m.stop)) \o Part(rest, m.post, Len(rest))
    BY DEF StateMoved
  <1> HIDE DEF m, rest
  <1>4. /\ IsList(Part(rest, 0, m.post)) /\ IsList(Part(d, m.index, m.stop))
        /\ IsList(Part(rest, m.post, Len(rest)))
    <2>1. Len(rest) \in Int
      BY <1>1, ListIs
    <2> QED BY <1>2, <2>1, AnyPart
  <1>5. IsList(Part(rest, 0, m.post) \o Part(d, m.index, m.stop))
    BY <1>4, AnyJoined
  <1>6. IsList((Part(rest, 0, m.post) \o Part(d, m.index, m.stop)) \o Part(rest, m.post, Len(rest)))
    BY <1>4, <1>5, AnyJoined
  <1> QED BY <1>3, <1>6

\* An insertion, with the state as the list without it says.
LEMMA InsertedFits ==
    ASSUME NEW s, ListFits(s), NEW index \in Int, NEW values, IsList(values)
    PROVE  LET i == Clamped(Len(s.state), index)
           IN  /\ i \in Nat /\ i <= Len(s.state)
               /\ Inserted(s, index, values).state = Ins(s.state, i, values)
               /\ ListFits(Inserted(s, index, values))
  <1> DEFINE i == Clamped(Len(s.state), index)
             r == Inserted(s, index, values)
  <1>1. IsList(s.state) /\ IsList(s.data) /\ Len(s.state) \in Nat
    BY ListIs DEF ListFits
  <1>2. i \in Nat /\ i <= Len(s.state)
    BY <1>1, ClampedIs
  <1>3. /\ r.state = StateInserted(s.state, i, values) /\ IsStore(r)
        /\ r.data = DataInserted(s.data, i, values)
    BY DEF Inserted, IsStore
  <1> HIDE DEF i, r
  <1>4. r.state = Ins(s.state, i, values)
    BY <1>1, <1>2, <1>3, InsertedIs
  <1>5. IsList(r.state) /\ Len(r.state) = Len(s.state) + Len(values)
    <2>1. /\ IsList(Ins(s.state, i, values))
          /\ Len(Ins(s.state, i, values)) = Len(s.state) + Len(values)
      BY <1>1, <1>2, ListIns
    <2> QED BY <1>4, <2>1
  <1>6. IsList(r.data)
    <2>1. i \in Int /\ IsList(Fabricated(values))
      BY <1>2, FabricatedIs
    <2>2. IsList(StateInserted(s.data, i, Fabricated(values)))
      BY <1>1, <2>1, AnyInserted
    <2> QED BY <1>1, <1>3, <2>2 DEF DataInserted
  <1>7. ListFits(r)
    BY <1>3, <1>5, <1>6 DEF ListFits
  <1> QED BY <1>2, <1>4, <1>7 DEF i, r

\* A deletion, with the state as the list says.
LEMMA DeletedFits ==
    ASSUME NEW s, ListFits(s), NEW item, ItemFits(item), Resolves(Len(s.state), item)
    PROVE  LET d == Span(Len(s.state), item)
           IN  /\ d.index \in Nat /\ d.stop \in Nat
               /\ d.index <= d.stop /\ d.stop <= Len(s.state)
               /\ Deleted(s, item).state = Cut(s.state, d.index, d.stop)
               /\ ListFits(Deleted(s, item))
  <1> DEFINE i == Span(Len(s.state), item).index
             j == Span(Len(s.state), item).stop
             r == Deleted(s, item)
  <1>1. IsList(s.state) /\ IsList(s.data) /\ Len(s.state) \in Nat
    BY ListIs DEF ListFits
  <1>2. i \in Nat /\ j \in Nat /\ i <= j /\ j <= Len(s.state)
    BY <1>1, SpanIs
  <1>3. /\ r.state = StateDeleted(s.state, item) /\ IsStore(r)
        /\ r.data = DataDeleted(s.data, item)
    BY DEF Deleted, IsStore
  <1> HIDE DEF r
  <1>4. r.state = Cut(s.state, i, j)
    BY <1>3, DeletedIs
  <1> HIDE DEF i, j
  <1>6. IsList(r.state) /\ Len(r.state) = Len(s.state) - (j - i)
    <2>1. /\ IsList(Cut(s.state, i, j))
          /\ Len(Cut(s.state, i, j)) = Len(s.state) - (j - i)
      BY <1>1, <1>2, ListCut
    <2> QED BY <1>4, <2>1
  <1>7. IsList(r.data)
    <2>1. IsList(StateDeleted(s.data, item))
      BY <1>1, AnyDeleted
    <2> QED BY <1>1, <1>3, <2>1 DEF DataDeleted
  <1>8. ListFits(r)
    BY <1>3, <1>6, <1>7 DEF ListFits
  <1> QED BY <1>2, <1>4, <1>8 DEF i, j, r

\* There are no more values that differ than values.
LEMMA DataValuesFit ==
    ASSUME NEW old, NEW values, IsList(values)
    PROVE  IsList(DataValues(old, values)) /\ Len(DataValues(old, values)) <= Len(values)
           /\ Len(DataValues(old, values)) \in Nat
  <1> DEFINE f == Differing(old, values)
             D == DOMAIN f
             m == Cardinality(D)
             g == [n \in 1..m |-> f[CHOOSE i \in D : Cardinality({j \in D : j <= i}) = n]]
  <1>1. DOMAIN values = 1..Len(values) /\ Len(values) \in Nat
    BY ListIs
  <1>2. D \subseteq 1..Len(values)
    BY <1>1 DEF Differing
  <1>3. IsFiniteSet(1..Len(values)) /\ Cardinality(1..Len(values)) = Len(values)
    <2>1. 1 \in Int /\ Len(values) \in Int
      BY <1>1
    <2>2. /\ IsFiniteSet(1..Len(values))
          /\ Cardinality(1..Len(values)) = IF 1 > Len(values) THEN 0 ELSE Len(values) - 1 + 1
      BY <2>1, FS_Interval
    <2> QED BY <1>1, <2>2
  <1> HIDE DEF D
  <1>4. m \in Nat /\ m <= Len(values)
    BY <1>2, <1>3, FS_Subset, FS_CardinalityType
  <1>5. DataValues(old, values) = Fabricated(g)
    BY DEF DataValues, D
  <1> HIDE DEF m
  <1>6. IsList(g) /\ Len(g) = m
    <2> DEFINE h(n) == f[CHOOSE i \in D : Cardinality({j \in D : j <= i}) = n]
    <2>1. g = [n \in 1..m |-> h(n)]
      OBVIOUS
    <2> HIDE DEF h, g
    <2>2. g \in [1..m -> ToSet(g)]
      BY <2>1 DEF ToSet
    <2> QED BY <1>4, <2>2 DEF IsList
  <1> HIDE DEF g
  <1>7. IsList(Fabricated(g)) /\ Len(Fabricated(g)) = m
    BY <1>6, FabricatedIs
  <1> QED BY <1>4, <1>5, <1>7

\* An update of a slice, with the state as the list says.
LEMMA UpdatedFits ==
    ASSUME NEW s, ListFits(s), NEW item, ItemFits(item), Resolves(Len(s.state), item),
           NEW values, IsList(values), Len(OldValues(s, item)) = Len(values)
    PROVE  LET u == Span(Len(s.state), item)
           IN  /\ u.index \in Nat /\ u.stop \in Nat
               /\ u.index <= u.stop /\ u.stop <= Len(s.state)
               /\ OldValues(s, item) = Part(s.state, u.index, u.stop)
               /\ Len(values) = u.stop - u.index
               /\ Updated(s, item, values).state
                    = Ins(Cut(s.state, u.index, u.stop), u.index, values)
               /\ ListFits(Updated(s, item, values))
  <1> DEFINE i == Span(Len(s.state), item).index
             j == Span(Len(s.state), item).stop
             r == Updated(s, item, values)
             dv == DataValues(OldValues(s, item), values)
  <1>1. IsList(s.state) /\ IsList(s.data) /\ Len(s.state) \in Nat /\ Len(values) \in Nat
    BY ListIs DEF ListFits
  <1>2. i \in Nat /\ j \in Nat /\ i <= j /\ j <= Len(s.state)
    BY <1>1, SpanIs
  <1>3. OldValues(s, item) = Part(s.state, i, j)
    BY DEF OldValues
  <1>4. IsStore(r) /\ r.state = StateUpdated(s.state, i, values) /\ r.data = DataUpdated(s.data, i, dv)
    BY DEF Updated, IsStore
  <1>5. IsList(dv) /\ Len(dv) \in Nat /\ Len(dv) <= Len(values)
    BY DataValuesFit
  <1> HIDE DEF i, j, r, dv
  <1>6. Len(values) = j - i /\ i + Len(values) = j
    <2>1. Len(Part(s.state, i, j)) = j - i
      BY <1>1, <1>2, ListPart
    <2> QED BY <1>2, <1>3, <2>1
  <1>7. r.state = Ins(Cut(s.state, i, j), i, values)
    <2>1. StateUpdated(s.state, i, values)
            = Ins(Cut(s.state, i, i + Len(values)), i, values)
      BY <1>1, <1>2, <1>6, UpdatedIs
    <2> QED BY <1>4, <1>6, <2>1
  <1>8. IsList(r.state) /\ Len(r.state) = Len(s.state)
    <2> DEFINE t == Cut(s.state, i, j)
    <2>1. IsList(t) /\ Len(t) = Len(s.state) - (j - i)
      BY <1>1, <1>2, ListCut
    <2> HIDE DEF t
    <2>2. i <= Len(t)
      BY <1>1, <1>2, <2>1
    <2>3. IsList(Ins(t, i, values)) /\ Len(Ins(t, i, values)) = Len(t) + Len(values)
      BY <1>2, <2>1, <2>2, ListIns
    <2> QED BY <1>1, <1>2, <1>6, <1>7, <2>1, <2>3 DEF t
  <1>9. IsList(r.data)
    <2>1. i \in Int
      BY <1>2
    <2>2. IsList(StateUpdated(s.data, i, dv))
      BY <1>1, <1>5, <2>1, AnyUpdated
    <2> QED BY <1>1, <1>4, <2>2 DEF DataUpdated
  <1>10. ListFits(r)
    BY <1>4, <1>8, <1>9 DEF ListFits
  <1> QED BY <1>2, <1>3, <1>6, <1>7, <1>10 DEF i, j, r

\* A move that is allowed, with the state as the list says.
LEMMA MovedFits ==
    ASSUME NEW s, ListFits(s), NEW item, ItemFits(item), NEW target \in Int,
           MoveAllowed(s, item, target)
    PROVE  LET m == PreMove(Len(s.state), item, target)
           IN  /\ m.index \in Nat /\ m.stop \in Nat /\ m.index < m.stop
               /\ m.stop <= Len(s.state)
               /\ m.target \in Nat /\ m.target <= Len(s.state)
               /\ m.target < m.index \/ m.stop < m.target
               /\ m.post = IF m.target > m.stop THEN m.target - (m.stop - m.index) ELSE m.target
               /\ m.post \in Nat /\ m.post <= Len(s.state) - (m.stop - m.index)
               /\ Moved(s, item, target).state = MoveTo(s.state, m.index, m.stop, m.post)
               /\ ListFits(Moved(s, item, target))
  <1> DEFINE n == Len(s.state)
             m == PreMove(n, item, target)
             t == Clamped(n, target)
             d == StateMoved(s.data, item, t)
             r == Moved(s, item, target)
  <1>1. IsList(s.state) /\ IsList(s.data) /\ n \in Nat /\ Len(s.data) \in Nat
    BY ListIs DEF ListFits
  <1>2. Resolves(n, item) /\ ~ MovesNothing(n, item, target) /\ Resolves(Len(s.data), item)
    BY DEF MoveAllowed
  <1>3. /\ m.index \in Nat /\ m.stop \in Nat /\ m.index < m.stop /\ m.stop <= n
        /\ m.target \in Nat /\ m.target <= n
        /\ m.target < m.index \/ m.stop < m.target
        /\ m.post = IF m.target > m.stop THEN m.target - (m.stop - m.index) ELSE m.target
        /\ m.post \in Nat /\ m.post <= n - (m.stop - m.index)
    BY <1>1, <1>2, MovedIs
  <1>4. StateMoved(s.state, item, target) = MoveTo(s.state, m.index, m.stop, m.post)
    BY <1>2, StateMovedIs
  <1>5. /\ r.state = StateMoved(s.state, item, target) /\ r.data = d /\ IsStore(r)
    <2> DEFINE u == StateMoved(s.state, item, target)
    <2>1. s = [state |-> s.state, data |-> s.data, metadata |-> s.metadata, children |-> s.children]
      BY DEF ListFits, IsStore
    <2>2. r = [s EXCEPT !.state = u, !.data = d, !.metadata = NoLocations]
      BY DEF Moved, DataMoved
    <2> HIDE DEF u, d, r
    <2>3. r = [state |-> u, data |-> d, metadata |-> NoLocations, children |-> s.children]
      BY <2>1, <2>2
    <2> QED BY <2>3 DEF IsStore, u
  <1>6. t \in Int
    <2>1. n \in Nat
      BY <1>1
    <2> HIDE DEF n
    <2>2. Clamped(n, target) \in Nat
      BY <2>1, ClampedIs
    <2> QED BY <2>2
  <1> HIDE DEF m, t
  <1>7. IsList(d)
    BY <1>1, <1>6, AnyMoved
  <1> HIDE DEF d
  <1>8. /\ IsList(MoveTo(s.state, m.index, m.stop, m.post))
        /\ Len(MoveTo(s.state, m.index, m.stop, m.post)) = Len(s.state)
    <2>1. m.index <= m.stop
      BY <1>3
    <2> QED BY <1>1, <1>3, <2>1, MoveToIs
  <1> HIDE DEF r
  <1>9. ListFits(r)
    BY <1>4, <1>5, <1>7, <1>8 DEF ListFits
  <1> QED BY <1>3, <1>4, <1>5, <1>9 DEF m, r

-----------------------------------------------------------------------------
(* The changes of lists.                                                   *)

\* A change of a list: with it each of the two states it is between can be made from
\* the other.
ListChange(c) ==
    /\ IsList(c.from) /\ IsList(c.to)
    /\ c.index \in Nat /\ c.stop \in Nat /\ c.index <= c.stop
    /\ \/ /\ c.type = "ListInsert"
          /\ IsList(c.new) /\ c.index <= Len(c.from) /\ c.stop = c.index + Len(c.new)
          /\ c.to = Ins(c.from, c.index, c.new)
       \/ /\ c.type = "ListDelete"
          /\ c.stop <= Len(c.from) /\ c.old = Part(c.from, c.index, c.stop)
          /\ c.to = Cut(c.from, c.index, c.stop)
       \/ /\ c.type = "ListUpdate"
          /\ c.stop <= Len(c.from) /\ c.old = Part(c.from, c.index, c.stop)
          /\ IsList(c.new) /\ Len(c.new) = c.stop - c.index
          /\ c.to = Ins(Cut(c.from, c.index, c.stop), c.index, c.new)
       \/ /\ c.type = "ListMove"
          /\ c.index < c.stop /\ c.stop <= Len(c.from) /\ c.old = Part(c.from, c.index, c.stop)
          /\ c.target \in Nat /\ c.target <= Len(c.from)
          /\ c.target < c.index \/ c.stop < c.target
          /\ c.post = IF c.target > c.stop THEN c.target - (c.stop - c.index) ELSE c.target
          /\ c.post \in Nat /\ c.post <= Len(c.from) - (c.stop - c.index)
          /\ c.post_stop = c.post + (c.stop - c.index)
          /\ c.to = MoveTo(c.from, c.index, c.stop, c.post)

\* The changes that the operations tell are changes that replay.
LEMMA InsertChange ==
    ASSUME NEW s, ListFits(s), NEW index \in Int, NEW values, IsList(values)
    PROVE  ListChange(ListInsert(s, index, values))
  <1> DEFINE i == Clamped(Len(s.state), index)
             c == ListInsert(s, index, values)
  <1>1. i \in Nat /\ i <= Len(s.state)
    BY InsertedFits
  <1>2. /\ c.type = "ListInsert" /\ c.index = i /\ c.stop = i + Len(values)
        /\ c.new = values /\ c.from = s.state /\ c.to = Inserted(s, i, values).state
    BY DEF ListInsert
  <1>3. Len(s.state) \in Nat /\ Len(values) \in Nat /\ IsList(s.state)
    BY ListIs DEF ListFits
  <1> HIDE DEF i, c
  <1>5. i \in Int /\ i \in 0..Len(s.state)
    BY <1>1, <1>3
  <1>4. Clamped(Len(s.state), i) = i
    BY <1>3, <1>5, ClampedIs
  <1>6. Inserted(s, i, values).state = Ins(s.state, i, values)
    BY <1>4, <1>5, InsertedFits
  <1>7. IsList(Ins(s.state, i, values))
    BY <1>1, <1>3, ListIns
  <1> QED BY <1>1, <1>2, <1>3, <1>6, <1>7 DEF ListChange, c

LEMMA DeleteChange ==
    ASSUME NEW s, ListFits(s), NEW item, ItemFits(item), Resolves(Len(s.state), item)
    PROVE  ListChange(ListDelete(s, item))
  <1> DEFINE i == Span(Len(s.state), item).index
             j == Span(Len(s.state), item).stop
             c == ListDelete(s, item)
  <1>1. /\ i \in Nat /\ j \in Nat /\ i <= j /\ j <= Len(s.state)
        /\ Deleted(s, item).state = Cut(s.state, i, j) /\ IsList(Deleted(s, item).state)
    BY DeletedFits DEF ListFits
  <1>2. /\ c.type = "ListDelete" /\ c.index = i /\ c.stop = j
        /\ c.old = Part(s.state, i, j) /\ c.from = s.state /\ c.to = Deleted(s, item).state
    BY DEF ListDelete
  <1> HIDE DEF i, j, c
  <1> QED BY <1>1, <1>2 DEF ListChange, c, ListFits

LEMMA UpdateChange ==
    ASSUME NEW s, ListFits(s), NEW item, ItemFits(item), Resolves(Len(s.state), item),
           NEW values, IsList(values), Len(OldValues(s, item)) = Len(values)
    PROVE  ListChange(ListUpdate(s, item, values))
  <1> DEFINE i == Span(Len(s.state), item).index
             j == Span(Len(s.state), item).stop
             r == Updated(s, item, values)
             c == ListUpdate(s, item, values)
  <1>1. /\ i \in Nat /\ j \in Nat /\ i <= j /\ j <= Len(s.state)
        /\ OldValues(s, item) = Part(s.state, i, j) /\ Len(values) = j - i
        /\ r.state = Ins(Cut(s.state, i, j), i, values) /\ IsList(r.state)
    BY UpdatedFits DEF ListFits
  <1>2. /\ c.type = "ListUpdate" /\ c.index = i /\ c.stop = j /\ c.new = values
        /\ c.old = OldValues(s, item) /\ c.from = s.state /\ c.to = r.state
    BY DEF ListUpdate
  <1> HIDE DEF i, j, c, r
  <1> QED BY <1>1, <1>2 DEF ListChange, c, ListFits

LEMMA MoveChange ==
    ASSUME NEW s, ListFits(s), NEW item, ItemFits(item), NEW target \in Int,
           MoveAllowed(s, item, target)
    PROVE  ListChange(ListMove(s, item, target))
  <1> DEFINE m == PreMove(Len(s.state), item, target)
             r == Moved(s, item, target)
             c == ListMove(s, item, target)
  <1>1. /\ m.index \in Nat /\ m.stop \in Nat /\ m.index < m.stop
        /\ m.stop <= Len(s.state)
        /\ m.target \in Nat /\ m.target <= Len(s.state)
        /\ m.target < m.index \/ m.stop < m.target
        /\ m.post = IF m.target > m.stop THEN m.target - (m.stop - m.index) ELSE m.target
        /\ m.post \in Nat /\ m.post <= Len(s.state) - (m.stop - m.index)
        /\ r.state = MoveTo(s.state, m.index, m.stop, m.post) /\ IsList(r.state)
    BY MovedFits DEF ListFits
  <1>2. /\ c.type = "ListMove" /\ c.index = m.index /\ c.stop = m.stop
        /\ c.target = m.target /\ c.post = m.post /\ c.post_stop = m.post + (m.stop - m.index)
        /\ c.old = Part(s.state, m.index, m.stop) /\ c.from = s.state /\ c.to = r.state
    BY DEF ListMove
  <1> HIDE DEF m, c, r
  <1>3. m.index <= m.stop
    BY <1>1
  <1> QED BY <1>1, <1>2, <1>3 DEF ListChange, c, ListFits

\* What is updated has the new values, and the rest is as it was.
LEMMA UpdateParts ==
    ASSUME NEW s, IsList(s), NEW i \in Nat, NEW j \in Nat, i <= j, j <= Len(s),
           NEW v, IsList(v), Len(v) = j - i
    PROVE  LET t == Ins(Cut(s, i, j), i, v)
           IN  /\ IsList(t) /\ Len(t) = Len(s)
               /\ Part(t, i, j) = v /\ Cut(t, i, j) = Cut(s, i, j)
               /\ \A k \in 1..Len(s) : k \notin (i + 1)..j => t[k] = s[k]
  <1> DEFINE c == Cut(s, i, j)
             t == Ins(c, i, v)
  <1>1. Len(s) \in Nat /\ i + Len(v) = j
    BY ListIs
  <1>2. IsList(c) /\ Len(c) = Len(s) - (j - i)
    BY ListCut
  <1>3. \A k \in 1..Len(s) : k \notin (i + 1)..j => t[k] = s[k]
    <2>1. i + Len(v) <= Len(s)
      BY <1>1
    <2>2. \A k \in 1..Len(s) : k \notin (i + 1)..(i + Len(v)) =>
            Ins(Cut(s, i, i + Len(v)), i, v)[k] = s[k]
      BY <2>1, ListReplaced
    <2> QED BY <1>1, <2>2
  <1> HIDE DEF c
  <1>4. i <= Len(c)
    BY <1>1, <1>2
  <1>5. /\ IsList(t) /\ Len(t) = Len(c) + Len(v)
        /\ Part(t, i, i + Len(v)) = v /\ Cut(t, i, i + Len(v)) = c
    BY <1>2, <1>4, ListIns
  <1>6. Len(t) = Len(s)
    BY <1>1, <1>2, <1>5
  <1> HIDE DEF t
  <1> QED BY <1>1, <1>3, <1>5, <1>6 DEF t, c

\* What a change tells makes the one state out of the other.
LEMMA ListChangeReplays ==
    ASSUME NEW c, ListChange(c)
    PROVE  ListReplays(c)
  <1> DEFINE i == c.index
             j == c.stop
  <1>1. /\ IsList(c.from) /\ IsList(c.to) /\ i \in Nat /\ j \in Nat /\ i <= j
        /\ DOMAIN c.from = 1..Len(c.from)
    BY ListIs DEF ListChange
  <1>2. \A s, k, l : Part(s, 0, k) \o Part(s, l, Len(s)) = Cut(s, k, l)
    BY DEF Cut
  <1>3. CASE c.type = "ListInsert"
    <2>1. /\ IsList(c.new) /\ i <= Len(c.from) /\ j = i + Len(c.new)
          /\ c.to = Ins(c.from, i, c.new)
      BY <1>3 DEF ListChange
    <2>2. Part(c.to, i, j) = c.new /\ Cut(c.to, i, j) = c.from
      BY <1>1, <2>1, ListIns
    <2> QED BY <1>2, <1>3, <2>2 DEF ListReplays
  <1>4. CASE c.type = "ListDelete"
    <2>1. c.old = Part(c.from, i, j) /\ c.to = Cut(c.from, i, j)
      BY <1>4 DEF ListChange
    <2> QED BY <1>2, <1>4, <2>1 DEF ListReplays
  <1>5. CASE c.type = "ListUpdate"
    <2>1. /\ j <= Len(c.from) /\ c.old = Part(c.from, i, j)
          /\ IsList(c.new) /\ Len(c.new) = j - i
          /\ c.to = Ins(Cut(c.from, i, j), i, c.new)
      BY <1>5 DEF ListChange
    <2>2. /\ Len(c.to) = Len(c.from) /\ Part(c.to, i, j) = c.new
          /\ \A k \in 1..Len(c.from) : k \notin (i + 1)..j => c.to[k] = c.from[k]
      BY <1>1, <2>1, UpdateParts
    <2> QED BY <1>1, <1>5, <2>1, <2>2 DEF ListReplays
  <1>6. CASE c.type = "ListMove"
    <2> DEFINE n == Len(c.from)
    <2>1. /\ i < j /\ j <= n /\ c.old = Part(c.from, i, j)
          /\ c.target \in Nat /\ c.target <= n
          /\ c.target < i \/ j < c.target
          /\ c.post = IF c.target > j THEN c.target - (j - i) ELSE c.target
          /\ c.post \in Nat /\ c.post <= n - (j - i)
          /\ c.post_stop = c.post + (j - i)
          /\ c.to = MoveTo(c.from, i, j, c.post)
      BY <1>6 DEF ListChange
    <2>2. n \in Nat
      BY <1>1, ListIs
    <2>3. /\ Len(c.to) = n /\ Part(c.to, c.post, c.post_stop) = c.old
          /\ Cut(c.to, c.post, c.post_stop) = Cut(c.from, i, j)
      <3>1. /\ Len(MoveTo(c.from, i, j, c.post)) = Len(c.from)
            /\ Part(MoveTo(c.from, i, j, c.post), c.post, c.post + (j - i)) = Part(c.from, i, j)
            /\ Cut(MoveTo(c.from, i, j, c.post), c.post, c.post + (j - i)) = Cut(c.from, i, j)
        BY <1>1, <2>1, MoveToIs
      <3> QED BY <2>1, <3>1
    <2>4. c.post_stop <= n
      BY <1>1, <2>1, <2>2
    <2>5. c.post_stop = IF c.target < i THEN c.target + (j - i) ELSE c.target
      BY <1>1, <2>1, <2>2
    <2> HIDE DEF n
    <2> QED BY <1>2, <1>6, <2>1, <2>3, <2>4, <2>5 DEF ListReplays, n
  <1> QED BY <1>3, <1>4, <1>5, <1>6 DEF ListChange

\* Whatever the list is when a change is undone or redone, it stays one.
LEMMA UndoneFits ==
    ASSUME ListFits(store), NEW e, ListChange(e[1]), ListUndoable(e)
    PROVE  ListFits(ListUndone(e[1]))
  <1> DEFINE c == e[1]
  <1>1. /\ c.index \in Nat /\ c.stop \in Nat /\ c.index <= c.stop /\ Len(store.state) \in Nat
        /\ c.index \in Int
    BY ListIs DEF ListChange, ListFits
  <1>2. CASE c.type = "ListInsert"
    <2>1. Resolves(Len(store.state), Slice(c.index, c.stop))
      BY <1>2 DEF ListUndoable, DeleteAllowed
    <2>2. ItemFits(Slice(c.index, c.stop)) /\ ListUndone(c) = Deleted(store, Slice(c.index, c.stop))
      BY <1>1, <1>2, SliceIs DEF ListUndone
    <2> QED BY <2>1, <2>2, DeletedFits
  <1>3. CASE c.type = "ListDelete"
    <2>1. IsList(c.old)
      BY <1>1, <1>3, ListPart DEF ListChange
    <2>2. ListUndone(c) = Inserted(store, c.index, c.old)
      BY <1>3 DEF ListUndone, DeleteUndone
    <2> QED BY <1>1, <2>1, <2>2, InsertedFits
  <1>4. CASE c.type = "ListUpdate"
    <2> DEFINE item == Slice(c.index, c.stop)
    <2>1. IsList(c.old)
      BY <1>1, <1>4, ListPart DEF ListChange
    <2>2. Resolves(Len(store.state), item) /\ Len(OldValues(store, item)) = Len(c.old)
      BY <1>4 DEF ListUndoable, UpdateAllowed
    <2>3. ItemFits(item) /\ ListUndone(c) = Updated(store, item, c.old)
      BY <1>1, <1>4, SliceIs DEF ListUndone
    <2> HIDE DEF item
    <2> QED BY <2>1, <2>2, <2>3, UpdatedFits
  <1>5. CASE c.type = "ListMove"
    <2> DEFINE item == Slice(c.post, c.post_stop)
    <2>1. c.post \in Nat /\ c.post_stop \in Nat
      BY <1>1, <1>5 DEF ListChange
    <2>2. ItemFits(item)
      BY <2>1, SliceIs
    <2>3. ListUndone(c) = IF MoveAllowed(store, item, c.index) THEN Moved(store, item, c.index)
                          ELSE store
      BY <1>5 DEF ListUndone, MoveUndone
    <2> HIDE DEF item
    <2> QED BY <1>1, <2>2, <2>3, MovedFits
  <1> QED BY <1>2, <1>3, <1>4, <1>5 DEF ListChange

\* The same when it is redone.
LEMMA RedoneFits ==
    ASSUME ListFits(store), NEW e, ListChange(e[1]), ListRedoable(e)
    PROVE  ListFits(ListRedone(e[1]))
  <1> DEFINE c == e[1]
             item == Slice(c.index, c.stop)
  <1>1. /\ c.index \in Nat /\ c.stop \in Nat /\ c.index <= c.stop
        /\ c.index \in Int /\ ItemFits(item)
    BY SliceIs DEF ListChange
  <1> HIDE DEF item
  <1>2. CASE c.type = "ListInsert"
    <2>1. IsList(c.new) /\ ListRedone(c) = Inserted(store, c.index, c.new)
      BY <1>2 DEF ListChange, ListRedone
    <2> QED BY <1>1, <2>1, InsertedFits
  <1>3. CASE c.type = "ListDelete"
    <2>1. Resolves(Len(store.state), item) /\ ListRedone(c) = Deleted(store, item)
      BY <1>3 DEF ListRedoable, DeleteAllowed, ListRedone, item
    <2> QED BY <1>1, <2>1, DeletedFits
  <1>4. CASE c.type = "ListUpdate"
    <2>1. /\ IsList(c.new) /\ ListRedone(c) = Updated(store, item, c.new)
          /\ Resolves(Len(store.state), item) /\ Len(OldValues(store, item)) = Len(c.new)
      BY <1>4 DEF ListChange, ListRedone, ListRedoable, UpdateAllowed, item
    <2> QED BY <1>1, <2>1, UpdatedFits
  <1>5. CASE c.type = "ListMove"
    <2>1. /\ c.target \in Int /\ ListRedone(c) = Moved(store, item, c.target)
          /\ MoveAllowed(store, item, c.target)
      BY <1>5 DEF ListChange, ListRedone, MoveRedone, ListRedoable, item
    <2> QED BY <1>1, <2>1, MovedFits
  <1> QED BY <1>2, <1>3, <1>4, <1>5 DEF ListChange

-----------------------------------------------------------------------------
(* Lists: what undo and redo make of the state that a change left.         *)

ListEntry(e) == Len(e) = 1 /\ DOMAIN e = {1} /\ ListChange(e[1])

\* What an operation makes of a list, at the indices of a change.
LEMMA SpanOfSlice ==
    ASSUME NEW n \in Nat, NEW i \in Nat, NEW j \in Nat, i <= j, j <= n
    PROVE  /\ ItemFits(Slice(i, j)) /\ Resolves(n, Slice(i, j))
           /\ Span(n, Slice(i, j)).index = i /\ Span(n, Slice(i, j)).stop = j
  BY SliceIs

LEMMA DeletedAt ==
    ASSUME NEW s, ListFits(s), NEW i \in Nat, NEW j \in Nat, i <= j, j <= Len(s.state)
    PROVE  Deleted(s, Slice(i, j)).state = Cut(s.state, i, j)
  <1>1. Len(s.state) \in Nat
    BY ListIs DEF ListFits
  <1>2. /\ ItemFits(Slice(i, j)) /\ Resolves(Len(s.state), Slice(i, j))
        /\ Span(Len(s.state), Slice(i, j)).index = i /\ Span(Len(s.state), Slice(i, j)).stop = j
    BY <1>1, SpanOfSlice
  <1>3. Deleted(s, Slice(i, j)).state = Cut(s.state, Span(Len(s.state), Slice(i, j)).index,
                                            Span(Len(s.state), Slice(i, j)).stop)
    BY <1>2, DeletedFits
  <1> QED BY <1>2, <1>3

LEMMA InsertedAt ==
    ASSUME NEW s, ListFits(s), NEW i \in Nat, i <= Len(s.state), NEW v, IsList(v)
    PROVE  Inserted(s, i, v).state = Ins(s.state, i, v)
  <1>1. Len(s.state) \in Nat /\ i \in Int /\ i \in 0..Len(s.state)
    BY ListIs DEF ListFits
  <1>2. Clamped(Len(s.state), i) = i
    BY <1>1, ClampedIs
  <1>3. Inserted(s, i, v).state = Ins(s.state, Clamped(Len(s.state), i), v)
    BY <1>1, InsertedFits
  <1> QED BY <1>2, <1>3

LEMMA UpdatedAt ==
    ASSUME NEW s, ListFits(s), NEW i \in Nat, NEW j \in Nat, i <= j, j <= Len(s.state),
           NEW v, IsList(v), Len(v) = j - i
    PROVE  Updated(s, Slice(i, j), v).state = Ins(Cut(s.state, i, j), i, v)
  <1> DEFINE item == Slice(i, j)
  <1>1. Len(s.state) \in Nat /\ IsList(s.state)
    BY ListIs DEF ListFits
  <1>2. /\ ItemFits(item) /\ Resolves(Len(s.state), item)
        /\ Span(Len(s.state), item).index = i /\ Span(Len(s.state), item).stop = j
    BY <1>1, SpanOfSlice
  <1> HIDE DEF item
  <1>3. Len(OldValues(s, item)) = Len(v)
    <2>1. Len(Part(s.state, i, j)) = j - i
      BY <1>1, ListPart
    <2> QED BY <1>2, <2>1 DEF OldValues
  <1>4. Updated(s, item, v).state
          = Ins(Cut(s.state, Span(Len(s.state), item).index, Span(Len(s.state), item).stop),
                Span(Len(s.state), item).index, v)
    BY <1>2, <1>3, UpdatedFits
  <1> QED BY <1>2, <1>4 DEF item

LEMMA MovedAt ==
    ASSUME NEW s, ListFits(s), NEW i \in Nat, NEW j \in Nat, i < j, j <= Len(s.state),
           NEW t \in Nat, t <= Len(s.state), t < i \/ j < t
    PROVE  /\ MoveAllowed(s, Slice(i, j), t)
           /\ Moved(s, Slice(i, j), t).state
                = MoveTo(s.state, i, j, IF t > j THEN t - (j - i) ELSE t)
  <1> DEFINE item == Slice(i, j)
             n == Len(s.state)
             m == PreMove(n, item, t)
  <1>1. n \in Nat /\ Len(s.data) \in Nat /\ t \in Int /\ t \in 0..n /\ i <= j
    BY ListIs DEF ListFits
  <1> HIDE DEF n
  <1>2. /\ ItemFits(item) /\ Resolves(n, item) /\ Resolves(Len(s.data), item)
        /\ Span(n, item).index = i /\ Span(n, item).stop = j
    <2>1. j <= n
      BY DEF n
    <2> QED BY <1>1, <2>1, SliceIs
  <1>3. Clamped(n, t) = t
    BY <1>1, ClampedIs
  <1> HIDE DEF item
  <1>4. m.index = i /\ m.stop = j /\ m.target = t
    BY <1>2, <1>3 DEF PreMove
  <1>5. ~ MovesNothing(n, item, t)
    BY <1>1, <1>4 DEF MovesNothing
  <1>6. MoveAllowed(s, item, t)
    BY <1>2, <1>5 DEF MoveAllowed, n
  <1> HIDE DEF m
  <1>7. /\ m.post = IF m.target > m.stop THEN m.target - (m.stop - m.index) ELSE m.target
        /\ Moved(s, item, t).state = MoveTo(s.state, m.index, m.stop, m.post)
    BY <1>1, <1>2, <1>6, MovedFits DEF m, n
  <1> QED BY <1>4, <1>6, <1>7 DEF item

\* Undo at the state that a change left makes the one it found, but not for a move
\* towards the start, where the code moves back to the wrong index.
LEMMA ListUndoRestores ==
    ASSUME ListFits(store), NEW c, ListChange(c), store.state = c.to,
           c.type = "ListMove" => ~ c.target < c.index
    PROVE  ListUndone(c).state = c.from
  <1> DEFINE i == c.index
             j == c.stop
             n == Len(c.from)
  <1>1. /\ IsList(c.from) /\ IsList(c.to) /\ i \in Nat /\ j \in Nat /\ i <= j
        /\ n \in Nat /\ Len(c.to) \in Nat
    BY ListIs DEF ListChange
  <1>2. CASE c.type = "ListInsert"
    <2>1. /\ IsList(c.new) /\ i <= n /\ j = i + Len(c.new) /\ c.to = Ins(c.from, i, c.new)
      BY <1>2 DEF ListChange
    <2>2. /\ Len(c.to) = n + Len(c.new) /\ Cut(c.to, i, j) = c.from
      <3>1. /\ Len(Ins(c.from, i, c.new)) = Len(c.from) + Len(c.new)
            /\ Cut(Ins(c.from, i, c.new), i, i + Len(c.new)) = c.from
        BY <1>1, <2>1, ListIns
      <3> QED BY <2>1, <3>1
    <2>3. j <= Len(store.state)
      <3>1. Len(c.new) \in Nat
        BY <2>1, ListIs
      <3>2. i + Len(c.new) <= n + Len(c.new)
        <4>1. i \in Nat /\ n \in Nat /\ i <= n
          BY <1>1, <2>1
        <4> HIDE DEF i, n
        <4> QED BY ONLY <3>1, <4>1
      <3>3. Len(store.state) = n + Len(c.new)
        BY <2>2
      <3> QED BY <2>1, <3>2, <3>3
    <2>4. ListUndone(c) = Deleted(store, Slice(i, j))
      BY <1>2 DEF ListUndone
    <2>5. Deleted(store, Slice(i, j)).state = Cut(store.state, i, j)
      BY <1>1, <2>3, DeletedAt
    <2> QED BY <2>2, <2>4, <2>5
  <1>3. CASE c.type = "ListDelete"
    <2>1. j <= n /\ c.old = Part(c.from, i, j) /\ c.to = Cut(c.from, i, j)
      BY <1>3 DEF ListChange
    <2>2. IsList(Part(c.from, i, j)) /\ Len(Cut(c.from, i, j)) = n - (j - i)
      BY <1>1, <2>1, ListPart, ListCut
    <2>3. i <= Len(store.state) /\ IsList(c.old)
      BY <1>1, <2>1, <2>2
    <2>4. ListUndone(c) = Inserted(store, i, c.old)
      BY <1>3 DEF ListUndone, DeleteUndone
    <2>5. Inserted(store, i, c.old).state = Ins(store.state, i, c.old)
      BY <1>1, <2>3, InsertedAt
    <2>6. Ins(Cut(c.from, i, j), i, Part(c.from, i, j)) = c.from
      BY <1>1, <2>1, ListCutIns
    <2> QED BY <2>1, <2>4, <2>5, <2>6
  <1>4. CASE c.type = "ListUpdate"
    <2>1. /\ j <= n /\ c.old = Part(c.from, i, j) /\ IsList(c.new) /\ Len(c.new) = j - i
          /\ c.to = Ins(Cut(c.from, i, j), i, c.new)
      BY <1>4 DEF ListChange
    <2>2. Len(c.to) = n /\ Cut(c.to, i, j) = Cut(c.from, i, j)
      <3>1. /\ Len(Ins(Cut(c.from, i, j), i, c.new)) = Len(c.from)
            /\ Cut(Ins(Cut(c.from, i, j), i, c.new), i, j) = Cut(c.from, i, j)
        BY <1>1, <2>1, UpdateParts
      <3> QED BY <2>1, <3>1
    <2>3. IsList(c.old) /\ Len(c.old) = j - i
      <3>1. IsList(Part(c.from, i, j)) /\ Len(Part(c.from, i, j)) = j - i
        BY <1>1, <2>1, ListPart
      <3> QED BY <2>1, <3>1
    <2>4. ListUndone(c) = Updated(store, Slice(i, j), c.old)
      BY <1>4 DEF ListUndone
    <2>5. Updated(store, Slice(i, j), c.old).state = Ins(Cut(store.state, i, j), i, c.old)
      <3>1. /\ ListFits(store) /\ i \in Nat /\ j \in Nat /\ i <= j /\ j <= Len(store.state)
            /\ IsList(c.old) /\ Len(c.old) = j - i
        BY <1>1, <2>1, <2>2, <2>3
      <3> HIDE DEF i, j
      <3> QED BY ONLY <3>1, UpdatedAt
    <2>6. Ins(Cut(c.from, i, j), i, Part(c.from, i, j)) = c.from
      BY <1>1, <2>1, ListCutIns
    <2> QED BY <2>1, <2>2, <2>4, <2>5, <2>6
  <1>5. CASE c.type = "ListMove"
    <2>1. /\ i < j /\ j <= n /\ c.old = Part(c.from, i, j)
          /\ c.target \in Nat /\ c.target <= n /\ j < c.target
          /\ c.post = c.target - (j - i) /\ c.post_stop = c.target
          /\ c.post \in Nat /\ c.post <= n - (j - i)
          /\ c.to = MoveTo(c.from, i, j, c.post)
      <3>1. /\ i < j /\ j <= n /\ c.old = Part(c.from, i, j)
            /\ c.target \in Nat /\ c.target <= n
            /\ c.target < i \/ j < c.target
            /\ c.post = IF c.target > j THEN c.target - (j - i) ELSE c.target
            /\ c.post \in Nat /\ c.post <= n - (j - i)
            /\ c.post_stop = c.post + (j - i)
            /\ c.to = MoveTo(c.from, i, j, c.post)
        BY <1>5 DEF ListChange
      <3>2. ~ c.target < i
        BY <1>5
      <3> QED BY <1>1, <3>1, <3>2
    <2>2. /\ Len(c.to) = n /\ Part(c.to, c.post, c.post_stop) = Part(c.from, i, j)
          /\ Cut(c.to, c.post, c.post_stop) = Cut(c.from, i, j)
      <3>1. c.post + (j - i) = c.post_stop
        BY <1>1, <2>1
      <3>2. /\ Len(MoveTo(c.from, i, j, c.post)) = Len(c.from)
            /\ Part(MoveTo(c.from, i, j, c.post), c.post, c.post + (j - i)) = Part(c.from, i, j)
            /\ Cut(MoveTo(c.from, i, j, c.post), c.post, c.post + (j - i)) = Cut(c.from, i, j)
        BY <1>1, <2>1, MoveToIs
      <3> QED BY <2>1, <3>1, <3>2
    <2>3. /\ c.post < c.post_stop /\ c.post_stop \in Nat /\ c.post_stop <= Len(store.state)
          /\ i <= Len(store.state) /\ i < c.post
      BY <1>1, <2>1, <2>2
    <2>4. /\ MoveAllowed(store, Slice(c.post, c.post_stop), i)
          /\ Moved(store, Slice(c.post, c.post_stop), i).state
               = MoveTo(store.state, c.post, c.post_stop,
                        IF i > c.post_stop THEN i - (c.post_stop - c.post) ELSE i)
      BY <1>1, <2>1, <2>3, MovedAt
    <2>5. ListUndone(c) = Moved(store, Slice(c.post, c.post_stop), i)
      BY <1>5, <2>4 DEF ListUndone, MoveUndone
    <2>6. ~ i > c.post_stop
      BY <1>1, <2>1, <2>3
    <2>7. Ins(Cut(c.from, i, j), i, Part(c.from, i, j)) = c.from
      BY <1>1, <2>1, ListCutIns
    <2> HIDE DEF i, j, n
    <2> QED BY <2>2, <2>4, <2>5, <2>6, <2>7 DEF MoveTo
  <1> QED BY <1>2, <1>3, <1>4, <1>5 DEF ListChange

\* Redo at the state that a change found makes the one it left.
LEMMA ListRedoRestores ==
    ASSUME ListFits(store), NEW c, ListChange(c), store.state = c.from
    PROVE  ListRedone(c).state = c.to
  <1> DEFINE i == c.index
             j == c.stop
             n == Len(c.from)
  <1>1. IsList(c.from) /\ i \in Nat /\ j \in Nat /\ i <= j /\ n \in Nat
    BY ListIs DEF ListChange
  <1>2. CASE c.type = "ListInsert"
    <2>1. IsList(c.new) /\ i <= n /\ c.to = Ins(c.from, i, c.new)
      BY <1>2 DEF ListChange
    <2>2. Inserted(store, i, c.new).state = Ins(store.state, i, c.new)
      BY <1>1, <2>1, InsertedAt
    <2> QED BY <1>2, <2>1, <2>2 DEF ListRedone
  <1>3. CASE c.type = "ListDelete"
    <2>1. j <= n /\ c.to = Cut(c.from, i, j)
      BY <1>3 DEF ListChange
    <2>2. Deleted(store, Slice(i, j)).state = Cut(store.state, i, j)
      BY <1>1, <2>1, DeletedAt
    <2> QED BY <1>3, <2>1, <2>2 DEF ListRedone
  <1>4. CASE c.type = "ListUpdate"
    <2>1. j <= n /\ IsList(c.new) /\ Len(c.new) = j - i /\ c.to = Ins(Cut(c.from, i, j), i, c.new)
      BY <1>4 DEF ListChange
    <2>2. Updated(store, Slice(i, j), c.new).state = Ins(Cut(store.state, i, j), i, c.new)
      <3>1. /\ ListFits(store) /\ i \in Nat /\ j \in Nat /\ i <= j /\ j <= Len(store.state)
            /\ IsList(c.new) /\ Len(c.new) = j - i
        BY <1>1, <2>1
      <3> HIDE DEF i, j
      <3> QED BY ONLY <3>1, UpdatedAt
    <2> QED BY <1>4, <2>1, <2>2 DEF ListRedone
  <1>5. CASE c.type = "ListMove"
    <2>1. /\ i < j /\ j <= n /\ c.target \in Nat /\ c.target <= n
          /\ c.target < i \/ j < c.target
          /\ c.post = IF c.target > j THEN c.target - (j - i) ELSE c.target
          /\ c.to = MoveTo(c.from, i, j, c.post)
      BY <1>5 DEF ListChange
    <2>2. Moved(store, Slice(i, j), c.target).state
            = MoveTo(store.state, i, j, IF c.target > j THEN c.target - (j - i) ELSE c.target)
      BY <1>1, <2>1, MovedAt
    <2> QED BY <1>5, <2>1, <2>2 DEF ListRedone, MoveRedone
  <1> QED BY <1>2, <1>3, <1>4, <1>5 DEF ListChange

\* An entry tells what it did, and restores it both ways, but for a move towards the start.
LEMMA ListEntryRestores ==
    ASSUME ListFits(store), NEW e, ListEntry(e)
    PROVE  /\ ListReplays(e[1])
           /\ EntryTo(e) = e[1].to /\ EntryFrom(e) = e[1].from
           /\ store.state = EntryTo(e) => \/ ListUndone(e[1]).state = EntryFrom(e)
                                          \/ MovedToTheStart(e)
           /\ store.state = EntryFrom(e) => ListRedone(e[1]).state = EntryTo(e)
  <1>1. ListChange(e[1])
    BY DEF ListEntry
  <1>2. EntryTo(e) = e[1].to /\ EntryFrom(e) = e[1].from
    BY DEF EntryTo, EntryFrom, ListEntry
  <1>3. store.state = e[1].to => ListUndone(e[1]).state = e[1].from \/ MovedToTheStart(e)
    BY <1>1, ListUndoRestores DEF MovedToTheStart
  <1>4. store.state = e[1].from => ListRedone(e[1]).state = e[1].to
    BY <1>1, ListRedoRestores
  <1> QED BY <1>1, <1>2, <1>3, <1>4, ListChangeReplays

-----------------------------------------------------------------------------
(* Lists: the invariant, and that the steps keep it.                       *)

Location == Int \cup {None}

LEMMA StateIndexIs ==
    ASSUME NEW s, IsList(s), NEW v
    PROVE  StateIndex(s, v) \in Int
  <1> DEFINE I == {i \in 1..Len(s) : s[i] = v}
  <1>1. Len(s) \in Nat
    BY ListIs
  <1>2. StateIndex(s, v) = (IF I # {} THEN Min(I) ELSE 0) - 1
    BY DEF StateIndex, SelectInSeq
  <1>3. I \in SUBSET Nat
    BY <1>1
  <1> HIDE DEF I
  <1>4. I # {} => Min(I) \in Nat
    <2> SUFFICES ASSUME I # {} PROVE Min(I) \in Nat
      OBVIOUS
    <2>1. PICK x \in I : \A y \in I : x <= y
      BY <1>3, LeastNumber
    <2>2. Min(I) \in I
      BY <2>1 DEF Min
    <2> QED BY <1>3, <2>2
  <1> QED BY <1>2, <1>4

\* The invariant of a list: whatever the list is now, all entries are changes that replay.
ListInv ==
    /\ ListFits(store) /\ store.metadata \in [Kids -> Location]
    /\ BothLists
    /\ \A e \in Entries : ListEntry(e)

LEMMA OneListChange == \A c : ListChange(c) => ListEntry(<<c>>)
  BY DEF ListEntry

LEMMA NoLocationsIs == NoLocations \in [Kids -> Location]
  BY DEF NoLocations, Location

LEMMA InsertedLocations ==
    ASSUME NEW s, ListFits(s), NEW index \in Int, NEW values, IsList(values)
    PROVE  Inserted(s, index, values).metadata \in [Kids -> Location]
  <1> DEFINE i == Clamped(Len(s.state), index)
  <1>1. Inserted(s, index, values).metadata = LocationsInserted(s, i, values)
    BY DEF Inserted
  <1>2. i \in Int
    <2>1. Len(s.state) \in Nat
      BY ListIs DEF ListFits
    <2> QED BY <2>1, ClampedIs
  <1> HIDE DEF i
  <1>3. \A k \in Kids : i + StateIndex(values, k) \in Int
    BY <1>2, StateIndexIs
  <1>4. LocationsInserted(s, i, values) \in [Kids -> Location]
    BY <1>3 DEF LocationsInserted, Location
  <1> QED BY <1>1, <1>4

\* Only insertions keep locations.
LEMMA OtherLocations ==
    ASSUME NEW s, ListFits(s)
    PROVE  /\ \A item : Deleted(s, item).metadata = NoLocations
           /\ \A item, values : Updated(s, item, values).metadata = NoLocations
           /\ \A item, target : Moved(s, item, target).metadata = NoLocations
  <1>1. \A item : Deleted(s, item).metadata = NoLocations
    BY DEF Deleted
  <1>2. \A item, values : Updated(s, item, values).metadata = NoLocations
    BY DEF Updated
  <1>3. ASSUME NEW item, NEW target PROVE Moved(s, item, target).metadata = NoLocations
    <2> DEFINE u == StateMoved(s.state, item, target)
               d == StateMoved(s.data, item, Clamped(Len(s.state), target))
               r == Moved(s, item, target)
    <2>1. s = [state |-> s.state, data |-> s.data, metadata |-> s.metadata, children |-> s.children]
      BY DEF ListFits, IsStore
    <2>2. r = [s EXCEPT !.state = u, !.data = d, !.metadata = NoLocations]
      BY DEF Moved, DataMoved
    <2> HIDE DEF u, d, r
    <2>3. r = [state |-> u, data |-> d, metadata |-> NoLocations, children |-> s.children]
      BY <2>1, <2>2
    <2> QED BY <2>3 DEF r
  <1> QED BY <1>1, <1>2, <1>3

\* An operation keeps the invariant when its change replays.
LEMMA ListRecorded ==
    ASSUME ListInv, NEW s, NEW c, ListFits(s), s.metadata \in [Kids -> Location],
           ListChange(c), c.to = s.state, Record(s, <<c>>)
    PROVE  ListInv' /\ Restores
  <1>1. /\ BothLists' /\ store' = s
        /\ Entries' \subseteq Entries \cup {<<c>>}
    BY Recorded DEF ListInv, Entries
  <1>2. ListEntry(<<c>>)
    BY OneListChange
  <1>3. \A e \in Entries' : ListEntry(e)
    BY <1>1, <1>2 DEF ListInv
  <1>4. ListFits(store') /\ store'.metadata \in [Kids -> Location]
    BY <1>1
  <1>5. ListFits(store)'
    BY <1>4 DEF ListFits, IsStore, IsList
  <1>6. Restores
    <2>1. EntryTo(<<c>>) = s.state
      BY DEF EntryTo
    <2> QED BY <2>1, RestoresRecorded DEF ListInv
  <1> QED BY <1>1, <1>3, <1>4, <1>5, <1>6 DEF ListInv

\* The operations that the methods are made of.
LEMMA ValuesInserted ==
    ASSUME ListInv, NEW index \in Int, NEW values, IsList(values), InsertValues(index, values)
    PROVE  ListInv' /\ Restores
  <1>1. ListFits(store)
    BY DEF ListInv
  <1>2. ListChange(ListInsert(store, index, values))
    BY <1>1, InsertChange
  <1>3. ListFits(Inserted(store, index, values))
    BY <1>1, InsertedFits
  <1>4. Inserted(store, index, values).metadata \in [Kids -> Location]
    BY <1>1, InsertedLocations
  <1>5. Record(Inserted(store, index, values), <<ListInsert(store, index, values)>>)
    BY DEF InsertValues
  <1>6. ListInsert(store, index, values).to = Inserted(store, index, values).state
    <2> DEFINE i == Clamped(Len(store.state), index)
               c == ListInsert(store, index, values)
    <2>1. c.type = "ListInsert" /\ c.from = store.state /\ c.index = i /\ c.new = values
      BY DEF ListInsert
    <2> HIDE DEF c
    <2>2. c.to = Ins(c.from, c.index, c.new)
      BY <1>2, <2>1 DEF ListChange, c
    <2>3. Inserted(store, index, values).state = Ins(store.state, i, values)
      BY <1>1, InsertedFits
    <2> QED BY <2>1, <2>2, <2>3 DEF c
  <1> QED BY <1>2, <1>3, <1>4, <1>5, <1>6, ListRecorded

LEMMA ItemDeleted ==
    ASSUME ListInv, NEW item, ItemFits(item), DeleteItem(item)
    PROVE  ListInv' /\ Restores
  <1>1. ListFits(store) /\ Resolves(Len(store.state), item)
    BY DEF ListInv, DeleteItem, DeleteAllowed
  <1>2. ListChange(ListDelete(store, item))
    BY <1>1, DeleteChange
  <1>3. ListFits(Deleted(store, item))
    BY <1>1, DeletedFits
  <1>4. Deleted(store, item).metadata \in [Kids -> Location]
    BY <1>1, OtherLocations, NoLocationsIs
  <1>5. Record(Deleted(store, item), <<ListDelete(store, item)>>)
    BY DEF DeleteItem
  <1>6. ListDelete(store, item).to = Deleted(store, item).state
    BY DEF ListDelete
  <1> QED BY <1>2, <1>3, <1>4, <1>5, <1>6, ListRecorded

LEMMA ItemUpdated ==
    ASSUME ListInv, NEW item, ItemFits(item), NEW values, IsList(values), UpdateItem(item, values)
    PROVE  ListInv' /\ Restores
  <1>1. /\ ListFits(store) /\ Resolves(Len(store.state), item)
        /\ Len(OldValues(store, item)) = Len(values)
    BY DEF ListInv, UpdateItem, UpdateAllowed
  <1>2. ListChange(ListUpdate(store, item, values))
    BY <1>1, UpdateChange
  <1>3. ListFits(Updated(store, item, values))
    BY <1>1, UpdatedFits
  <1>4. Updated(store, item, values).metadata \in [Kids -> Location]
    BY <1>1, OtherLocations, NoLocationsIs
  <1>5. Record(Updated(store, item, values), <<ListUpdate(store, item, values)>>)
    BY DEF UpdateItem
  <1>6. ListUpdate(store, item, values).to = Updated(store, item, values).state
    BY DEF ListUpdate
  <1> QED BY <1>2, <1>3, <1>4, <1>5, <1>6, ListRecorded

LEMMA ItemMoved ==
    ASSUME ListInv, NEW item, ItemFits(item), NEW target \in Int, MoveItem(item, target)
    PROVE  ListInv' /\ Restores
  <1>1. ListFits(store) /\ MoveAllowed(store, item, target)
    BY DEF ListInv, MoveItem
  <1>2. ListChange(ListMove(store, item, target))
    BY <1>1, MoveChange
  <1>3. ListFits(Moved(store, item, target))
    BY <1>1, MovedFits
  <1>4. Moved(store, item, target).metadata \in [Kids -> Location]
    BY <1>1, OtherLocations, NoLocationsIs
  <1>5. Record(Moved(store, item, target), <<ListMove(store, item, target)>>)
    BY DEF MoveItem
  <1>6. ListMove(store, item, target).to = Moved(store, item, target).state
    BY DEF ListMove
  <1> QED BY <1>2, <1>3, <1>4, <1>5, <1>6, ListRecorded

LEMMA FitsAt == \A i \in Int : ItemFits(At(i))
  BY DEF ItemFits, At

LEMMA FitsSlice == \A i, j \in Int : ItemFits(Slice(i, j))
  BY DEF ItemFits, Slice

LEMMA FromUpdated ==
    ASSUME ListInv, NEW index \in Int, NEW values, IsList(values), UpdateFrom(index, values)
    PROVE  ListInv' /\ Restores
  <1>1. Len(values) \in Nat
    BY ListIs
  <1>2. ItemFits(At(index)) /\ ItemFits(Slice(index, index + Len(values)))
    BY <1>1, FitsAt, FitsSlice
  <1>3. \/ UpdateItem(At(index), values)
        \/ UpdateItem(Slice(index, index + Len(values)), values)
    BY DEF UpdateFrom
  <1> QED BY <1>2, <1>3, ItemUpdated

LEMMA SomeValuesAre == \A n \in Nat : \A vs \in Lists(n) : IsList(vs)
  <1> SUFFICES ASSUME NEW n \in Nat, NEW vs \in Lists(n) PROVE IsList(vs)
    OBVIOUS
  <1>1. PICK m \in 0..n : vs \in [1..m -> Values]
    BY DEF Lists
  <1>2. vs \in Seq(Values)
    BY <1>1
  <1> QED BY <1>2, ListOf

\* Every method of a list does.
LEMMA ListCalled ==
    ASSUME ListInv, ListCalls
    PROVE  ListInv' /\ Restores
  <1> DEFINE n == Len(store.state)
  <1>1. IsList(store.state) /\ n \in Nat /\ n \in Int /\ 0 \in Int
    BY ListIs DEF ListInv, ListFits
  <1>2. \A vs \in SomeValues : IsList(vs)
    BY SomeValuesAre DEF SomeValues
  <1>3. \A i \in Indices : i \in Int
    BY IndicesAssumption
  <1>4. ASSUME NEW i \in Indices, NEW vs \in SomeValues, InsertValues(i, vs) PROVE ListInv' /\ Restores
    BY <1>2, <1>3, <1>4, ValuesInserted
  <1>5. ASSUME NEW vs \in SomeValues, Extend(vs) PROVE ListInv' /\ Restores
    BY <1>1, <1>2, <1>5, ValuesInserted DEF Extend
  <1>6. ASSUME NEW item \in Items(Indices), DeleteItem(item) PROVE ListInv' /\ Restores
    BY <1>6, ItemsFitAll, ItemDeleted
  <1>7. ASSUME NEW v \in Values, RemoveValue(v) PROVE ListInv' /\ Restores
    <2>1. StateIndex(store.state, v) \in Int
      BY <1>1, StateIndexIs
    <2>2. ItemFits(At(StateIndex(store.state, v))) /\ DeleteItem(At(StateIndex(store.state, v)))
      BY <1>7, <2>1, FitsAt DEF RemoveValue
    <2> QED BY <2>2, ItemDeleted
  <1>8. CASE ClearList
    <2>1. ItemFits(Slice(0, n)) /\ DeleteItem(Slice(0, n))
      BY <1>1, <1>8, FitsSlice DEF ClearList
    <2> QED BY <2>1, ItemDeleted
  <1>9. ASSUME NEW i \in Indices, Pop(i) PROVE ListInv' /\ Restores
    <2>1. ItemFits(At(i)) /\ DeleteItem(At(i))
      BY <1>3, <1>9, FitsAt DEF Pop
    <2> QED BY <2>1, ItemDeleted
  <1>10. CASE ReverseList
    <2> DEFINE r == StateReversed(store.state)
    <2>1. IsList(r)
      <3>1. r = [i \in 1..n |-> store.state[(n - i) + 1]]
        BY DEF StateReversed, Reverse
      <3> HIDE DEF r, n
      <3>2. r \in [1..n -> ToSet(r)]
        BY <3>1 DEF ToSet
      <3> QED BY <1>1, <3>2 DEF IsList
    <2>2. ItemFits(Slice(0, n)) /\ UpdateItem(Slice(0, n), r)
      BY <1>1, <1>10, FitsSlice DEF ReverseList
    <2> QED BY <2>1, <2>2, ItemUpdated
  <1>11. ASSUME NEW item \in Items(Indices), NEW t \in Indices, MoveItem(item, t) PROVE ListInv' /\ Restores
    BY <1>3, <1>11, ItemsFitAll, ItemMoved
  <1>12. ASSUME NEW i \in Indices, NEW vs \in SomeValues, UpdateFrom(i, vs) PROVE ListInv' /\ Restores
    BY <1>2, <1>3, <1>12, FromUpdated
  <1>13. ASSUME NEW i \in Indices \cup {None}, NEW vs \in SomeValues,
                SetSlice(Slice(i, None), vs)
         PROVE  ListInv' /\ Restores
    <2>1. Span(n, Slice(i, None)).index \in Int
      BY <1>1, ItemsFitAll, AnySpan DEF Items
    <2>2. UpdateFrom(Span(n, Slice(i, None)).index, vs)
      BY <1>13 DEF SetSlice
    <2> QED BY <1>2, <2>1, <2>2, FromUpdated
  <1> QED BY <1>4, <1>5, <1>6, <1>7, <1>8, <1>9, <1>10, <1>11, <1>12, <1>13 DEF ListCalls

LEMMA ListKept ==
    ASSUME ListInv, ListFits(store'), store'.metadata \in [Kids -> Location],
           done' = done, undone' = undone
    PROVE  ListInv' /\ Restores
  <1>1. ListFits(store)'
    BY DEF ListFits, IsStore, IsList
  <1>2. BothLists' /\ Entries' = Entries
    BY DEF ListInv, BothLists, Entries, IsList
  <1>3. Restores
    BY RestoresUnchanged DEF ListInv
  <1> QED BY <1>1, <1>2, <1>3 DEF ListInv

\* Looking for a child keeps a location.
LEMMA Located ==
    ASSUME ListInv, NEW k \in Kids, Locate(k)
    PROVE  ListInv' /\ Restores
  <1> DEFINE i == StateIndex(store.state, k)
             s == [store EXCEPT !.metadata[k] = i]
  <1>1. store' = s /\ done' = done /\ undone' = undone
    BY DEF Locate
  <1>2. /\ ListFits(store) /\ IsStore(store) /\ IsList(store.state)
        /\ store.metadata \in [Kids -> Location]
    BY DEF ListInv, ListFits
  <1>3. i \in Location
    BY <1>2, StateIndexIs DEF Location
  <1> HIDE DEF i
  <1>4. s = [state |-> store.state, data |-> store.data,
             metadata |-> [store.metadata EXCEPT ![k] = i], children |-> store.children]
    BY <1>2 DEF IsStore
  <1>5. [store.metadata EXCEPT ![k] = i] \in [Kids -> Location]
    BY <1>2, <1>3
  <1>6. IsStore(s) /\ s.state = store.state /\ s.data = store.data
        /\ s.metadata \in [Kids -> Location]
    BY <1>4, <1>5 DEF IsStore
  <1> HIDE DEF s
  <1>7. ListFits(s)
    BY <1>2, <1>6 DEF ListFits
  <1> QED BY <1>1, <1>6, <1>7, ListKept

ReplacedAt(s, d, k, i) == [s EXCEPT !.data = d, !.metadata[k] = i]

LEMMA ReplacedAtIs ==
    ASSUME NEW s, IsStore(s), NEW k, NEW d, NEW i
    PROVE  /\ ReplacedAt(s, d, k, i).data = d
           /\ ReplacedAt(s, d, k, i).metadata = [s.metadata EXCEPT ![k] = i]
           /\ ReplacedAt(s, d, k, i).state = s.state
           /\ IsStore(ReplacedAt(s, d, k, i))
  <1> DEFINE r == ReplacedAt(s, d, k, i)
  <1>1. r.data = d
    BY DEF IsStore, ReplacedAt
  <1>2. r.metadata = [s.metadata EXCEPT ![k] = i]
    BY DEF IsStore, ReplacedAt
  <1>3. r.state = s.state
    BY DEF IsStore, ReplacedAt
  <1>4. IsStore(r)
    BY BothReplaced, Zenon DEF ReplacedAt
  <1> QED BY <1>1, <1>2, <1>3, <1>4

\* A change of a child replaces its data, and nothing of the state.
LEMMA ListChildChanged ==
    ASSUME ListInv, NEW k \in Kids, ChildChanges(k, ListChildReplaced(k))
    PROVE  ListInv' /\ Restores
  <1> DEFINE i == ListLocation(store, k)
             d == StateUpdated(store.data, i, <<NewDataOf(k)>>)
             s == ReplacedAt(store, d, k, i)
  <1>1. store' = ListChildReplaced(k) /\ done' = done /\ undone' = undone
    BY DEF ChildChanges
  <1>2. /\ ListFits(store) /\ IsStore(store) /\ IsList(store.state) /\ IsList(store.data)
        /\ store.metadata \in [Kids -> Location]
    BY DEF ListInv, ListFits
  <1>3. i \in Int /\ i \in Location
    BY <1>2, StateIndexIs DEF Location, ListLocation
  <1>4. IsList(d)
    <2>1. IsList(<<NewDataOf(k)>>)
      <3> DEFINE x == NewDataOf(k)
      <3> HIDE DEF x
      <3>1. <<x>> \in Seq({x})
        OBVIOUS
      <3> QED BY <3>1, ListOf DEF x
    <2> QED BY <1>2, <1>3, <2>1, AnyUpdated
  <1>5. ListChildReplaced(k) = store \/ ListChildReplaced(k) = s
    BY DEF ListChildReplaced, ReplacedAt
  <1> HIDE DEF i, d
  <1>6. /\ s.data = d /\ s.metadata = [store.metadata EXCEPT ![k] = i]
        /\ s.state = store.state /\ IsStore(s)
    BY <1>2, ReplacedAtIs
  <1>7. [store.metadata EXCEPT ![k] = i] \in [Kids -> Location]
    BY <1>2, <1>3
  <1> HIDE DEF s
  <1>8. ListFits(s)
    BY <1>2, <1>4, <1>6 DEF ListFits
  <1>9. ListFits(store') /\ store'.metadata \in [Kids -> Location]
    BY <1>1, <1>2, <1>5, <1>6, <1>7, <1>8
  <1> QED BY <1>1, <1>9, ListKept

LEMMA UndoneLocations ==
    ASSUME ListInv, NEW c, ListChange(c)
    PROVE  ListUndone(c).metadata \in [Kids -> Location]
  <1>1. ListFits(store) /\ store.metadata \in [Kids -> Location] /\ c.index \in Int
    BY DEF ListInv, ListChange
  <1>2. CASE c.type = "ListInsert"
    <2>1. ListUndone(c) = Deleted(store, Slice(c.index, c.stop))
      BY <1>2 DEF ListUndone
    <2> QED BY <1>1, <2>1, OtherLocations, NoLocationsIs
  <1>3. CASE c.type = "ListDelete"
    <2>1. ListUndone(c) = Inserted(store, c.index, c.old)
      BY <1>3 DEF ListUndone, DeleteUndone
    <2>2. IsList(c.old)
      BY <1>3, ListPart DEF ListChange
    <2> QED BY <1>1, <2>1, <2>2, InsertedLocations
  <1>4. CASE c.type = "ListUpdate"
    <2>1. ListUndone(c) = Updated(store, Slice(c.index, c.stop), c.old)
      BY <1>4 DEF ListUndone
    <2> QED BY <1>1, <2>1, OtherLocations, NoLocationsIs
  <1>5. CASE c.type = "ListMove"
    <2>1. ListUndone(c) = store \/ ListUndone(c) = Moved(store, Slice(c.post, c.post_stop), c.index)
      BY <1>5 DEF ListUndone, MoveUndone
    <2> QED BY <1>1, <2>1, OtherLocations, NoLocationsIs
  <1> QED BY <1>2, <1>3, <1>4, <1>5 DEF ListChange

LEMMA RedoneLocations ==
    ASSUME ListInv, NEW c, ListChange(c)
    PROVE  ListRedone(c).metadata \in [Kids -> Location]
  <1>1. ListFits(store) /\ c.index \in Int
    BY DEF ListInv, ListChange
  <1>2. CASE c.type = "ListInsert"
    <2>1. ListRedone(c) = Inserted(store, c.index, c.new) /\ IsList(c.new)
      BY <1>2 DEF ListRedone, ListChange
    <2> QED BY <1>1, <2>1, InsertedLocations
  <1>3. CASE c.type = "ListDelete"
    <2>1. ListRedone(c) = Deleted(store, Slice(c.index, c.stop))
      BY <1>3 DEF ListRedone
    <2> QED BY <1>1, <2>1, OtherLocations, NoLocationsIs
  <1>4. CASE c.type = "ListUpdate"
    <2>1. ListRedone(c) = Updated(store, Slice(c.index, c.stop), c.new)
      BY <1>4 DEF ListRedone
    <2> QED BY <1>1, <2>1, OtherLocations, NoLocationsIs
  <1>5. CASE c.type = "ListMove"
    <2>1. ListRedone(c) = Moved(store, Slice(c.index, c.stop), c.target)
      BY <1>5 DEF ListRedone, MoveRedone
    <2> QED BY <1>1, <2>1, OtherLocations, NoLocationsIs
  <1> QED BY <1>2, <1>3, <1>4, <1>5 DEF ListChange

\* Undo keeps it, whatever happened to the list since.
LEMMA ListUndid ==
    ASSUME ListInv, done # <<>>, ListUndoable(Last(done)), UndoTo(ListUndone(Last(done)[1]))
    PROVE  ListInv' /\ Restores
  <1> DEFINE e == Last(done)
             s == ListUndone(e[1])
  <1>1. /\ BothLists' /\ Entries' \subseteq Entries /\ e \in ToSet(done) /\ store' = s
    BY EntriesUndone, UndoneTo DEF ListInv, UndoTo
  <1>2. ListEntry(e)
    BY <1>1 DEF ListInv, Entries
  <1>3. ListChange(e[1]) /\ ListUndoable(e) /\ ListFits(store)
    BY <1>2 DEF ListEntry, ListInv
  <1> HIDE DEF e
  <1>4. ListFits(ListUndone(e[1])) /\ ListUndone(e[1]).metadata \in [Kids -> Location]
    BY <1>3, UndoneFits, UndoneLocations
  <1>9. store.state = EntryTo(e) => s.state = EntryFrom(e) \/ MovedToTheStart(e)
    BY <1>2, <1>3, ListEntryRestores
  <1> HIDE DEF s
  <1>5. ListFits(s)
    BY <1>4 DEF s
  <1>6. ListFits(store)' /\ store'.metadata \in [Kids -> Location]
    <2>1. s.metadata \in [Kids -> Location]
      BY <1>4 DEF s
    <2> QED BY <1>1, <1>5, <2>1 DEF ListFits, IsStore, IsList
  <1>7. \A x \in Entries' : ListEntry(x)
    BY <1>1 DEF ListInv
  <1>8. ListInv'
    BY <1>1, <1>6, <1>7 DEF ListInv
  <1>10. Restores
    BY <1>9, RestoresUndone DEF ListInv, e, s
  <1> QED BY <1>8, <1>10

\* Redo keeps it.
LEMMA ListRedid ==
    ASSUME ListInv, undone # <<>>, ListRedoable(Last(undone)), RedoTo(ListRedone(Last(undone)[1]))
    PROVE  ListInv' /\ Restores
  <1> DEFINE e == Last(undone)
             s == ListRedone(e[1])
  <1>1. /\ BothLists' /\ Entries' \subseteq Entries /\ e \in ToSet(undone) /\ store' = s
    BY EntriesRedone, RedoneTo DEF ListInv, RedoTo
  <1>2. ListEntry(e)
    BY <1>1 DEF ListInv, Entries
  <1>3. ListChange(e[1]) /\ ListRedoable(e) /\ ListFits(store)
    BY <1>2 DEF ListEntry, ListInv
  <1> HIDE DEF e
  <1>4. ListFits(ListRedone(e[1])) /\ ListRedone(e[1]).metadata \in [Kids -> Location]
    BY <1>3, RedoneFits, RedoneLocations
  <1>9. store.state = EntryFrom(e) => s.state = EntryTo(e)
    BY <1>2, <1>3, ListEntryRestores
  <1> HIDE DEF s
  <1>5. ListFits(s)
    BY <1>4 DEF s
  <1>6. ListFits(store)' /\ store'.metadata \in [Kids -> Location]
    <2>1. s.metadata \in [Kids -> Location]
      BY <1>4 DEF s
    <2> QED BY <1>1, <1>5, <2>1 DEF ListFits, IsStore, IsList
  <1>7. \A x \in Entries' : ListEntry(x)
    BY <1>1 DEF ListInv
  <1>8. ListInv'
    BY <1>1, <1>6, <1>7 DEF ListInv
  <1>10. Restores
    BY <1>9, RestoresRedone DEF ListInv, e, s
  <1> QED BY <1>8, <1>10

\* Every step of a list does.
LEMMA ListStep ==
    ASSUME ListInv, ListNext
    PROVE  ListInv' /\ Restores
  <1>1. CASE ListCalls
    BY <1>1, ListCalled
  <1>2. ASSUME NEW k \in Kids, Locate(k) PROVE ListInv' /\ Restores
    BY <1>2, Located
  <1>3. ASSUME NEW k \in Kids, ChildChanges(k, ListChildReplaced(k)) PROVE ListInv' /\ Restores
    BY <1>3, ListChildChanged
  <1>4. CASE done # <<>> /\ ListUndoable(Last(done)) /\ UndoTo(ListUndone(Last(done)[1]))
    BY <1>4, ListUndid
  <1>5. CASE undone # <<>> /\ ListRedoable(Last(undone)) /\ RedoTo(ListRedone(Last(undone)[1]))
    BY <1>5, ListRedid
  <1> QED BY <1>1, <1>2, <1>3, <1>4, <1>5 DEF ListNext

LEMMA ListStart ==
    ASSUME ListInit, done = <<>>, undone = <<>>
    PROVE  ListInv
  <1>1. PICK vs \in Lists(MaxLength) : store = ListStore(vs)
    BY DEF ListInit
  <1>2. IsList(vs)
    <2>1. PICK m \in 0..MaxLength : vs \in [1..m -> Values]
      BY <1>1 DEF Lists
    <2>2. m \in Nat
      BY <2>1
    <2>3. vs \in Seq(Values)
      BY <2>1, <2>2
    <2> QED BY <2>3, ListOf
  <1>3. DOMAIN vs = 1..Len(vs) /\ Len(vs) \in Nat
    BY <1>2, ListIs
  <1> DEFINE d == IF relationship.data THEN [i \in DOMAIN vs |-> DataOf(vs[i])] ELSE <<>>
             m == [k \in Kids |-> IF IsChild(k) /\ Contains(vs, k) THEN StateIndex(vs, k) ELSE None]
  <1>4. IsList(d)
    <2>1. [i \in DOMAIN vs |-> DataOf(vs[i])] = Fabricated(vs)
      BY DEF Fabricated
    <2>2. IsList(Fabricated(vs))
      BY <1>2, FabricatedIs
    <2> QED BY <2>1, <2>2, EmptyList
  <1>5. m \in [Kids -> Location]
    BY <1>2, StateIndexIs DEF Location
  <1>6. store = [state |-> vs, data |-> d, metadata |-> m, children |-> ChildrenIn(ToSet(vs))]
    BY <1>1 DEF ListStore
  <1> HIDE DEF d, m
  <1>7. ListFits(store) /\ store.metadata \in [Kids -> Location]
    BY <1>2, <1>4, <1>5, <1>6 DEF ListFits, IsStore
  <1>8. BothLists /\ Entries = {}
    BY EmptyList DEF BothLists, Entries
  <1> QED BY <1>7, <1>8 DEF ListInv

-----------------------------------------------------------------------------
(* An object of any kind.                                                  *)

\* No step makes an object one of another kind.
LEMMA ListKind ==
    ASSUME ListNext
    PROVE  kind' = kind
  <1> USE DEF fixed, Record
  <1>1. CASE ListCalls
    <2>1. \A i, vs : InsertValues(i, vs) => kind' = kind
      BY DEF InsertValues
    <2>2. \A item : DeleteItem(item) => kind' = kind
      BY DEF DeleteItem
    <2>3. \A item, vs : UpdateItem(item, vs) => kind' = kind
      BY DEF UpdateItem
    <2>4. \A i, vs : UpdateFrom(i, vs) => kind' = kind
      BY <2>3 DEF UpdateFrom
    <2> QED BY <1>1, <2>1, <2>2, <2>3, <2>4
            DEF ListCalls, Extend, RemoveValue, ClearList, Pop, ReverseList, MoveItem, SetSlice
  <1>2. CASE ~ ListCalls
    BY <1>2 DEF ListNext, Locate, ChildChanges, UndoTo, RedoTo
  <1> QED BY <1>1, <1>2

LEMMA SetKind ==
    ASSUME SetNext
    PROVE  kind' = kind
  <1> USE DEF fixed, Record
  <1>1. CASE SetCalls
    <2>1. \A vs : AddValues(vs) => kind' = kind
      BY DEF AddValues
    <2>2. \A vs : RemoveValues(vs) => kind' = kind
      BY DEF RemoveValues
    <2>3. \A vs : SymmetricDifferenceUpdate(vs) => kind' = kind
      BY <2>1, <2>2 DEF SymmetricDifferenceUpdate
    <2> QED BY <1>1, <2>1, <2>2, <2>3
            DEF SetCalls, ClearSet, DiscardValues, IntersectionUpdate, DifferenceUpdate, Replace
  <1>2. CASE ~ SetCalls
    BY <1>2 DEF SetNext, ChildChanges, UndoTo, RedoTo
  <1> QED BY <1>1, <1>2

LEMMA DictKind ==
    ASSUME DictNext
    PROVE  kind' = kind
  <1>1. CASE DictCalls
    <2>1. \A items : UpdateItems(items) => kind' = kind
      BY DEF UpdateItems, Record, fixed
    <2>2. \A k, v : SetKey(k, v) => kind' = kind
      BY <2>1 DEF SetKey
    <2>3. ClearDict => kind' = kind
      BY <2>1 DEF ClearDict
    <2> QED BY <1>1, <2>1, <2>2, <2>3 DEF DictCalls, RemoveKey, DiscardKey, SetDefault
  <1>2. CASE ~ DictCalls
    BY <1>2 DEF DictNext, ChildChanges, UndoTo, RedoTo, fixed
  <1> QED BY <1>1, <1>2

LEMMA AttributesKind ==
    ASSUME AttributesNext
    PROVE  kind' = kind
  <1>1. CASE AttributesCalls
    <2>1. \A values : Update(values) => kind' = kind
      BY DEF Update, Record, fixed
    <2> QED BY <1>1, <2>1 DEF AttributesCalls, PutAttribute, DeleteAttribute, ClearAttributes
  <1>2. CASE ~ AttributesCalls
    BY <1>2 DEF AttributesNext, ChildChanges, UndoTo, RedoTo, fixed
  <1> QED BY <1>1, <1>2

\* The inductive invariant.
IInv ==
    /\ kind \in Kinds
    /\ kind = "list" => ListInv
    /\ kind = "set" => SetInv
    /\ kind = "dict" => DictInv
    /\ kind = "attributes" => AttributesInv

\* Objects of all kinds start with the invariant.
LEMMA Starts == Init => IInv
  <1> SUFFICES ASSUME Init PROVE IInv
    OBVIOUS
  <1>1. done = <<>> /\ undone = <<>> /\ kind \in Kinds
    BY DEF Init
  <1>2. CASE kind = "list"
    <2>1. ListInit
      BY <1>2 DEF Init
    <2> QED BY <1>1, <1>2, <2>1, ListStart DEF IInv
  <1>3. CASE kind = "set"
    BY <1>1, <1>3, SetStart DEF IInv
  <1>4. CASE kind = "dict"
    <2>1. DictInit
      BY <1>4 DEF Init
    <2> QED BY <1>1, <1>4, <2>1, DictStart DEF IInv
  <1>5. CASE kind = "attributes"
    <2>1. AttributesInit
      BY <1>5 DEF Init
    <2> QED BY <1>1, <1>5, <2>1, AttributesStart DEF IInv
  <1> QED BY <1>1, <1>2, <1>3, <1>4, <1>5 DEF Kinds

LEMMA Stays ==
    ASSUME IInv, UNCHANGED vars
    PROVE  IInv'
  <1>1. /\ kind' = kind /\ class' = class /\ store' = store /\ done' = done /\ undone' = undone
    BY DEF vars
  <1>2. ListInv => ListInv'
    BY <1>1 DEF ListInv, ListFits, IsStore, IsList, BothLists, Entries
  <1>3. SetInv => SetInv'
    BY <1>1 DEF SetInv, BothLists, Entries
  <1>4. DictInv => DictInv'
    BY <1>1 DEF DictInv, IsStore, IsDict, BothLists, Entries
  <1>5. AttributesInv => AttributesInv'
    <2> SUFFICES ASSUME AttributesInv PROVE AttributesInv'
      OBVIOUS
    <2>1. IsStore(store') /\ store'.state = store.state
      BY <1>1 DEF AttributesInv, IsStore
    <2> QED BY <1>1, <2>1, AttributesOthersStay
  <1> QED BY <1>1, <1>2, <1>3, <1>4, <1>5 DEF IInv

\* Every step keeps it, and restores what UndoRedoRestore says.
LEMMA Steps ==
    ASSUME IInv, Next
    PROVE  IInv' /\ Restores
  <1>1. CASE kind = "list" /\ ListNext
    <2>1. kind' = "list" /\ ListInv' /\ Restores
      BY <1>1, ListStep, ListKind DEF IInv
    <2> QED BY <2>1 DEF IInv, Kinds
  <1>2. CASE kind = "set" /\ SetNext
    <2>1. kind' = "set" /\ SetInv' /\ Restores
      BY <1>2, SetStep, SetKind DEF IInv
    <2> QED BY <2>1 DEF IInv, Kinds
  <1>3. CASE kind = "dict" /\ DictNext
    <2>1. kind' = "dict" /\ DictInv' /\ Restores
      BY <1>3, DictStep, DictKind DEF IInv
    <2> QED BY <2>1 DEF IInv, Kinds
  <1>4. CASE kind = "attributes" /\ AttributesNext
    <2>1. kind' = "attributes" /\ AttributesInv' /\ Restores
      BY <1>4, AttributesStep, AttributesKind DEF IInv
    <2> QED BY <2>1 DEF IInv, Kinds
  <1> QED BY <1>1, <1>2, <1>3, <1>4 DEF Next

\* The inductive invariant holds: whatever was done, undone and redone, every entry of the
\* history has changes that lead from one state to the other, and what the kind keeps.
THEOREM Invariance == Spec => []IInv
  <1>1. Init => IInv
    BY Starts
  <1>2. IInv /\ [Next]_vars => IInv'
    BY Steps, Stays
  <1> QED BY <1>1, <1>2, PTL DEF Spec

\* Undo of an entry at the state it left makes the state it found, redo at the state it
\* found makes the state it left, for lists, sets, dicts and attributes; what is left out
\* is what the code gets wrong, a move of list items towards the start and the addition of
\* values that the set has.
THEOREM AlwaysUndoRedoRestore == Spec => UndoRedoRestore
  <1>1. IInv /\ [Next]_vars => [Restores]_vars
    BY Steps
  <1>2. Restores
          => /\ Undid /\ store.state = EntryTo(Entry)
                  => \/ store'.state = EntryFrom(Entry)
                     \/ MovedToTheStart(Entry) \/ AddsHeld(Entry)
             /\ Made /\ store.state = EntryFrom(Entry) => store'.state = EntryTo(Entry)
    BY DEF Restores
  <1> QED BY <1>1, <1>2, Invariance, PTL DEF Spec, UndoRedoRestore

\* Entries that replay tell what they did.
LEMMA InvTells == IInv => ChangesTell
  <1> SUFFICES ASSUME IInv, NEW n \in DOMAIN done, NEW i \in DOMAIN done[n]
               PROVE  Of(ListReplays(done[n][i]), SetReplays(done[n][i]),
                         DictReplays(done[n][i]), AttributesReplays(done[n][i]))
    BY DEF ChangesTell
  <1> DEFINE e == done[n]
  <1>1. BothLists => e \in Entries
    BY DEF Entries, ToSet
  <1> HIDE DEF e
  <1>2. CASE kind = "list"
    <2>1. ListEntry(e)
      BY <1>1, <1>2 DEF IInv, ListInv
    <2>2. i = 1 /\ ListChange(e[1])
      BY <2>1 DEF ListEntry, e
    <2> QED BY <1>2, <2>2, ListChangeReplays DEF Of, e
  <1>3. CASE kind = "set"
    <2>1. SetEntry(e)
      BY <1>1, <1>3 DEF IInv, SetInv
    <2>2. SetReplays(e[i])
      BY <2>1 DEF SetEntry, SetChange, e
    <2> QED BY <1>3, <2>2 DEF Of, e
  <1>4. CASE kind = "dict"
    <2>1. DictEntry(e)
      BY <1>1, <1>4 DEF IInv, DictInv
    <2>2. i = 1
      BY <2>1 DEF DictEntry, e
    <2> QED BY <1>4, <2>1, <2>2, DictEntryRestores DEF Of, e
  <1>5. CASE kind = "attributes"
    <2>1. AttributesEntry(e)
      BY <1>1, <1>5 DEF IInv, AttributesInv
    <2>2. i = 1
      BY <2>1 DEF AttributesEntry, e
    <2> DEFINE c == e[1]
    <2>3. c.to = After(c.from, c.new) /\ c.from = After(c.to, c.old)
      BY <2>1 DEF AttributesEntry
    <2> HIDE DEF c
    <2>4. AttributesReplays(c)
      BY <2>3 DEF AttributesReplays, After
    <2> QED BY <1>5, <2>2, <2>4 DEF Of, c, e
  <1> QED BY <1>2, <1>3, <1>4, <1>5 DEF IInv, Kinds

\* What a change says - indices, old values and new ones - tells its reader how the one
\* state came from the other.
THEOREM AlwaysChangesTell == Spec => []ChangesTell
  BY Invariance, InvTells, PTL

\* A delegated attribute has what its getter returns for the attributes it depends on,
\* after updates, undos and redos alike.
THEOREM AlwaysDelegatesExact == Spec => []DelegatesExact
  <1>1. IInv => DelegatesExact
    BY DEF IInv, AttributesInv, DelegatesExact, DelegatesCurrent, Current
  <1> QED BY <1>1, Invariance, PTL

=============================================================================
