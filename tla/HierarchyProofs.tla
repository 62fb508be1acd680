-------------------------- MODULE HierarchyProofs --------------------------
(***************************************************************************)
(* Proofs about Hierarchy, for every set of objects and values, every kind *)
(* of program and every bound.  First what does not depend on what         *)
(* HierarchyOf returns; then that it returns the object and everything     *)
(* above it, that no object is above itself, and that the hierarchy a      *)
(* write announces itself to stays what it is until the write is over; and *)
(* from that, that the data mirrors the state.                             *)
(***************************************************************************)
EXTENDS Hierarchy, SequenceTheorems, FiniteSetTheorems, WellFoundedInduction, TLAPS

\* What a write knows.
Fields(w) ==
    w = [obj |-> w.obj, value |-> w.value, kids |-> w.kids, data |-> w.data,
         old |-> w.old, new |-> w.new, hierarchy |-> w.hierarchy,
         locations |-> w.locations, phase |-> w.phase, saved |-> w.saved]

\* What a pending write will commit, out of what was there when it began.
Computed(w) ==
    /\ w.value \in Values /\ w.kids \in Seq(Objects)
    /\ \A i, j \in DOMAIN w.kids : w.kids[i] = w.kids[j] => i = j
    /\ w.old = Range(w.saved.kids[w.obj]) \ Range(w.kids)
    /\ w.new = Range(w.kids) \ Range(w.saved.kids[w.obj])

WritesTyped ==
    /\ writes \in Seq(Range(writes))
    /\ \A i \in DOMAIN writes :
         /\ Fields(writes[i]) /\ writes[i].obj \in Objects
         /\ writes[i].old \subseteq Objects /\ writes[i].new \subseteq Objects
         /\ writes[i].phase \in {"PRE", "POST"}
         /\ writes[i].phase = "PRE" => Computed(writes[i])

\* Every write in progress is of another object, and adopts other children.
Apart ==
    /\ busy = {writes[i].obj : i \in DOMAIN writes}
    /\ \A i, j \in DOMAIN writes :
         i # j => writes[i].obj # writes[j].obj /\ writes[i].new \cap writes[j].new = {}

\* ParentsAgree, of some stores.
Agree(s) ==
    /\ s.value \in [Objects -> Values]
    /\ s.kids \in [Objects -> Seq(Objects)]
    /\ s.parent \in [Objects -> Objects \cup {None}]
    /\ s.children \in [Objects -> SUBSET Objects]
    /\ \A o \in Objects : s.children[o] = Range(s.kids[o])
    /\ \A o \in Objects : \A i, j \in DOMAIN s.kids[o] :
         s.kids[o][i] = s.kids[o][j] => i = j
    /\ \A o, c \in Objects : s.parent[c] = o <=> c \in s.children[o]

\* PendingStands, of one write and some stores.
StandsIn(s, w) ==
    w.phase = "PRE" => /\ s.value[w.obj] = w.saved.value[w.obj]
                       /\ s.kids[w.obj] = w.saved.kids[w.obj]
                       /\ \A c \in w.new : s.parent[c] = None

\* Stores that agree and in which the first writes stand.
Sound(s, n) == Agree(s) /\ \A i \in 1..n : StandsIn(s, writes[i])

\* The stores as they are are sound, and so are those that every write in progress
\* would go back to, for the writes it is nested in.
StoresSound ==
    /\ Sound(Stores, Len(writes))
    /\ \A n \in DOMAIN writes : Sound(writes[n].saved, n - 1)

IInv ==
    /\ program \in Programs
    /\ locks \in [Objects -> Nat]
    /\ WritesTyped /\ Apart /\ StoresSound /\ LocksExact

\* The writes that lock an object because it is above theirs, or adopted.
Announcing(ws, o) == {i \in DOMAIN ws : o \in Range(ws[i].hierarchy)}
Adopting(ws, o)   == {i \in DOMAIN ws : o \in ws[i].new}

\* Indicator of a condition.
One(holds) == IF holds THEN 1 ELSE 0

-----------------------------------------------------------------------------
(* Counting.                                                               *)

LEMMA Counted ==
    ASSUME NEW n \in Nat, NEW A \in SUBSET (1..n)
    PROVE  /\ IsFiniteSet(A) /\ Cardinality(A) \in Nat
           /\ Cardinality(A \cup {n + 1}) = Cardinality(A) + 1
  <1>1. IsFiniteSet(1..n)
    BY FS_Interval
  <1>2. IsFiniteSet(A)
    BY <1>1, FS_Subset
  <1>3. n + 1 \notin A
    OBVIOUS
  <1> QED BY <1>2, <1>3, FS_AddElement, FS_CardinalityType

\* One write more is counted for what it locks.
LEMMA OneMore ==
    ASSUME NEW n \in Nat, NEW ws, NEW vs, NEW o,
           DOMAIN ws = 1..n, DOMAIN vs = 1..(n + 1), \A i \in 1..n : vs[i] = ws[i]
    PROVE  /\ Cardinality(Announcing(ws, o)) \in Nat
           /\ Cardinality(Adopting(ws, o)) \in Nat
           /\ Cardinality(Announcing(vs, o))
                = Cardinality(Announcing(ws, o)) + One(o \in Range(vs[n + 1].hierarchy))
           /\ Cardinality(Adopting(vs, o))
                = Cardinality(Adopting(ws, o)) + One(o \in vs[n + 1].new)
  <1>1. Announcing(ws, o) \in SUBSET (1..n) /\ Adopting(ws, o) \in SUBSET (1..n)
    BY DEF Announcing, Adopting
  <1>2. Announcing(vs, o) = Announcing(ws, o)
          \cup (IF o \in Range(vs[n + 1].hierarchy) THEN {n + 1} ELSE {})
    BY DEF Announcing
  <1>3. Adopting(vs, o) = Adopting(ws, o)
          \cup (IF o \in vs[n + 1].new THEN {n + 1} ELSE {})
    BY DEF Adopting
  <1>4. Cardinality(Announcing(ws, o)) \in Nat /\ Cardinality(Adopting(ws, o)) \in Nat
    BY <1>1, Counted
  <1>5. /\ Cardinality(Announcing(ws, o) \cup {n + 1}) = Cardinality(Announcing(ws, o)) + 1
        /\ Cardinality(Adopting(ws, o) \cup {n + 1}) = Cardinality(Adopting(ws, o)) + 1
    BY <1>1, Counted
  <1>6. Cardinality(Announcing(vs, o))
          = Cardinality(Announcing(ws, o)) + One(o \in Range(vs[n + 1].hierarchy))
    <2>1. CASE o \in Range(vs[n + 1].hierarchy)
      BY <1>2, <1>5, <2>1 DEF One
    <2>2. CASE o \notin Range(vs[n + 1].hierarchy)
      <3>1. Announcing(vs, o) = Announcing(ws, o)
        BY <1>2, <2>2, Zenon
      <3> QED BY <1>4, <3>1, <2>2 DEF One
    <2> QED BY <2>1, <2>2
  <1>7. Cardinality(Adopting(vs, o))
          = Cardinality(Adopting(ws, o)) + One(o \in vs[n + 1].new)
    <2>1. CASE o \in vs[n + 1].new
      BY <1>3, <1>5, <2>1 DEF One
    <2>2. CASE o \notin vs[n + 1].new
      <3>1. Adopting(vs, o) = Adopting(ws, o)
        BY <1>3, <2>2, Zenon
      <3> QED BY <1>4, <3>1, <2>2 DEF One
    <2> QED BY <2>1, <2>2
  <1> QED BY <1>4, <1>6, <1>7

\* A child counts for nothing if it is in no location, and for at most one if it is
\* not in two.
LEMMA CountIs ==
    ASSUME NEW s \in Seq(Objects), NEW c
    PROVE  /\ Count(s, c) \in Nat
           /\ Count(s, c) = 0 <=> c \notin Range(s)
           /\ Count(s, c) <= 1 <=> \A i, j \in DOMAIN s : s[i] = c /\ s[j] = c => i = j
  <1> DEFINE A == {i \in DOMAIN s : s[i] = c}
  <1>1. Len(s) \in Nat /\ DOMAIN s = 1..Len(s)
    OBVIOUS
  <1>2. A = {} <=> c \notin Range(s)
    BY DEF Range
  <1>3. (A = {} \/ \E x : A = {x}) <=> \A i, j \in DOMAIN s : s[i] = c /\ s[j] = c => i = j
    <2>1. (\A i, j \in A : i = j) <=> A = {} \/ \E x : A = {x}
      <3>1. ASSUME \A i, j \in A : i = j, NEW x \in A
            PROVE  A = {x}
        BY <3>1
      <3> HIDE DEF A
      <3> QED BY <3>1
    <2>2. \A i : i \in A <=> i \in DOMAIN s /\ s[i] = c
      OBVIOUS
    <2> HIDE DEF A
    <2> QED BY <2>1, <2>2
  <1>4. Count(s, c) = Cardinality(A)
    BY DEF Count
  <1> HIDE DEF A
  <1>5. IsFiniteSet(A) /\ Cardinality(A) \in Nat
    <2>1. A \in SUBSET (1..Len(s))
      BY <1>1 DEF A
    <2> QED BY <1>1, <2>1, Counted
  <1>6. /\ Cardinality(A) = 0 <=> A = {}
        /\ Cardinality(A) = 1 <=> \E x : A = {x}
    BY <1>5, FS_EmptySet, FS_Singleton
  <1>7. Cardinality(A) <= 1 <=> Cardinality(A) = 0 \/ Cardinality(A) = 1
    BY <1>5
  <1> QED BY <1>2, <1>3, <1>4, <1>5, <1>6, <1>7

-----------------------------------------------------------------------------
(* The writes in progress.                                                 *)

\* The innermost write.
LEMMA TopIs ==
    ASSUME WritesTyped
    PROVE  /\ Len(writes) \in Nat /\ DOMAIN writes = 1..Len(writes)
           /\ writes # <<>> => /\ Len(writes) \in DOMAIN writes
                               /\ Len(writes) - 1 \in Nat
                               /\ Top = writes[Len(writes)]
  BY DEF WritesTyped, Top

\* The writes without the innermost one.
LEMMA OuterIs ==
    ASSUME WritesTyped, writes # <<>>
    PROVE  /\ Outer \in Seq(Range(Outer))
           /\ Len(Outer) = Len(writes) - 1
           /\ DOMAIN Outer = 1..(Len(writes) - 1)
           /\ \A i \in 1..(Len(writes) - 1) : Outer[i] = writes[i]
  <1> DEFINE n == Len(writes) - 1
  <1>1. /\ writes \in Seq(Range(writes)) /\ n \in 0..Len(writes)
        /\ \A i \in 1..n : writes[i] \in Range(writes)
    BY TopIs DEF WritesTyped
  <1>2. Outer = SubSeq(writes, 1, n)
    BY DEF Outer
  <1> HIDE DEF n
  <1>3. /\ Outer \in Seq(Range(writes)) /\ Len(Outer) = n
        /\ \A i \in 1..n : Outer[i] = writes[i]
    BY <1>1, <1>2, SubSeqProperties, Z3
  <1>4. Outer \in Seq(Range(Outer))
    BY <1>3, SeqDef DEF Range
  <1> QED BY <1>3, <1>4 DEF n

\* The writes and one more.
LEMMA AppendIs ==
    ASSUME WritesTyped, NEW w
    PROVE  /\ Append(writes, w) \in Seq(Range(Append(writes, w)))
           /\ Len(Append(writes, w)) = Len(writes) + 1
           /\ DOMAIN Append(writes, w) = 1..(Len(writes) + 1)
           /\ \A i \in 1..Len(writes) : Append(writes, w)[i] = writes[i]
           /\ Append(writes, w)[Len(writes) + 1] = w
  <1> DEFINE ws == Append(writes, w)
  <1>1. writes \in Seq(Range(writes) \cup {w}) /\ Len(writes) \in Nat
    BY TopIs, SeqDef DEF WritesTyped
  <1>2. /\ Len(ws) = Len(writes) + 1 /\ ws \in Seq(Range(writes) \cup {w})
        /\ \A i \in 1..Len(writes) : ws[i] = writes[i]
        /\ ws[Len(writes) + 1] = w
    BY <1>1, AppendProperties
  <1> HIDE DEF ws
  <1>3. ws \in Seq(Range(ws)) /\ DOMAIN ws = 1..(Len(writes) + 1)
    BY <1>1, <1>2, SeqDef DEF Range
  <1> QED BY <1>2, <1>3 DEF ws

LEMMA LastReplaced ==
    ASSUME NEW n \in Nat, n > 0, NEW S, NEW f \in [1..n -> S], NEW w
    PROVE  /\ [f EXCEPT ![n] = w] \in [1..n -> S \cup {w}]
           /\ \A i \in 1..(n - 1) : [f EXCEPT ![n] = w][i] = f[i]
           /\ [f EXCEPT ![n] = w][n] = w
  OBVIOUS

\* The writes with another innermost one.
WithTop(w) == [writes EXCEPT ![Len(writes)] = w]

LEMMA WithTopIs ==
    ASSUME WritesTyped, writes # <<>>, NEW w
    PROVE  /\ WithTop(w) \in Seq(Range(WithTop(w))) /\ Len(WithTop(w)) = Len(writes)
           /\ DOMAIN WithTop(w) = 1..Len(writes)
           /\ \A i \in 1..(Len(writes) - 1) : WithTop(w)[i] = writes[i]
           /\ WithTop(w)[Len(writes)] = w
  <1> DEFINE n == Len(writes)
             S == Range(writes)
             ws == WithTop(w)
  <1>1. n \in Nat /\ n > 0 /\ writes \in [1..n -> S]
    BY TopIs DEF WritesTyped
  <1>2. ws = [writes EXCEPT ![n] = w]
    BY DEF WithTop
  <1> HIDE DEF n, S, ws
  <1>3. /\ ws \in [1..n -> S \cup {w}]
        /\ \A i \in 1..(n - 1) : ws[i] = writes[i]
        /\ ws[n] = w
    BY <1>1, <1>2, LastReplaced
  <1>4. ws \in [1..n -> Range(ws)]
    BY <1>3 DEF Range
  <1>5. ws \in Seq(Range(ws)) /\ Len(ws) = n /\ DOMAIN ws = 1..n
    <2> DEFINE T == Range(ws)
    <2>1. ws \in [1..n -> T] /\ n \in Nat
      BY <1>1, <1>4
    <2> HIDE DEF T
    <2>2. ws \in Seq(T)
      BY <2>1, SeqDef
    <2>3. DOMAIN ws = 1..n
      BY <2>1
    <2>4. Len(ws) = n
      BY <2>1, <2>2, <2>3, LenProperties
    <2> QED BY <2>2, <2>3, <2>4 DEF T
  <1> QED BY <1>3, <1>5 DEF n, ws

-----------------------------------------------------------------------------
(* The invariant holds initially and every action preserves it.            *)

LEMMA InitIInv == Init => IInv
  <1> SUFFICES ASSUME Init PROVE IInv
    OBVIOUS
  <1>1. writes = <<>> /\ DOMAIN writes = {} /\ Len(writes) = 0
    BY DEF Init
  <1>2. writes \in Seq(Range(writes))
    BY <1>1
  <1>3. /\ Range(<<>>) = {} /\ NoKids \in Seq(Objects)
        /\ DOMAIN NoKids = {} /\ Range(NoKids) = {}
    BY DEF Range, NoKids
  <1>4. Agree(Stores)
    BY <1>3, HierarchyAssumption DEF Init, Agree, Stores
  <1>5. StoresSound
    BY <1>1, <1>4 DEF StoresSound, Sound
  <1>6. LocksExact
    <2>1. \A o \in Objects : locks[o] = 0 /\ Announcing(writes, o) = {} /\ Adopting(writes, o) = {}
      BY <1>1 DEF Init, Announcing, Adopting
    <2>2. Cardinality({}) = 0
      BY FS_EmptySet
    <2> QED BY <2>1, <2>2 DEF LocksExact, Announcing, Adopting
  <1>7. locks \in [Objects -> Nat] /\ program \in Programs
    BY DEF Init
  <1>8. WritesTyped /\ Apart
    BY <1>1, <1>2 DEF Init, WritesTyped, Apart
  <1> QED BY <1>5, <1>6, <1>7, <1>8 DEF IInv

\* The children a write adopts are free, and no location gets one twice.
LEMMA Adoptable ==
    ASSUME IInv, NEW o \in Objects, NEW ks \in Seq(Objects), NEW h,
           PreParentCheck(o, ks, h)
    PROVE  /\ \A c \in Adopted(o, ks) : c \in Objects /\ parent[c] = None /\ locks[c] = 0
           /\ \A i, j \in DOMAIN ks : ks[i] = ks[j] => i = j
  <1>1. Agree(Stores) /\ kids[o] \in Seq(Objects)
    BY DEF IInv, StoresSound, Sound, Agree, Stores
  <1>2. \A i \in DOMAIN ks : ks[i] \in Objects
    OBVIOUS
  <1>3. ASSUME NEW c \in Adopted(o, ks)
        PROVE  c \in Objects /\ parent[c] = None /\ locks[c] = 0
    <2>1. c \in Range(ks) /\ c \notin Range(kids[o]) /\ c \in Objects
      BY <1>2 DEF Adopted, Range
    <2>2. Count(kids[o], c) = 0 /\ Count(ks, c) # 0 /\ Count(ks, c) \in Nat
      BY <1>1, <2>1, CountIs
    <2>3. Gains(o, ks, c)
      BY <2>2 DEF Gains
    <2> QED BY <2>1, <2>3 DEF PreParentCheck
  <1>4. ASSUME NEW c \in Objects
        PROVE  \A i, j \in DOMAIN ks : ks[i] = c /\ ks[j] = c => i = j
    <2>1. Count(kids[o], c) \in Nat /\ Count(ks, c) \in Nat
      BY <1>1, CountIs
    <2>2. Count(kids[o], c) <= 1
      BY <1>1, CountIs DEF Agree, Stores
    <2>3. CASE Gains(o, ks, c)
      <3>1. Count(ks, c) = Count(kids[o], c) + 1 /\ parent[c] = None
        BY <2>3 DEF PreParentCheck, GainsOne
      <3>2. c \notin Range(kids[o])
        BY <3>1, <1>1, HierarchyAssumption DEF Agree, Stores
      <3>3. Count(kids[o], c) = 0
        BY <1>1, <3>2, CountIs
      <3>4. Count(ks, c) <= 1
        BY <3>1, <3>3
      <3> QED BY <3>4, CountIs
    <2>4. CASE ~Gains(o, ks, c)
      <3>1. Count(ks, c) <= 1
        BY <2>1, <2>2, <2>4 DEF Gains
      <3> QED BY <3>1, CountIs
    <2> QED BY <2>3, <2>4
  <1> QED BY <1>2, <1>3, <1>4

\* What no write locks is not adopted by one.
LEMMA Unlocked ==
    ASSUME IInv, NEW c \in Objects, locks[c] = 0, NEW i \in DOMAIN writes
    PROVE  c \notin writes[i].new
  <1>1. Len(writes) \in Nat /\ Adopting(writes, c) \in SUBSET (1..Len(writes))
        /\ Announcing(writes, c) \in SUBSET (1..Len(writes))
    BY TopIs DEF IInv, Adopting, Announcing
  <1>2. /\ IsFiniteSet(Adopting(writes, c)) /\ Cardinality(Adopting(writes, c)) \in Nat
        /\ Cardinality(Announcing(writes, c)) \in Nat
    BY <1>1, Counted
  <1>3. locks[c] = Cardinality(Announcing(writes, c)) + Cardinality(Adopting(writes, c))
    BY DEF IInv, LocksExact, Announcing, Adopting
  <1>4. Cardinality(Adopting(writes, c)) = 0
    BY <1>2, <1>3
  <1>5. Adopting(writes, c) = {}
    BY <1>2, <1>4, FS_EmptySet
  <1> QED BY <1>5 DEF Adopting

\* Entering and leaving a write counts the locks that it takes.
LEMMA Counts ==
    ASSUME NEW l \in [Objects -> Nat], NEW above, NEW new, NEW o \in Objects
    PROVE  /\ Lock(l, above) \in [Objects -> Nat]
           /\ Lock(Lock(l, above), new) \in [Objects -> Nat]
           /\ Lock(Lock(l, above), new)[o] = l[o] + One(o \in above) + One(o \in new)
           /\ Unlock(Unlock(l, above), new)[o] = l[o] - One(o \in above) - One(o \in new)
           /\ DOMAIN Unlock(Unlock(l, above), new) = Objects
           /\ Unlock(Unlock(l, above), new)
                = [x \in Objects |-> Unlock(Unlock(l, above), new)[x]]
  <1>1. /\ Lock(l, above) \in [Objects -> Nat]
        /\ Lock(l, above)[o] = l[o] + One(o \in above)
    BY DEF Lock, One
  <1>2. /\ Lock(Lock(l, above), new) \in [Objects -> Nat]
        /\ Lock(Lock(l, above), new)[o] = Lock(l, above)[o] + One(o \in new)
    BY <1>1 DEF Lock, One
  <1>3. /\ DOMAIN Unlock(l, above) = Objects
        /\ Unlock(l, above)[o] = l[o] - One(o \in above)
    BY DEF Unlock, One
  <1>4. /\ DOMAIN Unlock(Unlock(l, above), new) = Objects
        /\ Unlock(Unlock(l, above), new)[o] = Unlock(l, above)[o] - One(o \in new)
        /\ Unlock(Unlock(l, above), new)
             = [x \in Objects |-> Unlock(Unlock(l, above), new)[x]]
    BY <1>3 DEF Unlock, One
  <1> QED BY <1>1, <1>2, <1>3, <1>4

\* What StoresSound says of the next state.
LEMMA SoundAgain ==
    ASSUME Agree(Stores'),
           \A i \in 1..Len(writes') : StandsIn(Stores', writes'[i]),
           \A m \in DOMAIN writes' :
             /\ Agree(writes'[m].saved)
             /\ \A i \in 1..(m - 1) : StandsIn(writes'[m].saved, writes'[i])
    PROVE  StoresSound'
  <1>1. Sound(Stores, Len(writes))'
    BY DEF Sound, Agree, StandsIn
  <1>2. \A m \in DOMAIN writes' : Sound(writes[m].saved, m - 1)'
    BY DEF Sound, Agree, StandsIn
  <1> QED BY <1>1, <1>2 DEF StoresSound

LEMMA BeginWriteIInv ==
    ASSUME IInv, NEW o \in Objects, NEW v \in Values, NEW ks \in Seq(Objects),
           BeginWrite(o, v, ks)
    PROVE  IInv'
  <1> DEFINE n == Len(writes)
             h == HierarchyOf(o)
             new == Adopted(o, ks)
             w == [obj |-> o, value |-> v, kids |-> ks, data |-> NewData(o, v, ks),
                   old |-> Released(o, ks), new |-> new, hierarchy |-> h,
                   locations |-> <<0>>, phase |-> "PRE", saved |-> Stores]
  <1>1. /\ UNCHANGED <<program, stores>> /\ busy' = busy \cup {o} /\ o \notin busy
        /\ locks' = Lock(Lock(locks, Range(h)), new)
        /\ writes' = Append(writes, w)
        /\ PreParentCheck(o, ks, h)
    BY DEF BeginWrite, Writable
  <1>2. /\ w.obj = o /\ w.value = v /\ w.kids = ks /\ w.old = Released(o, ks)
        /\ w.new = new /\ w.hierarchy = h /\ w.phase = "PRE" /\ w.saved = Stores
        /\ Fields(w)
    BY DEF Fields
  <1>3. n \in Nat /\ DOMAIN writes = 1..n
    BY TopIs DEF IInv
  <1>4. /\ \A c \in new : c \in Objects /\ parent[c] = None /\ locks[c] = 0
        /\ \A i, j \in DOMAIN ks : ks[i] = ks[j] => i = j
    BY <1>1, Adoptable
  <1>5. /\ Stores' = Stores
        /\ Stores.value = value /\ Stores.kids = kids /\ Stores.parent = parent
    BY <1>1 DEF stores, Stores
  <1>6. /\ writes' \in Seq(Range(writes')) /\ Len(writes') = n + 1
        /\ DOMAIN writes' = 1..(n + 1)
        /\ \A i \in 1..n : writes'[i] = writes[i]
        /\ writes'[n + 1] = w
    <2> HIDE DEF w
    <2> QED BY <1>1, AppendIs DEF IInv
  <1>7. kids[o] \in Seq(Objects) /\ Released(o, ks) \subseteq Objects
    <2>1. kids[o] \in Seq(Objects)
      BY DEF IInv, StoresSound, Sound, Agree, Stores
    <2>2. \A i \in DOMAIN kids[o] : kids[o][i] \in Objects
      BY <2>1
    <2> QED BY <2>1, <2>2 DEF Released, Range
  <1> HIDE DEF n, w, new, h
  <1>8. Computed(w)
    BY <1>2, <1>4, <1>5 DEF Computed, Released, Adopted, new
  <1>9. WritesTyped'
    <2>1. \A i \in 1..n : /\ Fields(writes[i]) /\ writes[i].obj \in Objects
                          /\ writes[i].old \subseteq Objects /\ writes[i].new \subseteq Objects
                          /\ writes[i].phase \in {"PRE", "POST"}
                          /\ writes[i].phase = "PRE" => Computed(writes[i])
      BY <1>3 DEF IInv, WritesTyped
    <2>2. /\ Fields(w) /\ w.obj \in Objects
          /\ w.old \subseteq Objects /\ w.new \subseteq Objects
          /\ w.phase \in {"PRE", "POST"}
      BY <1>2, <1>4, <1>7
    <2>3. \A i \in 1..(n + 1) : i \in 1..n \/ i = n + 1
      BY <1>3
    <2>4. \A i \in 1..(n + 1) :
             /\ Fields(writes'[i]) /\ writes'[i].obj \in Objects
             /\ writes'[i].old \subseteq Objects /\ writes'[i].new \subseteq Objects
             /\ writes'[i].phase \in {"PRE", "POST"}
             /\ writes'[i].phase = "PRE" => Computed(writes'[i])
      BY <2>1, <2>2, <2>3, <1>6, <1>8
    <2> QED BY <2>4, <1>6 DEF WritesTyped, Fields, Computed
  <1>10. Apart'
    <2>1. \A i \in 1..n : writes[i].obj # o /\ writes[i].new \cap new = {}
      <3>1. \A i \in 1..n : writes[i].obj # o
        BY <1>1, <1>3 DEF IInv, Apart
      <3>2. \A i \in 1..n : \A c \in new : c \notin writes[i].new
        BY <1>3, <1>4, Unlocked
      <3> QED BY <3>1, <3>2
    <2>2. \A i \in 1..(n + 1) : i \in 1..n \/ i = n + 1
      BY <1>3
    <2>3. busy' = {writes'[i].obj : i \in 1..(n + 1)}
      <3>1. busy = {writes[i].obj : i \in 1..n}
        BY <1>3 DEF IInv, Apart
      <3> QED BY <3>1, <2>2, <1>1, <1>2, <1>3, <1>6
    <2>4. \A i, j \in 1..n : i # j => /\ writes[i].obj # writes[j].obj
                                      /\ writes[i].new \cap writes[j].new = {}
      BY <1>3 DEF IInv, Apart
    <2>5. \A i, j \in 1..(n + 1) : i # j => /\ writes'[i].obj # writes'[j].obj
                                            /\ writes'[i].new \cap writes'[j].new = {}
      BY <2>1, <2>2, <2>4, <1>2, <1>6
    <2> QED BY <2>3, <2>5, <1>6 DEF Apart
  <1>11. StoresSound'
    <2>1. /\ Agree(Stores) /\ \A i \in 1..n : StandsIn(Stores, writes[i])
          /\ \A m \in 1..n : /\ Agree(writes[m].saved)
                             /\ \A i \in 1..(m - 1) : StandsIn(writes[m].saved, writes[i])
      BY <1>3 DEF IInv, StoresSound, Sound, n
    <2>2. StandsIn(Stores, w)
      BY <1>2, <1>4, <1>5 DEF StandsIn
    <2>3. \A i \in 1..(n + 1) : StandsIn(Stores, writes'[i])
      BY <2>1, <2>2, <1>3, <1>6
    <2>4. \A m \in 1..(n + 1) : /\ Agree(writes'[m].saved)
                                /\ \A i \in 1..(m - 1) : StandsIn(writes'[m].saved, writes'[i])
      <3>1. ASSUME NEW m \in 1..(n + 1), NEW i \in 1..(m - 1)
            PROVE  i \in 1..n /\ (m \in 1..n \/ m = n + 1) /\ (m = n + 1 => i \in 1..n)
        BY <1>3
      <3>2. ASSUME NEW m \in 1..n
            PROVE  /\ Agree(writes'[m].saved)
                   /\ \A i \in 1..(m - 1) : StandsIn(writes'[m].saved, writes'[i])
        BY <2>1, <3>1, <3>2, <1>3, <1>6
      <3>3. /\ Agree(writes'[n + 1].saved)
            /\ \A i \in 1..((n + 1) - 1) : StandsIn(writes'[n + 1].saved, writes'[i])
        BY <2>1, <1>2, <1>3, <1>6
      <3>4. \A m \in 1..(n + 1) : m \in 1..n \/ m = n + 1
        BY <1>3
      <3> QED BY <3>2, <3>3, <3>4
    <2>5. Agree(Stores') /\ \A i \in 1..Len(writes') : StandsIn(Stores', writes'[i])
      BY <2>1, <2>3, <1>5, <1>6
    <2> QED BY <2>4, <2>5, <1>6, SoundAgain
  <1>12. LocksExact' /\ locks' \in [Objects -> Nat]
    <2>1. locks \in [Objects -> Nat]
      BY DEF IInv
    <2>2. ASSUME NEW c \in Objects
          PROVE  locks'[c] = Cardinality(Announcing(writes', c)) + Cardinality(Adopting(writes', c))
      <3>1. locks[c] = Cardinality(Announcing(writes, c)) + Cardinality(Adopting(writes, c))
        BY DEF IInv, LocksExact, Announcing, Adopting
      <3>2. /\ Cardinality(Announcing(writes, c)) \in Nat /\ Cardinality(Adopting(writes, c)) \in Nat
            /\ Cardinality(Announcing(writes', c)) = Cardinality(Announcing(writes, c))
                                                       + One(c \in Range(writes'[n + 1].hierarchy))
            /\ Cardinality(Adopting(writes', c)) = Cardinality(Adopting(writes, c))
                                                     + One(c \in writes'[n + 1].new)
        <4>1. DOMAIN writes = 1..n /\ DOMAIN writes' = 1..(n + 1) /\ n \in Nat
          BY <1>3, <1>6
        <4>2. ASSUME NEW ws, NEW vs, DOMAIN ws = 1..n, DOMAIN vs = 1..(n + 1),
                     \A i \in 1..n : vs[i] = ws[i]
              PROVE  /\ Cardinality(Announcing(ws, c)) \in Nat
                     /\ Cardinality(Adopting(ws, c)) \in Nat
                     /\ Cardinality(Announcing(vs, c)) = Cardinality(Announcing(ws, c))
                                                           + One(c \in Range(vs[n + 1].hierarchy))
                     /\ Cardinality(Adopting(vs, c)) = Cardinality(Adopting(ws, c))
                                                         + One(c \in vs[n + 1].new)
          BY <4>1, <4>2, OneMore, ZenonT(60)
        <4> QED BY <4>1, <4>2, <1>6, Zenon
      <3>3. locks'[c] = locks[c] + One(c \in Range(h)) + One(c \in new)
        BY <1>1, <2>1, Counts
      <3>4. One(c \in Range(h)) \in Nat /\ One(c \in new) \in Nat
        BY DEF One
      <3> QED BY <3>1, <3>2, <3>3, <3>4, <1>2, <1>6
    <2>3. locks' \in [Objects -> Nat]
      BY <1>1, <2>1, Counts
    <2> QED BY <2>2, <2>3 DEF LocksExact, Announcing, Adopting
  <1>13. program' \in Programs
    BY <1>1 DEF IInv
  <1> QED BY <1>9, <1>10, <1>11, <1>12, <1>13 DEF IInv

\* The innermost write goes on: what it commits, locks and goes back to stays.
LEMMA GoesOn ==
    ASSUME IInv, writes # <<>>, NEW w,
           writes' = WithTop(w),
           Fields(w), w.phase \in {"PRE", "POST"}, w.phase = "PRE" => Computed(w),
           w.obj = Top.obj, w.old = Top.old, w.new = Top.new,
           w.hierarchy = Top.hierarchy, w.saved = Top.saved,
           UNCHANGED <<program, locks, busy>>,
           Agree(Stores'), StandsIn(Stores', w),
           \A i \in 1..(Len(writes) - 1) : StandsIn(Stores', writes[i])
    PROVE  IInv'
  <1> DEFINE n == Len(writes)
  <1>1. /\ n \in Nat /\ DOMAIN writes = 1..n /\ n \in 1..n /\ Top = writes[n]
        /\ \A i \in 1..n : i \in 1..(n - 1) \/ i = n
        /\ \A m \in 1..n : \A i \in 1..(m - 1) : i \in 1..(n - 1)
        /\ \A i \in 1..(n - 1) : i \in 1..n
    <2>1. n \in Nat /\ DOMAIN writes = 1..n /\ n \in 1..n /\ Top = writes[n]
      BY TopIs DEF IInv
    <2> HIDE DEF n
    <2> QED BY <2>1
  <1>2. /\ writes' \in Seq(Range(writes')) /\ Len(writes') = n
        /\ DOMAIN writes' = 1..n
        /\ \A i \in 1..(n - 1) : writes'[i] = writes[i]
        /\ writes'[n] = w
    <2>1. WritesTyped
      BY DEF IInv
    <2> QED BY <2>1, WithTopIs
  <1> HIDE DEF n
  <1>3. \A i \in 1..n : /\ writes'[i].obj = writes[i].obj /\ writes'[i].old = writes[i].old
                        /\ writes'[i].new = writes[i].new
                        /\ writes'[i].hierarchy = writes[i].hierarchy
                        /\ writes'[i].saved = writes[i].saved
    BY <1>1, <1>2
  <1>4. WritesTyped'
    <2>1. \A i \in 1..n : /\ Fields(writes[i]) /\ writes[i].obj \in Objects
                          /\ writes[i].old \subseteq Objects /\ writes[i].new \subseteq Objects
                          /\ writes[i].phase \in {"PRE", "POST"}
                          /\ writes[i].phase = "PRE" => Computed(writes[i])
      BY <1>1 DEF IInv, WritesTyped
    <2>2. \A i \in 1..n : /\ Fields(writes'[i])
                          /\ writes'[i].phase \in {"PRE", "POST"}
                          /\ writes'[i].phase = "PRE" => Computed(writes'[i])
      BY <2>1, <1>1, <1>2
    <2>3. \A i \in 1..n : /\ writes'[i].obj \in Objects
                          /\ writes'[i].old \subseteq Objects /\ writes'[i].new \subseteq Objects
      BY <2>1, <1>3
    <2> QED BY <2>2, <2>3, <1>2 DEF WritesTyped, Fields, Computed
  <1>5. Apart'
    <2>1. /\ busy' = {writes[i].obj : i \in 1..n}
          /\ \A i, j \in 1..n : i # j => /\ writes[i].obj # writes[j].obj
                                         /\ writes[i].new \cap writes[j].new = {}
      BY <1>1 DEF IInv, Apart
    <2>2. busy' = {writes'[i].obj : i \in 1..n}
      BY <2>1, <1>3
    <2>3. \A i, j \in 1..n : i # j => /\ writes'[i].obj # writes'[j].obj
                                      /\ writes'[i].new \cap writes'[j].new = {}
      BY <2>1, <1>3
    <2> QED BY <2>2, <2>3, <1>2 DEF Apart
  <1>6. StoresSound'
    <2>1. \A m \in 1..n : /\ Agree(writes[m].saved)
                          /\ \A i \in 1..(m - 1) : StandsIn(writes[m].saved, writes[i])
      BY <1>1 DEF IInv, StoresSound, Sound
    <2>2. \A m \in 1..n : /\ Agree(writes'[m].saved)
                          /\ \A i \in 1..(m - 1) : StandsIn(writes'[m].saved, writes'[i])
      <3>1. \A m \in 1..n : writes'[m].saved = writes[m].saved
        BY <1>3
      <3>2. \A m \in 1..n : \A i \in 1..(m - 1) : writes'[i] = writes[i]
        BY <1>1, <1>2
      <3> QED BY <2>1, <3>1, <3>2
    <2>3. \A i \in 1..n : StandsIn(Stores', writes'[i])
      BY <1>1, <1>2 DEF n
    <2> QED BY <2>2, <2>3, <1>2, SoundAgain
  <1>7. LocksExact'
    <2>1. ASSUME NEW c \in Objects
          PROVE  locks'[c] = Cardinality(Announcing(writes', c)) + Cardinality(Adopting(writes', c))
      <3>1. /\ Announcing(writes', c) = Announcing(writes, c)
            /\ Adopting(writes', c) = Adopting(writes, c)
        BY <1>1, <1>2, <1>3 DEF Announcing, Adopting
      <3>2. locks[c] = Cardinality(Announcing(writes, c)) + Cardinality(Adopting(writes, c))
        BY DEF IInv, LocksExact, Announcing, Adopting
      <3> QED BY <3>1, <3>2
    <2> QED BY <2>1 DEF LocksExact, Announcing, Adopting
  <1>8. program' \in Programs /\ locks' \in [Objects -> Nat]
    BY DEF IInv
  <1> QED BY <1>4, <1>5, <1>6, <1>7, <1>8 DEF IInv

\* The innermost write is left, and the stores suit the others.
LEMMA LeaveIIs ==
    ASSUME IInv, writes # <<>>, Leave, program' = program,
           Agree(Stores'),
           \A i \in 1..(Len(writes) - 1) : StandsIn(Stores', writes[i])
    PROVE  IInv'
  <1> DEFINE n == Len(writes) - 1
  <1>1. /\ n \in Nat /\ DOMAIN writes = 1..(n + 1) /\ n + 1 \in 1..(n + 1)
        /\ Top = writes[n + 1]
        /\ \A i \in 1..(n + 1) : i \in 1..n \/ i = n + 1
        /\ \A m \in 1..n : \A i \in 1..(m - 1) : i \in 1..n
        /\ \A i \in 1..n : i \in 1..(n + 1)
    <2>1. n \in Nat /\ DOMAIN writes = 1..(n + 1) /\ Top = writes[n + 1]
      BY TopIs DEF IInv
    <2> HIDE DEF n
    <2> QED BY <2>1
  <1>2. /\ busy' = busy \ {Top.obj}
        /\ locks' = Unlock(Unlock(locks, Range(Top.hierarchy)), Top.new)
    BY DEF Leave
  <1>3. /\ writes' \in Seq(Range(writes')) /\ Len(writes') = n
        /\ DOMAIN writes' = 1..n
        /\ \A i \in 1..n : writes'[i] = writes[i]
    BY OuterIs DEF IInv, Leave
  <1> HIDE DEF n
  <1>4. WritesTyped'
    <2>1. \A i \in 1..n : /\ Fields(writes[i]) /\ writes[i].obj \in Objects
                          /\ writes[i].old \subseteq Objects /\ writes[i].new \subseteq Objects
                          /\ writes[i].phase \in {"PRE", "POST"}
                          /\ writes[i].phase = "PRE" => Computed(writes[i])
      BY <1>1 DEF IInv, WritesTyped
    <2>2. \A i \in 1..n : /\ Fields(writes'[i]) /\ writes'[i].obj \in Objects
                          /\ writes'[i].old \subseteq Objects /\ writes'[i].new \subseteq Objects
                          /\ writes'[i].phase \in {"PRE", "POST"}
                          /\ writes'[i].phase = "PRE" => Computed(writes'[i])
      BY <2>1, <1>3
    <2> QED BY <2>2, <1>3 DEF WritesTyped, Fields, Computed
  <1>5. Apart'
    <2>1. /\ busy = {writes[i].obj : i \in 1..(n + 1)}
          /\ \A i, j \in 1..(n + 1) : i # j => /\ writes[i].obj # writes[j].obj
                                               /\ writes[i].new \cap writes[j].new = {}
      BY <1>1 DEF IInv, Apart
    <2>2. \A i \in 1..n : i # n + 1
      BY <1>1
    <2>3. busy' = {writes'[i].obj : i \in 1..n}
      BY <2>1, <2>2, <1>1, <1>2, <1>3
    <2> QED BY <2>1, <2>3, <1>1, <1>3 DEF Apart
  <1>6. StoresSound'
    <2>1. \A m \in 1..n : /\ Agree(writes[m].saved)
                          /\ \A i \in 1..(m - 1) : StandsIn(writes[m].saved, writes[i])
      BY <1>1 DEF IInv, StoresSound, Sound
    <2>2. \A m \in 1..n : /\ Agree(writes'[m].saved)
                          /\ \A i \in 1..(m - 1) : StandsIn(writes'[m].saved, writes'[i])
      BY <2>1, <1>1, <1>3
    <2>3. \A i \in 1..n : StandsIn(Stores', writes'[i])
      BY <1>3 DEF n
    <2> QED BY <2>2, <2>3, <1>3, SoundAgain
  <1>7. LocksExact' /\ locks' \in [Objects -> Nat]
    <2>1. locks \in [Objects -> Nat]
      BY DEF IInv
    <2>2. ASSUME NEW c \in Objects
          PROVE  /\ locks'[c] = Cardinality(Announcing(writes', c)) + Cardinality(Adopting(writes', c))
                 /\ locks'[c] \in Nat
      <3>1. locks[c] = Cardinality(Announcing(writes, c)) + Cardinality(Adopting(writes, c))
        BY DEF IInv, LocksExact, Announcing, Adopting
      <3>2. /\ Cardinality(Announcing(writes', c)) \in Nat /\ Cardinality(Adopting(writes', c)) \in Nat
            /\ Cardinality(Announcing(writes, c)) = Cardinality(Announcing(writes', c))
                                                      + One(c \in Range(writes[n + 1].hierarchy))
            /\ Cardinality(Adopting(writes, c)) = Cardinality(Adopting(writes', c))
                                                    + One(c \in writes[n + 1].new)
        <4>1. \A i \in 1..n : writes[i] = writes'[i]
          BY <1>3
        <4>2. DOMAIN writes' = 1..n /\ DOMAIN writes = 1..(n + 1) /\ n \in Nat
          BY <1>1, <1>3
        <4>3. ASSUME NEW ws, NEW vs, DOMAIN ws = 1..n, DOMAIN vs = 1..(n + 1),
                     \A i \in 1..n : vs[i] = ws[i]
              PROVE  /\ Cardinality(Announcing(ws, c)) \in Nat
                     /\ Cardinality(Adopting(ws, c)) \in Nat
                     /\ Cardinality(Announcing(vs, c)) = Cardinality(Announcing(ws, c))
                                                           + One(c \in Range(vs[n + 1].hierarchy))
                     /\ Cardinality(Adopting(vs, c)) = Cardinality(Adopting(ws, c))
                                                         + One(c \in vs[n + 1].new)
          BY <4>2, <4>3, OneMore, ZenonT(60)
        <4> QED BY <4>1, <4>2, <4>3, Zenon
      <3>3. locks'[c] = locks[c] - One(c \in Range(Top.hierarchy)) - One(c \in Top.new)
        BY <1>2, <2>1, Counts
      <3>4. One(c \in Range(Top.hierarchy)) \in Nat /\ One(c \in Top.new) \in Nat
        BY DEF One
      <3> QED BY <3>1, <3>2, <3>3, <3>4, <1>1
    <2>3. locks' = [x \in Objects |-> locks'[x]]
      BY <1>2 DEF Unlock
    <2> QED BY <2>2, <2>3 DEF LocksExact, Announcing, Adopting
  <1>8. program' \in Programs
    BY DEF IInv
  <1> QED BY <1>4, <1>5, <1>6, <1>7, <1>8 DEF IInv

\* What is known of the innermost write, of the others and of the stores.
LEMMA Facts ==
    ASSUME IInv, writes # <<>>
    PROVE  /\ Fields(Top) /\ Top.obj \in Objects
           /\ Top.old \subseteq Objects /\ Top.new \subseteq Objects
           /\ Top.phase \in {"PRE", "POST"} /\ Top.phase = "PRE" => Computed(Top)
           /\ Agree(Stores) /\ StandsIn(Stores, Top)
           /\ Agree(Top.saved)
           /\ \A i \in 1..(Len(writes) - 1) :
                /\ StandsIn(Stores, writes[i]) /\ StandsIn(Top.saved, writes[i])
                /\ writes[i].obj # Top.obj /\ writes[i].new \cap Top.new = {}
  <1> DEFINE n == Len(writes)
  <1>1. n \in Nat /\ DOMAIN writes = 1..n /\ n \in 1..n /\ Top = writes[n]
    BY TopIs DEF IInv
  <1> HIDE DEF n
  <1>2. \A i \in 1..(n - 1) : i \in 1..n /\ i # n
    BY <1>1
  <1>3. /\ Agree(Stores) /\ \A i \in 1..n : StandsIn(Stores, writes[i])
        /\ Agree(writes[n].saved) /\ \A i \in 1..(n - 1) : StandsIn(writes[n].saved, writes[i])
    BY <1>1 DEF IInv, StoresSound, Sound, n
  <1>4. /\ Fields(Top) /\ Top.obj \in Objects
        /\ Top.old \subseteq Objects /\ Top.new \subseteq Objects
        /\ Top.phase \in {"PRE", "POST"} /\ Top.phase = "PRE" => Computed(Top)
    BY <1>1 DEF IInv, WritesTyped
  <1>5. \A i \in 1..(n - 1) : writes[i].obj # Top.obj /\ writes[i].new \cap Top.new = {}
    BY <1>1, <1>2 DEF IInv, Apart
  <1>6. \A i \in 1..(n - 1) : StandsIn(Stores, writes[i]) /\ StandsIn(Top.saved, writes[i])
    BY <1>1, <1>2, <1>3
  <1> QED BY <1>1, <1>3, <1>4, <1>5, <1>6 DEF n

LEMMA NextReceiverIInv ==
    ASSUME IInv, NextReceiver
    PROVE  IInv'
  <1> DEFINE i == Len(Top.locations) + 1
             l == Append(Top.locations, Location(Top.hierarchy[i], Top.hierarchy[i - 1]))
             w == [Top EXCEPT !.locations = l]
  <1>1. writes # <<>> /\ Top.phase = "PRE" /\ UNCHANGED <<program, stores, locks, busy>>
    BY DEF NextReceiver
  <1>2. writes' = WithTop(w)
    BY DEF NextReceiver, WithTop, Top
  <1>3. Fields(Top) /\ Computed(Top) /\ StandsIn(Stores, Top) /\ Agree(Stores)
        /\ \A j \in 1..(Len(writes) - 1) : StandsIn(Stores, writes[j])
    BY <1>1, Facts
  <1>4. Stores' = Stores
    BY <1>1 DEF stores, Stores
  <1> HIDE DEF l
  <1>5. /\ w.obj = Top.obj /\ w.old = Top.old /\ w.new = Top.new /\ w.saved = Top.saved
        /\ w.hierarchy = Top.hierarchy /\ w.phase = "PRE" /\ w.value = Top.value
        /\ w.kids = Top.kids /\ Fields(w)
    BY <1>1, <1>3 DEF Fields
  <1> HIDE DEF w
  <1>6. Computed(w) /\ StandsIn(Stores, w)
    BY <1>1, <1>3, <1>5 DEF Computed, StandsIn
  <1> QED BY <1>1, <1>2, <1>3, <1>4, <1>5, <1>6, GoesOn

\* After the commit of a pending write the stores agree.
LEMMA CommitAgrees ==
    ASSUME IInv, Commit
    PROVE  Agree(Stores')
  <1> DEFINE w == Top
             o == Top.obj
  <1>1. /\ writes # <<>> /\ w.phase = "PRE"
        /\ value' = [value EXCEPT ![o] = w.value]
        /\ kids' = [kids EXCEPT ![o] = w.kids]
        /\ parent' = [c \in Objects |-> IF c \in w.new THEN o
                                        ELSE IF c \in w.old THEN None ELSE parent[c]]
        /\ children' = [children EXCEPT ![o] = (@ \ w.old) \cup w.new]
    BY DEF Commit, NewParent
  <1>2. /\ o \in Objects /\ w.old \subseteq Objects /\ w.new \subseteq Objects
        /\ Computed(w) /\ StandsIn(Stores, w) /\ Agree(Stores)
    BY <1>1, Facts
  <1>3. /\ value \in [Objects -> Values] /\ kids \in [Objects -> Seq(Objects)]
        /\ parent \in [Objects -> Objects \cup {None}]
        /\ children \in [Objects -> SUBSET Objects]
        /\ \A x \in Objects : children[x] = Range(kids[x])
        /\ \A x \in Objects : \A i, j \in DOMAIN kids[x] : kids[x][i] = kids[x][j] => i = j
        /\ \A x, c \in Objects : parent[c] = x <=> c \in children[x]
    BY <1>2 DEF Agree, Stores
  <1>4. /\ w.value \in Values /\ w.kids \in Seq(Objects)
        /\ \A i, j \in DOMAIN w.kids : w.kids[i] = w.kids[j] => i = j
        /\ w.old = children[o] \ Range(w.kids)
        /\ w.new = Range(w.kids) \ children[o]
        /\ \A c \in w.new : parent[c] = None
    BY <1>1, <1>2, <1>3 DEF Computed, StandsIn, Stores
  <1> HIDE DEF w, o
  <1>5. (children[o] \ w.old) \cup w.new = Range(w.kids)
    BY <1>4
  <1>6. /\ value' \in [Objects -> Values] /\ kids' \in [Objects -> Seq(Objects)]
        /\ parent' \in [Objects -> Objects \cup {None}]
        /\ children' \in [Objects -> SUBSET Objects]
    BY <1>1, <1>2, <1>3, <1>4
  <1>7. /\ kids'[o] = w.kids /\ children'[o] = Range(w.kids)
        /\ \A x \in Objects \ {o} : kids'[x] = kids[x] /\ children'[x] = children[x]
    BY <1>1, <1>2, <1>3, <1>5
  <1>8. \A x \in Objects : children'[x] = Range(kids'[x])
    BY <1>3, <1>7
  <1>9. \A x \in Objects : \A i, j \in DOMAIN kids'[x] : kids'[x][i] = kids'[x][j] => i = j
    <2>1. ASSUME NEW x \in Objects
          PROVE  \A i, j \in DOMAIN kids'[x] : kids'[x][i] = kids'[x][j] => i = j
      <3>1. kids'[x] = w.kids \/ kids'[x] = kids[x]
        BY <1>7
      <3> QED BY <3>1, <1>3, <1>4
    <2> QED BY <2>1
  <1>10. ASSUME NEW x \in Objects, NEW c \in Objects
         PROVE  parent'[c] = x <=> c \in children'[x]
    <2>1. CASE c \in w.new
      <3>1. parent'[c] = o /\ c \in Range(w.kids) /\ parent[c] = None
        BY <2>1, <1>1, <1>4
      <3>2. c \notin children[x]
        BY <3>1, <1>3, HierarchyAssumption
      <3> QED BY <3>1, <3>2, <1>7
    <2>2. CASE c \in w.old
      <3>1. parent'[c] = None /\ c \notin Range(w.kids) /\ parent[c] = o
        BY <2>2, <1>1, <1>2, <1>3, <1>4
      <3>2. x # o => c \notin children[x]
        BY <3>1, <1>2, <1>3
      <3>3. None # x
        BY HierarchyAssumption
      <3> QED BY <3>1, <3>2, <3>3, <1>7
    <2>3. CASE c \notin w.new /\ c \notin w.old
      <3>1. parent'[c] = parent[c]
        BY <2>3, <1>1
      <3>2. c \in Range(w.kids) <=> c \in children[o]
        BY <2>3, <1>4
      <3>3. CASE x = o
        BY <3>1, <3>2, <3>3, <1>3, <1>7
      <3>4. CASE x # o
        BY <3>1, <3>4, <1>3, <1>7
      <3> QED BY <3>3, <3>4
    <2> QED BY <2>1, <2>2, <2>3
  <1> QED BY <1>6, <1>8, <1>9, <1>10 DEF Agree, Stores

LEMMA CommitIInv ==
    ASSUME IInv, Commit
    PROVE  IInv'
  <1> DEFINE w == [Top EXCEPT !.phase = "POST"]
  <1>1. /\ writes # <<>> /\ Top.phase = "PRE" /\ UNCHANGED <<program, locks, busy>>
        /\ value' = [value EXCEPT ![Top.obj] = Top.value]
        /\ kids' = [kids EXCEPT ![Top.obj] = Top.kids]
        /\ parent' = NewParent(Top)
    BY DEF Commit
  <1>2. writes' = WithTop(w)
    BY DEF Commit, WithTop, Top
  <1>3. /\ Fields(Top) /\ Agree(Stores) /\ Top.new \subseteq Objects
        /\ \A i \in 1..(Len(writes) - 1) :
             /\ StandsIn(Stores, writes[i])
             /\ writes[i].obj # Top.obj /\ writes[i].new \cap Top.new = {}
    BY <1>1, Facts
  <1>4. Agree(Stores')
    BY CommitAgrees
  <1>5. /\ w.obj = Top.obj /\ w.old = Top.old /\ w.new = Top.new /\ w.saved = Top.saved
        /\ w.hierarchy = Top.hierarchy /\ w.phase = "POST" /\ Fields(w)
    BY <1>3 DEF Fields
  <1> HIDE DEF w
  <1>6. StandsIn(Stores', w)
    BY <1>5 DEF StandsIn
  <1>7. ASSUME NEW i \in 1..(Len(writes) - 1)
        PROVE  StandsIn(Stores', writes[i])
    <2>1. SUFFICES ASSUME writes[i].phase = "PRE"
                   PROVE  /\ value'[writes[i].obj] = writes[i].saved.value[writes[i].obj]
                          /\ kids'[writes[i].obj] = writes[i].saved.kids[writes[i].obj]
                          /\ \A c \in writes[i].new : parent'[c] = None
      BY DEF StandsIn, Stores
    <2>2. /\ value[writes[i].obj] = writes[i].saved.value[writes[i].obj]
          /\ kids[writes[i].obj] = writes[i].saved.kids[writes[i].obj]
          /\ \A c \in writes[i].new : parent[c] = None
          /\ writes[i].obj # Top.obj /\ writes[i].new \cap Top.new = {}
      BY <2>1, <1>3 DEF StandsIn, Stores
    <2>3. writes[i].obj \in Objects /\ writes[i].new \subseteq Objects
      BY <1>1, TopIs DEF IInv, WritesTyped
    <2>4. value \in [Objects -> Values] /\ kids \in [Objects -> Seq(Objects)]
      BY <1>3 DEF Agree, Stores
    <2>5. value'[writes[i].obj] = value[writes[i].obj] /\ kids'[writes[i].obj] = kids[writes[i].obj]
      BY <1>1, <2>2, <2>3, <2>4
    <2>6. \A c \in writes[i].new : parent'[c] = None
      BY <1>1, <2>2, <2>3 DEF NewParent
    <2> QED BY <2>2, <2>5, <2>6
  <1> QED BY <1>1, <1>2, <1>4, <1>5, <1>6, <1>7, GoesOn

LEMMA EndWriteIInv ==
    ASSUME IInv, EndWrite
    PROVE  IInv'
  <1>1. writes # <<>> /\ Leave /\ UNCHANGED <<program, stores>>
    BY DEF EndWrite
  <1>2. Stores' = Stores
    BY <1>1 DEF stores, Stores
  <1>3. Agree(Stores) /\ \A i \in 1..(Len(writes) - 1) : StandsIn(Stores, writes[i])
    BY <1>1, Facts
  <1> QED BY <1>1, <1>2, <1>3, LeaveIIs

LEMMA FailWriteIInv ==
    ASSUME IInv, FailWrite
    PROVE  IInv'
  <1>1. /\ writes # <<>> /\ Leave /\ program' = program
        /\ value' = Top.saved.value /\ kids' = Top.saved.kids
        /\ parent' = Top.saved.parent /\ children' = Top.saved.children
    BY DEF FailWrite
  <1>2. Agree(Top.saved) /\ \A i \in 1..(Len(writes) - 1) : StandsIn(Top.saved, writes[i])
    BY <1>1, Facts
  <1>3. /\ Stores'.value = Top.saved.value /\ Stores'.kids = Top.saved.kids
        /\ Stores'.parent = Top.saved.parent /\ Stores'.children = Top.saved.children
    BY <1>1 DEF Stores
  <1>4. Agree(Stores')
    BY <1>2, <1>3 DEF Agree
  <1>5. \A i \in 1..(Len(writes) - 1) : StandsIn(Stores', writes[i])
    BY <1>2, <1>3 DEF StandsIn
  <1> QED BY <1>1, <1>4, <1>5, LeaveIIs

LEMMA NextIInv == IInv /\ [Next]_vars => IInv'
  <1> SUFFICES ASSUME IInv, [Next]_vars PROVE IInv'
    OBVIOUS
  <1>1. ASSUME NEW o \in program.objects, NEW v \in program.values,
               NEW ks \in Arrangements, BeginWrite(o, v, ks)
        PROVE  IInv'
    <2>1. program.objects \subseteq Objects /\ program.values \subseteq Values
      BY HierarchyAssumption DEF IInv
    <2>2. PICK n \in 0..MaxKids : ks \in [1..n -> program.objects]
      BY DEF Arrangements
    <2>3. ks \in Seq(Objects)
      BY <2>1, <2>2, SeqDef
    <2> QED BY <1>1, <2>1, <2>3, BeginWriteIInv
  <1>2. CASE UNCHANGED vars
    <2>1. /\ Stores' = Stores /\ writes' = writes /\ locks' = locks /\ busy' = busy
          /\ program' = program
      BY <1>2 DEF vars, Stores
    <2>2. WritesTyped' /\ Apart'
      BY <2>1 DEF IInv, WritesTyped, Fields, Computed, Apart
    <2>3. StoresSound'
      BY <2>1 DEF IInv, StoresSound, Sound, Agree, StandsIn
    <2>4. LocksExact'
      BY <2>1 DEF IInv, LocksExact
    <2> QED BY <2>1, <2>2, <2>3, <2>4 DEF IInv
  <1> QED BY <1>1, <1>2, NextReceiverIInv, CommitIInv, EndWriteIInv, FailWriteIInv DEF Next

-----------------------------------------------------------------------------

LEMMA Invariance == Spec => []IInv
  <1> QED BY InitIInv, NextIInv, PTL DEF Spec

\* An object is in one location of at most one object, its parent, and the state,
\* the children and the parent references say the same, whatever reactions write
\* and whatever fails (_applications.py, __write).
THEOREM AlwaysParentsAgree == Spec => []ParentsAgree
  <1>1. IInv => ParentsAgree
    <2> SUFFICES ASSUME IInv PROVE ParentsAgree
      OBVIOUS
    <2>1. Agree(Stores)
      BY DEF IInv, StoresSound, Sound
    <2>2. /\ value \in [Objects -> Values] /\ kids \in [Objects -> Seq(Objects)]
          /\ parent \in [Objects -> Objects \cup {None}]
          /\ children \in [Objects -> SUBSET Objects]
          /\ \A o \in Objects : children[o] = Range(kids[o])
          /\ \A o \in Objects : \A i, j \in DOMAIN kids[o] : kids[o][i] = kids[o][j] => i = j
          /\ \A o, c \in Objects : parent[c] = o <=> c \in children[o]
      BY <2>1 DEF Agree, Stores
    <2>3. busy \subseteq Objects
      BY DEF IInv, Apart, WritesTyped
    <2>4. \A i \in DOMAIN writes :
            /\ writes[i].obj \in Objects
            /\ writes[i].old \subseteq Objects /\ writes[i].new \subseteq Objects
            /\ writes[i].phase \in {"PRE", "POST"}
      BY DEF IInv, WritesTyped
    <2>5. TypeOK
      BY <2>2, <2>3, <2>4 DEF TypeOK, IInv
    <2> QED BY <2>2, <2>5 DEF ParentsAgree
  <1> QED BY <1>1, Invariance, PTL

\* The locks are those of the writes in progress: no lock leaks, and leaving a write
\* releases none that another one holds (__hierarchy_context, __new_children_context).
THEOREM AlwaysLocksExact == Spec => []LocksExact
  <1>1. IInv => LocksExact
    BY DEF IInv
  <1> QED BY <1>1, Invariance, PTL

\* No update is lost: the state that a pending write replaces is the one it was
\* computed from, and the children it adopts are free (__write, from its checks to
\* its commit).
THEOREM AlwaysPendingStands == Spec => []PendingStands
  <1>1. IInv => PendingStands
    <2> SUFFICES ASSUME IInv PROVE PendingStands
      OBVIOUS
    <2>1. \A i \in DOMAIN writes : StandsIn(Stores, writes[i])
      BY TopIs DEF IInv, StoresSound, Sound
    <2> QED BY <2>1 DEF PendingStands, StandsIn, Stores
  <1> QED BY <1>1, Invariance, PTL

-----------------------------------------------------------------------------
(* Induction.                                                              *)

LEMMA LeastNumber ==
    ASSUME NEW T \in SUBSET Nat, T # {}
    PROVE  \E x \in T : \A y \in T : x <= y
  <1> DEFINE R == OpToRel(<, Nat)
  <1>1. IsWellFoundedOn(R, Nat)
    BY NatLessThanWellFounded
  <1>2. \A x, y \in Nat : <<x, y>> \in R <=> x < y
    BY DEF OpToRel
  <1> HIDE DEF R
  <1>3. \E x \in T : \A y \in T : ~ (<<y, x>> \in R)
    BY <1>1, WFMin
  <1>4. \A x, y \in T : <<y, x>> \in R <=> y < x
    BY <1>2
  <1>5. \A x, y \in T : ~ (y < x) => x <= y
    OBVIOUS
  <1> QED BY <1>3, <1>4, <1>5

LEMMA Induct ==
    ASSUME NEW S, 0 \in S, \A n \in Nat : n \in S => n + 1 \in S
    PROVE  \A n \in Nat : n \in S
  <1> DEFINE T == {n \in Nat : n \notin S}
  <1> SUFFICES ASSUME T # {} PROVE FALSE
    OBVIOUS
  <1>1. PICK x \in T : \A y \in T : x <= y
    BY LeastNumber
  <1>2. x # 0 /\ x - 1 \in Nat /\ x - 1 \notin T
    BY <1>1
  <1> QED BY <1>2

-----------------------------------------------------------------------------
(* Chains of parents.                                                      *)

\* Each object of s is the parent of the one before it, p being the parents.
Chain(p, s) ==
    /\ s \in Seq(Objects) /\ s # <<>>
    /\ \A i \in 1..(Len(s) - 1) : p[s[i]] = s[i + 1]

\* ... up to an object without parent.
Complete(p, s) == Chain(p, s) /\ p[s[Len(s)]] = None

LEMMA ChainIs ==
    ASSUME NEW p, NEW s, Chain(p, s)
    PROVE  /\ Len(s) \in Nat \ {0} /\ DOMAIN s = 1..Len(s)
           /\ \A i \in 1..Len(s) : s[i] \in Objects
           /\ s[1] \in Objects /\ s[Len(s)] \in Objects
  <1>1. s \in Seq(Objects) /\ s # <<>>
    BY DEF Chain
  <1>2. Len(s) \in Nat \ {0}
    BY <1>1, EmptySeq
  <1> QED BY <1>1, <1>2

\* A chain follows the complete one that begins with the same object.
LEMMA SameChain ==
    ASSUME NEW p, NEW s, NEW u, Complete(p, s), Chain(p, u), s[1] = u[1]
    PROVE  Len(u) <= Len(s) /\ \A i \in 1..Len(u) : u[i] = s[i]
  <1> DEFINE S == {n \in Nat : n + 1 <= Len(u) => n + 1 <= Len(s) /\ u[n + 1] = s[n + 1]}
  <1>1. /\ Len(s) \in Nat \ {0} /\ Len(u) \in Nat \ {0}
        /\ \A i \in 1..Len(u) : u[i] \in Objects
        /\ \A i \in 1..(Len(u) - 1) : p[u[i]] = u[i + 1]
        /\ \A i \in 1..(Len(s) - 1) : p[s[i]] = s[i + 1]
        /\ p[s[Len(s)]] = None
    BY ChainIs DEF Complete, Chain
  <1>2. 0 \in S
    BY <1>1
  <1>3. ASSUME NEW n \in Nat, n \in S
        PROVE  n + 1 \in S
    <2> SUFFICES ASSUME (n + 1) + 1 <= Len(u)
                 PROVE  (n + 1) + 1 <= Len(s) /\ u[(n + 1) + 1] = s[(n + 1) + 1]
      OBVIOUS
    <2>1. n + 1 <= Len(s) /\ u[n + 1] = s[n + 1]
      BY <1>1, <1>3
    <2>2. n + 1 \in 1..(Len(u) - 1)
      BY <1>1
    <2>3. (n + 1) + 1 \in 1..Len(u)
      BY <1>1
    <2>4. p[u[n + 1]] = u[(n + 1) + 1]
      BY <1>1, <2>2
    <2>5. p[s[n + 1]] # None
      BY <1>1, <2>1, <2>3, <2>4, HierarchyAssumption
    <2>6. n + 1 # Len(s)
      BY <1>1, <2>5
    <2>7. n + 1 \in 1..(Len(s) - 1)
      BY <1>1, <2>1, <2>6
    <2>8. p[s[n + 1]] = s[(n + 1) + 1]
      BY <1>1, <2>7
    <2> QED BY <1>1, <2>1, <2>4, <2>7, <2>8
  <1> HIDE DEF S
  <1>4. \A n \in Nat : n \in S
    BY <1>2, <1>3, Induct
  <1>5. \A i \in 1..Len(u) : i <= Len(s) /\ u[i] = s[i]
    <2> TAKE i \in 1..Len(u)
    <2>1. PICK n \in Nat : i = n + 1
      <3>1. i - 1 \in Nat /\ i = (i - 1) + 1
        OBVIOUS
      <3> QED BY <3>1
    <2>2. n \in S
      BY <1>4
    <2> QED BY <2>1, <2>2 DEF S
  <1> QED BY <1>1, <1>5

LEMMA Suffix ==
    ASSUME NEW p, NEW s, Complete(p, s), NEW i \in 1..Len(s)
    PROVE  LET u == SubSeq(s, i, Len(s))
           IN  Complete(p, u) /\ u[1] = s[i] /\ Len(u) = Len(s) - i + 1
  <1> DEFINE n == Len(s)
             u == SubSeq(s, i, n)
  <1>1. n \in Nat /\ i \in 1..n /\ s \in Seq(Objects) /\ \A j \in 1..n : s[j] \in Objects
    BY ChainIs DEF Complete, Chain
  <1>2. /\ \A j \in 1..(n - 1) : p[s[j]] = s[j + 1]
        /\ p[s[n]] = None
    BY DEF Complete, Chain
  <1> HIDE DEF n
  <1>3. /\ u \in Seq(Objects) /\ Len(u) = n - i + 1
        /\ \A j \in 1..(n - i + 1) : u[j] = s[i + j - 1]
    BY <1>1, SubSeqProperties
  <1> HIDE DEF u
  <1>4. Len(u) \in Nat /\ Len(u) > 0
    BY <1>1, <1>3
  <1>5. u # <<>>
    BY <1>4
  <1>6. \A j \in 1..(Len(u) - 1) : p[u[j]] = u[j + 1]
    <2> TAKE j \in 1..(Len(u) - 1)
    <2>1. j \in 1..(n - i + 1) /\ j + 1 \in 1..(n - i + 1) /\ i + j - 1 \in 1..(n - 1)
      BY <1>1, <1>3
    <2>2. i + (j + 1) - 1 = (i + j - 1) + 1
      BY <1>1
    <2>3. u[j] = s[i + j - 1] /\ u[j + 1] = s[i + (j + 1) - 1]
      BY <1>3, <2>1
    <2>4. p[s[i + j - 1]] = s[(i + j - 1) + 1]
      BY <1>2, <2>1
    <2> QED BY <2>2, <2>3, <2>4
  <1>7. u[1] = s[i] /\ u[Len(u)] = s[n]
    <2>1. 1 \in 1..(n - i + 1) /\ Len(u) \in 1..(n - i + 1) /\ i + 1 - 1 = i /\ i + Len(u) - 1 = n
      BY <1>1, <1>3
    <2>2. u[1] = s[i + 1 - 1] /\ u[Len(u)] = s[i + Len(u) - 1]
      BY <1>3, <2>1
    <2> QED BY <2>1, <2>2
  <1> QED BY <1>2, <1>3, <1>5, <1>6, <1>7 DEF Complete, Chain, u, n

\* Nothing is twice in a complete chain.
LEMMA ChainOnce ==
    ASSUME NEW p, NEW s, Complete(p, s), NEW i \in 1..Len(s), NEW j \in 1..Len(s), s[i] = s[j]
    PROVE  i = j
  <1>1. ASSUME NEW k \in 1..Len(s), NEW l \in 1..Len(s), s[k] = s[l]
        PROVE  l <= k
    <2> DEFINE u == SubSeq(s, k, Len(s))
               v == SubSeq(s, l, Len(s))
    <2>1. Complete(p, u) /\ u[1] = s[k] /\ Len(u) = Len(s) - k + 1
      BY Suffix
    <2>2. Complete(p, v) /\ v[1] = s[l] /\ Len(v) = Len(s) - l + 1
      BY Suffix
    <2> HIDE DEF u, v
    <2>3. Len(u) <= Len(v)
      BY <1>1, <2>1, <2>2, SameChain DEF Complete
    <2>4. Len(s) \in Nat
      BY ChainIs DEF Complete
    <2> QED BY <2>1, <2>2, <2>3, <2>4
  <1>2. i <= j /\ j <= i
    BY <1>1
  <1> QED BY <1>2

LEMMA ChainShort ==
    ASSUME NEW p, NEW s, Complete(p, s)
    PROVE  Len(s) <= Cardinality(Objects)
  <1>1. Len(s) \in Nat /\ \A i \in 1..Len(s) : s[i] \in Objects
    BY ChainIs DEF Complete
  <1>2. s \in [1..Len(s) -> Objects]
    BY <1>1 DEF Complete, Chain
  <1>3. IsFiniteSet(1..Len(s)) /\ Cardinality(1..Len(s)) = Len(s)
    BY <1>1, FS_Interval
  <1>4. IsFiniteSet(Objects) /\ Cardinality(Objects) \in Nat
    BY HierarchyAssumption, FS_CardinalityType
  <1> SUFFICES ASSUME Cardinality(Objects) < Len(s) PROVE FALSE
    BY <1>1, <1>4
  <1>5. \E i, j \in 1..Len(s) : i # j /\ s[i] = s[j]
    BY <1>2, <1>3, <1>4, FS_PigeonHole
  <1> QED BY <1>5, ChainOnce

-----------------------------------------------------------------------------
(* HierarchyOf.                                                            *)

\* The definition of up in HierarchyOf.
Climb(o, f, n) ==
    IF n = 0 THEN <<o>>
    ELSE LET p == parent[f[n - 1][Len(f[n - 1])]]
         IN  IF p = None \/ Len(f[n - 1]) < n THEN f[n - 1]
             ELSE Append(f[n - 1], p)

\* The recursion is one: there is a function as it says.
LEMMA Climbing ==
    ASSUME NEW o, NEW N \in Nat
    PROVE  \E f : f = [m \in 0..N |-> Climb(o, f, m)]
  <1> DEFINE S == {n \in Nat : \E f : f = [m \in 0..n |-> Climb(o, f, m)]}
  <1>1. 0 \in S
    <2> DEFINE f == [m \in 0..0 |-> <<o>>]
    <2>1. \A m \in 0..0 : Climb(o, f, m) = <<o>>
      BY DEF Climb
    <2>2. f = [m \in 0..0 |-> Climb(o, f, m)]
      BY <2>1
    <2> QED BY <2>2
  <1>2. ASSUME NEW n \in Nat, n \in S
        PROVE  n + 1 \in S
    <2>1. PICK f : f = [m \in 0..n |-> Climb(o, f, m)]
      BY <1>2
    <2> DEFINE g == [m \in 0..(n + 1) |-> IF m = n + 1 THEN Climb(o, f, n + 1) ELSE f[m]]
    <2>2. \A m \in 0..n : g[m] = f[m] /\ f[m] = Climb(o, f, m)
      BY <2>1
    <2>3. g[n + 1] = Climb(o, f, n + 1)
      OBVIOUS
    <2>4. \A m \in 0..(n + 1) : m - 1 \in 0..n \/ m = 0
      OBVIOUS
    <2>5. \A m \in 0..(n + 1) : Climb(o, g, m) = Climb(o, f, m)
      <3> HIDE DEF g
      <3> QED BY <2>2, <2>4 DEF Climb
    <2>6. \A m \in 0..(n + 1) : g[m] = Climb(o, g, m)
      <3> HIDE DEF g
      <3> TAKE m \in 0..(n + 1)
      <3>1. m \in 0..n \/ m = n + 1
        OBVIOUS
      <3> QED BY <2>2, <2>3, <2>5, <3>1
    <2>7. g = [m \in 0..(n + 1) |-> g[m]]
      OBVIOUS
    <2> HIDE DEF g
    <2>8. g = [m \in 0..(n + 1) |-> Climb(o, g, m)]
      BY <2>6, <2>7
    <2> QED BY <2>8
  <1> HIDE DEF S
  <1>3. N \in S
    BY <1>1, <1>2, Induct
  <1> QED BY <1>3 DEF S

\* What HierarchyOf returns is a chain from the object, and is only cut off if it is
\* longer than there are objects.
LEMMA HierarchyClimbs ==
    ASSUME parent \in [Objects -> Objects \cup {None}], NEW o \in Objects
    PROVE  LET h == HierarchyOf(o)
           IN  /\ Chain(parent, h) /\ h[1] = o
               /\ parent[h[Len(h)]] = None \/ Len(h) = Cardinality(Objects) + 1
  <1> DEFINE N == Cardinality(Objects)
             U == CHOOSE f : f = [m \in 0..N |-> Climb(o, f, m)]
  <1>1. N \in Nat
    BY HierarchyAssumption, FS_CardinalityType
  <1>2. HierarchyOf(o) = U[N]
    BY DEF HierarchyOf, Climb
  <1>3. U = [m \in 0..N |-> Climb(o, U, m)]
    <2> HIDE DEF N
    <2> QED BY <1>1, Climbing
  <1> HIDE DEF U, N
  <1>4. \A m \in 0..N : U[m] = Climb(o, U, m)
    BY <1>3
  <1> DEFINE Right(n, h) == /\ Chain(parent, h) /\ h[1] = o
                            /\ (parent[h[Len(h)]] = None /\ Len(h) <= n + 1) \/ Len(h) = n + 1
             S == {n \in Nat : n <= N => Right(n, U[n])}
  <1>5. 0 \in S
    <2>1. U[0] = <<o>>
      BY <1>1, <1>4 DEF Climb
    <2>2. Chain(parent, <<o>>)
      BY DEF Chain
    <2> QED BY <2>1, <2>2
  <1>6. ASSUME NEW n \in Nat, n \in S
        PROVE  n + 1 \in S
    <2> SUFFICES ASSUME n + 1 <= N PROVE Right(n + 1, U[n + 1])
      OBVIOUS
    <2> DEFINE h == U[n]
               q == parent[h[Len(h)]]
    <2>1. Chain(parent, h) /\ h[1] = o /\ ((q = None /\ Len(h) <= n + 1) \/ Len(h) = n + 1)
      BY <1>1, <1>6
    <2>2. U[n + 1] = IF q = None \/ Len(h) < n + 1 THEN h ELSE Append(h, q)
      BY <1>1, <1>4 DEF Climb
    <2>3. /\ Len(h) \in Nat \ {0} /\ h \in Seq(Objects) /\ h[Len(h)] \in Objects
          /\ \A i \in 1..(Len(h) - 1) : parent[h[i]] = h[i + 1]
      BY <2>1, ChainIs DEF Chain
    <2>4. q \in Objects \cup {None}
      BY <2>3
    <2> HIDE DEF h
    <2>5. CASE q = None
      BY <2>1, <2>2, <2>3, <2>5
    <2>6. CASE q # None
      <3> DEFINE u == Append(h, q)
      <3>1. /\ Len(h) = n + 1 /\ q \in Objects /\ U[n + 1] = u
        BY <2>1, <2>2, <2>3, <2>4, <2>6
      <3>2. q = parent[h[Len(h)]]
        OBVIOUS
      <3> HIDE DEF q
      <3>3. /\ u \in Seq(Objects) /\ Len(u) = n + 2 /\ u[n + 2] = q
            /\ \A i \in 1..(n + 1) : u[i] = h[i]
        BY <2>3, <3>1, AppendProperties
      <3> HIDE DEF u
      <3>4. \A i \in 1..(Len(u) - 1) : parent[u[i]] = u[i + 1]
        <4> TAKE i \in 1..(Len(u) - 1)
        <4>1. i \in 1..(n + 1) /\ (i = n + 1 \/ i \in 1..n)
          BY <3>3
        <4>2. CASE i = n + 1
          <5>1. u[i] = h[Len(h)] /\ u[i + 1] = q
            BY <3>1, <3>3, <4>1, <4>2
          <5> QED BY <3>2, <5>1
        <4>3. CASE i \in 1..n
          <5>1. i + 1 \in 1..(n + 1) /\ i \in 1..(Len(h) - 1)
            BY <3>1, <4>3
          <5> QED BY <2>3, <3>3, <4>1, <5>1
        <4> QED BY <4>1, <4>2, <4>3
      <3>5. u # <<>> /\ u[1] = o
        BY <2>1, <3>3
      <3>6. Chain(parent, u)
        BY <3>3, <3>4, <3>5 DEF Chain
      <3> QED BY <3>1, <3>3, <3>5, <3>6
    <2> QED BY <2>5, <2>6
  <1> HIDE DEF S
  <1>7. N \in S
    BY <1>1, <1>5, <1>6, Induct
  <1>8. Right(N, U[N])
    BY <1>1, <1>7 DEF S
  <1> QED BY <1>2, <1>8 DEF N

\* The one complete chain from an object is its hierarchy.
LEMMA HierarchyIs ==
    ASSUME parent \in [Objects -> Objects \cup {None}], NEW s, Complete(parent, s)
    PROVE  HierarchyOf(s[1]) = s
  <1> DEFINE h == HierarchyOf(s[1])
  <1>1. s[1] \in Objects /\ Len(s) \in Nat \ {0} /\ s \in Seq(Objects)
    BY ChainIs DEF Complete, Chain
  <1>2. /\ Chain(parent, h) /\ h[1] = s[1]
        /\ parent[h[Len(h)]] = None \/ Len(h) = Cardinality(Objects) + 1
    BY <1>1, HierarchyClimbs
  <1> HIDE DEF h
  <1>3. Len(h) <= Len(s) /\ \A i \in 1..Len(h) : h[i] = s[i]
    BY <1>2, SameChain
  <1>4. Len(s) <= Cardinality(Objects) /\ Cardinality(Objects) \in Nat
    BY ChainShort, HierarchyAssumption, FS_CardinalityType
  <1>5. Len(h) \in Nat /\ h \in Seq(Objects)
    BY <1>2, ChainIs DEF Chain
  <1>6. Complete(parent, h)
    BY <1>1, <1>2, <1>3, <1>4, <1>5 DEF Complete
  <1>7. Len(s) <= Len(h)
    BY <1>2, <1>6, SameChain DEF Complete
  <1>8. Len(s) = Len(h)
    BY <1>1, <1>3, <1>5, <1>7
  <1>9. h = s
    BY <1>1, <1>3, <1>5, <1>8, SeqEqual
  <1> QED BY <1>9 DEF h

-----------------------------------------------------------------------------
(* The inductive invariant.                                                *)

\* Parents p without a cycle, and roots without parent.
Rooted(p) ==
    /\ \A o \in Objects : \E s : Complete(p, s) /\ s[1] = o
    /\ \A r \in Roots : p[r] = None

\* The hierarchy that a write announced itself to is still there.
Announced(p, w) == Complete(p, w.hierarchy) /\ w.hierarchy[1] = w.obj

ForestIn(p, n) == Rooted(p) /\ \A i \in 1..n : Announced(p, writes[i])

\* The children a pending write adopts or releases are no roots, and above none of
\* the objects being written: they were not locked.
Moved(w) == w.old \cup w.new
LockedOut ==
    \A n \in DOMAIN writes : writes[n].phase = "PRE" =>
        /\ Moved(writes[n]) \cap Roots = {}
        /\ \A i \in 1..n : Moved(writes[n]) \cap Range(writes[i].hierarchy) = {}

ForestSound ==
    /\ ForestIn(parent, Len(writes))
    /\ \A n \in DOMAIN writes : ForestIn(writes[n].saved.parent, n - 1)
    /\ LockedOut

LEMMA RangeIs ==
    ASSUME NEW p, NEW s, Chain(p, s), NEW x
    PROVE  x \in Range(s) <=> \E i \in 1..Len(s) : s[i] = x
  BY ChainIs DEF Range

\* A chain whose objects keep their parents.
LEMMA KeptChain ==
    ASSUME NEW p, NEW q, NEW s, Complete(p, s), \A i \in 1..Len(s) : q[s[i]] = p[s[i]]
    PROVE  Complete(q, s)
  <1>1. Len(s) \in Nat \ {0} /\ Chain(p, s) /\ p[s[Len(s)]] = None
    BY ChainIs DEF Complete
  <1>2. Len(s) \in 1..Len(s) /\ \A i \in 1..(Len(s) - 1) : i \in 1..Len(s)
    BY <1>1
  <1> QED BY <1>1, <1>2 DEF Complete, Chain

\* The beginning of a chain, and a complete chain that goes on from there.
LEMMA JoinedChain ==
    ASSUME NEW p, NEW u, NEW h, Chain(p, u), Complete(p, h), p[u[Len(u)]] = h[1]
    PROVE  Complete(p, u \o h) /\ (u \o h)[1] = u[1]
  <1> DEFINE v == u \o h
             m == Len(u)
             n == Len(h)
  <1>1. /\ u \in Seq(Objects) /\ h \in Seq(Objects) /\ m \in Nat \ {0} /\ n \in Nat \ {0}
        /\ \A i \in 1..(m - 1) : p[u[i]] = u[i + 1]
        /\ \A i \in 1..(n - 1) : p[h[i]] = h[i + 1]
        /\ p[u[m]] = h[1] /\ p[h[n]] = None
    BY ChainIs DEF Complete, Chain
  <1>2. /\ v \in Seq(Objects) /\ Len(v) = m + n
        /\ \A i \in 1..m : v[i] = u[i]
        /\ \A i \in 1..n : v[m + i] = h[i]
    <2>1. v \in Seq(Objects) /\ Len(v) = m + n
      BY <1>1, ConcatProperties
    <2>2. \A i \in 1..(m + n) : v[i] = IF i <= m THEN u[i] ELSE h[i - m]
      BY <1>1, ConcatProperties
    <2> HIDE DEF v, m, n
    <2>3. \A i \in 1..n : m + i \in 1..(m + n) /\ ~ (m + i <= m) /\ (m + i) - m = i
      BY <1>1
    <2>4. \A i \in 1..m : i \in 1..(m + n) /\ i <= m
      BY <1>1
    <2> QED BY <2>1, <2>2, <2>3, <2>4
  <1> HIDE DEF v, m, n
  <1>3. \A i \in 1..(Len(v) - 1) : p[v[i]] = v[i + 1]
    <2> TAKE i \in 1..(Len(v) - 1)
    <2>1. CASE i \in 1..(m - 1)
      <3>1. i \in 1..m /\ i + 1 \in 1..m
        BY <1>1, <2>1
      <3> QED BY <1>1, <1>2, <2>1, <3>1
    <2>2. CASE i = m
      <3>1. v[i] = u[m] /\ v[m + 1] = h[1]
        BY <1>1, <1>2, <2>2
      <3> QED BY <1>1, <2>2, <3>1
    <2>3. CASE i \in (m + 1)..(m + n - 1)
      <3>1. PICK k \in 1..(n - 1) : i = m + k
        <4>1. i - m \in 1..(n - 1) /\ i = m + (i - m)
          BY <1>1, <2>3, SMTT(60)
        <4> QED BY <4>1
      <3>2. k \in 1..n /\ k + 1 \in 1..n /\ i + 1 = m + (k + 1)
        BY <1>1, <3>1
      <3>3. v[i] = h[k] /\ v[m + (k + 1)] = h[k + 1]
        BY <1>2, <3>1, <3>2
      <3> QED BY <1>1, <3>1, <3>2, <3>3
    <2>4. i \in 1..(m + n - 1)
      BY <1>1, <1>2
    <2> QED BY <1>1, <2>1, <2>2, <2>3, <2>4
  <1>4. v[Len(v)] = h[n] /\ v[1] = u[1] /\ v # <<>>
    <2>1. v[m + n] = h[n] /\ v[1] = u[1]
      BY <1>1, <1>2
    <2>2. Len(v) > 0
      BY <1>1, <1>2
    <2> QED BY <1>2, <2>1, <2>2
  <1>5. Complete(p, v) /\ v[1] = u[1]
    BY <1>1, <1>2, <1>3, <1>4 DEF Complete, Chain
  <1> QED BY <1>5 DEF v

\* Adopting and releasing children that are not above the object makes no cycle.
LEMMA AdoptionRooted ==
    ASSUME NEW p, NEW h, Rooted(p), Complete(p, h),
           NEW old \in SUBSET Objects, NEW new \in SUBSET Objects,
           (old \cup new) \cap Range(h) = {}, (old \cup new) \cap Roots = {},
           NEW q, q = [c \in Objects |-> IF c \in new THEN h[1] ELSE IF c \in old THEN None ELSE p[c]]
    PROVE  Rooted(q)
  <1>1. \A c \in Objects : c \notin old \cup new => q[c] = p[c]
    OBVIOUS
  <1>2. Complete(q, h)
    <2>1. \A i \in 1..Len(h) : h[i] \in Objects /\ h[i] \in Range(h)
      BY ChainIs, RangeIs DEF Complete
    <2>2. \A i \in 1..Len(h) : q[h[i]] = p[h[i]]
      BY <1>1, <2>1
    <2> QED BY <2>2, KeptChain
  <1>3. ASSUME NEW o \in Objects
        PROVE  \E s : Complete(q, s) /\ s[1] = o
    <2>1. PICK s : Complete(p, s) /\ s[1] = o
      BY DEF Rooted
    <2>2. /\ Len(s) \in Nat \ {0} /\ s \in Seq(Objects)
          /\ \A i \in 1..Len(s) : s[i] \in Objects
          /\ \A i \in 1..(Len(s) - 1) : p[s[i]] = s[i + 1]
      BY <2>1, ChainIs DEF Complete, Chain
    <2> DEFINE K == {k \in 1..Len(s) : s[k] \in old \cup new}
    <2>3. CASE K = {}
      <3>1. \A i \in 1..Len(s) : q[s[i]] = p[s[i]]
        BY <1>1, <2>2, <2>3
      <3> QED BY <2>1, <3>1, KeptChain
    <2>4. CASE K # {}
      <3>1. PICK k \in K : \A i \in K : k <= i
        <4>1. K \in SUBSET Nat
          OBVIOUS
        <4> HIDE DEF K
        <4> QED BY <2>4, <4>1, LeastNumber
      <3>2. k \in 1..Len(s) /\ s[k] \in old \cup new
        OBVIOUS
      <3>3. \A i \in 1..(k - 1) : q[s[i]] = s[i + 1]
        <4> TAKE i \in 1..(k - 1)
        <4>1. i \in 1..Len(s) /\ i \in 1..(Len(s) - 1) /\ i \notin K
          BY <2>2, <3>1, <3>2
        <4> QED BY <1>1, <2>2, <4>1
      <3> HIDE DEF K
      <3> DEFINE u == SubSeq(s, 1, k)
      <3>4. u \in Seq(Objects) /\ Len(u) = k /\ \A i \in 1..k : u[i] = s[i]
        <4>1. k \in 0..Len(s) /\ k \in Nat
          BY <3>2
        <4> QED BY <2>2, <4>1, SubSeqProperties
      <3> HIDE DEF u
      <3>5. Chain(q, u)
        <4>1. \A i \in 1..(Len(u) - 1) : q[u[i]] = u[i + 1]
          <5> TAKE i \in 1..(Len(u) - 1)
          <5>1. i \in 1..k /\ i + 1 \in 1..k /\ i \in 1..(k - 1)
            BY <3>2, <3>4
          <5> QED BY <3>3, <3>4, <5>1
        <4>2. u # <<>>
          BY <3>2, <3>4
        <4> QED BY <3>4, <4>1, <4>2 DEF Chain
      <3>6. u[1] = o /\ u[Len(u)] = s[k] /\ s[k] \in Objects
        BY <2>1, <2>2, <3>2, <3>4
      <3>7. CASE s[k] \in new
        <4>1. q[u[Len(u)]] = h[1]
          BY <3>6, <3>7
        <4>2. Complete(q, u \o h) /\ (u \o h)[1] = u[1]
          BY <1>2, <3>5, <4>1, JoinedChain
        <4> QED BY <3>6, <4>2
      <3>8. CASE s[k] \notin new
        <4>1. q[u[Len(u)]] = None
          BY <3>2, <3>6, <3>8
        <4> QED BY <3>5, <3>6, <4>1 DEF Complete
      <3> QED BY <3>7, <3>8
    <2> QED BY <2>3, <2>4
  <1>4. \A r \in Roots : q[r] = None
    BY <1>1, HierarchyAssumption DEF Rooted
  <1> QED BY <1>3, <1>4 DEF Rooted

-----------------------------------------------------------------------------
(* Every action preserves it.                                              *)

LEMMA ParentIs ==
    ASSUME IInv
    PROVE  /\ parent \in [Objects -> Objects \cup {None}]
           /\ Stores.parent = parent
  BY DEF IInv, StoresSound, Sound, Agree, Stores

\* What a write adopts or releases is not locked.
LEMMA MovedUnlocked ==
    ASSUME IInv, NEW o \in Objects, NEW ks \in Seq(Objects), NEW h, PreParentCheck(o, ks, h),
           NEW c \in Released(o, ks) \cup Adopted(o, ks)
    PROVE  /\ c \notin Roots /\ c \notin Range(h)
           /\ \A i \in DOMAIN writes : c \notin Range(writes[i].hierarchy)
  <1>1. kids[o] \in Seq(Objects)
    BY DEF IInv, StoresSound, Sound, Agree, Stores
  <1>2. c \in Objects
    BY <1>1 DEF Released, Adopted, Range
  <1>3. /\ Count(kids[o], c) \in Nat /\ Count(ks, c) \in Nat
        /\ Count(kids[o], c) = 0 <=> c \notin Range(kids[o])
        /\ Count(ks, c) = 0 <=> c \notin Range(ks)
    BY <1>1, CountIs
  <1>4. Gains(o, ks, c) \/ Loses(o, ks, c)
    BY <1>3 DEF Released, Adopted, Gains, Loses
  <1>5. c \notin Roots /\ c \notin Range(h) /\ locks[c] = 0
    BY <1>2, <1>4 DEF PreParentCheck
  <1>6. Announcing(writes, c) = {}
    <2>1. Len(writes) \in Nat /\ Announcing(writes, c) \in SUBSET (1..Len(writes))
          /\ Adopting(writes, c) \in SUBSET (1..Len(writes))
      BY TopIs DEF IInv, Announcing, Adopting
    <2>2. /\ IsFiniteSet(Announcing(writes, c)) /\ Cardinality(Announcing(writes, c)) \in Nat
          /\ Cardinality(Adopting(writes, c)) \in Nat
      BY <2>1, Counted
    <2>3. locks[c] = Cardinality(Announcing(writes, c)) + Cardinality(Adopting(writes, c))
      BY <1>2 DEF IInv, LocksExact, Announcing, Adopting
    <2>4. Cardinality(Announcing(writes, c)) = 0
      BY <1>5, <2>2, <2>3
    <2> QED BY <2>2, <2>4, FS_EmptySet
  <1> QED BY <1>5, <1>6 DEF Announcing

LEMMA ForestInit == Init => ForestSound
  <1> SUFFICES ASSUME Init PROVE ForestSound
    OBVIOUS
  <1>1. writes = <<>> /\ DOMAIN writes = {} /\ Len(writes) = 0 /\ parent = [o \in Objects |-> None]
    BY DEF Init
  <1>2. ASSUME NEW o \in Objects
        PROVE  \E s : Complete(parent, s) /\ s[1] = o
    <2>1. Complete(parent, <<o>>)
      BY <1>1 DEF Complete, Chain
    <2> QED BY <2>1
  <1>3. Rooted(parent)
    BY <1>1, <1>2, HierarchyAssumption DEF Rooted
  <1> QED BY <1>1, <1>3 DEF ForestSound, ForestIn, LockedOut

LEMMA ForestBegin ==
    ASSUME IInv, ForestSound, NEW o \in Objects, NEW v, NEW ks \in Seq(Objects), BeginWrite(o, v, ks)
    PROVE  ForestSound'
  <1> DEFINE n == Len(writes)
             h == HierarchyOf(o)
             w == [obj |-> o, value |-> v, kids |-> ks, data |-> NewData(o, v, ks),
                   old |-> Released(o, ks), new |-> Adopted(o, ks), hierarchy |-> h,
                   locations |-> <<0>>, phase |-> "PRE", saved |-> Stores]
  <1>1. /\ parent' = parent /\ writes' = Append(writes, w) /\ PreParentCheck(o, ks, h)
    BY DEF BeginWrite, stores
  <1>2. /\ w.obj = o /\ w.hierarchy = h /\ Moved(w) = Released(o, ks) \cup Adopted(o, ks)
        /\ w.saved.parent = parent
    BY ParentIs DEF Moved
  <1> HIDE DEF w
  <1>3. /\ n \in Nat /\ DOMAIN writes = 1..n /\ Len(writes') = n + 1 /\ DOMAIN writes' = 1..(n + 1)
        /\ \A i \in 1..n : writes'[i] = writes[i]
        /\ writes'[n + 1] = w
    BY <1>1, TopIs, AppendIs DEF IInv
  <1>4. Announced(parent, w)
    <2>1. PICK s : Complete(parent, s) /\ s[1] = o
      BY DEF ForestSound, ForestIn, Rooted
    <2>2. h = s
      BY <2>1, ParentIs, HierarchyIs
    <2> QED BY <1>2, <2>1, <2>2 DEF Announced
  <1> HIDE DEF h
  <1>5. \A c \in Moved(w) : /\ c \notin Roots /\ c \notin Range(h)
                            /\ \A i \in 1..n : c \notin Range(writes[i].hierarchy)
    BY <1>1, <1>2, <1>3, MovedUnlocked
  <1>6. /\ Rooted(parent) /\ \A i \in 1..n : Announced(parent, writes[i])
        /\ \A m \in 1..n : Rooted(writes[m].saved.parent)
                             /\ \A i \in 1..(m - 1) : Announced(writes[m].saved.parent, writes[i])
        /\ \A m \in 1..n : writes[m].phase = "PRE" =>
              /\ Moved(writes[m]) \cap Roots = {}
              /\ \A i \in 1..m : Moved(writes[m]) \cap Range(writes[i].hierarchy) = {}
    BY <1>3 DEF ForestSound, ForestIn, LockedOut
  <1> HIDE DEF n
  <1>7. /\ \A m \in 1..(n + 1) : m \in 1..n \/ m = n + 1
        /\ \A m \in 1..n : \A i \in 1..m : i \in 1..n
        /\ \A m \in 1..n : \A i \in 1..(m - 1) : i \in 1..n
        /\ (n + 1) - 1 = n
    BY <1>3
  <1>8. \A i \in 1..(n + 1) : Announced(parent, writes'[i])
    BY <1>3, <1>4, <1>6, <1>7
  <1>9. ASSUME NEW m \in 1..(n + 1)
        PROVE  Rooted(writes'[m].saved.parent)
                 /\ \A i \in 1..(m - 1) : Announced(writes'[m].saved.parent, writes'[i])
    <2>1. CASE m \in 1..n
      BY <1>3, <1>6, <1>7, <2>1
    <2>2. CASE m = n + 1
      <3>1. writes'[m].saved.parent = parent /\ \A i \in 1..(m - 1) : writes'[i] = writes[i] /\ i \in 1..n
        BY <1>2, <1>3, <1>7, <2>2
      <3> QED BY <1>6, <3>1
    <2> QED BY <1>7, <2>1, <2>2
  <1>10. ASSUME NEW m \in 1..(n + 1), writes'[m].phase = "PRE"
         PROVE  /\ Moved(writes'[m]) \cap Roots = {}
                /\ \A i \in 1..m : Moved(writes'[m]) \cap Range(writes'[i].hierarchy) = {}
    <2>1. CASE m \in 1..n
      BY <1>3, <1>6, <1>7, <1>10, <2>1
    <2>2. CASE m = n + 1
      <3>1. Moved(w) \cap Roots = {} /\ Moved(w) \cap Range(h) = {}
            /\ \A i \in 1..n : Moved(w) \cap Range(writes[i].hierarchy) = {}
        BY <1>5
      <3> QED BY <1>2, <1>3, <1>7, <2>2, <3>1
    <2> QED BY <1>7, <2>1, <2>2
  <1>11. ForestIn(parent, Len(writes))'
    BY <1>1, <1>3, <1>6, <1>8 DEF ForestIn
  <1>12. \A m \in DOMAIN writes' : ForestIn(writes[m].saved.parent, m - 1)'
    BY <1>3, <1>9 DEF ForestIn
  <1>13. LockedOut'
    BY <1>3, <1>10 DEF LockedOut, Moved
  <1> QED BY <1>11, <1>12, <1>13 DEF ForestSound

\* The innermost write goes on, and nothing is above the objects being written that
\* was not.
LEMMA ForestGoesOn ==
    ASSUME IInv, ForestSound, writes # <<>>, NEW w, writes' = WithTop(w),
           w.obj = Top.obj, w.hierarchy = Top.hierarchy, w.old = Top.old, w.new = Top.new,
           w.saved = Top.saved, w.phase = "PRE" => Top.phase = "PRE",
           ForestIn(parent', Len(writes))
    PROVE  ForestSound'
  <1> DEFINE n == Len(writes)
  <1>1. n \in Nat /\ DOMAIN writes = 1..n /\ n \in 1..n /\ Top = writes[n]
    BY TopIs DEF IInv
  <1>2. /\ Len(writes') = n /\ DOMAIN writes' = 1..n
        /\ \A i \in 1..(n - 1) : writes'[i] = writes[i]
        /\ writes'[n] = w
    <2>1. WritesTyped
      BY DEF IInv
    <2> QED BY <2>1, WithTopIs
  <1>3. /\ Rooted(parent') /\ \A i \in 1..n : Announced(parent', writes[i])
        /\ \A m \in 1..n : Rooted(writes[m].saved.parent)
                             /\ \A i \in 1..(m - 1) : Announced(writes[m].saved.parent, writes[i])
        /\ \A m \in 1..n : writes[m].phase = "PRE" =>
              /\ Moved(writes[m]) \cap Roots = {}
              /\ \A i \in 1..m : Moved(writes[m]) \cap Range(writes[i].hierarchy) = {}
    BY <1>1 DEF ForestSound, ForestIn, LockedOut
  <1> HIDE DEF n
  <1>4. /\ \A m \in 1..n : m \in 1..(n - 1) \/ m = n
        /\ \A m \in 1..n : \A i \in 1..m : i \in 1..n
        /\ \A m \in 1..n : \A i \in 1..(m - 1) : i \in 1..n
    BY <1>1
  <1>5. \A i \in 1..n : /\ writes'[i].obj = writes[i].obj /\ writes'[i].hierarchy = writes[i].hierarchy
                        /\ Moved(writes'[i]) = Moved(writes[i])
                        /\ writes'[i].saved = writes[i].saved
                        /\ writes'[i].phase = "PRE" => writes[i].phase = "PRE"
    BY <1>1, <1>2, <1>4 DEF Moved
  <1>6. \A i \in 1..n : \A p : Announced(p, writes'[i]) <=> Announced(p, writes[i])
    BY <1>5 DEF Announced
  <1>7. ForestIn(parent, Len(writes))'
    BY <1>2, <1>3, <1>6 DEF ForestIn
  <1>8. \A m \in DOMAIN writes' : ForestIn(writes[m].saved.parent, m - 1)'
    BY <1>2, <1>3, <1>4, <1>5, <1>6 DEF ForestIn
  <1>9. LockedOut'
    <2>1. \A m \in 1..n : writes'[m].phase = "PRE" =>
              /\ Moved(writes'[m]) \cap Roots = {}
              /\ \A i \in 1..m : Moved(writes'[m]) \cap Range(writes'[i].hierarchy) = {}
      BY <1>3, <1>4, <1>5
    <2> QED BY <1>2, <2>1 DEF LockedOut, Moved
  <1> QED BY <1>7, <1>8, <1>9 DEF ForestSound

LEMMA ForestLeave ==
    ASSUME IInv, ForestSound, writes # <<>>, Leave, ForestIn(parent', Len(writes) - 1)
    PROVE  ForestSound'
  <1> DEFINE n == Len(writes) - 1
  <1>1. n \in Nat /\ DOMAIN writes = 1..(n + 1)
    BY TopIs DEF IInv
  <1>2. Len(writes') = n /\ DOMAIN writes' = 1..n /\ \A i \in 1..n : writes'[i] = writes[i]
    BY OuterIs DEF IInv, Leave
  <1>3. Rooted(parent') /\ \A i \in 1..n : Announced(parent', writes[i])
    BY DEF ForestIn
  <1> HIDE DEF n
  <1>4. /\ \A m \in 1..(n + 1) : Rooted(writes[m].saved.parent)
                             /\ \A i \in 1..(m - 1) : Announced(writes[m].saved.parent, writes[i])
        /\ \A m \in 1..(n + 1) : writes[m].phase = "PRE" =>
              /\ Moved(writes[m]) \cap Roots = {}
              /\ \A i \in 1..m : Moved(writes[m]) \cap Range(writes[i].hierarchy) = {}
    BY <1>1 DEF ForestSound, ForestIn, LockedOut
  <1>5. /\ \A m \in 1..n : m \in 1..(n + 1)
        /\ \A m \in 1..n : \A i \in 1..m : i \in 1..n
        /\ \A m \in 1..n : \A i \in 1..(m - 1) : i \in 1..n
    BY <1>1
  <1>6. ForestIn(parent, Len(writes))'
    BY <1>2, <1>3 DEF ForestIn
  <1>7. \A m \in DOMAIN writes' : ForestIn(writes[m].saved.parent, m - 1)'
    BY <1>2, <1>4, <1>5 DEF ForestIn
  <1>8. LockedOut'
    <2>1. \A m \in 1..n : writes'[m].phase = "PRE" =>
              /\ Moved(writes'[m]) \cap Roots = {}
              /\ \A i \in 1..m : Moved(writes'[m]) \cap Range(writes'[i].hierarchy) = {}
      BY <1>2, <1>4, <1>5
    <2> QED BY <1>2, <2>1 DEF LockedOut, Moved
  <1> QED BY <1>6, <1>7, <1>8 DEF ForestSound

LEMMA ForestCommit ==
    ASSUME IInv, ForestSound, Commit
    PROVE  ForestSound'
  <1> DEFINE w == [Top EXCEPT !.phase = "POST"]
  <1>1. writes # <<>> /\ Top.phase = "PRE" /\ parent' = NewParent(Top)
    BY DEF Commit
  <1>2. writes' = WithTop(w)
    BY DEF Commit, WithTop, Top
  <1>3. Fields(Top) /\ Top.old \subseteq Objects /\ Top.new \subseteq Objects
    BY <1>1, Facts
  <1>4. /\ w.obj = Top.obj /\ w.old = Top.old /\ w.new = Top.new /\ w.saved = Top.saved
        /\ w.hierarchy = Top.hierarchy /\ w.phase = "POST"
    BY <1>3 DEF Fields
  <1> HIDE DEF w
  <1>5. /\ Len(writes) \in Nat /\ DOMAIN writes = 1..Len(writes) /\ Len(writes) \in DOMAIN writes
        /\ Top = writes[Len(writes)]
    BY <1>1, TopIs DEF IInv
  <1>6. /\ Rooted(parent) /\ \A i \in 1..Len(writes) : Announced(parent, writes[i])
        /\ Moved(Top) \cap Roots = {}
        /\ \A i \in 1..Len(writes) : Moved(Top) \cap Range(writes[i].hierarchy) = {}
    BY <1>1, <1>5 DEF ForestSound, ForestIn, LockedOut
  <1>7. Complete(parent, Top.hierarchy) /\ Top.hierarchy[1] = Top.obj
    BY <1>5, <1>6 DEF Announced
  <1>8. Rooted(parent')
    <2>1. parent' = [c \in Objects |-> IF c \in Top.new THEN Top.hierarchy[1]
                                       ELSE IF c \in Top.old THEN None ELSE parent[c]]
      BY <1>1, <1>7 DEF NewParent
    <2>2. (Top.old \cup Top.new) \cap Roots = {} /\ (Top.old \cup Top.new) \cap Range(Top.hierarchy) = {}
      BY <1>5, <1>6 DEF Moved
    <2> DEFINE h == Top.hierarchy
               old == Top.old
               new == Top.new
               q == parent'
    <2>3. /\ Rooted(parent) /\ Complete(parent, h)
          /\ old \in SUBSET Objects /\ new \in SUBSET Objects
          /\ (old \cup new) \cap Range(h) = {} /\ (old \cup new) \cap Roots = {}
          /\ q = [c \in Objects |-> IF c \in new THEN h[1] ELSE IF c \in old THEN None ELSE parent[c]]
      BY <1>3, <1>6, <1>7, <2>1, <2>2
    <2> HIDE DEF h, old, new, q
    <2>4. Rooted(q)
      BY <2>3, AdoptionRooted
    <2> QED BY <2>4 DEF q
  <1>9. ASSUME NEW i \in 1..Len(writes)
        PROVE  Announced(parent', writes[i])
    <2> DEFINE h == writes[i].hierarchy
    <2>1. Complete(parent, h) /\ h[1] = writes[i].obj /\ Moved(Top) \cap Range(h) = {}
      BY <1>6 DEF Announced
    <2>2. \A k \in 1..Len(h) : h[k] \in Objects /\ h[k] \notin Moved(Top)
      BY <2>1, ChainIs, RangeIs DEF Complete
    <2>3. \A k \in 1..Len(h) : parent'[h[k]] = parent[h[k]]
      BY <1>1, <2>2 DEF NewParent, Moved
    <2>4. Complete(parent', h)
      BY <2>1, <2>3, KeptChain
    <2> QED BY <2>1, <2>4 DEF Announced
  <1>10. ForestIn(parent', Len(writes))
    BY <1>8, <1>9 DEF ForestIn
  <1> QED BY <1>1, <1>2, <1>4, <1>10, ForestGoesOn

LEMMA ForestReceiver ==
    ASSUME IInv, ForestSound, NextReceiver
    PROVE  ForestSound'
  <1> DEFINE i == Len(Top.locations) + 1
             l == Append(Top.locations, Location(Top.hierarchy[i], Top.hierarchy[i - 1]))
             w == [Top EXCEPT !.locations = l]
  <1>1. writes # <<>> /\ Top.phase = "PRE" /\ parent' = parent
    BY DEF NextReceiver, stores
  <1>2. writes' = WithTop(w)
    BY DEF NextReceiver, WithTop, Top
  <1>3. Fields(Top)
    BY <1>1, Facts
  <1> HIDE DEF l
  <1>4. /\ w.obj = Top.obj /\ w.old = Top.old /\ w.new = Top.new /\ w.saved = Top.saved
        /\ w.hierarchy = Top.hierarchy /\ w.phase = "PRE"
    BY <1>1, <1>3 DEF Fields
  <1> HIDE DEF w
  <1>5. ForestIn(parent', Len(writes))
    BY <1>1 DEF ForestSound
  <1> QED BY <1>1, <1>2, <1>4, <1>5, ForestGoesOn

LEMMA ForestStep ==
    ASSUME IInv, ForestSound, [Next]_vars
    PROVE  ForestSound'
  <1>1. ASSUME NEW o \in program.objects, NEW v \in program.values,
               NEW ks \in Arrangements, BeginWrite(o, v, ks)
        PROVE  ForestSound'
    <2>1. program.objects \subseteq Objects
      BY HierarchyAssumption DEF IInv
    <2>2. PICK n \in 0..MaxKids : ks \in [1..n -> program.objects]
      BY DEF Arrangements
    <2>3. ks \in Seq(Objects)
      BY <2>1, <2>2, SeqDef
    <2> QED BY <1>1, <2>1, <2>3, ForestBegin
  <1>2. CASE EndWrite
    <2>1. writes # <<>> /\ Leave /\ parent' = parent
      BY <1>2 DEF EndWrite, stores
    <2>2. ForestIn(parent', Len(writes) - 1)
      <3>1. Len(writes) \in Nat
        BY TopIs DEF IInv
      <3>2. 1..(Len(writes) - 1) \subseteq 1..Len(writes)
        BY <3>1
      <3> QED BY <2>1, <3>2 DEF ForestSound, ForestIn
    <2> QED BY <2>1, <2>2, ForestLeave
  <1>3. CASE FailWrite
    <2>1. writes # <<>> /\ Leave /\ parent' = Top.saved.parent
      BY <1>3 DEF FailWrite
    <2>2. Len(writes) \in DOMAIN writes /\ Top = writes[Len(writes)]
      BY <2>1, TopIs DEF IInv
    <2>3. ForestIn(parent', Len(writes) - 1)
      BY <2>1, <2>2 DEF ForestSound
    <2> QED BY <2>1, <2>3, ForestLeave
  <1>4. CASE UNCHANGED vars
    BY <1>4 DEF vars, ForestSound, ForestIn, Announced, LockedOut, Moved
  <1> QED BY <1>1, <1>2, <1>3, <1>4, ForestCommit, ForestReceiver DEF Next

LEMMA AlwaysForestSound == Spec => []ForestSound
  <1>1. IInv /\ ForestSound /\ [Next]_vars => ForestSound'
    BY ForestStep
  <1> QED BY Invariance, ForestInit, <1>1, PTL DEF Spec

-----------------------------------------------------------------------------

\* No object is ever above itself and no root has a parent: adopting checks the new
\* children against the hierarchy and the locks, and the locks keep the hierarchy
\* from moving until the write is over.
THEOREM AlwaysForest == Spec => []Forest
  <1>1. ASSUME IInv, ForestSound
        PROVE  Forest
    <2>1. ASSUME NEW o \in Objects
          PROVE  LET h == HierarchyOf(o) IN parent[h[Len(h)]] = None
      <3>1. PICK s : Complete(parent, s) /\ s[1] = o
        BY <1>1 DEF ForestSound, ForestIn, Rooted
      <3>2. HierarchyOf(o) = s
        BY <1>1, <3>1, ParentIs, HierarchyIs
      <3> QED BY <3>1, <3>2 DEF Complete
    <2> QED BY <1>1, <2>1 DEF Forest, ForestSound, ForestIn, Rooted
  <1> QED BY Invariance, AlwaysForestSound, <1>1, PTL

\* What a write in progress relies on stays, whatever its reactions do: the hierarchy it
\* announces itself to and replaces the data of, its new children, and the state it
\* was computed from.
THEOREM AlwaysWritesStand == Spec => []WritesStand
  <1>1. ASSUME IInv, ForestSound, PendingStands
        PROVE  WritesStand
    <2>1. ASSUME NEW i \in DOMAIN writes
          PROVE  writes[i].hierarchy = HierarchyOf(writes[i].obj)
      <3>1. i \in 1..Len(writes)
        BY <1>1, TopIs DEF IInv
      <3>2. Complete(parent, writes[i].hierarchy) /\ writes[i].hierarchy[1] = writes[i].obj
        BY <1>1, <3>1 DEF ForestSound, ForestIn, Announced
      <3> QED BY <1>1, <3>2, ParentIs, HierarchyIs
    <2> QED BY <1>1, <2>1 DEF WritesStand
  <1> QED BY Invariance, AlwaysForestSound, AlwaysPendingStands, <1>1, PTL

-----------------------------------------------------------------------------
(* The data.                                                               *)

\* The data of an object o with a value and children, d being the data of the others
\* and M the objects that mirror their children.
Mirror(M, o, v, ks, d) ==
    [value |-> v, kids |-> IF o \in M THEN [i \in DOMAIN ks |-> d[ks[i]]] ELSE <<>>]

\* DataMirrors, of some stores.
Mirrored(M, s) == s.data = [o \in Objects |-> Mirror(M, o, s.value[o], s.kids[o], s.data)]

\* What a pending write relies on: the data it computed is still that of its new
\* state, and every location it remembers is still that of the object below.
Relies(M, s, w) ==
    w.phase = "PRE" =>
      /\ w.data = Mirror(M, w.obj, w.value, w.kids, s.data)
      /\ w.locations \in Seq(Nat)
      /\ Len(w.locations) \in 1..Len(w.hierarchy)
      /\ \A k \in 2..Len(w.locations) :
           /\ w.locations[k] \in DOMAIN s.kids[w.hierarchy[k]]
           /\ s.kids[w.hierarchy[k]][w.locations[k]] = w.hierarchy[k - 1]

\* A write nested in a pending one is to no object above it, and replaces the data of
\* none of its children.
Spared(w, x) ==
    w.phase = "PRE" => /\ x.obj \notin Range(w.hierarchy)
                       /\ Range(w.kids) \cap Range(x.hierarchy) = {}

\* Stores whose data mirrors them and on which the first writes can rely.
Reliable(M, s, n) == Mirrored(M, s) /\ \A i \in 1..n : Relies(M, s, writes[i])

DataSound ==
    /\ Reliable(Mirroring, Stores, Len(writes))
    /\ \A n \in DOMAIN writes : /\ Reliable(Mirroring, writes[n].saved, n - 1)
                                /\ \A i \in 1..(n - 1) : Spared(writes[i], writes[n])

\* With the same data of the children the data is the same.
LEMMA SameMirror ==
    ASSUME NEW M, NEW o, NEW v, NEW ks, NEW d, NEW e, \A i \in DOMAIN ks : d[ks[i]] = e[ks[i]]
    PROVE  Mirror(M, o, v, ks, d) = Mirror(M, o, v, ks, e)
  BY DEF Mirror

\* The definition of up in UpstreamData.
Rise(w, f, i) ==
    IF i = 1 THEN [data EXCEPT ![w.obj] = w.data]
    ELSE LET child == w.hierarchy[i - 1]
             p     == w.hierarchy[i]
         IN  IF p \notin Mirroring \/ f[i - 1][child] = data[child]
             THEN f[i - 1]
             ELSE [f[i - 1] EXCEPT ![p].kids[w.locations[i]] = f[i - 1][child]]

\* The recursion is one: there is a function as it says.
LEMMA Rising ==
    ASSUME NEW w, NEW N \in Nat
    PROVE  \E f : f = [m \in 1..N |-> Rise(w, f, m)]
  <1> DEFINE S == {n \in Nat : \E f : f = [m \in 1..n |-> Rise(w, f, m)]}
  <1>1. 0 \in S
    <2> DEFINE f == [m \in 1..0 |-> 0]
    <2>1. f = [m \in 1..0 |-> Rise(w, f, m)]
      OBVIOUS
    <2> QED BY <2>1
  <1>2. ASSUME NEW n \in Nat, n \in S
        PROVE  n + 1 \in S
    <2>1. PICK f : f = [m \in 1..n |-> Rise(w, f, m)]
      BY <1>2
    <2> DEFINE g == [m \in 1..(n + 1) |-> IF m = n + 1 THEN Rise(w, f, n + 1) ELSE f[m]]
    <2>2. \A m \in 1..n : g[m] = f[m] /\ f[m] = Rise(w, f, m)
      BY <2>1
    <2>3. g[n + 1] = Rise(w, f, n + 1)
      OBVIOUS
    <2>4. \A m \in 1..(n + 1) : m - 1 \in 1..n \/ m = 1
      OBVIOUS
    <2>5. \A m \in 1..(n + 1) : Rise(w, g, m) = Rise(w, f, m)
      <3> HIDE DEF g
      <3> QED BY <2>2, <2>4 DEF Rise
    <2>6. \A m \in 1..(n + 1) : g[m] = Rise(w, g, m)
      <3> HIDE DEF g
      <3> TAKE m \in 1..(n + 1)
      <3>1. m \in 1..n \/ m = n + 1
        OBVIOUS
      <3> QED BY <2>2, <2>3, <2>5, <3>1
    <2>7. g = [m \in 1..(n + 1) |-> g[m]]
      OBVIOUS
    <2> HIDE DEF g
    <2>8. g = [m \in 1..(n + 1) |-> Rise(w, g, m)]
      BY <2>6, <2>7
    <2> QED BY <2>8
  <1> HIDE DEF S
  <1>3. N \in S
    BY <1>1, <1>2, Induct
  <1> QED BY <1>3 DEF S

\* A child is above an object only if its parent is next above.
LEMMA ChildAbove ==
    ASSUME Agree(Stores), NEW h, Complete(parent, h),
           NEW o \in Objects, NEW l \in DOMAIN kids[o], NEW k \in 1..Len(h), kids[o][l] = h[k]
    PROVE  k + 1 \in 1..Len(h) /\ h[k + 1] = o
  <1>1. /\ kids \in [Objects -> Seq(Objects)]
        /\ \A x \in Objects : children[x] = Range(kids[x])
        /\ \A x, c \in Objects : parent[c] = x <=> c \in children[x]
    BY DEF Agree, Stores
  <1>2. kids[o][l] \in Objects /\ kids[o][l] \in Range(kids[o])
    <2>1. kids[o] \in Seq(Objects)
      BY <1>1
    <2> QED BY <2>1 DEF Range
  <1>3. parent[h[k]] = o
    BY <1>1, <1>2, SMTT(60)
  <1>4. /\ Len(h) \in Nat \ {0}
        /\ \A i \in 1..(Len(h) - 1) : parent[h[i]] = h[i + 1]
        /\ parent[h[Len(h)]] = None
    BY ChainIs DEF Complete, Chain
  <1>5. k # Len(h)
    BY <1>3, <1>4, HierarchyAssumption
  <1>6. k \in 1..(Len(h) - 1) /\ k + 1 \in 1..Len(h)
    BY <1>4, <1>5
  <1> QED BY <1>3, <1>4, <1>6

\* A pending write whose turn it is to commit, and the values and children after it.
Committing(w, vs, ks) ==
    /\ Agree(Stores) /\ Mirrored(Mirroring, Stores)
    /\ Announced(parent, w)
    /\ w.phase = "PRE" /\ Relies(Mirroring, Stores, w)
    /\ Len(w.locations) = Len(w.hierarchy)
    /\ w.kids \in Seq(Objects) /\ Range(w.kids) \cap Range(w.hierarchy) = {}
    /\ vs = [value EXCEPT ![w.obj] = w.value]
    /\ ks = [kids EXCEPT ![w.obj] = w.kids]

\* Data d that mirrors the first i objects of the hierarchy, and everything but the
\* next one above.
Risen(w, vs, ks, d, i) ==
    /\ d = [o \in Objects |-> d[o]]
    /\ \A o \in Objects : (\A k \in 1..i : o # w.hierarchy[k]) => d[o] = data[o]
    /\ \A o \in Objects : (i + 1 \in 1..Len(w.hierarchy) => o # w.hierarchy[i + 1]) =>
         d[o] = Mirror(Mirroring, o, vs[o], ks[o], d)

\* What the steps below need of such a write.
LEMMA CommittingIs ==
    ASSUME NEW w, NEW vs, NEW ks, Committing(w, vs, ks)
    PROVE  /\ Len(w.hierarchy) \in Nat \ {0}
           /\ \A i \in 1..Len(w.hierarchy) : w.hierarchy[i] \in Objects
           /\ \A i, j \in 1..Len(w.hierarchy) : w.hierarchy[i] = w.hierarchy[j] => i = j
           /\ w.obj = w.hierarchy[1]
           /\ \A o \in Objects : kids[o] \in Seq(Objects)
           /\ \A o \in Objects : \A i, j \in DOMAIN kids[o] : kids[o][i] = kids[o][j] => i = j
           /\ data = [o \in Objects |-> data[o]]
           /\ \A o \in Objects : data[o] = Mirror(Mirroring, o, value[o], kids[o], data)
           /\ vs[w.obj] = w.value /\ ks[w.obj] = w.kids
           /\ \A o \in Objects : o # w.obj => vs[o] = value[o] /\ ks[o] = kids[o]
           /\ \A o \in Objects : ks[o] \in Seq(Objects)
           /\ \A o \in Objects : \A l \in DOMAIN kids[o] : \A k \in 1..Len(w.hierarchy) :
                kids[o][l] = w.hierarchy[k] =>
                  k + 1 \in 1..Len(w.hierarchy) /\ w.hierarchy[k + 1] = o
           /\ \A o \in Objects : \A l \in DOMAIN ks[o] : \A k \in 1..Len(w.hierarchy) :
                ks[o][l] = w.hierarchy[k] =>
                  k + 1 \in 1..Len(w.hierarchy) /\ w.hierarchy[k + 1] = o
  <1> DEFINE h == w.hierarchy
  <1>1. /\ Agree(Stores) /\ Complete(parent, h) /\ h[1] = w.obj
        /\ w.kids \in Seq(Objects) /\ Range(w.kids) \cap Range(h) = {}
        /\ vs = [value EXCEPT ![w.obj] = w.value]
        /\ ks = [kids EXCEPT ![w.obj] = w.kids]
    BY DEF Committing, Announced
  <1>2. data = [o \in Objects |-> Mirror(Mirroring, o, value[o], kids[o], data)]
    BY DEF Committing, Mirrored, Stores
  <1>3. /\ Len(h) \in Nat \ {0} /\ \A i \in 1..Len(h) : h[i] \in Objects /\ h[i] \in Range(h)
        /\ w.obj \in Objects
    BY <1>1, ChainIs, RangeIs DEF Complete
  <1>4. \A i, j \in 1..Len(h) : h[i] = h[j] => i = j
    BY <1>1, ChainOnce
  <1>5. /\ value \in [Objects -> Values] /\ kids \in [Objects -> Seq(Objects)]
        /\ \A o \in Objects : \A i, j \in DOMAIN kids[o] : kids[o][i] = kids[o][j] => i = j
    BY <1>1 DEF Agree, Stores
  <1>6. \A o \in Objects : \A l \in DOMAIN kids[o] : \A k \in 1..Len(h) :
           kids[o][l] = h[k] => k + 1 \in 1..Len(h) /\ h[k + 1] = o
    <2> HIDE DEF h
    <2> QED BY <1>1, ChildAbove
  <1> HIDE DEF h
  <1>7. /\ vs[w.obj] = w.value /\ ks[w.obj] = w.kids
        /\ \A o \in Objects : o # w.obj => vs[o] = value[o] /\ ks[o] = kids[o]
    BY <1>1, <1>3, <1>5
  <1>8. \A o \in Objects : ks[o] \in Seq(Objects)
    BY <1>1, <1>5, <1>7
  <1>9. ASSUME NEW o \in Objects, NEW l \in DOMAIN ks[o], NEW k \in 1..Len(h), ks[o][l] = h[k]
        PROVE  k + 1 \in 1..Len(h) /\ h[k + 1] = o
    <2>1. CASE o = w.obj
      <3>1. w.kids[l] \in Range(w.kids) /\ w.kids[l] = h[k]
        BY <1>7, <1>9, <2>1 DEF Range
      <3> QED BY <1>1, <1>3, <3>1
    <2>2. CASE o # w.obj
      BY <1>6, <1>7, <1>9, <2>2
    <2> QED BY <2>1, <2>2
  <1>10. /\ data = [o \in Objects |-> data[o]]
         /\ \A o \in Objects : data[o] = Mirror(Mirroring, o, value[o], kids[o], data)
    BY <1>2
  <1> QED BY <1>1, <1>3, <1>4, <1>5, <1>6, <1>7, <1>8, <1>9, <1>10 DEF h

\* The data of the object is replaced.
LEMMA RisenFirst ==
    ASSUME NEW w, NEW vs, NEW ks, Committing(w, vs, ks)
    PROVE  Risen(w, vs, ks, [data EXCEPT ![w.obj] = w.data], 1)
  <1> DEFINE h == w.hierarchy
             N == Len(h)
             d == [data EXCEPT ![w.obj] = w.data]
  <1>1. /\ N \in Nat \ {0} /\ \A i \in 1..N : h[i] \in Objects
        /\ \A i, j \in 1..N : h[i] = h[j] => i = j
        /\ w.obj = h[1]
        /\ data = [o \in Objects |-> data[o]]
        /\ \A o \in Objects : data[o] = Mirror(Mirroring, o, value[o], kids[o], data)
        /\ vs[w.obj] = w.value /\ ks[w.obj] = w.kids
        /\ \A o \in Objects : o # w.obj => vs[o] = value[o] /\ ks[o] = kids[o]
        /\ \A o \in Objects : \A l \in DOMAIN ks[o] : \A k \in 1..N :
             ks[o][l] = h[k] => k + 1 \in 1..N /\ h[k + 1] = o
    BY CommittingIs
  <1>2. w.data = Mirror(Mirroring, w.obj, w.value, w.kids, data)
    BY DEF Committing, Relies, Stores
  <1> HIDE DEF h, N
  <1>3. 1 \in 1..N /\ w.obj \in Objects
    BY <1>1
  <1>4. /\ d = [o \in Objects |-> d[o]] /\ d[w.obj] = w.data
        /\ \A o \in Objects : o # w.obj => d[o] = data[o]
    <2>1. DOMAIN data = Objects
      BY <1>1
    <2> QED BY <1>1, <1>3, <2>1
  <1> HIDE DEF d
  <1>5. \A o \in Objects : (\A k \in 1..1 : o # h[k]) => d[o] = data[o]
    BY <1>1, <1>4
  <1>6. ASSUME NEW o \in Objects, 1 + 1 \in 1..N => o # h[1 + 1]
        PROVE  d[o] = Mirror(Mirroring, o, vs[o], ks[o], d)
    <2>1. \A l \in DOMAIN ks[o] : ks[o][l] # w.obj
      BY <1>1, <1>3, <1>6
    <2>2. ASSUME NEW l \in DOMAIN ks[o]
          PROVE  d[ks[o][l]] = data[ks[o][l]]
      <3>1. ks[o][l] \in Objects
        <4>1. ks[o] \in Seq(Objects)
          BY CommittingIs
        <4> QED BY <4>1
      <3> QED BY <1>4, <2>1, <3>1
    <2>3. Mirror(Mirroring, o, vs[o], ks[o], d) = Mirror(Mirroring, o, vs[o], ks[o], data)
      BY <2>2, SameMirror
    <2>4. d[o] = Mirror(Mirroring, o, vs[o], ks[o], data)
      <3>1. CASE o = w.obj
        BY <1>1, <1>2, <1>4, <3>1
      <3>2. CASE o # w.obj
        <4>1. d[o] = data[o] /\ vs[o] = value[o] /\ ks[o] = kids[o]
          BY <1>1, <1>4, <3>2
        <4> QED BY <1>1, <4>1
      <3> QED BY <3>1, <3>2
    <2> QED BY <2>3, <2>4
  <1> QED BY <1>4, <1>5, <1>6 DEF Risen, h, N, d

\* The object above replaces what it holds at the location of the one below, unless
\* that did not change.
LEMMA RisenNext ==
    ASSUME NEW w, NEW vs, NEW ks, Committing(w, vs, ks),
           NEW n \in 1..Len(w.hierarchy), n + 1 \in 1..Len(w.hierarchy),
           NEW f, Risen(w, vs, ks, f[n], n)
    PROVE  Risen(w, vs, ks, Rise(w, f, n + 1), n + 1)
  <1> DEFINE h == w.hierarchy
             N == Len(h)
             c == h[n]
             p == h[n + 1]
             l == w.locations[n + 1]
             e == f[n]
             d == Rise(w, f, n + 1)
  <1>1. /\ N \in Nat \ {0} /\ \A i \in 1..N : h[i] \in Objects
        /\ \A i, j \in 1..N : h[i] = h[j] => i = j
        /\ w.obj = h[1]
        /\ \A o \in Objects : kids[o] \in Seq(Objects)
        /\ \A o \in Objects : \A i, j \in DOMAIN kids[o] : kids[o][i] = kids[o][j] => i = j
        /\ data = [o \in Objects |-> data[o]]
        /\ \A o \in Objects : data[o] = Mirror(Mirroring, o, value[o], kids[o], data)
        /\ \A o \in Objects : o # w.obj => vs[o] = value[o] /\ ks[o] = kids[o]
        /\ \A o \in Objects : ks[o] \in Seq(Objects)
        /\ \A o \in Objects : \A i \in DOMAIN kids[o] : \A k \in 1..N :
             kids[o][i] = h[k] => k + 1 \in 1..N /\ h[k + 1] = o
        /\ \A o \in Objects : \A i \in DOMAIN ks[o] : \A k \in 1..N :
             ks[o][i] = h[k] => k + 1 \in 1..N /\ h[k + 1] = o
    BY CommittingIs
  <1>2. l \in DOMAIN kids[p] /\ kids[p][l] = c
    <2>1. n + 1 \in 2..Len(w.locations) /\ (n + 1) - 1 = n
      BY <1>1 DEF Committing
    <2>2. \A k \in 2..Len(w.locations) : /\ w.locations[k] \in DOMAIN kids[h[k]]
                                         /\ kids[h[k]][w.locations[k]] = h[k - 1]
      BY DEF Committing, Relies, Stores
    <2> HIDE DEF h
    <2> QED BY <2>1, <2>2
  <1>3. /\ e = [o \in Objects |-> e[o]]
        /\ \A o \in Objects : (\A k \in 1..n : o # h[k]) => e[o] = data[o]
        /\ \A o \in Objects : o # p => e[o] = Mirror(Mirroring, o, vs[o], ks[o], e)
    BY DEF Risen
  <1>4. d = IF p \notin Mirroring \/ e[c] = data[c] THEN e ELSE [e EXCEPT ![p].kids[l] = e[c]]
    <2>1. n + 1 # 1 /\ (n + 1) - 1 = n
      BY <1>1
    <2> QED BY <2>1 DEF Rise
  <1> HIDE DEF h, N, e, d
  <1>5. /\ n \in Nat /\ n \in 1..N /\ n + 1 \in 1..N /\ c \in Objects /\ p \in Objects /\ p # w.obj
        /\ \A k \in 1..n : k \in 1..N /\ k # n + 1 /\ p # h[k]
    <2>1. n \in Nat /\ n \in 1..N /\ n + 1 \in 1..N /\ 1 \in 1..N /\ n + 1 # 1
      BY <1>1 DEF N, h
    <2>2. \A k \in 1..n : k \in 1..N /\ k # n + 1
      BY <1>1, <2>1
    <2> QED BY <1>1, <2>1, <2>2
  <1> HIDE DEF c, p, l
  <1>6. e[p] = data[p] /\ vs[p] = value[p] /\ ks[p] = kids[p]
    BY <1>1, <1>3, <1>5
  <1>7. ASSUME NEW i \in DOMAIN kids[p], i # l
        PROVE  e[kids[p][i]] = data[kids[p][i]]
    <2>1. kids[p][i] # c /\ kids[p][i] \in Objects
      BY <1>1, <1>2, <1>5, <1>7
    <2>2. \A k \in 1..n : kids[p][i] # h[k]
      <3> SUFFICES ASSUME NEW k \in 1..n, kids[p][i] = h[k] PROVE FALSE
        OBVIOUS
      <3>1. k + 1 \in 1..N /\ h[k + 1] = h[n + 1]
        BY <1>1, <1>5 DEF p
      <3>2. k = n
        BY <1>1, <1>5, <3>1
      <3> QED BY <2>1, <3>2 DEF c
    <2> QED BY <1>3, <2>1, <2>2
  <1>8. data[p] = Mirror(Mirroring, p, value[p], kids[p], data)
    BY <1>1, <1>5
  <1>9. /\ d = [o \in Objects |-> d[o]]
        /\ \A o \in Objects : o # p => d[o] = e[o]
        /\ d[p] = Mirror(Mirroring, p, vs[p], ks[p], d)
    <2>1. c # p
      BY <1>5 DEF c
    <2>2. CASE p \notin Mirroring
      <3>1. d = e
        BY <1>4, <2>2
      <3>2. Mirror(Mirroring, p, value[p], kids[p], data) = Mirror(Mirroring, p, value[p], kids[p], d)
        BY <2>2 DEF Mirror
      <3> QED BY <1>3, <1>6, <1>8, <3>1, <3>2
    <2>3. CASE p \in Mirroring /\ e[c] = data[c]
      <3>1. d = e
        BY <1>4, <2>3
      <3>2. \A i \in DOMAIN kids[p] : data[kids[p][i]] = e[kids[p][i]]
        BY <1>2, <1>7, <2>3
      <3>3. Mirror(Mirroring, p, value[p], kids[p], data) = Mirror(Mirroring, p, value[p], kids[p], e)
        BY <3>2, SameMirror
      <3> QED BY <1>3, <1>6, <1>8, <3>1, <3>3
    <2>4. CASE p \in Mirroring /\ e[c] # data[c]
      <3> DEFINE s == [i \in DOMAIN kids[p] |-> data[kids[p][i]]]
      <3>1. d = [e EXCEPT ![p].kids[l] = e[c]]
        BY <1>4, <2>4
      <3>2. e[p] = [value |-> value[p], kids |-> s]
        BY <1>6, <1>8, <2>4 DEF Mirror
      <3>3. DOMAIN e = Objects
        BY <1>3
      <3>4. \A o \in Objects : o # p => d[o] = e[o]
        BY <3>1, <3>3
      <3>5. d[p] = [e[p] EXCEPT !.kids[l] = e[c]]
        BY <1>5, <3>1, <3>3
      <3>6. d = [o \in Objects |-> d[o]]
        BY <3>1, <3>3
      <3> HIDE DEF s
      <3>7. d[p] = [value |-> value[p], kids |-> [s EXCEPT ![l] = e[c]]]
        BY <3>2, <3>5
      <3>8. [s EXCEPT ![l] = e[c]] = [i \in DOMAIN kids[p] |-> d[kids[p][i]]]
        <4>1. ASSUME NEW i \in DOMAIN kids[p]
              PROVE  [s EXCEPT ![l] = e[c]][i] = d[kids[p][i]]
          <5>1. CASE i = l
            BY <1>2, <1>5, <2>1, <3>4, <5>1 DEF s
          <5>2. CASE i # l
            <6>1. kids[p][i] \in Objects
              BY <1>1, <1>5
            <6>2. kids[p][i] # p
              <7> SUFFICES ASSUME kids[p][i] = h[n + 1] PROVE FALSE
                BY DEF p
              <7>1. (n + 1) + 1 \in 1..N /\ h[(n + 1) + 1] = h[n + 1]
                BY <1>1, <1>5 DEF p
              <7>2. (n + 1) + 1 = n + 1
                BY <1>1, <1>5, <7>1
              <7> QED BY <1>5, <7>2
            <6> QED BY <1>7, <3>4, <5>2, <6>1, <6>2 DEF s
          <5> QED BY <5>1, <5>2
        <4>2. [s EXCEPT ![l] = e[c]] = [i \in DOMAIN kids[p] |-> [s EXCEPT ![l] = e[c]][i]]
          BY DEF s
        <4> QED BY <4>1, <4>2
      <3> QED BY <1>6, <2>4, <3>4, <3>6, <3>7, <3>8 DEF Mirror
    <2> QED BY <2>2, <2>3, <2>4
  <1>10. \A o \in Objects : (\A k \in 1..(n + 1) : o # h[k]) => d[o] = data[o]
    <2>1. n + 1 \in 1..(n + 1) /\ \A k \in 1..n : k \in 1..(n + 1)
      BY <1>5
    <2> QED BY <1>3, <1>9, <2>1 DEF p
  <1>11. ASSUME NEW o \in Objects, (n + 1) + 1 \in 1..N => o # h[(n + 1) + 1]
         PROVE  d[o] = Mirror(Mirroring, o, vs[o], ks[o], d)
    <2> SUFFICES ASSUME o # p PROVE d[o] = Mirror(Mirroring, o, vs[o], ks[o], d)
      BY <1>9
    <2>1. d[o] = Mirror(Mirroring, o, vs[o], ks[o], e)
      BY <1>3, <1>9
    <2>2. ASSUME NEW i \in DOMAIN ks[o]
          PROVE  e[ks[o][i]] = d[ks[o][i]]
      <3>1. ks[o][i] \in Objects
        BY <1>1
      <3>2. ks[o][i] # h[n + 1]
        BY <1>1, <1>5, <1>11
      <3> QED BY <1>9, <3>1, <3>2 DEF p
    <2>3. Mirror(Mirroring, o, vs[o], ks[o], e) = Mirror(Mirroring, o, vs[o], ks[o], d)
      BY <2>2, SameMirror
    <2> QED BY <2>1, <2>3
  <1> QED BY <1>9, <1>10, <1>11 DEF Risen, h, N, d

\* What UpstreamData returns mirrors what is committed, and only the data of the object
\* and of what is above it changes.
LEMMA Upstream ==
    ASSUME NEW w, NEW vs, NEW ks, Committing(w, vs, ks)
    PROVE  LET d == UpstreamData(w)
           IN  /\ d = [o \in Objects |-> Mirror(Mirroring, o, vs[o], ks[o], d)]
               /\ \A o \in Objects : o \notin Range(w.hierarchy) => d[o] = data[o]
  <1> DEFINE h == w.hierarchy
             N == Len(h)
             U == CHOOSE f : f = [m \in 1..N |-> Rise(w, f, m)]
  <1>1. N \in Nat \ {0} /\ \A i \in 1..N : h[i] \in Range(h)
    <2>1. Chain(parent, h)
      BY DEF Committing, Announced, Complete
    <2> QED BY <2>1, ChainIs, RangeIs
  <1>2. UpstreamData(w) = U[N]
    BY DEF UpstreamData, Rise
  <1>3. U = [m \in 1..N |-> Rise(w, U, m)]
    <2> HIDE DEF N
    <2> QED BY <1>1, Rising
  <1> HIDE DEF U, N, h
  <1>4. \A m \in 1..N : U[m] = Rise(w, U, m)
    BY <1>3
  <1> DEFINE S == {n \in Nat : n + 1 <= N => Risen(w, vs, ks, U[n + 1], n + 1)}
  <1>5. 0 \in S
    <2>1. U[1] = [data EXCEPT ![w.obj] = w.data] /\ 0 + 1 = 1
      <3>1. 1 \in 1..N /\ 0 + 1 = 1
        BY <1>1
      <3>2. Rise(w, U, 1) = [data EXCEPT ![w.obj] = w.data]
        BY Zenon DEF Rise
      <3> QED BY <1>4, <3>1, <3>2, Zenon
    <2> QED BY <2>1, RisenFirst
  <1>6. ASSUME NEW n \in Nat, n \in S
        PROVE  n + 1 \in S
    <2> SUFFICES ASSUME (n + 1) + 1 <= N PROVE Risen(w, vs, ks, U[(n + 1) + 1], (n + 1) + 1)
      OBVIOUS
    <2> DEFINE m == n + 1
    <2>1. m \in 1..N /\ m + 1 \in 1..N /\ Risen(w, vs, ks, U[m], m)
      BY <1>1, <1>6
    <2>2. U[m + 1] = Rise(w, U, m + 1)
      BY <1>4, <2>1
    <2> HIDE DEF m
    <2>3. Risen(w, vs, ks, Rise(w, U, m + 1), m + 1)
      BY <2>1, RisenNext DEF N, h
    <2> QED BY <2>2, <2>3 DEF m
  <1> HIDE DEF S
  <1>7. N - 1 \in S
    BY <1>1, <1>5, <1>6, Induct
  <1>8. Risen(w, vs, ks, U[N], N)
    <2>1. (N - 1) + 1 = N /\ (N - 1) + 1 <= N
      BY <1>1
    <2> QED BY <1>7, <2>1 DEF S
  <1> DEFINE d == U[N]
  <1>9. /\ d = [o \in Objects |-> d[o]]
        /\ \A o \in Objects : (\A k \in 1..N : o # h[k]) => d[o] = data[o]
        /\ \A o \in Objects : (N + 1 \in 1..N => o # h[N + 1]) =>
             d[o] = Mirror(Mirroring, o, vs[o], ks[o], d)
    BY <1>8 DEF Risen, h, N
  <1> HIDE DEF d
  <1>10. N + 1 \notin 1..N
    BY <1>1
  <1>11. \A o \in Objects : d[o] = Mirror(Mirroring, o, vs[o], ks[o], d)
    BY <1>9, <1>10
  <1>12. d = [o \in Objects |-> Mirror(Mirroring, o, vs[o], ks[o], d)]
    BY <1>9, <1>11
  <1>13. \A o \in Objects : o \notin Range(h) => d[o] = data[o]
    BY <1>1, <1>9
  <1> QED BY <1>2, <1>12, <1>13 DEF d, h

-----------------------------------------------------------------------------
(* DataSound is kept by every action, if PRE reactions write nothing above *)
(* nor below.                                                              *)

LEMMA DataInit == Init => DataSound
  <1> SUFFICES ASSUME Init PROVE DataSound
    OBVIOUS
  <1>1. writes = <<>> /\ DOMAIN writes = {} /\ Len(writes) = 0
    BY DEF Init
  <1>2. \A o \in Objects : \A M, d : Mirror(M, o, value[o], kids[o], d)
                                       = [value |-> DefaultValue, kids |-> <<>>]
    <2> TAKE o \in Objects
    <2> TAKE M, d
    <2>1. value[o] = DefaultValue /\ kids[o] = <<>> /\ DOMAIN kids[o] = {}
      BY DEF Init, NoKids
    <2>2. [i \in DOMAIN kids[o] |-> d[kids[o][i]]] = <<>>
      BY <2>1
    <2> QED BY <2>1, <2>2 DEF Mirror
  <1>3. data = [o \in Objects |-> Mirror(Mirroring, o, value[o], kids[o], data)]
    BY <1>2 DEF Init
  <1>4. Mirrored(Mirroring, Stores)
    BY <1>3 DEF Mirrored, Stores
  <1> QED BY <1>1, <1>4 DEF DataSound, Reliable

\* What an operation computes is the data of its new state.
LEMMA NewDataIs ==
    ASSUME Agree(Stores), Mirrored(Mirroring, Stores),
           NEW o \in Objects, NEW v, NEW ks \in Seq(Objects)
    PROVE  NewData(o, v, ks) = Mirror(Mirroring, o, v, ks, data)
  <1>1. /\ data = [x \in Objects |-> Mirror(Mirroring, x, value[x], kids[x], data)]
        /\ kids[o] \in Seq(Objects)
    BY DEF Mirrored, Agree, Stores
  <1>2. CASE o \notin Mirroring
    BY <1>2 DEF NewData, Mirror
  <1>3. CASE o \in Mirroring
    <2>1. data[o] = Mirror(Mirroring, o, value[o], kids[o], data)
      BY <1>1
    <2>2. data[o].kids = [i \in DOMAIN kids[o] |-> data[kids[o][i]]]
      BY <1>3, <2>1 DEF Mirror
    <2>3. ASSUME NEW i \in DOMAIN ks, ks[i] \notin Adopted(o, ks)
          PROVE  data[o].kids[Location(o, ks[i])] = data[ks[i]]
      <3>1. ks[i] \in Range(kids[o])
        BY <2>3 DEF Adopted, Range
      <3>2. \E l \in DOMAIN kids[o] : kids[o][l] = ks[i]
        BY <3>1 DEF Range
      <3>3. Location(o, ks[i]) \in DOMAIN kids[o] /\ kids[o][Location(o, ks[i])] = ks[i]
        BY <3>2 DEF Location
      <3> QED BY <2>2, <3>3
    <2>4. [i \in DOMAIN ks |-> IF ks[i] \in Adopted(o, ks) THEN data[ks[i]]
                                ELSE data[o].kids[Location(o, ks[i])]]
            = [i \in DOMAIN ks |-> data[ks[i]]]
      BY <2>3
    <2> QED BY <1>3, <2>4 DEF NewData, Mirror
  <1> QED BY <1>2, <1>3

\* A write goes on relying on stores that are others only where it does not look.
LEMMA SameReliance ==
    ASSUME NEW M, NEW w, NEW s, NEW t, Relies(M, s, w),
           w.phase = "PRE" =>
             /\ \A i \in DOMAIN w.kids : t.data[w.kids[i]] = s.data[w.kids[i]]
             /\ \A k \in 2..Len(w.locations) : t.kids[w.hierarchy[k]] = s.kids[w.hierarchy[k]]
    PROVE  Relies(M, t, w)
  <1> SUFFICES ASSUME w.phase = "PRE" PROVE Relies(M, t, w)
    BY DEF Relies
  <1>1. Mirror(M, w.obj, w.value, w.kids, t.data) = Mirror(M, w.obj, w.value, w.kids, s.data)
    BY SameMirror
  <1> QED BY <1>1 DEF Relies

\* What DataSound says of the next state.
LEMMA DataAgain ==
    ASSUME program' = program,
           Mirrored(Mirroring, Stores'),
           \A i \in 1..Len(writes') : Relies(Mirroring, Stores', writes'[i]),
           \A m \in DOMAIN writes' :
             /\ Mirrored(Mirroring, writes'[m].saved)
             /\ \A i \in 1..(m - 1) : /\ Relies(Mirroring, writes'[m].saved, writes'[i])
                                      /\ Spared(writes'[i], writes'[m])
    PROVE  DataSound'
  <1>1. Mirroring' = Mirroring
    BY DEF Mirroring
  <1>2. Reliable(Mirroring, Stores, Len(writes))'
    <2>1. Mirrored(Mirroring, Stores)'
      BY <1>1 DEF Mirrored, Mirror
    <2>2. \A i \in 1..Len(writes') : Relies(Mirroring, Stores, writes[i])'
      BY <1>1 DEF Relies, Mirror
    <2> QED BY <2>1, <2>2 DEF Reliable
  <1>3. \A m \in DOMAIN writes' : Reliable(Mirroring, writes[m].saved, m - 1)'
    <2> TAKE m \in DOMAIN writes'
    <2>1. Mirrored(Mirroring, writes[m].saved)'
      BY <1>1 DEF Mirrored, Mirror
    <2>2. \A i \in 1..(m - 1) : Relies(Mirroring, writes[m].saved, writes[i])'
      BY <1>1 DEF Relies, Mirror
    <2> QED BY <2>1, <2>2 DEF Reliable
  <1>4. \A m \in DOMAIN writes' : \A i \in 1..(m - 1) : Spared(writes[i], writes[m])'
    BY DEF Spared
  <1> QED BY <1>2, <1>3, <1>4 DEF DataSound

\* What is known of the writes and of the stores.
LEMMA DataFacts ==
    ASSUME IInv, DataSound
    PROVE  /\ Len(writes) \in Nat /\ DOMAIN writes = 1..Len(writes)
           /\ Mirrored(Mirroring, Stores)
           /\ \A i \in 1..Len(writes) : Relies(Mirroring, Stores, writes[i])
           /\ \A m \in 1..Len(writes) :
                /\ Mirrored(Mirroring, writes[m].saved)
                /\ \A i \in 1..(m - 1) : /\ Relies(Mirroring, writes[m].saved, writes[i])
                                         /\ Spared(writes[i], writes[m])
  <1>1. Len(writes) \in Nat /\ DOMAIN writes = 1..Len(writes)
    BY TopIs DEF IInv
  <1> QED BY <1>1 DEF DataSound, Reliable

LEMMA DataBegin ==
    ASSUME IInv, ForestSound, DataSound, PreWrites = {},
           NEW o \in Objects, NEW v, NEW ks \in Seq(Objects), BeginWrite(o, v, ks)
    PROVE  DataSound'
  <1> DEFINE n == Len(writes)
             h == HierarchyOf(o)
             w == [obj |-> o, value |-> v, kids |-> ks, data |-> NewData(o, v, ks),
                   old |-> Released(o, ks), new |-> Adopted(o, ks), hierarchy |-> h,
                   locations |-> <<0>>, phase |-> "PRE", saved |-> Stores]
  <1>1. /\ program' = program /\ writes' = Append(writes, w) /\ Stores' = Stores
        /\ WrittenByReactions(o)
    BY DEF BeginWrite, stores, Stores
  <1>2. /\ w.obj = o /\ w.value = v /\ w.kids = ks /\ w.data = NewData(o, v, ks)
        /\ w.hierarchy = h /\ w.locations = <<0>> /\ w.phase = "PRE" /\ w.saved = Stores
    OBVIOUS
  <1> HIDE DEF w
  <1>3. /\ n \in Nat /\ DOMAIN writes = 1..n /\ Len(writes') = n + 1 /\ DOMAIN writes' = 1..(n + 1)
        /\ \A i \in 1..n : writes'[i] = writes[i]
        /\ writes'[n + 1] = w
    BY <1>1, TopIs, AppendIs DEF IInv
  <1>4. /\ Mirrored(Mirroring, Stores)
        /\ \A i \in 1..n : Relies(Mirroring, Stores, writes[i])
        /\ \A m \in 1..n :
             /\ Mirrored(Mirroring, writes[m].saved)
             /\ \A i \in 1..(m - 1) : /\ Relies(Mirroring, writes[m].saved, writes[i])
                                      /\ Spared(writes[i], writes[m])
    BY DataFacts
  <1>5. Relies(Mirroring, Stores, w)
    <2>1. w.data = Mirror(Mirroring, w.obj, w.value, w.kids, Stores.data)
      <3>1. Agree(Stores) /\ Stores.data = data
        BY DEF IInv, StoresSound, Sound, Stores
      <3> QED BY <1>2, <1>4, <3>1, NewDataIs
    <2>2. Len(h) \in Nat \ {0}
      <3>1. PICK s : Complete(parent, s) /\ s[1] = o
        BY DEF ForestSound, ForestIn, Rooted
      <3>2. h = s
        BY <3>1, ParentIs, HierarchyIs
      <3> QED BY <3>1, <3>2, ChainIs DEF Complete
    <2> HIDE DEF h
    <2>3. w.locations \in Seq(Nat) /\ Len(w.locations) = 1
      BY <1>2
    <2>4. Len(w.locations) \in 1..Len(w.hierarchy)
      BY <1>2, <2>2, <2>3
    <2>5. 2..Len(w.locations) = {}
      BY <2>3
    <2> QED BY <2>1, <2>3, <2>4, <2>5 DEF Relies
  <1>6. ASSUME NEW i \in 1..n
        PROVE  Spared(writes[i], w)
    <2> SUFFICES ASSUME writes[i].phase = "PRE"
                 PROVE  /\ o \notin Range(writes[i].hierarchy)
                        /\ Range(writes[i].kids) \cap Range(h) = {}
      BY <1>2 DEF Spared
    <2>1. /\ o \notin Range(writes[i].hierarchy)
          /\ \A c \in Range(kids[writes[i].obj]) \cup Range(writes[i].kids) : o \notin Below(c)
      BY <1>1, <1>3 DEF WrittenByReactions
    <2>2. \A c \in Range(writes[i].kids) : c \notin Range(h)
      BY <2>1 DEF Below
    <2> QED BY <2>1, <2>2
  <1> HIDE DEF n, h
  <1>7. /\ \A m \in 1..(n + 1) : m \in 1..n \/ m = n + 1
        /\ \A m \in 1..n : \A i \in 1..(m - 1) : i \in 1..n
        /\ (n + 1) - 1 = n
    BY <1>3
  <1>8. \A i \in 1..(n + 1) : Relies(Mirroring, Stores, writes'[i])
    BY <1>3, <1>4, <1>5, <1>7
  <1>9. ASSUME NEW m \in 1..(n + 1)
        PROVE  /\ Mirrored(Mirroring, writes'[m].saved)
               /\ \A i \in 1..(m - 1) : /\ Relies(Mirroring, writes'[m].saved, writes'[i])
                                        /\ Spared(writes'[i], writes'[m])
    <2>1. CASE m \in 1..n
      BY <1>3, <1>4, <1>7, <2>1
    <2>2. CASE m = n + 1
      <3>1. /\ writes'[m] = w /\ w.saved = Stores
            /\ \A i \in 1..(m - 1) : writes'[i] = writes[i] /\ i \in 1..n
        BY <1>2, <1>3, <1>7, <2>2
      <3> QED BY <1>4, <1>6, <3>1
    <2> QED BY <1>7, <2>1, <2>2
  <1> QED BY <1>1, <1>3, <1>4, <1>8, <1>9, DataAgain

\* The innermost write goes on: what it commits stays.
LEMMA DataGoesOn ==
    ASSUME IInv, DataSound, writes # <<>>, NEW w, writes' = WithTop(w), program' = program,
           w.obj = Top.obj, w.hierarchy = Top.hierarchy, w.saved = Top.saved,
           Mirrored(Mirroring, Stores'), Relies(Mirroring, Stores', w),
           \A i \in 1..(Len(writes) - 1) : Relies(Mirroring, Stores', writes[i])
    PROVE  DataSound'
  <1> DEFINE n == Len(writes)
  <1>1. n \in Nat /\ DOMAIN writes = 1..n /\ n \in 1..n /\ Top = writes[n]
    BY TopIs DEF IInv
  <1>2. /\ Len(writes') = n /\ DOMAIN writes' = 1..n
        /\ \A i \in 1..(n - 1) : writes'[i] = writes[i]
        /\ writes'[n] = w
    <2>1. WritesTyped
      BY DEF IInv
    <2> QED BY <2>1, WithTopIs
  <1>3. \A m \in 1..n :
          /\ Mirrored(Mirroring, writes[m].saved)
          /\ \A i \in 1..(m - 1) : /\ Relies(Mirroring, writes[m].saved, writes[i])
                                   /\ Spared(writes[i], writes[m])
    BY DataFacts
  <1>4. \A i \in 1..(n - 1) : Relies(Mirroring, Stores', writes[i])
    OBVIOUS
  <1> HIDE DEF n
  <1>5. /\ \A m \in 1..n : m \in 1..(n - 1) \/ m = n
        /\ \A m \in 1..n : \A i \in 1..(m - 1) : i \in 1..(n - 1)
    BY <1>1
  <1>6. \A i \in 1..n : Relies(Mirroring, Stores', writes'[i])
    BY <1>2, <1>4, <1>5
  <1>7. ASSUME NEW m \in 1..n
        PROVE  /\ Mirrored(Mirroring, writes'[m].saved)
               /\ \A i \in 1..(m - 1) : /\ Relies(Mirroring, writes'[m].saved, writes'[i])
                                        /\ Spared(writes'[i], writes'[m])
    <2>1. /\ writes'[m].saved = writes[m].saved /\ writes'[m].obj = writes[m].obj
          /\ writes'[m].hierarchy = writes[m].hierarchy
      BY <1>1, <1>2, <1>5
    <2>2. \A i \in 1..(m - 1) : writes'[i] = writes[i]
      BY <1>2, <1>5
    <2>3. \A i \in 1..(m - 1) : Spared(writes'[i], writes'[m])
      BY <1>3, <2>1, <2>2 DEF Spared
    <2> QED BY <1>3, <2>1, <2>2, <2>3
  <1> QED BY <1>2, <1>6, <1>7, DataAgain

\* The innermost write is left, and the others can rely on the stores.
LEMMA DataLeave ==
    ASSUME IInv, DataSound, writes # <<>>, Leave, program' = program,
           Mirrored(Mirroring, Stores'),
           \A i \in 1..(Len(writes) - 1) : Relies(Mirroring, Stores', writes[i])
    PROVE  DataSound'
  <1> DEFINE n == Len(writes) - 1
  <1>1. n \in Nat /\ DOMAIN writes = 1..(n + 1)
    BY TopIs DEF IInv
  <1>2. Len(writes') = n /\ DOMAIN writes' = 1..n /\ \A i \in 1..n : writes'[i] = writes[i]
    BY OuterIs DEF IInv, Leave
  <1>3. \A i \in 1..n : Relies(Mirroring, Stores', writes[i])
    OBVIOUS
  <1> HIDE DEF n
  <1>4. \A m \in 1..(n + 1) :
          /\ Mirrored(Mirroring, writes[m].saved)
          /\ \A i \in 1..(m - 1) : /\ Relies(Mirroring, writes[m].saved, writes[i])
                                   /\ Spared(writes[i], writes[m])
    BY <1>1, DataFacts
  <1>5. /\ \A m \in 1..n : m \in 1..(n + 1)
        /\ \A m \in 1..n : \A i \in 1..(m - 1) : i \in 1..n
    BY <1>1
  <1>6. \A i \in 1..n : Relies(Mirroring, Stores', writes'[i])
    BY <1>2, <1>3
  <1>7. \A m \in 1..n :
          /\ Mirrored(Mirroring, writes'[m].saved)
          /\ \A i \in 1..(m - 1) : /\ Relies(Mirroring, writes'[m].saved, writes'[i])
                                   /\ Spared(writes'[i], writes'[m])
    BY <1>2, <1>4, <1>5
  <1> QED BY <1>2, <1>6, <1>7, DataAgain

LEMMA DataReceiver ==
    ASSUME IInv, ForestSound, DataSound, NextReceiver
    PROVE  DataSound'
  <1> DEFINE k == Len(Top.locations)
             h == Top.hierarchy
             x == Location(h[k + 1], h[(k + 1) - 1])
             l == Append(Top.locations, x)
             w == [Top EXCEPT !.locations = l]
  <1>1. /\ writes # <<>> /\ Top.phase = "PRE" /\ program' = program /\ Stores' = Stores
        /\ k + 1 <= Len(h)
    BY DEF NextReceiver, stores, Stores
  <1>2. writes' = WithTop(w)
    BY DEF NextReceiver, WithTop, Top
  <1>3. Fields(Top) /\ Agree(Stores)
    BY <1>1, Facts
  <1>4. /\ Len(writes) \in Nat /\ Len(writes) \in 1..Len(writes) /\ Top = writes[Len(writes)]
        /\ \A i \in 1..(Len(writes) - 1) : i \in 1..Len(writes)
    BY <1>1, TopIs DEF IInv
  <1>5. /\ Mirrored(Mirroring, Stores) /\ Relies(Mirroring, Stores, Top)
        /\ \A i \in 1..(Len(writes) - 1) : Relies(Mirroring, Stores, writes[i])
    BY <1>4, DataFacts
  <1>6. Complete(parent, h)
    BY <1>4 DEF ForestSound, ForestIn, Announced
  <1> HIDE DEF l
  <1>7. /\ w.obj = Top.obj /\ w.value = Top.value /\ w.kids = Top.kids /\ w.data = Top.data
        /\ w.saved = Top.saved /\ w.hierarchy = h /\ w.phase = "PRE" /\ w.locations = l
    BY <1>1, <1>3 DEF Fields
  <1> HIDE DEF w
  <1>8. /\ Top.data = Mirror(Mirroring, Top.obj, Top.value, Top.kids, data)
        /\ Top.locations \in Seq(Nat) /\ k \in 1..Len(h)
        /\ \A i \in 2..k : /\ Top.locations[i] \in DOMAIN kids[h[i]]
                           /\ kids[h[i]][Top.locations[i]] = h[i - 1]
    BY <1>1, <1>5 DEF Relies, Stores
  <1> HIDE DEF k, h, x
  <1>9. /\ Len(h) \in Nat /\ k \in Nat /\ k + 1 \in 1..Len(h) /\ k \in 1..Len(h) /\ (k + 1) - 1 = k
        /\ h[k] \in Objects /\ h[k + 1] \in Objects /\ parent[h[k]] = h[k + 1]
    <2>1. Len(h) \in Nat /\ \A i \in 1..(Len(h) - 1) : parent[h[i]] = h[i + 1]
      BY <1>6, ChainIs DEF Complete, Chain
    <2>2. k \in Nat /\ k + 1 \in 1..Len(h) /\ k \in 1..(Len(h) - 1) /\ (k + 1) - 1 = k
      BY <1>1, <1>8, <2>1
    <2> QED BY <1>6, <1>8, <2>1, <2>2, ChainIs DEF Complete
  <1>10. x \in DOMAIN kids[h[k + 1]] /\ kids[h[k + 1]][x] = h[k] /\ x \in Nat
    <2>1. kids[h[k + 1]] \in Seq(Objects) /\ h[k] \in Range(kids[h[k + 1]])
      BY <1>3, <1>9 DEF Agree, Stores
    <2>2. \E i \in DOMAIN kids[h[k + 1]] : kids[h[k + 1]][i] = h[k]
      BY <2>1 DEF Range
    <2>3. x \in DOMAIN kids[h[k + 1]] /\ kids[h[k + 1]][x] = h[k]
      BY <1>9, <2>2 DEF Location, x
    <2> QED BY <2>1, <2>3
  <1>11. /\ l \in Seq(Nat) /\ Len(l) = k + 1 /\ l[k + 1] = x
         /\ \A i \in 1..k : l[i] = Top.locations[i]
    BY <1>8, <1>10, AppendProperties DEF l, k
  <1>12. ASSUME NEW i \in 2..(k + 1)
         PROVE  l[i] \in DOMAIN kids[h[i]] /\ kids[h[i]][l[i]] = h[i - 1]
    <2>1. CASE i = k + 1
      BY <1>9, <1>10, <1>11, <2>1
    <2>2. CASE i # k + 1
      <3>1. i \in 2..k /\ i \in 1..k
        BY <1>9, <2>2
      <3> QED BY <1>8, <1>11, <3>1
    <2> QED BY <2>1, <2>2
  <1>13. Relies(Mirroring, Stores, w)
    <2>1. Stores.data = data /\ Stores.kids = kids
      BY DEF Stores
    <2> QED BY <1>7, <1>8, <1>9, <1>11, <1>12, <2>1 DEF Relies
  <1> QED BY <1>1, <1>2, <1>5, <1>7, <1>13, DataGoesOn DEF h

\* No child that a write leaves its object with is above the object.
LEMMA KidsBelow ==
    ASSUME IInv, ForestSound, writes # <<>>, Top.phase = "PRE"
    PROVE  Range(Top.kids) \cap Range(Top.hierarchy) = {}
  <1> DEFINE h == Top.hierarchy
             o == Top.obj
  <1>1. Len(writes) \in DOMAIN writes /\ Len(writes) \in 1..Len(writes) /\ Top = writes[Len(writes)]
    BY TopIs DEF IInv
  <1>2. /\ Complete(parent, h) /\ h[1] = o
        /\ Moved(Top) \cap Range(h) = {}
    BY <1>1 DEF ForestSound, ForestIn, Announced, LockedOut
  <1>3. /\ o \in Objects /\ Agree(Stores) /\ kids[o] = Top.saved.kids[o]
        /\ Top.new = Range(Top.kids) \ Range(Top.saved.kids[o])
    BY Facts DEF Computed, StandsIn, Stores
  <1> HIDE DEF h, o
  <1>4. \A c \in Top.new : c \notin Range(h)
    BY <1>2 DEF Moved
  <1>5. ASSUME NEW c \in Range(kids[o]), c \in Range(h)
        PROVE  FALSE
    <2>1. PICK l \in DOMAIN kids[o] : kids[o][l] = c
      BY DEF Range
    <2>2. PICK k \in 1..Len(h) : h[k] = c
      BY <1>2, <1>5, RangeIs DEF Complete
    <2>3. k + 1 \in 1..Len(h) /\ h[k + 1] = o
      BY <1>2, <1>3, <2>1, <2>2, ChildAbove
    <2>4. 1 \in 1..Len(h) /\ h[k + 1] = h[1]
      BY <1>2, <2>3, ChainIs DEF Complete
    <2>5. k + 1 = 1
      BY <1>2, <2>3, <2>4, ChainOnce
    <2> QED BY <2>5
  <1> QED BY <1>3, <1>4, <1>5 DEF h

LEMMA DataCommit ==
    ASSUME IInv, ForestSound, DataSound, Commit
    PROVE  DataSound'
  <1> DEFINE w == [Top EXCEPT !.phase = "POST"]
             h == Top.hierarchy
  <1>1. /\ writes # <<>> /\ Top.phase = "PRE" /\ program' = program
        /\ Len(Top.locations) = Len(Top.hierarchy)
        /\ value' = [value EXCEPT ![Top.obj] = Top.value]
        /\ kids' = [kids EXCEPT ![Top.obj] = Top.kids]
        /\ data' = UpstreamData(Top)
    BY DEF Commit
  <1>2. writes' = WithTop(w)
    BY DEF Commit, WithTop, Top
  <1>3. Fields(Top) /\ Agree(Stores) /\ Top.kids \in Seq(Objects)
    BY <1>1, Facts DEF Computed
  <1>4. /\ w.obj = Top.obj /\ w.saved = Top.saved /\ w.hierarchy = Top.hierarchy /\ w.phase = "POST"
    BY <1>3 DEF Fields
  <1> HIDE DEF w
  <1>5. /\ Len(writes) \in 1..Len(writes) /\ Top = writes[Len(writes)]
        /\ \A i \in 1..(Len(writes) - 1) : i \in 1..Len(writes)
    BY <1>1, TopIs DEF IInv
  <1>6. /\ Mirrored(Mirroring, Stores) /\ Relies(Mirroring, Stores, Top)
        /\ \A i \in 1..(Len(writes) - 1) : /\ Relies(Mirroring, Stores, writes[i])
                                           /\ Spared(writes[i], Top)
    BY <1>5, DataFacts
  <1>7. /\ Announced(parent, Top)
        /\ \A i \in 1..(Len(writes) - 1) : Announced(parent, writes[i])
    BY <1>5 DEF ForestSound, ForestIn
  <1>8. Committing(Top, value', kids')
    BY <1>1, <1>3, <1>6, <1>7, KidsBelow DEF Committing
  <1>9. /\ data' = [o \in Objects |-> Mirror(Mirroring, o, value'[o], kids'[o], data')]
        /\ \A o \in Objects : o \notin Range(h) => data'[o] = data[o]
    <2> DEFINE vs == value'
               ks == kids'
    <2>1. Committing(Top, vs, ks)
      BY <1>8
    <2> HIDE DEF vs, ks
    <2>2. LET d == UpstreamData(Top)
          IN  /\ d = [o \in Objects |-> Mirror(Mirroring, o, vs[o], ks[o], d)]
              /\ \A o \in Objects : o \notin Range(h) => d[o] = data[o]
      BY <2>1, Upstream, Zenon
    <2>3. data' = UpstreamData(Top)
      BY <1>1
    <2> QED BY <2>2, <2>3, Zenon DEF vs, ks
  <1>10. Mirrored(Mirroring, Stores')
    <2>1. Stores'.value = value' /\ Stores'.kids = kids' /\ Stores'.data = data'
      BY DEF Stores
    <2> QED BY <1>9, <2>1 DEF Mirrored
  <1>11. Relies(Mirroring, Stores', w)
    BY <1>4 DEF Relies
  <1>12. ASSUME NEW i \in 1..(Len(writes) - 1)
         PROVE  Relies(Mirroring, Stores', writes[i])
    <2> DEFINE x == writes[i]
    <2>1. Relies(Mirroring, Stores, x) /\ Spared(x, Top) /\ Announced(parent, x)
      BY <1>6, <1>7
    <2>2. x.phase = "PRE" => x.kids \in Seq(Objects)
      BY <1>5, TopIs DEF IInv, WritesTyped, Computed
    <2>3. Stores.data = data /\ Stores'.data = data' /\ Stores.kids = kids /\ Stores'.kids = kids'
      BY DEF Stores
    <2> HIDE DEF x, h
    <2>4. ASSUME x.phase = "PRE", NEW k \in DOMAIN x.kids
          PROVE  data'[x.kids[k]] = data[x.kids[k]]
      <3>1. x.kids[k] \in Objects /\ x.kids[k] \in Range(x.kids)
        BY <2>2, <2>4 DEF Range
      <3>2. x.kids[k] \notin Range(h)
        BY <2>1, <2>4, <3>1 DEF Spared, h
      <3> QED BY <1>9, <3>1, <3>2
    <2>5. ASSUME x.phase = "PRE", NEW k \in 2..Len(x.locations)
          PROVE  kids'[x.hierarchy[k]] = kids[x.hierarchy[k]]
      <3>1. Chain(parent, x.hierarchy)
        BY <2>1 DEF Announced, Complete
      <3>2. k \in 1..Len(x.hierarchy)
        BY <2>1, <2>5, <3>1, ChainIs DEF Relies
      <3>3. x.hierarchy[k] \in Range(x.hierarchy)
        BY <3>1, <3>2, RangeIs
      <3>4. Top.obj # x.hierarchy[k]
        BY <2>1, <2>5, <3>3 DEF Spared
      <3>5. kids \in [Objects -> Seq(Objects)] /\ x.hierarchy[k] \in Objects
        BY <1>3, <3>1, <3>2, ChainIs DEF Agree, Stores
      <3> QED BY <1>1, <3>4, <3>5
    <2>6. Relies(Mirroring, Stores', x)
      BY <2>1, <2>3, <2>4, <2>5, SameReliance
    <2> QED BY <2>6 DEF x
  <1> QED BY <1>1, <1>2, <1>4, <1>10, <1>11, <1>12, DataGoesOn

LEMMA DataStep ==
    ASSUME IInv, ForestSound, DataSound, PreWrites = {}, [Next]_vars
    PROVE  DataSound'
  <1>1. ASSUME NEW o \in program.objects, NEW v \in program.values,
               NEW ks \in Arrangements, BeginWrite(o, v, ks)
        PROVE  DataSound'
    <2>1. program.objects \subseteq Objects
      BY HierarchyAssumption DEF IInv
    <2>2. PICK n \in 0..MaxKids : ks \in [1..n -> program.objects]
      BY DEF Arrangements
    <2>3. ks \in Seq(Objects)
      BY <2>1, <2>2, SeqDef
    <2> QED BY <1>1, <2>1, <2>3, DataBegin
  <1>2. CASE EndWrite
    <2>1. writes # <<>> /\ Leave /\ program' = program /\ Stores' = Stores
      BY <1>2 DEF EndWrite, stores, Stores
    <2>2. \A i \in 1..(Len(writes) - 1) : i \in 1..Len(writes)
      BY TopIs DEF IInv
    <2>3. /\ Mirrored(Mirroring, Stores)
          /\ \A i \in 1..(Len(writes) - 1) : Relies(Mirroring, Stores, writes[i])
      BY <2>2, DataFacts
    <2> QED BY <2>1, <2>3, DataLeave
  <1>3. CASE FailWrite
    <2>1. /\ writes # <<>> /\ Leave /\ program' = program
          /\ value' = Top.saved.value /\ kids' = Top.saved.kids /\ data' = Top.saved.data
      BY <1>3 DEF FailWrite
    <2>2. Len(writes) \in 1..Len(writes) /\ Top = writes[Len(writes)]
      BY <2>1, TopIs DEF IInv
    <2>3. /\ Mirrored(Mirroring, Top.saved)
          /\ \A i \in 1..(Len(writes) - 1) : Relies(Mirroring, Top.saved, writes[i])
      BY <2>2, DataFacts
    <2>4. /\ Stores'.value = Top.saved.value /\ Stores'.kids = Top.saved.kids
          /\ Stores'.data = Top.saved.data
      BY <2>1 DEF Stores
    <2>5. Mirrored(Mirroring, Stores')
      BY <2>3, <2>4 DEF Mirrored
    <2>6. \A i \in 1..(Len(writes) - 1) : Relies(Mirroring, Stores', writes[i])
      BY <2>3, <2>4, SameReliance
    <2> QED BY <2>1, <2>5, <2>6, DataLeave
  <1>4. CASE UNCHANGED vars
    <2>1. program' = program /\ Stores' = Stores /\ writes' = writes
      BY <1>4 DEF vars, Stores
    <2> QED BY <2>1, DataFacts, DataAgain
  <1> QED BY <1>1, <1>2, <1>3, <1>4, DataReceiver, DataCommit DEF Next

\* A program that has no such reactions never gets them.
LEMMA ProgramStays == [Next]_vars => program' = program
  <1> SUFFICES ASSUME [Next]_vars PROVE program' = program
    OBVIOUS
  <1>1. ASSUME NEW o, NEW v, NEW ks, BeginWrite(o, v, ks)
        PROVE  program' = program
    BY <1>1 DEF BeginWrite
  <1> QED BY <1>1 DEF Next, NextReceiver, Commit, EndWrite, FailWrite, vars

\* The data of every object mirrors its state and the data of its children whatever is
\* written, adopted, released and reverted, as long as no PRE reaction writes above or
\* below the object (__write, from the data it was given to its upstream loop).
THEOREM AlwaysDataMirrors == Spec => []DataMirrors
  <1> DEFINE Quiet == PreWrites = {} => DataSound
  <1>1. Init => Quiet
    BY DataInit
  <1>2. IInv /\ ForestSound /\ Quiet /\ [Next]_vars => Quiet'
    <2> SUFFICES ASSUME IInv, ForestSound, Quiet, [Next]_vars, PreWrites' = {}
                 PROVE  DataSound'
      OBVIOUS
    <2>1. PreWrites = {}
      BY ProgramStays DEF PreWrites
    <2> QED BY <2>1, DataStep
  <1>3. Quiet => DataMirrors
    <2> SUFFICES ASSUME Quiet, program.preWrites = {}
                 PROVE  \A o \in Objects :
                          /\ data[o].value = value[o]
                          /\ data[o].kids = IF o \in Mirroring
                                            THEN [i \in DOMAIN kids[o] |-> data[kids[o][i]]]
                                            ELSE <<>>
      BY DEF DataMirrors
    <2>1. data = [o \in Objects |-> Mirror(Mirroring, o, value[o], kids[o], data)]
      BY DEF PreWrites, DataSound, Reliable, Mirrored, Stores
    <2> HIDE DEF Quiet
    <2> TAKE o \in Objects
    <2>2. data[o] = Mirror(Mirroring, o, value[o], kids[o], data)
      BY <2>1
    <2> QED BY <2>2 DEF Mirror
  <1> HIDE DEF Quiet
  <1> QED BY Invariance, AlwaysForestSound, <1>1, <1>2, <1>3, PTL DEF Spec
=============================================================================
