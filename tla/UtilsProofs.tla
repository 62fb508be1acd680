---------------------------- MODULE UtilsProofs ----------------------------
(***************************************************************************)
(* Proofs about the two parts of objetto.utils that keep state: Storage,   *)
(* for every set of keys and values and every number of storages, and then *)
(* SubjectObserver, for every set of observers.  The two know nothing of   *)
(* each other.                                                             *)
(***************************************************************************)
EXTENDS Storage, SubjectObserver, SequenceTheorems, TLAPS

\* What is not made yet has no parent and no data.
NotMadeYet ==
    \A s \in Storages : s > made => parent[s] = None /\ data[s] = NoUpdates

\* What is to be updated lives.
PinnedLive == Pinned \subseteq alive

\* Every storage that can be walked up to from another knows that one.
AllTold ==
    \A s \in 1..made : \A t \in Ancestors(s, parent, Live) : s \in storages[t]

\* All storages that a weak key cleans have that weak key, whether they are
\* referred to or not, as long as its key lives.
OriginsShared ==
    \A k \in alive, t \in Storages :
        data[t][k] # None =>
            \A s \in storages[data[t][k].origin] :
                data[s][k] # None /\ data[s][k].origin = data[t][k].origin

\* A weak key was made by a storage above.
Introduced ==
    \A s \in Storages, k \in Keys :
        data[s][k] # None => data[s][k].origin \in Ancestors(s, parent, Storages)

IInv ==
    /\ TypeOK /\ NotMadeYet /\ PinnedLive
    /\ AllTold /\ OriginsShared /\ Introduced
    /\ ForgottenWithKey

-----------------------------------------------------------------------------
(* Walking up.                                                             *)

\* The storages above one reach up themselves.
LEMMA AncestorsReachUp ==
    ASSUME NEW s, NEW above, NEW among
    PROVE  /\ s \in Ancestors(s, above, among)
           /\ Ancestors(s, above, among) \subseteq {s} \cup among
           /\ ReachesUp(Ancestors(s, above, among), s, above, among)
  BY DEF Ancestors, ReachesUp

\* They are in every set that does.
LEMMA AncestorsLeast ==
    ASSUME NEW s, NEW above, NEW among, NEW set,
           ReachesUp(set \cap ({s} \cup among), s, above, among)
    PROVE  Ancestors(s, above, among) \subseteq set
  <1> DEFINE part == set \cap ({s} \cup among)
  <1>1. part \in SUBSET ({s} \cup among)
    OBVIOUS
  <1> QED BY <1>1 DEF Ancestors

\* The fewer storages there are, the shorter the way up.
LEMMA AncestorsFewer ==
    ASSUME NEW s, NEW above, NEW among, NEW fewer, fewer \subseteq among
    PROVE  Ancestors(s, above, fewer) \subseteq Ancestors(s, above, among)
  <1> DEFINE set == Ancestors(s, above, among)
  <1>1. ReachesUp(set, s, above, among) /\ s \in set
    BY AncestorsReachUp
  <1>2. ReachesUp(set \cap ({s} \cup fewer), s, above, fewer)
    BY <1>1 DEF ReachesUp
  <1> HIDE DEF set
  <1>3. Ancestors(s, above, fewer) \subseteq set
    BY <1>2, AncestorsLeast
  <1> QED BY <1>3 DEF set

\* If all storages from an ancestor down are referred to, the way up to it is
\* whole.
LEMMA LineageWhole ==
    ASSUME StoragesTyped, NEW s \in Storages, NEW origin \in Ancestors(s, parent, Storages),
           NEW among \in SUBSET Storages, LineageOf(s, origin) \subseteq among
    PROVE  origin \in Ancestors(s, parent, among)
  <1> DEFINE all == Ancestors(s, parent, Storages)
             near == Ancestors(s, parent, among)
             set == (near \cap all) \cup {t \in all : t < origin}
  <1>1. /\ s \in all /\ all \subseteq {s} \cup Storages
        /\ ReachesUp(all, s, parent, Storages)
    BY AncestorsReachUp
  <1>2. /\ s \in near /\ ReachesUp(near, s, parent, among)
    BY AncestorsReachUp
  <1>3. all \subseteq Nat /\ origin \in all
    BY <1>1, MaxStoragesAssumption DEF Storages
  <1>4. ASSUME NEW t \in set, parent[t] \in Storages PROVE parent[t] \in set
    <2>1. t \in all /\ parent[t] \in all /\ parent[t] < t
      BY <1>1, <1>4, NoneAssumption DEF ReachesUp, StoragesTyped
    <2>2. CASE parent[t] < origin
      BY <2>1, <2>2
    <2>3. CASE ~ parent[t] < origin
      <3>1. parent[t] >= origin /\ ~ t < origin
        BY <1>3, <2>1, <2>3
      <3>2. parent[t] \in among /\ t \in near
        BY <2>1, <3>1 DEF LineageOf
      <3> QED BY <1>2, <2>1, <3>2 DEF ReachesUp
    <2> QED BY <2>2, <2>3
  <1>5. set \subseteq {s} \cup Storages /\ s \in set
    BY <1>1, <1>2
  <1>6. ReachesUp(set \cap ({s} \cup Storages), s, parent, Storages)
    BY <1>4, <1>5 DEF ReachesUp
  <1> HIDE DEF set
  <1>7. all \subseteq set
    BY <1>6, AncestorsLeast
  <1>8. origin \in set /\ ~ origin < origin
    BY <1>3, <1>7
  <1> QED BY <1>8 DEF set

-----------------------------------------------------------------------------
(* A storage is made, without data of others or from another one.          *)

LEMMA LiveMade ==
    ASSUME TypeOK
    PROVE  /\ Live \subseteq 1..made /\ Live \subseteq Storages
           /\ made \in Nat /\ made <= MaxStorages /\ 1..made \subseteq Storages
           /\ Storages \subseteq Nat
  <1>1. /\ made \in Nat /\ made <= MaxStorages /\ 1..made \subseteq Storages
        /\ Storages \subseteq Nat
    BY MaxStoragesAssumption DEF TypeOK, StoragesTyped, Storages
  <1>2. evolver # None => evolver.storage \in 1..made
    BY DEF TypeOK
  <1>3. Live \subseteq 1..made
    BY <1>2 DEF TypeOK, Live
  <1> QED BY <1>1, <1>3

\* The facts that hold of a storage just made from another one, if not None.
Grown(n, above, entries) ==
    /\ made < MaxStorages /\ n = made + 1
    /\ above \in Live \cup {None}
    /\ entries \in [Keys -> Entries \cup {None}]
    /\ alive' = alive /\ made' = n
    /\ parent' = [parent EXCEPT ![n] = above]
    /\ storages' = [t \in Storages |->
         IF t = n THEN {n}
         ELSE IF above # None /\ t \in Told(above) THEN storages[t] \cup {n} ELSE storages[t]]
    /\ data' = [data EXCEPT ![n] = entries]
    /\ Live' \subseteq Live \cup {n}

\* Its entries are its own or those of the one above, those of living keys all.
Inherits(n, above, entries) ==
    \A k \in Keys :
        LET inherited == above # None /\ data[above][k] # None
        IN  /\ inherited /\ k \in alive =>
                 entries[k] # None /\ entries[k].origin = data[above][k].origin
            /\ entries[k] # None =>
                 \/ entries[k].origin = n /\ ~ inherited /\ k \in alive
                 \/ entries[k].origin = data[above][k].origin /\ inherited

LEMMA GrownTyped ==
    ASSUME TypeOK, NEW n, NEW above, NEW entries,
           Grown(n, above, entries), Inherits(n, above, entries)
    PROVE  StoragesTyped'
  <1>1. /\ n \in Storages /\ n \in Nat /\ made \in Nat /\ n = made + 1 /\ Live \subseteq 1..made
        /\ Storages \subseteq Nat /\ Live \subseteq Storages
    <2>1. made < MaxStorages /\ n = made + 1
      BY DEF Grown
    <2>2. made \in Nat /\ Live \subseteq 1..made /\ Storages \subseteq Nat /\ Live \subseteq Storages
      BY LiveMade
    <2>3. MaxStorages \in Nat
      BY MaxStoragesAssumption
    <2>4. n \in Nat /\ n \in 1..MaxStorages
      BY ONLY <2>1, <2>2, <2>3
    <2>5. n \in Storages
      BY <2>4 DEF Storages
    <2> QED BY <2>1, <2>2, <2>4, <2>5
  <1>2. alive' \subseteq Keys /\ made' \in Storages
    BY <1>1 DEF Grown, TypeOK, StoragesTyped
  <1>3. above # None => above \in Storages /\ above < n
    <2>1. above # None => above \in Live
      BY DEF Grown
    <2>2. \A t \in 1..made : t < n
      BY ONLY <1>1
    <2> QED BY <1>1, <2>1, <2>2
  <1>4. /\ parent' \in [Storages -> Storages \cup {None}]
        /\ \A t \in Storages : parent'[t] # None => parent'[t] < t
    BY <1>1, <1>3 DEF Grown, TypeOK, StoragesTyped
  <1>5. \A t \in Storages : storages[t] \subseteq 1..n /\ n \in 1..n
    BY <1>1 DEF TypeOK, StoragesTyped
  <1>6. storages' \in [Storages -> SUBSET (1..made')]
    BY <1>1, <1>5 DEF Grown
  <1>7. ASSUME NEW t \in Storages, above # None, t \in Told(above) PROVE t <= n
    <2>1. t \in {above} \cup Live
      BY <1>7, AncestorsReachUp DEF Told
    <2> QED BY <1>1, <1>3, <1>7, <2>1
  <1>8. \A t \in Storages : \A u \in storages'[t] : t <= u
    <2> SUFFICES ASSUME NEW t \in Storages, NEW u \in storages'[t] PROVE t <= u
      OBVIOUS
    <2>1. CASE u = n
      <3>1. t = n \/ t \in storages[t] \/ (above # None /\ t \in Told(above)) \/ u \in storages[t]
        BY <2>1 DEF Grown
      <3> QED BY <1>1, <1>7, <2>1, <3>1 DEF Grown, TypeOK, StoragesTyped
    <2>2. CASE u # n
      <3>1. u \in storages[t]
        BY <2>2 DEF Grown
      <3> QED BY <3>1 DEF TypeOK, StoragesTyped
    <2> QED BY <2>1, <2>2
  <1>9. data' \in [Storages -> [Keys -> Entries \cup {None}]]
    BY DEF Grown, TypeOK, StoragesTyped
  <1>10. ASSUME NEW t \in Storages, NEW k \in Keys, data'[t][k] # None
         PROVE  data'[t][k].origin <= t
    <2>1. CASE t # n
      BY <1>10, <2>1 DEF Grown, TypeOK, StoragesTyped
    <2>2. CASE t = n
      <3>1. data'[t][k] = entries[k]
        BY <2>2 DEF Grown, TypeOK, StoragesTyped
      <3>2. CASE entries[k].origin = n
        BY <1>1, <2>2, <3>1, <3>2
      <3>3. CASE entries[k].origin # n
        <4>1. above # None /\ data[above][k] # None /\ entries[k].origin = data[above][k].origin
          BY <1>10, <3>1, <3>3 DEF Inherits
        <4>2. data[above][k].origin <= above /\ data[above][k] \in Entries
          BY <1>3, <4>1 DEF TypeOK, StoragesTyped
        <4>3. data[above][k].origin \in Nat
          BY <1>1, <4>2 DEF Entries
        <4>4. above \in Nat /\ above < n /\ n \in Nat
          BY <1>1, <1>3, <4>1
        <4>5. data[above][k].origin <= n
          <5> DEFINE x == data[above][k].origin
          <5>1. x \in Nat /\ x <= above
            BY <4>2, <4>3
          <5> HIDE DEF x
          <5>2. x <= n
            BY ONLY <4>4, <5>1
          <5> QED BY <5>2 DEF x
        <4> QED BY <2>2, <3>1, <4>1, <4>5
      <3> QED BY <3>2, <3>3
    <2> QED BY <2>1, <2>2
  <1> QED BY <1>2, <1>4, <1>6, <1>8, <1>9, <1>10 DEF StoragesTyped

\* Nothing of what was made before changes.
Keeps(n, above, entries) ==
    /\ n \in Storages /\ n \notin 1..made /\ 1..n = (1..made) \cup {n}
    /\ above # None => above \in 1..made
    /\ \A t \in Storages : t # n => data'[t] = data[t] /\ parent'[t] = parent[t]
    /\ data'[n] = entries /\ parent'[n] = above
    /\ \A t \in Storages : storages'[t] \ {n} \subseteq storages[t]
    /\ \A t \in Storages : n \notin storages[t]
    /\ \A t \in Storages, k \in Keys :
         data[t][k] # None => data[t][k].origin \in 1..made /\ t \in 1..made
    /\ parent[n] = None

LEMMA GrownKeeps ==
    ASSUME TypeOK, NotMadeYet, NEW n, NEW above, NEW entries,
           Grown(n, above, entries), Inherits(n, above, entries)
    PROVE  Keeps(n, above, entries)
  <1>1. /\ n \in Storages /\ n \in Nat /\ made \in Nat /\ n = made + 1 /\ Live \subseteq 1..made
        /\ Storages \subseteq Nat
    BY LiveMade, MaxStoragesAssumption DEF Grown, Storages
  <1>2. n \notin 1..made /\ 1..n = (1..made) \cup {n}
    BY <1>1
  <1>3. above # None => above \in 1..made
    BY <1>1 DEF Grown
  <1>4. /\ \A t \in Storages : t # n => data'[t] = data[t] /\ parent'[t] = parent[t]
        /\ data'[n] = entries /\ parent'[n] = above
    BY <1>1 DEF Grown, TypeOK, StoragesTyped
  <1>5. \A t \in Storages : storages[t] \subseteq 1..made
    BY DEF TypeOK, StoragesTyped
  <1>6. \A t \in Storages : storages'[t] \ {n} \subseteq storages[t]
    BY <1>1 DEF Grown
  <1>7. ASSUME NEW t \in Storages, NEW k \in Keys, data[t][k] # None
        PROVE  data[t][k].origin \in 1..made /\ t \in 1..made
    <2>1. data[t][k] \in Entries /\ data[t][k].origin <= t
      BY <1>7 DEF TypeOK, StoragesTyped
    <2>2. data[t][k].origin \in Storages
      BY <2>1 DEF Entries
    <2>3. ~ t > made
      BY <1>7 DEF NotMadeYet, NoUpdates
    <2> QED BY <1>1, <2>1, <2>2, <2>3 DEF Storages
  <1>8. parent[n] = None
    BY <1>1 DEF NotMadeYet
  <1> QED BY <1>1, <1>2, <1>3, <1>4, <1>5, <1>6, <1>7, <1>8 DEF Keeps

LEMMA GrownNotMadeYet ==
    ASSUME TypeOK, NotMadeYet, NEW n, NEW above, NEW entries,
           Grown(n, above, entries), Inherits(n, above, entries)
    PROVE  NotMadeYet'
  <1> SUFFICES ASSUME NEW t \in Storages, t > n
               PROVE  parent'[t] = None /\ data'[t] = NoUpdates
    BY DEF NotMadeYet, Grown, NoUpdates
  <1>1. Keeps(n, above, entries)
    BY GrownKeeps
  <1>2. t # n /\ t > made
    BY LiveMade DEF Grown
  <1> QED BY <1>1, <1>2 DEF NotMadeYet, Keeps

\* The way up from a storage that was there is not longer than it was, and that
\* from the new one begins with the way up from the one above it.
LEMMA GrownLive ==
    ASSUME TypeOK, NotMadeYet, NEW n, NEW above, NEW entries,
           Grown(n, above, entries), Inherits(n, above, entries)
    PROVE  /\ \A s \in 1..made : Ancestors(s, parent', Live') \subseteq Ancestors(s, parent, Live)
           /\ Ancestors(n, parent', Live') \subseteq
                {n} \cup (IF above = None THEN {} ELSE Ancestors(above, parent, Live))
  <1>1. Keeps(n, above, entries)
    BY GrownKeeps
  <1>2. /\ Live \subseteq 1..made /\ 1..made \subseteq Storages /\ Live' \subseteq Live \cup {n}
        /\ made \in Nat
    BY LiveMade DEF Grown
  <1>3. ASSUME NEW s \in 1..made
        PROVE  /\ s \in Ancestors(s, parent, Live) /\ Ancestors(s, parent, Live) \subseteq 1..made
               /\ ReachesUp(Ancestors(s, parent, Live), s, parent, Live)
    BY <1>2, AncestorsReachUp
  <1>4. ASSUME NEW s \in 1..made, NEW t \in Ancestors(s, parent, Live), parent'[t] \in Live'
        PROVE  parent'[t] \in Ancestors(s, parent, Live)
    <2>1. t \in 1..made
      BY <1>3
    <2>2. t \in Storages /\ parent'[t] = parent[t]
      BY <1>1, <1>2, <2>1 DEF Keeps
    <2>3. parent[t] # n
      <3>1. parent[t] # None => parent[t] < t
        BY <2>2 DEF TypeOK, StoragesTyped
      <3>2. n = made + 1 /\ n # None
        BY <1>1, NoneAssumption DEF Grown, Keeps
      <3> QED BY <1>2, <2>1, <3>1, <3>2
    <2>4. parent[t] \in Live
      BY <1>2, <1>4, <2>2, <2>3
    <2> QED BY <1>3, <2>2, <2>4 DEF ReachesUp
  <1>5. ASSUME NEW s \in 1..made
        PROVE  Ancestors(s, parent', Live') \subseteq Ancestors(s, parent, Live)
    <2>1. ReachesUp(Ancestors(s, parent, Live) \cap ({s} \cup Live'), s, parent', Live')
      BY <1>3, <1>4 DEF ReachesUp
    <2> QED BY <2>1, AncestorsLeast
  <1>6. CASE above = None
    <2>1. parent'[n] \notin Live'
      <3>1. parent'[n] = None /\ None \notin Storages /\ n \in Storages
        BY <1>1, <1>6, NoneAssumption DEF Keeps
      <3> QED BY <1>2, <3>1
    <2>2. ReachesUp({n} \cap ({n} \cup Live'), n, parent', Live')
      BY <2>1 DEF ReachesUp
    <2>3. Ancestors(n, parent', Live') \subseteq {n}
      BY <2>2, AncestorsLeast
    <2> QED BY <1>5, <1>6, <2>3
  <1>7. CASE above # None
    <2> DEFINE set == {n} \cup Ancestors(above, parent, Live)
    <2>1. above \in 1..made /\ parent'[n] = above /\ above \in Ancestors(above, parent, Live)
      BY <1>1, <1>3, <1>7 DEF Keeps
    <2>2. ReachesUp(set \cap ({n} \cup Live'), n, parent', Live')
      BY <1>4, <2>1 DEF ReachesUp
    <2> HIDE DEF set
    <2>3. Ancestors(n, parent', Live') \subseteq set
      BY <2>2, AncestorsLeast
    <2> QED BY <1>5, <1>7, <2>3 DEF set
  <1> QED BY <1>6, <1>7

LEMMA GrownAllTold ==
    ASSUME TypeOK, NotMadeYet, AllTold, NEW n, NEW above, NEW entries,
           Grown(n, above, entries), Inherits(n, above, entries)
    PROVE  AllTold'
  <1> SUFFICES ASSUME NEW s \in 1..n, NEW t \in Ancestors(s, parent', Live')
               PROVE  s \in storages'[t]
    BY DEF AllTold, Grown
  <1>1. Live \subseteq 1..made /\ 1..made \subseteq Storages
    BY LiveMade
  <1>2. Keeps(n, above, entries)
    BY GrownKeeps
  <1>3. CASE s \in 1..made
    <2>1. t \in Ancestors(s, parent, Live)
      BY <1>3, GrownLive
    <2>2. s \in storages[t] /\ t \in 1..made
      BY <1>1, <1>3, <2>1, AncestorsReachUp DEF AllTold
    <2>3. t \in Storages /\ t # n
      BY <1>1, <1>2, <2>2 DEF Keeps
    <2> QED BY <2>2, <2>3 DEF Grown
  <1>4. CASE s = n
    <2>1. t = n \/ (above # None /\ t \in Told(above))
      BY <1>4, GrownLive DEF Told
    <2>2. above # None => Told(above) \subseteq {above} \cup Live
      BY AncestorsReachUp DEF Told
    <2>3. t \in Storages
      BY <1>1, <1>2, <2>1, <2>2 DEF Keeps
    <2> QED BY <1>4, <2>1, <2>3 DEF Grown
  <1> QED BY <1>2, <1>3, <1>4 DEF Keeps

LEMMA GrownOriginsShared ==
    ASSUME TypeOK, NotMadeYet, AllTold, OriginsShared, NEW n, NEW above, NEW entries,
           Grown(n, above, entries), Inherits(n, above, entries)
    PROVE  OriginsShared'
  <1> SUFFICES ASSUME NEW k \in alive, NEW t \in Storages, data'[t][k] # None,
                      NEW s \in storages'[data'[t][k].origin]
               PROVE  data'[s][k] # None /\ data'[s][k].origin = data'[t][k].origin
    BY DEF OriginsShared, Grown
  <1> DEFINE origin == data'[t][k].origin
  <1>1. Keeps(n, above, entries) /\ k \in Keys /\ 1..made \subseteq Storages
    BY GrownKeeps, LiveMade DEF TypeOK, StoragesTyped
  <1>2. /\ storages'[n] = {n}
        /\ \A u \in Storages \ {n} : \A v \in storages'[u] :
              v \in storages[u] \/ (v = n /\ above # None /\ u \in Told(above))
    BY <1>1 DEF Grown, Keeps
  \* Entries other than those that the new storage introduces are those of some
  \* storage that was there.
  <1>3. \/ origin = n
        \/ \E u \in 1..made : data[u][k] # None /\ data[u][k].origin = origin
    <2>1. CASE t # n
      <3>1. data'[t] = data[t]
        BY <1>1, <2>1 DEF Keeps
      <3> QED BY <1>1, <3>1 DEF Keeps
    <2>2. CASE t = n
      BY <1>1, <2>2 DEF Keeps, Inherits
    <2> QED BY <2>1, <2>2
  <1>4. CASE origin = n
    <2>1. s = n
      BY <1>2, <1>4
    <2>2. t = n
      BY <1>1, <1>4 DEF Keeps
    <2> QED BY <2>1, <2>2
  <1>5. CASE origin # n
    <2>1. PICK u \in 1..made : data[u][k] # None /\ data[u][k].origin = origin
      BY <1>3, <1>5
    <2>2. origin \in 1..made /\ u \in Storages
      BY <1>1, <2>1 DEF Keeps
    <2>3. \A v \in storages[origin] : data[v][k] # None /\ data[v][k].origin = origin
      BY <2>1, <2>2 DEF OriginsShared
    <2>4. CASE s \in storages[origin]
      <3>1. s # n /\ s \in Storages
        BY <1>1, <2>2, <2>4 DEF Keeps, TypeOK, StoragesTyped
      <3> QED BY <1>1, <2>3, <2>4, <3>1 DEF Keeps
    <2>5. CASE s = n /\ above # None /\ origin \in Told(above)
      <3>1. above \in 1..made /\ above \in storages[origin]
        BY <1>1, <2>5 DEF Keeps, AllTold, Told
      <3>2. data[above][k] # None /\ data[above][k].origin = origin
        BY <2>3, <3>1
      <3>3. entries[k] # None /\ entries[k].origin = origin
        BY <1>1, <2>5, <3>2 DEF Inherits
      <3> QED BY <1>1, <2>5, <3>3 DEF Keeps
    <2>6. origin \in Storages \ {n}
      BY <1>1, <1>5, <2>2
    <2> QED BY <1>2, <2>4, <2>5, <2>6
  <1> QED BY <1>4, <1>5

\* The whole way up from a storage that was there stays, and that from the new one
\* has the whole way up from the one above it.
LEMMA GrownLineage ==
    ASSUME TypeOK, NotMadeYet, NEW n, NEW above, NEW entries,
           Grown(n, above, entries), Inherits(n, above, entries)
    PROVE  /\ \A s \in 1..made :
                /\ Ancestors(s, parent, Storages) \subseteq Ancestors(s, parent', Storages)
                /\ Ancestors(s, parent, Storages) \subseteq 1..made
           /\ n \in Ancestors(n, parent', Storages)
           /\ above # None =>
                Ancestors(above, parent, Storages) \subseteq Ancestors(n, parent', Storages)
  <1>1. Keeps(n, above, entries) /\ 1..made \subseteq Storages /\ made \in Nat
    BY GrownKeeps, LiveMade
  <1>2. ASSUME NEW s \in Storages
        PROVE  /\ s \in Ancestors(s, parent', Storages)
               /\ Ancestors(s, parent', Storages) \subseteq Storages
               /\ ReachesUp(Ancestors(s, parent', Storages), s, parent', Storages)
    BY AncestorsReachUp
  <1>3. ASSUME NEW s \in Storages, NEW t \in Ancestors(s, parent', Storages),
               parent[t] \in Storages
        PROVE  parent[t] \in Ancestors(s, parent', Storages)
    <2>1. t \in Storages /\ t # n
      BY <1>1, <1>2, <1>3, NoneAssumption DEF Keeps
    <2> QED BY <1>1, <1>2, <1>3, <2>1 DEF Keeps, ReachesUp
  <1>4. ASSUME NEW s \in 1..made
        PROVE  Ancestors(s, parent, Storages) \subseteq Ancestors(s, parent', Storages)
    <2>1. ReachesUp(Ancestors(s, parent', Storages) \cap ({s} \cup Storages), s, parent, Storages)
      BY <1>1, <1>2, <1>3 DEF ReachesUp
    <2> QED BY <2>1, AncestorsLeast
  <1>5. ASSUME NEW s \in 1..made PROVE Ancestors(s, parent, Storages) \subseteq 1..made
    <2>1. ASSUME NEW t \in 1..made, parent[t] \in Storages PROVE parent[t] \in 1..made
      <3>1. parent[t] < t /\ parent[t] \in Nat /\ parent[t] >= 1
        BY <1>1, <2>1, NoneAssumption, MaxStoragesAssumption DEF TypeOK, StoragesTyped, Storages
      <3> QED BY <1>1, <2>1, <3>1
    <2>2. ReachesUp((1..made) \cap ({s} \cup Storages), s, parent, Storages)
      BY <1>1, <2>1 DEF ReachesUp
    <2> QED BY <2>2, AncestorsLeast
  <1>6. ASSUME above # None
        PROVE  Ancestors(above, parent, Storages) \subseteq Ancestors(n, parent', Storages)
    <2>1. n \in Storages /\ parent'[n] = above /\ above \in Storages
      BY <1>1, <1>6 DEF Keeps
    <2>2. above \in Ancestors(n, parent', Storages)
      BY <1>2, <2>1 DEF ReachesUp
    <2>3. ReachesUp(Ancestors(n, parent', Storages) \cap ({above} \cup Storages),
                    above, parent, Storages)
      BY <1>2, <1>3, <2>1, <2>2 DEF ReachesUp
    <2> QED BY <2>3, AncestorsLeast
  <1> QED BY <1>1, <1>2, <1>4, <1>5, <1>6 DEF Keeps

LEMMA GrownIntroduced ==
    ASSUME TypeOK, NotMadeYet, Introduced, NEW n, NEW above, NEW entries,
           Grown(n, above, entries), Inherits(n, above, entries)
    PROVE  Introduced'
  <1> SUFFICES ASSUME NEW t \in Storages, NEW k \in Keys, data'[t][k] # None
               PROVE  data'[t][k].origin \in Ancestors(t, parent', Storages)
    BY DEF Introduced
  <1>1. Keeps(n, above, entries) /\ 1..made \subseteq Storages
    BY GrownKeeps, LiveMade
  <1>2. CASE t # n
    <2>1. data[t][k] # None /\ data'[t][k] = data[t][k] /\ t \in 1..made
      BY <1>1, <1>2 DEF Keeps
    <2>2. data[t][k].origin \in Ancestors(t, parent, Storages)
      BY <2>1 DEF Introduced
    <2> QED BY <2>1, <2>2, GrownLineage
  <1>3. CASE t = n
    <2>1. entries[k] # None /\ data'[t][k] = entries[k]
      BY <1>1, <1>3 DEF Keeps
    <2>2. CASE entries[k].origin = n
      BY <1>3, <2>1, <2>2, GrownLineage
    <2>3. CASE entries[k].origin # n
      <3>1. above # None /\ data[above][k] # None /\ entries[k].origin = data[above][k].origin
        BY <2>1, <2>3 DEF Inherits
      <3>2. entries[k].origin \in Ancestors(above, parent, Storages)
        BY <1>1, <3>1 DEF Keeps, Introduced
      <3> QED BY <1>3, <2>1, <3>1, <3>2, GrownLineage
    <2> QED BY <2>2, <2>3
  <1> QED BY <1>2, <1>3

LEMMA GrownForgotten ==
    ASSUME TypeOK, NotMadeYet, ForgottenWithKey, NEW n, NEW above, NEW entries,
           Grown(n, above, entries), Inherits(n, above, entries)
    PROVE  ForgottenWithKey'
  <1> SUFFICES ASSUME NEW s \in Live', NEW k \in Keys \ alive, data'[s][k] # None
               PROVE  \E t \in Ancestors(s, parent', Storages) :
                          t >= data'[s][k].origin /\ t \notin Live'
    BY DEF ForgottenWithKey, LineageOf, Grown
  <1>1. /\ Keeps(n, above, entries) /\ Live' \subseteq Live \cup {n}
        /\ Live \subseteq 1..made /\ 1..made \subseteq Storages
    BY GrownKeeps, LiveMade DEF Grown
  \* Where the lineage of a storage that was referred to was broken it stays so.
  <1>2. ASSUME NEW u \in Live, data[u][k] # None
        PROVE  \E t \in Ancestors(u, parent, Storages) :
                   t >= data[u][k].origin /\ t \notin Live' /\ t \in 1..made
    <2>1. PICK t \in Ancestors(u, parent, Storages) : t >= data[u][k].origin /\ t \notin Live
      BY <1>2 DEF ForgottenWithKey, LineageOf
    <2>2. t \in 1..made
      BY <1>1, GrownLineage
    <2> QED BY <1>1, <2>1, <2>2 DEF Keeps
  <1>3. CASE s \in Live
    <2>1. s \in 1..made /\ data'[s] = data[s]
      BY <1>1, <1>3 DEF Keeps
    <2>2. Ancestors(s, parent, Storages) \subseteq Ancestors(s, parent', Storages)
      BY <2>1, GrownLineage
    <2> QED BY <1>2, <1>3, <2>1, <2>2
  <1>4. CASE s = n
    <2>1. entries[k] # None /\ data'[s][k] = entries[k]
      BY <1>1, <1>4 DEF Keeps
    <2>2. above # None /\ data[above][k] # None /\ entries[k].origin = data[above][k].origin
      BY <2>1 DEF Inherits
    <2>3. above \in Live
      BY <2>2 DEF Grown
    <2>4. Ancestors(above, parent, Storages) \subseteq Ancestors(n, parent', Storages)
      BY <2>2, GrownLineage
    <2> QED BY <1>2, <1>4, <2>1, <2>2, <2>3, <2>4
  <1> QED BY <1>1, <1>3, <1>4

LEMMA GrownIInv ==
    ASSUME IInv, NEW n, NEW above, NEW entries,
           Grown(n, above, entries), Inherits(n, above, entries),
           held' \subseteq 1..n, PinnedLive',
           evolver' = None \/ evolver' \in [storage : 1..n, updates : Updates]
    PROVE  IInv'
  <1> USE DEF IInv
  <1>1. TypeOK'
    BY GrownTyped DEF Grown, TypeOK
  <1>2. NotMadeYet'
    BY GrownNotMadeYet
  <1>3. AllTold'
    BY GrownAllTold
  <1>4. OriginsShared'
    BY GrownOriginsShared
  <1>5. Introduced'
    BY GrownIntroduced
  <1>6. ForgottenWithKey'
    BY GrownForgotten
  <1> QED BY <1>1, <1>2, <1>3, <1>4, <1>5, <1>6

LEMMA UpdateGrows ==
    ASSUME IInv, NEW s, NEW updates \in Updates, {k \in Keys : updates[k] # None} \subseteq alive,
           MakeUpdated(s, updates), alive' = alive, Live' \subseteq Live \cup {made + 1}
    PROVE  /\ Grown(made + 1, s, Updated(s, made + 1, updates))
           /\ Inherits(made + 1, s, Updated(s, made + 1, updates))
  <1> DEFINE n == made + 1
             entries == Updated(s, n, updates)
  <1>1. /\ n \in Storages /\ s \in Live /\ s \in Storages /\ s # None
        /\ data[s] \in [Keys -> Entries \cup {None}]
    BY LiveMade, MaxStoragesAssumption, NoneAssumption
       DEF IInv, MakeUpdated, TypeOK, StoragesTyped, Storages
  <1>2. \A k \in Keys :
          /\ data[s][k] = None \/ (data[s][k] # None /\ data[s][k] \in Entries)
          /\ updates[k] = None \/ (updates[k] \in Values /\ k \in alive)
    BY <1>1 DEF Updates
  <1>3. \A k \in Keys :
          /\ entries[k] \in Entries \cup {None}
          /\ updates[k] = None => entries[k] = data[s][k]
          /\ updates[k] # None /\ data[s][k] = None =>
                /\ entries[k] = Entry(updates[k], n) /\ entries[k] # None
                /\ entries[k].origin = n
          /\ updates[k] # None /\ data[s][k] # None =>
                entries[k] # None /\ entries[k].origin = data[s][k].origin
    <2> SUFFICES ASSUME NEW k \in Keys
                 PROVE  /\ entries[k] \in Entries \cup {None}
                        /\ updates[k] = None => entries[k] = data[s][k]
                        /\ updates[k] # None /\ data[s][k] = None =>
                              /\ entries[k] = Entry(updates[k], n) /\ entries[k] # None
                              /\ entries[k].origin = n
                        /\ updates[k] # None /\ data[s][k] # None =>
                              entries[k] # None /\ entries[k].origin = data[s][k].origin
      OBVIOUS
    <2>1. CASE updates[k] = None
      BY <1>1, <2>1 DEF Updated
    <2>2. CASE updates[k] # None /\ data[s][k] = None
      <3>1. entries[k] = Entry(updates[k], n) /\ updates[k] \in Values
        BY <1>2, <2>2 DEF Updated
      <3>2. Entry(updates[k], n) \in Entries /\ Entry(updates[k], n).origin = n
        BY <1>1, <3>1 DEF Entry, Entries
      <3> QED BY <2>2, <3>1, <3>2, NoneAssumption DEF Entries
    <2>3. CASE updates[k] # None /\ data[s][k] # None
      <3>1. /\ entries[k] = [data[s][k] EXCEPT !.value = updates[k]]
            /\ updates[k] \in Values /\ data[s][k] \in Entries
        BY <1>2, <2>3 DEF Updated
      <3>2. entries[k] \in Entries /\ entries[k].origin = data[s][k].origin
        BY <3>1 DEF Entries
      <3> QED BY <2>3, <3>2, NoneAssumption DEF Entries
    <2> QED BY <2>1, <2>2, <2>3
  <1>4. entries \in [Keys -> Entries \cup {None}]
    BY <1>3 DEF Updated
  <1>5. Inherits(n, s, entries)
    BY <1>1, <1>2, <1>3 DEF Inherits
  <1>6. made < MaxStorages
    BY DEF MakeUpdated
  <1> HIDE DEF entries
  <1>7. Grown(n, s, entries)
    BY <1>1, <1>4, <1>6 DEF Grown, MakeUpdated, DataUpdated, entries
  <1> QED BY <1>5, <1>7 DEF entries

LEMMA InitializeGrows ==
    ASSUME IInv, NEW initial \in Updates, {k \in Keys : initial[k] # None} \subseteq alive,
           Initialize(initial)
    PROVE  LET entries == [k \in Keys |-> IF initial[k] = None THEN None
                                         ELSE Entry(initial[k], made + 1)]
           IN  Grown(made + 1, None, entries) /\ Inherits(made + 1, None, entries)
  <1> DEFINE n == made + 1
             entries == [k \in Keys |-> IF initial[k] = None THEN None ELSE Entry(initial[k], n)]
  <1>1. n \in Storages /\ storages \in [Storages -> SUBSET (1..made)]
    BY LiveMade, MaxStoragesAssumption DEF IInv, Initialize, TypeOK, StoragesTyped, Storages
  <1>2. \A k \in Keys : initial[k] # None =>
          /\ Entry(initial[k], n) \in Entries /\ Entry(initial[k], n).origin = n
          /\ Entry(initial[k], n) # None /\ k \in alive
    BY <1>1, NoneAssumption DEF Entry, Entries, Updates
  <1>3. entries \in [Keys -> Entries \cup {None}]
    BY <1>2
  <1>4. Inherits(n, None, entries)
    BY <1>2 DEF Inherits
  <1>5. storages' = [t \in Storages |->
           IF t = n THEN {n}
           ELSE IF None # None /\ t \in Told(None) THEN storages[t] \cup {n} ELSE storages[t]]
    BY <1>1 DEF Initialize
  <1>6. Live' \subseteq Live \cup {n}
    BY DEF Initialize, Live
  <1>7. data' = [data EXCEPT ![n] = entries]
    BY DEF Initialize
  <1> HIDE DEF entries
  <1>8. Grown(n, None, entries)
    BY <1>3, <1>5, <1>6, <1>7 DEF Grown, Initialize
  <1> QED BY <1>4, <1>8 DEF entries

-----------------------------------------------------------------------------
(* The actions.                                                            *)

LEMMA InitIInv == Init => IInv
  <1> SUFFICES ASSUME Init PROVE IInv
    OBVIOUS
  <1>1. 1 \in Storages /\ made = 1 /\ made \in Nat /\ 1..made = {1} /\ Live = {1}
        /\ Storages \subseteq Nat
    BY MaxStoragesAssumption DEF Init, Storages, Live
  <1>2. \A s \in Storages, k \in Keys : data[s][k] = None
    BY DEF Init, NoUpdates
  <1>3. TypeOK
    <2>1. parent \in [Storages -> Storages \cup {None}] /\ \A s \in Storages : parent[s] = None
      BY DEF Init
    <2>2. /\ storages \in [Storages -> SUBSET (1..made)]
          /\ \A s \in Storages : \A t \in storages[s] : s <= t
      BY <1>1 DEF Init
    <2>3. data \in [Storages -> [Keys -> Entries \cup {None}]]
      BY DEF Init, NoUpdates
    <2>4. StoragesTyped
      BY <1>1, <1>2, <2>1, <2>2, <2>3 DEF StoragesTyped, Init
    <2> QED BY <1>1, <2>4 DEF TypeOK, Init
  <1>4. AllTold
    <2> SUFFICES ASSUME NEW t \in Ancestors(1, parent, Live) PROVE 1 \in storages[t]
      BY <1>1 DEF AllTold
    <2>1. t = 1
      BY <1>1, AncestorsReachUp
    <2> QED BY <1>1, <2>1 DEF Init
  <1>5. NotMadeYet /\ PinnedLive
    BY DEF Init, NotMadeYet, PinnedLive, Pinned
  <1>6. OriginsShared /\ Introduced /\ ForgottenWithKey
    <2>1. OriginsShared /\ Introduced
      BY <1>2 DEF OriginsShared, Introduced, Init
    <2>2. ForgottenWithKey
      BY <1>1, <1>2 DEF ForgottenWithKey
    <2> QED BY <2>1, <2>2
  <1> QED BY <1>3, <1>4, <1>5, <1>6 DEF IInv

LEMMA CopyStep == ASSUME IInv, NEW s \in Storages, Copy(s) PROVE IInv'
  <1> DEFINE initial == ToDict(s)
             entries == [k \in Keys |-> IF initial[k] = None THEN None
                                       ELSE Entry(initial[k], made + 1)]
  <1>1. initial \in Updates
    <2>1. \A k \in Keys : data[s][k] # None => data[s][k].value \in Values
      BY DEF IInv, TypeOK, StoragesTyped, Entries
    <2> QED BY <2>1 DEF ToDict, Updates
  <1>2. {k \in Keys : initial[k] # None} \subseteq alive /\ Initialize(initial)
    BY DEF ToDict, Copy
  <1> HIDE DEF initial
  <1>3. Grown(made + 1, None, entries) /\ Inherits(made + 1, None, entries)
    BY <1>1, <1>2, InitializeGrows
  <1>4. /\ held' \subseteq 1..(made + 1) /\ PinnedLive'
        /\ evolver' = None \/ evolver' \in [storage : 1..(made + 1), updates : Updates]
    <2>1. evolver' = evolver /\ alive' = alive /\ held' = held \cup {made + 1} /\ made \in Nat
      BY <1>2, LiveMade DEF Initialize, IInv
    <2>2. 1..made \subseteq 1..(made + 1) /\ made + 1 \in 1..(made + 1)
      BY <2>1
    <2>3. PinnedLive'
      BY <2>1 DEF IInv, PinnedLive, Pinned
    <2> QED BY <2>1, <2>2, <2>3 DEF IInv, TypeOK
  <1> HIDE DEF entries
  <1> QED BY <1>3, <1>4, GrownIInv

\* The storage that an evolver or the program makes.
LEMMA UpdateIInv ==
    ASSUME IInv, NEW s, NEW updates \in Updates, {k \in Keys : updates[k] # None} \subseteq alive,
           MakeUpdated(s, updates), alive' = alive, Live' \subseteq Live \cup {made + 1},
           held' \subseteq held \cup {made + 1}, PinnedLive',
           evolver' = evolver \/ evolver' \in [storage : {made + 1}, updates : Updates]
    PROVE  IInv'
  <1>1. made \in Nat /\ 1..made \subseteq 1..(made + 1) /\ made + 1 \in 1..(made + 1)
    BY LiveMade DEF IInv
  <1>2. evolver' = None \/ evolver' \in [storage : 1..(made + 1), updates : Updates]
    BY <1>1 DEF IInv, TypeOK
  <1>3. held' \subseteq 1..(made + 1)
    BY <1>1 DEF IInv, TypeOK
  <1>4. /\ Grown(made + 1, s, Updated(s, made + 1, updates))
        /\ Inherits(made + 1, s, Updated(s, made + 1, updates))
    BY UpdateGrows
  <1> QED BY <1>2, <1>3, <1>4, GrownIInv

LEMMA UpdateStep ==
    ASSUME IInv, NEW s \in Storages, NEW k \in Keys, NEW value \in Values, Update(s, k, value)
    PROVE  IInv'
  <1> DEFINE updates == [NoUpdates EXCEPT ![k] = value]
  <1>1. updates \in Updates /\ {j \in Keys : updates[j] # None} \subseteq alive
    BY DEF Update, Updates, NoUpdates
  <1>2. /\ MakeUpdated(s, updates) /\ alive' = alive /\ evolver' = evolver
        /\ held' = held \cup {made + 1}
    BY DEF Update
  <1>3. Live' \subseteq Live \cup {made + 1} /\ PinnedLive'
    BY <1>2 DEF Live, IInv, PinnedLive, Pinned
  <1> HIDE DEF updates
  <1> QED BY <1>1, <1>2, <1>3, UpdateIInv

LEMMA PersistentStep == ASSUME IInv, Persistent PROVE IInv'
  <1>1. evolver # None /\ evolver.updates \in Updates
    BY DEF IInv, TypeOK, Persistent, IsDirty
  <1>2. {k \in Keys : evolver.updates[k] # None} \subseteq alive
    BY <1>1 DEF IInv, PinnedLive, Pinned
  <1>3. /\ MakeUpdated(evolver.storage, evolver.updates) /\ alive' = alive /\ evolver' = evolver
        /\ held' = held \cup {made + 1}
    BY DEF Persistent
  <1>4. Live' \subseteq Live \cup {made + 1} /\ PinnedLive'
    BY <1>3 DEF Live, IInv, PinnedLive, Pinned
  <1> QED BY <1>1, <1>2, <1>3, <1>4, UpdateIInv

LEMMA CommitUpdatesStep == ASSUME IInv, CommitUpdates PROVE IInv'
  <1>1. evolver # None /\ evolver.updates \in Updates
    BY DEF IInv, TypeOK, CommitUpdates, IsDirty
  <1>2. {k \in Keys : evolver.updates[k] # None} \subseteq alive
    BY <1>1 DEF IInv, PinnedLive, Pinned
  <1>3. /\ MakeUpdated(evolver.storage, evolver.updates) /\ alive' = alive /\ held' = held
        /\ evolver' = [storage |-> made + 1, updates |-> NoUpdates]
    BY DEF CommitUpdates, Committed
  <1>4. Live' \subseteq Live \cup {made + 1} /\ PinnedLive'
    BY <1>3 DEF Live, PinnedLive, Pinned, NoUpdates
  <1>5. evolver' \in [storage : {made + 1}, updates : Updates]
    BY <1>3 DEF Updates, NoUpdates
  <1> QED BY <1>1, <1>2, <1>3, <1>4, <1>5, UpdateIInv

\* Steps that leave the storages alone and refer to no others.
LEMMA SameStorages ==
    ASSUME IInv, UNCHANGED <<alive, made, parent, storages, data>>, Live' \subseteq Live,
           held' \subseteq held, PinnedLive',
           evolver' = None \/ evolver' \in [storage : 1..made, updates : Updates]
    PROVE  IInv'
  <1>1. TypeOK'
    BY DEF IInv, TypeOK, StoragesTyped
  <1>2. AllTold'
    <2> SUFFICES ASSUME NEW s \in 1..made, NEW t \in Ancestors(s, parent, Live')
                 PROVE  s \in storages[t]
      BY DEF AllTold
    <2>1. t \in Ancestors(s, parent, Live)
      BY AncestorsFewer
    <2> QED BY <2>1 DEF IInv, AllTold
  <1>3. NotMadeYet' /\ OriginsShared' /\ Introduced'
    BY DEF IInv, NotMadeYet, OriginsShared, Introduced
  <1>4. ForgottenWithKey'
    <2> SUFFICES ASSUME NEW s \in Live', NEW k \in Keys \ alive, data[s][k] # None,
                        LineageOf(s, data[s][k].origin) \subseteq Live'
                 PROVE  FALSE
      BY DEF ForgottenWithKey, LineageOf
    <2> QED BY DEF IInv, ForgottenWithKey
  <1> QED BY <1>1, <1>2, <1>3, <1>4 DEF IInv

LEMMA OtherSteps ==
    ASSUME IInv,
           \/ \E s \in Storages : Drop(s) \/ Evolve(s)
           \/ \E k \in Keys, value \in Values : EvolverUpdate(k, value)
           \/ Reset \/ DropEvolver
    PROVE  IInv'
  <1>1. evolver = None \/ evolver \in [storage : 1..made, updates : Updates]
    BY DEF IInv, TypeOK
  <1>2. ASSUME NEW s \in Storages, Drop(s) PROVE IInv'
    <2>1. /\ UNCHANGED <<alive, made, parent, storages, data, evolver>>
          /\ held' = held \ {s} /\ Live' \subseteq Live
      BY <1>2 DEF Drop, Live
    <2>2. PinnedLive'
      BY <2>1 DEF IInv, PinnedLive, Pinned
    <2> QED BY <1>1, <2>1, <2>2, SameStorages
  <1>3. ASSUME NEW s \in Storages, Evolve(s) PROVE IInv'
    <2>1. /\ UNCHANGED <<alive, made, parent, storages, data, held>>
          /\ evolver' = [storage |-> s, updates |-> NoUpdates] /\ s \in Live /\ s \in 1..made
      BY <1>3, LiveMade DEF Evolve, IInv
    <2>2. evolver' \in [storage : 1..made, updates : Updates]
      BY <2>1 DEF Updates, NoUpdates
    <2>3. Live' \subseteq Live /\ PinnedLive'
      BY <2>1 DEF Live, PinnedLive, Pinned, NoUpdates
    <2> QED BY <2>1, <2>2, <2>3, SameStorages
  <1>4. ASSUME NEW k \in Keys, NEW value \in Values, EvolverUpdate(k, value) PROVE IInv'
    <2>1. /\ UNCHANGED <<alive, made, parent, storages, data, held>> /\ k \in alive
          /\ evolver # None /\ evolver' = [evolver EXCEPT !.updates[k] = value]
      BY <1>4 DEF EvolverUpdate
    <2>2. /\ evolver' \in [storage : 1..made, updates : Updates]
          /\ evolver'.storage = evolver.storage
          /\ \A j \in Keys : j # k => evolver'.updates[j] = evolver.updates[j]
      BY <1>1, <2>1 DEF Updates
    <2>3. Live' \subseteq Live
      BY <2>1, <2>2 DEF Live
    <2>4. PinnedLive'
      BY <2>1, <2>2 DEF IInv, PinnedLive, Pinned
    <2> QED BY <2>1, <2>2, <2>3, <2>4, SameStorages
  <1>5. ASSUME Reset PROVE IInv'
    <2>1. /\ UNCHANGED <<alive, made, parent, storages, data, held>>
          /\ evolver # None /\ evolver' = [evolver EXCEPT !.updates = NoUpdates]
      BY <1>5 DEF Reset, IsDirty
    <2>2. /\ evolver' \in [storage : 1..made, updates : Updates]
          /\ evolver'.storage = evolver.storage /\ evolver'.updates = NoUpdates
      BY <1>1, <2>1 DEF Updates, NoUpdates
    <2>3. Live' \subseteq Live /\ PinnedLive'
      BY <2>1, <2>2 DEF Live, PinnedLive, Pinned, NoUpdates
    <2> QED BY <2>1, <2>2, <2>3, SameStorages
  <1>6. ASSUME DropEvolver PROVE IInv'
    <2>1. UNCHANGED <<alive, made, parent, storages, data, held>> /\ evolver' = None
      BY <1>6 DEF DropEvolver
    <2>2. Live' \subseteq Live /\ PinnedLive'
      BY <2>1 DEF Live, PinnedLive, Pinned
    <2> QED BY <2>1, <2>2, SameStorages
  <1> QED BY <1>2, <1>3, <1>4, <1>5, <1>6

\* A key is collected: the entries of other keys stay, and its own stay where the
\* way up to the storage that made its weak key is not whole.
LEMMA CollectStep == ASSUME IInv, NEW k \in Keys, Collect(k) PROVE IInv'
  <1>1. /\ UNCHANGED <<made, held, parent, storages, evolver>> /\ Live' = Live
        /\ alive' = alive \ {k} /\ k \in alive /\ k \notin Pinned
        /\ data' = [s \in Storages |-> IF s \in Cleaned(k) THEN [data[s] EXCEPT ![k] = None]
                                      ELSE data[s]]
    BY DEF Collect, Live
  <1>2. data \in [Storages -> [Keys -> Entries \cup {None}]]
    BY DEF IInv, TypeOK, StoragesTyped
  <1>3. \A s \in Storages, j \in Keys :
          data'[s][j] = IF j = k /\ s \in Cleaned(k) THEN None ELSE data[s][j]
    BY <1>1, <1>2
  <1>4. TypeOK'
    <2>1. data' \in [Storages -> [Keys -> Entries \cup {None}]]
      BY <1>1, <1>2
    <2>2. \A s \in Storages, j \in Keys : data'[s][j] # None => data'[s][j].origin <= s
      BY <1>3 DEF IInv, TypeOK, StoragesTyped
    <2>3. StoragesTyped'
      BY <1>1, <2>1, <2>2 DEF IInv, TypeOK, StoragesTyped
    <2> QED BY <1>1, <2>3 DEF IInv, TypeOK
  <1>5. NotMadeYet'
    <2> SUFFICES ASSUME NEW s \in Storages, s > made PROVE parent'[s] = None /\ data'[s] = NoUpdates
      BY <1>1 DEF NotMadeYet, NoUpdates
    <2>1. parent[s] = None /\ \A j \in Keys : data[s][j] = None
      BY DEF IInv, NotMadeYet, NoUpdates
    <2>2. data'[s] \in [Keys -> Entries \cup {None}]
      BY <1>4 DEF TypeOK, StoragesTyped
    <2> QED BY <1>1, <1>3, <2>1, <2>2 DEF NoUpdates
  <1>6. PinnedLive' /\ AllTold'
    BY <1>1 DEF IInv, PinnedLive, Pinned, AllTold
  <1>7. OriginsShared'
    <2> SUFFICES ASSUME NEW j \in alive \ {k}, NEW t \in Storages, data'[t][j] # None,
                        NEW s \in storages[data'[t][j].origin]
                 PROVE  data'[s][j] # None /\ data'[s][j].origin = data'[t][j].origin
      BY <1>1 DEF OriginsShared
    <2>1. j \in Keys /\ data'[t][j] = data[t][j]
      BY <1>3 DEF IInv, TypeOK, StoragesTyped
    <2>2. data[t][j].origin \in Storages
      BY <1>2, <2>1 DEF Entries
    <2>3. s \in Storages
      BY <2>1, <2>2, LiveMade DEF IInv, TypeOK, StoragesTyped
    <2>4. data[s][j] # None /\ data[s][j].origin = data[t][j].origin
      BY <2>1 DEF IInv, OriginsShared
    <2> QED BY <1>3, <2>1, <2>3, <2>4
  <1>8. Introduced'
    BY <1>1, <1>3 DEF IInv, Introduced
  <1>9. ForgottenWithKey'
    <2> SUFFICES ASSUME NEW s \in Live, NEW j \in Keys \ (alive \ {k}), data'[s][j] # None,
                        LineageOf(s, data'[s][j].origin) \subseteq Live
                 PROVE  FALSE
      BY <1>1 DEF ForgottenWithKey, LineageOf
    <2>1. s \in Storages /\ Live \in SUBSET Storages /\ data'[s][j] = data[s][j]
      BY <1>3, LiveMade DEF IInv
    <2>2. CASE j # k
      BY <2>1, <2>2 DEF IInv, ForgottenWithKey
    <2>3. CASE j = k
      <3> DEFINE origin == data[s][k].origin
      <3>1. data[s][k] # None /\ s \notin Cleaned(k)
        BY <1>3, <2>1, <2>3
      <3>2. origin \in WeakKeys(k)
        BY <3>1 DEF WeakKeys
      <3>3. s \notin storages[origin]
        BY <3>1, <3>2 DEF Cleaned
      <3>4. origin \in Ancestors(s, parent, Storages)
        BY <2>1, <3>1 DEF IInv, Introduced
      <3>5. LineageOf(s, origin) \subseteq Live
        BY <2>1, <2>3
      <3> HIDE DEF origin
      <3>6. origin \in Ancestors(s, parent, Live)
        BY <2>1, <3>4, <3>5, LineageWhole DEF IInv, TypeOK
      <3>7. s \in 1..made
        BY LiveMade DEF IInv
      <3> QED BY <3>3, <3>6, <3>7 DEF IInv, AllTold
    <2> QED BY <2>2, <2>3
  <1> QED BY <1>4, <1>5, <1>6, <1>7, <1>8, <1>9 DEF IInv

LEMMA NextIInv == IInv /\ [Next]_vars => IInv'
  <1> SUFFICES ASSUME IInv, [Next]_vars PROVE IInv'
    OBVIOUS
  <1>1. CASE UNCHANGED vars
    <2>1. /\ UNCHANGED <<alive, made, parent, storages, data>> /\ held' = held
          /\ evolver' = evolver
      BY <1>1 DEF vars
    <2>2. Live' = Live /\ PinnedLive'
      BY <2>1 DEF Live, IInv, PinnedLive, Pinned
    <2>3. evolver' = None \/ evolver' \in [storage : 1..made, updates : Updates]
      BY <2>1 DEF IInv, TypeOK
    <2> QED BY <2>1, <2>2, <2>3, SameStorages
  <1>2. CASE Next
    BY <1>2, CopyStep, UpdateStep, CollectStep, PersistentStep, CommitUpdatesStep, OtherSteps
       DEF Next
  <1> QED BY <1>1, <1>2

-----------------------------------------------------------------------------
(* The theorems.                                                           *)

\* The inductive invariant holds of every run.
THEOREM Invariance == Spec => []IInv
  BY InitIInv, NextIInv, PTL DEF Spec

\* A value is forgotten with its key by every storage from which the storage that
\* introduced the key can be walked up to (update's loop over parents,
\* storage.py:166).
THEOREM AlwaysForgottenWithKey == Spec => []ForgottenWithKey
  <1>1. IInv => ForgottenWithKey
    BY DEF IInv
  <1> QED BY <1>1, Invariance, PTL

\* The callback of a weak key finds it in every storage it cleans (storage.py:121).
THEOREM AlwaysCleaningCompletes == Spec => []CleaningCompletes
  <1>1. IInv => CleaningCompletes
    <2> SUFFICES ASSUME IInv, NEW k \in alive, NEW origin \in WeakKeys(k),
                        NEW s \in storages[origin] \cap Live
                 PROVE  data[s][k] # None /\ data[s][k].origin = origin
      BY DEF CleaningCompletes
    <2>1. PICK t \in Live : data[t][k] # None /\ origin = data[t][k].origin
      BY DEF WeakKeys
    <2>2. t \in Storages
      BY LiveMade DEF IInv
    <2> QED BY <2>1, <2>2 DEF IInv, OriginsShared
  <1> QED BY <1>1, Invariance, PTL

\* The entries of living keys stay in the storages that are there.
LEMMA EntriesStay ==
    ASSUME IInv, [Next]_vars, NEW s \in Live, NEW k \in alive'
    PROVE  data'[s][k] = data[s][k] /\ k \in alive /\ k \in Keys
  <1>1. /\ s \in Storages /\ s \in 1..made /\ made \in Nat /\ alive \subseteq Keys
        /\ data \in [Storages -> [Keys -> Entries \cup {None}]]
    BY LiveMade DEF IInv, TypeOK, StoragesTyped
  <1>2. s # made + 1
    BY <1>1
  <1>3. ASSUME NEW updates, NEW t, MakeUpdated(t, updates) PROVE data'[s] = data[s]
    BY <1>1, <1>2, <1>3 DEF MakeUpdated, DataUpdated
  <1>4. ASSUME NEW j \in Keys, Collect(j) PROVE data'[s][k] = data[s][k] /\ k \in alive
    <2>1. k \in alive \ {j} /\ k \in Keys /\ data[s] \in [Keys -> Entries \cup {None}]
      BY <1>1, <1>4 DEF Collect
    <2>2. \/ data'[s] = data[s]
          \/ data'[s] = [data[s] EXCEPT ![j] = None]
      BY <1>1, <1>4 DEF Collect
    <2> QED BY <2>1, <2>2
  <1>5. ASSUME NEW t \in Storages, Copy(t) PROVE data'[s] = data[s] /\ alive' = alive
    BY <1>1, <1>2, <1>5 DEF Copy, Initialize
  <1>6. ASSUME NEW t \in Storages, NEW j \in Keys, NEW value \in Values, Update(t, j, value)
        PROVE  data'[s] = data[s] /\ alive' = alive
    BY <1>3, <1>6 DEF Update
  <1>7. ASSUME Persistent \/ CommitUpdates PROVE data'[s] = data[s] /\ alive' = alive
    BY <1>3, <1>7 DEF Persistent, CommitUpdates
  <1>8. ASSUME \/ UNCHANGED vars
               \/ \E t \in Storages : Drop(t) \/ Evolve(t)
               \/ \E j \in Keys, value \in Values : EvolverUpdate(j, value)
               \/ Reset \/ DropEvolver
        PROVE  data' = data /\ alive' = alive
    BY <1>8 DEF vars, Drop, Evolve, EvolverUpdate, Reset, DropEvolver
  <1> QED BY <1>1, <1>4, <1>5, <1>6, <1>7, <1>8 DEF Next

\* What the evolver committed is read through its new storage.
LEMMA CommitRead ==
    ASSUME IInv, CommitUpdates, NEW k \in alive'
    PROVE  EvolverQuery(evolver, k)' = EvolverQuery(evolver, k)
  <1> DEFINE n == made + 1
             s == evolver.storage
             updates == evolver.updates
  <1>1. /\ evolver # None /\ updates \in Updates /\ s \in Live /\ k \in Keys
        /\ made \in Nat /\ made < MaxStorages
    BY LiveMade DEF IInv, TypeOK, StoragesTyped, CommitUpdates, IsDirty, Live, MakeUpdated
  <1>2. n \in Storages /\ s \in Storages
    BY <1>1, LiveMade, MaxStoragesAssumption DEF IInv, Storages
  <1>3. /\ evolver' = [storage |-> n, updates |-> NoUpdates]
        /\ data' = [data EXCEPT ![n] = Updated(s, n, updates)]
        /\ data \in [Storages -> [Keys -> Entries \cup {None}]]
    BY DEF CommitUpdates, Committed, MakeUpdated, DataUpdated, IInv, TypeOK, StoragesTyped
  <1>4. data'[n] = Updated(s, n, updates)
    BY <1>2, <1>3
  <1>5. EvolverQuery(evolver, k)' = IF data'[n][k] = None THEN None ELSE data'[n][k].value
    BY <1>1, <1>3 DEF EvolverQuery, NoUpdates
  <1>6. data[s][k] \in Entries \cup {None} /\ updates[k] \in Values \cup {None}
    BY <1>1, <1>2, <1>3 DEF Updates
  <1>7. CASE updates[k] = None
    <2>1. data'[n][k] = data[s][k]
      BY <1>1, <1>4, <1>7 DEF Updated
    <2> QED BY <1>5, <1>7, <2>1 DEF EvolverQuery
  <1>8. CASE updates[k] # None /\ data[s][k] = None
    <2>1. data'[n][k] = Entry(updates[k], n) /\ Entry(updates[k], n) \in Entries
      BY <1>1, <1>2, <1>4, <1>6, <1>8 DEF Updated, Entry, Entries
    <2>2. data'[n][k] # None /\ data'[n][k].value = updates[k]
      BY <2>1, NoneAssumption DEF Entry, Entries
    <2> QED BY <1>5, <1>8, <2>2 DEF EvolverQuery
  <1>9. CASE updates[k] # None /\ data[s][k] # None
    <2>1. data'[n][k] = [data[s][k] EXCEPT !.value = updates[k]]
      BY <1>1, <1>4, <1>9 DEF Updated
    <2>2. data'[n][k] \in Entries /\ data'[n][k].value = updates[k]
      BY <1>6, <1>9, <2>1 DEF Entries
    <2>3. data'[n][k] # None
      BY <2>2, NoneAssumption DEF Entries
    <2> QED BY <1>5, <1>9, <2>2, <2>3 DEF EvolverQuery
  <1> QED BY <1>7, <1>8, <1>9

\* No step changes what a storage says of a living key, nor does a commit what is
\* read through the evolver (storage.py:189, storage.py:334).
THEOREM AlwaysImmutable == Spec => Immutable
  <1> DEFINE Same ==
        /\ \A s \in Live \cap Live', k \in alive \cap alive' : ToDict(s)[k]' = ToDict(s)[k]
        /\ CommitUpdates =>
             \A k \in alive' : EvolverQuery(evolver, k)' = EvolverQuery(evolver, k)
  <1>1. IInv /\ [Next]_vars => [Same]_vars
    <2> SUFFICES ASSUME IInv, [Next]_vars PROVE Same
      OBVIOUS
    <2>1. ASSUME NEW s \in Live \cap Live', NEW k \in alive \cap alive'
          PROVE  ToDict(s)[k]' = ToDict(s)[k]
      <3>1. data'[s][k] = data[s][k] /\ k \in Keys
        BY EntriesStay
      <3> QED BY <3>1 DEF ToDict
    <2>2. ASSUME CommitUpdates, NEW k \in alive'
          PROVE  EvolverQuery(evolver, k)' = EvolverQuery(evolver, k)
      BY <2>2, CommitRead
    <2> QED BY <2>1, <2>2
  <1> QED BY <1>1, Invariance, PTL DEF Spec, Immutable

-----------------------------------------------------------------------------
(* Subjects and observers: the invariant, and that the steps keep it.      *)

SubjectIInv ==
    /\ SubjectTypeOK
    /\ ToldOnce
    /\ WaitsHonoured
    /\ FailuresReportedOnce
    /\ CleanBetweenSends

\* When nothing is being called and nothing has failed.
LEMMA Unstarted ==
    ASSUME SubjectTypeOK, calls = <<>>, receiving = {}, failed = {}, infos = <<>>
    PROVE  ToldOnce /\ WaitsHonoured /\ FailuresReportedOnce
  <1>1. DOMAIN calls = {} /\ DOMAIN infos = {}
    OBVIOUS
  <1> QED BY <1>1 DEF ToldOnce, WaitsHonoured, FailuresReportedOnce

LEMMA SubjectStarts == SubjectInit => SubjectIInv
  <1> SUFFICES ASSUME SubjectInit PROVE SubjectIInv
    OBVIOUS
  <1>1. SubjectTypeOK
    <2>1. infos \in Seq(Observers) /\ calls \in Seq(Call)
      BY DEF SubjectInit
    <2> QED BY <2>1 DEF SubjectInit, SubjectTypeOK
  <1>2. CleanBetweenSends
    BY DEF SubjectInit, CleanBetweenSends
  <1> QED BY <1>1, <1>2, Unstarted DEF SubjectInit, SubjectIInv

\* The call in progress is the last one, made for an observer that is receiving
\* and neither to be called nor failed.
LEMMA CallerIs ==
    ASSUME SubjectIInv, calls # <<>>
    PROVE  /\ Len(calls) \in Nat \ {0}
           /\ DOMAIN calls = 1..Len(calls)
           /\ Caller \in Call /\ Caller = calls[Len(calls)]
           /\ Caller.observer \in receiving
           /\ Caller.observer \notin observing \cup failed
           /\ \A i \in 1..(Len(calls) - 1) : calls[i].observer # Caller.observer
           /\ sending
  <1>1. /\ Len(calls) \in Nat \ {0} /\ DOMAIN calls = 1..Len(calls)
        /\ Caller \in Call /\ Caller = calls[Len(calls)]
    BY DEF SubjectIInv, SubjectTypeOK, Caller
  <1>2. Caller.observer \in receiving
    BY <1>1 DEF SubjectIInv, ToldOnce
  <1>3. \A i \in 1..(Len(calls) - 1) : calls[i].observer # Caller.observer
    BY <1>1 DEF SubjectIInv, ToldOnce
  <1> QED BY <1>1, <1>2, <1>3 DEF SubjectIInv, ToldOnce, CleanBetweenSends

LEMMA Prefix ==
    ASSUME NEW S, NEW q \in Seq(S), NEW n \in 0..Len(q)
    PROVE  /\ SubSeq(q, 1, n) \in Seq(S)
           /\ Len(SubSeq(q, 1, n)) = n
           /\ DOMAIN SubSeq(q, 1, n) = 1..n
           /\ \A i \in 1..n : SubSeq(q, 1, n)[i] = q[i]
  <1>1. \A i \in 1..n : q[i] \in S
    OBVIOUS
  <1>2. /\ SubSeq(q, 1, n) \in Seq(S)
        /\ Len(SubSeq(q, 1, n)) = n
        /\ \A i \in 1..n : SubSeq(q, 1, n)[i] = q[i]
    BY <1>1, SubSeqProperties, Z3
  <1> QED BY <1>2

LEMMA Replaced ==
    ASSUME NEW S, NEW q \in Seq(S), NEW n, NEW e \in S
    PROVE  [q EXCEPT ![n] = e] \in Seq(S)
  <1> DEFINE r == [q EXCEPT ![n] = e]
  <1>1. Len(q) \in Nat /\ DOMAIN q = 1..Len(q) /\ \A i \in 1..Len(q) : q[i] \in S
    OBVIOUS
  <1>2. r \in [1..Len(q) -> S]
    BY <1>1
  <1> HIDE DEF r
  <1>3. r \in Seq(S)
    BY <1>1, <1>2, SeqDef
  <1> QED BY <1>3 DEF r

LEMMA Returned ==
    ASSUME SubjectIInv, calls # <<>>
    PROVE  /\ Return \in Seq(Call)
           /\ Len(Return) = Len(calls) - 1
           /\ DOMAIN Return = 1..(Len(calls) - 1)
           /\ \A i \in 1..(Len(calls) - 1) : Return[i] = calls[i]
  <1> DEFINE n == Len(calls) - 1
  <1>1. calls \in Seq(Call) /\ n \in 0..Len(calls)
    BY CallerIs DEF SubjectIInv, SubjectTypeOK
  <1>2. Return = SubSeq(calls, 1, n)
    BY DEF Return
  <1> HIDE DEF n
  <1> QED BY <1>1, <1>2, Prefix DEF n

\* A call begins, made by send or by a wait.
LEMMA CallBegins ==
    ASSUME SubjectIInv, NEW o \in Observers, NEW by \in {"send", "wait"},
           o \in observing, sending,
           observing' = observing \ {o}, receiving' = receiving \cup {o},
           calls' = Append(calls, NewCall(o, by)),
           UNCHANGED <<registered, failed, sending, infos, audience>>
    PROVE  SubjectIInv'
  <1>1. NewCall(o, by) \in Call /\ NewCall(o, by).observer = o
        /\ NewCall(o, by).waited = {}
    BY DEF NewCall, Call
  <1>2. SubjectTypeOK'
    BY <1>1 DEF SubjectIInv, SubjectTypeOK
  <1>3. /\ calls \in Seq(Call) /\ Len(calls) \in Nat
        /\ DOMAIN calls = 1..Len(calls)
        /\ DOMAIN calls' = 1..(Len(calls) + 1)
        /\ \A i \in 1..Len(calls) : calls'[i] = calls[i]
        /\ calls'[Len(calls) + 1].observer = o
        /\ calls'[Len(calls) + 1].waited = {}
    BY <1>1 DEF SubjectIInv, SubjectTypeOK
  <1>4. o \notin receiving /\ o \notin failed
    BY DEF SubjectIInv, ToldOnce
  <1>5. ToldOnce'
    <2>1. receiving' = {calls'[i].observer : i \in DOMAIN calls'}
      BY <1>3 DEF SubjectIInv, ToldOnce
    <2>2. \A i \in DOMAIN calls : calls[i].observer # o
      BY <1>4 DEF SubjectIInv, ToldOnce
    <2>3. \A i, j \in DOMAIN calls' :
             calls'[i].observer = calls'[j].observer => i = j
      BY <1>3, <2>2 DEF SubjectIInv, ToldOnce
    <2>4. /\ observing' \cap receiving' = {}
          /\ failed' \cap (observing' \cup receiving') = {}
      BY <1>4 DEF SubjectIInv, ToldOnce
    <2> QED BY <2>1, <2>3, <2>4 DEF ToldOnce
  <1>6. Done' = Done
    BY DEF Done
  <1>7. WaitsHonoured'
    BY <1>3, <1>6 DEF SubjectIInv, WaitsHonoured
  <1>8. FailuresReportedOnce' /\ CleanBetweenSends'
    BY DEF SubjectIInv, FailuresReportedOnce, CleanBetweenSends
  <1> QED BY <1>2, <1>5, <1>7, <1>8 DEF SubjectIInv

LEMMA WaitForNothingStep ==
    ASSUME SubjectIInv, NEW o \in Observers, WaitForNothing(o)
    PROVE  SubjectIInv'
  <1>1. /\ calls # <<>> /\ NothingToDo(o) /\ calls' = Waited(o)
        /\ UNCHANGED <<registered, observing, receiving, failed, sending, infos,
                       audience>>
    BY DEF WaitForNothing
  <1>2. calls \in Seq(Call) /\ Len(calls) \in Nat \ {0}
        /\ DOMAIN calls = 1..Len(calls)
    BY <1>1, CallerIs DEF SubjectIInv, SubjectTypeOK
  <1> DEFINE last == [calls[Len(calls)] EXCEPT !.waited = @ \cup {o}]
  <1>3. /\ last \in Call /\ last.observer = calls[Len(calls)].observer
        /\ last.waited = calls[Len(calls)].waited \cup {o}
    <2>1. calls[Len(calls)] \in Call
      BY <1>2
    <2> QED BY <2>1 DEF Call
  <1> HIDE DEF last
  <1>4. calls' = [calls EXCEPT ![Len(calls)] = last]
    BY <1>1 DEF Waited, last
  <1>5. /\ calls' \in Seq(Call) /\ DOMAIN calls' = DOMAIN calls
        /\ \A i \in DOMAIN calls : calls'[i].observer = calls[i].observer
        /\ \A i \in DOMAIN calls : calls'[i].waited \subseteq
                                     calls[i].waited \cup {o}
    BY <1>2, <1>3, <1>4
  <1>6. calls' # <<>>
    BY <1>2, <1>5
  <1>7. o \in audience => o \in Done
    BY <1>1 DEF NothingToDo, Done
  <1>8. WaitsHonoured'
    BY <1>1, <1>5, <1>7 DEF SubjectIInv, WaitsHonoured, Done
  <1>9. ToldOnce'
    BY <1>1, <1>5 DEF SubjectIInv, ToldOnce
  <1>10. sending
    BY <1>1, CallerIs
  <1> QED BY <1>1, <1>5, <1>8, <1>9, <1>10
          DEF SubjectIInv, SubjectTypeOK, FailuresReportedOnce, CleanBetweenSends

\* What both ways out of a call leave of the calls below it.
LEMMA CallEnds ==
    ASSUME SubjectIInv, calls # <<>>, NEW cs \in Seq(Call),
           DOMAIN cs = 1..(Len(calls) - 1),
           \A i \in 1..(Len(calls) - 1) : cs[i].observer = calls[i].observer
    PROVE  /\ receiving \ {Caller.observer} = {cs[i].observer : i \in DOMAIN cs}
           /\ \A i, j \in DOMAIN cs : cs[i].observer = cs[j].observer => i = j
  <1>1. receiving = {calls[i].observer : i \in 1..Len(calls)}
    BY CallerIs DEF SubjectIInv, ToldOnce
  <1>2. \A i, j \in 1..Len(calls) : calls[i].observer = calls[j].observer => i = j
    BY CallerIs DEF SubjectIInv, ToldOnce
  <1>3. \A i \in 1..Len(calls) :
          i \in 1..(Len(calls) - 1) \/ calls[i].observer = Caller.observer
    BY CallerIs
  <1>4. \A i \in 1..(Len(calls) - 1) :
          i \in 1..Len(calls) /\ calls[i].observer # Caller.observer
    BY CallerIs
  <1>5. \A x \in receiving \ {Caller.observer} :
          \E i \in DOMAIN cs : x = cs[i].observer
    BY <1>1, <1>3
  <1>6. \A i \in DOMAIN cs : cs[i].observer \in receiving \ {Caller.observer}
    BY <1>1, <1>4
  <1>7. \A i, j \in DOMAIN cs : cs[i].observer = cs[j].observer => i = j
    BY <1>2, <1>4
  <1> QED BY <1>5, <1>6, <1>7

LEMMA ReceivedStep ==
    ASSUME SubjectIInv, Received
    PROVE  SubjectIInv'
  <1> DEFINE o == Caller.observer
  <1> DEFINE n == Len(calls) - 1
  <1>1. /\ calls # <<>> /\ receiving' = receiving \ {o}
        /\ UNCHANGED <<registered, observing, failed, sending, infos, audience>>
    BY DEF Received
  <1>2. /\ n \in Nat /\ Return \in Seq(Call) /\ DOMAIN Return = 1..n
        /\ \A i \in 1..n : Return[i] = calls[i]
        /\ o \in Observers /\ sending
        /\ o \notin observing \cup failed
    BY <1>1, CallerIs, Returned DEF Call
  <1>3. /\ calls' \in Seq(Call) /\ DOMAIN calls' = 1..n
        /\ \A i \in 1..n : calls'[i].observer = calls[i].observer
        /\ \A i \in 1..n : calls'[i].waited \subseteq calls[i].waited \cup {o}
    <2>1. CASE Caller.by # "wait"
      <3>1. calls' = Return
        BY <2>1 DEF Received
      <3> QED BY <1>2, <3>1
    <2>2. CASE Caller.by = "wait"
      <3> DEFINE cs == [Return EXCEPT ![n].waited = @ \cup {o}]
      <3>1. calls' = cs
        BY <2>2 DEF Received
      <3>2. CASE n \in 1..n
        <4> DEFINE last == [Return[n] EXCEPT !.waited = @ \cup {o}]
        <4>1. /\ last \in Call /\ last.observer = Return[n].observer
              /\ last.waited = Return[n].waited \cup {o}
          <5>1. Return[n] \in Call
            <6> HIDE DEF n, o
            <6> QED BY <1>2, <3>2
          <5> QED BY <5>1, <1>2 DEF Call
        <4>2. cs = [Return EXCEPT ![n] = last]
          OBVIOUS
        <4> HIDE DEF last, cs, n
        <4>3. /\ DOMAIN cs = 1..n
              /\ \A i \in 1..n : cs[i] = IF i = n THEN last ELSE Return[i]
          BY <1>2, <4>2
        <4>4. cs \in Seq(Call)
          <5> HIDE DEF o
          <5> QED BY <1>2, <4>1, <4>2, Replaced
        <4> QED BY <1>2, <3>1, <4>1, <4>3, <4>4
      <3>3. CASE n \notin 1..n
        <4>1. 1..n = {}
          <5> HIDE DEF n
          <5> QED BY <1>2, <3>3
        <4>2. cs = Return
          BY <1>2, <4>1
        <4> HIDE DEF cs
        <4> QED BY <1>2, <3>1, <4>1, <4>2
      <3> QED BY <3>2, <3>3
    <2> QED BY <2>1, <2>2
  <1> HIDE DEF o, n
  <1>4. SubjectTypeOK'
    BY <1>1, <1>3 DEF SubjectIInv, SubjectTypeOK
  <1>5. ToldOnce'
    <2>1. /\ receiving' = {calls'[i].observer : i \in DOMAIN calls'}
          /\ \A i, j \in DOMAIN calls' :
               calls'[i].observer = calls'[j].observer => i = j
      BY <1>1, <1>3, CallEnds DEF n, o
    <2> QED BY <1>1, <2>1 DEF SubjectIInv, ToldOnce
  <1>6. Done \subseteq Done' /\ (o \in audience => o \in Done')
    BY <1>1, <1>2 DEF Done
  <1>7. WaitsHonoured'
    <2>1. \A i \in 1..n : calls[i].waited \cap audience \subseteq Done
      BY <1>1, CallerIs DEF SubjectIInv, WaitsHonoured, n
    <2> QED BY <1>1, <1>3, <1>6, <2>1 DEF WaitsHonoured
  <1> QED BY <1>1, <1>2, <1>4, <1>5, <1>7
          DEF SubjectIInv, FailuresReportedOnce, CleanBetweenSends

LEMMA FailStep ==
    ASSUME SubjectIInv, Fail
    PROVE  SubjectIInv'
  <1> DEFINE o == Caller.observer
  <1>1. /\ calls # <<>> /\ receiving' = receiving \ {o}
        /\ failed' = failed \cup {o} /\ infos' = Append(infos, o)
        /\ calls' = Return
        /\ UNCHANGED <<registered, observing, sending, audience>>
    BY DEF Fail, Failing
  <1>2. /\ o \in Observers /\ sending /\ o \in receiving
        /\ o \notin observing \cup failed
    BY <1>1, CallerIs DEF Call
  <1> HIDE DEF o
  <1>3. SubjectTypeOK'
    BY <1>1, <1>2, Returned DEF SubjectIInv, SubjectTypeOK
  <1>4. ToldOnce'
    <2>1. /\ receiving \ {o} = {Return[i].observer : i \in DOMAIN Return}
          /\ \A i, j \in DOMAIN Return :
               Return[i].observer = Return[j].observer => i = j
      BY <1>1, Returned, CallEnds DEF o
    <2>2. /\ observing' \cap receiving' = {}
          /\ failed' \cap (observing' \cup receiving') = {}
      BY <1>1, <1>2 DEF SubjectIInv, ToldOnce
    <2> QED BY <1>1, <2>1, <2>2 DEF ToldOnce
  <1>5. Done' = Done
    BY <1>1, <1>2 DEF Done
  <1>6. WaitsHonoured'
    BY <1>1, <1>5, Returned, CallerIs DEF SubjectIInv, WaitsHonoured
  <1>7. FailuresReportedOnce'
    <2>1. /\ infos \in Seq(Observers) /\ Len(infos) \in Nat
          /\ DOMAIN infos = 1..Len(infos)
          /\ DOMAIN infos' = 1..(Len(infos) + 1)
          /\ \A i \in 1..Len(infos) : infos'[i] = infos[i]
          /\ infos'[Len(infos) + 1] = o
      BY <1>1, <1>2 DEF SubjectIInv, SubjectTypeOK
    <2>2. \A i \in DOMAIN infos : infos[i] # o
      BY <1>2 DEF SubjectIInv, FailuresReportedOnce
    <2>3. failed' = {infos'[i] : i \in DOMAIN infos'}
      BY <1>1, <2>1 DEF SubjectIInv, FailuresReportedOnce
    <2>4. \A i, j \in DOMAIN infos' : infos'[i] = infos'[j] => i = j
      BY <2>1, <2>2 DEF SubjectIInv, FailuresReportedOnce
    <2> QED BY <2>3, <2>4 DEF FailuresReportedOnce
  <1> QED BY <1>1, <1>2, <1>3, <1>4, <1>6, <1>7 DEF SubjectIInv, CleanBetweenSends

LEMMA SubjectSteps == SubjectIInv /\ [SubjectNext]_subjectVars => SubjectIInv'
  <1> SUFFICES ASSUME SubjectIInv, [SubjectNext]_subjectVars PROVE SubjectIInv'
    OBVIOUS
  <1> USE DEF SubjectIInv
  <1>1. ASSUME NEW o \in Observers, Register(o) \/ Deregister(o) PROVE SubjectIInv'
    <2>1. SubjectTypeOK'
      BY <1>1 DEF Register, Deregister, SubjectTypeOK
    <2>2. UNCHANGED <<observing, receiving, failed, sending, infos, calls, audience>>
      BY <1>1 DEF Register, Deregister
    <2> QED BY <2>1, <2>2 DEF ToldOnce, WaitsHonoured, Done,
                FailuresReportedOnce, CleanBetweenSends
  <1>2. CASE Send
    <2>1. calls = <<>> /\ receiving = {} /\ failed = {} /\ infos = <<>>
      BY <1>2 DEF Send, CleanBetweenSends
    <2> QED BY <1>2, <2>1 DEF Send, SubjectTypeOK, ToldOnce, WaitsHonoured,
                FailuresReportedOnce, CleanBetweenSends
  <1>3. ASSUME NEW o \in Observers, Notify(o) PROVE SubjectIInv'
    <2>1. calls' = Append(calls, NewCall(o, "send"))
      BY <1>3 DEF Notify
    <2> QED BY <1>3, <2>1, CallBegins DEF Notify, TakenFromObserving
  <1>4. ASSUME NEW o \in Observers, WaitAndNotify(o) PROVE SubjectIInv'
    <2>1. sending
      BY <1>4 DEF WaitAndNotify, CleanBetweenSends
    <2> QED BY <1>4, <2>1, CallBegins DEF WaitAndNotify, TakenByWait
  <1>5. ASSUME NEW o \in Observers, WaitForNothing(o) PROVE SubjectIInv'
    BY <1>5, WaitForNothingStep
  <1>6. CASE Received
    BY <1>6, ReceivedStep
  <1>7. CASE Fail
    BY <1>7, FailStep
  <1>8. CASE FinishSend
    <2>1. SubjectTypeOK'
      <3>1. infos' \in Seq(Observers) /\ calls' \in Seq(Call)
        BY <1>8 DEF FinishSend, SubjectTypeOK
      <3> QED BY <1>8, <3>1 DEF FinishSend, Clear, SubjectTypeOK
    <2>2. /\ receiving' = {} /\ failed' = {} /\ infos' = <<>> /\ calls' = <<>>
          /\ observing' = {} /\ audience' = {}
      BY <1>8 DEF FinishSend, AllNotified, Clear
    <2>3. DOMAIN calls' = {} /\ DOMAIN infos' = {}
      BY <2>2
    <2>4. ToldOnce' /\ WaitsHonoured' /\ FailuresReportedOnce'
      BY <2>2, <2>3 DEF ToldOnce, WaitsHonoured, FailuresReportedOnce
    <2> QED BY <2>1, <2>2, <2>4 DEF CleanBetweenSends
  <1>9. CASE UNCHANGED subjectVars
    BY <1>9 DEF subjectVars, SubjectTypeOK, ToldOnce, WaitsHonoured, Done,
                FailuresReportedOnce, CleanBetweenSends
  <1> QED BY <1>1, <1>2, <1>3, <1>4, <1>5, <1>6, <1>7, <1>8, <1>9 DEF SubjectNext

\* The inductive invariant of send and wait.
THEOREM SubjectInvariance == SubjectSpec => []SubjectIInv
  BY SubjectStarts, SubjectSteps, PTL DEF SubjectSpec

\* Every variable has its type.
THEOREM SubjectTypeCorrect == SubjectSpec => []SubjectTypeOK
  <1>1. SubjectIInv => SubjectTypeOK
    BY DEF SubjectIInv
  <1> QED BY SubjectInvariance, <1>1, PTL

\* An observer is told a payload once, by send or by whoever waits for it.
THEOREM AlwaysToldOnce == SubjectSpec => []ToldOnce
  <1>1. SubjectIInv => ToldOnce
    BY DEF SubjectIInv
  <1> QED BY SubjectInvariance, <1>1, PTL

\* A wait that returns has made sure that its observer received the payload.
THEOREM AlwaysWaitsHonoured == SubjectSpec => []WaitsHonoured
  <1>1. SubjectIInv => WaitsHonoured
    BY DEF SubjectIInv
  <1> QED BY SubjectInvariance, <1>1, PTL

\* A send reports every observer that failed, once.
THEOREM AlwaysFailuresReportedOnce == SubjectSpec => []FailuresReportedOnce
  <1>1. SubjectIInv => FailuresReportedOnce
    BY DEF SubjectIInv
  <1> QED BY SubjectInvariance, <1>1, PTL

\* A send starts as the first one did.
THEOREM AlwaysCleanBetweenSends == SubjectSpec => []CleanBetweenSends
  <1>1. SubjectIInv => CleanBetweenSends
    BY DEF SubjectIInv
  <1> QED BY SubjectInvariance, <1>1, PTL
=============================================================================
