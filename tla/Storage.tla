------------------------------ MODULE Storage ------------------------------
(***************************************************************************)
(* The storage of an application (objetto/utils/storage.py): immutable     *)
(* maps with weak keys, each updated from another, and a mutable evolver.  *)
(*                                                                         *)
(* A weak key knows the storages to clean when its key is collected: those *)
(* that were made from the storage whose update made the weak key, as far  *)
(* as update finds its way up to it: references to parents are weak too.   *)
(* A weak key is named by its key and the storage whose update made it.    *)
(***************************************************************************)
EXTENDS Naturals, FiniteSets

CONSTANTS
    Keys, Values, None,
    MaxStorages     \* bound: storages that are ever made

Storages == 1..MaxStorages

ASSUME MaxStoragesAssumption == MaxStorages \in Nat \ {0}

\* None is no value, no storage, no entry of a storage and no evolver.
ASSUME NoneAssumption ==
    /\ None \notin Values \cup Storages
    /\ None \notin [value : Values, origin : Storages]
    /\ None \notin [storage : Storages, updates : [Keys -> Values \cup {None}]]

VARIABLES
    alive,          \* keys that are not collected
    made,           \* how many storages were made
    held,           \* storages the program refers to
    parent,         \* __parent, None for a storage without
    storages,       \* __storages: per storage, those its weak keys clean
    data,           \* __data: per storage, per key, its entry or None
    evolver         \* a StorageEvolver or None

vars == <<alive, made, held, parent, storages, data, evolver>>

Entry(value, origin) == [value |-> value, origin |-> origin]

\* What a storage or an evolver refers to stays; the program drops the rest.
Live == held \cup (IF evolver = None THEN {} ELSE {evolver.storage})

NoUpdates == [k \in Keys |-> None]

\* Keys that are strongly referred to by the updates of the evolver.
Pinned == IF evolver = None THEN {} ELSE {k \in Keys : evolver.updates[k] # None}

-----------------------------------------------------------------------------
(* Storage.                                                                *)

\* Storage(initial), and a copy of a storage: it has its own weak keys.
Initialize(initial) ==
    LET n == made + 1
    IN  /\ made < MaxStorages
        /\ made' = n /\ held' = held \cup {n}
        /\ parent' = [parent EXCEPT ![n] = None]
        /\ storages' = [storages EXCEPT ![n] = {n}]
        /\ data' = [data EXCEPT ![n] = [k \in Keys |->
                      IF initial[k] = None THEN None ELSE Entry(initial[k], n)]]
        /\ UNCHANGED <<alive, evolver>>

ToDict(s) == [k \in Keys |-> IF k \in alive /\ data[s][k] # None THEN data[s][k].value
                            ELSE None]

Copy(s) == s \in Live /\ Initialize(ToDict(s))

\* Has a storage and, of each that it has, the one above it that is among some.
ReachesUp(set, s, above, among) ==
    s \in set /\ \A t \in set : above[t] \in among => above[t] \in set

\* The storage and those among some above it, up to the first that is not: what
\* every set that reaches up has.
Ancestors(s, above, among) ==
    {t \in {s} \cup among :
        \A set \in SUBSET ({s} \cup among) : ReachesUp(set, s, above, among) => t \in set}

\* (mutant) Only the storage that is updated is told of the new one.
ParentOnly(s) == {s}

\* The storages that are told of a new one.
Told(s) == Ancestors(s, parent, Live)

\* (mutant) A weak key that is there is replaced by the new one.
UpdatedAnew(s, n, updates) ==
    [k \in Keys |-> IF updates[k] = None THEN data[s][k] ELSE Entry(updates[k], n)]

\* The entries of a storage with updates: a weak key that is there stays.
Updated(s, n, updates) ==
    [k \in Keys |-> IF updates[k] = None THEN data[s][k]
                    ELSE IF data[s][k] # None THEN [data[s][k] EXCEPT !.value = updates[k]]
                    ELSE Entry(updates[k], n)]

\* (mutant) The new storage shares its map with the old one.
DataShared(s, n, updates) ==
    [data EXCEPT ![n] = Updated(s, n, updates), ![s] = Updated(s, n, updates)]

DataUpdated(s, n, updates) == [data EXCEPT ![n] = Updated(s, n, updates)]

\* The storage that update makes from another, referred to by whom keeps it.
MakeUpdated(s, updates) ==
    LET n == made + 1
    IN  /\ made < MaxStorages /\ s \in Live
        /\ made' = n
        /\ parent' = [parent EXCEPT ![n] = s]
        /\ storages' = [t \in Storages |->
             IF t = n THEN {n} ELSE IF t \in Told(s) THEN storages[t] \cup {n} ELSE storages[t]]
        /\ data' = DataUpdated(s, n, updates)

Update(s, k, value) ==
    /\ k \in alive
    /\ MakeUpdated(s, [NoUpdates EXCEPT ![k] = value])
    /\ held' = held \cup {made + 1}
    /\ UNCHANGED <<alive, evolver>>

Drop(s) ==
    /\ s \in held
    /\ held' = held \ {s}
    /\ UNCHANGED <<alive, made, parent, storages, data, evolver>>

\* Weak keys of a key that some storage still has.
WeakKeys(k) == {data[s][k].origin : s \in {t \in Live : data[t][k] # None}}

\* The storages that the weak keys of a key clean.
Cleaned(k) == UNION {storages[origin] : origin \in WeakKeys(k)}

\* A key is collected and its weak keys call __clean.
Collect(k) ==
    /\ k \in alive \ Pinned
    /\ alive' = alive \ {k}
    /\ data' = [s \in Storages |-> IF s \in Cleaned(k) THEN [data[s] EXCEPT ![k] = None]
                                  ELSE data[s]]
    /\ UNCHANGED <<made, held, parent, storages, evolver>>

-----------------------------------------------------------------------------
(* StorageEvolver.                                                         *)

Evolve(s) ==
    /\ s \in Live
    /\ evolver' = [storage |-> s, updates |-> NoUpdates]
    /\ UNCHANGED <<alive, made, held, parent, storages, data>>

EvolverUpdate(k, value) ==
    /\ evolver # None /\ k \in alive
    /\ evolver' = [evolver EXCEPT !.updates[k] = value]
    /\ UNCHANGED <<alive, made, held, parent, storages, data>>

EvolverQuery(e, k) ==
    IF e.updates[k] # None THEN e.updates[k]
    ELSE IF data[e.storage][k] = None THEN None ELSE data[e.storage][k].value

IsDirty == evolver # None /\ evolver.updates # NoUpdates

Reset ==
    /\ IsDirty
    /\ evolver' = [evolver EXCEPT !.updates = NoUpdates]
    /\ UNCHANGED <<alive, made, held, parent, storages, data>>

\* What the program gets refers to a new storage, the evolver to the old one.
Persistent ==
    /\ IsDirty
    /\ MakeUpdated(evolver.storage, evolver.updates)
    /\ held' = held \cup {made + 1}
    /\ UNCHANGED <<alive, evolver>>

Committed == evolver.updates

\* The evolver drops its old storage once the new one is made.
CommitUpdates ==
    /\ IsDirty
    /\ MakeUpdated(evolver.storage, Committed)
    /\ evolver' = [storage |-> made + 1, updates |-> NoUpdates]
    /\ UNCHANGED <<alive, held>>

DropEvolver ==
    /\ evolver # None /\ evolver' = None
    /\ UNCHANGED <<alive, made, held, parent, storages, data>>

-----------------------------------------------------------------------------
Init ==
    /\ alive = Keys
    /\ made = 1 /\ held = {1}
    /\ parent = [s \in Storages |-> None]
    /\ storages = [s \in Storages |-> IF s = 1 THEN {1} ELSE {}]
    /\ data = [s \in Storages |-> NoUpdates]
    /\ evolver = None

Next ==
    \/ \E s \in Storages : Copy(s) \/ Drop(s) \/ Evolve(s)
    \/ \E s \in Storages, k \in Keys, value \in Values : Update(s, k, value)
    \/ \E k \in Keys : Collect(k)
    \/ \E k \in Keys, value \in Values : EvolverUpdate(k, value)
    \/ Reset \/ Persistent \/ CommitUpdates \/ DropEvolver

Spec == Init /\ [][Next]_vars

-----------------------------------------------------------------------------
Updates == [Keys -> Values \cup {None}]
Entries == [value : Values, origin : Storages]

\* Storages are made in order, from storages made before.
StoragesTyped ==
    /\ alive \subseteq Keys /\ made \in Storages
    /\ parent \in [Storages -> Storages \cup {None}]
    /\ \A s \in Storages : parent[s] # None => parent[s] < s
    /\ storages \in [Storages -> SUBSET (1..made)]
    /\ \A s \in Storages : \A t \in storages[s] : s <= t
    /\ data \in [Storages -> [Keys -> Entries \cup {None}]]
    /\ \A s \in Storages, k \in Keys : data[s][k] # None => data[s][k].origin <= s

TypeOK ==
    /\ StoragesTyped
    /\ held \subseteq 1..made
    /\ evolver = None \/ evolver \in [storage : 1..made, updates : Updates]

\* The storages from one made with a weak key down to one that has it.
LineageOf(s, origin) == {t \in Ancestors(s, parent, Storages) : t >= origin}

\* A value is forgotten with its key by every storage whose line of storages up
\* to the one that introduced the key is still referred to (a snapshot and what
\* was made from it): otherwise the program keeps the value for ever (update's
\* loop over parents, storage.py:166).
ForgottenWithKey ==
    \A s \in Live, k \in Keys \ alive :
        data[s][k] # None => ~ LineageOf(s, data[s][k].origin) \subseteq Live

\* Every storage that a weak key cleans has it: deleting it from one that has
\* not would raise in the callback and leave the others uncleaned
\* (storage.py:121).
CleaningCompletes ==
    \A k \in alive : \A origin \in WeakKeys(k) : \A s \in storages[origin] \cap Live :
        data[s][k] # None /\ data[s][k].origin = origin

\* No step changes what a storage says of a key that lives: collecting other
\* keys, updating or committing make no difference to a snapshot; nor is a commit
\* seen by who reads through the evolver.
Immutable ==
    [][/\ \A s \in Live \cap Live', k \in alive \cap alive' : ToDict(s)[k]' = ToDict(s)[k]
       /\ CommitUpdates =>
            \A k \in alive' : EvolverQuery(evolver, k)' = EvolverQuery(evolver, k)]_vars

\* "Immutable weak key/strong value storage": whatever was dropped.
AlwaysForgotten == \A s \in Live, k \in Keys \ alive : data[s][k] = None
=============================================================================
