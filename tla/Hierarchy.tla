----------------------------- MODULE Hierarchy -----------------------------
(***************************************************************************)
(* The inside of a write (objetto/_applications.py, __write and the        *)
(* contexts around it): checks and locks of the hierarchy, reactions,      *)
(* adoption and release of children, data of the ancestors.                *)
(*                                                                         *)
(* An object has a value and an ordered list of child objects (a           *)
(* ListObject; an attribute or key is a location like an index), and its   *)
(* data mirrors both.  Objects are initialized and are no histories.  The  *)
(* stores are those the transaction sees; reverting the commits of a write *)
(* restores what was seen when its context was entered (Application shows  *)
(* that).  What is refused raises in the code that asked for it.           *)
(***************************************************************************)
EXTENDS Naturals, Sequences, FiniteSets, Functions

CONSTANTS
    Objects, Values, None,
    DefaultValue,   \* value of an object that was just initialized
    Roots,          \* objects that are roots of the application
    Programs,       \* kinds of programs: the objects and values that they use,
                    \* the objects whose children have data=True (mirroring) and
                    \* whom PRE reactions write: "below", "above" the object
    MaxKids,        \* bound: children of an object
    MaxWrites       \* bound: writes in progress

ASSUME HierarchyAssumption ==
    /\ IsFiniteSet(Objects)
    /\ None \notin Objects
    /\ DefaultValue \in Values
    /\ Roots \subseteq Objects
    /\ \A p \in Programs :
         /\ p.objects \subseteq Objects /\ p.mirroring \subseteq Objects
         /\ DefaultValue \in p.values /\ p.values \subseteq Values
         /\ p.preWrites \subseteq {"below", "above"}

VARIABLES
    program,    \* one of Programs
    value,      \* state: per object
    kids,       \* state: per object, its children in their locations
    data,       \* per object, [value, kids]: its data
    parent,     \* parent_ref
    children,   \* children
    locks,      \* __busy_hierarchy
    busy,       \* __busy_writing
    writes      \* writes in progress, innermost last: locals of __write

stores == <<value, kids, data, parent, children>>
vars == <<program, value, kids, data, parent, children, locks, busy, writes>>

Stores == [value |-> value, kids |-> kids, data |-> data, parent |-> parent,
           children |-> children]

Mirroring == program.mirroring
PreWrites == program.preWrites

Top    == writes[Len(writes)]
Outer  == SubSeq(writes, 1, Len(writes) - 1)

Count(s, c)    == Cardinality({i \in DOMAIN s : s[i] = c})
Location(p, c) == CHOOSE i \in DOMAIN kids[p] : kids[p][i] = c

\* The object, its parent, its grandparent...
HierarchyOf(o) ==
    LET up[n \in 0..Cardinality(Objects)] ==
          IF n = 0 THEN <<o>>
          ELSE LET p == parent[up[n - 1][Len(up[n - 1])]]
               IN  IF p = None \/ Len(up[n - 1]) < n THEN up[n - 1]
                   ELSE Append(up[n - 1], p)
    IN  up[Cardinality(Objects)]

\* The object, its children, their children...
Below(o) == {x \in Objects : o \in Range(HierarchyOf(x))}

-----------------------------------------------------------------------------
(* __pre_parent_check, __hierarchy_context, __new_children_context.        *)

Released(o, ks) == Range(kids[o]) \ Range(ks)
Adopted(o, ks)  == Range(ks) \ Range(kids[o])

\* How often a location of the object gets the child more than it loses it.
Gains(o, ks, c) == Count(ks, c) > Count(kids[o], c)
GainsOne(o, ks, c) == Count(ks, c) = Count(kids[o], c) + 1
Loses(o, ks, c) == Count(ks, c) < Count(kids[o], c)

Lock(l, held) == [o \in Objects |-> IF o \in held THEN l[o] + 1 ELSE l[o]]

\* (mutant) Unlocking forgets who else holds the lock.
UnlockForAll(l, held) == [o \in Objects |-> IF o \in held THEN 0 ELSE l[o]]

Unlock(l, held) == [o \in Objects |-> IF o \in held THEN l[o] - 1 ELSE l[o]]

\* (mutant) An object may be adopted by an object below it.
CycleNotChecked(o, ks, hierarchy) ==
    \A c \in Objects :
        /\ Gains(o, ks, c) => GainsOne(o, ks, c) /\ parent[c] = None
        /\ Loses(o, ks, c) => c \in children[o]

\* The hierarchy of the object itself is locked already.
PreParentCheck(o, ks, hierarchy) ==
    \A c \in Objects :
        /\ Gains(o, ks, c) \/ Loses(o, ks, c) =>
             c \notin Roots /\ locks[c] = 0 /\ c \notin Range(hierarchy)
        /\ Gains(o, ks, c) => GainsOne(o, ks, c) /\ parent[c] = None
        /\ Loses(o, ks, c) => c \in children[o]

-----------------------------------------------------------------------------
(* An operation and its write.                                             *)

\* The data an operation computes: the data of a child it adopts is read now,
\* that of a child that stays is what the data held for it.
NewData(o, v, ks) ==
    [value |-> v,
     kids |-> IF o \in Mirroring
              THEN [i \in DOMAIN ks |->
                      IF ks[i] \in Adopted(o, ks) THEN data[ks[i]]
                      ELSE data[o].kids[Location(o, ks[i])]]
              ELSE <<>>]

\* (mutant) Reaction cycles are not detected.
AlwaysWritable(o) == TRUE

Writable(o) == o \notin busy

\* What the reactions of the instance write while a PRE reaction runs.
WrittenByReactions(o) ==
    \A i \in DOMAIN writes :
        writes[i].phase = "PRE" =>
            /\ "above" \in PreWrites \/ o \notin Range(writes[i].hierarchy)
            /\ \/ "below" \in PreWrites
               \/ \A c \in Range(kids[writes[i].obj]) \cup Range(writes[i].kids) :
                    o \notin Below(c)

\* An operation of an object, by a program or by a reaction: it computes the
\* new state and data, calls write, and the reactions begin with its own.
BeginWrite(o, v, ks) ==
    LET hierarchy == HierarchyOf(o)
        new == Adopted(o, ks)
    IN  /\ Len(writes) < MaxWrites
        /\ WrittenByReactions(o)
        /\ Writable(o)
        /\ PreParentCheck(o, ks, hierarchy)
        /\ busy' = busy \cup {o}
        /\ locks' = Lock(Lock(locks, Range(hierarchy)), new)
        /\ writes' = Append(writes,
             [obj |-> o, value |-> v, kids |-> ks, data |-> NewData(o, v, ks),
              old |-> Released(o, ks), new |-> new, hierarchy |-> hierarchy,
              locations |-> <<0>>, phase |-> "PRE", saved |-> Stores])
        /\ UNCHANGED <<program, stores>>

\* The PRE reactions of a receiver are over; the next one's location of the
\* receiver before is kept, and its PRE reactions run.
NextReceiver ==
    LET i == Len(Top.locations) + 1
    IN  /\ writes # <<>> /\ Top.phase = "PRE"
        /\ i <= Len(Top.hierarchy)
        /\ writes' = [writes EXCEPT ![Len(writes)].locations =
                        Append(@, Location(Top.hierarchy[i], Top.hierarchy[i - 1]))]
        /\ UNCHANGED <<program, stores, locks, busy>>

\* (mutant) Only the parent's data is replaced.
ParentData(w) ==
    LET base == [data EXCEPT ![w.obj] = w.data]
        p    == w.hierarchy[2]
    IN  IF Len(w.hierarchy) = 1 \/ p \notin Mirroring THEN base
        ELSE [base EXCEPT ![p].kids[w.locations[2]] = w.data]

\* Data of the object and, until one does not change, of its ancestors: each
\* replaces what it holds at the location of the one below.
UpstreamData(w) ==
    LET up[i \in 1..Len(w.hierarchy)] ==
          IF i = 1 THEN [data EXCEPT ![w.obj] = w.data]
          ELSE LET child == w.hierarchy[i - 1]
                   p     == w.hierarchy[i]
               IN  IF p \notin Mirroring \/ up[i - 1][child] = data[child]
                   THEN up[i - 1]
                   ELSE [up[i - 1] EXCEPT ![p].kids[w.locations[i]]
                                            = up[i - 1][child]]
    IN  up[Len(w.hierarchy)]

\* (mutant) A released child keeps its parent.
ParentKept(w) == [c \in Objects |-> IF c \in w.new THEN w.obj ELSE parent[c]]

NewParent(w) == [c \in Objects |-> IF c \in w.new THEN w.obj
                                   ELSE IF c \in w.old THEN None ELSE parent[c]]

\* Replacing the data of a location that is gone raises.
LocationsExist(w) ==
    \A i \in 2..Len(w.hierarchy) :
        (\A j \in 2..i : w.hierarchy[j] \in Mirroring) =>
            w.locations[i] \in DOMAIN data[w.hierarchy[i]].kids

\* The PRE reactions are over: the commit.  The POST reactions follow.
Commit ==
    /\ writes # <<>> /\ Top.phase = "PRE"
    /\ Len(Top.locations) = Len(Top.hierarchy)
    /\ LocationsExist(Top)
    /\ value' = [value EXCEPT ![Top.obj] = Top.value]
    /\ kids' = [kids EXCEPT ![Top.obj] = Top.kids]
    /\ data' = UpstreamData(Top)
    /\ parent' = NewParent(Top)
    /\ children' = [children EXCEPT ![Top.obj] = (@ \ Top.old) \cup Top.new]
    /\ writes' = [writes EXCEPT ![Len(writes)].phase = "POST"]
    /\ UNCHANGED <<program, locks, busy>>

Leave ==
    /\ busy' = busy \ {Top.obj}
    /\ locks' = Unlock(Unlock(locks, Range(Top.hierarchy)), Top.new)
    /\ writes' = Outer

\* The POST reactions are over.
EndWrite ==
    /\ writes # <<>> /\ Top.phase = "POST"
    /\ Leave
    /\ UNCHANGED <<program, stores>>

\* An exception or a rejection leaves the write, which is reverted.
FailWrite ==
    /\ writes # <<>>
    /\ Leave
    /\ value' = Top.saved.value
    /\ kids' = Top.saved.kids
    /\ data' = Top.saved.data
    /\ parent' = Top.saved.parent
    /\ children' = Top.saved.children
    /\ UNCHANGED program

-----------------------------------------------------------------------------
NoKids == <<>>

Init ==
    /\ program \in Programs
    /\ value = [o \in Objects |-> DefaultValue]
    /\ kids = [o \in Objects |-> NoKids]
    /\ data = [o \in Objects |-> [value |-> DefaultValue, kids |-> <<>>]]
    /\ parent = [o \in Objects |-> None]
    /\ children = [o \in Objects |-> {}]
    /\ locks = [o \in Objects |-> 0]
    /\ busy = {}
    /\ writes = <<>>

Arrangements == UNION {[1..n -> program.objects] : n \in 0..MaxKids}

Next ==
    \/ \E o \in program.objects, v \in program.values, ks \in Arrangements :
         BeginWrite(o, v, ks)
    \/ NextReceiver
    \/ Commit
    \/ EndWrite
    \/ FailWrite

Spec == Init /\ [][Next]_vars

-----------------------------------------------------------------------------
(* Properties.                                                             *)

\* Types; the locks are counters that never go below zero.
TypeOK ==
    /\ program \in Programs
    /\ value \in [Objects -> Values]
    /\ kids \in [Objects -> Seq(Objects)]
    /\ parent \in [Objects -> Objects \cup {None}]
    /\ children \in [Objects -> SUBSET Objects]
    /\ locks \in [Objects -> Nat]
    /\ busy \subseteq Objects
    /\ \A i \in DOMAIN writes :
         /\ writes[i].obj \in Objects
         /\ writes[i].old \subseteq Objects /\ writes[i].new \subseteq Objects
         /\ writes[i].phase \in {"PRE", "POST"}

\* Parents and children agree: an object is in one location of at most one
\* object, which is its parent, and the three places that say so - the state,
\* the children and the parent references - are the same.
ParentsAgree ==
    /\ TypeOK
    /\ \A o \in Objects : children[o] = Range(kids[o])
    /\ \A o \in Objects : \A i, j \in DOMAIN kids[o] :
         kids[o][i] = kids[o][j] => i = j
    /\ \A o, c \in Objects : parent[c] = o <=> c \in children[o]

\* No object is above itself, and no root has a parent.
Forest ==
    /\ \A o \in Objects : LET h == HierarchyOf(o) IN parent[h[Len(h)]] = None
    /\ \A r \in Roots : parent[r] = None

\* The state a pending write was computed from is the state it replaces, and its
\* new children are still free.
PendingStands ==
    \A i \in DOMAIN writes :
        LET w == writes[i]
        IN  w.phase = "PRE" => /\ value[w.obj] = w.saved.value[w.obj]
                               /\ kids[w.obj] = w.saved.kids[w.obj]
                               /\ \A c \in w.new : parent[c] = None

\* While a write is in progress, whatever its reactions do, what it relies on stays:
\* the hierarchy it announces itself to, its new children and the state that it
\* replaces (no update is lost).
WritesStand ==
    /\ PendingStands
    /\ \A i \in DOMAIN writes : writes[i].hierarchy = HierarchyOf(writes[i].obj)

\* Locks are those of the writes in progress, no more when there is none.
LocksExact ==
    \A o \in Objects :
        locks[o] = Cardinality({i \in DOMAIN writes :
                                  o \in Range(writes[i].hierarchy)})
                   + Cardinality({i \in DOMAIN writes : o \in writes[i].new})

\* "Everytime an Object changes, their internal Data and all of its parent's
\* and grandparents' Data get replaced with a new one that reflects those
\* changes."  Not so if a PRE reaction writes to an object above or below: the
\* write then commits what was computed before (_applications.py:936).
DataMirrors ==
    program.preWrites = {} => \A o \in Objects :
        /\ data[o].value = value[o]
        /\ data[o].kids = IF o \in Mirroring
                          THEN [i \in DOMAIN kids[o] |-> data[kids[o][i]]]
                          ELSE <<>>
=============================================================================
