------------------------------- MODULE History -------------------------------
(***************************************************************************)
(* Histories (objetto/_history.py) and what a write (_applications.py)     *)
(* does with them: batches, undo, redo and flushes of the history of an    *)
(* object, the history an object has through its provider, and adoptions,  *)
(* which flush the histories that know about the child.                    *)
(*                                                                         *)
(* Objects have a value and children; one with a history descriptor has a  *)
(* history, which has its name here.  changes is without the None at index *)
(* 0; an entry is a topmost BatchChanges, whose nested batches are in it   *)
(* with their atomic changes only.  Steps are whole transactions or steps  *)
(* within one, by one thread; what raises is reverted and so no step.      *)
(***************************************************************************)
EXTENDS Integers, Sequences, FiniteSets, SequencesExt

CONSTANTS
    Historied,     \* objects whose class has a history descriptor
    Holders,       \* objects that may have children
    Movable,       \* objects that may be children
    Valued,        \* objects whose value changes
    Sizes,         \* functions from the histories to their sizes, None for no limit
    Adoptings,     \* sets of holders whose relationship passes their history on
    Level,         \* of each object: which objects hold which, unless in turn
    Programs,      \* what programs do: sets of Habits
    None,
    MaxEntries,    \* bound: entries of a history
    MaxLeaves,     \* bound, per program: atomic changes of a batch
    MaxBatches     \* bound: batches open at once

ASSUME HistoryAssumption ==
    /\ IsFiniteSet(Historied \cup Holders \cup Movable \cup Valued)
    /\ None \notin Historied \cup Holders \cup Movable \cup Valued
    /\ Sizes \subseteq [Historied -> Nat \cup {None}]
    /\ \A a \in Adoptings : a \subseteq Holders
    /\ Level \in [Historied \cup Holders \cup Movable \cup Valued -> Nat]
    /\ \A p \in Programs : p \subseteq {"undo in batch", "move parents", "hold in turn"}
    /\ MaxEntries \in Nat

VARIABLES
    size,          \* one of Sizes
    adopting,      \* one of Adoptings
    habits,        \* one of Programs
    parent, value, \* per object
    provider,      \* per object, history_provider_ref
    last,          \* per object, last_parent_history_ref
    changes,       \* per history, its entries: [changes, closed]
    index,         \* per history
    batches        \* histories of the open batch contexts, innermost last

fixed == <<size, adopting, habits>>
vars  == <<fixed, parent, value, provider, last, changes, index, batches>>

Objects == Historied \cup Holders \cup Movable \cup Valued

\* Undo or redo while a batch of the history is open; give an object a parent
\* that has children, or had; let two objects hold each other, one after the other.
Habits == {"undo in batch", "move parents", "hold in turn"}

World == [parent |-> parent, value |-> value, provider |-> provider, last |-> last,
          changes |-> changes, index |-> index]

Becomes(w) ==
    /\ parent' = w.parent /\ value' = w.value /\ provider' = w.provider
    /\ last' = w.last /\ changes' = w.changes /\ index' = w.index
    /\ UNCHANGED fixed

-----------------------------------------------------------------------------
(* The history of an object: its own, or the one of its provider, ...      *)

ProviderAfter(w, o) ==
    LET after[n \in 0..Cardinality(Objects)] ==
          IF n = 0 THEN o
          ELSE LET p == after[n - 1]
               IN  IF p = None \/ p \in Historied THEN p ELSE w.provider[p]
    IN  after[Cardinality(Objects)]

\* __read_history recurses for ever in a circle of providers.
HasHistory(w, o)   == ProviderAfter(w, o) \in Historied
HistoryFound(w, o) == ProviderAfter(w, o) \in Historied \cup {None}
HistoryOf(w, o)    == ProviderAfter(w, o)

\* current_batches
Depth(h) == Cardinality({n \in DOMAIN batches : batches[n] = h})

InBatch(w, h) == w.changes[h] # <<>> /\ ~ Last(w.changes[h]).closed

Flushed(w, hs) ==
    [w EXCEPT !.changes = [h \in Historied |-> IF h \in hs THEN <<>> ELSE @[h]],
              !.index   = [h \in Historied |-> IF h \in hs THEN 0 ELSE @[h]]]

\* (mutant) A change leaves what could be redone.
RedoKept(w, h) == w

RedoFlushed(w, h) == [w EXCEPT !.changes[h] = SubSeq(@, 1, w.index[h])]

\* __enter_batch__: over its size a history drops its oldest entry.
Entered(w, h, topmost) ==
    LET f == RedoFlushed(w, h)
        appended == Append(f.changes[h], [changes |-> <<>>, closed |-> FALSE])
        full == size[h] # None /\ Len(appended) > size[h]
    IN  IF ~ topmost THEN f
        ELSE IF full THEN [f EXCEPT !.changes[h] = Tail(appended)]
        ELSE [f EXCEPT !.changes[h] = appended, !.index[h] = @ + 1]

\* __push_change__: into the open batch, wherever that is: if the history does
\* not have it any more, the change is lost.
Pushed(w, h, change) ==
    LET f == RedoFlushed(w, h)
    IN  IF ~ InBatch(f, h) THEN f
        ELSE [f EXCEPT !.changes[h][Len(f.changes[h])].changes = Append(@, change)]

\* __exit_batch__ of the topmost batch.
Exited(w, h) ==
    IF InBatch(w, h) THEN [w EXCEPT !.changes[h][Len(w.changes[h])].closed = TRUE] ELSE w

-----------------------------------------------------------------------------
(* __write: one atomic change, by the program or (executing) by the undo   *)
(* or redo of a history.                                                   *)

PutOf(o, c)       == [type |-> "put", obj |-> o, child |-> c]
TakeOf(o, c)      == [type |-> "take", obj |-> o, child |-> c]
SetOf(o, old, new) == [type |-> "set", obj |-> o, old |-> old, new |-> new]

Reverted(change) ==
    CASE change.type = "put"  -> TakeOf(change.obj, change.child)
      [] change.type = "take" -> PutOf(change.obj, change.child)
      [] change.type = "set"  -> SetOf(change.obj, change.new, change.old)

\* The object, its parent, ...
Above(w, o) ==
    LET above[n \in 0..Cardinality(Objects)] ==
          IF n = 0 THEN {o} ELSE above[n - 1] \cup {w.parent[p] : p \in above[n - 1] \ {None}}
    IN  above[Cardinality(Objects)] \ {None}

Adopts(o, c) == o \in adopting /\ c \notin Historied

\* Histories that a put flushes: the one of the child's last parent, and the
\* child's own, if it is to have another one.
\* (mutant) Only the one of the last parent.
LastParentsOnly(w, change) ==
    {h \in {w.last[change.child]} : h # HistoryOf(w, change.obj)} \ {None}

ToFlush(w, change) ==
    {h \in {w.last[change.child]} \cup
           (IF Adopts(change.obj, change.child) THEN {HistoryOf(w, change.child)} ELSE {}) :
       h # HistoryOf(w, change.obj)} \ {None}

\* __pre_parent_check, and that histories are found and may be flushed.
MayWrite(w, change, executing) ==
    /\ HistoryFound(w, change.obj)
    /\ change.type = "put" =>
         /\ w.parent[change.child] = None
         /\ change.child \notin Above(w, change.obj)
         /\ Adopts(change.obj, change.child) => HistoryFound(w, change.child)
         /\ executing \notin ToFlush(w, change)
    /\ change.type = "take" => w.parent[change.child] = change.obj

Changed(w, change) ==
    CASE change.type = "put" ->
           [w EXCEPT !.parent[change.child] = change.obj,
                     !.last[change.child] = HistoryOf(w, change.obj),
                     !.provider[change.child] =
                        IF Adopts(change.obj, change.child) THEN change.obj ELSE @]
      [] change.type = "take" -> [w EXCEPT !.parent[change.child] = None]
      [] change.type = "set" -> [w EXCEPT !.value[change.obj] = change.new]

Written(w, change, executing) ==
    LET h       == HistoryOf(w, change.obj)
        records == h # None /\ h # executing
        atomic  == records /\ ~ InBatch(w, h)
        entered == IF atomic THEN Entered(w, h, Depth(h) = 0) ELSE w
        flushed == IF change.type = "put" THEN Flushed(entered, ToFlush(w, change)) ELSE entered
        changed == Changed(flushed, change)
        pushed  == IF records THEN Pushed(changed, h, change) ELSE changed
    IN  IF atomic /\ Depth(h) = 0 THEN Exited(pushed, h) ELSE pushed

-----------------------------------------------------------------------------
(* Undo and redo: what a sequence of changes makes of a world, whether     *)
(* every one of them may be written, and whether each starts from the      *)
(* value that is there (which nothing checks).                             *)

Meets(w, change) == change.type = "set" => w.value[change.obj] = change.old

Replay(w, seq, executing) ==
    LET after[n \in 0..Len(seq)] ==
          IF n = 0 THEN [world |-> w, ok |-> TRUE, meets |-> TRUE]
          ELSE LET r == after[n - 1]
               IN  IF ~ r.ok \/ ~ MayWrite(r.world, seq[n], executing)
                   THEN [r EXCEPT !.ok = FALSE]
                   ELSE [world |-> Written(r.world, seq[n], executing), ok |-> TRUE,
                         meets |-> r.meets /\ Meets(r.world, seq[n])]
    IN  after[Len(seq)]

\* (mutant) Changes are undone in the order in which they were made.
UndoneForward(w, h) ==
    IF w.index[h] = 0 THEN [world |-> w, ok |-> FALSE, meets |-> TRUE]
    ELSE LET cs == w.changes[h][w.index[h]].changes
             r  == Replay(w, [n \in DOMAIN cs |-> Reverted(cs[n])], h)
         IN  [r EXCEPT !.world.index[h] = @ - 1]

Undone(w, h) ==
    IF w.index[h] = 0 THEN [world |-> w, ok |-> FALSE, meets |-> TRUE]
    ELSE LET cs == Reverse(w.changes[h][w.index[h]].changes)
             r  == Replay(w, [n \in DOMAIN cs |-> Reverted(cs[n])], h)
         IN  [r EXCEPT !.world.index[h] = @ - 1]

Redone(w, h) ==
    IF w.index[h] = Len(w.changes[h]) THEN [world |-> w, ok |-> FALSE, meets |-> TRUE]
    ELSE LET r == Replay(w, w.changes[h][w.index[h] + 1].changes, h)
         IN  [r EXCEPT !.world.index[h] = @ + 1]

\* set_index, and undo_all and redo_all for either end: undo or redo until the
\* index is there.
IndexSet(w, h, i) ==
    LET distance == IF i < w.index[h] THEN w.index[h] - i ELSE i - w.index[h]
        after[n \in 0..distance] ==
          IF n = 0 THEN [world |-> w, ok |-> TRUE, meets |-> TRUE]
          ELSE LET r == after[n - 1]
               IN  IF ~ r.ok THEN r
                   ELSE IF i < w.index[h] THEN Undone(r.world, h) ELSE Redone(r.world, h)
    IN  after[distance]

-----------------------------------------------------------------------------
Init ==
    /\ size \in Sizes
    /\ adopting \in Adoptings
    /\ habits \in Programs
    /\ parent = [o \in Objects |-> None]
    /\ value = [o \in Objects |-> 0]
    /\ provider = [o \in Objects |-> IF o \in Historied THEN o ELSE None]
    /\ last = [o \in Objects |-> None]
    /\ changes = [h \in Historied |-> <<>>]
    /\ index = [h \in Historied |-> 0]
    /\ batches = <<>>

Within(w) ==
    \A h \in Historied :
        /\ Len(w.changes[h]) <= MaxEntries
        /\ \A n \in DOMAIN w.changes[h] : Len(w.changes[h][n].changes) <= MaxLeaves[habits]

Write(change) ==
    /\ MayWrite(World, change, None)
    /\ Within(Written(World, change, None))
    /\ Becomes(Written(World, change, None))
    /\ UNCHANGED batches

Settled(o) == \A c \in Objects \ {o} : parent[c] # o /\ provider[c] # o

Put(o, c) ==
    /\ "move parents" \notin habits => Settled(c)
    /\ "hold in turn" \notin habits => Level[o] < Level[c]
    /\ Write(PutOf(o, c))

Take(o, c) == Write(TakeOf(o, c))

SetValue(o) == Write(SetOf(o, value[o], 1 - value[o]))

EnterBatch(o) ==
    LET h == HistoryOf(World, o)
    IN  /\ HasHistory(World, o) /\ Len(batches) < MaxBatches
        /\ Within(Entered(World, h, Depth(h) = 0))
        /\ Becomes(Entered(World, h, Depth(h) = 0))
        /\ batches' = Append(batches, h)

ExitBatch ==
    /\ batches # <<>>
    /\ Becomes(IF Depth(Last(batches)) = 1 THEN Exited(World, Last(batches)) ELSE World)
    /\ batches' = Front(batches)

MayGoBack(h) == "undo in batch" \notin habits => Depth(h) = 0

Goes(h, r) == MayGoBack(h) /\ r.ok /\ Becomes(r.world) /\ UNCHANGED batches

Undo(h) == Goes(h, Undone(World, h))
Redo(h) == Goes(h, Redone(World, h))

SetIndex(h, i) == i \in 0..Len(changes[h]) /\ i # index[h] /\ Goes(h, IndexSet(World, h, i))

Flush(h) ==
    Becomes(Flushed(World, {h})) /\ UNCHANGED batches

FlushRedo(h) ==
    Becomes(RedoFlushed(World, h)) /\ UNCHANGED batches

Next ==
    \/ \E o \in Holders, c \in Movable : Put(o, c)
    \/ \E o \in Holders, c \in Movable : Take(o, c)
    \/ \E o \in Valued : SetValue(o)
    \/ \E o \in Objects : EnterBatch(o)
    \/ ExitBatch
    \/ \E h \in Historied : Undo(h)
    \/ \E h \in Historied : Redo(h)
    \/ \E h \in Historied, i \in 0..MaxEntries : SetIndex(h, i)
    \/ \E h \in Historied : Flush(h)
    \/ \E h \in Historied : FlushRedo(h)

Spec == Init /\ [][Next]_vars

-----------------------------------------------------------------------------
TypeOK ==
    /\ size \in Sizes /\ adopting \subseteq Holders /\ habits \subseteq Habits
    /\ parent \in [Objects -> Objects \cup {None}] /\ value \in [Objects -> {0, 1}]
    /\ provider \in [Objects -> Objects \cup {None}]
    /\ last \in [Objects -> Historied \cup {None}]
    /\ \A h \in Historied : \A n \in DOMAIN changes[h] : changes[h][n].closed \in BOOLEAN
    /\ index \in [Historied -> 0..MaxEntries]
    /\ batches \in Seq(Historied)

\* The index is one of the entries; a history keeps no more of them than its
\* size says, and only the last one may be open, while a batch is.
IndexRight(h) ==
    /\ index[h] <= Len(changes[h])
    /\ size[h] # None => Len(changes[h]) <= size[h]
    /\ \A n \in DOMAIN changes[h] :
         ~ changes[h][n].closed => n = Len(changes[h]) /\ Depth(h) > 0

\* What a history has can be undone to the first change, and redone to the last
\* one, and every change that is undone or redone meets the value it starts from.
ChangesOf(w, h, i, j) ==
    FlattenSeq([n \in 1..(j - i + 1) |-> w.changes[h][i + n - 1].changes])

Valid(w, h) ==
    LET back  == Reverse(ChangesOf(w, h, 1, w.index[h]))
        forth == ChangesOf(w, h, w.index[h] + 1, Len(w.changes[h]))
        meets(seq) == LET r == Replay(w, seq, h) IN r.ok /\ r.meets
    IN  meets([n \in DOMAIN back |-> Reverted(back[n])]) /\ meets(forth)

\* A history takes care of its validity (README.rst:449): its index is right, and
\* its changes can be undone and redone as long as the program does not undo within
\* a batch (_history.py:314), moves no object that has children (_applications.py:904)
\* and lets no two objects hold each other in turn (_applications.py:974).
HistoriesValid ==
    /\ TypeOK
    /\ \A h \in Historied : IndexRight(h) /\ (habits = {} => Valid(World, h))

\* A child of an object is in no entry of another history: its parent's history
\* alone adds and removes it, and changes it if it adopted it.
Mentions(h, c, types) ==
    \E n \in DOMAIN changes[h] : \E i \in DOMAIN changes[h][n].changes :
        LET change == changes[h][n].changes[i]
        IN  /\ change.type \in types
            /\ c = IF change.type = "set" THEN change.obj ELSE change.child

OthersForget ==
    habits = {} =>
      \A c \in Movable, h \in Historied :
        parent[c] # None /\ h # HistoryOf(World, parent[c]) =>
          /\ ~ Mentions(h, c, {"put", "take"})
          /\ Adopts(parent[c], c) => ~ Mentions(h, c, {"set"})

Stacks == INSTANCE UndoStack WITH
    Histories <- Historied,
    past   <- [h \in Historied |-> SubSeq(changes[h], 1, index[h])],
    future <- [h \in Historied |-> SubSeq(changes[h], index[h] + 1, Len(changes[h]))]

\* Each history is a stack of what can be undone and redone, whatever is moved,
\* undone within a batch, or undone by another history.
HistoriesAreStacks == Stacks!Spec
=============================================================================
