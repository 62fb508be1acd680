# Verification of objetto

objetto is a Python framework for application state: mutable objects in a
hierarchy that belong to an *application*, whose changes are transactional,
observable, undoable and mirrored in immutable data. This directory holds TLA+
models of it, the TLC runs that check them and TLAPS proofs about them. Paths
are relative to `src/objetto/` unless they say otherwise.

## 1. Inventory

| Part | Source | State it keeps | Operations |
|---|---|---|---|
| Application core | `_applications.py` | lock, `__storage`, `__snapshot`, `__reading`, `__writing`, `__busy_writing`, `__commits` | `read_context`, `write_context`, `temporary_context`, `snapshot_context`, `batch_context`, `update_metadata_context`, `init_object`, revert, push, `take_snapshot`, deep copy |
| Inside of a write | `_applications.py` `__write`, `__hierarchy_context`, `__pre_parent_check` | `__busy_hierarchy`; stores: parent, children, history provider, data | adopt and release children, upstream data, reactions up the hierarchy |
| History | `_history.py` and the part of `__write` that adopts | `index`, `changes`, `_current_batches`, `executing`; stores: history provider, last parent history | enter/exit batch, push change, undo, redo, set index, flush, flush redo, adoption |
| Object operations | `_objects/*.py` | `state`, `data`, `metadata` of a store | attribute update and delete, list insert/delete/update/move, set update/remove, dict update, each with undo and redo; `serialize`, `deserialize` |
| Declarations of objects | `objects.py`, `_objects/object.py`, `_objects/bases.py` | attributes, relationships and delegates of a class | `attribute`, `protected_attribute_pair`, the container attributes and their pairs, dependencies of delegates |
| Reactions | `_reactions.py` | cache of unique values in metadata | `UniqueAttributes`, `LimitChildren`, `Limit` |
| Subjects and observers | `utils/subject_observer.py`, `_observers.py` | observers, observing, receiving, failed, payload | register, deregister, send, token wait |
| Storage | `utils/storage.py` | weak-keyed persistent map, evolver | query, update, copy, evolver update/reset/commit, cleaning of collected keys |
| List operations | `utils/list_operations.py` | none | index and slice resolution, pre-move |
| Classes of data | `_structures`, `_bases`, `data.py` | attributes of a class | checks of the metaclasses (abstract, final, overrides), declarations |
| Immutable data, states | `_data`, `_states` | none (values) | initialize, set, update, delete, clear, `serialize`, `deserialize`: return new values |
| Factories, serializers, façades, utilities | `_factories.py`, `_serializers.py`, ... | none | conversions, re-exports |

How they interact. An object's operation enters `write_context(obj)` of its
application, computes new state and data from what it reads, and calls the
`write` handle. `__write` walks up the hierarchy, calls the PRE reactions of the
object and its ancestors, appends a *commit* (all stores modified so far in the
transaction plus the actions to announce) and calls the POST reactions.
Reactions are arbitrary code: they write other objects, reject the change,
raise. An exception that leaves a write context reverts the commits made since
it was entered. When the topmost write context ends, the commits are *pushed*:
for each, the subjects of the receivers send PRE to external observers, the
stores are merged into the storage, and POST is sent; this happens inside a read
context, so observers can read and cannot write. Histories are themselves
objects, written to from inside `__write`.

Hard behaviours: nesting of contexts left in every possible way; rejections that
unwind several levels and retry; observers that see, at the end, changes made
long before; snapshots taken by other threads; observers waiting for one
another; hierarchy and history changing under a write; undo that must be the
inverse of operations on indices and of cached locations and data; delegates that
set each other; keys and storages that the collector drops between any two
operations; classes whose promises must survive being derived from.

What makes each part correct:
- core: leaving a level undoes exactly that level; nothing is left behind;
  reads are repeatable; observers see the change they are told of; a snapshot is
  one moment;
- inside of a write: parents and children agree, no cycle, one parent; data of
  the ancestors mirrors the state; locks are released; no update is lost;
- history: it can be undone to its beginning and redone to its end, it is a stack,
  batches nest, a history whose premises changed is flushed;
- object operations: undo is the inverse of what was done, a change tells what
  happened, children, data, locations and delegates follow the values; what was
  serialized can be loaded;
- reactions: values stay unique; limits hold; a retry ends;
- subjects: each observer receives a payload once, waits are honoured, cycles are
  refused, and every send ends;
- storage: versions are immutable, and values go with their keys;
- classes and data: what a class promises holds of whatever derives from it;
  an instance has what it must have; nothing is converted twice.

`PROJECT.json` lists the components, the hazards with the lines where they bite,
and the properties that cover them.

## 2. Modules

### The application

- `Transactions` - abstract specification: committed contents, a stack of
  savepoints, keep/rollback/discard.
- `Application` - the core. State and code:

  | variable | code |
  |---|---|
  | `owner` | the thread inside `ApplicationLock` |
  | `stack` | the `with` blocks that thread is inside: their locals (`index`, the object, the phase of `write`/`batch_context`) |
  | `reading`, `writing` | lengths of `__reading`, `__writing` |
  | `busy` | `__busy_writing` |
  | `commits`, `storage`, `snapshot` | `__commits`, `__storage`, `__snapshot` |
  | `pushing` | the locals of `__push` |
  | `raising` | the exception travelling up the stack |
  | `taking` | the locals of `take_snapshot`, per thread |
  | `snaps` | snapshots the program holds |

  One action per entry into a context, per operation inside one, per way out of
  one, per step of the push and per step of `take_snapshot`. A store is
  abstracted to one value per object. A reaction or an observer is any code: it
  may take every action the state allows, raise or reject. `Histories` are the
  objects that `init_object` constructs for another one: `InitWithHistory` reads the
  stores, commits the history and then commits the object from the stores it has
  read, as the code does (`_applications.py:1198`, 1230, 1244).
- `ApplicationProperties` - type invariant, invariants, action properties, and
  the refinement mapping to `Transactions`, which leaves histories out.
- `ApplicationSnapshots` - adds a history variable to state what the
  documentation promises of snapshots.
- `ApplicationProofs` - theorems about `Application`.

### A write

- `Hierarchy` - the inside of `__write`. State and code:

  | variable | code |
  |---|---|
  | `value`, `kids` | `state` of a store: a value and an ordered list of children |
  | `data` | `data` of a store: the same, with the children's data in place of them |
  | `parent`, `children` | `parent_ref`, `children` of a store |
  | `locks`, `busy` | `__busy_hierarchy`, `__busy_writing` |
  | `writes` | the calls of `__write` in progress: their locals (`hierarchy`, `single_data_locations`, the new state and data) and the stores to go back to |
  | `program` | what the program declared and what its PRE reactions write to |

  `BeginWrite` is an operation of an object up to its first reaction,
  `NextReceiver` the end of one receiver's PRE reactions, `Commit` everything
  from the end of the PRE reactions to the first POST reaction, `EndWrite` and
  `FailWrite` the two ways out. A reaction is any code: another write, or a
  failure. A list of children stands for every kind of object: what `__write`
  does with an attribute's or a key's location is what it does with an index.
  `HierarchyProofs` - theorems.
- `History` - histories, and what a write does with them. `provider` and `last`
  are the references of a store, `changes` and `index` the state of a history,
  `batches` the batch contexts the program is inside. An operation is a whole
  transaction (`Hierarchy` and `Application` look inside), undo and redo replay
  the changes of an entry, and an adoption flushes the histories that know about
  the child. `HistoryProofs` - theorems.
- `UndoStack` - abstract specification: what histories promise, each with entries
  to undo and entries to redo. `History` implements it.
- `Reactions` - one object, its children and its reactions, in the order in which
  a write runs them: those of the program nested at every place where they may
  run, the check of a name and of the number of children, the commit, the cache.
  A rejected write becomes another one with the name of the incrementer. Children
  that come get theirs between the check and the commit, each in an update of its
  own (`Rename`) with the reactions of a newcomer nested into it; the commit then puts
  back the cache that the write began with. `undoing` is a write by a history that
  undoes, for which `LimitChildren` waives the minimum. `ReactionsProofs` - theorems.

### An object

- `Declarations` - what `attribute`, the pairs, the container attributes and
  the relationships make of their arguments, what they refuse, and what depends on
  a delegated attribute.
- `ObjectStore` - the store of one object and the history that undoes and redoes
  its changes; `ListObject`, `SetObject`, `DictObject`, `AttributeObject` - the
  functions of the four kinds with their undo and redo, the methods that call
  them, their data and their metadata (locations, data map), and for attributes
  the delegates, `serialize` and `deserialize`; `ListOperations` - the indices of
  lists. An update of attributes goes through the intermediary object one value at a
  time (`SetValue`), setters and deleters included, and deletes what it deletes twice
  (`_objects/object.py:711`, 717); undo and redo do not go through it.
- `Objects` - an object of any kind: every method, undo and redo, and their
  properties. An operation that raises is no step, since `Application` shows that
  it leaves nothing behind. `ObjectsProofs` and `ObjectStoreProofs` - theorems.

### Immutable data

- `DataDeclarations` - what `data_attribute`, the container attributes and the
  classes of containers make of their arguments.
- `DataClasses` - what the metaclasses make of the bodies of a chain of classes:
  which they refuse, and which attributes a class has.
- `Data` - `Define` adds a class to the chain; an instance is made or deserialized
  and returns others. `DataProofs` - theorems.

### Beside it

- `SubjectObserver` - `Subject`: who is registered, still to be called, being
  called, has failed; the calls of `__observe__` in progress are a stack, because
  an observer that waits for a token calls another observer inside its own call.
  `audience` and the `waited` field of a call are history: they state the
  promises and guard nothing. Its specification is `SubjectSpec`, so that one module
  of proofs can be about it and about `Storage`.
- `Storage` - storages that are made from each other, with the references between
  them: `parent` and the sets of storages that the callback of a weak key cleans
  are weak, so `Drop` of what the program held and `Collect` of a key may happen
  between any two operations. `UtilsProofs` - theorems about both.

The `MC*` modules give TLC its instances.

How they fit: a write of `Application` (`Change`, its reactions and its commit) is
what `Hierarchy`, `History` and `Reactions` look into, each at another part of
`__write`; the new state and data that such a write is given are what
`ListObject` and its siblings compute; a step of `Application`'s push notifies
through the subject that `SubjectObserver` looks into; the map from objects to
stores that `Application` keeps is what `Storage` is.

## 3. Runs

| run | instance | question and answer |
|---|---|---|
| nesting | 1 thread, an object and its history, 2 values, depth 3, 2 commits | Is every way in and out of nested contexts exact, and does the list of commits implement savepoints? Yes; the second not for the history, which a commit forgets. |
| threads | 2 threads, 1 object, 2 values, depth 2, 3 commits, 2 snapshots | Do observers see the change they are told of, are batches nested, does one read what the context was opened to read, does the past end with its context, is the owner's snapshot exact? Yes, but for leaving a snapshot context inside another one. |
| torn_snapshot | 2 threads, 2 objects, depth 1 | Is a snapshot one moment when another thread writes? No: `take_snapshot` takes no lock. |
| observers | 4 observers | Is each observer told once, are waits honoured, failures reported once, does every send return and tell everyone? Yes. |
| hierarchy | 4 objects, one of them a root, up to 2 children each, 2 nested writes; programs whose reactions write anything at any time, and programs whose PRE reactions write neither above nor below | Do parents and children agree, do the objects stay a forest, does a write find what it relied on, are locks exact, does every object's data mirror its state? Yes; the last one for the second kind of programs. |
| operations | an object of each kind, 2 children and a plain value, lists of up to 3 (2 when a second change is made), dictionaries of 2 keys, classes with 5 attributes, with a setter and a deleter that set and delete others, and with pairs and containers, 2 changes to undo and redo | Does what is derived from the values follow them, does a change tell what happened, can it be undone, do undo and redo restore, are delegates current, can an object be loaded? Yes, with the exceptions of section 6. |
| undo_restores | the same | Does every undo restore? No: not of moves towards the start of a list, nor of set updates with values the set had. |
| history | 2 histories (one of size 1), 4 objects that hold others, 2 that move, batches of 2 changes | Can every history be undone and redone, do other histories forget a child, is each a stack? Yes; the first two unless the program undoes in a batch, moves an object that has children or lets two objects hold each other in turn. |
| reactions | 3 children, 3 names, limits 1 to 2 and 2 to 3, updates nested 2 deep, 2 calls of the program (3 if at most the child's reactions write); no writing reaction, one before or after the change of the child, of a newcomer or before that of the grandparent, or the child's and the newcomer's before it | Are names unique and limits kept, is the cache exact, is a change rejected once at most, does every write end? Yes, but for the programs named in section 6. |
| storage | 2 keys, 2 values, 4 storages | Are storages immutable, do values go with their keys where the line of storages is whole, does cleaning complete? Yes. |
| leak | the same | Do values always go with their keys? No: not if a storage in between was dropped. |
| data | chains of up to 3 classes and one instance; each attribute in the combinations of its flags that a declaration accepts | Does an instance have what it must have, is what is final never redefined, is what was serialized the same when it is loaded, is what is promised not to change kept? Yes. |

Bounds. Depth 3 gives an outer level, a level that is left abnormally and a level
or reaction inside it; with one object and its history a write can be inside the write
of another object, and a history can be constructed, forgotten and pushed;
commits of up to 2 give a revert that keeps one and drops another, and a batch with
a change inside. Two threads are enough for the lock-free `take_snapshot` to
interleave with the owner. Four observers give a wait inside a wait, a third
observer already called and one that is not; a cycle needs two. Four objects with
one root give a subtree that can be put elsewhere, and two children a location that
another child may take; two nested writes are the one that is in progress and one
that gets in its way. Three values of a list are a slice with something before and
after it, and the indices used count from both ends and reach beyond the last one; two
changes are one that is undone over another. A list that has changes to undo or redo is
changed again only while it is of two values (`MaxShort`), which is enough for a move
that is not undone right and an update before it, whose undo then meets other values
than it wrote. Two histories are the former and the new one of an object that moves,
size 1 forgets at once, batches of two have something to revert inside. Three
children with three names are the two that collide and a third that takes the name
in between; `MaxNested` of 2 is the update of a newcomer and one that its reaction
writes, `MaxCalls` of 2 or 3 one write to fill the object, one whose reactions get in
its way, and, where that costs little, one after it (states that programs without
habits get to are one call away from the start, as every naming is an initial state). Four storages are a line of three and one that branches off. Three
classes are one that promises, one that implements and one that derives from both.

Deadlock is checked in `nesting`, `threads`, `torn_snapshot`, `observers` and
`hierarchy`, where the program can always enter or leave something. In the other
runs a bound may leave nothing to do: all calls are made (`reactions`), all storages
are made, the entries are as long as they may be, or a class was derived that has no
operations.

Symmetry is used on threads, values, objects and keys that the code and the
properties do not tell apart (histories are permuted among themselves only); the runs that use it check no liveness.

Fairness. `SubjectObserver` assumes weak fairness of the loop of `send` (call the
next observer, return when there is none) and of the code of an observer being
called, which returns or fails. The first is the code's own loop; the second is
what a subject cannot give: an observer that never returns blocks the send.
`Reactions` assumes weak fairness of a write that was called: it is sequential code
and goes on by itself, its reactions included, which nest a bounded number of
writes. Nobody has to send, wait, register or write. The other modules assume no
fairness: the programs that call objetto are free to stop.

## 4. Proofs

`ApplicationProofs` proves, for every set of threads, objects and values and
every bound, `TypeOK`, `Quiescent`, `BusyExact`, `ReadsInsideWrites` and
`SnapshotApplied`, from the assumptions `NullsAssumption`,
`HistoriesAssumption` and `BoundsAssumption` only. The argument is one inductive invariant `IInv`:

- the stack is write contexts followed by read contexts, and `writing` and
  `reading` are the lengths of the two parts (`ReadsInsideWrites`): this is what
  makes "the topmost write context" and "inside a read context" the same thing
  in the code's counters and in the stack;
- the lock is held exactly when the stack is not empty, an exception travels only
  while it is held (`LockShape`);
- the index of every write context is at most the number of commits and the
  outermost one's is 0 (`IndexShape`): an exception leaving the topmost context
  therefore leaves no commit;
- a push happens right above a single write context, with no commits left
  (`PushShape`);
- `BusyExact` and `SnapshotApplied` as stated.

Each step lemma shows that one group of actions preserves it; `Quiescent` follows
from the conjunction.

The second half of `ApplicationProofs` goes on from there, with the same assumptions, and
proves `ObserversSeeChange`, `BatchesNested`, `ReadsRepeatable`, `OwnerSnapshotExact` and
that `Application` implements `Transactions`. `IInv` says nothing of what the commits
hold; three more invariants do, each inductive together with `IInv`:

- `StoresRight`: each commit has the stores of the one before it and perhaps one more,
  unless it is one of `init_object` that forgets the history just constructed: what is
  forgotten is a history that no commit changes (`Lost`), and no later commit nor the
  storage has it (`ForgetsForGood`). A change follows from the state right before it, what is still to be pushed follows
  from the storage, and nothing that was committed since a pending change was
  announced has changed its object. `ObserversSeeChange` follows.
- `BatchesRight`: next to `BatchesNested` itself, that the beginning of an open batch
  is the first commit of its context and everything since is inside it, and that a
  batch begins and ends on the same side of the index of any context. So what a
  revert drops is made of whole batches, or of batches whose context it leaves.
- `TakingRight`: while the owner of the lock takes a snapshot, the storage is the one
  it began with.

`ReadsRepeatable` has two parts. That the present does not change while a read context is
open follows from `IInv`. That one reads what the context was opened to read (`AsOpened`:
the innermost snapshot around it, or else the present) is said of each step, because
leaving a snapshot context inside another one ends it (`LeavesNestedSnapshot`): every
other step keeps it, whatever contexts it enters or leaves (`StillAsOpened`).

The refinement has one lemma per kind of step (`Kinds`): every step opens a write
context, commits, leaves one, rejects a change, discards a context or hands over to
the push, or does none of it, and each kind is a step of `Transactions` or a stutter
under the mapping (`Savepoints`: the view at the index of every write context, of all
objects but histories). A history that is forgotten may be pushed nevertheless, with
the commits before it was forgotten; that the mapping leaves it out is what makes
`InitWithHistory` one update of the transaction (`Projections`, `HistoryMaps`).

The second half of `UtilsProofs` proves, for every set of observers, finite or not, and
without any assumption, `SubjectTypeOK`, `ToldOnce`, `WaitsHonoured`,
`FailuresReportedOnce` and `CleanBetweenSends`. Their conjunction is inductive: none of them is
alone. `ToldOnce` says that the innermost call's observer is receiving and called
nowhere else, so its return takes it out of `receiving` for good; that makes the
observers that a wait returned for (`Done`) stay done, which is `WaitsHonoured`; and
`CleanBetweenSends` gives each send empty sets to start from.

The first half of `UtilsProofs` proves, for every set of keys and values and every number of
storages, `ForgottenWithKey`, `CleaningCompletes` and `Immutable`, from
`MaxStoragesAssumption` and `NoneAssumption`. Who is told of a new storage is the
least set that contains the storage it is made from and with each storage the one
above it, as long as that is still there; `AncestorsReachUp` and `AncestorsLeast`
state just that, and every fact about walking up follows from them without
induction. The inductive invariant:

- `AllTold`: whoever can be walked up to from a storage knows it. Dropping
  storages shortens the way (`AncestorsFewer`), making one starts a way that goes
  on as that of its parent (`GrownLive`);
- `OriginsShared`: the storages that a weak key cleans all have that weak key, be
  they referred to or not. It needs `AllTold`: a storage told of a new one must be
  one whose weak keys the new one inherits;
- `Introduced`: a weak key was made by a storage above;
- `ForgottenWithKey` itself. When a key is collected, an entry that stays is one of
  a storage that the callbacks do not know, so by `AllTold` the way up to the storage
  that introduced it is broken (`LineageWhole`); and what is broken stays broken;
- types, and that what an evolver is to update lives.

`GrownIInv` shows all of it of a storage that is made, whoever made it, and is
applied to copies, updates and the evolver's commits.

`HierarchyProofs` proves, for every finite set of objects, all values, every kind of
program and every bound, `ParentsAgree`, `LocksExact` and `PendingStands` (the part of
`WritesStand` on states and children), from `HierarchyAssumption`. What
`HierarchyOf` returns plays no part in these three: they hold whatever objects a write
locks above it. None of them is inductive alone:

- a write commits what was computed before its reactions ran, so the stores agree
  afterwards only if what it replaces is still there (`StandsIn`); that holds because
  the writes in between are of other objects and adopt other children (`Apart`),
  which is so because a child that is being adopted is locked (`Unlocked`, from
  `LocksExact`) and an object that is written to is busy;
- a write that fails goes back to the stores it began with, so these must agree too,
  and let the writes around it stand: `StoresSound` says both of the stores as they
  are and of those of every write in progress;
- `PreParentCheck` counts locations: `Adoptable` shows that counting at most one more
  and only children without a parent leaves no child in two locations.

`GoesOn` shows that a reaction or a commit preserves the invariant, `LeaveIIs` that
the end of a write and a failure do.

Then it proves `Forest` and `WritesStand`, for which it matters what `HierarchyOf` returns. `Complete(p, s)` says that each object of `s` is
the parent (in `p`) of the one before, up to one without parent; `HierarchyOf`, a
recursive function on numbers, returns such a chain if there is one, and as many steps
as there are objects are enough, because a chain has no object twice. The invariant
`ForestSound` says

- `ForestIn`: there is a complete chain from every object, roots have no parent, and
  the hierarchy that each write announced itself to is one, in the stores as they are
  and in those that each write would go back to;
- `LockedOut`: the children that a pending write adopts or releases are no roots and
  in no hierarchy that a write announced itself to. They were not locked when the
  write began, and all of those hierarchies are.

So whatever a write moves, with everything below it, is in none of the hierarchies
that others rely on, and the new parent is not below it: its own hierarchy is locked.

From that follows `DataMirrors`, for programs whose PRE reactions write neither above nor
below the object. `DataMirrors` of some stores is one equation (`Mirrored`), of which
`UpstreamData` has to find the next solution. `Upstream` shows that it does: after
`i` objects of the hierarchy everything is right but the next one above (`Risen`), as a
child is above an object only if its parent is the next one (`ChildAbove`) and nothing
is twice in a hierarchy. The invariant `DataSound` adds what a pending write relies on
(`Relies`): the data that it computed before its reactions ran is still that of its new
state, and each location that it remembers is still that of the object below. Both
stay because a write nested in it is to no object above it and replaces the data of
none of its children (`Spared`), and all of it is said of the stores as they are and of
those that each write would go back to.

`ReactionsProofs` proves `LimitsKept`, `UniqueNames` and `CacheExact`, from
`ReactionsAssumption`: any children and names, any incrementer, any limits, and any
set of habits of the program, where the run takes some. The invariant is one formula
per concern about the writes in progress:

- `Nesting`: what is nested is an update of another child, and the write around it
  stands where the program's reaction was called, or among the updates of the
  children that come;
- `LimitsRight`: a write of children that was checked is still within the limits when
  it commits, as no other write of children can come in between, and what a failure
  goes back to has as many children as were held; or a history undoes, and there are
  not too many;
- `NamesRight`: a name that was checked is still free, the old name that a pending
  update replaces is still there, and it is (`OldStands`) in the stores that a write
  nested into it goes back to;
- `CacheRight`: between writes the cache is exact; during a write it is what was exact
  before that write (`CacheBehind`), so that what the reaction discards and adds makes
  it exact again. A name that the cache gave away for a moment comes back because the
  names were distinct before and after.

Several children that come get distinct names (`Given`, a recursive function on numbers),
by induction; while they are updated one after the other, those done have the name given
to them, those left their old one, and nobody who is held has any of them.

`HistoryProofs` proves that `History` implements `UndoStack`, `HistoriesValid` and
`OthersForget`, from `HistoryAssumption`: any finite set of objects, any sizes, any
adoptions, any `Level`. Types, `IndexRight` (the first part of `HistoriesValid`) and the
refinement hold of programs of every kind. Undo and
redo are the difficulty: they replay changes, each a whole write that may find another
history, record there and flush others; nothing in the code says that undoing leaves
the entries of the history itself alone. The invariant that says it is `Own`:

- the changes that a history has are of objects whose history it is, or of objects
  from which no history is found, as their providers go round (`Theirs`). So what is
  replayed belongs to the history that executes, which does not record, or raises;
- it stays so when a write moves an object to another history, because whatever loses
  its history to another one had the one that the adoption flushes (`Moved`), and an
  adoption that would flush the history that executes raises.

Where the way along the providers of an object ends is `HistoryOf`, a recursive
function on numbers; `EndsInTime` shows that a way that has not ended after as many
steps as there are objects never does, and `Backwards` is the induction from the ends
that `Moved` needs. `Went` is what a replay, of an entry or of many, does to each
history: nothing, or empty it. The rest is about single books of entries (`Booked`,
`Turned`): each way to change one keeps it right and is a step of a stack.

That a history can be replayed to both ends, from the values that are there, and that
others forget a child, is so of programs without any of the three habits only. To replay
a history goes through worlds that the program need never have been in, as other
histories were undone or flushed since; so its entries must say for themselves where
they lead, whatever the rest of the world is. The invariant (`Ordered`, from
`AlwaysCareful`) is about a world and the open batches:

- `Legal`: there are states, of parents and values only, so that each entry leads from
  one to the next (`Leads`), and the state at the index is the one of the world. What
  leads somewhere leads back when it is reverted (`LeadsBack`), so a replay finds in
  every cell what its next change starts from (`ReplayRuns`), for as many entries as
  there are (`FlattenLeads`);
- `Tidy`: who passes a history on, or holds, is above in `Level`, so a history is found
  for every object and no object is above itself; the last history of a child is the
  one of its parent; and a history has only changes that it knows (`Known`): of objects
  whose history it is, and of children whose last history it is. So a replay flushes
  nothing (`NoneFlushed`) and changes nobody's history (`ReplayedHistories`), and two
  histories never tell of the same cell (`Foreign`), so that what one replays leaves the
  others legal (`LeapAside`). `OthersForget` is a consequence;
- `InBatches`: a history with an open batch still has its entry, at the index, or was
  emptied. Without it a change made in the batch would be dropped, as it is after an undo
  within a batch, and the history would no longer be legal.

A write of the program keeps all three (`WriteSound`): where a child leaves its last
history, or gets another one from its provider, the histories that know it are those
that are flushed (`WriteKnown`), which is what the code flushes them for.

`DataProofs` proves the four properties of `Data` - `Complete`, `FinalsStand`,
`ReloadsTheSame`, `PromisesKept` - for every factory, all declarations and containers
and chains of any length, from `DataAssumption`: each member of a body is a plain value
or an attribute that is as declarations are (`AttributeSound`), containers have plain
values, and a factory makes plain values of plain values. That declarations are so is
proved too, from the arguments they accept (`DeclarationsSound`). The invariant is

- `ChainRight`, of the classes and what the loop of the metaclass finds in them
  (`Found`, a recursive function on numbers; `FoundMore`: one class is one turn more):
  all that is final is found, whatever a class is compared with is sound
  (`FoundSound`), an abstract attribute is of some class (`AbstractDeclared`), and
  what a class promises not to change, neither the nearest attribute nor the abstract
  one that the next class is compared with would change (`PromisesFound`). The last is
  what makes promises inductive, because a member is compared with the abstract
  attribute and not with the one that implements it;
- `IsState`: an instance has values that its attributes have, also the required ones. A
  container an attribute has is of its class, so that making it again without the
  factory changes nothing (`ThereAndBack`), and what can be deleted is not required.

`ObjectsProofs` proves `UndoRedoRestore`, `ChangesTell` and `DelegatesExact`, and
`ObjectStoreProofs` proves `StoreFollows` and `UndoPossible`, for all values, keys,
indices and children, histories of any length and any classes of attributes that the
metaclass accepts. They assume what separates the
special values from the others (`NoneAssumption`, `DataAssumption`, `DeletedAssumption`,
`NamesAssumption`, the second halves of `IndicesAssumption` and `KeysAssumption`), that
indices are integers and a dict has finitely many keys (`KeysAssumption`; each call of
`update` is given finitely many), that classes are what the metaclass makes of attributes
that it accepts, whose relationships have data only of children (`ClassesAssumption`), and
that setters set attributes that are not delegated (`SettersAssumption`). For the first
three properties there is one invariant for each kind:

- lists, sets and dicts (`ListInv`, `SetInv`, `DictInv`): every entry, to undo or to redo,
  has changes that replay: with what a change says, each of the two states it is between
  can be made from the other. Nothing is said of where the object is now, as undo and
  redo of a list or a set may lead somewhere else than where they came from (the move and
  the addition that `UndoRedoRestore` leaves out), so entries need not go on where the one
  before ended. So an operation has to tell the truth in its change, whatever the object
  is (`InsertChange`, `DeleteChange`, `UpdateChange`, `MoveChange`, `EffectiveIs`), and undo
  or redo has to lead across it (`ListUndoRestores`, `ListRedoRestores`,
  `SetEntryRestores`, `DictEntryRestores`). For lists all of it comes down to cutting a part
  out of a sequence and putting one in (`Cut`, `Ins`, `InsCut`, `CutIns`), at indices
  that were clamped and resolved (`ClampedIs`, `SpanIs`);
- attributes (`AttributesInv`): the delegates are current in the state of the object and in
  both states of each entry, and each entry starts where the one before ends
  (`AttributesChain`), so that undo and redo lead from one state with current
  delegates to another.

Delegated attributes are current after an update that does not raise (`OutcomeRight`)
because of what holds
of the intermediary object after each value it sets (`Right`): what is dirty has lost its
value, what depends on it is dirty too, and what is not dirty has what its getter
returns. Setting a value makes all its dependents dirty, which are dependents of dependents
also (`DependentsAre`); the metaclass finds them in a bounded number of rounds
(`ClosureRight`: after `k` of them the first `k + 1` attributes that were made have all that
they depend on, as dependencies are made before). The getters are called in an order in
which nothing comes before what it depends on (`SortedIs`), so one turn is enough
(`ResultsRight`): what a getter reads is not made dirty again by a later one. A deletion
is two steps of this kind, and a setter or a deleter one on another attribute. So the
theorem covers what the code lets through: a deletion of an attribute's own value is
never let through (section 6), but one by a setter is, and so is a deletion by a deleter
that sets another attribute.

`StoreFollows` and `UndoPossible` need a second invariant (`More`), inductive together
with the first. It says of each kind

- that the store is exact (`ListExact`, `SetExact`, `DictExact`, `AttributesExact`): its
  children are those among its values, no child is held twice, and each location it has is
  where the child is; the data of sets, dicts and attributes is the data of the values.
  Locations may be missing from a dict or attributes, once a child came before it left,
  and the data of a list may be wrong, once an update skipped a value; so neither is part
  of the invariant, and `StoreFollows` says of each that it stays right over every other
  step (`KeysFollow`, `NamesFollow`, `DataFollows`);
- that the entries are (`ListEntryExact` and so on): both states of a change could be held,
  no child twice, with new and old values that belong to each other. Undo and redo start
  from wherever the object is, which need not be where the entry left it; that a child comes
  once only must then follow from the entry and the checks of the update (`GoodPut`,
  `ListUndoneExact`), and that the checks pass, in `UndoPossible`, from the entry and the
  state it leads to (`ListMoreUndo`, `SetMoreUndo`, `DictMoreUndo`, `AttributesMoreUndo`).

For sets the data map has what is there, so that a removal finds what to take from the data
(`SetDataExact`). For dicts and attributes `RelocatedIs` says where a child is after
the locations of an update were taken away and given one by one: nowhere, if the last
step that names it takes it away, else where it came last. For lists all of it is said of
the parts of a sequence, by index (`PartAt`, `CutAt`, `InsAt`), and that fabricating the
data goes through each of these operations (`FabricatedIns`, `FabricatedCut`,
`FabricatedMove`).

This proof changed the model in two places. The exception of `StoreFollows` for lists
was too narrow: an update that skips a value does so also when it is undone or redone at
another state than it was made for, as after a move that was not undone right, and a
bound of one change to a list never got there; now it reads the states that the data is
computed from, and two changes of a list are checked. The exceptions of `UndoPossible` for
children that come before they leave were not needed and are gone.

Induction is over numbers, from the well-foundedness of `<`, with a set in place of
the predicate (`Induct`).

Only model-checked: the liveness properties `SendCompletes` and `WritesEnd`, which are
out of reach of the prover, and `Reloadable` of `Objects`, that what was serialized can
be loaded. It says that there is a way to make the new object, so it depends on
whether there are enough values for the relationships that fabricate what is loaded, and
does not follow from what `ClassesAssumption` says of a class; the run enumerates
the classes and all of their states.

## 5. What is left

1. What a class must have for `Reloadable`, and a proof for those that have it.
2. `Hierarchy` and `History` in one module, so that adoptions happen under reactions
   that write.
3. Observers inside the push: `SubjectObserver` composed with `Application`.
4. Snapshots and deep copies as `Storage` sees them: a snapshot is a storage that is
   held, a copy one without a parent.

## 6. Exceptions and disagreements

Three properties say that something always holds, as the documentation does, and do
not: `SnapshotIsAMoment`, `EveryUndoRestores`, `AlwaysForgotten` (the runs
`torn_snapshot`, `undo_restores`, `leak`). Others except a case by name, at the
line where it is decided:

| case | where | except in |
|---|---|---|
| a snapshot context is left inside another one: the outer one, opened to read its snapshot, reads the present from then on, although in a read context "all objects [...] are guaranteed not to be modified" (`../README.rst:77`) | `_applications.py:1261` | `ReadsRepeatable` |
| `init_object` of an object with a history: it commits from the stores it read before it constructed the history, which therefore cannot be read for the rest of the transaction, although the push stores it | `_applications.py:1244` | `ImplementsTransactions` |
| PRE reactions that write above or below: the pending write commits data computed before | `_applications.py:936` | `DataMirrors` |
| undo within an open batch; objects that have children are given a parent or lose it | `_history.py:314`, `_applications.py:904` | `HistoriesValid`, `OthersForget` |
| two objects hold each other, one after the other, below an object with a history: undo puts back what the first one provided while the second one still provides the first | `_applications.py:974` | `HistoriesValid`, `OthersForget` |
| a grandparent's reaction gives another child the name after it was checked | `_reactions.py:188`, `_applications.py:894` | `UniqueNames`, `CacheExact` |
| a reaction of a child that comes, run when it gets its name, gives that name or one of the others to another child | `_reactions.py:301` | `UniqueNames`, `CacheExact` |
| a history undoes the change that brought the number of children to the minimum | `_reactions.py:593` | `LimitsKept` |
| a child's reaction gives its old name away before the cache discards it | `_reactions.py:387` | `CacheExact` |
| a child's own reaction writes before its rejected write is retried | `_reactions.py:361` | `WritesEnd` |
| an update of a list skips the data of values that stay, before others that do not | `_objects/list.py:397` | `StoreFollows` |
| two attributes or keys swap their children: a location set is removed again | `_objects/object.py:784`, `_objects/dict.py:179` | `StoreFollows` |
| undo of a move towards the start of a list; undo of a set update with values it had | `_objects/list.py:540`, `_objects/set.py:214` | `UndoRedoRestore` |
| undo of the first value of an attribute that may not be deleted or changed | `_objects/object.py:770` | `UndoPossible` |
| attributes with a default and no value have the default when loaded | `_objects/object.py:645` | `Reloadable` |
| a class overrides an abstract attribute that one between them implemented: it is compared with the abstract one | `_structures/structure.py:594` | `PromisesKept` |

Met while reading, decided by a single call and so without a model:

- every update that deletes an attribute's own value raises, so `del obj.attribute`,
  `_delete` and `_clear` fail whenever there is something to delete: after line 711
  deleted it, line 717 does so again and finds no value (`_objects/object.py:711`, 717,
  1609). Deleting works by a setter of another attribute, by a deleter that sets one
  instead, and by undo and redo. `AttributeObject` deletes twice as the code does;
- `KeyboardInterrupt` and `SystemExit` pass through `except Exception`: commits and
  busy objects stay (`_applications.py:1345`), and so does the payload of a subject
  (`utils/subject_observer.py:151`);
- a deep copy of an application stays in the read context in which it was made, so
  every write on it is refused (`_applications.py:653`);
- `p.x = n; n.a = m; p.x = None; n.a = None; p.y = m; m.a = n`, with a history of `p`
  and none of `m` and `n`, can be undone three times, not four: as a released child
  keeps its provider, the third undo makes `m` and `n` provide each other's history,
  which the fourth walks for ever (`_applications.py:723`). TLC finds it in `History` with
  six entries and programs whose objects hold each other in turn, if `HistoriesValid`
  does not except them;
- by default a protected pair serializes its public attribute, which `deserialize`
  then refuses (`objects.py:631`);
- the pairs of container attributes give each of the two the metadata of the other
  (`objects.py:1197`);
- `_discard` of a proxy dictionary does not ask whether the key is there
  (`_objects/dict.py:770`);
- `s -= {...}` of a mutable set leaves the set as it is (`_bases/set.py:666`).

## 7. Not modelled

- Proxies, views and iteration of containers: they relay to the operations that are
  modelled.
- Roots beyond what `Hierarchy` says of them, application properties, deep copies.
- Unique descriptors, slots, pickling, equality and hashes of data, and classes with
  more than one base: the metaclasses merge their members in the order of Python's
  MRO, of which a chain is the case that the checks are about.
- The operations of immutable containers on their own: `ListData`, `SetData` and
  `DictData` appear as the data of objects, `ListState` in `ListOperations`.
- The wrapper of observers (`_observers.py`), and the lifetime of those that are held
  weakly, beyond their deregistration.
- Factories and serializers: conversions of values without state; `Data` models when
  they run, not what they compute.
- Type checks, lazy imports and texts: data that the models do not tell apart.
