---------------------------- MODULE Application ----------------------------
(***************************************************************************)
(* The transactional core of objetto (objetto/_applications.py, class      *)
(* ApplicationInternals): the re-entrant lock, the nested read, write,     *)
(* temporary, snapshot and batch contexts, the list of commits, revert and *)
(* push, rejected changes, external observers and snapshots.               *)
(*                                                                         *)
(* One thread at a time owns the lock; `stack` is the stack of `with`      *)
(* blocks that thread is inside, innermost last.  A store (state, data,    *)
(* metadata, hierarchy) is abstracted to one value of the object.  What    *)
(* happens inside one object's write - hierarchy, reactions, history - is  *)
(* the subject of other modules; here a reaction is any code that runs     *)
(* between the start and the end of the write and may itself do anything.  *)
(***************************************************************************)
EXTENDS Naturals, Sequences, FiniteSets

CONSTANTS
    Threads, Objects, Values,
    Histories,        \* the objects that are the history of another one
    NoStore,          \* storage holds nothing for the object (KeyError)
    NoThread,         \* the lock is free
    NoSnapshot,       \* ApplicationInternals.__snapshot is None
    MaxDepth,         \* bound: open contexts of the owner
    MaxCommits,       \* bound: commits of one transaction
    MaxSnapshots      \* bound: snapshots kept

ASSUME NullsAssumption ==
    /\ NoStore \notin Values
    /\ NoThread \notin Threads
    /\ NoSnapshot \notin [Objects -> Values \cup {NoStore}]

ASSUME HistoriesAssumption == Histories \subseteq Objects

ASSUME BoundsAssumption ==
    /\ MaxDepth \in Nat
    /\ MaxCommits \in Nat
    /\ MaxSnapshots \in Nat

VARIABLES
    owner,      \* thread that holds the lock
    stack,      \* contexts the owner is inside, innermost last
    reading,    \* Len(__reading)
    writing,    \* Len(__writing)
    busy,       \* __busy_writing
    commits,    \* __commits
    storage,    \* __storage
    snapshot,   \* __snapshot
    pushing,    \* locals of __push: commits left and phase of the first one
    raising,    \* exception on its way up the stack
    taking,     \* per thread, locals of take_snapshot
    snaps       \* snapshots the program holds

vars == <<owner, stack, reading, writing, busy, commits, storage, snapshot,
          pushing, raising, taking, snaps>>

-----------------------------------------------------------------------------
(* Data.                                                                   *)

Stored   == Values \cup {NoStore}
Contents == [Objects -> Stored]

\* A commit.  Its stores are every store modified so far in the transaction.
ChangeCommit == [type : {"change"}, obj : Objects, old : Stored, new : Stored,
                 stores : Contents]
SilentCommit == [type : {"silent"}, stores : Contents]   \* no actions
BatchCommit  == [type : {"batch"}, obj : Objects, phase : {"PRE", "POST"},
                 batch : Nat, stores : Contents]
Commit == ChangeCommit \cup SilentCommit \cup BatchCommit

\* A context.  A "change" frame is write_context(obj) and the write inside it;
\* index is the number of commits when the context was entered.
ContextFrame  == [kind : {"write", "temporary"}, index : Nat]
ChangeFrame   == [kind : {"change"}, index : Nat, obj : Objects, old : Stored,
                  new : Stored, phase : {"PRE", "POST", "rejected", "done"}]
BatchFrame    == [kind : {"batch"}, index : Nat, obj : Objects,
                  phase : {"open", "rejected", "done"}]
ReadFrame     == [kind : {"read", "push"}]
SnapshotFrame == [kind : {"snapshot"}, of : Contents]
WriteFrame    == ContextFrame \cup ChangeFrame \cup BatchFrame
Frame         == WriteFrame \cup ReadFrame \cup SnapshotFrame

\* Exceptions: none, any Exception, the end of a temporary context, or the
\* rejection of the change whose frame is at that depth of the stack.
NoException == [type |-> "none", depth |-> 0]
Error       == [type |-> "error", depth |-> 0]
Temporary   == [type |-> "temporary", depth |-> 0]
Reject(d)   == [type |-> "reject", depth |-> d]
Exception   == [type : {"none", "error", "temporary", "reject"}, depth : Nat]

NotPushing == [queue |-> <<>>, phase |-> "PRE"]
Idle       == [pc |-> "idle"]

Top         == stack[Len(stack)]
Pop         == SubSeq(stack, 1, Len(stack) - 1)
SetPhase(p) == [stack EXCEPT ![Len(stack)].phase = p]

WriteKinds  == {"write", "temporary", "change", "batch"}
ReadKinds   == {"read", "snapshot", "push"}
Phased      == {"change", "batch"}
LivePhases  == {"PRE", "POST", "open"}

NoStores           == [o \in Objects |-> NoStore]
Merge(base, extra) == [o \in Objects |->
                         IF extra[o] = NoStore THEN base[o] ELSE extra[o]]

\* (mutant) Every commit only holds the stores it modified itself.
LastStoresForgotten == NoStores

\* The stores the next commit starts from.
LastStores == IF commits = <<>> THEN NoStores ELSE commits[Len(commits)].stores

\* What __read finds when there is no snapshot context.
Current == IF writing > 0 THEN Merge(storage, LastStores) ELSE storage

\* What __read finds, for every object.
View    == IF snapshot # NoSnapshot THEN snapshot ELSE Current
Read(o) == View[o]

-----------------------------------------------------------------------------
(* Who may run.                                                            *)

Pushing   == stack # <<>> /\ Top.kind = "push"
\* Observers are being called for the first commit of the queue.
Notifying == Pushing /\ pushing.queue # <<>> /\ pushing.queue[1].type # "silent"

\* The program's own code runs: a body of a context, a reaction, a callback of
\* a rejection or an observer.
UserCode(t) ==
    /\ owner = t
    /\ raising = NoException
    /\ taking[t] = Idle
    /\ Pushing => Notifying
    /\ Top.kind \in Phased => Top.phase # "done"

\* ... or it is outside every context and the lock is free.
MayEnter(t) ==
    \/ owner = NoThread /\ taking[t] = Idle
    \/ UserCode(t)

Enter(t, frame) ==
    /\ Len(stack) < MaxDepth
    /\ owner' = t
    /\ stack' = Append(stack, frame)

-----------------------------------------------------------------------------
(* Entering contexts.                                                      *)

\* (mutant) A write context may be entered inside a read context.
MayWriteWhileReading(t) == MayEnter(t)

\* write_context refuses to be entered while in a read context.
MayWrite(t) == MayEnter(t) /\ reading = 0

\* (mutant) Reaction cycles are not detected.
MayChangeInCycle(t, o) == MayWrite(t) /\ Current[o] # NoStore

\* write refuses an object that is being written.
MayChange(t, o) == MayWrite(t) /\ Current[o] # NoStore /\ o \notin busy

\* Application.write_context and temporary_context.
EnterWrite(t, kind) ==
    /\ MayWrite(t)
    /\ Enter(t, [kind |-> kind, index |-> Len(commits)])
    /\ writing' = writing + 1
    /\ UNCHANGED <<reading, busy, commits, storage, snapshot, pushing, raising,
                   taking, snaps>>

\* An object's operation: enter write_context(obj), compute the new value from
\* what it reads, call write; the PRE reactions follow.
BeginChange(t, o, v) ==
    /\ MayChange(t, o)
    /\ Enter(t, [kind |-> "change", index |-> Len(commits), obj |-> o,
                 old |-> Current[o], new |-> v, phase |-> "PRE"])
    /\ writing' = writing + 1
    /\ busy' = busy \cup {o}
    /\ UNCHANGED <<reading, commits, storage, snapshot, pushing, raising,
                   taking, snaps>>

\* batch_context: the PRE commit, then the PRE reactions and the body.
EnterBatch(t, o) ==
    /\ MayWrite(t)
    /\ Len(commits) < MaxCommits
    /\ Current[o] # NoStore
    /\ Enter(t, [kind |-> "batch", index |-> Len(commits), obj |-> o,
                 phase |-> "open"])
    /\ commits' = Append(commits, [type |-> "batch", obj |-> o, phase |-> "PRE",
                                   batch |-> Len(stack) + 1,
                                   stores |-> LastStores])
    /\ writing' = writing + 1
    /\ UNCHANGED <<reading, busy, storage, snapshot, pushing, raising, taking,
                   snaps>>

\* (mutant) Only the topmost read context is counted.
EnterReadUncounted(t) ==
    /\ MayEnter(t)
    /\ Enter(t, [kind |-> "read"])
    /\ reading' = IF reading = 0 THEN 1 ELSE reading
    /\ UNCHANGED <<writing, busy, commits, storage, snapshot, pushing, raising,
                   taking, snaps>>

\* read_context; an observer may read too.
EnterRead(t) ==
    /\ MayEnter(t)
    /\ Enter(t, [kind |-> "read"])
    /\ reading' = reading + 1
    /\ UNCHANGED <<writing, busy, commits, storage, snapshot, pushing, raising,
                   taking, snaps>>

EnterSnapshot(t, s) ==
    /\ MayEnter(t)
    /\ Enter(t, [kind |-> "snapshot", of |-> s])
    /\ reading' = reading + 1
    /\ snapshot' = s
    /\ UNCHANGED <<writing, busy, commits, storage, pushing, raising, taking,
                   snaps>>

\* The refusals of the entry points: RuntimeError in the calling code.
\* A write while reading; a write to an object being written (a reaction
\* cycle); an operation on an object that has no store; a second
\* initialization.
Refused(t) ==
    /\ UserCode(t)
    /\ \/ reading > 0
       \/ busy # {}
       \/ \E o \in Objects : Read(o) = NoStore
       \/ \E o \in Objects : Current[o] # NoStore
    /\ raising' = Error
    /\ UNCHANGED <<owner, stack, reading, writing, busy, commits, storage,
                   snapshot, pushing, taking, snaps>>

-----------------------------------------------------------------------------
(* Inside a write context.                                                 *)

\* (mutant) The write context of an operation may be inside a read context.
MayCommitWhileReading(t) ==
    /\ UserCode(t)
    /\ Len(commits) < MaxCommits

\* The operation's own write context (or the enclosing write's) is entered.
MayCommit(t) ==
    /\ UserCode(t)
    /\ reading = 0
    /\ Len(commits) < MaxCommits

\* init_object of a class without a history: a commit with no action.  (Its own
\* write_context holds no other code; outside any context it is EnterWrite,
\* InitObject, LeaveWrite.)
InitObject(t, o, v) ==
    /\ MayCommit(t)
    /\ o \notin Histories /\ Current[o] = NoStore
    /\ commits' = Append(commits, [type |-> "silent",
                                   stores |-> [LastStores EXCEPT ![o] = v]])
    /\ UNCHANGED <<owner, stack, reading, writing, busy, storage, snapshot,
                   pushing, raising, taking, snaps>>

\* No commit and no storage has ever heard of h: it is being constructed.
Unheard(h) ==
    /\ storage[h] = NoStore
    /\ \A i \in DOMAIN commits : commits[i].stores[h] = NoStore

\* init_object of a class with a history descriptor, which constructs the
\* history h after it has read the stores: h is initialized and written, one
\* commit here as it has no observers yet and runs no code of the program, and
\* the commit of o then starts from the stores without h.
InitWithHistory(t, o, v, h, w) ==
    /\ MayCommit(t)
    /\ Len(commits) + 1 < MaxCommits
    /\ o \notin Histories /\ Current[o] = NoStore
    /\ h \in Histories /\ Unheard(h)
    /\ commits' = commits \o
         <<[type |-> "silent", stores |-> [LastStores EXCEPT ![h] = w]],
           [type |-> "silent", stores |-> [LastStores EXCEPT ![o] = v]]>>
    /\ UNCHANGED <<owner, stack, reading, writing, busy, storage, snapshot,
                   pushing, raising, taking, snaps>>

\* update_metadata_context: the store is committed again, its value unchanged.
UpdateMetadata(t, o) ==
    /\ MayCommit(t)
    /\ Current[o] # NoStore
    /\ commits' = Append(commits,
                    [type |-> "silent",
                     stores |-> [LastStores EXCEPT ![o] = Current[o]]])
    /\ UNCHANGED <<owner, stack, reading, writing, busy, storage, snapshot,
                   pushing, raising, taking, snaps>>

\* The PRE reactions are over: commit the change; the POST reactions follow.
CommitChange(t) ==
    /\ MayCommit(t)
    /\ Top.kind = "change" /\ Top.phase = "PRE"
    /\ commits' = Append(commits,
                    [type |-> "change", obj |-> Top.obj, old |-> Top.old,
                     new |-> Top.new,
                     stores |-> [LastStores EXCEPT ![Top.obj] = Top.new]])
    /\ stack' = SetPhase("POST")
    /\ UNCHANGED <<owner, reading, writing, busy, storage, snapshot, pushing,
                   raising, taking, snaps>>

\* The POST reactions are over and write returns.
EndChange(t) ==
    /\ UserCode(t)
    /\ Top.kind = "change" /\ Top.phase = "POST"
    /\ busy' = busy \ {Top.obj}
    /\ stack' = SetPhase("done")
    /\ UNCHANGED <<owner, reading, writing, commits, storage, snapshot, pushing,
                   raising, taking, snaps>>

\* The body of the batch and its POST reactions are over: the POST commit.
CloseBatch(t) ==
    /\ MayCommit(t)
    /\ Top.kind = "batch" /\ Top.phase = "open"
    /\ commits' = Append(commits, [type |-> "batch", obj |-> Top.obj,
                                   phase |-> "POST", batch |-> Len(stack),
                                   stores |-> LastStores])
    /\ stack' = SetPhase("done")
    /\ UNCHANGED <<owner, reading, writing, busy, storage, snapshot, pushing,
                   raising, taking, snaps>>

-----------------------------------------------------------------------------
(* Leaving contexts.                                                       *)

\* The body of a write context ended without an exception.  The topmost one
\* takes the commits away and pushes them inside a read context.
LeaveWrite(t) ==
    /\ owner = t /\ raising = NoException /\ taking[t] = Idle
    /\ \/ Top.kind = "write"
       \/ Top.kind \in Phased /\ Top.phase \in {"rejected", "done"}
    /\ IF writing = 1
       THEN /\ stack' = Append(stack, [kind |-> "push"])
            /\ reading' = reading + 1
            /\ pushing' = [queue |-> commits, phase |-> "PRE"]
            /\ commits' = <<>>
            /\ UNCHANGED writing
       ELSE /\ stack' = Pop
            /\ writing' = writing - 1
            /\ UNCHANGED <<reading, pushing, commits>>
    /\ UNCHANGED <<owner, busy, storage, snapshot, raising, taking, snaps>>

\* The body of a temporary context ended without an exception: it raises one.
LeaveTemporary(t) ==
    /\ UserCode(t)
    /\ Top.kind = "temporary"
    /\ raising' = Temporary
    /\ UNCHANGED <<owner, stack, reading, writing, busy, commits, storage,
                   snapshot, pushing, taking, snaps>>

\* (mutant) The snapshot stays in force.
CloseReadingInThePast ==
    /\ stack' = Pop
    /\ reading' = reading - 1
    /\ snapshot' = snapshot
    /\ owner' = IF Len(stack) = 1 THEN NoThread ELSE owner

\* Close the innermost read or snapshot context.
CloseReading ==
    /\ stack' = Pop
    /\ reading' = reading - 1
    /\ snapshot' = IF Top.kind = "snapshot" THEN NoSnapshot ELSE snapshot
    /\ owner' = IF Len(stack) = 1 THEN NoThread ELSE owner

LeaveRead(t) ==
    /\ UserCode(t)
    /\ Top.kind \in {"read", "snapshot"}
    /\ CloseReading
    /\ UNCHANGED <<writing, busy, commits, storage, pushing, raising, taking,
                   snaps>>

-----------------------------------------------------------------------------
(* Exceptions.                                                             *)

\* The program's code raises an error, or rejects a change in progress.
Raise(t) ==
    /\ UserCode(t)
    /\ \/ raising' = Error
       \/ \E d \in 1..Len(stack) :
            /\ stack[d].kind \in Phased /\ stack[d].phase \in LivePhases
            /\ raising' = Reject(d)
    /\ UNCHANGED <<owner, stack, reading, writing, busy, commits, storage,
                   snapshot, pushing, taking, snaps>>

\* The program's code catches an exception that reached it.
Catch(t) ==
    /\ owner = t
    /\ raising # NoException
    /\ Top.kind # "push"
    /\ raising' = NoException
    /\ UNCHANGED <<owner, stack, reading, writing, busy, commits, storage,
                   snapshot, pushing, taking, snaps>>

\* (mutant) An exception reverts nothing.
RevertedNothing == commits

\* (mutant) A batch is reverted up to, but not including, its PRE commit.
RevertedAfterPre ==
    SubSeq(commits, 1, IF Top.kind = "batch" THEN Top.index + 1 ELSE Top.index)

\* __revert(index) of the innermost write context.
Reverted == SubSeq(commits, 1, Top.index)

\* (mutant) Only a write that returns releases its object.
StillBusy == busy' = busy

\* The object of the innermost context is no longer being written.
NotBusyAnymore ==
    busy' = IF Top.kind = "change" /\ Top.phase \in LivePhases
            THEN busy \ {Top.obj}
            ELSE busy

\* A rejection reaches the change it rejects: revert, then its callback runs.
CatchRejection(t) ==
    /\ owner = t
    /\ raising = Reject(Len(stack))
    /\ Top.kind \in Phased /\ Top.phase \in LivePhases
    /\ commits' = Reverted
    /\ NotBusyAnymore
    /\ stack' = SetPhase("rejected")
    /\ raising' = NoException
    /\ UNCHANGED <<owner, reading, writing, storage, snapshot, pushing, taking,
                   snaps>>

\* Any other exception leaves a write context, which reverts its commits.
\* Past the topmost context it is the caller's (or, when it only ended a
\* temporary context, is dropped).
UnwindWrite(t) ==
    /\ owner = t
    /\ raising # NoException
    /\ Top.kind \in WriteKinds
    /\ ~ (/\ raising = Reject(Len(stack))
          /\ Top.kind \in Phased /\ Top.phase \in LivePhases)
    /\ commits' = Reverted
    /\ NotBusyAnymore
    /\ stack' = Pop
    /\ writing' = writing - 1
    /\ IF writing = 1
       THEN owner' = NoThread /\ raising' = NoException
       ELSE UNCHANGED <<owner, raising>>
    /\ UNCHANGED <<reading, storage, snapshot, pushing, taking, snaps>>

UnwindRead(t) ==
    /\ owner = t
    /\ raising # NoException
    /\ Top.kind \in {"read", "snapshot"}
    /\ CloseReading
    /\ raising' = IF Len(stack) = 1 THEN NoException ELSE raising
    /\ UNCHANGED <<writing, busy, commits, storage, pushing, taking, snaps>>

\* An exception of an observer is collected; it is reported to the caller when
\* everything is pushed.
CollectFailure(t) ==
    /\ owner = t
    /\ raising # NoException
    /\ Top.kind = "push"
    /\ raising' = NoException
    /\ UNCHANGED <<owner, stack, reading, writing, busy, commits, storage,
                   snapshot, pushing, taking, snaps>>

-----------------------------------------------------------------------------
(* __push.                                                                 *)

PushRuns(t) == owner = t /\ raising = NoException /\ taking[t] = Idle /\ Pushing

NextCommit == [queue |-> Tail(pushing.queue), phase |-> "PRE"]

\* The observers of a change have seen PRE: merge its stores.  (Nobody is told
\* of a commit without actions.)
MergeStores(t) ==
    /\ PushRuns(t)
    /\ pushing.queue # <<>>
    /\ pushing.queue[1].type # "batch" /\ pushing.phase = "PRE"
    /\ storage' = Merge(storage, pushing.queue[1].stores)
    /\ pushing' = IF pushing.queue[1].type = "change"
                  THEN [pushing EXCEPT !.phase = "POST"]
                  ELSE NextCommit
    /\ UNCHANGED <<owner, stack, reading, writing, busy, commits, snapshot,
                   raising, taking, snaps>>

\* The observers of a change have seen POST, or those of a batch its phase.
EndNotify(t) ==
    /\ PushRuns(t)
    /\ Notifying
    /\ pushing.queue[1].type = "batch" \/ pushing.phase = "POST"
    /\ pushing' = NextCommit
    /\ UNCHANGED <<owner, stack, reading, writing, busy, commits, storage,
                   snapshot, raising, taking, snaps>>

\* Everything is pushed; the read context and the topmost write context end.
FinishPush(t) ==
    /\ PushRuns(t)
    /\ pushing.queue = <<>>
    /\ pushing' = NotPushing
    /\ stack' = SubSeq(stack, 1, Len(stack) - 2)
    /\ reading' = reading - 1
    /\ writing' = writing - 1
    /\ owner' = NoThread
    /\ UNCHANGED <<busy, commits, storage, snapshot, raising, taking, snaps>>

-----------------------------------------------------------------------------
(* take_snapshot, which takes no lock: any thread runs it at any time, and *)
(* the owner's steps fall between its reads of the attributes.             *)

StartSnapshot(t) ==
    /\ taking[t] = Idle
    /\ owner = t => UserCode(t)
    /\ Cardinality(snaps) < MaxSnapshots
    /\ taking' = [taking EXCEPT ![t] = [pc |-> "test", base |-> storage]]
    /\ UNCHANGED <<owner, stack, reading, writing, busy, commits, storage,
                   snapshot, pushing, raising, snaps>>

\* (mutant) What is not pushed yet is left out.
CapturedCommitted(t) == taking[t].base

Captured(t) == Merge(taking[t].base, LastStores)

Keep(s) == snaps' = snaps \cup {s}
EndTaking(t) == taking' = [taking EXCEPT ![t] = Idle]

\* `if self.__writing and self.__commits`: commits are only there in a write.
TestCommits(t) ==
    /\ taking[t].pc = "test"
    /\ IF commits = <<>>
       THEN Keep(taking[t].base) /\ EndTaking(t)
       ELSE /\ taking' = [taking EXCEPT ![t].pc = "merge"]
            /\ UNCHANGED snaps
    /\ UNCHANGED <<owner, stack, reading, writing, busy, commits, storage,
                   snapshot, pushing, raising>>

\* commits[-1] raises IndexError when the commits went away in between.
MergeCommits(t) ==
    /\ taking[t].pc = "merge"
    /\ IF commits = <<>>
       THEN UNCHANGED snaps
       ELSE Keep(Captured(t))
    /\ EndTaking(t)
    /\ UNCHANGED <<owner, stack, reading, writing, busy, commits, storage,
                   snapshot, pushing, raising>>

-----------------------------------------------------------------------------
Init ==
    /\ owner = NoThread
    /\ stack = <<>>
    /\ reading = 0
    /\ writing = 0
    /\ busy = {}
    /\ commits = <<>>
    /\ storage = NoStores
    /\ snapshot = NoSnapshot
    /\ pushing = NotPushing
    /\ raising = NoException
    /\ taking = [t \in Threads |-> Idle]
    /\ snaps = {}

EnterContext(t) ==
    \/ \E kind \in {"write", "temporary"} : EnterWrite(t, kind)
    \/ \E o \in Objects, v \in Values : BeginChange(t, o, v)
    \/ \E o \in Objects : EnterBatch(t, o)
    \/ EnterRead(t)
    \/ \E s \in snaps : EnterSnapshot(t, s)
    \/ Refused(t)

Work(t) ==
    \/ \E o \in Objects, v \in Values : InitObject(t, o, v)
    \/ \E o, h \in Objects, v, w \in Values : InitWithHistory(t, o, v, h, w)
    \/ \E o \in Objects : UpdateMetadata(t, o)
    \/ CommitChange(t)
    \/ EndChange(t)
    \/ CloseBatch(t)

LeaveContext(t) ==
    \/ LeaveWrite(t)
    \/ LeaveTemporary(t)
    \/ LeaveRead(t)

HandleException(t) ==
    \/ Raise(t)
    \/ Catch(t)
    \/ CatchRejection(t)
    \/ UnwindWrite(t)
    \/ UnwindRead(t)
    \/ CollectFailure(t)

Push(t) ==
    \/ MergeStores(t)
    \/ EndNotify(t)
    \/ FinishPush(t)

TakeSnapshot(t) ==
    \/ StartSnapshot(t)
    \/ TestCommits(t)
    \/ MergeCommits(t)

Next ==
    \E t \in Threads :
        \/ EnterContext(t)
        \/ Work(t)
        \/ LeaveContext(t)
        \/ HandleException(t)
        \/ Push(t)
        \/ TakeSnapshot(t)

Spec == Init /\ [][Next]_vars
=============================================================================
