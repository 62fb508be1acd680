----------------------- MODULE ApplicationProperties -----------------------
(***************************************************************************)
(* What must hold of Application: its type invariant, the assertions the   *)
(* code makes about itself, what observers and readers are promised, and   *)
(* that it implements Transactions.                                        *)
(***************************************************************************)
EXTENDS Application

Taking == [pc : {"idle"}] \cup [pc : {"test", "merge"}, base : Contents]

\* Every variable has its type.
TypeOK ==
    /\ owner \in Threads \cup {NoThread}
    /\ stack \in Seq(Frame)
    /\ reading \in Nat
    /\ writing \in Nat
    /\ busy \in SUBSET Objects
    /\ commits \in Seq(Commit)
    /\ storage \in Contents
    /\ snapshot \in Contents \cup {NoSnapshot}
    /\ pushing \in [queue : Seq(Commit), phase : {"PRE", "POST"}]
    /\ raising \in Exception
    /\ taking \in [Threads -> Taking]
    /\ snaps \in SUBSET Contents

-----------------------------------------------------------------------------
(* Bookkeeping across every way out of a context.                          *)

\* However the contexts were left - normally, by an exception, by a rejection
\* at any depth - once no thread is inside one, nothing is left behind: the
\* assertions at the end of write_context and read_context.
Quiescent ==
    owner = NoThread =>
        /\ stack = <<>>
        /\ reading = 0
        /\ writing = 0
        /\ busy = {}
        /\ commits = <<>>
        /\ snapshot = NoSnapshot
        /\ raising = NoException
        /\ pushing = NotPushing

Live(f) == f.kind \in Phased /\ f.phase \in LivePhases
LiveChange(f) == f.kind = "change" /\ Live(f)

\* The objects marked as being written (__busy_writing) are exactly those whose
\* write is in progress, each of them once: a reaction cycle is refused, and no
\* exception path leaves an object that can never be written again.
BusyExact ==
    /\ busy = {stack[i].obj : i \in {j \in DOMAIN stack : LiveChange(stack[j])}}
    /\ \A i, j \in DOMAIN stack :
         LiveChange(stack[i]) /\ LiveChange(stack[j])
           /\ stack[i].obj = stack[j].obj => i = j

\* Write contexts are never inside read contexts, so what a read context
\* reads cannot move: __reading and __writing count the two parts of the stack.
ReadsInsideWrites ==
    /\ Len(stack) = writing + reading
    /\ \A i \in DOMAIN stack : stack[i].kind \in WriteKinds <=> i <= writing

-----------------------------------------------------------------------------
(* What observers and readers see.                                         *)

IsChange(c) == c.type = "change"
IsBatch(c)  == c.type = "batch"

\* While the observers of a change are called with PRE the object still has, in
\* the storage they read, the value the change calls old; with POST the value
\* it calls new - whatever nested, rejected or reverted changes the
\* transaction went through, and although all of them are pushed at its end.
ObserversSeeChange ==
    (Notifying /\ IsChange(pushing.queue[1])) =>
        LET c == pushing.queue[1]
        IN  Current[c.obj] = IF pushing.phase = "PRE" THEN c.old ELSE c.new

Matches(q, i, j) ==
    /\ i < j
    /\ q[i].phase = "PRE" /\ q[j].phase = "POST"
    /\ q[i].batch = q[j].batch /\ q[i].obj = q[j].obj
    /\ \A k \in (i + 1)..(j - 1) : IsBatch(q[k]) => q[k].batch > q[i].batch

Batches(q, phase) == {i \in DOMAIN q : IsBatch(q[i]) /\ q[i].phase = phase}

OpenBatch(i) ==
    LET d == commits[i].batch
    IN  /\ d \in DOMAIN stack
        /\ stack[d].kind = "batch" /\ stack[d].phase = "open"
        /\ stack[d].index = i - 1

\* Observers see batches properly nested: in the commits every POST of a batch
\* closes its PRE, with only batches inside it in between, and a PRE that is
\* not closed belongs to a batch still open; in what is being pushed every PRE
\* is followed by its POST.
BatchesNested ==
    /\ \A j \in Batches(commits, "POST") :
         \E i \in Batches(commits, "PRE") : Matches(commits, i, j)
    /\ \A i \in Batches(commits, "PRE") :
         \/ OpenBatch(i)
         \/ \E j \in Batches(commits, "POST") : Matches(commits, i, j)
    /\ \A i \in Batches(pushing.queue, "PRE") :
         \E j \in Batches(pushing.queue, "POST") : Matches(pushing.queue, i, j)

ReadOpen == \E i \in DOMAIN stack : stack[i].kind \in {"read", "snapshot"}

SnapshotFrames == {i \in DOMAIN stack : stack[i].kind = "snapshot"}

\* One reads what the innermost context was opened to read: the snapshot of the
\* innermost snapshot context around it, or else the present.
AsOpened ==
    \/ SnapshotFrames = {} /\ View = Current
    \/ \E i \in SnapshotFrames :
         (\A j \in SnapshotFrames : j <= i) /\ View = stack[i].of

\* A snapshot context is left inside another one: snapshot_context sets
\* __snapshot to None, and not back to the outer one.
LeavesNestedSnapshot ==
    \E i \in SnapshotFrames : i \notin SnapshotFrames' /\ SnapshotFrames' # {}

\* Reads are repeatable: while a read context is open - in an observer too -
\* the present does not change, whatever its owner calls and whatever the
\* other threads do; and in every context one reads what it was opened to read,
\* all the time, unless a snapshot context is left inside another one.
ReadsRepeatable ==
    [][/\ ReadOpen => Current' = Current
       /\ (AsOpened /\ ~ LeavesNestedSnapshot) => AsOpened']_vars

\* Reads come from a snapshot only inside a context opened with it: leaving
\* the context, in any way, never leaves the application in the past.
SnapshotApplied ==
    snapshot # NoSnapshot => \E i \in SnapshotFrames : snapshot = stack[i].of

\* A snapshot taken by the thread that is inside a context is exactly what that
\* thread would read there, changes not pushed yet included.
OwnerSnapshotExact ==
    [][\A t \in Threads :
         (owner = t /\ taking[t] # Idle /\ taking'[t] = Idle)
            => Current \in snaps']_vars

-----------------------------------------------------------------------------
(* Application implements Transactions.  The savepoint of a write context  *)
(* is what could be read at its index; the transaction is committed the    *)
(* moment its commits are taken away for the push.                         *)

Ordinary     == Objects \ Histories
Projected(s) == [o \in Ordinary |-> s[o]]

StoresAt(q, n) == IF n = 0 THEN NoStores ELSE q[n].stores
ViewAt(n) == Merge(storage, StoresAt(commits, n))
PushedView == Merge(storage, StoresAt(pushing.queue, Len(pushing.queue)))

InPush == \E i \in DOMAIN stack : stack[i].kind = "push"

absDb    == Projected(IF InPush THEN PushedView ELSE storage)
absCur   == Projected(IF InPush THEN PushedView ELSE ViewAt(Len(commits)))
absSaves == IF InPush THEN <<>>
            ELSE [i \in 1..writing |-> Projected(ViewAt(stack[i].index))]

Abstract == INSTANCE Transactions
              WITH Objects <- Ordinary,
                   db <- absDb, cur <- absCur, saves <- absSaves

\* Nested write contexts, however they are left, behave as savepoints of one
\* transaction: a level that fails or is rejected leaves no trace, a temporary
\* level neither, and what the outermost level keeps is committed whole.  This
\* is so of every object but the histories that init_object constructs: what
\* it commits next forgets them, so that for the rest of the transaction they
\* cannot be read, and the push stores them nevertheless.
ImplementsTransactions == Abstract!TSpec
=============================================================================
