------------------------- MODULE ApplicationProofs -------------------------
(***************************************************************************)
(* Proofs about Application, for every set of threads, objects, histories  *)
(* and values and every bound: what threads see of each other, what its    *)
(* commits hold, what observers see of them, how batches nest in them, and *)
(* that Application implements Transactions.                               *)
(***************************************************************************)
EXTENDS ApplicationProperties, SequenceTheorems, TLAPS

-----------------------------------------------------------------------------
(* The inductive invariant.                                                *)

\* The lock is held exactly while its owner is inside a context.
LockShape ==
    /\ owner = NoThread <=> stack = <<>>
    /\ raising # NoException => stack # <<>>

\* The index of a context is the number of commits it must leave to the
\* contexts around it.
IndexShape ==
    /\ \A i \in 1..writing : stack[i].index <= Len(commits)
    /\ \A i, j \in 1..writing : i <= j => stack[i].index <= stack[j].index
    /\ writing > 0 => stack[1].index = 0
    /\ writing = 0 => commits = <<>>

\* A push runs just inside the topmost context, whose own write is over.
PushShape ==
    /\ \A i \in DOMAIN stack :
         stack[i].kind = "push" =>
            i = 2 /\ writing = 1 /\ commits = <<>> /\ ~ Live(stack[1])
    /\ ~ InPush => pushing = NotPushing

IInv ==
    /\ TypeOK
    /\ LockShape
    /\ ReadsInsideWrites
    /\ IndexShape
    /\ PushShape
    /\ BusyExact
    /\ SnapshotApplied

-----------------------------------------------------------------------------
(* Frames, the stack, and what the commits hold.                           *)

LEMMA FrameKinds ==
    ASSUME NEW f \in Frame
    PROVE  /\ f.kind \in WriteKinds \cup ReadKinds
           /\ f.kind \in WriteKinds => f.index \in Nat
           /\ f.kind = "change" => f \in ChangeFrame
           /\ f.kind = "batch" => f \in BatchFrame
           /\ f.kind \in {"write", "temporary"} => f \in ContextFrame
           /\ f.kind = "snapshot" => f \in SnapshotFrame
  BY DEF Frame, WriteFrame, ContextFrame, ChangeFrame, BatchFrame, ReadFrame,
         SnapshotFrame, WriteKinds, ReadKinds

LEMMA TopFrame ==
    ASSUME TypeOK, stack # <<>>
    PROVE  /\ Len(stack) \in Nat \ {0}
           /\ DOMAIN stack = 1..Len(stack)
           /\ Top \in Frame
  BY DEF TypeOK, Top

\* The bottom of the stack.
LEMMA WriteFrames ==
    ASSUME TypeOK, ReadsInsideWrites
    PROVE  \A i \in 1..writing : /\ i \in DOMAIN stack
                                 /\ stack[i] \in Frame
                                 /\ stack[i].kind \in WriteKinds
                                 /\ stack[i].kind # "push"
                                 /\ stack[i].index \in Nat
  <1> TAKE i \in 1..writing
  <1>1. i \in DOMAIN stack /\ stack[i] \in Frame
    BY DEF TypeOK, ReadsInsideWrites
  <1>2. stack[i].kind \in WriteKinds
    BY <1>1 DEF ReadsInsideWrites
  <1> QED BY <1>1, <1>2, FrameKinds DEF WriteKinds

LEMMA Prefix ==
    ASSUME NEW S, NEW q \in Seq(S), NEW n \in 0..Len(q)
    PROVE  /\ SubSeq(q, 1, n) \in Seq(S)
           /\ Len(SubSeq(q, 1, n)) = n
           /\ DOMAIN SubSeq(q, 1, n) = 1..n
           /\ \A i \in 1..n : SubSeq(q, 1, n)[i] = q[i]
           /\ n = 0 <=> SubSeq(q, 1, n) = <<>>
  <1>1. \A i \in 1..n : q[i] \in S
    OBVIOUS
  <1>2. /\ SubSeq(q, 1, n) \in Seq(S)
        /\ Len(SubSeq(q, 1, n)) = n
        /\ \A i \in 1..n : SubSeq(q, 1, n)[i] = q[i]
    BY <1>1, SubSeqProperties, Z3
  <1> QED BY <1>2

LEMMA PopFrame ==
    ASSUME TypeOK, stack # <<>>
    PROVE  /\ Pop \in Seq(Frame)
           /\ Len(Pop) = Len(stack) - 1
           /\ DOMAIN Pop = 1..(Len(stack) - 1)
           /\ \A i \in 1..(Len(stack) - 1) : Pop[i] = stack[i]
           /\ Len(stack) = 1 <=> Pop = <<>>
  <1> DEFINE n == Len(stack) - 1
  <1>1. stack \in Seq(Frame) /\ n \in 0..Len(stack)
    BY TopFrame DEF TypeOK
  <1>2. /\ SubSeq(stack, 1, n) \in Seq(Frame)
        /\ Len(SubSeq(stack, 1, n)) = n
        /\ DOMAIN SubSeq(stack, 1, n) = 1..n
        /\ \A i \in 1..n : SubSeq(stack, 1, n)[i] = stack[i]
        /\ n = 0 <=> SubSeq(stack, 1, n) = <<>>
    <2> HIDE DEF n
    <2> QED BY <1>1, Prefix
  <1> QED BY <1>1, <1>2, TopFrame DEF Pop

LEMMA PhaseFrame ==
    ASSUME TypeOK, stack # <<>>, Top.kind \in Phased,
           NEW p \in {"POST", "rejected", "done"},
           p = "POST" => Top.kind = "change"
    PROVE  /\ SetPhase(p) \in Seq(Frame)
           /\ Len(SetPhase(p)) = Len(stack)
           /\ DOMAIN SetPhase(p) = 1..Len(stack)
           /\ \A i \in 1..(Len(stack) - 1) : SetPhase(p)[i] = stack[i]
           /\ SetPhase(p)[Len(stack)] = [Top EXCEPT !.phase = p]
           /\ [Top EXCEPT !.phase = p].kind = Top.kind
           /\ [Top EXCEPT !.phase = p].phase = p
           /\ [Top EXCEPT !.phase = p].index = Top.index
           /\ Top.kind = "change" => [Top EXCEPT !.phase = p].obj = Top.obj
  <1>1. [Top EXCEPT !.phase = p] \in Frame
    <2>1. CASE Top.kind = "change"
      BY <2>1, TopFrame, FrameKinds DEF Frame, WriteFrame, ChangeFrame
    <2>2. CASE Top.kind = "batch"
      BY <2>2, TopFrame, FrameKinds DEF Frame, WriteFrame, BatchFrame
    <2> QED BY <2>1, <2>2 DEF Phased
  <1>2. Top \in ChangeFrame \cup BatchFrame
    BY TopFrame, FrameKinds DEF Phased
  <1>3. /\ SetPhase(p) \in Seq(Frame)
        /\ Len(SetPhase(p)) = Len(stack)
        /\ \A i \in 1..(Len(stack) - 1) : SetPhase(p)[i] = stack[i]
        /\ SetPhase(p)[Len(stack)] = [Top EXCEPT !.phase = p]
    BY <1>1, TopFrame DEF TypeOK, SetPhase, Top
  <1>4. /\ [Top EXCEPT !.phase = p].kind = Top.kind
        /\ [Top EXCEPT !.phase = p].phase = p
        /\ [Top EXCEPT !.phase = p].index = Top.index
        /\ Top.kind = "change" => [Top EXCEPT !.phase = p].obj = Top.obj
    BY <1>2 DEF ChangeFrame, BatchFrame
  <1> QED BY <1>3, <1>4

LEMMA Stores ==
    ASSUME TypeOK
    PROVE  /\ NoStores \in Contents
           /\ LastStores \in Contents
           /\ Current \in Contents
           /\ \A a, b \in Contents : Merge(a, b) \in Contents
  <1>1. \A c \in Commit : c.stores \in Contents
    BY DEF Commit, ChangeCommit, SilentCommit, BatchCommit
  <1>2. NoStores \in Contents
    BY DEF NoStores, Contents, Stored
  <1>3. LastStores \in Contents
    BY <1>1, <1>2 DEF TypeOK, LastStores
  <1>4. \A a, b \in Contents : Merge(a, b) \in Contents
    BY DEF Merge, Contents
  <1> QED BY <1>2, <1>3, <1>4 DEF TypeOK, Current

LEMMA AppendedTwice ==
    ASSUME NEW S, NEW q \in Seq(S), NEW a \in S, NEW b \in S
    PROVE  /\ q \o <<a, b>> \in Seq(S) /\ Len(q) \in Nat /\ Len(q \o <<a, b>>) = Len(q) + 2
           /\ \A i \in 1..Len(q) : (q \o <<a, b>>)[i] = q[i]
           /\ (q \o <<a, b>>)[Len(q) + 1] = a /\ (q \o <<a, b>>)[Len(q) + 2] = b
           /\ q \o <<a, b>> = Append(Append(q, a), b)
  <1> DEFINE r == <<a, b>>
  <1>1. r \in Seq(S) /\ Len(r) = 2 /\ r[1] = a /\ r[2] = b
    OBVIOUS
  <1> HIDE DEF r
  <1>2. /\ q \o r \in Seq(S) /\ Len(q) \in Nat /\ Len(q \o r) = Len(q) + 2
        /\ \A i \in 1..Len(q) : (q \o r)[i] = q[i]
        /\ (q \o r)[Len(q) + 1] = a /\ (q \o r)[Len(q) + 2] = b
    <2>1. /\ q \o r \in Seq(S) /\ Len(q) \in Nat /\ Len(q \o r) = Len(q) + Len(r)
          /\ \A i \in 1..Len(q \o r) : (q \o r)[i] = IF i <= Len(q) THEN q[i] ELSE r[i - Len(q)]
      <3>1. /\ q \o r \in Seq(S) /\ Len(q \o r) = Len(q) + Len(r)
            /\ \A i \in 1..Len(q) + Len(r) :
                 (q \o r)[i] = IF i <= Len(q) THEN q[i] ELSE r[i - Len(q)]
        BY ONLY q \in Seq(S), <1>1, ConcatProperties
      <3>2. Len(q) \in Nat
        OBVIOUS
      <3> QED BY <3>1, <3>2
    <2>2. /\ Len(q) + 1 \in 1..Len(q \o r) /\ ~ (Len(q) + 1 <= Len(q)) /\ (Len(q) + 1) - Len(q) = 1
          /\ Len(q) + 2 \in 1..Len(q \o r) /\ ~ (Len(q) + 2 <= Len(q)) /\ (Len(q) + 2) - Len(q) = 2
      BY <1>1, <2>1
    <2>3. \A i \in 1..Len(q) : i \in 1..Len(q \o r) /\ i <= Len(q)
      BY <1>1, <2>1
    <2> QED BY <1>1, <2>1, <2>2, <2>3
  <1> DEFINE p == Append(q, a)
             u == Append(p, b)
  <1>3. /\ p \in Seq(S) /\ Len(p) = Len(q) + 1
        /\ \A i \in 1..Len(q) : p[i] = q[i]
        /\ p[Len(q) + 1] = a
    BY AppendProperties
  <1> HIDE DEF p
  <1>4. /\ u \in Seq(S) /\ Len(u) = Len(p) + 1
        /\ \A i \in 1..Len(p) : u[i] = p[i]
        /\ u[Len(p) + 1] = b
    BY <1>3, AppendProperties
  <1> HIDE DEF u
  <1>5. \A i \in 1..Len(u) : u[i] = (q \o r)[i]
    <2> TAKE i \in 1..Len(u)
    <2>1. CASE i \in 1..Len(q)
      <3>1. i \in 1..Len(p)
        BY <1>2, <1>3, <2>1
      <3> QED BY <1>2, <1>3, <1>4, <2>1, <3>1
    <2>2. CASE i = Len(q) + 1
      <3>1. i \in 1..Len(p)
        BY <1>2, <1>3, <2>2
      <3> QED BY <1>2, <1>3, <1>4, <2>2, <3>1
    <2>3. CASE i = Len(q) + 2
      <3>1. i = Len(p) + 1
        BY <1>2, <1>3, <2>3
      <3> QED BY <1>2, <1>4, <2>3, <3>1
    <2> QED BY <1>2, <1>3, <1>4, <2>1, <2>2, <2>3
  <1>6. u = q \o r
    <2>1. q \o r \in Seq(S) /\ u \in Seq(S) /\ Len(u) = Len(q \o r)
      BY <1>2, <1>3, <1>4
    <2> QED BY ONLY <1>5, <2>1, SeqEqual
  <1> QED BY <1>2, <1>6 DEF p, u, r

LEMMA InitIInv == Init => IInv
  BY NullsAssumption DEF Init, IInv, TypeOK, LockShape, ReadsInsideWrites,
     IndexShape, PushShape, BusyExact, SnapshotApplied, NoStores, Contents,
     Stored, NotPushing, NoException, Exception, Idle, Taking, InPush, LiveChange

-----------------------------------------------------------------------------
(* Every step preserves it.                                                *)

\* A step that moves nothing the invariant speaks of but the types.
LEMMA UnmovedStep ==
    ASSUME IInv, TypeOK',
           UNCHANGED <<owner, stack, reading, writing, busy, commits, snapshot>>,
           raising' # NoException => stack # <<>>,
           InPush \/ UNCHANGED pushing
    PROVE  IInv'
  BY DEF IInv, LockShape, ReadsInsideWrites, IndexShape, PushShape, InPush,
         BusyExact, LiveChange, Live, SnapshotApplied, SnapshotFrames

\* Whoever runs in a context is below a frame that is not a push, or is an
\* observer.
LEMMA Running ==
    ASSUME IInv, NEW t \in Threads, owner = t
    PROVE  /\ stack # <<>>
           /\ Top \in Frame
           /\ Top.kind \in WriteKinds <=> reading = 0
           /\ reading = 0 => Len(stack) = writing
           /\ Top.kind \in WriteKinds => Top.index \in 0..Len(commits)
           /\ Top.kind = "push" => InPush /\ Len(stack) = 2 /\ writing = 1
                                        /\ reading = 1 /\ commits = <<>>
  <1>1. stack # <<>>
    BY NullsAssumption DEF IInv, LockShape
  <1>2. /\ Top = stack[Len(stack)]
        /\ Len(stack) \in DOMAIN stack
        /\ Len(stack) = writing + reading
        /\ Top.kind \in WriteKinds <=> Len(stack) <= writing
    BY <1>1, TopFrame DEF IInv, ReadsInsideWrites, Top
  <1>3. reading \in Nat /\ writing \in Nat
    BY DEF IInv, TypeOK
  <1>4. Top.kind \in WriteKinds <=> reading = 0
    BY <1>2, <1>3
  <1>5. Top.kind \in WriteKinds => Top.index \in 0..Len(commits)
    <2>1. Top.kind \in WriteKinds => Top.index \in Nat
      BY <1>1, TopFrame, FrameKinds DEF IInv
    <2>2. Top.kind \in WriteKinds => Top.index <= Len(commits)
      BY <1>1, <1>2, <1>3, TopFrame DEF IInv, IndexShape
    <2>3. Len(commits) \in Nat
      BY DEF IInv, TypeOK
    <2> QED BY <2>1, <2>2, <2>3
  <1>6. Top.kind = "push" => InPush /\ Len(stack) = 2 /\ writing = 1
                                   /\ reading = 1 /\ commits = <<>>
    BY <1>2, <1>3 DEF IInv, PushShape, InPush
  <1> QED BY <1>1, <1>2, <1>3, <1>4, <1>5, <1>6, TopFrame DEF IInv

LEMMA Entering ==
    ASSUME IInv, NEW t \in Threads, MayWrite(t)
    PROVE  /\ Len(stack) = writing
           /\ raising = NoException
           /\ ~ InPush
           /\ pushing = NotPushing
  <1>1. reading = 0 /\ writing \in Nat /\ Len(stack) = writing
    BY DEF MayWrite, IInv, TypeOK, ReadsInsideWrites
  <1>2. raising = NoException
    BY DEF MayWrite, MayEnter, UserCode, IInv, LockShape
  <1>3. ~ InPush
    BY <1>1 DEF IInv, InPush, PushShape, ReadsInsideWrites, WriteKinds, TypeOK
  <1> QED BY <1>1, <1>2, <1>3 DEF IInv, PushShape

\* Entering a write context: the frame, its index, and who becomes busy.
LEMMA EnterWriteStep ==
    ASSUME IInv, NEW t \in Threads, MayWrite(t), TypeOK',
           NEW f \in WriteFrame, Enter(t, f),
           f.index = Len(commits),
           writing' = writing + 1,
           UNCHANGED <<reading, snapshot, pushing, raising>>,
           \/ commits' = commits
           \/ \E c \in Commit : commits' = Append(commits, c),
           \/ f.kind = "change" /\ f.phase = "PRE" /\ f.obj \notin busy
                /\ busy' = busy \cup {f.obj}
           \/ f.kind # "change" /\ busy' = busy
    PROVE  IInv'
  <1> USE DEF IInv
  <1>1. /\ Len(stack) = writing /\ raising = NoException
        /\ ~ InPush /\ pushing = NotPushing
    BY Entering
  <1>2. /\ stack \in Seq(Frame) /\ writing \in Nat /\ reading = 0
        /\ commits \in Seq(Commit) /\ t # NoThread
    BY NullsAssumption DEF TypeOK, MayWrite
  <1>3. f \in Frame /\ f.kind \in WriteKinds
    BY DEF Frame, WriteFrame, ContextFrame, ChangeFrame, BatchFrame, WriteKinds
  <1>4. /\ Len(stack') = writing + 1
        /\ DOMAIN stack' = 1..(writing + 1)
        /\ DOMAIN stack = 1..writing
        /\ \A i \in 1..writing : stack'[i] = stack[i]
        /\ stack'[writing + 1] = f
        /\ stack' # <<>>
    BY <1>1, <1>2, <1>3 DEF Enter
  <1>5. Len(commits') \in Nat /\ Len(commits) <= Len(commits')
    BY <1>2
  <1>6. LockShape'
    BY <1>1, <1>2, <1>4 DEF LockShape, Enter
  <1>7. ReadsInsideWrites'
    BY <1>1, <1>2, <1>3, <1>4 DEF ReadsInsideWrites
  <1>8. IndexShape'
    <2>1. \A i \in 1..writing : stack[i].index \in Nat
      BY WriteFrames
    <2>2. Len(commits) \in Nat /\ f.index \in Nat
      BY <1>2
    <2>3. writing = 0 => Len(commits) = 0
      BY DEF IndexShape
    <2>4. \A i \in 1..writing : stack'[i].index \in Nat
                                 /\ stack'[i].index <= Len(commits)
      BY <1>2, <1>4, <2>1 DEF IndexShape
    <2>5. stack'[writing + 1].index = Len(commits)
      BY <1>4
    <2>6. \A i \in 1..(writing + 1) : stack'[i].index <= Len(commits')
      <3> TAKE i \in 1..(writing + 1)
      <3>1. stack'[i].index \in Nat /\ stack'[i].index <= Len(commits)
        BY <1>2, <2>2, <2>4, <2>5
      <3> QED BY <1>5, <2>2, <3>1
    <2>7. \A i, j \in 1..(writing + 1) :
            i <= j => stack'[i].index <= stack'[j].index
      <3> TAKE i, j \in 1..(writing + 1)
      <3>1. CASE j = writing + 1
        BY <1>2, <2>2, <2>4, <2>5, <3>1
      <3>2. CASE i \in 1..writing /\ j \in 1..writing
        BY <1>4, <3>2 DEF IndexShape
      <3> QED BY <1>2, <3>1, <3>2
    <2>8. stack'[1].index = 0
      <3>1. CASE writing = 0
        BY <2>3, <2>5, <3>1
      <3>2. CASE writing > 0
        BY <1>2, <1>4, <3>2 DEF IndexShape
      <3> QED BY <1>2, <3>1, <3>2
    <2> QED BY <1>2, <2>6, <2>7, <2>8 DEF IndexShape
  <1>9. PushShape'
    BY <1>1, <1>2, <1>3, <1>4 DEF PushShape, InPush, WriteKinds
  <1>10. BusyExact'
    <2>1. LiveChange(f) <=> f.kind = "change"
      BY <1>2 DEF LiveChange, Live, Phased, LivePhases
    <2>2. busy' = {stack'[i].obj : i \in {j \in DOMAIN stack' : LiveChange(stack'[j])}}
      BY <1>2, <1>4, <2>1 DEF BusyExact
    <2>3. \A i, j \in DOMAIN stack' :
            LiveChange(stack'[i]) /\ LiveChange(stack'[j])
              /\ stack'[i].obj = stack'[j].obj => i = j
      BY <1>2, <1>4, <2>1 DEF BusyExact
    <2> QED BY <2>2, <2>3 DEF BusyExact, LiveChange, Live
  <1>11. SnapshotApplied'
    BY <1>2, <1>4 DEF SnapshotApplied, SnapshotFrames
  <1> QED BY <1>6, <1>7, <1>8, <1>9, <1>10, <1>11

\* Entering a read or snapshot context, or (the topmost write context) a push.
LEMMA EnterReadStep ==
    ASSUME IInv, NEW t \in Threads, TypeOK', owner' = t,
           NEW f \in ReadFrame \cup SnapshotFrame, stack' = Append(stack, f),
           reading' = reading + 1,
           raising = NoException,
           UNCHANGED <<writing, busy, raising>>,
           \/ f.kind \in {"read", "snapshot"} /\ UNCHANGED <<commits, pushing>>
           \/ /\ f.kind = "push" /\ Len(stack) = 1 /\ writing = 1
              /\ ~ Live(stack[1]) /\ commits' = <<>>,
           \/ f.kind \in {"read", "push"} /\ UNCHANGED snapshot
           \/ f.kind = "snapshot" /\ snapshot' = f.of
    PROVE  IInv'
  <1> USE DEF IInv
  <1>1. /\ stack \in Seq(Frame) /\ writing \in Nat /\ reading \in Nat
        /\ t # NoThread
    BY NullsAssumption DEF TypeOK
  <1>2. f \in Frame /\ f.kind \in {"read", "push", "snapshot"}
    BY DEF Frame, ReadFrame, SnapshotFrame
  <1>3. /\ Len(stack) = writing + reading
        /\ Len(stack') = Len(stack) + 1
        /\ DOMAIN stack' = 1..(Len(stack) + 1)
        /\ DOMAIN stack = 1..Len(stack)
        /\ \A i \in 1..Len(stack) : stack'[i] = stack[i]
        /\ stack'[Len(stack) + 1] = f
        /\ stack' # <<>>
    BY <1>1, <1>2 DEF ReadsInsideWrites
  <1>4. LockShape'
    BY <1>1, <1>3 DEF LockShape
  <1>5. ReadsInsideWrites'
    BY <1>1, <1>2, <1>3 DEF ReadsInsideWrites, WriteKinds
  <1>6. IndexShape'
    <2>1. CASE UNCHANGED commits
      BY <1>1, <1>3, <2>1 DEF IndexShape
    <2>2. CASE writing = 1 /\ commits' = <<>>
      BY <1>1, <1>3, <2>2 DEF IndexShape
    <2> QED BY <2>1, <2>2
  <1>7. PushShape'
    <2>1. CASE f.kind \in {"read", "snapshot"} /\ UNCHANGED <<commits, pushing>>
      BY <1>1, <1>3, <2>1 DEF PushShape, InPush, Live
    <2>2. CASE /\ f.kind = "push" /\ Len(stack) = 1 /\ writing = 1
               /\ ~ Live(stack[1]) /\ commits' = <<>>
      <3>1. stack[1].kind # "push"
        BY <1>3, <2>2 DEF ReadsInsideWrites, WriteKinds
      <3> QED BY <1>1, <1>3, <2>2, <3>1 DEF PushShape, InPush, Live
    <2> QED BY <2>1, <2>2
  <1>8. BusyExact'
    BY <1>1, <1>2, <1>3 DEF BusyExact, LiveChange, Live
  <1>9. SnapshotApplied'
    <2>1. CASE f.kind # "snapshot" /\ UNCHANGED snapshot
      BY <1>1, <1>3, <2>1 DEF SnapshotApplied, SnapshotFrames
    <2>2. CASE f.kind = "snapshot" /\ snapshot' = f.of
      BY <1>1, <1>3, <2>2 DEF SnapshotApplied, SnapshotFrames
    <2> QED BY <2>1, <2>2
  <1> QED BY <1>4, <1>5, <1>6, <1>7, <1>8, <1>9

\* A change or a batch goes to its next phase.
LEMMA PhaseStep ==
    ASSUME IInv, NEW t \in Threads, owner = t, TypeOK',
           Top.kind \in Phased,
           NEW p \in {"POST", "rejected", "done"},
           p = "POST" => Top.kind = "change",
           stack' = SetPhase(p),
           UNCHANGED <<owner, reading, writing, snapshot, pushing>>,
           Len(commits') >= Top.index,
           \/ LiveChange(Top) /\ p = "POST" /\ UNCHANGED busy
           \/ LiveChange(Top) /\ p # "POST" /\ busy' = busy \ {Top.obj}
           \/ Top.kind # "change" /\ UNCHANGED busy
    PROVE  IInv'
  <1> USE DEF IInv
  <1>1. /\ stack # <<>> /\ Top.kind \in WriteKinds
        /\ reading = 0 /\ Len(stack) = writing
        /\ Top.index \in 0..Len(commits)
    BY Running DEF Phased, WriteKinds
  <1>2. /\ writing \in Nat \ {0} /\ Top = stack[writing]
        /\ commits \in Seq(Commit) /\ commits' \in Seq(Commit)
        /\ stack \in Seq(Frame)
    BY <1>1, TopFrame DEF TypeOK, Top
  <1> DEFINE g == [Top EXCEPT !.phase = p]
  <1>3. /\ Len(stack') = writing
        /\ DOMAIN stack' = 1..writing
        /\ DOMAIN stack = 1..writing
        /\ \A i \in 1..(writing - 1) : stack'[i] = stack[i]
        /\ stack'[writing] = g
        /\ g.kind = Top.kind /\ g.phase = p /\ g.index = Top.index
        /\ Top.kind = "change" => g.obj = Top.obj
    <2>1. TypeOK
      OBVIOUS
    <2>2. /\ Len(SetPhase(p)) = Len(stack)
          /\ DOMAIN SetPhase(p) = 1..Len(stack)
          /\ \A i \in 1..(Len(stack) - 1) : SetPhase(p)[i] = stack[i]
          /\ SetPhase(p)[Len(stack)] = g
          /\ g.kind = Top.kind /\ g.phase = p /\ g.index = Top.index
          /\ Top.kind = "change" => g.obj = Top.obj
      BY <1>1, <2>1, PhaseFrame
    <2> HIDE DEF g
    <2> QED BY <1>1, <1>2, <2>2
  <1> HIDE DEF g
  <1>4. LockShape'
    BY <1>1, <1>2, <1>3, NullsAssumption DEF LockShape
  <1>5. ReadsInsideWrites'
    <2>1. \A i \in 1..writing : stack'[i].kind \in WriteKinds
      BY <1>1, <1>2, <1>3, WriteFrames
    <2> QED BY <1>1, <1>2, <1>3, <2>1 DEF ReadsInsideWrites
  <1>6. IndexShape'
    <2>1. \A i \in 1..writing : stack'[i].index = stack[i].index
      BY <1>2, <1>3
    <2>2. \A i \in 1..writing : stack[i].index \in Nat
      BY WriteFrames
    <2>3. \A i \in 1..writing : stack[i].index <= Top.index
      BY <1>2 DEF IndexShape
    <2>4. Len(commits') \in Nat
      BY <1>2
    <2>5. \A i \in 1..writing : stack'[i].index <= Len(commits')
      BY <1>1, <2>1, <2>2, <2>3, <2>4
    <2>6. \A i, j \in 1..writing : i <= j => stack'[i].index <= stack'[j].index
      BY <2>1 DEF IndexShape
    <2>7. stack'[1].index = 0
      BY <1>2, <2>1 DEF IndexShape
    <2> QED BY <1>2, <2>5, <2>6, <2>7 DEF IndexShape
  <1>7. PushShape'
    <2>1. \A i \in 1..writing : stack[i].kind # "push"
      BY WriteFrames
    <2>2. \A i \in 1..writing : stack'[i].kind # "push"
      BY <1>2, <1>3, <2>1
    <2> QED BY <1>2, <1>3, <2>1, <2>2 DEF PushShape, InPush
  <1>8. BusyExact'
    <2>1. LiveChange(g) <=> Top.kind = "change" /\ p = "POST"
      BY <1>3 DEF LiveChange, Live, Phased, LivePhases
    <2>2. busy' = {stack'[i].obj : i \in {j \in DOMAIN stack' : LiveChange(stack'[j])}}
      <3>1. CASE LiveChange(Top) /\ p = "POST" /\ UNCHANGED busy
        <4>1. LiveChange(g) /\ g.obj = Top.obj
          BY <1>3, <2>1, <3>1 DEF LiveChange
        <4>2. \A i \in 1..writing : /\ LiveChange(stack'[i]) <=> LiveChange(stack[i])
                                    /\ LiveChange(stack[i]) =>
                                         stack'[i].obj = stack[i].obj
          BY <1>2, <1>3, <3>1, <4>1
        <4> QED BY <1>3, <3>1, <4>2 DEF BusyExact
      <3>2. CASE LiveChange(Top) /\ p # "POST" /\ busy' = busy \ {Top.obj}
        <4>1. \A i \in 1..(writing - 1) :
                LiveChange(stack[i]) => stack[i].obj # Top.obj
          BY <1>2, <1>3, <3>2 DEF BusyExact
        <4>2. ~ LiveChange(g)
          BY <2>1, <3>2
        <4> QED BY <1>2, <1>3, <3>2, <4>1, <4>2 DEF BusyExact
      <3>3. CASE Top.kind # "change" /\ UNCHANGED busy
        BY <1>2, <1>3, <2>1, <3>3 DEF BusyExact, LiveChange
      <3> QED BY <3>1, <3>2, <3>3
    <2>3. \A i, j \in DOMAIN stack' :
            LiveChange(stack'[i]) /\ LiveChange(stack'[j])
              /\ stack'[i].obj = stack'[j].obj => i = j
      <3>1. LiveChange(g) => LiveChange(Top) /\ g.obj = Top.obj
        BY <1>3, <2>1
      <3> QED BY <1>2, <1>3, <2>1, <3>1 DEF BusyExact
    <2> QED BY <2>2, <2>3 DEF BusyExact, LiveChange, Live
  <1>9. SnapshotApplied'
    BY <1>2, <1>3 DEF SnapshotApplied, SnapshotFrames, Phased
  <1> QED BY <1>4, <1>5, <1>6, <1>7, <1>8, <1>9

\* Leaving a write context, in any way but the push.
LEMMA PopWriteStep ==
    ASSUME IInv, NEW t \in Threads, owner = t, TypeOK',
           Top.kind \in WriteKinds,
           stack' = Pop, writing' = writing - 1,
           UNCHANGED <<reading, snapshot, pushing>>,
           Len(commits') >= Top.index,
           writing = 1 => /\ commits' = <<>> /\ owner' = NoThread
                          /\ raising' = NoException,
           writing # 1 => owner' = owner,
           busy' = IF LiveChange(Top) THEN busy \ {Top.obj} ELSE busy
    PROVE  IInv'
  <1> USE DEF IInv
  <1>1. /\ stack # <<>> /\ reading = 0 /\ Len(stack) = writing
        /\ Top.index \in 0..Len(commits)
    BY Running
  <1>2. /\ writing \in Nat \ {0} /\ Top = stack[writing]
        /\ commits' \in Seq(Commit) /\ stack \in Seq(Frame)
        /\ DOMAIN stack = 1..writing
    BY <1>1, TopFrame DEF TypeOK, Top
  <1>3. /\ Len(stack') = writing - 1
        /\ DOMAIN stack' = 1..(writing - 1)
        /\ \A i \in 1..(writing - 1) : stack'[i] = stack[i]
        /\ writing = 1 <=> stack' = <<>>
    BY <1>1, <1>2, PopFrame
  <1>4. LockShape'
    BY <1>1, <1>2, <1>3, NullsAssumption DEF LockShape
  <1>5. ReadsInsideWrites'
    BY <1>1, <1>2, <1>3 DEF ReadsInsideWrites
  <1>6. IndexShape'
    <2>1. \A i \in 1..writing : stack[i].index \in Nat
      BY <1>2, FrameKinds DEF ReadsInsideWrites
    <2>2. \A i \in 1..writing : stack[i].index <= Top.index
      BY <1>2 DEF IndexShape
    <2>3. Len(commits') \in Nat
      BY <1>2
    <2>4. \A i \in 1..(writing - 1) : stack'[i].index <= Len(commits')
      BY <1>1, <1>2, <1>3, <2>1, <2>2, <2>3
    <2>5. \A i, j \in 1..(writing - 1) :
            i <= j => stack'[i].index <= stack'[j].index
      BY <1>2, <1>3 DEF IndexShape
    <2>6. writing > 1 => stack'[1].index = 0
      BY <1>2, <1>3 DEF IndexShape
    <2> QED BY <1>2, <2>4, <2>5, <2>6 DEF IndexShape
  <1>7. PushShape'
    <2>1. \A i \in 1..writing : stack[i].kind # "push"
      BY WriteFrames
    <2> QED BY <1>2, <1>3, <2>1 DEF PushShape, InPush
  <1>8. BusyExact'
    <2>1. busy' = {stack'[i].obj : i \in {j \in DOMAIN stack' : LiveChange(stack'[j])}}
      <3>1. CASE LiveChange(Top)
        <4>1. \A i \in 1..(writing - 1) :
                LiveChange(stack[i]) => stack[i].obj # Top.obj
          BY <1>2, <1>3, <3>1 DEF BusyExact
        <4> QED BY <1>2, <1>3, <3>1, <4>1 DEF BusyExact
      <3>2. CASE ~ LiveChange(Top)
        BY <1>2, <1>3, <3>2 DEF BusyExact
      <3> QED BY <3>1, <3>2
    <2>2. \A i, j \in DOMAIN stack' :
            LiveChange(stack'[i]) /\ LiveChange(stack'[j])
              /\ stack'[i].obj = stack'[j].obj => i = j
      BY <1>2, <1>3 DEF BusyExact
    <2> QED BY <2>1, <2>2 DEF BusyExact, LiveChange, Live
  <1>9. SnapshotApplied'
    BY <1>2, <1>3 DEF SnapshotApplied, SnapshotFrames, WriteKinds
  <1> QED BY <1>4, <1>5, <1>6, <1>7, <1>8, <1>9

\* Leaving a read or snapshot context.
LEMMA CloseReadingStep ==
    ASSUME IInv, NEW t \in Threads, owner = t, TypeOK',
           Top.kind \in {"read", "snapshot"}, CloseReading,
           UNCHANGED <<writing, busy, commits, pushing>>,
           Len(stack) = 1 => raising' = NoException
    PROVE  IInv'
  <1> USE DEF IInv
  <1>1. /\ stack # <<>> /\ reading # 0
    BY Running DEF WriteKinds
  <1>2. /\ writing \in Nat /\ reading \in Nat
        /\ Len(stack) = writing + reading
        /\ Top = stack[Len(stack)]
        /\ stack \in Seq(Frame)
        /\ Len(stack) \in Nat \ {0}
        /\ DOMAIN stack = 1..Len(stack)
    BY <1>1, TopFrame DEF TypeOK, Top, ReadsInsideWrites
  <1>3. /\ Len(stack') = Len(stack) - 1
        /\ DOMAIN stack' = 1..(Len(stack) - 1)
        /\ \A i \in 1..(Len(stack) - 1) : stack'[i] = stack[i]
        /\ Len(stack) = 1 <=> stack' = <<>>
    BY <1>1, <1>2, PopFrame DEF CloseReading
  <1>4. LockShape'
    BY <1>1, <1>2, <1>3, NullsAssumption DEF LockShape, CloseReading
  <1>5. ReadsInsideWrites'
    BY <1>1, <1>2, <1>3 DEF ReadsInsideWrites, CloseReading
  <1>6. IndexShape'
    <2>1. \A i \in 1..writing : stack'[i] = stack[i]
      BY <1>1, <1>2, <1>3
    <2> QED BY <1>2, <2>1 DEF IndexShape
  <1>7. PushShape'
    <2>1. InPush => InPush'
      BY <1>2, <1>3 DEF InPush
    <2>2. \A i \in DOMAIN stack' : stack'[i].kind = "push" =>
            i = 2 /\ writing = 1 /\ commits = <<>> /\ ~ Live(stack'[1])
      BY <1>2, <1>3 DEF PushShape
    <2> QED BY <2>1, <2>2 DEF PushShape, Live
  <1>8. BusyExact'
    <2>1. ~ LiveChange(Top)
      BY DEF LiveChange
    <2>2. busy' = {stack'[i].obj : i \in {j \in DOMAIN stack' : LiveChange(stack'[j])}}
      BY <1>2, <1>3, <2>1 DEF BusyExact
    <2>3. \A i, j \in DOMAIN stack' :
            LiveChange(stack'[i]) /\ LiveChange(stack'[j])
              /\ stack'[i].obj = stack'[j].obj => i = j
      BY <1>2, <1>3 DEF BusyExact
    <2> QED BY <2>2, <2>3 DEF BusyExact, LiveChange, Live
  <1>9. SnapshotApplied'
    <2>1. CASE Top.kind = "snapshot"
      BY <2>1 DEF SnapshotApplied, CloseReading
    <2>2. CASE Top.kind # "snapshot"
      BY <1>2, <1>3, <2>2 DEF SnapshotApplied, SnapshotFrames, CloseReading
    <2> QED BY <2>1, <2>2
  <1> QED BY <1>4, <1>5, <1>6, <1>7, <1>8, <1>9

LEMMA EnterContextStep ==
    ASSUME IInv, NEW t \in Threads, EnterContext(t)
    PROVE  IInv'
  <1> USE DEF IInv
  <1>1. ASSUME NEW kind \in {"write", "temporary"}, EnterWrite(t, kind)
        PROVE  IInv'
    <2> DEFINE f == [kind |-> kind, index |-> Len(commits)]
    <2>1. f \in WriteFrame /\ f \in Frame
      BY DEF TypeOK, Frame, WriteFrame, ContextFrame
    <2>2. TypeOK'
      BY <1>1, <2>1 DEF TypeOK, EnterWrite, Enter
    <2> QED BY <1>1, <2>1, <2>2, EnterWriteStep DEF EnterWrite
  <1>2. ASSUME NEW o \in Objects, NEW v \in Values, BeginChange(t, o, v)
        PROVE  IInv'
    <2> DEFINE f == [kind |-> "change", index |-> Len(commits), obj |-> o,
                     old |-> Current[o], new |-> v, phase |-> "PRE"]
    <2>1. Current[o] \in Stored /\ v \in Stored
      BY Stores DEF Contents, Stored
    <2>2. f \in ChangeFrame
      BY <2>1 DEF TypeOK, ChangeFrame
    <2>3. f \in WriteFrame /\ f \in Frame
      BY <2>2 DEF Frame, WriteFrame
    <2>4. MayWrite(t) /\ o \notin busy
      BY <1>2 DEF BeginChange, MayChange
    <2>5. /\ Enter(t, f) /\ writing' = writing + 1 /\ busy' = busy \cup {f.obj}
          /\ UNCHANGED <<reading, commits, storage, snapshot, pushing, raising,
                         taking, snaps>>
      BY <1>2 DEF BeginChange
    <2>6. TypeOK'
      BY <2>3, <2>5 DEF TypeOK, Enter
    <2> QED BY <2>3, <2>4, <2>5, <2>6, EnterWriteStep
  <1>3. ASSUME NEW o \in Objects, EnterBatch(t, o)
        PROVE  IInv'
    <2> DEFINE f == [kind |-> "batch", index |-> Len(commits), obj |-> o,
                     phase |-> "open"]
               c == [type |-> "batch", obj |-> o, phase |-> "PRE",
                     batch |-> Len(stack) + 1, stores |-> LastStores]
    <2>1. f \in BatchFrame /\ c \in BatchCommit
      BY Stores DEF TypeOK, BatchFrame, BatchCommit
    <2>2. f \in WriteFrame /\ f \in Frame /\ c \in Commit
      BY <2>1 DEF Frame, WriteFrame, Commit
    <2>3. /\ MayWrite(t) /\ Enter(t, f) /\ writing' = writing + 1
          /\ commits' = Append(commits, c)
          /\ UNCHANGED <<reading, busy, storage, snapshot, pushing, raising,
                         taking, snaps>>
      BY <1>3 DEF EnterBatch
    <2> HIDE DEF c
    <2>4. TypeOK'
      BY <2>2, <2>3 DEF TypeOK, Enter
    <2> QED BY <2>2, <2>3, <2>4, EnterWriteStep
  <1>4. MayEnter(t) => raising = NoException
    BY DEF MayEnter, UserCode, LockShape
  <1>5. ASSUME EnterRead(t)
        PROVE  IInv'
    <2> DEFINE f == [kind |-> "read"]
    <2>1. f \in ReadFrame /\ f \in Frame
      BY DEF ReadFrame, Frame
    <2>2. TypeOK'
      BY <1>5, <2>1 DEF TypeOK, EnterRead, Enter
    <2> QED BY <1>4, <1>5, <2>1, <2>2, EnterReadStep DEF EnterRead, Enter
  <1>6. ASSUME NEW s \in snaps, EnterSnapshot(t, s)
        PROVE  IInv'
    <2> DEFINE f == [kind |-> "snapshot", of |-> s]
    <2>1. f \in SnapshotFrame /\ f \in Frame
      BY DEF SnapshotFrame, Frame, TypeOK
    <2>2. TypeOK'
      BY <1>6, <2>1 DEF TypeOK, EnterSnapshot, Enter
    <2> QED BY <1>4, <1>6, <2>1, <2>2, EnterReadStep DEF EnterSnapshot, Enter
  <1>7. ASSUME Refused(t)
        PROVE  IInv'
    <2>1. TypeOK'
      BY <1>7 DEF TypeOK, Refused, Exception, Error
    <2>2. stack # <<>>
      BY <1>7, Running DEF Refused, UserCode
    <2> QED BY <1>7, <2>1, <2>2, UnmovedStep DEF Refused
  <1> QED BY <1>1, <1>2, <1>3, <1>5, <1>6, <1>7 DEF EnterContext

\* Commits inside an open write context.
LEMMA CommitStep ==
    ASSUME IInv, NEW t \in Threads, owner = t, reading = 0, TypeOK',
           Len(commits') \in Nat, Len(commits') >= Len(commits),
           UNCHANGED <<owner, stack, reading, writing, busy, snapshot, pushing,
                       raising>>
    PROVE  IInv'
  <1> USE DEF IInv
  <1>1. /\ stack # <<>> /\ Len(stack) = writing /\ writing \in Nat
        /\ DOMAIN stack = 1..writing /\ writing # 0
        /\ stack \in Seq(Frame)
    BY Running, TopFrame DEF TypeOK
  <1>2. Len(commits) \in Nat
    BY DEF TypeOK
  <1>3. IndexShape'
    <2>1. \A i \in 1..writing : stack[i].index \in Nat
      BY <1>1, FrameKinds DEF ReadsInsideWrites
    <2>2. \A i \in 1..writing : stack[i].index <= Len(commits')
      BY <1>1, <1>2, <2>1 DEF IndexShape
    <2>3. writing' # 0
      BY <1>1
    <2> QED BY <2>2, <2>3 DEF IndexShape
  <1>4. PushShape'
    BY <1>1 DEF PushShape, InPush, ReadsInsideWrites, WriteKinds
  <1> QED BY <1>3, <1>4 DEF LockShape, ReadsInsideWrites, BusyExact, LiveChange,
             Live, SnapshotApplied, SnapshotFrames

LEMMA WorkStep ==
    ASSUME IInv, NEW t \in Threads, Work(t)
    PROVE  IInv'
  <1> USE DEF IInv
  <1>1. \A o \in Objects, v \in Stored :
          [LastStores EXCEPT ![o] = v] \in Contents
    BY Stores DEF Contents
  <1>2. \A o \in Objects : Current[o] \in Stored
    BY Stores DEF Contents
  <1>3. ASSUME NEW o \in Objects, NEW v \in Stored,
               MayCommit(t),
               commits' = Append(commits, [type |-> "silent",
                            stores |-> [LastStores EXCEPT ![o] = v]]),
               UNCHANGED <<owner, stack, reading, writing, busy, storage,
                           snapshot, pushing, raising, taking, snaps>>
        PROVE  IInv'
    <2> DEFINE c == [type |-> "silent",
                     stores |-> [LastStores EXCEPT ![o] = v]]
    <2>1. c \in Commit
      BY <1>1 DEF Commit, SilentCommit
    <2>2. commits' = Append(commits, c)
      BY <1>3
    <2> HIDE DEF c
    <2>3. TypeOK'
      BY <1>3, <2>1, <2>2 DEF TypeOK
    <2>4. Len(commits') \in Nat /\ Len(commits') >= Len(commits)
      BY <2>1, <2>2 DEF TypeOK
    <2> QED BY <1>3, <2>3, <2>4, CommitStep DEF MayCommit, UserCode
  <1>4. ASSUME NEW o \in Objects, NEW v \in Values, InitObject(t, o, v)
        PROVE  IInv'
    BY <1>3, <1>4 DEF InitObject, Stored
  <1>5. ASSUME NEW o \in Objects, UpdateMetadata(t, o)
        PROVE  IInv'
    BY <1>2, <1>3, <1>5 DEF UpdateMetadata
  <1>6. ASSUME CommitChange(t)
        PROVE  IInv'
    <2> DEFINE c == [type |-> "change", obj |-> Top.obj, old |-> Top.old,
                     new |-> Top.new,
                     stores |-> [LastStores EXCEPT ![Top.obj] = Top.new]]
    <2>1. stack # <<>> /\ owner = t /\ Top \in Frame /\ Top.index <= Len(commits)
      BY <1>6, Running DEF CommitChange, MayCommit, UserCode, WriteKinds
    <2>2. Top \in ChangeFrame
      BY <1>6, <2>1, FrameKinds DEF CommitChange
    <2>3. c \in Commit
      BY <1>1, <2>2 DEF Commit, ChangeCommit, ChangeFrame
    <2>4. /\ commits' = Append(commits, c) /\ stack' = SetPhase("POST")
          /\ UNCHANGED <<owner, reading, writing, busy, storage, snapshot,
                         pushing, raising, taking, snaps>>
          /\ Top.kind = "change" /\ Top.phase = "PRE"
      BY <1>6 DEF CommitChange
    <2> HIDE DEF c
    <2>5. SetPhase("POST") \in Seq(Frame)
      BY <2>1, <2>4, PhaseFrame DEF Phased
    <2>6. TypeOK'
      BY <2>3, <2>4, <2>5 DEF TypeOK
    <2>7. LiveChange(Top)
      BY <2>4 DEF LiveChange, Live, Phased, LivePhases
    <2>8. Len(commits') >= Top.index
      BY <2>1, <2>2, <2>3, <2>4 DEF TypeOK, ChangeFrame
    <2>9. Top.kind \in Phased
      BY <2>4 DEF Phased
    <2> QED BY <2>1, <2>4, <2>6, <2>7, <2>8, <2>9, PhaseStep
  <1>7. ASSUME EndChange(t)
        PROVE  IInv'
    <2>1. stack # <<>> /\ owner = t /\ Top \in Frame /\ Top.index <= Len(commits)
      BY <1>7, Running DEF EndChange, UserCode, WriteKinds
    <2>2. /\ busy' = busy \ {Top.obj} /\ stack' = SetPhase("done")
          /\ UNCHANGED <<owner, reading, writing, commits, storage, snapshot,
                         pushing, raising, taking, snaps>>
          /\ Top.kind = "change" /\ Top.phase = "POST" /\ Top.kind \in Phased
      BY <1>7 DEF EndChange, Phased
    <2>3. SetPhase("done") \in Seq(Frame)
      BY <2>1, <2>2, PhaseFrame
    <2>4. TypeOK'
      BY <2>2, <2>3 DEF TypeOK
    <2>5. LiveChange(Top)
      BY <2>2 DEF LiveChange, Live, LivePhases
    <2>6. Len(commits') >= Top.index
      BY <2>1, <2>2, FrameKinds DEF TypeOK, WriteKinds
    <2> QED BY <2>1, <2>2, <2>4, <2>5, <2>6, PhaseStep
  <1>8. ASSUME CloseBatch(t)
        PROVE  IInv'
    <2> DEFINE c == [type |-> "batch", obj |-> Top.obj, phase |-> "POST",
                     batch |-> Len(stack), stores |-> LastStores]
    <2>1. stack # <<>> /\ owner = t /\ Top \in Frame /\ Top.index <= Len(commits)
      BY <1>8, Running DEF CloseBatch, MayCommit, UserCode, WriteKinds
    <2>2. Top \in BatchFrame
      BY <1>8, <2>1, FrameKinds DEF CloseBatch
    <2>3. c \in Commit
      <3>1. Len(stack) \in Nat /\ LastStores \in Contents /\ Top.obj \in Objects
        BY <2>1, <2>2, Stores, TopFrame DEF BatchFrame
      <3> QED BY <3>1 DEF Commit, BatchCommit
    <2>4. /\ commits' = Append(commits, c) /\ stack' = SetPhase("done")
          /\ UNCHANGED <<owner, reading, writing, busy, storage, snapshot,
                         pushing, raising, taking, snaps>>
          /\ Top.kind = "batch" /\ Top.kind \in Phased
      BY <1>8 DEF CloseBatch, Phased
    <2> HIDE DEF c
    <2>5. SetPhase("done") \in Seq(Frame)
      BY <2>1, <2>4, PhaseFrame
    <2>6. TypeOK'
      BY <2>3, <2>4, <2>5 DEF TypeOK
    <2>7. Len(commits') >= Top.index
      BY <2>1, <2>2, <2>3, <2>4 DEF TypeOK, BatchFrame
    <2> QED BY <2>1, <2>4, <2>6, <2>7, PhaseStep
  <1>9. ASSUME NEW o \in Objects, NEW h \in Objects, NEW v \in Values, NEW w \in Values,
               InitWithHistory(t, o, v, h, w)
        PROVE  IInv'
    <2> DEFINE a == [type |-> "silent", stores |-> [LastStores EXCEPT ![h] = w]]
               b == [type |-> "silent", stores |-> [LastStores EXCEPT ![o] = v]]
    <2>1. a \in Commit /\ b \in Commit
      BY <1>1 DEF Commit, SilentCommit, Stored
    <2>2. /\ commits' = commits \o <<a, b>> /\ MayCommit(t)
          /\ UNCHANGED <<owner, stack, reading, writing, busy, storage,
                         snapshot, pushing, raising, taking, snaps>>
      BY <1>9 DEF InitWithHistory
    <2> HIDE DEF a, b
    <2>3. /\ commits' \in Seq(Commit)
          /\ Len(commits') \in Nat /\ Len(commits') >= Len(commits)
      BY <2>1, <2>2, AppendedTwice DEF TypeOK
    <2>4. TypeOK'
      BY <2>2, <2>3 DEF TypeOK
    <2> QED BY <2>2, <2>3, <2>4, CommitStep DEF MayCommit, UserCode
  <1> QED BY <1>4, <1>5, <1>6, <1>7, <1>8, <1>9 DEF Work

LEMMA LeaveContextStep ==
    ASSUME IInv, NEW t \in Threads, LeaveContext(t)
    PROVE  IInv'
  <1> USE DEF IInv
  <1>1. ASSUME LeaveWrite(t)
        PROVE  IInv'
    <2>1. /\ owner = t /\ raising = NoException
          /\ Top.kind \in WriteKinds /\ ~ Live(Top)
      BY <1>1 DEF LeaveWrite, WriteKinds, Phased, Live, LivePhases
    <2>2. /\ stack # <<>> /\ reading = 0 /\ Len(stack) = writing
          /\ Top.index \in 0..Len(commits)
      BY <2>1, Running
    <2>3. CASE writing = 1
      <3> DEFINE f == [kind |-> "push"]
      <3>1. f \in ReadFrame /\ f \in Frame
        BY DEF ReadFrame, Frame
      <3>2. /\ stack' = Append(stack, f) /\ reading' = reading + 1
            /\ pushing' = [queue |-> commits, phase |-> "PRE"]
            /\ commits' = <<>>
            /\ UNCHANGED <<writing, owner, busy, storage, snapshot, raising,
                           taking, snaps>>
        BY <1>1, <2>3 DEF LeaveWrite
      <3>3. TypeOK'
        BY <3>1, <3>2 DEF TypeOK
      <3>4. ~ Live(stack[1])
        BY <2>1, <2>2, <2>3 DEF Top
      <3> QED BY <2>1, <2>2, <2>3, <3>1, <3>2, <3>3, <3>4, EnterReadStep
    <2>4. CASE writing # 1
      <3>1. /\ stack' = Pop /\ writing' = writing - 1
            /\ UNCHANGED <<reading, pushing, commits, owner, busy, storage,
                           snapshot, raising, taking, snaps>>
        BY <1>1, <2>4 DEF LeaveWrite
      <3>2. writing - 1 \in Nat
        BY <2>2, TopFrame DEF TypeOK
      <3>3. TypeOK'
        BY <2>2, <3>1, <3>2, PopFrame DEF TypeOK
      <3>4. Len(commits') >= Top.index
        BY <2>2, <3>1 DEF TypeOK
      <3>5. ~ LiveChange(Top)
        BY <2>1 DEF LiveChange
      <3> QED BY <2>1, <2>4, <3>1, <3>3, <3>4, <3>5, PopWriteStep
    <2> QED BY <2>3, <2>4
  <1>2. ASSUME LeaveTemporary(t)
        PROVE  IInv'
    <2>1. TypeOK'
      BY <1>2 DEF TypeOK, LeaveTemporary, Exception, Temporary
    <2>2. stack # <<>>
      BY <1>2, Running DEF LeaveTemporary, UserCode
    <2> QED BY <1>2, <2>1, <2>2, UnmovedStep DEF LeaveTemporary
  <1>3. ASSUME LeaveRead(t)
        PROVE  IInv'
    <2>1. owner = t /\ Top.kind \in {"read", "snapshot"} /\ raising = NoException
      BY <1>3 DEF LeaveRead, UserCode
    <2>2. stack # <<>> /\ reading # 0
      BY <2>1, Running DEF WriteKinds
    <2>3. TypeOK'
      BY <1>3, <2>2, PopFrame DEF TypeOK, LeaveRead, CloseReading
    <2> QED BY <1>3, <2>1, <2>3, CloseReadingStep DEF LeaveRead
  <1> QED BY <1>1, <1>2, <1>3 DEF LeaveContext

LEMMA HandleExceptionStep ==
    ASSUME IInv, NEW t \in Threads, HandleException(t)
    PROVE  IInv'
  <1> USE DEF IInv
  <1>1. ASSUME Raise(t)
        PROVE  IInv'
    <2>1. stack # <<>> /\ Len(stack) \in Nat
      BY <1>1, Running, TopFrame DEF Raise, UserCode
    <2>2. TypeOK'
      BY <1>1, <2>1 DEF TypeOK, Raise, Exception, Error, Reject
    <2> QED BY <1>1, <2>1, <2>2, UnmovedStep DEF Raise
  <1>2. ASSUME Catch(t)
        PROVE  IInv'
    <2>1. TypeOK'
      BY <1>2 DEF TypeOK, Catch, Exception, NoException
    <2> QED BY <1>2, <2>1, UnmovedStep DEF Catch
  <1>3. ASSUME CatchRejection(t)
        PROVE  IInv'
    <2>1. /\ owner = t /\ Top.kind \in Phased /\ Live(Top)
          /\ stack' = SetPhase("rejected") /\ commits' = Reverted
          /\ raising' = NoException /\ NotBusyAnymore
          /\ UNCHANGED <<owner, reading, writing, storage, snapshot, pushing,
                         taking, snaps>>
      BY <1>3 DEF CatchRejection, Live
    <2>2. stack # <<>> /\ Top.index \in 0..Len(commits) /\ Top \in Frame
      BY <2>1, Running DEF Phased, WriteKinds
    <2>3. commits' \in Seq(Commit) /\ Len(commits') = Top.index
      BY <2>1, <2>2, Prefix DEF Reverted, TypeOK
    <2>4. busy' = IF LiveChange(Top) THEN busy \ {Top.obj} ELSE busy
      BY <2>1 DEF NotBusyAnymore, LiveChange, Live
    <2>5. SetPhase("rejected") \in Seq(Frame)
      BY <2>1, <2>2, PhaseFrame
    <2>6. TypeOK'
      BY <2>1, <2>3, <2>4, <2>5 DEF TypeOK, Exception, NoException
    <2>7. Top.kind = "change" => LiveChange(Top)
      BY <2>1 DEF LiveChange
    <2>8. Len(commits') >= Top.index
      BY <2>2, <2>3
    <2>9. \/ LiveChange(Top) /\ "rejected" # "POST" /\ busy' = busy \ {Top.obj}
          \/ Top.kind # "change" /\ UNCHANGED busy
      BY <2>4, <2>7 DEF LiveChange
    <2> QED BY <2>1, <2>6, <2>8, <2>9, PhaseStep
  <1>4. ASSUME UnwindWrite(t)
        PROVE  IInv'
    <2>1. /\ owner = t /\ Top.kind \in WriteKinds /\ commits' = Reverted
          /\ stack' = Pop /\ writing' = writing - 1 /\ NotBusyAnymore
          /\ writing = 1 => owner' = NoThread /\ raising' = NoException
          /\ writing # 1 => UNCHANGED <<owner, raising>>
          /\ UNCHANGED <<reading, storage, snapshot, pushing, taking, snaps>>
      BY <1>4 DEF UnwindWrite
    <2>2. /\ stack # <<>> /\ Top.index \in 0..Len(commits)
          /\ reading = 0 /\ Len(stack) = writing
      BY <2>1, Running
    <2>3. commits' \in Seq(Commit) /\ Len(commits') = Top.index
      BY <2>1, <2>2, Prefix DEF Reverted, TypeOK
    <2>4. busy' = IF LiveChange(Top) THEN busy \ {Top.obj} ELSE busy
      BY <2>1 DEF NotBusyAnymore, LiveChange, Live, Phased
    <2>5. writing - 1 \in Nat
      BY <2>2, TopFrame DEF TypeOK
    <2>6. TypeOK'
      BY <2>1, <2>2, <2>3, <2>4, <2>5, PopFrame
         DEF TypeOK, Exception, NoException
    <2>7. writing = 1 => commits' = <<>>
      <3>1. writing = 1 => Top.index = 0
        BY <2>2 DEF IndexShape, Top
      <3> QED BY <2>3, <3>1
    <2>8. Len(commits') >= Top.index
      BY <2>2, <2>3
    <2> QED BY <2>1, <2>4, <2>6, <2>7, <2>8, PopWriteStep
  <1>5. ASSUME UnwindRead(t)
        PROVE  IInv'
    <2>1. owner = t /\ Top.kind \in {"read", "snapshot"}
      BY <1>5 DEF UnwindRead
    <2>2. stack # <<>> /\ reading # 0
      BY <2>1, Running DEF WriteKinds
    <2>3. TypeOK'
      BY <1>5, <2>2, PopFrame
         DEF TypeOK, UnwindRead, CloseReading, Exception, NoException
    <2> QED BY <1>5, <2>1, <2>3, CloseReadingStep DEF UnwindRead
  <1>6. ASSUME CollectFailure(t)
        PROVE  IInv'
    <2>1. TypeOK'
      BY <1>6 DEF TypeOK, CollectFailure, Exception, NoException
    <2> QED BY <1>6, <2>1, UnmovedStep DEF CollectFailure
  <1> QED BY <1>1, <1>2, <1>3, <1>4, <1>5, <1>6 DEF HandleException

LEMMA PushStep ==
    ASSUME IInv, NEW t \in Threads, Push(t)
    PROVE  IInv'
  <1> USE DEF IInv
  <1>1. PushRuns(t) => InPush /\ stack # <<>> /\ Top.kind = "push" /\ owner = t
    BY Running DEF PushRuns, Pushing
  <1>2. pushing.queue # <<>> => NextCommit \in [queue : Seq(Commit), phase : {"PRE", "POST"}]
    BY DEF NextCommit, TypeOK
  <1>3. ASSUME MergeStores(t)
        PROVE  IInv'
    <2>1. pushing.queue[1].stores \in Contents
      BY <1>3 DEF MergeStores, TypeOK, Commit, ChangeCommit, SilentCommit, BatchCommit
    <2>2. storage' \in Contents
      BY <1>3, <2>1, Stores DEF MergeStores, TypeOK
    <2>3. TypeOK'
      BY <1>2, <1>3, <2>2 DEF MergeStores, TypeOK
    <2> QED BY <1>1, <1>3, <2>3, UnmovedStep DEF MergeStores
  <1>4. ASSUME EndNotify(t)
        PROVE  IInv'
    <2>1. TypeOK'
      BY <1>2, <1>4 DEF EndNotify, TypeOK, Notifying
    <2> QED BY <1>1, <1>4, <2>1, UnmovedStep DEF EndNotify
  <1>5. ASSUME FinishPush(t)
        PROVE  IInv'
    <2>1. /\ PushRuns(t) /\ pushing' = NotPushing
          /\ stack' = SubSeq(stack, 1, Len(stack) - 2)
          /\ reading' = reading - 1 /\ writing' = writing - 1
          /\ owner' = NoThread
          /\ UNCHANGED <<busy, commits, storage, snapshot, raising, taking, snaps>>
      BY <1>5 DEF FinishPush
    <2>2. /\ Len(stack) = 2 /\ writing = 1 /\ reading = 1 /\ commits = <<>>
          /\ stack # <<>> /\ raising = NoException
          /\ Top = stack[2] /\ Top.kind = "push"
          /\ DOMAIN stack = 1..2
      BY <1>1, <2>1, Running, TopFrame DEF Top, PushRuns
    <2>3. stack' = <<>>
      BY <2>1, <2>2, SubSeqEmpty DEF TypeOK
    <2>4. reading' = 0 /\ writing' = 0
      BY <2>1, <2>2
    <2>5. busy = {}
      <3>1. ~ Live(stack[1]) /\ ~ Live(stack[2])
        BY <2>2 DEF PushShape, Live, Phased
      <3> QED BY <2>2, <3>1 DEF BusyExact, LiveChange
    <2>6. snapshot = NoSnapshot
      BY <2>2 DEF SnapshotApplied, SnapshotFrames, ReadsInsideWrites, WriteKinds
    <2>7. TypeOK'
      BY <2>1, <2>3, <2>4 DEF TypeOK, NotPushing
    <2>8. stack' = <<>> /\ DOMAIN stack' = {} /\ Len(stack') = 0
      BY <2>3
    <2>9. LockShape' /\ ReadsInsideWrites' /\ IndexShape' /\ PushShape'
      BY <2>1, <2>2, <2>4, <2>8
         DEF LockShape, ReadsInsideWrites, IndexShape, PushShape, InPush
    <2>10. BusyExact' /\ SnapshotApplied'
      BY <2>1, <2>5, <2>6, <2>8 DEF BusyExact, SnapshotApplied
    <2> QED BY <2>7, <2>9, <2>10
  <1> QED BY <1>3, <1>4, <1>5 DEF Push

LEMMA TakeSnapshotStep ==
    ASSUME IInv, NEW t \in Threads, TakeSnapshot(t)
    PROVE  IInv'
  <1> USE DEF IInv
  <1>1. LastStores \in Contents
    BY Stores
  <1>2. \A x \in Taking : x.pc # "idle" => x.base \in Contents
    BY DEF Taking
  <1>3. taking[t] \in Taking /\ Idle \in Taking
    BY DEF TypeOK, Taking, Idle
  <1>4. ASSUME StartSnapshot(t)
        PROVE  IInv'
    <2>1. [pc |-> "test", base |-> storage] \in Taking
      BY DEF TypeOK, Taking
    <2>2. TypeOK'
      BY <1>4, <2>1 DEF TypeOK, StartSnapshot
    <2> QED BY <1>4, <2>2, UnmovedStep DEF StartSnapshot, LockShape
  <1>5. ASSUME TestCommits(t)
        PROVE  IInv'
    <2>1. taking[t].base \in Contents /\ taking[t] \in [pc : {"test", "merge"}, base : Contents]
      BY <1>3, <1>5 DEF TestCommits, Taking
    <2>2. [taking[t] EXCEPT !.pc = "merge"] \in Taking
      BY <2>1 DEF Taking
    <2>3. TypeOK'
      BY <1>3, <1>5, <2>1, <2>2 DEF TypeOK, TestCommits, Keep, EndTaking
    <2> QED BY <1>5, <2>3, UnmovedStep DEF TestCommits, LockShape
  <1>6. ASSUME MergeCommits(t)
        PROVE  IInv'
    <2>1. taking[t].base \in Contents
      BY <1>3, <1>6 DEF MergeCommits, Taking
    <2>2. Captured(t) \in Contents
      BY <1>1, <2>1, Stores DEF Captured
    <2>3. TypeOK'
      BY <1>3, <1>6, <2>2 DEF TypeOK, MergeCommits, Keep, EndTaking
    <2> QED BY <1>6, <2>3, UnmovedStep DEF MergeCommits, LockShape
  <1> QED BY <1>4, <1>5, <1>6 DEF TakeSnapshot

LEMMA StutterStep == ASSUME IInv, UNCHANGED vars PROVE IInv'
  BY DEF IInv, vars, TypeOK, LockShape, ReadsInsideWrites, IndexShape, PushShape,
     InPush, BusyExact, LiveChange, Live, SnapshotApplied, SnapshotFrames

-----------------------------------------------------------------------------
(* The results.                                                            *)

\* The inductive invariant holds in every reachable state.
THEOREM Invariance == Spec => []IInv
  <1>1. ASSUME IInv, Next
        PROVE  IInv'
    BY <1>1, EnterContextStep, WorkStep, LeaveContextStep, HandleExceptionStep,
       PushStep, TakeSnapshotStep DEF Next
  <1>2. IInv /\ [Next]_vars => IInv'
    BY <1>1, StutterStep
  <1> QED BY InitIInv, <1>2, PTL DEF Spec

\* Every variable always has its type.
THEOREM TypeCorrect == Spec => []TypeOK
  BY Invariance, PTL DEF IInv

\* The assertions of write_context and read_context hold: once the lock is
\* free nothing of any context is left.
THEOREM AlwaysQuiescent == Spec => []Quiescent
  <1>1. ASSUME IInv, owner = NoThread
        PROVE  Quiescent
    <2>1. stack = <<>> /\ raising = NoException
      BY <1>1 DEF IInv, LockShape
    <2>2. DOMAIN stack = {} /\ Len(stack) = 0
      BY <2>1
    <2>3. reading = 0 /\ writing = 0
      BY <1>1, <2>2 DEF IInv, TypeOK, ReadsInsideWrites
    <2>4. commits = <<>> /\ busy = {} /\ pushing = NotPushing
      BY <1>1, <2>2, <2>3 DEF IInv, IndexShape, BusyExact, PushShape, InPush
    <2>5. snapshot = NoSnapshot
      BY <1>1, <2>2 DEF IInv, SnapshotApplied, SnapshotFrames
    <2> QED BY <2>1, <2>3, <2>4, <2>5 DEF Quiescent
  <1>2. IInv => Quiescent
    BY <1>1 DEF Quiescent
  <1> QED BY Invariance, <1>2, PTL

\* The objects marked busy are those whose write is in progress, each once.
THEOREM AlwaysBusyExact == Spec => []BusyExact
  BY Invariance, PTL DEF IInv

\* Write contexts are never inside read contexts.
THEOREM AlwaysReadsInsideWrites == Spec => []ReadsInsideWrites
  BY Invariance, PTL DEF IInv

\* No snapshot stays in force after its context.
THEOREM AlwaysSnapshotApplied == Spec => []SnapshotApplied
  BY Invariance, PTL DEF IInv

-----------------------------------------------------------------------------
(* What is in the commits.                                                 *)

\* The objects a commit has a store for are those of the commits before it, and
\* perhaps another one - but for histories, which init_object forgets as soon as
\* they are made and which nothing in the transaction changes after that.
Knows(s)  == {o \in Objects : s[o] # NoStore}
Lost(q)   == {h \in Histories : \A k \in DOMAIN q : q[k].type = "change" => q[k].obj # h}
Grows(q)  == \A i, j \in DOMAIN q : i <= j => Knows(q[i].stores) \subseteq Knows(q[j].stores) \cup Lost(q)

\* An object that a commit forgets is new, and no later commit has it again.
ForgetsForGood(q, b) ==
    \A i, j, k \in DOMAIN q : i <= j /\ j <= k =>
        \A o \in Knows(q[i].stores) \ Knows(q[j].stores) : o \notin Knows(q[k].stores) /\ b[o] = NoStore

\* The last of the commits has the object, if any of them had.
Kept(q, o) == \A i \in DOMAIN q : o \in Knows(q[i].stores) => o \in Knows(StoresAt(q, Len(q)))

\* A change has what was there before it as its old value, what its stores have as
\* its new one; a batch has the stores of the commit before.
Follows(c, before, b) ==
    /\ c.type = "batch" => c.stores = before
    /\ c.type = "change" => c.old = Merge(b, before)[c.obj]

NewValueStored(c) ==
    c.type = "change" => c.stores[c.obj] = c.new /\ c.new # NoStore

\* Commits on top of b.
InOrder(q, b) ==
    /\ Grows(q)
    /\ ForgetsForGood(q, b)
    /\ \A i \in DOMAIN q : /\ NewValueStored(q[i])
                           /\ Follows(q[i], StoresAt(q, i - 1), b)

CommitsRight == InOrder(commits, storage)

\* What is still to be pushed follows from the storage, which has the stores of
\* everything pushed.
QueueRight ==
    LET q == pushing.queue
    IN  /\ Grows(q)
        /\ \A i \in DOMAIN q : NewValueStored(q[i])
        /\ \A i \in DOMAIN q : i > 1 => Follows(q[i], q[i - 1].stores, storage)
        /\ q # <<>> =>
             IF pushing.phase = "PRE"
             THEN /\ q[1].type = "batch" => Merge(storage, q[1].stores) = storage
                  /\ q[1].type = "change" => q[1].old = storage[q[1].obj]
             ELSE q[1].type = "change" /\ Merge(storage, q[1].stores) = storage

\* Nothing that was committed since a pending change began has changed its object.
PendingChange(f) ==
    f.kind = "change" =>
        /\ f.old \in Values /\ f.new \in Values
        /\ f.phase = "PRE" => \A n \in f.index..Len(commits) : ViewAt(n)[f.obj] = f.old

PendingRight == \A i \in 1..writing : PendingChange(stack[i])

StoresRight == CommitsRight /\ QueueRight /\ PendingRight

-----------------------------------------------------------------------------
(* How batches nest in the commits.                                        *)

Opened(f) == f.kind = "batch" /\ f.phase = "open"

\* The PRE commit of an open batch is the first one since its context was entered;
\* the batches of all others since are inside it, and so are the contexts above.
OpenRight ==
    \A d \in 1..writing : Opened(stack[d]) =>
        LET k == stack[d].index + 1
        IN  /\ k \in Batches(commits, "PRE")
            /\ commits[k].batch = d /\ commits[k].obj = stack[d].obj
            /\ \A n \in (k + 1)..Len(commits) : IsBatch(commits[n]) => commits[n].batch > d
            /\ \A e \in (d + 1)..writing : stack[e].index >= k

\* A batch is opened and closed on the same side of the index of any context.
ClosedWithin ==
    \A d \in 1..writing : \A j \in Batches(commits, "POST") :
        j > stack[d].index =>
            \E i \in Batches(commits, "PRE") : i > stack[d].index /\ Matches(commits, i, j)

BatchesRight == BatchesNested /\ OpenRight /\ ClosedWithin

-----------------------------------------------------------------------------
(* take_snapshot, as far as the owner of the lock runs it.                 *)

TakingRight ==
    \A t \in Threads : owner = t /\ taking[t] # Idle =>
        /\ raising = NoException
        /\ taking[t].base = storage
        /\ taking[t].pc = "merge" => commits # <<>>

-----------------------------------------------------------------------------
(* The steps, as far as the commits and the write contexts go.             *)

\* f and g are a context before and after a step that leaves it as it was, or
\* after one that ends its own work.
SameWork(g, f) ==
    /\ g.kind = f.kind /\ g.index = f.index
    /\ f.kind = "change" => g.obj = f.obj /\ g.old = f.old /\ g.new = f.new
SameContext(g, f) ==
    /\ SameWork(g, f)
    /\ f.kind = "change" => (g.phase = "PRE" => f.phase = "PRE")
    /\ f.kind = "batch"  => g.obj = f.obj /\ (Opened(g) <=> Opened(f))
Ended(g, f) ==
    /\ SameWork(g, f)
    /\ g.kind = "change" => g.phase # "PRE"
    /\ ~ Opened(g)

Below(n)  == \A i \in 1..n : stack'[i] = stack[i]
NotPushed == ~ InPush /\ ~ InPush' /\ UNCHANGED <<storage, pushing>>

\* Nothing happens to the commits, nor to a write context.
Still ==
    /\ UNCHANGED <<storage, commits, writing, pushing>>
    /\ InPush' <=> InPush
    /\ \A i \in 1..writing : SameContext(stack'[i], stack[i])

\* A write context is entered.
Opening(f) ==
    /\ NotPushed
    /\ writing' = writing + 1 /\ Below(writing) /\ stack'[writing + 1] = f
    /\ f.index = Len(commits)

OpenWrite == \E f \in ContextFrame : Opening(f) /\ UNCHANGED commits

OpenChange ==
    \E f \in ChangeFrame :
        /\ Opening(f) /\ UNCHANGED commits
        /\ f.old = Current[f.obj] /\ f.old # NoStore /\ f.new # NoStore

OpenBatches ==
    \E f \in BatchFrame :
        /\ Opening(f) /\ f.phase = "open"
        /\ commits' = Append(commits, [type |-> "batch", obj |-> f.obj, phase |-> "PRE",
                                       batch |-> writing + 1, stores |-> LastStores])

\* The innermost write context commits something.
Committing(c) ==
    /\ NotPushed
    /\ writing > 0 /\ UNCHANGED writing /\ Below(writing - 1)
    /\ commits' = Append(commits, c)

CommitSilently ==
    \E o \in Objects, v \in Values :
        /\ Committing([type |-> "silent", stores |-> [LastStores EXCEPT ![o] = v]])
        /\ stack'[writing] = stack[writing]
        /\ Current[o] = v \/ (Current[o] = NoStore /\ o \in Ordinary)

CommitWithHistory ==
    \E o \in Ordinary, h \in Histories, v, w \in Values :
        /\ NotPushed
        /\ writing > 0 /\ UNCHANGED <<writing, stack>>
        /\ commits' = commits \o
             <<[type |-> "silent", stores |-> [LastStores EXCEPT ![h] = w]],
               [type |-> "silent", stores |-> [LastStores EXCEPT ![o] = v]]>>
        /\ Current[o] = NoStore /\ Unheard(h)

CommitPending ==
    \E f \in ChangeFrame :
        /\ f = stack[writing] /\ f.phase = "PRE"
        /\ Committing([type |-> "change", obj |-> f.obj, old |-> f.old, new |-> f.new,
                       stores |-> [LastStores EXCEPT ![f.obj] = f.new]])
        /\ Ended(stack'[writing], f)

CommitBatch ==
    \E f \in BatchFrame :
        /\ f = stack[writing] /\ f.phase = "open"
        /\ Committing([type |-> "batch", obj |-> f.obj, phase |-> "POST",
                       batch |-> writing, stores |-> LastStores])
        /\ Ended(stack'[writing], f)

\* The innermost write context ends, its work over.
Leaving ==
    /\ NotPushed /\ UNCHANGED commits
    /\ writing > 1 /\ writing' = writing - 1 /\ Below(writing - 1)
    /\ ~ Opened(stack[writing])

\* Its commits are reverted, and it ends or a rejected change goes on without.
Reverting ==
    /\ NotPushed
    /\ writing > 0 /\ Below(writing - 1)
    /\ commits' = SubSeq(commits, 1, stack[writing].index)
RejectChange == Reverting /\ UNCHANGED writing /\ Ended(stack'[writing], stack[writing])
Discard == Reverting /\ writing' = writing - 1

\* The topmost write context hands its commits over to the push.
HandOver ==
    /\ ~ InPush /\ InPush' /\ UNCHANGED storage
    /\ writing = 1 /\ UNCHANGED writing /\ Below(1)
    /\ ~ Live(stack[1])
    /\ pushing' = [queue |-> commits, phase |-> "PRE"]
    /\ commits' = <<>>

\* The push goes on.
InsidePush == InPush /\ InPush' /\ UNCHANGED <<stack, commits, writing>>

Merging ==
    /\ InsidePush /\ pushing.queue # <<>>
    /\ pushing.queue[1].type # "batch" /\ pushing.phase = "PRE"
    /\ storage' = Merge(storage, pushing.queue[1].stores)
    /\ pushing' = IF pushing.queue[1].type = "change"
                  THEN [queue |-> pushing.queue, phase |-> "POST"]
                  ELSE NextCommit

Told ==
    /\ InsidePush /\ pushing.queue # <<>>
    /\ pushing.queue[1].type = "batch" \/ pushing.phase = "POST"
    /\ UNCHANGED storage
    /\ pushing' = NextCommit

Finishing ==
    /\ InPush /\ ~ InPush' /\ UNCHANGED <<storage, commits>>
    /\ pushing.queue = <<>> /\ pushing' = NotPushing
    /\ writing' = 0

Kinds ==
    \/ Still
    \/ OpenWrite \/ OpenChange \/ OpenBatches
    \/ CommitSilently \/ CommitWithHistory \/ CommitPending \/ CommitBatch
    \/ Leaving \/ RejectChange \/ Discard
    \/ HandOver \/ Merging \/ Told \/ Finishing

LEMMA StillSame ==
    ASSUME IInv, UNCHANGED <<storage, commits, writing, pushing>>, InPush' <=> InPush, Below(writing)
    PROVE  Still
  <1>1. \A i \in 1..writing : stack'[i] = stack[i]
    BY DEF Below
  <1>2. \A i \in 1..writing : SameContext(stack'[i], stack[i])
    BY <1>1 DEF SameContext, SameWork, Opened
  <1> QED BY <1>2 DEF Still

\* Where the code of t runs no push is going on, unless an observer is called.
LEMMA WritersRun ==
    ASSUME IInv, NEW t \in Threads, owner = t, reading = 0
    PROVE  ~ InPush /\ Len(stack) = writing /\ writing \in Nat /\ writing > 0 /\ Top = stack[writing]
             /\ DOMAIN stack = 1..writing
  <1>1. stack # <<>> /\ Len(stack) = writing
    BY Running
  <1>2. Len(stack) \in Nat \ {0} /\ DOMAIN stack = 1..Len(stack)
    BY <1>1, TopFrame DEF IInv
  <1>3. ~ InPush
    BY <1>1, <1>2, WriteFrames DEF IInv, InPush
  <1> QED BY <1>1, <1>2, <1>3 DEF Top

LEMMA EnterKinds ==
    ASSUME IInv, NEW t \in Threads, EnterContext(t)
    PROVE  Kinds
  <1> USE DEF IInv
  <1>a. stack \in Seq(Frame) /\ Len(stack) \in Nat /\ commits \in Seq(Commit) /\ DOMAIN stack = 1..Len(stack)
    BY DEF TypeOK
  <1>b. \A i \in 1..writing : i \in DOMAIN stack
    BY WriteFrames
  <1>1. ASSUME NEW f \in WriteFrame, MayWrite(t), Enter(t, f), f.index = Len(commits), writing' = writing + 1,
               UNCHANGED <<storage, pushing>>
        PROVE  Opening(f)
    <2>1. Len(stack) = writing /\ ~ InPush
      BY <1>1, Entering
    <2>2. f \in Frame /\ f.kind # "push"
      BY DEF Frame, WriteFrame, ContextFrame, ChangeFrame, BatchFrame
    <2>3. /\ \A i \in 1..writing : stack'[i] = stack[i]
          /\ stack'[writing + 1] = f
          /\ DOMAIN stack' = 1..(writing + 1)
      BY <1>a, <1>1, <2>1, <2>2 DEF Enter
    <2>4. ~ InPush'
      BY <1>a, <2>1, <2>2, <2>3 DEF InPush
    <2> QED BY <1>1, <2>1, <2>3, <2>4 DEF Opening, NotPushed, Below
  <1>2. ASSUME NEW kind \in {"write", "temporary"}, EnterWrite(t, kind)
        PROVE  OpenWrite
    <2> DEFINE f == [kind |-> kind, index |-> Len(commits)]
    <2>1. f \in ContextFrame /\ f \in WriteFrame /\ f.index = Len(commits)
      BY <1>a DEF ContextFrame, WriteFrame
    <2>2. MayWrite(t) /\ Enter(t, f) /\ writing' = writing + 1 /\ UNCHANGED <<storage, pushing, commits>>
      BY <1>2 DEF EnterWrite
    <2> HIDE DEF f
    <2>3. Opening(f)
      BY <1>1, <2>1, <2>2
    <2> QED BY <2>1, <2>2, <2>3 DEF OpenWrite
  <1>3. ASSUME NEW o \in Objects, NEW v \in Values, BeginChange(t, o, v)
        PROVE  OpenChange
    <2> DEFINE f == [kind |-> "change", index |-> Len(commits), obj |-> o,
                     old |-> Current[o], new |-> v, phase |-> "PRE"]
    <2>0. Current \in Contents
      BY Stores
    <2>1. /\ f \in ChangeFrame /\ f \in WriteFrame /\ f.index = Len(commits)
          /\ f.old = Current[f.obj] /\ f.new # NoStore /\ f.old = Current[o]
      BY <1>a, <2>0, NullsAssumption DEF ChangeFrame, WriteFrame, Contents, Stored
    <2>2. /\ MayWrite(t) /\ Enter(t, f) /\ writing' = writing + 1 /\ UNCHANGED <<storage, pushing, commits>>
          /\ Current[o] # NoStore
      BY <1>3 DEF BeginChange, MayChange
    <2> HIDE DEF f
    <2>3. Opening(f)
      BY <1>1, <2>1, <2>2
    <2> QED BY <2>1, <2>2, <2>3 DEF OpenChange
  <1>4. ASSUME NEW o \in Objects, EnterBatch(t, o)
        PROVE  OpenBatches
    <2> DEFINE f == [kind |-> "batch", index |-> Len(commits), obj |-> o, phase |-> "open"]
    <2>1. f \in BatchFrame /\ f \in WriteFrame /\ f.index = Len(commits) /\ f.obj = o /\ f.phase = "open"
      BY <1>a DEF BatchFrame, WriteFrame
    <2>2. /\ MayWrite(t) /\ Enter(t, f) /\ writing' = writing + 1 /\ UNCHANGED <<storage, pushing>>
          /\ commits' = Append(commits, [type |-> "batch", obj |-> o, phase |-> "PRE",
                                         batch |-> Len(stack) + 1, stores |-> LastStores])
      BY <1>4 DEF EnterBatch
    <2>3. Len(stack) = writing
      BY <2>2, Entering
    <2> HIDE DEF f
    <2>4. Opening(f)
      BY <1>1, <2>1, <2>2
    <2> QED BY <2>1, <2>2, <2>3, <2>4 DEF OpenBatches
  <1>5. ASSUME NEW f \in ReadFrame \cup SnapshotFrame, f.kind # "push", stack' = Append(stack, f),
               UNCHANGED <<writing, commits, storage, pushing>>
        PROVE  Still
    <2>1. f \in Frame
      BY DEF Frame
    <2>2. /\ DOMAIN stack' = 1..(Len(stack) + 1)
          /\ \A i \in 1..Len(stack) : stack'[i] = stack[i]
          /\ stack'[Len(stack) + 1] = f
      BY <1>a, <1>5, <2>1
    <2>3. InPush' <=> InPush
      BY <1>a, <1>5, <2>2 DEF InPush
    <2>4. Below(writing)
      BY <1>a, <1>b, <2>2 DEF Below
    <2> QED BY <1>5, <2>3, <2>4, StillSame
  <1>6. ASSUME EnterRead(t)
        PROVE  Still
    <2> DEFINE f == [kind |-> "read"]
    <2>1. f \in ReadFrame \cup SnapshotFrame /\ f.kind # "push"
      BY DEF ReadFrame
    <2>2. stack' = Append(stack, f) /\ UNCHANGED <<writing, commits, storage, pushing>>
      BY <1>6 DEF EnterRead, Enter
    <2> HIDE DEF f
    <2> QED BY <1>5, <2>1, <2>2
  <1>7. ASSUME NEW s0 \in snaps, EnterSnapshot(t, s0)
        PROVE  Still
    <2> DEFINE f == [kind |-> "snapshot", of |-> s0]
    <2>1. f \in ReadFrame \cup SnapshotFrame /\ f.kind # "push"
      BY DEF SnapshotFrame, TypeOK
    <2>2. stack' = Append(stack, f) /\ UNCHANGED <<writing, commits, storage, pushing>>
      BY <1>7 DEF EnterSnapshot, Enter
    <2> HIDE DEF f
    <2> QED BY <1>5, <2>1, <2>2
  <1>8. ASSUME Refused(t)
        PROVE  Still
    <2>1. UNCHANGED <<stack, writing, commits, storage, pushing>>
      BY <1>8 DEF Refused
    <2> QED BY <2>1, StillSame DEF Below, InPush
  <1> QED BY <1>2, <1>3, <1>4, <1>6, <1>7, <1>8 DEF EnterContext, Kinds

LEMMA WorkKinds ==
    ASSUME IInv, NEW t \in Threads, Work(t)
    PROVE  Kinds
  <1> USE DEF IInv
  <1>a. UserCode(t) /\ owner = t
    BY DEF Work, InitObject, InitWithHistory, UpdateMetadata, CommitChange, EndChange, CloseBatch, MayCommit, UserCode
  <1>b. stack # <<>> /\ Top \in Frame /\ Current \in Contents
    BY <1>a, Running, Stores
  <1>1. ASSUME reading = 0
        PROVE  /\ ~ InPush /\ Len(stack) = writing /\ writing \in Nat /\ writing > 0 /\ Top = stack[writing]
               /\ DOMAIN stack = 1..writing
    BY <1>1, <1>a, WritersRun
  <1>2. ASSUME NEW c, reading = 0, commits' = Append(commits, c), UNCHANGED <<storage, pushing, writing, stack>>
        PROVE  Committing(c) /\ stack'[writing] = stack[writing]
    BY <1>1, <1>2 DEF Committing, NotPushed, Below, InPush
  <1>3. ASSUME NEW o \in Objects, NEW v \in Values, InitObject(t, o, v)
        PROVE  CommitSilently
    <2> DEFINE c == [type |-> "silent", stores |-> [LastStores EXCEPT ![o] = v]]
    <2>1. /\ reading = 0 /\ commits' = Append(commits, c) /\ UNCHANGED <<storage, pushing, writing, stack>>
          /\ Current[o] = NoStore /\ o \in Ordinary
      BY <1>3 DEF InitObject, MayCommit, Ordinary
    <2> HIDE DEF c
    <2>2. Committing(c) /\ stack'[writing] = stack[writing]
      BY <1>2, <2>1
    <2> QED BY <2>1, <2>2 DEF CommitSilently, c
  <1>4. ASSUME NEW o \in Objects, UpdateMetadata(t, o)
        PROVE  CommitSilently
    <2> DEFINE v == Current[o]
    <2> DEFINE c == [type |-> "silent", stores |-> [LastStores EXCEPT ![o] = v]]
    <2>1. reading = 0 /\ commits' = Append(commits, c) /\ UNCHANGED <<storage, pushing, writing, stack>> /\ v # NoStore
      BY <1>4 DEF UpdateMetadata, MayCommit
    <2>2. v \in Values
      BY <1>b, <2>1 DEF Contents, Stored
    <2> HIDE DEF c
    <2>3. Committing(c) /\ stack'[writing] = stack[writing]
      BY <1>2, <2>1
    <2> QED BY <2>1, <2>2, <2>3 DEF CommitSilently, c
  <1>5. ASSUME NEW p \in {"POST", "done"}, reading = 0, Top.kind \in Phased, p = "POST" => Top.kind = "change",
               stack' = SetPhase(p), UNCHANGED writing
        PROVE  ~ InPush' /\ Below(writing - 1) /\ Ended(stack'[writing], stack[writing])
    <2>1. /\ ~ InPush /\ Len(stack) = writing /\ writing \in Nat /\ writing > 0 /\ Top = stack[writing]
          /\ DOMAIN stack = 1..writing
      BY <1>1, <1>5
    <2> DEFINE g == [Top EXCEPT !.phase = p]
    <2>2. /\ DOMAIN stack' = 1..writing
          /\ \A i \in 1..(writing - 1) : stack'[i] = stack[i]
          /\ stack'[writing] = g
          /\ g.kind = Top.kind /\ g.phase = p /\ g.index = Top.index
      BY <1>5, <1>b, <2>1, PhaseFrame
    <2>3. Top.kind = "change" => Top \in ChangeFrame
      BY <1>b, FrameKinds
    <2>4. Top.kind = "change" => g.obj = Top.obj /\ g.old = Top.old /\ g.new = Top.new
      BY <2>3 DEF ChangeFrame
    <2> HIDE DEF g
    <2>5. Ended(g, Top)
      BY <1>5, <2>2, <2>4 DEF Ended, SameWork, Opened, Phased
    <2>6. g.kind # "push"
      BY <1>5, <2>2 DEF Phased
    <2>7. ~ InPush'
      BY <2>1, <2>2, <2>6 DEF InPush
    <2> QED BY <2>1, <2>2, <2>5, <2>7 DEF Below
  <1>6. ASSUME CommitChange(t)
        PROVE  CommitPending
    <2>1. /\ reading = 0 /\ Top.kind = "change" /\ Top.phase = "PRE" /\ stack' = SetPhase("POST")
          /\ UNCHANGED <<storage, pushing, writing>> /\ Top.kind \in Phased
          /\ commits' = Append(commits, [type |-> "change", obj |-> Top.obj, old |-> Top.old, new |-> Top.new,
                                         stores |-> [LastStores EXCEPT ![Top.obj] = Top.new]])
      BY <1>6 DEF CommitChange, MayCommit, Phased
    <2>2. Top \in ChangeFrame
      BY <1>b, <2>1, FrameKinds
    <2>3. ~ InPush' /\ Below(writing - 1) /\ Ended(stack'[writing], stack[writing])
      BY <1>5, <2>1
    <2>4. ~ InPush /\ writing > 0 /\ Top = stack[writing]
      BY <1>1, <2>1
    <2> QED BY <2>1, <2>2, <2>3, <2>4 DEF CommitPending, Committing, NotPushed
  <1>7. ASSUME CloseBatch(t)
        PROVE  CommitBatch
    <2>1. /\ reading = 0 /\ Top.kind = "batch" /\ Top.phase = "open" /\ stack' = SetPhase("done")
          /\ UNCHANGED <<storage, pushing, writing>> /\ Top.kind \in Phased
          /\ commits' = Append(commits, [type |-> "batch", obj |-> Top.obj, phase |-> "POST",
                                         batch |-> Len(stack), stores |-> LastStores])
      BY <1>7 DEF CloseBatch, MayCommit, Phased
    <2>2. Top \in BatchFrame
      BY <1>b, <2>1, FrameKinds
    <2>3. ~ InPush' /\ Below(writing - 1) /\ Ended(stack'[writing], stack[writing])
      BY <1>5, <2>1
    <2>4. ~ InPush /\ writing > 0 /\ Top = stack[writing] /\ Len(stack) = writing
      BY <1>1, <2>1
    <2> QED BY <2>1, <2>2, <2>3, <2>4 DEF CommitBatch, Committing, NotPushed
  <1>8. ASSUME EndChange(t)
        PROVE  Still
    <2>1. /\ Top.kind = "change" /\ Top.phase = "POST" /\ Top.kind \in Phased /\ stack' = SetPhase("done")
          /\ UNCHANGED <<storage, commits, pushing, writing>>
      BY <1>8 DEF EndChange, Phased
    <2>2. reading = 0
      BY <1>a, <2>1, Running DEF WriteKinds
    <2>3. ~ InPush' /\ Below(writing - 1) /\ Ended(stack'[writing], stack[writing])
      BY <1>5, <2>1, <2>2
    <2>4. ~ InPush /\ writing \in Nat /\ writing > 0 /\ Top = stack[writing]
      BY <1>1, <2>2
    <2>5. SameContext(stack'[writing], stack[writing])
      BY <2>1, <2>3, <2>4 DEF SameContext, Ended, SameWork
    <2>6. \A i \in 1..(writing - 1) : SameContext(stack'[i], stack[i])
      BY <2>3 DEF Below, SameContext, SameWork, Opened
    <2> QED BY <2>1, <2>3, <2>4, <2>5, <2>6 DEF Still
  <1>9. ASSUME NEW o \in Objects, NEW h \in Objects, NEW v \in Values, NEW w \in Values,
               InitWithHistory(t, o, v, h, w)
        PROVE  CommitWithHistory
    <2> DEFINE a == [type |-> "silent", stores |-> [LastStores EXCEPT ![h] = w]]
               b == [type |-> "silent", stores |-> [LastStores EXCEPT ![o] = v]]
    <2>1. /\ reading = 0 /\ UNCHANGED <<storage, pushing, writing, stack>>
          /\ commits' = commits \o <<a, b>>
          /\ o \in Ordinary /\ Current[o] = NoStore /\ h \in Histories /\ Unheard(h)
      BY <1>9 DEF InitWithHistory, MayCommit, Ordinary
    <2>2. NotPushed /\ writing > 0
      BY <1>1, <2>1 DEF NotPushed, InPush
    <2> QED BY <2>1, <2>2 DEF CommitWithHistory
  <1> QED BY <1>3, <1>4, <1>6, <1>7, <1>8, <1>9 DEF Work, Kinds

LEMMA ClosingStill ==
    ASSUME IInv, NEW t \in Threads, owner = t, Top.kind \in {"read", "snapshot"}, CloseReading,
           UNCHANGED <<writing, commits, storage, pushing>>
    PROVE  Still
  <1> USE DEF IInv
  <1>1. stack # <<>> /\ reading # 0
    BY Running DEF WriteKinds
  <1>2. /\ writing \in Nat /\ reading \in Nat /\ Len(stack) = writing + reading
        /\ Top = stack[Len(stack)] /\ DOMAIN stack = 1..Len(stack) /\ Len(stack) \in Nat \ {0}
    BY <1>1, TopFrame DEF TypeOK, Top, ReadsInsideWrites
  <1>3. /\ DOMAIN stack' = 1..(Len(stack) - 1)
        /\ \A i \in 1..(Len(stack) - 1) : stack'[i] = stack[i]
    BY <1>1, <1>2, PopFrame DEF CloseReading
  <1>4. InPush' <=> InPush
    BY <1>2, <1>3 DEF InPush
  <1>5. Below(writing)
    BY <1>1, <1>2, <1>3 DEF Below
  <1> QED BY <1>4, <1>5, StillSame

LEMMA LeaveKinds ==
    ASSUME IInv, NEW t \in Threads, LeaveContext(t)
    PROVE  Kinds
  <1> USE DEF IInv
  <1>1. ASSUME LeaveWrite(t)
        PROVE  HandOver \/ Leaving
    <2>1. /\ owner = t /\ Top.kind \in WriteKinds /\ ~ Live(Top) /\ ~ Opened(Top)
          /\ UNCHANGED storage
      BY <1>1 DEF LeaveWrite, WriteKinds, Phased, Live, LivePhases, Opened
    <2>2. reading = 0 /\ stack # <<>>
      BY <2>1, Running
    <2>3. /\ ~ InPush /\ Len(stack) = writing /\ writing \in Nat /\ writing > 0 /\ Top = stack[writing]
          /\ DOMAIN stack = 1..writing
      BY <2>1, <2>2, WritersRun
    <2>4. CASE writing = 1
      <3>1. ASSUME NEW f \in ReadFrame, f.kind = "push", stack' = Append(stack, f)
            PROVE  InPush' /\ Below(1)
        <4>1. f \in Frame
          BY DEF Frame
        <4>2. /\ stack \in Seq(Frame) /\ DOMAIN stack = 1..Len(stack) /\ Len(stack) \in Nat
          BY <2>3 DEF TypeOK
        <4>3. /\ DOMAIN stack' = 1..(Len(stack) + 1)
              /\ \A i \in 1..Len(stack) : stack'[i] = stack[i]
              /\ stack'[Len(stack) + 1] = f
          BY <3>1, <4>1, <4>2
        <4> QED BY <2>3, <2>4, <3>1, <4>2, <4>3 DEF InPush, Below
      <3>2. /\ stack' = Append(stack, [kind |-> "push"]) /\ UNCHANGED writing
            /\ pushing' = [queue |-> commits, phase |-> "PRE"] /\ commits' = <<>>
        BY <1>1, <2>4 DEF LeaveWrite
      <3>3. [kind |-> "push"] \in ReadFrame
        BY DEF ReadFrame
      <3>4. InPush' /\ Below(1)
        BY <3>1, <3>2, <3>3
      <3> QED BY <2>1, <2>3, <2>4, <3>2, <3>4 DEF HandOver
    <2>5. CASE writing # 1
      <3>1. stack' = Pop /\ writing' = writing - 1 /\ UNCHANGED <<commits, pushing>>
        BY <1>1, <2>5 DEF LeaveWrite
      <3>2. /\ DOMAIN stack' = 1..(writing - 1)
            /\ \A i \in 1..(writing - 1) : stack'[i] = stack[i]
        BY <2>2, <2>3, <3>1, PopFrame
      <3>3. ~ InPush' /\ Below(writing - 1)
        BY <2>3, <3>2 DEF InPush, Below
      <3> QED BY <2>1, <2>3, <2>5, <3>1, <3>3 DEF Leaving, NotPushed
    <2> QED BY <2>4, <2>5
  <1>2. ASSUME LeaveTemporary(t)
        PROVE  Still
    <2>1. UNCHANGED <<stack, writing, commits, storage, pushing>>
      BY <1>2 DEF LeaveTemporary
    <2> QED BY <2>1, StillSame DEF Below, InPush
  <1>3. ASSUME LeaveRead(t)
        PROVE  Still
    BY <1>3, ClosingStill DEF LeaveRead, UserCode
  <1> QED BY <1>1, <1>2, <1>3 DEF LeaveContext, Kinds

LEMMA ExceptionKinds ==
    ASSUME IInv, NEW t \in Threads, HandleException(t)
    PROVE  Kinds
  <1> USE DEF IInv
  <1>1. ASSUME UNCHANGED <<stack, writing, commits, storage, pushing>>
        PROVE  Still
    BY <1>1, StillSame DEF Below, InPush
  <1>2. ASSUME Raise(t) \/ Catch(t) \/ CollectFailure(t)
        PROVE  Still
    BY <1>1, <1>2 DEF Raise, Catch, CollectFailure
  <1>3. ASSUME UnwindRead(t)
        PROVE  Still
    BY <1>3, ClosingStill DEF UnwindRead
  <1>4. ASSUME CatchRejection(t)
        PROVE  RejectChange
    <2>1. /\ owner = t /\ Top.kind \in Phased /\ Top.kind \in WriteKinds
          /\ stack' = SetPhase("rejected") /\ commits' = Reverted
          /\ UNCHANGED <<writing, storage, pushing>>
      BY <1>4 DEF CatchRejection, WriteKinds, Phased
    <2>2. reading = 0 /\ stack # <<>> /\ Top \in Frame
      BY <2>1, Running
    <2>3. /\ ~ InPush /\ Len(stack) = writing /\ writing \in Nat /\ writing > 0 /\ Top = stack[writing]
          /\ DOMAIN stack = 1..writing
      BY <2>1, <2>2, WritersRun
    <2> DEFINE g == [Top EXCEPT !.phase = "rejected"]
    <2>4. /\ DOMAIN stack' = 1..writing
          /\ \A i \in 1..(writing - 1) : stack'[i] = stack[i]
          /\ stack'[writing] = g
          /\ g.kind = Top.kind /\ g.phase = "rejected" /\ g.index = Top.index
      BY <2>1, <2>2, <2>3, PhaseFrame
    <2>5. Top.kind = "change" => Top \in ChangeFrame
      BY <2>2, FrameKinds
    <2>6. Top.kind = "change" => g.obj = Top.obj /\ g.old = Top.old /\ g.new = Top.new
      BY <2>5 DEF ChangeFrame
    <2> HIDE DEF g
    <2>7. Ended(g, Top)
      BY <2>4, <2>6 DEF Ended, SameWork, Opened
    <2>8. g.kind # "push"
      BY <2>1, <2>4 DEF Phased
    <2>9. ~ InPush'
      BY <2>3, <2>4, <2>8 DEF InPush
    <2> QED BY <2>1, <2>3, <2>4, <2>7, <2>9 DEF RejectChange, Reverting, NotPushed, Below, Reverted
  <1>5. ASSUME UnwindWrite(t)
        PROVE  Discard
    <2>1. /\ owner = t /\ Top.kind \in WriteKinds /\ commits' = Reverted
          /\ stack' = Pop /\ writing' = writing - 1
          /\ UNCHANGED <<storage, pushing>>
      BY <1>5 DEF UnwindWrite
    <2>2. reading = 0 /\ stack # <<>>
      BY <2>1, Running
    <2>3. /\ ~ InPush /\ Len(stack) = writing /\ writing \in Nat /\ writing > 0 /\ Top = stack[writing]
          /\ DOMAIN stack = 1..writing
      BY <2>1, <2>2, WritersRun
    <2>4. /\ DOMAIN stack' = 1..(writing - 1)
          /\ \A i \in 1..(writing - 1) : stack'[i] = stack[i]
      BY <2>1, <2>2, <2>3, PopFrame
    <2>5. ~ InPush' /\ Below(writing - 1)
      BY <2>3, <2>4 DEF InPush, Below
    <2> QED BY <2>1, <2>3, <2>5 DEF Discard, Reverting, NotPushed, Reverted
  <1> QED BY <1>2, <1>3, <1>4, <1>5 DEF HandleException, Kinds

LEMMA PushKinds ==
    ASSUME IInv, NEW t \in Threads, Push(t)
    PROVE  Kinds
  <1> USE DEF IInv
  <1>1. PushRuns(t) => /\ InPush /\ Len(stack) = 2 /\ writing = 1 /\ reading = 1 /\ stack # <<>>
                       /\ Top.kind = "push"
    BY Running DEF PushRuns, Pushing
  <1>2. pushing = [queue |-> pushing.queue, phase |-> pushing.phase]
    BY DEF TypeOK
  <1>3. ASSUME MergeStores(t)
        PROVE  Merging
    <2>1. [pushing EXCEPT !.phase = "POST"] = [queue |-> pushing.queue, phase |-> "POST"]
      BY <1>2
    <2>2. /\ PushRuns(t) /\ pushing.queue # <<>>
          /\ pushing.queue[1].type # "batch" /\ pushing.phase = "PRE"
          /\ storage' = Merge(storage, pushing.queue[1].stores)
          /\ pushing' = IF pushing.queue[1].type = "change"
                        THEN [pushing EXCEPT !.phase = "POST"]
                        ELSE NextCommit
          /\ UNCHANGED <<stack, commits, writing>>
      BY <1>3 DEF MergeStores
    <2>3. InsidePush
      BY <1>1, <2>2 DEF InsidePush, InPush
    <2> QED BY <2>1, <2>2, <2>3 DEF Merging
  <1>4. ASSUME EndNotify(t)
        PROVE  Told
    <2>1. /\ PushRuns(t) /\ pushing.queue # <<>>
          /\ pushing.queue[1].type = "batch" \/ pushing.phase = "POST"
          /\ pushing' = NextCommit
          /\ UNCHANGED <<stack, commits, writing, storage>>
      BY <1>4 DEF EndNotify, Notifying
    <2>2. InsidePush
      BY <1>1, <2>1 DEF InsidePush, InPush
    <2> QED BY <2>1, <2>2 DEF Told
  <1>5. ASSUME FinishPush(t)
        PROVE  Finishing
    <2>a. stack \in Seq(Frame) /\ Len(stack) = 2
      BY <1>1, <1>5 DEF FinishPush, TypeOK
    <2>1. stack' = <<>>
      BY <1>5, <2>a, SubSeqEmpty DEF FinishPush
    <2>2. ~ InPush'
      BY <2>1 DEF InPush
    <2> QED BY <1>1, <1>5, <2>2 DEF FinishPush, Finishing
  <1> QED BY <1>3, <1>4, <1>5 DEF Push, Kinds

\* Every step is of one of these kinds.
LEMMA StepKinds ==
    ASSUME IInv, [Next]_vars
    PROVE  Kinds
  <1>1. ASSUME UNCHANGED <<stack, writing, commits, storage, pushing>>
        PROVE  Still
    BY <1>1, StillSame DEF Below, InPush
  <1>2. ASSUME NEW t \in Threads, TakeSnapshot(t)
        PROVE  Still
    BY <1>1, <1>2 DEF TakeSnapshot, StartSnapshot, TestCommits, MergeCommits
  <1>3. CASE UNCHANGED vars
    BY <1>1, <1>3 DEF vars, Kinds
  <1>4. CASE Next
    BY <1>2, <1>4, EnterKinds, WorkKinds, LeaveKinds, ExceptionKinds, PushKinds DEF Next, Kinds
  <1> QED BY <1>3, <1>4

-----------------------------------------------------------------------------
(* Stores, views and the commits they come from.                           *)

LEMMA Appended ==
    ASSUME NEW S, NEW q \in Seq(S), NEW e
    PROVE  /\ Len(q) \in Nat /\ DOMAIN q = 1..Len(q)
           /\ Len(Append(q, e)) = Len(q) + 1
           /\ DOMAIN Append(q, e) = 1..(Len(q) + 1)
           /\ \A i \in 1..Len(q) : Append(q, e)[i] = q[i]
           /\ Append(q, e)[Len(q) + 1] = e
  <1>1. q \in Seq(S \cup {e}) /\ e \in S \cup {e}
    OBVIOUS
  <1>2. /\ Append(q, e) \in Seq(S \cup {e})
        /\ Len(Append(q, e)) = Len(q) + 1
        /\ \A i \in 1..Len(q) : Append(q, e)[i] = q[i]
        /\ Append(q, e)[Len(q) + 1] = e
    BY <1>1, AppendProperties
  <1> QED BY <1>1, <1>2

LEMMA Merged ==
    /\ \A s, a \in Contents : \A o \in Objects :
         Merge(s, a)[o] = IF a[o] = NoStore THEN s[o] ELSE a[o]
    /\ \A s \in Contents : Merge(s, NoStores) = s
    /\ \A s, a, b \in Contents : \A o \in Objects :
         (o \in Knows(a) => o \in Knows(b)) => Merge(Merge(s, a), b)[o] = Merge(s, b)[o]
    /\ \A s, a \in Contents : Merge(Merge(s, a), a) = Merge(s, a)
    /\ \A a \in Contents, o \in Objects, v \in Values :
         /\ [a EXCEPT ![o] = v] \in Contents
         /\ [a EXCEPT ![o] = v][o] = v
         /\ Knows(a) \subseteq Knows([a EXCEPT ![o] = v])
         /\ \A s \in Contents : Merge(s, [a EXCEPT ![o] = v]) = [Merge(s, a) EXCEPT ![o] = v]
  <1>1. ASSUME NEW s \in Contents, NEW a \in Contents, NEW o \in Objects
        PROVE  Merge(s, a)[o] = IF a[o] = NoStore THEN s[o] ELSE a[o]
    BY DEF Merge
  <1>2. ASSUME NEW s \in Contents
        PROVE  Merge(s, NoStores) = s
    BY DEF Merge, NoStores, Contents
  <1>3. ASSUME NEW s \in Contents, NEW a \in Contents, NEW b \in Contents, NEW o \in Objects,
               o \in Knows(a) => o \in Knows(b)
        PROVE  Merge(Merge(s, a), b)[o] = Merge(s, b)[o]
    BY <1>3 DEF Merge, Knows
  <1>4. ASSUME NEW a \in Contents, NEW o \in Objects, NEW v \in Values
        PROVE  /\ [a EXCEPT ![o] = v] \in Contents
               /\ [a EXCEPT ![o] = v][o] = v
               /\ Knows(a) \subseteq Knows([a EXCEPT ![o] = v])
               /\ \A s \in Contents : Merge(s, [a EXCEPT ![o] = v]) = [Merge(s, a) EXCEPT ![o] = v]
    <2>0. v # NoStore /\ v \in Stored
      BY NullsAssumption DEF Stored
    <2>1. [a EXCEPT ![o] = v] \in Contents /\ [a EXCEPT ![o] = v][o] = v
      BY <2>0 DEF Contents
    <2>2. Knows(a) \subseteq Knows([a EXCEPT ![o] = v])
      BY <2>0 DEF Contents, Knows
    <2>3. ASSUME NEW s \in Contents
          PROVE  Merge(s, [a EXCEPT ![o] = v]) = [Merge(s, a) EXCEPT ![o] = v]
      <3>1. \A p \in Objects : [a EXCEPT ![o] = v][p] = IF p = o THEN v ELSE a[p]
        BY DEF Contents
      <3>2. Merge(s, [a EXCEPT ![o] = v]) = [p \in Objects |-> IF p = o THEN v ELSE IF a[p] = NoStore THEN s[p] ELSE a[p]]
        BY <2>0, <3>1 DEF Merge
      <3>3. [Merge(s, a) EXCEPT ![o] = v] = [p \in Objects |-> IF p = o THEN v ELSE IF a[p] = NoStore THEN s[p] ELSE a[p]]
        BY DEF Merge
      <3> QED BY <3>2, <3>3
    <2> QED BY <2>1, <2>2, <2>3
  <1>5. ASSUME NEW s \in Contents, NEW a \in Contents
        PROVE  Merge(Merge(s, a), a) = Merge(s, a)
    BY DEF Merge
  <1> QED BY <1>1, <1>2, <1>3, <1>4, <1>5

LEMMA Views ==
    ASSUME IInv
    PROVE  /\ LastStores = StoresAt(commits, Len(commits))
           /\ Current = ViewAt(Len(commits))
           /\ \A i \in DOMAIN commits : commits[i].stores \in Contents
           /\ \A n \in 0..Len(commits) : StoresAt(commits, n) \in Contents /\ ViewAt(n) \in Contents
           /\ ViewAt(0) = storage
  <1>1. commits \in Seq(Commit) /\ storage \in Contents /\ writing \in Nat
    BY DEF IInv, TypeOK
  <1>2. \A c \in Commit : c.stores \in Contents
    BY DEF Commit, ChangeCommit, SilentCommit, BatchCommit
  <1>3. \A i \in DOMAIN commits : commits[i].stores \in Contents
    BY <1>1, <1>2
  <1>4. LastStores = StoresAt(commits, Len(commits))
    BY <1>1 DEF LastStores, StoresAt
  <1>5. NoStores \in Contents /\ \A a, b \in Contents : Merge(a, b) \in Contents
    BY Stores DEF IInv
  <1>6. \A n \in 0..Len(commits) : StoresAt(commits, n) \in Contents
    BY <1>1, <1>3, <1>5 DEF StoresAt
  <1>7. \A n \in 0..Len(commits) : ViewAt(n) \in Contents
    BY <1>1, <1>5, <1>6 DEF ViewAt
  <1>8. ViewAt(0) = storage
    BY <1>1, Merged DEF ViewAt, StoresAt
  <1>9. Current = ViewAt(Len(commits))
    <2>1. CASE writing > 0
      BY <1>4, <2>1 DEF Current, ViewAt
    <2>2. CASE writing = 0
      <3>1. commits = <<>>
        BY <2>2 DEF IInv, IndexShape
      <3>2. Len(commits) = 0
        BY <3>1
      <3> QED BY <1>1, <1>8, <2>2, <3>2 DEF Current
    <2> QED BY <1>1, <2>1, <2>2
  <1> QED BY <1>3, <1>4, <1>6, <1>7, <1>8, <1>9

LEMMA AppendViews ==
    ASSUME IInv, NEW c, commits' = Append(commits, c), UNCHANGED storage
    PROVE  /\ Len(commits) \in Nat /\ Len(commits') = Len(commits) + 1
           /\ DOMAIN commits = 1..Len(commits) /\ DOMAIN commits' = 1..(Len(commits) + 1)
           /\ \A i \in 1..Len(commits) : commits'[i] = commits[i]
           /\ commits'[Len(commits) + 1] = c
           /\ \A n \in 0..Len(commits) : StoresAt(commits', n) = StoresAt(commits, n) /\ ViewAt(n)' = ViewAt(n)
           /\ StoresAt(commits', Len(commits) + 1) = c.stores
           /\ \A n \in {Len(commits) + 1} : ViewAt(n)' = Merge(storage, c.stores)
  <1>1. commits \in Seq(Commit)
    BY DEF IInv, TypeOK
  <1>2. /\ Len(commits) \in Nat /\ Len(commits') = Len(commits) + 1
        /\ DOMAIN commits = 1..Len(commits) /\ DOMAIN commits' = 1..(Len(commits) + 1)
        /\ \A i \in 1..Len(commits) : commits'[i] = commits[i]
        /\ commits'[Len(commits) + 1] = c
    BY <1>1, Appended
  <1>3. \A n \in 0..Len(commits) : StoresAt(commits', n) = StoresAt(commits, n)
    BY <1>2 DEF StoresAt
  <1>4. StoresAt(commits', Len(commits) + 1) = c.stores
    BY <1>2 DEF StoresAt
  <1> QED BY <1>2, <1>3, <1>4 DEF ViewAt

LEMMA PrefixViews ==
    ASSUME IInv, NEW m \in 0..Len(commits), commits' = SubSeq(commits, 1, m), UNCHANGED storage
    PROVE  /\ Len(commits) \in Nat /\ Len(commits') = m
           /\ DOMAIN commits = 1..Len(commits) /\ DOMAIN commits' = 1..m
           /\ \A i \in 1..m : commits'[i] = commits[i] /\ i \in DOMAIN commits
           /\ \A n \in 0..m : StoresAt(commits', n) = StoresAt(commits, n) /\ ViewAt(n)' = ViewAt(n)
  <1>1. commits \in Seq(Commit) /\ Len(commits) \in Nat /\ DOMAIN commits = 1..Len(commits)
    BY DEF IInv, TypeOK
  <1>2. /\ Len(commits') = m /\ DOMAIN commits' = 1..m
        /\ \A i \in 1..m : commits'[i] = commits[i]
    BY <1>1, Prefix
  <1>3. \A n \in 0..m : StoresAt(commits', n) = StoresAt(commits, n)
    BY <1>2 DEF StoresAt
  <1> QED BY <1>1, <1>2, <1>3 DEF ViewAt

-----------------------------------------------------------------------------
(* The commits, step by step.                                              *)

\* One more commit, which may forget what is new, but only knows what was kept.
LEMMA AppendInOrder ==
    ASSUME NEW q \in Seq(Commit), NEW b, InOrder(q, b), NEW c, NewValueStored(c),
           c.type = "change" => c.obj \in Objects,
           Follows(c, StoresAt(q, Len(q)), b),
           \A o \in Knows(c.stores) : Kept(q, o),
           \A o \in Knows(StoresAt(q, Len(q))) \ Knows(c.stores) :
              o \in Lost(q) /\ b[o] = NoStore /\ c.type # "change"
    PROVE  InOrder(Append(q, c), b)
  <1> DEFINE n == Len(q)
             r == Append(q, c)
             last == Knows(StoresAt(q, n))
  <1>1. /\ n \in Nat /\ DOMAIN q = 1..n /\ DOMAIN r = 1..(n + 1)
        /\ \A i \in 1..n : r[i] = q[i]
        /\ r[n + 1] = c
    BY Appended
  <1>2. last = Knows(StoresAt(q, n)) /\ (n > 0 => last = Knows(q[n].stores))
    BY <1>1 DEF StoresAt
  <1>3. \A i \in 1..n : Knows(q[i].stores) \subseteq last \cup Lost(q)
    BY <1>1, <1>2 DEF InOrder, Grows
  <1>4. \A i, j \in 1..n : i <= j =>
          \A o \in Knows(q[i].stores) \ Knows(q[j].stores) : o \notin last /\ b[o] = NoStore
    BY <1>1, <1>2 DEF InOrder, ForgetsForGood
  <1>5. \A o \in Knows(c.stores) : \A i \in 1..n : o \in Knows(q[i].stores) => o \in last
    BY <1>1 DEF Kept
  <1>6. \A o \in last \ Knows(c.stores) : o \in Lost(q) /\ b[o] = NoStore /\ c.type # "change"
    OBVIOUS
  <1>7. \A i \in 0..n : StoresAt(r, i) = StoresAt(q, i)
    BY <1>1 DEF StoresAt
  <1>8. c.type = "change" => c.obj \in Knows(c.stores)
    BY DEF NewValueStored, Knows
  <1>9. Follows(c, StoresAt(q, n), b)
    OBVIOUS
  <1> HIDE DEF n, r, last
  <1>10. ASSUME NEW o \in Lost(q), c.type = "change" => c.obj # o
         PROVE  o \in Lost(r)
    <2>1. o \in Histories /\ \A k \in 1..n : q[k].type = "change" => q[k].obj # o
      BY <1>1 DEF Lost
    <2>2. \A k \in 1..(n + 1) : r[k].type = "change" => r[k].obj # o
      <3> TAKE k \in 1..(n + 1)
      <3>1. CASE k \in 1..n
        BY <1>1, <2>1, <3>1
      <3>2. CASE k = n + 1
        BY <1>1, <1>10, <3>2
      <3> QED BY <1>1, <3>1, <3>2
    <2> QED BY <1>1, <2>1, <2>2 DEF Lost
  <1>11. Grows(r)
    <2> SUFFICES ASSUME NEW i \in 1..(n + 1), NEW j \in 1..(n + 1), i <= j,
                        NEW o \in Knows(r[i].stores), o \notin Knows(r[j].stores)
                 PROVE  o \in Lost(r)
      BY <1>1 DEF Grows
    <2>1. CASE j \in 1..n
      <3>1. i \in 1..n /\ r[i] = q[i] /\ r[j] = q[j]
        BY <1>1, <2>1
      <3>2. o \notin last
        BY <1>4, <2>1, <3>1
      <3>3. o \in Lost(q)
        BY <1>3, <3>1, <3>2
      <3>4. c.type = "change" => c.obj # o
        BY <1>5, <1>8, <3>1, <3>2
      <3> QED BY <1>10, <3>3, <3>4
    <2>2. CASE j = n + 1 /\ i \in 1..n
      <3>1. r[i] = q[i] /\ r[j] = c /\ o \in Knows(q[i].stores)
        BY <1>1, <2>2
      <3>2. o \in Lost(q)
        BY <1>3, <1>6, <2>2, <3>1
      <3>3. c.type = "change" => c.obj # o
        BY <1>8, <3>1
      <3> QED BY <1>10, <3>2, <3>3
    <2>3. CASE j = n + 1 /\ i = n + 1
      BY <2>3
    <2> QED BY <1>1, <2>1, <2>2, <2>3
  <1>12. ForgetsForGood(r, b)
    <2> SUFFICES ASSUME NEW i \in 1..(n + 1), NEW j \in 1..(n + 1), NEW k \in 1..(n + 1), i <= j, j <= k,
                        NEW o \in Knows(r[i].stores), o \notin Knows(r[j].stores)
                 PROVE  o \notin Knows(r[k].stores) /\ b[o] = NoStore
      BY <1>1 DEF ForgetsForGood
    <2>1. CASE k \in 1..n
      <3>1. i \in 1..n /\ j \in 1..n /\ r[i] = q[i] /\ r[j] = q[j] /\ r[k] = q[k]
        BY <1>1, <2>1
      <3> QED BY <1>1, <2>1, <3>1 DEF InOrder, ForgetsForGood
    <2>2. CASE k = n + 1 /\ j \in 1..n
      <3>1. i \in 1..n /\ r[i] = q[i] /\ r[j] = q[j] /\ r[k] = c
        BY <1>1, <2>2
      <3>2. o \notin last /\ b[o] = NoStore
        BY <1>4, <2>2, <3>1
      <3> QED BY <1>5, <3>1, <3>2
    <2>3. CASE k = n + 1 /\ j = n + 1 /\ i \in 1..n
      <3>1. r[i] = q[i] /\ r[k] = c /\ r[j] = c
        BY <1>1, <2>3
      <3>2. CASE o \in last
        BY <1>6, <3>1, <3>2
      <3>3. CASE o \notin last
        <4>1. n \in 1..n /\ i <= n /\ last = Knows(q[n].stores)
          BY <1>1, <1>2, <2>3
        <4> QED BY <1>4, <2>3, <3>1, <3>3, <4>1
      <3> QED BY <3>2, <3>3
    <2>4. CASE j = n + 1 /\ i = n + 1
      BY <2>4
    <2> QED BY <1>1, <2>1, <2>2, <2>3, <2>4
  <1>13. ASSUME NEW i \in 1..(n + 1)
         PROVE  NewValueStored(r[i]) /\ Follows(r[i], StoresAt(r, i - 1), b)
    <2>1. CASE i \in 1..n
      BY <1>1, <1>7, <2>1 DEF InOrder
    <2>2. CASE i = n + 1
      BY <1>1, <1>7, <1>9, <2>2
    <2> QED BY <1>1, <2>1, <2>2
  <1>14. InOrder(r, b)
    BY <1>1, <1>11, <1>12, <1>13 DEF InOrder
  <1> QED BY <1>14 DEF r

\* What can be read was kept, and so was everything but the histories.
LEMMA WhatIsKept ==
    ASSUME NEW q \in Seq(Commit), NEW b, InOrder(q, b), NEW o \in Objects,
           o \in Ordinary \/ Merge(b, StoresAt(q, Len(q)))[o] # NoStore
    PROVE  Kept(q, o)
  <1> DEFINE n == Len(q)
  <1>1. n \in Nat /\ DOMAIN q = 1..n
    OBVIOUS
  <1> SUFFICES ASSUME NEW i \in 1..n, o \in Knows(q[i].stores), o \notin Knows(StoresAt(q, n))
               PROVE  FALSE
    BY <1>1 DEF Kept
  <1>2. n \in 1..n /\ i <= n /\ StoresAt(q, n) = q[n].stores
    BY <1>1 DEF StoresAt
  <1>3. o \in Lost(q) /\ b[o] = NoStore
    BY <1>1, <1>2 DEF InOrder, Grows, ForgetsForGood
  <1>4. o \notin Ordinary
    BY <1>3 DEF Lost, Ordinary
  <1>5. Merge(b, StoresAt(q, n))[o] = NoStore
    BY <1>2, <1>3 DEF Merge, Knows
  <1> QED BY <1>4, <1>5

LEMMA AppendRight ==
    ASSUME IInv, CommitsRight, NEW c, commits' = Append(commits, c), UNCHANGED storage,
           Knows(LastStores) \subseteq Knows(c.stores), NewValueStored(c),
           c.type = "change" => c.obj \in Objects,
           \A o \in Knows(c.stores) : Kept(commits, o),
           Follows(c, LastStores, storage)
    PROVE  CommitsRight'
  <1>1. commits \in Seq(Commit) /\ LastStores = StoresAt(commits, Len(commits)) /\ InOrder(commits, storage)
    BY Views DEF CommitsRight, IInv, TypeOK
  <1>2. \A o \in Knows(StoresAt(commits, Len(commits))) \ Knows(c.stores) :
          o \in Lost(commits) /\ storage[o] = NoStore /\ c.type # "change"
    BY <1>1
  <1>3. InOrder(Append(commits, c), storage)
    BY <1>1, <1>2, AppendInOrder
  <1> QED BY <1>3 DEF CommitsRight

LEMMA PrefixRight ==
    ASSUME IInv, CommitsRight, NEW m \in 0..Len(commits), commits' = SubSeq(commits, 1, m), UNCHANGED storage
    PROVE  CommitsRight'
  <1>1. /\ DOMAIN commits' = 1..m
        /\ \A i \in 1..m : commits'[i] = commits[i] /\ i \in DOMAIN commits
        /\ \A i \in 0..m : StoresAt(commits', i) = StoresAt(commits, i)
    BY PrefixViews
  <1>2. Lost(commits) \subseteq Lost(commits')
    BY <1>1 DEF Lost
  <1>3. Grows(commits')
    <2> SUFFICES ASSUME NEW i \in 1..m, NEW j \in 1..m, i <= j
                 PROVE  Knows(commits'[i].stores) \subseteq Knows(commits'[j].stores) \cup Lost(commits')
      BY <1>1 DEF Grows
    <2>1. Knows(commits[i].stores) \subseteq Knows(commits[j].stores) \cup Lost(commits)
      BY <1>1 DEF Grows, CommitsRight, InOrder
    <2> QED BY <1>1, <1>2, <2>1
  <1>4. ForgetsForGood(commits', storage)
    <2>1. DOMAIN commits' = 1..m
      BY <1>1
    <2> SUFFICES \A i, j, k \in DOMAIN commits' : i <= j /\ j <= k =>
                   \A o \in Knows(commits'[i].stores) \ Knows(commits'[j].stores) :
                     o \notin Knows(commits'[k].stores) /\ storage[o] = NoStore
      BY DEF ForgetsForGood
    <2> TAKE i, j, k \in DOMAIN commits'
    <2> HAVE i <= j /\ j <= k
    <2>2. /\ i \in DOMAIN commits /\ j \in DOMAIN commits /\ k \in DOMAIN commits
          /\ commits'[i] = commits[i] /\ commits'[j] = commits[j] /\ commits'[k] = commits[k]
      BY <1>1, <2>1
    <2>3. ForgetsForGood(commits, storage)
      BY DEF CommitsRight, InOrder
    <2> QED BY <2>2, <2>3 DEF ForgetsForGood
  <1>5. ASSUME NEW i \in 1..m
        PROVE  NewValueStored(commits'[i]) /\ Follows(commits'[i], StoresAt(commits', i - 1), storage)
    <2>1. i \in DOMAIN commits /\ i - 1 \in 0..m /\ commits'[i] = commits[i]
      BY <1>1
    <2> QED BY <1>1, <2>1 DEF CommitsRight, InOrder
  <1> QED BY <1>1, <1>3, <1>4, <1>5 DEF CommitsRight, InOrder

\* A change in progress goes on if nothing was committed for its object.
LEMMA PendingKept ==
    ASSUME NEW i, PendingChange(stack[i]), SameWork(stack'[i], stack[i]),
           stack[i].kind = "change" /\ stack'[i].phase = "PRE" =>
               /\ stack[i].phase = "PRE"
               /\ \A n \in (stack[i].index)..Len(commits') : ViewAt(n)'[stack[i].obj] = stack[i].old
    PROVE  PendingChange(stack[i])'
  BY DEF PendingChange, SameWork

LEMMA SameQueue == ASSUME QueueRight, UNCHANGED <<pushing, storage>> PROVE QueueRight'
  BY DEF QueueRight

\* A commit appended inside the innermost context, which keeps the view of every
\* object whose change is in progress in another.
LEMMA PendingAppend ==
    ASSUME IInv, PendingRight, NEW c, Committing(c),
           SameContext(stack'[writing], stack[writing]) \/ Ended(stack'[writing], stack[writing]),
           \A i \in 1..writing :
              stack[i].kind = "change" /\ stack[i].phase = "PRE" /\ stack'[i].phase = "PRE" =>
                Merge(storage, c.stores)[stack[i].obj] = Current[stack[i].obj]
    PROVE  PendingRight'
  <1> SUFFICES ASSUME NEW i \in 1..writing
               PROVE  PendingChange(stack[i])'
    BY DEF PendingRight, Committing
  <1>1. writing \in Nat /\ commits' = Append(commits, c) /\ UNCHANGED storage
    BY DEF Committing, IInv, TypeOK, NotPushed
  <1>2. SameContext(stack'[i], stack[i]) \/ Ended(stack'[i], stack[i])
    <2>1. CASE i = writing
      BY <2>1
    <2>2. CASE i \in 1..(writing - 1)
      BY <2>2 DEF Committing, Below, SameContext, SameWork, Opened
    <2> QED BY <1>1, <2>1, <2>2
  <1>3. SameWork(stack'[i], stack[i])
    BY <1>2 DEF SameContext, Ended
  <1>4. PendingChange(stack[i])
    BY DEF PendingRight
  <1>5. ASSUME stack[i].kind = "change", stack'[i].phase = "PRE"
        PROVE  stack[i].phase = "PRE"
    BY <1>2, <1>3, <1>5 DEF SameContext, Ended, SameWork
  <1>6. ASSUME stack[i].kind = "change", stack'[i].phase = "PRE", NEW n \in (stack[i].index)..Len(commits')
        PROVE  ViewAt(n)'[stack[i].obj] = stack[i].old
    <2>1. stack[i].index \in Nat /\ stack[i].index <= Len(commits)
      BY WriteFrames DEF IInv, IndexShape
    <2>2. \A k \in (stack[i].index)..Len(commits) : ViewAt(k)[stack[i].obj] = stack[i].old
      BY <1>4, <1>5, <1>6 DEF PendingChange
    <2>3. /\ Len(commits) \in Nat /\ Len(commits') = Len(commits) + 1
          /\ \A k \in 0..Len(commits) : ViewAt(k)' = ViewAt(k)
          /\ \A k \in {Len(commits) + 1} : ViewAt(k)' = Merge(storage, c.stores)
      BY <1>1, AppendViews
    <2>4. CASE n \in (stack[i].index)..Len(commits)
      BY <2>1, <2>2, <2>3, <2>4
    <2>5. CASE n = Len(commits) + 1
      <3>1. Current[stack[i].obj] = stack[i].old
        BY <2>1, <2>2, <2>3, Views
      <3> QED BY <1>5, <1>6, <2>3, <2>5, <3>1
    <2> QED BY <2>1, <2>3, <2>4, <2>5
  <1> QED BY <1>3, <1>4, <1>5, <1>6, PendingKept

LEMMA PendingOpen ==
    ASSUME IInv, PendingRight, NEW f, Opening(f),
           \/ UNCHANGED commits
           \/ \E c : commits' = Append(commits, c) /\ c.stores = LastStores,
           \A k \in {writing + 1} : PendingChange(stack[k])'
    PROVE  PendingRight'
  <1>1. writing \in Nat /\ writing' = writing + 1 /\ UNCHANGED storage /\ Len(commits) \in Nat
    BY DEF Opening, IInv, TypeOK, NotPushed
  <1> SUFFICES ASSUME NEW i \in 1..(writing + 1)
               PROVE  PendingChange(stack[i])'
    BY <1>1 DEF PendingRight
  <1>2. CASE i = writing + 1
    BY <1>2
  <1>3. CASE i \in 1..writing
    <2>1. stack'[i] = stack[i] /\ PendingChange(stack[i])
      BY <1>3 DEF Opening, Below, PendingRight
    <2>2. stack[i].index \in Nat /\ stack[i].index <= Len(commits)
      BY <1>3, WriteFrames DEF IInv, IndexShape
    <2>3. ASSUME stack[i].kind = "change", stack[i].phase = "PRE", NEW n \in (stack[i].index)..Len(commits')
          PROVE  ViewAt(n)'[stack[i].obj] = stack[i].old
      <3>1. \A k \in (stack[i].index)..Len(commits) : ViewAt(k)[stack[i].obj] = stack[i].old
        BY <2>1, <2>3 DEF PendingChange
      <3>2. CASE UNCHANGED commits
        <4>1. ViewAt(n)' = ViewAt(n)
          BY <1>1, <3>2 DEF ViewAt
        <4> QED BY <3>1, <3>2, <4>1
      <3>3. ASSUME NEW c, commits' = Append(commits, c), c.stores = LastStores
            PROVE  ViewAt(n)'[stack[i].obj] = stack[i].old
        <4>1. /\ Len(commits') = Len(commits) + 1
              /\ \A k \in 0..Len(commits) : ViewAt(k)' = ViewAt(k)
              /\ \A k \in {Len(commits) + 1} : ViewAt(k)' = Merge(storage, c.stores)
          BY <1>1, <3>3, AppendViews
        <4>2. Merge(storage, c.stores) = ViewAt(Len(commits))
          BY <3>3, Views DEF ViewAt
        <4>3. CASE n = Len(commits) + 1
          BY <1>1, <2>2, <3>1, <4>1, <4>2, <4>3
        <4>4. CASE n <= Len(commits)
          BY <1>1, <2>2, <3>1, <4>1, <4>4
        <4> QED BY <1>1, <2>2, <4>1, <4>3, <4>4
      <3> QED BY <3>2, <3>3
    <2>4. SameWork(stack'[i], stack[i])
      BY <2>1 DEF SameWork
    <2> QED BY <2>1, <2>3, <2>4, PendingKept
  <1> QED BY <1>1, <1>2, <1>3

\* Reverting the commits, or leaving a context, keeps what is pending below.
LEMMA PendingBelow ==
    ASSUME IInv, PendingRight, UNCHANGED storage, Below(writing - 1), writing > 0,
           NEW m \in 0..Len(commits), commits' = SubSeq(commits, 1, m),
           \/ writing' = writing - 1
           \/ UNCHANGED writing /\ Ended(stack'[writing], stack[writing])
    PROVE  PendingRight'
  <1>1. writing \in Nat /\ Len(commits) \in Nat
    BY DEF IInv, TypeOK
  <1>2. /\ Len(commits') = m /\ \A n \in 0..m : ViewAt(n)' = ViewAt(n)
    BY PrefixViews
  <1>3. ASSUME NEW i \in 1..writing, SameWork(stack'[i], stack[i]), stack'[i].phase = "PRE" => stack'[i] = stack[i] \/ stack[i].kind # "change"
        PROVE  PendingChange(stack[i])'
    <2>1. PendingChange(stack[i]) /\ stack[i].index \in Nat
      BY WriteFrames DEF PendingRight, IInv
    <2>2. ASSUME stack[i].kind = "change", stack'[i].phase = "PRE", NEW n \in (stack[i].index)..Len(commits')
          PROVE  ViewAt(n)'[stack[i].obj] = stack[i].old
      <3>1. stack[i].phase = "PRE"
        BY <1>3, <2>2
      <3>2. \A k \in (stack[i].index)..Len(commits) : ViewAt(k)[stack[i].obj] = stack[i].old
        BY <2>1, <2>2, <3>1 DEF PendingChange
      <3>3. n \in 0..m /\ n \in (stack[i].index)..Len(commits)
        BY <1>1, <1>2, <2>1
      <3> QED BY <1>2, <3>2, <3>3
    <2>3. stack[i].kind = "change" /\ stack'[i].phase = "PRE" => stack[i].phase = "PRE"
      BY <1>3
    <2> QED BY <1>3, <2>1, <2>2, <2>3, PendingKept
  <1>4. \A i \in 1..(writing - 1) : PendingChange(stack[i])'
    <2> SUFFICES ASSUME NEW i \in 1..(writing - 1) PROVE PendingChange(stack[i])'
      OBVIOUS
    <2>1. stack'[i] = stack[i]
      BY DEF Below
    <2>2. SameWork(stack'[i], stack[i])
      BY <2>1 DEF SameWork
    <2> QED BY <1>1, <1>3, <2>1, <2>2
  <1>5. CASE writing' = writing - 1
    BY <1>1, <1>4, <1>5 DEF PendingRight
  <1>6. CASE UNCHANGED writing /\ Ended(stack'[writing], stack[writing])
    <2>1. \A k \in {writing} : PendingChange(stack[k])'
      BY <1>1, <1>3, <1>6 DEF Ended, SameWork
    <2> QED BY <1>1, <1>4, <1>6, <2>1 DEF PendingRight
  <1> QED BY <1>5, <1>6

\* What was told or merged last is what the rest of the queue follows from.
LEMMA NextRight ==
    ASSUME IInv, QueueRight, pushing.queue # <<>>, pushing' = NextCommit,
           storage' = Merge(storage, pushing.queue[1].stores)
    PROVE  QueueRight'
  <1> DEFINE q == pushing.queue
  <1>1. q \in Seq(Commit) /\ storage \in Contents /\ q # <<>>
    BY DEF IInv, TypeOK
  <1>2. /\ Len(q) \in Nat \ {0} /\ DOMAIN q = 1..Len(q)
        /\ Len(Tail(q)) = Len(q) - 1 /\ DOMAIN Tail(q) = 1..(Len(q) - 1)
        /\ \A i \in 1..(Len(q) - 1) : Tail(q)[i] = q[i + 1]
    BY <1>1
  <1>3. \A c \in Commit : c.stores \in Contents /\ (c.type = "change" => c.obj \in Objects)
    BY DEF Commit, ChangeCommit, SilentCommit, BatchCommit
  <1>4. \A i \in 1..Len(q) : q[i] \in Commit
    BY <1>1
  <1>5. pushing'.queue = Tail(q) /\ pushing'.phase = "PRE"
    BY DEF NextCommit
  <1>6. Grows(q)
    BY DEF QueueRight
  <1>7. Grows(Tail(q))
    <2> SUFFICES ASSUME NEW i \in DOMAIN Tail(q), NEW j \in DOMAIN Tail(q), i <= j
                 PROVE  Knows(Tail(q)[i].stores) \subseteq Knows(Tail(q)[j].stores) \cup Lost(Tail(q))
      BY DEF Grows
    <2>0. Lost(q) \subseteq Lost(Tail(q))
      BY <1>2 DEF Lost
    <2>1. /\ i + 1 \in DOMAIN q /\ j + 1 \in DOMAIN q /\ i + 1 <= j + 1
          /\ Tail(q)[i] = q[i + 1] /\ Tail(q)[j] = q[j + 1]
      BY <1>2
    <2>2. Knows(q[i + 1].stores) \subseteq Knows(q[j + 1].stores) \cup Lost(q)
      BY <1>6, <2>1 DEF Grows
    <2> QED BY <2>0, <2>1, <2>2
  <1>8. \A i \in 1..(Len(q) - 1) : NewValueStored(Tail(q)[i])
    BY <1>2 DEF QueueRight
  <1> HIDE DEF q
  <1>9. ASSUME NEW i \in 2..(Len(q) - 1)
        PROVE  Follows(Tail(q)[i], Tail(q)[i - 1].stores, storage')
    <2>1. /\ Tail(q)[i] = q[i + 1] /\ Tail(q)[i - 1] = q[i] /\ i + 1 \in 1..Len(q) /\ i \in 1..Len(q) /\ 1 \in 1..Len(q)
      BY <1>2
    <2>2. Follows(q[i + 1], q[i].stores, storage)
      <3>1. \A j \in DOMAIN q : j > 1 => Follows(q[j], q[j - 1].stores, storage)
        BY DEF QueueRight, q
      <3>2. i + 1 \in DOMAIN q /\ i + 1 > 1 /\ (i + 1) - 1 = i
        BY <1>2, <2>1
      <3>3. Follows(q[i + 1], q[(i + 1) - 1].stores, storage)
        BY <3>1, <3>2
      <3> QED BY <3>2, <3>3
    <2>3. Knows(q[1].stores) \subseteq Knows(q[i].stores) \cup Lost(q)
      <3>1. 1 \in DOMAIN q /\ i \in DOMAIN q /\ 1 <= i
        BY <1>2, <2>1
      <3> QED BY <1>6, <3>1 DEF Grows
    <2>4. ASSUME q[i + 1].type = "change"
          PROVE  Merge(storage', q[i].stores)[q[i + 1].obj] = Merge(storage, q[i].stores)[q[i + 1].obj]
      <3>1. q[1].stores \in Contents /\ q[i].stores \in Contents
        BY <1>3, <1>4, <2>1
      <3>2. storage' = Merge(storage, q[1].stores)
        BY DEF q
      <3>3. q[i + 1].obj \in Objects /\ q[i + 1].obj \notin Lost(q)
        BY <1>2, <1>3, <1>4, <2>1, <2>4 DEF Lost
      <3> QED BY <1>1, <2>3, <3>1, <3>2, <3>3, Merged
    <2> QED BY <2>1, <2>2, <2>4 DEF Follows
  <1>10. ASSUME Len(q) > 1
         PROVE  /\ q[2].type = "batch" => Merge(storage', q[2].stores) = storage'
                /\ q[2].type = "change" => q[2].old = storage'[q[2].obj]
    <2>1. 1 \in 1..Len(q) /\ 2 \in 1..Len(q)
      BY <1>2, <1>10
    <2>2. Follows(q[2], q[1].stores, storage)
      <3>1. \A j \in DOMAIN q : j > 1 => Follows(q[j], q[j - 1].stores, storage)
        BY DEF QueueRight, q
      <3>2. 2 \in DOMAIN q /\ 2 > 1 /\ 2 - 1 = 1
        BY <1>2, <2>1
      <3>3. Follows(q[2], q[2 - 1].stores, storage)
        BY <3>1, <3>2
      <3> QED BY <3>2, <3>3
    <2>3. storage' = Merge(storage, q[1].stores)
      BY DEF q
    <2>4. q[1].stores \in Contents
      BY <1>3, <1>4, <2>1
    <2>5. Merge(storage', q[1].stores) = storage'
      BY <1>1, <2>3, <2>4, Merged
    <2> QED BY <2>2, <2>3, <2>5 DEF Follows
  <1>11. ASSUME Tail(q) # <<>>
         PROVE  Len(q) > 1 /\ Tail(q)[1] = q[2]
    <2>1. Tail(q) \in Seq(Commit)
      BY <1>1
    <2>2. Len(Tail(q)) # 0
      BY <1>11, <2>1, EmptySeq
    <2> QED BY <1>2, <2>2
  <1> QED
    <2>1. \A i \in DOMAIN Tail(q) : i > 1 => Follows(Tail(q)[i], Tail(q)[i - 1].stores, storage')
      BY <1>2, <1>9
    <2>2. Tail(q) # <<>> => /\ Tail(q)[1].type = "batch" => Merge(storage', Tail(q)[1].stores) = storage'
                            /\ Tail(q)[1].type = "change" => Tail(q)[1].old = storage'[Tail(q)[1].obj]
      BY <1>10, <1>11
    <2> QED BY <1>2, <1>5, <1>7, <1>8, <2>1, <2>2 DEF QueueRight

LEMMA OpeningStores ==
    ASSUME IInv, StoresRight, OpenWrite \/ OpenChange \/ OpenBatches
    PROVE  StoresRight'
  <1>1. ASSUME OpenWrite
        PROVE  StoresRight'
    <2>1. PICK f \in ContextFrame : Opening(f) /\ UNCHANGED commits
      BY <1>1 DEF OpenWrite
    <2>2. f.kind # "change" /\ UNCHANGED <<storage, pushing>>
      BY <2>1 DEF ContextFrame, Opening, NotPushed
    <2>3. \A k \in {writing + 1} : PendingChange(stack[k])'
      BY <2>1, <2>2 DEF PendingChange, Opening
    <2>4. PendingRight'
      BY <2>1, <2>3, PendingOpen DEF StoresRight
    <2>5. CommitsRight'
      BY <2>1, <2>2 DEF CommitsRight, StoresRight, InOrder, ForgetsForGood
    <2> QED BY <2>2, <2>4, <2>5, SameQueue DEF StoresRight
  <1>2. ASSUME OpenChange
        PROVE  StoresRight'
    <2>1. PICK f \in ChangeFrame : /\ Opening(f) /\ UNCHANGED commits
                                   /\ f.old = Current[f.obj] /\ f.old # NoStore /\ f.new # NoStore
      BY <1>2 DEF OpenChange
    <2>2. /\ f.old \in Values /\ f.new \in Values /\ UNCHANGED <<storage, pushing>>
          /\ f.index = Len(commits) /\ Len(commits) \in Nat
      BY <2>1 DEF ChangeFrame, Stored, Opening, NotPushed, IInv, TypeOK
    <2>3. ASSUME NEW k \in {writing + 1}
          PROVE  PendingChange(stack[k])'
      <3>1. stack'[k] = f
        BY <2>1 DEF Opening
      <3>2. \A n \in {Len(commits)} : ViewAt(n)' = ViewAt(n)
        BY <2>1, <2>2 DEF ViewAt
      <3>3. \A n \in (f.index)..Len(commits') : ViewAt(n)'[f.obj] = f.old
        BY <2>1, <2>2, <3>2, Views
      <3> QED BY <2>2, <3>1, <3>3 DEF PendingChange
    <2>4. PendingRight'
      BY <2>1, <2>3, PendingOpen DEF StoresRight
    <2>5. CommitsRight'
      BY <2>1, <2>2 DEF CommitsRight, StoresRight, InOrder, ForgetsForGood
    <2> QED BY <2>2, <2>4, <2>5, SameQueue DEF StoresRight
  <1>3. ASSUME OpenBatches
        PROVE  StoresRight'
    <2>1. PICK f \in BatchFrame :
            /\ Opening(f) /\ f.phase = "open"
            /\ commits' = Append(commits, [type |-> "batch", obj |-> f.obj, phase |-> "PRE",
                                           batch |-> writing + 1, stores |-> LastStores])
      BY <1>3 DEF OpenBatches
    <2> DEFINE c == [type |-> "batch", obj |-> f.obj, phase |-> "PRE",
                     batch |-> writing + 1, stores |-> LastStores]
    <2>2. /\ c.stores = LastStores /\ c.type = "batch" /\ commits' = Append(commits, c)
          /\ f.kind # "change" /\ UNCHANGED <<storage, pushing>>
      BY <2>1 DEF BatchFrame, Opening, NotPushed
    <2> HIDE DEF c
    <2>3. \A k \in {writing + 1} : PendingChange(stack[k])'
      BY <2>1, <2>2 DEF PendingChange, Opening
    <2>4. PendingRight'
      BY <2>1, <2>2, <2>3, PendingOpen DEF StoresRight
    <2>5. /\ Follows(c, LastStores, storage) /\ NewValueStored(c)
          /\ Knows(LastStores) \subseteq Knows(c.stores) /\ c.type # "change"
          /\ \A o \in Knows(c.stores) : Kept(commits, o)
      BY <2>2, Views DEF Follows, NewValueStored, Kept
    <2>6. CommitsRight'
      BY <2>2, <2>5, AppendRight DEF StoresRight
    <2> QED BY <2>2, <2>4, <2>6, SameQueue DEF StoresRight
  <1> QED BY <1>1, <1>2, <1>3

LEMMA CommittingStores ==
    ASSUME IInv, StoresRight, CommitSilently \/ CommitPending \/ CommitBatch
    PROVE  StoresRight'
  <1> USE DEF StoresRight
  <1>a. /\ LastStores \in Contents /\ storage \in Contents /\ Len(commits) \in Nat
        /\ Current = Merge(storage, LastStores) /\ Current \in Contents
    BY Views, Stores DEF ViewAt, IInv, TypeOK
  <1>b. commits \in Seq(Commit) /\ InOrder(commits, storage) /\ LastStores = StoresAt(commits, Len(commits))
    BY Views DEF CommitsRight, IInv, TypeOK
  <1>1. ASSUME NEW c, Committing(c), Knows(LastStores) \subseteq Knows(c.stores), NewValueStored(c),
               c.type = "change" => c.obj \in Objects,
               \A o \in Knows(c.stores) : Kept(commits, o),
               Follows(c, LastStores, storage)
        PROVE  CommitsRight' /\ QueueRight'
    <2>1. UNCHANGED <<storage, pushing>> /\ commits' = Append(commits, c)
      BY <1>1 DEF Committing, NotPushed
    <2> QED BY <1>1, <2>1, AppendRight, SameQueue
  <1>c. ASSUME NEW o \in Objects, NEW v, NEW c, c.stores = [LastStores EXCEPT ![o] = v],
               o \in Ordinary \/ Current[o] # NoStore
        PROVE  \A p \in Knows(c.stores) : Kept(commits, p)
    <2>1. Kept(commits, o)
      BY <1>a, <1>b, <1>c, WhatIsKept
    <2>2. ASSUME NEW p \in Knows(c.stores), p # o
          PROVE  Kept(commits, p)
      <3>1. p \in Knows(LastStores)
        BY <1>a, <1>c, <2>2 DEF Knows, Contents
      <3> QED BY <1>b, <3>1 DEF Kept
    <2> QED BY <2>1, <2>2
  \* The objects of changes in progress had a value when they began.
  <1>2. ASSUME NEW i \in 1..writing, stack[i].kind = "change", stack[i].phase = "PRE"
        PROVE  Current[stack[i].obj] \in Values /\ stack[i].obj \in Objects /\ Current[stack[i].obj] = stack[i].old
    <2>1. /\ PendingChange(stack[i]) /\ stack[i].index \in Nat /\ stack[i].index <= Len(commits)
          /\ stack[i] \in Frame
      BY WriteFrames DEF PendingRight, IInv, IndexShape
    <2>2. stack[i] \in ChangeFrame
      BY <1>2, <2>1, FrameKinds
    <2>3. ViewAt(Len(commits))[stack[i].obj] = stack[i].old /\ stack[i].old \in Values
      BY <1>a, <1>2, <2>1 DEF PendingChange
    <2> QED BY <2>2, <2>3, Views DEF ChangeFrame
  <1>3. ASSUME CommitSilently
        PROVE  StoresRight'
    <2>1. PICK o \in Objects, v \in Values :
            /\ Committing([type |-> "silent", stores |-> [LastStores EXCEPT ![o] = v]])
            /\ stack'[writing] = stack[writing]
            /\ Current[o] = v \/ (Current[o] = NoStore /\ o \in Ordinary)
      BY <1>3 DEF CommitSilently
    <2> DEFINE c == [type |-> "silent", stores |-> [LastStores EXCEPT ![o] = v]]
    <2>2. /\ c.type = "silent" /\ c.stores = [LastStores EXCEPT ![o] = v] /\ Committing(c)
      BY <2>1
    <2> HIDE DEF c
    <2>3. /\ Knows(LastStores) \subseteq Knows(c.stores)
          /\ Merge(storage, c.stores) = [Current EXCEPT ![o] = v]
      BY <1>a, <2>2, Merged
    <2>4. NewValueStored(c) /\ Follows(c, LastStores, storage) /\ c.type # "change"
      BY <2>2 DEF NewValueStored, Follows
    <2>5. ASSUME NEW i \in 1..writing, stack[i].kind = "change", stack[i].phase = "PRE"
          PROVE  Merge(storage, c.stores)[stack[i].obj] = Current[stack[i].obj]
      <3>1. Current[stack[i].obj] \in Values /\ stack[i].obj \in Objects
        BY <1>2, <2>5
      <3>2. CASE stack[i].obj = o
        BY <1>a, <2>1, <2>3, <3>1, <3>2, NullsAssumption DEF Contents
      <3>3. CASE stack[i].obj # o
        BY <1>a, <2>3, <3>1, <3>3 DEF Contents
      <3> QED BY <3>2, <3>3
    <2>6. SameContext(stack'[writing], stack[writing])
      BY <2>1 DEF SameContext, SameWork, Opened
    <2>7. PendingRight'
      BY <2>2, <2>5, <2>6, PendingAppend
    <2>8. \A p \in Knows(c.stores) : Kept(commits, p)
      BY <1>c, <2>1, <2>2, NullsAssumption
    <2> QED BY <1>1, <2>2, <2>3, <2>4, <2>7, <2>8
  <1>4. ASSUME CommitPending
        PROVE  StoresRight'
    <2>1. PICK f \in ChangeFrame :
            /\ f = stack[writing] /\ f.phase = "PRE"
            /\ Committing([type |-> "change", obj |-> f.obj, old |-> f.old, new |-> f.new,
                           stores |-> [LastStores EXCEPT ![f.obj] = f.new]])
            /\ Ended(stack'[writing], f)
      BY <1>4 DEF CommitPending
    <2> DEFINE c == [type |-> "change", obj |-> f.obj, old |-> f.old, new |-> f.new,
                     stores |-> [LastStores EXCEPT ![f.obj] = f.new]]
    <2>2. /\ c.type = "change" /\ c.obj = f.obj /\ c.old = f.old /\ c.new = f.new
          /\ c.stores = [LastStores EXCEPT ![f.obj] = f.new] /\ Committing(c)
      BY <2>1
    <2> HIDE DEF c
    <2>3. writing \in Nat /\ writing > 0 /\ f.obj \in Objects /\ f.kind = "change"
      BY <2>1, <2>2 DEF Committing, IInv, TypeOK, ChangeFrame
    <2>4. f.new \in Values /\ f.old = Current[f.obj]
      <3>1. PendingChange(f)
        BY <2>1, <2>3 DEF PendingRight
      <3> QED BY <1>2, <2>1, <2>3, <3>1 DEF PendingChange
    <2>5. /\ Knows(LastStores) \subseteq Knows(c.stores)
          /\ Merge(storage, c.stores) = [Current EXCEPT ![f.obj] = f.new]
          /\ c.stores[f.obj] = f.new
      BY <1>a, <2>2, <2>3, <2>4, Merged
    <2>6. NewValueStored(c) /\ Follows(c, LastStores, storage)
      BY <1>a, <2>2, <2>4, <2>5, NullsAssumption DEF NewValueStored, Follows
    <2>7. ASSUME NEW i \in 1..writing, stack[i].kind = "change", stack[i].phase = "PRE", stack'[i].phase = "PRE"
          PROVE  Merge(storage, c.stores)[stack[i].obj] = Current[stack[i].obj]
      <3>1. stack[i].obj \in Objects
        BY <1>2, <2>7
      <3>2. i # writing
        BY <2>1, <2>3, <2>7 DEF Ended, SameWork
      <3>3. stack[i].obj # f.obj
        <4>1. LiveChange(stack[i]) /\ LiveChange(stack[writing])
          BY <2>1, <2>3, <2>7 DEF LiveChange, Live, Phased, LivePhases
        <4>2. i \in DOMAIN stack /\ writing \in DOMAIN stack
          BY <2>3, WriteFrames DEF IInv
        <4> QED BY <2>1, <3>2, <4>1, <4>2 DEF IInv, BusyExact
      <3> QED BY <1>a, <2>5, <3>1, <3>3 DEF Contents
    <2>8. PendingRight'
      BY <2>1, <2>2, <2>7, PendingAppend
    <2>9. \A p \in Knows(c.stores) : Kept(commits, p)
      <3>1. Current[f.obj] # NoStore
        BY <1>2, <2>1, <2>3, NullsAssumption
      <3> QED BY <1>c, <2>2, <2>3, <3>1
    <2> QED BY <1>1, <2>2, <2>3, <2>5, <2>6, <2>8, <2>9
  <1>5. ASSUME CommitBatch
        PROVE  StoresRight'
    <2>1. PICK f \in BatchFrame :
            /\ f = stack[writing] /\ f.phase = "open"
            /\ Committing([type |-> "batch", obj |-> f.obj, phase |-> "POST",
                           batch |-> writing, stores |-> LastStores])
            /\ Ended(stack'[writing], f)
      BY <1>5 DEF CommitBatch
    <2> DEFINE c == [type |-> "batch", obj |-> f.obj, phase |-> "POST",
                     batch |-> writing, stores |-> LastStores]
    <2>2. c.type = "batch" /\ c.stores = LastStores /\ Committing(c)
      BY <2>1
    <2> HIDE DEF c
    <2>3. /\ NewValueStored(c) /\ Follows(c, LastStores, storage) /\ Knows(LastStores) \subseteq Knows(c.stores)
          /\ \A o \in Knows(c.stores) : Kept(commits, o)
          /\ c.type # "change"
      BY <1>b, <2>2 DEF NewValueStored, Follows, Kept
    <2>4. Merge(storage, c.stores) = Current
      BY <1>a, <2>2
    <2>5. PendingRight'
      BY <2>1, <2>2, <2>4, PendingAppend
    <2> QED BY <1>1, <2>2, <2>3, <2>5
  <1> QED BY <1>3, <1>4, <1>5

\* The history is forgotten at once; neither it nor its object has a pending change.
LEMMA HistoryStores ==
    ASSUME IInv, StoresRight, CommitWithHistory
    PROVE  StoresRight'
  <1> USE DEF StoresRight
  <1>1. PICK o \in Ordinary, h \in Histories, v \in Values, w \in Values :
          /\ NotPushed
          /\ writing > 0 /\ UNCHANGED <<writing, stack>>
          /\ commits' = commits \o
               <<[type |-> "silent", stores |-> [LastStores EXCEPT ![h] = w]],
                 [type |-> "silent", stores |-> [LastStores EXCEPT ![o] = v]]>>
          /\ Current[o] = NoStore /\ Unheard(h)
    BY DEF CommitWithHistory
  <1> DEFINE a == [type |-> "silent", stores |-> [LastStores EXCEPT ![h] = w]]
             b == [type |-> "silent", stores |-> [LastStores EXCEPT ![o] = v]]
             n == Len(commits)
             q == Append(commits, a)
  <1>2. /\ a.type = "silent" /\ a.stores = [LastStores EXCEPT ![h] = w]
        /\ b.type = "silent" /\ b.stores = [LastStores EXCEPT ![o] = v]
        /\ commits' = commits \o <<a, b>>
    BY <1>1
  <1>3. o \in Objects /\ h \in Objects /\ h # o /\ v # NoStore /\ w # NoStore
    BY HistoriesAssumption, NullsAssumption DEF Ordinary
  <1>4. /\ LastStores \in Contents /\ storage \in Contents /\ Current \in Contents
        /\ Current = Merge(storage, LastStores) /\ LastStores = StoresAt(commits, n)
        /\ commits \in Seq(Commit) /\ n \in Nat /\ DOMAIN commits = 1..n
        /\ InOrder(commits, storage)
    BY Views, Stores DEF ViewAt, IInv, TypeOK, CommitsRight
  <1>5. a \in Commit /\ b \in Commit
    <2>1. [LastStores EXCEPT ![h] = w] \in Contents /\ [LastStores EXCEPT ![o] = v] \in Contents
      BY <1>3, <1>4, Merged
    <2> QED BY <2>1 DEF Commit, SilentCommit
  <1>6. storage[h] = NoStore /\ \A i \in 1..n : commits[i].stores[h] = NoStore
    BY <1>1, <1>4 DEF Unheard
  <1>7. LastStores[h] = NoStore /\ Current[h] = NoStore
    <2>1. LastStores[h] = NoStore
      BY <1>3, <1>4, <1>6 DEF StoresAt, NoStores
    <2> QED BY <1>3, <1>4, <1>6, <2>1, Merged
  <1> HIDE DEF a, b, n
  <1>8. commits' = Append(q, b) /\ q \in Seq(Commit) /\ UNCHANGED <<storage, pushing>>
    <2>1. commits \o <<a, b>> = Append(Append(commits, a), b)
      BY <1>4, <1>5, AppendedTwice
    <2>2. UNCHANGED <<storage, pushing>>
      BY <1>1 DEF NotPushed
    <2> QED BY <1>2, <1>4, <1>5, <2>1, <2>2
  <1>9. /\ Len(q) = n + 1 /\ DOMAIN q = 1..(n + 1)
        /\ \A i \in 1..n : q[i] = commits[i]
        /\ q[n + 1] = a
    BY <1>4, Appended DEF n
  <1>10. /\ Knows(a.stores) = Knows(LastStores) \cup {h}
         /\ Knows(b.stores) = Knows(LastStores) \cup {o}
    BY <1>2, <1>3, <1>4 DEF Knows, Contents
  <1>11. Kept(commits, h)
    BY <1>4, <1>6 DEF Kept, Knows
  <1>12. Kept(commits, o)
    BY <1>3, <1>4, WhatIsKept
  <1>13. InOrder(q, storage)
    <2>1. NewValueStored(a) /\ Follows(a, StoresAt(commits, Len(commits)), storage) /\ a.type # "change"
      BY <1>2 DEF NewValueStored, Follows
    <2>2. \A p \in Knows(a.stores) : Kept(commits, p)
      BY <1>4, <1>10, <1>11 DEF Kept, n
    <2>3. \A p \in Knows(StoresAt(commits, Len(commits))) \ Knows(a.stores) :
            p \in Lost(commits) /\ storage[p] = NoStore /\ a.type # "change"
      BY <1>4, <1>10 DEF n
    <2> QED BY <1>4, <2>1, <2>2, <2>3, AppendInOrder
  <1> HIDE DEF q
  <1>14. StoresAt(q, Len(q)) = a.stores
    BY <1>4, <1>9 DEF StoresAt
  <1>15. h \in Lost(q)
    <2>1. \A k \in 1..n : commits[k].type = "change" => commits[k].obj # h
      <3>1. \A k \in 1..n : NewValueStored(commits[k])
        BY <1>4 DEF InOrder
      <3> QED BY <1>6, <3>1 DEF NewValueStored
    <2>2. \A k \in 1..(n + 1) : q[k].type = "change" => q[k].obj # h
      <3> TAKE k \in 1..(n + 1)
      <3>1. CASE k \in 1..n
        BY <1>9, <2>1, <3>1
      <3>2. CASE k = n + 1
        BY <1>2, <1>9, <3>2
      <3> QED BY <1>4, <3>1, <3>2
    <2> QED BY <1>9, <2>2 DEF Lost
  <1>16. ASSUME NEW p \in Knows(b.stores)
         PROVE  Kept(q, p)
    <2>1. p # h /\ (p \in Knows(LastStores) \/ p = o)
      BY <1>3, <1>7, <1>10 DEF Knows
    <2>2. Kept(commits, p)
      BY <1>4, <1>12, <2>1 DEF Kept
    <2>3. ASSUME NEW i \in 1..(n + 1), p \in Knows(q[i].stores)
          PROVE  p \in Knows(a.stores)
      <3>1. CASE i \in 1..n
        BY <1>4, <1>9, <1>10, <2>2, <2>3, <3>1 DEF Kept, n
      <3>2. CASE i = n + 1
        BY <1>9, <2>3, <3>2
      <3> QED BY <1>4, <3>1, <3>2
    <2> QED BY <1>9, <1>14, <2>3 DEF Kept
  <1>17. CommitsRight'
    <2>1. NewValueStored(b) /\ Follows(b, StoresAt(q, Len(q)), storage) /\ b.type # "change"
      BY <1>2 DEF NewValueStored, Follows
    <2>2. \A p \in Knows(StoresAt(q, Len(q))) \ Knows(b.stores) :
            p \in Lost(q) /\ storage[p] = NoStore /\ b.type # "change"
      BY <1>6, <1>10, <1>14, <1>15, <2>1
    <2>3. InOrder(Append(q, b), storage)
      BY <1>8, <1>13, <1>16, <2>1, <2>2, AppendInOrder
    <2> QED BY <1>8, <2>3 DEF CommitsRight
  <1>18. ASSUME NEW i \in 1..writing
         PROVE  PendingChange(stack[i])'
    <2>1. PendingChange(stack[i]) /\ stack'[i] = stack[i]
      BY <1>1 DEF PendingRight
    <2>2. stack[i].index \in 0..n /\ stack[i] \in Frame
      BY <1>4, WriteFrames DEF IInv, IndexShape, n
    <2>3. ASSUME stack[i].kind = "change", stack[i].phase = "PRE", NEW m \in (stack[i].index)..(n + 2)
          PROVE  ViewAt(m)'[stack[i].obj] = stack[i].old
      <3> DEFINE p == stack[i].obj
      <3>1. /\ \A k \in (stack[i].index)..n : ViewAt(k)[p] = stack[i].old
            /\ stack[i].old # NoStore
        BY <1>4, <2>1, <2>3, NullsAssumption DEF PendingChange, n
      <3>2. p \in Objects
        BY <2>2, <2>3, FrameKinds DEF ChangeFrame
      <3>3. Current[p] = stack[i].old
        BY <1>4, <2>2, <3>1, Views DEF n
      <3>4. p # h /\ p # o
        BY <1>1, <1>7, <3>1, <3>3
      <3> HIDE DEF p
      <3>5. /\ \A k \in 1..n : commits'[k] = commits[k]
            /\ commits'[n + 1] = a /\ commits'[n + 2] = b
        BY <1>2, <1>4, <1>5, AppendedTwice DEF n
      <3>6. CASE m \in 0..n
        <4>1. StoresAt(commits', m) = StoresAt(commits, m)
          BY <3>5, <3>6 DEF StoresAt
        <4>2. ViewAt(m)' = ViewAt(m)
          BY <1>8, <4>1 DEF ViewAt
        <4> QED BY <1>4, <2>2, <3>1, <3>6, <4>2 DEF p
      <3>7. ASSUME NEW c, NEW x \in Objects, NEW y \in Values, x # p,
                   c.stores = [LastStores EXCEPT ![x] = y],
                   ViewAt(m)' = Merge(storage, c.stores)
            PROVE  ViewAt(m)'[p] = stack[i].old
        <4>1. Merge(storage, c.stores) = [Current EXCEPT ![x] = y]
          BY <1>4, <3>7, Merged
        <4> QED BY <1>4, <3>2, <3>3, <3>7, <4>1 DEF Contents
      <3>8. CASE m = n + 1
        <4>1. StoresAt(commits', m) = a.stores
          BY <1>4, <3>5, <3>8 DEF StoresAt
        <4>2. ViewAt(m)' = Merge(storage, a.stores)
          BY <1>8, <4>1 DEF ViewAt
        <4>3. a.stores = [LastStores EXCEPT ![h] = w]
          BY <1>2
        <4> QED BY <1>3, <3>4, <3>7, <4>2, <4>3 DEF p
      <3>9. CASE m = n + 2
        <4>1. StoresAt(commits', m) = b.stores
          BY <1>4, <3>5, <3>9 DEF StoresAt
        <4>2. ViewAt(m)' = Merge(storage, b.stores)
          BY <1>8, <4>1 DEF ViewAt
        <4>3. b.stores = [LastStores EXCEPT ![o] = v]
          BY <1>2
        <4> QED BY <1>3, <3>4, <3>7, <4>2, <4>3 DEF p
      <3> QED BY <1>4, <2>2, <3>6, <3>8, <3>9
    <2>4. Len(commits') = n + 2
      BY <1>2, <1>4, <1>5, AppendedTwice DEF n
    <2>5. SameWork(stack'[i], stack[i])
      BY <2>1 DEF SameWork
    <2> QED BY <2>1, <2>3, <2>4, <2>5, PendingKept
  <1>19. PendingRight'
    BY <1>1, <1>18 DEF PendingRight
  <1> QED BY <1>8, <1>17, <1>19, SameQueue

LEMMA LeavingStores ==
    ASSUME IInv, StoresRight, Leaving \/ RejectChange \/ Discard
    PROVE  StoresRight'
  <1>1. /\ UNCHANGED <<storage, pushing>> /\ writing > 0 /\ Below(writing - 1) /\ writing \in Nat
        /\ commits \in Seq(Commit) /\ Len(commits) \in Nat
    BY DEF Leaving, RejectChange, Discard, Reverting, NotPushed, IInv, TypeOK
  <1>2. \/ writing' = writing - 1
        \/ UNCHANGED writing /\ Ended(stack'[writing], stack[writing])
    BY DEF Leaving, RejectChange, Discard
  <1>3. \E m \in 0..Len(commits) : commits' = SubSeq(commits, 1, m)
    <2>1. CASE Leaving
      <3>1. SubSeq(commits, 1, Len(commits)) = commits
        BY <1>1, SubSeqFull
      <3>2. commits' = SubSeq(commits, 1, Len(commits)) /\ Len(commits) \in 0..Len(commits)
        BY <1>1, <2>1, <3>1 DEF Leaving
      <3> QED BY <3>2
    <2>2. CASE RejectChange \/ Discard
      <3>1. stack[writing].index \in 0..Len(commits)
        BY <1>1, WriteFrames DEF IInv, IndexShape
      <3> QED BY <2>2, <3>1 DEF RejectChange, Discard, Reverting
    <2> QED BY <2>1, <2>2
  <1>4. PICK m \in 0..Len(commits) : commits' = SubSeq(commits, 1, m)
    BY <1>3
  <1>5. CommitsRight'
    BY <1>1, <1>4, PrefixRight DEF StoresRight
  <1>6. PendingRight'
    BY <1>1, <1>2, <1>4, PendingBelow DEF StoresRight
  <1> QED BY <1>1, <1>5, <1>6, SameQueue DEF StoresRight

LEMMA PushingStores ==
    ASSUME IInv, StoresRight, HandOver \/ Merging \/ Told \/ Finishing
    PROVE  StoresRight'
  <1> USE DEF StoresRight
  \* No commit is left, and the change of the topmost context is over.
  <1>1. ASSUME commits' = <<>>
        PROVE  CommitsRight'
    <2>1. DOMAIN commits' = {}
      BY <1>1
    <2> QED BY <2>1 DEF CommitsRight, InOrder, Grows, ForgetsForGood
  <1>2. ASSUME writing = 1, UNCHANGED writing, stack'[1] = stack[1], ~ Live(stack[1])
        PROVE  PendingRight'
    <2>1. PendingChange(stack[1])
      BY <1>2 DEF PendingRight
    <2>2. stack[1].kind = "change" => stack[1].phase # "PRE"
      BY <1>2 DEF Live, Phased, LivePhases
    <2>3. PendingChange(stack[1])'
      BY <1>2, <2>1, <2>2 DEF PendingChange
    <2> QED BY <1>2, <2>3 DEF PendingRight
  <1>3. InPush => writing = 1 /\ commits = <<>> /\ ~ Live(stack[1])
    BY DEF InPush, IInv, PushShape
  <1>4. ASSUME HandOver
        PROVE  StoresRight'
    <2> DEFINE q == commits
    <2>1. /\ UNCHANGED <<storage, writing>> /\ writing = 1 /\ stack'[1] = stack[1] /\ ~ Live(stack[1])
          /\ pushing'.queue = q /\ pushing'.phase = "PRE" /\ commits' = <<>>
      BY <1>4 DEF HandOver, Below
    <2>2. q \in Seq(Commit) /\ storage \in Contents /\ Len(q) \in Nat /\ DOMAIN q = 1..Len(q)
      BY DEF IInv, TypeOK
    <2>3. Grows(q) /\ \A i \in DOMAIN q : NewValueStored(q[i])
      BY DEF CommitsRight, InOrder
    <2>4. \A i \in DOMAIN q : Follows(q[i], StoresAt(q, i - 1), storage)
      BY DEF CommitsRight, InOrder
    <2> HIDE DEF q
    <2>5. \A i \in DOMAIN q : i > 1 => Follows(q[i], q[i - 1].stores, storage)
      BY <2>2, <2>4 DEF StoresAt
    <2>6. ASSUME q # <<>>
          PROVE  /\ q[1].type = "batch" => Merge(storage, q[1].stores) = storage
                 /\ q[1].type = "change" => q[1].old = storage[q[1].obj]
      <3>1. 1 \in DOMAIN q
        BY <2>2, <2>6, EmptySeq
      <3>2. Follows(q[1], NoStores, storage)
        BY <2>4, <3>1 DEF StoresAt
      <3>3. Merge(storage, NoStores) = storage
        BY <2>2, Merged
      <3> QED BY <3>2, <3>3 DEF Follows
    <2>7. QueueRight'
      BY <2>1, <2>3, <2>5, <2>6 DEF QueueRight
    <2> QED BY <1>1, <1>2, <2>1, <2>7
  <1>5. ASSUME Merging
        PROVE  StoresRight'
    <2>1. /\ InPush /\ UNCHANGED <<stack, commits, writing>> /\ pushing.queue # <<>>
          /\ pushing.queue[1].type # "batch" /\ pushing.phase = "PRE"
          /\ storage' = Merge(storage, pushing.queue[1].stores)
      BY <1>5 DEF Merging, InsidePush
    <2>2. CommitsRight' /\ PendingRight'
      BY <1>1, <1>2, <1>3, <2>1
    <2>3. CASE pushing.queue[1].type # "change"
      <3>1. pushing' = NextCommit
        BY <1>5, <2>3 DEF Merging
      <3> QED BY <2>1, <2>2, <3>1, NextRight
    <2>4. CASE pushing.queue[1].type = "change"
      <3> DEFINE q == pushing.queue
      <3>1. pushing'.queue = q /\ pushing'.phase = "POST"
        BY <1>5, <2>4 DEF Merging
      <3>2. q \in Seq(Commit) /\ storage \in Contents /\ q # <<>>
        BY <2>1 DEF IInv, TypeOK
      <3>3. /\ Len(q) \in Nat /\ DOMAIN q = 1..Len(q) /\ 1 \in DOMAIN q
        BY <3>2, EmptySeq
      <3>4. \A i \in DOMAIN q : q[i].stores \in Contents /\ (q[i].type = "change" => q[i].obj \in Objects)
        BY <3>2 DEF Commit, ChangeCommit, SilentCommit, BatchCommit
      <3>5. /\ Grows(q) /\ \A i \in DOMAIN q : NewValueStored(q[i])
            /\ \A i \in DOMAIN q : i > 1 => Follows(q[i], q[i - 1].stores, storage)
        BY DEF QueueRight
      <3>6. storage' = Merge(storage, q[1].stores) /\ q[1].type = "change"
        BY <2>1, <2>4
      <3> HIDE DEF q
      <3>7. \A i, k \in DOMAIN q : q[k].type = "change" =>
              Merge(storage', q[i].stores)[q[k].obj] = Merge(storage, q[i].stores)[q[k].obj]
        <4>1. \A i \in DOMAIN q : Knows(q[1].stores) \subseteq Knows(q[i].stores) \cup Lost(q)
          BY <3>3, <3>5 DEF Grows
        <4>2. \A k \in DOMAIN q : q[k].type = "change" => q[k].obj \notin Lost(q)
          BY DEF Lost
        <4> QED BY <3>2, <3>3, <3>4, <3>6, <4>1, <4>2, Merged
      <3>8. \A i \in DOMAIN q : i > 1 => Follows(q[i], q[i - 1].stores, storage')
        <4> SUFFICES ASSUME NEW i \in DOMAIN q, i > 1
                     PROVE  Follows(q[i], q[i - 1].stores, storage')
          OBVIOUS
        <4>1. i - 1 \in DOMAIN q
          BY <3>3
        <4>2. Follows(q[i], q[i - 1].stores, storage)
          BY <3>5
        <4> QED BY <3>7, <4>1, <4>2 DEF Follows
      <3>9. Merge(storage', q[1].stores) = storage'
        BY <3>2, <3>3, <3>4, <3>6, Merged
      <3>10. QueueRight'
        BY <3>1, <3>5, <3>6, <3>8, <3>9 DEF QueueRight
      <3> QED BY <2>2, <3>10
    <2> QED BY <2>3, <2>4
  <1>6. ASSUME Told
        PROVE  StoresRight'
    <2>1. /\ InPush /\ UNCHANGED <<stack, commits, writing, storage>> /\ pushing.queue # <<>>
          /\ pushing.queue[1].type = "batch" \/ pushing.phase = "POST"
          /\ pushing' = NextCommit
      BY <1>6 DEF Told, InsidePush
    <2>2. CommitsRight' /\ PendingRight'
      BY <1>1, <1>2, <1>3, <2>1
    <2>3. storage = Merge(storage, pushing.queue[1].stores)
      BY <2>1 DEF QueueRight, IInv, TypeOK
    <2> QED BY <2>1, <2>2, <2>3, NextRight
  <1>7. ASSUME Finishing
        PROVE  StoresRight'
    <2>1. pushing'.queue = <<>> /\ writing' = 0 /\ UNCHANGED <<commits, storage>> /\ commits = <<>>
      BY <1>3, <1>7 DEF Finishing, NotPushing
    <2>2. DOMAIN pushing'.queue = {}
      BY <2>1
    <2>3. QueueRight'
      BY <2>1, <2>2 DEF QueueRight, Grows
    <2>4. PendingRight'
      BY <2>1 DEF PendingRight
    <2> QED BY <1>1, <2>1, <2>3, <2>4
  <1> QED BY <1>4, <1>5, <1>6, <1>7

LEMMA StillStores ==
    ASSUME IInv, StoresRight, Still
    PROVE  StoresRight'
  <1>1. UNCHANGED <<storage, commits, writing, pushing>>
    BY DEF Still
  <1>2. CommitsRight' /\ QueueRight'
    BY <1>1, SameQueue DEF StoresRight, CommitsRight, InOrder, ForgetsForGood
  <1>3. ASSUME NEW i \in 1..writing
        PROVE  PendingChange(stack[i])'
    <2>1. SameContext(stack'[i], stack[i]) /\ PendingChange(stack[i])
      BY DEF Still, StoresRight, PendingRight
    <2>2. \A n \in (stack[i].index)..Len(commits) : ViewAt(n)' = ViewAt(n)
      BY <1>1 DEF ViewAt
    <2>3. stack[i].kind = "change" /\ stack'[i].phase = "PRE" =>
            /\ stack[i].phase = "PRE"
            /\ \A n \in (stack[i].index)..Len(commits') : ViewAt(n)'[stack[i].obj] = stack[i].old
      BY <1>1, <2>1, <2>2 DEF PendingChange, SameContext
    <2> QED BY <2>1, <2>3, PendingKept DEF SameContext
  <1> QED BY <1>1, <1>2, <1>3 DEF StoresRight, PendingRight

LEMMA StoresStep ==
    ASSUME IInv, StoresRight, [Next]_vars
    PROVE  StoresRight'
  BY StepKinds, StillStores, OpeningStores, CommittingStores, HistoryStores, LeavingStores, PushingStores DEF Kinds

LEMMA InitStores == Init => StoresRight
  <1> SUFFICES ASSUME Init PROVE StoresRight
    OBVIOUS
  <1>1. commits = <<>> /\ pushing.queue = <<>> /\ writing = 0
    BY DEF Init, NotPushing
  <1>2. DOMAIN commits = {} /\ DOMAIN pushing.queue = {}
    BY <1>1
  <1> QED BY <1>1, <1>2 DEF StoresRight, CommitsRight, InOrder, QueueRight, PendingRight, Grows, ForgetsForGood

\* Each commit starts from the stores of the one before it, also while histories are
\* constructed inside of transactions (_applications.py:1230): no store is lost from one
\* commit to a later one but that of a history that no commit changes, which then is in none
\* of the later ones and nowhere in the storage.  What a change calls old was there
\* before it, and nothing has changed an object since a change of it began.
THEOREM AlwaysStoresRight == Spec => []StoresRight
  <1>1. IInv /\ StoresRight /\ [Next]_vars => StoresRight'
    BY StoresStep
  <1> QED BY Invariance, InitStores, <1>1, PTL DEF Spec

\* The observers of a change find, before and after it, the value it says.
THEOREM ObserversAlwaysSeeChange == Spec => []ObserversSeeChange
  <1>1. ASSUME IInv, StoresRight, Notifying, IsChange(pushing.queue[1])
        PROVE  Current[pushing.queue[1].obj] = IF pushing.phase = "PRE" THEN pushing.queue[1].old ELSE pushing.queue[1].new
    <2> DEFINE c == pushing.queue[1]
    <2>1. InPush /\ pushing.queue # <<>> /\ c.type = "change"
      <3>1. Len(stack) \in DOMAIN stack
        BY <1>1, TopFrame DEF Notifying, Pushing, IInv
      <3> QED BY <1>1, <3>1 DEF Notifying, Pushing, InPush, Top, IsChange
    <2>2. commits = <<>>
      BY <1>1, <2>1 DEF IInv, PushShape, InPush
    <2>3. Current = storage /\ storage \in Contents
      <3>1. Len(commits) = 0
        BY <2>2
      <3> QED BY <1>1, <3>1, Views DEF IInv, TypeOK
    <2>4. c.obj \in Objects /\ c.stores \in Contents /\ 1 \in DOMAIN pushing.queue
      <3>1. pushing.queue \in Seq(Commit)
        BY <1>1 DEF IInv, TypeOK
      <3>2. 1 \in DOMAIN pushing.queue
        BY <2>1, <3>1, EmptySeq
      <3>3. c \in Commit
        BY <3>1, <3>2
      <3> QED BY <2>1, <3>2, <3>3 DEF Commit, ChangeCommit, SilentCommit, BatchCommit
    <2>5. CASE pushing.phase = "PRE"
      BY <1>1, <2>1, <2>3, <2>5 DEF StoresRight, QueueRight
    <2>6. CASE pushing.phase # "PRE"
      <3>1. Merge(storage, c.stores) = storage /\ c.stores[c.obj] = c.new /\ c.new # NoStore
        BY <1>1, <2>1, <2>4, <2>6 DEF StoresRight, QueueRight, NewValueStored
      <3> QED BY <2>3, <2>4, <2>6, <3>1, Merged
    <2> QED BY <2>5, <2>6
  <1>2. IInv /\ StoresRight => ObserversSeeChange
    BY <1>1 DEF ObserversSeeChange
  <1> QED BY Invariance, AlwaysStoresRight, <1>2, PTL

-----------------------------------------------------------------------------
(* Application implements Transactions.                                    *)

Visible    == [Ordinary -> Stored]
Savepoints == [i \in 1..writing |-> Projected(ViewAt(stack[i].index))]

LEMMA Projections ==
    /\ \A a \in Contents : Projected(a) \in Visible
    /\ \A a \in Contents, o \in Ordinary, v \in Values :
         Projected([a EXCEPT ![o] = v]) = [Projected(a) EXCEPT ![o] = v]
    /\ \A a \in Contents, h \in Histories, v \in Values :
         Projected([a EXCEPT ![h] = v]) = Projected(a)
  <1>1. Ordinary \subseteq Objects /\ \A h \in Histories : h \notin Ordinary
    BY DEF Ordinary
  <1>2. ASSUME NEW a \in Contents
        PROVE  Projected(a) \in Visible
    BY <1>1 DEF Projected, Visible, Contents
  <1>3. ASSUME NEW a \in Contents, NEW o \in Ordinary, NEW v \in Values
        PROVE  Projected([a EXCEPT ![o] = v]) = [Projected(a) EXCEPT ![o] = v]
    BY <1>1 DEF Projected, Contents
  <1>4. ASSUME NEW a \in Contents, NEW h \in Histories, NEW v \in Values
        PROVE  Projected([a EXCEPT ![h] = v]) = Projected(a)
    BY <1>1 DEF Projected, Contents
  <1> QED BY <1>2, <1>3, <1>4

LEMMA FunSeq ==
    ASSUME NEW S, NEW n \in Nat, NEW f \in [1..n -> S]
    PROVE  f \in Seq(S) /\ Len(f) = n /\ (n = 0 => f = <<>>) /\ (n > 0 => f # <<>>)
  <1>1. f \in Seq(S) /\ Len(f) = n
    OBVIOUS
  <1>2. n = 0 => f = <<>>
    BY <1>1, EmptySeq
  <1>3. n > 0 => f # <<>>
    BY <1>1, EmptySeq
  <1> QED BY <1>1, <1>2, <1>3

LEMMA SeqAppend ==
    ASSUME NEW S, NEW q \in Seq(S), NEW e \in S
    PROVE  Append(q, e) = [i \in 1..(Len(q) + 1) |-> IF i <= Len(q) THEN q[i] ELSE e]
  <1> DEFINE f == [i \in 1..(Len(q) + 1) |-> IF i <= Len(q) THEN q[i] ELSE e]
  <1>1. f \in [1..(Len(q) + 1) -> S]
    OBVIOUS
  <1>2. \A i \in 1..(Len(q) + 1) : f[i] = IF i <= Len(q) THEN q[i] ELSE e
    OBVIOUS
  <1> HIDE DEF f
  <1>3. f \in Seq(S) /\ Len(f) = Len(q) + 1
    BY <1>1, FunSeq
  <1>4. Append(q, e) \in Seq(S) /\ Len(Append(q, e)) = Len(f)
    BY <1>3, AppendProperties
  <1>5. \A i \in 1..Len(f) : Append(q, e)[i] = f[i]
    <2> TAKE i \in 1..Len(f)
    <2>1. CASE i \in 1..Len(q)
      BY <1>2, <1>3, <2>1, AppendProperties
    <2>2. CASE i = Len(q) + 1
      BY <1>2, <1>3, <2>2, AppendProperties
    <2> QED BY <1>3, <2>1, <2>2
  <1>6. Append(q, e) = f
    BY <1>3, <1>4, <1>5, SeqEqual
  <1> QED BY <1>6 DEF f

LEMMA SeqPrefix ==
    ASSUME NEW S, NEW q \in Seq(S), NEW n \in 0..Len(q)
    PROVE  SubSeq(q, 1, n) = [i \in 1..n |-> q[i]]
  <1> DEFINE f == [i \in 1..n |-> q[i]]
  <1>1. f \in [1..n -> S] /\ \A i \in 1..n : f[i] = q[i]
    OBVIOUS
  <1> HIDE DEF f
  <1>2. f \in Seq(S) /\ Len(f) = n
    BY <1>1, FunSeq
  <1>3. /\ SubSeq(q, 1, n) \in Seq(S) /\ Len(SubSeq(q, 1, n)) = n
        /\ \A i \in 1..n : SubSeq(q, 1, n)[i] = q[i]
    BY Prefix
  <1>4. SubSeq(q, 1, n) = f
    BY <1>1, <1>2, <1>3, SeqEqual
  <1> QED BY <1>4 DEF f

LEMMA Saves ==
    ASSUME IInv
    PROVE  /\ Savepoints \in Seq(Visible) /\ Len(Savepoints) = writing /\ writing \in Nat
           /\ \A i \in 1..writing : Savepoints[i] = Projected(ViewAt(stack[i].index)) /\ stack[i].index \in 0..Len(commits)
           /\ writing > 0 => Savepoints # <<>>
           /\ writing = 0 => Savepoints = <<>>
  <1>1. writing \in Nat /\ Len(commits) \in Nat
    BY DEF IInv, TypeOK
  <1>2. \A i \in 1..writing : stack[i].index \in 0..Len(commits)
    BY <1>1, WriteFrames DEF IInv, IndexShape
  <1>3. Savepoints \in [1..writing -> Visible]
    BY <1>2, Views, Projections DEF Savepoints
  <1>4. \A i \in 1..writing : Savepoints[i] = Projected(ViewAt(stack[i].index))
    BY DEF Savepoints
  <1> HIDE DEF Savepoints
  <1>5. /\ Savepoints \in Seq(Visible) /\ Len(Savepoints) = writing
        /\ writing > 0 => Savepoints # <<>>
        /\ writing = 0 => Savepoints = <<>>
    BY <1>1, <1>3, FunSeq
  <1> QED BY <1>1, <1>2, <1>4, <1>5

\* The contexts that were open before a step and are after it keep their savepoint.
LEMMA SavesKept ==
    ASSUME IInv, NEW n \in Nat, n <= writing, writing' = n,
           \A i \in 1..n : stack'[i].index = stack[i].index,
           \A i \in 1..n : \A k \in {stack[i].index} : ViewAt(k)' = ViewAt(k)
    PROVE  Savepoints' = [i \in 1..n |-> Savepoints[i]]
  <1>1. Savepoints' = [i \in 1..n |-> Projected(ViewAt(stack[i].index)')]
    BY DEF Savepoints, Projected
  <1>2. \A i \in 1..n : Projected(ViewAt(stack[i].index)') = Savepoints[i]
    <2> SUFFICES ASSUME NEW i \in 1..n PROVE Projected(ViewAt(stack[i].index)') = Savepoints[i]
      OBVIOUS
    <2>1. ViewAt(stack[i].index)' = ViewAt(stack[i].index)
      BY DEF ViewAt
    <2>2. i \in 1..writing
      BY DEF IInv, TypeOK
    <2> QED BY <2>1, <2>2 DEF Savepoints
  <1> QED BY <1>1, <1>2

\* The refinement mapping, in and outside of a push.
LEMMA Mapping ==
    ASSUME IInv
    PROVE  /\ ~ InPush => absDb = Projected(storage) /\ absCur = Projected(Current) /\ absSaves = Savepoints
           /\ ~ InPush' => /\ absDb' = Projected(storage') /\ absCur' = Projected(ViewAt(Len(commits))')
                           /\ absSaves' = Savepoints'
           /\ InPush => absDb = Projected(PushedView) /\ absCur = Projected(PushedView) /\ absSaves = <<>>
           /\ InPush' => absDb' = Projected(PushedView') /\ absCur' = Projected(PushedView') /\ absSaves' = <<>>
  BY Views DEF absDb, absCur, absSaves, Savepoints, Projected

LEMMA BeginMaps ==
    ASSUME IInv, NEW f, Opening(f),
           \/ UNCHANGED commits
           \/ \E c : commits' = Append(commits, c) /\ c.stores = LastStores
    PROVE  Abstract!TBegin
  <1> DEFINE n == writing
  <1>1. /\ ~ InPush /\ ~ InPush' /\ UNCHANGED storage /\ n \in Nat /\ writing' = n + 1
        /\ \A i \in 1..n : stack'[i] = stack[i]
        /\ stack'[n + 1] = f /\ f.index = Len(commits) /\ Len(commits) \in Nat
    BY DEF Opening, NotPushed, Below, IInv, TypeOK
  <1>2. /\ \A k \in 0..Len(commits) : ViewAt(k)' = ViewAt(k)
        /\ ViewAt(Len(commits))' = Current
    <2>1. CASE UNCHANGED commits
      BY <1>1, <2>1, Views DEF ViewAt
    <2>2. ASSUME NEW c, commits' = Append(commits, c), c.stores = LastStores
          PROVE  /\ \A k \in 0..Len(commits) : ViewAt(k)' = ViewAt(k)
                 /\ ViewAt(Len(commits))' = Current
      <3>1. /\ Len(commits') = Len(commits) + 1
            /\ \A k \in 0..Len(commits) : ViewAt(k)' = ViewAt(k)
            /\ StoresAt(commits', Len(commits) + 1) = c.stores
        BY <1>1, <2>2, AppendViews
      <3>2. ViewAt(Len(commits))' = Merge(storage, LastStores)
        BY <1>1, <2>2, <3>1 DEF ViewAt
      <3>3. Current = Merge(storage, LastStores)
        BY Views DEF ViewAt
      <3> QED BY <3>1, <3>2, <3>3
    <2> QED BY <2>1, <2>2
  <1>3. /\ Savepoints \in Seq(Visible) /\ Len(Savepoints) = n
        /\ \A i \in 1..n : Savepoints[i] = Projected(ViewAt(stack[i].index)) /\ stack[i].index \in 0..Len(commits)
    BY Saves
  <1>4. Savepoints' = [i \in 1..(n + 1) |-> IF i <= n THEN Savepoints[i] ELSE Projected(Current)]
    <2>1. Savepoints' = [i \in 1..(n + 1) |-> Projected(ViewAt(stack[i].index)')]
      BY <1>1 DEF Savepoints, Projected
    <2>2. \A i \in 1..(n + 1) : Projected(ViewAt(stack[i].index)') = IF i <= n THEN Savepoints[i] ELSE Projected(Current)
      <3> TAKE i \in 1..(n + 1)
      <3>1. CASE i \in 1..n
        <4>1. ViewAt(stack[i].index)' = Merge(storage', StoresAt(commits', stack[i].index))
          BY <1>1, <3>1 DEF ViewAt
        <4>2. \A k \in {stack[i].index} : ViewAt(k)' = ViewAt(k)
          BY <1>2, <1>3, <3>1
        <4>3. Merge(storage', StoresAt(commits', stack[i].index)) = ViewAt(stack[i].index)
          BY <4>2 DEF ViewAt
        <4> QED BY <1>3, <3>1, <4>1, <4>3
      <3>2. CASE i = n + 1
        <4>1. ViewAt(stack[i].index)' = Merge(storage', StoresAt(commits', Len(commits)))
          BY <1>1, <3>2 DEF ViewAt
        <4>2. \A k \in {Len(commits)} : ViewAt(k)' = ViewAt(k)
          BY <1>1, <1>2
        <4>3. Merge(storage', StoresAt(commits', Len(commits))) = ViewAt(Len(commits))
          BY <4>2 DEF ViewAt
        <4> QED BY <1>1, <3>2, <4>1, <4>3, Views
      <3> QED BY <1>1, <3>1, <3>2
    <2> QED BY <2>1, <2>2
  <1>5. Append(Savepoints, Projected(Current)) = [i \in 1..(n + 1) |-> IF i <= n THEN Savepoints[i] ELSE Projected(Current)]
    <2>1. Projected(Current) \in Visible
      BY Stores, Projections DEF IInv
    <2>2. Append(Savepoints, Projected(Current)) = [i \in 1..(Len(Savepoints) + 1) |-> IF i <= Len(Savepoints) THEN Savepoints[i] ELSE Projected(Current)]
      BY <1>3, <2>1, SeqAppend
    <2> QED BY <1>3, <2>2
  <1>6. absSaves' = Append(absSaves, absCur) /\ absDb' = absDb /\ absCur' = absCur
    BY <1>1, <1>2, <1>4, <1>5, Mapping
  <1> QED BY <1>6 DEF Abstract!TBegin

LEMMA CommitMaps ==
    ASSUME IInv, NEW c, Committing(c), stack'[writing].index = stack[writing].index
    PROVE  /\ absSaves # <<>> /\ absSaves' = absSaves /\ absDb' = absDb
           /\ absCur = Projected(Current) /\ absCur' = Projected(Merge(storage, c.stores))
  <1>1. /\ ~ InPush /\ ~ InPush' /\ UNCHANGED <<storage, writing>> /\ writing \in Nat /\ writing > 0
        /\ \A i \in 1..(writing - 1) : stack'[i] = stack[i]
        /\ commits' = Append(commits, c)
    BY DEF Committing, NotPushed, Below, IInv, TypeOK
  <1>2. /\ Len(commits) \in Nat /\ Len(commits') = Len(commits) + 1
        /\ \A k \in 0..Len(commits) : ViewAt(k)' = ViewAt(k)
        /\ StoresAt(commits', Len(commits) + 1) = c.stores
    BY <1>1, AppendViews
  <1>3. ViewAt(Len(commits))' = Merge(storage, c.stores)
    BY <1>1, <1>2 DEF ViewAt
  <1>4. Savepoints' = Savepoints /\ Savepoints # <<>>
    <2>1. /\ \A i \in 1..writing : stack'[i].index = stack[i].index
          /\ \A i \in 1..writing : stack[i].index \in 0..Len(commits)
          /\ Savepoints # <<>>
      BY <1>1, Saves
    <2>2. \A i \in 1..writing : \A k \in {stack[i].index} : ViewAt(k)' = ViewAt(k)
      BY <1>2, <2>1
    <2>3. Savepoints' = [i \in 1..writing |-> Savepoints[i]]
      BY <1>1, <2>1, <2>2, SavesKept
    <2> QED BY <2>1, <2>3 DEF Savepoints
  <1> QED BY <1>1, <1>3, <1>4, Mapping

LEMMA WorkMaps ==
    ASSUME IInv, StoresRight, CommitSilently \/ CommitPending \/ CommitBatch
    PROVE  [Abstract!TNext]_(Abstract!tvars)
  <1>a. /\ LastStores \in Contents /\ storage \in Contents /\ Current = Merge(storage, LastStores)
        /\ Current \in Contents
    BY Views, Stores DEF ViewAt, IInv, TypeOK
  \* The transaction is only about the ordinary objects.
  <1>b. ASSUME NEW o \in Objects, NEW v \in Values, absSaves # <<>>, absSaves' = absSaves, absDb' = absDb,
               absCur = Projected(Current), absCur' = Projected([Current EXCEPT ![o] = v])
        PROVE  [Abstract!TNext]_(Abstract!tvars)
    <2>1. CASE o \in Ordinary
      <3>1. absCur' = [absCur EXCEPT ![o] = v]
        BY <1>a, <1>b, <2>1, Projections
      <3>2. Abstract!TUpdate(o, v)
        BY <1>b, <3>1 DEF Abstract!TUpdate
      <3> QED BY <2>1, <3>2 DEF Abstract!TNext
    <2>2. CASE o \in Histories
      <3>1. absCur' = absCur
        BY <1>a, <1>b, <2>2, Projections
      <3> QED BY <1>b, <3>1 DEF Abstract!tvars
    <2> QED BY <2>1, <2>2 DEF Ordinary
  <1>1. ASSUME CommitSilently
        PROVE  [Abstract!TNext]_(Abstract!tvars)
    <2>1. PICK o \in Objects, v \in Values :
            /\ Committing([type |-> "silent", stores |-> [LastStores EXCEPT ![o] = v]])
            /\ stack'[writing] = stack[writing]
      BY <1>1 DEF CommitSilently
    <2> DEFINE c == [type |-> "silent", stores |-> [LastStores EXCEPT ![o] = v]]
    <2>2. c.stores = [LastStores EXCEPT ![o] = v] /\ Committing(c) /\ stack'[writing].index = stack[writing].index
      BY <2>1
    <2> HIDE DEF c
    <2>3. Merge(storage, c.stores) = [Current EXCEPT ![o] = v]
      BY <1>a, <2>2, Merged
    <2>4. /\ absSaves # <<>> /\ absSaves' = absSaves /\ absDb' = absDb
          /\ absCur = Projected(Current) /\ absCur' = Projected([Current EXCEPT ![o] = v])
      BY <2>2, <2>3, CommitMaps
    <2> QED BY <1>b, <2>4
  <1>2. ASSUME CommitPending
        PROVE  [Abstract!TNext]_(Abstract!tvars)
    <2>1. PICK f \in ChangeFrame :
            /\ f = stack[writing]
            /\ Committing([type |-> "change", obj |-> f.obj, old |-> f.old, new |-> f.new,
                           stores |-> [LastStores EXCEPT ![f.obj] = f.new]])
            /\ Ended(stack'[writing], f)
      BY <1>2 DEF CommitPending
    <2> DEFINE c == [type |-> "change", obj |-> f.obj, old |-> f.old, new |-> f.new,
                     stores |-> [LastStores EXCEPT ![f.obj] = f.new]]
    <2>2. /\ c.stores = [LastStores EXCEPT ![f.obj] = f.new] /\ Committing(c)
          /\ stack'[writing].index = stack[writing].index
      BY <2>1 DEF Ended, SameWork
    <2> HIDE DEF c
    <2>3. f.obj \in Objects /\ f.new \in Values
      <3>1. PendingChange(f)
        BY <2>1, <2>2 DEF StoresRight, PendingRight, Committing, IInv, TypeOK
      <3> QED BY <3>1 DEF PendingChange, ChangeFrame
    <2>4. Merge(storage, c.stores) = [Current EXCEPT ![f.obj] = f.new]
      BY <1>a, <2>2, <2>3, Merged
    <2>5. /\ absSaves # <<>> /\ absSaves' = absSaves /\ absDb' = absDb
          /\ absCur = Projected(Current) /\ absCur' = Projected([Current EXCEPT ![f.obj] = f.new])
      BY <2>2, <2>4, CommitMaps
    <2> QED BY <1>b, <2>3, <2>5
  <1>3. ASSUME CommitBatch
        PROVE  UNCHANGED Abstract!tvars
    <2>1. PICK f \in BatchFrame :
            /\ f = stack[writing]
            /\ Committing([type |-> "batch", obj |-> f.obj, phase |-> "POST",
                           batch |-> writing, stores |-> LastStores])
            /\ Ended(stack'[writing], f)
      BY <1>3 DEF CommitBatch
    <2> DEFINE c == [type |-> "batch", obj |-> f.obj, phase |-> "POST",
                     batch |-> writing, stores |-> LastStores]
    <2>2. c.stores = LastStores /\ Committing(c) /\ stack'[writing].index = stack[writing].index
      BY <2>1 DEF Ended, SameWork
    <2> HIDE DEF c
    <2>3. absSaves' = absSaves /\ absDb' = absDb /\ absCur' = absCur
      BY <1>a, <2>2, CommitMaps
    <2> QED BY <2>3 DEF Abstract!tvars
  <1> QED BY <1>1, <1>2, <1>3

\* An object made with its history is an object made; the history is not seen.
LEMMA HistoryMaps ==
    ASSUME IInv, CommitWithHistory
    PROVE  Abstract!TNext
  <1>1. PICK o \in Ordinary, h \in Histories, v \in Values, w \in Values :
          /\ NotPushed
          /\ writing > 0 /\ UNCHANGED <<writing, stack>>
          /\ commits' = commits \o
               <<[type |-> "silent", stores |-> [LastStores EXCEPT ![h] = w]],
                 [type |-> "silent", stores |-> [LastStores EXCEPT ![o] = v]]>>
    BY DEF CommitWithHistory
  <1> DEFINE a == [type |-> "silent", stores |-> [LastStores EXCEPT ![h] = w]]
             b == [type |-> "silent", stores |-> [LastStores EXCEPT ![o] = v]]
             n == Len(commits)
  <1>2. commits' = commits \o <<a, b>> /\ b.stores = [LastStores EXCEPT ![o] = v]
    BY <1>1
  <1>3. /\ LastStores \in Contents /\ storage \in Contents /\ Current \in Contents
        /\ Current = Merge(storage, LastStores) /\ commits \in Seq(Commit) /\ writing \in Nat
        /\ o \in Objects /\ h \in Objects
    BY Views, Stores, HistoriesAssumption DEF ViewAt, IInv, TypeOK, Ordinary
  <1>4. a \in Commit /\ b \in Commit
    <2>1. [LastStores EXCEPT ![h] = w] \in Contents /\ [LastStores EXCEPT ![o] = v] \in Contents
      BY <1>3, Merged
    <2> QED BY <2>1 DEF Commit, SilentCommit
  <1> HIDE DEF a, b
  <1>5. /\ n \in Nat /\ Len(commits') = n + 2
        /\ \A k \in 1..n : commits'[k] = commits[k]
        /\ commits'[n + 2] = b
    BY <1>2, <1>3, <1>4, AppendedTwice
  <1>6. /\ ~ InPush /\ ~ InPush' /\ UNCHANGED storage
        /\ writing' = writing /\ stack' = stack
    BY <1>1 DEF NotPushed
  <1>7. \A k \in 0..n : ViewAt(k)' = ViewAt(k)
    <2> TAKE k \in 0..n
    <2>1. StoresAt(commits', k) = StoresAt(commits, k)
      BY <1>5 DEF StoresAt
    <2> QED BY <1>6, <2>1 DEF ViewAt
  <1>8. ViewAt(Len(commits))' = [Current EXCEPT ![o] = v]
    <2>1. StoresAt(commits', n + 2) = b.stores
      BY <1>5 DEF StoresAt
    <2>2. ViewAt(Len(commits))' = Merge(storage, b.stores)
      BY <1>5, <1>6, <2>1 DEF ViewAt
    <2>3. Merge(storage, [LastStores EXCEPT ![o] = v]) = [Current EXCEPT ![o] = v]
      BY <1>3, Merged
    <2> QED BY <1>2, <2>2, <2>3
  <1>9. Savepoints' = Savepoints /\ Savepoints # <<>>
    <2>1. /\ \A i \in 1..writing : stack'[i].index = stack[i].index
          /\ \A i \in 1..writing : stack[i].index \in 0..n
          /\ Savepoints # <<>>
      BY <1>1, <1>6, Saves
    <2>2. \A i \in 1..writing : \A k \in {stack[i].index} : ViewAt(k)' = ViewAt(k)
      BY <1>7, <2>1
    <2>3. Savepoints' = [i \in 1..writing |-> Savepoints[i]]
      BY <1>3, <1>6, <2>1, <2>2, SavesKept
    <2> QED BY <2>1, <2>3 DEF Savepoints
  <1>10. absCur' = [absCur EXCEPT ![o] = v]
    <2>1. absCur = Projected(Current) /\ absCur' = Projected([Current EXCEPT ![o] = v])
      BY <1>6, <1>8, Mapping
    <2> QED BY <1>3, <2>1, Projections
  <1>11. absSaves # <<>> /\ absSaves' = absSaves /\ absDb' = absDb
    BY <1>6, <1>9, Mapping
  <1>12. Abstract!TUpdate(o, v)
    BY <1>10, <1>11 DEF Abstract!TUpdate
  <1> QED BY <1>12 DEF Abstract!TNext

\* Reverting to a savepoint, or leaving the level.
LEMMA LevelMaps ==
    ASSUME IInv, NEW m \in 0..Len(commits), commits' = SubSeq(commits, 1, m), UNCHANGED storage,
           writing > 0, Below(writing - 1), m >= stack[writing].index,
           \/ writing' = writing /\ stack'[writing].index = stack[writing].index
           \/ writing' = writing - 1
    PROVE  /\ writing' = writing => Savepoints' = Savepoints
           /\ writing' = writing - 1 => Savepoints' = SubSeq(Savepoints, 1, writing - 1)
           /\ ViewAt(Len(commits))' = ViewAt(m)
           /\ Savepoints \in Seq(Visible) /\ Savepoints # <<>> /\ Len(Savepoints) = writing
           /\ Savepoints[writing] = Projected(ViewAt(stack[writing].index))
  <1>1. /\ writing \in Nat /\ Len(commits') = m /\ Len(commits) \in Nat
        /\ \A k \in 0..m : ViewAt(k)' = ViewAt(k)
        /\ \A i \in 1..(writing - 1) : stack'[i] = stack[i]
    BY PrefixViews DEF Below, IInv, TypeOK
  <1>2. /\ Savepoints \in Seq(Visible) /\ Savepoints # <<>> /\ Len(Savepoints) = writing
        /\ Savepoints[writing] = Projected(ViewAt(stack[writing].index))
        /\ \A i \in 1..writing : stack[i].index \in 0..Len(commits)
    BY <1>1, Saves
  <1>3. ViewAt(Len(commits))' = ViewAt(m)
    <2>1. ViewAt(Len(commits))' = Merge(storage', StoresAt(commits', m))
      BY <1>1 DEF ViewAt
    <2>2. \A k \in {m} : ViewAt(k)' = ViewAt(k)
      BY <1>1
    <2> QED BY <2>1, <2>2 DEF ViewAt
  <1>4. \A i \in 1..writing : stack[i].index \in 0..m
    <2> TAKE i \in 1..writing
    <2>1. stack[i].index <= stack[writing].index
      BY <1>1 DEF IInv, IndexShape
    <2> QED BY <1>1, <1>2, <2>1
  <1>5. \A i \in 1..writing : \A k \in {stack[i].index} : ViewAt(k)' = ViewAt(k)
    BY <1>1, <1>4
  <1>6. ASSUME writing' = writing
        PROVE  Savepoints' = Savepoints
    <2>1. \A i \in 1..writing : stack'[i].index = stack[i].index
      BY <1>1, <1>6
    <2>2. Savepoints' = [i \in 1..writing |-> Savepoints[i]]
      BY <1>1, <1>5, <1>6, <2>1, SavesKept
    <2> QED BY <2>2 DEF Savepoints
  <1>7. ASSUME writing' = writing - 1
        PROVE  Savepoints' = SubSeq(Savepoints, 1, writing - 1)
    <2> DEFINE n == writing - 1
    <2>1. /\ n \in Nat /\ n <= writing /\ writing' = n /\ n \in 0..Len(Savepoints)
          /\ \A i \in 1..n : stack'[i].index = stack[i].index
          /\ \A i \in 1..n : \A k \in {stack[i].index} : ViewAt(k)' = ViewAt(k)
      BY <1>1, <1>2, <1>5, <1>7
    <2> HIDE DEF n
    <2>2. Savepoints' = [i \in 1..n |-> Savepoints[i]]
      BY <2>1, SavesKept
    <2>3. SubSeq(Savepoints, 1, n) = [i \in 1..n |-> Savepoints[i]]
      BY <1>2, <2>1, SeqPrefix
    <2> QED BY <2>2, <2>3 DEF n
  <1> QED BY <1>2, <1>3, <1>6, <1>7

LEMMA LeaveMaps ==
    ASSUME IInv, Leaving \/ RejectChange \/ Discard
    PROVE  Abstract!TNext
  <1>1. /\ UNCHANGED storage /\ ~ InPush /\ ~ InPush' /\ writing > 0 /\ Below(writing - 1) /\ writing \in Nat
        /\ commits \in Seq(Commit) /\ Len(commits) \in Nat
    BY DEF Leaving, RejectChange, Discard, Reverting, NotPushed, IInv, TypeOK
  <1>2. stack[writing].index \in 0..Len(commits)
    BY <1>1, Saves
  <1>3. ASSUME Leaving
        PROVE  Abstract!TKeep
    <2>1. commits' = SubSeq(commits, 1, Len(commits)) /\ writing' = writing - 1 /\ writing > 1
          /\ Len(commits) \in 0..Len(commits) /\ Len(commits) >= stack[writing].index
      BY <1>1, <1>2, <1>3, SubSeqFull DEF Leaving
    <2>2. /\ Savepoints' = SubSeq(Savepoints, 1, writing - 1)
          /\ ViewAt(Len(commits))' = ViewAt(Len(commits))
          /\ Savepoints # <<>> /\ Len(Savepoints) = writing
      BY <1>1, <2>1, LevelMaps
    <2>3. absSaves = Savepoints /\ absSaves' = Savepoints' /\ absDb' = absDb /\ absCur' = absCur
      BY <1>1, <2>2, Mapping, Views
    <2> QED BY <2>1, <2>2, <2>3 DEF Abstract!TKeep
  <1>4. ASSUME RejectChange \/ Discard
        PROVE  /\ commits' = SubSeq(commits, 1, stack[writing].index)
               /\ stack[writing].index >= stack[writing].index
               /\ \/ writing' = writing /\ stack'[writing].index = stack[writing].index
                  \/ writing' = writing - 1
    BY <1>2, <1>4 DEF RejectChange, Discard, Reverting, Ended, SameWork
  <1>5. ASSUME RejectChange \/ Discard
        PROVE  /\ writing' = writing => Savepoints' = Savepoints
               /\ writing' = writing - 1 => Savepoints' = SubSeq(Savepoints, 1, writing - 1)
               /\ ViewAt(Len(commits))' = ViewAt(stack[writing].index)
               /\ Savepoints # <<>> /\ Len(Savepoints) = writing
               /\ Savepoints[writing] = Projected(ViewAt(stack[writing].index))
    <2>1. PICK m \in 0..Len(commits) : m = stack[writing].index
      BY <1>2
    <2>2. /\ commits' = SubSeq(commits, 1, m) /\ m >= stack[writing].index
          /\ \/ writing' = writing /\ stack'[writing].index = stack[writing].index
             \/ writing' = writing - 1
      BY <1>4, <1>5, <2>1
    <2>3. /\ writing' = writing => Savepoints' = Savepoints
          /\ writing' = writing - 1 => Savepoints' = SubSeq(Savepoints, 1, writing - 1)
          /\ ViewAt(Len(commits))' = ViewAt(m)
          /\ Savepoints # <<>> /\ Len(Savepoints) = writing
          /\ Savepoints[writing] = Projected(ViewAt(stack[writing].index))
      BY <1>1, <2>2, LevelMaps
    <2> QED BY <2>1, <2>3
  <1>6. ASSUME RejectChange \/ Discard
        PROVE  /\ absSaves = Savepoints /\ absSaves' = Savepoints' /\ absDb' = absDb
               /\ absCur' = Savepoints[Len(Savepoints)]
    BY <1>1, <1>5, <1>6, Mapping
  <1>7. ASSUME RejectChange
        PROVE  Abstract!TRollback
    <2>1. writing' = writing
      BY <1>7 DEF RejectChange
    <2> QED BY <1>5, <1>6, <1>7, <2>1 DEF Abstract!TRollback, Abstract!Savepoint
  <1>8. ASSUME Discard
        PROVE  Abstract!TDiscard
    <2>1. writing' = writing - 1
      BY <1>8 DEF Discard
    <2> QED BY <1>5, <1>6, <1>8, <2>1 DEF Abstract!TDiscard, Abstract!Savepoint
  <1> QED BY <1>3, <1>7, <1>8 DEF Abstract!TNext

LEMMA StillMaps ==
    ASSUME IInv, Still
    PROVE  UNCHANGED Abstract!tvars
  <1>1. UNCHANGED <<storage, commits, writing, pushing>> /\ (InPush' <=> InPush) /\ writing \in Nat
    BY DEF Still, IInv, TypeOK
  <1>2. PushedView' = PushedView
    BY <1>1 DEF PushedView
  <1>3. ViewAt(Len(commits))' = ViewAt(Len(commits))
    BY <1>1 DEF ViewAt
  <1>4. Savepoints' = Savepoints
    <2>1. \A i \in 1..writing : stack'[i].index = stack[i].index
      BY DEF Still, SameContext, SameWork
    <2>2. \A i \in 1..writing : \A k \in {stack[i].index} : ViewAt(k)' = ViewAt(k)
      BY <1>1 DEF ViewAt
    <2>3. Savepoints' = [i \in 1..writing |-> Savepoints[i]]
      BY <1>1, <2>1, <2>2, SavesKept
    <2> QED BY <2>3 DEF Savepoints
  <1>5. absSaves' = absSaves /\ absDb' = absDb /\ absCur' = absCur
    <2>1. CASE InPush
      BY <1>1, <1>2, <2>1, Mapping
    <2>2. CASE ~ InPush
      BY <1>1, <1>3, <1>4, <2>2, Mapping, Views
    <2> QED BY <2>1, <2>2
  <1> QED BY <1>5 DEF Abstract!tvars

\* The transaction is committed when its commits are taken away for the push.
LEMMA HandOverMaps ==
    ASSUME IInv, HandOver
    PROVE  Abstract!TKeep
  <1>1. /\ ~ InPush /\ InPush' /\ UNCHANGED storage /\ writing = 1 /\ pushing'.queue = commits
    BY DEF HandOver
  <1>2. PushedView' = Merge(storage, StoresAt(commits, Len(commits)))
    BY <1>1 DEF PushedView
  <1>3. PushedView' = Current
    BY <1>2, Views DEF ViewAt
  <1>4. Savepoints \in Seq(Visible) /\ Savepoints # <<>> /\ Len(Savepoints) = 1
    BY <1>1, Saves
  <1>5. SubSeq(Savepoints, 1, 0) = <<>>
    BY <1>4, Prefix
  <1>6. /\ absSaves = Savepoints /\ absSaves' = <<>>
        /\ absDb' = Projected(PushedView') /\ absCur' = Projected(PushedView')
        /\ absCur = Projected(Current)
    BY <1>1, Mapping
  <1>7. Len(absSaves) = 1 /\ absSaves # <<>> /\ SubSeq(absSaves, 1, Len(absSaves) - 1) = <<>>
    <2>1. 1 - 1 = 0
      OBVIOUS
    <2> QED BY <1>4, <1>5, <1>6, <2>1
  <1> QED BY <1>3, <1>6, <1>7 DEF Abstract!TKeep

\* Pushing the first commit changes nothing of what the queue amounts to.
LEMMA NextView ==
    ASSUME IInv, QueueRight, pushing.queue # <<>>,
           storage' = Merge(storage, pushing.queue[1].stores),
           \/ pushing' = NextCommit
           \/ pushing'.queue = pushing.queue
    PROVE  Projected(PushedView') = Projected(PushedView)
  <1> DEFINE q == pushing.queue
  <1>1. q \in Seq(Commit) /\ storage \in Contents /\ q # <<>>
    BY DEF IInv, TypeOK
  <1>2. /\ Len(q) \in Nat \ {0} /\ DOMAIN q = 1..Len(q)
        /\ Tail(q) \in Seq(Commit) /\ Len(Tail(q)) = Len(q) - 1
        /\ \A i \in 1..(Len(q) - 1) : Tail(q)[i] = q[i + 1]
    BY <1>1
  <1>3. \A i \in 1..Len(q) : q[i].stores \in Contents
    BY <1>1 DEF Commit, ChangeCommit, SilentCommit, BatchCommit
  <1>4. Grows(q)
    BY DEF QueueRight
  <1>5. storage' = Merge(storage, q[1].stores)
    OBVIOUS
  <1>6. pushing'.queue = q \/ pushing'.queue = Tail(q)
    <2>1. NextCommit.queue = Tail(q)
      BY DEF NextCommit
    <2> QED BY <2>1
  <1>7. PushedView = Merge(storage, q[Len(q)].stores)
    BY <1>2 DEF PushedView, StoresAt
  <1>8. PushedView' = Merge(storage', StoresAt(pushing'.queue, Len(pushing'.queue)))
    BY DEF PushedView
  <1> HIDE DEF q
  <1>9. 1 \in DOMAIN q /\ Len(q) \in DOMAIN q /\ 1 <= Len(q)
    BY <1>2
  <1>10. Knows(q[1].stores) \subseteq Knows(q[Len(q)].stores) \cup Histories
    BY <1>4, <1>9 DEF Grows, Lost
  <1>11. Projected(Merge(storage', q[Len(q)].stores)) = Projected(Merge(storage, q[Len(q)].stores))
    <2>1. \A o \in Ordinary : Merge(storage', q[Len(q)].stores)[o] = Merge(storage, q[Len(q)].stores)[o]
      BY <1>1, <1>2, <1>3, <1>5, <1>9, <1>10, Merged DEF Ordinary
    <2> QED BY <2>1 DEF Projected
  <1>12. CASE pushing'.queue = q
    <2>1. StoresAt(q, Len(q)) = q[Len(q)].stores
      BY <1>2 DEF StoresAt
    <2> QED BY <1>7, <1>8, <1>11, <1>12, <2>1
  <1>13. CASE pushing'.queue = Tail(q) /\ Len(q) > 1
    <2>1. Tail(q)[Len(q) - 1] = q[Len(q)]
      BY <1>2, <1>13
    <2>2. StoresAt(Tail(q), Len(Tail(q))) = q[Len(q)].stores
      BY <1>2, <1>13, <2>1 DEF StoresAt
    <2> QED BY <1>7, <1>8, <1>11, <1>13, <2>2
  <1>14. CASE pushing'.queue = Tail(q) /\ Len(q) = 1
    <2>1. StoresAt(Tail(q), Len(Tail(q))) = NoStores
      BY <1>2, <1>14 DEF StoresAt
    <2>2. storage' \in Contents
      BY <1>1, <1>3, <1>5, <1>9, <1>2, Stores DEF IInv
    <2>3. Merge(storage', NoStores) = storage'
      BY <2>2, Merged
    <2> QED BY <1>5, <1>7, <1>8, <1>14, <2>1, <2>3
  <1> QED BY <1>2, <1>6, <1>12, <1>13, <1>14

LEMMA PushMaps ==
    ASSUME IInv, StoresRight, Merging \/ Told \/ Finishing
    PROVE  UNCHANGED Abstract!tvars
  <1>1. ASSUME Merging \/ Told
        PROVE  UNCHANGED Abstract!tvars
    <2>1. InPush /\ InPush' /\ pushing.queue # <<>> /\ QueueRight
      BY <1>1 DEF Merging, Told, InsidePush, StoresRight
    <2>2. pushing' = NextCommit \/ pushing'.queue = pushing.queue
      BY <1>1 DEF Merging, Told
    <2>3. storage' = Merge(storage, pushing.queue[1].stores)
      <3>1. CASE Merging
        BY <3>1 DEF Merging
      <3>2. CASE Told
        BY <2>1, <3>2 DEF Told, QueueRight, IInv, TypeOK
      <3> QED BY <1>1, <3>1, <3>2
    <2>4. Projected(PushedView') = Projected(PushedView)
      BY <2>1, <2>2, <2>3, NextView
    <2>5. absSaves' = absSaves /\ absDb' = absDb /\ absCur' = absCur
      BY <2>1, <2>4, Mapping
    <2> QED BY <2>5 DEF Abstract!tvars
  <1>2. ASSUME Finishing
        PROVE  UNCHANGED Abstract!tvars
    <2>1. /\ InPush /\ ~ InPush' /\ UNCHANGED <<storage, commits>> /\ pushing.queue = <<>> /\ writing' = 0
      BY <1>2 DEF Finishing
    <2>2. commits = <<>> /\ storage \in Contents
      BY <2>1 DEF IInv, PushShape, InPush, TypeOK
    <2>3. Len(commits) = 0 /\ Len(commits') = 0 /\ Len(pushing.queue) = 0
      BY <2>1, <2>2
    <2>4. Merge(storage, NoStores) = storage
      BY <2>2, Merged
    <2>5. PushedView = storage
      BY <2>3, <2>4 DEF PushedView, StoresAt
    <2>6. ViewAt(Len(commits))' = storage
      BY <2>1, <2>3, <2>4 DEF ViewAt, StoresAt
    <2>7. Savepoints' = <<>>
      <3>1. Savepoints' = [i \in 1..0 |-> Projected(ViewAt(stack[i].index)')]
        BY <2>1 DEF Savepoints, Projected
      <3>2. Savepoints' \in [1..0 -> Visible]
        BY <3>1
      <3> QED BY <3>2, FunSeq
    <2>8. absSaves' = absSaves /\ absDb' = absDb /\ absCur' = absCur
      BY <2>1, <2>5, <2>6, <2>7, Mapping
    <2> QED BY <2>8 DEF Abstract!tvars
  <1> QED BY <1>1, <1>2

LEMMA OpeningMaps ==
    ASSUME IInv, OpenWrite \/ OpenChange \/ OpenBatches
    PROVE  Abstract!TNext
  <1>1. CASE OpenWrite \/ OpenChange
    BY <1>1, BeginMaps DEF OpenWrite, OpenChange, Abstract!TNext
  <1>2. CASE OpenBatches
    <2>1. PICK f \in BatchFrame :
            /\ Opening(f)
            /\ commits' = Append(commits, [type |-> "batch", obj |-> f.obj, phase |-> "PRE",
                                           batch |-> writing + 1, stores |-> LastStores])
      BY <1>2 DEF OpenBatches
    <2>2. \E c : commits' = Append(commits, c) /\ c.stores = LastStores
      BY <2>1
    <2> QED BY <2>1, <2>2, BeginMaps DEF Abstract!TNext
  <1> QED BY <1>1, <1>2

LEMMA StepMaps ==
    ASSUME IInv, StoresRight, [Next]_vars
    PROVE  [Abstract!TNext]_(Abstract!tvars)
  <1>1. Kinds
    BY StepKinds
  <1>2. CASE Still
    BY <1>2, StillMaps
  <1>3. CASE OpenWrite \/ OpenChange \/ OpenBatches
    BY <1>3, OpeningMaps
  <1>4. CASE CommitSilently \/ CommitPending \/ CommitBatch
    BY <1>4, WorkMaps
  <1>8. CASE CommitWithHistory
    BY <1>8, HistoryMaps
  <1>5. CASE Leaving \/ RejectChange \/ Discard
    BY <1>5, LeaveMaps
  <1>6. CASE HandOver
    BY <1>6, HandOverMaps DEF Abstract!TNext
  <1>7. CASE Merging \/ Told \/ Finishing
    BY <1>7, PushMaps
  <1> QED BY <1>1, <1>2, <1>3, <1>4, <1>5, <1>6, <1>7, <1>8 DEF Kinds

LEMMA InitMaps == Init => Abstract!TInit
  <1> SUFFICES ASSUME Init PROVE Abstract!TInit
    OBVIOUS
  <1>1. IInv
    BY InitIInv
  <1>2. ~ InPush /\ storage = NoStores /\ writing = 0
    BY DEF Init, InPush
  <1>3. absDb = Projected(storage) /\ absCur = Projected(Current) /\ absSaves = Savepoints
    BY <1>1, <1>2, Mapping
  <1>4. Current = storage
    BY <1>2 DEF Current
  <1>5. Savepoints = <<>>
    BY <1>1, <1>2, Saves
  <1>6. Projected(NoStores) = [o \in Ordinary |-> NoStore]
    BY DEF Projected, NoStores, Ordinary
  <1> QED BY <1>2, <1>3, <1>4, <1>5, <1>6 DEF Abstract!TInit

\* Nested write contexts behave as the savepoints of one transaction, which is
\* committed whole or not at all, for every object but histories: of an object with a
\* history, init_object is a step of the transaction, and of the history that it
\* constructs and forgets it is none.
THEOREM RefinesTransactions == Spec => ImplementsTransactions
  <1>1. IInv /\ StoresRight /\ [Next]_vars => [Abstract!TNext]_(Abstract!tvars)
    BY StepMaps
  <1> QED BY Invariance, AlwaysStoresRight, InitMaps, <1>1, PTL
          DEF Spec, ImplementsTransactions, Abstract!TSpec

-----------------------------------------------------------------------------
(* Batches nest.                                                           *)

ClosedRight == \A j \in Batches(commits, "POST") : \E i \in Batches(commits, "PRE") : Matches(commits, i, j)

OpenAt(i) ==
    LET d == commits[i].batch
    IN  d \in 1..writing /\ Opened(stack[d]) /\ stack[d].index = i - 1

OpenedRight ==
    \A i \in Batches(commits, "PRE") :
        OpenAt(i) \/ \E j \in Batches(commits, "POST") : Matches(commits, i, j)

QueueNested ==
    \A i \in Batches(pushing.queue, "PRE") :
        \E j \in Batches(pushing.queue, "POST") : Matches(pushing.queue, i, j)

Nested == ClosedRight /\ OpenedRight /\ QueueNested /\ OpenRight /\ ClosedWithin

\* An open batch is a write context.
LEMMA OpenShape == IInv => \A i : OpenBatch(i) <=> OpenAt(i)
  <1> SUFFICES ASSUME IInv, NEW i PROVE OpenBatch(i) <=> OpenAt(i)
    OBVIOUS
  <1>1. \A d \in DOMAIN stack : stack[d].kind = "batch" => d \in 1..writing
    BY DEF IInv, ReadsInsideWrites, WriteKinds, TypeOK
  <1>2. \A d \in 1..writing : d \in DOMAIN stack
    BY WriteFrames DEF IInv
  <1> QED BY <1>1, <1>2 DEF OpenBatch, OpenAt, Opened

LEMMA NestedShape ==
    ASSUME IInv
    PROVE  Nested <=> BatchesRight
  BY OpenShape DEF Nested, BatchesRight, ClosedRight, OpenedRight, QueueNested, BatchesNested

LEMMA BatchRanges ==
    ASSUME IInv
    PROVE  /\ commits \in Seq(Commit) /\ Len(commits) \in Nat /\ DOMAIN commits = 1..Len(commits)
           /\ writing \in Nat
           /\ \A i \in 1..writing : stack[i].index \in 0..Len(commits)
           /\ \A i \in 1..Len(commits) : IsBatch(commits[i]) => commits[i].batch \in Nat /\ commits[i].obj \in Objects
  <1>1. commits \in Seq(Commit) /\ Len(commits) \in Nat /\ DOMAIN commits = 1..Len(commits)
    BY DEF IInv, TypeOK
  <1>2. \A c \in Commit : IsBatch(c) => c.batch \in Nat /\ c.obj \in Objects
    BY DEF IsBatch, Commit, ChangeCommit, SilentCommit, BatchCommit
  <1> QED BY <1>1, <1>2, Saves

\* Sequences that agree up to n have the same batches up to there.
LEMMA SameBatches ==
    ASSUME NEW q, NEW r, NEW n \in Nat, \A k \in 1..n : q[k] = r[k],
           1..n \subseteq DOMAIN q, 1..n \subseteq DOMAIN r
    PROVE  /\ \A i \in 1..n, p \in {"PRE", "POST"} : i \in Batches(q, p) <=> i \in Batches(r, p)
           /\ \A i, j \in 1..n : Matches(q, i, j) <=> Matches(r, i, j)
  <1>1. \A i \in 1..n, p \in {"PRE", "POST"} : i \in Batches(q, p) <=> i \in Batches(r, p)
    BY DEF Batches
  <1>2. ASSUME NEW i \in 1..n, NEW j \in 1..n
        PROVE  Matches(q, i, j) <=> Matches(r, i, j)
    <2>1. \A k \in (i + 1)..(j - 1) : q[k] = r[k]
      OBVIOUS
    <2> QED BY <2>1 DEF Matches
  <1> QED BY <1>1, <1>2

SameOpen(d) ==
    /\ stack'[d].index = stack[d].index
    /\ Opened(stack'[d]) <=> Opened(stack[d])
    /\ Opened(stack[d]) => stack'[d].obj = stack[d].obj

\* A step that commits nothing, and neither opens nor closes a batch.
LEMMA NestedSame ==
    ASSUME IInv, Nested, UNCHANGED <<commits, pushing>>, writing' \in Nat,
           \A d \in 1..writing' : d <= writing => SameOpen(d),
           \A d \in 1..writing' : d > writing => stack'[d].index = Len(commits) /\ ~ Opened(stack'[d]),
           \A d \in 1..writing : d > writing' => ~ Opened(stack[d])
    PROVE  Nested'
  <1>1. /\ Len(commits) \in Nat /\ DOMAIN commits = 1..Len(commits) /\ writing \in Nat
        /\ \A i \in 1..writing : stack[i].index \in 0..Len(commits)
    BY BatchRanges
  <1>2. ClosedRight' /\ QueueNested'
    BY DEF Nested, ClosedRight, QueueNested
  <1>3. OpenedRight'
    <2> SUFFICES ASSUME NEW i \in Batches(commits, "PRE"), OpenAt(i)
                 PROVE  OpenAt(i)'
      BY DEF Nested, OpenedRight
    <2>1. /\ commits[i].batch \in 1..writing /\ Opened(stack[commits[i].batch])
          /\ stack[commits[i].batch].index = i - 1
      BY DEF OpenAt
    <2>2. commits[i].batch \in 1..writing' /\ commits[i].batch <= writing
      BY <1>1, <2>1
    <2>3. SameOpen(commits[i].batch)
      BY <2>2
    <2> QED BY <2>1, <2>2, <2>3 DEF OpenAt, SameOpen
  <1>4. OpenRight'
    <2> SUFFICES ASSUME NEW d \in 1..writing', Opened(stack'[d])
                 PROVE  LET k == stack'[d].index + 1
                        IN  /\ k \in Batches(commits, "PRE")
                            /\ commits[k].batch = d /\ commits[k].obj = stack'[d].obj
                            /\ \A n \in (k + 1)..Len(commits) : IsBatch(commits[n]) => commits[n].batch > d
                            /\ \A e \in (d + 1)..writing' : stack'[e].index >= k
      BY DEF OpenRight
    <2>1. d <= writing /\ d \in 1..writing
      BY <1>1
    <2>2. SameOpen(d)
      BY <2>1
    <2> DEFINE k == stack[d].index + 1
    <2>3. /\ k \in Batches(commits, "PRE")
          /\ commits[k].batch = d /\ commits[k].obj = stack[d].obj
          /\ \A n \in (k + 1)..Len(commits) : IsBatch(commits[n]) => commits[n].batch > d
          /\ \A e \in (d + 1)..writing : stack[e].index >= k
      BY <2>1, <2>2 DEF Nested, OpenRight, SameOpen
    <2>4. stack'[d].index + 1 = k /\ stack'[d].obj = stack[d].obj
      BY <2>2 DEF SameOpen
    <2>5. k <= Len(commits) /\ k \in Nat
      BY <1>1, <2>3 DEF Batches
    <2> HIDE DEF k
    <2>6. \A e \in (d + 1)..writing' : stack'[e].index >= k
      <3> TAKE e \in (d + 1)..writing'
      <3>1. e \in 1..writing' /\ d \in Nat
        OBVIOUS
      <3>2. CASE e <= writing
        BY <1>1, <2>3, <3>1, <3>2 DEF SameOpen
      <3>3. CASE e > writing
        BY <1>1, <2>5, <3>1, <3>3
      <3> QED BY <1>1, <3>1, <3>2, <3>3
    <2> QED BY <2>3, <2>4, <2>6
  <1>5. ClosedWithin'
    <2> SUFFICES ASSUME NEW d \in 1..writing', NEW j \in Batches(commits, "POST"), j > stack'[d].index
                 PROVE  \E i \in Batches(commits, "PRE") : i > stack'[d].index /\ Matches(commits, i, j)
      BY DEF ClosedWithin
    <2>1. d <= writing
      BY <1>1 DEF Batches
    <2>2. stack'[d].index = stack[d].index
      BY <2>1 DEF SameOpen
    <2> QED BY <1>1, <2>1, <2>2 DEF Nested, ClosedWithin
  <1> QED BY <1>2, <1>3, <1>4, <1>5 DEF Nested

LEMMA NestedQuiet ==
    ASSUME IInv, Nested, Still \/ OpenWrite \/ OpenChange \/ Leaving
    PROVE  Nested'
  <1>1. writing \in Nat
    BY BatchRanges
  <1>2. ASSUME NEW d, stack'[d] = stack[d]
        PROVE  SameOpen(d)
    BY <1>2 DEF SameOpen, Opened
  <1>3. CASE Still
    <2>1. UNCHANGED <<commits, pushing, writing>>
      BY <1>3 DEF Still
    <2>2. \A d \in 1..writing : SameOpen(d)
      BY <1>3 DEF Still, SameContext, SameWork, SameOpen, Opened
    <2> QED BY <1>1, <2>1, <2>2, NestedSame
  <1>4. ASSUME NEW f, Opening(f), ~ Opened(f), UNCHANGED commits
        PROVE  Nested'
    <2>1. /\ UNCHANGED <<commits, pushing>> /\ writing' = writing + 1
          /\ \A d \in 1..writing : SameOpen(d)
          /\ stack'[writing + 1].index = Len(commits) /\ ~ Opened(stack'[writing + 1])
      BY <1>2, <1>4 DEF Opening, NotPushed, Below
    <2> QED BY <1>1, <2>1, NestedSame
  <1>5. CASE OpenWrite
    BY <1>4, <1>5 DEF OpenWrite, Opened, ContextFrame
  <1>6. CASE OpenChange
    BY <1>4, <1>6 DEF OpenChange, Opened, ChangeFrame
  <1>7. CASE Leaving
    <2>1. /\ UNCHANGED <<commits, pushing>> /\ writing' = writing - 1 /\ writing > 1
          /\ \A d \in 1..(writing - 1) : SameOpen(d)
          /\ ~ Opened(stack[writing])
      BY <1>2, <1>7 DEF Leaving, NotPushed, Below
    <2> QED BY <1>1, <2>1, NestedSame
  <1> QED BY <1>3, <1>5, <1>6, <1>7

LEMMA AppendBatches ==
    ASSUME IInv, NEW c, commits' = Append(commits, c)
    PROVE  LET n == Len(commits)
           IN  /\ n \in Nat /\ Len(commits') = n + 1
               /\ \A i \in 1..n : commits'[i] = commits[i]
               /\ commits'[n + 1] = c
               /\ \A p \in {"PRE", "POST"} :
                    /\ Batches(commits, p) \subseteq 1..n /\ Batches(commits', p) \subseteq 1..(n + 1)
                    /\ \A i \in 1..n : i \in Batches(commits', p) <=> i \in Batches(commits, p)
                    /\ n + 1 \in Batches(commits', p) <=> IsBatch(c) /\ c.phase = p
               /\ \A i, j \in 1..n : Matches(commits', i, j) <=> Matches(commits, i, j)
  <1> DEFINE n == Len(commits)
  <1>1. /\ n \in Nat /\ DOMAIN commits = 1..n /\ Len(commits') = n + 1 /\ DOMAIN commits' = 1..(n + 1)
        /\ \A i \in 1..n : commits'[i] = commits[i]
        /\ commits'[n + 1] = c
    BY Appended DEF IInv, TypeOK
  <1> HIDE DEF n
  <1>2. 1..n \subseteq DOMAIN commits /\ 1..n \subseteq DOMAIN commits'
    BY <1>1
  <1>3. ASSUME NEW r, \A i \in 1..n : r[i] = commits[i], 1..n \subseteq DOMAIN r
        PROVE  /\ \A i \in 1..n, p \in {"PRE", "POST"} : i \in Batches(r, p) <=> i \in Batches(commits, p)
               /\ \A i, j \in 1..n : Matches(r, i, j) <=> Matches(commits, i, j)
    BY <1>1, <1>2, <1>3, SameBatches
  <1>4. /\ \A i \in 1..n, p \in {"PRE", "POST"} : i \in Batches(commits', p) <=> i \in Batches(commits, p)
        /\ \A i, j \in 1..n : Matches(commits', i, j) <=> Matches(commits, i, j)
    BY <1>1, <1>2, <1>3
  <1>5. \A p \in {"PRE", "POST"} :
          /\ Batches(commits, p) \subseteq 1..n /\ Batches(commits', p) \subseteq 1..(n + 1)
          /\ n + 1 \in Batches(commits', p) <=> IsBatch(c) /\ c.phase = p
    BY <1>1 DEF Batches
  <1> QED BY <1>1, <1>4, <1>5 DEF n

OpenRightAt(d) ==
    LET k == stack[d].index + 1
    IN  /\ k \in Batches(commits, "PRE")
        /\ commits[k].batch = d /\ commits[k].obj = stack[d].obj
        /\ \A n \in (k + 1)..Len(commits) : IsBatch(commits[n]) => commits[n].batch > d
        /\ \A e \in (d + 1)..writing : stack[e].index >= k

\* A batch that stays open when something is committed inside it.
LEMMA AppendOpen ==
    ASSUME IInv, Nested, NEW c, commits' = Append(commits, c), writing' \in Nat,
           NEW d \in 1..writing, Opened(stack[d]), SameOpen(d),
           IsBatch(c) => c.batch > d,
           \A e \in (d + 1)..writing' : \/ e <= writing /\ stack'[e].index = stack[e].index
                                        \/ stack'[e].index = Len(commits)
    PROVE  OpenRightAt(d)'
  <1> DEFINE m == Len(commits)
             k == stack[d].index + 1
  <1>1. /\ m \in Nat /\ Len(commits') = m + 1
        /\ \A i \in 1..m : commits'[i] = commits[i]
        /\ commits'[m + 1] = c
        /\ \A i \in 1..m : i \in Batches(commits', "PRE") <=> i \in Batches(commits, "PRE")
        /\ Batches(commits, "PRE") \subseteq 1..m
    BY AppendBatches
  <1>2. writing \in Nat /\ k \in Nat
    BY BatchRanges
  <1>3. /\ k \in Batches(commits, "PRE")
        /\ commits[k].batch = d /\ commits[k].obj = stack[d].obj
        /\ \A n \in (k + 1)..m : IsBatch(commits[n]) => commits[n].batch > d
        /\ \A e \in (d + 1)..writing : stack[e].index >= k
    BY DEF Nested, OpenRight
  <1>4. stack'[d].index + 1 = k /\ stack'[d].obj = stack[d].obj
    BY DEF SameOpen
  <1> HIDE DEF m, k
  <1>5. k \in 1..m
    BY <1>1, <1>3
  <1>6. \A n \in (k + 1)..(m + 1) : IsBatch(commits'[n]) => commits'[n].batch > d
    <2> TAKE n \in (k + 1)..(m + 1)
    <2>1. CASE n = m + 1
      BY <1>1, <2>1
    <2>2. CASE n \in 1..m
      BY <1>1, <1>2, <1>3, <2>2
    <2> QED BY <1>1, <1>2, <2>1, <2>2
  <1>7. \A e \in (d + 1)..writing' : stack'[e].index >= k
    <2> TAKE e \in (d + 1)..writing'
    <2>1. CASE e <= writing /\ stack'[e].index = stack[e].index
      BY <1>2, <1>3, <2>1
    <2>2. CASE stack'[e].index = m
      BY <1>1, <1>2, <1>5, <2>2
    <2> QED BY <2>1, <2>2 DEF m
  <1>8. k \in Batches(commits', "PRE") /\ commits'[k].batch = d /\ commits'[k].obj = stack'[d].obj
    BY <1>1, <1>3, <1>4, <1>5
  <1> QED BY <1>1, <1>4, <1>6, <1>7, <1>8 DEF OpenRightAt

\* What was committed before stays matched; the indices of contexts do not move.
LEMMA AppendClosed ==
    ASSUME IInv, Nested, NEW c, commits' = Append(commits, c)
    PROVE  /\ \A j \in Batches(commits, "POST") :
                \E i \in Batches(commits', "PRE") : Matches(commits', i, j)
           /\ \A d \in 1..writing : \A j \in Batches(commits, "POST") :
                j > stack[d].index =>
                  \E i \in Batches(commits', "PRE") : i > stack[d].index /\ Matches(commits', i, j)
           /\ \A i \in Batches(commits, "PRE") :
                OpenAt(i) \/ \E j \in Batches(commits', "POST") : Matches(commits', i, j)
  <1>1. /\ \A p \in {"PRE", "POST"} :
             /\ Batches(commits, p) \subseteq 1..Len(commits)
             /\ \A i \in 1..Len(commits) : i \in Batches(commits', p) <=> i \in Batches(commits, p)
        /\ \A i, j \in 1..Len(commits) : Matches(commits', i, j) <=> Matches(commits, i, j)
    BY AppendBatches
  <1>2. \A p \in {"PRE", "POST"} : \A i \in Batches(commits, p) : i \in 1..Len(commits) /\ i \in Batches(commits', p)
    BY <1>1
  <1>3. ASSUME NEW j \in Batches(commits, "POST")
        PROVE  \E i \in Batches(commits', "PRE") : Matches(commits', i, j)
    <2>1. PICK i \in Batches(commits, "PRE") : Matches(commits, i, j)
      BY DEF Nested, ClosedRight
    <2> QED BY <1>1, <1>2, <2>1
  <1>4. ASSUME NEW d \in 1..writing, NEW j \in Batches(commits, "POST"), j > stack[d].index
        PROVE  \E i \in Batches(commits', "PRE") : i > stack[d].index /\ Matches(commits', i, j)
    <2>1. PICK i \in Batches(commits, "PRE") : i > stack[d].index /\ Matches(commits, i, j)
      BY <1>4 DEF Nested, ClosedWithin
    <2> QED BY <1>1, <1>2, <2>1
  <1>5. ASSUME NEW i \in Batches(commits, "PRE")
        PROVE  OpenAt(i) \/ \E j \in Batches(commits', "POST") : Matches(commits', i, j)
    <2>1. OpenAt(i) \/ \E j \in Batches(commits, "POST") : Matches(commits, i, j)
      BY DEF Nested, OpenedRight
    <2>2. ASSUME NEW j \in Batches(commits, "POST"), Matches(commits, i, j)
          PROVE  \E jj \in Batches(commits', "POST") : Matches(commits', i, jj)
      BY <1>1, <1>2, <2>2
    <2> QED BY <2>1, <2>2
  <1> QED BY <1>3, <1>4, <1>5

LEMMA NestedSilent ==
    ASSUME IInv, Nested, CommitSilently \/ CommitPending
    PROVE  Nested'
  <1>1. ASSUME NEW c, c.type # "batch", Committing(c), SameOpen(writing)
        PROVE  Nested'
    <2>1. /\ commits' = Append(commits, c) /\ UNCHANGED <<pushing, writing>> /\ writing \in Nat
          /\ \A d \in 1..writing : SameOpen(d)
          /\ ~ IsBatch(c)
      <3>1. \A d \in 1..(writing - 1) : SameOpen(d)
        BY <1>1 DEF Committing, Below, SameOpen, Opened
      <3> QED BY <1>1, <3>1, BatchRanges DEF Committing, NotPushed, IsBatch
    <2>2. \A p \in {"PRE", "POST"} : Batches(commits', p) = Batches(commits, p)
      <3>1. \A p \in {"PRE", "POST"} :
              /\ Batches(commits, p) \subseteq 1..Len(commits) /\ Batches(commits', p) \subseteq 1..(Len(commits) + 1)
              /\ \A i \in 1..Len(commits) : i \in Batches(commits', p) <=> i \in Batches(commits, p)
              /\ Len(commits) + 1 \notin Batches(commits', p)
        BY <2>1, AppendBatches
      <3>2. Len(commits) \in Nat
        BY BatchRanges
      <3> TAKE p \in {"PRE", "POST"}
      <3>3. \A i \in Batches(commits', p) : i \in Batches(commits, p)
        BY <3>1, <3>2
      <3>4. \A i \in Batches(commits, p) : i \in Batches(commits', p)
        BY <3>1
      <3> QED BY <3>3, <3>4
    <2>3. ClosedRight'
      BY <2>1, <2>2, AppendClosed DEF ClosedRight
    <2>4. OpenedRight'
      <3>1. \A i \in Batches(commits, "PRE") : OpenAt(i) => OpenAt(i)'
        <4> SUFFICES ASSUME NEW i \in Batches(commits, "PRE"), OpenAt(i) PROVE OpenAt(i)'
          OBVIOUS
        <4>1. commits'[i] = commits[i]
          BY <2>1, AppendBatches
        <4> QED BY <2>1, <4>1 DEF OpenAt, SameOpen
      <3> QED BY <2>1, <2>2, <3>1, AppendClosed DEF OpenedRight
    <2>5. OpenRight'
      <3>1. ASSUME NEW d \in 1..writing, Opened(stack'[d])
            PROVE  OpenRightAt(d)'
        <4>1. \A e \in (d + 1)..writing' : e <= writing /\ stack'[e].index = stack[e].index
          BY <2>1 DEF SameOpen
        <4>2. Opened(stack[d]) /\ SameOpen(d)
          BY <2>1, <3>1 DEF SameOpen
        <4> QED BY <2>1, <4>1, <4>2, AppendOpen
      <3> QED BY <2>1, <3>1 DEF OpenRight, OpenRightAt
    <2>6. ClosedWithin'
      <3>1. \A d \in 1..writing : stack'[d].index = stack[d].index
        BY <2>1 DEF SameOpen
      <3> QED BY <2>1, <2>2, <3>1, AppendClosed DEF ClosedWithin
    <2>7. QueueNested'
      BY <2>1 DEF Nested, QueueNested
    <2> QED BY <2>3, <2>4, <2>5, <2>6, <2>7 DEF Nested
  <1>2. CASE CommitSilently
    <2>1. PICK o \in Objects, v \in Values :
            /\ Committing([type |-> "silent", stores |-> [LastStores EXCEPT ![o] = v]])
            /\ stack'[writing] = stack[writing]
      BY <1>2 DEF CommitSilently
    <2> DEFINE c == [type |-> "silent", stores |-> [LastStores EXCEPT ![o] = v]]
    <2>2. c.type # "batch" /\ Committing(c)
      BY <2>1
    <2> HIDE DEF c
    <2>3. SameOpen(writing)
      BY <2>1 DEF SameOpen, Opened
    <2> QED BY <1>1, <2>2, <2>3
  <1>3. CASE CommitPending
    <2>1. PICK f \in ChangeFrame :
            /\ f = stack[writing]
            /\ Committing([type |-> "change", obj |-> f.obj, old |-> f.old, new |-> f.new,
                           stores |-> [LastStores EXCEPT ![f.obj] = f.new]])
            /\ Ended(stack'[writing], f)
      BY <1>3 DEF CommitPending
    <2> DEFINE c == [type |-> "change", obj |-> f.obj, old |-> f.old, new |-> f.new,
                     stores |-> [LastStores EXCEPT ![f.obj] = f.new]]
    <2>2. c.type # "batch" /\ Committing(c)
      BY <2>1
    <2> HIDE DEF c
    <2>3. SameOpen(writing)
      BY <2>1 DEF SameOpen, Opened, Ended, SameWork, ChangeFrame
    <2> QED BY <1>1, <2>2, <2>3
  <1> QED BY <1>2, <1>3

\* Two commits that are no batches.
LEMMA NestedHistory ==
    ASSUME IInv, Nested, CommitWithHistory
    PROVE  Nested'
  <1> DEFINE n == Len(commits)
  <1>1. PICK o \in Ordinary, h \in Histories, v \in Values, w \in Values :
          /\ NotPushed
          /\ writing > 0 /\ UNCHANGED <<writing, stack>>
          /\ commits' = commits \o
               <<[type |-> "silent", stores |-> [LastStores EXCEPT ![h] = w]],
                 [type |-> "silent", stores |-> [LastStores EXCEPT ![o] = v]]>>
    BY DEF CommitWithHistory
  <1> DEFINE a == [type |-> "silent", stores |-> [LastStores EXCEPT ![h] = w]]
             b == [type |-> "silent", stores |-> [LastStores EXCEPT ![o] = v]]
  <1>2. commits' = commits \o <<a, b>> /\ ~ IsBatch(a) /\ ~ IsBatch(b)
    BY <1>1 DEF IsBatch
  <1>3. /\ n \in Nat /\ DOMAIN commits = 1..n /\ commits \in Seq(Commit) /\ writing \in Nat
        /\ \A i \in 1..writing : stack[i].index \in 0..n
    BY BatchRanges
  <1>4. a \in Commit /\ b \in Commit
    <2>1. o \in Objects /\ h \in Objects /\ LastStores \in Contents
      BY Stores, HistoriesAssumption DEF IInv, Ordinary
    <2>2. [LastStores EXCEPT ![h] = w] \in Contents /\ [LastStores EXCEPT ![o] = v] \in Contents
      BY <2>1, Merged
    <2> QED BY <2>2 DEF Commit, SilentCommit
  <1> HIDE DEF a, b
  <1>5. /\ commits' \in Seq(Commit) /\ Len(commits') = n + 2 /\ DOMAIN commits' = 1..(n + 2)
        /\ \A k \in 1..n : commits'[k] = commits[k]
        /\ commits'[n + 1] = a /\ commits'[n + 2] = b
    <2>1. /\ commits' \in Seq(Commit) /\ Len(commits') = n + 2
          /\ \A k \in 1..n : commits'[k] = commits[k]
          /\ commits'[n + 1] = a /\ commits'[n + 2] = b
      BY <1>2, <1>3, <1>4, AppendedTwice
    <2> QED BY <2>1
  <1> HIDE DEF n
  <1>6. \A k \in (n + 1)..(n + 2) : ~ IsBatch(commits'[k])
    <2> TAKE k \in (n + 1)..(n + 2)
    <2>1. k = n + 1 \/ k = n + 2
      BY <1>3
    <2> QED BY <1>2, <1>5, <2>1
  <1>7. /\ \A i \in 1..n, p \in {"PRE", "POST"} : i \in Batches(commits', p) <=> i \in Batches(commits, p)
        /\ \A i, j \in 1..n : Matches(commits', i, j) <=> Matches(commits, i, j)
    <2>1. 1..n \subseteq DOMAIN commits /\ 1..n \subseteq DOMAIN commits'
      BY <1>3, <1>5
    <2>2. ASSUME NEW r, \A i \in 1..n : r[i] = commits[i], 1..n \subseteq DOMAIN r
          PROVE  /\ \A i \in 1..n, p \in {"PRE", "POST"} : i \in Batches(r, p) <=> i \in Batches(commits, p)
                 /\ \A i, j \in 1..n : Matches(r, i, j) <=> Matches(commits, i, j)
      BY <1>3, <2>1, <2>2, SameBatches
    <2> QED BY <1>5, <2>1, <2>2
  <1>8. \A p \in {"PRE", "POST"} : Batches(commits, p) \subseteq 1..n /\ Batches(commits', p) = Batches(commits, p)
    <2> TAKE p \in {"PRE", "POST"}
    <2>1. Batches(commits, p) \subseteq 1..n
      BY <1>3 DEF Batches
    <2>2. ASSUME NEW i \in Batches(commits', p)
          PROVE  i \in 1..n
      <3>1. i \in 1..(n + 2) /\ IsBatch(commits'[i])
        BY <1>5 DEF Batches
      <3> QED BY <1>3, <1>6, <3>1
    <2> QED BY <1>7, <2>1, <2>2
  <1>9. \A i, j \in 1..n : Matches(commits', i, j) <=> Matches(commits, i, j)
    BY <1>7
  <1>10. ClosedRight'
    <2> SUFFICES ASSUME NEW j \in Batches(commits, "POST")
                 PROVE  \E i \in Batches(commits, "PRE") : Matches(commits', i, j)
      BY <1>8 DEF ClosedRight
    <2>1. PICK i \in Batches(commits, "PRE") : Matches(commits, i, j)
      BY DEF Nested, ClosedRight
    <2> QED BY <1>8, <1>9, <2>1
  <1>11. OpenedRight'
    <2> SUFFICES ASSUME NEW i \in Batches(commits, "PRE")
                 PROVE  OpenAt(i)' \/ \E j \in Batches(commits, "POST") : Matches(commits', i, j)
      BY <1>8 DEF OpenedRight
    <2>1. CASE OpenAt(i)
      <3>1. commits'[i] = commits[i]
        BY <1>5, <1>8
      <3> QED BY <1>1, <2>1, <3>1 DEF OpenAt, Opened
    <2>2. CASE \E j \in Batches(commits, "POST") : Matches(commits, i, j)
      BY <1>8, <1>9, <2>2
    <2> QED BY <2>1, <2>2 DEF Nested, OpenedRight
  <1>12. OpenRight'
    <2> SUFFICES ASSUME NEW d \in 1..writing, Opened(stack[d])
                 PROVE  OpenRightAt(d)'
      BY <1>1 DEF OpenRight, OpenRightAt, Opened
    <2> DEFINE k == stack[d].index + 1
    <2>1. /\ k \in Batches(commits, "PRE")
          /\ commits[k].batch = d /\ commits[k].obj = stack[d].obj
          /\ \A m \in (k + 1)..n : IsBatch(commits[m]) => commits[m].batch > d
          /\ \A e \in (d + 1)..writing : stack[e].index >= k
      BY DEF Nested, OpenRight, n
    <2>2. k \in 1..n /\ stack'[d].index + 1 = k
      BY <1>1, <1>8, <2>1
    <2> HIDE DEF k
    <2>3. \A m \in (k + 1)..(n + 2) : IsBatch(commits'[m]) => commits'[m].batch > d
      <3> TAKE m \in (k + 1)..(n + 2)
      <3>1. CASE m \in 1..n
        BY <1>5, <2>1, <2>2, <3>1
      <3>2. CASE m \in (n + 1)..(n + 2)
        BY <1>6, <3>2
      <3> QED BY <1>3, <2>2, <3>1, <3>2
    <2> QED BY <1>1, <1>5, <1>8, <2>1, <2>2, <2>3 DEF OpenRightAt
  <1>13. ClosedWithin'
    <2> SUFFICES ASSUME NEW d \in 1..writing, NEW j \in Batches(commits, "POST"), j > stack[d].index
                 PROVE  \E i \in Batches(commits, "PRE") : i > stack[d].index /\ Matches(commits', i, j)
      BY <1>1, <1>8 DEF ClosedWithin
    <2>1. PICK i \in Batches(commits, "PRE") : i > stack[d].index /\ Matches(commits, i, j)
      BY DEF Nested, ClosedWithin
    <2> QED BY <1>8, <1>9, <2>1
  <1>14. QueueNested'
    BY <1>1 DEF Nested, QueueNested, NotPushed
  <1> QED BY <1>10, <1>11, <1>12, <1>13, <1>14 DEF Nested

\* What a batch adds to the commits it opens or closes in.
LEMMA OneMoreBatch ==
    ASSUME IInv, NEW c, commits' = Append(commits, c), NEW p \in {"PRE", "POST"}, NEW i \in Batches(commits', p)
    PROVE  i \in Batches(commits, p) \/ (i = Len(commits) + 1 /\ c.phase = p)
  <1>1. /\ Len(commits) \in Nat
        /\ Batches(commits', p) \subseteq 1..(Len(commits) + 1)
        /\ \A j \in 1..Len(commits) : j \in Batches(commits', p) <=> j \in Batches(commits, p)
        /\ Len(commits) + 1 \in Batches(commits', p) <=> IsBatch(c) /\ c.phase = p
    BY AppendBatches
  <1>2. i \in 1..Len(commits) \/ i = Len(commits) + 1
    BY <1>1
  <1> QED BY <1>1, <1>2

LEMMA StaysOpen ==
    ASSUME IInv, NEW c, commits' = Append(commits, c), writing' \in Nat,
           NEW i \in Batches(commits, "PRE"), OpenAt(i),
           commits[i].batch <= writing', SameOpen(commits[i].batch)
    PROVE  OpenAt(i)'
  <1>1. commits'[i] = commits[i]
    BY AppendBatches
  <1>2. commits[i].batch \in 1..writing'
    BY BatchRanges DEF OpenAt
  <1> QED BY <1>1, <1>2 DEF OpenAt, SameOpen

LEMMA NestedOpens ==
    ASSUME IInv, Nested, OpenBatches
    PROVE  Nested'
  <1>1. PICK f \in BatchFrame :
          /\ Opening(f) /\ f.phase = "open"
          /\ commits' = Append(commits, [type |-> "batch", obj |-> f.obj, phase |-> "PRE",
                                         batch |-> writing + 1, stores |-> LastStores])
    BY DEF OpenBatches
  <1> DEFINE c == [type |-> "batch", obj |-> f.obj, phase |-> "PRE", batch |-> writing + 1, stores |-> LastStores]
             n == Len(commits)
  <1>2. IsBatch(c) /\ c.phase = "PRE" /\ c.batch = writing + 1 /\ c.obj = f.obj /\ commits' = Append(commits, c)
    BY <1>1 DEF IsBatch
  <1> HIDE DEF c
  <1>3. /\ UNCHANGED pushing /\ writing' = writing + 1 /\ writing \in Nat /\ n \in Nat
        /\ stack'[writing + 1] = f /\ f.index = n /\ Opened(f)
    BY <1>1, BatchRanges DEF Opening, NotPushed, Opened, BatchFrame
  <1>4. \A d \in 1..writing : SameOpen(d) /\ stack'[d].index = stack[d].index
    BY <1>1 DEF Opening, Below, SameOpen, Opened
  <1>5. /\ commits'[n + 1] = c /\ n + 1 \in Batches(commits', "PRE") /\ Len(commits') = n + 1
    BY <1>2, AppendBatches
  <1> HIDE DEF n
  <1>6. \A j \in Batches(commits', "POST") : j \in Batches(commits, "POST")
    BY <1>2, OneMoreBatch
  <1>7. ClosedRight'
    BY <1>2, <1>6, AppendClosed DEF ClosedRight
  <1>8. OpenedRight'
    <2> SUFFICES ASSUME NEW i \in Batches(commits', "PRE")
                 PROVE  OpenAt(i)' \/ \E j \in Batches(commits', "POST") : Matches(commits', i, j)
      BY DEF OpenedRight
    <2>1. i \in Batches(commits, "PRE") \/ i = n + 1
      BY <1>2, OneMoreBatch DEF n
    <2>2. CASE i = n + 1
      <3>1. commits'[i].batch = writing' /\ stack'[writing'] = f /\ f.index = i - 1 /\ writing' \in 1..writing'
        BY <1>2, <1>3, <1>5, <2>2
      <3>2. OpenAt(i)'
        BY <1>3, <3>1 DEF OpenAt
      <3> QED BY <3>2
    <2>3. CASE i \in Batches(commits, "PRE")
      <3>1. OpenAt(i) \/ \E j \in Batches(commits', "POST") : Matches(commits', i, j)
        BY <1>2, <2>3, AppendClosed
      <3>2. ASSUME OpenAt(i)
            PROVE  OpenAt(i)'
        <4>1. commits[i].batch \in 1..writing
          BY <3>2 DEF OpenAt
        <4> QED BY <1>2, <1>3, <1>4, <2>3, <3>2, <4>1, StaysOpen
      <3> QED BY <3>1, <3>2
    <2> QED BY <2>1, <2>2, <2>3
  <1>9. OpenRight'
    <2>1. ASSUME NEW d \in 1..writing', Opened(stack'[d])
          PROVE  OpenRightAt(d)'
      <3>1. CASE d = writing + 1
        <4>1. /\ stack'[d].index + 1 = n + 1 /\ stack'[d].obj = f.obj /\ commits'[n + 1].batch = d
              /\ commits'[n + 1].obj = f.obj
          BY <1>2, <1>3, <1>5, <3>1
        <4>2. (n + 2)..(n + 1) = {} /\ (d + 1)..writing' = {} /\ (n + 1) + 1 = n + 2
          BY <1>3, <3>1
        <4> QED BY <1>5, <4>1, <4>2 DEF OpenRightAt
      <3>2. CASE d \in 1..writing
        <4>1. \A e \in (d + 1)..writing' : (e <= writing /\ stack'[e].index = stack[e].index) \/ stack'[e].index = Len(commits)
          <5> TAKE e \in (d + 1)..writing'
          <5>1. e \in 1..writing \/ e = writing + 1
            BY <1>3, <3>2
          <5> QED BY <1>3, <1>4, <5>1 DEF n
        <4>2. Opened(stack[d]) /\ SameOpen(d)
          BY <1>4, <2>1, <3>2 DEF SameOpen
        <4>3. c.batch > d
          BY <1>2, <1>3, <3>2
        <4> QED BY <1>2, <1>3, <3>2, <4>1, <4>2, <4>3, AppendOpen
      <3> QED BY <1>3, <3>1, <3>2
    <2> QED BY <2>1 DEF OpenRight, OpenRightAt
  <1>10. ClosedWithin'
    <2> SUFFICES ASSUME NEW d \in 1..writing', NEW j \in Batches(commits', "POST"), j > stack'[d].index
                 PROVE  \E i \in Batches(commits', "PRE") : i > stack'[d].index /\ Matches(commits', i, j)
      BY DEF ClosedWithin
    <2>1. j \in Batches(commits, "POST")
      BY <1>6
    <2>2. j \in 1..n
      BY <2>1, <1>2, AppendBatches DEF n
    <2>3. d # writing + 1
      BY <1>3, <2>2
    <2>4. d \in 1..writing
      BY <1>3, <2>3
    <2>5. stack'[d].index = stack[d].index
      BY <1>4, <2>4
    <2> QED BY <1>2, <2>1, <2>4, <2>5, AppendClosed
  <1>11. QueueNested'
    BY <1>3 DEF Nested, QueueNested
  <1> QED BY <1>7, <1>8, <1>9, <1>10, <1>11 DEF Nested

\* The innermost batch closes: its PRE commit is matched by the new POST.
LEMMA NestedCloses ==
    ASSUME IInv, Nested, CommitBatch
    PROVE  Nested'
  <1>1. PICK f \in BatchFrame :
          /\ f = stack[writing] /\ f.phase = "open"
          /\ Committing([type |-> "batch", obj |-> f.obj, phase |-> "POST", batch |-> writing, stores |-> LastStores])
          /\ Ended(stack'[writing], f)
    BY DEF CommitBatch
  <1> DEFINE c == [type |-> "batch", obj |-> f.obj, phase |-> "POST", batch |-> writing, stores |-> LastStores]
             n == Len(commits)
             k == f.index + 1
  <1>2. IsBatch(c) /\ c.phase = "POST" /\ c.batch = writing /\ c.obj = f.obj /\ Committing(c)
    BY <1>1 DEF IsBatch
  <1> HIDE DEF c
  <1>3. /\ commits' = Append(commits, c) /\ UNCHANGED pushing /\ writing' = writing
        /\ writing \in Nat /\ writing \in 1..writing /\ n \in Nat
        /\ Opened(f) /\ f = stack[writing]
    BY <1>1, <1>2, BatchRanges DEF Committing, NotPushed, Opened, BatchFrame
  <1>4. \A d \in 1..writing : d # writing => SameOpen(d)
    BY <1>2, <1>3 DEF Committing, Below, SameOpen, Opened
  <1>5. \A d \in 1..writing : stack'[d].index = stack[d].index
    BY <1>1, <1>4 DEF SameOpen, Ended, SameWork
  <1>6. ~ Opened(stack'[writing])
    BY <1>1 DEF Ended
  <1>7. /\ k \in Batches(commits, "PRE") /\ commits[k].batch = writing /\ commits[k].obj = f.obj
        /\ \A m \in (k + 1)..n : IsBatch(commits[m]) => commits[m].batch > writing
    BY <1>3 DEF Nested, OpenRight
  <1>8. /\ commits'[n + 1] = c /\ n + 1 \in Batches(commits', "POST") /\ Len(commits') = n + 1
        /\ Batches(commits, "PRE") \subseteq 1..n
        /\ \A i \in 1..n : commits'[i] = commits[i] /\ (i \in Batches(commits', "PRE") <=> i \in Batches(commits, "PRE"))
    BY <1>2, <1>3, AppendBatches
  <1> HIDE DEF n
  <1>9. k \in 1..n /\ k \in Batches(commits', "PRE")
    BY <1>7, <1>8
  <1>10. \A d \in 1..writing : stack[d].index < k
    <2>1. \A d \in 1..writing : stack[d].index <= f.index
      BY <1>3, WriteFrames DEF IInv, IndexShape
    <2> QED BY <1>3, <2>1, BatchRanges DEF BatchFrame
  <1> HIDE DEF k
  <1>11. Matches(commits', k, n + 1)
    <2>1. commits'[k].phase = "PRE" /\ commits'[k].batch = writing /\ commits'[k].obj = f.obj
      BY <1>7, <1>8, <1>9 DEF Batches
    <2>2. \A m \in (k + 1)..((n + 1) - 1) : IsBatch(commits'[m]) => commits'[m].batch > commits'[k].batch
      <3> TAKE m \in (k + 1)..((n + 1) - 1)
      <3>1. m \in (k + 1)..n /\ m \in 1..n
        BY <1>3, <1>9
      <3> QED BY <1>7, <1>8, <2>1, <3>1
    <2>3. k < n + 1
      BY <1>3, <1>9
    <2> QED BY <1>2, <1>8, <2>1, <2>2, <2>3 DEF Matches
  <1>12. ClosedRight'
    <2> SUFFICES ASSUME NEW j \in Batches(commits', "POST")
                 PROVE  \E i \in Batches(commits', "PRE") : Matches(commits', i, j)
      BY DEF ClosedRight
    <2>1. j \in Batches(commits, "POST") \/ j = n + 1
      BY <1>3, OneMoreBatch DEF n
    <2> QED BY <1>3, <1>9, <1>11, <2>1, AppendClosed
  <1>13. OpenedRight'
    <2> SUFFICES ASSUME NEW i \in Batches(commits', "PRE")
                 PROVE  OpenAt(i)' \/ \E j \in Batches(commits', "POST") : Matches(commits', i, j)
      BY DEF OpenedRight
    <2>1. i \in Batches(commits, "PRE")
      BY <1>2, <1>3, OneMoreBatch
    <2>2. OpenAt(i) \/ \E j \in Batches(commits', "POST") : Matches(commits', i, j)
      BY <1>3, <2>1, AppendClosed
    <2>3. CASE OpenAt(i) /\ commits[i].batch = writing
      <3>1. stack[writing].index = i - 1 /\ i \in Nat
        BY <1>8, <2>1, <2>3 DEF OpenAt
      <3>2. i = k
        BY <1>3, <3>1, BatchRanges DEF k
      <3> QED BY <1>8, <1>11, <3>2
    <2>4. CASE OpenAt(i) /\ commits[i].batch # writing
      <3>1. commits[i].batch \in 1..writing
        BY <2>4 DEF OpenAt
      <3>2. SameOpen(commits[i].batch) /\ commits[i].batch <= writing' /\ writing' \in Nat
        BY <1>3, <1>4, <2>4, <3>1
      <3> QED BY <1>3, <2>1, <2>4, <3>2, StaysOpen
    <2> QED BY <2>2, <2>3, <2>4
  <1>14. OpenRight'
    <2>1. ASSUME NEW d \in 1..writing', Opened(stack'[d])
          PROVE  OpenRightAt(d)'
      <3>1. d \in 1..writing /\ d # writing
        BY <1>3, <1>6, <2>1
      <3>2. SameOpen(d) /\ Opened(stack[d])
        BY <1>4, <2>1, <3>1 DEF SameOpen
      <3>3. c.batch > d
        BY <1>2, <1>3, <3>1
      <3>4. \A e \in (d + 1)..writing' : e <= writing /\ stack'[e].index = stack[e].index
        BY <1>3, <1>5, <3>1
      <3> QED BY <1>3, <3>1, <3>2, <3>3, <3>4, AppendOpen
    <2> QED BY <2>1 DEF OpenRight, OpenRightAt
  <1>15. ClosedWithin'
    <2> SUFFICES ASSUME NEW d \in 1..writing, NEW j \in Batches(commits', "POST"), j > stack'[d].index
                 PROVE  \E i \in Batches(commits', "PRE") : i > stack'[d].index /\ Matches(commits', i, j)
      BY <1>3 DEF ClosedWithin
    <2>1. j \in Batches(commits, "POST") \/ j = n + 1
      BY <1>3, OneMoreBatch DEF n
    <2>2. stack'[d].index = stack[d].index
      BY <1>5
    <2>3. CASE j = n + 1
      <3>1. k > stack'[d].index
        BY <1>9, <1>10, <2>2, BatchRanges
      <3> QED BY <1>9, <1>11, <2>3, <3>1
    <2>4. CASE j \in Batches(commits, "POST")
      BY <1>3, <2>2, <2>4, AppendClosed
    <2> QED BY <2>1, <2>3, <2>4
  <1>16. QueueNested'
    BY <1>3 DEF Nested, QueueNested
  <1> QED BY <1>12, <1>13, <1>14, <1>15, <1>16 DEF Nested

\* Reverting to the index of a context drops whole batches, and its own.
LEMMA NestedReverts ==
    ASSUME IInv, Nested, RejectChange \/ Discard
    PROVE  Nested'
  <1> DEFINE m == stack[writing].index
             n == Len(commits)
  <1>1. /\ commits' = SubSeq(commits, 1, m) /\ UNCHANGED pushing
        /\ writing \in Nat /\ writing > 0 /\ writing \in 1..writing /\ writing' \in {writing, writing - 1}
        /\ n \in Nat /\ m \in 0..n /\ DOMAIN commits = 1..n
    BY BatchRanges DEF RejectChange, Discard, Reverting, NotPushed
  <1>2. \A d \in 1..writing : d # writing => SameOpen(d)
    BY <1>1 DEF RejectChange, Discard, Reverting, Below, SameOpen, Opened
  <1>3. \A d \in 1..writing' : d \in 1..writing /\ stack'[d].index = stack[d].index
    <2> TAKE d \in 1..writing'
    <2>1. d \in 1..writing
      BY <1>1
    <2>2. CASE d # writing
      BY <1>2, <2>1, <2>2 DEF SameOpen
    <2>3. CASE d = writing
      <3>1. writing' = writing
        BY <1>1, <2>3
      <3>2. RejectChange
        BY <1>1, <3>1 DEF Discard
      <3> QED BY <2>3, <3>2 DEF RejectChange, Ended, SameWork
    <2> QED BY <2>1, <2>2, <2>3
  <1>4. \A d \in 1..writing' : Opened(stack'[d]) => d # writing /\ SameOpen(d) /\ Opened(stack[d])
    <2> TAKE d \in 1..writing'
    <2>1. d \in 1..writing
      BY <1>3
    <2>2. CASE d = writing
      <3>1. writing' = writing
        BY <1>1, <2>2
      <3>2. RejectChange
        BY <1>1, <3>1 DEF Discard
      <3> QED BY <2>2, <3>2 DEF RejectChange, Ended
    <2> QED BY <1>2, <2>1, <2>2 DEF SameOpen
  <1>5. /\ Len(commits') = m /\ DOMAIN commits' = 1..m
        /\ \A i \in 1..m : commits'[i] = commits[i]
    BY <1>1
  <1> HIDE DEF n
  <1>6. \A i \in Batches(commits, "POST") \cup Batches(commits, "PRE") : i \in 1..n
    BY <1>1 DEF Batches
  <1>7. \A j \in Batches(commits, "POST") : j > m =>
          \E i \in Batches(commits, "PRE") : i > m /\ Matches(commits, i, j)
    BY <1>1 DEF Nested, ClosedWithin
  <1>8. \A d \in 1..writing : d # writing /\ Opened(stack[d]) => stack[d].index + 1 <= m
    BY <1>1 DEF Nested, OpenRight
  <1>9. \A d \in 1..writing : Opened(stack[d]) /\ d # writing => OpenRightAt(d)
    BY DEF Nested, OpenRight, OpenRightAt
  <1>10. \A i \in 1..m : \A d \in {commits[i].batch} : OpenAt(i) => d \in 1..writing /\ d # writing /\ Opened(stack[d]) /\ stack[d].index = i - 1
    <2> TAKE i \in 1..m
    <2>1. m # i - 1
      BY <1>1
    <2> QED BY <2>1 DEF OpenAt
  <1> HIDE DEF m
  <1>11. /\ \A i \in 1..m, p \in {"PRE", "POST"} : i \in Batches(commits', p) <=> i \in Batches(commits, p)
         /\ \A i, j \in 1..m : Matches(commits', i, j) <=> Matches(commits, i, j)
    <2>1. m \in Nat /\ 1..m \subseteq DOMAIN commits /\ 1..m \subseteq DOMAIN commits'
      BY <1>1, <1>5
    <2>2. ASSUME NEW r, \A i \in 1..m : r[i] = commits[i], 1..m \subseteq DOMAIN r
          PROVE  /\ \A i \in 1..m, p \in {"PRE", "POST"} : i \in Batches(r, p) <=> i \in Batches(commits, p)
                 /\ \A i, j \in 1..m : Matches(r, i, j) <=> Matches(commits, i, j)
      BY <2>1, <2>2, SameBatches
    <2> QED BY <1>5, <2>1, <2>2
  <1>12. \A p \in {"PRE", "POST"} : \A i \in Batches(commits', p) : i \in 1..m /\ i \in Batches(commits, p)
    BY <1>5, <1>11 DEF Batches
  <1>13. \A i \in Batches(commits, "PRE"), j \in Batches(commits', "POST") :
           Matches(commits, i, j) => i \in Batches(commits', "PRE") /\ Matches(commits', i, j)
    <2> TAKE i \in Batches(commits, "PRE"), j \in Batches(commits', "POST")
    <2> HAVE Matches(commits, i, j)
    <2>1. i < j /\ j \in 1..m /\ i \in 1..n
      BY <1>6, <1>12 DEF Matches
    <2>2. i \in 1..m
      BY <1>1, <2>1
    <2> QED BY <1>11, <2>1, <2>2
  <1>14. ClosedRight'
    <2> SUFFICES ASSUME NEW j \in Batches(commits', "POST")
                 PROVE  \E i \in Batches(commits', "PRE") : Matches(commits', i, j)
      BY DEF ClosedRight
    <2>1. PICK i \in Batches(commits, "PRE") : Matches(commits, i, j)
      BY <1>12 DEF Nested, ClosedRight
    <2> QED BY <1>13, <2>1
  <1>15. OpenedRight'
    <2> SUFFICES ASSUME NEW i \in Batches(commits', "PRE")
                 PROVE  OpenAt(i)' \/ \E j \in Batches(commits', "POST") : Matches(commits', i, j)
      BY DEF OpenedRight
    <2>1. i \in 1..m /\ i \in Batches(commits, "PRE")
      BY <1>12
    <2>2. CASE OpenAt(i)
      <3>1. PICK d \in {commits[i].batch} : d \in 1..writing /\ d # writing /\ Opened(stack[d]) /\ stack[d].index = i - 1
        BY <1>10, <2>1, <2>2
      <3>2. d \in 1..writing'
        BY <1>1, <3>1
      <3>3. SameOpen(d) /\ commits'[i].batch = d
        BY <1>2, <1>5, <2>1, <3>1
      <3> QED BY <3>1, <3>2, <3>3 DEF OpenAt, SameOpen
    <2>3. ASSUME NEW j \in Batches(commits, "POST"), Matches(commits, i, j)
          PROVE  j \in 1..m
      <3> SUFFICES ASSUME j > m PROVE FALSE
        BY <1>1, <1>6
      <3>1. PICK ii \in Batches(commits, "PRE") : ii > m /\ Matches(commits, ii, j)
        BY <1>7
      <3>2. ii \in 1..n /\ ii < j /\ i < ii /\ j \in 1..n
        BY <1>1, <1>6, <2>1, <3>1 DEF Matches
      <3>3. ii \in (i + 1)..(j - 1)
        BY <1>1, <2>1, <3>2
      <3>4. commits[ii].batch > commits[i].batch
        BY <2>3, <3>1, <3>3 DEF Matches, Batches
      <3>5. commits[ii].batch = commits[j].batch /\ commits[j].batch = commits[i].batch
        BY <2>3, <3>1 DEF Matches
      <3>6. commits[i].batch \in Nat
        BY <1>1, <1>6, <2>1, BatchRanges DEF n, Batches
      <3> QED BY <3>4, <3>5, <3>6
    <2>4. OpenAt(i) \/ \E j \in Batches(commits, "POST") : Matches(commits, i, j)
      BY <2>1 DEF Nested, OpenedRight
    <2>5. ASSUME NEW j \in Batches(commits, "POST"), Matches(commits, i, j)
          PROVE  \E jj \in Batches(commits', "POST") : Matches(commits', i, jj)
      <3>1. j \in 1..m
        BY <2>3, <2>5
      <3> QED BY <1>11, <2>1, <2>5, <3>1
    <2> QED BY <2>2, <2>4, <2>5
  <1>16. OpenRight'
    <2>1. ASSUME NEW d \in 1..writing', Opened(stack'[d])
          PROVE  OpenRightAt(d)'
      <3> DEFINE k == stack[d].index + 1
      <3>1. d # writing /\ SameOpen(d) /\ Opened(stack[d]) /\ d \in 1..writing
        BY <1>3, <1>4, <2>1
      <3>2. /\ k \in Batches(commits, "PRE")
            /\ commits[k].batch = d /\ commits[k].obj = stack[d].obj
            /\ \A i \in (k + 1)..n : IsBatch(commits[i]) => commits[i].batch > d
            /\ \A e \in (d + 1)..writing : stack[e].index >= k
            /\ k <= m
        BY <1>8, <1>9, <3>1 DEF OpenRightAt, n
      <3>3. stack'[d].index + 1 = k /\ stack'[d].obj = stack[d].obj
        BY <3>1 DEF SameOpen
      <3> HIDE DEF k
      <3>4. k \in 1..m /\ k \in 1..n
        BY <1>1, <1>6, <3>2
      <3>5. k \in Batches(commits', "PRE") /\ commits'[k].batch = d /\ commits'[k].obj = stack'[d].obj
        BY <1>5, <1>11, <3>2, <3>3, <3>4
      <3>6. \A i \in (k + 1)..m : IsBatch(commits'[i]) => commits'[i].batch > d
        <4> TAKE i \in (k + 1)..m
        <4>1. i \in 1..m /\ i \in (k + 1)..n
          BY <1>1, <3>4
        <4> QED BY <1>5, <3>2, <4>1
      <3>7. \A e \in (d + 1)..writing' : stack'[e].index >= k
        <4> TAKE e \in (d + 1)..writing'
        <4>1. e \in 1..writing' /\ e \in (d + 1)..writing
          BY <1>1
        <4> QED BY <1>3, <3>2, <4>1
      <3> QED BY <1>5, <3>3, <3>5, <3>6, <3>7 DEF OpenRightAt
    <2> QED BY <2>1 DEF OpenRight, OpenRightAt
  <1>17. ClosedWithin'
    <2> SUFFICES ASSUME NEW d \in 1..writing', NEW j \in Batches(commits', "POST"), j > stack'[d].index
                 PROVE  \E i \in Batches(commits', "PRE") : i > stack'[d].index /\ Matches(commits', i, j)
      BY DEF ClosedWithin
    <2>1. d \in 1..writing /\ stack'[d].index = stack[d].index
      BY <1>3
    <2>2. PICK i \in Batches(commits, "PRE") : i > stack[d].index /\ Matches(commits, i, j)
      BY <1>12, <2>1 DEF Nested, ClosedWithin
    <2> QED BY <1>13, <2>1, <2>2
  <1>18. QueueNested'
    BY <1>1 DEF Nested, QueueNested
  <1> QED BY <1>14, <1>15, <1>16, <1>17, <1>18 DEF Nested

\* Once the first commit of a queue has been pushed, the others nest as before.
LEMMA TailNested ==
    ASSUME NEW q \in Seq(Commit), q # <<>>,
           \A i \in Batches(q, "PRE") : \E j \in Batches(q, "POST") : Matches(q, i, j)
    PROVE  \A i \in Batches(Tail(q), "PRE") : \E j \in Batches(Tail(q), "POST") : Matches(Tail(q), i, j)
  <1> DEFINE r == Tail(q)
             n == Len(q)
  <1>1. n \in Nat /\ n >= 1 /\ DOMAIN q = 1..n /\ DOMAIN r = 1..(n - 1) /\ \A i \in 1..(n - 1) : r[i] = q[i + 1]
    BY EmptySeq
  <1> HIDE DEF r, n
  <1> SUFFICES ASSUME NEW i \in Batches(r, "PRE")
               PROVE  \E j \in Batches(r, "POST") : Matches(r, i, j)
    BY DEF r
  <1>2. i \in 1..(n - 1) /\ IsBatch(r[i]) /\ r[i].phase = "PRE"
    BY <1>1 DEF Batches
  <1>3. i + 1 \in Batches(q, "PRE")
    BY <1>1, <1>2 DEF Batches
  <1>4. PICK j \in Batches(q, "POST") : Matches(q, i + 1, j)
    BY <1>3
  <1>5. j \in 1..n /\ i + 1 < j /\ IsBatch(q[j]) /\ q[j].phase = "POST"
    BY <1>1, <1>4 DEF Batches, Matches
  <1>6. PICK k \in 1..(n - 1) : j = k + 1
    <2>1. j - 1 \in 1..(n - 1) /\ j = (j - 1) + 1
      BY <1>1, <1>2, <1>5
    <2> QED BY <2>1
  <1>7. k \in Batches(r, "POST")
    BY <1>1, <1>5, <1>6 DEF Batches
  <1>8. Matches(r, i, k)
    <2>1. i < k
      BY <1>1, <1>2, <1>5, <1>6
    <2>2. r[i] = q[i + 1] /\ r[k] = q[j]
      BY <1>1, <1>2, <1>6
    <2>3. \A m \in (i + 1)..(k - 1) : IsBatch(r[m]) => r[m].batch > r[i].batch
      <3> TAKE m \in (i + 1)..(k - 1)
      <3>1. m \in 1..(n - 1) /\ m + 1 \in ((i + 1) + 1)..(j - 1)
        BY <1>1, <1>2, <1>6
      <3>2. r[m] = q[m + 1]
        BY <1>1, <3>1
      <3>3. IsBatch(q[m + 1]) => q[m + 1].batch > q[i + 1].batch
        BY <1>4, <3>1 DEF Matches
      <3> QED BY <2>2, <3>2, <3>3
    <2> QED BY <1>2, <1>4, <2>1, <2>2, <2>3 DEF Matches
  <1> QED BY <1>7, <1>8

LEMMA NestedPushes ==
    ASSUME IInv, Nested, HandOver \/ Merging \/ Told \/ Finishing
    PROVE  Nested'
  <1>1. ASSUME commits' = <<>>, QueueNested', \A d \in 1..writing' : ~ Opened(stack'[d])
        PROVE  Nested'
    <2>1. \A p : Batches(commits', p) = {}
      BY <1>1 DEF Batches
    <2> QED BY <1>1, <2>1 DEF Nested, ClosedRight, OpenedRight, OpenRight, ClosedWithin
  <1>2. CASE HandOver
    <2>1. /\ writing = 1 /\ writing' = 1 /\ stack'[1] = stack[1] /\ ~ Live(stack[1])
          /\ pushing'.queue = commits /\ commits' = <<>>
      BY <1>2 DEF HandOver, Below
    <2>2. ~ Opened(stack[1])
      BY <2>1 DEF Opened, Live, Phased, LivePhases
    <2>3. \A i : ~ OpenAt(i)
      BY <2>1, <2>2 DEF OpenAt
    <2>4. QueueNested'
      BY <2>1, <2>3 DEF QueueNested, Nested, OpenedRight
    <2> QED BY <1>1, <2>1, <2>2, <2>4
  <1>3. CASE Merging \/ Told
    <2>1. UNCHANGED <<stack, commits, writing>> /\ pushing.queue # <<>>
          /\ (pushing'.queue = pushing.queue \/ pushing' = NextCommit)
      BY <1>3 DEF Merging, Told, InsidePush
    <2>2. \A i \in Batches(Tail(pushing.queue), "PRE") :
            \E j \in Batches(Tail(pushing.queue), "POST") : Matches(Tail(pushing.queue), i, j)
      BY <2>1, TailNested DEF IInv, TypeOK, Nested, QueueNested
    <2>3. QueueNested'
      <3>1. CASE pushing'.queue = pushing.queue
        BY <3>1 DEF Nested, QueueNested
      <3>2. CASE pushing' = NextCommit
        <4>1. pushing'.queue = Tail(pushing.queue)
          BY <3>2 DEF NextCommit
        <4> QED BY <2>2, <4>1 DEF QueueNested
      <3> QED BY <2>1, <3>1, <3>2
    <2>4. ClosedRight' /\ OpenedRight' /\ OpenRight' /\ ClosedWithin'
      BY <2>1 DEF Nested, ClosedRight, OpenedRight, OpenAt, OpenRight, ClosedWithin
    <2> QED BY <2>3, <2>4 DEF Nested
  <1>4. CASE Finishing
    <2>1. InPush /\ writing' = 0 /\ commits' = commits /\ pushing'.queue = <<>>
      BY <1>4 DEF Finishing, NotPushing
    <2>2. commits = <<>>
      BY <2>1 DEF IInv, PushShape, InPush
    <2>3. QueueNested'
      BY <2>1 DEF QueueNested, Batches
    <2> QED BY <1>1, <2>1, <2>2, <2>3
  <1> QED BY <1>2, <1>3, <1>4

LEMMA NestedStep ==
    ASSUME IInv, Nested, [Next]_vars
    PROVE  Nested'
  BY StepKinds, NestedQuiet, NestedOpens, NestedSilent, NestedHistory, NestedCloses, NestedReverts, NestedPushes DEF Kinds

LEMMA InitNested == Init => Nested
  <1> SUFFICES ASSUME Init PROVE Nested
    OBVIOUS
  <1>1. commits = <<>> /\ writing = 0 /\ pushing.queue = <<>>
    BY DEF Init, NotPushing
  <1>2. \A p : Batches(commits, p) = {} /\ Batches(pushing.queue, p) = {}
    BY <1>1 DEF Batches
  <1>3. 1..writing = {}
    BY <1>1
  <1> QED BY <1>2, <1>3 DEF Nested, ClosedRight, OpenedRight, QueueNested, OpenRight, ClosedWithin

\* Every POST of a batch closes its PRE, with only whole batches between them, and
\* observers are never told of a batch that is not closed; whatever is rejected
\* or reverted in between.
THEOREM AlwaysBatchesNested == Spec => []BatchesNested
  <1>1. IInv /\ Nested /\ [Next]_vars => Nested'
    BY NestedStep
  <1>2. IInv /\ Nested => BatchesNested
    BY NestedShape DEF BatchesRight
  <1> QED BY Invariance, InitNested, <1>1, <1>2, PTL DEF Spec

-----------------------------------------------------------------------------
(* Reads, and the snapshots of the owner of the lock.                      *)

\* With a read context open the innermost context is one: the push is outside it.
LEMMA ReadTop ==
    ASSUME IInv, ReadOpen
    PROVE  reading # 0 /\ Top.kind \in {"read", "snapshot"}
  <1>1. /\ Len(stack) = writing + reading /\ writing \in Nat /\ reading \in Nat /\ DOMAIN stack = 1..Len(stack)
        /\ \A i \in DOMAIN stack : stack[i].kind \in WriteKinds <=> i <= writing
    BY DEF IInv, ReadsInsideWrites, TypeOK
  <1>2. PICK i \in DOMAIN stack : stack[i].kind \in {"read", "snapshot"}
    BY DEF ReadOpen
  <1>3. i > writing /\ i <= Len(stack) /\ i \in Nat
    BY <1>1, <1>2 DEF WriteKinds
  <1>4. Len(stack) \in DOMAIN stack /\ Len(stack) > writing /\ stack # <<>>
    BY <1>1, <1>3
  <1>5. Top.kind \in ReadKinds
    <2>1. Top \in Frame /\ Top.kind \notin WriteKinds
      BY <1>1, <1>4, TopFrame DEF IInv, Top
    <2> QED BY <2>1, FrameKinds
  <1>6. Top.kind # "push"
    <2> SUFFICES ASSUME Top.kind = "push" PROVE FALSE
      OBVIOUS
    <2>1. Len(stack) = 2 /\ writing = 1
      BY <1>4 DEF IInv, PushShape, Top
    <2>2. i = Len(stack)
      BY <1>3, <2>1
    <2> QED BY <1>2, <2>2 DEF Top
  <1> QED BY <1>1, <1>3, <1>5, <1>6 DEF ReadKinds

LEMMA ReadsKept ==
    ASSUME IInv, ReadOpen, [Next]_vars
    PROVE  UNCHANGED <<commits, storage, writing>>
  <1>1. reading # 0 /\ Top.kind \in {"read", "snapshot"}
    BY ReadTop
  <1>2. ASSUME NEW t \in Threads, EnterContext(t)
        PROVE  UNCHANGED <<commits, storage, writing>>
    BY <1>1, <1>2 DEF EnterContext, EnterWrite, BeginChange, EnterBatch, EnterRead, EnterSnapshot, Refused,
                      MayChange, MayWrite
  <1>3. ASSUME NEW t \in Threads, Work(t)
        PROVE  UNCHANGED <<commits, storage, writing>>
    BY <1>1, <1>3 DEF Work, InitObject, InitWithHistory, UpdateMetadata, CommitChange, EndChange, CloseBatch, MayCommit
  <1>4. ASSUME NEW t \in Threads, LeaveContext(t)
        PROVE  UNCHANGED <<commits, storage, writing>>
    BY <1>1, <1>4 DEF LeaveContext, LeaveWrite, LeaveTemporary, LeaveRead, Phased
  <1>5. ASSUME NEW t \in Threads, HandleException(t)
        PROVE  UNCHANGED <<commits, storage, writing>>
    BY <1>1, <1>5 DEF HandleException, Raise, Catch, CatchRejection, UnwindWrite, UnwindRead, CollectFailure,
                      Phased, WriteKinds
  <1>6. ASSUME NEW t \in Threads, Push(t)
        PROVE  UNCHANGED <<commits, storage, writing>>
    BY <1>1, <1>6 DEF Push, MergeStores, EndNotify, FinishPush, PushRuns, Pushing
  <1>7. ASSUME NEW t \in Threads, TakeSnapshot(t)
        PROVE  UNCHANGED <<commits, storage, writing>>
    BY <1>7 DEF TakeSnapshot, StartSnapshot, TestCommits, MergeCommits
  <1> QED BY <1>2, <1>3, <1>4, <1>5, <1>6, <1>7 DEF Next, vars

\* But for EnterSnapshot no step makes a snapshot context, or changes one, and
\* the snapshot in force only goes when one is left.
LEMMA SnapshotsKept ==
    ASSUME IInv, [Next]_vars, \A t \in Threads, s \in snaps : ~ EnterSnapshot(t, s)
    PROVE  /\ \A i \in SnapshotFrames' : i \in SnapshotFrames /\ stack'[i].of = stack[i].of
           /\ snapshot' = snapshot \/ \E i \in SnapshotFrames : i \notin SnapshotFrames'
  <1> DEFINE n == Len(stack)
             Goal == /\ \A i \in SnapshotFrames' : i \in SnapshotFrames /\ stack'[i].of = stack[i].of
                     /\ snapshot' = snapshot \/ \E i \in SnapshotFrames : i \notin SnapshotFrames'
  <1>1. stack \in Seq(Frame) /\ n \in Nat /\ DOMAIN stack = 1..n
    BY DEF IInv, TypeOK
  <1> HIDE DEF n
  \* The stack is cut, and a frame of another kind may be put on top of it.
  <1>2. ASSUME NEW m \in 0..n, DOMAIN stack' = 1..m, \A i \in 1..m : stack'[i] = stack[i]
        PROVE  \A i \in SnapshotFrames' : i \in SnapshotFrames /\ stack'[i].of = stack[i].of
    BY <1>1, <1>2 DEF SnapshotFrames
  <1>3. ASSUME NEW f \in Frame, f.kind # "snapshot", stack' = Append(stack, f), UNCHANGED snapshot
        PROVE  Goal
    <2>1. /\ DOMAIN stack' = 1..(n + 1) /\ stack'[n + 1] = f
          /\ \A i \in 1..n : stack'[i] = stack[i]
      BY <1>1, <1>3 DEF n
    <2>2. ASSUME NEW i \in SnapshotFrames'
          PROVE  i \in SnapshotFrames /\ stack'[i].of = stack[i].of
      <3>1. i \in 1..(n + 1) /\ stack'[i].kind = "snapshot"
        BY <2>1 DEF SnapshotFrames
      <3>2. i \in 1..n
        BY <1>1, <1>3, <2>1, <3>1
      <3> QED BY <1>1, <2>1, <3>1, <3>2 DEF SnapshotFrames
    <2> QED BY <1>3, <2>2
  <1>4. ASSUME NEW m \in 0..n, stack' = SubSeq(stack, 1, m)
        PROVE  /\ DOMAIN stack' = 1..m /\ \A i \in 1..m : stack'[i] = stack[i]
               /\ \A i \in SnapshotFrames' : i \in SnapshotFrames /\ stack'[i].of = stack[i].of
    <2>1. DOMAIN stack' = 1..m /\ \A i \in 1..m : stack'[i] = stack[i]
      BY <1>1, <1>4, Prefix DEF n
    <2> QED BY <1>2, <2>1
  <1>5. ASSUME NEW p, stack' = SetPhase(p), Top.kind # "snapshot", stack # <<>>, UNCHANGED snapshot
        PROVE  Goal
    <2>1. DOMAIN stack' = 1..n /\ \A i \in 1..n : i # n => stack'[i] = stack[i]
      BY <1>1, <1>5 DEF SetPhase, n
    <2>2. stack[n].kind # "snapshot" /\ n \in 1..n /\ stack[n] \in Frame
      BY <1>1, <1>5, TopFrame DEF Top, n, IInv
    <2>3. stack'[n].kind # "snapshot"
      <3>1. stack'[n] = [stack[n] EXCEPT !.phase = p]
        BY <1>1, <1>5, <2>2 DEF SetPhase, n
      <3>2. [stack[n] EXCEPT !.phase = p].kind = stack[n].kind
        BY <2>2 DEF Frame, WriteFrame, ContextFrame, ChangeFrame, BatchFrame, ReadFrame, SnapshotFrame
      <3> QED BY <2>2, <3>1, <3>2
    <2>4. ASSUME NEW i \in SnapshotFrames'
          PROVE  i \in SnapshotFrames /\ stack'[i].of = stack[i].of
      <3>1. i \in 1..n /\ stack'[i].kind = "snapshot" /\ i # n
        BY <2>1, <2>3 DEF SnapshotFrames
      <3> QED BY <1>1, <2>1, <3>1 DEF SnapshotFrames
    <2> QED BY <1>5, <2>4
  <1>6. ASSUME UNCHANGED <<stack, snapshot>>
        PROVE  Goal
    BY <1>6 DEF SnapshotFrames
  <1>7. ASSUME CloseReading, stack # <<>>
        PROVE  Goal
    <2>1. n - 1 \in 0..n /\ n \in DOMAIN stack /\ Top = stack[n]
      BY <1>1, <1>7, TopFrame DEF IInv, n, Top
    <2>2. stack' = SubSeq(stack, 1, n - 1)
      BY <1>7 DEF CloseReading, Pop, n
    <2>3. /\ DOMAIN stack' = 1..(n - 1)
          /\ \A i \in SnapshotFrames' : i \in SnapshotFrames /\ stack'[i].of = stack[i].of
      BY <1>4, <2>1, <2>2
    <2>4. CASE Top.kind = "snapshot"
      <3>1. n \in SnapshotFrames /\ n \notin SnapshotFrames'
        BY <1>1, <2>1, <2>3, <2>4 DEF SnapshotFrames
      <3> QED BY <2>3, <3>1
    <2>5. CASE Top.kind # "snapshot"
      BY <1>7, <2>3, <2>5 DEF CloseReading
    <2> QED BY <2>4, <2>5
  <1>8. ASSUME stack' = Pop, stack # <<>>, UNCHANGED snapshot
        PROVE  Goal
    <2>1. n - 1 \in 0..n
      BY <1>1, <1>8, TopFrame DEF IInv, n
    <2>2. stack' = SubSeq(stack, 1, n - 1)
      BY <1>8 DEF Pop, n
    <2> QED BY <1>4, <1>8, <2>1, <2>2
  <1>9. ASSUME NEW t \in Threads, EnterContext(t)
        PROVE  Goal
    <2>0. Current \in Contents /\ Len(commits) \in Nat
      BY Stores DEF IInv, TypeOK
    <2>1. ASSUME NEW f, Enter(t, f), f \in Frame, f.kind # "snapshot", UNCHANGED snapshot
          PROVE  Goal
      BY <1>3, <2>1 DEF Enter
    <2>2. ASSUME NEW kind \in {"write", "temporary"}, EnterWrite(t, kind)
          PROVE  Goal
      <3>1. [kind |-> kind, index |-> Len(commits)] \in Frame
        BY <2>0 DEF Frame, WriteFrame, ContextFrame
      <3> QED BY <2>1, <2>2, <3>1 DEF EnterWrite
    <2>3. ASSUME NEW o \in Objects, NEW v \in Values, BeginChange(t, o, v)
          PROVE  Goal
      <3>1. [kind |-> "change", index |-> Len(commits), obj |-> o,
             old |-> Current[o], new |-> v, phase |-> "PRE"] \in Frame
        BY <2>0 DEF Frame, WriteFrame, ChangeFrame, Contents, Stored
      <3> QED BY <2>1, <2>3, <3>1 DEF BeginChange
    <2>4. ASSUME NEW o \in Objects, EnterBatch(t, o)
          PROVE  Goal
      <3>1. [kind |-> "batch", index |-> Len(commits), obj |-> o, phase |-> "open"] \in Frame
        BY <2>0 DEF Frame, WriteFrame, BatchFrame
      <3> QED BY <2>1, <2>4, <3>1 DEF EnterBatch
    <2>5. ASSUME EnterRead(t)
          PROVE  Goal
      <3>1. [kind |-> "read"] \in Frame
        BY DEF Frame, ReadFrame
      <3> QED BY <2>1, <2>5, <3>1 DEF EnterRead
    <2>6. ASSUME Refused(t)
          PROVE  Goal
      BY <1>6, <2>6 DEF Refused
    <2> QED BY <1>9, <2>2, <2>3, <2>4, <2>5, <2>6 DEF EnterContext
  <1>10. ASSUME NEW t \in Threads, Work(t)
         PROVE  Goal
    <2>1. stack # <<>>
      BY <1>10, Running DEF Work, InitObject, InitWithHistory, UpdateMetadata, CommitChange, EndChange,
                            CloseBatch, MayCommit, UserCode
    <2>2. CASE UNCHANGED <<stack, snapshot>>
      BY <1>6, <2>2
    <2>3. CASE CommitChange(t)
      BY <1>5, <2>1, <2>3 DEF CommitChange
    <2>4. CASE EndChange(t)
      BY <1>5, <2>1, <2>4 DEF EndChange
    <2>5. CASE CloseBatch(t)
      BY <1>5, <2>1, <2>5 DEF CloseBatch
    <2> QED BY <1>10, <2>2, <2>3, <2>4, <2>5 DEF Work, InitObject, InitWithHistory, UpdateMetadata
  <1>11. ASSUME NEW t \in Threads, LeaveContext(t)
         PROVE  Goal
    <2>1. stack # <<>>
      BY <1>11, Running DEF LeaveContext, LeaveWrite, LeaveTemporary, LeaveRead, UserCode
    <2>2. CASE LeaveWrite(t)
      <3>1. CASE writing = 1
        <4>1. [kind |-> "push"] \in Frame /\ UNCHANGED snapshot
          BY <2>2 DEF Frame, ReadFrame, LeaveWrite
        <4>2. stack' = Append(stack, [kind |-> "push"])
          BY <2>2, <3>1 DEF LeaveWrite
        <4> QED BY <1>3, <4>1, <4>2
      <3>2. CASE writing # 1
        BY <1>8, <2>1, <2>2, <3>2 DEF LeaveWrite
      <3> QED BY <3>1, <3>2
    <2>3. CASE LeaveTemporary(t)
      BY <1>6, <2>3 DEF LeaveTemporary
    <2>4. CASE LeaveRead(t)
      BY <1>7, <2>1, <2>4 DEF LeaveRead
    <2> QED BY <1>11, <2>2, <2>3, <2>4 DEF LeaveContext
  <1>12. ASSUME NEW t \in Threads, HandleException(t)
         PROVE  Goal
    <2>1. stack # <<>>
      BY <1>12, Running DEF HandleException, Raise, Catch, CatchRejection, UnwindWrite, UnwindRead,
                            CollectFailure, UserCode
    <2>2. CASE Raise(t) \/ Catch(t) \/ CollectFailure(t)
      BY <1>6, <2>2 DEF Raise, Catch, CollectFailure
    <2>3. CASE CatchRejection(t)
      BY <1>5, <2>1, <2>3 DEF CatchRejection, Phased
    <2>4. CASE UnwindWrite(t)
      BY <1>8, <2>1, <2>4 DEF UnwindWrite
    <2>5. CASE UnwindRead(t)
      BY <1>7, <2>1, <2>5 DEF UnwindRead
    <2> QED BY <1>12, <2>2, <2>3, <2>4, <2>5 DEF HandleException
  <1>13. ASSUME NEW t \in Threads, Push(t)
         PROVE  Goal
    <2>1. CASE MergeStores(t) \/ EndNotify(t)
      BY <1>6, <2>1 DEF MergeStores, EndNotify
    <2>2. CASE FinishPush(t)
      <3>1. stack # <<>> /\ Top.kind = "push"
        BY <2>2 DEF FinishPush, PushRuns, Pushing
      <3>2. n = 2
        BY <2>2, <3>1, Running DEF FinishPush, PushRuns, n
      <3>3. n - 2 \in 0..n /\ stack' = SubSeq(stack, 1, n - 2) /\ UNCHANGED snapshot
        BY <2>2, <3>2 DEF FinishPush, n
      <3> QED BY <1>4, <3>3
    <2> QED BY <1>13, <2>1, <2>2 DEF Push
  <1>14. ASSUME NEW t \in Threads, TakeSnapshot(t)
         PROVE  Goal
    BY <1>6, <1>14 DEF TakeSnapshot, StartSnapshot, TestCommits, MergeCommits
  <1>15. CASE UNCHANGED vars
    BY <1>6, <1>15 DEF vars
  <1>16. Goal
    BY <1>9, <1>10, <1>11, <1>12, <1>13, <1>14, <1>15 DEF Next
  <1> QED BY <1>16

\* One goes on to read what the context was opened to read.
LEMMA StillAsOpened ==
    ASSUME IInv, IInv', [Next]_vars, AsOpened, ~ LeavesNestedSnapshot
    PROVE  AsOpened'
  <1>1. CASE SnapshotFrames' = {}
    <2>1. snapshot' = NoSnapshot
      BY <1>1 DEF IInv, SnapshotApplied
    <2>2. View' = Current'
      BY <2>1 DEF View
    <2> QED BY <1>1, <2>2 DEF AsOpened
  <1>2. ASSUME NEW t \in Threads, NEW s \in snaps, EnterSnapshot(t, s)
        PROVE  AsOpened'
    <2> DEFINE n == Len(stack)
               f == [kind |-> "snapshot", of |-> s]
    <2>1. s \in Contents /\ stack \in Seq(Frame) /\ n \in Nat
      BY DEF IInv, TypeOK
    <2>2. stack' = Append(stack, f) /\ snapshot' = s /\ f \in Frame
      BY <1>2, <2>1 DEF EnterSnapshot, Enter, Frame, SnapshotFrame
    <2>3. DOMAIN stack' = 1..(n + 1) /\ stack'[n + 1] = f
      BY <2>1, <2>2
    <2>4. n + 1 \in SnapshotFrames' /\ \A j \in SnapshotFrames' : j <= n + 1
      BY <2>1, <2>3 DEF SnapshotFrames
    <2>5. View' = s
      BY <2>1, <2>2, NullsAssumption DEF View, Contents, Stored
    <2> QED BY <2>3, <2>4, <2>5 DEF AsOpened
  <1>3. ASSUME SnapshotFrames' # {}, \A t \in Threads, s \in snaps : ~ EnterSnapshot(t, s)
        PROVE  AsOpened'
    <2>1. /\ \A i \in SnapshotFrames' : i \in SnapshotFrames /\ stack'[i].of = stack[i].of
          /\ snapshot' = snapshot \/ \E i \in SnapshotFrames : i \notin SnapshotFrames'
      BY <1>3, SnapshotsKept
    <2>2. \A i \in SnapshotFrames : i \in SnapshotFrames'
      BY <1>3 DEF LeavesNestedSnapshot
    <2>3. SnapshotFrames' = SnapshotFrames /\ snapshot' = snapshot /\ SnapshotFrames # {}
      BY <1>3, <2>1, <2>2
    <2>4. ReadOpen
      BY <2>3 DEF ReadOpen, SnapshotFrames
    <2>5. Current' = Current
      BY <2>4, ReadsKept DEF Current, LastStores, Merge
    <2>6. View' = View
      BY <2>3, <2>5 DEF View
    <2>7. PICK i \in SnapshotFrames : (\A j \in SnapshotFrames : j <= i) /\ View = stack[i].of
      BY <2>3 DEF AsOpened
    <2>8. /\ i \in SnapshotFrames' /\ \A j \in SnapshotFrames' : j <= i
          /\ View' = stack'[i].of
      BY <2>1, <2>2, <2>3, <2>6, <2>7
    <2> QED BY <2>8 DEF AsOpened
  <1> QED BY <1>1, <1>2, <1>3

\* While a read context is open the present does not change; and in every context
\* one reads what it was opened to read - its snapshot or the present - unless a
\* snapshot context is left inside another one.
THEOREM ReadsAlwaysRepeatable == Spec => ReadsRepeatable
  <1>1. ASSUME IInv, IInv', [Next]_vars
        PROVE  [/\ ReadOpen => Current' = Current
                /\ (AsOpened /\ ~ LeavesNestedSnapshot) => AsOpened']_vars
    <2>1. ReadOpen => Current' = Current
      BY <1>1, ReadsKept DEF Current, LastStores, Merge
    <2>2. (AsOpened /\ ~ LeavesNestedSnapshot) => AsOpened'
      BY <1>1, StillAsOpened
    <2> QED BY <2>1, <2>2
  <1> QED BY Invariance, <1>1, PTL DEF Spec, ReadsRepeatable

LEMMA CodeSteps ==
    ASSUME NEW s \in Threads,
           EnterContext(s) \/ Work(s) \/ LeaveContext(s) \/ HandleException(s) \/ Push(s)
    PROVE  /\ UNCHANGED <<taking, snaps>>
           /\ owner' \in {owner, NoThread, s}
           /\ \/ owner \in {s, NoThread} /\ taking[s] = Idle
              \/ owner = s /\ raising # NoException
  <1>1. CASE EnterContext(s)
    BY <1>1 DEF EnterContext, EnterWrite, BeginChange, EnterBatch, EnterRead, EnterSnapshot, Refused,
                MayChange, MayWrite, MayEnter, UserCode, Enter
  <1>2. CASE Work(s)
    BY <1>2 DEF Work, InitObject, InitWithHistory, UpdateMetadata, CommitChange, EndChange, CloseBatch, MayCommit, UserCode
  <1>3. CASE LeaveContext(s)
    BY <1>3 DEF LeaveContext, LeaveWrite, LeaveTemporary, LeaveRead, CloseReading, UserCode
  <1>4. CASE HandleException(s)
    <2>1. ASSUME Raise(s)
          PROVE  UNCHANGED <<owner, taking, snaps>> /\ owner = s /\ taking[s] = Idle
      BY <2>1 DEF Raise, UserCode
    <2>2. ASSUME Catch(s) \/ CatchRejection(s) \/ CollectFailure(s)
          PROVE  UNCHANGED <<owner, taking, snaps>> /\ owner = s /\ raising # NoException
      BY <2>2 DEF Catch, CatchRejection, CollectFailure, Reject, NoException
    <2>3. ASSUME UnwindWrite(s)
          PROVE  UNCHANGED <<taking, snaps>> /\ owner' \in {owner, NoThread} /\ owner = s /\ raising # NoException
      BY <2>3 DEF UnwindWrite
    <2>4. ASSUME UnwindRead(s)
          PROVE  UNCHANGED <<taking, snaps>> /\ owner' \in {owner, NoThread} /\ owner = s /\ raising # NoException
      BY <2>4 DEF UnwindRead, CloseReading
    <2> QED BY <1>4, <2>1, <2>2, <2>3, <2>4 DEF HandleException
  <1>5. CASE Push(s)
    BY <1>5 DEF Push, MergeStores, EndNotify, FinishPush, PushRuns
  <1> QED BY <1>1, <1>2, <1>3, <1>4, <1>5

LEMMA SnapshotSteps ==
    ASSUME TypeOK, NEW s \in Threads, TakeSnapshot(s)
    PROVE  /\ UNCHANGED <<owner, commits, storage, writing, raising>>
           /\ \A t \in Threads : t # s => taking'[t] = taking[t]
           /\ \/ /\ taking[s] = Idle /\ taking'[s] = [pc |-> "test", base |-> storage]
                 /\ owner = s => raising = NoException
              \/ /\ taking[s] # Idle /\ commits # <<>>
                 /\ taking'[s] # Idle => taking'[s].base = taking[s].base
              \/ taking'[s] = Idle
  <1>1. taking \in [Threads -> Taking]
    BY DEF TypeOK
  <1>2. CASE StartSnapshot(s)
    BY <1>1, <1>2 DEF StartSnapshot, UserCode
  <1>3. CASE TestCommits(s)
    <2>1. taking[s] # Idle /\ taking[s] \in [pc : {"test", "merge"}, base : Contents]
      BY <1>1, <1>3 DEF TestCommits, Idle, Taking
    <2>2. commits # <<>> => taking' = [taking EXCEPT ![s].pc = "merge"]
      BY <1>3 DEF TestCommits
    <2> QED BY <1>1, <1>3, <2>1, <2>2 DEF TestCommits, EndTaking
  <1>4. CASE MergeCommits(s)
    BY <1>1, <1>4 DEF MergeCommits, EndTaking
  <1> QED BY <1>2, <1>3, <1>4 DEF TakeSnapshot

LEMMA TakingStep ==
    ASSUME IInv, TakingRight, [Next]_vars
    PROVE  TakingRight'
  <1> SUFFICES ASSUME NEW t \in Threads, owner' = t, taking'[t] # Idle
               PROVE  /\ raising' = NoException
                      /\ taking'[t].base = storage'
                      /\ taking'[t].pc = "merge" => commits' # <<>>
    BY DEF TakingRight
  <1>1. CASE UNCHANGED vars
    BY <1>1 DEF vars, TakingRight
  <1>2. ASSUME NEW s \in Threads,
               EnterContext(s) \/ Work(s) \/ LeaveContext(s) \/ HandleException(s) \/ Push(s)
        PROVE  FALSE
    BY <1>2, CodeSteps, NullsAssumption DEF TakingRight
  <1>3. ASSUME NEW s \in Threads, TakeSnapshot(s)
        PROVE  /\ raising' = NoException
               /\ taking'[t].base = storage'
               /\ taking'[t].pc = "merge" => commits' # <<>>
    <2>1. /\ UNCHANGED <<owner, commits, storage, writing, raising>>
          /\ \A u \in Threads : u # s => taking'[u] = taking[u]
          /\ \/ /\ taking[s] = Idle /\ taking'[s] = [pc |-> "test", base |-> storage]
                /\ owner = s => raising = NoException
             \/ /\ taking[s] # Idle /\ commits # <<>>
                /\ taking'[s] # Idle => taking'[s].base = taking[s].base
             \/ taking'[s] = Idle
      BY <1>3, SnapshotSteps DEF IInv
    <2>2. CASE t # s
      BY <2>1, <2>2 DEF TakingRight
    <2>3. CASE t = s
      BY <2>1, <2>3 DEF TakingRight
    <2> QED BY <2>2, <2>3
  <1> QED BY <1>1, <1>2, <1>3 DEF Next

LEMMA OwnerTakes ==
    ASSUME IInv, TakingRight, Next, NEW t \in Threads, owner = t, taking[t] # Idle, taking'[t] = Idle
    PROVE  Current \in snaps'
  <1>1. raising = NoException /\ taking[t].base = storage /\ (taking[t].pc = "merge" => commits # <<>>)
    BY DEF TakingRight
  <1>2. ASSUME NEW s \in Threads,
               EnterContext(s) \/ Work(s) \/ LeaveContext(s) \/ HandleException(s) \/ Push(s)
        PROVE  FALSE
    BY <1>2, CodeSteps
  <1>3. PICK s \in Threads : TakeSnapshot(s)
    BY <1>2 DEF Next
  <1>4. s = t
    BY <1>3, SnapshotSteps DEF IInv
  <1>5. storage \in Contents /\ commits \in Seq(Commit) /\ Len(commits) \in Nat /\ taking \in [Threads -> Taking]
    BY DEF IInv, TypeOK
  <1>6. commits # <<>> => writing > 0
    BY DEF IInv, IndexShape, TypeOK
  <1>7. CASE StartSnapshot(t)
    BY <1>5, <1>7 DEF StartSnapshot
  <1>8. CASE TestCommits(t)
    <2>1. commits = <<>>
      <3> SUFFICES ASSUME commits # <<>> PROVE FALSE
        OBVIOUS
      <3>1. taking' = [taking EXCEPT ![t].pc = "merge"]
        BY <1>8 DEF TestCommits
      <3>2. taking[t] \in [pc : {"test", "merge"}, base : Contents]
        BY <1>5 DEF Taking, Idle
      <3>3. taking'[t].pc = "merge"
        BY <1>5, <3>1, <3>2
      <3> QED BY <3>3 DEF Idle
    <2>2. storage \in snaps'
      BY <1>1, <1>8, <2>1 DEF TestCommits, Keep
    <2>3. Current = storage
      BY <1>5, <2>1 DEF Current, LastStores, Merge, NoStores, Contents
    <2> QED BY <2>2, <2>3
  <1>9. CASE MergeCommits(t)
    <2>1. commits # <<>> /\ writing > 0
      BY <1>1, <1>6, <1>9 DEF MergeCommits
    <2>2. Merge(storage, LastStores) \in snaps'
      BY <1>1, <1>9, <2>1 DEF MergeCommits, Keep, Captured
    <2> QED BY <2>1, <2>2 DEF Current
  <1> QED BY <1>3, <1>4, <1>7, <1>8, <1>9 DEF TakeSnapshot

\* What a thread captures where it may write is what it reads there: nothing moves
\* between its tests of the attributes, whatever other threads take meanwhile.
THEOREM OwnerSnapshotsExact == Spec => OwnerSnapshotExact
  <1>1. Init => TakingRight
    BY NullsAssumption DEF Init, TakingRight
  <1>2. IInv /\ TakingRight /\ [Next]_vars => TakingRight'
    BY TakingStep
  <1>3. ASSUME IInv, TakingRight, [Next]_vars
        PROVE  [\A t \in Threads : (owner = t /\ taking[t] # Idle /\ taking'[t] = Idle) => Current \in snaps']_vars
    BY <1>3, OwnerTakes
  <1> QED BY Invariance, <1>1, <1>2, <1>3, PTL DEF Spec, OwnerSnapshotExact
=============================================================================
