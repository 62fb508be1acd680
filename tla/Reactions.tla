------------------------------ MODULE Reactions ------------------------------
(***************************************************************************)
(* The reactions of an object to its children (objetto/_reactions.py):     *)
(* UniqueAttributes, which rejects or changes names that another child has *)
(* and keeps a cache of names, and LimitChildren (Limit is the same for    *)
(* the values of an object); in the order in which a write runs reactions, *)
(* with the writes that the program's own reactions nest into it.          *)
(*                                                                         *)
(* A write goes through the reactions of its object, of the parent and of  *)
(* the grandparent before it is committed and again after that; the write  *)
(* of a newcomer, which the object does not hold, through its own only.    *)
(* The parent has the reactions modelled here; those of the child and of   *)
(* the grandparent are the program's: each may write to one other child.   *)
(***************************************************************************)
EXTENDS Integers, Sequences, FiniteSets, SequencesExt

CONSTANTS
    Children,
    Names,          \* values of the attribute that is unique
    Incremented,    \* the incrementer: per name, the next one; None: there is none
    Limits,         \* pairs <<minimum, maximum>> of LimitChildren
    Programs,       \* sets of Habits
    None,
    MaxCalls,       \* bound, per program: its calls from its own code
    MaxNested,      \* bound: updates in each other
    MaxRejections   \* bound: rejections are counted up to that

ASSUME ReactionsAssumption ==
    /\ IsFiniteSet(Children) /\ None \notin Children
    /\ None \notin Names /\ Incremented \in [Names -> Names \cup {None}]
    /\ Limits \subseteq Nat \X Nat
    /\ \A p \in Programs : p \subseteq {"child before", "grandparent before", "child after",
                                      "newcomer before", "newcomer after"}
    /\ MaxRejections \in Nat /\ MaxCalls \in [Programs -> Nat]

VARIABLES
    program,        \* one of Programs
    limits,         \* one of Limits
    names,          \* per child, its name
    held,           \* the children of the object
    cache,          \* per name, the child that has it in the cache, or None
    writes,         \* writes in progress, innermost last
    rejections,     \* of the innermost write in progress
    calls           \* made so far

vars == <<program, limits, names, held, cache, writes, rejections, calls>>

\* Where the program's reactions write: a child's own before the change, the
\* grandparent's before the change, the child's own after it; and those of a child
\* that is not held before and after the change.
Habits == {"child before", "grandparent before", "child after",
           "newcomer before", "newcomer after"}

Minimum == limits[1]
Maximum == limits[2]

Stores == [names |-> names, held |-> held, cache |-> cache]

Innermost == Last(writes)

UpdateOf(c, name) ==
    [type |-> "update", child |-> c, name |-> name, old |-> names[c],
     phase |-> IF c \in held THEN "child before" ELSE "newcomer before", start |-> Stores]

\* given are the names that the children get before they come, left those of them
\* that still have another.
ChildrenOf(coming, leaving, undoing) ==
    [type |-> "children", coming |-> coming, leaving |-> leaving, undoing |-> undoing,
     given |-> names, left |-> {}, phase |-> "check", start |-> Stores]

Busy == {writes[n].child : n \in {m \in DOMAIN writes : writes[m].type = "update"}}

\* The children that a write in progress brings.
Coming == UNION {writes[n].coming : n \in {m \in DOMAIN writes : writes[m].type = "children"}}

WithPhase(phase) == [writes EXCEPT ![Len(writes)].phase = phase]

-----------------------------------------------------------------------------
(* Calls of the program, from its own code and from its reactions.         *)

Called == calls < MaxCalls[program] /\ calls' = calls + 1

CallUpdate(c, name) ==
    /\ writes = <<>> /\ names[c] # name
    /\ writes' = <<UpdateOf(c, name)>> /\ rejections' = 0
    /\ Called
    /\ UNCHANGED <<program, limits, names, held, cache>>

\* (mutant) Children that leave are not counted.
NewLengthOff(coming, leaving) == Cardinality(held) + Cardinality(coming)

NewLength(coming, leaving) == Cardinality(held) + Cardinality(coming) - Cardinality(leaving)

\* A history undoes only what passed the check when it was done.
CallChildren(coming, leaving, undoing) ==
    /\ writes = <<>> /\ coming \cup leaving # {}
    /\ coming \cap held = {} /\ leaving \subseteq held
    /\ undoing /\ NewLength(coming, leaving) >= Minimum => Cardinality(held) >= Minimum
    /\ writes' = <<ChildrenOf(coming, leaving, undoing)>> /\ rejections' = 0
    /\ Called
    /\ UNCHANGED <<program, limits, names, held, cache>>

After(phase) == CASE phase = "child before" -> "check"
                  [] phase \in {"grandparent before", "newcomer before"} -> "commit"
                  [] phase \in {"child after", "newcomer after"} -> "cache"

\* A reaction of the program writes to another child that is not being written.
NestedUpdate(c, name) ==
    /\ writes # <<>> /\ Cardinality(Busy) < MaxNested
    /\ Innermost.phase \in program
    /\ c \in (held \cup Coming) \ Busy /\ names[c] # name
    /\ writes' = Append(WithPhase(After(Innermost.phase)), UpdateOf(c, name))
    /\ rejections' = 0
    /\ UNCHANGED <<program, limits, calls, names, held, cache>>

\* It does not, or the program has no such reaction.
NothingNested ==
    /\ writes # <<>> /\ Innermost.phase \in Habits
    /\ writes' = WithPhase(After(Innermost.phase))
    /\ UNCHANGED <<program, limits, calls, names, held, cache, rejections>>

-----------------------------------------------------------------------------
(* UniqueAttributes and LimitChildren, before the change.                  *)

\* (mutant) The cache is asked instead of the children.
TakenInCache(c, name) == cache[name] \notin {c, None}

\* Another child has the name.
Taken(c, name) == \E d \in held \ {c} : names[d] = name

\* The name of the incrementer is of no use.
Unavailable(c, name) == name = None \/ Taken(c, name)

\* An error reverts everything that the outermost write did.
Fail ==
    /\ names' = writes[1].start.names
    /\ held' = writes[1].start.held
    /\ cache' = writes[1].start.cache
    /\ writes' = <<>> /\ rejections' = 0
    /\ UNCHANGED <<program, limits, calls>>

Passes(phase) ==
    /\ writes' = WithPhase(phase)
    /\ UNCHANGED <<program, limits, calls, names, held, cache, rejections>>

\* (mutant) The child is updated with the name that was rejected.
Retried(w, name) == [w EXCEPT !.phase = "child before"]

\* The update of the callback, in place of the one that was rejected.
Replacing(w, name) == [w EXCEPT !.name = name, !.phase = "child before"]

\* RejectChangeException: the write is reverted and its callback updates the
\* child with the name of the incrementer.
Reject(name) ==
    LET start == Innermost.start
    IN  /\ names' = start.names /\ held' = start.held /\ cache' = start.cache
        /\ writes' = Append(Front(writes), Replacing(Innermost, name))
        /\ rejections' = IF rejections = MaxRejections THEN rejections ELSE rejections + 1
        /\ UNCHANGED <<program, limits, calls>>

NextName(name) == Incremented[name]

\* The change of an update has only values that differ, and the reactions of the
\* object run only if it holds the child.
Changes(w) == w.child \in held /\ w.name # w.old

CheckUpdate ==
    LET c == Innermost.child
        name == Innermost.name
    IN  /\ writes # <<>> /\ Innermost.type = "update" /\ Innermost.phase = "check"
        /\ \/ ~ (Changes(Innermost) /\ Taken(c, name)) /\ Passes("grandparent before")
           \/ /\ Changes(Innermost) /\ Taken(c, name)
              /\ IF Unavailable(c, NextName(name)) THEN Fail ELSE Reject(NextName(name))

\* How many of the children there and to come have a name.
CountIn(given, name) == Cardinality({c \in DOMAIN given : given[c] = name})

\* The names given to the children that come, one after the other: each that is
\* not the only one with its name gets the next name, if nobody has it.
Given(order) ==
    LET after[n \in 0..Len(order)] ==
          IF n = 0 THEN [ok |-> TRUE, names |-> [c \in held \cup ToSet(order) |-> names[c]]]
          ELSE LET g == after[n - 1]
                   c == order[n]
                   name == g.names[c]
               IN  IF ~ g.ok \/ CountIn(g.names, name) = 1 THEN g
                   ELSE IF NextName(name) = None \/ CountIn(g.names, NextName(name)) > 0
                        THEN [g EXCEPT !.ok = FALSE]
                        ELSE [g EXCEPT !.names[c] = NextName(name)]
    IN  after[Len(order)]

WithinLimits(w) ==
    /\ NewLength(w.coming, w.leaving) <= Maximum
    /\ Cardinality(held) >= Minimum /\ ~ w.undoing =>
         NewLength(w.coming, w.leaving) >= Minimum

CheckChildren ==
    LET coming == Innermost.coming
    IN  /\ writes # <<>> /\ Innermost.type = "children" /\ Innermost.phase = "check"
        /\ \E order \in SetToSeqs(coming) :
             LET given == [c \in Children |-> IF c \in coming THEN Given(order).names[c]
                                             ELSE names[c]]
             IN  IF ~ Given(order).ok \/ ~ WithinLimits(Innermost) THEN Fail
                 ELSE /\ writes' = [writes EXCEPT ![Len(writes)].phase = "rename",
                                       ![Len(writes)].given = given,
                                       ![Len(writes)].left = {c \in coming : given[c] # names[c]}]
                      /\ UNCHANGED <<program, limits, calls, names, held, cache, rejections>>

\* Each of them is updated with the name given to it, in a write of its own.
Rename(c) ==
    /\ writes # <<>> /\ Innermost.phase = "rename" /\ c \in Innermost.left
    /\ writes' = Append([writes EXCEPT ![Len(writes)].left = @ \ {c}],
                        UpdateOf(c, Innermost.given[c]))
    /\ rejections' = 0
    /\ UNCHANGED <<program, limits, calls, names, held, cache>>

AllRenamed ==
    /\ writes # <<>> /\ Innermost.phase = "rename" /\ Innermost.left = {}
    /\ Passes("grandparent before")

-----------------------------------------------------------------------------
(* The commit and what follows.                                            *)

\* The metadata of the object, and the cache in it, are those that the change of its
\* children was made from: what nested writes put there since is gone.
Commit ==
    /\ writes # <<>> /\ Innermost.phase = "commit"
    /\ IF Innermost.type = "update"
       THEN /\ names' = [names EXCEPT ![Innermost.child] = Innermost.name]
            /\ writes' = WithPhase(IF Innermost.child \in held THEN "child after"
                                   ELSE "newcomer after")
            /\ UNCHANGED <<held, cache>>
       ELSE /\ held' = (held \ Innermost.leaving) \cup Innermost.coming
            /\ cache' = Innermost.start.cache
            /\ writes' = WithPhase("cache")
            /\ UNCHANGED names
    /\ UNCHANGED <<program, limits, calls, rejections>>

\* (mutant) The old name of an update stays.
CacheKept(w) ==
    IF w.type = "update"
    THEN IF Changes(w) THEN [cache EXCEPT ![w.name] = w.child] ELSE cache
    ELSE [n \in Names |->
            IF \E c \in w.coming : names[c] = n THEN CHOOSE c \in w.coming : names[c] = n
            ELSE IF \E c \in w.leaving : names[c] = n THEN None ELSE cache[n]]

Cached(w) ==
    IF w.type = "update"
    THEN IF Changes(w) THEN [cache EXCEPT ![w.old] = None, ![w.name] = w.child]
         ELSE cache
    ELSE [n \in Names |->
            IF \E c \in w.coming : names[c] = n THEN CHOOSE c \in w.coming : names[c] = n
            ELSE IF \E c \in w.leaving : names[c] = n THEN None ELSE cache[n]]

Finish ==
    /\ writes # <<>> /\ Innermost.phase = "cache"
    /\ cache' = Cached(Innermost)
    /\ writes' = Front(writes) /\ rejections' = 0
    /\ UNCHANGED <<program, limits, calls, names, held>>

-----------------------------------------------------------------------------
Init ==
    /\ program \in Programs /\ limits \in Limits
    /\ names \in [Children -> Names]
    /\ held = {} /\ cache = [n \in Names |-> None]
    /\ writes = <<>> /\ rejections = 0 /\ calls = 0

Calls ==
    \/ \E c \in Children, name \in Names : CallUpdate(c, name)
    \/ \E coming, leaving \in SUBSET Children, undoing \in BOOLEAN :
         CallChildren(coming, leaving, undoing)

Runs ==
    \/ \E c \in Children, name \in Names : NestedUpdate(c, name)
    \/ NothingNested
    \/ CheckUpdate
    \/ CheckChildren
    \/ \E c \in Children : Rename(c)
    \/ AllRenamed
    \/ Commit
    \/ Finish

Steps == Calls \/ Runs

\* A write that was called goes on by itself.
Spec == Init /\ [][Steps]_vars /\ WF_vars(Runs)

-----------------------------------------------------------------------------
TypeOK ==
    /\ program \subseteq Habits /\ limits \in Limits
    /\ names \in [Children -> Names] /\ held \subseteq Children
    /\ cache \in [Names -> Children \cup {None}]
    /\ \A n \in DOMAIN writes :
         writes[n].phase \in Habits \cup {"check", "rename", "commit", "cache"}
    /\ rejections \in 0..MaxRejections /\ calls \in 0..MaxCalls[program]

Differ == \A c, d \in held : names[c] = names[d] => c = d

\* The program writes to other children between the check and the commit of a write:
\* from reactions of the grandparent (_applications.py:894) or of the children that
\* come, which get their names there (_reactions.py:301).
WritesAfterCheck ==
    program \cap {"grandparent before", "newcomer before", "newcomer after"} # {}

\* No two children have one name, whatever is nested, unless the program writes to
\* other children between a check and its commit.
UniqueNames == ~ WritesAfterCheck => Differ

\* The cache has the names of the children, and no others, when no write is in
\* progress, unless the program writes between check and commit or a child's reaction
\* gives its old name away (_reactions.py:387).
CacheExact ==
    /\ TypeOK
    /\ writes = <<>> /\ ~ WritesAfterCheck /\ "child after" \notin program =>
         \A n \in Names : IF cache[n] = None THEN \A c \in held : names[c] # n
                          ELSE cache[n] \in held /\ names[cache[n]] = n

Undoing == \E n \in DOMAIN writes : writes[n].type = "children" /\ writes[n].undoing

\* There are never too many children, and enough once there were enough, unless a
\* history undoes what made them enough (_reactions.py:593).
LimitsKept ==
    /\ Cardinality(held) <= Maximum
    /\ \A n \in DOMAIN writes :
         Cardinality(writes[n].start.held) >= Minimum /\ ~ Undoing =>
           Cardinality(held) >= Minimum

\* Every write that is called ends, if no child's own reaction writes before it: a
\* change is rejected once at most, since the name it gets instead passes the check.
WritesEnd ==
    "child before" \notin program =>
      [](rejections <= 1) /\ (writes # <<>> ~> writes = <<>>)
=============================================================================
