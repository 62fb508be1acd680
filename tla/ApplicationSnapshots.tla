------------------------ MODULE ApplicationSnapshots ------------------------
(***************************************************************************)
(* What the documentation promises of snapshots, against Application: a    *)
(* history variable records what the application contained while a thread  *)
(* was inside take_snapshot.                                               *)
(***************************************************************************)
EXTENDS ApplicationProperties

VARIABLE during    \* per thread, contents the application had since the start

SnapshotInit == Init /\ during = [t \in Threads |-> {}]

SnapshotNext ==
    /\ Next
    /\ during' = [t \in Threads |->
         IF taking'[t] = Idle THEN {} ELSE during[t] \cup {Current'}]

SnapshotSpec == SnapshotInit /\ [][SnapshotNext]_<<vars, during>>

\* A snapshot "freezes entire application state at a moment in time": what
\* take_snapshot keeps is what the application contained at one moment between
\* its start and its end (committed, or as the writing thread saw it).
SnapshotIsAMoment ==
    [][\A t \in Threads :
         (taking[t] # Idle /\ taking'[t] = Idle)
            => snaps' \subseteq snaps \cup during[t]]_<<vars, during>>
=============================================================================
