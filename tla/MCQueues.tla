------------------------------ MODULE MCQueues ------------------------------
(* The queue, and where it is kept, on small instances.  The two models share *)
(* no variable: one of them moves, the other stays where it began.            *)
EXTENDS PlayQueue, QueueSync

CONSTANTS t1, t2, t3

VARIABLE part   \* the one that moves

QueuesInit == Init /\ SyncInit /\ part \in {"queue", "kept"}
QueuesNext ==
    \/ part = "queue" /\ Next /\ UNCHANGED <<syncVars, part>>
    \/ part = "kept" /\ SyncNext /\ UNCHANGED <<vars, part>>
QueuesSpec == QueuesInit /\ [][QueuesNext]_<<vars, syncVars, part>>

\* The tracks that are not explicit are interchangeable.
TrackSymmetry == Permutations({t2, t3})

\* Of what moves: `op`, the last operation, is for the step properties only,
\* which TLC checks on every step; states that differ in it behave alike.
QueuesView == IF part = "queue" THEN <<part, queue>> ELSE <<part, syncVars>>
=============================================================================
