----------------------------- MODULE WorkerPool -----------------------------
(***************************************************************************)
(* What the pool of workers promises of the jobs that come to it, for      *)
(* whoever looks at jobs as a whole and for whoever looks into them: never *)
(* more than Capacity at work, a worker only for a job that asked for one, *)
(* and for each job at most once. Whoever waits may be next: the channel   *)
(* behind the pool is not known to keep an order. A crash ends everything. *)
(***************************************************************************)
EXTENDS Naturals, FiniteSets

CONSTANTS Jobs, Capacity

VARIABLES
    waiting,  \* jobs that wait for a worker
    working,  \* jobs that have one
    over      \* jobs that will not ask for one any more

pool == <<waiting, working, over>>

Init == waiting = {} /\ working = {} /\ over = {}

Join(j) ==
    /\ j \notin waiting \cup working \cup over
    /\ waiting' = waiting \cup {j}
    /\ UNCHANGED <<working, over>>

\* The job never asks: it was refused before.
TurnAway(j) ==
    /\ j \notin waiting \cup working \cup over
    /\ over' = over \cup {j}
    /\ UNCHANGED <<waiting, working>>

Start(j) ==
    /\ j \in waiting
    /\ Cardinality(working) < Capacity
    /\ waiting' = waiting \ {j}
    /\ working' = working \cup {j}
    /\ UNCHANGED over

Finish(j) ==
    /\ j \in working
    /\ working' = working \ {j}
    /\ over' = over \cup {j}
    /\ UNCHANGED waiting

\* Jobs that had not come to the pool yet may be gone as well.
Crash ==
    /\ waiting' = {} /\ working' = {}
    /\ waiting \cup working \cup over \subseteq over'
    /\ over' \subseteq Jobs

Next ==
    \/ \E j \in Jobs : Join(j) \/ TurnAway(j) \/ Start(j) \/ Finish(j)
    \/ Crash

Spec == Init /\ [][Next]_pool
=============================================================================
