---------------------------- MODULE SteadyBuckets ----------------------------
(***************************************************************************)
(* What a rate limiter by token buckets promises: tokens fall into every   *)
(* bucket at a steady rate, at every tick and whether anyone calls or not, *)
(* until it is full, and nobody is served without taking a token out,      *)
(* except for the one who brings the bucket.                               *)
(***************************************************************************)
EXTENDS Integers

CONSTANTS
    Callers,   \* who may be served
    Keys,      \* the names of the buckets
    keyOf,     \* caller -> the bucket he takes from
    Rate,      \* what falls into a bucket in a tick
    Cost,      \* what is taken out of it
    Capacity,  \* what fits in
    None       \* the level of a bucket that nobody brought yet

VARIABLES
    level,     \* key -> what the bucket holds at this moment, or None
    time,      \* ticks so far
    served     \* caller -> when he was last served

meter == <<level, time, served>>

Init ==
    /\ level = [k \in Keys |-> None]
    /\ time = 0
    /\ served \in [Callers -> Int]

Serve(c) ==
    /\ served' = [served EXCEPT ![c] = time]
    /\ UNCHANGED time

(* The first caller of a bucket finds it full and takes nothing.           *)
Open(c) ==
    /\ level[keyOf[c]] = None
    /\ level' = [level EXCEPT ![keyOf[c]] = Capacity]
    /\ Serve(c)

Take(c) ==
    /\ level[keyOf[c]] # None
    /\ level[keyOf[c]] >= Cost
    /\ level' = [level EXCEPT ![keyOf[c]] = @ - Cost]
    /\ Serve(c)

Filled(n) == IF n + Rate > Capacity THEN Capacity ELSE n + Rate

Tick ==
    /\ level' = [k \in Keys |-> IF level[k] = None THEN None ELSE Filled(level[k])]
    /\ time' = time + 1
    /\ UNCHANGED served

Next == Tick \/ \E c \in Callers : Open(c) \/ Take(c)

Spec == Init /\ [][Next]_meter
=============================================================================
