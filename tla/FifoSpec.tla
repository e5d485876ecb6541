------------------------------ MODULE FifoSpec ------------------------------
(***************************************************************************)
(* A bounded first-in first-out channel from one producer to one consumer: *)
(* what a queue of the repository promises, lock-free or not.  The items   *)
(* are numbered in the order the producer offers them.                     *)
(***************************************************************************)
EXTENDS Naturals

CONSTANTS Bound,  \* how many items the channel may hold
          N       \* how many items are sent

VARIABLES put,    \* how many items the producer has put in
          count,  \* how many items the consumer has taken out
          taken   \* the items, by the number of the take

vars == <<put, count, taken>>

Init == put = 0 /\ taken = <<>> /\ count = 0

Put == /\ put < N /\ put < count + Bound
       /\ put' = put + 1
       /\ UNCHANGED <<taken, count>>

\* The item taken is the oldest one that is in the channel.
Take == /\ count < put
        /\ count' = count + 1
        /\ taken' = [k \in 1..(count + 1) |-> IF k <= count THEN taken[k] ELSE count]
        /\ UNCHANGED put

Next == Put \/ Take

Spec == Init /\ [][Next]_vars
=============================================================================
