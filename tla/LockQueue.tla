----------------------------- MODULE LockQueue -----------------------------
(***************************************************************************)
(* experiments/spsc-mpsc-queue/spsc_bench.cpp: the queue under a mutex     *)
(* that the lock-free ring is compared with, its producer of the numbers   *)
(* 0 .. N - 1 and the consumer that asks until it has N of them.  The body *)
(* of each call is one step: nothing else reads q_ without the mutex.      *)
(***************************************************************************)
EXTENDS Integers, Sequences

CONSTANT N

VARIABLES mtx_, q_,     \* the queue: who holds the mutex, and what it holds
          at,           \* where each thread is
          i, got, taken \* pushed by the producer; taken by the consumer
vars == <<mtx_, q_, at, i, got, taken>>

Threads == {"lprod", "lcons"}

Init ==
  /\ mtx_ = "free" /\ q_ = <<>> /\ i = 0 /\ got = 0 /\ taken = <<>>
  /\ at = [t \in Threads |-> "loop"]

Loop(t, more) ==        \* the test of the thread's loop, then the call
  /\ at[t] = "loop" /\ at' = [at EXCEPT ![t] = IF more THEN "lock" ELSE "end"]
  /\ UNCHANGED <<mtx_, q_, i, got, taken>>

Lock(t) ==
  /\ at[t] = "lock" /\ mtx_ = "free"
  /\ mtx_' = t /\ at' = [at EXCEPT ![t] = "in"]
  /\ UNCHANGED <<q_, i, got, taken>>

push ==                 \* the lock is released as the call returns
  /\ at["lprod"] = "in" /\ mtx_' = "free" /\ at' = [at EXCEPT !["lprod"] = "loop"]
  /\ q_' = Append(q_, i) /\ i' = i + 1
  /\ UNCHANGED <<got, taken>>

pop ==
  /\ at["lcons"] = "in" /\ mtx_' = "free" /\ at' = [at EXCEPT !["lcons"] = "loop"]
  /\ IF q_ = <<>> THEN UNCHANGED <<q_, got, taken>>       \* nullopt
     ELSE q_' = Tail(q_) /\ taken' = Append(taken, Head(q_)) /\ got' = got + 1
  /\ UNCHANGED i

Next == \/ Loop("lprod", i < N) \/ Loop("lcons", got < N)
        \/ push \/ pop \/ \E t \in Threads : Lock(t)

Spec == Init /\ [][Next]_vars
------------------------------------------------------------------------------
\* The queue hands on every number once and in order, whichever thread gets the mutex,
\* and it is empty when both threads have ended.
HandsOn ==
  /\ taken \o q_ = [k \in 1..i |-> k - 1] /\ got = Len(taken)
  /\ at = [t \in Threads |-> "end"] => taken = [k \in 1..N |-> k - 1] /\ q_ = <<>>
  /\ mtx_ /= "free" <=> \E t \in Threads : at[t] = "in"

\* The queue is the same channel as the lock-free ring: first in, first out, here
\* with room for all there is.
Fifo == INSTANCE FifoSpec WITH Bound <- N, put <- i, count <- got

ImplementsFifo == Fifo!Spec
=============================================================================
