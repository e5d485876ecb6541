-------------------------------- MODULE PerfLabs --------------------------------
(***************************************************************************)
(* The performance labs: threads, walks through memory, dispatch.          *)
(***************************************************************************)
EXTENDS Integers, Sequences, FiniteSetsExt

------------------------------------------------------------------------------
(***************************************************************************)
(* The demos whose threads count what they do until main raises a flag and *)
(* joins them: lock-contention (one operation under a mutex or a spinlock  *)
(* per look at the flag), mt-io-demo (a batch of them under one mutex),    *)
(* sched-latency (an atomic counter, and in its io mode a plain int that   *)
(* four threads increment).                                                *)
(***************************************************************************)
CONSTANTS Threads,
          lock_iters,   \* operations of mt-io-demo per look at the flag
          MaxOps        \* the operations of one thread that are followed

Demos == {"contention", "mt_io", "compete", "io"}
None == "none"
Ops == 0..MaxOps + lock_iters

VARIABLES demo, stop, thr_ops, holder,   \* the flag, the counter, who holds the lock
          thr_at, reg, left, did,        \* of each thread; did is what it has really done
          joined, destroyed
thr_vars == <<demo, stop, thr_ops, holder, thr_at, reg, left, did, joined, destroyed>>

ThrInit ==
  /\ demo \in Demos
  /\ stop = FALSE /\ thr_ops = 0 /\ holder = None /\ joined = {} /\ destroyed = FALSE
  /\ thr_at = [t \in Threads |-> "look"] /\ reg = [t \in Threads |-> 0]
  /\ left = [t \in Threads |-> 0] /\ did = [t \in Threads |-> 0]

Locks == demo \in {"contention", "mt_io"}

Look(t) ==             \* at the flag: main sleeps for seconds, not for ever
  /\ thr_at[t] = "look" /\ (stop \/ did[t] < MaxOps)
  /\ thr_at' = [thr_at EXCEPT ![t] = IF stop THEN "end" ELSE IF Locks THEN "lock" ELSE "work"]
  /\ left' = [left EXCEPT ![t] = IF demo = "mt_io" THEN lock_iters ELSE 1]
  /\ UNCHANGED <<demo, stop, thr_ops, holder, reg, did, joined, destroyed>>

Lock(t) ==
  /\ thr_at[t] = "lock" /\ holder = None
  /\ holder' = t /\ thr_at' = [thr_at EXCEPT ![t] = "work"]
  /\ UNCHANGED <<demo, stop, thr_ops, reg, left, did, joined, destroyed>>

Counted(t) ==
  /\ did' = [did EXCEPT ![t] = @ + 1] /\ left' = [left EXCEPT ![t] = @ - 1]
  /\ thr_at' = [thr_at EXCEPT ![t] = IF Locks THEN "unlock" ELSE "look"]

Add(t) ==              \* fetch_add
  /\ thr_at[t] = "work" /\ demo /= "io"
  /\ thr_ops' = thr_ops + 1 /\ Counted(t)
  /\ UNCHANGED <<demo, stop, holder, reg, joined, destroyed>>

Load(t) ==             \* count++ on a plain int: a load ...
  /\ thr_at[t] = "work" /\ demo = "io"
  /\ reg' = [reg EXCEPT ![t] = thr_ops] /\ thr_at' = [thr_at EXCEPT ![t] = "store"]
  /\ UNCHANGED <<demo, stop, thr_ops, holder, left, did, joined, destroyed>>

Store(t) ==            \* ... and a store, with what others did in between lost
  /\ thr_at[t] = "store"
  /\ thr_ops' = reg[t] + 1 /\ Counted(t)
  /\ UNCHANGED <<demo, stop, holder, reg, joined, destroyed>>

Unlock(t) ==
  /\ thr_at[t] = "unlock"
  /\ holder' = None
  /\ thr_at' = [thr_at EXCEPT ![t] = IF left[t] = 0 THEN "look" ELSE "lock"]
  /\ UNCHANGED <<demo, stop, thr_ops, reg, left, did, joined, destroyed>>

Thread(t) == Look(t) \/ Lock(t) \/ Add(t) \/ Load(t) \/ Store(t) \/ Unlock(t)

Stop ==
  /\ ~stop /\ stop' = TRUE
  /\ UNCHANGED <<demo, thr_ops, holder, thr_at, reg, left, did, joined, destroyed>>

Join(t) ==
  /\ stop /\ t \notin joined /\ thr_at[t] = "end"
  /\ joined' = joined \cup {t}
  /\ UNCHANGED <<demo, stop, thr_ops, holder, thr_at, reg, left, did, destroyed>>

Destroy ==             \* the lock goes out of scope
  /\ joined = Threads /\ ~destroyed /\ destroyed' = TRUE
  /\ UNCHANGED <<demo, stop, thr_ops, holder, thr_at, reg, left, did, joined>>

Main == Stop \/ (\E t \in Threads : Join(t)) \/ Destroy
ThrNext == Main \/ \E t \in Threads : Thread(t)
ThrSpec == ThrInit /\ [][ThrNext]_thr_vars
------------------------------------------------------------------------------
Done == MapThenSumSet(LAMBDA t : did[t], Threads)

\* What main prints when all are joined is what the threads did; but in the io mode
\* updates are lost, and it may print less ("[IO] 完成 count 次").  The lock that is
\* destroyed then is nobody's, and while it lived it had one holder.
CountedRight ==
  /\ joined = Threads => IF demo = "io" THEN thr_ops <= Done ELSE thr_ops = Done
  /\ destroyed => holder = None
  /\ Locks => Cardinality({t \in Threads : thr_at[t] \in {"work", "unlock"}}) <= 1

------------------------------------------------------------------------------
(***************************************************************************)
(* The walks over an array that the performance labs time: in order, with  *)
(* a stride or at random (cache-miss/main.cpp), page by page and again     *)
(* (tlb-thrashing/main.cpp), and the sum of the upper half of the values   *)
(* with a branch or without (branch-predict/main.cpp).  An access is a     *)
(* step.  tlb-thrashing's search for the two drops in a row of throughputs *)
(* is the walk "sweep".                                                    *)
(***************************************************************************)
CONSTANTS WalkN,            \* elements, even
          Strides,      \* what stride and D may be
          rounds,
          Percents      \* throughputs relative to the first, in percent

OPS == WalkN \div 2
Walks == {"sequential", "random", "strided", "measure", "sweep",
          "ordered_branch", "random_branch", "random_branchless"}

VARIABLES walk, D, a,   \* the array: counters, the values to be summed, or percents
          walk_i, walk_r,         \* the access within a round, the round
          walk_at, walk_sum, sink, l1_cliff_idx, l2_cliff_idx
walk_vars == <<walk, D, a, walk_i, walk_r, walk_at, walk_sum, sink, l1_cliff_idx, l2_cliff_idx>>

Summing == walk \in {"ordered_branch", "random_branch", "random_branchless"}
Shuffles == {f \in [0..WalkN - 1 -> 0..WalkN - 1] : Cardinality({f[k] : k \in 0..WalkN - 1}) = WalkN}

WalkInit ==
  /\ walk \in Walks /\ D \in (IF walk \in {"strided", "measure"} THEN Strides ELSE {1})
  /\ walk_i = 0 /\ walk_r = 0 /\ walk_sum = 0 /\ sink = -1 /\ l1_cliff_idx = -1 /\ l2_cliff_idx = -1
  /\ walk_at = (IF walk = "measure" THEN "touch" ELSE "walk")
  /\ CASE walk = "ordered_branch" -> a = [k \in 0..WalkN - 1 |-> k]
       [] walk \in {"random_branch", "random_branchless"} -> a \in Shuffles
       [] walk = "sweep" -> a \in {f \in [0..WalkN - 1 -> Percents] : f[0] = 100}
       [] walk = "measure" -> a = [k \in 0..D * WalkN - 1 |-> 0]
       [] OTHER -> a = [k \in 0..WalkN - 1 |-> 0]

touch ==                \* the first walk of tlb-thrashing, which is not timed
  /\ walk_at = "touch"
  /\ IF walk_i < D * WalkN THEN a' = [a EXCEPT ![walk_i] = 0] /\ walk_i' = walk_i + D /\ UNCHANGED walk_at
     ELSE walk_at' = "walk" /\ walk_i' = 0 /\ UNCHANGED a
  /\ UNCHANGED <<walk, D, walk_r, walk_sum, sink, l1_cliff_idx, l2_cliff_idx>>

increment(k) == a' = [a EXCEPT ![k] = @ + 1]

bench ==                \* the accesses of cache-miss
  /\ walk \in {"sequential", "random", "strided"} /\ walk_at = "walk"
  /\ IF walk_i < OPS
       THEN /\ CASE walk = "sequential" -> increment(walk_i)
                 [] walk = "strided" -> increment((walk_i * D) % WalkN)
                 [] OTHER -> \E k \in 0..WalkN - 1 : increment(k)
            /\ walk_i' = walk_i + 1 /\ UNCHANGED <<walk_at, sink>>
       ELSE sink' = a[0] /\ walk_at' = "done" /\ UNCHANGED <<a, walk_i>>
  /\ UNCHANGED <<walk, D, walk_r, walk_sum, l1_cliff_idx, l2_cliff_idx>>

Round(end, access) ==   \* one more access, the next round, or the end of the walk
  \/ walk_r < rounds /\ walk_i < end /\ access /\ UNCHANGED <<walk_r, walk_at, sink>>
  \/ walk_r < rounds /\ walk_i >= end /\ walk_r' = walk_r + 1 /\ walk_i' = 0 /\ UNCHANGED <<a, walk_at, walk_sum, sink>>

measure ==              \* what it reads at the end is an element it has counted in
  /\ walk = "measure" /\ walk_at = "walk"
  /\ \/ Round(D * WalkN, increment(walk_i) /\ walk_i' = walk_i + D /\ UNCHANGED walk_sum)
     \/ /\ walk_r = rounds /\ sink' = a[D * (WalkN - 1)] /\ walk_at' = "done"
        /\ UNCHANGED <<a, walk_i, walk_r, walk_sum>>
  /\ UNCHANGED <<walk, D, l1_cliff_idx, l2_cliff_idx>>

Masked(v) == IF v >= WalkN \div 2 THEN v ELSE 0      \* v & -1 and v & 0

bench_branch ==
  /\ Summing /\ walk_at = "walk"
  /\ \/ Round(WalkN, /\ IF walk = "random_branchless" THEN walk_sum' = walk_sum + Masked(a[walk_i])
                        ELSE IF a[walk_i] >= WalkN \div 2 THEN walk_sum' = walk_sum + a[walk_i] ELSE UNCHANGED walk_sum
                     /\ walk_i' = walk_i + 1 /\ UNCHANGED a)
     \/ walk_r = rounds /\ walk_at' = "done" /\ UNCHANGED <<a, walk_i, walk_r, walk_sum, sink>>
  /\ UNCHANGED <<walk, D, l1_cliff_idx, l2_cliff_idx>>

run_full_sweep ==       \* a[i] is what measure returned, against the first
  /\ walk = "sweep" /\ walk_at = "walk"
  /\ IF walk_i < WalkN
       THEN /\ l1_cliff_idx' = IF l1_cliff_idx < 0 /\ a[walk_i] < 70 THEN walk_i ELSE l1_cliff_idx
            /\ l2_cliff_idx' = IF /\ l1_cliff_idx' >= 0 /\ l2_cliff_idx < 0
                                  /\ walk_i > l1_cliff_idx' /\ 2 * a[walk_i] < a[walk_i - 1]
                               THEN walk_i ELSE l2_cliff_idx
            /\ walk_i' = walk_i + 1 /\ UNCHANGED walk_at
       ELSE walk_at' = "done" /\ UNCHANGED <<walk_i, l1_cliff_idx, l2_cliff_idx>>
  /\ UNCHANGED <<walk, D, a, walk_r, walk_sum, sink>>

WalkNext == touch \/ bench \/ measure \/ bench_branch \/ run_full_sweep
WalkSpec == WalkInit /\ [][WalkNext]_walk_vars
------------------------------------------------------------------------------
Counters == MapThenSumSet(LAMBDA k : a[k], DOMAIN a)
Below(k) == a[k] < 70
Halved(k) == k > 0 /\ 2 * a[k] < a[k - 1]

\* What the labs compare is comparable.  Walks of any order make the same number of
\* increments and stay in the array, although a stride comes back to the
\* elements it has seen; the element whose value keeps the timed loop of tlb-thrashing
\* alive is one that was counted in every round; with and without a branch the
\* sums are the same; and the two drops that are reported are two, at steps after the
\* first, so that the ranges that are printed for the two levels do not overlap.
Comparable ==
  /\ walk \in {"sequential", "random", "strided"} => Counters = walk_i
  /\ walk = "measure" /\ walk_at = "done" => sink = rounds /\ Counters = rounds * WalkN
  /\ Summing /\ walk_at = "done" =>
       walk_sum = rounds * MapThenSumSet(LAMBDA k : k, WalkN \div 2..WalkN - 1)
  /\ walk = "sweep" /\ walk_at = "done" =>
       /\ l1_cliff_idx /= 0 /\ (l2_cliff_idx >= 0 => l1_cliff_idx \in 1..l2_cliff_idx - 1)
       /\ l1_cliff_idx >= 0 <=> \E k \in DOMAIN a : Below(k)
       /\ l2_cliff_idx >= 0 <=> \E k, m \in DOMAIN a : m < k /\ Below(m) /\ Halved(k)

------------------------------------------------------------------------------
(***************************************************************************)
(* indirect-branch/main.cpp: one way of calling N operations, warmed up,   *)
(* timed TRIALS times and reported by the median.  A pass over the N calls *)
(* is one step; times are what the clock says and come from a small set.   *)
(***************************************************************************)
CONSTANTS DispN, ROUNDS, WARMUP, TRIALS,
          Times         \* what a trial may take

Modes == {"direct_call", "mono_virtual", "dual_virtual", "mega_virtual",
          "funcptr_single", "funcptr_multi", "switch_sequential", "switch_random"}

compute(op, x) == CASE op = 0 -> x + 1 [] op = 1 -> x - 1 [] op \in {2, 3} -> 2 * x
                    [] op = 4 -> x \div 2 [] OTHER -> x

VARIABLES mode, disp_ops,    \* the operation each of the N objects performs
          alive,        \* how many of the objects exist
          phase, disp_r, disp_sum, times, median
disp_vars == <<mode, disp_ops, alive, phase, disp_r, disp_sum, times, median>>

DispInit ==
  /\ mode \in Modes /\ disp_ops = <<>> /\ alive = 0
  /\ phase = "make" /\ disp_r = 0 /\ disp_sum = 0 /\ times = <<>> /\ median = 0

Virtual == mode \in {"mono_virtual", "dual_virtual", "mega_virtual"}
Calls == 0..DispN - 1

make_ops ==
  /\ phase = "make" /\ phase' = "warmup"
  /\ IF Virtual
       THEN /\ disp_ops' \in [Calls -> IF mode = "mega_virtual" THEN 0..3 ELSE 0..1]
            /\ mode = "mono_virtual" => \A i \in Calls : disp_ops'[i] = 0
            /\ mode = "dual_virtual" => \A i \in Calls : disp_ops'[i] = i % 2
            /\ alive' = DispN
       ELSE UNCHANGED <<disp_ops, alive>>
  /\ UNCHANGED <<mode, disp_r, disp_sum, times, median>>

\* The operation a call goes to; of "switch_random" it is drawn as the call is made.
Target(i, drawn) == CASE Virtual -> disp_ops[i]
                      [] mode \in {"direct_call", "funcptr_single"} -> 0
                      [] mode = "funcptr_multi" -> i % 4
                      [] mode = "switch_sequential" -> i % 5
                      [] OTHER -> drawn[i]

Draws == IF mode = "switch_random" THEN [Calls -> 0..4] ELSE {<<>>}

Pass ==                 \* N calls, before the clock is started or after
  /\ \/ phase = "warmup" /\ disp_r < WARMUP
     \/ phase = "trial" /\ disp_r < ROUNDS
  /\ disp_r' = disp_r + 1
  /\ \E drawn \in Draws :
       disp_sum' = disp_sum + MapThenSumSet(LAMBDA i : compute(Target(i, drawn), i), Calls)
  /\ UNCHANGED <<mode, disp_ops, alive, phase, times, median>>

Warm ==
  /\ phase = "warmup" /\ disp_r = WARMUP
  /\ phase' = "trial" /\ disp_r' = 0 /\ disp_sum' = 0
  /\ UNCHANGED <<mode, disp_ops, alive, times, median>>

Timed ==                \* the next trial has a sum of its own
  /\ phase = "trial" /\ disp_r = ROUNDS
  /\ \E t \in Times : times' = Append(times, t)
  /\ IF Len(times') < TRIALS THEN disp_r' = 0 /\ disp_sum' = 0 /\ UNCHANGED phase
     ELSE phase' = "free" /\ UNCHANGED <<disp_r, disp_sum>>
  /\ UNCHANGED <<mode, disp_ops, alive, median>>

free_ops ==
  /\ phase = "free" /\ phase' = "pick"
  /\ alive' = alive - Cardinality(DOMAIN disp_ops)
  /\ UNCHANGED <<mode, disp_ops, disp_r, disp_sum, times, median>>

Rearranged(t) ==
  {[i \in DOMAIN t |-> t[p[i]]] :
     p \in {q \in [DOMAIN t -> DOMAIN t] : \A i, j \in DOMAIN t : q[i] = q[j] => i = j}}

pick_median ==          \* of the sorted times
  /\ phase = "pick" /\ phase' = "done"
  /\ times' \in {t \in Rearranged(times) : \A i, j \in 1..TRIALS : i < j => t[i] <= t[j]}
  /\ median' = times'[Len(times) \div 2 + 1]
  /\ UNCHANGED <<mode, disp_ops, alive, disp_r, disp_sum>>

DispNext == make_ops \/ Pass \/ Warm \/ Timed \/ free_ops \/ pick_median
DispSpec == DispInit /\ [][DispNext]_disp_vars
------------------------------------------------------------------------------
Direct == (DispN * (DispN + 1)) \div 2          \* 1 + 2 + ... + N

\* What is compared is the same work: each trial makes the calls of ROUNDS passes and
\* nothing of the warm-up or of the trial before, a virtual or indirect call to one
\* target adds up to what the direct call does, the median has as many
\* trials on either side, and the objects are gone when the time is reported.
SameWork ==
  /\ phase = "trial" =>
       /\ mode \in {"direct_call", "mono_virtual", "funcptr_single"} => disp_sum = disp_r * Direct
       /\ mode = "dual_virtual" => disp_sum = disp_r * (Direct - 2 * (DispN \div 2))
       /\ mode /= "switch_random" => disp_sum % Max({disp_r, 1}) = 0
  /\ phase \in {"warmup", "trial"} => alive = IF Virtual THEN DispN ELSE 0
  /\ phase = "done" =>
       /\ alive = 0 /\ Len(times) = TRIALS
       /\ 2 * Cardinality({k \in DOMAIN times : times[k] < median}) < TRIALS
       /\ 2 * Cardinality({k \in DOMAIN times : times[k] > median}) <= TRIALS
==============================================================================
