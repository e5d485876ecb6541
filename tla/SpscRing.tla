------------------------------ MODULE SpscRing ------------------------------
(***************************************************************************)
(* SPSCRingQueue of experiments/spsc-mpsc-queue/spsc_bench.cpp and the two *)
(* threads main runs on it.  An action is one access to memory the threads *)
(* share, with the computation up to the next one.                         *)
(*                                                                         *)
(* head_ and tail_ are size_t and wrap at M.  An acquire load may return   *)
(* an index older than the last one stored, never an older one than it     *)
(* returned before: headSeen and tailSeen are what the other thread's      *)
(* loads return, and they catch up in steps of their own.  buf_ needs no   *)
(* such delay: release and acquire order its accesses, which NoDataRace    *)
(* checks.                                                                 *)
(***************************************************************************)
EXTENDS Integers

CONSTANTS Cap,    \* CAP
          Laps,   \* 2^64 / CAP, the laps a size_t counts before it wraps
          N       \* how many items main sends

\* CAP is a power of two (the static_assert), hence divides 2^64 and is less.
ASSUME RingAssumption == Cap \in Nat \ {0} /\ Laps \in Nat \ {0, 1} /\ N \in Nat

M == Laps * Cap                 \* 2^64, the values of a size_t
Junk == -1                      \* a value nobody pushed
Item == 0..(N - 1)
Slot(x) == x % Cap              \* x & mask_
Succ(x) == (x + 1) % M          \* x + 1 of a size_t
\* Mutant: one item more than there are slots.
Full_OffByOne(t, h) == (t - h) % M > Cap
Full(t, h) == (t - h) % M >= Cap

VARIABLES slots,                 \* the elements buf_ has
          head, tail, buf,       \* head_, tail_, buf_
          headSeen, tailSeen,    \* what the other side's acquire load returns
          ppc, i,                \* the producer thread and main's i
          cpc, item, got,        \* the consumer thread, pop's item and main's got
          taken                  \* history: what pop returned, by number of calls

ringVars == <<slots, head, tail, buf, headSeen, tailSeen>>
prodVars == <<ppc, i>>
consVars == <<cpc, item, got, taken>>
vars == <<ringVars, prodVars, consVars>>

\* buf_{CAP} makes CAP elements if T cannot be made from CAP, and a single one
\* whose value is CAP if it can, as the int of main can.
Init ==
  /\ slots \in {1, Cap}
  /\ head = 0 /\ tail = 0 /\ headSeen = 0 /\ tailSeen = 0
  /\ buf = [s \in 0..(Cap - 1) |-> Junk]
  /\ ppc = "push" /\ i = 0
  /\ cpc = "pop" /\ item = Junk /\ got = 0
  /\ taken = <<>>

------------------------------------------------------------------------------
(* push *)

PushTest ==       \* both loads and the test; a full ring is tried again
  /\ ppc = "push" /\ i < N
  /\ ppc' = IF Full(tail, headSeen) THEN "push" ELSE "write"
  /\ UNCHANGED <<ringVars, i, consVars>>

PushWrite ==
  /\ ppc = "write" /\ Slot(tail) < slots
  /\ buf' = [buf EXCEPT ![Slot(tail)] = i]
  /\ ppc' = "publish"
  /\ UNCHANGED <<slots, head, tail, headSeen, tailSeen, i, consVars>>

\* Past the end of buf_: the process dies, or the memory there takes the item,
\* or it does not keep it.
PushWriteOutside ==
  /\ ppc = "write" /\ Slot(tail) >= slots
  /\ \/ ppc' = "crash" /\ cpc' = "crash" /\ buf' = buf
     \/ /\ ppc' = "publish" /\ cpc' = cpc
        /\ \E v \in {i, Junk} : buf' = [buf EXCEPT ![Slot(tail)] = v]
  /\ UNCHANGED <<slots, head, tail, headSeen, tailSeen, i, item, got, taken>>

PushPublish ==
  /\ ppc = "publish"
  /\ tail' = Succ(tail)
  /\ i' = i + 1 /\ ppc' = "push"
  /\ UNCHANGED <<slots, head, buf, headSeen, tailSeen, consVars>>

(* pop *)

\* Mutant: the indices are compared as if they never wrapped.
PopTest_NoWrap ==
  /\ cpc = "pop" /\ got < N
  /\ cpc' = IF head >= tailSeen THEN "pop" ELSE "read"
  /\ UNCHANGED <<ringVars, prodVars, item, got, taken>>

PopTest ==        \* both loads and the test; an empty ring is tried again
  /\ cpc = "pop" /\ got < N
  /\ cpc' = IF head = tailSeen THEN "pop" ELSE "read"
  /\ UNCHANGED <<ringVars, prodVars, item, got, taken>>

PopRead ==
  /\ cpc = "read"
  /\ item' = buf[Slot(head)]
  /\ cpc' = "release"
  /\ UNCHANGED <<ringVars, prodVars, got, taken>>

PopRelease ==
  /\ cpc = "release"
  /\ head' = Succ(head)
  /\ got' = got + 1 /\ cpc' = "pop"
  /\ taken' = [k \in 1..(got + 1) |-> IF k <= got THEN taken[k] ELSE item]
  /\ UNCHANGED <<slots, tail, buf, headSeen, tailSeen, item, prodVars>>

(* The machine: a store becomes visible to the other thread. *)

SeeHead ==
  /\ headSeen /= head
  /\ headSeen' = Succ(headSeen)
  /\ UNCHANGED <<slots, head, tail, buf, tailSeen, prodVars, consVars>>

SeeTail ==
  /\ tailSeen /= tail
  /\ tailSeen' = Succ(tailSeen)
  /\ UNCHANGED <<slots, head, tail, buf, headSeen, prodVars, consVars>>

\* main's joins have returned, or the process is gone.
Joined == /\ (i = N /\ got = N) \/ ppc = "crash"
          /\ UNCHANGED vars

Producer == PushTest \/ PushWrite \/ PushWriteOutside \/ PushPublish
Consumer == PopTest \/ PopRead \/ PopRelease

Next == Producer \/ Consumer \/ SeeHead \/ SeeTail \/ Joined

Spec == Init /\ [][Next]_vars

\* Both threads run, and a store is seen in finite time.
FairSpec == Spec /\ WF_vars(Producer) /\ WF_vars(Consumer)
                 /\ WF_vars(SeeHead) /\ WF_vars(SeeTail)

------------------------------------------------------------------------------
TypeOK ==
  /\ slots \in {1, Cap}
  /\ {head, tail, headSeen, tailSeen} \subseteq 0..(M - 1)
  /\ buf \in [0..(Cap - 1) -> Item \cup {Junk}]
  /\ ppc \in {"push", "write", "publish", "crash"} /\ i \in 0..N
  /\ cpc \in {"pop", "read", "release", "crash"} /\ got \in 0..N
  /\ item \in Item \cup {Junk}
  /\ taken \in [1..got -> Item \cup {Junk}]

\* The item the producer is storing (line 32) and the one the consumer is
\* loading (line 40) are never in the same slot: no data race on buf_, although
\* each side decides from an index of the other that may be out of date.
NoDataRace ==
  ~ (ppc = "write" /\ cpc = "read" /\ Slot(tail) = Slot(head))

\* pop returns the items in the order they were pushed, each once: nothing is
\* overwritten before it is read, read before it is written, or read twice.
InOrder == slots = Cap => \A k \in 1..got : taken[k] = k - 1

\* The queue has the CAP slots it is said to have (line 67 says 1M slots):
\* no item is stored outside buf_.
WritesInside == ppc = "write" => Slot(tail) < slots

\* The ring is a FIFO channel that holds CAP items at most; with a single element
\* in buf_, only as far as the counts of the items go.
Delivered == IF slots = Cap THEN taken ELSE [k \in 1..got |-> k - 1]
Fifo == INSTANCE FifoSpec WITH Bound <- Cap, put <- i, count <- got, taken <- Delivered
ImplementsFifo == Fifo!Spec


------------------------------------------------------------------------------
(* The inductive invariant of the proofs: what the machine's indices mean  *)
(* in terms of the numbers of items pushed (i) and popped (got).           *)

\* What the producer sees of head_ is the index after a <= got pops, and that
\* leaves room for what it is about to store.
ProducerView ==
  \E a \in 0..got : /\ headSeen = a % M
                    /\ i <= a + Cap
                    /\ ppc \in {"write", "publish"} => i < a + Cap

\* What the consumer sees of tail_ is the index after b <= i pushes, and that
\* covers the item it is about to take.
ConsumerView ==
  \E b \in got..i : /\ tailSeen = b % M
                    /\ cpc \in {"read", "release"} => got < b

\* The ring holds the items between the two counts, each in its slot.
Contents ==
  slots = Cap =>
    /\ \A k \in got..(i - 1) : buf[Slot(k)] = k
    /\ ppc = "publish" => buf[Slot(i)] = i
    /\ cpc = "release" => item = got

IInv ==
  /\ TypeOK
  /\ head = got % M /\ tail = i % M
  /\ ppc \in {"write", "publish"} => i < N
  /\ cpc \in {"read", "release"} => got < N
  /\ ProducerView /\ ConsumerView /\ Contents /\ InOrder
=============================================================================
