--------------------------- MODULE Hardware_proofs ---------------------------
(***************************************************************************)
(* Proofs about the coherence model, for any set of blocks and any number  *)
(* of turns; about the FIFOs and the arbiter of the Verilog exercises, for *)
(* any depth, any width of an address and any number of requesters; about  *)
(* the AXI slaves, for any registers, memory and lengths of bursts; about  *)
(* the platform of transactions (Tlm), for any jobs, latencies, width of a *)
(* word and memories; and about the cache, the store buffer, the DRAM and  *)
(* the mesh of the memory experiments (Memory), for any configuration and  *)
(* any order of accesses.                                                  *)
(***************************************************************************)
EXTENDS Programs, Mesi, Fifos, AxiSlaves, Numbers, SequenceTheorems, FiniteSetTheorems, TLAPS

------------------------------------------------------------------------------
(***************************************************************************)
(* The states of a block in two caches.                                    *)
(***************************************************************************)
States == {"M", "E", "S", "I"}
Bus == [busRd : Nat, busRdX : Nat, wb : Nat, invals : Nat]

LinesOK ==
  /\ st \in [Cores -> [Blocks -> States]]
  /\ bus \in Bus
  /\ turns \in Nat
  /\ todo \in {None} \cup (Cores \X Blocks)

\* Of the two copies of a block one at most is modified, and then there is no other;
\* the write that is to follow a read finds the line that the read has brought.
Alone ==
  /\ \A c \in Cores, b \in Blocks : st[c][b] = "M" => st[1 - c][b] = "I"
  /\ \A b \in Blocks : ~(st[0][b] = "E" /\ st[1][b] = "E")
Brought == \A c \in Cores, b \in Blocks : todo = <<c, b>> => st[c][b] /= "I"
Counted == bus.invals <= bus.busRdX /\ bus.wb <= bus.busRd

MesiInv == LinesOK /\ Alone /\ Brought /\ Counted

LEMMA OtherCore == \A c \in Cores : 1 - c \in Cores /\ 1 - (1 - c) = c /\ 1 - c /= c
  BY DEF Cores

\* The counters of a read: w is whether the other copy is written back.
LEMMA ReadCounts ==
  ASSUME bus \in Bus, Counted, NEW w \in {0, 1},
         bus' = [bus EXCEPT !.busRd = @ + 1, !.wb = @ + w]
  PROVE  bus' \in Bus /\ Counted'
<1>1. /\ bus.busRd \in Nat /\ bus.busRdX \in Nat /\ bus.wb \in Nat /\ bus.invals \in Nat
      /\ bus.invals <= bus.busRdX /\ bus.wb <= bus.busRd
  BY DEF Bus, Counted
<1>2. /\ bus'.busRd = bus.busRd + 1 /\ bus'.busRdX = bus.busRdX
      /\ bus'.wb = bus.wb + w /\ bus'.invals = bus.invals
  BY DEF Bus
<1>3. bus' \in Bus
  <2>1. bus.busRd + 1 \in Nat /\ bus.wb + w \in Nat
    BY <1>1
  <2> QED BY <2>1 DEF Bus
<1> QED BY <1>1, <1>2, <1>3 DEF Counted

\* The counters of a write: w is 0, and v is whether the other copy is invalidated.
LEMMA WriteCounts ==
  ASSUME bus \in Bus, Counted, NEW w \in {0}, NEW v \in {0, 1},
         bus' = [bus EXCEPT !.busRdX = @ + 1, !.wb = @ + w, !.invals = @ + v]
  PROVE  bus' \in Bus /\ Counted'
<1>1. /\ bus.busRd \in Nat /\ bus.busRdX \in Nat /\ bus.wb \in Nat /\ bus.invals \in Nat
      /\ bus.invals <= bus.busRdX /\ bus.wb <= bus.busRd
  BY DEF Bus, Counted
<1>2. /\ bus'.busRd = bus.busRd /\ bus'.busRdX = bus.busRdX + 1
      /\ bus'.wb = bus.wb /\ bus'.invals = bus.invals + v
  BY <1>1 DEF Bus
<1>3. bus' \in Bus
  <2>1. bus.busRdX + 1 \in Nat /\ bus.wb + w \in Nat /\ bus.invals + v \in Nat
    BY <1>1
  <2> QED BY <2>1 DEF Bus
<1> QED BY <1>1, <1>2, <1>3 DEF Counted

LEMMA InitInv == MesiInit => MesiInv
  BY OtherCore DEF MesiInit, MesiInv, LinesOK, Alone, Brought, Counted, States, Bus, None, Cores

\* A read takes the line from where it is: a modified copy becomes shared, and the new
\* one is exclusive only if there was none.
LEMMA ReadInv ==
  ASSUME MesiInv, NEW c \in Cores, NEW b \in Blocks, rd_(c, b)
  PROVE  MesiInv'
<1> DEFINE d == 1 - c
<1>1. /\ d \in Cores /\ d /= c /\ 1 - d = c
      /\ \A e \in Cores : e = c \/ e = d
  BY OtherCore DEF Cores
<1>2. /\ todo' = <<c, b>> /\ turns' = turns + 1 /\ todo' \in Cores \X Blocks
  BY DEF rd_
<1>3. \A e \in Cores, f \in Blocks : todo' = <<e, f>> => e = c /\ f = b
  BY <1>2
<1>4. CASE st[c][b] /= "I"
  <2>1. UNCHANGED <<st, bus>>
    BY <1>4 DEF rd_
  <2> QED BY <1>2, <1>3, <1>4, <2>1 DEF MesiInv, LinesOK, Alone, Brought, Counted
<1>5. CASE st[c][b] = "I"
  <2>1. /\ st' = [st EXCEPT ![d][b] = IF @ = "M" THEN "S" ELSE @,
                            ![c][b] = IF st[d][b] = "I" THEN "E" ELSE "S"]
        /\ bus' = [bus EXCEPT !.busRd = @ + 1, !.wb = @ + One(st[d][b] = "M")]
    BY <1>5 DEF rd_
  <2>2. /\ st' \in [Cores -> [Blocks -> States]]
        /\ st'[c][b] = IF st[d][b] = "I" THEN "E" ELSE "S"
        /\ st'[d][b] = IF st[d][b] = "M" THEN "S" ELSE st[d][b]
        /\ \A e \in Cores, f \in Blocks : f /= b => st'[e][f] = st[e][f]
    BY <1>1, <2>1 DEF MesiInv, LinesOK, States
  <2>3. Alone'
    <3>1. \A f \in Blocks : \A e \in Cores : st'[e][f] = "M" => st'[1 - e][f] = "I"
      BY <1>1, <2>2, OtherCore DEF MesiInv, Alone
    <3>2. \A f \in Blocks : ~(st'[c][f] = "E" /\ st'[d][f] = "E")
      BY <1>1, <2>2 DEF MesiInv, Alone, Cores
    <3> QED BY <1>1, <3>1, <3>2 DEF Alone, Cores
  <2>4. Brought'
    BY <1>3, <2>2 DEF Brought
  <2>5. bus' \in Bus /\ Counted'
    <3>1. bus \in Bus /\ Counted
      BY DEF MesiInv, LinesOK
    <3>2. One(st[d][b] = "M") \in {0, 1}
      BY DEF One
    <3> QED BY <2>1, <3>1, <3>2, ReadCounts, Zenon
  <2> QED BY <1>2, <2>2, <2>3, <2>4, <2>5 DEF MesiInv, LinesOK, Bus
<1> QED BY <1>4, <1>5

\* A write invalidates the other copy and counts it; it finds no modified one.
LEMMA WriteInv ==
  ASSUME MesiInv, NEW c \in Cores, NEW b \in Blocks, wr_(c, b)
  PROVE  MesiInv'
<1> DEFINE d == 1 - c
<1>1. /\ d \in Cores /\ d /= c /\ 1 - d = c
      /\ \A e \in Cores : e = c \/ e = d
  BY OtherCore DEF Cores
<1>2. todo = <<c, b>> /\ todo' = None /\ turns' = turns
  BY DEF wr_
<1>3. Brought'
  BY <1>2 DEF Brought, None
<1>4. CASE st[c][b] \in {"M", "E"}
  <2>1. UNCHANGED <<st, bus>>
    BY <1>4 DEF wr_
  <2> QED BY <1>2, <1>3, <2>1 DEF MesiInv, LinesOK, Alone, Counted
<1>5. CASE st[c][b] \notin {"M", "E"}
  <2>1. /\ st' = [st EXCEPT ![d][b] = "I", ![c][b] = "M"]
        /\ bus' = [bus EXCEPT !.busRdX = @ + 1, !.wb = @ + One(st[d][b] = "M"),
                              !.invals = @ + One(st[d][b] /= "I")]
    BY <1>5 DEF wr_
  <2>2. st[d][b] /= "M"
    BY <1>1, <1>2 DEF MesiInv, Alone, Brought
  <2>3. /\ st' \in [Cores -> [Blocks -> States]]
        /\ st'[c][b] = "M" /\ st'[d][b] = "I"
        /\ \A e \in Cores, f \in Blocks : f /= b => st'[e][f] = st[e][f]
    BY <1>1, <2>1 DEF MesiInv, LinesOK, States
  <2>4. Alone'
    <3>1. \A f \in Blocks : \A e \in Cores : st'[e][f] = "M" => st'[1 - e][f] = "I"
      BY <1>1, <2>3, OtherCore DEF MesiInv, Alone
    <3>2. \A f \in Blocks : ~(st'[c][f] = "E" /\ st'[d][f] = "E")
      BY <1>1, <2>3 DEF MesiInv, Alone, Cores
    <3> QED BY <1>1, <3>1, <3>2 DEF Alone, Cores
  <2>5. bus' \in Bus /\ Counted'
    <3>1. bus \in Bus /\ Counted
      BY DEF MesiInv, LinesOK
    <3>2. One(st[d][b] = "M") \in {0} /\ One(st[d][b] /= "I") \in {0, 1}
      BY <2>2 DEF One
    <3> QED BY <2>1, <3>1, <3>2, WriteCounts, Zenon
  <2> QED BY <1>2, <1>3, <2>3, <2>4, <2>5 DEF MesiInv, LinesOK, Bus
<1> QED BY <1>4, <1>5

\* The reachable states of the two caches and their bus are those of the invariant.
THEOREM LinesKept == MesiSpec => []MesiInv
<1>1. MesiInv /\ [MesiNext]_mesiVars => MesiInv'
  <2> SUFFICES ASSUME MesiInv, [MesiNext]_mesiVars PROVE MesiInv'
    OBVIOUS
  <2>1. CASE MesiNext
    BY <2>1, ReadInv, WriteInv DEF MesiNext
  <2>2. CASE UNCHANGED mesiVars
    BY <2>2 DEF mesiVars, MesiInv, LinesOK, Alone, Brought, Counted
  <2> QED BY <2>1, <2>2
<1> QED BY InitInv, <1>1, PTL DEF MesiSpec

\* However the reads and writes of the two cores alternate, on any set of blocks, a
\* modified line is the only copy (experiment 5), two cores are never exclusive at
\* once, and the bus counts no invalidation or write-back without its request.
THEOREM Coherent == MesiSpec => []ModifiedIsAlone
<1>1. MesiInv => ModifiedIsAlone
  <2> SUFFICES ASSUME MesiInv PROVE ModifiedIsAlone
    OBVIOUS
  <2>1. NotAlone("M") = {}
    BY DEF NotAlone, MesiInv, Alone
  <2> QED BY <2>1 DEF MesiInv, Alone, Counted, ModifiedIsAlone
<1> QED BY <1>1, LinesKept, PTL

------------------------------------------------------------------------------
(***************************************************************************)
(* What the queues share: items are numbered from 0, in slots that number  *)
(* modulo the depth gives.                                                 *)
(***************************************************************************)
\* The numbers from 0 on, with the next one behind them.
LEMMA NextCounted ==
  ASSUME NEW n \in Nat
  PROVE  Append([k \in 1..n |-> k - 1], n) = [k \in 1..(n + 1) |-> k - 1]
<1> DEFINE s == [k \in 1..n |-> k - 1]
           t == [k \in 1..(n + 1) |-> k - 1]
           S == Nat
<1>1. s \in Seq(S) /\ Len(s) = n /\ \A k \in 1..n : s[k] = k - 1
  OBVIOUS
<1>2. n \in S
  OBVIOUS
<1> HIDE DEF s
<1>3. /\ Append(s, n) \in Seq(S) /\ Len(Append(s, n)) = n + 1
      /\ \A k \in 1..n : Append(s, n)[k] = s[k]
      /\ Append(s, n)[n + 1] = n
  <2> HIDE DEF S
  <2> QED BY <1>1, <1>2, AppendProperties
<1>4. t \in Seq(S) /\ Len(t) = n + 1 /\ \A k \in 1..(n + 1) : t[k] = k - 1
  OBVIOUS
<1> HIDE DEF t, S
<1>5. ASSUME NEW k \in 1..(n + 1) PROVE Append(s, n)[k] = t[k]
  BY <1>1, <1>3, <1>4
<1>6. Append(s, n) = t
  BY <1>3, <1>4, <1>5, SeqEqual
<1> QED BY <1>6 DEF s, t

\* A write goes to a slot that no item of the queue is in.
LEMMA SlotFree ==
  ASSUME NEW d \in Nat \ {0}, NEW x \in Nat, NEW y \in Nat, y < x, x < y + d
  PROVE  x % d /= y % d
<1>1. x \in Int /\ y \in Int /\ x - y < d /\ y - x < d /\ x /= y
  OBVIOUS
<1> QED BY <1>1, ModInjective

------------------------------------------------------------------------------
(***************************************************************************)
(* Queues of one clock.                                                    *)
(***************************************************************************)
SyncInv ==
  /\ fifo \in Designs
  /\ sync_i \in Nat /\ sync_got \in Nat
  /\ sync_got <= sync_i /\ sync_i <= sync_got + SYNC_DEPTH
  /\ wptr = sync_i % Modulus /\ rptr = sync_got % Modulus
  /\ cnt = IF Counts THEN sync_i - sync_got ELSE 0
  /\ DOMAIN sync_mem = 0..(SYNC_DEPTH - 1) /\ sync_mem = [a \in DOMAIN sync_mem |-> sync_mem[a]]
  /\ \A k \in sync_got..(sync_i - 1) : sync_mem[k % SYNC_DEPTH] = k
  /\ sync_taken = [k \in 1..sync_got |-> k - 1]

LEMMA Depth ==
  ASSUME fifo \in Designs
  PROVE  /\ SYNC_DEPTH \in Nat \ {0}
         /\ Modulus \in Nat \ {0} /\ Modulus >= SYNC_DEPTH
         /\ Counts => Modulus = SYNC_DEPTH
         /\ ~Counts => Modulus = 2 * SYNC_DEPTH
         /\ \A x \in Nat : (x % Modulus) % SYNC_DEPTH = x % SYNC_DEPTH /\ x % SYNC_DEPTH \in 0..(SYNC_DEPTH - 1)
         /\ \A x \in Nat : Inc(x % Modulus) = (x + 1) % Modulus
<1>1. SYNC_DEPTH \in Nat \ {0}
  BY SyncAssumption DEF SYNC_DEPTH
<1> DEFINE d == SYNC_DEPTH
<1>2. PICK k \in {1, 2} : Modulus = d * k /\ (Counts => k = 1) /\ (~Counts => k = 2)
  <2> HIDE DEF d
  <2>1. CASE Counts BY <1>1, <2>1 DEF Modulus, d
  <2>2. CASE ~Counts BY <1>1, <2>2 DEF Modulus, d
  <2> QED BY <2>1, <2>2
<1>3. Modulus \in Nat \ {0} /\ Modulus >= d /\ (Counts => Modulus = d) /\ (~Counts => Modulus = 2 * d)
  <2> HIDE DEF d
  <2>1. d \in Nat \ {0} BY <1>1 DEF d
  <2>2. CASE k = 1 BY <1>2, <2>1, <2>2
  <2>3. CASE k = 2 BY <1>2, <2>1, <2>3
  <2> QED BY <2>2, <2>3
<1>4. ASSUME NEW x \in Nat
      PROVE  (x % Modulus) % d = x % d /\ x % d \in 0..(d - 1)
  <2> HIDE DEF d
  <2>1. d \in Nat \ {0} /\ k \in Nat \ {0} /\ x \in Int BY <1>1 DEF d
  <2> QED BY <1>2, <2>1, ModOfMod, DivMod
<1>5. ASSUME NEW x \in Nat
      PROVE  Inc(x % Modulus) = (x + 1) % Modulus
  <2>1. x \in Int /\ 1 \in Int OBVIOUS
  <2> QED BY <1>3, <2>1, ModAdd DEF Inc
<1> QED BY <1>1, <1>3, <1>4, <1>5

\* What the flags go by is how many items are in the queue.
LEMMA Used ==
  ASSUME SyncInv
  PROVE  /\ used = sync_i - sync_got
         /\ full <=> sync_i = sync_got + SYNC_DEPTH
         /\ empty <=> sync_i = sync_got
<1>1. /\ fifo \in Designs /\ sync_i \in Nat /\ sync_got \in Nat
      /\ sync_got <= sync_i /\ sync_i <= sync_got + SYNC_DEPTH
      /\ SYNC_DEPTH \in Nat \ {0}
  BY Depth DEF SyncInv
<1>2. used = sync_i - sync_got
  <2>1. CASE Counts
    BY <2>1 DEF SyncInv, used
  <2>2. CASE ~Counts
    <3>1. Modulus \in Nat \ {0} /\ Modulus = 2 * SYNC_DEPTH
      BY <1>1, <2>2, Depth
    <3>2. sync_i \in Int /\ sync_got \in Int /\ sync_i < sync_got + Modulus
      BY <1>1, <3>1
    <3>3. ((sync_i % Modulus) - (sync_got % Modulus)) % Modulus = sync_i - sync_got
      BY <1>1, <3>1, <3>2, ModDistance
    <3> QED BY <2>2, <3>3 DEF SyncInv, used
  <2> QED BY <2>1, <2>2
<1>3. full <=> sync_i - sync_got = SYNC_DEPTH
  BY <1>2 DEF full
<1>4. empty <=> sync_i - sync_got = 0
  BY <1>2 DEF empty
<1> QED BY <1>1, <1>2, <1>3, <1>4

LEMMA SyncClockStep ==
  ASSUME SyncInv, NEW wr_en \in BOOLEAN, NEW rd_en \in BOOLEAN, SyncClock(wr_en, rd_en)
  PROVE  SyncInv'
<1> DEFINE D == SYNC_DEPTH
           pushed == sync_wr_advance(wr_en, rd_en)
           popped == sync_rd_advance(rd_en)
<1>1. /\ fifo \in Designs /\ sync_i \in Nat /\ sync_got \in Nat
      /\ sync_got <= sync_i /\ sync_i <= sync_got + D
      /\ D \in Nat \ {0}
  BY Depth DEF SyncInv
<1>2. /\ fifo' = fifo /\ D' = D /\ Modulus' = Modulus /\ (Counts' <=> Counts)
  BY DEF SyncClock, SYNC_DEPTH, Modulus, Counts
<1>3. /\ pushed => sync_i < sync_got + D \/ (sync_i = sync_got + D /\ popped)
      /\ popped => sync_got < sync_i
  <2>1. pushed => ~full \/ rd_en BY DEF sync_wr_advance
  <2>2. popped <=> rd_en /\ ~empty BY DEF sync_rd_advance
  <2>3. full => ~empty BY <1>1, Used
  <2>4. full => sync_i = sync_got + D BY Used
  <2>5. ~full => sync_i < sync_got + D BY <1>1, Used
  <2>6. ~empty => sync_got < sync_i BY <1>1, Used
  <2> HIDE DEF pushed, popped
  <2> QED BY <2>1, <2>2, <2>3, <2>4, <2>5, <2>6
<1>4. /\ sync_i' = IF pushed THEN sync_i + 1 ELSE sync_i
      /\ sync_got' = IF popped THEN sync_got + 1 ELSE sync_got
      /\ wptr' = IF pushed THEN Inc(wptr) ELSE wptr
      /\ rptr' = IF popped THEN Inc(rptr) ELSE rptr
      /\ sync_mem' = IF pushed THEN [sync_mem EXCEPT ![wptr % D] = sync_i] ELSE sync_mem
      /\ sync_taken' = IF popped THEN Append(sync_taken, sync_mem[rptr % D]) ELSE sync_taken
      /\ cnt' = CASE Counts /\ pushed /\ ~popped -> cnt + 1
                  [] Counts /\ popped /\ ~pushed -> cnt - 1
                  [] OTHER -> cnt
  BY DEF SyncClock
<1>5. /\ wptr = sync_i % Modulus /\ rptr = sync_got % Modulus
      /\ wptr % D = sync_i % D /\ rptr % D = sync_got % D
      /\ sync_i % D \in 0..(D - 1)
      /\ Inc(wptr) = (sync_i + 1) % Modulus /\ Inc(rptr) = (sync_got + 1) % Modulus
  <2>1. fifo \in Designs /\ wptr = sync_i % Modulus /\ rptr = sync_got % Modulus
    BY DEF SyncInv
  <2> QED BY <1>1, <2>1, Depth
<1>6. cnt = IF Counts THEN sync_i - sync_got ELSE 0
  BY DEF SyncInv
<1>7. DOMAIN sync_mem = 0..(D - 1) /\ sync_mem = [a \in DOMAIN sync_mem |-> sync_mem[a]]
  BY DEF SyncInv
<1>8. \A k \in sync_got..(sync_i - 1) : sync_mem[k % D] = k
  BY DEF SyncInv
<1>9. sync_taken = [k \in 1..sync_got |-> k - 1]
  BY DEF SyncInv
<1> HIDE DEF D, pushed, popped
<1>10. /\ sync_i' \in Nat /\ sync_got' \in Nat /\ sync_got' <= sync_i' /\ sync_i' <= sync_got' + D
  <2>1. CASE pushed /\ popped BY <1>1, <1>3, <1>4, <2>1
  <2>2. CASE pushed /\ ~popped BY <1>1, <1>3, <1>4, <2>2
  <2>3. CASE ~pushed /\ popped BY <1>1, <1>3, <1>4, <2>3
  <2>4. CASE ~pushed /\ ~popped BY <1>1, <1>3, <1>4, <2>4
  <2> QED BY <2>1, <2>2, <2>3, <2>4
<1>11. wptr' = sync_i' % Modulus /\ rptr' = sync_got' % Modulus
  <2>1. wptr' = sync_i' % Modulus BY <1>4, <1>5
  <2>2. rptr' = sync_got' % Modulus BY <1>4, <1>5
  <2> QED BY <2>1, <2>2
<1>12. cnt' = IF Counts THEN sync_i' - sync_got' ELSE 0
  <2>1. CASE ~Counts BY <1>4, <1>6, <2>1
  <2>2. CASE Counts
    <3>1. CASE pushed /\ popped
      <4>1. cnt' = cnt BY <1>4, <3>1
      <4> QED BY <1>1, <1>4, <1>6, <2>2, <3>1, <4>1
    <3>2. CASE pushed /\ ~popped
      <4>1. cnt' = cnt + 1 BY <1>4, <2>2, <3>2
      <4> QED BY <1>1, <1>4, <1>6, <2>2, <3>2, <4>1
    <3>3. CASE ~pushed /\ popped
      <4>1. cnt' = cnt - 1 BY <1>4, <2>2, <3>3
      <4> QED BY <1>1, <1>4, <1>6, <2>2, <3>3, <4>1
    <3>4. CASE ~pushed /\ ~popped
      <4>1. cnt' = cnt BY <1>4, <3>4
      <4> QED BY <1>1, <1>4, <1>6, <2>2, <3>4, <4>1
    <3> QED BY <3>1, <3>2, <3>3, <3>4
  <2> QED BY <2>1, <2>2
<1>13. DOMAIN sync_mem' = 0..(D - 1) /\ sync_mem' = [a \in DOMAIN sync_mem' |-> sync_mem'[a]]
  BY <1>4, <1>7
<1>14. ASSUME NEW k \in sync_got'..(sync_i' - 1)
       PROVE  sync_mem'[k % D] = k
  <2>1. k \in Nat /\ sync_got <= k
    BY <1>1, <1>4
  <2>2. CASE pushed
    <3>1. sync_mem' = [sync_mem EXCEPT ![sync_i % D] = sync_i] /\ sync_i' = sync_i + 1
      BY <1>4, <1>5, <2>2
    <3>2. CASE k = sync_i
      BY <1>5, <1>7, <3>1, <3>2
    <3>3. CASE k /= sync_i
      <4>1. k < sync_i /\ sync_i < k + D
        <5>1. CASE popped
          <6>1. sync_got' = sync_got + 1 BY <1>4, <5>1
          <6> QED BY <1>1, <2>1, <3>1, <3>3, <6>1
        <5>2. CASE ~popped
          <6>1. sync_i < sync_got + D BY <1>3, <2>2, <5>2
          <6> QED BY <1>1, <2>1, <3>1, <3>3, <6>1
        <5> QED BY <5>1, <5>2
      <4>2. sync_i % D /= k % D BY <1>1, <2>1, <4>1, SlotFree
      <4>3. k \in sync_got..(sync_i - 1) BY <1>1, <2>1, <4>1
      <4> QED BY <1>7, <1>8, <3>1, <4>2, <4>3
    <3> QED BY <3>2, <3>3
  <2>3. CASE ~pushed
    <3>1. sync_mem' = sync_mem /\ sync_i' = sync_i BY <1>4, <2>3
    <3>2. k \in sync_got..(sync_i - 1) BY <1>1, <2>1, <3>1
    <3> QED BY <1>8, <3>1, <3>2
  <2> QED BY <2>2, <2>3
<1>15. sync_taken' = [k \in 1..sync_got' |-> k - 1]
  <2>1. CASE ~popped BY <1>4, <1>9, <2>1
  <2>2. CASE popped
    <3>1. sync_got \in sync_got..(sync_i - 1) BY <1>1, <1>3, <2>2
    <3>2. sync_mem[rptr % D] = sync_got BY <1>5, <1>8, <3>1
    <3>3. sync_taken' = Append([k \in 1..sync_got |-> k - 1], sync_got) /\ sync_got' = sync_got + 1
      BY <1>4, <1>9, <2>2, <3>2
    <3> QED BY <1>1, <3>3, NextCounted
  <2> QED BY <2>1, <2>2
<1> QED BY <1>1, <1>2, <1>10, <1>11, <1>12, <1>13, <1>14, <1>15 DEF SyncInv, D

\* A queue of one clock, of any kind and depth: every item comes out once and in order,
\* nothing is written over, and the flags are exact at every edge.
THEOREM SyncKept == SyncSpec => [](SyncInv /\ SyncHandsOn)
<1>1. SyncInit => SyncInv
  <2> SUFFICES ASSUME SyncInit PROVE SyncInv
    OBVIOUS
  <2>1. fifo \in Designs /\ SYNC_DEPTH \in Nat \ {0} /\ Modulus \in Nat \ {0}
    BY Depth DEF SyncInit
  <2>2. 0 % Modulus = 0
    BY <2>1, ModSmall
  <2>3. DOMAIN sync_mem = 0..(SYNC_DEPTH - 1) /\ sync_mem = [a \in DOMAIN sync_mem |-> sync_mem[a]]
    BY DEF SyncInit
  <2>4. sync_taken = [k \in 1..0 |-> k - 1]
    BY DEF SyncInit
  <2>5. 0 <= 0 + SYNC_DEPTH /\ 0 - 0 = 0 /\ 0..(0 - 1) = {}
    BY <2>1
  <2> QED BY <2>1, <2>2, <2>3, <2>4, <2>5 DEF SyncInit, SyncInv
<1>2. SyncInv /\ [SyncNext]_sync_vars => SyncInv'
  <2> SUFFICES ASSUME SyncInv, [SyncNext]_sync_vars PROVE SyncInv'
    OBVIOUS
  <2>1. CASE Reset
    <3>1. /\ fifo \in Designs /\ SYNC_DEPTH' = SYNC_DEPTH /\ Modulus' = Modulus /\ (Counts' <=> Counts)
          /\ fifo' = fifo
      BY <2>1 DEF SyncInv, Reset, SYNC_DEPTH, Modulus, Counts
    <3>2. SYNC_DEPTH \in Nat \ {0} /\ Modulus \in Nat \ {0}
      BY <3>1, Depth
    <3>3. 0 % Modulus = 0
      BY <3>2, ModSmall
    <3>4. <<>> = [k \in 1..0 |-> k - 1] /\ 0 <= 0 + SYNC_DEPTH /\ 0 - 0 = 0 /\ 0..(0 - 1) = {}
      BY <3>2
    <3> QED BY <2>1, <3>1, <3>2, <3>3, <3>4 DEF SyncInv, Reset
  <2>2. CASE \E wr_en, rd_en \in BOOLEAN : SyncClock(wr_en, rd_en)
    BY <2>2, SyncClockStep
  <2>3. CASE UNCHANGED sync_vars
    BY <2>3 DEF sync_vars, SyncInv, SYNC_DEPTH, Modulus, Counts
  <2> QED BY <2>1, <2>2, <2>3 DEF SyncNext
<1>3. SyncInv => SyncHandsOn
  BY Used DEF SyncInv, SyncHandsOn
<1> QED BY <1>1, <1>2, <1>3, PTL DEF SyncSpec

------------------------------------------------------------------------------
(***************************************************************************)
(* Binary numbers and their Gray codes, of any number of bits.             *)
(***************************************************************************)
Doubling(n, f) == f = [k \in 0..n |-> IF k = 0 THEN 1 ELSE 2 * f[k - 1]]

LEMMA DoublingExists == \A n \in Nat : \E f : Doubling(n, f)
<1> DEFINE T == {n \in Nat : \E f : Doubling(n, f)}
<1>1. 0 \in T
  <2> DEFINE f == [k \in 0..0 |-> 1]
  <2>1. f = [k \in 0..0 |-> IF k = 0 THEN 1 ELSE 2 * f[k - 1]]
    OBVIOUS
  <2> QED BY <2>1 DEF Doubling
<1>2. ASSUME NEW n \in Nat, n \in T PROVE n + 1 \in T
  <2>1. PICK f : Doubling(n, f)
    BY <1>2
  <2> DEFINE g == [k \in 0..(n + 1) |-> IF k = n + 1 THEN 2 * f[n] ELSE f[k]]
  <2>2. ASSUME NEW k \in 0..(n + 1) PROVE g[k] = IF k = 0 THEN 1 ELSE 2 * g[k - 1]
    <3>1. CASE k = n + 1
      <4>1. k /= 0 /\ k - 1 = n /\ k - 1 /= n + 1 /\ k - 1 \in 0..(n + 1)
        BY <3>1
      <4> QED BY <3>1, <4>1
    <3>2. CASE k /= n + 1
      <4>1. k \in 0..n /\ g[k] = f[k]
        BY <3>2
      <4>2. f[k] = IF k = 0 THEN 1 ELSE 2 * f[k - 1]
        BY <2>1, <4>1 DEF Doubling
      <4>3. k /= 0 => g[k - 1] = f[k - 1]
        <5> SUFFICES ASSUME k /= 0 PROVE g[k - 1] = f[k - 1]
          OBVIOUS
        <5>1. k - 1 \in 0..(n + 1) /\ k - 1 /= n + 1
          BY <4>1
        <5> QED BY <5>1
      <4> QED BY <4>1, <4>2, <4>3
    <3> QED BY <3>1, <3>2
  <2>3. g = [k \in 0..(n + 1) |-> g[k]]
    OBVIOUS
  <2> HIDE DEF g
  <2>4. Doubling(n + 1, g)
    BY <2>2, <2>3 DEF Doubling
  <2> QED BY <2>4
<1> HIDE DEF T
<1>3. Nat \subseteq T
  BY <1>1, <1>2, SetInduction
<1> QED BY <1>3 DEF T

LEMMA DoublingAgrees ==
  ASSUME NEW n \in Nat, NEW m \in Nat, NEW f, NEW g, Doubling(n, f), Doubling(m, g), n <= m
  PROVE  \A k \in 0..n : f[k] = g[k]
<1> DEFINE T == {k \in Nat : k <= n => f[k] = g[k]}
<1>1. 0 \in T
  <2>1. 0 \in 0..n /\ 0 \in 0..m OBVIOUS
  <2> QED BY <2>1 DEF Doubling
<1>2. ASSUME NEW k \in Nat, k \in T PROVE k + 1 \in T
  <2> SUFFICES ASSUME k + 1 <= n PROVE f[k + 1] = g[k + 1]
    OBVIOUS
  <2>1. k + 1 \in 0..n /\ k + 1 \in 0..m /\ k + 1 /= 0 /\ (k + 1) - 1 = k /\ k <= n
    OBVIOUS
  <2>2. f[k + 1] = 2 * f[k]
    BY <2>1 DEF Doubling
  <2>3. g[k + 1] = 2 * g[k]
    BY <2>1 DEF Doubling
  <2> QED BY <1>2, <2>1, <2>2, <2>3
<1> HIDE DEF T
<1>3. Nat \subseteq T
  BY <1>1, <1>2, SetInduction
<1> QED BY <1>3 DEF T

LEMMA Powers ==
  /\ Pow2[0] = 1
  /\ \A k \in Nat : Pow2[k] \in Nat \ {0} /\ Pow2[k + 1] = 2 * Pow2[k]
<1> DEFINE F == [k \in Nat |-> (CHOOSE f : Doubling(k, f))[k]]
           Upto(k) == CHOOSE f : Doubling(k, f)
<1>1. ASSUME NEW k \in Nat PROVE Doubling(k, Upto(k)) /\ F[k] = Upto(k)[k]
  <2>1. \E f : Doubling(k, f)
    BY DoublingExists
  <2> QED BY <2>1
<1> HIDE DEF Upto
<1>2. ASSUME NEW k \in Nat PROVE F[k] = IF k = 0 THEN 1 ELSE 2 * F[k - 1]
  <2> HIDE DEF F
  <2>1. Doubling(k, Upto(k)) /\ F[k] = Upto(k)[k] /\ k \in 0..k
    BY <1>1
  <2>2. CASE k = 0
    BY <2>1, <2>2 DEF Doubling
  <2>3. CASE k /= 0
    <3>1. k - 1 \in Nat /\ k - 1 <= k /\ k - 1 \in 0..(k - 1)
      BY <2>3
    <3>2. Doubling(k - 1, Upto(k - 1)) /\ F[k - 1] = Upto(k - 1)[k - 1]
      BY <1>1, <3>1
    <3>3. Upto(k - 1)[k - 1] = Upto(k)[k - 1]
      BY <2>1, <3>1, <3>2, DoublingAgrees
    <3>4. Upto(k)[k] = 2 * Upto(k)[k - 1]
      BY <2>1, <2>3 DEF Doubling
    <3> QED BY <2>1, <2>3, <3>2, <3>3, <3>4
  <2> QED BY <2>2, <2>3
<1>3. \E f : f = [k \in Nat |-> IF k = 0 THEN 1 ELSE 2 * f[k - 1]]
  <2>1. F = [k \in Nat |-> F[k]]
    OBVIOUS
  <2> HIDE DEF F
  <2>2. F = [k \in Nat |-> IF k = 0 THEN 1 ELSE 2 * F[k - 1]]
    BY <1>2, <2>1
  <2> QED BY <2>2
<1>4. Pow2 = [k \in Nat |-> IF k = 0 THEN 1 ELSE 2 * Pow2[k - 1]]
  BY <1>3 DEF Pow2
<1>5. Pow2[0] = 1
  BY <1>4
<1>6. ASSUME NEW k \in Nat PROVE Pow2[k + 1] = 2 * Pow2[k]
  <2>1. k + 1 \in Nat /\ k + 1 /= 0 /\ (k + 1) - 1 = k
    OBVIOUS
  <2> QED BY <1>4, <2>1
<1> DEFINE T == {k \in Nat : Pow2[k] \in Nat \ {0}}
<1>7. 0 \in T
  BY <1>5
<1>8. ASSUME NEW k \in Nat, k \in T PROVE k + 1 \in T
  BY <1>6, <1>8
<1> HIDE DEF T
<1>9. Nat \subseteq T
  BY <1>7, <1>8, SetInduction
<1> QED BY <1>5, <1>6, <1>9 DEF T

LEMMA PowerSplits ==
  ASSUME NEW k \in Nat, NEW j \in Nat
  PROVE  Pow2[k + j] = Pow2[k] * Pow2[j]
<1> DEFINE T == {l \in Nat : Pow2[k + l] = Pow2[k] * Pow2[l]}
<1>0. \A l \in Nat : Pow2[l] \in Nat \ {0} /\ Pow2[l + 1] = 2 * Pow2[l]
  BY Powers
<1>1. 0 \in T
  <2>1. Pow2[0] = 1 /\ k + 0 = k
    BY Powers
  <2>2. Pow2[k] * 1 = Pow2[k]
    BY <1>0
  <2> QED BY <2>1, <2>2
<1>2. ASSUME NEW l \in Nat, l \in T PROVE l + 1 \in T
  <2>1. Pow2[k + (l + 1)] = 2 * Pow2[k + l]
    <3>1. k + l \in Nat /\ (k + l) + 1 = k + (l + 1)
      OBVIOUS
    <3>2. Pow2[(k + l) + 1] = 2 * Pow2[k + l]
      BY <1>0, <3>1
    <3> QED BY <3>1, <3>2
  <2>2. Pow2[l + 1] = 2 * Pow2[l] /\ Pow2[k] \in Nat /\ Pow2[l] \in Nat
    BY <1>0
  <2> DEFINE a == Pow2[k]
             b == Pow2[l]
  <2>3. a \in Nat /\ b \in Nat
    BY <2>2
  <2>4. 2 * (a * b) = a * (2 * b)
    <3> HIDE DEF a, b
    <3> QED BY <2>3, Z3
  <2> QED BY <1>2, <2>1, <2>2, <2>4
<1> HIDE DEF T
<1>3. Nat \subseteq T
  BY <1>1, <1>2, SetInduction
<1> QED BY <1>3 DEF T

\* The quotient by a power of two: by one more of it, and of a number that a multiple
\* is added to.
LEMMA Halved ==
  ASSUME NEW n \in Int, NEW m \in Nat \ {0}
  PROVE  n \div (2 * m) = (n \div m) \div 2
<1> DEFINE q == n \div m
           r == n % m
           p == q \div 2
           s == q % 2
           M == 2 * m
<1>1. q \in Int /\ r \in 0..(m - 1) /\ n = m * q + r
  BY DivMod
<1> HIDE DEF q, r
<1>2. p \in Int /\ s \in 0..1 /\ q = 2 * p + s
  BY <1>1
<1> HIDE DEF p, s
<1>3. m * q = M * p + m * s /\ m * s \in 0..m
  <2>1. m * (2 * p + s) = (2 * m) * p + m * s
    BY <1>1, <1>2, Z3
  <2>2. CASE s = 0 BY <1>2, <2>1, <2>2
  <2>3. CASE s = 1 BY <1>2, <2>1, <2>3
  <2> QED BY <1>2, <2>2, <2>3
<1>4. M \in Nat \ {0} /\ m * s + r \in 0..(M - 1)
  <2>1. CASE s = 0 BY <1>1, <2>1
  <2>2. CASE s = 1 BY <1>1, <2>2
  <2> QED BY <1>2, <2>1, <2>2
<1> HIDE DEF M
<1>5. n = M * p + (m * s + r)
  <2> DEFINE a == M * p
             b == m * s
             c == m * q
  <2>1. a \in Int /\ b \in Int /\ r \in Int
    BY <1>1, <1>2, <1>4
  <2>2. n = c + r /\ c = a + b
    BY <1>1, <1>3
  <2> HIDE DEF a, b, c
  <2>3. n = a + (b + r)
    BY ONLY <2>1, <2>2
  <2> QED BY <2>3 DEF a, b
<1>6. n % M \in 0..(M - 1) /\ n \div M \in Int /\ n = M * (n \div M) + (n % M)
  BY <1>4, DivMod
<1>7. n \div M = p
  <2>1. M * (n \div M) + (n % M) = M * p + (m * s + r)
    BY <1>5, <1>6
  <2> QED BY <1>2, <1>4, <1>6, <2>1, DivModUnique
<1> QED BY <1>7 DEF p, q, M

LEMMA DivShift ==
  ASSUME NEW n \in Int, NEW m \in Nat \ {0}, NEW d \in Int
  PROVE  (n + m * d) \div m = (n \div m) + d
<1> DEFINE q == n \div m
           r == n % m
           x == n + m * d
<1>1. q \in Int /\ r \in 0..(m - 1) /\ n = m * q + r
  BY DivMod
<1> HIDE DEF q, r
<1>2. x \in Int /\ x = m * (q + d) + r
  BY <1>1, Z3
<1> HIDE DEF x
<1>3. x % m \in 0..(m - 1) /\ x \div m \in Int /\ x = m * (x \div m) + (x % m)
  BY <1>2, DivMod
<1>4. x \div m = q + d
  <2>1. q + d \in Int /\ m * (x \div m) + (x % m) = m * (q + d) + r
    BY <1>1, <1>2, <1>3
  <2> QED BY <1>1, <1>3, <2>1, DivModUnique
<1> QED BY <1>4 DEF x, q

\* A quotient, its parity and that of the next power.
LEMMA Quotients ==
  ASSUME NEW n \in Nat, NEW k \in Nat
  PROVE  /\ n \div Pow2[k] \in Int /\ Bit(n, k) = (n \div Pow2[k]) % 2 /\ Bit(n, k) \in {0, 1}
         /\ n \div Pow2[k + 1] = (n \div Pow2[k]) \div 2
<1> DEFINE m == Pow2[k]
<1>1. m \in Nat \ {0} /\ Pow2[k + 1] = 2 * m /\ n \in Int
  BY Powers
<1>2. Bit(n, k) = (n \div m) % 2
  BY DEF Bit
<1> HIDE DEF m
<1>3. n \div m \in Int /\ n \div (2 * m) = (n \div m) \div 2
  BY <1>1, DivMod, Halved
<1>4. Bit(n, k) \in {0, 1}
  BY <1>2, <1>3
<1> QED BY <1>1, <1>2, <1>3, <1>4 DEF m

\* Counting one more carries as far as the ones reach.
Carry(n, k) == ((n + 1) \div Pow2[k]) - (n \div Pow2[k])

LEMMA Carries ==
  ASSUME NEW n \in Nat, NEW k \in Nat
  PROVE  /\ Carry(n, k) \in {0, 1}
         /\ Carry(n, k + 1) = IF Carry(n, k) = 1 /\ Bit(n, k) = 1 THEN 1 ELSE 0
         /\ Bit(n + 1, k) = IF Carry(n, k) = 1 THEN 1 - Bit(n, k) ELSE Bit(n, k)
<1> DEFINE T == {j \in Nat : Carry(n, j) \in {0, 1}}
<1>1. n + 1 \in Nat
  OBVIOUS
<1>2. ASSUME NEW j \in Nat, Carry(n, j) \in {0, 1}
      PROVE  /\ Carry(n, j + 1) = IF Carry(n, j) = 1 /\ Bit(n, j) = 1 THEN 1 ELSE 0
             /\ Bit(n + 1, j) = IF Carry(n, j) = 1 THEN 1 - Bit(n, j) ELSE Bit(n, j)
  <2> DEFINE a == n \div Pow2[j]
             b == (n + 1) \div Pow2[j]
  <2>1. /\ a \in Int /\ Bit(n, j) = a % 2 /\ n \div Pow2[j + 1] = a \div 2
    BY Quotients
  <2>2. /\ b \in Int /\ Bit(n + 1, j) = b % 2 /\ (n + 1) \div Pow2[j + 1] = b \div 2
    BY <1>1, Quotients
  <2>3. Carry(n, j) = b - a /\ Carry(n, j + 1) = (b \div 2) - (a \div 2)
    BY <2>1, <2>2 DEF Carry
  <2> HIDE DEF a, b
  <2>4. CASE b = a
    <3>1. b - a = 0 /\ (b \div 2) - (a \div 2) = 0
      BY <2>1, <2>4
    <3> QED BY <2>1, <2>2, <2>3, <2>4, <3>1
  <2>5. CASE b = a + 1
    <3>1. b - a = 1 /\ a % 2 \in {0, 1}
      BY <2>1, <2>5
    <3>2. a % 2 = 1 => (b \div 2) - (a \div 2) = 1 /\ b % 2 = 0
      BY <2>1, <2>5
    <3>3. a % 2 = 0 => (b \div 2) - (a \div 2) = 0 /\ b % 2 = 1
      BY <2>1, <2>5
    <3> QED BY <2>1, <2>2, <2>3, <3>1, <3>2, <3>3
  <2>6. b = a \/ b = a + 1
    BY <1>2, <2>1, <2>2, <2>3
  <2> QED BY <2>4, <2>5, <2>6
<1>3. 0 \in T
  <2>1. Pow2[0] = 1 /\ n \div 1 = n /\ (n + 1) \div 1 = n + 1
    BY Powers
  <2> QED BY <2>1 DEF Carry
<1>4. ASSUME NEW j \in Nat, j \in T PROVE j + 1 \in T
  <2>1. Carry(n, j + 1) = IF Carry(n, j) = 1 /\ Bit(n, j) = 1 THEN 1 ELSE 0
    BY <1>2, <1>4
  <2> QED BY <2>1
<1> HIDE DEF T
<1>5. Nat \subseteq T
  BY <1>3, <1>4, SetInduction
<1>6. Carry(n, k) \in {0, 1}
  BY <1>5 DEF T
<1> QED BY <1>2, <1>6

LEMMA CarryFrom ==
  ASSUME NEW n \in Nat, NEW k \in Nat, NEW j \in Nat, k <= j, Carry(n, j) = 1
  PROVE  Carry(n, k) = 1
<1> DEFINE T == {l \in Nat : l >= k /\ Carry(n, l) = 1 => Carry(n, k) = 1}
<1>1. 0 \in T
  <2>1. 0 >= k => k = 0
    OBVIOUS
  <2> QED BY <2>1
<1>2. ASSUME NEW l \in Nat, l \in T PROVE l + 1 \in T
  <2> SUFFICES ASSUME l + 1 >= k, Carry(n, l + 1) = 1 PROVE Carry(n, k) = 1
    OBVIOUS
  <2>1. CASE k = l + 1
    BY <2>1
  <2>2. CASE k /= l + 1
    <3>1. l >= k
      BY <2>2
    <3>2. Carry(n, l) = 1
      BY Carries
    <3> QED BY <1>2, <3>1, <3>2
  <2> QED BY <2>1, <2>2
<1> HIDE DEF T
<1>3. Nat \subseteq T
  BY <1>1, <1>2, SetInduction
<1> QED BY <1>3 DEF T

\* The code of a number that is not yet reduced to the width of the pointers.
Code(n) == [k \in Bits |-> IF k = AW THEN Bit(n, AW) ELSE (Bit(n, k + 1) + Bit(n, k)) % 2]

LEMMA Width ==
  /\ AW \in Nat \ {0} /\ Bits = 0..AW /\ Bits \subseteq Nat
  /\ ASYNC_DEPTH \in Nat \ {0} /\ Pow2[AW + 1] = 2 * ASYNC_DEPTH
  /\ Pow2[AW] = ASYNC_DEPTH
<1>1. AW \in Nat \ {0}
  BY AsyncAssumption
<1> QED BY <1>1, Powers DEF Bits, ASYNC_DEPTH

LEMMA CodeBit ==
  ASSUME NEW n \in Nat, NEW k \in Bits
  PROVE  /\ Code(n)[k] = IF k = AW THEN Bit(n, AW) ELSE (Bit(n, k + 1) + Bit(n, k)) % 2
         /\ Code(n)[k] \in {0, 1}
<1>1. k \in Nat /\ k + 1 \in Nat /\ AW \in Nat
  BY Width
<1>2. Bit(n, k) \in {0, 1} /\ Bit(n, k + 1) \in {0, 1} /\ Bit(n, AW) \in {0, 1}
  BY <1>1, Quotients
<1>3. Code(n)[k] = IF k = AW THEN Bit(n, AW) ELSE (Bit(n, k + 1) + Bit(n, k)) % 2
  BY DEF Code
<1> QED BY <1>2, <1>3

LEMMA CodeFunction ==
  ASSUME NEW n \in Nat
  PROVE  Code(n) \in [Bits -> {0, 1}]
<1>1. \A k \in Bits : Code(n)[k] \in {0, 1}
  BY CodeBit
<1> QED BY <1>1 DEF Code

\* The bit of the code changes where the carry ends.
LEMMA Changes ==
  ASSUME NEW n \in Nat, NEW k \in Bits, Code(n)[k] /= Code(n + 1)[k]
  PROVE  Carry(n, k) = 1 /\ (k /= AW => Carry(n, k + 1) = 0)
<1>1. k \in Nat /\ k + 1 \in Nat /\ AW \in Nat /\ n + 1 \in Nat
  BY Width
<1>2. /\ Code(n)[k] = IF k = AW THEN Bit(n, AW) ELSE (Bit(n, k + 1) + Bit(n, k)) % 2
      /\ Code(n + 1)[k] = IF k = AW THEN Bit(n + 1, AW) ELSE (Bit(n + 1, k + 1) + Bit(n + 1, k)) % 2
  BY <1>1, CodeBit
<1> DEFINE c == Carry(n, k)
           d == Carry(n, k + 1)
           x == Bit(n, k)
           y == Bit(n, k + 1)
<1>3. /\ c \in {0, 1} /\ d \in {0, 1} /\ x \in {0, 1} /\ y \in {0, 1}
      /\ d = IF c = 1 /\ x = 1 THEN 1 ELSE 0
      /\ Bit(n + 1, k) = IF c = 1 THEN 1 - x ELSE x
      /\ Bit(n + 1, k + 1) = IF d = 1 THEN 1 - y ELSE y
  BY <1>1, Carries, Quotients
<1> HIDE DEF c, d, x, y
<1>4. CASE k = AW
  <2>1. Code(n)[k] = x /\ Code(n + 1)[k] = Bit(n + 1, k)
    BY <1>2, <1>4 DEF x
  <2> QED BY <1>3, <1>4, <2>1 DEF c
<1>5. CASE k /= AW
  <2>1. Code(n)[k] = (y + x) % 2 /\ Code(n + 1)[k] = (Bit(n + 1, k + 1) + Bit(n + 1, k)) % 2
    BY <1>2, <1>5 DEF x, y
  <2>2. c = 1 /\ d = 0
    <3>1. CASE c = 0
      <4>1. Bit(n + 1, k + 1) = y /\ Bit(n + 1, k) = x
        BY <1>3, <3>1
      <4> QED BY <2>1, <4>1
    <3>2. CASE c = 1 /\ d = 1
      <4>1. Bit(n + 1, k + 1) = 1 - y /\ Bit(n + 1, k) = 1 - x
        BY <1>3, <3>2
      <4>2. ((1 - y) + (1 - x)) % 2 = (y + x) % 2
        <5>1. CASE x = 0 /\ y = 0 BY <5>1
        <5>2. CASE x = 0 /\ y = 1 BY <5>2
        <5>3. CASE x = 1 /\ y = 0 BY <5>3
        <5>4. CASE x = 1 /\ y = 1 BY <5>4
        <5> QED BY <1>3, <5>1, <5>2, <5>3, <5>4
      <4> QED BY <2>1, <4>1, <4>2
    <3> QED BY <1>3, <3>1, <3>2
  <2> QED BY <2>2 DEF c, d
<1> QED BY <1>4, <1>5

\* The codes of neighbours differ in one bit.
LEMMA OneBit ==
  ASSUME NEW n \in Nat, NEW k \in Bits, NEW j \in Bits,
         Code(n)[k] /= Code(n + 1)[k], Code(n)[j] /= Code(n + 1)[j]
  PROVE  k = j
<1>1. ASSUME NEW a \in Bits, NEW b \in Bits, a < b,
             Code(n)[a] /= Code(n + 1)[a], Code(n)[b] /= Code(n + 1)[b]
      PROVE  FALSE
  <2>1. a \in Nat /\ b \in Nat /\ a + 1 \in Nat /\ a + 1 <= b /\ a /= AW
    BY <1>1, Width
  <2>2. Carry(n, a + 1) = 0
    BY <1>1, <2>1, Changes
  <2>3. Carry(n, b) = 1
    BY <1>1, Changes
  <2>4. Carry(n, a + 1) = 1
    BY <2>1, <2>3, CarryFrom
  <2> QED BY <2>2, <2>4
<1>2. k \in Nat /\ j \in Nat
  BY Width
<1>3. ~(k < j) /\ ~(j < k)
  BY <1>1
<1> QED BY <1>2, <1>3

\* So a register that is clocked while the pointer counts takes in the old or the new
\* value.
LEMMA OldOrNew ==
  ASSUME NEW n \in Nat, NEW m \in {n, n + 1}, NEW g \in Sampled(Code(n), Code(m))
  PROVE  g = Code(n) \/ g = Code(m)
<1>1. g \in [Bits -> {0, 1}] /\ \A k \in Bits : g[k] \in {Code(n)[k], Code(m)[k]}
  BY DEF Sampled
<1>2. m \in Nat
  OBVIOUS
<1>3. Code(n) \in [Bits -> {0, 1}] /\ Code(m) \in [Bits -> {0, 1}]
  BY <1>2, CodeFunction
<1>4. CASE \A k \in Bits : g[k] = Code(n)[k]
  <2>1. g = Code(n)
    BY <1>1, <1>3, <1>4
  <2> QED BY <2>1
<1>5. CASE \E k \in Bits : g[k] /= Code(n)[k]
  <2>1. PICK k \in Bits : g[k] /= Code(n)[k]
    BY <1>5
  <2>2. g[k] = Code(m)[k] /\ m = n + 1
    BY <1>1, <2>1
  <2>3. ASSUME NEW j \in Bits PROVE g[j] = Code(m)[j]
    <3>1. CASE j = k
      BY <2>2, <3>1
    <3>2. CASE j /= k
      <4>1. Code(n)[j] = Code(m)[j]
        BY <2>1, <2>2, <3>2, OneBit
      <4> QED BY <1>1, <4>1
    <3> QED BY <3>1, <3>2
  <2>4. g = Code(m)
    BY <1>1, <1>3, <2>3
  <2> QED BY <2>4
<1> QED BY <1>4, <1>5

\* The low bits do not see a multiple of a power above them.
LEMMA BitsBelow ==
  ASSUME NEW n \in Nat, NEW l \in Nat, NEW q \in Int, n + Pow2[l] * q \in Nat,
         NEW k \in Nat, k < l
  PROVE  Bit(n + Pow2[l] * q, k) = Bit(n, k)
<1> DEFINE p == Pow2[k]
           j == l - k - 1
           r == Pow2[j]
           a == n \div p
<1>1. j \in Nat /\ l = k + (j + 1) /\ j + 1 \in Nat
  OBVIOUS
<1>2. Pow2[l] = Pow2[k] * Pow2[j + 1]
  <2>1. Pow2[k + (j + 1)] = Pow2[k] * Pow2[j + 1]
    <3> HIDE DEF j
    <3> QED BY <1>1, PowerSplits
  <2> QED BY <1>1, <2>1
<1>3. p \in Nat \ {0} /\ r \in Nat \ {0} /\ Pow2[j + 1] = 2 * r
  <2> HIDE DEF j
  <2> QED BY <1>1, Powers
<1> HIDE DEF j, r
<1>4. Pow2[l] * q = p * (2 * (r * q)) /\ r * q \in Int
  <2> HIDE DEF p
  <2>1. Pow2[l] = p * (2 * r)
    BY <1>2, <1>3 DEF p
  <2>2. (p * (2 * r)) * q = p * (2 * (r * q)) /\ r * q \in Int
    BY <1>3, Z3
  <2> QED BY <2>1, <2>2
<1> DEFINE d == r * q
<1>5. d \in Int /\ 2 * d \in Int
  BY <1>4
<1>6. (n + Pow2[l] * q) \div p = a + 2 * d
  <2> HIDE DEF p, d
  <2>0. n \in Int /\ p \in Nat \ {0} /\ 2 * d \in Int
    BY <1>3, <1>5
  <2>1. (n + p * (2 * d)) \div p = (n \div p) + 2 * d
    BY ONLY <2>0, DivShift
  <2> QED BY <1>4, <2>1 DEF a, d
<1>7. a \in Int
  BY Quotients
<1> HIDE DEF a, d
<1>8. (a + 2 * d) % 2 = a % 2
  BY <1>5, <1>7, ModShift
<1> QED BY <1>6, <1>8 DEF Bit, a, p

\* The pointers' code is the code of the number they stand for.
LEMMA GrayIsCode ==
  ASSUME NEW n \in Nat
  PROVE  Gray(n % (2 * ASYNC_DEPTH)) = Code(n)
<1> DEFINE W == Pow2[AW + 1]
           m == n % W
           q == n \div W
<1>1. AW \in Nat /\ AW + 1 \in Nat /\ Bits = 0..AW /\ W = 2 * ASYNC_DEPTH /\ W \in Nat \ {0}
  BY Width
<1> HIDE DEF W
<1>2. q \in Int /\ m \in 0..(W - 1) /\ n = W * q + m
  <2>1. n \in Int /\ W \in Nat \ {0}
    BY <1>1
  <2> QED BY ONLY <2>1, DivMod
<1>3. m \in Nat /\ n = m + W * q
  <2> HIDE DEF m, q
  <2>1. W * q \in Int
    BY <1>1, <1>2
  <2> QED BY <1>1, <1>2, <2>1
<1> HIDE DEF q
<1>4. ASSUME NEW k \in Bits PROVE Bit(m, k) = Bit(n, k)
  <2>1. k \in Nat /\ k < AW + 1
    BY <1>1
  <2> HIDE DEF m
  <2>2. m + Pow2[AW + 1] * q \in Nat
    BY <1>3 DEF W
  <2>3. Bit(m + Pow2[AW + 1] * q, k) = Bit(m, k)
    BY <1>1, <1>2, <1>3, <2>1, <2>2, BitsBelow
  <2> QED BY <1>3, <2>3 DEF W
<1>5. Bit(m, AW + 1) = 0
  <2> HIDE DEF m
  <2> DEFINE d == m \div W
             e == m % W
  <2>0. m \in Int /\ W \in Nat \ {0}
    BY <1>1, <1>3
  <2>1. d \in Int /\ e \in 0..(W - 1) /\ m = W * d + e
    BY ONLY <2>0, DivMod
  <2> HIDE DEF d, e
  <2>2. W * d + e = W * 0 + m /\ 0 \in Int
    BY <1>1, <1>2, <2>1
  <2>4. d = 0
    BY ONLY <1>2, <2>0, <2>1, <2>2, DivModUnique
  <2>3. m \div W = 0
    BY <2>4 DEF d
  <2> QED BY <2>3 DEF Bit, W
<1>6. ASSUME NEW k \in Bits PROVE Gray(m)[k] = Code(n)[k]
  <2>1. Gray(m)[k] = (Bit(m, k + 1) + Bit(m, k)) % 2
    BY DEF Gray
  <2>2. Code(n)[k] = IF k = AW THEN Bit(n, AW) ELSE (Bit(n, k + 1) + Bit(n, k)) % 2
    BY CodeBit
  <2>3. CASE k = AW
    <3>1. Bit(n, AW) \in {0, 1} /\ Bit(m, k) = Bit(n, AW) /\ Bit(m, k + 1) = 0
      BY <1>1, <1>4, <1>5, <2>3, Quotients
    <3> QED BY <2>1, <2>2, <2>3, <3>1
  <2>4. CASE k /= AW
    <3>1. k + 1 \in Bits
      BY <1>1, <2>4
    <3> QED BY <1>4, <2>1, <2>2, <2>4, <3>1
  <2> QED BY <2>3, <2>4
<1>7. Gray(m) = Code(n)
  <2> HIDE DEF m
  <2> QED BY <1>6 DEF Gray, Code
<1> QED BY <1>1, <1>7 DEF m

\* The pattern of a full queue is the code of a whole round ahead.
LEMMA RoundAhead ==
  ASSUME NEW n \in Nat
  PROVE  Ahead(Code(n)) = Code(n + ASYNC_DEPTH)
<1> DEFINE m == n + ASYNC_DEPTH
<1>1. /\ AW \in Nat \ {0} /\ Bits = 0..AW /\ ASYNC_DEPTH \in Nat \ {0}
      /\ Pow2[AW] = ASYNC_DEPTH
  BY Width
<1>2. m \in Nat /\ m = n + Pow2[AW] * 1
  BY <1>1
<1>3. ASSUME NEW k \in Nat, k < AW PROVE Bit(m, k) = Bit(n, k)
  <2>0. n + Pow2[AW] * 1 \in Nat /\ AW \in Nat /\ 1 \in Int
    BY <1>1, <1>2
  <2>1. Bit(n + Pow2[AW] * 1, k) = Bit(n, k)
    BY ONLY n \in Nat, k \in Nat, k < AW, <2>0, BitsBelow
  <2> QED BY <1>2, <2>1
<1>4. Bit(m, AW) = 1 - Bit(n, AW)
  <2> DEFINE a == n \div Pow2[AW]
             b == m \div Pow2[AW]
  <2>1. a \in Int /\ Bit(n, AW) = a % 2
    BY <1>1, Quotients
  <2>2. b = a + 1
    <3>0. n \in Int /\ Pow2[AW] \in Nat \ {0} /\ 1 \in Int
      BY <1>1
    <3>1. (n + Pow2[AW] * 1) \div Pow2[AW] = (n \div Pow2[AW]) + 1
      BY ONLY <3>0, DivShift
    <3> QED BY <1>2, <3>1
  <2>3. Bit(m, AW) = b % 2
    BY DEF Bit
  <2> HIDE DEF a, b
  <2> QED BY <2>1, <2>2, <2>3
<1> HIDE DEF m
<1>5. ASSUME NEW k \in Bits PROVE Ahead(Code(n))[k] = Code(m)[k]
  <2>1. Ahead(Code(n))[k] = IF k >= AW - 1 THEN 1 - Code(n)[k] ELSE Code(n)[k]
    BY DEF Ahead
  <2>2. /\ Code(n)[k] = IF k = AW THEN Bit(n, AW) ELSE (Bit(n, k + 1) + Bit(n, k)) % 2
        /\ Code(m)[k] = IF k = AW THEN Bit(m, AW) ELSE (Bit(m, k + 1) + Bit(m, k)) % 2
    BY <1>2, CodeBit
  <2>3. CASE k = AW
    BY <1>1, <1>4, <2>1, <2>2, <2>3
  <2>4. CASE k = AW - 1
    <3>1. k \in Nat /\ k + 1 = AW /\ k /= AW /\ k >= AW - 1 /\ k < AW
      BY <1>1, <2>4
    <3> DEFINE a == Bit(n, AW)
               b == Bit(n, k)
    <3>2. a \in {0, 1} /\ b \in {0, 1}
      BY <1>1, <3>1, Quotients
    <3>3. Code(n)[k] = (a + b) % 2 /\ Code(m)[k] = ((1 - a) + b) % 2
      BY <1>3, <1>4, <2>2, <3>1
    <3> HIDE DEF a, b
    <3>4. ((1 - a) + b) % 2 = 1 - ((a + b) % 2)
      <4>1. CASE a = 0 /\ b = 0 BY <4>1
      <4>2. CASE a = 0 /\ b = 1 BY <4>2
      <4>3. CASE a = 1 /\ b = 0 BY <4>3
      <4>4. CASE a = 1 /\ b = 1 BY <4>4
      <4> QED BY <3>2, <4>1, <4>2, <4>3, <4>4
    <3> QED BY <2>1, <3>1, <3>3, <3>4
  <2>5. CASE k < AW - 1
    <3>1. k \in Nat /\ k + 1 \in Nat /\ k < AW /\ k + 1 < AW /\ k /= AW /\ ~(k >= AW - 1)
      BY <1>1, <2>5
    <3>2. Bit(m, k) = Bit(n, k) /\ Bit(m, k + 1) = Bit(n, k + 1)
      BY <1>3, <3>1
    <3> QED BY <2>1, <2>2, <3>1, <3>2
  <2>6. k \in Nat /\ k <= AW
    BY <1>1
  <2> QED BY <1>1, <2>3, <2>4, <2>5, <2>6
<1>6. Ahead(Code(n)) = Code(m)
  BY <1>5 DEF Ahead, Code
<1> QED BY <1>6 DEF m

------------------------------------------------------------------------------
(***************************************************************************)
(* The queue between two clocks, for any width of its addresses.           *)
(***************************************************************************)
\* What the other side holds of a counter that is at n: was is its code before it last
\* changed, and the two registers hold codes of numbers it passed, x the older of them.
Crossed(n, gray, was, sync1, sync2, x) ==
  /\ n \in Nat /\ x \in Nat /\ gray = Code(n)
  /\ \E w, y \in Nat : /\ x <= y /\ y <= w /\ w <= n /\ n <= w + 1
                       /\ was = Code(w) /\ sync1 = Code(y) /\ sync2 = Code(x)

\* Each side acts on a position of the other that is not ahead of it.
AsyncInv ==
  /\ async_i \in Nat /\ async_got \in Nat
  /\ wr_bin = async_i % (2 * ASYNC_DEPTH) /\ rd_bin = async_got % (2 * ASYNC_DEPTH)
  /\ \E x \in Nat : /\ Crossed(async_got, rd_gray, rd_was, rd_gray_sync1, rd_gray_sync2, x)
                    /\ async_i <= x + ASYNC_DEPTH
                    /\ ~full_r => async_i < x + ASYNC_DEPTH
  /\ \E x \in Nat : /\ Crossed(async_i, wr_gray, wr_was, wr_gray_sync1, wr_gray_sync2, x)
                    /\ async_got <= x
                    /\ ~empty_r => async_got < x
  /\ DOMAIN async_mem = 0..(ASYNC_DEPTH - 1) /\ async_mem = [a \in DOMAIN async_mem |-> async_mem[a]]
  /\ \A k \in async_got..(async_i - 1) : async_mem[k % ASYNC_DEPTH] = k
  /\ async_taken = [k \in 1..async_got |-> k - 1]

\* The receiving clock ticks.
LEMMA CrossHere ==
  ASSUME NEW n, NEW gray, NEW was, NEW sync1, NEW sync2, NEW x,
         Crossed(n, gray, was, sync1, sync2, x), NEW caught \in Sampled(was, gray)
  PROVE  \E y \in Nat : x <= y /\ Crossed(n, gray, gray, caught, sync1, y)
<1>1. PICK w, y \in Nat : /\ x <= y /\ y <= w /\ w <= n /\ n <= w + 1
                          /\ was = Code(w) /\ sync1 = Code(y) /\ sync2 = Code(x)
  BY DEF Crossed
<1>2. n \in Nat /\ x \in Nat /\ gray = Code(n)
  BY DEF Crossed
<1>3. n \in {w, w + 1} /\ caught \in Sampled(Code(w), Code(n))
  BY <1>1, <1>2
<1>4. caught = Code(w) \/ caught = Code(n)
  BY <1>3, OldOrNew
<1>5. PICK z \in {w, n} : caught = Code(z)
  BY <1>4
<1>6. z \in Nat /\ y <= z /\ z <= n /\ n <= n + 1
  BY <1>1, <1>2
<1>7. Crossed(n, gray, gray, caught, sync1, y)
  BY <1>1, <1>2, <1>5, <1>6 DEF Crossed
<1> QED BY <1>1, <1>7

\* The sending clock ticks.
LEMMA CrossThere ==
  ASSUME NEW n, NEW gray, NEW was, NEW sync1, NEW sync2, NEW x,
         Crossed(n, gray, was, sync1, sync2, x), NEW m \in {n, n + 1}
  PROVE  Crossed(m, Code(m), gray, sync1, sync2, x)
<1>1. PICK w, y \in Nat : /\ x <= y /\ y <= w /\ w <= n /\ n <= w + 1
                          /\ was = Code(w) /\ sync1 = Code(y) /\ sync2 = Code(x)
  BY DEF Crossed
<1>2. n \in Nat /\ x \in Nat /\ gray = Code(n) /\ m \in Nat
  BY DEF Crossed
<1>3. y <= n /\ n <= m /\ m <= n + 1
  BY <1>1, <1>2
<1> QED BY <1>1, <1>2, <1>3 DEF Crossed

LEMMA CrossOrder ==
  ASSUME NEW n, NEW gray, NEW was, NEW sync1, NEW sync2, NEW x,
         Crossed(n, gray, was, sync1, sync2, x)
  PROVE  n \in Nat /\ x \in Nat /\ x <= n /\ gray = Code(n) /\ sync2 = Code(x)
  BY DEF Crossed

LEMMA Pointers ==
  ASSUME NEW n \in Nat
  PROVE  LET W == 2 * ASYNC_DEPTH
         IN  /\ ((n % W) + 0) % W = n % W /\ ((n % W) + 1) % W = (n + 1) % W
             /\ (n % W) % ASYNC_DEPTH = n % ASYNC_DEPTH
             /\ n % ASYNC_DEPTH \in 0..(ASYNC_DEPTH - 1)
<1> DEFINE d == ASYNC_DEPTH
           W == 2 * d
<1>1. d \in Nat \ {0}
  BY Width
<1> HIDE DEF d
<1>2. W \in Nat \ {0} /\ n \in Int /\ 0 \in Int /\ 1 \in Int /\ 2 \in Nat \ {0} /\ d * 2 = W
  BY <1>1
<1>3. (n % (d * 2)) % d = n % d /\ n % d \in 0..(d - 1)
  BY ONLY <1>1, <1>2, ModOfMod, DivMod
<1> HIDE DEF W
<1>4. ((n % W) + 0) % W = (n + 0) % W /\ ((n % W) + 1) % W = (n + 1) % W
  BY ONLY <1>2, ModAdd
<1>5. n + 0 = n
  OBVIOUS
<1> QED BY <1>2, <1>3, <1>4, <1>5 DEF W, d

\* What both sides hold is in order.
LEMMA Order ==
  ASSUME AsyncInv
  PROVE  /\ async_i \in Nat /\ async_got \in Nat /\ ASYNC_DEPTH \in Nat \ {0}
         /\ async_got <= async_i /\ async_i <= async_got + ASYNC_DEPTH
         /\ ~full_r => async_i < async_got + ASYNC_DEPTH
         /\ ~empty_r => async_got < async_i
<1>1. /\ async_i \in Nat /\ async_got \in Nat /\ ASYNC_DEPTH \in Nat \ {0}
  BY Width DEF AsyncInv
<1>2. PICK x \in Nat : /\ Crossed(async_got, rd_gray, rd_was, rd_gray_sync1, rd_gray_sync2, x)
                       /\ async_i <= x + ASYNC_DEPTH
                       /\ ~full_r => async_i < x + ASYNC_DEPTH
  BY DEF AsyncInv
<1>3. PICK y \in Nat : /\ Crossed(async_i, wr_gray, wr_was, wr_gray_sync1, wr_gray_sync2, y)
                       /\ async_got <= y
                       /\ ~empty_r => async_got < y
  BY DEF AsyncInv
<1>4. x <= async_got /\ y <= async_i
  BY <1>2, <1>3, CrossOrder
<1>5. ~full_r => async_i < async_got + ASYNC_DEPTH
  BY <1>1, <1>2, <1>4
<1>6. ~empty_r => async_got < async_i
  BY <1>1, <1>3, <1>4
<1>7. async_got <= async_i /\ async_i <= async_got + ASYNC_DEPTH
  BY <1>1, <1>2, <1>3, <1>4
<1> QED BY <1>1, <1>5, <1>6, <1>7

LEMMA WrClockStep ==
  ASSUME AsyncInv, NEW wr_en \in BOOLEAN, WrClock(wr_en)
  PROVE  AsyncInv'
<1> DEFINE D == ASYNC_DEPTH
           W == 2 * D
           advance == wr_en /\ ~full_r
           one == IF advance THEN 1 ELSE 0
           next == (wr_bin + one) % W
           m == async_i + one
<1>1. /\ async_i \in Nat /\ async_got \in Nat /\ D \in Nat \ {0}
      /\ async_got <= async_i /\ async_i <= async_got + D
      /\ ~full_r => async_i < async_got + D
  BY Order
<1>2. /\ wr_bin = async_i % W /\ rd_bin = async_got % W
      /\ DOMAIN async_mem = 0..(D - 1) /\ async_mem = [a \in DOMAIN async_mem |-> async_mem[a]]
      /\ \A k \in async_got..(async_i - 1) : async_mem[k % D] = k
      /\ async_taken = [k \in 1..async_got |-> k - 1]
  BY DEF AsyncInv
<1>3. /\ IF advance
         THEN /\ async_mem' = [async_mem EXCEPT ![wr_bin % D] = async_i] /\ async_i' = async_i + 1
         ELSE async_mem' = async_mem /\ async_i' = async_i
      /\ wr_bin' = next /\ wr_gray' = Gray(next) /\ wr_was' = wr_gray
      /\ rd_gray_sync1' \in Sampled(rd_was, rd_gray) /\ rd_was' = rd_gray
      /\ rd_gray_sync2' = rd_gray_sync1
      /\ full_r' = (Gray(next) = Ahead(rd_gray_sync2))
      /\ rd_bin' = rd_bin /\ rd_gray' = rd_gray /\ wr_gray_sync1' = wr_gray_sync1
      /\ wr_gray_sync2' = wr_gray_sync2 /\ empty_r' = empty_r
      /\ async_got' = async_got /\ async_taken' = async_taken
  BY DEF WrClock, rdVars
<1> HIDE DEF advance
<1>4. /\ async_i' = m /\ m \in Nat /\ m \in {async_i, async_i + 1}
      /\ advance => m = async_i + 1 /\ async_i < async_got + D
      /\ ~advance => m = async_i
  <2>1. CASE advance BY <1>1, <1>3, <2>1 DEF advance
  <2>2. CASE ~advance BY <1>1, <1>3, <2>2
  <2> QED BY <2>1, <2>2
<1>5. next = m % W
  <2>1. CASE advance BY <1>1, <1>2, <2>1, Pointers
  <2>2. CASE ~advance
    <3>1. one = 0 /\ m = async_i BY <1>4, <2>2
    <3> HIDE DEF one, m
    <3> QED BY <1>1, <1>2, <3>1, Pointers
  <2> QED BY <2>1, <2>2
<1>6. Gray(next) = Code(m)
  <2> HIDE DEF m, next
  <2> QED BY <1>4, <1>5, GrayIsCode
<1> HIDE DEF m, next, one
<1>7. \E x \in Nat : /\ Crossed(async_got, rd_gray, rd_was', rd_gray_sync1', rd_gray_sync2', x)
                     /\ m <= x + D
                     /\ ~full_r' => m < x + D
  <2>1. PICK x \in Nat : /\ Crossed(async_got, rd_gray, rd_was, rd_gray_sync1, rd_gray_sync2, x)
                         /\ async_i <= x + D
                         /\ ~full_r => async_i < x + D
    BY DEF AsyncInv
  <2>2. PICK y \in Nat : x <= y /\ Crossed(async_got, rd_gray, rd_gray, rd_gray_sync1', rd_gray_sync1, y)
    BY <1>3, <2>1, CrossHere
  <2>3. m <= x + D
    <3>1. CASE advance
      <4>1. ~full_r /\ m = async_i + 1 BY <1>4, <3>1 DEF advance
      <4> QED BY <1>1, <2>1, <4>1
    <3>2. CASE ~advance
      <4>1. m = async_i BY <1>4, <3>2
      <4> QED BY <2>1, <4>1
    <3> QED BY <3>1, <3>2
  <2>4. m = x + D => full_r'
    <3>1. Ahead(rd_gray_sync2) = Code(x + D)
      BY <2>1, CrossOrder, RoundAhead
    <3> QED BY <1>3, <1>6, <3>1
  <2>5. ~full_r' => m < x + D
    BY <1>1, <1>4, <2>1, <2>3, <2>4
  <2>6. m <= y + D
    BY <1>1, <1>4, <2>1, <2>2, <2>3
  <2>7. ~full_r' => m < y + D
    <3> SUFFICES ASSUME ~full_r' PROVE m < y + D
      OBVIOUS
    <3>1. m < x + D BY <2>5
    <3> QED BY <1>1, <1>4, <2>1, <2>2, <3>1
  <2>8. Crossed(async_got, rd_gray, rd_was', rd_gray_sync1', rd_gray_sync2', y)
    BY <1>3, <2>2
  <2> QED BY <2>6, <2>7, <2>8
<1>8. \E x \in Nat : /\ Crossed(m, wr_gray', wr_was', wr_gray_sync1, wr_gray_sync2, x)
                     /\ async_got <= x
                     /\ ~empty_r => async_got < x
  <2>1. PICK x \in Nat : /\ Crossed(async_i, wr_gray, wr_was, wr_gray_sync1, wr_gray_sync2, x)
                         /\ async_got <= x
                         /\ ~empty_r => async_got < x
    BY DEF AsyncInv
  <2>2. Crossed(m, Code(m), wr_gray, wr_gray_sync1, wr_gray_sync2, x)
    BY <1>4, <2>1, CrossThere
  <2>3. Crossed(m, wr_gray', wr_was', wr_gray_sync1, wr_gray_sync2, x)
    BY <1>3, <1>6, <2>2
  <2> QED BY <2>1, <2>3
<1>9. DOMAIN async_mem' = 0..(D - 1) /\ async_mem' = [a \in DOMAIN async_mem' |-> async_mem'[a]]
  BY <1>2, <1>3
<1>10. wr_bin % D = async_i % D /\ async_i % D \in 0..(D - 1)
  BY <1>1, <1>2, Pointers
<1>11. ASSUME NEW k \in async_got..(m - 1)
       PROVE  async_mem'[k % D] = k
  <2>1. k \in Nat /\ async_got <= k
    BY <1>1, <1>4
  <2>2. CASE advance
    <3>1. async_mem' = [async_mem EXCEPT ![async_i % D] = async_i] /\ m = async_i + 1
          /\ async_i < async_got + D
      BY <1>3, <1>4, <1>10, <2>2
    <3>2. CASE k = async_i
      BY <1>2, <1>10, <3>1, <3>2
    <3>3. CASE k /= async_i
      <4>1. k < async_i /\ async_i < k + D /\ k \in async_got..(async_i - 1)
        BY <1>1, <2>1, <3>1, <3>3
      <4>2. async_i % D /= k % D
        <5> HIDE DEF D
        <5> QED BY <1>1, <2>1, <4>1, SlotFree
      <4>3. async_mem[k % D] = k
        BY <1>2, <4>1
      <4>4. k % D \in 0..(D - 1)
        BY <2>1, Pointers
      <4> QED BY <1>2, <3>1, <4>2, <4>3, <4>4
    <3> QED BY <3>2, <3>3
  <2>3. CASE ~advance
    <3>1. async_mem' = async_mem /\ m = async_i
      BY <1>3, <1>4, <2>3
    <3> QED BY <1>2, <3>1
  <2> QED BY <2>2, <2>3
<1>12. D' = D
  BY DEF ASYNC_DEPTH, Pow2
<1>13. /\ async_i' \in Nat /\ async_got' \in Nat /\ wr_bin' = async_i' % (2 * ASYNC_DEPTH')
       /\ rd_bin' = async_got' % (2 * ASYNC_DEPTH')
  BY <1>1, <1>2, <1>3, <1>4, <1>5, <1>12
<1>14. async_taken' = [k \in 1..async_got' |-> k - 1]
  BY <1>2, <1>3
<1> QED BY <1>3, <1>4, <1>7, <1>8, <1>9, <1>11, <1>12, <1>13, <1>14 DEF AsyncInv

LEMMA RdClockStep ==
  ASSUME AsyncInv, NEW rd_en \in BOOLEAN, RdClock(rd_en)
  PROVE  AsyncInv'
<1> DEFINE D == ASYNC_DEPTH
           W == 2 * D
           advance == rd_en /\ ~empty_r
           one == IF advance THEN 1 ELSE 0
           next == (rd_bin + one) % W
           m == async_got + one
<1>1. /\ async_i \in Nat /\ async_got \in Nat /\ D \in Nat \ {0}
      /\ async_got <= async_i /\ async_i <= async_got + D
      /\ ~empty_r => async_got < async_i
  BY Order
<1>2. /\ wr_bin = async_i % W /\ rd_bin = async_got % W
      /\ DOMAIN async_mem = 0..(D - 1) /\ async_mem = [a \in DOMAIN async_mem |-> async_mem[a]]
      /\ \A k \in async_got..(async_i - 1) : async_mem[k % D] = k
      /\ async_taken = [k \in 1..async_got |-> k - 1]
  BY DEF AsyncInv
<1>3. /\ IF advance
         THEN /\ async_taken' = Append(async_taken, async_mem[rd_bin % D])
              /\ async_got' = async_got + 1
         ELSE async_taken' = async_taken /\ async_got' = async_got
      /\ rd_bin' = next /\ rd_gray' = Gray(next) /\ rd_was' = rd_gray
      /\ wr_gray_sync1' \in Sampled(wr_was, wr_gray) /\ wr_was' = wr_gray
      /\ wr_gray_sync2' = wr_gray_sync1
      /\ empty_r' = (Gray(next) = wr_gray_sync2)
      /\ wr_bin' = wr_bin /\ wr_gray' = wr_gray /\ rd_gray_sync1' = rd_gray_sync1
      /\ rd_gray_sync2' = rd_gray_sync2 /\ full_r' = full_r
      /\ async_i' = async_i /\ async_mem' = async_mem
  BY DEF RdClock, wrVars
<1> HIDE DEF advance
<1>4. /\ async_got' = m /\ m \in Nat /\ m \in {async_got, async_got + 1}
      /\ advance => m = async_got + 1 /\ async_got < async_i
      /\ ~advance => m = async_got
  <2>1. CASE advance BY <1>1, <1>3, <2>1 DEF advance
  <2>2. CASE ~advance BY <1>1, <1>3, <2>2
  <2> QED BY <2>1, <2>2
<1>5. next = m % W
  <2>1. CASE advance BY <1>1, <1>2, <2>1, Pointers
  <2>2. CASE ~advance
    <3>1. one = 0 /\ m = async_got BY <1>4, <2>2
    <3> HIDE DEF one, m
    <3> QED BY <1>1, <1>2, <3>1, Pointers
  <2> QED BY <2>1, <2>2
<1>6. Gray(next) = Code(m)
  <2> HIDE DEF m, next
  <2> QED BY <1>4, <1>5, GrayIsCode
<1> HIDE DEF m, next, one
<1>7. \E x \in Nat : /\ Crossed(async_i, wr_gray, wr_was', wr_gray_sync1', wr_gray_sync2', x)
                     /\ m <= x
                     /\ ~empty_r' => m < x
  <2>1. PICK x \in Nat : /\ Crossed(async_i, wr_gray, wr_was, wr_gray_sync1, wr_gray_sync2, x)
                         /\ async_got <= x
                         /\ ~empty_r => async_got < x
    BY DEF AsyncInv
  <2>2. PICK y \in Nat : x <= y /\ Crossed(async_i, wr_gray, wr_gray, wr_gray_sync1', wr_gray_sync1, y)
    BY <1>3, <2>1, CrossHere
  <2>3. m <= x
    <3>1. CASE advance
      <4>1. ~empty_r /\ m = async_got + 1 BY <1>4, <3>1 DEF advance
      <4> QED BY <1>1, <2>1, <4>1
    <3>2. CASE ~advance
      <4>1. m = async_got BY <1>4, <3>2
      <4> QED BY <2>1, <4>1
    <3> QED BY <3>1, <3>2
  <2>4. m = x => empty_r'
    <3>1. wr_gray_sync2 = Code(x)
      BY <2>1, CrossOrder
    <3> QED BY <1>3, <1>6, <3>1
  <2>5. ~empty_r' => m < x
    BY <1>1, <1>4, <2>1, <2>3, <2>4
  <2>6. m <= y
    BY <1>1, <1>4, <2>1, <2>2, <2>3
  <2>7. ~empty_r' => m < y
    <3> SUFFICES ASSUME ~empty_r' PROVE m < y
      OBVIOUS
    <3>1. m < x BY <2>5
    <3> QED BY <1>1, <1>4, <2>1, <2>2, <3>1
  <2>8. Crossed(async_i, wr_gray, wr_was', wr_gray_sync1', wr_gray_sync2', y)
    BY <1>3, <2>2
  <2> QED BY <2>6, <2>7, <2>8
<1>8. \E x \in Nat : /\ Crossed(m, rd_gray', rd_was', rd_gray_sync1, rd_gray_sync2, x)
                     /\ async_i <= x + D
                     /\ ~full_r => async_i < x + D
  <2>1. PICK x \in Nat : /\ Crossed(async_got, rd_gray, rd_was, rd_gray_sync1, rd_gray_sync2, x)
                         /\ async_i <= x + D
                         /\ ~full_r => async_i < x + D
    BY DEF AsyncInv
  <2>2. Crossed(m, Code(m), rd_gray, rd_gray_sync1, rd_gray_sync2, x)
    BY <1>4, <2>1, CrossThere
  <2>3. Crossed(m, rd_gray', rd_was', rd_gray_sync1, rd_gray_sync2, x)
    BY <1>3, <1>6, <2>2
  <2> QED BY <2>1, <2>3
<1>9. async_taken' = [k \in 1..m |-> k - 1]
  <2>1. CASE advance
    <3>1. async_got \in async_got..(async_i - 1) /\ m = async_got + 1
      BY <1>1, <1>4, <2>1
    <3>2. async_mem[rd_bin % D] = async_got
      BY <1>1, <1>2, <3>1, Pointers
    <3>3. async_taken' = Append([k \in 1..async_got |-> k - 1], async_got)
      BY <1>2, <1>3, <2>1, <3>2
    <3> QED BY <1>1, <3>1, <3>3, NextCounted
  <2>2. CASE ~advance
    BY <1>2, <1>3, <1>4, <2>2
  <2> QED BY <2>1, <2>2
<1>10. \A k \in m..(async_i - 1) : async_mem'[k % D] = k
  <2> TAKE k \in m..(async_i - 1)
  <2>1. k \in async_got..(async_i - 1)
    BY <1>1, <1>4
  <2> QED BY <1>2, <1>3, <2>1
<1>11. D' = D
  BY DEF ASYNC_DEPTH, Pow2
<1>12. /\ async_i' \in Nat /\ async_got' \in Nat /\ wr_bin' = async_i' % (2 * ASYNC_DEPTH')
       /\ rd_bin' = async_got' % (2 * ASYNC_DEPTH')
  BY <1>1, <1>2, <1>3, <1>4, <1>5, <1>11
<1>13. DOMAIN async_mem' = 0..(D - 1) /\ async_mem' = [a \in DOMAIN async_mem' |-> async_mem'[a]]
  BY <1>2, <1>3
<1> QED BY <1>3, <1>4, <1>7, <1>8, <1>9, <1>10, <1>11, <1>12, <1>13 DEF AsyncInv

\* The queue between two clocks, for any width of its addresses: the flags may be late
\* but never wrong, so no slot is written before it was read or read before it was written.
THEOREM AsyncKept == AsyncSpec => [](AsyncInv /\ AsyncHandsOn)
<1>1. AsyncInit => AsyncInv
  <2> SUFFICES ASSUME AsyncInit PROVE AsyncInv
    OBVIOUS
  <2>1. ASYNC_DEPTH \in Nat \ {0} /\ 2 * ASYNC_DEPTH \in Nat \ {0}
    BY Width
  <2>2. 0 % (2 * ASYNC_DEPTH) = 0
    <3> DEFINE W == 2 * ASYNC_DEPTH
    <3>1. W \in Nat \ {0} /\ 0 \in 0..(W - 1)
      BY <2>1
    <3> HIDE DEF W
    <3>2. 0 % W = 0
      BY ONLY <3>1, ModSmall
    <3> QED BY <3>2 DEF W
  <2>3. Gray(0) = Code(0)
    <3>1. Gray(0 % (2 * ASYNC_DEPTH)) = Code(0)
      BY GrayIsCode
    <3> QED BY <2>2, <3>1
  <2>4. Crossed(0, Code(0), Code(0), Code(0), Code(0), 0)
    BY DEF Crossed
  <2>5. \E x \in Nat : /\ Crossed(async_got, rd_gray, rd_was, rd_gray_sync1, rd_gray_sync2, x)
                       /\ async_i <= x + ASYNC_DEPTH
                       /\ ~full_r => async_i < x + ASYNC_DEPTH
    BY <2>1, <2>3, <2>4 DEF AsyncInit
  <2>6. \E x \in Nat : /\ Crossed(async_i, wr_gray, wr_was, wr_gray_sync1, wr_gray_sync2, x)
                       /\ async_got <= x
                       /\ ~empty_r => async_got < x
    BY <2>3, <2>4 DEF AsyncInit
  <2>7. DOMAIN async_mem = 0..(ASYNC_DEPTH - 1) /\ async_mem = [a \in DOMAIN async_mem |-> async_mem[a]]
    BY DEF AsyncInit
  <2>8. <<>> = [k \in 1..0 |-> k - 1] /\ 0..(0 - 1) = {}
    OBVIOUS
  <2>9. async_i = 0 /\ async_got = 0 /\ wr_bin = 0 /\ rd_bin = 0 /\ async_taken = <<>>
    BY DEF AsyncInit
  <2> QED BY <2>2, <2>5, <2>6, <2>7, <2>8, <2>9 DEF AsyncInv
<1>2. AsyncInv /\ [AsyncNext]_async_vars => AsyncInv'
  <2> SUFFICES ASSUME AsyncInv, [AsyncNext]_async_vars PROVE AsyncInv'
    OBVIOUS
  <2>1. CASE UNCHANGED async_vars
    <3>1. ASYNC_DEPTH' = ASYNC_DEPTH
      BY DEF ASYNC_DEPTH, Pow2
    <3> QED BY <2>1, <3>1 DEF async_vars, wrVars, rdVars, AsyncInv
  <2> QED BY <2>1, WrClockStep, RdClockStep DEF AsyncNext
<1>3. AsyncInv => AsyncHandsOn
  <2> SUFFICES ASSUME AsyncInv PROVE AsyncHandsOn
    OBVIOUS
  <2>1. async_i = async_got + ASYNC_DEPTH => full_r
    BY Order
  <2>2. async_i = async_got => empty_r
    BY Order
  <2> QED BY <2>1, <2>2, Order DEF AsyncInv, AsyncHandsOn
<1> QED BY <1>1, <1>2, <1>3, PTL DEF AsyncSpec

------------------------------------------------------------------------------
(***************************************************************************)
(* The arbiter, for any number of requesters.                              *)
(***************************************************************************)
\* How far a requester is behind the base.
Behind(r, b) == (r - b) % ArbN

\* Who is far from the base has not waited long: every turn of another brings the
\* base nearer.
ArbInv ==
  /\ base \in Requesters /\ req \subseteq Requesters
  /\ waited \in [Requesters -> Nat]
  /\ kind = "rr" => \A r \in Requesters : waited[r] + Behind(r, base) <= ArbN - 1

LEMMA Distance ==
  ASSUME NEW r \in Requesters, NEW b \in Requesters
  PROVE  Behind(r, b) \in 0..(ArbN - 1)
<1>1. r - b \in Int BY ArbAssumption DEF Requesters
<1> QED BY <1>1, ArbAssumption, DivMod DEF Behind

LEMMA OneDistance ==
  ASSUME NEW r \in Requesters, NEW s \in Requesters, NEW b \in Requesters,
         Behind(r, b) = Behind(s, b)
  PROVE  r = s
<1>1. /\ r - b \in Int /\ s - b \in Int /\ (r - b) - (s - b) < ArbN /\ (s - b) - (r - b) < ArbN
      /\ r \in Int /\ s \in Int /\ b \in Int
  BY ArbAssumption DEF Requesters
<1>2. r - b = s - b
  BY <1>1, ArbAssumption, ModInjective DEF Behind
<1> QED BY <1>1, <1>2

\* One of those who ask is granted, and all others are farther from the base.
LEMMA OneGranted ==
  ASSUME base \in Requesters, req \subseteq Requesters, req /= {}
  PROVE  \E g \in req : grant = {g} /\ \A s \in req \ {g} : Behind(g, base) < Behind(s, base)
<1> DEFINE T == {Behind(r, base) : r \in req}
<1>1. T \subseteq Nat /\ T # {}
  <2>1. \A r \in req : Behind(r, base) \in Nat
    BY Distance, ArbAssumption
  <2> QED BY <2>1
<1>2. PICK x \in T : \A y \in T : x <= y
  <2> HIDE DEF T
  <2> QED BY <1>1, LeastNumber
<1>3. PICK g \in req : Behind(g, base) = x
  OBVIOUS
<1>4. \A s \in req : Behind(g, base) <= Behind(s, base)
  BY <1>2, <1>3
<1>5. ASSUME NEW s \in req \ {g} PROVE Behind(g, base) < Behind(s, base)
  <2>1. Behind(g, base) /= Behind(s, base) BY OneDistance
  <2>2. Behind(g, base) \in 0..(ArbN - 1) /\ Behind(s, base) \in 0..(ArbN - 1) BY Distance
  <2> QED BY <1>4, <2>1, <2>2, ArbAssumption
<1>6. grant = {g}
  <2>1. grant = {r \in req : \A s \in req : Behind(r, base) <= Behind(s, base)}
    BY DEF grant, Behind
  <2>2. ASSUME NEW s \in req \ {g} PROVE ~(Behind(s, base) <= Behind(g, base))
    <3>1. Behind(g, base) \in 0..(ArbN - 1) /\ Behind(s, base) \in 0..(ArbN - 1) BY Distance
    <3> QED BY <1>5, <3>1, ArbAssumption
  <2> QED BY <1>4, <2>1, <2>2
<1> QED BY <1>5, <1>6

\* A base past g is nearer to all who were behind g.
LEMMA Nearer ==
  ASSUME NEW r \in Requesters, NEW g \in Requesters, NEW b \in Requesters,
         Behind(g, b) < Behind(r, b)
  PROVE  (g + 1) % ArbN \in Requesters /\ Behind(r, (g + 1) % ArbN) <= Behind(r, b) - 1
<1> DEFINE n == ArbN
           x == (r - b) \div n
           y == (g - b) \div n
           z == (g + 1) \div n
           u == (g + 1) % n
           d == Behind(r, b)
           e == Behind(g, b)
<1>1. n \in Nat \ {0} /\ r \in Int /\ g \in Int /\ b \in Int /\ r - b \in Int /\ g - b \in Int /\ g + 1 \in Int
  BY ArbAssumption DEF Requesters
<1>2. x \in Int /\ d \in 0..(n - 1) /\ r - b = n * x + d
  BY <1>1, DivMod DEF Behind
<1>3. y \in Int /\ e \in 0..(n - 1) /\ g - b = n * y + e
  BY <1>1, DivMod DEF Behind
<1>4. z \in Int /\ u \in 0..(n - 1) /\ g + 1 = n * z + u
  BY <1>1, DivMod
<1> HIDE DEF n, x, y, z, u, d, e
<1>5. d - e - 1 \in 0..(n - 1) /\ u \in Int /\ r - u \in Int
  BY <1>1, <1>2, <1>3, <1>4 DEF d, e
<1>6. n * x \in Int /\ n * y \in Int /\ n * z \in Int
  BY <1>1, <1>2, <1>3, <1>4
<1>7. r - u = ((n * x - n * y) + n * z) + (d - e - 1)
  BY <1>1, <1>2, <1>3, <1>4, <1>6
<1>8. (n * x - n * y) + n * z = n * (x - y + z) /\ x - y + z \in Int
  BY <1>1, <1>2, <1>3, <1>4, Z3
<1>9. (r - u) % n = d - e - 1
  BY <1>1, <1>5, <1>7, <1>8, ModIs
<1>10. u \in Requesters /\ Behind(r, u) <= d - 1
  BY <1>1, <1>2, <1>3, <1>4, <1>9 DEF Behind, Requesters, n
<1> QED BY <1>10 DEF u, d, n

LEMMA ArbClockStep ==
  ASSUME ArbInv, NEW asking \in SUBSET Requesters, ArbClock(asking)
  PROVE  ArbInv'
<1> USE DEF ArbInv
<1>1. ArbN \in Nat \ {0} /\ \A r \in Requesters : Behind(r, base) \in 0..(ArbN - 1)
  BY ArbAssumption, Distance
<1>2. base' = Rotated /\ req' = asking /\ kind' = kind
  BY DEF ArbClock
<1>3. /\ waited' \in [Requesters -> Nat]
      /\ \A r \in Requesters : r \notin req \ grant => waited'[r] = 0
      /\ \A r \in Requesters : r \in req \ grant => waited'[r] <= waited[r] + 1
  <2>1. waited' = [r \in Requesters |-> IF r \notin req \ grant THEN 0
                                        ELSE IF waited[r] < ArbN THEN waited[r] + 1 ELSE ArbN]
    BY DEF ArbClock
  <2>2. \A r \in Requesters : waited[r] \in Nat
    OBVIOUS
  <2> QED BY <1>1, <2>1, <2>2
<1>4. CASE req = {}
  <2>1. grant = {} BY <1>4 DEF grant
  <2>2. base' = base BY <1>2, <2>1 DEF Rotated
  <2>3. \A r \in Requesters : waited'[r] + Behind(r, base) <= ArbN - 1
    BY <1>1, <1>3, <1>4
  <2> QED BY <1>2, <1>3, <2>2, <2>3
<1>5. CASE req /= {}
  <2>1. PICK g \in req : grant = {g} /\ \A s \in req \ {g} : Behind(g, base) < Behind(s, base)
    BY <1>5, OneGranted
  <2>2. g \in Requesters /\ (g + 1) % ArbN \in Requesters
    <3>1. g \in Requesters /\ g + 1 \in Int
      BY <1>1 DEF Requesters
    <3> QED BY <1>1, <3>1, DivMod DEF Requesters
  <2>3. base' = IF kind = "fixed" THEN base ELSE (g + 1) % ArbN
    BY <1>2, <2>1 DEF Rotated
  <2>4. base' \in Requesters
    BY <2>2, <2>3
  <2>5. ASSUME kind = "rr", NEW r \in Requesters
        PROVE  waited'[r] + Behind(r, base') <= ArbN - 1
    <3>1. base' = (g + 1) % ArbN
      BY <2>3, <2>5
    <3>2. Behind(r, base') \in 0..(ArbN - 1)
      BY <2>4, Distance
    <3>3. CASE r \in req \ grant
      <4>1. Behind(g, base) < Behind(r, base)
        BY <2>1, <3>3
      <4>2. Behind(r, base') <= Behind(r, base) - 1
        BY <2>2, <3>1, <4>1, Nearer
      <4>3. waited[r] + Behind(r, base) <= ArbN - 1 /\ waited[r] \in Nat
        BY <2>5
      <4>4. waited'[r] \in Nat /\ waited'[r] <= waited[r] + 1
        BY <1>3, <3>3
      <4> QED BY <1>1, <3>2, <4>2, <4>3, <4>4
    <3>4. CASE r \notin req \ grant
      BY <1>1, <1>3, <3>2, <3>4
    <3> QED BY <3>3, <3>4
  <2> QED BY <1>2, <1>3, <2>4, <2>5
<1> QED BY <1>4, <1>5

\* The arbiter grants one of those who ask, and who keeps asking the one that goes round
\* is passed over by each of the others at most once.
THEOREM ArbKept == ArbSpec => [](ArbInv /\ FairTurns)
<1>1. ArbInit => ArbInv
  <2> SUFFICES ASSUME ArbInit PROVE ArbInv
    OBVIOUS
  <2>1. base \in Requesters /\ req \subseteq Requesters /\ waited \in [Requesters -> Nat]
    BY ArbAssumption DEF ArbInit, Requesters
  <2>2. \A r \in Requesters : waited[r] = 0 /\ Behind(r, base) \in 0..(ArbN - 1)
    BY <2>1, Distance DEF ArbInit
  <2>3. \A r \in Requesters : waited[r] + Behind(r, base) <= ArbN - 1
    BY <2>2, ArbAssumption
  <2> QED BY <2>1, <2>3 DEF ArbInv
<1>2. ArbInv /\ [ArbNext]_arb_vars => ArbInv'
  BY ArbClockStep DEF ArbNext, arb_vars, ArbInv, Behind
<1>3. ArbInv => FairTurns
  <2> SUFFICES ASSUME ArbInv PROVE FairTurns
    OBVIOUS
  <2>1. req /= {} => \E r \in req : grant = {r}
    BY OneGranted DEF ArbInv
  <2>2. ASSUME kind = "rr", NEW r \in Requesters PROVE waited[r] < ArbN
    <3>1. waited[r] + Behind(r, base) <= ArbN - 1 /\ waited[r] \in Nat /\ Behind(r, base) \in 0..(ArbN - 1)
      BY <2>2, Distance DEF ArbInv
    <3> QED BY <3>1, ArbAssumption
  <2> QED BY <2>1, <2>2 DEF FairTurns
<1> QED BY <1>1, <1>2, <1>3, PTL DEF ArbSpec

------------------------------------------------------------------------------
\* The queues of one clock, of two clocks and the arbiter keep what is asked of them,
\* for every depth and kind, every width of the pointers, whatever a synchronizer
\* catches, and for any number of requesters.
THEOREM HandedOver == SyncSpec /\ AsyncSpec /\ ArbSpec => []HandsOver
<1>1. SyncInv /\ SyncHandsOn => SyncHandsOn
  OBVIOUS
<1>2. AsyncInv /\ AsyncHandsOn => AsyncHandsOn
  OBVIOUS
<1>3. ArbInv /\ FairTurns => FairTurns
  OBVIOUS
<1>4. SyncHandsOn /\ AsyncHandsOn /\ FairTurns => HandsOver
  BY DEF HandsOver
<1> QED BY <1>1, <1>2, <1>3, <1>4, SyncKept, AsyncKept, ArbKept, PTL

------------------------------------------------------------------------------
(***************************************************************************)
(* The AXI4-Lite slave with four registers.                                *)
(***************************************************************************)
\* A request is taken only while nothing is owed: of a write because the master waits
\* for its response, of a read because the slave waits for the master.
LiteInv ==
  /\ lite_awready \in BOOLEAN /\ lite_wready = lite_awready /\ lite_arready \in BOOLEAN
  /\ lite_bvalid \in BOOLEAN /\ lite_rvalid \in BOOLEAN
  /\ lite_aw.valid \in BOOLEAN /\ lite_ar.valid \in BOOLEAN
  /\ lite_awready /\ lite_aw.valid => ~lite_bvalid
  /\ lite_arready => ~lite_rvalid
  /\ LiteAnswersOnce

\* Who is owed at most one response, and none while a request is taken, is owed at
\* most one.
LEMMA OneOwed ==
  ASSUME NEW v \in BOOLEAN, NEW f \in BOOLEAN, NEW t \in BOOLEAN, NEW x, NEW y,
         f => ~v
  PROVE  Owed(IF v THEN <<x>> ELSE <<>>, f, y, v /\ t) =
         IF f THEN <<y>> ELSE IF v /\ ~t THEN <<x>> ELSE <<>>
<1>1. <<x>> /= <<>> /\ SubSeq(<<x>>, 2, Len(<<x>>)) = <<>>
  OBVIOUS
<1>2. Append(<<>>, y) = <<y>>
  OBVIOUS
<1> QED BY <1>1, <1>2 DEF Owed

\* An edge of the clock, whatever the master does.
LEMMA LiteStep ==
  ASSUME LiteInv, NEW bready \in BOOLEAN, NEW rready \in BOOLEAN, LiteClock(bready, rready)
  PROVE  LiteInv'
<1> DEFINE wfire == lite_wr_fire
           rfire == lite_rd_fire
<1>1. wfire \in BOOLEAN /\ rfire \in BOOLEAN /\ (wfire => ~lite_bvalid) /\ (rfire => ~lite_rvalid)
  BY DEF LiteInv, lite_wr_fire, lite_rd_fire
<1>2. /\ lite_awready' = (lite_aw.valid /\ ~lite_bvalid) /\ lite_wready' = lite_awready'
      /\ bresp' = IF wfire THEN Resp(lite_aw.addr) ELSE bresp
      /\ lite_bvalid' = (wfire \/ (lite_bvalid /\ ~bready))
  BY <1>1 DEF LiteClock, LiteWriteChannel, LiteInv
<1>3. /\ lite_arready' = (lite_ar.valid /\ ~lite_rvalid /\ ~lite_arready)
      /\ lite_rdata' = IF rfire THEN LiteValue(lite_ar.addr) ELSE lite_rdata
      /\ rresp' = IF rfire THEN Resp(lite_ar.addr) ELSE rresp
      /\ lite_rvalid' = (rfire \/ (lite_rvalid /\ ~rready))
  BY <1>1 DEF LiteClock, LiteReadChannel, TakesRead, LiteInv
<1>4. /\ lite_aw'.valid \in BOOLEAN
      /\ wfire => ~lite_aw'.valid
      /\ lite_writes /= <<>> /\ ~lite_aw.valid => ~lite_aw'.valid
  <2>1. NoWrite.valid = FALSE /\ \A r \in NextWrite : r.valid \in BOOLEAN
    <3>1. NoWrite.valid = FALSE
      BY DEF NoWrite
    <3>2. \A r \in [addr : LiteAddresses, data : Words, strb : SUBSET Lanes, valid : {TRUE}] : r.valid = TRUE
      OBVIOUS
    <3>3. NextWrite \subseteq {NoWrite} \cup [addr : LiteAddresses, data : Words, strb : SUBSET Lanes, valid : {TRUE}]
      BY DEF NextWrite
    <3> QED BY <3>1, <3>2, <3>3
  <2>2. wfire \/ lite_writes /= <<>> => NextWrite = {NoWrite}
    BY DEF NextWrite
  <2>3. lite_aw' \in IF lite_aw.valid /\ ~wfire THEN {lite_aw} ELSE NextWrite
    BY DEF LiteClock
  <2>4. \/ lite_aw' = lite_aw /\ lite_aw.valid /\ ~wfire
        \/ lite_aw' \in NextWrite /\ ~(lite_aw.valid /\ ~wfire)
    <3> HIDE DEF wfire
    <3> QED BY <2>3
  <2> HIDE DEF wfire
  <2> QED BY <2>1, <2>2, <2>4, <1>1 DEF LiteInv
<1>5. lite_ar'.valid \in BOOLEAN
  <2>1. Nobody.valid = FALSE /\ \A r \in NextRead : r.valid \in BOOLEAN
    <3>1. Nobody.valid = FALSE
      BY DEF Nobody
    <3>2. \A r \in [addr : LiteAddresses, valid : {TRUE}] : r.valid = TRUE
      OBVIOUS
    <3>3. NextRead \subseteq {Nobody} \cup [addr : LiteAddresses, valid : {TRUE}]
      BY DEF NextRead
    <3> QED BY <3>1, <3>2, <3>3
  <2> QED BY <2>1 DEF LiteClock, LiteInv
<1>6. LiteAnswersOnce'
  <2>1. lite_writes' = IF wfire THEN <<Resp(lite_aw.addr)>> ELSE IF lite_bvalid /\ ~bready THEN <<bresp>> ELSE <<>>
    <3>1. lite_writes' = Owed(IF lite_bvalid THEN <<bresp>> ELSE <<>>, wfire, Resp(lite_aw.addr), lite_bvalid /\ bready)
      BY DEF LiteClock, LiteInv, LiteAnswersOnce
    <3> HIDE DEF wfire
    <3> QED BY <1>1, <3>1, OneOwed DEF LiteInv
  <2>2. reads' = IF rfire THEN <<(<<Resp(lite_ar.addr), LiteValue(lite_ar.addr)>>)>>
                 ELSE IF lite_rvalid /\ ~rready THEN <<(<<rresp, lite_rdata>>)>> ELSE <<>>
    <3>1. reads' = Owed(IF lite_rvalid THEN <<(<<rresp, lite_rdata>>)>> ELSE <<>>, rfire,
                        <<Resp(lite_ar.addr), LiteValue(lite_ar.addr)>>, lite_rvalid /\ rready)
      BY DEF LiteClock, LiteInv, LiteAnswersOnce
    <3> HIDE DEF rfire
    <3> QED BY <1>1, <3>1, OneOwed DEF LiteInv
  <2> HIDE DEF wfire, rfire
  <2> QED BY <2>1, <2>2, <1>1, <1>2, <1>3 DEF LiteAnswersOnce
<1>7. (lite_awready /\ lite_aw.valid => ~lite_bvalid)'
  <2> HIDE DEF wfire
  <2> QED BY <1>1, <1>2, <1>4 DEF LiteInv
<1>8. (lite_arready => ~lite_rvalid)'
  BY <1>1, <1>3 DEF LiteInv, lite_rd_fire
<1> HIDE DEF wfire, rfire
<1> QED BY <1>1, <1>2, <1>3, <1>4, <1>5, <1>6, <1>7, <1>8 DEF LiteInv

\* The AXI4-Lite slave, for any registers: each request it took has one response, and
\* of a read it is what the register held when the request was taken.
THEOREM LiteKept == LiteSpec => []LiteInv
<1>1. LiteInit => LiteInv
  <2>1. NoWrite.valid = FALSE /\ Nobody.valid = FALSE
    BY DEF NoWrite, Nobody
  <2> QED BY <2>1 DEF LiteInit, LiteInv, LiteAnswersOnce
<1>2. LiteInv /\ [LiteNext]_lite_vars => LiteInv'
  <2>1. LiteInv /\ LiteNext => LiteInv'
    BY LiteStep DEF LiteNext
  <2>2. LiteInv /\ UNCHANGED lite_vars => LiteInv'
    BY DEF LiteInv, lite_vars, lite_slave, LiteAnswersOnce
  <2> QED BY <2>1, <2>2
<1> QED BY <1>1, <1>2, PTL DEF LiteSpec

------------------------------------------------------------------------------
(***************************************************************************)
(* The register block with an interrupt status.                            *)
(***************************************************************************)
\* Each half of a write that was taken waits in its register and is the one that comes
\* next, and while it waits no other is taken.
BlockInv ==
  /\ block_awready \in BOOLEAN /\ awpend_q \in BOOLEAN /\ block_wready \in BOOLEAN
  /\ wpend_q \in BOOLEAN /\ block_bvalid \in BOOLEAN
  /\ block_arready \in BOOLEAN /\ block_rvalid \in BOOLEAN
  /\ block_w = <<>> \/ \E x \in Word : block_w = <<x>>
  /\ block_awready => ~awpend_q
  /\ block_wready => ~wpend_q
  /\ addrs = IF awpend_q THEN <<awaddr_q>> ELSE <<>>
  /\ words = IF wpend_q THEN <<wdata_q>> ELSE <<>>
  /\ ctrl_reg = ctrl /\ irq_sticky_q = raised
  /\ owed = IF block_bvalid THEN 1 ELSE 0
  /\ block_rvalid => block_rdata = seen

\* An edge of the clock, whatever the master offers and whichever events come.
LEMMA BlockStep ==
  ASSUME BlockInv, NEW bready \in BOOLEAN, NEW rready \in BOOLEAN,
         NEW evt \in SUBSET Events, NEW status \in SUBSET Events,
         BlockClock(bready, rready, evt, status)
  PROVE  BlockInv'
<1> DEFINE fire == block_wr_fire
           takesA == block_awready /\ block_aw /= Nowhere
           takesW == block_wready /\ block_w /= <<>>
           rfire == block_rd_fire
<1>0. fire \in BOOLEAN /\ takesA \in BOOLEAN /\ takesW \in BOOLEAN /\ rfire \in BOOLEAN
  BY DEF BlockInv, block_wr_fire, block_rd_fire
<1>1. fire => awpend_q /\ wpend_q /\ ~block_bvalid
  BY DEF block_wr_fire
<1>2. (takesA => ~awpend_q /\ ~fire) /\ (takesW => ~wpend_q /\ ~fire)
  BY <1>1 DEF BlockInv
<1>3. (awpend_q => addrs = <<awaddr_q>> /\ Head(addrs) = awaddr_q /\ Tail(addrs) = <<>>)
      /\ (~awpend_q => addrs = <<>>)
  BY DEF BlockInv
<1>4. (wpend_q => words = <<wdata_q>> /\ Head(words) = wdata_q /\ Tail(words) = <<>>)
      /\ (~wpend_q => words = <<>>)
  BY DEF BlockInv
<1>5. /\ awpend_q' = (takesA \/ (awpend_q /\ ~fire))
      /\ block_awready' = (~takesA /\ (fire \/ block_awready \/ ~awpend_q))
      /\ awaddr_q' = IF takesA THEN block_aw ELSE awaddr_q
      /\ wpend_q' = (takesW \/ (wpend_q /\ ~fire))
      /\ block_wready' = (~takesW /\ (fire \/ block_wready \/ ~wpend_q))
      /\ wdata_q' = IF takesW THEN Head(block_w) ELSE wdata_q
  BY DEF BlockClock, WriteChannels, Pend, Ready
<1>6. addrs' = IF awpend_q' THEN <<awaddr_q'>> ELSE <<>>
  <2>1. addrs' = IF takesA THEN Append(IF fire THEN Tail(addrs) ELSE addrs, block_aw)
                 ELSE IF fire THEN Tail(addrs) ELSE addrs
    BY DEF BlockClock, BlockEffects
  <2>2. Append(<<>>, block_aw) = <<block_aw>>
    OBVIOUS
  <2> HIDE DEF fire, takesA
  <2> QED BY <1>0, <1>1, <1>2, <1>3, <1>5, <2>1, <2>2 DEF BlockInv
<1>7. words' = IF wpend_q' THEN <<wdata_q'>> ELSE <<>>
  <2>1. words' = IF takesW THEN (IF fire THEN Tail(words) ELSE words) \o block_w
                 ELSE IF fire THEN Tail(words) ELSE words
    BY DEF BlockClock, BlockEffects
  <2>2. takesW => <<>> \o block_w = <<Head(block_w)>>
    BY DEF BlockInv
  <2> HIDE DEF fire, takesW
  <2> QED BY <1>0, <1>1, <1>2, <1>4, <1>5, <2>1, <2>2 DEF BlockInv
<1>8. ctrl_reg' = ctrl' /\ irq_sticky_q' = raised'
  <2> DEFINE writes(r) == fire /\ awaddr_q = r /\ wdata_q.strb
  <2>1. /\ ctrl' = IF writes("CTRL") THEN wdata_q.bits ELSE ctrl
        /\ raised' = evt \cup {e \in raised : writes("IRQ_STATUS") => e \notin wdata_q.bits}
    BY <1>1, <1>3, <1>4 DEF BlockClock, BlockEffects
  <2>2. /\ ctrl_reg' = IF writes("CTRL") THEN wdata_q.bits ELSE ctrl_reg
        /\ irq_sticky_q' = evt \cup IF writes("IRQ_STATUS") THEN irq_sticky_q \ wdata_q.bits ELSE irq_sticky_q
    BY DEF BlockClock, Decode
  <2> HIDE DEF writes
  <2>3. {e \in raised : writes("IRQ_STATUS") => e \notin wdata_q.bits} =
        IF writes("IRQ_STATUS") THEN raised \ wdata_q.bits ELSE raised
    OBVIOUS
  <2> QED BY <2>1, <2>2, <2>3 DEF BlockInv
<1>9. block_bvalid' \in BOOLEAN /\ owed' = IF block_bvalid' THEN 1 ELSE 0
  <2>1. /\ owed' = owed + (IF fire THEN 1 ELSE 0) - (IF block_bvalid /\ bready THEN 1 ELSE 0)
        /\ block_bvalid' = (fire \/ (block_bvalid /\ ~bready))
    BY DEF BlockClock, BlockEffects, Response
  <2> HIDE DEF fire
  <2>2. CASE block_bvalid
    <3>1. ~fire /\ owed = 1 /\ block_bvalid' = ~bready
      BY <1>1, <2>1, <2>2 DEF BlockInv
    <3>2. owed' = 1 + 0 - (IF bready THEN 1 ELSE 0)
      BY <2>1, <2>2, <3>1
    <3>3. CASE bready
      <4>1. block_bvalid' = FALSE
        BY <3>1, <3>3
      <4>2. owed' = 0
        BY <3>2, <3>3
      <4> QED BY <4>1, <4>2
    <3>4. CASE ~bready
      <4>1. block_bvalid' = TRUE
        BY <3>1, <3>4
      <4>2. owed' = 1
        BY <3>2, <3>4
      <4> QED BY <4>1, <4>2
    <3> QED BY <3>3, <3>4
  <2>3. CASE ~block_bvalid
    BY <1>0, <1>1, <2>1, <2>3 DEF BlockInv
  <2> QED BY <2>2, <2>3
<1>10. /\ block_arready' \in BOOLEAN /\ block_rvalid' \in BOOLEAN
       /\ block_rvalid' => block_rdata' = seen'
  <2>1. /\ block_rvalid' = (rfire \/ (block_rvalid /\ ~rready))
        /\ block_rdata' = IF rfire THEN BlockValue(block_ar, status) ELSE block_rdata
        /\ block_arready' \in BOOLEAN
    BY DEF BlockClock, BlockReadChannel
  <2>2. seen' = IF rfire THEN BlockValue(block_ar, status) ELSE seen
    BY DEF BlockClock, BlockEffects, BlockValue, BlockInv
  <2> HIDE DEF rfire
  <2> QED BY <1>0, <2>1, <2>2 DEF BlockInv
<1>11. block_w' = <<>> \/ \E x \in Word : block_w' = <<x>>
  <2>1. block_w' = block_w \/ block_w' = <<>> \/ block_w' \in {<<x>> : x \in Word}
    BY DEF BlockClock, Offers
  <2> QED BY <2>1 DEF BlockInv
<1> HIDE DEF fire, takesA, takesW, rfire
<1> QED BY <1>0, <1>1, <1>2, <1>5, <1>6, <1>7, <1>8, <1>9, <1>10, <1>11 DEF BlockInv

\* The register block, for any events: address and data are paired in their order, a
\* write has one effect and one response, and no event is lost to a write that clears.
THEOREM BlockKept == BlockSpec => [](BlockInv /\ PairedOnce)
<1>1. BlockInit => BlockInv
  BY DEF BlockInit, BlockInv
<1>2. BlockInv /\ [BlockNext]_block_vars => BlockInv'
  <2>1. BlockInv /\ BlockNext => BlockInv'
    BY BlockStep DEF BlockNext
  <2>2. BlockInv /\ UNCHANGED block_vars => BlockInv'
    BY DEF BlockInv, block_vars
  <2> QED BY <2>1, <2>2
<1>3. BlockInv => PairedOnce
  BY DEF BlockInv, PairedOnce
<1> QED BY <1>1, <1>2, <1>3, PTL DEF BlockSpec

------------------------------------------------------------------------------
(***************************************************************************)
(* The AXI4 slave that takes bursts.                                       *)
(***************************************************************************)
\* The master's side of a channel.
BurstStates == [at : {"idle", "addr", "data", "resp"}, addr : BurstAddresses,
                len : Nat, beat : Nat, id : Nat]

\* The channel for writing is where its master is, and has the address of the next beat.
BurstWriteInv ==
  /\ wr \in BurstStates /\ wr.beat <= wr.len /\ (wr.at = "addr" => wr.beat = 0)
  /\ burst_wready \in BOOLEAN /\ burst_bvalid \in BOOLEAN
  /\ burst_wready <=> wr.at = "data"
  /\ burst_bvalid <=> wr.at = "resp"
  /\ wr.at = "data" => waddr_q = (wr.addr + wr.beat) % WORDS
  /\ mem = stored

\* So is the channel for reading, which holds that beat and knows how many are left.
BurstReadInv ==
  /\ rd \in BurstStates /\ rd.at /= "resp" /\ rd.beat <= rd.len
  /\ rd.at = "addr" => rd.beat = 0
  /\ rd.addr + rd.len < WORDS
  /\ burst_rvalid \in BOOLEAN /\ rlast \in BOOLEAN
  /\ burst_rvalid <=> rd.at = "data"
  /\ rd.at = "data" => /\ raddr_q = rd.addr + rd.beat /\ rlen_q = rd.len - rd.beat
                       /\ burst_rdata = expect
                       /\ rlast <=> rd.beat = rd.len

BurstInv == BurstWriteInv /\ BurstReadInv /\ bursts \in Nat

\* A master without a burst.
LEMMA IdleBurst == Idle \in BurstStates /\ Idle.at = "idle" /\ Idle.beat = 0 /\ Idle.len = 0 /\ Idle.addr = 0
  BY BurstAssumption DEF Idle, BurstStates, BurstAddresses

\* An edge of the clock, for the writing channel and its master.
LEMMA WriteStep ==
  ASSUME BurstWriteInv, NEW wvalid \in BOOLEAN, NEW bready \in BOOLEAN, NEW rready \in BOOLEAN,
         BurstClock(wvalid, bready, rready)
  PROVE  BurstWriteInv'
<1> DEFINE fire == w_fire(wvalid)
           ends == b_fire(bready)
<1>1. /\ fire \in BOOLEAN /\ ends \in BOOLEAN /\ aw_fire \in BOOLEAN
      /\ (fire => wr.at = "data") /\ (ends => wr.at = "resp") /\ (aw_fire => wr.at = "addr")
  BY DEF BurstWriteInv, w_fire, b_fire, aw_fire, awvalid
<1>2. /\ mem' = IF fire THEN [mem EXCEPT ![waddr_q] = wdata] ELSE mem
      /\ waddr_q' = IF fire THEN (waddr_q + 1) % WORDS ELSE IF aw_fire THEN wr.addr ELSE waddr_q
      /\ burst_wready' = ((burst_wready \/ aw_fire) /\ ~(fire /\ wlast))
      /\ burst_bvalid' = ((burst_bvalid \/ (fire /\ wlast)) /\ ~ends)
      /\ wr' = Moved(wr, aw_fire, fire, ends)
      /\ stored' = IF fire THEN [stored EXCEPT ![(wr.addr + wr.beat) % WORDS] = wdata] ELSE stored
  BY DEF BurstClock, BurstWriteChannel, BurstEffects
<1>3. mem' = stored'
  <2> HIDE DEF fire
  <2> QED BY <1>1, <1>2 DEF BurstWriteInv
<1> HIDE DEF fire, ends
<1>4. wlast <=> wr.beat = wr.len
  BY DEF wlast
<1>5. CASE wr.at = "idle" \/ (wr.at = "addr" /\ ~aw_fire) \/ (wr.at = "data" /\ ~fire) \/ (wr.at = "resp" /\ ~ends)
  <2>1. wr' = wr /\ ~fire /\ ~aw_fire /\ ~ends
    BY <1>1, <1>2, <1>5 DEF Moved
  <2> QED BY <1>2, <1>3, <2>1 DEF BurstWriteInv
<1>6. CASE wr.at = "addr" /\ aw_fire
  <2>1. wr' = [wr EXCEPT !.at = "data"] /\ ~fire /\ ~ends
    BY <1>1, <1>2, <1>6 DEF Moved
  <2>2. wr' \in BurstStates /\ wr'.at = "data" /\ wr'.beat = wr.beat /\ wr'.len = wr.len /\ wr'.addr = wr.addr
    BY <2>1 DEF BurstWriteInv, BurstStates
  <2>3. waddr_q' = (wr'.addr + wr'.beat) % WORDS
    <3>1. waddr_q' = wr.addr /\ wr'.beat = 0 /\ wr.addr \in 0..(WORDS - 1)
      BY <1>2, <1>6, <2>1, <2>2 DEF BurstWriteInv, BurstStates, BurstAddresses
    <3>2. wr.addr + 0 = wr.addr
      BY <3>1
    <3> QED BY <2>2, <3>1, <3>2, ModSmall, BurstAssumption
  <2>4. burst_wready' = TRUE /\ burst_bvalid' = FALSE
    BY <1>2, <1>6, <2>1 DEF BurstWriteInv
  <2> QED BY <1>3, <1>6, <2>2, <2>3, <2>4 DEF BurstWriteInv
<1>7. CASE fire /\ wr.beat < wr.len
  <2>1. wr.at = "data" /\ ~aw_fire /\ ~ends /\ ~(wr.beat = wr.len)
    BY <1>1, <1>7 DEF BurstWriteInv, BurstStates
  <2>2. wr' = [wr EXCEPT !.beat = @ + 1]
    BY <1>1, <1>2, <1>7, <2>1 DEF Moved
  <2>3. wr' \in BurstStates /\ wr'.at = "data" /\ wr'.beat = wr.beat + 1 /\ wr'.len = wr.len /\ wr'.addr = wr.addr
    BY <2>1, <2>2 DEF BurstWriteInv, BurstStates
  <2>4. waddr_q' = (wr'.addr + wr'.beat) % WORDS
    <3>1. /\ waddr_q' = (((wr.addr + wr.beat) % WORDS) + 1) % WORDS
          /\ wr.addr \in Int /\ wr.beat \in Int
      BY <1>2, <1>7, <2>1 DEF BurstWriteInv, BurstStates, BurstAddresses
    <3>2. wr'.addr + wr'.beat = (wr.addr + wr.beat) + 1 /\ wr.addr + wr.beat \in Int
      BY <2>3, <3>1
    <3> QED BY <3>1, <3>2, ModAdd, BurstAssumption
  <2>5. burst_wready' = TRUE /\ burst_bvalid' = FALSE
    BY <1>2, <1>4, <1>7, <2>1 DEF BurstWriteInv
  <2>6. wr'.beat <= wr'.len
    BY <1>7, <2>3 DEF BurstWriteInv, BurstStates
  <2> QED BY <1>3, <2>3, <2>4, <2>5, <2>6 DEF BurstWriteInv
<1>8. CASE fire /\ wr.beat = wr.len
  <2>1. wr.at = "data" /\ ~aw_fire /\ ~ends /\ ~(wr.beat < wr.len)
    BY <1>1, <1>8 DEF BurstWriteInv, BurstStates
  <2>2. wr' = [wr EXCEPT !.at = "resp"]
    BY <1>1, <1>2, <1>8, <2>1 DEF Moved
  <2>3. wr' \in BurstStates /\ wr'.at = "resp" /\ wr'.beat = wr.beat /\ wr'.len = wr.len /\ wr'.addr = wr.addr
    BY <2>1, <2>2 DEF BurstWriteInv, BurstStates
  <2>4. burst_wready' = FALSE /\ burst_bvalid' = TRUE
    BY <1>2, <1>4, <1>8, <2>1 DEF BurstWriteInv
  <2> QED BY <1>3, <2>3, <2>4 DEF BurstWriteInv
<1>9. CASE ends
  <2>1. wr.at = "resp" /\ ~aw_fire /\ ~fire
    BY <1>1, <1>9
  <2>2. wr' = Idle
    BY <1>1, <1>2, <1>9, <2>1 DEF Moved
  <2>3. burst_wready' = FALSE /\ burst_bvalid' = FALSE
    BY <1>2, <1>9, <2>1 DEF BurstWriteInv
  <2>4. wr' \in BurstStates /\ wr'.at = "idle" /\ wr'.beat <= wr'.len
    BY <2>2, IdleBurst
  <2> QED BY <1>3, <2>3, <2>4 DEF BurstWriteInv
<1>10. fire => wr.beat < wr.len \/ wr.beat = wr.len
  BY DEF BurstWriteInv, BurstStates
<1> QED BY <1>1, <1>5, <1>6, <1>7, <1>8, <1>9, <1>10 DEF BurstWriteInv, BurstStates

\* An edge of the clock, for the reading channel and its master.
LEMMA ReadStep ==
  ASSUME BurstInv, NEW wvalid \in BOOLEAN, NEW bready \in BOOLEAN, NEW rready \in BOOLEAN,
         BurstClock(wvalid, bready, rready)
  PROVE  BurstReadInv'
<1> DEFINE fire == r_fire(rready)
           next == fire /\ ~rlast
<1>1. /\ fire \in BOOLEAN /\ ar_fire \in BOOLEAN
      /\ (fire <=> rready /\ rd.at = "data") /\ (ar_fire => rd.at = "addr")
  BY DEF BurstInv, BurstReadInv, r_fire, ar_fire, arvalid
<1>2. /\ burst_rvalid' = (ar_fire \/ (burst_rvalid /\ ~(fire /\ rlast)))
      /\ raddr_q' = IF ar_fire THEN rd.addr ELSE IF next THEN (raddr_q + 1) % WORDS ELSE raddr_q
      /\ rlen_q' = IF ar_fire THEN rd.len ELSE IF next THEN rlen_q - 1 ELSE rlen_q
      /\ burst_rdata' = IF ar_fire THEN At(rd.addr) ELSE IF next THEN At(raddr_q + 1) ELSE burst_rdata
      /\ rlast' = IF ar_fire THEN rd.len = 0 ELSE IF next THEN rlen_q = 1 ELSE rlast /\ ~fire
      /\ rd' = Moved(rd, ar_fire, fire, TRUE)
      /\ expect' = IF ar_fire THEN stored[rd.addr]
                   ELSE IF fire /\ rd.beat < rd.len THEN stored[rd.addr + rd.beat + 1] ELSE expect
  BY DEF BurstClock, BurstReadChannel, BurstEffects
<1>3. \A a \in BurstAddresses : At(a) = stored[a]
  BY DEF At, BurstInv, BurstWriteInv
<1> HIDE DEF fire
<1>4. /\ rd.addr \in Nat /\ rd.len \in Nat /\ rd.beat \in Nat /\ rd.addr \in BurstAddresses
      /\ rd.addr + rd.len < WORDS /\ rd.beat <= rd.len /\ WORDS \in Nat
  BY BurstAssumption DEF BurstInv, BurstReadInv, BurstStates, BurstAddresses
<1>5. CASE rd.at = "idle" \/ (rd.at = "addr" /\ ~ar_fire)
  <2>1. rd' = rd /\ ~fire /\ ~ar_fire
    BY <1>1, <1>2, <1>5 DEF Moved
  <2>2. burst_rvalid' = FALSE /\ rlast' \in BOOLEAN
    BY <1>2, <1>5, <2>1 DEF BurstInv, BurstReadInv
  <2> QED BY <1>5, <2>1, <2>2 DEF BurstInv, BurstReadInv
<1>6. CASE ar_fire
  <2>1. rd' = [rd EXCEPT !.at = "data"] /\ ~fire
    BY <1>1, <1>2, <1>6 DEF Moved
  <2>2. rd' \in BurstStates /\ rd'.at = "data" /\ rd'.beat = 0 /\ rd'.len = rd.len /\ rd'.addr = rd.addr
    BY <1>1, <1>6, <2>1 DEF BurstInv, BurstReadInv, BurstStates
  <2>3. raddr_q' = rd'.addr + rd'.beat /\ rlen_q' = rd'.len - rd'.beat
    <3>1. raddr_q' = rd.addr /\ rlen_q' = rd.len
      BY <1>2, <1>6
    <3>2. rd.addr + 0 = rd.addr /\ rd.len - 0 = rd.len
      BY <1>4
    <3> QED BY <2>2, <3>1, <3>2
  <2>4. burst_rdata' = expect'
    BY <1>2, <1>3, <1>4, <1>6
  <2>5. burst_rvalid' = TRUE /\ rlast' \in BOOLEAN /\ (rlast' <=> rd'.beat = rd'.len)
    BY <1>2, <1>4, <1>6, <2>2
  <2> QED BY <1>4, <2>2, <2>3, <2>4, <2>5 DEF BurstReadInv
<1>7. CASE rd.at = "data" /\ ~fire
  <2>1. rd' = rd /\ ~ar_fire
    BY <1>1, <1>2, <1>7 DEF Moved
  <2>2. /\ burst_rvalid' = burst_rvalid /\ raddr_q' = raddr_q /\ rlen_q' = rlen_q
        /\ burst_rdata' = burst_rdata /\ rlast' = rlast /\ expect' = expect
    BY <1>2, <1>7, <2>1 DEF BurstInv, BurstReadInv
  <2> QED BY <2>1, <2>2 DEF BurstInv, BurstReadInv
<1>8. CASE fire /\ rd.beat < rd.len
  <2>1. rd.at = "data" /\ ~ar_fire /\ ~(rd.beat = rd.len) /\ rlast = FALSE
    BY <1>1, <1>4, <1>8 DEF BurstInv, BurstReadInv
  <2>2. rd' = [rd EXCEPT !.beat = @ + 1]
    BY <1>1, <1>2, <1>8, <2>1 DEF Moved
  <2>3. rd' \in BurstStates /\ rd'.at = "data" /\ rd'.beat = rd.beat + 1 /\ rd'.len = rd.len /\ rd'.addr = rd.addr
    BY <1>4, <2>1, <2>2 DEF BurstInv, BurstReadInv, BurstStates
  <2>4. raddr_q = rd.addr + rd.beat /\ rlen_q = rd.len - rd.beat
    BY <2>1 DEF BurstInv, BurstReadInv
  <2>5. raddr_q + 1 = rd.addr + rd.beat + 1 /\ raddr_q + 1 \in 0..(WORDS - 1)
    BY <1>4, <1>8, <2>4
  <2>6. raddr_q' = raddr_q + 1
    BY <1>2, <1>8, <2>1, <2>5, ModSmall, BurstAssumption
  <2>7. rlen_q' = rlen_q - 1
    BY <1>2, <1>8, <2>1
  <2>8. raddr_q' = rd'.addr + rd'.beat /\ rlen_q' = rd'.len - rd'.beat
    BY <1>4, <2>3, <2>4, <2>5, <2>6, <2>7
  <2>9. burst_rdata' = expect'
    BY <1>2, <1>3, <1>8, <2>1, <2>5 DEF BurstAddresses
  <2>10. burst_rvalid' = TRUE /\ rlast' = (rlen_q = 1)
    BY <1>2, <1>8, <2>1 DEF BurstInv, BurstReadInv
  <2>11. rlen_q = 1 <=> rd'.beat = rd'.len
    BY <1>4, <2>3, <2>4
  <2>12. rd'.beat <= rd'.len
    BY <1>4, <1>8, <2>3
  <2> QED BY <1>4, <2>3, <2>8, <2>9, <2>10, <2>11, <2>12 DEF BurstReadInv
<1>9. CASE fire /\ rd.beat = rd.len
  <2>1. rd.at = "data" /\ ~ar_fire /\ rlast = TRUE
    BY <1>1, <1>4, <1>9 DEF BurstInv, BurstReadInv
  <2>2. rd' = Idle
    BY <1>1, <1>2, <1>9, <2>1 DEF Moved
  <2>3. burst_rvalid' = FALSE /\ rlast' \in BOOLEAN
    BY <1>2, <1>9, <2>1
  <2>4. /\ rd' \in BurstStates /\ rd'.at = "idle" /\ rd'.beat <= rd'.len
        /\ rd'.addr + rd'.len < WORDS
    BY <2>2, IdleBurst, BurstAssumption
  <2> QED BY <2>3, <2>4 DEF BurstReadInv
<1>10. rd.beat < rd.len \/ rd.beat = rd.len
  BY <1>4
<1>11. rd.at \in {"idle", "addr", "data"} /\ fire \in BOOLEAN
  BY <1>1 DEF BurstInv, BurstReadInv, BurstStates
<1> QED BY <1>5, <1>6, <1>7, <1>8, <1>9, <1>10, <1>11

\* The master asks for a burst.
LEMMA AskStep == ASSUME BurstInv, Ask PROVE BurstInv'
<1>1. /\ bursts' = bursts + 1
      /\ UNCHANGED <<burst_slave, stored, expect>>
  BY DEF Ask
<1>2. PICK a \in BurstAddresses, l \in Lengths :
        LET burst == [at |-> "addr", addr |-> a, len |-> l, beat |-> 0, id |-> bursts']
        IN \/ wr = Idle /\ wr' = burst /\ UNCHANGED rd
           \/ rd = Idle /\ a + l < WORDS /\ rd' = burst /\ UNCHANGED wr
  BY DEF Ask
<1> DEFINE burst == [at |-> "addr", addr |-> a, len |-> l, beat |-> 0, id |-> bursts']
<1>3. /\ burst \in BurstStates /\ burst.at = "addr" /\ burst.beat = 0 /\ burst.len = l
      /\ burst.addr = a /\ l \in Nat
  BY <1>1, BurstAssumption DEF BurstInv, BurstStates
<1>4. \/ wr = Idle /\ wr' = burst /\ UNCHANGED rd
      \/ rd = Idle /\ a + l < WORDS /\ rd' = burst /\ UNCHANGED wr
  BY <1>2
<1> HIDE DEF burst
<1>5. CASE wr = Idle /\ wr' = burst /\ UNCHANGED rd
  BY <1>1, <1>3, <1>5, IdleBurst DEF BurstInv, BurstWriteInv, BurstReadInv, burst_slave
<1>6. CASE rd = Idle /\ a + l < WORDS /\ rd' = burst /\ UNCHANGED wr
  BY <1>1, <1>3, <1>6, IdleBurst DEF BurstInv, BurstWriteInv, BurstReadInv, burst_slave
<1> QED BY <1>4, <1>5, <1>6

\* The AXI4 slave, for any memory and any lengths of bursts: beats are written and read
\* where they belong, and the last beat is marked.
THEOREM BurstKept == BurstSpec => [](BurstInv /\ BeatsInOrder)
<1>1. BurstInit => BurstInv
  <2> SUFFICES ASSUME BurstInit PROVE BurstInv
    OBVIOUS
  <2>1. /\ wr \in BurstStates /\ wr.at = "idle" /\ wr.beat <= wr.len
        /\ rd \in BurstStates /\ rd.at = "idle" /\ rd.beat <= rd.len /\ rd.addr + rd.len < WORDS
    BY IdleBurst, BurstAssumption DEF BurstInit
  <2> QED BY <2>1 DEF BurstInit, BurstInv, BurstWriteInv, BurstReadInv
<1>2. BurstInv /\ [BurstNext]_burst_vars => BurstInv'
  <2>1. ASSUME BurstInv, NEW wvalid \in BOOLEAN, NEW bready \in BOOLEAN, NEW rready \in BOOLEAN,
               BurstClock(wvalid, bready, rready)
        PROVE  BurstInv'
    BY <2>1, WriteStep, ReadStep DEF BurstInv, BurstClock
  <2>2. BurstInv /\ UNCHANGED burst_vars => BurstInv'
    BY DEF BurstInv, BurstWriteInv, BurstReadInv, burst_vars, burst_slave
  <2> QED BY <2>1, <2>2, AskStep DEF BurstNext
<1>3. BurstInv => BeatsInOrder
  BY DEF BurstInv, BurstWriteInv, BurstReadInv, BeatsInOrder
<1> QED BY <1>1, <1>2, <1>3, PTL DEF BurstSpec

------------------------------------------------------------------------------
\* The slaves of an AXI bus answer what they took once and with what was there, for any
\* registers, events and memory, and however long either side makes the other wait.
THEOREM SlavesAnswer == LiteSpec /\ BlockSpec /\ BurstSpec => []AnsweredOnce
<1>1. LiteInv => LiteAnswersOnce
  BY DEF LiteInv
<1> QED BY <1>1, LiteKept, BlockKept, BurstKept, PTL DEF AnsweredOnce

------------------------------------------------------------------------------
(* Tlm: the event queue.                                                   *)

LEMMA PlatCounted == ASSUME NEW S PROVE Plat!Cardinality(S) = Cardinality(S)
  BY DEF Plat!Cardinality, Cardinality

Kinds == {"immediate", "delta", "timed"}
Jobs == [id : Nat, kind : Kinds, sent : Nat \X Nat, t : Nat, d : Nat]

\* The job is due when its notification said.
DueAsSent(j) ==
  /\ j.kind = "immediate" => j.t = j.sent[1] /\ j.d = j.sent[2]
  /\ j.kind = "delta" => j.t = j.sent[1] /\ j.d = j.sent[2] + 1
  /\ j.kind = "timed" => j.t > j.sent[1]

LaterDeltas == {s \in eq_stamps : s[2] > 0}

QueueInv ==
  /\ eq_q \subseteq Jobs /\ IsFiniteSet(eq_q)
  /\ \A j \in eq_q : DueAsSent(j) /\ j.id < eq_jobs /\ ~(j.t < eq_now \/ (j.t = eq_now /\ j.d < eq_delta))
ClockInv ==
  /\ eq_now \in Nat /\ eq_delta \in Nat /\ eq_jobs \in Nat /\ eq_eval_calls \in Nat
  /\ eq_delta_cycles \in Nat /\ eq_over \in BOOLEAN
StampInv ==
  /\ eq_stamps \subseteq Nat \X Nat /\ IsFiniteSet(eq_stamps)
  /\ \A s \in eq_stamps : s[1] < eq_now \/ (s[1] = eq_now /\ s[2] <= eq_delta)
  /\ eq_delta > 0 => <<eq_now, eq_delta>> \in eq_stamps
  /\ eq_delta_cycles = Cardinality(LaterDeltas)
LastInv ==
  eq_last /= Plat!Never => eq_last \in Jobs /\ DueAsSent(eq_last) /\ eq_now = eq_last.t /\ eq_delta = eq_last.d
CountInv ==
  IF eq_over THEN eq_eval_calls + Cardinality(eq_q) \in {eq_jobs, eq_jobs - 1} /\ \A j \in eq_q : j.t > until
             ELSE eq_eval_calls + Cardinality(eq_q) = eq_jobs
EvqInv == QueueInv /\ ClockInv /\ StampInv /\ LastInv /\ CountInv

LEMMA EvqBegins == Plat!EvqInit => EvqInv
<1> SUFFICES ASSUME Plat!EvqInit PROVE EvqInv
  OBVIOUS
<1> USE DEF Plat!EvqInit
<1>1. IsFiniteSet({}) /\ Cardinality({}) = 0
  BY FS_EmptySet
<1>2. LaterDeltas = {}
  BY DEF LaterDeltas
<1>3. QueueInv
  BY <1>1 DEF QueueInv
<1>4. ClockInv
  BY DEF ClockInv
<1>5. StampInv
  BY <1>1, <1>2 DEF StampInv
<1>6. LastInv
  BY DEF LastInv
<1>7. CountInv
  BY <1>1 DEF CountInv
<1> QED BY <1>3, <1>4, <1>5, <1>6, <1>7 DEF EvqInv

\* The job of a notification at time n and delta d.
LEMMA JobIs ==
  ASSUME NEW how \in Kinds, NEW after \in 1..2, NEW n \in Nat, NEW d \in Nat, eq_jobs \in Nat
  PROVE  LET j == Plat!Job(how, after, n, d)
         IN  j \in Jobs /\ DueAsSent(j) /\ j.id = eq_jobs /\ ~(j.t < n \/ (j.t = n /\ j.d < d))
<1> DEFINE t == IF how = "timed" THEN n + after ELSE n
           e == IF how = "delta" THEN d + 1 ELSE d
           j == [id |-> eq_jobs, kind |-> how, sent |-> <<n, d>>, t |-> t, d |-> e]
<1>1. Plat!Job(how, after, n, d) = j
  BY DEF Plat!Job
<1>2. t \in Nat /\ t >= n /\ (how = "timed" => t > n) /\ (how /= "timed" => t = n)
  OBVIOUS
<1>3. e \in Nat /\ e >= d /\ (how = "delta" => e = d + 1) /\ (how /= "delta" => e = d)
  OBVIOUS
<1> HIDE DEF t, e
<1>4. j.id = eq_jobs /\ j.kind = how /\ j.sent = <<n, d>> /\ j.t = t /\ j.d = e
  OBVIOUS
<1>5. j.sent[1] = n /\ j.sent[2] = d
  BY <1>4
<1>6. j \in Jobs
  BY <1>2, <1>3 DEF Jobs
<1> HIDE DEF j
<1>7. DueAsSent(j)
  BY <1>2, <1>3, <1>4, <1>5 DEF DueAsSent
<1>8. ~(j.t < n \/ (j.t = n /\ j.d < d))
  BY <1>2, <1>3, <1>4
<1> QED BY <1>1, <1>4, <1>6, <1>7, <1>8

\* A job with a new number is not in the queue yet.
LEMMA JobJoins ==
  ASSUME NEW q, q \subseteq Jobs, IsFiniteSet(q), NEW n \in Nat, \A j \in q : j.id < n,
         NEW k \in Jobs, k.id = n
  PROVE  IsFiniteSet(q \cup {k}) /\ Cardinality(q \cup {k}) = Cardinality(q) + 1 /\ Cardinality(q) \in Nat
         /\ q \cup {k} \subseteq Jobs /\ \A j \in q \cup {k} : j.id < n + 1
<1>1. k \notin q
  OBVIOUS
<1>2. \A j \in q \cup {k} : j.id \in Nat
  BY DEF Jobs
<1>3. \A j \in q \cup {k} : j.id < n + 1
  BY <1>2
<1> QED BY <1>1, <1>3, FS_AddElement, FS_CardinalityType

LEMMA NotifyStep ==
  ASSUME EvqInv, NEW how \in Kinds, NEW after \in 1..2, Plat!Notify(how, after) PROVE EvqInv'
<1> DEFINE k == Plat!Job(how, after, eq_now, eq_delta)
<1>1. k \in Jobs /\ DueAsSent(k) /\ k.id = eq_jobs /\ ~(k.t < eq_now \/ (k.t = eq_now /\ k.d < eq_delta))
  BY JobIs DEF EvqInv, ClockInv
<1>2. eq_q' = eq_q \cup {k} /\ eq_jobs' = eq_jobs + 1 /\ ~eq_over
      /\ UNCHANGED <<eq_now, eq_delta, eq_eval_calls, eq_delta_cycles, eq_stamps, eq_last, eq_over>>
  BY DEF Plat!Notify
<1> HIDE DEF k
<1>3. IsFiniteSet(eq_q') /\ Cardinality(eq_q') = Cardinality(eq_q) + 1 /\ Cardinality(eq_q) \in Nat
      /\ eq_q' \subseteq Jobs /\ \A j \in eq_q' : j.id < eq_jobs + 1
  <2>1. eq_q \subseteq Jobs /\ IsFiniteSet(eq_q) /\ eq_jobs \in Nat /\ \A j \in eq_q : j.id < eq_jobs
    BY DEF EvqInv, QueueInv, ClockInv
  <2> QED BY ONLY <1>1, <1>2, <2>1, JobJoins
<1>4. QueueInv'
  BY <1>1, <1>2, <1>3 DEF EvqInv, QueueInv, DueAsSent
<1>5. ClockInv'
  BY <1>2 DEF EvqInv, ClockInv
<1>6. StampInv' /\ LastInv'
  BY <1>2 DEF EvqInv, StampInv, LastInv, LaterDeltas, DueAsSent
<1>7. CountInv'
  BY <1>2, <1>3 DEF EvqInv, CountInv, ClockInv
<1> QED BY <1>4, <1>5, <1>6, <1>7 DEF EvqInv

\* The job at the head of the queue sets the clock; a delta after the first of its time
\* has not been before.
LEMMA ClockStep ==
  ASSUME EvqInv, NEW j \in eq_q, Plat!Advance(j), eq_stamps' = eq_stamps \cup {<<eq_now', eq_delta'>>}
  PROVE  eq_now' = j.t /\ eq_delta' = j.d /\ StampInv' /\ eq_delta_cycles' \in Nat
<1>1. j \in Jobs /\ ~(j.t < eq_now \/ (j.t = eq_now /\ j.d < eq_delta))
  BY DEF EvqInv, QueueInv
<1>2. j.t \in Nat /\ j.d \in Nat
  BY <1>1 DEF Jobs
<1>3. eq_now \in Nat /\ eq_delta \in Nat /\ eq_delta_cycles \in Nat
  BY DEF EvqInv, ClockInv
<1> DEFINE begun == IF j.t /= eq_now THEN 0 ELSE eq_delta
<1>4. eq_now' = j.t /\ eq_delta' = (IF j.d > begun THEN j.d ELSE begun)
      /\ eq_delta_cycles' = (IF j.d > begun THEN eq_delta_cycles + 1 ELSE eq_delta_cycles)
  BY DEF Plat!Advance
<1>5. begun \in Nat /\ j.d >= begun /\ (j.t /= eq_now => begun = 0 /\ j.t > eq_now) /\ (j.t = eq_now => begun = eq_delta)
  BY <1>1, <1>2, <1>3
<1> HIDE DEF begun
<1>6. eq_now' = j.t /\ eq_delta' = j.d
  BY <1>2, <1>4, <1>5
<1> DEFINE new == <<j.t, j.d>>
<1>7. new \in Nat \X Nat /\ new[1] = j.t /\ new[2] = j.d
  BY <1>2
<1>8. /\ eq_stamps \subseteq Nat \X Nat /\ IsFiniteSet(eq_stamps)
      /\ \A s \in eq_stamps : s[1] < eq_now \/ (s[1] = eq_now /\ s[2] <= eq_delta)
      /\ eq_delta > 0 => <<eq_now, eq_delta>> \in eq_stamps
      /\ eq_delta_cycles = Cardinality(LaterDeltas)
  BY DEF EvqInv, StampInv
<1>9. eq_stamps' = eq_stamps \cup {new}
  BY <1>6
<1> HIDE DEF new
<1>10. eq_stamps' \subseteq Nat \X Nat /\ IsFiniteSet(eq_stamps')
  BY <1>7, <1>8, <1>9, FS_AddElement
<1>11. \A s \in eq_stamps' : s[1] < eq_now' \/ (s[1] = eq_now' /\ s[2] <= eq_delta')
  <2> SUFFICES ASSUME NEW s \in eq_stamps' PROVE s[1] < j.t \/ (s[1] = j.t /\ s[2] <= j.d)
    BY <1>6
  <2>1. CASE s = new
    BY <1>2, <1>7, <2>1
  <2>2. CASE s \in eq_stamps
    <3>1. s[1] \in Nat /\ s[2] \in Nat
      BY <1>8, <2>2
    <3>2. s[1] < eq_now \/ (s[1] = eq_now /\ s[2] <= eq_delta)
      BY <1>8, <2>2
    <3> QED BY <1>2, <1>3, <1>5, <3>1, <3>2
  <2> QED BY <1>9, <2>1, <2>2
<1>12. <<eq_now', eq_delta'>> \in eq_stamps'
  BY <1>6, <1>9 DEF new
<1>13. LaterDeltas' = IF j.d > 0 THEN LaterDeltas \cup {new} ELSE LaterDeltas
  <2>1. LaterDeltas' = {s \in eq_stamps \cup {new} : s[2] > 0}
    BY <1>9 DEF LaterDeltas
  <2> QED BY <1>7, <2>1 DEF LaterDeltas
<1>14. IsFiniteSet(LaterDeltas)
  BY <1>8, FS_Subset DEF LaterDeltas
<1>15. eq_delta_cycles' = Cardinality(LaterDeltas')
  <2>1. CASE j.d > begun
    <3>1. new \notin LaterDeltas
      <4> SUFFICES ASSUME new \in eq_stamps PROVE FALSE
        BY DEF LaterDeltas
      <4>1. j.t < eq_now \/ (j.t = eq_now /\ j.d <= eq_delta)
        BY <1>7, <1>8
      <4> QED BY <1>2, <1>3, <1>5, <2>1, <4>1
    <3>2. j.d > 0
      BY <1>2, <1>5, <2>1
    <3>3. Cardinality(LaterDeltas \cup {new}) = Cardinality(LaterDeltas) + 1
      BY <1>14, <3>1, FS_AddElement
    <3> QED BY <1>4, <1>8, <1>13, <2>1, <3>2, <3>3
  <2>2. CASE ~(j.d > begun)
    <3>1. eq_delta_cycles' = Cardinality(LaterDeltas)
      BY <1>4, <1>8, <2>2
    <3>2. j.d = begun
      BY <1>2, <1>5, <2>2
    <3>3. CASE j.t /= eq_now
      <4>1. ~(j.d > 0)
        BY <1>5, <3>2, <3>3
      <4> QED BY <1>13, <3>1, <4>1
    <3>4. CASE j.t = eq_now
      <4>1. new = <<eq_now, eq_delta>>
        BY <1>5, <3>2, <3>4 DEF new
      <4>2. j.d > 0 => new \in LaterDeltas
        <5> SUFFICES ASSUME j.d > 0 PROVE new \in LaterDeltas
          OBVIOUS
        <5>1. eq_delta > 0
          BY <1>5, <3>2, <3>4
        <5> QED BY <1>7, <1>8, <4>1, <5>1 DEF LaterDeltas
      <4>3. LaterDeltas' = LaterDeltas
        BY <1>13, <4>2
      <4> QED BY <3>1, <4>3
    <3> QED BY <3>3, <3>4
  <2> QED BY <2>1, <2>2
<1>16. eq_delta_cycles' \in Nat
  BY <1>3, <1>4
<1> QED BY <1>6, <1>10, <1>11, <1>12, <1>15, <1>16 DEF StampInv

\* What is due next is due no later than what stays in the queue.
LEMMA EvaluateStep ==
  ASSUME EvqInv, NEW j \in eq_q, NEW notified, Plat!Evaluate(j, notified),
         notified = {} \/ \E how \in Kinds, after \in 1..2 : notified = {<<how, after>>}
  PROVE  EvqInv'
<1>1. /\ ~eq_over /\ (\A k \in eq_q : ~Plat!Earlier(k, j)) /\ Plat!Advance(j)
      /\ eq_eval_calls' = eq_eval_calls + 1
      /\ eq_q' = (eq_q \ {j}) \cup {Plat!Job(n[1], n[2], eq_now', eq_delta') : n \in notified}
      /\ eq_jobs' = eq_jobs + Plat!Cardinality(notified)
      /\ eq_last' = j /\ eq_stamps' = eq_stamps \cup {<<eq_now', eq_delta'>>} /\ eq_over' = eq_over
  BY DEF Plat!Evaluate
<1>2. eq_now' = j.t /\ eq_delta' = j.d /\ StampInv' /\ eq_delta_cycles' \in Nat
  BY ONLY EvqInv, j \in eq_q, <1>1, ClockStep
<1>3. /\ eq_q \subseteq Jobs /\ IsFiniteSet(eq_q) /\ eq_jobs \in Nat /\ eq_eval_calls \in Nat
      /\ \A k \in eq_q : DueAsSent(k) /\ k.id < eq_jobs
      /\ eq_eval_calls + Cardinality(eq_q) = eq_jobs /\ eq_over = FALSE
  BY <1>1 DEF EvqInv, QueueInv, ClockInv, CountInv
<1>4. j.t \in Nat /\ j.d \in Nat
  BY <1>3 DEF Jobs
<1> DEFINE rest == eq_q \ {j}
<1>5. rest \subseteq Jobs /\ IsFiniteSet(rest) /\ Cardinality(rest) = Cardinality(eq_q) - 1
      /\ Cardinality(rest) \in Nat /\ Cardinality(eq_q) \in Nat
  <2>1. IsFiniteSet(rest) /\ Cardinality(rest) = Cardinality(eq_q) - 1
    BY <1>3, FS_RemoveElement
  <2> QED BY <1>3, <2>1, FS_CardinalityType
<1>6. \A k \in rest : DueAsSent(k) /\ k.id < eq_jobs /\ ~(k.t < j.t \/ (k.t = j.t /\ k.d < j.d))
  BY <1>1, <1>3 DEF Plat!Earlier
<1> HIDE DEF rest
<1>7. /\ eq_eval_calls' = eq_eval_calls + 1 /\ eq_eval_calls + Cardinality(eq_q) = eq_jobs
       /\ Cardinality(rest) = Cardinality(eq_q) - 1 /\ Cardinality(eq_q) \in Nat
       /\ eq_jobs \in Nat /\ eq_eval_calls \in Nat
  BY <1>1, <1>3, <1>5
<1>8. /\ eq_now' \in Nat /\ eq_delta' \in Nat /\ eq_delta_cycles' \in Nat
       /\ eq_eval_calls' \in Nat /\ eq_over' \in BOOLEAN
  <2>1. eq_eval_calls' \in Nat
    BY ONLY <1>7
  <2> QED BY <1>1, <1>2, <1>3, <1>4, <2>1
<1>9. LastInv'
  BY <1>1, <1>2, <1>3 DEF LastInv, DueAsSent
<1>10. CASE notified = {}
  <2>1. eq_q' = rest
    BY <1>1, <1>10 DEF rest
  <2>2. eq_jobs' = eq_jobs
    <3>1. Plat!Cardinality(notified) = 0
      BY <1>10, PlatCounted, FS_EmptySet
    <3> QED BY <1>1, <1>3, <3>1
  <2>3. QueueInv'
    BY <1>2, <1>5, <1>6, <2>1, <2>2 DEF QueueInv, DueAsSent
  <2>4. ClockInv'
    BY ONLY <1>8, <2>2, <1>3 DEF ClockInv
  <2>5. CountInv'
    <3>1. eq_eval_calls' + Cardinality(eq_q') = eq_jobs'
      BY ONLY <1>7, <2>1, <2>2
    <3> QED BY <1>1, <1>3, <3>1 DEF CountInv
  <2> QED BY <1>2, <1>9, <2>3, <2>4, <2>5 DEF EvqInv
<1>11. ASSUME NEW how \in Kinds, NEW after \in 1..2, notified = {<<how, after>>} PROVE EvqInv'
  <2> DEFINE k == Plat!Job(how, after, j.t, j.d)
  <2>1. k \in Jobs /\ DueAsSent(k) /\ k.id = eq_jobs /\ ~(k.t < j.t \/ (k.t = j.t /\ k.d < j.d))
    BY <1>3, <1>4, JobIs
  <2>2. eq_q' = rest \cup {k}
    BY <1>1, <1>2, <1>11 DEF rest
  <2> HIDE DEF k
  <2>3. eq_jobs' = eq_jobs + 1
    <3>1. Plat!Cardinality(notified) = 1
      BY <1>11, PlatCounted, FS_Singleton
    <3> QED BY <1>1, <1>3, <3>1
  <2>4. IsFiniteSet(rest \cup {k}) /\ Cardinality(rest \cup {k}) = Cardinality(rest) + 1
        /\ rest \cup {k} \subseteq Jobs /\ \A i \in rest \cup {k} : i.id < eq_jobs + 1
    <3>1. \A i \in rest : i.id < eq_jobs
      BY <1>6
    <3> QED BY ONLY <1>3, <1>5, <2>1, <3>1, JobJoins
  <2>5. QueueInv'
    BY <1>2, <1>6, <2>1, <2>2, <2>3, <2>4 DEF QueueInv, DueAsSent
  <2>6. ClockInv'
    <3>1. eq_jobs' \in Nat
      BY ONLY <1>7, <2>3
    <3> QED BY ONLY <1>8, <3>1 DEF ClockInv
  <2>7. CountInv'
    <3>0. Cardinality(eq_q') = Cardinality(rest) + 1
      BY <2>2, <2>4
    <3>1. eq_eval_calls' + Cardinality(eq_q') = eq_jobs'
      BY ONLY <1>7, <2>3, <3>0
    <3> QED BY <1>1, <1>3, <3>1 DEF CountInv
  <2> QED BY <1>2, <1>9, <2>5, <2>6, <2>7 DEF EvqInv
<1> QED BY <1>10, <1>11

LEMMA ReturnStep == ASSUME EvqInv, Plat!Return PROVE EvqInv'
<1>1. /\ ~eq_over /\ eq_over' = TRUE
      /\ UNCHANGED <<eq_now, eq_delta, eq_eval_calls, eq_delta_cycles, eq_jobs, eq_stamps, eq_last>>
  BY DEF Plat!Return
<1>2. eq_eval_calls + Cardinality(eq_q) = eq_jobs /\ IsFiniteSet(eq_q) /\ eq_eval_calls \in Nat /\ eq_jobs \in Nat
  BY <1>1 DEF EvqInv, CountInv, QueueInv, ClockInv
<1>3. ClockInv' /\ StampInv' /\ LastInv'
  BY <1>1 DEF EvqInv, ClockInv, StampInv, LastInv, LaterDeltas, DueAsSent
<1>4. CASE eq_q = {} /\ eq_q' = eq_q
  BY <1>1, <1>2, <1>3, <1>4 DEF EvqInv, QueueInv, CountInv, DueAsSent
<1>5. ASSUME NEW j \in eq_q, \A k \in eq_q : ~Plat!Earlier(k, j), j.t > until, eq_q' = eq_q \ {j} PROVE EvqInv'
  <2>1. eq_q \subseteq Jobs
    BY DEF EvqInv, QueueInv
  <2>2. \A k \in eq_q' : k.t > until
    <3> SUFFICES ASSUME NEW k \in eq_q PROVE k.t > until
      BY <1>5
    <3>1. k.t \in Nat /\ j.t \in Nat /\ ~(k.t < j.t)
      BY <1>5, <2>1 DEF Jobs, Plat!Earlier
    <3> QED BY <1>5, <3>1, TlmAssumption
  <2>3. IsFiniteSet(eq_q') /\ Cardinality(eq_q') = Cardinality(eq_q) - 1 /\ Cardinality(eq_q) \in Nat
    BY <1>2, <1>5, FS_RemoveElement, FS_CardinalityType
  <2>4. QueueInv'
    BY <1>1, <1>5, <2>3 DEF EvqInv, QueueInv, DueAsSent
  <2>5. eq_eval_calls' + Cardinality(eq_q') = eq_jobs' - 1
    <3>1. eq_eval_calls' = eq_eval_calls /\ eq_jobs' = eq_jobs
      BY <1>1
    <3>2. eq_eval_calls + Cardinality(eq_q) = eq_jobs /\ eq_eval_calls \in Nat /\ eq_jobs \in Nat
      BY <1>2
    <3> DEFINE before == Cardinality(eq_q)
               after == Cardinality(eq_q \ {j})
    <3>3. before \in Nat /\ after = before - 1 /\ eq_eval_calls + before = eq_jobs
      BY <1>5, <2>3, <3>2
    <3> HIDE DEF before, after
    <3>4. eq_eval_calls + after = eq_jobs - 1
      BY ONLY <3>2, <3>3
    <3> QED BY <1>5, <3>1, <3>4 DEF after
  <2>6. CountInv'
    BY <1>1, <2>2, <2>5 DEF CountInv
  <2> QED BY <1>3, <2>4, <2>6 DEF EvqInv
<1> QED BY <1>4, <1>5 DEF Plat!Return

LEMMA EvqSteps == ASSUME EvqInv, [Plat!EvqNext]_(Plat!evq_vars) PROVE EvqInv'
<1>1. Plat!Kinds = Kinds
  BY DEF Plat!Kinds, Kinds
<1>2. ASSUME NEW how \in Kinds, NEW after \in 1..2, Plat!Notify(how, after) PROVE EvqInv'
  BY <1>2, NotifyStep
<1>3. ASSUME NEW j \in eq_q, Plat!Evaluate(j, {}) PROVE EvqInv'
  BY <1>3, EvaluateStep
<1>4. ASSUME NEW j \in eq_q, NEW how \in Kinds, NEW after \in 1..2, Plat!Evaluate(j, {<<how, after>>}) PROVE EvqInv'
  BY <1>4, EvaluateStep
<1>5. CASE Plat!Return
  BY <1>5, ReturnStep
<1>6. CASE UNCHANGED Plat!evq_vars
  BY <1>6 DEF Plat!evq_vars, EvqInv, QueueInv, ClockInv, StampInv, LastInv, CountInv, LaterDeltas, DueAsSent
<1> QED BY <1>1, <1>2, <1>3, <1>4, <1>5, <1>6 DEF Plat!EvqNext

LEMMA RunsInTime == EvqInv => Plat!RunsWhenNotified
<1> SUFFICES ASSUME EvqInv PROVE Plat!RunsWhenNotified
  OBVIOUS
<1>1. eq_last /= Plat!Never =>
        /\ eq_last.kind = "immediate" => <<eq_now, eq_delta>> = eq_last.sent
        /\ eq_last.kind = "delta" => <<eq_now, eq_delta>> = <<eq_last.sent[1], eq_last.sent[2] + 1>>
        /\ eq_last.kind = "timed" => eq_now = eq_last.t /\ eq_now > eq_last.sent[1]
  <2> SUFFICES ASSUME eq_last /= Plat!Never
               PROVE  /\ eq_last.kind = "immediate" => <<eq_now, eq_delta>> = eq_last.sent
                      /\ eq_last.kind = "delta" => <<eq_now, eq_delta>> = <<eq_last.sent[1], eq_last.sent[2] + 1>>
                      /\ eq_last.kind = "timed" => eq_now = eq_last.t /\ eq_now > eq_last.sent[1]
    OBVIOUS
  <2>1. eq_last \in Jobs /\ DueAsSent(eq_last) /\ eq_now = eq_last.t /\ eq_delta = eq_last.d
    BY DEF EvqInv, LastInv
  <2>2. eq_last.sent \in Nat \X Nat
    BY <2>1 DEF Jobs
  <2>3. eq_last.sent = <<eq_last.sent[1], eq_last.sent[2]>>
    BY <2>2
  <2> QED BY <2>1, <2>3 DEF DueAsSent
<1>2. \A j \in eq_q : ~(j.t < eq_now \/ (j.t = eq_now /\ j.d < eq_delta))
  BY DEF EvqInv, QueueInv
<1>3. eq_delta_cycles = Plat!Cardinality({s \in eq_stamps : s[2] > 0})
  BY PlatCounted DEF EvqInv, StampInv, LaterDeltas
<1>4. IF eq_over THEN eq_eval_calls + Plat!Cardinality(eq_q) \in {eq_jobs, eq_jobs - 1} /\ \A j \in eq_q : j.t > until
      ELSE eq_eval_calls + Plat!Cardinality(eq_q) = eq_jobs
  <2>1. Plat!Cardinality(eq_q) = Cardinality(eq_q)
    BY PlatCounted
  <2> QED BY <2>1 DEF EvqInv, CountInv
<1> QED BY <1>1, <1>2, <1>3, <1>4 DEF Plat!RunsWhenNotified

\* cpu-model-systemc-tlm-lab 1, 2: the queue runs each job once, at the time and delta of
\* its notification, and a delta cycle is counted once.
THEOREM RunInTime == Plat!EvqSpec => []Plat!RunsWhenNotified
<1> QED BY EvqBegins, EvqSteps, RunsInTime, PTL DEF Plat!EvqSpec

------------------------------------------------------------------------------
(* Tlm: transactions in flight, and the initiator's clocks.                *)

Asked == 1..NumRequests
Coming == [t : Nat, p : Asked, ph : {"BEGIN_RESP"}]
Answers == [p : Asked, t : Nat, nth : Nat]
Begun == {p \in Asked : tr_phase[p] /= "none"}
Ended == {p \in Asked : tr_phase[p] = "END_RESP"}

\* Each request that is not answered has its answer in the queue.
FlightInv ==
  /\ tr_phase \in [Asked -> {"none", "BEGIN_REQ", "END_RESP"}]
  /\ tr_peq \subseteq Coming
  /\ \A e \in tr_peq : tr_phase[e.p] = "BEGIN_REQ"
  /\ \A e, f \in tr_peq : e.p = f.p => e = f
  /\ \A p \in Asked : tr_phase[p] = "BEGIN_REQ" => \E e \in tr_peq : e.p = p

\* An answer is due after the latency of its request.
LatencyInv ==
  /\ tr_latency \in [Asked -> Nat]
  /\ \A e \in tr_peq : e.t = tr_latency[e.p]
  /\ \A c \in tr_completed : c.t = tr_latency[c.p]

\* No answer is due before one that was given.
AnswerInv ==
  /\ tr_completed \subseteq Answers /\ IsFiniteSet(tr_completed)
  /\ \A c \in tr_completed : c.nth < tr_bw /\ tr_phase[c.p] = "END_RESP"
  /\ \A c, d \in tr_completed : c.nth < d.nth => c.t <= d.t /\ c.p /= d.p
  /\ \A c, d \in tr_completed : c.nth = d.nth => c = d
  /\ \A c \in tr_completed : \A e \in tr_peq : c.t <= e.t
  /\ \A p \in Ended : \E c \in tr_completed : c.p = p
  /\ tr_bw > 0 => Begun = Asked

CallInv ==
  /\ tr_bw \in Nat /\ tr_fw \in Nat /\ tr_phase_events \in Nat
  /\ tr_bw = Cardinality(Ended) /\ tr_bw = Cardinality(tr_completed)
  /\ tr_fw = 2 * Cardinality(Begun) + tr_bw
  /\ tr_phase_events = 2 * Cardinality(Begun) + 2 * tr_bw

ClocksInv ==
  /\ tr_global \in Nat /\ tr_local \in Nat /\ tr_syncs \in Nat /\ tr_xfers \in Nat
  /\ tr_global + tr_local = per_xfer * tr_xfers /\ tr_local < quantum
  /\ tr_syncs * quantum <= tr_global

AtInv == FlightInv /\ LatencyInv /\ AnswerInv /\ CallInv
TranInv == AtInv /\ ClocksInv

LEMMA AskedFinite == ASSUME NEW S \in SUBSET Asked PROVE IsFiniteSet(S) /\ Cardinality(S) \in Nat
<1>1. IsFiniteSet(Asked)
  BY TlmAssumption, FS_Interval DEF Asked
<1> QED BY <1>1, FS_Subset, FS_CardinalityType

LEMMA TranBegins == Plat!TranInit => TranInv
<1> SUFFICES ASSUME Plat!TranInit PROVE TranInv
  OBVIOUS
<1>0. IsFiniteSet({}) /\ Cardinality({}) = 0
  BY FS_EmptySet
<1>1. /\ tr_phase = [p \in Asked |-> "none"] /\ tr_peq = {} /\ tr_completed = {}
      /\ tr_phase_events = 0 /\ tr_fw = 0 /\ tr_bw = 0 /\ tr_latency = [p \in Asked |-> 0]
      /\ tr_global = 0 /\ tr_local = 0 /\ tr_syncs = 0 /\ tr_xfers = 0
  BY DEF Plat!TranInit, Asked
<1>2. Begun = {} /\ Ended = {}
  BY <1>1 DEF Begun, Ended
<1>3. FlightInv
  BY <1>1 DEF FlightInv
<1>4. AnswerInv
  BY <1>0, <1>1, <1>2 DEF AnswerInv
<1>5. CallInv
  <2>1. Cardinality(Begun) = 0 /\ Cardinality(Ended) = 0 /\ Cardinality(tr_completed) = 0
    BY <1>0, <1>1, <1>2
  <2> QED BY <1>1, <2>1 DEF CallInv
<1>6. ClocksInv
  BY <1>1, TlmAssumption DEF ClocksInv
<1>7. LatencyInv
  BY <1>1 DEF LatencyInv
<1> QED BY <1>3, <1>4, <1>5, <1>6, <1>7 DEF TranInv, AtInv

LEMMA AskedStep ==
  ASSUME AtInv, NEW p \in Asked, NEW lat \in Latencies, Plat!nb_fw(p, lat) PROVE AtInv'
<1> DEFINE e == [t |-> lat, p |-> p, ph |-> "BEGIN_RESP"]
<1>1. /\ tr_phase[p] = "none" /\ tr_bw = 0 /\ tr_phase' = [tr_phase EXCEPT ![p] = "BEGIN_REQ"]
      /\ tr_peq' = tr_peq \cup {e} /\ tr_phase_events' = tr_phase_events + 2 /\ tr_fw' = tr_fw + 2
      /\ tr_bw' = tr_bw /\ tr_completed' = tr_completed
      /\ tr_latency' = [tr_latency EXCEPT ![p] = lat]
  BY DEF Plat!nb_fw
<1>2. e \in Coming /\ e.p = p /\ e.t = lat /\ lat \in Nat
  BY TlmAssumption DEF Coming
<1> HIDE DEF e
<1>3. tr_phase \in [Asked -> {"none", "BEGIN_REQ", "END_RESP"}]
  BY DEF AtInv, FlightInv
<1>4. \A q \in Asked : tr_phase'[q] = IF q = p THEN "BEGIN_REQ" ELSE tr_phase[q]
  BY <1>1, <1>3
<1>5. \A f \in tr_peq : f \in Coming /\ f.p \in Asked /\ f.p /= p
  BY <1>1 DEF AtInv, FlightInv, Coming
<1>6. FlightInv'
  <2>1. tr_phase' \in [Asked -> {"none", "BEGIN_REQ", "END_RESP"}]
    BY <1>1, <1>3
  <2>2. tr_peq' \subseteq Coming /\ \A f \in tr_peq' : tr_phase'[f.p] = "BEGIN_REQ"
    BY <1>1, <1>2, <1>4, <1>5 DEF AtInv, FlightInv
  <2>3. \A f, g \in tr_peq' : f.p = g.p => f = g
    BY <1>1, <1>2, <1>5 DEF AtInv, FlightInv
  <2>4. \A q \in Asked : tr_phase'[q] = "BEGIN_REQ" => \E f \in tr_peq' : f.p = q
    BY <1>1, <1>2, <1>4 DEF AtInv, FlightInv
  <2> QED BY <2>1, <2>2, <2>3, <2>4 DEF FlightInv
<1>7. Ended' = Ended /\ Begun' = Begun \cup {p} /\ p \notin Begun
  BY <1>1, <1>4 DEF Ended, Begun
<1>8. tr_completed = {}
  <2>1. \A c \in tr_completed : c \in Answers /\ c.nth < 0
    BY <1>1 DEF AtInv, AnswerInv
  <2> QED BY <2>1 DEF Answers
<1>9. AnswerInv'
  <2>1. ~(tr_bw' > 0)
    BY <1>1
  <2>2. \A q \in Ended' : \E c \in tr_completed' : c.p = q
    BY <1>1, <1>7 DEF AtInv, AnswerInv
  <2>3. tr_completed' = {} /\ IsFiniteSet(tr_completed')
    BY <1>1, <1>8 DEF AtInv, AnswerInv
  <2> QED BY <2>1, <2>2, <2>3 DEF AnswerInv
<1>10. CallInv'
  <2> DEFINE b == Cardinality(Begun)
  <2>1. b \in Nat /\ IsFiniteSet(Begun)
    BY AskedFinite DEF Begun
  <2>2. Cardinality(Begun') = b + 1
    BY <1>7, <2>1, FS_AddElement
  <2>3. tr_bw \in Nat /\ tr_fw \in Nat /\ tr_phase_events \in Nat
        /\ tr_fw = 2 * b + tr_bw /\ tr_phase_events = 2 * b + 2 * tr_bw
        /\ tr_fw' = tr_fw + 2 /\ tr_phase_events' = tr_phase_events + 2 /\ tr_bw' = tr_bw
    BY <1>1 DEF AtInv, CallInv
  <2>4. tr_bw' = Cardinality(Ended') /\ tr_bw' = Cardinality(tr_completed')
    BY <1>1, <1>7 DEF AtInv, CallInv
  <2> HIDE DEF b
  <2>5. b \in Nat
    BY <2>1
  <2>6. tr_fw' = 2 * (b + 1) + tr_bw' /\ tr_phase_events' = 2 * (b + 1) + 2 * tr_bw'
        /\ tr_bw' \in Nat /\ tr_fw' \in Nat /\ tr_phase_events' \in Nat
    BY ONLY <2>3, <2>5
  <2> QED BY <2>2, <2>4, <2>6 DEF CallInv
<1>11. LatencyInv'
  <2>1. /\ tr_latency \in [Asked -> Nat] /\ tr_latency' \in [Asked -> Nat] /\ tr_latency'[p] = lat
        /\ \A q \in Asked : q /= p => tr_latency'[q] = tr_latency[q]
    BY <1>1, <1>2 DEF AtInv, LatencyInv
  <2>2. \A f \in tr_peq' : f.t = tr_latency'[f.p]
    BY <1>1, <1>2, <1>5, <2>1 DEF AtInv, LatencyInv
  <2> QED BY <1>1, <1>8, <2>1, <2>2 DEF LatencyInv
<1> QED BY <1>6, <1>9, <1>10, <1>11 DEF AtInv

LEMMA PopStep ==
  ASSUME AtInv, NEW e \in tr_peq, Plat!pop(e) PROVE AtInv'
<1> DEFINE c == [p |-> e.p, t |-> e.t, nth |-> tr_bw]
<1>1. /\ Plat!Due(e) /\ "none" \notin {tr_phase[p] : p \in Asked}
      /\ tr_peq' = tr_peq \ {e} /\ tr_phase' = [tr_phase EXCEPT ![e.p] = "END_RESP"]
      /\ tr_phase_events' = tr_phase_events + 2 /\ tr_bw' = tr_bw + 1 /\ tr_fw' = tr_fw + 1
      /\ tr_completed' = tr_completed \cup {c} /\ tr_latency' = tr_latency
  BY DEF Plat!pop, Asked
<1>2. e \in Coming /\ e.p \in Asked /\ e.t \in Nat /\ tr_phase[e.p] = "BEGIN_REQ"
  BY DEF AtInv, FlightInv, Coming
<1>3. tr_bw \in Nat
  BY DEF AtInv, CallInv
<1>4. c \in Answers /\ c.p = e.p /\ c.t = e.t /\ c.nth = tr_bw
  BY <1>2, <1>3 DEF Answers
<1> HIDE DEF c
<1>5. tr_phase \in [Asked -> {"none", "BEGIN_REQ", "END_RESP"}]
  BY DEF AtInv, FlightInv
<1>6. \A q \in Asked : tr_phase'[q] = IF q = e.p THEN "END_RESP" ELSE tr_phase[q]
  BY <1>1, <1>2, <1>5
<1>7. \A f \in tr_peq' : f \in Coming /\ f.p \in Asked /\ f.p /= e.p /\ f.t \in Nat /\ f \in tr_peq
  BY <1>1 DEF AtInv, FlightInv, Coming
<1>8. FlightInv'
  <2>1. tr_phase' \in [Asked -> {"none", "BEGIN_REQ", "END_RESP"}]
    BY <1>1, <1>5
  <2>2. tr_peq' \subseteq Coming /\ (\A f, g \in tr_peq' : f.p = g.p => f = g)
    BY <1>7 DEF AtInv, FlightInv
  <2>3. \A f \in tr_peq' : tr_phase'[f.p] = "BEGIN_REQ"
    BY <1>6, <1>7 DEF AtInv, FlightInv
  <2>4. ASSUME NEW q \in Asked, tr_phase'[q] = "BEGIN_REQ" PROVE \E f \in tr_peq' : f.p = q
    <3>1. q /= e.p /\ tr_phase[q] = "BEGIN_REQ"
      BY <1>6, <2>4
    <3>2. PICK f \in tr_peq : f.p = q
      BY <3>1 DEF AtInv, FlightInv
    <3>3. f \in tr_peq'
      BY <1>1, <3>1, <3>2
    <3> QED BY <3>2, <3>3
  <2> QED BY <2>1, <2>2, <2>3, <2>4 DEF FlightInv
<1>9. Begun = Asked /\ Begun' = Asked
  BY <1>1, <1>6 DEF Begun
<1>10. Ended' = Ended \cup {e.p} /\ e.p \notin Ended
  BY <1>2, <1>6 DEF Ended
<1>11. \A d \in tr_completed : d \in Answers /\ d.nth < tr_bw /\ tr_phase[d.p] = "END_RESP" /\ d.p \in Asked /\ d.p /= e.p
                               /\ d.nth \in Nat /\ d.t \in Nat /\ d.t <= e.t
  BY <1>2 DEF AtInv, AnswerInv, Answers
<1>12. IsFiniteSet(tr_completed) /\ c \notin tr_completed
  BY <1>4, <1>11 DEF AtInv, AnswerInv
<1>13. AnswerInv'
  <2>1. tr_completed' \subseteq Answers /\ IsFiniteSet(tr_completed')
    BY <1>1, <1>4, <1>11, <1>12, FS_AddElement
  <2>2. ASSUME NEW d \in tr_completed' PROVE d.nth < tr_bw' /\ tr_phase'[d.p] = "END_RESP"
    <3>1. CASE d = c
      BY <1>1, <1>2, <1>3, <1>4, <1>6, <3>1
    <3>2. CASE d \in tr_completed
      <4>1. d.nth < tr_bw /\ d.nth \in Nat /\ tr_phase[d.p] = "END_RESP" /\ d.p \in Asked
        BY <1>11, <3>2
      <4>2. d.nth < tr_bw'
        BY <1>1, <1>3, <4>1
      <4> QED BY <1>6, <4>1, <4>2
    <3> QED BY <1>1, <3>1, <3>2
  <2>3. ASSUME NEW d \in tr_completed', NEW f \in tr_completed', d.nth < f.nth PROVE d.t <= f.t /\ d.p /= f.p
    <3>1. CASE d \in tr_completed /\ f \in tr_completed
      BY <2>3, <3>1 DEF AtInv, AnswerInv
    <3>2. CASE d \in tr_completed /\ f = c
      BY <1>4, <1>11, <3>2
    <3>3. CASE d = c
      <4>1. tr_bw < f.nth
        BY <1>4, <2>3, <3>3
      <4>2. f \in tr_completed
        BY <1>1, <1>3, <1>4, <4>1
      <4> QED BY <1>3, <1>11, <4>1, <4>2
    <3> QED BY <1>1, <3>1, <3>2, <3>3
  <2>4. ASSUME NEW d \in tr_completed', NEW f \in tr_peq' PROVE d.t <= f.t
    <3>1. CASE d = c
      BY <1>1, <1>4, <1>7, <3>1 DEF Plat!Due
    <3>2. CASE d \in tr_completed
      BY <1>7, <3>2 DEF AtInv, AnswerInv
    <3> QED BY <1>1, <3>1, <3>2
  <2>5. \A q \in Ended' : \E d \in tr_completed' : d.p = q
    BY <1>1, <1>4, <1>10 DEF AtInv, AnswerInv
  <2>6. ASSUME NEW d \in tr_completed', NEW f \in tr_completed', d.nth = f.nth PROVE d = f
    <3>1. d \in tr_completed => d.nth /= c.nth
      BY <1>3, <1>4, <1>11
    <3>2. f \in tr_completed => f.nth /= c.nth
      BY <1>3, <1>4, <1>11
    <3> QED BY <1>1, <2>6, <3>1, <3>2 DEF AtInv, AnswerInv
  <2> QED BY <1>9, <2>1, <2>2, <2>3, <2>4, <2>5, <2>6 DEF AnswerInv
<1>14. CallInv'
  <2> DEFINE b == Cardinality(Begun)
  <2>1. b \in Nat /\ IsFiniteSet(Ended)
    BY AskedFinite DEF Begun, Ended
  <2>2. Cardinality(Begun') = b
    BY <1>9
  <2>3. Cardinality(Ended') = Cardinality(Ended) + 1
    BY <1>10, <2>1, FS_AddElement
  <2>4. Cardinality(tr_completed') = Cardinality(tr_completed) + 1
    BY <1>1, <1>12, FS_AddElement
  <2>5. tr_bw \in Nat /\ tr_fw \in Nat /\ tr_phase_events \in Nat
        /\ tr_fw = 2 * b + tr_bw /\ tr_phase_events = 2 * b + 2 * tr_bw
        /\ tr_fw' = tr_fw + 1 /\ tr_phase_events' = tr_phase_events + 2 /\ tr_bw' = tr_bw + 1
    BY <1>1 DEF AtInv, CallInv
  <2>6. tr_bw = Cardinality(Ended) /\ tr_bw = Cardinality(tr_completed)
    BY DEF AtInv, CallInv
  <2>7. tr_bw' = Cardinality(Ended') /\ tr_bw' = Cardinality(tr_completed')
    BY <2>3, <2>4, <2>5, <2>6
  <2> HIDE DEF b
  <2>8. b \in Nat
    BY <2>1
  <2>9. tr_fw' = 2 * b + tr_bw' /\ tr_phase_events' = 2 * b + 2 * tr_bw'
        /\ tr_bw' \in Nat /\ tr_fw' \in Nat /\ tr_phase_events' \in Nat
    BY ONLY <2>5, <2>8
  <2> QED BY <2>2, <2>7, <2>9 DEF CallInv
<1>15. LatencyInv'
  <2>1. \A f \in tr_peq' : f.t = tr_latency'[f.p]
    BY <1>1, <1>7 DEF AtInv, LatencyInv
  <2>2. \A d \in tr_completed' : d.t = tr_latency'[d.p]
    BY <1>1, <1>4 DEF AtInv, LatencyInv
  <2> QED BY <1>1, <2>1, <2>2 DEF AtInv, LatencyInv
<1> QED BY <1>8, <1>13, <1>14, <1>15 DEF AtInv

LEMMA TransferStep == ASSUME ClocksInv, Plat!b_transport PROVE ClocksInv'
<1>0. quantum \in Nat \ {0} /\ per_xfer \in Nat
  BY TlmAssumption
<1>1. /\ tr_global \in Nat /\ tr_local \in Nat /\ tr_syncs \in Nat /\ tr_xfers \in Nat
      /\ tr_global + tr_local = per_xfer * tr_xfers /\ tr_local < quantum
      /\ tr_syncs * quantum <= tr_global
  BY DEF ClocksInv
<1> DEFINE ahead == tr_local + per_xfer
<1>2. /\ tr_xfers' = tr_xfers + 1
      /\ \/ ahead >= quantum /\ tr_global' = tr_global + ahead /\ tr_local' = 0 /\ tr_syncs' = tr_syncs + 1
         \/ ~(ahead >= quantum) /\ tr_local' = ahead /\ tr_global' = tr_global /\ tr_syncs' = tr_syncs
  BY DEF Plat!b_transport
<1>3. ahead \in Nat /\ ahead = tr_local + per_xfer
  BY <1>0, <1>1
<1> HIDE DEF ahead
<1>4. per_xfer * tr_xfers' = per_xfer * tr_xfers + per_xfer /\ per_xfer * tr_xfers \in Nat
  BY <1>0, <1>1, <1>2
<1>5. (tr_syncs + 1) * quantum = tr_syncs * quantum + quantum /\ tr_syncs * quantum \in Nat
  BY <1>0, <1>1
<1>6. CASE ahead >= quantum /\ tr_global' = tr_global + ahead /\ tr_local' = 0 /\ tr_syncs' = tr_syncs + 1
  <2>1. tr_syncs' * quantum = tr_syncs * quantum + quantum
    BY <1>5, <1>6
  <2>2. tr_syncs' * quantum <= tr_global'
    BY <1>0, <1>1, <1>3, <1>5, <1>6, <2>1
  <2>3. tr_global' + tr_local' = per_xfer * tr_xfers'
    BY <1>0, <1>1, <1>3, <1>4, <1>6
  <2>4. tr_global' \in Nat /\ tr_local' \in Nat /\ tr_syncs' \in Nat /\ tr_xfers' \in Nat /\ tr_local' < quantum
    BY <1>0, <1>1, <1>2, <1>3, <1>6
  <2> QED BY <2>2, <2>3, <2>4 DEF ClocksInv
<1>7. CASE ~(ahead >= quantum) /\ tr_local' = ahead /\ tr_global' = tr_global /\ tr_syncs' = tr_syncs
  <2>1. tr_global' + tr_local' = per_xfer * tr_xfers'
    BY <1>0, <1>1, <1>3, <1>4, <1>7
  <2>2. tr_global' \in Nat /\ tr_local' \in Nat /\ tr_syncs' \in Nat /\ tr_xfers' \in Nat /\ tr_local' < quantum
    BY <1>0, <1>1, <1>2, <1>3, <1>7
  <2> QED BY <1>1, <1>7, <2>1, <2>2 DEF ClocksInv
<1> QED BY <1>2, <1>6, <1>7

LEMMA TranSteps == ASSUME TranInv, [Plat!TranNext]_(Plat!tran_vars) PROVE TranInv'
<1>1. ASSUME NEW p \in Asked, NEW lat \in Latencies, Plat!nb_fw(p, lat) PROVE TranInv'
  <2>1. UNCHANGED <<tr_global, tr_local, tr_syncs, tr_xfers>>
    BY <1>1 DEF Plat!nb_fw, Plat!ltVars
  <2> QED BY <1>1, <2>1, AskedStep DEF TranInv, ClocksInv
<1>2. ASSUME NEW e \in tr_peq, Plat!pop(e) PROVE TranInv'
  <2>1. UNCHANGED <<tr_global, tr_local, tr_syncs, tr_xfers>>
    BY <1>2 DEF Plat!pop, Plat!ltVars
  <2> QED BY <1>2, <2>1, PopStep DEF TranInv, ClocksInv
<1>3. ASSUME UNCHANGED Plat!atVars, ClocksInv' PROVE TranInv'
  BY <1>3 DEF Plat!atVars, TranInv, AtInv, FlightInv, LatencyInv, AnswerInv, CallInv, Begun, Ended
<1>4. CASE Plat!b_transport
  <2>1. UNCHANGED Plat!atVars
    BY <1>4 DEF Plat!b_transport
  <2> QED BY <1>3, <1>4, <2>1, TransferStep DEF TranInv
<1>5. CASE Plat!FinalSync
  <2>1. UNCHANGED Plat!atVars /\ tr_global' = tr_global + tr_local /\ tr_local' = 0
        /\ tr_syncs' = tr_syncs /\ tr_xfers' = tr_xfers
    BY <1>5 DEF Plat!FinalSync, Plat!atVars
  <2>2. /\ tr_global \in Nat /\ tr_local \in Nat /\ tr_syncs \in Nat /\ tr_xfers \in Nat
        /\ tr_global + tr_local = per_xfer * tr_xfers /\ tr_syncs * quantum <= tr_global
    BY DEF TranInv, ClocksInv
  <2>3. quantum \in Nat \ {0}
    BY TlmAssumption
  <2>4. tr_syncs * quantum \in Nat
    BY <2>2, <2>3
  <2>5. ClocksInv'
    BY <2>1, <2>2, <2>3, <2>4 DEF ClocksInv
  <2> QED BY <1>3, <2>1, <2>5
<1>6. CASE UNCHANGED Plat!tran_vars
  <2>1. UNCHANGED Plat!atVars /\ UNCHANGED <<tr_global, tr_local, tr_syncs, tr_xfers>>
    BY <1>6 DEF Plat!tran_vars, Plat!ltVars
  <2>2. ClocksInv'
    BY <2>1 DEF TranInv, ClocksInv
  <2> QED BY <1>3, <2>1, <2>2
<1> QED BY <1>1, <1>2, <1>4, <1>5, <1>6 DEF Plat!TranNext, Asked

LEMMA AllAnswered == TranInv => Plat!AnsweredInTime
<1> SUFFICES ASSUME TranInv PROVE Plat!AnsweredInTime
  OBVIOUS
<1>1. \A c, d \in tr_completed : c.nth < d.nth => c.t <= d.t /\ c.p /= d.p
  BY DEF TranInv, AtInv, AnswerInv
<1>2. ASSUME NEW p \in Asked PROVE tr_phase[p] = "END_RESP" <=> \E c \in tr_completed : c.p = p
  BY DEF TranInv, AtInv, AnswerInv, Ended
<1>3. ASSUME tr_completed /= {}, tr_peq = {}
      PROVE  /\ Cardinality(tr_completed) = Cardinality(Asked)
             /\ tr_phase_events = 4 * Cardinality(Asked) /\ tr_phase_events = tr_fw + tr_bw
  <2>1. tr_bw > 0
    <3>1. PICK c \in tr_completed : TRUE
      BY <1>3
    <3>2. c.nth < tr_bw /\ c.nth \in Nat
      BY <3>1 DEF TranInv, AtInv, AnswerInv, Answers
    <3>3. tr_bw \in Nat
      BY DEF TranInv, AtInv, CallInv
    <3> QED BY <3>2, <3>3
  <2>2. Begun = Asked
    BY <2>1 DEF TranInv, AtInv, AnswerInv
  <2>3. Ended = Asked
    BY <1>3, <2>2 DEF TranInv, AtInv, FlightInv, Ended, Begun
  <2> DEFINE n == Cardinality(Asked)
  <2>4. n \in Nat
    BY AskedFinite
  <2>5. tr_bw = n /\ tr_bw = Cardinality(tr_completed) /\ tr_fw = 2 * n + tr_bw /\ tr_phase_events = 2 * n + 2 * tr_bw
    BY <2>2, <2>3 DEF TranInv, AtInv, CallInv
  <2> HIDE DEF n
  <2>6. tr_bw = n /\ tr_fw = 2 * n + n /\ tr_phase_events = 2 * n + 2 * n
    BY <2>5
  <2>7. tr_phase_events = 4 * n /\ tr_phase_events = tr_fw + tr_bw
    BY ONLY <2>4, <2>6
  <2>8. Cardinality(tr_completed) = n
    BY <2>5
  <2> QED BY <2>7, <2>8 DEF n
<1>4. tr_global + tr_local = per_xfer * tr_xfers /\ tr_local < quantum /\ tr_syncs * quantum <= tr_global
  BY DEF TranInv, ClocksInv
<1>5. Plat!Cardinality(tr_completed) = Cardinality(tr_completed) /\ Plat!Cardinality(Asked) = Cardinality(Asked)
  BY PlatCounted
<1>6. \A c \in tr_completed : c.t = tr_latency[c.p]
  BY DEF TranInv, AtInv, LatencyInv
<1>7. ASSUME NEW c \in tr_completed, c.nth + 1 = Cardinality(Asked), NEW p \in Asked
      PROVE  tr_latency[p] <= c.t
  <2>1. c.nth \in Nat /\ c.nth < tr_bw /\ tr_bw \in Nat /\ c.t \in Nat
    BY DEF TranInv, AtInv, AnswerInv, CallInv, Answers
  <2>2. Ended \subseteq Asked /\ IsFiniteSet(Asked)
    BY AskedFinite DEF Ended
  <2>3. Cardinality(Ended) <= Cardinality(Asked) /\ (Cardinality(Asked) = Cardinality(Ended) => Asked = Ended)
    BY <2>2, FS_Subset
  <2>4. tr_bw = Cardinality(Ended)
    BY DEF TranInv, AtInv, CallInv
  <2> DEFINE n == Cardinality(Asked)
  <2>5. n \in Nat /\ c.nth + 1 = n /\ tr_bw <= n
    BY <1>7, <2>3, <2>4, AskedFinite
  <2> HIDE DEF n
  <2>6. tr_bw = n
    BY <2>1, <2>5
  <2>7. Ended = Asked
    BY <2>3, <2>4, <2>6 DEF n
  <2>8. PICK d \in tr_completed : d.p = p
    BY <2>7 DEF TranInv, AtInv, AnswerInv
  <2>9. d.nth \in Nat /\ d.nth < tr_bw
    BY <2>8 DEF TranInv, AtInv, AnswerInv, Answers
  <2>10. d.nth < c.nth \/ d.nth = c.nth
    BY <2>1, <2>5, <2>6, <2>9
  <2>11. d.t <= c.t
    <3>1. CASE d.nth < c.nth
      BY <1>1, <3>1
    <3>2. CASE d.nth = c.nth
      <4>1. d = c
        BY <3>2 DEF TranInv, AtInv, AnswerInv
      <4> QED BY <2>1, <4>1
    <3> QED BY <2>10, <3>1, <3>2
  <2> QED BY <1>6, <2>8, <2>11
<1>8. \A c \in tr_completed : c.nth + 1 = Plat!Cardinality(Asked) => \A p \in Asked : tr_latency[p] <= c.t
  BY <1>5, <1>7
<1> QED BY <1>1, <1>2, <1>3, <1>4, <1>5, <1>6, <1>8 DEF Plat!AnsweredInTime, Asked

\* cpu-model-systemc-tlm-lab 6, 8, 9: answers come one to a request, each after the latency
\* of its own request and in that order, the last of them at the longest latency; and the
\* initiator is ahead of the global time by less than a quantum.
THEOREM AnswerInTime == Plat!TranSpec => []Plat!AnsweredInTime
<1> QED BY TranBegins, TranSteps, AllAnswered, PTL DEF Plat!TranSpec

------------------------------------------------------------------------------
(***************************************************************************)
(* The channels of the platform: a resolved signal, a bounded queue,       *)
(* integers of a width and a trace of value changes.                       *)
(***************************************************************************)
LEMMA PlatPowers == Plat!Pow2 = Pow2 /\ \A v, k : Plat!Bit(v, k) = Bit(v, k)
<1>1. Plat!Pow2 = Pow2
  BY DEF Plat!Pow2, Pow2
<1> QED BY <1>1 DEF Plat!Bit, Bit

LEMMA WordWidth ==
  /\ WORD_BITS \in Nat \ {0} /\ WORD_BITS - 1 \in Nat
  /\ Pow2[WORD_BITS] \in Nat \ {0} /\ Pow2[WORD_BITS - 1] \in Nat \ {0}
  /\ Pow2[WORD_BITS] = 2 * Pow2[WORD_BITS - 1]
  /\ Plat!Words = 0..(Pow2[WORD_BITS] - 1)
<1>1. WORD_BITS \in Nat \ {0} /\ WORD_BITS - 1 \in Nat /\ (WORD_BITS - 1) + 1 = WORD_BITS
  BY TlmAssumption
<1>2. Pow2[(WORD_BITS - 1) + 1] = 2 * Pow2[WORD_BITS - 1]
  BY <1>1, Powers
<1>3. Pow2[WORD_BITS] \in Nat \ {0} /\ Pow2[WORD_BITS - 1] \in Nat \ {0}
  BY <1>1, Powers
<1>4. Pow2[WORD_BITS] = 2 * Pow2[WORD_BITS - 1]
  BY ONLY <1>1, <1>2
<1> QED BY <1>1, <1>3, <1>4, PlatPowers DEF Plat!Words

\* A bit put above a number is its bit there, and changes none below.
LEMMA BitOnTop ==
  ASSUME NEW k \in Nat, NEW n \in 0..(Pow2[k] - 1), NEW b \in {0, 1}
  PROVE  LET m == n + (IF b > 0 THEN Pow2[k] ELSE 0)
         IN  /\ m \in 0..(Pow2[k + 1] - 1) /\ Bit(m, k) = b
             /\ \A j \in 0..(k - 1) : Bit(m, j) = Bit(n, j)
<1> DEFINE p == Pow2[k]
           m == n + p * b
<1>1. p \in Nat \ {0} /\ Pow2[k + 1] = 2 * p /\ n \in 0..(p - 1)
  BY Powers
<1>2. \A j \in 0..(k - 1) : Bit(m, j) = Bit(n, j)
  <2> SUFFICES ASSUME NEW j \in 0..(k - 1) PROVE Bit(m, j) = Bit(n, j)
    OBVIOUS
  <2>1. n \in Nat /\ k \in Nat /\ b \in Int /\ j \in Nat /\ j < k
    BY <1>1
  <2>2. n + Pow2[k] * b \in Nat
    BY <1>1
  <2>3. Bit(n + Pow2[k] * b, j) = Bit(n, j)
    BY ONLY <2>1, <2>2, BitsBelow
  <2> QED BY <2>3
<1> HIDE DEF p
<1>3. p * b = IF b > 0 THEN p ELSE 0
  BY <1>1
<1>4. m = n + (IF b > 0 THEN Pow2[k] ELSE 0)
  BY <1>3 DEF p
<1>5. m \in 0..(2 * p - 1)
  <2>1. CASE b = 0
    BY <1>1, <2>1
  <2>2. CASE b = 1
    BY <1>1, <2>2
  <2> QED BY <2>1, <2>2
<1>6. Bit(m, k) = b
  <2>1. n \div p = 0
    <3>1. n \in Int /\ p \in Nat \ {0}
      BY <1>1
    <3>2. n \div p \in Int /\ n % p \in 0..(p - 1) /\ n = p * (n \div p) + (n % p)
      BY ONLY <3>1, DivMod
    <3>3. p * (n \div p) + (n % p) = p * 0 + n
      BY <1>1, <3>2
    <3>4. 0 \in Int
      OBVIOUS
    <3> QED BY ONLY <1>1, <3>1, <3>2, <3>3, <3>4, DivModUnique
  <2>2. (n + p * b) \div p = (n \div p) + b
    <3>1. n \in Int /\ p \in Nat \ {0} /\ b \in Int
      BY <1>1
    <3> QED BY ONLY <3>1, DivShift
  <2>3. m \div p = b
    BY <2>1, <2>2
  <2> HIDE DEF m
  <2>4. b % 2 = b
    OBVIOUS
  <2> QED BY <2>3, <2>4 DEF Bit, p
<1> HIDE DEF m
<1>7. m \in 0..(Pow2[k + 1] - 1)
  BY <1>1, <1>5
<1>8. \A j \in 0..(k - 1) : Bit(m, j) = Bit(n, j)
  BY <1>2 DEF m
<1> QED BY <1>4, <1>6, <1>7, <1>8

\* An or has the bits of both.
LEMMA OrIs ==
  ASSUME NEW v \in Nat, NEW d \in Nat
  PROVE  /\ Plat!Or(v, d) \in 0..(Pow2[WORD_BITS] - 1)
         /\ \A j \in 0..(WORD_BITS - 1) : Bit(Plat!Or(v, d), j) = 1 <=> Bit(v, j) = 1 \/ Bit(d, j) = 1
<1> DEFINE W == WORD_BITS
           add(i, n) == n + (IF Bit(v, i - 1) + Bit(d, i - 1) > 0 THEN Pow2[i - 1] ELSE 0)
           D(f) == [k \in 0..W |-> IF k = 0 THEN 0 ELSE add(k, f[k - 1])]
           F == CHOOSE f : f = D(f)
           g == [p \in (1..W) \X Nat |-> add(p[1], p[2])]
<1>0. W \in Nat
  BY WordWidth
<1> HIDE DEF W
<1>1. ASSUME NEW i \in 1..W, NEW n \in Nat PROVE add(i, n) \in Nat
  <2>1. i - 1 \in Nat
    BY <1>0
  <2>2. Pow2[i - 1] \in Nat
    BY <2>1, Powers
  <2> QED BY <2>2
<1> HIDE DEF add
<1>2. g \in [(1..W) \X Nat -> Nat]
  BY <1>1
<1>3. PICK h \in [0..W -> Nat] : Iteration(W, 0, g, h)
  <2> HIDE DEF g
  <2> QED BY ONLY <1>2, <1>0, 0 \in Nat, Iterated
<1>4. h = D(h)
  <2>1. h = [i \in 0..W |-> IF i = 0 THEN 0 ELSE g[<<i, h[i - 1]>>]]
    BY <1>3 DEF Iteration
  <2>2. ASSUME NEW i \in 0..W, i /= 0 PROVE g[<<i, h[i - 1]>>] = add(i, h[i - 1])
    <3>1. i \in 1..W /\ i - 1 \in 0..W
      BY <2>2, <1>0
    <3>2. <<i, h[i - 1]>> \in (1..W) \X Nat
      BY <3>1, <1>3
    <3> QED BY <3>2
  <2> HIDE DEF g
  <2> QED BY <2>1, <2>2
<1>5. F = D(F)
  <2> HIDE DEF D
  <2> QED BY <1>4
<1> HIDE DEF F
<1>6. ASSUME NEW i \in 0..W PROVE F[i] = IF i = 0 THEN 0 ELSE add(i, F[i - 1])
  BY <1>5
<1> DEFINE Has(i) == /\ F[i] \in 0..(Pow2[i] - 1)
                     /\ \A j \in 0..(i - 1) : Bit(F[i], j) = 1 <=> Bit(v, j) = 1 \/ Bit(d, j) = 1
           T == {i \in 0..W : Has(i)}
<1>7. 0 \in T
  <2>1. F[0] = 0 /\ 0 \in 0..W
    BY <1>0, <1>6
  <2>2. Pow2[0] = 1
    BY Powers
  <2>3. 0..(0 - 1) = {}
    OBVIOUS
  <2> QED BY <2>1, <2>2, <2>3
<1>8. ASSUME NEW i \in 0..(W - 1), i \in T PROVE i + 1 \in T
  <2>1. i + 1 \in 0..W /\ i + 1 /= 0 /\ (i + 1) - 1 = i /\ i \in Nat
    BY <1>0
  <2> DEFINE b == IF Bit(v, i) + Bit(d, i) > 0 THEN 1 ELSE 0
             m == F[i] + (IF b > 0 THEN Pow2[i] ELSE 0)
  <2>2. F[i + 1] = add(i + 1, F[i])
    BY <1>6, <2>1
  <2>3. F[i + 1] = m
    BY <2>1, <2>2 DEF add
  <2>4. b \in {0, 1}
    OBVIOUS
  <2>5. Bit(v, i) \in {0, 1} /\ Bit(d, i) \in {0, 1}
    BY <2>1, Quotients
  <2>6. b = 1 <=> Bit(v, i) = 1 \/ Bit(d, i) = 1
    BY <2>5
  <2> HIDE DEF b
  <2>7. F[i] \in 0..(Pow2[i] - 1)
    BY <1>8
  <2>8. /\ m \in 0..(Pow2[i + 1] - 1) /\ Bit(m, i) = b
        /\ \A j \in 0..(i - 1) : Bit(m, j) = Bit(F[i], j)
    BY ONLY <2>1, <2>4, <2>7, BitOnTop
  <2> HIDE DEF m
  <2>9. ASSUME NEW j \in 0..i PROVE Bit(F[i + 1], j) = 1 <=> Bit(v, j) = 1 \/ Bit(d, j) = 1
    <3>1. CASE j = i
      BY <2>3, <2>6, <2>8, <3>1
    <3>2. CASE j /= i
      <4>1. j \in 0..(i - 1)
        BY <2>1, <3>2
      <4>2. Bit(F[i], j) = 1 <=> Bit(v, j) = 1 \/ Bit(d, j) = 1
        BY <1>8, <4>1
      <4> QED BY <2>3, <2>8, <4>1, <4>2
    <3> QED BY <3>1, <3>2
  <2> QED BY <2>1, <2>3, <2>8, <2>9
<1>9. Has(W)
  <2> HIDE DEF T
  <2>1. 0..W \subseteq T
    BY ONLY <1>0, <1>7, <1>8, UptoInduction
  <2>2. W \in T
    BY <1>0, <2>1
  <2> QED BY <2>2 DEF T
<1>10. Plat!Or(v, d) = F[W]
  BY PlatPowers DEF Plat!Or, F, add, W
<1> QED BY <1>9, <1>10 DEF W

Drove(v) == \E i \in 1..Len(ch_drivers) : ch_drivers[i] = v

SignalInv ==
  /\ ch_drivers \in Seq(Nat) /\ \A v : v \in ch_since <=> Drove(v)
  /\ \A k \in 0..(WORD_BITS - 1) : Bit(ch_cur, k) = 1 <=> \E v \in ch_driven : Bit(v, k) = 1
QueueKept ==
  /\ ch_q \in Seq({1, 2}) /\ ch_written \in Seq({1, 2}) /\ ch_taken \in Seq({1, 2})
  /\ ch_taken \o ch_q = ch_written /\ Len(ch_q) <= cap
SumInv ==
  /\ ch_total \in Nat
  /\ (ch_u - ch_total) % Pow2[WORD_BITS] = 0 /\ ch_u \in 0..(Pow2[WORD_BITS] - 1)
  /\ (ch_s - ch_total) % Pow2[WORD_BITS] = 0
  /\ ch_s \in (-Pow2[WORD_BITS - 1])..(Pow2[WORD_BITS - 1] - 1)
Until(k) == {i \in DOMAIN ch_lines : ch_lines[i][1] <= k}
TraceInv ==
  /\ ch_wave \in Seq({0, 1}) /\ ch_lines \in Seq((Nat \ {0}) \X {0, 1})
  /\ \A i \in 1..Len(ch_lines) : ch_lines[i][1] <= Len(ch_wave)
  /\ ch_wave /= <<>> => ch_lines /= <<>> /\ ch_lines[1][1] = 1
  /\ \A k \in 1..Len(ch_wave) : Plat!Shown(k) = ch_wave[k]

\* An update resolves what was driven since the one before.
LEMMA Resolved ==
  ASSUME SignalInv, Plat!update PROVE SignalInv'
<1> DEFINE n == Len(ch_drivers)
           one(i, a) == Plat!Or(a, ch_drivers[i])
           D(f) == [i \in 0..n |-> IF i = 0 THEN 0 ELSE one(i, f[i - 1])]
           F == CHOOSE f : f = D(f)
           g == [p \in (1..n) \X Nat |-> one(p[1], p[2])]
<1>0. n \in Nat /\ ch_drivers \in Seq(Nat) /\ \A i \in 1..n : ch_drivers[i] \in Nat
  BY DEF SignalInv
<1> HIDE DEF n
<1>1. ASSUME NEW i \in 1..n, NEW a \in Nat
      PROVE  /\ one(i, a) \in Nat
             /\ \A k \in 0..(WORD_BITS - 1) : Bit(one(i, a), k) = 1 <=> Bit(a, k) = 1 \/ Bit(ch_drivers[i], k) = 1
  <2>1. ch_drivers[i] \in Nat
    BY <1>0
  <2>2. Plat!Or(a, ch_drivers[i]) \in 0..(Pow2[WORD_BITS] - 1)
    BY <2>1, OrIs
  <2>3. 0..(Pow2[WORD_BITS] - 1) \subseteq Nat
    BY WordWidth
  <2> QED BY <2>1, <2>2, <2>3, OrIs
<1> HIDE DEF one
<1>2. g \in [(1..n) \X Nat -> Nat]
  BY <1>1
<1>3. PICK h \in [0..n -> Nat] : Iteration(n, 0, g, h)
  <2> HIDE DEF g
  <2> QED BY ONLY <1>2, <1>0, 0 \in Nat, Iterated
<1>4. h = D(h)
  <2>1. h = [i \in 0..n |-> IF i = 0 THEN 0 ELSE g[<<i, h[i - 1]>>]]
    BY <1>3 DEF Iteration
  <2>2. ASSUME NEW i \in 0..n, i /= 0 PROVE g[<<i, h[i - 1]>>] = one(i, h[i - 1])
    <3>1. i \in 1..n /\ i - 1 \in 0..n
      BY <2>2, <1>0
    <3>2. <<i, h[i - 1]>> \in (1..n) \X Nat
      BY <3>1, <1>3
    <3> QED BY <3>2
  <2> HIDE DEF g
  <2> QED BY <2>1, <2>2
<1>5. F = D(F)
  <2> HIDE DEF D
  <2> QED BY <1>4
<1> HIDE DEF F
<1>6. ASSUME NEW i \in 0..n PROVE F[i] = IF i = 0 THEN 0 ELSE one(i, F[i - 1])
  BY <1>5
<1> DEFINE Has(i) == /\ F[i] \in Nat
                     /\ \A k \in 0..(WORD_BITS - 1) :
                          Bit(F[i], k) = 1 <=> \E j \in 1..i : Bit(ch_drivers[j], k) = 1
           T == {i \in 0..n : Has(i)}
<1>7. 0 \in T
  <2>1. F[0] = 0 /\ 0 \in 0..n
    BY <1>0, <1>6
  <2>2. ASSUME NEW k \in 0..(WORD_BITS - 1) PROVE Bit(0, k) = 0
    <3>1. k \in Nat
      BY WordWidth
    <3>2. Pow2[k] \in Nat \ {0}
      BY <3>1, Powers
    <3>3. 0 \div Pow2[k] = 0
      <4>1. 0 \in Int
        OBVIOUS
      <4>2. 0 \div Pow2[k] \in Int /\ 0 % Pow2[k] \in 0..(Pow2[k] - 1) /\ 0 = Pow2[k] * (0 \div Pow2[k]) + (0 % Pow2[k])
        BY ONLY <3>2, <4>1, DivMod
      <4>3. Pow2[k] * (0 \div Pow2[k]) + (0 % Pow2[k]) = Pow2[k] * 0 + 0 /\ 0 \in 0..(Pow2[k] - 1)
        BY <3>2, <4>2
      <4> QED BY ONLY <3>2, <4>1, <4>2, <4>3, DivModUnique
    <3> QED BY <3>3 DEF Bit
  <2>3. 1..0 = {}
    OBVIOUS
  <2> QED BY <2>1, <2>2, <2>3
<1>8. ASSUME NEW i \in 0..(n - 1), i \in T PROVE i + 1 \in T
  <2>1. i + 1 \in 0..n /\ i + 1 \in 1..n /\ i + 1 /= 0 /\ (i + 1) - 1 = i /\ i \in Nat /\ i \in 0..n
    BY <1>0
  <2>2. F[i + 1] = one(i + 1, F[i]) /\ F[i] \in Nat
    BY <1>6, <1>8, <2>1
  <2>3. F[i + 1] \in Nat /\ \A k \in 0..(WORD_BITS - 1) :
          Bit(F[i + 1], k) = 1 <=> Bit(F[i], k) = 1 \/ Bit(ch_drivers[i + 1], k) = 1
    <3>1. /\ one(i + 1, F[i]) \in Nat
          /\ \A k \in 0..(WORD_BITS - 1) :
               Bit(one(i + 1, F[i]), k) = 1 <=> Bit(F[i], k) = 1 \/ Bit(ch_drivers[i + 1], k) = 1
      BY ONLY <1>1, <2>1, <2>2
    <3>2. F[i + 1] = one(i + 1, F[i])
      BY <2>2
    <3> QED BY ONLY <3>1, <3>2
  <2>4. 1..(i + 1) = (1..i) \cup {i + 1}
    BY <2>1
  <2>5. ASSUME NEW k \in 0..(WORD_BITS - 1)
        PROVE  Bit(F[i + 1], k) = 1 <=> \E j \in 1..(i + 1) : Bit(ch_drivers[j], k) = 1
    <3>1. Bit(F[i], k) = 1 <=> \E j \in 1..i : Bit(ch_drivers[j], k) = 1
      BY <1>8
    <3> QED BY <2>3, <2>4, <3>1
  <2> QED BY <2>1, <2>3, <2>5
<1>9. Has(n)
  <2> HIDE DEF T
  <2>1. 0..n \subseteq T
    BY ONLY <1>0, <1>7, <1>8, UptoInduction
  <2>2. n \in T
    BY <1>0, <2>1
  <2> QED BY <2>2 DEF T
<1>10. ch_cur' = F[n] /\ ch_drivers' = <<>> /\ ch_driven' = ch_since /\ ch_since' = {}
  BY DEF Plat!update, F, one, n
<1>11. \A v : v \in ch_since <=> \E j \in 1..n : ch_drivers[j] = v
  BY DEF SignalInv, Drove, n
<1>12. \A k \in 0..(WORD_BITS - 1) : Bit(ch_cur', k) = 1 <=> \E v \in ch_driven' : Bit(v, k) = 1
  BY <1>9, <1>10, <1>11
<1>13. ch_drivers' \in Seq(Nat) /\ \A v : v \in ch_since' <=> Drove(v)'
  <2>1. ch_drivers' \in Seq(Nat) /\ Len(ch_drivers') = 0
    BY <1>10
  <2>2. 1..0 = {}
    OBVIOUS
  <2> QED BY <1>10, <2>1, <2>2 DEF Drove
<1> QED BY <1>12, <1>13 DEF SignalInv

LEMMA DriveStep == ASSUME SignalInv, NEW v \in Plat!Words, Plat!drive(v) PROVE SignalInv'
<1>1. ch_drivers \in Seq(Nat) /\ v \in Nat
  BY WordWidth DEF SignalInv
<1>2. ch_drivers' = Append(ch_drivers, v) /\ ch_since' = ch_since \cup {v} /\ ch_cur' = ch_cur /\ ch_driven' = ch_driven
  BY DEF Plat!drive
<1>3. /\ ch_drivers' \in Seq(Nat) /\ Len(ch_drivers') = Len(ch_drivers) + 1 /\ Len(ch_drivers) \in Nat
      /\ \A i \in 1..Len(ch_drivers) : ch_drivers'[i] = ch_drivers[i]
      /\ ch_drivers'[Len(ch_drivers) + 1] = v
  BY <1>1, <1>2
<1>4. 1..Len(ch_drivers') = (1..Len(ch_drivers)) \cup {Len(ch_drivers) + 1}
  BY <1>3
<1>5. ASSUME NEW w PROVE w \in ch_since' <=> Drove(w)'
  <2>1. w \in ch_since <=> \E i \in 1..Len(ch_drivers) : ch_drivers[i] = w
    BY DEF SignalInv, Drove
  <2> QED BY <1>2, <1>3, <1>4, <2>1 DEF Drove
<1>6. \A k \in 0..(WORD_BITS - 1) : Bit(ch_cur', k) = 1 <=> \E d \in ch_driven' : Bit(d, k) = 1
  BY <1>2 DEF SignalInv
<1> QED BY <1>3, <1>5, <1>6 DEF SignalInv

LEMMA FifoStep ==
  ASSUME QueueKept, (\E v \in {1, 2} : Plat!write(v)) \/ Plat!read PROVE QueueKept'
<1>0. ch_q \in Seq({1, 2}) /\ ch_written \in Seq({1, 2}) /\ ch_taken \in Seq({1, 2}) /\ ch_taken \o ch_q = ch_written
      /\ Len(ch_q) <= cap /\ Len(ch_q) \in Nat /\ cap \in Nat
  BY TlmAssumption DEF QueueKept
<1>1. ASSUME UNCHANGED <<ch_q, ch_written, ch_taken>> PROVE QueueKept'
  BY <1>1 DEF QueueKept
<1>2. ASSUME NEW v \in {1, 2}, Plat!write(v) PROVE QueueKept'
  <2>1. CASE Len(ch_q) >= cap
    BY <1>1, <1>2, <2>1 DEF Plat!write
  <2>2. CASE ~(Len(ch_q) >= cap)
    <3>1. ch_q' = Append(ch_q, v) /\ ch_written' = Append(ch_written, v) /\ ch_taken' = ch_taken
      BY <1>2, <2>2 DEF Plat!write
    <3>2. Append(ch_q, v) = ch_q \o <<v>> /\ Append(ch_written, v) = ch_written \o <<v>> /\ <<v>> \in Seq({1, 2})
      BY <1>0, AppendIsConcat
    <3>3. (ch_taken \o ch_q) \o <<v>> = ch_taken \o (ch_q \o <<v>>)
      <4>1. ch_taken \in Seq({1, 2}) /\ ch_q \in Seq({1, 2}) /\ <<v>> \in Seq({1, 2})
        BY <1>0, <3>2
      <4> QED BY ONLY <4>1, ConcatAssociative
    <3>4. ch_taken' \o ch_q' = ch_written'
      BY <1>0, <3>1, <3>2, <3>3
    <3>5. ch_q' \in Seq({1, 2}) /\ ch_written' \in Seq({1, 2}) /\ Len(ch_q') = Len(ch_q) + 1
      BY <1>0, <3>1
    <3>6. Len(ch_q') <= cap
      BY <1>0, <2>2, <3>5
    <3> QED BY <1>0, <3>1, <3>4, <3>5, <3>6 DEF QueueKept
  <2> QED BY <2>1, <2>2
<1>3. ASSUME Plat!read PROVE QueueKept'
  <2>1. CASE ch_q = <<>>
    BY <1>1, <1>3, <2>1 DEF Plat!read
  <2>2. CASE ch_q /= <<>>
    <3>1. ch_q' = Tail(ch_q) /\ ch_taken' = Append(ch_taken, ch_q[1]) /\ ch_written' = ch_written
      BY <1>3, <2>2 DEF Plat!read
    <3> DEFINE a == ch_q[1]
               r == Tail(ch_q)
    <3>2. a \in {1, 2} /\ r \in Seq({1, 2}) /\ Len(r) = Len(ch_q) - 1 /\ Len(ch_q) >= 1
          /\ \A i \in 1..Len(r) : r[i] = ch_q[i + 1]
      BY <1>0, <2>2
    <3> HIDE DEF a, r
    <3>3. <<a>> \in Seq({1, 2}) /\ Append(ch_taken, a) = ch_taken \o <<a>> /\ Append(ch_taken, a) \in Seq({1, 2})
      BY <1>0, <3>2, AppendIsConcat
    <3>4. ch_q = <<a>> \o r
      <4>1. /\ <<a>> \o r \in Seq({1, 2}) /\ Len(<<a>> \o r) = Len(<<a>>) + Len(r)
            /\ \A i \in 1..(Len(<<a>>) + Len(r)) :
                 (<<a>> \o r)[i] = IF i <= Len(<<a>>) THEN <<a>>[i] ELSE r[i - Len(<<a>>)]
        BY ONLY <3>2, <3>3, ConcatProperties
      <4>2. Len(<<a>>) = 1 /\ <<a>>[1] = a
        OBVIOUS
      <4>3. Len(ch_q) = Len(<<a>> \o r)
        BY <1>0, <3>2, <4>1, <4>2
      <4>4. ASSUME NEW i \in 1..Len(ch_q) PROVE ch_q[i] = (<<a>> \o r)[i]
        <5>1. CASE i = 1
          BY <3>2, <4>1, <4>2, <4>3, <5>1 DEF a
        <5>2. CASE i /= 1
          <6>1. i - 1 \in 1..Len(r) /\ ~(i <= 1) /\ (i - 1) + 1 = i
            BY <1>0, <3>2, <5>2
          <6> QED BY <3>2, <4>1, <4>2, <4>3, <6>1
        <5> QED BY <5>1, <5>2
      <4> QED BY ONLY <1>0, <4>1, <4>3, <4>4, SeqEqual
    <3>5. (ch_taken \o <<a>>) \o r = ch_taken \o (<<a>> \o r)
      <4>1. ch_taken \in Seq({1, 2}) /\ r \in Seq({1, 2}) /\ <<a>> \in Seq({1, 2})
        BY <1>0, <3>2, <3>3
      <4> QED BY ONLY <4>1, ConcatAssociative
    <3>6. ch_taken' \o ch_q' = ch_written'
      BY <1>0, <3>1, <3>3, <3>4, <3>5 DEF a, r
    <3>7. ch_q' \in Seq({1, 2}) /\ ch_taken' \in Seq({1, 2}) /\ Len(ch_q') <= cap
      <4>1. ch_q' = r /\ ch_taken' = Append(ch_taken, a)
        BY <3>1 DEF a, r
      <4>2. Len(r) <= cap
        BY <1>0, <3>2
      <4> QED BY <3>2, <3>3, <4>1, <4>2
    <3> QED BY <1>0, <3>1, <3>6, <3>7 DEF QueueKept
  <2> QED BY <2>1, <2>2
<1> QED BY <1>2, <1>3

\* What remains of a sum modulo a width.
Wrapped(m, a, t, x, y, d) == (a - t) % m = 0 /\ y = a + x - m * d

LEMMA SameRest ==
  ASSUME NEW m \in Nat \ {0}, NEW a \in Int, NEW t \in Int, NEW x \in Int, NEW y \in Int, NEW d \in Int,
         Wrapped(m, a, t, x, y, d)
  PROVE  (y - (t + x)) % m = 0
<1> DEFINE p == m * (-d)
<1>1. p \in Int /\ p = -(m * d) /\ m * d \in Int
  BY Z3
<1>2. y - (t + x) = (a - t) + p
  BY <1>1 DEF Wrapped
<1>3. ((a - t) + m * (-d)) % m = (a - t) % m
  <2>1. a - t \in Int /\ -d \in Int
    OBVIOUS
  <2> QED BY ONLY <2>1, m \in Nat \ {0}, ModShift
<1> QED BY <1>2, <1>3 DEF Wrapped

LEMMA AddStep ==
  ASSUME SumInv, NEW x \in Plat!Words, Plat!add(x) PROVE SumInv'
<1> DEFINE m == Pow2[WORD_BITS]
           h == Pow2[WORD_BITS - 1]
<1>1. m \in Nat \ {0} /\ h \in Nat \ {0} /\ m = 2 * h /\ x \in Nat /\ x \in Int
  BY WordWidth
<1>2. ch_total \in Nat /\ ch_u \in Int /\ ch_s \in Int /\ ch_u \in 0..(m - 1)
      /\ (ch_u - ch_total) % m = 0 /\ (ch_s - ch_total) % m = 0
  BY WordWidth DEF SumInv
<1>3. ch_u' = (ch_u + (x % m)) % m /\ ch_total' = ch_total + x
      /\ ch_s' = LET v == (ch_s + x) % m IN IF v >= h THEN v - m ELSE v
  BY PlatPowers DEF Plat!add, Plat!ScUint, Plat!ScInt
<1> HIDE DEF m, h
<1>4. ch_total' \in Nat
  BY <1>1, <1>2, <1>3
<1>5. ch_u' \in 0..(m - 1) /\ \E d \in Int : ch_u' = ch_u + x - m * d
  <2> DEFINE q == x \div m
             r == x % m
             y == ch_u + r
             e == y \div m
             f == y % m
  <2>1. q \in Int /\ r \in 0..(m - 1) /\ x = m * q + r
    BY ONLY <1>1, DivMod
  <2> HIDE DEF q, r
  <2>2. y \in Int
    BY <1>1, <1>2, <2>1
  <2> HIDE DEF y
  <2>3. e \in Int /\ f \in 0..(m - 1) /\ y = m * e + f
    BY ONLY <1>1, <2>2, DivMod
  <2> HIDE DEF e, f
  <2>4. ch_u' = f
    BY <1>3 DEF f, y, r
  <2>5. m * (q + e) = m * q + m * e /\ m * q \in Int /\ m * e \in Int /\ q + e \in Int
    BY <1>1, <2>1, <2>3, Z3
  <2>6. y = ch_u + r
    BY DEF y
  <2>7. f = ch_u + x - m * (q + e)
    <3> DEFINE a == m * q
               b == m * e
    <3>1. a \in Int /\ b \in Int /\ x = a + r /\ y = b + f /\ m * (q + e) = a + b /\ y = ch_u + r
      BY <2>1, <2>3, <2>5, <2>6
    <3>2. ch_u \in Int /\ r \in Int /\ f \in Int
      BY <1>1, <1>2, <2>1, <2>3
    <3> HIDE DEF a, b
    <3>3. f = ch_u + x - (a + b)
      BY ONLY <3>1, <3>2
    <3> QED BY <3>1, <3>3
  <2> QED BY <2>3, <2>4, <2>5, <2>7
<1>6. (ch_u' - ch_total') % m = 0
  <2>1. ch_u' \in Int /\ ch_total \in Int
    BY <1>1, <1>2, <1>5
  <2>2. (ch_u' - (ch_total + x)) % m = 0
    <3>1. PICK d \in Int : ch_u' = ch_u + x - m * d
      BY <1>5
    <3>2. m \in Nat \ {0} /\ ch_u \in Int /\ x \in Int /\ d \in Int
      BY <1>1, <1>2
    <3>3. Wrapped(m, ch_u, ch_total, x, ch_u', d)
      BY <1>2, <3>1 DEF Wrapped
    <3> QED BY ONLY <2>1, <3>2, <3>3, SameRest
  <2> QED BY <1>3, <2>2
<1>7. ch_s' \in (-h)..(h - 1) /\ \E d \in Int : ch_s' = ch_s + x - m * d
  <2> DEFINE y == ch_s + x
             e == y \div m
             f == y % m
  <2>1. y \in Int
    BY <1>1, <1>2
  <2> HIDE DEF y
  <2>2. e \in Int /\ f \in 0..(m - 1) /\ y = m * e + f
    BY ONLY <1>1, <2>1, DivMod
  <2>3. ch_s' = IF f >= h THEN f - m ELSE f
    BY <1>3 DEF f, y
  <2>4. y = ch_s + x
    BY DEF y
  <2> HIDE DEF e, f
  <2>5. m * (e + 1) = m * e + m /\ m * e \in Int /\ e + 1 \in Int
    BY <1>1, <2>2, Z3
  <2>6. CASE f >= h
    <3>1. ch_s' = f - m /\ f - m \in (-h)..(h - 1)
      BY <1>1, <2>2, <2>3, <2>6
    <3>2. f - m = ch_s + x - m * (e + 1)
      <4> DEFINE a == m * e
      <4>1. a \in Int /\ y = a + f /\ m * (e + 1) = a + m /\ y = ch_s + x
        BY <2>2, <2>4, <2>5
      <4>2. ch_s \in Int /\ m \in Int /\ f \in Int /\ x \in Int
        BY <1>1, <1>2, <2>2
      <4> HIDE DEF a
      <4>3. f - m = ch_s + x - (a + m)
        BY ONLY <4>1, <4>2
      <4> QED BY <4>1, <4>3
    <3> QED BY <2>5, <3>1, <3>2
  <2>7. CASE ~(f >= h)
    <3>1. ch_s' = f /\ f \in (-h)..(h - 1)
      BY <1>1, <2>2, <2>3, <2>7
    <3>2. f = ch_s + x - m * e
      <4> DEFINE a == m * e
      <4>1. a \in Int /\ y = a + f /\ y = ch_s + x
        BY <2>2, <2>4, <2>5
      <4>2. ch_s \in Int /\ f \in Int /\ x \in Int
        BY <1>1, <1>2, <2>2
      <4> HIDE DEF a
      <4>3. f = ch_s + x - a
        BY ONLY <4>1, <4>2
      <4> QED BY <4>3 DEF a
    <3> QED BY <2>2, <3>1, <3>2
  <2> QED BY <2>6, <2>7
<1>8. (ch_s' - ch_total') % m = 0
  <2>1. ch_s' \in Int /\ ch_total \in Int
    BY <1>1, <1>2, <1>7
  <2>2. (ch_s' - (ch_total + x)) % m = 0
    <3>1. PICK d \in Int : ch_s' = ch_s + x - m * d
      BY <1>7
    <3>2. m \in Nat \ {0} /\ ch_s \in Int /\ x \in Int /\ d \in Int
      BY <1>1, <1>2
    <3>3. Wrapped(m, ch_s, ch_total, x, ch_s', d)
      BY <1>2, <3>1 DEF Wrapped
    <3> QED BY ONLY <2>1, <3>2, <3>3, SameRest
  <2> QED BY <1>3, <2>2
<1> QED BY <1>4, <1>5, <1>6, <1>7, <1>8 DEF SumInv, m, h

\* The greatest of some numbers up to n.
LEMMA MaxIs ==
  ASSUME NEW n \in Nat, NEW S, S \subseteq 1..n, S /= {}
  PROVE  Plat!Max(S) \in S /\ \A y \in S : y <= Plat!Max(S)
<1>1. Plat!Max(S) \in S /\ \A y \in S : Plat!Max(S) >= y
  <2>1. \E x \in S : \A y \in S : x >= y
    BY GreatestNumber
  <2> QED BY <2>1 DEF Plat!Max
<1>2. \A y \in S : y \in Int
  OBVIOUS
<1> QED BY <1>1, <1>2

LEMMA EdgeStep ==
  ASSUME TraceInv, NEW val \in {0, 1}, Plat!edge(val) PROVE TraceInv'
<1> DEFINE n == Len(ch_wave)
           l == Len(ch_lines)
           e == <<n + 1, val>>
           Changes_ == (Nat \ {0}) \X {0, 1}
<1>1. /\ ch_wave \in Seq({0, 1}) /\ ch_lines \in Seq(Changes_) /\ n \in Nat /\ l \in Nat
      /\ DOMAIN ch_lines = 1..l
      /\ \A i \in 1..l : ch_lines[i][1] <= n /\ ch_lines[i][1] \in Nat
      /\ ch_wave /= <<>> => ch_lines /= <<>> /\ ch_lines[1][1] = 1
      /\ \A k \in 1..n : Plat!Shown(k) = ch_wave[k]
  BY DEF TraceInv
<1>2. /\ ch_wave' \in Seq({0, 1}) /\ Len(ch_wave') = n + 1 /\ ch_wave'[n + 1] = val /\ ch_wave' /= <<>>
      /\ \A k \in 1..n : ch_wave'[k] = ch_wave[k]
  BY <1>1 DEF Plat!edge
<1>3. \A k : Plat!Shown(k) = ch_lines[Plat!Max(Until(k))][2]
  BY DEF Plat!Shown, Until
<1>4. \A k : Plat!Shown(k)' = ch_lines'[Plat!Max(Until(k)')][2]
  BY DEF Plat!Shown, Until
<1>5. CASE ch_wave /= <<>> /\ ch_wave[n] = val
  <2>1. ch_lines' = ch_lines
    BY <1>5 DEF Plat!edge
  <2>2. \A k : Until(k)' = Until(k)
    BY <2>1 DEF Until
  <2>3. ASSUME NEW k \in 1..(n + 1) PROVE Plat!Shown(k)' = ch_wave'[k]
    <3>1. CASE k <= n
      <4>1. k \in 1..n
        BY <1>1, <3>1
      <4>2. Plat!Shown(k)' = Plat!Shown(k)
        BY <1>3, <1>4, <2>1, <2>2
      <4> QED BY <1>1, <1>2, <4>1, <4>2
    <3>2. CASE k = n + 1
      <4>1. Until(k) = Until(n)
        <5>1. \A i \in 1..l : ch_lines[i][1] <= k
          BY <1>1, <3>2
        <5> QED BY <1>1, <5>1 DEF Until
      <4>2. n \in 1..n
        BY <1>1, <1>5
      <4>3. Plat!Shown(k)' = Plat!Shown(n)
        BY <1>3, <1>4, <2>1, <2>2, <4>1
      <4> QED BY <1>1, <1>2, <1>5, <3>2, <4>2, <4>3
    <3> QED BY <1>1, <3>1, <3>2
  <2>4. \A i \in 1..l : ch_lines[i][1] <= n + 1
    BY <1>1
  <2> QED BY <1>1, <1>2, <1>5, <2>1, <2>3, <2>4 DEF TraceInv
<1>6. CASE ~(ch_wave /= <<>> /\ ch_wave[n] = val)
  <2>1. ch_lines' = Append(ch_lines, e)
    BY <1>6 DEF Plat!edge
  <2>2. e \in Changes_ /\ e[1] = n + 1 /\ e[2] = val
    BY <1>1
  <2> HIDE DEF e
  <2>3. /\ ch_lines' \in Seq(Changes_) /\ Len(ch_lines') = l + 1 /\ DOMAIN ch_lines' = 1..(l + 1)
        /\ ch_lines'[l + 1] = e /\ ch_lines' /= <<>> /\ \A i \in 1..l : ch_lines'[i] = ch_lines[i]
    BY <1>1, <2>1, <2>2
  <2>4. 1..(l + 1) = (1..l) \cup {l + 1}
    BY <1>1
  <2>5. ch_lines'[1][1] = 1
    <3>1. CASE ch_wave = <<>>
      <4>1. n = 0
        BY <3>1
      <4>2. l = 0
        <5>1. \A i \in 1..l : ch_lines[i][1] \in Nat \ {0} /\ ch_lines[i][1] <= 0
          BY <1>1, <4>1
        <5>2. l /= 0 => 1 \in 1..l
          BY <1>1
        <5> QED BY <5>1, <5>2
      <4>3. ch_lines'[1] = e
        BY <2>3, <4>2
      <4> QED BY <2>2, <4>1, <4>3
    <3>2. CASE ch_wave /= <<>>
      <4>1. 1 \in 1..l
        BY <1>1, <3>2
      <4> QED BY <1>1, <2>3, <3>2, <4>1
    <3> QED BY <3>1, <3>2
  <2>6. \A i \in 1..(l + 1) : ch_lines'[i][1] <= n + 1
    <3> SUFFICES ASSUME NEW i \in 1..(l + 1) PROVE ch_lines'[i][1] <= n + 1
      OBVIOUS
    <3>1. CASE i = l + 1
      BY <1>1, <2>2, <2>3, <3>1
    <3>2. CASE i \in 1..l
      <4>1. ch_lines'[i] = ch_lines[i] /\ ch_lines[i][1] <= n /\ ch_lines[i][1] \in Nat
        BY <1>1, <2>3, <3>2
      <4> QED BY <1>1, <4>1
    <3> QED BY <2>4, <3>1, <3>2
  <2>7. ASSUME NEW k \in 1..(n + 1) PROVE Plat!Shown(k)' = ch_wave'[k]
    <3>1. CASE k <= n
      <4>1. k \in 1..n /\ n /= 0
        BY <1>1, <3>1
      <4>2. Until(k)' = Until(k)
        <5>1. ~(n + 1 <= k)
          BY <1>1, <3>1
        <5> QED BY <1>1, <2>2, <2>3, <2>4, <5>1 DEF Until
      <4>3. Until(k) \subseteq 1..l /\ Until(k) /= {}
        <5>1. 1 \in 1..l /\ ch_lines[1][1] = 1
          BY <1>1, <4>1
        <5>2. 1 \in Until(k)
          BY <1>1, <4>1, <5>1 DEF Until
        <5> QED BY <1>1, <5>2 DEF Until
      <4>4. Plat!Max(Until(k)) \in 1..l
        BY <1>1, <4>3, MaxIs
      <4>5. Plat!Shown(k)' = Plat!Shown(k)
        BY <1>3, <1>4, <2>3, <4>2, <4>4
      <4> QED BY <1>1, <1>2, <4>1, <4>5
    <3>2. CASE k = n + 1
      <4>1. Until(k)' = 1..(l + 1)
        BY <2>3, <2>6, <3>2 DEF Until
      <4>2. Plat!Max(1..(l + 1)) = l + 1
        <5> DEFINE S == 1..(l + 1)
        <5>1. l + 1 \in Nat /\ S \subseteq 1..(l + 1) /\ S /= {} /\ l + 1 \in S
          BY <1>1
        <5> HIDE DEF S
        <5>2. Plat!Max(S) \in S /\ l + 1 <= Plat!Max(S)
          BY ONLY <5>1, MaxIs
        <5>3. Plat!Max(S) \in 1..(l + 1)
          BY <5>2 DEF S
        <5>4. Plat!Max(S) = l + 1
          BY <1>1, <5>2, <5>3
        <5> QED BY <5>4 DEF S
      <4>3. Plat!Shown(k)' = e[2]
        BY <1>4, <2>3, <4>1, <4>2
      <4> QED BY <1>2, <2>2, <3>2, <4>3
    <3> QED BY <1>1, <3>1, <3>2
  <2> QED BY <1>2, <2>3, <2>5, <2>6, <2>7 DEF TraceInv
<1> QED BY <1>5, <1>6

ChanInv == SignalInv /\ QueueKept /\ SumInv /\ TraceInv

LEMMA ChanBegins == Plat!ChanInit => ChanInv
<1> SUFFICES ASSUME Plat!ChanInit PROVE ChanInv
  OBVIOUS
<1>1. /\ ch_drivers = <<>> /\ ch_cur = 0 /\ ch_since = {} /\ ch_driven = {}
      /\ ch_q = <<>> /\ ch_written = <<>> /\ ch_taken = <<>>
      /\ ch_u = 0 /\ ch_s = 0 /\ ch_total = 0 /\ ch_lines = <<>> /\ ch_wave = <<>>
  BY DEF Plat!ChanInit
<1>2. Len(<<>>) = 0 /\ 1..0 = {} /\ \A S : <<>> \in Seq(S)
  BY EmptySeq
<1>3. \A k \in 0..(WORD_BITS - 1) : Bit(0, k) = 0
  <2> SUFFICES ASSUME NEW k \in 0..(WORD_BITS - 1) PROVE Bit(0, k) = 0
    OBVIOUS
  <2>1. Pow2[k] \in Nat \ {0}
    BY WordWidth, Powers
  <2>2. 0 \div Pow2[k] = 0
    BY <2>1, Z3
  <2> QED BY <2>2 DEF Bit
<1>4. SignalInv
  BY <1>1, <1>2, <1>3 DEF SignalInv, Drove
<1>5. QueueKept
  <2>1. <<>> \o <<>> = <<>>
    BY <1>2, ConcatEmptySeq
  <2> QED BY <1>1, <1>2, <2>1, TlmAssumption DEF QueueKept
<1>6. SumInv
  <2>1. 0 - 0 = 0 /\ 0 % Pow2[WORD_BITS] = 0
    BY WordWidth, Z3
  <2>2. 0 \in 0..(Pow2[WORD_BITS] - 1) /\ 0 \in (-Pow2[WORD_BITS - 1])..(Pow2[WORD_BITS - 1] - 1)
    BY WordWidth
  <2> QED BY <1>1, <2>1, <2>2 DEF SumInv
<1>7. TraceInv
  BY <1>1, <1>2 DEF TraceInv
<1> QED BY <1>4, <1>5, <1>6, <1>7 DEF ChanInv

LEMMA ChanSteps == ASSUME ChanInv, [Plat!ChanNext]_(Plat!chan_vars) PROVE ChanInv'
<1>1. ASSUME UNCHANGED Plat!busVars PROVE SignalInv'
  BY <1>1 DEF Plat!busVars, ChanInv, SignalInv, Drove
<1>2. ASSUME UNCHANGED Plat!fifoVars PROVE QueueKept'
  BY <1>2 DEF Plat!fifoVars, ChanInv, QueueKept
<1>3. ASSUME UNCHANGED Plat!intVars PROVE SumInv'
  BY <1>3 DEF Plat!intVars, ChanInv, SumInv
<1>4. ASSUME UNCHANGED Plat!vcdVars PROVE TraceInv'
  BY <1>4 DEF Plat!vcdVars, ChanInv, TraceInv, Plat!Shown
<1>5. CASE ((\E v \in Plat!Words : Plat!drive(v)) \/ Plat!update)
           /\ UNCHANGED <<Plat!fifoVars, Plat!intVars, Plat!vcdVars>>
  BY <1>2, <1>3, <1>4, <1>5, DriveStep, Resolved DEF ChanInv
<1>6. CASE ((\E v \in {1, 2} : Plat!write(v)) \/ Plat!read)
           /\ UNCHANGED <<Plat!busVars, Plat!intVars, Plat!vcdVars>>
  BY <1>1, <1>3, <1>4, <1>6, FifoStep DEF ChanInv
<1>7. CASE (\E x \in Plat!Words : Plat!add(x)) /\ UNCHANGED <<Plat!busVars, Plat!fifoVars, Plat!vcdVars>>
  BY <1>1, <1>2, <1>4, <1>7, AddStep DEF ChanInv
<1>8. CASE (\E v \in {0, 1} : Plat!edge(v)) /\ UNCHANGED <<Plat!busVars, Plat!fifoVars, Plat!intVars>>
  BY <1>1, <1>2, <1>3, <1>8, EdgeStep DEF ChanInv
<1>9. CASE UNCHANGED Plat!chan_vars
  BY <1>1, <1>2, <1>3, <1>4, <1>9 DEF Plat!chan_vars, ChanInv
<1> QED BY <1>5, <1>6, <1>7, <1>8, <1>9 DEF Plat!ChanNext

LEMMA NothingLost == ChanInv => Plat!ChannelsKeep
<1> SUFFICES ASSUME ChanInv PROVE Plat!ChannelsKeep
  OBVIOUS
<1>1. \A k \in 0..(WORD_BITS - 1) : Plat!Bit(ch_cur, k) = 1 <=> \E v \in ch_driven : Plat!Bit(v, k) = 1
  BY PlatPowers DEF ChanInv, SignalInv
<1>2. ch_taken \o ch_q = ch_written /\ Len(ch_q) <= cap
  BY DEF ChanInv, QueueKept
<1>3. /\ (ch_u - ch_total) % Plat!Pow2[WORD_BITS] = 0 /\ ch_u \in Plat!Words
      /\ (ch_s - ch_total) % Plat!Pow2[WORD_BITS] = 0
      /\ ch_s \in (-Plat!Pow2[WORD_BITS - 1])..(Plat!Pow2[WORD_BITS - 1] - 1)
  BY PlatPowers, WordWidth DEF ChanInv, SumInv
<1>4. \A k \in DOMAIN ch_wave : Plat!Shown(k) = ch_wave[k]
  <2>1. ch_wave \in Seq({0, 1}) /\ \A k \in 1..Len(ch_wave) : Plat!Shown(k) = ch_wave[k]
    BY DEF ChanInv, TraceInv
  <2>2. DOMAIN ch_wave = 1..Len(ch_wave)
    BY <2>1, LenProperties
  <2> QED BY <2>1, <2>2
<1> QED BY <1>1, <1>2, <1>3, <1>4 DEF Plat!ChannelsKeep

\* cpu-model-systemc-tlm-lab 3 to 5: what was driven, written, added and traced is what
\* is read, whatever the width.
THEOREM ChannelsHold == Plat!ChanSpec => []Plat!ChannelsKeep
<1> QED BY ChanBegins, ChanSteps, NothingLost, PTL DEF Plat!ChanSpec

\* systemc-tlm-lab 1 to 6, 8, 9: jobs run when they are due and once, channels keep what
\* they are given, and each request is answered in time.
THEOREM TransfersDone == Plat!EvqSpec /\ Plat!ChanSpec /\ Plat!TranSpec => []TransfersComplete
  BY RunInTime, ChannelsHold, AnswerInTime, PTL DEF TransfersComplete

------------------------------------------------------------------------------
(***************************************************************************)
(* Memories behind an address decoder.                                     *)
(***************************************************************************)
Fields == [base : Nat, span : Nat, bytes : Nat]
Mapped == \A r \in DOMAIN Routes : Routes[r] \in Fields /\ Routes[r].bytes <= Routes[r].span
Apart ==
  \A r, s \in DOMAIN Routes : r /= s =>
    \/ Routes[r].base + Routes[r].span <= Routes[s].base
    \/ Routes[s].base + Routes[s].span <= Routes[r].base

LEMMA RoutesAre == Mapped /\ Apart /\ DOMAIN Routes \subseteq Nat /\ 1 \in DOMAIN Routes
<1>1. Routes \in Seq(Fields) /\ DOMAIN Routes = 1..Len(Routes) /\ Len(Routes) \in Nat
  BY TlmAssumption DEF Fields
<1>2. Mapped
  BY <1>1, TlmAssumption DEF Mapped
<1>3. Apart
  <2> SUFFICES ASSUME NEW r \in DOMAIN Routes, NEW s \in DOMAIN Routes, r /= s
               PROVE  \/ Routes[r].base + Routes[r].span <= Routes[s].base
                      \/ Routes[s].base + Routes[s].span <= Routes[r].base
    BY DEF Apart
  <2>1. r < s \/ s < r
    BY <1>1
  <2> QED BY <2>1, TlmAssumption
<1>4. Len(Routes) /= 0
  BY <1>1, TlmAssumption, EmptySeq
<1> QED BY <1>1, <1>2, <1>3, <1>4

\* Every memory has what was written last at its addresses.
Memories ==
  /\ DOMAIN am_m = DOMAIN Routes /\ DOMAIN am_wrote \subseteq Nat
  /\ am_m = [r \in DOMAIN Routes |-> am_m[r]]
  /\ \A r \in DOMAIN Routes : am_m[r] = [a \in 0..(Routes[r].bytes - 1) |-> am_m[r][a]]
  /\ \A r \in DOMAIN Routes : \A a \in 0..(Routes[r].bytes - 1) :
       am_m[r][a] = Plat!Written(Routes[r].base + a)

\* The call that was made last has been answered as it should be.
Inside(addr, n) ==
  \E r \in DOMAIN Routes : addr >= Routes[r].base /\ addr + n <= Routes[r].base + Routes[r].bytes
Answered ==
  /\ am_p.cmd /= "none" => (am_p.resp = "OK" <=> Inside(am_p.addr, Len(am_p.data)))
  /\ am_p.cmd = "READ" /\ am_p.resp = "OK" => am_p.data = am_sent

AddrInv == Memories /\ Answered

LEMMA AddrBegins == Plat!AddrInit => AddrInv
<1> SUFFICES ASSUME Plat!AddrInit PROVE AddrInv
  OBVIOUS
<1>1. Answered
  BY DEF Plat!AddrInit, Answered
<1>2. am_m = [r \in DOMAIN Routes |-> [a \in 0..(Routes[r].bytes - 1) |-> 0]]
  BY DEF Plat!AddrInit, Plat!Zero
<1>3. (\A a : Plat!Written(a) = 0) /\ DOMAIN am_wrote \subseteq Nat
  BY DEF Plat!AddrInit, Plat!Written, Plat!Zero
<1> QED BY <1>1, <1>2, <1>3 DEF AddrInv, Memories

\* Only one route has an address.
LEMMA OneRoute ==
  ASSUME NEW addr \in Nat, NEW r \in Plat!Decoded(addr), NEW s \in Plat!Decoded(addr)
  PROVE  r = s
<1>1. r \in DOMAIN Routes /\ s \in DOMAIN Routes /\ Routes[r] \in Fields /\ Routes[s] \in Fields
  BY RoutesAre DEF Plat!Decoded, Mapped
<1>2. /\ addr >= Routes[r].base /\ addr < Routes[r].base + Routes[r].span
      /\ addr >= Routes[s].base /\ addr < Routes[s].base + Routes[s].span
  BY DEF Plat!Decoded
<1>3. Routes[r].base \in Nat /\ Routes[r].span \in Nat /\ Routes[s].base \in Nat /\ Routes[s].span \in Nat
  BY <1>1 DEF Fields
<1>4. r /= s => \/ Routes[r].base + Routes[r].span <= Routes[s].base
                \/ Routes[s].base + Routes[s].span <= Routes[r].base
  BY <1>1, RoutesAre DEF Apart
<1> QED BY <1>2, <1>3, <1>4

LEMMA InsideIs ==
  ASSUME NEW addr \in Nat, NEW n \in Nat \ {0}, NEW r \in Plat!Decoded(addr)
  PROVE  Inside(addr, n) <=> (addr - Routes[r].base) + n <= Routes[r].bytes
<1>1. r \in DOMAIN Routes /\ Routes[r] \in Fields /\ addr >= Routes[r].base
  BY RoutesAre DEF Plat!Decoded, Mapped
<1>2. Routes[r].base \in Nat /\ Routes[r].bytes \in Nat
  BY <1>1 DEF Fields
<1>3. ASSUME (addr - Routes[r].base) + n <= Routes[r].bytes PROVE Inside(addr, n)
  <2>1. addr + n <= Routes[r].base + Routes[r].bytes
    BY <1>2, <1>3
  <2> QED BY <1>1, <2>1 DEF Inside
<1>4. ASSUME Inside(addr, n) PROVE (addr - Routes[r].base) + n <= Routes[r].bytes
  <2>1. PICK s \in DOMAIN Routes : addr >= Routes[s].base /\ addr + n <= Routes[s].base + Routes[s].bytes
    BY <1>4 DEF Inside
  <2>2. Routes[s].base \in Nat /\ Routes[s].bytes \in Nat /\ Routes[s].span \in Nat
        /\ Routes[s].bytes <= Routes[s].span
    BY RoutesAre DEF Mapped, Fields
  <2>3. addr < Routes[s].base + Routes[s].span
    BY <2>1, <2>2
  <2>4. s \in Plat!Decoded(addr)
    BY <2>1, <2>3 DEF Plat!Decoded
  <2>5. r = s
    BY <2>4, OneRoute
  <2> QED BY <1>2, <2>1, <2>5
<1> QED BY <1>3, <1>4

LEMMA NothingInside ==
  ASSUME NEW addr \in Nat, NEW n \in Nat \ {0}, Plat!Decoded(addr) = {}
  PROVE  ~Inside(addr, n)
<1> SUFFICES ASSUME Inside(addr, n) PROVE FALSE
  OBVIOUS
<1>1. PICK s \in DOMAIN Routes : addr >= Routes[s].base /\ addr + n <= Routes[s].base + Routes[s].bytes
  BY DEF Inside
<1>2. Routes[s].base \in Nat /\ Routes[s].bytes \in Nat /\ Routes[s].span \in Nat
      /\ Routes[s].bytes <= Routes[s].span
  BY RoutesAre DEF Mapped, Fields
<1>3. addr < Routes[s].base + Routes[s].span
  BY <1>1, <1>2
<1> QED BY <1>1, <1>3 DEF Plat!Decoded

\* Bytes d that are written at the address where a route has them, and remembered there.
LEMMA WriteKeeps ==
  ASSUME Memories, NEW r \in DOMAIN Routes, NEW at \in Nat, NEW n \in Nat, NEW d,
         at + n <= Routes[r].bytes,
         am_m' = [am_m EXCEPT ![r] = [b \in DOMAIN @ |-> IF b \in at..(at + n - 1)
                                                        THEN d[b - at + 1] ELSE @[b]]],
         NEW addr \in Nat, addr = Routes[r].base + at,
         am_wrote' = [a \in DOMAIN am_wrote \cup addr..(addr + n - 1) |->
                        IF a >= addr /\ a < addr + n THEN d[a - addr + 1] ELSE am_wrote[a]]
  PROVE  Memories'
<1> DEFINE New(b) == IF b \in at..(at + n - 1) THEN d[b - at + 1] ELSE am_m[r][b]
<1>1. Routes[r].base \in Nat /\ Routes[r].bytes \in Nat /\ Routes[r].span \in Nat /\ Routes[r].bytes <= Routes[r].span
  BY RoutesAre DEF Mapped, Fields
<1>2. DOMAIN am_m[r] = 0..(Routes[r].bytes - 1)
  BY DEF Memories
<1>3. am_m' = [am_m EXCEPT ![r] = [b \in 0..(Routes[r].bytes - 1) |-> New(b)]]
  BY <1>2
<1> HIDE DEF New
<1>4. am_m'[r] = [b \in 0..(Routes[r].bytes - 1) |-> New(b)] /\ \A s \in DOMAIN Routes : s /= r => am_m'[s] = am_m[s]
  BY <1>3 DEF Memories
<1>5. DOMAIN am_m' = DOMAIN Routes /\ DOMAIN am_wrote' \subseteq Nat /\ am_m' = [s \in DOMAIN Routes |-> am_m'[s]]
  <2>1. DOMAIN am_m' = DOMAIN Routes /\ am_m' = [s \in DOMAIN Routes |-> am_m'[s]]
    BY <1>3 DEF Memories
  <2>2. DOMAIN am_wrote' = DOMAIN am_wrote \cup addr..(addr + n - 1) /\ addr..(addr + n - 1) \subseteq Nat
    BY <1>1
  <2> QED BY <2>1, <2>2 DEF Memories
<1>6. \A s \in DOMAIN Routes : am_m'[s] = [a \in 0..(Routes[s].bytes - 1) |-> am_m'[s][a]]
  BY <1>4 DEF Memories
<1>7. ASSUME NEW a \in Nat
      PROVE  Plat!Written(a)' = IF a >= addr /\ a < addr + n THEN d[a - addr + 1] ELSE Plat!Written(a)
  <2>1. CASE a >= addr /\ a < addr + n
    <3>1. a \in DOMAIN am_wrote \cup addr..(addr + n - 1)
      BY <2>1
    <3>2. a \in DOMAIN am_wrote'
      BY <3>1
    <3>3. am_wrote'[a] = d[a - addr + 1]
      BY <2>1, <3>1
    <3> QED BY <2>1, <3>2, <3>3 DEF Plat!Written
  <2>2. CASE ~(a >= addr /\ a < addr + n)
    <3>1. a \in DOMAIN am_wrote' <=> a \in DOMAIN am_wrote
      BY <2>2
    <3>2. a \in DOMAIN am_wrote => am_wrote'[a] = am_wrote[a]
      BY <2>2
    <3>3. Plat!Written(a)' = Plat!Written(a)
      BY <3>1, <3>2 DEF Plat!Written
    <3> QED BY <2>2, <3>3
  <2> QED BY <2>1, <2>2
<1>8. ASSUME NEW s \in DOMAIN Routes, NEW a \in 0..(Routes[s].bytes - 1)
      PROVE  am_m'[s][a] = Plat!Written(Routes[s].base + a)'
  <2>1. Routes[s].base \in Nat /\ Routes[s].bytes \in Nat /\ Routes[s].span \in Nat /\ Routes[s].bytes <= Routes[s].span
    BY RoutesAre DEF Mapped, Fields
  <2>2. am_m[s][a] = Plat!Written(Routes[s].base + a)
    BY DEF Memories
  <2>3. Routes[s].base + a \in Nat
    BY <2>1
  <2>4. CASE s = r
    <3>1. am_m'[s][a] = New(a)
      BY <1>4, <2>4
    <3>2. CASE a >= at /\ a < at + n
      <4>1. a \in at..(at + n - 1) /\ Routes[s].base + a >= addr /\ Routes[s].base + a < addr + n
            /\ (Routes[s].base + a) - addr + 1 = a - at + 1
        BY <1>1, <2>1, <2>4, <3>2
      <4>2. New(a) = d[a - at + 1]
        BY <4>1 DEF New
      <4> QED BY <1>7, <2>3, <3>1, <4>1, <4>2
    <3>3. CASE ~(a >= at /\ a < at + n)
      <4>1. a \notin at..(at + n - 1) /\ ~(Routes[s].base + a >= addr /\ Routes[s].base + a < addr + n)
        BY <1>1, <2>1, <2>4, <3>3
      <4>2. New(a) = am_m[r][a]
        BY <4>1 DEF New
      <4> QED BY <1>7, <2>2, <2>3, <2>4, <3>1, <4>1, <4>2
    <3> QED BY <3>2, <3>3
  <2>5. CASE s /= r
    <3>1. \/ Routes[r].base + Routes[r].span <= Routes[s].base
          \/ Routes[s].base + Routes[s].span <= Routes[r].base
      BY <2>5, RoutesAre DEF Apart
    <3>2. ~(Routes[s].base + a >= addr /\ Routes[s].base + a < addr + n)
      BY <1>1, <2>1, <3>1
    <3> QED BY <1>4, <1>7, <2>2, <2>3, <2>5, <3>2
  <2> QED BY <2>4, <2>5
<1> QED BY <1>5, <1>6, <1>8 DEF Memories

LEMMA MemoriesStay ==
  ASSUME Memories, UNCHANGED <<am_m, am_wrote>> PROVE Memories'
  BY DEF Memories, Plat!Written

LEMMA RouteKeeps ==
  ASSUME AddrInv, NEW a \in Addresses, NEW n \in Spans, NEW v, NEW cmd \in {"READ", "WRITE"},
         Plat!route([cmd |-> cmd, addr |-> a, data |-> [i \in 1..n |-> v], resp |-> "INCOMPLETE"])
  PROVE  AddrInv'
<1> DEFINE data == [i \in 1..n |-> v]
           x == [cmd |-> cmd, addr |-> a, data |-> data, resp |-> "INCOMPLETE"]
<1>1. a \in Nat /\ n \in Nat \ {0} /\ Len(data) = n /\ DOMAIN data = 1..n
  BY TlmAssumption
<1>2. x.cmd = cmd /\ x.addr = a /\ x.data = data
  OBVIOUS
<1>3. Plat!route(x)
  OBVIOUS
<1> HIDE DEF data, x
<1>4. am_sent' = [i \in 1..n |-> Plat!Written(a + i - 1)]
  BY <1>1, <1>2, <1>3 DEF Plat!route
<1>5. CASE Plat!Decoded(a) = {}
  <2>1. am_p' = [x EXCEPT !.resp = "ADDRESS_ERROR"] /\ UNCHANGED <<am_m, am_wrote>>
    BY <1>2, <1>3, <1>5 DEF Plat!route
  <2>2. am_p'.cmd = cmd /\ am_p'.addr = a /\ am_p'.data = data /\ am_p'.resp = "ADDRESS_ERROR"
    BY <2>1 DEF x
  <2>3. ~Inside(a, n)
    BY <1>1, <1>5, NothingInside
  <2>4. Answered'
    BY <1>1, <1>4, <2>2, <2>3 DEF Answered, Inside
  <2> QED BY <2>1, <2>4, MemoriesStay DEF AddrInv
<1>6. CASE Plat!Decoded(a) /= {}
  <2> DEFINE r == CHOOSE s \in Plat!Decoded(a) : \A t \in Plat!Decoded(a) : s <= t
             at == a - Routes[r].base
  <2>1. r \in Plat!Decoded(a)
    <3>1. PICK s \in Plat!Decoded(a) : TRUE
      BY <1>6
    <3>2. \A t \in Plat!Decoded(a) : s <= t
      <4> SUFFICES ASSUME NEW t \in Plat!Decoded(a) PROVE s <= t
        OBVIOUS
      <4>1. s = t
        BY <1>1, OneRoute
      <4>2. s \in Nat
        BY RoutesAre DEF Plat!Decoded
      <4> QED BY <4>1, <4>2
    <3> QED BY <3>2
  <2>2. /\ am_m' = Plat!Accessed(r, at, x).mem /\ am_p' = Plat!Accessed(r, at, x).pay
        /\ am_wrote' = IF x.cmd = "WRITE" /\ Plat!Accessed(r, at, x).pay.resp = "OK"
                       THEN [b \in DOMAIN am_wrote \cup x.addr..(x.addr + Len(x.data) - 1) |->
                               IF b >= x.addr /\ b < x.addr + Len(x.data) THEN x.data[b - x.addr + 1]
                               ELSE am_wrote[b]]
                       ELSE am_wrote
    BY <1>2, <1>3, <1>6 DEF Plat!route
  <2> HIDE DEF r, at
  <2>3. r \in DOMAIN Routes /\ Routes[r] \in Fields /\ a >= Routes[r].base
    BY <2>1, RoutesAre DEF Plat!Decoded, Mapped
  <2>4. Routes[r].base \in Nat /\ Routes[r].bytes \in Nat
    BY <2>3 DEF Fields
  <2>5. at \in Nat /\ a = Routes[r].base + at
    BY <1>1, <2>3, <2>4 DEF at
  <2>6. Inside(a, n) <=> at + n <= Routes[r].bytes
    BY <1>1, <2>1, InsideIs DEF at
  <2>7. Plat!Fits(r, at, Len(x.data)) <=> at + n <= Routes[r].bytes
    BY <1>1, <1>2 DEF Plat!Fits, Plat!inrange
  <2>8. CASE ~(at + n <= Routes[r].bytes)
    <3>1. Plat!Accessed(r, at, x) = [mem |-> am_m, pay |-> [x EXCEPT !.resp = "ADDRESS_ERROR"]]
      BY <2>7, <2>8 DEF Plat!Accessed
    <3>2. am_m' = am_m /\ am_p' = [x EXCEPT !.resp = "ADDRESS_ERROR"]
      BY <2>2, <3>1
    <3>3. am_p'.cmd = cmd /\ am_p'.addr = a /\ am_p'.data = data /\ am_p'.resp = "ADDRESS_ERROR"
      BY <3>2 DEF x
    <3>4. am_wrote' = am_wrote
      BY <2>2, <3>2, <3>3
    <3>5. Answered'
      BY <1>1, <1>4, <2>6, <2>8, <3>3 DEF Answered, Inside
    <3> QED BY <3>2, <3>4, <3>5, MemoriesStay DEF AddrInv
  <2>9. CASE at + n <= Routes[r].bytes /\ cmd = "WRITE"
    <3>1. Plat!Accessed(r, at, x) =
            [mem |-> [am_m EXCEPT ![r] = [b \in DOMAIN @ |-> IF b \in at..(at + n - 1)
                                                            THEN data[b - at + 1] ELSE @[b]]],
             pay |-> [x EXCEPT !.resp = "OK"]]
      BY <1>1, <1>2, <2>7, <2>9 DEF Plat!Accessed
    <3>2. /\ am_m' = [am_m EXCEPT ![r] = [b \in DOMAIN @ |-> IF b \in at..(at + n - 1)
                                                            THEN data[b - at + 1] ELSE @[b]]]
          /\ am_p' = [x EXCEPT !.resp = "OK"]
      BY <2>2, <3>1
    <3>3. am_p'.cmd = cmd /\ am_p'.addr = a /\ am_p'.data = data /\ am_p'.resp = "OK"
      BY <3>2 DEF x
    <3>4. am_wrote' = [b \in DOMAIN am_wrote \cup a..(a + n - 1) |->
                         IF b >= a /\ b < a + n THEN data[b - a + 1] ELSE am_wrote[b]]
      BY <1>1, <1>2, <2>2, <2>9, <3>2, <3>3
    <3>5. Memories /\ r \in DOMAIN Routes /\ at \in Nat /\ n \in Nat /\ a \in Nat
          /\ at + n <= Routes[r].bytes /\ a = Routes[r].base + at
      BY <1>1, <2>3, <2>5, <2>9 DEF AddrInv
    <3>6. Memories'
      BY ONLY <3>2, <3>4, <3>5, WriteKeeps
    <3>7. Answered'
      BY <1>1, <1>4, <2>6, <2>9, <3>3 DEF Answered, Inside
    <3> QED BY <3>6, <3>7 DEF AddrInv
  <2>10. CASE at + n <= Routes[r].bytes /\ cmd = "READ"
    <3>1. Plat!Accessed(r, at, x) =
            [mem |-> am_m, pay |-> [x EXCEPT !.data = [i \in DOMAIN @ |-> am_m[r][at + i - 1]], !.resp = "OK"]]
      BY <1>1, <1>2, <2>7, <2>10 DEF Plat!Accessed
    <3>2. am_m' = am_m /\ am_p' = [x EXCEPT !.data = [i \in DOMAIN @ |-> am_m[r][at + i - 1]], !.resp = "OK"]
      BY <2>2, <3>1
    <3>3. am_p'.cmd = cmd /\ am_p'.addr = a /\ am_p'.resp = "OK"
          /\ am_p'.data = [i \in 1..n |-> am_m[r][at + i - 1]]
      BY <1>1, <3>2 DEF x
    <3>4. am_wrote' = am_wrote
      BY <1>2, <2>2, <2>10
    <3>5. ASSUME NEW i \in 1..n PROVE am_m[r][at + i - 1] = Plat!Written(a + i - 1)
      <4>1. at + i - 1 \in 0..(Routes[r].bytes - 1) /\ Routes[r].base + (at + i - 1) = a + i - 1
        BY <1>1, <2>4, <2>5, <2>10
      <4>2. am_m[r][at + i - 1] = Plat!Written(Routes[r].base + (at + i - 1))
        BY <2>3, <4>1 DEF AddrInv, Memories
      <4> QED BY <4>1, <4>2
    <3>6. am_p'.data = am_sent'
      BY <1>4, <3>3, <3>5
    <3>7. Len(am_p'.data) = n
      BY <1>1, <3>3
    <3>8. Answered'
      BY <1>4, <2>6, <2>10, <3>3, <3>6, <3>7 DEF Answered, Inside
    <3> QED BY <3>2, <3>4, <3>8, MemoriesStay DEF AddrInv
  <2> QED BY <2>8, <2>9, <2>10
<1> QED BY <1>5, <1>6

LEMMA AddrSteps == AddrInv /\ [Plat!AddrNext]_(Plat!addr_vars) => AddrInv'
<1> SUFFICES ASSUME AddrInv, [Plat!AddrNext]_(Plat!addr_vars) PROVE AddrInv'
  OBVIOUS
<1>1. ASSUME NEW a \in Addresses, NEW n \in Spans, NEW v \in Payloads, NEW cmd \in {"READ", "WRITE"},
             Plat!route([cmd |-> cmd, addr |-> a, data |-> [i \in 1..n |-> v], resp |-> "INCOMPLETE"])
      PROVE  AddrInv'
  BY <1>1, RouteKeeps
<1>2. ASSUME NEW a \in DOMAIN am_m[1], NEW v \in Payloads, Plat!dmi_write(a, v) PROVE AddrInv'
  <2> DEFINE d == [i \in 1..1 |-> v]
             addr == Routes[1].base + a
  <2>1. 1 \in DOMAIN Routes /\ Routes[1].base \in Nat /\ Routes[1].bytes \in Nat
    BY RoutesAre DEF Mapped, Fields
  <2>2. DOMAIN am_m[1] = 0..(Routes[1].bytes - 1) /\ a \in Nat /\ a + 1 <= Routes[1].bytes /\ addr \in Nat
    BY <2>1 DEF AddrInv, Memories
  <2>3. am_m' = [am_m EXCEPT ![1] = [b \in DOMAIN @ |-> IF b \in a..(a + 1 - 1) THEN d[b - a + 1] ELSE @[b]]]
    <3>1. am_m' = [am_m EXCEPT ![1] = [am_m[1] EXCEPT ![a] = v]]
      BY <1>2 DEF Plat!dmi_write
    <3>2. am_m[1] = [b \in DOMAIN am_m[1] |-> am_m[1][b]]
      BY <2>1, <2>2 DEF AddrInv, Memories
    <3>3. \A b \in DOMAIN am_m[1] : (b \in a..(a + 1 - 1) <=> b = a) /\ (b = a => d[b - a + 1] = v)
      BY <2>2
    <3> HIDE DEF d
    <3>4. [am_m[1] EXCEPT ![a] = v] = [b \in DOMAIN am_m[1] |-> IF b \in a..(a + 1 - 1) THEN d[b - a + 1] ELSE am_m[1][b]]
      BY <3>2, <3>3
    <3> QED BY <3>1, <3>4
  <2>4. am_wrote' = [b \in DOMAIN am_wrote \cup addr..(addr + 1 - 1) |->
                       IF b >= addr /\ b < addr + 1 THEN d[b - addr + 1] ELSE am_wrote[b]]
    <3>1. am_wrote' = [b \in DOMAIN am_wrote \cup {addr} |-> IF b = addr THEN v ELSE am_wrote[b]]
      BY <1>2 DEF Plat!dmi_write
    <3>2. {addr} = addr..(addr + 1 - 1) /\ d[1] = v
      BY <2>2
    <3> HIDE DEF d, addr
    <3>3. DOMAIN am_wrote \cup {addr} = DOMAIN am_wrote \cup addr..(addr + 1 - 1)
      BY <3>2
    <3>4. ASSUME NEW b \in DOMAIN am_wrote \cup {addr}
          PROVE  (IF b = addr THEN v ELSE am_wrote[b]) =
                 (IF b >= addr /\ b < addr + 1 THEN d[b - addr + 1] ELSE am_wrote[b])
      <4>1. b = addr \/ ~(b >= addr /\ b < addr + 1)
        BY <2>2 DEF AddrInv, Memories
      <4>2. b = addr => b >= addr /\ b < addr + 1 /\ b - addr + 1 = 1
        BY <2>2
      <4> QED BY <3>2, <4>1, <4>2
    <3> QED BY <3>1, <3>3, <3>4
  <2> HIDE DEF d
  <2>5. Memories'
    BY ONLY <2>1, <2>2, <2>3, <2>4, AddrInv, WriteKeeps DEF AddrInv
  <2>6. Answered'
    BY <1>2 DEF Plat!dmi_write, AddrInv, Answered, Inside
  <2> QED BY <2>5, <2>6 DEF AddrInv
<1>3. ASSUME Plat!invalidate PROVE AddrInv'
  BY <1>3, MemoriesStay DEF Plat!invalidate, AddrInv, Answered, Inside
<1>4. ASSUME UNCHANGED Plat!addr_vars PROVE AddrInv'
  BY <1>4, MemoriesStay DEF Plat!addr_vars, AddrInv, Answered, Inside
<1> QED BY <1>1, <1>2, <1>3, <1>4 DEF Plat!AddrNext

\* systemc-tlm-lab 7, 10: for any memories at addresses of their own, a read has what
\* was written last, by a transaction or through a pointer.
THEOREM ReadsTheLatest == Plat!AddrSpec => []ReadsWhatWasWritten
<1>1. AddrInv => ReadsWhatWasWritten
  BY DEF AddrInv, Memories, Answered, Inside, ReadsWhatWasWritten, Plat!ReadsWhatWasWritten
<1> QED BY <1>1, AddrBegins, AddrSteps, PTL DEF Plat!AddrSpec

------------------------------------------------------------------------------
LEMMA MemCounted == ASSUME NEW S PROVE Mem!Cardinality(S) = Cardinality(S)
  BY DEF Mem!Cardinality, Cardinality

(***************************************************************************)
(* The cache: LRU keeps the latest blocks of each set.                     *)
(***************************************************************************)
Has(q, x) == \E j \in 1..Len(q) : q[j] = x
Before(q, i, x) == \E j \in 1..(i - 1) : q[j] = x

\* p is q with b moved to the front, or put there.
Fronted(p, q, b) ==
  /\ Len(p) = IF Has(q, b) THEN Len(q) ELSE Len(q) + 1
  /\ p[1] = b
  /\ \A i \in 2..Len(p) : p[i] = IF Before(q, i, b) THEN q[i] ELSE q[i - 1]

LEMMA FrontedHas ==
  ASSUME NEW S, NEW p \in Seq(S), NEW q \in Seq(S), NEW b, Fronted(p, q, b), NEW x
  PROVE  Has(p, x) <=> x = b \/ Has(q, x)
<1> DEFINE m == Len(p)
           n == Len(q)
<1>1. m \in Nat /\ n \in Nat
  BY LenProperties
<1>2. /\ (Has(q, b) => m = n) /\ (~Has(q, b) => m = n + 1) /\ p[1] = b
      /\ \A i \in 2..m : p[i] = IF Before(q, i, b) THEN q[i] ELSE q[i - 1]
  BY DEF Fronted
<1>3. (Has(q, b) <=> \E j \in 1..n : q[j] = b) /\ (Has(q, x) <=> \E j \in 1..n : q[j] = x)
      /\ (Has(p, x) <=> \E j \in 1..m : p[j] = x)
  BY DEF Has
<1> HIDE DEF m, n
<1>4. 1 \in 1..m
  BY <1>1, <1>2, <1>3
<1>5. ASSUME NEW i \in 1..m, p[i] = x PROVE x = b \/ Has(q, x)
  <2>1. CASE i = 1
    BY <1>2, <1>5, <2>1
  <2>2. CASE i /= 1
    <3>1. i \in 2..m /\ i - 1 \in 1..(i - 1)
      BY <1>1, <2>2
    <3>2. CASE Before(q, i, b)
      <4>1. PICK j \in 1..(i - 1) : q[j] = b
        BY <3>2 DEF Before
      <4>2. i <= n + 1 /\ i \in Int
        BY <1>1, <1>2, <3>1
      <4>3. j \in 1..n
        BY <1>1, <4>2
      <4>4. i \in 1..n
        BY <1>1, <1>2, <1>3, <3>1, <4>1, <4>3
      <4> QED BY <1>2, <1>3, <1>5, <3>1, <3>2, <4>4
    <3>3. CASE ~Before(q, i, b)
      <4>1. i - 1 \in 1..n
        BY <1>1, <1>2, <3>1
      <4> QED BY <1>2, <1>3, <1>5, <3>1, <3>3, <4>1
    <3> QED BY <3>2, <3>3
  <2> QED BY <2>1, <2>2
<1>6. ASSUME NEW j \in 1..n, q[j] = x, x /= b PROVE Has(p, x)
  <2>1. CASE Before(q, j, b)
    <3>1. PICK k \in 1..(j - 1) : q[k] = b
      BY <2>1 DEF Before
    <3>2. k \in 1..n /\ j >= 2
      BY <1>1
    <3>3. j \in 2..m
      BY <1>1, <1>2, <1>3, <3>1, <3>2
    <3>4. j \in 1..m
      BY <1>1, <3>3
    <3> QED BY <1>2, <1>3, <1>6, <2>1, <3>3, <3>4
  <2>2. CASE ~Before(q, j, b)
    <3>1. ~Before(q, j + 1, b)
      <4> SUFFICES ASSUME NEW k \in 1..((j + 1) - 1), q[k] = b PROVE FALSE
        BY DEF Before
      <4>1. k \in 1..(j - 1) \/ k = j
        BY <1>1
      <4> QED BY <1>6, <2>2, <4>1 DEF Before
    <3>2. j + 1 <= m
      <4>1. CASE Has(q, b)
        <5>1. PICK k \in 1..n : q[k] = b
          BY <1>3, <4>1
        <5>2. k \notin 1..(j - 1)
          BY <2>2, <5>1 DEF Before
        <5>3. k /= j
          BY <1>6, <5>1
        <5> QED BY <1>1, <1>2, <4>1, <5>2, <5>3
      <4>2. CASE ~Has(q, b)
        BY <1>1, <1>2, <4>2
      <4> QED BY <4>1, <4>2
    <3>3. j + 1 \in 2..m /\ j + 1 \in 1..m /\ (j + 1) - 1 = j
      BY <1>1, <3>2
    <3>4. p[j + 1] = q[(j + 1) - 1]
      BY <1>2, <3>1, <3>3
    <3> QED BY <1>3, <1>6, <3>3, <3>4
  <2> QED BY <2>1, <2>2
<1>7. p[1] = b
  BY <1>2
<1> QED BY <1>3, <1>4, <1>5, <1>6, <1>7

\* One that was not among them comes last in both.
LEMMA FrontedLast ==
  ASSUME NEW S, NEW p \in Seq(S), NEW q \in Seq(S), NEW b \in S, Fronted(p, q, b), NEW x \in S, ~Has(q, x), x /= b
  PROVE  Fronted(Append(p, x), Append(q, x), b)
<1> DEFINE m == Len(p)
           n == Len(q)
           pp == Append(p, x)
           qq == Append(q, x)
<1>1. m \in Nat /\ n \in Nat
  BY LenProperties
<1>2. /\ Len(pp) = m + 1 /\ pp[m + 1] = x /\ \A i \in 1..m : pp[i] = p[i]
      /\ Len(qq) = n + 1 /\ qq[n + 1] = x /\ \A i \in 1..n : qq[i] = q[i]
  BY AppendProperties
<1>3. /\ (Has(q, b) => m = n) /\ (~Has(q, b) => m = n + 1) /\ p[1] = b
      /\ \A i \in 2..m : p[i] = IF Before(q, i, b) THEN q[i] ELSE q[i - 1]
  BY DEF Fronted
<1>4. (Has(q, b) <=> \E j \in 1..n : q[j] = b) /\ (Has(qq, b) <=> \E j \in 1..(n + 1) : qq[j] = b)
  BY <1>2 DEF Has
<1> HIDE DEF m, n, pp, qq
<1>5. 1 \in 1..m
  BY <1>1, <1>3, <1>4
<1>6. Has(qq, b) <=> Has(q, b)
  <2>1. \A j \in 1..(n + 1) : j \in 1..n \/ j = n + 1
    BY <1>1
  <2>2. \A j \in 1..n : j \in 1..(n + 1)
    BY <1>1
  <2> QED BY <1>2, <1>4, <2>1, <2>2
<1>7. Len(pp) = IF Has(qq, b) THEN Len(qq) ELSE Len(qq) + 1
  BY <1>1, <1>2, <1>3, <1>6
<1>8. pp[1] = b
  BY <1>2, <1>3, <1>5
<1>9. ASSUME NEW i \in 2..Len(pp) PROVE pp[i] = IF Before(qq, i, b) THEN qq[i] ELSE qq[i - 1]
  <2>1. i \in 2..(m + 1)
    BY <1>2
  <2>2. \A j \in 1..(i - 1) : j \in 1..n \/ j = n + 1
    BY <1>1, <1>3, <2>1
  <2>3. Before(qq, i, b) <=> \E j \in 1..(i - 1) : j \in 1..n /\ q[j] = b
    BY <1>2, <2>2 DEF Before
  <2>4. CASE i <= m
    <3>1. i \in 2..m /\ i \in 1..m /\ pp[i] = p[i]
      BY <1>1, <1>2, <2>1, <2>4
    <3>2. \A j \in 1..(i - 1) : j \in 1..n
      BY <1>1, <1>3, <3>1
    <3>3. Before(qq, i, b) <=> Before(q, i, b)
      BY <2>3, <3>2 DEF Before
    <3>4. CASE Before(q, i, b)
      <4>1. Has(q, b)
        BY <1>4, <3>2, <3>4 DEF Before
      <4>2. i \in 1..n
        BY <1>3, <3>1, <4>1
      <4> QED BY <1>2, <1>3, <3>1, <3>3, <3>4, <4>2
    <3>5. CASE ~Before(q, i, b)
      <4>1. i - 1 \in 1..n
        BY <1>1, <3>1, <3>2
      <4> QED BY <1>2, <1>3, <3>1, <3>3, <3>5, <4>1
    <3> QED BY <3>4, <3>5
  <2>5. CASE i = m + 1
    <3>1. pp[i] = x /\ i - 1 = m
      BY <1>1, <1>2, <2>5
    <3>2. CASE Has(q, b)
      <4>1. m = n
        BY <1>3, <3>2
      <4>2. Before(qq, i, b)
        BY <1>4, <2>3, <3>1, <3>2, <4>1
      <4> QED BY <1>2, <2>5, <3>1, <4>1, <4>2
    <3>3. CASE ~Has(q, b)
      <4>1. m = n + 1
        BY <1>3, <3>3
      <4>2. ~Before(qq, i, b)
        BY <1>4, <2>3, <3>3
      <4> QED BY <1>2, <3>1, <4>1, <4>2
    <3> QED BY <3>2, <3>3
  <2>6. i <= m \/ i = m + 1
    BY <1>1, <2>1
  <2> QED BY <2>4, <2>5, <2>6
<1>10. Fronted(pp, qq, b)
  BY <1>7, <1>8, <1>9 DEF Fronted
<1> QED BY <1>10 DEF pp, qq

\* The one that is moved was the last.
LEMMA FrontedSame ==
  ASSUME NEW S, NEW p \in Seq(S), NEW q \in Seq(S), NEW b \in S, Fronted(p, q, b), ~Has(q, b)
  PROVE  Fronted(p, Append(q, b), b)
<1> DEFINE m == Len(p)
           n == Len(q)
           qq == Append(q, b)
<1>1. m \in Nat /\ n \in Nat
  BY LenProperties
<1>2. Len(qq) = n + 1 /\ qq[n + 1] = b /\ \A i \in 1..n : qq[i] = q[i]
  BY AppendProperties
<1>3. /\ m = n + 1 /\ p[1] = b
      /\ \A i \in 2..m : p[i] = IF Before(q, i, b) THEN q[i] ELSE q[i - 1]
  BY DEF Fronted
<1>4. (\A j \in 1..n : q[j] /= b) /\ (Has(qq, b) <=> \E j \in 1..(n + 1) : qq[j] = b)
  BY <1>2 DEF Has
<1> HIDE DEF m, n, qq
<1>5. n + 1 \in 1..(n + 1)
  BY <1>1
<1>6. Has(qq, b)
  BY <1>2, <1>4, <1>5
<1>7. ASSUME NEW i \in 2..m PROVE p[i] = IF Before(qq, i, b) THEN qq[i] ELSE qq[i - 1]
  <2>1. i - 1 \in 1..n /\ \A j \in 1..(i - 1) : j \in 1..n
    BY <1>1, <1>3
  <2>2. ~Before(q, i, b) /\ ~Before(qq, i, b)
    BY <1>2, <1>4, <2>1 DEF Before
  <2> QED BY <1>2, <1>3, <2>1, <2>2
<1>8. Fronted(p, qq, b)
  BY <1>2, <1>3, <1>6, <1>7 DEF Fronted, m
<1> QED BY <1>8 DEF qq

\* The different blocks of a set among the first of r.
Listed(r, n, s, f) ==
  f = [i \in 0..Len(r) |->
         IF i = 0 THEN <<>>
         ELSE IF r[i] % n = s /\ r[i] \notin Mem!Range(f[i - 1]) THEN Append(f[i - 1], r[i]) ELSE f[i - 1]]
Listing(r, n, s) == CHOOSE f : Listed(r, n, s, f)

LEMMA ListingIs ==
  ASSUME NEW S, NEW r \in Seq(S), NEW n, NEW s
  PROVE  /\ Listing(r, n, s) \in [0..Len(r) -> Seq(S)]
         /\ Listing(r, n, s)[0] = <<>>
         /\ \A i \in 1..Len(r) : LET q == Listing(r, n, s)[i - 1] IN
              Listing(r, n, s)[i] = IF r[i] % n = s /\ ~Has(q, r[i]) THEN Append(q, r[i]) ELSE q
<1> DEFINE l == Len(r)
           g == [p \in (1..l) \X Seq(S) |->
                   IF r[p[1]] % n = s /\ r[p[1]] \notin Mem!Range(p[2]) THEN Append(p[2], r[p[1]]) ELSE p[2]]
<1>1. l \in Nat /\ <<>> \in Seq(S) /\ \A i \in 1..l : r[i] \in S
  <2>1. l \in Nat
    BY LenProperties
  <2>2. \A i \in 1..l : r[i] \in S
    BY ElementOfSeq
  <2> QED BY <2>1, <2>2
<1>2. g \in [(1..l) \X Seq(S) -> Seq(S)]
  <2> SUFFICES ASSUME NEW p \in (1..l) \X Seq(S)
               PROVE  (IF r[p[1]] % n = s /\ r[p[1]] \notin Mem!Range(p[2]) THEN Append(p[2], r[p[1]]) ELSE p[2]) \in Seq(S)
    OBVIOUS
  <2>1. p[1] \in 1..l /\ p[2] \in Seq(S)
    OBVIOUS
  <2>2. r[p[1]] \in S
    BY <1>1, <2>1
  <2>3. Append(p[2], r[p[1]]) \in Seq(S)
    BY ONLY <2>1, <2>2, AppendProperties
  <2> QED BY <2>1, <2>3
<1>3. PICK f \in [0..l -> Seq(S)] : Iteration(l, <<>>, g, f)
  <2> HIDE DEF g, l
  <2> QED BY ONLY <1>1, <1>2, Iterated
<1>4. Listed(r, n, s, f)
  <2>1. f = [i \in 0..l |-> IF i = 0 THEN <<>> ELSE g[<<i, f[i - 1]>>]]
    BY <1>3, Zenon DEF Iteration
  <2>2. ASSUME NEW i \in 0..l, i /= 0
        PROVE  g[<<i, f[i - 1]>>] = IF r[i] % n = s /\ r[i] \notin Mem!Range(f[i - 1]) THEN Append(f[i - 1], r[i]) ELSE f[i - 1]
    <3>1. i \in 1..l /\ i - 1 \in 0..l
      <4> HIDE DEF l
      <4> QED BY <1>1, <2>2
    <3>2. <<i, f[i - 1]>> \in (1..l) \X Seq(S)
      BY <3>1
    <3> QED BY <3>2
  <2> HIDE DEF g
  <2>3. f = [i \in 0..l |-> IF i = 0 THEN <<>>
                           ELSE IF r[i] % n = s /\ r[i] \notin Mem!Range(f[i - 1]) THEN Append(f[i - 1], r[i]) ELSE f[i - 1]]
    BY <2>1, <2>2
  <2> QED BY <2>3, Zenon DEF Listed
<1> DEFINE h == Listing(r, n, s)
<1>5. Listed(r, n, s, h)
  BY <1>4 DEF Listing
<1> HIDE DEF h
<1>6. h = [i \in 0..l |-> IF i = 0 THEN <<>>
                         ELSE IF r[i] % n = s /\ r[i] \notin Mem!Range(h[i - 1]) THEN Append(h[i - 1], r[i]) ELSE h[i - 1]]
  BY <1>5 DEF Listed
<1>7. \A q \in Seq(S) : \A x : x \in Mem!Range(q) <=> Has(q, x)
  BY DEF Mem!Range, Has
<1> HIDE DEF l, g
<1>8. /\ h[0] = <<>>
      /\ \A i \in 1..l : h[i] = IF r[i] % n = s /\ r[i] \notin Mem!Range(h[i - 1]) THEN Append(h[i - 1], r[i]) ELSE h[i - 1]
  <2>1. h[0] = <<>>
    BY <1>1, <1>6
  <2>2. ASSUME NEW i \in 1..l
        PROVE  h[i] = IF r[i] % n = s /\ r[i] \notin Mem!Range(h[i - 1]) THEN Append(h[i - 1], r[i]) ELSE h[i - 1]
    <3>1. i \in 0..l /\ i /= 0
      BY <1>1
    <3>2. h[i] = IF r[i] % n = s /\ r[i] \notin Mem!Range(h[i - 1]) THEN Append(h[i - 1], r[i]) ELSE h[i - 1]
      BY <1>6, <3>1
    <3> QED BY <3>2
  <2> QED BY <2>1, <2>2
<1> DEFINE T == {i \in 0..l : h[i] \in Seq(S)}
<1>9. 0 \in T
  <2>1. 0 \in 0..l
    BY <1>1
  <2>2. h[0] \in Seq(S)
    BY ONLY <1>1, <1>8, Zenon
  <2> QED BY <2>1, <2>2
<1>10. ASSUME NEW i \in 0..(l - 1), i \in T PROVE i + 1 \in T
  <2>1. i + 1 \in 1..l /\ (i + 1) - 1 = i /\ i + 1 \in 0..l
    BY <1>1
  <2>2. r[i + 1] \in S /\ h[i] \in Seq(S)
    BY <1>1, <1>10, <2>1
  <2>3. Append(h[i], r[i + 1]) \in Seq(S)
    BY ONLY <2>2, AppendProperties
  <2>4. h[i + 1] \in Seq(S)
    BY <1>8, <2>1, <2>2, <2>3
  <2> QED BY <2>1, <2>4
<1> HIDE DEF T
<1>11. 0..l \subseteq T
  BY ONLY <1>1, <1>9, <1>10, UptoInduction
<1>12. h \in [0..l -> Seq(S)]
  BY <1>6, <1>11 DEF T
<1>13. ASSUME NEW i \in 1..l
       PROVE  h[i] = IF r[i] % n = s /\ ~Has(h[i - 1], r[i]) THEN Append(h[i - 1], r[i]) ELSE h[i - 1]
  <2>1. i - 1 \in 0..l
    BY <1>1
  <2>2. h[i - 1] \in Seq(S)
    BY <1>12, <2>1
  <2> QED BY <1>7, <1>8, <2>2
<1> QED BY <1>8, <1>12, <1>13 DEF h, l

\* They are different, and all the blocks of the set among those.
LEMMA ListingHas ==
  ASSUME NEW S, NEW r \in Seq(S), NEW n, NEW s, NEW i \in 0..Len(r)
  PROVE  LET q == Listing(r, n, s)[i] IN
         /\ \A x : Has(q, x) <=> \E j \in 1..i : r[j] = x /\ x % n = s
         /\ \A j, k \in 1..Len(q) : j < k => q[j] /= q[k]
<1> DEFINE l == Len(r)
           h == Listing(r, n, s)
           Ok(k) == /\ \A x : Has(h[k], x) <=> \E j \in 1..k : r[j] = x /\ x % n = s
                    /\ \A j, m \in 1..Len(h[k]) : j < m => h[k][j] /= h[k][m]
           T == {k \in 0..l : Ok(k)}
<1>1. l \in Nat
  BY LenProperties
<1>2. /\ h \in [0..l -> Seq(S)] /\ h[0] = <<>>
      /\ \A k \in 1..l : h[k] = IF r[k] % n = s /\ ~Has(h[k - 1], r[k]) THEN Append(h[k - 1], r[k]) ELSE h[k - 1]
  BY ListingIs
<1>3. \A k \in 1..l : r[k] \in S
  BY ElementOfSeq
<1> HIDE DEF h, l
<1>4. 0 \in T
  <2>1. Len(h[0]) = 0 /\ 1..0 = {}
    BY <1>2
  <2> QED BY <1>1, <2>1 DEF Has
<1>5. ASSUME NEW k \in 0..(l - 1), k \in T PROVE k + 1 \in T
  <2>1. k + 1 \in 1..l /\ (k + 1) - 1 = k /\ k + 1 \in 0..l /\ k \in 0..l
    BY <1>1
  <2> DEFINE q == h[k]
             x == r[k + 1]
  <2>2. q \in Seq(S) /\ x \in S
    BY <1>2, <1>3, <2>1
  <2>3. h[k + 1] = IF x % n = s /\ ~Has(q, x) THEN Append(q, x) ELSE q
    BY <1>2, <2>1
  <2>4. /\ \A y : Has(q, y) <=> \E j \in 1..k : r[j] = y /\ y % n = s
        /\ \A j, m \in 1..Len(q) : j < m => q[j] /= q[m]
    BY <1>5
  <2>5. \A j \in 1..(k + 1) : j \in 1..k \/ j = k + 1
    BY <1>1
  <2>6. k + 1 \in 1..(k + 1) /\ \A j \in 1..k : j \in 1..(k + 1)
    BY <1>1
  <2>7. CASE x % n = s /\ ~Has(q, x)
    <3> DEFINE qq == Append(q, x)
               m == Len(q)
    <3>1. m \in Nat /\ Len(qq) = m + 1 /\ qq[m + 1] = x /\ \A j \in 1..m : qq[j] = q[j]
      BY ONLY <2>2, AppendProperties, LenProperties
    <3>2. h[k + 1] = qq
      BY <2>3, <2>7
    <3>3. \A j \in 1..m : q[j] /= x
      BY <2>7 DEF Has
    <3> HIDE DEF qq, m
    <3>4. \A j \in 1..(m + 1) : j \in 1..m \/ j = m + 1
      BY <3>1
    <3>5. ASSUME NEW y PROVE Has(qq, y) <=> Has(q, y) \/ y = x
      <4>1. Has(q, y) <=> \E j \in 1..m : q[j] = y
        BY DEF Has, m
      <4>2. Has(qq, y) <=> \E j \in 1..(m + 1) : qq[j] = y
        BY <3>1 DEF Has
      <4>3. m + 1 \in 1..(m + 1) /\ \A j \in 1..m : j \in 1..(m + 1)
        BY <3>1
      <4> QED BY <3>1, <3>4, <4>1, <4>2, <4>3
    <3>6. \A y : Has(qq, y) <=> \E j \in 1..(k + 1) : r[j] = y /\ y % n = s
      <4> HIDE DEF q
      <4> QED BY <2>4, <2>5, <2>6, <2>7, <3>5
    <3>7. ASSUME NEW j \in 1..Len(qq), NEW o \in 1..Len(qq), j < o PROVE qq[j] /= qq[o]
      <4>1. j \in 1..m /\ (o \in 1..m \/ o = m + 1)
        BY <3>1, <3>7
      <4>2. \A v, w \in 1..m : v < w => q[v] /= q[w]
        BY <2>4 DEF m
      <4> QED BY <3>1, <3>3, <3>7, <4>1, <4>2
    <3> QED BY <2>1, <3>2, <3>6, <3>7
  <2>8. CASE ~(x % n = s /\ ~Has(q, x))
    <3>1. h[k + 1] = q
      BY <2>3, <2>8
    <3>2. ASSUME NEW y PROVE Has(q, y) <=> \E j \in 1..(k + 1) : r[j] = y /\ y % n = s
      <4> HIDE DEF q
      <4> QED BY <2>4, <2>5, <2>6, <2>8
    <3> QED BY <2>1, <2>4, <3>1, <3>2
  <2> QED BY <2>7, <2>8
<1> HIDE DEF T
<1>6. 0..l \subseteq T
  BY ONLY <1>1, <1>4, <1>5, UptoInduction
<1>7. Ok(i)
  BY <1>6 DEF T, l
<1> QED BY <1>7 DEF h

\* One block more at the front comes first in the listing of its set.
LEMMA ListingPush ==
  ASSUME NEW S, NEW r \in Seq(S), NEW b \in S, NEW n, NEW s, NEW i \in 0..Len(r)
  PROVE  LET p == Listing(<<b>> \o r, n, s)[i + 1]
             q == Listing(r, n, s)[i]
         IN  IF b % n = s THEN Fronted(p, q, b) ELSE p = q
<1> DEFINE l == Len(r)
           rr == <<b>> \o r
           h == Listing(r, n, s)
           g == Listing(rr, n, s)
           Ok(k) == IF b % n = s THEN Fronted(g[k + 1], h[k], b) ELSE g[k + 1] = h[k]
           T == {k \in 0..l : Ok(k)}
<1>1. /\ rr \in Seq(S) /\ Len(rr) = l + 1 /\ l \in Nat
      /\ rr[1] = b /\ \A k \in 1..l : rr[k + 1] = r[k]
  <2>1. <<b>> \in Seq(S) /\ Len(<<b>>) = 1 /\ <<b>>[1] = b /\ l \in Nat
    BY LenProperties
  <2>2. /\ rr \in Seq(S) /\ Len(rr) = 1 + l
        /\ \A k \in 1..(1 + l) : rr[k] = IF k <= 1 THEN <<b>>[k] ELSE r[k - 1]
    <3> DEFINE o == <<b>>
    <3>1. o \in Seq(S) /\ r \in Seq(S) /\ Len(o) = 1
      BY <2>1
    <3> HIDE DEF o
    <3>2. /\ o \o r \in Seq(S) /\ Len(o \o r) = Len(o) + Len(r)
          /\ \A k \in 1..(Len(o) + Len(r)) : (o \o r)[k] = IF k <= Len(o) THEN o[k] ELSE r[k - Len(o)]
      BY ONLY <3>1, ConcatProperties
    <3> QED BY <3>1, <3>2 DEF o
  <2> HIDE DEF l, rr
  <2>3. 1 \in 1..(1 + l) /\ \A k \in 1..l : k + 1 \in 1..(1 + l) /\ ~(k + 1 <= 1) /\ (k + 1) - 1 = k
    BY <2>1
  <2>4. rr[1] = b
    BY <2>1, <2>2, <2>3
  <2>5. \A k \in 1..l : rr[k + 1] = r[k]
    BY <2>2, <2>3
  <2>6. Len(rr) = l + 1
    BY <2>1, <2>2
  <2> QED BY <2>1, <2>2, <2>4, <2>5, <2>6
<1>2. /\ h \in [0..l -> Seq(S)] /\ h[0] = <<>>
      /\ \A k \in 1..l : h[k] = IF r[k] % n = s /\ ~Has(h[k - 1], r[k]) THEN Append(h[k - 1], r[k]) ELSE h[k - 1]
  BY ListingIs
<1>3. \A k \in 1..l : r[k] \in S
  BY ElementOfSeq
<1>4. /\ g \in [0..(l + 1) -> Seq(S)] /\ g[0] = <<>>
      /\ \A k \in 1..(l + 1) : g[k] = IF rr[k] % n = s /\ ~Has(g[k - 1], rr[k]) THEN Append(g[k - 1], rr[k]) ELSE g[k - 1]
  <2>1. rr \in Seq(S) /\ Len(rr) = l + 1
    BY <1>1
  <2> HIDE DEF rr, l
  <2>2. /\ g \in [0..Len(rr) -> Seq(S)] /\ g[0] = <<>>
        /\ \A k \in 1..Len(rr) : g[k] = IF rr[k] % n = s /\ ~Has(g[k - 1], rr[k]) THEN Append(g[k - 1], rr[k]) ELSE g[k - 1]
    BY ONLY <2>1, ListingIs
  <2> QED BY <2>1, <2>2
<1> HIDE DEF h, l, g, rr
<1>5. 0 \in T
  <2>1. 1 \in 1..(l + 1) /\ 1 - 1 = 0 /\ 0 + 1 = 1 /\ 0 \in 0..l
    BY <1>1
  <2>2. ~Has(<<>>, b)
    BY DEF Has
  <2>3. g[1] = IF b % n = s THEN Append(<<>>, b) ELSE <<>>
    BY <1>1, <1>4, <2>1, <2>2
  <2>4. Append(<<>>, b) = <<b>> /\ Len(<<b>>) = 1 /\ <<b>>[1] = b /\ Len(<<>>) = 0 /\ 2..1 = {}
    OBVIOUS
  <2>5. Fronted(<<b>>, <<>>, b)
    BY <2>2, <2>4 DEF Fronted
  <2>6. g[0 + 1] = g[1] /\ h[0] = <<>>
    BY <1>2, <2>1
  <2>7. Ok(0)
    BY <2>3, <2>4, <2>5, <2>6
  <2> QED BY <2>1, <2>7
<1>6. ASSUME NEW k \in 0..(l - 1), k \in T PROVE k + 1 \in T
  <2> DEFINE q == h[k]
             p == g[k + 1]
             x == r[k + 1]
  <2>1. /\ k + 1 \in 1..l /\ (k + 1) - 1 = k /\ k + 1 \in 0..l /\ k \in 0..l
        /\ (k + 1) + 1 \in 1..(l + 1) /\ ((k + 1) + 1) - 1 = k + 1 /\ k + 1 \in 0..(l + 1)
    BY <1>1
  <2>2. q \in Seq(S) /\ p \in Seq(S) /\ x \in S
    BY <1>2, <1>3, <1>4, <2>1
  <2>3. h[k + 1] = IF x % n = s /\ ~Has(q, x) THEN Append(q, x) ELSE q
    BY <1>2, <2>1
  <2>4. g[(k + 1) + 1] = IF x % n = s /\ ~Has(p, x) THEN Append(p, x) ELSE p
    <3>1. rr[(k + 1) + 1] = x
      BY <1>1, <2>1
    <3>2. g[((k + 1) + 1) - 1] = p
      BY <2>1
    <3> HIDE DEF p, x
    <3> QED BY <1>4, <2>1, <3>1, <3>2
  <2>5. IF b % n = s THEN Fronted(p, q, b) ELSE p = q
    BY <1>6
  <2> HIDE DEF p, q, x
  <2>6. Ok(k + 1)
    <3>1. CASE b % n /= s
      BY <2>3, <2>4, <2>5, <3>1
    <3>2. CASE b % n = s
      <4>1. Fronted(p, q, b)
        BY <2>5, <3>2
      <4>2. Has(p, x) <=> x = b \/ Has(q, x)
        BY ONLY <2>2, <4>1, FrontedHas
      <4>3. CASE x % n /= s \/ Has(q, x)
        BY <2>3, <2>4, <3>2, <4>1, <4>2, <4>3
      <4>4. CASE x % n = s /\ ~Has(q, x) /\ x = b
        <5>1. h[k + 1] = Append(q, b) /\ g[(k + 1) + 1] = p
          BY <2>3, <2>4, <4>2, <4>4
        <5>2. Fronted(p, Append(q, b), b)
          <6>1. ~Has(q, b)
            BY <4>4
          <6> QED BY ONLY <2>2, <4>1, <6>1, b \in S, FrontedSame
        <5> QED BY <3>2, <5>1, <5>2
      <4>5. CASE x % n = s /\ ~Has(q, x) /\ x /= b
        <5>1. h[k + 1] = Append(q, x) /\ g[(k + 1) + 1] = Append(p, x)
          BY <2>3, <2>4, <4>2, <4>5
        <5>2. Fronted(Append(p, x), Append(q, x), b)
          BY ONLY <2>2, <4>1, <4>5, b \in S, FrontedLast
        <5> QED BY <3>2, <5>1, <5>2
      <4> QED BY <4>3, <4>4, <4>5
    <3> QED BY <3>1, <3>2
  <2> QED BY <2>1, <2>6
<1> HIDE DEF T
<1>7. 0..l \subseteq T
  BY ONLY <1>1, <1>5, <1>6, UptoInduction
<1>8. Ok(i)
  BY <1>7 DEF T, l
<1> QED BY <1>8 DEF h, g, rr

Permutes(q, n) ==
  /\ \A v \in 1..n : \E i \in 1..n : q[i] = v
  /\ \A i, j \in 1..n : q[i] = q[j] => i = j

\* The ways of a set of z sets hold q's first, the latest in the one that goes last.
Kept(n, tag, lru, z, q) ==
  \A i \in 1..n : tag[lru[n + 1 - i]] = IF i <= Len(q) THEN q[i] \div z ELSE Mem!Empty

\* q is different blocks of set s of z.
Blocked(q, z, s) ==
  /\ q \in Seq(Nat) /\ \A i \in 1..Len(q) : q[i] % z = s
  /\ \A j, k \in 1..Len(q) : j < k => q[j] /= q[k]

OfSet(b, z, s) == b \in Nat /\ b % z = s

LEMMA TouchIs ==
  ASSUME NEW n \in Nat \ {0}, NEW q \in [1..n -> 1..n], Permutes(q, n), NEW k \in 1..n
  PROVE  LET p == Mem!touch(q, q[k]) IN
         /\ p \in [1..n -> 1..n] /\ p[n] = q[k]
         /\ \A i \in 1..(n - 1) : p[i] = IF k <= i THEN q[i + 1] ELSE q[i]
         /\ Permutes(p, n)
<1> DEFINE p == Mem!touch(q, q[k])
           to == [i \in 1..n |-> IF i = n THEN k ELSE IF k <= i THEN i + 1 ELSE i]
<1>1. Len(q) = n /\ DOMAIN q = 1..n
  <2>1. q \in Seq(1..n) /\ DOMAIN q = 1..n
    BY SMT
  <2>2. DOMAIN q = 1..Len(q) /\ Len(q) \in Nat
    BY ONLY <2>1, LenProperties
  <2> QED BY <2>1, <2>2
<1>2. /\ (\A v \in 1..n : \E i \in 1..n : q[i] = v)
      /\ (\A i, j \in 1..n : q[i] = q[j] => i = j)
  BY DEF Permutes
<1>3. ASSUME NEW i \in 1..n PROVE (\E j \in 1..i : q[j] = q[k]) <=> k <= i
  <2>1. \A j \in 1..i : j \in 1..n
    OBVIOUS
  <2>2. ASSUME k <= i PROVE \E j \in 1..i : q[j] = q[k]
    <3>1. k \in 1..i
      BY <2>2
    <3> QED BY <3>1
  <2>3. ASSUME NEW j \in 1..i, q[j] = q[k] PROVE k <= i
    <3>1. j = k
      BY <1>2, <2>1, <2>3
    <3> QED BY <3>1
  <2> QED BY <2>2, <2>3
<1>4. p = [i \in 1..n |-> IF i = n THEN q[k] ELSE IF k <= i THEN q[i + 1] ELSE q[i]]
  <2>1. p = [i \in 1..n |-> IF i = n THEN q[k] ELSE IF \E j \in 1..i : q[j] = q[k] THEN q[i + 1] ELSE q[i]]
    BY <1>1 DEF Mem!touch
  <2> QED BY <1>3, <2>1
<1>5. to \in [1..n -> 1..n] /\ \A i \in 1..n : to[i] = IF i = n THEN k ELSE IF k <= i THEN i + 1 ELSE i
  OBVIOUS
<1> HIDE DEF to, p
<1>6. p = [i \in 1..n |-> q[to[i]]]
  BY <1>4, <1>5
<1>7. Permutes(p, n)
  <2>1. ASSUME NEW v \in 1..n PROVE \E i \in 1..n : p[i] = v
    <3>1. PICK j \in 1..n : q[j] = v
      BY <1>2
    <3> DEFINE i == IF j = k THEN n ELSE IF j > k THEN j - 1 ELSE j
    <3>2. i \in 1..n /\ to[i] = j
      <4>1. CASE j = k
        BY <1>5, <4>1
      <4>2. CASE j > k
        <5>1. j - 1 \in 1..n /\ j - 1 /= n /\ k <= j - 1 /\ (j - 1) + 1 = j /\ j /= k
          BY <4>2
        <5>2. i = j - 1
          BY <4>2, <5>1
        <5> HIDE DEF i
        <5> QED BY <1>5, <5>1, <5>2
      <4>3. CASE j < k
        <5>1. j /= n /\ ~(k <= j) /\ i = j
          BY <4>3
        <5> HIDE DEF i
        <5> QED BY <1>5, <5>1
      <4> QED BY <4>1, <4>2, <4>3
    <3> HIDE DEF i
    <3> QED BY <1>6, <3>1, <3>2
  <2>2. ASSUME NEW i \in 1..n, NEW j \in 1..n, p[i] = p[j] PROVE i = j
    <3>1. to[i] = to[j]
      BY <1>2, <1>5, <1>6, <2>2
    <3>2. /\ to[i] = (IF i = n THEN k ELSE IF k <= i THEN i + 1 ELSE i)
          /\ to[j] = (IF j = n THEN k ELSE IF k <= j THEN j + 1 ELSE j)
      BY <1>5
    <3>3. (IF i = n THEN k ELSE IF k <= i THEN i + 1 ELSE i) = (IF j = n THEN k ELSE IF k <= j THEN j + 1 ELSE j)
      BY ONLY <3>1, <3>2
    <3> QED BY ONLY <3>3, n \in Nat \ {0}, i \in 1..n, j \in 1..n, k \in 1..n
  <2> QED BY <2>1, <2>2 DEF Permutes
<1>8. n \in 1..n /\ \A i \in 1..(n - 1) : i \in 1..n /\ i /= n
  OBVIOUS
<1>9. p \in [1..n -> 1..n]
  BY <1>5, <1>6
<1>10. p[n] = q[k] /\ \A i \in 1..(n - 1) : p[i] = IF k <= i THEN q[i + 1] ELSE q[i]
  BY <1>4, <1>8
<1> QED BY <1>7, <1>9, <1>10 DEF p

LEMMA BlockIs ==
  ASSUME NEW x \in Nat, NEW y \in Nat, NEW z \in Nat \ {0}, x % z = y % z, x \div z = y \div z
  PROVE  x = y
<1>1. x \in Int /\ y \in Int
  OBVIOUS
<1>2. x = z * (x \div z) + (x % z) /\ y = z * (y \div z) + (y % z)
  BY ONLY <1>1, z \in Nat \ {0}, DivMod
<1> QED BY ONLY <1>2, x % z = y % z, x \div z = y \div z

Located(n, tag, lru, z, q, b) ==
  /\ \A w \in 1..n : tag[w] = b \div z =>
       \E k \in 1..n : k <= Len(q) /\ q[k] = b /\ lru[n + 1 - k] = w
  /\ \A k \in 1..n : k <= Len(q) /\ q[k] = b => tag[lru[n + 1 - k]] = b \div z

\* A way that holds a block's tag is where the block is, and the other way round.
LEMMA HitIs ==
  ASSUME NEW n \in Nat \ {0}, NEW tag \in [1..n -> Int], NEW lru \in [1..n -> 1..n], Permutes(lru, n),
         NEW z \in Nat \ {0}, NEW s, NEW q, Blocked(q, z, s), Kept(n, tag, lru, z, q),
         NEW b \in Nat, OfSet(b, z, s)
  PROVE  Located(n, tag, lru, z, q, b)
<1>0. b \in Nat /\ b % z = s
  BY DEF OfSet
<1>1. q \in Seq(Nat) /\ Len(q) \in Nat
  BY LenProperties DEF Blocked
<1>2. \A i \in 1..Len(q) : q[i] \in Nat /\ q[i] % z = s
  BY <1>1, ElementOfSeq DEF Blocked
<1>3. ASSUME NEW w \in 1..n, tag[w] = b \div z
      PROVE  \E k \in 1..n : k <= Len(q) /\ q[k] = b /\ lru[n + 1 - k] = w
  <2>1. PICK i \in 1..n : lru[i] = w
    BY DEF Permutes
  <2> DEFINE k == n + 1 - i
  <2>2. k \in 1..n /\ n + 1 - k = i
    OBVIOUS
  <2> HIDE DEF k
  <2>3. tag[w] = IF k <= Len(q) THEN q[k] \div z ELSE Mem!Empty
    BY <2>1, <2>2 DEF Kept
  <2>4. b \div z \in Nat /\ Mem!Empty \notin Nat
    <3>1. b \div z \in Nat
      BY ONLY <1>0, z \in Nat \ {0}, QuotientIs
    <3>2. Mem!Empty \notin Nat
      BY DEF Mem!Empty
    <3> QED BY <3>1, <3>2
  <2>5. k <= Len(q) /\ q[k] \div z = b \div z
    BY <1>3, <2>3, <2>4
  <2>6. k \in 1..Len(q)
    BY <1>1, <2>2, <2>5
  <2>7. q[k] \in Nat /\ q[k] % z = b % z
    BY <1>0, <1>2, <2>6
  <2>8. q[k] = b
    BY ONLY <1>0, <2>5, <2>7, z \in Nat \ {0}, BlockIs
  <2> QED BY <2>1, <2>2, <2>5, <2>8
<1>4. ASSUME NEW k \in 1..n, k <= Len(q), q[k] = b PROVE tag[lru[n + 1 - k]] = b \div z
  BY <1>4 DEF Kept
<1> QED BY <1>3, <1>4 DEF Located

\* A hit moves the block's way to the end, a miss the way that was to go next.
LEMMA KeptStep ==
  ASSUME NEW n \in Nat \ {0}, NEW tag \in [1..n -> Int], NEW lru \in [1..n -> 1..n], Permutes(lru, n),
         NEW z \in Nat \ {0}, NEW s, NEW q, Blocked(q, z, s), Kept(n, tag, lru, z, q),
         NEW b \in Nat, NEW k \in 1..n,
         \/ n + 1 - k <= Len(q) /\ q[n + 1 - k] = b
         \/ k = 1 /\ \A i \in 1..n : i <= Len(q) => q[i] /= b,
         NEW p \in Seq(Nat), Fronted(p, q, b)
  PROVE  Kept(n, [tag EXCEPT ![lru[k]] = b \div z], Mem!touch(lru, lru[k]), z, p)
<1> DEFINE slot == lru[k]
           new == [tag EXCEPT ![slot] = b \div z]
           nlru == Mem!touch(lru, slot)
           l == Len(q)
           m == Len(p)
           at == n + 1 - k
           Old(i) == IF i <= l THEN q[i] \div z ELSE Mem!Empty
<1>1. q \in Seq(Nat) /\ l \in Nat /\ m \in Nat /\ at \in 1..n
  <2>1. q \in Seq(Nat)
    BY DEF Blocked
  <2>2. l \in Nat /\ m \in Nat
    BY <2>1, LenProperties
  <2>3. at \in 1..n
    OBVIOUS
  <2> QED BY <2>1, <2>2, <2>3
<1>2. /\ (Has(q, b) => m = l) /\ (~Has(q, b) => m = l + 1) /\ p[1] = b
      /\ \A i \in 2..m : p[i] = IF Before(q, i, b) THEN q[i] ELSE q[i - 1]
  BY DEF Fronted
<1>3. Has(q, b) <=> \E j \in 1..l : q[j] = b
  BY DEF Has
<1>4. \A i \in 1..n : tag[lru[n + 1 - i]] = Old(i)
  BY DEF Kept
<1>5. \A i, j \in 1..n : lru[i] = lru[j] => i = j
  BY DEF Permutes
<1>6. /\ nlru \in [1..n -> 1..n] /\ nlru[n] = slot
      /\ \A i \in 1..(n - 1) : nlru[i] = IF k <= i THEN lru[i + 1] ELSE lru[i]
  <2>1. n \in Nat \ {0} /\ lru \in [1..n -> 1..n] /\ Permutes(lru, n) /\ k \in 1..n
    OBVIOUS
  <2>2. LET t == Mem!touch(lru, lru[k]) IN
        /\ t \in [1..n -> 1..n] /\ t[n] = lru[k]
        /\ \A i \in 1..(n - 1) : t[i] = IF k <= i THEN lru[i + 1] ELSE lru[i]
        /\ Permutes(t, n)
    BY ONLY <2>1, TouchIs
  <2> QED BY ONLY <2>2
<1>7. slot \in 1..n /\ \A w \in 1..n : new[w] = IF w = slot THEN b \div z ELSE tag[w]
  OBVIOUS
<1>8. \A i, j \in 1..l : q[i] = q[j] => i = j
  <2> SUFFICES ASSUME NEW i \in 1..l, NEW j \in 1..l, q[i] = q[j], i /= j PROVE FALSE
    OBVIOUS
  <2>1. i < j \/ j < i
    OBVIOUS
  <2> QED BY <2>1 DEF Blocked
<1>9. \/ at <= l /\ q[at] = b
      \/ at = n /\ \A i \in 1..n : i <= l => q[i] /= b
  OBVIOUS
<1> HIDE DEF slot, new, nlru, l, m
<1>10. m >= 1
  BY <1>1, <1>2, <1>3
<1>11. ASSUME NEW i \in 1..n PROVE new[nlru[n + 1 - i]] = IF i <= m THEN p[i] \div z ELSE Mem!Empty
  <2>1. CASE i = 1
    <3>1. n + 1 - i = n
      BY <2>1
    <3> QED BY <1>2, <1>6, <1>7, <1>10, <2>1, <3>1
  <2>2. CASE i /= 1
    <3> DEFINE o == n + 1 - i
    <3>1. o \in 1..(n - 1) /\ o + 1 \in 1..n /\ o \in 1..n /\ (k <= o <=> i <= at) /\ i - 1 \in 1..n
          /\ n + 1 - i = o /\ n + 1 - (i - 1) = o + 1
      BY <2>2
    <3> HIDE DEF o, at
    <3>2. nlru[o] = (IF i <= at THEN lru[o + 1] ELSE lru[o]) /\ nlru[o] /= slot /\ nlru[o] \in 1..n
      <4>1. nlru[o] = IF k <= o THEN lru[o + 1] ELSE lru[o]
        BY <1>6, <3>1
      <4>2. (k <= o => o + 1 /= k) /\ (~(k <= o) => o /= k)
        <5>1. o \in Int /\ k \in Int
          BY <3>1
        <5> QED BY ONLY <5>1
      <4>3. nlru[o] /= slot
        BY <1>5, <3>1, <4>1, <4>2 DEF slot
      <4>4. nlru[o] \in 1..n
        BY <1>6, <3>1
      <4> QED BY <3>1, <4>1, <4>3, <4>4
    <3>3. new[nlru[o]] = IF i <= at THEN Old(i - 1) ELSE Old(i)
      <4>1. tag[lru[o]] = Old(i) /\ tag[lru[o + 1]] = Old(i - 1)
        BY <1>4, <3>1
      <4> HIDE DEF Old
      <4> QED BY <1>7, <3>2, <4>1
    <3>4. CASE at <= l /\ q[at] = b
      <4>1. Has(q, b) /\ m = l
        <5>1. at \in 1..l
          BY <1>1, <3>4
        <5>2. Has(q, b)
          BY <1>3, <3>4, <5>1
        <5> QED BY <1>2, <5>2
      <4>2. i \in 2..l => (Before(q, i, b) <=> at < i)
        <5> SUFFICES ASSUME i \in 2..l PROVE Before(q, i, b) <=> at < i
          OBVIOUS
        <5>1. \A j \in 1..(i - 1) : j \in 1..l
          BY <1>1
        <5>2. at \in 1..l
          BY <1>1, <3>4
        <5>3. ASSUME at < i PROVE Before(q, i, b)
          <6>1. at \in 1..(i - 1)
            BY <1>1, <5>2, <5>3
          <6> QED BY <3>4, <6>1 DEF Before
        <5>4. ASSUME NEW j \in 1..(i - 1), q[j] = b PROVE at < i
          <6>1. j = at
            BY <1>8, <3>4, <5>1, <5>2, <5>4
          <6> QED BY <1>1, <6>1
        <5> QED BY <5>3, <5>4 DEF Before
      <4>3. CASE i <= l
        <5>1. i \in 2..m /\ i \in 2..l
          BY <1>1, <2>2, <4>1, <4>3
        <5>2. p[i] = IF at < i THEN q[i] ELSE q[i - 1]
          BY <1>2, <4>2, <5>1
        <5>3. (i <= at <=> ~(at < i)) /\ i - 1 <= l
          BY <1>1, <4>3
        <5>4. new[nlru[o]] = p[i] \div z
          BY <3>3, <4>3, <5>2, <5>3
        <5> QED BY <3>1, <4>1, <4>3, <5>4
      <4>4. CASE ~(i <= l)
        <5>1. ~(i <= at)
          BY <1>1, <3>4, <4>4
        <5> QED BY <3>1, <3>3, <4>1, <4>4, <5>1
      <4> QED BY <4>3, <4>4
    <3>5. CASE at = n /\ \A j \in 1..n : j <= l => q[j] /= b
      <4>1. i <= at /\ new[nlru[o]] = Old(i - 1)
        BY <3>3, <3>5
      <4>2. CASE i <= m
        <5>1. i \in 2..m /\ i - 1 <= l
          <6>1. m = l \/ m = l + 1
            BY <1>2
          <6>2. i \in Int /\ i >= 1 /\ i /= 1 /\ i <= m
            BY <2>2, <4>2
          <6> QED BY ONLY <1>1, <6>1, <6>2
        <5>2. ~Before(q, i, b)
          <6> SUFFICES ASSUME NEW j \in 1..(i - 1), q[j] = b PROVE FALSE
            BY DEF Before
          <6>1. j \in 1..n /\ j <= l
            <7>1. j \in Int /\ j >= 1 /\ j <= i - 1 /\ i \in 1..n /\ i - 1 <= l
              BY <5>1
            <7> QED BY ONLY <1>1, <7>1, n \in Nat \ {0}
          <6> QED BY <3>5, <6>1
        <5>3. new[nlru[o]] = p[i] \div z
          BY <1>2, <4>1, <5>1, <5>2
        <5> QED BY <3>1, <4>2, <5>3
      <4>3. CASE ~(i <= m)
        <5>1. ~Has(q, b)
          <6> SUFFICES ASSUME Has(q, b) PROVE FALSE
            OBVIOUS
          <6>1. PICK j \in 1..l : q[j] = b
            BY <1>3
          <6>2. m = l
            BY <1>2
          <6>3. j \in 1..n /\ j <= l
            <7>1. j \in Int /\ j >= 1 /\ j <= l /\ i \in 1..n /\ ~(i <= l)
              BY <1>1, <4>3, <6>2
            <7> QED BY ONLY <1>1, <7>1, n \in Nat \ {0}
          <6> QED BY <3>5, <6>1, <6>3
        <5>2. ~(i - 1 <= l)
          BY <1>1, <1>2, <4>3, <5>1
        <5> QED BY <3>1, <4>1, <4>3, <5>2
      <4> QED BY <4>2, <4>3
    <3>6. (at <= l /\ q[at] = b) \/ (at = n /\ \A j \in 1..n : j <= l => q[j] /= b)
      BY <1>9 DEF at
    <3> QED BY <3>4, <3>5, <3>6
  <2> QED BY <2>1, <2>2
<1> QED BY <1>11 DEF Kept, new, nlru, slot, m

CacheState(c) ==
  [tag : [0..(c.sets - 1) -> [1..c.ways -> Int]], lru : [0..(c.sets - 1) -> [1..c.ways -> 1..c.ways]],
   hits : Nat, cold : Nat, cap : Nat, conf : Nat]
Newest(r, z, s) == Listing(r, z, s)[Len(r)]

CacheOK(c, m, r) ==
  /\ m \in CacheState(c)
  /\ \A s \in 0..(c.sets - 1) : Permutes(m.lru[s], c.ways) /\ Kept(c.ways, m.tag[s], m.lru[s], c.sets, Newest(r, c.sets, s))
  /\ m.hits + m.cold + m.cap + m.conf = Len(r)
  /\ c.sets = 1 => m.conf = 0

LruInv ==
  /\ lc_recent \in Seq(LruBlocks) /\ IsFiniteSet(lc_seen) /\ \A x : x \in lc_seen <=> Has(lc_recent, x)
  /\ lc_cache = [c \in Configs |-> lc_cache[c]]
  /\ \A c \in Configs : CacheOK(c, lc_cache[c], lc_recent) /\ lc_cache[c].cold = Cardinality(lc_seen)
  /\ \A c, d \in Configs : c.sets = d.sets /\ c.ways <= d.ways => lc_cache[c].hits <= lc_cache[d].hits

LEMMA LruAssumed ==
  /\ LruBlocks \subseteq Nat
  /\ \A c \in Configs : c.ways \in Nat \ {0} /\ c.sets \in Nat \ {0}
  BY MemoryAssumption

LEMMA NewestHas ==
  ASSUME NEW r \in Seq(LruBlocks), NEW z, NEW s
  PROVE  /\ Newest(r, z, s) \in Seq(LruBlocks) /\ Blocked(Newest(r, z, s), z, s)
         /\ \A x : Has(Newest(r, z, s), x) <=> (Has(r, x) /\ x % z = s)
<1> DEFINE q == Newest(r, z, s)
           l == Len(r)
<1>1. l \in Nat /\ l \in 0..l
  <2>1. l \in Nat
    BY LenProperties
  <2> HIDE DEF l
  <2> QED BY <2>1
<1>2. q \in Seq(LruBlocks)
  <2>1. Listing(r, z, s) \in [0..l -> Seq(LruBlocks)]
    BY ListingIs
  <2> QED BY <1>1, <2>1 DEF Newest
<1>3. /\ \A x : Has(q, x) <=> \E j \in 1..l : r[j] = x /\ x % z = s
      /\ \A j, k \in 1..Len(q) : j < k => q[j] /= q[k]
  BY <1>1, ListingHas DEF Newest
<1>4. \A x : Has(q, x) <=> (Has(r, x) /\ x % z = s)
  BY <1>3 DEF Has
<1> HIDE DEF q, l
<1>5. q \in Seq(Nat)
  BY ONLY <1>2, LruAssumed, SeqMonotonic
<1>6. ASSUME NEW i \in 1..Len(q) PROVE q[i] % z = s
  <2>1. Has(q, q[i])
    BY DEF Has
  <2> QED BY <1>4, <2>1
<1>7. Blocked(q, z, s)
  BY <1>3, <1>5, <1>6 DEF Blocked
<1> QED BY <1>2, <1>4, <1>7 DEF q

LEMMA NewestPush ==
  ASSUME NEW r \in Seq(LruBlocks), NEW b \in LruBlocks
  PROVE  LET rr == <<b>> \o r IN
         /\ rr \in Seq(LruBlocks) /\ Len(rr) = Len(r) + 1
         /\ \A x : Has(rr, x) <=> (x = b \/ Has(r, x))
         /\ \A z, s : IF b % z = s THEN Fronted(Newest(rr, z, s), Newest(r, z, s), b) ELSE Newest(rr, z, s) = Newest(r, z, s)
<1> DEFINE l == Len(r)
           o == <<b>>
           rr == o \o r
<1>1. o \in Seq(LruBlocks) /\ Len(o) = 1 /\ o[1] = b /\ l \in Nat
  BY LenProperties
<1> HIDE DEF o, l
<1>2. /\ rr \in Seq(LruBlocks) /\ Len(rr) = Len(o) + Len(r)
      /\ \A k \in 1..(Len(o) + Len(r)) : rr[k] = IF k <= Len(o) THEN o[k] ELSE r[k - Len(o)]
  BY ONLY <1>1, r \in Seq(LruBlocks), ConcatProperties
<1> HIDE DEF rr
<1>3. Len(rr) = l + 1
  BY <1>1, <1>2 DEF l
<1>4. rr[1] = b
  <2>1. 1 \in 1..(1 + l)
    BY <1>1
  <2> QED BY <1>1, <1>2, <2>1 DEF l
<1>5. ASSUME NEW k \in 1..l PROVE rr[k + 1] = r[k]
  <2>1. k + 1 \in 1..(1 + l) /\ ~(k + 1 <= 1) /\ (k + 1) - 1 = k
    BY <1>1
  <2> QED BY <1>1, <1>2, <2>1 DEF l
<1>6. ASSUME NEW x PROVE Has(rr, x) <=> (x = b \/ Has(r, x))
  <2>1. ASSUME NEW j \in 1..(l + 1), rr[j] = x PROVE x = b \/ Has(r, x)
    <3>1. CASE j = 1
      BY <1>4, <2>1, <3>1
    <3>2. CASE j /= 1
      <4>1. j - 1 \in 1..l /\ (j - 1) + 1 = j
        BY <1>1, <3>2
      <4>2. r[j - 1] = x
        BY <1>5, <2>1, <4>1
      <4> QED BY <4>1, <4>2 DEF Has, l
    <3> QED BY <3>1, <3>2
  <2>2. ASSUME NEW j \in 1..l, r[j] = x PROVE Has(rr, x)
    <3>1. j + 1 \in 1..(l + 1)
      BY <1>1
    <3> QED BY <1>3, <1>5, <2>2, <3>1 DEF Has
  <2>3. 1 \in 1..(l + 1)
    BY <1>1
  <2> QED BY <1>3, <1>4, <2>1, <2>2, <2>3 DEF Has, l
<1>7. ASSUME NEW z, NEW s
      PROVE  IF b % z = s THEN Fronted(Newest(rr, z, s), Newest(r, z, s), b) ELSE Newest(rr, z, s) = Newest(r, z, s)
  <2>1. l \in 0..Len(r)
    BY <1>1 DEF l
  <2>2. IF b % z = s THEN Fronted(Listing(rr, z, s)[l + 1], Listing(r, z, s)[l], b)
                   ELSE Listing(rr, z, s)[l + 1] = Listing(r, z, s)[l]
    BY ONLY <2>1, r \in Seq(LruBlocks), b \in LruBlocks, ListingPush DEF rr, o
  <2>3. Newest(rr, z, s) = Listing(rr, z, s)[l + 1] /\ Newest(r, z, s) = Listing(r, z, s)[l]
    BY <1>3 DEF Newest, l
  <2> QED BY <2>2, <2>3
<1> QED BY <1>2, <1>3, <1>6, <1>7 DEF rr, o, l

\* What an access does to a cache.
LEMMA AccessIs ==
  ASSUME NEW c \in Configs, NEW m \in CacheState(c), NEW b \in LruBlocks,
         \A s \in 0..(c.sets - 1) : Permutes(m.lru[s], c.ways)
  PROVE  LET s == b % c.sets
             t == b \div c.sets
             hit == \E w \in 1..c.ways : m.tag[s][w] = t
             r == Mem!lru_access(c, m, b)
         IN  \E slot \in 1..c.ways :
               /\ IF hit THEN m.tag[s][slot] = t ELSE slot = m.lru[s][1]
               /\ r.tag = [m.tag EXCEPT ![s] = [m.tag[s] EXCEPT ![slot] = t]]
               /\ r.lru = [m.lru EXCEPT ![s] = Mem!touch(m.lru[s], slot)]
               /\ r \in CacheState(c)
               /\ r.hits = IF hit THEN m.hits + 1 ELSE m.hits
               /\ r.cold = IF ~hit /\ b \notin lc_seen THEN m.cold + 1 ELSE m.cold
               /\ IF ~hit /\ b \in lc_seen
                  THEN \/ /\ r.conf = m.conf + 1 /\ r.cap = m.cap
                          /\ \E u \in 0..(c.sets - 1) : \E w \in 1..c.ways : m.tag[u][w] = Mem!Empty
                       \/ r.conf = m.conf /\ r.cap = m.cap + 1
                  ELSE r.conf = m.conf /\ r.cap = m.cap
<1> DEFINE n == c.ways
           s == b % c.sets
           t == b \div c.sets
           Hit == {w \in 1..n : m.tag[s][w] = t}
           hit == \E w \in 1..n : m.tag[s][w] = t
           slot == IF Hit = {} THEN m.lru[s][1] ELSE Mem!Max(Hit)
           any == \E u \in DOMAIN m.tag : \E w \in 1..c.ways : m.tag[u][w] = Mem!Empty
           moved == [m EXCEPT !.tag[s][slot] = t, !.lru[s] = Mem!touch(@, slot)]
           r == Mem!lru_access(c, m, b)
<1>1. n \in Nat \ {0} /\ c.sets \in Nat \ {0} /\ b \in Int
  BY LruAssumed
<1>2. s \in 0..(c.sets - 1)
  BY ONLY <1>1, DivMod
<1>3. /\ m.tag \in [0..(c.sets - 1) -> [1..n -> Int]] /\ m.lru \in [0..(c.sets - 1) -> [1..n -> 1..n]]
      /\ m.hits \in Nat /\ m.cold \in Nat /\ m.cap \in Nat /\ m.conf \in Nat
  BY DEF CacheState
<1>4. r = IF Hit /= {} THEN [moved EXCEPT !.hits = @ + 1]
          ELSE IF b \notin lc_seen THEN [moved EXCEPT !.cold = @ + 1]
          ELSE IF any THEN [moved EXCEPT !.conf = @ + 1]
          ELSE [moved EXCEPT !.cap = @ + 1]
  BY DEF Mem!lru_access
<1>5. hit <=> Hit /= {}
  OBVIOUS
<1>6. slot \in 1..n /\ IF hit THEN m.tag[s][slot] = t ELSE slot = m.lru[s][1]
  <2>1. CASE Hit = {}
    <3>1. 1 \in 1..n
      BY <1>1
    <3>2. m.lru[s][1] \in 1..n
      BY <1>2, <1>3, <3>1, Zenon
    <3> QED BY <2>1, <3>2
  <2>2. CASE Hit /= {}
    <3>1. Hit \subseteq 1..n
      OBVIOUS
    <3> HIDE DEF Hit
    <3>2. \E x \in Hit : \A y \in Hit : x >= y
      BY ONLY <1>1, <2>2, <3>1, GreatestNumber
    <3>3. Mem!Max(Hit) \in Hit
      BY <3>2 DEF Mem!Max
    <3> QED BY <1>5, <2>2, <3>1, <3>3, Zenon DEF Hit
  <2> QED BY <2>1, <2>2, Zenon
<1>7. any <=> \E u \in 0..(c.sets - 1) : \E w \in 1..n : m.tag[u][w] = Mem!Empty
  BY <1>3
<1> DEFINE tags == [m.tag EXCEPT ![s] = [m.tag[s] EXCEPT ![slot] = t]]
           lrus == [m.lru EXCEPT ![s] = Mem!touch(m.lru[s], slot)]
<1>8. /\ moved \in CacheState(c) /\ moved.tag = tags /\ moved.lru = lrus
      /\ moved.hits = m.hits /\ moved.cold = m.cold /\ moved.cap = m.cap /\ moved.conf = m.conf
  <2>1. PICK k \in 1..n : m.lru[s][k] = slot
    <3>1. \A v \in 1..n : \E i \in 1..n : m.lru[s][i] = v
      BY <1>2 DEF Permutes
    <3> QED BY <1>6, <3>1, Zenon
  <2>2. Mem!touch(m.lru[s], slot) \in [1..n -> 1..n]
    <3> DEFINE q == m.lru[s]
    <3>1. q \in [1..n -> 1..n] /\ Permutes(q, n)
      BY <1>2, <1>3
    <3> HIDE DEF q
    <3>2. Mem!touch(q, q[k]) \in [1..n -> 1..n]
      BY ONLY <1>1, <3>1, k \in 1..n, TouchIs
    <3> QED BY <2>1, <3>2, Zenon DEF q
  <2>3. t \in Int
    BY ONLY <1>1, DivMod, Zenon
  <2>4. slot \in 1..n
    BY <1>6, Zenon
  <2> HIDE DEF slot, s, t, n
  <2>5. moved = [m EXCEPT !.tag = tags, !.lru = lrus]
    BY DEF CacheState
  <2>6. tags \in [0..(c.sets - 1) -> [1..n -> Int]]
    BY <1>2, <1>3, <2>3, <2>4
  <2>7. lrus \in [0..(c.sets - 1) -> [1..n -> 1..n]]
    BY <1>2, <1>3, <2>2
  <2> HIDE DEF moved, tags, lrus
  <2>8. moved \in CacheState(c)
    BY <2>5, <2>6, <2>7 DEF CacheState, n
  <2> QED BY <2>5, <2>8 DEF CacheState
<1> DEFINE any2 == \E u \in 0..(c.sets - 1) : \E w \in 1..n : m.tag[u][w] = Mem!Empty
<1>9. r = IF hit THEN [moved EXCEPT !.hits = m.hits + 1]
          ELSE IF b \notin lc_seen THEN [moved EXCEPT !.cold = m.cold + 1]
          ELSE IF any2 THEN [moved EXCEPT !.conf = m.conf + 1]
          ELSE [moved EXCEPT !.cap = m.cap + 1]
  <2> HIDE DEF moved, Hit, any, r, hit, any2
  <2> QED BY <1>4, <1>5, <1>7, <1>8 DEF any2
<1> HIDE DEF slot, s, t, Hit, hit, any, moved, r, tags, lrus, any2
<1> DEFINE h1 == m.hits + 1
           c1 == m.cold + 1
           f1 == m.conf + 1
           p1 == m.cap + 1
<1>10. h1 \in Nat /\ c1 \in Nat /\ f1 \in Nat /\ p1 \in Nat
  BY <1>3
<1> HIDE DEF h1, c1, f1, p1
<1>11. r = IF hit THEN [moved EXCEPT !.hits = h1]
           ELSE IF b \notin lc_seen THEN [moved EXCEPT !.cold = c1]
           ELSE IF any2 THEN [moved EXCEPT !.conf = f1]
           ELSE [moved EXCEPT !.cap = p1]
  BY <1>9 DEF h1, c1, f1, p1
<1>12. /\ r.tag = tags /\ r.lru = lrus /\ r \in CacheState(c)
       /\ r.hits = IF hit THEN h1 ELSE m.hits
       /\ r.cold = IF ~hit /\ b \notin lc_seen THEN c1 ELSE m.cold
       /\ IF ~hit /\ b \in lc_seen
          THEN (r.conf = f1 /\ r.cap = m.cap /\ any2) \/ (r.conf = m.conf /\ r.cap = p1)
          ELSE r.conf = m.conf /\ r.cap = m.cap
  <2>1. CASE hit
    <3>1. r = [moved EXCEPT !.hits = h1]
      BY <1>11, <2>1
    <3> QED BY <1>8, <1>10, <2>1, <3>1 DEF CacheState
  <2>2. CASE ~hit /\ b \notin lc_seen
    <3>1. r = [moved EXCEPT !.cold = c1]
      BY <1>11, <2>2
    <3> QED BY <1>8, <1>10, <2>2, <3>1 DEF CacheState
  <2>3. CASE ~hit /\ b \in lc_seen /\ any2
    <3>1. r = [moved EXCEPT !.conf = f1]
      BY <1>11, <2>3
    <3> QED BY <1>8, <1>10, <2>3, <3>1 DEF CacheState
  <2>4. CASE ~hit /\ b \in lc_seen /\ ~any2
    <3>1. r = [moved EXCEPT !.cap = p1]
      BY <1>11, <2>4
    <3> QED BY <1>8, <1>10, <2>4, <3>1 DEF CacheState
  <2> QED BY <2>1, <2>2, <2>3, <2>4
<1> QED BY <1>6, <1>12 DEF s, t, hit, r, tags, lrus, any2, h1, c1, f1, p1

\* Whether a block is held: it is among the latest, as many as there are ways.
Holds(c, r, b) == \E i \in 1..c.ways : LET q == Newest(r, c.sets, b % c.sets) IN i <= Len(q) /\ q[i] = b

LEMMA CacheStep ==
  ASSUME NEW c \in Configs, NEW m, NEW r \in Seq(LruBlocks), CacheOK(c, m, r), NEW b \in LruBlocks,
         b \in lc_seen <=> Has(r, b)
  PROVE  LET mm == Mem!lru_access(c, m, b) IN
         /\ CacheOK(c, mm, <<b>> \o r)
         /\ mm.hits = IF Holds(c, r, b) THEN m.hits + 1 ELSE m.hits
         /\ mm.cold = IF b \in lc_seen THEN m.cold ELSE m.cold + 1
<1> DEFINE n == c.ways
           z == c.sets
           s0 == b % z
           t == b \div z
           mm == Mem!lru_access(c, m, b)
           rr == <<b>> \o r
           tag == m.tag[s0]
           lru == m.lru[s0]
           q == Newest(r, z, s0)
           p == Newest(rr, z, s0)
           hit == \E w \in 1..n : m.tag[s0][w] = t
<1>1. n \in Nat \ {0} /\ z \in Nat \ {0} /\ b \in Nat /\ b \in Int
  BY LruAssumed
<1>2. s0 \in 0..(z - 1)
  BY ONLY <1>1, DivMod
<1>3. m \in CacheState(c) /\ \A s \in 0..(z - 1) : Permutes(m.lru[s], n)
  BY DEF CacheOK
<1>4. /\ m.tag \in [0..(z - 1) -> [1..n -> Int]] /\ m.lru \in [0..(z - 1) -> [1..n -> 1..n]]
      /\ m.hits \in Nat /\ m.cold \in Nat /\ m.cap \in Nat /\ m.conf \in Nat
  BY <1>3 DEF CacheState
<1>5. PICK slot \in 1..n :
        /\ IF hit THEN m.tag[s0][slot] = t ELSE slot = m.lru[s0][1]
        /\ mm.tag = [m.tag EXCEPT ![s0] = [m.tag[s0] EXCEPT ![slot] = t]]
        /\ mm.lru = [m.lru EXCEPT ![s0] = Mem!touch(m.lru[s0], slot)]
        /\ mm \in CacheState(c)
        /\ mm.hits = IF hit THEN m.hits + 1 ELSE m.hits
        /\ mm.cold = IF ~hit /\ b \notin lc_seen THEN m.cold + 1 ELSE m.cold
        /\ IF ~hit /\ b \in lc_seen
           THEN \/ /\ mm.conf = m.conf + 1 /\ mm.cap = m.cap
                   /\ \E u \in 0..(z - 1) : \E w \in 1..n : m.tag[u][w] = Mem!Empty
                \/ mm.conf = m.conf /\ mm.cap = m.cap + 1
           ELSE mm.conf = m.conf /\ mm.cap = m.cap
  BY <1>3, AccessIs
<1>6. /\ tag \in [1..n -> Int] /\ lru \in [1..n -> 1..n] /\ Permutes(lru, n) /\ Kept(n, tag, lru, z, q)
  BY <1>2, <1>4 DEF CacheOK
<1>7. /\ rr \in Seq(LruBlocks) /\ Len(rr) = Len(r) + 1
      /\ \A x : Has(rr, x) <=> (x = b \/ Has(r, x))
      /\ \A s : IF b % z = s THEN Fronted(Newest(rr, z, s), Newest(r, z, s), b) ELSE Newest(rr, z, s) = Newest(r, z, s)
  BY NewestPush
<1>8. Blocked(q, z, s0) /\ q \in Seq(LruBlocks) /\ \A x : Has(q, x) <=> (Has(r, x) /\ x % z = s0)
  BY NewestHas
<1>9. p \in Seq(Nat)
  <2>1. p \in Seq(LruBlocks)
    BY <1>7, NewestHas
  <2> QED BY ONLY <2>1, LruAssumed, SeqMonotonic
<1>10. Fronted(p, q, b)
  BY <1>7
<1>11. b % z = s0
  OBVIOUS
<1>12. Holds(c, r, b) <=> \E i \in 1..n : i <= Len(q) /\ q[i] = b
  BY DEF Holds
<1>13. hit <=> \E w \in 1..n : tag[w] = t
  OBVIOUS
<1> HIDE DEF p, q, rr, mm, tag, lru, n, z, hit, s0
<1>14. /\ \A w \in 1..n : tag[w] = t => \E k \in 1..n : k <= Len(q) /\ q[k] = b /\ lru[n + 1 - k] = w
       /\ \A k \in 1..n : k <= Len(q) /\ q[k] = b => tag[lru[n + 1 - k]] = t
  <2>1. OfSet(b, z, s0)
    BY <1>1, <1>11 DEF OfSet
  <2>2. n \in Nat \ {0} /\ z \in Nat \ {0} /\ b \in Nat
    BY <1>1
  <2>3. tag \in [1..n -> Int] /\ lru \in [1..n -> 1..n] /\ Permutes(lru, n) /\ Kept(n, tag, lru, z, q) /\ Blocked(q, z, s0)
    BY <1>6, <1>8
  <2>4. Located(n, tag, lru, z, q, b)
    BY ONLY <2>1, <2>2, <2>3, HitIs
  <2> QED BY <2>4 DEF Located
<1>15. hit <=> Holds(c, r, b)
  <2>1. \A k \in 1..n : lru[n + 1 - k] \in 1..n
    <3>1. \A k \in 1..n : n + 1 - k \in 1..n
      BY <1>1
    <3> QED BY <1>6, <3>1
  <2> QED BY <1>12, <1>13, <1>14, <2>1
<1>16. PICK k \in 1..n : lru[k] = slot
  BY <1>6 DEF Permutes
<1>17. \/ n + 1 - k <= Len(q) /\ q[n + 1 - k] = b
       \/ k = 1 /\ \A i \in 1..n : i <= Len(q) => q[i] /= b
  <2>1. \A i, j \in 1..n : lru[i] = lru[j] => i = j
    BY <1>6 DEF Permutes
  <2>2. CASE hit
    <3>1. tag[slot] = t
      BY <1>5, <2>2 DEF tag
    <3>2. PICK j \in 1..n : j <= Len(q) /\ q[j] = b /\ lru[n + 1 - j] = slot
      BY <1>14, <3>1
    <3>3. n + 1 - j \in 1..n
      BY <1>1
    <3>4. k = n + 1 - j
      BY <1>16, <2>1, <3>2, <3>3
    <3>5. n + 1 - k = j
      BY <1>1, <3>4
    <3> QED BY <3>2, <3>5
  <2>3. CASE ~hit
    <3>1. slot = lru[1] /\ 1 \in 1..n
      BY <1>1, <1>5, <2>3 DEF lru
    <3>2. k = 1
      BY <1>16, <2>1, <3>1
    <3>3. ~Holds(c, r, b)
      BY <1>15, <2>3
    <3> QED BY <1>12, <3>2, <3>3
  <2> QED BY <2>2, <2>3
<1>18. Kept(n, [tag EXCEPT ![slot] = t], Mem!touch(lru, slot), z, p)
  <2>1. Kept(n, [tag EXCEPT ![lru[k]] = b \div z], Mem!touch(lru, lru[k]), z, p)
    BY ONLY <1>1, <1>6, <1>8, <1>9, <1>10, <1>17, k \in 1..n, KeptStep
  <2> QED BY <1>16, <2>1
<1>19. Permutes(Mem!touch(lru, slot), n)
  <2>1. Permutes(Mem!touch(lru, lru[k]), n)
    BY ONLY <1>1, <1>6, k \in 1..n, TouchIs
  <2> QED BY <1>16, <2>1
<1>20. ASSUME NEW s \in 0..(z - 1) PROVE Permutes(mm.lru[s], n) /\ Kept(n, mm.tag[s], mm.lru[s], z, Newest(rr, z, s))
  <2>1. CASE s = s0
    <3>1. mm.tag[s] = [tag EXCEPT ![slot] = t] /\ mm.lru[s] = Mem!touch(lru, slot)
      BY <1>2, <1>4, <1>5, <2>1 DEF tag, lru
    <3>2. Newest(rr, z, s) = p
      BY <2>1 DEF p
    <3> QED BY <1>18, <1>19, <3>1, <3>2
  <2>2. CASE s /= s0
    <3>1. mm.tag[s] = m.tag[s] /\ mm.lru[s] = m.lru[s]
      BY <1>2, <1>4, <1>5, <2>2
    <3>2. Newest(rr, z, s) = Newest(r, z, s)
      BY <1>7, <1>11, <2>2
    <3>3. Permutes(m.lru[s], n) /\ Kept(n, m.tag[s], m.lru[s], z, Newest(r, z, s))
      BY DEF CacheOK, n, z
    <3> QED BY <3>1, <3>2, <3>3
  <2> QED BY <2>1, <2>2
<1>21. hit => b \in lc_seen
  <2> SUFFICES ASSUME hit PROVE b \in lc_seen
    OBVIOUS
  <2>1. PICK i \in 1..n : i <= Len(q) /\ q[i] = b
    BY <1>12, <1>15
  <2>2. i \in 1..Len(q)
    <3>1. Len(q) \in Nat
      BY ONLY <1>8, LenProperties
    <3> QED BY <2>1, <3>1
  <2>3. Has(q, b)
    BY <2>1, <2>2 DEF Has
  <2> QED BY <1>8, <2>3
<1>22. mm.cold = IF b \in lc_seen THEN m.cold ELSE m.cold + 1
  BY <1>5, <1>21
<1>23. mm.hits = IF Holds(c, r, b) THEN m.hits + 1 ELSE m.hits
  BY <1>5, <1>15
<1>24. mm.hits + mm.cold + mm.cap + mm.conf = Len(rr)
  <2> DEFINE l == Len(r)
             h == m.hits
             d == m.cold
             e == m.cap
             f == m.conf
  <2>1. h + d + e + f = l /\ h \in Nat /\ d \in Nat /\ e \in Nat /\ f \in Nat
    BY <1>4 DEF CacheOK
  <2>2. Len(rr) = l + 1
    BY <1>7
  <2>3. \/ mm.hits = h + 1 /\ mm.cold = d /\ mm.cap = e /\ mm.conf = f
        \/ mm.hits = h /\ mm.cold = d + 1 /\ mm.cap = e /\ mm.conf = f
        \/ mm.hits = h /\ mm.cold = d /\ mm.cap = e /\ mm.conf = f + 1
        \/ mm.hits = h /\ mm.cold = d /\ mm.cap = e + 1 /\ mm.conf = f
    <3>1. CASE hit
      BY <1>5, <3>1
    <3>2. CASE ~hit /\ b \notin lc_seen
      BY <1>5, <3>2
    <3>3. CASE ~hit /\ b \in lc_seen
      BY <1>5, <3>3
    <3> QED BY <3>1, <3>2, <3>3
  <2> HIDE DEF l, h, d, e, f
  <2> DEFINE hh == mm.hits
             dd == mm.cold
             ee == mm.cap
             ff == mm.conf
  <2>4. \/ hh = h + 1 /\ dd = d /\ ee = e /\ ff = f
        \/ hh = h /\ dd = d + 1 /\ ee = e /\ ff = f
        \/ hh = h /\ dd = d /\ ee = e /\ ff = f + 1
        \/ hh = h /\ dd = d /\ ee = e + 1 /\ ff = f
    BY <2>3
  <2> HIDE DEF hh, dd, ee, ff
  <2>5. hh + dd + ee + ff = l + 1
    BY ONLY <2>1, <2>4
  <2> QED BY <2>2, <2>5 DEF hh, dd, ee, ff
<1>25. ASSUME z = 1 PROVE mm.conf = 0
  <2>1. m.conf = 0
    BY <1>25 DEF CacheOK, z
  <2> SUFFICES ASSUME mm.conf /= m.conf PROVE FALSE
    BY <2>1
  <2>2. ~hit /\ b \in lc_seen /\ \E u \in 0..(z - 1) : \E w \in 1..n : m.tag[u][w] = Mem!Empty
    BY <1>5
  <2>3. PICK u \in 0..(z - 1), w \in 1..n : m.tag[u][w] = Mem!Empty
    BY <2>2
  <2>4. u = s0
    BY <1>2, <1>25
  <2>5. Has(q, b)
    BY <1>8, <1>11, <2>2
  <2>6. PICK j \in 1..Len(q) : q[j] = b
    BY <2>5 DEF Has
  <2>7. Len(q) \in Nat
    BY ONLY <1>8, LenProperties
  <2>8. Len(q) >= n
    <3>1. j \notin 1..n
      BY <1>12, <1>15, <2>2, <2>6
    <3> QED BY ONLY <1>1, <2>7, <3>1, j \in 1..Len(q)
  <2>9. PICK i \in 1..n : lru[i] = w
    BY <1>6 DEF Permutes
  <2> DEFINE o == n + 1 - i
  <2>10. o \in 1..n /\ n + 1 - o = i
    BY <1>1
  <2> HIDE DEF o
  <2>11. tag[w] = IF o <= Len(q) THEN q[o] \div z ELSE Mem!Empty
    BY <1>6, <2>9, <2>10 DEF Kept
  <2>12. o \in 1..Len(q) /\ o <= Len(q)
    BY <1>1, <2>7, <2>8, <2>10
  <2>13. q[o] \in LruBlocks
    BY ONLY <1>8, <2>12, ElementOfSeq
  <2>14. q[o] \in Nat
    BY <2>13, LruAssumed
  <2>15. q[o] \div z \in Nat
    BY ONLY <1>1, <2>14, QuotientIs
  <2>16. Mem!Empty \notin Nat
    BY DEF Mem!Empty
  <2> QED BY <2>3, <2>4, <2>11, <2>12, <2>15, <2>16 DEF tag
<1>26. CacheOK(c, mm, rr)
  BY <1>5, <1>20, <1>24, <1>25 DEF CacheOK, n, z
<1> QED BY <1>22, <1>23, <1>26 DEF mm, rr

LEMMA LruBegins == Mem!LruInit => LruInv
<1> SUFFICES ASSUME Mem!LruInit PROVE LruInv
  OBVIOUS
<1> DEFINE M(c) == [tag |-> [s \in 0..(c.sets - 1) |-> [w \in 1..c.ways |-> Mem!Empty]],
                    lru |-> [s \in 0..(c.sets - 1) |-> [w \in 1..c.ways |-> w]],
                    hits |-> 0, cold |-> 0, cap |-> 0, conf |-> 0]
<1>1. lc_cache = [c \in Configs |-> M(c)] /\ lc_seen = {} /\ lc_recent = <<>>
  BY DEF Mem!LruInit
<1>2. lc_recent \in Seq(LruBlocks) /\ Len(lc_recent) = 0 /\ \A x : ~Has(lc_recent, x)
  BY <1>1 DEF Has
<1>3. IsFiniteSet(lc_seen) /\ Cardinality(lc_seen) = 0
  BY <1>1, FS_EmptySet
<1>4. ASSUME NEW c \in Configs PROVE CacheOK(c, M(c), lc_recent)
  <2> DEFINE n == c.ways
             z == c.sets
  <2>1. n \in Nat \ {0} /\ z \in Nat \ {0}
    BY LruAssumed
  <2>2. M(c) \in CacheState(c)
    <3>1. Mem!Empty \in Int
      BY DEF Mem!Empty
    <3> QED BY <3>1 DEF CacheState
  <2>3. ASSUME NEW s \in 0..(z - 1)
        PROVE  Permutes(M(c).lru[s], n) /\ Kept(n, M(c).tag[s], M(c).lru[s], z, Newest(lc_recent, z, s))
    <3> DEFINE q == Newest(lc_recent, z, s)
               u == M(c).lru[s]
               v == M(c).tag[s]
    <3>1. u = [w \in 1..n |-> w] /\ v = [w \in 1..n |-> Mem!Empty]
      OBVIOUS
    <3>2. q = <<>>
      <4>1. Listing(lc_recent, z, s)[0] = <<>>
        <5>1. lc_recent \in Seq(LruBlocks)
          BY <1>2
        <5> QED BY ONLY <5>1, ListingIs
      <4> QED BY <1>2, <4>1 DEF Newest
    <3>3. Len(q) = 0
      BY <3>2
    <3> HIDE DEF q, u, v, n, z
    <3>4. Permutes(u, n)
      BY <3>1 DEF Permutes
    <3>5. ASSUME NEW i \in 1..n PROVE v[u[n + 1 - i]] = IF i <= Len(q) THEN q[i] \div z ELSE Mem!Empty
      <4>1. n + 1 - i \in 1..n /\ ~(i <= 0)
        BY <2>1
      <4> QED BY <3>1, <3>3, <4>1
    <3>6. Kept(n, v, u, z, q)
      BY <3>5 DEF Kept
    <3> QED BY <3>4, <3>6 DEF u, v, q, n, z
  <2>4. M(c).hits + M(c).cold + M(c).cap + M(c).conf = 0 /\ M(c).conf = 0
    OBVIOUS
  <2> HIDE DEF M
  <2> QED BY <1>2, <2>2, <2>3, <2>4 DEF CacheOK
<1>5. \A c \in Configs : lc_cache[c] = M(c) /\ lc_cache[c].cold = 0 /\ lc_cache[c].hits = 0
  BY <1>1
<1>6. lc_cache = [c \in Configs |-> lc_cache[c]]
  BY <1>1
<1> HIDE DEF M
<1>7. \A x : x \in lc_seen <=> Has(lc_recent, x)
  BY <1>1, <1>2
<1>8. \A c \in Configs : CacheOK(c, lc_cache[c], lc_recent) /\ lc_cache[c].cold = Cardinality(lc_seen)
  BY <1>3, <1>4, <1>5
<1>9. \A c, d \in Configs : lc_cache[c].hits <= lc_cache[d].hits
  <2>1. 0 <= 0
    OBVIOUS
  <2> QED BY <1>5, <2>1
<1> QED BY <1>2, <1>3, <1>6, <1>7, <1>8, <1>9 DEF LruInv

LEMMA LruStep ==
  ASSUME LruInv, NEW b \in LruBlocks, Mem!LruAccess(b) PROVE LruInv'
<1> DEFINE r == lc_recent
           rr == <<b>> \o r
           N(c) == Mem!lru_access(c, lc_cache[c], b)
<1>1. /\ lc_cache' = [c \in Configs |-> N(c)] /\ lc_seen' = lc_seen \cup {b} /\ lc_recent' = rr
  BY DEF Mem!LruAccess
<1>2. /\ r \in Seq(LruBlocks) /\ IsFiniteSet(lc_seen) /\ \A x : x \in lc_seen <=> Has(r, x)
      /\ \A c \in Configs : CacheOK(c, lc_cache[c], r) /\ lc_cache[c].cold = Cardinality(lc_seen)
      /\ \A c, d \in Configs : c.sets = d.sets /\ c.ways <= d.ways => lc_cache[c].hits <= lc_cache[d].hits
  BY DEF LruInv
<1>3. rr \in Seq(LruBlocks) /\ \A x : Has(rr, x) <=> (x = b \/ Has(r, x))
  BY <1>2, NewestPush
<1>4. ASSUME NEW c \in Configs
      PROVE  /\ CacheOK(c, N(c), rr)
             /\ N(c).hits = IF Holds(c, r, b) THEN lc_cache[c].hits + 1 ELSE lc_cache[c].hits
             /\ N(c).cold = IF b \in lc_seen THEN lc_cache[c].cold ELSE lc_cache[c].cold + 1
  BY <1>2, CacheStep
<1> HIDE DEF N, rr, r
<1>5. \A c \in Configs : lc_cache'[c] = N(c)
  BY <1>1
<1>6. IsFiniteSet(lc_seen') /\ Cardinality(lc_seen') = IF b \in lc_seen THEN Cardinality(lc_seen) ELSE Cardinality(lc_seen) + 1
  <2>1. IsFiniteSet(lc_seen \cup {b})
    BY <1>2, FS_AddElement
  <2>2. Cardinality(lc_seen \cup {b}) = IF b \in lc_seen THEN Cardinality(lc_seen) ELSE Cardinality(lc_seen) + 1
    BY <1>2, FS_AddElement
  <2> QED BY <1>1, <2>1, <2>2
<1>7. ASSUME NEW c \in Configs PROVE CacheOK(c, lc_cache'[c], rr) /\ lc_cache'[c].cold = Cardinality(lc_seen')
  BY <1>2, <1>4, <1>5, <1>6
<1>8. ASSUME NEW c \in Configs, NEW d \in Configs, c.sets = d.sets, c.ways <= d.ways
      PROVE  lc_cache'[c].hits <= lc_cache'[d].hits
  <2>1. lc_cache[c].hits <= lc_cache[d].hits /\ lc_cache[c].hits \in Nat /\ lc_cache[d].hits \in Nat
    <3>1. lc_cache[c] \in CacheState(c) /\ lc_cache[d] \in CacheState(d)
      BY <1>2 DEF CacheOK
    <3> QED BY <1>2, <1>8, <3>1 DEF CacheState
  <2>2. Holds(c, r, b) => Holds(d, r, b)
    <3> SUFFICES ASSUME Holds(c, r, b) PROVE Holds(d, r, b)
      OBVIOUS
    <3> DEFINE q == Newest(r, d.sets, b % d.sets)
    <3>1. q = Newest(r, c.sets, b % c.sets)
      BY <1>8
    <3>2. PICK i \in 1..c.ways : i <= Len(q) /\ q[i] = b
      BY <3>1 DEF Holds
    <3>3. i \in 1..d.ways
      BY <1>8, LruAssumed
    <3> QED BY <3>2, <3>3 DEF Holds
  <2>3. /\ lc_cache'[c].hits = IF Holds(c, r, b) THEN lc_cache[c].hits + 1 ELSE lc_cache[c].hits
        /\ lc_cache'[d].hits = IF Holds(d, r, b) THEN lc_cache[d].hits + 1 ELSE lc_cache[d].hits
    BY <1>4, <1>5
  <2>4. CASE Holds(c, r, b)
    BY <2>1, <2>2, <2>3, <2>4
  <2>5. CASE ~Holds(c, r, b)
    BY <2>1, <2>3, <2>5
  <2> QED BY <2>4, <2>5
<1>9. lc_cache' = [c \in Configs |-> lc_cache'[c]]
  BY <1>1
<1>10. \A x : x \in lc_seen' <=> Has(rr, x)
  BY <1>1, <1>2, <1>3
<1>11. \A c \in Configs : CacheOK(c, lc_cache[c], lc_recent)' <=> CacheOK(c, lc_cache'[c], rr)
  BY <1>1 DEF CacheOK, CacheState, Kept, Newest, Listing, Listed
<1>12. \A x : Has(lc_recent, x)' <=> Has(rr, x)
  BY <1>1 DEF Has
<1> QED BY <1>1, <1>3, <1>6, <1>7, <1>8, <1>9, <1>10, <1>11, <1>12 DEF LruInv

LEMMA LruHolds == LruInv => Mem!HoldsTheLatest
<1> SUFFICES ASSUME LruInv PROVE Mem!HoldsTheLatest
  OBVIOUS
<1>1. \A c, s : Mem!Latest(c, s) = Newest(lc_recent, c.sets, s)
  BY DEF Mem!Latest, Newest, Listing, Listed
<1>2. ASSUME NEW c \in Configs, NEW s \in 0..(c.sets - 1)
      PROVE  [i \in 1..c.ways |-> lc_cache[c].tag[s][lc_cache[c].lru[s][c.ways + 1 - i]]] =
             [i \in 1..c.ways |-> IF i <= Len(Mem!Latest(c, s)) THEN Mem!Latest(c, s)[i] \div c.sets ELSE Mem!Empty]
  <2>1. Kept(c.ways, lc_cache[c].tag[s], lc_cache[c].lru[s], c.sets, Mem!Latest(c, s))
    BY <1>1 DEF LruInv, CacheOK
  <2> QED BY <2>1 DEF Kept
<1>3. ASSUME NEW c \in Configs
      PROVE  /\ lc_cache[c].hits + lc_cache[c].cold + lc_cache[c].cap + lc_cache[c].conf = Len(lc_recent)
             /\ lc_cache[c].cold = Mem!Cardinality(lc_seen)
             /\ c.sets = 1 => lc_cache[c].conf = 0
  BY MemCounted DEF LruInv, CacheOK
<1>4. \A c, d \in Configs : c.sets = d.sets /\ c.ways <= d.ways => lc_cache[c].hits <= lc_cache[d].hits
  BY DEF LruInv
<1> QED BY <1>2, <1>3, <1>4 DEF Mem!HoldsTheLatest

\* cpu-model-core-mem-lab 4, lru_access: a set holds the blocks used last in the order of
\* their use, each access is counted once, and more ways never mean fewer hits.
THEOREM LatestHeld == Mem!LruSpec => []Mem!HoldsTheLatest
<1>1. LruInv /\ [Mem!LruNext]_(Mem!lru_vars) => LruInv'
  <2> SUFFICES ASSUME LruInv, [Mem!LruNext]_(Mem!lru_vars) PROVE LruInv'
    OBVIOUS
  <2>1. CASE UNCHANGED Mem!lru_vars
    <3>1. lc_cache' = lc_cache /\ lc_seen' = lc_seen /\ lc_recent' = lc_recent
      BY <2>1 DEF Mem!lru_vars
    <3>2. \A c \in Configs : CacheOK(c, lc_cache[c], lc_recent)' <=> CacheOK(c, lc_cache[c], lc_recent)
      BY <3>1 DEF CacheOK, CacheState, Kept, Newest, Listing, Listed
    <3>3. \A x : Has(lc_recent, x)' <=> Has(lc_recent, x)
      BY <3>1 DEF Has
    <3> QED BY <3>1, <3>2, <3>3 DEF LruInv
  <2>2. CASE Mem!LruNext
    BY <2>2, LruStep DEF Mem!LruNext
  <2> QED BY <2>1, <2>2
<1> QED BY <1>1, LruBegins, LruHolds, PTL DEF Mem!LruSpec

------------------------------------------------------------------------------
(***************************************************************************)
(* The store buffer: what a fence costs and what it leaves.                *)
(***************************************************************************)
CoreState == [buffered : Nat, coreStall : Nat, drains : Nat, fences : Nat, unseen : Nat]

\* A core that drains each store, at once or by a fence, pays for all of them; one that
\* does not has paid for all but those it holds.
StoresOK(m, s, i) ==
  /\ s \in CoreState
  /\ s.buffered = s.unseen /\ s.buffered < SB
  /\ ~m.tso => s.unseen = 0 /\ s.coreStall = i * drainPerStore
  /\ m.tso /\ m.every > 0 /\ i % m.every = 0 => s.unseen = 0
  /\ m.tso /\ m.every = 1 => s.coreStall = i * drainPerStore
  /\ s.coreStall + s.buffered * drainPerStore <= i * drainPerStore
\* A drain costs at least a store, and covers no more than a full buffer; without fences
\* exactly that.
DrainsOK(m, s, i) ==
  m.tso => /\ s.drains * drainPerStore <= s.coreStall /\ i <= s.drains * SB + s.buffered
           /\ m.every = 0 => /\ s.drains * drainPerStore = s.coreStall
                             /\ i = s.drains * SB + s.buffered
StoInv ==
  /\ sb_i \in Nat /\ sb_core = [m \in Mem!Modes |-> sb_core[m]]
  /\ \A m \in Mem!Modes : StoresOK(m, sb_core[m], sb_i) /\ DrainsOK(m, sb_core[m], sb_i)

LEMMA StoAssumed == SB \in Nat \ {0} /\ drainPerStore \in Nat /\ \A m \in Mem!Modes : m.tso \in BOOLEAN /\ m.every \in Nat
  BY MemoryAssumption DEF Mem!Modes

LEMMA StoBegins == Mem!StoInit => StoInv
<1> SUFFICES ASSUME Mem!StoInit PROVE StoInv
  OBVIOUS
<1> DEFINE s0 == [buffered |-> 0, coreStall |-> 0, drains |-> 0, fences |-> 0, unseen |-> 0]
<1>1. sb_i = 0 /\ sb_core = [m \in Mem!Modes |-> s0]
  BY DEF Mem!StoInit
<1>2. s0 \in CoreState /\ s0.buffered = 0 /\ s0.unseen = 0 /\ s0.coreStall = 0 /\ s0.drains = 0
  BY DEF CoreState
<1> HIDE DEF s0
<1>3. ASSUME NEW m \in Mem!Modes PROVE StoresOK(m, s0, 0)
  <2>1. 0 * drainPerStore = 0 /\ 0 + 0 <= 0 /\ 0 < SB
    BY StoAssumed
  <2> QED BY <1>2, <2>1 DEF StoresOK
<1>4. ASSUME NEW m \in Mem!Modes PROVE DrainsOK(m, s0, 0)
  <2>1. 0 * drainPerStore = 0 /\ 0 * SB = 0 /\ 0 + 0 = 0 /\ 0 <= 0
    BY StoAssumed
  <2> QED BY <1>2, <2>1 DEF DrainsOK
<1> QED BY <1>1, <1>3, <1>4 DEF StoInv

LEMMA StoreOne ==
  ASSUME NEW m \in Mem!Modes, NEW s, NEW i \in Nat, StoresOK(m, s, i)
  PROVE  LET t == Mem!Stored(m, s)
         IN  /\ t \in CoreState /\ t.buffered = t.unseen /\ t.buffered < SB
             /\ ~m.tso => t.unseen = 0 /\ t.coreStall = (i + 1) * drainPerStore
             /\ t.coreStall + t.buffered * drainPerStore <= (i + 1) * drainPerStore
             /\ s.unseen = 0 /\ s.coreStall = i * drainPerStore =>
                  t.coreStall + t.buffered * drainPerStore = (i + 1) * drainPerStore
<1> DEFINE k == drainPerStore
           n == s.buffered
           c == s.coreStall
<1>1. SB \in Nat \ {0} /\ k \in Nat /\ m.tso \in BOOLEAN
  BY StoAssumed
<1>2. s \in CoreState /\ n = s.unseen /\ n < SB /\ n \in Nat /\ c \in Nat /\ c + n * k <= i * k
      /\ (~m.tso => n = 0 /\ c = i * k) /\ s.drains \in Nat
  BY DEF StoresOK, CoreState
<1> DEFINE b == IF n + 1 > SB THEN SB ELSE n + 1
           flushed == [s EXCEPT !.coreStall = @ + k, !.drains = @ + 1, !.buffered = 0, !.unseen = 0]
           more == [s EXCEPT !.buffered = b, !.unseen = @ + 1]
<1>3. b = n + 1
  BY <1>1, <1>2
<1>4. Mem!Stored(m, s) = IF ~m.tso \/ b >= SB THEN flushed ELSE more
  BY DEF Mem!Stored
<1>5. flushed \in CoreState /\ flushed.buffered = 0 /\ flushed.unseen = 0 /\ flushed.coreStall = c + k
  <2> DEFINE a == s.coreStall + k
             d == s.drains + 1
  <2>1. a \in Nat /\ d \in Nat /\ s \in CoreState
    BY <1>1, <1>2
  <2> HIDE DEF a, d
  <2>2. LET f == [s EXCEPT !.coreStall = a, !.drains = d, !.buffered = 0, !.unseen = 0]
        IN  f \in CoreState /\ f.buffered = 0 /\ f.unseen = 0 /\ f.coreStall = a
    BY ONLY <2>1 DEF CoreState
  <2> QED BY <2>2 DEF a, d
<1>6. more \in CoreState /\ more.buffered = n + 1 /\ more.unseen = n + 1 /\ more.coreStall = c
  <2> DEFINE u == s.unseen + 1
  <2>1. b \in Nat /\ u \in Nat /\ s \in CoreState /\ b = n + 1 /\ u = n + 1
    BY <1>2, <1>3
  <2> HIDE DEF b, u
  <2>2. LET f == [s EXCEPT !.buffered = b, !.unseen = u]
        IN  f \in CoreState /\ f.buffered = b /\ f.unseen = u /\ f.coreStall = s.coreStall
    BY ONLY <2>1 DEF CoreState
  <2> QED BY <2>1, <2>2 DEF u
<1>7. (i + 1) * k = i * k + k /\ (n + 1) * k = n * k + k /\ i * k \in Nat /\ n * k \in Nat /\ 0 * k = 0
  BY <1>1, <1>2
<1> HIDE DEF flushed, more, b, k, n, c
<1>8. CASE ~m.tso \/ b >= SB
  <2>1. Mem!Stored(m, s) = flushed
    BY <1>4, <1>8
  <2>2. 0 < SB
    BY <1>1
  <2>3. ~m.tso => c + k = (i + 1) * k
    BY <1>2, <1>7
  <2>4. (c + k) + 0 * k <= (i + 1) * k
    <3>1. c + n * k <= i * k /\ c \in Nat /\ k \in Nat
      BY <1>1, <1>2
    <3> QED BY ONLY <1>7, <3>1
  <2>5. c = i * k => (c + k) + 0 * k = (i + 1) * k
    <3>1. c \in Nat /\ k \in Nat
      BY <1>1, <1>2
    <3> QED BY ONLY <1>7, <3>1
  <2> QED BY <1>2, <1>5, <2>1, <2>2, <2>3, <2>4, <2>5 DEF k, n, c
<1>9. CASE ~(~m.tso \/ b >= SB)
  <2>1. Mem!Stored(m, s) = more
    BY <1>4, <1>9
  <2>2. n + 1 < SB
    BY <1>1, <1>2, <1>3, <1>9
  <2>3. c + (n + 1) * k <= (i + 1) * k
    <3>1. c + n * k <= i * k /\ c \in Nat /\ k \in Nat
      BY <1>1, <1>2
    <3> QED BY ONLY <1>7, <3>1
  <2>4. n = 0 /\ c = i * k => c + (n + 1) * k = (i + 1) * k
    <3>1. c \in Nat /\ k \in Nat
      BY <1>1, <1>2
    <3> QED BY ONLY <1>7, <3>1
  <2> QED BY <1>2, <1>6, <1>9, <2>1, <2>2, <2>3, <2>4 DEF k, n, c
<1> QED BY <1>8, <1>9

\* A number that is followed by a multiple is the last before it.
LEMMA BeforeMultiple ==
  ASSUME NEW i \in Nat, NEW e \in Nat \ {0}, (i + 1) % e = 0
  PROVE  i % e = e - 1
<1> DEFINE q == (i + 1) \div e
           p == e * (q - 1)
<1>1. i + 1 \in Int
  OBVIOUS
<1>2. q \in Int /\ i + 1 = e * q + 0
  <2>1. q \in Int /\ i + 1 = e * q + ((i + 1) % e)
    BY ONLY <1>1, e \in Nat \ {0}, DivMod
  <2> QED BY <2>1
<1> HIDE DEF q
<1>3. q - 1 \in Int /\ p = e * q - e /\ e * q \in Int
  BY <1>2, Z3
<1>4. i = p + (e - 1) /\ e - 1 \in 0..(e - 1) /\ i \in Int
  BY <1>2, <1>3
<1> QED BY ONLY <1>3, <1>4, e \in Nat \ {0}, ModIs DEF p

LEMMA FenceOne ==
  ASSUME sb_i \in Nat, NEW m \in Mem!Modes, NEW s, StoresOK(m, s, sb_i)
  PROVE  StoresOK(m, Mem!Fenced(m, Mem!Stored(m, s)), sb_i + 1)
<1> DEFINE t == Mem!Stored(m, s)
           k == drainPerStore
           g == m.tso /\ m.every > 0 /\ sb_i % m.every = m.every - 1
           n == t.buffered
           out == [t EXCEPT !.fences = @ + 1, !.coreStall = @ + t.buffered * k,
                            !.drains = IF t.buffered > 0 THEN @ + 1 ELSE @,
                            !.buffered = 0, !.unseen = 0]
           j == sb_i + 1
<1>1. SB \in Nat \ {0} /\ k \in Nat /\ m.tso \in BOOLEAN /\ m.every \in Nat
  BY StoAssumed
<1>2. /\ t \in CoreState /\ t.buffered = t.unseen /\ t.buffered < SB
      /\ ~m.tso => t.unseen = 0 /\ t.coreStall = j * k
      /\ t.coreStall + n * k <= j * k
      /\ s.unseen = 0 /\ s.coreStall = sb_i * k => t.coreStall + n * k = j * k
  BY StoreOne
<1>3. Mem!Fenced(m, t) = IF g THEN out ELSE t
  BY DEF Mem!Fenced
<1>4. m.tso /\ m.every = 1 => g /\ t.coreStall + n * k = j * k
  <2> SUFFICES ASSUME m.tso, m.every = 1 PROVE g /\ t.coreStall + n * k = j * k
    OBVIOUS
  <2>1. sb_i % 1 = 0
    OBVIOUS
  <2>2. g
    BY <2>1
  <2>3. m.every > 0
    OBVIOUS
  <2>4. s.unseen = 0 /\ s.coreStall = sb_i * k
    BY <2>1, <2>3 DEF StoresOK
  <2> QED BY <1>2, <2>2, <2>4
<1>5. m.tso /\ m.every > 0 /\ j % m.every = 0 => g
  <2> SUFFICES ASSUME m.tso, m.every > 0, j % m.every = 0 PROVE g
    OBVIOUS
  <2>1. m.every \in Nat \ {0}
    BY <1>1
  <2>2. sb_i % m.every = m.every - 1
    BY <2>1, BeforeMultiple
  <2> QED BY <2>2
<1> HIDE DEF t
<1>6. t.buffered \in Nat /\ t.coreStall \in Nat /\ t.drains \in Nat /\ t.fences \in Nat /\ n * k \in Nat /\ 0 * k = 0
  BY <1>1, <1>2 DEF CoreState
<1>7. out \in CoreState /\ out.buffered = 0 /\ out.unseen = 0 /\ out.coreStall = t.coreStall + n * k
  <2> DEFINE d == IF t.buffered > 0 THEN t.drains + 1 ELSE t.drains
             a == t.coreStall + t.buffered * k
             e == t.fences + 1
  <2>1. a \in Nat /\ d \in Nat /\ e \in Nat /\ t \in CoreState
    BY <1>2, <1>6
  <2> HIDE DEF a, d, e
  <2>2. LET f == [t EXCEPT !.fences = e, !.coreStall = a, !.drains = d, !.buffered = 0, !.unseen = 0]
        IN  f \in CoreState /\ f.buffered = 0 /\ f.unseen = 0 /\ f.coreStall = a
    BY ONLY <2>1 DEF CoreState
  <2> QED BY <2>2 DEF a, d, e
<1> HIDE DEF out, g, n, j
<1>8. CASE g
  <2>1. Mem!Fenced(m, t) = out
    BY <1>3, <1>8
  <2>2. out.coreStall + 0 * k <= j * k
    <3>1. out.coreStall \in Nat /\ out.coreStall <= j * k
      BY <1>2, <1>6, <1>7
    <3> QED BY <1>6, <3>1
  <2>3. m.tso
    BY <1>8 DEF g
  <2>4. m.every = 1 => out.coreStall = j * k
    BY <1>4, <1>7, <2>3
  <2>5. 0 < SB
    BY <1>1
  <2>6. StoresOK(m, out, j)
    BY <1>7, <2>2, <2>3, <2>4, <2>5 DEF StoresOK, k
  <2> QED BY <2>1, <2>6 DEF t, j
<1>9. CASE ~g
  <2>1. Mem!Fenced(m, t) = t
    BY <1>3, <1>9
  <2>2. StoresOK(m, t, j)
    BY <1>2, <1>4, <1>5, <1>9 DEF StoresOK, k, n
  <2> QED BY <2>1, <2>2 DEF t, j
<1> QED BY <1>8, <1>9

\* One drain more of a buffer, of what a core has drained and paid.
LEMMA Drained ==
  ASSUME NEW d \in Nat, NEW n \in Nat, NEW c \in Nat, NEW i \in Nat, NEW k \in Nat, NEW b \in Nat,
         d * k <= c, i <= d * b + n, n <= b, NEW more \in Nat, k <= more
  PROVE  (d + 1) * k <= c + more /\ i <= (d + 1) * b + 0
<1>1. (d + 1) * k = d * k + k /\ (d + 1) * b = d * b + b /\ d * k \in Nat /\ d * b \in Nat
  OBVIOUS
<1> DEFINE x == d * k
           y == d * b
<1>2. x <= c /\ i <= y + n /\ x \in Nat /\ y \in Nat /\ (d + 1) * k = x + k /\ (d + 1) * b = y + b
  BY <1>1
<1> HIDE DEF x, y
<1>3. x + k <= c + more /\ i <= (y + b) + 0
  BY <1>2
<1> QED BY <1>2, <1>3

LEMMA StoredDrains ==
  ASSUME NEW m \in Mem!Modes, NEW s, NEW i \in Nat, StoresOK(m, s, i), DrainsOK(m, s, i)
  PROVE  DrainsOK(m, Mem!Stored(m, s), i + 1)
<1> SUFFICES ASSUME m.tso PROVE DrainsOK(m, Mem!Stored(m, s), i + 1)
  BY DEF DrainsOK
<1> DEFINE k == drainPerStore
           n == s.buffered
           c == s.coreStall
           d == s.drains
           b == IF n + 1 > SB THEN SB ELSE n + 1
           flushed == [s EXCEPT !.coreStall = @ + k, !.drains = @ + 1, !.buffered = 0, !.unseen = 0]
           more == [s EXCEPT !.buffered = b, !.unseen = @ + 1]
<1>1. SB \in Nat \ {0} /\ k \in Nat
  BY StoAssumed
<1>2. s \in CoreState /\ n < SB /\ n \in Nat /\ c \in Nat /\ d \in Nat
  BY DEF StoresOK, CoreState
<1>3. /\ d * k <= c /\ i <= d * SB + n
      /\ m.every = 0 => d * k = c /\ i = d * SB + n
  BY DEF DrainsOK
<1>4. b = n + 1
  BY <1>1, <1>2
<1>5. Mem!Stored(m, s) = IF b >= SB THEN flushed ELSE more
  BY DEF Mem!Stored
<1>6. flushed.buffered = 0 /\ flushed.coreStall = c + k /\ flushed.drains = d + 1
      /\ more.buffered = b /\ more.coreStall = c /\ more.drains = d
  BY <1>2 DEF CoreState
<1>7. d * k \in Nat /\ d * SB \in Nat /\ (d + 1) * k = d * k + k /\ (d + 1) * SB = d * SB + SB
  BY <1>1, <1>2
<1> DEFINE x == d * k
           y == d * SB
           x1 == (d + 1) * k
           y1 == (d + 1) * SB
<1>8. x \in Nat /\ y \in Nat /\ x1 = x + k /\ y1 = y + SB
  BY <1>7
<1>9. x <= c /\ i <= y + n /\ (m.every = 0 => x = c /\ i = y + n)
  BY <1>3
<1> HIDE DEF flushed, more, b, k, n, c, d, x, y, x1, y1
<1>10. CASE b >= SB
  <2>1. n + 1 = SB
    BY <1>1, <1>2, <1>4, <1>10
  <2>2. x1 <= c + k /\ i + 1 <= y1 + 0 /\ (m.every = 0 => x1 = c + k /\ i + 1 = y1 + 0)
    BY <1>1, <1>2, <1>8, <1>9, <2>1
  <2> QED BY <1>5, <1>6, <1>10, <2>2 DEF DrainsOK, k, x1, y1
<1>11. CASE ~(b >= SB)
  <2>1. x <= c /\ i + 1 <= y + b /\ (m.every = 0 => x = c /\ i + 1 = y + b)
    BY <1>2, <1>4, <1>8, <1>9
  <2> QED BY <1>5, <1>6, <1>11, <2>1 DEF DrainsOK, k, x, y
<1> QED BY <1>10, <1>11

LEMMA FencedDrains ==
  ASSUME NEW m \in Mem!Modes, NEW t, NEW j \in Nat, t \in CoreState, t.buffered < SB, DrainsOK(m, t, j)
  PROVE  DrainsOK(m, Mem!Fenced(m, t), j)
<1> SUFFICES ASSUME m.tso PROVE DrainsOK(m, Mem!Fenced(m, t), j)
  BY DEF DrainsOK
<1> DEFINE k == drainPerStore
           n == t.buffered
           c == t.coreStall
           d == t.drains
           g == m.every > 0 /\ sb_i % m.every = m.every - 1
           out == [t EXCEPT !.fences = @ + 1, !.coreStall = @ + t.buffered * drainPerStore,
                            !.drains = IF t.buffered > 0 THEN @ + 1 ELSE @,
                            !.buffered = 0, !.unseen = 0]
<1>1. SB \in Nat \ {0} /\ k \in Nat
  BY StoAssumed
<1>2. n < SB /\ n \in Nat /\ c \in Nat /\ d \in Nat
  BY DEF CoreState
<1>3. d * k <= c /\ j <= d * SB + n
  BY DEF DrainsOK
<1>4. Mem!Fenced(m, t) = IF g THEN out ELSE t
  BY DEF Mem!Fenced
<1>5. out.buffered = 0 /\ out.coreStall = c + n * k /\ out.drains = IF n > 0 THEN d + 1 ELSE d
  BY DEF CoreState
<1>6. g => m.every /= 0
  OBVIOUS
<1> HIDE DEF out, g, n, c, d, k
<1>7. CASE g /\ n > 0
  <2>1. n * k \in Nat /\ k <= n * k
    <3>1. n = (n - 1) + 1 /\ n - 1 \in Nat
      BY <1>2, <1>7
    <3> DEFINE h == n - 1
    <3>2. h \in Nat /\ n = h + 1
      BY <3>1
    <3> HIDE DEF h
    <3>3. (h + 1) * k = h * k + k /\ h * k \in Nat
      BY <1>1, <3>2
    <3> QED BY <1>1, <3>2, <3>3
  <2>2. (d + 1) * k <= c + n * k /\ j <= (d + 1) * SB + 0
    <3>1. n <= SB /\ SB \in Nat
      BY <1>1, <1>2
    <3>2. k \in Nat /\ n \in Nat /\ c \in Nat /\ d \in Nat /\ j \in Nat
      BY <1>1, <1>2
    <3> QED BY ONLY <1>3, <2>1, <3>1, <3>2, Drained
  <2> QED BY <1>4, <1>5, <1>6, <1>7, <2>2 DEF DrainsOK, k
<1>8. CASE g /\ ~(n > 0)
  <2>1. n = 0 /\ n * k = 0
    BY <1>1, <1>2, <1>8
  <2>2. c + n * k = c
    BY <1>2, <2>1
  <2> QED BY <1>3, <1>4, <1>5, <1>6, <1>8, <2>1, <2>2 DEF DrainsOK, k
<1>9. CASE ~g
  BY <1>4, <1>9
<1> QED BY <1>7, <1>8, <1>9

LEMMA DrainOne ==
  ASSUME sb_i \in Nat, NEW m \in Mem!Modes, NEW s, StoresOK(m, s, sb_i), DrainsOK(m, s, sb_i)
  PROVE  DrainsOK(m, Mem!Fenced(m, Mem!Stored(m, s)), sb_i + 1)
<1> DEFINE t == Mem!Stored(m, s)
<1>1. t \in CoreState /\ t.buffered < SB
  BY StoreOne
<1>2. DrainsOK(m, t, sb_i + 1)
  BY StoredDrains
<1> HIDE DEF t
<1>3. sb_i + 1 \in Nat
  OBVIOUS
<1>4. DrainsOK(m, Mem!Fenced(m, t), sb_i + 1)
  BY <1>1, <1>2, <1>3, FencedDrains
<1> QED BY <1>4 DEF t

LEMMA StoSteps == ASSUME StoInv, [Mem!StoNext]_(Mem!sto_vars) PROVE StoInv'
<1>1. CASE Mem!Store
  <2>1. sb_i' = sb_i + 1 /\ sb_core' = [m \in Mem!Modes |-> Mem!Fenced(m, Mem!Stored(m, sb_core[m]))]
    BY <1>1 DEF Mem!Store
  <2>2. sb_i \in Nat /\ \A m \in Mem!Modes : StoresOK(m, sb_core[m], sb_i) /\ DrainsOK(m, sb_core[m], sb_i)
    BY DEF StoInv
  <2>3. ASSUME NEW m \in Mem!Modes PROVE StoresOK(m, sb_core'[m], sb_i') /\ DrainsOK(m, sb_core'[m], sb_i')
    <3>1. StoresOK(m, Mem!Fenced(m, Mem!Stored(m, sb_core[m])), sb_i + 1)
      BY <2>2, FenceOne
    <3>2. DrainsOK(m, Mem!Fenced(m, Mem!Stored(m, sb_core[m])), sb_i + 1)
      BY <2>2, DrainOne
    <3>3. sb_core'[m] = Mem!Fenced(m, Mem!Stored(m, sb_core[m])) /\ sb_i' = sb_i + 1
      BY <2>1
    <3> QED BY <3>1, <3>2, <3>3
  <2>4. sb_i' \in Nat
    BY <2>1, <2>2
  <2>5. sb_core' = [m \in Mem!Modes |-> sb_core'[m]]
    BY <2>1
  <2>6. Mem!Modes' = Mem!Modes
    BY DEF Mem!Modes
  <2> QED BY <2>3, <2>4, <2>5, <2>6 DEF StoInv, StoresOK, DrainsOK
<1>2. CASE UNCHANGED Mem!sto_vars
  BY <1>2 DEF Mem!sto_vars, StoInv, StoresOK, DrainsOK, Mem!Modes
<1> QED BY <1>1, <1>2 DEF Mem!StoNext

LEMMA NoneBehind == StoInv => Mem!FencesDrain
<1> SUFFICES ASSUME StoInv PROVE Mem!FencesDrain
  OBVIOUS
<1>1. \A m \in Mem!Modes : StoresOK(m, sb_core[m], sb_i)
  BY DEF StoInv
<1>2. ASSUME NEW m \in Mem!Modes
      PROVE  /\ sb_core[m].buffered = sb_core[m].unseen /\ sb_core[m].buffered < SB
             /\ ~m.tso \/ (m.every > 0 /\ sb_i % m.every = 0) => sb_core[m].unseen = 0
  BY <1>1, StoAssumed DEF StoresOK
<1>3. ASSUME NEW m \in Mem!Modes PROVE sb_core[m].coreStall <= sb_i * drainPerStore
  <2> DEFINE s == sb_core[m]
             a == s.buffered * drainPerStore
             b == sb_i * drainPerStore
  <2>1. s \in CoreState /\ s.coreStall + a <= b
    BY <1>1 DEF StoresOK
  <2>2. s.coreStall \in Nat /\ s.buffered \in Nat /\ sb_i \in Nat
    BY <2>1 DEF CoreState, StoInv
  <2>3. a \in Nat /\ b \in Nat
    BY <2>2, StoAssumed
  <2> HIDE DEF s, a, b
  <2>4. s.coreStall <= b
    BY <2>1, <2>2, <2>3
  <2> QED BY <2>4 DEF s, b
<1>4. ASSUME NEW n \in Mem!Modes, ~n.tso \/ (n.tso /\ n.every = 1) PROVE sb_core[n].coreStall = sb_i * drainPerStore
  BY <1>1, <1>4 DEF StoresOK
<1>5. ASSUME NEW m \in Mem!Modes, NEW n \in Mem!Modes
      PROVE  /\ m.tso /\ ~n.tso => sb_core[m].coreStall <= sb_core[n].coreStall
             /\ m.tso /\ n.tso /\ n.every = 1 => sb_core[m].coreStall <= sb_core[n].coreStall
  <2> DEFINE b == sb_i * drainPerStore
             c == sb_core[m].coreStall
             d == sb_core[n].coreStall
  <2>1. c <= b /\ ((~n.tso \/ (n.tso /\ n.every = 1)) => d = b)
    BY <1>3, <1>4
  <2> HIDE DEF b, c, d
  <2>2. ASSUME ~n.tso \/ (n.tso /\ n.every = 1) PROVE c <= d
    BY <2>1, <2>2
  <2> QED BY <2>2 DEF c, d
<1>6. ASSUME NEW m \in Mem!Modes, NEW n \in Mem!Modes, m.tso, n.tso, n.every = 0
      PROVE  sb_core[n].coreStall <= sb_core[m].coreStall
  <2> DEFINE k == drainPerStore
             dm == sb_core[m].drains
             dn == sb_core[n].drains
             c == sb_core[m].coreStall
             e == sb_core[n].coreStall
             u == sb_core[m].buffered
             w == sb_core[n].buffered
  <2>1. /\ dm \in Nat /\ dn \in Nat /\ c \in Nat /\ e \in Nat /\ u \in Nat /\ w \in Nat /\ u < SB
        /\ sb_i \in Nat /\ SB \in Nat \ {0} /\ k \in Nat
    BY <1>1, StoAssumed DEF StoInv, StoresOK, CoreState
  <2>2. dm * k <= c /\ sb_i <= dm * SB + u /\ dn * k = e /\ sb_i = dn * SB + w
    BY <1>6 DEF StoInv, DrainsOK
  <2> HIDE DEF k, dm, dn, c, e, u, w
  <2>3. dn <= dm
    <3> SUFFICES ASSUME ~(dn <= dm) PROVE FALSE
      OBVIOUS
    <3> DEFINE r == dn - dm - 1
    <3>1. r \in Nat /\ dn = (dm + 1) + r
      BY <2>1
    <3> HIDE DEF r
    <3>2. dn * SB = dm * SB + SB + r * SB /\ r * SB \in Nat /\ dm * SB \in Nat
      BY <2>1, <3>1
    <3> DEFINE x == dm * SB
               y == dn * SB
               z == r * SB
    <3>3. y = x + SB + z /\ z \in Nat /\ x \in Nat /\ sb_i <= x + u /\ sb_i = y + w
      BY <2>2, <3>2
    <3> HIDE DEF x, y, z
    <3> QED BY <2>1, <3>3
  <2>4. dn * k <= dm * k
    <3> DEFINE r == dm - dn
    <3>1. r \in Nat /\ dm = dn + r
      BY <2>1, <2>3
    <3> HIDE DEF r
    <3>2. dm * k = dn * k + r * k /\ r * k \in Nat /\ dn * k \in Nat
      BY <2>1, <3>1
    <3> DEFINE x == dm * k
               y == dn * k
               z == r * k
    <3>3. x = y + z /\ z \in Nat /\ y \in Nat
      BY <3>2
    <3> HIDE DEF x, y, z
    <3>4. y <= x
      BY <3>3
    <3> QED BY <3>4 DEF x, y
  <2> DEFINE x == dm * k
  <2>5. x \in Nat /\ e <= x /\ x <= c
    BY <2>1, <2>2, <2>4
  <2> HIDE DEF x
  <2>6. e <= c
    BY <2>1, <2>5
  <2> QED BY <2>6 DEF c, e
<1> QED BY <1>2, <1>5, <1>6 DEF Mem!FencesDrain

\* cpu-model-core-mem-lab 6: no fence leaves a store behind it, and fences at any distance
\* cost no more than draining each store and no less than none at all, for any buffer.
THEOREM StoresDrained == Mem!StoSpec => []Mem!FencesDrain
<1> QED BY StoBegins, StoSteps, NoneBehind, PTL DEF Mem!StoSpec

------------------------------------------------------------------------------
(***************************************************************************)
(* DRAM behind the stride prefetcher.                                      *)
(***************************************************************************)
Demand == [line : DramLines, dram : BOOLEAN]
LineOf(i) == dp_demands[i].line
ToBank(i, b) == dp_demands[i].dram /\ Mem!Bank(LineOf(i)) = b

DemandInv ==
  /\ dp_pf \in Prefetchers /\ dp_demands \in Seq(Demand)
  /\ dp_pfUseful \in Nat /\ dp_rowHit \in Nat /\ dp_rowMiss \in Nat
  /\ dp_pfUseful + dp_rowHit + dp_rowMiss = Len(dp_demands)

\* A bank's row is that of the last demand it answered.
RowInv ==
  /\ dp_open \in [Mem!Banks -> Int]
  /\ \A b \in Mem!Banks :
       \/ dp_open[b] = Mem!Closed /\ \A i \in 1..Len(dp_demands) : ~ToBank(i, b)
       \/ \E i \in 1..Len(dp_demands) :
            /\ ToBank(i, b) /\ dp_open[b] = Mem!Row(LineOf(i))
            /\ \A j \in 1..Len(dp_demands) : ToBank(j, b) => j <= i

\* The banks that have a row open.
Opened == {b \in Mem!Banks : dp_open[b] /= Mem!Closed}
TimeInv ==
  /\ dp_cyc \in Nat /\ dp_busBusyUntil \in Nat
  /\ dp_rowHit + dp_rowMiss = 0 => dp_cyc = 0 /\ dp_busBusyUntil = 0
  /\ dp_rowHit + dp_rowMiss > 0 => dp_busBusyUntil = dp_cyc + tBus
  /\ dp_cyc = tCAS * (dp_rowHit + dp_rowMiss) + tRCD * dp_rowMiss
              + tRP * (dp_rowMiss - Cardinality(Opened))
              + tBus * (IF dp_rowHit + dp_rowMiss = 0 THEN 0 ELSE dp_rowHit + dp_rowMiss - 1)

\* Demand i is the third of a stride of d.
Third(i, d) == i >= 3 /\ d > 0 /\ LineOf(i) - LineOf(i - 1) = d /\ LineOf(i - 1) - LineOf(i - 2) = d

\* The prefetcher holds what is ahead of every third, and no demand for that was late.
AheadInv ==
  /\ Len(dp_demands) = 0 => dp_lastAddr = Mem!None
  /\ Len(dp_demands) > 0 => dp_lastAddr = LineOf(Len(dp_demands))
  /\ Len(dp_demands) > 1 => /\ dp_armed
                            /\ dp_lastDelta = LineOf(Len(dp_demands)) - LineOf(Len(dp_demands) - 1)
  /\ \A i \in 1..Len(dp_demands) : \A d \in Nat : Third(i, d) =>
       /\ Mem!Ahead(LineOf(i), d) \subseteq dp_inCache
       /\ \A j \in (i + 1)..Len(dp_demands) : LineOf(j) \in Mem!Ahead(LineOf(i), d) => ~dp_demands[j].dram

DramInv == DemandInv /\ RowInv /\ TimeInv /\ (dp_pf.on => AheadInv)

LEMMA DramAssumed ==
  /\ banks \in Nat \ {0} /\ colsPerRow \in Nat \ {0}
  /\ tRCD \in Nat /\ tCAS \in Nat /\ tRP \in Nat /\ tBus \in Nat
  /\ \A p \in Prefetchers : p.on \in BOOLEAN /\ p.deg \in Nat /\ p.dist \in Nat
  /\ \A a \in DramLines : a \in Nat
  BY MemoryAssumption

LEMMA BankOf == ASSUME NEW a \in DramLines PROVE Mem!Bank(a) \in Mem!Banks /\ Mem!Row(a) \in Nat
<1>1. a \in Nat /\ banks \in Nat \ {0} /\ colsPerRow \in Nat \ {0}
  BY DramAssumed
<1>2. colsPerRow * banks \in Nat \ {0}
  BY <1>1, Z3
<1>3. a \div colsPerRow \in Nat /\ a \div (colsPerRow * banks) \in Nat
  BY ONLY <1>1, <1>2, QuotientIs
<1>4. a \div colsPerRow \in Int
  BY <1>3
<1>5. (a \div colsPerRow) % banks \in 0..(banks - 1)
  BY ONLY <1>1, <1>4, DivMod
<1> QED BY <1>3, <1>5 DEF Mem!Bank, Mem!Row, Mem!Banks

LEMMA BanksFinite == IsFiniteSet(Mem!Banks) /\ IsFiniteSet(Opened)
<1>1. IsFiniteSet(Mem!Banks)
  <2>1. 0 \in Int /\ banks - 1 \in Int
    BY DramAssumed
  <2> QED BY ONLY <2>1, FS_Interval DEF Mem!Banks
<1>2. Opened \subseteq Mem!Banks
  BY DEF Opened
<1> QED BY ONLY <1>1, <1>2, FS_Subset

LEMMA DramBegins == Mem!DramInit => DramInv
<1> SUFFICES ASSUME Mem!DramInit PROVE DramInv
  OBVIOUS
<1>1. /\ dp_pf \in Prefetchers /\ dp_lastAddr = Mem!None /\ dp_pfUseful = 0 /\ dp_open = [b \in Mem!Banks |-> Mem!Closed]
      /\ dp_cyc = 0 /\ dp_busBusyUntil = 0 /\ dp_rowHit = 0 /\ dp_rowMiss = 0 /\ dp_demands = <<>>
  BY DEF Mem!DramInit
<1>2. Len(dp_demands) = 0 /\ dp_demands \in Seq(Demand)
  BY <1>1
<1>3. DemandInv
  BY <1>1, <1>2 DEF DemandInv
<1>4. RowInv
  <2>1. Mem!Closed \in Int
    BY DEF Mem!Closed
  <2>2. dp_open \in [Mem!Banks -> Int] /\ \A b \in Mem!Banks : dp_open[b] = Mem!Closed
    BY <1>1, <2>1
  <2>3. 1..0 = {}
    OBVIOUS
  <2> QED BY <1>2, <2>2, <2>3 DEF RowInv
<1>5. TimeInv
  <2>1. Opened = {}
    BY <1>1 DEF Opened
  <2>2. Cardinality(Opened) = 0
    BY <2>1, FS_EmptySet
  <2>3. /\ dp_rowHit + dp_rowMiss = 0 /\ 0 - 0 = 0 /\ tCAS * 0 = 0 /\ tRCD * 0 = 0 /\ tRP * 0 = 0 /\ tBus * 0 = 0
    BY <1>1, DramAssumed
  <2>4. dp_rowMiss - Cardinality(Opened) = 0
    BY <1>1, <2>2
  <2>5. tCAS * (dp_rowHit + dp_rowMiss) + tRCD * dp_rowMiss
          + tRP * (dp_rowMiss - Cardinality(Opened))
          + tBus * (IF dp_rowHit + dp_rowMiss = 0 THEN 0 ELSE dp_rowHit + dp_rowMiss - 1) = 0
    BY <1>1, <2>3, <2>4
  <2> QED BY <1>1, <2>3, <2>5 DEF TimeInv
<1>6. AheadInv
  <2>1. 1..0 = {}
    OBVIOUS
  <2> QED BY <1>1, <1>2, <2>1 DEF AheadInv
<1> QED BY <1>3, <1>4, <1>5, <1>6 DEF DramInv

\* A demand is added to those before it.
LEMMA DemandStep ==
  ASSUME DemandInv, NEW a \in DramLines, Mem!DramAccess(a)
  PROVE  /\ DemandInv'
         /\ Len(dp_demands') = Len(dp_demands) + 1
         /\ \A i \in 1..Len(dp_demands) : dp_demands'[i] = dp_demands[i]
         /\ dp_demands'[Len(dp_demands) + 1] = [line |-> a, dram |-> ~(dp_pf.on /\ a \in dp_inCache)]
         /\ dp_pf' = dp_pf
<1> DEFINE p == dp_pf.on /\ a \in dp_inCache
           e == [line |-> a, dram |-> ~p]
<1>1. dp_demands' = Append(dp_demands, e) /\ dp_pf' = dp_pf
  BY DEF Mem!DramAccess
<1>2. e \in Demand
  <2> HIDE DEF p
  <2>1. (~p) \in BOOLEAN
    OBVIOUS
  <2> QED BY <2>1 DEF Demand
<1>3. dp_demands \in Seq(Demand) /\ Len(dp_demands) \in Nat
  BY DEF DemandInv
<1> HIDE DEF e
<1>4. /\ dp_demands' \in Seq(Demand) /\ Len(dp_demands') = Len(dp_demands) + 1
      /\ \A i \in 1..Len(dp_demands) : dp_demands'[i] = dp_demands[i]
      /\ dp_demands'[Len(dp_demands) + 1] = e
  BY ONLY <1>1, <1>2, <1>3, AppendProperties
<1>5. \/ p /\ dp_pfUseful' = dp_pfUseful + 1 /\ dp_rowHit' = dp_rowHit /\ dp_rowMiss' = dp_rowMiss
      \/ /\ ~p /\ dp_pfUseful' = dp_pfUseful
         /\ \/ dp_rowHit' = dp_rowHit + 1 /\ dp_rowMiss' = dp_rowMiss
            \/ dp_rowHit' = dp_rowHit /\ dp_rowMiss' = dp_rowMiss + 1
  <2>1. CASE p
    <3>1. dp_pfUseful' = dp_pfUseful + 1
      BY <2>1 DEF Mem!DramAccess, Mem!demand
    <3>2. dp_rowHit' = dp_rowHit /\ dp_rowMiss' = dp_rowMiss
      BY <2>1 DEF Mem!DramAccess, Mem!dramVars
    <3> QED BY <2>1, <3>1, <3>2
  <2>2. CASE ~p
    <3>1. dp_pfUseful' = dp_pfUseful
      BY <2>2 DEF Mem!DramAccess, Mem!demand, Mem!pfVars
    <3>2. Mem!dram_access(a)
      BY <2>2 DEF Mem!DramAccess
    <3>3. \/ dp_rowHit' = dp_rowHit + 1 /\ dp_rowMiss' = dp_rowMiss
          \/ dp_rowHit' = dp_rowHit /\ dp_rowMiss' = dp_rowMiss + 1
      BY <3>2 DEF Mem!dram_access
    <3> QED BY <2>2, <3>1, <3>3
  <2> QED BY <2>1, <2>2
<1> HIDE DEF p
<1>6. /\ dp_pfUseful' \in Nat /\ dp_rowHit' \in Nat /\ dp_rowMiss' \in Nat
      /\ dp_pfUseful' + dp_rowHit' + dp_rowMiss' = Len(dp_demands')
  <2>1. /\ dp_pfUseful \in Nat /\ dp_rowHit \in Nat /\ dp_rowMiss \in Nat
        /\ dp_pfUseful + dp_rowHit + dp_rowMiss = Len(dp_demands)
    BY DEF DemandInv
  <2> DEFINE l == Len(dp_demands)
             m == Len(dp_demands')
  <2> SUFFICES /\ dp_pfUseful' \in Nat /\ dp_rowHit' \in Nat /\ dp_rowMiss' \in Nat
               /\ dp_pfUseful' + dp_rowHit' + dp_rowMiss' = m
    OBVIOUS
  <2>a. m = l + 1 /\ l \in Nat
    BY <1>3, <1>4
  <2> HIDE DEF l, m
  <2>2. CASE dp_pfUseful' = dp_pfUseful + 1 /\ dp_rowHit' = dp_rowHit /\ dp_rowMiss' = dp_rowMiss
    BY <2>a, <2>1, <2>2 DEF l
  <2>3. CASE dp_pfUseful' = dp_pfUseful /\ dp_rowHit' = dp_rowHit + 1 /\ dp_rowMiss' = dp_rowMiss
    BY <2>a, <2>1, <2>3 DEF l
  <2>4. CASE dp_pfUseful' = dp_pfUseful /\ dp_rowHit' = dp_rowHit /\ dp_rowMiss' = dp_rowMiss + 1
    BY <2>a, <2>1, <2>4 DEF l
  <2> QED BY <1>5, <2>2, <2>3, <2>4
<1>7. DemandInv'
  BY <1>1, <1>4, <1>6 DEF DemandInv
<1> QED BY <1>1, <1>4, <1>7 DEF e, p

\* The demands there were are still those, and go to the banks they went to.
LEMMA DemandsStay ==
  ASSUME DemandInv, NEW a \in DramLines, Mem!DramAccess(a), NEW n \in Nat, n = Len(dp_demands)
  PROVE  /\ Len(dp_demands') = n + 1
         /\ \A i \in 1..n : LineOf(i)' = LineOf(i) /\ dp_demands'[i].dram = dp_demands[i].dram
         /\ \A i \in 1..n : \A b : ToBank(i, b)' <=> ToBank(i, b)
         /\ LineOf(n + 1)' = a
         /\ dp_demands'[n + 1].dram <=> ~(dp_pf.on /\ a \in dp_inCache)
         /\ \A b : ToBank(n + 1, b)' <=> (~(dp_pf.on /\ a \in dp_inCache) /\ Mem!Bank(a) = b)
<1> DEFINE w == ~(dp_pf.on /\ a \in dp_inCache)
<1>1. n \in Nat /\ Len(dp_demands') = n + 1
  BY DemandStep
<1>2. \A i \in 1..n : dp_demands'[i] = dp_demands[i]
  BY DemandStep
<1>3. dp_demands'[n + 1] = [line |-> a, dram |-> w]
  BY DemandStep
<1> HIDE DEF w
<1>4. dp_demands'[n + 1].line = a /\ dp_demands'[n + 1].dram = w
  BY <1>3
<1>5. \A i : LineOf(i)' = dp_demands'[i].line
  BY DEF LineOf
<1>6. \A i \in 1..n : LineOf(i)' = LineOf(i) /\ dp_demands'[i].dram = dp_demands[i].dram
  BY <1>2, <1>5 DEF LineOf
<1>7. \A i, b : ToBank(i, b)' <=> (dp_demands'[i].dram /\ Mem!Bank(dp_demands'[i].line) = b)
  BY DEF ToBank, LineOf, Mem!Bank
<1>8. \A i \in 1..n : \A b : ToBank(i, b)' <=> ToBank(i, b)
  BY <1>2, <1>7 DEF ToBank, LineOf
<1>9. \A b : ToBank(n + 1, b)' <=> (w /\ Mem!Bank(a) = b)
  BY ONLY <1>4, <1>7, Zenon
<1>10. dp_demands'[n + 1].dram <=> w
  BY ONLY <1>4, Zenon
<1>11. LineOf(n + 1)' = a
  BY <1>4, <1>5
<1>13. w <=> ~(dp_pf.on /\ a \in dp_inCache)
  BY DEF w
<1> QED BY ONLY <1>1, <1>6, <1>8, <1>9, <1>10, <1>11, <1>13, Zenon

LEMMA DemandsCounted == ASSUME DemandInv PROVE Len(dp_demands) \in Nat
<1>1. dp_demands \in Seq(Demand)
  BY DEF DemandInv
<1> QED BY ONLY <1>1, LenProperties

LEMMA RowStep ==
  ASSUME DemandInv, RowInv, NEW a \in DramLines, Mem!DramAccess(a) PROVE RowInv'
<1> DEFINE p == dp_pf.on /\ a \in dp_inCache
           k == Mem!Bank(a)
<1>0. PICK n \in Nat : n = Len(dp_demands)
  BY DemandsCounted
<1>1. /\ n \in Nat /\ Len(dp_demands') = n + 1
      /\ \A i \in 1..n : LineOf(i)' = LineOf(i)
      /\ \A i \in 1..n : \A b : ToBank(i, b)' <=> ToBank(i, b)
      /\ LineOf(n + 1)' = a
      /\ \A b : ToBank(n + 1, b)' <=> (~p /\ k = b)
  BY <1>0, DemandsStay
<1>2. dp_open \in [Mem!Banks -> Int] /\ k \in Mem!Banks /\ Mem!Row(a) \in Nat
  BY BankOf DEF RowInv
<1>3. dp_open' = IF p THEN dp_open ELSE [dp_open EXCEPT ![k] = Mem!Row(a)]
  BY DEF Mem!DramAccess, Mem!dram_access, Mem!dramVars
<1>4. Mem!Banks' = Mem!Banks /\ Mem!Closed' = Mem!Closed /\ \A x : Mem!Row(x)' = Mem!Row(x)
  BY DEF Mem!Banks, Mem!Closed, Mem!Row
<1> HIDE DEF p, k
<1>5. dp_open' \in [Mem!Banks -> Int]
  BY <1>2, <1>3
<1> DEFINE Next(b) ==
       \/ dp_open'[b] = Mem!Closed /\ \A i \in 1..(n + 1) : ~ToBank(i, b)'
       \/ \E i \in 1..(n + 1) :
            /\ ToBank(i, b)' /\ dp_open'[b] = Mem!Row(LineOf(i)')
            /\ \A j \in 1..(n + 1) : ToBank(j, b)' => j <= i
<1>6. ASSUME NEW b \in Mem!Banks PROVE Next(b)
  <2>1. \/ dp_open[b] = Mem!Closed /\ \A i \in 1..n : ~ToBank(i, b)
        \/ \E i \in 1..n : /\ ToBank(i, b) /\ dp_open[b] = Mem!Row(LineOf(i))
                           /\ \A j \in 1..n : ToBank(j, b) => j <= i
    BY <1>0 DEF RowInv
  <2>2. 1..(n + 1) = 1..n \cup {n + 1}
    BY <1>1
  <2>3. CASE ~p /\ k = b
    <3>1. ToBank(n + 1, b)' /\ dp_open'[b] = Mem!Row(a) /\ n + 1 \in 1..(n + 1)
      BY <1>1, <1>2, <1>3, <2>3
    <3>2. \A j \in 1..(n + 1) : j <= n + 1
      BY <1>1
    <3>3. Mem!Row(LineOf(n + 1)') = Mem!Row(a)
      BY <1>1
    <3>4. \A j \in 1..(n + 1) : ToBank(j, b)' => j <= n + 1
      BY <3>2
    <3>5. \E i \in 1..(n + 1) :
            /\ ToBank(i, b)' /\ dp_open'[b] = Mem!Row(LineOf(i)')
            /\ \A j \in 1..(n + 1) : ToBank(j, b)' => j <= i
      <4> WITNESS n + 1 \in 1..(n + 1)
      <4> QED BY <3>1, <3>3, <3>4
    <3> QED BY <3>5
  <2>4. CASE ~(~p /\ k = b)
    <3>1. dp_open'[b] = dp_open[b] /\ ~ToBank(n + 1, b)'
      BY <1>1, <1>2, <1>3, <2>4
    <3>2. CASE dp_open[b] = Mem!Closed /\ \A i \in 1..n : ~ToBank(i, b)
      <4>1. \A i \in 1..(n + 1) : i \in 1..n \/ i = n + 1
        BY <1>1
      <4>2. \A i \in 1..(n + 1) : ~ToBank(i, b)'
        BY ONLY <1>1, <3>1, <3>2, <4>1, Zenon
      <4> QED BY <3>1, <3>2, <4>2
    <3>3. ASSUME NEW i \in 1..n, ToBank(i, b), dp_open[b] = Mem!Row(LineOf(i)), \A j \in 1..n : ToBank(j, b) => j <= i
          PROVE  Next(b)
      <4>1. i \in 1..(n + 1) /\ ToBank(i, b)'
        BY <1>1, <2>2, <3>3
      <4>2. Mem!Row(LineOf(i)') = Mem!Row(LineOf(i))
        BY <1>1
      <4>0. \A j \in 1..(n + 1) : j \in 1..n \/ j = n + 1
        BY <1>1
      <4>3. \A j \in 1..(n + 1) : ToBank(j, b)' => j <= i
        BY ONLY <1>1, <3>1, <3>3, <4>0, Zenon
      <4>4. dp_open'[b] = Mem!Row(LineOf(i)')
        BY <3>1, <3>3, <4>2
      <4>5. \E i_1 \in 1..(n + 1) :
            /\ ToBank(i_1, b)' /\ dp_open'[b] = Mem!Row(LineOf(i_1)')
            /\ \A j \in 1..(n + 1) : ToBank(j, b)' => j <= i_1
        BY ONLY <4>1, <4>3, <4>4, Zenon
      <4> QED BY <4>5
    <3> QED BY <2>1, <3>2, <3>3
  <2> QED BY <2>3, <2>4
<1>7. Len(dp_demands') = n + 1
  BY <1>1
<1> QED BY <1>4, <1>5, <1>6, <1>7 DEF RowInv, Mem!Row

LEMMA TimeStep ==
  ASSUME DemandInv, RowInv, TimeInv, NEW a \in DramLines, Mem!DramAccess(a) PROVE TimeInv'
<1> DEFINE k == Mem!Bank(a)
           h == dp_rowHit
           m == dp_rowMiss
           c == Cardinality(Opened)
           rate == tCAS * (h + m)
           ras == tRCD * m
           pre == tRP * (m - c)
           onBus == tBus * (IF h + m = 0 THEN 0 ELSE h + m - 1)
<1>1. /\ dp_cyc \in Nat /\ dp_busBusyUntil \in Nat /\ h \in Nat /\ m \in Nat
      /\ (h + m = 0 => dp_cyc = 0 /\ dp_busBusyUntil = 0)
      /\ (h + m > 0 => dp_busBusyUntil = dp_cyc + tBus)
      /\ dp_cyc = rate + ras + pre + onBus
  BY DEF TimeInv, DemandInv
<1>2. c \in Nat
  BY BanksFinite, FS_CardinalityType
<1>3. k \in Mem!Banks /\ Mem!Row(a) \in Nat /\ Mem!Closed \notin Nat
  BY BankOf DEF Mem!Closed
<1>4. CASE dp_pf.on /\ a \in dp_inCache
  <2>1. UNCHANGED <<dp_open, dp_cyc, dp_busBusyUntil, dp_rowHit, dp_rowMiss>>
    BY <1>4 DEF Mem!DramAccess, Mem!dramVars
  <2>2. Opened' = Opened
    BY <2>1 DEF Opened, Mem!Banks, Mem!Closed
  <2> QED BY <2>1, <2>2 DEF TimeInv
<1>5. CASE ~(dp_pf.on /\ a \in dp_inCache)
  <2> DEFINE isOpen == dp_open[k] = Mem!Row(a)
             lat == IF isOpen THEN tCAS ELSE tRCD + tCAS + (IF dp_open[k] = Mem!Closed THEN 0 ELSE tRP)
  <2>1. /\ dp_open' = [dp_open EXCEPT ![k] = Mem!Row(a)]
        /\ dp_rowHit' = (IF isOpen THEN h + 1 ELSE h)
        /\ dp_rowMiss' = (IF isOpen THEN m ELSE m + 1)
        /\ dp_cyc' = (IF dp_cyc > dp_busBusyUntil THEN dp_cyc ELSE dp_busBusyUntil) + lat
        /\ dp_busBusyUntil' = dp_cyc' + tBus
    <3>1. Mem!dram_access(a)
      BY <1>5 DEF Mem!DramAccess
    <3> QED BY <3>1 DEF Mem!dram_access
  <2>2. Opened' = Opened \cup {k}
    <3>1. Opened' = {b \in Mem!Banks : dp_open'[b] /= Mem!Closed}
      BY DEF Opened, Mem!Banks, Mem!Closed
    <3>2. \A b \in Mem!Banks : dp_open'[b] = IF b = k THEN Mem!Row(a) ELSE dp_open[b]
      BY <2>1 DEF RowInv
    <3> HIDE DEF k
    <3> QED BY <1>3, <3>1, <3>2 DEF Opened
  <2>3. k \in Opened <=> dp_open[k] /= Mem!Closed
    BY <1>3 DEF Opened
  <2>4. (isOpen => k \in Opened) /\ IsFiniteSet(Opened)
    BY <1>3, <2>3, BanksFinite
  <2>5. Cardinality(Opened)' = IF dp_open[k] = Mem!Closed THEN c + 1 ELSE c
    <3>1. CASE k \in Opened
      BY <2>2, <2>3, <3>1
    <3>2. CASE k \notin Opened
      <4>1. Cardinality(Opened \cup {k}) = Cardinality(Opened) + 1
        BY <2>4, <3>2, FS_AddElement
      <4> QED BY <2>2, <2>3, <3>2, <4>1
    <3> QED BY <3>1, <3>2
  <2>6. isOpen => dp_open[k] /= Mem!Closed
    BY <1>3
  <2>7. /\ tRCD \in Nat /\ tCAS \in Nat /\ tRP \in Nat /\ tBus \in Nat
    BY DramAssumed
  <2> HIDE DEF isOpen, c, h, m, rate, ras, pre, onBus
  <2> DEFINE closed == dp_open[k] = Mem!Closed
             n == h + m
  <2> HIDE DEF closed
  <2>8. tCAS * (n + 1) = rate + tCAS /\ rate \in Int
    BY <1>1, <2>7, Z3 DEF rate
  <2>9. tRCD * (m + 1) = ras + tRCD /\ ras \in Int
    BY <1>1, <2>7, Z3 DEF ras
  <2>10. tRP * ((m + 1) - c) = pre + tRP /\ (m + 1) - (c + 1) = m - c /\ pre \in Int
    BY <1>1, <1>2, <2>7, Z3 DEF pre
  <2>11. /\ (n = 0 => onBus = 0 /\ tBus * n = 0)
         /\ (n > 0 => tBus * n = onBus + tBus)
         /\ onBus \in Int
    <3>1. CASE n = 0
      BY <1>1, <2>7, <3>1, Z3 DEF onBus
    <3>2. CASE n > 0
      <4>1. tBus * ((n - 1) + 1) = tBus * (n - 1) + tBus /\ (n - 1) + 1 = n /\ tBus * (n - 1) \in Int
        BY <1>1, <2>7, <3>2, Z3
      <4> QED BY <1>1, <3>2, <4>1 DEF onBus
    <3> QED BY <1>1, <3>1, <3>2
  <2> DEFINE start == IF dp_cyc > dp_busBusyUntil THEN dp_cyc ELSE dp_busBusyUntil
             paid == tBus * n
             held == rate + ras + pre
  <2>12. start + tCAS = held + paid + tCAS /\ start \in Nat /\ paid \in Int /\ held \in Int
    <3>1. paid \in Int
      BY <1>1, <2>7 DEF paid
    <3> HIDE DEF paid
    <3>2. held \in Int /\ dp_cyc = held + onBus
      BY <1>1, <2>8, <2>9, <2>10, <2>11
    <3>3. (n = 0 => onBus = 0 /\ paid = 0) /\ (n > 0 => paid = onBus + tBus)
      BY <2>11 DEF paid
    <3> HIDE DEF held
    <3>4. CASE n = 0
      BY <1>1, <2>7, <3>1, <3>2, <3>3, <3>4
    <3>5. CASE n > 0
      BY <1>1, <2>7, <2>11, <3>1, <3>2, <3>3, <3>5
    <3>6. start \in Nat
      BY <1>1
    <3> QED BY <1>1, <3>1, <3>2, <3>4, <3>5, <3>6
  <2> DEFINE n1 == (IF isOpen THEN h + 1 ELSE h) + (IF isOpen THEN m ELSE m + 1)
             m1 == IF isOpen THEN m ELSE m + 1
             c1 == IF closed THEN c + 1 ELSE c
  <2>13. n1 = n + 1 /\ n1 /= 0 /\ n1 - 1 = n /\ n1 > 0
    BY <1>1
  <2>14. dp_rowHit' + dp_rowMiss' = n1 /\ dp_rowMiss' = m1 /\ Cardinality(Opened)' = c1
    BY <2>1, <2>5 DEF closed
  <2> HIDE DEF start, paid, n1
  <2>15. /\ tCAS * n1 = rate + tCAS
         /\ tRCD * m1 = IF isOpen THEN ras ELSE ras + tRCD
         /\ tRP * (m1 - c1) = IF isOpen \/ closed THEN pre ELSE pre + tRP
         /\ tBus * (n1 - 1) = paid
    <3>1. tCAS * n1 = rate + tCAS
      BY <2>8, <2>13
    <3>2. tRCD * m1 = IF isOpen THEN ras ELSE ras + tRCD
      BY <2>9 DEF ras
    <3>3. tRP * (m1 - c1) = IF isOpen \/ closed THEN pre ELSE pre + tRP
      <4>1. CASE isOpen
        <5>1. ~closed
          BY <2>6, <4>1 DEF closed
        <5> QED BY <4>1, <5>1 DEF pre
      <4>2. CASE ~isOpen /\ closed
        BY <2>10, <4>2 DEF pre
      <4>3. CASE ~isOpen /\ ~closed
        BY <2>10, <4>3
      <4> QED BY <4>1, <4>2, <4>3
    <3>4. tBus * (n1 - 1) = paid
      BY <2>13 DEF paid
    <3> QED BY <3>1, <3>2, <3>3, <3>4
  <2>16. dp_cyc' = start + (IF isOpen THEN tCAS ELSE tRCD + tCAS + (IF closed THEN 0 ELSE tRP))
    BY <2>1 DEF start, closed
  <2> DEFINE A == tCAS * n1
             B == tRCD * m1
             C == tRP * (m1 - c1)
             D == tBus * (n1 - 1)
  <2>17. dp_cyc' = A + B + C + D /\ dp_cyc' \in Nat
    <3>1. /\ A = rate + tCAS /\ B = (IF isOpen THEN ras ELSE ras + tRCD)
          /\ C = (IF isOpen \/ closed THEN pre ELSE pre + tRP) /\ D = paid
      BY <2>15
    <3>2. isOpen => ~closed
      BY <2>6 DEF closed
    <3> HIDE DEF A, B, C, D
    <3>3. start + tCAS = rate + ras + pre + paid + tCAS /\ start \in Nat /\ paid \in Int
      BY <2>8, <2>9, <2>10, <2>12
    <3>4. CASE isOpen
      BY <2>7, <2>8, <2>9, <2>10, <2>16, <3>1, <3>2, <3>3, <3>4
    <3>5. CASE ~isOpen /\ closed
      BY <2>7, <2>8, <2>9, <2>10, <2>16, <3>1, <3>3, <3>5
    <3>6. CASE ~isOpen /\ ~closed
      BY <2>7, <2>8, <2>9, <2>10, <2>16, <3>1, <3>3, <3>6
    <3> QED BY <3>4, <3>5, <3>6
  <2>18. dp_busBusyUntil' = dp_cyc' + tBus /\ dp_busBusyUntil' \in Nat
    BY <2>1, <2>7, <2>17
  <2>19. (IF dp_rowHit' + dp_rowMiss' = 0 THEN 0 ELSE dp_rowHit' + dp_rowMiss' - 1) = n1 - 1
    <3>1. dp_rowHit' \in Int /\ dp_rowMiss' \in Int
      BY <1>1, <2>1
    <3> DEFINE x == dp_rowHit'
               y == dp_rowMiss'
    <3>2. x \in Int /\ y \in Int /\ x + y = n1
      BY <2>14, <3>1
    <3>3. n1 \in Int /\ n1 /= 0
      BY <1>1, <2>13
    <3> HIDE DEF x, y
    <3>4. (IF x + y = 0 THEN 0 ELSE x + y - 1) = n1 - 1
      BY ONLY <3>2, <3>3
    <3> QED BY <3>4 DEF x, y
  <2> HIDE DEF m1, c1
  <2>20. dp_cyc' = tCAS * (dp_rowHit' + dp_rowMiss') + tRCD * dp_rowMiss'
                    + tRP * (dp_rowMiss' - Cardinality(Opened)')
                    + tBus * (IF dp_rowHit' + dp_rowMiss' = 0 THEN 0 ELSE dp_rowHit' + dp_rowMiss' - 1)
    BY <2>14, <2>17, <2>19
  <2>21. /\ (dp_rowHit' + dp_rowMiss' = 0 => dp_cyc' = 0 /\ dp_busBusyUntil' = 0)
         /\ (dp_rowHit' + dp_rowMiss' > 0 => dp_busBusyUntil' = dp_cyc' + tBus)
    BY <2>13, <2>14, <2>18
  <2> QED BY <2>17, <2>18, <2>20, <2>21 DEF TimeInv
<1> QED BY <1>4, <1>5

LEMMA LineOfDemand == ASSUME DemandInv, NEW i \in 1..Len(dp_demands) PROVE LineOf(i) \in DramLines /\ LineOf(i) \in Nat
<1>1. dp_demands \in Seq(Demand) /\ Len(dp_demands) \in Nat
  BY DemandsCounted DEF DemandInv
<1>2. dp_demands[i] \in Demand
  BY ONLY <1>1, ElementOfSeq
<1>3. LineOf(i) \in DramLines
  BY <1>2 DEF Demand, LineOf
<1> QED BY <1>3, DramAssumed

LEMMA AheadStep ==
  ASSUME DemandInv, AheadInv, dp_pf.on, NEW a \in DramLines, Mem!DramAccess(a) PROVE AheadInv'
<1> DEFINE d0 == a - dp_lastAddr
           fetch == dp_lastAddr /= Mem!None /\ dp_armed /\ d0 = dp_lastDelta /\ d0 > 0
<1>1. PICK n \in Nat : n = Len(dp_demands)
  BY DemandsCounted
<1>2. /\ Len(dp_demands') = n + 1
      /\ \A i \in 1..n : LineOf(i)' = LineOf(i) /\ dp_demands'[i].dram = dp_demands[i].dram
      /\ LineOf(n + 1)' = a
      /\ dp_demands'[n + 1].dram <=> ~(dp_pf.on /\ a \in dp_inCache)
  BY <1>1, DemandsStay
<1>3. /\ dp_inCache' = (IF fetch THEN dp_inCache \cup Mem!Ahead(a, d0) ELSE dp_inCache)
      /\ dp_lastDelta' = (IF dp_lastAddr = Mem!None THEN dp_lastDelta ELSE d0)
      /\ dp_armed' = (dp_armed \/ dp_lastAddr /= Mem!None)
      /\ dp_lastAddr' = a /\ dp_pf' = dp_pf
  BY DEF Mem!DramAccess, Mem!demand
<1>4. \A i \in 1..n : LineOf(i) \in Nat
  BY <1>1, LineOfDemand
<1>5. a \in Nat /\ Mem!None \notin Nat /\ Mem!None' = Mem!None
  BY DramAssumed DEF Mem!None
<1>6. n > 0 => dp_lastAddr = LineOf(n) /\ dp_lastAddr /= Mem!None /\ n \in 1..n
  BY <1>1, <1>4, <1>5 DEF AheadInv
<1>7. n > 1 => dp_armed /\ dp_lastDelta = LineOf(n) - LineOf(n - 1)
  BY <1>1 DEF AheadInv
<1>8. \A x, d : Mem!Ahead(x, d)' = Mem!Ahead(x, d)
  BY <1>3 DEF Mem!Ahead
<1>9. \A i \in 1..n : \A d \in Nat : Third(i, d) =>
        /\ Mem!Ahead(LineOf(i), d) \subseteq dp_inCache
        /\ \A j \in (i + 1)..n : LineOf(j) \in Mem!Ahead(LineOf(i), d) => ~dp_demands[j].dram
  BY <1>1 DEF AheadInv
<1> HIDE DEF d0, fetch
<1>10. dp_lastAddr' = LineOf(n + 1)'
  BY <1>2, <1>3
<1>11. ASSUME n + 1 > 1 PROVE dp_armed' /\ dp_lastDelta' = LineOf(n + 1)' - LineOf(n)'
  <2>1. n > 0
    BY <1>11
  <2> QED BY <1>2, <1>3, <1>6, <2>1 DEF d0
<1>12. ASSUME NEW i \in 1..(n + 1), NEW d \in Nat, Third(i, d)'
       PROVE  /\ Mem!Ahead(LineOf(i)', d) \subseteq dp_inCache'
              /\ \A j \in (i + 1)..(n + 1) : LineOf(j)' \in Mem!Ahead(LineOf(i)', d) => ~dp_demands'[j].dram
  <2>1. i >= 3 /\ d > 0 /\ LineOf(i)' - LineOf(i - 1)' = d /\ LineOf(i - 1)' - LineOf(i - 2)' = d
    BY <1>12 DEF Third
  <2>2. CASE i = n + 1
    <3>1. n >= 2 /\ n \in 1..n /\ n - 1 \in 1..n /\ i - 1 = n /\ i - 2 = n - 1
      BY <2>1, <2>2
    <3>2. LineOf(i)' = a /\ LineOf(i - 1)' = LineOf(n) /\ LineOf(i - 2)' = LineOf(n - 1)
      BY <1>2, <2>2, <3>1
    <3>3. d0 = d
      BY <1>6, <2>1, <3>1, <3>2 DEF d0
    <3>4. dp_lastDelta = d
      BY <1>7, <2>1, <3>1, <3>2
    <3>5. fetch
      BY <1>6, <1>7, <2>1, <3>1, <3>3, <3>4 DEF fetch
    <3>6. Mem!Ahead(LineOf(i)', d) \subseteq dp_inCache'
      BY <1>3, <3>2, <3>3, <3>5
    <3>7. (i + 1)..(n + 1) = {}
      BY <2>2
    <3> QED BY <3>6, <3>7
  <2>3. CASE i /= n + 1
    <3>1. i \in 1..n /\ i - 1 \in 1..n /\ i - 2 \in 1..n
      BY <2>1, <2>3
    <3>2. LineOf(i)' = LineOf(i) /\ LineOf(i - 1)' = LineOf(i - 1) /\ LineOf(i - 2)' = LineOf(i - 2)
      BY <1>2, <3>1
    <3>3. Third(i, d)
      BY <2>1, <3>2 DEF Third
    <3>4. /\ Mem!Ahead(LineOf(i), d) \subseteq dp_inCache
          /\ \A j \in (i + 1)..n : LineOf(j) \in Mem!Ahead(LineOf(i), d) => ~dp_demands[j].dram
      BY <1>9, <3>1, <3>3
    <3>5. ASSUME NEW j \in (i + 1)..(n + 1), LineOf(j)' \in Mem!Ahead(LineOf(i)', d) PROVE ~dp_demands'[j].dram
      <4>1. CASE j = n + 1
        <5>1. a \in dp_inCache
          BY <1>2, <3>2, <3>4, <3>5, <4>1
        <5> QED BY <1>2, <4>1, <5>1
      <4>2. CASE j /= n + 1
        <5>1. j \in (i + 1)..n /\ j \in 1..n
          BY <3>1, <4>2
        <5>2. ~dp_demands[j].dram
          BY <1>2, <3>2, <3>4, <3>5, <5>1
        <5> QED BY <1>2, <5>1, <5>2
      <4> QED BY <4>1, <4>2
    <3>6. dp_inCache \subseteq dp_inCache'
      BY <1>3
    <3> QED BY <3>2, <3>4, <3>5, <3>6
  <2> QED BY <2>2, <2>3
<1>13. Len(dp_demands') > 0 /\ Len(dp_demands') /= 0 /\ Len(dp_demands') - 1 = n
  BY <1>2
<1>14. Len(dp_demands') > 1 => dp_armed' /\ dp_lastDelta' = LineOf(Len(dp_demands))' - LineOf(Len(dp_demands) - 1)'
  <2>1. LineOf(Len(dp_demands))' = LineOf(n + 1)' /\ LineOf(Len(dp_demands) - 1)' = LineOf(n)'
    BY <1>2, <1>13 DEF LineOf
  <2> QED BY <1>2, <1>11, <2>1
<1>15. dp_lastAddr' = LineOf(Len(dp_demands))'
  <2>1. LineOf(Len(dp_demands))' = LineOf(n + 1)'
    BY <1>2 DEF LineOf
  <2> QED BY <1>10, <2>1
<1> DEFINE Ok(i, d) == /\ Mem!Ahead(LineOf(i), d) \subseteq dp_inCache
                       /\ \A j \in (i + 1)..Len(dp_demands) : LineOf(j) \in Mem!Ahead(LineOf(i), d) => ~dp_demands[j].dram
<1>16. ASSUME NEW i \in 1..Len(dp_demands'), NEW d \in Nat, Third(i, d)' PROVE Ok(i, d)'
  <2>1. /\ Mem!Ahead(LineOf(i)', d) \subseteq dp_inCache'
        /\ \A j \in (i + 1)..(n + 1) : LineOf(j)' \in Mem!Ahead(LineOf(i)', d) => ~dp_demands'[j].dram
    BY <1>2, <1>12, <1>16
  <2>2. Mem!Ahead(LineOf(i), d)' = Mem!Ahead(LineOf(i)', d)
    BY <1>3 DEF Mem!Ahead
  <2> QED BY <1>2, <2>1, <2>2
<1> QED BY <1>13, <1>14, <1>15, <1>16 DEF AheadInv

LEMMA DramSteps == ASSUME DramInv, [Mem!DramNext]_(Mem!dram_vars) PROVE DramInv'
<1>1. CASE UNCHANGED Mem!dram_vars
  BY <1>1 DEF Mem!dram_vars, Mem!pfVars, Mem!dramVars, DramInv, DemandInv, RowInv, TimeInv, AheadInv, ToBank, LineOf,
              Opened, Third, Mem!Banks, Mem!Ahead, Mem!Closed, Mem!None, Mem!Bank, Mem!Row
<1>2. ASSUME NEW a \in DramLines, Mem!DramAccess(a) PROVE DramInv'
  <2>1. DemandInv /\ RowInv /\ TimeInv /\ (dp_pf.on => AheadInv)
    BY DEF DramInv
  <2>2. DemandInv' /\ RowInv' /\ TimeInv' /\ dp_pf' = dp_pf
    BY <1>2, <2>1, DemandStep, RowStep, TimeStep
  <2>3. dp_pf.on => AheadInv'
    BY <1>2, <2>1, AheadStep
  <2>4. (dp_pf.on => AheadInv)'
    BY <2>2, <2>3
  <2> QED BY <2>2, <2>4 DEF DramInv
<1> QED BY <1>1, <1>2 DEF Mem!DramNext

LEMMA GreatestOf ==
  ASSUME NEW n \in Nat, NEW S, S \subseteq 1..n, NEW x \in S, \A y \in S : y <= x
  PROVE  Mem!Max(S) = x
<1>1. \A y \in S : y \in Int
  OBVIOUS
<1>2. Mem!Max(S) \in S /\ \A y \in S : Mem!Max(S) >= y
  <2>1. \E z \in S : \A y \in S : z >= y
    BY <1>1
  <2> QED BY <2>1 DEF Mem!Max
<1> DEFINE m == Mem!Max(S)
<1>3. m \in Int /\ x \in Int /\ m >= x /\ m <= x
  BY <1>1, <1>2
<1> HIDE DEF m
<1>4. m = x
  BY ONLY <1>3
<1> QED BY <1>4 DEF m

\* A lasting stride is served from what was fetched at its third line, or dist later.
LEMMA StrideServed ==
  ASSUME DramInv, dp_pf.on, dp_pf.deg >= 1, NEW d \in 1..DramMaxAccesses, Mem!Stride(4 + dp_pf.dist, d)
  PROVE  ~dp_demands[Mem!dram_n].dram
<1> DEFINE n == Len(dp_demands)
           s == dp_pf.dist
           f == n - 1 - s
<1>1. /\ n \in Nat /\ s \in Nat /\ dp_pf.deg \in Nat /\ d \in Nat /\ d > 0
  BY DemandsCounted, DramAssumed DEF DramInv, DemandInv
<1>2. /\ n >= 4 + s /\ Mem!dram_n = n
      /\ \A i \in (n - (4 + s) + 2)..n : LineOf(i) - LineOf(i - 1) = d
  BY DEF Mem!Stride, Mem!dram_n, LineOf
<1>3. \A i \in 1..n : LineOf(i) \in Nat
  BY LineOfDemand DEF DramInv
<1>4. AheadInv
  BY DEF DramInv
<1> HIDE DEF n, s
<1>5. f \in 1..n /\ f >= 3 /\ f \in (n - (4 + s) + 2)..n /\ f - 1 \in (n - (4 + s) + 2)..n /\ f + (s + 1) = n
  BY <1>1, <1>2
<1>6. Third(f, d)
  <2>1. (f - 1) - 1 = f - 2
    BY <1>5
  <2> HIDE DEF f
  <2> QED BY <1>1, <1>2, <1>5, <2>1 DEF Third
<1> DEFINE T == {k \in 0..(s + 1) : LineOf(f + k) = LineOf(f) + d * k}
<1>7. 0 \in T
  <2>1. d * 0 = 0 /\ f + 0 = f /\ LineOf(f) + 0 = LineOf(f) /\ 0 \in 0..(s + 1)
    BY <1>1, <1>3, <1>5
  <2> HIDE DEF f
  <2> QED BY <2>1
<1>8. ASSUME NEW k \in 0..((s + 1) - 1), k \in T PROVE k + 1 \in T
  <2> DEFINE i == f + (k + 1)
  <2>1. i \in (n - (4 + s) + 2)..n /\ i \in 1..n /\ i - 1 = f + k /\ i - 1 \in 1..n /\ k + 1 \in 0..(s + 1) /\ k \in Nat
    BY <1>1, <1>5
  <2>2. d * (k + 1) = d * k + d /\ d * k \in Int
    BY <1>1, <2>1, Z3
  <2> HIDE DEF i, f
  <2> DEFINE a == d * k
  <2>3. LineOf(i - 1) = LineOf(f) + a /\ a \in Int
    BY <1>8, <2>1, <2>2
  <2> HIDE DEF a
  <2>4. LineOf(i) - LineOf(i - 1) = d /\ LineOf(i) \in Nat /\ LineOf(i - 1) \in Nat /\ LineOf(f) \in Nat
    BY <1>2, <1>3, <1>5, <2>1
  <2>5. LineOf(i) = LineOf(f) + (a + d)
    BY <1>1, <2>3, <2>4
  <2>6. LineOf(f + (k + 1)) = LineOf(f) + d * (k + 1)
    BY <2>2, <2>5 DEF a, i
  <2> QED BY <2>1, <2>6
<1> HIDE DEF T
<1>9. s + 1 \in Nat
  BY <1>1
<1>10. 0..(s + 1) \subseteq T
  BY ONLY <1>7, <1>8, <1>9, UptoInduction
<1>11. LineOf(n) = LineOf(f) + d * (s + 1)
  <2>1. s + 1 \in T
    BY <1>1, <1>10
  <2> HIDE DEF f
  <2> QED BY <1>5, <2>1 DEF T
<1>12. LineOf(n) \in Mem!Ahead(LineOf(f), d)
  <2>1. 1 \in 1..dp_pf.deg /\ 1 + s = s + 1
    BY <1>1
  <2>2. LineOf(n) = LineOf(f) + d * (1 + s)
    BY <1>11, <2>1
  <2> HIDE DEF f
  <2> QED BY <2>1, <2>2 DEF Mem!Ahead, s
<1>13. n \in (f + 1)..n
  BY <1>1, <1>5
<1> HIDE DEF f
<1> QED BY <1>1, <1>2, <1>4, <1>5, <1>6, <1>12, <1>13 DEF AheadInv, n

LEMMA DramHolds == DramInv => Mem!TimeAddsUp
<1> SUFFICES ASSUME DramInv PROVE Mem!TimeAddsUp
  OBVIOUS
<1>0. PICK n \in Nat : n = Len(dp_demands)
  BY DemandsCounted DEF DramInv
<1>1. dp_pfUseful + dp_rowHit + dp_rowMiss = Mem!dram_n
  BY DEF DramInv, DemandInv, Mem!dram_n
<1> DEFINE Of(b) == {i \in 1..Mem!dram_n : dp_demands[i].dram /\ Mem!Bank(dp_demands[i].line) = b}
<1>2. ASSUME NEW b \in Mem!Banks
      PROVE  dp_open[b] = IF Of(b) = {} THEN Mem!Closed ELSE Mem!Row(dp_demands[Mem!Max(Of(b))].line)
  <2>1. \A i \in 1..n : i \in Of(b) <=> ToBank(i, b)
    BY <1>0 DEF ToBank, LineOf, Mem!dram_n
  <2>2. Of(b) \subseteq 1..n
    BY <1>0 DEF Mem!dram_n
  <2> HIDE DEF Of
  <2>3. \/ dp_open[b] = Mem!Closed /\ \A i \in 1..n : ~ToBank(i, b)
        \/ \E i \in 1..n : /\ ToBank(i, b) /\ dp_open[b] = Mem!Row(LineOf(i))
                           /\ \A j \in 1..n : ToBank(j, b) => j <= i
    BY <1>0 DEF DramInv, RowInv
  <2>4. CASE dp_open[b] = Mem!Closed /\ \A i \in 1..n : ~ToBank(i, b)
    BY <2>1, <2>2, <2>4
  <2>5. ASSUME NEW i \in 1..n, ToBank(i, b), dp_open[b] = Mem!Row(LineOf(i)), \A j \in 1..n : ToBank(j, b) => j <= i
        PROVE  dp_open[b] = IF Of(b) = {} THEN Mem!Closed ELSE Mem!Row(dp_demands[Mem!Max(Of(b))].line)
    <3>1. i \in Of(b) /\ \A j \in Of(b) : j <= i
      BY <2>1, <2>2, <2>5
    <3>2. Mem!Max(Of(b)) = i
      BY ONLY <2>2, <3>1, n \in Nat, GreatestOf
    <3> QED BY <2>5, <3>1, <3>2 DEF LineOf
  <2> QED BY <2>3, <2>4, <2>5
<1>3. Mem!Touched = Opened
  <2>1. Mem!Touched = {Mem!Bank(LineOf(i)) : i \in {j \in 1..n : dp_demands[j].dram}}
    BY <1>0 DEF Mem!Touched, Mem!dram_n, LineOf
  <2>2. ASSUME NEW i \in 1..n, dp_demands[i].dram PROVE Mem!Bank(LineOf(i)) \in Opened
    <3>1. LineOf(i) \in DramLines
      BY <1>0, LineOfDemand DEF DramInv
    <3> DEFINE b == Mem!Bank(LineOf(i))
    <3>2. b \in Mem!Banks
      BY <3>1, BankOf
    <3>3. ToBank(i, b)
      BY <2>2 DEF ToBank
    <3> HIDE DEF b
    <3>4. PICK j \in 1..n : dp_open[b] = Mem!Row(LineOf(j))
      BY <1>0, <3>2, <3>3 DEF DramInv, RowInv
    <3>5. dp_open[b] \in Nat /\ Mem!Closed \notin Nat
      <4>1. LineOf(j) \in DramLines
        BY <1>0, LineOfDemand DEF DramInv
      <4> QED BY <3>4, <4>1, BankOf DEF Mem!Closed
    <3>6. b \in Opened
      BY <3>2, <3>5 DEF Opened
    <3> QED BY <3>6 DEF b
  <2>3. ASSUME NEW b \in Opened PROVE \E i \in 1..n : dp_demands[i].dram /\ Mem!Bank(LineOf(i)) = b
    <3>1. b \in Mem!Banks /\ dp_open[b] /= Mem!Closed
      BY DEF Opened
    <3>2. PICK i \in 1..n : ToBank(i, b)
      BY <1>0, <3>1 DEF DramInv, RowInv
    <3> QED BY <3>2 DEF ToBank
  <2> QED BY <2>1, <2>2, <2>3
<1>4. dp_cyc = tCAS * (dp_rowHit + dp_rowMiss) + tRCD * dp_rowMiss + tRP * (dp_rowMiss - Mem!Cardinality(Mem!Touched))
               + tBus * Mem!Max({dp_rowHit + dp_rowMiss - 1, 0})
  <2> DEFINE k == dp_rowHit + dp_rowMiss
             e == dp_rowHit + dp_rowMiss - 1
  <2>1. k \in Nat /\ e = k - 1
    BY DEF DramInv, DemandInv
  <2>2. Mem!Max({e, 0}) = IF k = 0 THEN 0 ELSE e
    <3> HIDE DEF e, k
    <3> DEFINE S == {e, 0}
               w == IF k = 0 THEN 0 ELSE e
    <3>1. w \in S /\ \A y \in S : w >= y /\ y \in Int
      BY <2>1
    <3> HIDE DEF w, S
    <3>2. Mem!Max(S) \in S /\ \A y \in S : Mem!Max(S) >= y
      BY <3>1 DEF Mem!Max
    <3>3. Mem!Max(S) = w
      BY <3>1, <3>2
    <3> QED BY <3>3 DEF w, S
  <2>3. Mem!Cardinality(Mem!Touched) = Cardinality(Opened)
    BY <1>3, MemCounted
  <2> QED BY <2>2, <2>3 DEF DramInv, TimeInv
<1>5. ASSUME NEW d \in 1..DramMaxAccesses, dp_pf.on, dp_pf.deg >= 1, Mem!Stride(4 + dp_pf.dist, d)
      PROVE  ~dp_demands[Mem!dram_n].dram
  BY <1>5, StrideServed
<1> QED BY <1>1, <1>2, <1>4, <1>5 DEF Mem!TimeAddsUp

\* cpu-model-core-mem-lab 7: every demand was fetched ahead or went to the DRAM; a bank keeps
\* the row of its last access; the cycles are the sum of what the accesses cost; and a stride
\* that lasts is fetched ahead.
THEOREM CyclesCounted == Mem!DramSpec => []Mem!TimeAddsUp
<1> QED BY DramBegins, DramSteps, DramHolds, PTL DEF Mem!DramSpec

------------------------------------------------------------------------------
(***************************************************************************)
(* The mesh: paths along x, then along y, and the routers' loads.          *)
(***************************************************************************)
Between(a, b, c) == (a <= b /\ b <= c) \/ (c <= b /\ b <= a)
Col(r) == r % MeshN
Line(r) == r \div MeshN

NetInv ==
  /\ ms_load \in [Mem!Nodes -> Nat] /\ ms_b \in Nat /\ ms_turned \in BOOLEAN
  /\ ms_at \in Mem!Nodes /\ ms_dst \in Mem!Nodes /\ ms_from \in Mem!Nodes
  /\ Between(Col(ms_from), Col(ms_at), Col(ms_dst)) /\ Between(Line(ms_from), Line(ms_at), Line(ms_dst))
  /\ ms_turned => Col(ms_at) = Col(ms_dst)
  /\ ~ms_turned => Line(ms_at) = Line(ms_from)

\* A router is its column and its line.
LEMMA NodeIs ==
  ASSUME NEW r \in Mem!Nodes
  PROVE  /\ r \in Nat /\ r \in Int /\ Col(r) \in 0..(MeshN - 1) /\ Line(r) \in 0..(MeshN - 1)
         /\ r = MeshN * Line(r) + Col(r)
<1> DEFINE n == MeshN
           x == Col(r)
           y == Line(r)
<1>1. n \in Nat \ {0}
  BY MemoryAssumption
<1>2. r \in Int /\ r >= 0 /\ r <= n * n - 1 /\ n * n \in Nat
  <2>1. n * n \in Nat
    BY <1>1
  <2> QED BY <2>1 DEF Mem!Nodes
<1>3. y \in Int /\ x \in 0..(n - 1) /\ r = n * y + x
  BY ONLY <1>1, <1>2, DivMod DEF Col, Line
<1> HIDE DEF n, x, y
<1>4. y >= 0
  <2> SUFFICES ASSUME y <= -1 PROVE FALSE
    BY <1>3
  <2>1. n * y <= -n /\ n * y \in Int
    BY <1>1, <1>3, Z3
  <2> QED BY <1>1, <1>2, <1>3, <2>1
<1>5. y <= n - 1
  <2> SUFFICES ASSUME y >= n PROVE FALSE
    BY <1>1, <1>3
  <2>1. n * y >= n * n /\ n * y \in Int
    BY <1>1, <1>3, Z3
  <2> QED BY <1>1, <1>2, <1>3, <2>1
<1> QED BY <1>2, <1>3, <1>4, <1>5 DEF n, x, y

\* And a column and a line are a router.
LEMMA NodeAt ==
  ASSUME NEW x \in 0..(MeshN - 1), NEW y \in 0..(MeshN - 1), NEW r, r = MeshN * y + x
  PROVE  r \in Mem!Nodes /\ Col(r) = x /\ Line(r) = y
<1> DEFINE n == MeshN
<1>1. n \in Nat \ {0} /\ x \in 0..(n - 1) /\ y \in 0..(n - 1)
  BY MemoryAssumption
<1> HIDE DEF n
<1>2. n * y \in Nat /\ n * y <= n * n - n /\ n * n \in Nat
  <2>1. n * y <= n * (n - 1) /\ n * (n - 1) = n * n - n
    BY <1>1, Z3
  <2> QED BY <1>1, <2>1
<1>3. r \in Int /\ r >= 0 /\ r <= n * n - 1 /\ r = n * y + x
  <2>1. r = n * y + x
    BY DEF n
  <2> DEFINE a == n * y
             b == n * n
  <2>2. a \in Nat /\ a <= b - n /\ b \in Nat /\ r = a + x
    BY <1>2, <2>1
  <2> HIDE DEF a, b
  <2>3. r \in Int /\ r >= 0 /\ r <= b - 1
    BY <1>1, <2>2
  <2> QED BY <2>1, <2>3 DEF b
<1>4. r % n = x
  <2>1. y \in Int
    BY <1>1
  <2> QED BY ONLY <1>1, <1>3, <2>1, ModIs
<1>5. r \div n = y
  <2>1. n \in Nat \ {0} /\ r \in Int
    BY <1>1, <1>3
  <2>2. r \div n \in Int /\ r % n \in 0..(n - 1) /\ r = n * (r \div n) + (r % n)
    BY ONLY <2>1, DivMod
  <2>3. y \in Int
    BY <1>1
  <2>4. n * (r \div n) + (r % n) = n * y + x
    BY ONLY <1>3, <2>2
  <2> QED BY ONLY <1>1, <2>2, <2>3, <2>4, DivModUnique
<1> QED BY <1>2, <1>3, <1>4, <1>5 DEF Mem!Nodes, Col, Line, n

LEMMA NetBegins == Mem!NetInit => NetInv
<1> SUFFICES ASSUME Mem!NetInit PROVE NetInv
  OBVIOUS
<1>1. ms_load = [r \in Mem!Nodes |-> 0] /\ ms_b = 0 /\ ms_at = 0 /\ ms_dst = 0 /\ ms_from = 0 /\ ms_turned = FALSE
  BY DEF Mem!NetInit
<1>2. 0 \in Mem!Nodes
  <2>1. 0 \in 0..(MeshN - 1) /\ 0 = MeshN * 0 + 0
    BY MemoryAssumption
  <2> QED BY ONLY <2>1, NodeAt
<1>3. Col(0) \in Nat /\ Line(0) \in Nat
  BY <1>2, NodeIs
<1>4. ms_load \in [Mem!Nodes -> Nat] /\ ms_b \in Nat /\ ms_turned \in BOOLEAN
  BY <1>1
<1>5. /\ Between(Col(ms_from), Col(ms_at), Col(ms_dst)) /\ Between(Line(ms_from), Line(ms_at), Line(ms_dst))
      /\ Line(ms_at) = Line(ms_from)
  BY <1>1, <1>3 DEF Between
<1> QED BY <1>1, <1>2, <1>4, <1>5 DEF NetInv

LEMMA HopXStep ==
  ASSUME NetInv, Mem!HopX PROVE NetInv' /\ ms_at' \in Mem!Nodes
<1> DEFINE n == MeshN
           x == Col(ms_at)
           y == Line(ms_at)
           z == Col(ms_dst)
           right == z > x
           c == IF right THEN x + 1 ELSE x - 1
<1>1. /\ ms_load \in [Mem!Nodes -> Nat] /\ ms_b \in Nat /\ ms_turned \in BOOLEAN
      /\ ms_at \in Mem!Nodes /\ ms_dst \in Mem!Nodes /\ ms_from \in Mem!Nodes
      /\ Between(Col(ms_from), x, z) /\ Between(Line(ms_from), y, Line(ms_dst))
      /\ (ms_turned => x = z) /\ (~ms_turned => y = Line(ms_from))
  BY DEF NetInv
<1>2. /\ x /= z /\ ms_at' = (IF right THEN ms_at + 1 ELSE ms_at - 1)
      /\ ms_load' = [ms_load EXCEPT ![ms_at'] = ms_load[ms_at'] + 1] /\ ms_b' = ms_b + 1
      /\ ms_dst' = ms_dst /\ ms_from' = ms_from /\ ms_turned' = ms_turned
  BY DEF Mem!HopX, Mem!Enter, Mem!X, Col
<1>3. /\ n \in Nat \ {0} /\ x \in 0..(n - 1) /\ z \in 0..(n - 1) /\ y \in 0..(n - 1)
      /\ ms_at = n * y + x /\ Col(ms_from) \in Int
  BY <1>1, NodeIs, MemoryAssumption
<1> HIDE DEF n, x, y, z
<1>4. c \in 0..(n - 1) /\ ms_at' = n * y + c
  <2> DEFINE a == n * y
  <2>1. a \in Int /\ ms_at = a + x
    BY <1>3
  <2> HIDE DEF a
  <2>2. ms_at' = a + c
    BY <1>2, <1>3, <2>1
  <2>3. c \in 0..(n - 1)
    BY <1>2, <1>3
  <2> QED BY <2>2, <2>3 DEF a
<1>5. ms_at' \in Mem!Nodes /\ Col(ms_at') = c /\ Line(ms_at') = y
  <2> HIDE DEF c
  <2>1. c \in 0..(MeshN - 1) /\ y \in 0..(MeshN - 1) /\ ms_at' = MeshN * y + c
    BY <1>3, <1>4 DEF n
  <2> QED BY ONLY <2>1, NodeAt
<1>6. Between(Col(ms_from), c, z)
  <2> DEFINE f == Col(ms_from)
  <2>1. f \in Int /\ ((f <= x /\ x <= z) \/ (z <= x /\ x <= f))
    BY <1>1, <1>3 DEF Between
  <2> HIDE DEF f
  <2>2. (f <= c /\ c <= z) \/ (z <= c /\ c <= f)
    BY <1>2, <1>3, <2>1
  <2> QED BY <2>2 DEF Between, f
<1>7. ms_load' \in [Mem!Nodes -> Nat] /\ ms_b' \in Nat
  BY <1>1, <1>2, <1>5
<1>8. Col(ms_from)' = Col(ms_from) /\ Col(ms_dst)' = z /\ Line(ms_from)' = Line(ms_from) /\ Line(ms_dst)' = Line(ms_dst)
      /\ Mem!Nodes' = Mem!Nodes /\ Col(ms_at)' = c /\ Line(ms_at)' = y
  BY <1>2, <1>5 DEF Col, Line, z, Mem!Nodes
<1> HIDE DEF c
<1>9. NetInv'
  BY <1>1, <1>2, <1>5, <1>6, <1>7, <1>8 DEF NetInv, Between
<1> QED BY <1>5, <1>9

LEMMA HopYStep ==
  ASSUME NetInv, Mem!HopY PROVE NetInv' /\ ms_at' \in Mem!Nodes
<1> DEFINE n == MeshN
           x == Col(ms_at)
           y == Line(ms_at)
           z == Line(ms_dst)
           down == z > y
           l == IF down THEN y + 1 ELSE y - 1
<1>1. /\ ms_load \in [Mem!Nodes -> Nat] /\ ms_b \in Nat
      /\ ms_at \in Mem!Nodes /\ ms_dst \in Mem!Nodes /\ ms_from \in Mem!Nodes
      /\ Between(Col(ms_from), x, Col(ms_dst)) /\ Between(Line(ms_from), y, z)
  BY DEF NetInv
<1>2. /\ x = Col(ms_dst) /\ y /= z /\ ms_at' = (IF down THEN ms_at + MeshN ELSE ms_at - MeshN)
      /\ ms_load' = [ms_load EXCEPT ![ms_at'] = ms_load[ms_at'] + 1] /\ ms_b' = ms_b + 1
      /\ ms_dst' = ms_dst /\ ms_from' = ms_from /\ ms_turned' = TRUE
  BY DEF Mem!HopY, Mem!Enter, Mem!X, Mem!Y, Col, Line
<1>3. /\ n \in Nat \ {0} /\ x \in 0..(n - 1) /\ z \in 0..(n - 1) /\ y \in 0..(n - 1)
      /\ ms_at = n * y + x /\ Line(ms_from) \in Int
  BY <1>1, NodeIs, MemoryAssumption
<1>4. ms_at' = IF down THEN ms_at + n ELSE ms_at - n
  BY <1>2
<1> HIDE DEF n, x, y, z
<1>5. l \in 0..(n - 1)
  BY <1>2, <1>3
<1>6. ms_at' = n * l + x
  <2>1. n * (y + 1) = n * y + n /\ n * (y - 1) = n * y - n /\ n * y \in Int
    BY <1>3, Z3
  <2> DEFINE a == n * y
  <2>2. a \in Int /\ ms_at = a + x
    BY <1>3, <2>1
  <2>3. n * l = IF down THEN a + n ELSE a - n
    BY <2>1
  <2> HIDE DEF a, l
  <2>4. ms_at' = (IF down THEN a + n ELSE a - n) + x
    BY <1>3, <1>4, <2>2
  <2> QED BY <2>3, <2>4
<1>7. ms_at' \in Mem!Nodes /\ Col(ms_at') = x /\ Line(ms_at') = l
  <2>1. x \in 0..(n - 1) /\ l \in 0..(n - 1) /\ ms_at' = n * l + x
    BY ONLY <1>3, <1>5, <1>6
  <2> HIDE DEF l
  <2> QED BY ONLY <2>1, NodeAt DEF n
<1>8. Between(Line(ms_from), l, z)
  <2> DEFINE f == Line(ms_from)
  <2>1. f \in Int /\ ((f <= y /\ y <= z) \/ (z <= y /\ y <= f))
    BY <1>1, <1>3 DEF Between
  <2> HIDE DEF f
  <2>2. (f <= l /\ l <= z) \/ (z <= l /\ l <= f)
    BY <1>2, <1>3, <2>1
  <2> QED BY <2>2 DEF Between, f
<1>9. ms_load' \in [Mem!Nodes -> Nat] /\ ms_b' \in Nat
  BY <1>1, <1>2, <1>7
<1>10. Col(ms_from)' = Col(ms_from) /\ Col(ms_dst)' = x /\ Line(ms_from)' = Line(ms_from) /\ Line(ms_dst)' = z
       /\ Mem!Nodes' = Mem!Nodes /\ Col(ms_at)' = x /\ Line(ms_at)' = l
  BY <1>2, <1>7 DEF Col, Line, z, x, Mem!Nodes
<1> HIDE DEF l
<1>11. NetInv'
  BY <1>1, <1>2, <1>7, <1>8, <1>9, <1>10 DEF NetInv, Between
<1> QED BY <1>7, <1>11

LEMMA SendStep ==
  ASSUME NetInv, NEW s \in Mem!Nodes, NEW d \in Mem!Nodes, Mem!Send(s, d) PROVE NetInv'
<1>1. /\ ms_at' = s /\ ms_from' = s /\ ms_dst' = d /\ ms_turned' = FALSE
      /\ ms_load' = ms_load /\ ms_b' = ms_b
  BY DEF Mem!Send
<1>2. Col(s) \in Int /\ Line(s) \in Int /\ Col(d) \in Int /\ Line(d) \in Int
  BY NodeIs
<1>3. Between(Col(s), Col(s), Col(d)) /\ Between(Line(s), Line(s), Line(d))
  BY <1>2 DEF Between
<1>4. Mem!Nodes' = Mem!Nodes
  BY DEF Mem!Nodes
<1>5. ms_load' \in [Mem!Nodes -> Nat] /\ ms_b' \in Nat
  BY <1>1 DEF NetInv
<1>6. /\ Between(Col(ms_from), Col(ms_at), Col(ms_dst))' /\ Between(Line(ms_from), Line(ms_at), Line(ms_dst))'
      /\ Line(ms_at)' = Line(ms_from)'
  BY <1>1, <1>3 DEF Between, Col, Line
<1> QED BY <1>1, <1>4, <1>5, <1>6 DEF NetInv

\* The loads of the first routers.
Loads(f, g) == g = [n \in 0..(MeshN * MeshN) |-> IF n = 0 THEN 0 ELSE g[n - 1] + f[n - 1]]
Summed(f) == CHOOSE g : Loads(f, g)

LEMMA SummedIs ==
  ASSUME NEW f \in [Mem!Nodes -> Nat]
  PROVE  Summed(f) \in [0..(MeshN * MeshN) -> Nat] /\ Loads(f, Summed(f))
<1> DEFINE m == MeshN * MeshN
           h == [p \in (1..m) \X Nat |-> p[2] + f[p[1] - 1]]
<1>1. m \in Nat
  BY MemoryAssumption
<1>2. h \in [(1..m) \X Nat -> Nat]
  <2> SUFFICES ASSUME NEW p \in (1..m) \X Nat PROVE p[2] + f[p[1] - 1] \in Nat
    OBVIOUS
  <2>1. p[1] \in 1..m /\ p[2] \in Nat
    OBVIOUS
  <2>2. p[1] - 1 \in Mem!Nodes
    <3> HIDE DEF m
    <3>1. p[1] - 1 \in 0..(m - 1)
      BY <1>1, <2>1
    <3> QED BY <3>1 DEF Mem!Nodes, m
  <2> QED BY <2>1, <2>2
<1>3. PICK g \in [0..m -> Nat] : Iteration(m, 0, h, g)
  <2> HIDE DEF m, h
  <2>1. 0 \in Nat
    OBVIOUS
  <2> QED BY ONLY <1>1, <1>2, <2>1, Iterated
<1>4. ASSUME NEW n \in 0..m PROVE (IF n = 0 THEN 0 ELSE h[<<n, g[n - 1]>>]) = IF n = 0 THEN 0 ELSE g[n - 1] + f[n - 1]
  <2>1. CASE n = 0
    BY <2>1
  <2>2. CASE n /= 0
    <3>1. n \in 1..m /\ n - 1 \in 0..m
      <4> HIDE DEF m
      <4> QED BY <1>1, <2>2
    <3>2. <<n, g[n - 1]>> \in (1..m) \X Nat
      BY <3>1
    <3> QED BY <3>2, <2>2
  <2> QED BY <2>1, <2>2
<1>5. Loads(f, g)
  <2>1. g = [n \in 0..m |-> IF n = 0 THEN 0 ELSE h[<<n, g[n - 1]>>]]
    BY <1>3 DEF Iteration
  <2> HIDE DEF h
  <2>2. g = [n \in 0..m |-> IF n = 0 THEN 0 ELSE g[n - 1] + f[n - 1]]
    BY <1>4, <2>1
  <2> QED BY <2>2 DEF Loads
<1>6. Loads(f, Summed(f))
  BY <1>5 DEF Summed
<1> DEFINE s == Summed(f)
<1> HIDE DEF s, h
<1>7. s = [n \in 0..m |-> IF n = 0 THEN 0 ELSE s[n - 1] + f[n - 1]]
  BY <1>6 DEF Loads, s
<1>8. 0..m \subseteq {n \in 0..m : s[n] \in Nat}
  <2> DEFINE T == {n \in 0..m : s[n] \in Nat}
  <2>1. 0 \in T
    BY <1>1, <1>7
  <2>2. ASSUME NEW i \in 0..(m - 1), i \in T PROVE i + 1 \in T
    <3>1. i + 1 \in 0..m /\ i + 1 /= 0 /\ (i + 1) - 1 = i
      <4> HIDE DEF m
      <4> QED BY <1>1, <2>2
    <3>2. s[i + 1] = s[i] + f[i]
      BY <1>7, <3>1
    <3>3. f[i] \in Nat
      BY DEF Mem!Nodes
    <3> QED BY <2>2, <3>1, <3>2, <3>3
  <2> HIDE DEF T
  <2>3. 0..m \subseteq T
    BY ONLY <1>1, <2>1, <2>2, UptoInduction
  <2> QED BY <2>3 DEF T
<1>9. s \in [0..m -> Nat]
  BY <1>7, <1>8
<1> QED BY <1>6, <1>9 DEF s

\* One more at a router is one more in the sum of all.
LEMMA OneMore ==
  ASSUME NEW f \in [Mem!Nodes -> Nat], NEW r \in Mem!Nodes
  PROVE  LET g == [f EXCEPT ![r] = f[r] + 1]
             m == MeshN * MeshN
         IN  Summed(g)[m] = Summed(f)[m] + 1
<1> DEFINE m == MeshN * MeshN
           g == [f EXCEPT ![r] = f[r] + 1]
           s == Summed(f)
           t == Summed(g)
<1>1. m \in Nat /\ r \in 0..(m - 1)
  BY MemoryAssumption DEF Mem!Nodes
<1>2. g \in [Mem!Nodes -> Nat]
  OBVIOUS
<1>3. /\ s \in [0..m -> Nat] /\ t \in [0..m -> Nat]
      /\ s = [n \in 0..m |-> IF n = 0 THEN 0 ELSE s[n - 1] + f[n - 1]]
      /\ t = [n \in 0..m |-> IF n = 0 THEN 0 ELSE t[n - 1] + g[n - 1]]
  <2> HIDE DEF g
  <2>1. Loads(f, s) /\ Loads(g, t) /\ s \in [0..m -> Nat] /\ t \in [0..m -> Nat]
    BY <1>2, SummedIs
  <2> HIDE DEF s, t
  <2> QED BY <2>1 DEF Loads
<1>4. \A i \in 0..(m - 1) : f[i] \in Nat /\ g[i] = IF i = r THEN f[i] + 1 ELSE f[i]
  BY DEF Mem!Nodes
<1> HIDE DEF s, t, g, m
<1> DEFINE T == {n \in 0..m : t[n] = IF r < n THEN s[n] + 1 ELSE s[n]}
<1>5. 0 \in T
  BY <1>1, <1>3
<1>6. ASSUME NEW i \in 0..(m - 1), i \in T PROVE i + 1 \in T
  <2>1. i + 1 \in 0..m /\ i + 1 /= 0 /\ (i + 1) - 1 = i /\ i \in 0..m
    BY <1>1
  <2>2. s[i + 1] = s[i] + f[i] /\ t[i + 1] = t[i] + g[i]
    BY <1>3, <2>1
  <2>3. s[i] \in Nat /\ f[i] \in Nat /\ g[i] = IF i = r THEN f[i] + 1 ELSE f[i]
    BY <1>3, <1>4, <2>1
  <2>4. t[i] = IF r < i THEN s[i] + 1 ELSE s[i]
    BY <1>6
  <2> DEFINE a == s[i]
             b == f[i]
  <2>5. t[i + 1] = IF r < i + 1 THEN (a + b) + 1 ELSE a + b
    <3>1. t[i] + g[i] = (IF r < i THEN a + 1 ELSE a) + (IF i = r THEN b + 1 ELSE b)
      BY <2>3, <2>4
    <3>2. a \in Nat /\ b \in Nat
      BY <2>3
    <3> HIDE DEF a, b
    <3> QED BY <1>1, <2>1, <2>2, <3>1, <3>2
  <2> QED BY <2>1, <2>2, <2>5
<1> HIDE DEF T
<1>7. 0..m \subseteq T
  BY ONLY <1>1, <1>5, <1>6, UptoInduction
<1>8. m \in T /\ r < m
  BY <1>1, <1>7
<1> QED BY <1>8 DEF T, s, t, g, m

LEMMA NoneYet ==
  ASSUME NEW f \in [Mem!Nodes -> Nat], \A r \in Mem!Nodes : f[r] = 0
  PROVE  Summed(f)[MeshN * MeshN] = 0
<1> DEFINE m == MeshN * MeshN
           s == Summed(f)
           T == {n \in 0..m : s[n] = 0}
<1>1. m \in Nat
  BY MemoryAssumption
<1>2. s = [n \in 0..m |-> IF n = 0 THEN 0 ELSE s[n - 1] + f[n - 1]]
  BY SummedIs DEF Loads
<1>3. \A i \in 0..(m - 1) : f[i] = 0
  BY DEF Mem!Nodes
<1> HIDE DEF m, s
<1>4. 0 \in T
  BY <1>1, <1>2
<1>5. ASSUME NEW i \in 0..(m - 1), i \in T PROVE i + 1 \in T
  <2>1. i + 1 \in 0..m /\ i + 1 /= 0 /\ (i + 1) - 1 = i
    BY <1>1
  <2> QED BY <1>2, <1>3, <1>5, <2>1
<1> HIDE DEF T
<1>6. 0..m \subseteq T
  BY ONLY <1>1, <1>4, <1>5, UptoInduction
<1> QED BY <1>1, <1>6 DEF T, m, s

NetSum == Summed(ms_load)[MeshN * MeshN] = ms_b

\* A hop loads the router it enters by one.
LEMMA EnterStep ==
  ASSUME NetInv, NetSum, NEW r, Mem!Enter(r), ms_at' \in Mem!Nodes PROVE NetSum'
<1>1. r \in Mem!Nodes /\ ms_load' = [ms_load EXCEPT ![r] = ms_load[r] + 1] /\ ms_b' = ms_b + 1
  BY DEF Mem!Enter
<1>2. ms_load \in [Mem!Nodes -> Nat]
  BY DEF NetInv
<1>3. Summed(ms_load')[MeshN * MeshN] = Summed(ms_load)[MeshN * MeshN] + 1
  BY ONLY <1>1, <1>2, OneMore
<1>4. NetSum' = (Summed(ms_load')[MeshN * MeshN] = ms_b')
  BY DEF NetSum, Summed, Loads
<1> QED BY <1>1, <1>3, <1>4 DEF NetSum

LEMMA NetStep ==
  ASSUME NetInv, NetSum, [Mem!NetNext]_(Mem!net_vars) PROVE NetInv' /\ NetSum'
<1>1. CASE UNCHANGED Mem!net_vars
  BY <1>1 DEF Mem!net_vars, NetInv, NetSum, Summed, Loads, Between, Col, Line, Mem!Nodes
<1>2. ASSUME NEW s \in Mem!Nodes, NEW d \in Mem!Nodes, Mem!Send(s, d) PROVE NetInv' /\ NetSum'
  <2>1. NetInv'
    BY <1>2, SendStep
  <2>2. NetSum'
    BY <1>2 DEF Mem!Send, NetSum, Summed, Loads
  <2> QED BY <2>1, <2>2
<1>3. CASE Mem!HopX
  <2>1. NetInv' /\ ms_at' \in Mem!Nodes
    BY <1>3, HopXStep
  <2>2. PICK r : Mem!Enter(r)
    BY <1>3 DEF Mem!HopX
  <2>3. NetSum'
    BY <2>1, <2>2, EnterStep
  <2> QED BY <2>1, <2>3
<1>4. CASE Mem!HopY
  <2>1. NetInv' /\ ms_at' \in Mem!Nodes
    BY <1>4, HopYStep
  <2>2. PICK r : Mem!Enter(r)
    BY <1>4 DEF Mem!HopY
  <2>3. NetSum'
    BY <2>1, <2>2, EnterStep
  <2> QED BY <2>1, <2>3
<1> QED BY <1>1, <1>2, <1>3, <1>4 DEF Mem!NetNext

LEMMA NetHolds == NetInv /\ NetSum => Mem!OnShortestPath
<1> SUFFICES ASSUME NetInv, NetSum PROVE Mem!OnShortestPath
  OBVIOUS
<1>1. \A r \in Mem!Nodes : Col(r) \in Int /\ Line(r) \in Int
  BY NodeIs
<1> DEFINE A(k) == IF k < 0 THEN -k ELSE k
<1>2. ASSUME NEW a \in Int, NEW b \in Int, NEW c \in Int, Between(a, b, c)
      PROVE  A(a - b) + A(b - c) = A(a - c) /\ A(a - b) \in Int /\ A(b - c) \in Int
  BY <1>2 DEF Between
<1>3. ms_at \in Mem!Nodes /\ ms_dst \in Mem!Nodes /\ ms_from \in Mem!Nodes
  BY DEF NetInv
<1> DEFINE D(r, s) == A(Col(r) - Col(s)) + A(Line(r) - Line(s))
<1>4. \A r, s : Mem!Dist(r, s) = D(r, s)
  BY DEF Mem!Dist, Mem!X, Mem!Y, Col, Line
<1>5. D(ms_from, ms_at) + D(ms_at, ms_dst) = D(ms_from, ms_dst)
  <2> DEFINE p == A(Col(ms_from) - Col(ms_at))
             q == A(Col(ms_at) - Col(ms_dst))
             u == A(Line(ms_from) - Line(ms_at))
             v == A(Line(ms_at) - Line(ms_dst))
             w == A(Col(ms_from) - Col(ms_dst))
             z == A(Line(ms_from) - Line(ms_dst))
  <2>1. Between(Col(ms_from), Col(ms_at), Col(ms_dst)) /\ Between(Line(ms_from), Line(ms_at), Line(ms_dst))
    BY DEF NetInv
  <2> HIDE DEF A
  <2>2. p + q = w /\ u + v = z /\ p \in Int /\ q \in Int /\ u \in Int /\ v \in Int
    BY ONLY <1>1, <1>2, <1>3, <2>1
  <2> HIDE DEF p, q, u, v, w, z
  <2>3. (p + u) + (q + v) = w + z
    BY <2>2
  <2> QED BY <2>3 DEF p, q, u, v, w, z
<1>6. Mem!Dist(ms_from, ms_at) + Mem!Dist(ms_at, ms_dst) = Mem!Dist(ms_from, ms_dst)
  <2> HIDE DEF D
  <2> QED BY <1>4, <1>5
<1>7. (ms_turned => Mem!X(ms_at) = Mem!X(ms_dst)) /\ (~ms_turned => Mem!Y(ms_at) = Mem!Y(ms_from))
  BY DEF NetInv, Mem!X, Mem!Y, Col, Line
<1>8. LET Upto[n \in 0..(MeshN * MeshN)] == IF n = 0 THEN 0 ELSE Upto[n - 1] + ms_load[n - 1]
      IN  Upto[MeshN * MeshN] = ms_b
  BY DEF NetSum, Summed, Loads
<1> QED BY <1>6, <1>7, <1>8 DEF Mem!OnShortestPath

\* cpu-model-core-mem-lab 8: a packet goes along x and then along y on a shortest path, and
\* the loads of the routers are the hops that were made.
THEOREM ShortestPath == Mem!NetSpec => []Mem!OnShortestPath
<1>1. Mem!NetInit => NetInv /\ NetSum
  <2> SUFFICES ASSUME Mem!NetInit PROVE NetSum
    BY NetBegins
  <2>1. ms_load = [r \in Mem!Nodes |-> 0] /\ ms_b = 0
    BY DEF Mem!NetInit
  <2>2. Summed(ms_load)[MeshN * MeshN] = 0
    BY <2>1, NoneYet
  <2> QED BY <2>1, <2>2 DEF NetSum
<1>2. NetInv /\ NetSum /\ [Mem!NetNext]_(Mem!net_vars) => (NetInv /\ NetSum)'
  BY NetStep
<1> QED BY <1>1, <1>2, NetHolds, PTL DEF Mem!NetSpec

\* cpu-model-core-mem-lab 4, 6 to 8: the counts that the experiments on memory print are
\* those of what happened.
THEOREM MemoryCounts ==
  Mem!LruSpec /\ Mem!StoSpec /\ Mem!DramSpec /\ Mem!NetSpec => []MemoryAddsUp
  BY LatestHeld, StoresDrained, CyclesCounted, ShortestPath, PTL DEF MemoryAddsUp

==============================================================================
