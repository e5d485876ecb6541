-------------------------- MODULE SpscRing_proofs --------------------------
(***************************************************************************)
(* Proofs about SpscRing for every capacity, every width of size_t that    *)
(* counts at least two laps of the ring, and every number of items.        *)
(***************************************************************************)
EXTENDS SpscRing, Numbers, TLAPS

(* The machine's indices. *)

LEMMA Sizes == Cap \in Nat \ {0} /\ M \in Nat \ {0} /\ Cap < M /\ N \in Nat
<1>1. Laps * Cap >= 2 * Cap BY RingAssumption, Z3
<1> QED BY <1>1, RingAssumption, Z3 DEF M

\* The slot of a wrapped index is the slot of the number it stands for.
LEMMA SlotOfIndex ==
  ASSUME NEW x \in Nat
  PROVE  Slot(x % M) = Slot(x) /\ Slot(x) \in 0..(Cap - 1)
<1>1. x \in Int /\ Cap \in Nat \ {0} /\ Laps \in Nat \ {0} /\ M = Cap * Laps
  BY Sizes, RingAssumption, Z3 DEF M
<1>2. (x % (Cap * Laps)) % Cap = x % Cap /\ x % Cap \in 0..(Cap - 1)
  BY ONLY <1>1, ModOfMod, DivMod
<1> QED BY <1>1, <1>2 DEF Slot

\* Counting one more is Succ on the wrapped index.
LEMMA SuccOfIndex ==
  ASSUME NEW x \in Nat
  PROVE  Succ(x % M) = (x + 1) % M /\ Succ(x % M) \in 0..(M - 1)
<1>1. x \in Int /\ 1 \in Int /\ x + 1 \in Int /\ M \in Nat \ {0}
  BY Sizes
<1>2. ((x % M) + 1) % M = (x + 1) % M /\ (x + 1) % M \in 0..(M - 1)
  BY ONLY <1>1, ModAdd, DivMod
<1> QED BY <1>2 DEF Succ

\* The difference of two wrapped indices is the number of items between them,
\* so the test for a full ring is exact.
LEMMA FullOfIndex ==
  ASSUME NEW x \in Nat, NEW y \in Nat, y <= x, x <= y + Cap
  PROVE  Full(x % M, y % M) <=> x = y + Cap
<1>1. x \in Int /\ y \in Int /\ M \in Nat \ {0} /\ x < y + M
  BY Sizes
<1>2. ((x % M) - (y % M)) % M = x - y
  BY <1>1, ModDistance
<1> QED BY <1>2, Sizes DEF Full

LEMMA SameIndex ==
  ASSUME NEW x \in Nat, NEW y \in Nat, y <= x, x <= y + Cap, x % M = y % M
  PROVE  x = y
<1>1. x \in Int /\ y \in Int /\ x - y < M /\ y - x < M BY Sizes
<1> QED BY <1>1, Sizes, ModInjective

LEMMA OtherSlot ==
  ASSUME NEW x \in Nat, NEW y \in Nat, y < x, x < y + Cap
  PROVE  Slot(x) /= Slot(y)
<1>1. x \in Int /\ y \in Int /\ x - y < Cap /\ y - x < Cap /\ x /= y BY Sizes
<1> QED BY <1>1, Sizes, ModInjective DEF Slot

------------------------------------------------------------------------------
USE DEF Junk, Item

LEMMA InitIInv == Init => IInv
<1> SUFFICES ASSUME Init PROVE IInv OBVIOUS
<1> USE Sizes DEF Init
<1>1. 0 % M = 0
  <2>1. 0 = M * 0 + 0 /\ 0 \in 0..(M - 1) BY Z3
  <2> QED BY <2>1, ModIs
<1>2. TypeOK BY DEF TypeOK
<1>3. ProducerView /\ ConsumerView BY <1>1 DEF ProducerView, ConsumerView
<1>4. Contents /\ InOrder BY DEF Contents, InOrder
<1> QED BY <1>1, <1>2, <1>3, <1>4 DEF IInv

\* The ring never holds more than Cap items, and what is in flight fits.
LEMMA Counts ==
  ASSUME IInv
  PROVE  /\ got \in Nat /\ i \in Nat /\ got <= i /\ i <= got + Cap /\ i <= N
         /\ ppc \in {"write", "publish"} => i < got + Cap
         /\ cpc \in {"read", "release"} => got < i
<1>0. got \in Nat /\ i \in Nat /\ i <= N BY Sizes DEF IInv, TypeOK
<1>1. PICK a \in 0..got : /\ headSeen = a % M
                          /\ i <= a + Cap
                          /\ ppc \in {"write", "publish"} => i < a + Cap
    BY <1>0 DEF IInv, ProducerView
<1>2. PICK b \in got..i : /\ tailSeen = b % M
                          /\ cpc \in {"read", "release"} => got < b
    BY <1>0 DEF IInv, ConsumerView
<1> QED BY <1>0, <1>1, <1>2, Sizes

LEMMA PushTestStep == ASSUME IInv, PushTest PROVE IInv'
<1> USE DEF IInv, PushTest, ringVars, consVars
<1>0. got \in Nat /\ i \in Nat BY Counts
<1>1. TypeOK' BY DEF TypeOK
<1>2. ProducerView'
  <2>1. PICK a \in 0..got : /\ headSeen = a % M
                            /\ i <= a + Cap
                            /\ ppc \in {"write", "publish"} => i < a + Cap
    BY <1>0 DEF ProducerView
  <2>2. a \in Nat /\ a <= i BY <1>0, <2>1, Counts
  <2>3. ppc' = "write" => i < a + Cap
    <3>1. Full(tail, headSeen) <=> i = a + Cap BY <1>0, <2>1, <2>2, FullOfIndex
    <3> QED BY <1>0, <2>1, <2>2, <3>1, Sizes
  <2>4. ppc' \in {"push", "write"} OBVIOUS
  <2> QED BY <2>1, <2>3, <2>4 DEF ProducerView
<1>3. ConsumerView' BY <1>0 DEF ConsumerView
<1>4. Contents' /\ InOrder' BY DEF Contents, InOrder
<1> QED BY <1>0, <1>1, <1>2, <1>3, <1>4

LEMMA PushWriteStep == ASSUME IInv, PushWrite PROVE IInv'
<1> USE DEF IInv, PushWrite, consVars
<1>0. got \in Nat /\ i \in Nat /\ i < got + Cap /\ i < N BY Counts
<1>1. Slot(tail) = Slot(i) /\ Slot(i) \in 0..(Cap - 1) BY <1>0, SlotOfIndex
<1>2. TypeOK' BY <1>0, <1>1, Sizes DEF TypeOK
<1>3. ProducerView' /\ ConsumerView' BY <1>0 DEF ProducerView, ConsumerView
<1>4. Contents'
  <2>1. ASSUME slots = Cap, NEW k \in got..(i - 1) PROVE buf'[Slot(k)] = k
    <3>1. k \in Nat /\ k < i /\ i < k + Cap BY <1>0, Sizes
    <3>2. Slot(i) /= Slot(k) BY <1>0, <3>1, OtherSlot
    <3>3. Slot(k) \in 0..(Cap - 1) BY <3>1, SlotOfIndex
    <3>4. buf[Slot(k)] = k BY <2>1 DEF Contents
    <3> QED BY <1>1, <3>2, <3>3, <3>4 DEF TypeOK
  <2>2. buf'[Slot(i)] = i BY <1>1 DEF TypeOK
  <2> QED BY <2>1, <2>2 DEF Contents
<1> QED BY <1>2, <1>3, <1>4 DEF InOrder

\* A store past the end of buf_ spoils contents only if buf_ is short.
LEMMA OutsideStep == ASSUME IInv, PushWriteOutside PROVE IInv'
<1> USE DEF IInv, PushWriteOutside
<1>0. got \in Nat /\ i \in Nat /\ i < got + Cap /\ i < N BY Counts
<1>1. Slot(tail) = Slot(i) /\ Slot(i) \in 0..(Cap - 1) BY <1>0, SlotOfIndex
<1>2. slots /= Cap /\ slots' /= Cap BY <1>1, Sizes DEF TypeOK
<1>3. TypeOK'
  <2>1. buf' \in [0..(Cap - 1) -> Item \cup {Junk}]
    <3>1. CASE buf' = buf BY <3>1 DEF TypeOK
    <3>2. CASE \E v \in {i, Junk} : buf' = [buf EXCEPT ![Slot(tail)] = v]
      BY <1>0, <1>1, <3>2, Sizes DEF TypeOK
    <3> QED BY <3>1, <3>2
  <2> QED BY <1>0, <2>1 DEF TypeOK
<1>4. ProducerView' /\ ConsumerView' BY <1>0 DEF ProducerView, ConsumerView
<1> QED BY <1>0, <1>2, <1>3, <1>4 DEF Contents, InOrder

LEMMA PushPublishStep == ASSUME IInv, PushPublish PROVE IInv'
<1> USE DEF IInv, PushPublish, consVars
<1>0. got \in Nat /\ i \in Nat /\ got <= i /\ i < got + Cap /\ i < N BY Counts
<1>1. tail' = (i + 1) % M /\ tail' \in 0..(M - 1) BY <1>0, SuccOfIndex
<1>2. TypeOK' BY <1>0, <1>1, Sizes DEF TypeOK
<1>3. ProducerView' BY <1>0, Sizes DEF ProducerView
<1>4. ConsumerView' BY <1>0 DEF ConsumerView
<1>5. Contents' BY <1>0 DEF Contents
<1> QED BY <1>0, <1>1, <1>2, <1>3, <1>4, <1>5 DEF InOrder

LEMMA PopTestStep == ASSUME IInv, PopTest PROVE IInv'
<1> USE DEF IInv, PopTest, ringVars, prodVars
<1>0. got \in Nat /\ i \in Nat /\ got <= i /\ i <= got + Cap BY Counts
<1>1. TypeOK' BY DEF TypeOK
<1>2. ProducerView' BY <1>0 DEF ProducerView
<1>3. ConsumerView'
  <2>1. PICK b \in got..i : /\ tailSeen = b % M
                            /\ cpc \in {"read", "release"} => got < b
    BY <1>0 DEF ConsumerView
  <2>2. cpc' = "read" => got < b BY <1>0, <2>1
  <2> QED BY <2>1, <2>2 DEF ConsumerView
<1>4. Contents' /\ InOrder' BY DEF Contents, InOrder
<1> QED BY <1>1, <1>2, <1>3, <1>4

LEMMA PopReadStep == ASSUME IInv, PopRead PROVE IInv'
<1> USE DEF IInv, PopRead, ringVars, prodVars
<1>0. got \in Nat /\ i \in Nat /\ got < i /\ i <= N BY Counts
<1>1. Slot(head) = Slot(got) BY <1>0, SlotOfIndex
<1>2. slots = Cap => item' = got BY <1>0, <1>1 DEF Contents
<1>3. TypeOK'
  <2>1. Slot(got) \in 0..(Cap - 1) BY <1>0, SlotOfIndex
  <2>2. item' \in Item \cup {Junk} BY <1>1, <2>1 DEF TypeOK
  <2> QED BY <2>2 DEF TypeOK
<1>4. ProducerView' /\ ConsumerView' BY <1>0 DEF ProducerView, ConsumerView
<1>5. Contents' /\ InOrder' BY <1>2 DEF Contents, InOrder
<1> QED BY <1>0, <1>3, <1>4, <1>5

LEMMA PopReleaseStep == ASSUME IInv, PopRelease PROVE IInv'
<1> USE DEF IInv, PopRelease, prodVars
<1>0. got \in Nat /\ i \in Nat /\ got < i /\ i <= got + Cap /\ i <= N BY Counts
<1>1. head' = (got + 1) % M /\ head' \in 0..(M - 1) BY <1>0, SuccOfIndex
<1>2. TypeOK' BY <1>0, <1>1, Sizes DEF TypeOK
<1>3. ProducerView'
  <2>1. PICK a \in 0..got : /\ headSeen = a % M
                            /\ i <= a + Cap
                            /\ ppc \in {"write", "publish"} => i < a + Cap
    BY <1>0 DEF ProducerView
  <2> QED BY <1>0, <2>1 DEF ProducerView
<1>4. ConsumerView'
  <2>1. PICK b \in got..i : /\ tailSeen = b % M
                            /\ cpc \in {"read", "release"} => got < b
    BY <1>0 DEF ConsumerView
  <2>2. b \in (got + 1)..i BY <1>0, <2>1
  <2> QED BY <2>1, <2>2 DEF ConsumerView
<1>5. Contents' BY <1>0 DEF Contents
<1>6. InOrder' BY <1>0 DEF Contents, InOrder, TypeOK
<1> QED BY <1>0, <1>1, <1>2, <1>3, <1>4, <1>5, <1>6

LEMMA SeeStep == ASSUME IInv, SeeHead \/ SeeTail PROVE IInv'
<1> USE DEF IInv, prodVars, consVars
<1>0. got \in Nat /\ i \in Nat /\ got <= i /\ i <= N BY Counts
<1>1. CASE SeeHead
  <2> USE <1>1 DEF SeeHead
  <2>1. PICK a \in 0..got : /\ headSeen = a % M
                            /\ i <= a + Cap
                            /\ ppc \in {"write", "publish"} => i < a + Cap
    BY <1>0 DEF ProducerView
  <2>2. a /= got BY <1>0, <2>1
  <2>3. a + 1 \in 0..got /\ a \in Nat BY <1>0, <2>1, <2>2
  <2>4. headSeen' = (a + 1) % M /\ headSeen' \in 0..(M - 1) BY <2>1, <2>3, SuccOfIndex
  <2>5. ProducerView'
    <3>1. /\ i' <= (a + 1) + Cap
          /\ ppc' \in {"write", "publish"} => i' < (a + 1) + Cap
      BY <1>0, <2>1, <2>3, Sizes
    <3>2. a + 1 \in 0..got' BY <2>3
    <3> QED BY <2>4, <3>1, <3>2 DEF ProducerView
  <2>6. TypeOK' BY <2>4 DEF TypeOK
  <2>7. ConsumerView' /\ Contents' /\ InOrder' BY <1>0 DEF ConsumerView, Contents, InOrder
  <2> QED BY <1>0, <2>5, <2>6, <2>7
<1>2. CASE SeeTail
  <2> USE <1>2 DEF SeeTail
  <2>1. PICK b \in got..i : /\ tailSeen = b % M
                            /\ cpc \in {"read", "release"} => got < b
    BY <1>0 DEF ConsumerView
  <2>2. b /= i BY <1>0, <2>1
  <2>3. b + 1 \in got..i /\ b \in Nat BY <1>0, <2>1, <2>2
  <2>4. tailSeen' = (b + 1) % M /\ tailSeen' \in 0..(M - 1) BY <2>1, <2>3, SuccOfIndex
  <2>5. ConsumerView' BY <1>0, <2>1, <2>3, <2>4 DEF ConsumerView
  <2>6. TypeOK' BY <2>4 DEF TypeOK
  <2>7. ProducerView' /\ Contents' /\ InOrder' BY <1>0 DEF ProducerView, Contents, InOrder
  <2> QED BY <1>0, <2>5, <2>6, <2>7
<1> QED BY <1>1, <1>2

\* No step leaves the invariant.
LEMMA NextIInv == ASSUME IInv, [Next]_vars PROVE IInv'
<1>2. CASE UNCHANGED vars
  BY <1>2 DEF IInv, TypeOK, ProducerView, ConsumerView, Contents, InOrder,
              vars, ringVars, prodVars, consVars
<1>3. CASE Joined
  BY <1>2, <1>3 DEF Joined
<1> QED BY <1>2, <1>3, PushTestStep, PushWriteStep, OutsideStep, PushPublishStep, PopTestStep,
           PopReadStep, PopReleaseStep, SeeStep DEF Next, Producer, Consumer

LEMMA Invariant == Spec => []IInv
<1>1. Init => IInv BY InitIInv
<1>2. IInv /\ [Next]_vars => IInv' BY NextIInv
<1> QED BY <1>1, <1>2, PTL DEF Spec

\* Every variable keeps its type: the indices stay within a size_t, and every
\* access is to a slot of the ring.
THEOREM TypeCorrect == Spec => []TypeOK
<1>1. IInv => TypeOK BY DEF IInv
<1> QED BY <1>1, Invariant, PTL

\* The consumer gets the items in the order they were pushed, each once, for
\* every capacity and through every wrap of the indices.
THEOREM Ordered == Spec => []InOrder
<1>1. IInv => InOrder BY DEF IInv
<1> QED BY <1>1, Invariant, PTL

\* The two threads never access the same slot at once.
THEOREM RaceFree == Spec => []NoDataRace
<1>1. ASSUME IInv PROVE NoDataRace
  <2> SUFFICES ASSUME ppc = "write", cpc = "read", Slot(tail) = Slot(head) PROVE FALSE
    BY DEF NoDataRace
  <2>1. got \in Nat /\ i \in Nat /\ got < i /\ i < got + Cap BY <1>1, Counts
  <2>2. tail = i % M /\ head = got % M BY <1>1 DEF IInv
  <2>3. Slot(i) = Slot(got) BY <2>1, <2>2, SlotOfIndex
  <2> QED BY <2>1, <2>3, OtherSlot
<1> QED BY <1>1, Invariant, PTL

\* The ring implements the FIFO channel of CAP items: a push takes effect when
\* tail_ is stored and a pop when head_ is, everything else is a stutter.
THEOREM FifoImplemented == Spec => ImplementsFifo
<1>0. Spec => []IInv BY Invariant
<1>1. Init => Fifo!Init
  <2>1. ASSUME Init PROVE Delivered = <<>> BY <2>1 DEF Init, Delivered
  <2> QED BY <2>1 DEF Init, Fifo!Init
<1>2. ASSUME IInv, [Next]_vars PROVE [Fifo!Next]_Fifo!vars
  <2> USE DEF Fifo!Next, Fifo!vars
  <2>0. got \in Nat /\ i \in Nat /\ i <= N /\ slots' = slots
    BY <1>2, Counts DEF Next, Producer, Consumer, PushTest, PushWrite, PushWriteOutside, PushPublish,
       PopTest, PopRead, PopRelease, SeeHead, SeeTail, Joined, vars, ringVars
  <2>1. CASE PushPublish
    <3>1. i < got + Cap /\ i < N /\ N \in Nat BY <1>2, <2>1, Counts, Sizes DEF IInv, PushPublish
    <3> QED BY <2>0, <2>1, <3>1 DEF PushPublish, consVars, Fifo!Put, Delivered
  <2>2. CASE PopRelease
    <3>1. got < i /\ (slots = Cap => item = got)
      BY <1>2, <2>2, Counts DEF IInv, Contents, PopRelease
    <3>2. Delivered' = [k \in 1..(got + 1) |-> IF k <= got THEN Delivered[k] ELSE got]
      <4>1. CASE slots = Cap BY <2>0, <2>2, <3>1, <4>1 DEF PopRelease, Delivered
      <4>2. CASE slots /= Cap
        <5>1. Delivered' = [k \in 1..(got + 1) |-> k - 1]
          BY <2>0, <2>2, <4>2 DEF PopRelease, Delivered
        <5>2. ASSUME NEW k \in 1..(got + 1)
              PROVE  k - 1 = IF k <= got THEN Delivered[k] ELSE got
          BY <2>0, <4>2 DEF Delivered
        <5> QED BY <5>1, <5>2
      <4> QED BY <4>1, <4>2
    <3> QED BY <2>2, <3>1, <3>2 DEF PopRelease, prodVars, Fifo!Take
  <2>3. CASE UNCHANGED <<i, got, taken>>
    BY <2>0, <2>3 DEF Delivered
  <2>4. CASE PushTest \/ PushWrite \/ PushWriteOutside
    BY <2>3, <2>4 DEF PushTest, PushWrite, PushWriteOutside, consVars
  <2>5. CASE PopTest \/ PopRead
    BY <2>3, <2>5 DEF PopTest, PopRead, prodVars
  <2>6. CASE SeeHead \/ SeeTail \/ Joined \/ UNCHANGED vars
    BY <2>3, <2>6 DEF SeeHead, SeeTail, Joined, vars, prodVars, consVars
  <2> QED BY <1>2, <2>1, <2>2, <2>4, <2>5, <2>6 DEF Next, Producer, Consumer
<1>3. IInv /\ [Next]_vars => [Fifo!Next]_Fifo!vars BY <1>2
<1> QED BY <1>0, <1>1, <1>3, PTL DEF Spec, ImplementsFifo, Fifo!Spec
=============================================================================
