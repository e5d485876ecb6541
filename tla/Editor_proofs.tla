---------------------------- MODULE Editor_proofs ----------------------------
(***************************************************************************)
(* The gap buffers of vim-cpp implement a text with a point, for every     *)
(* alphabet, every length of the text and every size of the memory.        *)
(***************************************************************************)
EXTENDS TextBuffers, SequenceTheorems, Numbers, TLAPS

------------------------------------------------------------------------------
(***************************************************************************)
(* What every operation on a gap buffer does to the text it holds.         *)
(***************************************************************************)
\* A gap within the memory, and characters of S on both sides of it.
Holds(g, S) ==
  /\ g.cap \in Nat /\ g.lo \in Nat /\ g.hi \in Nat
  /\ g.lo <= g.hi /\ g.hi <= g.cap
  /\ \A i \in Capacity(g.cap) : i < g.lo \/ g.hi <= i => g.buf[i] \in S

LEMMA TextHeld ==
  ASSUME NEW g, NEW S, Holds(g, S)
  PROVE  /\ to_string(g) \in Seq(S)
         /\ Len(to_string(g)) = Size(g)
         /\ Size(g) \in Nat /\ g.lo <= Size(g)
         /\ \A k \in 1..Size(g) : /\ to_string(g)[k] = char_at(g, k - 1)
                                  /\ to_string(g)[k] \in S
<1>1. Size(g) \in Nat /\ g.lo <= Size(g)
  BY DEF Holds, Size
<1>2. \A k \in 1..Size(g) : char_at(g, k - 1) \in S
  BY DEF Holds, Size, char_at, Capacity
<1>3. to_string(g) \in [1..Size(g) -> S]
  BY <1>2 DEF to_string
<1>4. to_string(g) \in Seq(S)
  BY <1>1, <1>3, SeqDef
<1>5. Len(to_string(g)) = Size(g)
  BY <1>1, <1>3, <1>4, LenProperties
<1> QED BY <1>1, <1>2, <1>4, <1>5 DEF to_string

\* Two buffers hold the same text if they have the same characters at each position.
LEMMA SameText ==
  ASSUME NEW S, NEW g, NEW h, Holds(g, S), Holds(h, S), Size(g) = Size(h),
         \A p \in 0..(Size(g) - 1) : char_at(g, p) = char_at(h, p)
  PROVE  to_string(g) = to_string(h)
<1>1. \A i \in 1..Size(g) : char_at(g, i - 1) = char_at(h, i - 1)
  BY TextHeld
<1>2. [i \in 1..Size(g) |-> char_at(g, i - 1)] = [i \in 1..Size(g) |-> char_at(h, i - 1)]
  BY <1>1, Zenon
<1> QED BY <1>2 DEF to_string

LEMMA MoveGap ==
  ASSUME NEW S, NEW g, Holds(g, S), NEW pos \in Nat
  PROVE  LET m == move_gap(g, pos)
         IN  /\ Holds(m, S) /\ Size(m) = Size(g) /\ m.cap = g.cap
             /\ m.lo = Least(pos, Size(g))
             /\ m.hi - m.lo = g.hi - g.lo
             /\ to_string(m) = to_string(g)
<1> DEFINE m == move_gap(g, pos)
           lo == Least(pos, Size(g))
           hi == lo + (g.hi - g.lo)
<1>1. lo \in Nat /\ lo <= Size(g) /\ Size(g) = g.cap - (g.hi - g.lo) /\ Size(g) \in Nat
  BY DEF Holds, Size, Least
<1>2. lo <= hi /\ hi \in Nat /\ hi <= g.cap
  BY <1>1 DEF Holds
<1>3. m.cap = g.cap /\ m.lo = lo /\ m.hi = hi
  BY DEF move_gap, Gapped
<1> HIDE DEF lo
<1>4. \A i \in Capacity(g.cap) : i < lo \/ hi <= i =>
        m.buf[i] = IF lo < g.lo /\ i \in hi..(g.hi - 1) THEN g.buf[i - (hi - lo)]
                   ELSE IF g.lo < lo /\ i \in g.lo..(lo - 1) THEN g.buf[i + (g.hi - g.lo)]
                   ELSE g.buf[i]
  BY DEF move_gap, Gapped, lo
<1>5. \A p \in 0..(Size(g) - 1) : char_at(m, p) = char_at(g, p)
  <2> TAKE p \in 0..(Size(g) - 1)
  <2> DEFINE i == IF p < lo THEN p ELSE p + (hi - lo)
  <2>1. i \in Capacity(g.cap) /\ (i < lo \/ hi <= i) /\ char_at(m, p) = m.buf[i]
    BY <1>1, <1>2, <1>3 DEF char_at, Holds, Capacity
  <2>2. g.lo \in Nat /\ g.hi \in Nat /\ g.cap \in Nat /\ g.lo <= g.hi /\ hi - lo = g.hi - g.lo
    BY <1>1 DEF Holds
  <2>3. CASE p < lo
    BY <1>1, <1>2, <1>4, <2>1, <2>2, <2>3 DEF char_at
  <2>4. CASE ~(p < lo)
    BY <1>1, <1>2, <1>4, <2>1, <2>2, <2>4 DEF char_at
  <2> QED BY <2>3, <2>4
<1>6. \A i \in Capacity(g.cap) : i < lo \/ hi <= i => m.buf[i] \in S
  <2> SUFFICES ASSUME NEW i \in Capacity(g.cap), i < lo \/ hi <= i
               PROVE  m.buf[i] \in S
    OBVIOUS
  <2> DEFINE p == IF i < lo THEN i ELSE i - (hi - lo)
  <2>1. p \in 0..(Size(g) - 1) /\ char_at(m, p) = m.buf[i]
    BY <1>1, <1>2, <1>3 DEF char_at, Holds, Capacity
  <2>2. char_at(g, p) \in S
    BY <2>1 DEF char_at, Holds, Capacity, Size
  <2> QED BY <1>5, <2>1, <2>2
<1> HIDE DEF m
<1>7. Holds(m, S) /\ Size(m) = Size(g)
  BY <1>1, <1>2, <1>3, <1>6 DEF Holds, Size
<1>8. to_string(m) = to_string(g)
  BY <1>5, <1>7, SameText
<1>9. m.hi - m.lo = g.hi - g.lo
  BY <1>1, <1>3 DEF Holds
<1> QED BY <1>3, <1>7, <1>8, <1>9 DEF lo, m

LEMMA Grown ==
  ASSUME NEW S, NEW g, Holds(g, S), NEW n \in Nat, n >= g.cap
  PROVE  LET m == Resized(g, n)
         IN  /\ Holds(m, S) /\ Size(m) = Size(g) /\ m.cap = n
             /\ m.lo = g.lo /\ m.hi = g.hi + (n - g.cap)
             /\ to_string(m) = to_string(g)
<1> DEFINE m == Resized(g, n)
           hi == n - (g.cap - g.hi)
<1>1. /\ g.lo \in Nat /\ g.hi \in Nat /\ g.cap \in Nat /\ g.lo <= g.hi /\ g.hi <= g.cap
      /\ hi \in Nat /\ g.lo <= hi /\ hi <= n /\ hi - g.hi = n - g.cap /\ n - hi = g.cap - g.hi
  BY DEF Holds
<1>2. m.cap = n /\ m.lo = g.lo /\ m.hi = hi
  BY DEF Resized, Gapped
<1>3. \A i \in Capacity(n) : i < g.lo \/ hi <= i =>
        m.buf[i] = IF i < g.lo THEN g.buf[i] ELSE g.buf[i - (n - g.cap)]
  BY DEF Resized, Gapped
<1>4. \A i \in Capacity(n) : i < g.lo \/ hi <= i => m.buf[i] \in S
  <2> TAKE i \in Capacity(n)
  <2>1. CASE i < g.lo
    BY <1>1, <1>3, <2>1 DEF Holds, Capacity
  <2>2. CASE ~(i < g.lo) /\ hi <= i
    <3>1. i - (n - g.cap) \in Capacity(g.cap) /\ g.hi <= i - (n - g.cap)
      BY <1>1, <2>2 DEF Capacity
    <3> QED BY <1>3, <2>2, <3>1 DEF Holds
  <2> QED BY <2>1, <2>2
<1>5. Size(m) = Size(g) /\ Size(g) \in Nat
  BY <1>1, <1>2 DEF Size
<1>6. \A p \in 0..(Size(g) - 1) : char_at(m, p) = char_at(g, p)
  <2> TAKE p \in 0..(Size(g) - 1)
  <2> DEFINE i == IF p < g.lo THEN p ELSE p + (hi - g.lo)
  <2>1. i \in Capacity(n) /\ (i < g.lo \/ hi <= i) /\ char_at(m, p) = m.buf[i]
    BY <1>1, <1>2 DEF char_at, Capacity, Size
  <2>2. CASE p < g.lo
    BY <1>3, <2>1, <2>2 DEF char_at
  <2>3. CASE ~(p < g.lo)
    BY <1>1, <1>3, <2>1, <2>3 DEF char_at
  <2> QED BY <2>2, <2>3
<1> HIDE DEF m
<1>7. Holds(m, S)
  BY <1>1, <1>2, <1>4 DEF Holds
<1>8. to_string(m) = to_string(g)
  BY <1>5, <1>6, <1>7, SameText
<1> QED BY <1>1, <1>2, <1>5, <1>7, <1>8 DEF m

\* c before the k-th character of t, and t without that one.
With(t, k, c) == SubSeq(t, 1, k - 1) \o <<c>> \o SubSeq(t, k, Len(t))
Less(t, k) == SubSeq(t, 1, k - 1) \o SubSeq(t, k + 1, Len(t))

\* w is that, element by element.
Inserted(w, S, t, k, c) ==
  /\ w \in Seq(S) /\ Len(w) = Len(t) + 1
  /\ \A i \in 1..(Len(t) + 1) : w[i] = IF i < k THEN t[i] ELSE IF i = k THEN c ELSE t[i - 1]

LEMMA WithElements ==
  ASSUME NEW S, NEW t \in Seq(S), NEW c \in S, NEW k \in 1..(Len(t) + 1)
  PROVE  Inserted(With(t, k, c), S, t, k, c)
<1> DEFINE u == SubSeq(t, 1, k - 1)
           v == SubSeq(t, k, Len(t))
<1>1. Len(t) \in Nat /\ \A i \in 1..Len(t) : t[i] \in S
  BY LenProperties
<1>2. u \in Seq(S) /\ Len(u) = k - 1 /\ \A i \in 1..(k - 1) : u[i] = t[i]
  <2>1. \A i \in 1..(k - 1) : t[i] \in S
    BY <1>1
  <2> QED BY <1>1, <2>1, SubSeqProperties
<1>3. v \in Seq(S) /\ Len(v) = Len(t) - k + 1 /\ \A i \in 1..(Len(t) - k + 1) : v[i] = t[k + i - 1]
  <2>1. \A i \in k..Len(t) : t[i] \in S
    BY <1>1
  <2> QED BY <1>1, <2>1, SubSeqProperties
<1>4. <<c>> \in Seq(S) /\ Len(<<c>>) = 1 /\ <<c>>[1] = c
  OBVIOUS
<1> HIDE DEF u, v
<1>5. /\ u \o <<c>> \in Seq(S) /\ Len(u \o <<c>>) = k
      /\ \A i \in 1..k : (u \o <<c>>)[i] = IF i < k THEN t[i] ELSE c
  BY <1>1, <1>2, <1>4, ConcatProperties
<1>6. /\ u \o <<c>> \o v \in Seq(S) /\ Len(u \o <<c>> \o v) = Len(t) + 1
      /\ \A i \in 1..(Len(t) + 1) :
           (u \o <<c>> \o v)[i] = IF i <= k THEN (u \o <<c>>)[i] ELSE v[i - k]
  BY <1>1, <1>3, <1>5, ConcatProperties
<1>7. ASSUME NEW i \in 1..(Len(t) + 1)
      PROVE  (u \o <<c>> \o v)[i] = IF i < k THEN t[i] ELSE IF i = k THEN c ELSE t[i - 1]
  <2>1. CASE i <= k
    BY <1>5, <1>6, <2>1
  <2>2. CASE ~(i <= k)
    <3>1. i - k \in 1..(Len(t) - k + 1) /\ k + (i - k) - 1 = i - 1
      BY <1>1, <2>2
    <3>2. v[i - k] = t[i - 1]
      BY <1>3, <3>1
    <3> QED BY <1>1, <1>6, <2>2, <3>2
  <2> QED BY <2>1, <2>2
<1>8. With(t, k, c) = u \o <<c>> \o v
  BY DEF With, u, v
<1> QED BY <1>6, <1>7, <1>8 DEF Inserted

LEMMA WithNumber ==
  ASSUME NEW t \in Seq(Nat), NEW c \in Nat, NEW k \in 1..(Len(t) + 1)
  PROVE  /\ With(t, k, c) \in Seq(Nat) /\ Len(With(t, k, c)) = Len(t) + 1
         /\ \A i \in 1..(Len(t) + 1) :
              With(t, k, c)[i] = IF i < k THEN t[i] ELSE IF i = k THEN c ELSE t[i - 1]
<1> DEFINE S == Nat
<1>1. t \in Seq(S) /\ c \in S /\ k \in 1..(Len(t) + 1)
  OBVIOUS
<1> HIDE DEF S
<1>2. Inserted(With(t, k, c), S, t, k, c)
  BY ONLY <1>1, WithElements
<1> QED BY <1>2 DEF Inserted, S

LEMMA LessElements ==
  ASSUME NEW S, NEW t \in Seq(S), NEW k \in 1..Len(t)
  PROVE  /\ Less(t, k) \in Seq(S) /\ Len(Less(t, k)) = Len(t) - 1
         /\ \A i \in 1..(Len(t) - 1) : Less(t, k)[i] = IF i < k THEN t[i] ELSE t[i + 1]
<1> DEFINE u == SubSeq(t, 1, k - 1)
           v == SubSeq(t, k + 1, Len(t))
<1>1. Len(t) \in Nat /\ \A i \in 1..Len(t) : t[i] \in S
  BY LenProperties
<1>2. u \in Seq(S) /\ Len(u) = k - 1 /\ \A i \in 1..(k - 1) : u[i] = t[i]
  <2>1. \A i \in 1..(k - 1) : t[i] \in S
    BY <1>1
  <2> QED BY <1>1, <2>1, SubSeqProperties
<1>3. v \in Seq(S) /\ Len(v) = Len(t) - k /\ \A i \in 1..(Len(t) - k) : v[i] = t[k + i]
  <2>1. \A i \in (k + 1)..Len(t) : t[i] \in S
    BY <1>1
  <2> QED BY <1>1, <2>1, SubSeqProperties
<1> HIDE DEF u, v
<1>4. /\ u \o v \in Seq(S) /\ Len(u \o v) = Len(t) - 1
      /\ \A i \in 1..(Len(t) - 1) : (u \o v)[i] = IF i <= k - 1 THEN u[i] ELSE v[i - (k - 1)]
  <2>1. (k - 1) + (Len(t) - k) = Len(t) - 1
    BY <1>1
  <2>2. u \in Seq(S) /\ v \in Seq(S)
    BY <1>2, <1>3
  <2>3. /\ u \o v \in Seq(S) /\ Len(u \o v) = Len(u) + Len(v)
        /\ \A i \in 1..(Len(u) + Len(v)) :
             (u \o v)[i] = IF i <= Len(u) THEN u[i] ELSE v[i - Len(u)]
    BY ONLY <2>2, ConcatProperties
  <2>4. Len(u) = k - 1 /\ Len(u) + Len(v) = Len(t) - 1
    BY <1>2, <1>3, <2>1
  <2> QED BY ONLY <2>3, <2>4
<1>5. ASSUME NEW i \in 1..(Len(t) - 1)
      PROVE  (u \o v)[i] = IF i < k THEN t[i] ELSE t[i + 1]
  <2>1. CASE i <= k - 1
    BY <1>1, <1>2, <1>4, <2>1
  <2>2. CASE ~(i <= k - 1)
    <3>1. i - (k - 1) \in 1..(Len(t) - k) /\ k + (i - (k - 1)) = i + 1 /\ ~(i < k)
      BY <1>1, <2>2
    <3>2. v[i - (k - 1)] = t[i + 1]
      BY <1>3, <3>1
    <3> QED BY <1>4, <2>2, <3>1, <3>2
  <2> QED BY <2>1, <2>2
<1>6. Less(t, k) = u \o v
  BY DEF Less, u, v
<1> QED BY <1>4, <1>5, <1>6

LEMMA LessNumber ==
  ASSUME NEW t \in Seq(Nat), NEW k \in 1..Len(t)
  PROVE  /\ Less(t, k) \in Seq(Nat) /\ Len(Less(t, k)) = Len(t) - 1
         /\ \A i \in 1..(Len(t) - 1) : Less(t, k)[i] = IF i < k THEN t[i] ELSE t[i + 1]
<1> DEFINE S == Nat
<1>1. t \in Seq(S) /\ k \in 1..Len(t)
  OBVIOUS
<1> HIDE DEF S
<1>2. /\ Less(t, k) \in Seq(S) /\ Len(Less(t, k)) = Len(t) - 1
      /\ \A i \in 1..(Len(t) - 1) : Less(t, k)[i] = IF i < k THEN t[i] ELSE t[i + 1]
  BY ONLY <1>1, LessElements
<1> QED BY <1>2 DEF S

\* A character put into a gap that has room for it.
LEMMA PutIn ==
  ASSUME NEW S, NEW g, Holds(g, S), g.lo < g.hi, NEW c \in S
  PROVE  LET m == Put(g, c)
         IN  /\ Holds(m, S) /\ Size(m) = Size(g) + 1 /\ m.lo = g.lo + 1 /\ m.cap = g.cap
             /\ to_string(m) = With(to_string(g), g.lo + 1, c)
<1> DEFINE m == Put(g, c)
           t == to_string(g)
<1>1. /\ g.lo \in Nat /\ g.hi \in Nat /\ g.cap \in Nat /\ g.lo + 1 <= g.hi /\ g.hi <= g.cap
      /\ Size(g) = g.cap - (g.hi - g.lo) /\ Size(g) \in Nat
  BY DEF Holds, Size
<1>2. m.cap = g.cap /\ m.lo = g.lo + 1 /\ m.hi = g.hi
  BY DEF Put, Gapped
<1>3. \A i \in Capacity(g.cap) : i < g.lo + 1 \/ g.hi <= i =>
        m.buf[i] = IF i = g.lo THEN c ELSE g.buf[i]
  BY DEF Put, Gapped
<1> HIDE DEF m
<1>4. \A i \in Capacity(g.cap) : i < g.lo + 1 \/ g.hi <= i => m.buf[i] \in S
  BY <1>1, <1>3 DEF Holds, Capacity
<1>5. Holds(m, S) /\ Size(m) = Size(g) + 1
  BY <1>1, <1>2, <1>4 DEF Holds, Size
<1>6. t \in Seq(S) /\ Len(t) = Size(g) /\ \A k \in 1..Size(g) : t[k] = char_at(g, k - 1)
  BY TextHeld
<1>7. to_string(m) \in Seq(S) /\ Len(to_string(m)) = Size(g) + 1
      /\ \A k \in 1..(Size(g) + 1) : to_string(m)[k] = char_at(m, k - 1)
  BY <1>5, TextHeld
<1>8. \A k \in 1..(Size(g) + 1) : char_at(m, k - 1) =
        IF k < g.lo + 1 THEN t[k] ELSE IF k = g.lo + 1 THEN c ELSE t[k - 1]
  <2> TAKE k \in 1..(Size(g) + 1)
  <2>1. CASE k < g.lo + 1
    <3>1. k \in 1..Size(g) /\ k - 1 \in Capacity(g.cap) /\ k - 1 < g.lo /\ k - 1 # g.lo
      BY <1>1, <2>1 DEF Capacity
    <3>2. char_at(m, k - 1) = g.buf[k - 1]
      BY <1>1, <1>2, <1>3, <3>1 DEF char_at
    <3> QED BY <1>6, <2>1, <3>1, <3>2 DEF char_at
  <2>2. CASE k = g.lo + 1
    <3>1. g.lo \in Capacity(g.cap) /\ k - 1 = g.lo /\ g.lo < g.lo + 1
      BY <1>1, <2>2 DEF Capacity
    <3> QED BY <1>1, <1>2, <1>3, <2>2, <3>1 DEF char_at
  <2>3. CASE k > g.lo + 1
    <3> DEFINE i == (k - 1) + (g.hi - (g.lo + 1))
    <3>1. /\ k - 1 \in 1..Size(g) /\ i \in Capacity(g.cap) /\ g.hi <= i /\ i # g.lo
          /\ ~(k - 1 < g.lo + 1) /\ ~((k - 1) - 1 < g.lo)
          /\ i = ((k - 1) - 1) + (g.hi - g.lo)
      BY <1>1, <2>3 DEF Capacity
    <3>2. char_at(m, k - 1) = m.buf[i]
      BY <1>2, <3>1 DEF char_at
    <3>3. m.buf[i] = g.buf[i]
      BY <1>3, <3>1
    <3>4. t[k - 1] = g.buf[i]
      BY <1>6, <3>1 DEF char_at
    <3>5. ~(k < g.lo + 1) /\ k # g.lo + 1
      BY <1>1, <2>3
    <3> QED BY <3>2, <3>3, <3>4, <3>5
  <2> QED BY <1>1, <2>1, <2>2, <2>3
<1>9. /\ With(t, g.lo + 1, c) \in Seq(S) /\ Len(With(t, g.lo + 1, c)) = Size(g) + 1
      /\ \A i \in 1..(Size(g) + 1) : With(t, g.lo + 1, c)[i] =
           IF i < g.lo + 1 THEN t[i] ELSE IF i = g.lo + 1 THEN c ELSE t[i - 1]
  <2>1. g.lo + 1 \in 1..(Len(t) + 1)
    BY <1>1, <1>6
  <2> HIDE DEF t
  <2>2. /\ With(t, g.lo + 1, c) \in Seq(S) /\ Len(With(t, g.lo + 1, c)) = Len(t) + 1
        /\ \A i \in 1..(Len(t) + 1) : With(t, g.lo + 1, c)[i] =
             IF i < g.lo + 1 THEN t[i] ELSE IF i = g.lo + 1 THEN c ELSE t[i - 1]
    <3> DEFINE k == g.lo + 1
    <3>1. k \in 1..(Len(t) + 1) /\ t \in Seq(S) /\ c \in S
      BY <1>6, <2>1
    <3> HIDE DEF k
    <3>2. Inserted(With(t, k, c), S, t, k, c)
      BY ONLY <3>1, WithElements
    <3> QED BY <3>2 DEF Inserted, k
  <2> QED BY <1>6, <2>2
<1>10. to_string(m) = With(t, g.lo + 1, c)
  <2>1. \A i \in 1..Len(to_string(m)) : to_string(m)[i] = With(t, g.lo + 1, c)[i]
    BY <1>7, <1>8, <1>9
  <2> QED BY <1>7, <1>9, <2>1, SeqEqual
<1> QED BY <1>2, <1>5, <1>10 DEF m

\* The character before the gap goes into the gap.
LEMMA EraseAtGap ==
  ASSUME NEW S, NEW g, Holds(g, S), g.lo > 0
  PROVE  LET m == erase(g)
         IN  /\ Holds(m, S) /\ Size(m) = Size(g) - 1 /\ m.lo = g.lo - 1
             /\ to_string(m) = Less(to_string(g), g.lo)
<1> DEFINE m == erase(g)
           t == to_string(g)
<1>1. /\ g.lo \in Nat \ {0} /\ g.hi \in Nat /\ g.cap \in Nat /\ g.lo <= g.hi /\ g.hi <= g.cap
      /\ Size(g) = g.cap - (g.hi - g.lo) /\ Size(g) \in Nat \ {0} /\ g.lo \in 1..Size(g)
  BY DEF Holds, Size
<1>2. m.cap = g.cap /\ m.lo = g.lo - 1 /\ m.hi = g.hi
  BY DEF erase, Gapped
<1>3. \A i \in Capacity(g.cap) : i < g.lo - 1 \/ g.hi <= i => m.buf[i] = g.buf[i]
  BY DEF erase, Gapped
<1> HIDE DEF m
<1>4. \A i \in Capacity(g.cap) : i < g.lo - 1 \/ g.hi <= i => m.buf[i] \in S
  BY <1>1, <1>3 DEF Holds, Capacity
<1>5. Holds(m, S) /\ Size(m) = Size(g) - 1
  BY <1>1, <1>2, <1>4 DEF Holds, Size
<1>6. t \in Seq(S) /\ Len(t) = Size(g) /\ \A k \in 1..Size(g) : t[k] = char_at(g, k - 1)
  BY TextHeld
<1>7. to_string(m) \in Seq(S) /\ Len(to_string(m)) = Size(g) - 1
      /\ \A k \in 1..(Size(g) - 1) : to_string(m)[k] = char_at(m, k - 1)
  BY <1>5, TextHeld
<1>8. \A k \in 1..(Size(g) - 1) : char_at(m, k - 1) = IF k < g.lo THEN t[k] ELSE t[k + 1]
  <2> TAKE k \in 1..(Size(g) - 1)
  <2>1. CASE k < g.lo
    <3>1. k \in 1..Size(g) /\ k - 1 \in Capacity(g.cap) /\ k - 1 < g.lo - 1
      BY <1>1, <2>1 DEF Capacity
    <3> QED BY <1>1, <1>2, <1>3, <1>6, <2>1, <3>1 DEF char_at
  <2>2. CASE ~(k < g.lo)
    <3> DEFINE i == (k - 1) + (g.hi - (g.lo - 1))
    <3>1. /\ k + 1 \in 1..Size(g) /\ i \in Capacity(g.cap) /\ g.hi <= i
          /\ ~(k - 1 < g.lo - 1) /\ ~((k + 1) - 1 < g.lo) /\ i = ((k + 1) - 1) + (g.hi - g.lo)
      BY <1>1, <2>2 DEF Capacity
    <3>2. char_at(m, k - 1) = m.buf[i]
      BY <1>2, <3>1 DEF char_at
    <3>3. m.buf[i] = g.buf[i]
      BY <1>3, <3>1
    <3>4. t[k + 1] = g.buf[i]
      BY <1>6, <3>1 DEF char_at
    <3> QED BY <2>2, <3>2, <3>3, <3>4
  <2> QED BY <2>1, <2>2
<1>9. to_string(m) = Less(t, g.lo)
  <2> HIDE DEF t
  <2>1. g.lo \in 1..Len(t)
    BY <1>1, <1>6
  <2>2. /\ Less(t, g.lo) \in Seq(S) /\ Len(Less(t, g.lo)) = Len(t) - 1
        /\ \A i \in 1..(Len(t) - 1) : Less(t, g.lo)[i] = IF i < g.lo THEN t[i] ELSE t[i + 1]
    <3> DEFINE k == g.lo
    <3>1. k \in 1..Len(t) /\ t \in Seq(S)
      BY <1>6, <2>1
    <3> HIDE DEF k
    <3>2. /\ Less(t, k) \in Seq(S) /\ Len(Less(t, k)) = Len(t) - 1
          /\ \A i \in 1..(Len(t) - 1) : Less(t, k)[i] = IF i < k THEN t[i] ELSE t[i + 1]
      BY ONLY <3>1, LessElements
    <3> QED BY <3>2 DEF k
  <2>3. \A i \in 1..Len(to_string(m)) : to_string(m)[i] = Less(t, g.lo)[i]
    BY <1>6, <1>7, <1>8, <2>2
  <2> QED BY <1>6, <1>7, <2>2, <2>3, SeqEqual
<1> QED BY <1>2, <1>5, <1>9 DEF m

\* The character behind the gap goes into the gap.
LEMMA EraseAtPos ==
  ASSUME NEW S, NEW g, Holds(g, S), NEW pos \in Nat, pos < Size(g)
  PROVE  LET m == ErasePos(g, pos)
         IN  /\ Holds(m, S) /\ Size(m) = Size(g) - 1
             /\ m.cap = g.cap
             /\ to_string(m) = Less(to_string(g), pos + 1)
<1> DEFINE h == move_gap(g, pos)
           m == ErasePos(g, pos)
           t == to_string(g)
<1>1. /\ Holds(h, S) /\ Size(h) = Size(g) /\ h.cap = g.cap /\ h.lo = pos
      /\ to_string(h) = t /\ Size(g) \in Nat
  BY MoveGap, TextHeld DEF Least
<1>2. m.cap = h.cap /\ m.lo = h.lo /\ m.hi = h.hi + 1
  BY DEF ErasePos, Gapped
<1>3. \A i \in Capacity(h.cap) : i < h.lo \/ h.hi + 1 <= i => m.buf[i] = h.buf[i]
  BY DEF ErasePos, Gapped
<1> HIDE DEF h, m
<1>4. /\ h.lo \in Nat /\ h.hi \in Nat /\ h.cap \in Nat /\ h.lo <= h.hi /\ h.hi + 1 <= h.cap
      /\ Size(h) = h.cap - (h.hi - h.lo)
  BY <1>1 DEF Holds, Size
<1>5. \A i \in Capacity(h.cap) : i < h.lo \/ h.hi + 1 <= i => m.buf[i] \in S
  <2> TAKE i \in Capacity(h.cap)
  <2>1. i < h.lo \/ h.hi + 1 <= i => i < h.lo \/ h.hi <= i
    BY <1>4 DEF Capacity
  <2> QED BY <1>1, <1>3, <2>1 DEF Holds
<1>6. Holds(m, S) /\ Size(m) = Size(h) - 1
  BY <1>2, <1>4, <1>5 DEF Holds, Size
<1>7. t \in Seq(S) /\ Len(t) = Size(h) /\ \A k \in 1..Size(h) : t[k] = char_at(h, k - 1)
  BY <1>1, TextHeld
<1>8. to_string(m) \in Seq(S) /\ Len(to_string(m)) = Size(h) - 1
      /\ \A k \in 1..(Size(h) - 1) : to_string(m)[k] = char_at(m, k - 1)
  BY <1>6, TextHeld
<1>9. \A k \in 1..(Size(h) - 1) : char_at(m, k - 1) = IF k < pos + 1 THEN t[k] ELSE t[k + 1]
  <2> TAKE k \in 1..(Size(h) - 1)
  <2>1. CASE k < pos + 1
    <3>1. k \in 1..Size(h) /\ k - 1 \in Capacity(h.cap) /\ k - 1 < h.lo
      BY <1>1, <1>4, <2>1 DEF Capacity
    <3> QED BY <1>2, <1>3, <1>7, <2>1, <3>1 DEF char_at
  <2>2. CASE ~(k < pos + 1)
    <3> DEFINE i == (k - 1) + ((h.hi + 1) - h.lo)
    <3>1. /\ k + 1 \in 1..Size(h) /\ i \in Capacity(h.cap) /\ h.hi + 1 <= i
          /\ ~(k - 1 < h.lo) /\ ~((k + 1) - 1 < h.lo) /\ i = ((k + 1) - 1) + (h.hi - h.lo)
      BY <1>1, <1>4, <2>2 DEF Capacity
    <3>2. char_at(m, k - 1) = m.buf[i]
      BY <1>2, <3>1 DEF char_at
    <3>3. m.buf[i] = h.buf[i]
      BY <1>3, <3>1
    <3>4. t[k + 1] = h.buf[i]
      BY <1>7, <3>1 DEF char_at
    <3> QED BY <2>2, <3>2, <3>3, <3>4
  <2> QED BY <2>1, <2>2
<1>10. to_string(m) = Less(t, pos + 1)
  <2> HIDE DEF t
  <2> DEFINE k == pos + 1
  <2>1. k \in 1..Len(t) /\ t \in Seq(S)
    BY <1>1, <1>7
  <2> HIDE DEF k
  <2>2. /\ Less(t, k) \in Seq(S) /\ Len(Less(t, k)) = Len(t) - 1
        /\ \A i \in 1..(Len(t) - 1) : Less(t, k)[i] = IF i < k THEN t[i] ELSE t[i + 1]
    BY ONLY <2>1, LessElements
  <2>3. \A i \in 1..Len(to_string(m)) : to_string(m)[i] = Less(t, k)[i]
    BY <1>7, <1>8, <1>9, <2>2 DEF k
  <2> QED BY <1>7, <1>8, <2>2, <2>3, SeqEqual DEF k
<1> QED BY <1>1, <1>2, <1>6, <1>10 DEF m

LEMMA InsertAtGap ==
  ASSUME NEW S, NEW g, Holds(g, S), NEW c \in S, Slack \in Nat \ {0}
  PROVE  LET m == insert(g, c)
         IN  /\ Holds(m, S) /\ Size(m) = Size(g) + 1 /\ m.lo = g.lo + 1
             /\ to_string(m) = With(to_string(g), g.lo + 1, c)
<1> DEFINE h == IF g.lo = g.hi THEN grow03(g) ELSE g
<1>1. Holds(h, S) /\ Size(h) = Size(g) /\ h.lo = g.lo /\ to_string(h) = to_string(g) /\ h.lo < h.hi
  <2>1. CASE g.lo = g.hi
    <3> DEFINE n == Size(g) * 2 + Slack
    <3>1. Size(g) = g.cap /\ g.cap \in Nat /\ g.hi \in Nat /\ Size(g) \in Nat
      BY <2>1 DEF Holds, Size
    <3>2. n \in Nat /\ n > g.cap
      BY <3>1
    <3>3. h = Resized(g, n)
      BY <2>1 DEF grow03
    <3> HIDE DEF h, n
    <3>4. /\ Holds(h, S) /\ Size(h) = Size(g) /\ h.lo = g.lo /\ h.hi = g.hi + (n - g.cap)
          /\ to_string(h) = to_string(g)
      BY <3>1, <3>2, <3>3, Grown
    <3> QED BY <2>1, <3>1, <3>2, <3>4
  <2>2. CASE g.lo # g.hi
    BY <2>2 DEF Holds
  <2> QED BY <2>1, <2>2
<1>2. insert(g, c) = Put(h, c)
  BY DEF insert
<1> HIDE DEF h
<1> QED BY <1>1, <1>2, PutIn

LEMMA InsertAtPos ==
  ASSUME NEW S, NEW g, Holds(g, S), g.cap > 0, NEW pos \in Nat, pos <= Size(g), NEW c \in S
  PROVE  LET m == InsertPos(g, pos, c)
         IN  /\ Holds(m, S) /\ m.cap > 0 /\ Size(m) = Size(g) + 1
             /\ to_string(m) = With(to_string(g), pos + 1, c)
<1> DEFINE f == move_gap(g, pos)
           h == IF f.lo = f.hi THEN grow05(f) ELSE f
<1>1. /\ Holds(f, S) /\ Size(f) = Size(g) /\ f.cap = g.cap /\ f.lo = pos
      /\ to_string(f) = to_string(g)
  <2>1. Size(g) \in Nat /\ Least(pos, Size(g)) = pos
    BY TextHeld DEF Least
  <2> QED BY <2>1, MoveGap
<1>2. InsertPos(g, pos, c) = Put(h, c)
  BY DEF InsertPos
<1> HIDE DEF f
<1>3. /\ Holds(h, S) /\ Size(h) = Size(g) /\ h.lo = pos /\ to_string(h) = to_string(g) /\ h.lo < h.hi
      /\ h.cap > 0
  <2>1. CASE f.lo = f.hi
    <3> DEFINE n == f.cap * 2
    <3>1. f.cap \in Nat /\ f.hi \in Nat /\ n \in Nat /\ n > f.cap
      BY <1>1 DEF Holds
    <3>2. h = Resized(f, n)
      BY <2>1 DEF grow05
    <3> HIDE DEF h, n
    <3>3. /\ Holds(h, S) /\ Size(h) = Size(f) /\ h.lo = f.lo /\ h.hi = f.hi + (n - f.cap)
          /\ to_string(h) = to_string(f) /\ h.cap = n
      BY <1>1, <3>1, <3>2, Grown
    <3> QED BY <1>1, <2>1, <3>1, <3>3
  <2>2. CASE f.lo # f.hi
    BY <1>1, <2>2 DEF Holds
  <2> QED BY <2>1, <2>2
<1> HIDE DEF h
<1>4. LET m == Put(h, c)
      IN  /\ Holds(m, S) /\ Size(m) = Size(h) + 1 /\ m.lo = h.lo + 1 /\ m.cap = h.cap
          /\ to_string(m) = With(to_string(h), h.lo + 1, c)
  BY <1>3, PutIn
<1> QED BY <1>2, <1>3, <1>4

------------------------------------------------------------------------------
(***************************************************************************)
(* Erasing a range from its end.                                           *)
(***************************************************************************)
\* t without its characters b + 1, ..., e, the operator of the abstract text.
Cut(t, b, e) == SubSeq(t, 1, b) \o SubSeq(t, e + 1, Len(t))

LEMMA CutElements ==
  ASSUME NEW S, NEW t \in Seq(S), NEW b \in Nat, NEW e \in Nat, b <= e, e <= Len(t)
  PROVE  /\ Cut(t, b, e) \in Seq(S) /\ Len(Cut(t, b, e)) = Len(t) - (e - b)
         /\ \A i \in 1..(Len(t) - (e - b)) :
              Cut(t, b, e)[i] = IF i <= b THEN t[i] ELSE t[i + (e - b)]
<1> DEFINE u == SubSeq(t, 1, b)
           v == SubSeq(t, e + 1, Len(t))
<1>1. Len(t) \in Nat /\ \A i \in 1..Len(t) : t[i] \in S
  BY LenProperties
<1>2. u \in Seq(S) /\ Len(u) = b /\ \A i \in 1..b : u[i] = t[i]
  <2>1. \A i \in 1..b : t[i] \in S
    BY <1>1
  <2> QED BY <1>1, <2>1, SubSeqProperties
<1>3. v \in Seq(S) /\ Len(v) = Len(t) - e /\ \A i \in 1..(Len(t) - e) : v[i] = t[e + i]
  <2>1. \A i \in (e + 1)..Len(t) : t[i] \in S
    BY <1>1
  <2> QED BY <1>1, <2>1, SubSeqProperties
<1> HIDE DEF u, v
<1>4. /\ u \o v \in Seq(S) /\ Len(u \o v) = Len(t) - (e - b)
      /\ \A i \in 1..(Len(t) - (e - b)) : (u \o v)[i] = IF i <= b THEN u[i] ELSE v[i - b]
  <2>1. Len(u) + Len(v) = Len(t) - (e - b)
    BY <1>1, <1>2, <1>3
  <2>2. /\ u \o v \in Seq(S) /\ Len(u \o v) = Len(u) + Len(v)
        /\ \A i \in 1..(Len(u) + Len(v)) : (u \o v)[i] = IF i <= Len(u) THEN u[i] ELSE v[i - Len(u)]
    BY ONLY <1>2, <1>3, ConcatProperties
  <2> QED BY <1>2, <2>1, <2>2
<1>5. ASSUME NEW i \in 1..(Len(t) - (e - b))
      PROVE  (u \o v)[i] = IF i <= b THEN t[i] ELSE t[i + (e - b)]
  <2>1. CASE i <= b
    BY <1>1, <1>2, <1>4, <2>1
  <2>2. CASE ~(i <= b)
    <3>1. i - b \in 1..(Len(t) - e) /\ e + (i - b) = i + (e - b)
      BY <1>1, <2>2
    <3>2. v[i - b] = t[i + (e - b)]
      BY <1>3, <3>1
    <3> QED BY <1>4, <2>2, <3>2
  <2> QED BY <2>1, <2>2
<1>6. Cut(t, b, e) = u \o v
  BY DEF Cut, u, v
<1> QED BY <1>4, <1>5, <1>6

LEMMA CutNothing ==
  ASSUME NEW S, NEW t \in Seq(S), NEW b \in Nat, b <= Len(t)
  PROVE  Cut(t, b, b) = t
<1> DEFINE e == b
<1>1. e \in Nat /\ b <= e /\ e <= Len(t) /\ e - b = 0 /\ Len(t) \in Nat
  BY LenProperties
<1> HIDE DEF e
<1>2. /\ Cut(t, b, e) \in Seq(S) /\ Len(Cut(t, b, e)) = Len(t) - (e - b)
      /\ \A i \in 1..(Len(t) - (e - b)) :
           Cut(t, b, e)[i] = IF i <= b THEN t[i] ELSE t[i + (e - b)]
  BY ONLY <1>1, b \in Nat, t \in Seq(S), CutElements
<1>3. Len(Cut(t, b, e)) = Len(t) /\ \A i \in 1..Len(Cut(t, b, e)) : Cut(t, b, e)[i] = t[i]
  BY <1>1, <1>2
<1>4. Cut(t, b, e) = t
  BY <1>2, <1>3, SeqEqual
<1> QED BY <1>4 DEF e

\* One more character of a range that is cut from its end.
LEMMA CutMore ==
  ASSUME NEW S, NEW t \in Seq(S), NEW b \in Nat, NEW e \in Nat, b < e, e <= Len(t)
  PROVE  Less(Cut(t, b + 1, e), b + 1) = Cut(t, b, e)
<1> DEFINE c == Cut(t, b + 1, e)
           k == b + 1
<1>1. Len(t) \in Nat /\ k \in Nat /\ k <= e
  BY LenProperties
<1>2. /\ c \in Seq(S) /\ Len(c) = Len(t) - (e - k)
      /\ \A i \in 1..(Len(t) - (e - k)) : c[i] = IF i <= k THEN t[i] ELSE t[i + (e - k)]
  <2> HIDE DEF k
  <2>1. k \in Nat /\ e \in Nat /\ k <= e /\ e <= Len(t) /\ t \in Seq(S)
    BY <1>1
  <2>2. /\ Cut(t, k, e) \in Seq(S) /\ Len(Cut(t, k, e)) = Len(t) - (e - k)
        /\ \A i \in 1..(Len(t) - (e - k)) :
             Cut(t, k, e)[i] = IF i <= k THEN t[i] ELSE t[i + (e - k)]
    BY ONLY <2>1, CutElements, SMTT(30)
  <2> QED BY <2>2 DEF k
<1> HIDE DEF c
<1>3. k \in 1..Len(c)
  BY <1>1, <1>2
<1>4. /\ Less(c, k) \in Seq(S) /\ Len(Less(c, k)) = Len(c) - 1
      /\ \A i \in 1..(Len(c) - 1) : Less(c, k)[i] = IF i < k THEN c[i] ELSE c[i + 1]
  <2> HIDE DEF k
  <2> QED BY ONLY <1>2, <1>3, LessElements
<1>5. /\ Cut(t, b, e) \in Seq(S) /\ Len(Cut(t, b, e)) = Len(t) - (e - b)
      /\ \A i \in 1..(Len(t) - (e - b)) :
           Cut(t, b, e)[i] = IF i <= b THEN t[i] ELSE t[i + (e - b)]
  <2>1. b \in Nat /\ e \in Nat /\ b <= e /\ e <= Len(t) /\ t \in Seq(S)
    BY <1>1
  <2> QED BY ONLY <2>1, CutElements
<1>6. Len(Less(c, k)) = Len(Cut(t, b, e))
  <2>1. Len(c) - 1 = Len(t) - (e - b)
    BY <1>1, <1>2
  <2> QED BY <1>4, <1>5, <2>1
<1>7. ASSUME NEW i \in 1..Len(Less(c, k)) PROVE Less(c, k)[i] = Cut(t, b, e)[i]
  <2>1. i \in 1..(Len(t) - (e - b)) /\ i \in 1..(Len(c) - 1)
    BY <1>1, <1>2, <1>4
  <2>2. CASE i < k
    <3>1. Less(c, k)[i] = c[i]
      BY <1>4, <2>1, <2>2
    <3>2. i \in 1..(Len(t) - (e - k)) /\ i <= k /\ i <= b
      BY <1>1, <2>1, <2>2
    <3> QED BY <1>2, <1>5, <2>1, <3>1, <3>2
  <2>3. CASE ~(i < k)
    <3>1. Less(c, k)[i] = c[i + 1] /\ Cut(t, b, e)[i] = t[i + (e - b)]
      BY <1>1, <1>4, <1>5, <2>1, <2>3
    <3>2. i + 1 \in 1..(Len(t) - (e - k)) /\ ~(i + 1 <= k) /\ (i + 1) + (e - k) = i + (e - b)
      BY <1>1, <2>1, <2>3
    <3> QED BY <1>2, <3>1, <3>2
  <2> QED BY <2>2, <2>3
<1> QED BY <1>4, <1>5, <1>6, <1>7, SeqEqual DEF c

\* The buffers of EraseDown: its recursive definition defines something.
Downs(g, begin, end, F) ==
  F = [i \in begin..end |-> IF i = end THEN g ELSE ErasePos(F[i + 1], i)]

LEMMA DownsExist ==
  ASSUME NEW g, NEW end \in Nat
  PROVE  \A n \in Nat : n <= end => \E F : Downs(g, end - n, end, F)
<1> DEFINE T == {n \in Nat : n <= end => \E F : Downs(g, end - n, end, F)}
<1>1. 0 \in T
  <2> DEFINE F == [i \in end..end |-> g]
  <2>1. \A i \in end..end : i = end
    OBVIOUS
  <2>2. F = [i \in (end - 0)..end |-> IF i = end THEN g ELSE ErasePos(F[i + 1], i)]
    <3>1. (end - 0)..end = end..end
      OBVIOUS
    <3> QED BY <2>1, <3>1
  <2> QED BY <2>2 DEF Downs
<1>2. ASSUME NEW n \in Nat, n \in T PROVE n + 1 \in T
  <2> SUFFICES ASSUME n + 1 <= end PROVE \E G : Downs(g, end - (n + 1), end, G)
    OBVIOUS
  <2> DEFINE b == end - n
             a == end - (n + 1)
  <2>1. a \in Nat /\ b \in Nat /\ b = a + 1 /\ b <= end /\ a # end
    OBVIOUS
  <2>2. PICK F : Downs(g, b, end, F)
    BY <1>2
  <2> DEFINE G == [i \in a..end |-> IF i = a THEN ErasePos(F[b], a) ELSE F[i]]
  <2> HIDE DEF a, b
  <2>3. \A i \in a..end : i # a => i \in b..end
    BY <2>1
  <2>4. \A i \in b..end : i \in a..end /\ i # a
    BY <2>1
  <2>5. ASSUME NEW i \in a..end PROVE G[i] = IF i = end THEN g ELSE ErasePos(G[i + 1], i)
    <3>1. CASE i = a
      <4>1. G[i] = ErasePos(F[b], a)
        BY <3>1
      <4>2. G[i + 1] = F[b]
        BY <2>1, <2>4, <3>1
      <4> QED BY <2>1, <3>1, <4>1, <4>2
    <3>2. CASE i # a
      <4>1. G[i] = F[i] /\ i \in b..end
        BY <2>3, <3>2
      <4>2. F[i] = IF i = end THEN g ELSE ErasePos(F[i + 1], i)
        BY <2>2, <4>1 DEF Downs
      <4>3. i # end => G[i + 1] = F[i + 1]
        <5> SUFFICES ASSUME i # end PROVE G[i + 1] = F[i + 1]
          OBVIOUS
        <5>1. i + 1 \in b..end
          BY <2>1, <4>1
        <5> QED BY <2>4, <5>1
      <4> QED BY <4>1, <4>2, <4>3
    <3> QED BY <3>1, <3>2
  <2>6. G = [i \in a..end |-> IF i = end THEN g ELSE ErasePos(G[i + 1], i)]
    <3> HIDE DEF G
    <3>1. G = [i \in a..end |-> G[i]]
      BY DEF G
    <3> QED BY <2>5, <3>1
  <2> HIDE DEF G
  <2>7. Downs(g, a, end, G)
    BY <2>6 DEF Downs
  <2> QED BY <2>7 DEF a
<1> HIDE DEF T
<1>3. Nat \subseteq T
  BY <1>1, <1>2, SetInduction
<1> QED BY <1>3 DEF T

LEMMA EraseRange ==
  ASSUME NEW S, NEW g, Holds(g, S), NEW begin \in Nat, NEW end \in Nat,
         begin <= end, end <= Size(g)
  PROVE  LET m == EraseDown(g, begin, end)
         IN  /\ Holds(m, S) /\ m.cap = g.cap
             /\ to_string(m) = Cut(to_string(g), begin, end)
<1> DEFINE t == to_string(g)
           F == CHOOSE F : F = [i \in begin..end |-> IF i = end THEN g ELSE ErasePos(F[i + 1], i)]
<1>1. EraseDown(g, begin, end) = F[begin]
  BY DEF EraseDown
<1>2. \E H : H = [i \in begin..end |-> IF i = end THEN g ELSE ErasePos(H[i + 1], i)]
  <2>1. end - begin \in Nat /\ end - begin <= end /\ end - (end - begin) = begin
    OBVIOUS
  <2>2. \E H : Downs(g, end - (end - begin), end, H)
    BY ONLY <2>1, end \in Nat, DownsExist
  <2> QED BY <2>1, <2>2 DEF Downs
<1>3. F = [i \in begin..end |-> IF i = end THEN g ELSE ErasePos(F[i + 1], i)]
  BY <1>2
<1> HIDE DEF F
<1>4. t \in Seq(S) /\ Len(t) = Size(g) /\ Size(g) \in Nat
  BY TextHeld
<1> HIDE DEF t
<1> DEFINE Good(i) == /\ Holds(F[i], S) /\ F[i].cap = g.cap /\ Size(F[i]) = Size(g) - (end - i)
                      /\ to_string(F[i]) = Cut(t, i, end)
           T == {n \in Nat : n <= end - begin => Good(end - n)}
<1>5. 0 \in T
  <2>1. end \in begin..end /\ end - 0 = end /\ F[end] = g
    BY <1>3
  <2>2. Cut(t, end, end) = t
    BY <1>4, CutNothing
  <2>3. Good(end)
    BY <1>4, <2>1, <2>2 DEF t
  <2> QED BY <2>1, <2>3
<1>6. ASSUME NEW n \in Nat, n \in T PROVE n + 1 \in T
  <2> SUFFICES ASSUME n + 1 <= end - begin PROVE Good(end - (n + 1))
    OBVIOUS
  <2> DEFINE i == end - (n + 1)
             h == F[i + 1]
  <2>1. i \in Nat /\ i \in begin..end /\ i # end /\ i < end /\ i + 1 = end - n
    OBVIOUS
  <2>2. Good(i + 1)
    BY <1>6, <2>1
  <2>3. F[i] = ErasePos(h, i)
    BY <1>3, <2>1
  <2> HIDE DEF i
  <2>4. i < Size(h)
    BY <1>4, <2>1, <2>2
  <2>5. Size(h) - 1 = Size(g) - (end - i)
    BY <1>4, <2>1, <2>2
  <2>6. /\ Holds(F[i], S) /\ Size(F[i]) = Size(h) - 1 /\ F[i].cap = g.cap
        /\ to_string(F[i]) = Less(to_string(h), i + 1)
    <3> HIDE DEF h
    <3>1. Holds(h, S) /\ h.cap = g.cap
      BY <2>2 DEF h
    <3> QED BY <2>1, <2>3, <2>4, <3>1, EraseAtPos
  <2>7. Less(to_string(h), i + 1) = Cut(t, i, end)
    BY <1>4, <2>1, <2>2, CutMore
  <2>8. Good(i)
    BY <2>5, <2>6, <2>7
  <2> QED BY <2>8 DEF i
<1>7. Nat \subseteq T
  <2> HIDE DEF T
  <2> QED BY <1>5, <1>6, SetInduction
<1>8. Good(begin)
  <2>1. end - begin \in T /\ end - begin <= end - begin /\ end - (end - begin) = begin
    BY <1>7
  <2> QED BY <2>1
<1> QED BY <1>1, <1>8 DEF t

------------------------------------------------------------------------------
(***************************************************************************)
(* The gap buffer is a text with a point.                                  *)
(***************************************************************************)
GapInv == Holds(gap, Chars)

LEMMA GapStarts == GapInit => GapInv /\ GapText!Init
<1> SUFFICES ASSUME NEW t \in InitTexts,
                    gap = Gapped(Len(t) + InitGap, Len(t), Len(t) + InitGap, LAMBDA i : t[i + 1])
             PROVE  GapInv /\ GapText!Init
  BY DEF GapInit
<1>1. t \in Seq(Chars) /\ Len(t) \in Nat /\ InitGap \in Nat /\ \A k \in 1..Len(t) : t[k] \in Chars
  BY GapAssumption, LenProperties
<1>2. gap.cap = Len(t) + InitGap /\ gap.lo = Len(t) /\ gap.hi = Len(t) + InitGap
  BY DEF Gapped
<1>3. \A i \in Capacity(Len(t) + InitGap) : i < Len(t) \/ Len(t) + InitGap <= i => gap.buf[i] = t[i + 1]
  BY DEF Gapped
<1>4. \A i \in Capacity(gap.cap) : i < gap.lo \/ gap.hi <= i => gap.buf[i] \in Chars
  <2> TAKE i \in Capacity(gap.cap)
  <2>1. SUFFICES ASSUME i < gap.lo \/ gap.hi <= i PROVE gap.buf[i] \in Chars
    OBVIOUS
  <2>2. i \in Capacity(Len(t) + InitGap) /\ i < Len(t) /\ i + 1 \in 1..Len(t)
    BY <1>1, <1>2, <2>1 DEF Capacity
  <2> QED BY <1>1, <1>3, <2>2
<1>5. Holds(gap, Chars)
  <2>1. /\ gap.cap \in Nat /\ gap.lo \in Nat /\ gap.hi \in Nat
        /\ gap.lo <= gap.hi /\ gap.hi <= gap.cap
    BY <1>1, <1>2
  <2> QED BY <1>4, <2>1 DEF Holds
<1>6. to_string(gap) \in Seq(Chars) /\ gap.lo \in 0..Len(to_string(gap))
  BY <1>1, <1>2, <1>5, TextHeld
<1> QED BY <1>5, <1>6 DEF GapInv, GapText!Init

LEMMA GapStep == GapInv /\ [GapNext]_gap => GapInv' /\ [GapText!PointNext]_(GapText!vars)
<1> SUFFICES ASSUME GapInv, [GapNext]_gap
             PROVE  GapInv' /\ [GapText!PointNext]_(GapText!vars)
  OBVIOUS
<1> DEFINE t == to_string(gap)
<1>1. Holds(gap, Chars) /\ gap.lo \in Nat
  BY DEF GapInv, Holds
<1>2. t \in Seq(Chars) /\ Len(t) = Size(gap) /\ Size(gap) \in Nat /\ gap.lo <= Size(gap)
  BY <1>1, TextHeld
<1>3. CASE Erase
  <2>1. CASE gap.lo > 0
    <3>1. Holds(gap', Chars) /\ gap'.lo = gap.lo - 1 /\ to_string(gap') = Less(t, gap.lo)
      BY <1>1, <1>3, <2>1, EraseAtGap DEF Erase
    <3>2. Less(t, gap.lo) = SubSeq(t, 1, gap.lo - 1) \o SubSeq(t, gap.lo + 1, Len(t))
      BY DEF Less
    <3>3. GapText!EraseBefore
      BY <2>1, <3>1, <3>2 DEF GapText!EraseBefore, GapText!Without
    <3> QED BY <3>1, <3>3 DEF GapInv, GapText!PointNext
  <2>2. CASE ~(gap.lo > 0)
    <3>1. UNCHANGED gap
      BY <1>3, <2>2 DEF Erase, erase
    <3> QED BY <3>1 DEF GapInv, GapText!vars
  <2> QED BY <2>1, <2>2
<1>4. ASSUME NEW pos \in 0..(GapMaxLen + 1), Move(pos)
      PROVE  GapInv' /\ GapText!PointNext
  <2>1. pos \in Nat
    OBVIOUS
  <2>2. Holds(gap', Chars) /\ gap'.lo = Least(pos, Size(gap)) /\ to_string(gap') = t
    BY <1>1, <1>4, <2>1, MoveGap DEF Move
  <2>3. gap'.lo \in 0..Len(t)
    BY <1>2, <2>1, <2>2 DEF Least
  <2>4. GapText!Move
    BY <2>2, <2>3 DEF GapText!Move
  <2> QED BY <2>2, <2>4 DEF GapInv, GapText!PointNext
<1>5. ASSUME NEW c \in Chars, Insert(c)
      PROVE  GapInv' /\ GapText!PointNext
  <2>1. Holds(gap', Chars) /\ gap'.lo = gap.lo + 1 /\ to_string(gap') = With(t, gap.lo + 1, c)
    BY <1>1, <1>5, GapAssumption, InsertAtGap DEF Insert
  <2>2. With(t, gap.lo + 1, c) =
          SubSeq(t, 1, gap.lo) \o <<c>> \o SubSeq(t, gap.lo + 1, Len(t))
    <3>1. (gap.lo + 1) - 1 = gap.lo
      BY <1>1
    <3> QED BY <3>1 DEF With
  <2>3. GapText!Insert(c)
    BY <2>1, <2>2 DEF GapText!Insert
  <2> QED BY <2>1, <2>3 DEF GapInv, GapText!PointNext
<1>6. CASE UNCHANGED gap
  BY <1>6 DEF GapInv, GapText!vars
<1> QED BY <1>3, <1>4, <1>5, <1>6 DEF GapNext

\* vc-03: wherever the gap is, however often it was moved, used up and grown, every
\* operation of the buffer is one on a text with a point.
THEOREM GapBufferIsText == GapSpec => []GapInv /\ GapImplementsText
<1>1. GapSpec => []GapInv
  BY GapStarts, GapStep, PTL DEF GapSpec
<1>2. GapSpec => GapText!PointSpec
  BY <1>1, GapStarts, GapStep, PTL DEF GapSpec, GapText!PointSpec
<1> QED BY <1>1, <1>2, PTL DEF GapImplementsText

------------------------------------------------------------------------------
(***************************************************************************)
(* The lines of a text and the index of where they begin.                  *)
(***************************************************************************)
\* The n entries of ls say where the lines of the m characters of t begin, and nothing
\* else; their order is that of the lines, whatever two of them are compared.
Index(t, m, ls, n) ==
  /\ n > 0 /\ ls[1] = 0
  /\ \A i \in 1..n : ls[i] \in Nat
  /\ \A i, j \in 1..n : i < j => ls[i] < ls[j]
  /\ \A i \in 2..n : ls[i] \in 1..m /\ t[ls[i]] = NL
  /\ \A p \in 1..m : t[p] = NL => \E i \in 2..n : ls[i] = p

Lines(t, ls) == ls \in Seq(Nat) /\ Index(t, Len(t), ls, Len(ls))

\* The length of a line, counted from 0, without the NL that ends it.
Length(t, ls, row) ==
  (IF row + 1 < Len(ls) THEN ls[row + 2] - 1 ELSE Len(t)) - ls[row + 1]

Alphabet == Letters \cup {NL}

\* A line begins and ends where its text says, and holds no NL.
LEMMA LineOfText ==
  ASSUME NEW t \in Seq(Alphabet), NEW ls, Lines(t, ls), NEW row \in 0..(Len(ls) - 1)
  PROVE  /\ Len(ls) \in Nat /\ Len(t) \in Nat
         /\ ls[row + 1] \in 0..Len(t) /\ Length(t, ls, row) \in Nat
         /\ ls[row + 1] + Length(t, ls, row) <= Len(t)
         /\ row # 0 => ls[row + 1] \in 1..Len(t) /\ t[ls[row + 1]] = NL
         /\ row = 0 => ls[row + 1] = 0
         /\ \A p \in (ls[row + 1] + 1)..(ls[row + 1] + Length(t, ls, row)) : t[p] # NL
<1>1. Len(ls) \in Nat /\ Len(t) \in Nat /\ \A i \in 1..Len(ls) : ls[i] \in Nat
  BY LenProperties DEF Lines, Index
<1>2. row + 1 \in 1..Len(ls) /\ (row + 1 < Len(ls) => row + 2 \in 2..Len(ls))
  BY <1>1
<1>3. row # 0 => ls[row + 1] \in 1..Len(t) /\ t[ls[row + 1]] = NL
  <2>1. row # 0 => row + 1 \in 2..Len(ls)
    BY <1>1
  <2> QED BY <2>1 DEF Lines, Index
<1>4. row = 0 => ls[row + 1] = 0
  BY DEF Lines, Index
<1>5. ls[row + 1] \in 0..Len(t)
  BY <1>1, <1>3, <1>4
<1>6. row + 1 < Len(ls) => ls[row + 2] \in 1..Len(t) /\ ls[row + 1] < ls[row + 2]
  <2>1. row + 1 < Len(ls) => row + 2 \in 1..Len(ls) /\ row + 1 < row + 2
    BY <1>1
  <2> QED BY <1>2, <2>1 DEF Lines, Index
<1>7. Length(t, ls, row) \in Nat /\ ls[row + 1] + Length(t, ls, row) <= Len(t)
  BY <1>1, <1>5, <1>6 DEF Length
<1>8. ASSUME NEW p \in (ls[row + 1] + 1)..(ls[row + 1] + Length(t, ls, row)), t[p] = NL
      PROVE  FALSE
  <2>1. p \in 1..Len(t) /\ p > ls[row + 1]
    BY <1>1, <1>5, <1>7
  <2>2. PICK i \in 2..Len(ls) : ls[i] = p
    BY <1>8, <2>1 DEF Lines, Index
  <2>3. i > row + 1
    <3>1. SUFFICES ASSUME i <= row + 1 PROVE FALSE
      BY <1>1
    <3>2. i \in 1..Len(ls) /\ (i < row + 1 \/ i = row + 1)
      BY <1>1, <3>1
    <3>3. ls[i] <= ls[row + 1]
      BY <1>1, <1>2, <3>2 DEF Lines, Index
    <3> QED BY <1>1, <1>5, <2>1, <2>2, <3>3
  <2>4. row + 1 < Len(ls) /\ row + 2 <= i /\ i \in 1..Len(ls) /\ row + 2 \in 1..Len(ls)
    BY <1>1, <2>3
  <2>5. ls[row + 2] <= ls[i]
    <3>1. i = row + 2 \/ row + 2 < i
      BY <2>4
    <3>2. row + 2 < i => ls[row + 2] < ls[i]
      BY <2>4 DEF Lines, Index
    <3> QED BY <1>1, <2>4, <3>1, <3>2
  <2>6. p <= ls[row + 2] - 1
    BY <1>1, <1>5, <1>6, <2>4 DEF Length
  <2> QED BY <1>1, <2>1, <2>2, <2>4, <2>5, <2>6
<1> QED BY <1>1, <1>3, <1>4, <1>5, <1>7, <1>8

\* The property of the runs, and the one that is proved here.
LEMMA IndexOfLines ==
  ASSUME text_ \in Seq(Alphabet), Len(text_) = Size(gap_), Lines(text_, line_start_),
         cur_row_ \in 0..(Len(line_start_) - 1),
         cur_col_ \in 0..Length(text_, line_start_, cur_row_)
  PROVE  LineIndex
<1>1. Len(line_start_) \in Nat /\ Len(text_) \in Nat /\ line_start_[1] = 0
  BY LenProperties DEF Lines, Index
<1>2. \A i \in 1..Len(line_start_) - 1 : line_start_[i] < line_start_[i + 1]
  <2> TAKE i \in 1..Len(line_start_) - 1
  <2>1. i \in 1..Len(line_start_) /\ i + 1 \in 1..Len(line_start_) /\ i < i + 1
    BY <1>1
  <2> QED BY <2>1 DEF Lines, Index
<1>3. {line_start_[i] : i \in 2..Len(line_start_)} = {p \in 1..Len(text_) : text_[p] = NL}
  <2>1. ASSUME NEW i \in 2..Len(line_start_)
        PROVE  line_start_[i] \in {p \in 1..Len(text_) : text_[p] = NL}
    BY DEF Lines, Index
  <2>2. ASSUME NEW p \in {p \in 1..Len(text_) : text_[p] = NL}
        PROVE  \E i \in 2..Len(line_start_) : line_start_[i] = p
    BY DEF Lines, Index
  <2> QED BY <2>1, <2>2
<1>4. line_len(cur_row_) = Length(text_, line_start_, cur_row_)
  <2>1. (cur_row_ + 1) + 1 = cur_row_ + 2
    BY <1>1
  <2> QED BY <2>1 DEF line_len, line_count, start, Length
<1> QED BY <1>1, <1>2, <1>3, <1>4 DEF LineIndex, line_count

LEMMA Shifted ==
  ASSUME NEW ls \in Seq(Nat), NEW from \in Nat, NEW delta \in Int,
         \A i \in 1..Len(ls) : i > from => ls[i] + delta \in Nat
  PROVE  /\ shift_lines(ls, from, delta) \in Seq(Nat)
         /\ Len(shift_lines(ls, from, delta)) = Len(ls)
         /\ \A i \in 1..Len(ls) :
              shift_lines(ls, from, delta)[i] = IF i > from THEN ls[i] + delta ELSE ls[i]
<1> DEFINE ks == shift_lines(ls, from, delta)
           S == Nat
<1>1. Len(ls) \in Nat /\ \A i \in 1..Len(ls) : ls[i] \in Nat
  BY LenProperties
<1>2. ks \in [1..Len(ls) -> S]
  BY <1>1 DEF shift_lines
<1>3. ks \in Seq(S)
  <2> HIDE DEF ks, S
  <2> QED BY <1>1, <1>2, SeqDef
<1>4. Len(ks) = Len(ls)
  <2> HIDE DEF ks
  <2> QED BY <1>1, <1>2, <1>3, LenProperties
<1> QED BY <1>3, <1>4 DEF shift_lines

------------------------------------------------------------------------------
(***************************************************************************)
(* What the edits do to the index, whatever the memory of the text is.     *)
(***************************************************************************)
\* The characters b + 1, ..., e are deleted: j lines begin up to there, those from
\* the l-th on begin behind, and the ones between are forgotten.
Deleted(t, m, ls, n, b, e, j, l, u, ks) ==
  /\ m \in Nat /\ n \in Nat /\ Index(t, m, ls, n)
  /\ b \in Nat /\ e \in Nat /\ b <= e /\ e <= m
  /\ j \in 1..n /\ l \in (j + 1)..(n + 1)
  /\ \A i \in 1..n : i <= j => ls[i] <= b
  /\ \A i \in 1..n : i > j /\ i < l => ls[i] > b /\ ls[i] <= e
  /\ \A i \in 1..n : i >= l => ls[i] > e
  /\ \A p \in 1..(m - (e - b)) : u[p] = IF p <= b THEN t[p] ELSE t[p + (e - b)]
  /\ \A i \in 1..(n - (l - 1 - j)) :
       ks[i] = IF i <= j THEN ls[i] ELSE ls[i + (l - 1 - j)] - (e - b)

LEMMA IndexDeleted ==
  ASSUME NEW t, NEW m, NEW ls, NEW n, NEW b, NEW e, NEW j, NEW l, NEW u, NEW ks,
         Deleted(t, m, ls, n, b, e, j, l, u, ks)
  PROVE  Index(u, m - (e - b), ks, n - (l - 1 - j))
<1> USE DEF Deleted
<1> DEFINE d == e - b
           f == l - 1 - j
           M == m - d
           N == n - f
<1>1. d \in Nat /\ f \in Nat /\ M \in Nat /\ N \in Nat /\ N >= j /\ j >= 1 /\ n >= 1 /\ M >= b
  OBVIOUS
<1>2. \A p \in 1..M : u[p] = IF p <= b THEN t[p] ELSE t[p + d]
  OBVIOUS
<1>3. \A i \in 1..N : ks[i] = IF i <= j THEN ls[i] ELSE ls[i + f] - d
  OBVIOUS
<1>4. \A i \in 1..N : i <= j => i \in 1..n /\ ks[i] = ls[i] /\ ks[i] \in Nat /\ ks[i] <= b
  BY <1>1, <1>3 DEF Index
<1>5. \A i \in 1..N : ~(i <= j) => /\ i + f \in 1..n /\ ls[i + f] \in Nat /\ ls[i + f] > e
                                   /\ ks[i] = ls[i + f] - d /\ ks[i] \in Nat /\ ks[i] > b
  <2> TAKE i \in 1..N
  <2> SUFFICES ASSUME ~(i <= j)
               PROVE  /\ i + f \in 1..n /\ ls[i + f] \in Nat /\ ls[i + f] > e
                      /\ ks[i] = ls[i + f] - d /\ ks[i] \in Nat /\ ks[i] > b
    OBVIOUS
  <2>1. i + f \in 1..n /\ i + f >= l
    OBVIOUS
  <2>2. ls[i + f] \in Nat /\ ls[i + f] > e
    BY <2>1 DEF Index
  <2>3. ks[i] = ls[i + f] - d
    BY <1>3
  <2> QED BY <2>1, <2>2, <2>3
<1> HIDE DEF d, f, M, N
<1>6. N > 0 /\ ks[1] = 0
  BY <1>1, <1>4 DEF Index
<1>7. \A i \in 1..N : ks[i] \in Nat
  BY <1>4, <1>5
<1>8. \A i, h \in 1..N : i < h => ks[i] < ks[h]
  <2> TAKE i, h \in 1..N
  <2> SUFFICES ASSUME i < h PROVE ks[i] < ks[h]
    OBVIOUS
  <2>1. CASE h <= j
    BY <1>1, <1>4, <2>1 DEF Index
  <2>2. CASE i <= j /\ ~(h <= j)
    BY <1>4, <1>5, <2>2
  <2>3. CASE ~(i <= j)
    <3>1. ~(h <= j) /\ i + f < h + f
      BY <1>1, <2>3
    <3>2. i + f \in 1..n /\ h + f \in 1..n
      BY <1>5, <2>3, <3>1
    <3>3. ls[i + f] < ls[h + f]
      BY <3>1, <3>2 DEF Index
    <3> QED BY <1>1, <1>5, <2>3, <3>1, <3>3
  <2> QED BY <2>1, <2>2, <2>3
<1>9. \A i \in 2..N : ks[i] \in 1..M /\ u[ks[i]] = NL
  <2> TAKE i \in 2..N
  <2>1. CASE i <= j
    <3>1. i \in 2..n /\ i \in 1..N
      BY <1>1, <2>1
    <3>2. ls[i] \in 1..m /\ t[ls[i]] = NL
      BY <3>1 DEF Index
    <3>3. ks[i] = ls[i] /\ ks[i] <= b
      BY <1>4, <2>1, <3>1
    <3>4. ks[i] \in 1..M
      BY <1>1, <3>2, <3>3
    <3> QED BY <1>2, <3>2, <3>3, <3>4
  <2>2. CASE ~(i <= j)
    <3>1. i \in 1..N /\ i + f \in 2..n
      <4>1. i \in 1..N
        BY <1>1
      <4>2. i + f \in 1..n
        BY ONLY <1>5, <2>2, <4>1
      <4> QED BY <1>1, <4>1, <4>2
    <3>2. ls[i + f] \in 1..m /\ t[ls[i + f]] = NL
      BY <3>1 DEF Index
    <3>3. ks[i] = ls[i + f] - d /\ ks[i] \in Nat /\ ks[i] > b
      BY <1>5, <2>2, <3>1
    <3>4. ks[i] \in 1..M /\ ~(ks[i] <= b) /\ ks[i] + d = ls[i + f]
      BY <1>1, <3>2, <3>3 DEF M
    <3> QED BY <1>2, <3>2, <3>4
  <2> QED BY <2>1, <2>2
<1>10. \A p \in 1..M : u[p] = NL => \E i \in 2..N : ks[i] = p
  <2> TAKE p \in 1..M
  <2> SUFFICES ASSUME u[p] = NL PROVE \E i \in 2..N : ks[i] = p
    OBVIOUS
  <2>1. CASE p <= b
    <3>1. p \in 1..m /\ t[p] = NL
      BY <1>1, <1>2, <2>1 DEF M
    <3>2. PICK i \in 2..n : ls[i] = p
      BY <3>1 DEF Index
    <3>3. i <= j
      <4> SUFFICES ASSUME i > j PROVE FALSE
        OBVIOUS
      <4>1. i \in 1..n
        BY <1>1
      <4>2. CASE i >= l
        BY <2>1, <3>2, <4>1, <4>2
      <4>3. CASE i < l
        BY <2>1, <3>2, <4>1, <4>3
      <4> QED BY <4>2, <4>3
    <3> QED BY <1>1, <1>4, <3>2, <3>3
  <2>2. CASE ~(p <= b)
    <3>1. p + d \in 1..m /\ t[p + d] = NL /\ p + d > e
      BY <1>1, <1>2, <2>2 DEF M, d
    <3>2. PICK i \in 2..n : ls[i] = p + d
      BY <3>1 DEF Index
    <3>3. i \in 1..n /\ i >= l
      <4>1. i \in 1..n /\ (i <= j \/ (i > j /\ i < l) \/ i >= l)
        BY <1>1
      <4>2. ~(i <= j)
        BY <3>1, <3>2, <4>1
      <4>3. ~(i > j /\ i < l)
        BY <3>1, <3>2, <4>1
      <4> QED BY <4>1, <4>2, <4>3
    <3>4. i - f \in 2..N /\ i - f \in 1..N /\ ~(i - f <= j) /\ (i - f) + f = i
      BY <1>1, <3>3 DEF f, N
    <3>5. ks[i - f] = ls[i] - d
      BY <1>3, <3>4 DEF N, f, d
    <3>6. ks[i - f] = p
      BY <1>1, <3>2, <3>5
    <3> QED BY <3>4, <3>6
  <2> QED BY <2>1, <2>2
<1> QED BY <1>6, <1>7, <1>8, <1>9, <1>10 DEF Index, d, f, M, N

\* A character goes in behind the first o; j lines begin up to there.
Typed(t, m, ls, n, o, c, j, u, ks) ==
  /\ m \in Nat /\ n \in Nat /\ Index(t, m, ls, n)
  /\ o \in Nat /\ o <= m /\ c # NL /\ j \in 1..n
  /\ \A i \in 1..n : i <= j => ls[i] <= o
  /\ \A i \in 1..n : i > j => ls[i] > o
  /\ \A p \in 1..(m + 1) : u[p] = IF p < o + 1 THEN t[p] ELSE IF p = o + 1 THEN c ELSE t[p - 1]
  /\ \A i \in 1..n : ks[i] = IF i > j THEN ls[i] + 1 ELSE ls[i]

LEMMA IndexTyped ==
  ASSUME NEW t, NEW m, NEW ls, NEW n, NEW o, NEW c, NEW j, NEW u, NEW ks,
         Typed(t, m, ls, n, o, c, j, u, ks)
  PROVE  Index(u, m + 1, ks, n)
<1> USE DEF Typed
<1>1. ks[1] = 0 /\ n > 0
  BY DEF Index
<1>2. \A i \in 1..n : ks[i] \in Nat /\ ls[i] \in Nat
  BY DEF Index
<1>3. \A i, h \in 1..n : i < h => ks[i] < ks[h]
  <2> TAKE i, h \in 1..n
  <2> SUFFICES ASSUME i < h PROVE ks[i] < ks[h]
    OBVIOUS
  <2>1. ls[i] < ls[h] /\ ls[i] \in Nat /\ ls[h] \in Nat
    BY DEF Index
  <2> QED BY <2>1
<1>4. \A i \in 2..n : ks[i] \in 1..(m + 1) /\ u[ks[i]] = NL
  <2> TAKE i \in 2..n
  <2>1. i \in 1..n /\ ls[i] \in 1..m /\ t[ls[i]] = NL
    BY DEF Index
  <2>2. CASE i > j
    <3>1. ks[i] = ls[i] + 1 /\ ls[i] > o
      BY <2>1, <2>2
    <3>2. ks[i] \in 1..(m + 1) /\ ~(ks[i] < o + 1) /\ ks[i] # o + 1 /\ ks[i] - 1 = ls[i]
      BY <2>1, <3>1
    <3> QED BY <2>1, <3>2
  <2>3. CASE ~(i > j)
    <3>1. ks[i] = ls[i] /\ ls[i] <= o
      BY <2>1, <2>3
    <3>2. ks[i] \in 1..(m + 1) /\ ks[i] < o + 1
      BY <2>1, <3>1
    <3> QED BY <2>1, <3>1, <3>2
  <2> QED BY <2>2, <2>3
<1>5. \A p \in 1..(m + 1) : u[p] = NL => \E i \in 2..n : ks[i] = p
  <2> TAKE p \in 1..(m + 1)
  <2> SUFFICES ASSUME u[p] = NL PROVE \E i \in 2..n : ks[i] = p
    OBVIOUS
  <2>1. CASE p < o + 1
    <3>1. p \in 1..m /\ t[p] = NL
      BY <2>1
    <3>2. PICK i \in 2..n : ls[i] = p
      BY <3>1 DEF Index
    <3> QED BY <2>1, <3>2
  <2>2. CASE p = o + 1
    BY <2>2
  <2>3. CASE p > o + 1
    <3>1. p - 1 \in 1..m /\ t[p - 1] = NL
      BY <2>3
    <3>2. PICK i \in 2..n : ls[i] = p - 1
      BY <3>1 DEF Index
    <3> QED BY <2>3, <3>2
  <2> QED BY <2>1, <2>2, <2>3
<1> QED BY <1>1, <1>2, <1>3, <1>4, <1>5 DEF Index

\* A line is broken behind the first o characters.
Broken(t, m, ls, n, o, j, u, ks) ==
  /\ m \in Nat /\ n \in Nat /\ Index(t, m, ls, n)
  /\ o \in Nat /\ o <= m /\ j \in 1..n
  /\ \A i \in 1..n : i <= j => ls[i] <= o
  /\ \A i \in 1..n : i > j => ls[i] > o
  /\ \A p \in 1..(m + 1) : u[p] = IF p < o + 1 THEN t[p] ELSE IF p = o + 1 THEN NL ELSE t[p - 1]
  /\ \A i \in 1..(n + 1) :
       ks[i] = IF i < j + 1 THEN ls[i] ELSE IF i = j + 1 THEN o + 1 ELSE ls[i - 1] + 1

LEMMA IndexBroken ==
  ASSUME NEW t, NEW m, NEW ls, NEW n, NEW o, NEW j, NEW u, NEW ks,
         Broken(t, m, ls, n, o, j, u, ks)
  PROVE  Index(u, m + 1, ks, n + 1)
<1> USE DEF Broken
<1>1. ks[1] = 0 /\ n + 1 > 0
  BY DEF Index
<1>2. \A i \in 1..(n + 1) : i < j + 1 => i \in 1..n /\ ks[i] = ls[i] /\ ls[i] \in Nat /\ ls[i] <= o
  BY DEF Index
<1>3. \A i \in 1..(n + 1) : i > j + 1 => /\ i - 1 \in 1..n /\ ks[i] = ls[i - 1] + 1
                                        /\ ls[i - 1] \in Nat /\ ls[i - 1] > o
  BY DEF Index
<1>4. \A i \in 1..(n + 1) : i = j + 1 => ks[i] = o + 1
  OBVIOUS
<1>5. \A i \in 1..(n + 1) : ks[i] \in Nat
  BY <1>2, <1>3, <1>4
<1>6. \A i, h \in 1..(n + 1) : i < h => ks[i] < ks[h]
  <2> TAKE i, h \in 1..(n + 1)
  <2> SUFFICES ASSUME i < h PROVE ks[i] < ks[h]
    OBVIOUS
  <2>1. CASE h < j + 1
    <3>1. i < j + 1 /\ i \in 1..n /\ h \in 1..n
      BY <2>1
    <3>2. ls[i] < ls[h]
      BY <3>1 DEF Index
    <3> QED BY <1>2, <2>1, <3>1, <3>2
  <2>2. CASE i > j + 1
    <3>1. h > j + 1 /\ i - 1 \in 1..n /\ h - 1 \in 1..n /\ i - 1 < h - 1
      BY <2>2
    <3>2. ls[i - 1] < ls[h - 1]
      BY <3>1 DEF Index
    <3> QED BY <1>3, <2>2, <3>1, <3>2
  <2>3. CASE i <= j + 1 /\ h >= j + 1
    BY <1>2, <1>3, <1>4, <2>3
  <2> QED BY <2>1, <2>2, <2>3
<1>7. \A i \in 2..(n + 1) : ks[i] \in 1..(m + 1) /\ u[ks[i]] = NL
  <2> TAKE i \in 2..(n + 1)
  <2>1. CASE i < j + 1
    <3>1. i \in 2..n /\ ks[i] = ls[i] /\ ls[i] <= o
      BY <1>2, <2>1
    <3>2. ls[i] \in 1..m /\ t[ls[i]] = NL
      BY <3>1 DEF Index
    <3> QED BY <3>1, <3>2
  <2>2. CASE i = j + 1
    <3>1. ks[i] = o + 1 /\ o + 1 \in 1..(m + 1)
      BY <1>4, <2>2
    <3> QED BY <3>1
  <2>3. CASE i > j + 1
    <3>1. i - 1 \in 2..n /\ ks[i] = ls[i - 1] + 1 /\ ls[i - 1] > o
      BY <1>3, <2>3
    <3>2. ls[i - 1] \in 1..m /\ t[ls[i - 1]] = NL
      BY <3>1 DEF Index
    <3>3. ks[i] \in 1..(m + 1) /\ ~(ks[i] < o + 1) /\ ks[i] # o + 1 /\ ks[i] - 1 = ls[i - 1]
      BY <3>1, <3>2
    <3> QED BY <3>2, <3>3
  <2> QED BY <2>1, <2>2, <2>3
<1>8. \A p \in 1..(m + 1) : u[p] = NL => \E i \in 2..(n + 1) : ks[i] = p
  <2> TAKE p \in 1..(m + 1)
  <2> SUFFICES ASSUME u[p] = NL PROVE \E i \in 2..(n + 1) : ks[i] = p
    OBVIOUS
  <2>1. CASE p < o + 1
    <3>1. p \in 1..m /\ t[p] = NL
      BY <2>1
    <3>2. PICK i \in 2..n : ls[i] = p
      BY <3>1 DEF Index
    <3>3. i < j + 1 /\ i \in 2..(n + 1)
      BY <2>1, <3>2
    <3> QED BY <3>2, <3>3
  <2>2. CASE p = o + 1
    <3>1. j + 1 \in 2..(n + 1) /\ ks[j + 1] = p
      BY <1>4, <2>2
    <3> QED BY <3>1
  <2>3. CASE p > o + 1
    <3>1. p - 1 \in 1..m /\ t[p - 1] = NL
      BY <2>3
    <3>2. PICK i \in 2..n : ls[i] = p - 1
      BY <3>1 DEF Index
    <3>3. i + 1 > j + 1 /\ i + 1 \in 2..(n + 1) /\ (i + 1) - 1 = i
      BY <2>3, <3>2
    <3>4. ks[i + 1] = p
      BY <3>2, <3>3
    <3> QED BY <3>3, <3>4
  <2> QED BY <2>1, <2>2, <2>3
<1> QED BY <1>1, <1>5, <1>6, <1>7, <1>8 DEF Index

------------------------------------------------------------------------------
(***************************************************************************)
(* The editor is a text with a point, and its index is right.              *)
(***************************************************************************)
EditInv ==
  /\ Holds(gap_, Alphabet) /\ gap_.cap > 0
  /\ Lines(text_, line_start_)
  /\ cur_row_ \in 0..(Len(line_start_) - 1)
  /\ cur_col_ \in 0..Length(text_, line_start_, cur_row_)

\* What every step knows of the state it starts from.
LEMMA Where ==
  ASSUME EditInv
  PROVE  /\ text_ \in Seq(Alphabet) /\ Len(text_) = Size(gap_) /\ Len(text_) \in Nat
         /\ line_start_ \in Seq(Nat) /\ line_count \in Nat /\ line_count > 0
         /\ Index(text_, Len(text_), line_start_, line_count)
         /\ \A i \in 1..line_count : line_start_[i] \in Nat
         /\ cur_row_ \in Nat /\ cur_col_ \in Nat /\ cur_row_ < line_count
         /\ start(cur_row_) \in Nat /\ offset = start(cur_row_) + cur_col_
         /\ offset \in Nat /\ offset <= Len(text_)
         /\ line_len(cur_row_) = Length(text_, line_start_, cur_row_) /\ line_len(cur_row_) \in Nat
<1>1. text_ \in Seq(Alphabet) /\ Len(text_) = Size(gap_) /\ Len(text_) \in Nat
  BY TextHeld DEF EditInv, text_
<1>2. /\ line_start_ \in Seq(Nat) /\ line_count \in Nat /\ line_count > 0
      /\ Index(text_, Len(text_), line_start_, line_count)
      /\ \A i \in 1..line_count : line_start_[i] \in Nat
  BY LenProperties DEF EditInv, Lines, line_count, Index
<1>3. cur_row_ \in Nat /\ cur_row_ < line_count
  BY <1>2 DEF EditInv, line_count
<1>4. /\ start(cur_row_) \in 0..Len(text_) /\ Length(text_, line_start_, cur_row_) \in Nat
      /\ start(cur_row_) + Length(text_, line_start_, cur_row_) <= Len(text_)
  <2>1. Lines(text_, line_start_) /\ cur_row_ \in 0..(Len(line_start_) - 1)
    BY DEF EditInv
  <2> QED BY ONLY <1>1, <2>1, LineOfText DEF start
<1>5. cur_col_ \in Nat /\ cur_col_ <= Length(text_, line_start_, cur_row_)
  BY <1>4 DEF EditInv
<1>6. line_len(cur_row_) = Length(text_, line_start_, cur_row_)
  <2>1. (cur_row_ + 1) + 1 = cur_row_ + 2
    BY <1>3
  <2> QED BY <1>1, <2>1 DEF line_len, line_count, start, Length
<1> QED BY <1>1, <1>2, <1>3, <1>4, <1>5, <1>6 DEF offset

\* Which lines begin before a place in line row, and which behind it.
LEMMA LinesAround ==
  ASSUME EditInv, NEW o \in start(cur_row_)..(start(cur_row_) + line_len(cur_row_))
  PROVE  /\ o \in Nat /\ o <= Len(text_)
         /\ \A i \in 1..line_count : i <= cur_row_ + 1 => line_start_[i] <= o
         /\ \A i \in 1..line_count : i > cur_row_ + 1 => line_start_[i] > o
<1> DEFINE ls == line_start_
           n == line_count
           r == cur_row_ + 1
<1>1. /\ n \in Nat /\ r \in 1..n /\ \A i \in 1..n : ls[i] \in Nat
      /\ \A i, j \in 1..n : i < j => ls[i] < ls[j]
      /\ ls[r] = start(cur_row_) /\ ls[r] \in Nat
  <2>1. /\ n \in Nat /\ cur_row_ \in Nat /\ cur_row_ < n /\ Index(text_, Len(text_), ls, n)
        /\ \A i \in 1..n : ls[i] \in Nat
    BY Where
  <2>2. r \in 1..n
    BY <2>1
  <2> QED BY <2>1, <2>2 DEF Index, start
<1>2. /\ Length(text_, ls, cur_row_) \in Nat /\ line_len(cur_row_) = Length(text_, ls, cur_row_)
      /\ ls[r] + Length(text_, ls, cur_row_) <= Len(text_) /\ Len(text_) \in Nat
  <2>1. Lines(text_, ls) /\ cur_row_ \in 0..(Len(ls) - 1) /\ text_ \in Seq(Alphabet)
    BY Where DEF EditInv
  <2>2. /\ Length(text_, ls, cur_row_) \in Nat
        /\ ls[r] + Length(text_, ls, cur_row_) <= Len(text_) /\ Len(text_) \in Nat
    BY ONLY <2>1, LineOfText
  <2> QED BY <2>2, Where
<1>3. o \in Nat /\ o <= Len(text_) /\ ls[r] <= o /\ o <= ls[r] + Length(text_, ls, cur_row_)
  BY <1>1, <1>2
<1>4. r < n => ls[r + 1] > o /\ r + 1 \in 1..n
  <2> SUFFICES ASSUME r < n PROVE ls[r + 1] > o /\ r + 1 \in 1..n
    OBVIOUS
  <2>1. r + 1 \in 1..n /\ r + 1 = cur_row_ + 2
    <3>1. cur_row_ \in Nat /\ n \in Nat
      BY Where
    <3> HIDE DEF n
    <3> QED BY <3>1
  <2>2. Length(text_, ls, cur_row_) = (ls[r + 1] - 1) - ls[r]
    BY <2>1 DEF Length, line_count
  <2> QED BY <1>1, <1>3, <2>1, <2>2
<1> HIDE DEF n, r, ls
<1>5. \A i \in 1..n : i <= r => ls[i] <= o
  <2> TAKE i \in 1..n
  <2>1. i < r => ls[i] < ls[r]
    BY <1>1
  <2>2. ls[i] \in Nat /\ (i <= r => i < r \/ i = r)
    BY <1>1
  <2> QED BY <1>1, <1>3, <2>1, <2>2
<1>6. \A i \in 1..n : i > r => ls[i] > o
  <2> TAKE i \in 1..n
  <2> SUFFICES ASSUME i > r PROVE ls[i] > o
    OBVIOUS
  <2>1. r < n /\ r + 1 \in 1..n /\ (i = r + 1 \/ r + 1 < i)
    BY <1>1
  <2>2. r + 1 < i => ls[r + 1] < ls[i]
    BY <1>1, <2>1
  <2> QED BY <1>1, <1>3, <1>4, <2>1, <2>2
<1> QED BY <1>3, <1>5, <1>6 DEF n, r, ls

\* The text and the memory after a character went in at the cursor.
LEMMA PutAtCursor ==
  ASSUME EditInv, NEW c \in Alphabet, gap_' = InsertPos(gap_, offset, c)
  PROVE  /\ Holds(gap_, Alphabet)' /\ gap_'.cap > 0
         /\ text_' \in Seq(Alphabet) /\ Len(text_') = Len(text_) + 1
         /\ \A p \in 1..(Len(text_) + 1) : text_'[p] =
              IF p < offset + 1 THEN text_[p] ELSE IF p = offset + 1 THEN c ELSE text_[p - 1]
         /\ text_' = SubSeq(text_, 1, offset) \o <<c>> \o SubSeq(text_, offset + 1, Len(text_))
<1>1. offset \in Nat /\ offset <= Size(gap_) /\ Holds(gap_, Alphabet) /\ gap_.cap > 0
      /\ text_ \in Seq(Alphabet) /\ Len(text_) = Size(gap_) /\ Len(text_) \in Nat
  BY Where DEF EditInv
<1> DEFINE k == offset + 1
<1>2. /\ Holds(gap_', Alphabet) /\ gap_'.cap > 0
      /\ to_string(gap_') = With(to_string(gap_), k, c)
  BY <1>1, InsertAtPos
<1>3. text_' = With(text_, k, c) /\ k \in 1..(Len(text_) + 1)
  BY <1>1, <1>2 DEF text_
<1>4. /\ With(text_, k, c) \in Seq(Alphabet) /\ Len(With(text_, k, c)) = Len(text_) + 1
      /\ \A p \in 1..(Len(text_) + 1) :
           With(text_, k, c)[p] = IF p < k THEN text_[p] ELSE IF p = k THEN c ELSE text_[p - 1]
  <2> HIDE DEF k
  <2>1. k \in 1..(Len(text_) + 1) /\ text_ \in Seq(Alphabet) /\ c \in Alphabet
    BY <1>1, <1>3
  <2>2. Inserted(With(text_, k, c), Alphabet, text_, k, c)
    BY ONLY <2>1, WithElements
  <2> QED BY <2>2 DEF Inserted
<1>5. With(text_, k, c) = SubSeq(text_, 1, offset) \o <<c>> \o SubSeq(text_, k, Len(text_))
  <2>1. k - 1 = offset
    BY <1>1
  <2> QED BY <2>1 DEF With
<1>6. Holds(gap_, Alphabet)'
  BY <1>2
<1> HIDE DEF k
<1>7. /\ text_' \in Seq(Alphabet) /\ Len(text_') = Len(text_) + 1
      /\ \A p \in 1..(Len(text_) + 1) : text_'[p] =
           IF p < k THEN text_[p] ELSE IF p = k THEN c ELSE text_[p - 1]
      /\ text_' = SubSeq(text_, 1, offset) \o <<c>> \o SubSeq(text_, k, Len(text_))
  BY <1>3, <1>4, <1>5
<1> QED BY <1>2, <1>6, <1>7 DEF k

LEMMA TypesChar ==
  ASSUME EditInv, NEW c \in Letters, insert_char(c)
  PROVE  EditInv' /\ EditText!Insert(c)
<1> DEFINE t == text_
           ls == line_start_
           n == line_count
           r == cur_row_ + 1
           u == text_'
           ks == line_start_'
<1>1. /\ t \in Seq(Alphabet) /\ Len(t) \in Nat /\ ls \in Seq(Nat) /\ n \in Nat /\ r \in 1..n
      /\ Index(t, Len(t), ls, n) /\ \A i \in 1..n : ls[i] \in Nat
      /\ offset \in Nat /\ offset <= Len(t) /\ cur_row_ \in Nat /\ cur_col_ \in Nat
      /\ offset = ls[r] + cur_col_ /\ ls[r] \in Nat /\ Len(ls) = n
  BY Where DEF start, line_count
<1>2. c \in Alphabet /\ c # NL
  BY EditAssumption DEF Alphabet
<1>3. /\ Holds(gap_, Alphabet)' /\ gap_'.cap > 0
      /\ u \in Seq(Alphabet) /\ Len(u) = Len(t) + 1
      /\ \A p \in 1..(Len(t) + 1) : u[p] =
           IF p < offset + 1 THEN t[p] ELSE IF p = offset + 1 THEN c ELSE t[p - 1]
      /\ u = SubSeq(t, 1, offset) \o <<c>> \o SubSeq(t, offset + 1, Len(t))
  BY <1>2, PutAtCursor DEF insert_char
<1>4. /\ \A i \in 1..n : i <= r => ls[i] <= offset
      /\ \A i \in 1..n : i > r => ls[i] > offset
  <2>1. offset \in start(cur_row_)..(start(cur_row_) + line_len(cur_row_))
    <3>1. cur_col_ \in 0..line_len(cur_row_)
      BY Where DEF EditInv
    <3>2. start(cur_row_) \in Nat /\ offset = start(cur_row_) + cur_col_ /\ line_len(cur_row_) \in Nat
      BY Where
    <3> QED BY <1>1, <3>1, <3>2
  <2> QED BY <2>1, LinesAround
<1>5. cur_row_' = cur_row_ /\ cur_col_' = cur_col_ + 1 /\ ks = shift_lines(ls, r, 1)
  BY DEF insert_char
<1>6. ks \in Seq(Nat) /\ Len(ks) = n /\ \A i \in 1..n : ks[i] = IF i > r THEN ls[i] + 1 ELSE ls[i]
  <2>1. r \in Nat /\ 1 \in Int /\ \A i \in 1..Len(ls) : i > r => ls[i] + 1 \in Nat
    BY <1>1
  <2> HIDE DEF r
  <2> QED BY <1>1, <1>5, <2>1, Shifted
<1>7. Index(u, Len(u), ks, n)
  <2>1. Typed(t, Len(t), ls, n, offset, c, r, u, ks)
    <3> HIDE DEF t, u, ls, ks, n, r
    <3> QED BY <1>1, <1>2, <1>3, <1>4, <1>6 DEF Typed
  <2>2. Index(u, Len(t) + 1, ks, n)
    BY <2>1, IndexTyped
  <2> QED BY <1>3, <2>2
<1>8. Lines(u, ks)
  BY <1>6, <1>7 DEF Lines
<1>9. ks[r] = ls[r] /\ cur_row_' \in 0..(Len(ks) - 1)
  BY <1>1, <1>5, <1>6
<1>10. Length(u, ks, cur_row_) = Length(t, ls, cur_row_) + 1
  <2>1. Length(t, ls, cur_row_) = (IF r < n THEN ls[r + 1] - 1 ELSE Len(t)) - ls[r]
    <3>1. cur_row_ + 2 = r + 1
      BY <1>1
    <3> QED BY <1>1, <3>1 DEF Length
  <2>2. Length(u, ks, cur_row_) = (IF r < n THEN ks[r + 1] - 1 ELSE Len(u)) - ks[r]
    <3>1. cur_row_ + 2 = r + 1
      BY <1>1
    <3> QED BY <1>6, <3>1 DEF Length
  <2>3. r < n => r + 1 \in 1..n /\ r + 1 > r
    BY <1>1
  <2>4. r < n => ks[r + 1] = ls[r + 1] + 1 /\ ls[r + 1] \in Nat
    BY <1>1, <1>6, <2>3
  <2>5. Len(t) \in Nat /\ ls[r] \in Nat /\ Len(u) = Len(t) + 1 /\ ks[r] = ls[r]
    BY <1>1, <1>3, <1>9
  <2> HIDE DEF r, n, t, u, ls, ks
  <2> QED BY ONLY <2>1, <2>2, <2>4, <2>5
<1>11. cur_col_' \in 0..Length(u, ks, cur_row_')
  <2>1. cur_col_ <= Length(t, ls, cur_row_) /\ Length(t, ls, cur_row_) \in Int
    <3>1. cur_col_ \in 0..Length(t, ls, cur_row_)
      BY DEF EditInv
    <3>2. Length(t, ls, cur_row_) \in Nat
      <4>1. Lines(t, ls) /\ cur_row_ \in 0..(Len(ls) - 1)
        BY DEF EditInv
      <4> QED BY ONLY <1>1, <4>1, LineOfText
    <3> QED BY <3>1, <3>2
  <2> QED BY <1>1, <1>5, <1>10, <2>1
<1>12. EditInv'
  BY <1>3, <1>8, <1>9, <1>11 DEF EditInv
<1>13. offset' = offset + 1
  <2>1. offset' = ks[r] + (cur_col_ + 1)
    BY <1>5 DEF offset, start
  <2> QED BY <1>1, <1>9, <2>1
<1> QED BY <1>3, <1>12, <1>13 DEF EditText!Insert

LEMMA BreaksLine ==
  ASSUME EditInv, insert_newline
  PROVE  EditInv' /\ EditText!Insert(NL)
<1> DEFINE t == text_
           ls == line_start_
           n == line_count
           r == cur_row_ + 1
           u == text_'
           ks == line_start_'
           sh == shift_lines(ls, r, 1)
<1>1. /\ t \in Seq(Alphabet) /\ Len(t) \in Nat /\ ls \in Seq(Nat) /\ n \in Nat /\ r \in 1..n
      /\ Index(t, Len(t), ls, n) /\ \A i \in 1..n : ls[i] \in Nat
      /\ offset \in Nat /\ offset <= Len(t) /\ cur_row_ \in Nat /\ cur_col_ \in Nat
      /\ offset = ls[r] + cur_col_ /\ ls[r] \in Nat /\ Len(ls) = n
  BY Where DEF start, line_count
<1>2. NL \in Alphabet
  BY DEF Alphabet
<1>3. /\ Holds(gap_, Alphabet)' /\ gap_'.cap > 0
      /\ u \in Seq(Alphabet) /\ Len(u) = Len(t) + 1
      /\ \A p \in 1..(Len(t) + 1) : u[p] =
           IF p < offset + 1 THEN t[p] ELSE IF p = offset + 1 THEN NL ELSE t[p - 1]
      /\ u = SubSeq(t, 1, offset) \o <<NL>> \o SubSeq(t, offset + 1, Len(t))
  BY <1>2, PutAtCursor DEF insert_newline
<1>4. /\ \A i \in 1..n : i <= r => ls[i] <= offset
      /\ \A i \in 1..n : i > r => ls[i] > offset
  <2>1. offset \in start(cur_row_)..(start(cur_row_) + line_len(cur_row_))
    <3>1. cur_col_ \in 0..line_len(cur_row_)
      BY Where DEF EditInv
    <3>2. start(cur_row_) \in Nat /\ offset = start(cur_row_) + cur_col_ /\ line_len(cur_row_) \in Nat
      BY Where
    <3> QED BY <1>1, <3>1, <3>2
  <2> QED BY <2>1, LinesAround
<1>5. cur_row_' = r /\ cur_col_' = 0 /\ ks = With(sh, r + 1, offset + 1)
  <2>1. cur_row_ + 2 = r + 1
    BY <1>1
  <2> QED BY <2>1 DEF insert_newline, InsertAt, With
<1>6. sh \in Seq(Nat) /\ Len(sh) = n /\ \A i \in 1..n : sh[i] = IF i > r THEN ls[i] + 1 ELSE ls[i]
  <2>1. r \in Nat /\ 1 \in Int /\ \A i \in 1..Len(ls) : i > r => ls[i] + 1 \in Nat
    BY <1>1
  <2> HIDE DEF r
  <2> QED BY <1>1, <2>1, Shifted
<1> HIDE DEF sh
<1>7. /\ ks \in Seq(Nat) /\ Len(ks) = n + 1
      /\ \A i \in 1..(n + 1) :
           ks[i] = IF i < r + 1 THEN sh[i] ELSE IF i = r + 1 THEN offset + 1 ELSE sh[i - 1]
  <2> DEFINE k == r + 1
             c == offset + 1
  <2>1. k \in 1..(Len(sh) + 1) /\ sh \in Seq(Nat) /\ c \in Nat
    BY <1>1, <1>6
  <2> HIDE DEF k, c
  <2>2. /\ With(sh, k, c) \in Seq(Nat) /\ Len(With(sh, k, c)) = Len(sh) + 1
        /\ \A i \in 1..(Len(sh) + 1) :
             With(sh, k, c)[i] = IF i < k THEN sh[i] ELSE IF i = k THEN c ELSE sh[i - 1]
    BY <2>1, WithNumber
  <2> QED BY <1>5, <1>6, <2>2 DEF k, c
<1>8. \A i \in 1..(n + 1) :
        ks[i] = IF i < r + 1 THEN ls[i] ELSE IF i = r + 1 THEN offset + 1 ELSE ls[i - 1] + 1
  <2> HIDE DEF ks, ls, n
  <2>1. \A i \in 1..(n + 1) : i < r + 1 => i \in 1..n /\ ~(i > r)
    BY <1>1
  <2>2. \A i \in 1..(n + 1) : i > r + 1 => i - 1 \in 1..n /\ i - 1 > r
    BY <1>1
  <2> TAKE i \in 1..(n + 1)
  <2>3. CASE i < r + 1
    BY <1>6, <1>7, <2>1, <2>3
  <2>4. CASE i = r + 1
    BY <1>7, <2>4
  <2>5. CASE i > r + 1
    <3>1. ks[i] = sh[i - 1]
      <4>1. ~(i < r + 1) /\ i # r + 1
        BY <1>1, <2>5
      <4> QED BY ONLY <1>7, <4>1, i \in 1..(n + 1)
    <3>2. sh[i - 1] = ls[i - 1] + 1
      BY <1>6, <2>2, <2>5
    <3> QED BY <1>1, <2>5, <3>1, <3>2
  <2> QED BY <1>1, <2>3, <2>4, <2>5
<1>9. Index(u, Len(u), ks, n + 1)
  <2>1. Broken(t, Len(t), ls, n, offset, r, u, ks)
    <3> HIDE DEF t, u, ls, ks, n, r
    <3> QED BY <1>1, <1>3, <1>4, <1>8 DEF Broken
  <2>2. Index(u, Len(t) + 1, ks, n + 1)
    BY <2>1, IndexBroken
  <2> QED BY <1>3, <2>2
<1>10. Lines(u, ks)
  BY <1>7, <1>9 DEF Lines
<1>11. cur_row_' \in 0..(Len(ks) - 1) /\ cur_col_' \in 0..Length(u, ks, cur_row_')
  <2>1. cur_row_' \in 0..(Len(ks) - 1)
    BY <1>1, <1>5, <1>7
  <2>2. Length(u, ks, cur_row_') \in Nat
    BY ONLY <1>3, <1>10, <2>1, LineOfText
  <2> QED BY <1>5, <2>1, <2>2
<1>12. EditInv'
  BY <1>3, <1>10, <1>11 DEF EditInv
<1>13. offset' = offset + 1
  <2>1. offset' = ks[r + 1] + 0
    BY <1>5 DEF offset, start
  <2>2. r + 1 \in 1..(n + 1) /\ ~(r + 1 < r + 1)
    BY <1>1
  <2> QED BY <1>1, <1>8, <2>1, <2>2
<1> QED BY <1>3, <1>12, <1>13 DEF EditText!Insert

\* The text and the memory after a range was erased.
LEMMA CutAtCursor ==
  ASSUME EditInv, NEW b \in Nat, NEW e \in Nat, b <= e, e <= Len(text_),
         text_' = Cut(text_, b, e)
  PROVE  /\ text_' \in Seq(Alphabet) /\ Len(text_') = Len(text_) - (e - b)
         /\ \A p \in 1..(Len(text_) - (e - b)) :
              text_'[p] = IF p <= b THEN text_[p] ELSE text_[p + (e - b)]
<1>1. text_ \in Seq(Alphabet)
  BY Where
<1>2. b \in Nat /\ e \in Nat /\ b <= e /\ e <= Len(text_)
  OBVIOUS
<1>3. /\ Cut(text_, b, e) \in Seq(Alphabet) /\ Len(Cut(text_, b, e)) = Len(text_) - (e - b)
      /\ \A p \in 1..(Len(text_) - (e - b)) :
           Cut(text_, b, e)[p] = IF p <= b THEN text_[p] ELSE text_[p + (e - b)]
  BY ONLY <1>1, <1>2, CutElements
<1>4. /\ text_' \in Seq(Alphabet) /\ Len(text_') = Len(text_) - (e - b)
      /\ \A p \in 1..(Len(text_) - (e - b)) :
           text_'[p] = IF p <= b THEN text_[p] ELSE text_[p + (e - b)]
  BY ONLY <1>3, text_' = Cut(text_, b, e)
<1> QED BY <1>4

LEMMA ErasesBefore ==
  ASSUME EditInv, offset > 0, gap_' = ErasePos(gap_, offset - 1)
  PROVE  /\ Holds(gap_, Alphabet)' /\ gap_'.cap > 0
         /\ text_' = Cut(text_, offset - 1, offset)
<1>1. /\ Holds(gap_, Alphabet) /\ gap_.cap > 0 /\ offset \in Nat /\ offset <= Len(text_)
      /\ Len(text_) = Size(gap_) /\ Len(text_) \in Nat
  BY Where DEF EditInv
<1> DEFINE p == offset - 1
<1>2. p \in Nat /\ p < Size(gap_) /\ p + 1 = offset
  BY <1>1
<1> HIDE DEF p
<1>3. /\ Holds(gap_', Alphabet) /\ gap_'.cap = gap_.cap
      /\ to_string(gap_') = Less(to_string(gap_), p + 1)
  BY <1>1, <1>2, EraseAtPos DEF p
<1>4. Less(text_, offset) = Cut(text_, p, offset)
  BY DEF Less, Cut, p
<1> QED BY <1>1, <1>2, <1>3, <1>4 DEF text_, p

LEMMA DeletesInLine ==
  ASSUME EditInv, delete_char_InLine
  PROVE  EditInv' /\ EditText!EraseBefore
<1> DEFINE t == text_
           ls == line_start_
           n == line_count
           r == cur_row_ + 1
           u == text_'
           ks == line_start_'
           b == offset - 1
<1>1. /\ t \in Seq(Alphabet) /\ Len(t) \in Nat /\ ls \in Seq(Nat) /\ n \in Nat /\ r \in 1..n
      /\ Index(t, Len(t), ls, n) /\ \A i \in 1..n : ls[i] \in Nat
      /\ offset \in Nat /\ offset <= Len(t) /\ cur_row_ \in Nat /\ cur_col_ \in Nat
      /\ offset = ls[r] + cur_col_ /\ ls[r] \in Nat /\ Len(ls) = n
  BY Where DEF start, line_count
<1>2. /\ cur_col_ > 0 /\ gap_' = ErasePos(gap_, b) /\ ks = shift_lines(ls, r, -1)
      /\ cur_col_' = cur_col_ - 1 /\ cur_row_' = cur_row_
  BY DEF delete_char_InLine
<1>3. offset > 0 /\ b \in Nat /\ b <= offset /\ offset - b = 1
  <2>1. offset = ls[r] + cur_col_ /\ ls[r] \in Nat /\ cur_col_ \in Nat /\ cur_col_ > 0
    BY <1>1, <1>2
  <2>2. offset \in Nat /\ offset > 0
    <3> HIDE DEF ls, r
    <3> QED BY ONLY <2>1
  <2> QED BY ONLY <2>2
<1>4. Holds(gap_, Alphabet)' /\ gap_'.cap > 0 /\ u = Cut(t, b, offset)
  BY <1>2, <1>3, ErasesBefore
<1>5. /\ u \in Seq(Alphabet) /\ Len(u) = Len(t) - (offset - b)
      /\ \A p \in 1..(Len(t) - (offset - b)) : u[p] = IF p <= b THEN t[p] ELSE t[p + (offset - b)]
  <2> HIDE DEF b
  <2> QED BY <1>1, <1>3, <1>4, CutAtCursor
<1>6. /\ \A i \in 1..n : i <= r => ls[i] <= b
      /\ \A i \in 1..n : i > r => ls[i] > offset
  <2>1. cur_col_ \in 0..line_len(cur_row_) /\ start(cur_row_) = ls[r] /\ line_len(cur_row_) \in Nat
    BY Where DEF EditInv, start
  <2>2. /\ offset \in start(cur_row_)..(start(cur_row_) + line_len(cur_row_))
        /\ b \in start(cur_row_)..(start(cur_row_) + line_len(cur_row_))
    <3>1. /\ offset = start(cur_row_) + cur_col_ /\ start(cur_row_) \in Nat /\ cur_col_ \in Nat
          /\ cur_col_ > 0 /\ cur_col_ <= line_len(cur_row_)
      BY <1>1, <1>2, <2>1
    <3> QED BY ONLY <2>1, <3>1
  <2> HIDE DEF b
  <2> QED BY <2>2, LinesAround
<1>7. ks \in Seq(Nat) /\ Len(ks) = n /\ \A i \in 1..n : ks[i] = IF i > r THEN ls[i] - 1 ELSE ls[i]
  <2> DEFINE d == -1
  <2>1. r \in Nat /\ d \in Int
    BY <1>1
  <2>2. \A i \in 1..Len(ls) : i > r => ls[i] + d \in Nat
    <3> TAKE i \in 1..Len(ls)
    <3> SUFFICES ASSUME i > r PROVE ls[i] + d \in Nat
      OBVIOUS
    <3>1. i \in 1..n
      BY <1>1
    <3>2. ls[i] \in Nat /\ ls[i] > offset
      BY <1>1, <1>6, <3>1
    <3> QED BY <1>1, <3>2
  <2> HIDE DEF r, d
  <2>3. /\ shift_lines(ls, r, d) \in Seq(Nat) /\ Len(shift_lines(ls, r, d)) = Len(ls)
        /\ \A i \in 1..Len(ls) : shift_lines(ls, r, d)[i] = IF i > r THEN ls[i] + d ELSE ls[i]
    BY <1>1, <2>1, <2>2, Shifted
  <2>4. \A i \in 1..n : ls[i] + d = ls[i] - 1
    BY <1>1 DEF d
  <2> QED BY <1>1, <1>2, <2>3, <2>4 DEF d
<1>8. Index(u, Len(u), ks, n)
  <2> DEFINE l == r + 1
  <2>1. Deleted(t, Len(t), ls, n, b, offset, r, l, u, ks)
    <3>1. l \in (r + 1)..(n + 1) /\ l - 1 - r = 0 /\ n - (l - 1 - r) = n
      BY <1>1
    <3>2. \A i \in 1..n : ~(i > r /\ i < l)
      BY <1>1
    <3>3. \A i \in 1..n : i >= l => ls[i] > offset
      BY <1>1, <1>6
    <3>4. \A i \in 1..n : ks[i] = IF i <= r THEN ls[i] ELSE ls[i + 0] - 1
      <4> TAKE i \in 1..n
      <4>1. i + 0 = i /\ (i <= r <=> ~(i > r))
        BY <1>1
      <4> QED BY <1>7, <4>1
    <3> HIDE DEF t, u, ls, ks, n, r, l, b
    <3>5. \A i \in 1..(n - (l - 1 - r)) :
            ks[i] = IF i <= r THEN ls[i] ELSE ls[i + (l - 1 - r)] - (offset - b)
      BY <1>3, <3>1, <3>4
    <3> QED BY <1>1, <1>3, <1>5, <1>6, <3>1, <3>2, <3>3, <3>5 DEF Deleted
  <2>2. Index(u, Len(t) - (offset - b), ks, n - (l - 1 - r))
    <3> HIDE DEF l, b
    <3> QED BY <2>1, IndexDeleted
  <2>3. n - (l - 1 - r) = n
    BY <1>1
  <2> QED BY <1>5, <2>2, <2>3
<1>9. Lines(u, ks)
  BY <1>7, <1>8 DEF Lines
<1>10. ks[r] = ls[r] /\ cur_row_' \in 0..(Len(ks) - 1)
  <2>1. r \in 1..n /\ ~(r > r) /\ cur_row_ \in 0..(n - 1)
    BY <1>1
  <2> QED BY <1>2, <1>7, <2>1
<1>11. Length(u, ks, cur_row_) = Length(t, ls, cur_row_) - 1
  <2>1. cur_row_ + 2 = r + 1
    BY <1>1
  <2>2. Length(t, ls, cur_row_) = (IF r < n THEN ls[r + 1] - 1 ELSE Len(t)) - ls[r]
    BY <1>1, <2>1 DEF Length
  <2>3. Length(u, ks, cur_row_) = (IF r < n THEN ks[r + 1] - 1 ELSE Len(u)) - ks[r]
    BY <1>7, <2>1 DEF Length
  <2>4. r < n => r + 1 \in 1..n /\ r + 1 > r
    BY <1>1
  <2>5. r < n => ks[r + 1] = ls[r + 1] - 1 /\ ls[r + 1] \in Nat
    BY <1>1, <1>7, <2>4
  <2>6. Len(t) \in Nat /\ ls[r] \in Nat /\ Len(u) = Len(t) - 1 /\ ks[r] = ls[r]
    BY <1>1, <1>3, <1>5, <1>10
  <2> HIDE DEF r, n, t, u, ls, ks
  <2> QED BY ONLY <2>2, <2>3, <2>5, <2>6
<1>12. cur_col_' \in 0..Length(u, ks, cur_row_')
  <2>1. cur_col_ \in 0..Length(t, ls, cur_row_) /\ Length(t, ls, cur_row_) \in Nat
    BY Where DEF EditInv
  <2> QED BY <1>1, <1>2, <1>11, <2>1
<1>13. EditInv'
  BY <1>4, <1>9, <1>10, <1>12 DEF EditInv
<1>14. offset' = b
  <2>1. offset' = ks[r] + (cur_col_ - 1)
    BY <1>2 DEF offset, start
  <2> QED BY <1>1, <1>10, <2>1
<1> QED BY <1>3, <1>4, <1>13, <1>14 DEF EditText!EraseBefore, EditText!Without, Cut

LEMMA JoinsLines ==
  ASSUME EditInv, delete_char_Joins
  PROVE  EditInv' /\ EditText!EraseBefore
<1> DEFINE t == text_
           ls == line_start_
           n == line_count
           j == cur_row_
           r == cur_row_ + 1
           u == text_'
           ks == line_start_'
           b == offset - 1
           rest == RemoveAt(ls, r)
<1>1. /\ t \in Seq(Alphabet) /\ Len(t) \in Nat /\ ls \in Seq(Nat) /\ n \in Nat /\ r \in 1..n
      /\ Index(t, Len(t), ls, n) /\ \A i \in 1..n : ls[i] \in Nat
      /\ offset \in Nat /\ offset <= Len(t) /\ cur_row_ \in Nat /\ cur_col_ \in Nat
      /\ offset = ls[r] + cur_col_ /\ ls[r] \in Nat /\ Len(ls) = n
  BY Where DEF start, line_count
<1>2. /\ cur_col_ = 0 /\ cur_row_ > 0 /\ gap_' = ErasePos(gap_, b)
      /\ ks = shift_lines(rest, j, -1)
      /\ cur_row_' = cur_row_ - 1 /\ cur_col_' = line_len(cur_row_ - 1)
  BY DEF delete_char_Joins
<1>3. offset = ls[r] /\ \A i \in 1..n : i < r => ls[i] < ls[r]
  BY <1>1, <1>2 DEF Index
<1>4. \A i \in 1..n : i > r => ls[i] > offset
  BY <1>1, <1>3 DEF Index
<1>5. j \in 1..n /\ j < r /\ ls[j] \in Nat /\ ls[j] < offset
  BY <1>1, <1>2, <1>3
<1>6. offset > 0 /\ b \in Nat /\ b <= offset /\ offset - b = 1
  <2>1. offset \in Nat /\ ls[j] \in Nat /\ ls[j] < offset
    BY <1>1, <1>5
  <2>2. offset \in Nat /\ offset > 0
    <3> HIDE DEF ls, j
    <3> QED BY ONLY <2>1
  <2> QED BY ONLY <2>2
<1>7. Holds(gap_, Alphabet)' /\ gap_'.cap > 0 /\ u = Cut(t, b, offset)
  BY <1>2, <1>6, ErasesBefore
<1>8. /\ u \in Seq(Alphabet) /\ Len(u) = Len(t) - (offset - b)
      /\ \A p \in 1..(Len(t) - (offset - b)) : u[p] = IF p <= b THEN t[p] ELSE t[p + (offset - b)]
  <2> HIDE DEF b
  <2> QED BY <1>1, <1>6, <1>7, CutAtCursor
<1>9. /\ rest \in Seq(Nat) /\ Len(rest) = n - 1
      /\ \A i \in 1..(n - 1) : rest[i] = IF i < r THEN ls[i] ELSE ls[i + 1]
  <2>1. rest = Less(ls, r)
    BY DEF RemoveAt, Less
  <2> HIDE DEF rest, r
  <2> QED BY <1>1, <2>1, LessNumber
<1> HIDE DEF rest
<1>10. ks \in Seq(Nat) /\ Len(ks) = n - 1
       /\ \A i \in 1..(n - 1) : ks[i] = IF i <= j THEN ls[i] ELSE ls[i + 1] - 1
  <2> DEFINE d == -1
  <2>1. j \in Nat /\ d \in Int
    BY <1>1
  <2>2. \A i \in 1..(n - 1) : i > j => /\ rest[i] = ls[i + 1] /\ i + 1 \in 1..n /\ i + 1 > r
                                      /\ ls[i + 1] \in Nat /\ ls[i + 1] > offset
    BY <1>1, <1>4, <1>9
  <2>3. \A i \in 1..Len(rest) : i > j => rest[i] + d \in Nat
    <3> TAKE i \in 1..Len(rest)
    <3> SUFFICES ASSUME i > j PROVE rest[i] + d \in Nat
      OBVIOUS
    <3>1. rest[i] = ls[i + 1] /\ ls[i + 1] \in Nat /\ ls[i + 1] > offset
      BY <1>9, <2>2
    <3>2. offset \in Nat
      BY <1>1
    <3> HIDE DEF ls, j
    <3> QED BY ONLY <3>1, <3>2
  <2> HIDE DEF j, d
  <2>4. /\ shift_lines(rest, j, d) \in Seq(Nat) /\ Len(shift_lines(rest, j, d)) = Len(rest)
        /\ \A i \in 1..Len(rest) : shift_lines(rest, j, d)[i] = IF i > j THEN rest[i] + d ELSE rest[i]
    BY <1>9, <2>1, <2>3, Shifted
  <2>5. ks = shift_lines(rest, j, d)
    BY <1>2 DEF d
  <2>6. \A i \in 1..(n - 1) : ks[i] = IF i <= j THEN ls[i] ELSE ls[i + 1] - 1
    <3> TAKE i \in 1..(n - 1)
    <3>1. CASE i <= j
      <4>1. ~(i > j) /\ i < r
        BY <1>1, <3>1 DEF j
      <4> QED BY <1>9, <2>4, <2>5, <3>1, <4>1
    <3>2. CASE ~(i <= j)
      <4>1. i > j
        BY <1>1, <3>2 DEF j
      <4>2. ks[i] = rest[i] + d
        BY <1>9, <2>4, <2>5, <4>1
      <4>3. rest[i] = ls[i + 1] /\ ls[i + 1] \in Nat
        BY <2>2, <4>1
      <4> QED BY <3>2, <4>2, <4>3 DEF d
    <3> QED BY <3>1, <3>2
  <2> QED BY <1>9, <2>4, <2>5, <2>6
<1>11. Index(u, Len(u), ks, n - 1)
  <2> DEFINE l == r + 1
  <2>1. Deleted(t, Len(t), ls, n, b, offset, j, l, u, ks)
    <3>1. l \in (j + 1)..(n + 1) /\ l - 1 - j = 1 /\ n - (l - 1 - j) = n - 1
      BY <1>1
    <3>2. \A i \in 1..n : i > j /\ i < l => i = r
      BY <1>1
    <3>3. \A i \in 1..n : i > j /\ i < l => ls[i] > b /\ ls[i] <= offset
      BY <1>1, <1>3, <3>2
    <3>4. \A i \in 1..n : i >= l => ls[i] > offset
      BY <1>1, <1>4
    <3>5. \A i \in 1..n : i <= j => ls[i] <= b
      BY <1>1, <1>3
    <3> HIDE DEF t, u, ls, ks, n, r, l, b, j
    <3>6. \A i \in 1..(n - (l - 1 - j)) :
            ks[i] = IF i <= j THEN ls[i] ELSE ls[i + (l - 1 - j)] - (offset - b)
      BY <1>6, <1>10, <3>1
    <3> QED BY <1>1, <1>5, <1>6, <1>8, <3>1, <3>3, <3>4, <3>5, <3>6 DEF Deleted
  <2>2. Index(u, Len(t) - (offset - b), ks, n - (l - 1 - j))
    <3> HIDE DEF l, b, j
    <3> QED BY <2>1, IndexDeleted
  <2>3. n - (l - 1 - j) = n - 1
    BY <1>1
  <2> QED BY <1>8, <2>2, <2>3
<1>12. Lines(u, ks)
  BY <1>10, <1>11 DEF Lines
<1>13. cur_row_' \in 0..(Len(ks) - 1) /\ ks[j] = ls[j]
  <2>1. j \in 1..(n - 1) /\ j <= j
    BY <1>1, <1>5
  <2> QED BY <1>1, <1>2, <1>10, <2>1
<1>14. cur_col_' = (ls[r] - 1) - ls[j]
  <2>1. (cur_row_ - 1) + 1 = cur_row_ /\ cur_row_ < n
    BY <1>1
  <2> QED BY <1>2, <2>1 DEF line_len, start
<1>15. cur_col_' \in 0..Length(u, ks, cur_row_')
  <2>1. (cur_row_ - 1) + 1 = j /\ (cur_row_ - 1) + 2 = r
    BY <1>1
  <2>2. Length(u, ks, cur_row_') = (IF j < n - 1 THEN ks[r] - 1 ELSE Len(u)) - ks[j]
    BY <1>2, <1>10, <2>1 DEF Length
  <2>3. j < n - 1 => /\ ks[r] = ls[r + 1] - 1 /\ ls[r + 1] \in Nat /\ ls[r + 1] > ls[r]
    <3> SUFFICES ASSUME j < n - 1
                 PROVE  ks[r] = ls[r + 1] - 1 /\ ls[r + 1] \in Nat /\ ls[r + 1] > ls[r]
      OBVIOUS
    <3>1. r \in 1..(n - 1) /\ ~(r <= j) /\ r + 1 \in 1..n /\ r + 1 > r
      BY <1>1
    <3> QED BY <1>1, <1>3, <1>4, <1>10, <3>1
  <2>4. Len(u) = Len(t) - 1 /\ ls[r] <= Len(t) /\ ls[r] \in Nat /\ ls[j] \in Nat /\ ls[j] < ls[r]
        /\ Len(t) \in Nat
    BY <1>1, <1>3, <1>5, <1>6, <1>8
  <2> HIDE DEF r, n, t, u, ls, ks, j
  <2> QED BY ONLY <1>13, <1>14, <2>2, <2>3, <2>4
<1>16. EditInv'
  BY <1>7, <1>12, <1>13, <1>15 DEF EditInv
<1>17. offset' = b
  <2>1. offset' = ks[(cur_row_ - 1) + 1] + cur_col_'
    BY <1>2 DEF offset, start
  <2>2. (cur_row_ - 1) + 1 = j
    BY <1>1
  <2>3. /\ offset' = ks[j] + cur_col_' /\ cur_col_' = (ls[r] - 1) - ls[j] /\ ks[j] = ls[j]
        /\ ls[r] \in Nat /\ ls[j] \in Nat /\ offset = ls[r]
    BY <1>1, <1>3, <1>5, <1>13, <1>14, <2>1, <2>2
  <2> HIDE DEF ls, ks, j, r
  <2> QED BY ONLY <2>3
<1> QED BY <1>6, <1>7, <1>16, <1>17 DEF EditText!EraseBefore, EditText!Without, Cut

LEMMA RangeErased ==
  ASSUME EditInv, NEW b \in Nat, NEW e \in Nat, b <= e, e <= Len(text_),
         gap_' = EraseDown(gap_, b, e)
  PROVE  /\ Holds(gap_, Alphabet)' /\ gap_'.cap > 0
         /\ text_' = Cut(text_, b, e)
         /\ text_' \in Seq(Alphabet) /\ Len(text_') = Len(text_) - (e - b)
         /\ \A p \in 1..(Len(text_) - (e - b)) :
              text_'[p] = IF p <= b THEN text_[p] ELSE text_[p + (e - b)]
<1>1. Holds(gap_, Alphabet) /\ gap_.cap > 0 /\ b \in Nat /\ e \in Nat /\ b <= e /\ e <= Size(gap_)
  BY Where DEF EditInv
<1>2. /\ Holds(EraseDown(gap_, b, e), Alphabet) /\ EraseDown(gap_, b, e).cap = gap_.cap
      /\ to_string(EraseDown(gap_, b, e)) = Cut(to_string(gap_), b, e)
  BY ONLY <1>1, EraseRange
<1>3. Holds(gap_, Alphabet)' /\ gap_'.cap > 0 /\ text_' = Cut(text_, b, e)
  BY <1>1, <1>2 DEF text_
<1> QED BY <1>3, CutAtCursor

\* The new state of the editor, once its text and its index fit together.
LEMMA AtLineStart ==
  ASSUME Holds(gap_, Alphabet)', gap_'.cap > 0, text_' \in Seq(Alphabet),
         Lines(text_', line_start_'), cur_row_' \in 0..(Len(line_start_') - 1), cur_col_' = 0
  PROVE  /\ EditInv'
         /\ offset' = line_start_'[cur_row_' + 1]
         /\ offset' \in 0..Len(text_') /\ EditText!Begins(text_', offset')
         /\ \A p \in (offset' + 1)..(offset' + Length(text_', line_start_', cur_row_')) :
              text_'[p] # NL
<1> DEFINE u == text_'
           ks == line_start_'
           row == cur_row_'
<1>1. /\ u \in Seq(Alphabet) /\ Lines(u, ks) /\ row \in 0..(Len(ks) - 1)
  OBVIOUS
<1>2. /\ ks[row + 1] \in 0..Len(u) /\ Length(u, ks, row) \in Nat /\ Len(u) \in Nat
      /\ row # 0 => ks[row + 1] \in 1..Len(u) /\ u[ks[row + 1]] = NL
      /\ row = 0 => ks[row + 1] = 0
      /\ \A p \in (ks[row + 1] + 1)..(ks[row + 1] + Length(u, ks, row)) : u[p] # NL
  <2> HIDE DEF u, ks, row
  <2> QED BY ONLY <1>1, LineOfText
<1>3. offset' = ks[row + 1]
  BY <1>2 DEF offset, start
<1>4. EditText!Begins(u, offset')
  BY <1>2, <1>3 DEF EditText!Begins
<1>5. EditInv'
  BY <1>2 DEF EditInv
<1> QED BY <1>2, <1>3, <1>4, <1>5

\* The line under the cursor as the text shows it.
LEMMA LineAtCursor ==
  ASSUME EditInv
  PROVE  LET b == start(cur_row_)
             e == b + line_len(cur_row_)
         IN  /\ b \in 0..offset /\ e \in offset..Len(text_) /\ e \in Nat
             /\ EditText!Begins(text_, b)
             /\ cur_row_ # 0 => b > 0
             /\ cur_row_ = 0 => b = 0
             /\ \A p \in (b + 1)..e : text_[p] # NL
<1> DEFINE t == text_
           ls == line_start_
           row == cur_row_
<1>1. /\ t \in Seq(Alphabet) /\ Lines(t, ls) /\ row \in 0..(Len(ls) - 1)
      /\ cur_col_ \in 0..Length(t, ls, row)
  BY Where DEF EditInv
<1>2. /\ ls[row + 1] \in 0..Len(t) /\ Length(t, ls, row) \in Nat /\ Len(t) \in Nat
      /\ ls[row + 1] + Length(t, ls, row) <= Len(t)
      /\ row # 0 => ls[row + 1] \in 1..Len(t) /\ t[ls[row + 1]] = NL
      /\ row = 0 => ls[row + 1] = 0
      /\ \A p \in (ls[row + 1] + 1)..(ls[row + 1] + Length(t, ls, row)) : t[p] # NL
  <2> HIDE DEF t, ls, row
  <2> QED BY ONLY <1>1, LineOfText
<1>3. /\ start(row) = ls[row + 1] /\ line_len(row) = Length(t, ls, row)
      /\ offset = start(row) + cur_col_
  BY Where DEF start
<1>4. EditText!Begins(t, start(row))
  BY <1>2, <1>3 DEF EditText!Begins
<1> DEFINE b == start(row)
           e == b + line_len(row)
<1>5. /\ b \in Nat /\ line_len(row) \in Nat /\ e <= Len(t) /\ offset = b + cur_col_
      /\ cur_col_ \in 0..line_len(row)
      /\ row # 0 => b > 0
      /\ row = 0 => b = 0
  BY <1>1, <1>2, <1>3
<1>6. \A p \in (b + 1)..e : t[p] # NL
  BY <1>2, <1>3
<1>7. b \in 0..offset /\ e \in offset..Len(t) /\ e \in Nat
  <2>1. Len(t) \in Nat
    BY <1>2
  <2> HIDE DEF b, t
  <2> QED BY <1>5, <2>1
<1> QED BY <1>4, <1>5, <1>6, <1>7

\* delete_line: all lines but the last.
LEMMA DeletesInnerLine ==
  ASSUME EditInv, delete_line, cur_row_ + 1 < line_count
  PROVE  EditInv' /\ EditText!EraseLine
<1> DEFINE t == text_
           ls == line_start_
           n == line_count
           r == cur_row_ + 1
           u == text_'
           ks == line_start_'
           b == ls[r]
           e == ls[r + 1]
           d == e - b
           rest == RemoveAt(ls, r)
<1>1. /\ t \in Seq(Alphabet) /\ Len(t) \in Nat /\ ls \in Seq(Nat) /\ n \in Nat /\ r \in 1..n
      /\ Index(t, Len(t), ls, n) /\ \A i \in 1..n : ls[i] \in Nat
      /\ cur_row_ \in Nat /\ Len(ls) = n /\ r < n
  BY Where DEF line_count
<1>2. /\ r \in 1..n /\ r + 1 \in 2..n /\ r + 1 \in 1..n /\ (cur_row_ + 1) + 1 = r + 1
      /\ r - 1 = cur_row_
  BY <1>1
<1>3. b \in Nat /\ e \in 1..Len(t) /\ t[e] = NL /\ b < e /\ e \in Nat
  BY <1>1, <1>2 DEF Index
<1>4. d \in Nat /\ d > 0 /\ e - d = b
  <2> HIDE DEF b, e
  <2> QED BY <1>3
<1>5. /\ gap_' = EraseDown(gap_, b, e) /\ ks = shift_lines(rest, cur_row_, -d)
      /\ cur_row_' = Least(cur_row_, Len(ks) - 1) /\ cur_col_' = 0
  <2>1. ~(cur_row_ + 1 >= line_count)
    BY <1>1
  <2> QED BY <2>1, <1>2 DEF delete_line, start
<1>6. /\ Holds(gap_, Alphabet)' /\ gap_'.cap > 0 /\ u = Cut(t, b, e)
      /\ u \in Seq(Alphabet) /\ Len(u) = Len(t) - d
      /\ \A p \in 1..(Len(t) - d) : u[p] = IF p <= b THEN t[p] ELSE t[p + d]
  <2> HIDE DEF b, e
  <2>1. b \in Nat /\ e \in Nat /\ b <= e /\ e <= Len(text_)
    BY <1>1, <1>3
  <2> QED BY <1>5, <2>1, RangeErased
<1>7. /\ rest \in Seq(Nat) /\ Len(rest) = n - 1
      /\ \A i \in 1..(n - 1) : rest[i] = IF i < r THEN ls[i] ELSE ls[i + 1]
  <2>1. rest = Less(ls, r)
    BY DEF RemoveAt, Less
  <2> HIDE DEF rest, r
  <2> QED BY <1>1, <2>1, LessNumber
<1> HIDE DEF rest
<1>8. \A i \in 1..n : i > r => ls[i] >= e
  <2> TAKE i \in 1..n
  <2> SUFFICES ASSUME i > r PROVE ls[i] >= e
    OBVIOUS
  <2>1. i = r + 1 \/ r + 1 < i
    BY <1>1
  <2>2. r + 1 < i => ls[r + 1] < ls[i]
    BY <1>1, <1>2 DEF Index
  <2>3. ls[i] \in Nat
    BY <1>1
  <2> QED BY <1>3, <2>1, <2>2, <2>3
<1>9. ks \in Seq(Nat) /\ Len(ks) = n - 1
      /\ \A i \in 1..(n - 1) : ks[i] = IF i <= r THEN ls[i] ELSE ls[i + 1] - d
  <2> DEFINE c == -d
             j == cur_row_
  <2>1. j \in Nat /\ c \in Int
    BY <1>1, <1>4
  <2>2. \A i \in 1..(n - 1) : i > j => /\ rest[i] = ls[i + 1] /\ i + 1 \in 1..n /\ i + 1 > r
                                      /\ ls[i + 1] \in Nat /\ ls[i + 1] >= e
    BY <1>1, <1>7, <1>8
  <2>3. \A i \in 1..Len(rest) : i > j => rest[i] + c \in Nat
    <3> TAKE i \in 1..Len(rest)
    <3> SUFFICES ASSUME i > j PROVE rest[i] + c \in Nat
      OBVIOUS
    <3>1. rest[i] = ls[i + 1] /\ ls[i + 1] \in Nat /\ ls[i + 1] >= e
      BY <1>7, <2>2
    <3>2. rest[i] \in Nat /\ rest[i] >= e /\ e \in Nat /\ b \in Nat /\ c = -(e - b)
      BY <1>3, <3>1
    <3> HIDE DEF b, e, c
    <3> QED BY ONLY <3>2
  <2> HIDE DEF j, c
  <2>4. /\ shift_lines(rest, j, c) \in Seq(Nat) /\ Len(shift_lines(rest, j, c)) = Len(rest)
        /\ \A i \in 1..Len(rest) : shift_lines(rest, j, c)[i] = IF i > j THEN rest[i] + c ELSE rest[i]
    BY <1>7, <2>1, <2>3, Shifted
  <2>5. ks = shift_lines(rest, j, c)
    BY <1>5 DEF c, j
  <2>6. \A i \in 1..(n - 1) : ks[i] = IF i <= r THEN ls[i] ELSE ls[i + 1] - d
    <3> TAKE i \in 1..(n - 1)
    <3>1. CASE i < r
      <4>1. ~(i > j) /\ i <= r
        BY <1>1, <3>1 DEF j
      <4> QED BY <1>7, <2>4, <2>5, <3>1, <4>1
    <3>2. CASE ~(i < r)
      <4>1. i > j
        BY <1>1, <3>2 DEF j
      <4>2. ks[i] = rest[i] + c
        BY <1>7, <2>4, <2>5, <4>1
      <4>3. rest[i] = ls[i + 1] /\ ls[i + 1] \in Nat
        BY <2>2, <4>1
      <4>4. ks[i] = ls[i + 1] - d
        <5>1. ks[i] = ls[i + 1] + (-d) /\ ls[i + 1] \in Nat /\ d \in Nat
          BY <1>4, <4>2, <4>3 DEF c
        <5> HIDE DEF ks, ls, d
        <5> QED BY ONLY <5>1
      <4>5. i <= r => i = r
        BY <1>1, <3>2
      <4> QED BY <1>4, <4>4, <4>5
    <3> QED BY <3>1, <3>2
  <2> QED BY <1>7, <2>4, <2>5, <2>6
<1>10. Index(u, Len(u), ks, n - 1)
  <2> DEFINE l == r + 2
  <2>1. Deleted(t, Len(t), ls, n, b, e, r, l, u, ks)
    <3>1. l \in (r + 1)..(n + 1) /\ l - 1 - r = 1 /\ n - (l - 1 - r) = n - 1
      BY <1>1
    <3>2. \A i \in 1..n : i > r /\ i < l => i = r + 1
      BY <1>1
    <3>3. \A i \in 1..n : i > r /\ i < l => ls[i] > b /\ ls[i] <= e
      BY <1>3, <3>2
    <3>4. \A i \in 1..n : i >= l => r + 1 < i
      BY <1>1
    <3>5. \A i \in 1..n : i >= l => ls[i] > e
      BY <1>1, <1>2, <1>3, <3>4 DEF Index
    <3>6. \A i \in 1..n : i <= r => ls[i] <= b
      <4> TAKE i \in 1..n
      <4>1. i < r \/ i = r \/ i > r
        BY <1>1
      <4>2. i < r => ls[i] < b
        BY <1>1, <1>2 DEF Index
      <4> QED BY <1>1, <1>3, <4>1, <4>2
    <3> HIDE DEF t, u, ls, ks, n, r, l, b, e
    <3>7. \A i \in 1..(n - (l - 1 - r)) :
            ks[i] = IF i <= r THEN ls[i] ELSE ls[i + (l - 1 - r)] - (e - b)
      BY <1>9, <3>1
    <3>8. e <= Len(t) /\ b <= e
      BY <1>1, <1>3
    <3> QED BY <1>1, <1>3, <1>6, <3>1, <3>3, <3>5, <3>6, <3>7, <3>8 DEF Deleted
  <2>2. Index(u, Len(t) - (e - b), ks, n - (l - 1 - r))
    <3> HIDE DEF l, b, e, r
    <3> QED BY <2>1, IndexDeleted
  <2>3. n - (l - 1 - r) = n - 1
    BY <1>1
  <2> QED BY <1>6, <2>2, <2>3
<1>11. Lines(u, ks)
  BY <1>9, <1>10 DEF Lines
<1>12. cur_row_' = cur_row_ /\ cur_row_' \in 0..(Len(ks) - 1)
  <2>1. Len(ks) - 1 = n - 2
    BY <1>1, <1>9
  <2>2. cur_row_ \in Nat /\ n \in Nat /\ cur_row_ + 1 < n
    BY <1>1
  <2>3. cur_row_' = IF cur_row_ < n - 2 THEN cur_row_ ELSE n - 2
    BY <1>5, <2>1 DEF Least
  <2> HIDE DEF ks, n
  <2>4. cur_row_' = cur_row_ /\ cur_row_ \in 0..(n - 2)
    BY ONLY <2>2, <2>3
  <2> QED BY <2>1, <2>4
<1>13. /\ EditInv' /\ offset' = ks[r] /\ offset' \in 0..Len(u) /\ EditText!Begins(u, offset')
  BY <1>5, <1>6, <1>11, <1>12, AtLineStart
<1>14. offset' = b
  <2>1. r \in 1..(n - 1) /\ r <= r
    BY <1>1
  <2> QED BY <1>9, <1>13, <2>1
<1> DEFINE end == e - 1
<1>15. start(cur_row_) = b /\ start(cur_row_) + line_len(cur_row_) = end
  <2>1. start(cur_row_) = b /\ line_len(cur_row_) = (e - 1) - b
    BY <1>1, <1>2 DEF line_len, start
  <2> HIDE DEF b, e
  <2> QED BY <1>3, <2>1
<1>16. /\ b \in 0..offset /\ end \in offset..Len(t)
       /\ EditText!Begins(t, b) /\ \A p \in (b + 1)..end : t[p] # NL
  BY <1>15, LineAtCursor
<1>17. end < Len(t) /\ end + 1 = e /\ end # Len(t)
  <2> HIDE DEF b, e, t
  <2> QED BY <1>1, <1>3
<1>18. EditText!Ends(t, end)
  BY <1>3, <1>17 DEF EditText!Ends
<1>19. u = EditText!Without(b, end + 1)
  BY <1>6, <1>17 DEF EditText!Without, Cut
<1> HIDE DEF b, end, t, u
<1> QED BY <1>13, <1>14, <1>16, <1>17, <1>18, <1>19 DEF EditText!EraseLine, t, u

\* delete_line: the last line goes with the NL before it.
LEMMA DeletesLastLine ==
  ASSUME EditInv, delete_line, cur_row_ + 1 >= line_count
  PROVE  EditInv' /\ EditText!EraseLine
<1> DEFINE t == text_
           ls == line_start_
           n == line_count
           u == text_'
           ks == line_start_'
           m == Len(t)
           b == ls[n]
           lo == IF cur_row_ > 0 THEN b - 1 ELSE b
           rest == RemoveAt(ls, n)
           k == Len(ks)
<1>1. /\ t \in Seq(Alphabet) /\ m \in Nat /\ ls \in Seq(Nat) /\ n \in Nat /\ n > 0
      /\ Index(t, m, ls, n) /\ \A i \in 1..n : ls[i] \in Nat
      /\ cur_row_ \in Nat /\ Len(ls) = n /\ m = Size(gap_)
      /\ cur_row_ + 1 = n
  <2>1. cur_row_ < line_count /\ cur_row_ \in Nat /\ line_count \in Nat
    BY Where
  <2>2. cur_row_ + 1 = line_count
    BY <2>1
  <2> QED BY <2>2, Where DEF line_count
<1>2. /\ b = start(cur_row_) /\ b + line_len(cur_row_) = m
  <2>1. b = start(cur_row_) /\ line_len(cur_row_) = m - b /\ b \in Nat
    BY <1>1 DEF line_len, start
  <2> HIDE DEF b, m
  <2> QED BY <1>1, <2>1
<1>3. /\ b \in 0..offset /\ m \in offset..m /\ b \in Nat /\ b <= m
      /\ EditText!Begins(t, b) /\ \A p \in (b + 1)..m : t[p] # NL
      /\ cur_row_ # 0 => b > 0
      /\ cur_row_ = 0 => b = 0
  <2>1. offset \in Nat /\ offset <= m
    BY Where
  <2> QED BY <1>1, <1>2, <2>1, LineAtCursor
<1>4. /\ lo \in Nat /\ lo <= m /\ lo = (IF b = 0 THEN 0 ELSE b - 1)
      /\ cur_row_ > 0 => lo = b - 1 /\ b > 0
      /\ cur_row_ = 0 => lo = 0
  <2> HIDE DEF b, m
  <2> QED BY <1>1, <1>3
<1>5. /\ gap_' = EraseDown(gap_, lo, m) /\ ks = IF rest = <<>> THEN <<0>> ELSE rest
      /\ cur_row_' = Least(cur_row_, k - 1) /\ cur_col_' = 0
  BY <1>1, <1>2 DEF delete_line
<1>6. /\ Holds(gap_, Alphabet)' /\ gap_'.cap > 0 /\ u = Cut(t, lo, m)
      /\ u \in Seq(Alphabet) /\ Len(u) = m - (m - lo)
      /\ \A p \in 1..(m - (m - lo)) : u[p] = IF p <= lo THEN t[p] ELSE t[p + (m - lo)]
  <2>1. lo \in Nat /\ m \in Nat /\ lo <= m /\ m <= Len(text_) /\ gap_' = EraseDown(gap_, lo, m)
    BY <1>1, <1>4, <1>5
  <2> HIDE DEF lo, m
  <2>2. /\ Holds(gap_, Alphabet)' /\ gap_'.cap > 0 /\ text_' = Cut(text_, lo, m)
        /\ text_' \in Seq(Alphabet) /\ Len(text_') = Len(text_) - (m - lo)
        /\ \A p \in 1..(Len(text_) - (m - lo)) :
             text_'[p] = IF p <= lo THEN text_[p] ELSE text_[p + (m - lo)]
    BY <2>1, RangeErased
  <2> QED BY <2>2 DEF m
<1>7. /\ rest \in Seq(Nat) /\ Len(rest) = n - 1
      /\ \A i \in 1..(n - 1) : rest[i] = ls[i]
  <2>1. rest = Less(ls, n) /\ n \in 1..n
    BY <1>1 DEF RemoveAt, Less
  <2>2. /\ rest \in Seq(Nat) /\ Len(rest) = n - 1
        /\ \A i \in 1..(n - 1) : rest[i] = IF i < n THEN ls[i] ELSE ls[i + 1]
    <3> HIDE DEF rest, n
    <3> QED BY <1>1, <2>1, LessNumber
  <2> QED BY <1>1, <2>2
<1> HIDE DEF rest
<1>8. /\ Lines(u, ks) /\ k \in Nat /\ k > 0 /\ cur_row_' = k - 1
  <2>1. CASE cur_row_ > 0
    <3> DEFINE l == n + 1
               j == n - 1
    <3>1. ks = rest /\ k = n - 1 /\ n - 1 > 0
      <4>1. Len(rest) # 0
        BY <1>1, <1>7, <2>1
      <4>2. rest # <<>>
        BY <4>1
      <4> QED BY <1>1, <1>5, <1>7, <2>1, <4>2
    <3>2. /\ j \in 1..n /\ l \in (j + 1)..(n + 1) /\ l - 1 - j = 1 /\ n - (l - 1 - j) = n - 1
          /\ n \in 1..n
      BY <1>1, <3>1
    <3>3. \A i \in 1..n : i <= j => ls[i] <= lo
      <4> TAKE i \in 1..n
      <4> SUFFICES ASSUME i <= j PROVE ls[i] <= lo
        OBVIOUS
      <4>1. i < n
        BY <1>1
      <4>2. ls[i] < b /\ ls[i] \in Nat
        BY <1>1, <3>2, <4>1 DEF Index
      <4> QED BY <1>3, <1>4, <2>1, <4>2
    <3>4. \A i \in 1..n : i > j /\ i < l => i = n
      BY <1>1
    <3>5. \A i \in 1..n : i > j /\ i < l => ls[i] > lo /\ ls[i] <= m
      BY <1>3, <1>4, <2>1, <3>4
    <3>6. \A i \in 1..n : ~(i >= l)
      BY <1>1
    <3>7. \A i \in 1..(n - 1) : ks[i] = IF i <= j THEN ls[i] ELSE ls[i + 1] - (m - lo)
      BY <1>1, <1>7, <3>1
    <3>8. Deleted(t, m, ls, n, lo, m, j, l, u, ks)
      <4> HIDE DEF t, m, ls, n, lo, j, l, u, ks
      <4>1. m \in Nat /\ n \in Nat /\ Index(t, m, ls, n) /\ lo \in Nat /\ lo <= m /\ m <= m
        BY <1>1, <1>4
      <4>2. \A i \in 1..(n - (l - 1 - j)) :
              ks[i] = IF i <= j THEN ls[i] ELSE ls[i + (l - 1 - j)] - (m - lo)
        BY <3>2, <3>7
      <4>3. \A i \in 1..n : i >= l => ls[i] > m
        BY <3>6
      <4> QED BY <1>6, <3>2, <3>3, <3>5, <4>1, <4>2, <4>3 DEF Deleted
    <3>9. Index(u, m - (m - lo), ks, n - 1)
      <4> HIDE DEF t, m, ls, n, lo, j, l, u, ks
      <4> QED BY <3>2, <3>8, IndexDeleted
    <3>10. Lines(u, ks)
      BY <1>6, <1>7, <3>1, <3>9 DEF Lines
    <3>11. cur_row_' = k - 1
      <4>1. k - 1 < cur_row_ /\ ~(cur_row_ < k - 1)
        BY <1>1, <3>1
      <4> QED BY <1>5, <4>1 DEF Least
    <3> QED BY <1>1, <3>1, <3>10, <3>11
  <2>2. CASE cur_row_ = 0
    <3> DEFINE l == n + 1
    <3>1. n = 1 /\ Len(rest) = 0
      BY <1>1, <1>7, <2>2
    <3>2. rest = <<>>
      BY ONLY <1>7, <3>1, EmptySeq
    <3>3. ks = <<0>> /\ k = 1 /\ ks \in Seq(Nat) /\ ks[1] = 0
      BY <1>5, <3>2
    <3>4. /\ 1 \in 1..n /\ l \in (1 + 1)..(n + 1) /\ l - 1 - 1 = 0 /\ n - (l - 1 - 1) = n
      BY <3>1
    <3>5. \A i \in 1..n : i = 1 /\ ls[i] = 0 /\ ls[i] <= lo /\ ks[i] = ls[i]
      BY <1>1, <1>4, <2>2, <3>1, <3>3 DEF Index
    <3>6. \A i \in 1..n : i <= 1 /\ ~(i > 1) /\ ~(i >= l)
      BY <3>1
    <3>7. Deleted(t, m, ls, n, lo, m, 1, l, u, ks)
      <4> HIDE DEF t, m, ls, n, lo, l, u, ks
      <4>1. m \in Nat /\ n \in Nat /\ Index(t, m, ls, n) /\ lo \in Nat /\ lo <= m /\ m <= m
        BY <1>1, <1>4
      <4>2. \A i \in 1..(n - (l - 1 - 1)) :
              ks[i] = IF i <= 1 THEN ls[i] ELSE ls[i + (l - 1 - 1)] - (m - lo)
        BY <3>4, <3>5, <3>6
      <4>3. /\ \A i \in 1..n : i <= 1 => ls[i] <= lo
            /\ \A i \in 1..n : i > 1 /\ i < l => ls[i] > lo /\ ls[i] <= m
            /\ \A i \in 1..n : i >= l => ls[i] > m
        BY <3>5, <3>6
      <4> QED BY ONLY <1>6, <3>4, <4>1, <4>2, <4>3 DEF Deleted
    <3>8. Index(u, m - (m - lo), ks, n)
      <4> HIDE DEF t, m, ls, n, lo, l, u, ks
      <4> QED BY <3>4, <3>7, IndexDeleted
    <3>9. Lines(u, ks)
      BY <1>6, <3>1, <3>3, <3>8 DEF Lines
    <3>10. cur_row_' = 0
      BY <1>5, <2>2, <3>3 DEF Least
    <3> QED BY <3>3, <3>9, <3>10
  <2> QED BY <1>1, <2>1, <2>2
<1>9. cur_row_' \in 0..(k - 1) /\ cur_row_' + 1 = k
  <2> HIDE DEF k
  <2> QED BY <1>8
<1>10. /\ EditInv' /\ offset' = ks[k] /\ offset' \in 0..Len(u) /\ EditText!Begins(u, offset')
       /\ \A p \in (offset' + 1)..(offset' + Length(u, ks, cur_row_')) : u[p] # NL
  BY <1>5, <1>6, <1>8, <1>9, AtLineStart
<1>11. offset' + Length(u, ks, cur_row_') = Len(u)
  <2>1. Length(u, ks, cur_row_') = Len(u) - ks[k] /\ Len(u) \in Nat
    BY <1>6, <1>8, <1>9 DEF Length
  <2>2. offset' \in Nat /\ Length(u, ks, cur_row_') = Len(u) - offset' /\ Len(u) \in Nat
    BY <1>10, <2>1
  <2> HIDE DEF u, ks
  <2> QED BY ONLY <2>2
<1>12. \A p \in (offset' + 1)..Len(u) : u[p] # NL
  BY <1>10, <1>11
<1>13. EditText!Ends(t, m) /\ ~(m < Len(t))
  BY <1>1 DEF EditText!Ends
<1>14. u = EditText!Without(IF b = 0 THEN 0 ELSE b - 1, m)
  BY <1>4, <1>6 DEF EditText!Without, Cut
<1>15. \E x \in 0..offset, y \in offset..Len(text_) :
         /\ EditText!Begins(text_, x) /\ EditText!Ends(text_, y)
         /\ \A i \in (x + 1)..y : text_[i] /= NL
         /\ text_' = IF y < Len(text_) THEN EditText!Without(x, y + 1)
                     ELSE EditText!Without(IF x = 0 THEN 0 ELSE x - 1, y)
         /\ offset' \in 0..Len(text_') /\ EditText!Begins(text_', offset')
         /\ y < Len(text_) => offset' = x
         /\ y = Len(text_) => \A i \in (offset' + 1)..Len(text_') : text_'[i] /= NL
  <2>1. /\ EditText!Begins(text_, b) /\ EditText!Ends(text_, m)
        /\ \A i \in (b + 1)..m : text_[i] /= NL
        /\ text_' = IF m < Len(text_) THEN EditText!Without(b, m + 1)
                    ELSE EditText!Without(IF b = 0 THEN 0 ELSE b - 1, m)
        /\ offset' \in 0..Len(text_') /\ EditText!Begins(text_', offset')
        /\ m < Len(text_) => offset' = b
        /\ m = Len(text_) => \A i \in (offset' + 1)..Len(text_') : text_'[i] /= NL
    <3> HIDE DEF b
    <3> QED BY <1>3, <1>10, <1>12, <1>13, <1>14
  <2>2. b \in 0..offset /\ m \in offset..Len(text_)
    BY <1>3
  <2> HIDE DEF b, m
  <2> QED BY <2>1, <2>2
<1> QED BY <1>10, <1>15 DEF EditText!EraseLine

LEMMA Moves ==
  ASSUME EditInv, NEW row \in 0..(line_count - 1), NEW col \in 0..line_len(row),
         move_to(row, col)
  PROVE  EditInv' /\ EditText!Move
<1>1. /\ cur_row_' = row /\ cur_col_' = col /\ gap_' = gap_ /\ line_start_' = line_start_
      /\ text_' = text_
  BY DEF move_to, text_
<1>2. /\ text_ \in Seq(Alphabet) /\ Lines(text_, line_start_) /\ row \in 0..(Len(line_start_) - 1)
      /\ Len(text_) = Size(gap_)
  BY Where DEF EditInv, line_count
<1>3. line_len(row) = Length(text_, line_start_, row)
  BY <1>2 DEF line_len, Length, line_count, start
<1>4. /\ line_start_[row + 1] \in 0..Len(text_) /\ Length(text_, line_start_, row) \in Nat
      /\ line_start_[row + 1] + Length(text_, line_start_, row) <= Len(text_)
      /\ Len(text_) \in Nat
  BY ONLY <1>2, LineOfText
<1>5. EditInv'
  BY <1>1, <1>2, <1>3 DEF EditInv
<1>6. offset' = line_start_[row + 1] + col
  BY <1>1 DEF offset, start
<1>7. offset' \in 0..Len(text_)
  BY <1>3, <1>4, <1>6
<1> QED BY <1>1, <1>5, <1>7 DEF EditText!Move

LEMMA EditStarts == EditInit => EditInv /\ EditText!Init
<1> SUFFICES ASSUME EditInit PROVE EditInv /\ EditText!Init
  OBVIOUS
<1>1. /\ gap_.cap = InitCap /\ gap_.lo = 0 /\ gap_.hi = InitCap /\ InitCap \in Nat /\ InitCap > 0
  BY EditAssumption DEF EditInit, Gapped
<1>2. Holds(gap_, Alphabet) /\ Size(gap_) = 0
  BY <1>1 DEF Holds, Capacity, Size
<1>3. text_ \in Seq(Alphabet) /\ Len(text_) = 0
  BY <1>2, TextHeld DEF text_
<1>4. line_start_ = <<0>> /\ cur_row_ = 0 /\ cur_col_ = 0
  BY DEF EditInit
<1>5. Index(text_, 0, line_start_, 1)
  BY <1>4 DEF Index
<1>6. Lines(text_, line_start_) /\ Length(text_, line_start_, 0) = 0
  BY <1>3, <1>4, <1>5 DEF Lines, Length
<1>7. offset = 0
  BY <1>4 DEF offset, start
<1> QED BY <1>1, <1>2, <1>3, <1>4, <1>6, <1>7 DEF EditInv, EditText!Init, Alphabet

LEMMA EditStep ==
  EditInv /\ [EditNext]_editVars => EditInv' /\ [EditText!Next]_(EditText!vars)
<1> SUFFICES ASSUME EditInv, [EditNext]_editVars
             PROVE  EditInv' /\ [EditText!Next]_(EditText!vars)
  OBVIOUS
<1> USE DEF EditText!Next, EditText!PointNext
<1>1. ASSUME NEW c \in Letters, insert_char(c)
      PROVE  EditInv' /\ [EditText!Next]_(EditText!vars)
  BY <1>1, TypesChar
<1>2. CASE insert_newline
  BY <1>2, BreaksLine
<1>3. CASE delete_char_InLine
  BY <1>3, DeletesInLine
<1>4. CASE delete_char_Joins
  BY <1>4, JoinsLines
<1>5. CASE delete_line
  <2>1. cur_row_ + 1 < line_count \/ cur_row_ + 1 >= line_count
    BY Where
  <2> QED BY <1>5, <2>1, DeletesInnerLine, DeletesLastLine
<1>6. ASSUME NEW row \in 0..(line_count - 1), NEW col \in 0..line_len(row), move_to(row, col)
      PROVE  EditInv' /\ [EditText!Next]_(EditText!vars)
  BY <1>6, Moves
<1>7. CASE UNCHANGED editVars
  <2>1. UNCHANGED <<text_, offset>>
    BY <1>7 DEF editVars, text_, offset, start
  <2>2. EditInv'
    BY <1>7, <2>1 DEF editVars, EditInv
  <2> QED BY <2>1, <2>2 DEF EditText!vars
<1> QED BY <1>1, <1>2, <1>3, <1>4, <1>5, <1>6, <1>7 DEF EditNext

\* vc-05: whatever the editor does to its gap, to the index of its lines and to its
\* cursor, the index says where the lines of the text begin and the cursor is in it.
THEOREM IndexKept == EditSpec => []LineIndex
<1>1. EditSpec => []EditInv
  BY EditStarts, EditStep, PTL DEF EditSpec
<1>2. EditInv => LineIndex
  BY Where, IndexOfLines DEF EditInv
<1> QED BY <1>1, <1>2, PTL

\* vc-05: insert_char, insert_newline, delete_char, delete_line and move_to are
\* each one edit of the text at the cursor, for every text and every memory.
THEOREM EditorIsText == EditSpec => EditImplementsText
<1>1. EditSpec => []EditInv
  BY EditStarts, EditStep, PTL DEF EditSpec
<1>2. EditSpec => EditText!Spec
  BY <1>1, EditStarts, EditStep, PTL DEF EditSpec, EditText!Spec
<1> QED BY <1>2 DEF EditImplementsText

\* The two buffers of vim-cpp, as the runs have them side by side, are each a text
\* with a point.
THEOREM BuffersAreTexts == GapSpec /\ EditSpec => ImplementsText
<1> QED BY GapBufferIsText, EditorIsText, PTL DEF ImplementsText
=============================================================================
