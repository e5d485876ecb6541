-------------------------------- MODULE Memory --------------------------------
(***************************************************************************)
(* The memory side of cpu-model-core-mem-lab: cache, store buffer, DRAM and*)
(* mesh.  (The coherence protocol is in Mesi.)                             *)
(***************************************************************************)
EXTENDS Integers, Sequences, FiniteSetsExt

------------------------------------------------------------------------------
(***************************************************************************)
(* The set-associative cache of cpu-model-core-mem-lab (experiment 4): one *)
(* sequence of accesses under several geometries, which are independent.   *)
(* An access is to a block: the line its address lies in.                  *)
(***************************************************************************)
CONSTANTS Blocks,        \* the blocks that are accessed, natural numbers
          Configs,       \* [ways, sets]
          LruMaxAccesses    \* bound: the length of the trace

Empty == -1

VARIABLES cache,         \* per configuration: tag, lru and the counters
          seen,          \* blocks that were accessed before
          recent         \* history: the blocks, the latest first
lru_vars == <<cache, seen, recent>>

LruInit ==
  /\ cache = [c \in Configs |->
                [tag |-> [s \in 0..(c.sets - 1) |-> [w \in 1..c.ways |-> Empty]],
                 lru |-> [s \in 0..(c.sets - 1) |-> [w \in 1..c.ways |-> w]],
                 hits |-> 0, cold |-> 0, cap |-> 0, conf |-> 0]]
  /\ seen = {} /\ recent = <<>>

\* The slot becomes the last one to be replaced, those behind it move up.
touch(q, slot) ==
  [i \in DOMAIN q |-> IF i = Len(q) THEN slot
                     ELSE IF \E j \in 1..i : q[j] = slot THEN q[i + 1] ELSE q[i]]

lru_access(c, m, blk) ==
  LET s == blk % c.sets
      t == blk \div c.sets
      Hit == {w \in 1..c.ways : m.tag[s][w] = t}
      slot == IF Hit = {} THEN m.lru[s][1] ELSE Max(Hit)
      anyEmpty == \E u \in DOMAIN m.tag : \E w \in 1..c.ways : m.tag[u][w] = Empty
      moved == [m EXCEPT !.tag[s][slot] = t, !.lru[s] = touch(@, slot)]
  IN  IF Hit /= {} THEN [moved EXCEPT !.hits = @ + 1]
      ELSE IF blk \notin seen THEN [moved EXCEPT !.cold = @ + 1]
      ELSE IF anyEmpty THEN [moved EXCEPT !.conf = @ + 1]
      ELSE [moved EXCEPT !.cap = @ + 1]

LruAccess(blk) ==
  /\ Len(recent) < LruMaxAccesses
  /\ cache' = [c \in Configs |-> lru_access(c, cache[c], blk)]
  /\ seen' = seen \cup {blk}
  /\ recent' = <<blk>> \o recent

LruNext == \E blk \in Blocks : LruAccess(blk)
LruSpec == LruInit /\ [][LruNext]_lru_vars

------------------------------------------------------------------------------
\* The blocks of set s, the latest first.
Latest(c, s) ==
  LET Among[i \in 0..Len(recent)] ==
        IF i = 0 THEN <<>>
        ELSE IF recent[i] % c.sets = s /\ recent[i] \notin Range(Among[i - 1])
             THEN Append(Among[i - 1], recent[i]) ELSE Among[i - 1]
  IN  Among[Len(recent)]

\* A set holds the blocks used last, as many as it has ways, in the order of their
\* use; each access is counted once, and once per block as cold; a cache of one
\* set has no conflicts; and more ways never mean fewer hits.
HoldsTheLatest ==
  /\ \A c \in Configs : LET m == cache[c] IN
       /\ \A s \in 0..(c.sets - 1) :
            [i \in 1..c.ways |-> m.tag[s][m.lru[s][c.ways + 1 - i]]] =
            [i \in 1..c.ways |-> IF i <= Len(Latest(c, s)) THEN Latest(c, s)[i] \div c.sets ELSE Empty]
       /\ m.hits + m.cold + m.cap + m.conf = Len(recent) /\ m.cold = Cardinality(seen)
       /\ c.sets = 1 => m.conf = 0
  /\ \A c, d \in Configs : c.sets = d.sets /\ c.ways <= d.ways => cache[c].hits <= cache[d].hits

------------------------------------------------------------------------------
(***************************************************************************)
(* The consistency model of cpu-model-core-mem-lab (experiment 6): a core  *)
(* that makes its stores one by one, under SC and under TSO with a store   *)
(* buffer and a fence every so many stores.                                *)
(***************************************************************************)
CONSTANTS SB, drainPerStore,
          Fences,             \* storesPerFence: 0 is no fence
          depth               \* how many stores are made

Modes == [tso : BOOLEAN, every : Fences]

VARIABLES sto_i, core             \* the next store; a core per mode
sto_vars == <<sto_i, core>>

StoInit ==
  /\ sto_i = 0
  /\ core = [m \in Modes |-> [buffered |-> 0, coreStall |-> 0, drains |-> 0, fences |-> 0,
                              unseen |-> 0]]      \* history: stores not visible yet

\* Mutant: the fence waits for the buffer without emptying it.
Fenced_KeepsBuffer(m, s) ==
  IF m.tso /\ m.every > 0 /\ sto_i % m.every = m.every - 1
  THEN [s EXCEPT !.fences = @ + 1, !.coreStall = @ + s.buffered * drainPerStore,
                 !.drains = IF s.buffered > 0 THEN @ + 1 ELSE @]
  ELSE s

Fenced(m, s) ==
  IF m.tso /\ m.every > 0 /\ sto_i % m.every = m.every - 1
  THEN [s EXCEPT !.fences = @ + 1, !.coreStall = @ + s.buffered * drainPerStore,
                 !.drains = IF s.buffered > 0 THEN @ + 1 ELSE @,
                 !.buffered = 0, !.unseen = 0]
  ELSE s

\* SC drains every store, TSO the whole buffer once it is full.
Stored(m, s) ==
  LET b == IF s.buffered + 1 > SB THEN SB ELSE s.buffered + 1
  IN  IF ~m.tso \/ b >= SB
      THEN [s EXCEPT !.coreStall = @ + drainPerStore, !.drains = @ + 1, !.buffered = 0, !.unseen = 0]
      ELSE [s EXCEPT !.buffered = b, !.unseen = @ + 1]

Store ==
  /\ sto_i < depth /\ sto_i' = sto_i + 1
  /\ core' = [m \in Modes |-> Fenced(m, Stored(m, core[m]))]

StoNext == Store
StoSpec == StoInit /\ [][StoNext]_sto_vars

------------------------------------------------------------------------------
\* The buffer counts the stores that are not visible, and none are left behind a fence
\* or under SC.  However far apart its fences, TSO costs no more than SC, and no more
\* than with a fence after each store, and no less than without any.
FencesDrain ==
  /\ \A m \in Modes : LET s == core[m] IN
       /\ s.buffered = s.unseen /\ s.buffered < SB
       /\ ~m.tso \/ (m.every > 0 /\ sto_i % m.every = 0) => s.unseen = 0
  /\ \A m, n \in Modes :
       /\ m.tso /\ ~n.tso => core[m].coreStall <= core[n].coreStall
       /\ m.tso /\ n.tso /\ n.every = 1 => core[m].coreStall <= core[n].coreStall
       /\ m.tso /\ n.tso /\ n.every = 0 => core[n].coreStall <= core[m].coreStall

------------------------------------------------------------------------------
(***************************************************************************)
(* Memory of cpu-model-core-mem-lab (experiment 7): DRAM banks with a row  *)
(* buffer each behind one data bus, and the stride prefetcher in front of  *)
(* them.  Addresses are counted in lines.                                  *)
(***************************************************************************)
CONSTANTS banks, colsPerRow, tRCD, tCAS, tRP, tBus,
          Prefetchers,        \* [on, deg, dist]
          Lines,              \* addresses, natural numbers
          DramMaxAccesses         \* bound: the length of the pattern

VARIABLES pf, lastAddr, lastDelta, armed, inCache, pfIssued, pfUseful,
          open, cyc, busBusyUntil, rowHit, rowMiss,
          demands             \* history: the addresses, with what reached the DRAM
pfVars == <<lastAddr, lastDelta, armed, inCache, pfIssued, pfUseful>>
dramVars == <<open, cyc, busBusyUntil, rowHit, rowMiss>>
dram_vars == <<pf, pfVars, dramVars, demands>>

Closed == -1
None == -1
Banks == 0..(banks - 1)

DramInit ==
  /\ pf \in Prefetchers
  /\ lastAddr = None /\ lastDelta = 0 /\ armed = FALSE /\ inCache = {}
  /\ pfIssued = 0 /\ pfUseful = 0
  /\ open = [b \in Banks |-> Closed]
  /\ cyc = 0 /\ busBusyUntil = 0 /\ rowHit = 0 /\ rowMiss = 0
  /\ demands = <<>>

Bank(line) == (line \div colsPerRow) % banks
Row(line) == line \div (colsPerRow * banks)

\* DRAM::access.
dram_access(line) ==
  LET b == Bank(line)
      isOpen == open[b] = Row(line)
      lat == IF isOpen THEN tCAS ELSE tRCD + tCAS + (IF open[b] = Closed THEN 0 ELSE tRP)
  IN  /\ open' = [open EXCEPT ![b] = Row(line)]
      /\ rowHit' = IF isOpen THEN rowHit + 1 ELSE rowHit
      /\ rowMiss' = IF isOpen THEN rowMiss ELSE rowMiss + 1
      /\ cyc' = (IF cyc > busBusyUntil THEN cyc ELSE busBusyUntil) + lat
      /\ busBusyUntil' = cyc' + tBus

\* The lines fetched ahead of a.
Ahead(a, d) == {a + d * (k + pf.dist) : k \in 1..pf.deg}

\* Pf::demand: a stride that is seen twice is followed.
demand(a) ==
  LET d == a - lastAddr
      fetch == lastAddr /= None /\ armed /\ d = lastDelta /\ d > 0
  IN  /\ pfUseful' = IF a \in inCache THEN pfUseful + 1 ELSE pfUseful
      /\ inCache' = IF fetch THEN inCache \cup Ahead(a, d) ELSE inCache
      /\ pfIssued' = IF fetch THEN pfIssued + pf.deg ELSE pfIssued
      /\ lastDelta' = IF lastAddr = None THEN lastDelta ELSE d
      /\ armed' = (armed \/ lastAddr /= None)
      /\ lastAddr' = a

DramAccess(a) ==
  LET prefetched == pf.on /\ a \in inCache
  IN  /\ Len(demands) < DramMaxAccesses
      /\ IF pf.on THEN demand(a) ELSE UNCHANGED pfVars
      /\ IF prefetched THEN UNCHANGED dramVars ELSE dram_access(a)
      /\ demands' = Append(demands, [line |-> a, dram |-> ~prefetched])
      /\ UNCHANGED pf

DramNext == \E a \in Lines : DramAccess(a)
DramSpec == DramInit /\ [][DramNext]_dram_vars

------------------------------------------------------------------------------
dram_n == Len(demands)
Touched == {Bank(demands[i].line) : i \in {j \in 1..dram_n : demands[j].dram}}

\* The last k demands are a stride of d.
Stride(k, d) == dram_n >= k /\ \A i \in (dram_n - k + 2)..dram_n : demands[i].line - demands[i - 1].line = d

\* Each demand was fetched ahead or went to the DRAM; a bank's open row is that of
\* the last access to it, and the time is made of what each access costs, one
\* transfer after the other; and of a stride that lasts, the fourth line and those
\* behind it are served without the DRAM, or if lines are skipped, as many later.
TimeAddsUp ==
  /\ pfUseful + rowHit + rowMiss = dram_n
  /\ \A b \in Banks :
       LET Of == {i \in 1..dram_n : demands[i].dram /\ Bank(demands[i].line) = b}
       IN  open[b] = IF Of = {} THEN Closed ELSE Row(demands[Max(Of)].line)
  /\ cyc = tCAS * (rowHit + rowMiss) + tRCD * rowMiss + tRP * (rowMiss - Cardinality(Touched))
           + tBus * Max({rowHit + rowMiss - 1, 0})
  /\ \A d \in 1..DramMaxAccesses :
       pf.on /\ pf.deg >= 1 /\ Stride(4 + pf.dist, d) => ~demands[dram_n].dram

------------------------------------------------------------------------------
(***************************************************************************)
(* The mesh of cpu-model-core-mem-lab (experiment 8): packets are sent one *)
(* after the other along the XY path, and load every router they enter.    *)
(***************************************************************************)
CONSTANTS N,               \* the mesh is N by N
          MaxPackets       \* bound: packets sent

Nodes == 0..(N * N - 1)

VARIABLES load,            \* per router
          net_b,               \* router hops
          at, dst,         \* the packet's router, and its destination
          from, sent,      \* history: where the packet began, how many were sent
          turned           \* history: the packet has moved along y
net_vars == <<load, net_b, at, dst, from, sent, turned>>

NetInit ==
  /\ load = [r \in Nodes |-> 0] /\ net_b = 0
  /\ at = 0 /\ dst = 0 /\ from = 0 /\ sent = 0 /\ turned = FALSE

X(r) == r % N
Y(r) == r \div N
Dist(r, s) == LET Abs(k) == IF k < 0 THEN -k ELSE k IN Abs(X(r) - X(s)) + Abs(Y(r) - Y(s))

\* main's loop: a packet to another node, when the one before has arrived.
Send(s, d) ==
  /\ at = dst /\ s /= d /\ sent < MaxPackets
  /\ at' = s /\ from' = s /\ dst' = d /\ sent' = sent + 1 /\ turned' = FALSE
  /\ UNCHANGED <<load, net_b>>

Enter(r) ==
  /\ at' = r /\ load' = [load EXCEPT ![r] = @ + 1] /\ net_b' = net_b + 1
  /\ UNCHANGED <<dst, from, sent>>

HopX ==
  /\ X(at) /= X(dst)
  /\ Enter(IF X(dst) > X(at) THEN at + 1 ELSE at - 1)
  /\ UNCHANGED turned

HopY ==
  /\ X(at) = X(dst) /\ Y(at) /= Y(dst)
  /\ Enter(IF Y(dst) > Y(at) THEN at + N ELSE at - N)
  /\ turned' = TRUE

NetNext == (\E s, d \in Nodes : Send(s, d)) \/ HopX \/ HopY
NetSpec == NetInit /\ [][NetNext]_net_vars

------------------------------------------------------------------------------
\* A packet is always on a shortest path, along x first, and stays in the row and
\* column its path allows; the routers' loads are its hops and those of the
\* packets before it.
OnShortestPath ==
  /\ Dist(from, at) + Dist(at, dst) = Dist(from, dst)
  /\ turned => X(at) = X(dst)
  /\ ~turned => Y(at) = Y(from)
  /\ LET Upto[n \in 0..(N * N)] == IF n = 0 THEN 0 ELSE Upto[n - 1] + load[n - 1]
     IN  Upto[N * N] = net_b
==============================================================================
