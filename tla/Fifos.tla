-------------------------------- MODULE Fifos --------------------------------
(***************************************************************************)
(* FIFOs and arbiter of the Verilog exercises.                             *)
(***************************************************************************)
EXTENDS Integers, Sequences

------------------------------------------------------------------------------
(***************************************************************************)
(* Queues of one clock: the two templates of experiments/                  *)
(* tpl-sync-fifo-verilog, with a counter ("count") and with a bit more     *)
(* than an address has in its pointers ("ptr"); fifo-starter-kit/rtl       *)
(* ("kit"), which has the latter and reads into a register; and the        *)
(* one-deep stage of exp-valid-ready-handshake-wave ("stage").  An edge of *)
(* the clock is one action.                                                *)
(***************************************************************************)
CONSTANTS Designs,  \* a kind and a depth each
          SyncN         \* how many items are offered

ASSUME SyncAssumption ==
  /\ \A d \in Designs : d = [kind |-> d.kind, depth |-> d.depth] /\ d.depth \in Nat \ {0}
  /\ SyncN \in Nat

VARIABLES fifo,               \* the design
          sync_mem, wptr, rptr, cnt,
          sync_i, sync_got, sync_taken       \* written and read so far; what was read
sync_vars == <<fifo, sync_mem, wptr, rptr, cnt, sync_i, sync_got, sync_taken>>

SYNC_DEPTH == fifo.depth
Counts == fifo.kind = "count"
Modulus == IF Counts THEN SYNC_DEPTH ELSE 2 * SYNC_DEPTH    \* where a pointer starts again
Inc(p) == (p + 1) % Modulus

SyncInit ==
  /\ fifo \in Designs
  /\ sync_mem = [a \in 0..(SYNC_DEPTH - 1) |-> -1]
  /\ wptr = 0 /\ rptr = 0 /\ cnt = 0
  /\ sync_i = 0 /\ sync_got = 0 /\ sync_taken = <<>>

\* Full is a pointer DEPTH ahead, which differs in the top bit only.  The stage has
\* out_valid instead of its two pointers.
used == IF Counts THEN cnt ELSE (wptr - rptr) % Modulus
full == used = SYNC_DEPTH
empty == used = 0

\* A full queue takes an item if one leaves at the same edge, except that of the kit.
sync_wr_advance(wr_en, rd_en) == wr_en /\ (~full \/ (rd_en /\ fifo.kind /= "kit"))
sync_rd_advance(rd_en) == rd_en /\ ~empty

SyncClock(wr_en, rd_en) ==
  LET wr == sync_wr_advance(wr_en, rd_en)
      rd == sync_rd_advance(rd_en)
  IN /\ wr_en => sync_i < SyncN
     /\ sync_mem' = IF wr THEN [sync_mem EXCEPT ![wptr % SYNC_DEPTH] = sync_i] ELSE sync_mem
     /\ wptr' = IF wr THEN Inc(wptr) ELSE wptr
     /\ sync_i' = IF wr THEN sync_i + 1 ELSE sync_i
     /\ rptr' = IF rd THEN Inc(rptr) ELSE rptr
     /\ sync_taken' = IF rd THEN Append(sync_taken, sync_mem[rptr % SYNC_DEPTH]) ELSE sync_taken
     /\ sync_got' = IF rd THEN sync_got + 1 ELSE sync_got
     /\ cnt' = CASE Counts /\ wr /\ ~rd -> cnt + 1
                 [] Counts /\ rd /\ ~wr -> cnt - 1
                 [] OTHER -> cnt
     /\ UNCHANGED fifo

\* rst_n leaves the memory as it is.
Reset ==
  /\ wptr' = 0 /\ rptr' = 0 /\ cnt' = 0 /\ sync_i' = 0 /\ sync_got' = 0 /\ sync_taken' = <<>>
  /\ UNCHANGED <<fifo, sync_mem>>

SyncNext == Reset \/ \E wr_en, rd_en \in BOOLEAN : SyncClock(wr_en, rd_en)

SyncSpec == SyncInit /\ [][SyncNext]_sync_vars

------------------------------------------------------------------------------
\* Every item that goes in comes out once and in order, also when one goes in and one
\* comes out of a full queue at the same edge, and the flags tell how many there are.
SyncHandsOn ==
  /\ sync_taken = [k \in 1..sync_got |-> k - 1]
  /\ used = sync_i - sync_got /\ (full <=> sync_i = sync_got + SYNC_DEPTH) /\ (empty <=> sync_i = sync_got)
  /\ sync_i <= sync_got + SYNC_DEPTH

------------------------------------------------------------------------------
(***************************************************************************)
(* experiments/tpl-async-fifo-verilog/async_fifo.v: a FIFO between two     *)
(* clock domains.  Pointers are counted in binary, sent across as Gray     *)
(* code, and arrive through two registers.  An edge of either clock is one *)
(* action.  The first register of a synchronizer may be clocked while the  *)
(* pointer changes, and then has of each bit the old or the new value.     *)
(***************************************************************************)
CONSTANTS AW,     \* address bits
          AsyncN       \* how many items are written

ASSUME AsyncAssumption == AW \in Nat \ {0} /\ AsyncN \in Nat

VARIABLES async_mem, wr_bin, rd_bin, wr_gray, rd_gray,
          wr_gray_sync1, wr_gray_sync2,   \* the write pointer, in the read domain
          rd_gray_sync1, rd_gray_sync2,   \* the read pointer, in the write domain
          full_r, empty_r,
          wr_was, rd_was,                 \* the Gray pointers before they last changed
          async_i, async_got, async_taken                   \* written and read so far; what was read
wrVars == <<wr_bin, wr_gray, rd_gray_sync1, rd_gray_sync2, full_r, async_i, async_mem>>
rdVars == <<rd_bin, rd_gray, wr_gray_sync1, wr_gray_sync2, empty_r, async_got, async_taken>>
async_vars == <<wrVars, rdVars, wr_was, rd_was>>

Pow2[k \in Nat] == IF k = 0 THEN 1 ELSE 2 * Pow2[k - 1]
ASYNC_DEPTH == Pow2[AW]
Bits == 0..AW                             \* one more than an address has
Bit(n, k) == (n \div Pow2[k]) % 2

\* Mutant: the pointer crosses in binary.
Gray_Binary(n) == [k \in Bits |-> Bit(n, k)]

Gray(n) == [k \in Bits |-> (Bit(n, k + 1) + Bit(n, k)) % 2]

\* What a register may take in of a value that changes from a to b.
Sampled(a, b) == {g \in [Bits -> {0, 1}] : \A k \in Bits : g[k] \in {a[k], b[k]}}

\* The write pointer's code when it is DEPTH ahead of the read pointer's.
Ahead(g) == [k \in Bits |-> IF k >= AW - 1 THEN 1 - g[k] ELSE g[k]]

AsyncInit ==
  /\ async_mem = [a \in 0..(ASYNC_DEPTH - 1) |-> -1]
  /\ wr_bin = 0 /\ rd_bin = 0 /\ full_r = FALSE /\ empty_r = TRUE
  /\ wr_gray = Gray(0) /\ rd_gray = Gray(0) /\ wr_was = Gray(0) /\ rd_was = Gray(0)
  /\ wr_gray_sync1 = Gray(0) /\ wr_gray_sync2 = Gray(0)
  /\ rd_gray_sync1 = Gray(0) /\ rd_gray_sync2 = Gray(0)
  /\ async_i = 0 /\ async_got = 0 /\ async_taken = <<>>

WrClock(wr_en) ==
  LET wr_advance == wr_en /\ ~full_r
      wr_bin_next == (wr_bin + IF wr_advance THEN 1 ELSE 0) % (2 * ASYNC_DEPTH)
      wr_gray_next == Gray(wr_bin_next)
  IN /\ wr_en => async_i < AsyncN
     /\ IF wr_advance
        THEN /\ async_mem' = [async_mem EXCEPT ![wr_bin % ASYNC_DEPTH] = async_i]
             /\ async_i' = async_i + 1
        ELSE UNCHANGED <<async_mem, async_i>>
     /\ wr_bin' = wr_bin_next /\ wr_gray' = wr_gray_next /\ wr_was' = wr_gray
     /\ rd_gray_sync1' \in Sampled(rd_was, rd_gray) /\ rd_was' = rd_gray
     /\ rd_gray_sync2' = rd_gray_sync1
     /\ full_r' = (wr_gray_next = Ahead(rd_gray_sync2))
     /\ UNCHANGED rdVars

RdClock(rd_en) ==
  LET rd_advance == rd_en /\ ~empty_r
      rd_bin_next == (rd_bin + IF rd_advance THEN 1 ELSE 0) % (2 * ASYNC_DEPTH)
      rd_gray_next == Gray(rd_bin_next)
  IN /\ IF rd_advance
        THEN /\ async_taken' = Append(async_taken, async_mem[rd_bin % ASYNC_DEPTH])
             /\ async_got' = async_got + 1
        ELSE UNCHANGED <<async_taken, async_got>>
     /\ rd_bin' = rd_bin_next /\ rd_gray' = rd_gray_next /\ rd_was' = rd_gray
     /\ wr_gray_sync1' \in Sampled(wr_was, wr_gray) /\ wr_was' = wr_gray
     /\ wr_gray_sync2' = wr_gray_sync1
     /\ empty_r' = (rd_gray_next = wr_gray_sync2)
     /\ UNCHANGED wrVars

AsyncNext == \E en \in BOOLEAN : WrClock(en) \/ RdClock(en)

AsyncSpec == AsyncInit /\ [][AsyncNext]_async_vars

------------------------------------------------------------------------------
\* Whatever the two clocks do to each other, and whatever a synchronizer catches of a
\* changing pointer, every item comes out once and in order and none is written over;
\* the flags may say full or empty too long, never too late.
AsyncHandsOn ==
  /\ async_taken = [k \in 1..async_got |-> k - 1]
  /\ async_got <= async_i /\ async_i <= async_got + ASYNC_DEPTH
  /\ async_i = async_got + ASYNC_DEPTH => full_r
  /\ async_i = async_got => empty_r

------------------------------------------------------------------------------
(***************************************************************************)
(* experiments/exp-round-robin-arbiter-sim: who is granted, by a base that *)
(* goes round (arb_rr.v) or by a fixed priority (arb_fixed.v).             *)
(***************************************************************************)
CONSTANT ArbN

ASSUME ArbAssumption == ArbN \in Nat \ {0}

VARIABLES kind, base,   \* which arbiter; where the search begins
          req,
          waited        \* how many others were granted while a request stood
arb_vars == <<kind, base, req, waited>>

Requesters == 0..(ArbN - 1)

ArbInit == /\ kind \in {"rr", "fixed"} /\ base = 0 /\ req = {}
           /\ waited = [r \in Requesters |-> 0]

\* The first of those who ask, counted from the base.
grant == {r \in req : \A s \in req : (r - base) % ArbN <= (s - base) % ArbN}

\* A base past the one that was granted; the requests for the next cycle.
Rotated == IF grant = {} \/ kind = "fixed" THEN base ELSE ((CHOOSE r \in grant : TRUE) + 1) % ArbN

ArbClock(asking) ==
  /\ base' = Rotated
  /\ waited' = [r \in Requesters |-> IF r \notin req \ grant THEN 0
                                     ELSE IF waited[r] < ArbN THEN waited[r] + 1 ELSE ArbN]
  /\ req' = asking
  /\ UNCHANGED kind

ArbNext == \E asking \in SUBSET Requesters : ArbClock(asking)

ArbSpec == ArbInit /\ [][ArbNext]_arb_vars

------------------------------------------------------------------------------
\* One of those who ask is granted; and who keeps asking the arbiter that goes round
\* waits for each of the others at most once.
FairTurns ==
  /\ req /= {} => \E r \in req : grant = {r}
  /\ kind = "rr" => \A r \in Requesters : waited[r] < ArbN

\* Queues hand on what they were given and arbiters their turns.
HandsOver == SyncHandsOn /\ AsyncHandsOn /\ FairTurns
==============================================================================
