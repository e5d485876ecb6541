-------------------------------- MODULE AxiSlaves --------------------------------
(***************************************************************************)
(* The bus slaves of the Verilog exercises.                                *)
(***************************************************************************)
EXTENDS Integers, Sequences

------------------------------------------------------------------------------
(***************************************************************************)
(* experiments/sva-check-axi-lite-sby: an AXI4-Lite slave with four        *)
(* registers, after the repair of its read channel                         *)
(* (axi_lite_regs_fixed.v), and a master that keeps to the protocol: a     *)
(* request stands, unchanged, until it is taken.  It may ask for the next  *)
(* read before it has the data of the last, but it writes after the        *)
(* response to its last write.  An edge of the clock is one action.        *)
(***************************************************************************)
CONSTANTS Registers, Elsewhere,  \* addresses that are decoded, and one that is not
          Values,                \* what a byte holds
          LiteMaxOps                 \* bound: how many requests are made

VARIABLES regs, lite_awready, lite_wready, lite_bvalid, bresp, lite_arready, lite_rvalid, lite_rdata, rresp,
          lite_aw, lite_ar,                \* the requests that stand
          lite_writes, reads,         \* the responses owed to requests that were taken
          lite_ops
lite_slave == <<regs, lite_awready, lite_wready, lite_bvalid, bresp, lite_arready, lite_rvalid,
                lite_rdata, rresp>>
lite_vars == <<lite_slave, lite_aw, lite_ar, lite_writes, reads, lite_ops>>

Lanes == {0, 1}                  \* of the four bytes of a register
Words == [Lanes -> Values]
Zero == [b \in Lanes |-> 0]
Nobody == [addr |-> Elsewhere, valid |-> FALSE]
NoWrite == [addr |-> Elsewhere, data |-> Zero, strb |-> {}, valid |-> FALSE]

LiteInit ==
  /\ regs = [a \in Registers |-> Zero]
  /\ lite_awready = FALSE /\ lite_wready = FALSE /\ lite_bvalid = FALSE /\ bresp = "OKAY"
  /\ lite_arready = FALSE /\ lite_rvalid = FALSE /\ lite_rdata = Zero /\ rresp = "OKAY"
  /\ lite_aw = NoWrite /\ lite_ar = Nobody /\ lite_writes = <<>> /\ reads = <<>> /\ lite_ops = 0

lite_wr_fire == lite_aw.valid /\ lite_awready /\ lite_wready
lite_rd_fire == lite_ar.valid /\ lite_arready
Resp(addr) == IF addr \in Registers THEN "OKAY" ELSE "SLVERR"
LiteValue(addr) == IF addr \in Registers THEN regs[addr] ELSE Zero
Strobed ==
  [regs EXCEPT ![lite_aw.addr] = [b \in Lanes |-> IF b \in lite_aw.strb THEN lite_aw.data[b] ELSE @[b]]]

\* Where two assignments are made at one edge, the last one holds.
LiteWriteChannel(bready) ==
  /\ lite_awready' = (lite_aw.valid /\ ~lite_bvalid) /\ lite_wready' = (lite_aw.valid /\ ~lite_bvalid)
  /\ regs' = IF lite_wr_fire /\ lite_aw.addr \in Registers THEN Strobed ELSE regs
  /\ bresp' = IF lite_wr_fire THEN Resp(lite_aw.addr) ELSE bresp
  /\ lite_bvalid' = IF lite_bvalid /\ bready THEN FALSE ELSE lite_bvalid \/ lite_wr_fire

\* Mutant: the read channel before its repair takes a request again.
TakesRead_Twice == lite_ar.valid /\ ~lite_rvalid
TakesRead == lite_ar.valid /\ ~lite_rvalid /\ ~lite_arready

LiteReadChannel(rready) ==
  /\ lite_arready' = TakesRead
  /\ lite_rdata' = IF lite_rd_fire THEN LiteValue(lite_ar.addr) ELSE lite_rdata
  /\ rresp' = IF lite_rd_fire THEN Resp(lite_ar.addr) ELSE rresp
  /\ lite_rvalid' = IF lite_rvalid /\ rready THEN FALSE ELSE lite_rvalid \/ lite_rd_fire

Owed(queue, fire, answer, answered) ==
  LET rest == IF answered /\ queue /= <<>> THEN SubSeq(queue, 2, Len(queue)) ELSE queue
  IN IF fire THEN Append(rest, answer) ELSE rest

\* What the master may ask for next, once the last request was taken.
LiteAddresses == Registers \cup {Elsewhere}
NextWrite ==
  IF lite_ops < LiteMaxOps /\ ~lite_wr_fire /\ lite_writes = <<>>
  THEN {NoWrite} \cup [addr : LiteAddresses, data : Words, strb : SUBSET Lanes, valid : {TRUE}]
  ELSE {NoWrite}
NextRead ==
  IF lite_ops < LiteMaxOps THEN {Nobody} \cup [addr : LiteAddresses, valid : {TRUE}] ELSE {Nobody}

LiteClock(bready, rready) ==
  /\ LiteWriteChannel(bready) /\ LiteReadChannel(rready)
  /\ lite_writes' = Owed(lite_writes, lite_wr_fire, Resp(lite_aw.addr), lite_bvalid /\ bready)
  /\ reads' = Owed(reads, lite_rd_fire, <<Resp(lite_ar.addr), LiteValue(lite_ar.addr)>>,
                    lite_rvalid /\ rready)
  /\ lite_aw' \in IF lite_aw.valid /\ ~lite_wr_fire THEN {lite_aw} ELSE NextWrite
  /\ lite_ar' \in IF lite_ar.valid /\ ~lite_rd_fire THEN {lite_ar} ELSE NextRead
  /\ lite_ops' = lite_ops + (IF lite_aw'.valid /\ (lite_wr_fire \/ ~lite_aw.valid) THEN 1 ELSE 0)
                          + (IF lite_ar'.valid /\ (lite_rd_fire \/ ~lite_ar.valid) THEN 1 ELSE 0)

LiteNext == \E bready, rready \in BOOLEAN : LiteClock(bready, rready)
LiteSpec == LiteInit /\ [][LiteNext]_lite_vars
------------------------------------------------------------------------------
\* A request that was taken has one response, which waits unchanged for the master:
\* for a read, it is what the register held at the edge that took it.
LiteAnswersOnce ==
  /\ reads = IF lite_rvalid THEN <<(<<rresp, lite_rdata>>)>> ELSE <<>>
  /\ lite_writes = IF lite_bvalid THEN <<bresp>> ELSE <<>>

------------------------------------------------------------------------------
(***************************************************************************)
(* experiments/tpl-axi-lite-register-sv/axi_lite_regs.sv: a register block *)
(* that takes the address and the data of a write in any order, each by a  *)
(* handshake of its own, and whose interrupt status is set by events and   *)
(* cleared by writing ones.  The master offers addresses, data and reads   *)
(* independently of each other.  An edge of the clock is one action.       *)
(***************************************************************************)
CONSTANTS Events,   \* the bits that mean something
          BlockMaxOps    \* bound: how many addresses, data and reads are offered

VARIABLES block_awready, awpend_q, awaddr_q, block_wready, wpend_q, wdata_q,
          ctrl_reg, irq_sticky_q, block_bvalid, block_arready, block_rvalid, block_rdata,
          block_aw, block_w, block_ar,    \* what the master offers
          addrs, words,       \* addresses and data that were taken and not yet used
          ctrl, raised, seen, \* what the registers and the last read should have
          owed,               \* responses to writes that took effect
          block_ops
block_vars == <<block_awready, awpend_q, awaddr_q, block_wready, wpend_q, wdata_q, ctrl_reg,
                irq_sticky_q, block_bvalid, block_arready, block_rvalid, block_rdata,
                block_aw, block_w, block_ar, addrs, words, ctrl, raised, seen, owed, block_ops>>

Regs == {"CTRL", "STATUS", "IRQ_STATUS"}
Word == [bits : SUBSET Events, strb : BOOLEAN]      \* with the strobe of their byte
Nowhere == "none"
NoWord == [bits |-> {}, strb |-> FALSE]

BlockInit ==
  /\ block_awready = FALSE /\ awpend_q = FALSE /\ awaddr_q = Nowhere
  /\ block_wready = FALSE /\ wpend_q = FALSE /\ wdata_q = NoWord
  /\ ctrl_reg = {} /\ irq_sticky_q = {} /\ block_bvalid = FALSE
  /\ block_arready = FALSE /\ block_rvalid = FALSE /\ block_rdata = {}
  /\ block_aw = Nowhere /\ block_w = <<>> /\ block_ar = Nowhere
  /\ addrs = <<>> /\ words = <<>> /\ ctrl = {} /\ raised = {} /\ seen = {} /\ owed = 0 /\ block_ops = 0

block_wr_fire == awpend_q /\ wpend_q /\ ~block_bvalid

\* Either half of a write is taken, waits for the other half, and is used.
Pend(ready, valid, pend) == (ready /\ valid) \/ (pend /\ ~block_wr_fire)
Ready(ready, valid, pend) == ~(ready /\ valid) /\ (block_wr_fire \/ ready \/ ~pend)

WriteChannels ==
  /\ block_awready' = Ready(block_awready, block_aw /= Nowhere, awpend_q)
  /\ awpend_q' = Pend(block_awready, block_aw /= Nowhere, awpend_q)
  /\ awaddr_q' = IF block_awready /\ block_aw /= Nowhere THEN block_aw ELSE awaddr_q
  /\ block_wready' = Ready(block_wready, block_w /= <<>>, wpend_q)
  /\ wpend_q' = Pend(block_wready, block_w /= <<>>, wpend_q)
  /\ wdata_q' = IF block_wready /\ block_w /= <<>> THEN Head(block_w) ELSE wdata_q

\* An event that comes as its bit is cleared sets it.
Decode(evt) ==
  /\ ctrl_reg' = IF block_wr_fire /\ awaddr_q = "CTRL" /\ wdata_q.strb THEN wdata_q.bits ELSE ctrl_reg
  /\ irq_sticky_q' = evt \cup IF block_wr_fire /\ awaddr_q = "IRQ_STATUS" /\ wdata_q.strb
                              THEN irq_sticky_q \ wdata_q.bits ELSE irq_sticky_q

Response(bready) == block_bvalid' = (block_wr_fire \/ (block_bvalid /\ ~bready))

BlockValue(addr, status) == CASE addr = "CTRL" -> ctrl_reg
                              [] addr = "STATUS" -> status
                              [] OTHER -> irq_sticky_q

block_rd_fire == block_arready /\ block_ar /= Nowhere

BlockReadChannel(rready, status) ==
  /\ block_arready' = (~block_rd_fire /\ ((block_rvalid /\ rready) \/ block_arready \/ ~block_rvalid))
  /\ block_rvalid' = (block_rd_fire \/ (block_rvalid /\ ~rready))
  /\ block_rdata' = IF block_rd_fire THEN BlockValue(block_ar, status) ELSE block_rdata

\* An offer stands until it is taken.
Offers ==
  LET a == IF block_awready THEN Nowhere ELSE block_aw
      d == IF block_wready THEN <<>> ELSE block_w
      r == IF block_arready THEN Nowhere ELSE block_ar
  IN \/ block_aw' = a /\ block_w' = d /\ block_ar' = r /\ block_ops' = block_ops
     \/ /\ block_ops < BlockMaxOps /\ block_ops' = block_ops + 1
        /\ \/ a = Nowhere /\ block_aw' \in Regs /\ block_w' = d /\ block_ar' = r
           \/ d = <<>> /\ block_w' \in {<<x>> : x \in Word} /\ block_aw' = a /\ block_ar' = r
           \/ r = Nowhere /\ block_ar' \in Regs /\ block_aw' = a /\ block_w' = d

\* What was taken, and what would come of it if address and data came together.
BlockEffects(bready, evt, status) ==
  LET used(q) == IF block_wr_fire THEN Tail(q) ELSE q
      writes(r) == block_wr_fire /\ Head(addrs) = r /\ Head(words).strb
  IN /\ addrs' = IF block_awready /\ block_aw /= Nowhere THEN Append(used(addrs), block_aw) ELSE used(addrs)
     /\ words' = IF block_wready /\ block_w /= <<>> THEN used(words) \o block_w ELSE used(words)
     /\ ctrl' = IF writes("CTRL") THEN Head(words).bits ELSE ctrl
     /\ raised' = evt \cup {e \in raised : writes("IRQ_STATUS") => e \notin Head(words).bits}
     /\ seen' = IF ~block_rd_fire THEN seen
                ELSE CASE block_ar = "CTRL" -> ctrl [] block_ar = "STATUS" -> status [] OTHER -> raised
     /\ owed' = owed + (IF block_wr_fire THEN 1 ELSE 0) - (IF block_bvalid /\ bready THEN 1 ELSE 0)

BlockClock(bready, rready, evt, status) ==
  /\ WriteChannels /\ Decode(evt) /\ Response(bready) /\ BlockReadChannel(rready, status)
  /\ Offers /\ BlockEffects(bready, evt, status)

BlockNext == \E bready, rready \in BOOLEAN, evt, status \in SUBSET Events :
               BlockClock(bready, rready, evt, status)
BlockSpec == BlockInit /\ [][BlockNext]_block_vars
------------------------------------------------------------------------------
\* The k-th address goes with the k-th data, whichever of the two comes first and
\* however far ahead of the other; every write has one effect and one response, no
\* event is lost to a write that clears, and a read has what stood in its register
\* when it was taken.
PairedOnce ==
  /\ Len(addrs) = (IF awpend_q THEN 1 ELSE 0) /\ Len(words) = (IF wpend_q THEN 1 ELSE 0)
  /\ ctrl_reg = ctrl /\ irq_sticky_q = raised
  /\ owed = (IF block_bvalid THEN 1 ELSE 0)
  /\ block_rvalid => block_rdata = seen

------------------------------------------------------------------------------
(***************************************************************************)
(* experiments/axi4-timing-waveform-walkthrough/axi4_slave.v: a slave with *)
(* a memory that takes bursts of incrementing addresses, one at a time for *)
(* writing and one for reading, and a master that keeps to that.  An edge  *)
(* of the clock is one action.                                             *)
(***************************************************************************)
CONSTANTS WORDS,    \* words of the memory
          Lengths,  \* beats of a burst, less one
          MaxBursts \* bound: how many bursts of either kind

ASSUME BurstAssumption == WORDS \in Nat \ {0} /\ Lengths \subseteq Nat

VARIABLES mem, burst_awready, burst_wready, burst_bvalid, waddr_q,
          burst_arready, burst_rvalid, rlast, burst_rdata, raddr_q, rlen_q,
          wr, rd,   \* the master: its write and its read burst
          stored,   \* what was written, by address
          expect,   \* what was stored where the next beat is read, when it was read
          bursts
burst_slave == <<mem, burst_awready, burst_wready, burst_bvalid, waddr_q, burst_arready,
                 burst_rvalid, rlast, burst_rdata, raddr_q, rlen_q>>
burst_vars == <<burst_slave, wr, rd, stored, expect, bursts>>

BurstAddresses == 0..(WORDS - 1)
Idle == [at |-> "idle", addr |-> 0, len |-> 0, beat |-> 0, id |-> 0]
Undefined == "x"          \* what lies outside the memory

BurstInit ==
  /\ mem = [a \in BurstAddresses |-> <<>>] /\ stored = mem
  /\ burst_awready = FALSE /\ burst_wready = FALSE /\ burst_bvalid = FALSE /\ waddr_q = 0
  /\ burst_arready = FALSE /\ burst_rvalid = FALSE /\ rlast = FALSE /\ burst_rdata = <<>>
  /\ raddr_q = 0 /\ rlen_q = 0
  /\ wr = Idle /\ rd = Idle /\ expect = <<>> /\ bursts = 0

\* The master's side of the handshakes.
awvalid == wr.at = "addr"
wdata == <<wr.id, wr.beat>>
wlast == wr.beat = wr.len
arvalid == rd.at = "addr"

aw_fire == awvalid /\ burst_awready
w_fire(wvalid) == wvalid /\ wr.at = "data" /\ burst_wready
b_fire(bready) == burst_bvalid /\ bready
ar_fire == arvalid /\ burst_arready
r_fire(rready) == burst_rvalid /\ rready

BurstWriteChannel(wvalid, bready) ==
  /\ burst_awready' = (~burst_wready /\ ~burst_bvalid)
  /\ mem' = IF w_fire(wvalid) THEN [mem EXCEPT ![waddr_q] = wdata] ELSE mem
  /\ waddr_q' = IF w_fire(wvalid) THEN (waddr_q + 1) % WORDS
                ELSE IF aw_fire THEN wr.addr ELSE waddr_q
  /\ burst_wready' = ((burst_wready \/ aw_fire) /\ ~(w_fire(wvalid) /\ wlast))
  /\ burst_bvalid' = ((burst_bvalid \/ (w_fire(wvalid) /\ wlast)) /\ ~b_fire(bready))

\* The address of the next beat is one more than the last one; it does not wrap.
At(a) == IF a \in BurstAddresses THEN mem[a] ELSE Undefined

BurstReadChannel(rready) ==
  LET next == r_fire(rready) /\ ~rlast
  IN /\ burst_arready' = ~burst_rvalid
     /\ burst_rvalid' = (ar_fire \/ (burst_rvalid /\ ~(r_fire(rready) /\ rlast)))
     /\ raddr_q' = IF ar_fire THEN rd.addr ELSE IF next THEN (raddr_q + 1) % WORDS ELSE raddr_q
     /\ rlen_q' = IF ar_fire THEN rd.len ELSE IF next THEN rlen_q - 1 ELSE rlen_q
     /\ burst_rdata' = IF ar_fire THEN At(rd.addr) ELSE IF next THEN At(raddr_q + 1) ELSE burst_rdata
     /\ rlast' = IF ar_fire THEN rd.len = 0
                 ELSE IF next THEN rlen_q = 1 ELSE rlast /\ ~r_fire(rready)

\* The master ends a burst with its last beat, and asks for the next one later.
Moved(burst, taken, beat, ended) ==
  CASE burst.at = "addr" /\ taken -> [burst EXCEPT !.at = "data"]
    [] burst.at = "data" /\ beat /\ burst.beat < burst.len -> [burst EXCEPT !.beat = @ + 1]
    [] burst.at = "data" /\ beat /\ burst.beat = burst.len ->
         IF ended THEN Idle ELSE [burst EXCEPT !.at = "resp"]
    [] burst.at = "resp" /\ ended -> Idle
    [] OTHER -> burst

BurstEffects(wvalid, rready) ==
  /\ stored' = IF w_fire(wvalid) THEN [stored EXCEPT ![(wr.addr + wr.beat) % WORDS] = wdata]
               ELSE stored
  /\ expect' = IF ar_fire THEN stored[rd.addr]
               ELSE IF r_fire(rready) /\ rd.beat < rd.len THEN stored[rd.addr + rd.beat + 1]
               ELSE expect

BurstClock(wvalid, bready, rready) ==
  /\ BurstWriteChannel(wvalid, bready) /\ BurstReadChannel(rready) /\ BurstEffects(wvalid, rready)
  /\ wr' = Moved(wr, aw_fire, w_fire(wvalid), b_fire(bready))
  /\ rd' = Moved(rd, ar_fire, r_fire(rready), TRUE)
  /\ UNCHANGED bursts

\* A burst that is read ends inside the memory; the address of one that is written
\* may wrap.
Ask ==
  /\ bursts < MaxBursts /\ bursts' = bursts + 1
  /\ \E a \in BurstAddresses, l \in Lengths :
       LET burst == [at |-> "addr", addr |-> a, len |-> l, beat |-> 0, id |-> bursts']
       IN \/ wr = Idle /\ wr' = burst /\ UNCHANGED rd
          \/ rd = Idle /\ a + l < WORDS /\ rd' = burst /\ UNCHANGED wr
  /\ UNCHANGED <<burst_slave, stored, expect>>

BurstNext == Ask \/ \E wvalid, bready, rready \in BOOLEAN : BurstClock(wvalid, bready, rready)
BurstSpec == BurstInit /\ [][BurstNext]_burst_vars
------------------------------------------------------------------------------
\* Every beat is written where it belongs and read as it stood there, the last beat of
\* a read is marked as such and no other, and neither channel runs ahead of the master
\* or stays behind it, however long either side makes the other wait.
BeatsInOrder ==
  /\ mem = stored
  /\ burst_wready <=> wr.at = "data"
  /\ burst_bvalid <=> wr.at = "resp"
  /\ burst_rvalid <=> rd.at = "data"
  /\ burst_rvalid => burst_rdata = expect /\ (rlast <=> rd.beat = rd.len)

------------------------------------------------------------------------------
\* The slaves of an AXI bus answer what they took once, with what was there
\* (AxiRegs, RegBlock, AxiBurst).
AnsweredOnce == LiteAnswersOnce /\ PairedOnce /\ BeatsInOrder
==============================================================================
