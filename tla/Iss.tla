-------------------------------- MODULE Iss --------------------------------
(***************************************************************************)
(* The instruction-set simulator and the platform experiments.             *)
(***************************************************************************)
EXTENDS Integers, SequencesExt

------------------------------------------------------------------------------
(***************************************************************************)
(* The instruction set simulator of cpu-model-isa-iss: a subset of RV32I,  *)
(* the encoders, the program that sums an array, and the counts which the  *)
(* performance model takes from the trace.  A machine word is the record   *)
(* of its fields; registers have XLEN bits, memory holds aligned words.    *)
(***************************************************************************)
CONSTANTS XLEN, DATA, RES,
          Arrays,        \* the arrays that are summed, none empty
          Others         \* further programs, sequences of instructions

VARIABLES arr, asm,      \* the array, and the program: sequence of instructions
          gpr, mem, iss_pc, done,
          n_instr, mix,  \* mix: per kind of instruction
          perf           \* CpiModel
iss_vars == <<arr, asm, gpr, mem, iss_pc, done, n_instr, mix, perf>>

Kinds == {"alu", "branch", "load", "store", "jump"}

\* The bits of x from lo on, n of them.
Bits(x, lo, n) == (x \div 2^lo) % 2^n

enc_R(f7, rs2, rs1, f3, rd, op) ==
  [f7 |-> f7, rs2 |-> rs2, rs1 |-> rs1, f3 |-> f3, rd |-> rd, op |-> op]
enc_I(imm, rs1, f3, rd, op) == enc_R(Bits(imm, 5, 7), Bits(imm, 0, 5), rs1, f3, rd, op)
enc_S(imm, rs2, rs1, f3) == enc_R(Bits(imm, 5, 7), rs2, rs1, f3, Bits(imm, 0, 5), "STORE")
enc_B(imm, rs2, rs1, f3) ==
  enc_R(64 * Bits(imm, 12, 1) + Bits(imm, 5, 6), rs2, rs1, f3,
        2 * Bits(imm, 1, 4) + Bits(imm, 11, 1), "BRANCH")
enc_J(imm, rd) ==
  enc_R(64 * Bits(imm, 20, 1) + Bits(imm, 5, 6), 2 * Bits(imm, 1, 4) + Bits(imm, 11, 1),
        Bits(imm, 15, 5), Bits(imm, 12, 3), rd, "JAL")
enc_LUI(imm, rd) ==
  enc_R(Bits(imm, 13, 7), Bits(imm, 8, 5), Bits(imm, 3, 5), Bits(imm, 0, 3), rd, "LUI")

\* The mnemonics: an instruction is [m, a, b, c], its operands in their order.
Assembled(i) ==
  CASE i.m = "ADD"  -> enc_R(0, i.c, i.b, 0, i.a, "RTYPE")
    [] i.m = "SUB"  -> enc_R(32, i.c, i.b, 0, i.a, "RTYPE")
    [] i.m = "ADDI" -> enc_I(i.c, i.b, 0, i.a, "ITYPE")
    [] i.m = "LUI"  -> enc_LUI(i.b, i.a)
    [] i.m = "LW"   -> enc_I(i.c, i.b, 2, i.a, "LOAD")
    [] i.m = "SW"   -> enc_S(i.c, i.a, i.b, 2)
    [] i.m = "BEQ"  -> enc_B(i.c, i.b, i.a, 0)
    [] i.m = "BNE"  -> enc_B(i.c, i.b, i.a, 1)
    [] i.m = "BLT"  -> enc_B(i.c, i.b, i.a, 4)
    [] i.m = "JAL"  -> enc_J(i.b, i.a)
    [] i.m = "EBREAK" -> enc_I(1, 0, 0, 0, "SYSTEM")

I(m, a, b, c) == [m |-> m, a |-> a, b |-> b, c |-> c]

\* The sum of an array of n words at DATA, written to RES.
buildProgram(n) ==
  << I("LUI", 5, DATA \div 4096, 0), I("ADDI", 6, 0, n), I("ADD", 7, 0, 0),
     I("LW", 9, 5, 0), I("ADD", 7, 7, 9), I("ADDI", 5, 5, 4), I("ADDI", 6, 6, -1), I("BNE", 6, 0, -16),
     I("ADDI", 8, 0, RES), I("SW", 7, 8, 0), I("EBREAK", 0, 0, 0) >>

Image == [a \in {4 * (k - 1) : k \in DOMAIN asm} |-> Assembled(asm[(a \div 4) + 1])]

IssInit ==
  /\ arr \in Arrays /\ asm \in {buildProgram(Len(arr))} \cup Others
  /\ gpr = [r \in 0..31 |-> 0]
  /\ mem = [a \in {RES} \cup {DATA + 4 * (k - 1) : k \in DOMAIN arr} |->
              IF a = RES THEN 0 ELSE arr[((a - DATA) \div 4) + 1]]
  /\ iss_pc = 0 /\ done = FALSE /\ n_instr = 0
  /\ mix = [k \in Kinds |-> 0]
  /\ perf = [n |-> 0, nBranch |-> 0, nLoad |-> 0, nStore |-> 0, nJump |-> 0, branchTaken |-> 0]

sext(v, bits) == IF v >= 2^(bits - 1) THEN v - 2^bits ELSE v
Word(v) == v % 2^XLEN
Signed(v) == sext(v, XLEN)

i_imm(w) == sext(w.rs2 + 32 * w.f7, 12)
s_imm(w) == sext(32 * w.f7 + w.rd, 12)

\* Mutant: the immediate's bit 11 is taken for bit 0.
b_imm_Bit0(w) ==
  sext(4096 * Bits(w.f7, 6, 1) + 32 * Bits(w.f7, 0, 6) + w.rd, 13)

b_imm(w) ==
  sext(4096 * Bits(w.f7, 6, 1) + 2048 * Bits(w.rd, 0, 1) + 32 * Bits(w.f7, 0, 6)
       + 2 * Bits(w.rd, 1, 4), 13)
j_imm(w) ==
  sext(2^20 * Bits(w.f7, 6, 1) + 4096 * (w.f3 + 8 * w.rs1) + 2048 * Bits(w.rs2, 0, 1)
       + 32 * Bits(w.f7, 0, 6) + 2 * Bits(w.rs2, 1, 4), 21)
u_imm(w) == w.f3 + 8 * w.rs1 + 256 * w.rs2 + 8192 * w.f7

\* Register 0 keeps its zero.
setX(r, v) == gpr' = IF r = 0 THEN gpr ELSE [gpr EXCEPT ![r] = Word(v)]

\* The trace, and what the performance model makes of it.
trace(kind, taken) ==
  /\ mix' = [mix EXCEPT ![kind] = @ + 1]
  /\ perf' = [perf EXCEPT !.n = @ + 1,
                !.nBranch = IF kind = "branch" THEN @ + 1 ELSE @,
                !.nLoad = IF kind = "load" THEN @ + 1 ELSE @,
                !.nStore = IF kind = "store" THEN @ + 1 ELSE @,
                !.nJump = IF kind = "jump" THEN @ + 1 ELSE @,
                !.branchTaken = IF kind = "branch" /\ taken THEN @ + 1 ELSE @]

Taken(w) == CASE w.f3 = 0 -> gpr[w.rs1] = gpr[w.rs2]
              [] w.f3 = 1 -> gpr[w.rs1] /= gpr[w.rs2]
              [] w.f3 = 4 -> Signed(gpr[w.rs1]) < Signed(gpr[w.rs2])
              [] OTHER -> FALSE

Compute(w) ==
  /\ w.op \in {"RTYPE", "ITYPE", "LUI"}
  /\ setX(w.rd, CASE w.op = "RTYPE" -> IF w.f7 = 32 THEN gpr[w.rs1] - gpr[w.rs2] ELSE gpr[w.rs1] + gpr[w.rs2]
                  [] w.op = "ITYPE" -> gpr[w.rs1] + i_imm(w)
                  [] w.op = "LUI"   -> 4096 * Bits(u_imm(w), 0, XLEN - 12))
  /\ trace("alu", FALSE) /\ iss_pc' = iss_pc + 4 /\ UNCHANGED <<mem, done>>

Load(w) ==
  /\ w.op = "LOAD" /\ setX(w.rd, mem[Word(gpr[w.rs1] + i_imm(w))])
  /\ trace("load", FALSE) /\ iss_pc' = iss_pc + 4 /\ UNCHANGED <<mem, done>>

Store(w) ==
  /\ w.op = "STORE" /\ mem' = [mem EXCEPT ![Word(gpr[w.rs1] + s_imm(w))] = gpr[w.rs2]]
  /\ trace("store", FALSE) /\ iss_pc' = iss_pc + 4 /\ UNCHANGED <<gpr, done>>

Branch(w) ==
  /\ w.op = "BRANCH" /\ iss_pc' = IF Taken(w) THEN iss_pc + b_imm(w) ELSE iss_pc + 4
  /\ trace("branch", Taken(w)) /\ UNCHANGED <<gpr, mem, done>>

Jump(w) ==
  /\ w.op = "JAL" /\ setX(w.rd, iss_pc + 4) /\ iss_pc' = iss_pc + j_imm(w)
  /\ trace("jump", FALSE) /\ UNCHANGED <<mem, done>>

\* EBREAK, and a word that is not implemented, which is not traced.
Halt(w) ==
  /\ w.op = "SYSTEM" /\ done' = TRUE
  /\ IF w = Assembled(I("EBREAK", 0, 0, 0)) THEN trace("alu", FALSE) ELSE UNCHANGED <<mix, perf>>
  /\ UNCHANGED <<gpr, mem, iss_pc>>

Step ==
  LET w == Image[iss_pc] IN
  /\ ~done /\ n_instr' = n_instr + 1
  /\ Compute(w) \/ Load(w) \/ Store(w) \/ Branch(w) \/ Jump(w) \/ Halt(w)
  /\ UNCHANGED <<arr, asm>>

IssNext == Step
IssSpec == IssInit /\ [][IssNext]_iss_vars

------------------------------------------------------------------------------
Sum[k \in 0..Len(arr)] == IF k = 0 THEN 0 ELSE Sum[k - 1] + arr[k]

\* The offset of a branch or jump, or the immediate, that the decoder finds is the
\* one assembled; register 0 is 0; model and trace count the same instructions;
\* and the program leaves the array's sum, after five instructions per element.
RunsWhatWasAssembled ==
  /\ \A k \in DOMAIN asm : LET i == asm[k] w == Assembled(i) IN
       /\ i.m \in {"BEQ", "BNE", "BLT"} => b_imm(w) = i.c
       /\ i.m = "JAL" => j_imm(w) = i.b
       /\ i.m \in {"ADDI", "LW"} => i_imm(w) = i.c
       /\ i.m = "SW" => s_imm(w) = i.c
       /\ i.m = "LUI" => u_imm(w) = i.b
  /\ gpr[0] = 0
  /\ perf.n = mix["alu"] + mix["branch"] + mix["load"] + mix["store"] + mix["jump"]
  /\ n_instr \in {perf.n, perf.n + 1}
  /\ asm = buildProgram(Len(arr)) /\ done =>
       /\ mem[RES] = Word(Sum[Len(arr)])
       /\ n_instr = 6 + 5 * Len(arr) /\ n_instr = perf.n
       /\ perf.branchTaken = Len(arr) - 1 /\ perf.nLoad = Len(arr)

------------------------------------------------------------------------------
(***************************************************************************)
(* cpu-model-sim-platform-lab: the golden model and the faulty device in   *)
(* lockstep (experiment 6), and the Pareto front of a design space (2).    *)
(* Immediates have IMM bits.                                               *)
(***************************************************************************)
CONSTANTS IMM, Regs,            \* Regs: registers, 0 among them
          Programs,             \* sequences of [rd, rs1, imm], imm as it is encoded
          Points                \* sets of designs [ipc, p]

VARIABLES prog, plat_pc, g, d, first,      \* first: -1, or the step of the first mismatch
          differed,                   \* history: steps after which register 1 differed
          pts, todo, front            \* the designs, those to be judged, the front
lockVars == <<prog, plat_pc, g, d, first, differed>>
dseVars == <<pts, todo, front>>
plat_vars == <<lockVars, dseVars>>

PlatInit ==
  /\ prog \in Programs /\ plat_pc = 0 /\ first = -1 /\ differed = {}
  /\ g = [r \in Regs |-> 0] /\ d = [r \in Regs |-> 0]
  /\ pts \in Points /\ todo = pts /\ front = <<>>

SignExt(imm) == IF imm >= 2^(IMM - 1) THEN imm - 2^IMM ELSE imm

\* addi, and register 0 is put back to 0.
addi(regs, in, imm) == [[regs EXCEPT ![in.rd] = regs[in.rs1] + imm] EXCEPT ![0] = 0]
golden_step(in) == addi(g, in, SignExt(in.imm))
dut_step(in) == addi(d, in, in.imm)

Mismatch(t) == IF first < 0 THEN t ELSE first

Lockstep ==
  LET in == prog[plat_pc + 1] IN
  /\ plat_pc < Len(prog) /\ plat_pc' = plat_pc + 1
  /\ g' = golden_step(in) /\ d' = dut_step(in)
  /\ first' = IF g'[1] /= d'[1] THEN Mismatch(plat_pc) ELSE first
  /\ differed' = IF g'[1] /= d'[1] THEN differed \cup {plat_pc} ELSE differed
  /\ UNCHANGED <<prog, dseVars>>

Dominates(a, b) == a.ipc >= b.ipc /\ a.p <= b.p /\ (a.ipc > b.ipc \/ a.p < b.p)

\* One point of the sweep is judged against all of them.
Judge(x) ==
  /\ x \in todo /\ todo' = todo \ {x}
  /\ front' = IF \E y \in pts : Dominates(y, x) THEN front ELSE Append(front, x)
  /\ UNCHANGED <<pts, lockVars>>

\* The front is sorted by power once every point was judged.
Sorted(s) == \A i, j \in DOMAIN s : i < j => s[i].p <= s[j].p
Sort ==
  /\ todo = {} /\ ~Sorted(front)
  /\ front' = SortSeq(front, LAMBDA a, b : a.p < b.p)
  /\ UNCHANGED <<pts, todo, lockVars>>

PlatNext == Lockstep \/ (\E x \in todo : Judge(x)) \/ Sort
PlatSpec == PlatInit /\ [][PlatNext]_plat_vars

------------------------------------------------------------------------------
\* The mismatch that is reported is the first, and comes no sooner than an immediate
\* that the two models read differently; and each design that is left out is beaten
\* by one on the front, where more power always buys more speed.
FirstMismatchAndFront ==
  /\ first = IF differed = {} THEN -1 ELSE Min(differed)
  /\ (\A k \in 1..plat_pc : prog[k].imm < 2^(IMM - 1)) => g = d
  /\ todo = {} => \A x \in pts : Contains(front, x) \/ \E i \in DOMAIN front : Dominates(front[i], x)
  /\ todo = {} /\ Sorted(front) =>
       \A i, j \in DOMAIN front : i < j /\ front[i].p < front[j].p => front[i].ipc < front[j].ipc
==============================================================================
