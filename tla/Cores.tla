-------------------------------- MODULE Cores --------------------------------
(***************************************************************************)
(* The cores of cpu-model-core-mem-lab: pipeline, predictors, window.      *)
(***************************************************************************)
EXTENDS Integers, SequencesExt

------------------------------------------------------------------------------
(***************************************************************************)
(* The in-order scoreboard of cpu-model-core-mem-lab (experiment 1).  One  *)
(* program is run under several configurations, which are independent; a   *)
(* step issues its next instruction in all of them.                        *)
(***************************************************************************)
CONSTANTS Programs,     \* sequences of instructions [k, d, s1, s2, taken]
          Registers, NoReg,
          PipeConfigs       \* [loadLat, fwd, pen]

VARIABLES prog, next, core   \* the program, its next instruction, a core per configuration
pipe_vars == <<prog, next, core>>

PipeInit ==
  /\ prog \in Programs /\ next = 1
  /\ core = [c \in PipeConfigs |-> [cyc |-> 0, raw |-> 0, str |-> 0, ctrl |-> 0, loadFree |-> 0,
                                    ready |-> [r \in Registers |-> 0]]]

Max2(m, n) == IF m > n THEN m ELSE n

\* When the result of an instruction that issued in the cycle before cyc can be used.
Available(c, cyc, in) ==
  LET val == IF in.k = "LOAD" THEN cyc + c.loadLat - 1 ELSE cyc
  IN  IF c.fwd THEN val ELSE val + 1

\* One turn of sim: the load port, then the operands, then the branch penalty.
Issued(c, s, in) ==
  LET port == IF in.k = "LOAD" THEN Max2(s.cyc, s.loadFree) ELSE s.cyc
      Operand(r) == IF r = NoReg THEN 0 ELSE s.ready[r]
      issue == Max2(port, Max2(Operand(in.s1), Operand(in.s2)))
      pen == IF in.k = "BRANCH" /\ in.taken THEN c.pen ELSE 0
  IN  [cyc |-> issue + 1 + pen,
       raw |-> s.raw + issue - port, str |-> s.str + port - s.cyc, ctrl |-> s.ctrl + pen,
       loadFree |-> IF in.k = "LOAD" THEN port + 1 ELSE s.loadFree,
       ready |-> IF in.d = NoReg THEN s.ready
                 ELSE [s.ready EXCEPT ![in.d] = Available(c, issue + 1, in)]]

Issue ==
  /\ next <= Len(prog) /\ next' = next + 1
  /\ core' = [c \in PipeConfigs |-> Issued(c, core[c], prog[next])]
  /\ UNCHANGED prog

PipeNext == Issue
PipeSpec == PipeInit /\ [][PipeNext]_pipe_vars

------------------------------------------------------------------------------
\* Every cycle is an instruction's or is charged to one cause, the load port is
\* never that cause, and a core with the bypass, a shorter latency or a smaller
\* penalty is at no point behind one without.
StallsExplainCycles ==
  /\ \A c \in PipeConfigs : LET s == core[c] IN s.cyc = next - 1 + s.raw + s.str + s.ctrl /\ s.str = 0
  /\ \A c, d \in PipeConfigs :
       (d.fwd => c.fwd) /\ c.loadLat <= d.loadLat /\ c.pen <= d.pen => core[c].cyc <= core[d].cyc

------------------------------------------------------------------------------
(***************************************************************************)
(* The branch predictors of cpu-model-core-mem-lab (experiment 2) on their *)
(* synthetic stream: one branch whose outcomes repeat a pattern, so that a *)
(* table index is what idx makes of the history.                           *)
(***************************************************************************)
CONSTANTS Predictors,   \* [bits, gshare, hlen]
          Patterns,     \* sequences of outcomes
          MaxBranches   \* bound: the length of the stream

VARIABLES pr, pat, at,              \* predictor, pattern, branches seen
          tab, btb, ghr, correct    \* correct: the last prediction
pred_vars == <<pr, pat, at, tab, btb, ghr, correct>>

Histories == 0..(2^pr.hlen - 1)

PredInit ==
  /\ pr \in Predictors /\ pat \in Patterns /\ at = 0
  /\ tab = [i \in Histories |-> 2^(pr.bits - 1) - 1]
  /\ btb = [i \in Histories |-> FALSE]
  /\ ghr = 0 /\ correct = TRUE

taken == pat[(at % Len(pat)) + 1]
idx(history) == IF pr.gshare THEN history ELSE 0
predict == btb[idx(ghr)] /\ tab[idx(ghr)] >= 2^(pr.bits - 1)

\* The history register with one more outcome.
Shifted(history) == (2 * history + (IF taken THEN 1 ELSE 0)) % 2^pr.hlen

\* Mutant: the history is shifted before the counter is found.
update_ShiftsFirst ==
  LET i == idx(Shifted(ghr))
      v == IF taken THEN tab[i] + 1 ELSE tab[i] - 1
  IN  /\ btb' = [btb EXCEPT ![i] = TRUE]
      /\ tab' = [tab EXCEPT ![i] = IF v < 0 THEN 0 ELSE IF v > 2^pr.bits - 1 THEN 2^pr.bits - 1 ELSE v]
      /\ ghr' = Shifted(ghr)

update ==
  LET i == idx(ghr)
      v == IF taken THEN tab[i] + 1 ELSE tab[i] - 1
  IN  /\ btb' = [btb EXCEPT ![i] = TRUE]
      /\ tab' = [tab EXCEPT ![i] = IF v < 0 THEN 0 ELSE IF v > 2^pr.bits - 1 THEN 2^pr.bits - 1 ELSE v]
      /\ ghr' = Shifted(ghr)

Branch ==
  /\ at < MaxBranches /\ at' = at + 1
  /\ correct' = (predict = taken)
  /\ update
  /\ UNCHANGED <<pr, pat>>

PredNext == Branch
PredSpec == PredInit /\ [][PredNext]_pred_vars

------------------------------------------------------------------------------
Warm == pr.hlen + Len(pat) * 2^pr.bits
Before(i, k) == pat[((i - k + pr.hlen * Len(pat)) % Len(pat)) + 1]
LastTaken == pat[((at - 1) % Len(pat)) + 1]

\* The history tells the positions of the pattern apart.
Separates ==
  \A i, j \in 0..(Len(pat) - 1) :
    (\A k \in 1..pr.hlen : Before(i, k) = Before(j, k)) => pat[i + 1] = pat[j + 1]

\* Once it has seen the pattern often enough, gshare with a history that tells its
\* positions apart is never wrong again, and a two-bit counter is wrong exactly
\* at the one position of TTTN that is not taken.
HistoryLearns ==
  at > Warm =>
    /\ pr.gshare /\ Separates => correct
    /\ ~pr.gshare /\ pr.bits = 2 /\ pat = <<TRUE, TRUE, TRUE, FALSE>> => correct = LastTaken

------------------------------------------------------------------------------
(***************************************************************************)
(* The out-of-order core of cpu-model-core-mem-lab (experiment 3): chains  *)
(* of a load and an operation on it, a window, and an issue width.  The    *)
(* configurations are independent; a step is a cycle of one of them, and a *)
(* configuration runs to its end before the next one is begun.             *)
(***************************************************************************)
CONSTANTS Chains, memLat,
          OooConfigs       \* a sequence of [window, issueW, ooo]

Ops == 0..(2 * Chains - 1)            \* a load is even, the operation on it follows
IsLoad(j) == j % 2 = 0

VARIABLES run,                        \* the configuration that is running
          issued, fin, due, nextIss, ooo_cyc, maxMem,
          took                        \* the cycles of those that have ended
ooo_vars == <<run, issued, fin, due, nextIss, ooo_cyc, maxMem, took>>

Fresh == /\ issued = {} /\ fin = {} /\ due = [j \in Ops |-> 0]
         /\ nextIss = 0 /\ ooo_cyc = 0 /\ maxMem = 0
OooInit == run = 1 /\ Fresh /\ took = <<>>

conf == OooConfigs[run]

Ready(j, done) == IsLoad(j) \/ j - 1 \in done

\* One scan of the window from nextIss on: f.stop is the break, a skipped
\* operation is the continue.
Scan(done) ==
  LET Visit(f, j) ==
        IF f.stop \/ f.slots = 0 \/ j \in f.issued THEN f
        ELSE IF ~conf.ooo /\ (j /= nextIss \/ ~Ready(j, done)) THEN [f EXCEPT !.stop = TRUE]
        ELSE IF ~Ready(j, done) THEN f
        ELSE IF Cardinality(f.issued \ done) >= conf.window THEN [f EXCEPT !.stop = TRUE]
        ELSE [f EXCEPT !.issued = @ \cup {j}, !.slots = @ - 1,
                       !.due[j] = ooo_cyc + (IF IsLoad(j) THEN memLat ELSE 1)]
  IN  FoldLeft(Visit, [issued |-> issued, slots |-> conf.issueW, due |-> due, stop |-> FALSE],
               [k \in 1..(2 * Chains - nextIss) |-> nextIss + k - 1])

Cycle ==
  LET done == fin \cup {j \in issued : due[j] <= ooo_cyc}
      f == Scan(done)
      loads == Cardinality({j \in f.issued \ done : IsLoad(j)})
  IN  /\ run <= Len(OooConfigs) /\ fin /= Ops
      /\ fin' = done /\ issued' = f.issued /\ due' = f.due
      /\ nextIss' = Min({j \in Ops : j \notin f.issued} \cup {2 * Chains})
      /\ maxMem' = Max({maxMem, loads})
      /\ ooo_cyc' = ooo_cyc + 1
      /\ UNCHANGED <<run, took>>

\* sim returns; the next configuration starts afresh.
Return ==
  /\ run <= Len(OooConfigs) /\ fin = Ops
  /\ took' = Append(took, [cyc |-> ooo_cyc, maxMem |-> maxMem]) /\ run' = run + 1
  /\ issued' = {} /\ fin' = {} /\ due' = [j \in Ops |-> 0]
  /\ nextIss' = 0 /\ ooo_cyc' = 0 /\ maxMem' = 0

OooNext == Cycle \/ Return
OooSpec == OooInit /\ [][OooNext]_ooo_vars

------------------------------------------------------------------------------
\* The window is never exceeded and no operation is issued before the load it
\* works on is back; no configuration takes longer than one operation at a time
\* would; and a wider window, with the same width, is not slower and keeps at
\* least as many loads in flight.
WindowHelps ==
  /\ run <= Len(OooConfigs) =>
       /\ Cardinality(issued \ fin) <= conf.window
       /\ \A j \in issued : IsLoad(j) \/ due[j] > due[j - 1]
       /\ ooo_cyc <= Chains * (memLat + 2) + 1
  /\ \A a, b \in DOMAIN took :
       OooConfigs[a].ooo /\ OooConfigs[b].ooo /\ OooConfigs[a].issueW = OooConfigs[b].issueW
       /\ OooConfigs[a].window <= OooConfigs[b].window
         => took[b].cyc <= took[a].cyc /\ took[b].maxMem >= took[a].maxMem
==============================================================================
