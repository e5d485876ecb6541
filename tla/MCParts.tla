------------------------------ MODULE MCParts ------------------------------
(***************************************************************************)
(* Small instances of the programs that have nothing to do with each other:*)
(* the parts of the editor, the processor and platform models, the circuits,*)
(* the load generators, the agent, and the small programs.  They are checked*)
(* together: a behaviour is one of the part it chose at the start, and the *)
(* variables of the other parts stay idle.                                 *)
(***************************************************************************)
EXTENDS TextBuffers, Mesi, Fifos, AxiSlaves, Programs

CONSTANT Chosen       \* the parts a run checks

idle == 0

------------------------------------------------------------------------------
(***************************************************************************)
(* Small instances of the parts of the editor in vim-cpp.                  *)
(***************************************************************************)
VARIABLES branches, subject, nfa, pos, cur, birth, hit, bestBirth, bestEnd, over
VARIABLES lines, toks, state
VARIABLES first, width_cache, unclean, prev, frame, row, framebuf, screen

nfaVars == <<branches, subject, nfa, pos, cur, birth, hit, bestBirth, bestEnd, over>>
markVars == <<lines, toks, state>>
drawVars == <<first, width_cache, unclean, prev, frame, row, framebuf, screen>>
vimVars == <<gap, editVars, unVars, mdVars, vwVars, nfaVars, markVars, exVars, fiVars,
             tmVars, drawVars>>

\* The texts a gap buffer is made with, and one without memory for the other parts.
SmallTexts == {<<>>, <<"a", "b">>}
NoMemory == Gapped(0, 0, 0, LAMBDA i : Junk)

Nfa == INSTANCE SearchNfa WITH
         Patterns <- BoundedSeq({"a", "b", ".", "*", "?", "|"}, 3) \cup
                     {<<"[", "a", "-", "b", "]", "+", "c">>, <<"[", "b", "-", "c", "-", "]", "b", "?">>,
                      <<"a", "*", "a", "*", "a", "*", "a", "b">>, <<"\\", ".", "a", "|", "a", "b", "+">>,
                      <<"a", "|", "a", "b", "|", "a", "b", "a">>, <<"[", "b", "c", "]", "*", "a", "?">>},
         Texts <- BoundedSeq({"a", "b"}, 4) \cup BoundedSeq({"a", "b", "c"}, 3), budget <- 10
Mark == INSTANCE Highlight WITH
          NumLines <- 3,
          LineTexts <- {<<>>, <<"w">>, <<"/", "*">>, <<"*", "/">>, <<"/", "/", "w">>,
                        <<"q", "/", "*", "q">>, <<"w", "/", "*", "w", "*", "/">>,
                        <<"q", "\\", "q", "w", "q">>, <<"/", "*", "/">>, <<"d", "*", "/", "w">>}
Draw0 == INSTANCE Render WITH OPT <- 0, ROWS <- 2, COLS <- 3, VIEW_TOP <- 1,
                              Widths <- <<1, 2, 5, 3>>, Letters <- 2, MaxFrames <- 5, dirty <- unclean
Draw3 == INSTANCE Render WITH OPT <- 3, ROWS <- 2, COLS <- 3, VIEW_TOP <- 1,
                              Widths <- <<1, 2, 5, 3>>, Letters <- 2, MaxFrames <- 5, dirty <- unclean
\* Values for the constants of the editor.
SmallTypings == {<<"a">>, <<"b", "a">>}
SmallContents == BoundedSeq({"x", "n"}, 4)
OneDocument ==
  {<< <<"x", "x", "x", "x", "x">>, <<"x">>, <<"tab", "x", "x">>, <<>>, <<"x", "tab", "x">> >>}
SmallMaps ==
  {[k \in {<<"q">>, <<"w">>} |-> IF k = <<"q">> THEN <<"w">> ELSE <<"w", "q">>],
   [k \in {<<"s">>, <<"e">>} |-> IF k = <<"s">> THEN <<"e">> ELSE <<"s">>]}

VimInit ==
  /\ IF part = "gap" THEN GapInit ELSE gap = NoMemory
  /\ EditInit
  /\ Undo!Init /\ Typed!ModeInit /\ Typed!ViewInit /\ Typed!TermInit
  /\ IF part = "search" THEN Nfa!Init
     ELSE /\ branches = idle /\ subject = idle /\ nfa = idle /\ pos = idle /\ cur = idle
          /\ birth = idle /\ hit = idle /\ bestBirth = idle /\ bestEnd = idle /\ over = idle
  /\ IF part = "highlight" THEN Mark!Init ELSE lines = idle /\ toks = idle /\ state = idle
  /\ Typed!ExInit /\ (part /= "ex" => ex_table = CHOOSE m \in Maps : TRUE)
  /\ File!Init /\ (part /= "file" => fi_data = <<>> /\ fi_before = Missing)
  /\ IF part \in {"draw0", "draw3"} THEN Draw3!Init
     ELSE /\ first = idle /\ width_cache = idle /\ unclean = idle /\ prev = idle /\ frame = idle
          /\ row = idle /\ framebuf = idle /\ screen = idle

VimNext ==
  /\ IF part = "gap" THEN GapNext ELSE UNCHANGED gap
  /\ IF part = "edit" THEN EditNext ELSE UNCHANGED editVars
  /\ IF part = "undo" THEN Undo!Next ELSE UNCHANGED unVars
  /\ IF part = "mode" THEN Typed!ModeNext ELSE UNCHANGED mdVars
  /\ IF part = "view" THEN Typed!ViewNext ELSE UNCHANGED vwVars
  /\ IF part = "search" THEN Nfa!Next ELSE UNCHANGED nfaVars
  /\ IF part = "highlight" THEN Mark!Next ELSE UNCHANGED markVars
  /\ IF part = "ex" THEN Typed!ExNext ELSE UNCHANGED exVars
  /\ IF part = "file" THEN File!Next ELSE UNCHANGED fiVars
  /\ IF part = "term" THEN Typed!TermNext ELSE UNCHANGED tmVars
  /\ CASE part = "draw0" -> Draw0!Next
       [] part = "draw3" -> Draw3!Next
       [] OTHER -> UNCHANGED drawVars

------------------------------------------------------------------------------
\* vc-08: a new edit leaves nothing to redo.
NewEditTruncates == [][part = "undo" /\ un_edits' = un_edits + 1 => un_redoStack' = <<>>]_unVars

\* vc-09: one pass of the automaton finds what the backtracker looks for.
LeftmostLongest == part = "search" => Nfa!LeftmostLongest

\* vc-01: "析构时无条件恢复" and main.cpp:7 "析构/atexit 双保险恢复": the program
\* leaves the terminal as it found it.
TerminalRestored == part = "term" => Typed!TerminalRestored

\* vc-02, vc-05, vc-06, vc-10, vc-12: what is kept beside the text agrees with the
\* text: the line index, of the text that is edited and of the file that is mapped, the
\* highlighting of a rescan that stops early, and the width and the frame of the
\* drawing loop.
CachesFresh ==
  /\ part = "file" => File!LoadersAgree
  /\ part = "edit" => LineIndex
  /\ part = "highlight" => Mark!HighlightFresh
  /\ part = "draw0" => Draw0!FrameFresh
  /\ part = "draw3" => Draw3!FrameFresh

------------------------------------------------------------------------------
(***************************************************************************)
(* Small instances of the processor, memory and platform models.           *)
(***************************************************************************)
Instructions == [k : {"ALU", "LOAD"}, d : {0, 1}, s1 : {0, 2}, s2 : {1, 2}, taken : {FALSE}]
                \cup [k : {"BRANCH"}, d : {2}, s1 : {0, 1}, s2 : {2}, taken : BOOLEAN]

\* A program with the jumps and branches that the summing program has not.
Ins(m, a, b, c) == [m |-> m, a |-> a, b |-> b, c |-> c]
Looping ==
  << Ins("ADDI", 1, 0, -3), Ins("JAL", 2, 8, 0), Ins("EBREAK", 0, 0, 0), Ins("SUB", 3, 0, 1),
     Ins("BLT", 1, 3, 8), Ins("EBREAK", 0, 0, 0), Ins("BEQ", 0, 3, -2732), Ins("LUI", 4, 1, 0),
     Ins("SW", 3, 4, 0), Ins("LW", 9, 4, 0), Ins("ADDI", 0, 0, 5), Ins("ADDI", 1, 1, 1),
     Ins("BNE", 1, 0, -4), Ins("JAL", 0, -44, 0) >>

\* Values for the constants of the models of memory and of transactions.
SmallConfigs ==
  {[ways |-> 1, sets |-> 2], [ways |-> 2, sets |-> 2], [ways |-> 2, sets |-> 1],
   [ways |-> 4, sets |-> 1]}
SmallPrefetchers ==
  [on : {TRUE}, deg : {1, 2}, dist : {0, 1}] \cup {[on |-> FALSE, deg |-> 1, dist |-> 0]}
TwoRoutes == <<[base |-> 0, span |-> 3, bytes |-> 3], [base |-> 5, span |-> 4, bytes |-> 4]>>

VARIABLES pl_prog, pl_next, pl_core
VARIABLES pd_pr, pd_pat, pd_at, pd_tab, pd_btb, pd_ghr, pd_correct
VARIABLES oo_run, oo_issued, oo_fin, oo_due, oo_nextIss, oo_cyc, oo_maxMem, oo_took
VARIABLES is_arr, is_asm, is_gpr, is_mem, is_pc, is_done, is_n_instr, is_mix, is_perf
VARIABLES pf_prog, pf_pc, pf_g, pf_d, pf_first, pf_differed, pf_pts, pf_todo, pf_front

plVars == <<pl_prog, pl_next, pl_core>>
pdVars == <<pd_pr, pd_pat, pd_at, pd_tab, pd_btb, pd_ghr, pd_correct>>
ooVars == <<oo_run, oo_issued, oo_fin, oo_due, oo_nextIss, oo_cyc, oo_maxMem, oo_took>>
isVars == <<is_arr, is_asm, is_gpr, is_mem, is_pc, is_done, is_n_instr, is_mix, is_perf>>
pfVars == <<pf_prog, pf_pc, pf_g, pf_d, pf_first, pf_differed, pf_pts, pf_todo, pf_front>>
cpuVars == <<plVars, pdVars, ooVars, lcVars, mesiVars, sbVars, dpVars, msVars, eqVars,
  chVars, trVars, amVars, isVars, pfVars>>

Core == INSTANCE Cores WITH
  prog <- pl_prog, next <- pl_next, core <- pl_core, Registers <- {0, 1}, NoReg <- 2,
  PipeConfigs <- [loadLat : {1, 3}, fwd : BOOLEAN, pen : {0, 2}],
  Programs <- BoundedSeq(Instructions, 3), pr <- pd_pr, pat <- pd_pat, at <- pd_at,
  tab <- pd_tab, btb <- pd_btb, ghr <- pd_ghr, correct <- pd_correct,
  Predictors <- [bits : {1, 2}, gshare : BOOLEAN, hlen : {1, 3}],
  Patterns <- BoundedSeq(BOOLEAN, 4) \ {<<>>}, MaxBranches <- 40, run <- oo_run,
  issued <- oo_issued, fin <- oo_fin, due <- oo_due, nextIss <- oo_nextIss, ooo_cyc <- oo_cyc,
  maxMem <- oo_maxMem, took <- oo_took, Chains <- 6, memLat <- 5,
  OooConfigs <- <<[window |-> 1, issueW |-> 1, ooo |-> FALSE], [window |-> 1, issueW |-> 1, ooo |-> TRUE],
    [window |-> 2, issueW |-> 2, ooo |-> FALSE], [window |-> 2, issueW |-> 2, ooo |-> TRUE],
    [window |-> 4, issueW |-> 2, ooo |-> TRUE], [window |-> 8, issueW |-> 2, ooo |-> TRUE]>>
Sim == INSTANCE Iss WITH
  arr <- is_arr, asm <- is_asm, gpr <- is_gpr, mem <- is_mem, iss_pc <- is_pc, done <- is_done,
  n_instr <- is_n_instr, mix <- is_mix, perf <- is_perf, XLEN <- 14, DATA <- 4096, RES <- 128,
  Arrays <- BoundedSeq({0, 7, 16383}, 4) \ {<<>>}, Others <- {Looping}, prog <- pf_prog,
  plat_pc <- pf_pc, g <- pf_g, d <- pf_d, first <- pf_first, differed <- pf_differed,
  pts <- pf_pts, todo <- pf_todo, front <- pf_front, IMM <- 3, Regs <- 0..2,
  Programs <- BoundedSeq([rd : {0, 1, 2}, rs1 : {1, 2}, imm : {1, 7}], 2),
  Points <- {{[ipc |-> 1, p |-> 2], [ipc |-> 2, p |-> 1], [ipc |-> 3, p |-> 3], [ipc |-> 2, p |-> 2]},
    {[ipc |-> 3, p |-> 3], [ipc |-> 1, p |-> 1], [ipc |-> 2, p |-> 2]}}

CpuInit ==
  /\ IF part = "pipeline" THEN Core!PipeInit
     ELSE pl_prog = idle /\ pl_next = idle /\ pl_core = idle
  /\ IF part = "predict" THEN Core!PredInit
     ELSE /\ pd_pr = idle /\ pd_pat = idle /\ pd_at = idle /\ pd_tab = idle /\ pd_btb = idle
          /\ pd_ghr = idle /\ pd_correct = idle
  /\ IF part = "window" THEN Core!OooInit
     ELSE /\ oo_run = idle /\ oo_issued = idle /\ oo_fin = idle /\ oo_due = idle
          /\ oo_nextIss = idle /\ oo_cyc = idle /\ oo_maxMem = idle /\ oo_took = idle
  /\ IF part = "cache" THEN Mem!LruInit
     ELSE lc_cache = idle /\ lc_seen = idle /\ lc_recent = idle
  /\ MesiInit
  /\ IF part = "stores" THEN Mem!StoInit
     ELSE sb_i = idle /\ sb_core = idle
  /\ IF part = "dram" THEN Mem!DramInit
     ELSE /\ dp_pf = idle /\ dp_lastAddr = idle /\ dp_lastDelta = idle /\ dp_armed = idle
          /\ dp_inCache = idle /\ dp_pfIssued = idle /\ dp_pfUseful = idle /\ dp_open = idle
          /\ dp_cyc = idle /\ dp_busBusyUntil = idle /\ dp_rowHit = idle /\ dp_rowMiss = idle
          /\ dp_demands = idle
  /\ IF part = "mesh" THEN Mem!NetInit
     ELSE /\ ms_load = idle /\ ms_b = idle /\ ms_at = idle /\ ms_dst = idle /\ ms_from = idle
          /\ ms_sent = idle /\ ms_turned = idle
  /\ IF part = "events" THEN Plat!EvqInit
     ELSE /\ eq_q = idle /\ eq_now = idle /\ eq_delta = idle /\ eq_eval_calls = idle
          /\ eq_delta_cycles = idle /\ eq_jobs = idle /\ eq_stamps = idle /\ eq_last = idle
          /\ eq_over = idle
  /\ IF part = "channels" THEN Plat!ChanInit
     ELSE /\ ch_drivers = idle /\ ch_cur = idle /\ ch_q = idle /\ ch_blocked_w = idle
          /\ ch_blocked_r = idle /\ ch_u = idle /\ ch_s = idle /\ ch_lines = idle
          /\ ch_steps = idle /\ ch_since = idle /\ ch_driven = idle /\ ch_written = idle
          /\ ch_taken = idle /\ ch_total = idle /\ ch_wave = idle
  /\ IF part = "transport" THEN Plat!TranInit
     ELSE /\ tr_phase = idle /\ tr_peq = idle /\ tr_phase_events = idle /\ tr_fw = idle
          /\ tr_bw = idle /\ tr_latency = idle /\ tr_completed = idle /\ tr_global = idle /\ tr_local = idle
          /\ tr_syncs = idle /\ tr_xfers = idle
  /\ IF part = "address" THEN Plat!AddrInit
     ELSE /\ am_m = idle /\ am_dmi_valid = idle /\ am_p = idle /\ am_sent = idle
          /\ am_wrote = idle /\ am_calls = idle
  /\ IF part = "iss" THEN Sim!IssInit
     ELSE /\ is_arr = idle /\ is_asm = idle /\ is_gpr = idle /\ is_mem = idle /\ is_pc = idle
          /\ is_done = idle /\ is_n_instr = idle /\ is_mix = idle /\ is_perf = idle
  /\ IF part = "platform" THEN Sim!PlatInit
     ELSE /\ pf_prog = idle /\ pf_pc = idle /\ pf_g = idle /\ pf_d = idle /\ pf_first = idle
          /\ pf_differed = idle /\ pf_pts = idle /\ pf_todo = idle /\ pf_front = idle

CpuNext ==
  /\ IF part = "pipeline" THEN Core!PipeNext ELSE UNCHANGED plVars
  /\ IF part = "predict" THEN Core!PredNext ELSE UNCHANGED pdVars
  /\ IF part = "window" THEN Core!OooNext ELSE UNCHANGED ooVars
  /\ IF part = "cache" THEN Mem!LruNext ELSE UNCHANGED lcVars
  /\ IF part = "mesi" THEN MesiNext ELSE UNCHANGED mesiVars
  /\ IF part = "stores" THEN Mem!StoNext ELSE UNCHANGED sbVars
  /\ IF part = "dram" THEN Mem!DramNext ELSE UNCHANGED dpVars
  /\ IF part = "mesh" THEN Mem!NetNext ELSE UNCHANGED msVars
  /\ IF part = "events" THEN Plat!EvqNext ELSE UNCHANGED eqVars
  /\ IF part = "channels" THEN Plat!ChanNext ELSE UNCHANGED chVars
  /\ IF part = "transport" THEN Plat!TranNext ELSE UNCHANGED trVars
  /\ IF part = "address" THEN Plat!AddrNext ELSE UNCHANGED amVars
  /\ IF part = "iss" THEN Sim!IssNext ELSE UNCHANGED isVars
  /\ IF part = "platform" THEN Sim!PlatNext ELSE UNCHANGED pfVars

------------------------------------------------------------------------------
\* core-mem-lab 1 to 3: stalls account for the cycles, a history is learnt, and a
\* wider window is not slower.
CoresAddUp ==
  /\ part = "pipeline" => Core!StallsExplainCycles
  /\ part = "predict" => Core!HistoryLearns
  /\ part = "window" => Core!WindowHelps

\* isa-iss, sim-platform-lab 2, 6: what is assembled is what is run; lockstep
\* reports the first mismatch and the front beats what it leaves out.
RunsWhatWasAssembled ==
  /\ part = "iss" => Sim!RunsWhatWasAssembled
  /\ part = "platform" => Sim!FirstMismatchAndFront

------------------------------------------------------------------------------
(***************************************************************************)
(* Small instances of the FIFOs, arbiters and bus slaves in Verilog.       *)
(***************************************************************************)
hwVars == <<sync_vars, async_vars, arb_vars, lite_vars, block_vars, burst_vars>>
SmallDesigns ==
  {[kind |-> "count", depth |-> 3], [kind |-> "ptr", depth |-> 4],
   [kind |-> "kit", depth |-> 4], [kind |-> "stage", depth |-> 1]}

HwInit ==
  /\ SyncInit /\ (part /= "syncfifo" => fifo = [kind |-> "count", depth |-> 3])
  /\ AsyncInit
  /\ ArbInit /\ (part /= "arbiter" => kind = "rr")
  /\ LiteInit /\ BlockInit /\ BurstInit

HwNext ==
  /\ IF part = "syncfifo" THEN SyncNext ELSE UNCHANGED sync_vars
  /\ IF part = "asyncfifo" THEN AsyncNext ELSE UNCHANGED async_vars
  /\ IF part = "arbiter" THEN ArbNext ELSE UNCHANGED arb_vars
  /\ IF part = "axilite" THEN LiteNext ELSE UNCHANGED lite_vars
  /\ IF part = "regblock" THEN BlockNext ELSE UNCHANGED block_vars
  /\ IF part = "axi4" THEN BurstNext ELSE UNCHANGED burst_vars

------------------------------------------------------------------------------
(***************************************************************************)
(* Small instances of the load generators, the demos of threads and signals, *)
(* and the practice programs.                                              *)
(***************************************************************************)
VARIABLES sm_students, sm_count, sm_DB_FILE, sm_saving, sm_ops, sm_want, sm_kept, sm_torn
VARIABLES ll_lang, ll_head, ll_heap, ll_at, ll_p, ll_next, ll_depth, ll_ops, ll_want
VARIABLES rb_prog, rb_rows, rb_choice, rb_bad, rb_shown, rb_ops, rb_added
VARIABLES ca_expr, ca_step, ca_output, ca_result
VARIABLES so_sort, so_input, so_n, so_a, so_i, so_j, so_min_idx, so_key
VARIABLES ct_args, ct_i, ct_verbose, ct_count, ct_files, ct_out
VARIABLES wc_text, wc_c, wc_chars, wc_lines, wc_words, wc_in_word, wc_freq, wc_top_n, wc_items

smVars == <<sm_students, sm_count, sm_DB_FILE, sm_saving, sm_ops, sm_want, sm_kept, sm_torn>>
llVars == <<ll_lang, ll_head, ll_heap, ll_at, ll_p, ll_next, ll_depth, ll_ops, ll_want>>
rbVars == <<rb_prog, rb_rows, rb_choice, rb_bad, rb_shown, rb_ops, rb_added>>
caVars == <<ca_expr, ca_step, ca_output, ca_result>>
soVars == <<so_sort, so_input, so_n, so_a, so_i, so_j, so_min_idx, so_key>>
ctVars == <<ct_args, ct_i, ct_verbose, ct_count, ct_files, ct_out>>
wcVars == <<wc_text, wc_c, wc_chars, wc_lines, wc_words, wc_in_word, wc_freq, wc_top_n,
            wc_items>>
labVars == <<kpVars, blVars, tdVars, ppVars, sdVars, rtVars, smVars, llVars, rbVars,
  caVars, soVars, ctVars, wcVars, lqVars, wkVars, agVars, diVars>>

\* The batches a model may ask for, of a tool that reads, one that edits and none there is.
SmallBatches == BoundedSeq({"read_file", "edit_file", "unknown"}, 2)

Rec == INSTANCE Records WITH
  students <- sm_students, count <- sm_count, DB_FILE <- sm_DB_FILE, saving <- sm_saving,
  stu_ops <- sm_ops, stu_want <- sm_want, kept <- sm_kept, torn <- sm_torn, MAX <- 2,
  Ids <- {1, 2}, Scores <- {8561, 9250}, StuMaxOps <- 6, lang <- ll_lang, head <- ll_head,
  heap <- ll_heap, at <- ll_at, p <- ll_p, next <- ll_next, depth <- ll_depth,
  list_ops <- ll_ops, list_want <- ll_want, Nodes <- {1, 2, 3}, Values <- {1, 2},
  ListMaxOps <- 5, prog <- rb_prog, rows <- rb_rows, choice <- rb_choice, bad <- rb_bad,
  shown <- rb_shown, book_ops <- rb_ops, added <- rb_added, Titles <- {"t", "u"},
  Keys <- {100, 180, 270}, BookMaxOps <- 4
Exer == INSTANCE Exercises WITH
  expr <- ca_expr, step <- ca_step, output <- ca_output, result <- ca_result, Numbers <- {0, 3},
  CalcLength <- 5, sort <- so_sort, input <- so_input, sort_n <- so_n, sort_a <- so_a,
  sort_i <- so_i, sort_j <- so_j, min_idx <- so_min_idx, key <- so_key, SortValues <- {0, 1, 2},
  SortLength <- 5, args <- ct_args, cli_i <- ct_i, verbose <- ct_verbose, count <- ct_count,
  files <- ct_files, out <- ct_out, CliLength <- 4, text <- wc_text, word_c <- wc_c,
  chars <- wc_chars, lines <- wc_lines, words <- wc_words, in_word <- wc_in_word,
  freq <- wc_freq, top_n <- wc_top_n, items <- wc_items, WordLength <- 4

LabInit ==
  /\ IF part = "kp" THEN Load!KpInit
     ELSE /\ kp_mode = idle /\ kp_created = idle /\ kp_g_ready = idle /\ kp_at = idle
          /\ kp_r = idle /\ kp_got = idle /\ kp_failures = idle /\ kp_g_lat_us = idle
          /\ kp_line = idle /\ kp_echo = idle /\ kp_whole = idle /\ kp_joined = idle
          /\ kp_killed = idle
  /\ IF part = "blocking" THEN Load!BlkInit
     ELSE /\ bl_backlog = idle /\ bl_serving = idle /\ bl_n = idle /\ bl_alive = idle
          /\ bl_at = idle /\ bl_line = idle /\ bl_up = idle /\ bl_down = idle
          /\ bl_fin = idle /\ bl_total = idle /\ bl_sent = idle /\ bl_lats = idle
          /\ bl_runs = idle
  /\ IF part = "threads" THEN Lab!ThrInit
     ELSE /\ td_demo = idle /\ td_stop = idle /\ td_ops = idle /\ td_holder = idle
          /\ td_at = idle /\ td_reg = idle /\ td_left = idle /\ td_did = idle
          /\ td_joined = idle /\ td_destroyed = idle
  /\ Wait!PingInit /\ (part /= "pingpong" => pp_way = "busy")
  /\ Sig!Init /\ (part /= "signals" => sd_prog = "sfd")
  /\ Wait!TimedInit /\ Lkq!Init /\ Agt!Init
  /\ IF part = "students" THEN Rec!StuInit
     ELSE /\ sm_students = idle /\ sm_count = idle /\ sm_DB_FILE = idle /\ sm_saving = idle
          /\ sm_ops = idle /\ sm_want = idle /\ sm_kept = idle /\ sm_torn = idle
  /\ IF part = "lists" THEN Rec!ListInit
     ELSE /\ ll_lang = idle /\ ll_head = idle /\ ll_heap = idle /\ ll_at = idle
          /\ ll_p = idle /\ ll_next = idle /\ ll_depth = idle /\ ll_ops = idle
          /\ ll_want = idle
  /\ IF part = "books" THEN Rec!BookInit
     ELSE /\ rb_prog = idle /\ rb_rows = idle /\ rb_choice = idle /\ rb_bad = idle
          /\ rb_shown = idle /\ rb_ops = idle /\ rb_added = idle
  /\ IF part = "calculator" THEN Exer!CalcInit
     ELSE ca_expr = idle /\ ca_step = idle /\ ca_output = idle /\ ca_result = idle
  /\ IF part = "sorting" THEN Exer!SortInit
     ELSE /\ so_sort = idle /\ so_input = idle /\ so_n = idle /\ so_a = idle /\ so_i = idle
          /\ so_j = idle /\ so_min_idx = idle /\ so_key = idle
  /\ IF part = "options" THEN Exer!CliInit
     ELSE /\ ct_args = idle /\ ct_i = idle /\ ct_verbose = idle /\ ct_count = idle
          /\ ct_files = idle /\ ct_out = idle
  /\ IF part = "words" THEN Exer!WordInit
     ELSE /\ wc_text = idle /\ wc_c = idle /\ wc_chars = idle /\ wc_lines = idle
          /\ wc_words = idle /\ wc_in_word = idle /\ wc_freq = idle /\ wc_top_n = idle
          /\ wc_items = idle
  /\ IF part = "walks" THEN Lab!WalkInit
     ELSE /\ wk_walk = idle /\ wk_D = idle /\ wk_a = idle /\ wk_i = idle /\ wk_r = idle
          /\ wk_at = idle /\ wk_sum = idle /\ wk_sink = idle /\ wk_l1_cliff_idx = idle
          /\ wk_l2_cliff_idx = idle
  /\ IF part = "dispatch" THEN Lab!DispInit
     ELSE /\ di_mode = idle /\ di_ops = idle /\ di_alive = idle /\ di_phase = idle
          /\ di_r = idle /\ di_sum = idle /\ di_times = idle /\ di_median = idle

LabNext ==
  /\ IF part = "kp" THEN Load!KpNext ELSE UNCHANGED kpVars
  /\ IF part = "blocking" THEN Load!BlkNext ELSE UNCHANGED blVars
  /\ IF part = "threads" THEN Lab!ThrNext ELSE UNCHANGED tdVars
  /\ IF part = "pingpong" THEN Wait!PingNext ELSE UNCHANGED ppVars
  /\ IF part = "signals" THEN Sig!Next ELSE UNCHANGED sdVars
  /\ IF part = "timeout" THEN Wait!TimedNext ELSE UNCHANGED rtVars
  /\ IF part = "students" THEN Rec!StuNext ELSE UNCHANGED smVars
  /\ IF part = "lists" THEN Rec!ListNext ELSE UNCHANGED llVars
  /\ IF part = "books" THEN Rec!BookNext ELSE UNCHANGED rbVars
  /\ IF part = "calculator" THEN Exer!CalcNext ELSE UNCHANGED caVars
  /\ IF part = "sorting" THEN Exer!SortNext ELSE UNCHANGED soVars
  /\ IF part = "options" THEN Exer!CliNext ELSE UNCHANGED ctVars
  /\ IF part = "words" THEN Exer!WordNext ELSE UNCHANGED wcVars
  /\ IF part = "locked" THEN Lkq!Next ELSE UNCHANGED lqVars
  /\ IF part = "walks" THEN Lab!WalkNext ELSE UNCHANGED wkVars
  /\ IF part = "agent" THEN Agt!Next ELSE UNCHANGED agVars
  /\ IF part = "dispatch" THEN Lab!DispNext ELSE UNCHANGED diVars

------------------------------------------------------------------------------
\* The practice programs keep what they were given and compute what a definition
\* without steps says: the tables of records through saves, crashes and sorts
\* (StudentMgmt, RecordBooks), linked lists (LinkedLists), expressions, sorts,
\* command lines and texts (Calculator, Sorting, CliTool, WordCount).
ResultsKept ==
  /\ part = "students" => Rec!TableKept
  /\ part = "lists" => Rec!ListKept
  /\ part = "books" => Rec!ShelfKept
  /\ part = "calculator" => Exer!ValueKept
  /\ part = "sorting" => Exer!ArrayKept
  /\ part = "options" => Exer!LineKept
  /\ part = "words" => Exer!TextKept

------------------------------------------------------------------------------
vars == <<part, vimVars, cpuVars, hwVars, labVars>>

Init == part \in Chosen /\ VimInit /\ CpuInit /\ HwInit /\ LabInit
Next == UNCHANGED part /\ VimNext /\ CpuNext /\ HwNext /\ LabNext
Spec == Init /\ [][Next]_vars
==============================================================================
