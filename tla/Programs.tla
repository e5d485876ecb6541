------------------------------ MODULE Programs ------------------------------
(***************************************************************************)
(* Programs side by side, each with variables of its own: those whose      *)
(* parties take turns at one thing, two threads at a flag and a read at    *)
(* its alarm (Waits), a producer and a consumer at a mutex (LockQueue), a  *)
(* loop at its signals (SignalDemos), the calls of a batch at the history  *)
(* they are answered in (AgentLoop); the parts of the editor that follow   *)
(* its keys and commands (Input), undo (UndoRedo) and save (FileIO); the   *)
(* models of memory (Memory) and of transactions (Tlm); and the programs   *)
(* that count, load generators (LoadGenerators) and labs (PerfLabs).       *)
(***************************************************************************)
EXTENDS Integers, Sequences, FiniteSets

VARIABLE part      \* which of them a behaviour is one of

CONSTANTS ITERATIONS, Items, MaxSent, Batches, max_steps

ASSUME TurnsAssumption ==
  /\ ITERATIONS \in Nat \ {0} /\ Items \in Nat
  /\ Batches \subseteq Seq(STRING) /\ max_steps \in Nat \ {0}

VARIABLES pp_way, pp_flag, pp_mtx, pp_waiting, pp_at, pp_turns
VARIABLES rt_step, rt_alarm, rt_input, rt_result, rt_rang
VARIABLES lq_mtx_, lq_q_, lq_at, lq_i, lq_got, lq_taken
VARIABLES sd_prog, sd_at, sd_thread, sd_mask, sd_pending, sd_reload_config, sd_reloads, sd_sent,
          sd_due, sd_taken, sd_hups, sd_served, sd_killed
VARIABLES ag_pc, ag_step, ag_messages, ag_calls, ag_results, ag_file

ppVars == <<pp_way, pp_flag, pp_mtx, pp_waiting, pp_at, pp_turns>>
rtVars == <<rt_step, rt_alarm, rt_input, rt_result, rt_rang>>
lqVars == <<lq_mtx_, lq_q_, lq_at, lq_i, lq_got, lq_taken>>
sdVars == <<sd_prog, sd_at, sd_thread, sd_mask, sd_pending, sd_reload_config, sd_reloads,
            sd_sent, sd_due, sd_taken, sd_hups, sd_served, sd_killed>>
agVars == <<ag_pc, ag_step, ag_messages, ag_calls, ag_results, ag_file>>

Wait == INSTANCE Waits WITH
  way <- pp_way, flag <- pp_flag, mtx <- pp_mtx, waiting <- pp_waiting, at <- pp_at,
  turns <- pp_turns, step <- rt_step, alarm <- rt_alarm, input <- rt_input, result <- rt_result,
  rang <- rt_rang
Lkq == INSTANCE LockQueue WITH
  mtx_ <- lq_mtx_, q_ <- lq_q_, at <- lq_at, i <- lq_i, got <- lq_got, taken <- lq_taken,
  N <- Items
Sig == INSTANCE SignalDemos WITH
  prog <- sd_prog, at <- sd_at, thread <- sd_thread, mask <- sd_mask, pending <- sd_pending,
  reload_config <- sd_reload_config, reloads <- sd_reloads, sent <- sd_sent, due <- sd_due,
  taken <- sd_taken, hups <- sd_hups, served <- sd_served, killed <- sd_killed
Agt == INSTANCE AgentLoop WITH
  pc <- ag_pc, step <- ag_step, messages <- ag_messages, calls <- ag_calls,
  results <- ag_results, file <- ag_file

\* Those who take turns do so to the end: the two threads that pass a flag, the two
\* ends of the locked queue, signals and the loop that takes them, of which none is
\* lost, the calls of a batch and the history, and the alarm that must interrupt its
\* read while that waits and not outlive it.
TakenInTurn ==
  /\ Wait!Alternate /\ Wait!TimeoutIsOver
  /\ Lkq!HandsOn
  /\ Sig!TakenInTurn
  /\ Agt!CallsAnswered

------------------------------------------------------------------------------
CONSTANTS Typings, MaxEdits,                                           \* UndoRedo
          Contents, Newline, Missing,                                  \* FileIO
          Bytes, MaxBytes, Documents, TAB_WIDTH, scr_rows, scr_cols,   \* Input
          scrolloff, InitLen, MaxSize, Keys, Maps, LineCount, MaxTyped

ASSUME EditorAssumption ==
  /\ Typings \subseteq Seq(STRING)
  /\ Contents \subseteq Seq(STRING)
  /\ Bytes \subseteq STRING
  /\ Documents \subseteq Seq(Seq(STRING)) /\ <<>> \notin Documents /\ TAB_WIDTH \in Nat \ {0}
  /\ scr_rows \in Nat /\ scr_cols \in Nat \ {0} /\ scrolloff \in Nat /\ scrolloff < scr_rows
  /\ InitLen \in Nat /\ MaxSize \in Nat
  /\ Keys \subseteq STRING /\ LineCount \in Nat \ {0}
  /\ \A table \in Maps : \A k \in DOMAIN table : table[k] \in Seq(STRING)

VARIABLES un_content, un_caret, un_undoStack, un_redoStack, un_thrown, un_edits, un_latest,
          un_forked
VARIABLES fi_data, fi_target, fi_before, fi_tmp, fi_synced, fi_written, fi_spc
VARIABLES tm_tty, tm_enabled_, tm_global_, tm_buf_, tm_tpc, tm_typed, tm_events
VARIABLES vw_lines, vw_crow, vw_ccol, vw_goal_vcol, vw_row_off, vw_col_off, vw_shown, vw_origin
VARIABLES md_mode, md_size, md_cursor, md_anchor
VARIABLES ex_table, ex_line, ex_cursor, ex_dirty, ex_quit, ex_saved, ex_message

unVars == <<un_content, un_caret, un_undoStack, un_redoStack, un_thrown, un_edits, un_latest,
            un_forked>>
fiVars == <<fi_data, fi_target, fi_before, fi_tmp, fi_synced, fi_written, fi_spc>>
tmVars == <<tm_tty, tm_enabled_, tm_global_, tm_buf_, tm_tpc, tm_typed, tm_events>>
vwVars == <<vw_lines, vw_crow, vw_ccol, vw_goal_vcol, vw_row_off, vw_col_off, vw_shown,
            vw_origin>>
mdVars == <<md_mode, md_size, md_cursor, md_anchor>>
exVars == <<ex_table, ex_line, ex_cursor, ex_dirty, ex_quit, ex_saved, ex_message>>

Undo == INSTANCE UndoRedo WITH
  Words <- Typings,
  content <- un_content, caret <- un_caret, undoStack <- un_undoStack,
  redoStack <- un_redoStack, thrown <- un_thrown, edits <- un_edits, latest <- un_latest,
  forked <- un_forked
File == INSTANCE FileIO WITH
  NL <- Newline, data <- fi_data, target <- fi_target, before <- fi_before, tmp <- fi_tmp,
  synced <- fi_synced, written <- fi_written, spc <- fi_spc
Typed == INSTANCE Input WITH
  tty <- tm_tty, enabled_ <- tm_enabled_, global_ <- tm_global_, term_buf_ <- tm_buf_,
  tpc <- tm_tpc, typed <- tm_typed, events <- tm_events, lines <- vw_lines, crow <- vw_crow,
  ccol <- vw_ccol, goal_vcol <- vw_goal_vcol, row_off <- vw_row_off, col_off <- vw_col_off,
  shown <- vw_shown, origin <- vw_origin, mode <- md_mode, size <- md_size,
  cursor <- md_cursor, anchor <- md_anchor, table <- ex_table, ex_buf_ <- ex_line,
  ecursor <- ex_cursor, dirty <- ex_dirty, quit <- ex_quit, saved <- ex_saved,
  message <- ex_message

\* vc-08: undo and redo lead from end to end of the history.
RoundTrip == Undo!RoundTrip

\* vc-06: the file that is saved is whole wherever the saving fails or the machine stops.
FilesKeep == File!SaveIsAtomic

\* vc-01, vc-04, vc-07: what is typed is followed.  Bytes are cut into key events
\* without loss; the cursor keeps its column and stays on the screen, and in
\* whatever mode, it and the selection lie in the line.
InputFollowed == Typed!KeysCutRight /\ Typed!CursorFollowed /\ Typed!ModeBounds

\* vc-11: the editor ends with unsaved changes only when told to.
QuitKeepsWork == [][part = "ex" => Typed!KeepsWork]_exVars

------------------------------------------------------------------------------
CONSTANTS LruBlocks, Configs, LruMaxAccesses, SB, drainPerStore, Fences, depth,  \* Memory
          banks, colsPerRow, tRCD, tCAS, tRP, tBus, Prefetchers, DramLines,
          DramMaxAccesses, MeshN, MaxPackets,
          until, MaxJobs, WORD_BITS, cap, MaxSteps, NumRequests, Latencies,      \* Tlm
          quantum, per_xfer, tran_total, Routes, Addresses, Spans, Payloads, MaxCalls

ASSUME MemoryAssumption ==
  /\ LruBlocks \subseteq Nat /\ Configs \subseteq [ways : Nat \ {0}, sets : Nat \ {0}]
  /\ SB \in Nat \ {0} /\ drainPerStore \in Nat /\ Fences \subseteq Nat
  /\ banks \in Nat \ {0} /\ colsPerRow \in Nat \ {0}
  /\ tRCD \in Nat /\ tCAS \in Nat /\ tRP \in Nat /\ tBus \in Nat
  /\ Prefetchers \subseteq [on : BOOLEAN, deg : Nat, dist : Nat] /\ DramLines \subseteq Nat
  /\ MeshN \in Nat \ {0}

\* The routes have memories of their own, none beyond its span of addresses.
ASSUME TlmAssumption ==
  /\ until \in Nat /\ WORD_BITS \in Nat \ {0} /\ cap \in Nat
  /\ NumRequests \in Nat /\ Latencies \subseteq Nat
  /\ quantum \in Nat \ {0} /\ per_xfer \in Nat
  /\ Routes \in Seq([base : Nat, span : Nat, bytes : Nat]) /\ Routes # <<>>
  /\ \A r \in DOMAIN Routes : Routes[r].bytes <= Routes[r].span
  /\ \A r, s \in DOMAIN Routes : r < s =>
       \/ Routes[r].base + Routes[r].span <= Routes[s].base
       \/ Routes[s].base + Routes[s].span <= Routes[r].base
  /\ Addresses \subseteq Nat /\ Spans \subseteq Nat \ {0}

VARIABLES lc_cache, lc_seen, lc_recent
VARIABLES sb_i, sb_core
VARIABLES dp_pf, dp_lastAddr, dp_lastDelta, dp_armed, dp_inCache, dp_pfIssued, dp_pfUseful,
          dp_open, dp_cyc, dp_busBusyUntil, dp_rowHit, dp_rowMiss, dp_demands
VARIABLES ms_load, ms_b, ms_at, ms_dst, ms_from, ms_sent, ms_turned
VARIABLES eq_q, eq_now, eq_delta, eq_eval_calls, eq_delta_cycles, eq_jobs, eq_stamps, eq_last,
          eq_over
VARIABLES ch_drivers, ch_cur, ch_q, ch_blocked_w, ch_blocked_r, ch_u, ch_s, ch_lines, ch_steps,
          ch_since, ch_driven, ch_written, ch_taken, ch_total, ch_wave
VARIABLES tr_phase, tr_peq, tr_phase_events, tr_fw, tr_bw, tr_latency, tr_completed, tr_global,
          tr_local, tr_syncs, tr_xfers
VARIABLES am_m, am_dmi_valid, am_p, am_sent, am_wrote, am_calls

lcVars == <<lc_cache, lc_seen, lc_recent>>
sbVars == <<sb_i, sb_core>>
dpVars == <<dp_pf, dp_lastAddr, dp_lastDelta, dp_armed, dp_inCache, dp_pfIssued, dp_pfUseful,
            dp_open, dp_cyc, dp_busBusyUntil, dp_rowHit, dp_rowMiss, dp_demands>>
msVars == <<ms_load, ms_b, ms_at, ms_dst, ms_from, ms_sent, ms_turned>>
eqVars == <<eq_q, eq_now, eq_delta, eq_eval_calls, eq_delta_cycles, eq_jobs, eq_stamps, eq_last,
            eq_over>>
chVars == <<ch_drivers, ch_cur, ch_q, ch_blocked_w, ch_blocked_r, ch_u, ch_s, ch_lines,
            ch_steps, ch_since, ch_driven, ch_written, ch_taken, ch_total, ch_wave>>
trVars == <<tr_phase, tr_peq, tr_phase_events, tr_fw, tr_bw, tr_latency, tr_completed, tr_global,
            tr_local, tr_syncs, tr_xfers>>
amVars == <<am_m, am_dmi_valid, am_p, am_sent, am_wrote, am_calls>>

Mem == INSTANCE Memory WITH
  Blocks <- LruBlocks, Lines <- DramLines, N <- MeshN,
  cache <- lc_cache, seen <- lc_seen, recent <- lc_recent, sto_i <- sb_i, core <- sb_core,
  pf <- dp_pf, lastAddr <- dp_lastAddr, lastDelta <- dp_lastDelta, armed <- dp_armed,
  inCache <- dp_inCache, pfIssued <- dp_pfIssued, pfUseful <- dp_pfUseful, open <- dp_open,
  cyc <- dp_cyc, busBusyUntil <- dp_busBusyUntil, rowHit <- dp_rowHit, rowMiss <- dp_rowMiss,
  demands <- dp_demands, load <- ms_load, net_b <- ms_b, at <- ms_at, dst <- ms_dst,
  from <- ms_from, sent <- ms_sent, turned <- ms_turned
Plat == INSTANCE Tlm WITH
  W <- WORD_BITS, Requests <- 1..NumRequests, Lengths <- Spans, Values <- Payloads,
  evq_q <- eq_q, now <- eq_now, delta <- eq_delta, eval_calls <- eq_eval_calls,
  delta_cycles <- eq_delta_cycles, jobs <- eq_jobs, stamps <- eq_stamps, last <- eq_last,
  over <- eq_over, drivers <- ch_drivers, cur <- ch_cur, chan_q <- ch_q,
  blocked_w <- ch_blocked_w, blocked_r <- ch_blocked_r, u <- ch_u, chan_s <- ch_s,
  lines <- ch_lines, steps <- ch_steps, since <- ch_since, driven <- ch_driven,
  written <- ch_written, taken <- ch_taken, chan_total <- ch_total, wave <- ch_wave,
  phase <- tr_phase, peq <- tr_peq, phase_events <- tr_phase_events, fw <- tr_fw, bw <- tr_bw,
  latency <- tr_latency, completed <- tr_completed, global <- tr_global, local <- tr_local,
  syncs <- tr_syncs, xfers <- tr_xfers, m <- am_m, dmi_valid <- am_dmi_valid, addr_p <- am_p, sent <- am_sent,
  wrote <- am_wrote, calls <- am_calls

\* core-mem-lab 4, 6 to 8: a set of the cache holds the blocks used last, a fence
\* leaves no store behind it and costs what it must, memory is as slow as its accesses make it, and
\* packets take shortest paths.
MemoryAddsUp ==
  /\ part = "cache" => Mem!HoldsTheLatest
  /\ part = "stores" => Mem!FencesDrain
  /\ part = "dram" => Mem!TimeAddsUp
  /\ part = "mesh" => Mem!OnShortestPath

\* systemc-tlm-lab 1 to 9: jobs run when their notification said, channels lose
\* nothing, each request is answered after its own latency however many are in
\* flight, and the initiator is not ahead by a quantum.
TransfersComplete ==
  /\ part = "events" => Plat!RunsWhenNotified
  /\ part = "channels" => Plat!ChannelsKeep
  /\ part = "transport" => Plat!AnsweredInTime

\* systemc-tlm-lab 7, 10: a read has what was written last, through whatever path.
ReadsWhatWasWritten == part = "address" => Plat!ReadsWhatWasWritten

------------------------------------------------------------------------------
CONSTANTS KpWorkers, Rounds, payload_len, RoundTrips, MsgLen, num_conn, bench_rounds, \* LoadGenerators
          LabThreads, lock_iters, MaxOps, WalkN, Strides, walk_rounds, Percents,      \* PerfLabs
          DispN, ROUNDS, WARMUP, TRIALS, Times

ASSUME LoadAssumption ==
  /\ IsFiniteSet(KpWorkers) /\ Rounds \in Nat /\ payload_len \in Nat \ {0} /\ RoundTrips \subseteq Nat
  /\ MsgLen \in Nat \ {0} /\ num_conn \in Nat /\ bench_rounds \in Nat

\* The array has halves, and of an odd number of trials one is in the middle.
ASSUME LabAssumption ==
  /\ IsFiniteSet(LabThreads) /\ "none" \notin LabThreads
  /\ lock_iters \in Nat \ {0} /\ MaxOps \in Nat
  /\ WalkN \in Nat \ {0} /\ WalkN % 2 = 0 /\ Strides \subseteq Nat \ {0} /\ walk_rounds \in Nat
  /\ Percents \subseteq Nat
  /\ DispN \in Nat /\ ROUNDS \in Nat /\ WARMUP \in Nat /\ TRIALS \in Nat /\ TRIALS % 2 = 1
  /\ Times \subseteq Nat

VARIABLES kp_mode, kp_created, kp_g_ready, kp_at, kp_r, kp_got, kp_failures, kp_g_lat_us,
          kp_line, kp_echo, kp_whole, kp_joined, kp_killed
VARIABLES bl_backlog, bl_serving, bl_n, bl_alive, bl_at, bl_line, bl_up, bl_down, bl_fin,
          bl_total, bl_sent, bl_lats, bl_runs
VARIABLES td_demo, td_stop, td_ops, td_holder, td_at, td_reg, td_left, td_did, td_joined,
          td_destroyed
VARIABLES wk_walk, wk_D, wk_a, wk_i, wk_r, wk_at, wk_sum, wk_sink, wk_l1_cliff_idx,
          wk_l2_cliff_idx
VARIABLES di_mode, di_ops, di_alive, di_phase, di_r, di_sum, di_times, di_median

kpVars == <<kp_mode, kp_created, kp_g_ready, kp_at, kp_r, kp_got, kp_failures, kp_g_lat_us,
            kp_line, kp_echo, kp_whole, kp_joined, kp_killed>>
blVars == <<bl_backlog, bl_serving, bl_n, bl_alive, bl_at, bl_line, bl_up, bl_down, bl_fin,
            bl_total, bl_sent, bl_lats, bl_runs>>
tdVars == <<td_demo, td_stop, td_ops, td_holder, td_at, td_reg, td_left, td_did, td_joined,
            td_destroyed>>
wkVars == <<wk_walk, wk_D, wk_a, wk_i, wk_r, wk_at, wk_sum, wk_sink, wk_l1_cliff_idx,
            wk_l2_cliff_idx>>
diVars == <<di_mode, di_ops, di_alive, di_phase, di_r, di_sum, di_times, di_median>>

Load == INSTANCE LoadGenerators WITH
  mode <- kp_mode, created <- kp_created, g_ready <- kp_g_ready, kp_at <- kp_at, r <- kp_r,
  got <- kp_got, failures <- kp_failures, g_lat_us <- kp_g_lat_us, kp_line <- kp_line,
  echo <- kp_echo, whole <- kp_whole, joined <- kp_joined, killed <- kp_killed,
  Workers <- KpWorkers,
  backlog <- bl_backlog, serving <- bl_serving, blk_n <- bl_n, alive <- bl_alive,
  blk_at <- bl_at, blk_line <- bl_line, up <- bl_up, down <- bl_down, fin <- bl_fin,
  total <- bl_total, sent <- bl_sent, lats <- bl_lats, runs <- bl_runs,
  rounds <- bench_rounds
Lab == INSTANCE PerfLabs WITH
  demo <- td_demo, stop <- td_stop, thr_ops <- td_ops, holder <- td_holder, thr_at <- td_at,
  reg <- td_reg, left <- td_left, did <- td_did, joined <- td_joined, destroyed <- td_destroyed,
  Threads <- LabThreads, walk <- wk_walk, D <- wk_D,
  a <- wk_a, walk_i <- wk_i, walk_r <- wk_r, walk_at <- wk_at, walk_sum <- wk_sum,
  sink <- wk_sink, l1_cliff_idx <- wk_l1_cliff_idx, l2_cliff_idx <- wk_l2_cliff_idx, rounds <- walk_rounds,
  mode <- di_mode, disp_ops <- di_ops, alive <- di_alive, phase <- di_phase, disp_r <- di_r,
  disp_sum <- di_sum, times <- di_times, median <- di_median

\* What a program counts is what happened: the requests the load generators call
\* successful had their answers (KpBench, BlockingEcho), and the operations the
\* thread demos report were done (ThreadDemos).
CountedIsDone ==
  /\ part = "kp" => Load!CountsWhatCameBack
  /\ part = "blocking" => Load!CountedIsWhole /\ Load!OwnBytes
  /\ part = "threads" => Lab!CountedRight
  /\ part = "walks" => Lab!Comparable
  /\ part = "dispatch" => Lab!SameWork
=============================================================================
