---------------------------- MODULE EventNotify ----------------------------
(***************************************************************************)
(* signal-vs-eventfd/main.c: main notifies a worker iters times, first     *)
(* with a signal directed at its thread and then through an eventfd, and   *)
(* joins it after each.  The kernel keeps one bit for a pending standard   *)
(* signal and one 64-bit sum for an eventfd; a read takes the whole sum.   *)
(***************************************************************************)
EXTENDS Naturals

CONSTANTS iters,     \* how many notifications each benchmark sends
          Sentinel   \* 0xDEAD

VARIABLES
  mpc,               \* main: kill, join1, write, sentinel, join2, end
  spc,               \* sig_worker: spin, sigwait, exit
  epc,               \* efd_worker: none, read, exit
  sig_go, pending,   \* the flag sig_worker spins on; SIGUSR1 pending for it
  killed, waited,    \* pthread_kill calls made, sigwait calls that returned
  counter,           \* the eventfd's sum
  written, sum       \* history: notifications written, and the sum of what was read

sigVars == <<spc, sig_go, pending, killed, waited>>
efdVars == <<epc, counter, written, sum>>
vars == <<mpc, sigVars, efdVars>>

Init ==
  /\ mpc = "kill" /\ spc = "spin" /\ epc = "none"
  /\ sig_go = FALSE /\ pending = FALSE
  /\ killed = 0 /\ waited = 0
  /\ counter = 0 /\ written = 0 /\ sum = 0

(* run_signal and sig_worker *)

Go ==
  /\ mpc = "kill" /\ ~sig_go
  /\ sig_go' = TRUE
  /\ UNCHANGED <<mpc, spc, pending, killed, waited, efdVars>>

Kill ==            \* a signal that is pending already is not queued again
  /\ mpc = "kill" /\ sig_go /\ killed < iters
  /\ pending' = TRUE
  /\ killed' = killed + 1
  /\ mpc' = IF killed + 1 = iters THEN "join1" ELSE "kill"
  /\ UNCHANGED <<spc, sig_go, waited, efdVars>>

LeaveSpin ==
  /\ spc = "spin" /\ sig_go
  /\ spc' = "sigwait"
  /\ UNCHANGED <<mpc, sig_go, pending, killed, waited, efdVars>>

\* Mutant: one signal more is waited for than is sent.
Sigwait_OneMore ==
  /\ spc = "sigwait" /\ pending
  /\ pending' = FALSE
  /\ waited' = waited + 1
  /\ spc' = IF waited + 1 > iters THEN "exit" ELSE "sigwait"
  /\ UNCHANGED <<mpc, sig_go, killed, efdVars>>

Sigwait ==
  /\ spc = "sigwait" /\ pending
  /\ pending' = FALSE
  /\ waited' = waited + 1
  /\ spc' = IF waited + 1 = iters THEN "exit" ELSE "sigwait"
  /\ UNCHANGED <<mpc, sig_go, killed, efdVars>>

\* pthread_join, then run_eventfd creates the eventfd and its worker.
JoinSignal ==
  /\ mpc = "join1" /\ spc = "exit"
  /\ mpc' = "write" /\ epc' = "read"
  /\ UNCHANGED <<sigVars, counter, written, sum>>

(* run_eventfd and efd_worker *)

Write ==
  /\ mpc = "write"
  /\ counter' = counter + 1
  /\ written' = written + 1
  /\ mpc' = IF written + 1 = iters THEN "sentinel" ELSE "write"
  /\ UNCHANGED <<sigVars, epc, sum>>

WriteSentinel ==
  /\ mpc = "sentinel"
  /\ counter' = counter + Sentinel
  /\ mpc' = "join2"
  /\ UNCHANGED <<sigVars, epc, written, sum>>

Read ==
  /\ epc = "read" /\ counter > 0
  /\ sum' = sum + counter
  /\ counter' = 0
  /\ epc' = IF counter = Sentinel THEN "exit" ELSE "read"
  /\ UNCHANGED <<mpc, sigVars, written>>

JoinEventfd ==     \* and close
  /\ mpc = "join2" /\ epc = "exit"
  /\ mpc' = "end"
  /\ UNCHANGED <<sigVars, efdVars>>

Main == Go \/ Kill \/ JoinSignal \/ Write \/ WriteSentinel \/ JoinEventfd
SigWorker == LeaveSpin \/ Sigwait
EfdWorker == Read

Next == Main \/ SigWorker \/ EfdWorker

Spec == Init /\ [][Next]_vars
FairSpec == Spec /\ WF_vars(Main) /\ WF_vars(SigWorker) /\ WF_vars(EfdWorker)

------------------------------------------------------------------------------
\* No notification is made up: sigwait returns at most once for each
\* pthread_kill, the one that is pending included.
NoSpuriousSignal == waited + (IF pending THEN 1 ELSE 0) <= killed

\* The eventfd loses nothing, however the writes and the reads interleave: what
\* was read and what waits add up to what was written.
EventfdConserves ==
  sum + counter = written + (IF mpc \in {"join2", "end"} THEN Sentinel ELSE 0)

\* Every notification that was not merged with an earlier one arrives: either the
\* signals all come through and main's join returns, or fewer were received than
\* sent and none is pending.
SignalsArriveOrMerge ==
  <>(mpc \notin {"kill", "join1"} \/ (killed = iters /\ waited < killed /\ ~pending))

\* The sentinel makes the worker leave (main.c:128) if all counts before it have
\* been read; if not, read returns a sum the worker does not know.
AloneSentinelStops == mpc = "join2" /\ counter = Sentinel ~> mpc = "end"

\* The worker leaves for the sentinel, or for as many unread counts (main.c:97).
LeavesOnSentinel == epc = "exit" => mpc \in {"join2", "end"} \/ written >= Sentinel
=============================================================================
