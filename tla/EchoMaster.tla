----------------------------- MODULE EchoMaster -----------------------------
(***************************************************************************)
(* The master of echo/day-02/echo-mp-server.c: it forks num_workers        *)
(* processes, reaps the ones that end, and stops them when it is told to.  *)
(* A worker inherits the signal handler, whose running flag worker_loop    *)
(* never reads, so a signal only interrupts its epoll_wait.                *)
(*                                                                         *)
(* A worker is what children[] holds for it, a pid: after it is reaped the *)
(* kernel may give its pid to a process that is none of the master's.      *)
(***************************************************************************)
EXTENDS Naturals, FiniteSets

CONSTANT num_workers

Workers == 1..num_workers   \* worker i has the pid in children[i]

VARIABLES
  mpc,        \* master: fork, loop, sleep, kill, wait, done, failed
  k,          \* the i of the loop the master is in
  running,    \* the master's running
  proc,       \* pid -> unborn, alive, zombie, gone, other
  eintr       \* workers whose epoll_wait has been interrupted

vars == <<mpc, k, running, proc, eintr>>

Init ==
  /\ mpc = "fork" /\ k = 1 /\ running = TRUE
  /\ proc = [w \in Workers |-> "unborn"]
  /\ eintr = {}

Fork ==
  /\ mpc = "fork"
  /\ proc' = [proc EXCEPT ![k] = "alive"]
  /\ IF k = num_workers THEN mpc' = "loop" /\ k' = 1 ELSE mpc' = mpc /\ k' = k + 1
  /\ UNCHANGED <<running, eintr>>

ForkFails ==     \* exit(1): the workers there are stay behind
  /\ mpc = "fork" /\ mpc' = "failed"
  /\ UNCHANGED <<k, running, proc, eintr>>

\* Mutant: only the first worker is asked after.
Reap_FirstOnly ==
  /\ mpc = "loop" /\ running
  /\ proc' = IF proc[1] = "zombie" THEN [proc EXCEPT ![1] = "gone"] ELSE proc
  /\ mpc' = "sleep"
  /\ UNCHANGED <<k, running, eintr>>

Reap ==          \* waitpid(-1, WNOHANG); children[] keeps the pid
  /\ mpc = "loop" /\ running
  /\ LET Z == {w \in Workers : proc[w] = "zombie"}
     IN  IF Z = {} THEN proc' = proc
                   ELSE \E w \in Z : proc' = [proc EXCEPT ![w] = "gone"]
  /\ mpc' = "sleep"
  /\ UNCHANGED <<k, running, eintr>>

Sleep ==         \* over after a second or a signal
  /\ mpc = "sleep" /\ mpc' = "loop"
  /\ UNCHANGED <<k, running, proc, eintr>>

LeaveLoop ==
  /\ mpc = "loop" /\ ~running
  /\ mpc' = "kill"
  /\ UNCHANGED <<k, running, proc, eintr>>

Kill ==          \* a zombie takes no notice, a pid that is gone is ESRCH
                 \* and one that was given away is a process of somebody else
  /\ mpc = "kill"
  /\ eintr' = IF proc[k] = "alive" THEN eintr \cup {k} ELSE eintr
  /\ IF k = num_workers THEN mpc' = "wait" /\ k' = 1 ELSE mpc' = mpc /\ k' = k + 1
  /\ UNCHANGED <<running, proc>>

\* Mutant: waitpid is called with WNOHANG.
Wait_NoHang ==
  /\ mpc = "wait"
  /\ proc' = IF proc[k] = "zombie" THEN [proc EXCEPT ![k] = "gone"] ELSE proc
  /\ IF k = num_workers THEN mpc' = "done" /\ k' = 1 ELSE mpc' = mpc /\ k' = k + 1
  /\ UNCHANGED <<running, eintr>>

Wait ==          \* waitpid(children[k]); ECHILD if it is not a child any more
  /\ mpc = "wait" /\ proc[k] /= "alive"
  /\ proc' = IF proc[k] = "zombie" THEN [proc EXCEPT ![k] = "gone"] ELSE proc
  /\ IF k = num_workers THEN mpc' = "done" /\ k' = 1 ELSE mpc' = mpc /\ k' = k + 1
  /\ UNCHANGED <<running, eintr>>

Master == Fork \/ ForkFails \/ Reap \/ Sleep \/ LeaveLoop \/ Kill \/ Wait

Signal ==        \* SIGINT or SIGTERM to the master, any time after signal()
  /\ running /\ mpc \notin {"done", "failed"}
  /\ running' = FALSE
  /\ UNCHANGED <<mpc, k, proc, eintr>>

SignalGroup ==   \* Ctrl-C reaches the workers too
  /\ running /\ mpc \notin {"done", "failed"}
  /\ running' = FALSE
  /\ eintr' = eintr \cup {w \in Workers : proc[w] = "alive"}
  /\ UNCHANGED <<mpc, k, proc>>

\* worker_loop: epoll_wait fails with EINTR and the loop goes on.
Continue(w) ==
  /\ w \in eintr
  /\ eintr' = eintr \ {w}
  /\ UNCHANGED <<mpc, k, running, proc>>

\* A worker ends only by a crash, an epoll_wait error or an unhandled signal.
WorkerEnds(w) ==
  /\ proc[w] = "alive"
  /\ proc' = [proc EXCEPT ![w] = "zombie"]
  /\ eintr' = eintr \ {w}
  /\ UNCHANGED <<mpc, k, running>>

PidReused(w) ==  \* the kernel gives the pid to a process of somebody else
  /\ proc[w] = "gone"
  /\ proc' = [proc EXCEPT ![w] = "other"]
  /\ UNCHANGED <<mpc, k, running, eintr>>

Next == \/ Master \/ Signal \/ SignalGroup
        \/ \E w \in Workers : Continue(w) \/ WorkerEnds(w) \/ PidReused(w)

Spec == Init /\ [][Next]_vars

\* The master and the workers are scheduled; workers need not ever end.
FairSpec == Spec /\ WF_vars(Master) /\ \A w \in Workers : WF_vars(Continue(w))

------------------------------------------------------------------------------
TypeOK ==
  /\ mpc \in {"fork", "loop", "sleep", "kill", "wait", "done", "failed"}
  /\ k \in Workers /\ running \in BOOLEAN
  /\ proc \in [Workers -> {"unborn", "alive", "zombie", "gone", "other"}]
  /\ eintr \subseteq Workers

\* The master ends after every worker did, however many ended by themselves
\* before, and leaves no zombie.
EndsLast == mpc = "done" => \A w \in Workers : proc[w] \in {"gone", "other"}

\* A worker that ends is reaped as long as the master is not told to stop.
Reaped ==
  \A w \in Workers :
    proc[w] = "zombie" ~> (proc[w] /= "zombie" \/ ~running \/ mpc = "failed")

\* Told to stop, the master stops its workers and itself (the comments at
\* echo-mp-server.c:224, 263 and 268).
Stops == ~running ~> mpc \in {"done", "failed"}

(* The parts of the inductive invariant for EndsLast.                      *)

\* Up to where the last loop has come, the workers are gone for good.
WaitedInv ==
  /\ mpc = "wait" => \A w \in 1..(k - 1) : proc[w] \in {"gone", "other"}
  /\ mpc = "fork" => \A w \in 1..(k - 1) : proc[w] /= "unborn"
  /\ mpc \notin {"fork", "failed"} => \A w \in Workers : proc[w] /= "unborn"

IInv == TypeOK /\ WaitedInv /\ EndsLast
=============================================================================
