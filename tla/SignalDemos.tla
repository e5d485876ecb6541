---------------------------- MODULE SignalDemos ----------------------------
(***************************************************************************)
(* signals-demos: three programs that take their signals in turn instead   *)
(* of being interrupted by them.  sfd_demo reads one signal per event of a *)
(* signalfd, sfd_epoll_demo reads until there are none, sigwait_demo has a *)
(* thread that waits for them.  A blocked signal is pending once, however  *)
(* often it is sent.                                                       *)
(***************************************************************************)
EXTENDS Integers, FiniteSets

CONSTANT MaxSent       \* signals that are sent, for the bound

Stops == {"TERM", "INT"}
Signals == Stops \cup {"HUP", "CHLD"}

VARIABLES prog, at, thread,    \* where main is, and the thread of sigwait_demo
          mask, pending,
          reload_config, reloads,
          sent,                \* how many signals were sent
          due, taken,          \* history: those not taken yet, those the program took
          hups, served,        \* history: the HUPs it took, and those before a reload
          killed               \* where it was and by which signal, when one ended it
loopVars == <<reload_config, reloads, served>>
signalVars == <<pending, due, taken, hups>>
vars == <<prog, at, thread, mask, signalVars, loopVars, sent, killed>>

\* What each program blocks, and lets a descriptor or a thread take.
Blocked(p) == CASE p = "sfd" -> Stops \cup {"CHLD"}
                [] p = "sfd_epoll" -> Signals
                [] p = "sigwait" -> Stops

Init ==
  /\ prog \in {"sfd", "sfd_epoll", "sigwait"}
  /\ at = "start" /\ thread = "none" /\ mask = {} /\ pending = {}
  /\ reload_config = FALSE /\ reloads = 0
  /\ sent = 0 /\ due = {} /\ taken = {} /\ hups = 0 /\ served = 0 /\ killed = <<>>

Running == at /= "end" /\ killed = <<>>

\* Mutant: the signals are blocked after the descriptor or the thread was made.
Mask_Late ==
  /\ Running /\ at = "start" /\ at' = "setup"
  /\ UNCHANGED <<prog, thread, mask, signalVars, loopVars, sent, killed>>

Mask ==                \* before the descriptor is made and before any thread is
  /\ Running /\ at = "start"
  /\ mask' = Blocked(prog) /\ at' = "setup"
  /\ UNCHANGED <<prog, thread, signalVars, loopVars, sent, killed>>

Setup ==               \* signalfd and epoll_ctl; or the threads, which inherit the mask
  /\ Running /\ at = "setup"
  /\ mask' = Blocked(prog)
  /\ IF prog = "sigwait" THEN at' = "join" /\ thread' = "sigwait"
                         ELSE at' = "epoll_wait" /\ UNCHANGED thread
  /\ UNCHANGED <<prog, signalVars, loopVars, sent, killed>>

EpollWait ==           \* level-triggered: it returns while anything is pending
  /\ Running /\ at = "epoll_wait" /\ pending /= {}
  /\ at' = "read"
  /\ UNCHANGED <<prog, thread, mask, signalVars, loopVars, sent, killed>>

Took(s) ==
  /\ pending' = pending \ {s} /\ due' = due \ {s} /\ taken' = taken \cup {s}
  /\ hups' = IF s = "HUP" THEN hups + 1 ELSE hups

ReadOne ==             \* sfd_demo: the rest of the signals make epoll_wait return again
  \E s \in pending :
    /\ Running /\ prog = "sfd" /\ at = "read"
    /\ Took(s)
    /\ at' = IF s \in Stops THEN "end" ELSE "epoll_wait"
    /\ UNCHANGED <<prog, thread, mask, loopVars, sent, killed>>

handle_signal ==       \* sfd_epoll_demo: exit is called amid the reading
  \E s \in pending :
    /\ Running /\ prog = "sfd_epoll" /\ at = "read"
    /\ Took(s)
    /\ at' = IF s \in Stops THEN "end" ELSE "read"
    /\ reload_config' = (s = "HUP" \/ reload_config)
    /\ UNCHANGED <<prog, thread, mask, reloads, served, sent, killed>>

\* Nothing is left to read, and the flag the signal left is looked at.
Reload ==
  /\ Running /\ prog = "sfd_epoll" /\ at = "read" /\ pending = {}
  /\ reloads' = IF reload_config THEN reloads + 1 ELSE reloads
  /\ served' = IF reload_config THEN hups ELSE served
  /\ reload_config' = FALSE /\ at' = "epoll_wait"
  /\ UNCHANGED <<prog, thread, mask, signalVars, sent, killed>>

signal_thread ==       \* sigwait returns one of its signals, and both end the process
  \E s \in pending \cap Stops :
    /\ Running /\ thread = "sigwait"
    /\ Took(s) /\ at' = "end" /\ thread' = "none"
    /\ UNCHANGED <<prog, mask, loopVars, sent, killed>>

Send(s) ==             \* from another process: pending, ignored, or the end of the program
  /\ Running /\ sent < MaxSent
  /\ sent' = sent + 1
  /\ pending' = IF s \in mask THEN pending \cup {s} ELSE pending
  /\ killed' = IF s \notin mask /\ s /= "CHLD" THEN <<at, s>> ELSE <<>>
  /\ due' = IF at /= "start" /\ s \in Blocked(prog) THEN due \cup {s} ELSE due
  /\ UNCHANGED <<prog, at, thread, mask, loopVars, taken, hups>>

Program == \/ Mask \/ Setup \/ EpollWait \/ ReadOne \/ handle_signal \/ Reload \/ signal_thread
Next == Program \/ \E s \in Signals : Send(s)

Spec == Init /\ [][Next]_vars
------------------------------------------------------------------------------
\* A signal that a program takes by descriptor or by thread never ends it where it is,
\* once its main has begun, and none is lost: until it is taken it is pending.  The
\* program ends by a stop that it took and by nothing else; and when it waits again,
\* a reload has followed each HUP it took, and at most one.
TakenInTurn ==
  /\ killed /= <<>> => killed[1] = "start" \/ killed[2] \notin Blocked(prog)
  /\ due \subseteq pending
  /\ at = "end" <=> taken \cap Stops /= {}
  /\ reloads <= hups
  /\ at = "epoll_wait" => served = hups
=============================================================================
