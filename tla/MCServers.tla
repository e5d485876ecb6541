------------------------------ MODULE MCServers ------------------------------
(***************************************************************************)
(* How the servers' processes and threads start, share and end, and how a  *)
(* thread is notified: the workers of the multi-threaded server, the       *)
(* master of the multi-process one, and the two notification benchmarks.   *)
(* A behaviour is one of the program it chose at the start; the others     *)
(* stay where they begin.                                                  *)
(***************************************************************************)
EXTENDS EchoWorkers

CONSTANTS Chosen, num_workers, iters, Sentinel

ASSUME MasterAssumption == num_workers \in Nat \ {0}
ASSUME NotifyAssumption == iters \in Nat \ {0} /\ Sentinel \in Nat

VARIABLE part

VARIABLES masterPc, k, masterRunning, proc, eintr
VARIABLES mainPc, spc, epc, sig_go, pending, killed, waited, counter, written, sum

masterVars == <<masterPc, k, masterRunning, proc, eintr>>
notifyVars == <<mainPc, spc, epc, sig_go, pending, killed, waited, counter, written, sum>>
allVars == <<part, vars, masterVars, notifyVars>>

Ma == INSTANCE EchoMaster WITH mpc <- masterPc, running <- masterRunning
No == INSTANCE EventNotify WITH mpc <- mainPc

\* The command line of the threaded server matters only to its own behaviours.
ServersInit ==
  /\ part \in Chosen
  /\ Init /\ Ma!Init /\ No!Init
  /\ part /= "workers" => reuseport /\ mode_et /\ maxServed = 1

workers == part = "workers" /\ UNCHANGED <<part, masterVars, notifyVars>>
master == part = "master" /\ UNCHANGED <<part, vars, notifyVars>>
notify == part = "notify" /\ UNCHANGED <<part, vars, masterVars>>

ServersNext == (workers /\ Next) \/ (master /\ Ma!Next) \/ (notify /\ No!Next)

\* The fairness of the three modules, for the program that was chosen.
ServersSpec ==
  /\ ServersInit /\ [][ServersNext]_allVars
  /\ WF_allVars(workers /\ (Wake \/ Join))
  /\ \A t \in Threads : /\ WF_allVars(workers /\ Worker(t))
                        /\ SF_allVars(workers /\ WaitListener(t))
                        /\ SF_allVars(workers /\ CloseConn(t))
                        /\ WF_allVars(workers /\ (Accept(t) \/ AcceptEnds(t)))
  /\ \A c \in Conns : WF_allVars(workers /\ PeerCloses(c))
  /\ WF_allVars(master /\ Ma!Master)
  /\ \A w \in 1..num_workers : WF_allVars(master /\ Ma!Continue(w))
  /\ WF_allVars(notify /\ No!Main) /\ WF_allVars(notify /\ No!SigWorker)
  /\ WF_allVars(notify /\ No!EfdWorker)

\* The master ends after every worker did, however many ended by themselves
\* before, and leaves no zombie.
EndsLast == Ma!EndsLast

\* A worker process that ends is reaped as long as the master is not told to stop.
Reaped == Ma!Reaped

\* The thread is woken by what it is sent, and by nothing else.  No signal is made
\* up, and what was read of the eventfd and what waits add up to what was written;
\* the worker leaves for the sentinel or for as many unread counts (main.c:97).
\* Either the signals all come through and main's join returns, or fewer were
\* received than sent, merged by the kernel, and none is pending; and the sentinel
\* makes it leave (main.c:128) if all counts before it have been read.
NotificationsArrive ==
  /\ [](No!NoSpuriousSignal /\ No!EventfdConserves /\ No!LeavesOnSentinel)
  /\ part = "notify" => No!SignalsArriveOrMerge
  /\ No!AloneSentinelStops
=============================================================================
