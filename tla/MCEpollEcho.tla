---------------------------- MODULE MCEpollEcho ----------------------------
(* Instances of EpollEcho for TLC: two clients and one or two descriptors. *)
EXTENDS EpollEcho, TLC

CONSTANTS c1, c2, f1, f2

\* Sound for safety only: the runs that check liveness do not use it.
Symmetry == Permutations(Clients) \cup Permutations(FDs)
=============================================================================
