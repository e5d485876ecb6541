------------------------------ MODULE EchoSpec ------------------------------
(***************************************************************************)
(* What an echo server promises its clients, whatever it is built from:    *)
(* a client that has been taken on is sent back a growing prefix of its    *)
(* own stream, never ahead of what has arrived, until the server is done   *)
(* with it; then nothing more.  The i-th byte of client c is <<c, i>>.     *)
(***************************************************************************)
EXTENDS Naturals

CONSTANTS Clients, N   \* the peers; bound on the bytes each one sends

VARIABLES
  serving,   \* clients the server has taken on and is not done with
  over,      \* clients the server is done with
  arrived,   \* client -> bytes that have arrived
  echoed,    \* client -> the bytes sent back
  count      \* client -> how many they are

vars == <<serving, over, arrived, echoed, count>>

Init ==
  /\ serving = {} /\ over = {}
  /\ arrived = [c \in Clients |-> 0]
  /\ echoed = [c \in Clients |-> <<>>]
  /\ count = [c \in Clients |-> 0]

Arrive(c) ==
  /\ arrived[c] < N
  /\ arrived' = [arrived EXCEPT ![c] = @ + 1]
  /\ UNCHANGED <<serving, over, echoed, count>>

Serve(c) ==
  /\ c \notin serving \cup over
  /\ serving' = serving \cup {c}
  /\ UNCHANGED <<over, arrived, echoed, count>>

\* Sends back the next n bytes of the client's stream.
Reply(c, n) ==
  /\ c \in serving
  /\ count[c] + n <= arrived[c]
  /\ count' = [count EXCEPT ![c] = @ + n]
  /\ echoed' = [echoed EXCEPT ![c] = [i \in 1..(count[c] + n) |-> <<c, i>>]]
  /\ UNCHANGED <<serving, over, arrived>>

Finish(c) ==
  /\ c \notin over
  /\ over' = over \cup {c}
  /\ serving' = serving \ {c}
  /\ UNCHANGED <<arrived, echoed, count>>

Next == \E c \in Clients : \/ Arrive(c) \/ Serve(c) \/ Finish(c)
                           \/ \E n \in 1..N : Reply(c, n)

Spec == Init /\ [][Next]_vars
=============================================================================
