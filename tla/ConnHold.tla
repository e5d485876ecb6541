------------------------------ MODULE ConnHold ------------------------------
(***************************************************************************)
(* The million-connection experiment of echo/E2: conn-ramper opens         *)
(* connections at a given rate, counts the ones that stand, and holds      *)
(* them; echo-conn-server accepts and counts them with one listening       *)
(* socket and one epoll instance per thread.                               *)
(*                                                                         *)
(* A connection has an identity of its own (Conns), apart from the         *)
(* descriptor (FDs) the ramper has for it, because descriptors are reused. *)
(* No data is ever sent, and both programs are level-triggered.            *)
(***************************************************************************)
EXTENDS Naturals, Integers, FiniteSets

CONSTANTS Conns, FDs, Threads, None,
          target, MaxBudget,         \* connections wanted; bound of one turn's budget
          Hold,                      \* whether --hold-sec is given
          LocalErrors, AddFails,     \* which calls may fail
          ServerStops                \* whether the server may be told to stop

ASSUME HoldAssumption ==
  /\ None \notin Conns /\ IsFiniteSet(FDs) /\ IsFiniteSet(Conns) /\ IsFiniteSet(Threads)
  /\ target \in Nat \ {0} /\ MaxBudget \in Nat \ {0}
  /\ {Hold, LocalErrors, AddFails, ServerStops} \subseteq BOOLEAN

VARIABLES
  \* the network
  link,        \* connection -> new, syn, up, refused or reset, for the ramper's kernel
  finC, finS,  \* connections the ramper, the server has closed
  queue,       \* thread -> connections waiting in its listen queue
  \* conn-ramper
  rpc, batch, budget,
  fdconn, fdstate, watch,      \* per fd: its connection, fdstate[], EPOLLOUT registered
  opened, established, dropped,
  \* echo-conn-server
  running, tpc, held,          \* held: thread -> connections in its epoll instance
  estab, accepted              \* g_estab, g_accepted

netVars == <<link, finC, finS, queue>>
ramperVars == <<rpc, batch, budget, fdconn, fdstate, watch, opened, established, dropped>>
serverVars == <<running, tpc, held, estab, accepted>>
vars == <<netVars, ramperVars, serverVars>>

Init ==
  /\ link = [c \in Conns |-> "new"] /\ finC = {} /\ finS = {}
  /\ queue = [t \in Threads |-> {}]
  /\ rpc = "top" /\ batch = {} /\ budget = 0
  /\ fdconn = [f \in FDs |-> None] /\ fdstate = [f \in FDs |-> 0]
  /\ watch = [f \in FDs |-> FALSE]
  /\ opened = 0 /\ established = 0 /\ dropped = 0
  /\ running = TRUE /\ tpc = [t \in Threads |-> "wait"]
  /\ held = [t \in Threads |-> {}]
  /\ estab = 0 /\ accepted = 0

Open == {f \in FDs : fdconn[f] /= None}
SoError(f) == link[fdconn[f]] \in {"refused", "reset"}
\* What epoll_wait reports: an error, EPOLLRDHUP, or EPOLLOUT while it is asked for.
Ready == {f \in Open : \/ SoError(f)
                       \/ fdconn[f] \in finS
                       \/ watch[f] /\ link[fdconn[f]] = "up"}
Fresh == {c \in Conns : link[c] = "new"}
NextConn == CHOOSE c \in Fresh : TRUE    \* the one the next port number makes

CloseFd(f) ==
  /\ fdconn' = [fdconn EXCEPT ![f] = None]
  /\ finC' = finC \cup {fdconn[f]}

------------------------------------------------------------------------------
(* conn-ramper: opening *)

\* Mutant: opening stops one connection short of the target.
SetBudget_OneShort ==
  /\ rpc = "top"
  /\ budget' \in (IF opened + 1 >= target THEN {0} ELSE 0..MaxBudget)
  /\ rpc' = "open"
  /\ UNCHANGED <<netVars, batch, fdconn, fdstate, watch, opened, established, dropped,
                 serverVars>>

SetBudget ==      \* how much depends on the time that has passed
  /\ rpc = "top"
  /\ budget' \in (IF opened >= target THEN {0} ELSE 0..MaxBudget)
  /\ rpc' = "open"
  /\ UNCHANGED <<netVars, batch, fdconn, fdstate, watch, opened, established, dropped,
                 serverVars>>

OpenNoSocket ==   \* out of descriptors: break
  /\ rpc = "open" /\ budget > 0 /\ Open = FDs
  /\ budget' = 0
  /\ UNCHANGED <<netVars, rpc, batch, fdconn, fdstate, watch, opened, established, dropped,
                 serverVars>>

OpenError ==      \* bind, connect or epoll_ctl fails: close, continue
  /\ LocalErrors /\ rpc = "open" /\ budget > 0 /\ Open /= FDs
  /\ budget' = budget - 1
  /\ UNCHANGED <<netVars, rpc, batch, fdconn, fdstate, watch, opened, established, dropped,
                 serverVars>>

OpenConnection ==
  /\ rpc = "open" /\ budget > 0 /\ Fresh /= {}
  /\ \E f \in FDs \ Open : /\ fdconn' = [fdconn EXCEPT ![f] = NextConn]
                           /\ watch' = [watch EXCEPT ![f] = TRUE]
  /\ link' = [link EXCEPT ![NextConn] = "syn"]
  /\ opened' = opened + 1 /\ budget' = budget - 1
  /\ UNCHANGED <<finC, finS, queue, rpc, batch, fdstate, established, dropped, serverVars>>

EpollWait ==      \* the budget is used up, or Conns, the bound of the model
  /\ rpc = "open" /\ (budget = 0 \/ Fresh = {})
  /\ batch' = Ready /\ rpc' = "events"
  /\ UNCHANGED <<netVars, budget, fdconn, fdstate, watch, opened, established, dropped,
                 serverVars>>

(* conn-ramper: one element of evs[] *)

\* Mutant: a connection that was counted is waited for as if nothing happened.
EventError_OnlyNew(f) ==
  /\ rpc = "events" /\ f \in batch /\ SoError(f)
  /\ IF fdstate[f] = 0 THEN CloseFd(f) ELSE UNCHANGED <<fdconn, finC>>
  /\ batch' = batch \ {f}
  /\ UNCHANGED <<link, finS, queue, rpc, budget, fdstate, watch, opened, established,
                 dropped, serverVars>>

EventError(f) ==  \* fail++, close; nothing else is touched
  /\ rpc = "events" /\ f \in batch /\ SoError(f)
  /\ CloseFd(f) /\ batch' = batch \ {f}
  /\ UNCHANGED <<link, finS, queue, rpc, budget, fdstate, watch, opened, established,
                 dropped, serverVars>>

EventUp(f) ==
  /\ rpc = "events" /\ f \in batch /\ ~SoError(f) /\ fdstate[f] = 0
  /\ fdstate' = [fdstate EXCEPT ![f] = 1] /\ established' = established + 1
  /\ watch' = [watch EXCEPT ![f] = FALSE] /\ batch' = batch \ {f}
  /\ UNCHANGED <<netVars, rpc, budget, fdconn, opened, dropped, serverVars>>

\* Mutant: fdstate keeps the 1 of the connection that is gone.
EventDown_KeepsState(f) ==
  /\ rpc = "events" /\ f \in batch /\ ~SoError(f) /\ fdstate[f] = 1
  /\ CloseFd(f)
  /\ established' = established - 1 /\ dropped' = dropped + 1
  /\ batch' = batch \ {f}
  /\ UNCHANGED <<link, finS, queue, rpc, budget, fdstate, watch, opened, serverVars>>

EventDown(f) ==
  /\ rpc = "events" /\ f \in batch /\ ~SoError(f) /\ fdstate[f] = 1
  /\ fdstate' = [fdstate EXCEPT ![f] = 0] /\ CloseFd(f)
  /\ established' = established - 1 /\ dropped' = dropped + 1
  /\ batch' = batch \ {f}
  /\ UNCHANGED <<link, finS, queue, rpc, budget, watch, opened, serverVars>>

EventsDone ==     \* the target decides between another turn, holding and leaving
  /\ rpc = "events" /\ batch = {}
  /\ rpc' = IF established < target THEN "top" ELSE IF Hold THEN "hold" ELSE "done"
  /\ UNCHANGED <<netVars, batch, budget, fdconn, fdstate, watch, opened, established,
                 dropped, serverVars>>

(* conn-ramper: holding, and the end *)

HoldWait ==
  /\ rpc = "hold"
  /\ batch' = Ready /\ rpc' = "held"
  /\ UNCHANGED <<netVars, budget, fdconn, fdstate, watch, opened, established, dropped,
                 serverVars>>

HoldEvent(f) ==
  /\ rpc = "held" /\ f \in batch
  /\ fdstate' = [fdstate EXCEPT ![f] = 0] /\ CloseFd(f)
  /\ established' = established - 1 /\ dropped' = dropped + 1
  /\ batch' = batch \ {f}
  /\ UNCHANGED <<link, finS, queue, rpc, budget, watch, opened, serverVars>>

HoldTurn ==
  /\ rpc = "held" /\ batch = {} /\ rpc' = "hold"
  /\ UNCHANGED <<netVars, batch, budget, fdconn, fdstate, watch, opened, established,
                 dropped, serverVars>>

Interrupt ==      \* stop is seen, or the holding time is over
  /\ rpc \in {"top", "hold"} /\ rpc' = "done"
  /\ UNCHANGED <<netVars, batch, budget, fdconn, fdstate, watch, opened, established,
                 dropped, serverVars>>

Exit ==           \* the end of the process closes its descriptors
  /\ rpc = "done" /\ Open /= {}
  /\ finC' = finC \cup {fdconn[f] : f \in Open}
  /\ fdconn' = [f \in FDs |-> None]
  /\ UNCHANGED <<link, finS, queue, rpc, batch, budget, fdstate, watch, opened,
                 established, dropped, serverVars>>

Event == \E f \in batch : EventError(f) \/ EventUp(f) \/ EventDown(f) \/ HoldEvent(f)
Ramper == \/ SetBudget \/ OpenNoSocket \/ OpenError \/ OpenConnection \/ EpollWait
          \/ Event \/ EventsDone \/ HoldWait \/ HoldTurn \/ Exit

------------------------------------------------------------------------------
(* echo-conn-server: thread t.  The order in which it takes the elements of *)
(* one evs[] is open, and each is one step of its own.                      *)

Accept(t, c) ==
  /\ tpc[t] = "wait" /\ c \in queue[t]
  /\ queue' = [queue EXCEPT ![t] = @ \ {c}]
  /\ held' = [held EXCEPT ![t] = @ \cup {c}]
  /\ tpc' = [tpc EXCEPT ![t] = "count"]
  /\ UNCHANGED <<link, finC, finS, ramperVars, running, estab, accepted>>

\* Mutant: the connection is counted although it was closed again.
AcceptAddFails_Counts(t, c) ==
  /\ AddFails /\ tpc[t] = "wait" /\ c \in queue[t]
  /\ queue' = [queue EXCEPT ![t] = @ \ {c}]
  /\ finS' = finS \cup {c}
  /\ tpc' = [tpc EXCEPT ![t] = "count"]
  /\ UNCHANGED <<link, finC, ramperVars, running, held, estab, accepted>>

AcceptAddFails(t, c) ==
  /\ AddFails /\ tpc[t] = "wait" /\ c \in queue[t]
  /\ queue' = [queue EXCEPT ![t] = @ \ {c}]
  /\ finS' = finS \cup {c}
  /\ UNCHANGED <<link, finC, ramperVars, serverVars>>

CountEstab(t) ==
  /\ tpc[t] = "count"
  /\ estab' = estab + 1 /\ tpc' = [tpc EXCEPT ![t] = "count2"]
  /\ UNCHANGED <<netVars, ramperVars, running, held, accepted>>

CountAccepted(t) ==
  /\ tpc[t] = "count2"
  /\ accepted' = accepted + 1 /\ tpc' = [tpc EXCEPT ![t] = "wait"]
  /\ UNCHANGED <<netVars, ramperVars, running, held, estab>>

CloseHeld(t, c) ==    \* read returns 0, or EPOLLRDHUP
  /\ tpc[t] = "wait" /\ c \in held[t] /\ c \in finC
  /\ held' = [held EXCEPT ![t] = @ \ {c}]
  /\ finS' = finS \cup {c}
  /\ tpc' = [tpc EXCEPT ![t] = "uncount"]
  /\ UNCHANGED <<link, finC, queue, ramperVars, running, estab, accepted>>

Uncount(t) ==
  /\ tpc[t] = "uncount"
  /\ estab' = estab - 1 /\ tpc' = [tpc EXCEPT ![t] = "wait"]
  /\ UNCHANGED <<netVars, ramperVars, running, held, accepted>>

Terminate ==      \* SIGTERM
  /\ ServerStops /\ running /\ running' = FALSE
  /\ UNCHANGED <<netVars, ramperVars, tpc, held, estab, accepted>>

\* Closing a listening socket resets the connections still in its queue.
ResetQueues(T) ==
  /\ link' = [c \in Conns |-> IF \E t \in T : c \in queue[t] THEN "reset" ELSE link[c]]
  /\ queue' = [t \in Threads |-> IF t \in T THEN {} ELSE queue[t]]

ThreadStops(t) ==
  /\ ~running /\ tpc[t] = "wait"
  /\ ResetQueues({t})
  /\ tpc' = [tpc EXCEPT ![t] = "stopped"]
  /\ UNCHANGED <<finC, finS, ramperVars, running, held, estab, accepted>>

\* main does not wait for its threads: it prints the counts and exits.
ServerExits ==
  /\ ~running /\ \E t \in Threads : tpc[t] /= "exited"
  /\ ResetQueues(Threads)
  /\ finS' = finS \cup UNION {held[t] : t \in Threads}
  /\ held' = [t \in Threads |-> {}]
  /\ tpc' = [t \in Threads |-> "exited"]
  /\ UNCHANGED <<finC, ramperVars, running, estab, accepted>>

Thread(t) == \/ \E c \in Conns : Accept(t, c) \/ AcceptAddFails(t, c) \/ CloseHeld(t, c)
             \/ CountEstab(t) \/ CountAccepted(t) \/ Uncount(t) \/ ThreadStops(t)

(* The network: the kernel picks the listening socket by the address.      *)

Handshake(c) ==
  /\ link[c] = "syn" /\ c \notin finC
  /\ \E t \in Threads :
       /\ tpc[t] \notin {"stopped", "exited"}
       /\ queue' = [queue EXCEPT ![t] = @ \cup {c}]
  /\ link' = [link EXCEPT ![c] = "up"]
  /\ UNCHANGED <<finC, finS, ramperVars, serverVars>>

Refused(c) ==
  /\ link[c] = "syn" /\ c \notin finC
  /\ link' = [link EXCEPT ![c] = "refused"]
  /\ UNCHANGED <<finC, finS, queue, ramperVars, serverVars>>

Network == \E c \in Conns : Handshake(c) \/ Refused(c)

Next == \/ Ramper \/ Interrupt \/ Network \/ Terminate \/ ServerExits
        \/ \E t \in Threads : Thread(t)

Spec == Init /\ [][Next]_vars

\* Both programs are scheduled, every handshake is answered, the time that passes
\* gives a turn a budget again and again, and the port numbers, which go round,
\* are not taken every time.  Nobody has to interrupt the ramper or stop the
\* server; a stopped server exits.
FairSpec == Spec /\ WF_vars(Ramper) /\ WF_vars(Network) /\ WF_vars(ServerExits)
                 /\ SF_vars(SetBudget /\ budget' > 0) /\ SF_vars(OpenConnection)
                 /\ \A t \in Threads : WF_vars(Thread(t))

------------------------------------------------------------------------------
TypeOK ==
  /\ link \in [Conns -> {"new", "syn", "up", "refused", "reset"}]
  /\ finC \subseteq Conns /\ finS \subseteq Conns
  /\ queue \in [Threads -> SUBSET Conns] /\ held \in [Threads -> SUBSET Conns]
  /\ rpc \in {"top", "open", "events", "hold", "held", "done"}
  /\ batch \subseteq FDs /\ budget \in 0..MaxBudget
  /\ fdconn \in [FDs -> Conns \cup {None}]
  /\ fdstate \in [FDs -> {0, 1}] /\ watch \in [FDs -> BOOLEAN]
  /\ opened \in Nat /\ established \in Int /\ dropped \in Nat
  /\ running \in BOOLEAN /\ estab \in Int /\ accepted \in Nat
  /\ tpc \in [Threads -> {"wait", "count", "count2", "uncount", "stopped", "exited"}]

\* No connection was reset: where the error branch (line 123) has not left a
\* descriptor behind whose fdstate is 1.
NoReset == \A c \in Conns : link[c] /= "reset"

\* est is the number of sockets the ramper holds that have been counted, through
\* every reuse of a descriptor, until one is reset (see EstWithinSockets) or the
\* hold loop takes off one that comes up beyond the target (lines 151-156).
EstIsCounted ==
  rpc /= "done" /\ NoReset /\ opened <= target => established = Cardinality({f \in Open : fdstate[f] = 1})

\* The main loop closes a connection only if the server or the network ended it,
\* until a connection is reset.
ClosesOnlyEnded ==
  [][\A f \in FDs : NoReset /\ rpc = "events" /\ fdconn[f] /= None /\ fdconn'[f] = None
       => fdconn[f] \in finS \/ SoError(f)]_vars

\* g_estab is the number of connections the threads hold, short of the one each
\* thread is about to count and over by the one it has yet to take off.
EstabIsHeld ==
  (\A t \in Threads : tpc[t] /= "exited") =>
    estab + Cardinality({t \in Threads : tpc[t] = "count"})
      = Cardinality(UNION {held[t] : t \in Threads})
          + Cardinality({t \in Threads : tpc[t] = "uncount"})

(* The parts of the inductive invariant of the proofs.                     *)

\* A connection is in one queue, held by one thread, or closed by the server, and
\* its handshake is over then.
ServerInv ==
  /\ \A t \in Threads : \A c \in queue[t] \cup held[t] : link[c] = "up" /\ c \notin finS
  /\ \A c \in finS : link[c] = "up"
  /\ \A t, u \in Threads :
       /\ queue[t] \cap held[u] = {}
       /\ t /= u => queue[t] \cap queue[u] = {} /\ held[t] \cap held[u] = {}

\* fdstate is 1 only for a connection that stands and is not polled for EPOLLOUT.
CountedInv ==
  NoReset /\ rpc /= "done" => \A f \in FDs :
    fdstate[f] = 1 => f \in Open /\ link[fdconn[f]] = "up" /\ ~watch[f]

\* An event in the batch is about the connection its descriptor has now; if that
\* was counted before, it has ended.
BatchInv ==
  rpc \in {"events", "held"} => \A f \in batch :
    /\ f \in Open /\ link[fdconn[f]] \in {"up", "refused", "reset"}
    /\ NoReset /\ fdstate[f] = 1 => fdconn[f] \in finS \/ SoError(f)

\* While the ramper holds, all it has open has been counted.
HoldInv ==
  /\ Cardinality(Open) <= opened
  /\ rpc \in {"hold", "held"} /\ NoReset /\ opened <= target =>
       \A f \in Open : fdstate[f] = 1

IInv == TypeOK /\ ServerInv /\ CountedInv /\ BatchInv /\ HoldInv
          /\ EstIsCounted /\ EstabIsHeld

(* Liveness.                                                               *)

\* The ramper gets the connections it was told to get, through every local error,
\* unless it is interrupted, the server stops, or a connection is lost, which the
\* ramper does not make up for (line 93).  While it holds, the two programs come to
\* agree on how many connections stand, although they count them independently.
Reaches ==
  /\ <>(\/ established = target \/ rpc = "done" \/ ~running \/ dropped > 0
        \/ \E c \in Conns : link[c] = "refused")
  /\ rpc = "hold" /\ opened <= target ~> (estab = established \/ rpc = "done" \/ ~running)

\* Once the server is gone the ramper gives back every descriptor: whatever a
\* connection was doing, something wakes the ramper for it.
LetsGo == (\A t \in Threads : tpc[t] = "exited") ~> (Open = {})

\* est does not exceed the sockets there are: the bug conn-ramper.c:83-84 says
\* fdstate is there to prevent.
EstWithinSockets == rpc /= "done" => established <= Cardinality(Open)
=============================================================================
