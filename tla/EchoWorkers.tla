---------------------------- MODULE EchoWorkers ----------------------------
(***************************************************************************)
(* The threads of echo/day-04/echo-mt-server.c: how connections reach      *)
(* them, through a listening socket each (reuseport) or one they share,    *)
(* and how they and main end.  What a worker does with a connection it has *)
(* is EpollEcho; here a connection is served until its peer closes it.     *)
(***************************************************************************)
EXTENDS Naturals, FiniteSets

CONSTANTS threads,     \* the number of workers
          Conns,
          MaxServed    \* bound: connections the process may have descriptors for

ASSUME WorkersAssumption ==
  threads \in Nat \ {0} /\ MaxServed \in Nat \ {0} /\ IsFiniteSet(Conns)

VARIABLES
  reuseport, mode_et,  \* the command line: a socket each or shared; ET or LT
  maxServed,           \* connections the process has descriptors for
  running, mpc, i,     \* main: sleep, join, done; the thread it joins
  wpc,                 \* thread -> start, check, wait, accept, exit
  listening, queue,    \* listening sockets that are open; their queues
  edge,                \* threads whose epoll instance has the listener's edge
  conns,               \* thread -> connections in its table
  conn                 \* connection -> new, queued, served, gone, closed, reset

Threads == 1..threads
Shared == 0
Listeners == IF reuseport THEN Threads ELSE {Shared}
listen_fd(t) == IF reuseport THEN t ELSE Shared
Watchers(l) == {t \in Threads : listen_fd(t) = l}

config == <<reuseport, mode_et, maxServed>>
mainVars == <<config, running, mpc, i>>
vars == <<mainVars, wpc, listening, queue, edge, conns, conn>>

Init ==
  /\ reuseport \in BOOLEAN /\ mode_et \in BOOLEAN /\ maxServed \in 1..MaxServed
  /\ (threads = 1 => reuseport)
  /\ running = TRUE /\ mpc = "sleep" /\ i = 1
  /\ wpc = [t \in Threads |-> "start"]
  /\ listening = Listeners \ Threads      \* main makes the shared one first
  /\ queue = [l \in Listeners |-> {}]
  /\ edge = {} /\ conns = [t \in Threads |-> {}]
  /\ conn = [c \in Conns |-> "new"]

Served == UNION {conns[t] : t \in Threads}
Readable(t) == IF mode_et THEN t \in edge ELSE queue[listen_fd(t)] /= {}

(* The peers and the signal *)

Connect(c) ==          \* the kernel picks a listening socket
  /\ conn[c] = "new"
  /\ \E l \in listening :
       /\ queue' = [queue EXCEPT ![l] = @ \cup {c}]
       /\ edge' = edge \cup {t \in Watchers(l) : wpc[t] \notin {"start", "exit"}}
  /\ conn' = [conn EXCEPT ![c] = "queued"]
  /\ UNCHANGED <<mainVars, wpc, listening, conns>>

PeerCloses(c) ==
  /\ conn[c] = "served" /\ conn' = [conn EXCEPT ![c] = "gone"]
  /\ UNCHANGED <<mainVars, wpc, listening, queue, edge, conns>>

Signal ==
  /\ running /\ running' = FALSE
  /\ UNCHANGED <<config, mpc, i, wpc, listening, queue, edge, conns, conn>>

(* worker_loop *)

Start(t) ==            \* listen, epoll_create1, epoll_ctl(ADD)
  /\ wpc[t] = "start"
  /\ listening' = listening \cup {listen_fd(t)}
  /\ edge' = IF queue[listen_fd(t)] /= {} THEN edge \cup {t} ELSE edge
  /\ wpc' = [wpc EXCEPT ![t] = "check"]
  /\ UNCHANGED <<mainVars, queue, conns, conn>>

Check(t) ==
  /\ wpc[t] = "check" /\ running
  /\ wpc' = [wpc EXCEPT ![t] = "wait"]
  /\ UNCHANGED <<mainVars, listening, queue, edge, conns, conn>>

\* Mutant: epoll_wait without a timeout (-1).
Timeout_Never(t) == FALSE /\ UNCHANGED vars

Timeout(t) ==          \* after 100 ms, or EINTR
  /\ wpc[t] = "wait"
  /\ wpc' = [wpc EXCEPT ![t] = "check"]
  /\ UNCHANGED <<mainVars, listening, queue, edge, conns, conn>>

WaitListener(t) ==
  /\ wpc[t] = "wait" /\ Readable(t)
  /\ edge' = edge \ {t}
  /\ wpc' = [wpc EXCEPT ![t] = "accept"]
  /\ UNCHANGED <<mainVars, listening, queue, conns, conn>>

\* Mutant: one accept for each event.
Accept_Once(t) ==
  /\ wpc[t] = "accept" /\ Cardinality(Served) < maxServed
  /\ \E c \in queue[listen_fd(t)] :
       /\ queue' = [queue EXCEPT ![listen_fd(t)] = @ \ {c}]
       /\ conns' = [conns EXCEPT ![t] = @ \cup {c}]
       /\ conn' = [conn EXCEPT ![c] = "served"]
  /\ wpc' = [wpc EXCEPT ![t] = "check"]
  /\ UNCHANGED <<mainVars, listening, edge>>

Accept(t) ==
  /\ wpc[t] = "accept" /\ Cardinality(Served) < maxServed
  /\ \E c \in queue[listen_fd(t)] :
       /\ queue' = [queue EXCEPT ![listen_fd(t)] = @ \ {c}]
       /\ conns' = [conns EXCEPT ![t] = @ \cup {c}]
       /\ conn' = [conn EXCEPT ![c] = "served"]
  /\ UNCHANGED <<mainVars, wpc, listening, edge>>

AcceptEnds(t) ==       \* EAGAIN, also when another thread was faster; or EMFILE
  /\ wpc[t] = "accept"
  /\ queue[listen_fd(t)] = {} \/ Cardinality(Served) >= maxServed
  /\ wpc' = [wpc EXCEPT ![t] = "check"]
  /\ UNCHANGED <<mainVars, listening, queue, edge, conns, conn>>

CloseConn(t) ==        \* an event of a connection whose peer has closed it
  /\ wpc[t] = "wait"
  /\ \E c \in conns[t] :
       /\ conn[c] = "gone" /\ conn' = [conn EXCEPT ![c] = "closed"]
       /\ conns' = [conns EXCEPT ![t] = @ \ {c}]
  /\ UNCHANGED <<mainVars, wpc, listening, queue, edge>>

Leave(t) ==            \* an own listening socket is closed, which resets its queue
  /\ wpc[t] = "check" /\ ~running
  /\ wpc' = [wpc EXCEPT ![t] = "exit"] /\ edge' = edge \ {t}
  /\ IF reuseport
       THEN /\ listening' = listening \ {t}
            /\ queue' = [queue EXCEPT ![t] = {}]
            /\ conn' = [c \in Conns |-> IF c \in queue[t] THEN "reset" ELSE conn[c]]
       ELSE UNCHANGED <<listening, queue, conn>>
  /\ UNCHANGED <<mainVars, conns>>

Worker(t) == \/ Start(t) \/ Check(t) \/ Timeout(t) \/ WaitListener(t) \/ Accept(t)
             \/ AcceptEnds(t) \/ CloseConn(t) \/ Leave(t)

(* main *)

Wake ==                \* sleep(1) is over
  /\ mpc = "sleep" /\ ~running
  /\ mpc' = "join"
  /\ UNCHANGED <<config, running, i, wpc, listening, queue, edge, conns, conn>>

\* Mutant: main goes on without waiting for the thread.
Join_NoWait ==
  /\ mpc = "join"
  /\ IF i = threads THEN mpc' = "done" /\ i' = i ELSE mpc' = mpc /\ i' = i + 1
  /\ UNCHANGED <<config, running, wpc, listening, queue, edge, conns, conn>>

Join ==                \* and after the last one free(tids), free(ctxs)
  /\ mpc = "join" /\ wpc[i] = "exit"
  /\ IF i = threads THEN mpc' = "done" /\ i' = i ELSE mpc' = mpc /\ i' = i + 1
  /\ UNCHANGED <<config, running, wpc, listening, queue, edge, conns, conn>>

Next == \/ Signal \/ Wake \/ Join
        \/ \E c \in Conns : Connect(c) \/ PeerCloses(c)
        \/ \E t \in Threads : Worker(t)

Spec == Init /\ [][Next]_vars

\* The threads run; the kernel reports a ready listener and a closed connection
\* before the timeout infinitely often; peers close in the end.
FairSpec == /\ Spec /\ WF_vars(Wake \/ Join)
            /\ \A t \in Threads : /\ WF_vars(Worker(t))
                                  /\ SF_vars(WaitListener(t)) /\ SF_vars(CloseConn(t))
                                  /\ WF_vars(Accept(t) \/ AcceptEnds(t))
            /\ \A c \in Conns : WF_vars(PeerCloses(c))

------------------------------------------------------------------------------
TypeOK ==
  /\ reuseport \in BOOLEAN /\ mode_et \in BOOLEAN /\ maxServed \in 1..MaxServed
  /\ running \in BOOLEAN /\ mpc \in {"sleep", "join", "done"} /\ i \in Threads
  /\ wpc \in [Threads -> {"start", "check", "wait", "accept", "exit"}]
  /\ listening \subseteq Listeners /\ queue \in [Listeners -> SUBSET Conns]
  /\ edge \subseteq Threads /\ conns \in [Threads -> SUBSET Conns]
  /\ conn \in [Conns -> {"new", "queued", "served", "gone", "closed", "reset"}]

\* main frees the workers' contexts, which they read on every event, only when
\* no worker is left to read its own.
ContextsOutlive == mpc = "done" => \A t \in Threads : wpc[t] = "exit"

\* The process has a descriptor for every connection there can be.
Ample == maxServed >= Cardinality(Conns)

\* A waiting connection is on its way to some worker: one is accepting on its
\* socket, or has the socket's event coming, or has yet to open its epoll; in ET
\* mode only as long as accept does not run out of descriptors.
SomeoneComes ==
  \A l \in listening : queue[l] /= {} /\ running /\ (mode_et => Ample) =>
    \E t \in Watchers(l) : wpc[t] \in {"start", "accept"} \/ Readable(t)

(* The parts of the inductive invariant of the proofs.                     *)

\* main has joined the threads before i; nobody leaves before the signal.
JoinInv ==
  /\ \A t \in 1..(i - 1) : wpc[t] = "exit"
  /\ running => mpc = "sleep" /\ \A t \in Threads : wpc[t] /= "exit"

\* A connection is in one queue or in one thread's table, as conn says.
ConnInv ==
  /\ \A l \in Listeners : \A c \in queue[l] : conn[c] = "queued"
  /\ \A t \in Threads : \A c \in conns[t] : conn[c] \in {"served", "gone"}
  /\ \A l, m \in Listeners : queue[l] \cap queue[m] /= {} => l = m
  /\ \A t, u \in Threads : conns[t] \cap conns[u] /= {} => t = u

IInv == TypeOK /\ JoinInv /\ ConnInv /\ ContextsOutlive /\ SomeoneComes

(* Liveness.                                                               *)

\* Every connection is accepted, in whichever thread, unless the server stops; in
\* LT mode also the one that EMFILE left in the queue.
Accepted ==
  \A c \in Conns :
    conn[c] = "queued" /\ (mode_et => Ample) ~> (conn[c] /= "queued" \/ ~running)

\* A signal ends every worker and then main, although it interrupts only one
\* thread (echo-mt-server.c:167-171).
Stops == ~running ~> mpc = "done"
=============================================================================
