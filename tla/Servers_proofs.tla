--------------------------- MODULE Servers_proofs ---------------------------
(***************************************************************************)
(* The processes and threads of MCServers, for any number of workers, of   *)
(* connections and of notifications: the main thread outlives the workers  *)
(* of the threaded server, and a connection that waits is on its way to one*)
(* of them (EchoWorkers); the master of the multi-process server outlives  *)
(* its workers (EchoMaster); and the notified thread of the benchmark is   *)
(* woken by what it was sent (EventNotify).                                *)
(***************************************************************************)
EXTENDS MCServers, FiniteSetTheorems, TLAPS

------------------------------------------------------------------------------
(* The threads *)

\* A thread is among the watchers of the socket it accepts from, and every
\* socket has a watcher.
LEMMA WatchersOf ==
  ASSUME reuseport \in BOOLEAN
  PROVE  /\ \A t \in Threads : listen_fd(t) \in Listeners /\ t \in Watchers(listen_fd(t))
         /\ \A l \in Listeners : \E t \in Threads : listen_fd(t) = l
  BY WorkersAssumption DEF Threads, listen_fd, Listeners, Watchers, Shared

LEMMA InitIInv == Init => IInv
<1> SUFFICES ASSUME Init PROVE IInv OBVIOUS
<1> USE DEF Init
<1>1. TypeOK BY WorkersAssumption DEF TypeOK, Threads, Listeners, Shared
<1>2. JoinInv BY DEF JoinInv, Threads
<1>3. ConnInv BY DEF ConnInv
<1>4. ContextsOutlive /\ SomeoneComes
  BY DEF ContextsOutlive, SomeoneComes, Listeners
<1> QED BY <1>1, <1>2, <1>3, <1>4 DEF IInv

\* With descriptors for every connection, accept does not run out of them while
\* a connection waits.
LEMMA AmpleIsEnough ==
  ASSUME IInv, Ample, NEW l \in Listeners, queue[l] /= {}
  PROVE  Cardinality(Served) < maxServed
<1> USE DEF IInv, TypeOK
<1>1. PICK c \in queue[l] : c \in Conns OBVIOUS
<1>2. Served \subseteq Conns BY DEF Served
<1>3. c \notin Served BY <1>1 DEF ConnInv, Served
<1>4. IsFiniteSet(Conns) /\ IsFiniteSet(Served)
  BY <1>2, WorkersAssumption, FS_Subset
<1>5. /\ Cardinality(Served) <= Cardinality(Conns)
      /\ Cardinality(Served) = Cardinality(Conns) => Served = Conns
  BY <1>2, <1>4, FS_Subset
<1>6. Cardinality(Served) \in Nat /\ Cardinality(Conns) \in Nat
  BY <1>4, FS_CardinalityType
<1> QED BY <1>1, <1>3, <1>5, <1>6 DEF Ample

\* The peers and the signal.
LEMMA PeerStep ==
  ASSUME IInv, Signal \/ \E c \in Conns : Connect(c) \/ PeerCloses(c)
  PROVE  IInv'
<1> USE DEF IInv, TypeOK
<1>1. CASE Signal
  BY <1>1 DEF Signal, config, JoinInv, ConnInv, ContextsOutlive, SomeoneComes, Listeners
<1>2. ASSUME NEW c \in Conns, Connect(c) PROVE IInv'
  <2> USE <1>2 DEF Connect, mainVars, config
  <2>1. PICK l \in listening :
          /\ queue' = [queue EXCEPT ![l] = @ \cup {c}]
          /\ edge' = edge \cup {t \in Watchers(l) : wpc[t] \notin {"start", "exit"}}
    OBVIOUS
  <2>2. l \in Listeners /\ Listeners' = Listeners /\ Watchers(l) \subseteq Threads
    BY DEF Listeners, Watchers
  <2>3. TypeOK' BY <2>1, <2>2
  <2>4. JoinInv' BY DEF JoinInv
  <2>5. ConnInv' BY <2>1, <2>2 DEF ConnInv
  <2>6. ContextsOutlive' BY DEF ContextsOutlive
  <2>7. SomeoneComes'
    <3> SUFFICES ASSUME NEW m \in listening, queue'[m] /= {}, running, mode_et => Ample
                 PROVE  \E t \in Watchers(m) :
                          wpc[t] \in {"start", "accept"} \/ Readable(t)'
      BY DEF SomeoneComes, Ample, Watchers, listen_fd, Readable
    <3>1. PICK t \in Threads : listen_fd(t) = m BY WatchersOf
    <3>2. t \in Watchers(m) /\ wpc[t] /= "exit" BY <3>1 DEF Watchers, JoinInv
    <3>3. CASE m = l
      BY <2>1, <2>2, <3>1, <3>2, <3>3 DEF Readable, listen_fd
    <3>4. CASE m /= l
      <4>1. queue'[m] = queue[m] /\ edge \subseteq edge' BY <2>1, <2>2, <3>4
      <4>2. \A u \in Watchers(m) : Readable(u) => Readable(u)'
        BY <4>1 DEF Readable, Watchers, listen_fd
      <4> QED BY <4>1, <4>2 DEF SomeoneComes
    <3> QED BY <3>3, <3>4
  <2> QED BY <2>3, <2>4, <2>5, <2>6, <2>7
<1>3. ASSUME NEW c \in Conns, PeerCloses(c) PROVE IInv'
  <2> USE <1>3 DEF PeerCloses, mainVars, config
  <2>1. TypeOK' /\ Listeners' = Listeners BY DEF Listeners
  <2>2. JoinInv' /\ ContextsOutlive' BY DEF JoinInv, ContextsOutlive
  <2>3. ConnInv' BY <2>1 DEF ConnInv
  <2>4. SomeoneComes'
    BY DEF SomeoneComes, Ample, Watchers, listen_fd, Readable
  <2> QED BY <2>1, <2>2, <2>3, <2>4
<1> QED BY <1>1, <1>2, <1>3

\* Steps of a worker that leave the queues, the tables and the sockets alone.
LEMMA QuietStep ==
  ASSUME IInv, NEW t \in Threads, Check(t) \/ Timeout(t) \/ AcceptEnds(t)
  PROVE  IInv'
<1> USE DEF IInv, TypeOK
<1>0. /\ UNCHANGED <<mainVars, listening, queue, edge, conns, conn>>
      /\ \E s \in {"wait", "check"} : wpc' = [wpc EXCEPT ![t] = s]
      /\ wpc[t] /= "start" /\ wpc[t] /= "exit"
      /\ wpc[t] = "accept" =>
           queue[listen_fd(t)] = {} \/ Cardinality(Served) >= maxServed
  BY DEF Check, Timeout, AcceptEnds
<1> USE DEF mainVars, config
<1>1. TypeOK' /\ Listeners' = Listeners BY <1>0 DEF Listeners
<1>2. JoinInv' BY <1>0 DEF JoinInv, Threads
<1>3. ConnInv' BY <1>0, <1>1 DEF ConnInv
<1>4. ContextsOutlive' BY <1>0 DEF ContextsOutlive
<1>5. SomeoneComes'
  <2> SUFFICES ASSUME NEW l \in listening, queue[l] /= {}, running, mode_et => Ample
               PROVE  \E u \in Watchers(l) : wpc'[u] \in {"start", "accept"} \/ Readable(u)
    BY <1>0 DEF SomeoneComes, Ample, Watchers, listen_fd, Readable
  <2>1. PICK u \in Watchers(l) : wpc[u] \in {"start", "accept"} \/ Readable(u)
    BY DEF SomeoneComes
  <2>2. CASE u /= t \/ Readable(u)
    BY <1>0, <2>1, <2>2 DEF Watchers
  <2>3. CASE u = t /\ ~Readable(t)
    <3>1. wpc[t] = "accept" /\ listen_fd(t) = l BY <1>0, <2>1, <2>3 DEF Watchers
    <3>2. mode_et BY <3>1, <2>3 DEF Readable
    <3>3. Cardinality(Served) < maxServed BY <3>2, AmpleIsEnough
    <3>4. Served \subseteq Conns /\ IsFiniteSet(Served)
      BY WorkersAssumption, FS_Subset DEF Served
    <3> QED BY <1>0, <3>1, <3>3, <3>4, FS_CardinalityType, WorkersAssumption
  <2> QED BY <2>2, <2>3
<1> QED BY <1>1, <1>2, <1>3, <1>4, <1>5

\* A worker opens its socket and its epoll instance, or is woken for the socket.
LEMMA ListenerStep ==
  ASSUME IInv, NEW t \in Threads, Start(t) \/ WaitListener(t)
  PROVE  IInv'
<1> USE DEF IInv, TypeOK, mainVars, config
<1>0. /\ UNCHANGED <<mainVars, queue, conns, conn>>
      /\ listening' \subseteq listening \cup {listen_fd(t)} /\ edge' \subseteq edge \cup {t}
      /\ \A u \in Threads : u /= t => (u \in edge' <=> u \in edge)
      /\ \E s \in {"check", "accept"} : wpc' = [wpc EXCEPT ![t] = s]
      /\ wpc'[t] = "accept" \/ (queue[listen_fd(t)] /= {} => t \in edge')
      /\ wpc[t] /= "exit"
  BY DEF Start, WaitListener
<1>1. Listeners' = Listeners /\ listen_fd(t) \in Listeners
  BY <1>0, WatchersOf DEF Listeners
<1>2. TypeOK' BY <1>0, <1>1
<1>3. JoinInv' BY <1>0 DEF JoinInv, Threads
<1>4. ConnInv' BY <1>0, <1>1 DEF ConnInv
<1>5. ContextsOutlive' BY <1>0 DEF ContextsOutlive
<1>6. SomeoneComes'
  <2> SUFFICES ASSUME NEW l \in listening', queue[l] /= {}, running, mode_et => Ample
               PROVE  \E u \in Watchers(l) : wpc'[u] \in {"start", "accept"} \/ Readable(u)'
    BY <1>0 DEF SomeoneComes, Ample, Watchers, listen_fd
  <2>1. CASE l = listen_fd(t)
    <3>1. t \in Watchers(l) BY <2>1, WatchersOf
    <3> QED BY <1>0, <2>1, <3>1 DEF Readable, listen_fd
  <2>2. CASE l /= listen_fd(t)
    <3>1. PICK u \in Watchers(l) : wpc[u] \in {"start", "accept"} \/ Readable(u)
      BY <1>0, <2>2 DEF SomeoneComes
    <3>2. u \in Threads /\ u /= t BY <2>2, <3>1 DEF Watchers
    <3> QED BY <1>0, <3>1, <3>2 DEF Readable, listen_fd
  <2> QED BY <2>1, <2>2
<1> QED BY <1>2, <1>3, <1>4, <1>5, <1>6

\* A connection goes from a queue to a table, or from a table away.
LEMMA ConnStep ==
  ASSUME IInv, NEW t \in Threads, Accept(t) \/ CloseConn(t)
  PROVE  IInv'
<1> USE DEF IInv, TypeOK, mainVars, config
<1>0. Listeners' = Listeners /\ listen_fd(t) \in Listeners
  BY WatchersOf DEF Accept, CloseConn, Listeners
<1>1. CASE Accept(t)
  <2> USE <1>0, <1>1 DEF Accept
  <2>1. PICK c \in queue[listen_fd(t)] :
          /\ queue' = [queue EXCEPT ![listen_fd(t)] = @ \ {c}]
          /\ conns' = [conns EXCEPT ![t] = @ \cup {c}]
          /\ conn' = [conn EXCEPT ![c] = "served"]
    OBVIOUS
  <2>2. c \in Conns /\ conn[c] = "queued" BY <2>1 DEF ConnInv
  <2>3. TypeOK' BY <2>1, <2>2
  <2>4. JoinInv' /\ ContextsOutlive' BY DEF JoinInv, ContextsOutlive
  <2>5. \A l \in Listeners : queue'[l] \subseteq queue[l] /\ c \notin queue'[l]
    BY <2>1 DEF ConnInv
  <2>6. \A u \in Threads : c \notin conns[u] BY <2>2 DEF ConnInv
  <2>7. ConnInv' BY <2>1, <2>2, <2>5, <2>6 DEF ConnInv
  <2>8. SomeoneComes'
    <3> SUFFICES ASSUME NEW l \in listening, queue'[l] /= {}, running, mode_et => Ample
                 PROVE  \E u \in Watchers(l) :
                          wpc[u] \in {"start", "accept"} \/ Readable(u)'
      BY DEF SomeoneComes, Ample, Watchers, listen_fd, Readable
    <3>1. CASE l = listen_fd(t) BY <3>1, WatchersOf
    <3>2. CASE l /= listen_fd(t)
      <4>1. queue'[l] = queue[l] BY <2>1, <3>2
      <4>2. \A u \in Watchers(l) : Readable(u) => Readable(u)'
        BY <4>1 DEF Readable, Watchers, listen_fd
      <4> QED BY <4>1, <4>2 DEF SomeoneComes
    <3> QED BY <3>1, <3>2
  <2> QED BY <2>3, <2>4, <2>7, <2>8
<1>2. CASE CloseConn(t)
  <2> USE <1>0, <1>2 DEF CloseConn
  <2>1. PICK c \in conns[t] :
          /\ conn[c] = "gone" /\ conn' = [conn EXCEPT ![c] = "closed"]
          /\ conns' = [conns EXCEPT ![t] = @ \ {c}]
    OBVIOUS
  <2>2. TypeOK' BY <2>1
  <2>3. JoinInv' /\ ContextsOutlive' BY DEF JoinInv, ContextsOutlive
  <2>4. ConnInv' BY <2>1 DEF ConnInv
  <2>5. SomeoneComes' BY DEF SomeoneComes, Ample, Watchers, listen_fd, Readable
  <2> QED BY <2>2, <2>3, <2>4, <2>5
<1> QED BY <1>1, <1>2

\* A worker leaves, which it only does after the signal.
LEMMA LeaveStep == ASSUME IInv, NEW t \in Threads, Leave(t) PROVE IInv'
<1> USE DEF IInv, TypeOK, mainVars, config, Leave
<1>0. Listeners' = Listeners /\ listen_fd(t) \in Listeners /\ (reuseport => t \in Listeners)
  BY WatchersOf DEF Listeners
<1>1. TypeOK' BY <1>0
<1>2. JoinInv' BY DEF JoinInv, Threads
<1>3. ContextsOutlive' BY DEF ContextsOutlive
<1>4. ConnInv'
  <2>1. CASE reuseport
    <3>1. /\ queue' = [queue EXCEPT ![t] = {}]
          /\ conn' = [c \in Conns |-> IF c \in queue[t] THEN "reset" ELSE conn[c]]
      BY <2>1
    <3> QED BY <1>0, <2>1, <3>1 DEF ConnInv
  <2>2. CASE ~reuseport BY <1>0, <2>2 DEF ConnInv
  <2> QED BY <2>1, <2>2
<1>5. SomeoneComes' BY DEF SomeoneComes
<1> QED BY <1>1, <1>2, <1>3, <1>4, <1>5

\* main wakes up, and joins the threads one after the other.
LEMMA MainStep == ASSUME IInv, Wake \/ Join PROVE IInv'
<1> USE WorkersAssumption DEF IInv, TypeOK, Threads
<1>0. /\ UNCHANGED <<config, running, wpc, listening, queue, edge, conns, conn>> /\ ~running
      /\ \/ i' = i /\ mpc' = "join"
         \/ wpc[i] = "exit" /\ i < threads /\ i' = i + 1 /\ mpc' = "join"
         \/ wpc[i] = "exit" /\ i = threads /\ i' = i /\ mpc' = "done"
  BY DEF Wake, Join, JoinInv
<1> USE DEF config
<1>1. TypeOK' /\ Listeners' = Listeners BY <1>0 DEF Listeners
<1>2. JoinInv' BY <1>0 DEF JoinInv
<1>3. ConnInv' BY <1>0, <1>1 DEF ConnInv
<1>4. ContextsOutlive' BY <1>0 DEF ContextsOutlive, JoinInv
<1>5. SomeoneComes' BY <1>0 DEF SomeoneComes
<1> QED BY <1>1, <1>2, <1>3, <1>4, <1>5

LEMMA Stutter == ASSUME IInv, UNCHANGED vars PROVE IInv'
  BY DEF vars, mainVars, config, IInv, TypeOK, JoinInv, ConnInv, ContextsOutlive,
         SomeoneComes, Ample, Watchers, listen_fd, Readable, Listeners

LEMMA Invariant == Spec => []IInv
<1>1. ASSUME IInv, [Next]_vars PROVE IInv'
  <2>1. CASE \E t \in Threads : Worker(t)
    BY <1>1, <2>1, QuietStep, ListenerStep, ConnStep, LeaveStep DEF Worker
  <2> QED BY <1>1, <2>1, PeerStep, MainStep, Stutter DEF Next
<1> QED BY InitIInv, <1>1, PTL DEF Spec

\* main frees the contexts of the workers only after every worker has left
\* worker_loop, for any number of workers.
THEOREM ContextsSafe == Spec => []ContextsOutlive
<1>1. IInv => ContextsOutlive BY DEF IInv
<1> QED BY <1>1, Invariant, PTL

\* As long as the server runs, a connection in a listen queue is on its way to a
\* worker: with an own or a shared socket, level-triggered always, and
\* edge-triggered if accept does not run out of descriptors.
THEOREM NobodyForgotten == Spec => []SomeoneComes
<1>1. IInv => SomeoneComes BY DEF IInv
<1> QED BY <1>1, Invariant, PTL

------------------------------------------------------------------------------
(* The master *)

LEMMA MasterStarts == Ma!Init => Ma!IInv
  BY MasterAssumption
     DEF Ma!Init, Ma!IInv, Ma!TypeOK, Ma!WaitedInv, Ma!EndsLast, Ma!Workers

\* The master's own steps: forking, reaping, and the loop that waits.
LEMMA MasterStep == ASSUME Ma!IInv, Ma!Master PROVE Ma!IInv'
<1> USE MasterAssumption DEF Ma!IInv, Ma!TypeOK, Ma!Workers
<1>0. k \in Nat /\ num_workers \in Nat OBVIOUS
<1>1. CASE Ma!Fork
  BY <1>0, <1>1 DEF Ma!Fork, Ma!WaitedInv, Ma!EndsLast
<1>2. CASE Ma!ForkFails
  BY <1>2 DEF Ma!ForkFails, Ma!WaitedInv, Ma!EndsLast
<1>3. CASE Ma!Reap
  BY <1>3 DEF Ma!Reap, Ma!WaitedInv, Ma!EndsLast
<1>4. CASE Ma!Sleep \/ Ma!LeaveLoop
  BY <1>4 DEF Ma!Sleep, Ma!LeaveLoop, Ma!WaitedInv, Ma!EndsLast
<1>5. CASE Ma!Kill
  BY <1>0, <1>5 DEF Ma!Kill, Ma!WaitedInv, Ma!EndsLast
<1>6. CASE Ma!Wait
  <2> USE <1>6 DEF Ma!Wait
  <2>1. proc[k] \in {"zombie", "gone", "other"} BY DEF Ma!WaitedInv
  <2>2. \A w \in 1..k : proc'[w] \in {"gone", "other"}
    BY <1>0, <2>1 DEF Ma!WaitedInv
  <2>3. Ma!TypeOK' BY <1>0, <2>1
  <2>4. Ma!WaitedInv' BY <1>0, <2>2 DEF Ma!WaitedInv
  <2>5. Ma!EndsLast' BY <1>0, <2>2 DEF Ma!EndsLast
  <2> QED BY <2>3, <2>4, <2>5
<1> QED BY <1>1, <1>2, <1>3, <1>4, <1>5, <1>6 DEF Ma!Master

\* Signals, workers that end, pids that are used again, and the steps of others.
LEMMA WorkerStep ==
  ASSUME Ma!IInv,
         \/ Ma!Signal \/ Ma!SignalGroup \/ UNCHANGED masterVars
         \/ \E w \in Ma!Workers : Ma!Continue(w) \/ Ma!WorkerEnds(w) \/ Ma!PidReused(w)
  PROVE  Ma!IInv'
<1> USE MasterAssumption DEF Ma!IInv, Ma!TypeOK, Ma!Workers, Ma!WaitedInv, Ma!EndsLast
<1>1. CASE Ma!Signal BY <1>1 DEF Ma!Signal
<1>2. CASE Ma!SignalGroup BY <1>2 DEF Ma!SignalGroup
<1>3. CASE UNCHANGED masterVars BY <1>3 DEF masterVars
<1>4. ASSUME NEW w \in Ma!Workers, Ma!Continue(w) PROVE Ma!IInv' BY <1>4 DEF Ma!Continue
<1>5. ASSUME NEW w \in Ma!Workers, Ma!WorkerEnds(w) PROVE Ma!IInv' BY <1>5 DEF Ma!WorkerEnds
<1>6. ASSUME NEW w \in Ma!Workers, Ma!PidReused(w) PROVE Ma!IInv' BY <1>6 DEF Ma!PidReused
<1> QED BY <1>1, <1>2, <1>3, <1>4, <1>5, <1>6

\* When the master returns, every worker has ended and has been reaped,
\* whatever the order in which workers crashed, signals came and pids were used
\* again.
THEOREM MasterEndsLast == ServersSpec => []EndsLast
<1>1. ServersInit => Ma!IInv
  BY MasterStarts DEF ServersInit
<1>2. Ma!IInv /\ [ServersNext]_allVars => Ma!IInv'
  <2> SUFFICES ASSUME Ma!IInv, [ServersNext]_allVars PROVE Ma!IInv'
    OBVIOUS
  <2>1. Ma!Next \/ UNCHANGED masterVars
    BY DEF ServersNext, workers, notify, allVars
  <2> QED BY <2>1, MasterStep, WorkerStep DEF Ma!Next
<1>3. Ma!IInv => EndsLast
  BY DEF Ma!IInv, EndsLast
<1> QED BY <1>1, <1>2, <1>3, PTL DEF ServersSpec

------------------------------------------------------------------------------
(* The notified thread *)

NotifyTypes ==
  /\ mainPc \in {"kill", "join1", "write", "sentinel", "join2", "end"}
  /\ pending \in BOOLEAN
  /\ killed \in Nat /\ waited \in Nat
  /\ counter \in Nat /\ written \in Nat /\ sum \in Nat

NotifyInv ==
  NotifyTypes /\ No!NoSpuriousSignal /\ No!EventfdConserves /\ No!LeavesOnSentinel

LEMMA NotifyStarts == No!Init => NotifyInv
<1> SUFFICES ASSUME No!Init PROVE NotifyInv
  OBVIOUS
<1>1. ~pending /\ pending \in BOOLEAN
  BY DEF No!Init
<1>2. killed = 0 /\ waited = 0 /\ counter = 0 /\ written = 0 /\ sum = 0
      /\ mainPc = "kill" /\ epc = "none"
  BY DEF No!Init
<1>3. No!NoSpuriousSignal
  BY <1>1, <1>2 DEF No!NoSpuriousSignal
<1> QED
  BY <1>1, <1>2, <1>3 DEF NotifyInv, NotifyTypes, No!EventfdConserves, No!LeavesOnSentinel

\* What is pending was sent by a pthread_kill that no sigwait has answered.
LEMMA SignalStep ==
  ASSUME NotifyInv, No!Go \/ No!Kill \/ No!LeaveSpin \/ No!Sigwait \/ No!JoinSignal
  PROVE  NotifyInv'
<1> USE DEF NotifyInv, NotifyTypes, No!sigVars, No!efdVars, No!NoSpuriousSignal
<1>1. CASE No!Go
  BY <1>1 DEF No!Go, No!EventfdConserves, No!LeavesOnSentinel
<1>2. CASE No!Kill
  <2>1. NotifyTypes' /\ No!EventfdConserves' /\ No!LeavesOnSentinel'
    BY <1>2 DEF No!Kill, No!EventfdConserves, No!LeavesOnSentinel
  <2>2. No!NoSpuriousSignal'
    BY <1>2 DEF No!Kill
  <2> QED BY <2>1, <2>2
<1>3. CASE No!LeaveSpin
  BY <1>3 DEF No!LeaveSpin, No!EventfdConserves, No!LeavesOnSentinel
<1>4. CASE No!Sigwait
  <2>1. pending /\ ~pending' /\ pending' \in BOOLEAN /\ killed' = killed /\ waited' = waited + 1
    BY <1>4 DEF No!Sigwait
  <2>2. No!NoSpuriousSignal'
    BY <2>1
  <2>3. UNCHANGED <<mainPc, epc, counter, written, sum>>
    BY <1>4 DEF No!Sigwait
  <2> QED BY <2>1, <2>2, <2>3 DEF No!EventfdConserves, No!LeavesOnSentinel
<1>5. CASE No!JoinSignal
  BY <1>5 DEF No!JoinSignal, No!EventfdConserves, No!LeavesOnSentinel
<1> QED BY <1>1, <1>2, <1>3, <1>4, <1>5

\* A read empties the counter; the worker leaves when the sum it reads is that of
\* the sentinel, alone or as so many counts.
LEMMA EventfdStep ==
  ASSUME NotifyInv, No!Write \/ No!WriteSentinel \/ No!Read \/ No!JoinEventfd
  PROVE  NotifyInv'
<1> USE NotifyAssumption
    DEF NotifyInv, NotifyTypes, No!sigVars, No!efdVars, No!EventfdConserves, No!LeavesOnSentinel
<1>1. CASE No!Write
  BY <1>1 DEF No!Write, No!NoSpuriousSignal
<1>2. CASE No!WriteSentinel
  BY <1>2 DEF No!WriteSentinel, No!NoSpuriousSignal
<1>3. CASE No!Read
  BY <1>3 DEF No!Read, No!NoSpuriousSignal
<1>4. CASE No!JoinEventfd
  BY <1>4 DEF No!JoinEventfd, No!NoSpuriousSignal
<1> QED BY <1>1, <1>2, <1>3, <1>4

\* However the signals are merged, and however the writes to the eventfd interleave
\* with the reads: sigwait answers no more signals than were sent, what was read and
\* what waits add up to what was written, and the worker leaves for the sentinel or
\* for as many unread counts.
THEOREM NothingMadeUp ==
  ServersSpec => [](No!NoSpuriousSignal /\ No!EventfdConserves /\ No!LeavesOnSentinel)
<1>1. ServersInit => NotifyInv
  BY NotifyStarts DEF ServersInit
<1>2. NotifyInv /\ [ServersNext]_allVars => NotifyInv'
  <2> SUFFICES ASSUME NotifyInv, [ServersNext]_allVars PROVE NotifyInv'
    OBVIOUS
  <2>1. No!Next \/ UNCHANGED notifyVars
    BY DEF ServersNext, workers, master, allVars
  <2>2. CASE UNCHANGED notifyVars
    BY <2>2 DEF notifyVars, NotifyInv, NotifyTypes, No!NoSpuriousSignal, No!EventfdConserves,
                No!LeavesOnSentinel
  <2> QED BY <2>1, <2>2, SignalStep, EventfdStep DEF No!Next, No!Main, No!SigWorker, No!EfdWorker
<1>3. NotifyInv => No!NoSpuriousSignal /\ No!EventfdConserves /\ No!LeavesOnSentinel
  BY DEF NotifyInv
<1> QED BY <1>1, <1>2, <1>3, PTL DEF ServersSpec
=============================================================================
