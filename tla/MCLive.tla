-------------------------------- MODULE MCLive -------------------------------
(***************************************************************************)
(* The programs that must go on, each under the fairness of its own        *)
(* scheduling: the two echo servers with one process, a worker process and *)
(* a worker thread, with two clients that share one descriptor; the ring,  *)
(* whose indices wrap; the flag two threads pass to and fro; and the read  *)
(* that an alarm interrupts.  A behaviour is one of the program it chose   *)
(* at the start; the others stay where they begin.                         *)
(***************************************************************************)
EXTENDS SpscRing

CONSTANTS Chosen, c1, c2, f1, None, Listen

VARIABLE part
VARIABLES phase, fin, rst, sent, rd, out, wr, peerGot, nospace,
          backlog, owner, interest, ready,
          pc, cur, batch, state, connBuf, buf_len, buf_sent,
          way, flag, mtx, waiting, at, turns,
          step, alarm, input, result, rang

echoVars == <<phase, fin, rst, sent, rd, out, wr, peerGot, nospace, backlog, owner, interest,
              ready, pc, cur, batch, state, connBuf, buf_len, buf_sent>>
serverVars == <<pc, cur, batch, state, connBuf, buf_len, buf_sent>>
pingVars == <<way, flag, mtx, waiting, at, turns>>
alarmVars == <<step, alarm, input, result, rang>>
liveVars == <<part, vars, echoVars, pingVars, alarmVars>>

Et == INSTANCE EpollEcho WITH Trigger <- "ET", BufSize <- 2,
  Clients <- {c1, c2}, FDs <- {f1}, N <- 2, SndCap <- 1, RcvCap <- 2, BacklogCap <- 2,
  MaxEvents <- 3, MayFin <- {c1}, MayReset <- {c2}, AddFails <- FALSE,
  got <- peerGot, buf <- connBuf
Lt == INSTANCE EpollEcho WITH Trigger <- "LT", BufSize <- 3,
  Clients <- {c1, c2}, FDs <- {f1}, N <- 3, SndCap <- 1, RcvCap <- 2, BacklogCap <- 2,
  MaxEvents <- 3, MayFin <- {c1}, MayReset <- {c2}, AddFails <- FALSE,
  got <- peerGot, buf <- connBuf
Mp == INSTANCE WorkerLoop WITH Trigger <- "ET", BufSize <- 1,
  Clients <- {c1, c2}, FDs <- {f1}, N <- 2, SndCap <- 1, RcvCap <- 1, BacklogCap <- 2,
  MaxEvents <- 3, MayFin <- {c1}, MayReset <- {c2}, AddFails <- TRUE,
  got <- peerGot, buf <- connBuf
Mt == INSTANCE WorkerLoop WITH Trigger <- "LT", BufSize <- 1,
  Clients <- {c1, c2}, FDs <- {f1}, N <- 2, SndCap <- 1, RcvCap <- 1, BacklogCap <- 2,
  MaxEvents <- 3, MayFin <- {c1}, MayReset <- {c2}, AddFails <- TRUE,
  got <- peerGot, buf <- connBuf

Wait == INSTANCE Waits WITH ITERATIONS <- 3

\* The indices wrap while the items of one run go through.
ASSUME RingWraps == Cap >= 2 /\ N > M + 1

LiveInit ==
  /\ part \in Chosen
  /\ CASE part = "lt" -> Lt!Init
       [] part \in {"mp", "mt"} -> Mp!Init
       [] OTHER -> Et!Init
  /\ Init /\ (part /= "ring" => slots = 1)
  /\ Wait!PingInit /\ (part /= "ping" => way = "busy")
  /\ Wait!TimedInit

others == <<part, pingVars, alarmVars>>
ring == part = "ring" /\ UNCHANGED <<others, echoVars>>
et == part = "et" /\ UNCHANGED <<others, vars>>
lt == part = "lt" /\ UNCHANGED <<others, vars>>
mp == part = "mp" /\ UNCHANGED <<others, vars>>
mt == part = "mt" /\ UNCHANGED <<others, vars>>
ping == part = "ping" /\ UNCHANGED <<part, vars, echoVars, alarmVars>>
timed == part = "timed" /\ UNCHANGED <<part, vars, echoVars, pingVars>>

LiveNext == \/ ring /\ Next
            \/ et /\ Et!Next
            \/ lt /\ Lt!Next
            \/ mp /\ (Mp!WorkerProcess \/ Mp!PeerStep)
            \/ mt /\ (Mt!WorkerThread \/ Mt!PeerStep)
            \/ ping /\ Wait!PingNext
            \/ timed /\ Wait!TimedNext

\* What a server does, and what a client goes on to do.
ServerRuns == \/ et /\ Et!Server
              \/ lt /\ Lt!Server
              \/ mp /\ Mp!WorkerProcess
              \/ mt /\ Mt!WorkerThread
Receives(c) == /\ UNCHANGED serverVars
               /\ \/ et /\ Et!PeerRecv(c)
                  \/ lt /\ Lt!PeerRecv(c)
                  \/ mp /\ Mp!PeerRecv(c)
                  \/ mt /\ Mt!PeerRecv(c)
Closes(c) == /\ UNCHANGED serverVars
             /\ \/ et /\ Et!PeerFin(c)
                \/ lt /\ Lt!PeerFin(c)
                \/ mp /\ Mp!PeerFin(c)
                \/ mt /\ Mt!PeerFin(c)

\* The fairness of SpscRing and of EpollEcho, for the program that was chosen.  A
\* thread that waits for a mutex which keeps coming free gets it some time, however
\* often the other one wakes for no reason; and an alarm rings.
LiveSpec ==
  /\ LiveInit /\ [][LiveNext]_liveVars
  /\ WF_liveVars(ring /\ Producer) /\ WF_liveVars(ring /\ Consumer)
  /\ WF_liveVars(ring /\ SeeHead) /\ WF_liveVars(ring /\ SeeTail)
  /\ WF_liveVars(ServerRuns)
  /\ \A c \in {c1, c2} : WF_liveVars(Receives(c)) /\ WF_liveVars(Closes(c))
  /\ WF_liveVars(timed /\ Wait!ReadStep) /\ WF_liveVars(timed /\ Wait!Ring)
  /\ \A p \in {"main", "thread"} : /\ SF_liveVars(ping /\ Wait!Lock(p))
                                    /\ WF_liveVars(ping /\ Wait!Runs(p))

\* Servers and workers implement the abstract echo service: a client is sent its
\* own stream, in order, and nothing after its connection was closed.
ImplementsEcho == Lt!ImplementsEcho

\* A connection that is given up: its buffer filled up in the LT server, or the
\* worker process could not add it to epoll.
Abandoned(c) == (part = "lt" /\ Lt!Mismatched(c)) \/ (part = "mp" /\ Mp!Unwatched(c))

\* In every server an accepted connection has every byte that it sent come back,
\* unless its client closes or resets it or the server has given it up.
Echoed ==
  \A c \in {c1, c2} :
    phase[c] = "open" ~> peerGot[c] = sent[c] \/ c \in fin \cup rst \/ Abandoned(c)

\* In every server a connection whose peer has closed or reset it gives its
\* descriptor back, but for one the server has given up.
Reclaimed ==
  owner[f1] \in fin \cup rst ~> owner[f1] = None \/ \E c \in {c1, c2} : Abandoned(c)

\* With level-triggered events, a connection in the listen queue is taken out of it
\* as long as descriptors come free: none is forgotten there by an accept loop
\* that stopped at EMFILE.
Accepted ==
  \A c \in {c1, c2} :
    part \in {"lt", "mt"} /\ phase[c] = "backlog" ~> phase[c] /= "backlog" \/ Lt!FreeFd = {}

\* Both threads of the ring come to an end, so that main's join returns, unless
\* the process is killed by the store outside buf_; so do the two that pass the flag,
\* for no notification is lost; and a read returns, with its input or by its alarm,
\* unless the alarm rang before the read had begun to wait.
Finishes ==
  <>CASE part = "ring" -> ppc = "crash" \/ (i = N /\ got = N)
      [] part = "ping" -> \A p \in {"main", "thread"} : at[p] = "end"
      [] part = "timed" -> step = "done" \/ Wait!Missed
      [] OTHER -> TRUE
=============================================================================
