----------------------------- MODULE WorkerLoop -----------------------------
(***************************************************************************)
(* What one worker does with its connections: worker_loop of               *)
(* echo/day-02/echo-mp-server.c, a process, and of                         *)
(* echo/day-04/echo-mt-server.c, a thread.  Both write the handlers of     *)
(* EpollEcho out in the loop, but for what they do when the buffer is full *)
(* and when a connection cannot be added to epoll.                         *)
(***************************************************************************)
EXTENDS EpollEcho

BufferFull ==          \* to writing, and EPOLLOUT is registered in both modes
  /\ pc = "read" /\ buf_len[cur] >= BufSize
  /\ buf_sent' = [buf_sent EXCEPT ![cur] = 0]
  /\ state' = [state EXCEPT ![cur] = "STATE_WRITE"]
  /\ pc' = "modout"
  /\ UNCHANGED <<kernelVars, cur, batch, buf, buf_len>>

\* The process does not look at the result of EPOLL_CTL_ADD: the connection stays
\* open and nothing is ever heard of it again.
AcceptUnwatched ==
  /\ pc = "accept" /\ AddFails /\ backlog /= <<>>
  /\ \E f \in FreeFd : /\ conn_init(f)
                       /\ owner' = [owner EXCEPT ![f] = Head(backlog)]
  /\ phase' = [phase EXCEPT ![Head(backlog)] = "open"]
  /\ backlog' = Tail(backlog)
  /\ UNCHANGED <<fin, rst, sent, rd, out, wr, got, nospace, interest, ready, pc, cur, batch>>

Serve == \/ EpollWait \/ NextBatch \/ Dispatch \/ AcceptOne \/ AcceptEnds
         \/ ReadData \/ ReadCloses \/ ReadAgain \/ BufferFull \/ RegisterOut
         \/ HandleWrite \/ CloseIfMarked

WorkerProcess == Serve \/ AcceptUnwatched
WorkerThread == Serve \/ AcceptAddFails

\* A connection the process has accepted and does not watch.
Unwatched(c) == \E f \in FDs : owner[f] = c /\ interest[f] = {}
=============================================================================
