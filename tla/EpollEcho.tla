------------------------------ MODULE EpollEcho ------------------------------
(***************************************************************************)
(* The single-process epoll echo servers of echo/day-02: the               *)
(* edge-triggered one (echo-epoll-server.c, Trigger = "ET") and the        *)
(* level-triggered one (echo-epoll-lt-server.c, Trigger = "LT").  One      *)
(* action is one system call and the computation up to the next one, so    *)
(* the peers of EpollKernel act between any two calls of a handler.        *)
(*                                                                         *)
(* pc says where the process is:                                           *)
(*   wait      about to call epoll_wait                                    *)
(*   dispatch  at the top of the loop over the returned events             *)
(*   accept    in handle_accept, about to call accept                      *)
(*   read      in handle_read, at the top of its loop                      *)
(*   write     in handle_write, at the top of its loop                     *)
(*   modout    about to call epoll_ctl(MOD, EPOLLOUT)                      *)
(*   modin     about to call epoll_ctl(MOD, EPOLLIN)                       *)
(*   after     back from the handler, about to test for STATE_CLOSE        *)
(*   dead      killed by SIGPIPE                                           *)
(***************************************************************************)
EXTENDS EpollKernel

CONSTANTS BufSize,  \* BUFFER_SIZE
          AddFails  \* whether EPOLL_CTL_ADD may fail

ASSUME BufAssumption == BufSize \in Nat \ {0} /\ AddFails \in BOOLEAN

VARIABLES pc, cur, batch,                 \* control, the fd being handled, events[]
          state, buf, buf_len, buf_sent   \* conns[fd]

connVars == <<state, buf, buf_len, buf_sent>>
serverVars == <<pc, cur, batch, connVars>>
vars == <<kernelVars, serverVars>>

Zero == <<None, 0>>                    \* what memset and calloc leave in buf
ZeroBuf == [j \in 1..BufSize |-> Zero]
States == {"STATE_READ", "STATE_WRITE", "STATE_CLOSE"}
Me == owner[cur]                       \* the client of the connection in hand

Init ==
  /\ KernelInit
  /\ pc = "wait" /\ cur = Listen /\ batch = {}
  /\ state = [f \in FDs |-> "STATE_READ"]
  /\ buf = [f \in FDs |-> ZeroBuf]
  /\ buf_len = [f \in FDs |-> 0]
  /\ buf_sent = [f \in FDs |-> 0]

conn_init(f) ==
  /\ state' = [state EXCEPT ![f] = "STATE_READ"]
  /\ buf_len' = [buf_len EXCEPT ![f] = 0]
  /\ buf_sent' = [buf_sent EXCEPT ![f] = 0]
  /\ buf' = buf

conn_close(f) ==
  /\ SysClose(f)
  /\ state' = [state EXCEPT ![f] = "STATE_READ"]
  /\ buf_len' = [buf_len EXCEPT ![f] = 0]
  /\ buf_sent' = [buf_sent EXCEPT ![f] = 0]
  /\ buf' = [buf EXCEPT ![f] = ZeroBuf]

------------------------------------------------------------------------------
(* handle_accept *)

FreeFd == {f \in FDs : owner[f] = None}

AcceptOne ==
  /\ pc = "accept"
  /\ \E f \in FreeFd : SysAccept(f) /\ conn_init(f)
  /\ UNCHANGED <<pc, cur, batch>>

\* epoll_ctl(ADD) fails: the descriptor is closed again, the slot stays set up.
AcceptAddFails ==
  /\ pc = "accept" /\ AddFails /\ backlog /= <<>>
  /\ \E f \in FreeFd : conn_init(f)
  /\ phase' = [phase EXCEPT ![Head(backlog)] = "closed"]
  /\ backlog' = Tail(backlog)
  /\ UNCHANGED <<fin, rst, sent, rd, out, wr, got, nospace, owner, interest, ready,
                 pc, cur, batch>>

\* Mutant: out of descriptors, the listening socket is taken out of epoll.
AcceptEnds_Unregisters ==
  /\ pc = "accept" /\ (backlog = <<>> \/ FreeFd = {})
  /\ ready' = IF backlog = <<>> THEN ready ELSE ready \ {Listen}
  /\ pc' = "dispatch"
  /\ UNCHANGED <<sockVars, backlog, owner, interest, cur, batch, connVars>>

\* EAGAIN, nothing is left to accept; or EMFILE, connections are waiting and no
\* descriptor is left.  Both leave the loop.
AcceptEnds ==
  /\ pc = "accept" /\ (backlog = <<>> \/ FreeFd = {})
  /\ pc' = "dispatch"
  /\ UNCHANGED <<kernelVars, cur, batch, connVars>>

(* handle_read *)

ReadFull ==        \* buffer full: switch to writing; the ET server registers EPOLLOUT
  /\ pc = "read" /\ buf_len[cur] >= BufSize
  /\ state' = [state EXCEPT ![cur] = "STATE_WRITE"]
  /\ pc' = IF Trigger = "ET" THEN "modout" ELSE "after"
  /\ UNCHANGED <<kernelVars, cur, batch, buf, buf_len, buf_sent>>

\* Mutant: read puts its bytes at the start of the buffer.
ReadData_AtStart ==
  /\ pc = "read" /\ buf_len[cur] < BufSize
  /\ \E n \in 1..(BufSize - buf_len[cur]) :
       /\ SysRead(cur, n)
       /\ buf' = [buf EXCEPT ![cur] = [j \in 1..BufSize |->
                    IF j <= n THEN <<Me, rd[Me] + j>> ELSE buf[cur][j]]]
       /\ buf_len' = [buf_len EXCEPT ![cur] = @ + n]
  /\ UNCHANGED <<pc, cur, batch, state, buf_sent>>

ReadData ==
  /\ pc = "read" /\ buf_len[cur] < BufSize
  /\ \E n \in 1..(BufSize - buf_len[cur]) :
       /\ SysRead(cur, n)
       /\ buf' = [buf EXCEPT ![cur] = [j \in 1..BufSize |->
                    IF buf_len[cur] < j /\ j <= buf_len[cur] + n
                      THEN <<Me, rd[Me] + j - buf_len[cur]>> ELSE buf[cur][j]]]
       /\ buf_len' = [buf_len EXCEPT ![cur] = @ + n]
  /\ UNCHANGED <<pc, cur, batch, state, buf_sent>>

\* Mutant: the end of the stream is taken for "no data yet".
ReadCloses_Ignored ==
  /\ pc = "read" /\ buf_len[cur] < BufSize
  /\ Me \in rst \/ (Me \in fin /\ Pending(Me) = 0)
  /\ pc' = "after"
  /\ UNCHANGED <<kernelVars, cur, batch, connVars>>

ReadCloses ==      \* read returns 0 after a FIN, or fails after a reset
  /\ pc = "read" /\ buf_len[cur] < BufSize
  /\ Me \in rst \/ (Me \in fin /\ Pending(Me) = 0)
  /\ state' = [state EXCEPT ![cur] = "STATE_CLOSE"]
  /\ pc' = "after"
  /\ UNCHANGED <<kernelVars, cur, batch, buf, buf_len, buf_sent>>

ReadAgain ==       \* EAGAIN: switch to writing if there is something to write
  /\ pc = "read" /\ buf_len[cur] < BufSize
  /\ Me \notin fin \cup rst /\ Pending(Me) = 0
  /\ IF buf_len[cur] > 0
       THEN /\ buf_sent' = [buf_sent EXCEPT ![cur] = 0]
            /\ state' = [state EXCEPT ![cur] = "STATE_WRITE"]
            /\ pc' = "modout"
       ELSE pc' = "after" /\ UNCHANGED <<buf_sent, state>>
  /\ UNCHANGED <<kernelVars, cur, batch, buf, buf_len>>

RegisterOut ==
  /\ pc = "modout"
  /\ SysCtl(cur, {"OUT"})
  /\ pc' = "after"
  /\ UNCHANGED <<cur, batch, connVars>>

(* handle_write *)

\* Mutant: one write per event, without going on until EAGAIN.
WriteSome_Once ==
  /\ pc = "write" /\ buf_sent[cur] < buf_len[cur] /\ Me \notin rst
  /\ \E n \in 1..(buf_len[cur] - buf_sent[cur]) :
       /\ SysWrite(cur, n, [k \in 1..n |-> buf[cur][buf_sent[cur] + k]])
       /\ buf_sent' = [buf_sent EXCEPT ![cur] = @ + n]
       /\ pc' = IF buf_sent[cur] + n < buf_len[cur] THEN "after" ELSE pc
  /\ UNCHANGED <<cur, batch, state, buf, buf_len>>

WriteSome ==
  /\ pc = "write" /\ buf_sent[cur] < buf_len[cur] /\ Me \notin rst
  /\ \E n \in 1..(buf_len[cur] - buf_sent[cur]) :
       /\ SysWrite(cur, n, [k \in 1..n |-> buf[cur][buf_sent[cur] + k]])
       /\ buf_sent' = [buf_sent EXCEPT ![cur] = @ + n]
  /\ UNCHANGED <<pc, cur, batch, state, buf, buf_len>>

\* Mutant: EAGAIN is taken for an error.
WriteAgain_AsError ==
  /\ pc = "write" /\ buf_sent[cur] < buf_len[cur] /\ Me \notin rst
  /\ SysWriteAgain(cur)
  /\ state' = [state EXCEPT ![cur] = "STATE_CLOSE"]
  /\ pc' = "after"
  /\ UNCHANGED <<cur, batch, buf, buf_len, buf_sent>>

WriteAgain ==      \* EAGAIN: wait for the next EPOLLOUT
  /\ pc = "write" /\ buf_sent[cur] < buf_len[cur] /\ Me \notin rst
  /\ SysWriteAgain(cur)
  /\ pc' = "after"
  /\ UNCHANGED <<cur, batch, connVars>>

WriteError ==      \* ECONNRESET
  /\ pc = "write" /\ buf_sent[cur] < buf_len[cur] /\ Me \in rst \ fin
  /\ state' = [state EXCEPT ![cur] = "STATE_CLOSE"]
  /\ pc' = "after"
  /\ UNCHANGED <<kernelVars, cur, batch, buf, buf_len, buf_sent>>

\* A reset that follows the peer's FIN turns write into EPIPE and raises
\* SIGPIPE, whose default action these servers leave in place.
WriteSigpipe ==
  /\ pc = "write" /\ buf_sent[cur] < buf_len[cur] /\ Me \in rst \cap fin
  /\ pc' = "dead"
  /\ UNCHANGED <<kernelVars, cur, batch, connVars>>

\* Mutant: buf_len survives the switch back to reading.
WriteDone_KeepsLength ==
  /\ pc = "write" /\ buf_sent[cur] >= buf_len[cur]
  /\ buf_sent' = [buf_sent EXCEPT ![cur] = 0]
  /\ state' = [state EXCEPT ![cur] = "STATE_READ"]
  /\ pc' = "modin"
  /\ UNCHANGED <<kernelVars, cur, batch, buf, buf_len>>

WriteDone ==       \* everything written: empty the buffer, back to reading
  /\ pc = "write" /\ buf_sent[cur] >= buf_len[cur]
  /\ buf_len' = [buf_len EXCEPT ![cur] = 0]
  /\ buf_sent' = [buf_sent EXCEPT ![cur] = 0]
  /\ state' = [state EXCEPT ![cur] = "STATE_READ"]
  /\ pc' = "modin"
  /\ UNCHANGED <<kernelVars, cur, batch, buf>>

RegisterIn ==
  /\ pc = "modin"
  /\ SysCtl(cur, {"IN"})
  /\ pc' = "after"
  /\ UNCHANGED <<cur, batch, connVars>>

------------------------------------------------------------------------------
(* The event loop.  An element of batch is one element of events[]; who is *)
(* the client its descriptor belonged to when epoll_wait returned, which   *)
(* the code does not know and only the properties use.                     *)

EpollWait ==
  /\ pc = "wait"
  /\ \E R \in SUBSET ready :
       /\ SysWait(R)
       /\ batch' = {[fd |-> x, events |-> Revents(x),
                     who |-> IF x = Listen THEN None ELSE owner[x]] : x \in R}
       /\ pc' = IF R = {} THEN "wait" ELSE "dispatch"
  /\ UNCHANGED <<cur, connVars>>

NextBatch ==
  /\ pc = "dispatch" /\ batch = {}
  /\ pc' = "wait"
  /\ UNCHANGED <<kernelVars, cur, batch, connVars>>

DispatchListen(e) ==
  /\ pc = "dispatch" /\ e.fd = Listen
  /\ batch' = batch \ {e}
  /\ pc' = "accept" /\ cur' = Listen
  /\ UNCHANGED <<kernelVars, connVars>>

\* Mutant: no continue after the close: the event goes on to the handlers.
DispatchHup_FallsThrough(e) ==
  /\ pc = "dispatch" /\ e.fd /= Listen /\ "HUP" \in e.events
  /\ conn_close(e.fd)
  /\ UNCHANGED <<pc, cur, batch>>

DispatchHup(e) ==
  /\ pc = "dispatch" /\ e.fd /= Listen /\ "HUP" \in e.events
  /\ batch' = batch \ {e}
  /\ conn_close(e.fd)
  /\ UNCHANGED <<pc, cur>>

Handler(e) ==
  IF state[e.fd] = "STATE_READ" /\ "IN" \in e.events THEN "read"
  ELSE IF state[e.fd] = "STATE_WRITE" /\ "OUT" \in e.events THEN "write"
  ELSE "after"

DispatchConn(e) ==
  /\ pc = "dispatch" /\ e.fd /= Listen /\ "HUP" \notin e.events
  /\ batch' = batch \ {e}
  /\ pc' = Handler(e) /\ cur' = e.fd
  /\ UNCHANGED <<kernelVars, connVars>>

CloseIfMarked ==
  /\ pc = "after"
  /\ IF state[cur] = "STATE_CLOSE" THEN conn_close(cur)
                                   ELSE UNCHANGED <<kernelVars, connVars>>
  /\ pc' = "dispatch"
  /\ UNCHANGED <<cur, batch>>

Dispatch == \E e \in batch : DispatchListen(e) \/ DispatchHup(e) \/ DispatchConn(e)
HandleAccept == AcceptOne \/ AcceptAddFails \/ AcceptEnds
HandleRead == \/ ReadFull \/ ReadData
              \/ ReadCloses \/ ReadAgain \/ RegisterOut
HandleWrite == \/ WriteSome \/ WriteAgain \/ WriteError
               \/ WriteSigpipe \/ WriteDone \/ RegisterIn

Server == EpollWait \/ NextBatch \/ Dispatch \/ HandleAccept
            \/ HandleRead \/ HandleWrite \/ CloseIfMarked

PeerStep == Peer /\ UNCHANGED serverVars

Next == Server \/ PeerStep

Spec == Init /\ [][Next]_vars

\* The process is scheduled, and peers read what they are sent and close what
\* they are allowed to close; nobody is obliged to connect or to send.
Fairness ==
  /\ WF_vars(Server)
  /\ \A c \in Clients : WF_vars(PeerRecv(c) /\ UNCHANGED serverVars)
  /\ \A c \in MayFin : WF_vars(PeerFin(c) /\ UNCHANGED serverVars)

FairSpec == Spec /\ Fairness

------------------------------------------------------------------------------
KernelTypeOK ==
  /\ phase \in [Clients -> {"idle", "backlog", "open", "closed"}]
  /\ fin \subseteq Clients /\ rst \subseteq Clients /\ nospace \subseteq Clients
  /\ sent \in [Clients -> 0..N] /\ rd \in [Clients -> 0..N]
  /\ wr \in [Clients -> Nat] /\ got \in [Clients -> Nat]
  /\ out = [c \in Clients |-> out[c]]
  /\ \A c \in Clients : out[c] \in [1..wr[c] -> Byte \cup {Zero}]
  /\ backlog \in Seq(Clients)
  /\ owner \in [FDs -> Clients \cup {None}]
  /\ interest \in [FDs -> SUBSET Event]
  /\ ready \subseteq FDs \cup {Listen}

ServerTypeOK ==
  /\ pc \in {"wait", "dispatch", "accept", "read", "write",
             "modout", "modin", "after", "dead"}
  /\ cur \in FDs \cup {Listen}
  /\ batch \subseteq [fd : FDs \cup {Listen}, events : SUBSET Event,
                      who : Clients \cup {None}]
  /\ state \in [FDs -> States]
  /\ buf \in [FDs -> [1..BufSize -> Byte \cup {Zero}]]
  /\ buf_len \in [FDs -> 0..BufSize] /\ buf_sent \in [FDs -> 0..BufSize]

TypeOK == KernelTypeOK /\ ServerTypeOK

\* What a client is sent back is its own stream, from the first byte on, in
\* order and without a gap: no byte is lost in the middle, repeated by a partial
\* write, or taken from a buffer that still holds another client's data.
EchoIdentity ==
  \A c \in Clients : wr[c] <= rd[c] /\ \A i \in 1..wr[c] : out[c][i] = <<c, i>>

\* While a connection is open, what was read and not yet written is exactly
\* what its buffer holds between buf_sent and buf_len.
BufferAccounts ==
  \A f \in FDs : owner[f] /= None =>
    /\ rd[owner[f]] - wr[owner[f]] = buf_len[f] - buf_sent[f]
    /\ \A j \in 1..buf_len[f] :
         buf[f][j] = <<owner[f], (rd[owner[f]] - buf_len[f]) + j>>

\* An event is handled for the connection that caused it, although the loop
\* closes descriptors and accepts into them while events of the same batch wait.
NoStaleEvent ==
  \A e \in batch : e.fd /= Listen => owner[e.fd] /= None /\ owner[e.fd] = e.who

\* Bytes the server took and never wrote back are lost only on a connection
\* whose peer closed or reset it.
LossOnlyAfterPeerCloses ==
  \A c \in Clients : phase[c] = "closed" /\ wr[c] < rd[c] => c \in fin \cup rst

CanGoOn(f) ==
  \/ state[f] = "STATE_READ" /\ (Pending(owner[f]) > 0 \/ owner[f] \in fin \cup rst)
  \/ state[f] = "STATE_WRITE" /\ (Space(owner[f]) > 0 \/ owner[f] \in rst)

\* While the process waits, it is registered for EPOLLIN where it would read and for
\* EPOLLOUT where it would write (echo-epoll-lt-server.c:299-300), and a
\* connection that can make progress has an event coming: it is on the ready list.
NoLostWakeup ==
  pc = "wait" => \A f \in FDs : owner[f] /= None =>
    /\ interest[f] = (IF state[f] = "STATE_READ" THEN {"IN"} ELSE {"OUT"})
    /\ CanGoOn(f) => f \in ready /\ Revents(f) /= {}

\* The server implements the abstract echo service of EchoSpec: whatever the
\* interleaving, a client only ever sees its own stream, in order, and nothing
\* after its connection was closed.
Echo == INSTANCE EchoSpec WITH
          serving <- {c \in Clients : phase[c] = "open"},
          over <- {c \in Clients : phase[c] = "closed"},
          arrived <- sent, echoed <- out, count <- wr

ImplementsEcho == Echo!Spec

------------------------------------------------------------------------------
(* The parts of the inductive invariant the proofs rest on.                *)

\* A descriptor in use belongs to one accepted client, and to no other one.
OwnerInv ==
  /\ \A f \in FDs : owner[f] /= None => phase[owner[f]] = "open"
  /\ \A f, g \in FDs : owner[f] /= None /\ owner[f] = owner[g] => f = g

\* The listen queue holds each waiting client once.
BacklogInv ==
  /\ \A i \in 1..Len(backlog) : phase[backlog[i]] = "backlog"
  /\ \A i, j \in 1..Len(backlog) : backlog[i] = backlog[j] => i = j

\* Nothing was read from or written to a client before it was accepted.
FreshInv ==
  \A c \in Clients : phase[c] \in {"idle", "backlog"} => rd[c] = 0 /\ wr[c] = 0

\* Counters are ordered: taken after arrived, delivered after written; nothing
\* of the buffer has been written while the connection is still reading.
CountInv ==
  /\ \A c \in Clients : rd[c] <= sent[c] /\ got[c] <= wr[c]
  /\ \A f \in FDs : owner[f] /= None =>
       /\ buf_sent[f] <= buf_len[f]
       /\ state[f] = "STATE_READ" => buf_sent[f] = 0

\* A handler works on an open connection whose event has left the batch; the
\* batch names a descriptor once; only open descriptors are on the ready list.
ControlInv ==
  /\ pc \in {"read", "write", "modout", "modin", "after"} =>
       /\ cur \in FDs /\ owner[cur] /= None
       /\ \A e \in batch : e.fd /= cur
       /\ pc = "read" => state[cur] = "STATE_READ"
       /\ pc = "write" => state[cur] = "STATE_WRITE"
  /\ \A d, e \in batch : d.fd = e.fd => d = e
  /\ \A f \in ready : f /= Listen => owner[f] /= None

IInv ==
  /\ TypeOK /\ OwnerInv /\ BacklogInv /\ FreshInv /\ CountInv /\ ControlInv
  /\ NoStaleEvent /\ BufferAccounts /\ EchoIdentity

------------------------------------------------------------------------------
(* Liveness.                                                               *)

\* A connection the level-triggered server left in STATE_WRITE with EPOLLIN
\* registered, after a read that filled its buffer (echo-epoll-lt-server.c:155):
\* no event will move it on.
Mismatched(c) ==
  pc = "wait" /\ \E f \in FDs : owner[f] = c /\ state[f] = "STATE_WRITE" /\ interest[f] = {"IN"}

\* Every byte of an accepted connection comes back to its client, unless the
\* client closes or resets it, also in the LT server: "下次 epoll_wait 还会再通知，
\* 不会丢数据" (echo-epoll-lt-server.c:326-327).
EchoedAlways ==
  \A c \in Clients : \A k \in 1..N :
    phase[c] = "open" /\ sent[c] >= k ~> got[c] >= k \/ c \in fin \cup rst
==============================================================================
