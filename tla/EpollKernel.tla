----------------------------- MODULE EpollKernel -----------------------------
(***************************************************************************)
(* The environment of the epoll echo servers: the TCP sockets of the       *)
(* clients, the listen queue and one epoll instance, as far as the servers *)
(* of echo/ rely on them.  None of this is code of the repository; it is   *)
(* what accept, read, write, close, epoll_ctl and epoll_wait do to a       *)
(* non-blocking socket.                                                    *)
(*                                                                         *)
(* The i-th byte client c sends is <<c, i>>, so a byte that is lost,       *)
(* repeated, reordered or delivered to another client can be told apart.   *)
(***************************************************************************)
EXTENDS Naturals, Sequences, FiniteSets

CONSTANTS
  Clients,    \* peers that may connect
  FDs,        \* descriptors the process may still open (RLIMIT_NOFILE)
  None,       \* no client
  Listen,     \* the listening descriptor in the ready list
  N,          \* bound: bytes a client sends
  SndCap,     \* bytes the kernel holds that the client has not read yet
  RcvCap,     \* receive window: bytes sent and not yet read by the server
  BacklogCap, \* LISTEN_BACKLOG
  MaxEvents,  \* MAX_EVENTS
  Trigger,    \* "ET" or "LT"
  MayFin,     \* clients that may shut down their sending side
  MayReset    \* clients that may reset the connection

ASSUME ClientAssumption == None \notin Clients /\ Listen \notin FDs
ASSUME BoundAssumption ==
  N \in Nat /\ SndCap \in Nat \ {0} /\ RcvCap \in Nat \ {0} /\ BacklogCap \in Nat \ {0}
ASSUME TriggerAssumption == Trigger \in {"ET", "LT"}

VARIABLES
  phase,    \* client -> "idle", "backlog", "open" (accepted) or "closed" (by the server)
  fin, rst, \* clients whose FIN, whose RST has arrived
  sent,     \* client -> bytes that have arrived at the server's socket
  rd,       \* client -> bytes the server has taken with read()
  out, wr,  \* client -> what the server has written, and how many bytes that is
  got,      \* client -> bytes of out the client has taken
  nospace,  \* clients whose socket owes a wake-up when send space comes back
  backlog,  \* completed connections nobody has accepted
  owner,    \* descriptor -> the client it is connected to, or None
  interest, \* descriptor -> events registered with epoll
  ready     \* the epoll ready list

sockVars == <<phase, fin, rst, sent, rd, out, wr, got, nospace>>
epollVars == <<backlog, owner, interest, ready>>
kernelVars == <<sockVars, epollVars>>

Byte == Clients \X (1..N)
Event == {"IN", "OUT", "HUP"}

Space(c) == SndCap - (wr[c] - got[c])
Pending(c) == sent[c] - rd[c]

\* What polling descriptor f for the events ev returns.  HUP stands for
\* EPOLLHUP and EPOLLERR, which a reset raises whatever is registered.
PollFor(f, ev) ==
  LET c == owner[f] IN
  {e \in {"IN"} : e \in ev /\ (Pending(c) > 0 \/ c \in fin \cup rst)}
    \cup {e \in {"OUT"} : e \in ev /\ (wr[c] - got[c] < SndCap \/ c \in rst)}
    \cup {e \in {"HUP"} : c \in rst}

Revents(x) == IF x = Listen THEN (IF backlog = <<>> THEN {} ELSE {"IN"})
                            ELSE PollFor(x, interest[x])

\* A poll for EPOLLOUT that finds no space leaves the socket owing a wake-up.
OwesSpace(f, ev) == {c \in {owner[f]} : "OUT" \in ev /\ wr[c] - got[c] >= SndCap}

\* The descriptors an event on c's socket puts on the ready list.
Wakes(c, ev) == {f \in FDs : owner[f] = c /\ interest[f] \cap ev /= {}}

------------------------------------------------------------------------------
KernelInit ==
  /\ phase = [c \in Clients |-> "idle"]
  /\ fin = {} /\ rst = {} /\ nospace = {}
  /\ sent = [c \in Clients |-> 0]
  /\ rd = [c \in Clients |-> 0]
  /\ wr = [c \in Clients |-> 0]
  /\ got = [c \in Clients |-> 0]
  /\ out = [c \in Clients |-> <<>>]
  /\ backlog = <<>>
  /\ owner = [f \in FDs |-> None]
  /\ interest = [f \in FDs |-> {}]
  /\ ready = {}

(* The peers. *)

Connect(c) ==
  /\ phase[c] = "idle" /\ Len(backlog) < BacklogCap
  /\ phase' = [phase EXCEPT ![c] = "backlog"]
  /\ backlog' = Append(backlog, c)
  /\ ready' = ready \cup {Listen}
  /\ UNCHANGED <<fin, rst, sent, rd, out, wr, got, nospace, owner, interest>>

Talking(c) == phase[c] \in {"backlog", "open"} /\ c \notin fin \cup rst

PeerSend(c) ==
  /\ Talking(c) /\ sent[c] < N /\ Pending(c) < RcvCap
  /\ sent' = [sent EXCEPT ![c] = @ + 1]
  /\ ready' = ready \cup Wakes(c, {"IN"})
  /\ UNCHANGED <<phase, fin, rst, rd, out, wr, got, nospace, backlog, owner, interest>>

PeerRecv(c) ==
  /\ phase[c] \in {"open", "closed"} /\ c \notin rst /\ got[c] < wr[c]
  /\ got' = [got EXCEPT ![c] = @ + 1]
  /\ nospace' = nospace \ {c}
  /\ ready' = ready \cup (IF c \in nospace THEN Wakes(c, {"OUT"}) ELSE {})
  /\ UNCHANGED <<phase, fin, rst, sent, rd, out, wr, backlog, owner, interest>>

PeerFin(c) ==
  /\ c \in MayFin /\ Talking(c)
  /\ fin' = fin \cup {c}
  /\ ready' = ready \cup Wakes(c, Event)
  /\ UNCHANGED <<phase, rst, sent, rd, out, wr, got, nospace, backlog, owner, interest>>

PeerReset(c) ==
  /\ c \in MayReset /\ phase[c] \in {"backlog", "open"} /\ c \notin rst
  /\ rst' = rst \cup {c}
  /\ ready' = ready \cup Wakes(c, Event)
  /\ UNCHANGED <<phase, fin, sent, rd, out, wr, got, nospace, backlog, owner, interest>>

Peer == \E c \in Clients :
          Connect(c) \/ PeerSend(c) \/ PeerRecv(c) \/ PeerFin(c) \/ PeerReset(c)

(* The system calls.  Each says which kernel variables it changes.         *)

SysCtl(f, ev) ==   \* EPOLL_CTL_MOD polls at once
  /\ interest' = [interest EXCEPT ![f] = ev]
  /\ nospace' = nospace \cup OwesSpace(f, ev)
  /\ ready' = ready \cup {g \in {f} : PollFor(f, ev) /= {}}
  /\ UNCHANGED <<phase, fin, rst, sent, rd, out, wr, got, backlog, owner>>

SysAccept(f) ==    \* accept() and EPOLL_CTL_ADD for EPOLLIN, which polls at once
  LET c == Head(backlog) IN
  /\ backlog /= <<>> /\ owner[f] = None
  /\ backlog' = Tail(backlog)
  /\ phase' = [phase EXCEPT ![c] = "open"]
  /\ owner' = [owner EXCEPT ![f] = c]
  /\ interest' = [interest EXCEPT ![f] = {"IN"}]
  /\ ready' = ready \cup {g \in {f} : Pending(c) > 0 \/ c \in fin \cup rst}
  /\ UNCHANGED <<fin, rst, sent, rd, out, wr, got, nospace>>

SysClose(f) ==     \* EPOLL_CTL_DEL and close()
  /\ phase' = [c \in Clients |-> IF c = owner[f] THEN "closed" ELSE phase[c]]
  /\ owner' = [owner EXCEPT ![f] = None]
  /\ interest' = [interest EXCEPT ![f] = {}]
  /\ ready' = ready \ {f}
  /\ UNCHANGED <<fin, rst, sent, rd, out, wr, got, nospace, backlog>>

SysRead(f, n) ==   \* takes n of the pending bytes
  /\ n \in 1..Pending(owner[f])
  /\ rd' = [rd EXCEPT ![owner[f]] = @ + n]
  /\ UNCHANGED <<phase, fin, rst, sent, out, wr, got, nospace, epollVars>>

SysWrite(f, n, data) ==   \* appends data[1..n] to what the client will see
  LET c == owner[f] IN
  /\ n \in 1..Space(c)
  /\ out' = [out EXCEPT ![c] = [i \in 1..(wr[c] + n) |->
                                  IF i <= wr[c] THEN out[c][i] ELSE data[i - wr[c]]]]
  /\ wr' = [wr EXCEPT ![c] = @ + n]
  /\ UNCHANGED <<phase, fin, rst, sent, rd, got, nospace, epollVars>>

SysWriteAgain(f) == \* EAGAIN: no space, the socket owes a wake-up
  /\ Space(owner[f]) = 0
  /\ nospace' = nospace \cup {owner[f]}
  /\ UNCHANGED <<phase, fin, rst, sent, rd, out, wr, got, epollVars>>

\* epoll_wait polls every item of the ready list: R is what it reports.  An
\* edge-triggered item leaves the list when it is reported, a level-triggered
\* one stays; an item with nothing to report leaves it either way.  With more
\* ready items than MaxEvents, any MaxEvents of them are reported.
SysWait(R) ==
  LET active == {x \in ready : Revents(x) /= {}} IN
  /\ ready /= {}
  /\ R \subseteq active
  /\ R /= active => Cardinality(R) = MaxEvents
  /\ ready' = IF Trigger = "ET" THEN active \ R ELSE active
  /\ nospace' = nospace \cup UNION {OwesSpace(f, interest[f]) : f \in ready \ {Listen}}
  /\ UNCHANGED <<phase, fin, rst, sent, rd, out, wr, got, backlog, owner, interest>>
==============================================================================
