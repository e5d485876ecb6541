-------------------------- MODULE EpollEcho_proofs --------------------------
(***************************************************************************)
(* Proofs about EpollEcho, for every set of clients and descriptors, every *)
(* buffer size, every capacity of the kernel and both triggering modes:    *)
(* the inductive invariant IInv, what follows from it, and that the server *)
(* implements EchoSpec.                                                    *)
(***************************************************************************)
EXTENDS EpollEcho, TLAPS

LEMMA InitIInv == Init => IInv
<1> SUFFICES ASSUME Init PROVE IInv
  OBVIOUS
<1>1. KernelTypeOK
  BY BoundAssumption DEF Init, KernelInit, KernelTypeOK
<1>2. ServerTypeOK
  BY BufAssumption DEF Init, ServerTypeOK, States, ZeroBuf
<1>3. OwnerInv /\ FreshInv /\ CountInv
  BY DEF Init, KernelInit, OwnerInv, FreshInv, CountInv
<1>4. BacklogInv
  BY DEF Init, KernelInit, BacklogInv
<1>5. ControlInv /\ NoStaleEvent /\ BufferAccounts /\ EchoIdentity
  BY DEF Init, KernelInit, ControlInv, NoStaleEvent, BufferAccounts, EchoIdentity
<1> QED BY <1>1, <1>2, <1>3, <1>4, <1>5 DEF IInv, TypeOK

------------------------------------------------------------------------------
(* What the invariant says of the connection a handler works on.           *)

LEMMA InHand ==
  ASSUME IInv, pc \in {"read", "write", "modout", "modin", "after"}
  PROVE  /\ cur \in FDs /\ Me \in Clients /\ owner[cur] = Me /\ phase[Me] = "open"
         /\ \A j \in 1..buf_len[cur] : buf[cur][j] = <<Me, (rd[Me] - buf_len[cur]) + j>>
         /\ \A f \in FDs : f /= cur => owner[f] /= Me
  BY ClientAssumption DEF IInv, TypeOK, KernelTypeOK, ServerTypeOK, OwnerInv,
    ControlInv, BufferAccounts, Me

LEMMA InHandCounts ==
  ASSUME IInv, pc \in {"read", "write", "modout", "modin", "after"}
  PROVE  /\ sent[Me] \in Nat /\ sent[Me] <= N
         /\ rd[Me] \in Nat /\ wr[Me] \in Nat /\ got[Me] \in Nat
         /\ wr[Me] <= rd[Me] /\ rd[Me] <= sent[Me] /\ got[Me] <= wr[Me]
         /\ buf_len[cur] \in Nat /\ buf_sent[cur] \in Nat
         /\ buf_sent[cur] <= buf_len[cur] /\ buf_len[cur] <= BufSize
         /\ rd[Me] - wr[Me] = buf_len[cur] - buf_sent[cur]
         /\ N \in Nat /\ BufSize \in Nat
  BY ClientAssumption, BoundAssumption, BufAssumption DEF IInv, TypeOK, KernelTypeOK,
    ServerTypeOK, CountInv, ControlInv, BufferAccounts, EchoIdentity, Me

------------------------------------------------------------------------------
(* The steps of the server.                                                *)

\* The steps that move the control and at most mark a connection.
QuietStep ==
  \/ NextBatch \/ AcceptEnds
  \/ ReadFull \/ ReadCloses \/ WriteError \/ WriteSigpipe
  \/ \E e \in batch : DispatchListen(e) \/ DispatchConn(e)

LEMMA QuietSteps == ASSUME IInv, QuietStep PROVE IInv'
<1>1. /\ UNCHANGED <<phase, fin, rst, sent, rd, out, wr, got, nospace>>
      /\ UNCHANGED <<backlog, owner, interest, ready, buf, buf_len, buf_sent>>
  BY DEF QuietStep, NextBatch, AcceptEnds, ReadFull,
    ReadCloses, WriteError, WriteSigpipe, DispatchListen, DispatchConn,
    kernelVars, sockVars, epollVars, connVars
<1>2. batch' \subseteq batch
  BY DEF QuietStep, NextBatch, AcceptEnds, ReadFull,
    ReadCloses, WriteError, WriteSigpipe, DispatchListen, DispatchConn
<1>3. /\ state' \in [FDs -> States]
      /\ \A f \in FDs : state'[f] = "STATE_READ" => state[f] = "STATE_READ"
  BY DEF QuietStep, NextBatch, AcceptEnds, ReadFull,
    ReadCloses, WriteError, WriteSigpipe, DispatchListen, DispatchConn, connVars,
    IInv, TypeOK, ServerTypeOK, States
<1>4. /\ cur' \in FDs \cup {Listen}
      /\ pc' \in {"wait", "dispatch", "accept", "read", "write",
                  "modout", "modin", "after", "dead"}
  BY DEF QuietStep, NextBatch, AcceptEnds, ReadFull,
    ReadCloses, WriteError, WriteSigpipe, DispatchListen, DispatchConn, Handler,
    IInv, TypeOK, ServerTypeOK
<1>5. KernelTypeOK' /\ ServerTypeOK'
  BY <1>1, <1>2, <1>3, <1>4 DEF IInv, TypeOK, KernelTypeOK, ServerTypeOK, Byte, Zero
<1>6. /\ OwnerInv' /\ BacklogInv' /\ FreshInv' /\ CountInv'
      /\ NoStaleEvent' /\ BufferAccounts' /\ EchoIdentity'
  BY <1>1, <1>2, <1>3 DEF IInv, OwnerInv, BacklogInv, FreshInv, CountInv, NoStaleEvent,
    BufferAccounts, EchoIdentity
<1>7. ControlInv'
  <2>1. CASE NextBatch \/ AcceptEnds \/ WriteSigpipe
    BY <1>1, <1>2, <2>1
      DEF NextBatch, AcceptEnds, WriteSigpipe, IInv, ControlInv
  <2>2. CASE ReadFull \/ ReadCloses \/ WriteError
    BY <1>1, <2>2 DEF ReadFull, ReadCloses, WriteError, IInv, ControlInv
  <2>3. ASSUME NEW e \in batch, DispatchListen(e) PROVE ControlInv'
    BY <1>1, <1>2, <2>3 DEF DispatchListen, IInv, ControlInv
  <2>4. ASSUME NEW e \in batch, DispatchConn(e) PROVE ControlInv'
    <3>1. /\ batch' = batch \ {e} /\ cur' = e.fd /\ pc' = Handler(e)
          /\ e.fd \in FDs /\ owner[e.fd] /= None /\ state' = state
      BY <2>4 DEF DispatchConn, IInv, NoStaleEvent, TypeOK, ServerTypeOK, connVars
    <3>2. /\ pc' = "read" => state[cur'] = "STATE_READ"
          /\ pc' = "write" => state[cur'] = "STATE_WRITE"
      BY <3>1 DEF Handler
    <3> QED BY <1>1, <3>1, <3>2 DEF IInv, ControlInv
  <2> QED BY <2>1, <2>2, <2>3, <2>4 DEF QuietStep
<1> QED BY <1>5, <1>6, <1>7 DEF IInv, TypeOK

\* The steps that only tell the kernel what to wait for.
LEMMA RegisterSteps ==
  ASSUME IInv, RegisterOut \/ RegisterIn \/ WriteAgain PROVE IInv'
<1>1. /\ UNCHANGED <<phase, fin, rst, sent, rd, out, wr, got, backlog, owner>>
      /\ UNCHANGED <<cur, batch, state, buf, buf_len, buf_sent>>
      /\ pc \in {"modout", "modin", "write"} /\ pc' = "after"
  BY DEF RegisterOut, RegisterIn, WriteAgain, SysCtl, SysWriteAgain, epollVars, connVars
<1>2. cur \in FDs /\ owner[cur] \in Clients
  BY <1>1 DEF IInv, TypeOK, KernelTypeOK, ControlInv
<1>3. /\ nospace' \subseteq Clients
      /\ interest' \in [FDs -> SUBSET Event]
      /\ \A f \in ready' : f \in ready \/ f = cur
      /\ ready' \subseteq FDs \cup {Listen}
  BY <1>2 DEF RegisterOut, RegisterIn, WriteAgain, SysCtl, SysWriteAgain, OwesSpace,
    epollVars, Event, IInv, TypeOK, KernelTypeOK
<1>4. KernelTypeOK' /\ ServerTypeOK'
  BY <1>1, <1>3 DEF IInv, TypeOK, KernelTypeOK, ServerTypeOK, Byte, Zero
<1>5. /\ OwnerInv' /\ BacklogInv' /\ FreshInv' /\ CountInv'
      /\ NoStaleEvent' /\ BufferAccounts' /\ EchoIdentity'
  BY <1>1 DEF IInv, OwnerInv, BacklogInv, FreshInv, CountInv, NoStaleEvent,
    BufferAccounts, EchoIdentity
<1>6. ControlInv'
  BY <1>1, <1>2, <1>3 DEF IInv, ControlInv
<1> QED BY <1>4, <1>5, <1>6 DEF IInv, TypeOK

LEMMA EpollWaitStep == ASSUME IInv, EpollWait PROVE IInv'
<1>1. /\ UNCHANGED <<phase, fin, rst, sent, rd, out, wr, got, backlog, owner, interest>>
      /\ UNCHANGED <<cur, state, buf, buf_len, buf_sent>>
      /\ pc' \in {"wait", "dispatch"}
  BY DEF EpollWait, SysWait, connVars
<1>2. ready' \subseteq ready /\ \A f \in ready : f /= Listen => f \in FDs /\ owner[f] \in Clients
  BY DEF EpollWait, SysWait, IInv, TypeOK, KernelTypeOK, ControlInv
<1>3. nospace' \subseteq Clients
  BY <1>2 DEF EpollWait, SysWait, OwesSpace, IInv, TypeOK, KernelTypeOK
<1>4. \A x \in ready : Revents(x) \in SUBSET Event
  BY DEF Revents, PollFor, Event
<1>5. \A e \in batch' :
        /\ e \in [fd : FDs \cup {Listen}, events : SUBSET Event, who : Clients \cup {None}]
        /\ e = [fd |-> e.fd, events |-> Revents(e.fd),
                who |-> IF e.fd = Listen THEN None ELSE owner[e.fd]]
        /\ e.fd \in ready
  <2>1. PICK R \in SUBSET ready :
          batch' = {[fd |-> x, events |-> Revents(x),
                     who |-> IF x = Listen THEN None ELSE owner[x]] : x \in R}
    BY DEF EpollWait
  <2>2. \A x \in R : /\ x \in FDs \cup {Listen}
                     /\ x = Listen \/ owner[x] \in Clients
    BY <1>2 DEF IInv, TypeOK, KernelTypeOK
  <2> HIDE DEF IInv
  <2> QED BY <1>4, <2>1, <2>2
<1>6. KernelTypeOK' /\ ServerTypeOK'
  BY <1>1, <1>2, <1>3, <1>5 DEF IInv, TypeOK, KernelTypeOK, ServerTypeOK, Byte, Zero
<1>7. OwnerInv' /\ BacklogInv' /\ FreshInv' /\ CountInv' /\ BufferAccounts' /\ EchoIdentity'
  BY <1>1 DEF IInv, OwnerInv, BacklogInv, FreshInv, CountInv, BufferAccounts, EchoIdentity
<1>8. ControlInv' /\ NoStaleEvent'
  <2>1. \A d, e \in batch' : d.fd = e.fd => d = e
    BY <1>5
  <2>2. \A e \in batch' : e.fd /= Listen => e.who = owner[e.fd] /\ owner[e.fd] /= None
    BY <1>2, <1>5, ClientAssumption
  <2> QED BY <1>1, <1>2, <2>1, <2>2 DEF IInv, ControlInv, NoStaleEvent
<1> QED BY <1>6, <1>7, <1>8 DEF IInv, TypeOK

\* Closing a connection no other event of the batch is about.
LEMMA ConnCloseStep ==
  ASSUME IInv, NEW f \in FDs, owner[f] /= None, conn_close(f),
         batch' \subseteq batch, \A e \in batch' : e.fd /= f,
         pc' = "dispatch", cur' = cur
  PROVE  IInv'
<1>1. /\ phase' = [c \in Clients |-> IF c = owner[f] THEN "closed" ELSE phase[c]]
      /\ owner' = [owner EXCEPT ![f] = None]
      /\ interest' = [interest EXCEPT ![f] = {}]
      /\ ready' = ready \ {f}
      /\ UNCHANGED <<fin, rst, sent, rd, out, wr, got, nospace, backlog>>
  BY DEF conn_close, SysClose
<1>2. /\ state' = [state EXCEPT ![f] = "STATE_READ"]
      /\ buf_len' = [buf_len EXCEPT ![f] = 0]
      /\ buf_sent' = [buf_sent EXCEPT ![f] = 0]
      /\ buf' = [buf EXCEPT ![f] = ZeroBuf]
  BY DEF conn_close
<1>3. /\ \A g \in FDs : owner'[g] = IF g = f THEN None ELSE owner[g]
      /\ \A c \in Clients : phase'[c] = IF c = owner[f] THEN "closed" ELSE phase[c]
      /\ \A g \in FDs : g /= f => /\ state'[g] = state[g] /\ buf'[g] = buf[g]
                                  /\ buf_len'[g] = buf_len[g] /\ buf_sent'[g] = buf_sent[g]
  BY <1>1, <1>2 DEF IInv, TypeOK, KernelTypeOK, ServerTypeOK
<1>4. KernelTypeOK'
  <2>1. phase' \in [Clients -> {"idle", "backlog", "open", "closed"}]
    BY <1>1 DEF IInv, TypeOK, KernelTypeOK
  <2>2. owner' \in [FDs -> Clients \cup {None}] /\ interest' \in [FDs -> SUBSET Event]
    BY <1>1 DEF IInv, TypeOK, KernelTypeOK
  <2> QED BY <1>1, <2>1, <2>2 DEF IInv, TypeOK, KernelTypeOK, Byte, Zero
<1>5. ServerTypeOK'
  <2>1. 0 \in 0..BufSize /\ ZeroBuf \in [1..BufSize -> Byte \cup {Zero}]
    BY BufAssumption DEF ZeroBuf
  <2> QED BY <1>2, <2>1 DEF IInv, TypeOK, ServerTypeOK, States, Byte, Zero
<1>6. OwnerInv'
  BY <1>3 DEF IInv, TypeOK, KernelTypeOK, OwnerInv
<1>7. BacklogInv'
  <2>1. owner[f] \in Clients /\ phase[owner[f]] = "open"
    BY DEF IInv, TypeOK, KernelTypeOK, OwnerInv
  <2>2. \A i \in 1..Len(backlog) : backlog[i] \in Clients
    BY DEF IInv, TypeOK, KernelTypeOK
  <2> QED BY <1>1, <1>3, <2>1, <2>2 DEF IInv, BacklogInv
<1>8. FreshInv' /\ EchoIdentity'
  BY <1>1, <1>3 DEF IInv, FreshInv, EchoIdentity
<1>9. CountInv' /\ BufferAccounts'
  BY <1>1, <1>3 DEF IInv, CountInv, BufferAccounts
<1>10. ControlInv' /\ NoStaleEvent'
  <2>1. \A e \in batch' : e.fd /= Listen => e.fd \in FDs
    BY DEF IInv, TypeOK, ServerTypeOK
  <2>2. \A g \in ready' : g /= Listen => g \in FDs /\ g /= f
    BY <1>1 DEF IInv, TypeOK, KernelTypeOK
  <2> QED BY <1>1, <1>3, <2>1, <2>2 DEF IInv, ControlInv, NoStaleEvent
<1> QED BY <1>4, <1>5, <1>6, <1>7, <1>8, <1>9, <1>10 DEF IInv, TypeOK

LEMMA CloseSteps ==
  ASSUME IInv, CloseIfMarked \/ \E e \in batch : DispatchHup(e) PROVE IInv'
<1>1. ASSUME NEW e \in batch, DispatchHup(e) PROVE IInv'
  <2>1. /\ e.fd \in FDs /\ owner[e.fd] /= None /\ conn_close(e.fd)
        /\ batch' = batch \ {e} /\ pc' = "dispatch" /\ cur' = cur
    BY <1>1 DEF DispatchHup, IInv, NoStaleEvent, TypeOK, ServerTypeOK
  <2>2. \A d \in batch' : d.fd /= e.fd
    BY <2>1 DEF IInv, ControlInv
  <2> QED BY <2>1, <2>2, ConnCloseStep
<1>2. CASE CloseIfMarked /\ state[cur] = "STATE_CLOSE"
  <2>1. /\ cur \in FDs /\ owner[cur] /= None /\ conn_close(cur)
        /\ batch' = batch /\ pc' = "dispatch" /\ cur' = cur
        /\ \A d \in batch' : d.fd /= cur
    BY <1>2 DEF CloseIfMarked, IInv, ControlInv
  <2> QED BY <2>1, ConnCloseStep
<1>3. CASE CloseIfMarked /\ state[cur] /= "STATE_CLOSE"
  <2>1. /\ UNCHANGED <<phase, fin, rst, sent, rd, out, wr, got, nospace, backlog, owner>>
        /\ UNCHANGED <<interest, ready, state, buf, buf_len, buf_sent, cur, batch>>
        /\ pc' = "dispatch"
    BY <1>3 DEF CloseIfMarked, kernelVars, sockVars, epollVars, connVars
  <2>2. KernelTypeOK' /\ ServerTypeOK'
    BY <2>1 DEF IInv, TypeOK, KernelTypeOK, ServerTypeOK, Byte, Zero
  <2>3. /\ OwnerInv' /\ BacklogInv' /\ FreshInv' /\ CountInv' /\ ControlInv'
        /\ NoStaleEvent' /\ BufferAccounts' /\ EchoIdentity'
    BY <2>1 DEF IInv, OwnerInv, BacklogInv, FreshInv, CountInv, ControlInv, NoStaleEvent,
      BufferAccounts, EchoIdentity
  <2> QED BY <2>2, <2>3 DEF IInv, TypeOK
<1> QED BY <1>1, <1>2, <1>3

LEMMA ReadDataStep == ASSUME IInv, ReadData PROVE IInv'
<1> USE BoundAssumption, BufAssumption
<1>1. PICK n \in 1..(BufSize - buf_len[cur]) :
        /\ SysRead(cur, n)
        /\ buf' = [buf EXCEPT ![cur] = [j \in 1..BufSize |->
                    IF buf_len[cur] < j /\ j <= buf_len[cur] + n
                      THEN <<Me, rd[Me] + j - buf_len[cur]>> ELSE buf[cur][j]]]
        /\ buf_len' = [buf_len EXCEPT ![cur] = @ + n]
  BY DEF ReadData
<1>2. /\ pc = "read" /\ buf_len[cur] < BufSize
      /\ pc' = pc /\ cur' = cur /\ batch' = batch
      /\ state' = state /\ buf_sent' = buf_sent
  BY DEF ReadData
<1>3. /\ n \in Nat /\ 1 <= n /\ n <= sent[Me] - rd[Me]
      /\ rd' = [rd EXCEPT ![Me] = @ + n]
      /\ UNCHANGED <<phase, fin, rst, sent, out, wr, got, nospace>>
      /\ UNCHANGED <<backlog, owner, interest, ready>>
  BY <1>1, <1>2, InHand DEF SysRead, Pending, Me, epollVars
<1>a. pc \in {"read", "write", "modout", "modin", "after"}
  BY <1>2
<1>b. n <= BufSize - buf_len[cur]
  BY <1>a, InHandCounts
<1>4. /\ rd[Me] + n \in 0..N /\ rd[Me] + n <= sent[Me]
      /\ buf_len[cur] + n \in 0..BufSize
  BY <1>a, <1>b, <1>3, InHandCounts
<1>5. KernelTypeOK'
  BY <1>3, <1>4 DEF IInv, TypeOK, KernelTypeOK
<1>6. ServerTypeOK'
  <2>1. \A j \in 1..BufSize : buf_len[cur] < j /\ j <= buf_len[cur] + n
           => <<Me, rd[Me] + j - buf_len[cur]>> \in Byte
    BY <1>a, <1>b, <1>3, <1>4, InHand, InHandCounts DEF Byte
  <2>2. buf' \in [FDs -> [1..BufSize -> Byte \cup {Zero}]]
    BY <1>1, <1>2, <2>1, InHand DEF IInv, TypeOK, ServerTypeOK
  <2> QED BY <1>1, <1>2, <1>4, <2>2 DEF IInv, TypeOK, ServerTypeOK
<1>7. OwnerInv' /\ BacklogInv' /\ ControlInv' /\ NoStaleEvent'
  BY <1>2, <1>3 DEF IInv, OwnerInv, BacklogInv, ControlInv, NoStaleEvent
<1>8. FreshInv'
  BY <1>2, <1>3, InHand DEF IInv, TypeOK, KernelTypeOK, FreshInv
<1>c. /\ \A c \in Clients : rd[c] \in Nat /\ wr[c] \in Nat /\ rd'[c] \in Nat
                              /\ rd[c] <= rd'[c] /\ rd'[c] <= sent[c]
      /\ \A f \in FDs : /\ buf_sent[f] \in Nat /\ buf_len[f] \in Nat /\ buf_len'[f] \in Nat
                         /\ buf_len[f] <= buf_len'[f]
  <2>1. \A c \in Clients : rd[c] \in Nat /\ wr[c] \in Nat /\ rd[c] <= sent[c]
    BY DEF IInv, TypeOK, KernelTypeOK, CountInv
  <2>2. \A c \in Clients : rd'[c] = IF c = Me THEN rd[c] + n ELSE rd[c]
    BY <1>3 DEF IInv, TypeOK, KernelTypeOK
  <2>3. \A f \in FDs : buf_sent[f] \in Nat /\ buf_len[f] \in Nat
    BY DEF IInv, TypeOK, ServerTypeOK
  <2>4. \A f \in FDs : buf_len'[f] = IF f = cur THEN buf_len[f] + n ELSE buf_len[f]
    BY <1>1 DEF IInv, TypeOK, ServerTypeOK
  <2> QED BY <1>3, <1>4, <2>1, <2>2, <2>3, <2>4
<1>9. CountInv'
  BY <1>2, <1>3, <1>c DEF IInv, CountInv
<1>10. BufferAccounts'
  <2> SUFFICES ASSUME NEW f \in FDs, owner[f] /= None
               PROVE  /\ rd'[owner[f]] - wr[owner[f]] = buf_len'[f] - buf_sent[f]
                      /\ \A j \in 1..buf_len'[f] :
                           buf'[f][j] = <<owner[f], (rd'[owner[f]] - buf_len'[f]) + j>>
    BY <1>2, <1>3 DEF BufferAccounts
  <2>1. CASE f = cur
    <3>1. /\ rd'[Me] = rd[Me] + n /\ buf_len'[cur] = buf_len[cur] + n
          /\ \A j \in 1..BufSize : buf'[cur][j] =
               IF buf_len[cur] < j /\ j <= buf_len[cur] + n
                 THEN <<Me, rd[Me] + j - buf_len[cur]>> ELSE buf[cur][j]
      BY <1>1, <1>2, <1>3, InHand DEF IInv, TypeOK, KernelTypeOK, ServerTypeOK
    <3>2. rd'[Me] - buf_len'[cur] = rd[Me] - buf_len[cur]
      BY <1>2, <1>3, <3>1, InHandCounts
    <3>3. ASSUME NEW j \in 1..(buf_len[cur] + n)
          PROVE  buf'[cur][j] = <<Me, (rd[Me] - buf_len[cur]) + j>>
      <4>1. /\ j \in 1..BufSize /\ j <= buf_len[cur] + n
            /\ buf_len[cur] < j \/ j \in 1..buf_len[cur]
            /\ rd[Me] + j - buf_len[cur] = (rd[Me] - buf_len[cur]) + j
        BY <1>2, <1>3, <1>4, InHandCounts
      <4> QED BY <1>2, <3>1, <4>1, InHand
    <3>4. rd'[Me] - wr[Me] = buf_len'[cur] - buf_sent[cur]
      BY <1>2, <1>3, <3>1, InHandCounts
    <3> QED BY <1>2, <2>1, <3>1, <3>2, <3>3, <3>4, InHand
  <2>2. CASE f /= cur
    BY <1>1, <1>2, <1>3, <2>2, InHand
      DEF IInv, TypeOK, KernelTypeOK, ServerTypeOK, BufferAccounts
  <2> QED BY <2>1, <2>2
<1>11. EchoIdentity'
  BY <1>3, <1>c DEF IInv, EchoIdentity
<1> QED BY <1>5, <1>6, <1>7, <1>8, <1>9, <1>10, <1>11 DEF IInv, TypeOK

LEMMA WriteSomeStep == ASSUME IInv, WriteSome PROVE IInv'
<1>1. PICK n \in 1..(buf_len[cur] - buf_sent[cur]) :
        /\ SysWrite(cur, n, [k \in 1..n |-> buf[cur][buf_sent[cur] + k]])
        /\ buf_sent' = [buf_sent EXCEPT ![cur] = @ + n]
  BY DEF WriteSome
<1>2. /\ pc = "write" /\ buf_sent[cur] < buf_len[cur]
      /\ UNCHANGED <<pc, cur, batch, state, buf, buf_len>>
  BY DEF WriteSome
<1>3. pc \in {"read", "write", "modout", "modin", "after"}
  BY <1>2
<1> DEFINE data == [k \in 1..n |-> buf[cur][buf_sent[cur] + k]]
<1>4. /\ out' = [out EXCEPT ![Me] = [i \in 1..(wr[Me] + n) |->
                                  IF i <= wr[Me] THEN out[Me][i] ELSE data[i - wr[Me]]]]
      /\ wr' = [wr EXCEPT ![Me] = @ + n]
      /\ UNCHANGED <<phase, fin, rst, sent, rd, got, nospace>>
      /\ UNCHANGED <<backlog, owner, interest, ready>>
  BY <1>1 DEF SysWrite, Me, epollVars
<1>5. n \in Nat /\ 1 <= n /\ n <= buf_len[cur] - buf_sent[cur]
  BY <1>3, InHandCounts
<1>6. /\ \A c \in Clients : wr[c] \in Nat /\ wr'[c] = IF c = Me THEN wr[c] + n ELSE wr[c]
      /\ \A f \in FDs : /\ buf_sent[f] \in Nat
                         /\ buf_sent'[f] = IF f = cur THEN buf_sent[f] + n ELSE buf_sent[f]
  BY <1>1, <1>4 DEF IInv, TypeOK, KernelTypeOK, ServerTypeOK
<1>7. /\ wr[Me] + n \in Nat /\ wr[Me] + n <= rd[Me]
      /\ buf_sent[cur] + n \in 0..BufSize /\ buf_sent[cur] + n <= buf_len[cur]
  BY <1>3, <1>5, InHandCounts
<1>8. ASSUME NEW i \in 1..(wr[Me] + n) PROVE out'[Me][i] = <<Me, i>>
  <2>1. out'[Me][i] = IF i <= wr[Me] THEN out[Me][i] ELSE data[i - wr[Me]]
    BY <1>3, <1>4, InHand DEF IInv, TypeOK, KernelTypeOK
  <2>2. CASE i <= wr[Me]
    BY <1>3, <2>1, <2>2, InHand, InHandCounts DEF IInv, EchoIdentity
  <2>3. CASE ~(i <= wr[Me])
    <3>1. i - wr[Me] \in 1..n
      BY <1>3, <1>5, <2>3, InHandCounts
    <3>2. /\ buf_sent[cur] + (i - wr[Me]) \in 1..buf_len[cur]
          /\ (rd[Me] - buf_len[cur]) + (buf_sent[cur] + (i - wr[Me])) = i
      BY <1>3, <1>5, <3>1, InHandCounts
    <3> QED BY <1>3, <2>1, <2>3, <3>1, <3>2, InHand
  <2> QED BY <2>2, <2>3
<1>9. KernelTypeOK'
  <2>1. \A i \in 1..(wr[Me] + n) : <<Me, i>> \in Byte
    BY <1>3, <1>7, InHand, InHandCounts DEF Byte
  <2>2. out'[Me] = [i \in 1..(wr[Me] + n) |->
                     IF i <= wr[Me] THEN out[Me][i] ELSE data[i - wr[Me]]]
    BY <1>3, <1>4, InHand DEF IInv, TypeOK, KernelTypeOK
  <2>a. \A i \in 1..(wr[Me] + n) :
           (IF i <= wr[Me] THEN out[Me][i] ELSE data[i - wr[Me]]) = <<Me, i>>
    BY <1>8, <2>2
  <2> HIDE DEF data
  <2>3. out'[Me] \in [1..(wr[Me] + n) -> Byte \cup {Zero}]
    BY <2>1, <2>2, <2>a
  <2>4. \A c \in Clients : out'[c] \in [1..wr'[c] -> (Byte \cup {Zero})']
    BY <1>3, <1>4, <1>6, <2>3, InHand DEF IInv, TypeOK, KernelTypeOK, Byte, Zero
  <2> QED BY <1>3, <1>4, <1>7, <2>4, InHand DEF IInv, TypeOK, KernelTypeOK
<1>10. ServerTypeOK'
  BY <1>1, <1>2, <1>7 DEF IInv, TypeOK, ServerTypeOK
<1>11. OwnerInv' /\ BacklogInv' /\ ControlInv' /\ NoStaleEvent'
  BY <1>2, <1>4 DEF IInv, OwnerInv, BacklogInv, ControlInv, NoStaleEvent
<1>12. FreshInv'
  BY <1>3, <1>4, <1>6, InHand DEF IInv, FreshInv
<1>13. CountInv'
  <2>a. \A c \in Clients : got[c] \in Nat /\ got[c] <= wr[c]
    BY DEF IInv, TypeOK, KernelTypeOK, CountInv
  <2>1. \A c \in Clients : got[c] <= wr'[c]
    BY <1>5, <1>6, <2>a
  <2>2. state[cur] /= "STATE_READ"
    BY <1>2 DEF IInv, ControlInv
  <2> QED BY <1>2, <1>4, <1>6, <1>7, <2>1, <2>2 DEF IInv, CountInv
<1>14. BufferAccounts'
  <2> SUFFICES ASSUME NEW f \in FDs, owner[f] /= None
               PROVE  rd[owner[f]] - wr'[owner[f]] = buf_len[f] - buf_sent'[f]
    BY <1>2, <1>4 DEF IInv, BufferAccounts
  <2>1. CASE f = cur
    BY <1>3, <1>5, <1>6, <2>1, InHand, InHandCounts
  <2>2. CASE f /= cur
    BY <1>3, <1>6, <2>2, InHand DEF IInv, TypeOK, KernelTypeOK, BufferAccounts
  <2> QED BY <2>1, <2>2
<1>15. EchoIdentity'
  <2> SUFFICES ASSUME NEW c \in Clients
               PROVE  wr'[c] <= rd[c] /\ \A i \in 1..wr'[c] : out'[c][i] = <<c, i>>
    BY <1>4 DEF EchoIdentity
  <2>1. CASE c = Me
    BY <1>6, <1>7, <1>8, <2>1
  <2>2. CASE c /= Me
    BY <1>4, <1>6, <2>2 DEF IInv, TypeOK, KernelTypeOK, EchoIdentity
  <2> QED BY <2>1, <2>2
<1> QED BY <1>9, <1>10, <1>11, <1>12, <1>13, <1>14, <1>15 DEF IInv, TypeOK

LEMMA WriteDoneStep == ASSUME IInv, WriteDone PROVE IInv'
<1>1. /\ pc = "write" /\ buf_sent[cur] >= buf_len[cur]
      /\ buf_len' = [buf_len EXCEPT ![cur] = 0]
      /\ buf_sent' = [buf_sent EXCEPT ![cur] = 0]
      /\ state' = [state EXCEPT ![cur] = "STATE_READ"]
      /\ pc' = "modin"
      /\ UNCHANGED <<phase, fin, rst, sent, rd, out, wr, got, nospace>>
      /\ UNCHANGED <<backlog, owner, interest, ready, cur, batch, buf>>
  BY DEF WriteDone, kernelVars, sockVars, epollVars
<1>2. pc \in {"read", "write", "modout", "modin", "after"}
  BY <1>1
<1>3. KernelTypeOK' /\ ServerTypeOK'
  <2>1. 0 \in 0..BufSize
    BY BufAssumption
  <2> QED BY <1>1, <2>1 DEF IInv, TypeOK, KernelTypeOK, ServerTypeOK, States, Byte, Zero
<1>4. OwnerInv' /\ BacklogInv' /\ FreshInv' /\ NoStaleEvent' /\ EchoIdentity' /\ ControlInv'
  BY <1>1 DEF IInv, OwnerInv, BacklogInv, FreshInv, ControlInv, NoStaleEvent, EchoIdentity
<1>5. CountInv'
  BY <1>1 DEF IInv, CountInv, TypeOK, ServerTypeOK
<1>6. BufferAccounts'
  <2> SUFFICES ASSUME NEW f \in FDs, owner[f] /= None
               PROVE  /\ rd[owner[f]] - wr[owner[f]] = buf_len'[f] - buf_sent'[f]
                      /\ \A j \in 1..buf_len'[f] :
                           buf[f][j] = <<owner[f], (rd[owner[f]] - buf_len'[f]) + j>>
    BY <1>1 DEF BufferAccounts
  <2>1. CASE f = cur
    <3>1. buf_len'[cur] = 0 /\ buf_sent'[cur] = 0
      BY <1>1, <1>2, InHand DEF IInv, TypeOK, ServerTypeOK
    <3>2. rd[Me] - wr[Me] = 0
      BY <1>1, <1>2, InHandCounts
    <3> QED BY <1>2, <2>1, <3>1, <3>2, InHand
  <2>2. CASE f /= cur
    BY <1>1, <2>2 DEF IInv, TypeOK, ServerTypeOK, BufferAccounts
  <2> QED BY <2>1, <2>2
<1> QED BY <1>3, <1>4, <1>5, <1>6 DEF IInv, TypeOK

LEMMA ReadAgainStep == ASSUME IInv, ReadAgain PROVE IInv'
<1>1. /\ pc = "read" /\ state' \in [FDs -> States]
      /\ buf_sent' = buf_sent \/ buf_sent' = [buf_sent EXCEPT ![cur] = 0]
      /\ \A f \in FDs : state'[f] = "STATE_READ" => state[f] = "STATE_READ"
      /\ pc' \in {"modout", "after"}
      /\ UNCHANGED <<phase, fin, rst, sent, rd, out, wr, got, nospace>>
      /\ UNCHANGED <<backlog, owner, interest, ready, cur, batch, buf, buf_len>>
  BY DEF ReadAgain, kernelVars, sockVars, epollVars, IInv, TypeOK, ServerTypeOK, States
<1>2. cur \in FDs /\ owner[cur] /= None /\ state[cur] = "STATE_READ"
  BY <1>1 DEF IInv, ControlInv
<1>3. buf_sent' = buf_sent
  BY <1>1, <1>2 DEF IInv, CountInv, TypeOK, ServerTypeOK
<1>4. TypeOK'
  BY <1>1, <1>3 DEF IInv, TypeOK, KernelTypeOK, ServerTypeOK, Byte, Zero
<1>5. OwnerInv' /\ BacklogInv' /\ FreshInv' /\ NoStaleEvent' /\ EchoIdentity' /\ ControlInv'
  BY <1>1 DEF IInv, OwnerInv, BacklogInv, FreshInv, ControlInv, NoStaleEvent, EchoIdentity
<1>6. CountInv' /\ BufferAccounts'
  BY <1>1, <1>3 DEF IInv, CountInv, BufferAccounts
<1> QED BY <1>4, <1>5, <1>6 DEF IInv

\* What accepting, or dropping, the head of the queue does to the queue.
LEMMA TailOfBacklog ==
  ASSUME IInv, backlog /= <<>>, backlog' = Tail(backlog)
  PROVE  /\ Head(backlog) \in Clients /\ phase[Head(backlog)] = "backlog"
         /\ backlog' \in Seq(Clients)
         /\ \A i \in 1..Len(backlog') : /\ backlog'[i] /= Head(backlog)
                                        /\ phase[backlog'[i]] = "backlog"
         /\ \A i, j \in 1..Len(backlog') : backlog'[i] = backlog'[j] => i = j
<1>1. /\ backlog \in Seq(Clients) /\ Len(backlog) \in Nat /\ Len(backlog) > 0
      /\ Head(backlog) = backlog[1] /\ backlog' \in Seq(Clients)
      /\ Len(backlog') = Len(backlog) - 1
      /\ \A i \in 1..Len(backlog') : backlog'[i] = backlog[i + 1]
  BY DEF IInv, TypeOK, KernelTypeOK
<1>2. 1 \in 1..Len(backlog) /\ backlog[1] \in Clients
  BY <1>1
<1>3. \A i \in 1..Len(backlog') : i + 1 \in 1..Len(backlog) /\ i + 1 /= 1
  BY <1>1
<1>4. \A i, j \in 1..Len(backlog') : i + 1 = j + 1 => i = j
  BY <1>1
<1> QED BY <1>1, <1>2, <1>3, <1>4 DEF IInv, BacklogInv

LEMMA AcceptOneStep == ASSUME IInv, AcceptOne PROVE IInv'
<1>1. PICK f \in FDs :
        /\ owner[f] = None /\ backlog /= <<>> /\ backlog' = Tail(backlog)
        /\ phase' = [phase EXCEPT ![Head(backlog)] = "open"]
        /\ owner' = [owner EXCEPT ![f] = Head(backlog)]
        /\ interest' = [interest EXCEPT ![f] = {"IN"}]
        /\ \A g \in ready' : g \in ready \/ g = f
        /\ ready \subseteq ready'
        /\ state' = [state EXCEPT ![f] = "STATE_READ"]
        /\ buf_len' = [buf_len EXCEPT ![f] = 0]
        /\ buf_sent' = [buf_sent EXCEPT ![f] = 0]
  BY DEF AcceptOne, SysAccept, conn_init, FreeFd
<1>2. /\ pc = "accept"
      /\ UNCHANGED <<fin, rst, sent, rd, out, wr, got, nospace>>
      /\ UNCHANGED <<pc, cur, batch, buf>>
  BY DEF AcceptOne, SysAccept, conn_init
<1> DEFINE c == Head(backlog)
<1>3. /\ c \in Clients /\ phase[c] = "backlog" /\ backlog' \in Seq(Clients)
      /\ \A i \in 1..Len(backlog') : backlog'[i] /= c /\ phase[backlog'[i]] = "backlog"
      /\ \A i, j \in 1..Len(backlog') : backlog'[i] = backlog'[j] => i = j
  BY <1>1, TailOfBacklog
<1>4. /\ c /= None /\ rd[c] = 0 /\ wr[c] = 0
      /\ \A g \in FDs : owner[g] /= c
  BY <1>3, ClientAssumption DEF IInv, FreshInv, OwnerInv
<1> HIDE DEF c
<1>5. /\ \A g \in FDs : owner'[g] = IF g = f THEN c ELSE owner[g]
      /\ \A d \in Clients : phase'[d] = IF d = c THEN "open" ELSE phase[d]
  BY <1>1, <1>3 DEF IInv, TypeOK, KernelTypeOK, c
<1>a. \A g \in FDs : /\ buf_len'[g] = IF g = f THEN 0 ELSE buf_len[g]
                     /\ buf_sent'[g] = IF g = f THEN 0 ELSE buf_sent[g]
                     /\ state'[g] = IF g = f THEN "STATE_READ" ELSE state[g]
  BY <1>1 DEF IInv, TypeOK, ServerTypeOK
<1>6. KernelTypeOK'
  <2>1. ready' \subseteq FDs \cup {Listen}
    BY <1>1 DEF IInv, TypeOK, KernelTypeOK
  <2> QED BY <1>1, <1>2, <1>3, <2>1 DEF IInv, TypeOK, KernelTypeOK, Byte, Zero, Event, c
<1>7. ServerTypeOK'
  BY <1>1, <1>2, BufAssumption DEF IInv, TypeOK, ServerTypeOK, Byte, Zero, States
<1>8. OwnerInv'
  <2>1. \A g \in FDs : owner[g] /= None => owner[g] \in Clients /\ phase'[owner[g]] = "open"
    BY <1>4, <1>5 DEF IInv, TypeOK, KernelTypeOK, OwnerInv
  <2> QED BY <1>3, <1>4, <1>5, <2>1 DEF IInv, OwnerInv
<1>9. BacklogInv'
  <2>1. \A i \in 1..Len(backlog') : backlog'[i] \in Clients
    BY <1>3
  <2> QED BY <1>3, <1>5, <2>1 DEF BacklogInv
<1>10. FreshInv'
  BY <1>2, <1>5 DEF IInv, FreshInv
<1>11. CountInv'
  BY <1>2, <1>5, <1>a DEF IInv, CountInv
<1>12. ControlInv' /\ NoStaleEvent'
  <2>1. \A e \in batch : e.fd /= Listen => e.fd \in FDs /\ e.fd /= f
    BY <1>1 DEF IInv, NoStaleEvent, TypeOK, ServerTypeOK
  <2> QED BY <1>1, <1>2, <1>4, <1>5, <2>1, ClientAssumption
          DEF IInv, ControlInv, NoStaleEvent, TypeOK, KernelTypeOK
<1>13. BufferAccounts'
  BY <1>2, <1>4, <1>5, <1>a DEF IInv, BufferAccounts
<1>14. EchoIdentity'
  BY <1>2 DEF IInv, EchoIdentity
<1> QED BY <1>6, <1>7, <1>8, <1>9, <1>10, <1>11, <1>12, <1>13, <1>14 DEF IInv, TypeOK

LEMMA AcceptAddFailsStep == ASSUME IInv, AcceptAddFails PROVE IInv'
<1>1. PICK f \in FDs : owner[f] = None /\ conn_init(f)
  BY DEF AcceptAddFails, FreeFd
<1>2. /\ backlog /= <<>> /\ backlog' = Tail(backlog)
      /\ phase' = [phase EXCEPT ![Head(backlog)] = "closed"]
      /\ UNCHANGED <<fin, rst, sent, rd, out, wr, got, nospace, owner, interest, ready>>
      /\ UNCHANGED <<pc, cur, batch>> /\ pc = "accept"
  BY DEF AcceptAddFails
<1>3. /\ state' = [state EXCEPT ![f] = "STATE_READ"]
      /\ buf_len' = [buf_len EXCEPT ![f] = 0]
      /\ buf_sent' = [buf_sent EXCEPT ![f] = 0]
      /\ buf' = buf
  BY <1>1 DEF conn_init
<1>4. /\ Head(backlog) \in Clients /\ phase[Head(backlog)] = "backlog"
      /\ backlog' \in Seq(Clients)
      /\ \A i \in 1..Len(backlog') : /\ backlog'[i] /= Head(backlog)
                                     /\ phase[backlog'[i]] = "backlog"
      /\ \A i, j \in 1..Len(backlog') : backlog'[i] = backlog'[j] => i = j
  BY <1>2, TailOfBacklog
<1>5. /\ \A c \in Clients : phase'[c] = IF c = Head(backlog) THEN "closed" ELSE phase[c]
      /\ \A g \in FDs : g /= f => /\ state'[g] = state[g] /\ buf_len'[g] = buf_len[g]
                                  /\ buf_sent'[g] = buf_sent[g]
  BY <1>2, <1>3 DEF IInv, TypeOK, KernelTypeOK, ServerTypeOK
<1>6. KernelTypeOK'
  <2>1. phase' \in [Clients -> {"idle", "backlog", "open", "closed"}]
    BY <1>2 DEF IInv, TypeOK, KernelTypeOK
  <2> QED BY <1>2, <1>4, <2>1 DEF IInv, TypeOK, KernelTypeOK, Byte, Zero
<1>7. ServerTypeOK'
  BY <1>2, <1>3, BufAssumption DEF IInv, TypeOK, ServerTypeOK, States, Byte, Zero
<1>8. OwnerInv'
  <2>1. \A g \in FDs : owner[g] /= None => owner[g] \in Clients /\ phase'[owner[g]] = "open"
    BY <1>4, <1>5 DEF IInv, TypeOK, KernelTypeOK, OwnerInv
  <2> QED BY <1>2, <2>1 DEF IInv, OwnerInv
<1>9. BacklogInv'
  <2>1. \A i \in 1..Len(backlog') : backlog'[i] \in Clients
    BY <1>4
  <2> QED BY <1>4, <1>5, <2>1 DEF BacklogInv
<1>10. FreshInv' /\ EchoIdentity'
  BY <1>2, <1>5 DEF IInv, FreshInv, EchoIdentity
<1>11. CountInv' /\ BufferAccounts'
  BY <1>1, <1>2, <1>3, <1>5 DEF IInv, CountInv, BufferAccounts
<1>12. ControlInv' /\ NoStaleEvent'
  BY <1>2 DEF IInv, ControlInv, NoStaleEvent
<1> QED BY <1>6, <1>7, <1>8, <1>9, <1>10, <1>11, <1>12 DEF IInv, TypeOK

------------------------------------------------------------------------------
(* The steps of the peers.                                                 *)

LEMMA PeerSignalSteps ==
  ASSUME IInv, NEW c \in Clients, PeerSend(c) \/ PeerFin(c) \/ PeerReset(c),
         UNCHANGED serverVars
  PROVE  IInv'
<1>1. /\ UNCHANGED <<phase, rd, out, wr, got, nospace, backlog, owner, interest>>
      /\ UNCHANGED <<pc, cur, batch, state, buf, buf_len, buf_sent>>
      /\ fin' \subseteq Clients /\ rst' \subseteq Clients
  BY DEF PeerSend, PeerFin, PeerReset, serverVars, connVars, IInv, TypeOK, KernelTypeOK
<1>2. sent' \in [Clients -> 0..N] /\ \A d \in Clients : sent[d] <= sent'[d]
  <2>1. sent \in [Clients -> 0..N]
    BY DEF IInv, TypeOK, KernelTypeOK
  <2>2. CASE PeerSend(c)
    BY <2>1, <2>2, BoundAssumption DEF PeerSend
  <2>3. CASE PeerFin(c) \/ PeerReset(c)
    BY <2>1, <2>3, BoundAssumption DEF PeerFin, PeerReset
  <2> QED BY <2>2, <2>3
<1>3. \A f \in ready' : f \in ready \/ (f \in FDs /\ owner[f] = c)
  BY DEF PeerSend, PeerFin, PeerReset, Wakes
<1>4. KernelTypeOK' /\ ServerTypeOK'
  BY <1>1, <1>2, <1>3 DEF IInv, TypeOK, KernelTypeOK, ServerTypeOK, Byte, Zero
<1>5. /\ OwnerInv' /\ BacklogInv' /\ FreshInv' /\ NoStaleEvent'
      /\ BufferAccounts' /\ EchoIdentity'
  BY <1>1 DEF IInv, OwnerInv, BacklogInv, FreshInv, NoStaleEvent, BufferAccounts, EchoIdentity
<1>6. CountInv'
  <2>1. \A d \in Clients : rd[d] <= sent'[d]
    BY <1>2 DEF IInv, CountInv, TypeOK, KernelTypeOK
  <2> QED BY <1>1, <2>1 DEF IInv, CountInv
<1>7. ControlInv'
  BY <1>1, <1>3, ClientAssumption DEF IInv, ControlInv
<1> QED BY <1>4, <1>5, <1>6, <1>7 DEF IInv, TypeOK

LEMMA PeerRecvStep ==
  ASSUME IInv, NEW c \in Clients, PeerRecv(c), UNCHANGED serverVars PROVE IInv'
<1>1. /\ got[c] < wr[c] /\ got' = [got EXCEPT ![c] = @ + 1]
      /\ nospace' = nospace \ {c}
      /\ ready' = ready \cup (IF c \in nospace THEN Wakes(c, {"OUT"}) ELSE {})
      /\ UNCHANGED <<phase, fin, rst, sent, rd, out, wr, backlog, owner, interest>>
      /\ UNCHANGED <<pc, cur, batch, state, buf, buf_len, buf_sent>>
  BY DEF PeerRecv, serverVars, connVars
<1>2. \A f \in ready' : f \in ready \/ (f \in FDs /\ owner[f] = c)
  BY <1>1 DEF Wakes
<1>3. KernelTypeOK'
  <2>1. got' \in [Clients -> Nat] /\ nospace' \subseteq Clients
    BY <1>1 DEF IInv, TypeOK, KernelTypeOK
  <2>2. ready' \subseteq FDs \cup {Listen}
    BY <1>2 DEF IInv, TypeOK, KernelTypeOK
  <2> QED BY <1>1, <2>1, <2>2 DEF IInv, TypeOK, KernelTypeOK, Byte, Zero
<1>4. ServerTypeOK' /\ OwnerInv' /\ BacklogInv' /\ FreshInv' /\ NoStaleEvent'
      /\ BufferAccounts' /\ EchoIdentity'
  BY <1>1 DEF IInv, TypeOK, ServerTypeOK, OwnerInv, BacklogInv, FreshInv, NoStaleEvent,
    BufferAccounts, EchoIdentity, Byte, Zero
<1>5. CountInv'
  BY <1>1 DEF IInv, CountInv, TypeOK, KernelTypeOK
<1>6. ControlInv'
  BY <1>1, <1>2, ClientAssumption DEF IInv, ControlInv
<1> QED BY <1>3, <1>4, <1>5, <1>6 DEF IInv, TypeOK

LEMMA ConnectStep ==
  ASSUME IInv, NEW c \in Clients, Connect(c), UNCHANGED serverVars PROVE IInv'
<1>1. /\ phase[c] = "idle"
      /\ phase' = [phase EXCEPT ![c] = "backlog"]
      /\ backlog' = Append(backlog, c)
      /\ ready' = ready \cup {Listen}
      /\ UNCHANGED <<fin, rst, sent, rd, out, wr, got, nospace, owner, interest>>
      /\ UNCHANGED <<pc, cur, batch, state, buf, buf_len, buf_sent>>
  BY DEF Connect, serverVars, connVars
<1>2. TypeOK'
  <2>1. phase' \in [Clients -> {"idle", "backlog", "open", "closed"}]
    BY <1>1 DEF IInv, TypeOK, KernelTypeOK
  <2>2. backlog' \in Seq(Clients)
    BY <1>1 DEF IInv, TypeOK, KernelTypeOK
  <2>3. KernelTypeOK'
    BY <1>1, <2>1, <2>2 DEF IInv, TypeOK, KernelTypeOK, Byte, Zero
  <2>4. ServerTypeOK'
    BY <1>1 DEF IInv, TypeOK, ServerTypeOK, Byte, Zero
  <2> QED BY <2>3, <2>4 DEF TypeOK
<1>3. CountInv' /\ ControlInv' /\ NoStaleEvent' /\ BufferAccounts' /\ EchoIdentity'
  BY <1>1 DEF IInv, CountInv, ControlInv, NoStaleEvent, BufferAccounts, EchoIdentity
<1>4. OwnerInv' /\ FreshInv'
  BY <1>1 DEF IInv, TypeOK, KernelTypeOK, OwnerInv, FreshInv
<1>5. BacklogInv'
  <2>1. /\ backlog \in Seq(Clients) /\ Len(backlog) \in Nat
        /\ Len(backlog') = Len(backlog) + 1
        /\ \A i \in 1..Len(backlog) : backlog'[i] = backlog[i] /\ backlog[i] \in Clients
        /\ backlog'[Len(backlog) + 1] = c
    BY <1>1 DEF IInv, TypeOK, KernelTypeOK
  <2>2. \A i \in 1..Len(backlog') : i \in 1..Len(backlog) \/ i = Len(backlog) + 1
    BY <2>1
  <2>3. \A i \in 1..Len(backlog) : backlog[i] /= c
    BY <1>1 DEF IInv, BacklogInv
  <2>4. \A d \in Clients : phase'[d] = IF d = c THEN "backlog" ELSE phase[d]
    BY <1>1 DEF IInv, TypeOK, KernelTypeOK
  <2> QED BY <2>1, <2>2, <2>3, <2>4 DEF IInv, BacklogInv
<1> QED BY <1>2, <1>3, <1>4, <1>5 DEF IInv

------------------------------------------------------------------------------
LEMMA NextIInv == IInv /\ [Next]_vars => IInv'
<1> SUFFICES ASSUME IInv, [Next]_vars PROVE IInv'
  OBVIOUS
<1>1. CASE EpollWait
  BY <1>1, EpollWaitStep
<1>2. CASE QuietStep
  BY <1>2, QuietSteps
<1>3. CASE CloseIfMarked \/ \E e \in batch : DispatchHup(e)
  BY <1>3, CloseSteps
<1>4. CASE AcceptOne
  BY <1>4, AcceptOneStep
<1>5. CASE AcceptAddFails
  BY <1>5, AcceptAddFailsStep
<1>6. CASE ReadData
  BY <1>6, ReadDataStep
<1>7. CASE ReadAgain
  BY <1>7, ReadAgainStep
<1>8. CASE RegisterOut \/ RegisterIn \/ WriteAgain
  BY <1>8, RegisterSteps
<1>9. CASE WriteSome
  BY <1>9, WriteSomeStep
<1>10. CASE WriteDone
  BY <1>10, WriteDoneStep
<1>11. CASE PeerStep
  BY <1>11, ConnectStep, PeerSignalSteps, PeerRecvStep DEF PeerStep, Peer
<1>12. CASE UNCHANGED vars
  <2>1. /\ UNCHANGED <<phase, fin, rst, sent, rd, out, wr, got, nospace, backlog, owner>>
        /\ UNCHANGED <<interest, ready, state, buf, buf_len, buf_sent, pc, cur, batch>>
    BY <1>12 DEF vars, kernelVars, sockVars, epollVars, serverVars, connVars
  <2>2. KernelTypeOK' /\ ServerTypeOK'
    BY <2>1 DEF IInv, TypeOK, KernelTypeOK, ServerTypeOK, Byte, Zero
  <2>3. /\ OwnerInv' /\ BacklogInv' /\ FreshInv' /\ CountInv' /\ ControlInv'
        /\ NoStaleEvent' /\ BufferAccounts' /\ EchoIdentity'
    BY <2>1 DEF IInv, OwnerInv, BacklogInv, FreshInv, CountInv, ControlInv, NoStaleEvent,
      BufferAccounts, EchoIdentity
  <2> QED BY <2>2, <2>3 DEF IInv, TypeOK
<1> QED BY <1>1, <1>2, <1>3, <1>4, <1>5, <1>6, <1>7, <1>8, <1>9, <1>10, <1>11, <1>12
        DEF Next, Server, Dispatch, HandleAccept, HandleRead, HandleWrite, QuietStep

\* The inductive invariant holds of every reachable state.
THEOREM Invariant == Spec => []IInv
  BY InitIInv, NextIInv, PTL DEF Spec

\* Every variable keeps its type; in particular buf_len and buf_sent never leave
\* the buffer, whatever read and write return.
THEOREM TypeCorrect == Spec => []TypeOK
<1>1. IInv => TypeOK
  BY DEF IInv
<1> QED BY <1>1, Invariant, PTL

\* A client is only ever sent its own bytes, in order, from the first one on.
THEOREM EchoCorrect == Spec => []EchoIdentity
<1>1. IInv => EchoIdentity
  BY DEF IInv
<1> QED BY <1>1, Invariant, PTL

\* An open connection holds in its buffer exactly what was read and not written.
THEOREM BuffersAccount == Spec => []BufferAccounts
<1>1. IInv => BufferAccounts
  BY DEF IInv
<1> QED BY <1>1, Invariant, PTL

\* No event is handled for a connection other than the one that raised it.
THEOREM EventsAreFresh == Spec => []NoStaleEvent
<1>1. IInv => NoStaleEvent
  BY DEF IInv
<1> QED BY <1>1, Invariant, PTL

------------------------------------------------------------------------------
(* The server implements the abstract echo service.                        *)

LEMMA InitImplements == Init => Echo!Init
  BY DEF Init, KernelInit, Echo!Init

\* Steps that leave what the abstract service sees alone.
LEMMA InvisibleSteps ==
  ASSUME UNCHANGED <<phase, sent, out, wr>> PROVE UNCHANGED Echo!vars
  BY DEF Echo!vars

LEMMA WriteImplements == ASSUME IInv, IInv', WriteSome PROVE Echo!Next
<1>1. PICK n \in 1..(buf_len[cur] - buf_sent[cur]) :
        SysWrite(cur, n, [k \in 1..n |-> buf[cur][buf_sent[cur] + k]])
  BY DEF WriteSome
<1>2. pc = "write"
  BY DEF WriteSome
<1>3. /\ Me \in Clients /\ phase[Me] = "open"
      /\ wr[Me] \in Nat /\ n \in Nat /\ 1 <= n
  BY <1>2, InHand, InHandCounts
<1>4. /\ wr' = [wr EXCEPT ![Me] = @ + n] /\ UNCHANGED <<phase, sent, rd>>
      /\ \E r : out' = [out EXCEPT ![Me] = r]
  BY <1>1 DEF SysWrite, Me
<1>5. /\ wr'[Me] = wr[Me] + n
      /\ out' = [out EXCEPT ![Me] = out'[Me]]
      /\ out'[Me] \in [1..wr'[Me] -> (Byte \cup {Zero})']
  BY <1>3, <1>4 DEF IInv, TypeOK, KernelTypeOK
<1>6. /\ wr'[Me] <= rd'[Me] /\ rd'[Me] <= sent'[Me] /\ sent'[Me] \in 0..N /\ rd'[Me] \in 0..N
      /\ \A i \in 1..wr'[Me] : out'[Me][i] = <<Me, i>>
  BY <1>3 DEF IInv, TypeOK, KernelTypeOK, CountInv, EchoIdentity
<1>7. out'[Me] = [i \in 1..(wr[Me] + n) |-> <<Me, i>>]
  BY <1>5, <1>6
<1>8. wr[Me] + n <= sent[Me] /\ n \in 1..N
  <2>1. wr'[Me] = wr[Me] + n /\ sent'[Me] = sent[Me]
    BY <1>4, <1>5
  <2>2. /\ wr'[Me] <= rd'[Me] /\ rd'[Me] <= sent'[Me] /\ sent'[Me] \in Nat
        /\ sent'[Me] <= N /\ rd'[Me] \in Nat /\ N \in Nat
    BY <1>6, BoundAssumption
  <2> QED BY <1>3, <2>1, <2>2
<1>9. Echo!Reply(Me, n)
  BY <1>3, <1>4, <1>5, <1>7, <1>8 DEF Echo!Reply
<1> QED BY <1>3, <1>8, <1>9 DEF Echo!Next

\* Taking a client on, and being done with it.
LEMMA AcceptImplements == ASSUME IInv, AcceptOne PROVE Echo!Next
<1>1. /\ backlog /= <<>> /\ backlog' = Tail(backlog)
      /\ phase' = [phase EXCEPT ![Head(backlog)] = "open"]
      /\ UNCHANGED <<sent, out, wr>>
  BY DEF AcceptOne, SysAccept
<1>2. Head(backlog) \in Clients /\ phase[Head(backlog)] = "backlog"
  BY <1>1, TailOfBacklog
<1>a. PICK c \in Clients : c = Head(backlog)
  BY <1>2
<1>3. \A d \in Clients : phase'[d] = IF d = c THEN "open" ELSE phase[d]
  BY <1>1, <1>a DEF IInv, TypeOK, KernelTypeOK
<1>4. phase[c] = "backlog"
  BY <1>2, <1>a
<1>5. /\ {d \in Clients : phase'[d] = "open"} = {d \in Clients : phase[d] = "open"} \cup {c}
      /\ {d \in Clients : phase'[d] = "closed"} = {d \in Clients : phase[d] = "closed"}
      /\ c \notin {d \in Clients : phase[d] = "open"} \cup {d \in Clients : phase[d] = "closed"}
  BY <1>3, <1>4
<1>6. Echo!Serve(c)
  BY <1>1, <1>4, <1>5 DEF Echo!Serve
<1> QED BY <1>6 DEF Echo!Next

LEMMA CloseImplements ==
  ASSUME IInv, NEW c \in Clients, phase[c] /= "closed",
         phase' = [phase EXCEPT ![c] = "closed"], UNCHANGED <<sent, out, wr>>
  PROVE  Echo!Next
<1>1. Echo!Finish(c)
  BY DEF Echo!Finish, IInv, TypeOK, KernelTypeOK
<1> QED BY <1>1 DEF Echo!Next

LEMMA ConnCloseImplements ==
  ASSUME IInv, NEW f \in FDs, owner[f] /= None, conn_close(f) PROVE Echo!Next
<1>1. owner[f] \in Clients /\ phase[owner[f]] = "open"
  BY DEF IInv, TypeOK, KernelTypeOK, OwnerInv
<1>2. /\ phase' = [phase EXCEPT ![owner[f]] = "closed"]
      /\ UNCHANGED <<sent, out, wr>>
  BY <1>1 DEF conn_close, SysClose, IInv, TypeOK, KernelTypeOK
<1> QED BY <1>1, <1>2, CloseImplements

LEMMA NextImplements == IInv /\ IInv' /\ [Next]_vars => [Echo!Next]_Echo!vars
<1> SUFFICES ASSUME IInv, IInv', [Next]_vars PROVE Echo!Next \/ UNCHANGED Echo!vars
  BY DEF Echo!vars
<1>1. CASE WriteSome
  BY <1>1, WriteImplements
<1>2. CASE AcceptOne
  BY <1>2, AcceptImplements
<1>3. CASE AcceptAddFails
  <2>1. /\ backlog /= <<>> /\ backlog' = Tail(backlog)
        /\ phase' = [phase EXCEPT ![Head(backlog)] = "closed"]
        /\ UNCHANGED <<sent, out, wr>>
    BY <1>3 DEF AcceptAddFails
  <2>2. Head(backlog) \in Clients /\ phase[Head(backlog)] = "backlog"
    BY <2>1, TailOfBacklog
  <2> QED BY <2>1, <2>2, CloseImplements
<1>4. CASE CloseIfMarked \/ \E e \in batch : DispatchHup(e)
  <2>1. ASSUME NEW e \in batch, DispatchHup(e) PROVE Echo!Next
    <3>1. e.fd \in FDs /\ owner[e.fd] /= None /\ conn_close(e.fd)
      BY <2>1 DEF DispatchHup, IInv, NoStaleEvent, TypeOK, ServerTypeOK
    <3> QED BY <3>1, ConnCloseImplements
  <2>2. CASE CloseIfMarked /\ state[cur] = "STATE_CLOSE"
    <3>1. cur \in FDs /\ owner[cur] /= None /\ conn_close(cur)
      BY <2>2 DEF CloseIfMarked, IInv, ControlInv
    <3> QED BY <3>1, ConnCloseImplements
  <2>3. CASE CloseIfMarked /\ state[cur] /= "STATE_CLOSE"
    BY <2>3, InvisibleSteps DEF CloseIfMarked, kernelVars, sockVars
  <2> QED BY <1>4, <2>1, <2>2, <2>3
<1>5. CASE EpollWait \/ QuietStep \/ ReadData \/ ReadAgain \/ RegisterOut \/ RegisterIn
              \/ WriteAgain \/ WriteDone
  <2>1. UNCHANGED <<phase, sent, out, wr>>
    BY <1>5 DEF EpollWait, SysWait, QuietStep, NextBatch, AcceptEnds,
      ReadFull, ReadCloses, WriteError, WriteSigpipe, DispatchListen,
      DispatchConn, ReadData, SysRead, ReadAgain, RegisterOut, RegisterIn, SysCtl,
      WriteAgain, SysWriteAgain, WriteDone, kernelVars, sockVars
  <2> QED BY <2>1, InvisibleSteps
<1>6. ASSUME NEW c \in Clients, PeerSend(c) PROVE Echo!Next
  <2>1. Echo!Arrive(c)
    BY <1>6 DEF PeerSend, Echo!Arrive
  <2> QED BY <2>1 DEF Echo!Next
<1>7. ASSUME NEW c \in Clients, Connect(c) PROVE UNCHANGED Echo!vars
  <2>1. \A d \in Clients : /\ phase'[d] = "open" <=> phase[d] = "open"
                          /\ phase'[d] = "closed" <=> phase[d] = "closed"
    BY <1>7 DEF Connect, IInv, TypeOK, KernelTypeOK
  <2> QED BY <1>7, <2>1 DEF Connect, Echo!vars
<1>8. ASSUME NEW c \in Clients, PeerRecv(c) \/ PeerFin(c) \/ PeerReset(c)
      PROVE  UNCHANGED Echo!vars
  BY <1>8, InvisibleSteps DEF PeerRecv, PeerFin, PeerReset
<1>9. CASE UNCHANGED vars
  BY <1>9, InvisibleSteps DEF vars, kernelVars, sockVars
<1> QED BY <1>1, <1>2, <1>3, <1>4, <1>5, <1>6, <1>7, <1>8, <1>9
        DEF Next, Server, Dispatch, HandleAccept, HandleRead, HandleWrite, QuietStep,
            PeerStep, Peer

\* The edge- and the level-triggered server both implement the echo service: no
\* client sees a byte that is not the next one of its own stream, and none is
\* sent anything once its connection was closed.
THEOREM EchoImplemented == Spec => ImplementsEcho
<1>1. Spec => []IInv
  BY Invariant
<1>2. Spec => Echo!Spec
  BY <1>1, InitImplements, NextImplements, PTL DEF Spec, Echo!Spec
<1> QED BY <1>2 DEF ImplementsEcho
------------------------------------------------------------------------------
(***************************************************************************)
(* On top of that invariant: the edge-triggered server never waits for a   *)
(* connection that could make progress and has no event coming, and either *)
(* server gives up bytes only of a connection its peer has closed or reset.*)
(***************************************************************************)
\* The descriptor is registered for what its connection waits for.
Watched(f) == interest[f] = IF state[f] = "STATE_READ" THEN {"IN"} ELSE {"OUT"}

\* Nothing more is needed for the connection to go on when it can.
Settled(f) ==
  /\ state[f] \in {"STATE_READ", "STATE_WRITE"} /\ Watched(f)
  /\ CanGoOn(f) => f \in ready
  /\ state[f] = "STATE_WRITE" /\ Space(owner[f]) = 0 => owner[f] \in nospace

Queued(f) == \E e \in batch : e.fd = f
Handled(f) == cur = f /\ pc \in {"read", "write", "modout", "modin", "after", "dead"}

\* A connection is in the hands of its handler, has an event in the batch, or is settled.
Attended(f) ==
  /\ ~Queued(f) /\ ~Handled(f) => Settled(f)
  /\ Queued(f) => state[f] \in {"STATE_READ", "STATE_WRITE"} /\ Watched(f)
  /\ Handled(f) =>
       /\ pc \in {"read", "write"} => Watched(f)
       /\ pc = "modout" => state[f] = "STATE_WRITE"
       /\ pc = "modin" => state[f] = "STATE_READ"
       /\ pc = "after" => state[f] = "STATE_CLOSE" \/ Settled(f)

\* An event says something its descriptor is registered for, or that it was reset.
EventsMean ==
  \A e \in batch : e.fd /= Listen => e.events /= {} /\ e.events \subseteq interest[e.fd] \cup {"HUP"}

WakeInv ==
  /\ pc = "wait" => batch = {}
  /\ \A c \in Clients : wr[c] - got[c] <= SndCap
  /\ EventsMean
  /\ \A f \in FDs : owner[f] /= None => Attended(f)

\* Connections are marked for closing, or reported as reset, for a reason.
LossInv ==
  /\ \A f \in FDs : owner[f] /= None /\ state[f] = "STATE_CLOSE" => owner[f] \in fin \cup rst
  /\ \A e \in batch : e.fd /= Listen /\ "HUP" \in e.events => e.who \in rst
  /\ LossOnlyAfterPeerCloses

------------------------------------------------------------------------------
(* What is lost.                                                           *)

LEMMA InitLoss == Init => LossInv
  BY DEF Init, KernelInit, LossInv, LossOnlyAfterPeerCloses

\* A step that takes, sends and closes nothing, and marks a connection only when its
\* peer is gone.
LEMMA LossQuiet ==
  ASSUME IInv, LossInv, UNCHANGED <<phase, rd, wr, owner, fin, rst>>, batch' \subseteq batch,
         \A f \in FDs : state'[f] = "STATE_CLOSE" /\ owner[f] /= None
                          => state[f] = "STATE_CLOSE" \/ owner[f] \in fin \cup rst
  PROVE  LossInv'
  BY DEF LossInv, LossOnlyAfterPeerCloses

LEMMA LossMarks ==
  ASSUME IInv, LossInv, ReadCloses \/ WriteError \/ ReadFull \/ ReadAgain \/ WriteDone
  PROVE  LossInv'
<1>1. UNCHANGED <<phase, rd, wr, owner, fin, rst, batch>>
  BY DEF ReadCloses, WriteError, ReadFull, ReadAgain, WriteDone, kernelVars,
    sockVars, epollVars
<1>2. \A f \in FDs : state'[f] = "STATE_CLOSE" /\ owner[f] /= None
                       => state[f] = "STATE_CLOSE" \/ owner[f] \in fin \cup rst
  BY DEF ReadCloses, WriteError, ReadFull, ReadAgain, WriteDone, Me, IInv, TypeOK,
    ServerTypeOK
<1> QED BY <1>1, <1>2, LossQuiet

LEMMA LossMoves ==
  ASSUME IInv, LossInv,
         \/ NextBatch \/ AcceptEnds \/ WriteSigpipe
         \/ RegisterOut \/ RegisterIn \/ WriteAgain
         \/ \E e \in batch : DispatchListen(e) \/ DispatchConn(e)
         \/ CloseIfMarked /\ state[cur] /= "STATE_CLOSE"
  PROVE  LossInv'
<1>1. UNCHANGED <<phase, rd, wr, owner, fin, rst, state>> /\ batch' \subseteq batch
  BY DEF NextBatch, AcceptEnds, WriteSigpipe, RegisterOut, RegisterIn, WriteAgain,
    DispatchListen, DispatchConn, CloseIfMarked, SysCtl, SysWriteAgain, kernelVars, sockVars,
    epollVars, connVars
<1> QED BY <1>1, LossQuiet

\* An event is reported as a reset when it is one.
LEMMA LossWait == ASSUME IInv, LossInv, EpollWait PROVE LossInv'
<1>1. UNCHANGED <<phase, rd, wr, owner, fin, rst, state>>
  BY DEF EpollWait, SysWait, connVars
<1>2. PICK R \in SUBSET ready :
        batch' = {[fd |-> x, events |-> Revents(x),
                   who |-> IF x = Listen THEN None ELSE owner[x]] : x \in R}
  BY DEF EpollWait
<1>3. \A x \in R : x /= Listen /\ "HUP" \in Revents(x) => owner[x] \in rst
  BY DEF Revents, PollFor
<1>4. \A e \in batch' : e.fd /= Listen /\ "HUP" \in e.events => e.who \in rst
  BY <1>2, <1>3
<1> QED BY <1>1, <1>4 DEF LossInv, LossOnlyAfterPeerCloses

\* Bytes are taken from and given to open connections only.
LEMMA LossBytes == ASSUME IInv, LossInv, ReadData \/ WriteSome PROVE LossInv'
<1>1. /\ pc \in {"read", "write"} /\ UNCHANGED <<phase, owner, fin, rst, state, batch>>
  BY DEF ReadData, WriteSome, SysRead, SysWrite, epollVars
<1>2. phase[Me] = "open"
  BY <1>1, InHand
<1>3. \A c \in Clients : c /= Me => rd'[c] = rd[c] /\ wr'[c] = wr[c]
  BY DEF ReadData, WriteSome, SysRead, SysWrite, Me, IInv, TypeOK, KernelTypeOK
<1>4. LossOnlyAfterPeerCloses'
  BY <1>1, <1>2, <1>3 DEF LossInv, LossOnlyAfterPeerCloses
<1> QED BY <1>1, <1>4 DEF LossInv

LEMMA LossClose ==
  ASSUME IInv, LossInv, NEW f \in FDs, owner[f] /= None, owner[f] \in fin \cup rst,
         conn_close(f), batch' \subseteq batch
  PROVE  LossInv'
<1>1. /\ phase' = [c \in Clients |-> IF c = owner[f] THEN "closed" ELSE phase[c]]
      /\ owner' = [owner EXCEPT ![f] = None]
      /\ state' = [state EXCEPT ![f] = "STATE_READ"]
      /\ UNCHANGED <<rd, wr, fin, rst>>
  BY DEF conn_close, SysClose
<1>2. LossOnlyAfterPeerCloses'
  BY <1>1 DEF LossInv, LossOnlyAfterPeerCloses
<1>3. \A g \in FDs : owner'[g] /= None /\ state'[g] = "STATE_CLOSE" => owner'[g] \in fin' \cup rst'
  BY <1>1 DEF LossInv, IInv, TypeOK, KernelTypeOK, ServerTypeOK
<1> QED BY <1>1, <1>2, <1>3 DEF LossInv

LEMMA LossAccept == ASSUME IInv, LossInv, AcceptOne \/ AcceptAddFails PROVE LossInv'
<1>1. /\ backlog /= <<>> /\ UNCHANGED <<rd, wr, fin, rst, batch>>
      /\ backlog' = Tail(backlog)
      /\ \E p \in {"open", "closed"} : phase' = [phase EXCEPT ![Head(backlog)] = p]
  BY DEF AcceptOne, AcceptAddFails, SysAccept
<1>2. Head(backlog) \in Clients /\ phase[Head(backlog)] = "backlog"
  BY <1>1, TailOfBacklog
<1>3. LossOnlyAfterPeerCloses'
  <2>1. rd[Head(backlog)] = 0 /\ wr[Head(backlog)] = 0
    BY <1>2 DEF IInv, FreshInv
  <2>2. \A c \in Clients : c /= Head(backlog) => phase'[c] = phase[c]
    BY <1>1 DEF IInv, TypeOK, KernelTypeOK
  <2> QED BY <1>1, <2>1, <2>2 DEF LossInv, LossOnlyAfterPeerCloses
<1>4. PICK f \in FreeFd : conn_init(f) /\ (owner' = owner \/ owner' = [owner EXCEPT ![f] = Head(backlog)])
  BY DEF AcceptOne, AcceptAddFails, SysAccept
<1>5. \A g \in FDs : owner'[g] /= None /\ state'[g] = "STATE_CLOSE" => owner'[g] \in fin' \cup rst'
  BY <1>1, <1>4 DEF conn_init, FreeFd, LossInv, IInv, TypeOK, KernelTypeOK, ServerTypeOK
<1> QED BY <1>1, <1>3, <1>5 DEF LossInv

LEMMA LossPeers == ASSUME IInv, LossInv, PeerStep PROVE LossInv'
<1>1. /\ UNCHANGED <<rd, wr, owner, state, batch>> /\ fin \subseteq fin' /\ rst \subseteq rst'
      /\ \A c \in Clients : phase'[c] = "closed" => phase[c] = "closed"
  BY DEF PeerStep, Peer, Connect, PeerSend, PeerRecv, PeerFin, PeerReset, serverVars, connVars,
    IInv, TypeOK, KernelTypeOK
<1> QED BY <1>1 DEF LossInv, LossOnlyAfterPeerCloses

LEMMA NextLoss == IInv /\ LossInv /\ [Next]_vars => LossInv'
<1> SUFFICES ASSUME IInv, LossInv, [Next]_vars PROVE LossInv'
  OBVIOUS
<1>1. ASSUME NEW e \in batch, DispatchHup(e) PROVE LossInv'
  <2>1. /\ e.fd \in FDs /\ owner[e.fd] /= None /\ conn_close(e.fd) /\ batch' = batch \ {e}
        /\ owner[e.fd] = e.who /\ e.who \in rst
    BY <1>1 DEF DispatchHup, IInv, NoStaleEvent, TypeOK, ServerTypeOK, LossInv
  <2> QED BY <2>1, LossClose
<1>2. CASE CloseIfMarked /\ state[cur] = "STATE_CLOSE"
  <2>1. /\ cur \in FDs /\ owner[cur] /= None /\ conn_close(cur) /\ batch' = batch
        /\ owner[cur] \in fin \cup rst
    BY <1>2 DEF CloseIfMarked, IInv, ControlInv, LossInv
  <2> QED BY <2>1, LossClose
<1>3. CASE UNCHANGED vars
  BY <1>3, LossQuiet DEF vars, kernelVars, sockVars, epollVars, serverVars, connVars
<1> QED BY <1>1, <1>2, <1>3, LossMarks, LossMoves, LossWait, LossBytes, LossAccept, LossPeers
        DEF Next, Server, Dispatch, HandleAccept, HandleRead, HandleWrite

\* The server gives up bytes it has read and not written only when the peer has closed
\* or reset the connection: no error path and no partial write drops any.
THEOREM LossIsThePeers == Spec => []LossOnlyAfterPeerCloses
<1>1. Spec => []IInv
  BY Invariant
<1>2. LossInv => LossOnlyAfterPeerCloses
  BY DEF LossInv
<1> QED BY <1>1, <1>2, InitLoss, NextLoss, PTL DEF Spec

------------------------------------------------------------------------------
(* What is waited for.                                                     *)

LEMMA InitWake == Init => WakeInv
  BY BoundAssumption DEF Init, KernelInit, WakeInv, EventsMean

\* A connection stays settled while its buffer, its socket and what it is registered for
\* stay, and no wake-up is taken back.
LEMMA StaysSettled ==
  ASSUME NEW f \in FDs, Settled(f), owner'[f] = owner[f], interest'[f] = interest[f],
         state'[f] = state[f], f \in ready => f \in ready',
         owner[f] \in nospace => owner[f] \in nospace',
         LET c == owner[f]
         IN /\ sent'[c] = sent[c] /\ rd'[c] = rd[c] /\ wr'[c] = wr[c] /\ got'[c] = got[c]
            /\ c \in fin' <=> c \in fin
            /\ c \in rst' <=> c \in rst
  PROVE  Settled(f)'
  BY DEF Settled, Watched, CanGoOn, Pending, Space

\* So does every other connection than the one in hand, while its events stay.
LEMMA OthersAttended ==
  ASSUME IInv, WakeInv, NEW f \in FDs, owner[f] /= None, f /= cur, cur' = cur, batch' = batch,
         owner' = owner, interest'[f] = interest[f], state'[f] = state[f],
         f \in ready => f \in ready', nospace \subseteq nospace',
         sent'[owner[f]] = sent[owner[f]], rd'[owner[f]] = rd[owner[f]],
         wr'[owner[f]] = wr[owner[f]], got' = got, fin' = fin, rst' = rst
  PROVE  Attended(f)'
<1>1. Settled(f) => Settled(f)'
  BY StaysSettled
<1> QED BY <1>1 DEF WakeInv, Attended, Queued, Handled, Watched

\* The steps of a handler that has the connection and stays with it.
Inside == {"read", "write", "modout", "modin", "after", "dead"}

LEMMA HandlerWake ==
  ASSUME IInv, WakeInv, pc \in {"read", "write", "modout", "modin"}, pc' \in Inside,
         cur' = cur, batch' = batch, owner' = owner, got' = got, fin' = fin, rst' = rst,
         \A f \in FDs : f /= cur => /\ interest'[f] = interest[f] /\ state'[f] = state[f]
                                    /\ f \in ready => f \in ready',
         nospace \subseteq nospace', sent' = sent,
         \A c \in Clients : c /= Me => rd'[c] = rd[c] /\ wr'[c] = wr[c],
         wr'[Me] - got[Me] <= SndCap,
         pc' \in {"read", "write"} => Watched(cur)',
         pc' = "modout" => state'[cur] = "STATE_WRITE",
         pc' = "modin" => state'[cur] = "STATE_READ",
         pc' = "after" => state'[cur] = "STATE_CLOSE" \/ Settled(cur)'
  PROVE  WakeInv'
<1>1. /\ cur \in FDs /\ owner[cur] = Me /\ Me \in Clients
      /\ \A f \in FDs : f /= cur => owner[f] /= Me
      /\ \A e \in batch : e.fd /= cur
  BY InHand DEF IInv, ControlInv
<1>2. ASSUME NEW f \in FDs, owner'[f] /= None PROVE Attended(f)'
  <2>1. CASE f /= cur
    <3>1. owner[f] \in Clients /\ owner[f] /= Me
      BY <1>1, <1>2, <2>1 DEF IInv, TypeOK, KernelTypeOK
    <3> QED BY <1>2, <2>1, <3>1, OthersAttended
  <2>2. CASE f = cur
    <3>1. ~Queued(f)' /\ Handled(f)'
      BY <1>1, <2>2 DEF Queued, Handled, Inside
    <3> QED BY <2>2, <3>1 DEF Attended
  <2> QED BY <2>1, <2>2
<1>3. EventsMean'
  BY <1>1 DEF WakeInv, EventsMean, IInv, TypeOK, ServerTypeOK
<1>4. \A c \in Clients : wr'[c] - got'[c] <= SndCap
  BY DEF WakeInv
<1> QED BY <1>2, <1>3, <1>4 DEF WakeInv, Inside

\* What the handler knows of its own connection.
LEMMA OwnConnection ==
  ASSUME IInv, WakeInv, pc \in {"read", "write", "modout", "modin", "after"}
  PROVE  /\ cur \in FDs /\ Me \in Clients /\ owner[cur] = Me /\ wr[Me] - got[Me] <= SndCap
         /\ pc \in {"read", "write"} => Watched(cur)
         /\ pc = "read" => state[cur] = "STATE_READ"
         /\ pc = "write" => state[cur] = "STATE_WRITE"
         /\ pc = "modout" => state[cur] = "STATE_WRITE"
         /\ pc = "modin" => state[cur] = "STATE_READ"
         /\ pc = "after" => state[cur] = "STATE_CLOSE" \/ Settled(cur)
         /\ \A e \in batch : e.fd /= cur
<1>1. cur \in FDs /\ Me \in Clients /\ owner[cur] = Me
  BY InHand
<1>2. owner[cur] /= None /\ Attended(cur)
  BY <1>1, ClientAssumption DEF WakeInv
<1> QED BY <1>1, <1>2 DEF Attended, Handled, WakeInv, IInv, ControlInv

LEMMA QuietHandlerWake ==
  ASSUME IInv, WakeInv, Trigger = "ET",
         ReadFull \/ ReadCloses \/ WriteError \/ WriteSigpipe \/ ReadAgain \/ WriteDone
  PROVE  WakeInv'
<1>1. /\ pc \in {"read", "write"} /\ pc' \in Inside /\ cur' = cur /\ batch' = batch
      /\ UNCHANGED <<owner, got, fin, rst, sent, rd, wr, nospace, interest, ready>>
      /\ \A f \in FDs : f /= cur => state'[f] = state[f]
  BY DEF ReadFull, ReadCloses, WriteError, WriteSigpipe, ReadAgain, WriteDone,
    Inside, kernelVars, sockVars, epollVars, connVars, IInv, TypeOK, ServerTypeOK
<1>2. cur \in FDs /\ owner[cur] = Me /\ wr[Me] - got[Me] <= SndCap
  BY <1>1, OwnConnection
<1>3. /\ pc' \notin {"read", "write"}
      /\ pc' = "modout" => state'[cur] = "STATE_WRITE"
      /\ pc' = "modin" => state'[cur] = "STATE_READ"
      /\ pc' = "after" => state'[cur] = "STATE_CLOSE" \/ (ReadAgain /\ UNCHANGED state)
  BY <1>2 DEF ReadFull, ReadCloses, WriteError, WriteSigpipe, ReadAgain, WriteDone,
    IInv, TypeOK, ServerTypeOK
<1>4. ReadAgain /\ UNCHANGED state => Settled(cur)'
  <2>1. pc = "read" => state[cur] = "STATE_READ" /\ Watched(cur)
    BY OwnConnection
  <2> QED BY <1>1, <1>2, <2>1 DEF ReadAgain, Settled, Watched, CanGoOn, Pending
<1> QED BY <1>1, <1>2, <1>3, <1>4, HandlerWake

LEMMA BytesWake == ASSUME IInv, WakeInv, ReadData \/ WriteSome PROVE WakeInv'
<1>1. /\ pc \in {"read", "write"} /\ pc' = pc /\ cur' = cur /\ batch' = batch
      /\ UNCHANGED <<owner, got, fin, rst, sent, nospace, interest, ready, state>>
      /\ \A c \in Clients : c /= Me => rd'[c] = rd[c] /\ wr'[c] = wr[c]
  BY DEF ReadData, WriteSome, SysRead, SysWrite, Me, epollVars, IInv, TypeOK, KernelTypeOK
<1>2. Watched(cur) /\ Me \in Clients /\ wr[Me] - got[Me] <= SndCap
  BY <1>1, OwnConnection
<1>3. wr'[Me] - got[Me] <= SndCap
  <2>1. CASE ReadData
    BY <1>2, <2>1 DEF ReadData, SysRead
  <2>2. CASE WriteSome
    <3>1. PICK n \in 1..Space(Me) : wr' = [wr EXCEPT ![Me] = @ + n]
      BY <2>2 DEF WriteSome, SysWrite, Me
    <3>2. /\ wr[Me] \in Nat /\ got[Me] \in Nat /\ SndCap \in Nat
          /\ wr'[Me] = wr[Me] + n /\ n \in Nat /\ n <= SndCap - (wr[Me] - got[Me])
      BY <1>2, <3>1, BoundAssumption DEF Space, IInv, TypeOK, KernelTypeOK
    <3> QED BY <3>2
  <2> QED BY <2>1, <2>2
<1>4. Watched(cur)'
  BY <1>1, <1>2 DEF Watched
<1> QED BY <1>1, <1>3, <1>4, HandlerWake DEF Inside

\* The kernel is asked, and looks at once.
LEMMA RegisterWake ==
  ASSUME IInv, WakeInv, RegisterOut \/ RegisterIn \/ WriteAgain PROVE WakeInv'
<1>1. /\ pc \in {"modout", "modin", "write"} /\ pc' = "after" /\ cur' = cur /\ batch' = batch
      /\ UNCHANGED <<owner, got, fin, rst, sent, rd, wr, state>> /\ nospace \subseteq nospace'
      /\ \A f \in FDs : f /= cur => interest'[f] = interest[f] /\ (f \in ready => f \in ready')
  BY DEF RegisterOut, RegisterIn, WriteAgain, SysCtl, SysWriteAgain, connVars, epollVars, IInv,
    TypeOK, KernelTypeOK
<1>2. /\ cur \in FDs /\ owner[cur] = Me /\ Me \in Clients /\ wr[Me] - got[Me] <= SndCap
      /\ wr[Me] \in Nat /\ got[Me] \in Nat /\ SndCap \in Nat
  BY <1>1, OwnConnection, BoundAssumption DEF IInv, TypeOK, KernelTypeOK
<1>3. Settled(cur)'
  <2>1. CASE RegisterOut
    <3>1. /\ state'[cur] = "STATE_WRITE" /\ interest'[cur] = {"OUT"}
          /\ nospace' = nospace \cup OwesSpace(cur, {"OUT"})
          /\ ready' = ready \cup {g \in {cur} : PollFor(cur, {"OUT"}) /= {}}
      BY <1>1, <1>2, <2>1, OwnConnection DEF RegisterOut, SysCtl, IInv, TypeOK, KernelTypeOK
    <3>2. Space(Me) > 0 \/ Me \in rst => cur \in ready'
      BY <1>2, <3>1 DEF PollFor, Space
    <3>3. Space(Me) = 0 => Me \in nospace'
      BY <1>2, <3>1 DEF OwesSpace, Space
    <3> QED BY <1>1, <1>2, <3>1, <3>2, <3>3 DEF Settled, Watched, CanGoOn, Space
  <2>2. CASE RegisterIn
    <3>1. /\ state'[cur] = "STATE_READ" /\ interest'[cur] = {"IN"}
          /\ ready' = ready \cup {g \in {cur} : PollFor(cur, {"IN"}) /= {}}
      BY <1>1, <1>2, <2>2, OwnConnection DEF RegisterIn, SysCtl, IInv, TypeOK, KernelTypeOK
    <3>2. Pending(Me) > 0 \/ Me \in fin \cup rst => cur \in ready'
      BY <1>2, <3>1 DEF PollFor
    <3> QED BY <1>1, <1>2, <3>1, <3>2 DEF Settled, Watched, CanGoOn, Pending
  <2>3. CASE WriteAgain
    BY <1>1, <1>2, <2>3, OwnConnection
      DEF WriteAgain, SysWriteAgain, epollVars, Settled, Watched, CanGoOn, Space
  <2> QED BY <2>1, <2>2, <2>3
<1> QED BY <1>1, <1>2, <1>3, HandlerWake DEF Inside

\* Steps between two handlers: who is not settled has an event.
LEMMA LoopWake ==
  ASSUME IInv, WakeInv, pc \in {"dispatch", "accept"}, pc' \in {"wait", "dispatch", "accept"},
         UNCHANGED <<kernelVars, batch, connVars>>, pc' = "wait" => batch = {}
  PROVE  WakeInv'
<1>1. UNCHANGED <<owner, interest, state, ready, nospace, sent, rd, wr, got, fin, rst>>
  BY DEF kernelVars, sockVars, epollVars, connVars
<1>2. \A f \in FDs : owner[f] /= None => Attended(f)'
  BY <1>1 DEF WakeInv, Attended, Queued, Handled, Settled, Watched, CanGoOn, Pending, Space
<1> QED BY <1>1, <1>2 DEF WakeInv, EventsMean

\* An event of the batch is taken up: the handler it goes to is the one its connection
\* waits for.
LEMMA DispatchWake ==
  ASSUME IInv, WakeInv, NEW e \in batch, DispatchListen(e) \/ DispatchConn(e)
  PROVE  WakeInv'
<1>1. /\ UNCHANGED <<owner, interest, state, ready, nospace, sent, rd, wr, got, fin, rst>>
      /\ batch' = batch \ {e} /\ pc = "dispatch" /\ cur' = e.fd /\ pc' /= "wait"
  BY DEF DispatchListen, DispatchConn, Handler, kernelVars, sockVars, epollVars, connVars
<1>2. \A d \in batch : d.fd = e.fd => d = e
  BY DEF IInv, ControlInv
<1>3. ASSUME NEW f \in FDs, owner[f] /= None PROVE Attended(f)'
  <2>1. CASE f /= e.fd
    <3>1. Attended(f) /\ ~Handled(f) /\ ~Handled(f)' /\ (Queued(f) <=> Queued(f)')
      BY <1>1, <1>3, <2>1 DEF WakeInv, Handled, Queued
    <3> QED BY <1>1, <3>1 DEF Attended, Settled, Watched, CanGoOn, Pending, Space
  <2>2. CASE f = e.fd
    <3>1. DispatchConn(e) /\ ~Queued(f)'
      BY <1>1, <1>2, <2>2, ClientAssumption DEF DispatchListen, Queued
    <3>2. Queued(f) /\ Attended(f) /\ e.events /= {} /\ e.events \subseteq interest[f] \cup {"HUP"}
      BY <1>3, <2>2, ClientAssumption DEF WakeInv, EventsMean, Queued
    <3>3. state[f] \in {"STATE_READ", "STATE_WRITE"} /\ Watched(f)
      BY <3>2 DEF Attended
    <3>4. pc' \in {"read", "write"}
      <4>1. PICK x \in e.events : x \in interest[f]
        BY <3>1, <3>2 DEF DispatchConn
      <4>2. \/ state[e.fd] = "STATE_READ" /\ "IN" \in e.events
            \/ state[e.fd] = "STATE_WRITE" /\ "OUT" \in e.events
        BY <2>2, <3>3, <4>1 DEF Watched
      <4>3. Handler(e) \in {"read", "write"}
        BY <4>2 DEF Handler
      <4>4. pc' = Handler(e)
        BY <3>1 DEF DispatchConn
      <4> QED BY <4>3, <4>4
    <3> QED BY <1>1, <2>2, <3>1, <3>3, <3>4 DEF Attended, Handled, Watched
  <2> QED BY <2>1, <2>2
<1> QED BY <1>1, <1>3 DEF WakeInv, EventsMean

\* epoll_wait reports what it takes off the list.
LEMMA WaitWake == ASSUME IInv, WakeInv, Trigger = "ET", EpollWait PROVE WakeInv'
<1>1. /\ UNCHANGED <<owner, interest, state, sent, rd, wr, got, fin, rst, cur>>
      /\ nospace \subseteq nospace' /\ pc = "wait" /\ batch = {}
  BY DEF EpollWait, SysWait, connVars, WakeInv
<1>2. PICK R \in SUBSET ready :
        /\ R \subseteq {x \in ready : Revents(x) /= {}}
        /\ ready' = {x \in ready : Revents(x) /= {}} \ R
        /\ batch' = {[fd |-> x, events |-> Revents(x),
                      who |-> IF x = Listen THEN None ELSE owner[x]] : x \in R}
        /\ pc' = IF R = {} THEN "wait" ELSE "dispatch"
  BY DEF EpollWait, SysWait
<1>3. /\ \A f : (\E e \in batch' : e.fd = f) <=> f \in R
      /\ \A e \in batch' : e.fd \in R /\ e.events = Revents(e.fd)
  <2> DEFINE event(x) == [fd |-> x, events |-> Revents(x),
                          who |-> IF x = Listen THEN None ELSE owner[x]]
  <2>1. batch' = {event(x) : x \in R}
    BY <1>2
  <2>2. \A x : event(x).fd = x /\ event(x).events = Revents(x)
    OBVIOUS
  <2> HIDE DEF event
  <2> QED BY <2>1, <2>2
<1>4. EventsMean'
  <2>1. \A x : x /= Listen => Revents(x) \subseteq interest[x] \cup {"HUP"}
    BY DEF Revents, PollFor
  <2>2. \A x \in R : Revents(x) /= {}
    BY <1>2
  <2> QED BY <1>1, <1>3, <2>1, <2>2 DEF EventsMean
<1>5. ASSUME NEW f \in FDs, owner[f] /= None PROVE Attended(f)'
  <2>1. Settled(f)
    BY <1>1, <1>5 DEF WakeInv, Attended, Queued, Handled
  <2>2. Queued(f)' <=> f \in R
    BY <1>3 DEF Queued
  <2>3. ~Handled(f)'
    BY <1>2 DEF Handled
  <2>4. CanGoOn(f) /\ f \notin R => f \in ready'
    <3>1. /\ wr[owner[f]] \in Nat /\ got[owner[f]] \in Nat /\ SndCap \in Nat /\ f /= Listen
      BY <1>5, BoundAssumption, ClientAssumption DEF IInv, TypeOK, KernelTypeOK
    <3>2. CanGoOn(f) => Revents(f) /= {}
      BY <2>1, <3>1 DEF Settled, Watched, CanGoOn, Revents, PollFor, Space
    <3> QED BY <1>2, <2>1, <3>2 DEF Settled
  <2>5. f \notin R => Settled(f)'
    BY <1>1, <2>1, <2>4 DEF Settled, Watched, CanGoOn, Pending, Space
  <2> QED BY <1>1, <2>1, <2>2, <2>3, <2>5 DEF Attended, Settled, Watched
<1>6. pc' = "wait" => batch' = {}
  BY <1>2
<1> QED BY <1>1, <1>4, <1>5, <1>6 DEF WakeInv

\* A connection that is closed takes nothing from the others.
LEMMA CloseWake ==
  ASSUME IInv, WakeInv, NEW f \in FDs, owner[f] /= None, conn_close(f),
         pc = "dispatch" \/ (pc = "after" /\ cur = f), pc' = "dispatch", cur' = cur,
         batch' \subseteq batch, \A e \in batch : e \in batch' <=> e.fd /= f
  PROVE  WakeInv'
<1>1. /\ \A g \in FDs : g /= f => /\ owner'[g] = owner[g] /\ interest'[g] = interest[g]
                                 /\ state'[g] = state[g] /\ (g \in ready => g \in ready')
      /\ owner'[f] = None /\ UNCHANGED <<fin, rst, sent, rd, wr, got, nospace>>
  BY DEF conn_close, SysClose, IInv, TypeOK, KernelTypeOK, ServerTypeOK
<1>2. ASSUME NEW g \in FDs, owner'[g] /= None PROVE Attended(g)'
  <2>1. g /= f /\ owner[g] /= None
    BY <1>1, <1>2
  <2>2. ~Handled(g) /\ ~Handled(g)' /\ (Queued(g) <=> Queued(g)')
    BY <2>1 DEF Handled, Queued
  <2>3. Settled(g) => Settled(g)'
    BY <1>1, <2>1, StaysSettled
  <2> QED BY <1>1, <2>1, <2>2, <2>3 DEF WakeInv, Attended, Watched
<1>3. EventsMean'
  BY <1>1 DEF WakeInv, EventsMean, IInv, TypeOK, ServerTypeOK
<1> QED BY <1>1, <1>2, <1>3 DEF WakeInv

LEMMA CloseStepsWake ==
  ASSUME IInv, WakeInv, CloseIfMarked \/ \E e \in batch : DispatchHup(e) PROVE WakeInv'
<1>1. ASSUME NEW e \in batch, DispatchHup(e) PROVE WakeInv'
  <2>1. /\ e.fd \in FDs /\ owner[e.fd] /= None /\ conn_close(e.fd) /\ batch' = batch \ {e}
        /\ pc = "dispatch" /\ pc' = pc /\ cur' = cur
    BY <1>1 DEF DispatchHup, IInv, NoStaleEvent, TypeOK, ServerTypeOK
  <2>2. \A d \in batch : d \in batch' <=> d.fd /= e.fd
    BY <2>1 DEF IInv, ControlInv
  <2> QED BY <2>1, <2>2, CloseWake
<1>2. CASE CloseIfMarked /\ state[cur] = "STATE_CLOSE"
  <2>1. /\ cur \in FDs /\ owner[cur] /= None /\ conn_close(cur) /\ batch' = batch
        /\ pc = "after" /\ pc' = "dispatch" /\ cur' = cur /\ \A e \in batch : e.fd /= cur
    BY <1>2 DEF CloseIfMarked, IInv, ControlInv
  <2> QED BY <2>1, CloseWake
<1>3. CASE CloseIfMarked /\ state[cur] /= "STATE_CLOSE"
  <2>1. /\ pc = "after" /\ pc' = "dispatch" /\ cur' = cur /\ batch' = batch
        /\ UNCHANGED <<owner, interest, state, ready, nospace, sent, rd, wr, got, fin, rst>>
    BY <1>3 DEF CloseIfMarked, kernelVars, sockVars, epollVars, connVars
  <2>2. ASSUME NEW f \in FDs, owner[f] /= None PROVE Attended(f)'
    <3>1. Settled(f) => Settled(f)'
      BY <2>1, StaysSettled
    <3>2. Attended(f) /\ ~Handled(f)' /\ (Queued(f)' <=> Queued(f))
      BY <2>1, <2>2 DEF WakeInv, Handled, Queued
    <3>3. CASE f = cur
      BY <1>3, <2>1, <3>1, <3>2, <3>3, OwnConnection DEF Attended, Queued
    <3>4. CASE f /= cur
      BY <2>1, <3>1, <3>2, <3>4 DEF Attended, Handled, Watched
    <3> QED BY <3>3, <3>4
  <2> QED BY <2>1, <2>2 DEF WakeInv, EventsMean
<1> QED BY <1>1, <1>2, <1>3

\* A descriptor nobody has carries no event; it is registered, and polled, at once.
LEMMA AcceptWake == ASSUME IInv, WakeInv, AcceptOne \/ AcceptAddFails PROVE WakeInv'
<1>1. PICK f \in FDs :
        /\ owner[f] = None /\ state'[f] = "STATE_READ"
        /\ \A g \in FDs : g /= f => /\ owner'[g] = owner[g] /\ interest'[g] = interest[g]
                                   /\ state'[g] = state[g] /\ (g \in ready => g \in ready')
        /\ owner'[f] = None \/ /\ interest'[f] = {"IN"}
                               /\ Pending(owner'[f]) > 0 \/ owner'[f] \in fin \cup rst => f \in ready'
  <2>1. /\ state \in [FDs -> States] /\ owner \in [FDs -> Clients \cup {None}]
        /\ interest \in [FDs -> SUBSET Event]
    BY DEF IInv, TypeOK, KernelTypeOK, ServerTypeOK
  <2>2. CASE AcceptOne
    <3>1. PICK f \in FDs : owner[f] = None /\ SysAccept(f) /\ conn_init(f)
      BY <2>2 DEF AcceptOne, FreeFd
    <3>2. /\ state' = [state EXCEPT ![f] = "STATE_READ"]
          /\ owner' = [owner EXCEPT ![f] = Head(backlog)]
          /\ interest' = [interest EXCEPT ![f] = {"IN"}]
          /\ ready' = ready \cup
               {g \in {f} : Pending(Head(backlog)) > 0 \/ Head(backlog) \in fin \cup rst}
      BY <3>1 DEF SysAccept, conn_init
    <3> QED BY <2>1, <3>1, <3>2
  <2>3. CASE AcceptAddFails
    BY <2>1, <2>3 DEF AcceptAddFails, FreeFd, conn_init
  <2> QED BY <2>2, <2>3
<1>2. pc = "accept" /\ UNCHANGED <<fin, rst, sent, rd, wr, got, nospace, pc, cur, batch>>
  BY DEF AcceptOne, AcceptAddFails, SysAccept
<1>3. \A e \in batch : e.fd /= f
  BY <1>1, ClientAssumption DEF IInv, NoStaleEvent
<1>4. ASSUME NEW g \in FDs, owner'[g] /= None PROVE Attended(g)'
  <2>1. ~Handled(g) /\ ~Handled(g)' /\ (Queued(g)' <=> Queued(g))
    BY <1>2 DEF Handled, Queued
  <2>2. CASE g = f
    <3>1. Settled(g)'
      BY <1>1, <1>2, <1>4, <2>2 DEF Settled, Watched, CanGoOn, Pending
    <3> QED BY <1>2, <1>3, <2>1, <2>2, <3>1 DEF Attended, Queued
  <2>3. CASE g /= f
    <3>1. Settled(g) => Settled(g)'
      BY <1>1, <1>2, <2>3, StaysSettled
    <3> QED BY <1>1, <1>4, <2>1, <2>3, <3>1 DEF WakeInv, Attended, Watched
  <2> QED BY <2>2, <2>3
<1>5. EventsMean'
  BY <1>1, <1>2, <1>3 DEF WakeInv, EventsMean, IInv, TypeOK, ServerTypeOK
<1> QED BY <1>2, <1>4, <1>5 DEF WakeInv

\* What a peer does wakes the connection that waits for it.
LEMMA PeerSettled ==
  ASSUME IInv, WakeInv, PeerStep, NEW f \in FDs, owner[f] /= None, Settled(f)
  PROVE  Settled(f)'
<1>1. UNCHANGED <<owner, interest, state, rd, wr>> /\ ready \subseteq ready'
  BY DEF PeerStep, Peer, Connect, PeerSend, PeerRecv, PeerFin, PeerReset, serverVars, connVars
<1>2. PICK c \in Clients :
        Connect(c) \/ PeerSend(c) \/ PeerRecv(c) \/ PeerFin(c) \/ PeerReset(c)
  BY DEF PeerStep, Peer
<1> DEFINE o == owner[f]
<1>3. /\ o \in Clients /\ owner'[f] = o /\ wr[o] \in Nat /\ got[o] \in Nat /\ SndCap \in Nat
      /\ wr[o] - got[o] <= SndCap
  BY <1>1, BoundAssumption DEF IInv, TypeOK, KernelTypeOK, WakeInv
<1>4. CASE c /= o \/ Connect(c)
  <2>1. /\ sent'[o] = sent[o] /\ got'[o] = got[o] /\ (o \in nospace => o \in nospace')
        /\ (o \in fin' <=> o \in fin) /\ (o \in rst' <=> o \in rst)
    BY <1>2, <1>3, <1>4 DEF Connect, PeerSend, PeerRecv, PeerFin, PeerReset, IInv, TypeOK, KernelTypeOK
  <2> QED BY <1>1, <2>1, StaysSettled
<1>5. CASE c = o /\ PeerSend(c)
  <2>1. /\ UNCHANGED <<fin, rst, got, nospace>> /\ ("IN" \in interest[f] => f \in ready')
    BY <1>5 DEF PeerSend, Wakes
  <2> QED BY <1>1, <1>3, <2>1 DEF Settled, Watched, CanGoOn, Space
<1>6. CASE c = o /\ (PeerFin(c) \/ PeerReset(c))
  <2>1. UNCHANGED <<got, nospace>> /\ f \in ready'
    BY <1>6 DEF PeerFin, PeerReset, Wakes, Event, Settled, Watched
  <2> QED BY <1>1, <2>1 DEF Settled, Watched, Space
<1>7. CASE c = o /\ PeerRecv(c)
  <2>1. /\ UNCHANGED <<fin, rst, sent>> /\ got'[o] = got[o] + 1
        /\ (o \in nospace /\ "OUT" \in interest[f] => f \in ready')
    BY <1>3, <1>7 DEF PeerRecv, Wakes, IInv, TypeOK, KernelTypeOK
  <2>2. Space(o)' > 0 /\ (Space(o) > 0 \/ Space(o) = 0)
    BY <1>1, <1>3, <2>1 DEF Space
  <2>3. CASE state[f] = "STATE_READ"
    BY <1>1, <2>1, <2>3 DEF Settled, Watched, CanGoOn, Pending
  <2>4. CASE state[f] = "STATE_WRITE"
    <3>1. f \in ready'
      BY <1>1, <2>1, <2>2, <2>4 DEF Settled, Watched, CanGoOn
    <3> QED BY <1>1, <1>3, <2>2, <2>4, <3>1 DEF Settled, Watched
  <2> QED BY <2>3, <2>4 DEF Settled
<1> QED BY <1>2, <1>4, <1>5, <1>6, <1>7

LEMMA PeerWake == ASSUME IInv, WakeInv, PeerStep PROVE WakeInv'
<1>1. UNCHANGED <<owner, interest, state, wr, pc, cur, batch>>
  BY DEF PeerStep, Peer, Connect, PeerSend, PeerRecv, PeerFin, PeerReset, serverVars, connVars
<1>2. \A f \in FDs : owner[f] /= None => Attended(f)'
  BY <1>1, PeerSettled DEF WakeInv, Attended, Queued, Handled, Watched
<1>3. \A c \in Clients : wr'[c] - got'[c] <= SndCap
  <2> SUFFICES ASSUME NEW c \in Clients PROVE wr'[c] - got'[c] <= SndCap
    OBVIOUS
  <2>1. /\ wr[c] - got[c] <= SndCap /\ wr[c] \in Nat /\ got[c] \in Nat /\ SndCap \in Nat
    BY BoundAssumption DEF WakeInv, IInv, TypeOK, KernelTypeOK
  <2>2. got'[c] = got[c] \/ got'[c] = got[c] + 1
    BY DEF PeerStep, Peer, Connect, PeerSend, PeerRecv, PeerFin, PeerReset, IInv, TypeOK, KernelTypeOK
  <2> QED BY <1>1, <2>1, <2>2
<1> QED BY <1>1, <1>2, <1>3 DEF WakeInv, EventsMean

LEMMA NextWake == Trigger = "ET" /\ IInv /\ WakeInv /\ [Next]_vars => WakeInv'
<1> SUFFICES ASSUME Trigger = "ET", IInv, WakeInv, [Next]_vars PROVE WakeInv'
  OBVIOUS
<1>1. CASE NextBatch \/ AcceptEnds
  BY <1>1, LoopWake DEF NextBatch, AcceptEnds
<1>2. CASE UNCHANGED vars
  <2>1. /\ UNCHANGED <<owner, interest, state, ready, nospace, sent, rd, wr, got, fin, rst>>
        /\ UNCHANGED <<pc, cur, batch>>
    BY <1>2 DEF vars, kernelVars, sockVars, epollVars, serverVars, connVars
  <2>2. \A f \in FDs : owner[f] /= None => Attended(f)'
    BY <2>1 DEF WakeInv, Attended, Queued, Handled, Settled, Watched, CanGoOn, Pending, Space
  <2> QED BY <2>1, <2>2 DEF WakeInv, EventsMean
<1> QED BY <1>1, <1>2, WaitWake, DispatchWake, CloseStepsWake, AcceptWake, QuietHandlerWake,
           BytesWake, RegisterWake, PeerWake
        DEF Next, Server, Dispatch, HandleAccept, HandleRead, HandleWrite

LEMMA WakeInvWaits == IInv /\ WakeInv => NoLostWakeup
<1> SUFFICES ASSUME IInv, WakeInv, pc = "wait", NEW f \in FDs, owner[f] /= None
             PROVE  /\ interest[f] = IF state[f] = "STATE_READ" THEN {"IN"} ELSE {"OUT"}
                    /\ CanGoOn(f) => f \in ready /\ Revents(f) /= {}
  BY DEF NoLostWakeup
<1>1. Settled(f)
  BY DEF WakeInv, Attended, Queued, Handled
<1>2. /\ wr[owner[f]] \in Nat /\ got[owner[f]] \in Nat /\ SndCap \in Nat /\ f /= Listen
  BY BoundAssumption, ClientAssumption DEF IInv, TypeOK, KernelTypeOK
<1>3. CanGoOn(f) => Revents(f) /= {}
  BY <1>1, <1>2 DEF Settled, Watched, CanGoOn, Revents, PollFor, Space
<1> QED BY <1>1, <1>3 DEF Settled, Watched

\* The edge-triggered server loses no wake-up: whenever it goes to wait, every connection
\* is registered for what it needs next, and one that could make progress is on the ready
\* list with something to report.
THEOREM WakeUps == Trigger = "ET" /\ Spec => []NoLostWakeup
<1>1. Spec => []IInv
  BY Invariant
<1> SUFFICES ASSUME Trigger = "ET" PROVE Spec => []NoLostWakeup
  OBVIOUS
<1>2. IInv /\ WakeInv /\ [Next]_vars => WakeInv'
  BY NextWake
<1> QED BY <1>1, <1>2, InitWake, WakeInvWaits, PTL DEF Spec
=============================================================================
