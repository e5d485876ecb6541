--------------------------- MODULE ConnHold_proofs ---------------------------
(***************************************************************************)
(* The two counters of ConnHold, for any number of connections,            *)
(* descriptors and threads: est in the ramper, g_estab in the server.      *)
(***************************************************************************)
EXTENDS ConnHold, FiniteSetTheorems, TLAPS

Counted == {f \in Open : fdstate[f] = 1}    \* the connections est counts
Kept == UNION {held[t] : t \in Threads}     \* the connections g_estab counts
At(s) == {t \in Threads : tpc[t] = s}

\* The sets that are counted are finite.
LEMMA CountsAreFinite ==
  ASSUME TypeOK
  PROVE  /\ IsFiniteSet(Open) /\ Cardinality(Open) \in Nat
         /\ IsFiniteSet(Counted) /\ Cardinality(Counted) \in Nat
         /\ IsFiniteSet(Kept) /\ Cardinality(Kept) \in Nat
         /\ \A s : IsFiniteSet(At(s)) /\ Cardinality(At(s)) \in Nat
<1>1. Open \subseteq FDs /\ Counted \subseteq FDs BY DEF Open, Counted
<1>2. Kept \subseteq Conns BY DEF Kept, TypeOK
<1>3. \A s : At(s) \subseteq Threads BY DEF At
<1> QED BY <1>1, <1>2, <1>3, HoldAssumption, FS_Subset, FS_CardinalityType

LEMMA InitIInv == Init => IInv
<1> SUFFICES ASSUME Init PROVE IInv OBVIOUS
<1> USE DEF Init
<1>1. TypeOK BY HoldAssumption DEF TypeOK
<1>2. ServerInv /\ CountedInv /\ BatchInv BY DEF ServerInv, CountedInv, BatchInv
<1>3. Open = {} BY DEF Open
<1>4. Kept = {} /\ At("count") = {} /\ At("uncount") = {} BY DEF Kept, At
<1>5. HoldInv /\ EstIsCounted
  <2>1. {f \in Open : fdstate[f] = 1} = {} BY <1>3
  <2> QED BY <1>3, <2>1, FS_EmptySet DEF HoldInv, EstIsCounted
<1>6. EstabIsHeld BY <1>4, FS_EmptySet DEF EstabIsHeld, Kept, At
<1> QED BY <1>1, <1>2, <1>5, <1>6 DEF IInv

------------------------------------------------------------------------------
\* What a step of the ramper leaves alone keeps the server's side true.
LEMMA ServerSide ==
  ASSUME IInv, UNCHANGED <<finS, queue, serverVars>>,
         \A c \in Conns : link[c] = "up" => link'[c] = "up"
  PROVE  ServerInv' /\ EstabIsHeld'
<1> USE DEF IInv, TypeOK, serverVars
<1>1. ServerInv' BY DEF ServerInv
<1>2. EstabIsHeld' BY DEF EstabIsHeld
<1> QED BY <1>1, <1>2

\* A step of the server or of the network keeps the ramper's side true: it ends
\* connections and finishes handshakes, and touches nothing else of it.
LEMMA RamperSide ==
  ASSUME IInv, UNCHANGED ramperVars, finS \subseteq finS',
         \A c \in Conns : \/ link'[c] = link[c]
                          \/ link[c] = "syn" /\ link'[c] \in {"up", "refused"}
                          \/ link'[c] = "reset"
  PROVE  CountedInv' /\ BatchInv' /\ HoldInv' /\ EstIsCounted'
<1> USE DEF IInv, TypeOK, ramperVars
<1>1. NoReset' => NoReset BY DEF NoReset
<1>2. Open' = Open BY DEF Open
<1>3. \A f \in Open : fdconn[f] \in Conns BY DEF Open
<1>4. CountedInv' BY <1>1, <1>2, <1>3 DEF CountedInv, NoReset
<1>5. BatchInv' BY <1>1, <1>2, <1>3 DEF BatchInv, SoError, NoReset
<1>6. HoldInv' BY <1>1, <1>2 DEF HoldInv
<1>7. EstIsCounted' BY <1>1, <1>2 DEF EstIsCounted
<1> QED BY <1>4, <1>5, <1>6, <1>7

------------------------------------------------------------------------------
\* Steps of the ramper that neither open nor close a connection.
LEMMA ControlStep ==
  ASSUME IInv, \/ SetBudget \/ OpenNoSocket \/ OpenError \/ HoldTurn \/ Interrupt
  PROVE  IInv'
<1> USE HoldAssumption DEF IInv, TypeOK
<1>0. /\ UNCHANGED <<netVars, batch, fdconn, fdstate, watch, opened, established, dropped,
                     serverVars>>
      /\ budget' \in 0..MaxBudget /\ rpc /= "done"
      /\ rpc' \in {"top", "open", "hold", "done"}
      /\ rpc' = "hold" => rpc = "held"
  BY DEF SetBudget, OpenNoSocket, OpenError, HoldTurn, Interrupt, netVars
<1> USE <1>0 DEF netVars, serverVars
<1>1. TypeOK' OBVIOUS
<1>2. ServerInv' /\ EstabIsHeld' BY ServerSide
<1>3. NoReset' = NoReset /\ Open' = Open BY DEF NoReset, Open
<1>4. CountedInv' BY <1>3 DEF CountedInv
<1>5. BatchInv' BY DEF BatchInv
<1>6. HoldInv' BY <1>3 DEF HoldInv
<1>7. EstIsCounted' BY <1>3 DEF EstIsCounted
<1> QED BY <1>1, <1>2, <1>4, <1>5, <1>6, <1>7

\* epoll_wait: the batch is what is ready now.
LEMMA WaitStep == ASSUME IInv, EpollWait \/ HoldWait PROVE IInv'
<1> USE DEF IInv, TypeOK
<1>0. /\ UNCHANGED <<netVars, budget, fdconn, fdstate, watch, opened, established, dropped,
                     serverVars>>
      /\ batch' = Ready /\ rpc \in {"open", "hold"}
      /\ rpc' \in {"events", "held"} /\ (rpc' = "held" => rpc = "hold")
  BY DEF EpollWait, HoldWait
<1> USE <1>0 DEF netVars, serverVars
<1>1. Ready \subseteq Open /\ Open \subseteq FDs BY DEF Ready, Open
<1>2. TypeOK' BY <1>1
<1>3. ServerInv' /\ EstabIsHeld' BY ServerSide
<1>4. NoReset' = NoReset /\ Open' = Open BY DEF NoReset, Open
<1>5. CountedInv' BY <1>4 DEF CountedInv
<1>6. BatchInv'
  <2>1. \A f \in Ready : /\ f \in Open
                         /\ link[fdconn[f]] \in {"up", "refused", "reset"}
    BY DEF Ready, Open, SoError, ServerInv
  <2>2. \A f \in Ready : NoReset /\ fdstate[f] = 1 => fdconn[f] \in finS \/ SoError(f)
    BY <1>1 DEF Ready, CountedInv
  <2> QED BY <1>4, <2>1, <2>2 DEF BatchInv, SoError
<1>7. HoldInv' BY <1>4 DEF HoldInv
<1>8. EstIsCounted' BY <1>4 DEF EstIsCounted
<1> QED BY <1>2, <1>3, <1>5, <1>6, <1>7, <1>8

\* The end of a batch.  If the ramper starts to hold and has not opened more than
\* the target, then what it counted is all it has open.
LEMMA EventsDoneStep == ASSUME IInv, EventsDone PROVE IInv'
<1> USE HoldAssumption DEF IInv, TypeOK, EventsDone, netVars, serverVars
<1>1. TypeOK' OBVIOUS
<1>2. ServerInv' /\ EstabIsHeld' BY ServerSide
<1>3. NoReset' = NoReset /\ Open' = Open BY DEF NoReset, Open
<1>4. CountedInv' BY <1>3 DEF CountedInv
<1>5. BatchInv' BY DEF BatchInv
<1>6. HoldInv'
  <2>1. ASSUME rpc' = "hold", NoReset, opened <= target
        PROVE  \A f \in Open : fdstate[f] = 1
    <3>1. established >= target /\ established = Cardinality(Counted)
      BY <2>1 DEF EstIsCounted, Counted
    <3>2. Cardinality(Open) <= opened BY DEF HoldInv
    <3>3. Counted \subseteq Open BY DEF Counted
    <3>4. Cardinality(Counted) = Cardinality(Open)
      BY <2>1, <3>1, <3>2, <3>3, CountsAreFinite, FS_Subset
    <3>5. Counted = Open BY <3>3, <3>4, CountsAreFinite, FS_Subset
    <3> QED BY <3>5 DEF Counted
  <2> QED BY <1>3, <2>1 DEF HoldInv
<1>7. EstIsCounted' BY <1>3 DEF EstIsCounted
<1> QED BY <1>1, <1>2, <1>4, <1>5, <1>6, <1>7

\* The next connection goes to a free descriptor, whose fdstate is 0.
LEMMA OpenStep == ASSUME IInv, OpenConnection PROVE IInv'
<1> USE HoldAssumption DEF IInv, TypeOK, OpenConnection
<1>1. PICK f \in FDs \ Open : /\ fdconn' = [fdconn EXCEPT ![f] = NextConn]
                              /\ watch' = [watch EXCEPT ![f] = TRUE]
  OBVIOUS
<1>2. NextConn \in Conns /\ link[NextConn] = "new" BY DEF NextConn, Fresh
<1>3. NextConn /= None BY <1>2
<1>4. Open' = Open \cup {f} BY <1>1, <1>2, <1>3 DEF Open
<1>5. \A g \in Open : fdconn'[g] = fdconn[g] /\ watch'[g] = watch[g] BY <1>1 DEF Open
<1>6. TypeOK' BY <1>1, <1>2 DEF serverVars
<1>7. ServerInv' /\ EstabIsHeld' BY <1>2, ServerSide
<1>8. NoReset' = NoReset BY <1>2 DEF NoReset
<1>9. \A g \in Open : fdconn[g] \in Conns BY DEF Open
<1>10. CountedInv' BY <1>2, <1>4, <1>5, <1>8, <1>9 DEF CountedInv
<1>11. BatchInv' BY DEF BatchInv
<1>12. HoldInv'
  <2>1. Cardinality(Open') = Cardinality(Open) + 1
    BY <1>4, CountsAreFinite, FS_AddElement
  <2> QED BY <2>1, CountsAreFinite DEF HoldInv
<1>13. EstIsCounted'
  <2>1. SUFFICES ASSUME NoReset, opened <= target
                 PROVE  established = Cardinality(Counted')
    BY <1>8 DEF EstIsCounted, Counted
  <2>2. fdstate[f] /= 1 BY <1>1, <2>1 DEF CountedInv
  <2>3. Counted' = Counted BY <1>4, <2>2 DEF Counted
  <2> QED BY <2>1, <2>3 DEF EstIsCounted, Counted
<1> QED BY <1>6, <1>7, <1>10, <1>11, <1>12, <1>13

\* A connection is closed, and taken off if and only if it was counted.
LEMMA CloseStep ==
  ASSUME IInv, NEW f \in batch, rpc \in {"events", "held"}, CloseFd(f), batch' = batch \ {f},
         UNCHANGED <<link, finS, queue, rpc, budget, watch, opened, serverVars>>,
         established' \in Int, dropped' \in Nat,
         fdstate' = fdstate \/ fdstate' = [fdstate EXCEPT ![f] = 0],
         NoReset => fdstate'[f] = 0,
         NoReset /\ opened <= target =>
           \/ fdstate[f] = 0 /\ established' = established
           \/ fdstate[f] = 1 /\ established' = established - 1
  PROVE  IInv'
<1> USE HoldAssumption DEF IInv, TypeOK, CloseFd
<1>1. f \in Open /\ f \in FDs /\ fdconn[f] \in Conns BY DEF BatchInv, Open
<1>2. Open' = Open \ {f} BY <1>1 DEF Open
<1>3. \A g \in FDs : g /= f => fdconn'[g] = fdconn[g] /\ fdstate'[g] = fdstate[g]
  BY <1>1
<1>4. TypeOK' BY <1>1 DEF serverVars
<1>5. ServerInv' /\ EstabIsHeld' BY ServerSide
<1>6. NoReset' = NoReset BY DEF NoReset
<1>7. CountedInv' BY <1>2, <1>3, <1>6 DEF CountedInv
<1>8. BatchInv' BY <1>2, <1>3, <1>6 DEF BatchInv, SoError
<1>9. HoldInv'
  <2>1. Cardinality(Open') = Cardinality(Open) - 1
    BY <1>1, <1>2, CountsAreFinite, FS_RemoveElement
  <2>2. Cardinality(Open') <= opened BY <2>1, CountsAreFinite DEF HoldInv
  <2> QED BY <1>2, <1>3, <1>6, <2>2 DEF HoldInv, Open
<1>10. EstIsCounted'
  <2>1. SUFFICES ASSUME NoReset, opened <= target
                 PROVE  established' = Cardinality(Counted')
    BY <1>6 DEF EstIsCounted, Counted
  <2>2. established = Cardinality(Counted) BY <2>1 DEF EstIsCounted, Counted
  <2>3. Counted' = Counted \ {f} BY <1>2, <1>3, <2>1 DEF Counted, Open
  <2>4. f \in Counted <=> fdstate[f] = 1 BY <1>1 DEF Counted
  <2>5. Cardinality(Counted') =
          IF fdstate[f] = 1 THEN Cardinality(Counted) - 1 ELSE Cardinality(Counted)
    BY <2>3, <2>4, CountsAreFinite, FS_RemoveElement
  <2> QED BY <2>1, <2>2, <2>5
<1> QED BY <1>4, <1>5, <1>7, <1>8, <1>9, <1>10

\* One element of evs[], in the main loop or in the hold loop.
LEMMA EventStep == ASSUME IInv, Event PROVE IInv'
<1> USE DEF IInv, TypeOK
<1>0. PICK f \in batch : EventError(f) \/ EventUp(f) \/ EventDown(f) \/ HoldEvent(f)
  BY DEF Event
<1>a. f \in FDs OBVIOUS
<1>1. CASE EventError(f)
  <2>1. NoReset => fdstate[f] = 0 BY <1>a, <1>1 DEF EventError, CountedInv, SoError
  <2> QED BY <1>1, <2>1, CloseStep DEF EventError
<1>2. CASE EventUp(f)
  <2> USE <1>2 DEF EventUp, netVars
  <2>1. f \in Open /\ link[fdconn[f]] = "up" /\ fdconn[f] \in Conns
    BY DEF BatchInv, SoError, Open
  <2>2. Open' = Open /\ NoReset' = NoReset BY DEF Open, NoReset
  <2>3. TypeOK' BY DEF serverVars
  <2>4. ServerInv' /\ EstabIsHeld' BY ServerSide
  <2>5. CountedInv' BY <2>1, <2>2 DEF CountedInv
  <2>6. BatchInv' BY <2>2 DEF BatchInv, SoError
  <2>7. HoldInv' BY <2>2 DEF HoldInv
  <2>8. EstIsCounted'
    <3>1. Counted' = Counted \cup {f} /\ f \notin Counted
      BY <1>a, <2>1, <2>2 DEF Counted
    <3>2. Cardinality(Counted') = Cardinality(Counted) + 1
      BY <3>1, CountsAreFinite, FS_AddElement
    <3> QED BY <2>2, <3>2 DEF EstIsCounted, Counted
  <2> QED BY <2>3, <2>4, <2>5, <2>6, <2>7, <2>8
<1>3. CASE EventDown(f)
  <2>1. /\ established' \in Int /\ dropped' \in Nat /\ fdstate'[f] = 0
        /\ fdstate[f] = 1 /\ established' = established - 1
    BY <1>a, <1>3 DEF EventDown
  <2> QED BY <1>3, <2>1, CloseStep DEF EventDown
<1>4. CASE HoldEvent(f)
  <2>1. NoReset /\ opened <= target => fdstate[f] = 1
    BY <1>4 DEF HoldEvent, HoldInv, BatchInv
  <2>2. /\ established' \in Int /\ dropped' \in Nat /\ fdstate'[f] = 0
        /\ established' = established - 1
    BY <1>a, <1>4 DEF HoldEvent
  <2> QED BY <1>4, <2>1, <2>2, CloseStep DEF HoldEvent
<1> QED BY <1>0, <1>1, <1>2, <1>3, <1>4

LEMMA ExitStep == ASSUME IInv, Exit PROVE IInv'
<1> USE DEF IInv, TypeOK, Exit
<1>1. Open' = {} BY DEF Open
<1>2. TypeOK' BY DEF Open, serverVars
<1>3. ServerInv' /\ EstabIsHeld' BY ServerSide
<1>4. CountedInv' /\ BatchInv' /\ EstIsCounted' BY DEF CountedInv, BatchInv, EstIsCounted
<1>5. HoldInv' BY <1>1, FS_EmptySet DEF HoldInv
<1> QED BY <1>2, <1>3, <1>4, <1>5

------------------------------------------------------------------------------
\* The two sides of EstabIsHeld, and what a step does to their difference.
Owed == estab + Cardinality(At("count")) - Cardinality(At("uncount")) - Cardinality(Kept)

LEMMA Balance ==
  ASSUME IInv, TypeOK',
         (\A t \in Threads : tpc'[t] /= "exited") => (\A t \in Threads : tpc[t] /= "exited"),
         Owed' = Owed
  PROVE  EstabIsHeld'
<1>1. SUFFICES ASSUME \A t \in Threads : tpc[t] /= "exited"
               PROVE  estab' + Cardinality(At("count")')
                        = Cardinality(Kept') + Cardinality(At("uncount")')
  BY DEF EstabIsHeld, At, Kept
<1>2. estab + Cardinality(At("count")) = Cardinality(Kept) + Cardinality(At("uncount"))
  BY <1>1 DEF IInv, EstabIsHeld, At, Kept
<1>3. estab \in Int /\ estab' \in Int BY DEF IInv, TypeOK
<1>4. /\ Cardinality(Kept) \in Nat /\ Cardinality(At("count")) \in Nat
      /\ Cardinality(At("uncount")) \in Nat
  BY CountsAreFinite DEF IInv
<1>5. /\ Cardinality(Kept') \in Nat /\ Cardinality(At("count")') \in Nat
      /\ Cardinality(At("uncount")') \in Nat
  <2>1. Kept' \subseteq Conns BY DEF Kept, TypeOK
  <2>2. \A s : At(s)' \subseteq Threads BY DEF At
  <2> QED BY <2>1, <2>2, HoldAssumption, FS_Subset, FS_CardinalityType
<1> QED BY <1>2, <1>3, <1>4, <1>5 DEF Owed

\* accept: the connection is held, and the thread owes the count.
LEMMA AcceptStep ==
  ASSUME IInv, NEW t \in Threads, NEW c \in Conns, Accept(t, c)
  PROVE  IInv'
<1> USE DEF IInv, TypeOK, Accept
<1>1. TypeOK' BY DEF ramperVars
<1>2. ServerInv' BY DEF ServerInv
<1>3. CountedInv' /\ BatchInv' /\ HoldInv' /\ EstIsCounted' BY RamperSide
<1>4. EstabIsHeld'
  <2>1. Kept' = Kept \cup {c} BY DEF Kept
  <2>2. c \notin Kept BY DEF Kept, ServerInv
  <2>3. At("count")' = At("count") \cup {t} /\ t \notin At("count") BY DEF At
  <2>4. At("uncount")' = At("uncount") BY DEF At
  <2>5. (\A u \in Threads : tpc'[u] /= "exited") => \A u \in Threads : tpc[u] /= "exited"
    OBVIOUS
  <2>6. estab' = estab OBVIOUS
  <2>7. /\ IsFiniteSet(Kept) /\ IsFiniteSet(At("count")) /\ IsFiniteSet(At("uncount"))
        /\ Cardinality(Kept) \in Nat /\ Cardinality(At("count")) \in Nat
        /\ Cardinality(At("uncount")) \in Nat /\ estab \in Int
    BY CountsAreFinite
  <2> HIDE DEF IInv, TypeOK, Accept
  <2>8. Cardinality(Kept') = Cardinality(Kept) + 1 BY <2>1, <2>2, <2>7, FS_AddElement
  <2>9. Cardinality(At("count")') = Cardinality(At("count")) + 1
    BY <2>3, <2>7, FS_AddElement
  <2>10. Owed' = Owed BY <2>4, <2>6, <2>7, <2>8, <2>9 DEF Owed
  <2> QED BY <1>1, <2>5, <2>10, Balance
<1> QED BY <1>1, <1>2, <1>3, <1>4

\* epoll_ctl fails: the connection is closed again and never counted.
LEMMA AddFailsStep ==
  ASSUME IInv, NEW t \in Threads, NEW c \in Conns, AcceptAddFails(t, c)
  PROVE  IInv'
<1> USE DEF IInv, TypeOK, AcceptAddFails, serverVars
<1>1. TypeOK' BY DEF ramperVars
<1>2. ServerInv' BY DEF ServerInv
<1>3. CountedInv' /\ BatchInv' /\ HoldInv' /\ EstIsCounted' BY RamperSide
<1>4. EstabIsHeld' BY DEF EstabIsHeld
<1> QED BY <1>1, <1>2, <1>3, <1>4

\* The atomic additions and subtractions.
LEMMA CountStep ==
  ASSUME IInv, NEW t \in Threads, CountEstab(t) \/ CountAccepted(t) \/ Uncount(t)
  PROVE  IInv'
<1> USE DEF IInv, TypeOK, CountEstab, CountAccepted, Uncount, netVars
<1>1. TypeOK' BY DEF ramperVars
<1>2. ServerInv' BY DEF ServerInv
<1>3. CountedInv' /\ BatchInv' /\ HoldInv' /\ EstIsCounted' BY RamperSide
<1>4. EstabIsHeld'
  <2>1. Kept' = Kept BY DEF Kept
  <2>2. CountEstab(t) => /\ At("count")' = At("count") \ {t} /\ t \in At("count")
                         /\ At("uncount")' = At("uncount") /\ estab' = estab + 1
    BY DEF At
  <2>3. CountAccepted(t) => /\ At("count")' = At("count") /\ estab' = estab
                            /\ At("uncount")' = At("uncount")
    BY DEF At
  <2>4. Uncount(t) => /\ At("uncount")' = At("uncount") \ {t} /\ t \in At("uncount")
                      /\ At("count")' = At("count") /\ estab' = estab - 1
    BY DEF At
  <2>5. (\A u \in Threads : tpc'[u] /= "exited") => \A u \in Threads : tpc[u] /= "exited"
    OBVIOUS
  <2>6. /\ IsFiniteSet(Kept) /\ IsFiniteSet(At("count")) /\ IsFiniteSet(At("uncount"))
        /\ Cardinality(Kept) \in Nat /\ Cardinality(At("count")) \in Nat
        /\ Cardinality(At("uncount")) \in Nat /\ estab \in Int
    BY CountsAreFinite
  <2> HIDE DEF IInv, TypeOK, CountEstab, CountAccepted, Uncount
  <2>7. CASE CountEstab(t)
    <3>1. Cardinality(At("count")') = Cardinality(At("count")) - 1
      BY <2>2, <2>6, <2>7, FS_RemoveElement
    <3>2. Owed' = Owed BY <2>1, <2>2, <2>6, <2>7, <3>1 DEF Owed
    <3> QED BY <1>1, <2>5, <3>2, Balance
  <2>8. CASE CountAccepted(t)
    <3>1. Owed' = Owed BY <2>1, <2>3, <2>6, <2>8 DEF Owed
    <3> QED BY <1>1, <2>5, <3>1, Balance
  <2>9. CASE Uncount(t)
    <3>1. Cardinality(At("uncount")') = Cardinality(At("uncount")) - 1
      BY <2>4, <2>6, <2>9, FS_RemoveElement
    <3>2. Owed' = Owed BY <2>1, <2>4, <2>6, <2>9, <3>1 DEF Owed
    <3> QED BY <1>1, <2>5, <3>2, Balance
  <2> QED BY <2>7, <2>8, <2>9
<1> QED BY <1>1, <1>2, <1>3, <1>4

\* The server closes a connection it holds and owes the subtraction.
LEMMA CloseHeldStep ==
  ASSUME IInv, NEW t \in Threads, NEW c \in Conns, CloseHeld(t, c)
  PROVE  IInv'
<1> USE DEF IInv, TypeOK, CloseHeld
<1>1. TypeOK' BY DEF ramperVars
<1>2. ServerInv' BY DEF ServerInv
<1>3. CountedInv' /\ BatchInv' /\ HoldInv' /\ EstIsCounted' BY RamperSide
<1>4. EstabIsHeld'
  <2>1. \A u \in Threads : u /= t => c \notin held[u] BY DEF ServerInv
  <2>2. Kept' = Kept \ {c} /\ c \in Kept BY <2>1 DEF Kept
  <2>3. At("uncount")' = At("uncount") \cup {t} /\ t \notin At("uncount") BY DEF At
  <2>4. At("count")' = At("count") BY DEF At
  <2>5. (\A u \in Threads : tpc'[u] /= "exited") => \A u \in Threads : tpc[u] /= "exited"
    OBVIOUS
  <2>6. estab' = estab OBVIOUS
  <2>7. /\ IsFiniteSet(Kept) /\ IsFiniteSet(At("count")) /\ IsFiniteSet(At("uncount"))
        /\ Cardinality(Kept) \in Nat /\ Cardinality(At("count")) \in Nat
        /\ Cardinality(At("uncount")) \in Nat /\ estab \in Int
    BY CountsAreFinite
  <2> HIDE DEF IInv, TypeOK, CloseHeld
  <2>8. Cardinality(Kept') = Cardinality(Kept) - 1 BY <2>2, <2>7, FS_RemoveElement
  <2>9. Cardinality(At("uncount")') = Cardinality(At("uncount")) + 1
    BY <2>3, <2>7, FS_AddElement
  <2>10. Owed' = Owed BY <2>4, <2>6, <2>7, <2>8, <2>9 DEF Owed
  <2> QED BY <1>1, <2>5, <2>10, Balance
<1> QED BY <1>1, <1>2, <1>3, <1>4

\* The server is told to stop, a thread leaves its loop, the process exits.
LEMMA StopStep ==
  ASSUME IInv, Terminate \/ ServerExits \/ \E t \in Threads : ThreadStops(t)
  PROVE  IInv'
<1> USE DEF IInv, TypeOK
<1>1. CASE Terminate
  <2> USE <1>1 DEF Terminate, netVars
  <2>1. TypeOK' BY DEF ramperVars
  <2>2. ServerInv' BY DEF ServerInv
  <2>3. EstabIsHeld' BY DEF EstabIsHeld
  <2> QED BY <2>1, <2>2, <2>3, RamperSide
<1>2. CASE ServerExits
  <2> USE <1>2 DEF ServerExits, ResetQueues
  <2>1. TypeOK' BY DEF ramperVars
  <2>2. ServerInv' BY DEF ServerInv
  <2>3. EstabIsHeld' BY DEF EstabIsHeld
  <2> QED BY <2>1, <2>2, <2>3, RamperSide
<1>3. ASSUME NEW t \in Threads, ThreadStops(t) PROVE IInv'
  <2> USE <1>3 DEF ThreadStops, ResetQueues
  <2>1. TypeOK' BY DEF ramperVars
  <2>2. ServerInv' BY DEF ServerInv
  <2>3. Kept' = Kept /\ At("count")' = At("count") /\ At("uncount")' = At("uncount")
    BY DEF Kept, At
  <2>4. EstabIsHeld' BY <2>3 DEF EstabIsHeld, Kept, At
  <2> QED BY <2>1, <2>2, <2>4, RamperSide
<1> QED BY <1>1, <1>2, <1>3

\* The network answers a connect.
LEMMA NetworkStep == ASSUME IInv, Network PROVE IInv'
<1> USE DEF IInv, TypeOK, serverVars
<1>1. PICK c \in Conns : Handshake(c) \/ Refused(c) BY DEF Network
<1>2. /\ link[c] = "syn" /\ UNCHANGED <<finC, finS, ramperVars, serverVars>>
      /\ \E s \in {"up", "refused"} : link' = [link EXCEPT ![c] = s]
  BY <1>1 DEF Handshake, Refused
<1>3. CASE Handshake(c)
  <2>1. PICK t \in Threads : queue' = [queue EXCEPT ![t] = @ \cup {c}]
    BY <1>3 DEF Handshake
  <2>2. TypeOK' BY <1>2, <2>1 DEF ramperVars
  <2>3. ServerInv' BY <1>2, <1>3, <2>1 DEF ServerInv, Handshake
  <2>4. EstabIsHeld' BY <1>2 DEF EstabIsHeld
  <2> QED BY <1>2, <2>2, <2>3, <2>4, RamperSide
<1>4. CASE Refused(c)
  <2>1. TypeOK' BY <1>4 DEF Refused, ramperVars
  <2>2. ServerInv' /\ EstabIsHeld' BY <1>4 DEF Refused, ServerInv, EstabIsHeld
  <2> QED BY <1>2, <2>1, <2>2, RamperSide
<1> QED BY <1>1, <1>3, <1>4

LEMMA Stutter == ASSUME IInv, UNCHANGED vars PROVE IInv'
<1> USE DEF vars, netVars, serverVars, IInv, TypeOK
<1>1. TypeOK' BY DEF ramperVars
<1>2. ServerInv' /\ EstabIsHeld' BY ServerSide
<1> QED BY <1>1, <1>2, RamperSide

LEMMA NextIInv == IInv /\ [Next]_vars => IInv'
<1> SUFFICES ASSUME IInv, [Next]_vars PROVE IInv' OBVIOUS
<1>1. CASE Ramper \/ Interrupt
  BY <1>1, ControlStep, WaitStep, EventsDoneStep, OpenStep, EventStep, ExitStep DEF Ramper
<1>2. CASE \E t \in Threads : Thread(t)
  BY <1>2, AcceptStep, AddFailsStep, CountStep, CloseHeldStep, StopStep DEF Thread
<1> QED BY <1>1, <1>2, StopStep, NetworkStep, Stutter DEF Next

LEMMA Invariant == Spec => []IInv
  BY InitIInv, NextIInv, PTL DEF Spec

------------------------------------------------------------------------------
\* est is the number of connections the ramper has open and counted, through every
\* reuse of a descriptor and every failing call, as long as no connection is reset
\* and no more are opened than wanted.
THEOREM RamperCounts == Spec => []EstIsCounted
<1>1. IInv => EstIsCounted BY DEF IInv
<1> QED BY <1>1, Invariant, PTL

\* g_estab is the number of connections the server holds, up to the additions its
\* threads are about to make.
THEOREM ServerCounts == Spec => []EstabIsHeld
<1>1. IInv => EstabIsHeld BY DEF IInv
<1> QED BY <1>1, Invariant, PTL

\* The main loop of the ramper never closes a connection that stands, although it
\* decides by fdstate, which is about the descriptor and not the connection.
THEOREM ClosesWhatEnded == Spec => ClosesOnlyEnded
<1> DEFINE Kind == \A f \in FDs :
             NoReset /\ rpc = "events" /\ fdconn[f] /= None /\ fdconn'[f] = None
               => fdconn[f] \in finS \/ SoError(f)
<1>1. ASSUME IInv, [Next]_vars PROVE Kind
  <2> SUFFICES ASSUME NEW f \in FDs, NoReset, rpc = "events",
                      fdconn[f] /= None, fdconn'[f] = None
               PROVE  fdconn[f] \in finS \/ SoError(f)
    OBVIOUS
  <2>1. fdconn' /= fdconn OBVIOUS
  <2>2. Event
    <3>1. ~ UNCHANGED vars BY <2>1 DEF vars, ramperVars
    <3>2. ~ (Interrupt \/ Network \/ Terminate \/ ServerExits)
      BY <2>1 DEF Interrupt, Network, Handshake, Refused, Terminate, ServerExits, ramperVars
    <3>3. ASSUME NEW t \in Threads PROVE ~ Thread(t)
      BY <2>1 DEF Thread, Accept, AcceptAddFails, CountEstab, CountAccepted, CloseHeld,
                  Uncount, ThreadStops, ramperVars
    <3>4. Ramper BY <1>1, <3>1, <3>2, <3>3 DEF Next
    <3> QED
      BY <2>1, <3>4 DEF Ramper, SetBudget, OpenNoSocket, OpenError, OpenConnection, EpollWait,
                        EventsDone, HoldWait, HoldTurn, Exit
  <2>3. PICK g \in batch : EventError(g) \/ EventDown(g)
    BY <2>1, <2>2 DEF Event, EventUp, HoldEvent
  <2>4. g = f
    BY <1>1, <2>3 DEF EventError, EventDown, CloseFd, IInv, TypeOK
  <2>5. CASE EventError(g) BY <2>4, <2>5 DEF EventError
  <2>6. CASE EventDown(g)
    <3>1. fdstate[f] = 1 /\ f \in batch BY <2>4, <2>6 DEF EventDown
    <3> QED BY <1>1, <3>1 DEF IInv, BatchInv
  <2> QED BY <2>3, <2>5, <2>6
<1>2. Kind => [Kind]_vars OBVIOUS
<1> QED BY <1>1, Invariant, PTL DEF Spec, ClosesOnlyEnded
=============================================================================
