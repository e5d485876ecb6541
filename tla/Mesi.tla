-------------------------------- MODULE Mesi --------------------------------
(***************************************************************************)
(* The coherence model of cpu-model-core-mem-lab (experiment 5): two cores *)
(* with a line state per block, and the bus transactions that the changes  *)
(* of state count.  Every turn is one core's read and write of a block.    *)
(***************************************************************************)
EXTENDS Integers

CONSTANTS Blocks, MaxTurns       \* MaxTurns: bound of the turns

Cores == {0, 1}
VARIABLES st,                    \* state of each block in each core
          bus,                   \* counters: busRd, busRdX, wb, invals
          turns,
          todo                   \* the core and block whose write is to follow its read
mesiVars == <<st, bus, turns, todo>>

None == <<>>
MesiInit ==
  /\ st = [c \in Cores |-> [b \in Blocks |-> "I"]]
  /\ bus = [busRd |-> 0, busRdX |-> 0, wb |-> 0, invals |-> 0]
  /\ turns = 0 /\ todo = None

One(condition) == IF condition THEN 1 ELSE 0

rd_(c, b) ==
  LET oth == st[1 - c][b]
  IN  /\ todo = None /\ turns < MaxTurns /\ turns' = turns + 1 /\ todo' = <<c, b>>
      /\ IF st[c][b] /= "I" THEN UNCHANGED <<st, bus>>
         ELSE /\ bus' = [bus EXCEPT !.busRd = @ + 1, !.wb = @ + One(oth = "M")]
              /\ st' = [st EXCEPT ![1 - c][b] = IF @ = "M" THEN "S" ELSE @,
                                  ![c][b] = IF oth = "I" THEN "E" ELSE "S"]

\* Mutant: an upgrade from S leaves the other copy where it is.
wr_NoInvalidate(c, b) ==
  LET oth == st[1 - c][b]
  IN  /\ todo = <<c, b>> /\ todo' = None /\ UNCHANGED turns
      /\ IF st[c][b] \in {"M", "E"} THEN UNCHANGED <<st, bus>>
         ELSE /\ bus' = [bus EXCEPT !.busRdX = @ + 1, !.wb = @ + One(oth = "M")]
              /\ st' = [st EXCEPT ![c][b] = "M"]

wr_(c, b) ==
  LET oth == st[1 - c][b]
  IN  /\ todo = <<c, b>> /\ todo' = None /\ UNCHANGED turns
      /\ IF st[c][b] \in {"M", "E"} THEN UNCHANGED <<st, bus>>     \* written silently
         ELSE /\ bus' = [bus EXCEPT !.busRdX = @ + 1, !.wb = @ + One(oth = "M"),
                                    !.invals = @ + One(oth /= "I")]
              /\ st' = [st EXCEPT ![1 - c][b] = "I", ![c][b] = "M"]

MesiNext == \E c \in Cores, b \in Blocks : rd_(c, b) \/ wr_(c, b)
MesiSpec == MesiInit /\ [][MesiNext]_mesiVars

------------------------------------------------------------------------------
NotAlone(s) == {c \in Cores : \E b \in Blocks : st[c][b] = s /\ st[1 - c][b] /= "I"}

\* A modified line is the only copy, two cores are never exclusive at once, each
\* exclusive request invalidates at most one copy, and a line is written back only
\* to answer a request.
ModifiedIsAlone ==
  /\ NotAlone("M") = {}
  /\ \A b \in Blocks : ~(st[0][b] = "E" /\ st[1][b] = "E")
  /\ bus.invals <= bus.busRdX /\ bus.wb <= bus.busRd

\* E means that no other core has the line: only then can it be written silently
\* (main.cpp:364 "can write silently").
ExclusiveIsAlone == NotAlone("E") = {}
=============================================================================
