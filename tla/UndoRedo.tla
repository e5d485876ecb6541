------------------------------ MODULE UndoRedo ------------------------------
(***************************************************************************)
(* Undo and redo of vim-cpp/vc-08: reversible commands, a stack of those   *)
(* that were executed and a stack of those that were undone, with runs of  *)
(* typing merged into one command.                                         *)
(***************************************************************************)
EXTENDS Naturals, Sequences

CONSTANTS Words,      \* what is typed: sequences of characters
          MaxEdits    \* bound: how many new edits are made

VARIABLES
  content, caret,     \* Buffer: text and cursor
  undoStack, redoStack,
  thrown,             \* std::out_of_range left redo: the program is over
  edits,              \* how many edits were made
  latest,             \* history: the text after the newest edit
  forked              \* history: an edit was merged while redoStack was not empty

vars == <<content, caret, undoStack, redoStack, thrown, edits, latest, forked>>

Init ==
  /\ content = <<>> /\ caret = 0
  /\ undoStack = <<>> /\ redoStack = <<>>
  /\ thrown = FALSE /\ edits = 0 /\ latest = <<>> /\ forked = FALSE

(* back() and pop_back() of a stack. *)
Last(s) == s[Len(s)]
Front(s) == SubSeq(s, 1, Len(s) - 1)

InsertCmd(pos, s) == [kind |-> "insert", pos |-> pos, data |-> s]
\* substr clamps the length to what there is.
DeleteCmd(pos, len, t) ==
  [kind |-> "delete", pos |-> pos,
   data |-> SubSeq(t, pos + 1, IF pos + len < Len(t) THEN pos + len ELSE Len(t))]

inserted(t, pos, s) == SubSeq(t, 1, pos) \o s \o SubSeq(t, pos + 1, Len(t))
erased(t, pos, len) == SubSeq(t, 1, pos) \o SubSeq(t, pos + len + 1, Len(t))

\* string::insert and string::erase throw when the position is behind the end.
Fits(cmd, t) == cmd.pos <= Len(t)

executed(cmd, t) ==
  IF cmd.kind = "insert" THEN inserted(t, cmd.pos, cmd.data)
                         ELSE erased(t, cmd.pos, Len(cmd.data))
unexecuted(cmd, t) ==
  IF cmd.kind = "insert" THEN erased(t, cmd.pos, Len(cmd.data))
                         ELSE inserted(t, cmd.pos, cmd.data)
CaretAfter(cmd, t) ==
  IF cmd.kind = "insert" THEN cmd.pos + Len(cmd.data) ELSE cmd.pos

\* Mutant: any insertion is merged into the one before.
Merges_Anywhere(top, cmd) == top.kind = "insert" /\ cmd.kind = "insert"

\* The command on top takes an insertion that begins where it ends.
Merges(top, cmd) ==
  /\ top.kind = "insert" /\ cmd.kind = "insert"
  /\ cmd.pos = top.pos + Len(top.data)

push(cmd) ==
  IF undoStack /= <<>> /\ Merges(Last(undoStack), cmd)
  THEN /\ undoStack' = Append(Front(undoStack),
                              [Last(undoStack) EXCEPT !.data = @ \o cmd.data])
       /\ forked' = (forked \/ redoStack /= <<>>)
       /\ UNCHANGED redoStack
  ELSE /\ undoStack' = Append(undoStack, cmd)
       /\ redoStack' = <<>>
       /\ UNCHANGED forked

apply(cmd) ==
  /\ ~thrown /\ edits < MaxEdits
  /\ edits' = edits + 1
  /\ content' = executed(cmd, content)
  /\ caret' = CaretAfter(cmd, content)
  /\ latest' = content'
  /\ push(cmd)
  /\ UNCHANGED thrown

undo ==
  /\ ~thrown /\ undoStack /= <<>>
  /\ content' = unexecuted(Last(undoStack), content)
  /\ caret' = Last(undoStack).pos
  /\ undoStack' = Front(undoStack)
  /\ redoStack' = Append(redoStack, Last(undoStack))
  /\ UNCHANGED <<thrown, edits, latest, forked>>

redo ==
  /\ ~thrown /\ redoStack /= <<>> /\ Fits(Last(redoStack), content)
  /\ content' = executed(Last(redoStack), content)
  /\ caret' = CaretAfter(Last(redoStack), content)
  /\ undoStack' = Append(undoStack, Last(redoStack))
  /\ redoStack' = Front(redoStack)
  /\ UNCHANGED <<thrown, edits, latest, forked>>

redo_Throws ==
  /\ ~thrown /\ redoStack /= <<>> /\ ~Fits(Last(redoStack), content)
  /\ thrown' = TRUE
  /\ UNCHANGED <<content, caret, undoStack, redoStack, edits, latest, forked>>

Next ==
  \/ \E pos \in 0..Len(content), s \in Words : apply(InsertCmd(pos, s))
  \/ \E pos \in 0..Len(content), len \in 1..2 : apply(DeleteCmd(pos, len, content))
  \/ undo \/ redo \/ redo_Throws

Spec == Init /\ [][Next]_vars

------------------------------------------------------------------------------
\* What t becomes when the commands of a stack are run on it from the top down.
Down(Run(_, _), stack, t) ==
  LET d[k \in 0..Len(stack)] == IF k = Len(stack) THEN t ELSE Run(stack[k + 1], d[k + 1])
  IN  d[0]

\* Undoing everything leads back to the empty text, redoing everything to the
\* newest one, and no redo runs behind the end of the text: after any sequence of
\* edits, undos and redos in which no edit was merged onto a redo branch.
RoundTrip ==
  ~forked =>
    /\ ~thrown
    /\ caret <= Len(content)
    /\ Down(unexecuted, undoStack, content) = <<>>
    /\ Down(executed, redoStack, content) = latest

\* "任何新编辑都截断 redo 分支" (undo_redo.cpp:72): after a new edit nothing can
\* be redone.
NewEditTruncates == [][edits' = edits + 1 => redoStack' = <<>>]_vars
=============================================================================
