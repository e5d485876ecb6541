-------------------------------- MODULE TextBuffers --------------------------------
(***************************************************************************)
(* The text buffers of vim-cpp: the gap buffer, and the editing core on it.*)
(***************************************************************************)
EXTENDS Integers, SequencesExt

------------------------------------------------------------------------------
(***************************************************************************)
(* The two gap buffers of vim-cpp, as operations on a record of what they  *)
(* hold: memory buf (a function from 0), and the gap [lo, hi) in it.  The  *)
(* memory of the gap is never to be read: it holds Junk, and a text that   *)
(* shows it is wrong.                                                      *)
(***************************************************************************)
CONSTANTS Junk,    \* what the memory of the gap holds
          Slack    \* how much vc-03 grows beyond twice its text (64)

Capacity(n) == 0..(n - 1)

\* The buffer of n bytes with the gap [lo, hi), its byte i being At(i) outside it.
Gapped(n, lo, hi, At(_)) ==
  [cap |-> n, lo |-> lo, hi |-> hi,
   buf |-> [i \in Capacity(n) |-> IF i < lo \/ hi <= i THEN At(i) ELSE Junk]]

Size(g) == g.cap - (g.hi - g.lo)

\* Logical position to byte, skipping the gap.
char_at(g, pos) == IF pos < g.lo THEN g.buf[pos] ELSE g.buf[pos + (g.hi - g.lo)]

to_string(g) == [i \in 1..Size(g) |-> char_at(g, i - 1)]

Least(m, n) == IF m < n THEN m ELSE n

\* memmove of the bytes between the old and the new place of the gap.
move_gap(g, pos) ==
  LET lo == Least(pos, Size(g))
      hi == lo + (g.hi - g.lo)
  IN  Gapped(g.cap, lo, hi,
        LAMBDA i : IF lo < g.lo /\ i \in hi..(g.hi - 1) THEN g.buf[i - (hi - lo)]
                   ELSE IF g.lo < lo /\ i \in g.lo..(lo - 1) THEN g.buf[i + (g.hi - g.lo)]
                   ELSE g.buf[i])

\* Mutant: the part behind the gap stays where it was.
Resized_KeepsSuffix(g, n) ==
  Gapped(n, g.lo, n - (g.cap - g.hi), LAMBDA i : IF i < g.cap THEN g.buf[i] ELSE Junk)

\* The text is copied into n bytes, the part behind the gap to their end.
Resized(g, n) ==
  Gapped(n, g.lo, n - (g.cap - g.hi),
         LAMBDA i : IF i < g.lo THEN g.buf[i] ELSE g.buf[i - (n - g.cap)])

grow03(g) == Resized(g, Size(g) * 2 + Slack)
grow05(g) == Resized(g, g.cap * 2)

Put(g, c) ==
  Gapped(g.cap, g.lo + 1, g.hi, LAMBDA i : IF i = g.lo THEN c ELSE g.buf[i])

\* vc-03: insert and erase at the gap.
insert(g, c) == Put(IF g.lo = g.hi THEN grow03(g) ELSE g, c)

erase(g) ==
  IF g.lo > 0 THEN Gapped(g.cap, g.lo - 1, g.hi, LAMBDA i : g.buf[i]) ELSE g

\* vc-05: insert and erase at a position; its gap only moves within the text.
InsertPos(g, pos, c) ==
  LET m == move_gap(g, pos) IN Put(IF m.lo = m.hi THEN grow05(m) ELSE m, c)

ErasePos(g, pos) ==
  LET m == move_gap(g, pos)
  IN  Gapped(m.cap, m.lo, m.hi + 1, LAMBDA i : m.buf[i])

\* for (i = end; i > begin; --i) erase(i - 1)
EraseDown(g, begin, end) ==
  LET after[i \in begin..end] ==
        IF i = end THEN g ELSE ErasePos(after[i + 1], i)
  IN  after[begin]

------------------------------------------------------------------------------
(***************************************************************************)
(* The gap buffer of vim-cpp/vc-03 under the operations its benchmarks and *)
(* its self-test call, in any order.                                       *)
(***************************************************************************)
CONSTANTS Chars,
          InitGap,   \* init_gap (8, 64, 1024 in the code)
          InitTexts, \* the texts a buffer is made with
          GapMaxLen     \* bound: the length of the text

VARIABLE gap

ASSUME GapAssumption ==
  /\ Slack \in Nat \ {0}
  /\ InitGap \in Nat
  /\ InitTexts \subseteq Seq(Chars)

GapInit ==
  \E t \in InitTexts :
    gap = Gapped(Len(t) + InitGap, Len(t), Len(t) + InitGap, LAMBDA i : t[i + 1])

Move(pos) == gap' = move_gap(gap, pos)
Insert(c) == Size(gap) < GapMaxLen /\ gap' = insert(gap, c)
Erase == gap' = erase(gap)

\* A position behind the end is legal: it is taken for the end.
GapNext == Erase \/ (\E pos \in 0..(GapMaxLen + 1) : Move(pos)) \/ \E c \in Chars : Insert(c)

GapSpec == GapInit /\ [][GapNext]_gap

------------------------------------------------------------------------------
TypeOK ==
  /\ gap = [cap |-> gap.cap, lo |-> gap.lo, hi |-> gap.hi, buf |-> gap.buf]
  /\ gap.cap \in Nat /\ gap.lo \in Nat /\ gap.hi \in Nat
  /\ gap.lo <= gap.hi /\ gap.hi <= gap.cap
  /\ gap.buf \in [Capacity(gap.cap) -> Chars \cup {Junk}]
  /\ \A i \in Capacity(gap.cap) : i < gap.lo \/ gap.hi <= i => gap.buf[i] \in Chars

\* The buffer is a text with a point, wherever the gap is, however often it was
\* moved, used up and grown: every operation is one on that text.
GapText == INSTANCE TextSpec WITH Chars <- Chars, text <- to_string(gap), point <- gap.lo,
                                 NL <- Junk
GapImplementsText == GapText!PointSpec

------------------------------------------------------------------------------
(***************************************************************************)
(* The editor of vim-cpp/vc-05: a gap buffer with the whole text, the      *)
(* index of where its lines begin, kept up to date by hand, and a cursor   *)
(* given as a row and a column.  Rows and offsets count from 0.            *)
(***************************************************************************)
CONSTANTS Letters, NL,   \* what insert_char is called with; '\n'
          InitCap,       \* the size of an empty buffer (16)
          EditMaxLen         \* bound: the length of the text

VARIABLES gap_,          \* the gap buffer
          line_start_,   \* <<offset of line 0, ...>>
          cur_row_, cur_col_

editVars == <<gap_, line_start_, cur_row_, cur_col_>>

\* A newline is not typed as a character, and doubling a buffer makes it larger.
ASSUME EditAssumption ==
  /\ NL \notin Letters
  /\ InitCap \in Nat \ {0}

EditInit ==
  /\ gap_ = Gapped(InitCap, 0, InitCap, LAMBDA i : Junk)
  /\ line_start_ = <<0>> /\ cur_row_ = 0 /\ cur_col_ = 0

line_count == Len(line_start_)
start(row) == line_start_[row + 1]
offset == start(cur_row_) + cur_col_
line_len(row) ==
  (IF row + 1 < line_count THEN start(row + 1) - 1 ELSE Size(gap_)) - start(row)

\* The index ls with the lines from row `from` on moved by delta.
shift_lines(ls, from, delta) ==
  [i \in 1..Len(ls) |-> IF i > from THEN ls[i] + delta ELSE ls[i]]

insert_char(c) ==
  /\ Size(gap_) < EditMaxLen
  /\ gap_' = InsertPos(gap_, offset, c)
  /\ line_start_' = shift_lines(line_start_, cur_row_ + 1, 1)
  /\ cur_col_' = cur_col_ + 1
  /\ UNCHANGED cur_row_

insert_newline ==
  /\ Size(gap_) < EditMaxLen
  /\ gap_' = InsertPos(gap_, offset, NL)
  /\ line_start_' = InsertAt(shift_lines(line_start_, cur_row_ + 1, 1), cur_row_ + 2, offset + 1)
  /\ cur_row_' = cur_row_ + 1 /\ cur_col_' = 0

delete_char_InLine ==
  /\ cur_col_ > 0
  /\ gap_' = ErasePos(gap_, offset - 1)
  /\ line_start_' = shift_lines(line_start_, cur_row_ + 1, -1)
  /\ cur_col_' = cur_col_ - 1
  /\ UNCHANGED cur_row_

\* At the beginning of a line its end is joined to the line before.
delete_char_Joins ==
  /\ cur_col_ = 0 /\ cur_row_ > 0
  /\ gap_' = ErasePos(gap_, offset - 1)
  /\ line_start_' = shift_lines(RemoveAt(line_start_, cur_row_ + 1), cur_row_, -1)
  /\ cur_row_' = cur_row_ - 1
  /\ cur_col_' = line_len(cur_row_ - 1)

delete_line ==
  LET begin == start(cur_row_)
      last == cur_row_ + 1 >= line_count
      end == IF last THEN Size(gap_) ELSE start(cur_row_ + 1)
      lo == IF last /\ cur_row_ > 0 THEN begin - 1 ELSE begin
      rest == RemoveAt(line_start_, cur_row_ + 1)
  IN  /\ line_count > 0
      /\ gap_' = EraseDown(gap_, lo, end)
      /\ line_start_' = IF ~last THEN shift_lines(rest, cur_row_, -(end - begin))
                        ELSE IF rest = <<>> THEN <<0>> ELSE rest
      /\ cur_row_' = Least(cur_row_, Len(line_start_') - 1)
      /\ cur_col_' = 0

move_to(row, col) ==
  /\ cur_row_' = row /\ cur_col_' = col
  /\ UNCHANGED <<gap_, line_start_>>

\* Whoever moves the cursor asks line_count and line_len first.
EditNext ==
  \/ \E c \in Letters : insert_char(c)
  \/ insert_newline \/ delete_char_InLine \/ delete_char_Joins \/ delete_line
  \/ \E row \in 0..(line_count - 1) : \E col \in 0..line_len(row) : move_to(row, col)

EditSpec == EditInit /\ [][EditNext]_editVars

------------------------------------------------------------------------------
text_ == to_string(gap_)

\* The index says where the lines of the text begin, line by line and nothing
\* else, and the cursor is in the text, after every sequence of edits.
LineIndex ==
  /\ line_start_[1] = 0
  /\ \A i \in 1..Len(line_start_) - 1 : line_start_[i] < line_start_[i + 1]
  /\ {line_start_[i] : i \in 2..Len(line_start_)} = {p \in 1..Len(text_) : text_[p] = NL}
  /\ cur_row_ \in 0..(line_count - 1) /\ cur_col_ \in 0..line_len(cur_row_)

\* The editor is a text with a point: each of its primitives is one edit of the
\* text at the cursor, whatever it does to the gap and to the index.
EditText == INSTANCE TextSpec WITH Chars <- Letters \cup {NL}, NL <- NL, text <- text_,
                                  point <- offset
EditImplementsText == EditText!Spec

\* vc-03, vc-05: behind the gap, the line index and the cursor's row and column
\* there is one text and one point in it, which each call changes as it says.
ImplementsText == GapImplementsText /\ EditImplementsText
==============================================================================
