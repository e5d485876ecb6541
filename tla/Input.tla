-------------------------------- MODULE Input --------------------------------
(***************************************************************************)
(* What vim-cpp does with the keys it is given: the terminal's bytes, the  *)
(* cursor and the viewport, the modes, and the command line.               *)
(***************************************************************************)
EXTENDS Integers, Sequences

(* What is asked of the strings and lists of bytes. *)
Last(s) == s[Len(s)]
Front(s) == SubSeq(s, 1, Len(s) - 1)
ToSet(s) == {s[i] : i \in DOMAIN s}
IsPrefix(s, t) == Len(s) <= Len(t) /\ SubSeq(s, 1, Len(s)) = SubSeq(t, 1, Len(s))

------------------------------------------------------------------------------
(***************************************************************************)
(* The raw terminal of vim-cpp/vc-01: RawTerm takes the terminal over and  *)
(* gives it back, and KeyParser cuts the bytes read into key events.       *)
(***************************************************************************)
CONSTANTS Bytes,          \* bytes typed; "esc" is 0x1B
          MaxBytes        \* bound: how many are typed

\* The bytes within 0x40..0x7E, which end a sequence.
Finals == Bytes \ {"esc", "0", "1", "2", "3", "4", "5", "6", ";"}

VARIABLES tty,            \* attributes of the terminal: "cooked", "raw" or "garbage"
          enabled_, global_,
          term_buf_,           \* KeyParser
          tpc,            \* where main is
          typed, events   \* history: the bytes read, the events made

term_vars == <<tty, enabled_, global_, term_buf_, tpc, typed, events>>

TermInit ==
  /\ tty = "cooked" /\ enabled_ = FALSE /\ global_ = "none"
  /\ term_buf_ = <<>> /\ tpc = "start" /\ typed = <<>> /\ events = <<>>

\* RawTerm(): the attributes are saved, and a handler for exit() is registered.
Enter ==
  /\ tpc = "start"
  /\ tty' = "raw" /\ enabled_' = TRUE /\ global_' = "alive" /\ tpc' = "read"
  /\ UNCHANGED <<term_buf_, typed, events>>

\* The event that raw stands for, once it is complete.
Arrow == [A |-> "ArrowUp", B |-> "ArrowDown", C |-> "ArrowRight", D |-> "ArrowLeft",
          H |-> "Home", F |-> "End"]
Page == [c \in {"3", "5", "6"} |->
           CASE c = "3" -> "Delete" [] c = "5" -> "PageUp" [] c = "6" -> "PageDown"]
Kind(raw) ==
  LET c == Last(raw)
  IN  CASE Len(raw) = 1 -> "Byte"
        [] Len(raw) > 2 /\ c \in DOMAIN Arrow -> Arrow[c]
        [] c = "~" /\ Len(raw) >= 4 /\ raw[3] \in DOMAIN Page -> Page[raw[3]]
        [] OTHER -> "UnknownEsc"

Complete(raw) ==
  CASE Len(raw) = 1 -> raw[1] /= "esc"
    [] Len(raw) = 2 -> raw[2] /= "["
    [] OTHER -> Last(raw) \in Finals

\* main's loop: feed, and leave on the key q.
TermFeed(c) ==
  LET raw == Append(term_buf_, c)
  IN  /\ tpc = "read" /\ Len(typed) < MaxBytes
      /\ typed' = Append(typed, c)
      /\ IF Complete(raw)
         THEN /\ events' = Append(events, [kind |-> Kind(raw), raw |-> raw])
              /\ term_buf_' = <<>>
              /\ tpc' = IF raw = <<"q">> THEN "leave" ELSE "read"
         ELSE term_buf_' = raw /\ UNCHANGED <<events, tpc>>
      /\ UNCHANGED <<tty, enabled_, global_>>

\* read fails or reports the end of the input.
EndOfInput ==
  /\ tpc = "read" /\ tpc' = "leave"
  /\ UNCHANGED <<tty, enabled_, global_, term_buf_, typed, events>>

\* ~RawTerm() at the end of main.  global_ still points to the object.
Leave ==
  /\ tpc = "leave"
  /\ tty' = IF enabled_ THEN "cooked" ELSE tty
  /\ enabled_' = FALSE /\ global_' = "dead" /\ tpc' = "exit"
  /\ UNCHANGED <<term_buf_, typed, events>>

\* The handler reads the object, which no longer exists: enabled_ and saved_ are
\* whatever the stack holds by then.
Exit ==
  /\ tpc = "exit" /\ tpc' = "ended"
  /\ IF global_ = "dead" THEN tty' \in {tty, "garbage"} ELSE UNCHANGED tty
  /\ UNCHANGED <<enabled_, global_, term_buf_, typed, events>>

TermNext == Enter \/ (\E c \in Bytes : TermFeed(c)) \/ EndOfInput \/ Leave \/ Exit

TermSpec == TermInit /\ [][TermNext]_term_vars

------------------------------------------------------------------------------
\* The program leaves the terminal as it found it.
TerminalRestored == tpc = "ended" => tty = "cooked"

\* No byte is lost, repeated or moved to another event; ESC and "ESC [" are never
\* events of their own, what ends inside a sequence is kept for the next byte,
\* and a sequence of escape codes is cut where a terminal ends it.
KeysCutRight ==
  /\ LET cut[n \in 0..Len(events)] == IF n = 0 THEN <<>> ELSE cut[n - 1] \o events[n].raw
     IN  cut[Len(events)] \o term_buf_ = typed
  /\ \A i \in DOMAIN events :
       LET raw == events[i].raw
       IN  /\ raw[1] = "esc" => Len(raw) >= 2
           /\ Len(raw) > 2 => /\ raw[2] = "[" /\ Last(raw) \in Finals
                              /\ \A j \in 3..(Len(raw) - 1) : raw[j] \notin Finals
           /\ events[i].kind = "Delete" => raw[3] = "3" /\ Last(raw) = "~"

------------------------------------------------------------------------------
(***************************************************************************)
(* Cursor and viewport of vim-cpp/vc-04: moves over a text with tabs, the  *)
(* column that j and k remember, and the window that follows the cursor.   *)
(* A line is a sequence of tabs and of characters one column wide.         *)
(***************************************************************************)
CONSTANTS Documents,            \* the texts: non-empty sequences of lines
          TAB_WIDTH, scr_rows, scr_cols, scrolloff

VARIABLES lines, crow, ccol, goal_vcol, row_off, col_off,
          shown,                \* ensure_visible ran since the last move
          origin                \* history: where the row of j and k began

view_vars == <<lines, crow, ccol, goal_vcol, row_off, col_off, shown, origin>>

ViewInit ==
  /\ lines \in Documents
  /\ crow = 0 /\ ccol = 0 /\ goal_vcol = -1 /\ row_off = 0 /\ col_off = 0
  /\ shown = FALSE /\ origin = <<0, 0>>

Lesser(m, n) == IF m < n THEN m ELSE n
Greater(m, n) == IF m > n THEN m ELSE n
Line(r) == lines[r + 1]

\* The screen column of the character with index col: tabs are expanded.
visual_col(s, col) ==
  LET v[i \in 0..Len(s)] ==
        IF i = 0 THEN 0
        ELSE IF s[i] = "tab" THEN v[i - 1] + TAB_WIDTH - (v[i - 1] % TAB_WIDTH)
        ELSE v[i - 1] + 1
  IN  v[Lesser(col, Len(s))]

\* The first character that reaches beyond screen column vcol.
logical_col(s, vcol) ==
  LET Beyond == {i \in 0..(Len(s) - 1) : visual_col(s, i + 1) > vcol}
  IN  IF Beyond = {} THEN Len(s) ELSE CHOOSE i \in Beyond : \A j \in Beyond : i <= j

cur_visual_col == visual_col(Line(crow), ccol)

Horizontal(col) ==
  /\ ccol' = col
  /\ goal_vcol' = -1 /\ shown' = FALSE
  /\ UNCHANGED <<lines, crow, row_off, col_off, origin>>

view_move_left == Horizontal(Greater(0, ccol - 1))
view_move_right == Horizontal(Greater(Lesser(Len(Line(crow)) - 1, ccol + 1), 0))
move_home == Horizontal(0)
move_end == Horizontal(Greater(0, Len(Line(crow)) - 1))

\* Mutant: the column is remembered anew in every line.
vertical_ForgetsGoal(drow) ==
  /\ goal_vcol' = cur_visual_col
  /\ origin' = IF goal_vcol < 0 THEN <<crow, ccol>> ELSE origin
  /\ crow' = Greater(0, Lesser(Len(lines) - 1, crow + drow))
  /\ LET s == lines[crow' + 1]
     IN  ccol' = Greater(0, Lesser(logical_col(s, goal_vcol'), Len(s) - 1))
  /\ shown' = FALSE
  /\ UNCHANGED <<lines, row_off, col_off>>

vertical(drow) ==
  /\ goal_vcol' = IF goal_vcol < 0 THEN cur_visual_col ELSE goal_vcol
  /\ origin' = IF goal_vcol < 0 THEN <<crow, ccol>> ELSE origin
  /\ crow' = Greater(0, Lesser(Len(lines) - 1, crow + drow))
  /\ LET s == lines[crow' + 1]            \* and clamp_col
     IN  ccol' = Greater(0, Lesser(logical_col(s, goal_vcol'), Len(s) - 1))
  /\ shown' = FALSE
  /\ UNCHANGED <<lines, row_off, col_off>>

Goto(row) ==
  /\ crow' = row /\ ccol' = 0 /\ goal_vcol' = -1 /\ shown' = FALSE
  /\ UNCHANGED <<lines, row_off, col_off, origin>>

goto_first == Goto(0)
goto_last == Goto(Len(lines) - 1)

ensure_visible ==
  LET up == IF crow < row_off + scrolloff THEN Greater(0, crow - scrolloff) ELSE row_off
      v == cur_visual_col
      left == Lesser(v, col_off)
  IN  /\ row_off' = IF crow >= up + scr_rows - scrolloff
                    THEN crow - scr_rows + 1 + scrolloff ELSE up
      /\ col_off' = IF v >= left + scr_cols THEN v - scr_cols + 1 ELSE left
      /\ shown' = TRUE
      /\ UNCHANGED <<lines, crow, ccol, goal_vcol, origin>>

ViewNext == \/ view_move_left \/ view_move_right \/ move_home \/ move_end
            \/ vertical(-1) \/ vertical(1) \/ goto_first \/ goto_last \/ ensure_visible

ViewSpec == ViewInit /\ [][ViewNext]_view_vars

------------------------------------------------------------------------------
screen_row == crow - row_off
screen_col == cur_visual_col - col_off

\* After ensure_visible the cursor is on the screen, with scrolloff rows below it
\* and, where the text has them, above it; j and k come back to the column they
\* left, through lines that are shorter or have tabs there.
CursorFollowed ==
  /\ ccol \in 0..Greater(0, Len(Line(crow)) - 1)
  /\ goal_vcol >= 0 /\ crow = origin[1] => ccol = origin[2]
  /\ shown =>
       /\ row_off >= 0 /\ screen_row \in 0..(scr_rows - 1 - scrolloff)
       /\ screen_row >= Lesser(scrolloff, scr_rows - 1 - scrolloff) \/ row_off = 0
       /\ col_off >= 0 /\ screen_col \in 0..(scr_cols - 1)

------------------------------------------------------------------------------
(***************************************************************************)
(* The mode machine of vim-cpp/vc-07: Normal, Insert and Visual mode over  *)
(* a line and a cursor.  What the line says does not matter to any of them *)
(* but its length.                                                         *)
(***************************************************************************)
CONSTANTS InitLen,    \* the length of the line at start ("hello world")
          MaxSize     \* bound: the length of the line

VARIABLES mode, size, cursor, anchor   \* Editor: mode, buf.size(), cursor, anchor

mode_vars == <<mode, size, cursor, anchor>>

ModeInit == mode = "Normal" /\ size = InitLen /\ cursor = 0 /\ anchor = 0

Left(c) == IF c > 0 THEN c - 1 ELSE 0
Right(c) == IF c + 1 < size THEN c + 1 ELSE c

\* The old mode's exit, then the new mode's enter, with the cursor at c.
set_mode(m, c) ==
  /\ mode' = m
  /\ cursor' = IF mode = "Insert" THEN Left(c) ELSE c
  /\ anchor' = IF m = "Visual" THEN cursor' ELSE anchor
  /\ UNCHANGED size

mode_move_left == cursor' = Left(cursor) /\ UNCHANGED <<mode, size, anchor>>
mode_move_right == cursor' = Right(cursor) /\ UNCHANGED <<mode, size, anchor>>

NormalMode ==
  /\ mode = "Normal"
  /\ \/ set_mode("Insert", cursor)                  \* i
     \/ set_mode("Insert", Right(cursor))           \* a
     \/ set_mode("Visual", cursor)                  \* v
     \/ mode_move_left \/ mode_move_right                     \* h, l; the others do nothing

\* x: the character under the cursor goes.
NormalErase ==
  /\ mode = "Normal" /\ size > 0
  /\ size' = size - 1
  /\ cursor' = IF cursor >= size - 1 THEN Left(cursor) ELSE cursor
  /\ UNCHANGED <<mode, anchor>>

InsertEscape == mode = "Insert" /\ set_mode("Normal", cursor)

Backspace ==
  /\ mode = "Insert" /\ cursor > 0
  /\ size' = size - 1 /\ cursor' = cursor - 1
  /\ UNCHANGED <<mode, anchor>>

Type ==
  /\ mode = "Insert" /\ size < MaxSize
  /\ size' = size + 1 /\ cursor' = cursor + 1
  /\ UNCHANGED <<mode, anchor>>

VisualMode ==
  /\ mode = "Visual"
  /\ \/ set_mode("Normal", cursor)                  \* Esc, v
     \/ mode_move_left \/ mode_move_right                     \* h, l extend the selection

ModeNext == NormalMode \/ NormalErase \/ InsertEscape \/ Backspace \/ Type \/ VisualMode

ModeSpec == ModeInit /\ [][ModeNext]_mode_vars

------------------------------------------------------------------------------
\* The cursor is on a character, or behind the last one while text is inserted,
\* and a selection lies within the line: whatever keys came before, so that
\* erase(cursor), insert(cursor) and [selBegin, selEnd] are always legal.
ModeBounds ==
  /\ cursor <= (IF mode = "Insert" THEN size ELSE Left(size))
  /\ mode = "Visual" => anchor <= Left(size)

------------------------------------------------------------------------------
(***************************************************************************)
(* The command line of vim-cpp/vc-11: a typed line, the key map that       *)
(* rewrites it, and the interpreter that finds the command for it by name, *)
(* by abbreviation or by prefix.  Words are sequences of characters.       *)
(***************************************************************************)
CONSTANTS Keys,        \* the characters typed
          Maps,        \* key maps: functions from some lines to lines
          LineCount,   \* how many lines the text has
          MaxTyped     \* bound: the length of a typed line

Commands ==   \* in the order of their registration
  << [name |-> <<"w","r","i","t","e">>, abbr |-> <<"w">>, takesBang |-> FALSE],
     [name |-> <<"q","u","i","t">>, abbr |-> <<"q">>, takesBang |-> TRUE],
     [name |-> <<"w","q">>, abbr |-> <<"w","q">>, takesBang |-> FALSE],
     [name |-> <<"s","e","t">>, abbr |-> <<"s","e">>, takesBang |-> FALSE] >>

VARIABLES table,                             \* KeyMap
          ex_buf_,                              \* CmdLine: what has been typed
          ecursor, dirty, quit, saved,       \* Editor
          message

ex_vars == <<table, ex_buf_, ecursor, dirty, quit, saved, message>>

ExInit ==
  /\ table \in Maps /\ ex_buf_ = <<>>
  /\ ecursor = 0 /\ dirty = TRUE /\ quit = FALSE /\ saved = FALSE /\ message = ""

(* The key map: after 16 steps the keys stand for themselves. *)

MaxDepth == 16
expand(keys) ==
  LET Rewritten(k) == IF k \in DOMAIN table THEN table[k] ELSE k
      After[depth \in 0..(MaxDepth + 1)] == IF depth = 0 THEN keys ELSE Rewritten(After[depth - 1])
  IN  After[MaxDepth + 1]

(* The typed line. *)

ExFeed(c) ==
  /\ Len(ex_buf_) < MaxTyped
  /\ ex_buf_' = Append(ex_buf_, c)
  /\ UNCHANGED <<table, ecursor, dirty, quit, saved, message>>

BackspaceKey ==
  /\ ex_buf_ /= <<>> /\ ex_buf_' = Front(ex_buf_)
  /\ UNCHANGED <<table, ecursor, dirty, quit, saved, message>>

Cancel ==
  /\ ex_buf_' = <<>>
  /\ UNCHANGED <<table, ecursor, dirty, quit, saved, message>>

(* The interpreter. *)

Digit == [c \in {"0", "1", "9"} |-> CASE c = "0" -> 0 [] c = "1" -> 1 [] c = "9" -> 9]
Number(s) ==
  LET Upto[i \in 0..Len(s)] == IF i = 0 THEN 0 ELSE 10 * Upto[i - 1] + Digit[s[i]]
  IN  Upto[Len(s)]

Space(s) == {i \in 1..Len(s) : s[i] = " "}
FirstWord(s) ==
  IF Space(s) = {} THEN s
  ELSE SubSeq(s, 1, (CHOOSE i \in Space(s) : \A j \in Space(s) : i <= j) - 1)

Exact(word) == {i \in DOMAIN Commands : word \in {Commands[i].name, Commands[i].abbr}}
ByPrefix(word) == {i \in DOMAIN Commands : IsPrefix(word, Commands[i].name)}

\* The commands a word stands for: the first exact one, or all it is a prefix of.
Hits(word) ==
  IF Exact(word) /= {} THEN {CHOOSE i \in Exact(word) : \A j \in Exact(word) : i <= j}
                       ELSE ByPrefix(word)

Say(m) == message' = m /\ UNCHANGED <<ecursor, dirty, quit, saved>>

\* Mutant: quit is asked for before the check.
Run_QuitsFirst(name, bang) ==
  /\ saved' = (saved \/ name \in {Commands[1].name, Commands[3].name})
  /\ dirty' = (dirty /\ ~saved')
  /\ quit' = (quit \/ name \in {Commands[2].name, Commands[3].name})
  /\ message' = IF quit' /\ dirty' /\ ~bang THEN "E37" ELSE "done"
  /\ UNCHANGED ecursor

Run(name, bang) ==
  CASE name = Commands[2].name /\ dirty /\ ~bang -> Say("E37")
    [] name = Commands[4].name -> Say("set")
    [] OTHER ->
         /\ saved' = (saved \/ name /= Commands[2].name)
         /\ dirty' = (dirty /\ name = Commands[2].name)
         /\ quit' = (quit \/ name /= Commands[1].name)
         /\ message' = "done"
         /\ UNCHANGED ecursor

exec(line) ==
  LET w == FirstWord(line)
      bang == w /= <<>> /\ Last(w) = "!"
      word == IF bang THEN Front(w) ELSE w
      hits == Hits(word)
  IN  IF line = <<>> THEN Say("")
      ELSE IF ToSet(line) \subseteq DOMAIN Digit
      THEN /\ ecursor' = (LET n == Number(line)
                          IN  IF n = 0 THEN 0 ELSE IF n < LineCount THEN n - 1 ELSE LineCount - 1)
           /\ message' = "goto" /\ UNCHANGED <<dirty, quit, saved>>
      ELSE CASE hits = {} -> Say("E492")
             [] \E i, j \in hits : i /= j -> Say("E464")
             [] OTHER ->
                  LET c == Commands[CHOOSE i \in hits : TRUE]
                  IN  IF bang /\ ~c.takesBang THEN Say("E477") ELSE Run(c.name, bang)

\* Return: the line is executed, with the keys that are mapped replaced.
Execute ==
  /\ ~quit
  /\ exec(expand(ex_buf_)) /\ ex_buf_' = <<>>
  /\ UNCHANGED table

ExNext == (\E c \in Keys : ExFeed(c)) \/ BackspaceKey \/ Cancel \/ Execute

ExSpec == ExInit /\ [][ExNext]_ex_vars

------------------------------------------------------------------------------
\* The editor ends with changes that were not saved only for a line that says
\* so: a prefix of quit, with a bang.  The text is written whenever it is clean.
KeepsWork ==
  /\ quit' /\ ~quit /\ dirty' =>
       \E n \in 1..4 : LET w == FirstWord(expand(ex_buf_))
                       IN  w = Append(SubSeq(Commands[2].name, 1, n), "!")
  /\ ~dirty' => saved'
  /\ ecursor' \in 0..(LineCount - 1)
==============================================================================
