------------------------------- MODULE Render -------------------------------
(***************************************************************************)
(* The drawing loop of vim-cpp/vc-12, with the caches of its four levels   *)
(* (OPT), and the two ways of vc-02 to put a frame on the terminal: cell   *)
(* by cell or in one write.                                                *)
(***************************************************************************)
EXTENDS Naturals, Sequences

CONSTANTS OPT,                 \* 0..3
          ROWS, COLS, VIEW_TOP,
          Widths,              \* the length of each line of the document
          Letters,             \* how many letters the edits cycle through
          MaxFrames            \* bound: frames that are drawn

VARIABLES first,               \* the first character of each line, all an edit changes
          width_cache, dirty, prev,
          frame, row,          \* the loops of main and render_frame
          framebuf, screen     \* what is collected, what has been written

vars == <<first, width_cache, dirty, prev, frame, row, framebuf, screen>>

Lines == 0..(Len(Widths) - 1)
NoWidth == COLS + 1
NoRow == <<>>

Init ==
  /\ first = [ln \in Lines |-> Letters]
  /\ width_cache = [ln \in Lines |-> NoWidth]
  /\ dirty = [ln \in Lines |-> TRUE] /\ prev = [ln \in Lines |-> NoRow]
  /\ frame = 0 /\ row = ROWS /\ framebuf = <<>> /\ screen = <<>>

\* One turn of main: a line on the screen is edited and a frame begun.
edit_one_line ==
  LET ln == VIEW_TOP + (frame % ROWS)
  IN  /\ row = ROWS /\ frame < MaxFrames
      /\ first' = [first EXCEPT ![ln] = frame % Letters]
      /\ dirty' = [dirty EXCEPT ![ln] = TRUE]
      /\ frame' = frame + 1 /\ row' = 0 /\ framebuf' = <<>> /\ screen' = <<>>
      /\ UNCHANGED <<width_cache, prev>>

Width(ln) == IF Widths[ln + 1] > COLS THEN COLS ELSE Widths[ln + 1]
line_width(ln) == IF OPT >= 2 /\ width_cache[ln] /= NoWidth THEN width_cache[ln] ELSE Width(ln)

render_row ==
  LET ln == VIEW_TOP + row
      reuse == OPT >= 3 /\ ~dirty[ln]
      cells == IF reuse THEN prev[ln] ELSE <<first[ln], line_width(ln)>>
  IN  /\ row < ROWS /\ row' = row + 1
      /\ IF OPT >= 1
         THEN /\ framebuf' = Append(framebuf, cells)
              /\ screen' = IF row' = ROWS THEN framebuf' ELSE screen
         ELSE screen' = Append(screen, cells) /\ UNCHANGED framebuf
      /\ width_cache' = IF OPT >= 2 /\ ~reuse
                        THEN [width_cache EXCEPT ![ln] = line_width(ln)] ELSE width_cache
      /\ IF OPT >= 3 /\ ~reuse
         THEN prev' = [prev EXCEPT ![ln] = cells] /\ dirty' = [dirty EXCEPT ![ln] = FALSE]
         ELSE UNCHANGED <<prev, dirty>>
      /\ UNCHANGED <<first, frame>>

Next == edit_one_line \/ render_row

Spec == Init /\ [][Next]_vars

------------------------------------------------------------------------------
\* What has been drawn is what the lines hold, with every cache on; and from
\* level 1 on a frame appears as a whole.
FrameFresh ==
  /\ \A r \in 1..Len(screen) :
       screen[r] = <<first[VIEW_TOP + r - 1], Width(VIEW_TOP + r - 1)>>
  /\ row = ROWS /\ frame > 0 => Len(screen) = ROWS
  /\ OPT >= 1 => Len(screen) \in {0, ROWS}
=============================================================================
