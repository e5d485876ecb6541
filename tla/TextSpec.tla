------------------------------ MODULE TextSpec ------------------------------
(***************************************************************************)
(* What a text store promises an editor, whatever memory it keeps the text *)
(* in: a sequence of characters and a point between two of them.           *)
(***************************************************************************)
EXTENDS Naturals, Sequences

CONSTANTS Chars, NL   \* the characters; the one that ends a line

VARIABLES text,       \* the characters, in order
          point       \* how many of them are before the point

vars == <<text, point>>

Init == text \in Seq(Chars) /\ point \in 0..Len(text)

\* The text without the characters from b on and before e.
Without(b, e) == SubSeq(text, 1, b) \o SubSeq(text, e + 1, Len(text))

Move == text' = text /\ point' \in 0..Len(text)

Insert(c) ==
  /\ text' = SubSeq(text, 1, point) \o <<c>> \o SubSeq(text, point + 1, Len(text))
  /\ point' = point + 1

EraseBefore ==
  /\ point > 0
  /\ text' = Without(point - 1, point)
  /\ point' = point - 1

\* b is where a line of t begins, e where one ends: before an NL or at the end.
Begins(t, b) == b = 0 \/ (b \in 1..Len(t) /\ t[b] = NL)
Ends(t, e) == e = Len(t) \/ (e < Len(t) /\ t[e + 1] = NL)

\* The line [b, e) that holds the point goes, with the NL that ends it or, if it
\* is the last one, with the NL before it; the point goes to a line's beginning.
EraseLine ==
  \E b \in 0..point, e \in point..Len(text) :
    /\ Begins(text, b) /\ Ends(text, e)
    /\ \A i \in (b + 1)..e : text[i] /= NL
    /\ text' = IF e < Len(text) THEN Without(b, e + 1)
               ELSE Without(IF b = 0 THEN 0 ELSE b - 1, e)
    /\ point' \in 0..Len(text') /\ Begins(text', point')
    /\ e < Len(text) => point' = b
    /\ e = Len(text) => \A i \in (point' + 1)..Len(text') : text'[i] /= NL

\* What a store offers that only knows its point, and what an editor offers.
PointNext == Move \/ EraseBefore \/ \E c \in Chars : Insert(c)
Next == PointNext \/ EraseLine

PointSpec == Init /\ [][PointNext]_vars
Spec == Init /\ [][Next]_vars
=============================================================================
