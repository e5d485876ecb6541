----------------------------- MODULE Highlight -----------------------------
(***************************************************************************)
(* Incremental highlighting of vim-cpp/vc-10.  A line is a sequence of     *)
(* kinds of characters: "/", "*" (of the operators the one that matters),  *)
(* "q" (a quote), "\\", "d" (a digit), "w" (a letter) and " ".             *)
(***************************************************************************)
EXTENDS Naturals, SequencesExt

CONSTANTS LineTexts,     \* the lines a document is made of
          NumLines

Least(S) == CHOOSE i \in S : \A j \in S : i <= j

\* The first of the positions in js, or n + 1.
FirstOf(js, n) == Least(js \cup {n + 1})

Mark(out, i, j, tok) == [k \in DOMAIN out |-> IF i <= k /\ k < j THEN tok ELSE out[k]]

\* The character behind the string that begins at i: an escaped one is skipped.
RECURSIVE StringEnd(_, _)
StringEnd(s, j) ==
  IF j > Len(s) THEN Len(s) + 1
  ELSE IF s[j] = "q" THEN j + 1
  ELSE StringEnd(s, IF s[j] = "\\" THEN j + 2 ELSE j + 1)

\* What scan does at position i: the kind of token, where it ends, and whether
\* that is inside a block comment.
Token(s, i, in_comment) ==
  LET n == Len(s)
      close == FirstOf({j \in i..(n - 1) : s[j] = "*" /\ s[j + 1] = "/"}, n)
      pair == IF i < n THEN <<s[i], s[i + 1]>> ELSE <<s[i], " ">>
      Word(K) == FirstOf({j \in i..n : s[j] \notin K}, n)
      tok(kind, next, in) == [kind |-> kind, next |-> next, in |-> in]
  IN  IF in_comment
      THEN IF close > n THEN tok("Comment", n + 1, TRUE) ELSE tok("Comment", close + 2, FALSE)
      ELSE CASE pair = <<"/", "*">> -> tok("Comment", i + 2, TRUE)
             [] pair = <<"/", "/">> -> tok("Comment", n + 1, FALSE)
             [] s[i] = "q" -> tok("String", StringEnd(s, i + 1), FALSE)
             [] s[i] = "d" -> tok("Number", Word({"d", "w"}), FALSE)
             [] s[i] = "w" -> tok("Plain", Word({"d", "w"}), FALSE)
             [] s[i] = "*" -> tok("Op", i + 1, FALSE)
             [] OTHER -> tok("Plain", i + 1, FALSE)

RECURSIVE ScanFrom(_, _, _, _)
ScanFrom(s, i, in_comment, out) ==
  IF i > Len(s) THEN [in |-> in_comment, toks |-> out]
  ELSE LET t == Token(s, i, in_comment)
       IN  ScanFrom(s, t.next, t.in, Mark(out, i, t.next, t.kind))

\* The tokens of a line and whether its end is inside a block comment.
scan(s, in_comment) == ScanFrom(s, 1, in_comment, [i \in 1..Len(s) |-> "Plain"])

VARIABLES lines, toks,
          state    \* state[i]: line i begins in a block comment; NumLines + 1 is the end

vars == <<lines, toks, state>>

\* state and toks of the document ls, every line scanned.
FullState(ls) ==
  LET f[i \in 1..(Len(ls) + 1)] == IF i = 1 THEN FALSE ELSE scan(ls[i - 1], f[i - 1]).in
  IN  f
FullToks(ls) == [i \in 1..Len(ls) |-> scan(ls[i], FullState(ls)[i]).toks]

Init ==
  /\ lines \in [1..NumLines -> LineTexts]
  /\ state = FullState(lines) /\ toks = FullToks(lines)

\* Mutant: the scan stops at the edited line when that ends outside a comment.
Rescanned_StopsOutside(new, L, begins) ==
  {i \in L..NumLines : \A j \in (L + 1)..i : begins[j] /= state[j] /\ begins[j]}

\* The lines edit_line scans: on from L, until one begins as it did before.
Rescanned(new, L, begins) ==
  {i \in L..NumLines : \A j \in (L + 1)..i : begins[j] /= state[j]}

edit_line(L, text) ==
  LET new == [lines EXCEPT ![L] = text]
      begins[i \in L..(NumLines + 1)] ==      \* scanned on and on from line L
        IF i = L THEN state[L] ELSE scan(new[i - 1], begins[i - 1]).in
      R == Rescanned(new, L, begins)
  IN  /\ lines' = new
      /\ toks' = [i \in 1..NumLines |-> IF i \in R THEN scan(new[i], begins[i]).toks ELSE toks[i]]
      /\ state' = [i \in 1..(NumLines + 1) |-> IF i > L /\ i - 1 \in R THEN begins[i] ELSE state[i]]

Next == \E L \in 1..NumLines, text \in LineTexts : edit_line(L, text)

Spec == Init /\ [][Next]_vars

------------------------------------------------------------------------------
\* What the incremental scan leaves behind is what a full one would find, though
\* it stops at the first line that begins as it did before the edit.
HighlightFresh == state = FullState(lines) /\ toks = FullToks(lines)
=============================================================================
