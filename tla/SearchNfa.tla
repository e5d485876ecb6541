----------------------------- MODULE SearchNfa -----------------------------
(***************************************************************************)
(* The two regular-expression engines of vim-cpp/vc-09 over the same       *)
(* parsed pattern: a backtracking matcher, and Thompson's automaton run    *)
(* over the text once, one action per character.  Positions of the text    *)
(* and states of the automaton count from 0, as in the code.               *)
(***************************************************************************)
EXTENDS Integers, SequencesExt

CONSTANTS Patterns,   \* the patterns, sequences of characters
          Texts,      \* the texts
          budget      \* how many calls of seq the backtracker makes

\* The characters of patterns and texts, in the order of their codes.
Ascii == <<"*", "+", "-", ".", "?", "[", "\\", "]", "a", "b", "c", "|">>
Between(lo, hi) ==
  LET code(c) == CHOOSE i \in DOMAIN Ascii : Ascii[i] = c
  IN  {Ascii[i] : i \in code(lo)..code(hi)}

(* The parser: a pattern is branches of terms, an atom and a quantifier. *)

\* What an atom hits is all that is left of it: atomHit(a, c) is c \in a.
Literal(c) == {c}
Dot == Range(Ascii)

\* The class from position i on: its set and the position behind it.
RECURSIVE Class(_, _, _)
Class(s, i, set) ==
  IF i > Len(s) \/ s[i] = "]" THEN [atom |-> set, next |-> i + 1]
  ELSE IF i + 2 <= Len(s) /\ s[i + 1] = "-" /\ s[i + 2] /= "]"
  THEN Class(s, i + 3, set \cup Between(s[i], s[i + 2]))
  ELSE Class(s, i + 1, set \cup {s[i]})

parseAtom(s, i) ==
  IF s[i] = "\\" THEN [atom |-> IF i < Len(s) THEN Literal(s[i + 1]) ELSE {}, next |-> i + 2]
  ELSE IF s[i] = "." THEN [atom |-> Dot, next |-> i + 1]
  ELSE IF s[i] = "[" THEN Class(s, i + 1, {})
  ELSE [atom |-> Literal(s[i]), next |-> i + 1]

RECURSIVE parse(_, _, _)
parse(s, i, branch) ==
  IF i > Len(s) THEN <<branch>>
  ELSE IF s[i] = "|" THEN <<branch>> \o parse(s, i + 1, <<>>)
  ELSE LET a == parseAtom(s, i)
           quantified == a.next <= Len(s) /\ s[a.next] \in {"*", "+", "?"}
       IN  parse(s, IF quantified THEN a.next + 1 ELSE a.next,
                 Append(branch, [atom |-> a.atom, quant |-> IF quantified THEN s[a.next] ELSE "1"]))

(* The backtracker. *)

NoEnd == -1

\* How many characters from pos on the atom hits.
Run(atom, t, pos) ==
  LET Hits == {n \in 0..(Len(t) - pos) : \A k \in 1..n : t[pos + k] \in atom}
  IN  CHOOSE n \in Hits : \A m \in Hits : m <= n

\* Where the match of terms ti, ti + 1, ... of b from p on ends, the longest
\* repetition tried first, and the steps with those made before.
RECURSIVE seq(_, _, _, _, _)
seq(b, t, ti, p, steps) ==
  IF steps + 1 > budget THEN [end |-> NoEnd, steps |-> steps + 1]
  ELSE IF ti > Len(b) THEN [end |-> p, steps |-> steps + 1]
  ELSE LET run == Run(b[ti].atom, t, p)
           lo == IF b[ti].quant \in {"1", "+"} THEN 1 ELSE 0
           hi == IF b[ti].quant \in {"1", "?"} /\ run > 1 THEN 1 ELSE run
           Try(r, k) == IF r.end /= NoEnd THEN r ELSE seq(b, t, ti + 1, p + k, r.steps)
       IN  FoldLeft(Try, [end |-> NoEnd, steps |-> steps + 1],
                    [n \in 1..(hi - lo + 1) |-> hi + 1 - n])

\* The first start, and for it the first branch, that matches within the budget.
Backtrack(bs, t) ==
  LET Try(r, n) ==
        LET st == n \div Len(bs)
            m == seq(bs[(n % Len(bs)) + 1], t, 1, st, r.steps)
        IN  IF r.end /= NoEnd \/ r.steps > budget THEN r
            ELSE [from |-> st, end |-> m.end, steps |-> m.steps]
  IN  FoldLeft(Try, [from |-> 0, end |-> NoEnd, steps |-> 0],
               [n \in 1..((Len(t) + 1) * Len(bs)) |-> n - 1])

(* The automaton: states 0, 1, ... of kinds split, match and accept. *)

State(kind, atom, out1, out2) == [kind |-> kind, atom |-> atom, out1 |-> out1, out2 |-> out2]
Split(out1, out2) == State("split", {}, out1, out2)
Matcher(atom, out) == State("match", atom, out, out)

\* A term in front of state n.next: at id, the next free one, and id + 1.
Term(term, n) ==
  LET id == Len(n.st)
  IN  CASE term.quant = "1" -> [st |-> Append(n.st, Matcher(term.atom, n.next)), next |-> id]
        [] term.quant = "?" -> [st |-> n.st \o <<Matcher(term.atom, n.next), Split(id, n.next)>>,
                                next |-> id + 1]
        [] OTHER            -> [st |-> n.st \o <<Split(id + 1, n.next), Matcher(term.atom, id)>>,
                                next |-> IF term.quant = "*" THEN id ELSE id + 1]

buildBranch(b, st) == FoldRight(Term, b, [st |-> st, next |-> 1])

\* The last branch first; then a split for each one before it.
NFA(bs) ==
  LET Alternative(b, n) ==
        LET e == buildBranch(b, n.st)
        IN  [st |-> Append(e.st, Split(e.next, n.next)), next |-> Len(e.st)]
      n == FoldRight(Alternative, Front(bs),
             buildBranch(Last(bs), <<Split(-1, -1), State("accept", {}, -1, -1)>>))
  IN  [n.st EXCEPT ![1] = Split(n.next, n.next)]

(* The simulation. *)

VARIABLES
  branches, subject, nfa,   \* the parsed pattern, the text, the automaton
  pos,                      \* how many characters were read
  cur,                      \* the states that wait for the next one, in order
  birth,                    \* state -> where the thread in it began
  hit, bestBirth, bestEnd,  \* the match so far
  over

vars == <<branches, subject, nfa, pos, cur, birth, hit, bestBirth, bestEnd, over>>

Init ==
  /\ \E p \in Patterns : branches = parse(p, 1, <<>>)
  /\ subject \in Texts
  /\ nfa = NFA(branches)
  /\ pos = 0 /\ cur = <<>> /\ birth = [s \in 0..(Len(nfa) - 1) |-> 0]
  /\ hit = FALSE /\ bestBirth = 0 /\ bestEnd = 0 /\ over = FALSE

\* The set of f with all that state s leads to without reading, born at b.
RECURSIVE expand(_, _, _)
expand(f, s, b) ==
  IF s \in f.on THEN f
  ELSE LET g == [f EXCEPT !.on = @ \cup {s}]
           n == nfa[s + 1]
       IN  IF n.kind = "split" THEN expand(expand(g, n.out1, b), n.out2, b)
           ELSE [g EXCEPT !.set = Append(@, s), !.birth[s] = b]

\* The states after character c of those in f.set; they share birth with them.
Stepped(f, c) ==
  LET Take(g, s) ==
        IF nfa[s + 1].kind = "match" /\ c \in nfa[s + 1].atom
        THEN expand(g, nfa[s + 1].out1, g.birth[s]) ELSE g
  IN  FoldLeft(Take, [set |-> <<>>, on |-> {}, birth |-> f.birth], f.set)

\* Mutant: threads that begin later are put in before the older ones.
Injected_First ==
  LET f == expand([set |-> <<>>, on |-> {}, birth |-> birth], 0, pos)
  IN  IF hit THEN [set |-> cur, on |-> ToSet(cur), birth |-> birth]
      ELSE [f EXCEPT !.set = @ \o SelectSeq(cur, LAMBDA s : s \notin f.on)]

\* Until there is a match, a new thread begins at every position, behind the
\* older ones.  (What a split marked in `on` leads to is in the set already.)
Injected ==
  LET f == [set |-> cur, on |-> ToSet(cur), birth |-> birth]
  IN  IF hit THEN f ELSE expand(f, 0, pos)

Step ==
  LET f == Injected
      accepts == Contains(f.set, 1)
      better == accepts /\ (~hit \/ f.birth[1] < bestBirth)
      longer == accepts /\ ~better /\ f.birth[1] = bestBirth /\ pos > bestEnd
      next == IF pos < Len(subject) THEN Stepped(f, subject[pos + 1]) ELSE f
  IN  /\ ~over
      /\ hit' = (hit \/ accepts)
      /\ bestBirth' = IF better THEN f.birth[1] ELSE bestBirth
      /\ bestEnd' = IF better \/ longer THEN pos ELSE bestEnd
      /\ over' = ((hit' /\ f.set = <<>>) \/ pos = Len(subject))
      /\ pos' = IF over' THEN pos ELSE pos + 1
      /\ cur' = IF over' THEN f.set ELSE next.set
      /\ birth' = IF over' THEN f.birth ELSE next.birth
      /\ UNCHANGED <<branches, subject, nfa>>

Next == Step
Spec == Init /\ [][Next]_vars

------------------------------------------------------------------------------
\* By definition: how a term takes t from i to j, and a branch from i to j.
Takes(term, t, i, j) ==
  /\ i <= j /\ \A k \in (i + 1)..j : t[k] \in term.atom
  /\ term.quant \in {"1", "+"} => j > i
  /\ term.quant \in {"1", "?"} => j <= i + 1

Reached(b, t, i) ==
  LET R[n \in 0..Len(b)] ==
        IF n = 0 THEN {i}
        ELSE {j \in i..Len(t) : \E k \in R[n - 1] : Takes(b[n], t, k, j)}
  IN  R[Len(b)]

Matches(i) == UNION {Reached(branches[n], subject, i) : n \in 1..Len(branches)}

\* The automaton finds the leftmost match and of that the longest, although it
\* keeps one thread for each state and one birth for both sets of threads.  The
\* backtracker finds the same beginning and one of the ends, or nothing if there is
\* nothing; only when it gave up may it have found nothing where there is a match.
LeftmostLongest ==
  over =>
    LET S == {i \in 0..Len(subject) : Matches(i) /= {}}
        bt == Backtrack(branches, subject)
    IN  /\ hit = (S /= {})
        /\ hit => /\ bestBirth \in S /\ \A i \in S : bestBirth <= i
                  /\ bestEnd \in Matches(bestBirth)
                  /\ \A e \in Matches(bestBirth) : e <= bestEnd
        /\ IF bt.end = NoEnd THEN hit => bt.steps > budget
           ELSE hit /\ bt.from = bestBirth /\ bt.end \in Matches(bestBirth)
=============================================================================
