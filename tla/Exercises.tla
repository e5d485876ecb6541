-------------------------------- MODULE Exercises --------------------------------
(***************************************************************************)
(* The practice programs that compute something from their input.          *)
(***************************************************************************)
EXTENDS Integers, SequencesExt

------------------------------------------------------------------------------
(***************************************************************************)
(* cpp-beginner-practice/calculator.cpp: an infix expression, token by     *)
(* token, into postfix and its value, compared with the value its grammar  *)
(* gives it.  A number is a fraction.                                      *)
(***************************************************************************)
CONSTANTS Numbers, CalcLength   \* bound: tokens of an expression

Ops == {"-", "/", "x"}      \* x: a token that is none of the operators
Tokens == {[t |-> "num", v |-> n] : n \in Numbers}
      \cup {[t |-> o, v |-> 0] : o \in Ops \cup {"(", ")"}}

VARIABLES expr, step, output, result
calc_vars == <<expr, step, output, result>>

Error == [ok |-> FALSE]
Val(x, y) == [ok |-> TRUE, n |-> x, d |-> y]

CalcInit == /\ expr \in BoundedSeq(Tokens, CalcLength)
            /\ step = "to_postfix" /\ output = <<>> /\ result = Error

precedence(o) == CASE o = "-" -> 1 [] o = "/" -> 2 [] OTHER -> 0

\* How many of the operators on top of the stack a token moves to the output: those
\* that bind as strongly, or all of a parenthesis.
Stays(o, top) == IF o = ")" THEN top = "(" ELSE precedence(top) < precedence(o)
Moved(o, ops) == SelectLastInSeq(ops, LAMBDA top : Stays(o, top))
Ops2Tokens(s) == [i \in DOMAIN s |-> [t |-> s[i], v |-> 0]]

Pushed(c, tok) ==
  LET k == Moved(tok.t, c.ops)
      popped == Reverse(SubSeq(c.ops, k + 1, Len(c.ops)))
  IN CASE tok.t = "num" -> [c EXCEPT !.output = Append(@, tok)]
       [] tok.t = "(" -> [c EXCEPT !.ops = Append(@, "(")]
       [] tok.t = ")" -> [output |-> c.output \o Ops2Tokens(popped),
                          ops |-> SubSeq(c.ops, 1, k - 1), bad |-> c.bad \/ k = 0]
       [] OTHER -> [c EXCEPT !.output = @ \o Ops2Tokens(popped),
                             !.ops = Append(SubSeq(@, 1, k), tok.t)]

to_postfix ==
  LET c == FoldLeft(Pushed, [output |-> <<>>, ops |-> <<>>, bad |-> FALSE], expr) IN
    /\ step = "to_postfix"
    /\ IF c.bad \/ "(" \in ToSet(c.ops) THEN step' = "over" /\ UNCHANGED output
       ELSE step' = "eval_postfix" /\ output' = c.output \o Ops2Tokens(Reverse(c.ops))
    /\ UNCHANGED <<expr, result>>

\* The other operators take their two operands and give nothing back.
Applied(o, a, b) ==
  CASE o = "-" -> <<Val(a.n * b.d - b.n * a.d, a.d * b.d)>>
    [] o = "/" -> <<Val(a.n * b.d, a.d * b.n)>>
    [] OTHER -> <<>>

Stepped(s, tok) ==
  LET n == Len(s) IN
  IF s = <<Error>> THEN s
  ELSE IF tok.t = "num" THEN Append(s, Val(tok.v, 1))
  ELSE IF n < 2 \/ (tok.t = "/" /\ s[n].n = 0) THEN <<Error>>
  ELSE SubSeq(s, 1, n - 2) \o Applied(tok.t, s[n - 1], s[n])

eval_postfix ==
  LET s == FoldLeft(Stepped, <<>>, output) IN
    /\ step = "eval_postfix" /\ step' = "over"
    /\ result' = IF Len(s) = 1 THEN s[1] ELSE Error
    /\ UNCHANGED <<expr, output>>

CalcNext == to_postfix \/ eval_postfix
------------------------------------------------------------------------------
Undefined == [ok |-> FALSE, none |-> TRUE]
Depth(e, i) == Cardinality({k \in 1..i : e[k].t = "("}) - Cardinality({k \in 1..i : e[k].t = ")"})

\* The value of an expression: the last operator outside of parentheses, of the weakest
\* kind there is, splits it.  Undefined where the grammar has no such expression.
RECURSIVE Value(_)
Value(e) ==
  LET at(S) == {i \in DOMAIN e : e[i].t \in S /\ Depth(e, i) = 0}
      cut == IF at({"-"}) /= {} THEN at({"-"}) ELSE at({"/"})
      k == CHOOSE i \in cut : \A j \in cut : j <= i
      a == Value(SubSeq(e, 1, k - 1))
      b == Value(SubSeq(e, k + 1, Len(e)))
  IN IF e = <<>> \/ \E i \in DOMAIN e : e[i].t = "x" THEN Undefined
     ELSE IF cut /= {} THEN
       IF Undefined \in {a, b} THEN Undefined
       ELSE IF Error \in {a, b} \/ (e[k].t = "/" /\ b.n = 0) THEN Error
       ELSE Applied(e[k].t, a, b)[1]
     ELSE IF Len(e) = 1 THEN IF e[1].t = "num" THEN Val(e[1].v, 1) ELSE Undefined
     ELSE IF Len(e) > 2 /\ e[1].t = "(" /\ Last(e).t = ")"
             /\ \A i \in 1..Len(e) - 1 : Depth(e, i) > 0 THEN Value(Tail(Front(e)))
     ELSE Undefined

Equal(v, w) == v.ok = w.ok /\ (v.ok => v.n * w.d = w.n * v.d)

\* An expression of the grammar gets its value, or the error of a division by zero;
\* and whatever else of known operators gets a value has its parentheses in pairs.
ValueKept ==
  step = "over" =>
    /\ Value(expr) /= Undefined => Equal(result, Value(expr))
    /\ result.ok /\ (\A i \in DOMAIN expr : expr[i].t /= "x") =>
         Depth(expr, Len(expr)) = 0 /\ \A i \in DOMAIN expr : Depth(expr, i) >= 0

------------------------------------------------------------------------------
(***************************************************************************)
(* c-beginner-practice/sorting.c: three sorts of an array of ints, a step  *)
(* per turn of the inner loop.  Indices are from 0, as in the source.      *)
(***************************************************************************)
CONSTANTS SortValues, SortLength    \* bound: elements

VARIABLES sort, input, sort_n, sort_a, sort_i, sort_j, min_idx, key
sort_vars == <<sort, input, sort_n, sort_a, sort_i, sort_j, min_idx, key>>

SortInit ==
  /\ sort \in {"bubble", "selection", "insertion"}
  /\ input \in BoundedSeq(SortValues, SortLength) /\ sort_n = Len(input)
  /\ sort_a = [k \in 0..sort_n - 1 |-> input[k + 1]]
  /\ sort_i = (IF sort = "insertion" THEN 1 ELSE 0)
  /\ sort_j = -9 /\ min_idx = 0 /\ key = 0

Outer == sort_i < sort_n - (IF sort = "insertion" THEN 0 ELSE 1)
Swapped(x, y) == [sort_a EXCEPT ![x] = sort_a[y], ![y] = sort_a[x]]

Start ==               \* a turn of the outer loop
  /\ Outer /\ sort_j = -9
  /\ sort_j' = CASE sort = "bubble" -> 0 [] sort = "selection" -> sort_i + 1 [] OTHER -> sort_i - 1
  /\ min_idx' = sort_i
  /\ key' = IF sort = "insertion" THEN sort_a[sort_i] ELSE 0
  /\ UNCHANGED <<sort, input, sort_n, sort_a, sort_i>>

Turn == sort_j /= -9 /\ UNCHANGED <<sort, input, sort_n>>

bubble_sort ==
  /\ sort = "bubble" /\ Turn
  /\ IF sort_j < sort_n - 1 - sort_i
       THEN /\ sort_a' = IF sort_a[sort_j] > sort_a[sort_j + 1] THEN Swapped(sort_j, sort_j + 1) ELSE sort_a
            /\ sort_j' = sort_j + 1 /\ UNCHANGED sort_i
       ELSE sort_i' = sort_i + 1 /\ sort_j' = -9 /\ UNCHANGED sort_a
  /\ UNCHANGED <<min_idx, key>>

selection_sort ==
  /\ sort = "selection" /\ Turn
  /\ IF sort_j < sort_n
       THEN /\ min_idx' = IF sort_a[sort_j] < sort_a[min_idx] THEN sort_j ELSE min_idx
            /\ sort_j' = sort_j + 1 /\ UNCHANGED <<sort_a, sort_i>>
       ELSE sort_a' = Swapped(sort_i, min_idx) /\ sort_i' = sort_i + 1 /\ sort_j' = -9 /\ UNCHANGED min_idx
  /\ UNCHANGED key

insertion_sort ==      \* j is tested before the element at it is looked at
  /\ sort = "insertion" /\ Turn
  /\ IF sort_j >= 0 /\ sort_a[sort_j] > key
       THEN sort_a' = [sort_a EXCEPT ![sort_j + 1] = sort_a[sort_j]] /\ sort_j' = sort_j - 1 /\ UNCHANGED sort_i
       ELSE sort_a' = [sort_a EXCEPT ![sort_j + 1] = key] /\ sort_i' = sort_i + 1 /\ sort_j' = -9
  /\ UNCHANGED <<min_idx, key>>

SortNext == Start \/ bubble_sort \/ selection_sort \/ insertion_sort
------------------------------------------------------------------------------
SortCount(v) == Cardinality({k \in DOMAIN sort_a : sort_a[k] = v})
InPlace(k) == \A x, y \in 0..sort_n - 1 : x < y /\ k \in {x, y} => sort_a[x] <= sort_a[y]

\* Between two turns of the outer loop the elements are the ones that were given; as
\* many as there were turns are where they belong, at the end, at the front, or among
\* themselves; and so all are when the loop is over.
ArrayKept ==
  sort_j = -9 =>
         /\ \A v \in SortValues : SortCount(v) = Cardinality({k \in DOMAIN input : input[k] = v})
         /\ CASE sort = "bubble" -> \A k \in sort_n - sort_i..sort_n - 1 : InPlace(k)
              [] sort = "selection" -> \A k \in 0..sort_i - 1 : k < sort_n => InPlace(k)
              [] OTHER -> \A x, y \in 0..sort_i - 1 : x < y /\ y < sort_n => sort_a[x] <= sort_a[y]
         /\ ~Outer => \A k \in 0..sort_n - 1 : InPlace(k)

------------------------------------------------------------------------------
(***************************************************************************)
(* cpp-beginner-practice/cli_tool.cpp: parse_args, argument by argument,   *)
(* against what the whole command line says.                               *)
(***************************************************************************)
CONSTANT CliLength        \* bound: arguments

\* The options in their short and long forms, a number, one with more behind it that
\* stoi reads as well, a negative one, an unknown option, and two file names.
Args == {"-h", "-v", "-c", "3", "4x", "-5", "-q", "-", "f"}
Number == [a \in {"3", "4x", "-5"} |-> CASE a = "3" -> 3 [] a = "4x" -> 4 [] a = "-5" -> -5]
is_option(a) == a \in {"-h", "-v", "-c", "-5", "-q"}

VARIABLES args, cli_i, verbose, count, files, out
cli_vars == <<args, cli_i, verbose, count, files, out>>

CliInit ==
  /\ args \in BoundedSeq(Args, CliLength) /\ cli_i = 1
  /\ verbose = FALSE /\ count = 1 /\ files = <<>> /\ out = "parsing"

More == out = "parsing" /\ cli_i <= Len(args)

Give_up(why) == /\ out' = why /\ UNCHANGED <<args, cli_i, verbose, count, files>>

Help == More /\ args[cli_i] = "-h" /\ Give_up("help")

Verbose == /\ More /\ args[cli_i] = "-v" /\ verbose' = TRUE /\ cli_i' = cli_i + 1
           /\ UNCHANGED <<args, count, files, out>>

\* The next argument is its value, whatever it looks like.
CliCount ==
  /\ More /\ args[cli_i] = "-c"
  /\ IF cli_i = Len(args) THEN Give_up("no value")
     ELSE IF args[cli_i + 1] \notin DOMAIN Number THEN Give_up("no number")
     ELSE /\ count' = Number[args[cli_i + 1]] /\ cli_i' = cli_i + 2
          /\ UNCHANGED <<args, verbose, files, out>>

Unknown == More /\ is_option(args[cli_i]) /\ args[cli_i] \notin {"-h", "-v", "-c"} /\ Give_up("unknown")

File == /\ More /\ ~is_option(args[cli_i]) /\ files' = Append(files, args[cli_i]) /\ cli_i' = cli_i + 1
        /\ UNCHANGED <<args, verbose, count, out>>

Parsed ==              \* main goes on, or has no files to go on with
  /\ out = "parsing" /\ cli_i > Len(args)
  /\ out' = IF files = <<>> THEN "no files" ELSE "runs"
  /\ UNCHANGED <<args, cli_i, verbose, count, files>>

CliNext == Help \/ Verbose \/ CliCount \/ Unknown \/ File \/ Parsed
------------------------------------------------------------------------------
\* An argument is a value if an odd number of -c stand right before it.
IsValue(k) == \E m \in 0..k - 2 :
  /\ m % 2 = 0 /\ \A x \in k - 1 - m..k - 1 : args[x] = "-c"
  /\ k - 2 - m >= 1 => args[k - 2 - m] /= "-c"
Taken(a) == {k \in DOMAIN args : args[k] = a /\ ~IsValue(k)}
CliValues == {k \in DOMAIN args : IsValue(k)}

\* The program runs on the arguments that are neither options nor values, in their
\* order and each once, with the last count that was given; it does so unless help
\* was asked for, an option is unknown, or a count has no number.
LineKept ==
  /\ out = "runs" =>
       /\ files = [k \in 1..Len(files) |-> args[
            CHOOSE x \in DOMAIN args : /\ ~is_option(args[x]) /\ ~IsValue(x)
              /\ k = Cardinality({y \in 1..x : ~is_option(args[y]) /\ ~IsValue(y)})]]
       /\ Len(files) = Cardinality({x \in DOMAIN args : ~is_option(args[x]) /\ ~IsValue(x)})
       /\ verbose = (Taken("-v") /= {})
       /\ count = IF CliValues = {} THEN 1
                  ELSE Number[args[CHOOSE x \in CliValues : \A y \in CliValues : y <= x]]
  /\ out \notin {"parsing", "runs", "no files"} =>
       \/ Taken("-h") \cup Taken("-q") \cup Taken("-5") /= {}
       \/ \E k \in Taken("-c") : k = Len(args) \/ args[k + 1] \notin DOMAIN Number

------------------------------------------------------------------------------
(***************************************************************************)
(* c-beginner-practice/text_stats.c, which counts as wc does, character by *)
(* character, and cpp-beginner-practice/word_count.cpp, which counts each  *)
(* word without its punctuation and lists the most frequent.               *)
(***************************************************************************)
CONSTANT WordLength             \* bound: characters

Lower == [word_c \in {"a", "A", "b"} |-> IF word_c = "A" THEN "a" ELSE word_c]
Characters == DOMAIN Lower \cup {"!", " ", "\n"}
isspace(word_c) == word_c \in {" ", "\n"}
Rank == [word_c \in {"a", "b"} |-> IF word_c = "a" THEN 1 ELSE 2]

VARIABLES text, word_c, chars, lines, words, in_word,   \* text_stats
          freq, top_n, items                       \* word_count
word_vars == <<text, word_c, chars, lines, words, in_word, freq, top_n, items>>

WordInit ==
  /\ text \in BoundedSeq(Characters, WordLength) /\ top_n \in {-1, 0, 1, 10}
  /\ word_c = 1 /\ chars = 0 /\ lines = 0 /\ words = 0 /\ in_word = 0
  /\ freq = <<>> /\ items = <<>>

fgetc ==
  /\ word_c <= Len(text) /\ word_c' = word_c + 1
  /\ chars' = chars + 1
  /\ lines' = IF text[word_c] = "\n" THEN lines + 1 ELSE lines
  /\ in_word' = IF isspace(text[word_c]) THEN 0 ELSE 1
  /\ words' = IF ~isspace(text[word_c]) /\ in_word = 0 THEN words + 1 ELSE words
  /\ UNCHANGED <<text, freq, top_n, items>>

Counted(f, w) == IF w = <<>> THEN f
                 ELSE [x \in DOMAIN f \cup {w} |-> (IF x \in DOMAIN f THEN f[x] ELSE 0)
                                                  + (IF x = w THEN 1 ELSE 0)]

clean(s, ch) == IF isspace(ch) THEN [f |-> Counted(s.f, s.w), w |-> <<>>]
                ELSE IF ch = "!" THEN s ELSE [s EXCEPT !.w = Append(@, Lower[ch])]

count_words ==         \* the end of the file is the end of the last word
  /\ word_c = Len(text) + 1 /\ word_c' = word_c + 1
  /\ freq' = FoldLeft(clean, [f |-> <<>>, w |-> <<>>], Append(text, "\n")).f
  /\ UNCHANGED <<text, chars, lines, words, in_word, top_n, items>>

Less(v, w) ==          \* of two words, as the library compares strings
  \/ IsStrictPrefix(v, w)
  \/ \E k \in DOMAIN v \cap DOMAIN w : /\ SubSeq(v, 1, k - 1) = SubSeq(w, 1, k - 1)
                                       /\ Rank[v[k]] < Rank[w[k]]
Before(v, w) == freq[v] > freq[w] \/ (freq[v] = freq[w] /\ Less(v, w))

List ==                \* the order is total, so that the sort has one result
  /\ word_c = Len(text) + 2 /\ word_c' = word_c + 1
  /\ items' = SubSeq(SetToSortSeq(DOMAIN freq, Before), 1,
                     Min({top_n, Cardinality(DOMAIN freq)}))
  /\ UNCHANGED <<text, chars, lines, words, in_word, freq, top_n>>

WordNext == fgetc \/ count_words \/ List
------------------------------------------------------------------------------
\* The words of a text, as the places where they begin and end.
Words == {k \in (1..Len(text)) \X (1..Len(text)) :
            /\ k[1] <= k[2] /\ \A x \in k[1]..k[2] : ~isspace(text[x])
            /\ k[1] > 1 => isspace(text[k[1] - 1])
            /\ k[2] < Len(text) => isspace(text[k[2] + 1])}
Bare(k) == SelectSeq(SubSeq(text, k[1], k[2]), LAMBDA x : x /= "!")

\* Both programs see the words of the text: the one counts all of them, the other each as
\* often as it is there, whatever its case and its punctuation; and nothing that
\* is left off the list would have come before what is on it.
TextKept ==
  /\ word_c > Len(text) =>
            /\ words = Cardinality(Words) /\ chars = Len(text)
            /\ lines = Cardinality({k \in DOMAIN text : text[k] = "\n"})
  /\ word_c = Len(text) + 3 =>
            /\ words = MapThenSumSet(LAMBDA w : freq[w], DOMAIN freq)
                       + Cardinality({k \in Words : Bare(k) = <<>>})
            /\ \A w \in DOMAIN freq : freq[w] = Cardinality({k \in Words :
                 Len(Bare(k)) = Len(w) /\ \A x \in DOMAIN w : Lower[Bare(k)[x]] = w[x]})
            /\ Len(items) = Max({0, Min({top_n, Cardinality(DOMAIN freq)})})
            /\ \A w \in DOMAIN freq \ ToSet(items) : \A x \in ToSet(items) :
                 freq[x] > freq[w] \/ (freq[x] = freq[w] /\ Less(x, w))
==============================================================================
