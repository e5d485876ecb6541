-------------------------------- MODULE Records --------------------------------
(***************************************************************************)
(* The practice programs that keep records.                                *)
(***************************************************************************)
EXTENDS Integers, SequencesExt

------------------------------------------------------------------------------
(***************************************************************************)
(* c-beginner-practice/student_mgmt.c: a table of students, its file, and  *)
(* runs of the program that may be killed while they save.  A score is in  *)
(* hundredths, and the file holds it to one decimal.  Text that leaves the *)
(* library in pieces is cut between two lines here.                        *)
(***************************************************************************)
CONSTANTS MAX, Ids, Scores,
          StuMaxOps       \* bound: choices made, over all runs of the program

NoFile == <<-1>>
Blank == [id |-> 0, score |-> 0]

Rows(t) == [s \in ToSet(t) |-> Cardinality({i \in DOMAIN t : t[i] = s})]

VARIABLES students, count,      \* the table, of which the first count are in use
          DB_FILE,              \* a line with the count, then one per student
          saving,               \* the table has been opened for writing
          stu_ops, stu_want, kept, torn \* history: what should be in use and in the file
stu_vars == <<students, count, DB_FILE, saving, stu_ops, stu_want, kept, torn>>

StuInit ==
  /\ students = [i \in 1..MAX |-> Blank] /\ count = 0
  /\ DB_FILE = NoFile /\ saving = FALSE
  /\ stu_ops = 0 /\ stu_want = EmptyBag /\ kept = EmptyBag /\ torn = FALSE

Choice == ~saving /\ stu_ops < StuMaxOps /\ stu_ops' = stu_ops + 1

add_student ==
  /\ Choice /\ count < MAX
  /\ \E s \in [id : Ids, score : Scores] :
       /\ students' = [students EXCEPT ![count + 1] = s]
       /\ stu_want' = stu_want (+) SetToBag({s})
  /\ count' = count + 1
  /\ UNCHANGED <<DB_FILE, saving, kept, torn>>

\* A line that scanf leaves half way has written the number beyond the table.
stu_add_bad ==
  /\ Choice /\ count < MAX
  /\ \E i \in Ids : students' = [students EXCEPT ![count + 1].id = i]
  /\ UNCHANGED <<count, DB_FILE, saving, stu_want, kept, torn>>

find_index(id) == SelectInSubSeq(students, 1, count, LAMBDA s : s.id = id)

\* The last one takes the place of the one that goes.
Moved(i) == [students EXCEPT ![i] = students[count]]

delete_student ==      \* an id that is not a number leaves the variable as it was
  \E id \in Ids :
    /\ Choice /\ find_index(id) > 0
    /\ stu_want' = stu_want (-) SetToBag({students[find_index(id)]})
    /\ students' = Moved(find_index(id)) /\ count' = count - 1
    /\ UNCHANGED <<DB_FILE, saving, kept, torn>>

Tenth(x) == ((x + 5) \div 10) * 10
Written(s) == [s EXCEPT !.score = Tenth(@)]
Lines == <<count>> \o [i \in 1..count |-> Written(students[i])]

save_to_file ==        \* "w": what was in the file is gone before a line is written
  /\ Choice
  /\ DB_FILE' = <<>> /\ saving' = TRUE
  /\ UNCHANGED <<students, count, stu_want, kept, torn>>

Saved ==               \* fclose
  /\ saving
  /\ DB_FILE' = Lines /\ saving' = FALSE
  /\ kept' = BagOfAll(Written, stu_want) /\ torn' = FALSE
  /\ UNCHANGED <<students, count, stu_ops, stu_want>>

\* A file that was cut short: the count is the old one or the file's, and the lines that
\* are missing leave what the table held before.
load_from_file ==
  /\ Choice /\ DB_FILE /= NoFile
  /\ LET n == IF DB_FILE = <<>> THEN count ELSE Head(DB_FILE) IN
       /\ count' = n
       /\ students' = [i \in 1..MAX |-> IF i <= n /\ i < Len(DB_FILE) THEN DB_FILE[i + 1]
                                                                     ELSE students[i]]
       /\ stu_want' = IF torn THEN Rows(SubSeq(students', 1, n)) ELSE kept
  /\ UNCHANGED <<DB_FILE, saving, kept, torn>>

\* The run ends, by choice or by a signal amid a save, and the next one begins.
Restart ==
  /\ stu_ops < StuMaxOps
  /\ students' = [i \in 1..MAX |-> Blank] /\ count' = 0 /\ stu_want' = EmptyBag
  /\ IF saving THEN /\ \E n \in 0..Len(Lines) : DB_FILE' = SubSeq(Lines, 1, n)
                    /\ torn' = TRUE
               ELSE UNCHANGED <<DB_FILE, torn>>
  /\ saving' = FALSE
  /\ UNCHANGED <<stu_ops, kept>>

StuNext == \/ add_student \/ stu_add_bad \/ delete_student \/ save_to_file \/ Saved
           \/ load_from_file \/ Restart
------------------------------------------------------------------------------
\* The table holds what was added to it, or loaded, and not deleted: a load after a
\* save that was finished brings back what was saved, to one decimal, whatever runs
\* and bad lines came between.  Only a file that a killed save cut short loads rows
\* that nobody saved.
TableKept ==
  /\ count \in 0..MAX
  /\ Rows(SubSeq(students, 1, count)) = stu_want
  /\ ~torn /\ ~saving => DB_FILE = NoFile \/ Rows(Tail(DB_FILE)) = kept

------------------------------------------------------------------------------
(***************************************************************************)
(* cpp-beginner-practice/book_mgmt.cpp and grade_system.cpp: a menu over a *)
(* vector of records.  std::sort keeps no order among equal keys, so that  *)
(* each order it may leave is one the program may go on with.  A student   *)
(* has one mark here, which is the total as well.                          *)
(***************************************************************************)
CONSTANTS Titles, Keys,    \* a name, and what sorting goes by: a price, a mark, a total
          BookMaxOps           \* bound: choices of a run

Programs == {"books", "grades"}
Record == [title : Titles, key : Keys]

VARIABLES prog, rows,      \* books_ or students_
          choice, bad,     \* the last choice; the input has failed for good
          shown,           \* what the last choice reported
          book_ops, added       \* history: choices, and the records there should be
book_vars == <<prog, rows, choice, bad, shown, book_ops, added>>

BookInit ==
  /\ prog \in Programs /\ rows = <<>>
  /\ choice = 5 /\ bad = FALSE /\ shown = <<>>
  /\ book_ops = 0 /\ added = <<>>

\* cin gives each choice, until an entry that is no number: cin stays failed then, no
\* variable is written any more, and the loop goes on with what it has.
Menu(c) == /\ book_ops < BookMaxOps /\ book_ops' = book_ops + 1
           /\ choice' = c /\ (bad => c = choice)
           /\ UNCHANGED prog

add(r) == /\ Menu(1) /\ ~bad
          /\ rows' = Append(rows, r) /\ added' = Append(added, r)
          /\ shown' = <<>> /\ UNCHANGED bad

\* The price or a mark is not a number: a record is added whose numbers were never read,
\* and one more of that name by each turn of the loop from now on.
book_add_bad(r) == /\ Menu(1)
                   /\ bad' = TRUE
                   /\ rows' = Append(rows, IF bad THEN Last(rows) ELSE r)
                   /\ added' = Append(added, Last(rows'))
                   /\ shown' = <<>>

First(t) == SelectInSeq(rows, LAMBDA r : r.title = t)

remove(t) ==
  /\ Menu(2) /\ prog = "books" /\ ~bad
  /\ IF First(t) = 0 THEN shown' = <<>> /\ UNCHANGED <<rows, added>>
     ELSE /\ shown' = <<rows[First(t)]>>
          /\ rows' = RemoveAt(rows, First(t))
          /\ added' = RemoveFirst(added, rows[First(t)])
  /\ UNCHANGED bad

find(t) ==             \* books 3, grades 5
  /\ Menu(IF prog = "books" THEN 3 ELSE 5) /\ ~bad
  /\ shown' = (IF First(t) = 0 THEN <<>> ELSE <<rows[First(t)]>>)
  /\ UNCHANGED <<rows, bad, added>>

\* By price upwards; by a subject or by the total downwards.
Before(a, b) == IF prog = "books" THEN a.key < b.key ELSE a.key > b.key

sort ==                \* books 4, grades 2 and 3
  /\ Menu(IF prog = "books" THEN 4 ELSE 2) /\ ~bad
  /\ \E f \in Permutations(DOMAIN rows) :
       /\ \A i, j \in DOMAIN rows : i < j => ~Before(rows[f[j]], rows[f[i]])
       /\ rows' = [i \in DOMAIN rows |-> rows[f[i]]]
  /\ shown' = rows' /\ UNCHANGED <<bad, added>>

Stats(t) == [c \in {"good", "pass", "fail"} |-> Cardinality({i \in DOMAIN t :
              c = CASE t[i].key >= 270 -> "good" [] t[i].key \in 180..269 -> "pass"
                    [] OTHER -> "fail"})]

segment_stats ==       \* grades 4
  /\ Menu(4) /\ prog = "grades" /\ ~bad
  /\ shown' = <<Stats(rows)>>
  /\ UNCHANGED <<rows, bad, added>>

BookNext == \/ \E r \in Record : add(r) \/ book_add_bad(r)
            \/ \E t \in Titles : remove(t) \/ find(t)
            \/ sort \/ segment_stats
------------------------------------------------------------------------------
Bag(s) == [r \in ToSet(s) |-> Cardinality({i \in DOMAIN s : s[i] = r})]

\* The shelf holds each record as often as it was added and not removed, however it was
\* sorted in between; what a search shows is one of them; a sorted shelf is shown in
\* order; and each record counts in one band.
ShelfKept ==
  /\ Bag(rows) = Bag(added)
  /\ choice = (IF prog = "books" THEN 3 ELSE 5) /\ ~bad => ToSet(shown) \subseteq ToSet(added)
  /\ choice = (IF prog = "books" THEN 4 ELSE 2) /\ book_ops > 0 =>
       /\ Bag(shown) = Bag(added)
       /\ \A i, j \in DOMAIN shown : i < j => ~Before(shown[j], shown[i])
  /\ choice = 4 /\ prog = "grades" =>
       shown[1]["good"] + shown[1]["pass"] + shown[1]["fail"] = Len(added)

------------------------------------------------------------------------------
(***************************************************************************)
(* Two linked lists: c-beginner-practice/linked_list.c, whose nodes come   *)
(* from malloc and are freed by hand, and cpp-beginner-practice/           *)
(* linked_list.cpp, whose nodes own each other.  Taking a list apart goes  *)
(* node by node in both.                                                   *)
(***************************************************************************)
CONSTANTS Nodes,       \* the addresses malloc may return
          Values,
          ListMaxOps       \* bound: calls

NULL == 0

VARIABLES lang, head,
          heap,        \* the allocated nodes
          at, p, next, \* where the list is being taken apart
          depth,       \* destructors that are running inside one another
          list_ops, list_want    \* history: calls, and the list they should have made
list_vars == <<lang, head, heap, at, p, next, depth, list_ops, list_want>>

ListInit ==
  /\ lang \in {"c", "c++"}
  /\ head = NULL /\ heap = <<>>
  /\ at = "call" /\ p = NULL /\ next = NULL /\ depth = 0
  /\ list_ops = 0 /\ list_want = <<>>

Call == /\ at = "call" /\ list_ops < ListMaxOps /\ list_ops' = list_ops + 1
        /\ UNCHANGED <<lang, at, p, next, depth>>

\* The nodes from a node on, in their order.
Chain(n) ==
  LET c[k \in 0..Cardinality(Nodes)] ==
        IF k = 0 THEN <<n>>
        ELSE IF Last(c[k - 1]) \notin DOMAIN heap THEN c[k - 1]
        ELSE Append(c[k - 1], heap[Last(c[k - 1])].next)
  IN Front(c[Cardinality(Nodes)])
Data(c) == [i \in DOMAIN c |-> heap[c[i]].data]

\* malloc and make_unique; without memory the one returns the list as it was, and the
\* other throws, which nobody catches.
Fresh(v, after) == \E n \in Nodes \ DOMAIN heap :
  LET grown == [a \in DOMAIN heap \cup {n} |->
                  IF a = n THEN [data |-> v, next |-> after] ELSE heap[a]]
      last == Last(Chain(head))
  IN IF after /= NULL \/ head = NULL THEN heap' = grown /\ head' = n
     ELSE heap' = [grown EXCEPT ![last].next = n] /\ UNCHANGED head

push_front(v) == /\ Call /\ Fresh(v, head)
                 /\ list_want' = <<v>> \o list_want

\* In C++ the new node is moved into the last one's owner.
push_back(v) == /\ Call /\ Fresh(v, NULL)
                /\ list_want' = Append(list_want, v)

no_memory == /\ Call /\ lang = "c" /\ UNCHANGED <<head, heap, list_want>>

Without(n) == [a \in DOMAIN heap \ {n} |-> heap[a]]

delete_value(v) ==
  LET c == Chain(head)
      i == SelectInSeq(c, LAMBDA n : heap[n].data = v)
  IN /\ lang = "c" /\ Call
     /\ IF i = 0 THEN UNCHANGED <<head, heap, list_want>>
        ELSE /\ list_want' = RemoveAt(list_want, i)
             /\ IF i = 1 THEN head' = heap[c[1]].next /\ heap' = Without(c[1])
                ELSE /\ heap' = [Without(c[i]) EXCEPT ![c[i - 1]].next = heap[c[i]].next]
                     /\ UNCHANGED head

\* free_list, and the destructor of the list: from the head on.
TakeApart == /\ at = "call" /\ at' = "loop" /\ p' = head /\ list_want' = <<>>
             /\ UNCHANGED <<lang, head, heap, next, depth, list_ops>>

\* Mutant: the node is freed before its successor is remembered.
Remember_Freed ==
  /\ lang = "c" /\ at = "loop" /\ p /= NULL
  /\ heap' = Without(p) /\ at' = "free"
  /\ next' = IF p \in DOMAIN heap' THEN heap[p].next ELSE NULL
  /\ UNCHANGED <<lang, head, p, depth, list_ops, list_want>>

Remember == /\ lang = "c" /\ at = "loop" /\ p /= NULL
            /\ next' = heap[p].next /\ at' = "free"
            /\ UNCHANGED <<lang, head, heap, p, depth, list_ops, list_want>>

Free == /\ lang = "c" /\ at = "free"
        /\ heap' = Without(p) /\ p' = next /\ at' = "loop"
        /\ UNCHANGED <<lang, head, next, depth, list_ops, list_want>>

\* head_ = std::move(head_->next): the successor is released from the node first, and
\* so the destructor of the node finds nothing to destroy in its turn.
Shift == /\ lang = "c++" /\ at = "loop" /\ head /= NULL
         /\ next' = heap[head].next /\ p' = head /\ at' = "destroy" /\ depth' = 1
         /\ heap' = [heap EXCEPT ![head].next = NULL] /\ head' = next'
         /\ UNCHANGED <<lang, list_ops, list_want>>

\* ~Node destroys what the node owns, inside of it, and only then is the node gone.
DestroyNode == /\ at = "destroy"
               /\ IF heap[p].next /= NULL
                    THEN /\ depth' = depth + 1 /\ p' = heap[p].next
                         /\ UNCHANGED <<heap, at>>
                    ELSE /\ heap' = Without(p) /\ at' = "loop" /\ depth' = 0 /\ UNCHANGED p
               /\ UNCHANGED <<lang, head, next, list_ops, list_want>>

Over == /\ at = "loop" /\ (IF lang = "c" THEN p ELSE head) = NULL
        /\ at' = "over" /\ head' = NULL
        /\ UNCHANGED <<lang, heap, p, next, depth, list_ops, list_want>>

ListNext == \/ \E v \in Values : push_front(v) \/ push_back(v) \/ delete_value(v)
            \/ no_memory \/ TakeApart \/ Remember \/ Free \/ Shift \/ DestroyNode \/ Over
------------------------------------------------------------------------------
\* The chain from the head is the list that the calls made; no node is lost on the way,
\* in any order of calls, nor when the list is taken apart, which reads no node that
\* is gone and runs no destructor inside of another.
ListKept ==
  /\ at = "call" => /\ Data(Chain(head)) = list_want
                    /\ DOMAIN heap = ToSet(Chain(head))
  /\ at = "loop" => DOMAIN heap = ToSet(Chain(IF lang = "c" THEN p ELSE head))
  /\ at = "free" => p \in DOMAIN heap
  /\ at = "over" => heap = <<>>
  /\ depth <= 1
==============================================================================
