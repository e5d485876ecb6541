-------------------------------- MODULE Waits --------------------------------
(***************************************************************************)
(* Two ways to wait for another thread or for a signal.                    *)
(***************************************************************************)
EXTENDS Integers

------------------------------------------------------------------------------
(***************************************************************************)
(* experiments/busy-wait-vs-sleep: main and one thread pass a flag to and  *)
(* fro, spinning on an atomic, or under a mutex with one condition         *)
(* variable for both directions.                                           *)
(***************************************************************************)
CONSTANT ITERATIONS

Both == {"main", "thread"}
Raised(p) == p = "main"             \* main raises the flag and the thread lowers it
Nobody == "none"

VARIABLES way, flag, mtx, waiting, at, turns
ping_vars == <<way, flag, mtx, waiting, at, turns>>

PingInit ==
  /\ way \in {"busy", "sleep"}
  /\ flag = FALSE /\ mtx = Nobody /\ waiting = {}
  /\ at = [p \in Both |-> IF way = "sleep" THEN "lock" ELSE IF p = "main" THEN "set" ELSE "wait"]
  /\ turns = [p \in Both |-> 0]

Goto(p, l) == at' = [at EXCEPT ![p] = l]

\* The flag's value p waits for: main for low, the thread for high.
Mine(p) == flag /= Raised(p)

Lock(p) ==             \* the unique_lock, or the way out of wait
  /\ at[p] \in {"lock", "relock"} /\ mtx = Nobody
  /\ mtx' = p
  /\ Goto(p, IF p = "main" /\ at[p] = "lock" THEN "set" ELSE "wait")
  /\ UNCHANGED <<way, flag, waiting, turns>>

AfterTurn(p) ==
  /\ turns' = [turns EXCEPT ![p] = @ + 1]
  /\ Goto(p, IF turns'[p] = ITERATIONS THEN IF way = "busy" THEN "end" ELSE "leave"
             ELSE IF p = "main" THEN "set" ELSE "wait")

Set(p) ==              \* main raises the flag and notifies whoever waits
  /\ p = "main" /\ at[p] = "set"
  /\ flag' = TRUE /\ Goto(p, "wait")
  /\ waiting' = {}
  /\ UNCHANGED <<way, mtx, turns>>

\* What p waited for has come: main's turn is over; the thread lowers the flag.
Passed(p) ==
  /\ at[p] = "wait" /\ Mine(p)
  /\ AfterTurn(p)
  /\ flag' = FALSE
  /\ waiting' = IF p = "thread" THEN {} ELSE waiting
  /\ UNCHANGED <<way, mtx>>

Block(p) ==            \* wait gives the mutex up and sleeps in one step
  /\ way = "sleep" /\ at[p] = "wait" /\ ~Mine(p)
  /\ waiting' = waiting \cup {p} /\ mtx' = Nobody /\ Goto(p, "asleep")
  /\ UNCHANGED <<way, flag, turns>>

Wake(p) ==             \* notified
  /\ at[p] = "asleep" /\ p \notin waiting
  /\ Goto(p, "relock")
  /\ UNCHANGED <<way, flag, mtx, waiting, turns>>

Spurious(p) ==         \* or for no reason
  /\ at[p] = "asleep" /\ p \in waiting
  /\ waiting' = waiting \ {p}
  /\ UNCHANGED <<way, flag, mtx, at, turns>>

Leave(p) ==            \* the thread's lock goes; main's is held until after the join
  /\ at[p] = "leave"
  /\ IF p = "thread" THEN mtx' = Nobody ELSE at["thread"] = "end" /\ UNCHANGED mtx
  /\ Goto(p, "end")
  /\ UNCHANGED <<way, flag, waiting, turns>>

Runs(p) == Lock(p) \/ Set(p) \/ Passed(p) \/ Block(p) \/ Wake(p) \/ Leave(p)
PingNext == \E p \in Both : Runs(p) \/ Spurious(p)

PingSpec == PingInit /\ [][PingNext]_ping_vars
------------------------------------------------------------------------------
\* The thread is a turn ahead exactly while main waits with the flag lowered, and else
\* they are level; the two never sleep at the same time, nobody sleeps while the other
\* has left, and main joins under the lock only a thread that needs it no more.
Alternate ==
  /\ turns["thread"] = IF at["main"] \in {"wait", "asleep", "relock"} /\ ~flag
                       THEN turns["main"] + 1 ELSE turns["main"]
  /\ waiting /= Both
  /\ at["thread"] \in {"leave", "end"} => "main" \notin waiting
  /\ at["main"] = "leave" => at["thread"] \in {"leave", "end"}

------------------------------------------------------------------------------
(***************************************************************************)
(* signals-demos/alarm_demo.c: read_with_timeout, a read that an alarm is  *)
(* to interrupt.                                                           *)
(***************************************************************************)
VARIABLES step, alarm, input, result,
          rang               \* history: what the alarm found
timed_vars == <<step, alarm, input, result, rang>>

TimedInit ==
  /\ step = "sigaction" /\ alarm = "off" /\ input = FALSE /\ result = "none"
  /\ rang = "never"

Sigaction ==           \* without SA_RESTART
  /\ step = "sigaction" /\ step' = "alarm"
  /\ UNCHANGED <<alarm, input, result, rang>>

Alarm == /\ step = "alarm" /\ step' = "call" /\ alarm' = "set"
         /\ UNCHANGED <<input, result, rang>>

Call == /\ step = "call" /\ step' = "read"
        /\ UNCHANGED <<alarm, input, result, rang>>

Data == /\ step = "read" /\ input
        /\ step' = "cancel" /\ result' = "data"
        /\ UNCHANGED <<alarm, input, rang>>

Waiting == step = "read" /\ ~input

\* The clock: the handler does nothing, and so only a read that waits is interrupted;
\* one that can return what was typed does so.
Ring == /\ alarm = "set" /\ alarm' = "gone"
        /\ rang' = IF Waiting THEN "waiting" ELSE step
        /\ IF Waiting THEN step' = "cancel" /\ result' = "timeout"
                      ELSE UNCHANGED <<step, result>>
        /\ UNCHANGED input

Cancel == /\ step = "cancel" /\ step' = "done" /\ alarm' = "off"
          /\ UNCHANGED <<input, result, rang>>

Typed == /\ ~input /\ input' = TRUE /\ UNCHANGED <<step, alarm, result, rang>>

ReadStep == Sigaction \/ Alarm \/ Call \/ Data \/ Cancel
TimedNext == ReadStep \/ Ring \/ Typed

TimedSpec == TimedInit /\ [][TimedNext]_timed_vars
------------------------------------------------------------------------------
\* The alarm went off before the read began to wait: nothing interrupts it now.
Missed == Waiting /\ alarm = "gone"

\* Nothing rings once the function has returned.  A read has timed out exactly when the
\* alarm found it waiting in vain, and not when it rang before the read or after it;
\* else it has what was typed.
TimeoutIsOver ==
  /\ step = "done" => alarm = "off" /\ result /= "none"
  /\ result = "timeout" <=> rang = "waiting"
  /\ result = "data" => input
==============================================================================
