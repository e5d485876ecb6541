--------------------------- MODULE Programs_proofs ---------------------------
(***************************************************************************)
(* The programs that run side by side: those that take turns, for any      *)
(* number of turns, items, signals and steps; undo, the saver, the keys,   *)
(* the modes, the viewport and the command line of the editor, for any     *)
(* text; and the load generators and the performance labs, for any number  *)
(* of threads, rounds, bytes and elements.                                 *)
(***************************************************************************)
EXTENDS Programs, SequenceTheorems, FiniteSetTheorems, Numbers, TLAPS

------------------------------------------------------------------------------
(* Waits: the two threads that pass a flag.                                *)

Places == {"lock", "set", "wait", "asleep", "relock", "leave", "end"}

PingTypes ==
  /\ pp_way \in {"busy", "sleep"} /\ pp_flag \in BOOLEAN
  /\ pp_mtx \in {"main", "thread", "none"} /\ pp_waiting \subseteq {"main", "thread"}
  /\ pp_at \in [{"main", "thread"} -> Places] /\ pp_turns \in [{"main", "thread"} -> Nat]

\* Under the mutex, a thread that does not wait for it has it: main until the end.
Held ==
  /\ pp_at["thread"] /= "set"
  /\ pp_way = "sleep" =>
       /\ pp_mtx = "main" <=> pp_at["main"] \in {"set", "wait", "leave", "end"}
       /\ pp_mtx = "thread" <=> pp_at["thread"] \in {"wait", "leave"}
  /\ pp_way = "busy" =>
       /\ pp_mtx = "none" /\ pp_waiting = {}
       /\ pp_at["main"] \in {"set", "wait", "end"} /\ pp_at["thread"] \in {"wait", "end"}

\* Whoever is awaited sleeps only as long as the flag is not for him.
SleepsInVain ==
  \A p \in pp_waiting : pp_way = "sleep" /\ pp_at[p] = "asleep" /\ (pp_flag <=> p = "main")

\* The thread is a turn ahead when it has lowered the flag main waits for, and level
\* at any other time.
Ahead ==
  /\ pp_at["main"] \in {"lock", "set"} => ~pp_flag
  /\ pp_at["main"] \in {"leave", "end"} => ~pp_flag
  /\ pp_turns["thread"] =
       IF pp_at["main"] \in {"wait", "asleep", "relock"} /\ ~pp_flag
       THEN pp_turns["main"] + 1 ELSE pp_turns["main"]
  /\ IF pp_at["main"] \in {"leave", "end"} THEN pp_turns["main"] = ITERATIONS
                                           ELSE pp_turns["main"] < ITERATIONS
  /\ IF pp_at["thread"] \in {"leave", "end"} THEN pp_turns["thread"] = ITERATIONS
                                             ELSE pp_turns["thread"] < ITERATIONS

PingInv == PingTypes /\ Held /\ SleepsInVain /\ Ahead

LEMMA PingBegins == Wait!PingInit => PingInv
<1> SUFFICES ASSUME Wait!PingInit PROVE PingInv
  OBVIOUS
<1>1. /\ pp_flag = FALSE /\ pp_mtx = "none" /\ pp_waiting = {} /\ pp_way \in {"busy", "sleep"}
      /\ pp_turns = [p \in {"main", "thread"} |-> 0]
  BY DEF Wait!PingInit, Wait!Both, Wait!Nobody
<1>2. /\ pp_at \in [{"main", "thread"} -> Places]
      /\ pp_way = "sleep" => pp_at["main"] = "lock" /\ pp_at["thread"] = "lock"
      /\ pp_way = "busy" => pp_at["main"] = "set" /\ pp_at["thread"] = "wait"
  BY DEF Wait!PingInit, Wait!Both, Places
<1>3. PingTypes /\ Held /\ SleepsInVain
  BY <1>1, <1>2 DEF PingTypes, Held, SleepsInVain
<1>4. Ahead
  BY <1>1, <1>2, TurnsAssumption DEF Ahead
<1> QED BY <1>3, <1>4 DEF PingInv

LEMMA PingLock ==
  ASSUME PingInv, NEW p \in Wait!Both, Wait!Lock(p)
  PROVE  PingInv'
  BY DEF Wait!Lock, Wait!Goto, Wait!Both, Wait!Nobody, PingInv, PingTypes, Places,
         Held, SleepsInVain, Ahead

LEMMA PingSet ==
  ASSUME PingInv, NEW p \in Wait!Both, Wait!Set(p)
  PROVE  PingInv'
  BY DEF Wait!Set, Wait!Goto, Wait!Both, Wait!Nobody, PingInv, PingTypes, Places,
         Held, SleepsInVain, Ahead

LEMMA PingPassed ==
  ASSUME PingInv, NEW p \in Wait!Both, Wait!Passed(p)
  PROVE  PingInv'
<1> DEFINE next == IF pp_turns[p] + 1 = ITERATIONS
                   THEN IF pp_way = "busy" THEN "end" ELSE "leave"
                   ELSE IF p = "main" THEN "set" ELSE "wait"
<1>1. /\ p \in {"main", "thread"} /\ pp_at[p] = "wait" /\ (pp_flag <=> p = "thread")
      /\ pp_turns' = [pp_turns EXCEPT ![p] = @ + 1] /\ pp_turns[p] \in Nat
      /\ pp_at' = [pp_at EXCEPT ![p] = next]
      /\ pp_flag' = FALSE /\ pp_waiting' = (IF p = "thread" THEN {} ELSE pp_waiting)
      /\ UNCHANGED <<pp_way, pp_mtx>>
  BY DEF Wait!Passed, Wait!AfterTurn, Wait!Mine, Wait!Raised, Wait!Goto, Wait!Both,
         PingInv, PingTypes
<1>2. next \in Places /\ next \notin {"lock", "asleep", "relock"}
  BY <1>1 DEF Places
<1> HIDE DEF next
<1>3. PingTypes'
  <2>1. pp_at' \in [{"main", "thread"} -> Places] /\ pp_turns' \in [{"main", "thread"} -> Nat]
    BY <1>1, <1>2 DEF PingInv, PingTypes
  <2>2. pp_flag' \in BOOLEAN /\ pp_waiting' \subseteq {"main", "thread"}
    BY <1>1 DEF PingInv, PingTypes
  <2> QED BY <1>1, <2>1, <2>2 DEF PingInv, PingTypes
<1>4. Held' /\ SleepsInVain'
  BY <1>1, <1>2 DEF PingInv, PingTypes, Held, SleepsInVain, next
<1>5. CASE p = "main"
  <2>1. /\ pp_turns["thread"] = pp_turns["main"] + 1 /\ pp_turns["main"] < ITERATIONS
        /\ IF pp_at["thread"] \in {"leave", "end"} THEN pp_turns["thread"] = ITERATIONS
                                                  ELSE pp_turns["thread"] < ITERATIONS
        /\ pp_turns["main"] \in Nat
    BY <1>1, <1>5 DEF PingInv, PingTypes, Ahead
  <2>2. /\ pp_at'["main"] = next /\ pp_at'["thread"] = pp_at["thread"]
        /\ pp_turns'["main"] = pp_turns["main"] + 1 /\ pp_turns'["thread"] = pp_turns["thread"]
        /\ next = "set" \/ next \in {"leave", "end"}
        /\ next \in {"leave", "end"} <=> pp_turns["main"] + 1 = ITERATIONS
    BY <1>1, <1>5 DEF PingInv, PingTypes, next
  <2>3. pp_turns'["thread"] = pp_turns'["main"] /\ pp_turns'["main"] <= ITERATIONS
    BY <2>1, <2>2, TurnsAssumption
  <2>4. pp_turns'["main"] = ITERATIONS <=> next \in {"leave", "end"}
    BY <2>2
  <2>5. /\ ~pp_flag'
        /\ pp_turns'["thread"] = pp_turns'["main"]
        /\ pp_at'["main"] \notin {"wait", "asleep", "relock"}
    BY <1>1, <2>2, <2>3
  <2>6. IF pp_at'["main"] \in {"leave", "end"} THEN pp_turns'["main"] = ITERATIONS
                                               ELSE pp_turns'["main"] < ITERATIONS
    BY <2>1, <2>2, <2>3, <2>4, TurnsAssumption
  <2>7. IF pp_at'["thread"] \in {"leave", "end"} THEN pp_turns'["thread"] = ITERATIONS
                                                 ELSE pp_turns'["thread"] < ITERATIONS
    BY <2>1, <2>2
  <2>8. pp_turns'["thread"] =
          IF pp_at'["main"] \in {"wait", "asleep", "relock"} /\ ~pp_flag'
          THEN pp_turns'["main"] + 1 ELSE pp_turns'["main"]
    BY <2>5
  <2>9. /\ pp_at'["main"] \in {"lock", "set"} => ~pp_flag'
        /\ pp_at'["main"] \in {"leave", "end"} => ~pp_flag'
    BY <2>5
  <2>10. Ahead'
    BY <2>6, <2>7, <2>8, <2>9 DEF Ahead
  <2> QED BY <1>3, <1>4, <2>10 DEF PingInv
<1>6. CASE p = "thread"
  <2>1. pp_turns["thread"] = pp_turns["main"] /\ pp_turns["thread"] < ITERATIONS
    BY <1>1, <1>6 DEF PingInv, PingTypes, Ahead
  <2>2. /\ pp_at["main"] \in {"wait", "asleep", "relock"} /\ pp_turns["main"] < ITERATIONS
        /\ pp_turns["main"] \in Nat
    BY <1>1, <1>6, <2>1 DEF PingInv, PingTypes, Ahead, Places
  <2>3. /\ pp_at'["thread"] = next /\ pp_at'["main"] = pp_at["main"]
        /\ pp_turns'["thread"] = pp_turns["thread"] + 1 /\ pp_turns'["main"] = pp_turns["main"]
        /\ next = "wait" \/ next \in {"leave", "end"}
        /\ next \in {"leave", "end"} <=> pp_turns["thread"] + 1 = ITERATIONS
    BY <1>1, <1>6 DEF PingInv, PingTypes, next
  <2>4. pp_turns'["thread"] = pp_turns'["main"] + 1 /\ pp_turns'["thread"] <= ITERATIONS
    BY <2>1, <2>2, <2>3, TurnsAssumption
  <2>5. ~pp_flag' /\ pp_at'["main"] \in {"wait", "asleep", "relock"}
    BY <1>1, <2>2, <2>3
  <2>6. pp_turns'["main"] < ITERATIONS
    BY <2>2, <2>3
  <2>7. IF pp_at'["thread"] \in {"leave", "end"} THEN pp_turns'["thread"] = ITERATIONS
                                                 ELSE pp_turns'["thread"] < ITERATIONS
    BY <2>1, <2>2, <2>3, <2>4, TurnsAssumption
  <2>8. pp_turns'["thread"] =
          IF pp_at'["main"] \in {"wait", "asleep", "relock"} /\ ~pp_flag'
          THEN pp_turns'["main"] + 1 ELSE pp_turns'["main"]
    BY <2>4, <2>5
  <2>9. /\ pp_at'["main"] \in {"lock", "set"} => ~pp_flag'
        /\ pp_at'["main"] \in {"leave", "end"} => ~pp_flag'
        /\ ~(pp_at'["main"] \in {"leave", "end"})
    BY <2>5
  <2>10. IF pp_at'["main"] \in {"leave", "end"} THEN pp_turns'["main"] = ITERATIONS
                                               ELSE pp_turns'["main"] < ITERATIONS
    BY <2>6, <2>9
  <2>11. Ahead'
    BY <2>7, <2>8, <2>9, <2>10 DEF Ahead
  <2> QED BY <1>3, <1>4, <2>11 DEF PingInv
<1> QED BY <1>1, <1>5, <1>6

LEMMA PingBlock ==
  ASSUME PingInv, NEW p \in Wait!Both, Wait!Block(p)
  PROVE  PingInv'
  BY DEF Wait!Block, Wait!Mine, Wait!Raised, Wait!Goto, Wait!Both, Wait!Nobody, PingInv,
         PingTypes, Places,
         Held, SleepsInVain, Ahead

LEMMA PingWake ==
  ASSUME PingInv, NEW p \in Wait!Both, Wait!Wake(p) \/ Wait!Spurious(p)
  PROVE  PingInv'
<1>1. CASE Wait!Wake(p)
  BY <1>1 DEF Wait!Wake, Wait!Goto, Wait!Both, PingInv, PingTypes, Places, Held,
              SleepsInVain, Ahead
<1>2. CASE Wait!Spurious(p)
  BY <1>2 DEF Wait!Spurious, PingInv, PingTypes, Held, SleepsInVain, Ahead
<1> QED BY <1>1, <1>2

LEMMA PingLeave ==
  ASSUME PingInv, NEW p \in Wait!Both, Wait!Leave(p)
  PROVE  PingInv'
<1>1. /\ p \in {"main", "thread"} /\ pp_at[p] = "leave"
      /\ p = "main" => pp_at["thread"] = "end" /\ pp_mtx' = pp_mtx
      /\ p = "thread" => pp_mtx' = "none"
      /\ pp_at' = [pp_at EXCEPT ![p] = "end"]
      /\ UNCHANGED <<pp_way, pp_flag, pp_waiting, pp_turns>>
  BY DEF Wait!Leave, Wait!Goto, Wait!Both, Wait!Nobody
<1>2. pp_way = "sleep"
  BY <1>1 DEF PingInv, PingTypes, Held
<1>3. PingTypes' /\ Held' /\ SleepsInVain'
  BY <1>1, <1>2 DEF PingInv, PingTypes, Places, Held, SleepsInVain
<1>4. Ahead'
  BY <1>1 DEF PingInv, PingTypes, Places, Ahead
<1> QED BY <1>3, <1>4 DEF PingInv

LEMMA PingMeans == PingInv => Wait!Alternate
  BY DEF PingInv, PingTypes, Places, Held, SleepsInVain, Ahead, Wait!Alternate, Wait!Both

\* The two threads of busy-wait-vs-sleep alternate for any number of rounds: the thread is
\* a turn ahead exactly while main waits with the flag lowered, and else they are level.
THEOREM PingKept == Wait!PingSpec => []Wait!Alternate
<1>1. PingInv /\ [Wait!PingNext]_(Wait!ping_vars) => PingInv'
  <2> SUFFICES ASSUME PingInv, [Wait!PingNext]_(Wait!ping_vars) PROVE PingInv'
    OBVIOUS
  <2>1. CASE Wait!PingNext
    BY <2>1, PingLock, PingSet, PingPassed, PingBlock, PingWake, PingLeave
      DEF Wait!PingNext, Wait!Runs
  <2>2. CASE UNCHANGED Wait!ping_vars
    BY <2>2 DEF Wait!ping_vars, PingInv, PingTypes, Held, SleepsInVain, Ahead
  <2> QED BY <2>1, <2>2
<1> QED BY <1>1, PingBegins, PingMeans, PTL DEF Wait!PingSpec

------------------------------------------------------------------------------
(* Waits: the read with an alarm.                                          *)

TimedInv ==
  /\ rt_step \in {"sigaction", "alarm", "call", "read", "cancel", "done"}
  /\ rt_step \in {"sigaction", "alarm", "done"} => rt_alarm = "off"
  /\ rt_result \in {"none", "data", "timeout"}
  /\ rt_result = "none" <=> rt_step \in {"sigaction", "alarm", "call", "read"}
  /\ rt_result = "timeout" <=> rt_rang = "waiting"
  /\ rt_result = "timeout" => rt_alarm /= "set"
  /\ rt_result = "data" => rt_input

\* Whenever the alarm rings and the input comes, nothing rings once read_with_timeout
\* (alarm_demo.c) has returned; it timed out exactly when the alarm found the read waiting
\* without input, and else it has what was typed.
THEOREM TimedKept == Wait!TimedSpec => []Wait!TimeoutIsOver
<1>1. Wait!TimedInit => TimedInv
  BY DEF Wait!TimedInit, TimedInv
<1>2. TimedInv /\ [Wait!TimedNext]_(Wait!timed_vars) => TimedInv'
  <2> SUFFICES ASSUME TimedInv, [Wait!TimedNext]_(Wait!timed_vars) PROVE TimedInv'
    OBVIOUS
  <2>1. CASE Wait!Sigaction \/ Wait!Alarm \/ Wait!Call
    BY <2>1 DEF Wait!Sigaction, Wait!Alarm, Wait!Call, TimedInv
  <2>2. CASE Wait!Data
    BY <2>2 DEF Wait!Data, TimedInv
  <2>3. CASE Wait!Cancel
    BY <2>3 DEF Wait!Cancel, TimedInv
  <2>4. CASE Wait!Ring
    <3>1. CASE Wait!Waiting
      BY <2>4, <3>1 DEF Wait!Ring, Wait!Waiting, TimedInv
    <3>2. CASE ~Wait!Waiting
      <4>1. rt_rang' = rt_step /\ rt_step' = rt_step /\ rt_result' = rt_result
            /\ rt_input' = rt_input /\ rt_alarm = "set" /\ rt_alarm' = "gone"
        BY <2>4, <3>2 DEF Wait!Ring
      <4> QED BY <4>1 DEF TimedInv
    <3> QED BY <3>1, <3>2
  <2>5. CASE Wait!Typed
    BY <2>5 DEF Wait!Typed, TimedInv
  <2>6. CASE UNCHANGED Wait!timed_vars
    BY <2>6 DEF Wait!timed_vars, TimedInv
  <2> QED BY <2>1, <2>2, <2>3, <2>4, <2>5, <2>6 DEF Wait!TimedNext, Wait!ReadStep
<1>3. TimedInv => Wait!TimeoutIsOver
  BY DEF TimedInv, Wait!TimeoutIsOver
<1> QED BY <1>1, <1>2, <1>3, PTL DEF Wait!TimedSpec

------------------------------------------------------------------------------
(* SignalDemos: the programs that take their signals in turn.              *)

Stopped == sd_taken \cap {"TERM", "INT"} /= {}

\* What is pending is blocked, and what is due is pending; a signal ended a program
\* before it was blocked, or it is none that is.
MaskInv ==
  /\ sd_prog \in {"sfd", "sfd_epoll", "sigwait"}
  /\ sd_at \in {"start", "setup", "epoll_wait", "read", "join", "end"}
  /\ sd_mask = (IF sd_at = "start" THEN {} ELSE Sig!Blocked(sd_prog))
  /\ sd_pending \subseteq sd_mask
  /\ sd_due \subseteq sd_pending
  /\ sd_killed /= <<>> => sd_killed[1] = "start" \/ sd_killed[2] \notin Sig!Blocked(sd_prog)
StopInv == Stopped <=> sd_at = "end"

\* Each HUP that was taken has been served, or the flag is up.
HupInv ==
  /\ sd_reload_config \in BOOLEAN /\ sd_reloads \in Nat /\ sd_hups \in Nat
  /\ sd_reloads <= sd_hups
  /\ sd_reload_config => /\ sd_reloads < sd_hups
                         /\ sd_prog = "sfd_epoll" /\ sd_at \in {"read", "end"}
  /\ ~sd_reload_config => sd_served = sd_hups

SigInv == MaskInv /\ StopInv /\ HupInv

LEMMA BlockedIs ==
  /\ Sig!Blocked("sfd") = {"TERM", "INT", "CHLD"}
  /\ Sig!Blocked("sfd_epoll") = {"TERM", "INT", "HUP", "CHLD"}
  /\ Sig!Blocked("sigwait") = {"TERM", "INT"}
  BY DEF Sig!Blocked, Sig!Stops, Sig!Signals

LEMMA SigBegins == Sig!Init => SigInv
<1> SUFFICES ASSUME Sig!Init PROVE SigInv
  OBVIOUS
<1>1. MaskInv
  BY DEF Sig!Init, MaskInv
<1>2. StopInv
  BY DEF Sig!Init, StopInv, Stopped
<1>3. HupInv
  <2>1. sd_reload_config = FALSE /\ sd_reloads = 0 /\ sd_hups = 0 /\ sd_served = 0
    BY DEF Sig!Init
  <2>2. sd_reload_config \in BOOLEAN /\ ~sd_reload_config
    BY <2>1
  <2>3. sd_reloads \in Nat /\ sd_hups \in Nat /\ sd_reloads <= sd_hups /\ sd_served = sd_hups
    BY <2>1
  <2> QED BY <2>2, <2>3 DEF HupInv
<1> QED BY <1>1, <1>2, <1>3 DEF SigInv

LEMMA SigSetsUp ==
  ASSUME SigInv, Sig!Mask \/ Sig!Setup \/ Sig!EpollWait
  PROVE  SigInv'
<1>1. /\ UNCHANGED <<sd_prog, sd_pending, sd_due, sd_taken, sd_hups, sd_reload_config,
                    sd_reloads, sd_served, sd_killed>>
      /\ sd_mask' = Sig!Blocked(sd_prog)
      /\ sd_at \in {"start", "setup", "epoll_wait"}
      /\ sd_at' \in {"setup", "epoll_wait", "read", "join"}
  BY DEF Sig!Mask, Sig!Setup, Sig!EpollWait, Sig!signalVars, Sig!loopVars, SigInv, MaskInv
<1>2. sd_mask \subseteq Sig!Blocked(sd_prog)
  BY DEF SigInv, MaskInv
<1>3. MaskInv'
  BY <1>1, <1>2, BlockedIs DEF SigInv, MaskInv
<1>4. StopInv'
  BY <1>1 DEF SigInv, StopInv, Stopped
<1>5. HupInv'
  BY <1>1 DEF SigInv, HupInv
<1> QED BY <1>3, <1>4, <1>5 DEF SigInv

\* One signal taken from those that are pending; the program ends if it is a stop.
LEMMA SigTakes ==
  ASSUME SigInv, NEW s \in sd_pending, Sig!Took(s), Sig!Running,
         UNCHANGED <<sd_prog, sd_mask, sd_killed>>, sd_at' = "end" <=> s \in Sig!Stops,
         sd_at \in {"read", "join"}, sd_at' \in {"epoll_wait", "read", "end"}
  PROVE  MaskInv' /\ StopInv'
  BY BlockedIs DEF Sig!Took, Sig!Stops, Sig!Running, SigInv, MaskInv, StopInv, Stopped

LEMMA SigReadOne ==
  ASSUME SigInv, Sig!ReadOne
  PROVE  SigInv'
<1>1. PICK s \in sd_pending :
        /\ Sig!Took(s) /\ Sig!Running /\ sd_prog = "sfd" /\ sd_at = "read"
        /\ sd_at' = IF s \in Sig!Stops THEN "end" ELSE "epoll_wait"
        /\ UNCHANGED <<sd_prog, sd_mask, sd_reload_config, sd_reloads, sd_served, sd_killed>>
  BY DEF Sig!ReadOne, Sig!loopVars
<1>2. MaskInv' /\ StopInv'
  BY <1>1, SigTakes
<1>3. s /= "HUP"
  BY <1>1, BlockedIs DEF SigInv, MaskInv
<1>4. HupInv'
  BY <1>1, <1>3 DEF Sig!Took, SigInv, HupInv
<1> QED BY <1>2, <1>4 DEF SigInv

LEMMA SigHandle ==
  ASSUME SigInv, Sig!handle_signal
  PROVE  SigInv'
<1>1. PICK s \in sd_pending :
        /\ Sig!Took(s) /\ Sig!Running /\ sd_prog = "sfd_epoll" /\ sd_at = "read"
        /\ sd_at' = IF s \in Sig!Stops THEN "end" ELSE "read"
        /\ sd_reload_config' = (s = "HUP" \/ sd_reload_config)
        /\ UNCHANGED <<sd_prog, sd_mask, sd_reloads, sd_served, sd_killed>>
  BY DEF Sig!handle_signal
<1>2. MaskInv' /\ StopInv'
  BY <1>1, SigTakes
<1>3. HupInv'
  <2>1. CASE s = "HUP"
    <3>1. sd_reload_config' = TRUE /\ sd_reloads' = sd_reloads /\ sd_prog' = "sfd_epoll"
      BY <1>1, <2>1
    <3>2. sd_hups' = sd_hups + 1 /\ sd_hups \in Nat /\ sd_reloads \in Nat /\ sd_reloads <= sd_hups
      BY <1>1, <2>1 DEF Sig!Took, SigInv, HupInv
    <3>3. sd_at' \in {"read", "end"}
      BY <1>1
    <3> QED BY <3>1, <3>2, <3>3 DEF HupInv
  <2>2. CASE s /= "HUP"
    BY <1>1, <2>2 DEF Sig!Took, SigInv, HupInv
  <2> QED BY <2>1, <2>2
<1> QED BY <1>2, <1>3 DEF SigInv

LEMMA SigReload ==
  ASSUME SigInv, Sig!Reload
  PROVE  SigInv'
<1>1. /\ sd_at = "read" /\ sd_at' = "epoll_wait" /\ sd_prog = "sfd_epoll"
      /\ sd_reload_config' = FALSE
      /\ sd_reloads' = IF sd_reload_config THEN sd_reloads + 1 ELSE sd_reloads
      /\ sd_served' = IF sd_reload_config THEN sd_hups ELSE sd_served
      /\ UNCHANGED <<sd_prog, sd_mask, sd_pending, sd_due, sd_taken, sd_hups, sd_killed>>
  BY DEF Sig!Reload, Sig!signalVars
<1>2. MaskInv' /\ StopInv'
  BY <1>1, BlockedIs DEF SigInv, MaskInv, StopInv, Stopped
<1>3. HupInv'
  <2>1. CASE sd_reload_config
    <3>1. /\ sd_reload_config' = FALSE /\ sd_reloads' = sd_reloads + 1
          /\ sd_hups' = sd_hups /\ sd_served' = sd_hups
      BY <1>1, <2>1
    <3>2. sd_reloads < sd_hups /\ sd_hups \in Nat /\ sd_reloads \in Nat
      BY <2>1 DEF SigInv, HupInv
    <3>3. sd_reload_config' \in BOOLEAN /\ ~sd_reload_config'
      BY <3>1
    <3>4. /\ sd_reloads' \in Nat /\ sd_hups' \in Nat /\ sd_reloads' <= sd_hups'
          /\ sd_served' = sd_hups'
      BY <3>1, <3>2
    <3> QED BY <3>3, <3>4 DEF HupInv
  <2>2. CASE ~sd_reload_config
    BY <1>1, <2>2 DEF SigInv, HupInv
  <2> QED BY <2>1, <2>2
<1> QED BY <1>2, <1>3 DEF SigInv

LEMMA SigThread ==
  ASSUME SigInv, sd_thread = "sigwait" => sd_prog = "sigwait" /\ sd_at \in {"join", "end"},
         Sig!signal_thread
  PROVE  SigInv'
<1>1. PICK s \in sd_pending \cap Sig!Stops :
        /\ Sig!Took(s) /\ Sig!Running /\ sd_prog = "sigwait" /\ sd_at = "join"
        /\ sd_at' = "end"
        /\ UNCHANGED <<sd_prog, sd_mask, sd_reload_config, sd_reloads, sd_served, sd_killed>>
  BY DEF Sig!signal_thread, Sig!Running, Sig!loopVars
<1>2. MaskInv' /\ StopInv'
  BY <1>1, SigTakes
<1>3. HupInv'
  BY <1>1 DEF Sig!Took, Sig!Stops, SigInv, HupInv
<1> QED BY <1>2, <1>3 DEF SigInv

LEMMA SigSend ==
  ASSUME SigInv, NEW s \in Sig!Signals, Sig!Send(s)
  PROVE  SigInv'
<1>1. /\ sd_pending' = IF s \in sd_mask THEN sd_pending \cup {s} ELSE sd_pending
      /\ sd_killed' = IF s \notin sd_mask /\ s /= "CHLD" THEN <<sd_at, s>> ELSE <<>>
      /\ sd_due' = IF sd_at /= "start" /\ s \in Sig!Blocked(sd_prog)
                   THEN sd_due \cup {s} ELSE sd_due
      /\ UNCHANGED <<sd_prog, sd_at, sd_mask, sd_reload_config, sd_reloads, sd_served,
                     sd_taken, sd_hups>>
  BY DEF Sig!Send, Sig!loopVars
<1>2. MaskInv'
  <2>1. sd_at = "start" \/ sd_mask = Sig!Blocked(sd_prog)
    BY DEF SigInv, MaskInv
  <2>2. sd_killed' /= <<>> => sd_killed'[1] = "start" \/ sd_killed'[2] \notin Sig!Blocked(sd_prog)
    BY <1>1, <2>1
  <2>3. sd_due' \subseteq sd_pending' /\ sd_pending' \subseteq sd_mask'
    BY <1>1, <2>1 DEF SigInv, MaskInv
  <2> QED BY <1>1, <2>2, <2>3 DEF SigInv, MaskInv, Sig!Blocked
<1>3. StopInv' /\ HupInv'
  BY <1>1 DEF SigInv, StopInv, Stopped, HupInv
<1> QED BY <1>2, <1>3 DEF SigInv

\* The thread of sigwait_demo is there while main is in its join.
ThreadInv == sd_thread = "sigwait" => sd_prog = "sigwait" /\ sd_at \in {"join", "end"}

LEMMA ThreadStep ==
  ASSUME SigInv, ThreadInv, Sig!Next
  PROVE  ThreadInv'
  BY DEF Sig!Next, Sig!Program, Sig!Mask, Sig!Setup, Sig!EpollWait, Sig!ReadOne,
         Sig!handle_signal, Sig!Reload, Sig!signal_thread, Sig!Send, Sig!Running, ThreadInv,
         SigInv, MaskInv

\* Once they have begun, the programs of signals-demos are never ended by a signal they
\* block and lose none of them; they end by a stop they took, and wait again only when a
\* reload has followed each HUP they took, whatever is sent to them and when.
THEOREM SignalsKept == Sig!Spec => []Sig!TakenInTurn
<1>1. Sig!Init => ThreadInv
  BY DEF Sig!Init, ThreadInv
<1>2. SigInv /\ ThreadInv /\ [Sig!Next]_(Sig!vars) => SigInv' /\ ThreadInv'
  <2> SUFFICES ASSUME SigInv, ThreadInv, [Sig!Next]_(Sig!vars) PROVE SigInv' /\ ThreadInv'
    OBVIOUS
  <2>1. CASE Sig!Next
    <3>1. SigInv'
      BY <2>1, SigSetsUp, SigReadOne, SigHandle, SigReload, SigThread, SigSend
         DEF Sig!Next, Sig!Program, ThreadInv
    <3> QED BY <2>1, <3>1, ThreadStep
  <2>2. CASE UNCHANGED Sig!vars
    BY <2>2 DEF Sig!vars, Sig!signalVars, Sig!loopVars, SigInv, MaskInv, StopInv, Stopped,
                HupInv, ThreadInv
  <2> QED BY <2>1, <2>2
<1>3. SigInv => Sig!TakenInTurn
  <2> SUFFICES ASSUME SigInv PROVE Sig!TakenInTurn
    OBVIOUS
  <2>1. /\ sd_killed /= <<>> => sd_killed[1] = "start" \/ sd_killed[2] \notin Sig!Blocked(sd_prog)
        /\ sd_due \subseteq sd_pending
    BY DEF SigInv, MaskInv
  <2>2. sd_at = "end" <=> sd_taken \cap Sig!Stops /= {}
    BY DEF SigInv, StopInv, Stopped, Sig!Stops
  <2>3. sd_reloads <= sd_hups /\ (sd_at = "epoll_wait" => sd_served = sd_hups)
    BY DEF SigInv, HupInv
  <2> QED BY <2>1, <2>2, <2>3 DEF Sig!TakenInTurn
<1> QED BY <1>1, <1>2, <1>3, SigBegins, PTL DEF Sig!Spec

------------------------------------------------------------------------------
(* LockQueue: the queue behind a mutex, for any number of items.            *)

QueueTypes ==
  /\ lq_mtx_ \in Lkq!Threads \cup {"free"}
  /\ lq_at \in [Lkq!Threads -> {"loop", "lock", "in", "end"}]
  /\ lq_q_ \in Seq(Int) /\ lq_taken \in Seq(Int)
  /\ lq_i \in Nat /\ lq_got \in Nat

\* Whoever holds the mutex is in a call, and nobody else is.
Mutex == \A t \in Lkq!Threads : lq_at[t] = "in" <=> lq_mtx_ = t

\* What was taken and what waits are the numbers 0 .. i - 1.
Numbered ==
  /\ lq_got = Len(lq_taken) /\ lq_i = lq_got + Len(lq_q_)
  /\ \A k \in 1..Len(lq_taken) : lq_taken[k] = k - 1
  /\ \A k \in 1..Len(lq_q_) : lq_q_[k] = (lq_got + k) - 1

\* A thread that is in a call or on the way to one has not done what it has to do.
Bounded ==
  /\ lq_i <= Items /\ (lq_at["lprod"] \in {"lock", "in"} => lq_i < Items)
  /\ lq_at["lprod"] = "end" => lq_i = Items
  /\ lq_at["lcons"] = "end" => lq_got = Items

QueueInv == QueueTypes /\ Mutex /\ Numbered /\ Bounded

LEMMA QueueBegins == Items \in Nat /\ Lkq!Init => QueueInv
  BY DEF Lkq!Init, QueueInv, QueueTypes, Mutex, Numbered, Bounded, Lkq!Threads

LEMMA QueueLoop ==
  ASSUME Items \in Nat, QueueInv,
         Lkq!Loop("lprod", lq_i < Items) \/ Lkq!Loop("lcons", lq_got < Items)
  PROVE  QueueInv'
<1>1. UNCHANGED <<lq_mtx_, lq_q_, lq_i, lq_got, lq_taken>>
  BY DEF Lkq!Loop
<1>2. lq_got <= lq_i
  BY DEF QueueInv, QueueTypes, Numbered
<1>3. CASE Lkq!Loop("lprod", lq_i < Items)
  BY <1>1, <1>3 DEF Lkq!Loop, QueueInv, QueueTypes, Mutex, Numbered, Bounded, Lkq!Threads
<1>4. CASE Lkq!Loop("lcons", lq_got < Items)
  BY <1>1, <1>2, <1>4 DEF Lkq!Loop, QueueInv, QueueTypes, Mutex, Numbered, Bounded, Lkq!Threads
<1> QED BY <1>3, <1>4

LEMMA QueueLock ==
  ASSUME QueueInv, NEW t \in Lkq!Threads, Lkq!Lock(t)
  PROVE  QueueInv'
  BY DEF Lkq!Lock, QueueInv, QueueTypes, Mutex, Numbered, Bounded, Lkq!Threads

LEMMA QueuePush ==
  ASSUME Items \in Nat, QueueInv, Lkq!push
  PROVE  QueueInv'
<1>1. /\ lq_at["lprod"] = "in" /\ lq_mtx_ = "lprod" /\ lq_mtx_' = "free" /\ lq_i < Items
      /\ lq_at' = [lq_at EXCEPT !["lprod"] = "loop"]
      /\ lq_q_' = Append(lq_q_, lq_i) /\ lq_i' = lq_i + 1 /\ UNCHANGED <<lq_got, lq_taken>>
  BY DEF Lkq!push, QueueInv, Mutex, Bounded, Lkq!Threads
<1>2. /\ lq_q_' \in Seq(Int) /\ Len(lq_q_') = Len(lq_q_) + 1
      /\ \A k \in 1..Len(lq_q_') : lq_q_'[k] = IF k <= Len(lq_q_) THEN lq_q_[k] ELSE lq_i
  BY <1>1 DEF QueueInv, QueueTypes
<1>3. QueueTypes' /\ Mutex'
  BY <1>1, <1>2 DEF QueueInv, QueueTypes, Mutex, Lkq!Threads
<1>4. Numbered'
  <2>1. /\ Len(lq_q_) \in Nat /\ lq_i' = lq_got + Len(lq_q_')
        /\ lq_i = (lq_got + (Len(lq_q_) + 1)) - 1
    BY <1>1, <1>2 DEF QueueInv, QueueTypes, Numbered
  <2>2. \A k \in 1..Len(lq_q_') : lq_q_'[k] = (lq_got + k) - 1
    <3>1. \A k \in 1..Len(lq_q_') : k \in 1..Len(lq_q_) \/ k = Len(lq_q_) + 1
      BY <1>2, <2>1
    <3>2. \A k \in 1..Len(lq_q_) : k <= Len(lq_q_) /\ lq_q_[k] = (lq_got + k) - 1
      BY <2>1 DEF QueueInv, Numbered
    <3>3. ~(Len(lq_q_) + 1 <= Len(lq_q_))
      BY <2>1
    <3>4. ASSUME NEW k \in 1..Len(lq_q_') PROVE lq_q_'[k] = (lq_got + k) - 1
      <4>1. CASE k \in 1..Len(lq_q_)
        BY <1>2, <3>2, <4>1
      <4>2. CASE k = Len(lq_q_) + 1
        BY <1>2, <2>1, <3>3, <4>2
      <4> QED BY <3>1, <4>1, <4>2
    <3> QED BY <3>4
  <2> QED BY <1>1, <2>1, <2>2 DEF QueueInv, Numbered
<1>5. Bounded'
  BY <1>1 DEF QueueInv, QueueTypes, Bounded, Lkq!Threads, Numbered
<1> QED BY <1>3, <1>4, <1>5 DEF QueueInv

LEMMA QueuePop ==
  ASSUME Items \in Nat, QueueInv, Lkq!pop
  PROVE  QueueInv'
<1>1. /\ lq_at["lcons"] = "in" /\ lq_mtx_ = "lcons" /\ lq_mtx_' = "free"
      /\ lq_at' = [lq_at EXCEPT !["lcons"] = "loop"] /\ UNCHANGED lq_i
  BY DEF Lkq!pop, QueueInv, Mutex, Lkq!Threads
<1>2. CASE lq_q_ = <<>>
  <2>1. UNCHANGED <<lq_q_, lq_got, lq_taken>>
    BY <1>2 DEF Lkq!pop
  <2> QED BY <1>1, <2>1 DEF QueueInv, QueueTypes, Mutex, Numbered, Bounded, Lkq!Threads
<1>3. CASE lq_q_ /= <<>>
  <2>1. /\ lq_q_' = Tail(lq_q_) /\ lq_taken' = Append(lq_taken, Head(lq_q_))
        /\ lq_got' = lq_got + 1
    BY <1>3 DEF Lkq!pop
  <2>2. /\ lq_q_' \in Seq(Int) /\ Len(lq_q_') = Len(lq_q_) - 1 /\ Len(lq_q_) > 0
        /\ \A k \in 1..Len(lq_q_') : lq_q_'[k] = lq_q_[k + 1]
    BY <1>3, <2>1 DEF QueueInv, QueueTypes
  <2>3. Head(lq_q_) = lq_q_[1] /\ lq_q_[1] = lq_got /\ lq_got \in Int
    <3>1. 1 \in 1..Len(lq_q_) /\ lq_q_[1] = (lq_got + 1) - 1 /\ lq_got \in Nat
      BY <2>2 DEF QueueInv, QueueTypes, Numbered
    <3> QED BY <1>3, <3>1 DEF QueueInv, QueueTypes
  <2>4. /\ lq_taken' \in Seq(Int) /\ Len(lq_taken') = Len(lq_taken) + 1
        /\ \A k \in 1..Len(lq_taken') :
             lq_taken'[k] = IF k <= Len(lq_taken) THEN lq_taken[k] ELSE lq_got
    BY <2>1, <2>3 DEF QueueInv, QueueTypes
  <2>5. QueueTypes' /\ Mutex'
    BY <1>1, <2>1, <2>2, <2>4 DEF QueueInv, QueueTypes, Mutex, Lkq!Threads
  <2>6. Numbered'
    <3>1. /\ Len(lq_q_) \in Nat /\ Len(lq_taken) \in Nat
          /\ lq_got = Len(lq_taken) /\ lq_i = lq_got + Len(lq_q_)
          /\ lq_got' = Len(lq_taken') /\ lq_i' = lq_got' + Len(lq_q_') /\ lq_got' = lq_got + 1
      BY <1>1, <2>1, <2>2, <2>4 DEF QueueInv, QueueTypes, Numbered
    <3>2. ASSUME NEW k \in 1..Len(lq_taken') PROVE lq_taken'[k] = k - 1
      <4>1. k \in 1..Len(lq_taken) \/ k = lq_got + 1
        BY <2>4, <3>1
      <4> QED BY <2>4, <3>1, <4>1 DEF QueueInv, Numbered
    <3>3. ASSUME NEW k \in 1..Len(lq_q_') PROVE lq_q_'[k] = (lq_got' + k) - 1
      <4>1. k + 1 \in 1..Len(lq_q_) /\ k \in Nat
        BY <2>2, <3>1
      <4>2. lq_q_[k + 1] = (lq_got + (k + 1)) - 1
        BY <4>1 DEF QueueInv, Numbered
      <4> QED BY <2>2, <3>1, <4>1, <4>2
    <3> QED BY <3>1, <3>2, <3>3 DEF Numbered
  <2>7. Bounded'
    BY <1>1 DEF QueueInv, QueueTypes, Bounded, Lkq!Threads
  <2> QED BY <2>5, <2>6, <2>7 DEF QueueInv
<1> QED BY <1>2, <1>3

\* The reachable states of the queue and its two threads are those of the invariant.
THEOREM QueueInvariant == Lkq!Spec => []QueueInv
<1>0. Items \in Nat
  BY TurnsAssumption
<1>1. Lkq!Init => QueueInv
  BY <1>0, QueueBegins
<1>2. QueueInv /\ [Lkq!Next]_(Lkq!vars) => QueueInv'
  <2> SUFFICES ASSUME QueueInv, [Lkq!Next]_(Lkq!vars) PROVE QueueInv'
    OBVIOUS
  <2>1. CASE Lkq!Next
    BY <1>0, <2>1, QueueLoop, QueueLock, QueuePush, QueuePop DEF Lkq!Next
  <2>2. CASE UNCHANGED Lkq!vars
    BY <2>2 DEF Lkq!vars, QueueInv, QueueTypes, Mutex, Numbered, Bounded
  <2> QED BY <2>1, <2>2
<1> QED BY <1>1, <1>2, PTL DEF Lkq!Spec

\* For any number of items, and whichever thread gets the mutex, what was taken
\* followed by what waits is the sequence of the pushes, and both threads end with
\* all of it taken.
THEOREM QueueKept == Lkq!Spec => []Lkq!HandsOn
<1>1. QueueInv => Lkq!HandsOn
  <2> SUFFICES ASSUME QueueInv PROVE Lkq!HandsOn
    OBVIOUS
  <2>1. lq_taken \o lq_q_ = [k \in 1..lq_i |-> k - 1]
    <3>1. /\ lq_taken \o lq_q_ \in Seq(Int) /\ Len(lq_taken \o lq_q_) = lq_i
          /\ \A k \in 1..lq_i :
               (lq_taken \o lq_q_)[k] = IF k <= lq_got THEN lq_taken[k] ELSE lq_q_[k - lq_got]
      BY DEF QueueInv, QueueTypes, Numbered
    <3>2. \A k \in 1..lq_i : (lq_taken \o lq_q_)[k] = k - 1
      BY <3>1 DEF QueueInv, QueueTypes, Numbered
    <3>3. lq_taken \o lq_q_ \in [1..lq_i -> Int]
      BY <3>1, LenProperties
    <3> QED BY <3>2, <3>3
  <2>2. ASSUME lq_at = [t \in Lkq!Threads |-> "end"]
        PROVE  lq_taken = [k \in 1..Items |-> k - 1] /\ lq_q_ = <<>>
    <3>1. lq_i = Items /\ lq_got = Items
      BY <2>2 DEF QueueInv, Bounded, Lkq!Threads
    <3>2. Len(lq_taken) = Items /\ Len(lq_q_) = 0
      BY <3>1 DEF QueueInv, QueueTypes, Numbered
    <3>3. lq_q_ = <<>>
      BY <3>2 DEF QueueInv, QueueTypes
    <3>4. lq_taken = [k \in 1..Items |-> lq_taken[k]] /\ \A k \in 1..Items : lq_taken[k] = k - 1
      BY <3>2 DEF QueueInv, QueueTypes, Numbered
    <3> QED BY <3>3, <3>4
  <2>3. lq_mtx_ /= "free" <=> \E t \in Lkq!Threads : lq_at[t] = "in"
    BY DEF QueueInv, QueueTypes, Mutex, Lkq!Threads
  <2> QED BY <2>1, <2>2, <2>3 DEF Lkq!HandsOn, QueueInv, Numbered
<1> QED BY <1>1, QueueInvariant, PTL

------------------------------------------------------------------------------
(* The locked queue implements the bounded channel of FifoSpec.            *)

\* The body of push puts the next item in, and there is room for it.
LEMMA PushPuts == ASSUME Items \in Nat, QueueInv, Lkq!push PROVE Lkq!Fifo!Put
<1>1. lq_i < Items /\ lq_i \in Nat /\ lq_got \in Nat
  BY DEF Lkq!push, QueueInv, QueueTypes, Bounded
<1> QED BY <1>1 DEF Lkq!push, Lkq!Fifo!Put

\* The body of pop takes the oldest item out, or finds none.
LEMMA PopTakes == ASSUME QueueInv, Lkq!pop PROVE [Lkq!Fifo!Next]_(Lkq!Fifo!vars)
<1>1. CASE lq_q_ = <<>>
  BY <1>1 DEF Lkq!pop, Lkq!Fifo!vars
<1>2. CASE lq_q_ /= <<>>
  <2>1. lq_taken' = Append(lq_taken, Head(lq_q_)) /\ lq_got' = lq_got + 1 /\ UNCHANGED lq_i
    BY <1>2 DEF Lkq!pop
  <2>2. /\ Len(lq_q_) \in Nat \ {0} /\ lq_got = Len(lq_taken)
        /\ lq_i = lq_got + Len(lq_q_) /\ lq_got \in Nat
        /\ Head(lq_q_) = lq_q_[1] /\ lq_q_[1] = (lq_got + 1) - 1
    BY <1>2 DEF QueueInv, QueueTypes, Numbered
  <2>3. /\ lq_taken' \in Seq(Int) /\ Len(lq_taken') = lq_got + 1
        /\ \A k \in 1..lq_got : lq_taken'[k] = lq_taken[k]
        /\ lq_taken'[lq_got + 1] = lq_got
    BY <2>1, <2>2, AppendProperties DEF QueueInv, QueueTypes
  <2>4. \A k \in 1..(lq_got + 1) : lq_taken'[k] = IF k <= lq_got THEN lq_taken[k] ELSE lq_got
    <3>1. \A k \in 1..(lq_got + 1) :
            (k <= lq_got /\ k \in 1..lq_got) \/ (~(k <= lq_got) /\ k = lq_got + 1)
      BY <2>2
    <3> QED BY <2>3, <3>1
  <2>5. lq_taken' = [k \in 1..(lq_got + 1) |-> IF k <= lq_got THEN lq_taken[k] ELSE lq_got]
    <3>1. lq_taken' \in [1..(lq_got + 1) -> Int]
      BY <2>3, LenProperties
    <3> QED BY <2>4, <3>1
  <2>6. lq_got < lq_i
    BY <2>2
  <2> QED BY <2>1, <2>5, <2>6 DEF Lkq!Fifo!Next, Lkq!Fifo!Take
<1> QED BY <1>1, <1>2

\* The queue under a mutex (spsc_bench.cpp:48-63) implements the first-in first-out channel
\* that the lock-free ring implements, for any number of items.
THEOREM FifoImplemented == Lkq!Spec => Lkq!ImplementsFifo
<1>0. Items \in Nat
  BY TurnsAssumption
<1>1. Lkq!Init => Lkq!Fifo!Init
  BY DEF Lkq!Init, Lkq!Fifo!Init
<1>2. QueueInv /\ [Lkq!Next]_(Lkq!vars) => [Lkq!Fifo!Next]_(Lkq!Fifo!vars)
  <2> SUFFICES ASSUME QueueInv, [Lkq!Next]_(Lkq!vars) PROVE [Lkq!Fifo!Next]_(Lkq!Fifo!vars)
    OBVIOUS
  <2>1. CASE \/ Lkq!Loop("lprod", lq_i < Items) \/ Lkq!Loop("lcons", lq_got < Items)
             \/ \E t \in Lkq!Threads : Lkq!Lock(t)
    BY <2>1 DEF Lkq!Loop, Lkq!Lock, Lkq!Fifo!vars
  <2>2. CASE Lkq!push
    BY <1>0, <2>2, PushPuts DEF Lkq!Fifo!Next
  <2>3. CASE Lkq!pop
    BY <2>3, PopTakes
  <2>4. CASE UNCHANGED Lkq!vars
    BY <2>4 DEF Lkq!vars, Lkq!Fifo!vars
  <2> QED BY <2>1, <2>2, <2>3, <2>4 DEF Lkq!Next
<1> QED BY <1>1, <1>2, QueueInvariant, PTL DEF Lkq!Spec, Lkq!ImplementsFifo, Lkq!Fifo!Spec

------------------------------------------------------------------------------
(* AgentLoop: the calls of a batch and the history.                        *)

Call == [id : Nat \X Nat, name : STRING]
Outcome == [ok : BOOLEAN, tool : STRING \cup {"none"}, file : Int]
Reply == [role : {"assistant"}, calls : Seq(Call)]
Answer == [role : {"tool"}, id : Nat \X Nat, result : Outcome]

AgentTypes ==
  /\ ag_pc \in {"model", "dispatch", "final_answer", "raised", "max_steps_exceeded"}
  /\ ag_step \in 0..max_steps
  /\ ag_messages \in Seq(Reply \cup Answer)
  /\ ag_calls \in Seq(Call)
  /\ ag_results \in [1..Len(ag_calls) -> Outcome]
  /\ ag_file \in Nat

\* The calls of the first n messages have their answers among these.
Answered(n) ==
  \A p \in 1..n : ~Agt!Tools(ag_messages[p]) =>
    \A k \in DOMAIN ag_messages[p].calls :
      /\ p + k <= n /\ Agt!Tools(ag_messages[p + k])
      /\ ag_messages[p + k].id = ag_messages[p].calls[k].id
      /\ ag_messages[p + k].result.tool = ag_messages[p].calls[k].name

\* The edits among the first k calls of the batch, as far as they were carried out.
Carried(k) == {j \in 1..k : Agt!Changed(ag_results[j])}
Seen == Cardinality(Agt!Edited(Len(ag_messages)))

\* The batch that is carried out is the last reply; one after the other, unless none
\* of it edits, and each result has counted the edits before it.
BatchInv ==
  /\ ag_step < max_steps /\ Len(ag_calls) > 0 /\ Len(ag_messages) > 0
  /\ ag_messages[Len(ag_messages)] = [role |-> "assistant", calls |-> ag_calls]
  /\ \A k \in 1..Len(ag_calls) :
       ag_results[k] /= Agt!Nothing =>
         /\ ag_results[k].tool = ag_calls[k].name
         /\ ag_results[k].file = Seen + Cardinality(Carried(k))
         /\ Agt!parallel \/ \A j \in 1..(k - 1) : ag_results[j] /= Agt!Nothing
  /\ ag_file = Seen + Cardinality(Carried(Len(ag_calls)))
  /\ Answered(Len(ag_messages) - 1)

\* Between batches all calls are answered and the file is as the history left it.
HistoryInv ==
  /\ IF ag_pc = "dispatch" THEN BatchInv ELSE Answered(Len(ag_messages)) /\ ag_file = Seen
  /\ \A p \in 1..Len(ag_messages) : Agt!Tools(ag_messages[p]) =>
       ag_messages[p].result.file = Cardinality(Agt!Edited(p))

Replies == {p \in 1..Len(ag_messages) : ~Agt!Tools(ag_messages[p])}

\* A step is a reply and its answers.
StepInv ==
  /\ Cardinality(Replies) =
       IF ag_pc \in {"dispatch", "final_answer"} THEN ag_step + 1 ELSE ag_step
  /\ ag_pc \in {"dispatch", "final_answer"} => ag_step < max_steps
  /\ ag_pc = "final_answer" => /\ Len(ag_messages) > 0
                               /\ ag_messages[Len(ag_messages)].role = "assistant"
                               /\ ag_messages[Len(ag_messages)].calls = <<>>
  /\ ag_pc = "max_steps_exceeded" => ag_step = max_steps
  /\ ag_pc \in {"model", "raised", "max_steps_exceeded"} /\ ag_step > 0 =>
       Len(ag_messages) > 0 /\ Agt!Tools(ag_messages[Len(ag_messages)])

AgentInv == AgentTypes /\ HistoryInv /\ StepInv

\* The instance has the operator of FiniteSets under a name of its own.
LEMMA AsCounted == ASSUME NEW S PROVE Agt!Cardinality(S) = Cardinality(S)
  BY DEF Agt!Cardinality, Cardinality

LEMMA Parts ==
  ASSUME NEW n \in Nat, NEW A \in SUBSET (1..n)
  PROVE  IsFiniteSet(A) /\ Cardinality(A) \in Nat
<1>1. IsFiniteSet(1..n) BY FS_Interval
<1>2. IsFiniteSet(A) BY <1>1, FS_Subset
<1> QED BY <1>2, FS_CardinalityType

\* Numbers up to n and numbers up to m behind them.
Behind(n, m, A, B, D) ==
  /\ A \in SUBSET (1..n) /\ B \in SUBSET (1..m)
  /\ \A y : y \in D <=> y \in A \/ \E j \in B : y = n + j

LEMMA CountBehind ==
  ASSUME NEW n \in Nat, NEW m \in Nat, NEW A, NEW B, NEW D, Behind(n, m, A, B, D)
  PROVE  Cardinality(D) = Cardinality(A) + Cardinality(B)
<1> DEFINE C == {n + j : j \in B}
           f == [j \in B |-> n + j]
<1>0. /\ A \in SUBSET (1..n) /\ B \in SUBSET (1..m)
      /\ \A y : y \in D <=> y \in A \/ \E j \in B : y = n + j
  BY DEF Behind
<1>1. f \in Bijection(B, C)
  <2>1. f \in [B -> C] BY <1>0
  <2>2. \A x, y \in B : f[x] = f[y] => x = y BY <1>0
  <2>3. \A y \in C : \E x \in B : f[x] = y BY <1>0
  <2> QED BY <2>1, <2>2, <2>3 DEF Bijection, Injection, Surjection, IsInjective
<1>2. IsFiniteSet(A) /\ IsFiniteSet(B) /\ Cardinality(A) \in Nat /\ Cardinality(B) \in Nat
  BY <1>0, Parts
<1>3. IsFiniteSet(C) /\ Cardinality(C) = Cardinality(B)
  BY <1>1, <1>2, FS_Bijection DEF ExistsBijection
<1>4. A \cap C = {}
  <2>1. \A x \in A : x \in Int /\ x <= n
    BY <1>0
  <2>2. \A x \in C : ~(x <= n)
    BY <1>0
  <2> QED BY <2>1, <2>2
<1>5. Cardinality(A \cap C) = 0 BY <1>4, FS_EmptySet
<1>6. Cardinality(A \cup C) = Cardinality(A) + Cardinality(C) - Cardinality(A \cap C)
  BY <1>2, <1>3, FS_Union
<1>7. D = A \cup C BY <1>0
<1> QED BY <1>2, <1>3, <1>5, <1>6, <1>7

LEMMA AgentBegins == Agt!Init => AgentInv
<1> SUFFICES ASSUME Agt!Init PROVE AgentInv
  OBVIOUS
<1>1. /\ ag_pc = "model" /\ ag_step = 0 /\ ag_messages = <<>> /\ ag_calls = <<>>
      /\ ag_results = <<>> /\ ag_file = 0
  BY DEF Agt!Init
<1>2. Len(ag_messages) = 0 /\ Agt!Edited(0) = {} /\ Replies = {}
  BY <1>1 DEF Agt!Edited, Replies
<1>3. Seen = 0 /\ Cardinality(Replies) = 0
  BY <1>2, FS_EmptySet DEF Seen
<1>4. AgentTypes
  BY <1>1, TurnsAssumption DEF AgentTypes
<1> QED BY <1>1, <1>2, <1>3, <1>4 DEF AgentInv, HistoryInv, StepInv, Answered

\* A message that is no answer has calls, numbered from 1.
LEMMA CallsOf ==
  ASSUME NEW m \in Reply \cup Answer, ~Agt!Tools(m)
  PROVE  m \in Reply /\ m.calls \in Seq(Call) /\ DOMAIN m.calls = 1..Len(m.calls)
         /\ \A k \in DOMAIN m.calls : k \in Nat \ {0} /\ m.calls[k].name \in STRING
<1>1. m \in Reply BY DEF Answer, Agt!Tools
<1>2. m.calls \in Seq(Call) BY <1>1 DEF Reply
<1>3. \A k \in 1..Len(m.calls) : m.calls[k] \in Call BY <1>2
<1>4. DOMAIN m.calls = 1..Len(m.calls) /\ Len(m.calls) \in Nat BY <1>2
<1>5. \A k \in 1..Len(m.calls) : m.calls[k].name \in STRING BY <1>3 DEF Call
<1>6. \A k \in 1..Len(m.calls) : k \in Nat \ {0} BY <1>4
<1> HIDE DEF Reply, Call
<1> QED BY <1>1, <1>2, <1>4, <1>5, <1>6

LEMMA AgentMeans == AgentInv => Agt!CallsAnswered
<1> SUFFICES ASSUME AgentInv PROVE Agt!CallsAnswered
  OBVIOUS
<1>1. Len(ag_messages) \in Nat BY DEF AgentInv, AgentTypes
<1>2. ASSUME NEW p \in 1..Len(ag_messages), ~Agt!Tools(ag_messages[p]),
             NEW k \in DOMAIN ag_messages[p].calls
      PROVE  IF p = Len(ag_messages) THEN ag_pc = "dispatch"
             ELSE /\ p + k <= Len(ag_messages) /\ Agt!Tools(ag_messages[p + k])
                  /\ ag_messages[p + k].id = ag_messages[p].calls[k].id
                  /\ ag_messages[p + k].result.tool = ag_messages[p].calls[k].name
  <2>0. k \in Nat \ {0}
    BY <1>1, <1>2, CallsOf DEF AgentInv, AgentTypes
  <2>1. CASE ag_pc /= "dispatch"
    BY <1>1, <1>2, <2>0, <2>1 DEF AgentInv, HistoryInv, Answered
  <2>2. CASE ag_pc = "dispatch" /\ p /= Len(ag_messages)
    <3>1. p \in 1..(Len(ag_messages) - 1) /\ Answered(Len(ag_messages) - 1)
      BY <1>1, <2>2 DEF AgentInv, HistoryInv, BatchInv
    <3> QED BY <1>1, <1>2, <2>0, <2>2, <3>1 DEF Answered
  <2> QED BY <2>1, <2>2
<1>3. Cardinality(Replies) <= max_steps
  BY TurnsAssumption DEF AgentInv, AgentTypes, StepInv
<1>4. ag_pc = "max_steps_exceeded" =>
        ag_step = max_steps /\ Agt!Tools(ag_messages[Len(ag_messages)])
  BY TurnsAssumption DEF AgentInv, StepInv
<1>5. \A p \in 1..Len(ag_messages) : Agt!Tools(ag_messages[p]) =>
        ag_messages[p].result.file = Agt!Cardinality(Agt!Edited(p))
  BY AsCounted DEF AgentInv, HistoryInv
<1>6. ag_pc = "final_answer" =>
        /\ ag_messages[Len(ag_messages)].role = "assistant"
        /\ ag_messages[Len(ag_messages)].calls = <<>>
  BY DEF AgentInv, StepInv
<1>7. Agt!Cardinality({p \in 1..Len(ag_messages) : ~Agt!Tools(ag_messages[p])}) <= max_steps
  BY <1>3, AsCounted DEF Replies
<1>8. \A p \in 1..Len(ag_messages) : ~Agt!Tools(ag_messages[p]) =>
        \A k \in DOMAIN ag_messages[p].calls :
          IF p = Len(ag_messages) THEN ag_pc = "dispatch"
          ELSE /\ p + k <= Len(ag_messages) /\ Agt!Tools(ag_messages[p + k])
               /\ ag_messages[p + k].id = ag_messages[p].calls[k].id
               /\ ag_messages[p + k].result.tool = ag_messages[p].calls[k].name
  BY <1>2
<1>9. ASSUME ag_pc = "dispatch", NEW k \in DOMAIN ag_calls, ag_results[k] /= Agt!Nothing
      PROVE  /\ ag_results[k].tool = ag_calls[k].name
             /\ ag_results[k].file = Agt!Cardinality(Agt!Edited(Len(ag_messages)))
                                  + Agt!Cardinality({j \in 1..k : Agt!Changed(ag_results[j])})
             /\ Agt!parallel \/ \A j \in 1..(k - 1) : ag_results[j] /= Agt!Nothing
  <2>1. k \in 1..Len(ag_calls)
    BY <1>9 DEF AgentInv, AgentTypes
  <2>2. BatchInv
    BY <1>9 DEF AgentInv, HistoryInv
  <2>3. /\ Agt!Cardinality(Agt!Edited(Len(ag_messages))) = Seen
        /\ Agt!Cardinality({j \in 1..k : Agt!Changed(ag_results[j])}) = Cardinality(Carried(k))
    BY AsCounted DEF Seen, Carried
  <2> QED BY <1>9, <2>1, <2>2, <2>3 DEF BatchInv
<1> QED BY <1>4, <1>5, <1>6, <1>7, <1>8, <1>9 DEF Agt!CallsAnswered

\* What follows the first n messages does not matter to them.
LEMMA StillAnswered ==
  ASSUME NEW n \in Nat, \A p \in 1..n : ag_messages[p] \in Reply \cup Answer, Answered(n),
         \A p \in 1..n : ag_messages'[p] = ag_messages[p]
  PROVE  Answered(n)'
<1> SUFFICES ASSUME NEW p \in 1..n, ~Agt!Tools(ag_messages'[p]),
                    NEW k \in DOMAIN ag_messages'[p].calls
             PROVE  /\ p + k <= n /\ Agt!Tools(ag_messages'[p + k])
                    /\ ag_messages'[p + k].id = ag_messages'[p].calls[k].id
                    /\ ag_messages'[p + k].result.tool = ag_messages'[p].calls[k].name
  BY DEF Answered, Agt!Tools
<1>1. /\ p + k <= n /\ Agt!Tools(ag_messages[p + k])
      /\ ag_messages[p + k].id = ag_messages[p].calls[k].id
      /\ ag_messages[p + k].result.tool = ag_messages[p].calls[k].name
  BY DEF Answered, Agt!Tools
<1>2. k \in Nat \ {0}
  BY CallsOf DEF Agt!Tools
<1>3. p + k \in 1..n
  BY <1>1, <1>2
<1> QED BY <1>1, <1>3 DEF Agt!Tools

\* A reply without calls ends the loop, and one with calls is carried out.
LEMMA AgentCompletes ==
  ASSUME AgentInv, NEW batch \in Batches, Agt!Complete(batch),
         NEW n \in Nat, n = Len(ag_messages)
  PROVE  AgentInv'
<1> DEFINE reply == [role |-> "assistant", calls |-> ag_calls']
<1>1. /\ ag_pc = "model" /\ ag_step < max_steps
      /\ ag_calls' = [k \in DOMAIN batch |-> [id |-> <<ag_step, k>>, name |-> batch[k]]]
      /\ ag_messages' = Append(ag_messages, reply)
      /\ ag_results' = [k \in DOMAIN batch |-> Agt!Nothing]
      /\ ag_pc' = IF batch = <<>> THEN "final_answer" ELSE "dispatch"
      /\ ag_step' = ag_step /\ ag_file' = ag_file
  BY DEF Agt!Complete
<1>2. /\ ag_step \in Nat /\ ag_file \in Nat
      /\ ag_messages \in Seq(Reply \cup Answer)
      /\ batch \in Seq(STRING) /\ max_steps \in Nat
  BY TurnsAssumption DEF AgentInv, AgentTypes
<1>3. /\ ag_calls' \in Seq(Call) /\ Len(ag_calls') = Len(batch) /\ DOMAIN batch = 1..Len(batch)
      /\ ag_calls' = <<>> <=> batch = <<>>
  <2>1. /\ DOMAIN batch = 1..Len(batch) /\ Len(batch) \in Nat
        /\ \A k \in 1..Len(batch) : batch[k] \in STRING
    BY <1>2
  <2>2. ag_calls' \in [1..Len(batch) -> Call]
    BY <1>1, <1>2, <2>1 DEF Call
  <2>3. ag_calls' \in Seq(Call) /\ Len(ag_calls') = Len(batch)
    BY <2>1, <2>2
  <2> QED BY <1>2, <2>1, <2>3, EmptySeq
<1>4. reply \in Reply /\ reply.role = "assistant" /\ reply.calls = ag_calls'
  BY <1>3 DEF Reply
<1> HIDE DEF reply
<1>5. /\ ag_messages' \in Seq(Reply \cup Answer) /\ Len(ag_messages') = n + 1
      /\ \A p \in 1..n : ag_messages'[p] = ag_messages[p]
      /\ ag_messages'[n + 1] = reply
  BY <1>1, <1>2, <1>4, AppendProperties
<1>6. /\ \A p \in 1..n : Agt!Edited(p)' = Agt!Edited(p)
      /\ Agt!Edited(n + 1)' = Agt!Edited(n)
  BY <1>2, <1>4, <1>5 DEF Agt!Edited, Agt!Tools
<1>7. Replies' = Replies \cup {n + 1} /\ n + 1 \notin Replies
  BY <1>2, <1>4, <1>5 DEF Replies, Agt!Tools
<1>8. Seen' = Seen /\ ag_file = Seen /\ Answered(n)
  BY <1>1, <1>5, <1>6 DEF Seen, AgentInv, HistoryInv
<1>9. AgentTypes'
  <2>1. ag_results' \in [1..Len(ag_calls') -> Outcome]
    <3>1. Agt!Nothing \in Outcome
      <4>1. FALSE \in BOOLEAN
        OBVIOUS
      <4>2. "none" \in STRING \cup {"none"}
        OBVIOUS
      <4>3. -1 \in Int
        OBVIOUS
      <4> QED BY <4>1, <4>2, <4>3 DEF Agt!Nothing, Outcome
    <3> QED BY <1>1, <1>3, <3>1
  <2>2. ag_pc' \in {"model", "dispatch", "final_answer", "raised", "max_steps_exceeded"}
    BY <1>1
  <2> QED BY <1>1, <1>2, <1>3, <1>5, <2>1, <2>2 DEF AgentTypes
<1>10. \A p \in 1..Len(ag_messages') : Agt!Tools(ag_messages'[p]) =>
         ag_messages'[p].result.file = Cardinality(Agt!Edited(p)')
  <2> SUFFICES ASSUME NEW p \in 1..Len(ag_messages'), Agt!Tools(ag_messages'[p])
               PROVE  ag_messages'[p].result.file = Cardinality(Agt!Edited(p)')
    OBVIOUS
  <2>1. p \in 1..n
    BY <1>2, <1>4, <1>5 DEF Agt!Tools
  <2> QED BY <1>5, <1>6, <2>1 DEF AgentInv, HistoryInv
<1>11. Answered(n)'
  <2>1. \A p \in 1..n : ag_messages[p] \in Reply \cup Answer
    BY <1>2
  <2> QED BY <1>5, <1>8, <2>1, StillAnswered
<1>12. StepInv'
  <2>1. Replies \in SUBSET (1..n)
    BY DEF Replies
  <2>2. IsFiniteSet(Replies) /\ Cardinality(Replies) \in Nat
    BY <1>2, <2>1, Parts
  <2>3. Cardinality(Replies') = ag_step + 1
    BY <1>1, <1>7, <2>2, FS_AddElement DEF AgentInv, StepInv
  <2>4. ag_pc' \in {"dispatch", "final_answer"}
    BY <1>1
  <2>5. ag_pc' = "final_answer" => reply.calls = <<>>
    BY <1>1, <1>3, <1>4
  <2>6. Len(ag_messages') > 0
    BY <1>2, <1>5
  <2> QED BY <1>1, <1>2, <1>4, <1>5, <2>3, <2>4, <2>5, <2>6 DEF StepInv
<1>13. CASE batch = <<>>
  <2>1. ag_pc' = "final_answer"
    BY <1>1, <1>13
  <2>2. Answered(n + 1)'
    <3>1. DOMAIN ag_messages'[n + 1].calls = {}
      BY <1>3, <1>4, <1>5, <1>13
    <3>2. \A p \in 1..(n + 1) : p = n + 1 \/ p \in 1..n
      OBVIOUS
    <3>3. \A x \in Int : x <= n => x <= n + 1
      OBVIOUS
    <3>4. ASSUME NEW p \in 1..n, ~Agt!Tools(ag_messages'[p]),
                 NEW k \in DOMAIN ag_messages'[p].calls
          PROVE  /\ p + k <= n + 1 /\ Agt!Tools(ag_messages'[p + k])
                 /\ ag_messages'[p + k].id = ag_messages'[p].calls[k].id
                 /\ ag_messages'[p + k].result.tool = ag_messages'[p].calls[k].name
      <4>1. ag_messages'[p] \in Reply \cup Answer
        BY <1>5
      <4>2. k \in Nat
        BY <3>4, <4>1, CallsOf DEF Agt!Tools
      <4> QED BY <1>11, <3>4, <4>2, <3>3 DEF Answered, Agt!Tools
    <3> QED BY <3>1, <3>2, <3>4 DEF Answered, Agt!Tools
  <2>3. HistoryInv'
    BY <1>1, <1>5, <1>8, <1>10, <2>1, <2>2 DEF HistoryInv
  <2> QED BY <1>9, <1>12, <2>3 DEF AgentInv
<1>14. CASE batch /= <<>>
  <2>1. ag_pc' = "dispatch" /\ Len(ag_calls') > 0 /\ Len(batch) \in Nat
    BY <1>1, <1>2, <1>3, <1>14
  <2>2. Carried(Len(ag_calls))' = {}
    BY <1>1, <1>3, <2>1 DEF Carried, Agt!Changed, Agt!Nothing
  <2>3. ag_file' = (Seen + Cardinality(Carried(Len(ag_calls))))'
    <3>1. Cardinality(Carried(Len(ag_calls))') = 0
      BY <2>2, FS_EmptySet
    <3> QED BY <1>1, <1>2, <1>8, <3>1
  <2>4. BatchInv'
    BY <1>1, <1>2, <1>3, <1>5, <1>11, <2>1, <2>3 DEF BatchInv, reply
  <2>5. HistoryInv'
    BY <1>10, <2>1, <2>4 DEF HistoryInv
  <2> QED BY <1>9, <1>12, <2>5 DEF AgentInv
<1> QED BY <1>13, <1>14
\* A call is carried out in its turn, and what it reads is what the edits before it left.
LEMMA AgentDispatches ==
  ASSUME AgentInv, NEW k \in DOMAIN ag_calls, NEW ok \in BOOLEAN, Agt!dispatch(k, ok),
         NEW m \in Nat, m = Len(ag_calls)
  PROVE  AgentInv'
<1> DEFINE edit == ok /\ ag_calls[k].name = "edit_file"
           r == [ok |-> ok, tool |-> ag_calls[k].name, file |-> ag_file']
           before == {j \in 1..(k - 1) : Agt!Changed(ag_results[j])}
<1>1. /\ ag_pc = "dispatch" /\ ag_results[k] = Agt!Nothing
      /\ Agt!parallel \/ \A j \in 1..(k - 1) : ag_results[j] /= Agt!Nothing
      /\ ag_file' = IF edit THEN ag_file + 1 ELSE ag_file
      /\ ag_results' = [ag_results EXCEPT ![k] = r]
      /\ UNCHANGED <<ag_pc, ag_step, ag_messages, ag_calls>>
  BY DEF Agt!dispatch
<1>2. /\ k \in 1..m /\ \A j \in 1..m : j \in Nat
      /\ ag_results \in [1..m -> Outcome] /\ ag_file \in Nat /\ ag_file' \in Nat
      /\ ag_calls[k].name \in STRING
  <2>1. /\ DOMAIN ag_calls = 1..m /\ ag_calls \in Seq(Call) /\ ag_results \in [1..m -> Outcome]
        /\ ag_file \in Nat
    BY DEF AgentInv, AgentTypes
  <2>2. ag_calls[k] \in Call
    BY <2>1
  <2> QED BY <1>1, <2>1, <2>2 DEF Call
<1>3. r \in Outcome /\ r /= Agt!Nothing /\ (Agt!Changed(r) <=> edit)
  <2>1. r \in Outcome
    BY <1>2 DEF Outcome
  <2>2. r.file /= Agt!Nothing.file
    BY <1>2 DEF Agt!Nothing
  <2>3. Agt!Changed(r) <=> edit
    BY DEF Agt!Changed
  <2> QED BY <2>1, <2>2, <2>3
<1>4. /\ ag_results' \in [1..m -> Outcome]
      /\ \A j \in 1..m : ag_results'[j] = IF j = k THEN r ELSE ag_results[j]
      /\ r.tool = ag_calls[k].name /\ r.file = ag_file'
  BY <1>1, <1>2, <1>3
<1> HIDE DEF r
<1>5. AgentTypes'
  BY <1>1, <1>2, <1>4 DEF AgentInv, AgentTypes
<1>6. BatchInv /\ Seen' = Seen /\ Seen \in Nat
  <2>1. BatchInv /\ Seen' = Seen
    BY <1>1 DEF AgentInv, HistoryInv, Seen, Agt!Edited
  <2>2. /\ Len(ag_messages) \in Nat
        /\ Agt!Edited(Len(ag_messages)) \in SUBSET (1..Len(ag_messages))
    BY DEF AgentInv, AgentTypes, Agt!Edited
  <2> QED BY <2>1, <2>2, Parts DEF Seen
<1>7. (Agt!parallel)' <=> Agt!parallel
  BY <1>1 DEF Agt!parallel
<1>8. ~Agt!Changed(Agt!Nothing)
  BY DEF Agt!Changed, Agt!Nothing
<1>s. SUFFICES /\ ag_file' = Seen + Cardinality(Carried(m)')
               /\ \A j \in 1..m : ag_results'[j] /= Agt!Nothing =>
                     /\ ag_results'[j].tool = ag_calls[j].name
                     /\ ag_results'[j].file = Seen + Cardinality(Carried(j)')
                     /\ Agt!parallel \/ \A i \in 1..(j - 1) : ag_results'[i] /= Agt!Nothing
  <2> DEFINE Goal == /\ ag_file' = Seen + Cardinality(Carried(m)')
                     /\ \A j \in 1..m : ag_results'[j] /= Agt!Nothing =>
                           /\ ag_results'[j].tool = ag_calls[j].name
                           /\ ag_results'[j].file = Seen + Cardinality(Carried(j)')
                           /\ Agt!parallel \/ \A i \in 1..(j - 1) : ag_results'[i] /= Agt!Nothing
  <2>1. Answered(Len(ag_messages) - 1)'
    BY <1>1, <1>6 DEF BatchInv, Answered
  <2>2. ASSUME Goal PROVE BatchInv'
    BY <1>1, <1>6, <1>7, <2>1, <2>2 DEF BatchInv
  <2>3. StepInv'
    BY <1>1 DEF AgentInv, StepInv, Replies
  <2>4. ASSUME BatchInv' PROVE HistoryInv'
    <3>1. ag_pc' = "dispatch" BY <1>1
    <3>2. \A p \in 1..Len(ag_messages') : Agt!Tools(ag_messages'[p]) =>
            ag_messages'[p].result.file = Cardinality(Agt!Edited(p)')
      BY <1>1 DEF AgentInv, HistoryInv, Agt!Edited
    <3> QED BY <2>4, <3>1, <3>2 DEF HistoryInv
  <2>5. Goal => AgentInv'
    BY <1>5, <2>2, <2>3, <2>4 DEF AgentInv
  <2> QED BY <2>5
<1>9. CASE Agt!parallel
  <2>1. \A j \in 1..m : ag_calls[j].name = "read_file"
    BY <1>2, <1>9 DEF Agt!parallel, Agt!is_readonly, AgentInv, AgentTypes
  <2>2. \A j \in 1..m : ag_results[j] /= Agt!Nothing => ag_results[j].tool = "read_file"
    BY <1>6, <2>1 DEF BatchInv
  <2>3. \A j \in 1..m : ~Agt!Changed(ag_results[j]) /\ ~Agt!Changed(ag_results'[j])
    BY <1>2, <1>3, <1>4, <1>8, <2>1, <2>2 DEF Agt!Changed
  <2>4. \A j \in 1..m : Carried(j) = {} /\ Carried(j)' = {}
    BY <2>3 DEF Carried
  <2>0. \A j \in 1..m : Cardinality(Carried(j)) = 0 /\ Cardinality(Carried(j)') = 0
    BY <2>4, FS_EmptySet, Zenon
  <2>5. ag_file' = Seen
    <3>1. m \in 1..m /\ ~edit
      BY <1>2, <2>1
    <3>2. ag_file = Seen + Cardinality(Carried(m)) /\ Cardinality(Carried(m)) = 0
      BY <1>6, <2>0, <3>1 DEF BatchInv
    <3>3. ag_file' = ag_file
      BY <1>1, <3>1
    <3> QED BY <1>6, <3>2, <3>3
  <2>6. \A j \in 1..m : Seen + Cardinality(Carried(j)') = Seen
    BY <1>6, <2>0
  <2>7. m \in 1..m
    BY <1>2
  <2>8. ASSUME NEW j \in 1..m, ag_results'[j] /= Agt!Nothing
        PROVE  ag_results'[j].tool = ag_calls[j].name /\ ag_results'[j].file = Seen
    <3>1. CASE j = k
      BY <1>4, <2>5, <3>1
    <3>2. CASE j /= k
      <4>1. ag_results'[j] = ag_results[j] /\ ag_results[j] /= Agt!Nothing
        BY <1>4, <2>8, <3>2
      <4>2. /\ ag_results[j].tool = ag_calls[j].name
            /\ ag_results[j].file = Seen + Cardinality(Carried(j))
        BY <1>6, <4>1 DEF BatchInv
      <4> QED BY <1>6, <2>0, <4>1, <4>2
    <3> QED BY <3>1, <3>2
  <2> QED BY <1>9, <2>5, <2>6, <2>7, <2>8
<1>10. CASE ~Agt!parallel
  <2>1. \A j \in 1..m : ag_results[j] /= Agt!Nothing <=> j < k
    <3>1. \A j \in 1..(k - 1) : ag_results[j] /= Agt!Nothing
      BY <1>1, <1>10
    <3>2. ASSUME NEW j \in 1..m, ag_results[j] /= Agt!Nothing PROVE j < k
      <4>1. \A i \in 1..(j - 1) : ag_results[i] /= Agt!Nothing
        BY <1>6, <1>10, <3>2 DEF BatchInv
      <4>2. k \notin 1..(j - 1) /\ j /= k
        BY <1>1, <3>2, <4>1
      <4> QED BY <1>2, <4>2
    <3>3. \A j \in 1..m : j < k => j \in 1..(k - 1)
      BY <1>2
    <3> QED BY <3>1, <3>2, <3>3
  <2>2. before \in SUBSET (1..m) /\ k \notin before /\ k \in Nat
    BY <1>2
  <2>3. IsFiniteSet(before) /\ Cardinality(before) \in Nat
    BY <2>2, Parts
  <2>4. Carried(m) = before
    BY <1>2, <1>8, <2>1 DEF Carried
  <2>5. \A j \in 1..m : j < k => Carried(j)' = Carried(j)
    BY <1>2, <1>4 DEF Carried
  <2>6. /\ Carried(k)' = IF edit THEN before \cup {k} ELSE before
        /\ Carried(m)' = IF edit THEN before \cup {k} ELSE before
    <3>1. \A j \in 1..m : j < k => (Agt!Changed(ag_results'[j]) <=> Agt!Changed(ag_results[j]))
      BY <1>2, <1>4
    <3>2. \A j \in 1..m : j > k => ~Agt!Changed(ag_results'[j])
      <4>1. \A j \in 1..m : j > k => ag_results'[j] = Agt!Nothing
        BY <1>2, <1>4, <2>1
      <4> QED BY <1>8, <4>1
    <3>3. Agt!Changed(ag_results'[k]) <=> edit
      BY <1>2, <1>3, <1>4
    <3>4. \A j \in 1..m : j < k \/ j = k \/ j > k
      BY <1>2
    <3> HIDE DEF edit
    <3>5. ASSUME NEW n \in 1..m, n >= k
          PROVE  {j \in 1..n : Agt!Changed(ag_results'[j])}
                   = IF edit THEN before \cup {k} ELSE before
      <4>1. \A j \in 1..n : j \in 1..m
        BY <1>2
      <4>2. \A j \in 1..m : j \in 1..(k - 1) <=> j < k
        BY <1>2
      <4>3. \A j \in 1..(k - 1) : j \in 1..n /\ j < k /\ j /= k
        BY <1>2, <3>5
      <4>4. k \in 1..n
        BY <1>2, <3>5
      <4>5. CASE edit
        BY <3>1, <3>2, <3>3, <3>4, <4>1, <4>2, <4>3, <4>4, <4>5
      <4>6. CASE ~edit
        BY <3>1, <3>2, <3>3, <3>4, <4>1, <4>2, <4>3, <4>4, <4>6
      <4> QED BY <4>5, <4>6
    <3>6. k >= k /\ m \in 1..m /\ m >= k
      BY <1>2
    <3> QED BY <1>2, <3>5, <3>6 DEF Carried
  <2> HIDE DEF edit, before
  <2>7. /\ ag_file' = Seen + Cardinality(Carried(k)')
        /\ ag_file' = Seen + Cardinality(Carried(m)')
    <3>1. ag_file = Seen + Cardinality(before)
      BY <1>6, <2>4 DEF BatchInv
    <3>2. CASE edit
      <4>1. Cardinality(before \cup {k}) = Cardinality(before) + 1
        BY <2>2, <2>3, FS_AddElement
      <4> QED BY <1>1, <1>6, <2>3, <2>6, <3>1, <3>2, <4>1
    <3>3. CASE ~edit
      BY <1>1, <2>6, <3>1, <3>3
    <3> QED BY <3>2, <3>3
  <2>8. ASSUME NEW j \in 1..m, ag_results'[j] /= Agt!Nothing
        PROVE  /\ ag_results'[j].tool = ag_calls[j].name
               /\ ag_results'[j].file = Seen + Cardinality(Carried(j)')
               /\ \A i \in 1..(j - 1) : ag_results'[i] /= Agt!Nothing
    <3>1. j < k \/ j = k
      BY <1>4, <2>1, <2>8
    <3>2. \A i \in 1..(j - 1) : i \in 1..m /\ i < k /\ i /= k
      BY <1>2, <3>1
    <3>3. \A i \in 1..(j - 1) : ag_results'[i] /= Agt!Nothing
      BY <1>4, <2>1, <3>2
    <3>4. CASE j = k
      BY <1>4, <2>7, <3>3, <3>4
    <3>5. CASE j < k
      <4>1. ag_results'[j] = ag_results[j] /\ ag_results[j] /= Agt!Nothing
        BY <1>2, <1>4, <2>1, <3>5
      <4> QED BY <1>6, <2>5, <3>3, <3>5, <4>1 DEF BatchInv
    <3> QED BY <3>1, <3>4, <3>5
  <2> QED BY <2>7, <2>8
<1> QED BY <1>9, <1>10
\* The results of a batch go behind the reply they answer, in the order of its calls.
LEMMA AgentAppends ==
  ASSUME AgentInv, Agt!Append_results,
         NEW n \in Nat, n = Len(ag_messages), NEW m \in Nat, m = Len(ag_calls)
  PROVE  AgentInv'
<1> DEFINE answer(k) == [role |-> "tool", id |-> ag_calls[k].id, result |-> ag_results[k]]
           answers == [k \in DOMAIN ag_calls |-> answer(k)]
<1>1. /\ ag_pc = "dispatch" /\ ag_pc' = "model" /\ ag_step' = ag_step + 1
      /\ ag_messages' = ag_messages \o answers
      /\ \A k \in 1..m : ag_results[k] /= Agt!Nothing
      /\ UNCHANGED <<ag_calls, ag_results, ag_file>>
  <2>1. DOMAIN ag_calls = 1..m BY DEF AgentInv, AgentTypes
  <2> QED BY <2>1 DEF Agt!Append_results
<1>2. /\ ag_messages \in Seq(Reply \cup Answer) /\ ag_calls \in Seq(Call)
      /\ ag_results \in [1..m -> Outcome] /\ ag_file \in Nat /\ ag_step \in 0..max_steps
      /\ DOMAIN ag_calls = 1..m
  BY DEF AgentInv, AgentTypes
<1>3. BatchInv /\ ag_step < max_steps /\ m > 0 /\ n > 0
  BY <1>1 DEF AgentInv, HistoryInv, BatchInv
<1>4. /\ answers \in Seq(Answer) /\ Len(answers) = m
      /\ \A k \in 1..m : answers[k] = answer(k) /\ answer(k) \in Answer
  <2>1. \A k \in 1..m : ag_calls[k] \in Call
    BY <1>2
  <2>2. \A k \in 1..m : answer(k) \in Answer
    BY <1>2, <2>1 DEF Call, Answer
  <2> QED BY <1>2, <2>2
<1>5. \A k \in 1..m : /\ Agt!Tools(answer(k)) /\ answer(k).id = ag_calls[k].id
                      /\ answer(k).result = ag_results[k]
  BY DEF Agt!Tools
<1> HIDE DEF answer
<1>6. /\ ag_messages' \in Seq(Reply \cup Answer) /\ Len(ag_messages') = n + m
      /\ \A p \in 1..n : ag_messages'[p] = ag_messages[p]
      /\ \A k \in 1..m : ag_messages'[n + k] = answer(k)
  <2>1. answers \in Seq(Reply \cup Answer)
    BY <1>4
  <2> HIDE DEF answers
  <2>2. /\ ag_messages' \in Seq(Reply \cup Answer) /\ Len(ag_messages') = n + m
        /\ \A p \in 1..(n + m) :
             ag_messages'[p] = IF p <= n THEN ag_messages[p] ELSE answers[p - n]
    <3>1. /\ ag_messages \o answers \in Seq(Reply \cup Answer)
          /\ Len(ag_messages \o answers) = Len(ag_messages) + Len(answers)
          /\ \A p \in 1..(Len(ag_messages) + Len(answers)) :
               (ag_messages \o answers)[p] =
                 IF p <= Len(ag_messages) THEN ag_messages[p] ELSE answers[p - Len(ag_messages)]
      BY <1>2, <2>1, ConcatProperties, Zenon
    <3> QED BY <1>1, <1>4, <3>1
  <2>3. \A k \in 1..m : n + k \in 1..(n + m) /\ ~(n + k <= n) /\ (n + k) - n = k
    OBVIOUS
  <2>4. \A p \in 1..n : p \in 1..(n + m) /\ p <= n
    OBVIOUS
  <2>5. \A p \in 1..n : ag_messages'[p] = ag_messages[p]
    BY <2>2, <2>4
  <2>6. ASSUME NEW k \in 1..m PROVE ag_messages'[n + k] = answer(k)
    <3>1. ag_messages'[n + k] = answers[(n + k) - n]
      BY <2>2, <2>3
    <3> QED BY <1>4, <2>3, <3>1
  <2> QED BY <2>2, <2>5, <2>6
<1>7. \A p \in 1..(n + m) : p \in 1..n \/ \E k \in 1..m : p = n + k
  <2>1. ASSUME NEW p \in 1..(n + m), p \notin 1..n PROVE \E k \in 1..m : p = n + k
    <3>1. p - n \in 1..m /\ p = n + (p - n)
      BY <2>1
    <3> QED BY <3>1
  <2> QED BY <2>1
<1>8. \A p \in 1..n : Agt!Edited(p)' = Agt!Edited(p)
  BY <1>6 DEF Agt!Edited
<1>9. ASSUME NEW k \in 1..m
      PROVE  Agt!Edited(n + k)' = Agt!Edited(n) \cup {n + j : j \in Carried(k)}
  <2> DEFINE E(q) == Agt!Tools(ag_messages'[q]) /\ Agt!Changed(ag_messages'[q].result)
  <2>1. \A q \in 1..n : E(q) <=> q \in Agt!Edited(n)
    BY <1>6 DEF Agt!Edited
  <2>2. \A j \in 1..m : E(n + j) <=> Agt!Changed(ag_results[j])
    BY <1>5, <1>6
  <2>3. \A j \in 1..k : j \in 1..m /\ n + j \in 1..(n + k)
    OBVIOUS
  <2>4. \A q \in 1..n : q \in 1..(n + k)
    OBVIOUS
  <2>5. ASSUME NEW q \in 1..(n + k), q \notin 1..n PROVE \E j \in 1..k : q = n + j
    <3>1. q - n \in 1..k /\ q = n + (q - n)
      BY <2>5
    <3> QED BY <3>1
  <2>6. Agt!Edited(n + k)' = {q \in 1..(n + k) : E(q)}
    BY DEF Agt!Edited
  <2>7. Agt!Edited(n) \subseteq 1..n
    BY DEF Agt!Edited
  <2> HIDE DEF E
  <2>8. \A q \in 1..n : q \in {x \in 1..(n + k) : E(x)} <=> q \in Agt!Edited(n)
    BY <2>1, <2>4
  <2>9. \A j \in 1..k : n + j \in {x \in 1..(n + k) : E(x)} <=> j \in Carried(k)
    BY <2>2, <2>3 DEF Carried
  <2>10. Carried(k) \subseteq 1..k
    BY DEF Carried
  <2>11. {x \in 1..(n + k) : E(x)} \subseteq Agt!Edited(n) \cup {n + j : j \in Carried(k)}
    BY <2>5, <2>8, <2>9
  <2>12. Agt!Edited(n) \cup {n + j : j \in Carried(k)} \subseteq {x \in 1..(n + k) : E(x)}
    BY <2>7, <2>8, <2>9, <2>10
  <2> QED BY <2>6, <2>11, <2>12
<1>10. \A k \in 1..m : Cardinality(Agt!Edited(n + k)') = Seen + Cardinality(Carried(k))
  <2> SUFFICES ASSUME NEW k \in 1..m
               PROVE  Cardinality(Agt!Edited(n + k)') = Seen + Cardinality(Carried(k))
    OBVIOUS
  <2>1. Agt!Edited(n) \in SUBSET (1..n) /\ Carried(k) \in SUBSET (1..m)
    BY DEF Agt!Edited, Carried
  <2>2. \A y : y \in Agt!Edited(n + k)' <=>
                y \in Agt!Edited(n) \/ \E j \in Carried(k) : y = n + j
    BY <1>9
  <2>3. Cardinality(Agt!Edited(n + k)') = Cardinality(Agt!Edited(n)) + Cardinality(Carried(k))
    <3>1. Behind(n, m, Agt!Edited(n), Carried(k), Agt!Edited(n + k)')
      BY <2>1, <2>2 DEF Behind
    <3> QED BY <3>1, CountBehind
  <2> QED BY <2>3 DEF Seen
<1>11. AgentTypes'
  BY <1>1, <1>2, <1>3, <1>6, TurnsAssumption DEF AgentTypes
<1>12. ag_file' = Seen'
  <2>1. m \in 1..m /\ ag_file = Seen + Cardinality(Carried(m))
    BY <1>3 DEF BatchInv
  <2>2. Cardinality(Agt!Edited(n + m)') = Seen + Cardinality(Carried(m))
    BY <1>10, <2>1
  <2> QED BY <1>1, <1>6, <2>1, <2>2 DEF Seen
<1>13. \A p \in 1..Len(ag_messages') : Agt!Tools(ag_messages'[p]) =>
         ag_messages'[p].result.file = Cardinality(Agt!Edited(p)')
  <2>1. ASSUME NEW p \in 1..n, Agt!Tools(ag_messages'[p])
        PROVE  ag_messages'[p].result.file = Cardinality(Agt!Edited(p)')
    BY <1>6, <1>8, <2>1 DEF AgentInv, HistoryInv
  <2>2. ASSUME NEW k \in 1..m
        PROVE  ag_messages'[n + k].result.file = Cardinality(Agt!Edited(n + k)')
    <3>1. ag_messages'[n + k].result = ag_results[k]
      BY <1>5, <1>6
    <3>2. ag_results[k].file = Seen + Cardinality(Carried(k))
      BY <1>1, <1>3 DEF BatchInv
    <3> QED BY <1>10, <3>1, <3>2
  <2>3. Len(ag_messages') = n + m
    BY <1>6
  <2>4. ASSUME NEW p \in 1..Len(ag_messages'), Agt!Tools(ag_messages'[p])
        PROVE  ag_messages'[p].result.file = Cardinality(Agt!Edited(p)')
    <3>1. p \in 1..n \/ (p - n \in 1..m /\ p = n + (p - n))
      BY <1>1, <2>3
    <3>2. CASE p \in 1..n
      BY <2>1, <2>4, <3>2
    <3>3. CASE p - n \in 1..m /\ p = n + (p - n)
      BY <2>2, <3>3
    <3> QED BY <3>1, <3>2, <3>3
  <2> QED BY <2>4
<1>14. Answered(n + m)'
  <2> DEFINE A(p, k) == /\ p + k <= n + m /\ Agt!Tools(ag_messages'[p + k])
                        /\ ag_messages'[p + k].id = ag_messages'[p].calls[k].id
                        /\ ag_messages'[p + k].result.tool = ag_messages'[p].calls[k].name
  <2>1. ASSUME NEW p \in 1..(n - 1), ~Agt!Tools(ag_messages'[p]),
               NEW k \in DOMAIN ag_messages'[p].calls
        PROVE  A(p, k)
    <3>1. p \in 1..n /\ ag_messages'[p] = ag_messages[p] /\ ag_messages[p] \in Reply \cup Answer
      BY <1>2, <1>6
    <3>2. k \in Nat \ {0}
      BY <2>1, <3>1, CallsOf
    <3>3. /\ p + k <= n - 1 /\ Agt!Tools(ag_messages[p + k])
          /\ ag_messages[p + k].id = ag_messages[p].calls[k].id
          /\ ag_messages[p + k].result.tool = ag_messages[p].calls[k].name
      BY <1>3, <2>1, <3>1 DEF BatchInv, Answered
    <3>4. p + k \in 1..n /\ p + k <= n + m
      BY <3>1, <3>2, <3>3
    <3> QED BY <1>6, <3>1, <3>3, <3>4
  <2>2. ASSUME NEW k \in DOMAIN ag_messages'[n].calls PROVE A(n, k)
    <3>1. ag_messages'[n] = [role |-> "assistant", calls |-> ag_calls]
      BY <1>3, <1>6 DEF BatchInv
    <3>2. ag_messages'[n].calls = ag_calls /\ k \in 1..m
      BY <1>2, <2>2, <3>1
    <3>3. ag_messages'[n + k] = answer(k)
      BY <1>6, <3>2
    <3>5. n + k <= n + m
      BY <3>2
    <3>4. ag_results[k].tool = ag_calls[k].name
      BY <1>1, <1>3, <3>2 DEF BatchInv
    <3> QED BY <1>5, <3>2, <3>3, <3>4, <3>5
  <2>3. \A k \in 1..m : Agt!Tools(ag_messages'[n + k])
    BY <1>5, <1>6
  <2>4. \A p \in 1..n : p \in 1..(n - 1) \/ p = n
    OBVIOUS
  <2> HIDE DEF A
  <2>5. \A p \in 1..(n + m) : ~Agt!Tools(ag_messages'[p]) =>
          \A k \in DOMAIN ag_messages'[p].calls : A(p, k)
    BY <1>7, <2>1, <2>2, <2>3, <2>4
  <2> QED BY <2>5 DEF Answered, A, Agt!Tools
<1>15. StepInv'
  <2>1. Replies' = Replies
    <3>1. \A k \in 1..m : Agt!Tools(ag_messages'[n + k])
      BY <1>5, <1>6
    <3>2. \A p \in 1..n : p \in 1..(n + m)
      OBVIOUS
    <3> QED BY <1>6, <1>7, <3>1, <3>2 DEF Replies
  <2>2. Cardinality(Replies) = ag_step + 1
    BY <1>1 DEF AgentInv, StepInv
  <2>3. n + m > 0 /\ Agt!Tools(ag_messages'[n + m])
    <3>1. m \in 1..m BY <1>3
    <3> QED BY <1>5, <1>6, <3>1
  <2> QED BY <1>1, <1>6, <2>1, <2>2, <2>3 DEF StepInv
<1>16. HistoryInv'
  BY <1>1, <1>6, <1>12, <1>13, <1>14 DEF HistoryInv
<1> QED BY <1>11, <1>15, <1>16 DEF AgentInv

LEMMA AgentEnds ==
  ASSUME AgentInv, Agt!Exhausted \/ Agt!GiveUp
  PROVE  AgentInv'
<1>1. /\ ag_pc = "model" /\ ag_pc' \in {"raised", "max_steps_exceeded"}
      /\ ag_pc' = "max_steps_exceeded" => ag_step = max_steps
      /\ UNCHANGED <<ag_step, ag_messages, ag_calls, ag_results, ag_file>>
  BY DEF Agt!Exhausted, Agt!GiveUp
<1>2. AgentTypes'
  BY <1>1 DEF AgentInv, AgentTypes
<1>3. HistoryInv'
  BY <1>1 DEF AgentInv, HistoryInv, Answered, Seen, Agt!Edited
<1>4. StepInv'
  BY <1>1 DEF AgentInv, StepInv, Replies
<1> QED BY <1>2, <1>3, <1>4 DEF AgentInv

\* Every call of every batch is answered once and in its place, and read the file as the
\* history before it left it; while a batch is carried out its results are those of its
\* first calls, or in parallel of any, each after the edits before it: for any tools,
\* batches and number of steps, and whatever order a batch of reads is carried out in
\* (loop.py, tools.py).
THEOREM AgentKept == Agt!Spec => []Agt!CallsAnswered
<1>1. AgentInv /\ [Agt!Next]_(Agt!vars) => AgentInv'
  <2> SUFFICES ASSUME AgentInv, [Agt!Next]_(Agt!vars) PROVE AgentInv'
    OBVIOUS
  <2>1. Len(ag_messages) \in Nat /\ Len(ag_calls) \in Nat
    BY DEF AgentInv, AgentTypes
  <2>2. CASE Agt!Next
    BY <2>1, <2>2, AgentCompletes, AgentDispatches, AgentAppends, AgentEnds DEF Agt!Next
  <2>3. CASE UNCHANGED Agt!vars
    BY <2>3 DEF Agt!vars, AgentInv, AgentTypes, HistoryInv, BatchInv, StepInv, Answered, Seen,
                Carried, Replies, Agt!Edited, Agt!parallel
  <2> QED BY <2>2, <2>3
<1> QED BY <1>1, AgentBegins, AgentMeans, PTL DEF Agt!Spec

------------------------------------------------------------------------------
\* The parties of all these programs take their turns to the end, for every value of
\* the constants.
THEOREM TurnsTaken ==
  Wait!PingSpec /\ Wait!TimedSpec /\ Lkq!Spec /\ Sig!Spec /\ Agt!Spec => []TakenInTurn
<1>1. /\ Wait!Alternate /\ Wait!TimeoutIsOver /\ Lkq!HandsOn /\ Sig!TakenInTurn
      /\ Agt!CallsAnswered
      => TakenInTurn
  BY DEF TakenInTurn
<1> QED BY <1>1, QueueKept, PingKept, TimedKept, SignalsKept, AgentKept, PTL

------------------------------------------------------------------------------
(***************************************************************************)
(* Undo and redo, whatever is typed and for any number of edits.           *)
(***************************************************************************)
Text == Seq(STRING)
Command == [kind : {"insert", "delete"}, pos : Nat, data : Text]

LEMMA InsertedIs ==
  ASSUME NEW s \in Text, NEW w \in Text, NEW p \in 0..Len(s)
  PROVE  /\ Undo!inserted(s, p, w) \in Text
         /\ Len(Undo!inserted(s, p, w)) = Len(s) + Len(w)
         /\ \A i \in 1..(Len(s) + Len(w)) :
              Undo!inserted(s, p, w)[i] = IF i <= p THEN s[i]
                                          ELSE IF i <= p + Len(w) THEN w[i - p]
                                          ELSE s[i - Len(w)]
<1> DEFINE a == SubSeq(s, 1, p)
           b == SubSeq(s, p + 1, Len(s))
<1>1. Len(s) \in Nat /\ Len(w) \in Nat /\ \A i \in 1..Len(s) : s[i] \in STRING
  BY DEF Text
<1>2. a \in Text /\ Len(a) = p /\ \A i \in 1..p : a[i] = s[i]
  BY <1>1, SubSeqProperties DEF Text
<1>3. b \in Text /\ Len(b) = Len(s) - p /\ \A i \in 1..(Len(s) - p) : b[i] = s[p + i]
  BY <1>1, SubSeqProperties DEF Text
<1> HIDE DEF a, b
<1>4. /\ a \o w \in Text /\ Len(a \o w) = p + Len(w)
      /\ \A i \in 1..(p + Len(w)) : (a \o w)[i] = IF i <= p THEN a[i] ELSE w[i - p]
  BY <1>1, <1>2, ConcatProperties DEF Text
<1> DEFINE c == a \o w
<1> HIDE DEF c
<1>c. c \in Text /\ Len(c) = p + Len(w)
  BY <1>4 DEF c
<1>d. /\ c \o b \in Text /\ Len(c \o b) = Len(c) + Len(b)
      /\ \A i \in 1..(Len(c) + Len(b)) : (c \o b)[i] = IF i <= Len(c) THEN c[i] ELSE b[i - Len(c)]
  BY ONLY <1>c, <1>3, ConcatProperties DEF Text
<1>5. /\ c \o b \in Text /\ Len(c \o b) = Len(s) + Len(w)
      /\ \A i \in 1..(Len(s) + Len(w)) :
           (c \o b)[i] = IF i <= p + Len(w) THEN c[i] ELSE b[i - (p + Len(w))]
  BY <1>1, <1>3, <1>c, <1>d
<1>6. Undo!inserted(s, p, w) = c \o b
  BY DEF Undo!inserted, a, b, c
<1>7. ASSUME NEW i \in 1..(Len(s) + Len(w))
      PROVE  Undo!inserted(s, p, w)[i] = IF i <= p THEN s[i]
                                         ELSE IF i <= p + Len(w) THEN w[i - p]
                                         ELSE s[i - Len(w)]
  <2>1. CASE i <= p + Len(w)
    BY <1>1, <1>2, <1>4, <1>5, <1>6, <2>1 DEF c
  <2>2. CASE i > p + Len(w)
    <3>1. i - (p + Len(w)) \in 1..(Len(s) - p) /\ p + (i - (p + Len(w))) = i - Len(w)
      BY <1>1, <2>2
    <3>2. b[i - (p + Len(w))] = s[i - Len(w)]
      BY <1>3, <3>1
    <3>3. Undo!inserted(s, p, w)[i] = b[i - (p + Len(w))]
      BY <1>1, <1>5, <1>6, <2>2
    <3> QED BY <1>1, <2>2, <3>2, <3>3
  <2> QED BY <1>1, <2>1, <2>2
<1> QED BY <1>5, <1>6, <1>7

LEMMA ErasedIs ==
  ASSUME NEW s \in Text, NEW p \in 0..Len(s), NEW l \in 0..(Len(s) - p)
  PROVE  /\ Undo!erased(s, p, l) \in Text
         /\ Len(Undo!erased(s, p, l)) = Len(s) - l
         /\ \A i \in 1..(Len(s) - l) :
              Undo!erased(s, p, l)[i] = IF i <= p THEN s[i] ELSE s[i + l]
<1> DEFINE a == SubSeq(s, 1, p)
           b == SubSeq(s, p + l + 1, Len(s))
<1>1. Len(s) \in Nat /\ \A i \in 1..Len(s) : s[i] \in STRING
  BY DEF Text
<1>2. a \in Text /\ Len(a) = p /\ \A i \in 1..p : a[i] = s[i]
  BY <1>1, SubSeqProperties DEF Text
<1>3. /\ b \in Text /\ Len(b) = Len(s) - p - l
      /\ \A i \in 1..(Len(s) - p - l) : b[i] = s[p + l + i]
  BY <1>1, SubSeqProperties DEF Text
<1> HIDE DEF a, b
<1>4. /\ a \o b \in Text /\ Len(a \o b) = Len(s) - l
      /\ \A i \in 1..(Len(s) - l) : (a \o b)[i] = IF i <= p THEN a[i] ELSE b[i - p]
  BY <1>1, <1>2, <1>3, ConcatProperties DEF Text
<1>5. Undo!erased(s, p, l) = a \o b
  BY DEF Undo!erased, a, b
<1>6. ASSUME NEW i \in 1..(Len(s) - l)
      PROVE  Undo!erased(s, p, l)[i] = IF i <= p THEN s[i] ELSE s[i + l]
  <2>1. CASE i <= p
    BY <1>1, <1>2, <1>4, <1>5, <2>1
  <2>2. CASE i > p
    <3>1. i - p \in 1..(Len(s) - p - l) /\ p + l + (i - p) = i + l
      BY <1>1, <2>2
    <3> QED BY <1>1, <1>3, <1>4, <1>5, <2>2, <3>1
  <2> QED BY <1>1, <2>1, <2>2
<1> QED BY <1>4, <1>5, <1>6

LEMMA InsertBack ==
  ASSUME NEW s \in Text, NEW w \in Text, NEW p \in 0..Len(s)
  PROVE  Undo!erased(Undo!inserted(s, p, w), p, Len(w)) = s
<1> DEFINE t == Undo!inserted(s, p, w)
           r == Undo!erased(t, p, Len(w))
<1>1. Len(s) \in Nat /\ Len(w) \in Nat
  BY DEF Text
<1>2. /\ t \in Text /\ Len(t) = Len(s) + Len(w)
      /\ \A i \in 1..(Len(s) + Len(w)) :
           t[i] = IF i <= p THEN s[i] ELSE IF i <= p + Len(w) THEN w[i - p] ELSE s[i - Len(w)]
  BY InsertedIs
<1> HIDE DEF t
<1>3. p \in 0..Len(t) /\ Len(w) \in 0..(Len(t) - p)
  BY <1>1, <1>2
<1>4. /\ r \in Text /\ Len(r) = Len(t) - Len(w)
      /\ \A i \in 1..(Len(t) - Len(w)) : r[i] = IF i <= p THEN t[i] ELSE t[i + Len(w)]
  BY ONLY <1>2, <1>3, ErasedIs
<1> HIDE DEF r
<1>5. ASSUME NEW i \in 1..Len(s) PROVE r[i] = s[i]
  <2>1. r[i] = IF i <= p THEN t[i] ELSE t[i + Len(w)]
    BY <1>1, <1>2, <1>4
  <2>2. CASE i <= p
    BY <1>1, <1>2, <2>1, <2>2
  <2>3. CASE i > p
    <3>1. i + Len(w) \in 1..(Len(s) + Len(w)) /\ i + Len(w) > p + Len(w)
          /\ (i + Len(w)) - Len(w) = i
      BY <1>1, <2>3
    <3>2. t[i + Len(w)] = s[(i + Len(w)) - Len(w)]
      BY <1>1, <1>2, <3>1
    <3> QED BY <1>1, <2>1, <2>3, <3>1, <3>2
  <2> QED BY <1>1, <2>2, <2>3
<1>6. r = s
  BY <1>1, <1>2, <1>4, <1>5, SeqEqual DEF Text
<1> QED BY <1>6 DEF r, t

LEMMA MergedIs ==
  ASSUME NEW s \in Text, NEW w \in Text, NEW x \in Text, NEW p \in 0..Len(s)
  PROVE  Undo!inserted(Undo!inserted(s, p, w), p + Len(w), x) = Undo!inserted(s, p, w \o x)
<1> DEFINE t == Undo!inserted(s, p, w)
           r == Undo!inserted(t, p + Len(w), x)
           q == Undo!inserted(s, p, w \o x)
<1>1. Len(s) \in Nat /\ Len(w) \in Nat /\ Len(x) \in Nat
  BY DEF Text
<1>2. /\ t \in Text /\ Len(t) = Len(s) + Len(w)
      /\ \A i \in 1..(Len(s) + Len(w)) :
           t[i] = IF i <= p THEN s[i] ELSE IF i <= p + Len(w) THEN w[i - p] ELSE s[i - Len(w)]
  BY InsertedIs
<1>3. /\ w \o x \in Text /\ Len(w \o x) = Len(w) + Len(x)
      /\ \A i \in 1..(Len(w) + Len(x)) : (w \o x)[i] = IF i <= Len(w) THEN w[i] ELSE x[i - Len(w)]
  BY <1>1, ConcatProperties DEF Text
<1> DEFINE y == w \o x
<1> HIDE DEF t, y
<1>4. p + Len(w) \in 0..Len(t)
  BY <1>1, <1>2
<1>5. /\ r \in Text /\ Len(r) = Len(t) + Len(x)
      /\ \A i \in 1..(Len(t) + Len(x)) :
           r[i] = IF i <= p + Len(w) THEN t[i]
                  ELSE IF i <= p + Len(w) + Len(x) THEN x[i - (p + Len(w))] ELSE t[i - Len(x)]
  BY ONLY <1>2, <1>4, InsertedIs
<1>6. y \in Text /\ Len(y) = Len(w) + Len(x)
  BY <1>3 DEF y
<1>7. /\ Undo!inserted(s, p, y) \in Text /\ Len(Undo!inserted(s, p, y)) = Len(s) + Len(y)
      /\ \A i \in 1..(Len(s) + Len(y)) :
           Undo!inserted(s, p, y)[i] =
             IF i <= p THEN s[i] ELSE IF i <= p + Len(y) THEN y[i - p] ELSE s[i - Len(y)]
  BY ONLY <1>6, s \in Text, p \in 0..Len(s), InsertedIs
<1>8. q = Undo!inserted(s, p, y)
  BY DEF y
<1> HIDE DEF r, q
<1>9. Len(r) = Len(q) /\ Len(q) = Len(s) + Len(w) + Len(x)
  BY <1>1, <1>2, <1>5, <1>6, <1>7, <1>8
<1>10. ASSUME NEW i \in 1..Len(r) PROVE r[i] = q[i]
  <2>1. CASE i <= p
    BY <1>1, <1>2, <1>5, <1>6, <1>7, <1>8, <1>9, <2>1
  <2>2. CASE i > p /\ i <= p + Len(w)
    <3>1. i - p \in 1..Len(w) /\ i - p \in 1..(Len(w) + Len(x))
      BY <1>1, <2>2
    <3>2. q[i] = w[i - p]
      BY <1>1, <1>3, <1>6, <1>7, <1>8, <1>9, <2>2, <3>1 DEF y
    <3> QED BY <1>1, <1>2, <1>5, <1>9, <2>2, <3>2
  <2>3. CASE i > p + Len(w) /\ i <= p + Len(w) + Len(x)
    <3>1. i - p \in 1..(Len(w) + Len(x)) /\ i - p > Len(w)
      BY <1>1, <2>3
    <3>a. y[i - p] = x[(i - p) - Len(w)]
      BY <1>1, <1>3, <3>1 DEF y
    <3>2. q[i] = x[(i - p) - Len(w)]
      BY <1>1, <1>6, <1>7, <1>8, <1>9, <2>3, <3>a
    <3>3. (i - p) - Len(w) = i - (p + Len(w))
      BY <1>1
    <3> QED BY <1>1, <1>2, <1>5, <1>9, <2>3, <3>2, <3>3
  <2>4. CASE i > p + Len(w) + Len(x)
    <3>1. /\ i - Len(x) \in 1..Len(t) /\ i - Len(x) > p + Len(w)
          /\ (i - Len(x)) - Len(w) = i - (Len(w) + Len(x))
      BY <1>1, <1>2, <1>5, <2>4
    <3>a. t[i - Len(x)] = s[(i - Len(x)) - Len(w)]
      BY <1>1, <1>2, <3>1
    <3>b. r[i] = t[i - Len(x)]
      BY <1>1, <1>2, <1>5, <1>9, <2>4
    <3>2. r[i] = s[i - (Len(w) + Len(x))]
      BY <3>1, <3>a, <3>b
    <3> QED BY <1>1, <1>6, <1>7, <1>8, <1>9, <2>4, <3>2
  <2> QED BY <1>1, <2>1, <2>2, <2>3, <2>4
<1>11. r = q
  BY <1>5, <1>7, <1>8, <1>9, <1>10, SeqEqual DEF Text
<1> QED BY <1>11 DEF r, q, t

\* What a deletion keeps is what it takes out.
LEMMA DeleteBack ==
  ASSUME NEW s \in Text, NEW p \in 0..Len(s), NEW l \in 0..(Len(s) - p)
  PROVE  LET w == SubSeq(s, p + 1, p + l)
         IN  /\ w \in Text /\ Len(w) = l
             /\ Undo!inserted(Undo!erased(s, p, l), p, w) = s
<1> DEFINE w == SubSeq(s, p + 1, p + l)
           t == Undo!erased(s, p, l)
           r == Undo!inserted(t, p, w)
<1>1. Len(s) \in Nat /\ \A i \in 1..Len(s) : s[i] \in STRING
  BY DEF Text
<1>2. w \in Text /\ Len(w) = l /\ \A i \in 1..l : w[i] = s[p + i]
  BY <1>1, SubSeqProperties DEF Text
<1>3. /\ t \in Text /\ Len(t) = Len(s) - l
      /\ \A i \in 1..(Len(s) - l) : t[i] = IF i <= p THEN s[i] ELSE s[i + l]
  BY ErasedIs
<1> HIDE DEF w, t
<1>4. p \in 0..Len(t)
  BY <1>1, <1>3
<1>5. /\ r \in Text /\ Len(r) = Len(t) + Len(w)
      /\ \A i \in 1..(Len(t) + Len(w)) :
           r[i] = IF i <= p THEN t[i] ELSE IF i <= p + Len(w) THEN w[i - p] ELSE t[i - Len(w)]
  BY ONLY <1>2, <1>3, <1>4, InsertedIs
<1> HIDE DEF r
<1>6. ASSUME NEW i \in 1..Len(s) PROVE r[i] = s[i]
  <2>0. r[i] = IF i <= p THEN t[i] ELSE IF i <= p + l THEN w[i - p] ELSE t[i - l]
    BY <1>1, <1>2, <1>3, <1>5
  <2>1. CASE i <= p
    <3>1. i \in 1..(Len(s) - l)
      BY <1>1, <2>1
    <3> QED BY <1>3, <2>0, <2>1, <3>1
  <2>2. CASE i > p /\ i <= p + l
    <3>1. i - p \in 1..l /\ p + (i - p) = i
      BY <1>1, <2>2
    <3> QED BY <1>1, <1>2, <1>3, <1>5, <2>2, <3>1
  <2>3. CASE i > p + l
    <3>1. i - l \in 1..(Len(s) - l) /\ i - l > p /\ (i - l) + l = i
      BY <1>1, <2>3
    <3> QED BY <1>1, <1>2, <1>3, <1>5, <2>3, <3>1
  <2> QED BY <1>1, <2>1, <2>2, <2>3
<1>7. r = s
  BY <1>1, <1>2, <1>3, <1>5, <1>6, SeqEqual DEF Text
<1> QED BY <1>2, <1>7 DEF w, t, r

\* The command c leads from s to t and back.
Linked(c, s, t) ==
  /\ c \in Command /\ s \in Text /\ t \in Text
  /\ c.pos <= Len(s)
  /\ Undo!executed(c, s) = t
  /\ Undo!unexecuted(c, t) = s
  /\ c.pos <= Len(t) /\ Undo!CaretAfter(c, s) <= Len(t)

LEMMA InsertLinks ==
  ASSUME NEW s \in Text, NEW w \in Text, NEW p \in 0..Len(s),
         NEW c, c = [kind |-> "insert", pos |-> p, data |-> w]
  PROVE  Linked(c, s, Undo!executed(c, s))
<1>1. Len(s) \in Nat /\ Len(w) \in Nat
  BY DEF Text
<1>2. c.kind = "insert" /\ c.pos = p /\ c.data = w /\ c \in Command
  BY <1>1 DEF Command
<1>3. Undo!executed(c, s) = Undo!inserted(s, p, w)
  BY <1>2 DEF Undo!executed
<1>4. Undo!unexecuted(c, Undo!inserted(s, p, w)) = s
  BY <1>2, InsertBack DEF Undo!unexecuted
<1>5. Undo!CaretAfter(c, s) = p + Len(w)
  BY <1>2 DEF Undo!CaretAfter
<1>6. Undo!inserted(s, p, w) \in Text /\ Len(Undo!inserted(s, p, w)) = Len(s) + Len(w)
  BY InsertedIs
<1> QED BY <1>1, <1>2, <1>3, <1>4, <1>5, <1>6 DEF Linked

LEMMA DeleteLinks ==
  ASSUME NEW s \in Text, NEW p \in 0..Len(s), NEW n \in Nat,
         NEW c, c = Undo!DeleteCmd(p, n, s)
  PROVE  Linked(c, s, Undo!executed(c, s))
<1> DEFINE l == IF p + n < Len(s) THEN n ELSE Len(s) - p
           w == SubSeq(s, p + 1, p + l)
<1>1. Len(s) \in Nat /\ l \in 0..(Len(s) - p)
  BY DEF Text
<1>2. c = [kind |-> "delete", pos |-> p, data |-> w]
  BY <1>1 DEF Undo!DeleteCmd
<1> HIDE DEF l
<1>3. w \in Text /\ Len(w) = l /\ Undo!inserted(Undo!erased(s, p, l), p, w) = s
  BY <1>1, DeleteBack
<1> HIDE DEF w
<1>4. c.kind = "delete" /\ c.pos = p /\ c.data = w /\ c \in Command
  BY <1>1, <1>2, <1>3 DEF Command
<1>5. Undo!executed(c, s) = Undo!erased(s, p, l)
  BY <1>3, <1>4 DEF Undo!executed
<1>6. Undo!unexecuted(c, Undo!erased(s, p, l)) = s
  BY <1>3, <1>4 DEF Undo!unexecuted
<1>7. Undo!CaretAfter(c, s) = p
  BY <1>4 DEF Undo!CaretAfter
<1>8. Undo!erased(s, p, l) \in Text /\ Len(Undo!erased(s, p, l)) = Len(s) - l
  BY <1>1, ErasedIs
<1> QED BY <1>1, <1>4, <1>5, <1>6, <1>7, <1>8 DEF Linked

\* Typing on leads from where the first word was inserted to where the second was.
LEMMA MergeLinks ==
  ASSUME NEW c, NEW d, NEW s, NEW t, NEW x, Linked(c, s, t), Linked(d, t, x), Undo!Merges(c, d)
  PROVE  Linked([c EXCEPT !.data = @ \o d.data], s, x)
<1> DEFINE p == c.pos
           w == c.data
           y == d.data
           m == [c EXCEPT !.data = w \o y]
<1>1. /\ s \in Text /\ t \in Text /\ x \in Text /\ Len(s) \in Nat /\ p \in 0..Len(s)
      /\ w \in Text /\ y \in Text /\ c \in Command /\ c.kind = "insert" /\ d.kind = "insert"
      /\ d.pos = p + Len(w)
  BY DEF Linked, Command, Text, Undo!Merges
<1>2. t = Undo!inserted(s, p, w) /\ x = Undo!inserted(t, p + Len(w), y)
  BY <1>1 DEF Linked, Undo!executed
<1>5. m = [kind |-> "insert", pos |-> p, data |-> w \o y]
  <2>1. PICK q \in Nat, v \in Text : c = [kind |-> "insert", pos |-> q, data |-> v]
    BY <1>1 DEF Command
  <2> DEFINE z == w \o y
  <2>2. c.pos = q
    BY <2>1
  <2> HIDE DEF z
  <2>3. [c EXCEPT !.data = z] = [kind |-> "insert", pos |-> q, data |-> z]
    BY <2>1
  <2> QED BY <2>2, <2>3 DEF z
<1> HIDE DEF p, w, y, m
<1>a. Undo!inserted(Undo!inserted(s, p, w), p + Len(w), y) = Undo!inserted(s, p, w \o y)
  BY <1>1, MergedIs
<1>3. x = Undo!inserted(s, p, w \o y)
  BY <1>2, <1>a
<1>4. w \o y \in Text
  BY <1>1, ConcatProperties DEF Text
<1>6. Linked(m, s, Undo!executed(m, s))
  BY <1>1, <1>4, <1>5, InsertLinks
<1>7. Undo!executed(m, s) = x
  BY <1>3, <1>5 DEF Undo!executed
<1>8. m = [c EXCEPT !.data = @ \o d.data]
  BY DEF m, w, y
<1> QED BY <1>6, <1>7, <1>8

------------------------------------------------------------------------------
\* The texts the commands of a stack S go through, from a at its bottom to t: forward
\* those that were executed, backward those that were undone.
Along(forward, c, s, t) == IF forward THEN Linked(c, s, t) ELSE Linked(c, t, s)
Path(forward, S, u, a, t) ==
  /\ S \in Seq(Command) /\ u \in [0..Len(S) -> Text]
  /\ u[0] = a /\ u[Len(S)] = t
  /\ \A k \in 1..Len(S) : Along(forward, S[k], u[k - 1], u[k])
Trail(forward, S, a, t) == \E u : Path(forward, S, u, a, t)

LEMMA TrailEmpty ==
  ASSUME NEW f, NEW t \in Text
  PROVE  Trail(f, <<>>, t, t)
<1> DEFINE u == [k \in 0..0 |-> t]
<1>1. Len(<<>>) = 0 /\ <<>> \in Seq(Command)
  BY EmptySeq
<1>2. Path(f, <<>>, u, t, t)
  BY <1>1 DEF Path
<1> QED BY <1>2 DEF Trail

LEMMA TrailGrows ==
  ASSUME NEW f, NEW S, NEW a, NEW t, NEW x, NEW c, Trail(f, S, a, t), Along(f, c, t, x)
  PROVE  Trail(f, Append(S, c), a, x)
<1>1. PICK u : Path(f, S, u, a, t)
  BY DEF Trail
<1>2. c \in Command /\ x \in Text
  BY DEF Along, Linked
<1> DEFINE n == Len(S)
           R == Append(S, c)
           v == [k \in 0..(n + 1) |-> IF k = n + 1 THEN x ELSE u[k]]
<1>3. n \in Nat /\ S \in Seq(Command) /\ u \in [0..n -> Text]
  BY <1>1 DEF Path
<1>4. R \in Seq(Command) /\ Len(R) = n + 1 /\ R[n + 1] = c /\ \A k \in 1..n : R[k] = S[k]
  BY <1>2, <1>3, AppendProperties
<1>5. v \in [0..(n + 1) -> Text] /\ v[0] = a /\ v[n + 1] = x /\ \A k \in 0..n : v[k] = u[k]
  BY <1>1, <1>2, <1>3 DEF Path
<1> HIDE DEF v, R
<1>6. ASSUME NEW k \in 1..(n + 1) PROVE Along(f, R[k], v[k - 1], v[k])
  <2>1. CASE k = n + 1
    <3>1. v[k - 1] = t
      BY <1>1, <1>3, <1>5, <2>1 DEF Path
    <3> QED BY <1>4, <1>5, <2>1, <3>1
  <2>2. CASE k \in 1..n
    <3>1. v[k - 1] = u[k - 1] /\ v[k] = u[k] /\ R[k] = S[k]
      BY <1>3, <1>4, <1>5, <2>2
    <3> QED BY <1>1, <2>2, <3>1 DEF Path
  <2> QED BY <1>3, <2>1, <2>2
<1>7. Path(f, R, v, a, x)
  BY <1>4, <1>5, <1>6 DEF Path
<1> QED BY <1>7 DEF Trail, R

LEMMA TrailShrinks ==
  ASSUME NEW f, NEW S, NEW a, NEW t, Trail(f, S, a, t), S # <<>>
  PROVE  /\ Undo!Last(S) \in Command
         /\ \E x : Trail(f, Undo!Front(S), a, x) /\ Along(f, Undo!Last(S), x, t)
<1>1. PICK u : Path(f, S, u, a, t)
  BY DEF Trail
<1> DEFINE n == Len(S)
           R == SubSeq(S, 1, n - 1)
           v == [k \in 0..(n - 1) |-> u[k]]
<1>2. n \in Nat \ {0} /\ S \in Seq(Command) /\ u \in [0..n -> Text]
  BY <1>1, EmptySeq DEF Path
<1>3. \A k \in 1..n : S[k] \in Command
  BY <1>2
<1>4. R \in Seq(Command) /\ Len(R) = n - 1 /\ \A k \in 1..(n - 1) : R[k] = S[k]
  BY <1>2, <1>3, SubSeqProperties
<1>5. v \in [0..(n - 1) -> Text] /\ v[0] = a /\ v[n - 1] = u[n - 1] /\ \A k \in 0..(n - 1) : v[k] = u[k]
  BY <1>1, <1>2 DEF Path
<1>6. Undo!Front(S) = R /\ Undo!Last(S) = S[n]
  BY DEF Undo!Front, Undo!Last
<1> HIDE DEF v, R
<1>7. ASSUME NEW k \in 1..(n - 1) PROVE Along(f, R[k], v[k - 1], v[k])
  <2>1. v[k - 1] = u[k - 1] /\ v[k] = u[k] /\ R[k] = S[k] /\ k \in 1..n
    BY <1>2, <1>4, <1>5
  <2> QED BY <1>1, <2>1 DEF Path
<1>8. Path(f, R, v, a, u[n - 1])
  BY <1>2, <1>4, <1>5, <1>7 DEF Path
<1>9. Along(f, S[n], u[n - 1], t)
  BY <1>1, <1>2 DEF Path
<1> QED BY <1>2, <1>3, <1>6, <1>8, <1>9 DEF Trail

\* Running the commands from the top of the stack comes out at its bottom.
LEMMA DownIs ==
  ASSUME NEW n \in Nat, NEW d, NEW u, d[n] = u[n],
         \A k \in 0..(n - 1) : d[k + 1] = u[k + 1] => d[k] = u[k]
  PROVE  d[0] = u[0]
<1> DEFINE T == {j \in Nat : j <= n => d[n - j] = u[n - j]}
<1>1. 0 \in T
  OBVIOUS
<1>2. ASSUME NEW j \in Nat, j \in T PROVE j + 1 \in T
  <2>1. CASE j + 1 <= n
    <3>1. d[n - j] = u[n - j]
      BY <1>2, <2>1
    <3>2. n - (j + 1) \in 0..(n - 1) /\ (n - (j + 1)) + 1 = n - j
      BY <2>1
    <3>3. d[n - (j + 1)] = u[n - (j + 1)]
      BY <3>1, <3>2
    <3> QED BY <3>3
  <2>2. CASE ~(j + 1 <= n)
    BY <2>2
  <2> QED BY <2>1, <2>2
<1> HIDE DEF T
<1>3. n \in T
  BY <1>1, <1>2, SetInduction
<1> QED BY <1>3 DEF T

LEMMA UndoneAll ==
  ASSUME NEW S, NEW a, NEW t, Trail(TRUE, S, a, t)
  PROVE  Undo!Down(Undo!unexecuted, S, t) = a
<1>1. PICK u : Path(TRUE, S, u, a, t)
  BY DEF Trail
<1> DEFINE n == Len(S)
           D(d) == [k \in 0..n |-> IF k = n THEN t ELSE Undo!unexecuted(S[k + 1], d[k + 1])]
           d == CHOOSE e : e = D(e)
<1>2. n \in Nat /\ u \in [0..n -> Text] /\ u[n] = t /\ u[0] = a
  BY <1>1 DEF Path
<1>3. \A k \in 0..(n - 1) : u[k] = Undo!unexecuted(S[k + 1], u[k + 1])
  BY <1>1, <1>2 DEF Path, Along, Linked
<1>4. u = D(u)
  BY <1>2, <1>3
<1>5. d = D(d)
  BY <1>4
<1>6. Undo!Down(Undo!unexecuted, S, t) = d[0]
  BY DEF Undo!Down
<1> HIDE DEF d
<1>7. d[n] = u[n] /\ \A k \in 0..(n - 1) : d[k] = Undo!unexecuted(S[k + 1], d[k + 1])
  BY <1>2, <1>5
<1>8. \A k \in 0..(n - 1) : d[k + 1] = u[k + 1] => d[k] = u[k]
  BY <1>3, <1>7
<1>9. d[0] = u[0]
  BY ONLY <1>2, <1>7, <1>8, DownIs
<1> QED BY <1>2, <1>6, <1>9

LEMMA RedoneAll ==
  ASSUME NEW S, NEW a, NEW t, Trail(FALSE, S, a, t)
  PROVE  Undo!Down(Undo!executed, S, t) = a
<1>1. PICK u : Path(FALSE, S, u, a, t)
  BY DEF Trail
<1> DEFINE n == Len(S)
           D(d) == [k \in 0..n |-> IF k = n THEN t ELSE Undo!executed(S[k + 1], d[k + 1])]
           d == CHOOSE e : e = D(e)
<1>2. n \in Nat /\ u \in [0..n -> Text] /\ u[n] = t /\ u[0] = a
  BY <1>1 DEF Path
<1>3. \A k \in 0..(n - 1) : u[k] = Undo!executed(S[k + 1], u[k + 1])
  BY <1>1, <1>2 DEF Path, Along, Linked
<1>4. u = D(u)
  BY <1>2, <1>3
<1>5. d = D(d)
  BY <1>4
<1>6. Undo!Down(Undo!executed, S, t) = d[0]
  BY DEF Undo!Down
<1> HIDE DEF d
<1>7. d[n] = u[n] /\ \A k \in 0..(n - 1) : d[k] = Undo!executed(S[k + 1], d[k + 1])
  BY <1>2, <1>5
<1>8. \A k \in 0..(n - 1) : d[k + 1] = u[k + 1] => d[k] = u[k]
  BY <1>3, <1>7
<1>9. d[0] = u[0]
  BY ONLY <1>2, <1>7, <1>8, DownIs
<1> QED BY <1>2, <1>6, <1>9

------------------------------------------------------------------------------
\* The commands in the stacks lead from the empty text to this one, and from this one
\* to the latest: as long as no edit was merged beside a redo branch.
Consistent ==
  /\ un_thrown = FALSE /\ un_content \in Text /\ un_caret <= Len(un_content)
  /\ Trail(TRUE, un_undoStack, <<>>, un_content)
  /\ Trail(FALSE, un_redoStack, un_latest, un_content)
UndoInv == un_forked \in BOOLEAN /\ (un_forked = FALSE => Consistent)

LEMMA UndoBegins == Undo!Init => UndoInv
<1> SUFFICES ASSUME Undo!Init PROVE UndoInv
  OBVIOUS
<1>1. <<>> \in Text /\ Len(<<>>) = 0
  BY EmptySeq DEF Text
<1>2. /\ un_content = <<>> /\ un_undoStack = <<>> /\ un_redoStack = <<>> /\ un_latest = <<>>
      /\ un_caret = 0 /\ un_thrown = FALSE /\ un_forked = FALSE
  BY DEF Undo!Init
<1>3. Trail(TRUE, <<>>, <<>>, <<>>) /\ Trail(FALSE, <<>>, <<>>, <<>>)
  BY <1>1, TrailEmpty
<1>4. un_caret <= Len(un_content)
  BY <1>1, <1>2
<1>5. un_content \in Text
  BY <1>1, <1>2
<1> QED BY <1>2, <1>3, <1>4, <1>5 DEF UndoInv, Consistent

LEMMA ApplyKeeps ==
  ASSUME UndoInv, NEW c, Undo!apply(c), un_forked = FALSE,
         Linked(c, un_content, Undo!executed(c, un_content))
  PROVE  UndoInv'
<1>1. /\ un_content' = Undo!executed(c, un_content) /\ un_latest' = un_content'
      /\ un_caret' = Undo!CaretAfter(c, un_content) /\ un_thrown' = un_thrown /\ Undo!push(c)
  BY DEF Undo!apply
<1>2. Consistent
  BY DEF UndoInv
<1>3. un_thrown' = FALSE /\ un_content' \in Text /\ un_caret' <= Len(un_content')
  BY <1>1, <1>2 DEF Consistent, Linked
<1>4. CASE un_undoStack /= <<>> /\ Undo!Merges(Undo!Last(un_undoStack), c)
  <2> DEFINE top == Undo!Last(un_undoStack)
             m == [top EXCEPT !.data = @ \o c.data]
  <2>1. /\ un_undoStack' = Append(Undo!Front(un_undoStack), m)
        /\ un_forked' = (un_forked \/ un_redoStack /= <<>>) /\ un_redoStack' = un_redoStack
    BY <1>1, <1>4 DEF Undo!push
  <2>2. CASE un_redoStack = <<>>
    <3>1. PICK x : /\ Trail(TRUE, Undo!Front(un_undoStack), <<>>, x)
                   /\ Along(TRUE, top, x, un_content)
      BY <1>2, <1>4, TrailShrinks DEF Consistent
    <3>2. Linked(m, x, un_content')
      BY <1>1, <1>4, <3>1, MergeLinks DEF Along
    <3> HIDE DEF m
    <3>3. Trail(TRUE, un_undoStack', <<>>, un_content')
      BY <2>1, <3>1, <3>2, TrailGrows DEF Along
    <3>4. Trail(FALSE, un_redoStack', un_latest', un_content')
      BY <1>1, <1>3, <2>1, <2>2, TrailEmpty
    <3>5. un_forked' \in BOOLEAN
      BY <2>1
    <3> QED BY <1>3, <3>3, <3>4, <3>5 DEF UndoInv, Consistent
  <2>3. CASE un_redoStack # <<>>
    <3>1. un_forked' = TRUE
      BY <2>1, <2>3
    <3> QED BY <3>1 DEF UndoInv
  <2> QED BY <2>2, <2>3
<1>5. CASE ~(un_undoStack /= <<>> /\ Undo!Merges(Undo!Last(un_undoStack), c))
  <2>1. /\ un_undoStack' = Append(un_undoStack, c) /\ un_redoStack' = <<>>
        /\ un_forked' = un_forked
    BY <1>1, <1>5 DEF Undo!push
  <2>2. Trail(TRUE, un_undoStack', <<>>, un_content')
    BY <1>1, <1>2, <2>1, TrailGrows DEF Consistent, Along
  <2>3. Trail(FALSE, un_redoStack', un_latest', un_content')
    BY <1>1, <1>3, <2>1, TrailEmpty
  <2> QED BY <1>3, <2>1, <2>2, <2>3 DEF UndoInv, Consistent
<1> QED BY <1>4, <1>5

LEMMA UndoSteps == UndoInv /\ [Undo!Next]_(Undo!vars) => UndoInv'
<1> SUFFICES ASSUME UndoInv, [Undo!Next]_(Undo!vars) PROVE UndoInv'
  OBVIOUS
<1>0. CASE un_forked = TRUE
  <2>1. un_forked' = TRUE
    BY <1>0 DEF Undo!Next, Undo!apply, Undo!push, Undo!undo, Undo!redo, Undo!redo_Throws, Undo!vars
  <2> QED BY <2>1 DEF UndoInv
<1>1. CASE un_forked = FALSE
  <2>0. Consistent
    BY <1>1 DEF UndoInv
  <2>1. ASSUME NEW p \in 0..Len(un_content), NEW s \in Typings, Undo!apply(Undo!InsertCmd(p, s))
        PROVE  UndoInv'
    <3>1. s \in Text /\ un_content \in Text
      BY <2>0, EditorAssumption DEF Text, Consistent
    <3> DEFINE c == Undo!InsertCmd(p, s)
    <3>2. c = [kind |-> "insert", pos |-> p, data |-> s]
      BY DEF Undo!InsertCmd
    <3> HIDE DEF c
    <3>3. Linked(c, un_content, Undo!executed(c, un_content))
      BY ONLY <3>1, <3>2, p \in 0..Len(un_content), InsertLinks
    <3>4. Undo!apply(c)
      BY <2>1 DEF c
    <3> QED BY <1>1, <3>3, <3>4, ApplyKeeps
  <2>2. ASSUME NEW p \in 0..Len(un_content), NEW n \in 1..2,
               Undo!apply(Undo!DeleteCmd(p, n, un_content))
        PROVE  UndoInv'
    <3>1. un_content \in Text /\ n \in Nat
      BY <2>0 DEF Consistent
    <3> DEFINE c == Undo!DeleteCmd(p, n, un_content)
    <3>3. Linked(c, un_content, Undo!executed(c, un_content))
      BY ONLY <3>1, p \in 0..Len(un_content), DeleteLinks
    <3> HIDE DEF c
    <3>4. Undo!apply(c)
      BY <2>2 DEF c
    <3> QED BY <1>1, <3>3, <3>4, ApplyKeeps
  <2>3. CASE Undo!undo
    <3> DEFINE top == Undo!Last(un_undoStack)
    <3>1. /\ un_undoStack /= <<>> /\ un_content' = Undo!unexecuted(top, un_content)
          /\ un_caret' = top.pos /\ un_undoStack' = Undo!Front(un_undoStack)
          /\ un_redoStack' = Append(un_redoStack, top)
          /\ un_thrown' = un_thrown /\ un_latest' = un_latest /\ un_forked' = un_forked
      BY <2>3 DEF Undo!undo
    <3>2. PICK x : /\ Trail(TRUE, Undo!Front(un_undoStack), <<>>, x)
                   /\ Along(TRUE, top, x, un_content)
      BY <2>0, <3>1, TrailShrinks DEF Consistent
    <3> HIDE DEF top
    <3>3. Linked(top, x, un_content) /\ x = un_content'
      BY <3>1, <3>2 DEF Along, Linked
    <3>4. Trail(FALSE, un_redoStack', un_latest', un_content')
      BY <2>0, <3>1, <3>3, TrailGrows DEF Consistent, Along
    <3>5. un_content' \in Text /\ un_caret' <= Len(un_content')
      BY <3>1, <3>3 DEF Linked
    <3> QED BY <1>1, <2>0, <3>1, <3>2, <3>3, <3>4, <3>5 DEF UndoInv, Consistent
  <2>4. CASE Undo!redo
    <3> DEFINE top == Undo!Last(un_redoStack)
    <3>1. /\ un_redoStack /= <<>> /\ un_content' = Undo!executed(top, un_content)
          /\ un_caret' = Undo!CaretAfter(top, un_content)
          /\ un_redoStack' = Undo!Front(un_redoStack)
          /\ un_undoStack' = Append(un_undoStack, top)
          /\ un_thrown' = un_thrown /\ un_latest' = un_latest /\ un_forked' = un_forked
      BY <2>4 DEF Undo!redo
    <3>2. PICK x : /\ Trail(FALSE, Undo!Front(un_redoStack), un_latest, x)
                   /\ Along(FALSE, top, x, un_content)
      BY <2>0, <3>1, TrailShrinks DEF Consistent
    <3> HIDE DEF top
    <3>3. Linked(top, un_content, x) /\ x = un_content'
      BY <3>1, <3>2 DEF Along, Linked
    <3>4. Trail(TRUE, un_undoStack', <<>>, un_content')
      BY <2>0, <3>1, <3>3, TrailGrows DEF Consistent, Along
    <3>5. un_content' \in Text /\ un_caret' <= Len(un_content')
      BY <3>1, <3>3 DEF Linked
    <3> QED BY <1>1, <2>0, <3>1, <3>2, <3>3, <3>4, <3>5 DEF UndoInv, Consistent
  <2>5. CASE Undo!redo_Throws
    <3>1. un_redoStack /= <<>> /\ ~(Undo!Last(un_redoStack).pos <= Len(un_content))
      BY <2>5 DEF Undo!redo_Throws, Undo!Fits
    <3>2. PICK x : Along(FALSE, Undo!Last(un_redoStack), x, un_content)
      BY <2>0, <3>1, TrailShrinks DEF Consistent
    <3> QED BY <3>1, <3>2 DEF Along, Linked
  <2>6. CASE UNCHANGED Undo!vars
    BY <2>0, <2>6 DEF Undo!vars, UndoInv, Consistent
  <2> QED BY <2>1, <2>2, <2>3, <2>4, <2>5, <2>6 DEF Undo!Next
<1> QED BY <1>0, <1>1 DEF UndoInv

\* However edits, undos and redos of vc-08 follow each other, the stacks lead to the
\* empty text and to the newest, unless an edit was merged beside a redo branch.
THEOREM UndoKept == Undo!Spec => []RoundTrip
<1>1. UndoInv => RoundTrip
  <2> SUFFICES ASSUME UndoInv, ~un_forked PROVE /\ ~un_thrown
                                                /\ un_caret <= Len(un_content)
                                                /\ Undo!Down(Undo!unexecuted, un_undoStack, un_content) = <<>>
                                                /\ Undo!Down(Undo!executed, un_redoStack, un_content) = un_latest
    BY DEF RoundTrip, Undo!RoundTrip
  <2>1. Consistent
    BY DEF UndoInv
  <2> QED BY <2>1, UndoneAll, RedoneAll DEF Consistent
<1> QED BY <1>1, UndoBegins, UndoSteps, PTL DEF Undo!Spec

------------------------------------------------------------------------------
(***************************************************************************)
(* The saver, for a file of any contents.                                  *)
(***************************************************************************)
\* Until the rename the target is as it was; what is renamed has been written to its
\* end and is on the disk.
FileInv ==
  /\ fi_data \in Seq(STRING) /\ fi_written \in 0..Len(fi_data)
  /\ fi_spc \in {"load", "open", "write", "rename", "saved", "failed", "crashed"}
  /\ fi_spc \in {"load", "open"} => fi_written = 0
  /\ fi_spc \in {"load", "open", "write", "rename", "failed"} => fi_target = fi_before
  /\ fi_spc \in {"load", "open", "saved", "failed"} => fi_tmp = Missing
  /\ fi_spc = "write" => fi_tmp = SubSeq(fi_data, 1, fi_written)
  /\ fi_spc = "rename" => fi_tmp = fi_data
  /\ fi_spc \in {"rename", "saved"} => fi_synced = TRUE
  /\ fi_spc = "saved" => fi_target = fi_data
  /\ fi_spc = "crashed" => fi_target \in {fi_before, fi_data}

LEMMA FileBegins == File!Init => FileInv
<1> SUFFICES ASSUME File!Init PROVE FileInv
  OBVIOUS
<1>1. fi_data \in Seq(STRING) /\ Len(fi_data) \in Nat
  BY EditorAssumption DEF File!Init
<1> QED BY <1>1 DEF File!Init, FileInv

LEMMA FileSteps == FileInv /\ [File!Next]_(File!vars) => FileInv'
<1> SUFFICES ASSUME FileInv, [File!Next]_(File!vars) PROVE FileInv'
  OBVIOUS
<1>0. Len(fi_data) \in Nat /\ fi_data \in Seq(STRING) /\ fi_written \in 0..Len(fi_data)
  BY DEF FileInv
<1>1. CASE File!Load
  BY <1>1 DEF File!Load, File!Give, File!Stay, FileInv
<1>2. CASE File!OpenTmp
  <2>1. SubSeq(fi_data, 1, 0) = <<>>
    BY SubSeqEmpty
  <2> QED BY <1>2, <2>1 DEF File!OpenTmp, File!Give, File!Stay, FileInv
<1>3. CASE File!Write
  <2>1. ASSUME NEW n \in 1..(Len(fi_data) - fi_written)
        PROVE  SubSeq(fi_data, 1, fi_written) \o SubSeq(fi_data, fi_written + 1, fi_written + n)
               = SubSeq(fi_data, 1, fi_written + n)
    <3>1. /\ 1 \in 1..(Len(fi_data) + 1) /\ fi_written \in (1 - 1)..Len(fi_data)
          /\ fi_written + n \in fi_written..Len(fi_data)
      BY <1>0
    <3> QED BY <1>0, <3>1, ConcatAdjacentSubSeq
  <2>2. CASE /\ fi_spc' = fi_spc
             /\ \E n \in 1..(Len(fi_data) - fi_written) :
                  /\ fi_tmp' = fi_tmp \o SubSeq(fi_data, fi_written + 1, fi_written + n)
                  /\ fi_written' = fi_written + n
    <3>1. PICK n \in 1..(Len(fi_data) - fi_written) :
             /\ fi_tmp' = fi_tmp \o SubSeq(fi_data, fi_written + 1, fi_written + n)
             /\ fi_written' = fi_written + n
      BY <2>2
    <3>2. fi_spc = "write" /\ fi_tmp = SubSeq(fi_data, 1, fi_written)
      BY <1>3 DEF File!Write, FileInv
    <3>3. fi_tmp' = SubSeq(fi_data, 1, fi_written') /\ fi_written' \in 0..Len(fi_data)
      BY <1>0, <2>1, <3>1, <3>2
    <3> QED BY <1>0, <1>3, <2>2, <3>2, <3>3 DEF File!Write, File!Stay, FileInv
  <2>3. CASE fi_tmp' = Missing /\ fi_spc' = "failed" /\ fi_written' = fi_written
    BY <1>0, <1>3, <2>3 DEF File!Write, File!Stay, FileInv
  <2> QED BY <1>3, <2>2, <2>3 DEF File!Write, File!Give
<1>4. CASE File!Fsync
  <2>1. SubSeq(fi_data, 1, Len(fi_data)) = fi_data
    BY <1>0, SubSeqFull
  <2> QED BY <1>0, <1>4, <2>1 DEF File!Fsync, File!Give, File!Stay, FileInv
<1>5. CASE File!Rename
  BY <1>5 DEF File!Rename, File!Give, File!Stay, FileInv
<1>6. CASE File!Crash
  <2>1. fi_target' \in {fi_before, fi_target, fi_data}
    BY <1>6 DEF File!Crash, FileInv
  <2>2. fi_target \in {fi_before, fi_data}
    BY <1>6 DEF File!Crash, FileInv
  <2> QED BY <1>0, <1>6, <2>1, <2>2 DEF File!Crash, File!Give, File!Stay, FileInv
<1>7. CASE UNCHANGED File!vars
  BY <1>7 DEF File!vars, FileInv
<1> QED BY <1>1, <1>2, <1>3, <1>4, <1>5, <1>6, <1>7 DEF File!Next

\* Whatever file is saved by atomic_save of vc-06, wherever a call fails and whenever
\* the machine stops, it is there as it was or as it was to be.
THEOREM SavedWhole == File!Spec => []FilesKeep
<1>1. FileInv => FilesKeep
  BY DEF FileInv, FilesKeep, File!SaveIsAtomic
<1> QED BY <1>1, FileBegins, FileSteps, PTL DEF File!Spec

------------------------------------------------------------------------------
(***************************************************************************)
(* The modes of vc-07, for a line of any length.                           *)
(***************************************************************************)
ModeInv ==
  /\ md_mode \in {"Normal", "Insert", "Visual"}
  /\ md_size \in Nat /\ md_cursor \in Nat /\ md_anchor \in Nat
  /\ Typed!ModeBounds

LEMMA ModeSteps == ModeInv /\ [Typed!ModeNext]_(Typed!mode_vars) => ModeInv'
<1> SUFFICES ASSUME ModeInv, [Typed!ModeNext]_(Typed!mode_vars) PROVE ModeInv'
  OBVIOUS
<1> USE DEF ModeInv, Typed!ModeBounds, Typed!Left, Typed!Right
<1>1. CASE Typed!NormalMode
  BY <1>1 DEF Typed!NormalMode, Typed!set_mode, Typed!mode_move_left, Typed!mode_move_right
<1>2. CASE Typed!NormalErase
  BY <1>2 DEF Typed!NormalErase
<1>3. CASE Typed!InsertEscape
  BY <1>3 DEF Typed!InsertEscape, Typed!set_mode
<1>4. CASE Typed!Backspace
  BY <1>4 DEF Typed!Backspace
<1>5. CASE Typed!Type
  BY <1>5 DEF Typed!Type
<1>6. CASE Typed!VisualMode
  BY <1>6 DEF Typed!VisualMode, Typed!set_mode, Typed!mode_move_left, Typed!mode_move_right
<1>7. CASE UNCHANGED Typed!mode_vars
  BY <1>7 DEF Typed!mode_vars
<1> QED BY <1>1, <1>2, <1>3, <1>4, <1>5, <1>6, <1>7 DEF Typed!ModeNext

\* The cursor and the selection of vc-07 lie in the line, whatever is typed.
THEOREM ModesKept == Typed!ModeSpec => []Typed!ModeBounds
<1>1. Typed!ModeInit => ModeInv
  BY EditorAssumption DEF Typed!ModeInit, ModeInv, Typed!ModeBounds, Typed!Left
<1>2. ModeInv => Typed!ModeBounds
  BY DEF ModeInv
<1> QED BY <1>1, <1>2, ModeSteps, PTL DEF Typed!ModeSpec

------------------------------------------------------------------------------
(***************************************************************************)
(* The keys of vc-01, for any bytes.                                       *)
(***************************************************************************)
Kinds == {Typed!Kind(raw) : raw \in Seq(STRING)}
Event == [kind : Kinds, raw : Seq(STRING)]

\* The bytes of the first n events one after the other.
Cuts(c, events) ==
  /\ c \in [0..Len(events) -> Seq(STRING)] /\ c[0] = <<>>
  /\ \A n \in 1..Len(events) : c[n] = c[n - 1] \o events[n].raw

\* What waits in the buffer is the beginning of a sequence that has not ended.
Begun(raw) ==
  /\ Len(raw) >= 1 => raw[1] = "esc"
  /\ Len(raw) >= 2 => raw[2] = "["
  /\ \A j \in 3..Len(raw) : raw[j] \notin Typed!Finals

CutRight(e) ==
  /\ e.raw[1] = "esc" => Len(e.raw) >= 2
  /\ Len(e.raw) > 2 => /\ e.raw[2] = "[" /\ Typed!Last(e.raw) \in Typed!Finals
                       /\ \A j \in 3..(Len(e.raw) - 1) : e.raw[j] \notin Typed!Finals
  /\ e.kind = "Delete" => e.raw[3] = "3" /\ Typed!Last(e.raw) = "~"

KeyInv ==
  /\ tm_buf_ \in Seq(STRING) /\ tm_typed \in Seq(STRING) /\ Begun(tm_buf_)
  /\ \A n \in 1..Len(tm_events) : CutRight(tm_events[n])
  /\ tm_events \in Seq(Event)
  /\ \E c : Cuts(c, tm_events) /\ c[Len(tm_events)] \o tm_buf_ = tm_typed

LEMMA KindIs ==
  ASSUME NEW raw, NEW n \in Nat, n = Len(raw), Typed!Kind(raw) = "Delete"
  PROVE  raw[3] = "3" /\ Typed!Last(raw) = "~"
<1>1. n # 1
  BY DEF Typed!Kind
<1>2. ~(n > 2 /\ Typed!Last(raw) \in DOMAIN Typed!Arrow)
  <2>1. SUFFICES ASSUME n > 2, Typed!Last(raw) \in DOMAIN Typed!Arrow PROVE FALSE
    OBVIOUS
  <2>3. Typed!Last(raw) \in {"A", "B", "C", "D", "H", "F"}
    BY <2>1 DEF Typed!Arrow
  <2>2. Typed!Kind(raw) = Typed!Arrow[Typed!Last(raw)]
    BY <1>1, <2>1, <2>3 DEF Typed!Kind
  <2>4. Typed!Arrow[Typed!Last(raw)] # "Delete"
    BY <2>3 DEF Typed!Arrow
  <2> QED BY <2>2, <2>4
<1>3. Typed!Last(raw) = "~" /\ n >= 4 /\ raw[3] \in DOMAIN Typed!Page /\ Typed!Page[raw[3]] = "Delete"
  BY <1>1, <1>2 DEF Typed!Kind
<1>4. raw[3] \in {"3", "5", "6"}
  BY <1>3 DEF Typed!Page
<1>5. raw[3] = "3"
  BY <1>3, <1>4 DEF Typed!Page
<1> QED BY <1>3, <1>5

LEMMA CutsAppend ==
  ASSUME NEW events \in Seq(Event), NEW c, Cuts(c, events), NEW e \in Event
  PROVE  \E d : /\ Cuts(d, Append(events, e))
                /\ d[Len(events) + 1] = c[Len(events)] \o e.raw
<1> DEFINE n == Len(events)
           r == c[n] \o e.raw
           d == [k \in 0..(n + 1) |-> IF k = n + 1 THEN r ELSE c[k]]
           f == Append(events, e)
<1>1. n \in Nat /\ c \in [0..n -> Seq(STRING)] /\ e.raw \in Seq(STRING)
  BY DEF Cuts, Event
<1>2. r \in Seq(STRING)
  BY <1>1, ConcatProperties
<1> HIDE DEF r
<1>3. /\ d \in [0..(n + 1) -> Seq(STRING)] /\ d[0] = <<>> /\ d[n + 1] = r
      /\ \A k \in 0..n : d[k] = c[k]
  BY <1>1, <1>2 DEF Cuts
<1>4. Len(f) = n + 1 /\ f[n + 1] = e /\ \A k \in 1..n : f[k] = events[k]
  BY AppendProperties
<1> HIDE DEF d, f
<1>5. ASSUME NEW k \in 1..(n + 1) PROVE d[k] = d[k - 1] \o f[k].raw
  <2>1. CASE k = n + 1
    <3>1. d[k - 1] = c[n] /\ f[k] = e
      BY <1>1, <1>3, <1>4, <2>1
    <3> QED BY <1>3, <2>1, <3>1 DEF r
  <2>2. CASE k \in 1..n
    <3>1. d[k] = c[k] /\ d[k - 1] = c[k - 1] /\ f[k] = events[k]
      BY <1>1, <1>3, <1>4, <2>2
    <3>2. c[k] = c[k - 1] \o events[k].raw
      BY <1>1, <2>2 DEF Cuts
    <3>3. d[k] = d[k - 1] \o f[k].raw
      BY ONLY <3>1, <3>2
    <3> QED BY <3>3
  <2>3. k = n + 1 \/ k \in 1..n
    BY <1>1
  <2> QED BY ONLY <2>1, <2>2, <2>3
<1>6. Cuts(d, f)
  BY <1>3, <1>4, <1>5 DEF Cuts
<1> QED BY <1>3, <1>6 DEF r, f

\* What is appended leaves what was before it.
LEMMA AppendLeaves ==
  ASSUME NEW S, NEW s \in Seq(S), NEW x \in S
  PROVE  \A k \in 1..Len(s) : Append(s, x)[k] = s[k]
  OBVIOUS

LEMMA FeedKeeps ==
  ASSUME KeyInv, NEW ch \in STRING, Typed!TermFeed(ch)
  PROVE  KeyInv'
<1> DEFINE raw == Append(tm_buf_, ch)
           m == Len(tm_buf_)
           e == [kind |-> Typed!Kind(raw), raw |-> raw]
<1>1. /\ tm_buf_ \in Seq(STRING) /\ tm_typed \in Seq(STRING) /\ m \in Nat /\ Begun(tm_buf_)
      /\ tm_events \in Seq(Event)
  BY DEF KeyInv
<1>2. PICK c : Cuts(c, tm_events) /\ c[Len(tm_events)] \o tm_buf_ = tm_typed
  BY DEF KeyInv
<1>3. raw \in Seq(STRING) /\ Len(raw) = m + 1 /\ raw[m + 1] = ch /\ \A k \in 1..m : raw[k] = tm_buf_[k]
  <2>1. tm_buf_ \in Seq(STRING) /\ ch \in STRING
    BY <1>1
  <2>2. \A k \in 1..m : raw[k] = tm_buf_[k]
    BY ONLY <2>1, AppendLeaves, Zenon DEF raw, m
  <2>3. raw \in Seq(STRING) /\ Len(raw) = m + 1 /\ raw[m + 1] = ch
    BY ONLY <2>1, AppendProperties DEF raw, m
  <2> QED BY <2>2, <2>3
<1>4. tm_typed' = Append(tm_typed, ch)
  BY DEF Typed!TermFeed
<1>5. tm_typed' \in Seq(STRING)
  BY <1>1, <1>4, AppendProperties
<1>6. Typed!Last(raw) = ch
  BY <1>3 DEF Typed!Last
<1>7. c[Len(tm_events)] \o raw = tm_typed'
  <2>1. c[Len(tm_events)] \in Seq(STRING)
    BY <1>1, <1>2 DEF Cuts
  <2>2. <<ch>> \in Seq(STRING)
    <3>1. Append(<<>>, ch) \in Seq(STRING) /\ Append(<<>>, ch) = <<>> \o <<ch>>
      BY EmptySeq, AppendProperties, AppendIsConcat
    <3>2. Append(<<>>, ch) = <<ch>>
      OBVIOUS
    <3> QED BY <3>1, <3>2
  <2>3. raw = tm_buf_ \o <<ch>> /\ tm_typed' = tm_typed \o <<ch>>
    BY <1>1, <1>4, AppendIsConcat
  <2> DEFINE a == c[Len(tm_events)]
             b == <<ch>>
  <2> HIDE DEF a, b
  <2>a. a \in Seq(STRING) /\ tm_buf_ \in Seq(STRING) /\ b \in Seq(STRING)
    BY <1>1, <2>1, <2>2 DEF a, b
  <2>b. (a \o tm_buf_) \o b = a \o (tm_buf_ \o b)
    BY ONLY <2>a, ConcatAssociative
  <2>4. (c[Len(tm_events)] \o tm_buf_) \o <<ch>> = c[Len(tm_events)] \o (tm_buf_ \o <<ch>>)
    BY <2>b DEF a, b
  <2> QED BY <1>2, <2>3, <2>4
<1> HIDE DEF raw
<1>8. CASE Typed!Complete(raw)
  <2>1. tm_events' = Append(tm_events, e) /\ tm_buf_' = <<>>
    BY <1>8 DEF Typed!TermFeed, raw
  <2>2. CutRight(e)
    <3>1. raw[1] = "esc" => Len(raw) >= 2
      BY <1>3, <1>8 DEF Typed!Complete
    <3>2. ASSUME Len(raw) > 2 PROVE /\ raw[2] = "[" /\ Typed!Last(raw) \in Typed!Finals
                                    /\ \A j \in 3..(Len(raw) - 1) : raw[j] \notin Typed!Finals
      <4>1. m >= 2 /\ Len(raw) # 1 /\ Len(raw) # 2
        BY <1>1, <1>3, <3>2
      <4>2. Typed!Last(raw) \in Typed!Finals
        BY <1>8, <4>1 DEF Typed!Complete
      <4>3. raw[2] = "["
        BY <1>1, <1>3, <4>1 DEF Begun
      <4>4. \A j \in 3..m : raw[j] \notin Typed!Finals
        BY <1>1, <1>3 DEF Begun
      <4> QED BY <1>1, <1>3, <4>2, <4>3, <4>4
    <3>3. Typed!Kind(raw) = "Delete" => raw[3] = "3" /\ Typed!Last(raw) = "~"
      BY <1>1, <1>3, KindIs
    <3> QED BY <3>1, <3>2, <3>3 DEF CutRight
  <2>3. Typed!Kind(raw) \in Kinds
    BY <1>3 DEF Kinds
  <2>4. e \in Event
    BY <1>3, <2>3 DEF Event
  <2>5. PICK d : /\ Cuts(d, Append(tm_events, e))
                 /\ d[Len(tm_events) + 1] = c[Len(tm_events)] \o e.raw
    BY <1>1, <1>2, <2>4, CutsAppend
  <2>6. /\ tm_events' \in Seq(Event) /\ Len(tm_events') = Len(tm_events) + 1
        /\ tm_events'[Len(tm_events) + 1] = e
        /\ \A k \in 1..Len(tm_events) : tm_events'[k] = tm_events[k]
    BY <1>1, <2>1, <2>4, AppendProperties
  <2>7. e.raw = raw
    OBVIOUS
  <2> HIDE DEF e
  <2>8. \A n \in 1..Len(tm_events') : CutRight(tm_events'[n])
    <3>1. Len(tm_events) \in Nat /\ \A n \in 1..Len(tm_events) : CutRight(tm_events[n])
      BY <1>1 DEF KeyInv
    <3> QED BY ONLY <2>2, <2>6, <3>1
  <2>9. d[Len(tm_events')] \o tm_buf_' = tm_typed'
    <3>1. d[Len(tm_events')] = tm_typed'
      BY <1>7, <2>5, <2>6, <2>7
    <3> QED BY <1>5, <2>1, <3>1, ConcatEmptySeq
  <2>10. tm_buf_' \in Seq(STRING) /\ Begun(tm_buf_')
    BY <2>1, EmptySeq DEF Begun
  <2>11. Cuts(d, tm_events')
    BY <2>1, <2>5
  <2> QED BY <1>5, <2>6, <2>8, <2>9, <2>10, <2>11 DEF KeyInv
<1>9. CASE ~Typed!Complete(raw)
  <2>1. tm_events' = tm_events /\ tm_buf_' = raw
    BY <1>9 DEF Typed!TermFeed, raw
  <2>2. Begun(raw)
    <3>1. raw[1] = "esc"
      BY <1>1, <1>3, <1>9 DEF Typed!Complete, Begun
    <3>2. Len(raw) >= 2 => raw[2] = "["
      BY <1>1, <1>3, <1>9 DEF Typed!Complete, Begun
    <3>3. ASSUME NEW j \in 3..Len(raw) PROVE raw[j] \notin Typed!Finals
      <4>1. CASE j = m + 1
        <5>1. Len(raw) # 1 /\ Len(raw) # 2
          BY <1>1, <1>3, <4>1
        <5> QED BY <1>3, <1>6, <1>9, <4>1, <5>1 DEF Typed!Complete
      <4>2. CASE j \in 3..m
        BY <1>1, <1>3, <4>2 DEF Begun
      <4> QED BY <1>1, <1>3, <4>1, <4>2
    <3> QED BY <3>1, <3>2, <3>3 DEF Begun
  <2> QED BY <1>2, <1>3, <1>5, <1>7, <2>1, <2>2 DEF KeyInv
<1> QED BY <1>8, <1>9

LEMMA KeySteps == KeyInv /\ [Typed!TermNext]_(Typed!term_vars) => KeyInv'
<1> SUFFICES ASSUME KeyInv, [Typed!TermNext]_(Typed!term_vars) PROVE KeyInv'
  OBVIOUS
<1>1. ASSUME NEW ch \in Bytes, Typed!TermFeed(ch) PROVE KeyInv'
  BY <1>1, FeedKeeps, EditorAssumption
<1>2. CASE UNCHANGED <<tm_buf_, tm_typed, tm_events>>
  BY <1>2 DEF KeyInv
<1>3. ASSUME Typed!Enter \/ Typed!EndOfInput \/ Typed!Leave \/ Typed!Exit \/ UNCHANGED Typed!term_vars
      PROVE  UNCHANGED <<tm_buf_, tm_typed, tm_events>>
  BY <1>3 DEF Typed!Enter, Typed!EndOfInput, Typed!Leave, Typed!Exit, Typed!term_vars
<1> QED BY <1>1, <1>2, <1>3 DEF Typed!TermNext

\* A function that is built up like the cuts is the cuts.
LEMMA UpIs ==
  ASSUME NEW n \in Nat, NEW d, NEW u, d[0] = u[0],
         \A k \in 1..n : d[k - 1] = u[k - 1] => d[k] = u[k]
  PROVE  d[n] = u[n]
<1> DEFINE T == {j \in Nat : j <= n => d[j] = u[j]}
<1>1. 0 \in T
  OBVIOUS
<1>2. ASSUME NEW j \in Nat, j \in T PROVE j + 1 \in T
  <2>1. CASE j + 1 <= n
    <3>1. d[j] = u[j] /\ j + 1 \in 1..n /\ (j + 1) - 1 = j
      BY <1>2, <2>1
    <3>2. d[j + 1] = u[j + 1]
      BY <3>1
    <3> QED BY <3>2
  <2>2. CASE ~(j + 1 <= n)
    BY <2>2
  <2> QED BY <2>1, <2>2
<1> HIDE DEF T
<1>3. n \in T
  BY <1>1, <1>2, SetInduction, Zenon
<1> QED BY <1>3 DEF T

LEMMA KeyMeans == KeyInv => Typed!KeysCutRight
<1> SUFFICES ASSUME KeyInv PROVE Typed!KeysCutRight
  OBVIOUS
<1> DEFINE n == Len(tm_events)
           D(d) == [k \in 0..n |-> IF k = 0 THEN <<>> ELSE d[k - 1] \o tm_events[k].raw]
           d == CHOOSE e : e = D(e)
<1>1. PICK c : Cuts(c, tm_events) /\ c[n] \o tm_buf_ = tm_typed
  BY DEF KeyInv
<1>2. n \in Nat /\ DOMAIN tm_events = 1..n /\ \A k \in 1..n : CutRight(tm_events[k])
  BY DEF KeyInv
<1>3. c = D(c)
  <2>1. c \in [0..n -> Seq(STRING)] /\ c[0] = <<>>
    BY <1>1 DEF Cuts
  <2>2. \A k \in 0..n : k # 0 => k \in 1..n
    BY <1>2
  <2>3. \A k \in 0..n : c[k] = IF k = 0 THEN <<>> ELSE c[k - 1] \o tm_events[k].raw
    BY <1>1, <2>1, <2>2, Zenon DEF Cuts
  <2> QED BY <2>1, <2>3
<1>4. d = D(d)
  BY <1>3, Zenon
<1> HIDE DEF d
<1>5. d[0] = c[0] /\ \A k \in 1..n : d[k] = d[k - 1] \o tm_events[k].raw
  BY <1>1, <1>2, <1>4 DEF Cuts
<1>6. \A k \in 1..n : d[k - 1] = c[k - 1] => d[k] = c[k]
  BY <1>1, <1>5 DEF Cuts
<1>7. d[n] = c[n]
  BY ONLY <1>2, <1>5, <1>6, UpIs
<1>8. d[n] \o tm_buf_ = tm_typed
  BY <1>1, <1>7
<1> QED BY <1>2, <1>8, Zenon DEF Typed!KeysCutRight, CutRight, d

\* The bytes typed are cut into key events without loss and where a terminal ends a
\* sequence (vc-01), whatever they are.
THEOREM KeysKept == Typed!TermSpec => []Typed!KeysCutRight
<1>1. Typed!TermInit => KeyInv
  <2> SUFFICES ASSUME Typed!TermInit PROVE KeyInv
    OBVIOUS
  <2>1. tm_buf_ = <<>> /\ tm_typed = <<>> /\ tm_events = <<>>
    BY DEF Typed!TermInit
  <2>2. <<>> \in Seq(STRING) /\ <<>> \in Seq(Event) /\ Len(<<>>) = 0
    BY EmptySeq
  <2> DEFINE c == [k \in 0..0 |-> <<>>]
  <2>3. Cuts(c, <<>>) /\ c[0] = <<>>
    BY <2>2 DEF Cuts
  <2>4. c[0] \o <<>> = <<>>
    BY <2>2, <2>3, ConcatEmptySeq
  <2> HIDE DEF c
  <2>5. \E z : Cuts(z, tm_events) /\ z[Len(tm_events)] \o tm_buf_ = tm_typed
    BY <2>1, <2>2, <2>3, <2>4
  <2> QED BY <2>1, <2>2, <2>5 DEF KeyInv, Begun
<1> QED BY <1>1, KeySteps, KeyMeans, PTL DEF Typed!TermSpec

------------------------------------------------------------------------------
(***************************************************************************)
(* The cursor and the window of vc-04, for any text, tab width and screen. *)
(***************************************************************************)
\* The column after a character that begins in column x.
After(ch, x) == IF ch = "tab" THEN x + TAB_WIDTH - (x % TAB_WIDTH) ELSE x + 1

LEMMA AfterIs ==
  ASSUME NEW ch, NEW x \in Nat
  PROVE  After(ch, x) \in Nat /\ After(ch, x) > x
<1>1. TAB_WIDTH \in Nat \ {0}
  BY EditorAssumption
<1>2. x % TAB_WIDTH \in 0..(TAB_WIDTH - 1)
  BY <1>1, DivMod
<1> DEFINE r == x % TAB_WIDTH
<1> HIDE DEF r
<1>3. r \in 0..(TAB_WIDTH - 1)
  BY <1>2 DEF r
<1>4. x + TAB_WIDTH - r \in Nat /\ x + TAB_WIDTH - r > x
  BY <1>1, <1>3
<1>5. After(ch, x) = IF ch = "tab" THEN x + TAB_WIDTH - r ELSE x + 1
  BY DEF After, r
<1> QED BY <1>4, <1>5

\* The columns in which the first n characters of s begin and the last of them ends.
Columns(s, n, v) ==
  /\ v \in [0..n -> Nat] /\ v[0] = 0
  /\ \A i \in 1..n : v[i] = After(s[i], v[i - 1])

LEMMA ColumnsExist ==
  ASSUME NEW s, NEW n \in Nat
  PROVE  \E v : Columns(s, n, v)
<1> DEFINE T == {j \in Nat : \E v : Columns(s, j, v)}
<1>1. 0 \in T
  <2> DEFINE v == [i \in 0..0 |-> 0]
  <2>1. Columns(s, 0, v)
    BY DEF Columns
  <2> QED BY <2>1
<1>2. ASSUME NEW j \in Nat, j \in T PROVE j + 1 \in T
  <2>1. PICK v : Columns(s, j, v)
    BY <1>2
  <2>2. v \in [0..j -> Nat] /\ v[j] \in Nat
    BY <2>1 DEF Columns
  <2> DEFINE x == After(s[j + 1], v[j])
             w == [i \in 0..(j + 1) |-> IF i = j + 1 THEN x ELSE v[i]]
  <2>3. x \in Nat
    BY <2>2, AfterIs
  <2> HIDE DEF x
  <2>4. /\ w \in [0..(j + 1) -> Nat] /\ w[0] = 0 /\ w[j + 1] = x
        /\ \A i \in 0..j : w[i] = v[i]
    BY <2>1, <2>2, <2>3 DEF Columns
  <2> HIDE DEF w
  <2>5. ASSUME NEW i \in 1..(j + 1) PROVE w[i] = After(s[i], w[i - 1])
    <3>1. CASE i = j + 1
      <4>1. w[i - 1] = v[j]
        BY <2>4, <3>1
      <4> QED BY <2>4, <3>1, <4>1 DEF x
    <3>2. CASE i \in 1..j
      <4>1. w[i - 1] = v[i - 1] /\ w[i] = v[i]
        BY <2>4, <3>2
      <4>2. v[i] = After(s[i], v[i - 1])
        BY <2>1, <3>2 DEF Columns
      <4> QED BY ONLY <4>1, <4>2
    <3>3. i = j + 1 \/ i \in 1..j
      OBVIOUS
    <3> QED BY ONLY <3>1, <3>2, <3>3
  <2>6. Columns(s, j + 1, w)
    BY <2>4, <2>5 DEF Columns
  <2> QED BY <2>6
<1> HIDE DEF T
<1>3. n \in T
  BY <1>1, <1>2, SetInduction
<1> QED BY <1>3 DEF T

LEMMA ColumnsAre ==
  ASSUME NEW s \in Seq(STRING), NEW v, Columns(s, Len(s), v), NEW c \in 0..Len(s)
  PROVE  Typed!visual_col(s, c) = v[c]
<1> DEFINE n == Len(s)
           D(d) == [i \in 0..n |->
                      IF i = 0 THEN 0
                      ELSE IF s[i] = "tab" THEN d[i - 1] + TAB_WIDTH - (d[i - 1] % TAB_WIDTH)
                      ELSE d[i - 1] + 1]
           d == CHOOSE e : e = D(e)
<1>1. n \in Nat /\ v \in [0..n -> Nat] /\ v[0] = 0
  BY DEF Columns
<1>2. v = D(v)
  <2>1. \A i \in 0..n : i # 0 => i \in 1..n
    BY <1>1
  <2>2. \A i \in 0..n : v[i] = IF i = 0 THEN 0 ELSE After(s[i], v[i - 1])
    BY <1>1, <2>1 DEF Columns
  <2> QED BY <1>1, <2>2 DEF After
<1>3. d = D(d)
  BY <1>2
<1>4. Typed!visual_col(s, c) = d[Typed!Lesser(c, n)]
  BY DEF Typed!visual_col
<1>5. Typed!Lesser(c, n) = c
  BY <1>1 DEF Typed!Lesser
<1> HIDE DEF d
<1>6. d[0] = 0 /\ \A i \in 1..n : d[i] = After(s[i], d[i - 1])
  <2>1. \A i \in 0..n : d[i] = IF i = 0 THEN 0 ELSE After(s[i], d[i - 1])
    BY <1>3 DEF After
  <2>2. 0 \in 0..n /\ \A i \in 1..n : i \in 0..n /\ i # 0
    BY <1>1
  <2> QED BY <2>1, <2>2
<1> DEFINE T == {j \in Nat : j <= n => d[j] = v[j]}
<1>7. 0 \in T
  BY <1>1, <1>6
<1>8. ASSUME NEW j \in Nat, j \in T PROVE j + 1 \in T
  <2>1. CASE j + 1 <= n
    <3>1. d[j] = v[j] /\ j + 1 \in 1..n /\ (j + 1) - 1 = j
      BY <1>1, <1>8, <2>1
    <3>2. d[j + 1] = After(s[j + 1], d[j]) /\ v[j + 1] = After(s[j + 1], v[j])
      BY <1>6, <3>1 DEF Columns
    <3> QED BY <3>1, <3>2
  <2>2. CASE ~(j + 1 <= n)
    BY <2>2
  <2> QED BY <2>1, <2>2
<1> HIDE DEF T
<1>9. c \in T
  BY <1>1, <1>7, <1>8, SetInduction
<1>10. d[c] = v[c]
  BY <1>1, <1>9 DEF T
<1> QED BY <1>4, <1>5, <1>10

LEMMA ColumnsGrow ==
  ASSUME NEW s, NEW n \in Nat, NEW v, Columns(s, n, v), NEW i \in 0..n, NEW j \in 0..n, i < j
  PROVE  v[i] < v[j]
<1> DEFINE T == {k \in Nat : i + k + 1 <= n => v[i] < v[i + k + 1]}
<1>1. v \in [0..n -> Nat] /\ \A k \in 1..n : v[k - 1] < v[k]
  <2>1. v \in [0..n -> Nat]
    BY DEF Columns
  <2>2. ASSUME NEW k \in 1..n PROVE v[k - 1] < v[k]
    <3>1. v[k - 1] \in Nat /\ v[k] = After(s[k], v[k - 1])
      BY <2>1 DEF Columns
    <3> QED BY <3>1, AfterIs
  <2> QED BY <2>1, <2>2
<1>2. 0 \in T
  <2>1. CASE i + 1 <= n
    <3>1. i + 1 \in 1..n /\ (i + 1) - 1 = i /\ i + 0 + 1 = i + 1
      BY <2>1
    <3> QED BY <1>1, <3>1
  <2>2. CASE ~(i + 1 <= n)
    BY <2>2
  <2> QED BY <2>1, <2>2
<1>3. ASSUME NEW k \in Nat, k \in T PROVE k + 1 \in T
  <2>1. CASE i + (k + 1) + 1 <= n
    <3>1. /\ i + (k + 1) + 1 \in 1..n /\ (i + (k + 1) + 1) - 1 = i + k + 1 /\ i + k + 1 \in 0..n
          /\ i + (k + 1) + 1 \in 0..n
      BY <2>1
    <3>2. v[i] < v[i + k + 1]
      BY <1>3, <3>1
    <3>3. v[i + k + 1] < v[i + (k + 1) + 1]
      BY <1>1, <3>1
    <3>4. v[i] \in Nat /\ v[i + k + 1] \in Nat /\ v[i + (k + 1) + 1] \in Nat
      BY <1>1, <3>1
    <3> QED BY <3>2, <3>3, <3>4
  <2>2. CASE ~(i + (k + 1) + 1 <= n)
    BY <2>2
  <2> QED BY <2>1, <2>2
<1> HIDE DEF T
<1>4. j - i - 1 \in Nat /\ i + (j - i - 1) + 1 = j
  OBVIOUS
<1>5. j - i - 1 \in T
  BY <1>2, <1>3, <1>4, SetInduction
<1> QED BY <1>4, <1>5 DEF T

\* A column on the screen, and that the character that begins there is found again.
LEMMA ColumnFound ==
  ASSUME NEW s \in Seq(STRING), NEW c \in 0..Typed!Greater(0, Len(s) - 1)
  PROVE  /\ Typed!visual_col(s, c) \in Nat
         /\ Typed!logical_col(s, Typed!visual_col(s, c)) = c
<1> DEFINE n == Len(s)
           x == Typed!visual_col(s, c)
           B == {i \in 0..(n - 1) : Typed!visual_col(s, i + 1) > x}
<1>1. n \in Nat
  OBVIOUS
<1>2. PICK v : Columns(s, n, v)
  BY <1>1, ColumnsExist
<1>3. v \in [0..n -> Nat]
  BY <1>2 DEF Columns
<1>4. c \in 0..n /\ (n = 0 => c = 0) /\ (n > 0 => c \in 0..(n - 1))
  BY <1>1 DEF Typed!Greater
<1>5. x = v[c] /\ x \in Nat
  BY <1>2, <1>3, <1>4, ColumnsAre
<1>6. Typed!logical_col(s, x) = IF B = {} THEN n ELSE CHOOSE i \in B : \A j \in B : i <= j
  BY DEF Typed!logical_col
<1>7. ASSUME NEW i \in 0..(n - 1) PROVE i \in B <=> c <= i
  <2>1. i + 1 \in 0..n
    BY <1>1
  <2>2. Typed!visual_col(s, i + 1) = v[i + 1] /\ v[i + 1] \in Nat
    BY <1>2, <1>3, <2>1, ColumnsAre
  <2>3. CASE c <= i
    <3>1. c < i + 1
      BY <1>4, <2>3
    <3>2. v[c] < v[i + 1]
      BY <1>1, <1>2, <1>4, <2>1, <3>1, ColumnsGrow
    <3> QED BY <1>5, <2>2, <2>3, <3>2
  <2>4. CASE c > i
    <3>1. c = i + 1 \/ i + 1 < c
      BY <1>4, <2>4
    <3>2. i + 1 < c => v[i + 1] < v[c]
      BY <1>1, <1>2, <1>4, <2>1, ColumnsGrow
    <3>3. ~(v[i + 1] > v[c])
      BY <1>3, <1>4, <1>5, <2>2, <3>1, <3>2
    <3> QED BY <1>5, <2>2, <2>4, <3>3
  <2> QED BY <1>4, <2>3, <2>4
<1> HIDE DEF x, B
<1>8. CASE n = 0
  <2>1. B = {}
    BY <1>8 DEF B
  <2> QED BY <1>4, <1>5, <1>6, <1>8, <2>1 DEF x
<1>9. CASE n > 0
  <2>1. c \in B /\ \A j \in B : j \in Nat /\ c <= j
    <3>1. B \subseteq 0..(n - 1)
      BY DEF B
    <3> QED BY <1>4, <1>7, <1>9, <3>1
  <2>2. (CHOOSE i \in B : \A j \in B : i <= j) = c
    <3>1. \A i \in B : (\A j \in B : i <= j) => i = c
      BY <1>4, <2>1
    <3> QED BY <2>1, <3>1
  <2> QED BY <1>5, <1>6, <2>1, <2>2 DEF x
<1> QED BY <1>1, <1>8, <1>9

LEMMA LogicalIs ==
  ASSUME NEW s \in Seq(STRING), NEW x
  PROVE  Typed!logical_col(s, x) \in 0..Len(s)
<1> DEFINE B == {i \in 0..(Len(s) - 1) : Typed!visual_col(s, i + 1) > x}
<1>1. B \subseteq Nat /\ B \subseteq 0..Len(s) /\ Len(s) \in Nat
  OBVIOUS
<1>2. Typed!logical_col(s, x) = IF B = {} THEN Len(s) ELSE CHOOSE i \in B : \A j \in B : i <= j
  BY DEF Typed!logical_col
<1> HIDE DEF B
<1>3. CASE B # {}
  <2>1. \E i \in B : \A j \in B : i <= j
    BY <1>1, <1>3, LeastNumber
  <2> QED BY <1>1, <1>2, <1>3, <2>1
<1> QED BY <1>1, <1>2, <1>3

Rows == 0..(Len(vw_lines) - 1)
Cols(r) == 0..Typed!Greater(0, Len(vw_lines[r + 1]) - 1)

\* Where a run of j and k began: the column that is remembered is that of the cursor
\* there, and there the cursor comes back to it.
Remembers(goal, origin, crow, ccol) ==
  \E r \in Rows : \E c \in Cols(r) :
    /\ origin = <<r, c>> /\ goal = Typed!visual_col(vw_lines[r + 1], c)
    /\ crow = r => ccol = c

OnScreen(crow, v, row_off, col_off) ==
  /\ row_off >= 0 /\ (crow - row_off) \in 0..(scr_rows - 1 - scrolloff)
  /\ (crow - row_off) >= Typed!Lesser(scrolloff, scr_rows - 1 - scrolloff) \/ row_off = 0
  /\ col_off >= 0 /\ (v - col_off) \in 0..(scr_cols - 1)

ViewInv ==
  /\ vw_lines \in Seq(Seq(STRING)) /\ vw_lines /= <<>>
  /\ vw_crow \in Rows /\ vw_ccol \in Cols(vw_crow)
  /\ vw_goal_vcol = -1 \/ Remembers(vw_goal_vcol, vw_origin, vw_crow, vw_ccol)
  /\ vw_row_off \in Nat /\ vw_col_off \in Nat /\ vw_shown \in BOOLEAN
  /\ vw_shown = TRUE =>
       OnScreen(vw_crow, Typed!visual_col(vw_lines[vw_crow + 1], vw_ccol), vw_row_off, vw_col_off)

LEMMA LineIs ==
  ASSUME ViewInv
  PROVE  /\ Len(vw_lines) \in Nat \ {0}
         /\ \A r \in Rows : /\ vw_lines[r + 1] \in Seq(STRING) /\ Len(vw_lines[r + 1]) \in Nat
                           /\ Typed!Line(r) = vw_lines[r + 1]
                           /\ 0 \in Cols(r) /\ Cols(r) \subseteq Nat
                           /\ \A c \in Cols(r) : Typed!visual_col(vw_lines[r + 1], c) \in Nat
<1>1. Len(vw_lines) \in Nat \ {0}
  BY EmptySeq DEF ViewInv
<1>2. ASSUME NEW r \in Rows
      PROVE  /\ vw_lines[r + 1] \in Seq(STRING) /\ Len(vw_lines[r + 1]) \in Nat
             /\ Typed!Line(r) = vw_lines[r + 1]
             /\ 0 \in Cols(r) /\ Cols(r) \subseteq Nat
             /\ \A c \in Cols(r) : Typed!visual_col(vw_lines[r + 1], c) \in Nat
  <2>1. r + 1 \in 1..Len(vw_lines)
    BY <1>1 DEF Rows
  <2>2. vw_lines[r + 1] \in Seq(STRING)
    BY <2>1 DEF ViewInv
  <2>3. Len(vw_lines[r + 1]) \in Nat
    BY <2>2
  <2>4. 0 \in Cols(r) /\ Cols(r) \subseteq Nat
    BY <2>3 DEF Cols, Typed!Greater
  <2>5. \A c \in Cols(r) : Typed!visual_col(vw_lines[r + 1], c) \in Nat
    BY <2>2, ColumnFound DEF Cols
  <2>6. Typed!Line(r) = vw_lines[r + 1]
    BY DEF Typed!Line
  <2> QED BY <2>2, <2>3, <2>4, <2>5, <2>6
<1> QED BY <1>1, <1>2

LEMMA HorizontalKeeps ==
  ASSUME ViewInv, NEW c \in Cols(vw_crow), Typed!Horizontal(c)
  PROVE  ViewInv'
<1>1. /\ vw_ccol' = c /\ vw_goal_vcol' = -1 /\ vw_shown' = FALSE /\ vw_lines' = vw_lines
      /\ vw_crow' = vw_crow /\ vw_row_off' = vw_row_off /\ vw_col_off' = vw_col_off
  BY DEF Typed!Horizontal
<1> QED BY <1>1 DEF ViewInv, Rows, Cols

LEMMA GotoKeeps ==
  ASSUME ViewInv, NEW r \in Rows, Typed!Goto(r)
  PROVE  ViewInv'
<1>1. /\ vw_ccol' = 0 /\ vw_goal_vcol' = -1 /\ vw_shown' = FALSE /\ vw_lines' = vw_lines
      /\ vw_crow' = r /\ vw_row_off' = vw_row_off /\ vw_col_off' = vw_col_off
  BY DEF Typed!Goto
<1>2. 0 \in Cols(r)
  BY LineIs
<1> QED BY <1>1, <1>2 DEF ViewInv, Rows, Cols

LEMMA VerticalKeeps ==
  ASSUME ViewInv, NEW n \in Int, Typed!vertical(n)
  PROVE  ViewInv'
<1> DEFINE s == vw_lines[vw_crow' + 1]
           g == vw_goal_vcol'
           l == Typed!logical_col(s, g)
<1>0. /\ g = (IF vw_goal_vcol < 0 THEN Typed!cur_visual_col ELSE vw_goal_vcol)
      /\ vw_origin' = (IF vw_goal_vcol < 0 THEN <<vw_crow, vw_ccol>> ELSE vw_origin)
      /\ vw_crow' = Typed!Greater(0, Typed!Lesser(Len(vw_lines) - 1, vw_crow + n))
      /\ vw_ccol' = Typed!Greater(0, Typed!Lesser(l, Len(s) - 1))
      /\ vw_shown' = FALSE /\ vw_lines' = vw_lines
      /\ vw_row_off' = vw_row_off /\ vw_col_off' = vw_col_off
  BY DEF Typed!vertical, ViewInv
<1>1. Len(vw_lines) \in Nat \ {0} /\ vw_crow \in Rows /\ vw_ccol \in Cols(vw_crow)
  BY LineIs DEF ViewInv
<1>2. vw_crow' \in Rows
  BY <1>0, <1>1 DEF Rows, Typed!Greater, Typed!Lesser
<1>3. s \in Seq(STRING) /\ Len(s) \in Nat
  BY <1>2, LineIs
<1>b. PICK r \in Rows : \E c \in Cols(r) :
         vw_origin' = <<r, c>> /\ g = Typed!visual_col(vw_lines[r + 1], c)
  <2>1. CASE vw_goal_vcol = -1
    <3>1. g = Typed!visual_col(vw_lines[vw_crow + 1], vw_ccol) /\ vw_origin' = <<vw_crow, vw_ccol>>
      BY <1>0, <2>1 DEF Typed!cur_visual_col, Typed!Line
    <3> QED BY <1>1, <3>1
  <2>2. CASE Remembers(vw_goal_vcol, vw_origin, vw_crow, vw_ccol)
    <3>1. PICK r \in Rows : \E c \in Cols(r) :
             vw_origin = <<r, c>> /\ vw_goal_vcol = Typed!visual_col(vw_lines[r + 1], c)
      BY <2>2 DEF Remembers
    <3>2. vw_goal_vcol \in Nat
      BY <3>1, LineIs
    <3>3. g = vw_goal_vcol /\ vw_origin' = vw_origin
      BY <1>0, <3>2
    <3> QED BY <3>1, <3>3
  <2> QED BY <2>1, <2>2 DEF ViewInv
<1>4. PICK c \in Cols(r) : vw_origin' = <<r, c>> /\ g = Typed!visual_col(vw_lines[r + 1], c)
  BY <1>b
<1>5. l \in 0..Len(s)
  BY <1>3, LogicalIs
<1>6. vw_crow' = r => l = c
  BY <1>2, <1>3, <1>4, LineIs, ColumnFound DEF Cols
<1>a. vw_crow' = r => c \in 0..Typed!Greater(0, Len(s) - 1)
  BY <1>4 DEF Cols
<1> HIDE DEF s, l
<1>7. vw_ccol' \in 0..Typed!Greater(0, Len(s) - 1)
  BY <1>0, <1>3, <1>5 DEF Typed!Greater, Typed!Lesser
<1>8. vw_crow' = r => vw_ccol' = c
  BY <1>0, <1>3, <1>5, <1>6, <1>a DEF Typed!Greater, Typed!Lesser
<1>9. Remembers(vw_goal_vcol, vw_origin, vw_crow, vw_ccol)'
  BY <1>0, <1>4, <1>8 DEF Remembers, Rows, Cols
<1>10. vw_ccol' \in Cols(vw_crow)'
  BY <1>0, <1>7 DEF Cols, s
<1>11. vw_crow' \in Rows'
  BY <1>0, <1>2 DEF Rows
<1> QED BY <1>0, <1>9, <1>10, <1>11 DEF ViewInv

LEMMA ShowKeeps ==
  ASSUME ViewInv, Typed!ensure_visible
  PROVE  ViewInv'
<1> DEFINE v == Typed!visual_col(vw_lines[vw_crow + 1], vw_ccol)
           up == IF vw_crow < vw_row_off + scrolloff THEN Typed!Greater(0, vw_crow - scrolloff)
                                                     ELSE vw_row_off
           left == Typed!Lesser(v, vw_col_off)
<1>1. /\ vw_row_off' = (IF vw_crow >= up + scr_rows - scrolloff
                        THEN vw_crow - scr_rows + 1 + scrolloff ELSE up)
      /\ vw_col_off' = (IF v >= left + scr_cols THEN v - scr_cols + 1 ELSE left)
      /\ vw_shown' = TRUE /\ vw_lines' = vw_lines /\ vw_crow' = vw_crow /\ vw_ccol' = vw_ccol
      /\ vw_goal_vcol' = vw_goal_vcol /\ vw_origin' = vw_origin
  BY DEF Typed!ensure_visible, Typed!cur_visual_col, Typed!Line
<1>2. /\ v \in Nat /\ vw_crow \in Nat /\ vw_row_off \in Nat /\ vw_col_off \in Nat
  <2>1. vw_crow \in Rows /\ vw_ccol \in Cols(vw_crow) /\ vw_row_off \in Nat /\ vw_col_off \in Nat
    BY DEF ViewInv
  <2>2. vw_crow \in Nat
    BY <2>1, LineIs DEF Rows
  <2> QED BY <2>1, <2>2, LineIs
<1>3. /\ scr_rows \in Nat /\ scr_cols \in Nat \ {0} /\ scrolloff \in Nat /\ scrolloff < scr_rows
  BY EditorAssumption
<1> HIDE DEF v
<1>4. /\ vw_row_off' \in Nat /\ (vw_crow - vw_row_off') \in 0..(scr_rows - 1 - scrolloff)
      /\ \/ (vw_crow - vw_row_off') >= Typed!Lesser(scrolloff, scr_rows - 1 - scrolloff)
         \/ vw_row_off' = 0
  BY <1>1, <1>2, <1>3 DEF Typed!Lesser, Typed!Greater
<1>5. vw_col_off' \in Nat /\ (v - vw_col_off') \in 0..(scr_cols - 1)
  BY <1>1, <1>2, <1>3 DEF Typed!Lesser
<1>6. OnScreen(vw_crow, v, vw_row_off', vw_col_off')
  <2>1. vw_row_off' >= 0 /\ vw_col_off' >= 0
    BY <1>4, <1>5
  <2> QED BY <1>4, <1>5, <2>1, Zenon DEF OnScreen
<1>7. OnScreen(vw_crow, Typed!visual_col(vw_lines[vw_crow + 1], vw_ccol), vw_row_off, vw_col_off)'
  BY <1>1, <1>6, Zenon DEF v, OnScreen, Typed!Lesser, Typed!visual_col
<1>8. /\ vw_lines' \in Seq(Seq(STRING)) /\ vw_lines' /= <<>>
      /\ vw_crow' \in Rows' /\ vw_ccol' \in Cols(vw_crow)'
      /\ vw_goal_vcol' = -1 \/ Remembers(vw_goal_vcol, vw_origin, vw_crow, vw_ccol)'
  BY <1>1 DEF ViewInv, Rows, Cols, Remembers
<1> QED BY <1>1, <1>4, <1>5, <1>7, <1>8 DEF ViewInv

LEMMA ViewSteps == ViewInv /\ [Typed!ViewNext]_(Typed!view_vars) => ViewInv'
<1> SUFFICES ASSUME ViewInv, [Typed!ViewNext]_(Typed!view_vars) PROVE ViewInv'
  OBVIOUS
<1> DEFINE n == Len(vw_lines[vw_crow + 1])
<1>1. /\ vw_crow \in Rows /\ vw_ccol \in 0..Typed!Greater(0, n - 1) /\ n \in Nat
      /\ Len(vw_lines) \in Nat \ {0} /\ Typed!Line(vw_crow) = vw_lines[vw_crow + 1]
  BY LineIs DEF ViewInv, Cols
<1>2. CASE Typed!view_move_left
  <2>1. Typed!Greater(0, vw_ccol - 1) \in Cols(vw_crow)
    BY <1>1 DEF Cols, Typed!Greater
  <2> QED BY <1>2, <2>1, HorizontalKeeps DEF Typed!view_move_left
<1>3. CASE Typed!view_move_right
  <2>1. Typed!Greater(Typed!Lesser(n - 1, vw_ccol + 1), 0) \in Cols(vw_crow)
    BY <1>1 DEF Cols, Typed!Greater, Typed!Lesser
  <2> QED BY <1>1, <1>3, <2>1, HorizontalKeeps DEF Typed!view_move_right
<1>4. CASE Typed!move_home
  <2>1. 0 \in Cols(vw_crow)
    BY <1>1, LineIs
  <2> QED BY <1>4, <2>1, HorizontalKeeps DEF Typed!move_home
<1>5. CASE Typed!move_end
  <2>1. Typed!Greater(0, n - 1) \in Cols(vw_crow)
    BY <1>1 DEF Cols, Typed!Greater
  <2> QED BY <1>1, <1>5, <2>1, HorizontalKeeps DEF Typed!move_end
<1>6. CASE Typed!vertical(-1) \/ Typed!vertical(1)
  BY <1>6, VerticalKeeps
<1>7. CASE Typed!goto_first
  <2>1. 0 \in Rows
    BY <1>1 DEF Rows
  <2> QED BY <1>7, <2>1, GotoKeeps DEF Typed!goto_first
<1>8. CASE Typed!goto_last
  <2>1. Len(vw_lines) - 1 \in Rows
    BY <1>1 DEF Rows
  <2> QED BY <1>8, <2>1, GotoKeeps DEF Typed!goto_last
<1>9. CASE Typed!ensure_visible
  BY <1>9, ShowKeeps
<1>10. CASE UNCHANGED Typed!view_vars
  <2>1. /\ vw_lines' = vw_lines /\ vw_crow' = vw_crow /\ vw_ccol' = vw_ccol
        /\ vw_goal_vcol' = vw_goal_vcol /\ vw_row_off' = vw_row_off /\ vw_col_off' = vw_col_off
        /\ vw_origin' = vw_origin /\ vw_shown' = vw_shown
    BY <1>10 DEF Typed!view_vars
  <2> QED BY <2>1 DEF ViewInv, Rows, Cols, Remembers
<1> QED BY <1>2, <1>3, <1>4, <1>5, <1>6, <1>7, <1>8, <1>9, <1>10 DEF Typed!ViewNext

LEMMA ViewMeans == ViewInv => Typed!CursorFollowed
<1> SUFFICES ASSUME ViewInv PROVE Typed!CursorFollowed
  OBVIOUS
<1>1. vw_ccol \in 0..Typed!Greater(0, Len(Typed!Line(vw_crow)) - 1)
  BY LineIs DEF ViewInv, Cols
<1>2. vw_goal_vcol >= 0 /\ vw_crow = vw_origin[1] => vw_ccol = vw_origin[2]
  BY DEF ViewInv, Remembers
<1>3. vw_shown => OnScreen(vw_crow, Typed!cur_visual_col, vw_row_off, vw_col_off)
  BY DEF ViewInv, Typed!cur_visual_col, Typed!Line
<1> QED BY <1>1, <1>2, <1>3 DEF Typed!CursorFollowed, OnScreen, Typed!screen_row, Typed!screen_col

\* Whatever the text, the tabs and the size of the screen of vc-04: the cursor is in the
\* line, j and k come back to the column they left, and what is shown has the cursor.
THEOREM CursorKept == Typed!ViewSpec => []Typed!CursorFollowed
<1>1. Typed!ViewInit => ViewInv
  <2> SUFFICES ASSUME Typed!ViewInit PROVE ViewInv
    OBVIOUS
  <2>1. /\ vw_lines \in Seq(Seq(STRING)) /\ vw_lines /= <<>> /\ vw_crow = 0 /\ vw_ccol = 0
        /\ vw_goal_vcol = -1 /\ vw_row_off = 0 /\ vw_col_off = 0 /\ vw_shown = FALSE
    BY EditorAssumption DEF Typed!ViewInit
  <2>2. Len(vw_lines) \in Nat \ {0}
    BY <2>1, EmptySeq
  <2>3. vw_lines[0 + 1] \in Seq(STRING)
    BY <2>1, <2>2
  <2>4. 0 \in Rows /\ 0 \in Cols(0)
    BY <2>2, <2>3 DEF Rows, Cols, Typed!Greater
  <2> QED BY <2>1, <2>4 DEF ViewInv
<1> QED BY <1>1, ViewSteps, ViewMeans, PTL DEF Typed!ViewSpec

------------------------------------------------------------------------------
\* What is typed into the editor is followed: by its keys, its cursor and its modes.
THEOREM InputKept == Typed!TermSpec /\ Typed!ViewSpec /\ Typed!ModeSpec => []InputFollowed
<1>1. Typed!KeysCutRight /\ Typed!CursorFollowed /\ Typed!ModeBounds => InputFollowed
  BY DEF InputFollowed
<1> QED BY <1>1, KeysKept, CursorKept, ModesKept, PTL

------------------------------------------------------------------------------
(* Input: the command line and its commands.                               *)

Strings == Seq(STRING)

LEMMA ExpandIs ==
  ASSUME ex_table \in Maps, NEW keys \in Strings PROVE Typed!expand(keys) \in Strings
<1> DEFINE R(k) == IF k \in DOMAIN ex_table THEN ex_table[k] ELSE k
           D(f) == [d \in 0..17 |-> IF d = 0 THEN keys ELSE R(f[d - 1])]
           F == CHOOSE f : f = D(f)
           g == [p \in (1..17) \X Strings |-> R(p[2])]
<1>1. \A k \in Strings : R(k) \in Strings
  BY EditorAssumption DEF Strings
<1> HIDE DEF R
<1>2. g \in [(1..17) \X Strings -> Strings]
  BY <1>1
<1>3. PICK h \in [0..17 -> Strings] : Iteration(17, keys, g, h)
  <2> HIDE DEF g
  <2> QED BY ONLY <1>2, keys \in Strings, 17 \in Nat, Iterated
<1>4. h = D(h)
  <2>1. h = [i \in 0..17 |-> IF i = 0 THEN keys ELSE g[<<i, h[i - 1]>>]]
    BY <1>3 DEF Iteration
  <2>2. ASSUME NEW i \in 0..17, i /= 0 PROVE g[<<i, h[i - 1]>>] = R(h[i - 1])
    <3>1. i \in 1..17 /\ i - 1 \in 0..17
      BY <2>2
    <3>2. <<i, h[i - 1]>> \in (1..17) \X Strings
      BY <3>1, <1>3
    <3> QED BY <3>2
  <2> HIDE DEF g
  <2> QED BY <2>1, <2>2
<1>5. F = D(F)
  <2> HIDE DEF D
  <2> QED BY <1>4
<1> HIDE DEF F
<1>6. ASSUME NEW i \in 0..17 PROVE F[i] = IF i = 0 THEN keys ELSE R(F[i - 1])
  BY <1>5
<1> DEFINE T == {i \in 0..17 : F[i] \in Strings}
<1>7. 0 \in T
  BY <1>6
<1>8. ASSUME NEW i \in 0..16, i \in T PROVE i + 1 \in T
  <2>1. i + 1 \in 0..17 /\ i + 1 /= 0 /\ (i + 1) - 1 = i
    OBVIOUS
  <2>2. F[i + 1] = R(F[i])
    BY <1>6, <2>1
  <2> QED BY <1>1, <1>8, <2>1, <2>2
<1>9. 17 \in T
  <2> HIDE DEF T
  <2>1. 0..17 \subseteq T
    <3>1. 17 - 1 = 16 OBVIOUS
    <3>2. \A i \in 0..(17 - 1) : i \in T => i + 1 \in T BY <3>1, <1>8
    <3> QED BY ONLY <1>7, <3>2, 17 \in Nat, UptoInduction
  <2> QED BY <2>1
<1>10. Typed!expand(keys) = F[17]
  BY DEF Typed!expand, Typed!MaxDepth, R, F
<1> QED BY <1>9, <1>10

LEMMA NumberIs ==
  ASSUME NEW s \in Strings, Typed!ToSet(s) \subseteq DOMAIN Typed!Digit PROVE Typed!Number(s) \in Nat
<1> DEFINE n == Len(s)
           e(i, k) == 10 * k + Typed!Digit[s[i]]
           D(f) == [i \in 0..n |-> IF i = 0 THEN 0 ELSE e(i, f[i - 1])]
           F == CHOOSE f : f = D(f)
           g == [p \in (1..n) \X Nat |-> e(p[1], p[2])]
<1>0. n \in Nat
  BY DEF Strings
<1>1. ASSUME NEW i \in 1..n, NEW k \in Nat PROVE e(i, k) \in Nat
  <2>1. s[i] \in Typed!ToSet(s)
    BY DEF Typed!ToSet, Strings
  <2>2. s[i] \in {"0", "1", "9"}
    BY <2>1 DEF Typed!Digit
  <2>3. Typed!Digit[s[i]] \in Nat
    BY <2>2 DEF Typed!Digit
  <2> QED BY <2>3
<1> HIDE DEF n, e
<1>2. g \in [(1..n) \X Nat -> Nat]
  BY <1>1
<1>3. PICK h \in [0..n -> Nat] : Iteration(n, 0, g, h)
  <2> HIDE DEF g
  <2> QED BY ONLY <1>2, <1>0, 0 \in Nat, Iterated
<1>4. h = D(h)
  <2>1. h = [i \in 0..n |-> IF i = 0 THEN 0 ELSE g[<<i, h[i - 1]>>]]
    BY <1>3 DEF Iteration
  <2>2. ASSUME NEW i \in 0..n, i /= 0 PROVE g[<<i, h[i - 1]>>] = e(i, h[i - 1])
    <3>1. i \in 1..n /\ i - 1 \in 0..n
      BY <2>2, <1>0
    <3>2. <<i, h[i - 1]>> \in (1..n) \X Nat
      BY <3>1, <1>3
    <3> QED BY <3>2
  <2> HIDE DEF g
  <2> QED BY <2>1, <2>2
<1>5. F = D(F)
  <2> HIDE DEF D
  <2> QED BY <1>4
<1> HIDE DEF F
<1>6. ASSUME NEW i \in 0..n PROVE F[i] = IF i = 0 THEN 0 ELSE e(i, F[i - 1])
  BY <1>5
<1> DEFINE T == {i \in 0..n : F[i] \in Nat}
<1>7. 0 \in T
  BY <1>6, <1>0
<1>8. ASSUME NEW i \in 0..(n - 1), i \in T PROVE i + 1 \in T
  <2>1. i + 1 \in 0..n /\ i + 1 \in 1..n /\ i + 1 /= 0 /\ (i + 1) - 1 = i
    BY <1>0
  <2>2. F[i + 1] = e(i + 1, F[i])
    BY <1>6, <2>1
  <2> QED BY <1>1, <1>8, <2>1, <2>2
<1>9. n \in T
  <2> HIDE DEF T
  <2>1. 0..n \subseteq T
    BY ONLY <1>0, <1>7, <1>8, UptoInduction
  <2> QED BY <2>1, <1>0
<1>10. Typed!Number(s) = F[n]
  BY DEF Typed!Number, e, F, n
<1> QED BY <1>9, <1>10

Quit == <<"q", "u", "i", "t">>

LEMMA CommandsAre ==
  /\ DOMAIN Typed!Commands = 1..4
  /\ Typed!Commands[1].name = <<"w", "r", "i", "t", "e">> /\ Typed!Commands[2].name = Quit
  /\ Typed!Commands[3].name = <<"w", "q">> /\ Typed!Commands[4].name = <<"s", "e", "t">>
  /\ Typed!Commands[2].abbr = <<"q">>
  /\ \A i \in 1..4 : i /= 2 => Typed!Commands[i].name /= Quit
<1>1. DOMAIN Typed!Commands = 1..4
  BY DEF Typed!Commands
<1>2. /\ Typed!Commands[1].name = <<"w", "r", "i", "t", "e">> /\ Typed!Commands[2].name = Quit
      /\ Typed!Commands[3].name = <<"w", "q">> /\ Typed!Commands[4].name = <<"s", "e", "t">>
      /\ Typed!Commands[2].abbr = <<"q">>
  BY DEF Typed!Commands, Quit
<1>3. Quit[1] = "q" /\ <<"w", "r", "i", "t", "e">>[1] = "w" /\ <<"w", "q">>[1] = "w" /\ <<"s", "e", "t">>[1] = "s"
  BY DEF Quit
<1>4. \A i \in 1..4 : i /= 2 => Typed!Commands[i].name /= Quit
  <2> SUFFICES ASSUME NEW i \in 1..4, i /= 2 PROVE Typed!Commands[i].name /= Quit
    OBVIOUS
  <2>1. i = 1 \/ i = 3 \/ i = 4
    OBVIOUS
  <2>2. Typed!Commands[i].name[1] /= "q"
    BY <1>2, <1>3, <2>1
  <2> QED BY <1>3, <2>2
<1> QED BY <1>1, <1>2, <1>4

\* A word that stands for quit and nothing else is a beginning of it.
LEMMA QuitMeant ==
  ASSUME NEW word \in Strings, 2 \in Typed!Hits(word), \A i, j \in Typed!Hits(word) : i = j
  PROVE  \E n \in 1..4 : word = SubSeq(Quit, 1, n)
<1>0. Quit \in Seq({"q", "u", "i", "t"}) /\ Len(Quit) = 4
  BY DEF Quit
<1>1. CASE Typed!Exact(word) /= {}
  <2> DEFINE c == CHOOSE i \in Typed!Exact(word) : \A j \in Typed!Exact(word) : i <= j
  <2>1. Typed!Hits(word) = {c}
    BY <1>1 DEF Typed!Hits
  <2>2. Typed!Exact(word) \subseteq Nat
    BY CommandsAre DEF Typed!Exact
  <2>3. c \in Typed!Exact(word)
    <3>1. \E i \in Typed!Exact(word) : \A j \in Typed!Exact(word) : i <= j
      BY ONLY <1>1, <2>2, LeastNumber
    <3> QED BY <3>1
  <2> HIDE DEF c
  <2>4. 2 \in Typed!Exact(word)
    BY <2>1, <2>3
  <2>5. word = Quit \/ word = <<"q">>
    BY <2>4, CommandsAre DEF Typed!Exact
  <2>6. SubSeq(Quit, 1, 4) = Quit
    BY <1>0, SubSeqFull
  <2>7. SubSeq(Quit, 1, 1) = <<"q">>
    <3>1. Quit[1] = "q"
      BY DEF Quit
    <3>2. \A i \in 1..1 : Quit[i] \in {"q", "u", "i", "t"}
      BY <3>1
    <3>3. SubSeq(Quit, 1, 1) \in Seq({"q", "u", "i", "t"}) /\ Len(SubSeq(Quit, 1, 1)) = 1
          /\ SubSeq(Quit, 1, 1)[1] = "q"
      BY <1>0, <3>1
    <3>4. <<"q">> \in Seq({"q", "u", "i", "t"}) /\ Len(<<"q">>) = 1 /\ <<"q">>[1] = "q"
      OBVIOUS
    <3>5. \A i \in 1..1 : SubSeq(Quit, 1, 1)[i] = <<"q">>[i]
      BY <3>3, <3>4
    <3> QED BY ONLY <3>3, <3>4, <3>5, SeqEqual
  <2>8. 1 \in 1..4 /\ 4 \in 1..4
    OBVIOUS
  <2> QED BY ONLY <2>5, <2>6, <2>7, <2>8
<1>2. CASE Typed!Exact(word) = {}
  <2>1. Typed!Hits(word) = Typed!ByPrefix(word)
    BY <1>2 DEF Typed!Hits
  <2>2. Len(word) <= Len(Quit) /\ SubSeq(word, 1, Len(word)) = SubSeq(Quit, 1, Len(word))
    BY <2>1, CommandsAre DEF Typed!ByPrefix, Typed!IsPrefix
  <2>3. SubSeq(word, 1, Len(word)) = word /\ Len(word) \in Nat
    BY SubSeqFull DEF Strings
  <2>4. Len(word) /= 0
    <3> SUFFICES ASSUME Len(word) = 0 PROVE FALSE
      OBVIOUS
    <3>1. SubSeq(Quit, 1, 0) = <<>> /\ SubSeq(word, 1, 0) = <<>> /\ Len(Typed!Commands[4].name) = 3
          /\ SubSeq(Typed!Commands[4].name, 1, 0) = <<>>
      BY CommandsAre, <1>0 DEF Strings
    <3>2. 4 \in Typed!ByPrefix(word)
      BY <3>1, CommandsAre DEF Typed!ByPrefix, Typed!IsPrefix
    <3> QED BY <2>1, <3>2
  <2>5. Len(word) \in 1..4
    BY <1>0, <2>2, <2>3, <2>4
  <2> QED BY <2>2, <2>3, <2>5
<1> QED BY <1>1, <1>2

ExInv ==
  /\ ex_table \in Maps /\ ex_line \in Strings
  /\ ex_dirty \in BOOLEAN /\ ex_saved \in BOOLEAN /\ ex_quit \in BOOLEAN
  /\ ~ex_dirty => ex_saved
  /\ ex_cursor \in 0..(LineCount - 1)

LEMMA ExBegins == Typed!ExInit => ExInv
<1>1. LineCount \in Nat \ {0}
  BY EditorAssumption
<1>2. <<>> \in Strings
  BY EmptySeq DEF Strings
<1>3. 0 \in 0..(LineCount - 1)
  BY <1>1
<1> QED BY <1>2, <1>3 DEF Typed!ExInit, ExInv

Keeps == ex_dirty' \in BOOLEAN /\ ex_saved' \in BOOLEAN /\ ex_quit' \in BOOLEAN /\ (~ex_dirty' => ex_saved')
         /\ ex_cursor' \in 0..(LineCount - 1)

LEMMA FirstIs ==
  ASSUME NEW line \in Strings PROVE Typed!FirstWord(line) \in Strings
<1> DEFINE i == CHOOSE k \in Typed!Space(line) : \A j \in Typed!Space(line) : k <= j
<1>1. CASE Typed!Space(line) = {}
  BY <1>1 DEF Typed!FirstWord
<1>2. CASE Typed!Space(line) /= {}
  <2>1. Typed!Space(line) \subseteq Nat
    <3>1. Len(line) \in Nat
      BY DEF Strings
    <3>2. 1..Len(line) \subseteq Nat
      BY <3>1
    <3>3. Typed!Space(line) \subseteq 1..Len(line)
      BY DEF Typed!Space
    <3> QED BY <3>2, <3>3
  <2>2. \E k \in Typed!Space(line) : \A j \in Typed!Space(line) : k <= j
    BY ONLY <1>2, <2>1, LeastNumber
  <2>3. i \in Typed!Space(line)
    BY <2>2
  <2>4. i \in 1..Len(line)
    BY <2>3 DEF Typed!Space
  <2>5. Typed!FirstWord(line) = SubSeq(line, 1, i - 1)
    BY <1>2 DEF Typed!FirstWord
  <2> HIDE DEF i
  <2>6. SubSeq(line, 1, i - 1) \in Seq(STRING)
    BY <2>4 DEF Strings
  <2> QED BY <2>5, <2>6 DEF Strings
<1> QED BY <1>1, <1>2

LEMMA ExecKeeps ==
  ASSUME ExInv, ~ex_quit, NEW line \in Strings, Typed!exec(line)
  PROVE  /\ Keeps
         /\ ex_quit' /\ ex_dirty' =>
              \E n \in 1..4 : Typed!FirstWord(line) = Append(SubSeq(Quit, 1, n), "!")
<1> DEFINE w == Typed!FirstWord(line)
           bang == w /= <<>> /\ Typed!Last(w) = "!"
           word == IF bang THEN Typed!Front(w) ELSE w
           hits == Typed!Hits(word)
           c == Typed!Commands[CHOOSE i \in hits : TRUE]
           n == Typed!Number(line)
<1>a. LineCount \in Nat \ {0}
  BY EditorAssumption
<1>1. w \in Strings
  BY FirstIs
<1> HIDE DEF w
<1>2. word \in Strings /\ (bang => w = Append(word, "!"))
  <2>1. CASE bang
    <3>1. w \in Seq(STRING) /\ w /= <<>>
      BY <1>1, <2>1 DEF Strings
    <3>2. Len(w) \in Nat \ {0} /\ word = SubSeq(w, 1, Len(w) - 1) /\ w[Len(w)] = "!"
      BY <3>1, <2>1, EmptySeq DEF Typed!Front, Typed!Last
    <3> HIDE DEF word
    <3>3. word \in Seq(STRING) /\ Len(word) = Len(w) - 1 /\ \A i \in 1..(Len(w) - 1) : word[i] = w[i]
      <4>1. 1 \in Int /\ Len(w) - 1 \in Int /\ \A i \in 1..(Len(w) - 1) : w[i] \in STRING
        BY <3>1, <3>2
      <4>2. /\ SubSeq(w, 1, Len(w) - 1) \in Seq(STRING)
            /\ Len(SubSeq(w, 1, Len(w) - 1)) = IF 1 <= Len(w) - 1 THEN Len(w) - 1 - 1 + 1 ELSE 0
            /\ \A i \in 1..(Len(w) - 1 - 1 + 1) : SubSeq(w, 1, Len(w) - 1)[i] = w[1 + i - 1]
        BY ONLY <4>1, SubSeqProperties
      <4>3. Len(SubSeq(w, 1, Len(w) - 1)) = Len(w) - 1
        <5> DEFINE cut == SubSeq(w, 1, Len(w) - 1)
                   k == Len(w)
        <5>1. k \in Nat \ {0}
          BY <3>2
        <5>2. Len(cut) = IF 1 <= k - 1 THEN k - 1 - 1 + 1 ELSE 0
          BY <4>2
        <5> HIDE DEF cut, k
        <5>3. Len(cut) = k - 1
          BY ONLY <5>1, <5>2
        <5> QED BY <5>3 DEF cut, k
      <4>4. ASSUME NEW i \in 1..(Len(w) - 1) PROVE word[i] = w[i]
        <5>1. 1 + i - 1 = i /\ i \in 1..(Len(w) - 1 - 1 + 1)
          BY <3>2
        <5> QED BY <3>2, <4>2, <5>1
      <4> QED BY <3>2, <4>2, <4>3, <4>4
    <3>4. w = Append(word, "!")
      <4>1. w[Len(w)] \in STRING
        BY <3>1, <3>2
      <4>2. Append(word, "!") \in Seq(STRING) /\ Len(Append(word, "!")) = Len(w)
        BY <3>2, <3>3, <4>1
      <4>3. ASSUME NEW i \in 1..Len(w) PROVE w[i] = Append(word, "!")[i]
        BY <3>2, <3>3, <4>1
      <4> QED BY ONLY <3>1, <4>2, <4>3, SeqEqual
    <3> QED BY <3>3, <3>4 DEF Strings
  <2>2. CASE ~bang
    BY <1>1, <2>2
  <2> QED BY <2>1, <2>2
<1> HIDE DEF word, bang
<1>3. CASE \E m : Typed!Say(m)
  BY <1>3 DEF Typed!Say, ExInv, Keeps
<1>4. CASE /\ line /= <<>> /\ Typed!ToSet(line) \subseteq DOMAIN Typed!Digit
           /\ ex_cursor' = (IF n = 0 THEN 0 ELSE IF n < LineCount THEN n - 1 ELSE LineCount - 1)
           /\ UNCHANGED <<ex_dirty, ex_quit, ex_saved>>
  <2>1. n \in Nat
    BY <1>4, NumberIs
  <2> HIDE DEF n
  <2>2. ex_cursor' \in 0..(LineCount - 1)
    BY <1>4, <1>a, <2>1
  <2> QED BY <1>4, <2>2 DEF ExInv, Keeps
<1>5. CASE hits /= {} /\ (\A i, j \in hits : i = j) /\ Typed!Run(c.name, bang)
  <2>1. PICK k \in hits : hits = {k} /\ c = Typed!Commands[k]
    BY <1>5
  <2>2. k \in 1..4
    <3>1. CASE Typed!Exact(word) /= {}
      <4>1. Typed!Exact(word) \subseteq 1..4 /\ Typed!Exact(word) \subseteq Nat
        BY CommandsAre DEF Typed!Exact
      <4>2. \E i \in Typed!Exact(word) : \A j \in Typed!Exact(word) : i <= j
        BY ONLY <3>1, <4>1, LeastNumber
      <4> QED BY <3>1, <4>1, <4>2 DEF Typed!Hits
    <3>2. CASE Typed!Exact(word) = {}
      BY <3>2, CommandsAre DEF Typed!Hits, Typed!ByPrefix
    <3> QED BY <3>1, <3>2
  <2> DEFINE name == c.name
  <2>3. k /= 2 => name /= Quit
    BY <2>1, <2>2, CommandsAre
  <2>4. k = 2 => name = Quit
    BY <2>1, CommandsAre
  <2>5. Typed!Commands[2].name = Quit
    BY CommandsAre
  <2>6. Typed!Run(name, bang)
    BY <1>5
  <2> HIDE DEF c, hits, name
  <2>7. CASE name = Quit /\ ex_dirty /\ ~bang
    <3>1. Typed!Say("E37")
      BY <2>5, <2>6, <2>7, CommandsAre DEF Typed!Run
    <3> QED BY <1>3, <3>1
  <2>8. CASE name /= Quit /\ name = Typed!Commands[4].name
    <3>1. Typed!Say("set")
      BY <2>5, <2>6, <2>8 DEF Typed!Run
    <3> QED BY <1>3, <3>1
  <2>9. CASE ~(name = Quit /\ ex_dirty /\ ~bang) /\ name /= Typed!Commands[4].name
    <3>1. /\ ex_saved' = (ex_saved \/ name /= Quit)
          /\ ex_dirty' = (ex_dirty /\ name = Quit)
          /\ ex_quit' = (ex_quit \/ name /= Typed!Commands[1].name)
          /\ ex_cursor' = ex_cursor
      BY <2>5, <2>6, <2>9 DEF Typed!Run
    <3>2. Keeps
      BY <3>1 DEF ExInv, Keeps
    <3>3. ASSUME ex_dirty' PROVE \E m \in 1..4 : w = Append(SubSeq(Quit, 1, m), "!")
      <4>1. k = 2 /\ bang
        BY <2>3, <2>9, <3>1, <3>3
      <4>2. \E m \in 1..4 : word = SubSeq(Quit, 1, m)
        BY <1>2, <1>5, <2>1, <4>1, QuitMeant DEF hits
      <4> QED BY <1>2, <4>1, <4>2
    <3> QED BY <3>2, <3>3 DEF w
  <2>10. name = Quit => name /= Typed!Commands[4].name
    BY CommandsAre
  <2> QED BY <2>7, <2>8, <2>9, <2>10
<1>6. \/ \E m : Typed!Say(m)
      \/ /\ line /= <<>> /\ Typed!ToSet(line) \subseteq DOMAIN Typed!Digit
         /\ ex_cursor' = (IF n = 0 THEN 0 ELSE IF n < LineCount THEN n - 1 ELSE LineCount - 1)
         /\ UNCHANGED <<ex_dirty, ex_quit, ex_saved>>
      \/ hits /= {} /\ (\A i, j \in hits : i = j) /\ Typed!Run(c.name, bang)
  <2>1. CASE line = <<>>
    BY <2>1 DEF Typed!exec
  <2>2. CASE line /= <<>> /\ Typed!ToSet(line) \subseteq DOMAIN Typed!Digit
    BY <2>2 DEF Typed!exec
  <2>3. CASE line /= <<>> /\ ~(Typed!ToSet(line) \subseteq DOMAIN Typed!Digit)
    <3>1. CASE hits = {} /\ Typed!Say("E492")
      BY <3>1
    <3>2. CASE hits /= {} /\ (\E i, j \in hits : i /= j) /\ Typed!Say("E464")
      BY <3>2
    <3>3. CASE hits /= {} /\ ~(\E i, j \in hits : i /= j)
               /\ IF bang /\ ~c.takesBang THEN Typed!Say("E477") ELSE Typed!Run(c.name, bang)
      BY <3>3
    <3>4. \/ hits = {} /\ Typed!Say("E492")
          \/ hits /= {} /\ (\E i, j \in hits : i /= j) /\ Typed!Say("E464")
          \/ hits /= {} /\ ~(\E i, j \in hits : i /= j)
             /\ IF bang /\ ~c.takesBang THEN Typed!Say("E477") ELSE Typed!Run(c.name, bang)
      <4>1. hits = {} => ~(\E i, j \in hits : i /= j)
        OBVIOUS
      <4> QED BY <2>3, <4>1 DEF Typed!exec, w, bang, word, hits, c
    <3> QED BY <3>1, <3>2, <3>3, <3>4
  <2> QED BY <2>1, <2>2, <2>3
<1> QED BY ONLY <1>3, <1>4, <1>5, <1>6

LEMMA ExSteps ==
  ASSUME ExInv, [Typed!ExNext]_(Typed!ex_vars)
  PROVE  ExInv' /\ Typed!KeepsWork
<1>0. Typed!Commands[2].name = Quit
  BY CommandsAre
<1>1. ASSUME NEW c \in Keys, Typed!ExFeed(c) PROVE ExInv' /\ Typed!KeepsWork
  <2>1. c \in STRING /\ ex_line \in Seq(STRING)
    BY EditorAssumption DEF ExInv, Strings
  <2>2. Append(ex_line, c) \in Seq(STRING)
    BY ONLY <2>1, AppendProperties
  <2>3. ex_line' \in Strings
    BY <1>1, <2>2 DEF Typed!ExFeed, Strings
  <2> QED BY <1>1, <2>3 DEF Typed!ExFeed, ExInv, Typed!KeepsWork
<1>2. ASSUME Typed!BackspaceKey PROVE ExInv' /\ Typed!KeepsWork
  <2>1. ex_line \in Seq(STRING) /\ ex_line /= <<>>
    BY <1>2 DEF ExInv, Strings, Typed!BackspaceKey
  <2>2. ex_line' = SubSeq(ex_line, 1, Len(ex_line) - 1)
    BY <1>2 DEF Typed!BackspaceKey, Typed!Front
  <2>3. ex_line' \in Strings
    BY <2>1, <2>2 DEF Strings
  <2> QED BY <1>2, <2>3 DEF Typed!BackspaceKey, ExInv, Typed!KeepsWork
<1>3. ASSUME Typed!Cancel PROVE ExInv' /\ Typed!KeepsWork
  <2>1. <<>> \in Strings
    BY DEF Strings
  <2> QED BY <1>3, <2>1 DEF Typed!Cancel, ExInv, Typed!KeepsWork
<1>4. ASSUME Typed!Execute PROVE ExInv' /\ Typed!KeepsWork
  <2> DEFINE line == Typed!expand(ex_line)
  <2>1. line \in Strings
    BY ExpandIs DEF ExInv
  <2>2. ~ex_quit /\ Typed!exec(line) /\ ex_line' = <<>> /\ ex_table' = ex_table
    BY <1>4 DEF Typed!Execute
  <2> HIDE DEF line
  <2>3. /\ Keeps
        /\ ex_quit' /\ ex_dirty' =>
             \E n \in 1..4 : Typed!FirstWord(line) = Append(SubSeq(Quit, 1, n), "!")
    BY ONLY ExInv, <2>1, <2>2, ExecKeeps
  <2>4. <<>> \in Strings
    BY DEF Strings
  <2>5. ExInv'
    BY <2>2, <2>3, <2>4 DEF ExInv, Keeps
  <2>6. Typed!KeepsWork
    BY <1>0, <2>3 DEF Typed!KeepsWork, Keeps, line
  <2> QED BY <2>5, <2>6
<1>5. ASSUME UNCHANGED Typed!ex_vars PROVE ExInv' /\ Typed!KeepsWork
  BY <1>5 DEF Typed!ex_vars, ExInv, Typed!KeepsWork
<1> QED BY <1>1, <1>2, <1>3, <1>4, <1>5 DEF Typed!ExNext

\* vc-11: whatever is typed and however keys are mapped, the editor ends with changes
\* that were not saved only for a beginning of quit with a bang.
THEOREM WorkKept == Typed!ExSpec => QuitKeepsWork
<1>1. ExInv /\ [Typed!ExNext]_(Typed!ex_vars) => ExInv' /\ Typed!KeepsWork
  BY ExSteps
<1>2. ExInv /\ [Typed!ExNext]_(Typed!ex_vars) => [part = "ex" => Typed!KeepsWork]_exVars
  BY <1>1
<1> QED BY <1>1, <1>2, ExBegins, PTL DEF Typed!ExSpec, QuitKeepsWork

------------------------------------------------------------------------------
(***************************************************************************)
(* Sums of a function over a finite set, as MapThenSumSet takes them: an   *)
(* element that CHOOSE picks, and the sum of the others.                   *)
(***************************************************************************)
Picked(s) == CHOOSE x \in s : TRUE
Adds(f, S, t) == t = [s \in SUBSET S |-> IF s = {} THEN 0 ELSE f[Picked(s)] + t[s \ {Picked(s)}]]
Ints(f, S) == IsFiniteSet(S) /\ \A x \in S : f[x] \in Int
Sum(f, S) == (CHOOSE t : Adds(f, S, t))[S]

\* What holds of nothing, and of one element more, holds of a finite set.
LEMMA SubsetInduction ==
  ASSUME NEW S, IsFiniteSet(S), NEW P, {} \in P,
         \A V \in SUBSET S : \A x \in S \ V : V \in P => V \cup {x} \in P
  PROVE  S \in P
<1> DEFINE T == {n \in Nat : \A V \in SUBSET S : Cardinality(V) = n => V \in P}
<1>1. \A V \in SUBSET S : IsFiniteSet(V) /\ Cardinality(V) \in Nat
  BY FS_Subset, FS_CardinalityType
<1>2. 0 \in T
  BY <1>1, FS_EmptySet
<1>3. ASSUME NEW n \in Nat, n \in T PROVE n + 1 \in T
  <2> SUFFICES ASSUME NEW V \in SUBSET S, Cardinality(V) = n + 1 PROVE V \in P
    OBVIOUS
  <2>1. IsFiniteSet(V) /\ V /= {}
    BY <1>1, FS_EmptySet
  <2>2. PICK x : x \in V
    BY <2>1
  <2>3. V \ {x} \in SUBSET S /\ x \in S \ (V \ {x}) /\ V = (V \ {x}) \cup {x}
    BY <2>2
  <2>4. Cardinality(V \ {x}) = n
    <3>1. Cardinality(V \ {x}) = Cardinality(V) - 1
      BY <2>1, <2>2, FS_RemoveElement
    <3> QED BY <3>1
  <2>5. V \ {x} \in P
    BY <1>3, <2>3, <2>4
  <2> QED BY <2>3, <2>5
<1> HIDE DEF T
<1>4. Nat \subseteq T
  BY ONLY <1>2, <1>3, SetInduction
<1> QED BY <1>1, <1>4 DEF T

LEMMA PickedIs == \A s : s /= {} => Picked(s) \in s
  BY DEF Picked

\* Such a function of the subsets exists: take the elements n times, for n large enough.
LEMMA SumsExist ==
  ASSUME NEW f, NEW S, Ints(f, S)
  PROVE  \E t \in [SUBSET S -> Int] : Adds(f, S, t)
<1> DEFINE F == [SUBSET S -> Int]
           N == Cardinality(S)
           zero == [s \in SUBSET S |-> 0]
           Once(t) == [s \in SUBSET S |-> IF s = {} THEN 0 ELSE f[Picked(s)] + t[s \ {Picked(s)}]]
           step == [p \in (1..(N + 1)) \X F |-> Once(p[2])]
<1>1. \A V \in SUBSET S : IsFiniteSet(V) /\ Cardinality(V) \in Nat /\ Cardinality(V) <= N
  BY FS_Subset, FS_CardinalityType DEF Ints
<1>2. N \in Nat /\ N + 1 \in Nat
  BY <1>1
<1>3. ASSUME NEW t \in F PROVE Once(t) \in F
  <2> SUFFICES ASSUME NEW s \in SUBSET S, s /= {} PROVE f[Picked(s)] + t[s \ {Picked(s)}] \in Int
    OBVIOUS
  <2>1. Picked(s) \in S /\ s \ {Picked(s)} \in SUBSET S
    BY PickedIs
  <2>2. f[Picked(s)] \in Int
    BY <2>1 DEF Ints
  <2>3. t[s \ {Picked(s)}] \in Int
    BY <2>1
  <2> QED BY <2>2, <2>3
<1>4. zero \in F /\ step \in [(1..(N + 1)) \X F -> F]
  <2>1. zero \in F
    OBVIOUS
  <2> HIDE DEF Once, F
  <2> QED BY <1>3, <2>1
<1>5. PICK r \in [0..(N + 1) -> F] : Iteration(N + 1, zero, step, r)
  <2> HIDE DEF F, zero, step, N
  <2> QED BY ONLY <1>2, <1>4, Iterated
<1>6. r[0] = zero /\ \A i \in 0..N : r[i + 1] = Once(r[i])
  <2> HIDE DEF zero, Once, N, F
  <2>1. r = [i \in 0..(N + 1) |-> IF i = 0 THEN zero ELSE step[<<i, r[i - 1]>>]]
    BY <1>5 DEF Iteration
  <2>2. r[0] = zero
    BY <1>2, <2>1
  <2>3. ASSUME NEW i \in 0..N PROVE r[i + 1] = Once(r[i])
    <3>1. i \in 0..(N + 1) /\ i + 1 \in 0..(N + 1) /\ i + 1 /= 0 /\ (i + 1) - 1 = i /\ i + 1 \in 1..(N + 1)
      BY <1>2
    <3>2. r[i] \in F
      BY <1>5, <3>1
    <3>3. r[i + 1] = step[<<i + 1, r[i]>>]
      BY <2>1, <3>1
    <3>4. <<i + 1, r[i]>> \in (1..(N + 1)) \X F
      BY <3>1, <3>2
    <3>5. step[<<i + 1, r[i]>>] = Once(r[i])
      BY <3>4
    <3> QED BY <3>3, <3>5
  <2> QED BY <2>2, <2>3
<1> HIDE DEF zero, step
<1> DEFINE T == {n \in 0..N : \A s \in SUBSET S : Cardinality(s) <= n => r[n + 1][s] = r[n][s]}
<1>7. 0 \in T
  <2> SUFFICES ASSUME NEW s \in SUBSET S, Cardinality(s) <= 0 PROVE r[1][s] = r[0][s]
    BY <1>2
  <2>1. s = {}
    BY <1>1, FS_EmptySet
  <2>2. r[0][s] = 0
    BY <1>6 DEF zero
  <2>3. r[1] = Once(r[0])
    <3>1. 0 \in 0..N /\ 0 + 1 = 1
      BY <1>2
    <3> HIDE DEF Once
    <3> QED BY <1>6, <3>1
  <2> QED BY <2>1, <2>2, <2>3
<1>8. ASSUME NEW n \in 0..(N - 1), n \in T PROVE n + 1 \in T
  <2>1. n \in 0..N /\ n + 1 \in 0..N /\ n + 1 \in 0..(N + 1) /\ n \in 0..(N + 1)
    BY <1>2
  <2> SUFFICES ASSUME NEW s \in SUBSET S, Cardinality(s) <= n + 1 PROVE r[n + 2][s] = r[n + 1][s]
    BY <1>2, <2>1
  <2>2. r[n + 1] = Once(r[n]) /\ r[n + 2] = Once(r[n + 1])
    <3>1. (n + 1) + 1 = n + 2
      BY <1>2
    <3> HIDE DEF Once
    <3> QED BY <1>6, <2>1, <3>1
  <2>3. CASE s = {}
    BY <2>2, <2>3
  <2>4. CASE s /= {}
    <3> DEFINE p == Picked(s)
               u == s \ {p}
    <3>1. p \in s /\ u \in SUBSET S
      BY <2>4, PickedIs
    <3>2. Cardinality(u) = Cardinality(s) - 1
      BY <1>1, <3>1, FS_RemoveElement
    <3>3. Cardinality(u) <= n
      BY <1>1, <1>2, <2>1, <3>1, <3>2
    <3>4. r[n + 1][u] = r[n][u]
      BY <1>8, <3>1, <3>3
    <3> HIDE DEF u, p
    <3>5. r[n + 1][s] = f[p] + r[n][u] /\ r[n + 2][s] = f[p] + r[n + 1][u]
      BY <2>2, <2>4 DEF p, u
    <3> QED BY <3>4, <3>5
  <2> QED BY <2>3, <2>4
<1>9. 0..N \subseteq T
  <2> HIDE DEF T, N
  <2> QED BY ONLY <1>2, <1>7, <1>8, UptoInduction
<1> DEFINE t == r[N]
<1>10. t \in F /\ N \in 0..N
  <2> HIDE DEF N, F
  <2> QED BY <1>2, <1>5
<1>11. \A s \in SUBSET S : Once(t)[s] = t[s]
  <2> HIDE DEF Once
  <2>1. r[N + 1] = Once(t)
    BY <1>6, <1>10
  <2>2. \A s \in SUBSET S : r[N + 1][s] = r[N][s]
    <3> HIDE DEF N
    <3>1. N \in T
      BY <1>9, <1>10
    <3> QED BY <1>1, <3>1
  <2> QED BY <2>1, <2>2
<1>12. t = Once(t)
  <2>1. t = [s \in SUBSET S |-> t[s]]
    BY <1>10
  <2>2. Once(t) = [s \in SUBSET S |-> Once(t)[s]]
    OBVIOUS
  <2> HIDE DEF t, Once
  <2> QED BY <1>11, <2>1, <2>2
<1> QED BY <1>10, <1>12 DEF Adds

\* Two such functions agree wherever what they add does.
LEMMA SumsAgree ==
  ASSUME NEW f, NEW g, NEW S, NEW U, NEW t, NEW u, NEW V, IsFiniteSet(V), V \subseteq S, V \subseteq U,
         Adds(f, S, t), Adds(g, U, u), \A x \in V : f[x] = g[x]
  PROVE  t[V] = u[V]
<1> DEFINE T == {n \in Nat : \A s \in SUBSET V : Cardinality(s) = n => t[s] = u[s]}
<1>1. \A s \in SUBSET V : IsFiniteSet(s) /\ Cardinality(s) \in Nat
  BY FS_Subset, FS_CardinalityType
<1>2. ASSUME NEW s \in SUBSET V
      PROVE  /\ t[s] = IF s = {} THEN 0 ELSE f[Picked(s)] + t[s \ {Picked(s)}]
             /\ u[s] = IF s = {} THEN 0 ELSE g[Picked(s)] + u[s \ {Picked(s)}]
  <2>1. s \in SUBSET S /\ s \in SUBSET U
    OBVIOUS
  <2>2. t = [z \in SUBSET S |-> IF z = {} THEN 0 ELSE f[Picked(z)] + t[z \ {Picked(z)}]]
    BY DEF Adds
  <2>3. u = [z \in SUBSET U |-> IF z = {} THEN 0 ELSE g[Picked(z)] + u[z \ {Picked(z)}]]
    BY DEF Adds
  <2>4. t[s] = IF s = {} THEN 0 ELSE f[Picked(s)] + t[s \ {Picked(s)}]
    BY ONLY <2>1, <2>2
  <2>5. u[s] = IF s = {} THEN 0 ELSE g[Picked(s)] + u[s \ {Picked(s)}]
    BY ONLY <2>1, <2>3
  <2> QED BY <2>4, <2>5
<1>3. 0 \in T
  <2> SUFFICES ASSUME NEW s \in SUBSET V, Cardinality(s) = 0 PROVE t[s] = u[s]
    OBVIOUS
  <2>1. s = {}
    BY <1>1, FS_EmptySet
  <2> QED BY <1>2, <2>1
<1>4. ASSUME NEW n \in Nat, n \in T PROVE n + 1 \in T
  <2> SUFFICES ASSUME NEW s \in SUBSET V, Cardinality(s) = n + 1 PROVE t[s] = u[s]
    OBVIOUS
  <2> DEFINE p == Picked(s)
             w == s \ {p}
  <2>1. s /= {}
    BY FS_EmptySet
  <2>2. p \in s
    BY <2>1, PickedIs
  <2>3. Cardinality(w) = Cardinality(s) - 1
    BY <1>1, <2>2, FS_RemoveElement
  <2>4. w \in SUBSET V /\ p \in V
    BY <2>2
  <2>5. t[w] = u[w]
    BY <1>4, <2>3, <2>4
  <2>6. t[s] = f[p] + t[w] /\ u[s] = g[p] + u[w]
    BY <1>2, <2>1
  <2>7. f[p] = g[p]
    BY <2>4
  <2> HIDE DEF p, w
  <2> QED BY <2>5, <2>6, <2>7
<1>5. Nat \subseteq T
  <2> HIDE DEF T
  <2> QED BY ONLY <1>3, <1>4, SetInduction
<1>6. V \in SUBSET V /\ Cardinality(V) \in T
  <2> HIDE DEF T
  <2> QED BY <1>1, <1>5
<1> QED BY <1>6

\* What is computed with such a function is the sum.
LEMMA SumIs ==
  ASSUME NEW f, NEW g, NEW S, NEW t, Ints(f, S), Adds(g, S, t), \A x \in S : f[x] = g[x]
  PROVE  t[S] = Sum(f, S)
<1> DEFINE u == CHOOSE v : Adds(f, S, v)
<1>1. Adds(f, S, u)
  BY SumsExist
<1> HIDE DEF u
<1>2. S \subseteq S /\ IsFiniteSet(S) /\ \A x \in S : g[x] = f[x]
  BY DEF Ints
<1>3. ASSUME NEW V, V = S PROVE t[V] = u[V]
  <2>1. V \subseteq S /\ IsFiniteSet(V) /\ \A x \in V : g[x] = f[x]
    BY <1>2, <1>3
  <2> QED BY ONLY <1>1, <2>1, Adds(g, S, t), SumsAgree
<1> QED BY <1>3 DEF Sum, u

LEMMA SumAdds ==
  ASSUME NEW f, NEW S, Ints(f, S)
  PROVE  /\ Sum(f, S) \in Int
         /\ Sum(f, S) = IF S = {} THEN 0 ELSE f[Picked(S)] + Sum(f, S \ {Picked(S)})
<1>1. PICK t \in [SUBSET S -> Int] : Adds(f, S, t)
  BY SumsExist
<1>2. t[S] = Sum(f, S)
  BY ONLY <1>1, Ints(f, S), SumIs
<1> DEFINE V == S \ {Picked(S)}
           u == CHOOSE v : Adds(f, V, v)
<1>3. V \subseteq S /\ IsFiniteSet(V) /\ Ints(f, V)
  BY FS_Subset DEF Ints
<1>4. Adds(f, V, u)
  BY <1>3, SumsExist
<1> HIDE DEF u, V
<1>5. V \subseteq V /\ \A x \in V : f[x] = f[x]
  OBVIOUS
<1>6. t[V] = u[V]
  BY ONLY <1>1, <1>3, <1>4, <1>5, SumsAgree
<1>7. t[S] = IF S = {} THEN 0 ELSE f[Picked(S)] + t[V]
  BY <1>1 DEF Adds, V
<1>8. u[V] = Sum(f, V)
  BY DEF Sum, u
<1>9. t[S] \in Int
  OBVIOUS
<1> QED BY <1>2, <1>6, <1>7, <1>8, <1>9 DEF V

LEMMA SumSame ==
  ASSUME NEW f, NEW g, NEW S, Ints(f, S), \A x \in S : f[x] = g[x]
  PROVE  Sum(f, S) = Sum(g, S)
<1>1. Ints(g, S)
  BY DEF Ints
<1>2. PICK t \in [SUBSET S -> Int] : Adds(g, S, t)
  BY <1>1, SumsExist
<1>3. t[S] = Sum(f, S)
  BY ONLY <1>2, Ints(f, S), \A x \in S : f[x] = g[x], SumIs
<1>4. t[S] = Sum(g, S)
  BY ONLY <1>1, <1>2, SumIs
<1> QED BY <1>3, <1>4

LEMMA SumNone == ASSUME NEW f PROVE Sum(f, {}) = 0
<1>1. Ints(f, {})
  BY FS_EmptySet DEF Ints
<1> QED BY <1>1, SumAdds

\* Any element may be taken first.
LEMMA SumTakes ==
  ASSUME NEW f, NEW S, Ints(f, S), NEW a \in S
  PROVE  Sum(f, S) = f[a] + Sum(f, S \ {a})
<1> DEFINE T == {n \in Nat : \A V \in SUBSET S : Cardinality(V) = n => \A x \in V : Sum(f, V) = f[x] + Sum(f, V \ {x})}
<1>1. \A V \in SUBSET S : IsFiniteSet(V) /\ Cardinality(V) \in Nat /\ Ints(f, V)
  BY FS_Subset, FS_CardinalityType DEF Ints
<1>2. 0 \in T
  BY <1>1, FS_EmptySet
<1>3. ASSUME NEW n \in Nat, n \in T PROVE n + 1 \in T
  <2> SUFFICES ASSUME NEW V \in SUBSET S, Cardinality(V) = n + 1, NEW x \in V
               PROVE  Sum(f, V) = f[x] + Sum(f, V \ {x})
    OBVIOUS
  <2> DEFINE p == Picked(V)
  <2>1. p \in V /\ V \in SUBSET S
    BY PickedIs
  <2>2. Sum(f, V) = f[p] + Sum(f, V \ {p})
    BY <1>1, SumAdds
  <2> HIDE DEF p
  <2>3. CASE x = p
    BY <2>2, <2>3
  <2>4. CASE x /= p
    <3>1. V \ {p} \in SUBSET S /\ x \in V \ {p} /\ V \ {x} \in SUBSET S /\ p \in V \ {x}
      BY <2>1, <2>4
    <3>2. Cardinality(V \ {p}) = n /\ Cardinality(V \ {x}) = n
      <4>1. Cardinality(V \ {p}) = Cardinality(V) - 1 /\ Cardinality(V \ {x}) = Cardinality(V) - 1
        BY <1>1, <2>1, FS_RemoveElement
      <4> QED BY <4>1
    <3>3. Sum(f, V \ {p}) = f[x] + Sum(f, (V \ {p}) \ {x})
      BY <1>3, <3>1, <3>2
    <3>4. Sum(f, V \ {x}) = f[p] + Sum(f, (V \ {x}) \ {p})
      BY <1>3, <3>1, <3>2
    <3>5. (V \ {p}) \ {x} = (V \ {x}) \ {p} /\ (V \ {p}) \ {x} \in SUBSET S
      OBVIOUS
    <3> DEFINE c == Sum(f, (V \ {p}) \ {x})
    <3>6. c \in Int /\ f[p] \in Int /\ f[x] \in Int
      BY <1>1, <2>1, <3>5, SumAdds DEF Ints
    <3> HIDE DEF c
    <3>7. Sum(f, V) = f[p] + (f[x] + c) /\ Sum(f, V \ {x}) = f[p] + c
      BY <2>2, <3>3, <3>4, <3>5 DEF c
    <3> QED BY <3>6, <3>7
  <2> QED BY <2>3, <2>4
<1> HIDE DEF T
<1>4. Nat \subseteq T
  BY ONLY <1>2, <1>3, SetInduction
<1>5. S \in SUBSET S /\ Cardinality(S) \in T
  BY <1>1, <1>4
<1> QED BY <1>5 DEF T

\* One element changed.
LEMMA SumChanges ==
  ASSUME NEW f, NEW g, NEW S, Ints(f, S), NEW a \in S, g[a] \in Int, \A x \in S \ {a} : g[x] = f[x]
  PROVE  Sum(g, S) = Sum(f, S) - f[a] + g[a]
<1>1. Ints(g, S) /\ Ints(f, S \ {a}) /\ f[a] \in Int
  BY FS_RemoveElement DEF Ints
<1>2. Sum(g, S) = g[a] + Sum(g, S \ {a}) /\ Sum(f, S) = f[a] + Sum(f, S \ {a})
  BY <1>1, SumTakes
<1>3. Sum(f, S \ {a}) = Sum(g, S \ {a})
  BY <1>1, SumSame
<1>4. Sum(f, S \ {a}) \in Int
  BY <1>1, SumAdds
<1> QED BY <1>1, <1>2, <1>3, <1>4

\* One element more.
LEMMA SumGrows ==
  ASSUME NEW f, NEW V, Ints(f, V), NEW a, a \notin V, f[a] \in Int
  PROVE  Ints(f, V \cup {a}) /\ Sum(f, V \cup {a}) = Sum(f, V) + f[a] /\ Sum(f, V) \in Int
<1>1. Ints(f, V \cup {a})
  BY FS_AddElement DEF Ints
<1>2. (V \cup {a}) \ {a} = V /\ a \in V \cup {a}
  OBVIOUS
<1>3. Sum(f, V \cup {a}) = f[a] + Sum(f, (V \cup {a}) \ {a})
  BY ONLY <1>1, <1>2, SumTakes
<1>4. Sum(f, V) \in Int
  BY SumAdds
<1>5. Sum(f, V \cup {a}) = f[a] + Sum(f, V)
  BY <1>2, <1>3
<1> DEFINE c == Sum(f, V)
           d == Sum(f, V \cup {a})
<1>6. c \in Int /\ d = f[a] + c
  BY <1>4, <1>5
<1> HIDE DEF c, d
<1>7. d = c + f[a]
  BY <1>6
<1> QED BY <1>1, <1>4, <1>7 DEF c, d

\* Sums of sums, of the same number, of what is not negative, and in another order.
LEMMA SumPlus ==
  ASSUME NEW f, NEW g, NEW h, NEW S, Ints(f, S), Ints(g, S), \A x \in S : h[x] = f[x] + g[x]
  PROVE  Sum(h, S) = Sum(f, S) + Sum(g, S)
<1> DEFINE P == {V \in SUBSET S : Sum(h, V) = Sum(f, V) + Sum(g, V)}
<1>1. \A V \in SUBSET S : Ints(f, V) /\ Ints(g, V) /\ Ints(h, V)
  BY FS_Subset DEF Ints
<1>2. {} \in P
  BY SumNone
<1>3. ASSUME NEW V \in SUBSET S, NEW x \in S \ V, V \in P PROVE V \cup {x} \in P
  <2>1. f[x] \in Int /\ g[x] \in Int /\ h[x] \in Int /\ h[x] = f[x] + g[x] /\ x \notin V
    BY DEF Ints
  <2>2. Sum(f, V \cup {x}) = Sum(f, V) + f[x] /\ Sum(f, V) \in Int
    <3>1. Ints(f, V) /\ x \notin V /\ f[x] \in Int
      BY <1>1, <2>1
    <3> QED BY ONLY <3>1, SumGrows
  <2>3. Sum(g, V \cup {x}) = Sum(g, V) + g[x] /\ Sum(g, V) \in Int
    <3>1. Ints(g, V) /\ x \notin V /\ g[x] \in Int
      BY <1>1, <2>1
    <3> QED BY ONLY <3>1, SumGrows
  <2>4. Sum(h, V \cup {x}) = Sum(h, V) + h[x]
    <3>1. Ints(h, V) /\ x \notin V /\ h[x] \in Int
      BY <1>1, <2>1
    <3> QED BY ONLY <3>1, SumGrows
  <2>5. Sum(h, V) = Sum(f, V) + Sum(g, V)
    BY <1>3
  <2>6. Sum(h, V \cup {x}) = Sum(f, V \cup {x}) + Sum(g, V \cup {x})
    BY ONLY <2>1, <2>2, <2>3, <2>4, <2>5
  <2> QED BY <2>6
<1> HIDE DEF P
<1>4. IsFiniteSet(S)
  BY DEF Ints
<1>5. S \in P
  BY ONLY <1>2, <1>3, <1>4, SubsetInduction
<1> QED BY <1>5 DEF P

LEMMA SumConstant ==
  ASSUME NEW S, IsFiniteSet(S), NEW f, NEW c \in Int, \A x \in S : f[x] = c
  PROVE  Sum(f, S) = c * Cardinality(S)
<1> DEFINE P == {V \in SUBSET S : Sum(f, V) = c * Cardinality(V)}
<1>1. \A V \in SUBSET S : Ints(f, V) /\ IsFiniteSet(V) /\ Cardinality(V) \in Nat
  BY FS_Subset, FS_CardinalityType DEF Ints
<1>2. {} \in P
  BY SumNone, FS_EmptySet
<1>3. ASSUME NEW V \in SUBSET S, NEW x \in S \ V, V \in P PROVE V \cup {x} \in P
  <2>1. f[x] = c /\ x \notin V
    OBVIOUS
  <2>2. Sum(f, V \cup {x}) = Sum(f, V) + c
    <3>1. Ints(f, V) /\ x \notin V /\ f[x] \in Int
      BY <1>1, <2>1
    <3> QED BY ONLY <2>1, <3>1, SumGrows
  <2>3. Cardinality(V \cup {x}) = Cardinality(V) + 1
    BY <1>1, <2>1, FS_AddElement
  <2>4. Cardinality(V) \in Nat /\ Sum(f, V) = c * Cardinality(V)
    BY <1>1, <1>3
  <2>5. c * (Cardinality(V) + 1) = c * Cardinality(V) + c
    <3> DEFINE k == Cardinality(V)
    <3> HIDE DEF k
    <3>1. k \in Nat BY <2>4 DEF k
    <3>2. c * (k + 1) = c * k + c BY <3>1
    <3> QED BY <3>2 DEF k
  <2> QED BY <2>2, <2>3, <2>4, <2>5
<1> HIDE DEF P
<1>4. S \in P
  BY ONLY <1>2, <1>3, IsFiniteSet(S), SubsetInduction
<1> QED BY <1>4 DEF P

LEMMA SumNatural ==
  ASSUME NEW f, NEW S, IsFiniteSet(S), \A x \in S : f[x] \in Nat
  PROVE  Sum(f, S) \in Nat /\ \A x \in S : f[x] <= Sum(f, S)
<1> DEFINE P == {V \in SUBSET S : Sum(f, V) \in Nat}
<1>1. \A V \in SUBSET S : Ints(f, V)
  BY FS_Subset DEF Ints
<1>2. {} \in P
  BY SumNone
<1>3. ASSUME NEW V \in SUBSET S, NEW x \in S \ V, V \in P PROVE V \cup {x} \in P
  <2>1. Sum(f, V \cup {x}) = Sum(f, V) + f[x]
    <3>1. Ints(f, V) /\ x \notin V /\ f[x] \in Int
      BY <1>1
    <3> QED BY ONLY <3>1, SumGrows
  <2> QED BY <1>3, <2>1
<1>4. \A V \in SUBSET S : V \in P
  <2> SUFFICES ASSUME NEW V \in SUBSET S PROVE V \in P
    OBVIOUS
  <2> HIDE DEF P
  <2>1. IsFiniteSet(V)
    BY FS_Subset
  <2>2. \A W \in SUBSET V : \A x \in V \ W : W \in P => W \cup {x} \in P
    BY <1>3
  <2> QED BY ONLY <1>2, <2>1, <2>2, SubsetInduction
<1>5. Sum(f, S) \in Nat
  BY <1>4
<1>6. ASSUME NEW x \in S PROVE f[x] <= Sum(f, S)
  <2>1. Sum(f, S) = f[x] + Sum(f, S \ {x})
    BY <1>1, SumTakes
  <2>2. S \ {x} \in SUBSET S /\ Sum(f, S \ {x}) \in Nat
    BY <1>4
  <2> QED BY <2>1, <2>2
<1> QED BY <1>5, <1>6

LEMMA SumReordered ==
  ASSUME NEW f, NEW g, NEW p, NEW S, IsFiniteSet(S), Ints(f, {p[x] : x \in S}),
         \A x, y \in S : p[x] = p[y] => x = y, \A x \in S : g[x] = f[p[x]]
  PROVE  Sum(g, S) = Sum(f, {p[x] : x \in S})
<1> DEFINE Q(V) == {p[x] : x \in V}
           P == {V \in SUBSET S : Sum(g, V) = Sum(f, Q(V))}
<1>1. ASSUME NEW V \in SUBSET S PROVE Ints(f, Q(V)) /\ Ints(g, V)
  <2>1. Q(V) \subseteq Q(S)
    OBVIOUS
  <2>0. IsFiniteSet(Q(S)) /\ \A y \in Q(S) : f[y] \in Int
    BY DEF Ints
  <2> HIDE DEF Q
  <2>2. Ints(f, Q(V))
    BY <2>0, <2>1, FS_Subset DEF Ints
  <2>3. \A x \in S : g[x] \in Int
    BY DEF Ints, Q
  <2> QED BY <2>2, <2>3, FS_Subset DEF Ints
<1>2. {} \in P
  <2>1. Q({}) = {}
    OBVIOUS
  <2> HIDE DEF Q
  <2> QED BY <2>1, SumNone
<1>3. ASSUME NEW V \in SUBSET S, NEW x \in S \ V, V \in P PROVE V \cup {x} \in P
  <2>1. Q(V \cup {x}) = Q(V) \cup {p[x]} /\ p[x] \notin Q(V)
    OBVIOUS
  <2>2. g[x] = f[p[x]] /\ f[p[x]] \in Int
    BY DEF Ints
  <2>3. Sum(g, V) = Sum(f, Q(V))
    BY <1>3
  <2> HIDE DEF Q
  <2>4. Sum(g, V \cup {x}) = Sum(g, V) + g[x]
    <3>1. Ints(g, V) /\ x \notin V /\ g[x] \in Int
      BY <1>1, <2>2
    <3> QED BY ONLY <3>1, SumGrows
  <2>5. Sum(f, Q(V) \cup {p[x]}) = Sum(f, Q(V)) + f[p[x]]
    <3>1. Ints(f, Q(V)) /\ p[x] \notin Q(V) /\ f[p[x]] \in Int
      BY <1>1, <2>1, <2>2
    <3> QED BY ONLY <3>1, SumGrows
  <2> QED BY <2>1, <2>2, <2>3, <2>4, <2>5
<1> HIDE DEF P
<1>4. S \in P
  BY ONLY <1>2, <1>3, IsFiniteSet(S), SubsetInduction
<1> QED BY <1>4 DEF P

\* What is nothing outside a part is the sum of the part.
LEMMA SumWithout ==
  ASSUME NEW f, NEW S, Ints(f, S), NEW T \in SUBSET S, \A x \in S \ T : f[x] = 0
  PROVE  Sum(f, S) = Sum(f, T)
<1> DEFINE U == S \ T
           P == {V \in SUBSET U : Sum(f, T \cup V) = Sum(f, T)}
<1>1. IsFiniteSet(U) /\ \A V \in SUBSET U : Ints(f, T \cup V)
  <2>1. U \subseteq S /\ \A V \in SUBSET U : T \cup V \subseteq S
    OBVIOUS
  <2> HIDE DEF U
  <2> QED BY <2>1, FS_Subset DEF Ints
<1>2. {} \in P
  <2>1. T \cup {} = T
    OBVIOUS
  <2> QED BY <2>1
<1>3. ASSUME NEW V \in SUBSET U, NEW x \in U \ V, V \in P PROVE V \cup {x} \in P
  <2>1. x \notin T \cup V /\ f[x] = 0 /\ T \cup (V \cup {x}) = (T \cup V) \cup {x} /\ V \cup {x} \in SUBSET U
    OBVIOUS
  <2>2. Ints(f, T \cup V) /\ 0 \in Int
    BY <1>1
  <2>3. Sum(f, (T \cup V) \cup {x}) = Sum(f, T \cup V) + f[x] /\ Sum(f, T \cup V) \in Int
    <3>1. f[x] \in Int
      BY <2>1
    <3> QED BY ONLY <2>1, <2>2, <3>1, SumGrows
  <2>4. Sum(f, T \cup V) = Sum(f, T)
    BY <1>3
  <2>5. Sum(f, T \cup V) + f[x] = Sum(f, T \cup V)
    BY <2>1, <2>3
  <2> QED BY <2>1, <2>3, <2>4, <2>5
<1>4. U \in P
  <2> HIDE DEF P, U
  <2> QED BY ONLY <1>1, <1>2, <1>3, SubsetInduction
<1>5. T \cup U = S
  OBVIOUS
<1> QED BY <1>4, <1>5

\* One more of the first numbers.
LEMMA SumOneMore ==
  ASSUME NEW f, NEW n \in Nat, \A k \in 0..n : f[k] \in Int
  PROVE  Sum(f, 0..n) = Sum(f, 0..(n - 1)) + f[n] /\ Sum(f, 0..(n - 1)) \in Int
<1> DEFINE V == 0..(n - 1)
<1>1. V \cup {n} = 0..n /\ n \notin V /\ n \in 0..n
  OBVIOUS
<1>2. IsFiniteSet(V)
  <2>1. 0 \in Int /\ n - 1 \in Int
    OBVIOUS
  <2> QED BY <2>1, FS_Interval
<1>3. Ints(f, V)
  <2>1. \A x \in V : x \in 0..n
    OBVIOUS
  <2> HIDE DEF V
  <2> QED BY <1>2, <2>1 DEF Ints
<1> HIDE DEF V
<1>4. Sum(f, V \cup {n}) = Sum(f, V) + f[n] /\ Sum(f, V) \in Int
  BY <1>1, <1>3, SumGrows
<1> QED BY <1>1, <1>4 DEF V

LEMMA NoSum == ASSUME NEW f, NEW S, IsFiniteSet(S), \A x \in S : f[x] = 0 PROVE Sum(f, S) = 0
<1>1. 0 \in Int /\ Cardinality(S) \in Nat
  BY FS_CardinalityType
<1>2. Sum(f, S) = 0 * Cardinality(S)
  BY ONLY <1>1, IsFiniteSet(S), \A x \in S : f[x] = 0, SumConstant
<1> QED BY <1>1, <1>2

------------------------------------------------------------------------------
(* LoadGenerators: a thread per connection, and what main reports of them. *)

LEMMA LoadCounted == ASSUME NEW S PROVE Load!Cardinality(S) = Cardinality(S)
  BY DEF Load!Cardinality, Cardinality

Counts == 0..(Rounds - 1)
Wholes(w) == {k \in kp_whole : k[1] = w}

KpTypes ==
  /\ kp_mode \in {"long", "short"} /\ kp_joined \subseteq KpWorkers
  /\ kp_at \in [KpWorkers -> {"barrier", "open", "write", "read", "done"}]
  /\ kp_r \in [KpWorkers -> Nat] /\ kp_got \in [KpWorkers -> Nat]
  /\ kp_failures \in [KpWorkers -> Nat]
  /\ kp_g_lat_us \in [KpWorkers -> [Counts -> Nat]]
  /\ kp_line \in [KpWorkers -> {"none", "up", "fin", "rst"}]
  /\ kp_echo \in [KpWorkers -> Nat]
  /\ kp_whole \subseteq KpWorkers \X Counts

\* No byte is on its way back when a round begins on a connection that can be written
\* to, and none that would be one too many in a round.
NoneTooMany(w) ==
  /\ kp_at[w] = "write" /\ kp_line[w] \in {"up", "fin"} => kp_echo[w] = 0
  /\ kp_at[w] = "read" => kp_got[w] + kp_echo[w] <= payload_len

\* A round that is over came back or failed; a failed write may have left some.
RoundsOver(w) ==
  /\ kp_r[w] <= Rounds /\ \A k \in Wholes(w) : k[2] < kp_r[w]
  /\ kp_at[w] /= "done" => Cardinality(Wholes(w)) + kp_failures[w] = kp_r[w]
  /\ kp_at[w] \in {"open", "write", "read"} => kp_r[w] < Rounds
  /\ kp_at[w] = "barrier" => kp_r[w] = 0
  /\ kp_mode = "long" => kp_at[w] /= "open"
  /\ kp_at[w] = "done" =>
       /\ Cardinality(Wholes(w)) + kp_failures[w] <= Rounds
       /\ Cardinality(Wholes(w)) + kp_failures[w] = Rounds \/ (kp_r[w] < Rounds /\ kp_mode = "long")

TimedOnes == \A w \in KpWorkers, k \in Counts : kp_g_lat_us[w][k] > 0 => <<w, k>> \in kp_whole

KpInv ==
  /\ KpTypes /\ TimedOnes
  /\ \A w \in KpWorkers : NoneTooMany(w) /\ RoundsOver(w)
  /\ \A w \in kp_joined : kp_at[w] = "done"

LEMMA WholesFinite ==
  ASSUME KpTypes
  PROVE  /\ IsFiniteSet(kp_whole)
         /\ \A w \in KpWorkers : IsFiniteSet(Wholes(w)) /\ Cardinality(Wholes(w)) \in Nat
<1>1. IsFiniteSet(Counts)
  <2>1. 0 \in Int /\ Rounds - 1 \in Int
    BY LoadAssumption
  <2> QED BY <2>1, FS_Interval DEF Counts
<1>2. IsFiniteSet(KpWorkers \X Counts)
  BY <1>1, LoadAssumption, FS_Product
<1>3. IsFiniteSet(kp_whole)
  BY <1>2, FS_Subset DEF KpTypes
<1>4. \A w \in KpWorkers : Wholes(w) \subseteq kp_whole
  BY DEF Wholes
<1> QED BY <1>3, <1>4, FS_Subset, FS_CardinalityType

LEMMA KpBegins == Load!KpInit => KpInv
<1> SUFFICES ASSUME Load!KpInit PROVE KpInv
  OBVIOUS
<1> USE DEF Load!KpInit
<1>1. KpTypes
  BY LoadAssumption DEF KpTypes, Counts, Load!Modes
<1>2. TimedOnes
  BY DEF TimedOnes, Counts
<1>3. ASSUME NEW w \in KpWorkers PROVE NoneTooMany(w) /\ RoundsOver(w)
  <2>1. Wholes(w) = {} /\ Cardinality(Wholes(w)) = 0
    BY FS_EmptySet DEF Wholes
  <2> QED BY <2>1, LoadAssumption DEF NoneTooMany, RoundsOver
<1> QED BY <1>1, <1>2, <1>3 DEF KpInv

\* What other threads see of a step of w.
Theirs(w) ==
  \A x \in KpWorkers \ {w} :
    /\ kp_at'[x] = kp_at[x] /\ kp_r'[x] = kp_r[x] /\ kp_got'[x] = kp_got[x]
    /\ kp_failures'[x] = kp_failures[x] /\ kp_line'[x] = kp_line[x] /\ kp_echo'[x] = kp_echo[x]
    /\ Wholes(x)' = Wholes(x)

\* What is to be shown of a step of w.
LEMMA KpOne ==
  ASSUME KpInv, KpTypes', TimedOnes', NEW w \in KpWorkers, Theirs(w), kp_mode' = kp_mode,
         NoneTooMany(w)', RoundsOver(w)', kp_joined' \subseteq kp_joined \cup {w},
         w \in kp_joined' => kp_at'[w] = "done"
  PROVE  KpInv'
<1>1. ASSUME NEW x \in KpWorkers PROVE NoneTooMany(x)' /\ RoundsOver(x)'
  <2>1. CASE x = w
    BY <2>1
  <2>2. CASE x /= w
    <3>1. /\ kp_at'[x] = kp_at[x] /\ kp_r'[x] = kp_r[x] /\ kp_got'[x] = kp_got[x]
          /\ kp_failures'[x] = kp_failures[x] /\ kp_line'[x] = kp_line[x] /\ kp_echo'[x] = kp_echo[x]
          /\ Wholes(x)' = Wholes(x)
      BY <2>2 DEF Theirs
    <3>2. NoneTooMany(x) /\ RoundsOver(x)
      BY DEF KpInv
    <3> QED BY <3>1, <3>2 DEF NoneTooMany, RoundsOver
  <2> QED BY <2>1, <2>2
<1>2. ASSUME NEW x \in kp_joined' PROVE kp_at'[x] = "done"
  <2>1. CASE x = w
    BY <2>1
  <2>2. CASE x /= w
    BY <2>2 DEF KpInv, KpTypes, Theirs
  <2> QED BY <2>1, <2>2
<1> QED BY <1>1, <1>2 DEF KpInv

\* The end of a round of w, whole or failed.
LEMMA RoundEnds ==
  ASSUME KpInv, NEW w \in KpWorkers, NEW failed \in 0..1, Load!NextRound(w, failed),
         kp_r[w] < Rounds, kp_at[w] /= "done"
  PROVE  /\ kp_at' \in [KpWorkers -> {"barrier", "open", "write", "read", "done"}]
         /\ kp_r' \in [KpWorkers -> Nat] /\ kp_failures' \in [KpWorkers -> Nat]
         /\ kp_line' \in [KpWorkers -> {"none", "up", "fin", "rst"}]
         /\ kp_r'[w] = kp_r[w] + 1 /\ kp_failures'[w] = kp_failures[w] + failed
         /\ kp_at'[w] = IF kp_r[w] + 1 = Rounds THEN "done" ELSE IF kp_mode = "long" THEN "write" ELSE "open"
         /\ kp_at'[w] = "write" => kp_line'[w] = kp_line[w]
         /\ \A x \in KpWorkers \ {w} :
              /\ kp_at'[x] = kp_at[x] /\ kp_r'[x] = kp_r[x]
              /\ kp_failures'[x] = kp_failures[x] /\ kp_line'[x] = kp_line[x]
  BY LoadAssumption DEF Load!NextRound, KpInv, KpTypes

LEMMA RoundInt == ASSUME KpInv, NEW w, NEW k \in Wholes(w) PROVE k[2] \in Int
<1>1. k \in KpWorkers \X Counts
  BY DEF KpInv, KpTypes, Wholes
<1>2. k[2] \in Counts
  BY <1>1
<1> QED BY <1>2 DEF Counts

LEMMA WholesGrow ==
  ASSUME KpInv, NEW w \in KpWorkers, kp_at[w] /= "done", kp_r[w] < Rounds,
         kp_whole' = kp_whole \cup {<<w, kp_r[w]>>}
  PROVE  /\ kp_whole' \subseteq KpWorkers \X Counts
         /\ Cardinality(Wholes(w)') = Cardinality(Wholes(w)) + 1
         /\ \A k \in Wholes(w)' : k[2] < kp_r[w] + 1
         /\ \A x \in KpWorkers \ {w} : Wholes(x)' = Wholes(x)
<1> DEFINE k == <<w, kp_r[w]>>
<1>1. kp_r[w] \in Nat /\ k \in KpWorkers \X Counts /\ k[1] = w /\ k[2] = kp_r[w]
  BY LoadAssumption DEF KpInv, KpTypes, Counts
<1>2. k \notin Wholes(w)
  BY <1>1 DEF KpInv, RoundsOver
<1>3. Wholes(w)' = Wholes(w) \cup {k}
  BY <1>1 DEF Wholes
<1>4. IsFiniteSet(Wholes(w))
  BY WholesFinite DEF KpInv
<1>5. Cardinality(Wholes(w)') = Cardinality(Wholes(w)) + 1
  BY <1>2, <1>3, <1>4, FS_AddElement
<1>6. \A x \in KpWorkers \ {w} : Wholes(x)' = Wholes(x)
  BY <1>1 DEF Wholes
<1>7. \A j \in Wholes(w)' : j[2] < kp_r[w] + 1
  <2> SUFFICES ASSUME NEW j \in Wholes(w)' PROVE j[2] < kp_r[w] + 1
    OBVIOUS
  <2>1. CASE j = k
    BY <1>1, <2>1
  <2>2. CASE j \in Wholes(w)
    <3>1. j[2] < kp_r[w] /\ j[2] \in Int
      BY <2>2, RoundInt DEF KpInv, RoundsOver
    <3> QED BY <1>1, <3>1
  <2> QED BY <1>3, <2>1, <2>2
<1>8. kp_whole' \subseteq KpWorkers \X Counts
  BY <1>1 DEF KpInv, KpTypes
<1> QED BY <1>5, <1>6, <1>7, <1>8

LEMMA AnsweredStep == ASSUME KpInv, NEW w \in KpWorkers, Load!Answered(w) PROVE KpInv'
<1> USE DEF Load!Answered
<1>1. /\ kp_at[w] = "read" /\ kp_got[w] = payload_len /\ kp_r[w] < Rounds /\ kp_r[w] \in Counts
      /\ kp_echo[w] = 0 /\ kp_r[w] \in Nat
  <2>1. kp_at[w] = "read" /\ kp_got[w] = payload_len
    OBVIOUS
  <2>2. kp_echo[w] \in Nat /\ kp_r[w] \in Nat /\ kp_got[w] + kp_echo[w] <= payload_len /\ kp_r[w] < Rounds
    BY <2>1 DEF KpInv, KpTypes, NoneTooMany, RoundsOver
  <2> QED BY <2>1, <2>2, LoadAssumption DEF Counts
<1>2. kp_whole' = kp_whole \cup {<<w, kp_r[w]>>}
  BY <1>1
<1>3. 0 \in 0..1 /\ Load!NextRound(w, 0) /\ kp_at[w] /= "done"
  BY <1>1
<1>4. /\ kp_at' \in [KpWorkers -> {"barrier", "open", "write", "read", "done"}]
      /\ kp_r' \in [KpWorkers -> Nat] /\ kp_failures' \in [KpWorkers -> Nat]
      /\ kp_line' \in [KpWorkers -> {"none", "up", "fin", "rst"}]
      /\ kp_r'[w] = kp_r[w] + 1 /\ kp_failures'[w] = kp_failures[w] + 0
      /\ kp_at'[w] = IF kp_r[w] + 1 = Rounds THEN "done" ELSE IF kp_mode = "long" THEN "write" ELSE "open"
      /\ kp_at'[w] = "write" => kp_line'[w] = kp_line[w]
      /\ \A x \in KpWorkers \ {w} :
           /\ kp_at'[x] = kp_at[x] /\ kp_r'[x] = kp_r[x]
           /\ kp_failures'[x] = kp_failures[x] /\ kp_line'[x] = kp_line[x]
  BY ONLY <1>1, <1>3, KpInv, w \in KpWorkers, RoundEnds
<1>5. /\ kp_whole' \subseteq KpWorkers \X Counts
      /\ Cardinality(Wholes(w)') = Cardinality(Wholes(w)) + 1
      /\ \A k \in Wholes(w)' : k[2] < kp_r[w] + 1
      /\ \A x \in KpWorkers \ {w} : Wholes(x)' = Wholes(x)
  BY ONLY <1>1, <1>2, <1>3, KpInv, w \in KpWorkers, WholesGrow
<1>6. PICK ns \in RoundTrips : kp_g_lat_us' = [kp_g_lat_us EXCEPT ![w][kp_r[w]] = ns \div 1000]
  OBVIOUS
<1>7. ns \div 1000 \in Nat
  BY LoadAssumption, QuotientIs
<1>8. KpTypes' /\ TimedOnes'
  <2>1. kp_g_lat_us' \in [KpWorkers -> [Counts -> Nat]]
    <3>1. kp_g_lat_us \in [KpWorkers -> [Counts -> Nat]]
      BY DEF KpInv, KpTypes
    <3> QED BY ONLY <1>1, <1>6, <1>7, <3>1, w \in KpWorkers
  <2>2. KpTypes'
    BY <1>4, <1>5, <2>1 DEF KpInv, KpTypes
  <2>3. ASSUME NEW x \in KpWorkers, NEW k \in Counts, kp_g_lat_us'[x][k] > 0 PROVE <<x, k>> \in kp_whole'
    <3>1. CASE x = w /\ k = kp_r[w]
      BY <1>2, <3>1
    <3>2. CASE ~(x = w /\ k = kp_r[w])
      <4>1. kp_g_lat_us'[x][k] = kp_g_lat_us[x][k]
        BY <1>1, <1>6, <3>2 DEF KpInv, KpTypes
      <4> QED BY <1>2, <2>3, <4>1 DEF KpInv, TimedOnes
    <3> QED BY <3>1, <3>2
  <2> QED BY <2>2, <2>3 DEF TimedOnes
<1>9. Theirs(w) /\ kp_mode' = kp_mode /\ kp_joined' = kp_joined /\ w \notin kp_joined /\ Rounds' = Rounds
  BY <1>1, <1>4, <1>5 DEF Theirs, KpInv
<1>10. NoneTooMany(w)'
  BY <1>1, <1>4 DEF NoneTooMany
<1>11. RoundsOver(w)'
  <2> DEFINE c == Cardinality(Wholes(w))
             e == Cardinality(Wholes(w)')
  <2>1. c \in Nat /\ kp_failures[w] \in Nat /\ c + kp_failures[w] = kp_r[w] /\ e = c + 1
    BY <1>1, <1>5, WholesFinite DEF KpInv, KpTypes, RoundsOver
  <2> HIDE DEF c, e
  <2>2. e + kp_failures'[w] = kp_r'[w] /\ kp_r'[w] <= Rounds
    <3>1. kp_r'[w] = kp_r[w] + 1 /\ kp_failures'[w] = kp_failures[w]
      BY ONLY <1>4, <2>1
    <3>2. kp_r[w] \in Nat /\ kp_r[w] < Rounds /\ Rounds \in Nat
      BY <1>1, LoadAssumption
    <3> QED BY ONLY <2>1, <3>1, <3>2
  <2>3. \A k \in Wholes(w)' : k[2] < kp_r'[w]
    BY <1>4, <1>5
  <2>4. kp_r'[w] = Rounds \/ kp_r'[w] < Rounds
    <3>1. kp_r'[w] \in Nat
      BY <1>4
    <3> QED BY ONLY <2>2, <3>1, LoadAssumption
  <2>5. /\ kp_at'[w] /= "barrier" /\ (kp_mode' = "long" => kp_at'[w] /= "open")
        /\ kp_at'[w] = "done" <=> kp_r'[w] = Rounds
    BY <1>4, <1>9
  <2> QED BY <2>2, <2>3, <2>4, <2>5 DEF RoundsOver, e
<1> QED BY <1>8, <1>9, <1>10, <1>11, KpOne

\* A round that fails, and the connection is still there or not.
LEMMA FailedStep ==
  ASSUME KpInv, NEW w \in KpWorkers, Load!NextRound(w, 1), kp_r[w] < Rounds, kp_at[w] /= "done",
         kp_whole' = kp_whole, kp_g_lat_us' = kp_g_lat_us, kp_got' = kp_got, kp_echo' = kp_echo,
         kp_joined' = kp_joined, kp_mode' = kp_mode,
         kp_mode = "long" => kp_line[w] = "rst" \/ kp_echo[w] = 0
  PROVE  KpInv'
<1>1. 1 \in 0..1 /\ kp_r[w] \in Nat
  BY DEF KpInv, KpTypes
<1>2. /\ kp_at' \in [KpWorkers -> {"barrier", "open", "write", "read", "done"}]
      /\ kp_r' \in [KpWorkers -> Nat] /\ kp_failures' \in [KpWorkers -> Nat]
      /\ kp_line' \in [KpWorkers -> {"none", "up", "fin", "rst"}]
      /\ kp_r'[w] = kp_r[w] + 1 /\ kp_failures'[w] = kp_failures[w] + 1
      /\ kp_at'[w] = IF kp_r[w] + 1 = Rounds THEN "done" ELSE IF kp_mode = "long" THEN "write" ELSE "open"
      /\ kp_at'[w] = "write" => kp_line'[w] = kp_line[w]
      /\ \A x \in KpWorkers \ {w} :
           /\ kp_at'[x] = kp_at[x] /\ kp_r'[x] = kp_r[x]
           /\ kp_failures'[x] = kp_failures[x] /\ kp_line'[x] = kp_line[x]
  BY ONLY <1>1, KpInv, w \in KpWorkers, Load!NextRound(w, 1), kp_r[w] < Rounds, kp_at[w] /= "done", RoundEnds
<1>3. KpTypes' /\ TimedOnes'
  BY <1>2 DEF KpInv, KpTypes, TimedOnes
<1>4. Theirs(w) /\ w \notin kp_joined /\ Wholes(w)' = Wholes(w)
  BY <1>2 DEF Theirs, KpInv, Wholes
<1>5. NoneTooMany(w)'
  BY <1>2 DEF NoneTooMany, KpInv, KpTypes
<1>6. RoundsOver(w)'
  <2> DEFINE c == Cardinality(Wholes(w))
  <2>1. c \in Nat /\ kp_failures[w] \in Nat /\ c + kp_failures[w] = kp_r[w] /\ c' = c
    BY <1>4, WholesFinite DEF KpInv, KpTypes, RoundsOver
  <2>2. Cardinality(Wholes(w)') = c
    BY <1>4
  <2>3. \A k \in Wholes(w)' : k[2] < kp_r'[w]
    <3> SUFFICES ASSUME NEW k \in Wholes(w) PROVE k[2] < kp_r'[w]
      BY <1>4
    <3>1. k[2] < kp_r[w] /\ k[2] \in Int
      BY RoundInt DEF KpInv, RoundsOver
    <3> QED BY <1>1, <1>2, <3>1
  <2> HIDE DEF c
  <2>4. c + kp_failures'[w] = kp_r'[w] /\ kp_r'[w] <= Rounds /\ (kp_r'[w] = Rounds \/ kp_r'[w] < Rounds)
    BY <1>1, <1>2, <2>1, LoadAssumption
  <2>5. /\ kp_at'[w] /= "barrier" /\ (kp_mode' = "long" => kp_at'[w] /= "open")
        /\ kp_at'[w] = "done" <=> kp_r'[w] = Rounds
    BY <1>2
  <2> QED BY <2>2, <2>3, <2>4, <2>5 DEF RoundsOver
<1> QED BY <1>3, <1>4, <1>5, <1>6, KpOne

\* The steps that end no round.
LEMMA MidRound ==
  ASSUME KpInv, NEW w \in KpWorkers, KpTypes', Theirs(w), kp_mode' = kp_mode, kp_g_lat_us' = kp_g_lat_us,
         kp_whole' = kp_whole, kp_r' = kp_r, kp_failures' = kp_failures, kp_joined' = kp_joined,
         NoneTooMany(w)', kp_at[w] \in {"write", "read"} \/ kp_r[w] < Rounds, kp_at[w] /= "done",
         kp_at'[w] \in {"write", "read"}
  PROVE  KpInv'
<1>1. TimedOnes' /\ Wholes(w)' = Wholes(w) /\ w \notin kp_joined
  BY DEF KpInv, TimedOnes, Wholes
<1>2. RoundsOver(w)'
  BY <1>1 DEF KpInv, RoundsOver
<1> QED BY <1>1, <1>2, KpOne

LEMMA OpenStep == ASSUME KpInv, NEW w \in KpWorkers, Load!Open(w) PROVE KpInv'
<1> USE DEF Load!Open
<1>1. KpTypes' /\ kp_at'[w] = "write" /\ kp_line'[w] = "up" /\ kp_echo'[w] = 0
  BY DEF KpInv, KpTypes
<1>2. Theirs(w)
  BY DEF Theirs, KpInv, KpTypes, Wholes
<1>3. NoneTooMany(w)'
  BY <1>1 DEF NoneTooMany
<1> QED BY <1>1, <1>2, <1>3, MidRound

LEMMA WriteStep == ASSUME KpInv, NEW w \in KpWorkers, Load!KpWrite(w) PROVE KpInv'
<1> USE DEF Load!KpWrite
<1>1. KpTypes'
  BY LoadAssumption DEF KpInv, KpTypes
<1>2. Theirs(w)
  BY DEF Theirs, KpInv, KpTypes, Wholes
<1>3. kp_at'[w] = "read" /\ kp_got'[w] = 0 /\ kp_echo'[w] = (IF kp_line[w] = "up" THEN kp_echo[w] + payload_len ELSE kp_echo[w])
  BY DEF KpInv, KpTypes
<1>4. kp_echo[w] = 0
  BY DEF KpInv, NoneTooMany
<1>5. NoneTooMany(w)'
  BY <1>3, <1>4, LoadAssumption DEF NoneTooMany
<1> QED BY <1>1, <1>2, <1>3, <1>5, MidRound

LEMMA ReadStep == ASSUME KpInv, NEW w \in KpWorkers, Load!KpRead(w) PROVE KpInv'
<1>1. PICK n \in 1..payload_len :
        /\ kp_at[w] = "read" /\ n <= kp_echo[w] /\ n <= payload_len - kp_got[w]
        /\ kp_got' = [kp_got EXCEPT ![w] = @ + n] /\ kp_echo' = [kp_echo EXCEPT ![w] = @ - n]
        /\ UNCHANGED <<kp_mode, kp_created, kp_g_ready, kp_at, kp_r, kp_failures, kp_g_lat_us, kp_line,
                       kp_whole, kp_joined, kp_killed>>
  BY DEF Load!KpRead
<1>2. n \in Nat /\ kp_got[w] \in Nat /\ kp_echo[w] \in Nat /\ kp_got'[w] = kp_got[w] + n /\ kp_echo'[w] = kp_echo[w] - n
  BY <1>1, LoadAssumption DEF KpInv, KpTypes
<1>3. KpTypes'
  <2>1. kp_got[w] + n \in Nat /\ kp_echo[w] - n \in Nat
    BY <1>1, <1>2
  <2> QED BY <1>1, <2>1 DEF KpInv, KpTypes
<1>4. Theirs(w)
  BY <1>1 DEF Theirs, KpInv, KpTypes, Wholes
<1>5. NoneTooMany(w)'
  <2>1. kp_got[w] + kp_echo[w] <= payload_len /\ kp_at'[w] = "read"
    BY <1>1 DEF KpInv, NoneTooMany
  <2> QED BY <1>2, <2>1, LoadAssumption DEF NoneTooMany
<1> QED BY <1>1, <1>3, <1>4, <1>5, MidRound

LEMMA ServerStep == ASSUME KpInv, NEW w \in KpWorkers, Load!KpServer(w) PROVE KpInv'
<1> USE DEF Load!KpServer
<1>1. PICK n \in 0..kp_echo[w] : kp_echo' = [kp_echo EXCEPT ![w] = n]
  OBVIOUS
<1>2. kp_echo[w] \in Nat /\ n \in Nat /\ n <= kp_echo[w] /\ kp_echo'[w] = n
  BY <1>1 DEF KpInv, KpTypes
<1>3. KpTypes'
  <2>1. kp_line' \in [KpWorkers -> {"none", "up", "fin", "rst"}]
    BY DEF KpInv, KpTypes
  <2>2. kp_echo' \in [KpWorkers -> Nat]
    BY <1>1, <1>2 DEF KpInv, KpTypes
  <2> QED BY <2>1, <2>2 DEF KpInv, KpTypes, Load!threads
<1>4. Theirs(w) /\ kp_at' = kp_at /\ kp_got' = kp_got /\ kp_r' = kp_r /\ kp_failures' = kp_failures /\ kp_g_lat_us' = kp_g_lat_us
  BY <1>1 DEF Theirs, KpInv, KpTypes, Wholes, Load!threads
<1>5. kp_line[w] = "up" /\ kp_at[w] \in {"write", "read"}
  OBVIOUS
<1>6. NoneTooMany(w)'
  <2>1. NoneTooMany(w) /\ kp_got[w] \in Nat /\ payload_len \in Nat
    BY LoadAssumption DEF KpInv, KpTypes
  <2> QED BY ONLY <1>2, <1>4, <1>5, <2>1 DEF NoneTooMany
<1> QED BY <1>3, <1>4, <1>5, <1>6, MidRound

LEMMA OpenFailsStep == ASSUME KpInv, NEW w \in KpWorkers, Load!OpenFails(w) PROVE KpInv'
<1> USE DEF Load!OpenFails
<1>0. kp_r[w] < Rounds /\ kp_at[w] \in {"barrier", "open"} /\ w \notin kp_joined
  BY DEF KpInv
<1>1. CASE kp_mode /= "long"
  BY <1>0, <1>1, FailedStep
<1>2. CASE kp_mode = "long"
  <2>1. /\ kp_failures' = [kp_failures EXCEPT ![w] = Rounds]
        /\ kp_at' = [kp_at EXCEPT ![w] = "done"] /\ UNCHANGED <<kp_r, kp_line>>
    BY <1>2
  <2>2. KpTypes' /\ TimedOnes'
    BY <2>1, LoadAssumption DEF KpInv, KpTypes, TimedOnes
  <2>3. Theirs(w) /\ Wholes(w)' = Wholes(w) /\ kp_at'[w] = "done" /\ kp_failures'[w] = Rounds
    BY <2>1 DEF Theirs, KpInv, KpTypes, Wholes
  <2>4. Cardinality(Wholes(w)) = 0 /\ kp_r[w] = 0
    <3>1. kp_at[w] = "barrier" /\ kp_r[w] = 0 /\ Cardinality(Wholes(w)) + kp_failures[w] = kp_r[w]
      BY <1>0, <1>2 DEF KpInv, RoundsOver
    <3>2. Cardinality(Wholes(w)) \in Nat /\ kp_failures[w] \in Nat
      BY WholesFinite DEF KpInv, KpTypes
    <3> QED BY <3>1, <3>2
  <2>5. RoundsOver(w)'
    <3>1. Cardinality(Wholes(w)') = 0 /\ kp_r'[w] = 0 /\ \A k \in Wholes(w)' : k[2] < kp_r'[w]
      BY <2>1, <2>3, <2>4 DEF KpInv, RoundsOver
    <3> QED BY <2>3, <3>1, LoadAssumption DEF RoundsOver
  <2>6. NoneTooMany(w)'
    BY <2>3 DEF NoneTooMany
  <2> QED BY <2>2, <2>3, <2>5, <2>6, KpOne
<1> QED BY <1>1, <1>2

LEMMA WriteFailsStep == ASSUME KpInv, NEW w \in KpWorkers, Load!WriteFails(w) PROVE KpInv'
<1> USE DEF Load!WriteFails
<1>0. kp_r[w] < Rounds /\ kp_at[w] = "write" /\ w \notin kp_joined
  BY DEF KpInv, RoundsOver
<1>1. CASE kp_mode /= "long"
  BY <1>0, <1>1, FailedStep
<1>2. CASE kp_mode = "long"
  <2>1. /\ kp_failures' = [kp_failures EXCEPT ![w] = @ + 1]
        /\ kp_at' = [kp_at EXCEPT ![w] = "done"] /\ kp_line' = [kp_line EXCEPT ![w] = "none"] /\ UNCHANGED kp_r
    BY <1>2
  <2>2. KpTypes' /\ TimedOnes'
    BY <2>1 DEF KpInv, KpTypes, TimedOnes
  <2>3. Theirs(w) /\ Wholes(w)' = Wholes(w) /\ kp_at'[w] = "done" /\ kp_failures'[w] = kp_failures[w] + 1
    BY <2>1 DEF Theirs, KpInv, KpTypes, Wholes
  <2>4. Cardinality(Wholes(w)) + (kp_failures[w] + 1) <= Rounds
    <3> DEFINE c == Cardinality(Wholes(w))
    <3>1. c + kp_failures[w] = kp_r[w]
      BY <1>0 DEF KpInv, RoundsOver
    <3>2. c \in Nat /\ kp_failures[w] \in Nat /\ kp_r[w] \in Nat
      BY WholesFinite DEF KpInv, KpTypes
    <3> HIDE DEF c
    <3>3. c + (kp_failures[w] + 1) <= Rounds
      BY <1>0, <3>1, <3>2, LoadAssumption
    <3> QED BY <3>3 DEF c
  <2>5. RoundsOver(w)'
    <3>1. Cardinality(Wholes(w)') = Cardinality(Wholes(w)) /\ \A k \in Wholes(w)' : k[2] < kp_r'[w]
      BY <2>1, <2>3 DEF KpInv, RoundsOver
    <3>2. kp_r[w] <= Rounds
      BY DEF KpInv, RoundsOver
    <3> QED BY <1>0, <1>2, <2>1, <2>3, <2>4, <3>1, <3>2 DEF RoundsOver
  <2>6. NoneTooMany(w)'
    BY <2>3 DEF NoneTooMany
  <2> QED BY <2>2, <2>3, <2>5, <2>6, KpOne
<1> QED BY <1>1, <1>2

LEMMA UnansweredStep == ASSUME KpInv, NEW w \in KpWorkers, Load!Unanswered(w) PROVE KpInv'
<1> USE DEF Load!Unanswered
<1>1. kp_r[w] < Rounds
  BY DEF KpInv, RoundsOver
<1> QED BY <1>1, FailedStep

LEMMA KpQuiet ==
  ASSUME KpInv,
         UNCHANGED <<kp_mode, kp_at, kp_r, kp_got, kp_failures, kp_g_lat_us, kp_line, kp_echo, kp_whole>>,
         kp_joined' \subseteq KpWorkers, \A w \in kp_joined' : kp_at[w] = "done"
  PROVE  KpInv'
<1>1. \A w : Wholes(w)' = Wholes(w)
  BY DEF Wholes
<1>2. KpTypes' /\ TimedOnes'
  BY DEF KpInv, KpTypes, TimedOnes
<1> QED BY <1>1, <1>2 DEF KpInv, NoneTooMany, RoundsOver

LEMMA KpSteps == ASSUME KpInv, [Load!KpNext]_(Load!kp_vars) PROVE KpInv'
<1>0. kp_joined \subseteq KpWorkers /\ \A w \in kp_joined : kp_at[w] = "done"
  BY DEF KpInv, KpTypes
<1>1. CASE UNCHANGED Load!kp_vars
  BY <1>0, <1>1, KpQuiet DEF Load!kp_vars, Load!threads
<1>2. ASSUME NEW w \in KpWorkers, Load!Create(w) \/ Load!Join(w) \/ Load!Arrive(w) \/ Load!SigPipe(w) PROVE KpInv'
  <2>1. /\ UNCHANGED <<kp_mode, kp_at, kp_r, kp_got, kp_failures, kp_g_lat_us, kp_line, kp_echo, kp_whole>>
        /\ kp_joined' = kp_joined \/ (kp_joined' = kp_joined \cup {w} /\ kp_at[w] = "done")
    BY <1>2 DEF Load!Create, Load!Join, Load!Arrive, Load!SigPipe, Load!threads
  <2> QED BY <1>0, <2>1, KpQuiet
<1>3. ASSUME NEW w \in KpWorkers, Load!KpServer(w) PROVE KpInv'
  BY <1>3, ServerStep
<1>4. ASSUME NEW w \in KpWorkers, Load!Open(w) \/ Load!OpenFails(w) \/ Load!KpWrite(w) \/ Load!WriteFails(w) PROVE KpInv'
  BY <1>4, OpenStep, OpenFailsStep, WriteStep, WriteFailsStep
<1>5. ASSUME NEW w \in KpWorkers, Load!KpRead(w) \/ Load!Answered(w) \/ Load!Unanswered(w) PROVE KpInv'
  BY <1>5, ReadStep, AnsweredStep, UnansweredStep
<1> QED BY <1>1, <1>2, <1>3, <1>4, <1>5 DEF Load!KpNext, Load!Thread

WholeOnes == [w \in KpWorkers |-> Cardinality(Wholes(w))]
Left == [w \in KpWorkers |-> IF kp_at[w] = "done" THEN Rounds - Cardinality(Wholes(w)) - kp_failures[w] ELSE 0]

LEMMA WholesSum == ASSUME KpTypes PROVE Cardinality(kp_whole) = Sum(WholeOnes, KpWorkers)
<1> DEFINE Of(V) == {k \in kp_whole : k[1] \in V}
           P == {V \in SUBSET KpWorkers : Cardinality(Of(V)) = Sum(WholeOnes, V)}
<1>1. \A V : Of(V) \subseteq kp_whole /\ IsFiniteSet(Of(V)) /\ Cardinality(Of(V)) \in Nat
  BY WholesFinite, FS_Subset, FS_CardinalityType
<1>2. \A w \in KpWorkers : IsFiniteSet(Wholes(w)) /\ WholeOnes[w] = Cardinality(Wholes(w)) /\ WholeOnes[w] \in Nat
  BY WholesFinite DEF WholeOnes
<1>3. \A V \in SUBSET KpWorkers : Ints(WholeOnes, V)
  BY <1>2, FS_Subset, LoadAssumption DEF Ints
<1>4. {} \in P
  <2>1. Of({}) = {}
    OBVIOUS
  <2> HIDE DEF Of
  <2> QED BY <2>1, SumNone, FS_EmptySet
<1>5. ASSUME NEW V \in SUBSET KpWorkers, NEW w \in KpWorkers \ V, V \in P PROVE V \cup {w} \in P
  <2>1. Of(V \cup {w}) = Of(V) \cup Wholes(w) /\ Of(V) \cap Wholes(w) = {}
    BY DEF Wholes
  <2> HIDE DEF Of
  <2>2. Cardinality(Of(V) \cup Wholes(w)) = Cardinality(Of(V)) + Cardinality(Wholes(w))
    <3>1. IsFiniteSet(Of(V)) /\ IsFiniteSet(Wholes(w))
      BY <1>1, <1>2
    <3>2. Cardinality(Of(V) \cap Wholes(w)) = 0
      BY <2>1, FS_EmptySet
    <3>3. Cardinality(Of(V)) \in Nat /\ Cardinality(Wholes(w)) \in Nat
      BY <1>1, <1>2
    <3>4. Cardinality(Of(V) \cup Wholes(w)) = Cardinality(Of(V)) + Cardinality(Wholes(w)) - Cardinality(Of(V) \cap Wholes(w))
      BY ONLY <3>1, FS_Union
    <3> DEFINE a == Cardinality(Of(V))
               b == Cardinality(Wholes(w))
    <3> HIDE DEF a, b
    <3>5. a + b - 0 = a + b
      BY <3>3 DEF a, b
    <3> QED BY <3>2, <3>4, <3>5 DEF a, b
  <2>3. Sum(WholeOnes, V \cup {w}) = Sum(WholeOnes, V) + WholeOnes[w]
    BY <1>2, <1>3, SumGrows
  <2>4. Cardinality(Of(V)) = Sum(WholeOnes, V)
    BY <1>5
  <2> QED BY <1>2, <2>1, <2>2, <2>3, <2>4
<1>6. KpWorkers \in P
  <2> HIDE DEF P
  <2> QED BY ONLY <1>4, <1>5, LoadAssumption, SubsetInduction
<1>7. Of(KpWorkers) = kp_whole
  BY DEF KpTypes
<1> QED BY <1>6, <1>7

LEMMA FailuresSum == ASSUME KpTypes PROVE Load!total_failures = Sum(kp_failures, KpWorkers)
<1> DEFINE A(t) == t = [s \in SUBSET KpWorkers |->
                          IF s = {} THEN 0 ELSE kp_failures[CHOOSE x \in s : TRUE] + t[s \ {CHOOSE x \in s : TRUE}]]
           F == CHOOSE t : A(t)
<1>1. Ints(kp_failures, KpWorkers)
  BY LoadAssumption DEF KpTypes, Ints
<1>2. \A t : A(t) <=> Adds(kp_failures, KpWorkers, t)
  BY DEF Adds, Picked
<1>3. A(F)
  <2>1. \E t : A(t)
    <3>1. \E t \in [SUBSET KpWorkers -> Int] : Adds(kp_failures, KpWorkers, t)
      BY ONLY <1>1, SumsExist
    <3> HIDE DEF A
    <3> QED BY <1>2, <3>1
  <2> HIDE DEF A
  <2> QED BY <2>1
<1>4. Load!total_failures = F[KpWorkers]
  BY DEF Load!total_failures, Load!MapThenSumSet, Load!MapThenFoldSet
<1> HIDE DEF A, F
<1>5. \A x \in KpWorkers : kp_failures[x] = kp_failures[x]
  OBVIOUS
<1>6. Adds(kp_failures, KpWorkers, F)
  BY <1>2, <1>3
<1>7. F[KpWorkers] = Sum(kp_failures, KpWorkers)
  BY ONLY <1>1, <1>5, <1>6, SumIs
<1> QED BY <1>4, <1>7

LEMMA UnrunIs ==
  ASSUME NEW w \in KpWorkers PROVE Load!Unrun(w) = Left[w]
<1>1. {k \in kp_whole : k[1] = w} = Wholes(w)
  BY DEF Wholes
<1> QED BY <1>1, LoadCounted DEF Load!Unrun, Left

LEMMA LeftSum ==
  ASSUME \A w \in KpWorkers : Left[w] \in Int
  PROVE  Load!MapThenSumSet(Load!Unrun, KpWorkers) = Sum(Left, KpWorkers)
<1> DEFINE A(t) == t = [s \in SUBSET KpWorkers |->
                          IF s = {} THEN 0 ELSE Load!Unrun(CHOOSE x \in s : TRUE) + t[s \ {CHOOSE x \in s : TRUE}]]
           F == CHOOSE t : A(t)
           h == [w \in KpWorkers |-> Load!Unrun(w)]
<1>1. Ints(Left, KpWorkers) /\ Ints(h, KpWorkers) /\ \A w \in KpWorkers : Left[w] = h[w]
  BY LoadAssumption, UnrunIs DEF Ints
<1>2. \A t : A(t) <=> Adds(h, KpWorkers, t)
  <2>1. ASSUME NEW s \in SUBSET KpWorkers, s /= {} PROVE h[CHOOSE x \in s : TRUE] = Load!Unrun(CHOOSE x \in s : TRUE)
    <3>1. (CHOOSE x \in s : TRUE) \in KpWorkers
      BY <2>1
    <3> QED BY <3>1
  <2> HIDE DEF h
  <2> SUFFICES ASSUME NEW t PROVE A(t) <=> Adds(h, KpWorkers, t)
    OBVIOUS
  <2>2. [s \in SUBSET KpWorkers |-> IF s = {} THEN 0 ELSE Load!Unrun(CHOOSE x \in s : TRUE) + t[s \ {CHOOSE x \in s : TRUE}]]
        = [s \in SUBSET KpWorkers |-> IF s = {} THEN 0 ELSE h[CHOOSE x \in s : TRUE] + t[s \ {CHOOSE x \in s : TRUE}]]
    BY <2>1
  <2>3. Adds(h, KpWorkers, t) <=> t = [s \in SUBSET KpWorkers |-> IF s = {} THEN 0 ELSE h[CHOOSE x \in s : TRUE] + t[s \ {CHOOSE x \in s : TRUE}]]
    BY DEF Adds, Picked
  <2> QED BY <2>2, <2>3
<1>3. A(F)
  <2>1. \E t : A(t)
    <3>1. \E t \in [SUBSET KpWorkers -> Int] : Adds(h, KpWorkers, t)
      <4> HIDE DEF h
      <4> QED BY ONLY <1>1, SumsExist
    <3> HIDE DEF A, h
    <3> QED BY <1>2, <3>1
  <2> HIDE DEF A
  <2> QED BY <2>1
<1>4. Load!MapThenSumSet(Load!Unrun, KpWorkers) = F[KpWorkers]
  BY DEF Load!MapThenSumSet, Load!MapThenFoldSet
<1> HIDE DEF A, F, h
<1>6. Adds(h, KpWorkers, F)
  BY <1>2, <1>3
<1>7. F[KpWorkers] = Sum(Left, KpWorkers)
  BY ONLY <1>1, <1>6, SumIs
<1> QED BY <1>4, <1>7

LEMMA KpMeans == KpInv => Load!CountsWhatCameBack
<1> SUFFICES ASSUME KpInv, kp_joined = KpWorkers
             PROVE  /\ Load!total_success = Load!Cardinality(kp_whole) + Load!MapThenSumSet(Load!Unrun, KpWorkers)
                    /\ kp_mode = "short" => \A w \in KpWorkers : Load!Unrun(w) = 0
                    /\ \A w \in KpWorkers : Load!Unrun(w) >= 0 /\ (Load!Unrun(w) > 0 => kp_r[w] < Rounds)
                    /\ \A w \in KpWorkers, k \in 0..Rounds - 1 : kp_g_lat_us[w][k] > 0 => <<w, k>> \in kp_whole
                    /\ \A p \in {<<50, 100>>, <<90, 100>>, <<99, 100>>, <<999, 1000>>} :
                         Load!valid > 0 => Load!percentile(Load!valid, p[1], p[2]) \in 0..Load!valid - 1
  BY DEF Load!CountsWhatCameBack
<1>1. \A w \in KpWorkers : kp_at[w] = "done"
  BY DEF KpInv
<1>2. KpTypes /\ Rounds \in Nat
  BY LoadAssumption DEF KpInv
<1>3. ASSUME NEW w \in KpWorkers
      PROVE  /\ Left[w] = Rounds - WholeOnes[w] - kp_failures[w] /\ Left[w] \in Nat
             /\ WholeOnes[w] \in Nat /\ kp_failures[w] \in Nat
             /\ Left[w] > 0 => kp_r[w] < Rounds /\ kp_mode = "long"
  <2> DEFINE c == Cardinality(Wholes(w))
  <2>1. c \in Nat /\ kp_failures[w] \in Nat
    BY <1>2, WholesFinite DEF KpTypes
  <2>2. c + kp_failures[w] <= Rounds /\ (c + kp_failures[w] = Rounds \/ (kp_r[w] < Rounds /\ kp_mode = "long"))
    BY <1>1 DEF KpInv, RoundsOver
  <2>3. Left[w] = Rounds - c - kp_failures[w] /\ WholeOnes[w] = c
    BY <1>1 DEF Left, WholeOnes
  <2> HIDE DEF c
  <2> QED BY <1>2, <2>1, <2>2, <2>3
<1>4. Load!total_success = Load!Cardinality(kp_whole) + Load!MapThenSumSet(Load!Unrun, KpWorkers)
  <2> DEFINE h == [w \in KpWorkers |-> WholeOnes[w] + kp_failures[w]]
             g == [w \in KpWorkers |-> h[w] + Left[w]]
             n == Cardinality(KpWorkers)
             a == Sum(WholeOnes, KpWorkers)
             b == Sum(kp_failures, KpWorkers)
             c == Sum(Left, KpWorkers)
  <2>0. IsFiniteSet(KpWorkers) /\ n \in Nat
    BY LoadAssumption, FS_CardinalityType
  <2>1. \A w \in KpWorkers : h[w] = WholeOnes[w] + kp_failures[w] /\ g[w] = h[w] + Left[w]
    OBVIOUS
  <2>2. \A w \in KpWorkers : h[w] \in Int /\ g[w] = Rounds
    <3> SUFFICES ASSUME NEW w \in KpWorkers PROVE h[w] \in Int /\ g[w] = Rounds
      OBVIOUS
    <3> HIDE DEF h, g
    <3>1. h[w] = WholeOnes[w] + kp_failures[w] /\ g[w] = h[w] + Left[w]
      BY <2>1
    <3> QED BY <1>2, <1>3, <3>1
  <2> HIDE DEF h, g
  <2>3. Ints(WholeOnes, KpWorkers) /\ Ints(kp_failures, KpWorkers) /\ Ints(Left, KpWorkers) /\ Ints(h, KpWorkers)
    BY <1>3, <2>0, <2>2 DEF Ints
  <2>4. Sum(h, KpWorkers) = a + b
    BY ONLY <2>1, <2>3, SumPlus
  <2>5. Sum(g, KpWorkers) = Sum(h, KpWorkers) + c
    BY ONLY <2>1, <2>3, SumPlus
  <2>6. Sum(g, KpWorkers) = Rounds * n
    BY ONLY <1>2, <2>0, <2>2, SumConstant, Rounds \in Int
  <2>7. a \in Int /\ b \in Int /\ c \in Int
    BY <2>3, SumAdds
  <2>8. Load!total_failures = b /\ Cardinality(kp_whole) = a
    BY <1>2, FailuresSum, WholesSum
  <2>9. Load!MapThenSumSet(Load!Unrun, KpWorkers) = c
    BY <1>3, LeftSum
  <2>10. Load!total_success = n * Rounds - b
    BY <2>8, LoadCounted DEF Load!total_success, Load!total_req
  <2> HIDE DEF a, b, c, n
  <2>11. n * Rounds = a + b + c
    BY <1>2, <2>0, <2>4, <2>5, <2>6, <2>7
  <2>12. n * Rounds - b = a + c
    BY <1>2, <2>0, <2>7, <2>11
  <2> QED BY <2>8, <2>9, <2>10, <2>12, LoadCounted
<1>5. \A w \in KpWorkers : Load!Unrun(w) = Left[w]
  BY UnrunIs
<1>6. ASSUME kp_mode = "short", NEW w \in KpWorkers PROVE Load!Unrun(w) = 0
  BY <1>3, <1>5, <1>6
<1>7. \A w \in KpWorkers : Load!Unrun(w) >= 0 /\ (Load!Unrun(w) > 0 => kp_r[w] < Rounds)
  BY <1>3, <1>5
<1>8. \A w \in KpWorkers, k \in 0..Rounds - 1 : kp_g_lat_us[w][k] > 0 => <<w, k>> \in kp_whole
  BY DEF KpInv, TimedOnes, Counts
<1>9. Load!valid \in Nat
  <2> DEFINE V == {k \in KpWorkers \X (0..Rounds - 1) : kp_g_lat_us[k[1]][k[2]] > 0}
  <2>1. V \subseteq KpWorkers \X (0..Rounds - 1)
    OBVIOUS
  <2>2. IsFiniteSet(KpWorkers \X (0..Rounds - 1))
    <3>1. 0 \in Int /\ Rounds - 1 \in Int
      BY <1>2
    <3> QED BY <3>1, LoadAssumption, FS_Interval, FS_Product
  <2>3. Cardinality(V) \in Nat
    BY <2>1, <2>2, FS_Subset, FS_CardinalityType
  <2> QED BY <2>3, LoadCounted DEF Load!valid
<1>10. ASSUME NEW p \in {<<50, 100>>, <<90, 100>>, <<99, 100>>, <<999, 1000>>}, Load!valid > 0
       PROVE  Load!percentile(Load!valid, p[1], p[2]) \in 0..Load!valid - 1
  <2>1. p[1] \in Nat /\ p[2] \in Nat \ {0}
    OBVIOUS
  <2>2. Load!valid \in Nat \ {0}
    BY <1>9, <1>10
  <2>3. PICK v \in Nat \ {0}, a \in Nat, b \in Nat \ {0} : v = Load!valid /\ a = p[1] /\ b = p[2]
    BY <2>1, <2>2
  <2>4. (v * a) \in Nat
    OBVIOUS
  <2>5. (v * a) \div b \in Nat
    BY <2>4, QuotientIs
  <2>6. Load!percentile(v, a, b) \in 0..(v - 1)
    BY ONLY <2>5, v \in Nat \ {0} DEF Load!percentile
  <2> QED BY ONLY <2>3, <2>6
<1>11. kp_mode = "short" => \A w \in KpWorkers : Load!Unrun(w) = 0
  BY <1>6
<1>12. \A p \in {<<50, 100>>, <<90, 100>>, <<99, 100>>, <<999, 1000>>} :
         Load!valid > 0 => Load!percentile(Load!valid, p[1], p[2]) \in 0..Load!valid - 1
  BY ONLY <1>10, Zenon
<1> QED BY ONLY <1>4, <1>7, <1>8, <1>11, <1>12, Zenon

\* LoadGenerators: each round that echo-kp-bench.c reports as ok had its own payload come
\* back, but for those a failed write left of a long connection, for any number of
\* connections, of rounds, of bytes, and whenever the server closes or resets.
THEOREM BenchCounts == Load!KpSpec => []Load!CountsWhatCameBack
<1>1. KpInv /\ [Load!KpNext]_(Load!kp_vars) => KpInv'
  BY KpSteps
<1> QED BY KpBegins, <1>1, KpMeans, PTL DEF Load!KpSpec

------------------------------------------------------------------------------
(* LoadGenerators: the blocking server between its two callers.            *)

Callers == {"bench", "client"}
Queued(c) == \E k \in DOMAIN bl_backlog : bl_backlog[k] = c
Underway(c) == IF bl_serving = c THEN bl_n ELSE 0

BlkTypes ==
  /\ bl_backlog \in Seq(Callers) /\ bl_serving \in Callers \cup {"none"} /\ bl_n \in Nat
  /\ bl_alive \in BOOLEAN
  /\ bl_at \in [Callers -> {"connect", "write", "read", "close", "done"}]
  /\ bl_line \in [Callers -> {"none", "up", "closed", "reset", "gone", "left"}]
  /\ bl_up \in [Callers -> Nat] /\ bl_down \in [Callers -> Nat] /\ bl_fin \in [Callers -> BOOLEAN]
  /\ bl_total \in [Callers -> Nat] /\ bl_sent \in [Callers -> Nat]
  /\ bl_lats \in Seq({MsgLen}) /\ bl_runs \in Nat

\* The server is concerned with a caller once.
OneAtATime ==
  /\ \A i, j \in DOMAIN bl_backlog : bl_backlog[i] = bl_backlog[j] => i = j
  /\ ~Queued(bl_serving)
  /\ bl_serving = "none" => bl_n = 0
  /\ ~bl_alive => bl_backlog = <<>> /\ bl_serving = "none"

\* Where a caller is, and its connection.
Connected(c) ==
  /\ Queued(c) => bl_line[c] = "up" /\ bl_at[c] \in {"write", "read"} /\ bl_down[c] = 0
  /\ bl_serving = c => bl_line[c] \in {"up", "left", "gone"}
  /\ bl_line[c] = "up" => bl_at[c] \in {"write", "read", "close"}
  /\ bl_line[c] \in {"left", "gone"} => c = "client" /\ bl_at[c] = "done"
  /\ bl_line[c] = "reset" => bl_down[c] = 0
  /\ bl_line[c] = "closed" => bl_at[c] \in {"read", "close"} /\ bl_up[c] = 0
  /\ bl_at[c] = "write" => bl_line[c] \in {"up", "reset"} /\ bl_sent[c] = 0 /\ ~bl_fin[c]
  /\ bl_at[c] = "read" => bl_line[c] \in {"up", "closed", "reset"} /\ bl_sent[c] = MsgLen
  /\ bl_at[c] = "close" => bl_line[c] \in {"up", "closed"} /\ bl_sent[c] = MsgLen
  /\ bl_at[c] = "close" /\ c = "bench" => bl_line[c] = "closed" /\ bl_down[c] = 0

\* The bytes of a caller, and that the bench loses none.
Bytes4(c) == bl_total[c] + bl_down[c] + Underway(c) + bl_up[c]
NoneLost(c) ==
  /\ Bytes4(c) <= bl_sent[c]
  /\ c = "bench" /\ bl_line[c] \in {"up", "closed"} => Bytes4(c) = bl_sent[c]

BlkInv == BlkTypes /\ OneAtATime /\ \A c \in Callers : Connected(c) /\ NoneLost(c)

LEMMA BlkBegins == Load!BlkInit => BlkInv
<1> SUFFICES ASSUME Load!BlkInit PROVE BlkInv
  OBVIOUS
<1> USE DEF Load!BlkInit, Load!Callers, Load!Bench, Load!Client, Load!None, Callers
<1>1. BlkTypes
  BY DEF BlkTypes
<1>2. OneAtATime /\ \A c \in Callers : ~Queued(c) /\ bl_serving /= c
  BY DEF OneAtATime, Queued
<1>3. \A c \in Callers : Connected(c) /\ NoneLost(c)
  BY <1>2 DEF Connected, NoneLost, Bytes4, Underway
<1> QED BY <1>1, <1>2, <1>3 DEF BlkInv

\* The server's side stays.
LEMMA SameServer ==
  ASSUME OneAtATime, UNCHANGED <<bl_backlog, bl_serving, bl_n, bl_alive>>
  PROVE  OneAtATime' /\ \A c : (Queued(c)' <=> Queued(c)) /\ Underway(c)' = Underway(c)
  BY DEF OneAtATime, Queued, Underway

\* A step of one caller leaves the other as it was.
LEMMA OtherStays ==
  ASSUME BlkInv, NEW c \in Callers, NEW o \in Callers, o /= c, OneAtATime',
         Queued(o)' <=> Queued(o), bl_serving' = bl_serving, bl_n' = bl_n,
         bl_at'[o] = bl_at[o], bl_line'[o] = bl_line[o], bl_up'[o] = bl_up[o], bl_down'[o] = bl_down[o],
         bl_fin'[o] = bl_fin[o], bl_total'[o] = bl_total[o], bl_sent'[o] = bl_sent[o]
  PROVE  Connected(o)' /\ NoneLost(o)'
<1>1. Connected(o)'
  BY DEF BlkInv, Connected
<1>2. Underway(o)' = Underway(o)
  BY DEF Underway
<1>3. NoneLost(o)'
  BY <1>2 DEF BlkInv, NoneLost, Bytes4
<1> QED BY <1>1, <1>3

LEMMA ConnectStep == ASSUME BlkInv, NEW c \in Callers, Load!Connect(c) PROVE BlkInv'
<1> USE DEF Load!Connect
<1>1. ~Queued(c) /\ bl_serving /= c /\ bl_at[c] = "connect"
  BY DEF BlkInv, Connected
<1>2. bl_backlog' = Append(bl_backlog, c) /\ bl_backlog \in Seq(Callers)
  BY DEF BlkInv, BlkTypes
<1>3. BlkTypes'
  BY <1>2 DEF BlkInv, BlkTypes
<1>4. /\ Len(bl_backlog') = Len(bl_backlog) + 1 /\ bl_backlog'[Len(bl_backlog) + 1] = c
      /\ \A i \in 1..Len(bl_backlog) : bl_backlog'[i] = bl_backlog[i]
      /\ Len(bl_backlog) \in Nat /\ DOMAIN bl_backlog' = 1..(Len(bl_backlog) + 1)
      /\ DOMAIN bl_backlog = 1..Len(bl_backlog)
  BY <1>2
<1>5. \A o : Queued(o)' <=> (Queued(o) \/ o = c)
  BY <1>4 DEF Queued
<1>6. OneAtATime'
  <2>1. \A i, j \in DOMAIN bl_backlog' : bl_backlog'[i] = bl_backlog'[j] => i = j
    BY <1>1, <1>4 DEF BlkInv, OneAtATime, Queued
  <2>2. ~Queued(bl_serving)'
    BY <1>1, <1>5 DEF BlkInv, OneAtATime
  <2> QED BY <2>1, <2>2 DEF BlkInv, OneAtATime
<1>7. Connected(c)' /\ NoneLost(c)'
  <2>1. /\ bl_at'[c] = "write" /\ bl_line'[c] = "up" /\ bl_up'[c] = 0 /\ bl_down'[c] = 0 /\ bl_fin'[c] = FALSE
        /\ bl_total'[c] = 0 /\ bl_sent'[c] = 0 /\ bl_serving' = bl_serving
    BY DEF BlkInv, BlkTypes
  <2>2. Underway(c)' = 0
    BY <1>1, <2>1 DEF Underway
  <2> QED BY <1>1, <2>1, <2>2 DEF Connected, NoneLost, Bytes4
<1>8. ASSUME NEW o \in Callers, o /= c PROVE Connected(o)' /\ NoneLost(o)'
  <2>1. /\ Queued(o)' <=> Queued(o)
        /\ bl_at'[o] = bl_at[o] /\ bl_line'[o] = bl_line[o] /\ bl_up'[o] = bl_up[o] /\ bl_down'[o] = bl_down[o]
        /\ bl_fin'[o] = bl_fin[o] /\ bl_total'[o] = bl_total[o] /\ bl_sent'[o] = bl_sent[o]
        /\ bl_serving' = bl_serving /\ bl_n' = bl_n
    BY <1>5, <1>8 DEF BlkInv, BlkTypes
  <2> QED BY ONLY <1>6, <1>8, <2>1, BlkInv, c \in Callers, OtherStays
<1> QED BY <1>3, <1>6, <1>7, <1>8 DEF BlkInv

\* What is to be shown of a step of a caller that the server does not notice.
LEMMA CallerOne ==
  ASSUME BlkInv, NEW c \in Callers, BlkTypes', UNCHANGED <<bl_backlog, bl_serving, bl_n, bl_alive>>,
         Connected(c)', NoneLost(c)',
         \A o \in Callers \ {c} :
           /\ bl_at'[o] = bl_at[o] /\ bl_line'[o] = bl_line[o] /\ bl_up'[o] = bl_up[o] /\ bl_down'[o] = bl_down[o]
           /\ bl_fin'[o] = bl_fin[o] /\ bl_total'[o] = bl_total[o] /\ bl_sent'[o] = bl_sent[o]
  PROVE  BlkInv'
<1>1. OneAtATime' /\ \A o : Queued(o)' <=> Queued(o)
  BY SameServer DEF BlkInv
<1>2. ASSUME NEW o \in Callers, o /= c PROVE Connected(o)' /\ NoneLost(o)'
  <2>1. /\ Queued(o)' <=> Queued(o)
        /\ bl_at'[o] = bl_at[o] /\ bl_line'[o] = bl_line[o] /\ bl_up'[o] = bl_up[o] /\ bl_down'[o] = bl_down[o]
        /\ bl_fin'[o] = bl_fin[o] /\ bl_total'[o] = bl_total[o] /\ bl_sent'[o] = bl_sent[o]
        /\ bl_serving' = bl_serving /\ bl_n' = bl_n
    BY <1>1, <1>2
  <2> QED BY ONLY <1>1, <1>2, <2>1, BlkInv, c \in Callers, OtherStays
<1> QED BY <1>1, <1>2 DEF BlkInv

LEMMA OverSteps ==
  ASSUME BlkTypes, NEW c \in Callers, Load!Over(c)
  PROVE  /\ bl_runs' \in Nat
         /\ bl_at' \in [Callers -> {"connect", "write", "read", "close", "done"}]
         /\ bl_at'[c] \in {"connect", "done"} /\ (c = "client" => bl_at'[c] = "done")
         /\ \A o \in Callers \ {c} : bl_at'[o] = bl_at[o]
  BY DEF BlkTypes, Load!Over, Load!Bench, Callers

LEMMA CallerSteps ==
  ASSUME BlkInv, NEW c \in Callers,
         \/ Load!ConnectFails(c) \/ Load!BlkWrite(c) \/ Load!BlkRead(c) \/ Load!ReadEnds(c)
         \/ Load!Fails(c) \/ Load!Close(c)
  PROVE  BlkInv'
<1> USE DEF Load!server
<1>0. BlkTypes /\ Connected(c) /\ NoneLost(c) /\ c \in {"bench", "client"}
  BY DEF BlkInv, Callers
<1>1. CASE Load!ConnectFails(c)
  <2>1. /\ bl_at[c] = "connect" /\ ~bl_alive /\ Load!Over(c)
        /\ UNCHANGED <<bl_backlog, bl_serving, bl_n, bl_alive>>
        /\ UNCHANGED <<bl_line, bl_up, bl_down, bl_fin, bl_total, bl_sent, bl_lats>>
    BY <1>1 DEF Load!ConnectFails
  <2>2. BlkTypes'
    BY <1>0, <2>1, OverSteps DEF BlkTypes
  <2>3. (Queued(c)' <=> Queued(c)) /\ Underway(c)' = Underway(c)
    BY <2>1 DEF Queued, Underway
  <2>4. Connected(c)'
    BY <1>0, <2>1, <2>3, OverSteps DEF Connected
  <2>5. NoneLost(c)'
    BY <1>0, <2>1, <2>3 DEF NoneLost, Bytes4
  <2> QED BY <1>0, <2>1, <2>2, <2>4, <2>5, OverSteps, CallerOne
<1>2. CASE Load!BlkWrite(c)
  <2>1. /\ bl_at[c] = "write" /\ bl_line[c] = "up"
        /\ bl_up' = [bl_up EXCEPT ![c] = MsgLen] /\ bl_sent' = [bl_sent EXCEPT ![c] = MsgLen]
        /\ bl_fin' = [bl_fin EXCEPT ![c] = c = "bench"] /\ bl_at' = [bl_at EXCEPT ![c] = "read"]
        /\ UNCHANGED <<bl_backlog, bl_serving, bl_n, bl_alive>>
        /\ UNCHANGED <<bl_line, bl_down, bl_total, bl_lats, bl_runs>>
    BY <1>2 DEF Load!BlkWrite, Load!Bench
  <2>2. BlkTypes'
    BY <1>0, <2>1, LoadAssumption DEF BlkTypes
  <2>3. (Queued(c)' <=> Queued(c)) /\ Underway(c)' = Underway(c)
    BY <2>1 DEF Queued, Underway
  <2>4. bl_at'[c] = "read" /\ bl_up'[c] = MsgLen /\ bl_sent'[c] = MsgLen
    BY <1>0, <2>1 DEF BlkTypes
  <2>5. Connected(c)'
    BY <1>0, <2>1, <2>3, <2>4 DEF Connected
  <2>6. bl_total[c] = 0 /\ bl_down[c] = 0 /\ Underway(c) = 0
    <3>1. bl_total[c] \in Nat /\ bl_down[c] \in Nat /\ Underway(c) \in Nat /\ bl_up[c] \in Nat
      BY <1>0 DEF BlkTypes, Underway
    <3>2. bl_total[c] + bl_down[c] + Underway(c) + bl_up[c] <= 0
      BY <1>0, <2>1 DEF NoneLost, Bytes4, Connected
    <3> DEFINE x == Underway(c)
    <3> HIDE DEF x
    <3>3. x \in Nat /\ bl_total[c] + bl_down[c] + x + bl_up[c] <= 0
      BY <3>1, <3>2 DEF x
    <3>4. bl_total[c] = 0 /\ bl_down[c] = 0 /\ x = 0
      BY <3>1, <3>3
    <3> QED BY <3>4 DEF x
  <2>7. NoneLost(c)'
    BY <2>1, <2>3, <2>4, <2>6, LoadAssumption DEF NoneLost, Bytes4
  <2>8. \A o \in Callers \ {c} : bl_at'[o] = bl_at[o] /\ bl_up'[o] = bl_up[o] /\ bl_fin'[o] = bl_fin[o] /\ bl_sent'[o] = bl_sent[o]
    BY <1>0, <2>1 DEF BlkTypes
  <2> QED BY <2>1, <2>2, <2>5, <2>7, <2>8, CallerOne
<1>3. CASE Load!BlkRead(c)
  <2>1. PICK k \in 1..MsgLen :
        /\ bl_at[c] = "read" /\ k <= bl_down[c]
        /\ bl_down' = [bl_down EXCEPT ![c] = @ - k] /\ bl_total' = [bl_total EXCEPT ![c] = @ + k]
        /\ bl_at' = [bl_at EXCEPT ![c] = IF c = "client" THEN "close" ELSE "read"]
        /\ UNCHANGED <<bl_backlog, bl_serving, bl_n, bl_alive>>
        /\ UNCHANGED <<bl_line, bl_up, bl_fin, bl_sent, bl_lats, bl_runs>>
    BY <1>3 DEF Load!BlkRead, Load!Client
  <2>2. /\ k \in Nat /\ k >= 1 /\ bl_down[c] \in Nat /\ bl_total[c] \in Nat /\ bl_down[c] - k \in Nat
        /\ bl_down'[c] = bl_down[c] - k /\ bl_total'[c] = bl_total[c] + k
        /\ bl_at'[c] = IF c = "client" THEN "close" ELSE "read"
    BY <1>0, <2>1, LoadAssumption DEF BlkTypes
  <2>3. BlkTypes'
    BY <1>0, <2>1, <2>2 DEF BlkTypes
  <2>4. (Queued(c)' <=> Queued(c)) /\ Underway(c)' = Underway(c)
    BY <2>1 DEF Queued, Underway
  <2>5. Connected(c)'
    <3>1. ~Queued(c) /\ bl_line[c] \in {"up", "closed", "reset"}
      BY <1>0, <2>1, <2>2 DEF Connected
    <3>2. bl_line[c] /= "reset"
      BY <1>0, <2>1, <2>2 DEF Connected
    <3> QED BY <1>0, <2>1, <2>2, <2>4, <3>1, <3>2 DEF Connected
  <2>6. NoneLost(c)'
    <3>1. Underway(c) \in Nat /\ bl_up[c] \in Nat /\ bl_sent[c] \in Nat
      BY <1>0 DEF BlkTypes, Underway
    <3> DEFINE x == Underway(c)
    <3> HIDE DEF x
    <3>2. (bl_total[c] + k) + (bl_down[c] - k) + x + bl_up[c] = bl_total[c] + bl_down[c] + x + bl_up[c]
      BY <2>2, <3>1 DEF x
    <3>3. Bytes4(c)' = Bytes4(c)
      BY <2>1, <2>2, <2>4, <3>2 DEF Bytes4, x
    <3> QED BY <1>0, <2>1, <3>3 DEF NoneLost
  <2>7. \A o \in Callers \ {c} : bl_at'[o] = bl_at[o] /\ bl_down'[o] = bl_down[o] /\ bl_total'[o] = bl_total[o]
    BY <1>0, <2>1 DEF BlkTypes
  <2> QED BY <2>1, <2>3, <2>5, <2>6, <2>7, CallerOne
<1>4. CASE Load!ReadEnds(c)
  <2>1. /\ bl_at[c] = "read" /\ bl_line[c] = "closed" /\ bl_down[c] = 0
        /\ bl_at' = [bl_at EXCEPT ![c] = "close"]
        /\ UNCHANGED <<bl_backlog, bl_serving, bl_n, bl_alive>>
        /\ UNCHANGED <<bl_line, bl_up, bl_down, bl_fin, bl_total, bl_sent, bl_lats, bl_runs>>
    BY <1>4 DEF Load!ReadEnds
  <2>2. BlkTypes' /\ bl_at'[c] = "close" /\ \A o \in Callers \ {c} : bl_at'[o] = bl_at[o]
    BY <1>0, <2>1 DEF BlkTypes
  <2>3. (Queued(c)' <=> Queued(c)) /\ Underway(c)' = Underway(c)
    BY <2>1 DEF Queued, Underway
  <2>4. Connected(c)'
    BY <1>0, <2>1, <2>2, <2>3 DEF Connected
  <2>5. NoneLost(c)'
    BY <1>0, <2>1, <2>3 DEF NoneLost, Bytes4
  <2> QED BY <2>1, <2>2, <2>4, <2>5, CallerOne
<1>5. CASE Load!Fails(c)
  <2>1. /\ bl_at[c] \in {"write", "read"} /\ bl_line[c] = "reset"
        /\ bl_line' = [bl_line EXCEPT ![c] = "none"] /\ Load!Over(c)
        /\ UNCHANGED <<bl_backlog, bl_serving, bl_n, bl_alive>>
        /\ UNCHANGED <<bl_up, bl_down, bl_fin, bl_total, bl_sent, bl_lats>>
    BY <1>5 DEF Load!Fails
  <2>2. BlkTypes' /\ bl_line'[c] = "none" /\ \A o \in Callers \ {c} : bl_line'[o] = bl_line[o]
    BY <1>0, <2>1, OverSteps DEF BlkTypes
  <2>3. (Queued(c)' <=> Queued(c)) /\ Underway(c)' = Underway(c)
    BY <2>1 DEF Queued, Underway
  <2>4. Connected(c)'
    BY <1>0, <2>1, <2>2, <2>3, OverSteps DEF Connected
  <2>5. NoneLost(c)'
    BY <1>0, <2>1, <2>2, <2>3 DEF NoneLost, Bytes4
  <2> QED BY <1>0, <2>1, <2>2, <2>4, <2>5, OverSteps, CallerOne
<1>6. CASE Load!Close(c)
  <2>1. /\ bl_at[c] = "close" /\ Load!Over(c)
        /\ bl_line' = [bl_line EXCEPT ![c] = IF @ = "closed" THEN "none" ELSE IF bl_down[c] > 0 THEN "gone" ELSE "left"]
        /\ bl_lats' = IF c = "bench" THEN Append(bl_lats, bl_total[c]) ELSE bl_lats
        /\ UNCHANGED <<bl_backlog, bl_serving, bl_n, bl_alive>>
        /\ UNCHANGED <<bl_up, bl_down, bl_fin, bl_total, bl_sent>>
    BY <1>6 DEF Load!Close, Load!Bench
  <2>2. bl_line'[c] = (IF bl_line[c] = "closed" THEN "none" ELSE IF bl_down[c] > 0 THEN "gone" ELSE "left")
    BY <1>0, <2>1 DEF BlkTypes
  <2>3. (Queued(c)' <=> Queued(c)) /\ Underway(c)' = Underway(c) /\ ~Queued(c)
    BY <1>0, <2>1 DEF Queued, Underway, Connected
  <2>4. c = "bench" => bl_total[c] = MsgLen /\ bl_line[c] = "closed"
    <3> SUFFICES ASSUME c = "bench" PROVE bl_total[c] = MsgLen /\ bl_line[c] = "closed"
      OBVIOUS
    <3>1. bl_line[c] = "closed" /\ bl_down[c] = 0 /\ bl_up[c] = 0 /\ bl_sent[c] = MsgLen /\ bl_serving /= c
      BY <1>0, <2>1 DEF Connected
    <3>2. Bytes4(c) = bl_sent[c] /\ Underway(c) = 0
      BY <1>0, <3>1 DEF NoneLost, Underway
    <3>3. bl_total[c] \in Nat
      BY <1>0 DEF BlkTypes
    <3> QED BY <3>1, <3>2, <3>3 DEF Bytes4
  <2>5. BlkTypes' /\ \A o \in Callers \ {c} : bl_line'[o] = bl_line[o]
    <3>1. bl_lats' \in Seq({MsgLen})
      BY <1>0, <2>1, <2>4 DEF BlkTypes
    <3> QED BY <1>0, <2>1, <3>1, OverSteps DEF BlkTypes
  <2>6. Connected(c)'
    BY <1>0, <2>1, <2>2, <2>3, <2>4, OverSteps DEF Connected
  <2>7. NoneLost(c)'
    BY <1>0, <2>1, <2>2, <2>3, <2>4 DEF NoneLost, Bytes4
  <2> QED BY <1>0, <2>1, <2>5, <2>6, <2>7, OverSteps, CallerOne
<1> QED BY <1>1, <1>2, <1>3, <1>4, <1>5, <1>6

\* The server's steps: at the caller it serves, or takes to serve.
LEMMA AcceptStep == ASSUME BlkInv, Load!Accept PROVE BlkInv'
<1> USE DEF Load!Accept, Load!None
<1>1. /\ bl_backlog \in Seq(Callers) /\ bl_backlog /= <<>> /\ bl_serving = "none" /\ bl_n = 0
      /\ bl_serving' = Head(bl_backlog) /\ bl_backlog' = Tail(bl_backlog) /\ bl_alive' = bl_alive /\ bl_alive
      /\ bl_n' = bl_n
  BY DEF BlkInv, BlkTypes, OneAtATime
<1>2. /\ Len(bl_backlog) \in Nat /\ Len(bl_backlog) >= 1 /\ DOMAIN bl_backlog = 1..Len(bl_backlog)
      /\ bl_backlog' \in Seq(Callers) /\ DOMAIN bl_backlog' = 1..(Len(bl_backlog) - 1)
      /\ \A i \in 1..(Len(bl_backlog) - 1) : bl_backlog'[i] = bl_backlog[i + 1]
      /\ bl_serving' = bl_backlog[1] /\ bl_serving' \in Callers
  BY <1>1
<1>3. \A o : Queued(o)' => Queued(o)
  BY <1>2 DEF Queued
<1>4. OneAtATime' /\ Queued(bl_serving')
  <2>0. \A i \in 1..(Len(bl_backlog) - 1) : i \in Int /\ i + 1 \in 1..Len(bl_backlog) /\ i + 1 /= 1
    BY <1>2
  <2>1. \A i, j \in DOMAIN bl_backlog' : bl_backlog'[i] = bl_backlog'[j] => i = j
    <3> SUFFICES ASSUME NEW i \in 1..(Len(bl_backlog) - 1), NEW j \in 1..(Len(bl_backlog) - 1), bl_backlog'[i] = bl_backlog'[j]
                 PROVE  i = j
      BY <1>2
    <3>1. i + 1 = j + 1
      BY <1>2, <2>0 DEF BlkInv, OneAtATime
    <3> QED BY <2>0, <3>1
  <2>2. ~Queued(bl_serving)'
    <3> SUFFICES ASSUME NEW i \in DOMAIN bl_backlog', bl_backlog'[i] = bl_serving' PROVE FALSE
      BY DEF Queued
    <3>1. i \in 1..(Len(bl_backlog) - 1) /\ bl_backlog[i + 1] = bl_backlog[1] /\ 1 \in 1..Len(bl_backlog)
      BY <1>2
    <3> QED BY <1>2, <2>0, <3>1 DEF BlkInv, OneAtATime
  <2>3. Queued(bl_serving')
    <3>1. 1 \in DOMAIN bl_backlog /\ bl_backlog[1] = bl_serving'
      BY <1>2
    <3> QED BY <3>1 DEF Queued
  <2>4. bl_serving' /= "none"
    BY <1>2 DEF Callers
  <2> QED BY <1>1, <2>1, <2>2, <2>3, <2>4 DEF OneAtATime
<1>5. BlkTypes'
  BY <1>1, <1>2 DEF BlkInv, BlkTypes
<1>6. ASSUME NEW c \in Callers PROVE Connected(c)' /\ NoneLost(c)'
  <2>1. Connected(c)'
    BY <1>1, <1>3, <1>4 DEF BlkInv, Connected
  <2>2. Underway(c)' = Underway(c)
    BY <1>1 DEF Underway
  <2>3. NoneLost(c)'
    BY <2>2 DEF BlkInv, NoneLost, Bytes4
  <2> QED BY <2>1, <2>3
<1> QED BY <1>4, <1>5, <1>6 DEF BlkInv

\* Between two calls of accept the queue stays, and the caller that is not served.
LEMMA ServedOne ==
  ASSUME BlkInv, NEW c \in Callers, bl_serving = c, bl_backlog' = bl_backlog, bl_alive, bl_alive' = bl_alive,
         BlkTypes', bl_serving' \in {c, "none"}, bl_serving' = "none" => bl_n' = 0,
         Connected(c)', NoneLost(c)', bl_at' = bl_at, bl_fin' = bl_fin, bl_total' = bl_total, bl_sent' = bl_sent,
         \A o \in Callers \ {c} : bl_line'[o] = bl_line[o] /\ bl_up'[o] = bl_up[o] /\ bl_down'[o] = bl_down[o]
  PROVE  BlkInv'
<1>1. \A o : Queued(o)' <=> Queued(o)
  BY DEF Queued
<1>2. ~Queued("none")
  <2>1. \A k \in DOMAIN bl_backlog : bl_backlog[k] \in Callers
    BY DEF BlkInv, BlkTypes
  <2> QED BY <2>1 DEF Queued, Callers
<1>3. OneAtATime'
  BY <1>1, <1>2 DEF BlkInv, OneAtATime
<1>4. ASSUME NEW o \in Callers, o /= c PROVE Connected(o)' /\ NoneLost(o)'
  <2>1. bl_serving' /= o /\ bl_serving /= o
    BY <1>4 DEF Callers
  <2>2. Connected(o)'
    BY <1>1, <1>4, <2>1 DEF BlkInv, Connected
  <2>3. Underway(o)' = Underway(o)
    BY <2>1 DEF Underway
  <2>4. NoneLost(o)'
    BY <1>4, <2>3 DEF BlkInv, NoneLost, Bytes4
  <2> QED BY <2>2, <2>4
<1> QED BY <1>3, <1>4 DEF BlkInv

LEMMA ServerSteps ==
  ASSUME BlkInv, Load!ServerReads \/ Load!ServerWrites \/ Load!ServerCloses
  PROVE  BlkInv'
<1>0. PICK c \in Callers :
      /\ c = bl_serving /\ bl_alive /\ BlkTypes /\ Connected(c) /\ NoneLost(c) /\ ~Queued(c) /\ Underway(c) = bl_n
      /\ bl_n \in Nat /\ bl_up[c] \in Nat /\ bl_down[c] \in Nat /\ bl_total[c] \in Nat /\ bl_sent[c] \in Nat
  BY DEF Load!ServerReads, Load!ServerWrites, Load!ServerCloses, Load!None, BlkInv, BlkTypes, OneAtATime, Underway
<1>1. CASE Load!ServerReads
  <2>1. PICK k \in 1..MsgLen :
        /\ bl_n = 0 /\ k <= bl_up[c] /\ bl_n' = k /\ bl_up' = [bl_up EXCEPT ![c] = @ - k]
        /\ UNCHANGED <<bl_backlog, bl_serving, bl_alive, bl_at, bl_line, bl_down, bl_fin, bl_total, bl_sent, bl_lats, bl_runs>>
    BY <1>0, <1>1 DEF Load!ServerReads
  <2>2. /\ k \in Nat /\ k >= 1 /\ bl_up[c] - k \in Nat /\ bl_up'[c] = bl_up[c] - k
        /\ \A o \in Callers \ {c} : bl_up'[o] = bl_up[o]
    BY <1>0, <2>1, LoadAssumption DEF BlkTypes
  <2>3. BlkTypes'
    BY <1>0, <2>1, <2>2 DEF BlkTypes
  <2>4. Underway(c)' = k /\ (Queued(c)' <=> Queued(c))
    BY <1>0, <2>1 DEF Underway, Queued
  <2>5. Bytes4(c)' = Bytes4(c)
    <3>1. bl_total[c] + bl_down[c] + k + (bl_up[c] - k) = bl_total[c] + bl_down[c] + 0 + bl_up[c]
      BY <1>0, <2>2
    <3> QED BY <1>0, <2>1, <2>2, <2>4, <3>1 DEF Bytes4
  <2>6. Connected(c)' /\ NoneLost(c)'
    BY <1>0, <2>1, <2>2, <2>4, <2>5 DEF Connected, NoneLost
  <2>7. bl_serving' = c /\ bl_serving' /= "none" /\ \A o \in Callers \ {c} : bl_line'[o] = bl_line[o] /\ bl_down'[o] = bl_down[o]
    BY <1>0, <2>1 DEF Callers
  <2> QED BY <1>0, <2>1, <2>2, <2>3, <2>6, <2>7, ServedOne
<1>2. CASE Load!ServerWrites
  <2>1. /\ bl_n > 0 /\ bl_n' = 0
        /\ bl_down' = [bl_down EXCEPT ![c] = IF bl_line[c] = "up" THEN @ + bl_n ELSE @]
        /\ bl_line' = [bl_line EXCEPT ![c] = IF @ = "left" THEN "gone" ELSE @]
        /\ UNCHANGED <<bl_backlog, bl_serving, bl_alive, bl_at, bl_up, bl_fin, bl_total, bl_sent, bl_lats, bl_runs>>
    BY <1>0, <1>2 DEF Load!ServerWrites
  <2>2. /\ bl_down'[c] = (IF bl_line[c] = "up" THEN bl_down[c] + bl_n ELSE bl_down[c])
        /\ bl_line'[c] = IF bl_line[c] = "left" THEN "gone" ELSE bl_line[c]
        /\ \A o \in Callers \ {c} : bl_down'[o] = bl_down[o] /\ bl_line'[o] = bl_line[o]
    BY <1>0, <2>1 DEF BlkTypes
  <2>3. BlkTypes'
    BY <1>0, <2>1, <2>2 DEF BlkTypes
  <2>4. Underway(c)' = 0 /\ (Queued(c)' <=> Queued(c))
    BY <2>1 DEF Underway, Queued
  <2>5. Connected(c)'
    BY <1>0, <2>1, <2>2, <2>4 DEF Connected
  <2>6. NoneLost(c)'
    <3>1. bl_total[c] + (bl_down[c] + bl_n) + 0 + bl_up[c] = bl_total[c] + bl_down[c] + bl_n + bl_up[c]
      BY <1>0
    <3>2. bl_total[c] + bl_down[c] + 0 + bl_up[c] <= bl_total[c] + bl_down[c] + bl_n + bl_up[c]
      BY <1>0
    <3>3. CASE bl_line[c] = "up"
      BY <1>0, <2>1, <2>2, <2>4, <3>1, <3>3 DEF NoneLost, Bytes4
    <3>4. CASE bl_line[c] /= "up"
      <4>1. bl_line'[c] \in {"left", "gone"}
        BY <1>0, <2>2, <3>4 DEF Connected
      <4>2. Bytes4(c)' = bl_total[c] + bl_down[c] + 0 + bl_up[c] /\ Bytes4(c) = bl_total[c] + bl_down[c] + bl_n + bl_up[c]
        BY <1>0, <2>1, <2>2, <2>4, <3>4 DEF Bytes4
      <4>3. Bytes4(c)' <= bl_sent[c]
        <5>1. Bytes4(c) <= bl_sent[c] /\ Bytes4(c) \in Nat /\ Bytes4(c)' \in Nat
          BY <1>0, <4>2 DEF NoneLost
        <5> DEFINE x == Bytes4(c)
                   y == Bytes4(c)'
        <5>2. x \in Nat /\ y \in Nat /\ y <= x /\ x <= bl_sent[c]
          BY <3>2, <4>2, <5>1
        <5> HIDE DEF x, y
        <5>3. y <= bl_sent[c]
          BY <1>0, <5>2
        <5> QED BY <5>3 DEF y
      <4> QED BY <2>1, <4>1, <4>3 DEF NoneLost
    <3> QED BY <3>3, <3>4
  <2> QED BY <1>0, <2>1, <2>2, <2>3, <2>5, <2>6, ServedOne
<1>3. CASE Load!ServerCloses
  <2>1. /\ bl_n = 0
        /\ bl_line[c] = "gone" \/ (bl_up[c] = 0 /\ (bl_fin[c] \/ bl_line[c] = "left"))
        /\ bl_line' = [bl_line EXCEPT ![c] = IF @ = "up" THEN "closed" ELSE "none"] /\ bl_serving' = "none"
        /\ UNCHANGED <<bl_backlog, bl_n, bl_alive, bl_at, bl_up, bl_down, bl_fin, bl_total, bl_sent, bl_lats, bl_runs>>
    BY <1>0, <1>3 DEF Load!ServerCloses, Load!None
  <2>2. /\ bl_line'[c] = (IF bl_line[c] = "up" THEN "closed" ELSE "none")
        /\ \A o \in Callers \ {c} : bl_line'[o] = bl_line[o]
    BY <1>0, <2>1 DEF BlkTypes
  <2>3. BlkTypes'
    BY <1>0, <2>1, <2>2 DEF BlkTypes
  <2>4. Underway(c)' = Underway(c) /\ (Queued(c)' <=> Queued(c)) /\ bl_serving' /= c /\ Underway(c) = 0
    BY <1>0, <2>1 DEF Underway, Queued, Callers
  <2>5. Connected(c)'
    BY <1>0, <2>1, <2>2, <2>4 DEF Connected
  <2>6. NoneLost(c)'
    BY <1>0, <2>1, <2>2, <2>4 DEF NoneLost, Bytes4
  <2>7. \A o \in Callers \ {c} : bl_up'[o] = bl_up[o] /\ bl_down'[o] = bl_down[o]
    BY <2>1
  <2> QED BY <1>0, <2>1, <2>2, <2>3, <2>5, <2>6, <2>7, ServedOne
<1> QED BY <1>1, <1>2, <1>3

LEMMA KilledStep == ASSUME BlkInv, Load!Killed PROVE BlkInv'
<1>1. /\ bl_line[bl_serving] = "gone" /\ bl_alive' = FALSE /\ bl_serving' = "none" /\ bl_backlog' = <<>> /\ bl_n' = 0
      /\ bl_line' = [c \in Callers |-> IF Queued(c) THEN "reset" ELSE IF c = bl_serving THEN "none" ELSE bl_line[c]]
      /\ UNCHANGED <<bl_at, bl_up, bl_down, bl_fin, bl_total, bl_sent, bl_lats, bl_runs>>
  BY DEF Load!Killed, Load!None, Load!Callers, Load!Bench, Load!Client, Callers, Queued
<1>2. BlkTypes'
  <2>1. bl_line' \in [Callers -> {"none", "up", "closed", "reset", "gone", "left"}]
    BY <1>1 DEF BlkInv, BlkTypes
  <2>2. bl_backlog' \in Seq(Callers)
    BY <1>1
  <2> QED BY <1>1, <2>1, <2>2 DEF BlkInv, BlkTypes
<1>3. OneAtATime' /\ \A c : ~Queued(c)'
  BY <1>1 DEF OneAtATime, Queued
<1>4. ASSUME NEW c \in Callers PROVE Connected(c)' /\ NoneLost(c)'
  <2>0. Connected(c) /\ NoneLost(c) /\ BlkTypes
    BY DEF BlkInv
  <2>1. bl_line'[c] = (IF Queued(c) THEN "reset" ELSE IF c = bl_serving THEN "none" ELSE bl_line[c]) /\ bl_serving' /= c
    BY <1>1 DEF Callers
  <2>2. Connected(c)'
    BY <1>1, <1>3, <2>0, <2>1 DEF Connected
  <2>3. NoneLost(c)'
    <3>1. Underway(c)' = 0
      BY <1>1 DEF Underway
    <3>2. Underway(c) \in Nat /\ bl_total[c] \in Nat /\ bl_down[c] \in Nat /\ bl_up[c] \in Nat /\ bl_sent[c] \in Nat
      BY <2>0 DEF BlkTypes, Underway
    <3>3. c = "bench" /\ bl_line'[c] \in {"up", "closed"} => bl_line'[c] = bl_line[c] /\ c /= bl_serving
      BY <2>1
    <3> DEFINE x == Underway(c)
    <3> HIDE DEF x
    <3>4. bl_total[c] + bl_down[c] + x + bl_up[c] <= bl_sent[c] => bl_total[c] + bl_down[c] + 0 + bl_up[c] <= bl_sent[c]
      BY <3>2 DEF x
    <3>5. bl_total[c] + bl_down[c] + 0 + bl_up[c] <= bl_sent[c]
      BY <2>0, <3>4 DEF NoneLost, Bytes4, x
    <3>6. Bytes4(c)' = bl_total[c] + bl_down[c] + 0 + bl_up[c]
      BY <1>1, <3>1 DEF Bytes4
    <3>7. c /= bl_serving => Underway(c) = 0
      BY DEF Underway
    <3> QED BY <1>1, <2>0, <3>3, <3>5, <3>6, <3>7 DEF NoneLost, Bytes4
  <2> QED BY <2>2, <2>3
<1> QED BY <1>2, <1>3, <1>4 DEF BlkInv

LEMMA BlkSteps == ASSUME BlkInv, [Load!BlkNext]_(Load!blk_vars) PROVE BlkInv'
<1>1. CASE UNCHANGED Load!blk_vars
  <2>1. UNCHANGED <<bl_backlog, bl_serving, bl_n, bl_alive, bl_at, bl_line, bl_up, bl_down, bl_fin, bl_total, bl_sent, bl_lats, bl_runs>>
    BY <1>1 DEF Load!blk_vars, Load!server
  <2>2. OneAtATime' /\ \A c : (Queued(c)' <=> Queued(c)) /\ Underway(c)' = Underway(c)
    BY <2>1, SameServer DEF BlkInv
  <2> QED BY <2>1, <2>2 DEF BlkInv, BlkTypes, Connected, NoneLost, Bytes4
<1>2. CASE Load!BlkServer
  BY <1>2, AcceptStep, ServerSteps, KilledStep DEF Load!BlkServer
<1>3. ASSUME NEW c \in Callers, Load!Caller(c) PROVE BlkInv'
  BY <1>3, ConnectStep, CallerSteps DEF Load!Caller
<1> QED BY <1>1, <1>2, <1>3 DEF Load!BlkNext, Load!Callers, Load!Bench, Load!Client, Callers

LEMMA BlkMeans == BlkInv => Load!CountedIsWhole /\ Load!OwnBytes
<1> SUFFICES ASSUME BlkInv PROVE Load!CountedIsWhole /\ Load!OwnBytes
  OBVIOUS
<1>1. Load!CountedIsWhole
  BY DEF BlkInv, BlkTypes, Load!CountedIsWhole
<1>2. Load!OwnBytes
  BY DEF BlkInv, NoneLost, Bytes4, Underway, Load!OwnBytes, Load!Callers, Load!Bench, Load!Client, Callers
<1> QED BY <1>1, <1>2

\* LoadGenerators: a request that echo-bench.c counts had its whole message come back,
\* and a caller gets nothing but a beginning of what it sent, for messages of any
\* length, any number of requests, and wherever the other caller leaves.
THEOREM BlockingCounts == Load!BlkSpec => [](Load!CountedIsWhole /\ Load!OwnBytes)
<1>1. BlkInv /\ [Load!BlkNext]_(Load!blk_vars) => BlkInv'
  BY BlkSteps
<1> QED BY BlkBegins, <1>1, BlkMeans, PTL DEF Load!BlkSpec

------------------------------------------------------------------------------
(* PerfLabs: the threads that count what they do.                          *)

LEMMA LabCounted == ASSUME NEW S PROVE Lab!Cardinality(S) = Cardinality(S)
  BY DEF Lab!Cardinality, Cardinality

AllDone == Sum(td_did, LabThreads)

ThrTypes ==
  /\ td_demo \in {"contention", "mt_io", "compete", "io"} /\ td_ops \in Nat
  /\ td_holder \in LabThreads \cup {"none"}
  /\ td_at \in [LabThreads -> {"look", "lock", "work", "store", "unlock", "end"}]
  /\ td_reg \in [LabThreads -> Nat] /\ td_did \in [LabThreads -> Nat]
  /\ td_joined \subseteq LabThreads

\* The lock has one holder, at work or about to let it go; of the plain int a thread
\* has read no more than all have done.
OneHolder ==
  /\ Lab!Locks => \A t \in LabThreads : td_at[t] \in {"work", "unlock"} <=> td_holder = t
  /\ ~Lab!Locks => td_holder = "none"
  /\ \A t \in td_joined : td_at[t] = "end"
  /\ td_destroyed => td_joined = LabThreads
  /\ \A t \in LabThreads : td_at[t] \in {"lock", "unlock"} => Lab!Locks
NoneMissed ==
  /\ IF td_demo = "io" THEN td_ops <= AllDone ELSE td_ops = AllDone
  /\ \A t \in LabThreads : td_at[t] = "store" => td_demo = "io" /\ td_reg[t] <= AllDone

ThrInv == ThrTypes /\ OneHolder /\ NoneMissed

LEMMA DoneNatural == ASSUME ThrTypes PROVE Ints(td_did, LabThreads) /\ AllDone \in Nat
<1>1. IsFiniteSet(LabThreads) /\ \A t \in LabThreads : td_did[t] \in Nat
  BY LabAssumption DEF ThrTypes
<1> QED BY <1>1, SumNatural DEF AllDone, Ints

LEMMA DoneSum == ASSUME ThrTypes PROVE Lab!Done = AllDone
<1> DEFINE A(t) == t = [s \in SUBSET LabThreads |->
                          IF s = {} THEN 0 ELSE td_did[CHOOSE x \in s : TRUE] + t[s \ {CHOOSE x \in s : TRUE}]]
           F == CHOOSE t : A(t)
<1>1. Ints(td_did, LabThreads)
  BY DoneNatural
<1>2. \A t : A(t) <=> Adds(td_did, LabThreads, t)
  BY DEF Adds, Picked
<1>3. A(F)
  <2>1. \E t : A(t)
    <3>1. \E t \in [SUBSET LabThreads -> Int] : Adds(td_did, LabThreads, t)
      BY ONLY <1>1, SumsExist
    <3> HIDE DEF A
    <3> QED BY <1>2, <3>1
  <2> HIDE DEF A
  <2> QED BY <2>1
<1>4. Lab!Done = F[LabThreads]
  BY DEF Lab!Done, Lab!MapThenSumSet, Lab!MapThenFoldSet
<1> HIDE DEF A, F
<1>5. \A x \in LabThreads : td_did[x] = td_did[x]
  OBVIOUS
<1>6. Adds(td_did, LabThreads, F)
  BY <1>2, <1>3
<1>7. F[LabThreads] = AllDone
  BY ONLY <1>1, <1>5, <1>6, SumIs DEF AllDone
<1> QED BY <1>4, <1>7

LEMMA ThrBegins == Lab!ThrInit => ThrInv
<1> SUFFICES ASSUME Lab!ThrInit PROVE ThrInv
  OBVIOUS
<1> USE DEF Lab!ThrInit, Lab!None
<1>1. ThrTypes
  BY DEF ThrTypes, Lab!Demos
<1>2. AllDone = 0
  <2>1. IsFiniteSet(LabThreads) /\ 0 \in Int /\ \A t \in LabThreads : td_did[t] = 0
    BY LabAssumption
  <2>2. AllDone = 0 * Cardinality(LabThreads)
    BY ONLY <2>1, SumConstant DEF AllDone
  <2>3. Cardinality(LabThreads) \in Nat
    BY <2>1, FS_CardinalityType
  <2> QED BY <2>2, <2>3
<1>3. NoneMissed
  BY <1>2 DEF NoneMissed
<1>4. OneHolder
  BY LabAssumption DEF OneHolder, Lab!Locks
<1> QED BY <1>1, <1>3, <1>4 DEF ThrInv

\* An operation of t is one more that is done.
LEMMA OneMoreDone ==
  ASSUME ThrTypes, NEW t \in LabThreads, Lab!Counted(t)
  PROVE  /\ td_did' \in [LabThreads -> Nat] /\ AllDone' = AllDone + 1
         /\ td_at' = [td_at EXCEPT ![t] = IF Lab!Locks THEN "unlock" ELSE "look"]
<1>1. td_did' = [td_did EXCEPT ![t] = @ + 1] /\ td_at' = [td_at EXCEPT ![t] = IF Lab!Locks THEN "unlock" ELSE "look"]
  BY DEF Lab!Counted
<1>2. td_did[t] \in Nat /\ td_did'[t] = td_did[t] + 1 /\ \A x \in LabThreads \ {t} : td_did'[x] = td_did[x]
  BY <1>1 DEF ThrTypes
<1>3. Ints(td_did, LabThreads) /\ td_did'[t] \in Int /\ AllDone \in Nat
  BY <1>2, DoneNatural
<1>4. AllDone' = AllDone - td_did[t] + td_did'[t]
  BY ONLY <1>2, <1>3, t \in LabThreads, SumChanges DEF AllDone
<1>5. AllDone' = AllDone + 1
  BY <1>2, <1>3, <1>4
<1>6. td_did' \in [LabThreads -> Nat]
  BY <1>1, <1>2 DEF ThrTypes
<1> QED BY <1>1, <1>5, <1>6

LEMMA CountStep == ASSUME ThrInv, NEW t \in LabThreads, Lab!Thread(t) PROVE ThrInv'
<1>0. t /= "none" /\ ThrTypes /\ AllDone \in Nat
  BY LabAssumption, DoneNatural DEF ThrInv
<1>1. ASSUME Lab!Look(t) \/ Lab!Lock(t) \/ Lab!Load(t) \/ Lab!Unlock(t) PROVE ThrInv'
  <2>1. td_did' = td_did /\ td_ops' = td_ops /\ td_demo' = td_demo /\ td_joined' = td_joined /\ td_destroyed' = td_destroyed
    BY <1>1 DEF Lab!Look, Lab!Lock, Lab!Load, Lab!Unlock
  <2>2. AllDone' = AllDone /\ (Lab!Locks' <=> Lab!Locks)
    BY <2>1 DEF AllDone, Lab!Locks
  <2>3. CASE Lab!Look(t)
    <3>1. /\ td_at[t] = "look" /\ td_reg' = td_reg /\ td_holder' = td_holder
          /\ td_at' = [td_at EXCEPT ![t] = IF td_stop THEN "end" ELSE IF Lab!Locks THEN "lock" ELSE "work"]
      BY <2>3 DEF Lab!Look
    <3>2. ThrTypes' /\ td_at'[t] \in {"end", "lock", "work"} /\ \A x \in LabThreads \ {t} : td_at'[x] = td_at[x]
      BY <1>0, <2>1, <3>1 DEF ThrTypes
    <3>3. OneHolder'
      BY <1>0, <2>1, <2>2, <3>1, <3>2 DEF OneHolder, ThrInv, ThrTypes
    <3>4. NoneMissed'
      BY <2>1, <2>2, <3>1, <3>2 DEF NoneMissed, ThrInv
    <3> QED BY <3>2, <3>3, <3>4 DEF ThrInv
  <2>4. CASE Lab!Lock(t)
    <3>1. /\ td_at[t] = "lock" /\ td_reg' = td_reg /\ td_holder = "none" /\ td_holder' = t
          /\ td_at' = [td_at EXCEPT ![t] = "work"]
      BY <2>4 DEF Lab!Lock, Lab!None
    <3>2. ThrTypes' /\ td_at'[t] = "work" /\ \A x \in LabThreads \ {t} : td_at'[x] = td_at[x]
      BY <1>0, <2>1, <3>1 DEF ThrTypes
    <3>3. OneHolder'
      <4>1. Lab!Locks /\ t \notin td_joined
        BY <3>1 DEF OneHolder, ThrInv
      <4>2. \A x \in LabThreads : td_at[x] \notin {"work", "unlock"}
        BY <1>0, <3>1, <4>1, LabAssumption DEF OneHolder, ThrInv
      <4> QED BY <1>0, <2>1, <2>2, <3>1, <3>2, <4>1, <4>2 DEF OneHolder, ThrInv, ThrTypes
    <3>4. NoneMissed'
      BY <2>1, <2>2, <3>1, <3>2 DEF NoneMissed, ThrInv
    <3> QED BY <3>2, <3>3, <3>4 DEF ThrInv
  <2>5. CASE Lab!Load(t)
    <3>1. /\ td_at[t] = "work" /\ td_demo = "io" /\ td_holder' = td_holder
          /\ td_reg' = [td_reg EXCEPT ![t] = td_ops] /\ td_at' = [td_at EXCEPT ![t] = "store"]
      BY <2>5 DEF Lab!Load
    <3>2. /\ ThrTypes' /\ td_at'[t] = "store" /\ td_reg'[t] = td_ops
          /\ \A x \in LabThreads \ {t} : td_at'[x] = td_at[x] /\ td_reg'[x] = td_reg[x]
      BY <1>0, <2>1, <3>1 DEF ThrTypes
    <3>3. OneHolder'
      <4>1. ~Lab!Locks /\ t \notin td_joined
        BY <3>1 DEF OneHolder, ThrInv, Lab!Locks
      <4> QED BY <1>0, <2>1, <2>2, <3>1, <3>2, <4>1 DEF OneHolder, ThrInv, ThrTypes
    <3>4. NoneMissed'
      BY <2>1, <2>2, <3>1, <3>2 DEF NoneMissed, ThrInv
    <3> QED BY <3>2, <3>3, <3>4 DEF ThrInv
  <2>6. CASE Lab!Unlock(t)
    <3>1. /\ td_at[t] = "unlock" /\ td_reg' = td_reg /\ td_holder' = "none"
          /\ td_at' = [td_at EXCEPT ![t] = IF td_left[t] = 0 THEN "look" ELSE "lock"]
      BY <2>6 DEF Lab!Unlock, Lab!None
    <3>2. ThrTypes' /\ td_at'[t] \in {"look", "lock"} /\ \A x \in LabThreads \ {t} : td_at'[x] = td_at[x]
      BY <1>0, <2>1, <3>1 DEF ThrTypes
    <3>3. OneHolder'
      <4>1. Lab!Locks /\ t \notin td_joined /\ td_holder = t
        BY <3>1 DEF OneHolder, ThrInv
      <4>2. \A x \in LabThreads \ {t} : td_at[x] \notin {"work", "unlock"}
        BY <4>1 DEF OneHolder, ThrInv
      <4>3. \A x \in LabThreads : x /= "none"
        BY LabAssumption
      <4> QED BY <1>0, <2>1, <2>2, <3>1, <3>2, <4>1, <4>2, <4>3 DEF OneHolder, ThrInv, ThrTypes
    <3>4. NoneMissed'
      BY <2>1, <2>2, <3>1, <3>2 DEF NoneMissed, ThrInv
    <3> QED BY <3>2, <3>3, <3>4 DEF ThrInv
  <2> QED BY <1>1, <2>3, <2>4, <2>5, <2>6
<1>2. ASSUME Lab!Add(t) \/ Lab!Store(t) PROVE ThrInv'
  <2>1. /\ Lab!Counted(t) /\ td_demo' = td_demo /\ td_joined' = td_joined /\ td_destroyed' = td_destroyed
        /\ td_holder' = td_holder /\ td_reg' = td_reg
        /\ \/ td_at[t] = "work" /\ td_demo /= "io" /\ td_ops' = td_ops + 1
           \/ td_at[t] = "store" /\ td_ops' = td_reg[t] + 1
    BY <1>2 DEF Lab!Add, Lab!Store
  <2>2. /\ td_did' \in [LabThreads -> Nat] /\ AllDone' = AllDone + 1
        /\ td_at' = [td_at EXCEPT ![t] = IF Lab!Locks THEN "unlock" ELSE "look"]
    BY ONLY <1>0, <2>1, t \in LabThreads, OneMoreDone
  <2>3. /\ ThrTypes' /\ td_at'[t] = (IF Lab!Locks THEN "unlock" ELSE "look") /\ td_reg[t] \in Nat /\ td_ops \in Nat
        /\ \A x \in LabThreads \ {t} : td_at'[x] = td_at[x]
    BY <1>0, <2>1, <2>2 DEF ThrTypes
  <2>4. Lab!Locks' <=> Lab!Locks
    BY <2>1 DEF Lab!Locks
  <2>5. t \notin td_joined /\ (Lab!Locks => td_at[t] = "work")
    BY <2>1 DEF OneHolder, NoneMissed, ThrInv, Lab!Locks
  <2>6. OneHolder'
    BY <2>1, <2>3, <2>4, <2>5 DEF OneHolder, ThrInv, ThrTypes
  <2>7. NoneMissed'
    <3>1. \A x \in LabThreads : td_at'[x] = "store" => td_demo = "io" /\ td_reg[x] <= AllDone + 1
      <4> SUFFICES ASSUME NEW x \in LabThreads, td_at'[x] = "store" PROVE td_demo = "io" /\ td_reg[x] <= AllDone + 1
        OBVIOUS
      <4>1. td_at[x] = "store"
        BY <2>3
      <4>2. td_demo = "io" /\ td_reg[x] <= AllDone /\ td_reg[x] \in Nat
        BY <4>1 DEF NoneMissed, ThrInv, ThrTypes
      <4> QED BY <1>0, <4>2
    <3>2. td_demo /= "io" => td_ops' = AllDone + 1
      BY <2>1 DEF NoneMissed, ThrInv
    <3>3. td_demo = "io" => td_ops' <= AllDone + 1
      BY <1>0, <2>1, <2>3 DEF NoneMissed, ThrInv
    <3> QED BY <2>1, <2>2, <3>1, <3>2, <3>3 DEF NoneMissed
  <2> QED BY <2>3, <2>6, <2>7 DEF ThrInv
<1> QED BY <1>1, <1>2 DEF Lab!Thread

LEMMA ThrSteps == ASSUME ThrInv, [Lab!ThrNext]_(Lab!thr_vars) PROVE ThrInv'
<1>1. CASE UNCHANGED Lab!thr_vars
  BY <1>1 DEF Lab!thr_vars, ThrInv, ThrTypes, OneHolder, NoneMissed, AllDone, Lab!Locks
<1>2. CASE Lab!Main
  <2>1. UNCHANGED <<td_demo, td_ops, td_holder, td_at, td_reg, td_did>>
    BY <1>2 DEF Lab!Main, Lab!Stop, Lab!Join, Lab!Destroy
  <2>2. /\ td_joined' \subseteq LabThreads /\ \A t \in td_joined' : td_at[t] = "end"
        /\ td_destroyed' => td_joined' = LabThreads
    BY <1>2 DEF Lab!Main, Lab!Stop, Lab!Join, Lab!Destroy, ThrInv, ThrTypes, OneHolder
  <2> QED BY <2>1, <2>2 DEF ThrInv, ThrTypes, OneHolder, NoneMissed, AllDone, Lab!Locks
<1> QED BY <1>1, <1>2, CountStep DEF Lab!ThrNext

LEMMA ThrMeans == ThrInv => Lab!CountedRight
<1> SUFFICES ASSUME ThrInv PROVE Lab!CountedRight
  OBVIOUS
<1>1. td_joined = LabThreads => IF td_demo = "io" THEN td_ops <= Lab!Done ELSE td_ops = Lab!Done
  BY DoneSum DEF ThrInv, NoneMissed
<1>2. td_destroyed => td_holder = "none"
  BY DEF ThrInv, ThrTypes, OneHolder
<1>3. ASSUME Lab!Locks PROVE Lab!Cardinality({t \in LabThreads : td_at[t] \in {"work", "unlock"}}) <= 1
  <2> DEFINE W == {t \in LabThreads : td_at[t] \in {"work", "unlock"}}
  <2>1. W \subseteq {td_holder}
    BY <1>3 DEF ThrInv, OneHolder
  <2>2. IsFiniteSet({td_holder}) /\ Cardinality({td_holder}) = 1
    BY FS_Singleton
  <2> HIDE DEF W
  <2>3. Cardinality(W) <= 1
    BY ONLY <2>1, <2>2, FS_Subset
  <2> QED BY <2>3, LabCounted DEF W
<1> QED BY <1>1, <1>2, <1>3 DEF Lab!CountedRight, Lab!None

\* PerfLabs: what main prints after it has joined the threads is what they did, and in the
\* mode that counts without a lock no more than that; and the lock has one holder, none
\* when it is destroyed: for any number of threads and of operations.
THEOREM ThreadsCount == Lab!ThrSpec => []Lab!CountedRight
<1>1. ThrInv /\ [Lab!ThrNext]_(Lab!thr_vars) => ThrInv'
  BY ThrSteps
<1> QED BY ThrBegins, <1>1, ThrMeans, PTL DEF Lab!ThrSpec

------------------------------------------------------------------------------
(* PerfLabs: the walks that are timed.                                     *)

Elements == 0..(WalkN - 1)
Upper == (WalkN \div 2)..(WalkN - 1)
Same == [k \in Elements |-> k]
Half(v) == IF v >= WalkN \div 2 THEN v ELSE 0
Halves == [k \in Elements |-> Half(k)]
SeenHalves == [k \in Elements |-> Half(wk_a[k])]

WalkTypes ==
  /\ wk_walk \in Lab!Walks /\ wk_D \in Nat \ {0} /\ wk_i \in Nat /\ wk_r \in 0..walk_rounds
  /\ wk_at \in {"touch", "walk", "done"} /\ (wk_at = "touch" => wk_walk = "measure")

\* An access of cache-miss is one increment in the array.
EachCounts ==
  wk_walk \in {"sequential", "random", "strided"} =>
    wk_a \in [Elements -> Nat] /\ Sum(wk_a, Elements) = wk_i

\* tlb-thrashing has counted once in each round in the pages it has passed.
Passed(j) ==
  /\ wk_i = wk_D * j
  /\ wk_at = "touch" => wk_r = 0 /\ \A k \in DOMAIN wk_a : wk_a[k] = 0
  /\ wk_at /= "touch" =>
       /\ Sum(wk_a, DOMAIN wk_a) = wk_r * WalkN + j
       /\ wk_a[wk_D * (WalkN - 1)] = wk_r + (IF j = WalkN THEN 1 ELSE 0)
       /\ wk_r = walk_rounds => j = 0
  /\ wk_at = "done" => wk_sink = walk_rounds /\ wk_r = walk_rounds
PagesCount ==
  wk_walk = "measure" =>
    /\ wk_a \in [0..(wk_D * WalkN - 1) -> Nat]
    /\ \E j \in 0..WalkN : Passed(j)

\* branch-predict has added the upper half in each round, and of those it has passed.
Branches == {"ordered_branch", "random_branch", "random_branchless"}
HalfSums ==
  wk_walk \in Branches =>
    /\ wk_a \in [Elements -> Elements] /\ \A k, m \in Elements : wk_a[k] = wk_a[m] => k = m
    /\ wk_i <= WalkN /\ (wk_r = walk_rounds => wk_i = 0) /\ (wk_at = "done" => wk_r = walk_rounds)
    /\ wk_sum = wk_r * Sum(Same, Upper) + Sum(SeenHalves, 0..(wk_i - 1))

\* The sweep has found the first drop it has passed, and the first behind it.
Drops ==
  wk_walk = "sweep" =>
    /\ wk_a \in [Elements -> Nat] /\ wk_a[0] = 100 /\ wk_i <= WalkN /\ (wk_at = "done" => wk_i = WalkN)
    /\ \/ wk_l1_cliff_idx = -1 /\ \A k \in 0..(wk_i - 1) : wk_a[k] >= 70
       \/ /\ wk_l1_cliff_idx \in 1..(wk_i - 1) /\ wk_a[wk_l1_cliff_idx] < 70
          /\ \A k \in 0..(wk_l1_cliff_idx - 1) : wk_a[k] >= 70
    /\ \/ /\ wk_l2_cliff_idx = -1
          /\ \A k \in 0..(wk_i - 1) : wk_l1_cliff_idx >= 0 /\ k > wk_l1_cliff_idx => 2 * wk_a[k] >= wk_a[k - 1]
       \/ /\ wk_l1_cliff_idx >= 0 /\ wk_l2_cliff_idx \in (wk_l1_cliff_idx + 1)..(wk_i - 1)
          /\ 2 * wk_a[wk_l2_cliff_idx] < wk_a[wk_l2_cliff_idx - 1]

WalkInv == WalkTypes /\ EachCounts /\ PagesCount /\ HalfSums /\ Drops

LEMMA WalkSizes ==
  /\ WalkN \in Nat \ {0} /\ WalkN \div 2 \in Nat /\ WalkN \div 2 <= WalkN - 1 /\ WalkN \div 2 >= 1
  /\ IsFiniteSet(Elements) /\ Cardinality(Elements) = WalkN /\ Upper \subseteq Elements
<1>1. WalkN \in Nat \ {0} /\ WalkN % 2 = 0 /\ WalkN \in Int
  BY LabAssumption
<1>2. WalkN = 2 * (WalkN \div 2) + (WalkN % 2) /\ WalkN \div 2 \in Int
  BY <1>1, DivMod
<1> DEFINE h == WalkN \div 2
<1>3. h \in Int /\ WalkN = 2 * h
  BY <1>1, <1>2
<1> HIDE DEF h
<1>4. h \in Nat /\ h <= WalkN - 1 /\ h >= 1
  BY <1>1, <1>3
<1>5. IsFiniteSet(Elements) /\ Cardinality(Elements) = WalkN
  <2>1. 0 \in Int /\ WalkN - 1 \in Int /\ ~(0 > WalkN - 1) /\ (WalkN - 1) - 0 + 1 = WalkN
    BY <1>1
  <2> QED BY <2>1, FS_Interval DEF Elements
<1>6. Upper \subseteq Elements
  BY <1>1, <1>4 DEF Upper, Elements, h
<1> QED BY <1>1, <1>4, <1>5, <1>6 DEF h

LEMMA HalvesSum == Sum(Halves, Elements) = Sum(Same, Upper) /\ Sum(Same, Upper) \in Int
<1>1. \A k \in Elements : k \in Int /\ Halves[k] \in Int /\ (k \notin Upper => Halves[k] = 0) /\ (k \in Upper => Halves[k] = Same[k])
  BY WalkSizes DEF Elements, Upper, Halves, Same, Half
<1>2. Ints(Halves, Elements) /\ \A k \in Elements \ Upper : Halves[k] = 0
  BY <1>1, WalkSizes DEF Ints
<1>3. Sum(Halves, Elements) = Sum(Halves, Upper)
  BY <1>2, WalkSizes, SumWithout
<1>4. Ints(Halves, Upper) /\ \A k \in Upper : Halves[k] = Same[k]
  BY <1>1, WalkSizes, FS_Subset DEF Ints
<1>5. Sum(Halves, Upper) = Sum(Same, Upper) /\ Sum(Halves, Upper) \in Int
  <2>1. Sum(Halves, Upper) = Sum(Same, Upper)
    BY ONLY <1>4, SumSame
  <2>2. Sum(Halves, Upper) \in Int
    BY ONLY <1>4, SumAdds
  <2> QED BY <2>1, <2>2
<1> QED BY <1>3, <1>5

\* In whatever order the elements are, their upper half adds up to the same.
LEMMA SeenSum ==
  ASSUME wk_a \in [Elements -> Elements], \A k, m \in Elements : wk_a[k] = wk_a[m] => k = m
  PROVE  Sum(SeenHalves, Elements) = Sum(Same, Upper)
<1> DEFINE Q == {wk_a[k] : k \in Elements}
<1>1. Q = Elements
  <2>1. Q \subseteq Elements /\ wk_a \in [Elements -> Q] /\ IsFiniteSet(Elements) /\ IsFiniteSet(Q)
    BY WalkSizes, FS_Subset
  <2>2. wk_a \in Surjection(Elements, Q)
    BY <2>1 DEF Surjection
  <2>3. wk_a \in Injection(Elements, Q)
    BY <2>1 DEF Injection, IsInjective
  <2> HIDE DEF Q
  <2>4. Cardinality(Q) = Cardinality(Elements)
    BY ONLY <2>1, <2>2, <2>3, FS_Surjection
  <2> QED BY ONLY <2>1, <2>4, FS_Subset
<1>2. Ints(Halves, Elements)
  BY WalkSizes DEF Ints, Halves, Half, Elements
<1>3. \A k \in Elements : SeenHalves[k] = Halves[wk_a[k]]
  BY DEF SeenHalves, Halves
<1>4. Ints(Halves, Q) /\ IsFiniteSet(Elements)
  BY <1>1, <1>2, WalkSizes
<1>5. Sum(SeenHalves, Elements) = Sum(Halves, Q)
  BY ONLY <1>3, <1>4, \A k, m \in Elements : wk_a[k] = wk_a[m] => k = m, SumReordered
<1> QED BY <1>1, <1>5, HalvesSum

LEMMA PageSizes ==
  ASSUME NEW d \in Nat \ {0}, NEW j \in 0..WalkN
  PROVE  /\ d * j \in Nat /\ d * WalkN \in Nat /\ d * (WalkN - 1) \in 0..(d * WalkN - 1)
         /\ d * (j + 1) = d * j + d
         /\ d * j < d * WalkN <=> j < WalkN
         /\ d * j = d * (WalkN - 1) <=> j = WalkN - 1
<1>1. WalkN \in Nat /\ WalkN >= 1 /\ j \in Nat /\ j <= WalkN /\ d \in Nat /\ d >= 1
  BY LabAssumption
<1>2. d * j \in Nat /\ d * WalkN \in Nat /\ d * (j + 1) = d * j + d /\ d * (WalkN - 1) = d * WalkN - d
  BY <1>1
<1>3. ASSUME NEW x \in Nat, NEW y \in Nat, x < y PROVE d * x + d <= d * y
  <2>1. y - x - 1 \in Nat /\ d * (y - x - 1) \in Nat
    BY <1>1, <1>3
  <2>2. d * (y - x - 1) = d * y - d * x - d
    BY <1>1
  <2>3. d * x \in Nat /\ d * y \in Nat
    BY <1>1
  <2> QED BY <1>1, <2>1, <2>2, <2>3
<1>4. d * (WalkN - 1) \in 0..(d * WalkN - 1)
  <2>1. WalkN - 1 \in Nat /\ d * (WalkN - 1) \in Nat
    BY <1>1
  <2> QED BY <1>1, <1>2, <2>1
<1>5. d * j < d * WalkN <=> j < WalkN
  <2>1. CASE j < WalkN
    <3>1. d * j + d <= d * WalkN
      BY <1>1, <1>3, <2>1
    <3> QED BY <1>1, <1>2, <2>1, <3>1
  <2>2. CASE j = WalkN
    BY <1>1, <1>2, <2>2
  <2> QED BY <1>1, <2>1, <2>2
<1>6. d * j = d * (WalkN - 1) => j = WalkN - 1
  <2>1. CASE j < WalkN - 1
    <3>1. d * j + d <= d * (WalkN - 1)
      <4>1. WalkN - 1 \in Nat
        BY <1>1
      <4> QED BY <1>1, <1>3, <2>1, <4>1
    <3> QED BY <1>1, <1>2, <2>1, <3>1
  <2>2. CASE j = WalkN
    BY <1>1, <1>2, <2>2
  <2> QED BY <1>1, <2>1, <2>2
<1> QED BY <1>2, <1>4, <1>5, <1>6

LEMMA WalkBegins == Lab!WalkInit => WalkInv
<1> SUFFICES ASSUME Lab!WalkInit PROVE WalkInv
  OBVIOUS
<1>1. /\ wk_walk \in Lab!Walks /\ wk_D \in (IF wk_walk \in {"strided", "measure"} THEN Strides ELSE {1})
      /\ wk_i = 0 /\ wk_r = 0 /\ wk_sum = 0 /\ wk_sink = -1 /\ wk_l1_cliff_idx = -1 /\ wk_l2_cliff_idx = -1
      /\ wk_at = (IF wk_walk = "measure" THEN "touch" ELSE "walk")
  BY DEF Lab!WalkInit
<1>2. (CASE wk_walk = "ordered_branch" -> wk_a = [k \in 0..WalkN - 1 |-> k]
       [] wk_walk \in {"random_branch", "random_branchless"} -> wk_a \in Lab!Shuffles
       [] wk_walk = "sweep" -> wk_a \in {f \in [0..WalkN - 1 -> Percents] : f[0] = 100}
       [] wk_walk = "measure" -> wk_a = [k \in 0..wk_D * WalkN - 1 |-> 0]
       [] OTHER -> wk_a = [k \in 0..WalkN - 1 |-> 0])
  BY DEF Lab!WalkInit
<1>3. WalkTypes
  BY <1>1, LabAssumption DEF WalkTypes
<1>4. ASSUME wk_walk \in {"sequential", "random", "strided"}
      PROVE  wk_a \in [Elements -> Nat] /\ Sum(wk_a, Elements) = wk_i
  <2>1. wk_a = [k \in Elements |-> 0]
    BY <1>2, <1>4 DEF Elements
  <2> QED BY <1>1, <2>1, WalkSizes, NoSum
<1>5. ASSUME wk_walk = "measure"
      PROVE  wk_a \in [0..(wk_D * WalkN - 1) -> Nat] /\ \E j \in 0..WalkN : Passed(j)
  <2>1. wk_a = [k \in 0..(wk_D * WalkN - 1) |-> 0]
    BY <1>2, <1>5
  <2>2. Passed(0)
    BY <1>1, <1>3, <1>5, <2>1 DEF Passed, WalkTypes
  <2>3. 0 \in 0..WalkN
    BY WalkSizes
  <2> QED BY <2>1, <2>2, <2>3
<1>6. ASSUME wk_walk \in Branches PROVE HalfSums
  <2>1. wk_a \in [Elements -> Elements] /\ \A k, m \in Elements : wk_a[k] = wk_a[m] => k = m
    <3>1. CASE wk_walk = "ordered_branch"
      BY <1>2, <3>1 DEF Elements
    <3>2. CASE wk_walk /= "ordered_branch"
      <4>1. wk_a \in [Elements -> Elements] /\ Cardinality({wk_a[k] : k \in Elements}) = WalkN
        <5>1. wk_a \in Lab!Shuffles
          BY <1>2, <1>6, <3>2 DEF Branches
        <5> QED BY <5>1, LabCounted DEF Lab!Shuffles, Elements
      <4> DEFINE Q == {wk_a[k] : k \in Elements}
      <4>2. wk_a \in Surjection(Elements, Q)
        BY <4>1 DEF Surjection
      <4>3. IsFiniteSet(Elements) /\ Cardinality(Elements) = Cardinality(Q)
        BY <4>1, WalkSizes
      <4> HIDE DEF Q
      <4>4. wk_a \in Injection(Elements, Q)
        BY ONLY <4>2, <4>3, FS_SurjSameCardinalityImpliesInj
      <4> QED BY <4>1, <4>4 DEF Injection, IsInjective
    <3> QED BY <3>1, <3>2
  <2>2. 0..(wk_i - 1) = {}
    BY <1>1
  <2>3. wk_sum = wk_r * Sum(Same, Upper) + Sum(SeenHalves, 0..(wk_i - 1))
    <3>1. Sum(SeenHalves, 0..(wk_i - 1)) = 0
      BY <2>2, SumNone
    <3> QED BY <1>1, <3>1, HalvesSum
  <2>4. wk_at = "walk" /\ wk_i <= WalkN
    BY <1>1, <1>6, WalkSizes DEF Branches
  <2> QED BY <1>1, <2>1, <2>3, <2>4 DEF HalfSums
<1>7. ASSUME wk_walk = "sweep" PROVE Drops
  <2>1. wk_a \in [Elements -> Nat] /\ wk_a[0] = 100
    BY <1>2, <1>7, LabAssumption DEF Elements
  <2>2. 0..(wk_i - 1) = {} /\ wk_i <= WalkN /\ wk_at = "walk"
    BY <1>1, <1>7, WalkSizes
  <2> QED BY <1>1, <2>1, <2>2 DEF Drops
<1>8. HalfSums /\ Drops
  BY <1>6, <1>7 DEF HalfSums, Drops
<1> QED BY <1>3, <1>4, <1>5, <1>8 DEF WalkInv, EachCounts, PagesCount

\* A walk of one kind says nothing of the others.
LEMMA OtherWalks ==
  ASSUME WalkTypes', wk_walk' = wk_walk,
         wk_walk \in {"sequential", "random", "strided"} => EachCounts',
         wk_walk = "measure" => PagesCount', wk_walk \in Branches => HalfSums', wk_walk = "sweep" => Drops'
  PROVE  WalkInv'
  BY DEF WalkInv, EachCounts, PagesCount, HalfSums, Drops

LEMMA TouchStep == ASSUME WalkInv, Lab!touch PROVE WalkInv'
<1>1. /\ wk_at = "touch" /\ wk_walk = "measure" /\ wk_D \in Nat \ {0} /\ wk_r = 0 /\ WalkTypes
      /\ wk_a \in [0..(wk_D * WalkN - 1) -> Nat]
      /\ UNCHANGED <<wk_walk, wk_D, wk_r, wk_sum, wk_sink, wk_l1_cliff_idx, wk_l2_cliff_idx>>
  BY DEF WalkInv, WalkTypes, PagesCount, Passed, Lab!touch
<1>2. PICK j \in 0..WalkN : wk_i = wk_D * j /\ \A k \in DOMAIN wk_a : wk_a[k] = 0
  BY <1>1 DEF WalkInv, PagesCount, Passed
<1>3. j \in Nat /\ (wk_i < wk_D * WalkN <=> j < WalkN) /\ wk_D * (j + 1) = wk_D * j + wk_D
  BY <1>1, <1>2, PageSizes, WalkSizes
<1>4. CASE wk_i < wk_D * WalkN
  <2>1. wk_a' = [wk_a EXCEPT ![wk_i] = 0] /\ wk_i' = wk_i + wk_D /\ wk_at' = wk_at
    BY <1>4 DEF Lab!touch
  <2>2. j + 1 \in 0..WalkN /\ wk_i' = wk_D * (j + 1) /\ wk_i' \in Nat
    BY <1>1, <1>2, <1>3, <1>4, <2>1, WalkSizes DEF WalkTypes
  <2>3. WalkTypes'
    BY <1>1, <2>1, <2>2 DEF WalkTypes
  <2>4. wk_a' \in [0..(wk_D * WalkN - 1) -> Nat] /\ \A k \in DOMAIN wk_a' : wk_a'[k] = 0
    BY <1>1, <1>2, <2>1
  <2>5. Passed(j + 1)'
    BY <1>1, <2>1, <2>2, <2>4 DEF Passed
  <2>6. PagesCount'
    BY <1>1, <2>2, <2>4, <2>5 DEF PagesCount
  <2> QED BY <1>1, <2>3, <2>6, OtherWalks DEF Branches
<1>5. CASE ~(wk_i < wk_D * WalkN)
  <2>1. wk_at' = "walk" /\ wk_i' = 0 /\ wk_a' = wk_a
    BY <1>5 DEF Lab!touch
  <2>2. WalkTypes'
    BY <1>1, <2>1 DEF WalkTypes
  <2>3. Sum(wk_a, DOMAIN wk_a) = 0 /\ wk_a[wk_D * (WalkN - 1)] = 0
    <3>1. wk_D * (WalkN - 1) \in DOMAIN wk_a
      BY <1>1, <1>2, PageSizes
    <3>2. DOMAIN wk_a = 0..(wk_D * WalkN - 1) /\ 0 \in Int /\ wk_D * WalkN - 1 \in Int
      BY <1>1, WalkSizes
    <3>3. IsFiniteSet(DOMAIN wk_a)
      BY <3>2, FS_Interval
    <3> QED BY <1>2, <3>1, <3>3, NoSum
  <2>4. Passed(0)' /\ 0 \in 0..WalkN
    <3>1. wk_D * 0 = 0 /\ 0 * WalkN + 0 = 0 /\ 0 /= WalkN
      BY <1>1, WalkSizes
    <3> QED BY <1>1, <2>1, <2>3, <3>1, WalkSizes DEF Passed
  <2>5. PagesCount'
    BY <1>1, <2>1, <2>4 DEF PagesCount
  <2> QED BY <1>1, <2>2, <2>5, OtherWalks DEF Branches
<1> QED BY <1>4, <1>5

LEMMA Increments ==
  ASSUME NEW S, IsFiniteSet(S), wk_a \in [S -> Nat], NEW k \in S, wk_a' = [wk_a EXCEPT ![k] = @ + 1]
  PROVE  wk_a' \in [S -> Nat] /\ Sum(wk_a', S) = Sum(wk_a, S) + 1 /\ Sum(wk_a, S) \in Int
<1>1. /\ wk_a' \in [S -> Nat] /\ wk_a[k] \in Nat /\ wk_a'[k] = wk_a[k] + 1
      /\ \A x \in S \ {k} : wk_a'[x] = wk_a[x]
  OBVIOUS
<1>2. Ints(wk_a, S) /\ wk_a'[k] \in Int
  BY <1>1 DEF Ints
<1>3. Sum(wk_a', S) = Sum(wk_a, S) - wk_a[k] + wk_a'[k] /\ Sum(wk_a, S) \in Int
  <2>1. Sum(wk_a', S) = Sum(wk_a, S) - wk_a[k] + wk_a'[k]
    BY ONLY <1>1, <1>2, k \in S, SumChanges
  <2>2. Sum(wk_a, S) \in Int
    BY ONLY <1>2, SumAdds
  <2> QED BY <2>1, <2>2
<1> DEFINE s == Sum(wk_a, S)
<1>4. s \in Int /\ Sum(wk_a', S) = s - wk_a[k] + (wk_a[k] + 1)
  BY <1>1, <1>3
<1> HIDE DEF s
<1>5. s - wk_a[k] + (wk_a[k] + 1) = s + 1
  BY <1>1, <1>4
<1> QED BY <1>1, <1>4, <1>5 DEF s

LEMMA BenchStep == ASSUME WalkInv, Lab!bench PROVE WalkInv'
<1>1. /\ wk_walk \in {"sequential", "random", "strided"} /\ WalkTypes /\ wk_at = "walk"
      /\ wk_a \in [Elements -> Nat] /\ Sum(wk_a, Elements) = wk_i /\ wk_i \in Nat
      /\ UNCHANGED <<wk_walk, wk_D, wk_r>>
  BY DEF WalkInv, WalkTypes, EachCounts, Lab!bench
<1>2. CASE wk_i < Lab!OPS
  <2>1. wk_i' = wk_i + 1 /\ wk_at' = wk_at
    BY <1>2 DEF Lab!bench
  <2>2. PICK k \in Elements : wk_a' = [wk_a EXCEPT ![k] = @ + 1]
    <3>1. CASE wk_walk = "sequential"
      <4>1. wk_a' = [wk_a EXCEPT ![wk_i] = @ + 1]
        BY <1>2, <3>1 DEF Lab!bench, Lab!increment
      <4>2. wk_i \in Elements
        BY <1>1, <1>2, WalkSizes DEF Elements, Lab!OPS
      <4> QED BY <4>1, <4>2
    <3>2. CASE wk_walk = "strided"
      <4>1. wk_a' = [wk_a EXCEPT ![(wk_i * wk_D) % WalkN] = @ + 1]
        BY <1>2, <3>2 DEF Lab!bench, Lab!increment
      <4>2. wk_i * wk_D \in Int
        BY <1>1 DEF WalkTypes
      <4>3. (wk_i * wk_D) % WalkN \in Elements
        BY <4>2, WalkSizes, DivMod DEF Elements
      <4> QED BY <4>1, <4>3
    <3>3. CASE wk_walk = "random"
      BY <1>2, <3>3 DEF Lab!bench, Lab!increment, Elements
    <3> QED BY <1>1, <3>1, <3>2, <3>3
  <2>3. wk_a' \in [Elements -> Nat] /\ Sum(wk_a', Elements) = Sum(wk_a, Elements) + 1
    BY <1>1, <2>2, WalkSizes, Increments
  <2>4. EachCounts'
    BY <1>1, <2>1, <2>3 DEF EachCounts
  <2>5. WalkTypes'
    BY <1>1, <2>1 DEF WalkTypes
  <2> QED BY <1>1, <2>4, <2>5, OtherWalks DEF Branches
<1>3. CASE ~(wk_i < Lab!OPS)
  <2>1. wk_at' = "done" /\ wk_a' = wk_a /\ wk_i' = wk_i
    BY <1>3 DEF Lab!bench
  <2>2. EachCounts' /\ WalkTypes'
    BY <1>1, <2>1 DEF EachCounts, WalkTypes
  <2> QED BY <1>1, <2>2, OtherWalks DEF Branches
<1> QED BY <1>2, <1>3

LEMMA MeasureStep == ASSUME WalkInv, Lab!measure PROVE WalkInv'
<1> DEFINE P == 0..(wk_D * WalkN - 1)
<1>1. /\ wk_walk = "measure" /\ wk_at = "walk" /\ WalkTypes /\ wk_D \in Nat \ {0} /\ wk_r \in 0..walk_rounds
      /\ wk_a \in [P -> Nat] /\ DOMAIN wk_a = P /\ UNCHANGED <<wk_walk, wk_D>> /\ walk_rounds \in Nat
  BY LabAssumption DEF WalkInv, WalkTypes, PagesCount, Lab!measure
<1>2. PICK j \in 0..WalkN : Passed(j)
  BY <1>1 DEF WalkInv, PagesCount
<1>3. /\ wk_i = wk_D * j /\ Sum(wk_a, P) = wk_r * WalkN + j
      /\ wk_a[wk_D * (WalkN - 1)] = wk_r + (IF j = WalkN THEN 1 ELSE 0)
      /\ wk_r = walk_rounds => j = 0
  BY <1>1, <1>2 DEF Passed
<1>4. /\ j \in Nat /\ j <= WalkN /\ wk_i \in Nat /\ WalkN \in Nat \ {0} /\ wk_D * (WalkN - 1) \in P
      /\ wk_i < wk_D * WalkN <=> j < WalkN
      /\ wk_D * (j + 1) = wk_i + wk_D
      /\ wk_i = wk_D * (WalkN - 1) <=> j = WalkN - 1
      /\ wk_D * WalkN \in Nat
  BY <1>1, <1>3, PageSizes, WalkSizes
<1>5. IsFiniteSet(P)
  <2>1. 0 \in Int /\ wk_D * WalkN - 1 \in Int
    BY <1>4
  <2> QED BY <2>1, FS_Interval
<1>6. P' = P
  BY <1>1
<1>7. CASE wk_r < walk_rounds /\ wk_i < wk_D * WalkN
  <2>1. /\ wk_a' = [wk_a EXCEPT ![wk_i] = @ + 1] /\ wk_i' = wk_i + wk_D
        /\ UNCHANGED <<wk_r, wk_at, wk_sink>>
    BY <1>1, <1>4, <1>7 DEF Lab!measure, Lab!Round, Lab!increment
  <2>2. wk_i \in P /\ j + 1 \in 0..WalkN /\ j < WalkN
    BY <1>4, <1>7
  <2> DEFINE w == wk_D * (WalkN - 1)
             s == Sum(wk_a, P)
  <2>3. wk_a' \in [P -> Nat] /\ Sum(wk_a', P) = s + 1 /\ s \in Int
    <3> HIDE DEF P
    <3> QED BY ONLY <1>1, <1>5, <2>1, <2>2, Increments
  <2>4. wk_a'[w] = wk_r + (IF j + 1 = WalkN THEN 1 ELSE 0)
    <3>1. wk_a[w] = wk_r /\ wk_a[w] \in Nat /\ w \in P
      BY <1>1, <1>3, <1>4, <2>2
    <3>2. wk_a'[w] = IF w = wk_i THEN wk_a[w] + 1 ELSE wk_a[w]
      BY <1>1, <2>1, <3>1
    <3>3. w = wk_i <=> j + 1 = WalkN
      BY <1>4
    <3> HIDE DEF w, P
    <3> QED BY <1>1, <3>1, <3>2, <3>3
  <2>5. s + 1 = wk_r * WalkN + (j + 1)
    <3>1. s = wk_r * WalkN + j /\ wk_r * WalkN \in Int
      BY <1>1, <1>3, <1>4
    <3> HIDE DEF s, P
    <3> QED BY <1>4, <3>1
  <2>6. Passed(j + 1)'
    <3>1. Sum(wk_a', DOMAIN wk_a') = wk_r * WalkN + (j + 1)
      <4>1. DOMAIN wk_a' = P
        BY <2>3
      <4> HIDE DEF s, P
      <4> QED BY <2>3, <2>5, <4>1
    <3>2. wk_i' = wk_D * (j + 1) /\ wk_at' = "walk" /\ wk_r' /= walk_rounds
      BY <1>1, <1>4, <1>7, <2>1
    <3> QED BY <1>1, <2>1, <2>4, <3>1, <3>2 DEF Passed
  <2>7. PagesCount'
    BY <1>1, <2>2, <2>3, <2>6 DEF PagesCount
  <2>8. WalkTypes'
    BY <1>1, <1>4, <2>1 DEF WalkTypes
  <2> QED BY <1>1, <2>7, <2>8, OtherWalks DEF Branches
<1>8. CASE wk_r < walk_rounds /\ ~(wk_i < wk_D * WalkN)
  <2>1. wk_r' = wk_r + 1 /\ wk_i' = 0 /\ UNCHANGED <<wk_a, wk_at, wk_sum, wk_sink>>
    BY <1>1, <1>4, <1>8 DEF Lab!measure, Lab!Round
  <2>2. j = WalkN
    BY <1>4, <1>8
  <2>3. wk_r' * WalkN + 0 = wk_r * WalkN + j /\ wk_D * 0 = 0 /\ 0 /= WalkN /\ 0 \in 0..WalkN
    BY <1>1, <1>4, <2>1, <2>2
  <2>4. Passed(0)'
    <3>1. Sum(wk_a, DOMAIN wk_a) = wk_r' * WalkN + 0
      BY <1>1, <1>3, <2>3
    <3>2. wk_a[wk_D * (WalkN - 1)] = wk_r' + 0
      BY <1>1, <1>3, <2>1, <2>2
    <3> QED BY <1>1, <2>1, <2>3, <3>1, <3>2 DEF Passed
  <2>5. PagesCount'
    BY <1>1, <2>1, <2>3, <2>4 DEF PagesCount
  <2>6. WalkTypes'
    BY <1>1, <1>8, <2>1 DEF WalkTypes
  <2> QED BY <1>1, <2>5, <2>6, OtherWalks DEF Branches
<1>9. CASE wk_r = walk_rounds
  <2>1. /\ wk_sink' = wk_a[wk_D * (WalkN - 1)] /\ wk_at' = "done"
        /\ UNCHANGED <<wk_a, wk_i, wk_r, wk_sum>>
    BY <1>1, <1>9 DEF Lab!measure, Lab!Round
  <2>2. j = 0 /\ wk_sink' = walk_rounds
    BY <1>1, <1>3, <1>4, <1>9, <2>1
  <2>3. Passed(j)'
    BY <1>1, <1>2, <1>9, <2>1, <2>2 DEF Passed
  <2>4. PagesCount' /\ WalkTypes'
    BY <1>1, <2>1, <2>3 DEF PagesCount, WalkTypes
  <2> QED BY <1>1, <2>4, OtherWalks DEF Branches
<1> QED BY <1>1, <1>7, <1>8, <1>9

LEMMA BranchStep == ASSUME WalkInv, Lab!bench_branch PROVE WalkInv'
<1> DEFINE H == Sum(Same, Upper)
           G(n) == Sum(SeenHalves, 0..(n - 1))
<1>1. /\ wk_walk \in Branches /\ wk_at = "walk" /\ WalkTypes /\ wk_r \in 0..walk_rounds /\ walk_rounds \in Nat
      /\ wk_a \in [Elements -> Elements] /\ \A k, m \in Elements : wk_a[k] = wk_a[m] => k = m
      /\ wk_i \in 0..WalkN /\ (wk_r = walk_rounds => wk_i = 0)
      /\ wk_sum = wk_r * H + G(wk_i) /\ UNCHANGED <<wk_walk, wk_D>>
  BY LabAssumption DEF WalkInv, WalkTypes, HalfSums, Lab!bench_branch, Lab!Summing, Branches
<1>2. WalkN \in Nat \ {0} /\ H \in Int /\ wk_i \in Nat /\ wk_i <= WalkN
  BY <1>1, WalkSizes, HalvesSum
<1>3. wk_a' = wk_a
  BY DEF Lab!bench_branch, Lab!Round
<1>4. SeenHalves' = SeenHalves
  BY <1>3 DEF SeenHalves
<1>5. CASE wk_r < walk_rounds /\ wk_i < WalkN
  <2>0. \A k \in 0..wk_i : k \in Elements /\ SeenHalves[k] \in Int /\ SeenHalves[k] = Half(wk_a[k])
    <3>1. \A k \in 0..wk_i : k \in Elements
      BY <1>2, <1>5 DEF Elements
    <3>2. ASSUME NEW k \in Elements PROVE SeenHalves[k] = Half(wk_a[k]) /\ Half(wk_a[k]) \in Int
      <4>1. wk_a[k] \in Int
        BY <1>1 DEF Elements
      <4> QED BY <4>1 DEF SeenHalves, Half
    <3> QED BY <3>1, <3>2
  <2>1. /\ wk_sum' = wk_sum + Half(wk_a[wk_i]) /\ wk_i' = wk_i + 1 /\ UNCHANGED <<wk_r, wk_at>>
    <3>1. wk_sum \in Int
      <4>2. G(wk_i) \in Int
        BY <1>2, <2>0, SumOneMore
      <4> HIDE DEF G, H
      <4> QED BY <1>1, <1>2, <4>2
    <3>2. /\ wk_i' = wk_i + 1 /\ UNCHANGED <<wk_r, wk_at>>
          /\ IF wk_walk = "random_branchless" THEN wk_sum' = wk_sum + Lab!Masked(wk_a[wk_i])
             ELSE IF wk_a[wk_i] >= WalkN \div 2 THEN wk_sum' = wk_sum + wk_a[wk_i] ELSE UNCHANGED wk_sum
      BY <1>1, <1>2, <1>5 DEF Lab!bench_branch, Lab!Round
    <3> QED BY <3>1, <3>2 DEF Lab!Masked, Half
  <2>2. G(wk_i + 1) = G(wk_i) + Half(wk_a[wk_i]) /\ G(wk_i) \in Int /\ Half(wk_a[wk_i]) \in Int
    <3>2. Sum(SeenHalves, 0..wk_i) = Sum(SeenHalves, 0..(wk_i - 1)) + SeenHalves[wk_i] /\ Sum(SeenHalves, 0..(wk_i - 1)) \in Int
      BY ONLY <1>2, <2>0, SumOneMore
    <3>3. (wk_i + 1) - 1 = wk_i /\ wk_i \in 0..wk_i
      BY <1>2
    <3>4. SeenHalves[wk_i] = Half(wk_a[wk_i]) /\ SeenHalves[wk_i] \in Int
      BY <2>0, <3>3
    <3> QED BY <3>2, <3>3, <3>4
  <2>3. wk_sum' = wk_r * H + G(wk_i + 1)
    <3> HIDE DEF H, G
    <3>1. wk_r * H \in Int
      BY <1>1, <1>2
    <3> QED BY <1>1, <2>1, <2>2, <3>1
  <2>4. HalfSums'
    <3>1. wk_sum' = wk_r' * H + Sum(SeenHalves, 0..(wk_i' - 1)) /\ wk_i' <= WalkN /\ wk_r' /= walk_rounds /\ wk_at' = "walk"
      BY <1>1, <1>2, <1>5, <2>1, <2>3
    <3> QED BY <1>1, <1>3, <1>4, <3>1 DEF HalfSums
  <2>5. WalkTypes'
    BY <1>1, <1>2, <2>1 DEF WalkTypes
  <2> QED BY <1>1, <2>4, <2>5, OtherWalks DEF Branches
<1>6. CASE wk_r < walk_rounds /\ ~(wk_i < WalkN)
  <2>1. wk_r' = wk_r + 1 /\ wk_i' = 0 /\ UNCHANGED <<wk_at, wk_sum>>
    BY <1>1, <1>2, <1>6 DEF Lab!bench_branch, Lab!Round
  <2>2. wk_i = WalkN /\ G(wk_i) = H
    <3>1. wk_i = WalkN
      BY <1>2, <1>6
    <3> QED BY <1>1, <3>1, SeenSum DEF Elements
  <2>3. G(0) = 0
    <3>1. 0..(0 - 1) = {}
      OBVIOUS
    <3> QED BY <3>1, SumNone
  <2>4. wk_sum' = wk_r' * H + G(0)
    <3> HIDE DEF H, G
    <3>1. (wk_r + 1) * H = wk_r * H + H /\ wk_r * H \in Int
      BY <1>1, <1>2
    <3> QED BY <1>1, <1>2, <2>1, <2>2, <2>3, <3>1
  <2>5. HalfSums'
    <3>1. wk_sum' = wk_r' * H + Sum(SeenHalves, 0..(wk_i' - 1)) /\ wk_i' <= WalkN /\ wk_i' = 0 /\ wk_at' = "walk"
      BY <1>1, <1>2, <2>1, <2>4
    <3> QED BY <1>1, <1>3, <1>4, <3>1 DEF HalfSums
  <2>6. WalkTypes'
    BY <1>1, <1>6, <2>1 DEF WalkTypes
  <2> QED BY <1>1, <2>5, <2>6, OtherWalks DEF Branches
<1>7. CASE wk_r = walk_rounds
  <2>1. wk_at' = "done" /\ UNCHANGED <<wk_i, wk_r, wk_sum>>
    BY <1>1, <1>7 DEF Lab!bench_branch, Lab!Round
  <2>2. HalfSums'
    BY <1>1, <1>3, <1>4, <1>7, <2>1 DEF HalfSums
  <2>3. WalkTypes'
    BY <1>1, <2>1 DEF WalkTypes, Branches
  <2> QED BY <1>1, <2>2, <2>3, OtherWalks DEF Branches
<1> QED BY <1>1, <1>5, <1>6, <1>7

LEMMA SweepStep == ASSUME WalkInv, Lab!run_full_sweep PROVE WalkInv'
<1>1. /\ wk_walk = "sweep" /\ wk_at = "walk" /\ WalkTypes /\ Drops /\ WalkN \in Nat \ {0}
      /\ wk_a \in [Elements -> Nat] /\ wk_a[0] = 100 /\ wk_i \in Nat /\ wk_i <= WalkN
      /\ UNCHANGED <<wk_walk, wk_D, wk_a, wk_r>>
  BY WalkSizes DEF WalkInv, WalkTypes, Drops, Lab!run_full_sweep
<1>2. CASE wk_i < WalkN
  <2> DEFINE i == wk_i
             l == wk_l1_cliff_idx
             m == wk_l2_cliff_idx
             n == wk_l1_cliff_idx'
             o == wk_l2_cliff_idx'
  <2>1. /\ n = IF l < 0 /\ wk_a[i] < 70 THEN i ELSE l
        /\ o = IF n >= 0 /\ m < 0 /\ i > n /\ 2 * wk_a[i] < wk_a[i - 1] THEN i ELSE m
        /\ wk_i' = wk_i + 1 /\ wk_at' = wk_at
    BY <1>2 DEF Lab!run_full_sweep
  <2>2. \A k \in 0..i : k \in Elements /\ wk_a[k] \in Nat
    BY <1>1, <1>2 DEF Elements
  <2>3. i /= 0 => i - 1 \in 0..i
    BY <1>1
  <2>4. \/ l = -1 /\ \A k \in 0..(i - 1) : wk_a[k] >= 70
        \/ l \in 1..(i - 1) /\ wk_a[l] < 70 /\ \A k \in 0..(l - 1) : wk_a[k] >= 70
    BY <1>1 DEF Drops
  <2>5. \/ m = -1 /\ \A k \in 0..(i - 1) : l >= 0 /\ k > l => 2 * wk_a[k] >= wk_a[k - 1]
        \/ l >= 0 /\ m \in (l + 1)..(i - 1) /\ 2 * wk_a[m] < wk_a[m - 1]
    BY <1>1 DEF Drops
  <2>6. \/ n = -1 /\ \A k \in 0..i : wk_a[k] >= 70
        \/ n \in 1..i /\ wk_a[n] < 70 /\ \A k \in 0..(n - 1) : wk_a[k] >= 70
    <3>1. CASE l \in 1..(i - 1)
      BY <1>1, <2>1, <2>4, <3>1
    <3>2. CASE l = -1 /\ wk_a[i] < 70
      <4>1. i /= 0
        BY <1>1, <3>2
      <4> QED BY <1>1, <2>1, <2>4, <3>2, <4>1
    <3>3. CASE l = -1 /\ ~(wk_a[i] < 70)
      <4>1. wk_a[i] \in Nat
        BY <1>1, <2>2
      <4> QED BY <1>1, <2>1, <2>4, <3>3, <4>1
    <3> QED BY <2>4, <3>1, <3>2, <3>3
  <2>7. \/ o = -1 /\ \A k \in 0..i : n >= 0 /\ k > n => 2 * wk_a[k] >= wk_a[k - 1]
        \/ n >= 0 /\ o \in (n + 1)..i /\ 2 * wk_a[o] < wk_a[o - 1]
    <3>1. CASE m /= -1
      <4>1. l >= 0 /\ l \in Int /\ m \in (l + 1)..(i - 1) /\ 2 * wk_a[m] < wk_a[m - 1]
        BY <2>4, <2>5, <3>1
      <4>2. n = l /\ o = m
        BY <1>1, <2>1, <4>1
      <4> QED BY <1>1, <4>1, <4>2
    <3>2. CASE m = -1
      <4>1. \A k \in 0..(i - 1) : l >= 0 /\ k > l => 2 * wk_a[k] >= wk_a[k - 1]
        BY <2>4, <2>5, <3>2
      <4>2. n \in Int /\ n <= i /\ (n >= 0 => (n = l \/ n = i))
        BY <1>1, <2>1, <2>4
      <4>3. CASE n >= 0 /\ i > n /\ 2 * wk_a[i] < wk_a[i - 1]
        BY <1>1, <2>1, <3>2, <4>2, <4>3
      <4>4. CASE ~(n >= 0 /\ i > n /\ 2 * wk_a[i] < wk_a[i - 1])
        <5>1. o = -1
          BY <2>1, <3>2, <4>4
        <5>2. ASSUME NEW k \in 0..i, n >= 0, k > n PROVE 2 * wk_a[k] >= wk_a[k - 1]
          <6>1. n = l /\ n /= i
            BY <1>1, <4>2, <5>2
          <6>2. CASE k = i
            <7>1. i > n /\ i /= 0 /\ wk_a[i] \in Nat /\ wk_a[i - 1] \in Nat
              BY <1>1, <2>2, <2>3, <4>2, <5>2, <6>2
            <7> QED BY <4>4, <5>2, <6>2, <7>1
          <6>3. CASE k \in 0..(i - 1)
            BY <4>1, <5>2, <6>1, <6>3
          <6> QED BY <1>1, <6>2, <6>3
        <5> QED BY <5>1, <5>2
      <4> QED BY <4>3, <4>4
    <3> QED BY <3>1, <3>2
  <2>8. Drops'
    <3>1. (wk_i' - 1) = i /\ wk_i' <= WalkN /\ wk_at' = "walk"
      BY <1>1, <1>2, <2>1
    <3> QED BY <1>1, <2>6, <2>7, <3>1 DEF Drops
  <2>9. WalkTypes'
    BY <1>1, <2>1 DEF WalkTypes
  <2> QED BY <1>1, <2>8, <2>9, OtherWalks DEF Branches
<1>3. CASE ~(wk_i < WalkN)
  <2>1. wk_at' = "done" /\ UNCHANGED <<wk_i, wk_l1_cliff_idx, wk_l2_cliff_idx>> /\ wk_i = WalkN
    BY <1>1, <1>3 DEF Lab!run_full_sweep
  <2>2. Drops' /\ WalkTypes'
    BY <1>1, <2>1 DEF Drops, WalkTypes
  <2> QED BY <1>1, <2>2, OtherWalks DEF Branches
<1> QED BY <1>2, <1>3

LEMMA WalkSteps == ASSUME WalkInv, [Lab!WalkNext]_(Lab!walk_vars) PROVE WalkInv'
<1>1. CASE UNCHANGED Lab!walk_vars
  <2>1. UNCHANGED <<wk_walk, wk_D, wk_a, wk_i, wk_r, wk_at, wk_sum, wk_sink, wk_l1_cliff_idx, wk_l2_cliff_idx>>
    BY <1>1 DEF Lab!walk_vars
  <2>2. SeenHalves' = SeenHalves
    BY <2>1 DEF SeenHalves
  <2> QED BY <2>1, <2>2 DEF WalkInv, WalkTypes, EachCounts, PagesCount, Passed, HalfSums, Drops
<1> QED BY <1>1, TouchStep, BenchStep, MeasureStep, BranchStep, SweepStep DEF Lab!WalkNext

LEMMA CountersSum == ASSUME Ints(wk_a, DOMAIN wk_a) PROVE Lab!Counters = Sum(wk_a, DOMAIN wk_a)
<1> DEFINE S == DOMAIN wk_a
           A(t) == t = [s \in SUBSET S |->
                          IF s = {} THEN 0 ELSE wk_a[CHOOSE x \in s : TRUE] + t[s \ {CHOOSE x \in s : TRUE}]]
           F == CHOOSE t : A(t)
<1>1. Ints(wk_a, S)
  OBVIOUS
<1>2. \A t : A(t) <=> Adds(wk_a, S, t)
  BY DEF Adds, Picked
<1>4. Lab!Counters = F[S]
  BY DEF Lab!Counters, Lab!MapThenSumSet, Lab!MapThenFoldSet
<1> HIDE DEF S
<1>3. A(F)
  <2>1. \E t : A(t)
    <3>1. \E t \in [SUBSET S -> Int] : Adds(wk_a, S, t)
      BY ONLY <1>1, SumsExist
    <3> HIDE DEF A
    <3> QED BY <1>2, <3>1
  <2> HIDE DEF A
  <2> QED BY <2>1
<1> HIDE DEF A, F
<1>5. \A x \in S : wk_a[x] = wk_a[x]
  OBVIOUS
<1>6. Adds(wk_a, S, F)
  BY <1>2, <1>3
<1>7. F[S] = Sum(wk_a, S)
  BY ONLY <1>1, <1>5, <1>6, SumIs
<1> QED BY <1>4, <1>7 DEF S

LEMMA UpperSum == Lab!MapThenSumSet(LAMBDA k : k, WalkN \div 2..WalkN - 1) = Sum(Same, Upper)
<1> DEFINE A(t) == t = [s \in SUBSET Upper |->
                          IF s = {} THEN 0 ELSE (CHOOSE x \in s : TRUE) + t[s \ {CHOOSE x \in s : TRUE}]]
           F == CHOOSE t : A(t)
<1>1. Ints(Same, Upper)
  <2>1. IsFiniteSet(Upper)
    BY WalkSizes, FS_Subset
  <2>2. \A x \in Upper : x \in Elements /\ x \in Int
    BY WalkSizes DEF Elements
  <2> QED BY <2>1, <2>2 DEF Ints, Same
<1>2. \A t : A(t) <=> Adds(Same, Upper, t)
  <2>1. ASSUME NEW s \in SUBSET Upper, s /= {} PROVE Same[CHOOSE x \in s : TRUE] = (CHOOSE x \in s : TRUE)
    <3>1. (CHOOSE x \in s : TRUE) \in Elements
      BY <2>1, WalkSizes
    <3> QED BY <3>1 DEF Same
  <2> SUFFICES ASSUME NEW t PROVE A(t) <=> Adds(Same, Upper, t)
    OBVIOUS
  <2>2. [s \in SUBSET Upper |-> IF s = {} THEN 0 ELSE (CHOOSE x \in s : TRUE) + t[s \ {CHOOSE x \in s : TRUE}]]
        = [s \in SUBSET Upper |-> IF s = {} THEN 0 ELSE Same[CHOOSE x \in s : TRUE] + t[s \ {CHOOSE x \in s : TRUE}]]
    BY <2>1
  <2>3. Adds(Same, Upper, t) <=> t = [s \in SUBSET Upper |-> IF s = {} THEN 0 ELSE Same[CHOOSE x \in s : TRUE] + t[s \ {CHOOSE x \in s : TRUE}]]
    BY DEF Adds, Picked
  <2> QED BY <2>2, <2>3
<1>4. Lab!MapThenSumSet(LAMBDA k : k, WalkN \div 2..WalkN - 1) = F[Upper]
  BY DEF Lab!MapThenSumSet, Lab!MapThenFoldSet, Upper
<1>3. A(F)
  <2>1. \E t : A(t)
    <3>1. \E t \in [SUBSET Upper -> Int] : Adds(Same, Upper, t)
      BY ONLY <1>1, SumsExist
    <3> HIDE DEF A
    <3> QED BY <1>2, <3>1
  <2> HIDE DEF A
  <2> QED BY <2>1
<1> HIDE DEF A, F
<1>5. \A x \in Upper : Same[x] = Same[x]
  OBVIOUS
<1>6. Adds(Same, Upper, F)
  BY <1>2, <1>3
<1>7. F[Upper] = Sum(Same, Upper)
  BY ONLY <1>1, <1>5, <1>6, SumIs
<1> QED BY <1>4, <1>7

LEMMA WalkMeans == WalkInv => Lab!Comparable
<1> SUFFICES ASSUME WalkInv PROVE Lab!Comparable
  OBVIOUS
<1>0. WalkTypes /\ EachCounts /\ PagesCount /\ HalfSums /\ Drops
  BY DEF WalkInv
<1>1. ASSUME wk_walk \in {"sequential", "random", "strided"} PROVE Lab!Counters = wk_i
  <2>1. wk_a \in [Elements -> Nat] /\ Sum(wk_a, Elements) = wk_i
    BY <1>0, <1>1 DEF EachCounts
  <2>2. DOMAIN wk_a = Elements /\ Ints(wk_a, DOMAIN wk_a)
    BY <2>1, WalkSizes DEF Ints
  <2> QED BY <2>1, <2>2, CountersSum
<1>2. ASSUME wk_walk = "measure", wk_at = "done"
      PROVE  wk_sink = walk_rounds /\ Lab!Counters = walk_rounds * WalkN
  <2>1. wk_a \in [0..(wk_D * WalkN - 1) -> Nat]
    BY <1>0, <1>2 DEF PagesCount
  <2>2. PICK j \in 0..WalkN : Passed(j)
    BY <1>0, <1>2 DEF PagesCount
  <2>3. /\ wk_sink = walk_rounds /\ wk_r = walk_rounds /\ j = 0
        /\ Sum(wk_a, DOMAIN wk_a) = walk_rounds * WalkN + 0
    BY <1>2, <2>2 DEF Passed
  <2>4. Ints(wk_a, DOMAIN wk_a)
    <3>1. 0 \in Int /\ wk_D * WalkN - 1 \in Int
      BY <1>0, WalkSizes DEF WalkTypes
    <3>2. IsFiniteSet(0..(wk_D * WalkN - 1))
      BY <3>1, FS_Interval
    <3> QED BY <2>1, <3>2 DEF Ints
  <2>5. walk_rounds * WalkN + 0 = walk_rounds * WalkN
    BY LabAssumption
  <2> QED BY <2>3, <2>4, <2>5, CountersSum
<1>3. ASSUME Lab!Summing, wk_at = "done"
      PROVE  wk_sum = walk_rounds * Lab!MapThenSumSet(LAMBDA k : k, WalkN \div 2..WalkN - 1)
  <2>1. wk_r = walk_rounds /\ wk_i = 0 /\ wk_sum = wk_r * Sum(Same, Upper) + Sum(SeenHalves, 0..(wk_i - 1))
    BY <1>0, <1>3 DEF HalfSums, Lab!Summing, Branches
  <2>2. 0..(wk_i - 1) = {}
    BY <2>1
  <2>3. Sum(SeenHalves, 0..(wk_i - 1)) = 0
    BY <2>2, SumNone
  <2>4. wk_sum = walk_rounds * Sum(Same, Upper)
    BY <2>1, <2>3, LabAssumption, HalvesSum
  <2> QED BY <2>4, UpperSum
<1>4. ASSUME wk_walk = "sweep", wk_at = "done"
      PROVE  /\ wk_l1_cliff_idx /= 0 /\ (wk_l2_cliff_idx >= 0 => wk_l1_cliff_idx \in 1..wk_l2_cliff_idx - 1)
             /\ wk_l1_cliff_idx >= 0 <=> \E k \in DOMAIN wk_a : Lab!Below(k)
             /\ wk_l2_cliff_idx >= 0 <=> \E k, m \in DOMAIN wk_a : m < k /\ Lab!Below(m) /\ Lab!Halved(k)
  <2> DEFINE l == wk_l1_cliff_idx
             m == wk_l2_cliff_idx
  <2>1. DOMAIN wk_a = Elements /\ \A k \in Elements : wk_a[k] \in Nat /\ k \in Int /\ k >= 0 /\ k <= WalkN - 1
    BY <1>0, <1>4 DEF Drops, Elements
  <2>2. \/ l = -1 /\ \A k \in Elements : wk_a[k] >= 70
        \/ l \in Elements /\ l >= 1 /\ wk_a[l] < 70 /\ \A k \in 0..(l - 1) : wk_a[k] >= 70
    BY <1>0, <1>4, WalkSizes DEF Drops, Elements
  <2>3. \/ m = -1 /\ \A k \in Elements : l >= 0 /\ k > l => 2 * wk_a[k] >= wk_a[k - 1]
        \/ l >= 0 /\ m \in Elements /\ m > l /\ 2 * wk_a[m] < wk_a[m - 1]
    BY <1>0, <1>4, <2>2, WalkSizes DEF Drops, Elements
  <2>4. l /= 0 /\ (m >= 0 => l \in 1..m - 1)
    BY <2>1, <2>2, <2>3
  <2>5. l >= 0 <=> \E k \in Elements : Lab!Below(k)
    <3>1. \A k \in Elements : Lab!Below(k) <=> wk_a[k] < 70
      BY DEF Lab!Below
    <3> QED BY <2>1, <2>2, <3>1
  <2>6. \A k \in Elements : Lab!Halved(k) <=> k > 0 /\ 2 * wk_a[k] < wk_a[k - 1]
    BY DEF Lab!Halved
  <2>7. m >= 0 => \E k, n \in Elements : n < k /\ Lab!Below(n) /\ Lab!Halved(k)
    <3> SUFFICES ASSUME m >= 0 PROVE \E k, n \in Elements : n < k /\ Lab!Below(n) /\ Lab!Halved(k)
      OBVIOUS
    <3>1. l \in Elements /\ m \in Elements /\ l < m /\ m > 0 /\ wk_a[l] < 70 /\ 2 * wk_a[m] < wk_a[m - 1]
      BY <2>1, <2>2, <2>3
    <3> QED BY <2>6, <3>1 DEF Lab!Below
  <2>8. ASSUME NEW k \in Elements, NEW n \in Elements, n < k, Lab!Below(n), Lab!Halved(k) PROVE m >= 0
    <3>1. l >= 0 /\ l \in Elements /\ l <= n
      <4>1. wk_a[n] < 70 /\ wk_a[n] \in Nat
        BY <2>1, <2>8 DEF Lab!Below
      <4> QED BY <2>1, <2>2, <4>1
    <3>2. k > l /\ 2 * wk_a[k] < wk_a[k - 1]
      BY <2>1, <2>6, <2>8, <3>1
    <3>3. k - 1 \in Elements
      <4>1. k \in Int /\ n \in Int /\ n >= 0 /\ k <= WalkN - 1 /\ n < k
        BY <2>1, <2>8
      <4> QED BY <4>1, WalkSizes DEF Elements
    <3>4. ~(2 * wk_a[k] >= wk_a[k - 1])
      BY <2>1, <3>2, <3>3
    <3> QED BY <2>1, <2>3, <3>1, <3>2, <3>4
  <2> QED BY <2>1, <2>4, <2>5, <2>7, <2>8
<1> QED BY <1>1, <1>2, <1>3, <1>4 DEF Lab!Comparable

\* PerfLabs: the walks that are compared make as many accesses in any order, the loop that
\* is timed counts in every round what it reads at the end, the sums with and without a
\* branch are the same, and the two drops are two: for arrays of any even size, any
\* stride, number of rounds and throughputs.
THEOREM WalksCompare == Lab!WalkSpec => []Lab!Comparable
<1>1. WalkInv /\ [Lab!WalkNext]_(Lab!walk_vars) => WalkInv'
  BY WalkSteps
<1> QED BY WalkBegins, <1>1, WalkMeans, PTL DEF Lab!WalkSpec

------------------------------------------------------------------------------
(* PerfLabs: the calls that are timed.                                     *)

\* What a pass adds up when nothing is drawn.
CallNumbers == 0..(DispN - 1)
Called == [i \in CallNumbers |-> Lab!compute(Lab!Target(i, <<>>), i)]
OneTarget == {"direct_call", "mono_virtual", "funcptr_single"}

\* The objects that were made are there until they are freed, with their operations.
Objects ==
  /\ di_phase /= "make" /\ Lab!Virtual =>
       /\ di_ops \in [CallNumbers -> 0..3]
       /\ di_mode = "mono_virtual" => \A i \in CallNumbers : di_ops[i] = 0
       /\ di_mode = "dual_virtual" => \A i \in CallNumbers : di_ops[i] = i % 2
  /\ di_phase = "make" \/ ~Lab!Virtual => di_ops = <<>>
  /\ di_alive = IF Lab!Virtual /\ di_phase \in {"warmup", "trial", "free"} THEN DispN ELSE 0

\* A trial has the sums of its own passes, and there are as many trials as there should be.
Trials ==
  /\ di_times \in Seq(Times) /\ di_r \in Nat
  /\ di_phase = "trial" /\ di_mode /= "switch_random" => di_sum = di_r * Sum(Called, CallNumbers)
  /\ di_phase \in {"make", "warmup", "trial"} => Len(di_times) < TRIALS
  /\ di_phase \in {"free", "pick", "done"} => Len(di_times) = TRIALS
  /\ di_phase = "done" =>
       /\ \A i, j \in 1..TRIALS : i < j => di_times[i] <= di_times[j]
       /\ di_median = di_times[TRIALS \div 2 + 1]

DispInv ==
  /\ di_mode \in Lab!Modes /\ di_phase \in {"make", "warmup", "trial", "free", "pick", "done"}
  /\ Objects /\ Trials

LEMMA DispSizes ==
  /\ DispN \in Nat /\ IsFiniteSet(CallNumbers) /\ Cardinality(CallNumbers) = DispN
  /\ TRIALS \in Nat /\ TRIALS \div 2 \in Nat /\ TRIALS = 2 * (TRIALS \div 2) + 1
<1>1. DispN \in Nat /\ TRIALS \in Nat /\ TRIALS % 2 = 1
  BY LabAssumption
<1>2. IsFiniteSet(CallNumbers) /\ Cardinality(CallNumbers) = DispN
  <2>1. 0 \in Int /\ DispN - 1 \in Int /\ (0 > DispN - 1 => DispN = 0) /\ (DispN - 1) - 0 + 1 = DispN
    BY <1>1
  <2>2. IsFiniteSet(0..(DispN - 1)) /\ Cardinality(0..(DispN - 1)) = IF 0 > DispN - 1 THEN 0 ELSE (DispN - 1) - 0 + 1
    BY ONLY <2>1, FS_Interval
  <2> QED BY <2>1, <2>2 DEF CallNumbers
<1>3. TRIALS \div 2 \in Nat /\ TRIALS = 2 * (TRIALS \div 2) + (TRIALS % 2)
  BY <1>1, QuotientIs, DivMod
<1> QED BY <1>1, <1>2, <1>3

\* A call that goes to one of the five operations has a number for its result.
LEMMA Computes ==
  ASSUME NEW i \in CallNumbers, NEW op \in 0..4
  PROVE  Lab!compute(op, i) \in Int
<1>1. i \in Nat
  BY DispSizes DEF CallNumbers
<1>2. i \div 2 \in Nat
  BY <1>1, QuotientIs
<1>3. op = 0 \/ op = 1 \/ op = 2 \/ op = 3 \/ op = 4
  OBVIOUS
<1> QED BY <1>1, <1>2, <1>3 DEF Lab!compute

LEMMA CalledInts ==
  ASSUME DispInv, di_phase /= "make", di_mode /= "switch_random"
  PROVE  Ints(Called, CallNumbers) /\ Sum(Called, CallNumbers) \in Int
<1>1. ASSUME NEW i \in CallNumbers PROVE Lab!Target(i, <<>>) \in 0..4
  <2>1. i \in Int /\ i % 4 \in 0..3 /\ i % 5 \in 0..4
    <3>1. i \in Int
      BY DispSizes DEF CallNumbers
    <3> QED BY <3>1, DivMod
  <2>2. CASE Lab!Virtual
    <3>1. di_ops[i] \in 0..3
      BY <2>2 DEF DispInv, Objects
    <3>2. Lab!Target(i, <<>>) = di_ops[i]
      BY <2>2 DEF Lab!Target, Lab!Virtual
    <3> QED BY <3>1, <3>2
  <2>3. CASE ~Lab!Virtual
    BY <2>1, <2>3 DEF Lab!Target, Lab!Virtual, DispInv, Lab!Modes
  <2> QED BY <2>2, <2>3
<1>2. \A i \in CallNumbers : Called[i] \in Int
  BY <1>1, Computes DEF Called
<1>3. Ints(Called, CallNumbers)
  BY <1>2, DispSizes DEF Ints
<1> QED BY <1>3, SumAdds

LEMMA PassSum ==
  ASSUME DispInv, di_phase /= "make", di_mode /= "switch_random"
  PROVE  Lab!MapThenSumSet(LAMBDA i : Lab!compute(Lab!Target(i, <<>>), i), Lab!Calls) = Sum(Called, CallNumbers)
<1> DEFINE C(i) == Lab!compute(Lab!Target(i, <<>>), i)
           A(t) == t = [s \in SUBSET CallNumbers |->
                          IF s = {} THEN 0 ELSE C(CHOOSE x \in s : TRUE) + t[s \ {CHOOSE x \in s : TRUE}]]
           F == CHOOSE t : A(t)
<1>1. Ints(Called, CallNumbers)
  BY CalledInts
<1>4. Lab!MapThenSumSet(LAMBDA i : Lab!compute(Lab!Target(i, <<>>), i), Lab!Calls) = F[CallNumbers]
  BY DEF Lab!MapThenSumSet, Lab!MapThenFoldSet, Lab!Calls, CallNumbers
<1>8. \A i \in CallNumbers : Called[i] = C(i)
  BY DEF Called
<1> HIDE DEF C
<1>2. \A t : A(t) <=> Adds(Called, CallNumbers, t)
  <2>1. ASSUME NEW s \in SUBSET CallNumbers, s /= {} PROVE Called[CHOOSE x \in s : TRUE] = C(CHOOSE x \in s : TRUE)
    <3>1. (CHOOSE x \in s : TRUE) \in CallNumbers
      BY <2>1
    <3> QED BY <3>1, <1>8
  <2> SUFFICES ASSUME NEW t PROVE A(t) <=> Adds(Called, CallNumbers, t)
    OBVIOUS
  <2>2. [s \in SUBSET CallNumbers |-> IF s = {} THEN 0 ELSE C(CHOOSE x \in s : TRUE) + t[s \ {CHOOSE x \in s : TRUE}]]
        = [s \in SUBSET CallNumbers |-> IF s = {} THEN 0 ELSE Called[CHOOSE x \in s : TRUE] + t[s \ {CHOOSE x \in s : TRUE}]]
    BY <2>1
  <2>3. Adds(Called, CallNumbers, t) <=> t = [s \in SUBSET CallNumbers |-> IF s = {} THEN 0 ELSE Called[CHOOSE x \in s : TRUE] + t[s \ {CHOOSE x \in s : TRUE}]]
    BY DEF Adds, Picked
  <2> QED BY <2>2, <2>3
<1>3. A(F)
  <2>1. \E t : A(t)
    <3>1. \E t \in [SUBSET CallNumbers -> Int] : Adds(Called, CallNumbers, t)
      BY ONLY <1>1, SumsExist
    <3> HIDE DEF A
    <3> QED BY <1>2, <3>1
  <2> HIDE DEF A
  <2> QED BY <2>1
<1> HIDE DEF A, F
<1>5. \A x \in CallNumbers : Called[x] = Called[x]
  OBVIOUS
<1>6. Adds(Called, CallNumbers, F)
  BY <1>2, <1>3
<1>7. F[CallNumbers] = Sum(Called, CallNumbers)
  BY ONLY <1>1, <1>5, <1>6, SumIs
<1> QED BY <1>4, <1>7

LEMMA DispBegins == Lab!DispInit => DispInv
<1> SUFFICES ASSUME Lab!DispInit PROVE DispInv
  OBVIOUS
<1>1. di_times \in Seq(Times) /\ Len(di_times) = 0
  BY DEF Lab!DispInit
<1> QED BY <1>1, DispSizes DEF DispInv, Objects, Trials, Lab!DispInit, Lab!Virtual

LEMMA MakeStep == ASSUME DispInv, Lab!make_ops PROVE DispInv'
<1>1. di_phase = "make" /\ di_phase' = "warmup" /\ di_mode' = di_mode /\ Lab!Virtual' = Lab!Virtual
  BY DEF Lab!make_ops, Lab!Virtual
<1>2. Trials'
  BY <1>1 DEF DispInv, Trials, Lab!make_ops
<1>3. Objects'
  <2>1. CASE Lab!Virtual
    <3>1. /\ di_ops' \in [CallNumbers -> IF di_mode = "mega_virtual" THEN 0..3 ELSE 0..1]
          /\ di_mode = "mono_virtual" => \A i \in CallNumbers : di_ops'[i] = 0
          /\ di_mode = "dual_virtual" => \A i \in CallNumbers : di_ops'[i] = i % 2
          /\ di_alive' = DispN
      BY <2>1 DEF Lab!make_ops, Lab!Calls, CallNumbers
    <3>2. di_ops' \in [CallNumbers -> 0..3]
      BY <3>1
    <3> QED BY <1>1, <2>1, <3>1, <3>2 DEF Objects
  <2>2. CASE ~Lab!Virtual
    BY <1>1, <2>2 DEF Objects, DispInv, Lab!make_ops
  <2> QED BY <2>1, <2>2
<1> QED BY <1>1, <1>2, <1>3 DEF DispInv

LEMMA PassStep == ASSUME DispInv, Lab!Pass PROVE DispInv'
<1>1. /\ di_phase' = di_phase /\ di_mode' = di_mode /\ di_ops' = di_ops /\ di_alive' = di_alive
      /\ di_times' = di_times /\ di_median' = di_median /\ di_r' = di_r + 1 /\ di_phase \in {"warmup", "trial"}
  BY DEF Lab!Pass
<1>2. Objects' /\ Called' = Called
  BY <1>1 DEF DispInv, Objects, Lab!Virtual, Called, Lab!Target
<1>3. ASSUME di_phase = "trial", di_mode /= "switch_random" PROVE di_sum' = di_r' * Sum(Called, CallNumbers)
  <2>1. PICK d \in Lab!Draws : di_sum' = di_sum + Lab!MapThenSumSet(LAMBDA i : Lab!compute(Lab!Target(i, d), i), Lab!Calls)
    BY DEF Lab!Pass
  <2>2. d = <<>>
    BY <1>3 DEF Lab!Draws
  <2>3. di_sum' = di_sum + Sum(Called, CallNumbers) /\ Sum(Called, CallNumbers) \in Int
    BY <1>3, <2>1, <2>2, PassSum, CalledInts
  <2> DEFINE s == Sum(Called, CallNumbers)
  <2>4. di_sum = di_r * s /\ di_r \in Nat
    BY <1>3 DEF DispInv, Trials
  <2>5. s \in Int /\ di_sum' = di_r * s + s
    BY <2>3, <2>4
  <2> HIDE DEF s
  <2>6. di_r * s + s = (di_r + 1) * s
    BY <2>4, <2>5
  <2> QED BY <1>1, <2>5, <2>6 DEF s
<1>4. Trials'
  BY <1>1, <1>2, <1>3 DEF DispInv, Trials
<1> QED BY <1>1, <1>2, <1>4 DEF DispInv

LEMMA WarmStep == ASSUME DispInv, Lab!Warm PROVE DispInv'
<1>1. /\ di_phase = "warmup" /\ di_phase' = "trial" /\ di_r' = 0 /\ di_sum' = 0
      /\ di_mode' = di_mode /\ di_ops' = di_ops /\ di_alive' = di_alive /\ di_times' = di_times
  BY DEF Lab!Warm
<1>2. Objects' /\ Called' = Called
  BY <1>1 DEF DispInv, Objects, Lab!Virtual, Called, Lab!Target
<1>3. di_mode /= "switch_random" => 0 * Sum(Called, CallNumbers) = 0
  BY <1>1, CalledInts
<1>4. Trials'
  BY <1>1, <1>2, <1>3 DEF DispInv, Trials
<1> QED BY <1>1, <1>2, <1>4 DEF DispInv

LEMMA TimedStep == ASSUME DispInv, Lab!Timed PROVE DispInv'
<1>1. /\ di_phase = "trial" /\ di_mode' = di_mode /\ di_ops' = di_ops /\ di_alive' = di_alive
      /\ di_median' = di_median
  BY DEF Lab!Timed
<1>2. Lab!Virtual' = Lab!Virtual /\ Called' = Called
  BY <1>1 DEF Lab!Virtual, Called, Lab!Target
<1>3. PICK t \in Times : di_times' = Append(di_times, t)
  BY DEF Lab!Timed
<1>4. di_times' \in Seq(Times) /\ Len(di_times') = Len(di_times) + 1 /\ Len(di_times) \in Nat /\ Len(di_times) < TRIALS
  BY <1>1, <1>3 DEF DispInv, Trials
<1>5. CASE Len(di_times') < TRIALS
  <2>1. di_r' = 0 /\ di_sum' = 0 /\ di_phase' = di_phase
    BY <1>5 DEF Lab!Timed
  <2>2. Objects'
    BY <1>1, <1>2, <2>1 DEF DispInv, Objects
  <2>3. di_mode /= "switch_random" => 0 * Sum(Called, CallNumbers) = 0
    BY <1>1, CalledInts
  <2>4. Trials'
    BY <1>1, <1>2, <1>4, <1>5, <2>1, <2>3 DEF Trials
  <2> QED BY <1>1, <2>1, <2>2, <2>4 DEF DispInv
<1>6. CASE ~(Len(di_times') < TRIALS)
  <2>1. di_r' = di_r /\ di_phase' = "free"
    BY <1>6 DEF Lab!Timed
  <2>2. Objects'
    BY <1>1, <1>2, <2>1 DEF DispInv, Objects
  <2>3. Len(di_times') = TRIALS
    BY <1>4, <1>6, DispSizes
  <2>4. Trials'
    BY <1>1, <1>2, <1>4, <2>1, <2>3 DEF DispInv, Trials
  <2> QED BY <1>1, <2>1, <2>2, <2>4 DEF DispInv
<1> QED BY <1>5, <1>6

LEMMA FreeStep == ASSUME DispInv, Lab!free_ops PROVE DispInv'
<1>1. /\ di_phase = "free" /\ di_phase' = "pick" /\ di_mode' = di_mode /\ di_ops' = di_ops /\ di_r' = di_r
      /\ di_times' = di_times /\ di_median' = di_median /\ di_alive' = di_alive - Cardinality(DOMAIN di_ops)
  BY LabCounted DEF Lab!free_ops
<1>2. Lab!Virtual' = Lab!Virtual
  BY <1>1 DEF Lab!Virtual
<1>3. di_alive' = 0
  <2>1. CASE Lab!Virtual
    <3>1. DOMAIN di_ops = CallNumbers /\ di_alive = DispN
      BY <1>1, <2>1 DEF DispInv, Objects
    <3> QED BY <1>1, <3>1, DispSizes
  <2>2. CASE ~Lab!Virtual
    <3>1. DOMAIN di_ops = {} /\ di_alive = 0
      BY <1>1, <2>2 DEF DispInv, Objects
    <3> QED BY <1>1, <3>1, FS_EmptySet
  <2> QED BY <2>1, <2>2
<1>4. Objects'
  BY <1>1, <1>2, <1>3 DEF DispInv, Objects
<1>5. Trials'
  BY <1>1 DEF DispInv, Trials
<1> QED BY <1>1, <1>4, <1>5 DEF DispInv

LEMMA MedianStep == ASSUME DispInv, Lab!pick_median PROVE DispInv'
<1>1. /\ di_phase = "pick" /\ di_phase' = "done" /\ di_mode' = di_mode /\ di_ops' = di_ops /\ di_r' = di_r
      /\ di_alive' = di_alive /\ di_median' = di_times'[Len(di_times) \div 2 + 1]
      /\ di_times' \in Lab!Rearranged(di_times) /\ \A i, j \in 1..TRIALS : i < j => di_times'[i] <= di_times'[j]
  BY DEF Lab!pick_median
<1>2. Objects'
  BY <1>1 DEF DispInv, Objects, Lab!Virtual
<1>3. di_times \in Seq(Times) /\ Len(di_times) = TRIALS /\ DOMAIN di_times = 1..TRIALS
  BY <1>1 DEF DispInv, Trials
<1>4. di_times' \in Seq(Times) /\ Len(di_times') = TRIALS
  <2>1. PICK p \in [DOMAIN di_times -> DOMAIN di_times] : di_times' = [i \in DOMAIN di_times |-> di_times[p[i]]]
    BY <1>1 DEF Lab!Rearranged
  <2>2. \A i \in 1..TRIALS : di_times[p[i]] \in Times
    BY <1>3, <2>1
  <2>3. di_times' = [i \in 1..TRIALS |-> di_times[p[i]]] /\ TRIALS \in Nat
    BY <1>3, <2>1, DispSizes
  <2> QED BY <2>2, <2>3
<1>5. di_r \in Nat
  BY DEF DispInv, Trials
<1>6. Trials'
  BY <1>1, <1>3, <1>4, <1>5 DEF Trials
<1> QED BY <1>1, <1>2, <1>6 DEF DispInv

LEMMA DispSteps == ASSUME DispInv, [Lab!DispNext]_(Lab!disp_vars) PROVE DispInv'
<1>1. CASE UNCHANGED Lab!disp_vars
  <2>1. /\ di_mode' = di_mode /\ di_ops' = di_ops /\ di_alive' = di_alive /\ di_phase' = di_phase
        /\ di_r' = di_r /\ di_sum' = di_sum /\ di_times' = di_times /\ di_median' = di_median
    BY <1>1 DEF Lab!disp_vars
  <2> QED BY <2>1 DEF DispInv, Objects, Trials, Lab!Virtual, Called, Lab!Target
<1> QED BY <1>1, MakeStep, PassStep, WarmStep, TimedStep, FreeStep, MedianStep DEF Lab!DispNext

------------------------------------------------------------------------------
\* To call one target for 0, 1, ... adds up 1, 2, ..., N; to call two by turns takes two off
\* for every second call.
LEMMA FirstNumbers ==
  ASSUME NEW f, \A i \in CallNumbers : f[i] = i + 1
  PROVE  2 * Sum(f, CallNumbers) = DispN * (DispN + 1) /\ Sum(f, CallNumbers) \in Int
<1> DEFINE T == {n \in 0..DispN : 2 * Sum(f, 0..(n - 1)) = n * (n + 1) /\ Sum(f, 0..(n - 1)) \in Int}
<1>0. DispN \in Nat
  BY DispSizes
<1>1. 0 \in T
  <2>1. 0..(0 - 1) = {}
    OBVIOUS
  <2> QED BY <1>0, <2>1, SumNone
<1>2. ASSUME NEW n \in 0..(DispN - 1), n \in T PROVE n + 1 \in T
  <2>1. \A k \in 0..n : f[k] = k + 1 /\ f[k] \in Int
    BY <1>0 DEF CallNumbers
  <2>2. Sum(f, 0..n) = Sum(f, 0..(n - 1)) + f[n] /\ n \in Nat
    BY <1>0, <2>1, SumOneMore
  <2> DEFINE s == Sum(f, 0..(n - 1))
             u == Sum(f, 0..n)
  <2>3. 2 * s = n * (n + 1) /\ s \in Int /\ n \in Nat /\ u = s + (n + 1)
    BY <1>2, <2>1, <2>2
  <2> HIDE DEF s, u
  <2>4. 2 * u = (n + 1) * ((n + 1) + 1) /\ u \in Int
    BY <2>3
  <2>5. (n + 1) - 1 = n /\ n + 1 \in 0..DispN
    BY <1>0
  <2> QED BY <2>4, <2>5 DEF u
<1> HIDE DEF T
<1>3. DispN \in T
  <2>1. 0..DispN \subseteq T
    BY ONLY <1>0, <1>1, <1>2, UptoInduction
  <2> QED BY <1>0, <2>1
<1> QED BY <1>3 DEF T, CallNumbers

LEMMA ByTurns ==
  ASSUME NEW f, \A i \in CallNumbers : f[i] = i + 1 - 2 * (i % 2)
  PROVE  2 * Sum(f, CallNumbers) = DispN * (DispN + 1) - 4 * (DispN \div 2) /\ Sum(f, CallNumbers) \in Int
<1> DEFINE T == {n \in 0..DispN : 2 * Sum(f, 0..(n - 1)) = n * (n + 1) - 4 * (n \div 2) /\ Sum(f, 0..(n - 1)) \in Int}
<1>0. DispN \in Nat
  BY DispSizes
<1>1. 0 \in T
  <2>1. 0..(0 - 1) = {} /\ 0 \div 2 = 0
    OBVIOUS
  <2> QED BY <1>0, <2>1, SumNone
<1>2. ASSUME NEW n \in 0..(DispN - 1), n \in T PROVE n + 1 \in T
  <2>1. \A k \in 0..n : f[k] = k + 1 - 2 * (k % 2) /\ f[k] \in Int
    <3>1. ASSUME NEW k \in 0..n PROVE k \in CallNumbers /\ k \in Int /\ k % 2 \in Int
      BY <1>0, DivMod DEF CallNumbers
    <3>2. ASSUME NEW k \in 0..n PROVE f[k] = k + 1 - 2 * (k % 2) /\ f[k] \in Int
      BY <3>1
    <3> QED BY <3>2
  <2>2. Sum(f, 0..n) = Sum(f, 0..(n - 1)) + f[n] /\ n \in Nat
    BY <1>0, <2>1, SumOneMore
  <2>6. n \div 2 \in Int /\ n % 2 \in {0, 1} /\ n = 2 * (n \div 2) + (n % 2)
    BY <2>2, DivMod
  <2>7. (n + 1) \div 2 = (n \div 2) + (n % 2)
    <3> DEFINE q == n \div 2
               b == n % 2
               q2 == (n + 1) \div 2
               b2 == (n + 1) % 2
    <3>1. q2 \in Int /\ b2 \in {0, 1} /\ n + 1 = 2 * q2 + b2
      BY <2>2, DivMod
    <3>2. q \in Int /\ b \in {0, 1} /\ n = 2 * q + b /\ n \in Nat
      BY <2>2, <2>6
    <3> HIDE DEF q, b, q2, b2
    <3>3. q2 = q + b
      BY <3>1, <3>2
    <3> QED BY <3>3 DEF q, b, q2
  <2> DEFINE s == Sum(f, 0..(n - 1))
             u == Sum(f, 0..n)
             h == n \div 2
             b == n % 2
  <2>3. 2 * s = n * (n + 1) - 4 * h /\ s \in Int /\ n \in Nat /\ u = s + (n + 1 - 2 * b) /\ h \in Int /\ b \in {0, 1}
    BY <1>2, <2>1, <2>2, <2>6
  <2>8. (n + 1) \div 2 = h + b
    BY <2>7
  <2> HIDE DEF s, u, h, b
  <2>4. 2 * u = (n + 1) * ((n + 1) + 1) - 4 * (h + b) /\ u \in Int
    BY <2>3
  <2>5. (n + 1) - 1 = n /\ n + 1 \in 0..DispN
    BY <1>0
  <2> QED BY <2>4, <2>5, <2>8 DEF u
<1> HIDE DEF T
<1>3. DispN \in T
  <2>1. 0..DispN \subseteq T
    BY ONLY <1>0, <1>1, <1>2, UptoInduction
  <2> QED BY <1>0, <2>1
<1> QED BY <1>3 DEF T, CallNumbers

LEMMA DirectSum ==
  ASSUME NEW s \in Int, NEW k \in Int, 2 * s = DispN * (DispN + 1) - 4 * k
  PROVE  s = Lab!Direct - 2 * k
<1> DEFINE x == DispN * (DispN + 1)
           d == x \div 2
           b == x % 2
<1>1. x \in Int
  BY DispSizes
<1>2. x = 2 * d + b /\ b \in {0, 1} /\ d \in Int
  BY <1>1, DivMod
<1>3. Lab!Direct = d /\ 2 * s = x - 4 * k
  BY DEF Lab!Direct
<1> HIDE DEF x, d, b
<1> QED BY <1>1, <1>2, <1>3

LEMMA CallsAddUp ==
  ASSUME DispInv, di_phase /= "make"
  PROVE  /\ di_mode \in OneTarget => Sum(Called, CallNumbers) = Lab!Direct
         /\ di_mode = "dual_virtual" => Sum(Called, CallNumbers) = Lab!Direct - 2 * (DispN \div 2)
<1>0. \A i \in CallNumbers : i \in Nat
  BY DispSizes DEF CallNumbers
<1>1. ASSUME di_mode \in OneTarget PROVE Sum(Called, CallNumbers) = Lab!Direct
  <2>1. \A i \in CallNumbers : Lab!Target(i, <<>>) = 0
    BY <1>1 DEF OneTarget, Lab!Target, Lab!Virtual, DispInv, Objects
  <2>2. \A i \in CallNumbers : Called[i] = i + 1
    BY <2>1 DEF Called, Lab!compute
  <2>3. 2 * Sum(Called, CallNumbers) = DispN * (DispN + 1) /\ Sum(Called, CallNumbers) \in Int
    BY <2>2, FirstNumbers
  <2> DEFINE s == Sum(Called, CallNumbers)
  <2>4. s \in Int /\ 0 \in Int /\ 2 * s = DispN * (DispN + 1) - 4 * 0
    BY <2>3, DispSizes
  <2>5. Lab!Direct \in Int
    <3>1. DispN * (DispN + 1) \in Int
      BY DispSizes
    <3> QED BY <3>1, DivMod DEF Lab!Direct
  <2> HIDE DEF s
  <2>6. s = Lab!Direct - 2 * 0
    BY ONLY <2>4, DirectSum
  <2>7. s = Lab!Direct
    BY ONLY <2>5, <2>6
  <2> QED BY ONLY <2>7 DEF s
<1>2. ASSUME di_mode = "dual_virtual" PROVE Sum(Called, CallNumbers) = Lab!Direct - 2 * (DispN \div 2)
  <2>1. \A i \in CallNumbers : Lab!Target(i, <<>>) = i % 2 /\ i % 2 \in {0, 1}
    BY <1>0, <1>2, DivMod DEF Lab!Target, Lab!Virtual, DispInv, Objects
  <2>2. \A i \in CallNumbers : Called[i] = i + 1 - 2 * (i % 2)
    BY <1>0, <2>1 DEF Called, Lab!compute
  <2>3. 2 * Sum(Called, CallNumbers) = DispN * (DispN + 1) - 4 * (DispN \div 2) /\ Sum(Called, CallNumbers) \in Int
    BY <2>2, ByTurns
  <2>4. DispN \div 2 \in Int
    BY DispSizes, DivMod
  <2> DEFINE s == Sum(Called, CallNumbers)
             k == DispN \div 2
  <2>5. s \in Int /\ k \in Int /\ 2 * s = DispN * (DispN + 1) - 4 * k
    BY <2>3, <2>4
  <2> HIDE DEF s, k
  <2>6. s = Lab!Direct - 2 * k
    BY ONLY <2>5, DirectSum
  <2> QED BY ONLY <2>6 DEF s, k
<1> QED BY <1>1, <1>2

\* Of sorted trials as many may be before the middle as behind it.
LEMMA MedianIsMiddle ==
  ASSUME DispInv, di_phase = "done"
  PROVE  /\ 2 * Cardinality({k \in DOMAIN di_times : di_times[k] < di_median}) < TRIALS
         /\ 2 * Cardinality({k \in DOMAIN di_times : di_times[k] > di_median}) <= TRIALS
<1> DEFINE h == TRIALS \div 2
           Less == {k \in DOMAIN di_times : di_times[k] < di_median}
           More == {k \in DOMAIN di_times : di_times[k] > di_median}
<1>1. h \in Nat /\ TRIALS = 2 * h + 1
  BY DispSizes
<1>2. /\ DOMAIN di_times = 1..TRIALS /\ di_median = di_times[h + 1]
      /\ \A i, j \in 1..TRIALS : i < j => di_times[i] <= di_times[j]
      /\ \A i \in 1..TRIALS : di_times[i] \in Nat
  <2>1. di_times \in Seq(Times) /\ Len(di_times) = TRIALS
    BY DEF DispInv, Trials
  <2>2. di_times \in [1..TRIALS -> Times] /\ Times \subseteq Nat
    BY <2>1, LabAssumption
  <2> QED BY <2>2 DEF DispInv, Trials
<1> HIDE DEF h
<1>3. h + 1 \in 1..TRIALS
  BY <1>1
<1>4. Less \subseteq 1..h
  <2> SUFFICES ASSUME NEW k \in 1..TRIALS, di_times[k] < di_times[h + 1], ~(k <= h) PROVE FALSE
    BY <1>1, <1>2
  <2>1. k = h + 1 \/ h + 1 < k
    BY <1>1
  <2>2. di_times[k] \in Nat /\ di_times[h + 1] \in Nat /\ (h + 1 < k => di_times[h + 1] <= di_times[k])
    BY <1>2, <1>3
  <2> QED BY <2>1, <2>2
<1>5. More \subseteq (h + 2)..TRIALS
  <2> SUFFICES ASSUME NEW k \in 1..TRIALS, di_times[k] > di_times[h + 1], ~(k >= h + 2) PROVE FALSE
    BY <1>1, <1>2
  <2>1. k = h + 1 \/ k < h + 1
    BY <1>1
  <2>2. di_times[k] \in Nat /\ di_times[h + 1] \in Nat /\ (k < h + 1 => di_times[k] <= di_times[h + 1])
    BY <1>2, <1>3
  <2> QED BY <2>1, <2>2
<1>6. ASSUME NEW a \in Int, NEW b \in Int, NEW S, S \subseteq a..b, b - a + 1 = h
      PROVE  Cardinality(S) \in Nat /\ Cardinality(S) <= h
  <2>1. IsFiniteSet(a..b) /\ Cardinality(a..b) <= h
    <3>1. IsFiniteSet(a..b) /\ Cardinality(a..b) = IF a > b THEN 0 ELSE b - a + 1
      BY FS_Interval
    <3> QED BY <1>1, <1>6, <3>1
  <2>2. IsFiniteSet(S) /\ Cardinality(S) <= Cardinality(a..b)
    BY <1>6, <2>1, FS_Subset
  <2>3. Cardinality(S) \in Nat /\ Cardinality(a..b) \in Nat
    BY <2>1, <2>2, FS_CardinalityType
  <2> QED BY <1>1, <2>1, <2>2, <2>3
<1> HIDE DEF Less, More
<1>7. Cardinality(Less) \in Nat /\ Cardinality(Less) <= h
  <2>1. 1 \in Int /\ h \in Int /\ h - 1 + 1 = h
    BY <1>1
  <2> QED BY ONLY <1>4, <1>6, <2>1
<1>8. Cardinality(More) \in Nat /\ Cardinality(More) <= h
  <2>1. h + 2 \in Int /\ TRIALS \in Int /\ TRIALS - (h + 2) + 1 = h
    BY <1>1
  <2> QED BY ONLY <1>5, <1>6, <2>1
<1>9. 2 * Cardinality(Less) < TRIALS /\ 2 * Cardinality(More) <= TRIALS
  BY <1>1, <1>7, <1>8
<1> QED BY <1>9 DEF Less, More

LEMMA DispMeans == ASSUME DispInv PROVE Lab!SameWork
<1>1. ASSUME di_phase = "trial"
      PROVE  /\ di_mode \in OneTarget => di_sum = di_r * Lab!Direct
             /\ di_mode = "dual_virtual" => di_sum = di_r * (Lab!Direct - 2 * (DispN \div 2))
             /\ di_mode /= "switch_random" => di_sum % Lab!Max({di_r, 1}) = 0
  <2>1. di_mode /= "switch_random" => di_sum = di_r * Sum(Called, CallNumbers) /\ Sum(Called, CallNumbers) \in Int
    BY <1>1, CalledInts DEF DispInv, Trials
  <2>2. ASSUME di_mode /= "switch_random" PROVE di_sum % Lab!Max({di_r, 1}) = 0
    <3> DEFINE s == Sum(Called, CallNumbers)
               m == Lab!Max({di_r, 1})
    <3>1. s \in Int /\ di_sum = di_r * s /\ di_r \in Nat
      BY <2>1, <2>2 DEF DispInv, Trials
    <3>2. m = IF di_r = 0 THEN 1 ELSE di_r
      BY <3>1 DEF Lab!Max
    <3> HIDE DEF s, m
    <3>3. CASE di_r = 0
      <4>1. m \in Nat \ {0} /\ di_sum \in Int /\ 0 \in Int /\ 0 \in 0..(m - 1) /\ di_sum = m * 0 + 0
        BY <3>1, <3>2, <3>3
      <4>2. di_sum % m = 0
        BY ONLY <4>1, ModIs
      <4> QED BY <4>2 DEF m
    <3>4. CASE di_r /= 0
      <4>1. m \in Nat \ {0} /\ di_sum \in Int /\ s \in Int /\ 0 \in 0..(m - 1) /\ di_sum = m * s + 0
        BY <3>1, <3>2, <3>4
      <4>2. di_sum % m = 0
        BY ONLY <4>1, ModIs
      <4> QED BY <4>2 DEF m
    <3> QED BY <3>3, <3>4
  <2>3. di_mode \in OneTarget \/ di_mode = "dual_virtual" => di_mode /= "switch_random"
    BY DEF OneTarget
  <2> QED BY <1>1, <2>1, <2>2, <2>3, CallsAddUp
<1>2. di_phase \in {"warmup", "trial"} => di_alive = IF Lab!Virtual THEN DispN ELSE 0
  BY DEF DispInv, Objects
<1>3. di_phase = "done" => di_alive = 0 /\ Len(di_times) = TRIALS
  BY DEF DispInv, Objects, Trials
<1> QED BY <1>1, <1>2, <1>3, MedianIsMiddle, LabCounted DEF Lab!SameWork, OneTarget

\* PerfLabs: a trial adds up what its own passes call, one target called in any way what the
\* direct call does, the median has as many trials on either side, and the objects are gone
\* when it is reported: for any number of calls, rounds and (odd) trials, and any times.
THEOREM CallsCompare == Lab!DispSpec => []Lab!SameWork
<1>1. DispInv /\ [Lab!DispNext]_(Lab!disp_vars) => DispInv'
  BY DispSteps
<1> QED BY DispBegins, <1>1, DispMeans, PTL DEF Lab!DispSpec

\* The load generators and the performance labs: what a program counts is what happened,
\* whichever of them runs.
THEOREM WorkCounted ==
  Load!KpSpec /\ Load!BlkSpec /\ Lab!ThrSpec /\ Lab!WalkSpec /\ Lab!DispSpec => []CountedIsDone
  BY BenchCounts, BlockingCounts, ThreadsCount, WalksCompare, CallsCompare, PTL DEF CountedIsDone

==============================================================================
