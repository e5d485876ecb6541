-------------------------------- MODULE LoadGenerators --------------------------------
(***************************************************************************)
(* The load generators of the echo experiments.                            *)
(***************************************************************************)
EXTENDS Integers, Sequences, FiniteSetsExt

------------------------------------------------------------------------------
(***************************************************************************)
(* echo/day-03/echo-kp-bench.c: one thread per connection, all of them let *)
(* go by a barrier, each running its rounds over one connection (long) or  *)
(* over one of its own per round (short); main joins them and reports.     *)
(* The server at the other end is any program that echoes what it is sent  *)
(* and may close or reset a connection at any time.                        *)
(***************************************************************************)
CONSTANTS Workers,      \* the threads, one connection each
          Rounds,       \* rounds per connection
          payload_len,
          RoundTrips    \* what the clock may say of a round, in ns (> 0)

VARIABLES mode, created, g_ready,
          kp_at, r, got, failures, g_lat_us,     \* of each thread
          kp_line, echo,                         \* its connection, and the bytes on the way back
          whole,                              \* the rounds whose own payload came back
          joined, killed
threads == <<kp_at, r, got, failures, g_lat_us>>
kp_vars == <<mode, created, g_ready, threads, kp_line, echo, whole, joined, killed>>

Modes == {"long", "short"}
total_req == Cardinality(Workers) * Rounds

KpInit ==
  /\ mode \in Modes
  /\ created = {} /\ g_ready = {} /\ joined = {} /\ killed = FALSE
  /\ kp_at = [w \in Workers |-> "barrier"] /\ r = [w \in Workers |-> 0]
  /\ got = [w \in Workers |-> 0] /\ failures = [w \in Workers |-> 0]
  /\ g_lat_us = [w \in Workers |-> [k \in 0..Rounds - 1 |-> 0]]
  /\ kp_line = [w \in Workers |-> "none"] /\ echo = [w \in Workers |-> 0]
  /\ whole = {}

Create(w) ==           \* main's pthread_create
  /\ w \notin created
  /\ created' = created \cup {w}
  /\ UNCHANGED <<mode, g_ready, threads, kp_line, echo, whole, joined, killed>>

Arrive(w) ==           \* at the barrier, which counts main too
  /\ w \in created \ g_ready
  /\ g_ready' = g_ready \cup {w}
  /\ UNCHANGED <<mode, created, threads, kp_line, echo, whole, joined, killed>>

Flagged == created = Workers /\ g_ready = Workers

\* What a thread does when its round, or its connection, is over.
NextRound(w, failed) ==
  /\ failures' = [failures EXCEPT ![w] = @ + failed]
  /\ r' = [r EXCEPT ![w] = @ + 1]
  /\ kp_at' = [kp_at EXCEPT ![w] = IF r'[w] = Rounds THEN "done"
                                   ELSE IF mode = "long" THEN "write" ELSE "open"]
  /\ kp_line' = [kp_line EXCEPT ![w] = IF mode = "short" \/ r'[w] = Rounds THEN "none" ELSE @]

Open(w) ==             \* socket and connect
  /\ Flagged /\ kp_at[w] \in {"barrier", "open"} /\ r[w] < Rounds
  /\ kp_line' = [kp_line EXCEPT ![w] = "up"] /\ echo' = [echo EXCEPT ![w] = 0]
  /\ kp_at' = [kp_at EXCEPT ![w] = "write"]
  /\ UNCHANGED <<mode, created, g_ready, r, got, failures, g_lat_us, whole, joined, killed>>

OpenFails(w) ==        \* a long connection loses all its rounds, a short one this round
  /\ Flagged /\ kp_at[w] \in {"barrier", "open"} /\ r[w] < Rounds
  /\ IF mode = "long"
       THEN /\ failures' = [failures EXCEPT ![w] = Rounds]
            /\ kp_at' = [kp_at EXCEPT ![w] = "done"] /\ UNCHANGED <<r, kp_line>>
       ELSE NextRound(w, 1)
  /\ UNCHANGED <<mode, created, g_ready, got, g_lat_us, echo, whole, joined, killed>>

KpWrite(w) ==
  /\ kp_at[w] = "write" /\ kp_line[w] \in {"up", "fin"}
  /\ got' = [got EXCEPT ![w] = 0]
  /\ echo' = [echo EXCEPT ![w] = IF kp_line[w] = "up" THEN @ + payload_len ELSE @]
  /\ kp_line' = [kp_line EXCEPT ![w] = IF @ = "fin" THEN "rst" ELSE @]
  /\ kp_at' = [kp_at EXCEPT ![w] = "read"]
  /\ UNCHANGED <<mode, created, g_ready, r, failures, g_lat_us, whole, joined, killed>>

\* A write that fails is the end of a long connection, and one failed round.
WriteFails(w) ==
  /\ kp_at[w] = "write" /\ kp_line[w] = "rst"
  /\ IF mode = "long"
       THEN /\ failures' = [failures EXCEPT ![w] = @ + 1]
            /\ kp_at' = [kp_at EXCEPT ![w] = "done"] /\ kp_line' = [kp_line EXCEPT ![w] = "none"]
            /\ UNCHANGED r
       ELSE NextRound(w, 1)
  /\ UNCHANGED <<mode, created, g_ready, got, g_lat_us, echo, whole, joined, killed>>

\* The signal is not ignored: one connection that was reset ends the whole run.
SigPipe(w) ==
  /\ kp_at[w] = "write" /\ kp_line[w] = "rst"
  /\ killed' = TRUE
  /\ UNCHANGED <<mode, created, g_ready, threads, kp_line, echo, whole, joined>>

\* Mutant: whatever one read returns is the answer.
Read_Once(w) ==
  \E n \in 1..payload_len :
    /\ kp_at[w] = "read" /\ n <= echo[w]
    /\ got' = [got EXCEPT ![w] = payload_len] /\ echo' = [echo EXCEPT ![w] = @ - n]
    /\ UNCHANGED <<mode, created, g_ready, kp_at, r, failures, g_lat_us, kp_line, whole, joined, killed>>

KpRead(w) ==
  \E n \in 1..payload_len :
    /\ kp_at[w] = "read" /\ n <= echo[w] /\ n <= payload_len - got[w]
    /\ got' = [got EXCEPT ![w] = @ + n] /\ echo' = [echo EXCEPT ![w] = @ - n]
    /\ UNCHANGED <<mode, created, g_ready, kp_at, r, failures, g_lat_us, kp_line, whole, joined, killed>>

\* All of it came: the round is timed, in us.
Answered(w) ==
  /\ kp_at[w] = "read" /\ got[w] = payload_len
  /\ whole' = IF echo[w] = 0 THEN whole \cup {<<w, r[w]>>} ELSE whole
  /\ \E ns \in RoundTrips : g_lat_us' = [g_lat_us EXCEPT ![w][r[w]] = ns \div 1000]
  /\ NextRound(w, 0)
  /\ UNCHANGED <<mode, created, g_ready, got, echo, joined, killed>>

Unanswered(w) ==       \* read returned nothing or an error
  /\ kp_at[w] = "read" /\ got[w] < payload_len
  /\ kp_line[w] = "rst" \/ (kp_line[w] = "fin" /\ echo[w] = 0)
  /\ NextRound(w, 1)
  /\ UNCHANGED <<mode, created, g_ready, got, g_lat_us, echo, whole, joined, killed>>

KpServer(w) ==           \* closes or resets the connection, perhaps before it echoed all
  /\ kp_line[w] = "up" /\ kp_at[w] \in {"write", "read"}
  /\ kp_line' \in {[kp_line EXCEPT ![w] = "fin"], [kp_line EXCEPT ![w] = "rst"]}
  /\ \E n \in 0..echo[w] : echo' = [echo EXCEPT ![w] = n]
  /\ UNCHANGED <<mode, created, g_ready, threads, whole, joined, killed>>

Join(w) ==             \* in the order of creation, which nobody can tell
  /\ Flagged /\ w \notin joined /\ kp_at[w] = "done"
  /\ joined' = joined \cup {w}
  /\ UNCHANGED <<mode, created, g_ready, threads, kp_line, echo, whole, killed>>

Thread(w) == \/ Arrive(w) \/ Open(w) \/ OpenFails(w) \/ KpWrite(w) \/ WriteFails(w) \/ SigPipe(w)
             \/ KpRead(w) \/ Answered(w) \/ Unanswered(w)

KpNext == ~killed /\ \E w \in Workers : Create(w) \/ Join(w) \/ Thread(w) \/ KpServer(w)
KpSpec == KpInit /\ [][KpNext]_kp_vars
------------------------------------------------------------------------------
total_failures == MapThenSumSet(LAMBDA w : failures[w], Workers)
total_success == total_req - total_failures
valid == Cardinality({k \in Workers \X (0..Rounds - 1) : g_lat_us[k[1]][k[2]] > 0})

\* percentile takes p = num/den of n sorted values.
percentile(n, num, den) ==
  LET idx == (n * num) \div den IN IF idx >= n THEN n - 1 ELSE idx

\* The rounds a thread left when a write failed: neither run nor failed.
Unrun(w) == IF kp_at[w] = "done" THEN Rounds - Cardinality({k \in whole : k[1] = w}) - failures[w]
            ELSE 0

\* What main reports once all threads are joined: each round it calls ok had its own
\* payload come back, but for those a failed write left behind in a long connection;
\* the latencies are those of rounds that were ok, and no percentile is outside them.
CountsWhatCameBack ==
  joined = Workers =>
    /\ total_success = Cardinality(whole) + MapThenSumSet(Unrun, Workers)
    /\ mode = "short" => \A w \in Workers : Unrun(w) = 0
    /\ \A w \in Workers : Unrun(w) >= 0 /\ (Unrun(w) > 0 => r[w] < Rounds)
    /\ \A w \in Workers, k \in 0..Rounds - 1 : g_lat_us[w][k] > 0 => <<w, k>> \in whole
    /\ \A p \in {<<50, 100>>, <<90, 100>>, <<99, 100>>, <<999, 1000>>} :
         valid > 0 => percentile(valid, p[1], p[2]) \in 0..valid - 1

------------------------------------------------------------------------------
(***************************************************************************)
(* The echo server of echo/day-01/server.c, which serves one connection    *)
(* after the other with blocking calls, between two programs that call it: *)
(* the client of day-01 and the serial load generator                      *)
(* echo/day-02/echo-bench.c.                                               *)
(***************************************************************************)
CONSTANTS MsgLen,       \* bytes of "hello echo"
          num_conn, rounds

Bench == "bench"  Client == "client"  Callers == {Bench, Client}
None == "none"

VARIABLES backlog, serving, blk_n, alive,        \* the server: its queue, connection, what it read
          blk_at, blk_line, up, down, fin,           \* callers: where they are, and their connection
          total, sent, lats, runs            \* what a caller has read; the bench's results
server == <<backlog, serving, blk_n, alive>>
blk_vars == <<server, blk_at, blk_line, up, down, fin, total, sent, lats, runs>>

BlkInit ==
  /\ backlog = <<>> /\ serving = None /\ blk_n = 0 /\ alive = TRUE
  /\ blk_at = [c \in Callers |-> "connect"] /\ blk_line = [c \in Callers |-> "none"]
  /\ up = [c \in Callers |-> 0] /\ down = [c \in Callers |-> 0] /\ fin = [c \in Callers |-> FALSE]
  /\ total = [c \in Callers |-> 0] /\ sent = [c \in Callers |-> 0] /\ lats = <<>> /\ runs = 0

Requests == num_conn * rounds

\* The end of one request of c: the bench goes on to its next, the client exits.
Over(c) ==
  /\ runs' = IF c = Bench THEN runs + 1 ELSE runs
  /\ blk_at' = [blk_at EXCEPT ![c] = IF c = Bench /\ runs' < Requests THEN "connect" ELSE "done"]

Connect(c) ==
  /\ blk_at[c] = "connect" /\ alive
  /\ blk_line' = [blk_line EXCEPT ![c] = "up"] /\ blk_at' = [blk_at EXCEPT ![c] = "write"]
  /\ up' = [up EXCEPT ![c] = 0] /\ down' = [down EXCEPT ![c] = 0] /\ fin' = [fin EXCEPT ![c] = FALSE]
  /\ total' = [total EXCEPT ![c] = 0] /\ sent' = [sent EXCEPT ![c] = 0]
  /\ backlog' = Append(backlog, c)
  /\ UNCHANGED <<serving, blk_n, alive, lats, runs>>

ConnectFails(c) ==     \* nobody listens
  /\ blk_at[c] = "connect" /\ ~alive
  /\ Over(c)
  /\ UNCHANGED <<server, blk_line, up, down, fin, total, sent, lats>>

BlkWrite(c) ==            \* the bench closes its half after it
  /\ blk_at[c] = "write" /\ blk_line[c] = "up"
  /\ up' = [up EXCEPT ![c] = MsgLen] /\ sent' = [sent EXCEPT ![c] = MsgLen]
  /\ fin' = [fin EXCEPT ![c] = c = Bench]
  /\ blk_at' = [blk_at EXCEPT ![c] = "read"]
  /\ UNCHANGED <<server, blk_line, down, total, lats, runs>>

BlkRead(c) ==
  \E k \in 1..MsgLen :
    /\ blk_at[c] = "read" /\ k <= down[c]
    /\ down' = [down EXCEPT ![c] = @ - k] /\ total' = [total EXCEPT ![c] = @ + k]
    /\ blk_at' = [blk_at EXCEPT ![c] = IF c = Client THEN "close" ELSE "read"]  \* the client reads once
    /\ UNCHANGED <<server, blk_line, up, fin, sent, lats, runs>>

\* The server closed the connection: for the bench this is the end of the answer,
\* whose content it does not compare with what it sent.
ReadEnds(c) ==
  /\ blk_at[c] = "read" /\ blk_line[c] = "closed" /\ down[c] = 0
  /\ blk_at' = [blk_at EXCEPT ![c] = "close"]
  /\ UNCHANGED <<server, blk_line, up, down, fin, total, sent, lats, runs>>

Fails(c) ==            \* write or read returned an error
  /\ blk_at[c] \in {"write", "read"} /\ blk_line[c] = "reset"
  /\ blk_line' = [blk_line EXCEPT ![c] = "none"]
  /\ Over(c)
  /\ UNCHANGED <<server, up, down, fin, total, sent, lats>>

Close(c) ==            \* with data unread this is a reset
  /\ blk_at[c] = "close"
  /\ blk_line' = [blk_line EXCEPT ![c] = IF @ = "closed" THEN "none" ELSE IF down[c] > 0 THEN "gone" ELSE "left"]
  /\ lats' = IF c = Bench THEN Append(lats, total[c]) ELSE lats
  /\ Over(c)
  /\ UNCHANGED <<server, up, down, fin, total, sent>>

Caller(c) == Connect(c) \/ ConnectFails(c) \/ BlkWrite(c) \/ BlkRead(c) \/ ReadEnds(c) \/ Fails(c) \/ Close(c)

Accept ==
  /\ alive /\ serving = None /\ backlog /= <<>>
  /\ serving' = Head(backlog) /\ backlog' = Tail(backlog)
  /\ UNCHANGED <<blk_n, alive, blk_at, blk_line, up, down, fin, total, sent, lats, runs>>

ServerReads ==
  \E k \in 1..MsgLen :
    /\ alive /\ serving /= None /\ blk_n = 0 /\ k <= up[serving]
    /\ blk_n' = k /\ up' = [up EXCEPT ![serving] = @ - k]
    /\ UNCHANGED <<backlog, serving, alive, blk_at, blk_line, down, fin, total, sent, lats, runs>>

ServerWrites ==        \* the first write to a caller that left is answered by a reset
  /\ alive /\ serving /= None /\ blk_n > 0
  /\ blk_n' = 0
  /\ down' = [down EXCEPT ![serving] = IF blk_line[serving] = "up" THEN @ + blk_n ELSE @]
  /\ blk_line' = [blk_line EXCEPT ![serving] = IF @ = "left" THEN "gone" ELSE @]
  /\ UNCHANGED <<backlog, serving, alive, blk_at, up, fin, total, sent, lats, runs>>

ServerCloses ==        \* read returned 0 or an error
  /\ alive /\ serving /= None /\ blk_n = 0
  /\ blk_line[serving] = "gone" \/ (up[serving] = 0 /\ (fin[serving] \/ blk_line[serving] = "left"))
  /\ blk_line' = [blk_line EXCEPT ![serving] = IF @ = "up" THEN "closed" ELSE "none"]
  /\ serving' = None
  /\ UNCHANGED <<backlog, blk_n, alive, blk_at, up, down, fin, total, sent, lats, runs>>

\* SIGPIPE is not ignored: bytes that were read before the reset came are written
\* after it.  Whoever is in the queue is reset when the process ends.
Killed ==
  /\ alive /\ serving /= None /\ blk_n > 0 /\ blk_line[serving] = "gone"
  /\ alive' = FALSE /\ serving' = None /\ backlog' = <<>> /\ blk_n' = 0
  /\ blk_line' = [c \in Callers |-> IF \E k \in DOMAIN backlog : backlog[k] = c THEN "reset" ELSE
                                    IF c = serving THEN "none" ELSE blk_line[c]]
  /\ UNCHANGED <<blk_at, up, down, fin, total, sent, lats, runs>>

BlkServer == Accept \/ ServerReads \/ ServerWrites \/ ServerCloses \/ Killed

BlkNext == BlkServer \/ \E c \in Callers : Caller(c)
BlkSpec == BlkInit /\ [][BlkNext]_blk_vars
------------------------------------------------------------------------------
\* A request the load generator counts had its whole message come back, though it
\* compares nothing: the server sees the end of its input only behind the input.
CountedIsWhole == \A k \in DOMAIN lats : lats[k] = MsgLen

\* A caller is given back a beginning of what it sent, whoever is served before it.
OwnBytes == \A c \in Callers : total[c] + down[c] + (IF serving = c THEN blk_n ELSE 0) + up[c] <= sent[c]
==============================================================================
