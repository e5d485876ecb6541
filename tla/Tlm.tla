-------------------------------- MODULE Tlm --------------------------------
(***************************************************************************)
(* The transaction-level platform of cpu-model-systemc-tlm-lab.            *)
(***************************************************************************)
EXTENDS Integers, Sequences, FiniteSetsExt

------------------------------------------------------------------------------
(***************************************************************************)
(* The event queue of cpu-model-systemc-tlm-lab and the processes of its   *)
(* experiments 1 and 2.  A notification is of one of three kinds; jobs     *)
(* that are due together run in any order (std::priority_queue is not      *)
(* stable).                                                                *)
(***************************************************************************)
CONSTANTS until,         \* the end of the simulation
          MaxJobs        \* bound: jobs that are notified

Kinds == {"immediate", "delta", "timed"}

VARIABLES evq_q,             \* set of jobs [id, t, d, kind, sent]
          now, delta, eval_calls, delta_cycles,
          jobs,          \* history: how many were notified
          stamps,        \* history: the times and deltas at which jobs were run
          last,          \* history: the job that was run last
          over           \* run has returned
evq_vars == <<evq_q, now, delta, eval_calls, delta_cycles, jobs, stamps, last, over>>

Never == <<>>

\* The job that a notification at time n and delta d makes.
Job(kind, after, n, d) ==
  [id |-> jobs, kind |-> kind, sent |-> <<n, d>>,
   t |-> IF kind = "timed" THEN n + after ELSE n,
   d |-> IF kind = "delta" THEN d + 1 ELSE d]

EvqInit ==
  /\ evq_q = {} /\ now = 0 /\ delta = 0 /\ eval_calls = 0 /\ delta_cycles = 0
  /\ jobs = 0 /\ stamps = {} /\ last = Never /\ over = FALSE

Earlier(j, k) == j.t < k.t \/ (j.t = k.t /\ j.d < k.d)

\* The queue is filled before run is called.
Notify(kind, after) ==
  /\ last = Never /\ ~over /\ jobs < MaxJobs
  /\ evq_q' = evq_q \cup {Job(kind, after, now, delta)} /\ jobs' = jobs + 1
  /\ UNCHANGED <<now, delta, eval_calls, delta_cycles, stamps, last, over>>

\* Mutant: the delta is not begun anew when time moves on.
Advance_KeepsDelta(j) ==
  /\ now' = j.t
  /\ delta' = IF j.d > delta THEN j.d ELSE delta
  /\ delta_cycles' = IF j.d > delta THEN delta_cycles + 1 ELSE delta_cycles

Advance(j) ==
  LET begun == IF j.t /= now THEN 0 ELSE delta
  IN  /\ now' = j.t
      /\ delta' = IF j.d > begun THEN j.d ELSE begun
      /\ delta_cycles' = IF j.d > begun THEN delta_cycles + 1 ELSE delta_cycles

\* One turn of run's loop: the job may notify others.
Evaluate(j, notified) ==
  /\ ~over /\ j \in evq_q /\ \A k \in evq_q : ~Earlier(k, j)
  /\ j.t <= until
  /\ Advance(j)
  /\ eval_calls' = eval_calls + 1
  /\ evq_q' = (evq_q \ {j}) \cup {Job(n[1], n[2], now', delta') : n \in notified}
  /\ jobs' = jobs + Cardinality(notified)
  /\ last' = j /\ stamps' = stamps \cup {<<now', delta'>>}
  /\ UNCHANGED over

\* run ends: a job beyond the end has been taken from the queue and is lost.
Return ==
  /\ ~over /\ over' = TRUE
  /\ \/ evq_q = {} /\ UNCHANGED evq_q
     \/ \E j \in evq_q : (\A k \in evq_q : ~Earlier(k, j)) /\ j.t > until /\ evq_q' = evq_q \ {j}
  /\ UNCHANGED <<now, delta, eval_calls, delta_cycles, jobs, stamps, last>>

EvqNext ==
  \/ \E kind \in Kinds, after \in 1..2 : Notify(kind, after)
  \/ \E j \in evq_q : Evaluate(j, {})
  \/ \E j \in evq_q, kind \in Kinds, after \in 1..2 : jobs < MaxJobs /\ Evaluate(j, {<<kind, after>>})
  \/ Return
EvqSpec == EvqInit /\ [][EvqNext]_evq_vars

------------------------------------------------------------------------------
\* A job runs when its notification said: at once, in the next delta of the same
\* time, or when time has advanced; nothing that was due before is left behind,
\* every delta cycle is one of its time, and every job is run once, but for the one
\* that ends the run and those beyond it.
RunsWhenNotified ==
  /\ last /= Never =>
       /\ last.kind = "immediate" => <<now, delta>> = last.sent
       /\ last.kind = "delta" => <<now, delta>> = <<last.sent[1], last.sent[2] + 1>>
       /\ last.kind = "timed" => now = last.t /\ now > last.sent[1]
  /\ \A j \in evq_q : ~(j.t < now \/ (j.t = now /\ j.d < delta))
  /\ delta_cycles = Cardinality({s \in stamps : s[2] > 0})
  /\ IF over THEN eval_calls + Cardinality(evq_q) \in {jobs, jobs - 1} /\ \A j \in evq_q : j.t > until
             ELSE eval_calls + Cardinality(evq_q) = jobs

------------------------------------------------------------------------------
(***************************************************************************)
(* The channels and types of cpu-model-systemc-tlm-lab (experiments 3 to   *)
(* 5): a resolved signal, a bounded fifo, integers of a fixed width and a  *)
(* trace of value changes.                                                 *)
(***************************************************************************)
CONSTANTS W,             \* bits of a signal and an integer
          cap,           \* of the fifo
          MaxSteps       \* bound: calls

Pow2[k \in Nat] == IF k = 0 THEN 1 ELSE 2 * Pow2[k - 1]

Words == 0..(Pow2[W] - 1)

VARIABLES drivers, cur,                  \* ResolvedSignal
          chan_q, blocked_w, blocked_r,       \* Fifo
          u, chan_s,                          \* ScUint, ScInt
          lines,                         \* Vcd: the changes, with their cycle
          steps,
          since, driven, written, taken, chan_total, wave   \* history
fifoVars == <<chan_q, blocked_w, blocked_r, written, taken>>
busVars == <<drivers, cur, since, driven>>
intVars == <<u, chan_s, chan_total>>
vcdVars == <<lines, wave>>
chan_vars == <<busVars, fifoVars, intVars, vcdVars, steps>>

Bit(v, k) == (v \div Pow2[k]) % 2

\* The k lowest bits of an or, from the lowest up.
Or(v, d) ==
  LET Low[k \in 0..W] ==
        IF k = 0 THEN 0
        ELSE Low[k - 1] + (IF Bit(v, k - 1) + Bit(d, k - 1) > 0 THEN Pow2[k - 1] ELSE 0)
  IN  Low[W]

ScUint(x) == x % Pow2[W]
\* The W low bits, sign extended.
ScInt(x) == LET v == x % Pow2[W] IN IF v >= Pow2[W - 1] THEN v - Pow2[W] ELSE v

ChanInit ==
  /\ drivers = <<>> /\ cur = 0 /\ since = {} /\ driven = {}
  /\ chan_q = <<>> /\ blocked_w = 0 /\ blocked_r = 0 /\ written = <<>> /\ taken = <<>>
  /\ u = 0 /\ chan_s = 0 /\ chan_total = 0
  /\ lines = <<>> /\ wave = <<>> /\ steps = 0

drive(v) == drivers' = Append(drivers, v) /\ since' = since \cup {v} /\ UNCHANGED <<cur, driven>>

update ==
  /\ cur' = (LET Of[i \in 0..Len(drivers)] == IF i = 0 THEN 0 ELSE Or(Of[i - 1], drivers[i])
             IN  Of[Len(drivers)])
  /\ drivers' = <<>>
  /\ driven' = since /\ since' = {}

write(v) ==
  IF Len(chan_q) >= cap THEN blocked_w' = blocked_w + 1 /\ UNCHANGED <<chan_q, blocked_r, written, taken>>
  ELSE /\ chan_q' = Append(chan_q, v) /\ written' = Append(written, v)
       /\ UNCHANGED <<blocked_w, blocked_r, taken>>

read ==
  IF chan_q = <<>> THEN blocked_r' = blocked_r + 1 /\ UNCHANGED <<chan_q, blocked_w, written, taken>>
  ELSE /\ chan_q' = Tail(chan_q) /\ taken' = Append(taken, chan_q[1])
       /\ UNCHANGED <<blocked_w, blocked_r, written>>

add(x) == u' = ScUint(u + ScUint(x)) /\ chan_s' = ScInt(chan_s + x) /\ chan_total' = chan_total + x

edge(val) ==
  /\ wave' = Append(wave, val)
  /\ lines' = IF wave # <<>> /\ wave[Len(wave)] = val THEN lines ELSE Append(lines, <<Len(wave) + 1, val>>)

ChanNext ==
  /\ steps < MaxSteps /\ steps' = steps + 1
  /\ \/ ((\E v \in Words : drive(v)) \/ update) /\ UNCHANGED <<fifoVars, intVars, vcdVars>>
     \/ ((\E v \in {1, 2} : write(v)) \/ read) /\ UNCHANGED <<busVars, intVars, vcdVars>>
     \/ (\E x \in Words : add(x)) /\ UNCHANGED <<busVars, fifoVars, vcdVars>>
     \/ (\E v \in {0, 1} : edge(v)) /\ UNCHANGED <<busVars, fifoVars, intVars>>
ChanSpec == ChanInit /\ [][ChanNext]_chan_vars

------------------------------------------------------------------------------
\* What the trace shows at a cycle: the last change up to it.
Shown(k) == lines[Max({i \in DOMAIN lines : lines[i][1] <= k})][2]

\* A resolved signal has a bit when one of those who drove it since the update
\* before has it; the fifo gives what it accepted, in order; integers keep their
\* sum modulo 2^W, the signed ones in range; and the changes alone tell the wave.
ChannelsKeep ==
  /\ \A k \in 0..(W - 1) : Bit(cur, k) = 1 <=> \E v \in driven : Bit(v, k) = 1
  /\ taken \o chan_q = written /\ Len(chan_q) <= cap
  /\ (u - chan_total) % Pow2[W] = 0 /\ u \in Words
  /\ (chan_s - chan_total) % Pow2[W] = 0 /\ chan_s \in (-Pow2[W - 1])..(Pow2[W - 1] - 1)
  /\ \A k \in DOMAIN wave : Shown(k) = wave[k]

------------------------------------------------------------------------------
(***************************************************************************)
(* The transports of cpu-model-systemc-tlm-lab: requests in flight that    *)
(* the payload event queue answers (experiments 6 and 9), and an initiator *)
(* that runs ahead of the global time by up to a quantum (experiment 8).   *)
(***************************************************************************)
CONSTANTS Requests, Latencies,
          quantum, per_xfer, tran_total

VARIABLES phase,         \* of each request
          peq,           \* set of [t, p, ph]
          phase_events, fw, bw,
          latency,       \* history: how long the target takes for each request
          completed,     \* history: requests and the time each was answered
          global, local, syncs, xfers
atVars == <<phase, peq, phase_events, fw, bw, latency, completed>>
ltVars == <<global, local, syncs, xfers>>
tran_vars == <<atVars, ltVars>>

TranInit ==
  /\ phase = [p \in Requests |-> "none"] /\ peq = {}
  /\ phase_events = 0 /\ fw = 0 /\ bw = 0 /\ completed = {}
  /\ latency = [p \in Requests |-> 0]
  /\ global = 0 /\ local = 0 /\ syncs = 0 /\ xfers = 0

\* All requests are made before the queue is served: the initiator counts the call,
\* and so does the target, which schedules its answer.
nb_fw(p, lat) ==
  /\ phase[p] = "none" /\ bw = 0
  /\ phase' = [phase EXCEPT ![p] = "BEGIN_REQ"]
  /\ peq' = peq \cup {[t |-> lat, p |-> p, ph |-> "BEGIN_RESP"]}
  /\ phase_events' = phase_events + 2 /\ fw' = fw + 2
  /\ latency' = [latency EXCEPT ![p] = lat]
  /\ UNCHANGED <<bw, completed, ltVars>>

Due(e) == \A f \in peq : e.t <= f.t

\* The backward path delivers the answer, and the initiator ends it.
pop(e) ==
  /\ e \in peq /\ Due(e) /\ "none" \notin {phase[p] : p \in Requests}
  /\ peq' = peq \ {e}
  /\ phase' = [phase EXCEPT ![e.p] = "END_RESP"]
  /\ phase_events' = phase_events + 2 /\ bw' = bw + 1 /\ fw' = fw + 1
  /\ completed' = completed \cup {[p |-> e.p, t |-> e.t, nth |-> bw]}
  /\ UNCHANGED <<latency, ltVars>>

\* One transfer of simulate, and the synchronisation when the quantum is used up.
b_transport ==
  LET ahead == local + per_xfer
  IN  /\ xfers < tran_total /\ xfers' = xfers + 1
      /\ IF ahead >= quantum THEN global' = global + ahead /\ local' = 0 /\ syncs' = syncs + 1
         ELSE local' = ahead /\ UNCHANGED <<global, syncs>>
      /\ UNCHANGED atVars

\* What was not synchronised is, at the end.
FinalSync ==
  /\ xfers = tran_total /\ local > 0
  /\ global' = global + local /\ local' = 0 /\ UNCHANGED <<syncs, xfers, atVars>>

TranNext ==
  \/ \E p \in Requests, lat \in Latencies : nb_fw(p, lat)
  \/ \E e \in peq : pop(e)
  \/ b_transport \/ FinalSync
TranSpec == TranInit /\ [][TranNext]_tran_vars

------------------------------------------------------------------------------
\* Answers come in the order in which they are ready, one to a request, each after
\* the latency of its own request, so that the last comes at the longest latency and
\* not at their sum; each transfer is four events; the initiator's two clocks
\* together are the time its transfers took, and it is never ahead by a quantum.
AnsweredInTime ==
  /\ \A c, d \in completed : c.nth < d.nth => c.t <= d.t /\ c.p /= d.p
  /\ \A p \in Requests : phase[p] = "END_RESP" <=> \E c \in completed : c.p = p
  /\ \A c \in completed : c.t = latency[c.p]
  /\ \A c \in completed : c.nth + 1 = Cardinality(Requests) =>
       \A p \in Requests : latency[p] <= c.t
  /\ completed /= {} /\ peq = {} =>
       /\ Cardinality(completed) = Cardinality(Requests)
       /\ phase_events = 4 * Cardinality(Requests) /\ phase_events = fw + bw
  /\ global + local = per_xfer * xfers /\ local < quantum
  /\ syncs * quantum <= global

------------------------------------------------------------------------------
(***************************************************************************)
(* Memories behind an address decoder, and the ways past it, in            *)
(* cpu-model-systemc-tlm-lab (experiments 7 and 10): a payload carries a   *)
(* global address, each target knows its own; direct memory access writes  *)
(* through a pointer while that is valid.                                  *)
(***************************************************************************)
CONSTANTS Routes,        \* a sequence of [base, span, bytes]
          Addresses,     \* global addresses of accesses
          Lengths,       \* lengths of their data
          Values,
          MaxCalls       \* bound

VARIABLES m,             \* bytes of each route's memory
          dmi_valid,     \* an initiator holds a pointer to the first memory
          addr_p,             \* the payload of the last call: [cmd, addr, data, resp]
          sent,          \* history: the bytes at its address when it was sent
          wrote,         \* history: byte last written at each global address
          calls
addr_vars == <<m, dmi_valid, addr_p, sent, wrote, calls>>

Zero == 0
AddrInit ==
  /\ m = [r \in DOMAIN Routes |-> [a \in 0..(Routes[r].bytes - 1) |-> Zero]]
  /\ dmi_valid = FALSE
  /\ addr_p = [cmd |-> "none", addr |-> 0, data |-> <<>>, resp |-> "INCOMPLETE"]
  /\ sent = <<>>
  /\ wrote = [a \in {} |-> Zero] /\ calls = 0

Written(a) == IF a \in DOMAIN wrote THEN wrote[a] ELSE Zero

inrange(r, a, n) == a + n <= Routes[r].bytes

\* Mutant: the last byte of a memory is not its own.
Fits_OffByOne(r, a, n) == a + n < Routes[r].bytes
Fits(r, a, n) == inrange(r, a, n)

\* Memory::access of the payload x at the local address a of route r.
Accessed(r, a, x) ==
  IF ~Fits(r, a, Len(x.data)) THEN [mem |-> m, pay |-> [x EXCEPT !.resp = "ADDRESS_ERROR"]]
  ELSE IF x.cmd = "WRITE"
    THEN [mem |-> [m EXCEPT ![r] = [b \in DOMAIN @ |-> IF b \in a..(a + Len(x.data) - 1)
                                                       THEN x.data[b - a + 1] ELSE @[b]]],
          pay |-> [x EXCEPT !.resp = "OK"]]
    ELSE [mem |-> m, pay |-> [x EXCEPT !.data = [i \in DOMAIN @ |-> m[r][a + i - 1]], !.resp = "OK"]]

Decoded(addr) == {r \in DOMAIN Routes : addr >= Routes[r].base /\ addr < Routes[r].base + Routes[r].span}

\* The first route that has the address; a target sees it less its base, and gives
\* it back as it was.
route(x) ==
  /\ calls < MaxCalls /\ calls' = calls + 1
  /\ sent' = [i \in DOMAIN x.data |-> Written(x.addr + i - 1)]
  /\ IF Decoded(x.addr) = {} THEN addr_p' = [x EXCEPT !.resp = "ADDRESS_ERROR"] /\ UNCHANGED <<m, wrote>>
     ELSE LET r == CHOOSE s \in Decoded(x.addr) : \A t \in Decoded(x.addr) : s <= t
              out == Accessed(r, x.addr - Routes[r].base, x)
          IN  /\ m' = out.mem /\ addr_p' = out.pay
              /\ wrote' = IF x.cmd = "WRITE" /\ out.pay.resp = "OK"
                          THEN [a \in DOMAIN wrote \cup x.addr..(x.addr + Len(x.data) - 1) |->
                                  IF a >= x.addr /\ a < x.addr + Len(x.data) THEN x.data[a - x.addr + 1]
                                  ELSE wrote[a]]
                          ELSE wrote
  /\ UNCHANGED dmi_valid

\* A pointer is got when there is none, and written through.
dmi_write(a, v) ==
  /\ calls < MaxCalls /\ calls' = calls + 1
  /\ dmi_valid' = TRUE
  /\ m' = [m EXCEPT ![1][a] = v]
  /\ LET global_a == Routes[1].base + a
     IN  wrote' = [b \in DOMAIN wrote \cup {global_a} |-> IF b = global_a THEN v ELSE wrote[b]]
  /\ UNCHANGED <<addr_p, sent>>

invalidate == dmi_valid /\ dmi_valid' = FALSE /\ UNCHANGED <<m, addr_p, sent, wrote, calls>>

AddrNext ==
  \/ \E a \in Addresses, n \in Lengths, v \in Values, cmd \in {"READ", "WRITE"} :
       (cmd = "READ" => v = Zero)
       /\ route([cmd |-> cmd, addr |-> a, data |-> [i \in 1..n |-> v], resp |-> "INCOMPLETE"])
  \/ \E a \in DOMAIN m[1], v \in Values : dmi_write(a, v)
  \/ invalidate
AddrSpec == AddrInit /\ [][AddrNext]_addr_vars

------------------------------------------------------------------------------
\* A read that is answered OK has the bytes last written at its addresses, whichever
\* way they were written, and a call is answered OK exactly when all its bytes lie in
\* the memory that its address names.
ReadsWhatWasWritten ==
  /\ addr_p.cmd /= "none" =>
       (addr_p.resp = "OK" <=> \E r \in DOMAIN Routes :
          /\ addr_p.addr >= Routes[r].base
          /\ addr_p.addr + Len(addr_p.data) <= Routes[r].base + Routes[r].bytes)
  /\ addr_p.cmd = "READ" /\ addr_p.resp = "OK" => addr_p.data = sent
  /\ \A r \in DOMAIN Routes : \A a \in DOMAIN m[r] : m[r][a] = Written(Routes[r].base + a)
==============================================================================
