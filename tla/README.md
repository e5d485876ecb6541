# Verification of geek-doc.cn

TLA+ models, model checking and machine-checked proofs for the programs of this
repository. The repository is a collection of small programs written to show how
systems work: echo servers, a text editor in twelve steps, an agent loop, models of
processors and platforms, circuits, and exercises. The models follow the code, not
the articles about it. All paths below are relative to the repository's root.

## 1. The system

| component | where | state it keeps | operations | talks to |
|---|---|---|---|---|
| epoll echo servers | `echo/day-02/echo-epoll-server.c` (edge-triggered), `echo-epoll-lt-server.c` (level-triggered) | an epoll instance; `conns[]` with state, `buf`, `buf_len`, `buf_sent` per descriptor | `handle_accept`, `handle_read`, `handle_write`, `conn_close`, the event loop | clients over TCP, the kernel's ready list |
| multi-process echo server | `echo/day-02/echo-mp-server.c` | `children[]`, `running` in every process; `conns[]` per worker | fork, reap, kill, wait; `worker_loop` | master and workers by signals and wait |
| multi-threaded echo server | `echo/day-04/echo-mt-server.c` | `running`; a `worker_ctx`, an epoll instance and a table per thread | `worker_loop`, main's start and join | threads share `running` and, with `reuseport off`, the listening socket |
| connection-holding experiment | `echo/E2/conn-ramper.c`, `echo-conn-server.c` | ramper: `fdstate[]`, `opened`, `established`, `dropped`; server: `g_estab`, `g_accepted` | open at a rate, count, hold; accept, count, close | two processes over TCP |
| queues | `experiments/spsc-mpsc-queue/spsc_bench.cpp` | `head_`, `tail_`, `buf_`; a deque behind a mutex | push, pop | producer and consumer thread |
| notification | `signal-vs-eventfd/main.c` | a pending signal; an eventfd counter | send, wait, join | main and a worker thread |
| day-1 echo, load generators | `echo/day-01`, `echo/day-02/echo-bench.c`, `echo/day-03/echo-kp-bench.c` | counters, latencies, a barrier | connect, send, receive, count | a server over TCP; threads by a barrier and join |
| vim-cpp | `vim-cpp/vc-01` … `vc-12` | gap buffer, line index, undo and redo stacks, mode, viewport, key buffer, caches of the drawing loop | editing primitives, undo/redo, modes, ex commands, search, load and save, draw | layers of one thread; the terminal and the file system |
| mini-agent | `mini-agent/mini_agent/*.py` | message history, tool registry | `run_loop`, `dispatch_many`, tools | a language model; a thread pool for read-only batches |
| CPU models | `cpu-model-*/main.cpp` | scoreboard, predictors, caches, MESI lines, store buffer, event queue, memories, an ISS | issue, access, coherence transaction, notify, transport, step | each experiment on its own |
| circuits | `fifo-starter-kit/rtl`, `experiments/tpl-*`, `exp-*`, `sva-*`, `axi4-*` | registers | clocked processes | handshakes between modules and clock domains |
| signal demos, performance labs, exercises | `signals-demos`, `experiments/*`, `*-beginner-practice` and others | a flag, a table, an array | per program | threads, signals, files |

`PROJECT.json` lists every component with its sources, what of it is modelled and
what is not. What makes a component correct, and where that is hard:

* **Epoll echo servers.** A client gets back its own bytes, in order, once each.
  Hard: partial reads and writes; an edge-triggered notification is given once, so
  bytes, a FIN or a RST that come between the last `read` and `epoll_ctl` must not
  be missed; descriptors are closed and reused while events of the same batch
  wait; `accept` runs out of descriptors.
* **Multi-process, multi-threaded server.** All workers end when a signal asks
  them to, and main ends after them; every waiting connection is somebody's. Hard:
  a signal interrupts one thread or process only; several waiters, one event; pids
  are reused.
* **Holding experiment.** Two programs count the same connections independently.
  Hard: descriptors, and with them the entries of `fdstate[]`, are reused; calls
  fail in the middle of a batch; the server may end at any time.
* **Queues.** A bounded FIFO. Hard without a lock: each side works with an index of
  the other that may be out of date; indices wrap.
* **Notification, waiting.** What the kernel merges; who waits for ever; a wake-up
  that comes before the wait.
* **Load generators.** What is reported happened. Hard: a peer that closes at any
  time, answers that come in pieces, counters of several threads.
* **Editor.** The text is what the edits made it, whatever is kept beside it: the gap,
  the line index, the highlighting, the frame on the screen, the undo history. A file
  is whole whenever the machine stops. Hard: boundaries of the gap and of lines,
  rescans that stop early, merged undo steps, a key whose bytes come in pieces.
* **Agent.** Each call of the model is answered under its own id, by the result it
  had. Hard: calls of a batch finish in any order; the step limit.
* **CPU models.** Counters that add up, coherent caches, a scheduler that respects
  delta cycles, transactions that are answered, instructions that do what was
  assembled. Hard: histories of several steps by several actors.
* **Circuits.** FIFOs lose nothing, arbiters starve nobody, slaves answer what they
  took once. Hard: handshakes that overlap, Gray-coded pointers caught while they
  change, boundaries of depth and address.
* **Exercises.** Results against a definition without steps; files torn by a crash.

The list of hazards in `PROJECT.json` goes through this code line by line.

## 2. Modules

| module | role |
|---|---|
| `EpollKernel` | environment: sockets, listen queue, epoll in both trigger modes, the peers |
| `EpollEcho` | both single-process servers; one action per system call |
| `WorkerLoop` | the event loop of a worker process and of a worker thread |
| `EchoSpec` | abstract specification: what an echo server promises |
| `EchoMaster` | master of the multi-process server |
| `EchoWorkers` | threads and main of the multi-threaded server |
| `ConnHold` | ramper and holding server together |
| `FifoSpec` | abstract specification: a bounded FIFO channel |
| `SpscRing`, `LockQueue` | the lock-free ring and the queue behind a mutex, each with its two threads |
| `EventNotify` | both notification benchmarks |
| `LoadGenerators` | `echo-kp-bench`; the day-1 server with its client and `echo-bench` |
| `TextSpec` | abstract specification: a text and one point in it |
| `TextBuffers` | vc-03 gap buffer; vc-05 editing core with cursor and line index |
| `Input` | vc-01 raw mode and keys, vc-04 cursor and viewport, vc-07 modes, vc-11 ex commands |
| `UndoRedo`, `SearchNfa`, `FileIO`, `Highlight` | vc-08, vc-09, vc-06, vc-10 |
| `Render` | vc-02 and vc-12: the drawing loop and its caches |
| `AgentLoop` | mini-agent: the loop and its batches |
| `Cores` | core-mem-lab 1–3: pipeline, branch predictors, out-of-order window |
| `Memory`, `Mesi` | core-mem-lab 4, 6–8: cache, store buffer, DRAM with prefetch, mesh; 5: coherence |
| `Tlm` | systemc-tlm-lab: event queue, channels, transports, address decoding and DMI |
| `Iss` | isa-iss; lockstep and Pareto front of sim-platform-lab |
| `Fifos` | FIFOs of one and of two clocks, arbiters |
| `AxiSlaves` | two AXI4-Lite slaves and an AXI4 burst slave |
| `SignalDemos`, `Waits` | programs that take their signals in turn; a flag passed to and fro, a read with an alarm |
| `Programs` | `Waits`, `LockQueue`, `SignalDemos`, `AgentLoop` (programs whose parties take turns), `UndoRedo`, `FileIO` and `Input` of the editor, `Memory` and `Tlm` of the CPU models, `LoadGenerators` and `PerfLabs`, instantiated side by side |
| `PerfLabs` | threads counting until told to stop, walks through memory, ways of dispatch |
| `Records`, `Exercises` | tables of records, their files, linked lists; calculator, sorts, command line, word counts |
| `Numbers` | what the proofs need of numbers: least and greatest elements, induction, iterated functions, `%` |
| `EpollEcho_proofs`, `SpscRing_proofs`, `Servers_proofs`, `ConnHold_proofs`, `Editor_proofs`, `Hardware_proofs`, `Programs_proofs` | theorems |
| `MCEpollEcho`, `MCLive`, `MCServers`, `MCParts` | instances for TLC |

Three conventions hold throughout. Operators whose name has the form
`X_Something`, after a comment that marks them as *Mutant*, are variants of `X`
with a plausible bug; nothing uses them, and `PROJECT.json` says which property
finds which. A module whose parts do not interact (`Input`, `Cores`, `Memory`,
`Tlm`, `Iss`, `Fifos`, `AxiSlaves`, `PerfLabs`, `Waits`, `Records`, `Exercises`,
`LoadGenerators`, `TextBuffers`) has a section for each, with variables, Init, Next and
properties of its own, prefixed by the part (`PipeInit`, `TermNext`). And the three
modules `MCLive`, `MCServers` and `MCParts` check several programs in one run: a
behaviour is of the one it chose at the start (`part`), and the variables of the
others do not change. The state space is the sum of theirs, not the product. Where a
theorem states a property of such a run, the run extends the module of the part
(`EchoWorkers` in `MCServers`; `TextBuffers`, `Mesi`, `Fifos`, `AxiSlaves` and `Programs`
in `MCParts`), so that the theorem and the run speak of the same definition: there the
part that idles stays in one of its initial states. `Programs` declares `part` itself and
states there, with one conjunct per part, `QuitKeepsWork`, `MemoryAddsUp`,
`TransfersComplete`, `ReadsWhatWasWritten` and `CountedIsDone`. A theorem about the
specification of a part proves its conjunct of the property whatever `part` is.

### EpollKernel, EpollEcho, WorkerLoop

`EpollKernel` is external: what the servers rely on. The i-th byte of client `c` is
the pair `<<c, i>>`, so any loss, repetition or mix-up shows. `ready` is the ready
list of the epoll instance. An arriving byte, FIN or RST puts the descriptor on it
if its interest matches; `epoll_ctl(MOD)` polls at once; `epoll_wait` reports any
subset of at most `MaxEvents` items, takes a reported item off in ET mode, and
leaves it in LT mode. A socket that was found without send space (by a poll for
EPOLLOUT or a `write` that returned EAGAIN) owes a wake-up (`nospace`).

In `EpollEcho` one action is one system call with the computation up to the next,
and `pc` names the place: `AcceptOne`, `AcceptAddFails` and `AcceptEnds` (EAGAIN or
an error) are the outcomes in `handle_accept`; `ReadData`, `ReadCloses`,
`ReadAgain`, `ReadFull` those of `handle_read`; `WriteSome`, `WriteAgain`,
`WriteError`, `WriteSigpipe`, `WriteDone` those of `handle_write`; `RegisterOut`
and `RegisterIn` are the two `epoll_ctl(MOD)`. `EpollWait`, `NextBatch`, `Dispatch`
and `CloseIfMarked` are the loop of `main`. `conns[fd]` is the four functions
`state`, `buf`, `buf_len`, `buf_sent`. The peers act between any two system calls.
The two servers differ in the trigger mode and in one place of `handle_read`: with
a full buffer the LT server does not call `epoll_ctl` (`ReadFull`).

`WorkerLoop` takes these actions for the loops that write the handlers out, with two
differences: a full buffer registers EPOLLOUT in both modes (`BufferFull`), and the
worker process does not look at the result of `EPOLL_CTL_ADD` (`AcceptUnwatched`).

### EchoMaster, EchoWorkers, ConnHold

`EchoMaster`: one process per worker, named by its pid; `proc` says whether it runs,
is a zombie, is gone, or whether the pid belongs to somebody else by now. `Signal`
goes to the master, `SignalGroup` (Ctrl-C) to all. The workers inherit the handler
and never read `running`, so a signal makes them `Continue`.

`EchoWorkers`: the three settings of the command line (a listening socket each or one
for all, ET or LT, how many descriptors) are chosen in `Init`. A worker's `wpc`
follows `worker_loop`: `start` (socket, epoll), `check` (`while (running)`), `wait`
(`epoll_wait` with its timeout), `accept` (the inner loop), `exit`. `edge` is
whether a worker's epoll instance has the listener's edge. A connection is served
until its peer closes it; reading and writing is `WorkerLoop`.

`ConnHold`: connections (`Conns`) have an identity of their own; a descriptor (`FDs`)
is a place the ramper has them in, and is reused. `rpc` follows the ramper's main
loop: budget, opening (`OpenConnection`, `OpenError`, `OpenNoSocket`), `EpollWait`,
one event at a time (`EventError`, `EventUp`, `EventDown`), the hold loop
(`HoldWait`, `HoldEvent`), the end. A server thread's two atomic additions are two
steps. The network completes a handshake or refuses it, at any time; closing a
listening socket resets what waits in its queue.

### SpscRing, LockQueue, EventNotify, LoadGenerators

`SpscRing` has one action per access to shared memory. `headSeen` and `tailSeen` are
what an acquire load of the other thread returns: older than the stored index, never
older than before; they catch up on their own (`SeeHead`, `SeeTail`). `buf_` needs no
such delay as release and acquire order its accesses, which `NoDataRace` confirms.
`M` is the range of `size_t`, `Laps * Cap`. `slots` is how many elements `buf_` has:
the initializer `buf_{CAP}` makes CAP elements if T cannot be made from CAP and one
if it can; both are modelled, and a store outside goes to `PushWriteOutside`.
`LockQueue` takes the mutex, does the call, and lets go of it, in three steps.

`EventNotify`: a pending standard signal is one bit, an eventfd one sum, and `read`
takes the whole sum. `run_signal` and then `run_eventfd` as in `main`.

`LoadGenerators`: the threads of `echo-kp-bench` pass the barrier and make their
rounds over one connection or one each; the peer answers in pieces and may close or
reset at any time; a write to a reset connection kills the process. Against the
day-1 server, requests queue for the one connection that is served.

### The editor: TextSpec, TextBuffers, Input, UndoRedo, SearchNfa, FileIO, Highlight, Render

`TextSpec` is what every text store promises: a sequence of characters and a point,
moved, inserted at, deleted at. The gap buffer of vc-03 (the byte array with its gap,
`move_gap`, `grow`) and the editing core of vc-05 (the gap, `line_start_`, row and
column) are both shown to refine it. `Input` has the bytes of a terminal that the
key parser cuts into events, unknown sequences among them; the `RawTerm` object
and the two ways it restores the terminal; vertical moves that remember a screen
column through tabs; the mode machine; and the ex command line with its key map,
abbreviations and ranges. `UndoRedo` has the two stacks and the merging of typing.
`SearchNfa` parses patterns into terms (a class has the characters of its ranges, in the
order of their codes), matches one by backtracking, and runs the automaton one character
per step, with the birth of each thread. The backtracker counts its steps and gives up
beyond `budget`; the code's is 500 million, the run's 10, so that it gives up on texts that
have a match as well as on texts that have none. `FileIO` has both loaders and
`atomic_save` call by call; `Crash` may come between any two, after which a file that
was not synced is any prefix of itself. `Highlight` rescans from an edited line until
the state at a line's begin is what it was. `Render` draws line by line at each of the
four optimisation levels, with the width cache, the dirty flags and the previous frame.

### AgentLoop

A reply of the model is a batch of calls; a batch of read-only tools is executed
in any order, one that writes in order. `results` is by position, as in
`dispatch_many`; `messages` is the history. The tools are one file that is read or edited.

### Cores, Memory, Mesi, Tlm, Iss

An action is an instruction, a cycle, an access, or a job, as the loop of the
experiment has it. Several configurations of one experiment that the code runs one
after the other on the same input run side by side where the property compares them.
`Tlm` lets jobs that are due together run in any order, since `std::priority_queue` is
not stable. In `Mesi` a write that has to read the line first is two steps (`todo`).
`Iss` encodes a program, decodes it again and runs it; a machine word is the record of
its fields, and immediates are cut and sign-extended as in the encoders.

### Fifos, AxiSlaves

An edge of a clock is one action that computes all registers from their old values, as
nonblocking assignments do; where one block assigns twice the last assignment holds.
In the asynchronous FIFO either clock may tick, and the first register of a synchronizer
catches of each bit of a changing pointer the old or the new value. The masters of
the slaves keep to the protocol and make every wait as long as they like.

### SignalDemos, Waits, PerfLabs, Records, Exercises

Each is the loop of its program: what the threads share and when they look at it; the
order of an alarm, the read it should interrupt and the return; a table, its file, and
a crash in the middle of a save; an algorithm turn by turn beside a definition of
its result (the value of an expression by its grammar, a sorted permutation, the
words of a text as intervals). Input text is tokens or small numbers.

## 3. Runs

| run | asks | bounds |
|---|---|---|
| `et_safety` | the ET server: no stale event; no lost wake-up; bytes are lost only after the peer closed; it implements `EchoSpec` | 2 clients, 2 descriptors, 3 bytes, buffer 2, send space 1, batch of 2, every failure on |
| `live` | ET, LT, worker process, worker thread: every byte comes back, descriptors are given back, waiting connections are accepted, all implement `EchoSpec`; the ring: no race, FIFO, both threads finish; the passed flag and the read with an alarm finish | 2 clients competing for 1 descriptor, one may FIN, one may RST; ring of 2, indices wrap at 4, 6 items; 3 turns |
| `servers` | threaded server: nobody is forgotten, contexts outlive threads, a signal stops all; master: ends last, zombies are reaped; notification: what arrives and what is merged | 2 threads, 2 connections, 1 or 2 descriptors, every command line; 3 worker processes; 12 notifications, sentinel 5 |
| `hold` | both counters, no connection closed that stands, the target is reached, the programs agree, the ramper lets go of a dead server | 3 connections, 2 descriptors, 2 threads |
| `parts` | everything else: 49 instances, see below | see `MCParts` |
| `lt_echo_stuck` | *violated*: every message is echoed (LT) | 1 client |
| `spsc_overrun` | *violated*: all items are stored inside `buf_` | CAP 4, 10 items |
| `hold_reset` | *violated*: `est` never exceeds the sockets | 1 thread |
| `master_stops` | *violated*: a signal stops master and workers | 2 workers |
| `vim_redo` | *violated*: a new edit leaves nothing to redo | 3 edits |
| `vim_term` | *violated*: the terminal is left as it was found | 5 bytes |
| `mesi_exclusive` | *violated*: an exclusive line is the only copy | 2 blocks, 5 turns |

The properties of `parts` and what they are made of:

| property | part | says |
|---|---|---|
| `ImplementsText` | vc-03, vc-05 | every call changes the one text and the one point as `TextSpec` allows |
| `CachesFresh` | vc-02, vc-05, vc-06, vc-10, vc-12 | line index (of the text edited and of the file mapped), incremental highlighting and drawn frame agree with the text |
| `RoundTrip` | vc-08 | undoing all gives the empty text, redoing all the newest (if nothing was merged onto a redo branch) |
| `InputFollowed` | vc-01, vc-04, vc-07 | no byte is lost or moved between events; the cursor is on the screen and keeps its column; cursor and selection are in the line |
| `LeftmostLongest` | vc-09 | the automaton finds the leftmost-longest match, the backtracker the same beginning, or none if it gave up |
| `FilesKeep` | vc-06 | a save is all or nothing, whatever fails or stops |
| `QuitKeepsWork` | vc-11 | unsaved work is given up only for a bang |
| `CoresAddUp` | core-mem-lab 1–3 | stalls account for all cycles; a learnt history is never wrong again; a wider window is not slower |
| `ModifiedIsAlone` | 5 | a modified line is the only copy, two cores are never exclusive at once |
| `MemoryAddsUp` | 4, 6–8 | LRU sets; fences that leave nothing behind and cost between none and one after each store; DRAM time; shortest paths |
| `TransfersComplete` | tlm-lab 1–6, 8, 9 | jobs run when notified; channels lose nothing; each answer after the latency of its request, the last at the longest; never ahead by a quantum |
| `ReadsWhatWasWritten` | tlm-lab 7, 10 | by transport or through a pointer |
| `RunsWhatWasAssembled` | isa-iss, platform | decoded is what was encoded; the sum is right; lockstep reports the first mismatch; the front beats what it leaves out |
| `HandsOver` | FIFOs, arbiters | all items once and in order; who keeps asking waits for each other one at most once |
| `AnsweredOnce` | AXI slaves | one response per request, with what was there, beats in order |
| `CountedIsDone` | load generators, labs | what is reported happened |
| `TakenInTurn` | agent, locked queue, signals, flag, alarm | every call answered under its id; turns alternate; no blocked signal ends a program or is lost, each HUP is followed by a reload; only a read that waited in vain has timed out |
| `ResultsKept` | exercises | tables through saves and crashes; algorithms against their definitions |

Why the bounds are enough for the cases that matter. Servers: three bytes with a
buffer of two fill the buffer, leave a remainder and make offsets non-zero; one byte of
send space makes writes partial and makes EAGAIN happen; two clients and one
descriptor make the descriptor be reused and `accept` run into EMFILE; a batch with the
listener and a connection has an accept before a close and the reverse. The instances
of `live` are smaller, since a liveness check keeps the graph: the workers' buffer of one
is full after every byte, the LT server's of three is one that a smaller message must
not stop. The ring goes round and its indices wrap. Three connections on two descriptors
reuse one. With a sentinel of 5 and 12 notifications a sum can pass, equal and miss
the sentinel. Parts: buffers that are full, empty and grown; texts with empty lines
and without a last newline; every pattern of up to three of the characters with a
meaning, and longer ones; FIFOs of depth 1, 3 and 4 with more items than pointers
count; two ways and two sets with five blocks; every program of up to three
instructions on each pipeline. Every bound is a CONSTANT with a name (`Max…`, `N`) or
a set given in the MC module.

`CHECK_DEADLOCK FALSE` is used where a system may rest: a server nobody connects
to, programs that have ended, a thread that waits for a signal that was merged.

**Fairness.** The server process is scheduled (weak fairness of all its steps
together), clients read what they are sent and close in the end if they may; no one
has to connect or to send. In `SpscRing` both threads run and a store is seen in
finite time. A thread that waits for a mutex which comes free again and again gets it
(strong fairness of `Lock` in `Waits`: the other thread may be woken for no reason as
often as it likes), and an alarm that was set rings. In `ConnHold` elapsed time gives a budget
again and again and the port numbers, which go round, are not taken every time (strong
fairness of those two). In `EchoWorkers` the kernel reports a ready listener or a
closed connection before the timeout infinitely often (strong fairness). In
`EchoMaster` workers need not ever end. `MCLive` and `MCServers` state the same
fairness for the program that was chosen.

## 4. What the runs show about the code

Seven disagreements between code and comments, each with a run:

* `lt_echo_stuck`: `echo-epoll-lt-server.c:155` switches to STATE_WRITE without
  `EPOLLOUT`. A message that fills the buffer is never echoed, and `epoll_wait`
  returns at once for ever.
* `spsc_overrun`: `std::vector<int> buf_{CAP}` has one element. All other properties
  of the ring hold and are proved for a buffer with CAP elements.
* `hold_reset`: after SO_ERROR on a counted connection `established` is too high by
  one, and the reused descriptor inherits `fdstate = 1`.
* `master_stops`: workers of the multi-process server survive SIGTERM; the master
  waits for ever.
* `vim_redo`: an insertion that is merged into the newest command returns before
  `redoStack.clear()` (`undo_redo.cpp:69`); redo then runs on a text it was not made for.
* `vim_term`: the `atexit` handler restores the terminal through a pointer to a
  `RawTerm` that was destroyed (`term.hpp:35`).
* `mesi_exclusive`: a read leaves the other core's line in E (`main.cpp:359`), whose
  next write is silent.

Further behaviour met while modelling; where a property is about it, it is conditioned on it:

* Servers. In ET mode a connection that waits when `accept` fails with EMFILE is not
  announced again (`Accepted` is claimed for LT). SIGPIPE is not ignored: writing to a
  peer that sent FIN and then RST ends the server, and any load generator. A FIN that
  is read in the same pass as data drops the data not yet echoed. The worker process
  ignores a failed `EPOLL_CTL_ADD` and keeps the descriptor. A pid in `children[]`
  may have been reused when it is killed.
* Holding experiment. The ramper never makes up for a lost connection (`opened`
  counts it for ever), and its hold loop takes the first writability of a late
  connection for its end; hence the conditions in `Reaches` and `EstIsCounted`.
* Notification and waiting. Signals merge, so `run_signal` may wait for ever in
  `pthread_join`; the eventfd sentinel is only recognised when all counts before it have
  been read. An alarm that rings before `read` has begun to wait interrupts nothing.
* Search. A backtracker that has used up its budget reports no match where there may be
  one (`nfa_search.cpp:61`, `81`); `LeftmostLongest` allows exactly that.
* Load generators. In long mode `echo-kp-bench` counts as ok the rounds a thread never
  ran after a failed write; `echo-bench` does not compare what it gets.
* CPU models. `EventQ::timed` keeps the current delta count when it pushes a job for a
  later time. DMI that was invalidated does not fall back to transactions (lines 437–441
  against the text at 460). Write-backs are counted in `wr` on a path where the other
  line cannot be modified. The platform's `validate` accepts an L2 of 0 KB.
* Labs. sched-latency's io mode loses updates of a plain `int`. stall-analysis's
  `run_random_mem` follows a random map and so ends in a cycle shorter than its array;
  the dependency chain overflows a signed `long`. In indirect-branch the cost of the random generator is part of what is timed
  for `switch_random`, whose trials make different calls.
* Circuits. The repaired AXI-Lite slave loses a response if the master overlaps
  writes, so the master of the model does not. The AXI4 slave's read burst does not
  wrap at the end of its memory (line 93), its write burst does. `sync_fifo_count`
  says any positive DEPTH, but with DEPTH 1 the range of its pointers is `[-1:0]`.
* Exercises. The calculator accepts operands and operators in orders that are no
  expression. A save killed in the middle leaves a torn file, which `load_from_file`
  completes from stale rows. The menu loops spin once input has ended or a number was
  unreadable. `std::stoi` reads "4x" as 4.

## 5. Proofs

All theorems hold for every value of the constants that satisfies the assumptions
in the modules (positive sizes, `None` no client, and so on).

* `EpollEcho_proofs`: `Invariant` is `Spec => []IInv`. `IInv` strengthens what is
  wanted by: a descriptor in use belongs to one accepted client (`OwnerInv`); the
  listen queue has no duplicates (`BacklogInv`); nothing is read or written before
  accept (`FreshInv`); the counters are ordered and `buf_sent = 0` while reading
  (`CountInv`); a handler works on an open connection whose event has left the
  batch (`ControlInv`). `ControlInv` and `NoStaleEvent` need each other (a close
  must not hit an event that waits), and `EchoIdentity` needs `BufferAccounts` (the
  bytes written are the right ones because the buffer holds the right ones), which
  needs `CountInv`. From it: `TypeCorrect`, `EchoCorrect`, `BuffersAccount`,
  `EventsAreFresh`, and `EchoImplemented`: every step of a server is a step of
  `EchoSpec` or leaves its variables unchanged. They cover both trigger modes.
  On top of that invariant, `WakeUps`: the edge-triggered server never
  waits in `epoll_wait` while a connection could go on and no event is coming.
  `WakeInv` says that a connection is in the hands of its handler, or has an event in
  the batch, or is `Settled`: registered for what it waits for, on the ready list if it
  can go on, and owed a wake-up if it is writing and there is no space (`Attended`).
  The steps that matter are `epoll_ctl(MOD)`, which polls, and EAGAIN, which proves that
  there was nothing. The assumption `Trigger = "ET"` is needed: the LT server's full
  buffer is the counterexample of `lt_echo_stuck`. `LossIsThePeers`: in both modes
  bytes are given up only of a connection its peer has closed or reset (`LossInv`).
* `Numbers`: a nonempty set of naturals has a least one (`LeastNumber`), from which
  induction over a set follows by the smallest counterexample (`SetInduction`,
  `UptoInduction`); the naturals up to a bound have a greatest (`GreatestNumber`); a function
  whose values are computed each from the one before exists (`Iterated`, by induction on
  how far it is defined), which is how the loops written as recursive functions are unfolded;
  quotient and remainder are unique, and numbers less than the modulus apart have
  different remainders. The proofs of the ring, of the gap buffer and of the FIFOs rest on these.
* `SpscRing_proofs`: the invariant is `head = got % M`,
  `tail = i % M`, and each thread's view of the other's index is the index after
  some earlier number of operations that is still good enough for what the thread
  is about to do (`ProducerView`, `ConsumerView`). `Contents` says what the slots
  hold. From it: `TypeCorrect`, `Ordered`, `RaceFree`, and `FifoImplemented`, the
  refinement of `FifoSpec`.
* `Servers_proofs`: `MasterEndsLast`, for any number of workers, from the
  invariant that up to where the last loop has come the workers are gone
  (`WaitedInv`). `NothingMadeUp`, for any number of senders and writes: `sigwait`
  answers no signal that was not sent, what was read from the eventfd and what waits in
  it add up to what was written, and the loops leave for their sentinel only.
  `ContextsSafe` and `NobodyForgotten`, for any number of
  threads, connections and descriptors and every command line. The first follows
  from what main has joined so far (`JoinInv`). The second is an invariant of its
  own kind: a step that takes the last thread from a socket with a waiting
  connection must leave the event of that socket somewhere. It needs that queues
  and tables are disjoint (`ConnInv`), and in ET mode that `accept` does not fail
  for want of descriptors while a connection waits, which is a count of the
  connections (`AmpleIsEnough`).
* `ConnHold_proofs`: `RamperCounts`, `ServerCounts` and `ClosesWhatEnded`, for any
  number of connections, descriptors and threads. A descriptor with `fdstate = 1`
  has a connection that is up and no longer watched for `EPOLLOUT` (`CountedInv`);
  the descriptors of a batch are still open and, if counted, ended (`BatchInv`);
  the hold loop, which takes any event for an end, is right because everything open
  is counted by then, as long as no more than the target were opened (`HoldInv`).
  The connections a server thread holds are up and nobody else's (`ServerInv`), so
  that no step changes the difference of the number held and the additions owed
  (`Owed`, `Balance`).
* `Editor_proofs`. `GapBufferIsText`: every operation of the vc-03 buffer, from any
  capacity and with any slack of `grow`, is one of `TextSpec`. The text is the sequence
  before the gap followed by the one after it; the lemmas say what `move_gap`, `Resized`,
  `Put` and `erase` do to that sequence. `IndexKept` and `EditorIsText` for the editing core: the line
  index is sorted, starts at 0, and its other entries are the offsets after a newline
  (`EditInv`); a newline inserts an entry and shifts those behind it, a join or a
  deleted line removes one. That `delete_line`, whose loop erases from the end of
  the line down, removes just that line is the induction of `SetInduction`.
  Together they are `BuffersAreTexts`.
* `Hardware_proofs`. `Coherent`, for any blocks and number of turns: a modified line is
  alone, no two cores are exclusive at once (`Alone`), and the write that follows a
  read finds the line that the read brought (`Brought`); the counters need that a
  write never finds the other line modified, which follows from `Brought`.
  `SyncKept`: the queue of one clock in all its kinds, for any depth their
  parameters admit. `AsyncKept`: the queue between two clocks, for any width. The lemmas
  are about numbers in binary: adding one changes a carry's worth of low bits
  (`Carries`), of which exactly one survives in the Gray code (`OneBit`); so a
  synchronizer that samples while the pointer moves catches the old or the new
  position and nothing else (`OldOrNew`), and two positions at most once around apart have
  different codes (`GrayIsCode`). The invariant says that what each side sees of the
  other is a position it has had (`Crossed`); full and empty, decided from positions that
  are never ahead of the truth, then err on the safe side. `ArbKept`: the cycles a requester
  has waited and its distance from the base of the rotation add up to less than the
  number of requesters. Together they are `HandedOver`. `SlavesAnswer`, for any
  registers, events, memory and bursts: an AXI slave owes at most one response a channel
  and the half of a write that came first waits in its registers (`LiteKept`,
  `BlockKept`); a channel of the burst memory is as many beats into its master's burst
  as the master has counted (`BurstKept`).
  `TransfersDone` and `ReadsTheLatest` are about the platform of `Tlm`, for any jobs,
  width of a word, capacity, latencies, quantum and routes.
  `RunInTime`: each job that waits is due when its notification said and none is due in
  the past (`QueueInv`), so the clock, which moves to the earliest, leaves nothing behind; the
  delta cycles counted are the different stamps with a delta above 0 (`StampInv`); the jobs
  made are those that ran and those that wait (`CountInv`). `AnswerInTime`: a request that is
  not answered has exactly one answer on the way (`FlightInv`), due after the latency of its
  request (`LatencyInv`), none on the way is due before one that was given, and no two are
  given in one place (`AnswerInv`), the calls counted are those these phases take (`CallInv`),
  and the local time stays below the quantum (`ClocksInv`). `ChannelsHold`: a bit of the
  signal is set if one of those who drove it has set it (`SignalInv`, whose lemma `OrIs` is
  the induction over the drivers); what was taken and what waits is what was written
  (`QueueKept`); the sums and their true values have the same remainder (`SumInv`); the line
  of the trace that counts at a moment has the value of that moment (`TraceInv`).
  `ReadsTheLatest`: each byte of each memory is the one written last at its address
  (`Memories`), because an address and what is accessed from it lie in one route
  at most (`OneRoute`); a read then answers with the bytes as they were at the call (`Answered`).
  Last the experiments about memory, which together are `MemoryCounts`. `LatestHeld`, for
  any sets and ways: the order `lru` of a set names each way once (`Permutes`), and from the
  newest on the ways hold the blocks of that set in the order of their last use (`Kept`, with
  the listing of the blocks used last that `ListingPush` carries over an access). A hit is
  therefore being among the first `ways` of that listing (`HitIs`), and of two caches with as
  many sets the one with more ways has hit no less often. `StoresDrained`: a core that drains
  each store has paid for all, another has paid at most for all but those it holds
  (`StoresOK`); a drain costs at least one store's time and covers at most a full buffer, and
  without fences exactly that, so that no fences cost the least (`DrainsOK`). `CyclesCounted`: the row open in a bank is that of the last demand it
  answered (`RowInv`); the cycles are those of all the accesses, with a precharge for every
  miss but the first of each bank (`TimeInv`, which counts the banks with a row open); what
  lies ahead of the third demand of a stride is in the cache and stays there (`AheadInv`),
  from which it follows that a stride that lasts is fetched ahead (`StrideServed`).
  `ShortestPath`: the packet is between its source and its destination in both coordinates,
  and turns only in the column of the destination (`NetInv`); the loads add up to the hops.
* `Programs_proofs`, for any number of rounds, items and steps, any batches of calls and
  any interleaving. `QueueKept`: who is in a call holds the mutex (`Mutex`), and what was
  taken and what waits are the numbers from 0 on (`Numbered`); from the same invariant
  `FifoImplemented`, the refinement of `FifoSpec`. `PingKept`: who works on the flag
  holds the mutex (`Held`), no thread sleeps while the flag is up for it
  (`SleepsInVain`), and the thread is a turn ahead of main exactly while
  main waits with the flag lowered (`Ahead`). `TimedKept`: the alarm is off before
  and after the read, which has timed out exactly when it rang while the read waited
  (`TimedInv`). `SignalsKept`: what is due is pending and what is pending is blocked, so
  that only another signal, or one before `main` blocked it, ends the program (`MaskInv`);
  and unless the flag is up every HUP that was taken has been served (`HupInv`). `AgentKept`:
  the results so far answer a prefix of the batch, or in parallel any part of it, and
  each has counted the edits before it (`BatchInv`); this becomes a complete answer in
  the history (`HistoryInv`) because the loop appends only when no call is left, and it
  has replied as often as it has stepped (`StepInv`). Together they are `TurnsTaken`.
  Then three parts of the editor. `UndoKept`, for any texts typed and any number of
  edits: the undo stack is a path of texts from the empty one to this one and the redo
  stack a path back from the newest (`Trail`), each command leading from one text to the
  next and back (`Linked`); two inserts that are merged make one command that leads as
  far as both (`MergeLinks`). The invariant is given up where the code gives it up, at
  an edit merged while the redo stack is not empty (`forked`, see section 4).
  `SavedWhole`, for a file of any contents: until the rename the target is as it was, and
  what is renamed is complete and on the disk (`FileInv`). `InputKept` is `KeysKept`,
  for any bytes (what waits in the buffer is the beginning of a sequence, `Begun`, and
  follows the events without a gap, `Cuts`), `CursorKept`, for any text, tab width and
  screen, and `ModesKept`. `CursorKept` needs that columns grow strictly along a line
  (`ColumnsGrow`), so that the column remembered leads back to the character that had it
  (`ColumnFound`), and assumes that the screen is higher than its `scrolloff`: in a
  window lower than that the property claims nothing.
  `WorkKept`, for any keys, maps and number of lines: as long as nothing is changed the
  text is saved (`ExInv`), and of the words of a command line only the beginnings of `quit`
  with a bang end the editor otherwise (`QuitMeant`); the loop that follows a map at most 16
  times ends in a sequence of keys whatever the maps are (`ExpandIs`).
  Last what the load generators and the performance labs count, which together is
  `WorkCounted`. Their counters are sums over a set of threads or elements, so the proofs
  begin with the sums that `MapThenSumSet` takes by choosing one element after the other:
  such a function of the subsets exists (`SumsExist`), any element may be taken first
  (`SumTakes`), and the order does not matter (`SumReordered`). `BenchCounts`, for any number of connections,
  rounds and bytes: the rounds a worker has done are those that came back whole and those
  that failed (`RoundsOver`), and no byte of an earlier round is on its way when one begins (`NoneTooMany`), so
  that each round that is called ok had its own payload come back, but for those a failed
  write left of a long connection. `BlockingCounts`, for messages
  of any length: the bytes a caller has got back, those on the way either way and those
  the server holds are never more than it sent, and exactly as many for the benchmark as
  long as its connection lasts (`NoneLost`). `ThreadsCount`, for any number of threads and
  operations per look at the flag: the lock is held by whoever works under it (`OneHolder`),
  and the counter is the sum of what the threads did, or less of a plain int, of which no
  thread has loaded more than that (`NoneMissed`). `WalksCompare`, for an array of any even
  size, any stride and number of rounds: the elements add up to the accesses (`EachCounts`,
  `PagesCount`), the sum with a branch and without is that of the upper half in whatever
  order it comes (`HalfSums`), and the search has found the first drop and the first behind
  it (`Drops`). `CallsCompare`, for any number of calls, rounds and trials: a trial has the
  sum of its own passes (`Trials`), one target called in any way adds up to the direct
  calls (`FirstNumbers`, `ByTurns`), and the median of an odd number of trials is in the middle (`MedianIsMiddle`).

That a power of two exists for every width (`Pow2`) is proved and not assumed.

Liveness (and anything with ENABLED) is out of the prover's reach and is only
model-checked: `Echoed`, `Reclaimed`, `Accepted`, `Finishes`, `Reaches`, `LetsGo`,
`Stops`, `Reaped`, `NotificationsArrive`. Five invariants of `parts` are only
model-checked as well. `LeftmostLongest`, `CachesFresh` and `ResultsKept` compare an
algorithm with a recursive operator (the automaton with the backtracker, the highlighting,
the calculator and the sorts with a definition without steps), and a module that
reaches a recursive operator has no prover. `LoadersAgree`, another part of
`CachesFresh`, compares two loops over the bytes of a file. `RunsWhatWasAssembled` (the
sum that a program computes) and `WindowHelps` of `CoresAddUp` (the cycles of a whole program)
are inductions over the data too. The other parts of `CoresAddUp` (the stalls of the pipeline)
could be proved and are not.

## 6. What is not modelled, and why

* What only prints, measures wall-clock time or reads counters of the processor: the
  timings of the performance labs and of vc-12, `perf-probe`, formatting of tables,
  logging. A model of the work that is timed is in `PerfLabs`.
* Closed-form estimates that keep no state: core-mem-lab 9 and 10, most of
  `cpu-model-sim-platform-lab`.
* Shell scripts, `Makefile`s, host configuration, the Python variant of the load
  generator.
* The EDA experiments: some two hundred inputs chosen to make a tool print a message,
  with generated netlists, logs and C++ from Verilator. FPGA beginner demos and the
  testbenches. The safe FSM, whose point is how a tool synthesises unreachable
  encodings, and the AXI-Lite variants that are faulty on purpose.
* The crash demos raise one signal and die; pattern illustrations, `guess_number.c`
  and `calculator.c` of the C exercises print what they compute.
* Of mini-agent: schema validation, the bodies of the tools, the tracer.
* In the servers: socket options, CPU pinning and the allocation of the tables
  (`conns[]` is indexed by a descriptor without a test; the model's descriptors are
  always inside). Of the asynchronous FIFO: the reset of one clock domain alone.
* Escape sequences and encodings of the editor: a key, a character and a screen cell
  are values.
