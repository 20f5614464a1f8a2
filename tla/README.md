# TLA+ models of the programs in this repository

The repository is a collection of small, independent system programs in C and
C++ (processes, signals, threads, shared memory, sockets, FUSE), one or a few
files each, some with a tester that is the other side of the conversation.
There is no common library: "the system" is the set of these programs, and the
interesting ones are those in which several actors — threads, processes, signal
handlers, the kernel, the network — interleave.  Each of those gets a TLA+
module of its own, checked with TLC on small instances; the ones whose
properties should hold for every number of threads, items or bytes also get
TLAPS proofs.

Run everything from this directory:

    tlc -workers 2 -config <run>.cfg <module>.tla
    tlapm <module>Proofs.tla

`PROJECT.json` lists the runs, the source lines behind every definition (`map`),
a mutation of the code for each property that makes the property fail
(`mutants`), the hazards the properties are aimed at, what the code does otherwise
than its comments say (`findings`), and the theorems.

## 1. Inventory

### Threads

**Ring of mutexes** — `inf19-3.c`.  State: an array of `Count` doubles, as many
mutexes.  `main` starts one thread per cell, joins them in order and prints the
cells.  In each iteration a thread adds 1 to its own cell, 0.99 to the left and
1.01 to the right one, under up to three mutexes, in one of five instruction
sequences chosen by `Count` and `index % 3`.  Hard: circular waiting around the
ring; with two threads a cell is updated under the mutex of *another* cell.
Correct when no addition is lost, every printed total is `3 * iterations`, and
nobody gets stuck.

**Ring with hint flags** — `inf19-0.c`, the earlier version.  State: the same, and
a flag for every cell that says "in use" and is read without a mutex; two stale flags
choose the order of the locks.  Everybody's middle mutex is mutex 0.  Correct when no
addition is lost and it ends; the first is true for a reason nobody meant, the second
is not.

**Prime stream** — `inf19-1.c`.  State: a buffer of `size + 1` numbers in which
0 means "not there yet" and -1 "no more", one mutex, one condition variable, a
producer's counter and a consumer's counter.  Hard: the -1 is written *without*
the mutex; wakeups may be spurious or left over.  Correct when it prints the
first `size` primes of the range, in order, no wakeup is lost, and it ends.

**Lock-free list** — `inf19-2.c`.  State: an atomic head, nodes with a next
field.  `N` threads push `K` items each with a weak compare-and-swap; `main`
joins, prints and frees recursively.  Hard: the head moves between read and swap,
the weak swap fails for no reason.  Correct when every push is atomic and no node
is used after it has been freed.

**Thread exercises** — `inf18-0.c` and `inf18-1.c`: threads that read their numbers
from one input, in a chain in which each starts the next, or side by side.
`inf18-2.c`: two threads send a number to and fro; either can see the end first.
Correct when every number is counted once and both threads end.

### Processes, signals, shared memory

**Barman and smokers** — `inf20-2.c`.  State: a shared segment with two
process-shared semaphores and one character; a flag in every child cleared by
its SIGTERM handler.  The barman offers each letter with `take`, waits for
`give`, and ends the three children by SIGTERM, a last post each, SIGTERM again.
Hard: a signal before the handler is installed, or between the test of the flag
and `sem_wait`; a late signal lets one child take another's last post.  Correct
when each letter is printed once and in order, and everybody ends.

**Run with a time limit** — `inf14-2.c` (with `inf14-2-tester.c` as the program
run).  State: the parent's mask, its pending signals, one alarm, two flags set
by one handler, a child.  Hard: alarm and end of the child together, or before
`sigsuspend`; SIGCHLD for a stop.  Correct when the verdict says what happened
and the limit is kept.

**Function server in shared memory** — `inf21-1.c` (`mumtoz-21-1.c` is the same
server), client `inf21-1-tester.c`.  State: a named segment that survives both
programs, with two semaphores, a function name, an argument and a result.  Hard:
leftovers of earlier sessions; a client started before `sem_init`; a name the
library does not have.  Correct when every call is answered with its own result.

**Signal counters** — `inf13-0.c`, `inf13-1.c`.  State: a counter, a buffer, a flag
for the end, the mask and the pending signals.  One handler does all the work, and
handlers of different signals nest at any instruction.  Correct when the counter is
that of the signals handled and a signal to stop is not slept through.

**Signal ping-pong** — `inf14-0.c`; `inf14-1.c` and its tester.  State: the queue of
blocked realtime signals of each process.  Hard: signals that arrive before they are
blocked, and signals nobody meant.  Correct when every request is answered once and
in order.  **FIFO writer** — `inf13-2.c`, `ram.c`: how many numbers fit into the
bytes that were written.

**Pipelines** — `main.c`, `inf15-0.c` … `inf15-4.c`: `fork`, `dup2` and `exec`
over pipes.  Hard: `inf15-2.c` waits for the compiler before reading its pipe,
`inf15-4.c` for each stage before starting the next: a full pipe stops both.

**Parallel map** — `inf20-1.c`.  State: a shared mapping with the pids, the array and
a semaphore placed by pointer arithmetic.  Hard: the result of `fork` is stored in
memory parent and child share, and then looked at to tell them apart; the semaphore
can lie behind the mapping, or under the pids.  Correct when every cell is computed once
before the caller returns.  **Shared-memory reader** — `inf20-0.c` with
`inf20-0-test.c`: a reader that resizes the memory before it waits for the writer, even
when it has found no semaphore to wait for.

**Process chains, generated code** — `inf11-*.c`: a child starts with a copy of what
its parent has not flushed, and `fork` fails.  `inf12-*.c` write and compile a program.

### Network

**Ping** — `inf22-1.c` (variants `inf22-1-1.c`, `inf22-1-ver1.c`).  State: a raw
socket with a receive timeout, counters of requests and replies, the elapsed
time, looked at between requests only.  Hard: lost, late and foreign packets, and
a count that treats the first request specially.  Correct when it ends in time
and the printed number is that of the replies, which it is in one of the three only.

**Epoll servers** — `inf17-1.c` (upper-case echo with a stop pipe), `inf17-0.c` (byte
counter over edge-triggered descriptors, some of which epoll refuses).  **Chat
server** — `serv_base.c`.  State: the list of clients, edge-triggered events.  Hard: one
accept and one receive for each event, whatever has arrived; a client that leaves or
does not read, or fills the buffer.  Correct when who is in the room hears everything once and in order,
and nobody is forgotten.  **Single-request HTTP servers** — `inf16-1.c`,
`inf16-1-1.c`, `inf16-2.c`.  State: the connection, the request read from it, what is
still to be written.  Hard: blocking reads and writes while the stop pipe waits, a
program that does not end or cannot be run, clients that do not read.  **Page buffers** —
`inf23-2-ver2.c`, `inf23-2.c`: buffers grown in curl's callback with a
"capacity" that is not the size of the allocation.  **Number clients** — `inf16-0.c`
over a stream, `inf22-0.c` over datagrams: each number sent, and the next thing that
comes printed as its answer.  Hard: half a number in a read, answers that are lost or
come twice, and a sender that is not the server.  **HTTP clients** — `inf23-0.c`,
`inf23-1.c`, `another-inf23-0.c`: the header of a reply skipped, its body printed.

### Files and pure computations

**Union file system** — `inf24-1.cpp`, `fuse_c_example/main.c`,
`fuse_c_example/build/main.cpp`.  State: the directories on the disk, which others change
and lock, and in `inf24-1.cpp` a list of them made at the start.  Hard: whatever changes
between two file-system calls of a callback, and results nobody looks at.  Correct when
the newest file of a name is served.  **Archive file system** — `inf24-0.c`.
**Number, file and string exercises** — `inf02-*.c`, `inf03-*.c`, `inf08-*.c`,
`inf09-*.c`, `inf10-*.c`, `matrix.c`, `prime.c`, `test.c`.  **Hashing and
encryption** — `inf25-*.c`.  **Dynamic loading** — `inf21-0.c`, `inf21-2.cpp`.
**Assembly** — `*.s`.  The directory `gcc-linaro-…` is a vendored cross compiler.

`PROJECT.json` has the same list with a status for each part.
## 2. Modules

Each module is one program or one family of programs that share their moving
parts; where a family is modelled, the first variable is `program` (or
`launcher`) and `Init` chooses it, so that one run covers them all.  Variables
and actions have the names of the code where it has names for them.

| module | program | state ↔ code | actions ↔ code |
|---|---|---|---|
| `RingLocks` | `inf19-3.c` | `buffer` the cells in hundredths, `owner` the mutexes, `pc`/`round` place and iteration of each thread, `reg` the value loaded | `Program(t)` translates the branch a thread is in to a sequence of lock, add and unlock instructions; `Lock`, `Load`, `Store`, `Unlock` execute one; `Create`, `Join`, `PrintCell`, `Return` are `main` |
| `PrimeStream` | `inf19-1.c` | `buf`, `mut`, `count`, `counter` as in the code | one action per line that touches shared state; `is_prime` is a pure operator; `Wait` gives up the mutex and sleeps in one step |
| `PrimeOutput` | — | the output `PrimeStream` promises | print the least prime of the range that is left, or end |
| `LockFreeList` | `inf19-2.c` | `root`, `link` (the `next` fields), `stack` the recursion of `clear_list` | `Loop`, `ReadRoot`, `Swap`, `SwapFails` of a thread; `Create`, `Join`, `PrintValue`, `EnterClear`, `LeaveClear` of `main` |
| `PushHistory` | — | the pushes as one growing history | push one item atomically, or print the next |
| `Smokers` | `inf20-2.c` | `take`, `give`, `item`, the flag, handler and pending signal of each child | one action per call; `Deliver` runs the handler |
| `TimedRun` | `inf14-2.c` | `blocked`, `pending`, `timer`, the two flags, the `child` | one action per call of the parent, `Handle` the handler in `sigsuspend`; the child does anything |
| `Ping` | `inf22-1.c`, `inf22-1-1.c`, `inf22-1-ver1.c` | the counters, `clock`, `inbox` of the socket | one action per blocking call; the network is `Arrive`, `ArriveForeign`, `Tick` |
| `SharedCall` | `inf21-1.c`, `mumtoz-21-1.c`, `inf21-1-tester.c` | the fields of the segment, place of server and client | one action per access to the segment |
| `CallService` | — | one pending call | ask, and be told the function's result |
| `PageBuffers` | `inf23-2-ver2.c`, `inf23-2.c` | `alloc`, `capacity`, `size` | one action per chunk curl delivers |
| `Pipelines` | `inf15-0.c` … `inf15-4.c`, `main.c` | `procs`: every process with its place in the launcher's code (`at`, and `inside` the body of a fork), its slots and its descriptor table; `pipes`: how full each is, by the process and the place that made it | each launcher is a list of calls for a number of programs (`inf15_3` …; a fork holds what the child does first), executed by `MakePipe`, `Redirect`, `CloseSlot`, `ForkChild`, `Execute`, `WaitFor` … |
| `StopPipeServers` | `inf16-1.c`, `inf16-1-1.c`, `inf16-2.c`, `inf17-1.c` | `events` the rest of what `epoll_wait` returned, `errno`, connections and what has arrived on them | one action per event handled, per part read and per write; `due` is what an HTTP server still has to write; `Signal` is the handler |
| `UnionFS` | `inf24-1.cpp`, `fuse_c_example/main.c` | `disk` what is in the directories, `locked` what may not be used there, `tree` the list read at the start, the loop of one callback | one action per file-system call of a callback; `Others` change the directories in between |
| `RingHints` | `inf19-0.c` | `lock` the flags, `mut` the mutexes, `path` what a thread has found in the two flags, `at` its place | `Test` reads the flags and chooses a `Program`; `Lock`, `SetFlag`, `Load`, `Store`, `Unlock` execute it; `RingArguments` holds the command line of both rings |
| `SignalCounters` | `inf13-0.c`, `inf13-1.c` | `counter`, `buffer`, `chk_exit`, `pending`, and `stack`: the handlers entered, each with the rest of its `Body` | `Deliver` enters a handler wherever its signal is not blocked; one action per access to what handlers share |
| `RealtimeSignals` | `inf14-0.c`, `inf14-1.c`, `inf-14-1-tester.c` | `inbox` the queue of each process, `file` what the files are like | `Take` is `sigwaitinfo`, `Post` `sigqueue`; one action per answer; `Request` and `Stray` come from outside |
| `ChatServer` | `serv_base.c` | `edges` what epoll has not reported yet, `events` what it has, `clients_list`, `todo` the receivers of the message under way | `Poll`, `Accept`, `Receive`, `SendNext`; clients `Connect`, `Say`, `Leave` |
| `ByteCounter` | `inf17-0.c` | `still_opened`, `all_readen_bytes`, `edges` | `Register`, `Poll`, `ReadData`, `ReadNothing`, `ReadEnd`; others `Write` and `Close` |
| `ParallelMap` | `inf20-1.c` | `pids`, `buffer` (how often each cell was computed), `semaphore`, place, counter and result of `fork` of each process | one action per access to the mapping and per system call; `build` says whether the result of `fork` is read back |
| `PingPong`, `ThreadInput` | `inf18-2.c`; `inf18-0.c`, `inf18-1.c` | the messages between the threads; what is left of the input | one action per read or write of a thread |
| `ForkChains` | `inf11-0.c`, `inf11-1.c` | `chain` what every process has buffered, `out` what was written | fork with its copy of the buffer, wait and exit |
| `SharedReader` | `inf20-0.c`, `inf20-0-test.c` | `size` and `cells` of the shared memory, `posts` | one action per system call and per cell, of any number of runs |
| `NumberExercises` | `inf02-1.c`, `-2.c`, `-4.c`, `-5.c`, `inf13-2.c`, `prime.c`, `matrix.c` | — | each function as an operator, next to what it is meant to compute |
| `FileExercises` | `inf08-0.c`, `-1.c`, `-3.c`, `inf10-0.c`, `-1.c`, `-2.c`, `inf24-0.c` | — | the same for the exercises with files, and `read_callback` of the archive |
| `NumberClients` | `inf16-0.c`, `inf22-0.c` | `peer` the address that `recvfrom` overwrites; `arrived`/`taken` the stream in parts, `inbox` the datagrams | `Scan`, `Write`, `Read`, `sendto`, `recvfrom`; `ArrivePart`, `Arrive`, `ArriveForeign`, `Close` are the network |
| `ClientExercises` | `inf23-0.c` and its like, `inf23-2*.c`, `inf22-1.c`, `inf25-*.c` | — | the body and the title that are printed, the checksum, the blocks given to the library |

`MCRings`, `MCSharedMemory`, `MCSignals`, `MCServers`, `MCProcesses` and `MCExercises` put
programs of one kind side by side: a variable `chosen` says which of them a behaviour is one of, the
actions are those of the chosen one, and the variables of the others stand still in a
state where nothing is left to do.

`*Proofs` hold the theorems; `MC*` hold definitions that a `.cfg` gives to
constants.  Operators that start with a comment "Mutant:" are mistakes one could
make in the definition that follows them; nothing in the specifications uses
them.

### Abstractions

* Doubles of `inf19-3.c` are counted in hundredths: the sums are exact there, and
  what is printed with `%.10g` does not show the rounding.
* The sentinel of `inf19-2.c` and the descriptors of `inf15-3.c` are read from
  heap memory that nothing has written; both are blocks of a fresh heap, whose
  pages the kernel fills with zeroes.
* `PrimeStream` takes ranges of naturals.  For 0, `is_prime` answers yes, and the 0
  that is stored means "not there yet" to `main`: it is the one case in which
  `PrintsThePrimes` and `Ends` promise less.
* In `Smokers` a pending signal is delivered at the latest when the process
  leaves a system call.  In `TimedRun`, of two deliverable signals the one with
  the lower number is first, as Linux does it.
* In `RealtimeSignals` the mask is already set: the window between the start of
  `inf14-0.c` and its `sigprocmask`, in which a signal kills it, is not modelled.
* In `Ping` the program's own steps take no time.  The runs have an interval of one tick;
  the theorems allow 0, for which only liveness is not checked.
* In `Pipelines` the programs of the line read and write in any order, the
  terminal's input is empty, and descriptor numbers are the lowest free ones, so
  that they are reused like the real ones.
* In `StopPipeServers` a request has two parts: its first line, and the rest.  `fscanf`
  leaves the end of the first line in the stream, where `fgets` takes it for the empty
  line at the end of the request: the servers answer after the first line
  (`ReadRequest`).  A client that is gone kills the server with SIGPIPE, or not.  A client
  in `Slow` may not read: of what `inf17-1.c` writes to it a piece or all may be missing, and
  `inf16-1.c` waits until it reads, leaves or a signal cuts the write short.  An answer is a list
  of words; a directory is read by `inf16-1.c`, or not, with a length that may be negative,
  and cannot be run by `inf16-2.c`.  `replies` is what was written: closing a
  connection with the rest of a request unread resets it, and the client may then lose
  what it has not received yet.
* `SignalCounters` counts from 0 or 8, so that numbers of one and of two digits occur;
  a text is its number and how many bytes of it are written.
* In `ChatServer` what a client sends is a number of messages, and a buffer holds
  `BufSize` of them.  A full buffer has no end, and `sprintf` behind a prefix writes past
  `message` (`Overruns`): the server dies of it or goes on with the message as it is, and
  other damage to its stack is not modelled.  A `send` to a client that does not read fails, or
  takes a part, which is no failure.  `CHK`, a macro of a header that is not in the repository,
  ends the program when a call fails.
* In `ByteCounter` the zero that `inf17-0.c:35` writes behind what was read lies past the
  buffer after a full read; what it hits is not modelled.
* In `ClientExercises` the search for a title stops at the end of the page; `strstr` of
  `inf23-2*.c` needs a zero byte there, which nobody writes.
* In `FileExercises` and `ClientExercises` reads do not fail: what `inf08-0.c` and the
  decrypting programs do after an error is not modelled.
* In `ParallelMap` one fork may fail.  Behind the mapping there is nothing, memory
  that is shared too, or memory of which every child gets a copy.  `PidsAhead`, the pids
  that fit before the semaphore for every cell and one more, is 14 in the code and 1 in the run, so
  that two processors reach it.  What a pid does to the semaphore is its value, and any number
  where those who wait are counted.
* In `NumberExercises` a number has 4 bits and not 16, a double 2 bits of exponent and
  3 of mantissa; in `FileExercises` a buffer has 3 bytes and not 4096.
* In `NumberClients` a number on the stream has two parts, which stand for its four
  bytes; an answer is the number of the request it answers.  `recvfrom` is given a size
  that nothing has been stored in, so the sender's address may be stored or not.
* In `ClientExercises` a line buffer has room for 3 bytes, a byte has 2 bits and a block
  3 bytes; a tag of a page is one letter.
* In `UnionFS` the mount is one step, and two names, one inside the other, stand
  for all.  An entry is open or locked, which stands for a mode that gives the program
  nothing; modes between the two are not modelled.  The program's calls do not share anything that changes after the
  mount, so one at a time is enough.

## 3. Runs

Every run finishes in less than three minutes.  Two of them end with a violation, which is a
finding.  Deadlock is checked except where a
program may really stop, which the `.cfg` then says.

| run | bounds | why they are enough | what it shows |
|---|---|---|---|
| `rings` | `inf19-3.c`: 4 threads, 1 iteration, and 2 threads, 3 iterations; `inf19-0.c`: 4 threads, 2 iterations, and 3 threads without any | four is the smallest ring that does not close (`Count % 3 = 1`); two threads take the second branch, in which cells are updated under the mutex of the *other* cell | nobody updates a cell at the same time as another (`NoConcurrentUpdate`), totals are exact (`PrintedTotals`), threads get stuck only at the seam between the last thread and thread 0 (`StuckOnlyAtSeam`), and otherwise everything is printed (`EitherPrintedOrStuck`); in `inf19-0.c` no addition is lost and nothing is ever printed (`NoAdditionLost`) |
| `prime_stream` | 48 command lines | more primes than asked for, as many, fewer, none asked for, an empty range, a range from 0 | no wakeup is lost, the printed stream is that of `PrimeOutput`, the program ends although wakeups may be spurious |
| `shared_memory` | list: 3 threads, 2 items; server and client: 2 sessions, up to 2 calls | three threads are what a swap that is overtaken twice takes; equal calls, different calls, none, an unknown name; a second session finds what the first has left | the list in memory is the history of the pushes and no node is used after its free (`Inv`), pushes are atomic (`PushesAreAtomic` refines `PushHistory`); each call is answered with its own result (`Serves` refines `CallService`), and server and client take turns (`CallInv`); `main` ends, and a client started too early and an unknown name are the only causes of a hang (`ProgramsEnd`) |
| `smokers` | 3 children | the code has three; an empty input; one with a digit, two letters and a byte above 127 | output follows input; a letter is printed twice only by the last posts; everybody ends |
| `signals` | `inf14-2.c`: one child; `inf13-*.c`: 3 signals; `inf14-*.c`: 2 files, 3 requests, 1 stray signal | three signals nest as deep as there are kinds of work; a request of the same kind twice and one of another | the verdict is what happened, up to the two cases named in `TimedRun` (`VerdictIsRight`), the limit is kept (`LimitKept`); only an interruption halfway through the counter's update can spoil it (`CountIsExact`), no signal to stop is slept through (`StopIsHeard`); nothing asked is lost, answered twice or out of order (`AnswersAreDue`), and all is answered (`EveryoneIsAnswered`) |
| `ping_task` | as `Ping` in `exercises` | up to four requests, one foreign packet | a violation: the number printed is not that of the replies (`CountMatchesReplies`) |
| `processes` | `inf20-1.c`: 0, 1, 3 and 7 cells, 2 processors and both builds, or 3 and the build that keeps what `fork` returned; up to 8 processes; `inf18-2.c` from 5 numbers; `inf18-0.c`, `inf18-1.c` on 5 inputs; chains of up to 4; a writer and 2 readers of 2 numbers | fewer cells than processors, a rest, an array that puts the semaphore outside the mapping, one so short that the pids reach into the semaphore; a misled process and its own child take four processes; of two readers one can find the semaphore and the other not | the map is complete when it returns, unless a process was misled or a pid was stored over the semaphore (`MapIsComplete`); numbers are printed once and in order (`OutputIsRight`); all of them end (`ProgramsEnd`) |
| `exercises` | pages up to 60 bytes, first allocations 6 and 20, chunks of 0 to 9; every function on all small inputs; the pings for 4 ticks with 1 foreign packet | a chunk larger than an allocation, a page that grows several times; inputs at both sides of every boundary of the small word and buffer; up to four requests with waits of two ticks: replies can be late for their own request and in time for the next | the page never overflows its buffer (`NoOverflow`); each function computes what it is meant to, or what it computes instead is stated (`ResultsAreRight`); the number of replies is right for `inf22-1-ver1.c`, and too large only for foreign packets and a first timeout in the others, no reply counts twice, and the program is late by one sleep and one wait at most (`TotalIsRight`), and prints its total (`TotalIsPrinted`) |
| `pipelines` | 57 lines | all lines of one and two programs, 27 of three; a pipe holds one unit, programs write none, one or two | a reader gets all of its predecessor's output; nothing is left running; a launcher hangs only for an output that does not fit into a pipe or after a failed exec |
| `servers` | 2 clients, one of which may not read and one of which asks for a plain file, 2 parts, 1 signal, six kinds of files; chat: 3 clients, 3 messages, client 1 may leave and client 2 may not read, 2 messages fill a buffer or the socket of a client that does not read; counter: 2 descriptors, 3 bytes; number clients: 2 numbers, 2 copies of an answer, 1 stray datagram | two clients are needed for one to keep the other waiting; in the chat one may not read, one may leave, one only talks; three messages fill a buffer and leave one; a read of the counter takes two bytes, so three take two reads | no event is stale, replies are those due, and a number printed is the answer to the one before it up to what the network did (`AnswersAreRight`); a signal stops a server, with two exceptions below (`EveryoneIsServed`); the room hears everything once and in order, and no connection, message or end is left waiting, with the exceptions it names (`NobodyIsForgotten`); every byte is counted once (`EveryByteCounts`) |
| `union_fs` | 2 directories, 1 change, 1 entry locked at the mount | all arrangements of one name as file or directory, with two modification times; the change comes before or during a call, and may lock or unlock something | undisturbed calls serve the newest file, if it may be read (`ServesTheMerge`); only something removed during a call or a closed directory kills the program, and only a change, or a file that may not be read, makes it claim more bytes than it has read (`Inv`) |
| `union_errors` | 2 directories, no change, nothing locked | one call is enough | a violation: `getattr` succeeds for a path that is nowhere (`GetAttrReportsErrors`) |

Two sentences of the repository are not true of the code (`findings`):

* The task at the top of `inf22-1.c` (lines 16 to 18) asks for the number of replies that answer
  the requests.  A raw socket gets every ICMP packet of the host, and `inf22-1.c` and `inf22-1-1.c`
  look at nothing in it; `inf22-1.c` counts a first request that timed out, too (line 147).  With
  the datagram socket of `inf22-1-ver1.c` the count is right.
* The comment at `fuse_c_example/main.c:94` says that `-errno` is returned on an error.
  `stat` at line 82 may fail, and 0 is returned.

What else the runs say about the programs, beyond "it holds":

* `inf19-3.c` can deadlock when the number of threads is 1 modulo 3, and then only
  at one place of the ring.
* `inf21-1.c` erases the request of a client that starts before `sem_init`; both
  sides then wait for ever.
* `inf15-4.c` and `main.c` run the programs of a line one after the other, and
  `inf15-2.c` waits for the compiler before it reads its messages: an output larger
  than a pipe stops them (`OverflowIsFatal`).  After a failed `exec` the child of
  `inf15-4.c` goes on as a second launcher (`Misnamed`).
* `inf17-1.c` skips the stop event as long as `errno` is `EAGAIN` from an earlier
  read or write (`Deaf`), closes the connection of a client that pauses, loses what a client
  that does not read has no room for, and can be kept from nothing else; `inf16-1.c` and
  `inf16-2.c` do not see the signal while a client sends nothing or does not read, or an endless
  program runs (`KeptWaiting`), and they are not kept waiting by the rest of a request, which they
  do not read.  `inf16-2.c` answers a request for a directory with a status line and nothing
  behind it.
* `inf19-0.c` never prints anything once a thread has something to do: thread 1 waits
  for mutex 0, which it has itself.
* In `inf20-1.c` a build that reads the result of `fork` back from the shared array can
  make the caller take itself for a child, or a child go on forking; for arrays of a
  size just below a page the semaphore lies outside the mapping; and with more than 14
  processors for every cell and one more, the pids are stored over the semaphore, and the
  caller may return before anything is computed (`Apart`).
* `inf20-0.c` cuts the shared memory to its own size before it waits, so it can cut off
  what a writer has written, even if it has found no semaphore and dies at its `sem_wait`.
* `serv_base.c` makes one `accept` or `recv` for one event: a second connection, data
  beyond its buffer or an end right behind data is not seen until the next event
  (`crowded`, `flooded`).  A client that leaves, does not read, or fills the buffer can end it
  for all (`DiesForCause`).
* `inf16-0.c` and `inf22-0.c` take what comes for the answer to what they sent last: after
  a short read or a datagram that came twice all later numbers can be wrong, and after
  one from somebody else `inf22-0.c` may send to that address (`AnswersMatch`,
  `StaysWithServer`).
* `inf25-1.c` and `inf25-1-ver3.c` decrypt a whole block after a read of less, so that a
  file that is no multiple of 32 bytes long gets bytes of its own again (`InputIsFed`).
* The HTTP clients take the end of a header line that has just the wrong length for the
  end of the header, and cut the body at zero bytes (`BodyIsPrinted`).
* `find_size` of `inf13-2.c` takes 100 for the number of two-digit numbers;
  `inf08-3.c` takes a place in a file for an index; the buffers of `inf08-0.c` hold one
  chunk; the search of `inf10-0.c` does not end for an empty pattern.
* `inf24-1.cpp` lists a file that appears after the mount, and does not find it;
  `fuse_c_example/main.c` answers for a path no directory has with what the
  *working directory* has under that name; for such a path `ServesTheMerge` promises nothing.
  Both claim the bytes of a file they may not read, without having read any, and die of
  a directory they may not use, at the mount (`inf24-1.cpp`) or in a call (`Unreadable`, `Closed`).

The liveness properties of `servers` say of each client that it is not `Unserved` or
`Forgotten` for ever, and of a signal that a server which goes on running after it is `Deaf` or
`KeptWaiting` from some time on (`StopIsHeard`): an exception has to last as long as what it
excuses.  `EventsAreCurrent`, `Answers` and `RoomHears` are the safety side of the same
exchanges.  Whether `LockFreeList` can deadlock is not a check of its own any more, since
the other program of `shared_memory` may stop: `ProgramsEnd` covers it.

### Fairness

Only what the operating system promises.  Every thread and process of a program
process is scheduled: `WF` on each thread, process or, where the actors are many or the
program is a game of turns, on "some process takes a step" (`Pipelines`, `PingPong`,
`ForkChains`).  `SF` is used twice: on the producer's lock of
`PrimeStream` (a mutex that is free again and again is obtained), and on the
successful swap of `LockFreeList` (a weak compare-and-swap does not fail spuriously
for ever).  Nothing is assumed of the network, of clients, of the program that
`inf14-2.c` runs (except that the kernel executes and ends it when it is killed),
of signals sent by users, of writers and closers of a descriptor, or of spurious
wakeups.  The module of a run that puts programs side by side has the fairness of each
of them.

## 4. Proofs

`tlapm` checks every leaf; the proofs are for all values of the constants, from the
assumptions named in the modules (numbers are naturals, sets of arguments are
what the command line can hold).

**RingLocks** (`RingLocksProofs`, any number of threads and iterations).  Mutual
exclusion is not inductive: with two threads a cell is not protected by its own
mutex, so which mutex protects it depends on the branch.  `IInv` therefore says
that a thread owns exactly the mutexes the code between the start of an iteration
and `pc` has locked and not unlocked (`OwnershipMatchesCode`), that the value a
thread has loaded is still in the cell (`NoLostUpdate`), and that every cell is the
sum of the additions done by its three neighbours (`CellsAddUp`).  The lemmas
`Discipline…` show of each of the five programs that each addition happens under the
mutex its cell is guarded by (`GuardOwned`).  From `IInv` follow `MutualExclusion`
and `Totals`.  `DeadlockOnlyAtSeam` orders mutexes by a rank: a blocked thread waits
for a mutex of higher rank than any it holds, except across the seam, so a chain of
waiting threads (`WaitChain`) ends, and only at the seam it need not;
`DeadlockFreedom` is the case without a seam.

**RingHints** (`RingLocksProofs`, any number of threads and iterations).  The two stale
flags a thread has read give it one of two programs with either neighbour first; `BusyTable`
and `IdleTable` list their instructions.  In both, every thread takes mutex 0 before it adds
and gives it back after its last addition, so the invariant `HintsInv` says who has mutex 0 by the place
of each thread, and that a value loaded is still in its cell (`ReadIsFresh`).  A neighbour of
cell 0 takes mutex 0 as that cell's, too, and never passes the second of the two locks
(`NeighboursHalt`); thread 1 is one, so it is never joined.  `MutexZeroIsEverybodys` is the
theorem for all numbers, `HintsLoseNothing` the property of the run, for its numbers.

**PrimeStream** (`PrimeStreamProofs`, any arguments).  `HInv` strengthens the types
by who holds the mutex at which place (`Positions`) and by `NoSignalBeforeSleep`:
between main's test and its sleep the producer cannot be about to send the signal for
the tested cell; for the terminator, which is written without the mutex, the empty
critical section that follows does it.  `NoLostWakeup` follows, and with the bound of
both counters `StreamInvariant`, the whole invariant of the run.  `PrimesInOrder` is the
refinement of `PrimeOutput`: the filled cells hold exactly the primes of the range the
producer has looked at, in increasing order (`Found`), the producer stops only at the limit or
the end of the range (`Stops`), and `main` takes no empty cell and leaves its loop only at the limit or
the terminator (`Taken`).  `PrimeTest` compares `is_prime` with the definition of a
prime: a number with a divisor has one up to its root (`DivisorOfDivisor`), from 1 on; a
0, which `is_prime` accepts, is never taken because it reads as an empty cell.

**LockFreeList** (`SharedMemoryProofs`, any number of threads and items).
`ListIntegrity`: the nodes reachable from `root` are the history of pushes, newest
first.  The strengthening says that a thread about to swap has linked its own, still
private item behind the head it expects, and that threads are behind their loop
counters, so the item is new; a successful swap then prepends it.  `ListSafety` adds that
main's recursion is at the place of the history where its printing has ended, and so
visits no node it has freed.  `PushesAreAtomicSteps` is the refinement of `PushHistory`: a
successful swap is `Push` of the thread's next item, since those below its counters are in
the list and the others are not; `PrintValue` prints the next one of the history,
since `main` only starts it after the last join; every other step changes nothing of it.

**PageBuffers** (`NetworkProofs`, all sizes of chunks and first allocations).
`PageFits`: the "capacity" of `inf23-2-ver2.c` exceeds its allocation by no more than
`size`, and the callback always asks for `size + chunk` more, so the test against the
wrong capacity still allocates enough.  `BuffersGrow` needs the same invariant.

**SharedCall** (`SharedMemoryProofs`, any library, any work of the clients, any number of
sessions).  That server and client never have the segment at once says nothing about the
semaphores, so `Coordinated` adds where the one can be while the other is at a given place
(`Places`), what the segment holds when it is somebody's turn (`Contents`), and whose post a
waiting client has to come or what has become of it (`NotForgotten`).  From it follow
`OneTurnAndCauses`, the invariant `CallInv` of the run, and `CallsAreServed`: every step of the
two programs is a step of `CallService` under the mapping, or leaves it unchanged.

**Ping** (`NetworkProofs`, all times, an interval of 0 included, and any number of foreign
packets).  `PingInv` ties the program's counters to the packets: a reply is travelling, queued
or taken, once (`Once`); replies answer requests that were sent, and only finished iterations
have timed out (`Numbers`); what was counted is what was taken and a first timeout, and the
foreign packets taken are no more than have come (`PacketsCounted`); the clock is what the finished iterations have cost plus what the present
one may (`Deadlines`).  `CountAndTime`, the invariant `TotalIsRight` of the run, follows.

**Smokers** (`SignalsProofs`, any input).  `SmokersInv` counts: every post of `take` is still
there, with a child, given back, or used up by a child that has returned (`Posts`), so one
letter is on its way at a time; nobody is signalled before the end of the input and
everybody before the last posts (`Signals`); who has printed more than the input will
never print again (`Extras`).  `LettersInOrder` and `AtMostOneRepeatEach` follow.

The other three programs with signals (`SignalsProofs`) are run side by side by
`MCSignals`; each theorem is about its property in all behaviours of that module.

**TimedRun** (any child).  A handler only runs in `sigsuspend`, so both flags are clear before
(`Stages`); an alarm that has been seen means that the limit is over (`Alarms`); there is no
verdict before the parent has decided, and SIGTERM is only sent for one (`Verdicts`).
`VerdictFitsTheRun` follows.

**SignalCounters** (any start numbers of one digit, any number of signals that keeps the counter
within two digits, which is what the text's length is modelled for).  `CountInv` says what can
be left of each handler and that no two of the same signal are on the stack (`Stacked`); that
every number is bounded by the signals sent, less the updates still to come (`Reach`, `Bounded`);
and, while nothing is torn, that what a handler has loaded is the counter, and what it has formatted
is in the buffer (`Untorn`).  `CountsTheSignals` follows.

**RealtimeSignals** (any numbers of files, requests and stray signals, any numbers typed).
Of `inf14-1.c` the signals of one number form a pipeline: what the tester has printed, what is in its
queue, what the server works on, what is in the server's queue.  Counted in this order they are
due to the numbers sent, one after the other (`Conversation`, `Talk`); taking a signal out of
the middle of a queue leaves the order of the others, and the one taken is the first of its number
(`ChosenFacts`, `RankRemoved`).  Whatever the server has or will take was asked for or is a
stray signal (`Causes`), so it only ends for a cause.  For `inf14-0.c`, requests are counted
(`RequestsStep`).  `AnswersComeInOrder` follows.

**StopPipeServers** (`NetworkProofs`, any finite set of clients, any number of signals, any files,
in all behaviours of `MCServers`).  `PipeInv` adds to the types where each program can be
(`PipePlaces`): while a part is read or answered the client is the head of `events`, and nobody's
unread parts are more than were sent.  A connection is only closed by its own event, and
no descriptor is in `events` twice, so the events behind it are of connections still open.  Of an
HTTP server `HttpAnswers` says that it has answered nobody and read from nobody, or that there
is one client and one answer the file it has named calls for, of which `due` is the end and what was
written the beginning (`OnTheWay`); a write cut short by a signal changes the last word of that answer
(`MayGet`).  `EchoAnswers` is the last part of the property.  `ServersAnswer` follows.

**NumberClients** (`NetworkProofs`, any numbers, any size of a number, any number of copies
and stray datagrams, in all behaviours of `MCServers`).  `NumberInv` counts what has been sent and
printed at each place (`SentAndPrinted`).  On the stream the bytes taken are `Size` for each
number printed until a read was too short, and never more (`StreamRead`), so a whole number
found at a later place is an earlier answer.  Of datagrams, one that is printed or waits has
come, and one that is there twice has come twice (`CopiesCame`).  An earlier answer that is printed
now was printed at its own place, and so has come twice, or that place held another one,
which had a cause.
`NumbersAnswered` follows, and with it `EveryAnswerIsRight`, the invariant of the run.

**Pipelines** (`PipelinesProofs`, any command lines, any number of programs, any capacity of a
pipe).  The first half is about the texts alone, for every number of programs.  `Knows` says
which end of which pipe a launcher has in which slot at each place of its text, `Used` which
slots are in use, and the lemmas on `Rules` and `Wires` that every instruction leads from one
place's knowledge to the next one's; `BodyRules` carries it through the bodies of the forks to
the `exec`, where the program has the pipe before it as its input and the one behind it as its
output, and `Eager` says for which programs the launcher waits before anybody can read them.
The second half is the invariant `IInv`:

* `Room`: what is open above the first three descriptors is in a slot in use, so `pipe` finds two
  free descriptors (`FreePair`, by counting);
* `WaitsCome`: whoever has forked a process that still runs is before the place where it waits for
  it.  A child that a failed `exec` has left in the launcher's code may fork in turn, so a launcher
  that has returned leaves nothing running by induction over all processes (`NothingLeft`);
* `RootWired`, `Forks`, `ChildrenWired`: the launcher's slots and descriptors are what its place says,
  it has one child for each fork behind it, and that child's are what its stage says;
* `Flow`: when every program is known, only the launcher forks, and what a program has written is
  what its reader has taken and the pipe still holds (`Balanced`).  The end of an input is only seen when
  nobody has the pipe's write end, and whoever could still write has it, by `ChildrenWired`;
* `Eagerly`: behind the wait for a program that nobody reads yet, its whole output is in its pipe,
  and so not more than fits.

`Alone` takes the place of all but the first two where there is nothing to connect.  The wiring
is needed because what a reader gets, what a pipe holds and when an end is seen depend on
every descriptor of every process.  `PipelinesAreRight` is the invariant `Inv` of the run, and
`OverflowStopsLaunchers` its `OverflowIsFatal`.

**UnionFS** (`UnionFSProofs`, any number of directories, of locked entries and of changes).  `Shape` is where a
callback can be and what its variables hold there, and that everything on the disk has its parent
directories.  `EntryOK` says what a callback may rely on of the entry it has looked at: it
exists, is a file, is a directory or has a given length, unless it has been removed, written
or given another mode since; and what has killed the program is still there to be seen.  `OnlyOthersHurt` follows, the first invariant of the run.  For the second, `LoopOK`
says that an undisturbed loop has the newest of the directories passed, or the names in them,
`ChoiceOK` that the entry chosen is the newest of all, and `TreeOK` the same of the list
`inf24-1.cpp` has made at the start, until something changes.  `AnswersAreMerged` compares
the answer with the definition of the merged directory.

The five programs of `MCProcesses` (`ProcessesProofs`) are run side by side, too.
`ProgramsPrintWhatTheyShould`, the invariant `OutputIsRight` of the run, is the conjunction of
what the following paragraphs say.

**ParallelMap** (any numbers of processors and cells, both builds).
`SharesPartitionTheArray` is the arithmetic of `inf20-1.c:43-50`: each cell is in exactly
one share.  As long as nobody is misled, only the caller forks (`Family`), it has taken
no more posts than children have sent, unless pids reach into the semaphore (`Tokens`), and a
cell is computed exactly when a child
whose share it is in has done its work (`Cells`).  When the caller returns it has taken
`proc_cnt` posts, so there are, when pids and semaphore are apart, as many children, each with a
different share, and all have done theirs: `MapReturnsTheWholeArray`.  `MaxProcs`, the bound on how many processes
there are, is only assumed to be greater than the number of processors.

**PingPong** (any start).  One number is on its way, or the stop that follows the last one
(`OneNumber`, `OnItsWay`): it is the last one printed, with the thread whose turn it is; so the
numbers alternate, and the game goes on only from one that is not the last.

**ThreadInput** (any inputs shorter than the bound on threads, any number of threads).  Of
`inf18-1.c`: what has been added up, plus the sums of the threads not joined, plus the
numbers read and not yet added, plus what is left of the input, is the sum of the input
(`NothingIsLost`); in the end only the first of the four is left.  Of `inf18-0.c`: the
threads hold the input in its order (`Taken`, `Left`), and those that have ended have printed
theirs, from the last one back (`EndedHavePrinted`, `Backwards`).

**ForkChains** (any lengths of the chain, any limit of the processes).  Nobody who has a child
holds anything that is not flushed (`Flushed`), and the output is the numbers up to the length
of the chain (`Numbers`).

**SharedReader** (any writers, readers and numbers).  A cell holds its own number or nothing,
and nothing, after its writer has been there, only if a run asked for fewer, a reader
that has found no semaphore included (`WhatIsThere`); a reader gets past its semaphore only when a writer has ended
(`PostsComeLast`), and a writer ends after its last number.

The library's induction theorems take an operator as a parameter and cannot be
instantiated.  `LeastElement`, that a set of numbers has a least element, is proved from
the well-foundedness of the subset ordering of finite sets instead, and `Induction` follows from
it, for the set of the numbers a claim holds for.  With it the lemmas of
`ProcessesProofs` show what the folds of the community modules that add up a sequence or a
function compute (`SumOfChanged`, `SumHeadTail`, `SumTakesAny`), for every input.  In
`PipelinesProofs` the same lemmas give the induction over the processes in `NothingLeft` and the
lowest free descriptor of `pipe`.

Only model-checked:

* liveness: `Ends` and its like, `EitherPrintedOrStuck`, `LimitKept`, `StopIsHeard`,
  `EveryoneIsAnswered`, `ProgramsEnd`, `TotalIsPrinted`, `EndsWithoutCause`, `EveryoneIsServed`,
  `NobodyIsForgotten`;
* what the room of `ChatServer` hears, a part of `NobodyIsForgotten`: the messages due to a
  member are a `SelectSeq` of what was said, and the library has no fact about what a
  `SelectSeq` of a longer sequence is; and the exact count of `ByteCounter`, a part of
  `EveryByteCounts`.  Both properties are in the end about liveness;
* `ResultsAreRight`, the computations of `NumberExercises`, `FileExercises` and `ClientExercises`: one
  definition after the other with nothing that interleaves, each compared with what it is meant to compute
  on all small inputs.  Several of them are folds over folds; sums apart, none of these is proved
  for every input.

Every inductive invariant was checked with TLC before it was proved.

## 5. Plan

The plan was: the programs with threads; those with processes and shared memory; the
pipelines, the servers, the union file system; the programs of signals, the earlier
ring, the edge-triggered servers, the small programs of processes and threads, the
sequential exercises; and the proofs of the modules whose invariants hold for every
value of the constants.  All of it is there, and the three refinements are proved step by step.  What would come
next: the invariants inside the liveness properties of `ChatServer` and `ByteCounter`, with
what the room hears and what is counted stated element by element, and the exercises whose
folds are sums.

### Not modelled

* *The other clients* (`client.c`, and the requests of `inf23-*.c`): one formatted text
  is sent; nothing interleaves and there is nothing to compare it with.
* *Hashing and encryption* (`inf25-*.c`): only what the library is given; the computation
  is the library's.
* *Code generation* (`inf12-*.c`): a program text is written, compiled and run; what it
  does is a matter of the other language.
* *Dynamic loading* (`inf21-0.c`, `inf21-2.cpp`): `dlopen` and one call.
* *Archive file system* (`inf24-0.c`): only `read_callback`; nothing in the program fills in
  the table of files it reads.
* *Earlier union file system* (`fuse_c_example/build/main.cpp`): does not compile; its one
  difference in the lookup is a mutant of `UnionFS`.
* *Early C exercises and assembly exercises*: a few lines of formatting or arithmetic
  each, with no state of their own.
* *The vendored cross compiler* `gcc-linaro-…`: nearly all the lines of the repository, and
  none of its code.
