# Verification of the CS211 labs

TLA+ models of the programs in this repository, TLC configurations that check
them on small instances, and proofs that TLAPS checks for every instance. All
line numbers are of the files under `src/`.

1. [The system](#1-the-system)
2. [Modules](#2-modules)
3. [Runs](#3-runs)
4. [Proofs](#4-proofs)
5. [What the code gets wrong](#5-what-the-code-gets-wrong)
6. [What is assumed and what is left out](#6-what-is-assumed-and-what-is-left-out)
7. [Plan](#7-plan)

To repeat the work, run in this directory `tlc -config X.cfg M` for the pairs of
section 3 and `tlapm M.tla` for the modules of section 4.

## 1. The system

The repository is a set of separate C programs. They share no state with each
other; the interactions are inside each program.

| component | state | operations | what is hard | what makes it correct |
|---|---|---|---|---|
| **shell, job list** `shlab/tsh.c:668-789` | `jobs[MAXJOBS]`, `nextjid` | `addjob`, `deletejob`, `maxjid`, lookups by pid, jid and state | slots and job IDs are used again; a full list | a slot is free or complete; no child twice |
| **shell, read/eval loop and signal handlers** `shlab/tsh.c:113-665, 791-883` | the job list, main's local copies of a job pointer and pids, the signal mask; in the kernel: pending signals, children and process groups | `eval`, `quit`, `jobs`, `fg`, `bg`, `waitfg`; handlers of SIGCHLD, SIGINT, SIGTSTP, SIGQUIT | handlers interrupt main and each other between any two steps; one SIGCHLD for several children; a child may end before its job is added; it joins its process group late; pointers and pids are used after signals are unmasked | at most one FG job, and only while main waits; a job is in the list from its addjob until its child is waited for, once; states agree with the children; no zombie is left |
| **shell, main, parsing and messages** `tsh.c:82-165, 248-345, 520-665` | the line, the words in it; the strings of a message | `main`, `parseline`, `builtin_cmd`, the argument of `do_bgfg`, `print_terminate_msg`, `print_stop_msg`, `rio_writen` | quotes, spaces and `&` are taken apart in place; a write takes a part or is interrupted | a line is run as its words say; messages are whole and true |
| **shell test programs** `my*.c` | processes of a group | spin, split, stop, interrupt themselves | `mysplit` has a process that is not the shell's child | a job's processes stop, go on and end together |
| **proxy, connections** `proxylab/proxy.c` | a thread per connection, its descriptors and the object it holds | `handle_request`, `pass_response`, `read_requesthdrs`, `parse_url` | any number of threads; descriptors are limited; wrappers end the process; a pointer into the cache is used after the lookup | a client gets what it asked for; each request ends |
| **proxy, object cache** `proxylab/cache.c` | doubly linked list between two sentinels, reference bits, `total_size`, a mutex that only insertion takes | `find_object`, `add_object`, `evict_object`, `find_victim` | the list is walked while it changes; the test for room is not in the critical section; freed objects may still be in use | a walk ends at the head and meets each cached object; the counter is the sum of the sizes; the limit holds |
| **tiny web server** `proxylab/tiny/` | a connection, the buffer of `rio_t`, a mapped file, a CGI child | `main`, `doit` and what it calls, `adder`, `rio_readlineb`, `rio_writen`, `open_listenfd` | requests and answers are cut anywhere; clients leave; nothing ignores SIGPIPE | one answer to each request, and nothing left behind |
| **csapp wrappers** `csapp.c` (four copies) | | textbook library: wrappers that exit on an error | used by all threads | what tiny and the proxy need of them is modelled with these |
| **cache simulator** `cachelab/csim.c` | per set a doubly linked list of E lines; three counters | `parse_args`, `access_cache`, `simulate` | four pointers for each move; the victim is found by position, so every move must keep the order | hits, misses and evictions of an LRU cache |
| **matrix transpose** `cachelab/trans.c` | two arrays and eight variables | three blocked transposes and a simple one | A and B evict each other; values wait in variables while others are stored | `B = A^T`, with few misses |
| **cache lab tools** `test-trans.c`, `tracegen.c`, `cachelab.c` | the registered functions, the trace | run a function, simulate its trace, judge it | results of one function must not be taken for another's | only what was measured is reported |
| **malloc package** `malloclab/mm.c`, `memlib.c` | heap of chunks with boundary tags, five bins, the top chunk | `mm_malloc`, `mm_free`, `mm_realloc`, `mm_check`, `mem_sbrk` | long sequences of legal calls; splitting, merging and growing in place change neighbours; small requests | blocks are disjoint, inside the heap and keep their data; the free chunks are exactly those in the bins |
| **malloc driver** `malloclab/mdriver.c` | traces, the ranges handed out, sizes, the statistics | `read_trace`, `eval_mm_valid`, `eval_mm_util`, `eval_mm_speed`, the libc passes, the index | bookkeeping over a trace; byte and range comparisons | what is called invalid was wrong, and what is called valid was not; the index is that of what happened |
| **timing packages** `fsecs.c`, `fcyc.c`, `clock.c`, `ftimer.c` | two-word counters, the samples | `fsecs` with one of three clocks | the low word wraps; samples until they converge | what is measured has elapsed |
| **bit puzzles** `datalab/bits.c` | none | integer and floating point puzzles | overflow, sign, rounding | the value that its test function in `tests.c` gives |
| **data lab tools** `btest.c`, `decl.c`, `fshow.c` | options, test values, an alarm | generates values, tests a puzzle, scores | an alarm during a test; boundaries of ranges | points are earned |
| `driver.py`, `sdriver.pl`, `proxylab` scripts, `bomb`, `target`, the handout copy | | scripts, binaries, copies | | not modelled |

How the parts of the shell interact: main changes the job list in `eval`
(`addjob`, with every signal masked) and in `do_bgfg` (a state, through a pointer
kept over a region without a mask) and polls it in `waitfg`. The SIGCHLD handler
deletes jobs and marks them ST; the handlers of ^C and ^Z read the foreground
job and signal its group. All of them meet in the array `jobs`, and the kernel
is between them: what a handler does to a child comes back as a SIGCHLD.

How the parts of the proxy interact: each connection's thread looks its URL up
in the list, and after a miss inserts the response; that may evict objects that
other threads hold pointers to. Only `add_object`'s insertion takes the mutex.
The tiny server serves one connection at a time; its client, its child and the
kernel's queue of connections run beside it.

The malloc driver calls the malloc package and, through the timing packages,
itself; the packages share the simulated heap. `test-trans` runs `tracegen` as a
program, which calls the transpose functions and leaves a trace for the
simulator. `btest` calls the puzzles and the reference functions of `tests.c`.

## 2. Modules

| module | models | remarks |
|---|---|---|
| `JobTable` | the array of jobs and its routines | one operator per C function, of the function's name; used by `Tsh` and `Session` |
| `JobControl` | what the shell promises: the table of `tsh.c:31-39` | abstract: one status per job, at most one FG |
| `Tsh` | `eval`, the builtins, `waitfg`, `listjobs`, the handlers, the children up to and after `execve`, the terminal | all interleavings; no texts |
| `CmdLine`, `Message`, `Programs` | `parseline` and the argument of `fg` and `bg`; the handler's messages; the four test programs in their groups | parts of `Session` |
| `Session` | a script read, parsed and run, with keys and messages | composes the three with `JobTable`; the routines are atomic |
| `Cache` | the list, counter and mutex of `cache.c` | one operator per access to shared memory |
| `Proxy` | the threads of `proxy.c` over `Cache` | puts the accesses in the order of the code |
| `Rio` | `rio_readlineb` over `rio_read`, and the client that sends or leaves | |
| `Tiny` | `tiny.c`, `adder.c` and what they call of `csapp.c` | over `Rio` |
| `LRU` | what a least recently used cache promises, without lists | abstract: only the time of each block's last use |
| `CacheShape` | sizes, and how an address is taken apart | constants of the two next |
| `CSim` | `csim.c` with a list of lines in each set | implements `LRU` |
| `CSimList` | `csim.c` with the pointers, `parse_args` and main | implements `CSim` |
| `Trans` | the transpose functions: the accesses of each iteration | |
| `TestTrans` | `test-trans.c`, `tracegen.c`, `cachelab.c`; the reference simulator | over `Trans` |
| `Allocator` | what `add_range` and `remove_range` of `mdriver.c` ask of an allocator | abstract: the blocks that are held, no chunks |
| `MM` | `mm.c` over `memlib.c`, called by the traces of `mdriver.c` | implements `Allocator` |
| `Timing` | `fsecs.c`, `fcyc.c`, `clock.c`, `ftimer.c` | |
| `MDriver` | `mdriver.c`, with an allocator that may answer anything | over `Timing` |
| `Bits` | `bits.c`, `tests.c` and the reading of a float in `fshow.c` | a word is the set of its bits |
| `BTest` | `btest.c` with the table of `decl.c` | over `Bits` |
| `MCTsh`, `MCSession`, `MCProxy`, `MCTiny`, `MCCSimList`, `MCTestTrans`, `MCMM`, `MCMDriver`, `MCBTest` | | instances for TLC |
| `TshProofs`, `SessionProofs`, `ProxyProofs`, `TinyProofs`, `CSimListProofs`, `TestTransProofs`, `MDriverProofs`, `MMProofs` | | theorems, section 4 |

Operators whose comment begins with *Mutant* are variants of the definition
after them with a plausible mistake in it. They are used in no specification;
put in the place of the original each makes a property fail, which shows that
the property is about something.

### Tsh: state and actions

`jobs`, `nextjid` are the variables of the C program. `main` is main's program
counter with its local variables: `pid` (the child to add, to wait for, or read
from a job), `slot` (the `job` pointer of `do_bgfg`, the `i` of `listjobs`) and
`bg`. Only points where signals are *not* all masked are points of `main`: what
runs between `Sigfillset`/`Sigprocmask` and its end is one step.

| step | code |
|---|---|
| `Fork`, `AddJob`, `ForkFails` | `eval` 189-216, then 218-229 with `addjob`; Fork's error path |
| `WaitFg` | the test of the loop in `waitfg` |
| `DoBgfg`, `BgRead`, `BgKill`, `BgSet`, `BgDone` | `do_bgfg`: the lookup, the unmasked read of `job->pid`, `kill`, the state, the second read of the pid |
| `ListJobs` | `listjobs`, two reads for each slot |
| `Deliver` | the kernel starts a handler: not its own signal's again, and no SIGCHLD while `eval` blocks it |
| `ForwardLook`, `ForwardKill` | the ^C and ^Z handlers: `fgpid` under the mask, `kill` after it |
| `ChldWait`, `ChldDelete`, `ChldStop` | the loop of `sigchld_handler`, `deletejob_sync`, `setjobstop_sync` |
| `Setpgid`, `Execve`, `Exit`, `Killed`, `StoppedByOther`, `InheritedHandler` | a child: it is in the shell's process group, with the shell's handlers, until `setpgid`, and has the handlers until `execve` |
| `Key` | ^C or ^Z: the terminal signals the shell's process group |

`stack` holds the active handlers, the innermost last: only it runs. `pending`
is a set, as the kernel keeps one bit per signal, so one SIGCHLD can stand for
several children. `exit` is how the shell has ended; nothing happens afterwards,
which is why the runs do not check for deadlock.

### Proxy: state and actions

`prev`, `next`, `chance` are fields of the nodes, `url` stands for URL, data and
size of an object, `live` is the set of allocated objects. For each thread, `pc`
is where it is, `cur` the object of its walk (`object`, `victim`), `mine` the
object it inserts, `got` what its client was sent. A thread may be interrupted
between any two of these steps: a turn of the loop of `find_object`
(`FindObject`); the use of the result (`Hit`); connect (`Open`); the response
(`PassResponse`); the test for room and `malloc` (`Room`); the three groups of
link assignments (`Lock`, `Link`, `Unlock`); a turn of the loop of `find_victim`
(`FindVictim`); the two link assignments of `evict_object`, the second with the
`free` (`Unlink`, `Evict`). Addresses are used again after `free`, so a stale
pointer may well be valid and point to another object.

### Session: state and actions

`script` holds the lines still to be read; `jobs` and `nextjid` are as in `Tsh`;
`proc` has for each of the shell's children the program it runs and, for
`mysplit`, its child in the same group; `strings` is what the handler has still
to write and `out` what is on standard output. Read and parsed, a line becomes
one of `Nothing` (blank, `&`, `jobs`), `Quit`, `Run` (fork, exec and `addjob`),
`do_bgfg`; then `waitfg`. `Chld` is one turn of the handler's loop, with the job
deleted or marked and its message begun; `Write` and `WriteFails` are the calls of
`write` in `rio_writen`; `Key` is a ^C or ^Z and the handler that passes it on.
What main and the handlers do in between each other is in `Tsh`; here what they
do is one step, so that lines, groups and messages can be followed to their end.
`read`, `did` and `events` are histories for the properties.

### Tiny and Rio: state and actions

`request`, `sent` and `gone` are the client that is connected: what it means to
send, how much it has sent, whether it has left (closing or resetting the
connection). `taken`, `rio_buf`, `line` are the progress of `rio_readlineb`; a
"byte" is a word, CR or LF. `pc` is where the server is, `todo` what the present
calls of `rio_writen` have to write, `fds` and `mapped` what it has open. The
actions follow `main` and `doit`: `Socket`, `Bind`, `Listen` (`open_listenfd` with
its loop over addresses), `Accept`, `ReadStep` (a refill or a copied line),
`NoRequest`, `RequestLine`, `Headers`, `StatFile`, `Write`, `Open`, `MapFile`,
`UnmapFile`, `Fork`, `Wait`, `Close`; `Execve` and `Adder` are the child's. Any call
that can fail may fail, which exits the server; only a failing `accept` is not
modelled.

### CSim and CSimList: state and actions

In `CSim`, `cache[set]` is the list of the lines, first to last; `unlink_line` and
`prepend_line` are always called together and make the operator `ToFront`. In
`CSimList`, `cset[set]` has a `prev` and a `next` for each line and both
sentinels, and the two routines are the assignments of the code; the operator
`Listed` walks the links and gives `CSim` its `cache`. A line of the trace is one
access (`simulate`), an `M` a second one (`Modify`). `last` is a history variable,
the state of `LRU`.

### Trans and TestTrans: state and actions

`Body` is what an iteration of a function's loops reads and writes, in the order
of the code, with the variables that keep a value in between; `Advance` gives the
counters of the next one. `Iterate` performs one iteration and passes each access
to the simulator: `lines` is its direct mapped cache. B holds for each element the
number of the element of A that was stored there. The other actions are those of
`main` and `eval_perf`: `CheckArguments`, `StartFunction`, `EndFunction`, `Validated`
or `TracegenFails`, `Record`, `Report`, and `Timeout` for the alarm. With the
shapes that the repository recorded, the model has the misses of
`src/cachelab/.csim_results`, up to the accesses of the marker.

### Bits and BTest: state and actions

A word is the set of its bits that are 1, and each operator of C is one on such
sets, so that the puzzles are written as in `bits.c` and run on 32 bits. `BTest`
reads the options (`Option`), generates the values of the arguments
(`StartPuzzle`), calls the puzzle and its reference on one combination of them
(`RunTest`), and scores (`Score`); the alarm may go off in a test (`Timeout`) or,
as it is never taken back, later (`LateTimeout`). `output` has the ERROR lines, which
`-g` suppresses for wrong answers; `failed` is a history of the puzzles that failed.

### Timing and MDriver: state and actions

`Timing` has a clock `now`, and for each package what it keeps between the runs of
the function: `BeginRun` and `EndRun` read the clock before and after a run,
`Done` says that a result is there. In `MDriver`, `phase` is where main is:
options (`main`), traces (`read_trace`), libc's passes (`eval_libc_valid`, `Start`,
`Run`, `libc_secs`), the student's (`eval_mm_valid`, then per request
`mm_malloc_answers`, `mm_realloc_answers`, `mm_free_returns`; `eval_mm_util`,
`Utilize`; `mm_secs`) and the index (`Score`). The allocator answers NULL, any
address of a set, and with data lost or kept, while it is judged and while its
utilization is measured; it may take more of the heap or not. `faults` records what
was really wrong with an answer while it is judged, `sound` that no place was wrong
while it is measured (`eval_mm_util` does not look), and `live` what is really
allocated; what the driver does depends on none of them.

### MM: state and actions

`mem` is the memory, a function from the numbers of 4-byte words; the five bins
are words of it, as `append_chunk` and `unlink_chunk` treat the address of a bin
as a chunk. `top` and `brk` are the variables of `mm.c` and `memlib.c`. Headers,
links and users' data are the same words, so that a link written too late or a
header too early destroys data, and data left in a chunk can be read as a link.
One operator per C function takes a heap and returns the heap that the function
leaves. `blocks` is the driver's range list: what the user holds, and where.
`Malloc`, `Realloc` and `Free` are the three cases of `eval_mm_valid`: the call,
then the block is filled with its index (`Fill`), as the driver does; a call that
returns NULL leaves the user's blocks as they are. `preserved` is the outcome of
the driver's comparison of the data after the last `realloc`. `mm_check` with
`check_bin` and `check_chunk` is an operator that returns what it would print.

`SoundSpec` leaves out one kind of call, a `realloc` that grows into a free
chunk: after it nothing holds any more (section 5, `freed_in_heap_area`).

## 3. Runs

Runs that must pass:

| run | module, cfg | bounds | shows |
|---|---|---|---|
| `tsh_safety` | MCTsh, TshSafety.cfg | 2 slots, 2 children, 1 key | the safety properties, the refinement of `JobControl` |
| `tsh_liveness` | MCTsh, TshLiveness.cfg | 1 slot, 2 children, 1 key | no zombie is left, `waitfg` ends with its job |
| `session` | MCSession, Session.cfg | 2 processes, every line of up to 5 characters, every argument of up to 2, scripts with each test program, 2 keys, 1 interrupted write | lines are run as written, the processes of a job act together, messages are whole and true |
| `proxy` | MCProxy, Proxy.cfg | 2 threads, 3 objects, cache of 2 units, responses of 1, 2 and 3 units (the last too large to cache), 5 descriptors | the list, the counter, the answers and the end of requests, up to the first eviction |
| `tiny` | MCTiny, Tiny.cfg | 2 clients with any of 9 requests, whole or cut, lines of 6 words, reads of up to 4, 2 addresses | answers as asked, nothing left, every client served |
| `csim` | MCCSimList, CSim.cfg | a set of 3 lines for 4 tags and a second set, every trace of 6 accesses, 5 command lines | the pointers implement `CSim`, and it `LRU` |
| `test_trans` | MCTestTrans, TestTrans.cfg | 32x32, 64x64, 61x67, three that are no multiple of a block, two that are refused | every function transposes, the submission's misses, the report |
| `mm` | MCMM, MM.cfg | 3 blocks of 12, 20 and 32 bytes, a heap of 128 bytes, `TOP_ALIGNMENT` 64, `PREPARED_SIZE` 40, bins from 24, 40 and 56 bytes | traces of any length: chunks tile the heap, boundary tags and bins agree, `mm_check` finds nothing but chunks not merged, data is kept; implements `Allocator` |
| `mdriver` | MCMDriver, MDriver.cfg | 4 traces of up to 6 requests, a heap of 8 units, 6 addresses, counters of two words of 4 values, 3 clocks | judgements, bookkeeping, index and times |
| `btest` | MCBTest, BTest.cfg | every puzzle, the driver's values at the boundaries, 3 sequences of random words, 25 command lines | answers and points |

Why the bounds are enough. In the shell two slots let one job be looked up,
continued or forwarded to while another one changes; two children let one
SIGCHLD stand for two; one slot lets the list overflow; one key puts a handler
on top of the SIGCHLD handler or below it. A third child or slot adds no new pair
of actors, and the theorems of section 4 hold for any number. In a session, five
characters hold a quoted word with a space between two others or an `&` before,
in and after a quote; process IDs of one and two digits give messages of
different lengths. In the proxy, two threads make every pair of walking, inserting
and evicting; three objects fill a cache of two units with one being inserted by
each thread; the smallest response fits twice, so the cache is filled both exactly
and with an overshoot. In the tiny server, reads of four words end inside of lines
and take parts of two; a header fills the line buffer exactly; two clients let
one wait while the other is served, leaves or holds the server. In the simulator
three lines make a move from the front, the middle and the end, four tags evict,
and six accesses fill, hit, evict and reload. The shapes of the transposes are the
real ones. The sizes that `mm.c` hard-wires are constants of `MM`, small enough for
chunks of 16, 24 and 40 bytes to fall into different bins, for a chunk to be split
or be too small for it, and for the heap to be extended and then to be exhausted.
Requests of 12 and 20 bytes use the last word of their chunk, the `prev_size` of
the next one. Three blocks make every pair of free and used neighbours. `LiveView`
of `MCMM` identifies states that differ only in words that belong to no header,
link or user: they are written before they are read. The driver's traces have two
blocks that grow past each other, one that shrinks, and an id of 128, whose byte
is negative; its addresses are below, in, across and behind the heap. The words
of the bit puzzles are those of the machine; `TEST_RANGE` is 9 instead of 500000. The
arguments on the command lines are those that a float cannot hold exactly, and
floats on both sides of each boundary of the exponent.

Fairness. Safety runs need none. `tsh_liveness` uses `FairSpec` of `Tsh`: the
scheduler runs the shell's process, so each step of main that is not the user's
to take is weakly fair, active handlers run, the kernel delivers signals that
are not blocked, and a forked child reaches `execve`. A program need not end and
nobody need type. Both properties are about runs in which, again and again, no
^C or ^Z is on its way (`[]<>Quiet`): section 5 says why that is needed.
`proxy` uses `FairSpec` of `Proxy`: a thread that can go on does; servers and
clients answer or fail. No fairness is assumed of `accept`. `tiny` uses `FairSpec` of
`Tiny`: the server and its child are run, and a client that stays sends its
request; no client need connect or leave.

Deadlock is checked by none of the runs: a shell, a proxy or a server that has
exited takes no more steps, and the other programs end.

Runs that must fail are the findings of section 5: `total_is_sum`,
`freed_in_heap_area`.

## 4. Proofs

Checked by TLAPS for every value of the constants: any `MAXJOBS`, any set of
process IDs without 0, any bound on keys, any lines; any number of threads, objects and
sizes; any requests, files and buffer sizes; any addresses and any shape that
`is_valid_input` accepts; any consistent traces, weights and word sizes; any heap,
bounds of the bins, number of blocks and sizes of 8 bytes or more.

| module | theorem | says |
|---|---|---|
| `TshProofs` | `Invariance` | `IInv` is an invariant |
| | `TypeCorrect`, `OneForegroundJob`, `PromptHasNoFG`, `NoGhosts`, `StoppedJobs`, `ForwardedToForeground` | the properties of the runs that follow from it |
| | `EveryJobHasState`, `JobsEndWithChildren` | the state of a slot in use; a job ends only with its child |
| | `NoJobIsLost`, `FewProcessesAreNotLost` | every child between `addjob` and `waitpid` is listed, as long as the list has room; it always has with no more process IDs than slots |
| | `Refinement` | `Tsh` implements `JobControl` |
| `SessionProofs` | `GroupsActTogether`, `FewGroupsActTogether` | the processes of a job stop, go on and end together, under the same condition |
| | `RunAsWritten` | every line of every script is run as the words that are written in it |
| | `MessagesAreTrue`, `FewMessagesAreTrue` | standard output holds the handler's messages, whole, true and in order, under the same condition |
| `ProxyProofs` | `TypeCorrect`, `Exclusive` | types and what each thread's locals are where it is; one inserting thread at a time |
| | `NoFault`, `Served`, `Intact`, `Accounting` | until the cache is full: no null or freed pointer is followed, a client gets its URL, a walk meets every object, `total_size` is the sum and exceeds its limit by at most one object for each other thread |
| `TinyProofs` | `TypeCorrect`, `Reads`, `LeavesNothing`, `AnswersItsClients` | `rio_readlineb` gives the bytes once and in order; nothing is left between connections; a client that waits gets the whole answer |
| `CSimListProofs` | `PointersAreLists` | `CSimList` implements `CSim` |
| | `ListsTypeCorrect`, `ListsOrdered`, `AgainHits` | of `CSim`: types, the list of each set, the second access of an M |
| | `KeepsBlocksUsedLast`, `CacheImplemented` | `CSim` implements `LRU`, and so does `CSimList` |
| | `Ordered`, `ModifyAlwaysHits` | the properties of the runs, of the pointers |
| `TestTransProofs` | `EveryShapeTransposed` | each of the functions under test transposes, for every number of rows and columns |
| | `ReportIsMeasured` | what is reported for the submission was measured for it |
| `MDriverProofs` | `RangesFollowTheTrace`, `VerdictsAreSound` | the driver's bookkeeping, and its judgement of any allocator |
| | `TheIndexIsEarned` | `total_size` is the sum of the live blocks, errors are counted, an index is given only when there were none; it is at most 100 as long as no block was misplaced while it was measured |
| | `TimesAreElapsed` | what `fsecs` returns has elapsed, with each of the clocks |
| `MMProofs` | `HeapSound` | `IInv` is an invariant of `SoundSpec`: the heap is made of chunks, lists and the user's blocks |
| | `DataStays`, `HeapIsTiled`, `TagsAreTrue`, `BinsAreExact` | data is kept, chunks tile the heap, boundary tags are true, the bins are exact |
| | `ReallocKeepsData` | a block that `realloc` makes larger has the data of the old one |
| | `AllocatorImplemented` | `MM` implements `Allocator` |

The argument for the shell. None of the safety properties is inductive. `NoGhostJob`
(the job of a child that was waited for is there only while the handler is
about to delete it) needs that the child which `eval` is about to add has not
been waited for, which holds because SIGCHLD is blocked then (`AddJobIsMasked`),
because handlers are not entered twice (`FramesAgree`) and because no child is in the
list twice (`UniquePids`). `AtMostOneFG` needs that each FG slot is the one that
main is waiting for (`FGIsWaitedFor`), also when `do_bgfg` has marked a slot that
was cleared meanwhile: that is the one exception, written into the invariant.
`NeverForwardedToBG` and `StoppedJobIsStopped` need to know which job `do_bgfg`
is changing (`KillsItsJob`). Together these parts make `IInv`, which each step
preserves: `TshProofs` has one lemma for each action.

`NoLostJob` is about every moment except those at which `addjob` finds no slot.
The theorem therefore has the hypothesis `[]RoomToAdd`, which is about the list
alone: whenever `eval` is about to add a child, a slot is free. Its corollary
has none on behaviours: with at most `MAXJOBS` process IDs, distinct jobs having
distinct ones, a child that is not in the list leaves a slot free.

The refinement maps a child to the state of its slot, to "new" before its
addjob and to "done" after its deletion. The only step that changes two things
is `AddJob`; on a full list it maps to `Refuse`. `BgSet` on a cleared slot maps
to a stutter.

The argument for the groups of a session: for each process ID, the leader and
the child of its group are one of the pairs that the test programs can be in
(`Family`: at rest together, or one of them on its way to be reported), and the
slot of the job, if it has one, fits the leader (`Listed`). A step changes one
group (`OneGroup`), so that each action has to show these two for one process ID.

The argument for the lines. `parseline` looks for delimiters, the reference in
`Words` takes one character after the other. Between two arguments both are at
rest; a word that the former cuts out by two places is what the latter has
collected between them (`Inside`, `ScanWord`). From any place at which the scan is
at rest, the arguments from there on are the words still to come (`SameWordsFrom`,
from the end of the line backwards). What remains is that the two histories grow
together (`Parsed`).

The argument for the messages. `itoa_safe` writes a numeral without a leading zero,
`atoi` reads it back, and two such numerals with one value are the same
(`ItoaWrites`, `ItoaReads`): what `Decimal` chooses is what the handler writes.
`Started` says that each listed job has the job ID that `eval` gave to its process
and that no process ID was given out twice; `Written` that what was written and
what is left of the seven strings are together the messages (`FlattenHead`: the
text of strings is that of the first followed by that of the rest). A partial
write moves bytes from one to the other.

The argument for the proxy. A find that takes no mutex walks a list that another
thread is changing. `Sound` says that the nodes from the head to the tail are a
chain `s` of the cached objects, in which at most one node is not linked from
behind yet, that of the thread between `Link` and `Unlock`; that a thread's
own object is in no one's walk before it is linked (`OwnObjects`); and that each
walk stands on a cached object or the head (`WalksOK`). Links are assigned in an
order that keeps this true after each assignment. It ends with the first
eviction, which is why it is under `~ Evicting`; types and mutual exclusion
hold beyond. The limit needs a count of the threads that have seen room and not
added yet (`WithinLimit`: one of them is accounted for, each other one adds at most
`MAX_OBJECT_SIZE`).

The argument for tiny. `RioInv` says that what callers were given, followed by
what the buffer still holds, is what `read` has returned (`InOrder`), and that a
line being read has room and no newline. `Resources` gives the descriptors, the
mapping and the child at each label. `Answering` splits the answer into what was
written and what the calls in progress still have to write, and says which part
of the expected answer that is at each label (`Written`).

The argument for the simulator. A list is ordered when the valid lines come
first with different tags; moving to the front the only line that has the tag of
the access keeps it so (`ToFrontOrdered`), and both kinds of access move such a
line (`AccessTakesLine`). The second access of an M needs one part more, that
the first line of its set has its tag (`AgainFirst`). For `LRU`, the lines of a
set are in the order of their blocks' last uses and hold the E used last
(`UseKeepsRecent`). The pointers implement the lists because the nodes of each
set are always in some order in which each is the `prev` of the one it has as
`next` (`Chained`), sentinels at the ends: `unlink_line`, `prepend_line`, the search
and `init_cache` are shown to keep or use it, and the walk to find that order.

The argument for the malloc driver. Whatever the allocator answers, the blocks
that it has given are those that the trace has allocated before the present
request (`Following`), and the range list has the range of each of them once
(`Listed`): `remove_range` finds the range because no two blocks begin at one
address, which `add_range` has seen to. A verdict needs one part more, that as long
as nothing was wrong each block holds the byte that `memset` wrote, `Char` of its
index (`Sound`); then the data that `realloc` kept is refused only where `Char`
differs from the index. For the index, `total_size` is the sum over the live
blocks (`Measured`), the records and `errors` agree with the traces done (`Counted`,
`Recorded`), and sums of bounded terms are bounded (`TotalBounds`). That no more is
live than there is heap is not checked by the driver: it is so as long as every
place was right (`sound`), since the blocks are then apart and in the heap
(`Fitting`), and sets that are apart and within `0 .. brk - 1` have no more than
`brk` elements together (`FittingSum`). The times rest
on arithmetic: two readings of a counter of two words are subtracted with one
borrow, and the result is the difference modulo the square of the word
(`CounterElapsed`); and on `add_sample`, which keeps the K least samples in their
order, whichever samples they are (`add_sampleKeeps`).

The argument for the malloc package. The four invariants of `MM` are not inductive,
alone or together: what a call does to a neighbour depends on all of them. `IInv`
says that there is a set C of chunks and a list for each bin, such that (`Sound`)
the chunks are the heap, end to end (`Shape`), each tells of the one before it
(`Tagged`), each list is what its links say (`Lists`) and the free chunks but the top
are those in the lists, with room for two links (`FreeListed`); and that (`Placed`)
the chunks in use are the blocks, filled as the user filled them. One part is
there for `realloc` alone: a chunk is at most 16 bytes larger than its block asked
for, so that a `realloc` that makes a block larger where it is never splits it. C
and the lists are existential, so that a lemma about a routine can name the heap
it leaves; that the walks of the properties (`Chunks`, `Chain`) find them is shown
once (`ChunksAre`, `ChainIsList`), for whatever else is in memory.

While a routine works, some chunks are in no list and some tags are not true yet.
`Part` and `Tagged` therefore take the chunks to except, `limbo`: `unlink_chunk`
puts a chunk there and `append_chunk` takes it out (`UnlinksListed`, `InsertsAt`);
a split needs its chunk there and leaves it there (`SplitShape`), a merge both of
its own (`Merges`); the flags of a chunk may change only there (`Marked`). That data
is kept is stated of the words behind a header up to the `prev_size` of the next
chunk (`Kept`), and each of these lemmas says for which chunks it holds. `Allocates`,
`Frees` and `Reallocates` compose them in the order of `mm.c`; `MallocServed`,
`FreeServed` and `ReallocServed` add the driver and its `memset`.

The argument for the transpose. What is in B at the end says nothing of how it came
there, so the invariant (`Working`) says at each iteration which elements are done:
those that the loop counters have passed (`Done`), by rows, by columns as wide as
the last block allows (`Columns`), or by blocks, and in a block of `trans_64` in the
order in which its elements are stored (`Turn`). Of its first two
rows the right half is in variables until the last iteration stores it (`Kept`). An
iteration is then judged by three facts: its body is a list of loads, stores and
copies in which a store finds its element in the variable, and no load has taken
that (`SoundBody`, `Executes`, whatever the length), the elements that it makes are the ones it is there for (`BodyOf32` to `BodyOf64`), and
those of the next counters are the ones before and these (`AdvanceCovers`). The
report rests on `results` naming the submission's entry of `func_list`, which is
recorded only while that function is evaluated (`Registered`, `Recording`).

Assumptions: `MAXJOBS` is positive; 0 is no pid, and those of a session are
positive numbers (`SessionAssumption`); a script is a sequence of lines of at least
one character (`ScriptsAssumption`); `MaxKeys` and `MaxInterrupts` are naturals;
addresses are naturals and the shape is positive (`CacheShape`). `PowerAssumption`
says that powers of two are positive and that 2^(s + b) is the product, which the
provers cannot know. `RioAssumption` and `TinyAssumption`: requests are sequences
of words with a method and a URI, buffers have room for a line, files have
bodies. `TimingAssumption`: K and the word size are positive, and a run takes
less than a counter can count. `ShapesAssumption`: the numbers of rows and columns
are naturals; `main` takes negative ones too, but `validate` then declares an array
of a negative size, which C leaves undefined. `DriverAssumption`: alignment, weight
and heap are numbers as `config.h` has them, the weight from 1 to 100 hundredths. `TracesAssumption` says what a consistent trace is,
as `checktrace.pl` makes them: an id is reallocated or freed only while it is
allocated, and allocated only while it is not. For `MM`, `AlignmentAssumption` says that
the sizes of `mm.c` are multiples of 8, `RoomAssumption` that a prepared chunk has
room for its links and `mm_init` gets its top chunk, `IdsAssumption` that an index
is a byte other than 0, and `RequestsAssumption` that sizes are whole words from 8
bytes on. Nothing is assumed of the bounds of the bins, not even their order. TLC
evaluates all of them in the runs.

Where a proof needs an induction over data (a walk along links, a sum over a set,
a position in a list), it takes a least counterexample instead: naturals, and
subsets of a finite set, are well-founded (`LeastNumber`, `LeastSubset`). Recursive
functions are shown to exist that way, too.

Only model-checked: everything about liveness, which is fairness and ENABLED;
`FullScore` of `TestTrans`, and the properties of `BTest`. `FullScore` and
`PuzzlesCorrect` are computations with given numbers; `Bits` declares recursive
operators, and a module that reaches one cannot be proved about, so that
`PointsAreEarned` stays with TLC, too.

## 5. What the code gets wrong

Found by a run, with the comment that says otherwise:

- `total_is_sum`: `evict_object` does not decrease `total_size` (cache.c:96), so
  that once the cache is full `add_object` evicts everything, then the head
  sentinel, whose `prev` is null: the proxy ends with SIGSEGV. This is why the
  properties of `Proxy` are about the time until the cache is full.
- `freed_in_heap_area`: `realloc_chunk` adds a free neighbour to the block
  (mm.c:424-432) without taking it out of its bin. The user's data becomes the
  header and the links of a chunk that `mm_malloc` still finds: it is given out
  again, or the data is followed as a pointer. `mm_check` sees a freed chunk that
  is not in the heap area.

Seen in the models without a run of their own. The shell:

- `do_bgfg` marks the job through a pointer after the signals are unmasked (372).
  When the job ended in between, a cleared slot is marked FG, `waitfg` waits for
  process 0 and never returns; `WaitEndsWithJob` is about main's waiting for a child.
- Without a foreground job the handlers of ^C and ^Z call `kill(-0, sig)` (452,
  472), which signals the shell itself: the handler is entered again for ever.
  This is why the liveness properties assume quiet.
- A child that a full list has turned away runs all the same; when it stops,
  `setjobstop_sync` writes through a null pointer (609).
- `kill` in a ^C or ^Z handler fails, and the handler ends the shell with
  `_exit(1)`, when the foreground child has not called `setpgid` yet or has just
  been waited for (452, 472); `fg` and `bg` end it through `unix_error` (369).
- A background child that has not reached `setpgid` gets the terminal's ^C (214).
- `do_bgfg` sends SIGCONT before it sets the state: a stop that is reported in
  between is overwritten, and `waitfg` waits for a stopped job (368-372).
- `listjobs` can reach its "Internal error" (810).
- `addjob` wraps `nextjid` at `MAXJOBS` without looking for a free job ID (710),
  and `deletejob` moves it (735): two jobs can have the same ID, and `fg %jid`
  finds the first. Job IDs grow without bound while two jobs take turns.

The proxy and the tiny server:

- `evict_object` and the walks take no mutex: after the first eviction there are
  uses of freed objects and double frees (cache.c:82, 93).
- A hit, a rejected request and an early return leave descriptors open
  (proxy.c:71, 78, 88); `read_requesthdrs` spins when the client is gone (139);
  `hostfd` is read uninitialised when the URL does not parse (95, 98).
- Two threads that miss on one URL both insert it (cache.c:67).
- A client of the tiny server that leaves before its blank line holds the server
  for ever (tiny.c:105): `EveryClientIsServed` excepts it. An empty file ends it,
  as `mmap` of 0 bytes fails (tiny.c:162), and so does a client that resets.
- When `Execve` fails in the child, `exit` flushes what the server has logged to
  the client (tiny.c:209). `adder` follows a null pointer without an `&`.

The malloc lab:

- A `realloc` that shrinks a block to 4 bytes more than a multiple of 8 writes the
  `prev_size` of the remainder into the last word that the user keeps (mm.c:320):
  `preserved` is FALSE then, and `eval_mm_valid` would say that the data was not
  preserved. `ReallocKeeps` is about growing.
- The remainder of a shrinking `realloc` is not merged with a free chunk after it,
  against mm.c:584; and `split_and_append` takes the bin of the size that it cut
  off, not of the remainder's (368). Both only cost space.
- Requests of up to 4 bytes get a chunk of 8 bytes (68), whose links run over the
  header of the next one; `RequestsAssumption` leaves them out.
- `mm_check`'s "not merged" is reported after such a `realloc`, the only message
  of `mm_check` that is.
- `add_range` compares the two ends of a new payload with the old ones, so one
  that encloses an old one passes (mdriver.c:404); `eval_mm_valid` compares a
  signed char with a byte of 0 to 255 (651), so a `realloc` of an id whose low byte
  is 128 or more is refused whatever it kept. `VerdictSound` excepts both.
- `eval_mm_util` looks at nothing but NULL. An allocator that `add_range` has let
  pass, or that answers worse the second time, can have more bytes allocated than
  there is heap: a utilization above 1, and an index above the 100 of "/100"
  (mdriver.c:344). With a heap that never grew it is infinite (`Unbounded`, 773).
  `IndexIsEarned` gives its bounds for runs in which no block was misplaced (`sound`).

The data lab:

- `float_twice` makes a NaN of 0x7f7fffff, the largest float, and of every other
  one with the exponent 254 and a fraction (bits.c:426), where 2*f (404) is infinity.
  `btest` chooses no such value, but takes one from the command line (`-f float_twice
  -1 0x7f7fffff`) and then reports the error. `PuzzlesCorrect` excepts these numbers
  as arguments of the user's, and no other ones.
- `-g` is "with no error msgs" (btest.c:514), but the line of a time-out is printed
  with it, too (354).
- The array of test values is not checked for its size (186), and the alarm of a
  test may go off after it (103).

## 6. What is assumed and what is left out

- `Tsh`: each child is one process and its group has no other; a pid is not
  used again; only the shell sends SIGCONT; a program leaves the actions of SIGINT
  and SIGTSTP as they are; signals to a child before `execve` are acted on before
  its next system call. What to run, and where, is a choice.
- `Session`: routines and handlers are atomic but for writes and `waitfg`; keys are
  typed only while a job is in the foreground; lines fit into `MAXLINE` and end
  with a newline (`main` drops a last line without one, as `feof` is true then); the
  letters of a name are one character. What `printf` writes is left out.
- `Proxy`: an access to a freed object, and the read of the uninitialised
  `hostfd`, stop the model ("undefined", "wild read"), and what may follow in the
  program is not explored. `malloc` always finds an object; the instance has as
  many as can be in use. Between two threads memory is sequentially consistent;
  the code has data races on the links, for which C gives no such promise, and
  the result for walks is about the builds that keep the order of the
  assignments. Texts of requests and responses are not modelled.
- `Tiny`: the words of an answer stand for its lines; a client sends its request at
  once or a part of it and leaves. A read that is interrupted is made again.
- `CSim`, `CSimList`: shapes for which the shifts of `csim.c:118, 290` are defined,
  and a trace that can be opened. The size of an access is not used by the code,
  nor by the models. `malloc` succeeds. `-v` and the free routines, which nothing
  calls, are left out.
- `TestTrans`: the reference simulator is a binary; that it is direct mapped with
  32 lines of 32 bytes is what the options of the call say. `block_trans_simple`
  and `is_transpose` are not called and not modelled.
- `MM`: 32-bit words, as the Makefile's `-m32` makes them; requests are whole
  words of 8 bytes or more; `realloc` of NULL or to size 0 is a call of `mm_malloc`
  or `mm_free` and not modelled a second time. The driver's `eval_mm_valid` ends a
  trace at the first failing call or check; the model goes on, as the driver's
  other loops do.
- `MDriver`, `Timing`: printing, the statistics of libc, the conversion to seconds,
  clearing the cache between samples, and the counters of other machines.
- `Bits`: signed sums and shifts wrap, as the compiler of the lab makes them.
- Not modelled: the Perl, Python and shell scripts that run the programs (their
  traces and limits are in the instances and properties); `bomb` and `target`,
  which are binaries with a stub; the handout copy of the proxy and
  `khpark0312-*.c`, which are the same files once more; the parts of `csapp.c`
  that no program here calls; the mains of `fshow` and `ishow`.

## 7. Plan

In this order:

1. `BTest`: `PointsAreEarned`, once `Bits` does without recursive operators.
2. `MM`: that a `realloc` that grows into a free neighbour would keep `IInv` if it
   took that chunk out of its bin first, as `coalesce_chunk` does.
