------------------------------ MODULE MDriver ------------------------------
(***************************************************************************)
(* The driver of the malloc lab (mdriver.c): it reads traces, runs them on *)
(* libc's allocator and on the student's, judges and times that allocator, *)
(* and computes the index.  The allocator is any: it answers what it likes *)
(* (NULL, an address that is not aligned or in another block, data lost in *)
(* realloc), so that what is checked is the driver's judgement.            *)
(*                                                                         *)
(* Addresses are offsets from the first byte of the heap.  Which addresses *)
(* are given to a trace while its speed is measured makes no difference to *)
(* the driver and is left out, as are printing and the libc statistics,    *)
(* which are only printed.                                                 *)
(***************************************************************************)
EXTENDS Timing, FiniteSets, FiniteSetsExt, Functions

CONSTANTS Argvs,               \* the command lines
          Files,               \* a directory and a name, to the trace there
          default_tracefiles, TRACEDIR,
          ALIGNMENT, MAX_HEAP, AVG_LIBC_THRUPUT, UTIL_WEIGHT,
          Addresses,           \* that the allocator may answer
          Filled               \* may the student fields be filled in, or not

ASSUME DriverAssumption == /\ ALIGNMENT \in Nat \ {0} /\ MAX_HEAP \in Nat
                           /\ UTIL_WEIGHT \in 1 .. 100 /\ AVG_LIBC_THRUPUT \in Nat
                           /\ Addresses \subseteq Int
                           /\ default_tracefiles \in Seq(STRING) \ {<<>>}

\* Before request k the id is allocated
Allocated(requests, k, id) ==
  \E j \in 1 .. k - 1 :
    /\ requests[j].type # "f" /\ requests[j].index = id
    /\ \A l \in j + 1 .. k - 1 : ~(requests[l].type = "f" /\ requests[l].index = id)

\* The traces are consistent, as checktrace.pl leaves them (traces/README):
\* an id is allocated again only when it is free, and reallocated or freed
\* only when it is allocated; no size is 0
ASSUME TracesAssumption ==
  \A file \in DOMAIN Files : LET requests == Files[file].ops IN
    /\ requests \in Seq([type : STRING, index : Nat, size : Nat]) \ {<<>>}
    /\ \A k \in DOMAIN requests : LET r == requests[k] IN
         /\ r.type # "f" => r.size > 0
         /\ Allocated(requests, k, r.index) <=> r.type \in {"r", "f"}

VARIABLES phase, status,       \* where main is, and what it exits with
          tracefiles, tracedir, run_libc,
          trace, i, op,        \* the trace, its number and the next request
          blocks, block_sizes, \* of the trace
          ranges,              \* what the driver knows to be allocated
          mem, brk,            \* of the simulated heap
          total_size, max_total_size, errors, mm_stats, perfindex,
          live, faults,        \* what is really allocated; what has been wrong
          sound                \* no place was, while utilizations were measured (history)

options == <<tracefiles, tracedir, run_libc>>
heap == <<blocks, block_sizes, ranges, mem, brk, live>>
measures == <<total_size, max_total_size, sound>>
vars == <<timing, phase, status, options, trace, i, op, heap, measures, errors,
          mm_stats, perfindex, faults>>

Junk == -1000     \* what no memset has written
no_trace == [num_ids |-> 0, num_ops |-> 0, ops |-> <<>>]
empty == [n \in {} |-> 0]

Init == /\ TimingInit
        /\ phase = "start" /\ status = "none"
        /\ tracefiles = <<>> /\ tracedir = TRACEDIR /\ run_libc = FALSE
        /\ trace = no_trace /\ i = 1 /\ op = 1
        /\ blocks = empty /\ block_sizes = empty /\ ranges = <<>>
        /\ mem = empty /\ brk = 0 /\ total_size = 0 /\ max_total_size = 0
        /\ errors = 0 /\ mm_stats = <<>> /\ perfindex = 0
        /\ live = {} /\ faults = {} /\ sound = TRUE

exit(s) == /\ phase' = "exited" /\ status' = s
           /\ UNCHANGED <<timing, options, trace, i, op, heap, measures, errors,
                          mm_stats, perfindex, faults>>

-----------------------------------------------------------------------------
\* getopt: the last -f and -t count, and -f decides the directory before or
\* after -t
Chosen(argv) ==
  LET given(o) == {n \in DOMAIN argv : argv[n][1] = o}
      last(o) == argv[CHOOSE n \in given(o) : \A m \in given(o) : m <= n][2]
  IN  [files |-> IF given("f") = {} THEN <<>> ELSE <<last("f")>>,
       dir |-> IF given("f") # {} THEN "./" ELSE IF given("t") # {} THEN last("t") ELSE TRACEDIR,
       check |-> given("a") = {}, libc |-> given("l") # {}]

\* -h, and what getopt does not know, end the loop there
main ==
  /\ phase = "start"
  /\ \E argv \in Argvs, filled \in Filled : LET o == Chosen(argv) IN
       \/ /\ \E arg \in ToSet(argv) : arg[1] \in {"h", "?"}
          /\ \E s \in {0, 1} : /\ (s = 0) = (\E n \in DOMAIN argv : /\ argv[n][1] = "h"
                                             /\ \A m \in 1 .. n - 1 : argv[m][1] # "?")
                               /\ exit(s)
       \/ /\ \A arg \in ToSet(argv) : arg[1] \notin {"h", "?"}
          /\ IF o.check /\ ~filled THEN exit(1)
             ELSE /\ tracefiles' = IF o.files = <<>> THEN default_tracefiles ELSE o.files
                  /\ tracedir' = o.dir /\ run_libc' = o.libc
                  /\ phase' = IF o.libc THEN "libc_read" ELSE "mm_read"
                  /\ UNCHANGED <<timing, status, trace, i, op, heap, measures, errors,
                                 mm_stats, perfindex, faults>>

-----------------------------------------------------------------------------
\* read_trace, at the top of both loops; a failed assertion aborts
max_index(t) ==
  FoldLeft(LAMBDA most, r : IF r.type # "f" /\ r.index > most THEN r.index ELSE most, 0, t.ops)

Consistent(t) == max_index(t) = t.num_ids - 1 /\ t.num_ops = Len(t.ops)

read_trace(reading, evaluating) ==
  /\ phase = reading /\ i <= Len(tracefiles)
  /\ IF <<tracedir, tracefiles[i]>> \notin DOMAIN Files THEN exit(1)
     ELSE IF \E r \in ToSet(Files[<<tracedir, tracefiles[i]>>].ops) : r.type \notin {"a", "r", "f"}
     THEN exit(1)
     ELSE IF ~Consistent(Files[<<tracedir, tracefiles[i]>>]) THEN exit("abort")
     ELSE /\ trace' = Files[<<tracedir, tracefiles[i]>>]
          /\ phase' = evaluating
          /\ UNCHANGED <<timing, status, options, i, op, heap, measures, errors,
                         mm_stats, perfindex, faults>>

\* free_trace, and the next one; what the pass leaves is used by nothing
NextTrace(reading) ==
  /\ phase' = reading /\ i' = i + 1 /\ trace' = no_trace /\ op' = 1
  /\ faults' = {} /\ blocks' = empty /\ block_sizes' = empty /\ live' = {}
  /\ UNCHANGED <<status, options, ranges, mem, brk, measures, errors, perfindex>>

-----------------------------------------------------------------------------
\* libc: a request that fails ends the driver, in both passes
eval_libc_valid ==
  /\ phase = "libc_valid"
  /\ \/ exit(1)
     \/ /\ phase' = "libc_timed" /\ fsecs
        /\ UNCHANGED <<status, options, trace, i, op, heap, measures, errors, mm_stats,
                       perfindex, faults>>

mem_init == /\ phase = "libc_read" /\ i > Len(tracefiles)
            /\ phase' = "mm_read" /\ i' = 1
            /\ UNCHANGED <<timing, status, options, trace, op, heap, measures, errors,
                           mm_stats, perfindex, faults>>

\* fsecs runs the function (eval_libc_speed, eval_mm_speed) until it is done
Start(between, running) ==
  /\ phase = between /\ BeginRun /\ phase' = running
  /\ UNCHANGED <<status, options, trace, i, op, heap, measures, errors, mm_stats,
                 perfindex, faults>>

\* A run serves the whole trace, or ends the driver at a request that fails
Run(between, running) ==
  /\ phase = running
  /\ \/ exit(1)
     \/ /\ EndRun /\ phase' = between
        /\ UNCHANGED <<status, options, trace, i, op, heap, measures, errors, mm_stats,
                       perfindex, faults>>

libc_secs == phase = "libc_timed" /\ Done /\ NextTrace("libc_read") /\ UNCHANGED mm_stats

mm_secs == /\ phase = "mm_timed" /\ Done /\ NextTrace("mm_read")
           /\ mm_stats' = [mm_stats EXCEPT ![i].secs = result]

-----------------------------------------------------------------------------
\* The range list
range_t(lo, size) == [lo |-> lo, hi |-> lo + size - 1]

IS_ALIGNED(p) == p % ALIGNMENT = 0
InHeap(p) == p >= 0 /\ p <= brk' - 1

\* Mutant: only where the payload begins is looked at
Overlaps_Low(r, p) == r.lo >= p.lo /\ r.lo <= p.hi
Overlaps(r, p) == \/ r.lo >= p.lo /\ r.lo <= p.hi
                  \/ r.hi >= p.lo /\ r.hi <= p.hi

Addable(list, r) == /\ IS_ALIGNED(r.lo) /\ InHeap(r.lo) /\ InHeap(r.hi)
                    /\ \A p \in ToSet(list) : ~Overlaps(r, p)

\* Mutant: the record is left where it is
remove_range_Kept(list, lo) == list
remove_range(list, lo) ==
  IF \E n \in DOMAIN list : list[n].lo = lo
  THEN RemoveAt(list, CHOOSE n \in DOMAIN list :
                        list[n].lo = lo /\ \A m \in 1 .. n - 1 : list[m].lo # lo)
  ELSE list

\* What is wrong with an answer, of bytes that are really allocated or not
Bytes(lo, size) == lo .. lo + size - 1
Wrong(p, size, others) ==
  LET taken == {Bytes(blocks[id], block_sizes[id]) : id \in others}
      ends == {p, p + size - 1}
  IN  {f \in {"unaligned", "outside", "overlap", "encloses"} :
         CASE f = "unaligned" -> p % ALIGNMENT # 0
           [] f = "outside" -> ~(Bytes(p, size) \subseteq 0 .. brk' - 1)
           [] f = "overlap" -> \E t \in taken : ends \cap t # {}
           [] OTHER -> \E t \in taken : /\ ends \cap t = {}
                                        /\ Bytes(p, size) \cap t # {}}

-----------------------------------------------------------------------------
\* A verdict on the trace, and on to its utilization or to the next trace.
malloc_error(n) == n + 1

Judged(valid) ==
  /\ mm_stats' = Append(mm_stats, [ops |-> trace.num_ops, valid |-> valid,
                                   hwm |-> 0, heapsize |-> 0, secs |-> 0])
  /\ phase' = "judged"
  /\ UNCHANGED <<timing, status, options, trace, i, op, measures, perfindex>>

Invalid == /\ errors' = malloc_error(errors) /\ Judged(FALSE)

\* The heap is empty again, up to what mm_init asks for
mem_reset_brk(b) == brk' = b
mem_heapsize == brk

\* All range records are freed
clear_ranges == ranges' = <<>>

\* mem_reset_brk, clear_ranges and mm_init, which may fail
eval_mm_valid ==
  /\ phase = "mm_valid"
  /\ clear_ranges /\ blocks' = empty /\ block_sizes' = empty /\ live' = {}
  /\ mem' = [a \in 0 .. MAX_HEAP - 1 |-> Junk]
  /\ \/ mem_reset_brk(0) /\ faults' = {"null"} /\ Invalid
     \/ \E b \in {0, ALIGNMENT} :
          /\ mem_reset_brk(b) /\ phase' = "mm_valid_op" /\ faults' = {}
          /\ UNCHANGED <<timing, status, options, trace, i, op, measures, errors,
                         mm_stats, perfindex>>

request == trace.ops[op]

\* A char is signed on the machines of the lab
Char(b) == IF b >= 128 THEN b - 256 ELSE b
memset(m, p, size, index) ==
  [a \in DOMAIN m |-> IF a \in Bytes(p, size) THEN Char(index % 256) ELSE m[a]]

\* The allocator answers, perhaps after mem_sbrk
Grows == \E b \in {n \in brk .. MAX_HEAP : (n - brk) % ALIGNMENT = 0} : brk' = b

\* trace->blocks[index] = v, and the same for block_sizes
Stored(array, index, v) ==
  [n \in DOMAIN array \cup {index} |-> IF n = index THEN v ELSE array[n]]

Remember(p, list) ==
  /\ blocks' = Stored(blocks, request.index, p)
  /\ block_sizes' = Stored(block_sizes, request.index, request.size)
  /\ live' = live \cup {request.index}
  /\ ranges' = <<range_t(p, request.size)>> \o list
  /\ op' = op + 1
  /\ UNCHANGED <<timing, phase, status, options, trace, i, measures, errors, mm_stats, perfindex>>

Refused == Invalid /\ UNCHANGED <<blocks, block_sizes, ranges, mem, live>>

\* ALLOC
mm_malloc_answers ==
  /\ phase = "mm_valid_op" /\ op <= trace.num_ops /\ request.type = "a"
  /\ Grows
  /\ \/ faults' = faults \cup {"null"} /\ Refused
     \/ \E p \in Addresses :
          /\ faults' = faults \cup Wrong(p, request.size, live)
          /\ IF Addable(ranges, range_t(p, request.size))
             THEN mem' = memset(mem, p, request.size, request.index) /\ Remember(p, ranges)
             ELSE Refused

\* REALLOC: the new block holds what the old one held, or something else.
Compared(index, size) == IF size < block_sizes[index] THEN size ELSE block_sizes[index]

Moved(p, size, old, oldsize, kept) ==
  [j \in 0 .. size - 1 |->
     IF kept /\ j < oldsize /\ old + j \in DOMAIN mem THEN mem[old + j]
     ELSE Junk]

mm_realloc_answers ==
  /\ phase = "mm_valid_op" /\ op <= trace.num_ops /\ request.type = "r"
  /\ Grows
  /\ \/ faults' = faults \cup {"null"} /\ Refused
     \/ \E p \in Addresses, kept \in BOOLEAN :
          LET index == request.index
              size == request.size
              data == Moved(p, size, blocks[index], block_sizes[index], kept)
              list == remove_range(ranges, blocks[index])
          IN  /\ faults' = faults \cup Wrong(p, size, live \ {index})
                                  \cup (IF kept THEN {} ELSE {"lost"})
              /\ IF /\ Addable(list, range_t(p, size))
                    /\ \A j \in 0 .. Compared(index, size) - 1 : data[j] = index % 256
                 THEN mem' = memset(mem, p, size, index) /\ Remember(p, list)
                 ELSE Refused

\* FREE
mm_free_returns ==
  /\ phase = "mm_valid_op" /\ op <= trace.num_ops /\ request.type = "f"
  /\ ranges' = remove_range(ranges, blocks[request.index])
  /\ live' = live \ {request.index} /\ op' = op + 1
  /\ UNCHANGED <<timing, phase, status, options, trace, i, blocks, block_sizes, mem, brk,
                 measures, errors, mm_stats, perfindex, faults>>

Served == /\ phase = "mm_valid_op" /\ op > trace.num_ops
          /\ Judged(TRUE) /\ UNCHANGED <<heap, errors, faults>>

NotValid == /\ phase = "judged" /\ ~mm_stats[i].valid
            /\ NextTrace("mm_read") /\ UNCHANGED <<timing, mm_stats>>

-----------------------------------------------------------------------------
\* mem_reset_brk and mm_init
eval_mm_util ==
  /\ phase = "judged" /\ mm_stats[i].valid
  /\ \/ exit(1)
     \/ \E b \in {0, ALIGNMENT} :
          /\ mem_reset_brk(b) /\ phase' = "mm_util" /\ op' = 1
          /\ total_size' = 0 /\ max_total_size' = 0
          /\ blocks' = empty /\ block_sizes' = empty /\ mem' = empty /\ live' = {}
          /\ faults' = {}
          /\ UNCHANGED <<timing, status, options, trace, i, ranges, errors, mm_stats, perfindex, sound>>

\* Mutant: the old size is not taken off
Added_Whole(r) == r.size
Added(r) == CASE r.type = "a" -> r.size
              [] r.type = "r" -> r.size - block_sizes[r.index]
              [] OTHER -> 0 - block_sizes[r.index]

\* One request: nothing of an answer is looked at but whether it is NULL
Utilize ==
  /\ phase = "mm_util" /\ op <= trace.num_ops
  /\ \/ request.type # "f" /\ exit(1)
     \/ /\ op' = op + 1
        /\ total_size' = total_size + Added(request)
        /\ IF request.type = "f"
           THEN /\ live' = live \ {request.index}
                /\ UNCHANGED <<blocks, block_sizes, max_total_size, brk, sound>>
           ELSE /\ live' = live \cup {request.index}
                /\ block_sizes' = Stored(block_sizes, request.index, request.size)
                /\ max_total_size' = IF total_size' > max_total_size THEN total_size'
                                     ELSE max_total_size
                /\ Grows
                /\ \E p \in Addresses :
                     /\ blocks' = Stored(blocks, request.index, p)
                     /\ sound' = (sound /\ Wrong(p, request.size, live \ {request.index}) = {})
        /\ UNCHANGED <<timing, phase, status, options, trace, i, ranges, mem, errors,
                       mm_stats, perfindex, faults>>

\* The ratio is kept as its two numbers
Utilized ==
  /\ phase = "mm_util" /\ op > trace.num_ops
  /\ mm_stats' = [mm_stats EXCEPT ![i].hwm = max_total_size, ![i].heapsize = mem_heapsize]
  /\ total_size' = 0 /\ max_total_size' = 0 /\ blocks' = empty /\ block_sizes' = empty
  /\ live' = {} /\ mem_reset_brk(0)
  /\ phase' = "mm_timed" /\ fsecs
  /\ UNCHANGED <<status, options, trace, i, op, ranges, mem, errors, perfindex, faults, sound>>

-----------------------------------------------------------------------------
\* The totals and the index, in hundredths
numcorrect == Cardinality({n \in DOMAIN mm_stats : mm_stats[n].valid})

ops == SumFunction([n \in DOMAIN mm_stats |-> mm_stats[n].ops])
secs == SumFunction([n \in DOMAIN mm_stats |-> mm_stats[n].secs])
util == SumFunction([n \in DOMAIN mm_stats |->
                       (100 * mm_stats[n].hwm) \div mm_stats[n].heapsize])

\* A quotient by the 0 bytes of a heap that never grew makes the index infinite
inf == -1
Unbounded == \E n \in DOMAIN mm_stats : mm_stats[n].heapsize = 0

p1 == (UTIL_WEIGHT * (util \div Len(tracefiles))) \div 100
p2 == IF ops > AVG_LIBC_THRUPUT * secs THEN 100 - UTIL_WEIGHT
      ELSE ((100 - UTIL_WEIGHT) * ops) \div (AVG_LIBC_THRUPUT * secs)

\* Mutant: the index is computed whatever has happened
Clean_Any == TRUE
Clean == errors = 0

Score ==
  /\ phase = "mm_read" /\ i > Len(tracefiles)
  /\ perfindex' = IF ~Clean THEN 0 ELSE IF Unbounded THEN inf ELSE p1 + p2
  /\ phase' = "exited" /\ status' = 0
  /\ UNCHANGED <<timing, options, trace, i, op, heap, measures, errors, mm_stats, faults>>

Next ==
  \/ main \/ read_trace("libc_read", "libc_valid") \/ eval_libc_valid
  \/ Start("libc_timed", "libc_speed") \/ Run("libc_timed", "libc_speed") \/ libc_secs
  \/ mem_init \/ read_trace("mm_read", "mm_valid")
  \/ eval_mm_valid \/ mm_malloc_answers \/ mm_realloc_answers \/ mm_free_returns
  \/ Served \/ NotValid
  \/ eval_mm_util \/ Utilize \/ Utilized
  \/ Start("mm_timed", "mm_speed") \/ Run("mm_timed", "mm_speed") \/ mm_secs
  \/ Score

Spec == Init /\ [][Next]_vars

-----------------------------------------------------------------------------
\* The driver calls an allocator invalid only when it answered wrongly, and
\* valid only when nothing was wrong.  Two judgements of the code are excepted:
\* a payload around another one passes (mdriver.c:402-405 looks at the two ends
\* only), and a realloc that keeps the data of an id whose low byte is 128 or
\* more is refused (mdriver.c:651 compares a signed char with 0 to 255).
VerdictSound ==
  phase = "judged" =>
    IF mm_stats[i].valid THEN faults \subseteq {"encloses"}
    ELSE \/ faults # {}
         \/ request.type = "r" /\ request.index % 256 >= 128

\* While a trace is judged, the range list holds the payload of each block that
\* is allocated, once, and nothing else: it follows malloc, realloc and free
\* (mdriver.c:376-443, 596-668).
RangesAreLive ==
  phase = "mm_valid_op" =>
    /\ ToSet(ranges) = {range_t(blocks[id], block_sizes[id]) : id \in live}
    /\ Len(ranges) = Cardinality(live)

\* The index is earned.  While a trace is measured, total_size is the sum of the
\* blocks that are allocated, and the high water mark is not below it
\* (mdriver.c:708-771); each trace that is not valid is one error; and an index
\* is given only if every trace was valid (mdriver.c:318-351).  Utilizations are
\* at most 1, and the index is from 1 to 100, if all blocks were aligned, in the
\* heap and apart while they were measured: eval_mm_util does not look, and what
\* add_range lets pass (mdriver.c:404) can earn more than 100 of 100.
IndexIsEarned ==
  /\ phase = "mm_util" => /\ total_size = SumFunction(Restrict(block_sizes, live))
                          /\ total_size <= max_total_size
                          /\ sound => max_total_size <= brk
  /\ sound => \A n \in DOMAIN mm_stats : mm_stats[n].hwm <= mm_stats[n].heapsize
  /\ errors = Cardinality({n \in DOMAIN mm_stats : ~mm_stats[n].valid})
  /\ perfindex # 0 => /\ numcorrect = Len(tracefiles)
                      /\ sound => perfindex \in 1 .. 100

=============================================================================
