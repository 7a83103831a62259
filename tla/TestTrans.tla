----------------------------- MODULE TestTrans -----------------------------
(***************************************************************************)
(* The evaluation of the transpose functions: test-trans.c, the tracegen   *)
(* program it runs under valgrind for each function (tracegen.c and        *)
(* cachelab.c) and the reference simulator, of which the repository holds  *)
(* only the binary.                                                        *)
(*                                                                         *)
(* An iteration of the function under test is a step.  B is symbolic: each *)
(* of its elements holds the number of the element of A that was stored    *)
(* there, so that a function that is right here transposes every matrix.   *)
(* The trace is not kept: the simulator takes each access as it is made.   *)
(***************************************************************************)
EXTENDS Trans, FiniteSetsExt

CONSTANT Shapes    \* the pairs <<M, N>> on the command line

\* main refuses no negative number, but with one validate declares an array of
\* a negative size (tracegen.c:35), which C leaves undefined
ASSUME ShapesAssumption == Shapes \subseteq Nat \X Nat

MAXN == 256
INT_MAX == 2147483647
random == -1       \* what initMatrix puts in B
none == -1

\* registerFunctions, in the order of func_list
funcs == <<Submit, Simple>>
func_counter == Len(funcs)

VARIABLES M, N, phase,
          i,                       \* the function that is evaluated
          at,                      \* its loop counters
          B, tmp,
          lines,                   \* the block in each line of csim-ref's cache
          counts,                  \* its hits, misses and evictions
          func_list,               \* correct and num_misses of each function
          results,
          out                      \* what TEST_TRANS_RESULTS shows

tracegen == <<at, B, tmp, lines, counts>>
vars == <<M, N, phase, i, tracegen, func_list, results, out>>

-----------------------------------------------------------------------------
\* The static data as the recorded traces (src/cachelab/trace.f0) show it:
\* addresses relative to A, which fills whole lines of the cache
Addr_B == 262144
Addr_N == 2 * Addr_B
Addr_M == Addr_N + 4
MARKER_START == Addr_N + 12
MARKER_END == Addr_N + 13
Addr_func(f) == Addr_N + 32 * f

\* csim-ref -s 5 -E 1 -b 5: sim holds lines and counts
csim_ref(sim, addr) ==
  LET block == addr \div 32
      line == block % 32
      old == sim.lines[line]
  IN  IF old = block
      THEN [sim EXCEPT !.counts[1] = @ + 1]
      ELSE [lines |-> [sim.lines EXCEPT ![line] = block],
            counts |-> [sim.counts EXCEPT ![2] = @ + 1,
                                          ![3] = @ + (IF old = none THEN 0 ELSE 1)]]

\* The addresses of one access of Trans, the load before the store
Addresses(c) ==
  LET load == 4 * (c.i * M + c.j)
      store == Addr_B + 4 * (c.j * N + c.i)
  IN  CASE c.kind = "copy" -> <<load, store>>
        [] c.kind = "load" -> <<load>>
        [] c.kind = "store" -> <<store>>

Trace(body) == FoldLeft(LAMBDA t, c : t \o Addresses(c), <<>>, body)

Simulated(addrs) == FoldLeft(csim_ref, [lines |-> lines, counts |-> counts], addrs)

Measure(addrs) == \E sim \in {Simulated(addrs)} :
                     lines' = sim.lines /\ counts' = sim.counts

\* The stores of an iteration to B and to the variables tmp
Perform(m, c) ==
  LET element == c.i * M + c.j
      cell == c.j * N + c.i
  IN  CASE c.kind = "copy" -> [m EXCEPT !.B[cell] = element]
        [] c.kind = "load" -> [m EXCEPT !.tmp[c.reg] = element]
        [] c.kind = "store" -> [m EXCEPT !.B[cell] = m.tmp[c.reg]]

Execute(body) ==
  LET after[n \in 0 .. Len(body)] ==
        IF n = 0 THEN [B |-> B, tmp |-> tmp] ELSE Perform(after[n - 1], body[n])
  IN  \E m \in {after[Len(body)]} : B' = m.B /\ tmp' = m.tmp

-----------------------------------------------------------------------------
Init == /\ \E shape \in Shapes : M = shape[1] /\ N = shape[2]
        /\ phase = "arguments"
        /\ i = 1
        /\ at = Finish /\ B = <<>> /\ tmp = <<>> /\ lines = <<>> /\ counts = <<0, 0, 0>>
        /\ func_list = [f \in 1 .. func_counter |-> [correct |-> 0, num_misses |-> 0]]
        /\ results = [funcid |-> none, correct |-> 0, misses |-> INT_MAX]
        /\ out = <<>>

\* main up to eval_perf
CheckArguments ==
  /\ phase = "arguments"
  /\ phase' = IF M = 0 \/ N = 0 \/ M > MAXN \/ N > MAXN THEN "exited" ELSE "function"
  /\ UNCHANGED <<M, N, i, tracegen, func_list, results, out>>

\* tracegen starts: initMatrix, and the accesses from the marker to the call
StartFunction ==
  /\ phase = "function" /\ i <= func_counter
  /\ results' = IF funcs[i] = Submit THEN [results EXCEPT !.funcid = i] ELSE results
  /\ phase' = "call" /\ at' = Begin
  /\ B' = [cell \in 0 .. M * N - 1 |-> random]
  /\ tmp' = [r \in 1 .. 8 |-> random]
  /\ \E sim \in {FoldLeft(csim_ref,
                          [lines |-> [l \in 0 .. 31 |-> none], counts |-> <<0, 0, 0>>],
                          <<MARKER_START, Addr_func(i), Addr_M, Addr_N>>)} :
        lines' = sim.lines /\ counts' = sim.counts
  /\ UNCHANGED <<M, N, i, func_list, out>>

\* One iteration of the function under test
Iterate ==
  /\ phase = "call" /\ at # Finish
  /\ \E body \in {Body(Callee(funcs[i], M, N), M, at)} :
        Execute(body) /\ Measure(Trace(body))
  /\ at' = Advance(Callee(funcs[i], M, N), M, N, at)
  /\ UNCHANGED <<M, N, phase, i, func_list, results, out>>

\* It returns: the end marker is written
EndFunction ==
  /\ phase = "call" /\ at = Finish
  /\ Measure(<<MARKER_END>>)
  /\ phase' = "validate"
  /\ UNCHANGED <<M, N, i, at, B, tmp, func_list, results, out>>

\* correctTrans, row by row of A
correctTrans == [cell \in 0 .. M * N - 1 |-> (cell % N) * M + cell \div N]

\* validate
valid == \A cell \in 0 .. M * N - 1 : B[cell] = correctTrans[cell]

NextFunction == phase' = "function" /\ i' = i + 1

\* continue: nothing is recorded
ValidationError ==
  /\ NextFunction
  /\ UNCHANGED <<M, N, tracegen, func_list, results, out>>

\* system returns the status of tracegen
Validated ==
  /\ phase = "validate"
  /\ IF valid THEN /\ phase' = "measured"
                   /\ UNCHANGED <<M, N, i, tracegen, func_list, results, out>>
     ELSE ValidationError

\* valgrind or tracegen does not run to its end
TracegenFails == phase \in {"call", "validate"} /\ ValidationError

\* Mutant: the misses of every function are recorded
Recorded_Every == [results EXCEPT !.correct = 1, !.misses = counts[2]]

Recorded ==
  IF results.funcid = i THEN [results EXCEPT !.correct = 1, !.misses = counts[2]]
  ELSE results

\* The trace is filtered, simulated, and the results are read back
Record ==
  /\ phase = "measured"
  /\ func_list' = [func_list EXCEPT ![i] = [correct |-> 1, num_misses |-> counts[2]]]
  /\ results' = Recorded
  /\ NextFunction
  /\ UNCHANGED <<M, N, tracegen, out>>

\* main after eval_perf
Report ==
  /\ phase = "function" /\ i > func_counter
  /\ out' = IF results.funcid = none THEN <<0, 0>> ELSE <<results.correct, results.misses>>
  /\ phase' = "exited"
  /\ UNCHANGED <<M, N, i, tracegen, func_list, results>>

\* sigalrm_handler: two minutes have passed since main called alarm
Timeout ==
  /\ phase \notin {"arguments", "exited"}
  /\ out' = <<0, 0>>
  /\ phase' = "exited"
  /\ UNCHANGED <<M, N, i, tracegen, func_list, results>>

Next == \/ CheckArguments \/ StartFunction \/ Iterate \/ EndFunction
        \/ Validated \/ TracegenFails \/ Record \/ Report \/ Timeout

Spec == Init /\ [][Next]_vars

-----------------------------------------------------------------------------
\* Every registered function stores the transpose of A in B, for each shape:
\* tracegen never reports a validation error (tracegen.c:41).
Transposed == phase = "validate" => valid

\* The submission stays below the misses that cost points on the three shapes
\* that driver.py runs (driver.py:95).
Limit == [s \in {<<32, 32>>, <<64, 64>>, <<61, 67>>} |->
            CASE s = <<32, 32>> -> 300 [] s = <<64, 64>> -> 1300 [] OTHER -> 2000]
FullScore ==
  results.correct = 1 /\ <<M, N>> \in DOMAIN Limit => results.misses <= Limit[<<M, N>>]

\* What is reported for the submission is what was measured for it in this
\* run; with no measurement, whether it failed or the time was up, it is not
\* reported as correct (test-trans.c:100 and 158).
ReportSound ==
  \A f \in 1 .. func_counter :
    funcs[f] = Submit /\ out # <<>> /\ out[1] = 1
      => func_list[f].correct = 1 /\ out[2] = func_list[f].num_misses

=============================================================================
