------------------------------- MODULE BTest -------------------------------
(***************************************************************************)
(* The test harness of the data lab (src/datalab/btest.c) with its table   *)
(* of puzzles (decl.c): options, test values, one test at a time with the  *)
(* alarm pending, and the score.                                           *)
(***************************************************************************)
EXTENDS Bits, SequencesExt

CONSTANTS Argvs,        \* command lines: sequences of options
          TEST_RANGE,
          MaxTimeouts,  \* bounds the timeouts of a run
          Randoms       \* sequences of words that rand may lead to

MAX_TEST_VALS == 13 * TEST_RANGE

ASSUME TestRangeAssumption == TEST_RANGE \in Nat \ {0}

none == "none"

-----------------------------------------------------------------------------
\* decl.c; a range of {1, 1} stands for the values that suit floats
TMax == 2147483647
Puzzle(name, args, rating, range1, range2) ==
  [name |-> name, args |-> args, rating |-> rating, ranges |-> <<range1, range2>>]
All == <<TMin, TMax>>
Floats == <<1, 1>>

test_set ==
  <<Puzzle("bitAnd", 2, 1, All, All), Puzzle("getByte", 2, 2, All, <<0, 3>>),
    Puzzle("logicalShift", 2, 3, All, <<0, 31>>), Puzzle("bitCount", 1, 4, All, All),
    Puzzle("bang", 1, 4, All, All), Puzzle("tmin", 0, 1, All, All),
    Puzzle("fitsBits", 2, 2, All, <<1, 32>>), Puzzle("divpwr2", 2, 2, All, <<0, 30>>),
    Puzzle("negate", 1, 2, All, All), Puzzle("isPositive", 1, 3, All, All),
    Puzzle("isLessOrEqual", 2, 3, All, All), Puzzle("ilog2", 1, 4, <<1, TMax>>, All),
    Puzzle("float_neg", 1, 2, Floats, Floats), Puzzle("float_i2f", 1, 4, Floats, Floats),
    Puzzle("float_twice", 1, 4, Floats, Floats)>>

\* solution_funct
Solution(name, x, y) ==
  CASE name = "bitAnd" -> bitAnd(x, y)             [] name = "getByte" -> getByte(x, y)
    [] name = "logicalShift" -> logicalShift(x, y) [] name = "bitCount" -> bitCount(x)
    [] name = "bang" -> bang(x)                    [] name = "tmin" -> tmin
    [] name = "fitsBits" -> fitsBits(x, y)         [] name = "divpwr2" -> divpwr2(x, y)
    [] name = "negate" -> negate(x)                [] name = "isPositive" -> isPositive(x)
    [] name = "isLessOrEqual" -> isLessOrEqual(x, y) [] name = "ilog2" -> ilog2(x)
    [] name = "float_neg" -> float_neg(x)          [] name = "float_i2f" -> float_i2f(x)
    [] name = "float_twice" -> float_twice(x)

\* test_funct
Test(name, x, y) ==
  CASE name = "bitAnd" -> test_bitAnd(x, y)        [] name = "getByte" -> test_getByte(x, y)
    [] name = "logicalShift" -> test_logicalShift(x, y) [] name = "bitCount" -> test_bitCount(x)
    [] name = "bang" -> test_bang(x)               [] name = "tmin" -> test_tmin
    [] name = "fitsBits" -> test_fitsBits(x, y)    [] name = "divpwr2" -> test_divpwr2(x, y)
    [] name = "negate" -> test_negate(x)           [] name = "isPositive" -> test_isPositive(x)
    [] name = "isLessOrEqual" -> test_isLessOrEqual(x, y) [] name = "ilog2" -> test_ilog2(x)
    [] name = "float_neg" -> test_float_neg(x)     [] name = "float_i2f" -> test_float_i2f(x)
    [] name = "float_twice" -> test_float_twice(x)

-----------------------------------------------------------------------------
VARIABLES phase, argv,
          opts,        \* test_fname, global_rating, grade, has_arg, argval, timeout_limit
          i,           \* the puzzle of run_tests
          vals,        \* arg_test_vals
          a,           \* a1 and a2
          errors,      \* of test_function
          points, max_points,
          armed,       \* an alarm is to come
          output,      \* the puzzles whose ERROR line was printed, and which
          failed       \* history: the puzzles that gave a wrong answer or none in time

vars == <<phase, argv, opts, i, vals, a, errors, points, max_points, armed, output, failed>>

puzzle == test_set[i]

Init == /\ argv \in Argvs
        /\ phase = "options"
        /\ opts = [fname |-> none, rating |-> 0, grade |-> FALSE,
                   has_arg |-> <<FALSE, FALSE>>, argval |-> <<{}, {}>>, limit |-> 10]
        /\ i = 1 /\ vals = <<>> /\ a = <<1, 1>> /\ errors = 0
        /\ points = 0 /\ max_points = 0
        /\ armed = FALSE
        /\ output = {} /\ failed = {}

-----------------------------------------------------------------------------
\* get_num_val: val is the text, valp the word it is to replace.  An integer
\* is refused when the word is not 0, and not when more text follows it.
get_num_val(val, valp) == IF val.float THEN ~ val.more
                          ELSE valp = {} /\ val.fits

Place(flag) == IF flag = "1" THEN 1 ELSE 2

\* One round of the loop over getopt; argument 3 is of no use to the puzzles
Accepted(o) == CASE o.flag = "r" -> o.val >= 0
                 [] o.flag \in {"1", "2"} -> get_num_val(o.val, opts.argval[Place(o.flag)])
                 [] OTHER -> o.flag \in {"f", "g", "T"}

Option ==
  /\ phase = "options" /\ argv # <<>>
  /\ LET o == Head(argv)
     IN  IF Accepted(o)
         THEN /\ opts' = CASE o.flag = "f" -> [opts EXCEPT !.fname = o.val]
                           [] o.flag = "r" -> [opts EXCEPT !.rating = o.val]
                           [] o.flag = "g" -> [opts EXCEPT !.grade = TRUE]
                           [] o.flag = "T" -> [opts EXCEPT !.limit = o.val]
                           [] OTHER -> [opts EXCEPT !.has_arg[Place(o.flag)] = TRUE,
                                                       !.argval[Place(o.flag)] = o.val.word]
              /\ argv' = Tail(argv) /\ UNCHANGED phase
         ELSE phase' = "exited" /\ UNCHANGED <<argv, opts>>
  /\ UNCHANGED <<i, vals, a, errors, points, max_points, armed, output, failed>>

StartTests ==
  /\ phase = "options" /\ argv = <<>>
  /\ phase' = "run_tests"
  /\ UNCHANGED <<argv, opts, i, vals, a, errors, points, max_points, armed, output, failed>>

-----------------------------------------------------------------------------
\* Denormalised floats around zero, the first normalised ones, those around
\* one and below 0x7f000000, with both signs, infinity and NaN
FloatVals(range) ==
  LET largest_norm == 24 .. 30
      near(r) == <<NatWord(r), Plus({23}, NatWord(r)), Plus({23}, Negated(NatWord(r))),
                   Plus(23 .. 29, NatWord(r)), Plus(23 .. 29, Negated(NatWord(r))),
                   Plus(largest_norm, Negated(NatWord(r)))>>
      signed(s) == FlattenSeq([n \in 1 .. Len(s) |-> <<s[n], s[n] \cup {31}>>])
  IN  signed(FlattenSeq([r \in 1 .. range |-> near(r - 1)]) \o <<23 .. 30, 22 .. 30>>)

\* Around both ends and around zero, and the random value rs[r]
Sampled(min, max, range, rs) ==
  FlattenSeq([r \in 1 .. range |->
    <<IntWord(min + r - 1), IntWord(max - r + 1)>>
      \o (IF r - 1 \in min .. max THEN <<IntWord(r - 1)>> ELSE <<>>)
      \o (IF 1 - r \in min .. max THEN <<IntWord(1 - r)>> ELSE <<>>)
      \o <<rs[r]>>])

random_vals(min, max, range) ==
  {rs \in Randoms : Len(rs) = range /\ \A r \in 1 .. range : Value(rs[r]) \in min .. max}

Exhaustive(min, max) == max - MAX_TEST_VALS <= min

\* The possible results of gen_vals
gen_vals(min, max, range, n) ==
  IF opts.has_arg[n] THEN {<<opts.argval[n]>>}
  ELSE IF <<min, max>> = Floats THEN {FloatVals(range)}
  ELSE IF Exhaustive(min, max) THEN {[k \in 1 .. max - min + 1 |-> IntWord(min + k - 1)]}
  ELSE {Sampled(min, max, range, rs) : rs \in random_vals(min, max, range)}

arg_test_range ==
  IF puzzle.args = 1 THEN TEST_RANGE
  ELSE CHOOSE r \in 1 .. TEST_RANGE : r * r <= TEST_RANGE /\ (r + 1) * (r + 1) > TEST_RANGE

GenVals(arg) == gen_vals(puzzle.ranges[arg][1], puzzle.ranges[arg][2], arg_test_range, arg)

\* run_tests comes to the next puzzle; test_function up to its loops
StartPuzzle ==
  /\ phase = "run_tests" /\ i <= Len(test_set)
  /\ opts.fname \in {none, puzzle.name}
  /\ vals' \in CASE puzzle.args = 0 -> {<<>>}
                 [] puzzle.args = 1 -> {<<v>> : v \in GenVals(1)}
                 [] puzzle.args = 2 -> {<<v, w>> : v \in GenVals(1), w \in GenVals(2)}
  /\ a' = <<1, 1>> /\ errors' = 0
  /\ armed' = (armed \/ opts.limit > 0)
  /\ phase' = "test"
  /\ UNCHANGED <<argv, opts, i, points, max_points, output, failed>>

SkipPuzzle ==
  /\ phase = "run_tests" /\ i <= Len(test_set)
  /\ opts.fname \notin {none, puzzle.name}
  /\ i' = i + 1
  /\ UNCHANGED <<phase, argv, opts, vals, a, errors, points, max_points, armed, output, failed>>

arg(n) == IF n <= puzzle.args THEN vals[n][a[n]] ELSE {}
count(n) == IF n <= puzzle.args THEN Len(vals[n]) ELSE 1

\* test_0_arg, test_1_arg and test_2_arg
WrongAnswer == Solution(puzzle.name, arg(1), arg(2)) # Test(puzzle.name, arg(1), arg(2))

\* One pass of the loops over a1 and a2
RunTest ==
  /\ phase = "test"
  /\ \E wrong \in {WrongAnswer} :
       /\ errors' = IF wrong THEN 1 ELSE 0
       /\ output' = IF wrong /\ ~ opts.grade THEN output \cup {<<puzzle.name, "failed">>} ELSE output
       /\ failed' = IF wrong THEN failed \cup {i} ELSE failed
       /\ a' = IF a[2] < count(2) THEN <<a[1], a[2] + 1>> ELSE <<a[1] + 1, 1>>
       /\ phase' = IF wrong \/ a = <<count(1), count(2)>> THEN "return" ELSE "test"
  /\ UNCHANGED <<argv, opts, i, vals, points, max_points, armed>>

\* Mutant: the error is printed, but not counted
TimeoutErrors_Kept == errors

TimeoutErrors == 1

\* timeout_handler jumps back into test_function, which prints its line with -g
\* as well
Timeout ==
  /\ phase = "test" /\ armed
  /\ Cardinality({line \in output : line[2] = "timed out"}) < MaxTimeouts
  /\ armed' = FALSE
  /\ errors' = TimeoutErrors
  /\ output' = output \cup {<<puzzle.name, "timed out">>}
  /\ failed' = failed \cup {i}
  /\ phase' = "return"
  /\ UNCHANGED <<argv, opts, i, vals, a, points, max_points>>

\* The alarm is not taken back: it may come when test_function has returned,
\* and then the jump leads into a frame that is gone
LateTimeout ==
  /\ phase \in {"return", "run_tests"} /\ armed
  /\ phase' = "undefined" /\ armed' = FALSE
  /\ UNCHANGED <<argv, opts, i, vals, a, errors, points, max_points, output, failed>>

rating(p) == IF opts.rating # 0 THEN opts.rating ELSE p.rating

\* test_function returns errors to run_tests
Score ==
  /\ phase = "return"
  /\ points' = points + (IF errors = 0 THEN rating(puzzle) ELSE 0)
  /\ max_points' = max_points + rating(puzzle)
  /\ i' = i + 1
  /\ vals' = <<>> /\ a' = <<1, 1>> /\ errors' = 0    \* dead
  /\ phase' = "run_tests"
  /\ UNCHANGED <<argv, opts, armed, output, failed>>

Finish ==
  /\ phase = "run_tests" /\ i > Len(test_set)
  /\ phase' = "exited"
  /\ UNCHANGED <<argv, opts, i, vals, a, errors, points, max_points, armed, output, failed>>

Next == \/ Option \/ StartTests \/ StartPuzzle \/ SkipPuzzle
        \/ RunTest \/ Timeout \/ LateTimeout \/ Score \/ Finish

Spec == Init /\ [][Next]_vars

-----------------------------------------------------------------------------
\* With the values that btest.c chooses, and with an argument of the user's that
\* is in the range of the table, no puzzle is ever tested whose answer differs
\* from that of its test function in tests.c, whether or not the error is
\* printed.  One argument of the user's is excepted: float_twice of a number too
\* large to be doubled, of which bits.c:426 keeps the fraction.  btest.c chooses
\* no such number.
PuzzlesCorrect ==
  phase = "test" /\ WrongAnswer => /\ puzzle.name = "float_twice" /\ opts.has_arg[1]
                                   /\ get_exp(arg(1)) = 254 /\ get_frac(arg(1)) # {}

\* The points are the ratings of the puzzles that were tried and that gave no
\* wrong answer and came to their end in time.  The ERROR lines are about the
\* others: about all of them, unless -g is given.
PointsAreEarned ==
  LET tried == {n \in 1 .. i - 1 : opts.fname \in {none, test_set[n].name}}
      sum(S) == FoldSet(LAMBDA n, s : s + rating(test_set[n]), 0, S)
      printed == {n \in tried : \E line \in output : line[1] = test_set[n].name}
  IN  phase \in {"run_tests", "exited"} =>
        /\ points = sum(tried \ failed) /\ max_points = sum(tried)
        /\ printed \subseteq failed
        /\ ~ opts.grade => tried \cap failed \subseteq printed

=============================================================================
