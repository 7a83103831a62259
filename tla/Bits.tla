-------------------------------- MODULE Bits --------------------------------
(***************************************************************************)
(* The puzzles of src/datalab/bits.c and the functions of tests.c that say *)
(* what they must return, on words of 32 bits.  A word is the set of its   *)
(* bits that are 1, so that 0x7f800000 is 23 .. 30 and 1 << 31 is {31}.    *)
(* Signed arithmetic wraps, as it does in the code that gcc makes of it.   *)
(***************************************************************************)
EXTENDS Integers, Sequences, FiniteSets, FiniteSetsExt

Word == 0 .. 31

-----------------------------------------------------------------------------
\* The operators of C
Not(x) == Word \ x
Xor(x, y) == (x \cup y) \ (x \cap y)
Shl(x, n) == {k + n : k \in x} \cap Word
Shr(x, n) == {k - n : k \in x} \cap Word                             \* unsigned
Sar(x, n) == Shr(x, n) \cup (IF 31 \in x THEN 32 - n .. 31 ELSE {})  \* int

Plus(x, y) ==
  LET carries == {k \in Word : \E j \in x \cap y : j < k /\ j + 1 .. k - 1 \subseteq x \cup y}
  IN  Xor(Xor(x, y), carries)
Negated(x) == Plus(Not(x), {0})

Bool(p) == IF p THEN {0} ELSE {}
Bang(x) == Bool(x = {})

Highest(x) == CHOOSE k \in x : \A j \in x : j <= k
LessUnsigned(x, y) == x # y /\ Highest(Xor(x, y)) \in y
Less(x, y) == LessUnsigned(Xor(x, {31}), Xor(y, {31}))

\* Between words and integers
TMin == -2147483647 - 1
Value(x) == (IF 31 \in x THEN TMin ELSE 0) + SumSet({2^k : k \in x \ {31}})
NatWord(v) == {k \in 0 .. 30 : (v \div 2^k) % 2 = 1}
IntWord(v) == IF v >= 0 THEN NatWord(v) ELSE {31} \cup NatWord(v - TMin)

-----------------------------------------------------------------------------
\* bits.c
bitAnd(x, y) == Not(Not(x) \cup Not(y))
getByte(x, n) == Sar(x, Value(Shl(n, 3))) \cap 0 .. 7
logicalShift(x, n) == Sar(x, Value(n)) \cap Not(Shl(Sar({31}, Value(n)), 1))

bitCount(x) ==
  LET maskhalf == 0 .. 15
      maskff == (0 .. 7) \cup Shl(0 .. 7, 16)
      mask0f == Xor(maskff, Shl(maskff, 4))
      mask33 == Xor(mask0f, Shl(mask0f, 2))
      mask55 == Xor(mask33, Shl(mask33, 1))
      pairs == Plus(x \cap mask55, Sar(x, 1) \cap mask55)
      nibbles == Plus(pairs \cap mask33, Sar(pairs, 2) \cap mask33)
      folded(y, n, mask) == Plus(y, Sar(y, n)) \cap mask
  IN  folded(folded(folded(nibbles, 4, mask0f), 8, maskff), 16, maskhalf)

bang(x) == Plus(Sar(x, 31), {0}) \cap Sar(Plus(x, Not({})), 31)
tmin == Shl({0}, 31)
fitsBits(x, n) == Bang(Sar(Xor(x, Sar(x, 31)), Value(Plus(n, Not({})))))

\* Mutant: negative numbers are rounded down
divpwr2_Down(x, n) == Sar(x, Value(n))

divpwr2(x, n) ==
  LET signMask == Sar(x, 31)
  IN  Sar(Plus(x, Not(Shl(signMask, Value(n))) \cap signMask), Value(n))

negate(x) == Plus(Not(x), {0})
isPositive(x) == Bang(Sar(x, 31) \cup Bang(x))

isLessOrEqual(x, y) ==
  LET xNeg == Sar(x, 31)
      yNonneg == Bang(Sar(y, 31))
      yMinusXPos == Bang(Sar(Plus(y, Plus(Not(x), {0})), 31))
  IN  (xNeg \cap yNonneg) \cup ((xNeg \cup yNonneg) \cap yMinusXPos)

\* One step of the binary search of ilog2, by half a range of 2^n bits
Pivot(at, n) ==
  IF Sar(at.x, 2^n) = {} THEN at
  ELSE [result |-> Plus(at.result, {n}), x |-> Sar(at.x, 2^n)]

ilog2(x) ==
  LET at == Pivot(Pivot(Pivot(Pivot([result |-> {}, x |-> x], 4), 3), 2), 1)
  IN  Plus(at.result, Sar(at.x, 1))

float_neg(uf) == IF LessUnsigned(23 .. 30, uf \ {31}) THEN uf ELSE Xor(uf, {31})

\* The loops of float_i2f: down to 24 bits, and up to 24 bits
RECURSIVE Shrink(_), Grow(_)
Shrink(r) == IF r.value \subseteq 0 .. 23 THEN r
             ELSE Shrink([remainder |-> r.remainder \/ r.bit, bit |-> 0 \in r.value,
                          value |-> Shr(r.value, 1), exp |-> Plus(r.exp, {23})])
Grow(r) == IF 23 \in r.value THEN r
           ELSE Grow([r EXCEPT !.value = Shl(@, 1), !.exp = Plus(@, Not(0 .. 22))])

\* Mutant: half is always rounded up
Rounded_HalfUp(r) == IF r.bit THEN [r EXCEPT !.value = Plus(@, {0})] ELSE r

\* Up if the rest is more than half, or half and the last bit is 1
Rounded(r) == IF r.bit /\ (r.remainder \/ 0 \in r.value)
              THEN [r EXCEPT !.value = Plus(@, {0})] ELSE r

Carried(r) == IF r.value = {24} THEN [r EXCEPT !.value = {23}, !.exp = Plus(@, {23})] ELSE r

float_i2f(x) ==
  LET sign == x \cap {31}
      value == x \ {31}
      start == [value |-> IF sign = {} THEN value ELSE Plus({31}, Negated(value)),
                exp |-> {24, 25, 27, 30}, bit |-> FALSE, remainder |-> FALSE]
      end == Grow(Carried(Rounded(Shrink(start))))
  IN  IF value = {} THEN IF sign = {} THEN {} ELSE {24, 25, 26, 27, 30, 31}
      ELSE Plus(Plus(sign, end.exp), end.value \cap 0 .. 22)

float_twice(uf) ==
  LET uf_exp == uf \cap 23 .. 30
  IN  CASE uf_exp = 23 .. 30 -> uf
        [] uf_exp = {} -> Plus(uf, uf \cap 0 .. 22)
        [] OTHER -> Plus(uf, {23})

-----------------------------------------------------------------------------
\* fshow.c: the parts of a float and the number they stand for, which is
\* mantissa * 2^(exponent - 23)
get_sign(uf) == uf \cap {31}
get_exp(uf) == Value(Shr(uf, 23) \cap 0 .. 7)
get_frac(uf) == uf \cap 0 .. 22
isnan(uf) == get_exp(uf) = 255 /\ get_frac(uf) # {}
isinf(uf) == get_exp(uf) = 255 /\ get_frac(uf) = {}
exponent(uf) == IF get_exp(uf) = 0 THEN -126 ELSE get_exp(uf) - 127
mantissa(uf) == get_frac(uf) \cup (IF get_exp(uf) = 0 THEN {} ELSE {23})

\* The processor: m / 2^d to the nearest integer, half to the even one
Nearest(m, d) ==
  LET rest == m \cap 0 .. d - 1
      up == d - 1 \in rest /\ (rest # {d - 1} \/ d \in m)
  IN  IF d <= 0 THEN Shl(m, -d)
      ELSE IF up THEN Plus(Shr(m, d), {0}) ELSE Shr(m, d)

\* The processor: the float nearest to m * 2^e
Float(sign, m, e) ==
  LET E == Highest(m) + e
      unit == (IF E < -126 THEN -126 ELSE E) - 23
  IN  IF m = {} THEN sign
      ELSE IF E > 127 THEN sign \cup 23 .. 30
      ELSE sign \cup Plus(Shl(NatWord(unit + 149), 23), Nearest(m, unit - e))

-----------------------------------------------------------------------------
\* tests.c
test_bitAnd(x, y) == x \cap y
test_getByte(x, n) == Shr(x, CASE n = {} -> 0 [] n = {0} -> 8 [] n = {1} -> 16 [] OTHER -> 24)
                        \cap 0 .. 7
test_logicalShift(x, n) == Shr(x, Value(n))
test_bitCount(x) == NatWord(Cardinality(x))
test_bang(x) == Bool(x = {})
test_tmin == {31}
test_fitsBits(x, n) ==
  LET TMin_n == Negated(Shl({0}, Value(n) - 1))
      TMax_n == Plus(Shl({0}, Value(n) - 1), Not({}))
  IN  Bool(~ Less(x, TMin_n) /\ ~ Less(TMax_n, x))
\* The division rounds towards zero: it divides the absolute value
test_divpwr2(x, n) == IF 31 \in x THEN Negated(Shr(Negated(x), Value(n))) ELSE Shr(x, Value(n))
test_negate(x) == Negated(x)
test_isPositive(x) == Bool(Less({}, x))
test_isLessOrEqual(x, y) == Bool(~ Less(y, x))
test_ilog2(x) == NatWord(Highest(x))
test_float_neg(uf) == IF isnan(uf) THEN uf ELSE Xor(uf, {31})
test_float_i2f(x) == Float(x \cap {31}, IF 31 \in x THEN Negated(x) ELSE x, 0)
test_float_twice(uf) == IF isnan(uf) \/ isinf(uf) THEN uf
                        ELSE Float(get_sign(uf), mantissa(uf), exponent(uf) - 22)

=============================================================================
