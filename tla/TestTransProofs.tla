--------------------------- MODULE TestTransProofs ---------------------------
(***************************************************************************)
(* Proofs about TestTrans, for every shape of the matrix: each of the      *)
(* functions under test stores the transpose of A, and what is reported    *)
(* for the submission is what its evaluation measured.  The accesses of an *)
(* iteration are a set of copies, loads and stores; the loop counters say  *)
(* which elements of B are done, and the next iteration leaves out none of *)
(* those that they pass over.                                              *)
(***************************************************************************)
EXTENDS TestTrans, SequenceTheorems, WellFoundedInduction, TLAPS

\* What initMatrix puts in an element of A, and an element of B that is right
Element(r, q) == r * M + q
Right(b, r, q) == b[q * N + r] = Element(r, q)

callee == Callee(funcs[i], M, N)

\* The elements that are done when the loop counters are a: those of the
\* iterations before, which trans makes by rows, trans_otherwise by columns,
\* and the others by blocks, in a block by the turn of each element
DoneRows(a, r, q) == r < a.k \/ (r = a.k /\ q < a.jj)
DoneColumns(a, r, q) == q < a.jj \/ (q < a.jj + Columns(M, a.jj) /\ r < a.k)
DoneBlocks(a, r, q, turn) ==
  r < a.ii \/ (r < a.ii + 8 /\ (q < a.jj \/ (q < a.jj + 8 /\ turn < a.k)))

\* The iteration of trans_64 that stores the element x rows and y columns from
\* the corner of its block
Turn(x, y) == IF y < 4 THEN x ELSE IF x >= 4 THEN x + 4 ELSE IF x >= 2 THEN x + 10 ELSE 14

Done(c, a, r, q) ==
  \/ a = Finish
  \/ c = "trans" /\ DoneRows(a, r, q)
  \/ c = "trans_otherwise" /\ DoneColumns(a, r, q)
  \/ c = "trans_32" /\ DoneBlocks(a, r, q, r - a.ii)
  \/ c = "trans_64" /\ DoneBlocks(a, r, q, Turn(r - a.ii, q - a.jj))

\* The loop counters that a function comes to
Counters == [ii : Nat, jj : Nat, k : Nat]
Positioned(c, a) ==
  a # Finish =>
  /\ a \in Counters
  /\ c \in {"trans", "trans_otherwise", "trans_32", "trans_64"}
  /\ c = "trans" => a.k < N /\ a.jj < M
  /\ c = "trans_otherwise" => a.k < N /\ a.jj % 8 = 0 /\ a.jj <= 8 * (M \div 8)
  /\ c = "trans_32" => /\ M = 32 /\ N = 32 /\ a.k < 8
                       /\ a.ii \in {8 * n : n \in 0 .. 3} /\ a.jj \in {8 * n : n \in 0 .. 3}
  /\ c = "trans_64" => /\ M = 64 /\ N = 64 /\ a.k < 15
                       /\ a.ii \in {8 * n : n \in 0 .. 7} /\ a.jj \in {8 * n : n \in 0 .. 7}

\* tmp0 to tmp7 hold the right half of the first two rows of the block
KeptRow(a, t, x) == \A n \in 1 .. 4 : t[4 * x + n] = Element(a.ii + x, a.jj + 4 + n - 1)
Kept(c, a, t) ==
  c = "trans_64" /\ a # Finish => (a.k > 0 => KeptRow(a, t, 0)) /\ (a.k > 1 => KeptRow(a, t, 1))

\* What the function under test writes
Mem == [B : [0 .. M * N - 1 -> Int], tmp : [1 .. 8 -> Int]]

\* While it runs, what its counters have passed is right in B
WorkingAt(a, b, t) ==
  /\ [B |-> b, tmp |-> t] \in Mem
  /\ Positioned(callee, a)
  /\ \A r \in 0 .. N - 1, q \in 0 .. M - 1 : Done(callee, a, r, q) => Right(b, r, q)
  /\ Kept(callee, a, t)

Working == phase = "call" => WorkingAt(at, B, tmp)

\* Where the evaluation is
Placed ==
  /\ M \in Nat /\ N \in Nat /\ i \in 1 .. func_counter + 1
  /\ phase \in {"arguments", "function", "call", "validate", "measured", "exited"}
  /\ phase \notin {"arguments", "exited"} => M > 0 /\ N > 0
  /\ phase \in {"call", "validate", "measured"} => i <= func_counter

-----------------------------------------------------------------------------
\* Every nonempty set of naturals has a least element.
LEMMA LeastNatural ==
  ASSUME NEW S, S \subseteq Nat, S # {}
  PROVE  \E n \in S : \A m \in S : n <= m
<1> DEFINE R == OpToRel(<, Nat)
<1>1. IsWellFoundedOn(R, Nat)
  BY NatLessThanWellFounded
<1>2. PICK n \in S : \A m \in S : ~ (<<m, n>> \in R)
  BY <1>1, WFMin, Zenon
<1>3. \A m \in S : ~ (m < n)
  BY <1>2 DEF OpToRel
<1> QED
  BY <1>3

\* A set of numbers that holds n when it holds all below n holds every one.
LEMMA AllNumbers ==
  ASSUME NEW L \in Nat, NEW S,
         \A n \in 0 .. L : (\A m \in 0 .. L : m < n => m \in S) => n \in S
  PROVE  0 .. L \subseteq S
<1> DEFINE lost == {n \in 0 .. L : n \notin S}
<1> SUFFICES ASSUME lost # {} PROVE FALSE
  OBVIOUS
<1>1. lost \subseteq Nat
  OBVIOUS
<1>2. PICK n \in lost : \A m \in lost : n <= m
  <2> HIDE DEF lost
  <2> QED
    BY <1>1, LeastNatural
<1>3. ASSUME NEW m \in 0 .. L, m < n
      PROVE  m \in S
  <2>1. m \notin lost
    <3>1. n \in Nat /\ m \in Nat
      OBVIOUS
    <3> HIDE DEF lost
    <3> QED
      BY <1>2, <1>3, <3>1
  <2> QED
    BY <2>1
<1> QED
  BY <1>2, <1>3

\* A function on 0 to L that takes each value from the one before it
Iterates(f, L, S, start, G) ==
  f \in [0 .. L -> S] /\ f[0] = start /\ \A n \in 1 .. L : f[n] = G[<<f[n - 1], n>>]

\* What a loop computes that starts with a value and takes each next one from
\* the one before.
LEMMA Iterated ==
  ASSUME NEW L \in Nat, NEW S, NEW start \in S, NEW G \in [S \X (1 .. L) -> S]
  PROVE  \E f : Iterates(f, L, S, start, G)
<1> DEFINE Upto(k, f) == f = [n \in 0 .. k |-> IF n = 0 THEN start ELSE G[<<f[n - 1], n>>]]
           K == {k \in 0 .. L : \E f \in [0 .. k -> S] : Upto(k, f)}
<1>1. ASSUME NEW k \in 0 .. L, \A m \in 0 .. L : m < k => m \in K
      PROVE  k \in K
  <2>1. CASE k = 0
    <3>1. [n \in 0 .. 0 |-> start] \in [0 .. 0 -> S] /\ Upto(0, [n \in 0 .. 0 |-> start])
      OBVIOUS
    <3> QED
      BY <2>1, <3>1
  <2>2. CASE k # 0
    <3>1. k - 1 \in 0 .. L /\ k - 1 < k
      BY <2>2
    <3>2. PICK f \in [0 .. k - 1 -> S] : Upto(k - 1, f)
      BY <1>1, <3>1
    <3> DEFINE g == [n \in 0 .. k |-> IF n = k THEN G[<<f[k - 1], k>>] ELSE f[n]]
    <3>3. g \in [0 .. k -> S]
      <4>1. ASSUME NEW n \in 0 .. k
            PROVE  (IF n = k THEN G[<<f[k - 1], k>>] ELSE f[n]) \in S
        <5>1. f[k - 1] \in S /\ k \in 1 .. L
          BY <2>2, <3>1
        <5>2. n # k => f[n] \in S
          OBVIOUS
        <5> QED
          BY <5>1, <5>2
      <4> QED
        BY <4>1
    <3>4. ASSUME NEW n \in 0 .. k
          PROVE  g[n] = IF n = 0 THEN start ELSE G[<<g[n - 1], n>>]
      <4>1. CASE n = k
        <5>1. g[n - 1] = f[k - 1]
          BY <2>2, <4>1
        <5> QED
          BY <2>2, <4>1, <5>1
      <4>2. CASE n # k
        <5>1. n \in 0 .. k - 1 /\ g[n] = f[n]
          BY <4>2
        <5>2. n # 0 => g[n - 1] = f[n - 1]
          BY <5>1
        <5>3. f[n] = IF n = 0 THEN start ELSE G[<<f[n - 1], n>>]
          BY <3>2, <5>1, Zenon
        <5> HIDE DEF g
        <5> QED
          BY <5>1, <5>2, <5>3
      <4> QED
        BY <4>1, <4>2
    <3>5. Upto(k, g)
      <4>1. g = [n \in 0 .. k |-> g[n]]
        OBVIOUS
      <4> HIDE DEF g
      <4> QED
        BY <3>4, <4>1
    <3> HIDE DEF g, Upto
    <3> QED
      BY <3>3, <3>5
  <2> QED
    BY <2>1, <2>2
<1> HIDE DEF K
<1>2. L \in K
  BY <1>1, AllNumbers
<1>3. PICK f \in [0 .. L -> S] : Upto(L, f)
  BY <1>2 DEF K
<1>4. ASSUME NEW n \in 0 .. L
      PROVE  f[n] = IF n = 0 THEN start ELSE G[<<f[n - 1], n>>]
  BY <1>3, Zenon
<1>5. f[0] = start
  <2>1. 0 \in 0 .. L
    OBVIOUS
  <2> QED
    BY <1>4, <2>1
<1>6. ASSUME NEW n \in 1 .. L
      PROVE  f[n] = G[<<f[n - 1], n>>]
  BY <1>4
<1> QED
  BY <1>5, <1>6 DEF Iterates

\* The quotient and the rest of a number.
LEMMA Euclid ==
  ASSUME NEW a \in Int, NEW n \in Nat \ {0}
  PROVE  \E q \in Int, r \in 0 .. n - 1 : q = a \div n /\ r = a % n /\ a = n * q + r
<1>1. a \div n \in Int /\ a % n \in 0 .. n - 1
  OBVIOUS
<1>2. PICK q \in Int, r \in Nat : q = a \div n /\ r = a % n
  BY <1>1
<1>3. a = n * q + r
  BY <1>2
<1> QED
  BY <1>1, <1>2, <1>3

\* A number has one quotient and one rest.
LEMMA OneQuotient ==
  ASSUME NEW n \in Nat \ {0}, NEW p \in Int, NEW q \in Int,
         NEW r \in 0 .. n - 1, NEW t \in 0 .. n - 1, n * q + r = n * p + t
  PROVE  p = q /\ r = t
<1>1. CASE p < q
  <2>1. n * q >= n * (p + 1)
    BY <1>1
  <2> QED
    BY <2>1
<1>2. CASE p > q
  <2>1. n * p >= n * (q + 1)
    BY <1>2
  <2> QED
    BY <2>1
<1> QED
  BY <1>1, <1>2

-----------------------------------------------------------------------------
(* Accesses. *)

\* The sizes that main accepts
Sized == M \in Nat \ {0} /\ N \in Nat \ {0}

\* A product grows with its factor.
LEMMA TimesGrows ==
  ASSUME NEW a \in Int, NEW c \in Int, a <= c, NEW d \in Nat
  PROVE  a * d \in Int /\ c * d \in Int /\ a * d <= c * d
OBVIOUS

\* The cell of an element is one of B's, and elements have cells of their own.
LEMMA CellInB ==
  ASSUME Sized, NEW r \in 0 .. N - 1, NEW q \in 0 .. M - 1
  PROVE  q * N + r \in 0 .. M * N - 1 /\ Element(r, q) \in Int
<1>1. M \in Nat /\ N \in Nat /\ M > 0 /\ N > 0 /\ q \in Int /\ r \in Int
  BY DEF Sized
<1>2. q * N \in Int /\ (M - 1) * N \in Int /\ q * N <= (M - 1) * N
  BY <1>1, TimesGrows
<1>3. (M - 1) * N = M * N - N /\ M * N \in Int
  BY <1>1
<1>4. 0 * N <= q * N /\ 0 * N = 0
  BY <1>1, TimesGrows
<1>5. r * M \in Int
  BY <1>1
<1>6. PICK x \in Int, y \in Int : x = q * N /\ y = M * N
  BY <1>2, <1>3
<1>7. 0 <= x /\ x <= y - N
  BY <1>2, <1>3, <1>4, <1>6
<1>8. x + r \in 0 .. y - 1
  BY <1>1, <1>7
<1> QED
  BY <1>1, <1>5, <1>6, <1>8 DEF Element

\* Elements have cells of their own.
LEMMA OneElement ==
  ASSUME Sized, NEW r \in 0 .. N - 1, NEW q \in 0 .. M - 1, NEW x \in 0 .. N - 1, NEW y \in 0 .. M - 1,
         q * N + r = y * N + x
  PROVE  r = x /\ q = y
<1>1. N * q + r = N * y + x
  BY DEF Sized
<1>2. N \in Nat \ {0} /\ q \in Int /\ y \in Int
  BY DEF Sized
<1> QED
  BY <1>1, <1>2, OneQuotient

\* An access of the function under test
Sound(c) ==
  /\ c.i \in 0 .. N - 1 /\ c.j \in 0 .. M - 1
  /\ c.kind = "copy" \/ (c.kind \in {"load", "store"} /\ c.reg \in 1 .. 8)

\* What an access makes of m
Stepped(g, m, c) ==
  /\ g \in Mem
  /\ c.kind = "load" => /\ g.B = m.B
                        /\ g.tmp[c.reg] = Element(c.i, c.j)
                        /\ \A x \in 1 .. 8 : x # c.reg => g.tmp[x] = m.tmp[x]
  /\ c.kind # "load" => g.tmp = m.tmp
  /\ c.kind # "load" /\ (c.kind = "store" => m.tmp[c.reg] = Element(c.i, c.j)) =>
       /\ Right(g.B, c.i, c.j)
       /\ \A r \in 0 .. N - 1, q \in 0 .. M - 1 : Right(m.B, r, q) => Right(g.B, r, q)

\* A copy, or a store of what a load of the same element kept, makes an element
\* of B right and leaves the others.
LEMMA PerformSteps ==
  ASSUME Sized, NEW m \in Mem, NEW c, Sound(c)
  PROVE  Stepped(Perform(m, c), m, c)
<1> DEFINE x == c.i
           y == c.j
           g == Perform(m, c)
<1>1. x \in 0 .. N - 1 /\ y \in 0 .. M - 1
  BY DEF Sound
<1>2. PICK cell \in 0 .. M * N - 1 : cell = y * N + x
  BY <1>1, CellInB
<1>3. PICK e \in Int : e = Element(x, y) /\ e = x * M + y
  BY <1>1, CellInB DEF Element
<1>4. m.B \in [0 .. M * N - 1 -> Int] /\ m.tmp \in [1 .. 8 -> Int] /\ m = [B |-> m.B, tmp |-> m.tmp]
  BY DEF Mem
<1>5. ASSUME NEW v \in Int
      PROVE  /\ [m EXCEPT !.B[cell] = v] \in Mem
             /\ [m EXCEPT !.B[cell] = v].B = [m.B EXCEPT ![cell] = v]
             /\ [m EXCEPT !.B[cell] = v].tmp = m.tmp
  BY <1>4 DEF Mem
<1>6. ASSUME NEW v, v = e, NEW b, b = [m.B EXCEPT ![cell] = v]
      PROVE  /\ Right(b, x, y)
             /\ \A r \in 0 .. N - 1, q \in 0 .. M - 1 : Right(m.B, r, q) => Right(b, r, q)
  <2>1. Right(b, x, y)
    BY <1>2, <1>3, <1>4, <1>6 DEF Right
  <2>2. ASSUME NEW r \in 0 .. N - 1, NEW q \in 0 .. M - 1, Right(m.B, r, q)
        PROVE  Right(b, r, q)
    <3>1. q * N + r \in 0 .. M * N - 1
      BY CellInB
    <3>2. CASE q * N + r = cell
      <4>1. r = x /\ q = y
        BY <1>1, <1>2, <3>2, OneElement
      <4> QED
        BY <2>1, <4>1
    <3>3. CASE q * N + r # cell
      BY <1>4, <1>6, <2>2, <3>1, <3>3 DEF Right
    <3> QED
      BY <3>2, <3>3
  <2> QED
    BY <2>1, <2>2
<1>7. CASE c.kind = "copy"
  <2>1. g = [m EXCEPT !.B[cell] = e]
    BY <1>2, <1>3, <1>7 DEF Perform
  <2>2. g \in Mem /\ g.B = [m.B EXCEPT ![cell] = e] /\ g.tmp = m.tmp
    BY <1>5, <2>1
  <2> HIDE DEF g
  <2>3. /\ Right(g.B, x, y)
        /\ \A r \in 0 .. N - 1, q \in 0 .. M - 1 : Right(m.B, r, q) => Right(g.B, r, q)
    BY <1>6, <2>2
  <2> QED
    BY <1>7, <2>2, <2>3 DEF Stepped, g
<1>8. CASE c.kind = "load"
  <2>1. g = [m EXCEPT !.tmp[c.reg] = e] /\ c.reg \in 1 .. 8
    BY <1>3, <1>8 DEF Perform, Sound
  <2>2. g \in Mem /\ g.B = m.B /\ g.tmp = [m.tmp EXCEPT ![c.reg] = e]
    <3>1. PICK reg \in 1 .. 8 : reg = c.reg
      BY <2>1
    <3>2. g = [m EXCEPT !.tmp[reg] = e]
      BY <2>1, <3>1
    <3> HIDE DEF g
    <3>3. [m EXCEPT !.tmp[reg] = e] \in Mem
      BY <1>4 DEF Mem
    <3>4. /\ [m EXCEPT !.tmp[reg] = e].B = m.B
          /\ [m EXCEPT !.tmp[reg] = e].tmp = [m.tmp EXCEPT ![reg] = e]
      BY <1>4
    <3> QED
      BY <3>1, <3>2, <3>3, <3>4
  <2> HIDE DEF g
  <2>3. g.tmp[c.reg] = e /\ \A z \in 1 .. 8 : z # c.reg => g.tmp[z] = m.tmp[z]
    BY <1>4, <2>1, <2>2
  <2> QED
    BY <1>3, <1>8, <2>2, <2>3 DEF Stepped, g
<1>9. CASE c.kind = "store"
  <2>1. PICK v \in Int : v = m.tmp[c.reg]
    BY <1>4, <1>9 DEF Sound
  <2>2. g = [m EXCEPT !.B[cell] = v]
    BY <1>2, <1>9, <2>1 DEF Perform
  <2>3. g \in Mem /\ g.B = [m.B EXCEPT ![cell] = v] /\ g.tmp = m.tmp
    BY <1>5, <2>2
  <2> HIDE DEF g
  <2>4. ASSUME v = e
        PROVE  /\ Right(g.B, x, y)
               /\ \A r \in 0 .. N - 1, q \in 0 .. M - 1 : Right(m.B, r, q) => Right(g.B, r, q)
    BY <1>6, <2>3, <2>4
  <2> QED
    BY <1>3, <1>9, <2>1, <2>3, <2>4 DEF Stepped, g
<1> QED
  BY <1>7, <1>8, <1>9 DEF Sound

\* The accesses of an iteration: what it stores was loaded before it.
SoundBody(m, body) ==
  /\ Len(body) \in Nat
  /\ \A n \in 1 .. Len(body) : Sound(body[n])
  /\ \A n \in 1 .. Len(body) :
       body[n].kind = "store" => m.tmp[body[n].reg] = Element(body[n].i, body[n].j)
  /\ \/ \A n \in 1 .. Len(body) : body[n].kind # "store"
     \/ \A n \in 1 .. Len(body) : body[n].kind # "load"

\* After l accesses what B held right it holds, what they store is right, and a
\* variable holds what one of them loaded, or what it held.
Performed(g, m, body, l) ==
  /\ g \in Mem
  /\ \A r \in 0 .. N - 1, q \in 0 .. M - 1 : Right(m.B, r, q) => Right(g.B, r, q)
  /\ \A n \in 1 .. l : body[n].kind # "load" => Right(g.B, body[n].i, body[n].j)
  /\ \A x \in 1 .. 8 :
       \/ \E n \in 1 .. l : /\ body[n].kind = "load" /\ body[n].reg = x
                            /\ g.tmp[x] = Element(body[n].i, body[n].j)
       \/ /\ g.tmp[x] = m.tmp[x]
          /\ \A n \in 1 .. l : body[n].kind = "load" => body[n].reg # x

\* One more access keeps what the ones before it achieved.
LEMMA OneMore ==
  ASSUME Sized, NEW m \in Mem, NEW body, SoundBody(m, body),
         NEW l \in 1 .. Len(body), NEW h, Performed(h, m, body, l - 1),
         NEW g, g = Perform(h, body[l])
  PROVE  Performed(g, m, body, l)
<1>1. PICK c : c = body[l]
  OBVIOUS
<1>2. Sound(c) /\ Len(body) \in Nat /\ l \in Nat
  BY <1>1 DEF SoundBody
<1>3. h \in Mem
  BY DEF Performed
<1>4. Stepped(g, h, c)
  BY <1>1, <1>2, <1>3, PerformSteps
<1>5. \A n \in 1 .. l : n = l \/ n \in 1 .. l - 1
  BY <1>2
<1>6. c.i \in 0 .. N - 1 /\ c.j \in 0 .. M - 1 /\ c.kind \in {"copy", "load", "store"}
  BY <1>2 DEF Sound
<1>7. c.kind = "store" => h.tmp[c.reg] = Element(c.i, c.j)
  <2>1. SUFFICES ASSUME c.kind = "store" PROVE h.tmp[c.reg] = Element(c.i, c.j)
    OBVIOUS
  <2>2. c.reg \in 1 .. 8 /\ m.tmp[c.reg] = Element(c.i, c.j)
    BY <1>1, <1>2, <2>1 DEF Sound, SoundBody
  <2>3. \A n \in 1 .. l - 1 : body[n].kind # "load"
    <3>1. \A n \in 1 .. l - 1 : n \in 1 .. Len(body)
      BY <1>2
    <3> QED
      BY <1>1, <2>1, <3>1 DEF SoundBody
  <2>4. h.tmp[c.reg] = m.tmp[c.reg]
    BY <2>2, <2>3 DEF Performed
  <2> QED
    BY <2>2, <2>4
<1>8. g \in Mem
  BY <1>4 DEF Stepped
<1>9. ASSUME NEW r \in 0 .. N - 1, NEW q \in 0 .. M - 1, Right(h.B, r, q) PROVE Right(g.B, r, q)
  BY <1>4, <1>7, <1>9 DEF Stepped
<1>10. ASSUME NEW r \in 0 .. N - 1, NEW q \in 0 .. M - 1, Right(m.B, r, q) PROVE Right(g.B, r, q)
  BY <1>9, <1>10 DEF Performed
<1>11. ASSUME NEW n \in 1 .. l, body[n].kind # "load"
       PROVE  Right(g.B, body[n].i, body[n].j)
  <2>1. CASE n = l
    BY <1>1, <1>4, <1>7, <1>11, <2>1 DEF Stepped
  <2>2. CASE n \in 1 .. l - 1
    <3>1. Right(h.B, body[n].i, body[n].j)
      BY <1>11, <2>2 DEF Performed
    <3>2. body[n].i \in 0 .. N - 1 /\ body[n].j \in 0 .. M - 1
      <4>1. n \in 1 .. Len(body)
        BY <1>2, <2>2
      <4> QED
        BY <4>1 DEF SoundBody, Sound
    <3> QED
      BY <1>9, <3>1, <3>2
  <2> QED
    BY <1>5, <2>1, <2>2
<1>12. ASSUME NEW x \in 1 .. 8
       PROVE  \/ \E n \in 1 .. l : /\ body[n].kind = "load" /\ body[n].reg = x
                                   /\ g.tmp[x] = Element(body[n].i, body[n].j)
              \/ /\ g.tmp[x] = m.tmp[x]
                 /\ \A n \in 1 .. l : body[n].kind = "load" => body[n].reg # x
  <2>1. CASE c.kind = "load" /\ c.reg = x
    <3>1. g.tmp[x] = Element(c.i, c.j)
      BY <1>4, <2>1 DEF Stepped
    <3>2. l \in 1 .. l
      BY <1>2
    <3> QED
      BY <1>1, <2>1, <3>1, <3>2
  <2>2. CASE ~ (c.kind = "load" /\ c.reg = x)
    <3>1. g.tmp[x] = h.tmp[x]
      <4>1. CASE c.kind = "load"
        BY <1>4, <2>2, <4>1 DEF Stepped
      <4>2. CASE c.kind # "load"
        BY <1>4, <4>2 DEF Stepped
      <4> QED
        BY <4>1, <4>2
    <3>2. CASE \E n \in 1 .. l - 1 : /\ body[n].kind = "load" /\ body[n].reg = x
                                     /\ h.tmp[x] = Element(body[n].i, body[n].j)
      <4>1. \A n \in 1 .. l - 1 : n \in 1 .. l
        BY <1>2
      <4> QED
        BY <3>1, <3>2, <4>1
    <3>3. CASE h.tmp[x] = m.tmp[x] /\ \A n \in 1 .. l - 1 : body[n].kind = "load" => body[n].reg # x
      BY <1>1, <1>5, <2>2, <3>1, <3>3
    <3> QED
      BY <3>2, <3>3 DEF Performed
  <2> QED
    BY <2>1, <2>2
<1> QED
  BY <1>8, <1>10, <1>11, <1>12 DEF Performed

\* An iteration performs its accesses one after the other.
LEMMA Executes ==
  ASSUME Sized, [B |-> B, tmp |-> tmp] \in Mem,
         NEW body, SoundBody([B |-> B, tmp |-> tmp], body), Execute(body)
  PROVE  \E g : /\ g.B = B' /\ g.tmp = tmp'
                /\ Performed(g, [B |-> B, tmp |-> tmp], body, Len(body))
<1> DEFINE l == Len(body)
           start == [B |-> B, tmp |-> tmp]
           Is(w) == w = [n \in 0 .. l |-> IF n = 0 THEN start ELSE Perform(w[n - 1], body[n])]
           G == [x \in Mem \X (1 .. l) |-> Perform(x[1], body[x[2]])]
<1>1. l \in Nat /\ start \in Mem /\ \A n \in 1 .. l : Sound(body[n])
  BY DEF SoundBody
<1>2. G \in [Mem \X (1 .. l) -> Mem]
  <2>1. ASSUME NEW m \in Mem, NEW n \in 1 .. l PROVE Perform(m, body[n]) \in Mem
    <3>1. Stepped(Perform(m, body[n]), m, body[n])
      BY <1>1, PerformSteps
    <3> QED
      BY <3>1 DEF Stepped
  <2> HIDE DEF l
  <2> QED
    BY <2>1
<1>3. \E w : Is(w)
  <2>1. PICK f : Iterates(f, l, Mem, start, G)
    <3> HIDE DEF G, l, start
    <3> QED
      BY <1>1, <1>2, Iterated
  <2>2. ASSUME NEW n \in 0 .. l
        PROVE  f[n] = IF n = 0 THEN start ELSE Perform(f[n - 1], body[n])
    <3>1. n # 0 => f[n - 1] \in Mem /\ n \in 1 .. l
      BY <1>1, <2>1 DEF Iterates
    <3>2. n # 0 => G[<<f[n - 1], n>>] = Perform(f[n - 1], body[n])
      BY <3>1
    <3> HIDE DEF G
    <3> QED
      BY <2>1, <3>1, <3>2 DEF Iterates
  <2>3. f = [n \in 0 .. l |-> f[n]]
    BY <2>1 DEF Iterates
  <2>4. Is(f)
    <3> HIDE DEF l, start
    <3> QED
      BY <2>2, <2>3
  <2> QED
    BY <2>4
<1> DEFINE after == CHOOSE w : Is(w)
<1>4. Is(after)
  BY <1>3
<1>5. B' = after[l].B /\ tmp' = after[l].tmp
  BY DEF Execute
<1> HIDE DEF after
<1>6. /\ after[0] = start
      /\ \A n \in 1 .. l : after[n] = Perform(after[n - 1], body[n])
  <2> HIDE DEF l, start
  <2>1. \A n \in 0 .. l : after[n] = IF n = 0 THEN start ELSE Perform(after[n - 1], body[n])
    BY <1>4, Zenon
  <2> HIDE DEF Is
  <2> QED
    BY <1>1, <2>1
<1> DEFINE K == {n \in 0 .. l : Performed(after[n], start, body, n)}
<1>7. ASSUME NEW n \in 0 .. l, \A k \in 0 .. l : k < n => k \in K
      PROVE  n \in K
  <2>1. CASE n = 0
    <3>1. Performed(start, start, body, 0)
      BY <1>1 DEF Performed
    <3> QED
      BY <1>6, <2>1, <3>1
  <2>2. CASE n # 0
    <3>1. n - 1 \in 0 .. l /\ n - 1 < n /\ n \in 1 .. l
      BY <1>1, <2>2
    <3>2. Performed(after[n - 1], start, body, n - 1)
      BY <1>7, <3>1
    <3>3. after[n] = Perform(after[n - 1], body[n])
      BY <1>6, <3>1
    <3>4. Performed(after[n], start, body, n)
      BY <1>1, <3>1, <3>2, <3>3, OneMore
    <3> QED
      BY <3>4
  <2> QED
    BY <2>1, <2>2
<1>8. l \in K
  <2> HIDE DEF K, l
  <2> QED
    BY <1>1, <1>7, AllNumbers
<1> QED
  BY <1>5, <1>8

\* Any access, and those of an iteration
Access == [kind : {"copy", "load", "store"}, i : Int, j : Int, reg : 0 .. 8]
Members(body) == {body[n] : n \in 1 .. Len(body)}
Made(body, accesses) == body \in Seq(Access) /\ Members(body) = accesses

\* A function on 1 to n is a sequence of n elements.
LEMMA SequenceOf ==
  ASSUME NEW S, NEW n \in Nat, NEW f \in [1 .. n -> S]
  PROVE  f \in Seq(S) /\ Len(f) = n
<1>1. f \in Seq(S)
  BY SeqDef
<1>2. DOMAIN f = 1 .. n /\ DOMAIN f = 1 .. Len(f) /\ Len(f) \in Nat
  BY <1>1, LenProperties
<1>3. Len(f) = n
  <2>1. PICK l \in Nat : l = Len(f)
    BY <1>2
  <2>2. \A x \in Nat : x \in 1 .. n <=> x \in 1 .. l
    BY <1>2, <2>1
  <2>3. n = 0 \/ n \in 1 .. l
    BY <2>2
  <2>4. l = 0 \/ l \in 1 .. n
    BY <2>2
  <2> QED
    BY <2>1, <2>2, <2>3, <2>4
<1> QED
  BY <1>1, <1>3

\* What a concatenation holds.
LEMMA ConcatMade ==
  ASSUME NEW s, NEW t, NEW A, NEW C, Made(s, A), Made(t, C)
  PROVE  Made(s \o t, A \cup C)
<1>1. s \in Seq(Access) /\ t \in Seq(Access)
  BY DEF Made
<1>2. Len(s) \in Nat /\ Len(t) \in Nat
  BY <1>1, LenProperties
<1>3. /\ s \o t \in Seq(Access) /\ Len(s \o t) = Len(s) + Len(t)
      /\ \A n \in 1 .. Len(s) + Len(t) :
           (s \o t)[n] = IF n <= Len(s) THEN s[n] ELSE t[n - Len(s)]
  BY <1>1, ConcatProperties, Zenon
<1>4. ASSUME NEW c \in Members(s \o t) PROVE c \in A \cup C
  <2>1. PICK n \in 1 .. Len(s) + Len(t) : c = (s \o t)[n]
    BY <1>3 DEF Members
  <2>2. CASE n <= Len(s)
    BY <1>2, <1>3, <2>1, <2>2 DEF Members, Made
  <2>3. CASE ~ (n <= Len(s))
    <3>1. n - Len(s) \in 1 .. Len(t)
      BY <1>2, <2>3
    <3> QED
      BY <1>3, <2>1, <2>3, <3>1 DEF Members, Made
  <2> QED
    BY <2>2, <2>3
<1>5. ASSUME NEW c \in A PROVE c \in Members(s \o t)
  <2>1. PICK n \in 1 .. Len(s) : c = s[n]
    BY <1>5 DEF Members, Made
  <2>2. n \in 1 .. Len(s) + Len(t) /\ n <= Len(s)
    BY <1>2
  <2> QED
    BY <1>3, <2>1, <2>2 DEF Members
<1>6. ASSUME NEW c \in C PROVE c \in Members(s \o t)
  <2>1. PICK n \in 1 .. Len(t) : c = t[n]
    BY <1>6 DEF Members, Made
  <2>2. n + Len(s) \in 1 .. Len(s) + Len(t) /\ ~ (n + Len(s) <= Len(s)) /\ n + Len(s) - Len(s) = n
    BY <1>2
  <2>3. (s \o t)[n + Len(s)] = c
    BY <1>3, <2>1, <2>2
  <2> QED
    BY <1>3, <2>2, <2>3 DEF Members
<1>7. Members(s \o t) = A \cup C
  BY <1>4, <1>5, <1>6
<1> QED
  BY <1>3, <1>7 DEF Made

\* What a part of a sequence holds.
LEMMA PartMade ==
  ASSUME NEW s \in Seq(Access), NEW m \in Nat \ {0}, NEW n \in Nat, n <= Len(s)
  PROVE  Made(SubSeq(s, m, n), {s[x] : x \in m .. n})
<1>1. Len(s) \in Nat /\ \A x \in 1 .. Len(s) : s[x] \in Access
  BY LenProperties
<1>2. \A x \in m .. n : s[x] \in Access
  BY <1>1
<1>3. /\ SubSeq(s, m, n) \in Seq(Access)
      /\ Len(SubSeq(s, m, n)) = IF m <= n THEN n - m + 1 ELSE 0
      /\ \A x \in 1 .. n - m + 1 : SubSeq(s, m, n)[x] = s[m + x - 1]
  <2>1. m \in Int /\ n \in Int
    OBVIOUS
  <2>2. \A x \in m .. n : s[x] \in Access
    BY <1>2
  <2> QED
    BY <2>1, <2>2, SubSeqProperties
<1>4. PICK p : p = SubSeq(s, m, n)
  OBVIOUS
<1>5. \A x \in 1 .. Len(p) : x \in 1 .. n - m + 1 /\ m + x - 1 \in m .. n
  BY <1>3, <1>4
<1>6. \A x \in m .. n : x - m + 1 \in 1 .. Len(p) /\ x - m + 1 \in 1 .. n - m + 1 /\ m + (x - m + 1) - 1 = x
  BY <1>3, <1>4
<1>7. ASSUME NEW c \in Members(p) PROVE c \in {s[x] : x \in m .. n}
  BY <1>3, <1>4, <1>5 DEF Members
<1>8. ASSUME NEW x \in m .. n PROVE s[x] \in Members(p)
  <2>1. p[x - m + 1] = s[x]
    BY <1>3, <1>4, <1>6
  <2> QED
    BY <1>6, <2>1 DEF Members
<1> QED
  BY <1>3, <1>4, <1>7, <1>8 DEF Made

\* What an access alone holds.
LEMMA OneMade ==
  ASSUME NEW c \in Access
  PROVE  Made(<<c>>, {c})
<1>1. <<c>> \in Seq(Access) /\ Len(<<c>>) = 1
  OBVIOUS
<1>2. 1 .. 1 = {1}
  OBVIOUS
<1>3. Members(<<c>>) = {c}
  BY <1>1, <1>2 DEF Members
<1> QED
  BY <1>1, <1>3 DEF Made

\* A row of copies
Row(r, q0, q1) == {Copy(r, q) : q \in q0 .. q1 - 1}

\* What CopyRow holds.
LEMMA CopyRowMade ==
  ASSUME NEW r \in Int, NEW q0 \in Int, NEW q1 \in Int, q0 <= q1
  PROVE  /\ Made(CopyRow(r, q0, q1), Row(r, q0, q1))
         /\ Len(CopyRow(r, q0, q1)) = q1 - q0
         /\ \A n \in 1 .. q1 - q0 : CopyRow(r, q0, q1)[n] = Copy(r, q0 + n - 1)
<1> DEFINE body == CopyRow(r, q0, q1)
<1>1. \A q \in Int : Copy(r, q) \in Access
  BY DEF Copy, Access
<1>2. body \in [1 .. q1 - q0 -> Access] /\ \A n \in 1 .. q1 - q0 : body[n] = Copy(r, q0 + n - 1)
  BY <1>1 DEF CopyRow
<1>3. body \in Seq(Access) /\ Len(body) = q1 - q0
  BY <1>2, SequenceOf
<1>4. \A n \in 1 .. q1 - q0 : q0 + n - 1 \in q0 .. q1 - 1
  OBVIOUS
<1>5. \A q \in q0 .. q1 - 1 : q - q0 + 1 \in 1 .. q1 - q0 /\ q0 + (q - q0 + 1) - 1 = q
  OBVIOUS
<1> HIDE DEF body
<1>6. ASSUME NEW q \in q0 .. q1 - 1 PROVE Copy(r, q) \in Members(body)
  <2>1. body[q - q0 + 1] = Copy(r, q)
    BY <1>2, <1>5
  <2> QED
    BY <1>3, <1>5, <2>1 DEF Members
<1>7. ASSUME NEW c \in Members(body) PROVE c \in Row(r, q0, q1)
  BY <1>2, <1>3, <1>4 DEF Members, Row
<1>8. Members(body) = Row(r, q0, q1)
  BY <1>6, <1>7 DEF Row
<1> QED
  BY <1>2, <1>3, <1>8 DEF Made, body

\* The diagonal last: the copies of the row all the same.
LEMMA DiagonalLastMade ==
  ASSUME NEW ii \in Int, NEW jj \in Int, NEW size \in Nat, NEW r \in Int,
         r - ii \in 0 .. size - 1
  PROVE  /\ Made(DiagonalLast(ii, jj, r, size), Row(r, jj, jj + size))
         /\ DiagonalLast(ii, jj, r, size) # <<>>
<1> DEFINE row == CopyRow(r, jj, jj + size)
           d == r - ii + 1
           lastone == Copy(r, jj + r - ii)
<1>1. d \in 1 .. size
  OBVIOUS
<1>2. Made(row, Row(r, jj, jj + size)) /\ Len(row) = size /\ row \in Seq(Access)
  <2>1. PICK q1 \in Int : q1 = jj + size
    OBVIOUS
  <2>2. jj <= q1 /\ q1 - jj = size
    BY <2>1
  <2>3. Made(CopyRow(r, jj, q1), Row(r, jj, q1)) /\ Len(CopyRow(r, jj, q1)) = q1 - jj
    BY <2>2, CopyRowMade
  <2> QED
    BY <2>1, <2>2, <2>3 DEF Made
<1>3. row[d] = lastone
  <2>1. PICK q1 \in Int : q1 = jj + size
    OBVIOUS
  <2>2. jj <= q1 /\ d \in 1 .. q1 - jj /\ jj + d - 1 = jj + r - ii
    BY <1>1, <2>1
  <2>3. \A n \in 1 .. q1 - jj : CopyRow(r, jj, q1)[n] = Copy(r, jj + n - 1)
    BY <2>2, CopyRowMade, ZenonT(60)
  <2> QED
    BY <2>1, <2>2, <2>3
<1>4. lastone \in Access
  <2>1. jj + r - ii \in Int
    OBVIOUS
  <2> QED
    BY <2>1 DEF Copy, Access
<1> DEFINE front == {row[x] : x \in 1 .. d - 1}
           back == {row[x] : x \in d + 1 .. size}
           rest == RemoveAt(row, d)
<1>5. Made(rest, front \cup back)
  <2> HIDE DEF row
  <2>1. Made(SubSeq(row, 1, d - 1), front)
    <3>1. 1 \in Nat \ {0} /\ d - 1 \in Nat /\ d - 1 <= Len(row)
      BY <1>1, <1>2
    <3> HIDE DEF d
    <3> QED
      BY <1>2, <3>1, PartMade
  <2>2. Made(SubSeq(row, d + 1, Len(row)), back)
    <3>1. d + 1 \in Nat \ {0} /\ Len(row) \in Nat /\ Len(row) <= Len(row) /\ Len(row) = size
      BY <1>1, <1>2
    <3> HIDE DEF d
    <3> QED
      BY <1>2, <3>1, PartMade
  <2> HIDE DEF front, back, d
  <2> QED
    BY <2>1, <2>2, ConcatMade DEF RemoveAt
<1>6. front \cup back \cup {lastone} = Row(r, jj, jj + size)
  <2>1. \A x \in 1 .. size : x \in 1 .. d - 1 \/ x = d \/ x \in d + 1 .. size
    BY <1>1
  <2>2. \A x \in 1 .. d - 1 : x \in 1 .. size
    BY <1>1
  <2>3. \A x \in d + 1 .. size : x \in 1 .. size
    BY <1>1
  <2>4. Row(r, jj, jj + size) = {row[x] : x \in 1 .. size}
    BY <1>2 DEF Made, Members
  <2> HIDE DEF row, d, lastone
  <2>5. ASSUME NEW c \in front \cup back \cup {lastone} PROVE c \in {row[x] : x \in 1 .. size}
    BY <1>1, <1>3, <2>2, <2>3
  <2>6. ASSUME NEW x \in 1 .. size PROVE row[x] \in front \cup back \cup {lastone}
    BY <1>3, <2>1
  <2> QED
    BY <2>4, <2>5, <2>6
<1>7. DiagonalLast(ii, jj, r, size) = Append(rest, lastone)
  BY DEF DiagonalLast
<1> HIDE DEF rest, lastone, front, back
<1>8. rest \in Seq(Access)
  BY <1>5 DEF Made
<1>9. Append(rest, lastone) = rest \o <<lastone>> /\ Append(rest, lastone) # <<>>
  BY <1>4, <1>8, AppendIsConcat, AppendProperties
<1>10. Made(rest \o <<lastone>>, front \cup back \cup {lastone})
  BY <1>4, <1>5, OneMade, ConcatMade
<1> QED
  BY <1>6, <1>7, <1>9, <1>10

\* Accesses put before the last one of an iteration.
LEMMA InsertedMade ==
  ASSUME NEW s, NEW t, NEW A, NEW C, Made(s, A), Made(t, C), s # <<>>
  PROVE  Made(SubSeq(s, 1, Len(s) - 1) \o t \o <<Last(s)>>, A \cup C)
<1>1. s \in Seq(Access) /\ Len(s) \in Nat \ {0}
  BY EmptySeq DEF Made
<1>2. PICK l \in Nat \ {0} : l = Len(s)
  BY <1>1
<1> DEFINE front == {s[x] : x \in 1 .. l - 1}
<1>3. Made(SubSeq(s, 1, l - 1), front)
  <2>1. 1 \in Nat \ {0} /\ l - 1 \in Nat /\ l - 1 <= Len(s)
    BY <1>2
  <2> QED
    BY <1>1, <2>1, PartMade
<1>4. Last(s) \in Access /\ Last(s) = s[l]
  BY <1>1, <1>2, ElementOfSeq DEF Last
<1>5. front \cup {s[l]} = A
  <2>1. A = {s[x] : x \in 1 .. l}
    BY <1>2 DEF Made, Members
  <2>2. \A x \in 1 .. l : x \in 1 .. l - 1 \/ x = l
    OBVIOUS
  <2>3. \A x \in 1 .. l - 1 : x \in 1 .. l
    OBVIOUS
  <2>4. l \in 1 .. l
    OBVIOUS
  <2> QED
    BY <2>1, <2>2, <2>3, <2>4
<1>6. Made(<<Last(s)>>, {Last(s)})
  BY <1>4, OneMade
<1> HIDE DEF front
<1>7. Made(SubSeq(s, 1, l - 1) \o t \o <<Last(s)>>, front \cup C \cup {s[l]})
  BY <1>3, <1>4, <1>6, ConcatMade
<1>8. front \cup C \cup {s[l]} = A \cup C
  BY <1>5
<1> QED
  BY <1>2, <1>7, <1>8

\* The elements that an iteration copies, or stores from what was kept
Covered(c, a, r, q) ==
  \/ c = "trans" /\ r = a.k /\ q = a.jj
  \/ c = "trans_otherwise" /\ r = a.k /\ q \in a.jj .. a.jj + Columns(M, a.jj) - 1
  \/ c = "trans_32" /\ r = a.ii + a.k /\ q \in a.jj .. a.jj + 7
  \/ /\ c = "trans_64" /\ r \in a.ii .. a.ii + 7 /\ q \in a.jj .. a.jj + 7
     /\ Turn(r - a.ii, q - a.jj) = a.k

\* The next iteration leaves out nothing of what it passes over
Advanced(c, a, new) ==
  /\ Positioned(c, new)
  /\ \A r \in 0 .. N - 1, q \in 0 .. M - 1 :
       Done(c, new, r, q) => Done(c, a, r, q) \/ Covered(c, a, r, q)

\* Loop counters by their fields.
LEMMA CountersField ==
  ASSUME NEW a \in Counters
  PROVE  a.ii \in Nat /\ a.jj \in Nat /\ a.k \in Nat /\ a = [ii |-> a.ii, jj |-> a.jj, k |-> a.k]
BY DEF Counters

\* Counters are not Finish.
LEMMA NotFinished ==
  ASSUME NEW x \in Nat, NEW y \in Nat, NEW z \in Nat
  PROVE  [ii |-> x, jj |-> y, k |-> z] # Finish /\ [ii |-> x, jj |-> y, k |-> z] \in Counters
BY DEF Finish, Counters

\* The loops of trans leave no element out.
LEMMA ElementLoopsAdvance ==
  ASSUME Sized, NEW a, a # Finish, Positioned("trans", a)
  PROVE  Advanced("trans", a, ElementLoops(M, N, a))
<1> DEFINE new == ElementLoops(M, N, a)
<1>1. M \in Nat /\ N \in Nat /\ M > 0 /\ N > 0
  BY DEF Sized
<1>2. a \in Counters /\ a.k < N /\ a.jj < M
  BY DEF Positioned
<1>3. a.ii \in Nat /\ a.jj \in Nat /\ a.k \in Nat /\ a = [ii |-> a.ii, jj |-> a.jj, k |-> a.k]
  BY <1>2, CountersField
<1>4. CASE a.jj + 1 < M
  <2>1. new = [ii |-> a.ii, jj |-> a.jj + 1, k |-> a.k]
    BY <1>3, <1>4 DEF ElementLoops
  <2>2. new # Finish /\ new \in Counters /\ new.jj = a.jj + 1 /\ new.k = a.k
    BY <1>3, <2>1, NotFinished
  <2> HIDE DEF new
  <2>3. Positioned("trans", new)
    BY <1>2, <1>4, <2>2 DEF Positioned
  <2>4. ASSUME NEW r \in 0 .. N - 1, NEW q \in 0 .. M - 1, Done("trans", new, r, q)
        PROVE  Done("trans", a, r, q) \/ Covered("trans", a, r, q)
    <3>1. DoneRows(new, r, q)
      BY <2>2, <2>4 DEF Done
    <3>2. r < a.k \/ (r = a.k /\ q < a.jj + 1)
      BY <2>2, <3>1 DEF DoneRows
    <3>3. DoneRows(a, r, q) \/ (r = a.k /\ q = a.jj)
      BY <1>1, <1>3, <3>2 DEF DoneRows
    <3> QED
      BY <3>3 DEF Done, Covered
  <2> QED
    BY <2>3, <2>4 DEF Advanced, new
<1>5. CASE ~ (a.jj + 1 < M) /\ a.k + 1 < N
  <2>1. new = [ii |-> a.ii, jj |-> 0, k |-> a.k + 1]
    <3>1. a.jj + 1 = M
      BY <1>1, <1>2, <1>3, <1>5
    <3> QED
      BY <1>3, <1>5, <3>1 DEF ElementLoops
  <2>2. new # Finish /\ new \in Counters /\ new.jj = 0 /\ new.k = a.k + 1
    BY <1>3, <2>1, NotFinished
  <2> HIDE DEF new
  <2>3. Positioned("trans", new)
    BY <1>1, <1>2, <1>5, <2>2 DEF Positioned
  <2>4. ASSUME NEW r \in 0 .. N - 1, NEW q \in 0 .. M - 1, Done("trans", new, r, q)
        PROVE  Done("trans", a, r, q) \/ Covered("trans", a, r, q)
    <3>1. DoneRows(new, r, q)
      BY <2>2, <2>4 DEF Done
    <3>2. r < a.k + 1 \/ (r = a.k + 1 /\ q < 0)
      BY <2>2, <3>1 DEF DoneRows
    <3>3. DoneRows(a, r, q) \/ (r = a.k /\ q = a.jj)
      BY <1>1, <1>2, <1>3, <1>5, <3>2 DEF DoneRows
    <3> QED
      BY <3>3 DEF Done, Covered
  <2> QED
    BY <2>3, <2>4 DEF Advanced, new
<1>6. CASE ~ (a.jj + 1 < M) /\ ~ (a.k + 1 < N)
  <2>1. new = Finish
    BY <1>6 DEF ElementLoops
  <2>2. ASSUME NEW r \in 0 .. N - 1, NEW q \in 0 .. M - 1
        PROVE  Done("trans", a, r, q) \/ Covered("trans", a, r, q)
    <3>1. DoneRows(a, r, q) \/ (r = a.k /\ q = a.jj)
      BY <1>1, <1>2, <1>3, <1>6 DEF DoneRows
    <3> QED
      BY <3>1 DEF Done, Covered
  <2> QED
    BY <2>1, <2>2 DEF Advanced, Positioned
<1> QED
  BY <1>4, <1>5, <1>6

\* The loops of trans_otherwise leave no element out.
LEMMA ColumnLoopsAdvance ==
  ASSUME Sized, NEW a, a # Finish, Positioned("trans_otherwise", a)
  PROVE  Advanced("trans_otherwise", a, ColumnLoops(M, N, a))
<1> DEFINE new == ColumnLoops(M, N, a)
           c == "trans_otherwise"
<1>1. M \in Nat /\ N \in Nat /\ M > 0 /\ N > 0
  BY DEF Sized
<1>2. a \in Counters /\ a.k < N /\ a.jj % 8 = 0 /\ a.jj <= 8 * (M \div 8)
  BY DEF Positioned
<1>3. a.ii \in Nat /\ a.jj \in Nat /\ a.k \in Nat /\ a = [ii |-> a.ii, jj |-> a.jj, k |-> a.k]
  BY <1>2, CountersField
<1>4. PICK whole \in Nat : whole = 8 * (M \div 8) /\ whole <= M
  BY <1>1
<1>5. \A y : Columns(M, y) = IF y < whole THEN 8 ELSE M - y
  BY <1>4 DEF Columns, BSIZE
<1>6. CASE a.k + 1 < N
  <2>1. new = [ii |-> a.ii, jj |-> a.jj, k |-> a.k + 1]
    BY <1>3, <1>6 DEF ColumnLoops
  <2>2. new # Finish /\ new \in Counters /\ new.jj = a.jj /\ new.k = a.k + 1
    BY <1>3, <2>1, NotFinished
  <2> HIDE DEF new
  <2>3. Positioned(c, new)
    BY <1>2, <1>6, <2>2 DEF Positioned
  <2>4. ASSUME NEW r \in 0 .. N - 1, NEW q \in 0 .. M - 1, Done(c, new, r, q)
        PROVE  Done(c, a, r, q) \/ Covered(c, a, r, q)
    <3>1. PICK w : w = Columns(M, a.jj)
      OBVIOUS
    <3>2. DoneColumns(new, r, q)
      BY <2>2, <2>4 DEF Done
    <3>3. q < a.jj \/ (q < a.jj + w /\ r < a.k + 1)
      BY <2>2, <3>1, <3>2 DEF DoneColumns
    <3>4. w \in Int
      BY <1>1, <1>3, <1>5, <3>1
    <3>5. (q < a.jj \/ (q < a.jj + w /\ r < a.k)) \/ (r = a.k /\ q \in a.jj .. a.jj + w - 1)
      BY <1>1, <1>3, <3>3, <3>4
    <3> QED
      BY <3>1, <3>5 DEF Done, Covered, DoneColumns
  <2> QED
    BY <2>3, <2>4 DEF Advanced, new
<1>7. CASE a.k + 1 = N
  <2>1. CASE a.jj < whole
    <3>1. new = [ii |-> a.ii, jj |-> a.jj + 8, k |-> 0]
      <4>1. ~ (a.k + 1 < N)
        BY <1>1, <1>7
      <4> QED
        BY <1>3, <1>4, <1>7, <2>1, <4>1 DEF ColumnLoops, BSIZE
    <3>2. new # Finish /\ new \in Counters /\ new.jj = a.jj + 8 /\ new.k = 0
      BY <1>3, <3>1, NotFinished
    <3> HIDE DEF new
    <3>3. (a.jj + 8) % 8 = 0 /\ a.jj + 8 <= whole
      BY <1>1, <1>2, <1>3, <1>4, <2>1
    <3>4. Positioned(c, new)
      BY <1>1, <1>4, <3>2, <3>3 DEF Positioned
    <3>5. ASSUME NEW r \in 0 .. N - 1, NEW q \in 0 .. M - 1, Done(c, new, r, q)
          PROVE  Done(c, a, r, q) \/ Covered(c, a, r, q)
      <4>1. DoneColumns(new, r, q)
        BY <3>2, <3>5 DEF Done
      <4>2. q < a.jj + 8
        <5>1. ~ (r < 0)
          BY <1>1
        <5> QED
          BY <3>2, <4>1, <5>1 DEF DoneColumns
      <4>3. Columns(M, a.jj) = 8
        BY <1>5, <2>1
      <4>4. (q < a.jj \/ (q < a.jj + 8 /\ r < a.k)) \/ (r = a.k /\ q \in a.jj .. a.jj + 8 - 1)
        BY <1>1, <1>3, <1>7, <4>2
      <4> QED
        BY <4>3, <4>4 DEF Done, Covered, DoneColumns
    <3> QED
      BY <3>4, <3>5 DEF Advanced, new
  <2>2. CASE ~ (a.jj < whole)
    <3>1. new = Finish
      <4>1. ~ (a.k + 1 < N)
        BY <1>1, <1>7
      <4> QED
        BY <1>3, <1>4, <1>7, <2>2, <4>1 DEF ColumnLoops, BSIZE
    <3>2. ASSUME NEW r \in 0 .. N - 1, NEW q \in 0 .. M - 1
          PROVE  Done(c, a, r, q) \/ Covered(c, a, r, q)
      <4>1. Columns(M, a.jj) = M - a.jj /\ a.jj = whole
        BY <1>2, <1>3, <1>4, <1>5, <2>2
      <4>2. PICK w \in Int : w = M - a.jj
        BY <1>1, <1>3
      <4>3. (q < a.jj \/ (q < a.jj + w /\ r < a.k)) \/ (r = a.k /\ q \in a.jj .. a.jj + w - 1)
        BY <1>1, <1>3, <1>7, <4>2
      <4> QED
        BY <4>1, <4>2, <4>3 DEF Done, Covered, DoneColumns
    <3> QED
      BY <3>1, <3>2 DEF Advanced, Positioned
  <2> QED
    BY <2>1, <2>2
<1> QED
  BY <1>1, <1>2, <1>3, <1>6, <1>7

\* The iteration of a block that completes an element, x rows and y columns
\* from its corner
BlockTurn(c, x, y) == IF c = "trans_64" THEN Turn(x, y) ELSE x

\* Every element of a block has an iteration.
LEMMA BlockTurns ==
  ASSUME NEW c \in {"trans_32", "trans_64"}, NEW x \in Int, NEW y \in Int, x >= 0
  PROVE  /\ BlockTurn(c, x, y) \in Nat
         /\ x <= 7 => BlockTurn(c, x, y) < (IF c = "trans_32" THEN 8 ELSE 15)
BY DEF BlockTurn, Turn

\* The loops of trans_32 and trans_64 leave no element out.
LEMMA BlockLoopsAdvance ==
  ASSUME Sized, NEW c \in {"trans_32", "trans_64"}, NEW a, a # Finish, Positioned(c, a),
         NEW side, side = IF c = "trans_32" THEN 32 ELSE 64
  PROVE  Advanced(c, a, BlockLoops(side, a))
<1> DEFINE new == BlockLoops(side, a)
<1>1. M = side /\ N = side /\ side \in {32, 64}
  BY DEF Positioned
<1>2. PICK last \in {15, 8} : last = Rows(side) /\ last = IF c = "trans_32" THEN 8 ELSE 15
  BY DEF Rows
<1>3. a \in Counters /\ a.k < last
  BY <1>2 DEF Positioned
<1>4. a.ii \in Nat /\ a.jj \in Nat /\ a.k \in Nat /\ a = [ii |-> a.ii, jj |-> a.jj, k |-> a.k]
  BY <1>3, CountersField
<1>5. /\ \E n \in Nat : a.ii = 8 * n /\ a.ii + 8 <= side
      /\ \E n \in Nat : a.jj = 8 * n /\ a.jj + 8 <= side
  <2>1. CASE c = "trans_32"
    <3>1. PICK n \in 0 .. 3, m \in 0 .. 3 : a.ii = 8 * n /\ a.jj = 8 * m
      BY <2>1 DEF Positioned
    <3> QED
      BY <2>1, <3>1
  <2>2. CASE c = "trans_64"
    <3>1. PICK n \in 0 .. 7, m \in 0 .. 7 : a.ii = 8 * n /\ a.jj = 8 * m
      BY <2>2 DEF Positioned
    <3> QED
      BY <2>2, <3>1
  <2> QED
    BY <2>1, <2>2
<1>6. ASSUME NEW r \in Int, NEW q \in Int
      PROVE  Done(c, a, r, q) <=> DoneBlocks(a, r, q, BlockTurn(c, r - a.ii, q - a.jj))
  BY DEF Done, BlockTurn
<1>7. ASSUME NEW r \in Int, NEW q \in Int, r \in a.ii .. a.ii + 7, q \in a.jj .. a.jj + 7,
             BlockTurn(c, r - a.ii, q - a.jj) = a.k
      PROVE  Covered(c, a, r, q)
  BY <1>4, <1>7 DEF Covered, BlockTurn
<1>8. ASSUME NEW p \in Counters, p.k < last,
             \E n \in Nat : p.ii = 8 * n /\ p.ii + 8 <= side,
             \E n \in Nat : p.jj = 8 * n /\ p.jj + 8 <= side
      PROVE  Positioned(c, p)
  <2>1. PICK n \in Nat : p.ii = 8 * n /\ p.ii + 8 <= side
    BY <1>8
  <2>2. PICK m \in Nat : p.jj = 8 * m /\ p.jj + 8 <= side
    BY <1>8
  <2>3. CASE c = "trans_32"
    <3>1. n \in 0 .. 3 /\ m \in 0 .. 3
      BY <2>1, <2>2, <2>3
    <3> QED
      BY <1>1, <1>2, <1>8, <2>1, <2>2, <2>3, <3>1 DEF Positioned
  <2>4. CASE c = "trans_64"
    <3>1. n \in 0 .. 7 /\ m \in 0 .. 7
      BY <2>1, <2>2, <2>4
    <3> QED
      BY <1>1, <1>2, <1>8, <2>1, <2>2, <2>4, <3>1 DEF Positioned
  <2> QED
    BY <2>3, <2>4
<1>9. ASSUME NEW r \in 0 .. N - 1, NEW q \in 0 .. M - 1
      PROVE  /\ r \in Int /\ q \in Int /\ 0 <= r /\ r < side /\ 0 <= q /\ q < side
             /\ r >= a.ii => /\ BlockTurn(c, r - a.ii, q - a.jj) \in Nat
                             /\ r < a.ii + 8 => BlockTurn(c, r - a.ii, q - a.jj) < last
  <2>1. r \in Int /\ q \in Int /\ 0 <= r /\ r < side /\ 0 <= q /\ q < side
    BY <1>1
  <2>2. ASSUME r >= a.ii
        PROVE  /\ BlockTurn(c, r - a.ii, q - a.jj) \in Nat
               /\ r < a.ii + 8 => BlockTurn(c, r - a.ii, q - a.jj) < last
    <3>1. PICK x \in Int, y \in Int : x = r - a.ii /\ y = q - a.jj
      BY <1>4, <2>1
    <3>2. x >= 0 /\ (r < a.ii + 8 => x <= 7)
      BY <1>4, <2>1, <2>2, <3>1
    <3>3. BlockTurn(c, x, y) \in Nat /\ (x <= 7 => BlockTurn(c, x, y) < last)
      BY <1>2, <3>2, BlockTurns
    <3> QED
      BY <3>1, <3>2, <3>3
  <2> QED
    BY <2>1, <2>2
\* The rows of the block are done up to its last element when it is left
<1>10. ASSUME NEW r \in 0 .. N - 1, NEW q \in 0 .. M - 1, a.k + 1 = last,
              (r < a.ii + 8 /\ q < a.jj + 8) \/ r < a.ii
       PROVE  Done(c, a, r, q) \/ Covered(c, a, r, q)
  <2>1. PICK turn : turn = BlockTurn(c, r - a.ii, q - a.jj)
    OBVIOUS
  <2>2. r < a.ii \/ q < a.jj \/ (r \in a.ii .. a.ii + 7 /\ q \in a.jj .. a.jj + 7)
    BY <1>4, <1>9, <1>10
  <2>3. CASE r < a.ii \/ (q < a.jj /\ r < a.ii + 8)
    <3>1. DoneBlocks(a, r, q, turn)
      BY <2>3 DEF DoneBlocks
    <3> QED
      BY <1>6, <1>9, <2>1, <3>1
  <2>4. CASE r \in a.ii .. a.ii + 7 /\ q \in a.jj .. a.jj + 7
    <3>1. turn \in Nat /\ turn < last
      BY <1>4, <1>9, <2>1, <2>4
    <3>2. turn < a.k \/ turn = a.k
      BY <1>4, <1>10, <3>1
    <3>3. CASE turn < a.k
      <4>1. DoneBlocks(a, r, q, turn)
        BY <1>4, <2>4, <3>3 DEF DoneBlocks
      <4> QED
        BY <1>6, <1>9, <2>1, <4>1
    <3>4. CASE turn = a.k
      BY <1>7, <1>9, <2>1, <2>4, <3>4
    <3> QED
      BY <3>2, <3>3, <3>4
  <2> QED
    BY <1>4, <1>9, <1>10, <2>2, <2>3, <2>4
<1>11. ASSUME NEW p \in Counters, NEW r \in Int, NEW q \in Int
       PROVE  Done(c, p, r, q) <=> p = Finish \/ DoneBlocks(p, r, q, BlockTurn(c, r - p.ii, q - p.jj))
  BY DEF Done, BlockTurn
<1>12. CASE a.k + 1 < last
  <2>1. new = [ii |-> a.ii, jj |-> a.jj, k |-> a.k + 1]
    BY <1>2, <1>4, <1>12 DEF BlockLoops
  <2>2. new # Finish /\ new \in Counters /\ new.ii = a.ii /\ new.jj = a.jj /\ new.k = a.k + 1
    BY <1>4, <2>1, NotFinished
  <2> HIDE DEF new
  <2>3. Positioned(c, new)
    BY <1>5, <1>8, <1>12, <2>2
  <2>4. ASSUME NEW r \in 0 .. N - 1, NEW q \in 0 .. M - 1, Done(c, new, r, q)
        PROVE  Done(c, a, r, q) \/ Covered(c, a, r, q)
    <3>1. PICK turn : turn = BlockTurn(c, r - a.ii, q - a.jj)
      OBVIOUS
    <3>2. DoneBlocks(new, r, q, turn)
      BY <1>9, <1>11, <2>2, <2>4, <3>1
    <3>3. r < a.ii \/ (r < a.ii + 8 /\ (q < a.jj \/ (q < a.jj + 8 /\ turn < a.k + 1)))
      BY <2>2, <3>2 DEF DoneBlocks
    <3>4. r >= a.ii => turn \in Nat
      BY <1>9, <3>1
    <3>5. \/ r < a.ii \/ (r < a.ii + 8 /\ (q < a.jj \/ (q < a.jj + 8 /\ turn < a.k)))
          \/ r \in a.ii .. a.ii + 7 /\ q \in a.jj .. a.jj + 7 /\ turn = a.k
      BY <1>4, <1>9, <3>3, <3>4
    <3> QED
      BY <1>6, <1>7, <1>9, <3>1, <3>5 DEF DoneBlocks
  <2> QED
    BY <2>3, <2>4 DEF Advanced, new
<1>13. CASE a.k + 1 = last /\ a.jj + 8 < side
  <2>1. new = [ii |-> a.ii, jj |-> a.jj + 8, k |-> 0]
    <3>1. ~ (a.k + 1 < last)
      BY <1>4, <1>13
    <3>2. new = [a EXCEPT !.k = 0, !.jj = @ + 8]
      <4>1. PICK up \in Int, right \in Int : up = a.k + 1 /\ right = a.jj + 8
        BY <1>4
      <4>2. right < side /\ up = Rows(side) /\ ~ (up < Rows(side)) /\ ~ (right >= side)
        BY <1>1, <1>2, <1>13, <3>1, <4>1
      <4> QED
        BY <4>1, <4>2 DEF BlockLoops, BSIZE
    <3> HIDE DEF new
    <3> QED
      BY <1>4, <3>2
  <2>2. new # Finish /\ new \in Counters /\ new.ii = a.ii /\ new.jj = a.jj + 8 /\ new.k = 0
    BY <1>4, <2>1, NotFinished
  <2> HIDE DEF new
  <2>3. Positioned(c, new)
    <3>1. \E n \in Nat : new.jj = 8 * n /\ new.jj + 8 <= side
      <4>1. PICK n \in Nat : a.jj = 8 * n /\ a.jj + 8 <= side
        BY <1>5
      <4>2. n + 1 \in Nat /\ a.jj + 8 = 8 * (n + 1) /\ a.jj + 8 + 8 <= side
        BY <1>1, <1>13, <4>1
      <4> QED
        BY <2>2, <4>2
    <3> QED
      BY <1>5, <1>8, <2>2, <3>1
  <2>4. ASSUME NEW r \in 0 .. N - 1, NEW q \in 0 .. M - 1, Done(c, new, r, q)
        PROVE  Done(c, a, r, q) \/ Covered(c, a, r, q)
    <3>1. PICK turn : turn = BlockTurn(c, r - new.ii, q - new.jj)
      OBVIOUS
    <3>2. DoneBlocks(new, r, q, turn)
      BY <1>9, <1>11, <2>2, <2>4, <3>1
    <3>3. r < a.ii \/ (r < a.ii + 8 /\ (q < a.jj + 8 \/ (q < a.jj + 8 + 8 /\ turn < 0)))
      BY <2>2, <3>2 DEF DoneBlocks
    <3>4. r >= a.ii => turn \in Nat
      <4>1. SUFFICES ASSUME r >= a.ii PROVE turn \in Nat
        OBVIOUS
      <4>2. PICK x \in Int, y \in Int : x = r - new.ii /\ y = q - new.jj
        BY <1>4, <1>9, <2>2
      <4>3. x >= 0
        BY <1>4, <1>9, <2>2, <4>1, <4>2
      <4> QED
        BY <3>1, <4>2, <4>3, BlockTurns
    <3>5. (r < a.ii + 8 /\ q < a.jj + 8) \/ r < a.ii
      BY <1>4, <1>9, <3>3, <3>4
    <3> QED
      BY <1>10, <1>13, <3>5
  <2> QED
    BY <2>3, <2>4 DEF Advanced, new
<1>14. CASE a.k + 1 = last /\ ~ (a.jj + 8 < side) /\ a.ii + 8 < side
  <2>1. new = [ii |-> a.ii + 8, jj |-> 0, k |-> 0]
    <3>1. a.jj + 8 >= side /\ ~ (a.k + 1 < last)
      BY <1>1, <1>4, <1>14
    <3> QED
      BY <1>2, <1>4, <1>14, <3>1 DEF BlockLoops, BSIZE
  <2>2. new # Finish /\ new \in Counters /\ new.ii = a.ii + 8 /\ new.jj = 0 /\ new.k = 0
    BY <1>4, <2>1, NotFinished
  <2> HIDE DEF new
  <2>3. Positioned(c, new)
    <3>1. \E n \in Nat : new.ii = 8 * n /\ new.ii + 8 <= side
      <4>1. PICK n \in Nat : a.ii = 8 * n /\ a.ii + 8 <= side
        BY <1>5
      <4>2. n + 1 \in Nat /\ a.ii + 8 = 8 * (n + 1) /\ a.ii + 8 + 8 <= side
        BY <1>1, <1>14, <4>1
      <4> QED
        BY <2>2, <4>2
    <3>2. \E n \in Nat : new.jj = 8 * n /\ new.jj + 8 <= side
      <4>1. 0 \in Nat /\ 0 = 8 * 0 /\ 0 + 8 <= side
        BY <1>1
      <4> QED
        BY <2>2, <4>1
    <3> QED
      BY <1>8, <2>2, <3>1, <3>2
  <2>4. ASSUME NEW r \in 0 .. N - 1, NEW q \in 0 .. M - 1, Done(c, new, r, q)
        PROVE  Done(c, a, r, q) \/ Covered(c, a, r, q)
    <3>1. PICK turn : turn = BlockTurn(c, r - new.ii, q - new.jj)
      OBVIOUS
    <3>2. DoneBlocks(new, r, q, turn)
      BY <1>9, <1>11, <2>2, <2>4, <3>1
    <3>3. r < a.ii + 8 \/ (r < a.ii + 8 + 8 /\ (q < 0 \/ (q < 0 + 8 /\ turn < 0)))
      BY <2>2, <3>2 DEF DoneBlocks
    <3>4. r >= a.ii + 8 => turn \in Nat
      <4>1. SUFFICES ASSUME r >= a.ii + 8 PROVE turn \in Nat
        OBVIOUS
      <4>2. PICK x \in Int, y \in Int : x = r - new.ii /\ y = q - new.jj
        BY <1>4, <1>9, <2>2
      <4>3. x >= 0
        BY <1>4, <1>9, <2>2, <4>1, <4>2
      <4> QED
        BY <3>1, <4>2, <4>3, BlockTurns
    <3>5. r < a.ii + 8 /\ q < a.jj + 8
      BY <1>1, <1>4, <1>9, <1>14, <3>3, <3>4
    <3> QED
      BY <1>10, <1>14, <3>5
  <2> QED
    BY <2>3, <2>4 DEF Advanced, new
<1>15. CASE a.k + 1 = last /\ ~ (a.jj + 8 < side) /\ ~ (a.ii + 8 < side)
  <2>1. new = Finish
    BY <1>2, <1>15 DEF BlockLoops, BSIZE
  <2>2. ASSUME NEW r \in 0 .. N - 1, NEW q \in 0 .. M - 1
        PROVE  Done(c, a, r, q) \/ Covered(c, a, r, q)
    <3>1. r < a.ii + 8 /\ q < a.jj + 8
      BY <1>1, <1>4, <1>9, <1>15
    <3> QED
      BY <1>10, <1>15, <3>1
  <2> QED
    BY <2>1, <2>2 DEF Advanced, Positioned
<1>16. a.k + 1 < last \/ a.k + 1 = last
  BY <1>2, <1>3, <1>4
<1> QED
  BY <1>12, <1>13, <1>14, <1>15, <1>16

\* The loops leave no element out: what they pass over is done.
LEMMA AdvanceCovers ==
  ASSUME Sized, NEW c, NEW a, a # Finish, Positioned(c, a)
  PROVE  Advanced(c, a, Advance(c, M, N, a))
<1>1. c \in {"trans", "trans_otherwise", "trans_32", "trans_64"}
  BY DEF Positioned
<1>2. CASE c = "trans"
  <2>1. Advance(c, M, N, a) = ElementLoops(M, N, a)
    BY <1>2 DEF Advance
  <2> QED
    BY <1>2, <2>1, ElementLoopsAdvance
<1>3. CASE c = "trans_otherwise"
  <2>1. Advance(c, M, N, a) = ColumnLoops(M, N, a)
    BY <1>3 DEF Advance
  <2> QED
    BY <1>3, <2>1, ColumnLoopsAdvance
<1>4. CASE c = "trans_32"
  <2>1. Advance(c, M, N, a) = BlockLoops(32, a)
    BY <1>4 DEF Advance
  <2> QED
    BY <1>4, <2>1, BlockLoopsAdvance
<1>5. CASE c = "trans_64"
  <2>1. Advance(c, M, N, a) = BlockLoops(64, a)
    BY <1>5 DEF Advance
  <2> QED
    BY <1>5, <2>1, BlockLoopsAdvance
<1> QED
  BY <1>1, <1>2, <1>3, <1>4, <1>5

\* The n-th element of the right half of row h of the block
RightHalf(x, a, h, n) == x.reg = 4 * h + n /\ x.i = a.ii + h /\ x.j = a.jj + 4 + n - 1

\* The accesses of an iteration
Iteration(c, a, accesses) ==
  /\ \A x \in accesses : Sound(x)
  /\ (\A x \in accesses : x.kind # "store") \/ (\A x \in accesses : x.kind # "load")
  /\ \A r \in 0 .. N - 1, q \in 0 .. M - 1 :
       Covered(c, a, r, q) => \E x \in accesses : x.kind # "load" /\ x.i = r /\ x.j = q
  /\ \A x \in accesses : x.kind = "store" =>
       c = "trans_64" /\ a.k = 14 /\ \E h \in 0 .. 1, n \in 1 .. 4 : RightHalf(x, a, h, n)
  /\ \A x \in accesses : x.kind = "load" =>
       c = "trans_64" /\ a.k < 2 /\ \E n \in 1 .. 4 : RightHalf(x, a, a.k, n)
  /\ c = "trans_64" /\ a.k < 2 =>
       \A n \in 1 .. 4 : \E x \in accesses : x.kind = "load" /\ x.reg = 4 * a.k + n

\* A row of copies stays in the matrix.
LEMMA RowSound ==
  ASSUME NEW r \in 0 .. N - 1, NEW q0 \in Nat, NEW q1 \in Int, q1 <= M, Sized
  PROVE  /\ \A x \in Row(r, q0, q1) : Sound(x) /\ x.kind = "copy"
         /\ \A q \in q0 .. q1 - 1 : \E x \in Row(r, q0, q1) : x.kind = "copy" /\ x.i = r /\ x.j = q
<1>1. M \in Nat
  BY DEF Sized
<1>2. \A q \in q0 .. q1 - 1 : q \in 0 .. M - 1
  BY <1>1
<1>3. ASSUME NEW q \in q0 .. q1 - 1
      PROVE  /\ Copy(r, q) \in Row(r, q0, q1) /\ Sound(Copy(r, q))
             /\ Copy(r, q).kind = "copy" /\ Copy(r, q).i = r /\ Copy(r, q).j = q
  BY <1>2 DEF Copy, Row, Sound
<1>4. \A x \in Row(r, q0, q1) : \E q \in q0 .. q1 - 1 : x = Copy(r, q)
  BY DEF Row
<1> QED
  BY <1>3, <1>4

\* An iteration that copies what it covers is right.
LEMMA RowIteration ==
  ASSUME Sized, NEW c, NEW a, NEW r \in 0 .. N - 1, NEW q0 \in Nat, NEW q1 \in Int, q1 <= M,
         \A x \in 0 .. N - 1, y \in 0 .. M - 1 : Covered(c, a, x, y) => x = r /\ y \in q0 .. q1 - 1,
         ~ (c = "trans_64" /\ a.k < 2)
  PROVE  Iteration(c, a, Row(r, q0, q1))
<1>1. \A x \in Row(r, q0, q1) : Sound(x) /\ x.kind = "copy"
  BY RowSound
<1>2. \A q \in q0 .. q1 - 1 : \E x \in Row(r, q0, q1) : x.kind = "copy" /\ x.i = r /\ x.j = q
  BY RowSound
<1>3. ASSUME NEW x \in 0 .. N - 1, NEW y \in 0 .. M - 1, Covered(c, a, x, y)
      PROVE  \E z \in Row(r, q0, q1) : z.kind # "load" /\ z.i = x /\ z.j = y
  BY <1>2, <1>3
<1> QED
  BY <1>1, <1>3 DEF Iteration

\* The iterations of trans.
LEMMA BodyOfTrans ==
  ASSUME Sized, NEW a, a # Finish, Positioned("trans", a)
  PROVE  \E accesses : Made(Body("trans", M, a), accesses) /\ Iteration("trans", a, accesses)
<1>1. a \in Counters /\ a.k < N /\ a.jj < M /\ M \in Nat /\ N \in Nat
  BY DEF Positioned, Sized
<1>2. PICK r \in 0 .. N - 1, q \in 0 .. M - 1 : r = a.k /\ q = a.jj
  BY <1>1, CountersField
<1>3. Body("trans", M, a) = <<Copy(r, q)>> /\ Copy(r, q) \in Access
  BY <1>2 DEF Body, Copy, Access
<1>4. Row(r, q, q + 1) = {Copy(r, q)}
  <2>1. q .. (q + 1) - 1 = {q}
    OBVIOUS
  <2> QED
    BY <2>1 DEF Row
<1>5. Made(Body("trans", M, a), Row(r, q, q + 1))
  BY <1>3, <1>4, OneMade
<1>6. Iteration("trans", a, Row(r, q, q + 1))
  <2>1. q \in Nat /\ q + 1 \in Int /\ q + 1 <= M /\ q \in q .. (q + 1) - 1
    BY <1>1
  <2>2. \A x \in 0 .. N - 1, y \in 0 .. M - 1 : Covered("trans", a, x, y) => x = r /\ y \in q .. (q + 1) - 1
    BY <1>2, <2>1 DEF Covered
  <2> QED
    BY <2>1, <2>2, RowIteration
<1> QED
  BY <1>5, <1>6

\* The iterations of trans_otherwise.
LEMMA BodyOfOtherwise ==
  ASSUME Sized, NEW a, a # Finish, Positioned("trans_otherwise", a)
  PROVE  \E accesses : /\ Made(Body("trans_otherwise", M, a), accesses)
                       /\ Iteration("trans_otherwise", a, accesses)
<1>1. a \in Counters /\ a.k < N /\ a.jj % 8 = 0 /\ a.jj <= 8 * (M \div 8) /\ M \in Nat /\ N \in Nat
  BY DEF Positioned, Sized
<1>2. PICK r \in 0 .. N - 1, q \in Nat : r = a.k /\ q = a.jj
  BY <1>1, CountersField
<1>3. PICK w \in Nat : w = Columns(M, q) /\ q + w <= M
  <2>1. PICK eighth \in Nat : eighth = M \div 8 /\ 8 * eighth <= M
    BY <1>1
  <2>2. CASE q < 8 * eighth
    <3>1. Columns(M, q) = 8
      BY <2>1, <2>2 DEF Columns, BSIZE
    <3>2. q + 8 <= M
      <4>1. PICK n \in Nat : q = 8 * n
        BY <1>1, <1>2
      <4> QED
        BY <1>1, <2>1, <2>2, <4>1
    <3> QED
      BY <3>1, <3>2
  <2>3. CASE ~ (q < 8 * eighth)
    <3>1. Columns(M, q) = M - q
      BY <2>1, <2>3 DEF Columns, BSIZE
    <3>2. M - q \in Nat /\ q + (M - q) <= M
      BY <1>1, <1>2, <2>1
    <3> QED
      BY <3>1, <3>2
  <2> QED
    BY <2>2, <2>3
<1>7. PICK q1 \in Int : q1 = q + w /\ q1 <= M /\ q <= q1
  BY <1>3
<1>4. Body("trans_otherwise", M, a) = CopyRow(r, q, q1)
  BY <1>2, <1>3, <1>7 DEF Body
<1>5. Made(Body("trans_otherwise", M, a), Row(r, q, q1))
  <2>1. r \in Int /\ q \in Int
    BY <1>1
  <2> QED
    BY <1>4, <1>7, <2>1, CopyRowMade
<1>6. Iteration("trans_otherwise", a, Row(r, q, q1))
  <2>1. \A x \in 0 .. N - 1, y \in 0 .. M - 1 :
          Covered("trans_otherwise", a, x, y) => x = r /\ y \in q .. q1 - 1
    <3>1. a.jj .. a.jj + Columns(M, a.jj) - 1 = q .. q1 - 1
      <4>1. Columns(M, a.jj) = w
        BY <1>2, <1>3
      <4> QED
        BY <1>2, <1>7, <4>1
    <3> QED
      BY <1>2, <3>1, Zenon DEF Covered
  <2> QED
    BY <1>7, <2>1, RowIteration
<1> QED
  BY <1>5, <1>6

\* The iterations of trans_32.
LEMMA BodyOf32 ==
  ASSUME Sized, NEW a, a # Finish, Positioned("trans_32", a)
  PROVE  \E accesses : /\ Made(Body("trans_32", M, a), accesses)
                       /\ Iteration("trans_32", a, accesses)
<1>1. a \in Counters /\ a.k < 8 /\ M = 32 /\ N = 32
  BY DEF Positioned
<1>2. PICK x \in Nat, y \in Nat, z \in Nat : x = a.ii /\ y = a.jj /\ z = a.k
  BY <1>1, CountersField
<1>3. x + 8 <= 32 /\ y + 8 <= 32 /\ z < 8
  <2>1. PICK n \in 0 .. 3, m \in 0 .. 3 : a.ii = 8 * n /\ a.jj = 8 * m
    BY DEF Positioned
  <2> QED
    BY <1>1, <1>2, <2>1
<1>4. PICK r \in 0 .. N - 1 : r = x + z
  BY <1>1, <1>3
<1>5. Body("trans_32", M, a) = DiagonalLast(x, y, r, 8)
  BY <1>2, <1>4 DEF Body, block_trans_32, BSIZE
<1>6. Made(Body("trans_32", M, a), Row(r, y, y + 8))
  <2>1. r \in Int /\ x \in Int /\ y \in Int /\ 8 \in Nat /\ r - x \in 0 .. 8 - 1
    BY <1>3, <1>4
  <2> QED
    BY <1>5, <2>1, DiagonalLastMade
<1>7. Iteration("trans_32", a, Row(r, y, y + 8))
  <2>1. \A u \in 0 .. N - 1, v \in 0 .. M - 1 :
          Covered("trans_32", a, u, v) => u = r /\ v \in y .. (y + 8) - 1
    BY <1>2, <1>4 DEF Covered
  <2>2. y + 8 \in Int /\ y + 8 <= M
    BY <1>1, <1>3
  <2> QED
    BY <2>1, <2>2, RowIteration
<1> QED
  BY <1>6, <1>7

\* What an empty sequence holds.
LEMMA NothingMade == Made(<<>>, {})
<1>1. <<>> \in Seq(Access) /\ Len(<<>>) = 0
  BY EmptySeq
<1>2. Members(<<>>) = {}
  BY <1>1 DEF Members
<1> QED
  BY <1>1, <1>2 DEF Made

\* The corner of a block of trans_64 and the iteration in it.
LEMMA Corner ==
  ASSUME Sized, NEW a, a # Finish, Positioned("trans_64", a)
  PROVE  /\ a.ii \in Nat /\ a.jj \in Nat /\ a.k \in Nat /\ a.k < 15
         /\ a.ii + 8 <= N /\ a.jj + 8 <= M /\ M = 64 /\ N = 64
<1>1. a \in Counters /\ a.k < 15 /\ M = 64 /\ N = 64
  BY DEF Positioned
<1>2. PICK n \in 0 .. 7, m \in 0 .. 7 : a.ii = 8 * n /\ a.jj = 8 * m
  BY DEF Positioned
<1> QED
  BY <1>1, <1>2, CountersField

\* The iterations that only copy a part of a row.
LEMMA QuadrantIteration ==
  ASSUME Sized, NEW a, a # Finish, Positioned("trans_64", a),
         NEW corner \in Int, NEW y \in Nat, NEW r \in 0 .. N - 1,
         r - corner \in 0 .. 3, y + 4 <= M, a.k >= 2,
         \A u \in 0 .. N - 1, v \in 0 .. M - 1 :
           Covered("trans_64", a, u, v) => u = r /\ v \in y .. (y + 4) - 1
  PROVE  /\ Made(DiagonalLast(corner, y, r, 4), Row(r, y, y + 4))
         /\ Iteration("trans_64", a, Row(r, y, y + 4))
<1>1. Made(DiagonalLast(corner, y, r, 4), Row(r, y, y + 4))
  <2>1. r \in Int /\ y \in Int /\ 4 \in Nat /\ r - corner \in 0 .. 4 - 1
    BY DEF Sized
  <2> QED
    BY <2>1, DiagonalLastMade
<1>2. y + 4 \in Int /\ ~ (a.k < 2)
  BY Corner
<1>3. Iteration("trans_64", a, Row(r, y, y + 4))
  BY <1>2, RowIteration
<1> QED
  BY <1>1, <1>3

\* Which part of the block an iteration covers.
BlockPart(x, y, z, u, v) ==
  /\ z < 8 => u = x + z /\ v \in y .. (y + 4) - 1
  /\ z \in 8 .. 11 => u = x + z - 4 /\ v \in y + 4 .. (y + 4 + 4) - 1
  /\ z \in 12 .. 13 => u = x + z - 10 /\ v \in y + 4 .. (y + 4 + 4) - 1
  /\ z = 14 => u \in x .. x + 1 /\ v \in y + 4 .. y + 7

\* What an iteration of trans_64 covers.
LEMMA CoveredPart ==
  ASSUME Sized, NEW a, a # Finish, Positioned("trans_64", a),
         NEW u \in 0 .. N - 1, NEW v \in 0 .. M - 1, Covered("trans_64", a, u, v)
  PROVE  BlockPart(a.ii, a.jj, a.k, u, v)
<1>1. PICK x \in Nat, y \in Nat, z \in Nat : x = a.ii /\ y = a.jj /\ z = a.k
  BY Corner
<1>2. u \in x .. x + 7 /\ v \in y .. y + 7 /\ Turn(u - x, v - y) = z
  BY <1>1 DEF Covered
<1>3. BlockPart(x, y, z, u, v)
  <2>1. u \in Int /\ v \in Int
    BY <1>2
  <2> QED
    BY <1>2, <2>1 DEF Turn, BlockPart
<1> QED
  BY <1>1, <1>3

\* A quarter of the block whose corner is at x, y
Quarter(x, y, n) == DiagonalLast(x, y, x + n, 4)
FirstQuarter(x, y, n) == SubSeq(Quarter(x, y, n), 1, Len(Quarter(x, y, n)) - 1)
                           \o TwoRows(x, y, n) \o <<Last(Quarter(x, y, n))>>

\* An iteration of trans_64 in its block.
LEMMA Quarters ==
  ASSUME NEW a, NEW x, NEW y, NEW z, x = a.ii, y = a.jj, z = a.k
  PROVE  Body("trans_64", M, a) =
           CASE z < 4 -> FirstQuarter(x, y, z)
             [] z \in 4 .. 7 -> Quarter(x + 4, y, z - 4)
             [] z \in 8 .. 11 -> Quarter(x + 4, y + 4, z - 8)
             [] z \in 12 .. 13 -> Quarter(x, y + 4, z - 10)
             [] z = 14 -> StoredLines(x, y + 4)
<1>1. Body("trans_64", M, a) = block_trans_64(x, y, z)
  BY DEF Body
<1>2. block_trans_64(x, y, z) =
           CASE z < 4 -> FirstQuarter(x, y, z)
             [] z \in 4 .. 7 -> Quarter(x + 4, y, z - 4)
             [] z \in 8 .. 11 -> Quarter(x + 4, y + 4, z - 8)
             [] z \in 12 .. 13 -> Quarter(x, y + 4, z - 10)
             [] z = 14 -> StoredLines(x, y + 4)
  BY Zenon DEF block_trans_64, BSIZE_64, Quarter, FirstQuarter
<1> QED
  BY <1>1, <1>2

\* What is read of the right half with the left one.
LEMMA SavesMade ==
  ASSUME Sized, NEW a, a # Finish, Positioned("trans_64", a), a.k < 2
  PROVE  Made(TwoRows(a.ii, a.jj, a.k),
              {Save(a.ii + a.k, a.jj + 4 + n - 1, a.k * 4 + n) : n \in 1 .. 4})
<1> DEFINE rows == TwoRows(a.ii, a.jj, a.k)
           Saved(n) == Save(a.ii + a.k, a.jj + 4 + n - 1, a.k * 4 + n)
<1>1. a.ii \in Nat /\ a.jj \in Nat /\ a.k \in Nat
  BY Corner
<1>2. rows = [n \in 1 .. 4 |-> Saved(n)]
  BY DEF TwoRows, BSIZE_64
<1>3. \A n \in 1 .. 4 : Saved(n) \in Access
  BY <1>1 DEF Save, Access
<1> HIDE DEF Saved, rows
<1>4. rows \in [1 .. 4 -> Access]
  BY <1>2, <1>3
<1>5. rows \in Seq(Access) /\ Len(rows) = 4
  BY <1>4, SequenceOf
<1>6. Members(rows) = {Saved(n) : n \in 1 .. 4}
  BY <1>2, <1>5 DEF Members
<1> QED
  BY <1>5, <1>6 DEF Made, Saved, rows

\* The iterations of trans_64 that keep a row of the right half.
LEMMA BodyOfFirstRows ==
  ASSUME Sized, NEW a, a # Finish, Positioned("trans_64", a), a.k < 2
  PROVE  \E accesses : /\ Made(Body("trans_64", M, a), accesses)
                       /\ Iteration("trans_64", a, accesses)
<1>1. PICK x \in Nat, y \in Nat, z \in 0 .. 1 : x = a.ii /\ y = a.jj /\ z = a.k
  <2>1. a.ii \in Nat /\ a.jj \in Nat /\ a.k \in Nat
    BY Corner
  <2>2. a.k \in 0 .. 1
    BY <2>1
  <2> QED
    BY <2>1, <2>2
<1>2. PICK r \in 0 .. N - 1 : r = x + z /\ x + 8 <= N /\ y + 8 <= M /\ M = 64 /\ N = 64
  BY <1>1, Corner
<1> DEFINE quarter == DiagonalLast(x, y, r, 4)
           saved == {Save(r, y + 4 + n - 1, z * 4 + n) : n \in 1 .. 4}
           accesses == Row(r, y, y + 4) \cup saved
<1>3. Body("trans_64", M, a)
        = SubSeq(quarter, 1, Len(quarter) - 1) \o TwoRows(x, y, z) \o <<Last(quarter)>>
  <2>1. z < 4
    OBVIOUS
  <2>2. Body("trans_64", M, a) = FirstQuarter(x, y, z)
    BY <1>1, <2>1, Quarters
  <2> QED
    BY <1>2, <2>2 DEF FirstQuarter, Quarter
<1>4. Made(quarter, Row(r, y, y + 4)) /\ quarter # <<>>
  <2>1. r \in Int /\ x \in Int /\ y \in Int /\ 4 \in Nat /\ r - x \in 0 .. 4 - 1
    BY <1>2
  <2> QED
    BY <2>1, DiagonalLastMade
<1>5. Made(TwoRows(x, y, z), saved)
  BY <1>1, <1>2, SavesMade
<1>6. Made(Body("trans_64", M, a), accesses)
  <2> HIDE DEF quarter, saved
  <2>1. Made(SubSeq(quarter, 1, Len(quarter) - 1) \o TwoRows(x, y, z) \o <<Last(quarter)>>,
             Row(r, y, y + 4) \cup saved)
    BY <1>4, <1>5, InsertedMade
  <2> QED
    BY <1>3, <2>1
<1>7. \A w \in Row(r, y, y + 4) : Sound(w) /\ w.kind = "copy"
  <2>1. y + 4 \in Int /\ y + 4 <= M
    BY <1>2
  <2> QED
    BY <2>1, RowSound
<1>8. ASSUME NEW n \in 1 .. 4, NEW w, w = Save(r, y + 4 + n - 1, z * 4 + n)
      PROVE  Sound(w) /\ w.kind = "load" /\ RightHalf(w, a, a.k, n)
  <2>1. /\ y + 4 + n - 1 \in 0 .. M - 1 /\ z * 4 + n \in 1 .. 8
        /\ z * 4 + n = 4 * z + n
    BY <1>1, <1>2
  <2>2. w.kind = "load" /\ w.i = r /\ w.j = y + 4 + n - 1 /\ w.reg = z * 4 + n
    BY <1>8 DEF Save
  <2> QED
    BY <1>1, <1>2, <2>1, <2>2 DEF Sound, RightHalf
<1>9. \A w \in saved : \E n \in 1 .. 4 : w = Save(r, y + 4 + n - 1, z * 4 + n)
  OBVIOUS
<1>10. \A n \in 1 .. 4 : Save(r, y + 4 + n - 1, z * 4 + n) \in saved
  OBVIOUS
<1> HIDE DEF saved
<1>11. \A w \in accesses : Sound(w) /\ w.kind # "store"
  BY <1>7, <1>8, <1>9
<1>12. ASSUME NEW u \in 0 .. N - 1, NEW v \in 0 .. M - 1, Covered("trans_64", a, u, v)
       PROVE  \E w \in accesses : w.kind # "load" /\ w.i = u /\ w.j = v
  <2>1. u = r /\ v \in y .. (y + 4) - 1
    <3>1. BlockPart(x, y, z, u, v)
      BY <1>1, <1>12, CoveredPart
    <3> QED
      BY <1>2, <3>1 DEF BlockPart
  <2>2. y + 4 \in Int /\ y + 4 <= M
    BY <1>2
  <2>3. \E w \in Row(r, y, y + 4) : w.kind = "copy" /\ w.i = r /\ w.j = v
    BY <2>1, <2>2, RowSound
  <2> QED
    BY <2>1, <2>3
<1>13. ASSUME NEW w \in accesses, w.kind = "load"
       PROVE  \E n \in 1 .. 4 : RightHalf(w, a, a.k, n)
  <2>1. w \in saved
    BY <1>7, <1>13
  <2> QED
    BY <1>8, <1>9, <2>1
<1>14. ASSUME NEW n \in 1 .. 4
       PROVE  \E w \in accesses : w.kind = "load" /\ w.reg = 4 * a.k + n
  <2>1. PICK w : w = Save(r, y + 4 + n - 1, z * 4 + n)
    OBVIOUS
  <2>2. w \in accesses
    BY <1>10, <2>1
  <2>3. w.kind = "load" /\ w.reg = 4 * a.k + n
    BY <1>8, <2>1 DEF RightHalf
  <2> QED
    BY <2>2, <2>3
<1> HIDE DEF accesses
<1>15. Iteration("trans_64", a, accesses)
  BY <1>11, <1>12, <1>13, <1>14 DEF Iteration
<1> QED
  BY <1>6, <1>15

\* The iteration of trans_64 that stores the two rows.
LEMMA BodyOfLastRows ==
  ASSUME Sized, NEW a, a # Finish, Positioned("trans_64", a), a.k = 14
  PROVE  \E accesses : /\ Made(Body("trans_64", M, a), accesses)
                       /\ Iteration("trans_64", a, accesses)
<1>1. PICK x \in Nat, y \in Nat : x = a.ii /\ y = a.jj /\ x + 8 <= N /\ y + 8 <= M /\ M = 64 /\ N = 64
  BY Corner
<1> DEFINE body == StoredLines(x, y + 4)
           Stored(n) == Restore(x + (n - 1) \div 4, y + 4 + ((n - 1) % 4), n)
           accesses == {Stored(n) : n \in 1 .. 8}
<1>2. Body("trans_64", M, a) = body
  <2>1. ~ (14 < 4) /\ 14 \notin 4 .. 7 /\ 14 \notin 8 .. 11 /\ 14 \notin 12 .. 13
    OBVIOUS
  <2> HIDE DEF body
  <2>2. Body("trans_64", M, a) = StoredLines(x, y + 4)
    BY <1>1, <2>1, Quarters
  <2> QED
    BY <2>2 DEF body
<1>3. body = [n \in 1 .. 8 |-> Stored(n)]
  <2>1. body = [n \in 1 .. 2 * 4 |-> Stored(n)]
    BY Zenon DEF StoredLines, BSIZE_64
  <2>2. 2 * 4 = 8
    OBVIOUS
  <2> HIDE DEF body, Stored
  <2> QED
    BY <2>1, <2>2
<1>4. ASSUME NEW n \in 1 .. 8
      PROVE  /\ (n - 1) \div 4 \in 0 .. 1 /\ ((n - 1) % 4) \in 0 .. 3
             /\ n = 4 * ((n - 1) \div 4) + ((n - 1) % 4) + 1
  <2>1. n - 1 \in Int /\ 4 \in Nat \ {0}
    OBVIOUS
  <2>2. PICK q \in Int, t \in 0 .. 4 - 1 : q = (n - 1) \div 4 /\ t = (n - 1) % 4 /\ n - 1 = 4 * q + t
    BY <2>1, Euclid
  <2>3. q \in 0 .. 1 /\ t \in 0 .. 3 /\ n = 4 * q + t + 1
    BY <2>2
  <2> QED
    BY <2>2, <2>3, Zenon
<1>5. ASSUME NEW n \in 1 .. 8
      PROVE  /\ Stored(n).kind = "store" /\ Stored(n).reg = n
             /\ Stored(n).i = x + (n - 1) \div 4 /\ Stored(n).j = y + 4 + ((n - 1) % 4)
  BY <1>4 DEF Restore
<1>15. \A n \in 1 .. 8 : Stored(n) \in Access
  BY <1>4 DEF Restore, Access
<1> HIDE DEF Stored, body
<1>6. body \in [1 .. 8 -> Access]
  BY <1>3, <1>15
<1>7. body \in Seq(Access) /\ Len(body) = 8
  <2>1. PICK l \in Nat : l = 8
    OBVIOUS
  <2>2. body \in [1 .. l -> Access]
    BY <1>6, <2>1
  <2>3. body \in Seq(Access) /\ Len(body) = l
    BY <2>2, SequenceOf
  <2> QED
    BY <2>1, <2>3
<1>8. Members(body) = accesses
  BY <1>3, <1>7 DEF Members
<1>9. Made(Body("trans_64", M, a), accesses)
  BY <1>2, <1>7, <1>8 DEF Made
<1>10. ASSUME NEW n \in 1 .. 8
       PROVE  /\ Sound(Stored(n))
              /\ \E h \in 0 .. 1, m \in 1 .. 4 : RightHalf(Stored(n), a, h, m)
  <2>1. PICK h \in 0 .. 1, m \in 1 .. 4 : h = (n - 1) \div 4 /\ m - 1 = (n - 1) % 4 /\ n = 4 * h + m
    <3>1. PICK h \in 0 .. 1, m \in 0 .. 3 : h = (n - 1) \div 4 /\ m = (n - 1) % 4 /\ n = 4 * h + m + 1
      BY <1>4
    <3>2. m + 1 \in 1 .. 4 /\ (m + 1) - 1 = m /\ n = 4 * h + (m + 1)
      BY <3>1
    <3> QED
      BY <3>1, <3>2
  <2>2. /\ Stored(n).kind = "store" /\ Stored(n).reg = n /\ Stored(n).i = x + h
        /\ Stored(n).j = y + 4 + (m - 1)
    BY <1>5, <2>1
  <2>3. x + h \in 0 .. N - 1 /\ y + 4 + (m - 1) \in 0 .. M - 1 /\ y + 4 + (m - 1) = y + 4 + m - 1
    BY <1>1
  <2>4. Sound(Stored(n))
    BY <2>2, <2>3 DEF Sound
  <2>5. RightHalf(Stored(n), a, h, m)
    BY <1>1, <2>1, <2>2, <2>3 DEF RightHalf
  <2> QED
    BY <2>4, <2>5
<1>11. \A w \in accesses : Sound(w) /\ w.kind = "store" /\ \E h \in 0 .. 1, m \in 1 .. 4 : RightHalf(w, a, h, m)
  BY <1>5, <1>10
<1>12. ASSUME NEW u \in 0 .. N - 1, NEW v \in 0 .. M - 1, Covered("trans_64", a, u, v)
       PROVE  \E w \in accesses : w.kind # "load" /\ w.i = u /\ w.j = v
  <2>1. u \in x .. x + 1 /\ v \in y + 4 .. y + 7
    <3>1. BlockPart(x, y, 14, u, v)
      BY <1>1, <1>12, CoveredPart
    <3> QED
      BY <3>1 DEF BlockPart
  <2>2. PICK h \in 0 .. 1, m \in 0 .. 3 : u = x + h /\ v = y + 4 + m
    <3>1. u - x \in 0 .. 1 /\ v - (y + 4) \in 0 .. 3 /\ u = x + (u - x) /\ v = y + 4 + (v - (y + 4))
      BY <2>1
    <3> QED
      BY <3>1
  <2>3. PICK n \in 1 .. 8 : n = 4 * h + m + 1
    OBVIOUS
  <2>4. (n - 1) \div 4 = h /\ (n - 1) % 4 = m
    BY <2>3
  <2>5. Stored(n).i = u /\ Stored(n).j = v /\ Stored(n).kind # "load"
    BY <1>5, <2>2, <2>4
  <2> QED
    BY <2>5
<1>13. \A w \in accesses : w.kind # "load"
  BY <1>5
<1> HIDE DEF accesses
<1>14. Iteration("trans_64", a, accesses)
  BY <1>11, <1>12, <1>13, Corner DEF Iteration
<1> QED
  BY <1>9, <1>14

\* The iterations of trans_64.
LEMMA BodyOf64 ==
  ASSUME Sized, NEW a, a # Finish, Positioned("trans_64", a)
  PROVE  \E accesses : /\ Made(Body("trans_64", M, a), accesses)
                       /\ Iteration("trans_64", a, accesses)
<1>1. PICK x \in Nat, y \in Nat, z \in 0 .. 14 :
        x = a.ii /\ y = a.jj /\ z = a.k /\ x + 8 <= N /\ y + 8 <= M /\ M = 64 /\ N = 64
  BY Corner
<1>8. ASSUME NEW u \in 0 .. N - 1, NEW v \in 0 .. M - 1, Covered("trans_64", a, u, v)
      PROVE  BlockPart(x, y, z, u, v)
  BY <1>1, <1>8, CoveredPart
<1>2. CASE z < 2
  BY <1>1, <1>2, BodyOfFirstRows
<1>3. CASE z \in 2 .. 3
  <2>1. PICK r \in 0 .. N - 1 : r = x + z
    BY <1>1, <1>3
  <2> DEFINE quarter == DiagonalLast(x, y, r, 4)
  <2>2. Body("trans_64", M, a)
          = SubSeq(quarter, 1, Len(quarter) - 1) \o TwoRows(x, y, z) \o <<Last(quarter)>>
    <3>1. z < 4
      BY <1>3
    <3>2. Body("trans_64", M, a) = FirstQuarter(x, y, z)
      BY <1>1, <3>1, Quarters
    <3> QED
      BY <2>1, <3>2 DEF FirstQuarter, Quarter
  <2>3. TwoRows(x, y, z) = <<>>
    BY <1>3 DEF TwoRows
  <2>4. Made(quarter, Row(r, y, y + 4)) /\ quarter # <<>>
    <3>1. r \in Int /\ x \in Int /\ y \in Int /\ 4 \in Nat /\ r - x \in 0 .. 4 - 1
      BY <1>1, <1>3, <2>1
    <3> QED
      BY <3>1, DiagonalLastMade
  <2>5. Made(Body("trans_64", M, a), Row(r, y, y + 4) \cup {})
    <3> HIDE DEF quarter
    <3> QED
      BY <2>2, <2>3, <2>4, NothingMade, InsertedMade
  <2>6. Iteration("trans_64", a, Row(r, y, y + 4))
    <3>1. \A u \in 0 .. N - 1, v \in 0 .. M - 1 :
            Covered("trans_64", a, u, v) => u = r /\ v \in y .. (y + 4) - 1
      BY <1>3, <1>8, <2>1 DEF BlockPart
    <3>2. r - x \in 0 .. 3 /\ y + 4 <= M /\ a.k >= 2 /\ x \in Int
      BY <1>1, <1>3, <2>1
    <3> QED
      BY <3>1, <3>2, QuadrantIteration
  <2>7. Row(r, y, y + 4) \cup {} = Row(r, y, y + 4)
    OBVIOUS
  <2> QED
    BY <2>5, <2>6, <2>7
<1>4. CASE z \in 4 .. 7
  <2>1. PICK r \in 0 .. N - 1, corner \in Int : r = x + z /\ corner = x + 4
    BY <1>1, <1>4
  <2>2. Body("trans_64", M, a) = DiagonalLast(corner, y, r, 4)
    <3>1. x + 4 + (z - 4) = r
      BY <1>1, <1>4, <2>1
    <3>2. ~ (z < 4)
      BY <1>4
    <3>3. Body("trans_64", M, a) = Quarter(x + 4, y, z - 4)
      BY <1>1, <1>4, <3>2, Quarters
    <3> QED
      BY <2>1, <3>1, <3>3 DEF Quarter
  <2>3. \A u \in 0 .. N - 1, v \in 0 .. M - 1 :
          Covered("trans_64", a, u, v) => u = r /\ v \in y .. (y + 4) - 1
    BY <1>4, <1>8, <2>1 DEF BlockPart
  <2>4. r - corner \in 0 .. 3 /\ y + 4 <= M /\ a.k >= 2
    BY <1>1, <1>4, <2>1
  <2> QED
    BY <2>2, <2>3, <2>4, QuadrantIteration
<1>5. CASE z \in 8 .. 11
  <2>1. PICK r \in 0 .. N - 1, corner \in Int, right \in Nat :
          r = x + z - 4 /\ corner = x + 4 /\ right = y + 4
    <3>1. x + z - 4 \in 0 .. N - 1 /\ x + 4 \in Int /\ y + 4 \in Nat
      BY <1>1, <1>5
    <3> QED
      BY <3>1
  <2>2. Body("trans_64", M, a) = DiagonalLast(corner, right, r, 4)
    <3>1. x + 4 + (z - 8) = r
      BY <1>1, <1>5, <2>1
    <3>2. ~ (z < 4) /\ z \notin 4 .. 7
      BY <1>5
    <3>3. Body("trans_64", M, a) = Quarter(x + 4, y + 4, z - 8)
      BY <1>1, <1>5, <3>2, Quarters
    <3> QED
      BY <2>1, <3>1, <3>3 DEF Quarter
  <2>3. \A u \in 0 .. N - 1, v \in 0 .. M - 1 :
          Covered("trans_64", a, u, v) => u = r /\ v \in right .. (right + 4) - 1
    BY <1>5, <1>8, <2>1 DEF BlockPart
  <2>4. r - corner \in 0 .. 3 /\ right + 4 <= M /\ a.k >= 2
    BY <1>1, <1>5, <2>1
  <2> QED
    BY <2>2, <2>3, <2>4, QuadrantIteration
<1>6. CASE z \in 12 .. 13
  <2>1. PICK r \in 0 .. N - 1, right \in Nat : r = x + z - 10 /\ right = y + 4
    BY <1>1, <1>6, SMTT(60)
  <2>2. Body("trans_64", M, a) = DiagonalLast(x, right, r, 4)
    <3>1. x + (z - 10) = r
      BY <1>1, <1>6, <2>1
    <3>2. ~ (z < 4) /\ z \notin 4 .. 7 /\ z \notin 8 .. 11
      BY <1>6
    <3>3. Body("trans_64", M, a) = Quarter(x, y + 4, z - 10)
      BY <1>1, <1>6, <3>2, Quarters
    <3> QED
      BY <2>1, <3>1, <3>3 DEF Quarter
  <2>3. \A u \in 0 .. N - 1, v \in 0 .. M - 1 :
          Covered("trans_64", a, u, v) => u = r /\ v \in right .. (right + 4) - 1
    BY <1>6, <1>8, <2>1 DEF BlockPart
  <2>4. r - x \in 0 .. 3 /\ right + 4 <= M /\ a.k >= 2 /\ x \in Int
    BY <1>1, <1>6, <2>1
  <2> QED
    BY <2>2, <2>3, <2>4, QuadrantIteration
<1>7. CASE z = 14
  BY <1>1, <1>7, BodyOfLastRows
<1> QED
  BY <1>1, <1>2, <1>3, <1>4, <1>5, <1>6, <1>7

\* What an iteration accesses: all it passes over, each from where it is kept.
LEMMA BodyIterates ==
  ASSUME Sized, NEW c, NEW a, a # Finish, Positioned(c, a)
  PROVE  \E accesses : Made(Body(c, M, a), accesses) /\ Iteration(c, a, accesses)
<1>1. c \in {"trans", "trans_otherwise", "trans_32", "trans_64"}
  BY DEF Positioned
<1>2. CASE c = "trans"
  BY <1>2, BodyOfTrans
<1>3. CASE c = "trans_otherwise"
  BY <1>3, BodyOfOtherwise
<1>4. CASE c = "trans_32"
  BY <1>4, BodyOf32
<1>5. CASE c = "trans_64"
  BY <1>5, BodyOf64
<1> QED
  BY <1>1, <1>2, <1>3, <1>4, <1>5

\* What a variable tmp holds after accesses: what one loaded, or what it held
Remembered(old, new, accesses) ==
  \A x \in 1 .. 8 :
    \/ \E y \in accesses : y.kind = "load" /\ y.reg = x /\ new[x] = Element(y.i, y.j)
    \/ new[x] = old[x] /\ \A y \in accesses : y.kind = "load" => y.reg # x

\* After accesses B is right where it was and where they stored.
StoredRight(accesses) ==
  /\ [B |-> B', tmp |-> tmp'] \in Mem
  /\ \A r \in 0 .. N - 1, q \in 0 .. M - 1 : Right(B, r, q) => Right(B', r, q)
  /\ \A x \in accesses : x.kind # "load" => Right(B', x.i, x.j)

\* An iteration stores what it covers, and its loads are kept.
LEMMA IterationRuns ==
  ASSUME Sized, [B |-> B, tmp |-> tmp] \in Mem, NEW c, NEW a, a # Finish, Positioned(c, a),
         Kept(c, a, tmp), NEW body, NEW accesses, Made(body, accesses),
         Iteration(c, a, accesses), Execute(body)
  PROVE  StoredRight(accesses) /\ Remembered(tmp, tmp', accesses)
<1> DEFINE m == [B |-> B, tmp |-> tmp]
<1>1. body \in Seq(Access) /\ Len(body) \in Nat /\ \A n \in 1 .. Len(body) : body[n] \in accesses
  <2>1. body \in Seq(Access)
    BY DEF Made
  <2>2. Len(body) \in Nat
    BY <2>1, LenProperties
  <2> QED
    BY <2>1, <2>2 DEF Made, Members
<1>2. \A x \in accesses : \E n \in 1 .. Len(body) : x = body[n]
  BY DEF Made, Members
<1>3. ASSUME NEW x \in accesses, x.kind = "store"
      PROVE  tmp[x.reg] = Element(x.i, x.j)
  <2>1. PICK h \in 0 .. 1, n \in 1 .. 4 : RightHalf(x, a, h, n)
    BY <1>3 DEF Iteration
  <2>2. c = "trans_64" /\ a.k = 14
    BY <1>3 DEF Iteration
  <2>3. KeptRow(a, tmp, 0) /\ KeptRow(a, tmp, 1)
    BY <2>2 DEF Kept
  <2>4. KeptRow(a, tmp, h)
    <3>1. h = 0 \/ h = 1
      OBVIOUS
    <3> QED
      BY <2>3, <3>1
  <2> QED
    BY <2>1, <2>4 DEF KeptRow, RightHalf
<1>4. SoundBody(m, body)
  <2>1. \A n \in 1 .. Len(body) : Sound(body[n])
    BY <1>1 DEF Iteration
  <2>2. \A n \in 1 .. Len(body) :
          body[n].kind = "store" => m.tmp[body[n].reg] = Element(body[n].i, body[n].j)
    BY <1>1, <1>3
  <2>3. \/ \A n \in 1 .. Len(body) : body[n].kind # "store"
        \/ \A n \in 1 .. Len(body) : body[n].kind # "load"
    BY <1>1 DEF Iteration
  <2> QED
    BY <1>1, <2>1, <2>2, <2>3 DEF SoundBody
<1>5. PICK g : g.B = B' /\ g.tmp = tmp' /\ Performed(g, m, body, Len(body))
  BY <1>4, Executes
<1>6. g = [B |-> B', tmp |-> tmp'] /\ g \in Mem
  BY <1>5 DEF Performed, Mem
<1>7. \A r \in 0 .. N - 1, q \in 0 .. M - 1 : Right(B, r, q) => Right(B', r, q)
  BY <1>5 DEF Performed
<1>8. \A x \in accesses : x.kind # "load" => Right(B', x.i, x.j)
  BY <1>2, <1>5 DEF Performed
<1>9. ASSUME NEW x \in 1 .. 8
      PROVE  \/ \E y \in accesses : y.kind = "load" /\ y.reg = x /\ tmp'[x] = Element(y.i, y.j)
             \/ tmp'[x] = tmp[x] /\ \A y \in accesses : y.kind = "load" => y.reg # x
  <2>1. \/ \E n \in 1 .. Len(body) : /\ body[n].kind = "load" /\ body[n].reg = x
                                     /\ tmp'[x] = Element(body[n].i, body[n].j)
        \/ /\ tmp'[x] = tmp[x]
           /\ \A n \in 1 .. Len(body) : body[n].kind = "load" => body[n].reg # x
    BY <1>5 DEF Performed
  <2> QED
    BY <1>1, <1>2, <2>1
<1> QED
  BY <1>6, <1>7, <1>8, <1>9 DEF StoredRight, Remembered

\* The two rows of the right half stay in tmp0 to tmp7 until they are stored.
LEMMA RowsKept ==
  ASSUME Sized, NEW a, a # Finish, Positioned("trans_64", a), NEW accesses,
         Iteration("trans_64", a, accesses), NEW old, NEW new, Kept("trans_64", a, old),
         Remembered(old, new, accesses)
  PROVE  Kept("trans_64", Advance("trans_64", M, N, a), new)
<1> DEFINE next == Advance("trans_64", M, N, a)
<1>1. a.ii \in Nat /\ a.jj \in Nat /\ a.k \in Nat /\ a.k < 15
  BY Corner
<1>2. a = [ii |-> a.ii, jj |-> a.jj, k |-> a.k]
  BY CountersField DEF Positioned
<1>3. next = BlockLoops(64, a)
  BY DEF Advance
<1>4. CASE a.k + 1 < 15
  <2>1. next = [ii |-> a.ii, jj |-> a.jj, k |-> a.k + 1]
    BY <1>1, <1>2, <1>3, <1>4 DEF BlockLoops, Rows
  <2>2. next.ii = a.ii /\ next.jj = a.jj /\ next.k = a.k + 1
    BY <2>1
  <2> HIDE DEF next
  <2>3. ASSUME NEW h \in 0 .. 1, h <= a.k, NEW n \in 1 .. 4
        PROVE  new[4 * h + n] = Element(a.ii + h, a.jj + 4 + n - 1)
    <3>1. PICK x \in 1 .. 8 : x = 4 * h + n
      OBVIOUS
    <3>2. CASE h = a.k
      <4>1. \E y \in accesses : y.kind = "load" /\ y.reg = x
        BY <1>1, <3>1, <3>2 DEF Iteration
      <4>2. PICK y \in accesses : y.kind = "load" /\ y.reg = x /\ new[x] = Element(y.i, y.j)
        BY <4>1 DEF Remembered
      <4>3. PICK m \in 1 .. 4 : RightHalf(y, a, a.k, m)
        BY <4>2 DEF Iteration
      <4>4. m = n
        BY <3>1, <3>2, <4>2, <4>3 DEF RightHalf
      <4> QED
        BY <3>1, <3>2, <4>2, <4>3, <4>4 DEF RightHalf
    <3>3. CASE h < a.k
      <4>1. \A y \in accesses : y.kind = "load" => y.reg # x
        <5>1. ASSUME NEW y \in accesses, y.kind = "load" PROVE y.reg # x
          <6>1. a.k < 2 /\ \E m \in 1 .. 4 : RightHalf(y, a, a.k, m)
            BY <5>1 DEF Iteration
          <6>2. PICK m \in 1 .. 4 : y.reg = 4 * a.k + m
            BY <6>1 DEF RightHalf
          <6>3. h = 0 /\ a.k = 1
            BY <1>1, <3>3, <6>1
          <6> QED
            BY <3>1, <6>2, <6>3
        <5> QED
          BY <5>1
      <4>2. new[x] = old[x]
        BY <4>1 DEF Remembered
      <4>3. KeptRow(a, old, h)
        <5>1. h = 0 \/ h = 1
          OBVIOUS
        <5>2. a.k > h
          BY <1>1, <3>3
        <5> QED
          BY <5>1, <5>2 DEF Kept
      <4> QED
        BY <3>1, <4>2, <4>3 DEF KeptRow
    <3> QED
      BY <1>1, <2>3, <3>2, <3>3
  <2>4. KeptRow(next, new, 0)
    <3>1. \A n \in 1 .. 4 : new[4 * 0 + n] = Element(a.ii + 0, a.jj + 4 + n - 1)
      BY <1>1, <2>3
    <3> QED
      BY <2>2, <3>1 DEF KeptRow
  <2>5. next.k > 1 => KeptRow(next, new, 1)
    <3>1. SUFFICES ASSUME next.k > 1 PROVE KeptRow(next, new, 1)
      OBVIOUS
    <3>2. \A n \in 1 .. 4 : new[4 * 1 + n] = Element(a.ii + 1, a.jj + 4 + n - 1)
      <4>1. 1 <= a.k
        BY <1>1, <2>2, <3>1
      <4> QED
        BY <2>3, <4>1
    <3> QED
      BY <2>2, <3>2 DEF KeptRow
  <2> QED
    BY <2>4, <2>5 DEF Kept, next
<1>5. CASE ~ (a.k + 1 < 15)
  <2>1. next = Finish \/ next.k = 0
    <3>1. \/ next = [a EXCEPT !.k = 0, !.jj = @ + BSIZE]
          \/ next = [ii |-> a.ii + BSIZE, jj |-> 0, k |-> 0]
          \/ next = Finish
      BY <1>3, <1>5 DEF BlockLoops, Rows
    <3> HIDE DEF next
    <3>2. ASSUME next = [a EXCEPT !.k = 0, !.jj = @ + BSIZE] PROVE next.k = 0
      BY <1>2, <3>2
    <3> QED
      BY <3>1, <3>2
  <2> HIDE DEF next
  <2> QED
    BY <2>1 DEF Kept, next
<1> QED
  BY <1>4, <1>5

\* When every element is right the function is.
LEMMA AllRight ==
  ASSUME Sized, \A r \in 0 .. N - 1, q \in 0 .. M - 1 : Right(B, r, q)
  PROVE  valid
<1> SUFFICES ASSUME NEW cell \in 0 .. M * N - 1
             PROVE  B[cell] = correctTrans[cell]
  BY DEF valid
<1>1. M \in Nat /\ N \in Nat \ {0} /\ M * N \in Nat
  BY DEF Sized
<1>2. cell \in Int
  BY <1>1
<1>3. PICK q \in Int, r \in 0 .. N - 1 : q = cell \div N /\ r = cell % N /\ cell = N * q + r
  BY <1>1, <1>2, Euclid
<1>4. q >= 0
  <2>1. SUFFICES ASSUME q <= -1 PROVE FALSE
    OBVIOUS
  <2>2. q * N <= (-1) * N
    BY <1>1, <2>1, TimesGrows
  <2> QED
    BY <1>1, <1>2, <1>3, <2>2
<1>5. q < M
  <2>1. SUFFICES ASSUME M <= q PROVE FALSE
    BY <1>1
  <2>2. M * N <= q * N
    BY <1>1, <2>1, TimesGrows
  <2> QED
    BY <1>1, <1>2, <1>3, <2>2
<1>6. r \in 0 .. N - 1 /\ q \in 0 .. M - 1
  BY <1>1, <1>3, <1>4, <1>5
<1>7. B[cell] = r * M + q
  <2>1. q * N + r = cell
    BY <1>1, <1>3
  <2>2. Right(B, r, q)
    BY <1>6
  <2> QED
    BY <2>1, <2>2 DEF Right, Element
<1>8. correctTrans[cell] = (cell % N) * M + cell \div N
  BY DEF correctTrans
<1> QED
  BY <1>3, <1>7, <1>8, Zenon

\* What holds of the function under test while it runs, and when it returned
Validating == phase = "validate" => valid

IInv == Placed /\ Working /\ Validating

\* The functions that transpose_submit calls, and their shapes.
LEMMA CalleeTyped ==
  ASSUME Sized, i \in 1 .. func_counter
  PROVE  /\ callee \in {"trans", "trans_otherwise", "trans_32", "trans_64"}
         /\ callee = "trans_32" => M = 32 /\ N = 32
         /\ callee = "trans_64" => M = 64 /\ N = 64
<1>1. funcs[i] \in {Submit, Simple}
  BY DEF funcs, func_counter
<1> QED
  BY <1>1 DEF callee, Callee

\* A function starts with nothing done.
LEMMA BeginsRight ==
  ASSUME Sized, i \in 1 .. func_counter
  PROVE  /\ Positioned(callee, Begin) /\ Begin # Finish /\ Begin \in Counters
         /\ \A r \in 0 .. N - 1, q \in 0 .. M - 1 : ~ Done(callee, Begin, r, q)
         /\ \A t : Kept(callee, Begin, t)
<1>1. /\ callee \in {"trans", "trans_otherwise", "trans_32", "trans_64"}
      /\ callee = "trans_32" => M = 32 /\ N = 32
      /\ callee = "trans_64" => M = 64 /\ N = 64
  BY CalleeTyped
<1>2. PICK c : c = callee
  OBVIOUS
<1>3. M \in Nat /\ N \in Nat /\ M > 0 /\ N > 0
  BY DEF Sized
<1>4. Begin # Finish /\ Begin \in Counters /\ Begin.ii = 0 /\ Begin.jj = 0 /\ Begin.k = 0
  BY DEF Begin, Finish, Counters
<1>5. Positioned(c, Begin)
  <2>1. 0 <= 8 * (M \div 8) /\ 0 % 8 = 0
    BY <1>3
  <2>2. 0 \in {8 * n : n \in 0 .. 3} /\ 0 \in {8 * n : n \in 0 .. 7}
    <3>1. 0 = 8 * 0 /\ 0 \in 0 .. 3 /\ 0 \in 0 .. 7
      OBVIOUS
    <3> QED
      BY <3>1
  <2> QED
    BY <1>1, <1>2, <1>3, <1>4, <2>1, <2>2 DEF Positioned
<1>6. ASSUME NEW r \in 0 .. N - 1, NEW q \in 0 .. M - 1
      PROVE  ~ Done(c, Begin, r, q)
  <2>1. r \in Int /\ q \in Int /\ ~ (r < 0) /\ ~ (q < 0)
    BY <1>3
  <2>2. ~ DoneRows(Begin, r, q) /\ ~ DoneColumns(Begin, r, q)
    BY <1>4, <2>1 DEF DoneRows, DoneColumns
  <2>3. ~ DoneBlocks(Begin, r, q, r - Begin.ii)
    BY <1>4, <2>1 DEF DoneBlocks
  <2>4. ~ DoneBlocks(Begin, r, q, Turn(r - Begin.ii, q - Begin.jj))
    <3>1. ~ (Turn(r - Begin.ii, q - Begin.jj) < 0)
      BY <1>4, <2>1 DEF Turn
    <3> QED
      BY <1>4, <2>1, <3>1 DEF DoneBlocks
  <2> QED
    BY <1>4, <2>2, <2>3, <2>4 DEF Done
<1>7. \A t : Kept(c, Begin, t)
  BY <1>4 DEF Kept
<1> QED
  BY <1>2, <1>4, <1>5, <1>6, <1>7

\* Past the arguments both sizes are positive.
LEMMA Positive ==
  ASSUME Placed, phase \notin {"arguments", "exited"}
  PROVE  Sized
BY DEF Placed, Sized

\* The invariant of a running function, in a step that keeps the shape.
LEMMA SameShape ==
  ASSUME M' = M, N' = N, i' = i, WorkingAt(at', B', tmp')
  PROVE  WorkingAt(at, B, tmp)'
<1>1. callee' = callee
  BY DEF callee
<1>2. ([B |-> B, tmp |-> tmp] \in Mem)'
  BY DEF WorkingAt, Mem
<1>3. Positioned(callee, at)'
  <2>1. Positioned(callee, at')
    BY DEF WorkingAt
  <2> QED
    BY <1>1, <2>1 DEF Positioned, Finish, Counters
<1>4. (\A r \in 0 .. N - 1, q \in 0 .. M - 1 : Done(callee, at, r, q) => Right(B, r, q))'
  <2>1. \A r \in 0 .. N - 1, q \in 0 .. M - 1 : Done(callee, at', r, q) => Right(B', r, q)
    BY DEF WorkingAt
  <2>2. ASSUME NEW r, NEW q PROVE Done(callee, at, r, q)' <=> Done(callee, at', r, q)
    BY <1>1 DEF Done, DoneRows, DoneColumns, DoneBlocks, Finish, Turn, Columns, BSIZE
  <2>3. ASSUME NEW r, NEW q PROVE Right(B, r, q)' <=> Right(B', r, q)
    BY DEF Right, Element
  <2> QED
    BY <2>1, <2>2, <2>3
<1>5. Kept(callee, at, tmp)'
  <2>1. Kept(callee, at', tmp')
    BY DEF WorkingAt
  <2> QED
    BY <1>1, <2>1 DEF Kept, KeptRow, Element, Finish
<1> QED
  BY <1>2, <1>3, <1>4, <1>5 DEF WorkingAt

\* Nothing runs at first.
LEMMA InitHolds == Init => IInv
<1> SUFFICES ASSUME Init PROVE IInv
  OBVIOUS
<1>1. M \in Nat /\ N \in Nat
  BY ShapesAssumption DEF Init
<1>2. i \in 1 .. func_counter + 1 /\ phase = "arguments"
  BY DEF Init, func_counter, funcs
<1> QED
  BY <1>1, <1>2 DEF IInv, Placed, Working, Validating

\* A function starts with nothing done.
LEMMA StartHolds == IInv /\ StartFunction => IInv'
<1> SUFFICES ASSUME IInv, StartFunction PROVE IInv'
  OBVIOUS
<1>1. Sized /\ i \in 1 .. func_counter
  <2>1. phase = "function" /\ i <= func_counter /\ i \in 1 .. func_counter + 1 /\ func_counter = 2
    BY DEF StartFunction, IInv, Placed, func_counter, funcs
  <2> QED
    BY <2>1, Positive DEF IInv
<1>2. /\ phase' = "call" /\ at' = Begin /\ M' = M /\ N' = N /\ i' = i
      /\ B' = [cell \in 0 .. M * N - 1 |-> random] /\ tmp' = [r \in 1 .. 8 |-> random]
  BY DEF StartFunction
<1>3. [B |-> B', tmp |-> tmp'] \in Mem
  BY <1>2 DEF Mem, random
<1>4. WorkingAt(at', B', tmp')
  BY <1>1, <1>2, <1>3, BeginsRight DEF WorkingAt
<1>5. Working'
  BY <1>2, <1>4, SameShape DEF Working
<1>6. Placed'
  BY <1>1, <1>2 DEF IInv, Placed, Sized
<1>7. Validating'
  BY <1>2 DEF Validating
<1> QED
  BY <1>5, <1>6, <1>7 DEF IInv

\* An iteration keeps the invariant.
LEMMA IterateHolds == IInv /\ Iterate => IInv'
<1> SUFFICES ASSUME IInv, Iterate PROVE IInv'
  OBVIOUS
<1>1. /\ phase = "call" /\ at # Finish /\ UNCHANGED <<M, N, phase, i>>
      /\ at' = Advance(callee, M, N, at)
      /\ Execute(Body(callee, M, at))
  BY DEF Iterate, callee
<1>2. Sized
  BY <1>1, Positive DEF IInv
<1>3. WorkingAt(at, B, tmp)
  BY <1>1 DEF IInv, Working
<1>4. [B |-> B, tmp |-> tmp] \in Mem /\ Positioned(callee, at) /\ Kept(callee, at, tmp)
  BY <1>3 DEF WorkingAt
<1>5. PICK accesses : Made(Body(callee, M, at), accesses) /\ Iteration(callee, at, accesses)
  BY <1>1, <1>2, <1>4, BodyIterates
<1>6. StoredRight(accesses) /\ Remembered(tmp, tmp', accesses)
  BY <1>1, <1>2, <1>4, <1>5, IterationRuns
<1>7. Advanced(callee, at, at')
  BY <1>1, <1>2, <1>4, AdvanceCovers
<1>8. Kept(callee, at', tmp')
  <2>1. CASE callee = "trans_64"
    BY <1>1, <1>2, <1>4, <1>5, <1>6, <2>1, RowsKept
  <2>2. CASE callee # "trans_64"
    BY <2>2 DEF Kept
  <2> QED
    BY <2>1, <2>2
<1>9. ASSUME NEW r \in 0 .. N - 1, NEW q \in 0 .. M - 1, Done(callee, at', r, q)
      PROVE  Right(B', r, q)
  <2>1. CASE Done(callee, at, r, q)
    <3>1. Right(B, r, q)
      BY <1>3, <2>1 DEF WorkingAt
    <3> QED
      BY <1>6, <3>1 DEF StoredRight
  <2>2. CASE Covered(callee, at, r, q)
    <3>1. PICK x \in accesses : x.kind # "load" /\ x.i = r /\ x.j = q
      BY <1>5, <2>2 DEF Iteration
    <3> QED
      BY <1>6, <3>1 DEF StoredRight
  <2> QED
    BY <1>7, <1>9, <2>1, <2>2 DEF Advanced
<1>10. WorkingAt(at', B', tmp')
  BY <1>6, <1>7, <1>8, <1>9 DEF WorkingAt, StoredRight, Advanced
<1>11. Working'
  BY <1>1, <1>10, SameShape DEF Working
<1>12. Placed' /\ Validating'
  BY <1>1 DEF IInv, Placed, Validating
<1> QED
  BY <1>11, <1>12 DEF IInv

\* A function that returns stored every element.
LEMMA EndHolds == IInv /\ EndFunction => IInv'
<1> SUFFICES ASSUME IInv, EndFunction PROVE IInv'
  OBVIOUS
<1>1. /\ phase = "call" /\ phase' = "validate" /\ at = Finish /\ UNCHANGED <<M, N, i, B>>
  BY DEF EndFunction
<1>2. Sized
  BY <1>1, Positive DEF IInv
<1>3. \A r \in 0 .. N - 1, q \in 0 .. M - 1 : Right(B, r, q)
  BY <1>1 DEF IInv, Working, WorkingAt, Done
<1>4. valid
  BY <1>2, <1>3, AllRight
<1>5. Validating'
  BY <1>1, <1>4 DEF Validating, valid, correctTrans
<1>6. Placed' /\ Working'
  BY <1>1 DEF IInv, Placed, Working
<1> QED
  BY <1>5, <1>6 DEF IInv

\* The other steps leave the phases in which the invariant says something.
LEMMA OtherStepsHold ==
  ASSUME IInv, \/ CheckArguments \/ Validated \/ TracegenFails \/ Record \/ Report \/ Timeout
  PROVE  IInv'
<1>1. M' = M /\ N' = N /\ phase' \in {"function", "measured", "exited"}
  <2>1. CASE CheckArguments
    BY <2>1 DEF CheckArguments
  <2>2. CASE Validated
    BY <2>2 DEF Validated, ValidationError, NextFunction
  <2>3. CASE TracegenFails
    BY <2>3 DEF TracegenFails, ValidationError, NextFunction
  <2>4. CASE Record
    BY <2>4 DEF Record, NextFunction
  <2>5. CASE Report
    BY <2>5 DEF Report
  <2>6. CASE Timeout
    BY <2>6 DEF Timeout
  <2> QED
    BY <2>1, <2>2, <2>3, <2>4, <2>5, <2>6
<1>2. Working' /\ Validating'
  BY <1>1 DEF Working, Validating
<1>3. func_counter = 2 /\ Placed
  BY DEF func_counter, funcs, IInv
<1>4. Placed'
  <2>1. CASE CheckArguments
    BY <1>1, <1>3, <2>1 DEF CheckArguments, Placed
  <2>2. CASE phase \in {"call", "validate", "measured"} /\ phase' = "function" /\ i' = i + 1
    BY <1>1, <1>3, <2>2 DEF Placed
  <2>3. CASE Validated /\ phase' = "measured" /\ i' = i /\ phase = "validate"
    BY <1>1, <1>3, <2>3 DEF Placed
  <2>4. CASE phase' = "exited" /\ i' = i
    BY <1>1, <1>3, <2>4 DEF Placed
  <2> QED
    BY <2>1, <2>2, <2>3, <2>4 DEF Validated, TracegenFails, ValidationError, NextFunction, Record,
                                  Report, Timeout
<1> QED
  BY <1>2, <1>4 DEF IInv

\* Every step keeps the invariant.
LEMMA NextPreserves == IInv /\ [Next]_vars => IInv'
<1> SUFFICES ASSUME IInv, [Next]_vars PROVE IInv'
  OBVIOUS
<1>1. CASE UNCHANGED vars
  <2>1. UNCHANGED <<M, N, phase, i, at, B, tmp>>
    BY <1>1 DEF vars, tracegen
  <2>2. Placed' /\ Validating'
    BY <2>1 DEF IInv, Placed, Validating, valid, correctTrans
  <2>3. Working'
    <3>1. CASE phase = "call"
      <4>1. WorkingAt(at', B', tmp')
        BY <2>1, <3>1 DEF IInv, Working
      <4> QED
        BY <2>1, <4>1, SameShape DEF Working
    <3>2. CASE phase # "call"
      BY <2>1, <3>2 DEF Working
    <3> QED
      BY <3>1, <3>2
  <2> QED
    BY <2>2, <2>3 DEF IInv
<1> QED
  BY <1>1, StartHolds, IterateHolds, EndHolds, OtherStepsHold DEF Next

\* Every registered function stores the transpose of A in B, whatever the shape.
THEOREM EveryShapeTransposed == Spec => []Transposed
<1>1. IInv => Transposed
  BY DEF IInv, Validating, Transposed
<1> QED
  BY <1>1, InitHolds, NextPreserves, PTL DEF Spec

-----------------------------------------------------------------------------
(* The results. *)

\* The submission's entry of results is what its evaluation recorded.
Recording ==
  results.correct = 1 =>
    /\ results.funcid \in 1 .. func_counter /\ funcs[results.funcid] = Submit
    /\ phase = "exited" \/ results.funcid < i
    /\ func_list[results.funcid] = [correct |-> 1, num_misses |-> results.misses]

\* The entry of results is the submission's
Registered ==
  /\ i \in 1 .. func_counter + 1
  /\ phase \in {"call", "validate", "measured"} => i <= func_counter
  /\ \/ results.funcid = none
     \/ results.funcid \in 1 .. func_counter /\ funcs[results.funcid] = Submit
  /\ phase \in {"call", "validate", "measured"} /\ funcs[i] = Submit => results.funcid = i
  /\ DOMAIN func_list = 1 .. func_counter
  /\ func_list = [f \in DOMAIN func_list |-> func_list[f]]
  /\ results = [funcid |-> results.funcid, correct |-> results.correct, misses |-> results.misses]

\* What is shown is what was recorded
Shown ==
  /\ phase # "exited" => out = <<>>
  /\ out # <<>> /\ out[1] = 1 => results.correct = 1 /\ out[2] = results.misses

\* The invariant of the results
RInv == Recording /\ Registered /\ Shown

\* Nothing is recorded at first.
LEMMA RInvInit == Init => RInv
<1> SUFFICES ASSUME Init PROVE RInv
  OBVIOUS
<1>1. func_counter = 2
  BY DEF func_counter, funcs
<1>2. /\ results = [funcid |-> none, correct |-> 0, misses |-> INT_MAX]
      /\ i = 1 /\ phase = "arguments" /\ out = <<>>
      /\ func_list = [f \in 1 .. func_counter |-> [correct |-> 0, num_misses |-> 0]]
  BY DEF Init
<1>3. Recording /\ Shown
  BY <1>2 DEF Recording, Shown
<1>4. Registered
  BY <1>1, <1>2 DEF Registered
<1> QED
  BY <1>3, <1>4 DEF RInv

\* The next function, with nothing new recorded.
LEMMA SkipRecorded ==
  ASSUME RInv, phase \in {"call", "validate", "measured"}, NextFunction,
         UNCHANGED <<func_list, results, out>>
  PROVE  RInv'
<1>1. func_counter = 2 /\ phase' = "function" /\ i' = i + 1 /\ i \in 1 .. 2
  BY DEF NextFunction, RInv, Registered, func_counter, funcs
<1>2. Recording'
  BY <1>1 DEF RInv, Recording, Registered
<1>3. Registered'
  BY <1>1 DEF RInv, Registered
<1>4. Shown'
  BY <1>1 DEF RInv, Shown
<1> QED
  BY <1>2, <1>3, <1>4 DEF RInv

\* Every step keeps what is recorded and shown.
LEMMA RInvNext == RInv /\ [Next]_vars => RInv'
<1> SUFFICES ASSUME RInv, [Next]_vars PROVE RInv'
  OBVIOUS
<1>1. func_counter = 2
  BY DEF func_counter, funcs
<1>2. CASE UNCHANGED vars
  BY <1>2 DEF vars, RInv, Recording, Registered, Shown
<1>3. CASE CheckArguments
  BY <1>3 DEF CheckArguments, RInv, Recording, Registered, Shown
<1>4. CASE StartFunction
  <2>1. /\ phase = "function" /\ phase' = "call" /\ i' = i /\ func_list' = func_list /\ out' = out
        /\ results' = IF funcs[i] = Submit THEN [results EXCEPT !.funcid = i] ELSE results
        /\ i \in 1 .. func_counter
    BY <1>1, <1>4 DEF StartFunction, RInv, Registered
  <2>2. results'.correct = results.correct /\ results'.misses = results.misses
    BY <2>1 DEF RInv, Registered
  <2>3. results'.funcid = IF funcs[i] = Submit THEN i ELSE results.funcid
    BY <2>1 DEF RInv, Registered
  <2>4. results'.correct = 1 => funcs[i] # Submit
    <3>1. SUFFICES ASSUME results.correct = 1, funcs[i] = Submit PROVE FALSE
      BY <2>2
    <3>2. results.funcid \in 1 .. 2 /\ results.funcid < i /\ funcs[results.funcid] = Submit
      BY <1>1, <2>1, <3>1 DEF RInv, Recording
    <3>3. i = 2
      BY <1>1, <2>1, <3>2
    <3> QED
      BY <3>1, <3>3 DEF funcs, Submit, Simple
  <2>5. Recording'
    BY <2>1, <2>2, <2>3, <2>4 DEF RInv, Recording
  <2>6. results' = [funcid |-> results'.funcid, correct |-> results'.correct, misses |-> results'.misses]
    BY <2>1 DEF RInv, Registered
  <2>7. Registered'
    BY <1>1, <2>1, <2>3, <2>6 DEF RInv, Registered
  <2>8. Shown'
    BY <2>1 DEF RInv, Shown
  <2> QED
    BY <2>5, <2>7, <2>8 DEF RInv
<1>5. CASE Iterate
  BY <1>5 DEF Iterate, RInv, Recording, Registered, Shown
<1>6. CASE EndFunction
  BY <1>6 DEF EndFunction, RInv, Recording, Registered, Shown
<1>7. CASE Validated
  <2>1. CASE valid
    BY <1>7, <2>1 DEF Validated, RInv, Recording, Registered, Shown
  <2>2. CASE ~ valid
    BY <1>7, <2>2, SkipRecorded DEF Validated, ValidationError
  <2> QED
    BY <2>1, <2>2
<1>8. CASE TracegenFails
  BY <1>8, SkipRecorded DEF TracegenFails, ValidationError
<1>9. CASE Record
  <2>1. /\ phase = "measured" /\ phase' = "function" /\ i' = i + 1 /\ out' = out /\ i \in 1 .. 2
        /\ results' = Recorded
        /\ func_list' = [func_list EXCEPT ![i] = [correct |-> 1, num_misses |-> counts[2]]]
    BY <1>1, <1>9 DEF Record, NextFunction, RInv, Registered
  <2>2. /\ DOMAIN func_list' = 1 .. func_counter
        /\ func_list' = [f \in DOMAIN func_list' |-> func_list'[f]]
        /\ func_list'[i] = [correct |-> 1, num_misses |-> counts[2]]
        /\ \A f \in 1 .. func_counter : f # i => func_list'[f] = func_list[f]
    BY <1>1, <2>1 DEF RInv, Registered
  <2>3. CASE results.funcid = i
    <3>1. results' = [results EXCEPT !.correct = 1, !.misses = counts[2]]
      BY <2>1, <2>3 DEF Recorded
    <3>2. /\ results'.funcid = i /\ results'.correct = 1 /\ results'.misses = counts[2]
          /\ results' = [funcid |-> results'.funcid, correct |-> results'.correct, misses |-> results'.misses]
      BY <2>3, <3>1 DEF RInv, Registered
    <3>3. funcs[i] = Submit
      BY <2>1, <2>3 DEF RInv, Registered, none
    <3>4. Recording'
      <4>1. func_list'[results'.funcid] = [correct |-> 1, num_misses |-> results'.misses]
        BY <2>2, <3>2
      <4>2. results'.funcid \in 1 .. func_counter /\ results'.funcid < i' /\ funcs[results'.funcid] = Submit
        BY <1>1, <2>1, <3>2, <3>3
      <4> QED
        BY <4>1, <4>2 DEF Recording
    <3>5. Registered'
      BY <1>1, <2>1, <2>2, <3>2, <3>3 DEF Registered
    <3>6. Shown'
      BY <2>1 DEF RInv, Shown
    <3> QED
      BY <3>4, <3>5, <3>6 DEF RInv
  <2>4. CASE results.funcid # i
    <3>1. results' = results
      BY <2>1, <2>4 DEF Recorded
    <3>2. Recording'
      BY <1>1, <2>1, <2>2, <2>4, <3>1 DEF RInv, Recording
    <3>3. Registered'
      BY <1>1, <2>1, <2>2, <3>1 DEF RInv, Registered
    <3>4. Shown'
      BY <2>1 DEF RInv, Shown
    <3> QED
      BY <3>2, <3>3, <3>4 DEF RInv
  <2> QED
    BY <2>3, <2>4
<1>10. CASE Report
  <2>1. /\ phase = "function" /\ phase' = "exited" /\ UNCHANGED <<i, func_list, results>>
        /\ out' = IF results.funcid = none THEN <<0, 0>> ELSE <<results.correct, results.misses>>
    BY <1>10 DEF Report
  <2>2. Recording' /\ Registered'
    BY <2>1 DEF RInv, Recording, Registered
  <2>3. Shown'
    BY <2>1 DEF Shown
  <2> QED
    BY <2>2, <2>3 DEF RInv
<1>11. CASE Timeout
  <2>1. phase' = "exited" /\ UNCHANGED <<i, func_list, results>> /\ out' = <<0, 0>>
    BY <1>11 DEF Timeout
  <2>2. Recording' /\ Registered'
    BY <2>1 DEF RInv, Recording, Registered
  <2>3. Shown'
    BY <2>1 DEF Shown
  <2> QED
    BY <2>2, <2>3 DEF RInv
<1> QED
  BY <1>2, <1>3, <1>4, <1>5, <1>6, <1>7, <1>8, <1>9, <1>10, <1>11 DEF Next

\* What is reported for the submission is what its evaluation measured.
THEOREM ReportIsMeasured == Spec => []ReportSound
<1>1. RInv => ReportSound
  <2>1. SUFFICES ASSUME RInv, NEW f \in 1 .. func_counter, funcs[f] = Submit, out # <<>>, out[1] = 1
                 PROVE  func_list[f].correct = 1 /\ out[2] = func_list[f].num_misses
    BY DEF ReportSound
  <2>2. results.correct = 1 /\ out[2] = results.misses
    BY <2>1 DEF RInv, Shown
  <2>3. /\ results.funcid \in 1 .. func_counter /\ funcs[results.funcid] = Submit
        /\ func_list[results.funcid] = [correct |-> 1, num_misses |-> results.misses]
    BY <2>1, <2>2 DEF RInv, Recording
  <2>4. results.funcid = f
    <3>1. \A x \in 1 .. func_counter : funcs[x] = Submit => x = 1
      <4>1. func_counter = 2 /\ funcs[2] = Simple
        BY DEF func_counter, funcs
      <4>2. Simple # Submit
        BY DEF Simple, Submit
      <4>3. \A x \in 1 .. 2 : x = 1 \/ x = 2
        OBVIOUS
      <4> QED
        BY <4>1, <4>2, <4>3
    <3> QED
      BY <2>1, <2>3, <3>1
  <2> QED
    BY <2>2, <2>3, <2>4
<1> QED
  BY <1>1, RInvInit, RInvNext, PTL DEF Spec

=============================================================================
