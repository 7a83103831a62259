------------------------------- MODULE Trans -------------------------------
(***************************************************************************)
(* The transpose functions of src/cachelab/trans.c.  A is an N by M and B  *)
(* an M by N matrix.  A function is given by the iterations of its loops:  *)
(* Body is what one iteration of the loop over rows reads and writes (for  *)
(* trans, of the loop over elements), in the order of the code, Advance    *)
(* the loop counters of the next one.                                      *)
(*                                                                         *)
(* An access is a load from A, a store to B or both, one after the other.  *)
(* Its register is 0 when the value that is loaded is stored at once, or   *)
(* the number of one of the variables tmp0 to tmp7.                        *)
(***************************************************************************)
EXTENDS Integers, Sequences, SequencesExt

BSIZE == 8
BSIZE_64 == 4

Submit == "Transpose submission"
Simple == "Simple row-wise scan transpose"

-----------------------------------------------------------------------------
\* B[j][i] = A[i][j]
Copy(i, j) == [kind |-> "copy", i |-> i, j |-> j, reg |-> 0]

\* tmp = A[i][j] and B[j][i] = tmp; the numbers of tmp0 to tmp7 are 1 to 8
Save(i, j, reg) == [kind |-> "load", i |-> i, j |-> j, reg |-> reg]
Restore(i, j, reg) == [kind |-> "store", i |-> i, j |-> j, reg |-> reg]

\* A row of the elements j0 to j1 - 1
CopyRow(i, j0, j1) == [n \in 1 .. j1 - j0 |-> Copy(i, j0 + n - 1)]

\* Mutant: the element on the diagonal is copied in its turn
DiagonalLast_InTurn(ii, jj, i, size) == CopyRow(i, jj, jj + size)

\* The part of row i in the block at ii, jj: the element on the diagonal of
\* the block comes last, because there A and B evict each other
DiagonalLast(ii, jj, i, size) ==
  Append(RemoveAt(CopyRow(i, jj, jj + size), i - ii + 1), Copy(i, jj + i - ii))

block_trans_32(ii, jj, k) == DiagonalLast(ii, jj, ii + k, BSIZE)

\* Two rows of the right half are read with the left one
TwoRows(ii, jj, k) ==
  IF k < 2
  THEN [n \in 1 .. BSIZE_64 |-> Save(ii + k, jj + BSIZE_64 + n - 1, k * BSIZE_64 + n)]
  ELSE <<>>

StoredLines(ii, jj) ==
  [n \in 1 .. 2 * BSIZE_64 |->
     Restore(ii + (n - 1) \div BSIZE_64, jj + ((n - 1) % BSIZE_64), n)]

\* The k-th iteration, counted over its four loops, and last the two rows
\* that were kept
block_trans_64(ii, jj, k) ==
  LET low == ii + BSIZE_64
      right == jj + BSIZE_64
      quadrant(i0, j0, n) == DiagonalLast(i0, j0, i0 + n, BSIZE_64)
      diagonal == Len(quadrant(ii, jj, k))
  IN  CASE k < 4 -> SubSeq(quadrant(ii, jj, k), 1, diagonal - 1)
                      \o TwoRows(ii, jj, k) \o <<Last(quadrant(ii, jj, k))>>
        [] k \in 4 .. 7 -> quadrant(low, jj, k - 4)
        [] k \in 8 .. 11 -> quadrant(low, right, k - 8)
        [] k \in 12 .. 13 -> quadrant(ii, right, k - 10)
        [] k = 14 -> StoredLines(ii, right)

\* The iterations of a block
Rows(side) == IF side = 32 THEN 8 ELSE 15

-----------------------------------------------------------------------------
\* Which function transpose_submit calls, or trans itself
Callee(desc, M, N) == CASE desc = Simple -> "trans"
                        [] desc = Submit /\ M = 32 /\ N = 32 -> "trans_32"
                        [] desc = Submit /\ M = 64 /\ N = 64 -> "trans_64"
                        [] OTHER -> "trans_otherwise"

\* Mutant: the columns that fill no block are left out
Columns_Whole(M, jj) == IF jj < BSIZE * (M \div BSIZE) THEN BSIZE ELSE 0

\* The columns that trans_otherwise copies from jj on
Columns(M, jj) == IF jj < BSIZE * (M \div BSIZE) THEN BSIZE ELSE M - jj

\* at: the counters ii, jj of the block and k of the row
Body(callee, M, at) ==
  CASE callee = "trans_32" -> block_trans_32(at.ii, at.jj, at.k)
    [] callee = "trans_64" -> block_trans_64(at.ii, at.jj, at.k)
    [] callee = "trans_otherwise" -> CopyRow(at.k, at.jj, at.jj + Columns(M, at.jj))
    [] callee = "trans" -> <<Copy(at.k, at.jj)>>

Begin == [ii |-> 0, jj |-> 0, k |-> 0]
Finish == [ii |-> -1, jj |-> -1, k |-> -1]

\* trans_32 and trans_64: row by row, block by block
BlockLoops(side, at) ==
  CASE at.k + 1 < Rows(side) -> [at EXCEPT !.k = @ + 1]
    [] at.k + 1 = Rows(side) /\ at.jj + BSIZE < side ->
         [at EXCEPT !.k = 0, !.jj = @ + BSIZE]
    [] at.k + 1 = Rows(side) /\ at.jj + BSIZE >= side /\ at.ii + BSIZE < side ->
         [ii |-> at.ii + BSIZE, jj |-> 0, k |-> 0]
    [] OTHER -> Finish

\* trans_otherwise: all rows of each group of columns, the rest at the end
ColumnLoops(M, N, at) ==
  CASE at.k + 1 < N -> [at EXCEPT !.k = @ + 1]
    [] at.k + 1 = N /\ at.jj < BSIZE * (M \div BSIZE) ->
         [at EXCEPT !.k = 0, !.jj = @ + BSIZE]
    [] OTHER -> Finish

\* trans: element by element
ElementLoops(M, N, at) ==
  CASE at.jj + 1 < M -> [at EXCEPT !.jj = @ + 1]
    [] at.jj + 1 = M /\ at.k + 1 < N -> [at EXCEPT !.jj = 0, !.k = @ + 1]
    [] OTHER -> Finish

Advance(callee, M, N, at) ==
  CASE callee = "trans_32" -> BlockLoops(32, at)
    [] callee = "trans_64" -> BlockLoops(64, at)
    [] callee = "trans_otherwise" -> ColumnLoops(M, N, at)
    [] callee = "trans" -> ElementLoops(M, N, at)

=============================================================================
